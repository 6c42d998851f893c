-------------------------- MODULE ControlPlaneProofs --------------------------
(* Theorems about ControlPlane: typing, what reaches the nodes was admitted, *)
(* the unit comes with its script, what was admitted can be rendered.        *)
EXTENDS ControlPlane, TLAPS

USE ControlPlaneConstantsOK DEF ControlPlaneConstantsOK, gardenVars, seedVars, vars

-----------------------------------------------------------------------------
(* Typing *)

\* gardenlet's later steps follow a written Cluster.
StepInv == step # "cluster" => cluster # None

\* The Shoots the owner may have.
LEMMA SubmitForms ==
  ASSUME NEW s \in Submitted, NEW d \in BOOLEAN
  PROVE  WithDeletion(s, d) \in Shoots
  BY DEF Shoots

LEMMA ShootForms ==
  ASSUME NEW s \in Shoots
  PROVE  /\ s.deleted \in BOOLEAN
         /\ s # None
         /\ WithDeletion(s, TRUE) \in Shoots
         /\ s.extension # None => s.extension.providerConfig \in Raw
         /\ \A name \in DOMAIN s.resources : s.resources[name] \in Object
<1>1. PICK t \in Submitted, d \in BOOLEAN : s = WithDeletion(t, d)
  BY DEF Shoots
<1>2. s.extension = t.extension /\ s.resources = t.resources /\ s.deleted = d
  BY <1>1 DEF WithDeletion
<1>3. WithDeletion(s, TRUE) = WithDeletion(t, TRUE)
  BY <1>2 DEF WithDeletion
<1>4. WithDeletion(s, TRUE) \in Shoots
  BY <1>3, SubmitForms
<1>5. s.extension # None => s.extension.providerConfig \in Raw
  BY <1>2 DEF Raw
<1>6. \A name \in DOMAIN s.resources : s.resources[name] \in Object
  BY <1>2
<1> QED BY <1>2, <1>4, <1>5, <1>6

\* What the webhook renders is a set of files.
LEMMA FilesForms ==
  ASSUME NEW c \in Shoots, NEW e \in [providerConfig : Raw],
         NEW k \in [Object -> AnyContent \cup {None}], Renders(c, e, k)
  PROVE  Files(c, e, k) \in FileSets
<1> DEFINE config == ConfigOf(e)
           name   == AuditReference(config)
<1>1. config \in {EmptyConfig} \cup {Defaulted(raw) : raw \in Raw \ {None, Garbage}}
  BY DEF Renders, Decodes, ConfigOf
<1>2. UsesTLS(config) => c.resources[config.tls.secretReferenceName] \in Object
  BY ShootForms DEF Renders, RsyslogFilesRender, Refers
<1>3. AuditRules(config, c, k) \subseteq AuditTexts
  <2>1. CASE ~AuditEnabled(config)
    BY <2>1 DEF AuditRules
  <2>2. CASE AuditEnabled(config) /\ name = None
    BY <2>2 DEF AuditRules, AuditTexts
  <2>3. CASE AuditEnabled(config) /\ name # None
    <3> DEFINE o == k[c.resources[name]]
    <3>1. AuditRules(config, c, k) = {o.data["auditd"].auditRules}
      BY <2>3 DEF AuditRules
    <3>2. /\ name \in DOMAIN c.resources /\ o # None
          /\ "auditd" \in DOMAIN o.data /\ o.data["auditd"] \notin {None, Garbage}
      BY <2>3 DEF Renders, AuditFilesRender, Refers, Decodes
    <3>3. o \in AnyContent
      BY <3>2, ShootForms
    <3> HIDE DEF o
    <3> QED BY <3>1, <3>2, <3>3 DEF AuditTexts
  <2> QED BY <2>1, <2>2, <2>3
<1> HIDE DEF config
<1>4. Files(c, e, k) = [config     |-> config,
                        tlsSecret  |-> IF UsesTLS(config)
                                         THEN c.resources[config.tls.secretReferenceName]
                                         ELSE None,
                        auditRules |-> AuditRules(config, c, k)]
  BY DEF Files, config
<1> QED BY <1>1, <1>2, <1>3, <1>4 DEF FileSets

\* A change of what the webhook adds: nothing, a unit without files for a Shoot
\* seen in deletion, or a unit with a set of files.
LEMMA DeployedForms ==
  ASSUME TypeOK, DeployOsc, osc' # osc
  PROVE  \/ osc' = Nothing
         \/ seen.cluster # None /\ seen.cluster.deleted /\ osc'.files = None
         \/ osc'.files \in FileSets
<1> SUFFICES ASSUME osc' # Nothing
             PROVE  \/ seen.cluster # None /\ seen.cluster.deleted /\ osc'.files = None
                    \/ osc'.files \in FileSets
  OBVIOUS
<1>1. /\ ~EnsureAdditionalFilesFails(seen.cluster, seen.extension, seen.copies)
      /\ osc'.files = EnsureAdditionalFiles(seen.cluster, seen.extension, seen.copies)
  BY DEF DeployOsc
<1>2. seen.cluster # None
  BY <1>1 DEF EnsureAdditionalFilesFails
<1>3. CASE seen.cluster.deleted
  BY <1>1, <1>2, <1>3 DEF EnsureAdditionalFiles
<1>4. CASE ~seen.cluster.deleted
  <2>1. Renders(seen.cluster, seen.extension, seen.copies)
    BY <1>1, <1>4 DEF EnsureAdditionalFilesFails
  <2>2. seen.extension # None
    BY <2>1 DEF Renders
  <2>3. osc'.files = Files(seen.cluster, seen.extension, seen.copies)
    BY <1>1, <1>4 DEF EnsureAdditionalFiles
  <2>4. /\ seen.cluster \in Shoots /\ seen.extension \in [providerConfig : Raw]
        /\ seen.copies \in [Object -> AnyContent \cup {None}]
    BY <1>2, <2>2 DEF TypeOK
  <2> QED BY <2>1, <2>3, <2>4, FilesForms
<1> QED BY <1>3, <1>4

\* The values of the state, and gardenlet's place in its flow (every action).
THEOREM TypeCorrect == Spec => [](TypeOK /\ StepInv)
<1>1. Init => TypeOK /\ StepInv
  <2> SUFFICES ASSUME Init PROVE TypeOK /\ StepInv
    OBVIOUS
  <2>1. shoot \in Submitted
    BY DEF Init
  <2>2. shoot \in Shoots
    BY <2>1, SubmitForms
  <2>3. seen = [cluster |-> None, extension |-> None, copies |-> copies]
    BY DEF Init
  <2>4. /\ objects \in [Object -> AnyContent \cup {None}]
        /\ copies \in [Object -> AnyContent \cup {None}]
    BY DEF Init
  <2>5. seen \in [cluster   : Shoots \cup {None},
                 extension : [providerConfig : Raw] \cup {None},
                 copies    : [Object -> AnyContent \cup {None}]]
    BY <2>3, <2>4
  <2>6. changes \in 0..MaxChanges /\ faults \in 0..MaxFaults
    BY DEF Init
  <2>7. osc.unit \in BOOLEAN /\ osc.files = None /\ admitted \subseteq Raw
    BY DEF Init, Nothing
  <2> QED BY <2>2, <2>4, <2>5, <2>6, <2>7 DEF Init, TypeOK, StepInv
<1>2. TypeOK /\ StepInv /\ [Next]_vars => TypeOK' /\ StepInv'
  <2> SUFFICES ASSUME TypeOK, StepInv, [Next]_vars PROVE TypeOK' /\ StepInv'
    OBVIOUS
  <2>1. CASE Update
    <3>1. PICK new \in Submitted : Submit(WithDeletion(new, shoot.deleted))
      BY <2>1 DEF Update
    <3>2. shoot.deleted \in BOOLEAN
      BY ShootForms DEF TypeOK
    <3>3. shoot' \in Shoots
      BY <3>1, <3>2, SubmitForms DEF Submit
    <3>4. admitted' \subseteq Raw
      BY <3>1, <3>2, <3>3, SubmitForms, ShootForms DEF Submit, TypeOK, IsExtensionEnabled
    <3>5. changes' \in 0..MaxChanges
      BY <3>1 DEF Submit, Change, TypeOK
    <3> QED BY <3>1, <3>3, <3>4, <3>5 DEF Submit, TypeOK, StepInv
  <2>2. CASE DeleteShoot
    <3>1. shoot' \in Shoots
      BY <2>2, ShootForms DEF DeleteShoot, TypeOK
    <3>2. changes' \in 0..MaxChanges
      BY <2>2 DEF DeleteShoot, Change, TypeOK
    <3> QED BY <2>2, <3>1, <3>2 DEF DeleteShoot, TypeOK, StepInv
  <2>3. CASE \E o \in Object : \E content \in Content[o[1]] \cup {None} : ChangeObject(o, content)
    BY <2>3 DEF ChangeObject, Change, TypeOK, StepInv, AnyContent
  <2>4. CASE SyncCluster
    BY <2>4, ShootForms DEF SyncCluster, TypeOK, StepInv, IsExtensionEnabled
  <2>5. CASE CopyReferences
    BY <2>5 DEF CopyReferences, TypeOK, StepInv
  <2>6. CASE DeployExtension
    <3>1. cluster \in Shoots
      BY <2>6 DEF DeployExtension, TypeOK, StepInv
    <3>2. cluster.deleted \in BOOLEAN
      BY <3>1, ShootForms
    <3>3. extension' \in [providerConfig : Raw] \cup {None}
      BY <2>6, <3>1, <3>2, ShootForms DEF DeployExtension, TypeOK, IsExtensionEnabled
    <3> QED BY <2>6, <3>3 DEF DeployExtension, TypeOK, StepInv
  <2>7. CASE DeployOsc
    <3>1. osc'.unit \in BOOLEAN
      BY <2>7 DEF DeployOsc, TypeOK, Nothing, EnsureAdditionalUnits
    <3>2. osc'.files \in FileSets \cup {None}
      <4>1. CASE osc' = osc
        BY <4>1 DEF TypeOK
      <4>2. CASE osc' # osc
        <5>1. osc'.files = None \/ osc'.files \in FileSets
          BY <2>7, <4>2, DeployedForms DEF Nothing
        <5> QED BY <5>1
      <4> QED BY <4>1, <4>2
    <3> QED BY <2>7, <3>1, <3>2 DEF DeployOsc, TypeOK, StepInv
  <2>8. CASE FlowFails
    BY <2>8 DEF FlowFails, TypeOK, StepInv
  <2>9. CASE ObserveCluster \/ ObserveExtension \/ ObserveCopies
    BY <2>9 DEF ObserveCluster, ObserveExtension, ObserveCopies, Observe, TypeOK, StepInv
  <2>10. CASE UNCHANGED vars
    BY <2>10 DEF TypeOK, StepInv
  <2> QED
    BY <2>1, <2>2, <2>3, <2>4, <2>5, <2>6, <2>7, <2>8, <2>9, <2>10
    DEF Next, Owner, Gardenlet
<1> QED BY <1>1, <1>2, PTL DEF Spec

-----------------------------------------------------------------------------
(* What reaches the nodes was admitted *)

\* Every copy of the configuration on its way to the nodes was admitted, and the
\* admission accepts no Shoot without one.
ConfInv ==
  /\ IsExtensionEnabled(shoot.extension) => shoot.extension.providerConfig \in admitted
  /\ cluster # None /\ IsExtensionEnabled(cluster.extension) =>
       cluster.extension.providerConfig \in admitted
  /\ extension # None => extension.providerConfig \in admitted
  /\ seen.extension # None => seen.extension.providerConfig \in admitted
  /\ OnlyAdmittedConfigs
  /\ None \notin admitted

\* What the webhook adds comes from the Extension it sees.
LEMMA ConfigFromExtension ==
  ASSUME DeployOsc, osc'.files # None, osc' # osc
  PROVE  /\ seen.extension # None
         /\ seen.extension.providerConfig # None =>
              osc'.files.config = Defaulted(seen.extension.providerConfig)
<1>1. /\ ~EnsureAdditionalFilesFails(seen.cluster, seen.extension, seen.copies)
      /\ osc'.files = EnsureAdditionalFiles(seen.cluster, seen.extension, seen.copies)
  BY DEF DeployOsc, Nothing
<1>2. ~seen.cluster.deleted
  BY <1>1 DEF EnsureAdditionalFiles
<1>3. seen.extension # None
  BY <1>1, <1>2 DEF EnsureAdditionalFilesFails, Renders
<1>4. osc'.files.config = ConfigOf(seen.extension)
  BY <1>1, <1>2 DEF EnsureAdditionalFiles, Files
<1> QED BY <1>3, <1>4 DEF ConfigOf

\* The files on the nodes are made of an admitted configuration, never of the
\* empty one ensurer.go:66 starts from (every action).
THEOREM OnlyAdmittedConfigsAlways == Spec => []OnlyAdmittedConfigs
<1>1. Init => ConfInv
  BY DEF Init, ConfInv, OnlyAdmittedConfigs, Nothing
<1>2. TypeOK /\ StepInv /\ ConfInv /\ [Next]_vars => ConfInv'
  <2> SUFFICES ASSUME TypeOK, StepInv, ConfInv, [Next]_vars PROVE ConfInv'
    OBVIOUS
  <2>1. CASE Update
    <3>1. PICK d \in BOOLEAN, new \in Submitted : Submit(WithDeletion(new, d))
      BY <2>1, ShootForms DEF Update, TypeOK
    <3>2. IsExtensionEnabled(shoot'.extension) =>
            /\ shoot'.extension.providerConfig # None
            /\ admitted' = admitted \cup {shoot'.extension.providerConfig}
      BY <3>1 DEF Submit, Validate, ValidProviderConfig
    <3>3. ~IsExtensionEnabled(shoot'.extension) => admitted' = admitted
      BY <3>1 DEF Submit
    <3> QED BY <3>1, <3>2, <3>3 DEF Submit, ConfInv, OnlyAdmittedConfigs
  <2>2. CASE DeleteShoot
    <3>1. shoot'.extension = shoot.extension
      BY <2>2 DEF DeleteShoot, WithDeletion
    <3> QED BY <2>2, <3>1 DEF DeleteShoot, ConfInv, OnlyAdmittedConfigs
  <2>3. CASE \E o \in Object : \E content \in Content[o[1]] \cup {None} : ChangeObject(o, content)
    BY <2>3 DEF ChangeObject, ConfInv, OnlyAdmittedConfigs
  <2>4. CASE SyncCluster
    BY <2>4 DEF SyncCluster, ConfInv, OnlyAdmittedConfigs
  <2>5. CASE CopyReferences
    BY <2>5 DEF CopyReferences, ConfInv, OnlyAdmittedConfigs
  <2>6. CASE DeployExtension
    <3>1. cluster # None
      BY <2>6 DEF DeployExtension, StepInv
    <3>2. extension' # None => extension'.providerConfig \in admitted
      BY <2>6, <3>1 DEF DeployExtension, ConfInv
    <3> QED BY <2>6, <3>2 DEF DeployExtension, ConfInv, OnlyAdmittedConfigs
  <2>7. CASE DeployOsc
    <3>1. OnlyAdmittedConfigs'
      <4> SUFFICES ASSUME osc'.files # None
                   PROVE  \E raw \in admitted \ {None} : osc'.files.config = Defaulted(raw)
        BY <2>7 DEF DeployOsc, OnlyAdmittedConfigs
      <4>1. CASE osc' = osc
        BY <4>1 DEF ConfInv, OnlyAdmittedConfigs
      <4>2. CASE osc' # osc
        <5>1. seen.extension.providerConfig \in admitted \ {None}
          BY <2>7, <4>2, ConfigFromExtension DEF ConfInv
        <5> QED BY <2>7, <4>2, <5>1, ConfigFromExtension
      <4> QED BY <4>1, <4>2
    <3> QED BY <2>7, <3>1 DEF DeployOsc, ConfInv
  <2>8. CASE FlowFails
    BY <2>8 DEF FlowFails, ConfInv, OnlyAdmittedConfigs
  <2>9. CASE ObserveCluster \/ ObserveExtension \/ ObserveCopies
    BY <2>9 DEF ObserveCluster, ObserveExtension, ObserveCopies, Observe, ConfInv,
                OnlyAdmittedConfigs, TypeOK
  <2>10. CASE UNCHANGED vars
    BY <2>10 DEF ConfInv, OnlyAdmittedConfigs
  <2> QED
    BY <2>1, <2>2, <2>3, <2>4, <2>5, <2>6, <2>7, <2>8, <2>9, <2>10
    DEF Next, Owner, Gardenlet
<1>3. ConfInv => OnlyAdmittedConfigs
  BY DEF ConfInv
<1> QED BY <1>1, <1>2, <1>3, TypeCorrect, PTL DEF Spec

-----------------------------------------------------------------------------
(* The unit and its script *)

\* A Shoot in deletion stays so, and nobody sees one in deletion that is not.
DeletionInv ==
  /\ cluster # None /\ cluster.deleted => shoot.deleted
  /\ seen.cluster # None /\ seen.cluster.deleted => shoot.deleted
  /\ UnitHasScript

\* The webhook adds the unit without the files only for a Shoot in deletion,
\* however old what it sees is (every action; DeployOsc decides it).
THEOREM UnitHasScriptAlways == Spec => []UnitHasScript
<1>1. Init => DeletionInv
  BY DEF Init, DeletionInv, UnitHasScript, Nothing
<1>2. TypeOK /\ StepInv /\ DeletionInv /\ [Next]_vars => DeletionInv'
  <2> SUFFICES ASSUME TypeOK, StepInv, DeletionInv, [Next]_vars PROVE DeletionInv'
    OBVIOUS
  <2>1. CASE Update
    <3>1. UNCHANGED <<seedVars, seen>>
      BY <2>1 DEF Update, Submit
    <3>2. shoot'.deleted = shoot.deleted
      BY <2>1 DEF Update, Submit, WithDeletion
    <3> QED BY <3>1, <3>2 DEF DeletionInv, UnitHasScript
  <2>2. CASE DeleteShoot
    <3>1. shoot'.deleted
      BY <2>2 DEF DeleteShoot, WithDeletion
    <3> QED BY <3>1 DEF DeletionInv, UnitHasScript
  <2>3. CASE \E o \in Object : \E content \in Content[o[1]] \cup {None} : ChangeObject(o, content)
    BY <2>3 DEF ChangeObject, DeletionInv, UnitHasScript
  <2>4. CASE SyncCluster
    BY <2>4 DEF SyncCluster, DeletionInv, UnitHasScript
  <2>5. CASE CopyReferences \/ DeployExtension \/ FlowFails
    BY <2>5 DEF CopyReferences, DeployExtension, FlowFails, DeletionInv, UnitHasScript
  <2>6. CASE DeployOsc
    <3>1. UnitHasScript'
      <4>1. CASE osc' = osc
        BY <2>6, <4>1 DEF DeployOsc, DeletionInv, UnitHasScript
      <4>2. CASE osc' = Nothing
        BY <4>2 DEF Nothing, UnitHasScript
      <4>3. CASE osc' # osc /\ osc' # Nothing
        BY <2>6, <4>3, DeployedForms DEF DeployOsc, DeletionInv, UnitHasScript
      <4> QED BY <4>1, <4>2, <4>3
    <3> QED BY <2>6, <3>1 DEF DeployOsc, DeletionInv
  <2>7. CASE ObserveCluster \/ ObserveExtension \/ ObserveCopies
    BY <2>7 DEF ObserveCluster, ObserveExtension, ObserveCopies, Observe, DeletionInv,
                UnitHasScript, TypeOK
  <2>8. CASE UNCHANGED vars
    BY <2>8 DEF DeletionInv, UnitHasScript
  <2> QED
    BY <2>1, <2>2, <2>3, <2>4, <2>5, <2>6, <2>7, <2>8 DEF Next, Owner, Gardenlet
<1>3. DeletionInv => UnitHasScript
  BY DEF DeletionInv
<1> QED BY <1>1, <1>2, <1>3, TypeCorrect, PTL DEF Spec

-----------------------------------------------------------------------------
(* What was admitted can be rendered *)

\* What the admission found valid stays valid until an object the Shoot refers to
\* is changed.
AdmittedInv == ~replaced => Validate(shoot, objects)

\* The admission reads only the objects the Shoot refers to.
LEMMA ValidateReadsReferenced ==
  ASSUME NEW s, NEW f, NEW g, Validate(s, f),
         \A name \in DOMAIN s.resources : g[s.resources[name]] = f[s.resources[name]]
  PROVE  Validate(s, g)
<1> SUFFICES ASSUME IsExtensionEnabled(s.extension)
             PROVE  ValidProviderConfig(s.extension.providerConfig, s.resources, g)
  BY DEF Validate
<1> DEFINE config == Defaulted(s.extension.providerConfig)
<1>1. ValidProviderConfig(s.extension.providerConfig, s.resources, f)
  BY DEF Validate
<1>2. ValidReferences(config, s.resources, f)
  BY <1>1 DEF ValidProviderConfig
<1>3. ValidReferences(config, s.resources, g)
  BY <1>2 DEF ValidReferences, Exists, Refers
<1> QED BY <1>1, <1>3 DEF ValidProviderConfig

\* The admission asks for the extension and the resources alone.
LEMMA ValidateIgnoresDeletion ==
  ASSUME NEW s, NEW d, NEW f, Validate(s, f)
  PROVE  Validate(WithDeletion(s, d), f)
  BY DEF Validate, WithDeletion

\* The checks of the admission are as strict as those of the webhook
\* (shoot.go:57-130 against rsyslog.go and auditd.go).
LEMMA ValidRenders ==
  ASSUME NEW s \in Shoots, NEW f, Validate(s, f), IsExtensionEnabled(s.extension)
  PROVE  LET fresh == [providerConfig |-> s.extension.providerConfig]
             files == Files(s, fresh, f)
         IN /\ Renders(s, fresh, f)
            /\ files.tlsSecret # None =>
                 /\ f[files.tlsSecret] # None
                 /\ {"ca", "crt", "key"} \subseteq DOMAIN f[files.tlsSecret].data
            /\ None \notin files.auditRules
<1> DEFINE raw    == s.extension.providerConfig
           fresh  == [providerConfig |-> raw]
           config == Defaulted(raw)
           name   == AuditReference(config)
           audit  == f[s.resources[name]]
<1>1. /\ raw # None /\ Decodes(raw)
      /\ ValidReferences(config, s.resources, f)
  BY DEF Validate, ValidProviderConfig
<1>2. ConfigOf(fresh) = config
  BY <1>1 DEF ConfigOf
<1>3. fresh # None
  <2>1. s.extension # None
    BY DEF IsExtensionEnabled
  <2>2. raw \in Raw
    BY <2>1, ShootForms
  <2>3. fresh \in [providerConfig : Raw]
    BY <2>2
  <2> QED BY <2>3
<1>4. UsesTLS(config) =>
        LET o == s.resources[config.tls.secretReferenceName]
        IN /\ Refers(s.resources, "Secret", config.tls.secretReferenceName)
           /\ f[o] # None /\ {"ca", "crt", "key"} \subseteq DOMAIN f[o].data
  BY <1>1 DEF ValidReferences, Exists, ValidSecret
<1>5. AuditEnabled(config) /\ name # None =>
        /\ Refers(s.resources, "ConfigMap", name)
        /\ audit # None /\ ValidConfigMap(audit)
  <2> SUFFICES ASSUME AuditEnabled(config), name # None
               PROVE  /\ Refers(s.resources, "ConfigMap", name)
                      /\ audit # None /\ ValidConfigMap(audit)
    OBVIOUS
  <2>1. UsesConfigMap(config) /\ name = config.auditConfig.configMapReferenceName
    BY DEF AuditReference, AuditEnabled, UsesConfigMap
  <2> HIDE DEF config, name
  <2> QED BY <1>1, <2>1 DEF ValidReferences, Exists
<1>6. Renders(s, fresh, f)
  <2>1. RsyslogFilesRender(config, s)
    BY <1>4 DEF RsyslogFilesRender
  <2>2. AuditFilesRender(config, s, f)
    BY <1>5 DEF AuditFilesRender, ValidConfigMap
  <2> QED BY <1>1, <1>2, <1>3, <2>1, <2>2 DEF Renders
<1>7. None \notin AuditRules(config, s, f)
  <2>1. CASE ~AuditEnabled(config)
    BY <2>1 DEF AuditRules
  <2>2. CASE AuditEnabled(config) /\ name = None
    BY <2>2, DefaultRulesOK DEF AuditRules, DefaultRulesOK
  <2>3. CASE AuditEnabled(config) /\ name # None
    <3>1. AuditRules(config, s, f) = {audit.data["auditd"].auditRules}
      BY <2>3 DEF AuditRules
    <3> QED BY <1>5, <2>3, <3>1 DEF ValidConfigMap, ValidAuditd
  <2> QED BY <2>1, <2>2, <2>3
<1>8. Files(s, fresh, f).tlsSecret # None =>
        /\ f[Files(s, fresh, f).tlsSecret] # None
        /\ {"ca", "crt", "key"} \subseteq DOMAIN f[Files(s, fresh, f).tlsSecret].data
  BY <1>2, <1>4 DEF Files
<1> QED BY <1>2, <1>6, <1>7, <1>8 DEF Files

\* An admitted configuration renders, unless the owner changed what it refers to
\* (every action; only ChangeObject can disturb it).
THEOREM AdmittedRendersAlways == Spec => []AdmittedRenders
<1>1. Init => AdmittedInv
  BY DEF Init, AdmittedInv, Validate
<1>2. TypeOK /\ AdmittedInv /\ [Next]_vars => AdmittedInv'
  <2> SUFFICES ASSUME TypeOK, AdmittedInv, [Next]_vars, ~replaced'
               PROVE  Validate(shoot', objects')
    BY DEF AdmittedInv
  <2>1. CASE Update
    BY <2>1 DEF Update, Submit
  <2>2. CASE DeleteShoot
    BY <2>2, ValidateIgnoresDeletion DEF DeleteShoot, AdmittedInv
  <2>3. CASE \E o \in Object : \E content \in Content[o[1]] \cup {None} : ChangeObject(o, content)
    <3>0. PICK o \in Object : \E content \in Content[o[1]] \cup {None} : ChangeObject(o, content)
      BY <2>3
    <3>1. PICK content \in Content[o[1]] \cup {None} : ChangeObject(o, content)
      BY <3>0
    <3>2. /\ ~replaced /\ shoot' = shoot
          /\ \A name \in DOMAIN shoot.resources : shoot.resources[name] # o
      BY <3>1 DEF ChangeObject
    <3>3. \A name \in DOMAIN shoot.resources :
            objects'[shoot.resources[name]] = objects[shoot.resources[name]]
      BY <3>1, <3>2, ShootForms DEF ChangeObject, TypeOK
    <3> QED BY <3>2, <3>3, ValidateReadsReferenced DEF AdmittedInv
  <2>4. CASE Gardenlet \/ FlowFails
    BY <2>4 DEF Gardenlet, SyncCluster, CopyReferences, DeployExtension, DeployOsc, FlowFails,
                AdmittedInv
  <2>5. CASE ObserveCluster \/ ObserveExtension \/ ObserveCopies
    BY <2>5 DEF ObserveCluster, ObserveExtension, ObserveCopies, Observe, AdmittedInv
  <2>6. CASE UNCHANGED vars
    BY <2>6 DEF AdmittedInv
  <2> QED
    BY <2>1, <2>2, <2>3, <2>4, <2>5, <2>6 DEF Next, Owner
<1>3. TypeOK /\ AdmittedInv => AdmittedRenders
  <2> SUFFICES ASSUME TypeOK, AdmittedInv, IsExtensionEnabled(shoot.extension), ~shoot.deleted,
                      ~replaced
               PROVE  AdmittedRenders
    BY DEF AdmittedRenders
  <2>1. shoot \in Shoots /\ shoot # None /\ Validate(shoot, objects)
    BY ShootForms DEF TypeOK, AdmittedInv
  <2> QED BY <2>1, ValidRenders DEF AdmittedRenders, EnsureAdditionalFilesFails
<1> QED BY <1>1, <1>2, <1>3, TypeCorrect, PTL DEF Spec
=============================================================================
