----------------------------- MODULE ControlPlane ----------------------------
(***************************************************************************)
(* The way of a configuration from the owner of a Shoot to its             *)
(* OperatingSystemConfig: the owner submits Shoots, which the admission    *)
(* webhook validates together with the objects they refer to; gardenlet    *)
(* writes the Cluster, the copies of the referenced objects, the Extension *)
(* and the OperatingSystemConfig, again and again; the webhook of the      *)
(* extension is called for the last of these and works with what its       *)
(* informers have seen.                                                    *)
(*                                                                         *)
(* The owner may delete an object and create another one of that name at   *)
(* any time, also while a Shoot refers to it; gardenlet and the informers  *)
(* lag behind; and a flow may stop at every step and begin anew.           *)
(***************************************************************************)
EXTENDS OscWebhook

CONSTANTS
  Object,      \* <<kind, name>> of the owner's objects
  Content,     \* what the owner puts into the objects of each kind
  Submitted,   \* the Shoots the owner submits, none in deletion
  MaxChanges,  \* bound: the owner's changes
  MaxFaults    \* bound: failing steps of gardenlet

AnyContent == UNION {Content[o[1]] : o \in Object}

\* What providerConfig is in the Shoots the owner submits.
Raw == {s.extension.providerConfig : s \in {t \in Submitted : t.extension # None}}

\* The Shoots there may be.
WithDeletion(s, d) == [extension |-> s.extension, resources |-> s.resources, deleted |-> d]

Shoots == {WithDeletion(s, d) : s \in Submitted, d \in BOOLEAN}

\* The audit rules there may be, and what the webhook may add.
AuditTexts ==
  {DefaultRules} \cup
    {o.data["auditd"].auditRules : o \in
       {c \in AnyContent : "auditd" \in DOMAIN c.data /\ c.data["auditd"] \notin {None, Garbage}}}

FileSets ==
  [config     : {EmptyConfig} \cup {Defaulted(raw) : raw \in Raw \ {None, Garbage}},
   tlsSecret  : Object \cup {None},
   auditRules : SUBSET AuditTexts]

ASSUME ControlPlaneConstantsOK ==
  /\ None \notin AnyContent \cup Shoots \cup [providerConfig : Raw]
  /\ None \notin FileSets
  /\ \A s \in Submitted :
       /\ s = WithDeletion(s, FALSE)
       /\ \A name \in DOMAIN s.resources : s.resources[name] \in Object
  /\ MaxChanges \in Nat /\ MaxFaults \in Nat

VARIABLES
  shoot,      \* the Shoot in the garden
  objects,    \* the owner's Secrets and ConfigMaps; None: there is none
  cluster,    \* the Shoot as the Cluster resource of the seed has it
  copies,     \* the ref-... objects in the namespace of the Shoot
  enabled,    \* that namespace has the label the webhook selects
  extension,  \* the Extension; None: there is none
  seen,       \* cluster, extension and copies as the webhook's informers have them
  osc,        \* what the webhook added: files (None: no files) and unit
  step,       \* gardenlet's next step
  admitted,   \* history: the configurations admitted with an enabled extension
  replaced,   \* history: an object the Shoot refers to was changed since its admission
  changes, faults

gardenVars  == <<shoot, objects, admitted, replaced, changes>>
seedVars    == <<cluster, copies, enabled, extension, osc>>
vars == <<gardenVars, seedVars, seen, step, faults>>

Nothing == [files |-> None, unit |-> FALSE]

Init ==
  /\ shoot \in {s \in Submitted : ~IsExtensionEnabled(s.extension)}
  /\ objects \in {f \in [Object -> AnyContent \cup {None}] :
                   \A o \in Object : f[o] \in Content[o[1]] \cup {None}}
  /\ cluster = None /\ extension = None /\ enabled = FALSE
  /\ copies = [o \in Object |-> None]
  /\ seen = [cluster |-> cluster, extension |-> extension, copies |-> copies]
  /\ osc = Nothing /\ step = "cluster"
  /\ admitted = {} /\ replaced = FALSE /\ changes = 0 /\ faults = 0

-----------------------------------------------------------------------------
(* The owner *)

Change == changes < MaxChanges /\ changes' = changes + 1

\* A change of the Shoot passes the admission webhook, in deletion as well.
Submit(new) ==
  /\ Change
  /\ new # shoot /\ Validate(new, objects)
  /\ shoot' = new
  /\ admitted' = IF IsExtensionEnabled(new.extension)
                   THEN admitted \cup {new.extension.providerConfig} ELSE admitted
  /\ replaced' = FALSE
  /\ UNCHANGED <<objects, seedVars, seen, step, faults>>

Update ==
  \E new \in Submitted : Submit(WithDeletion(new, shoot.deleted))

\* A request to delete is none the admission webhook is asked about.
DeleteShoot ==
  /\ Change
  /\ ~shoot.deleted
  /\ shoot' = WithDeletion(shoot, TRUE)
  /\ UNCHANGED <<objects, admitted, replaced, seedVars, seen, step, faults>>

\* The content of an immutable object can only be replaced by deleting it.
ChangeObject(o, content) ==
  /\ Change
  /\ objects[o] # content
  /\ content # None /\ objects[o] # None => ~objects[o].immutable
  /\ objects' = [objects EXCEPT ![o] = content]
  /\ replaced' = (replaced \/ \E name \in DOMAIN shoot.resources : shoot.resources[name] = o)
  /\ UNCHANGED <<shoot, admitted, seedVars, seen, step, faults>>

Owner ==
  \/ Update
  \/ DeleteShoot
  \/ \E o \in Object : \E content \in Content[o[1]] \cup {None} : ChangeObject(o, content)

-----------------------------------------------------------------------------
(* gardenlet *)

SyncCluster ==
  /\ step = "cluster" /\ step' = "references"
  /\ cluster' = shoot
  /\ enabled' = IsExtensionEnabled(shoot.extension)
  /\ UNCHANGED <<gardenVars, copies, extension, osc, seen, faults>>

Referenced == {cluster.resources[name] : name \in DOMAIN cluster.resources}

CopyReferences ==
  /\ step = "references"
  /\ IF \A o \in Referenced : objects[o] # None
       THEN /\ copies' = [o \in Object |-> IF o \in Referenced THEN objects[o] ELSE None]
            /\ step' = "extension"
       ELSE UNCHANGED copies /\ step' = "cluster"
  /\ UNCHANGED <<gardenVars, cluster, enabled, extension, osc, seen, faults>>

\* The Extension of a Shoot in deletion stays until its Worker is gone.
DeployExtension ==
  /\ step = "extension" /\ step' = "osc"
  /\ extension' =
       CASE cluster.deleted -> extension
         [] ~cluster.deleted /\ IsExtensionEnabled(cluster.extension) ->
              [providerConfig |-> cluster.extension.providerConfig]
         [] OTHER -> None
  /\ UNCHANGED <<gardenVars, cluster, copies, enabled, osc, seen, faults>>

\* Mutant of DeployOsc: an error of EnsureAdditionalFiles is only logged.
DeployOscDespiteError ==
  /\ step = "osc" /\ step' = "cluster"
  /\ osc' =
       CASE ~enabled -> Nothing
         [] enabled /\ EnsureAdditionalFilesFails(seen.cluster, seen.extension, seen.copies) ->
              [files |-> None, unit |-> EnsureAdditionalUnits]
         [] OTHER ->
              [files |-> EnsureAdditionalFiles(seen.cluster, seen.extension, seen.copies),
               unit  |-> EnsureAdditionalUnits]
  /\ UNCHANGED <<gardenVars, cluster, copies, enabled, extension, seen, faults>>

\* The API server calls the webhook for a labelled namespace; an error of the
\* webhook fails the request.
DeployOsc ==
  /\ step = "osc" /\ step' = "cluster"
  /\ osc' =
       CASE ~enabled -> Nothing
         [] enabled /\ EnsureAdditionalFilesFails(seen.cluster, seen.extension, seen.copies) -> osc
         [] OTHER ->
              [files |-> EnsureAdditionalFiles(seen.cluster, seen.extension, seen.copies),
               unit  |-> EnsureAdditionalUnits]
  /\ UNCHANGED <<gardenVars, cluster, copies, enabled, extension, seen, faults>>

FlowFails ==
  /\ faults < MaxFaults /\ faults' = faults + 1
  /\ step # "cluster" /\ step' = "cluster"
  /\ UNCHANGED <<gardenVars, seedVars, seen>>

Gardenlet == SyncCluster \/ CopyReferences \/ DeployExtension \/ DeployOsc

-----------------------------------------------------------------------------
(* The informers of the webhook, one for each kind *)

Observe(kind, current) ==
  /\ seen[kind] # current
  /\ seen' = [seen EXCEPT ![kind] = current]
  /\ UNCHANGED <<gardenVars, seedVars, step, faults>>

ObserveCluster   == Observe("cluster", cluster)
ObserveExtension == Observe("extension", extension)
ObserveCopies    == Observe("copies", copies)

-----------------------------------------------------------------------------

Next ==
  Owner \/ Gardenlet \/ FlowFails \/ ObserveCluster \/ ObserveExtension \/ ObserveCopies

Spec == Init /\ [][Next]_vars

\* gardenlet reconciles a Shoot periodically and retries what failed; the
\* informers catch up.
FairSpec ==
  /\ Spec
  /\ WF_vars(Gardenlet)
  /\ WF_vars(ObserveCluster) /\ WF_vars(ObserveExtension) /\ WF_vars(ObserveCopies)

-----------------------------------------------------------------------------
(* Properties *)

\* The values of the state; nothing but what the owner submitted is admitted,
\* copied or cached, and the TLS files come from an object, never from the name of
\* a reference (rsyslog.go:226).
TypeOK ==
  /\ shoot \in Shoots
  /\ objects \in [Object -> AnyContent \cup {None}]
  /\ cluster \in Shoots \cup {None}
  /\ copies \in [Object -> AnyContent \cup {None}]
  /\ enabled \in BOOLEAN
  /\ extension \in [providerConfig : Raw] \cup {None}
  /\ seen \in [cluster   : Shoots \cup {None},
               extension : [providerConfig : Raw] \cup {None},
               copies    : [Object -> AnyContent \cup {None}]]
  /\ osc.unit \in BOOLEAN /\ osc.files \in FileSets \cup {None}
  /\ step \in {"cluster", "references", "extension", "osc"}
  /\ admitted \subseteq Raw
  /\ replaced \in BOOLEAN
  /\ changes \in 0..MaxChanges /\ faults \in 0..MaxFaults

\* Only a configuration the admission accepted for an enabled extension ever
\* reaches the nodes, whatever is cached, submitted while the extension is
\* disabled, or in between: never the empty configuration that ensurer.go:66
\* starts from, which would forward to nowhere and without TLS.
OnlyAdmittedConfigs ==
  osc.files # None => \E raw \in admitted \ {None} : osc.files.config = Defaulted(raw)

\* What was admitted can be rendered: as long as the owner leaves the referenced
\* objects alone, the webhook does not fail once it sees the Shoot and its
\* objects, the Secret has all keys the TLS files are made of, and the audit
\* rules are not empty (shoot.go:57-130 against rsyslog.go and auditd.go).
AdmittedRenders ==
  IsExtensionEnabled(shoot.extension) /\ ~shoot.deleted /\ ~replaced =>
    LET fresh == [providerConfig |-> shoot.extension.providerConfig]
        files == Files(shoot, fresh, objects)
    IN /\ ~EnsureAdditionalFilesFails(shoot, fresh, objects)
       /\ files.tlsSecret # None =>
            /\ objects[files.tlsSecret] # None
            /\ {"ca", "crt", "key"} \subseteq DOMAIN objects[files.tlsSecret].data
       /\ None \notin files.auditRules

\* The unit never comes without the script it starts, but for a Shoot in
\* deletion (ensurer.go:51 and 94).
UnitHasScript == osc.unit /\ osc.files = None => shoot.deleted

\* What the Shoot asks for, said without the webhook.
Wanted ==
  LET raw    == shoot.extension.providerConfig
      tls    == raw.tls # None /\ raw.tls.enabled
      off    == raw.auditConfig # None /\ ~raw.auditConfig.enabled
      custom == raw.auditConfig # None /\ raw.auditConfig.configMapReferenceName # None
  IN /\ osc.unit
     /\ osc.files.config.target = raw.target
     /\ osc.files.tlsSecret =
          IF tls THEN shoot.resources[raw.tls.secretReferenceName] ELSE None
     /\ off => osc.files.auditRules = {}
     /\ ~off /\ ~custom => osc.files.auditRules = {DefaultRules}
     /\ ~off /\ custom =>
          LET o == shoot.resources[raw.auditConfig.configMapReferenceName]
          IN osc.files.auditRules = {objects[o].data["auditd"].auditRules}

\* Everything the Shoot refers to exists.
Complete == \A name \in DOMAIN shoot.resources : objects[shoot.resources[name]] # None

\* Once the owner and the faults are quiet, the OperatingSystemConfig becomes
\* and stays what the Shoot asks for, or has nothing of the extension when that
\* is disabled, whatever failed or was rendered from stale caches before.
Converges ==
  <>[](~shoot.deleted /\ ~replaced /\ Complete =>
         IF IsExtensionEnabled(shoot.extension)
           THEN osc.files # None /\ Wanted
           ELSE osc = Nothing)
=============================================================================
