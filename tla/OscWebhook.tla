------------------------------ MODULE OscWebhook -----------------------------
(***************************************************************************)
(* What the webhook of pkg/webhook/operatingsystemconfig adds to an        *)
(* OperatingSystemConfig, as a function of the Cluster, the Extension and  *)
(* the copies of the referenced objects it reads.  What a file contains is *)
(* abstracted to what it is rendered from: 60-audit.conf and the scripts   *)
(* are the configuration, the TLS files the Secret they refer to, the      *)
(* files of rules.d the audit rules.                                       *)
(***************************************************************************)
EXTENDS Admission

CONSTANT DefaultRules   \* getDefaultAuditRules

ASSUME DefaultRulesOK == DefaultRules # None

\* A RsyslogRelpConfig nothing was decoded into: no defaulting either.
EmptyConfig ==
  [target |-> None, port |-> 0, tls |-> None, loggingRules |-> {}, auditConfig |-> None]

ConfigOf(extension) ==
  IF extension.providerConfig = None
    THEN EmptyConfig
    ELSE Defaulted(extension.providerConfig)

\* Mutant of AuditEnabled: auditConfig counts, whatever it says.
AuditAlwaysEnabled(config) == TRUE

AuditEnabled(config) ==
  config.auditConfig # None => config.auditConfig.enabled

AuditReference(config) ==
  IF config.auditConfig = None THEN None ELSE config.auditConfig.configMapReferenceName

\* getRsyslogFiles and getRsyslogTLSFiles: the reference must exist, the
\* Secret is only read when the node agent fetches the file.
RsyslogFilesRender(config, cluster) ==
  UsesTLS(config) => Refers(cluster.resources, "Secret", config.tls.secretReferenceName)

\* getAuditFiles and getAuditConfigFromConfigMap.
AuditFilesRender(config, cluster, copies) ==
  LET name      == AuditReference(config)
      configMap == copies[cluster.resources[name]]
  IN AuditEnabled(config) /\ name # None =>
       /\ Refers(cluster.resources, "ConfigMap", name)
       /\ configMap # None
       /\ "auditd" \in DOMAIN configMap.data
       /\ configMap.data["auditd"] # None
       /\ Decodes(configMap.data["auditd"])

\* The rules the files of rules.d are made of; a text may be empty.
AuditRules(config, cluster, copies) ==
  LET name == AuditReference(config) IN
  CASE ~AuditEnabled(config) -> {}
    [] AuditEnabled(config) /\ name = None -> {DefaultRules}
    [] OTHER -> {copies[cluster.resources[name]].data["auditd"].auditRules}

Renders(cluster, extension, copies) ==
  /\ extension # None
  /\ extension.providerConfig = None \/ Decodes(extension.providerConfig)
  /\ RsyslogFilesRender(ConfigOf(extension), cluster)
  /\ AuditFilesRender(ConfigOf(extension), cluster, copies)

\* Mutant of Files: the name of the reference is taken for that of the Secret.
FilesByReference(cluster, extension, copies) ==
  LET config == ConfigOf(extension) IN
  [config     |-> config,
   tlsSecret  |-> IF UsesTLS(config) THEN <<"Secret", config.tls.secretReferenceName>> ELSE None,
   auditRules |-> AuditRules(config, cluster, copies)]

Files(cluster, extension, copies) ==
  LET config == ConfigOf(extension) IN
  [config     |-> config,
   tlsSecret  |-> IF UsesTLS(config)
                    THEN cluster.resources[config.tls.secretReferenceName] ELSE None,
   auditRules |-> AuditRules(config, cluster, copies)]

\* EnsureAdditionalFiles returns an error, or adds the files; nothing is added
\* while the Shoot is in deletion.
EnsureAdditionalFilesFails(cluster, extension, copies) ==
  \/ cluster = None
  \/ ~cluster.deleted /\ ~Renders(cluster, extension, copies)

EnsureAdditionalFiles(cluster, extension, copies) ==
  IF cluster.deleted THEN None ELSE Files(cluster, extension, copies)

EnsureAdditionalUnits == TRUE
=============================================================================
