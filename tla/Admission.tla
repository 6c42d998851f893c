------------------------------ MODULE Admission ------------------------------
(***************************************************************************)
(* What the admission webhook of the garden asks of a Shoot                *)
(* (pkg/admission/validator, pkg/apis/rsyslog/validation).                 *)
(*                                                                         *)
(* A Shoot is a record of its extension entry (None, or disabled and       *)
(* providerConfig), its spec.resources (a function from the name of a      *)
(* reference to the object it stands for) and whether it is in deletion.   *)
(* An object is named <<kind, name>>; its content is the immutable flag    *)
(* and the data, a function from keys to values.  None is a field that is  *)
(* not set, and an empty target, secretReferenceName, auditd text or       *)
(* auditRules, which the code treats alike; Garbage is text that does not  *)
(* decode.  Texts with a syntax of their own are members of the sets that  *)
(* the validation accepts, or not.                                         *)
(***************************************************************************)
EXTENDS Integers, FiniteSets

CONSTANTS
  None,         \* a field that is not set
  Garbage,      \* what DecodeInto rejects
  Target,       \* IP addresses and DNS names
  Peer,         \* fingerprints and host names
  ProgramName,  \* printable names without [, : and /
  Regex         \* POSIX regular expressions

ASSUME NoneOK ==
  /\ None \notin Target \cup Peer \cup ProgramName \cup Regex
  /\ None # Garbage

-----------------------------------------------------------------------------
(* pkg/apis/rsyslog/validation and defaulting *)

ValidPort(port) == port >= 0

ValidTLS(tls) ==
  tls # None =>
    /\ tls.enabled => tls.secretReferenceName # None
    /\ tls.authMode \in {None, "name", "fingerprint"}
    /\ tls.tlsLib \in {None, "openssl", "gnutls"}
    /\ tls.permittedPeer \subseteq Peer

ValidMessageContent(content) ==
  content # None =>
    /\ content.regex # None \/ content.exclude # None
    /\ {content.regex, content.exclude} \subseteq Regex \cup {None}

ValidLoggingRule(rule) ==
  /\ rule.programNames # {} \/ rule.severity # None \/ rule.messageContent # None
  /\ rule.programNames \subseteq ProgramName
  /\ ValidMessageContent(rule.messageContent)

ValidConfig(config) ==
  /\ config.target \in Target
  /\ ValidPort(config.port)
  /\ ValidTLS(config.tls)
  /\ config.loggingRules # {}
  /\ \A rule \in config.loggingRules : ValidLoggingRule(rule)

ValidAuditd(auditd) == auditd.auditRules # None

\* Audit rules are on unless the owner says otherwise.
Defaulted(config) ==
  IF config.auditConfig = None
    THEN [config EXCEPT !.auditConfig = [enabled |-> TRUE, configMapReferenceName |-> None]]
    ELSE config

Decodes(raw) == raw # Garbage

-----------------------------------------------------------------------------
(* pkg/admission/validator/shoot.go *)

IsExtensionEnabled(extension) ==
  /\ extension # None
  /\ extension.disabled # TRUE

Refers(resources, kind, name) ==
  /\ name \in DOMAIN resources
  /\ resources[name][1] = kind

\* Mutant of ValidSecret: the entries are only counted.
ValidSecretCounted(secret) ==
  /\ secret.immutable
  /\ Cardinality(DOMAIN secret.data) = 3

ValidSecret(secret) ==
  /\ {"ca", "crt", "key"} \subseteq DOMAIN secret.data
  /\ secret.immutable
  /\ Cardinality(DOMAIN secret.data) = 3

ValidConfigMap(configMap) ==
  /\ configMap.immutable
  /\ "auditd" \in DOMAIN configMap.data
  /\ Cardinality(DOMAIN configMap.data) = 1
  /\ configMap.data["auditd"] # None
  /\ Decodes(configMap.data["auditd"])
  /\ ValidAuditd(configMap.data["auditd"])

UsesTLS(config) == config.tls # None /\ config.tls.enabled

UsesConfigMap(config) ==
  /\ config.auditConfig # None
  /\ config.auditConfig.enabled
  /\ config.auditConfig.configMapReferenceName # None

\* The object a reference stands for is of the kind, and exists.
Exists(resources, objects, kind, name) ==
  /\ Refers(resources, kind, name)
  /\ objects[resources[name]] # None

ValidReferences(config, resources, objects) ==
  /\ UsesTLS(config) =>
       LET name == config.tls.secretReferenceName
       IN Exists(resources, objects, "Secret", name) /\ ValidSecret(objects[resources[name]])
  /\ UsesConfigMap(config) =>
       LET name == config.auditConfig.configMapReferenceName
       IN Exists(resources, objects, "ConfigMap", name) /\ ValidConfigMap(objects[resources[name]])

ValidProviderConfig(raw, resources, objects) ==
  /\ raw # None
  /\ Decodes(raw)
  /\ ValidConfig(Defaulted(raw))
  /\ ValidReferences(Defaulted(raw), resources, objects)

\* Mutant of Validate: a providerConfig is not required (lines 62-64).
ValidateUnlessNil(shoot, objects) ==
  IsExtensionEnabled(shoot.extension) =>
    shoot.extension.providerConfig = None
      \/ ValidProviderConfig(shoot.extension.providerConfig, shoot.resources, objects)

Validate(shoot, objects) ==
  IsExtensionEnabled(shoot.extension) =>
    ValidProviderConfig(shoot.extension.providerConfig, shoot.resources, objects)
=============================================================================
