--------------------------- MODULE MCControlPlane ---------------------------
(* Instances of ControlPlane for TLC. *)
EXTENDS ControlPlane

MCTarget == {"host"}
MCPeer   == {"peer"}
MCRegex  == {"regex"}
MCProgramName == {"kubelet"}

Rule    == [programNames |-> {"kubelet"}, severity |-> None, messageContent |-> None]
Exclude == [programNames |-> {}, severity |-> None,
            messageContent |-> [regex |-> None, exclude |-> "regex"]]

Plain == [target |-> "host", port |-> 1, tls |-> None, loggingRules |-> {Rule, Exclude},
          auditConfig |-> None]

TLS(ref) == [enabled |-> TRUE, secretReferenceName |-> ref, authMode |-> "name",
             tlsLib |-> None, permittedPeer |-> {"peer"}]

Secured == [Plain EXCEPT !.tls = TLS("tls")]
Unnamed == [Plain EXCEPT !.tls = TLS(None)]
Nowhere == [Plain EXCEPT !.target = None]
Audited == [Plain EXCEPT !.auditConfig = [enabled |-> TRUE, configMapReferenceName |-> "audit"]]
Silent  == [Secured EXCEPT !.auditConfig = [enabled |-> FALSE, configMapReferenceName |-> None]]

s1 == <<"Secret", "s1">>
m1 == <<"ConfigMap", "m1">>
MCObject == {s1, m1}

NoRef       == [n \in {} |-> s1]
To(ref, o)  == [n \in {ref} |-> o]
S(ext, res) == [extension |-> ext, resources |-> res, deleted |-> FALSE]
On(raw)     == [disabled |-> None, providerConfig |-> raw]
Off(raw)    == [disabled |-> TRUE, providerConfig |-> raw]

\* Without the extension, disabled with a configuration that is not valid, and
\* enabled with every kind of configuration; the last five are to be refused.
MCSubmitted ==
  { S(None, NoRef), S(Off(Nowhere), NoRef),
    S(On(Plain), NoRef), S(On(Secured), To("tls", s1)), S(On(Silent), To("tls", s1)),
    S(On(Audited), To("audit", m1)),
    S(On(None), NoRef), S(On(Garbage), NoRef), S(On(Nowhere), NoRef),
    S(On(Unnamed), NoRef), S(On(Audited), To("audit", s1)) }

Data(keys) == [key \in keys |-> "text"]
Auditd(rules) == [key \in {"auditd"} |-> [auditRules |-> rules]]

MCContent ==
  [Secret    |-> {[immutable |-> TRUE, data |-> Data({"ca", "crt", "key"})],
                  [immutable |-> TRUE, data |-> Data({"ca", "key", "crl"})]},
   ConfigMap |-> {[immutable |-> TRUE, data |-> Auditd("rules")],
                  [immutable |-> TRUE, data |-> Auditd(None)],
                  [immutable |-> FALSE, data |-> Auditd("rules")]}]
=============================================================================
