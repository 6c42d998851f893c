------------------------ MODULE MCRsyslogConfigurator -----------------------
(* Instances of RsyslogConfigurator for TLC. *)
EXTENDS RsyslogConfigurator

CONSTANTS crt, key, v1, v2

MCName    == {crt, key}
MCVersion == {v1, v2}
MCConf    == {"plain", "plain2", "tls"}

\* Without TLS (two versions), with it, and with rotated certificates.
MCDesired ==
  {[conf |-> "plain", tls |-> {}], [conf |-> "plain2", tls |-> {}]}
    \cup {[conf |-> "tls", tls |-> {<<n, v>> : n \in MCName}] : v \in MCVersion}
=============================================================================
