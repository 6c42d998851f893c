-------------------------------- MODULE MCNode -------------------------------
(* Instances of Node for TLC. *)
EXTENDS Node

CONSTANT dot

MCName    == {"n"}
MCContent == {"original", "osc", "bad"}
MCOrig    == {dot, <<"n", "original">>}
MCDesired == {{}, {<<"n", "osc">>}, {<<"n", "bad">>}}
MCBad     == {<<"n", "bad">>}
MCPlugins == {[audit |-> "no", audisp |-> "absent"]}

MCSetups  == {[conf |-> "tls", tls |-> {<<"crt", "v">>}]}

\* The node's image has both services.
Both == {"auditd", "rsyslog"}
=============================================================================
