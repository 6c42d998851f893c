------------------------ MODULE MCAuditdConfigurator ------------------------
(* Instances of AuditdConfigurator for TLC. *)
EXTENDS AuditdConfigurator

CONSTANTS n1, n2, c0, c1, cbad, dot

\* One original file of its own name, which is also the name of an OSC file:
\* the two versions must never be confused.
MCName    == {n1, n2}
MCContent == {c0, c1, cbad}
MCOrig    == {dot, <<n1, c0>>}
MCBad     == {<<n1, cbad>>}

\* Auditing disabled, two rule sets sharing a name, and one that is rejected.
MCDesired == {{}, {<<n1, c1>>}, {<<n1, c1>>, <<n2, c1>>}, {<<n1, cbad>>}}

\* The usual node, and one with both files of which one lacks the line.
MCPlugins  == {[audit |-> "no", audisp |-> "absent"], [audit |-> "bare", audisp |-> "no"]}
=============================================================================
