---------------------------- MODULE MCMonitoring ----------------------------
(* Instances of Monitoring for TLC. *)
EXTENDS Monitoring, TLC

CONSTANTS n1, n2

MCNode == {n1, n2}
Nodes == Permutations(MCNode)

MCTarget == {}
MCPeer == {}
MCProgramName == {"kubelet"}
MCRegex == {"bar"}
MCMatches == {<<"bar", "foobar">>}

\* The rules of docs/usage/configuration.md:115-127, and one for what the first
\* of them excludes.
Kubelet == [programNames |-> {"kubelet"}, severity |-> 6,
            messageContent |-> [regex |-> None, exclude |-> "bar"]]
Critical == [programNames |-> {}, severity |-> 2, messageContent |-> None]
Bar == [programNames |-> {}, severity |-> None,
        messageContent |-> [regex |-> "bar", exclude |-> None]]

MCRuleLists == {<<Kubelet, Critical, Bar>>}

Says(p, s, t) == [programname |-> p, severity |-> s, text |-> t]

\* Selected by two rules, by one at its limit, by the last only, by none.
MCMessage ==
  {Says("other", 2, "foobar"), Says("kubelet", 6, "foo"),
   Says("kubelet", 6, "foobar"), Says("kubelet", 7, "foo")}

\* rate() is zero exactly when nothing in the window grew.
ASSUME IncreaseIsZero ==
  \A window \in [1..4 -> {None} \cup [processed : 0..2]] :
    NoIncrease(window, "processed") <=> Increase(window, "processed") = 0
=============================================================================
