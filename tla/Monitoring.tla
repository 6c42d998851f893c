------------------------------ MODULE Monitoring -----------------------------
(***************************************************************************)
(* What the Prometheus of a Shoot learns of rsyslog on its nodes, and the  *)
(* alerts it raises (pkg/controller/lifecycle/monitoring.go).              *)
(*                                                                         *)
(* rsyslog counts what its relp action does; impstats and                  *)
(* process-rsyslog-pstats.sh publish the counts in a file of the node      *)
(* (PstatsProcessor), configure-rsyslog.sh publishes whether the audit     *)
(* rules were loaded in another (AuditdConfigurator), and both stay where  *)
(* they are when the program that wrote them is gone.  Prometheus scrapes  *)
(* all nodes and evaluates the alerts in rounds.  A round is a scrape: the *)
(* five minutes of the rates are Window scrapes, the fifteen minutes of    *)
(* "for" are For rounds.                                                   *)
(***************************************************************************)
EXTENDS LogFilters, Dashboard, FiniteSetsExt

CONSTANTS
  Node,
  Message,      \* records of programname, severity and text
  RuleLists,    \* logging rules a node may be configured with
  Window, For,
  MaxMessages,  \* bound on messages that are forwarded
  MaxFaults     \* bound on restarts, lost nodes and loads of audit rules

ASSUME MonitoringConstantsOK ==
  /\ Node # {}
  /\ Window \in Nat \ {0, 1}
  /\ For \in Nat \ {0}
  /\ MaxMessages \in Nat
  /\ MaxFaults \in Nat

ASSUME NoneIsNoCount == None \notin [processed : Nat, failed : Nat]

\* The lists that the admission accepts.
ASSUME RuleListsOK ==
  \A list \in RuleLists :
    /\ Len(list) \in Nat
    /\ DOMAIN list = 1..Len(list)
    /\ \A i \in DOMAIN list : ValidLoggingRule(list[i])

VARIABLES
  rules,      \* the logging rules
  counter,    \* node -> what its relp action processed and failed, since rsyslog started
  published,  \* node -> the counts in its file, or None without the file
  loaded,     \* node -> the load success in its file, or None
  up,         \* the nodes whose node-exporter answers
  samples,    \* node -> the counts of the last Window scrapes, None for a failed one
  pending,    \* alert -> for how many rounds its expression has been true
  wanted,     \* history: node -> messages a rule selected since rsyslog started
  idle,       \* history: node -> rounds since it last processed a message or its file
              \* last showed another number of processed messages
  served,     \* history: node -> rounds in which it was scraped and had a file
  quiet,      \* history: node -> rounds without news of a processed message
  messages, faults

vars == <<rules, counter, published, loaded, up, samples, pending,
          wanted, idle, served, quiet, messages, faults>>

History == <<wanted, idle, served, quiet>>

ActionName == "rsyslog-relp"

Zero == [processed |-> 0, failed |-> 0]

\* Where the histories stop counting: a window without news takes Window scrapes,
\* and the alert fires For - 1 scrapes later.
Most == For + Window - 1

More(rounds, limit) == IF rounds < limit THEN rounds + 1 ELSE limit

Everywhere(value) == [n \in Node |-> value]

-----------------------------------------------------------------------------
(* Prometheus *)

\* The samples of a window that are there; a failed scrape leaves none.
Present(window) == {i \in DOMAIN window : window[i] # None}

\* The pairs of a sample and the one that follows it.
Successive(window) ==
  {pair \in Present(window) \X Present(window) :
    /\ pair[1] < pair[2]
    /\ ~\E i \in Present(window) : pair[1] < i /\ i < pair[2]}

\* A counter that went down was reset, and started from zero.
Growth(window, family, pair) ==
  LET before == window[pair[1]][family]
      after  == window[pair[2]][family]
  IN  IF after < before THEN after ELSE after - before

Increase(window, family) ==
  MapThenSumSet(LAMBDA pair : Growth(window, family, pair), Successive(window))

\* No growth is negative: the increase is zero when each of them is.
NoIncrease(window, family) ==
  \A pair \in Successive(window) : Growth(window, family, pair) = 0

\* The nodes with a series that rate() gives a value for.
Rated(windows, name) ==
  IF name = ActionName THEN {n \in Node : Successive(windows[n]) # {}} ELSE {}

\* sum(rate(failed{name})) / sum(rate(processed)) > 0.02: no value where
\* nothing is selected, and x/0 is infinite for every x but 0.
TooManyFailures(windows, name) ==
  LET Total(family, nodes) ==
        MapThenSumSet(LAMBDA n : Increase(windows[n], family), nodes)
  IN /\ Rated(windows, name) # {}
     /\ Rated(windows, ActionName) # {}
     /\ 50 * Total("failed", Rated(windows, name))
          > Total("processed", Rated(windows, ActionName))

RelpActionFailures(windows) == TooManyFailures(windows, "rsyslg-relp")

\* Mutant of RateIsZero: it counts the failed messages as processed ones.
TotalIsZero(windows, n) ==
  /\ n \in Rated(windows, ActionName)
  /\ \A family \in {"processed", "failed"} : NoIncrease(windows[n], family)

\* Mutant of RateIsZero: it looks at the failures.
FailedIsZero(windows, n) ==
  /\ n \in Rated(windows, ActionName)
  /\ NoIncrease(windows[n], "failed")

RateIsZero(windows, n) ==
  /\ n \in Rated(windows, ActionName)
  /\ NoIncrease(windows[n], "processed")

\* absent(load_success == 1): one node that reports success keeps it false, and it
\* is true where nobody reports.
NotLoaded == \A n \in up : loaded[n] # 1

\* A panel has a point of the node for the query, where rated is whether rate()
\* gives a value.
Shows(query, n, rated) ==
  \/ query = Value(LoadMetric) /\ loaded[n] # None
  \/ query.family \in Gauges /\ ~query.rate /\ published[n] # None
  \/ query.family \in Counters /\ query.rate /\ rated

Evaluate(windows) ==
  LET Count(holds, rounds) == IF holds THEN More(rounds, For) ELSE 0 IN
  pending' = [failures |-> Count(RelpActionFailures(windows), pending.failures),
              zero     |-> [n \in Node |-> Count(RateIsZero(windows, n), pending.zero[n])],
              audit    |-> Count(NotLoaded, pending.audit)]

Firing(rounds) == rounds = For

\* Prometheus keeps the job only of the node-exporter and of families rsyslog_*.
Sample(n) == IF n \in up THEN published[n] ELSE None

\* A scrape finds news of a node when the count differs from the last one that
\* Prometheus still holds, other than by starting again from zero.
News(n) ==
  LET known == Present(samples[n]) IN
  /\ Sample(n) # None
  /\ \A last \in known :
       (\A i \in known : i <= last)
         => Sample(n).processed \notin {samples[n][last].processed, 0}

Scrape ==
  /\ samples' = [n \in Node |-> [i \in 1..Window |->
       IF i = Window THEN Sample(n) ELSE samples[n][i + 1]]]
  /\ Evaluate(samples')
  /\ idle' = [n \in Node |-> More(idle[n], Most)]
  /\ served' = [n \in Node |-> IF Sample(n) = None THEN 0 ELSE More(served[n], Most)]
  /\ quiet' = [n \in Node |-> IF News(n) THEN 0 ELSE More(quiet[n], For)]
  /\ UNCHANGED <<rules, counter, published, loaded, up, wanted, messages, faults>>

-----------------------------------------------------------------------------
(* The nodes *)

Init ==
  /\ rules \in RuleLists
  /\ counter = Everywhere(Zero)
  /\ published = Everywhere(None)
  /\ loaded = Everywhere(None)
  /\ up = Node
  /\ samples = Everywhere([i \in 1..Window |-> None])
  /\ pending = [failures |-> 0, zero |-> Everywhere(0), audit |-> 0]
  /\ wanted = Everywhere(0)
  /\ idle = Everywhere(0)
  /\ served = Everywhere(0)
  /\ quiet = Everywhere(0)
  /\ messages = 0
  /\ faults = 0

\* A message reaches rsyslog, and the target or not.
Log(n, message) ==
  LET calls == Cardinality(Calls(computeLogFilters(rules), message)) IN
  /\ messages + calls <= MaxMessages
  /\ messages' = messages + calls
  /\ wanted' = [wanted EXCEPT ![n] =
                  @ + IF \E i \in DOMAIN rules : Selects(rules[i], message) THEN 1 ELSE 0]
  /\ \E outcome \in {"processed", "failed"} :
       /\ counter' = [counter EXCEPT ![n][outcome] = @ + calls]
       /\ idle' = IF outcome = "processed" /\ calls > 0
                    THEN [idle EXCEPT ![n] = 0] ELSE idle
  /\ UNCHANGED <<rules, published, loaded, up, samples, pending, served, quiet, faults>>

\* The file of the node already shows how many messages it processed.
Shown(n) == published[n] # None /\ published[n].processed = counter[n].processed

\* Mutant of Publish: the counts are added to those of the file, as for
\* counters that impstats resets.
PublishAdds(n) ==
  /\ published' = [published EXCEPT ![n] =
       IF @ = None THEN counter[n]
       ELSE [family \in DOMAIN @ |-> @[family] + counter[n][family]]]
  /\ idle' = IF Shown(n) THEN idle ELSE [idle EXCEPT ![n] = 0]
  /\ UNCHANGED <<rules, counter, loaded, up, samples, pending, wanted, served, quiet,
                 messages, faults>>

Publish(n) ==
  /\ published' = [published EXCEPT ![n] = counter[n]]
  /\ idle' = IF Shown(n) THEN idle ELSE [idle EXCEPT ![n] = 0]
  /\ UNCHANGED <<rules, counter, loaded, up, samples, pending, wanted, served, quiet,
                 messages, faults>>

Fault == faults < MaxFaults /\ faults' = faults + 1

\* The counters start again, the file stays until the next publication.
RestartRsyslog(n) ==
  /\ Fault
  /\ counter' = [counter EXCEPT ![n] = Zero]
  /\ wanted' = [wanted EXCEPT ![n] = 0]
  /\ UNCHANGED <<rules, published, loaded, up, samples, pending, idle, served, quiet,
                 messages>>

LoadRules(n) ==
  /\ Fault
  /\ \E success \in {0, 1} : loaded' = [loaded EXCEPT ![n] = success]
  /\ UNCHANGED <<rules, counter, published, up, samples, pending, History, messages>>

Lose(n) ==
  /\ Fault
  /\ n \in up
  /\ up' = up \ {n}
  /\ UNCHANGED <<rules, counter, published, loaded, samples, pending, History, messages>>

Return(n) ==
  /\ up' = up \cup {n}
  /\ n \notin up
  /\ UNCHANGED <<rules, counter, published, loaded, samples, pending, History, messages,
                 faults>>

Next ==
  \/ Scrape
  \/ \E n \in Node :
       \/ \E message \in Message : Log(n, message)
       \/ Publish(n)
       \/ RestartRsyslog(n)
       \/ LoadRules(n)
       \/ Lose(n)
       \/ Return(n)

Spec == Init /\ [][Next]_vars

-----------------------------------------------------------------------------

Counts == [processed : 0..MaxMessages, failed : 0..MaxMessages]

\* Types.
TypeOK ==
  /\ rules \in RuleLists
  /\ counter \in [Node -> Counts]
  /\ published \in [Node -> Counts \cup {None}]
  /\ loaded \in [Node -> {0, 1, None}]
  /\ up \subseteq Node
  /\ samples \in [Node -> [1..Window -> Counts \cup {None}]]
  /\ pending \in [failures : 0..For, zero : [Node -> 0..For], audit : 0..For]
  /\ wanted \in [Node -> 0..MaxMessages]
  /\ idle \in [Node -> 0..Most]
  /\ served \in [Node -> 0..Most]
  /\ quiet \in [Node -> 0..For]
  /\ messages \in 0..MaxMessages /\ faults \in 0..MaxFaults

\* The relp action sees every message that some logging rule selects once and
\* no other, however many rules select it (docs/usage/configuration.md:99).
ForwardsSelected ==
  \A n \in Node : counter[n].processed + counter[n].failed = wanted[n]

\* A node that processes nothing while Prometheus scrapes its counts raises the
\* alert, whatever the other nodes do (monitoring.go:57-71): also when its messages
\* all fail and the counts of failures grow, when rsyslog or process-rsyslog-pstats.sh
\* is gone and the file only repeats old counts, and with rsyslog restarting in between.
SilenceNoticed ==
  \A n \in Node :
    idle[n] = Most /\ served[n] = Most => Firing(pending.zero[n])

\* The alert is pending for no longer than there was no news of a processed
\* message of that node, through restarts, lost scrapes and nodes that return.
NoFalseAlarm == \A n \in Node : pending.zero[n] <= quiet[n]

\* Once a node was scraped Window times and its configurator reported a load, no
\* panel is empty: every query names a family that is published, plots rates of
\* counters and values of gauges, and the two files are never mistaken for each
\* other (dashboard_config.go).
PanelsShow ==
  \A n \in Node :
    served[n] >= Window /\ loaded[n] # None =>
      LET rated == n \in Rated(samples, ActionName)
      IN  \A panel \in Panels : \A query \in panel : Shows(query, n, rated)

\* docs/usage/monitoring.md says the alert indicates that the cumulative failure
\* rate of the relp action is greater than 2%: it is then at least pending.
FailuresNoticed == TooManyFailures(samples, ActionName) => pending.failures > 0
=============================================================================
