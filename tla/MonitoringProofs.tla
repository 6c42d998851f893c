--------------------------- MODULE MonitoringProofs --------------------------
(* Theorems about Monitoring: typing, what the filters select, the alerts,   *)
(* the dashboard.                                                            *)
EXTENDS Monitoring, FiniteSetTheorems, WellFoundedInduction, TLAPS

USE MonitoringConstantsOK DEF MonitoringConstantsOK

-----------------------------------------------------------------------------
(* The filters, for any rules and messages *)

\* A message passes the filter of a rule when the rule selects it.
LEMMA PassesIffSelects ==
  ASSUME NEW rule, NEW message
  PROVE  Passes(Filter(rule), message) <=> Selects(rule, message)
<1> DEFINE
    content == rule.messageContent
    Name     == <<"programname", rule.programNames>>
    Sev      == <<"syslogseverity", rule.severity>>
    Include  == <<"regex", content.regex>>
    Exclude  == <<"exclude", content.exclude>>
<1>1. Holds(Name, message) <=> message.programname \in rule.programNames
  BY DEF Holds
<1>2. Holds(Sev, message) <=> message.severity <= rule.severity
  BY DEF Holds
<1>3. Holds(Include, message) <=> <<content.regex, message.text>> \in Matches
  BY DEF Holds
<1>4. Holds(Exclude, message) <=> <<content.exclude, message.text>> \notin Matches
  BY DEF Holds
<1>5. \A c : c \in Filter(rule) <=>
        \/ rule.programNames # {} /\ c = Name
        \/ rule.severity # None /\ c = Sev
        \/ content # None /\ content.regex # None /\ c = Include
        \/ content # None /\ content.exclude # None /\ c = Exclude
  BY DEF Filter, ProgramNames, Severity, MessageContent, Optional
<1> HIDE DEF content, Name, Sev, Include, Exclude
<1>6. Passes(Filter(rule), message) <=>
        /\ rule.programNames # {} => Holds(Name, message)
        /\ rule.severity # None => Holds(Sev, message)
        /\ content # None /\ content.regex # None => Holds(Include, message)
        /\ content # None /\ content.exclude # None => Holds(Exclude, message)
  BY <1>5 DEF Passes
<1>7. Selects(rule, message) <=>
        /\ rule.programNames # {} => message.programname \in rule.programNames
        /\ rule.severity # None => message.severity <= rule.severity
        /\ content # None /\ content.regex # None
             => <<content.regex, message.text>> \in Matches
        /\ content # None /\ content.exclude # None
             => <<content.exclude, message.text>> \notin Matches
  BY DEF Selects, content
<1> QED BY <1>1, <1>2, <1>3, <1>4, <1>6, <1>7

\* A set of numbers of filters has a least one.
LEMMA LeastIndex ==
  ASSUME NEW k \in Nat, NEW T \in SUBSET (1..k), T # {}
  PROVE  \E i \in T : \A j \in T : i <= j
<1> DEFINE Less == OpToRel(<, Nat)
<1>1. T \subseteq Nat
  OBVIOUS
<1>2. IsWellFoundedOn(Less, Nat)
  BY NatLessThanWellFounded
<1>3. \A i, j \in Nat : <<j, i>> \in Less <=> j < i
  BY DEF OpToRel
<1> HIDE DEF Less
<1>4. \E i \in T : \A j \in T : ~(<<j, i>> \in Less)
  BY <1>1, <1>2, WFMin, Zenon
<1>5. PICK i \in T : \A j \in T : ~(<<j, i>> \in Less)
  BY <1>4
<1>6. ASSUME NEW j \in T PROVE i <= j
  <2>1. i \in Nat /\ j \in Nat
    BY <1>1
  <2>2. ~(j < i)
    BY <1>3, <1>5, <2>1
  <2> QED BY <2>1, <2>2
<1> QED BY <1>6

\* Some logging rule asks for the message.
Wanted(list, message) == \E i \in DOMAIN list : Selects(list[i], message)

\* For every admitted list of rules, a message that some rule selects calls the
\* relp action once, and any other message not at all (rsyslog.go:279-306,
\* 60-audit.conf.tpl:96-101).
THEOREM OneCall ==
  ASSUME NEW list \in RuleLists, NEW message
  PROVE  Cardinality(Calls(computeLogFilters(list), message))
           = IF Wanted(list, message) THEN 1 ELSE 0
<1> DEFINE filters == computeLogFilters(list)
           T == {i \in DOMAIN list : Selects(list[i], message)}
<1>1. Len(list) \in Nat /\ DOMAIN list = 1..Len(list) /\ DOMAIN filters = DOMAIN list
  BY RuleListsOK DEF RuleListsOK, computeLogFilters
<1>2. \A i \in DOMAIN list : Passes(filters[i], message) <=> i \in T
  BY PassesIffSelects DEF computeLogFilters
<1> HIDE DEF filters
<1>3. Calls(filters, message)
        = {i \in DOMAIN list : i \in T /\ \A j \in 1..(i - 1) : j \notin T}
  <2>1. \A i \in DOMAIN list : \A j \in 1..(i - 1) : j \in DOMAIN list
    BY <1>1
  <2> QED BY <1>1, <1>2, <2>1 DEF Calls
<1>4. CASE T = {}
  <2>1. Calls(filters, message) = {} /\ ~Wanted(list, message)
    BY <1>3, <1>4 DEF Wanted
  <2> QED BY <2>1, FS_EmptySet DEF filters
<1>5. CASE T # {}
  <2>1. PICK i \in T : \A j \in T : i <= j
    BY <1>1, <1>5, LeastIndex
  <2>2. T \subseteq 1..Len(list)
    BY <1>1
  <2> HIDE DEF T
  <2>3. Calls(filters, message) = {i}
    BY <1>1, <1>3, <2>1, <2>2
  <2>4. Wanted(list, message)
    BY <1>5 DEF T, Wanted
  <2> QED BY <2>3, <2>4, FS_Singleton DEF filters
<1> QED BY <1>4, <1>5

\* No admitted list makes an empty filter, which rsyslog could not read.
THEOREM AdmittedFilters ==
  ASSUME NEW list \in RuleLists
  PROVE  Accepted(computeLogFilters(list))
<1> SUFFICES ASSUME NEW i \in DOMAIN list
             PROVE  Filter(list[i]) # {}
  BY DEF Accepted, computeLogFilters
<1> DEFINE rule == list[i]
<1>1. ValidLoggingRule(rule)
  BY RuleListsOK DEF RuleListsOK
<1> HIDE DEF rule
<1>2. CASE rule.programNames # {}
  BY <1>2 DEF Filter, ProgramNames, rule
<1>3. CASE rule.severity # None
  BY <1>3 DEF Filter, Severity, Optional, rule
<1>4. CASE rule.messageContent # None
  BY <1>1, <1>4 DEF ValidLoggingRule, ValidMessageContent, Filter, MessageContent,
                    Optional, rule
<1> QED BY <1>1, <1>2, <1>3, <1>4 DEF ValidLoggingRule

-----------------------------------------------------------------------------
(* The invariant *)

\* What a node has counted was forwarded.
CountersBounded == \A n \in Node : counter[n].processed + counter[n].failed <= messages

IInv ==
  /\ TypeOK
  /\ CountersBounded
  /\ ForwardsSelected

LEMMA MoreType ==
  ASSUME NEW limit \in Nat, NEW rounds \in 0..limit
  PROVE  More(rounds, limit) \in 0..limit
  BY DEF More

LEMMA MoreMonotone ==
  ASSUME NEW limit \in Nat, NEW a \in 0..limit, NEW b \in 0..limit, a <= b
  PROVE  More(a, limit) <= More(b, limit)
  BY DEF More

LEMMA MostNat == Most \in Nat
  BY DEF Most

LEMMA InitInv == Init => IInv
<1> SUFFICES ASSUME Init PROVE IInv
  OBVIOUS
<1>1. TypeOK
  BY MostNat DEF Init, TypeOK, Counts, Zero, Everywhere
<1>2. CountersBounded /\ ForwardsSelected
  BY DEF Init, CountersBounded, ForwardsSelected, Zero, Everywhere
<1> QED BY <1>1, <1>2 DEF IInv

LEMMA ScrapeStep ==
  ASSUME IInv, Scrape
  PROVE  IInv'
<1> USE DEF IInv
<1>1. UNCHANGED <<rules, counter, published, loaded, up, wanted, messages, faults>>
  BY DEF Scrape
<1>2. \A n \in Node : Sample(n) \in Counts \cup {None}
  BY DEF TypeOK, Sample
<1>3. samples' \in [Node -> [1..Window -> Counts \cup {None}]]
  <2>1. \A n \in Node : \A i \in 1..Window :
          (IF i = Window THEN Sample(n) ELSE samples[n][i + 1]) \in Counts \cup {None}
    BY <1>2 DEF TypeOK
  <2> QED BY <2>1 DEF Scrape
<1>4. pending' \in [failures : 0..For, zero : [Node -> 0..For], audit : 0..For]
  <2>1. /\ pending.failures \in 0..For
        /\ pending.audit \in 0..For
        /\ \A n \in Node : pending.zero[n] \in 0..For
    BY DEF TypeOK
  <2>2. \A r \in 0..For : More(r, For) \in 0..For
    BY MoreType
  <2> DEFINE
      failures == IF RelpActionFailures(samples') THEN More(pending.failures, For) ELSE 0
      zero == [n \in Node |-> IF RateIsZero(samples', n) THEN More(pending.zero[n], For)
                               ELSE 0]
      audit == IF NotLoaded THEN More(pending.audit, For) ELSE 0
  <2>4. pending' = [failures |-> failures, zero |-> zero, audit |-> audit]
    BY DEF Scrape, Evaluate
  <2>5. failures \in 0..For /\ audit \in 0..For
    BY <2>1, <2>2
  <2>6. zero \in [Node -> 0..For]
    BY <2>1, <2>2
  <2> HIDE DEF failures, zero, audit
  <2> QED BY <2>4, <2>5, <2>6
<1>5. idle' \in [Node -> 0..Most] /\ served' \in [Node -> 0..Most]
  <2>1. \A r \in 0..Most : More(r, Most) \in 0..Most /\ 0 \in 0..Most
    BY MoreType, MostNat
  <2>2. \A n \in Node : idle[n] \in 0..Most /\ served[n] \in 0..Most
    BY DEF TypeOK
  <2> QED BY <2>1, <2>2 DEF Scrape
<1>6. quiet' \in [Node -> 0..For]
  <2>1. \A r \in 0..For : More(r, For) \in 0..For /\ 0 \in 0..For
    BY MoreType
  <2>2. \A n \in Node : quiet[n] \in 0..For
    BY DEF TypeOK
  <2> QED BY <2>1, <2>2 DEF Scrape
<1>7. TypeOK'
  BY <1>1, <1>3, <1>4, <1>5, <1>6 DEF TypeOK
<1>8. CountersBounded' /\ ForwardsSelected'
  BY <1>1 DEF CountersBounded, ForwardsSelected
<1> QED BY <1>7, <1>8

LEMMA LogStep ==
  ASSUME IInv, NEW n \in Node, NEW message \in Message, Log(n, message)
  PROVE  IInv'
<1> USE DEF IInv
<1> DEFINE calls == Cardinality(Calls(computeLogFilters(rules), message))
<1>1. PICK outcome \in {"processed", "failed"} :
        /\ counter' = [counter EXCEPT ![n][outcome] = @ + calls]
        /\ idle' = IF outcome = "processed" /\ calls > 0
                     THEN [idle EXCEPT ![n] = 0] ELSE idle
  BY DEF Log
<1>2. calls = IF Wanted(rules, message) THEN 1 ELSE 0
  BY OneCall DEF TypeOK
<1>3. /\ messages + calls <= MaxMessages
      /\ messages' = messages + calls
      /\ wanted' = [wanted EXCEPT ![n] = @ + calls]
      /\ UNCHANGED <<rules, published, loaded, up, samples, pending, served, quiet,
                     faults>>
  BY <1>2 DEF Log, Wanted
<1> HIDE DEF calls
<1>4. calls \in Nat
  BY <1>2
<1>5. \A m \in Node :
        /\ counter[m] \in Counts
        /\ counter[m].processed + counter[m].failed <= messages
        /\ counter[m].processed + counter[m].failed = wanted[m]
  BY DEF TypeOK, CountersBounded, ForwardsSelected
<1>6. messages \in 0..MaxMessages /\ messages' \in 0..MaxMessages
  BY <1>3, <1>4 DEF TypeOK
<1>7. ASSUME NEW m \in Node
      PROVE  /\ counter'[m] \in Counts
             /\ counter'[m].processed + counter'[m].failed <= messages'
             /\ counter'[m].processed + counter'[m].failed = wanted'[m]
             /\ wanted'[m] \in 0..MaxMessages
  <2>1. CASE m # n
    <3>1. counter'[m] = counter[m] /\ wanted'[m] = wanted[m]
      BY <1>1, <1>3, <2>1 DEF TypeOK
    <3>2. counter[m].processed \in Nat /\ counter[m].failed \in Nat
      BY <1>5 DEF Counts
    <3>3. wanted[m] \in 0..MaxMessages
      BY DEF TypeOK
    <3> QED BY <1>3, <1>4, <1>5, <1>6, <3>1, <3>2, <3>3
  <2>2. CASE m = n
    <3>1. counter'[n] = [counter[n] EXCEPT ![outcome] = @ + calls]
      BY <1>1 DEF TypeOK
    <3>2. wanted'[n] = wanted[n] + calls
      BY <1>3 DEF TypeOK
    <3>3. counter[n].processed \in Nat /\ counter[n].failed \in Nat
      BY <1>5 DEF Counts
    <3>4. counter'[n].processed + counter'[n].failed
            = counter[n].processed + counter[n].failed + calls
      BY <1>4, <1>5, <3>1, <3>3 DEF Counts
    <3>5. /\ counter'[n].processed \in 0..MaxMessages
          /\ counter'[n].failed \in 0..MaxMessages
      BY <1>3, <1>4, <1>5, <1>6, <3>1, <3>3 DEF Counts
    <3>6. counter'[n] \in Counts
      BY <1>5, <3>1, <3>5 DEF Counts
    <3> QED BY <1>3, <1>4, <1>5, <1>6, <2>2, <3>2, <3>3, <3>4, <3>6
  <2> QED BY <2>1, <2>2
<1>8. counter' \in [Node -> Counts] /\ wanted' \in [Node -> 0..MaxMessages]
  BY <1>1, <1>3, <1>7 DEF TypeOK
<1>9. idle' \in [Node -> 0..Most]
  BY <1>1, MostNat DEF TypeOK
<1>10. TypeOK'
  BY <1>3, <1>6, <1>8, <1>9 DEF TypeOK
<1>11. CountersBounded' /\ ForwardsSelected'
  BY <1>7 DEF CountersBounded, ForwardsSelected
<1> QED BY <1>10, <1>11

LEMMA FaultType ==
  ASSUME TypeOK, Fault
  PROVE  faults' \in 0..MaxFaults
  BY DEF TypeOK, Fault

\* The other steps.
LEMMA NodeStep ==
  ASSUME IInv, NEW n \in Node,
         Publish(n) \/ RestartRsyslog(n) \/ LoadRules(n) \/ Lose(n) \/ Return(n)
  PROVE  IInv'
<1> USE DEF IInv
<1>1. CASE Publish(n)
  <2>1. published' \in [Node -> Counts \cup {None}] /\ idle' \in [Node -> 0..Most]
    BY <1>1, MostNat DEF Publish, TypeOK
  <2> QED BY <1>1, <2>1 DEF Publish, TypeOK, CountersBounded, ForwardsSelected
<1>2. CASE RestartRsyslog(n)
  <2>1. /\ counter' = [counter EXCEPT ![n] = Zero]
        /\ wanted' = [wanted EXCEPT ![n] = 0]
        /\ faults < MaxFaults /\ faults' = faults + 1
        /\ UNCHANGED <<rules, published, loaded, up, samples, pending, idle, served,
                       quiet, messages>>
    BY <1>2 DEF RestartRsyslog, Fault
  <2>2. Zero \in Counts /\ 0 \in 0..MaxMessages
    BY DEF Counts, Zero
  <2>3. counter' \in [Node -> Counts] /\ wanted' \in [Node -> 0..MaxMessages]
    BY <2>1, <2>2 DEF TypeOK
  <2>5. TypeOK'
    BY <1>2, <2>1, <2>3, FaultType DEF RestartRsyslog, TypeOK
  <2>4. CountersBounded' /\ ForwardsSelected'
    <3> SUFFICES ASSUME NEW m \in Node
                 PROVE  /\ counter'[m].processed + counter'[m].failed <= messages'
                        /\ counter'[m].processed + counter'[m].failed = wanted'[m]
      BY DEF CountersBounded, ForwardsSelected
    <3>1. CASE m = n
      <4>1. counter'[m] = Zero /\ wanted'[m] = 0
        BY <2>1, <3>1 DEF TypeOK
      <4>2. messages' \in Nat
        BY <2>1, MonitoringConstantsOK DEF TypeOK
      <4> QED BY <4>1, <4>2 DEF Zero
    <3>2. CASE m # n
      <4>1. counter'[m] = counter[m] /\ wanted'[m] = wanted[m] /\ messages' = messages
        BY <2>1, <3>2 DEF TypeOK
      <4> QED BY <4>1 DEF CountersBounded, ForwardsSelected
    <3> QED BY <3>1, <3>2
  <2> QED BY <2>4, <2>5
<1>3. CASE LoadRules(n)
  <2>1. loaded' \in [Node -> {0, 1, None}]
    BY <1>3 DEF LoadRules, TypeOK
  <2>2. TypeOK'
    BY <1>3, <2>1, FaultType DEF LoadRules, History, TypeOK
  <2> QED BY <1>3, <2>2 DEF LoadRules, History, CountersBounded, ForwardsSelected
<1>4. CASE Lose(n)
  <2>1. TypeOK'
    BY <1>4, FaultType DEF Lose, History, TypeOK
  <2> QED BY <1>4, <2>1 DEF Lose, History, CountersBounded, ForwardsSelected
<1>5. CASE Return(n)
  BY <1>5 DEF Return, History, TypeOK, CountersBounded, ForwardsSelected
<1> QED BY <1>1, <1>2, <1>3, <1>4, <1>5

LEMMA NextInv == IInv /\ [Next]_vars => IInv'
<1> SUFFICES ASSUME IInv, [Next]_vars PROVE IInv'
  OBVIOUS
<1>1. CASE Scrape
  BY <1>1, ScrapeStep
<1>2. ASSUME NEW n \in Node, NEW message \in Message, Log(n, message) PROVE IInv'
  BY <1>2, LogStep
<1>3. ASSUME NEW n \in Node,
             Publish(n) \/ RestartRsyslog(n) \/ LoadRules(n) \/ Lose(n) \/ Return(n)
      PROVE  IInv'
  BY <1>3, NodeStep
<1>4. CASE UNCHANGED vars
  BY <1>4 DEF vars, IInv, TypeOK, CountersBounded, ForwardsSelected
<1> QED BY <1>1, <1>2, <1>3, <1>4 DEF Next

LEMMA InvAlways == Spec => []IInv
  BY InitInv, NextInv, PTL DEF Spec

-----------------------------------------------------------------------------

\* Every reachable state is well typed, for any bounds.
THEOREM TypeCorrect == Spec => []TypeOK
<1>1. IInv => TypeOK
  BY DEF IInv
<1> QED BY <1>1, InvAlways, PTL

\* For all admitted rules and any messages, the relp action has seen each message
\* that a rule selects once, and no other.
THEOREM ForwardsSelectedAlways == Spec => []ForwardsSelected
<1>1. IInv => ForwardsSelected
  BY DEF IInv
<1> QED BY <1>1, InvAlways, PTL

-----------------------------------------------------------------------------
(* The alert of a node that processes nothing *)

\* A sample that says of processed messages what the counts say.
Repeats(sample, counts) == sample = None \/ sample.processed = counts.processed

\* What the window of a node holds: nothing that was not published, a sample for
\* each round that served counts, and for each round that idle counts the number
\* of processed messages that is published now.
WindowInv ==
  \A n \in Node : \A i \in 1..Window :
    /\ samples[n][i] # None => published[n] # None
    /\ Window - i < served[n] => samples[n][i] # None
    /\ Window - i < idle[n] => Repeats(samples[n][i], published[n])

\* The alert is pending since the window holds one count only.
SilenceCount ==
  \A n \in Node :
    \/ idle[n] - (Window - 1) <= pending.zero[n]
    \/ served[n] - (Window - 1) <= pending.zero[n]

AlarmInv == WindowInv /\ SilenceCount /\ NoFalseAlarm

\* A set of positions has a greatest one.
LEMMA GreatestIndex ==
  ASSUME NEW k \in Nat, NEW T \in SUBSET (1..k), T # {}
  PROVE  \E i \in T : \A j \in T : j <= i
<1> DEFINE Mirror == {i \in 1..k : k + 1 - i \in T}
<1>1. Mirror \in SUBSET (1..k) /\ Mirror # {}
  <2>1. PICK i \in T : TRUE
    OBVIOUS
  <2>2. k + 1 - i \in 1..k /\ k + 1 - (k + 1 - i) = i
    OBVIOUS
  <2> QED BY <2>1, <2>2
<1> HIDE DEF Mirror
<1>2. PICK i \in Mirror : \A j \in Mirror : i <= j
  BY <1>1, LeastIndex
<1>3. k + 1 - i \in T /\ i \in 1..k
  BY <1>2 DEF Mirror
<1>4. ASSUME NEW j \in T PROVE j <= k + 1 - i
  <2>1. k + 1 - j \in 1..k /\ k + 1 - (k + 1 - j) = j
    OBVIOUS
  <2>2. k + 1 - j \in Mirror
    BY <2>1 DEF Mirror
  <2>3. i <= k + 1 - j
    BY <1>2, <2>2
  <2> QED BY <1>3, <2>3
<1> QED BY <1>3, <1>4

Samples == [1..Window -> Counts \cup {None}]

LEMMA SampleCounts ==
  ASSUME NEW window \in Samples, NEW i \in Present(window)
  PROVE  i \in 1..Window /\ window[i] \in Counts /\ window[i].processed \in Nat
  BY DEF Samples, Present, Counts

\* The newest sample of a window follows another one, when there are two.
LEMMA LastPair ==
  ASSUME NEW window \in Samples, Successive(window) # {}, window[Window] # None
  PROVE  \E i \in Present(window) : <<i, Window>> \in Successive(window)
<1> DEFINE Older == Present(window) \ {Window}
<1>1. Older \in SUBSET (1..Window) /\ Window \in Present(window) /\ Window \in Nat
  BY DEF Samples, Present
<1>2. Older # {}
  <2>1. PICK pair \in Successive(window) : TRUE
    OBVIOUS
  <2>2. /\ pair[1] \in Present(window) /\ pair[2] \in Present(window)
        /\ pair[1] < pair[2]
    BY <2>1 DEF Successive
  <2>3. pair[1] \in 1..Window /\ pair[2] \in 1..Window
    BY <2>2, SampleCounts
  <2> QED BY <2>2, <2>3
<1>3. PICK i \in Older : \A j \in Older : j <= i
  BY <1>1, <1>2, GreatestIndex
<1>4. i \in 1..Window /\ i # Window
  BY <1>1, <1>3
<1>5. ~\E j \in Present(window) : i < j /\ j < Window
  <2> SUFFICES ASSUME NEW j \in Present(window), i < j, j < Window PROVE FALSE
    OBVIOUS
  <2>1. j \in 1..Window
    BY SampleCounts
  <2> QED BY <1>3, <1>4, <2>1
<1> QED BY <1>1, <1>3, <1>4, <1>5 DEF Successive

\* A scrape moves the window by one sample.
LEMMA ScrapeMoves ==
  ASSUME TypeOK, Scrape, NEW n \in Node
  PROVE  /\ samples'[n] \in Samples
         /\ samples'[n][Window] = Sample(n)
         /\ \A i \in 1..(Window - 1) : samples'[n][i] = samples[n][i + 1]
<1>1. Sample(n) \in Counts \cup {None}
  BY DEF TypeOK, Sample
<1>2. samples'[n] = [i \in 1..Window |-> IF i = Window THEN Sample(n) ELSE samples[n][i + 1]]
  BY DEF Scrape
<1>3. \A i \in 1..(Window - 1) : i \in 1..Window /\ i + 1 \in 1..Window /\ i # Window
  OBVIOUS
<1>4. \A i \in 1..Window : i # Window => i \in 1..(Window - 1)
  OBVIOUS
<1>5. samples[n] \in [1..Window -> Counts \cup {None}]
  BY DEF TypeOK
<1>6. samples'[n] \in Samples
  BY <1>1, <1>2, <1>3, <1>4, <1>5 DEF Samples
<1> QED BY <1>2, <1>3, <1>6

LEMMA ScrapeEvaluates ==
  ASSUME Scrape, NEW n \in Node
  PROVE  pending'.zero[n]
           = IF RateIsZero(samples', n) THEN More(pending.zero[n], For) ELSE 0
  BY DEF Scrape, Evaluate

\* After news the rate is not zero: the count before is in the window with it, or
\* no other sample is.
LEMMA NewsCount ==
  ASSUME TypeOK, Scrape, NEW n \in Node, News(n)
  PROVE  ~RateIsZero(samples', n)
<1> SUFFICES ASSUME RateIsZero(samples', n) PROVE FALSE
  OBVIOUS
<1> DEFINE window == samples'[n]
<1>1. Successive(window) # {} /\ NoIncrease(window, "processed")
  BY DEF RateIsZero, Rated
<1>2. window \in Samples /\ window[Window] = Sample(n) /\ Sample(n) # None
  BY ScrapeMoves DEF News
<1>3. \A i \in 1..(Window - 1) : window[i] = samples[n][i + 1]
  BY ScrapeMoves
<1> HIDE DEF window
<1>4. PICK i \in Present(window) : <<i, Window>> \in Successive(window)
  BY <1>1, <1>2, LastPair
<1>5. /\ Window \in Present(window) /\ i < Window
      /\ ~\E j \in Present(window) : i < j /\ j < Window
  BY <1>4 DEF Successive
<1>6. i \in 1..(Window - 1) /\ window[i].processed \in Nat /\ Sample(n).processed \in Nat
  <2>1. i \in 1..Window /\ window[i].processed \in Nat
    BY <1>2, SampleCounts
  <2>2. window[Window].processed \in Nat
    BY <1>2, <1>5, SampleCounts
  <2> QED BY <1>2, <1>5, <2>1, <2>2
<1>7. i + 1 \in Present(samples[n])
  <2>1. DOMAIN samples[n] = 1..Window /\ DOMAIN window = 1..Window
    BY <1>2 DEF TypeOK, Samples
  <2>2. window[i] # None
    BY DEF Present
  <2> QED BY <1>3, <1>6, <2>1, <2>2 DEF Present
<1>8. ASSUME NEW j \in Present(samples[n]) PROVE j <= i + 1
  <2>1. j \in 1..Window /\ samples[n][j] # None
    BY DEF TypeOK, Present
  <2> SUFFICES ASSUME j > i + 1 PROVE FALSE
    BY <1>6, <2>1
  <2>2. j - 1 \in 1..(Window - 1) /\ i < j - 1 /\ j - 1 < Window /\ (j - 1) + 1 = j
    BY <1>6, <2>1
  <2>3. j - 1 \in Present(window)
    BY <1>2, <1>3, <2>1, <2>2 DEF Present, Samples
  <2> QED BY <1>5, <2>2, <2>3
<1>9. Sample(n).processed \notin {window[i].processed, 0}
  BY <1>3, <1>6, <1>7, <1>8 DEF News
<1>10. Growth(window, "processed", <<i, Window>>) = 0
  BY <1>1, <1>4 DEF NoIncrease
<1>11. LET before == window[i].processed
           after  == Sample(n).processed
       IN  (IF after < before THEN after ELSE after - before) = 0
  BY <1>2, <1>10 DEF Growth
<1> QED BY <1>6, <1>9, <1>11

\* A full window has a rate,
LEMMA FullWindow ==
  ASSUME NEW window \in Samples, \A i \in 1..Window : window[i] # None
  PROVE  Present(window) = 1..Window /\ Successive(window) # {}
<1>1. Present(window) = 1..Window
  BY DEF Samples, Present
<1>2. <<Window - 1, Window>> \in Successive(window)
  <2>1. /\ Window - 1 \in 1..Window /\ Window \in 1..Window /\ Window - 1 < Window
        /\ ~\E i \in 1..Window : Window - 1 < i /\ i < Window
    OBVIOUS
  <2> QED BY <1>1, <2>1 DEF Successive
<1> QED BY <1>1, <1>2

\* and the rate is zero when it repeats one count of processed messages.
LEMMA SilentWindow ==
  ASSUME NEW window \in Samples, NEW count,
         \A i \in 1..Window : window[i] # None /\ window[i].processed = count
  PROVE  Successive(window) # {} /\ NoIncrease(window, "processed")
<1>1. ASSUME NEW pair \in Successive(window)
      PROVE  Growth(window, "processed", pair) = 0
  <2>1. pair[1] \in 1..Window /\ pair[2] \in 1..Window
    BY FullWindow DEF Successive
  <2>2. /\ window[pair[1]].processed = count /\ window[pair[2]].processed = count
        /\ window[pair[1]].processed \in Nat
    BY <2>1, FullWindow, SampleCounts
  <2> QED BY <2>2 DEF Growth
<1> QED BY <1>1, FullWindow DEF NoIncrease

LEMMA RoundsType ==
  ASSUME TypeOK, NEW n \in Node
  PROVE  /\ idle[n] \in 0..Most /\ served[n] \in 0..Most
         /\ quiet[n] \in 0..For /\ pending.zero[n] \in 0..For
  BY DEF TypeOK

LEMMA ScrapeAlarm ==
  ASSUME TypeOK, AlarmInv, Scrape
  PROVE  AlarmInv'
<1> USE DEF AlarmInv
<1>1. UNCHANGED published
  BY DEF Scrape
<1>2. ASSUME NEW n \in Node
      PROVE  /\ idle'[n] = More(idle[n], Most)
             /\ served'[n] = IF Sample(n) = None THEN 0 ELSE More(served[n], Most)
             /\ quiet'[n] = IF News(n) THEN 0 ELSE More(quiet[n], For)
             /\ Sample(n) \in {None, published[n]}
  BY DEF Scrape, Sample
<1>3. WindowInv'
  <2> SUFFICES ASSUME NEW n \in Node, NEW i \in 1..Window
               PROVE  /\ samples'[n][i] # None => published[n] # None
                      /\ Window - i < served'[n] => samples'[n][i] # None
                      /\ Window - i < idle'[n] => Repeats(samples'[n][i], published[n])
    BY <1>1 DEF WindowInv, Repeats
  <2>1. CASE i = Window
    BY <1>2, <2>1, ScrapeMoves DEF Repeats
  <2>2. CASE i # Window
    <3>1. /\ i \in 1..(Window - 1) /\ i + 1 \in 1..Window
          /\ Window - (i + 1) = Window - i - 1
      BY <2>2
    <3>2. samples'[n][i] = samples[n][i + 1]
      BY <3>1, ScrapeMoves
    <3>3. Window - i < served'[n] => Window - (i + 1) < served[n]
      BY <1>2, <3>1, RoundsType, MostNat DEF More
    <3>4. Window - i < idle'[n] => Window - (i + 1) < idle[n]
      BY <1>2, <3>1, RoundsType, MostNat DEF More
    <3> QED BY <3>1, <3>2, <3>3, <3>4 DEF WindowInv
  <2> QED BY <2>1, <2>2
<1>4. SilenceCount'
  <2> SUFFICES ASSUME NEW n \in Node
               PROVE  \/ idle'[n] - (Window - 1) <= pending'.zero[n]
                      \/ served'[n] - (Window - 1) <= pending'.zero[n]
    BY DEF SilenceCount
  <2>1. More(pending.zero[n], For) \in 0..For
    BY RoundsType, MoreType
  <2>2. pending'.zero[n] \in 0..For
    BY <2>1, ScrapeEvaluates
  <2>3. idle'[n] \in 0..Most /\ served'[n] \in 0..Most
    BY <1>2, RoundsType, MoreType, MostNat
  <2>4. CASE idle'[n] < Window \/ served'[n] < Window
    BY <2>2, <2>3, <2>4
  <2>5. CASE idle'[n] >= Window /\ served'[n] >= Window
    <3>1. \A i \in 1..Window : Window - i < served'[n] /\ Window - i < idle'[n]
      BY <2>3, <2>5, MostNat
    <3>2. \A i \in 1..Window : /\ samples'[n][i] # None
                               /\ samples'[n][i].processed = published[n].processed
      BY <1>1, <1>3, <3>1 DEF WindowInv, Repeats
    <3>3. RateIsZero(samples', n)
      <4>1. Successive(samples'[n]) # {} /\ NoIncrease(samples'[n], "processed")
        BY <3>2, ScrapeMoves, SilentWindow
      <4> QED BY <4>1 DEF RateIsZero, Rated
    <3>4. pending'.zero[n] = More(pending.zero[n], For)
      BY <3>3, ScrapeEvaluates
    <3>5. served'[n] = More(served[n], Most)
      BY <1>2, <2>5
    <3>6. \/ idle[n] - (Window - 1) <= pending.zero[n]
          \/ served[n] - (Window - 1) <= pending.zero[n]
      BY DEF SilenceCount
    <3> QED BY <1>2, <2>3, <3>4, <3>5, <3>6, RoundsType DEF More, Most
  <2> QED BY <2>3, <2>4, <2>5, MostNat
<1>5. NoFalseAlarm'
  <2> SUFFICES ASSUME NEW n \in Node PROVE pending'.zero[n] <= quiet'[n]
    BY DEF NoFalseAlarm
  <2>1. pending.zero[n] <= quiet[n]
    BY DEF NoFalseAlarm
  <2>2. More(pending.zero[n], For) <= More(quiet[n], For) /\ More(quiet[n], For) \in 0..For
    BY <2>1, RoundsType, MoreMonotone, MoreType
  <2>3. CASE News(n)
    BY <1>2, <2>3, NewsCount, ScrapeEvaluates
  <2>4. CASE ~News(n)
    BY <1>2, <2>2, <2>4, ScrapeEvaluates
  <2> QED BY <2>3, <2>4
<1> QED BY <1>3, <1>4, <1>5

\* Whatever happens on the nodes between two scrapes: idle starts anew with each
\* change of the number of processed messages that is published.
LEMMA NodeAlarm ==
  ASSUME TypeOK, AlarmInv, Next, ~Scrape
  PROVE  AlarmInv'
<1>1. PICK n \in Node :
        \/ \E message \in Message : Log(n, message)
        \/ Publish(n) \/ RestartRsyslog(n) \/ LoadRules(n) \/ Lose(n) \/ Return(n)
  BY DEF Next
<1>2. UNCHANGED <<samples, pending, served, quiet>>
  BY <1>1 DEF Log, Publish, RestartRsyslog, LoadRules, Lose, Return, History
<1>3. /\ \A m \in Node : idle'[m] \in {idle[m], 0}
      /\ \A m \in Node : published'[m] # published[m] =>
           /\ published'[m] = counter[m]
           /\ idle'[m] = 0 \/ published'[m].processed = published[m].processed
  <2>1. CASE Publish(n)
    BY <2>1 DEF Publish, Shown, TypeOK
  <2>2. CASE \E message \in Message : Log(n, message)
    BY <2>2 DEF Log, TypeOK
  <2>3. CASE RestartRsyslog(n) \/ LoadRules(n) \/ Lose(n) \/ Return(n)
    BY <2>3 DEF RestartRsyslog, LoadRules, Lose, Return, History
  <2> QED BY <1>1, <2>1, <2>2, <2>3
<1>4. ASSUME NEW m \in Node, published[m] # None PROVE published'[m] # None
  <2>1. counter[m] # None
    BY NoneIsNoCount DEF TypeOK, Counts
  <2> QED BY <1>3, <1>4, <2>1
<1>5. WindowInv'
  <2> SUFFICES ASSUME NEW m \in Node, NEW i \in 1..Window
               PROVE  /\ samples[m][i] # None => published'[m] # None
                      /\ Window - i < served[m] => samples[m][i] # None
                      /\ Window - i < idle'[m] => Repeats(samples[m][i], published'[m])
    BY <1>2 DEF WindowInv, Repeats
  <2>1. Window - i >= 0
    OBVIOUS
  <2> QED BY <1>3, <1>4, <2>1 DEF AlarmInv, WindowInv, Repeats
<1>6. SilenceCount'
  <2> SUFFICES ASSUME NEW m \in Node
               PROVE  \/ idle'[m] - (Window - 1) <= pending.zero[m]
                      \/ served[m] - (Window - 1) <= pending.zero[m]
    BY <1>2 DEF SilenceCount
  <2> QED BY <1>3, RoundsType DEF AlarmInv, SilenceCount
<1>7. NoFalseAlarm'
  BY <1>2 DEF AlarmInv, NoFalseAlarm
<1> QED BY <1>5, <1>6, <1>7 DEF AlarmInv

LEMMA AlarmNext == TypeOK /\ AlarmInv /\ [Next]_vars => AlarmInv'
<1>1. ASSUME AlarmInv, UNCHANGED vars PROVE AlarmInv'
  BY <1>1 DEF AlarmInv, WindowInv, SilenceCount, NoFalseAlarm, vars
<1> QED BY <1>1, ScrapeAlarm, NodeAlarm

LEMMA AlarmAlways == Spec => []AlarmInv
<1>1. Init => AlarmInv
  <2> SUFFICES ASSUME Init PROVE AlarmInv
    OBVIOUS
  <2>1. WindowInv
    BY DEF Init, WindowInv, Everywhere
  <2>2. SilenceCount /\ NoFalseAlarm
    BY DEF Init, SilenceCount, NoFalseAlarm, Everywhere
  <2> QED BY <2>1, <2>2 DEF AlarmInv
<1> QED BY <1>1, AlarmNext, TypeCorrect, PTL DEF Spec

\* For any nodes, any width of the window and any time the alert waits: a node
\* that is scraped and processes nothing raises the alert.
THEOREM SilenceNoticedAlways == Spec => []SilenceNoticed
<1>1. ASSUME TypeOK, AlarmInv PROVE SilenceNoticed
  <2> SUFFICES ASSUME NEW n \in Node, idle[n] = Most, served[n] = Most
               PROVE  pending.zero[n] = For
    BY DEF SilenceNoticed, Firing
  <2> QED BY <1>1, RoundsType DEF AlarmInv, SilenceCount, Most
<1> QED BY <1>1, AlarmAlways, TypeCorrect, PTL

\* The alert never says of a node that it is silent for longer than Prometheus
\* had no news of it.
THEOREM NoFalseAlarmAlways == Spec => []NoFalseAlarm
<1>1. AlarmInv => NoFalseAlarm
  BY DEF AlarmInv
<1> QED BY <1>1, AlarmAlways, PTL

\* Every query of the dashboard is the load metric, the value of a gauge or the
\* rate of a counter.
LEMMA QueriesMatch ==
  ASSUME NEW panel \in Panels, NEW query \in panel
  PROVE  \/ query = Value(LoadMetric)
         \/ query.family \in Gauges /\ ~query.rate
         \/ query.family \in Counters /\ query.rate
<1>1. \/ query \in {Rate(family) : family \in Counters}
      \/ query \in {Value(family) : family \in Gauges \cup {LoadMetric}}
  BY DEF Panels, Counters, Gauges,
     MessagesSubmitted, MessagesProcessed, MessagesFailed, TimesSuspended,
     TimeSpentSuspended, TimesResumed, MessagesEnqueued, MessagesInQueue,
     TimesQueueWasFull, MaximumQueueSize, DiscardedWhenNotFull, DiscardedWhenFull,
     UserCPUTime, SystemCPUTime, TotalMinorFaults, TotalMajorFaults,
     FileSystemOutputOperations, FileSystemInputOperations, MaxResidentSetSize,
     NumberOfOpenFiles, VoluntaryContextSwitches, InvoluntaryContextSwitches,
     AugenrulesLoadSuccess
<1> QED BY <1>1 DEF Rate, Value

\* On every node that was scraped for a whole window and reported a load, each
\* panel of the dashboard has its points.
THEOREM PanelsShowAlways == Spec => []PanelsShow
<1>1. ASSUME TypeOK, AlarmInv PROVE PanelsShow
  <2> SUFFICES ASSUME NEW n \in Node, served[n] >= Window, loaded[n] # None
               PROVE  /\ n \in Rated(samples, ActionName)
                      /\ published[n] # None
    BY QueriesMatch DEF PanelsShow, Shows
  <2>1. samples[n] \in Samples
    BY <1>1 DEF TypeOK, Samples
  <2>2. \A i \in 1..Window : samples[n][i] # None
    BY <1>1, RoundsType, MostNat DEF AlarmInv, WindowInv
  <2>3. published[n] # None
    BY <1>1, <2>2 DEF AlarmInv, WindowInv
  <2>4. Successive(samples[n]) # {}
    BY <2>1, <2>2, FullWindow
  <2> QED BY <2>3, <2>4 DEF Rated
<1> QED BY <1>1, AlarmAlways, TypeCorrect, PTL
=============================================================================
