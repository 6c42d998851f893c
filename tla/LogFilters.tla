------------------------------ MODULE LogFilters -----------------------------
(***************************************************************************)
(* From the logging rules of a Shoot to the messages that rsyslog          *)
(* forwards: computeLogFilters makes one filter of each rule, and          *)
(* 60-audit.conf calls the relp action for the first filter that a message *)
(* passes, and stops.  A filter is the set of its conditions, which the    *)
(* code joins with "and"; a condition is a pair of what it looks at and    *)
(* what it compares that with.                                             *)
(***************************************************************************)
EXTENDS Admission, Sequences

CONSTANT Matches  \* <<regex, text>>: re_match finds the expression in the text

Optional(value, kind) == IF value = None THEN {} ELSE {<<kind, value>>}

ProgramNames(rule) ==
  IF rule.programNames = {} THEN {} ELSE {<<"programname", rule.programNames>>}

Severity(rule) == Optional(rule.severity, "syslogseverity")

MessageContent(rule) ==
  IF rule.messageContent = None
    THEN {}
    ELSE Optional(rule.messageContent.regex, "regex")
           \cup Optional(rule.messageContent.exclude, "exclude")

Filter(rule) == ProgramNames(rule) \cup Severity(rule) \cup MessageContent(rule)

computeLogFilters(rules) == [i \in DOMAIN rules |-> Filter(rules[i])]

\* Mutant of Holds: the severity of the rule itself is not forwarded.
HoldsBelow(condition, message) ==
  LET value == condition[2] IN
  \/ condition[1] = "programname" /\ message.programname \in value
  \/ condition[1] = "syslogseverity" /\ message.severity < value
  \/ condition[1] = "regex" /\ <<value, message.text>> \in Matches
  \/ condition[1] = "exclude" /\ <<value, message.text>> \notin Matches

Holds(condition, message) ==
  LET value == condition[2] IN
  \/ condition[1] = "programname" /\ message.programname \in value
  \/ condition[1] = "syslogseverity" /\ message.severity <= value
  \/ condition[1] = "regex" /\ <<value, message.text>> \in Matches
  \/ condition[1] = "exclude" /\ <<value, message.text>> \notin Matches

Passes(filter, message) == \A condition \in filter : Holds(condition, message)

\* "if then" is no configuration: rsyslog needs a condition in every filter.
Accepted(filters) == \A i \in DOMAIN filters : filters[i] # {}

\* The filters that call the relp action for a message.
Calls(filters, message) ==
  {i \in DOMAIN filters :
     /\ Passes(filters[i], message)
     /\ \A j \in 1..(i - 1) : ~Passes(filters[j], message)}

\* What the owner means by a rule (docs/usage/configuration.md:99): all that
\* the rule names must fit, what it leaves out does not matter.
Selects(rule, message) ==
  /\ rule.programNames # {} => message.programname \in rule.programNames
  /\ rule.severity # None => message.severity <= rule.severity
  /\ rule.messageContent # None =>
       LET content == rule.messageContent IN
       /\ content.regex # None => <<content.regex, message.text>> \in Matches
       /\ content.exclude # None => <<content.exclude, message.text>> \notin Matches
=============================================================================
