--------------------------- MODULE PstatsProcessor --------------------------
(***************************************************************************)
(* process-rsyslog-pstats.sh: rsyslog's omprog action starts the script    *)
(* and writes what impstats reports every minute to its standard input, a  *)
(* BEGIN line, one JSON object per source of statistics and an END line.   *)
(* At END the script sorts the samples of the batch, drops the families it *)
(* does not know, adds a comment per family, appends the result to a       *)
(* temporary file and renames that to rsyslog_pstats.prom, where           *)
(* node-exporter finds it.                                                 *)
(*                                                                         *)
(* The script may be killed between any two commands, with rsyslog or      *)
(* alone (the memory limits of the unit hold for both); omprog starts it   *)
(* again with the next line it has to write.  A family is a metric name, a *)
(* sample a record of its family, its source and its batch.                *)
(***************************************************************************)
EXTENDS Naturals, Sequences, SequencesExt

CONSTANTS
  Family,     \* the metric names, in the order of sort
  Known,      \* those with a comment in add_comments
  Source,     \* the objects of a batch, in the order of sort
  Stats,      \* the families of each source, in the order of its JSON object
  Batch,      \* numbers of batches, used round and round
  PipeSize,   \* bound: lines in the pipe
  MaxFaults   \* bound: kills, garbled objects and failed writes

ASSUME ConstantsOK ==
  /\ Family \in Seq(ToSet(Family)) /\ IsInjective(Family)
  /\ Source \in Seq(ToSet(Source)) /\ IsInjective(Source)
  /\ Known \subseteq ToSet(Family)
  /\ \A s \in ToSet(Source) : Stats[s] \in Seq(ToSet(Family)) /\ IsInjective(Stats[s])
  /\ Batch \in Nat \ {0} /\ PipeSize \in Nat \ {0} /\ MaxFaults \in Nat

VARIABLES
  batch, next,  \* rsyslog: the current batch and its next line; 0: BEGIN
  pipe,         \* standard input of the script
  alive,        \* the script runs
  pc,           \* "read", or what follows an END: "append" or "rename"
  lines,        \* the samples of the batch so far
  output,       \* what is to be written
  prev,         \* the family last commented; None at first
  tmp, file,    \* rsyslog_pstats.prom.tmp and rsyslog_pstats.prom
  suspect,      \* history: the script stopped since the last rename
  damaged,      \* history: it had stopped before the last rename
  faults

rsyslogVars == <<batch, next>>
fileVars    == <<tmp, file, damaged>>
scriptVars  == <<lines, output, prev>>
vars == <<rsyslogVars, pipe, alive, pc, scriptVars, fileVars, suspect, faults>>

None == "none"

ASSUME NoneIsNoFamily == None \notin ToSet(Family)

Sample(f, s, b) == [family |-> f, source |-> s, batch |-> b]
Comment(f)      == [comment |-> f]

Samples == [family : ToSet(Family), source : ToSet(Source), batch : 0..Batch - 1]
Entries == Samples \cup [comment : Known]

Index(seq, e) == CHOOSE i \in DOMAIN seq : seq[i] = e

\* The order of sort on whole lines: the metric name, then its labels.
Before(x, y) ==
  LET fx == Index(Family, x.family)
      fy == Index(Family, y.family)
  IN \/ fx < fy
     \/ fx = fy /\ Index(Source, x.source) < Index(Source, y.source)

\* A line goes before the first one that comes after it.
Insert(x) == [seq \in Seq(Samples) |->
  InsertAt(seq, Min({i \in DOMAIN seq : Before(x, seq[i])} \cup {Len(seq) + 1}), x)]

Sort(seq) ==
  LET sorted[i \in 0..Len(seq)] ==
        IF i = 0 THEN <<>> ELSE Insert(seq[i])[sorted[i - 1]]
  IN  sorted[Len(seq)]

\* process_line: one sample for every number of the object.
SamplesOf(s, b) == [i \in DOMAIN Stats[s] |-> Sample(Stats[s][i], s, b)]

Init ==
  /\ batch = 0 /\ next = 0
  /\ pipe = <<>> /\ alive = FALSE /\ pc = "read"
  /\ lines = <<>> /\ output = <<>> /\ prev = None
  /\ tmp = <<>> /\ file = <<>>
  /\ suspect = FALSE /\ damaged = FALSE /\ faults = 0

-----------------------------------------------------------------------------
(* rsyslog: impstats and omprog *)

Line(n, b) ==
  CASE n = 0 -> [kind |-> "begin"]
    [] n \in DOMAIN Source -> [kind |-> "stats", source |-> Source[n], batch |-> b]
    [] OTHER -> [kind |-> "end"]

\* omprog writes a line to the script, and starts it if there is none.
Write(line) ==
  /\ next' = IF next > Len(Source) THEN 0 ELSE next + 1
  /\ batch' = IF next > Len(Source) THEN (batch + 1) % Batch ELSE batch
  /\ IF alive
       THEN /\ Len(pipe) < PipeSize
            /\ pipe' = Append(pipe, line) /\ UNCHANGED <<alive, pc, scriptVars>>
       ELSE /\ alive' = TRUE /\ pipe' = <<line>>
            /\ pc' = "read" /\ lines' = <<>> /\ output' = <<>> /\ prev' = None

Report ==
  /\ Write(Line(next, batch))
  /\ UNCHANGED <<fileVars, suspect, faults>>

Fault == faults < MaxFaults /\ faults' = faults + 1

\* An object that is no JSON, cut off or mixed with another message.
Garble ==
  /\ Fault /\ next \in DOMAIN Source
  /\ Write([kind |-> "garbled"])
  /\ UNCHANGED <<fileVars, suspect>>

-----------------------------------------------------------------------------
(* The script *)

Reads(kind) ==
  /\ alive /\ pc = "read" /\ pipe # <<>>
  /\ Head(pipe).kind = kind /\ pipe' = Tail(pipe)

\* Mutant of ReadBegin: output is not cleared (line 125).
ReadBeginOutputStays ==
  /\ Reads("begin")
  /\ lines' = <<>> /\ prev' = None
  /\ UNCHANGED <<rsyslogVars, alive, pc, output, fileVars, suspect, faults>>

ReadBegin ==
  /\ Reads("begin")
  /\ lines' = <<>> /\ output' = <<>> /\ prev' = None
  /\ UNCHANGED <<rsyslogVars, alive, pc, fileVars, suspect, faults>>

ReadStats ==
  /\ Reads("stats")
  /\ lines' = lines \o SamplesOf(Head(pipe).source, Head(pipe).batch)
  /\ UNCHANGED <<rsyslogVars, alive, pc, output, prev, fileVars, suspect, faults>>

\* jq fails, and the script exits with 1.
ReadGarbled ==
  /\ Reads("garbled")
  /\ alive' = FALSE /\ suspect' = TRUE
  /\ UNCHANGED <<rsyslogVars, pc, scriptVars, fileVars, faults>>

\* A family gets its comment when it differs from the one before; a family
\* without a comment is skipped, and does not count as the one before.
Texts == [output : Seq(Entries), prev : Known \cup {None}]

Add(x) == [text \in Texts |->
  IF x.family = text.prev
    THEN [text EXCEPT !.output = Append(@, x)]
    ELSE IF x.family \in Known
           THEN [output |-> text.output \o <<Comment(x.family), x>>, prev |-> x.family]
           ELSE text]

\* The loop over the samples.
AddAll(text, seq) ==
  LET acc[i \in 0..Len(seq)] == IF i = 0 THEN text ELSE Add(seq[i])[acc[i - 1]]
  IN  acc[Len(seq)]

\* Mutant of ReadEnd: the samples are not sorted (line 129).
ReadEndUnsorted ==
  LET acc == AddAll([output |-> output, prev |-> prev], lines) IN
  /\ Reads("end") /\ pc' = "append"
  /\ output' = acc.output /\ prev' = acc.prev
  /\ UNCHANGED <<rsyslogVars, alive, lines, fileVars, suspect, faults>>

ReadEnd ==
  LET sorted == Sort(lines)
      acc    == AddAll([output |-> output, prev |-> prev], sorted)
  IN
  /\ Reads("end") /\ pc' = "append"
  /\ lines' = sorted /\ output' = acc.output /\ prev' = acc.prev
  /\ UNCHANGED <<rsyslogVars, alive, fileVars, suspect, faults>>

\* The new text goes behind whatever the temporary file already holds.
AppendTmp ==
  /\ alive /\ pc = "append" /\ pc' = "rename"
  /\ tmp' = tmp \o output
  /\ UNCHANGED <<rsyslogVars, pipe, alive, scriptVars, file, damaged, suspect, faults>>

\* No space is left: a part is written and the script exits with 1.
AppendFails ==
  /\ alive /\ pc = "append" /\ Fault
  /\ \E n \in 0..Len(output) - 1 : tmp' = tmp \o SubSeq(output, 1, n)
  /\ alive' = FALSE /\ suspect' = TRUE
  /\ UNCHANGED <<rsyslogVars, pipe, pc, scriptVars, file, damaged>>

\* Mutant of Rename: the temporary file is copied and stays.
RenameCopies ==
  /\ alive /\ pc = "rename" /\ pc' = "read"
  /\ file' = tmp /\ damaged' = suspect /\ suspect' = FALSE
  /\ UNCHANGED <<rsyslogVars, pipe, alive, scriptVars, tmp, faults>>

Rename ==
  /\ alive /\ pc = "rename" /\ pc' = "read"
  /\ file' = tmp /\ tmp' = <<>>
  /\ damaged' = suspect /\ suspect' = FALSE
  /\ UNCHANGED <<rsyslogVars, pipe, alive, scriptVars, faults>>

\* The script is killed, alone or with rsyslog, which then starts a new batch.
Kill ==
  /\ alive /\ Fault
  /\ alive' = FALSE /\ suspect' = TRUE
  /\ \/ UNCHANGED rsyslogVars
     \/ next' = 0 /\ UNCHANGED batch
  /\ UNCHANGED <<pipe, pc, scriptVars, fileVars>>

Script == ReadBegin \/ ReadStats \/ ReadGarbled \/ ReadEnd \/ AppendTmp \/ Rename

Next == Report \/ Script \/ Garble \/ AppendFails \/ Kill

Spec == Init /\ [][Next]_vars

\* impstats reports every minute (60-audit.conf.tpl), and the script goes on.
FairSpec == Spec /\ WF_vars(Report) /\ WF_vars(Script)

-----------------------------------------------------------------------------
(* Properties *)

\* The values of the state: what is written consists of samples and comments,
\* and the temporary file is only open between the two steps of a publication
\* or when a script that stopped left something in it.
TypeOK ==
  /\ batch \in 0..Batch - 1 /\ next \in 0..Len(Source) + 1
  /\ Len(pipe) <= PipeSize /\ alive \in BOOLEAN
  /\ pc \in {"read", "append", "rename"}
  /\ ToSet(lines) \subseteq Entries /\ ToSet(output) \subseteq Entries
  /\ prev \in Known \cup {None}
  /\ ToSet(tmp) \subseteq Entries /\ ToSet(file) \subseteq Entries
  /\ suspect \in BOOLEAN /\ damaged \in BOOLEAN /\ faults \in 0..MaxFaults
  /\ tmp # <<>> => (suspect \/ pc = "rename")

FamilyOf(entry) == IF "comment" \in DOMAIN entry THEN entry.comment ELSE entry.family

\* x belongs before y: the families in their order, the comment of a family before
\* its samples, and these in the order of the sources.
Ahead(x, y) ==
  LET fx == Index(Family, FamilyOf(x))
      fy == Index(Family, FamilyOf(y))
  IN \/ fx < fy
     \/ /\ fx = fy /\ "source" \in DOMAIN y
        /\ "source" \in DOMAIN x => Index(Source, x.source) < Index(Source, y.source)

\* The samples of batch b of the known families, and a comment for each of them.
Contents(b) ==
  LET known(s) == ToSet(Stats[s]) \cap Known IN
  UNION {{Sample(f, s, b) : f \in known(s)} \cup {Comment(f) : f \in known(s)}
           : s \in ToSet(Source)}

\* What node-exporter should find of batch b: everything once, and in order.
IsWhole(text, b) ==
  /\ ToSet(text) = Contents(b)
  /\ \A i, j \in DOMAIN text : i < j => Ahead(text[i], text[j])

\* What is published is one whole batch, each family commented once and its
\* samples together; when the script stops, at most the publication that follows is
\* damaged, whatever was left of the batch, the pipe and the temporary file
\* (lines 122-147).
OneDamagedPublication ==
  file # <<>> /\ ~damaged => \E b \in 0..Batch - 1 : IsWhole(file, b)

\* Once faults end, every batch is published whole, again and again.
KeepsPublishing ==
  \A b \in 0..Batch - 1 : []<>IsWhole(file, b)

\* Lines 144-145: writing to the output file "has to be done with an atomic
\* operation".  A script that stops between the append and the rename leaves
\* its batch in the temporary file, and line 146 puts the next one behind it.
OneBatchPublished ==
  \A x, y \in ToSet(file) :
    "batch" \in DOMAIN x /\ "batch" \in DOMAIN y => x.batch = y.batch
=============================================================================
