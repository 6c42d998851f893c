------------------------------ MODULE Dashboard ------------------------------
(***************************************************************************)
(* What is published of a node and what the dashboard "Rsyslog Stats" asks *)
(* for.  A family of metrics is named without its prefix rsyslog_ and      *)
(* rsyslog_pstat_.  A panel is the set of its queries: the family, and     *)
(* whether the panel plots the rate of its series or their values.  All    *)
(* of them select the nodes chosen in the variable Node.                   *)
(***************************************************************************)

\* The comments of process-rsyslog-pstats.sh give each family its type, and a
\* family without comment is not published.
Counters ==
  {"submitted", "processed", "failed", "suspended", "suspended_duration", "resumed",
   "utime", "stime", "minflt", "majflt", "inblock", "oublock", "nvcsw", "nivcsw",
   "openfiles", "enqueued", "full", "discarded_full", "discarded_nf"}

Gauges == {"maxrss", "size", "maxqsize"}

\* The metric of configure-rsyslog.sh, in a file of its own.
LoadMetric == "augenrules_load_success"

Rate(family)  == [family |-> family, rate |-> TRUE]
Value(family) == [family |-> family, rate |-> FALSE]

\* Row Input
MessagesSubmitted == {Rate("submitted")}

\* Row Actions
MessagesProcessed  == {Rate("processed")}
MessagesFailed     == {Rate("failed")}
TimesSuspended     == {Rate("suspended"), Rate("resumed")}
TimeSpentSuspended == {Rate("suspended_duration")}
TimesResumed       == {Rate("suspended")}

\* Row Queues
MessagesEnqueued         == {Rate("enqueued")}
MessagesInQueue          == {Value("size")}
TimesQueueWasFull        == {Rate("full")}
MaximumQueueSize         == {Value("maxqsize")}
DiscardedWhenNotFull     == {Rate("discarded_nf")}
DiscardedWhenFull        == {Rate("discarded_full")}

\* Row Resources
UserCPUTime                == {Rate("utime")}
SystemCPUTime              == {Rate("stime")}
TotalMinorFaults           == {Rate("minflt")}
TotalMajorFaults           == {Rate("majflt")}
FileSystemOutputOperations == {Rate("oublock")}
FileSystemInputOperations  == {Rate("inblock")}
MaxResidentSetSize         == {Value("maxrss")}
NumberOfOpenFiles          == {Rate("nivcsw")}
VoluntaryContextSwitches   == {Rate("nvcsw")}
InvoluntaryContextSwitches == {Rate("nivcsw")}

\* Row Audit
\* Mutants of AugenrulesLoadSuccess: the prefix of the other metrics, and a rate.
LoadSuccessByPstats == {Value("pstat_augenrules_load_success")}
LoadSuccessRate     == {Rate(LoadMetric)}

AugenrulesLoadSuccess == {Value(LoadMetric)}

Panels ==
  {MessagesSubmitted,
   MessagesProcessed, MessagesFailed, TimesSuspended, TimeSpentSuspended, TimesResumed,
   MessagesEnqueued, MessagesInQueue, TimesQueueWasFull, MaximumQueueSize,
   DiscardedWhenNotFull, DiscardedWhenFull,
   UserCPUTime, SystemCPUTime, TotalMinorFaults, TotalMajorFaults,
   FileSystemOutputOperations, FileSystemInputOperations, MaxResidentSetSize,
   NumberOfOpenFiles, VoluntaryContextSwitches, InvoluntaryContextSwitches,
   AugenrulesLoadSuccess}
=============================================================================
