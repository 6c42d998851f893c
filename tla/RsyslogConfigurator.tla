------------------------- MODULE RsyslogConfigurator ------------------------
(***************************************************************************)
(* The rsyslog half of configure-rsyslog.sh: every run of the script       *)
(* installs /etc/rsyslog.d/60-audit.conf and the TLS files the OSC asks    *)
(* for, and restarts rsyslog.service if it replaced any of them.  A file   *)
(* of the TLS directory is a pair <<name, version>>; an empty directory    *)
(* and a missing one are the same to the script.  gardener-node-agent      *)
(* rewrites the OSC's files one by one while the script runs.              *)
(***************************************************************************)
EXTENDS Naturals, FiniteSets

CONSTANTS
  Conf,        \* rendered versions of 60-audit.conf
  Name,        \* names of TLS files
  Version,     \* versions of their contents
  Desired,     \* the configurations the webhook may render
  MaxFaults,   \* bound: interruptions, reboots and failures of rsyslog.service
  MaxUpdates   \* bound: changes of the desired configuration

File == Name \X Version
None == "none"  \* no file

Setup == [conf : Conf, tls : SUBSET File]

ASSUME ConstantsOK ==
  /\ None \notin Conf
  /\ Desired \subseteq Setup
  /\ MaxFaults \in Nat /\ MaxUpdates \in Nat

VARIABLES
  desired,   \* configuration last rendered into the OSC
  oscConf,   \* /var/lib/rsyslog-relp-configurator/rsyslog.d/60-audit.conf
  oscTls,    \* /var/lib/rsyslog-relp-configurator/tls
  updates,
  conf,      \* /etc/rsyslog.d/60-audit.conf
  tls,       \* /etc/ssl/rsyslog
  spool,     \* the queue's spool directory exists
  enabled,   \* rsyslog.service is enabled
  running,   \* rsyslog.service is active
  live,      \* the files that rsyslog read when it last started
  pc, restart, todo,
  lost,      \* history: a run that changed files ended without the restart
  faults

oscVars     == <<desired, oscConf, oscTls, updates>>
installed   == <<conf, tls>>
serviceVars == <<spool, enabled, running, live>>
runVars     == <<pc, restart, todo>>
vars == <<oscVars, installed, serviceVars, runVars, lost, faults>>

Idle == {"new", "done", "failed"}

Names(d) == {f[1] : f \in d}

Files == [conf |-> conf, tls |-> tls]

Init ==
  /\ desired \in Desired /\ oscConf = None /\ oscTls = {} /\ updates = 0
  /\ conf = None /\ tls = {}
  /\ spool = FALSE /\ enabled \in BOOLEAN /\ running \in BOOLEAN /\ live = Files
  /\ pc = "new" /\ restart = FALSE /\ todo = {}
  /\ lost = FALSE /\ faults = 0

-----------------------------------------------------------------------------
(* A run ends early: under errexit, or because it is killed. *)

EndKeepsRestart ==  \* mutant: the flag survives the run
  /\ pc' = "failed" /\ todo' = {} /\ UNCHANGED restart
  /\ lost' = (lost \/ restart \/ pc \in {"remove", "clear", "copy"})

End ==
  /\ pc' = "failed" /\ restart' = FALSE /\ todo' = {}
  /\ lost' = (lost \/ restart \/ pc \in {"remove", "clear", "copy"})

Interrupt ==
  /\ pc \notin Idle /\ faults < MaxFaults /\ faults' = faults + 1
  /\ End
  /\ UNCHANGED <<oscVars, installed, serviceVars>>

\* The node boots: an enabled rsyslog starts with the installed files.
Reboot ==
  /\ faults < MaxFaults /\ faults' = faults + 1
  /\ running' = enabled /\ live' = Files
  /\ pc' = "new" /\ restart' = FALSE /\ todo' = {} /\ lost' = FALSE
  /\ UNCHANGED <<oscVars, installed, spool, enabled>>

-----------------------------------------------------------------------------
(* configure_rsyslog *)

Begin ==
  /\ pc \in Idle
  /\ pc' = "conf" /\ enabled' = TRUE /\ spool' = TRUE
  /\ UNCHANGED <<oscVars, installed, running, live, restart, todo, lost, faults>>

InstallConfNoRestart ==  \* mutant: line 126 is missing
  /\ pc = "conf"
  /\ IF oscConf = None
       THEN End /\ UNCHANGED conf
       ELSE conf' = oscConf /\ pc' = "tls" /\ UNCHANGED <<restart, todo, lost>>
  /\ UNCHANGED <<oscVars, tls, serviceVars, faults>>

\* The comparison fails as well when the OSC's file is missing, and so does cp.
InstallConf ==
  /\ pc = "conf"
  /\ \/ /\ conf = oscConf /\ conf # None
        /\ pc' = "tls" /\ UNCHANGED <<conf, restart, todo, lost>>
     \/ /\ conf # oscConf /\ oscConf # None
        /\ conf' = oscConf /\ restart' = TRUE /\ pc' = "tls"
        /\ UNCHANGED <<todo, lost>>
     \/ /\ oscConf = None
        /\ End /\ UNCHANGED conf
  /\ UNCHANGED <<oscVars, tls, serviceVars, faults>>

\* With no TLS files in the OSC the installed ones are removed, if any; the
\* last one is gone before the script moves on.
CompareTls ==
  /\ pc = "tls"
  /\ pc' = IF oscTls = tls THEN "service" ELSE IF oscTls = {} THEN "remove" ELSE "clear"
  /\ UNCHANGED <<oscVars, installed, serviceVars, restart, todo, lost, faults>>

RemoveTlsStays ==  \* mutant: line 139 leaves the files in place
  /\ pc = "remove" /\ pc' = "service"
  /\ UNCHANGED <<oscVars, installed, serviceVars, restart, todo, lost, faults>>

RemoveTls ==
  /\ pc = "remove"
  /\ \E f \in tls : tls' = tls \ {f}
  /\ pc' = IF tls' = {} THEN "service" ELSE "remove"
  /\ UNCHANGED <<oscVars, conf, serviceVars, restart, todo, lost, faults>>

ClearTls ==
  /\ pc = "clear" /\ \E f \in tls : tls' = tls \ {f}
  /\ UNCHANGED <<oscVars, conf, serviceVars, runVars, lost, faults>>

\* The shell expands the glob of cp; without a match cp fails on a literal *.
ExpandTls ==
  /\ pc = "clear" /\ tls = {}
  /\ IF oscTls # {}
       THEN /\ pc' = "copy" /\ todo' = Names(oscTls)
            /\ UNCHANGED <<restart, lost>>
       ELSE End
  /\ UNCHANGED <<oscVars, installed, serviceVars, faults>>

CopyTls ==
  /\ pc = "copy"
  /\ \E f \in oscTls :
       f[1] \in todo /\ tls' = tls \cup {f} /\ todo' = todo \ {f[1]}
  /\ UNCHANGED <<oscVars, conf, serviceVars, pc, restart, lost, faults>>

CopiedTlsNoRestart ==  \* mutant: line 136 is missing
  /\ pc = "copy" /\ todo \cap Names(oscTls) = {}
  /\ IF todo = {} THEN pc' = "service" /\ UNCHANGED <<restart, todo, lost>> ELSE End
  /\ UNCHANGED <<oscVars, installed, serviceVars, faults>>

\* cp skips a file that vanished after the expansion, and then exits with 1.
CopiedTls ==
  /\ pc = "copy" /\ todo \cap Names(oscTls) = {}
  /\ IF todo = {}
       THEN pc' = "service" /\ restart' = TRUE /\ UNCHANGED <<todo, lost>>
       ELSE End
  /\ UNCHANGED <<oscVars, installed, serviceVars, faults>>

ServiceOnlyStarts ==  \* mutant: lines 145 and 146 are missing
  /\ pc = "service"
  /\ IF ~running
       THEN running' = TRUE /\ live' = Files /\ lost' = FALSE
       ELSE UNCHANGED <<running, live, lost>>
  /\ pc' = "done" /\ restart' = FALSE
  /\ UNCHANGED <<oscVars, installed, spool, enabled, todo, faults>>

Service ==
  /\ pc = "service"
  /\ IF restart \/ ~running
       THEN running' = TRUE /\ live' = Files /\ lost' = FALSE
       ELSE UNCHANGED <<running, live, lost>>
  /\ pc' = "done" /\ restart' = FALSE
  /\ UNCHANGED <<oscVars, installed, spool, enabled, todo, faults>>

\* systemctl start or restart fails and leaves rsyslog stopped.
ServiceFails ==
  /\ pc = "service" /\ (restart \/ ~running)
  /\ faults < MaxFaults /\ faults' = faults + 1
  /\ running' = FALSE /\ lost' = FALSE
  /\ pc' = "failed" /\ restart' = FALSE
  /\ UNCHANGED <<oscVars, installed, spool, enabled, live, todo>>

-----------------------------------------------------------------------------
(* The surroundings: the webhook, gardener-node-agent, rsyslog itself. *)

Render ==
  /\ updates < MaxUpdates /\ updates' = updates + 1
  /\ desired' \in Desired \ {desired}
  /\ UNCHANGED <<oscConf, oscTls, installed, serviceVars, runVars, lost, faults>>

\* One file of the OSC is written or removed.
NodeAgent ==
  /\ \/ oscConf # desired.conf /\ oscConf' = desired.conf /\ UNCHANGED oscTls
     \/ \E f \in desired.tls \ oscTls :
          oscTls' = {g \in oscTls : g[1] # f[1]} \cup {f} /\ UNCHANGED oscConf
     \/ \E g \in oscTls :
          /\ g[1] \notin Names(desired.tls)
          /\ oscTls' = oscTls \ {g} /\ UNCHANGED oscConf
  /\ UNCHANGED <<desired, updates, installed, serviceVars, runVars, lost, faults>>

RsyslogDies ==
  /\ running /\ faults < MaxFaults /\ faults' = faults + 1
  /\ running' = FALSE /\ lost' = FALSE
  /\ UNCHANGED <<oscVars, installed, spool, enabled, live, runVars>>

Script ==
  \/ Begin \/ InstallConf \/ CompareTls \/ RemoveTls
  \/ ClearTls \/ ExpandTls \/ CopyTls \/ CopiedTls \/ Service

Next ==
  \/ Script \/ ServiceFails \/ NodeAgent \/ Render
  \/ Interrupt \/ RsyslogDies \/ Reboot

Spec == Init /\ [][Next]_vars

\* systemd starts the script again after every end, a running script moves on,
\* and the node agent finishes applying an OSC.
FairSpec == Spec /\ WF_vars(Script) /\ WF_vars(NodeAgent)

-----------------------------------------------------------------------------
(* Properties *)

\* The values of the state; restart is only set from the first replaced file
\* to the restart or the end of the run.
TypeOK ==
  /\ desired \in Desired /\ oscConf \in Conf \cup {None} /\ oscTls \subseteq File
  /\ updates \in 0..MaxUpdates
  /\ conf \in Conf \cup {None} /\ tls \subseteq File
  /\ spool \in BOOLEAN /\ enabled \in BOOLEAN
  /\ running \in BOOLEAN /\ live \in [conf : Conf \cup {None}, tls : SUBSET File]
  /\ pc \in Idle \cup {"conf", "tls", "remove", "clear", "copy", "service"}
  /\ restart \in BOOLEAN /\ todo \subseteq Name
  /\ restart => pc \notin Idle \cup {"conf"}
  /\ todo # {} => pc = "copy"
  /\ lost \in BOOLEAN /\ faults \in 0..MaxFaults

\* At the end of a run rsyslog works with the configuration that is installed,
\* whatever the order of updates and restarts, unless an earlier run changed
\* files and ended before the restart (lines 122-147).
RunsInstalledConf ==
  pc = "done" /\ ~lost /\ running => live.conf = conf

\* At the end of a run rsyslog works with the TLS files that are installed, or
\* with ones that were removed because the OSC has none (line 139 removes them
\* without a restart).
RunsInstalledTls ==
  pc = "done" /\ ~lost /\ running /\ tls # {} => live.tls = tls

\* Once the OSC stops changing, what it asks for is installed, exactly, and
\* rsyslog is enabled with its spool directory in place.
Installs ==
  <>[](conf = desired.conf /\ tls = desired.tls /\ enabled /\ spool)

-----------------------------------------------------------------------------
(* The abstract specification, once for each kind of file.                   *)

ConfHandover == INSTANCE Handover WITH
  Value <- Conf \cup {None}, Empty <- {None},
  installed <- conf, active <- live.conf,
  working <- pc \notin Idle, owed <- lost \/ ~running

TlsHandover == INSTANCE Handover WITH
  Value <- SUBSET File, Empty <- {{}},
  installed <- tls, active <- live.tls,
  working <- pc \notin Idle, owed <- lost \/ ~running

\* Each half of the files is handed over to rsyslog: they change in a run only,
\* rsyslog never works with anything but what was installed when it started, and
\* a run that ends leaves the two equal, or a restart owed (lines 112-148).
HandsOver == ConfHandover!Spec /\ TlsHandover!Spec
=============================================================================
