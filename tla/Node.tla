--------------------------------- MODULE Node --------------------------------
(***************************************************************************)
(* One node with everything that works on it: rsyslog-configurator.service *)
(* runs configure-rsyslog.sh, whose main part configures auditd first and  *)
(* rsyslog second under one errexit; gardener-node-agent writes the        *)
(* extension's files and unit and takes them away again; and when the      *)
(* extension goes, the init container of the configuration cleaner runs    *)
(* its command, without errexit, while the others may still be at work.    *)
(*                                                                         *)
(* The auditd half is AuditdConfigurator, which this module extends; the   *)
(* rsyslog half is the instance R of RsyslogConfigurator.  Both count      *)
(* their faults and updates together.                                      *)
(***************************************************************************)
EXTENDS AuditdConfigurator

CONSTANTS
  Conf, TlsName, TlsVersion, Setups,  \* as in RsyslogConfigurator
  Installed   \* the services of the node's image

ASSUME NodeConstantsOK == Installed \subseteq {"auditd", "rsyslog"}

VARIABLES
  \* the rsyslog half
  setup, oscConf, oscTls, conf, tls, spool, enabled, running, live,
  rsyslogPc, restartRsyslog, rsyslogTodo, rsyslogLost,
  \* the node as a whole
  unit,       \* rsyslog-configurator.service is installed and enabled
  phase,      \* the half that the run is in; "idle" between runs
  withdrawn,  \* the OSC does not contain the extension's files any more
  cleaner,    \* the next statement of the cleaner's command
  cut         \* history: restarts and loads that a killed cleaner left out

R == INSTANCE RsyslogConfigurator WITH
  Name <- TlsName, Version <- TlsVersion, Desired <- Setups,
  desired <- setup, pc <- rsyslogPc, restart <- restartRsyslog, todo <- rsyslogTodo,
  lost <- rsyslogLost

auditdVars  == <<desired, osc, dirVars, loadVars, feedVars, runVars, lost>>
rsyslogVars == <<setup, oscConf, oscTls, conf, tls, spool, enabled, running, live,
                 rsyslogPc, restartRsyslog, rsyslogTodo, rsyslogLost>>
boundVars   == <<updates, faults>>
unitVars    == <<unit, withdrawn>>
cleanerVars == <<cleaner, cut>>
nodeVars    == <<auditdVars, rsyslogVars, boundVars, unitVars, phase, cleanerVars>>

\* The scripts come and go with 60-audit.conf.
ScriptInstalled == oscConf # R!None

Nowhere == [conf |-> R!None, tls |-> {}]

NodeInit ==
  /\ Init /\ R!Init
  /\ desired # {} /\ enabled /\ running
  /\ unit = FALSE /\ phase = "idle" /\ withdrawn = FALSE
  /\ cleaner = "none" /\ cut = {}

-----------------------------------------------------------------------------
(* main, and the unit that runs it *)

Start ==
  /\ phase = "idle" /\ unit /\ ScriptInstalled
  /\ IF "auditd" \in Installed THEN Begin ELSE UNCHANGED vars
  /\ phase' = "auditd"
  /\ UNCHANGED <<rsyslogVars, unitVars, cleanerVars>>

\* Mutant of ConfigureAuditd: errexit (line 7) is missing, main goes on.
ConfigureAuditdGoesOn ==
  /\ phase = "auditd"
  /\ Configure \/ Remove
  /\ UNCHANGED <<phase, rsyslogVars, unitVars, cleanerVars>>

\* An error of configure_auditd ends the run.
ConfigureAuditd ==
  /\ phase = "auditd"
  /\ Configure \/ Remove
  /\ phase' = IF pc' = "failed" THEN "idle" ELSE "auditd"
  /\ UNCHANGED <<rsyslogVars, unitVars, cleanerVars>>

\* Mutant of Turn: main returns after configure_auditd.
TurnSkips ==
  /\ phase = "auditd" /\ pc \in Idle
  /\ phase' = "idle"
  /\ UNCHANGED <<auditdVars, rsyslogVars, boundVars, unitVars, cleanerVars>>

Turn ==
  /\ phase = "auditd" /\ pc \in Idle
  /\ IF "rsyslog" \in Installed
       THEN R!Begin /\ phase' = "rsyslog"
       ELSE UNCHANGED <<rsyslogVars, boundVars>> /\ phase' = "idle"
  /\ UNCHANGED <<auditdVars, updates, unitVars, cleanerVars>>

RsyslogStatement ==
  \/ R!InstallConf \/ R!CompareTls \/ R!RemoveTls \/ R!ClearTls \/ R!ExpandTls
  \/ R!CopyTls \/ R!CopiedTls \/ R!Service \/ R!ServiceFails

ConfigureRsyslog ==
  /\ phase = "rsyslog"
  /\ RsyslogStatement
  /\ phase' = IF rsyslogPc' \in R!Idle THEN "idle" ELSE "rsyslog"
  /\ UNCHANGED <<auditdVars, unitVars, cleanerVars>>

\* The run ends wherever it is.
Stop ==
  /\ phase' = "idle"
  /\ IF pc \notin Idle THEN End(Pending) ELSE UNCHANGED <<runVars, lost>>
  /\ IF rsyslogPc \notin R!Idle
       THEN R!End
       ELSE UNCHANGED <<rsyslogPc, restartRsyslog, rsyslogTodo, rsyslogLost>>

Killed ==
  /\ phase # "idle" /\ faults < MaxFaults /\ faults' = faults + 1
  /\ Stop
  /\ UNCHANGED <<desired, osc, dirVars, loadVars, feedVars, setup, oscConf, oscTls, conf,
                 tls, spool, enabled, running, live, updates, unitVars, cleanerVars>>

NodeScript == Start \/ ConfigureAuditd \/ Turn \/ ConfigureRsyslog

-----------------------------------------------------------------------------
(* gardenlet and gardener-node-agent *)

CleanTo(from, to) == cleaner = from /\ cleaner' = to

\* The extension is disabled: the OSC is rendered without it.
Withdraw ==
  /\ ~withdrawn /\ withdrawn' = TRUE
  /\ desired' = {} /\ setup' = Nowhere
  /\ UNCHANGED <<osc, dirVars, loadVars, feedVars, runVars, lost, oscConf, oscTls, conf, tls,
                 spool, enabled, running, live, rsyslogPc, restartRsyslog, rsyslogTodo,
                 rsyslogLost, boundVars, unit, phase, cleanerVars>>

AuditDisabled ==
  /\ ~withdrawn /\ desired # {}
  /\ updates < MaxUpdates /\ updates' = updates + 1
  /\ desired' = {}
  /\ UNCHANGED <<osc, dirVars, loadVars, feedVars, runVars, lost, faults, rsyslogVars, unitVars,
                 phase, cleanerVars>>

\* Files come and go one by one and in any order.
AgentFiles ==
  /\ \/ NodeAgent /\ UNCHANGED rsyslogVars
     \/ R!NodeAgent /\ UNCHANGED auditdVars
  /\ UNCHANGED <<unitVars, phase, cleanerVars>>

\* The unit is started after its files were written, and stopped before it goes.
AgentUnit ==
  /\ unit = withdrawn /\ unit' = ~unit
  /\ ~withdrawn => ScriptInstalled
  /\ IF withdrawn
       THEN Stop
       ELSE UNCHANGED <<phase, runVars, lost, rsyslogPc, restartRsyslog, rsyslogTodo, rsyslogLost>>
  /\ UNCHANGED <<desired, osc, dirVars, loadVars, feedVars, setup, oscConf, oscTls, conf, tls,
                 spool, enabled, running, live, boundVars, withdrawn, cleanerVars>>

-----------------------------------------------------------------------------
(* The command of the cleaner, one action for each of its statements *)

\* gardener-resource-manager deploys the DaemonSet; the pod's init container starts.
CleanerStarts ==
  /\ withdrawn /\ CleanTo("none", "unit")
  /\ UNCHANGED <<auditdVars, rsyslogVars, boundVars, unitVars, phase, cut>>

\* Mutant of CleanUnit: the unit is removed and not stopped (line 184).
CleanUnitFile ==
  /\ CleanTo("unit", "spool")
  /\ unit' = FALSE
  /\ UNCHANGED <<auditdVars, rsyslogVars, boundVars, withdrawn, phase, cut>>

CleanUnit ==
  /\ CleanTo("unit", "spool")
  /\ IF unit
       THEN unit' = FALSE /\ Stop
       ELSE UNCHANGED <<unit, phase, runVars, lost, rsyslogPc, restartRsyslog, rsyslogTodo,
                        rsyslogLost>>
  /\ UNCHANGED <<desired, osc, dirVars, loadVars, feedVars, setup, oscConf, oscTls, conf, tls,
                 spool, enabled, running, live, boundVars, withdrawn, cut>>

CleanSpool ==
  /\ CleanTo("spool", "plugins")
  /\ spool' = FALSE
  /\ UNCHANGED <<auditdVars, setup, oscConf, oscTls, conf, tls, enabled, running, live,
                 rsyslogPc, restartRsyslog, rsyslogTodo, rsyslogLost, boundVars, unitVars,
                 phase, cut>>

CleanPlugins ==
  /\ CleanTo("plugins", "socket")
  /\ plugin' = [p \in PluginPath |-> Sed(p, "no")]
  /\ UNCHANGED <<desired, osc, dirVars, loadVars, auditd, forwards, socket, journalReads,
                 runVars, lost, rsyslogVars, boundVars, unitVars, phase, cut>>

\* A socket that exists is turned on, whatever the script or the image made of it.
CleanSocket ==
  /\ CleanTo("socket", "rules")
  /\ IF socket.exists
       THEN /\ socket' = [exists |-> TRUE, enabled |-> TRUE, active |-> TRUE]
            /\ journalReads' = TRUE
       ELSE UNCHANGED <<socket, journalReads>>
  /\ UNCHANGED <<desired, osc, dirVars, loadVars, plugin, auditd, forwards, runVars, lost,
                 rsyslogVars, boundVars, unitVars, phase, cut>>

\* rm -rf of rules.d, only where the backup is.
CleanRules ==
  /\ cleaner = "rules"
  /\ IF backup # {}
       THEN rules' = {} /\ cleaner' = "move"
       ELSE cleaner' = "conf" /\ UNCHANGED rules
  /\ UNCHANGED <<desired, osc, backup, loadVars, feedVars, runVars, lost, rsyslogVars,
                 boundVars, unitVars, phase, cut>>

MoveBackup ==
  /\ CleanTo("move", "load")
  /\ rules' = backup /\ backup' = {}
  /\ UNCHANGED <<desired, osc, loadVars, feedVars, runVars, lost, rsyslogVars, boundVars,
                 unitVars, phase, cut>>

CleanLoad ==
  /\ CleanTo("load", "auditd")
  /\ IF "auditd" \in Installed
       THEN loaded' = rules /\ outcome' = IF rules \cap Bad = {} THEN "ok" ELSE "error"
       ELSE UNCHANGED <<loaded, outcome>>
  /\ cut' = cut \ {"load"}
  /\ UNCHANGED <<desired, osc, dirVars, metric, feedVars, runVars, lost, rsyslogVars,
                 boundVars, unitVars, phase>>

\* A failing restart leaves auditd stopped, and the command goes on.
CleanAuditd ==
  /\ CleanTo("auditd", "conf")
  /\ \/ auditd' = "running" /\ forwards' = Active /\ UNCHANGED faults
     \/ /\ auditd' = "stopped" /\ forwards' = {}
        /\ faults < MaxFaults /\ faults' = faults + 1
  /\ cut' = cut \ {"auditd"}
  /\ UNCHANGED <<desired, osc, dirVars, loadVars, plugin, socket, journalReads, runVars, lost,
                 rsyslogVars, updates, unitVars, phase>>

CleanConf ==
  /\ cleaner = "conf"
  /\ cleaner' = IF conf # R!None THEN "rsyslog" ELSE "tls"
  /\ conf' = R!None
  /\ UNCHANGED <<auditdVars, setup, oscConf, oscTls, tls, spool, enabled, running, live,
                 rsyslogPc, restartRsyslog, rsyslogTodo, rsyslogLost, boundVars, unitVars,
                 phase, cut>>

CleanRsyslog ==
  /\ CleanTo("rsyslog", "tls")
  /\ \/ running' = TRUE /\ live' = R!Files /\ UNCHANGED faults
     \/ running' = FALSE /\ UNCHANGED live /\ faults < MaxFaults /\ faults' = faults + 1
  /\ cut' = cut \ {"rsyslog"}
  /\ UNCHANGED <<auditdVars, setup, oscConf, oscTls, conf, tls, spool, enabled,
                 rsyslogPc, restartRsyslog, rsyslogTodo, rsyslogLost, updates, unitVars, phase>>

CleanTls ==
  /\ CleanTo("tls", "osc")
  /\ tls' = {}
  /\ UNCHANGED <<auditdVars, setup, oscConf, oscTls, conf, spool, enabled, running, live,
                 rsyslogPc, restartRsyslog, rsyslogTodo, rsyslogLost, boundVars, unitVars,
                 phase, cut>>

CleanOsc ==
  /\ CleanTo("osc", "done")
  /\ osc' = {} /\ oscConf' = R!None /\ oscTls' = {}
  /\ UNCHANGED <<desired, dirVars, loadVars, feedVars, runVars, lost, setup, conf, tls, spool,
                 enabled, running, live, rsyslogPc, restartRsyslog, rsyslogTodo, rsyslogLost,
                 boundVars, unit, withdrawn, phase, cut>>

\* The init container is killed and starts anew; the tests that led to a load or
\* a restart do not lead there again.
CleanerKilled ==
  /\ cleaner \notin {"none", "unit", "done"} /\ cleaner' = "unit"
  /\ faults < MaxFaults /\ faults' = faults + 1
  /\ cut' = cut \cup (IF cleaner = "load" THEN {"load", "auditd"}
                     ELSE {cleaner} \cap {"auditd", "rsyslog"})
  /\ UNCHANGED <<auditdVars, rsyslogVars, updates, unitVars, phase>>

Cleaner ==
  \/ CleanUnit \/ CleanSpool \/ CleanPlugins \/ CleanSocket \/ CleanRules \/ MoveBackup
  \/ CleanLoad \/ CleanAuditd \/ CleanConf \/ CleanRsyslog \/ CleanTls \/ CleanOsc

-----------------------------------------------------------------------------
(* The node as a whole *)

NodeReboot ==
  /\ Reboot /\ R!Reboot
  /\ phase' = "idle" /\ cut' = {}
  /\ cleaner' = IF cleaner = "none" THEN "none" ELSE "unit"
  /\ UNCHANGED unitVars

NodeNext ==
  \/ NodeScript \/ Killed \/ Withdraw \/ AuditDisabled \/ AgentFiles \/ AgentUnit
  \/ CleanerStarts \/ Cleaner \/ CleanerKilled \/ NodeReboot

NodeSpec == NodeInit /\ [][NodeNext]_nodeVars

\* systemd starts the script again, the node agent applies the OSC, and the
\* kubelet runs the init container until it succeeds.
NodeFairSpec ==
  /\ NodeSpec
  /\ WF_nodeVars(NodeScript)
  /\ WF_nodeVars(AgentFiles) /\ WF_nodeVars(AgentUnit)
  /\ WF_nodeVars(CleanerStarts) /\ WF_nodeVars(Cleaner)

-----------------------------------------------------------------------------
(* Properties *)

\* The two halves take turns: while one is at work the other one has ended, with
\* a result that is none of its errors (script:150-162), and without the unit
\* neither is at work.
TakeTurns ==
  /\ phase # "auditd" => pc \in Idle
  /\ phase # "rsyslog" => rsyslogPc \in R!Idle
  /\ phase = "rsyslog" /\ "auditd" \in Installed => pc \in {"configured", "removed"}
  /\ ~unit => phase = "idle"

\* When the cleaner is done the node is as before the extension, wherever it
\* stopped the script and whatever the node agent did meanwhile: the node's own
\* rules are back and loaded, nothing forwards, journald reads the audit socket
\* (cleaner.go:183-223).  Excepted are nodes that had no rules of their own, a backup
\* that was torn before, what boot or an earlier attempt of the cleaner left to do,
\* and services that fail.  Not as before are nodes that came with an active syslog
\* plugin, of which it is not asked, and nodes that came with the audit socket off:
\* wherever the socket exists it is on afterwards, now and at the next boot.
CleanedNode ==
  cleaner = "done" =>
    /\ ~unit /\ phase = "idle"
    /\ conf = R!None /\ tls = {}
    /\ Orig # {} /\ "backup" \notin lost =>
         /\ rules = Orig /\ backup = {}
         /\ "load" \notin cut => loaded = Orig
         /\ "auditd" \notin cut => forwards = {}
    /\ "rsyslog" \notin cut /\ running => live.conf = R!None
    /\ journalReads = socket.exists
    /\ socket.exists => socket.enabled /\ socket.active

\* An error of the auditd half delays the rsyslog half, and keeps it away for good
\* only while augenrules rejects the rules on a node that never had a metric
\* (script:63-69 and 152): otherwise rsyslog gets its files and works.
RsyslogConfigured ==
  \/ "rsyslog" \notin Installed
  \/ <>[](~withdrawn => conf = setup.conf /\ tls = setup.tls /\ running)
  \/ <>[](rules \cap Bad # {} /\ metric = "none")
=============================================================================
