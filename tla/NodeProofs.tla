------------------------------ MODULE NodeProofs -----------------------------
(* Theorems about Node: how the halves of the script share one node with the *)
(* unit, the node agent and the cleaner, and what the cleaner leaves of it.  *)
EXTENDS Node, AuditdConfiguratorProofs

USE DEF auditdVars, rsyslogVars, boundVars, unitVars, cleanerVars, nodeVars,
        oscVars, dirVars, loadVars, feedVars, runVars, faultVars, vars

\* The auditd half is only entered by its first statement, and only left by its
\* last one.
TurnsInv ==
  /\ TakeTurns
  /\ phase = "auditd" /\ "auditd" \in Installed => pc \notin {"new", "failed"}

LEMMA InitTurns == NodeInit => TurnsInv
  BY DEF NodeInit, Init, R!Init, TurnsInv, TakeTurns, Idle, R!Idle

\* No statement takes a run back to before its first one.
LEMMA StatementPc ==
  ASSUME Configure \/ Remove
  PROVE  pc' # "new"
<1>1. CASE Configure
  BY <1>1 DEF Configure, Backup, Diff, Clear, Expand, Copy, CopyDone, Load, SkipLoad,
              Report, Plugin, Service, DisableSocket, StopSocket, RestartJournald,
              GoTo, End, StartAuditd, StartFails
<1>2. CASE Remove
  BY <1>2 DEF Remove, PluginsOff, Wipe, Restore, Reload, Revert, RemoveMetric, RemoveBackup,
              GoTo, End, StartAuditd, StartFails
<1> QED BY <1>1, <1>2

\* Whatever stops the unit leaves both halves between two runs.
LEMMA StopPc ==
  ASSUME Stop
  PROVE  phase' = "idle" /\ pc' \in Idle /\ rsyslogPc' \in R!Idle
  BY DEF Stop, End, R!End, Idle, R!Idle

LEMMA StopTurns ==
  ASSUME Stop
  PROVE  TurnsInv'
  BY StopPc DEF TurnsInv, TakeTurns

\* A step that leaves the positions, the phase and the unit alone.
LEMMA StillTurns ==
  ASSUME TurnsInv, UNCHANGED <<pc, rsyslogPc, phase, unit>>
  PROVE  TurnsInv'
  BY DEF TurnsInv, TakeTurns

LEMMA ScriptTurns ==
  ASSUME TurnsInv, NodeScript
  PROVE  TurnsInv'
<1>1. CASE Start
  <2>1. CASE "auditd" \in Installed
    <3>1. pc' \notin {"new", "failed"}
      BY <1>1, <2>1 DEF Start, Begin
    <3> QED BY <1>1, <3>1 DEF Start, TurnsInv, TakeTurns
  <2>2. CASE "auditd" \notin Installed
    BY <1>1, <2>2 DEF Start, TurnsInv, TakeTurns
  <2> QED BY <2>1, <2>2
<1>2. CASE ConfigureAuditd
  <2>1. pc' # "new"
    BY <1>2, StatementPc DEF ConfigureAuditd
  <2> QED BY <1>2, <2>1 DEF ConfigureAuditd, TurnsInv, TakeTurns, Idle
<1>3. CASE Turn
  <2>1. "auditd" \in Installed => pc \in {"configured", "removed"}
    BY <1>3 DEF Turn, TurnsInv, Idle
  <2> QED BY <1>3, <2>1 DEF Turn, TurnsInv, TakeTurns
<1>4. CASE ConfigureRsyslog
  BY <1>4 DEF ConfigureRsyslog, TurnsInv, TakeTurns
<1> QED BY <1>1, <1>2, <1>3, <1>4 DEF NodeScript

LEMMA AgentTurns ==
  ASSUME TurnsInv, AgentFiles \/ AgentUnit
  PROVE  TurnsInv'
<1>1. CASE AgentFiles
  <2>1. UNCHANGED <<pc, rsyslogPc, phase, unit>>
    BY <1>1 DEF AgentFiles, NodeAgent, R!NodeAgent, R!runVars
  <2> QED BY <2>1, StillTurns
<1>2. CASE AgentUnit
  <2>1. CASE withdrawn
    BY <1>2, <2>1, StopTurns DEF AgentUnit
  <2>2. CASE ~withdrawn
    BY <1>2, <2>2 DEF AgentUnit, TurnsInv, TakeTurns
  <2> QED BY <2>1, <2>2
<1> QED BY <1>1, <1>2

LEMMA CleanerTurns ==
  ASSUME TurnsInv, Cleaner
  PROVE  TurnsInv'
<1>1. CASE CleanUnit
  <2>1. CASE unit
    BY <1>1, <2>1, StopTurns DEF CleanUnit
  <2>2. CASE ~unit
    BY <1>1, <2>2, StillTurns DEF CleanUnit
  <2> QED BY <2>1, <2>2
<1>2. CASE CleanSpool \/ CleanPlugins \/ CleanSocket \/ CleanRules \/ MoveBackup \/ CleanLoad
  BY <1>2, StillTurns DEF CleanSpool, CleanPlugins, CleanSocket, CleanRules, MoveBackup,
                          CleanLoad
<1>3. CASE CleanAuditd \/ CleanConf \/ CleanRsyslog \/ CleanTls \/ CleanOsc
  BY <1>3, StillTurns DEF CleanAuditd, CleanConf, CleanRsyslog, CleanTls, CleanOsc
<1> QED BY <1>1, <1>2, <1>3 DEF Cleaner

LEMMA NextTurns == TurnsInv /\ [NodeNext]_nodeVars => TurnsInv'
<1> SUFFICES ASSUME TurnsInv, [NodeNext]_nodeVars PROVE TurnsInv'
  OBVIOUS
<1>1. CASE NodeScript
  BY <1>1, ScriptTurns
<1>2. CASE Killed
  BY <1>2, StopTurns DEF Killed
<1>3. CASE Withdraw \/ AuditDisabled \/ CleanerStarts \/ CleanerKilled
  BY <1>3, StillTurns DEF Withdraw, AuditDisabled, CleanerStarts, CleanerKilled
<1>4. CASE AgentFiles \/ AgentUnit
  BY <1>4, AgentTurns
<1>5. CASE Cleaner
  BY <1>5, CleanerTurns
<1>6. CASE NodeReboot
  <2>1. phase' = "idle" /\ pc' \in Idle /\ rsyslogPc' \in R!Idle
    BY <1>6 DEF NodeReboot, Reboot, R!Reboot, Idle, R!Idle
  <2> QED BY <2>1 DEF TurnsInv, TakeTurns
<1>7. CASE UNCHANGED nodeVars
  BY <1>7, StillTurns
<1> QED BY <1>1, <1>2, <1>3, <1>4, <1>5, <1>6, <1>7 DEF NodeNext

\* For any rules, configurations and faults: the halves take turns, the rsyslog
\* half follows only a success of the auditd half, and no half runs without the
\* unit.
THEOREM TakeTurnsAlways == NodeSpec => []TakeTurns
<1>1. TurnsInv => TakeTurns
  BY DEF TurnsInv
<1> QED BY <1>1, InitTurns, NextTurns, PTL DEF NodeSpec

-----------------------------------------------------------------------------
(* What the cleaner leaves *)

\* The node came without an active syslog plugin.
PassiveNode == \A p \in Plugins : \A path \in PluginPath : p[path] # "yes"

\* The script may still run.
Alive == unit \/ cleaner = "none"

\* The originals exist, and no run ended while it deleted their backup.
Kept == Orig # {} /\ "backup" \notin lost

Statements == {"unit", "spool", "plugins", "socket", "rules", "move", "load", "auditd",
               "conf", "rsyslog", "tls", "osc", "done"}

\* The cleaner follows the withdrawal, and its later statements the end of the unit.
EndInv ==
  /\ cleaner \in Statements \cup {"none"}
  /\ cleaner # "none" => withdrawn
  /\ cleaner \notin {"none", "unit"} => ~unit
  /\ "auditd" \notin Installed => pc = "new" /\ backup = {}

\* A node without a backup is as before the extension: the script reverts
\* everything else before it deletes the backup.
RevertedInv ==
  Kept =>
    /\ backup = {} \/ pc \in Removing \ {"plugins_off"} => Active = {}
    /\ backup = {} \/ pc \in {"rm_metric", "rm_backup"} => forwards = {}
    /\ backup = {} \/ pc \in {"revert", "rm_metric", "rm_backup"} => loaded = Orig

\* The invariants of the auditd half, while it may run.
HalfInv == DirInv /\ OriginalsInv /\ RevertedInv

ScriptInv == Alive => HalfInv

\* What the cleaner found or made of the node, up to the load and the restart
\* that are still to come, or that a killed cleaner left out.
CleanInv ==
  ~Alive /\ Kept =>
    /\ \/ backup = Orig
       \/ /\ backup = {} /\ rules = Orig /\ Active = {}
          /\ loaded = Orig \/ cleaner = "load" \/ "load" \in cut
          /\ forwards = {} \/ cleaner \in {"load", "auditd"} \/ "auditd" \in cut
    /\ cleaner \in {"socket", "rules", "move"} => Active = {}
    /\ cleaner = "move" => backup = Orig
    /\ cleaner \in {"load", "auditd", "conf", "rsyslog", "tls", "osc", "done"} => backup = {}
    /\ cleaner = "load" => "auditd" \in Installed

RsyslogInv ==
  /\ conf = R!None =>
       live.conf = R!None \/ ~running \/ cleaner = "rsyslog" \/ "rsyslog" \in cut
  /\ cleaner \in {"rsyslog", "tls", "osc", "done"} => conf = R!None
  /\ cleaner \in {"osc", "done"} => tls = {}

\* journald reads no socket that does not exist.
SocketSane ==
  /\ socket \in Sockets /\ journalReads \in BOOLEAN
  /\ ~socket.exists => ~journalReads

\* Once the cleaner passed it, the socket is on wherever it exists.
SocketInv ==
  /\ SocketSane
  /\ cleaner \in Statements \ {"unit", "spool", "plugins", "socket"} =>
       journalReads = socket.exists /\ (socket.exists => socket.enabled /\ socket.active)

NodeInv ==
  TurnsInv /\ EndInv /\ ScriptInv /\ CleanInv /\ RsyslogInv /\ SocketInv

\* A step that leaves alone what the auditd half touches of the node.
auditdPart == <<dirVars, loaded, plugin, forwards, pc, lost>>

LEMMA StatementWorks ==
  ASSUME Configure \/ Remove
  PROVE  pc \notin Idle
<1>1. CASE Configure
  BY <1>1 DEF Configure, Backup, Diff, Clear, Expand, Copy, CopyDone, Load, SkipLoad,
              Report, Plugin, Service, DisableSocket, StopSocket, RestartJournald,
              GoTo, Idle
<1>2. CASE Remove
  BY <1>2 DEF Remove, PluginsOff, Wipe, Restore, Reload, Revert, RemoveMetric, RemoveBackup,
              GoTo, Idle
<1> QED BY <1>1, <1>2

\* What sed switches off is not active.
LEMMA PluginsOffActive ==
  ASSUME plugin' = [p \in PluginPath |-> Sed(p, "no")]
  PROVE  Active' = {}
  BY DEF Active, Sed

LEMMA RevertedNext ==
  DirInv /\ OriginalsInv /\ RevertedInv /\ [Next]_vars => RevertedInv'
<1> SUFFICES ASSUME DirInv, OriginalsInv, RevertedInv, [Next]_vars PROVE RevertedInv'
  OBVIOUS
<1> USE DEF DirInv, OriginalsInv, RevertedInv, Kept, Installing, Removing, Idle, GoTo
<1>1. CASE Begin
  BY <1>1 DEF Begin, Active
<1>2. CASE Backup
  BY <1>2 DEF Backup, Active
<1>3. CASE Diff
  BY <1>3 DEF Diff, Active
<1>4. CASE Clear
  BY <1>4 DEF Clear, Active
<1>5. CASE Expand
  BY <1>5 DEF Expand, End, Active
<1>6. CASE Copy
  BY <1>6 DEF Copy, Active
<1>7. CASE CopyDone
  BY <1>7 DEF CopyDone, End, Active
<1>8. CASE Load
  BY <1>8 DEF Load, Active
<1>9. CASE SkipLoad
  BY <1>9 DEF SkipLoad, Active
<1>10. CASE Report
  BY <1>10 DEF Report, Active
<1>11. CASE Plugin
  <2>1. pc = "plugin" /\ pc' = "service" /\ UNCHANGED <<backup, lost>>
    BY <1>11 DEF Plugin
  <2> QED BY <2>1
<1>12. CASE Service
  BY <1>12 DEF Service, StartAuditd, StartFails, End, Active
<1>13. CASE DisableSocket
  BY <1>13 DEF DisableSocket, Active
<1>14. CASE StopSocket
  BY <1>14 DEF StopSocket, Active
<1>15. CASE RestartJournald
  BY <1>15 DEF RestartJournald, Active
<1>16. CASE PluginsOff
  BY <1>16, PluginsOffActive DEF PluginsOff
<1>17. CASE Wipe
  BY <1>17 DEF Wipe, Active
<1>18. CASE Restore
  BY <1>18 DEF Restore, Active
<1>19. CASE Reload
  BY <1>19 DEF Reload, Active
<1>20. CASE Revert
  BY <1>20 DEF Revert, StartAuditd, StartFails, End, Active
<1>21. CASE RemoveMetric
  BY <1>21 DEF RemoveMetric, Active
<1>22. CASE RemoveBackup
  BY <1>22 DEF RemoveBackup, Active
<1>23. CASE NodeAgent
  BY <1>23 DEF NodeAgent, Active
<1>24. CASE Render
  BY <1>24 DEF Render, Active
<1>25. CASE Interrupt
  BY <1>25 DEF Interrupt, End, Active
<1>26. CASE AuditdDies
  BY <1>26 DEF AuditdDies, Active
<1>27. CASE Reboot
  BY <1>27 DEF Reboot, Pending, Active
<1>28. CASE UNCHANGED vars
  BY <1>28 DEF Active
<1> QED
  BY <1>1, <1>2, <1>3, <1>4, <1>5, <1>6, <1>7, <1>8, <1>9, <1>10, <1>11,
     <1>12, <1>13, <1>14, <1>15, <1>16, <1>17, <1>18, <1>19, <1>20, <1>21,
     <1>22, <1>23, <1>24, <1>25, <1>26, <1>27, <1>28
  DEF Next, Script, Configure, Remove

LEMMA HalfNext == HalfInv /\ [Next]_vars => HalfInv'
  BY DirNext, OriginalsNext, RevertedNext DEF HalfInv

LEMMA HalfStill ==
  ASSUME HalfInv, UNCHANGED auditdPart
  PROVE  HalfInv'
  BY DEF HalfInv, auditdPart, DirInv, OriginalsInv, RevertedInv, Kept, Active, Installing,
         Removing

\* A run that is stopped anywhere, or the end of the unit between two runs.
LEMMA HalfStop ==
  ASSUME HalfInv, Stop, UNCHANGED <<dirVars, loaded, plugin, forwards>>
  PROVE  HalfInv'
<1>1. CASE pc \in Idle
  <2>1. UNCHANGED auditdPart
    BY <1>1 DEF Stop, auditdPart
  <2> QED BY <2>1, HalfStill
<1>2. CASE pc \notin Idle
  <2>1. /\ pc' = "failed" /\ lost' = lost \cup Pending
        /\ UNCHANGED <<rules, backup, loaded, plugin, forwards>>
    BY <1>2 DEF Stop, End
  <2>2. DirInv'
    BY <2>1 DEF HalfInv, DirInv, Installing, Removing
  <2>3. OriginalsInv'
    BY <2>1 DEF HalfInv, DirInv, OriginalsInv, Pending, Installing, Removing
  <2>4. RevertedInv'
    BY <2>1 DEF HalfInv, RevertedInv, Kept, Active, Removing
  <2> QED BY <2>2, <2>3, <2>4 DEF HalfInv
<1> QED BY <1>1, <1>2
\* The cleaner does not end, and the unit does not come back once it started.
LEMMA AliveBefore ==
  ASSUME EndInv, ~Alive, [NodeNext]_nodeVars
  PROVE  ~Alive'
<1>1. cleaner # "none" /\ ~unit /\ withdrawn
  BY DEF Alive, EndInv
<1>2. CASE NodeScript
  BY <1>1, <1>2 DEF NodeScript, Start, ConfigureAuditd, Turn, ConfigureRsyslog, Alive
<1>3. CASE Killed \/ Withdraw \/ AuditDisabled \/ AgentFiles \/ AgentUnit
  BY <1>1, <1>3 DEF Killed, Withdraw, AuditDisabled, AgentFiles, AgentUnit, Alive
<1>4. CASE CleanerStarts \/ CleanerKilled \/ NodeReboot
  BY <1>1, <1>4 DEF CleanerStarts, CleanerKilled, NodeReboot, CleanTo, Alive
<1>5. CASE Cleaner
  BY <1>1, <1>5 DEF Cleaner, CleanUnit, CleanSpool, CleanPlugins, CleanSocket, CleanRules,
     MoveBackup, CleanLoad, CleanAuditd, CleanConf, CleanRsyslog, CleanTls, CleanOsc, CleanTo,
     Alive
<1>6. CASE UNCHANGED nodeVars
  BY <1>1, <1>6 DEF Alive
<1> QED BY <1>2, <1>3, <1>4, <1>5, <1>6 DEF NodeNext

\* Without the script only the cleaner, the node agent's files and boots are left.
LEMMA OnlyCleaner ==
  ASSUME TurnsInv, EndInv, ~Alive, [NodeNext]_nodeVars
  PROVE  \/ AgentFiles \/ Cleaner \/ CleanerKilled \/ NodeReboot
         \/ UNCHANGED nodeVars
<1>1. cleaner # "none" /\ ~unit /\ withdrawn /\ phase = "idle"
  BY DEF Alive, EndInv, TurnsInv, TakeTurns
<1> QED
  BY <1>1 DEF NodeNext, NodeScript, Start, ConfigureAuditd, Turn, ConfigureRsyslog, Killed,
     Withdraw, AuditDisabled, AgentUnit, CleanerStarts, CleanTo

\* The cleaner finds the node at its first statement, or at the second one.
LEMMA ScriptEnds ==
  ASSUME EndInv, Alive, [NodeNext]_nodeVars, ~Alive'
  PROVE  cleaner' \in {"unit", "spool"}
<1>1. cleaner \in {"none", "unit"} /\ cleaner' # "none"
  BY DEF Alive, EndInv
<1>2. CASE NodeScript
  BY <1>1, <1>2 DEF NodeScript, Start, ConfigureAuditd, Turn, ConfigureRsyslog
<1>3. CASE Killed \/ Withdraw \/ AuditDisabled \/ AgentFiles \/ AgentUnit
  BY <1>1, <1>3 DEF Killed, Withdraw, AuditDisabled, AgentFiles, AgentUnit
<1>4. CASE CleanerStarts \/ CleanerKilled \/ NodeReboot
  BY <1>1, <1>4 DEF CleanerStarts, CleanerKilled, NodeReboot, CleanTo
<1>5. CASE Cleaner
  BY <1>1, <1>5 DEF Cleaner, CleanUnit, CleanSpool, CleanPlugins, CleanSocket, CleanRules,
     MoveBackup, CleanLoad, CleanAuditd, CleanConf, CleanRsyslog, CleanTls, CleanOsc, CleanTo
<1>6. CASE UNCHANGED nodeVars
  BY <1>1, <1>6
<1> QED BY <1>2, <1>3, <1>4, <1>5, <1>6 DEF NodeNext

LEMMA EndNext == EndInv /\ [NodeNext]_nodeVars => EndInv'
<1> SUFFICES ASSUME EndInv, [NodeNext]_nodeVars PROVE EndInv'
  OBVIOUS
<1> USE DEF EndInv, Statements
<1>1. CASE Start
  BY <1>1 DEF Start, Begin
<1>2. CASE ConfigureAuditd
  <2>1. "auditd" \in Installed
    BY <1>2, StatementWorks DEF ConfigureAuditd, Idle
  <2> QED BY <1>2, <2>1 DEF ConfigureAuditd
<1>3. CASE Turn \/ ConfigureRsyslog \/ Withdraw \/ AuditDisabled
  BY <1>3 DEF Turn, ConfigureRsyslog, Withdraw, AuditDisabled
<1>4. CASE Killed
  BY <1>4 DEF Killed, Stop, Idle
<1>5. CASE AgentFiles
  BY <1>5 DEF AgentFiles, NodeAgent
<1>6. CASE AgentUnit
  BY <1>6 DEF AgentUnit, Stop, Idle
<1>7. CASE CleanerStarts
  BY <1>7 DEF CleanerStarts, CleanTo
<1>8. CASE CleanUnit
  BY <1>8 DEF CleanUnit, CleanTo, Stop, Idle
<1>9. CASE CleanSpool \/ CleanPlugins \/ CleanSocket \/ CleanRules \/ MoveBackup \/ CleanLoad
  BY <1>9 DEF CleanSpool, CleanPlugins, CleanSocket, CleanRules, MoveBackup, CleanLoad, CleanTo
<1>10. CASE CleanAuditd \/ CleanConf \/ CleanRsyslog \/ CleanTls \/ CleanOsc
  BY <1>10 DEF CleanAuditd, CleanConf, CleanRsyslog, CleanTls, CleanOsc, CleanTo
<1>11. CASE CleanerKilled
  BY <1>11 DEF CleanerKilled
<1>12. CASE NodeReboot
  BY <1>12 DEF NodeReboot, Reboot
<1>13. CASE UNCHANGED nodeVars
  BY <1>13
<1> QED
  BY <1>1, <1>2, <1>3, <1>4, <1>5, <1>6, <1>7, <1>8, <1>9, <1>10, <1>11, <1>12, <1>13
  DEF NodeNext, NodeScript, Cleaner

\* While the script may run, and in the step that ends it, the auditd half keeps
\* its invariants: the cleaner has not touched its files yet.
LEMMA HalfKept ==
  ASSUME EndInv, HalfInv, Alive, [NodeNext]_nodeVars
  PROVE  HalfInv'
<1>1. CASE Start
  <2>1. [Next]_vars
    BY <1>1 DEF Start, Next, Script
  <2> QED BY <2>1, HalfNext
<1>2. CASE ConfigureAuditd
  <2>1. [Next]_vars
    BY <1>2 DEF ConfigureAuditd, Next, Script
  <2> QED BY <2>1, HalfNext
<1>3. CASE Turn \/ ConfigureRsyslog \/ Withdraw \/ AuditDisabled \/ CleanerStarts
  <2>1. UNCHANGED auditdPart
    BY <1>3 DEF Turn, ConfigureRsyslog, Withdraw, AuditDisabled, CleanerStarts, auditdPart
  <2> QED BY <2>1, HalfStill
<1>4. CASE Killed
  BY <1>4, HalfStop DEF Killed
<1>5. CASE AgentFiles
  <2>1. UNCHANGED auditdPart
    BY <1>5 DEF AgentFiles, NodeAgent, auditdPart
  <2> QED BY <2>1, HalfStill
<1>6. CASE AgentUnit
  <2>1. CASE withdrawn
    BY <1>6, <2>1, HalfStop DEF AgentUnit
  <2>2. CASE ~withdrawn
    <3>1. UNCHANGED auditdPart
      BY <1>6, <2>2 DEF AgentUnit, auditdPart
    <3> QED BY <3>1, HalfStill
  <2> QED BY <2>1, <2>2
<1>7. CASE CleanUnit
  <2>1. CASE unit
    BY <1>7, <2>1, HalfStop DEF CleanUnit
  <2>2. CASE ~unit
    <3>1. UNCHANGED auditdPart
      BY <1>7, <2>2 DEF CleanUnit, auditdPart
    <3> QED BY <3>1, HalfStill
  <2> QED BY <2>1, <2>2
<1>8. CASE Cleaner /\ ~CleanUnit
  <2>1. cleaner \notin {"none", "unit"}
    BY <1>8 DEF Cleaner, CleanSpool, CleanPlugins, CleanSocket, CleanRules, MoveBackup,
       CleanLoad, CleanAuditd, CleanConf, CleanRsyslog, CleanTls, CleanOsc, CleanTo
  <2> QED BY <2>1 DEF Alive, EndInv
<1>9. CASE CleanerKilled
  <2>1. UNCHANGED auditdPart
    BY <1>9 DEF CleanerKilled, auditdPart
  <2> QED BY <2>1, HalfStill
<1>10. CASE NodeReboot
  <2>1. [Next]_vars
    BY <1>10 DEF NodeReboot, Next
  <2> QED BY <2>1, HalfNext
<1>11. CASE UNCHANGED nodeVars
  <2>1. UNCHANGED auditdPart
    BY <1>11 DEF auditdPart
  <2> QED BY <2>1, HalfStill
<1> QED
  BY <1>1, <1>2, <1>3, <1>4, <1>5, <1>6, <1>7, <1>8, <1>9, <1>10, <1>11
  DEF NodeNext, NodeScript

\* The cleaner takes the node over as the script left it.
LEMMA CleanBegins ==
  ASSUME EndInv, HalfInv', TurnsInv', Alive, [NodeNext]_nodeVars
  PROVE  CleanInv'
<1> SUFFICES ASSUME ~Alive', Kept' PROVE CleanInv'
  BY DEF CleanInv
<1>1. cleaner' \in {"unit", "spool"}
  BY ScriptEnds
<1>2. pc' \in Idle
  BY DEF Alive, TurnsInv, TakeTurns
<1>3. backup' = {} => rules' = Orig /\ Active' = {} /\ loaded' = Orig /\ forwards' = {}
  BY DEF HalfInv, OriginalsInv, RevertedInv, Kept
<1>4. backup' # {} => backup' = Orig
  BY <1>2 DEF HalfInv, OriginalsInv, Kept, Idle
<1> QED BY <1>1, <1>3, <1>4 DEF CleanInv

LEMMA CleanNext ==
  ASSUME TurnsInv, EndInv, CleanInv, ~Alive, [NodeNext]_nodeVars
  PROVE  CleanInv'
<1> SUFFICES ASSUME Kept' PROVE CleanInv'
  BY DEF CleanInv
<1>1. cleaner # "none" /\ ~unit /\ pc \in Idle
  BY DEF Alive, EndInv, TurnsInv, TakeTurns
<1> USE DEF CleanInv, Kept, Active
<1>2. CASE AgentFiles \/ UNCHANGED nodeVars
  BY <1>2 DEF AgentFiles, NodeAgent
<1>3. CASE CleanUnit
  BY <1>1, <1>3 DEF CleanUnit, CleanTo
<1>4. CASE CleanSpool
  BY <1>4 DEF CleanSpool, CleanTo
<1>5. CASE CleanPlugins
  BY <1>5, PluginsOffActive DEF CleanPlugins, CleanTo
<1>6. CASE CleanSocket
  BY <1>6 DEF CleanSocket, CleanTo
<1>7. CASE CleanRules
  BY <1>7 DEF CleanRules, EndInv
<1>8. CASE MoveBackup
  BY <1>8 DEF MoveBackup, CleanTo, EndInv
<1>9. CASE CleanLoad
  BY <1>9 DEF CleanLoad, CleanTo
<1>10. CASE CleanAuditd
  BY <1>10 DEF CleanAuditd, CleanTo
<1>11. CASE CleanConf
  BY <1>11 DEF CleanConf
<1>12. CASE CleanRsyslog
  BY <1>12 DEF CleanRsyslog, CleanTo
<1>13. CASE CleanTls
  BY <1>13 DEF CleanTls, CleanTo
<1>14. CASE CleanOsc
  BY <1>14 DEF CleanOsc, CleanTo
<1>15. CASE CleanerKilled
  BY <1>15 DEF CleanerKilled
<1>16. CASE NodeReboot
  <2>1. lost' \subseteq lost \cup {"metric"} /\ ("backup" \in lost' <=> "backup" \in lost)
    BY <1>1, <1>16 DEF NodeReboot, Reboot, Pending, Idle
  <2> QED BY <1>1, <1>16, <2>1 DEF NodeReboot, Reboot
<1> QED
  BY <1>2, <1>3, <1>4, <1>5, <1>6, <1>7, <1>8, <1>9, <1>10, <1>11, <1>12, <1>13, <1>14,
     <1>15, <1>16, OnlyCleaner DEF Cleaner

\* What the statements of the rsyslog half do to its files and to rsyslog.
LEMMA RsyslogStatementDoes ==
  ASSUME RsyslogStatement
  PROVE  /\ conf' # conf => conf' # R!None
         /\ live' = R!Files \/ UNCHANGED live
         /\ running' => running \/ live' = R!Files
         /\ UNCHANGED live \/ UNCHANGED conf
  BY DEF RsyslogStatement, R!InstallConf, R!CompareTls, R!RemoveTls, R!ClearTls, R!ExpandTls,
     R!CopyTls, R!CopiedTls, R!Service, R!ServiceFails, R!End, R!serviceVars, R!installed

\* No half works beside the later statements of the cleaner.
LEMMA RsyslogNext ==
  ASSUME TurnsInv, EndInv, RsyslogInv, [NodeNext]_nodeVars
  PROVE  RsyslogInv'
<1> USE DEF RsyslogInv
<1>1. CASE Start \/ Withdraw \/ AuditDisabled
  BY <1>1 DEF Start, Withdraw, AuditDisabled
<1>2. CASE ConfigureAuditd
  BY <1>2 DEF ConfigureAuditd
<1>3. CASE Turn
  <2>1. UNCHANGED <<conf, tls, live, running, cleaner, cut>>
    BY <1>3 DEF Turn, R!Begin, R!installed
  <2> QED BY <2>1
<1>4. CASE ConfigureRsyslog
  <2>1. cleaner \in {"none", "unit"} /\ UNCHANGED <<cleaner, cut>>
    BY <1>4 DEF ConfigureRsyslog, TurnsInv, TakeTurns, EndInv
  <2>2. (R!Files).conf = conf
    BY DEF R!Files
  <2> QED BY <1>4, <2>1, <2>2, RsyslogStatementDoes DEF ConfigureRsyslog
<1>5. CASE Killed \/ AgentUnit \/ CleanUnit
  <2>1. UNCHANGED <<conf, tls, live, running, cut>>
    BY <1>5 DEF Killed, AgentUnit, CleanUnit
  <2>2. cleaner' = cleaner \/ (cleaner = "unit" /\ cleaner' = "spool")
    BY <1>5 DEF Killed, AgentUnit, CleanUnit, CleanTo
  <2> QED BY <2>1, <2>2
<1>6. CASE AgentFiles
  BY <1>6 DEF AgentFiles, R!NodeAgent, R!installed, R!serviceVars
<1>7. CASE CleanerStarts
  BY <1>7 DEF CleanerStarts, CleanTo
<1>8. CASE CleanSpool
  BY <1>8 DEF CleanSpool, CleanTo
<1>9. CASE CleanPlugins \/ CleanSocket \/ CleanRules \/ MoveBackup \/ CleanLoad \/ CleanAuditd
  BY <1>9 DEF CleanPlugins, CleanSocket, CleanRules, MoveBackup, CleanLoad, CleanAuditd,
              CleanTo
<1>10. CASE CleanConf
  BY <1>10 DEF CleanConf
<1>11. CASE CleanRsyslog
  BY <1>11 DEF CleanRsyslog, CleanTo, R!Files
<1>12. CASE CleanTls
  BY <1>12 DEF CleanTls, CleanTo
<1>13. CASE CleanOsc
  BY <1>13 DEF CleanOsc, CleanTo
<1>14. CASE CleanerKilled
  BY <1>14 DEF CleanerKilled
<1>15. CASE NodeReboot
  BY <1>15 DEF NodeReboot, R!Reboot, R!Files, R!installed
<1>16. CASE UNCHANGED nodeVars
  BY <1>16
<1> QED
  BY <1>1, <1>2, <1>3, <1>4, <1>5, <1>6, <1>7, <1>8, <1>9, <1>10, <1>11, <1>12, <1>13, <1>14,
     <1>15, <1>16 DEF NodeNext, NodeScript, Cleaner

LEMMA StatementSane ==
  ASSUME SocketSane, Configure \/ Remove
  PROVE  SocketSane'
<1> USE DEF SocketSane, Sockets
<1>1. CASE DisableSocket
  BY <1>1 DEF DisableSocket
<1>2. CASE StopSocket
  BY <1>2 DEF StopSocket
<1>3. CASE RestartJournald
  BY <1>3 DEF RestartJournald
<1>4. CASE Remove \/ (Configure /\ ~(DisableSocket \/ StopSocket \/ RestartJournald))
  <2>1. UNCHANGED <<socket, journalReads>>
    BY <1>4 DEF Configure, Remove, Backup, Diff, Clear, Expand, Copy, CopyDone, Load, SkipLoad,
       Report, Plugin, Service, PluginsOff, Wipe, Restore, Reload, Revert, RemoveMetric,
       RemoveBackup
  <2> QED BY <2>1
<1> QED BY <1>1, <1>2, <1>3, <1>4

\* What turning the socket on makes of it.
LEMMA SocketTurnedOn ==
  ASSUME CleanSocket, socket.exists
  PROVE  /\ socket' \in Sockets /\ journalReads' = TRUE
         /\ socket'.exists = TRUE /\ socket'.enabled = TRUE /\ socket'.active = TRUE
<1>1. socket' = [exists |-> TRUE, enabled |-> TRUE, active |-> TRUE] /\ journalReads' = TRUE
  BY DEF CleanSocket
<1>2. /\ [exists |-> TRUE, enabled |-> TRUE, active |-> TRUE] \in Sockets
      /\ [exists |-> TRUE, enabled |-> TRUE, active |-> TRUE].exists = TRUE
      /\ [exists |-> TRUE, enabled |-> TRUE, active |-> TRUE].enabled = TRUE
      /\ [exists |-> TRUE, enabled |-> TRUE, active |-> TRUE].active = TRUE
  BY DEF Sockets
<1> QED BY <1>1, <1>2

LEMMA SaneNext ==
  ASSUME SocketSane, [NodeNext]_nodeVars
  PROVE  SocketSane'
<1>1. CASE ConfigureAuditd
  BY <1>1, StatementSane DEF ConfigureAuditd
<1>2. CASE CleanSocket
  <2>1. CASE socket.exists
    BY <1>2, <2>1, SocketTurnedOn DEF SocketSane
  <2>2. CASE ~socket.exists
    BY <1>2, <2>2 DEF CleanSocket, SocketSane
  <2> QED BY <2>1, <2>2
<1>3. CASE NodeReboot
  BY <1>3 DEF NodeReboot, Reboot, SocketSane, Sockets
<1>4. CASE ~(ConfigureAuditd \/ CleanSocket \/ NodeReboot)
  <2>1. UNCHANGED <<socket, journalReads>>
    <3>1. CASE NodeScript
      BY <1>4, <3>1 DEF NodeScript, Start, Begin, Turn, ConfigureRsyslog
    <3>2. CASE Killed \/ Withdraw \/ AuditDisabled \/ AgentFiles \/ AgentUnit
      BY <3>2 DEF Killed, Withdraw, AuditDisabled, AgentFiles, NodeAgent, AgentUnit
    <3>3. CASE CleanerStarts \/ CleanerKilled \/ UNCHANGED nodeVars
      BY <3>3 DEF CleanerStarts, CleanerKilled
    <3>4. CASE Cleaner
      BY <1>4, <3>4 DEF Cleaner, CleanUnit, CleanSpool, CleanPlugins, CleanRules, MoveBackup,
         CleanLoad, CleanAuditd, CleanConf, CleanRsyslog, CleanTls, CleanOsc
    <3> QED BY <1>4, <3>1, <3>2, <3>3, <3>4 DEF NodeNext
  <2> QED BY <2>1 DEF SocketSane
<1> QED BY <1>1, <1>2, <1>3, <1>4

LEMMA SocketNext ==
  ASSUME TurnsInv, EndInv, SocketInv, [NodeNext]_nodeVars
  PROVE  SocketInv'
<1>0. SocketSane'
  BY SaneNext DEF SocketInv
<1> USE <1>0 DEF SocketInv, Statements
<1>1. CASE Alive
  <2>1. CASE Alive'
    BY <2>1, EndNext DEF Alive, EndInv
  <2>2. CASE ~Alive'
    BY <1>1, <2>2, ScriptEnds
  <2> QED BY <2>1, <2>2
<1>2. CASE ~Alive
  <2>1. CASE AgentFiles \/ UNCHANGED nodeVars
    BY <2>1 DEF AgentFiles, NodeAgent
  <2>2. CASE CleanUnit \/ CleanSpool \/ CleanPlugins
    BY <2>2 DEF CleanUnit, CleanSpool, CleanPlugins, CleanTo
  <2>3. CASE CleanSocket
    <3>1. CASE socket.exists
      BY <2>3, <3>1, SocketTurnedOn
    <3>2. CASE ~socket.exists
      BY <2>3, <3>2 DEF CleanSocket, CleanTo, SocketSane, Sockets
    <3> QED BY <3>1, <3>2
  <2>4. CASE CleanRules \/ MoveBackup \/ CleanLoad \/ CleanAuditd \/ CleanConf
    BY <2>4 DEF CleanRules, MoveBackup, CleanLoad, CleanAuditd, CleanConf, CleanTo
  <2>5. CASE CleanRsyslog \/ CleanTls \/ CleanOsc
    BY <2>5 DEF CleanRsyslog, CleanTls, CleanOsc, CleanTo
  <2>6. CASE CleanerKilled \/ NodeReboot
    BY <1>2, <2>6 DEF CleanerKilled, NodeReboot, Alive
  <2> QED
    BY <1>2, <2>1, <2>2, <2>3, <2>4, <2>5, <2>6, OnlyCleaner DEF Cleaner
<1> QED BY <1>1, <1>2

LEMMA NodeInvNext == NodeInv /\ [NodeNext]_nodeVars => NodeInv'
<1> SUFFICES ASSUME NodeInv, [NodeNext]_nodeVars PROVE NodeInv'
  OBVIOUS
<1> USE DEF NodeInv
<1>1. TurnsInv' /\ EndInv'
  BY NextTurns, EndNext
<1>2. RsyslogInv' /\ SocketInv'
  BY RsyslogNext, SocketNext
<1>3. ScriptInv'
  BY AliveBefore, HalfKept DEF ScriptInv
<1>4. CleanInv'
  <2>1. CASE Alive
    BY <1>1, <2>1, HalfKept, CleanBegins DEF ScriptInv
  <2>2. CASE ~Alive
    BY <2>2, CleanNext
  <2> QED BY <2>1, <2>2
<1> QED BY <1>1, <1>2, <1>3, <1>4

LEMMA NodeInvInit == PassiveNode /\ NodeInit => NodeInv
<1> SUFFICES ASSUME PassiveNode, NodeInit PROVE NodeInv
  OBVIOUS
<1> USE DEF NodeInit, Init, R!Init
<1>1. TurnsInv
  BY InitTurns
<1>2. EndInv /\ SocketInv /\ RsyslogInv
  BY DEF EndInv, SocketInv, SocketSane, Sockets, RsyslogInv, Statements, R!Files
<1>3. Active = {}
  BY DEF PassiveNode, Active
<1>4. ScriptInv
  BY <1>3, DirInit, OriginalsInit DEF ScriptInv, HalfInv, RevertedInv, Removing
<1>5. CleanInv
  BY DEF CleanInv, Alive
<1> QED BY <1>1, <1>2, <1>4, <1>5 DEF NodeInv

LEMMA NodeInvCleaned == NodeInv => CleanedNode
<1> SUFFICES ASSUME NodeInv, cleaner = "done" PROVE CleanedNode
  BY DEF CleanedNode
<1>1. ~unit /\ phase = "idle" /\ ~Alive
  BY DEF NodeInv, EndInv, TurnsInv, TakeTurns, Alive
<1>2. Kept => /\ rules = Orig /\ backup = {}
              /\ "load" \notin cut => loaded = Orig
              /\ "auditd" \notin cut => forwards = {}
  BY <1>1 DEF NodeInv, CleanInv, Kept
<1>3. conf = R!None /\ tls = {} /\ ("rsyslog" \notin cut /\ running => live.conf = R!None)
  BY DEF NodeInv, RsyslogInv
<1>4. journalReads = socket.exists /\ (socket.exists => socket.enabled /\ socket.active)
  BY DEF NodeInv, SocketInv, Statements
<1> QED BY <1>1, <1>2, <1>3, <1>4 DEF CleanedNode, Kept

\* On every node whose plugins were off before, with any rules of its own, any
\* rules and configurations of the extension, any of the two services installed,
\* and any number of kills, boots and failing services: when the cleaner is done
\* the node has its own rules again and nothing of the extension, and its audit
\* socket is on if it has one, also where it was off before (cleaner.go:183-223).
THEOREM CleanedNodeAlways ==
  ASSUME PassiveNode
  PROVE  NodeSpec => []CleanedNode
<1>1. NodeInit => NodeInv
  BY NodeInvInit
<1> QED BY <1>1, NodeInvNext, NodeInvCleaned, PTL DEF NodeSpec
=============================================================================
