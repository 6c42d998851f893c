---------------------- MODULE AuditdConfiguratorProofs ----------------------
(***************************************************************************)
(* What holds of AuditdConfigurator for every set of rule files, every     *)
(* original directory, every plugin configuration and every number of      *)
(* faults and updates.                                                     *)
(***************************************************************************)
EXTENDS AuditdConfigurator, TLAPS

(* Type correctness. *)

LEMMA RemovalsShrink ==
  ASSUME NEW d, NEW e \in Removals(d)
  PROVE  e \subseteq d /\ (e # {} /\ Dot \in d => Dot \in e)
BY DEF Removals

LEMMA SedType ==
  ASSUME TypeOK, NEW p \in PluginPath, NEW v \in {"no", "yes"}
  PROVE  Sed(p, v) \in {"absent", "bare", "no", "yes"}
BY DEF TypeOK, PluginFiles, Sed

LEMMA SocketType ==
  ASSUME TypeOK
  PROVE  /\ socket.enabled \in BOOLEAN /\ socket.active \in BOOLEAN
         /\ [socket EXCEPT !.enabled = FALSE] \in Sockets
         /\ [socket EXCEPT !.active = FALSE] \in Sockets
         /\ [socket EXCEPT !.active = socket.enabled] \in Sockets
BY DEF TypeOK, Sockets

LEMMA FaultType ==
  ASSUME TypeOK, faults < MaxFaults
  PROVE  faults + 1 \in 0..MaxFaults
BY ConstantsOK DEF TypeOK, ConstantsOK

LEMMA InitType == Init => TypeOK
<1> SUFFICES ASSUME Init PROVE TypeOK
  OBVIOUS
<1> USE DEF Init
<1>1. updates \in 0..MaxUpdates /\ faults \in 0..MaxFaults
  BY ConstantsOK DEF ConstantsOK
<1>2. rules \in Dir /\ backup \in Dir /\ loaded \in Dir
  BY ConstantsOK DEF ConstantsOK, Dir
<1>3. plugin \in PluginFiles /\ forwards \subseteq PluginPath
  BY ConstantsOK DEF ConstantsOK, Active
<1>4. socket \in Sockets /\ journalReads \in BOOLEAN
  BY DEF Sockets
<1> QED
  BY <1>1, <1>2, <1>3, <1>4 DEF TypeOK, Idle, PC

LEMMA NextType == TypeOK /\ [Next]_vars => TypeOK'
<1> SUFFICES ASSUME TypeOK, [Next]_vars PROVE TypeOK'
  OBVIOUS
<1> USE DEF TypeOK, oscVars, dirVars, loadVars, feedVars, runVars, faultVars,
            Idle, PC, GoTo
<1>1. Active \subseteq PluginPath /\ Names(osc) \subseteq Name
  BY DEF Active, Names, File
<1>2. Pending \subseteq {"load", "metric", "restart", "journald", "backup"}
  BY DEF Pending
<1>3. CASE Begin
  BY <1>3 DEF Begin
<1>4. CASE Backup
  BY <1>4 DEF Backup, Dir
<1>5. CASE Diff
  BY <1>5 DEF Diff, Dir
<1>6. CASE Clear
  BY <1>6, RemovalsShrink DEF Clear, Dir
<1>7. CASE Expand
  BY <1>7, <1>1, <1>2 DEF Expand, End
<1>8. CASE Copy
  BY <1>8 DEF Copy, Dir
<1>9. CASE CopyDone
  BY <1>9, <1>2 DEF CopyDone, End
<1>10. CASE Load
  BY <1>10 DEF Load
<1>11. CASE SkipLoad
  BY <1>11 DEF SkipLoad
<1>12. CASE Report
  BY <1>12 DEF Report
<1>13. CASE Plugin
  BY <1>13, SedType DEF Plugin, PluginFiles, PluginPath
<1>14. CASE Service
  BY <1>14, <1>1, <1>2, FaultType DEF Service, StartAuditd, StartFails, End
<1>15. CASE DisableSocket
  BY <1>15, SocketType DEF DisableSocket
<1>16. CASE StopSocket
  BY <1>16, SocketType DEF StopSocket
<1>17. CASE RestartJournald
  BY <1>17, SocketType DEF RestartJournald
<1>18. CASE PluginsOff
  BY <1>18, SedType DEF PluginsOff, PluginFiles
<1>19. CASE Wipe
  BY <1>19, RemovalsShrink DEF Wipe, Dir
<1>20. CASE Restore
  BY <1>20 DEF Restore, Dir
<1>21. CASE Reload
  BY <1>21 DEF Reload
<1>22. CASE Revert
  BY <1>22, <1>1, <1>2, FaultType DEF Revert, StartAuditd, StartFails, End
<1>23. CASE RemoveMetric
  BY <1>23 DEF RemoveMetric
<1>24. CASE RemoveBackup
  BY <1>24, RemovalsShrink DEF RemoveBackup, Dir
<1>25. CASE NodeAgent
  BY <1>25, ConstantsOK DEF ConstantsOK, NodeAgent
<1>26. CASE Render
  BY <1>26, ConstantsOK DEF ConstantsOK, Render
<1>27. CASE Interrupt
  BY <1>27, <1>2, FaultType DEF Interrupt, End
<1>28. CASE AuditdDies
  BY <1>28, FaultType DEF AuditdDies
<1>29. CASE Reboot
  BY <1>29, <1>1, <1>2, SocketType, FaultType DEF Reboot
<1>30. CASE UNCHANGED vars
  BY <1>30 DEF vars
<1> QED
  BY <1>3, <1>4, <1>5, <1>6, <1>7, <1>8, <1>9, <1>10, <1>11, <1>12, <1>13,
     <1>14, <1>15, <1>16, <1>17, <1>18, <1>19, <1>20, <1>21, <1>22, <1>23,
     <1>24, <1>25, <1>26, <1>27, <1>28, <1>29, <1>30
  DEF Next, Script, Configure, Remove

\* Every reachable state is well-typed (TypeOK), whatever the rule files, the
\* plugin files of the node and the number of faults.
THEOREM TypeCorrect == Spec => []TypeOK
<1>1. QED
  BY InitType, NextType, PTL DEF Spec

-----------------------------------------------------------------------------
(* Directories: what exists at which statement, and that nothing is removed  *)
(* before it was moved aside.                                                *)

Installing == {"clear", "copy", "load", "report", "plugin", "service", "socket",
               "stop", "journald", "configured"}
Removing   == {"plugins_off", "wipe", "restore", "revert", "rm_metric", "rm_backup"}

DirInv ==
  /\ rules # {} => Dot \in rules
  /\ backup # {} => Dot \in backup
  /\ pc \in Installing => Dot \in rules
  /\ pc \in Removing => backup # {}
  /\ pc = "wipe" => rules # {}
  /\ pc = "diff" /\ backup = {} => rules = {}
  /\ pc = "clear" /\ backup = {} => rules = {Dot}

LEMMA DirInit == Init => DirInv
BY ConstantsOK DEF ConstantsOK, Init, DirInv, Installing, Removing

LEMMA DirNext == DirInv /\ [Next]_vars => DirInv'
<1> SUFFICES ASSUME DirInv, [Next]_vars PROVE DirInv'
  OBVIOUS
<1> USE DEF DirInv, Installing, Removing, oscVars, dirVars, loadVars, feedVars, runVars, faultVars, Idle, GoTo
<1>1. CASE Begin
  BY <1>1 DEF Begin
<1>2. CASE Backup
  BY <1>2 DEF Backup
<1>3. CASE Diff
  BY <1>3 DEF Diff
<1>4. CASE Clear
  BY <1>4 DEF Clear, Removals
<1>5. CASE Expand
  BY <1>5 DEF Expand, End
<1>6. CASE Copy
  BY <1>6 DEF Copy
<1>7. CASE CopyDone
  BY <1>7 DEF CopyDone, End
<1>8. CASE Load
  BY <1>8 DEF Load
<1>9. CASE SkipLoad
  BY <1>9 DEF SkipLoad
<1>10. CASE Report
  BY <1>10 DEF Report
<1>11. CASE Plugin
  BY <1>11 DEF Plugin
<1>12. CASE Service
  BY <1>12 DEF Service, StartAuditd, StartFails, End
<1>13. CASE DisableSocket
  BY <1>13 DEF DisableSocket
<1>14. CASE StopSocket
  BY <1>14 DEF StopSocket
<1>15. CASE RestartJournald
  BY <1>15 DEF RestartJournald
<1>16. CASE PluginsOff
  BY <1>16 DEF PluginsOff
<1>17. CASE Wipe
  BY <1>17, RemovalsShrink DEF Wipe
<1>18. CASE Restore
  BY <1>18 DEF Restore
<1>19. CASE Reload
  BY <1>19 DEF Reload
<1>20. CASE Revert
  BY <1>20 DEF Revert, StartAuditd, StartFails, End
<1>21. CASE RemoveMetric
  BY <1>21 DEF RemoveMetric
<1>22. CASE RemoveBackup
  BY <1>22, RemovalsShrink DEF RemoveBackup
<1>23. CASE NodeAgent
  BY <1>23 DEF NodeAgent
<1>24. CASE Render
  BY <1>24 DEF Render
<1>25. CASE Interrupt
  BY <1>25 DEF Interrupt, End
<1>26. CASE AuditdDies
  BY <1>26 DEF AuditdDies
<1>27. CASE Reboot
  BY <1>27 DEF Reboot
<1>28. CASE UNCHANGED vars
  BY <1>28 DEF vars
<1> QED
  BY <1>1, <1>2, <1>3, <1>4, <1>5, <1>6, <1>7, <1>8, <1>9, <1>10, <1>11,
     <1>12, <1>13, <1>14, <1>15, <1>16, <1>17, <1>18, <1>19, <1>20, <1>21,
     <1>22, <1>23, <1>24, <1>25, <1>26, <1>27, <1>28
  DEF Next, Script, Configure, Remove

LEMMA DirCorrect == Spec => []DirInv
<1>1. QED
  BY DirInit, DirNext, PTL DEF Spec

\* Whatever rules.d held at first, and wherever earlier runs ended: a step that
\* takes a file out of rules.d leaves a backup in place (lines 22-33, 43-53).
THEOREM WipesOnlyWithBackupAlways == Spec => WipesOnlyWithBackup
<1> DEFINE Safe == rules \ rules' # {} => backup' # {}
<1>1. DirInv /\ [Next]_vars => [Safe]_vars
  <2> SUFFICES ASSUME DirInv, Next PROVE Safe
    BY DEF vars
  <2>1. CASE Backup
    BY <2>1 DEF Backup, dirVars
  <2>2. CASE Clear
    BY <2>2 DEF Clear, DirInv
  <2>3. CASE Wipe
    BY <2>3 DEF Wipe, DirInv, Removing
  <2>4. CASE ~(Backup \/ Clear \/ Wipe)
    BY <2>4 DEF Next, Script, Configure, Remove, Begin, Diff, Expand, Copy,
       CopyDone, Load, SkipLoad, Report, Plugin, Service, DisableSocket,
       StopSocket, RestartJournald, PluginsOff, Restore, Reload, Revert,
       RemoveMetric, RemoveBackup, NodeAgent, Render, Interrupt, AuditdDies,
       Reboot, dirVars
  <2> QED
    BY <2>1, <2>2, <2>3, <2>4
<1> QED
  BY <1>1, DirCorrect, PTL DEF Spec, WipesOnlyWithBackup

-----------------------------------------------------------------------------
(* The original rules.                                                       *)

OriginalsInv ==
  Orig # {} /\ "backup" \notin lost =>
    /\ backup = {} => rules = Orig
    /\ backup # {} /\ pc # "rm_backup" => backup = Orig
    /\ pc \in {"revert", "rm_metric", "rm_backup"} => rules = Orig
    /\ pc = "restore" => rules \subseteq Orig
    /\ pc \in Installing \ {"configured"} => backup # {}
    /\ pc = "diff" => backup # {}

LEMMA OriginalsInit == Init => OriginalsInv
BY DEF Init, OriginalsInv, Installing

LEMMA OriginalsNext == DirInv /\ OriginalsInv /\ [Next]_vars => OriginalsInv'
<1> SUFFICES ASSUME DirInv, OriginalsInv, [Next]_vars PROVE OriginalsInv'
  OBVIOUS
<1> USE DEF DirInv, OriginalsInv, Installing, Removing, oscVars, dirVars, loadVars, feedVars, runVars, faultVars, Idle, GoTo
<1>1. CASE Begin
  BY <1>1 DEF Begin
<1>2. CASE Backup
  BY <1>2 DEF Backup
<1>3. CASE Diff
  BY <1>3 DEF Diff
<1>4. CASE Clear
  BY <1>4, RemovalsShrink DEF Clear
<1>5. CASE Expand
  BY <1>5 DEF Expand, End, Pending
<1>6. CASE Copy
  BY <1>6 DEF Copy
<1>7. CASE CopyDone
  BY <1>7 DEF CopyDone, End, Pending
<1>8. CASE Load
  BY <1>8 DEF Load
<1>9. CASE SkipLoad
  BY <1>9 DEF SkipLoad
<1>10. CASE Report
  BY <1>10 DEF Report
<1>11. CASE Plugin
  BY <1>11 DEF Plugin
<1>12. CASE Service
  BY <1>12 DEF Service, StartAuditd, StartFails, End
<1>13. CASE DisableSocket
  BY <1>13 DEF DisableSocket
<1>14. CASE StopSocket
  BY <1>14 DEF StopSocket
<1>15. CASE RestartJournald
  BY <1>15 DEF RestartJournald
<1>16. CASE PluginsOff
  BY <1>16 DEF PluginsOff
<1>17. CASE Wipe
  BY <1>17, RemovalsShrink DEF Wipe
<1>18. CASE Restore
  BY <1>18 DEF Restore
<1>19. CASE Reload
  BY <1>19 DEF Reload
<1>20. CASE Revert
  BY <1>20 DEF Revert, StartAuditd, StartFails, End
<1>21. CASE RemoveMetric
  BY <1>21 DEF RemoveMetric
<1>22. CASE RemoveBackup
  BY <1>22, RemovalsShrink DEF RemoveBackup
<1>23. CASE NodeAgent
  BY <1>23 DEF NodeAgent
<1>24. CASE Render
  BY <1>24 DEF Render
<1>25. CASE Interrupt
  BY <1>25 DEF Interrupt, End, Pending
<1>26. CASE AuditdDies
  BY <1>26 DEF AuditdDies
<1>27. CASE Reboot
  BY <1>27 DEF Reboot, Pending
<1>28. CASE UNCHANGED vars
  BY <1>28 DEF vars
<1> QED
  BY <1>1, <1>2, <1>3, <1>4, <1>5, <1>6, <1>7, <1>8, <1>9, <1>10, <1>11,
     <1>12, <1>13, <1>14, <1>15, <1>16, <1>17, <1>18, <1>19, <1>20, <1>21,
     <1>22, <1>23, <1>24, <1>25, <1>26, <1>27, <1>28
  DEF Next, Script, Configure, Remove

\* However installations, removals, failures, interruptions and reboots are
\* interleaved, the node's own rules are whole in rules.d or in the backup,
\* unless a run ended inside the rm -rf of line 33.
THEOREM OriginalsKeptAlways == Spec => []OriginalsKept
<1>1. OriginalsInv => OriginalsKept
  BY DEF OriginalsInv, OriginalsKept
<1> QED
  BY <1>1, OriginalsInit, OriginalsNext, DirCorrect, PTL DEF Spec

-----------------------------------------------------------------------------
(* The loaded rules.                                                         *)

LoadedInv ==
  "load" \notin lost =>
    \/ loaded = rules
    \/ rules \subseteq {Dot}
    \/ pc \in {"clear", "copy", "wipe", "restore"}
    \/ pc = "load" /\ restart

LEMMA LoadedNext == DirInv /\ LoadedInv /\ [Next]_vars => LoadedInv'
<1> SUFFICES ASSUME DirInv, LoadedInv, [Next]_vars PROVE LoadedInv'
  OBVIOUS
<1> USE DEF DirInv, LoadedInv, Installing, Removing, oscVars, dirVars, loadVars, feedVars, runVars, faultVars, Idle, GoTo
<1>1. CASE Begin
  BY <1>1 DEF Begin
<1>2. CASE Backup
  BY <1>2 DEF Backup
<1>3. CASE Diff
  BY <1>3 DEF Diff
<1>4. CASE Clear
  BY <1>4, RemovalsShrink DEF Clear
<1>5. CASE Expand
  BY <1>5 DEF Expand, End, Pending
<1>6. CASE Copy
  BY <1>6 DEF Copy
<1>7. CASE CopyDone
  BY <1>7 DEF CopyDone, End, Pending
<1>8. CASE Load
  BY <1>8 DEF Load
<1>9. CASE SkipLoad
  BY <1>9 DEF SkipLoad
<1>10. CASE Report
  BY <1>10 DEF Report
<1>11. CASE Plugin
  BY <1>11 DEF Plugin
<1>12. CASE Service
  BY <1>12 DEF Service, StartAuditd, StartFails, End, Pending
<1>13. CASE DisableSocket
  BY <1>13 DEF DisableSocket
<1>14. CASE StopSocket
  BY <1>14 DEF StopSocket
<1>15. CASE RestartJournald
  BY <1>15 DEF RestartJournald
<1>16. CASE PluginsOff
  BY <1>16 DEF PluginsOff
<1>17. CASE Wipe
  BY <1>17, RemovalsShrink DEF Wipe
<1>18. CASE Restore
  BY <1>18 DEF Restore
<1>19. CASE Reload
  BY <1>19 DEF Reload
<1>20. CASE Revert
  BY <1>20 DEF Revert, StartAuditd, StartFails, End, Pending
<1>21. CASE RemoveMetric
  BY <1>21 DEF RemoveMetric
<1>22. CASE RemoveBackup
  BY <1>22, RemovalsShrink DEF RemoveBackup
<1>23. CASE NodeAgent
  BY <1>23 DEF NodeAgent
<1>24. CASE Render
  BY <1>24 DEF Render
<1>25. CASE Interrupt
  BY <1>25 DEF Interrupt, End, Pending
<1>26. CASE AuditdDies
  BY <1>26 DEF AuditdDies
<1>27. CASE Reboot
  BY <1>27 DEF Reboot, Pending
<1>28. CASE UNCHANGED vars
  BY <1>28 DEF vars
<1> QED
  BY <1>1, <1>2, <1>3, <1>4, <1>5, <1>6, <1>7, <1>8, <1>9, <1>10, <1>11,
     <1>12, <1>13, <1>14, <1>15, <1>16, <1>17, <1>18, <1>19, <1>20, <1>21,
     <1>22, <1>23, <1>24, <1>25, <1>26, <1>27, <1>28
  DEF Next, Script, Configure, Remove

\* A run that reaches its end leaves the kernel with the rules of rules.d, or
\* rules.d empty, unless an earlier run ended between the two (lines 53-69).
THEOREM RulesLoadedAlways == Spec => []RulesLoaded
<1>1. Init => LoadedInv
  BY DEF Init, LoadedInv
<1>2. DirInv /\ LoadedInv => RulesLoaded
  BY DEF DirInv, Installing, LoadedInv, RulesLoaded
<1> QED
  BY <1>1, <1>2, LoadedNext, DirCorrect, PTL DEF Spec

LEMMA LoadedCorrect == Spec => []LoadedInv
<1>1. Init => LoadedInv
  BY DEF Init, LoadedInv
<1> QED
  BY <1>1, LoadedNext, DirCorrect, PTL DEF Spec

\* A step of a run, or of its surroundings, is a step of the abstract handover.
LEMMA RulesStep ==
  TypeOK /\ TypeOK' /\ LoadedInv' /\ [Next]_vars
    => [RulesHandover!Next]_(RulesHandover!hvars)
<1> SUFFICES ASSUME TypeOK, TypeOK', LoadedInv', [Next]_vars
             PROVE  RulesHandover!Next \/ UNCHANGED RulesHandover!hvars
  OBVIOUS
<1> USE DEF TypeOK, Idle, GoTo, oscVars, dirVars, loadVars, feedVars, runVars, faultVars,
            RulesHandover!hvars
<1>s. pc' \in Idle => RulesHandover!Settled'
  BY DEF LoadedInv, RulesHandover!Settled
\* What ends a run and leaves the rules alone finishes it; a duty is never dropped silently.
<1>f. ASSUME pc \notin Idle, pc' \in Idle, UNCHANGED <<rules, loaded>>,
             "load" \in lost => "load" \in lost'
      PROVE  RulesHandover!Next
  <2>1. RulesHandover!Finish
    BY <1>s, <1>f DEF RulesHandover!Finish
  <2> QED
    BY <2>1 DEF RulesHandover!Next
<1>1. CASE Begin
  <2>1. CASE pc' \notin Idle
    <3>1. RulesHandover!Begin
      BY <1>1, <2>1 DEF Begin, RulesHandover!Begin
    <3> QED
      BY <3>1 DEF RulesHandover!Next
  <2>2. CASE pc' \in Idle
    BY <1>1, <2>2 DEF Begin
  <2> QED
    BY <2>1, <2>2
<1>2. CASE Backup \/ Diff \/ Clear \/ Copy \/ Wipe \/ Restore
  <2>1. pc \notin Idle /\ pc' \notin Idle /\ UNCHANGED <<loaded, lost>>
    BY <1>2 DEF Backup, Diff, Clear, Copy, Wipe, Restore
  <2>2. RulesHandover!Install
    BY <2>1 DEF RulesHandover!Install
  <2> QED
    BY <2>2 DEF RulesHandover!Next
<1>3. CASE Load \/ Reload
  <2>1. RulesHandover!Activate
    BY <1>3 DEF Load, Reload, RulesHandover!Activate
  <2> QED
    BY <2>1 DEF RulesHandover!Next
<1>4. CASE Expand \/ CopyDone \/ Interrupt
  <2>1. /\ pc \notin Idle /\ UNCHANGED <<rules, loaded>>
        /\ pc' \in Idle \/ UNCHANGED lost
        /\ "load" \in lost => "load" \in lost'
    BY <1>4 DEF Expand, CopyDone, Interrupt, End
  <2> QED
    BY <2>1, <1>f
<1>5. CASE Service \/ Revert
  <2>1. /\ pc \notin Idle /\ UNCHANGED <<rules, loaded>>
        /\ pc' \in Idle \/ ("load" \in lost' <=> "load" \in lost)
        /\ "load" \in lost => "load" \in lost'
    BY <1>5 DEF Service, Revert, StartAuditd, StartFails, End
  <2> QED
    BY <2>1, <1>f
<1>6. CASE SkipLoad \/ Report \/ Plugin \/ DisableSocket \/ StopSocket \/ RestartJournald
  <2>1. /\ pc \notin Idle /\ UNCHANGED <<rules, loaded>>
        /\ "load" \in lost' <=> "load" \in lost
    BY <1>6 DEF SkipLoad, Report, Plugin, DisableSocket, StopSocket, RestartJournald
  <2> QED
    BY <2>1, <1>f
<1>7. CASE PluginsOff \/ RemoveMetric \/ RemoveBackup
  <2>1. /\ pc \notin Idle /\ UNCHANGED <<rules, loaded>>
        /\ "load" \in lost' <=> "load" \in lost
    BY <1>7 DEF PluginsOff, RemoveMetric, RemoveBackup
  <2> QED
    BY <2>1, <1>f
<1>8. CASE Reboot
  <2>1. RulesHandover!Boot
    BY <1>8 DEF Reboot, RulesHandover!Boot
  <2> QED
    BY <2>1 DEF RulesHandover!Next
<1>9. CASE NodeAgent \/ Render \/ AuditdDies
  BY <1>9 DEF NodeAgent, Render, AuditdDies
<1>10. CASE UNCHANGED vars
  BY <1>10 DEF vars
<1> QED
  BY <1>1, <1>2, <1>3, <1>4, <1>5, <1>6, <1>7, <1>8, <1>9, <1>10
  DEF Next, Script, Configure, Remove

\* The auditd half implements the handover of the audit rules to the kernel, for
\* any rule sets, any original rules and any number of faults and changes.
THEOREM HandsOverAlways == Spec => HandsOver
<1>1. Init => RulesHandover!Init
  BY InitType DEF Init, Idle, TypeOK, RulesHandover!Init
<1>2. Spec => RulesHandover!Spec
  BY <1>1, RulesStep, LoadedCorrect, TypeCorrect, PTL DEF Spec, RulesHandover!Spec
<1> QED
  BY <1>2 DEF HandsOver

-----------------------------------------------------------------------------
(* The feeds of rsyslog: the plugin of auditd and journald's socket.         *)

FeedInv ==
  /\ auditd = "running" /\ "restart" \notin lost =>
       \/ forwards = Active
       \/ pc \in {"wipe", "restore", "revert"}
       \/ pc = "service" /\ restart
  /\ "journald" \notin lost /\ journalReads => socket.active \/ pc = "journald"
  /\ pc \in {"stop", "journald", "configured"} => ~socket.enabled
  /\ pc \in {"journald", "configured"} => ~socket.active

LEMMA PluginChange ==
  ASSUME TypeOK, Plugin
  PROVE  Active' = Active \/ restart'
BY DEF TypeOK, PluginFiles, PluginPath, Plugin, Active, Sed

LEMMA FeedNext == TypeOK /\ FeedInv /\ [Next]_vars => FeedInv'
<1> SUFFICES ASSUME TypeOK, FeedInv, [Next]_vars PROVE FeedInv'
  OBVIOUS
<1> USE DEF FeedInv, Active, oscVars, dirVars, loadVars, feedVars, runVars, faultVars, Idle, GoTo
<1>1. CASE Begin
  BY <1>1 DEF Begin
<1>2. CASE Backup
  BY <1>2 DEF Backup
<1>3. CASE Diff
  BY <1>3 DEF Diff
<1>4. CASE Clear
  BY <1>4 DEF Clear
<1>5. CASE Expand
  BY <1>5 DEF Expand, End, Pending
<1>6. CASE Copy
  BY <1>6 DEF Copy
<1>7. CASE CopyDone
  BY <1>7 DEF CopyDone, End, Pending
<1>8. CASE Load
  BY <1>8 DEF Load
<1>9. CASE SkipLoad
  BY <1>9 DEF SkipLoad
<1>10. CASE Report
  BY <1>10 DEF Report
<1>11. CASE Plugin
  BY <1>11, PluginChange DEF Plugin, Active, Sed
<1>12. CASE Service
  BY <1>12 DEF Service, StartAuditd, StartFails, End, Pending
<1>13. CASE DisableSocket
  BY <1>13, SocketType DEF DisableSocket
<1>14. CASE StopSocket
  BY <1>14, SocketType DEF StopSocket
<1>15. CASE RestartJournald
  BY <1>15 DEF RestartJournald
<1>16. CASE PluginsOff
  BY <1>16 DEF PluginsOff, Active
<1>17. CASE Wipe
  BY <1>17 DEF Wipe
<1>18. CASE Restore
  BY <1>18 DEF Restore
<1>19. CASE Reload
  BY <1>19 DEF Reload
<1>20. CASE Revert
  BY <1>20 DEF Revert, StartAuditd, StartFails, End, Pending
<1>21. CASE RemoveMetric
  BY <1>21 DEF RemoveMetric
<1>22. CASE RemoveBackup
  BY <1>22 DEF RemoveBackup
<1>23. CASE NodeAgent
  BY <1>23 DEF NodeAgent
<1>24. CASE Render
  BY <1>24 DEF Render
<1>25. CASE Interrupt
  BY <1>25 DEF Interrupt, End, Pending
<1>26. CASE AuditdDies
  BY <1>26 DEF AuditdDies
<1>27. CASE Reboot
  BY <1>27, SocketType DEF Reboot, Pending
<1>28. CASE UNCHANGED vars
  BY <1>28 DEF vars
<1> QED
  BY <1>1, <1>2, <1>3, <1>4, <1>5, <1>6, <1>7, <1>8, <1>9, <1>10, <1>11,
     <1>12, <1>13, <1>14, <1>15, <1>16, <1>17, <1>18, <1>19, <1>20, <1>21,
     <1>22, <1>23, <1>24, <1>25, <1>26, <1>27, <1>28
  DEF Next, Script, Configure, Remove

LEMMA FeedCorrect == Spec => []FeedInv
<1>1. Init => FeedInv
  BY DEF Init, FeedInv
<1> QED
  BY <1>1, FeedNext, TypeCorrect, PTL DEF Spec

\* After a complete run a running auditd forwards through exactly the plugin
\* files that are switched on, whatever plugin files the node came with.
THEOREM ForwardingFollowsPluginsAlways == Spec => []ForwardingFollowsPlugins
<1>1. FeedInv => ForwardingFollowsPlugins
  BY DEF FeedInv, ForwardingFollowsPlugins
<1> QED
  BY <1>1, FeedCorrect, PTL

\* After a complete run journald does not collect the audit events that the
\* plugin already forwards, now or after a reboot.
THEOREM NoDuplicateFeedAlways == Spec => []NoDuplicateFeed
<1>1. FeedInv => NoDuplicateFeed
  BY DEF FeedInv, NoDuplicateFeed
<1> QED
  BY <1>1, FeedCorrect, PTL

-----------------------------------------------------------------------------
(* The metric.                                                               *)

Outcome(d) == IF d \cap Bad = {} THEN "ok" ELSE "error"

\* rules.d and the backup on a node that had rules of its own.
PresentInv ==
  /\ rules # {} \/ backup # {}
  /\ pc \in (Installing \cup {"diff"}) \ {"configured"} => backup # {}
  /\ pc \in {"revert", "rm_metric", "rm_backup"} => rules # {}
  /\ metric # "none" => backup # {} /\ pc # "rm_backup"

\* The outcome is that of the loaded rules, and the loaded rules are those of
\* rules.d whenever a boot could load them once more unnoticed.
OutcomeInv ==
  /\ metric # "none" \/ pc = "report" => outcome # "none"
  /\ pc = "report" => loaded = rules
  /\ pc \in {"report", "revert", "rm_metric", "rm_backup"} => outcome = Outcome(loaded)
  /\ "metric" \notin lost /\ outcome # "none" => outcome = Outcome(loaded)
  /\ lost \cap {"load", "metric"} = {} /\ metric # "none" =>
       \/ loaded = rules /\ rules # {}
       \/ pc \in {"clear", "copy", "wipe", "restore"}
       \/ pc = "load" /\ restart

LEMMA PresentInit == Orig # {} /\ Init => PresentInv
BY DEF Init, PresentInv, Installing

LEMMA PresentNext == DirInv /\ PresentInv /\ [Next]_vars => PresentInv'
<1> SUFFICES ASSUME DirInv, PresentInv, [Next]_vars PROVE PresentInv'
  OBVIOUS
<1> USE DEF DirInv, PresentInv, Installing, Removing, oscVars, dirVars, loadVars,
            feedVars, runVars, faultVars, Idle, GoTo
<1>1. CASE Begin
  BY <1>1 DEF Begin
<1>2. CASE Backup
  BY <1>2 DEF Backup
<1>3. CASE Diff
  BY <1>3 DEF Diff
<1>4. CASE Clear
  BY <1>4, RemovalsShrink DEF Clear
<1>5. CASE Expand
  BY <1>5 DEF Expand, End
<1>6. CASE Copy
  BY <1>6 DEF Copy
<1>7. CASE CopyDone
  BY <1>7 DEF CopyDone, End
<1>8. CASE Load
  BY <1>8 DEF Load
<1>9. CASE SkipLoad
  BY <1>9 DEF SkipLoad
<1>10. CASE Report
  BY <1>10 DEF Report
<1>11. CASE Plugin
  BY <1>11 DEF Plugin
<1>12. CASE Service
  BY <1>12 DEF Service, StartAuditd, StartFails, End
<1>13. CASE DisableSocket
  BY <1>13 DEF DisableSocket
<1>14. CASE StopSocket
  BY <1>14 DEF StopSocket
<1>15. CASE RestartJournald
  BY <1>15 DEF RestartJournald
<1>16. CASE PluginsOff
  BY <1>16 DEF PluginsOff
<1>17. CASE Wipe
  BY <1>17, RemovalsShrink DEF Wipe
<1>18. CASE Restore
  BY <1>18 DEF Restore
<1>19. CASE Reload
  BY <1>19 DEF Reload
<1>20. CASE Revert
  BY <1>20 DEF Revert, StartAuditd, StartFails, End
<1>21. CASE RemoveMetric
  BY <1>21 DEF RemoveMetric
<1>22. CASE RemoveBackup
  BY <1>22, RemovalsShrink DEF RemoveBackup
<1>23. CASE NodeAgent
  BY <1>23 DEF NodeAgent
<1>24. CASE Render
  BY <1>24 DEF Render
<1>25. CASE Interrupt
  BY <1>25 DEF Interrupt, End
<1>26. CASE AuditdDies
  BY <1>26 DEF AuditdDies
<1>27. CASE Reboot
  BY <1>27 DEF Reboot
<1>28. CASE UNCHANGED vars
  BY <1>28 DEF vars
<1> QED
  BY <1>1, <1>2, <1>3, <1>4, <1>5, <1>6, <1>7, <1>8, <1>9, <1>10, <1>11, <1>12,
     <1>13, <1>14, <1>15, <1>16, <1>17, <1>18, <1>19, <1>20, <1>21, <1>22, <1>23, <1>24,
     <1>25, <1>26, <1>27, <1>28
  DEF Next, Script, Configure, Remove

LEMMA OutcomeNext == TypeOK /\ DirInv /\ PresentInv /\ OutcomeInv /\ [Next]_vars => OutcomeInv'
<1> SUFFICES ASSUME TypeOK, DirInv, PresentInv, OutcomeInv, [Next]_vars PROVE OutcomeInv'
  OBVIOUS
<1> USE DEF TypeOK, DirInv, PresentInv, OutcomeInv, Outcome, Installing, Removing, oscVars, dirVars, loadVars,
            feedVars, runVars, faultVars, Idle, GoTo
<1>1. CASE Begin
  BY <1>1 DEF Begin
<1>2. CASE Backup
  BY <1>2 DEF Backup
<1>3. CASE Diff
  BY <1>3 DEF Diff
<1>4. CASE Clear
  BY <1>4, RemovalsShrink DEF Clear
<1>5. CASE Expand
  BY <1>5 DEF Expand, End, Pending
<1>6. CASE Copy
  BY <1>6 DEF Copy
<1>7. CASE CopyDone
  BY <1>7 DEF CopyDone, End, Pending
<1>8. CASE Load
  BY <1>8 DEF Load
<1>9. CASE SkipLoad
  BY <1>9 DEF SkipLoad
<1>10. CASE Report
  BY <1>10 DEF Report
<1>11. CASE Plugin
  <2>1. /\ pc = "plugin" /\ pc' = "service"
        /\ UNCHANGED <<rules, backup, loaded, outcome, metric, lost>>
    BY <1>11 DEF Plugin
  <2> QED
    BY <2>1
<1>12. CASE Service
  BY <1>12 DEF Service, StartAuditd, StartFails, End, Pending
<1>13. CASE DisableSocket
  BY <1>13 DEF DisableSocket
<1>14. CASE StopSocket
  BY <1>14 DEF StopSocket
<1>15. CASE RestartJournald
  BY <1>15 DEF RestartJournald
<1>16. CASE PluginsOff
  BY <1>16 DEF PluginsOff
<1>17. CASE Wipe
  BY <1>17, RemovalsShrink DEF Wipe
<1>18. CASE Restore
  BY <1>18 DEF Restore
<1>19. CASE Reload
  BY <1>19 DEF Reload
<1>20. CASE Revert
  BY <1>20 DEF Revert, StartAuditd, StartFails, End, Pending
<1>21. CASE RemoveMetric
  BY <1>21 DEF RemoveMetric
<1>22. CASE RemoveBackup
  BY <1>22, RemovalsShrink DEF RemoveBackup
<1>23. CASE NodeAgent
  BY <1>23 DEF NodeAgent
<1>24. CASE Render
  BY <1>24 DEF Render
<1>25. CASE Interrupt
  BY <1>25 DEF Interrupt, End, Pending
<1>26. CASE AuditdDies
  BY <1>26 DEF AuditdDies
<1>27. CASE Reboot
  BY <1>27 DEF Reboot, Pending
<1>28. CASE UNCHANGED vars
  BY <1>28 DEF vars
<1> QED
  BY <1>1, <1>2, <1>3, <1>4, <1>5, <1>6, <1>7, <1>8, <1>9, <1>10, <1>11, <1>12,
     <1>13, <1>14, <1>15, <1>16, <1>17, <1>18, <1>19, <1>20, <1>21, <1>22, <1>23, <1>24,
     <1>25, <1>26, <1>27, <1>28
  DEF Next, Script, Configure, Remove

LEMMA MetricNext == TypeOK /\ PresentInv /\ OutcomeInv /\ MetricHonest /\ [Next]_vars => MetricHonest'
<1> SUFFICES ASSUME TypeOK, PresentInv, OutcomeInv, MetricHonest, [Next]_vars PROVE MetricHonest'
  OBVIOUS
<1> USE DEF TypeOK, PresentInv, OutcomeInv, Outcome, MetricHonest, Installing, Removing, oscVars, dirVars, loadVars,
            feedVars, runVars, faultVars, Idle, GoTo
<1>1. CASE Begin
  BY <1>1 DEF Begin
<1>2. CASE Backup
  BY <1>2 DEF Backup
<1>3. CASE Diff
  BY <1>3 DEF Diff
<1>4. CASE Clear
  BY <1>4, RemovalsShrink DEF Clear
<1>5. CASE Expand
  BY <1>5 DEF Expand, End, Pending
<1>6. CASE Copy
  BY <1>6 DEF Copy
<1>7. CASE CopyDone
  BY <1>7 DEF CopyDone, End, Pending
<1>8. CASE Load
  BY <1>8 DEF Load
<1>9. CASE SkipLoad
  BY <1>9 DEF SkipLoad
<1>10. CASE Report
  BY <1>10 DEF Report
<1>11. CASE Plugin
  <2>1. /\ pc = "plugin" /\ pc' = "service"
        /\ UNCHANGED <<rules, backup, loaded, outcome, metric, lost>>
    BY <1>11 DEF Plugin
  <2> QED
    BY <2>1
<1>12. CASE Service
  BY <1>12 DEF Service, StartAuditd, StartFails, End, Pending
<1>13. CASE DisableSocket
  BY <1>13 DEF DisableSocket
<1>14. CASE StopSocket
  BY <1>14 DEF StopSocket
<1>15. CASE RestartJournald
  BY <1>15 DEF RestartJournald
<1>16. CASE PluginsOff
  BY <1>16 DEF PluginsOff
<1>17. CASE Wipe
  BY <1>17, RemovalsShrink DEF Wipe
<1>18. CASE Restore
  BY <1>18 DEF Restore
<1>19. CASE Reload
  BY <1>19 DEF Reload
<1>20. CASE Revert
  BY <1>20 DEF Revert, StartAuditd, StartFails, End, Pending
<1>21. CASE RemoveMetric
  BY <1>21 DEF RemoveMetric
<1>22. CASE RemoveBackup
  BY <1>22, RemovalsShrink DEF RemoveBackup
<1>23. CASE NodeAgent
  BY <1>23 DEF NodeAgent
<1>24. CASE Render
  BY <1>24 DEF Render
<1>25. CASE Interrupt
  BY <1>25 DEF Interrupt, End, Pending
<1>26. CASE AuditdDies
  BY <1>26 DEF AuditdDies
<1>27. CASE Reboot
  BY <1>27 DEF Reboot, Pending
<1>28. CASE UNCHANGED vars
  BY <1>28 DEF vars
<1> QED
  BY <1>1, <1>2, <1>3, <1>4, <1>5, <1>6, <1>7, <1>8, <1>9, <1>10, <1>11, <1>12,
     <1>13, <1>14, <1>15, <1>16, <1>17, <1>18, <1>19, <1>20, <1>21, <1>22, <1>23, <1>24,
     <1>25, <1>26, <1>27, <1>28
  DEF Next, Script, Configure, Remove


\* On every node that came with rules of its own, the metric file tells the outcome
\* of the last load, whoever did it, unless a run ended between load and metric.
THEOREM MetricHonestAlways ==
  ASSUME Orig # {}
  PROVE  Spec => []MetricHonest
<1>1. Init => PresentInv
  BY PresentInit
<1>2. Init => OutcomeInv /\ MetricHonest
  BY DEF Init, OutcomeInv, MetricHonest
<1> QED
  BY <1>1, <1>2, PresentNext, OutcomeNext, MetricNext, DirCorrect, TypeCorrect, PTL DEF Spec
=============================================================================
