------------------------- MODULE AuditdConfigurator -------------------------
(***************************************************************************)
(* The auditd half of configure-rsyslog.sh, the script that the unit       *)
(* rsyslog-configurator.service runs on every node, again 15 seconds after *)
(* each end (Restart=always).  While the OSC directory holds audit rules,  *)
(* a run moves the node's own rules aside (mv), installs the OSC rules,    *)
(* loads them, reports the outcome in a metric file and turns the syslog   *)
(* plugin of auditd on; once the OSC directory holds none, a run puts the  *)
(* node's rules back and deletes the backup.                               *)
(*                                                                         *)
(* gardener-node-agent rewrites the OSC directory file by file while the   *)
(* script runs, and restarts or stops the unit at any moment (Interrupt).  *)
(* A directory is the set of its files plus Dot; {} says that it does not  *)
(* exist.  A file is a pair <<name, content>>.                             *)
(***************************************************************************)
EXTENDS Naturals, FiniteSets

CONSTANTS
  Name, Content,  \* names and contents of rule files
  Dot,            \* the directory itself
  Orig,           \* /etc/audit/rules.d before the extension came; {}: absent
  Desired,        \* the rule sets the OSC may ask for ({}: auditing disabled)
  Bad,            \* files for which augenrules --load complains
  Plugins,        \* the plugin files a node may come with
  MaxFaults,      \* bound: interruptions, reboots, failures of systemctl or auditd
  MaxUpdates      \* bound: changes of the desired rule set

File == Name \X Content
Dir  == SUBSET (File \cup {Dot})

PluginPath   == {"audit", "audisp"}
PluginFiles  == [PluginPath -> {"absent", "bare", "no", "yes"}]

\* States of a socket: one without a unit file is off.
Sockets ==
  {s \in [exists : BOOLEAN, enabled : BOOLEAN, active : BOOLEAN] :
    s.exists \/ (~s.enabled /\ ~s.active)}

Functional(d) == \A f, g \in d : f[1] = g[1] => f = g

ASSUME ConstantsOK ==
  /\ Dot \notin File
  /\ Orig \in Dir
  /\ Orig # {} => Dot \in Orig
  /\ \A d \in Desired : d \subseteq File /\ Functional(d)
  /\ Bad \subseteq File
  /\ Plugins \subseteq PluginFiles
  /\ MaxFaults \in Nat /\ MaxUpdates \in Nat

VARIABLES
  desired,      \* rule files in the OSC as last rendered by the webhook
  osc,          \* /var/lib/rsyslog-relp-configurator/audit/rules.d
  updates,      \* number of changes of desired so far
  rules,        \* /etc/audit/rules.d
  backup,       \* /etc/audit/rules.d.original
  loaded,       \* content of rules.d at the last augenrules --load
  outcome,      \* of that load: "none", "ok" or "error"
  metric,       \* rsyslog_auditd.prom: "none" (no file), "1" or "0"
  plugin,       \* the "active" setting in each syslog plugin file
  auditd,       \* "running" or "stopped"
  forwards,     \* the plugin files that auditd found active when it started
  socket,       \* systemd-journald-audit.socket
  journalReads, \* journald holds the audit socket open
  pc,           \* the next statement of the run; Idle between runs
  restart,      \* restart_auditd, a variable of one run
  todo,         \* names left to copy after the shell expanded the glob
  lost,         \* history: the duties a run dropped when it ended early
  faults        \* number of faults so far

oscVars   == <<desired, osc, updates>>
dirVars   == <<rules, backup>>
loadVars  == <<loaded, outcome, metric>>
feedVars  == <<plugin, auditd, forwards, socket, journalReads>>
runVars   == <<pc, restart, todo>>
faultVars == <<lost, faults>>
vars == <<oscVars, dirVars, loadVars, feedVars, runVars, faultVars>>

Idle == {"new", "configured", "removed", "failed"}

Names(d) == {f[1] : f \in d}
Active   == {p \in PluginPath : plugin[p] = "yes"}

\* What sed leaves of the plugin file p: only an existing line is rewritten.
Sed(p, value) == IF plugin[p] \in {"no", "yes"} THEN value ELSE plugin[p]

\* rm -rf removes files in any order and the directory last.
Removals(d) == IF d = {Dot} THEN {{}} ELSE {d \ {f} : f \in d \ {Dot}}

\* The duties that the run has taken up and not done yet.
Pending ==
  {duty \in {"load", "metric", "restart", "journald", "backup"} :
    CASE duty = "load"     -> \/ pc \in {"clear", "copy", "wipe", "restore"}
                              \/ pc = "load" /\ restart
      [] duty = "metric"   -> pc \in {"report", "revert", "rm_metric"}
      [] duty = "restart"  -> \/ pc \in {"wipe", "restore", "revert"}
                              \/ pc = "service" /\ restart
      [] duty = "journald" -> pc = "journald"
      [] duty = "backup"   -> pc = "rm_backup" /\ backup # rules}

Init ==
  /\ desired \in Desired /\ osc = {} /\ updates = 0
  /\ rules = Orig /\ backup = {}
  /\ loaded = Orig /\ outcome = "none" /\ metric = "none"
  /\ plugin \in Plugins /\ auditd = "running" /\ forwards = Active
  /\ socket \in Sockets /\ journalReads = socket.active
  /\ pc = "new" /\ restart = FALSE /\ todo = {}
  /\ lost = {} /\ faults = 0

-----------------------------------------------------------------------------
(* How a run moves on, and how it ends early. *)

GoTo(from, to) == pc = from /\ pc' = to

\* Mutant of End: restart_auditd survives the run.
EndKeepsRestart(dropped) ==
  /\ pc' = "failed" /\ restart' = restart /\ todo' = {}
  /\ lost' = lost \cup dropped

\* The run ends here, done with its statement or not: the duties in dropped
\* are not taken up again by this run, and the local variables are gone.
End(dropped) ==
  /\ pc' = "failed" /\ restart' = FALSE /\ todo' = {}
  /\ lost' = lost \cup dropped

\* The unit is stopped or restarted, or the script is killed.
Interrupt ==
  /\ pc \notin Idle /\ faults < MaxFaults
  /\ End(Pending)
  /\ faults' = faults + 1
  /\ UNCHANGED <<oscVars, dirVars, loadVars, feedVars>>

\* systemctl start or restart auditd: auditd reads its plugin files when it
\* starts.  The failure leaves it stopped and, under errexit, ends the run.
StartAuditd(next) ==
  /\ auditd' = "running" /\ forwards' = Active
  /\ lost' = lost \ {"restart"} /\ faults' = faults
  /\ pc' = next /\ restart' = FALSE /\ todo' = todo

StartFails ==
  /\ faults < MaxFaults /\ faults' = faults + 1
  /\ auditd' = "stopped" /\ forwards' = {}
  /\ End(Pending \ {"restart"})

-----------------------------------------------------------------------------
(* configure_auditd *)

Begin ==
  /\ pc \in Idle
  /\ pc' = IF osc # {} THEN "backup"
           ELSE IF backup # {} THEN "plugins_off" ELSE "removed"
  /\ UNCHANGED <<oscVars, dirVars, loadVars, feedVars, restart, todo, faultVars>>

\* Mutant of Backup: the test for an existing backup (line 43) is dropped.
BackupAgain ==
  /\ GoTo("backup", "diff")
  /\ backup' = rules /\ rules' = {}
  /\ UNCHANGED <<oscVars, loadVars, feedVars, restart, todo, faultVars>>

\* Mutant of Backup: the rules stay where they are.
BackupForgotten ==
  /\ GoTo("backup", "diff")
  /\ UNCHANGED <<oscVars, dirVars, loadVars, feedVars, restart, todo, faultVars>>

Backup ==
  /\ GoTo("backup", "diff")
  /\ IF backup = {} THEN backup' = rules /\ rules' = {} ELSE UNCHANGED dirVars
  /\ UNCHANGED <<oscVars, loadVars, feedVars, restart, todo, faultVars>>

Diff ==
  /\ pc = "diff"
  /\ rules' = rules \cup {Dot}
  /\ pc' = IF rules' = osc \cup {Dot} THEN "load" ELSE "clear"
  /\ UNCHANGED <<oscVars, backup, loadVars, feedVars, restart, todo, faultVars>>

\* rm -rf rules.d/*
Clear ==
  /\ pc = "clear" /\ rules # {Dot}
  /\ rules' \in Removals(rules)
  /\ UNCHANGED <<oscVars, backup, loadVars, feedVars, runVars, faultVars>>

\* The shell expands the glob of cp; without a match cp fails on a literal *.
Expand ==
  /\ pc = "clear" /\ rules = {Dot}
  /\ IF osc # {}
       THEN /\ pc' = "copy" /\ todo' = Names(osc)
            /\ UNCHANGED <<restart, lost>>
       ELSE End(Pending)
  /\ UNCHANGED <<oscVars, dirVars, loadVars, feedVars, faults>>

Copy ==
  /\ pc = "copy"
  /\ \E f \in osc :
       /\ f[1] \in todo
       /\ rules' = rules \cup {f}
       /\ todo' = todo \ {f[1]}
  /\ UNCHANGED <<oscVars, backup, loadVars, feedVars, pc, restart, faultVars>>

\* Mutant of CopyDone: restart_auditd=true (line 56) is missing.
CopyDoneNoRestart ==
  /\ pc = "copy" /\ todo \cap Names(osc) = {}
  /\ IF todo = {}
       THEN pc' = "load" /\ UNCHANGED <<restart, todo, lost>>
       ELSE End(Pending)
  /\ UNCHANGED <<oscVars, dirVars, loadVars, feedVars, faults>>

\* cp skips a file that vanished after the expansion, and then exits with 1.
CopyDone ==
  /\ pc = "copy" /\ todo \cap Names(osc) = {}
  /\ IF todo = {}
       THEN pc' = "load" /\ restart' = TRUE /\ UNCHANGED <<todo, lost>>
       ELSE End(Pending)
  /\ UNCHANGED <<oscVars, dirVars, loadVars, feedVars, faults>>

\* augenrules --load prints an error for a bad file; whether it also exits
\* with an error, which ends the run, depends on the rules (auditctl -c, -i).
Load ==
  /\ pc = "load" /\ (restart \/ metric = "none")
  /\ loaded' = rules
  /\ outcome' = IF rules \cap Bad = {} THEN "ok" ELSE "error"
  /\ \/ /\ pc' = "report" /\ lost' = lost \ {"load"}
        /\ UNCHANGED <<restart, todo>>
     \/ /\ outcome' = "error"
        /\ pc' = "failed" /\ restart' = FALSE /\ todo' = {}
        /\ lost' = (lost \ {"load"}) \cup {"metric"}
  /\ UNCHANGED <<oscVars, dirVars, metric, feedVars, faults>>

SkipLoad ==
  /\ GoTo("load", "plugin")
  /\ ~restart /\ metric # "none"
  /\ UNCHANGED <<oscVars, dirVars, loadVars, feedVars, restart, todo, faultVars>>

\* The metric is written to a temporary file and renamed.
Report ==
  /\ GoTo("report", "plugin")
  /\ metric' = IF outcome = "ok" THEN "1" ELSE "0"
  /\ lost' = lost \ {"metric"}
  /\ UNCHANGED <<oscVars, dirVars, loaded, outcome, feedVars, restart, todo, faults>>

\* Mutant of Plugin: restart_auditd=true (line 89) is missing.
PluginNoRestart ==
  LET path == IF plugin["audisp"] # "absent" THEN "audisp" ELSE "audit" IN
  /\ GoTo("plugin", "service")
  /\ plugin' = [plugin EXCEPT ![path] = Sed(path, "yes")]
  /\ UNCHANGED <<oscVars, dirVars, loadVars, auditd, forwards, socket,
                 journalReads, restart, todo, faultVars>>

Plugin ==
  LET path == IF plugin["audisp"] # "absent" THEN "audisp" ELSE "audit" IN
  /\ GoTo("plugin", "service")
  /\ plugin' = [plugin EXCEPT ![path] = Sed(path, "yes")]
  /\ restart' = (restart \/ plugin[path] = "no")
  /\ UNCHANGED <<oscVars, dirVars, loadVars, auditd, forwards, socket,
                 journalReads, todo, faultVars>>

Service ==
  /\ pc = "service"
  /\ IF auditd = "stopped" \/ restart
       THEN StartAuditd("socket") \/ StartFails
       ELSE pc' = "socket" /\ UNCHANGED <<auditd, forwards, restart, todo, faultVars>>
  /\ UNCHANGED <<oscVars, dirVars, loadVars, plugin, socket, journalReads>>

DisableSocket ==
  /\ GoTo("socket", IF socket.active THEN "stop" ELSE "configured")
  /\ socket' = [socket EXCEPT !.enabled = FALSE]
  /\ UNCHANGED <<oscVars, dirVars, loadVars, plugin, auditd, forwards,
                 journalReads, restart, todo, faultVars>>

\* Mutant of StopSocket: journald keeps running (line 107 is missing).
StopSocketOnly ==
  /\ GoTo("stop", "configured")
  /\ socket' = [socket EXCEPT !.active = FALSE]
  /\ UNCHANGED <<oscVars, dirVars, loadVars, plugin, auditd, forwards,
                 journalReads, restart, todo, faultVars>>

StopSocket ==
  /\ GoTo("stop", "journald")
  /\ socket' = [socket EXCEPT !.active = FALSE]
  /\ UNCHANGED <<oscVars, dirVars, loadVars, plugin, auditd, forwards,
                 journalReads, restart, todo, faultVars>>

RestartJournald ==
  /\ GoTo("journald", "configured")
  /\ journalReads' = socket.active
  /\ lost' = lost \ {"journald"}
  /\ UNCHANGED <<oscVars, dirVars, loadVars, plugin, auditd, forwards, socket,
                 restart, todo, faults>>

-----------------------------------------------------------------------------
(* remove_auditd_config *)

PluginsOff ==
  /\ GoTo("plugins_off", IF rules = {} THEN "restore" ELSE "wipe")
  /\ plugin' = [p \in PluginPath |-> Sed(p, "no")]
  /\ UNCHANGED <<oscVars, dirVars, loadVars, auditd, forwards, socket,
                 journalReads, restart, todo, faultVars>>

Wipe ==
  /\ pc = "wipe"
  /\ rules' \in Removals(rules)
  /\ pc' = IF rules' = {} THEN "restore" ELSE "wipe"
  /\ UNCHANGED <<oscVars, backup, loadVars, feedVars, restart, todo, faultVars>>

\* cp -fa creates the directory and copies the files in any order.
Restore ==
  /\ pc = "restore"
  /\ \E f \in backup \ rules : rules' = rules \cup {Dot, f}
  /\ UNCHANGED <<oscVars, backup, loadVars, feedVars, runVars, faultVars>>

\* Mutant of Reload: line 27 is missing.
ReloadMissing ==
  /\ GoTo("restore", "revert") /\ backup \subseteq rules
  /\ lost' = lost \ {"load"}
  /\ UNCHANGED <<oscVars, dirVars, loadVars, feedVars, restart, todo, faults>>

\* augenrules --load || true: errors of the original rules are ignored.
Reload ==
  /\ GoTo("restore", "revert") /\ backup \subseteq rules
  /\ loaded' = rules
  /\ outcome' = IF rules \cap Bad = {} THEN "ok" ELSE "error"
  /\ lost' = lost \ {"load"}
  /\ UNCHANGED <<oscVars, dirVars, metric, feedVars, restart, todo, faults>>

Revert ==
  /\ pc = "revert"
  /\ StartAuditd("rm_metric") \/ StartFails
  /\ UNCHANGED <<oscVars, dirVars, loadVars, plugin, socket, journalReads>>

\* Mutant of RemoveMetric: the metric file stays, as the cleaner leaves it.
MetricStays ==
  /\ GoTo("rm_metric", "rm_backup")
  /\ lost' = lost \ {"metric"}
  /\ UNCHANGED <<oscVars, dirVars, loadVars, feedVars, restart, todo, faults>>

RemoveMetric ==
  /\ GoTo("rm_metric", "rm_backup")
  /\ metric' = "none" /\ lost' = lost \ {"metric"}
  /\ UNCHANGED <<oscVars, dirVars, loaded, outcome, feedVars, restart, todo, faults>>

\* Mutant of RemoveBackup: the backup stays (line 33 is missing).
BackupStays ==
  /\ GoTo("rm_backup", "removed")
  /\ UNCHANGED <<oscVars, dirVars, loadVars, feedVars, restart, todo, faultVars>>

RemoveBackup ==
  /\ pc = "rm_backup"
  /\ backup' \in Removals(backup)
  /\ pc' = IF backup' = {} THEN "removed" ELSE "rm_backup"
  /\ UNCHANGED <<oscVars, rules, loadVars, feedVars, restart, todo, faultVars>>

-----------------------------------------------------------------------------
(* The surroundings: the webhook's rendering, gardener-node-agent, auditd. *)

Render ==
  /\ updates < MaxUpdates /\ updates' = updates + 1
  /\ desired' \in Desired \ {desired}
  /\ UNCHANGED <<osc, dirVars, loadVars, feedVars, runVars, faultVars>>

\* One file is written (to a temporary name and renamed) or removed.
NodeAgent ==
  /\ \/ \E f \in desired \ osc : osc' = {g \in osc : g[1] # f[1]} \cup {f}
     \/ \E g \in osc : g[1] \notin Names(desired) /\ osc' = osc \ {g}
  /\ UNCHANGED <<desired, updates, dirVars, loadVars, feedVars, runVars, faultVars>>

AuditdDies ==
  /\ auditd = "running" /\ faults < MaxFaults
  /\ auditd' = "stopped" /\ forwards' = {} /\ faults' = faults + 1
  /\ UNCHANGED <<oscVars, dirVars, loadVars, plugin, socket, journalReads,
                 runVars, lost>>

\* The node goes down and boots: systemd starts auditd, which loads rules.d,
\* the socket if it is enabled, journald and the script.  Nothing reports the
\* outcome of that load, so a load left to the boot leaves the metric behind.
Reboot ==
  /\ faults < MaxFaults /\ faults' = faults + 1
  /\ loaded' = rules
  /\ outcome' = IF rules \cap Bad = {} THEN "ok" ELSE "error"
  /\ auditd' = "running" /\ forwards' = Active
  /\ socket' = [socket EXCEPT !.active = socket.enabled]
  /\ journalReads' = socket.enabled
  /\ pc' = "new" /\ restart' = FALSE /\ todo' = {}
  /\ LET dropped == lost \cup Pending IN
       lost' = (dropped \cap {"metric", "backup"})
                 \cup (IF "load" \in dropped THEN {"metric"} ELSE {})
  /\ UNCHANGED <<oscVars, dirVars, metric, plugin>>

Configure ==
  \/ Backup \/ Diff \/ Clear \/ Expand \/ Copy \/ CopyDone \/ Load \/ SkipLoad
  \/ Report \/ Plugin \/ Service \/ DisableSocket \/ StopSocket \/ RestartJournald

Remove == PluginsOff \/ Wipe \/ Restore \/ Reload \/ Revert \/ RemoveMetric \/ RemoveBackup

Script == Begin \/ Configure \/ Remove

Next == Script \/ NodeAgent \/ Render \/ Interrupt \/ AuditdDies \/ Reboot

Spec == Init /\ [][Next]_vars

\* systemd starts the script again after every end, a running script moves on,
\* and the node agent finishes applying an OSC.
FairSpec == Spec /\ WF_vars(Script) /\ WF_vars(NodeAgent)
-----------------------------------------------------------------------------
(* Properties *)

PC == Idle \cup {"backup", "diff", "clear", "copy", "load", "report", "plugin",
                 "service", "socket", "stop", "journald", "plugins_off", "wipe",
                 "restore", "revert", "rm_metric", "rm_backup"}

\* The values of the state: directories hold files, a run is at one of the
\* statements of the script, and its local variables are only set where they are used.
TypeOK ==
  /\ desired \in Desired /\ osc \subseteq File /\ updates \in 0..MaxUpdates
  /\ rules \in Dir /\ backup \in Dir
  /\ loaded \in Dir /\ outcome \in {"none", "ok", "error"}
  /\ metric \in {"none", "1", "0"}
  /\ plugin \in PluginFiles
  /\ auditd \in {"running", "stopped"} /\ forwards \subseteq PluginPath
  /\ socket \in Sockets
  /\ journalReads \in BOOLEAN
  /\ pc \in PC /\ restart \in BOOLEAN /\ todo \subseteq Name
  /\ lost \subseteq {"load", "metric", "restart", "journald", "backup"}
  /\ faults \in 0..MaxFaults
  /\ restart => pc \in {"load", "report", "plugin", "service"}
  /\ todo # {} => pc = "copy"

\* The node's own rules survive every order of installations, removals,
\* interruptions and failures: they are complete in rules.d or in the backup,
\* unless a run ended in the middle of deleting the backup (line 33).
OriginalsKept ==
  Orig # {} /\ "backup" \notin lost => rules = Orig \/ backup = Orig

\* A run that reached its end leaves the kernel with the rules that are in
\* rules.d (line 69), unless a run ended between replacing the files and
\* loading them; the empty directory is what is left when the OSC rules are
\* deleted between the test of line 38 and the comparison of line 52.
RulesLoaded ==
  pc = "configured" /\ "load" \notin lost => rules = {Dot} \/ loaded = rules

\* The metric tells the outcome of the last load, except while a run is
\* between the load and the metric, or ended there (lines 69-78, 27-32).
MetricHonest ==
  /\ metric # "none"
  /\ "metric" \notin lost
  /\ pc \notin {"report", "revert", "rm_metric"}
  => (metric = "1" <=> outcome = "ok")

\* After a complete run a running auditd forwards through exactly the plugin
\* files that say so: every sed is followed by a restart (lines 81-97), unless
\* a run ended between the two.
ForwardingFollowsPlugins ==
  pc = "configured" /\ auditd = "running" /\ "restart" \notin lost
    => forwards = Active

\* After a complete run journald does not read the audit socket beside the
\* plugin, now or after a reboot (lines 99-109), unless a run ended between
\* stopping the socket and restarting journald.
NoDuplicateFeed ==
  pc = "configured" /\ "journald" \notin lost
    => ~socket.enabled /\ ~socket.active /\ ~journalReads

\* configure-rsyslog.sh deletes files of rules.d only while it holds the whole
\* set in a backup: whatever is removed first was moved aside (lines 43-45).
WipesOnlyWithBackup ==
  [][rules \ rules' # {} => backup' # {}]_vars

\* Once the OSC stops changing, the rules on the node settle: the files that
\* the OSC asks for, or the backup gone when it asks for none.
Settles ==
  <>[](/\ osc = desired
       /\ IF desired = {} THEN backup = {} ELSE rules = desired \cup {Dot})
-----------------------------------------------------------------------------
(* The abstract specification: rules.d is handed over to the kernel.  An empty *)
(* or missing directory is only met on the way to another one.                 *)

RulesHandover == INSTANCE Handover WITH
  Value <- Dir, Empty <- {{}, {Dot}},
  installed <- rules, active <- loaded,
  working <- pc \notin Idle, owed <- "load" \in lost

\* rules.d changes in a run only, the kernel never has rules that were not all of
\* rules.d at some moment, and a run that ends at whatever statement leaves the
\* two equal, or a load on record as dropped (lines 13-97).
HandsOver == RulesHandover!Spec

-----------------------------------------------------------------------------
(* What the repository's documentation says, and the code does not do. *)

\* docs/usage/configuration.md:210: after the rules are placed in rules.d,
\* augenrules --load is called so that they take effect.  A run whose cp lost
\* a file ends before line 69; when the next run finds rules.d equal to the
\* OSC after all, its restart_auditd is false and nothing loads the rules.
PlacedRulesTakeEffect ==
  pc = "configured" => rules = {Dot} \/ loaded = rules

\* docs/development/input-validation.md:96: when the rules are invalid the
\* script reports the failure via metrics.  When augenrules exits with an
\* error, line 69 ends the run under errexit before the metric is written.
InvalidRulesReported ==
  pc \in {"configured", "failed"} /\ outcome = "error" => metric = "0"
=============================================================================
