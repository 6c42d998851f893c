# Verification of gardener-extension-shoot-rsyslog-relp

TLA+ models of the extension that configures `rsyslog` (with the RELP output) and `auditd`
on the nodes of a Gardener Shoot, model-checked with TLC and proved with TLAPS. All paths
are relative to the repository; `script` stands for
`pkg/webhook/operatingsystemconfig/resources/templates/scripts/configure-rsyslog.tpl.sh`.

## 1. The system

```
 garden                 seed (control plane of one Shoot)            node of the Shoot
 owner -> Shoot         gardenlet -> Extension, OSC, Cluster         gardener-node-agent
   |  admission            |            |                               | files, unit
   v                       v            v                               v
 shoot.go validates    actuator.go   OSC webhook renders  --->  /var/lib/rsyslog-relp-configurator
 config, Secret,       monitoring,   files and unit                     |
 ConfigMap             cleaner MR                                       v
                          |                                  configure-rsyslog.sh (every 15 s)
                          |                                    /etc/audit, /etc/rsyslog.d, TLS
                          +-> gardener-resource-manager          auditd, journald, rsyslog
                               -> cleaner DaemonSet  ----------> undoes it    |  impstats
                                                                process-rsyslog-pstats.sh
                                                                     -> node-exporter -> alerts
```

| Part | State it keeps | Operations | What makes it correct |
|---|---|---|---|
| `configure-rsyslog.sh`, auditd half (script:13-110) | `/etc/audit/rules.d`, its backup `rules.d.original`, the kernel's rules, the metric file, the plugin's `active` line, auditd, the journald audit socket; `restart_auditd` inside a run | install, remove | the node's own rules survive; what is in `rules.d` is loaded; the metric is honest; exactly one feed of audit events |
| `configure-rsyslog.sh`, rsyslog half (script:112-148) | `60-audit.conf`, the TLS directory, rsyslog's own view of both; `restart_rsyslog` inside a run | install, copy TLS files, restart | rsyslog works with what the OSC asks for |
| unit `rsyslog-configurator.service` (`rsyslog.go:261`) | none | `Restart=always`, 15 s | the script runs again after every end |
| lifecycle actuator (`actuator.go`, `monitoring.go`) | three monitoring objects; nothing in memory | Reconcile, Delete, ForceDelete, Migrate, Restore | monitoring follows `auditConfig`; a deletion leaves nothing behind and completes |
| configuration cleaner (`rsyslog_relp_config_cleaner.go`) | a ManagedResource with a DaemonSet | Deploy, Wait, Destroy, WaitCleanup; the init container's command | every node is cleaned before the Extension goes |
| OSC webhook (`ensurer.go`, `rsyslog.go`, `auditd.go`) | none; reads a cached Extension, Cluster and ConfigMap | EnsureAdditionalFiles, EnsureAdditionalUnits | what is rendered is what the Shoot asks for |
| log filters (`rsyslog.go:279`, `60-audit.conf.tpl`) | none | computeLogFilters | a message is forwarded exactly when a rule selects it |
| admission (`shoot.go`, `validation/`) | none | Validate | what is admitted can be rendered |
| `process-rsyslog-pstats.sh` | the lines of a batch, a temporary file, the `.prom` file | BEGIN, metric line, END | the published file is one whole batch |
| alerting rules (`monitoring.go:43`) | how long each expression has been true | three expressions, evaluated by the Shoot's Prometheus | a node that processes nothing and failures are noticed, and nothing else is; rules that are loaded nowhere raise an alert |
| dashboard (`dashboard_config.go`) | none | the queries of its panels | no panel is empty for a node that is scraped |
| wiring, API types, charts | none | | |

What is hard here: the script is a loop without a memory of its own - it compares
directories and restarts services depending on a variable of one run, under `errexit`, while
`gardener-node-agent` rewrites the very directories it copies; it may be stopped between any
two commands. When the extension goes, a third program joins them: the cleaner undoes on the
node what the script did, without looking at exit codes, while the script and the node agent may
still be at work. The actuator is likewise restarted from its beginning after every error,
timeout or crash, and shares its objects with gardener-resource-manager, which only works
while the Shoot is awake. The alerts see the nodes through files that outlive their writers,
counters that start again and scrapes that fail. `PROJECT.json` lists every hazard with its line.

## 2. Modules

| Module | What it is |
|---|---|
| `AuditdConfigurator` | the auditd half of the script with auditd, journald, the node agent and the webhook's renderings around it |
| `AuditdConfiguratorProofs` | theorems about it |
| `MCAuditdConfigurator` | instances: `Auditd`, `AuditdPlaced`, `AuditdInvalid` |
| `RsyslogConfigurator` | the rsyslog half of the script with rsyslog and the node agent |
| `RsyslogConfiguratorProofs` | theorems about it |
| `MCRsyslogConfigurator` | instance: `Rsyslog` |
| `Handover` | the abstract specification of handing files over to a service, which both halves implement |
| `Node` | the node: both halves under main and the unit, the node agent, the cleaner's command; extends `AuditdConfigurator`, instantiates `RsyslogConfigurator` |
| `NodeProofs` | theorems about it, from those about the auditd half |
| `MCNode` | instance: `Node` |
| `ExtensionLifecycle` | the actuator, its monitoring objects and the cleaner's ManagedResource, with gardener-resource-manager, the nodes, gardenlet and the owner around them |
| `ExtensionLifecycleProofs` | theorems about it |
| `MCExtensionLifecycle` | instances: `Lifecycle`, `LifecycleLeak` |
| `PstatsProcessor` | `process-rsyslog-pstats.sh` with impstats, omprog and its pipe in front of it |
| `PstatsProofs` | theorems about it |
| `MCPstatsProcessor` | instances: `Pstats`, `PstatsMixed` |
| `Admission` | what the admission asks of a Shoot, with the validation and defaulting of the API |
| `OscWebhook` | what the OSC webhook adds, as a function of what it reads; extends `Admission` |
| `ControlPlane` | the state machine that composes both: the owner, gardenlet, the informers of the webhook |
| `ControlPlaneProofs` | theorems about it |
| `MCControlPlane` | instance: `ControlPlane` |
| `LogFilters` | the filters that the webhook makes of the logging rules, and what the rules mean; extends `Admission` |
| `Dashboard` | the published metrics, and the panels with their queries |
| `Monitoring` | the state machine over both: messages, counts, files, scrapes, alerts |
| `MonitoringProofs` | theorems about it |
| `MCMonitoring` | instances: `Monitoring`, `MonitoringFailures` |

`AuditdConfigurator`, `RsyslogConfigurator` and `Node` are one family, `Admission`, `OscWebhook`,
`LogFilters`, `ControlPlane` and `Monitoring` another; `ExtensionLifecycle` and `PstatsProcessor` stand
alone. Where two of them meet, one takes what the other ends with as its input: `Node` the files that
`ControlPlane` renders, `ExtensionLifecycle` the cleaned node that `Node` shows, `Monitoring` the
files that `PstatsProcessor` and `AuditdConfigurator` write.

### AuditdConfigurator

A directory is the set of its files `<<name, content>>` plus the element `Dot`; `{}` is a
directory that does not exist. Removing and copying proceed file by file (`Removals`,
`Copy`, `Restore`), so every torn state is reachable, and the node agent changes the OSC
directory between any two of them. The script's position is `pc`; the actions follow its
statements:

    Begin (37-41) -> Backup (43-45) -> Diff (47-52) -> Clear, Expand, Copy, CopyDone (53-57)
      -> Load | SkipLoad (63-69) -> Report (70-79) -> Plugin (81-90) -> Service (92-97)
      -> DisableSocket, StopSocket, RestartJournald (99-109)
    Begin -> PluginsOff (14-20) -> Wipe (22-24) -> Restore, Reload (25-27) -> Revert (28)
      -> RemoveMetric (30-32) -> RemoveBackup (33)

`End` is what `errexit` or a killed shell does: the run's variables are gone. `lost` is a
history variable with the duties a run took up and dropped that way (`load`, `metric`,
`restart`, `journald`, `backup`); it is cleared for a duty when a later run or a reboot
performs it. The safety properties are exact about it: they say what holds unless that one
duty was dropped, and never excuse anything else.

Decisions on the data: `Bad` are the files for which `augenrules --load` prints errors; whether
it exits with an error too is left open (`Load`), because that depends on the rules
(`-c`, `-i`). The plugin's `active` line is `yes`, `no`, missing (`bare`), or there is no file;
auditd reads the plugin files only when it starts. `cp` of a file that vanished after the glob
was expanded copies the others and fails. `DisableSocket` is one action although lines 102-105
test twice, because nothing else touches that socket. A partially written file is not modelled:
`cp` and `sed -i` replace a file as a whole.

### RsyslogConfigurator

The same way: `Begin` (112-122), `InstallConf` (124-127), `CompareTls` (129-138), `ClearTls`,
`ExpandTls`, `CopyTls`, `CopiedTls` (134-137), `RemoveTls` (138-140), `Service` (142-147).
`live` is what rsyslog read when it last started. An empty TLS directory and a missing one are
the same. Line 124 and the copy of line 125 are one action: the configuration is one file, and
a run killed between the copy and line 126 is `Interrupt` right after it, with the same effect
as `restart` dies with the run.

### Handover

`installed` are the files in a service's directory, `active` those the service works with. `working`
is a run in progress; `owed` is a duty that a run left behind and that only the service's next start,
load or boot settles. `RsyslogConfigurator` implements it twice (`ConfHandover`, `TlsHandover`: `conf`
and `live.conf`, `tls` and `live.tls`; owed when the restart was lost or rsyslog is down),
`AuditdConfigurator` once (`RulesHandover`: `rules` and `loaded`; owed when the load was lost).
`HandsOver` of either module is the refinement. It is stronger than the invariants: the files do
not change between runs, the service never works with anything that was not installed at one moment, and
what is owed does not go away without the service.

### Node

`phase` says which half a run is in. `ConfigureAuditd` is any statement of the first half and ends the
run where it ends in `failed`; `Turn` is the step from line 152 to the next. `Stop` cuts off whichever
half is at work. The scripts are files of the OSC like `60-audit.conf`, and that one stands for all of
them (`ScriptInstalled`). The node agent writes and removes files one by one, starts the unit after them and
stops it when it is withdrawn. The cleaner's command is one action per statement, `cleaner` is the next one;
the tests `-f` and `-d` are in the action they guard. `rm -rf` and `mv` of the rules are two actions, because
the script may be in between. `cut` remembers a load or restart that a killed init container does
not come back to. The audit socket may be in any state of `Sockets` before the extension: absent, disabled or
inactive, or on; `CleanSocket` turns on whatever exists, as the command does. `Installed` is the set of services of the node's image. The faults and
updates of both halves are counted together.

### ExtensionLifecycle

One action per request of a call. `Start` reads the Cluster and the Extension into `read`;
everything later in the call works with that snapshot, as `actuator.go:53` and `:64` do. `Fail` is
a failed request, a crash or a lost lease: the library starts the call again from its
beginning. `Timeout` is the two minutes of `Wait` and `WaitCleanup` being too short although
the awaited thing would have happened, and is bounded like a fault; `HibernatedTimeout` is a wait
for what cannot happen while the Shoot sleeps, and is not. `cleanup` remembers that a call
has `begun` to deploy the cleaner, until a Delete that saw the Shoot awake claims success, and whether
the Extension went without that, `skipped` by `ForceDelete` or by a retry that read a hibernated
Shoot. It never looks at the ManagedResource: a Delete that ends too early is no excuse. TLC
finds `NoCleanerBesideExtension` violated when `Gone` does not wait, and `CleanWhenGone` when the early
return does not ask for hibernation. The init container's command is one step per node here
(`CleanNode`); `Node` has its statements.

### PstatsProcessor

`batch` and `next` are impstats' position in its reports, `pipe` is the script's standard input.
One action per branch of the loop (`ReadBegin` 122-126, `ReadStats` 148-151, `ReadEnd` 127-143), with the
append (`AppendTmp`, 146) and the rename (147) as actions of their own because the script may
stop between them. An object that `jq` rejects ends the script (`ReadGarbled`, 149) and omprog starts
another one with its next line, which may be in the middle of a batch; the lines in the pipe are
lost. `Sort` stands for `sort`: it inserts line after line where the order of whole lines, `Before`, wants it. `AddAll`
is the loop over the result, with `Add` as one turn of it. What node-exporter should find of a batch is said
without either of them: `Contents` is the set of what belongs into the file, `Ahead` the order in which it has to
stand there, and `IsWhole` both. A line that is not from impstats does not occur: the ruleset of the template
gets nothing else.

### Admission, OscWebhook and ControlPlane

The first two are pure. An object of the garden is named `<<kind, name>>`, `resources` of a Shoot takes
the name of a reference to the object. `Validate` is the conjunction of all checks of
`shoot.go:41-131`; `EnsureAdditionalFilesFails` and `EnsureAdditionalFiles` are the error
and the result of `ensurer.go:41-92`. A rendered file is represented by what it is rendered
from: the configuration, the Secret of the TLS files, the audit rules.

In `ControlPlane` an action of the owner is one request to the garden's API server, and `Submit` contains
the call of the webhook, which reads the objects without a cache (`GetAPIReader`). gardenlet is
outside this repository and is modelled by the order in which its flow writes what the
webhook reads (`SyncCluster`, `CopyReferences`, `DeployExtension`, `DeployOsc`); `FlowFails`
begins it anew. The webhook reads through three informers, `seen`, which lag behind
independently. `DeployOsc` contains the whole call: both Ensure functions, and the failed
request when one returns an error. `admitted` and `replaced` are history variables. The namespace carries the
label the webhook selects only while the extension is enabled (`webhook.go`, the namespace
selector). What gardenlet does after a Shoot's deletion flow has removed its objects is not
part of the module.

`UnitHasScript` says that a unit is never rendered without the script it runs.

`Converges` needs that every object the Shoot refers to exists (`Complete`): otherwise
gardenlet cannot copy it, and the OperatingSystemConfig stays as it was.

### LogFilters, Dashboard and Monitoring

A filter is the set of the conditions that `computeLogFilters` joins with `and`; `Calls` are the filters of
the template's chain of `if ... then { action; stop }` that call the relp action. `Selects` is what a rule
means to its owner, written from the words of `docs/usage/configuration.md` and not from the translation.

In `Monitoring` a round is a scrape: the five minutes of `rate()` are `Window` scrapes, the fifteen
minutes of `for` are `For`. `Log` is a message that reaches rsyslog on a node. `Publish` writes the
counts of the relp action to the node's file, which stays when rsyslog or the script is gone;
`RestartRsyslog` lets the counts start from zero; `LoadRules` writes the load success; `Lose` and `Return`
are a node that is not scraped for a while. `Increase` adds up the `Growth` between
`Successive` samples of a window, where a value below the one before is a counter that started from zero, as in
Prometheus. A rate that is zero is stated as `NoIncrease`: no pair of samples grew. `MCMonitoring` has TLC confirm,
for all windows of up to four samples and counts up to two, that this is an `Increase` of zero. The extrapolation to the ends of the window is left
out: the expressions compare rates with zero or with each other. `processed` and `failed` count what
`docs/usage/monitoring.md:17-23` says of them. That a count which returns to exactly its old value after
a restart is no news cannot be told from the samples, and `News` says so.

`idle`, `served` and `quiet` are histories that count rounds without the windows the
expressions look at: `idle` those without a processed message, which failures may fill, `served` those
scraped, `quiet` those without news in a sample; `SilenceNoticed` and `NoFalseAlarm` compare the alert with them from both
sides. `Most` = `For` + `Window` - 1 is exact: with one round less TLC finds `SilenceNoticed` violated.
`Dashboard` has one definition for each of the 23 panels.

## 3. Runs

| Run | States | What it shows |
|---|---|---|
| `Auditd` | 2.2 M | the safety properties, `HandsOver` and `Settles`, with two faults and two rule changes |
| `AuditdPlaced` | violation | placed rules that are never loaded, without any fault |
| `AuditdInvalid` | violation | an invalid rule set that the metric does not report |
| `Rsyslog` | 1.0 M | rsyslog works with the installed files, `HandsOver` and `Installs`, two faults, two changes |
| `Node` | 1.4 M | the halves take turns, a finished cleaner leaves the node with its own rules, no configuration and its audit socket on, and rsyslog is configured unless the audit rules keep it away; one fault, one change, and a withdrawal at any time |
| `Lifecycle` | 310 k | nothing is left behind, `Monitored` and `DeletionCompletes`, three faults and six changes |
| `LifecycleLeak` | violation | a cleaner without an Extension |
| `Pstats` | 45 k | a published file is a whole batch, but for the one after a stop, and `KeepsPublishing`; two faults |
| `PstatsMixed` | violation | two batches in one file |
| `ControlPlane` | 539 k | only admitted configurations are rendered, what is admitted renders, the unit has its script, and the OSC converges; three changes, one failing flow |
| `Monitoring` | 658 k | the relp action sees what the rules select, a node that processes nothing is noticed and no other is, no panel is empty; two nodes, two messages, two faults |
| `MonitoringFailures` | violation | failures of the relp action beyond 2 % that raise no alert |

There is one passing run for each state machine; the others each check one statement of the
documentation.

**Bounds.** Two rule names and three contents give rule sets that share a name, that grow and
shrink, and one that is rejected; the node's original file has the name of an OSC file, so that
confusing the two is possible. Two changes of the rule set take the OSC from rules to none and
back, or through two rewrites during one run. Two faults allow a fault during the recovery from
another. For rsyslog the desired configurations are two without TLS and two with it, the
second being a rotation of both files. Two nodes let one be cleaned while the other is not; six
changes of the owner are enough for disable, hibernate, wake up, enable and disable again, with one more. Two sources that share one family, a
family without a comment in a place of the order where it separates others, and three batches tell
apart a missing sort, a comment too many and samples of an older batch. For the control plane, a Secret and a ConfigMap with
two and three contents and eleven Shoots - without the extension, disabled with an invalid
configuration, plain, with TLS, with auditing off, with rules of a ConfigMap, and five that are to be
refused - cover each branch of the validation that the webhook relies on; three changes are an update, the
replacement of what it refers to and a second update, with every lag of gardenlet and the informers in between. For the
node, one rule name and one TLS file are enough, since the runs of the halves have the torn directories: the one
fault falls anywhere in the halves or the cleaner, auditing may be switched off, rules may be ones that augenrules rejects. In `Auditd` and `Node` the audit
socket starts in each of its states. For the
monitoring, `Window` = 3 has room for a lost scrape between two others, `For` = 2 tells a pending alert
from a firing one, and two nodes let one be silent beside the other; three rules and four messages have a
message that two rules select, one at the limit of a severity, one for the last rule alone and one that none
selects. `MaxFaults`, `MaxUpdates`, `MaxMessages` and `MaxChanges` are the only counters; `PipeSize` bounds the pipe.

**Fairness.** A running shell moves on and the unit starts it again (`Restart=always`,
`rsyslog.go:271`): weak fairness of `Script`. gardener-node-agent finishes applying an OSC: weak
fairness of `NodeAgent`. The extension library retries a failed call and resyncs every hour
(`add.go:53`): weak fairness of `Controller`; gardener-resource-manager and the kubelets keep
working: weak fairness of their actions. gardenlet reconciles every Shoot periodically and
retries a failed flow, and informers catch up: weak fairness of `Gardenlet` and of each of the three
`Observe` actions. impstats reports every minute (`60-audit.conf.tpl:39`) and the
statistics script reads on: weak fairness of `Report` and of its `Script`. On the node
`NodeScript`, the node agent's `AgentFiles` and `AgentUnit`, and the kubelet's `CleanerStarts` and
`Cleaner` are weakly fair for the same reasons. `Monitoring` has safety properties only, which count
in rounds, and assumes none. Nothing is assumed of the owner, of faults, of `ForceDelete`,
`Migrate` or `Withdraw`. With unboundedly many waits that are only too short
`DeletionCompletes` would not hold: each retry deploys again what the one before was about to delete
(`actuator.go:123-131`).

`CHECK_DEADLOCK FALSE` appears in the lifecycle runs because a deleted Shoot is the end of its history, and in `Node` because a withdrawn node that is cleaned has nothing left to do; the other
models never stop.

## 4. What the code does otherwise than its documentation says

Five statements of the repository are checked and found violated; the traces are described
at `findings` in `PROJECT.json`:

* `AuditdPlaced`: placed rules are loaded and take effect. A variable of one run decides on the load, and
  `errexit` drops it together with the run. Comparing against what is loaded, instead of what was
  copied, would remove it.
* `AuditdInvalid`: invalid rules are reported via metrics. `errexit` ends the run before that.
* `LifecycleLeak`: the deletion of an Extension in a deletion of its Shoot destroys the cleaner that an
  earlier one, from before the deletion of the Shoot, left behind. When the Shoot was hibernated in
  between it returns before that.
* `PstatsMixed`: the published file is replaced at once; what replaces it may be of two batches.
* `MonitoringFailures`: an alert for failures beyond 2 %. Its numerator selects `rsyslg-relp`
  (`monitoring.go:46`), the name of no action, so that the expression has no value.

What else the models show:

* A run that ends between the copy of the configuration and the restart loses the restart, as do TLS
  files that are switched off (script:135-147): `HandsOver` and `RunsInstalledTls` say what is owed.
* On a node without rules of its own the next backup may be of the extension's rules, and without a
  backup the cleaner neither changes `rules.d` nor restarts auditd; `CleanedNode` excepts `Orig = {}`.
* Where augenrules exits with an error on the first rules of a node there is no metric file, so every run
  loads again and ends there, and rsyslog is never configured (script:63-69, 152): the second
  disjunct of `RsyslogConfigured`.
* A cleaner that is killed after it removed a directory and before the load or restart that hangs on it
  does not come back to it (`rsyslog_relp_config_cleaner.go:204-216`): `cut`.
* A Shoot that hibernates is deleted without a cleaner, by design (`actuator.go:97`).
* The panel Number of Open Files asks for `nivcsw` (`dashboard_config.go:2168`), Times Resumed for `suspended`
  (line 619), and `openfiles` is on no panel.
* A node that came with its audit socket disabled or stopped has it on after the cleaner
  (`rsyslog_relp_config_cleaner.go:198-202`): `CleanedNode` says that it is on wherever it exists.
* A node that never published counts raises no alert of a rate that is zero.
* `docs/usage/monitoring.md:146` and the annotation of the audit alert (`monitoring.go:88`) say that it means
  that `augenrules --load` failed. The expression, `absent(rsyslog_augenrules_load_success == 1)`, has no value
  as long as one node reports success, so the failures of the others raise no alert; and it has one
  when nothing failed but no node reports, because the nodes are gone or are not scraped. `NotLoaded` models the
  expression as it is; no run is about it.

## 5. Proofs

`tlapm` proves, for all values of the constants that satisfy the modules' assumptions on them:

* `AuditdConfiguratorProofs`: `TypeOK`, `WipesOnlyWithBackup`, `OriginalsKept`, `RulesLoaded`,
  `ForwardingFollowsPlugins`, `NoDuplicateFeed`, `MetricHonest`, `HandsOver`. None of the safety properties is inductive.
  `DirInv` says that while files are removed or copied a backup exists; `OriginalsInv` adds
  at each statement where the originals are (before `Backup` in `rules.d`, afterwards in the
  backup, during `Restore` in the backup with `rules.d` a part of it); `LoadedInv` says that
  whatever differs between `rules.d` and the loaded rules is on record in `pc`, `restart` or
  `lost`; `FeedInv` says the same of the plugin files and of journald. `HandsOver` maps
  each statement to a step of `Handover` or a stutter; `LoadedInv` gives the ends of runs. `MetricHonest` has the
  premise that the node has rules of its own: without `rules.d` a boot can load an empty directory
  that the next run replaces.
* `RsyslogConfiguratorProofs`: `TypeOK`, `RunsInstalledConf`, `RunsInstalledTls`, `HandsOver`, from `ConfInv` and `TlsInv`:
  whatever separates rsyslog's files from the installed ones is on record in `restart`, in the
  statement the run is at, or in `lost`.
* `ExtensionLifecycleProofs`: `TypeOK`, `NoCleanerBesideExtension`, `MonitoringGone`, `CleanWhenGone`, from `CallInv`
  (which part of Delete a call can be at, given the Extension, the monitoring objects, the
  snapshot and `cleanup`: outside a deletion there is a cleaner only behind a cleanup that was `skipped`,
  and in one only when a cleanup was `begun` or `skipped`) and `CleanInv` (a health report implies that every node that exists was cleaned
  since the Extension is in deletion).
* `ControlPlaneProofs`: `TypeOK`; `OnlyAdmittedConfigs`, from `ConfInv`: each of the copies of a configuration
  on its way to the nodes (Cluster, Extension, both as cached, and the OSC) was admitted, and the
  admission accepts no Shoot without one; `AdmittedRenders`, from `AdmittedInv` (what was valid stays
  valid while the objects are left alone, because the admission reads only those the Shoot refers to) and
  the lemma `ValidRenders`, which compares the checks of `shoot.go` with the errors of the webhook for every
  configuration; `UnitHasScript`, from what each rendering contains.
* `NodeProofs`: `TakeTurns`, from `TurnsInv`, which adds that a run in the auditd half is neither before
  its first statement nor failed. `CleanedNode`, on nodes that came without an active syslog plugin. `NodeInv` adds to
  the theorems about the auditd half, as far as its files are concerned (`HalfInv`), that a node without a backup
  is as before the extension, because a removal deletes the backup last (`RevertedInv`); this holds
  while the script may still run. From then on `CleanInv` says that the cleaner has a backup to restore or
  that nothing is left to do but the load and the restart that are still to come or were `cut`, and
  `RsyslogInv` and `SocketInv` say the same of rsyslog's files and of journald, `SocketTurnedOn` that the
  socket is on once the cleaner is past it, from whatever state the node came with. `EndInv` orders the
  three programs: the cleaner comes after the withdrawal, and its later statements after the end of the unit.
  The premise `PassiveNode` is needed: where a plugin was active before the extension, and the extension never had
  audit rules, no run and no cleaner turns it off.
* `MonitoringProofs`: `TypeOK`; `ForwardsSelected`, from the lemmas that a filter passes exactly the
  messages its rule selects and that only the first such filter calls the action (`OneCall`);
  `AdmittedFilters`, that no admitted rule makes an empty filter.
  `SilenceNoticed` and `NoFalseAlarm`, for any `Window` and `For`: `WindowInv` says what the histories mean for the
  samples of a window (the last `served` ones are there, the last `idle` ones have the number of
  processed messages of now), `SilenceCount` how long the alert is then pending at least. A window of one count has
  no increase (`SilentWindow`), and a scrape with news makes one, because the pair that ends in it
  grew (`LastPair`, `NewsCount`). `PanelsShow` from `QueriesMatch`, which goes through the queries of all panels, and
  `FullWindow`: a window that was served is rated.
* `PstatsProofs`: `TypeOK` and `OneDamagedPublication`, for any families, sources, objects, batches, pipe and number of
  faults. First about the algorithm: `Recursion` and `Induction` give functions along `0..n` and what holds of
  them, `StrictOrder` that `Before` orders the samples of a batch, `SortSorts` that `Sort` returns
  all of them and no other in that order, `AddAllShows` that the loop over a sorted list writes every
  sample of a known family, each family's comment once and before them, and nothing else; `WholeBatch` puts
  these together. Then about the protocol: `Stream` is what the script has before it, the lines of the pipe and the one
  that rsyslog writes next. `StreamInv` says that each of them follows the one before it in a report, `ReadInv` that a
  script which did not stop since the last rename has gathered exactly what precedes the line before it and
  that the temporary file is empty, `PublishInv` that a BEGIN comes behind an END, `WriteInv` that what is
  between the END and the rename is a whole batch. A script that starts in the middle of a batch is `suspect`
  until its first rename, and the BEGIN behind it makes the invariant hold again. TLC checked this invariant with
  three faults and a pipe of three lines (1.5 M states) before it was proved.

Each theorem has one step per action and rests on `TypeCorrect` and the invariant's own
preservation lemma. Every safety and action property of the passing runs is the subject of a theorem. Only
model-checked are the liveness properties (`Settles`, `Installs`, `Monitored`, `DeletionCompletes`,
`KeepsPublishing`, `Converges`, `RsyslogConfigured`), which the prover cannot do.

The library's induction theorems take an operator as a parameter, which the installed provers cannot
instantiate. Where a proof needs induction along a sequence (`MonitoringProofs`, `PstatsProofs`) it is therefore
done with sets of numbers: a set that has 0 and, with each number, the next one, has all of them
(`Induction`), from the well-foundedness of the order of the natural numbers. What stays out of reach that
way are operators that hide their recursion, `SortSeq` and the folds of the community modules: `Sort` and `AddAll`
are recursive functions for that reason, and `NoIncrease` does without a sum. The ratio of the failure alert
(`TooManyFailures`) still has one, and what it amounts to is checked by TLC alone.

## 6. Not modelled

* Option parsing and wiring (`cmd/`, `pkg/cmd`): they register what the models contain and keep no state.
* API types, generated conversions and deep copies, constants, the image vector, Helm charts: data.
* The RELP protocol, and rsyslog's disk-assisted queue, suspension and retries of its action: not in
  this repository. The parameters of the template that are handed to them are data here.
* The syntax of names, addresses and regular expressions: membership in constant sets. That an
  expression is validated after quoting and matched after rsyslog's own unescaping is therefore a hazard
  without a property.
* The layout of the dashboard beyond its queries.

Worth adding next: `CleanedNode` without the premise on the plugins, with what was active before in
place of `{}`; what the audit alert says of single nodes, against the words of the documentation; the cleaner's command and `ExtensionLifecycle` in one module, so that `CleanNode` is shown to be
what `Node` does; the Shoot's deletion flow behind `ControlPlane`.
