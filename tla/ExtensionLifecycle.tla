------------------------- MODULE ExtensionLifecycle -------------------------
(***************************************************************************)
(* The lifecycle controller of the extension: the actuator's Reconcile,    *)
(* Delete, ForceDelete, Migrate and Restore for one Shoot, the monitoring  *)
(* objects it keeps in the Shoot's namespace of the seed, and the          *)
(* ManagedResource through which the configuration cleaner, a DaemonSet,   *)
(* reaches the nodes.  gardener's extension library calls the actuator for *)
(* one Extension at a time, again after an error or a crash, and removes   *)
(* the finalizer once Delete returned nil.  gardener-resource-manager      *)
(* (GRM) applies, watches and deletes what the ManagedResource holds, as   *)
(* long as the Shoot is not hibernated.                                    *)
(***************************************************************************)
EXTENDS Naturals, FiniteSets

CONSTANTS
  Node,        \* nodes of the Shoot
  MaxFaults,   \* bound: failed requests, timeouts and crashes of the controller
  MaxChanges   \* bound: changes of the Shoot made by its owner

ASSUME BoundsOK == MaxFaults \in Nat /\ MaxChanges \in Nat

VARIABLES
  shoot,     \* the Cluster resource: is the Shoot hibernated, in deletion?
  ext,       \* the Extension resource; "abandoned": gone without a cleanup
  audit,     \* is auditConfig absent or enabled in its providerConfig?
  mon,       \* the monitoring objects; "rules" holds the alerts of "audit"
  mr,        \* the ManagedResource of the cleaner
  healthy,   \* its conditions report its resources as healthy
  daemon,    \* the cleaner DaemonSet exists in the Shoot
  pods,      \* nodes where the cleaner's init container ran to its end
  node,      \* what each node carries
  pc,        \* where the actuator is; "idle": no call in progress
  read,      \* what the call read at its start: the Cluster or auditConfig
  cleanup,   \* history: "begun" from deploying the cleaner to the end of a Delete
             \* that saw the Shoot awake; "skipped" if the Extension went otherwise
  faults, changes

ownerVars  == <<shoot, audit, changes>>
cleanVars  == <<mr, healthy, daemon, pods, node>>
callVars   == <<pc, read>>
vars == <<ownerVars, ext, mon, cleanVars, callVars, cleanup, faults>>

Objects == {"dashboards", "rules", "scrape"}
Absent  == [o \in Objects |-> "absent"]
Alerts(a) == IF a THEN "audit" ELSE "plain"

Init ==
  /\ shoot = [hibernated |-> FALSE, deleting |-> FALSE]
  /\ ext = "active" /\ audit \in BOOLEAN /\ changes = 0
  /\ mon = Absent
  /\ mr = "absent" /\ healthy = FALSE /\ daemon = FALSE /\ pods = {}
  /\ node = [n \in Node |-> "configured"]
  /\ pc = "idle" /\ read = [hibernated |-> FALSE, deleting |-> FALSE, audit |-> FALSE]
  /\ cleanup = "none" /\ faults = 0

-----------------------------------------------------------------------------
(* How a call starts, goes on and ends. *)

\* A call starts by reading the Extension and, in Delete, the Cluster.
Start(at) ==
  /\ pc = "idle" /\ pc' = at
  /\ read' = [hibernated |-> shoot.hibernated, deleting |-> shoot.deleting,
              audit |-> audit]

Step(from, to) == pc = from /\ pc' = to /\ UNCHANGED read

\* The Extension goes without the cleanup that a call has begun.
Skip == cleanup' = IF cleanup = "begun" THEN "skipped" ELSE cleanup

\* Delete returned nil: the library removes the finalizer.  A Delete that saw the
\* Shoot awake claims to have finished the cleanup, whoever began it.
Finish ==
  /\ pc' = "idle" /\ UNCHANGED read
  /\ ext' = "absent"
  /\ IF read.hibernated THEN Skip ELSE cleanup' = "none"

\* A request fails, or the controller crashes or loses its lease: the call
\* ends with an error or without any, and is started again from its beginning.
Fail ==
  /\ pc # "idle" /\ faults < MaxFaults
  /\ pc' = "idle" /\ faults' = faults + 1
  /\ UNCHANGED <<ownerVars, ext, mon, cleanVars, read, cleanup>>

-----------------------------------------------------------------------------
(* Reconcile and Restore: deployMonitoringConfig, one object after another *)

StartReconcile ==
  /\ ext = "active" /\ Start("dashboards")
  /\ UNCHANGED <<ownerVars, ext, mon, cleanVars, cleanup, faults>>

PutDashboards ==
  /\ Step("dashboards", "rules")
  /\ mon' = [mon EXCEPT !["dashboards"] = "plain"]
  /\ UNCHANGED <<ownerVars, ext, cleanVars, cleanup, faults>>

\* Mutant of PutRules: an existing object is not patched.
PutRulesOnce ==
  /\ Step("rules", "scrape")
  /\ mon' = [mon EXCEPT !["rules"] = IF @ = "absent" THEN Alerts(read.audit) ELSE @]
  /\ UNCHANGED <<ownerVars, ext, cleanVars, cleanup, faults>>

PutRules ==
  /\ Step("rules", "scrape")
  /\ mon' = [mon EXCEPT !["rules"] = Alerts(read.audit)]
  /\ UNCHANGED <<ownerVars, ext, cleanVars, cleanup, faults>>

PutScrape ==
  /\ Step("scrape", "idle")
  /\ mon' = [mon EXCEPT !["scrape"] = "plain"]
  /\ UNCHANGED <<ownerVars, ext, cleanVars, cleanup, faults>>

\* The control plane moves here again: a new namespace, reconciled as above.
Restore ==
  /\ ext = "abandoned" /\ ~shoot.deleting
  /\ ext' = "active" /\ mon' = Absent
  /\ Start("dashboards")
  /\ UNCHANGED <<ownerVars, cleanVars, cleanup, faults>>

-----------------------------------------------------------------------------
(* Delete *)

StartDelete ==
  /\ ext = "deleting" /\ Start("unmonitor")
  /\ UNCHANGED <<ownerVars, ext, mon, cleanVars, cleanup, faults>>

Unmonitor ==
  /\ pc = "unmonitor"
  /\ \E o \in Objects : mon[o] # "absent" /\ mon' = [mon EXCEPT ![o] = "absent"]
  /\ UNCHANGED <<ownerVars, ext, cleanVars, callVars, cleanup, faults>>

\* Without nodes there is nothing to clean, says a hibernated Shoot.
SkipHibernated ==
  /\ pc = "unmonitor" /\ mon = Absent /\ read.hibernated
  /\ Finish
  /\ UNCHANGED <<ownerVars, mon, cleanVars, faults>>

\* Mutant of ToCleaner: the call goes on when deleting an object failed.
ToCleanerEarly ==
  /\ ~read.hibernated
  /\ Step("unmonitor", IF read.deleting THEN "destroy" ELSE "deploy")
  /\ UNCHANGED <<ownerVars, ext, mon, cleanVars, cleanup, faults>>

ToCleaner ==
  /\ mon = Absent /\ ~read.hibernated
  /\ Step("unmonitor", IF read.deleting THEN "destroy" ELSE "deploy")
  /\ UNCHANGED <<ownerVars, ext, mon, cleanVars, cleanup, faults>>

\* Creates the ManagedResource, or updates it to the very same content.
Deploy ==
  /\ Step("deploy", "wait")
  /\ mr' = IF mr = "absent" THEN "present" ELSE mr
  /\ healthy' = (healthy /\ mr # "absent")
  /\ cleanup' = IF cleanup = "none" THEN "begun" ELSE cleanup
  /\ UNCHANGED <<ownerVars, ext, mon, daemon, pods, node, faults>>

\* Mutant of Healthy: Deploy without OpWait.
NoWait ==
  /\ Step("wait", "destroy")
  /\ UNCHANGED <<ownerVars, ext, mon, cleanVars, cleanup, faults>>

Healthy ==
  /\ Step("wait", "destroy")
  /\ mr # "absent" /\ healthy
  /\ UNCHANGED <<ownerVars, ext, mon, cleanVars, cleanup, faults>>

\* Mutant of Destroy: the ManagedResource is waited for and never deleted.
DestroyNothing ==
  /\ Step("destroy", "wait_gone")
  /\ UNCHANGED <<ownerVars, ext, mon, cleanVars, cleanup, faults>>

\* Mutant of Destroy: the ManagedResource goes and its objects stay (keepObjects).
DestroyKeepsObjects ==
  /\ Step("destroy", "wait_gone")
  /\ mr' = "absent" /\ healthy' = FALSE
  /\ UNCHANGED <<ownerVars, ext, mon, daemon, pods, node, cleanup, faults>>

Destroy ==
  /\ Step("destroy", "wait_gone")
  /\ mr' = IF mr = "absent" THEN "absent" ELSE "deleting"
  /\ UNCHANGED <<ownerVars, ext, mon, healthy, daemon, pods, node, cleanup, faults>>

\* Mutant of Gone: Destroy without WaitCleanup.
GoneUnwaited ==
  /\ pc = "wait_gone"
  /\ Finish
  /\ UNCHANGED <<ownerVars, mon, cleanVars, faults>>

Gone ==
  /\ pc = "wait_gone" /\ mr = "absent"
  /\ Finish
  /\ UNCHANGED <<ownerVars, mon, cleanVars, faults>>

\* The Shoot's API server is down in hibernation and comes up for a deletion.
ApiServerUp == ~shoot.hibernated \/ shoot.deleting

\* WaitUntilHealthy does not find the ManagedResource any more.
Vanished ==
  /\ Step("wait", "idle") /\ mr = "absent"
  /\ UNCHANGED <<ownerVars, ext, mon, cleanVars, cleanup, faults>>

\* Two minutes passed.  Waits that are only too short count as faults; a wait
\* for what cannot happen while the Shoot sleeps times out for sure.
GiveUp ==
  /\ \/ pc = "wait" /\ ~healthy
     \/ pc = "wait_gone" /\ mr # "absent"
  /\ pc' = "idle"
  /\ UNCHANGED <<ownerVars, ext, mon, cleanVars, read, cleanup>>

Timeout == GiveUp /\ faults < MaxFaults /\ faults' = faults + 1

HibernatedTimeout == GiveUp /\ ~ApiServerUp /\ UNCHANGED faults

\* ForceDelete and Migrate do nothing; the library removes the finalizer.
ForceDelete ==
  /\ pc = "idle" /\ ext = "deleting" /\ shoot.deleting
  /\ ext' = "abandoned" /\ Skip
  /\ UNCHANGED <<ownerVars, mon, cleanVars, callVars, faults>>

Migrate ==
  /\ changes < MaxChanges /\ changes' = changes + 1
  /\ pc = "idle" /\ ext = "active" /\ ~shoot.deleting
  /\ ext' = "abandoned"
  /\ UNCHANGED <<shoot, audit, mon, cleanVars, callVars, cleanup, faults>>

-----------------------------------------------------------------------------
(* gardener-resource-manager and the nodes (external) *)

Apply ==
  /\ mr = "present" /\ ~daemon /\ ApiServerUp
  /\ daemon' = TRUE /\ pods' = {}
  /\ UNCHANGED <<ownerVars, ext, mon, mr, healthy, node, callVars, cleanup, faults>>

\* The init container cleans the node; the pod becomes ready only after that.
CleanNode(n) ==
  /\ daemon /\ n \notin pods /\ node[n] # "none"
  /\ pods' = pods \cup {n}
  /\ node' = [node EXCEPT ![n] = "clean"]
  /\ UNCHANGED <<ownerVars, ext, mon, mr, healthy, daemon, callVars, cleanup, faults>>

ReportHealth ==
  /\ mr = "present" /\ ApiServerUp
  /\ healthy' = (daemon /\ \A n \in Node : node[n] # "none" => n \in pods)
  /\ healthy' # healthy
  /\ UNCHANGED <<ownerVars, ext, mon, mr, daemon, pods, node, callVars, cleanup, faults>>

RemoveManaged ==
  /\ mr = "deleting" /\ ApiServerUp
  /\ mr' = "absent" /\ healthy' = FALSE /\ daemon' = FALSE /\ pods' = {}
  /\ UNCHANGED <<ownerVars, ext, mon, node, callVars, cleanup, faults>>

\* gardener-node-agent applies the OSC with the extension's files and unit.
ConfigureNode(n) ==
  /\ ext = "active" /\ node[n] = "clean"
  /\ node' = [node EXCEPT ![n] = "configured"]
  /\ UNCHANGED <<ownerVars, ext, mon, mr, healthy, daemon, pods, callVars, cleanup, faults>>

-----------------------------------------------------------------------------
(* The owner of the Shoot, and gardenlet (external) *)

Change == changes < MaxChanges /\ changes' = changes + 1

Hibernate ==
  /\ Change /\ ~shoot.hibernated /\ ~shoot.deleting
  /\ shoot' = [shoot EXCEPT !.hibernated = TRUE]
  /\ node' = [n \in Node |-> "none"] /\ pods' = {}
  /\ UNCHANGED <<ext, audit, mon, mr, healthy, daemon, callVars, cleanup, faults>>

\* New nodes come up with the extension's files if the Shoot still asks for it.
WakeUp ==
  /\ Change /\ shoot.hibernated /\ ~shoot.deleting
  /\ shoot' = [shoot EXCEPT !.hibernated = FALSE]
  /\ node' = [n \in Node |-> IF ext = "active" THEN "configured" ELSE "clean"]
  /\ UNCHANGED <<ext, audit, mon, mr, healthy, daemon, pods, callVars, cleanup, faults>>

ToggleAudit ==
  /\ Change /\ ext = "active" /\ audit' = ~audit
  /\ UNCHANGED <<shoot, ext, mon, cleanVars, callVars, cleanup, faults>>

Disable ==
  /\ Change /\ ext = "active" /\ ~shoot.deleting
  /\ ext' = "deleting"
  /\ UNCHANGED <<shoot, audit, mon, cleanVars, callVars, cleanup, faults>>

Enable ==
  /\ Change /\ ext = "absent" /\ ~shoot.deleting
  /\ ext' = "active"
  /\ UNCHANGED <<shoot, audit, mon, cleanVars, callVars, cleanup, faults>>

\* The Shoot is deleted: it loses its nodes, then the Extension.
DeleteShoot ==
  /\ Change /\ ~shoot.deleting
  /\ shoot' = [shoot EXCEPT !.deleting = TRUE]
  /\ UNCHANGED <<ext, audit, mon, cleanVars, callVars, cleanup, faults>>

DeleteWorker ==
  /\ shoot.deleting /\ \E n \in Node : node[n] # "none"
  /\ node' = [n \in Node |-> "none"] /\ pods' = {}
  /\ UNCHANGED <<ownerVars, ext, mon, mr, healthy, daemon, callVars, cleanup, faults>>

DeleteExtension ==
  /\ shoot.deleting /\ ext = "active" /\ \A n \in Node : node[n] = "none"
  /\ ext' = "deleting"
  /\ UNCHANGED <<ownerVars, mon, cleanVars, callVars, cleanup, faults>>

-----------------------------------------------------------------------------
Controller ==
  \/ StartReconcile \/ PutDashboards \/ PutRules \/ PutScrape
  \/ StartDelete \/ Unmonitor \/ SkipHibernated \/ ToCleaner
  \/ Deploy \/ Healthy \/ Vanished \/ Destroy \/ Gone \/ HibernatedTimeout

GRM == Apply \/ ReportHealth \/ RemoveManaged

Owner ==
  \/ Hibernate \/ WakeUp \/ ToggleAudit \/ Disable \/ Enable
  \/ DeleteShoot \/ DeleteWorker \/ DeleteExtension

Next ==
  \/ Controller \/ Restore \/ Fail \/ Timeout \/ ForceDelete \/ Migrate
  \/ GRM \/ Owner
  \/ \E n \in Node : CleanNode(n) \/ ConfigureNode(n)

Spec == Init /\ [][Next]_vars

\* The library retries a failed call with a backoff, GRM keeps working on the
\* ManagedResource, and the kubelet of every node runs the DaemonSet's pod.
FairSpec ==
  /\ Spec
  /\ WF_vars(Controller)
  /\ WF_vars(Apply) /\ WF_vars(ReportHealth) /\ WF_vars(RemoveManaged)
  /\ \A n \in Node : WF_vars(CleanNode(n))
-----------------------------------------------------------------------------
(* Properties *)

\* The values of the state; a pod runs only on a node that exists, a hibernated
\* Shoot has none, and health is only known of a ManagedResource that exists.
TypeOK ==
  /\ shoot \in [hibernated : BOOLEAN, deleting : BOOLEAN]
  /\ ext \in {"absent", "active", "deleting", "abandoned"} /\ audit \in BOOLEAN
  /\ mon \in [Objects -> {"absent", "plain", "audit"}]
  /\ mr \in {"absent", "present", "deleting"}
  /\ healthy \in BOOLEAN /\ daemon \in BOOLEAN
  /\ node \in [Node -> {"none", "clean", "configured"}]
  /\ pods \subseteq {n \in Node : node[n] # "none"}
  /\ shoot.hibernated => \A n \in Node : node[n] = "none"
  /\ mr = "absent" => ~healthy /\ ~daemon
  /\ pc \in {"idle", "dashboards", "rules", "scrape", "unmonitor", "deploy",
             "wait", "destroy", "wait_gone"}
  /\ read \in [hibernated : BOOLEAN, deleting : BOOLEAN, audit : BOOLEAN]
  /\ cleanup \in {"none", "begun", "skipped"}
  /\ faults \in 0..MaxFaults /\ changes \in 0..MaxChanges

\* While the Extension is there to stay or gone, nothing cleans nodes: whatever
\* earlier calls deployed and left behind, a Delete that saw the Shoot awake
\* returns nil only when the ManagedResource and its DaemonSet are gone (lines
\* 123-131).  Excepted is, until the next such Delete, a cleanup that was begun
\* when the Extension went by force or by a call that read a hibernated Shoot.
NoCleanerBesideExtension ==
  ext # "deleting" /\ cleanup # "skipped" => mr = "absent" /\ ~daemon

\* The Extension disappears only when every node that existed was cleaned,
\* through whatever earlier attempts, timeouts, hibernations and stale health
\* reports, unless the Shoot is being deleted or was read as hibernated, and
\* as long as no earlier deletion left its cleanup unfinished.
CleanWhenGone ==
  [][ext = "deleting" /\ ext' = "absent" /\ cleanup # "skipped"
       => \/ read.hibernated \/ shoot.deleting
          \/ \A n \in Node : node[n] # "configured"]_vars

\* A deleted Extension leaves no monitoring object behind, wherever earlier
\* calls of Reconcile and Delete stopped half-way (lines 57, 73).
MonitoringGone ==
  ext = "absent" => mon = Absent

\* Once the owner makes no more changes, the three monitoring objects of an
\* active Extension exist and the alerts are those of its auditConfig, although
\* a call works with the auditConfig it read at its start.
Monitored ==
  <>[](ext = "active" =>
         mon = [dashboards |-> "plain", rules |-> Alerts(audit), scrape |-> "plain"])

\* A deletion of the Extension completes: every retry continues what timed out.
DeletionCompletes ==
  ext = "deleting" ~> ext # "deleting"

\* pkg/controller/lifecycle/actuator.go:116-122: in the deletion of a Shoot, too,
\* "we should still try to destroy the configuration cleaner component, in case it
\* failed to be cleaned up in a previous reconciliation where the extension was
\* deleted before the shoot deletion was triggered".  With a Shoot hibernated in
\* between, line 97 returns before, and the cleaner stays without an Extension.
CleanerGoneWithExtension ==
  ext = "absent" => mr = "absent"
=============================================================================
