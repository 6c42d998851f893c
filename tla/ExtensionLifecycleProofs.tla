---------------------- MODULE ExtensionLifecycleProofs ----------------------
(***************************************************************************)
(* What holds of ExtensionLifecycle for every set of nodes and every       *)
(* number of faults and changes.                                           *)
(***************************************************************************)
EXTENDS ExtensionLifecycle, TLAPS

Reconciling == {"dashboards", "rules", "scrape"}
Deleting    == {"unmonitor", "deploy", "wait", "destroy", "wait_gone"}

LEMMA InitType == Init => TypeOK
<1> SUFFICES ASSUME Init PROVE TypeOK
  OBVIOUS
<1>1. faults \in 0..MaxFaults /\ changes \in 0..MaxChanges
  BY BoundsOK DEF BoundsOK, Init
<1>2. /\ shoot \in [hibernated : BOOLEAN, deleting : BOOLEAN]
      /\ read \in [hibernated : BOOLEAN, deleting : BOOLEAN, audit : BOOLEAN]
      /\ ~shoot.hibernated
  BY DEF Init
<1>3. mon \in [Objects -> {"absent", "plain", "audit"}]
  BY DEF Init, Absent
<1> QED
  BY <1>1, <1>2, <1>3 DEF Init, TypeOK

LEMMA NextType == TypeOK /\ [Next]_vars => TypeOK'
<1> SUFFICES ASSUME TypeOK, [Next]_vars PROVE TypeOK'
  OBVIOUS
<1>0. /\ changes < MaxChanges => changes + 1 \in 0..MaxChanges
      /\ \A b \in BOOLEAN :
           /\ [shoot EXCEPT !.hibernated = b] \in [hibernated : BOOLEAN, deleting : BOOLEAN]
           /\ [shoot EXCEPT !.hibernated = b].hibernated = b
           /\ [shoot EXCEPT !.deleting = b] \in [hibernated : BOOLEAN, deleting : BOOLEAN]
           /\ [shoot EXCEPT !.deleting = b].hibernated = shoot.hibernated
  BY BoundsOK DEF BoundsOK, TypeOK
<1> USE BoundsOK DEF BoundsOK, TypeOK, Absent, Objects, Alerts, ownerVars, cleanVars, callVars
<1>1. CASE StartReconcile
  BY <1>1 DEF StartReconcile, Start
<1>2. CASE PutDashboards
  BY <1>2 DEF PutDashboards, Step
<1>3. CASE PutRules
  BY <1>3 DEF PutRules, Step
<1>4. CASE PutScrape
  BY <1>4 DEF PutScrape, Step
<1>5. CASE StartDelete
  BY <1>5 DEF StartDelete, Start
<1>6. CASE Unmonitor
  BY <1>6 DEF Unmonitor
<1>7. CASE SkipHibernated
  BY <1>7 DEF SkipHibernated, Finish, Skip
<1>8. CASE ToCleaner
  BY <1>8 DEF ToCleaner, Step
<1>9. CASE Deploy
  BY <1>9 DEF Deploy, Step
<1>10. CASE Healthy
  BY <1>10 DEF Healthy, Step
<1>11. CASE Vanished
  BY <1>11 DEF Vanished, Step
<1>12. CASE Destroy
  BY <1>12 DEF Destroy, Step
<1>13. CASE Gone
  BY <1>13 DEF Gone, Finish, Skip
<1>14. CASE HibernatedTimeout
  BY <1>14 DEF HibernatedTimeout, GiveUp
<1>15. CASE Restore
  BY <1>15 DEF Restore, Start
<1>16. CASE Fail
  BY <1>16 DEF Fail
<1>17. CASE Timeout
  BY <1>17 DEF Timeout, GiveUp
<1>18. CASE ForceDelete
  BY <1>18 DEF ForceDelete, Skip
<1>19. CASE Migrate
  BY <1>19 DEF Migrate
<1>20. CASE Apply
  BY <1>20 DEF Apply, ApiServerUp
<1>21. CASE ReportHealth
  BY <1>21 DEF ReportHealth
<1>22. CASE RemoveManaged
  <2>1. /\ mr' = "absent" /\ ~healthy' /\ ~daemon' /\ pods' = {}
        /\ healthy' \in BOOLEAN /\ daemon' \in BOOLEAN
    BY <1>22 DEF RemoveManaged
  <2>2. UNCHANGED <<ownerVars, ext, mon, node, callVars, cleanup, faults>>
    BY <1>22 DEF RemoveManaged
  <2> QED
    BY <2>1, <2>2
<1>23. CASE Hibernate
  <2>1. shoot' \in [hibernated : BOOLEAN, deleting : BOOLEAN] /\ \A n \in Node : node'[n] = "none"
    BY <1>23, <1>0 DEF Hibernate
  <2>2. changes' \in 0..MaxChanges /\ faults' \in 0..MaxFaults
    BY <1>23, <1>0 DEF Hibernate, Change
  <2>3. node' \in [Node -> {"none", "clean", "configured"}]
    BY <1>23 DEF Hibernate
  <2> QED
    BY <1>23, <2>1, <2>2, <2>3 DEF Hibernate
<1>24. CASE WakeUp
  <2>1. shoot' \in [hibernated : BOOLEAN, deleting : BOOLEAN] /\ ~shoot'.hibernated
    BY <1>24, <1>0 DEF WakeUp
  <2>2. changes' \in 0..MaxChanges /\ faults' \in 0..MaxFaults
    BY <1>24, <1>0 DEF WakeUp, Change
  <2>3. node' \in [Node -> {"none", "clean", "configured"}]
    BY <1>24 DEF WakeUp
  <2> QED
    BY <1>24, <2>1, <2>2, <2>3 DEF WakeUp
<1>25. CASE ToggleAudit
  BY <1>25 DEF ToggleAudit, Change
<1>26. CASE Disable
  BY <1>26 DEF Disable, Change
<1>27. CASE Enable
  BY <1>27 DEF Enable, Change
<1>28. CASE DeleteShoot
  <2>1. shoot' \in [hibernated : BOOLEAN, deleting : BOOLEAN] /\ shoot'.hibernated = shoot.hibernated
    BY <1>28, <1>0 DEF DeleteShoot
  <2>2. changes' \in 0..MaxChanges /\ faults' \in 0..MaxFaults
    BY <1>28, <1>0 DEF DeleteShoot, Change
  <2>3. node' \in [Node -> {"none", "clean", "configured"}]
    BY <1>28 DEF DeleteShoot
  <2> QED
    BY <1>28, <2>1, <2>2, <2>3 DEF DeleteShoot
<1>29. CASE DeleteWorker
  BY <1>29 DEF DeleteWorker
<1>30. CASE DeleteExtension
  BY <1>30 DEF DeleteExtension
<1>31. CASE \E n \in Node : CleanNode(n)
  BY <1>31 DEF CleanNode
<1>32. CASE \E n \in Node : ConfigureNode(n)
  BY <1>32 DEF ConfigureNode
<1>33. CASE UNCHANGED vars
  BY <1>33 DEF vars
<1> QED
  BY <1>1, <1>2, <1>3, <1>4, <1>5, <1>6, <1>7, <1>8, <1>9, <1>10, <1>11,
     <1>12, <1>13, <1>14, <1>15, <1>16, <1>17, <1>18, <1>19, <1>20, <1>21,
     <1>22, <1>23, <1>24, <1>25, <1>26, <1>27, <1>28, <1>29, <1>30, <1>31,
     <1>32, <1>33
  DEF Next, Controller, GRM, Owner

\* Every reachable state is well-typed: pods run on existing nodes only, and
\* health and the DaemonSet exist only beside the ManagedResource.
THEOREM TypeCorrect == Spec => []TypeOK
<1>1. QED
  BY InitType, NextType, PTL DEF Spec

-----------------------------------------------------------------------------
(* A call of the actuator and the Extension it works for.                    *)

CallInv ==
  /\ pc \in Reconciling \cup Deleting \cup {"idle"}
  /\ pc \in Reconciling => ext \in {"active", "deleting"}
  /\ pc \in Deleting => ext = "deleting"
  /\ pc # "idle" /\ read.deleting => shoot.deleting
  /\ ext # "deleting" /\ cleanup # "skipped" => mr = "absent"
  /\ cleanup = "none" => mr = "absent"
  /\ mr = "absent" => ~healthy /\ ~daemon
  /\ ~daemon => pods = {}
  /\ ext = "absent" => mon = Absent
  /\ pc \in {"deploy", "wait", "destroy", "wait_gone"} => mon = Absent

LEMMA CallNext == TypeOK /\ CallInv /\ [Next]_vars => CallInv'
<1> SUFFICES ASSUME TypeOK, CallInv, [Next]_vars PROVE CallInv'
  OBVIOUS
<1> USE DEF TypeOK, CallInv, Reconciling, Deleting, ownerVars, cleanVars, callVars
<1>1. CASE StartReconcile
  BY <1>1 DEF StartReconcile, Start
<1>2. CASE PutDashboards
  BY <1>2 DEF PutDashboards, Step
<1>3. CASE PutRules
  BY <1>3 DEF PutRules, Step
<1>4. CASE PutScrape
  BY <1>4 DEF PutScrape, Step
<1>5. CASE StartDelete
  BY <1>5 DEF StartDelete, Start
<1>6. CASE Unmonitor
  BY <1>6 DEF Unmonitor
<1>7. CASE SkipHibernated
  BY <1>7 DEF SkipHibernated, Finish, Skip
<1>8. CASE ToCleaner
  BY <1>8 DEF ToCleaner, Step
<1>9. CASE Deploy
  BY <1>9 DEF Deploy, Step
<1>10. CASE Healthy
  BY <1>10 DEF Healthy, Step
<1>11. CASE Vanished
  BY <1>11 DEF Vanished, Step
<1>12. CASE Destroy
  BY <1>12 DEF Destroy, Step
<1>13. CASE Gone
  BY <1>13 DEF Gone, Finish, Skip
<1>14. CASE HibernatedTimeout
  BY <1>14 DEF HibernatedTimeout, GiveUp
<1>15. CASE Restore
  BY <1>15 DEF Restore, Start
<1>16. CASE Fail
  BY <1>16 DEF Fail
<1>17. CASE Timeout
  BY <1>17 DEF Timeout, GiveUp
<1>18. CASE ForceDelete
  BY <1>18 DEF ForceDelete, Skip
<1>19. CASE Migrate
  BY <1>19 DEF Migrate
<1>20. CASE Apply
  BY <1>20 DEF Apply, ApiServerUp
<1>21. CASE ReportHealth
  BY <1>21 DEF ReportHealth
<1>22. CASE RemoveManaged
  BY <1>22 DEF RemoveManaged
<1>23. CASE Hibernate
  BY <1>23 DEF Hibernate, Change
<1>24. CASE WakeUp
  BY <1>24 DEF WakeUp, Change
<1>25. CASE ToggleAudit
  BY <1>25 DEF ToggleAudit, Change
<1>26. CASE Disable
  BY <1>26 DEF Disable, Change
<1>27. CASE Enable
  BY <1>27 DEF Enable, Change
<1>28. CASE DeleteShoot
  BY <1>28 DEF DeleteShoot, Change
<1>29. CASE DeleteWorker
  BY <1>29 DEF DeleteWorker
<1>30. CASE DeleteExtension
  BY <1>30 DEF DeleteExtension
<1>31. CASE \E n \in Node : CleanNode(n)
  BY <1>31 DEF CleanNode
<1>32. CASE \E n \in Node : ConfigureNode(n)
  BY <1>32 DEF ConfigureNode
<1>33. CASE UNCHANGED vars
  BY <1>33 DEF vars
<1> QED
  BY <1>1, <1>2, <1>3, <1>4, <1>5, <1>6, <1>7, <1>8, <1>9, <1>10, <1>11,
     <1>12, <1>13, <1>14, <1>15, <1>16, <1>17, <1>18, <1>19, <1>20, <1>21,
     <1>22, <1>23, <1>24, <1>25, <1>26, <1>27, <1>28, <1>29, <1>30, <1>31,
     <1>32, <1>33
  DEF Next, Controller, GRM, Owner

LEMMA CallCorrect == Spec => []CallInv
<1>1. Init => CallInv
  BY DEF Init, CallInv, Reconciling, Deleting
<1> QED
  BY <1>1, CallNext, TypeCorrect, PTL DEF Spec

\* However calls fail, time out and are retried, and whatever earlier ones left
\* behind: a Delete that saw the Shoot awake ends without a cleaner, and there is
\* none until the next Delete deploys it.  A deletion that ends by force or after
\* reading a hibernated Shoot may leave the cleaner that it had begun to use.
THEOREM NoCleanerBesideExtensionAlways == Spec => []NoCleanerBesideExtension
<1>1. CallInv => NoCleanerBesideExtension
  BY DEF CallInv, NoCleanerBesideExtension
<1> QED
  BY <1>1, CallCorrect, PTL

\* A deleted Extension leaves no monitoring object behind.
THEOREM MonitoringGoneAlways == Spec => []MonitoringGone
<1>1. CallInv => MonitoringGone
  BY DEF CallInv, MonitoringGone
<1> QED
  BY <1>1, CallCorrect, PTL

-----------------------------------------------------------------------------
(* Nodes are clean when the Extension goes.                                  *)

CleanInv ==
  ext = "deleting" /\ cleanup # "skipped" =>
    /\ \A n \in pods : node[n] # "configured"
    /\ healthy => \A n \in Node : node[n] # "configured"
    /\ pc \in {"destroy", "wait_gone"} /\ ~read.deleting
         => \A n \in Node : node[n] # "configured"

LEMMA CleanNext == TypeOK /\ CallInv /\ CleanInv /\ [Next]_vars => CleanInv'
<1> SUFFICES ASSUME TypeOK, CallInv, CleanInv, [Next]_vars PROVE CleanInv'
  OBVIOUS
<1> USE DEF TypeOK, CallInv, CleanInv, Reconciling, Deleting, ownerVars, cleanVars, callVars
<1>1. CASE StartReconcile
  BY <1>1 DEF StartReconcile, Start
<1>2. CASE PutDashboards
  BY <1>2 DEF PutDashboards, Step
<1>3. CASE PutRules
  BY <1>3 DEF PutRules, Step
<1>4. CASE PutScrape
  BY <1>4 DEF PutScrape, Step
<1>5. CASE StartDelete
  BY <1>5 DEF StartDelete, Start
<1>6. CASE Unmonitor
  BY <1>6 DEF Unmonitor
<1>7. CASE SkipHibernated
  BY <1>7 DEF SkipHibernated, Finish, Skip
<1>8. CASE ToCleaner
  BY <1>8 DEF ToCleaner, Step
<1>9. CASE Deploy
  BY <1>9 DEF Deploy, Step
<1>10. CASE Healthy
  BY <1>10 DEF Healthy, Step
<1>11. CASE Vanished
  BY <1>11 DEF Vanished, Step
<1>12. CASE Destroy
  BY <1>12 DEF Destroy, Step
<1>13. CASE Gone
  BY <1>13 DEF Gone, Finish, Skip
<1>14. CASE HibernatedTimeout
  BY <1>14 DEF HibernatedTimeout, GiveUp
<1>15. CASE Restore
  BY <1>15 DEF Restore, Start
<1>16. CASE Fail
  BY <1>16 DEF Fail
<1>17. CASE Timeout
  BY <1>17 DEF Timeout, GiveUp
<1>18. CASE ForceDelete
  BY <1>18 DEF ForceDelete, Skip
<1>19. CASE Migrate
  BY <1>19 DEF Migrate
<1>20. CASE Apply
  BY <1>20 DEF Apply, ApiServerUp
<1>21. CASE ReportHealth
  BY <1>21 DEF ReportHealth
<1>22. CASE RemoveManaged
  BY <1>22 DEF RemoveManaged
<1>23. CASE Hibernate
  BY <1>23 DEF Hibernate, Change
<1>24. CASE WakeUp
  BY <1>24 DEF WakeUp, Change
<1>25. CASE ToggleAudit
  BY <1>25 DEF ToggleAudit, Change
<1>26. CASE Disable
  BY <1>26 DEF Disable, Change
<1>27. CASE Enable
  BY <1>27 DEF Enable, Change
<1>28. CASE DeleteShoot
  BY <1>28 DEF DeleteShoot, Change
<1>29. CASE DeleteWorker
  BY <1>29 DEF DeleteWorker
<1>30. CASE DeleteExtension
  BY <1>30 DEF DeleteExtension
<1>31. CASE \E n \in Node : CleanNode(n)
  BY <1>31 DEF CleanNode
<1>32. CASE \E n \in Node : ConfigureNode(n)
  BY <1>32 DEF ConfigureNode
<1>33. CASE UNCHANGED vars
  BY <1>33 DEF vars
<1> QED
  BY <1>1, <1>2, <1>3, <1>4, <1>5, <1>6, <1>7, <1>8, <1>9, <1>10, <1>11,
     <1>12, <1>13, <1>14, <1>15, <1>16, <1>17, <1>18, <1>19, <1>20, <1>21,
     <1>22, <1>23, <1>24, <1>25, <1>26, <1>27, <1>28, <1>29, <1>30, <1>31,
     <1>32, <1>33
  DEF Next, Controller, GRM, Owner

\* The Extension disappears only when every existing node was cleaned, whatever
\* attempts, timeouts, crashes and hibernations came before, unless the Shoot
\* is in deletion, was read as hibernated, or an earlier cleanup is unfinished.
THEOREM CleanWhenGoneAlways == Spec => CleanWhenGone
<1> DEFINE Clean ==
      ext = "deleting" /\ ext' = "absent" /\ cleanup # "skipped"
        => \/ read.hibernated \/ shoot.deleting
           \/ \A n \in Node : node[n] # "configured"
<1>1. Init => CleanInv
  BY DEF Init, CleanInv
<1>2. CallInv /\ CleanInv /\ [Next]_vars => [Clean]_vars
  <2> SUFFICES ASSUME CallInv, CleanInv, Next, ext = "deleting", ext' = "absent"
               PROVE  Clean
    BY DEF vars
  <2>1. CASE Gone
    BY <2>1 DEF Gone, CallInv, CleanInv, Deleting
  <2>2. CASE SkipHibernated
    BY <2>2 DEF SkipHibernated
  <2>3. CASE ~(Gone \/ SkipHibernated)
    BY <2>3 DEF Next, Controller, GRM, Owner, StartReconcile, PutDashboards,
       PutRules, PutScrape, StartDelete, Unmonitor, ToCleaner, Deploy, Healthy,
       Vanished, Destroy, HibernatedTimeout, Timeout, GiveUp, Restore, Fail,
       ForceDelete, Migrate, Apply, ReportHealth, RemoveManaged, Hibernate,
       WakeUp, ToggleAudit, Disable, Enable, DeleteShoot, DeleteWorker,
       DeleteExtension, CleanNode, ConfigureNode
  <2> QED
    BY <2>1, <2>2, <2>3
<1> QED
  BY <1>1, <1>2, CleanNext, CallCorrect, TypeCorrect, PTL DEF Spec, CleanWhenGone
=============================================================================
