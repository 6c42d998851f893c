------------------------------- MODULE Handover -----------------------------
(***************************************************************************)
(* What either half of configure-rsyslog.sh promises of one set of files:  *)
(* a run installs files, and before it ends has the service work with what *)
(* is installed.  A run has no memory beyond its end: what it leaves       *)
(* undone is owed, and only the service's next start (or the next load)    *)
(* settles that.  RsyslogConfigurator implements this specification with   *)
(* 60-audit.conf and with the TLS files, AuditdConfigurator with the audit *)
(* rules.                                                                  *)
(***************************************************************************)
CONSTANTS
  Value,   \* the values the installed files may have
  Empty    \* those that are nothing to hand over

VARIABLES
  installed,  \* the files in the service's directory
  active,     \* the files that the service works with
  working,    \* a run is in progress
  owed        \* the service is still to take over what a run left behind

hvars == <<installed, active, working, owed>>

Settled == owed \/ active = installed \/ installed \in Empty

Init ==
  /\ installed \in Value /\ active = installed
  /\ working = FALSE /\ owed \in BOOLEAN

Begin ==
  /\ ~working /\ working'
  /\ UNCHANGED <<installed, active, owed>>

Install ==
  /\ working /\ installed' \in Value
  /\ UNCHANGED <<active, working, owed>>

\* The service starts, or loads the files; that may be the last step of a run.
Activate ==
  /\ working /\ working' \in BOOLEAN
  /\ active' = installed /\ ~owed'
  /\ UNCHANGED installed

\* A run ends, early or complete, and leaves nothing separate without owing it.
Finish ==
  /\ working /\ ~working' /\ (owed => owed')
  /\ UNCHANGED <<installed, active>>
  /\ Settled'

\* The service stops by itself and waits for a later run to start it.
Stop ==
  /\ owed' = TRUE
  /\ UNCHANGED <<installed, active, working>>

\* The node boots; a service that is not enabled waits for the first run.
Boot ==
  /\ active' = installed /\ working' = FALSE /\ owed' \in BOOLEAN
  /\ UNCHANGED installed

Next == Begin \/ Install \/ Activate \/ Finish \/ Stop \/ Boot

Spec == Init /\ [][Next]_hvars
=============================================================================
