---------------------- MODULE RsyslogConfiguratorProofs ---------------------
(***************************************************************************)
(* What holds of RsyslogConfigurator for every set of files, every         *)
(* configuration the webhook may render, and every number of faults and    *)
(* updates.                                                                *)
(***************************************************************************)
EXTENDS RsyslogConfigurator, TLAPS

LEMMA InitType == Init => TypeOK
<1> SUFFICES ASSUME Init PROVE TypeOK
  OBVIOUS
<1>1. updates \in 0..MaxUpdates /\ faults \in 0..MaxFaults
  BY ConstantsOK DEF ConstantsOK, Init
<1>2. live \in [conf : Conf \cup {None}, tls : SUBSET File]
  BY DEF Init, Files
<1> QED
  BY <1>1, <1>2 DEF Init, TypeOK, Idle

LEMMA NextType == TypeOK /\ [Next]_vars => TypeOK'
<1> SUFFICES ASSUME TypeOK, [Next]_vars PROVE TypeOK'
  OBVIOUS
<1>0. /\ Files \in [conf : Conf \cup {None}, tls : SUBSET File]
      /\ desired.conf \in Conf /\ desired.tls \subseteq File
      /\ \A f \in File : f[1] \in Name
  BY ConstantsOK DEF ConstantsOK, TypeOK, Files, Setup, File
<1>c. /\ faults < MaxFaults => faults + 1 \in 0..MaxFaults
      /\ updates < MaxUpdates => updates + 1 \in 0..MaxUpdates
  BY ConstantsOK DEF ConstantsOK, TypeOK
<1>n. Names(oscTls) \subseteq Name
  BY <1>0 DEF Names, TypeOK
<1> USE <1>0, <1>c DEF TypeOK, Idle, oscVars, installed, serviceVars, runVars
<1>1. CASE Begin
  BY <1>1 DEF Begin
<1>2. CASE InstallConf
  BY <1>2 DEF InstallConf, End
<1>3. CASE CompareTls
  BY <1>3 DEF CompareTls
<1>4. CASE RemoveTls
  BY <1>4 DEF RemoveTls
<1>5. CASE ClearTls
  BY <1>5 DEF ClearTls
<1>6. CASE ExpandTls
  BY <1>6, <1>n DEF ExpandTls, End
<1>7. CASE CopyTls
  BY <1>7 DEF CopyTls
<1>8. CASE CopiedTls
  BY <1>8 DEF CopiedTls, End
<1>9. CASE Service
  BY <1>9 DEF Service
<1>10. CASE ServiceFails
  BY <1>10 DEF ServiceFails
<1>11. CASE NodeAgent
  BY <1>11 DEF NodeAgent
<1>12. CASE Render
  BY <1>12 DEF Render
<1>13. CASE Interrupt
  BY <1>13 DEF Interrupt, End
<1>14. CASE RsyslogDies
  BY <1>14 DEF RsyslogDies
<1>15. CASE Reboot
  BY <1>15 DEF Reboot
<1>16. CASE UNCHANGED vars
  BY <1>16 DEF vars
<1> QED
  BY <1>1, <1>2, <1>3, <1>4, <1>5, <1>6, <1>7, <1>8, <1>9, <1>10, <1>11, <1>12,
     <1>13, <1>14, <1>15, <1>16 DEF Next, Script

\* The state keeps its types: a pending restart belongs to a run in progress,
\* and files are left to copy only during a copy.
THEOREM TypeCorrect == Spec => []TypeOK
<1> QED
  BY InitType, NextType, PTL DEF Spec

-----------------------------------------------------------------------------
(* Whatever separates the files that rsyslog works with from those that are  *)
(* installed is on record: in the flag of the run, in the statement that the *)
(* run is at, or in lost.                                                    *)

ConfInv == ~lost /\ ~restart /\ running => live.conf = conf

TlsInv ==
  ~lost /\ ~restart /\ running /\ tls # {} /\ pc \notin {"remove", "clear", "copy"}
    => live.tls = tls

LEMMA ConfPreserved == TypeOK /\ ConfInv /\ [Next]_vars => ConfInv'
<1> SUFFICES ASSUME TypeOK, ConfInv, [Next]_vars PROVE ConfInv'
  OBVIOUS
<1> USE DEF ConfInv, TypeOK, oscVars, installed, serviceVars, runVars
<1>1. CASE Service
  <2>1. CASE restart \/ ~running
    <3>1. conf' = conf /\ live'.conf = conf
      BY <1>1, <2>1 DEF Service, Files
    <3> QED
      BY <3>1
  <2>2. CASE ~restart /\ running
    BY <1>1, <2>2 DEF Service
  <2> QED
    BY <2>1, <2>2
<1>2. CASE InstallConf
  BY <1>2 DEF InstallConf, End
<1>3. CASE ExpandTls \/ CopiedTls \/ Interrupt
  BY <1>3 DEF ExpandTls, CopiedTls, Interrupt, End
<1>4. CASE Begin \/ CompareTls \/ RemoveTls \/ ClearTls \/ CopyTls
  BY <1>4 DEF Begin, CompareTls, RemoveTls, ClearTls, CopyTls
<1>5. CASE ServiceFails \/ RsyslogDies \/ NodeAgent \/ Render
  BY <1>5 DEF ServiceFails, RsyslogDies, NodeAgent, Render
<1>6. CASE UNCHANGED vars
  BY <1>6 DEF vars
<1>7. CASE Reboot
  <2>1. conf' = conf /\ live'.conf = conf
    BY <1>7 DEF Reboot, Files
  <2> QED
    BY <2>1
<1> QED
  BY <1>1, <1>2, <1>3, <1>4, <1>5, <1>6, <1>7 DEF Next, Script

LEMMA TlsPreserved == TypeOK /\ TlsInv /\ [Next]_vars => TlsInv'
<1> SUFFICES ASSUME TypeOK, TlsInv, [Next]_vars PROVE TlsInv'
  OBVIOUS
<1> USE DEF TlsInv, TypeOK, Idle, oscVars, installed, serviceVars, runVars
<1>1. CASE Service
  <2>1. CASE restart \/ ~running
    <3>1. tls' = tls /\ live'.tls = tls
      BY <1>1, <2>1 DEF Service, Files
    <3> QED
      BY <3>1
  <2>2. CASE ~restart /\ running
    BY <1>1, <2>2 DEF Service
  <2> QED
    BY <2>1, <2>2
<1>2. CASE InstallConf
  BY <1>2 DEF InstallConf, End
<1>3. CASE ExpandTls \/ CopiedTls \/ Interrupt
  BY <1>3 DEF ExpandTls, CopiedTls, Interrupt, End
<1>4. CASE Begin \/ CompareTls
  BY <1>4 DEF Begin, CompareTls
<1>5. CASE RemoveTls \/ ClearTls \/ CopyTls
  BY <1>5 DEF RemoveTls, ClearTls, CopyTls
<1>6. CASE ServiceFails \/ RsyslogDies \/ NodeAgent \/ Render
  BY <1>6 DEF ServiceFails, RsyslogDies, NodeAgent, Render
<1>7. CASE UNCHANGED vars
  BY <1>7 DEF vars
<1>8. CASE Reboot
  <2>1. tls' = tls /\ live'.tls = tls
    BY <1>8 DEF Reboot, Files
  <2> QED
    BY <2>1
<1> QED
  BY <1>1, <1>2, <1>3, <1>4, <1>5, <1>6, <1>7, <1>8 DEF Next, Script

\* A complete run leaves rsyslog with the 60-audit.conf that is installed,
\* unless an earlier run was cut short between a copy and the restart.
THEOREM RunsInstalledConfAlways == Spec => []RunsInstalledConf
<1>1. Init => ConfInv
  BY DEF Init, ConfInv, Files
<1>2. TypeOK /\ ConfInv => RunsInstalledConf
  BY DEF TypeOK, Idle, ConfInv, RunsInstalledConf
<1> QED
  BY <1>1, <1>2, ConfPreserved, TypeCorrect, PTL DEF Spec

\* The same for the TLS files, as long as there are any.
THEOREM RunsInstalledTlsAlways == Spec => []RunsInstalledTls
<1>1. Init => TlsInv
  BY DEF Init, TlsInv, Files
<1>2. TypeOK /\ TlsInv => RunsInstalledTls
  BY DEF TypeOK, Idle, TlsInv, RunsInstalledTls
<1> QED
  BY <1>1, <1>2, TlsPreserved, TypeCorrect, PTL DEF Spec

-----------------------------------------------------------------------------
(* Every step of the script and its surroundings is a step of the abstract   *)
(* handover, or leaves its variables alone.                                  *)

LEMMA ConfStep ==
  TypeOK /\ ConfInv /\ ConfInv' /\ TypeOK' /\ [Next]_vars
    => [ConfHandover!Next]_(ConfHandover!hvars)
<1> SUFFICES ASSUME TypeOK, ConfInv, ConfInv', TypeOK', [Next]_vars
             PROVE  ConfHandover!Next \/ UNCHANGED ConfHandover!hvars
  OBVIOUS
<1> USE DEF TypeOK, Idle, oscVars, installed, serviceVars, runVars, ConfHandover!hvars
<1>s. pc' \in Idle => ConfHandover!Settled'
  BY DEF ConfInv, ConfHandover!Settled
<1>1. CASE Begin
  <2>1. ConfHandover!Begin
    BY <1>1 DEF Begin, ConfHandover!Begin
  <2> QED
    BY <2>1 DEF ConfHandover!Next
<1>2. CASE InstallConf
  <2>1. CASE oscConf # None
    <3>1. ConfHandover!Install
      BY <1>2, <2>1 DEF InstallConf, ConfHandover!Install
    <3> QED
      BY <3>1 DEF ConfHandover!Next
  <2>2. CASE oscConf = None
    <3>1. ConfHandover!Finish
      BY <1>2, <2>2, <1>s DEF InstallConf, End, ConfHandover!Finish
    <3> QED
      BY <3>1 DEF ConfHandover!Next
  <2> QED
    BY <2>1, <2>2
<1>3. CASE ExpandTls \/ CopiedTls \/ Interrupt
  <2>1. CASE pc' = "failed"
    <3>1. ConfHandover!Finish
      BY <1>3, <2>1, <1>s DEF ExpandTls, CopiedTls, Interrupt, End, ConfHandover!Finish
    <3> QED
      BY <3>1 DEF ConfHandover!Next
  <2>2. CASE pc' # "failed"
    BY <1>3, <2>2 DEF ExpandTls, CopiedTls, Interrupt, End
  <2> QED
    BY <2>1, <2>2
<1>4. CASE Service
  <2>1. CASE restart \/ ~running
    <3>1. live'.conf = conf
      BY <1>4, <2>1 DEF Service, Files
    <3>2. ConfHandover!Activate
      BY <1>4, <2>1, <3>1 DEF Service, ConfHandover!Activate
    <3> QED
      BY <3>2 DEF ConfHandover!Next
  <2>2. CASE ~restart /\ running
    <3>1. ConfHandover!Finish
      BY <1>4, <2>2, <1>s DEF Service, ConfHandover!Finish
    <3> QED
      BY <3>1 DEF ConfHandover!Next
  <2> QED
    BY <2>1, <2>2
<1>5. CASE ServiceFails
  <2>1. ConfHandover!Finish
    BY <1>5, <1>s DEF ServiceFails, ConfHandover!Finish
  <2> QED
    BY <2>1 DEF ConfHandover!Next
<1>6. CASE RsyslogDies
  <2>1. ConfHandover!Stop
    BY <1>6 DEF RsyslogDies, ConfHandover!Stop
  <2> QED
    BY <2>1 DEF ConfHandover!Next
<1>7. CASE Reboot
  <2>1. live'.conf = conf
    BY <1>7 DEF Reboot, Files
  <2>2. ConfHandover!Boot
    BY <1>7, <2>1 DEF Reboot, ConfHandover!Boot
  <2> QED
    BY <2>2 DEF ConfHandover!Next
<1>8. CASE CompareTls \/ RemoveTls \/ ClearTls \/ CopyTls \/ NodeAgent \/ Render
  BY <1>8 DEF CompareTls, RemoveTls, ClearTls, CopyTls, NodeAgent, Render
<1>9. CASE UNCHANGED vars
  BY <1>9 DEF vars
<1> QED
  BY <1>1, <1>2, <1>3, <1>4, <1>5, <1>6, <1>7, <1>8, <1>9 DEF Next, Script

LEMMA TlsStep ==
  TypeOK /\ TlsInv /\ TlsInv' /\ TypeOK' /\ [Next]_vars
    => [TlsHandover!Next]_(TlsHandover!hvars)
<1> SUFFICES ASSUME TypeOK, TlsInv, TlsInv', TypeOK', [Next]_vars
             PROVE  TlsHandover!Next \/ UNCHANGED TlsHandover!hvars
  OBVIOUS
<1> USE DEF TypeOK, Idle, oscVars, installed, serviceVars, runVars, TlsHandover!hvars
<1>s. pc' \in Idle => TlsHandover!Settled'
  BY DEF TlsInv, TlsHandover!Settled
<1>1. CASE Begin
  <2>1. TlsHandover!Begin
    BY <1>1 DEF Begin, TlsHandover!Begin
  <2> QED
    BY <2>1 DEF TlsHandover!Next
<1>2. CASE RemoveTls \/ ClearTls \/ CopyTls
  <2>1. TlsHandover!Install
    BY <1>2 DEF RemoveTls, ClearTls, CopyTls, TlsHandover!Install
  <2> QED
    BY <2>1 DEF TlsHandover!Next
<1>3. CASE InstallConf \/ ExpandTls \/ CopiedTls \/ Interrupt
  <2>1. CASE pc' = "failed"
    <3>1. TlsHandover!Finish
      BY <1>3, <2>1, <1>s
      DEF InstallConf, ExpandTls, CopiedTls, Interrupt, End, TlsHandover!Finish
    <3> QED
      BY <3>1 DEF TlsHandover!Next
  <2>2. CASE pc' # "failed"
    BY <1>3, <2>2 DEF InstallConf, ExpandTls, CopiedTls, Interrupt, End
  <2> QED
    BY <2>1, <2>2
<1>4. CASE Service
  <2>1. CASE restart \/ ~running
    <3>1. live'.tls = tls
      BY <1>4, <2>1 DEF Service, Files
    <3>2. TlsHandover!Activate
      BY <1>4, <2>1, <3>1 DEF Service, TlsHandover!Activate
    <3> QED
      BY <3>2 DEF TlsHandover!Next
  <2>2. CASE ~restart /\ running
    <3>1. TlsHandover!Finish
      BY <1>4, <2>2, <1>s DEF Service, TlsHandover!Finish
    <3> QED
      BY <3>1 DEF TlsHandover!Next
  <2> QED
    BY <2>1, <2>2
<1>5. CASE ServiceFails
  <2>1. TlsHandover!Finish
    BY <1>5, <1>s DEF ServiceFails, TlsHandover!Finish
  <2> QED
    BY <2>1 DEF TlsHandover!Next
<1>6. CASE RsyslogDies
  <2>1. TlsHandover!Stop
    BY <1>6 DEF RsyslogDies, TlsHandover!Stop
  <2> QED
    BY <2>1 DEF TlsHandover!Next
<1>7. CASE Reboot
  <2>1. live'.tls = tls
    BY <1>7 DEF Reboot, Files
  <2>2. TlsHandover!Boot
    BY <1>7, <2>1 DEF Reboot, TlsHandover!Boot
  <2> QED
    BY <2>2 DEF TlsHandover!Next
<1>8. CASE CompareTls \/ NodeAgent \/ Render
  BY <1>8 DEF CompareTls, NodeAgent, Render
<1>9. CASE UNCHANGED vars
  BY <1>9 DEF vars
<1> QED
  BY <1>1, <1>2, <1>3, <1>4, <1>5, <1>6, <1>7, <1>8, <1>9 DEF Next, Script

\* The rsyslog half implements the handover of 60-audit.conf and that of the TLS
\* files, for any files, any number of faults and any changes of the OSC.
THEOREM HandsOverAlways == Spec => HandsOver
<1>1. Init => ConfInv /\ TlsInv
  BY DEF Init, ConfInv, TlsInv, Files
<1>2. Init => ConfHandover!Init
  BY DEF Init, Idle, Files, ConfHandover!Init
<1>3. Init => TlsHandover!Init
  BY DEF Init, Idle, Files, TlsHandover!Init
<1>4. Spec => [](TypeOK /\ ConfInv /\ TlsInv)
  BY <1>1, ConfPreserved, TlsPreserved, TypeCorrect, PTL DEF Spec
<1>5. Spec => ConfHandover!Spec
  BY <1>2, <1>4, ConfStep, PTL DEF Spec, ConfHandover!Spec
<1>6. Spec => TlsHandover!Spec
  BY <1>3, <1>4, TlsStep, PTL DEF Spec, TlsHandover!Spec
<1> QED
  BY <1>5, <1>6 DEF HandsOver
=============================================================================
