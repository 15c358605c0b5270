-------------------------- MODULE SessionLinkProofs -------------------------
(***************************************************************************)
(* The safety of one session's connection, for any endpoints, collectors    *)
(* and number of connections.                                               *)
(*                                                                         *)
(* Inv has one strengthening per property.  OnlyTheLoopsClient ties every   *)
(* open socket to the loop's variable c and to the places of the loop where *)
(* c is dialled and not yet closed.  NudgeIsKept carries the promise of a   *)
(* wake from the moment the endpoint is copied, through the dial, to the    *)
(* sleep.  ReportsAgree relates reportedDown to what the tracker was told.  *)
(***************************************************************************)
EXTENDS SessionLink, TLAPS

OnlyTheLoopsClient ==
    \A i \in open : i = c /\ pc \in {"adopt", "start", "watch", "drop"}

NudgeIsKept ==
    pc \in {"dial", "failed", "backoff"} =>
        /\ dialled # cfg => wake \/ rpc # "idle"
        /\ closed => wake \/ tpc = "nudge"

ReportsAgree ==
    /\ reportedDown => told = "down"
    /\ pc \in {"start", "watch"} => told = "up" /\ ~reportedDown
    /\ pc = "backoff" => reportedDown /\ ~connected
    /\ pc \in {"drop", "pause"} => ~connected
    /\ pc = "pause" => reportedDown

\* Where the loop has a client of its own, and where the session may have it.
HasClient ==
    /\ pc \in {"adopt", "start", "watch", "drop"} => c # None
    /\ client # None => pc \in {"start", "watch"}

Inv == TypeOK /\ HasClient /\ OnlyTheLoopsClient /\ NudgeIsKept /\ ReportsAgree

USE CfgsAssumption, CollectorsAssumption, NoneAssumption

\* A session starts with no connection and nothing reported.
LEMMA InitInv == Init => Inv
  BY DEF Init, Inv, TypeOK, HasClient, OnlyTheLoopsClient, NudgeIsKept, ReportsAgree

\* The types, and that the loop has its client, are kept by every step.
LEMMA TypeStep == (TypeOK /\ HasClient) /\ [Next]_vars => (TypeOK' /\ HasClient')
<1> SUFFICES ASSUME (TypeOK /\ HasClient), [Next]_vars PROVE (TypeOK' /\ HasClient')
  OBVIOUS
<1> USE DEF TypeOK, HasClient, session, conns, local, reconf, teardown
<1>1. CASE Turn
  BY <1>1 DEF Turn
<1>2. CASE Dial
  BY <1>2 DEF Dial
<1>3. CASE Failed
  BY <1>3, ZenonT(60) DEF Failed
<1>4. CASE Backoff
  <2>1. wake' \in BOOLEAN
    BY <1>4, Zenon DEF Backoff
  <2>2. pc' \in {"top", "gone"}
    BY <1>4, Zenon DEF Backoff
  <2> QED
    BY <1>4, <2>1, <2>2 DEF Backoff
<1>5. CASE Adopt
  <2>1. CASE closed
    BY <1>5, <2>1 DEF Adopt, Close
  <2>2. CASE ~closed
    BY <1>5, <2>2 DEF Adopt
  <2> QED
    BY <2>1, <2>2
<1>6. CASE Start
  BY <1>6 DEF Start
<1>7. CASE WaitUntilDown
  BY <1>7, ZenonT(60) DEF WaitUntilDown
<1>8. CASE Drop
  BY <1>8 DEF Drop, Close
<1>9. CASE Pause
  BY <1>9 DEF Pause
<1>10. CASE ReconfigureClose
  BY <1>10 DEF ReconfigureClose, Close
<1>11. CASE ReconfigureNudge
  BY <1>11 DEF ReconfigureNudge, Nudge
<1>12. CASE IdleOut
  BY <1>12 DEF IdleOut
<1>13. CASE IdleOutNudge
  BY <1>13 DEF IdleOutNudge, Nudge
<1>14. CASE IdleOutStop
  BY <1>14 DEF IdleOutStop
<1>15. CASE IdleOutClose
  BY <1>15 DEF IdleOutClose, Close
<1>16. CASE UNCHANGED vars
  BY <1>16 DEF vars
<1>17. ASSUME NEW i \in Clients, LinkFails(i) PROVE (TypeOK' /\ HasClient')
  BY <1>17 DEF LinkFails
<1>18. ASSUME NEW new \in Cfgs, Reconfigure(new) PROVE (TypeOK' /\ HasClient')
  <2>1. cfg' = new /\ client' = None /\ connected' = FALSE /\ rc' = client /\ rpc' = "close"
    BY <1>18 DEF Reconfigure
  <2>2. UNCHANGED <<closed, wake, conns, running, told, pc, local, teardown>>
    BY <1>18 DEF Reconfigure
  <2>3. client' \in {c', None} /\ ~connected'
    BY <2>1
  <2>4. cfg' \in Cfgs /\ client' \in Clients \cup {None} /\ connected' \in BOOLEAN
    BY <1>18, <2>1
  <2>5. rc' \in Clients \cup {None} /\ rpc' \in {"idle", "close", "nudge"}
    BY <2>1
  <2> QED
    BY <2>1, <2>2, <2>3, <2>4, <2>5
<1> QED
  BY <1>1, <1>2, <1>3, <1>4, <1>5, <1>6, <1>7, <1>8, <1>9, <1>10, <1>11, <1>12, <1>13, <1>14, <1>15, <1>16, <1>17, <1>18 DEF Next, Loop, Others, Finished

\* No step opens a socket but Dial, and the loop is the only one that dials.
LEMMA ClientStep == (TypeOK /\ HasClient /\ OnlyTheLoopsClient) /\ [Next]_vars => OnlyTheLoopsClient'
<1> SUFFICES ASSUME (TypeOK /\ HasClient /\ OnlyTheLoopsClient), [Next]_vars PROVE OnlyTheLoopsClient'
  OBVIOUS
<1> USE DEF TypeOK, HasClient, session, conns, local, reconf, teardown, OnlyTheLoopsClient
<1>1. CASE Turn
  BY <1>1 DEF Turn
<1>2. CASE Dial
  BY <1>2 DEF Dial
<1>3. CASE Failed
  BY <1>3, ZenonT(60) DEF Failed
<1>4. CASE Backoff
  BY <1>4 DEF Backoff
<1>5. CASE Adopt
  BY <1>5 DEF Adopt, Close
<1>6. CASE Start
  BY <1>6 DEF Start
<1>7. CASE WaitUntilDown
  BY <1>7, ZenonT(60) DEF WaitUntilDown
<1>8. CASE Drop
  BY <1>8 DEF Drop, Close
<1>9. CASE Pause
  BY <1>9 DEF Pause
<1>10. CASE ReconfigureClose
  BY <1>10 DEF ReconfigureClose, Close
<1>11. CASE ReconfigureNudge
  BY <1>11 DEF ReconfigureNudge, Nudge
<1>12. CASE IdleOut
  BY <1>12 DEF IdleOut
<1>13. CASE IdleOutNudge
  BY <1>13 DEF IdleOutNudge, Nudge
<1>14. CASE IdleOutStop
  BY <1>14 DEF IdleOutStop
<1>15. CASE IdleOutClose
  BY <1>15 DEF IdleOutClose, Close
<1>16. CASE UNCHANGED vars
  BY <1>16 DEF vars
<1>17. ASSUME NEW i \in Clients, LinkFails(i) PROVE OnlyTheLoopsClient'
  BY <1>17 DEF LinkFails
<1>18. ASSUME NEW new \in Cfgs, Reconfigure(new) PROVE OnlyTheLoopsClient'
  BY <1>18 DEF Reconfigure
<1> QED
  BY <1>1, <1>2, <1>3, <1>4, <1>5, <1>6, <1>7, <1>8, <1>9, <1>10, <1>11, <1>12, <1>13, <1>14, <1>15, <1>16, <1>17, <1>18 DEF Next, Loop, Others, Finished

\* The token is taken only by a loop that then looks at the session again.
LEMMA NudgeStep == (TypeOK /\ NudgeIsKept) /\ [Next]_vars => NudgeIsKept'
<1> SUFFICES ASSUME (TypeOK /\ NudgeIsKept), [Next]_vars PROVE NudgeIsKept'
  OBVIOUS
<1> USE DEF TypeOK, HasClient, session, conns, local, reconf, teardown, NudgeIsKept
<1>1. CASE Turn
  BY <1>1 DEF Turn
<1>2. CASE Dial
  BY <1>2 DEF Dial
<1>3. CASE Failed
  BY <1>3, ZenonT(60) DEF Failed
<1>4. CASE Backoff
  BY <1>4 DEF Backoff
<1>5. CASE Adopt
  BY <1>5 DEF Adopt, Close
<1>6. CASE Start
  BY <1>6 DEF Start
<1>7. CASE WaitUntilDown
  BY <1>7, ZenonT(60) DEF WaitUntilDown
<1>8. CASE Drop
  BY <1>8 DEF Drop, Close
<1>9. CASE Pause
  BY <1>9 DEF Pause
<1>10. CASE ReconfigureClose
  BY <1>10 DEF ReconfigureClose, Close
<1>11. CASE ReconfigureNudge
  BY <1>11 DEF ReconfigureNudge, Nudge
<1>12. CASE IdleOut
  BY <1>12 DEF IdleOut
<1>13. CASE IdleOutNudge
  BY <1>13 DEF IdleOutNudge, Nudge
<1>14. CASE IdleOutStop
  BY <1>14 DEF IdleOutStop
<1>15. CASE IdleOutClose
  BY <1>15 DEF IdleOutClose, Close
<1>16. CASE UNCHANGED vars
  BY <1>16 DEF vars
<1>17. ASSUME NEW i \in Clients, LinkFails(i) PROVE NudgeIsKept'
  BY <1>17 DEF LinkFails
<1>18. ASSUME NEW new \in Cfgs, Reconfigure(new) PROVE NudgeIsKept'
  BY <1>18 DEF Reconfigure
<1> QED
  BY <1>1, <1>2, <1>3, <1>4, <1>5, <1>6, <1>7, <1>8, <1>9, <1>10, <1>11, <1>12, <1>13, <1>14, <1>15, <1>16, <1>17, <1>18 DEF Next, Loop, Others, Finished

\* What the tracker was told follows the loop.
LEMMA ReportStep == (TypeOK /\ ReportsAgree) /\ [Next]_vars => ReportsAgree'
<1> SUFFICES ASSUME (TypeOK /\ ReportsAgree), [Next]_vars PROVE ReportsAgree'
  OBVIOUS
<1> USE DEF TypeOK, HasClient, session, conns, local, reconf, teardown, ReportsAgree
<1>1. CASE Turn
  BY <1>1 DEF Turn
<1>2. CASE Dial
  BY <1>2 DEF Dial
<1>3. CASE Failed
  BY <1>3, ZenonT(60) DEF Failed
<1>4. CASE Backoff
  BY <1>4 DEF Backoff
<1>5. CASE Adopt
  BY <1>5 DEF Adopt, Close
<1>6. CASE Start
  BY <1>6 DEF Start
<1>7. CASE WaitUntilDown
  BY <1>7, ZenonT(60) DEF WaitUntilDown
<1>8. CASE Drop
  BY <1>8 DEF Drop, Close
<1>9. CASE Pause
  BY <1>9 DEF Pause
<1>10. CASE ReconfigureClose
  BY <1>10 DEF ReconfigureClose, Close
<1>11. CASE ReconfigureNudge
  BY <1>11 DEF ReconfigureNudge, Nudge
<1>12. CASE IdleOut
  BY <1>12 DEF IdleOut
<1>13. CASE IdleOutNudge
  BY <1>13 DEF IdleOutNudge, Nudge
<1>14. CASE IdleOutStop
  BY <1>14 DEF IdleOutStop
<1>15. CASE IdleOutClose
  BY <1>15 DEF IdleOutClose, Close
<1>16. CASE UNCHANGED vars
  BY <1>16 DEF vars
<1>17. ASSUME NEW i \in Clients, LinkFails(i) PROVE ReportsAgree'
  BY <1>17 DEF LinkFails
<1>18. ASSUME NEW new \in Cfgs, Reconfigure(new) PROVE ReportsAgree'
  BY <1>18 DEF Reconfigure
<1> QED
  BY <1>1, <1>2, <1>3, <1>4, <1>5, <1>6, <1>7, <1>8, <1>9, <1>10, <1>11, <1>12, <1>13, <1>14, <1>15, <1>16, <1>17, <1>18 DEF Next, Loop, Others, Finished

\* Together they are inductive.
LEMMA InvHolds == Spec => []Inv
<1>1. Inv /\ [Next]_vars => Inv'
  BY TypeStep, ClientStep, NudgeStep, ReportStep DEF Inv
<1> QED
  BY InitInv, <1>1, PTL DEF Spec

\* Type correctness of the session and its loop, for any endpoints and clients.
THEOREM TypeCorrect == Spec => []TypeOK
<1>1. Inv => TypeOK
  BY DEF Inv
<1> QED
  BY InvHolds, <1>1, PTL

\* connectLoop, Reconfigure and idleOut: never two sockets open at once.
THEOREM OneConnectionHolds == Spec => []OneConnection
<1>1. Inv => OneConnection
  BY DEF Inv, OnlyTheLoopsClient, OneConnection
<1> QED
  BY InvHolds, <1>1, PTL

\* connectLoop, Reconfigure and idleOut: whoever takes the client first, a session
\* that has ended has closed it.
THEOREM NoOrphanConnectionHolds == Spec => []NoOrphanConnection
<1>1. Inv => NoOrphanConnection
  BY DEF Inv, OnlyTheLoopsClient, NoOrphanConnection, Ended
<1> QED
  BY InvHolds, <1>1, PTL

\* nudge and sleepOrWake: no wake is lost between the dial and the sleep.
THEOREM ParkedLoopIsWokenHolds == Spec => []ParkedLoopIsWoken
<1>1. Inv => ParkedLoopIsWoken
  BY DEF Inv, NudgeIsKept, ParkedLoopIsWoken
<1> QED
  BY InvHolds, <1>1, PTL

\* connectLoop's transition reports: one outage, one report, and none missed.
THEOREM OutageIsReportedHolds == Spec => []OutageIsReported
<1>1. Inv => OutageIsReported
  BY DEF Inv, ReportsAgree, OutageIsReported
<1> QED
  BY InvHolds, <1>1, PTL
=============================================================================
