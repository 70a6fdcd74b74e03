--------------------------- MODULE JobEngineProofs ----------------------------
(***************************************************************************)
(* Proofs about JobEngine, for any set of jobs, requests and restarts.     *)
(* Inv strengthens the invariants of the runs until a step preserves it:   *)
(*   Slot      who stands where: the engine drives a job iff it is busy    *)
(*             and nothing runs while the table is being recovered,        *)
(*   Wanted    which state a pending set_state can be about to write,      *)
(*   AtRest    the row of a job that was just picked, or is about to be    *)
(*             let go of, is not in flight,                                *)
(*   Fresh     up to its body a driven job was never started, and a job    *)
(*             that was is neither waiting nor unborn.                     *)
(***************************************************************************)
EXTENDS JobEngine, TLAPS

Slot ==
    /\ pc = "idle" <=> drv = NoJob
    /\ app = "recovering" => pc = "idle"
    /\ \A r \in Requests : rpc[r] # "idle" => rjob[r] \in Jobs

\* The states try_drive writes before the body, and at or after its end.
Before == {"scheduled", "preparing", "blocked", "running"}
Ending == {"post", "completed", "cancelled"}

Wanted == pc \in {"check", "write"} => next \in Before \cup Ending

AtRest == pc \in {"picked", "target", "leave"} => row[drv] \notin InFlight

\* Steps of a drive at which its body is still to come.
PreBody ==
    \/ pc \in {"picked", "target", "bail1", "plan", "bail2", "load", "bail3"}
    \/ pc \in {"check", "write"} /\ next \in Before

Fresh ==
    /\ PreBody => starts[drv] = 0
    /\ \A j \in Jobs : starts[j] > 0 => row[j] \notin {"unborn", "queued", "blocked"}

Inv ==
    /\ TypeOK /\ Slot /\ Wanted
    /\ SenderTracksDrive
    /\ AtRest /\ InFlightIsDriven
    /\ Fresh /\ BodyAtMostOnce

-------------------------------------------------------------------------------
\* Where try_drive stands after each write: what the proofs need of After.
LEMMA AfterStates ==
    /\ After("scheduled") = "bail1"
    /\ After("preparing") \in {"bail2", "bail3"}
    /\ After("running") = "body"
    /\ After("post") = "check"
    /\ \A s \in {"blocked", "completed", "cancelled"} : After(s) = "leave"
  BY Zenon DEF After

\* The error path can always fail a job in flight.
LEMMA FlightCanFail == \A s \in InFlight : CanTransition(s, "failed")
  BY Zenon DEF InFlight, CanTransition, Successors

\* The invariant holds when the application starts.
LEMMA InitInv == Init => Inv
  BY JobsAssumption, CrashesAssumption
  DEF Init, Inv, TypeOK, Slot, Wanted, SenderTracksDrive, AtRest, InFlightIsDriven,
      Fresh, PreBody, BodyAtMostOnce, Listening, EnginePC, RequestPC, Flags,
      Rows, JobStates, Absent, Waiting, InFlight, Terminal

\* Every action keeps the types, the slot and the pending write in order.
LEMMA ControlStep == Inv /\ [Next]_vars => (TypeOK /\ Slot /\ Wanted)'
<1> SUFFICES ASSUME Inv, [Next]_vars
             PROVE  (TypeOK /\ Slot /\ Wanted)'
  OBVIOUS
<1> USE JobsAssumption, CrashesAssumption
    DEF Inv, TypeOK, Slot, Wanted, Before, Ending, EnginePC, RequestPC, Flags,
        Rows, JobStates, Absent, Waiting, InFlight, Terminal,
        engine, request, Goto, To, RGoto, Reply
<1>1. ASSUME NEW j \in Jobs, Pick(j) PROVE (TypeOK /\ Slot /\ Wanted)'
  BY <1>1 DEF Pick, NextRunnable
<1>2. CASE Register
  BY <1>2 DEF Register
<1>3. CASE ResolveTarget
  BY <1>3 DEF ResolveTarget
<1>4. CASE SetStateGet
  BY <1>4 DEF SetStateGet
<1>5. CASE SetStateUpdate
  BY <1>5, AfterStates DEF SetStateUpdate
<1>6. CASE BailIfCancelled
  BY <1>6 DEF BailIfCancelled
<1>7. CASE Plan
  BY <1>7 DEF Plan, NoRoom
<1>8. CASE Load
  BY <1>8 DEF Load
<1>9. CASE Body
  BY <1>9 DEF Body
<1>10. CASE DropSender
  BY <1>10 DEF DropSender, SendersLeft
<1>11. CASE ErrorGet
  BY <1>11 DEF ErrorGet, Rest
<1>12. CASE FailGet
  BY <1>12 DEF FailGet, Rest
<1>13. CASE FailUpdate
  BY <1>13 DEF FailUpdate, Rest
<1>14. ASSUME NEW j \in Jobs, Submit(j) PROVE (TypeOK /\ Slot /\ Wanted)'
  BY <1>14 DEF Submit
<1>15. ASSUME NEW r \in Requests, NEW j \in Jobs, CancelGet(r, j)
       PROVE  (TypeOK /\ Slot /\ Wanted)'
  BY <1>15 DEF CancelGet
<1>16. ASSUME NEW r \in Requests, CancelDecide(r) PROVE (TypeOK /\ Slot /\ Wanted)'
  <2>1. cancels' \in [Jobs -> Flags] /\ told' \in SUBSET Jobs
    BY <1>16 DEF CancelDecide
  <2>2. rpc' \in [Requests -> RequestPC] /\ rjob' = rjob /\ rseen' = rseen
    BY <1>16 DEF CancelDecide
  <2>3. QED
    BY <1>16, <2>1, <2>2 DEF CancelDecide
<1>17. ASSUME NEW r \in Requests, CancelSetStateGet(r)
       PROVE  (TypeOK /\ Slot /\ Wanted)'
  BY <1>17 DEF CancelSetStateGet
<1>18. ASSUME NEW r \in Requests, CancelSetStateUpdate(r)
       PROVE  (TypeOK /\ Slot /\ Wanted)'
  <2>1. rjob[r] \in Jobs
    BY <1>18 DEF CancelSetStateUpdate
  <2>2. row' \in [Jobs -> Rows]
    BY <1>18, <2>1 DEF CancelSetStateUpdate
  <2>3. told' \in SUBSET Jobs
    <3>1. CASE row[rjob[r]] = "gone"
      BY <1>18, <3>1 DEF CancelSetStateUpdate
    <3>2. CASE row[rjob[r]] # "gone"
      <4>1. told' = told \cup {rjob[r]}
        BY <1>18, <3>2 DEF CancelSetStateUpdate
      <4>2. QED
        BY <2>1, <4>1
    <3>3. QED
      BY <3>1, <3>2
  <2>4. QED
    BY <1>18, <2>1, <2>2, <2>3 DEF CancelSetStateUpdate
<1>19. ASSUME NEW r \in Requests, NEW j \in Jobs, DeleteGet(r, j)
       PROVE  (TypeOK /\ Slot /\ Wanted)'
  BY <1>19 DEF DeleteGet
<1>20. ASSUME NEW r \in Requests, DeleteRow(r) PROVE (TypeOK /\ Slot /\ Wanted)'
  BY <1>20 DEF DeleteRow
<1>21. CASE Hold
  BY <1>21 DEF Hold
<1>22. CASE Release
  BY <1>22 DEF Release
<1>23. CASE Crash
  <2>1. crashes' \in 0 .. MaxCrashes
    BY <1>23 DEF Crash
  <2>2. cancels' \in [Jobs -> Flags] /\ rpc' \in [Requests -> RequestPC]
    BY <1>23 DEF Crash
  <2>3. rjob' \in [Requests -> Jobs \cup {NoJob}] /\ rseen' \in [Requests -> Rows]
    BY <1>23 DEF Crash
  <2>4. QED
    BY <1>23, <2>1, <2>2, <2>3 DEF Crash
<1>24. ASSUME NEW j \in Jobs, RecoverRow(j) PROVE (TypeOK /\ Slot /\ Wanted)'
  BY <1>24 DEF RecoverRow, Recovered
<1>25. CASE RecoverDone
  BY <1>25 DEF RecoverDone
<1>26. CASE UNCHANGED vars
  BY <1>26 DEF vars
<1>27. QED
  BY <1>1, <1>2, <1>3, <1>4, <1>5, <1>6, <1>7, <1>8, <1>9, <1>10, <1>11, <1>12,
     <1>13, <1>14, <1>15, <1>16, <1>17, <1>18, <1>19, <1>20, <1>21, <1>22, <1>23,
     <1>24, <1>25, <1>26 DEF Next, Engine, Request, Recovery

\* Senders are registered and removed by the drive alone; a crash takes all.
LEMMA SenderStep == Inv /\ [Next]_vars => SenderTracksDrive'
<1> SUFFICES ASSUME Inv, [Next]_vars
             PROVE  SenderTracksDrive'
  OBVIOUS
<1> USE JobsAssumption DEF Inv, TypeOK, Slot, SenderTracksDrive, Listening, EnginePC,
    Flags, engine, request, Goto, To, RGoto, Reply
<1>1. ASSUME NEW j \in Jobs, Pick(j) PROVE SenderTracksDrive'
  BY <1>1 DEF Pick, NextRunnable
<1>2. CASE Register
  BY <1>2 DEF Register
<1>3. CASE ResolveTarget
  BY <1>3 DEF ResolveTarget
<1>4. CASE SetStateGet
  BY <1>4 DEF SetStateGet
<1>5. CASE SetStateUpdate
  BY <1>5, AfterStates DEF SetStateUpdate, Wanted, Before, Ending
<1>6. CASE BailIfCancelled
  BY <1>6 DEF BailIfCancelled
<1>7. CASE Plan
  BY <1>7 DEF Plan, NoRoom
<1>8. CASE Load
  BY <1>8 DEF Load
<1>9. CASE Body
  BY <1>9 DEF Body
<1>10. CASE DropSender
  BY <1>10 DEF DropSender, SendersLeft
<1>11. CASE ErrorGet
  BY <1>11 DEF ErrorGet, Rest
<1>12. CASE FailGet
  BY <1>12 DEF FailGet, Rest
<1>13. CASE FailUpdate
  BY <1>13 DEF FailUpdate, Rest
<1>14. ASSUME NEW j \in Jobs, Submit(j) PROVE SenderTracksDrive'
  BY <1>14 DEF Submit
<1>15. ASSUME NEW r \in Requests, NEW j \in Jobs, CancelGet(r, j)
       PROVE  SenderTracksDrive'
  BY <1>15 DEF CancelGet
<1>16. ASSUME NEW r \in Requests, CancelDecide(r) PROVE SenderTracksDrive'
  BY <1>16 DEF CancelDecide
<1>17. ASSUME NEW r \in Requests, CancelSetStateGet(r) PROVE SenderTracksDrive'
  BY <1>17 DEF CancelSetStateGet
<1>18. ASSUME NEW r \in Requests, CancelSetStateUpdate(r) PROVE SenderTracksDrive'
  BY <1>18 DEF CancelSetStateUpdate
<1>19. ASSUME NEW r \in Requests, NEW j \in Jobs, DeleteGet(r, j)
       PROVE  SenderTracksDrive'
  BY <1>19 DEF DeleteGet
<1>20. ASSUME NEW r \in Requests, DeleteRow(r) PROVE SenderTracksDrive'
  BY <1>20 DEF DeleteRow
<1>21. CASE Hold
  BY <1>21 DEF Hold
<1>22. CASE Release
  BY <1>22 DEF Release
<1>23. CASE Crash
  BY <1>23 DEF Crash
<1>24. ASSUME NEW j \in Jobs, RecoverRow(j) PROVE SenderTracksDrive'
  BY <1>24 DEF RecoverRow, Recovered, Interrupted
<1>25. CASE RecoverDone
  BY <1>25 DEF RecoverDone, Interrupted
<1>26. CASE UNCHANGED vars
  BY <1>26 DEF vars
<1>27. QED
  BY <1>1, <1>2, <1>3, <1>4, <1>5, <1>6, <1>7, <1>8, <1>9, <1>10, <1>11, <1>12,
     <1>13, <1>14, <1>15, <1>16, <1>17, <1>18, <1>19, <1>20, <1>21, <1>22, <1>23,
     <1>24, <1>25, <1>26 DEF Next, Engine, Request, Recovery

\* Only the pending write moves a row into flight, and only the driven row.
LEMMA FlightStep == Inv /\ [Next]_vars => (AtRest /\ InFlightIsDriven)'
<1> SUFFICES ASSUME Inv, [Next]_vars
             PROVE  (AtRest /\ InFlightIsDriven)'
  OBVIOUS
<1> USE JobsAssumption DEF Inv, TypeOK, Slot, Wanted, Before, Ending, AtRest, InFlightIsDriven,
    Rows, JobStates, Absent, Waiting, InFlight, Terminal,
    engine, request, Goto, To, RGoto, Reply
<1>1. ASSUME NEW j \in Jobs, Pick(j) PROVE (AtRest /\ InFlightIsDriven)'
  BY <1>1 DEF Pick, NextRunnable
<1>2. CASE Register
  BY <1>2 DEF Register
<1>3. CASE ResolveTarget
  BY <1>3 DEF ResolveTarget
<1>4. CASE SetStateGet
  BY <1>4 DEF SetStateGet
<1>5. CASE SetStateUpdate
  BY <1>5, AfterStates DEF SetStateUpdate
<1>6. CASE BailIfCancelled
  BY <1>6 DEF BailIfCancelled
<1>7. CASE Plan
  BY <1>7 DEF Plan, NoRoom
<1>8. CASE Load
  BY <1>8 DEF Load
<1>9. CASE Body
  BY <1>9 DEF Body
<1>10. CASE DropSender
  BY <1>10 DEF DropSender, SendersLeft
<1>11. CASE ErrorGet
  BY <1>11 DEF ErrorGet, Rest
<1>12. CASE FailGet
  BY <1>12, FlightCanFail DEF FailGet, Rest
<1>13. CASE FailUpdate
  BY <1>13 DEF FailUpdate, Rest
<1>14. ASSUME NEW j \in Jobs, Submit(j) PROVE (AtRest /\ InFlightIsDriven)'
  BY <1>14 DEF Submit
<1>15. ASSUME NEW r \in Requests, NEW j \in Jobs, CancelGet(r, j)
       PROVE  (AtRest /\ InFlightIsDriven)'
  BY <1>15 DEF CancelGet
<1>16. ASSUME NEW r \in Requests, CancelDecide(r) PROVE (AtRest /\ InFlightIsDriven)'
  BY <1>16 DEF CancelDecide
<1>17. ASSUME NEW r \in Requests, CancelSetStateGet(r)
       PROVE  (AtRest /\ InFlightIsDriven)'
  BY <1>17 DEF CancelSetStateGet
<1>18. ASSUME NEW r \in Requests, CancelSetStateUpdate(r)
       PROVE  (AtRest /\ InFlightIsDriven)'
  BY <1>18 DEF CancelSetStateUpdate
<1>19. ASSUME NEW r \in Requests, NEW j \in Jobs, DeleteGet(r, j)
       PROVE  (AtRest /\ InFlightIsDriven)'
  BY <1>19 DEF DeleteGet
<1>20. ASSUME NEW r \in Requests, DeleteRow(r) PROVE (AtRest /\ InFlightIsDriven)'
  BY <1>20 DEF DeleteRow
<1>21. CASE Hold
  BY <1>21 DEF Hold
<1>22. CASE Release
  BY <1>22 DEF Release
<1>23. CASE Crash
  BY <1>23 DEF Crash
<1>24. ASSUME NEW j \in Jobs, RecoverRow(j) PROVE (AtRest /\ InFlightIsDriven)'
  BY <1>24 DEF RecoverRow, Recovered, Interrupted
<1>25. CASE RecoverDone
  BY <1>25 DEF RecoverDone, Interrupted
<1>26. CASE UNCHANGED vars
  BY <1>26 DEF vars
<1>27. QED
  BY <1>1, <1>2, <1>3, <1>4, <1>5, <1>6, <1>7, <1>8, <1>9, <1>10, <1>11, <1>12,
     <1>13, <1>14, <1>15, <1>16, <1>17, <1>18, <1>19, <1>20, <1>21, <1>22, <1>23,
     <1>24, <1>25, <1>26 DEF Next, Engine, Request, Recovery

\* No step takes a started job back to where a drive can begin.
LEMMA FreshStep == Inv /\ [Next]_vars => (Fresh /\ BodyAtMostOnce)'
<1> SUFFICES ASSUME Inv, [Next]_vars
             PROVE  (Fresh /\ BodyAtMostOnce)'
  OBVIOUS
<1> USE JobsAssumption DEF Inv, TypeOK, Slot, Wanted, Before, Ending, PreBody, Fresh,
    BodyAtMostOnce, Rows, JobStates, Absent, Waiting, InFlight, Terminal,
    engine, request, Goto, To, RGoto, Reply
<1>1. ASSUME NEW j \in Jobs, Pick(j) PROVE (Fresh /\ BodyAtMostOnce)'
  BY <1>1 DEF Pick, NextRunnable
<1>2. CASE Register
  BY <1>2 DEF Register
<1>3. CASE ResolveTarget
  BY <1>3 DEF ResolveTarget
<1>4. CASE SetStateGet
  BY <1>4 DEF SetStateGet
<1>5. CASE SetStateUpdate
  BY <1>5, AfterStates DEF SetStateUpdate
<1>6. CASE BailIfCancelled
  BY <1>6 DEF BailIfCancelled
<1>7. CASE Plan
  BY <1>7 DEF Plan, NoRoom
<1>8. CASE Load
  BY <1>8 DEF Load
<1>9. CASE Body
  BY <1>9 DEF Body
<1>10. CASE DropSender
  BY <1>10 DEF DropSender, SendersLeft
<1>11. CASE ErrorGet
  BY <1>11 DEF ErrorGet, Rest
<1>12. CASE FailGet
  BY <1>12 DEF FailGet, Rest
<1>13. CASE FailUpdate
  BY <1>13 DEF FailUpdate, Rest
<1>14. ASSUME NEW j \in Jobs, Submit(j) PROVE (Fresh /\ BodyAtMostOnce)'
  BY <1>14 DEF Submit
<1>15. ASSUME NEW r \in Requests, NEW j \in Jobs, CancelGet(r, j)
       PROVE  (Fresh /\ BodyAtMostOnce)'
  BY <1>15 DEF CancelGet
<1>16. ASSUME NEW r \in Requests, CancelDecide(r) PROVE (Fresh /\ BodyAtMostOnce)'
  BY <1>16 DEF CancelDecide
<1>17. ASSUME NEW r \in Requests, CancelSetStateGet(r)
       PROVE  (Fresh /\ BodyAtMostOnce)'
  BY <1>17 DEF CancelSetStateGet
<1>18. ASSUME NEW r \in Requests, CancelSetStateUpdate(r)
       PROVE  (Fresh /\ BodyAtMostOnce)'
  BY <1>18 DEF CancelSetStateUpdate
<1>19. ASSUME NEW r \in Requests, NEW j \in Jobs, DeleteGet(r, j)
       PROVE  (Fresh /\ BodyAtMostOnce)'
  BY <1>19 DEF DeleteGet
<1>20. ASSUME NEW r \in Requests, DeleteRow(r) PROVE (Fresh /\ BodyAtMostOnce)'
  BY <1>20 DEF DeleteRow
<1>21. CASE Hold
  BY <1>21 DEF Hold
<1>22. CASE Release
  BY <1>22 DEF Release
<1>23. CASE Crash
  BY <1>23 DEF Crash
<1>24. ASSUME NEW j \in Jobs, RecoverRow(j) PROVE (Fresh /\ BodyAtMostOnce)'
  BY <1>24 DEF RecoverRow, Recovered, Interrupted
<1>25. CASE RecoverDone
  BY <1>25 DEF RecoverDone, Interrupted
<1>26. CASE UNCHANGED vars
  BY <1>26 DEF vars
<1>27. QED
  BY <1>1, <1>2, <1>3, <1>4, <1>5, <1>6, <1>7, <1>8, <1>9, <1>10, <1>11, <1>12,
     <1>13, <1>14, <1>15, <1>16, <1>17, <1>18, <1>19, <1>20, <1>21, <1>22, <1>23,
     <1>24, <1>25, <1>26 DEF Next, Engine, Request, Recovery

-------------------------------------------------------------------------------
\* It holds throughout, for any number of jobs, requests and restarts.
LEMMA InvHolds == Spec => []Inv
<1>1. Init => Inv
  BY InitInv
<1>2. Inv /\ [Next]_vars => Inv'
  BY ControlStep, SenderStep, FlightStep, FreshStep DEF Inv
<1>3. QED
  BY <1>1, <1>2, PTL DEF Spec

\* Every variable keeps its type, for any number of jobs, requests, restarts.
THEOREM TypeCorrect == Spec => []TypeOK
<1>1. Inv => TypeOK
  BY DEF Inv
<1>2. QED
  BY <1>1, InvHolds, PTL

\* No error path, lost cancel race or restart leaves a job in flight that the
\* engine is not driving (drive_to_rest, recover_interrupted).
THEOREM NoOrphanInFlight == Spec => []InFlightIsDriven
<1>1. Inv => InFlightIsDriven
  BY DEF Inv
<1>2. QED
  BY <1>1, InvHolds, PTL

\* A job's body is started at most once, whatever the cancels, the blocked
\* retries and the restarts (next_runnable, set_state, recover_interrupted).
THEOREM StartedAtMostOnce == Spec => []BodyAtMostOnce
<1>1. Inv => BodyAtMostOnce
  BY DEF Inv
<1>2. QED
  BY <1>1, InvHolds, PTL

\* A cancel finds a sender exactly while the engine drives the job and can
\* still see the signal (drive_to_rest, cancel).
THEOREM SendersMatchDrives == Spec => []SenderTracksDrive
<1>1. Inv => SenderTracksDrive
  BY DEF Inv
<1>2. QED
  BY <1>1, InvHolds, PTL
===============================================================================
