------------------------------- MODULE JobEngine -------------------------------
(***************************************************************************)
(* The job engine of core/src/orchestrator/engine.rs over the jobs table   *)
(* of core/src/db/jobs.rs: the single job loop (api/mod.rs) drives one job *)
(* at a time, while HTTP requests submit, cancel and delete jobs and the   *)
(* process may stop and start again.                                       *)
(*                                                                         *)
(* Covered: the read and the write of every set_state as two steps (the    *)
(* UPDATE does not repeat the check of the SELECT), the registration of    *)
(* the cancel sender, every place the engine looks at the cancel flag, the *)
(* error path of drive_to_rest, startup recovery row by row.               *)
(* Abstracted: which runtime and model a job resolves to.  The plan is     *)
(* reduced to whether a Big job finds the GPU held by somebody else.       *)
(* SQLite statements are atomic and do not fail.                           *)
(***************************************************************************)
EXTENDS Naturals, JobState

CONSTANTS
    Jobs,        \* job ids in creation order (UUIDv7), numbers
    Requests,    \* HTTP requests that can be under way at once
    Big,         \* jobs that do not fit while the GPU is held
    Hooked,      \* jobs whose body listens to the cancel flag
    MaxCrashes,  \* bound on the number of restarts
    NoJob        \* the engine drives nothing

ASSUME JobsAssumption     == Jobs \subseteq Nat /\ NoJob \notin Jobs
ASSUME CrashesAssumption  == MaxCrashes \in Nat

VARIABLES
    row,      \* the jobs table: state of each job
    app,      \* "recovering" while App::seed runs, then "up"
    crashes,
    gpu,      \* "held" by an agent session or a training run, or "free"
    pc,       \* where the engine stands in run_next
    drv,      \* the job it drives
    mem,      \* job.state, the engine's own copy of the row's state
    next,     \* the state the pending set_state wants
    model,    \* "warm": the plan was RunNow, nothing to load
    cancels,  \* the map of cancel senders, and the flag each one holds
    rpc, rjob, rseen,   \* per request: step, job, state it read
    starts,   \* history: how often a job's body was started
    told      \* history: jobs a cancel of which was answered with true

engine  == <<pc, drv, mem, next, model>>
request == <<rpc, rjob, rseen>>
vars    == <<row, app, crashes, gpu, engine, cancels, request, starts, told>>

EnginePC == {"idle", "picked", "target", "check", "write", "bail1", "plan",
             "bail2", "load", "bail3", "body", "leave", "abort", "errget",
             "failcheck", "failwrite"}
RequestPC == {"idle", "cancelDecide", "cancelCheck", "cancelWrite", "deleteRow"}
Flags == {"none", "quiet", "raised"}

\* Types.  The engine's own copy of a job's state is never "failed": a failed
\* row is not picked and the error path does not touch the copy.
TypeOK ==
    /\ row \in [Jobs -> Rows]
    /\ app \in {"recovering", "up"}
    /\ crashes \in 0 .. MaxCrashes
    /\ gpu \in {"free", "held"}
    /\ pc \in EnginePC
    /\ drv \in Jobs \cup {NoJob}
    /\ mem \in JobStates \ {"failed"}
    /\ next \in JobStates
    /\ model \in {"cold", "warm"}
    /\ cancels \in [Jobs -> Flags]
    /\ rpc \in [Requests -> RequestPC]
    /\ rjob \in [Requests -> Jobs \cup {NoJob}]
    /\ rseen \in [Requests -> Rows]
    /\ starts \in [Jobs -> Nat]
    /\ told \in SUBSET Jobs

Init ==
    /\ row = [j \in Jobs |-> "unborn"]
    /\ app = "up"
    /\ crashes = 0
    /\ gpu = "free"
    /\ pc = "idle" /\ drv = NoJob /\ mem = "queued" /\ next = "queued"
    /\ model = "cold"
    /\ cancels = [j \in Jobs |-> "none"]
    /\ rpc = [r \in Requests |-> "idle"]
    /\ rjob = [r \in Requests |-> NoJob]
    /\ rseen = [r \in Requests |-> "unborn"]
    /\ starts = [j \in Jobs |-> 0]
    /\ told = {}

-------------------------------------------------------------------------------
(* The engine: run_next, drive_to_rest, try_drive *)

Goto(label) == pc' = label

\* Mutant: the oldest waiting row, whatever its state.
OldestWaiting(j) ==
    row[j] \in Waiting /\ \A k \in Jobs : row[k] \in Waiting => j <= k

\* Mutant: the filter on the state is lost, a finished row is picked again.
OldestRow(j) ==
    row[j] \in JobStates /\ \A k \in Jobs : row[k] \in JobStates => j <= k

\* What next_runnable selects: queued before blocked, oldest first.
NextRunnable(j) ==
    /\ row[j] \in Waiting
    /\ \A k \in Jobs : row[k] \in Waiting =>
          \/ row[j] = "queued" /\ row[k] = "blocked"
          \/ row[j] = row[k] /\ j <= k

Pick(j) ==
    /\ app = "up" /\ pc = "idle"
    /\ NextRunnable(j)
    /\ drv' = j /\ mem' = row[j] /\ Goto("picked")
    /\ UNCHANGED <<row, app, crashes, gpu, next, model, cancels, request, starts, told>>

Register ==
    /\ app = "up" /\ pc = "picked"
    /\ cancels' = [cancels EXCEPT ![drv] = "quiet"]
    /\ Goto("target")
    /\ UNCHANGED <<row, app, crashes, gpu, drv, mem, next, model, request, starts, told>>

PlanBlocks(j) == gpu = "held" /\ j \in Big

\* try_drive asks for a new state: self.to(...) begins.
To(s) == next' = s /\ Goto("check")

\* The target resolves; a job found blocked is planned once, silently.
ResolveTarget ==
    /\ app = "up" /\ pc = "target"
    /\ \/ mem = "blocked" /\ PlanBlocks(drv) /\ Goto("leave") /\ UNCHANGED next
       \/ ~(mem = "blocked" /\ PlanBlocks(drv)) /\ To("scheduled")
       \/ Goto("abort") /\ UNCHANGED next      \* no usable target
    /\ UNCHANGED <<row, app, crashes, gpu, drv, mem, model, cancels, request, starts, told>>

\* set_state, first half: SELECT and ensure_transition.
SetStateGet ==
    /\ app = "up" /\ pc = "check"
    /\ Goto(IF CanTransition(row[drv], next) THEN "write" ELSE "abort")
    /\ UNCHANGED <<row, app, crashes, gpu, drv, mem, next, model, cancels, request, starts, told>>

\* Where try_drive goes on after the row was moved to s.
After(s) ==
    CASE s = "scheduled" -> "bail1"
      [] s = "preparing" -> IF model = "warm" THEN "bail3" ELSE "bail2"
      [] s = "running"   -> "body"
      [] s = "post"      -> "check"
      [] OTHER           -> "leave"

\* set_state, second half: an UPDATE by id alone.  A deleted row stays deleted
\* and the event insert then fails on its foreign key.
SetStateUpdate ==
    /\ app = "up" /\ pc = "write"
    /\ IF row[drv] = "gone"
         THEN Goto("abort") /\ UNCHANGED <<row, mem, next, starts>>
         ELSE /\ row' = [row EXCEPT ![drv] = next]
              /\ mem' = next
              /\ Goto(After(next))
              /\ next' = IF next = "post" THEN "completed" ELSE next
              /\ starts' = IF next = "running"
                             THEN [starts EXCEPT ![drv] = @ + 1] ELSE starts
    /\ UNCHANGED <<app, crashes, gpu, drv, model, cancels, request, told>>

\* bail_if_cancelled, at its three places in try_drive.
BailIfCancelled ==
    /\ app = "up" /\ pc \in {"bail1", "bail2", "bail3"}
    /\ \/ cancels[drv] = "raised" /\ To("cancelled")
       \/ /\ cancels[drv] # "raised"
          /\ \/ pc = "bail1" /\ Goto("plan") /\ UNCHANGED next
             \/ pc = "bail2" /\ Goto("load") /\ UNCHANGED next
             \/ pc = "bail3" /\ To("running")
    /\ UNCHANGED <<row, app, crashes, gpu, drv, mem, model, cancels, request, starts, told>>

\* Mutant: wait for room in the job slot instead of giving it up.
WaitInPlace == UNCHANGED <<pc, next>>

\* Decision::Blocked: the job rests as blocked and leaves the slot.
NoRoom == To("blocked")

Plan ==
    /\ app = "up" /\ pc = "plan"
    /\ IF PlanBlocks(drv)
         THEN NoRoom /\ UNCHANGED model
         ELSE To("preparing") /\ model' \in {"cold", "warm"}
    /\ UNCHANGED <<row, app, crashes, gpu, drv, mem, cancels, request, starts, told>>

\* Make room if a victim was named, then load; either may fail.
Load ==
    /\ app = "up" /\ pc = "load"
    /\ Goto("bail3") \/ Goto("abort")
    /\ UNCHANGED <<row, app, crashes, gpu, drv, mem, next, model, cancels, request, starts, told>>

\* The job body ends: done, cancelled by its flag, or failed.  A body with a
\* hook prefers the flag to its own result.
Body ==
    /\ app = "up" /\ pc = "body"
    /\ \/ ~(drv \in Hooked /\ cancels[drv] = "raised") /\ To("post")
       \/ drv \in Hooked /\ cancels[drv] = "raised" /\ To("cancelled")
       \/ Goto("abort") /\ UNCHANGED next
    /\ UNCHANGED <<row, app, crashes, gpu, drv, mem, model, cancels, request, starts, told>>

\* Mutant: the sender of a drive that ended in an error is never removed.
SendersKeptOnError ==
    IF pc = "abort" THEN cancels ELSE [cancels EXCEPT ![drv] = "none"]

SendersLeft == [cancels EXCEPT ![drv] = "none"]

\* drive_to_rest after try_drive returned: drop the sender first.
DropSender ==
    /\ app = "up" /\ pc \in {"leave", "abort"}
    /\ cancels' = SendersLeft
    /\ IF pc = "leave" THEN Goto("idle") /\ drv' = NoJob
                       ELSE Goto("errget") /\ UNCHANGED drv
    /\ UNCHANGED <<row, app, crashes, gpu, mem, next, model, request, starts, told>>

Rest == Goto("idle") /\ drv' = NoJob

\* The error path: a row that reads cancelled is left alone ...
ErrorGet ==
    /\ app = "up" /\ pc = "errget"
    /\ IF row[drv] = "cancelled" THEN Rest ELSE Goto("failcheck") /\ UNCHANGED drv
    /\ UNCHANGED <<row, app, crashes, gpu, mem, next, model, cancels, request, starts, told>>

\* ... any other is moved to failed, by a set_state whose error is dropped.
FailGet ==
    /\ app = "up" /\ pc = "failcheck"
    /\ IF CanTransition(row[drv], "failed") THEN Goto("failwrite") /\ UNCHANGED drv
                                            ELSE Rest
    /\ UNCHANGED <<row, app, crashes, gpu, mem, next, model, cancels, request, starts, told>>

FailUpdate ==
    /\ app = "up" /\ pc = "failwrite"
    /\ row' = IF row[drv] = "gone" THEN row ELSE [row EXCEPT ![drv] = "failed"]
    /\ Rest
    /\ UNCHANGED <<app, crashes, gpu, mem, next, model, cancels, request, starts, told>>

Engine ==
    \/ \E j \in Jobs : Pick(j)
    \/ Register \/ ResolveTarget \/ SetStateGet \/ SetStateUpdate
    \/ BailIfCancelled \/ Plan \/ Load \/ Body
    \/ DropSender \/ ErrorGet \/ FailGet \/ FailUpdate

-------------------------------------------------------------------------------
(* HTTP requests *)

Submit(j) ==
    /\ app = "up"
    /\ row[j] = "unborn" /\ \A k \in Jobs : k < j => row[k] # "unborn"
    /\ row' = [row EXCEPT ![j] = "queued"]
    /\ UNCHANGED <<app, crashes, gpu, engine, cancels, request, starts, told>>

RGoto(r, label) == rpc' = [rpc EXCEPT ![r] = label]
Reply(r) == RGoto(r, "idle") /\ UNCHANGED <<rjob, rseen>>

\* cancel: read the row; a finished job is answered with false at once.
CancelGet(r, j) ==
    /\ app = "up" /\ rpc[r] = "idle"
    /\ row[j] \in JobStates \ Terminal
    /\ RGoto(r, "cancelDecide")
    /\ rjob' = [rjob EXCEPT ![r] = j]
    /\ rseen' = [rseen EXCEPT ![r] = row[j]]
    /\ UNCHANGED <<row, app, crashes, gpu, engine, cancels, starts, told>>

\* Signal a live runner, else set_state for a waiting job, else answer false.
CancelDecide(r) ==
    /\ app = "up" /\ rpc[r] = "cancelDecide"
    /\ LET j == rjob[r] IN
         \/ /\ cancels[j] # "none"
            /\ cancels' = [cancels EXCEPT ![j] = "raised"]
            /\ told' = told \cup {j}
            /\ Reply(r)
         \/ /\ cancels[j] = "none"
            /\ IF rseen[r] \in Waiting
                 THEN RGoto(r, "cancelCheck") /\ UNCHANGED <<rjob, rseen>>
                 ELSE Reply(r)
            /\ UNCHANGED <<cancels, told>>
    /\ UNCHANGED <<row, app, crashes, gpu, engine, starts>>

CancelSetStateGet(r) ==
    /\ app = "up" /\ rpc[r] = "cancelCheck"
    /\ IF CanTransition(row[rjob[r]], "cancelled")
         THEN RGoto(r, "cancelWrite") /\ UNCHANGED <<rjob, rseen>>
         ELSE Reply(r)
    /\ UNCHANGED <<row, app, crashes, gpu, engine, cancels, starts, told>>

CancelSetStateUpdate(r) ==
    /\ app = "up" /\ rpc[r] = "cancelWrite"
    /\ LET j == rjob[r] IN
         IF row[j] = "gone"
           THEN UNCHANGED <<row, told>>
           ELSE /\ row' = [row EXCEPT ![j] = "cancelled"]
                /\ told' = told \cup {j}
    /\ Reply(r)
    /\ UNCHANGED <<app, crashes, gpu, engine, cancels, starts>>

\* delete_job: only a finished job, as far as this read can tell.
DeleteGet(r, j) ==
    /\ app = "up" /\ rpc[r] = "idle"
    /\ row[j] \in Terminal
    /\ RGoto(r, "deleteRow")
    /\ rjob' = [rjob EXCEPT ![r] = j]
    /\ rseen' = [rseen EXCEPT ![r] = row[j]]
    /\ UNCHANGED <<row, app, crashes, gpu, engine, cancels, starts, told>>

DeleteRow(r) ==
    /\ app = "up" /\ rpc[r] = "deleteRow"
    /\ row' = [row EXCEPT ![rjob[r]] = "gone"]
    /\ Reply(r)
    /\ UNCHANGED <<app, crashes, gpu, engine, cancels, starts, told>>

Request(r) ==
    \/ \E j \in Jobs : CancelGet(r, j) \/ DeleteGet(r, j)
    \/ CancelDecide(r) \/ CancelSetStateGet(r) \/ CancelSetStateUpdate(r)
    \/ DeleteRow(r)

-------------------------------------------------------------------------------
(* Surroundings: the GPU is taken and given back; the process stops *)

Hold    == /\ gpu = "free" /\ gpu' = "held"
           /\ UNCHANGED <<row, app, crashes, engine, cancels, request, starts, told>>
Release == /\ gpu = "held" /\ gpu' = "free"
           /\ UNCHANGED <<row, app, crashes, engine, cancels, request, starts, told>>

\* Everything in memory is lost; the table is not.
Crash ==
    /\ crashes < MaxCrashes
    /\ crashes' = crashes + 1
    /\ app' = "recovering" /\ gpu' = "free"
    /\ pc' = "idle" /\ drv' = NoJob /\ mem' = "queued" /\ next' = "queued"
    /\ model' = "cold"
    /\ cancels' = [j \in Jobs |-> "none"]
    /\ rpc' = [r \in Requests |-> "idle"]
    /\ rjob' = [r \in Requests |-> NoJob]
    /\ rseen' = [r \in Requests |-> "unborn"]
    /\ UNCHANGED <<row, starts, told>>

\* Mutant: a job caught between the queue and its model load is overlooked.
InterruptedAfterLoad(j) == row[j] \in {"preparing", "running", "post"}

\* The rows recover_interrupted selects ...
Interrupted(j) == row[j] \in InFlight

\* Mutant: an interrupted job is put back in the queue.
Requeued == "queued"

\* ... and the state it gives them.
Recovered == "failed"

\* recover_interrupted: one UPDATE per row that was under way.
RecoverRow(j) ==
    /\ app = "recovering" /\ Interrupted(j)
    /\ row' = [row EXCEPT ![j] = Recovered]
    /\ UNCHANGED <<app, crashes, gpu, engine, cancels, request, starts, told>>

RecoverDone ==
    /\ app = "recovering" /\ \A j \in Jobs : ~Interrupted(j)
    /\ app' = "up"
    /\ UNCHANGED <<row, crashes, gpu, engine, cancels, request, starts, told>>

Recovery == (\E j \in Jobs : RecoverRow(j)) \/ RecoverDone

-------------------------------------------------------------------------------
Next ==
    \/ Engine
    \/ \E j \in Jobs : Submit(j)
    \/ \E r \in Requests : Request(r)
    \/ Hold \/ Release
    \/ Crash \/ Recovery

Spec == Init /\ [][Next]_vars

\* The job loop never stops and a started handler or recovery goes on.
Fairness ==
    /\ WF_vars(Engine)
    /\ WF_vars(Recovery)
FairSpec == Spec /\ Fairness

-------------------------------------------------------------------------------
(* Properties *)

\* The steps of a drive during which its cancel sender is registered.
Listening == EnginePC \ {"idle", "picked", "errget", "failcheck", "failwrite"}

\* Once the application is up, a row that reads scheduled, preparing, running
\* or post is the row of the job the engine is driving: no error path, lost
\* cancel race or restart leaves a job in flight with nobody behind it.
InFlightIsDriven ==
    app = "up" => \A j \in Jobs : row[j] \in InFlight => drv = j

\* A job's body starts at most once in its life, whatever cancels, blocked
\* retries and restarts come between: a rendering or a chat is not repeated.
BodyAtMostOnce == \A j \in Jobs : starts[j] <= 1

\* cancel() finds a sender exactly while the engine can still see the signal:
\* a waiting job is never taken for a driven one after its drive ended.
SenderTracksDrive ==
    \A j \in Jobs : cancels[j] # "none" <=> drv = j /\ pc \in Listening

\* A queued job leaves the queue although another one may stay blocked for
\* ever (next_runnable puts queued before blocked for this reason).
QueuedIsPicked == \A j \in Jobs : row[j] = "queued" ~> row[j] # "queued"

\* Every job in flight comes to rest: the single slot is always given up.
EveryDriveRests ==
    \A j \in Jobs : row[j] \in InFlight ~> row[j] \notin InFlight

\* state.rs: "Terminal states never transition again."
TerminalIsFinal ==
    [][\A j \in Jobs : row[j] \in Terminal => row'[j] \in {row[j], "gone"}]_vars

\* JobEngine::cancel: a true answer means the job was cancelled outright or
\* "is signalled and unwinds itself": once the engine let go of it, it is over.
AcceptedCancelStops ==
    \A j \in told : drv # j => row[j] \in Terminal \cup {"gone"}
===============================================================================
