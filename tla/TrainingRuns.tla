------------------------------ MODULE TrainingRuns ------------------------------
(***************************************************************************)
(* The training runner of core/src/training/runner.rs and runner/settle.rs *)
(* with the GPU reservation of core/src/runtime/training/mod.rs: detached  *)
(* trainer processes that outlive the application, a table row, a PID file *)
(* and a log per run, HTTP requests that start, pause, resume, cancel and  *)
(* delete runs, a poller that judges dead processes, startup recovery.     *)
(*                                                                         *)
(* Covered: the awaits between which another request, the poller or a      *)
(* trainer can change what the code has just read, the start lock and who  *)
(* does not take it, the compare-and-swap on the row, the detour resuming  *)
(* -> running, the failing launch, the poll cursor that hides an earlier   *)
(* attempt's markers, the pin.                                             *)
(* Abstracted: the log is the set of markers in it; preflight is reduced   *)
(* to its two checks for another run; a PID is never used twice.           *)
(* SQLite statements are atomic and do not fail.                           *)
(***************************************************************************)
EXTENDS Integers, FiniteSets, RunState

CONSTANTS
    Runs,        \* training run ids
    Requests,    \* HTTP requests that can be under way at once
    Markers,     \* what a trainer may write to its log: "step", "done", "error"
    Poller,      \* the poller task; startup recovery runs as this process too
    NoOne,       \* nobody holds the lock; no run holds the GPU
    MaxPids,     \* bound on the number of trainers ever spawned
    MaxCrashes   \* bound on the number of restarts

ASSUME ProcessesAssumption == Poller \notin Requests /\ NoOne \notin Requests \cup {Poller}
ASSUME RunsAssumption      == NoOne \notin Runs
ASSUME MarkersAssumption   == Markers \subseteq {"step", "done", "error"}
ASSUME BoundsAssumption    == MaxPids \in Nat /\ MaxCrashes \in Nat

Procs == Requests \cup {Poller}
Pids  == 1 .. MaxPids

VARIABLES
    row,                   \* the training_runs table
    app, crashes,          \* "recovering" until Runner::recover is through
    spawned, live, owner,  \* trainers: how many ever, which live, whose each is
    fresh, stale,          \* markers in the log since the last launch; from before
    saved,                 \* runs with a checkpoint in their work directory
    file, recorded,        \* PID in trainer.pid, PID in the row; 0 is none
    alive, pin,            \* TrainingAdapter.alive; the pin on TRAINING_MODEL_ID
    cursor,                \* where the poll state reads the log from
    lock,                  \* start_lock
    pc, op, on, snap, goal, pid,  \* per process: step, operation, run, state in
                                  \* hand, state wanted, the trainer it spawned
    sawAlive, todo         \* the poller: liveness it read, rows still to look at

trainers == <<spawned, live, owner, fresh, stale, saved>>
gpu      == <<alive, pin>>
process  == <<pc, op, on, snap, goal, pid>>
poller   == <<sawAlive, todo>>
vars == <<row, app, crashes, trainers, file, recorded, gpu, cursor, lock, process, poller>>

PCs == {"idle", "spawn", "writepid", "setpid", "reserve", "seed", "then", "stop",
        "observe", "settle", "move", "import", "clearpid", "release", "again", "list"}
Ops == {"none", "launch", "stop", "cancel", "poll"}

\* The types of the run rows, the trainers, the logs and of what each process has in hand
TypeOK ==
    /\ row \in [Runs -> Rows]
    /\ app \in {"recovering", "up"} /\ crashes \in 0 .. MaxCrashes
    /\ spawned \in 0 .. MaxPids /\ live \subseteq 1 .. spawned
    /\ owner \in [Pids -> Runs \cup {NoOne}]
    /\ fresh \in [Runs -> SUBSET Markers] /\ stale \in [Runs -> SUBSET Markers]
    /\ saved \subseteq Runs
    /\ file \in [Runs -> 0 .. MaxPids] /\ recorded \in [Runs -> 0 .. MaxPids]
    /\ alive \in Runs \cup {NoOne} /\ pin \in {"pinned", "free"}
    /\ cursor \in [Runs -> {"start", "launch"}]
    /\ lock \in Procs \cup {NoOne}
    /\ pc \in [Procs -> PCs] /\ op \in [Procs -> Ops]
    /\ on \in [Procs -> Runs \cup {NoOne}]
    /\ snap \in [Procs -> Rows \ (Terminal \cup {"gone"})]
    /\ goal \in [Procs -> Rows]
    /\ pid \in [Procs -> 0 .. MaxPids]
    /\ sawAlive \in {"alive", "dead"}
    /\ todo \in [Runs -> Recoverable \cup {"unborn"}]

Init ==
    /\ row = [r \in Runs |-> "unborn"]
    /\ app = "up" /\ crashes = 0
    /\ spawned = 0 /\ live = {} /\ owner = [i \in Pids |-> NoOne]
    /\ fresh = [r \in Runs |-> {}] /\ stale = [r \in Runs |-> {}] /\ saved = {}
    /\ file = [r \in Runs |-> 0] /\ recorded = [r \in Runs |-> 0]
    /\ alive = NoOne /\ pin = "free"
    /\ cursor = [r \in Runs |-> "start"]
    /\ lock = NoOne
    /\ pc = [p \in Procs |-> "idle"] /\ op = [p \in Procs |-> "none"]
    /\ on = [p \in Procs |-> NoOne]
    /\ snap = [p \in Procs |-> "unborn"] /\ goal = [p \in Procs |-> "unborn"]
    /\ pid = [p \in Procs |-> 0]
    /\ sawAlive = "dead" /\ todo = [r \in Runs |-> "unborn"]

-------------------------------------------------------------------------------
(* Helpers *)

Goto(p, label) == pc' = [pc EXCEPT ![p] = label]
Keep == UNCHANGED <<op, on, snap, goal, pid>>

\* Process p turns to run r, whose row reads s.
Take(p, o, r, s, g, label) ==
    /\ Goto(p, label)
    /\ op' = [op EXCEPT ![p] = o] /\ on' = [on EXCEPT ![p] = r]
    /\ snap' = [snap EXCEPT ![p] = s] /\ goal' = [goal EXCEPT ![p] = g]
    /\ UNCHANGED pid

\* The call returns; a launch drops the start lock with it.
Return(p) ==
    /\ Goto(p, IF p = Poller THEN "list" ELSE "idle")
    /\ op' = [op EXCEPT ![p] = "none"] /\ on' = [on EXCEPT ![p] = NoOne]
    /\ snap' = [snap EXCEPT ![p] = "unborn"] /\ goal' = [goal EXCEPT ![p] = "unborn"]
    /\ pid' = [pid EXCEPT ![p] = 0]
    /\ lock' = IF lock = p /\ p # Poller THEN NoOne ELSE lock

\* Mutant: the UPDATE does not repeat the state it expects.
BlindWrite(r, s, t) == row' = [row EXCEPT ![r] = t]

\* set_state_from: UPDATE ... WHERE id AND state = expected.
Swap(r, s, t) == row[r] = s /\ row' = [row EXCEPT ![r] = t]

\* process_alive: what trainer.pid names is running.
ProcessAlive(r) == file[r] \in live

\* The markers observe gets to see.
View(r) == IF cursor[r] = "launch" THEN fresh[r] ELSE fresh[r] \cup stale[r]

-------------------------------------------------------------------------------
(* Start and resume, under the start lock *)

\* Mutant: preflight does not look for another run.
NoPreflight == TRUE

\* "only one training can run at a time"
Preflight == alive = NoOne /\ \A r \in Runs : row[r] \notin Recoverable

Start(q, r) ==
    /\ app = "up" /\ pc[q] = "idle" /\ lock = NoOne
    /\ row[r] = "unborn" /\ Preflight
    /\ row' = [row EXCEPT ![r] = "preparing"]
    /\ lock' = q
    /\ Take(q, "launch", r, "preparing", "unborn", "spawn")
    /\ UNCHANGED <<app, crashes, trainers, file, recorded, gpu, cursor, poller>>

Resume(q, r) ==
    /\ app = "up" /\ pc[q] = "idle" /\ lock = NoOne
    /\ row[r] \in {"paused", "interrupted"} /\ Preflight
    /\ Swap(r, row[r], "resuming")
    /\ lock' = q
    /\ Take(q, "launch", r, "resuming", "unborn", "spawn")
    /\ UNCHANGED <<app, crashes, trainers, file, recorded, gpu, cursor, poller>>

\* The launch fell over: finish the run as failed.
LaunchFailed(q) ==
    /\ Goto(q, "move") /\ goal' = [goal EXCEPT ![q] = "failed"]
    /\ UNCHANGED <<op, on, snap, pid>>

\* Write the config, note the length of the log, spawn the trainer.
Spawn(q) ==
    /\ pc[q] = "spawn"
    /\ LET r == on[q] IN
         \/ LaunchFailed(q) /\ UNCHANGED trainers
         \/ /\ spawned < MaxPids /\ spawned' = spawned + 1
            /\ live' = live \cup {spawned + 1}
            /\ owner' = [owner EXCEPT ![spawned + 1] = r]
            /\ stale' = [stale EXCEPT ![r] = @ \cup fresh[r]]
            /\ fresh' = [fresh EXCEPT ![r] = {}]
            /\ UNCHANGED saved
            /\ Goto(q, "writepid") /\ pid' = [pid EXCEPT ![q] = spawned + 1]
            /\ UNCHANGED <<op, on, snap, goal>>
    /\ UNCHANGED <<row, app, crashes, file, recorded, gpu, cursor, lock, poller>>

\* Mutant: a trainer that could not be adopted is left running.
RolledBackKeepsTrainer(i) == live

RolledBack(i) == live \ {i}

\* Mutant: the GPU stays with the run.
ReleasedNothing(r) == alive

\* release: the run that holds the GPU gives it back.
Released(r) == IF alive = r THEN NoOne ELSE alive

\* release also takes the pin off, whoever holds the GPU, and forgets the
\* run's poll state.
ReleaseGpu(r) ==
    /\ alive' = Released(r) /\ pin' = "free"
    /\ cursor' = [cursor EXCEPT ![r] = "start"]

\* adopt begins with trainer.pid; if that fails roll_back_spawn undoes all.
WritePid(q) ==
    /\ pc[q] = "writepid"
    /\ LET r == on[q] IN
         \/ /\ file' = [file EXCEPT ![r] = pid[q]]
            /\ Goto(q, "setpid") /\ Keep
            /\ UNCHANGED <<live, recorded, gpu, cursor>>
         \/ /\ live' = RolledBack(pid[q])
            /\ recorded' = [recorded EXCEPT ![r] = 0]
            /\ ReleaseGpu(r)
            /\ LaunchFailed(q)
            /\ UNCHANGED file
    /\ UNCHANGED <<row, app, crashes, spawned, owner, fresh, stale, saved, lock, poller>>

SetPid(q) ==
    /\ pc[q] = "setpid"
    /\ recorded' = [recorded EXCEPT ![on[q]] = pid[q]]
    /\ Goto(q, "reserve") /\ Keep
    /\ UNCHANGED <<row, app, crashes, trainers, file, gpu, cursor, lock, poller>>

\* load_model, mark_alive and pin.
Reserve(q) ==
    /\ pc[q] = "reserve"
    /\ alive' = on[q] /\ pin' = "pinned"
    /\ Goto(q, "seed") /\ Keep
    /\ UNCHANGED <<row, app, crashes, trainers, file, recorded, cursor, lock, poller>>

\* The poll cursor is put at the noted length.  A resume ends here: the row
\* stays resuming until the first progress line.
SeedCursor(q) ==
    /\ pc[q] = "seed"
    /\ cursor' = [cursor EXCEPT ![on[q]] = "launch"]
    /\ IF snap[q] = "resuming"
         THEN Return(q)
         ELSE Goto(q, "then") /\ Keep /\ UNCHANGED lock
    /\ UNCHANGED <<row, app, crashes, trainers, file, recorded, gpu, poller>>

\* A start ends with the row moved to running; a lost race is only reported.
ThenRunning(q) ==
    /\ pc[q] = "then"
    /\ \/ Swap(on[q], "preparing", "running")
       \/ row[on[q]] # "preparing" /\ UNCHANGED row
    /\ Return(q)
    /\ UNCHANGED <<app, crashes, trainers, file, recorded, gpu, cursor, poller>>

Launch(q) ==
    \/ Spawn(q) \/ WritePid(q) \/ SetPid(q) \/ Reserve(q) \/ SeedCursor(q)
    \/ ThenRunning(q)

-------------------------------------------------------------------------------
(* Pause, cancel and delete, without the start lock *)

Pause(q, r) ==
    /\ app = "up" /\ pc[q] = "idle" /\ row[r] = "running"
    /\ Take(q, "stop", r, "running", "paused", "stop")
    /\ UNCHANGED <<row, app, crashes, trainers, file, recorded, gpu, cursor, lock, poller>>

Cancel(q, r) ==
    /\ app = "up" /\ pc[q] = "idle"
    /\ row[r] \in RunStates \ (Terminal \cup {"finishing"})
    /\ Take(q, "cancel", r, row[r], "cancelled", "stop")
    /\ UNCHANGED <<row, app, crashes, trainers, file, recorded, gpu, cursor, lock, poller>>

\* stop_process: kill what trainer.pid names.  If it was gone already, look
\* at the evidence first (reconcile_dead).
StopProcess(q) ==
    /\ pc[q] = "stop"
    /\ IF ProcessAlive(on[q])
         THEN /\ live' = live \ {file[on[q]]}
              /\ Goto(q, "move") /\ op' = [op EXCEPT ![q] = "stop"]
         ELSE Goto(q, "observe") /\ UNCHANGED <<live, op>>
    /\ UNCHANGED <<on, snap, goal, pid>>
    /\ UNCHANGED <<row, app, crashes, spawned, owner, fresh, stale, saved, file,
                   recorded, gpu, cursor, lock, poller>>

\* Mutant: the row is not read again.
NeverEnded(r) == FALSE

\* cancel reads the row again after reconciling: it may have ended by itself.
EndedByItself(r) == row[r] \in Terminal \cup {"gone"}

CancelAgain(q) ==
    /\ pc[q] = "again"
    /\ IF EndedByItself(on[q])
         THEN Return(q)
         ELSE Take(q, "stop", on[q], row[on[q]], "cancelled", "move") /\ UNCHANGED lock
    /\ UNCHANGED <<row, app, crashes, trainers, file, recorded, gpu, cursor, poller>>

\* delete_training_run: the read and the DELETE are one step, since a
\* terminal row does not change any more.
Delete(r) ==
    /\ app = "up" /\ row[r] \in Terminal
    /\ row' = [row EXCEPT ![r] = "gone"]
    /\ UNCHANGED <<app, crashes, trainers, file, recorded, gpu, cursor, lock, process, poller>>

-------------------------------------------------------------------------------
(* Judging a run by its log and its checkpoints, shared by the poller, by
   recovery and by pause and cancel: observe, settle, complete, finish *)

\* Mutant: completion is believed without a checkpoint to import.
VerdictOnLogAlone(s, seen, checkpoint) ==
    CASE s = "finishing"  -> "completed"
      [] "done" \in seen  -> "finishing"
      [] "error" \in seen -> "failed"
      [] OTHER            -> "interrupted"

\* settle: where a run with a dead process belongs; "completed" stands for an
\* import that is still to be made.
Verdict(s, seen, checkpoint) ==
    CASE s = "finishing" /\ checkpoint                      -> "completed"
      [] s # "finishing" /\ "done" \in seen /\ checkpoint   -> "finishing"
      [] s = "finishing" \/ "error" \in seen                -> "failed"
      [] OTHER                                              -> "interrupted"

\* observe: read the log, promote a resuming run that printed a step, look for
\* the newest checkpoint.
Observe(p) ==
    /\ pc[p] = "observe"
    /\ LET r    == on[p]
           back == snap[p] = "resuming" /\ "step" \in View(r) /\ row[r] = "resuming"
           s    == IF back THEN "running" ELSE snap[p]
       IN  /\ row' = IF back THEN [row EXCEPT ![r] = "running"] ELSE row
           /\ snap' = [snap EXCEPT ![p] = s]
           /\ goal' = [goal EXCEPT ![p] = Verdict(s, View(r), r \in saved)]
    /\ Goto(p, "settle")
    /\ UNCHANGED <<op, on, pid>>
    /\ UNCHANGED <<app, crashes, trainers, file, recorded, gpu, cursor, lock, poller>>

\* Mutant: the process is looked at after the log was read.
CheckedAfterwards(r) == ProcessAlive(r)

\* poll_run goes by the liveness it read before observe.
CheckedBefore(r) == sawAlive = "alive"

Settle(p) ==
    /\ pc[p] = "settle"
    /\ IF op[p] = "poll" /\ snap[p] # "finishing" /\ CheckedBefore(on[p])
         THEN Return(p)
         ELSE Goto(p, IF goal[p] = "completed" THEN "import" ELSE "move")
              /\ Keep /\ UNCHANGED lock
    /\ UNCHANGED <<row, app, crashes, trainers, file, recorded, gpu, cursor, poller>>

\* The library import may fail.
Import(p) ==
    /\ pc[p] = "import"
    /\ \E t \in {"completed", "failed"} : goal' = [goal EXCEPT ![p] = t]
    /\ Goto(p, "move") /\ UNCHANGED <<op, on, snap, pid>>
    /\ UNCHANGED <<row, app, crashes, trainers, file, recorded, gpu, cursor, lock, poller>>

\* reconcile_dead is over: cancel goes on, every other caller returns.
Judged(p) ==
    IF op[p] = "cancel" THEN Goto(p, "again") /\ Keep /\ UNCHANGED lock ELSE Return(p)

\* The detour: a resuming run reaches what only a running one can.
Detour(s, t) == s = "resuming" /\ ~Legal(s, t) /\ Legal("running", t)

\* transition, with what finish and settle do about its three answers.
Transition(p) ==
    /\ pc[p] = "move"
    /\ LET r == on[p]  s == snap[p]  t == goal[p] IN
         \/ /\ \/ s = t /\ UNCHANGED row
               \/ Legal(s, t) /\ Swap(r, s, t)
            /\ snap' = [snap EXCEPT ![p] = IF t = "finishing" THEN t ELSE s]
            /\ Goto(p, IF t = "finishing" THEN "import" ELSE "clearpid")
            /\ UNCHANGED <<op, on, goal, pid, lock>>
         \/ /\ Detour(s, t) /\ Swap(r, s, "running")
            /\ snap' = [snap EXCEPT ![p] = "running"]
            /\ UNCHANGED <<pc, op, on, goal, pid, lock>>
         \/ /\ Legal(s, t) \/ Detour(s, t)     \* overtaken by another writer
            /\ row[r] # s /\ UNCHANGED row
            /\ IF t = "finishing"
                 THEN Judged(p)
                 ELSE Goto(p, "release") /\ Keep /\ UNCHANGED lock
         \/ /\ s # t /\ ~Legal(s, t) /\ ~Detour(s, t)   \* an error to the caller
            /\ Return(p) /\ UNCHANGED row
    /\ UNCHANGED <<app, crashes, trainers, file, recorded, gpu, cursor, poller>>

ClearPid(p) ==
    /\ pc[p] = "clearpid"
    /\ recorded' = [recorded EXCEPT ![on[p]] = 0]
    /\ Goto(p, "release") /\ Keep
    /\ UNCHANGED <<row, app, crashes, trainers, file, gpu, cursor, lock, poller>>

Release(p) ==
    /\ pc[p] = "release"
    /\ ReleaseGpu(on[p])
    /\ Judged(p)
    /\ UNCHANGED <<row, app, crashes, trainers, file, recorded, poller>>

Judge(p) ==
    \/ Observe(p) \/ Settle(p) \/ Import(p) \/ Transition(p) \/ ClearPid(p)
    \/ Release(p)

-------------------------------------------------------------------------------
(* The poller, and recovery at startup *)

\* A launch still in flight, or a run nothing is known about.
NoEvidence(r) == recorded[r] = 0 /\ (row[r] = "resuming" \/ file[r] = 0)

\* Mutant: a run that was relaunched and printed nothing is not polled.
OnlyRunning(r) == row[r] \in Recoverable \ {"resuming"} /\ ~NoEvidence(r)

Polled(r) == row[r] \in Recoverable /\ ~NoEvidence(r)

\* poll_once lists the runs it will look at (a pass without any is left out).
PollBegin ==
    /\ app = "up" /\ pc[Poller] = "idle" /\ lock = NoOne
    /\ \E r \in Runs : Polled(r)
    /\ lock' = Poller /\ Goto(Poller, "list") /\ Keep
    /\ todo' = [r \in Runs |-> IF Polled(r) THEN row[r] ELSE "unborn"]
    /\ UNCHANGED <<row, app, crashes, trainers, file, recorded, gpu, cursor, sawAlive>>

PollRun(r) ==
    /\ app = "up" /\ pc[Poller] = "list" /\ todo[r] # "unborn"
    /\ todo' = [todo EXCEPT ![r] = "unborn"]
    /\ sawAlive' = IF ProcessAlive(r) THEN "alive" ELSE "dead"
    /\ Take(Poller, "poll", r, todo[r], "unborn", "observe")
    /\ UNCHANGED <<row, app, crashes, trainers, file, recorded, gpu, cursor, lock>>

PollEnd ==
    /\ app = "up" /\ pc[Poller] = "list" /\ \A r \in Runs : todo[r] = "unborn"
    /\ lock' = NoOne /\ Goto(Poller, "idle") /\ Keep
    /\ UNCHANGED <<row, app, crashes, trainers, file, recorded, gpu, cursor, poller>>

\* recover_run: the log is read from near its end, so an earlier attempt's
\* markers may be seen again; a live trainer gets its reservation back.
RecoverRun(r) ==
    /\ app = "recovering" /\ pc[Poller] = "list" /\ todo[r] # "unborn"
    /\ todo' = [todo EXCEPT ![r] = "unborn"]
    /\ \E c \in {"start", "launch"} : cursor' = [cursor EXCEPT ![r] = c]
    /\ sawAlive' = "dead"
    /\ IF todo[r] # "finishing" /\ ProcessAlive(r)
         THEN /\ alive' = r /\ pin' = "pinned"
              /\ UNCHANGED <<pc, op, on, snap, goal, pid>>
         ELSE Take(Poller, "poll", r, todo[r], "unborn", "observe") /\ UNCHANGED gpu
    /\ UNCHANGED <<row, app, crashes, trainers, file, recorded, lock>>

RecoverDone ==
    /\ app = "recovering" /\ pc[Poller] = "list" /\ \A r \in Runs : todo[r] = "unborn"
    /\ app' = "up" /\ Goto(Poller, "idle") /\ Keep
    /\ UNCHANGED <<row, crashes, trainers, file, recorded, gpu, cursor, lock, poller>>

-------------------------------------------------------------------------------
(* Surroundings: the trainers, the job engine, the end of the process *)

TrainerWrites(i, m) ==
    /\ i \in live
    /\ m = "done" => "step" \in fresh[owner[i]]
    /\ fresh' = [fresh EXCEPT ![owner[i]] = @ \cup {m}]
    /\ UNCHANGED <<row, app, crashes, spawned, live, owner, stale, saved, file, recorded,
                   gpu, cursor, lock, process, poller>>

TrainerSaves(i) ==
    /\ i \in live /\ "step" \in fresh[owner[i]]
    /\ saved' = saved \cup {owner[i]}
    /\ UNCHANGED <<row, app, crashes, spawned, live, owner, fresh, stale, file, recorded,
                   gpu, cursor, lock, process, poller>>

TrainerExits(i) ==
    /\ i \in live /\ live' = live \ {i}
    /\ UNCHANGED <<row, app, crashes, spawned, owner, fresh, stale, saved, file, recorded,
                   gpu, cursor, lock, process, poller>>

\* The job engine may evict a loaded model that is not pinned.
Evict ==
    /\ app = "up" /\ alive # NoOne /\ pin = "free"
    /\ alive' = NoOne
    /\ UNCHANGED <<row, app, crashes, trainers, file, recorded, pin, cursor, lock,
                   process, poller>>

\* The application stops and is started again; the trainers stay.
Crash ==
    /\ crashes < MaxCrashes /\ crashes' = crashes + 1
    /\ app' = "recovering"
    /\ alive' = NoOne /\ pin' = "free" /\ lock' = NoOne
    /\ cursor' = [r \in Runs |-> "start"]
    /\ pc' = [p \in Procs |-> IF p = Poller THEN "list" ELSE "idle"]
    /\ op' = [p \in Procs |-> "none"] /\ on' = [p \in Procs |-> NoOne]
    /\ snap' = [p \in Procs |-> "unborn"] /\ goal' = [p \in Procs |-> "unborn"]
    /\ pid' = [p \in Procs |-> 0]
    /\ sawAlive' = "dead"
    /\ todo' = [r \in Runs |-> IF row[r] \in Recoverable THEN row[r] ELSE "unborn"]
    /\ UNCHANGED <<row, trainers, file, recorded>>

-------------------------------------------------------------------------------
Call(q) == \E r \in Runs : Start(q, r) \/ Resume(q, r) \/ Pause(q, r) \/ Cancel(q, r)
Continue(q) == Launch(q) \/ StopProcess(q) \/ CancelAgain(q) \/ Judge(q)

Poll ==
    \/ PollBegin \/ PollEnd \/ RecoverDone
    \/ \E r \in Runs : PollRun(r) \/ RecoverRun(r)
    \/ Judge(Poller)

World ==
    \/ \E i \in Pids : \/ \E m \in Markers : TrainerWrites(i, m)
                       \/ TrainerSaves(i) \/ TrainerExits(i)
    \/ Evict \/ Crash

Next ==
    \/ \E q \in Requests : Call(q) \/ Continue(q)
    \/ \E r \in Runs : Delete(r)
    \/ Poll \/ World

Spec == Init /\ [][Next]_vars

\* A handler under way and the poller loop go on; the lock is a fair mutex.
Fairness ==
    /\ \A q \in Requests : WF_vars(Continue(q))
    /\ SF_vars(Poll)
FairSpec == Spec /\ Fairness

-------------------------------------------------------------------------------
(* Properties *)

Busy(r)  == \E p \in Procs : on[p] = r
Quiet    == app = "up" /\ \A p \in Procs : on[p] = NoOne
LiveOf(r) == {i \in live : owner[i] = r}

\* The table row moves as RunLifecycle promises, whoever writes it, in
\* whatever order two requests, the poller and recovery get there.
Lifecycle == INSTANCE RunLifecycle WITH Runs <- Runs, row <- row
ImplementsLifecycle == Lifecycle!Spec

\* "only one training can run at a time": two trainers never share the GPU.
OneTrainer == Cardinality(live) <= 1

\* A trainer nobody is stopping belongs to a row that pause or cancel can act
\* on; a run that was stopped, ended or deleted has left no process behind.
NoOrphanTrainer ==
    \A r \in Runs : LiveOf(r) # {} /\ ~Busy(r) =>
        row[r] \in {"preparing", "running", "resuming"}

\* A run whose trainer reached its end and left a checkpoint is never written
\* off as interrupted, however the poller's reads fall between its last words.
FinishedIsNotInterrupted ==
    \A r \in Runs : row[r] = "interrupted" => ~("done" \in fresh[r] /\ r \in saved)

\* The GPU is given back: when nothing is under way, only a run that is going
\* on holds the reservation.
ReservationHasRun ==
    Quiet /\ alive # NoOne => row[alive] \in Recoverable

\* A completed run said so in its log and left a checkpoint.
CompletedIsReal ==
    \A r \in Runs : row[r] \in {"finishing", "completed"} =>
        r \in saved /\ "done" \in fresh[r] \cup stale[r]

\* A run whose trainer is gone does not read as going on for ever.
DeadRunSettles ==
    \A r \in Runs :
        (row[r] \in Recoverable /\ LiveOf(r) = {})
            ~> (row[r] \notin Recoverable \/ LiveOf(r) # {})

\* The training adapter "pins, so it is never evicted": as long as a trainer
\* is going on its reservation keeps its pin.
LiveRunIsPinned ==
    Quiet /\ (\E r \in Runs : row[r] = "running" /\ LiveOf(r) # {}) => pin = "pinned"
===============================================================================
