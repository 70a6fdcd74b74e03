--------------------------- MODULE TrainingRunsProofs ---------------------------
(***************************************************************************)
(* Proofs about TrainingRuns for any set of runs, requests and restarts:   *)
(* types, the implementation of RunLifecycle, and that a completed run did *)
(* complete.  The induction needs, next to the types, that a process under *)
(* way has a run in its hands and that every trainer ever spawned has an   *)
(* owner.                                                                  *)
(*                                                                         *)
(* Then what holds only while requests come one at a time (OneCaller): the *)
(* reservation is given back.  And what also needs that the application is *)
(* not restarted (NoRestart): one trainer at a time, none without a row to *)
(* stop it by, and no finished run judged interrupted.  Both hypotheses    *)
(* are needed: with a second request, or a restart, TLC violates them.     *)
(* The start lock hands turns around (Turns, for any callers and restarts);*)
(* Held follows the reservation, Undisturbed the one trainer there can be, *)
(* Judgement a verdict from the log to the row.                            *)
(***************************************************************************)
EXTENDS TrainingRuns, FiniteSetTheorems, TLAPS

\* The part of the invariant that a Return or a Take writes as a whole.
ProcessOK ==
    /\ lock \in Procs \cup {NoOne}
    /\ pc \in [Procs -> PCs] /\ op \in [Procs -> Ops]
    /\ on \in [Procs -> Runs \cup {NoOne}]
    /\ snap \in [Procs -> Rows \ (Terminal \cup {"gone"})]
    /\ goal \in [Procs -> Rows]
    /\ pid \in [Procs -> 0 .. MaxPids]
    /\ \A p \in Procs : pc[p] \notin {"idle", "list"} => on[p] \in Runs

Owned == \A i \in 1 .. spawned : owner[i] \in Runs

Typed == TypeOK /\ ProcessOK /\ Owned

\* Judging a run has four outcomes.
LEMMA Verdicts ==
    ASSUME NEW s, NEW seen, NEW checkpoint
    PROVE  Verdict(s, seen, checkpoint) \in {"completed", "finishing", "failed", "interrupted"}
  BY Zenon DEF Verdict

\* Writing a PID keeps a table of PIDs one.
LEMMA PidUpdate ==
    ASSUME NEW f \in [Runs -> 0 .. MaxPids], NEW r, NEW v \in 0 .. MaxPids
    PROVE  [f EXCEPT ![r] = v] \in [Runs -> 0 .. MaxPids]
  OBVIOUS

\* A process whose call returns is idle, or back at the poller's list.
LEMMA ReturnOK ==
    ASSUME ProcessOK, NEW p \in Procs, Return(p)
    PROVE  ProcessOK'
  BY BoundsAssumption DEF ProcessOK, Return, Goto, PCs, Ops, Rows, RunStates, Terminal

\* So is one that is through with reconcile_dead, unless it is a cancel.
LEMMA JudgedOK ==
    ASSUME ProcessOK, NEW p \in Procs, pc[p] \notin {"idle", "list"}, Judged(p)
    PROVE  ProcessOK'
<1>1. CASE op[p] = "cancel"
  BY <1>1 DEF Judged, ProcessOK, Goto, Keep, PCs
<1>2. CASE op[p] # "cancel"
  BY <1>2, ReturnOK DEF Judged
<1>3. QED
  BY <1>1, <1>2

\* A failed launch goes on to finish its run as failed.
LEMMA LaunchFailedOK ==
    ASSUME ProcessOK, NEW p \in Procs, pc[p] \notin {"idle", "list"},
           LaunchFailed(p), UNCHANGED lock
    PROVE  ProcessOK'
  BY DEF ProcessOK, LaunchFailed, Goto, PCs, Rows, RunStates, Terminal

\* A process that turns to a run has that run in its hands.
LEMMA TakeOK ==
    ASSUME ProcessOK, NEW p \in Procs, NEW o \in Ops, NEW r \in Runs,
           NEW s \in Rows \ (Terminal \cup {"gone"}), NEW g \in Rows, NEW label \in PCs,
           Take(p, o, r, s, g, label), UNCHANGED lock
    PROVE  ProcessOK'
  BY DEF ProcessOK, Take, Goto

\* A process under way goes on to another step of its own.
LEMMA GotoOK ==
    ASSUME ProcessOK, NEW p \in Procs, pc[p] \notin {"idle", "list"},
           NEW label \in PCs, Goto(p, label), Keep, UNCHANGED lock
    PROVE  ProcessOK'
  BY DEF ProcessOK, Goto, Keep

\* A compare-and-swap leaves every row a row.
LEMMA SwapOK ==
    ASSUME row \in [Runs -> Rows], NEW r, NEW s, NEW t \in Rows, Swap(r, s, t)
    PROVE  row' \in [Runs -> Rows]
  BY DEF Swap

\* The initial state is well formed.
LEMMA InitTyped == Init => Typed
  BY ProcessesAssumption, RunsAssumption, MarkersAssumption, BoundsAssumption
  DEF Init, Typed, ProcessOK, Owned, TypeOK, Procs, Pids, PCs, Ops,
        Rows, RunStates, Terminal, Recoverable

\* Every action keeps the types and the run in each process's hands.
LEMMA TypedStep == Typed /\ [Next]_vars => Typed'
<1> SUFFICES ASSUME Typed, [Next]_vars
             PROVE  Typed'
  OBVIOUS
<1> USE ProcessesAssumption, RunsAssumption, MarkersAssumption, BoundsAssumption
    DEF Typed, ProcessOK, TypeOK, Owned, Procs, Pids, PCs, Ops,
        Rows, RunStates, Terminal, Recoverable,
        Goto, Keep, Take, trainers, gpu, process, poller
<1>1. ASSUME NEW q \in Requests, NEW r \in Runs, Start(q, r) PROVE Typed'
  BY <1>1 DEF Start
<1>2. ASSUME NEW q \in Requests, NEW r \in Runs, Resume(q, r) PROVE Typed'
  BY <1>2 DEF Resume, Swap
<1>3. ASSUME NEW q \in Requests, Spawn(q) PROVE Typed'
  <2>1. ProcessOK'
    <3>1. CASE LaunchFailed(q)
      BY <1>3, <3>1, LaunchFailedOK DEF Spawn
    <3>2. CASE ~LaunchFailed(q)
      <4> HIDE DEF Typed, TypeOK, ProcessOK
      <4>1. ProcessOK /\ on[q] \in Runs
        BY <1>3 DEF Typed, ProcessOK, Spawn
      <4>2. spawned \in Nat
        BY DEF Typed, TypeOK
      <4>3. /\ spawned < MaxPids
            /\ Goto(q, "writepid") /\ pid' = [pid EXCEPT ![q] = spawned + 1]
            /\ UNCHANGED <<op, on, snap, goal, lock>>
        BY <1>3, <3>2 DEF Spawn
      <4>4. spawned + 1 \in 0 .. MaxPids
        BY <4>2, <4>3
      <4>5. QED
        BY <4>1, <4>3, <4>4 DEF ProcessOK
    <3>3. QED
      BY <3>1, <3>2
  <2>2. CASE UNCHANGED trainers
    BY <1>3, <2>1, <2>2 DEF Spawn
  <2>3. CASE ~(UNCHANGED trainers)
    <3>1. /\ spawned < MaxPids /\ spawned' = spawned + 1
          /\ live' = live \cup {spawned + 1}
          /\ owner' = [owner EXCEPT ![spawned + 1] = on[q]]
          /\ on[q] \in Runs
      BY <1>3, <2>3 DEF Spawn
    <3>2. spawned' \in 0 .. MaxPids /\ live' \subseteq 1 .. spawned' /\ Owned'
      BY <3>1
    <3>3. fresh' \in [Runs -> SUBSET Markers] /\ stale' \in [Runs -> SUBSET Markers]
      <4> HIDE DEF Typed, TypeOK, ProcessOK
      <4>1. fresh \in [Runs -> SUBSET Markers] /\ stale \in [Runs -> SUBSET Markers]
        BY DEF Typed, TypeOK
      <4>2. /\ stale' = [stale EXCEPT ![on[q]] = @ \cup fresh[on[q]]]
            /\ fresh' = [fresh EXCEPT ![on[q]] = {}]
        BY <1>3, <2>3 DEF Spawn
      <4>3. QED
        BY <3>1, <4>1, <4>2
    <3>4. QED
      BY <1>3, <2>1, <2>3, <3>1, <3>2, <3>3 DEF Spawn
  <2>4. QED
    BY <2>2, <2>3
<1>4. ASSUME NEW q \in Requests, WritePid(q) PROVE Typed'
  <2>1. ProcessOK'
    <3>1. CASE LaunchFailed(q)
      BY <1>4, <3>1, LaunchFailedOK DEF WritePid
    <3>2. CASE ~LaunchFailed(q)
      BY <1>4, <3>2, GotoOK DEF WritePid
    <3>3. QED
      BY <3>1, <3>2
  <2>2. /\ file' \in [Runs -> 0 .. MaxPids] /\ recorded' \in [Runs -> 0 .. MaxPids]
        /\ live' \subseteq 1 .. spawned
    <3> HIDE DEF Typed, TypeOK, ProcessOK
    <3>1. /\ file \in [Runs -> 0 .. MaxPids] /\ recorded \in [Runs -> 0 .. MaxPids]
          /\ live \subseteq 1 .. spawned /\ pid[q] \in 0 .. MaxPids
      BY DEF Typed, TypeOK
    <3>2. CASE /\ file' = [file EXCEPT ![on[q]] = pid[q]]
               /\ UNCHANGED <<live, recorded>>
      BY <3>1, <3>2
    <3>3. CASE /\ live' = live \ {pid[q]}
               /\ recorded' = [recorded EXCEPT ![on[q]] = 0]
               /\ UNCHANGED file
      <4>1. 0 \in 0 .. MaxPids
        BY BoundsAssumption
      <4>2. QED
        BY <3>1, <3>3, <4>1, PidUpdate
    <3>4. QED
      BY <1>4, <3>2, <3>3 DEF WritePid, RolledBack
  <2>3. /\ alive' \in Runs \cup {NoOne} /\ pin' \in {"pinned", "free"}
        /\ cursor' \in [Runs -> {"start", "launch"}]
    BY <1>4 DEF WritePid, ReleaseGpu, Released
  <2>4. QED
    BY <1>4, <2>1, <2>2, <2>3 DEF WritePid
<1>5. ASSUME NEW q \in Requests, SetPid(q) PROVE Typed'
  BY <1>5 DEF SetPid
<1>6. ASSUME NEW q \in Requests, Reserve(q) PROVE Typed'
  <2>1. ProcessOK'
    BY <1>6, GotoOK DEF Reserve
  <2>2. alive' \in Runs \cup {NoOne}
    BY <1>6 DEF Reserve
  <2>3. QED
    BY <1>6, <2>1, <2>2 DEF Reserve
<1>6a. ASSUME NEW q \in Requests, SeedCursor(q) PROVE Typed'
  <2>1. ProcessOK'
    BY <1>6a, ReturnOK, GotoOK DEF SeedCursor
  <2>2. cursor' \in [Runs -> {"start", "launch"}]
    BY <1>6a DEF SeedCursor
  <2>3. QED
    BY <1>6a, <2>1, <2>2 DEF SeedCursor
<1>7. ASSUME NEW q \in Requests, ThenRunning(q) PROVE Typed'
  <2>1. ProcessOK'
    BY <1>7, ReturnOK DEF ThenRunning
  <2>2. row' \in [Runs -> Rows]
    BY <1>7, SwapOK DEF ThenRunning
  <2>3. QED
    BY <1>7, <2>1, <2>2 DEF ThenRunning
<1>8. ASSUME NEW q \in Requests, NEW r \in Runs, Pause(q, r) PROVE Typed'
  BY <1>8 DEF Pause
<1>9. ASSUME NEW q \in Requests, NEW r \in Runs, Cancel(q, r) PROVE Typed'
  BY <1>9 DEF Cancel
<1>10. ASSUME NEW q \in Requests, StopProcess(q) PROVE Typed'
  <2>1. live' \subseteq 1 .. spawned
    BY <1>10 DEF StopProcess
  <2>2. ProcessOK'
    <3> HIDE DEF Typed, TypeOK, ProcessOK
    <3>1. ProcessOK /\ on[q] \in Runs
      BY <1>10 DEF Typed, ProcessOK, StopProcess
    <3>2. CASE ProcessAlive(on[q])
      BY <1>10, <3>1, <3>2 DEF StopProcess, ProcessOK
    <3>3. CASE ~ProcessAlive(on[q])
      BY <1>10, <3>1, <3>3 DEF StopProcess, ProcessOK
    <3>4. QED
      BY <3>2, <3>3
  <2>3. QED
    BY <1>10, <2>1, <2>2 DEF StopProcess
<1>11. ASSUME NEW q \in Requests, CancelAgain(q) PROVE Typed'
  <2>1. CASE EndedByItself(on[q])
    <3>1. ProcessOK'
      BY <1>11, <2>1, ReturnOK DEF CancelAgain
    <3>2. QED
      BY <1>11, <3>1 DEF CancelAgain
  <2>2. CASE ~EndedByItself(on[q])
    <3>1. row[on[q]] \in Rows \ (Terminal \cup {"gone"})
      BY <1>11, <2>2 DEF CancelAgain, EndedByItself
    <3>2. ProcessOK'
      <4> HIDE DEF Typed, TypeOK, ProcessOK, Take, Terminal, RunStates
      <4>1. ProcessOK /\ on[q] \in Runs
        BY <1>11 DEF Typed, ProcessOK, CancelAgain
      <4>2. Take(q, "stop", on[q], row[on[q]], "cancelled", "move") /\ UNCHANGED lock
        BY <1>11, <2>2 DEF CancelAgain
      <4>3. QED
        BY <3>1, <4>1, <4>2, TakeOK DEF Terminal, RunStates
    <3>3. QED
      BY <1>11, <3>2 DEF CancelAgain
  <2>3. QED
    BY <2>1, <2>2
<1>12. ASSUME NEW r \in Runs, Delete(r) PROVE Typed'
  BY <1>12 DEF Delete
<1>13. ASSUME NEW p \in Procs, Observe(p) PROVE Typed'
  <2> DEFINE back == snap[p] = "resuming" /\ "step" \in View(on[p])
                      /\ row[on[p]] = "resuming"
             s    == IF back THEN "running" ELSE snap[p]
  <2>1. row' \in [Runs -> Rows]
    BY <1>13 DEF Observe
  <2>2. ProcessOK'
    <3> HIDE DEF Typed, TypeOK, ProcessOK
    <3>1. ProcessOK /\ on[p] \in Runs
      BY <1>13 DEF Typed, ProcessOK, Observe
    <3>2. Verdict(s, View(on[p]), on[p] \in saved) \in Rows
      BY Verdicts
    <3>3. s \in Rows \ (Terminal \cup {"gone"})
      BY <3>1 DEF ProcessOK
    <3>4. /\ snap' = [snap EXCEPT ![p] = s]
          /\ goal' = [goal EXCEPT ![p] = Verdict(s, View(on[p]), on[p] \in saved)]
          /\ Goto(p, "settle") /\ UNCHANGED <<op, on, pid, lock>>
      BY <1>13 DEF Observe
    <3> HIDE DEF s
    <3>5. QED
      BY <3>1, <3>2, <3>3, <3>4 DEF ProcessOK
  <2>3. QED
    BY <1>13, <2>1, <2>2 DEF Observe
<1>14. ASSUME NEW p \in Procs, Settle(p) PROVE Typed'
  <2>1. ProcessOK'
    BY <1>14, ReturnOK, GotoOK DEF Settle
  <2>2. QED
    BY <1>14, <2>1 DEF Settle
<1>15. ASSUME NEW p \in Procs, Import(p) PROVE Typed'
  BY <1>15 DEF Import
<1>16. ASSUME NEW p \in Procs, Transition(p) PROVE Typed'
  <2> DEFINE r == on[p]  s == snap[p]  t == goal[p]
  <2>1. r \in Runs /\ s \in Rows /\ t \in Rows
    BY <1>16 DEF Transition
  <2>2. row' \in [Runs -> Rows]
    BY <1>16, <2>1, SwapOK DEF Transition
  <2>3. ProcessOK'
    <3>1. CASE Return(p)
      BY <3>1, ReturnOK
    <3>2. CASE Judged(p)
      BY <1>16, <3>2, JudgedOK DEF Transition
    <3>3. CASE ~Return(p) /\ ~Judged(p)
      <4>1. CASE Goto(p, "release") /\ Keep /\ UNCHANGED lock
        BY <1>16, <4>1, GotoOK DEF Transition
      <4>2. CASE /\ snap' = [snap EXCEPT ![p] = IF t = "finishing" THEN t ELSE s]
                 /\ Goto(p, IF t = "finishing" THEN "import" ELSE "clearpid")
                 /\ UNCHANGED <<op, on, goal, pid, lock>>
        BY <1>16, <2>1, <4>2 DEF Transition
      <4>3. CASE /\ snap' = [snap EXCEPT ![p] = "running"]
                 /\ UNCHANGED <<pc, op, on, goal, pid, lock>>
        BY <1>16, <2>1, <4>3 DEF Transition
      <4>4. QED
        BY <1>16, <3>3, <4>1, <4>2, <4>3 DEF Transition
    <3>4. QED
      BY <3>1, <3>2, <3>3
  <2>4. QED
    BY <1>16, <2>2, <2>3 DEF Transition
<1>17. ASSUME NEW p \in Procs, ClearPid(p) PROVE Typed'
  <2>1. ProcessOK'
    BY <1>17, GotoOK DEF ClearPid
  <2>2. recorded' \in [Runs -> 0 .. MaxPids]
    <3> HIDE DEF Typed
    <3>1. recorded \in [Runs -> 0 .. MaxPids]
      BY DEF Typed
    <3>2. recorded' = [recorded EXCEPT ![on[p]] = 0] /\ 0 \in 0 .. MaxPids
      BY <1>17 DEF ClearPid
    <3>3. QED
      BY <3>1, <3>2, PidUpdate
  <2>3. QED
    BY <1>17, <2>1, <2>2 DEF ClearPid
<1>18. ASSUME NEW p \in Procs, Release(p) PROVE Typed'
  <2>1. ProcessOK'
    BY <1>18, JudgedOK DEF Release
  <2>2. /\ alive' \in Runs \cup {NoOne} /\ pin' \in {"pinned", "free"}
        /\ cursor' \in [Runs -> {"start", "launch"}]
    BY <1>18 DEF Release, ReleaseGpu, Released
  <2>3. QED
    BY <1>18, <2>1, <2>2 DEF Release
<1>19. CASE PollBegin
  BY <1>19 DEF PollBegin, Polled
<1>20. ASSUME NEW r \in Runs, PollRun(r) PROVE Typed'
  BY <1>20 DEF PollRun
<1>21. CASE PollEnd
  BY <1>21 DEF PollEnd
<1>22. ASSUME NEW r \in Runs, RecoverRun(r) PROVE Typed'
  BY <1>22 DEF RecoverRun
<1>23. CASE RecoverDone
  BY <1>23 DEF RecoverDone
<1>24. ASSUME NEW i \in Pids, NEW m \in Markers, TrainerWrites(i, m) PROVE Typed'
  BY <1>24 DEF TrainerWrites
<1>25. ASSUME NEW i \in Pids, TrainerSaves(i) PROVE Typed'
  BY <1>25 DEF TrainerSaves
<1>26. ASSUME NEW i \in Pids, TrainerExits(i) PROVE Typed'
  BY <1>26 DEF TrainerExits
<1>27. CASE Evict
  BY <1>27 DEF Evict
<1>28. CASE Crash
  BY <1>28 DEF Crash
<1>29. CASE UNCHANGED vars
  BY <1>29 DEF vars
<1>30. QED
  BY <1>1, <1>2, <1>3, <1>4, <1>5, <1>6, <1>6a, <1>7, <1>8, <1>9, <1>10, <1>11, <1>12,
     <1>13, <1>14, <1>15, <1>16, <1>17, <1>18, <1>19, <1>20, <1>21, <1>22, <1>23,
     <1>24, <1>25, <1>26, <1>27, <1>28, <1>29 DEF Next, Call, Continue, Launch,
     Judge, Poll, World, Procs

-------------------------------------------------------------------------------
(* The table row implements RunLifecycle *)

\* A compare-and-swap along the table is a move of the abstract row, also when
\* the row changed since it was read.
LEMMA SwapMoves ==
    ASSUME Typed, NEW r \in Runs \cup {NoOne}, NEW s, NEW t, Legal(s, t), Swap(r, s, t)
    PROVE  [Lifecycle!Next]_row
<1>1. CASE r = NoOne
  BY <1>1, RunsAssumption DEF Swap, Typed, TypeOK
<1>2. CASE r \in Runs
  <2>1. t \in Lifecycle!RunStates /\ Lifecycle!Legal(s, t)
    BY DEF Legal, Moves, Lifecycle!Legal, Lifecycle!Moves, Lifecycle!RunStates,
           Lifecycle!Terminal
  <2>2. Lifecycle!Move(r)
    BY <2>1 DEF Swap, Lifecycle!Move
  <2>3. QED
    BY <1>2, <2>2 DEF Lifecycle!Next
<1>3. QED
  BY <1>1, <1>2

\* Every write of a row is a move of the table, whatever was read before.
LEMMA LifecycleStep == Typed /\ [Next]_vars => [Lifecycle!Next]_row
<1> SUFFICES ASSUME Typed, [Next]_vars
             PROVE  [Lifecycle!Next]_row
  OBVIOUS
<1> USE DEF trainers, gpu, process, poller
<1>1. ASSUME NEW q \in Requests, NEW r \in Runs, Start(q, r)
      PROVE  [Lifecycle!Next]_row
  <2>1. Lifecycle!Create(r)
    BY <1>1 DEF Start, Lifecycle!Create
  <2>2. QED
    BY <2>1 DEF Lifecycle!Next
<1>2. ASSUME NEW q \in Requests, NEW r \in Runs, Resume(q, r)
      PROVE  [Lifecycle!Next]_row
  <2>1. Legal(row[r], "resuming")
    BY <1>2 DEF Resume, Legal, Moves
  <2>2. QED
    BY <1>2, <2>1, SwapMoves DEF Resume
<1>3. ASSUME NEW q \in Requests, Spawn(q) PROVE [Lifecycle!Next]_row
  BY <1>3 DEF Spawn
<1>4. ASSUME NEW q \in Requests, WritePid(q) PROVE [Lifecycle!Next]_row
  BY <1>4 DEF WritePid
<1>5. ASSUME NEW q \in Requests, SetPid(q) PROVE [Lifecycle!Next]_row
  BY <1>5 DEF SetPid
<1>6. ASSUME NEW q \in Requests, Reserve(q) PROVE [Lifecycle!Next]_row
  BY <1>6 DEF Reserve
<1>6a. ASSUME NEW q \in Requests, SeedCursor(q) PROVE [Lifecycle!Next]_row
  BY <1>6a DEF SeedCursor
<1>7. ASSUME NEW q \in Requests, ThenRunning(q) PROVE [Lifecycle!Next]_row
  <2>1. Legal("preparing", "running") /\ on[q] \in Runs \cup {NoOne}
    BY DEF Legal, Moves, Typed, ProcessOK, Procs
  <2>2. QED
    BY <1>7, <2>1, SwapMoves DEF ThenRunning
<1>8. ASSUME NEW q \in Requests, NEW r \in Runs, Pause(q, r)
      PROVE  [Lifecycle!Next]_row
  BY <1>8 DEF Pause
<1>9. ASSUME NEW q \in Requests, NEW r \in Runs, Cancel(q, r)
      PROVE  [Lifecycle!Next]_row
  BY <1>9 DEF Cancel
<1>10. ASSUME NEW q \in Requests, StopProcess(q) PROVE [Lifecycle!Next]_row
  BY <1>10 DEF StopProcess
<1>11. ASSUME NEW q \in Requests, CancelAgain(q) PROVE [Lifecycle!Next]_row
  BY <1>11 DEF CancelAgain
<1>12. ASSUME NEW r \in Runs, Delete(r) PROVE [Lifecycle!Next]_row
  <2>1. Lifecycle!Delete(r)
    BY <1>12 DEF Delete, Terminal, Lifecycle!Delete, Lifecycle!Terminal
  <2>2. QED
    BY <2>1 DEF Lifecycle!Next
<1>13. ASSUME NEW p \in Procs, Observe(p) PROVE [Lifecycle!Next]_row
  <2>1. Legal("resuming", "running") /\ on[p] \in Runs \cup {NoOne}
    BY DEF Legal, Moves, Typed, ProcessOK
  <2>2. row' = row \/ Swap(on[p], "resuming", "running")
    BY <1>13 DEF Observe, Swap
  <2>3. QED
    BY <2>1, <2>2, SwapMoves
<1>14. ASSUME NEW p \in Procs, Settle(p) PROVE [Lifecycle!Next]_row
  BY <1>14 DEF Settle
<1>15. ASSUME NEW p \in Procs, Import(p) PROVE [Lifecycle!Next]_row
  BY <1>15 DEF Import
<1>16. ASSUME NEW p \in Procs, Transition(p) PROVE [Lifecycle!Next]_row
  <2>1. Legal("resuming", "running") /\ on[p] \in Runs \cup {NoOne}
    BY DEF Legal, Moves, Typed, ProcessOK
  <2>2. \/ row' = row
        \/ Legal(snap[p], goal[p]) /\ Swap(on[p], snap[p], goal[p])
        \/ Swap(on[p], "resuming", "running")
    BY <1>16 DEF Transition, Detour
  <2>3. QED
    BY <2>1, <2>2, SwapMoves
<1>17. ASSUME NEW p \in Procs, ClearPid(p) PROVE [Lifecycle!Next]_row
  BY <1>17 DEF ClearPid
<1>18. ASSUME NEW p \in Procs, Release(p) PROVE [Lifecycle!Next]_row
  BY <1>18 DEF Release
<1>19. CASE PollBegin
  BY <1>19 DEF PollBegin
<1>20. ASSUME NEW r \in Runs, PollRun(r) PROVE [Lifecycle!Next]_row
  BY <1>20 DEF PollRun
<1>21. CASE PollEnd
  BY <1>21 DEF PollEnd
<1>22. ASSUME NEW r \in Runs, RecoverRun(r) PROVE [Lifecycle!Next]_row
  BY <1>22 DEF RecoverRun
<1>23. CASE RecoverDone
  BY <1>23 DEF RecoverDone
<1>24. ASSUME NEW i \in Pids, NEW m \in Markers, TrainerWrites(i, m)
       PROVE  [Lifecycle!Next]_row
  BY <1>24 DEF TrainerWrites
<1>25. ASSUME NEW i \in Pids, TrainerSaves(i) PROVE [Lifecycle!Next]_row
  BY <1>25 DEF TrainerSaves
<1>26. ASSUME NEW i \in Pids, TrainerExits(i) PROVE [Lifecycle!Next]_row
  BY <1>26 DEF TrainerExits
<1>27. CASE Evict
  BY <1>27 DEF Evict
<1>28. CASE Crash
  BY <1>28 DEF Crash
<1>29. CASE UNCHANGED vars
  BY <1>29 DEF vars
<1>30. QED
  BY <1>1, <1>2, <1>3, <1>4, <1>5, <1>6, <1>6a, <1>7, <1>8, <1>9, <1>10, <1>11, <1>12,
     <1>13, <1>14, <1>15, <1>16, <1>17, <1>18, <1>19, <1>20, <1>21, <1>22, <1>23,
     <1>24, <1>25, <1>26, <1>27, <1>28, <1>29 DEF Next, Call, Continue, Launch,
     Judge, Poll, World, Procs

-------------------------------------------------------------------------------
(* Completion is backed by the log and by a checkpoint *)

Complete == {r \in Runs : r \in saved /\ "done" \in fresh[r] \cup stale[r]}

\* Wherever a process or the poller's list holds the verdict that a run is
\* complete, the evidence for it is on disk.
Evidence ==
    /\ \A p \in Procs :
          /\ pc[p] \in {"stop", "settle", "move"} /\ goal[p] \in {"finishing", "completed"}
               => on[p] \in Complete
          /\ pc[p] = "import" => on[p] \in Complete
          /\ pc[p] \notin {"idle", "list"} /\ snap[p] = "finishing" => on[p] \in Complete
    /\ \A r \in Runs : todo[r] = "finishing" => r \in Complete
    /\ \A r \in Runs : row[r] \in {"finishing", "completed"} => r \in Complete

Inv == Typed /\ Evidence

\* Only a finishing run is judged completed.
LEMMA VerdictReal ==
    ASSUME NEW s, NEW seen, NEW checkpoint
    PROVE  Verdict(s, seen, checkpoint) = "completed" => s = "finishing"
  BY Zenon DEF Verdict

\* Before the first run there is no verdict to back.
LEMMA InitEvidence == Init => Evidence
  BY DEF Init, Evidence, Complete

\* Logs and checkpoints only grow: a launch moves markers, it drops none.
LEMMA CompleteGrows == Typed /\ [Next]_vars => Complete \subseteq Complete'
<1> SUFFICES ASSUME Typed, [Next]_vars
             PROVE  Complete \subseteq Complete'
  OBVIOUS
<1> USE DEF Complete, trainers, gpu, process, poller
<1>1. ASSUME NEW q \in Requests, NEW r \in Runs, Start(q, r)
      PROVE  Complete \subseteq Complete'
  BY <1>1 DEF Start
<1>2. ASSUME NEW q \in Requests, NEW r \in Runs, Resume(q, r)
      PROVE  Complete \subseteq Complete'
  BY <1>2 DEF Resume
<1>3. ASSUME NEW q \in Requests, Spawn(q) PROVE Complete \subseteq Complete'
  <2>1. on[q] \in Runs \cup {NoOne}
    BY DEF Typed, ProcessOK, Procs
  <2>2. \A r \in Runs : fresh'[r] \cup stale'[r] = fresh[r] \cup stale[r]
    BY <1>3, <2>1, RunsAssumption DEF Spawn, Typed, TypeOK
  <2>3. saved' = saved
    BY <1>3 DEF Spawn
  <2>4. QED
    BY <2>2, <2>3
<1>4. ASSUME NEW q \in Requests, WritePid(q) PROVE Complete \subseteq Complete'
  BY <1>4 DEF WritePid
<1>5. ASSUME NEW q \in Requests, SetPid(q) PROVE Complete \subseteq Complete'
  BY <1>5 DEF SetPid
<1>6. ASSUME NEW q \in Requests, Reserve(q) PROVE Complete \subseteq Complete'
  BY <1>6 DEF Reserve
<1>6a. ASSUME NEW q \in Requests, SeedCursor(q) PROVE Complete \subseteq Complete'
  BY <1>6a DEF SeedCursor
<1>7. ASSUME NEW q \in Requests, ThenRunning(q) PROVE Complete \subseteq Complete'
  BY <1>7 DEF ThenRunning
<1>8. ASSUME NEW q \in Requests, NEW r \in Runs, Pause(q, r)
      PROVE  Complete \subseteq Complete'
  BY <1>8 DEF Pause
<1>9. ASSUME NEW q \in Requests, NEW r \in Runs, Cancel(q, r)
      PROVE  Complete \subseteq Complete'
  BY <1>9 DEF Cancel
<1>10. ASSUME NEW q \in Requests, StopProcess(q) PROVE Complete \subseteq Complete'
  BY <1>10 DEF StopProcess
<1>11. ASSUME NEW q \in Requests, CancelAgain(q) PROVE Complete \subseteq Complete'
  BY <1>11 DEF CancelAgain
<1>12. ASSUME NEW r \in Runs, Delete(r) PROVE Complete \subseteq Complete'
  BY <1>12 DEF Delete
<1>13. ASSUME NEW p \in Procs, Observe(p) PROVE Complete \subseteq Complete'
  BY <1>13 DEF Observe
<1>14. ASSUME NEW p \in Procs, Settle(p) PROVE Complete \subseteq Complete'
  BY <1>14 DEF Settle
<1>15. ASSUME NEW p \in Procs, Import(p) PROVE Complete \subseteq Complete'
  BY <1>15 DEF Import
<1>16. ASSUME NEW p \in Procs, Transition(p) PROVE Complete \subseteq Complete'
  BY <1>16 DEF Transition
<1>17. ASSUME NEW p \in Procs, ClearPid(p) PROVE Complete \subseteq Complete'
  BY <1>17 DEF ClearPid
<1>18. ASSUME NEW p \in Procs, Release(p) PROVE Complete \subseteq Complete'
  BY <1>18 DEF Release
<1>19. CASE PollBegin
  BY <1>19 DEF PollBegin
<1>20. ASSUME NEW r \in Runs, PollRun(r) PROVE Complete \subseteq Complete'
  BY <1>20 DEF PollRun
<1>21. CASE PollEnd
  BY <1>21 DEF PollEnd
<1>22. ASSUME NEW r \in Runs, RecoverRun(r) PROVE Complete \subseteq Complete'
  BY <1>22 DEF RecoverRun
<1>23. CASE RecoverDone
  BY <1>23 DEF RecoverDone
<1>24. ASSUME NEW i \in Pids, NEW m \in Markers, TrainerWrites(i, m)
       PROVE  Complete \subseteq Complete'
  <2>1. \A r \in Runs : fresh[r] \subseteq fresh'[r]
    BY <1>24 DEF TrainerWrites, Typed, TypeOK
  <2>2. saved' = saved /\ stale' = stale
    BY <1>24 DEF TrainerWrites
  <2>3. QED
    BY <2>1, <2>2
<1>25. ASSUME NEW i \in Pids, TrainerSaves(i) PROVE Complete \subseteq Complete'
  BY <1>25 DEF TrainerSaves
<1>26. ASSUME NEW i \in Pids, TrainerExits(i) PROVE Complete \subseteq Complete'
  BY <1>26 DEF TrainerExits
<1>27. CASE Evict
  BY <1>27 DEF Evict
<1>28. CASE Crash
  BY <1>28 DEF Crash
<1>29. CASE UNCHANGED vars
  BY <1>29 DEF vars
<1>30. QED
  BY <1>1, <1>2, <1>3, <1>4, <1>5, <1>6, <1>6a, <1>7, <1>8, <1>9, <1>10, <1>11, <1>12,
     <1>13, <1>14, <1>15, <1>16, <1>17, <1>18, <1>19, <1>20, <1>21, <1>22, <1>23,
     <1>24, <1>25, <1>26, <1>27, <1>28, <1>29 DEF Next, Call, Continue, Launch,
     Judge, Poll, World, Procs

\* No step forms or keeps the verdict without the evidence.
LEMMA EvidenceStep == Inv /\ [Next]_vars => Evidence'
<1> SUFFICES ASSUME Inv, [Next]_vars
             PROVE  Evidence'
  OBVIOUS
<1>0. Complete \subseteq Complete'
  BY CompleteGrows DEF Inv
<1> USE <1>0 DEF Inv, Typed, TypeOK, ProcessOK, Owned, Evidence, Goto, Keep, Take,
        trainers, gpu, process, poller
<1>1. ASSUME NEW q \in Requests, NEW r \in Runs, Start(q, r) PROVE Evidence'
  BY <1>1 DEF Start
<1>2. ASSUME NEW q \in Requests, NEW r \in Runs, Resume(q, r) PROVE Evidence'
  BY <1>2 DEF Resume, Swap
<1>3. ASSUME NEW q \in Requests, Spawn(q) PROVE Evidence'
  BY <1>3 DEF Spawn, LaunchFailed
<1>4. ASSUME NEW q \in Requests, WritePid(q) PROVE Evidence'
  BY <1>4 DEF WritePid, LaunchFailed
<1>5. ASSUME NEW q \in Requests, SetPid(q) PROVE Evidence'
  BY <1>5 DEF SetPid
<1>6. ASSUME NEW q \in Requests, Reserve(q) PROVE Evidence'
  BY <1>6 DEF Reserve
<1>6a. ASSUME NEW q \in Requests, SeedCursor(q) PROVE Evidence'
  BY <1>6a DEF SeedCursor, Return
<1>7. ASSUME NEW q \in Requests, ThenRunning(q) PROVE Evidence'
  BY <1>7 DEF ThenRunning, Swap, Return
<1>8. ASSUME NEW q \in Requests, NEW r \in Runs, Pause(q, r) PROVE Evidence'
  BY <1>8 DEF Pause
<1>9. ASSUME NEW q \in Requests, NEW r \in Runs, Cancel(q, r) PROVE Evidence'
  BY <1>9 DEF Cancel
<1>10. ASSUME NEW q \in Requests, StopProcess(q) PROVE Evidence'
  <2>1. UNCHANGED <<on, snap, goal, todo, row>> /\ pc[q] = "stop"
    BY <1>10 DEF StopProcess
  <2>2. Goto(q, "move") \/ Goto(q, "observe")
    BY <1>10 DEF StopProcess
  <2>3. pc \in [Procs -> PCs] /\ q \in Procs
    BY DEF Procs
  <2>4. ASSUME NEW label \in {"move", "observe"}, Goto(q, label)
        PROVE  Evidence'
    <3>1. Evidence
      BY DEF Inv
    <3> HIDE DEF Inv, Typed, TypeOK, ProcessOK
    <3>2. QED
      BY <2>1, <2>3, <2>4, <3>1
  <2>5. QED
    BY <2>2, <2>4
<1>11. ASSUME NEW q \in Requests, CancelAgain(q) PROVE Evidence'
  BY <1>11 DEF CancelAgain, EndedByItself, Return
<1>12. ASSUME NEW r \in Runs, Delete(r) PROVE Evidence'
  BY <1>12 DEF Delete
<1>13. ASSUME NEW p \in Procs, Observe(p) PROVE Evidence'
  <2> DEFINE back == snap[p] = "resuming" /\ "step" \in View(on[p])
                      /\ row[on[p]] = "resuming"
             s    == IF back THEN "running" ELSE snap[p]
             v    == Verdict(s, View(on[p]), on[p] \in saved)
  <2>1. goal' = [goal EXCEPT ![p] = v] /\ UNCHANGED on
    BY <1>13 DEF Observe
  <2>2. snap' = [snap EXCEPT ![p] = s] /\ Goto(p, "settle")
    BY <1>13 DEF Observe
  <2>3. on[p] \in Runs
    BY <1>13 DEF Observe, Inv, Typed, ProcessOK
  <2>4. View(on[p]) \subseteq fresh[on[p]] \cup stale[on[p]]
    BY DEF View
  <2>5. v = "finishing" => on[p] \in Complete
    <3> HIDE DEF s, v, Inv, Typed, TypeOK, ProcessOK, Evidence
    <3>1. v = "finishing" => "done" \in View(on[p]) /\ on[p] \in saved
      BY Zenon DEF v, Verdict
    <3>2. QED
      BY <2>3, <2>4, <3>1 DEF Complete
  <2>6. s = "finishing" => snap[p] = "finishing"
    OBVIOUS
  <2>7. snap[p] = "finishing" => on[p] \in Complete
    BY <1>13 DEF Observe
  <2>8. v = "completed" => on[p] \in Complete
    BY <2>6, <2>7, VerdictReal
  <2>9. \A r \in Runs : row'[r] \in {"finishing", "completed"} => r \in Complete
    BY <1>13 DEF Observe, Inv, Typed, TypeOK
  <2> HIDE DEF s, v
  <2>10. UNCHANGED todo
    BY <1>13 DEF Observe
  <2>11. QED
    BY <1>0, <2>1, <2>2, <2>5, <2>6, <2>7, <2>8, <2>9, <2>10 DEF Inv, Typed, ProcessOK
<1>14. ASSUME NEW p \in Procs, Settle(p) PROVE Evidence'
  BY <1>14 DEF Settle, Return
<1>15. ASSUME NEW p \in Procs, Import(p) PROVE Evidence'
  BY <1>15 DEF Import
<1>16. ASSUME NEW p \in Procs, Transition(p) PROVE Evidence'
  BY <1>16 DEF Transition, Swap, Judged, Return
<1>17. ASSUME NEW p \in Procs, ClearPid(p) PROVE Evidence'
  BY <1>17 DEF ClearPid
<1>18. ASSUME NEW p \in Procs, Release(p) PROVE Evidence'
  BY <1>18 DEF Release, Judged, Return
<1>19. CASE PollBegin
  BY <1>19 DEF PollBegin
<1>20. ASSUME NEW r \in Runs, PollRun(r) PROVE Evidence'
  BY <1>20 DEF PollRun
<1>21. CASE PollEnd
  BY <1>21 DEF PollEnd
<1>22. ASSUME NEW r \in Runs, RecoverRun(r) PROVE Evidence'
  BY <1>22 DEF RecoverRun
<1>23. CASE RecoverDone
  BY <1>23 DEF RecoverDone
<1>24. ASSUME NEW i \in Pids, NEW m \in Markers, TrainerWrites(i, m) PROVE Evidence'
  BY <1>24 DEF TrainerWrites
<1>25. ASSUME NEW i \in Pids, TrainerSaves(i) PROVE Evidence'
  BY <1>25 DEF TrainerSaves
<1>26. ASSUME NEW i \in Pids, TrainerExits(i) PROVE Evidence'
  BY <1>26 DEF TrainerExits
<1>27. CASE Evict
  BY <1>27 DEF Evict
<1>28. CASE Crash
  BY <1>28 DEF Crash
<1>29. CASE UNCHANGED vars
  BY <1>29 DEF vars
<1>30. QED
  BY <1>1, <1>2, <1>3, <1>4, <1>5, <1>6, <1>6a, <1>7, <1>8, <1>9, <1>10, <1>11, <1>12,
     <1>13, <1>14, <1>15, <1>16, <1>17, <1>18, <1>19, <1>20, <1>21, <1>22, <1>23,
     <1>24, <1>25, <1>26, <1>27, <1>28, <1>29 DEF Next, Call, Continue, Launch,
     Judge, Poll, World, Procs

\* The inductive invariant holds throughout.
LEMMA InvHolds == Spec => []Inv
<1>1. Init => Inv
  BY InitTyped, InitEvidence DEF Inv
<1>2. Inv /\ [Next]_vars => Inv'
  BY TypedStep, EvidenceStep DEF Inv
<1>3. QED
  BY <1>1, <1>2, PTL DEF Spec

-------------------------------------------------------------------------------
(* Theorems *)

\* The state is always well formed; the PIDs of the live trainers, of the PID
\* files and of the rows stay among those ever spawned.
THEOREM TypeCorrect == Spec => []TypeOK
<1>1. Inv => TypeOK
  BY DEF Inv, Typed
<1>2. QED
  BY <1>1, InvHolds, PTL

\* Whatever requests, poller, recovery and restarts do in whatever order, a row
\* of training_runs moves only as its table allows, never leaves a terminal
\* state and is deleted only from one.
THEOREM LifecycleImplemented == Spec => ImplementsLifecycle
<1>1. Init => Lifecycle!Init
  BY DEF Init, Lifecycle!Init
<1>2. Typed /\ [Next]_vars => [Lifecycle!Next]_row
  BY LifecycleStep
<1>3. Inv => Typed
  BY DEF Inv
<1>4. QED
  BY <1>1, <1>2, <1>3, InvHolds, PTL DEF Spec, ImplementsLifecycle, Lifecycle!Spec

\* A run is only ever reported complete, or about to be, when its trainer said
\* so and left a checkpoint to import.
THEOREM CompletionIsReal == Spec => []CompletedIsReal
<1>1. Inv => CompletedIsReal
  BY DEF Inv, Evidence, Complete, CompletedIsReal
<1>2. QED
  BY <1>1, InvHolds, PTL

-------------------------------------------------------------------------------
(* Whose turn it is *)

LaunchSteps == {"spawn", "writepid", "setpid", "reserve", "seed", "then"}
JudgeSteps  == {"observe", "settle", "import", "move", "clearpid", "release"}

\* A request has the start lock from the beginning of a launch to its end, a
\* launch that fell over included.
RequestTurn(q) ==
    /\ op[q] = "launch" <=> lock = q
    /\ pc[q] = "idle" <=> op[q] = "none"
    /\ pc[q] \in LaunchSteps => op[q] = "launch"
    /\ op[q] = "launch" => \/ pc[q] \in LaunchSteps \cup {"clearpid", "release"}
                           \/ pc[q] = "move" /\ goal[q] = "failed"
    /\ pc[q] # "list" /\ op[q] # "poll"

\* The poller has it during a pass; recovery needs none, since no request is
\* served before it is through.
PollerTurn ==
    /\ pc[Poller] \in {"idle", "list"} \cup JudgeSteps
    /\ op[Poller] = (IF pc[Poller] \in {"idle", "list"} THEN "none" ELSE "poll")
    /\ pc[Poller] \in {"idle", "list"} => on[Poller] = NoOne
    /\ app = "up" => (lock = Poller <=> pc[Poller] # "idle")
    /\ app = "recovering" => lock = NoOne /\ \A q \in Requests : pc[q] = "idle"
    /\ \A r \in Runs : todo[r] # "unborn" => pc[Poller] # "idle" /\ on[Poller] # r

Turns == (\A q \in Requests : RequestTurn(q)) /\ PollerTurn

\* Nobody has a turn before the first call.
LEMMA InitTurns == Init => Turns
  BY ProcessesAssumption
  DEF Init, Turns, RequestTurn, PollerTurn, Procs, LaunchSteps, JudgeSteps

\* A call that returns gives the turn back.
LEMMA ReturnTurns ==
    ASSUME Typed, Turns, NEW p \in Procs, Return(p), pc[p] # "idle", UNCHANGED <<app, todo>>
    PROVE  Turns'
<1> USE ProcessesAssumption
    DEF Typed, ProcessOK, TypeOK, Procs, Turns, Return, Goto, LaunchSteps, JudgeSteps
<1>1. \A q \in Requests : RequestTurn(q)'
  BY DEF RequestTurn, PollerTurn
<1>2. PollerTurn'
  BY RunsAssumption DEF RequestTurn, PollerTurn
<1>3. QED
  BY <1>1, <1>2

\* A process that is judging a run goes on judging it.
LEMMA GoOnTurns ==
    ASSUME Typed, Turns, NEW p \in Procs, pc[p] \in JudgeSteps,
           NEW label \in JudgeSteps \cup {"again"}, Goto(p, label),
           op[p] = "launch" => label \in {"clearpid", "release"},
           label = "again" => op[p] = "cancel",
           UNCHANGED <<app, todo, op, on, goal, lock>>
    PROVE  Turns'
<1> USE ProcessesAssumption
    DEF Typed, ProcessOK, TypeOK, Procs, Turns, Goto, LaunchSteps, JudgeSteps
<1>1. \A q \in Requests : RequestTurn(q)'
  BY DEF RequestTurn, PollerTurn
<1>2. PollerTurn'
  BY DEF RequestTurn, PollerTurn
<1>3. QED
  BY <1>1, <1>2

\* One whose verdict is written goes back to its cancel, or returns.
LEMMA JudgedTurns ==
    ASSUME Typed, Turns, NEW p \in Procs, pc[p] \in JudgeSteps, Judged(p),
           UNCHANGED <<app, todo>>
    PROVE  Turns'
<1>1. CASE op[p] = "cancel"
  BY <1>1, GoOnTurns DEF Judged, Keep, JudgeSteps
<1>2. CASE op[p] # "cancel"
  BY <1>2, ReturnTurns DEF Judged, JudgeSteps
<1>3. QED
  BY <1>1, <1>2

\* Every step hands the turns on as Turns says.
LEMMA TurnsStep == Typed /\ Turns /\ [Next]_vars => Turns'
<1> SUFFICES ASSUME Typed, Turns, [Next]_vars
             PROVE  Turns'
  OBVIOUS
<1> USE ProcessesAssumption
    DEF Typed, ProcessOK, TypeOK, Procs, Turns, RequestTurn, PollerTurn,
        LaunchSteps, JudgeSteps, Goto, Keep, Take, trainers, gpu, process, poller
<1>1. ASSUME NEW q \in Requests, NEW r \in Runs, Start(q, r) PROVE Turns'
  BY <1>1 DEF Start
<1>2. ASSUME NEW q \in Requests, NEW r \in Runs, Resume(q, r) PROVE Turns'
  BY <1>2 DEF Resume, Swap
<1>3. ASSUME NEW q \in Requests, Spawn(q) PROVE Turns'
  BY <1>3 DEF Spawn, LaunchFailed
<1>4. ASSUME NEW q \in Requests, WritePid(q) PROVE Turns'
  BY <1>4 DEF WritePid, LaunchFailed
<1>5. ASSUME NEW q \in Requests, SetPid(q) PROVE Turns'
  BY <1>5 DEF SetPid
<1>6. ASSUME NEW q \in Requests, Reserve(q) PROVE Turns'
  BY <1>6 DEF Reserve
<1>6a. ASSUME NEW q \in Requests, SeedCursor(q) PROVE Turns'
  BY <1>6a DEF SeedCursor, Return
<1>7. ASSUME NEW q \in Requests, ThenRunning(q) PROVE Turns'
  BY <1>7 DEF ThenRunning, Return
<1>8. ASSUME NEW q \in Requests, NEW r \in Runs, Pause(q, r) PROVE Turns'
  BY <1>8 DEF Pause
<1>9. ASSUME NEW q \in Requests, NEW r \in Runs, Cancel(q, r) PROVE Turns'
  BY <1>9 DEF Cancel
<1>10. ASSUME NEW q \in Requests, StopProcess(q) PROVE Turns'
  BY <1>10 DEF StopProcess
<1>11. ASSUME NEW q \in Requests, CancelAgain(q) PROVE Turns'
  BY <1>11 DEF CancelAgain, Return
<1>12. ASSUME NEW r \in Runs, Delete(r) PROVE Turns'
  BY <1>12 DEF Delete
<1>13. ASSUME NEW p \in Procs, Observe(p) PROVE Turns'
  BY <1>13 DEF Observe
<1>14. ASSUME NEW p \in Procs, Settle(p) PROVE Turns'
  <2> HIDE DEF Typed, Turns, RequestTurn, PollerTurn
  <2>1. CASE Return(p)
    BY <1>14, <2>1, ReturnTurns DEF Settle
  <2>2. CASE ~Return(p)
    <3>1. /\ \E label \in {"import", "move"} : Goto(p, label)
          /\ UNCHANGED <<app, todo, op, on, goal, lock>> /\ pc[p] = "settle"
      BY <1>14, <2>2 DEF Settle
    <3>2. op[p] # "launch"
      BY <3>1 DEF Turns, RequestTurn, PollerTurn
    <3>3. QED
      BY <3>1, <3>2, GoOnTurns
  <2>3. QED
    BY <2>1, <2>2
<1>15. ASSUME NEW p \in Procs, Import(p) PROVE Turns'
  BY <1>15 DEF Import
<1>16. ASSUME NEW p \in Procs, Transition(p) PROVE Turns'
  <2> HIDE DEF Typed, Turns, RequestTurn, PollerTurn
  <2>1. pc[p] = "move" /\ UNCHANGED <<app, todo>>
    BY <1>16 DEF Transition
  <2>2. op[p] = "launch" => goal[p] = "failed"
    BY <2>1 DEF Turns, RequestTurn, PollerTurn
  <2>3. CASE Return(p) \/ Judged(p)
    BY <2>1, <2>3, ReturnTurns, JudgedTurns
  <2>4. CASE UNCHANGED <<pc, op, on, goal, lock>>
    BY <2>1, <2>4 DEF Turns, RequestTurn, PollerTurn
  <2>5. CASE ~(Return(p) \/ Judged(p) \/ UNCHANGED <<pc, op, on, goal, lock>>)
    <3>1. /\ \E label \in {"import", "clearpid", "release"} :
               Goto(p, label) /\ (label = "import" => goal[p] = "finishing")
          /\ UNCHANGED <<op, on, goal, lock>>
      BY <1>16, <2>5 DEF Transition
    <3>2. QED
      BY <2>1, <2>2, <3>1, GoOnTurns
  <2>6. QED
    BY <2>3, <2>4, <2>5
<1>17. ASSUME NEW p \in Procs, ClearPid(p) PROVE Turns'
  BY <1>17 DEF ClearPid
<1>18. ASSUME NEW p \in Procs, Release(p) PROVE Turns'
  BY <1>18, JudgedTurns DEF Release
<1>19. CASE PollBegin
  <2>1. /\ pc' = [pc EXCEPT ![Poller] = "list"] /\ lock' = Poller /\ lock = NoOne
        /\ pc[Poller] = "idle" /\ app = "up"
        /\ UNCHANGED <<op, on, goal, app>>
    BY <1>19 DEF PollBegin
  <2>2. \A q \in Requests : RequestTurn(q)'
    BY <2>1
  <2>3. PollerTurn'
    BY <2>1, RunsAssumption
  <2>4. QED
    BY <2>2, <2>3
<1>20. ASSUME NEW r \in Runs, PollRun(r) PROVE Turns'
  BY <1>20 DEF PollRun
<1>21. CASE PollEnd
  BY <1>21 DEF PollEnd
<1>22. ASSUME NEW r \in Runs, RecoverRun(r) PROVE Turns'
  BY <1>22 DEF RecoverRun
<1>23. CASE RecoverDone
  BY <1>23 DEF RecoverDone
<1>24. ASSUME NEW i \in Pids, NEW m \in Markers, TrainerWrites(i, m) PROVE Turns'
  BY <1>24 DEF TrainerWrites
<1>25. ASSUME NEW i \in Pids, TrainerSaves(i) PROVE Turns'
  BY <1>25 DEF TrainerSaves
<1>26. ASSUME NEW i \in Pids, TrainerExits(i) PROVE Turns'
  BY <1>26 DEF TrainerExits
<1>27. CASE Evict
  BY <1>27 DEF Evict
<1>28. CASE Crash
  <2>1. /\ pc' = [p \in Procs |-> IF p = Poller THEN "list" ELSE "idle"]
        /\ op' = [p \in Procs |-> "none"] /\ on' = [p \in Procs |-> NoOne]
        /\ app' = "recovering" /\ lock' = NoOne
    BY <1>28 DEF Crash
  <2>2. \A q \in Requests : RequestTurn(q)'
    BY <2>1
  <2>3. PollerTurn'
    BY <2>1, RunsAssumption
  <2>4. QED
    BY <2>2, <2>3
<1>29. CASE UNCHANGED vars
  BY <1>29 DEF vars
<1>30. QED
  BY <1>1, <1>2, <1>3, <1>4, <1>5, <1>6, <1>6a, <1>7, <1>8, <1>9, <1>10, <1>11, <1>12,
     <1>13, <1>14, <1>15, <1>16, <1>17, <1>18, <1>19, <1>20, <1>21, <1>22, <1>23,
     <1>24, <1>25, <1>26, <1>27, <1>28, <1>29 DEF Next, Call, Continue, Launch,
     Judge, Poll, World, Procs

-------------------------------------------------------------------------------
(* The reservation, with one request at a time and any number of restarts *)

OneCaller == \A p, q \in Requests : p = q

\* Nobody writes the row of a run that is being launched.
Launching == \A q \in Requests :
    op[q] = "launch" /\ pc[q] \in LaunchSteps \cup {"move"} =>
        snap[q] \in {"preparing", "resuming"} /\ row[on[q]] = snap[q]

\* Recovery looks at each row as it was when the process ended.
Listed == app = "recovering" => \A r \in Runs : todo[r] # "unborn" => row[r] = todo[r]

\* Whoever ends the run that holds the GPU has yet to give it back.
Returning(p) == op[p] = "launch" \/ pc[p] \in {"clearpid", "release"}
Reserved == alive # NoOne =>
    \/ row[alive] \in Recoverable
    \/ \E p \in Procs : on[p] = alive /\ Returning(p)

Held == Launching /\ Listed /\ Reserved

\* Every step keeps the reservation with a run that goes on, or that is about to
\* give it back.
LEMMA HeldStep ==
    ASSUME OneCaller, Typed, Turns, Held, [Next]_vars
    PROVE  Held'
<1> USE ProcessesAssumption, RunsAssumption
    DEF OneCaller, Typed, ProcessOK, TypeOK, Procs, Turns, RequestTurn, PollerTurn, Held,
        Launching, Listed, Reserved, Returning, LaunchSteps, JudgeSteps, Recoverable,
        Goto, Keep, Take, trainers, gpu, process, poller
<1>1. ASSUME NEW q \in Requests, NEW r \in Runs, Start(q, r) PROVE Held'
  BY <1>1 DEF Start
<1>2. ASSUME NEW q \in Requests, NEW r \in Runs, Resume(q, r) PROVE Held'
  BY <1>2 DEF Resume, Swap
<1>3. ASSUME NEW q \in Requests, Spawn(q) PROVE Held'
  BY <1>3 DEF Spawn, LaunchFailed
<1>4. ASSUME NEW q \in Requests, WritePid(q) PROVE Held'
  BY <1>4 DEF WritePid, LaunchFailed, ReleaseGpu, Released
<1>5. ASSUME NEW q \in Requests, SetPid(q) PROVE Held'
  BY <1>5 DEF SetPid
<1>6. ASSUME NEW q \in Requests, Reserve(q) PROVE Held'
  BY <1>6 DEF Reserve
<1>6a. ASSUME NEW q \in Requests, SeedCursor(q) PROVE Held'
  BY <1>6a DEF SeedCursor, Return
<1>7. ASSUME NEW q \in Requests, ThenRunning(q) PROVE Held'
  BY <1>7 DEF ThenRunning, Swap, Return
<1>8. ASSUME NEW q \in Requests, NEW r \in Runs, Pause(q, r) PROVE Held'
  BY <1>8 DEF Pause
<1>9. ASSUME NEW q \in Requests, NEW r \in Runs, Cancel(q, r) PROVE Held'
  BY <1>9 DEF Cancel
<1>10. ASSUME NEW q \in Requests, StopProcess(q) PROVE Held'
  BY <1>10 DEF StopProcess
<1>11. ASSUME NEW q \in Requests, CancelAgain(q) PROVE Held'
  BY <1>11 DEF CancelAgain, Return
<1>12. ASSUME NEW r \in Runs, Delete(r) PROVE Held'
  BY <1>12 DEF Delete, Terminal
<1>13. ASSUME NEW p \in Procs, Observe(p) PROVE Held'
  BY <1>13 DEF Observe
<1>14. ASSUME NEW p \in Procs, Settle(p) PROVE Held'
  BY <1>14 DEF Settle, Return
<1>15. ASSUME NEW p \in Procs, Import(p) PROVE Held'
  BY <1>15 DEF Import
<1>16. ASSUME NEW p \in Procs, Transition(p) PROVE Held'
  <2>1. /\ pc[p] = "move" /\ on[p] \in Runs
        /\ UNCHANGED <<app, alive, todo>>
    BY <1>16 DEF Transition
  <2>2. op[p] = "launch" => Legal(snap[p], goal[p]) /\ goal[p] = "failed"
    BY <2>1 DEF Legal, Moves
  <2>3. \/ /\ snap[p] = goal[p] \/ Legal(snap[p], goal[p])
           /\ row' = row \/ row' = [row EXCEPT ![on[p]] = goal[p]]
           /\ pc' = [pc EXCEPT ![p] = IF goal[p] = "finishing" THEN "import" ELSE "clearpid"]
           /\ UNCHANGED <<op, on>>
        \/ /\ ~Legal(snap[p], goal[p]) /\ row' = [row EXCEPT ![on[p]] = "running"]
           /\ UNCHANGED <<pc, op, on>>
        \/ /\ goal[p] # "finishing" /\ row' = row
           /\ pc' = [pc EXCEPT ![p] = "release"] /\ UNCHANGED <<op, on>>
        \/ /\ ~Legal(snap[p], goal[p]) \/ goal[p] = "finishing"
           /\ row' = row
           /\ \E label \in {"again", "list", "idle"}, o \in {op[p], "none"}, n \in {on[p], NoOne} :
                 /\ pc' = [pc EXCEPT ![p] = label] /\ op' = [op EXCEPT ![p] = o]
                 /\ on' = [on EXCEPT ![p] = n]
    BY <1>16 DEF Transition, Detour, Swap, Judged, Return
  <2>4. Launching'
    BY <2>1, <2>2, <2>3
  <2>5. Listed'
    BY <2>1, <2>3
  <2>6. Reserved'
    BY <2>1, <2>2, <2>3
  <2>7. QED
    BY <2>4, <2>5, <2>6
<1>17. ASSUME NEW p \in Procs, ClearPid(p) PROVE Held'
  BY <1>17 DEF ClearPid
<1>18. ASSUME NEW p \in Procs, Release(p) PROVE Held'
  BY <1>18 DEF Release, ReleaseGpu, Released, Judged, Return
<1>19. CASE PollBegin
  BY <1>19 DEF PollBegin
<1>20. ASSUME NEW r \in Runs, PollRun(r) PROVE Held'
  BY <1>20 DEF PollRun
<1>21. CASE PollEnd
  BY <1>21 DEF PollEnd
<1>22. ASSUME NEW r \in Runs, RecoverRun(r) PROVE Held'
  BY <1>22 DEF RecoverRun
<1>23. CASE RecoverDone
  BY <1>23 DEF RecoverDone
<1>24. ASSUME NEW i \in Pids, NEW m \in Markers, TrainerWrites(i, m) PROVE Held'
  BY <1>24 DEF TrainerWrites
<1>25. ASSUME NEW i \in Pids, TrainerSaves(i) PROVE Held'
  BY <1>25 DEF TrainerSaves
<1>26. ASSUME NEW i \in Pids, TrainerExits(i) PROVE Held'
  BY <1>26 DEF TrainerExits
<1>27. CASE Evict
  BY <1>27 DEF Evict
<1>28. CASE Crash
  BY <1>28 DEF Crash
<1>29. CASE UNCHANGED vars
  BY <1>29 DEF vars
<1>30. QED
  BY <1>1, <1>2, <1>3, <1>4, <1>5, <1>6, <1>6a, <1>7, <1>8, <1>9, <1>10, <1>11, <1>12,
     <1>13, <1>14, <1>15, <1>16, <1>17, <1>18, <1>19, <1>20, <1>21, <1>22, <1>23,
     <1>24, <1>25, <1>26, <1>27, <1>28, <1>29 DEF Next, Call, Continue, Launch,
     Judge, Poll, World, Procs

\* At first nobody holds it.
LEMMA InitHeld == Init => Held
  BY DEF Init, Held, Launching, Listed, Reserved, Procs

\* When nothing is under way, only a run that is going on holds the GPU: with
\* one request at a time, whatever trainers and restarts do.
THEOREM ReservationIsGivenBack ==
    ASSUME OneCaller
    PROVE  Spec => []ReservationHasRun
<1>1. Init => Turns /\ Held
  BY InitTurns, InitHeld
<1>2. Typed /\ Turns /\ Held /\ [Next]_vars => (Turns /\ Held)'
  BY TurnsStep, HeldStep
<1>3. Held /\ Typed /\ Turns => ReservationHasRun
  BY RunsAssumption DEF Held, Typed, TypeOK, Turns, Reserved, ReservationHasRun, Quiet, Procs
<1>4. Inv => Typed
  BY DEF Inv
<1>5. QED
  BY <1>1, <1>2, <1>3, <1>4, InvHolds, PTL DEF Spec

-------------------------------------------------------------------------------
(* Trainers, with one request at a time and no restart *)

NoRestart == MaxCrashes = 0

\* A row is preparing only while its launch is under way.
Preparing == \A r \in Runs : row[r] = "preparing" =>
    lock \in Requests /\ on[lock] = r /\ pc[lock] \in LaunchSteps \cup {"move"}

\* What a launch has in hand: nothing runs before it spawns and after it fell
\* over, and in between its trainer is the one that was spawned last.
Launched == \A q \in Requests :
    /\ pc[q] = "spawn" => live = {}
    /\ op[q] = "launch" /\ pc[q] \notin LaunchSteps => live = {}
    /\ pc[q] = "writepid" => pid[q] = spawned /\ spawned # 0 /\ owner[spawned] = on[q]

\* A live trainer is the one spawned last, its row goes on, and once its launch
\* wrote trainer.pid the file names it.
Traced == \A i \in live :
    /\ i = spawned
    /\ row[owner[i]] \in {"preparing", "running", "resuming"}
    /\ file[owner[i]] = i \/ (lock \in Requests /\ pc[lock] = "writepid")

Dead(r) == \A i \in live : owner[i] # r

\* Whoever found the trainer of a run dead, or killed it, can rely on it.
Buried ==
    /\ \A q \in Requests : op[q] \in {"stop", "cancel"} /\ pc[q] # "stop" => Dead(on[q])
    /\ pc[Poller] \in {"observe", "settle"} /\ (sawAlive = "dead" \/ snap[Poller] = "finishing")
         => Dead(on[Poller])
    /\ pc[Poller] \in JudgeSteps \ {"observe", "settle"} => Dead(on[Poller])
    /\ \A r \in Runs : todo[r] = "finishing" => Dead(r)

Undisturbed == app = "up" /\ Preparing /\ Launched /\ Traced /\ Buried

\* A row goes on as it was, or its trainer is dead.
RowStep(r) == \/ row'[r] = row[r]
              \/ row'[r] # "preparing" /\ (row'[r] = "running" \/ Dead(r))

\* No trainer is added and no trainer.pid rewritten.
LEMMA TracedKept ==
    ASSUME Typed, Traced, live' \subseteq live, UNCHANGED <<owner, file, spawned>>,
           \A r \in Runs : RowStep(r),
           lock \in Requests /\ pc[lock] = "writepid" => lock' = lock /\ pc'[lock] = "writepid"
    PROVE  Traced'
<1>1. SUFFICES ASSUME NEW i \in live'
               PROVE  (/\ i = spawned /\ row[owner[i]] \in {"preparing", "running", "resuming"}
                       /\ file[owner[i]] = i \/ (lock \in Requests /\ pc[lock] = "writepid"))'
  BY DEF Traced
<1>2. i \in live /\ owner[i] \in Runs /\ ~Dead(owner[i])
  BY DEF Typed, TypeOK, Owned, Dead
<1>3. row'[owner[i]] = row[owner[i]] \/ row'[owner[i]] = "running"
  BY <1>2 DEF RowStep
<1>4. /\ i = spawned /\ row[owner[i]] \in {"preparing", "running", "resuming"}
      /\ file[owner[i]] = i \/ (lock \in Requests /\ pc[lock] = "writepid")
  BY <1>2 DEF Traced
<1>5. QED
  BY <1>3, <1>4

\* A judge that goes on relies on a trainer that is dead.
LEMMA JudgeGoesOn ==
    ASSUME OneCaller, Typed, Turns, Undisturbed, NEW p \in Procs, pc[p] \in JudgeSteps,
           NEW label \in (JudgeSteps \ {"observe", "settle"}) \cup {"again"}, Goto(p, label),
           \A r \in Runs : RowStep(r),
           p = Poller => Dead(on[p]) /\ label # "again",
           op[p] = "launch" => label \in {"clearpid", "release"} /\ row'[on[p]] # "preparing",
           \A x \in Procs \ {p} : snap'[x] = snap[x],
           UNCHANGED <<app, op, on, pid, lock, spawned, live, owner, file, sawAlive, todo>>
    PROVE  Undisturbed'
<1> USE ProcessesAssumption
    DEF Typed, ProcessOK, TypeOK, Procs, Turns, RequestTurn, PollerTurn, Undisturbed,
        Goto, LaunchSteps, JudgeSteps
<1>1. Traced'
  BY TracedKept
<1>2. Preparing'
  BY DEF Preparing, RowStep
<1>3. Launched'
  BY DEF Launched
<1>4. Buried'
  <2>1. \A r \in Runs : Dead(r)' <=> Dead(r)
    BY DEF Dead
  <2>2. \A q \in Requests : op'[q] \in {"stop", "cancel"} /\ pc'[q] # "stop" => Dead(on[q])'
    BY <2>1 DEF Buried, Dead
  <2>3. pc[Poller] \in JudgeSteps => on[Poller] \in Runs
    OBVIOUS
  <2>4. QED
    BY <2>1, <2>2, <2>3 DEF Buried, Dead
<1>5. QED
  BY <1>1, <1>2, <1>3, <1>4

\* One that returns has nothing in hand any more.
LEMMA JudgeReturns ==
    ASSUME OneCaller, Typed, Turns, Undisturbed, NEW p \in Procs,
           pc[p] \in JudgeSteps \cup {"again"}, Return(p),
           \A r \in Runs : RowStep(r),
           op[p] = "launch" => row'[on[p]] # "preparing",
           UNCHANGED <<app, spawned, live, owner, file, sawAlive, todo>>
    PROVE  Undisturbed'
<1> USE ProcessesAssumption
    DEF Typed, ProcessOK, TypeOK, Procs, Turns, RequestTurn, PollerTurn, Undisturbed,
        Return, Goto, LaunchSteps, JudgeSteps
<1>1. Traced'
  BY TracedKept
<1>2. Preparing'
  BY DEF Preparing, RowStep
<1>3. Launched'
  BY DEF Launched
<1>4. Buried'
  <2>1. \A r \in Runs : Dead(r)' <=> Dead(r)
    BY DEF Dead
  <2>2. \A q \in Requests : op'[q] \in {"stop", "cancel"} /\ pc'[q] # "stop" => Dead(on[q])'
    BY <2>1 DEF Buried, Dead
  <2>3. pc[Poller] \in JudgeSteps => on[Poller] \in Runs
    OBVIOUS
  <2>4. QED
    BY <2>1, <2>2, <2>3 DEF Buried, Dead
<1>5. QED
  BY <1>1, <1>2, <1>3, <1>4

\* Past the look at the evidence the trainer is dead.
LEMMA JudgedIsDead ==
    ASSUME Typed, Turns, Launched, Buried, NEW p \in Procs,
           pc[p] \in JudgeSteps \ {"observe", "settle"}
    PROVE  Dead(on[p])
<1>1. CASE p = Poller
  BY <1>1 DEF Buried
<1>2. CASE p \in Requests /\ op[p] = "launch"
  BY <1>2 DEF Launched, LaunchSteps, JudgeSteps, Dead
<1>3. CASE p \in Requests /\ op[p] # "launch"
  <2>1. op[p] \in {"stop", "cancel"} /\ pc[p] # "stop"
    BY <1>3 DEF Typed, TypeOK, Ops, Turns, RequestTurn, JudgeSteps
  <2>2. QED
    BY <1>3, <2>1 DEF Buried
<1>4. QED
  BY <1>1, <1>2, <1>3 DEF Procs

\* With one request at a time and no restart, every step of the runner, the
\* poller and the trainers keeps Undisturbed.
LEMMA UndisturbedStep ==
    ASSUME OneCaller, NoRestart, Typed, Turns, Launching, Undisturbed, [Next]_vars
    PROVE  Undisturbed'
<1> USE ProcessesAssumption, RunsAssumption
    DEF OneCaller, NoRestart, Typed, ProcessOK, Owned, TypeOK, Procs, Pids, Ops, Turns, RequestTurn,
        PollerTurn, Launching,
        Undisturbed, Preparing, Launched, Traced, Dead, Buried, LaunchSteps, JudgeSteps,
        Recoverable, Goto, Keep, Take, trainers, gpu, process, poller
<1>1. ASSUME NEW q \in Requests, NEW r \in Runs, Start(q, r) PROVE Undisturbed'
  <2>1. live = {} /\ lock = NoOne
    <3>1. lock = NoOne /\ \A x \in Runs : row[x] \notin Recoverable
      BY <1>1 DEF Start, Preflight
    <3>2. QED
      BY <3>1
  <2>2. /\ pc' = [pc EXCEPT ![q] = "spawn"] /\ on' = [on EXCEPT ![q] = r]
        /\ op' = [op EXCEPT ![q] = "launch"] /\ lock' = q
        /\ row' = [row EXCEPT ![r] = "preparing"]
        /\ snap' = [snap EXCEPT ![q] = "preparing"]
        /\ UNCHANGED <<app, live, owner, file, spawned, pid, sawAlive, todo>>
    BY <1>1 DEF Start
  <2>3. QED
    BY <2>1, <2>2
<1>2. ASSUME NEW q \in Requests, NEW r \in Runs, Resume(q, r) PROVE Undisturbed'
  <2>1. live = {} /\ lock = NoOne
    <3>1. lock = NoOne /\ \A x \in Runs : row[x] \notin Recoverable
      BY <1>2 DEF Resume, Preflight
    <3>2. QED
      BY <3>1
  <2>2. /\ pc' = [pc EXCEPT ![q] = "spawn"] /\ on' = [on EXCEPT ![q] = r]
        /\ op' = [op EXCEPT ![q] = "launch"] /\ lock' = q
        /\ row' = [row EXCEPT ![r] = "resuming"]
        /\ snap' = [snap EXCEPT ![q] = "resuming"]
        /\ UNCHANGED <<app, live, owner, file, spawned, pid, sawAlive, todo>>
    BY <1>2 DEF Resume, Swap
  <2>3. QED
    BY <2>1, <2>2
<1>3. ASSUME NEW q \in Requests, Spawn(q) PROVE Undisturbed'
  <2>1. pc[q] = "spawn" /\ lock = q /\ live = {} /\ on[q] \in Runs
    BY <1>3 DEF Spawn
  <2>2. UNCHANGED <<row, app, file, lock, sawAlive, todo, op, on, snap>>
    BY <1>3 DEF Spawn, LaunchFailed
  <2>3. CASE pc' = [pc EXCEPT ![q] = "move"] /\ UNCHANGED <<spawned, live, owner, pid>>
    BY <2>1, <2>2, <2>3
  <2>4. CASE /\ spawned' = spawned + 1 /\ live' = {spawned + 1}
             /\ owner' = [owner EXCEPT ![spawned + 1] = on[q]] /\ spawned < MaxPids
             /\ pc' = [pc EXCEPT ![q] = "writepid"] /\ pid' = [pid EXCEPT ![q] = spawned + 1]
    <3>1. spawned + 1 \in Pids /\ spawned + 1 # 0
      BY <2>4, BoundsAssumption
    <3>1a. owner'[spawned + 1] = on[q] /\ pid'[q] = spawned + 1
      BY <2>4, <3>1
    <3>2. Launched'
      BY <2>1, <2>2, <2>4, <3>1, <3>1a
    <3>3. Traced'
      BY <2>1, <2>2, <2>4, <3>1, <3>1a
    <3>4. Preparing' /\ Buried' /\ app' = "up"
      BY <2>1, <2>2, <2>4, <3>1, <3>1a
    <3>5. QED
      BY <3>2, <3>3, <3>4
  <2>5. QED
    BY <1>3, <2>1, <2>3, <2>4 DEF Spawn, LaunchFailed
<1>4. ASSUME NEW q \in Requests, WritePid(q) PROVE Undisturbed'
  <2>1. /\ pc[q] = "writepid" /\ lock = q /\ on[q] \in Runs
        /\ pid[q] = spawned /\ owner[spawned] = on[q]
    BY <1>4 DEF WritePid
  <2>2. /\ UNCHANGED <<row, app, lock, spawned, owner, sawAlive, todo, op, on, snap, pid>>
        /\ \/ /\ file' = [file EXCEPT ![on[q]] = spawned] /\ UNCHANGED live
              /\ pc' = [pc EXCEPT ![q] = "setpid"]
           \/ /\ live' = {} /\ UNCHANGED file
              /\ pc' = [pc EXCEPT ![q] = "move"]
    <3>1. live \ {pid[q]} = {}
      BY <2>1
    <3>2. QED
      BY <1>4, <2>1, <3>1 DEF WritePid, LaunchFailed, RolledBack
  <2>3. Launched'
    BY <2>1, <2>2
  <2>4. Traced'
    <3>1. CASE live' = {}
      BY <3>1
    <3>2. CASE file' = [file EXCEPT ![on[q]] = spawned] /\ UNCHANGED live
      <4>1. file'[on[q]] = spawned
        BY <2>1, <3>2
      <4>2. QED
        BY <2>1, <2>2, <3>2, <4>1
    <3>3. QED
      BY <2>2, <3>1, <3>2
  <2>5. Preparing' /\ Buried' /\ app' = "up"
    BY <2>1, <2>2
  <2>6. QED
    BY <2>3, <2>4, <2>5
<1>5. ASSUME NEW q \in Requests, SetPid(q) PROVE Undisturbed'
  BY <1>5 DEF SetPid
<1>6. ASSUME NEW q \in Requests, Reserve(q) PROVE Undisturbed'
  BY <1>6 DEF Reserve
<1>6a. ASSUME NEW q \in Requests, SeedCursor(q) PROVE Undisturbed'
  BY <1>6a DEF SeedCursor, Return
<1>7. ASSUME NEW q \in Requests, ThenRunning(q) PROVE Undisturbed'
  BY <1>7 DEF ThenRunning, Swap, Return
<1>8. ASSUME NEW q \in Requests, NEW r \in Runs, Pause(q, r) PROVE Undisturbed'
  BY <1>8 DEF Pause
<1>9. ASSUME NEW q \in Requests, NEW r \in Runs, Cancel(q, r) PROVE Undisturbed'
  BY <1>9 DEF Cancel
<1>10. ASSUME NEW q \in Requests, StopProcess(q) PROVE Undisturbed'
  <2>1. /\ pc[q] = "stop" /\ op[q] # "launch" /\ q # Poller /\ on[q] \in Runs
        /\ UNCHANGED <<row, app, lock, spawned, owner, file, sawAlive, todo, on, snap, pid>>
    BY <1>10 DEF StopProcess
  <2>2. \/ /\ file[on[q]] \in live /\ live' = live \ {file[on[q]]}
           /\ pc' = [pc EXCEPT ![q] = "move"] /\ op' = [op EXCEPT ![q] = "stop"]
        \/ /\ file[on[q]] \notin live /\ live' = live
           /\ pc' = [pc EXCEPT ![q] = "observe"] /\ op' = op
    BY <1>10 DEF StopProcess, ProcessAlive
  <2>3. Dead(on[q])'
    <3>1. lock \notin Requests
      BY <2>1
    <3>2. \A i \in live : file[owner[i]] = i
      BY <3>1
    <3>3. live' \subseteq live \ {file[on[q]]}
      BY <2>2
    <3>4. \A i \in live' : owner[i] # on[q]
      BY ONLY <3>2, <3>3
    <3>5. owner' = owner /\ on' = on
      BY <2>1
    <3>6. QED
      BY ONLY <3>4, <3>5 DEF Dead
  <2>4. Launched' /\ Preparing'
    BY <2>1, <2>2
  <2>5. Traced'
    BY <2>1, <2>2, TracedKept DEF RowStep
  <2>6. \A r \in Runs : Dead(r) => Dead(r)'
    <3>1. live' \subseteq live /\ owner' = owner
      BY <2>1, <2>2
    <3>2. QED
      BY ONLY <3>1 DEF Dead
  <2>7. Buried'
    <3> HIDE DEF Dead
    <3>1. \A p \in Requests : p = q
      OBVIOUS
    <3>2. QED
      BY <2>1, <2>2, <2>3, <2>6, <3>1
  <2>8. QED
    BY <2>1, <2>4, <2>5, <2>7
<1>11. ASSUME NEW q \in Requests, CancelAgain(q) PROVE Undisturbed'
  <2>1. /\ pc[q] = "again" /\ op[q] # "launch" /\ q # Poller /\ on[q] \in Runs
        /\ UNCHANGED <<row, app, spawned, live, owner, file, sawAlive, todo>>
    BY <1>11 DEF CancelAgain
  <2>2. \A r \in Runs : RowStep(r)
    BY <2>1 DEF RowStep
  <2>3. CASE Return(q)
    BY <2>1, <2>2, <2>3, JudgeReturns DEF Undisturbed
  <2>4. CASE ~Return(q)
    <3>1. /\ pc' = [pc EXCEPT ![q] = "move"] /\ op' = [op EXCEPT ![q] = "stop"]
          /\ UNCHANGED <<lock, pid>>
          /\ on'[q] = on[q]
      BY <1>11, <2>4 DEF CancelAgain
    <3>2. Traced'
      BY <2>1, <2>2, <3>1, TracedKept
    <3>3. Launched' /\ Preparing'
      BY <2>1, <3>1
    <3>4. on' = on /\ \A p \in Procs \ {q} : snap'[p] = snap[p]
      BY <1>11, <2>4 DEF CancelAgain
    <3>5. op[q] \in {"stop", "cancel"}
      BY <2>1
    <3>6. Buried'
      BY <2>1, <3>1, <3>4, <3>5
    <3>7. QED
      BY <2>1, <3>2, <3>3, <3>6
  <2>5. QED
    BY <2>3, <2>4
<1>12. ASSUME NEW r \in Runs, Delete(r) PROVE Undisturbed'
  BY <1>12 DEF Delete, Terminal
<1>13. ASSUME NEW p \in Procs, Observe(p) PROVE Undisturbed'
  BY <1>13 DEF Observe
<1>14. ASSUME NEW p \in Procs, Settle(p) PROVE Undisturbed'
  <2>1. /\ pc[p] = "settle" /\ op[p] # "launch" /\ on[p] \in Runs
        /\ UNCHANGED <<row, app, spawned, live, owner, file, sawAlive, todo>>
    BY <1>14 DEF Settle
  <2>2. \A r \in Runs : RowStep(r)
    BY <2>1 DEF RowStep
  <2>3. CASE Return(p)
    BY <2>1, <2>2, <2>3, JudgeReturns
  <2>4. CASE ~Return(p)
    <3>1. /\ \E label \in {"import", "move"} : Goto(p, label)
          /\ UNCHANGED <<op, on, snap, pid, lock>>
          /\ ~(op[p] = "poll" /\ snap[p] # "finishing" /\ sawAlive = "alive")
      BY <1>14, <2>4 DEF Settle, CheckedBefore
    <3>2. p = Poller => Dead(on[p])
      BY <2>1, <3>1
    <3>3. QED
      BY <2>1, <2>2, <3>1, <3>2, JudgeGoesOn
  <2>5. QED
    BY <2>3, <2>4
<1>15. ASSUME NEW p \in Procs, Import(p) PROVE Undisturbed'
  BY <1>15 DEF Import
<1>16. ASSUME NEW p \in Procs, Transition(p) PROVE Undisturbed'
  <2>1. /\ pc[p] = "move" /\ on[p] \in Runs
        /\ UNCHANGED <<app, spawned, live, owner, file, sawAlive, todo>>
    BY <1>16 DEF Transition
  <2>2. Dead(on[p])
    <3> HIDE DEF Typed, Turns, Launched, Buried, Dead
    <3>1. QED
      BY <2>1, JudgedIsDead DEF Undisturbed
  <2>3. op[p] = "launch" => /\ goal[p] = "failed" /\ Legal(snap[p], goal[p])
                            /\ snap[p] = row[on[p]] /\ snap[p] # goal[p]
    BY <2>1 DEF Legal, Moves
  <2>4. goal[p] # "preparing" \/ (~Legal(snap[p], goal[p]) /\ ~Detour(snap[p], goal[p]))
    BY DEF Detour, Legal, Moves
  <2>5. row' = row \/ (row' = [row EXCEPT ![on[p]] = goal[p]] /\ goal[p] # "preparing")
                   \/ row' = [row EXCEPT ![on[p]] = "running"]
    BY <1>16, <2>4 DEF Transition, Swap
  <2>6. \A r \in Runs : RowStep(r)
    BY <2>2, <2>5 DEF RowStep
  <2>7. op[p] = "launch" => /\ row' = [row EXCEPT ![on[p]] = "failed"]
                            /\ pc' = [pc EXCEPT ![p] = "clearpid"] /\ UNCHANGED <<op, on>>
    BY <1>16, <2>3 DEF Transition, Swap, Detour
  <2>8. op[p] = "launch" => row'[on[p]] # "preparing"
    BY <2>1, <2>7
  <2>9. CASE Return(p)
    <3> HIDE DEF Typed, Turns, Undisturbed, Return, RowStep
    <3>1. pc[p] \in JudgeSteps \cup {"again"}
      BY <2>1
    <3>2. QED
      BY <2>1, <2>6, <2>8, <2>9, <3>1, JudgeReturns
  <2>10. CASE ~Return(p)
    <3>1. \E label \in {"import", "clearpid", "release", "move", "again"} :
             /\ Goto(p, label) /\ (label = "again" => op[p] = "cancel")
             /\ UNCHANGED <<op, on, pid, lock>>
             /\ \A x \in Procs \ {p} : snap'[x] = snap[x]
      BY <1>16, <2>1, <2>10 DEF Transition, Judged
    <3>2. p = Poller => op[p] # "cancel"
      BY <2>1
    <3>3. op[p] = "launch" => pc'[p] = "clearpid"
      BY <2>7
    <3>4. PICK label \in {"import", "clearpid", "release", "move", "again"} :
             /\ Goto(p, label) /\ (label = "again" => op[p] = "cancel")
             /\ UNCHANGED <<op, on, pid, lock>>
             /\ \A x \in Procs \ {p} : snap'[x] = snap[x]
      BY <3>1
    <3>5. op[p] = "launch" => label = "clearpid"
      BY <3>3, <3>4
    <3>6. pc[p] \in JudgeSteps
          /\ label \in (JudgeSteps \ {"observe", "settle"}) \cup {"again"}
      BY <2>1
    <3> HIDE DEF Typed, Turns, Undisturbed, RowStep, Goto
    <3>7. QED
      BY <2>1, <2>2, <2>6, <2>8, <3>2, <3>4, <3>5, <3>6, JudgeGoesOn
  <2>11. QED
    BY <2>9, <2>10
<1>17. ASSUME NEW p \in Procs, ClearPid(p) PROVE Undisturbed'
  BY <1>17 DEF ClearPid
<1>18. ASSUME NEW p \in Procs, Release(p) PROVE Undisturbed'
  <2>1. /\ pc[p] = "release" /\ on[p] \in Runs /\ Judged(p)
        /\ UNCHANGED <<row, app, spawned, live, owner, file, sawAlive, todo>>
    BY <1>18 DEF Release
  <2>2. \A r \in Runs : RowStep(r)
    BY <2>1 DEF RowStep
  <2>3. Dead(on[p])
    <3> HIDE DEF Typed, Turns, Launched, Buried, Dead
    <3>1. QED
      BY <2>1, JudgedIsDead DEF Undisturbed
  <2>4. op[p] = "launch" => row[on[p]] # "preparing"
    BY <2>1
  <2>5. QED
    BY <2>1, <2>2, <2>3, <2>4, JudgeReturns, JudgeGoesOn DEF Judged
<1>19. CASE PollBegin
  <2>1. /\ lock = NoOne /\ lock' = Poller /\ pc' = [pc EXCEPT ![Poller] = "list"]
        /\ UNCHANGED <<row, app, spawned, live, owner, file, sawAlive, op, on, snap, pid>>
        /\ todo' = [r \in Runs |-> IF Polled(r) THEN row[r] ELSE "unborn"]
    BY <1>19 DEF PollBegin
  <2>2. Traced'
    BY <2>1, TracedKept DEF RowStep
  <2>3. Launched' /\ Preparing'
    BY <2>1
  <2>4. Buried'
    <3>0. \A i \in live : row[owner[i]] # "finishing"
      OBVIOUS
    <3>1. \A r \in Runs : row[r] = "finishing" => Dead(r)
      BY ONLY <3>0 DEF Dead
    <3>2. \A r \in Runs : todo'[r] = "finishing" => Dead(r)'
      BY <2>1, <3>1
    <3>3. QED
      BY <2>1, <3>2
  <2>5. QED
    BY <2>1, <2>2, <2>3, <2>4
<1>20. ASSUME NEW r \in Runs, PollRun(r) PROVE Undisturbed'
  BY <1>20 DEF PollRun, ProcessAlive
<1>21. CASE PollEnd
  BY <1>21 DEF PollEnd
<1>22. ASSUME NEW r \in Runs, RecoverRun(r) PROVE Undisturbed'
  BY <1>22 DEF RecoverRun
<1>23. CASE RecoverDone
  BY <1>23 DEF RecoverDone
<1>24. ASSUME NEW i \in Pids, NEW m \in Markers, TrainerWrites(i, m) PROVE Undisturbed'
  BY <1>24 DEF TrainerWrites
<1>25. ASSUME NEW i \in Pids, TrainerSaves(i) PROVE Undisturbed'
  BY <1>25 DEF TrainerSaves
<1>26. ASSUME NEW i \in Pids, TrainerExits(i) PROVE Undisturbed'
  BY <1>26 DEF TrainerExits
<1>27. CASE Evict
  BY <1>27 DEF Evict
<1>28. CASE Crash
  BY <1>28 DEF Crash
<1>29. CASE UNCHANGED vars
  BY <1>29 DEF vars
<1>30. QED
  BY <1>1, <1>2, <1>3, <1>4, <1>5, <1>6, <1>6a, <1>7, <1>8, <1>9, <1>10, <1>11, <1>12,
     <1>13, <1>14, <1>15, <1>16, <1>17, <1>18, <1>19, <1>20, <1>21, <1>22, <1>23,
     <1>24, <1>25, <1>26, <1>27, <1>28, <1>29 DEF Next, Call, Continue, Launch,
     Judge, Poll, World, Procs

\* Before the first call nothing runs.
LEMMA InitUndisturbed == Init => Undisturbed
  BY RunsAssumption
  DEF Init, Undisturbed, Preparing, Launched, Traced, Buried, Dead, Procs, LaunchSteps,
      JudgeSteps

-------------------------------------------------------------------------------
(* Verdicts, with one request at a time and no restart *)

\* The log says that the trainer reached its end, and it left a checkpoint.
Finished(r) == "done" \in fresh[r] /\ r \in saved

\* A verdict of interrupted that will be written, or was, is about a run that
\* had not finished.
Judgement ==
    /\ \A p \in Procs :
          /\ pc[p] \in {"settle", "move"} /\ goal[p] = "interrupted"
          /\ p = Poller /\ pc[p] = "settle" => sawAlive = "dead" \/ snap[p] = "finishing"
          => ~Finished(on[p])
    /\ \A p \in Procs : pc[p] = "stop" => goal[p] # "interrupted"
    /\ \A r \in Runs : row[r] = "interrupted" => ~Finished(r)

\* A verdict that will be written is about a run whose trainer is dead ...
LEMMA JudgementIsFinal ==
    ASSUME Typed, Turns, Undisturbed, NEW p \in Procs,
           pc[p] \in {"settle", "move"}, goal[p] = "interrupted",
           p = Poller /\ pc[p] = "settle" => sawAlive = "dead" \/ snap[p] = "finishing"
    PROVE  Dead(on[p])
<1>1. CASE p = Poller
  BY <1>1 DEF Undisturbed, Buried, JudgeSteps
<1>2. CASE p \in Requests
  BY <1>2 DEF Typed, TypeOK, Ops, Turns, RequestTurn, Undisturbed, Buried, LaunchSteps
<1>3. QED
  BY <1>1, <1>2 DEF Procs

\* ... so that no trainer adds to its log or its checkpoints.
LEMMA WordsOfTheLiving ==
    ASSUME Typed, Turns, Undisturbed, Judgement, NEW i \in live,
           \A r \in Runs \ {owner[i]} : Finished(r)' => Finished(r),
           UNCHANGED <<row, process, sawAlive>>
    PROVE  Judgement'
<1>1. \A r \in Runs : Dead(r) /\ Finished(r)' => Finished(r)
  BY DEF Dead
<1>2. \A r \in Runs : row[r] = "interrupted" => Dead(r)
  <2>1. \A j \in live : row[owner[j]] # "interrupted"
    BY DEF Undisturbed, Traced
  <2>2. QED
    BY <2>1 DEF Dead
<1>3. \A p \in Procs : pc[p] \in {"settle", "move"} => on[p] \in Runs
  BY DEF Typed, ProcessOK
<1>4. ASSUME NEW p \in Procs, pc[p] \in {"settle", "move"}, goal[p] = "interrupted",
             p = Poller /\ pc[p] = "settle" => sawAlive = "dead" \/ snap[p] = "finishing"
      PROVE  ~Finished(on[p])'
  <2>1. Dead(on[p]) /\ ~Finished(on[p])
    BY <1>4, JudgementIsFinal DEF Judgement
  <2>2. on' = on
    BY DEF process
  <2>3. QED
    BY <1>1, <1>3, <1>4, <2>1, <2>2 DEF Finished
<1>5. QED
  BY <1>1, <1>2, <1>4 DEF Judgement, process

\* A run that was seen to finish is not judged interrupted.
LEMMA InterruptedVerdict ==
    ASSUME NEW s, NEW seen, NEW checkpoint
    PROVE  Verdict(s, seen, checkpoint) = "interrupted" => ~("done" \in seen /\ checkpoint)
  BY Zenon DEF Verdict

\* No step forms or keeps a verdict of interrupted on a run that finished.
LEMMA JudgementStep ==
    ASSUME OneCaller, NoRestart, Typed, Turns, Undisturbed, Judgement, [Next]_vars
    PROVE  Judgement'
<1> USE ProcessesAssumption, RunsAssumption
    DEF Typed, ProcessOK, Owned, TypeOK, Procs, Turns, RequestTurn, PollerTurn,
        Judgement, Finished, LaunchSteps, JudgeSteps,
        Recoverable, Goto, Keep, Take, trainers, gpu, process, poller
<1>1. ASSUME NEW q \in Requests, NEW r \in Runs, Start(q, r) PROVE Judgement'
  BY <1>1 DEF Start
<1>2. ASSUME NEW q \in Requests, NEW r \in Runs, Resume(q, r) PROVE Judgement'
  <2>1. /\ pc' = [pc EXCEPT ![q] = "spawn"] /\ on' = [on EXCEPT ![q] = r]
        /\ goal' = [goal EXCEPT ![q] = "unborn"]
        /\ row' = [row EXCEPT ![r] = "resuming"]
        /\ snap' = [snap EXCEPT ![q] = "resuming"]
        /\ UNCHANGED <<fresh, saved, sawAlive>>
    BY <1>2 DEF Resume, Swap
  <2>2. QED
    BY <2>1
<1>3. ASSUME NEW q \in Requests, Spawn(q) PROVE Judgement'
  <2>1. on[q] \in Runs /\ pc[q] = "spawn"
    BY <1>3 DEF Spawn
  <2>2. /\ \/ /\ pc' = [pc EXCEPT ![q] = "move"] /\ goal' = [goal EXCEPT ![q] = "failed"]
              /\ UNCHANGED fresh
           \/ /\ pc' = [pc EXCEPT ![q] = "writepid"] /\ UNCHANGED goal
              /\ fresh' = [fresh EXCEPT ![on[q]] = {}]
        /\ UNCHANGED <<row, on, snap, saved, sawAlive>>
    BY <1>3 DEF Spawn, LaunchFailed
  <2>3. \A r \in Runs : Finished(r)' => Finished(r)
    BY <2>1, <2>2
  <2>4. QED
    BY <2>1, <2>2, <2>3
<1>4. ASSUME NEW q \in Requests, WritePid(q) PROVE Judgement'
  BY <1>4 DEF WritePid, LaunchFailed, ReleaseGpu, Released
<1>5. ASSUME NEW q \in Requests, SetPid(q) PROVE Judgement'
  BY <1>5 DEF SetPid
<1>6. ASSUME NEW q \in Requests, Reserve(q) PROVE Judgement'
  BY <1>6 DEF Reserve
<1>6a. ASSUME NEW q \in Requests, SeedCursor(q) PROVE Judgement'
  BY <1>6a DEF SeedCursor, Return
<1>7. ASSUME NEW q \in Requests, ThenRunning(q) PROVE Judgement'
  BY <1>7 DEF ThenRunning, Swap, Return
<1>8. ASSUME NEW q \in Requests, NEW r \in Runs, Pause(q, r) PROVE Judgement'
  BY <1>8 DEF Pause
<1>9. ASSUME NEW q \in Requests, NEW r \in Runs, Cancel(q, r) PROVE Judgement'
  BY <1>9 DEF Cancel
<1>10. ASSUME NEW q \in Requests, StopProcess(q) PROVE Judgement'
  BY <1>10 DEF StopProcess
<1>11. ASSUME NEW q \in Requests, CancelAgain(q) PROVE Judgement'
  BY <1>11 DEF CancelAgain, Return
<1>12. ASSUME NEW r \in Runs, Delete(r) PROVE Judgement'
  BY <1>12 DEF Delete
<1>13. ASSUME NEW p \in Procs, Observe(p) PROVE Judgement'
  <2> DEFINE s == IF /\ snap[p] = "resuming" /\ "step" \in View(on[p])
                    /\ row[on[p]] = "resuming"
                  THEN "running" ELSE snap[p]
             v == Verdict(s, View(on[p]), on[p] \in saved)
  <2>1. /\ pc[p] = "observe" /\ on[p] \in Runs /\ pc' = [pc EXCEPT ![p] = "settle"]
        /\ row' = row \/ row' = [row EXCEPT ![on[p]] = "running"]
        /\ goal' = [goal EXCEPT ![p] = v] /\ snap' = [snap EXCEPT ![p] = s]
        /\ UNCHANGED <<on, fresh, saved, sawAlive>>
    BY <1>13 DEF Observe
  <2>2. v = "interrupted" => ~("done" \in View(on[p]) /\ on[p] \in saved)
    <3> HIDE DEF s
    <3>1. QED
      BY InterruptedVerdict
  <2>3. v = "interrupted" => ~Finished(on[p])
    BY <2>2 DEF View
  <2> HIDE DEF s, v
  <2>4. QED
    BY <2>1, <2>3
<1>14. ASSUME NEW p \in Procs, Settle(p) PROVE Judgement'
  <2>1. /\ pc[p] = "settle" /\ on[p] \in Runs
        /\ UNCHANGED <<row, fresh, saved, sawAlive>>
    BY <1>14 DEF Settle
  <2>2. CASE Return(p)
    BY <2>1, <2>2 DEF Return
  <2>3. CASE ~Return(p)
    <3>1. /\ \E label \in {"import", "move"} : pc' = [pc EXCEPT ![p] = label]
          /\ UNCHANGED <<op, on, snap, goal>>
          /\ ~(op[p] = "poll" /\ snap[p] # "finishing" /\ sawAlive = "alive")
      BY <1>14, <2>3 DEF Settle, CheckedBefore
    <3>2. p = Poller => sawAlive = "dead" \/ snap[p] = "finishing"
      BY <2>1, <3>1
    <3>3. QED
      BY <2>1, <3>1, <3>2
  <2>4. QED
    BY <2>2, <2>3
<1>15. ASSUME NEW p \in Procs, Import(p) PROVE Judgement'
  BY <1>15 DEF Import
<1>16. ASSUME NEW p \in Procs, Transition(p) PROVE Judgement'
  BY <1>16 DEF Transition, Swap, Judged, Return
<1>17. ASSUME NEW p \in Procs, ClearPid(p) PROVE Judgement'
  BY <1>17 DEF ClearPid
<1>18. ASSUME NEW p \in Procs, Release(p) PROVE Judgement'
  BY <1>18 DEF Release, ReleaseGpu, Released, Judged, Return
<1>19. CASE PollBegin
  BY <1>19 DEF PollBegin
<1>20. ASSUME NEW r \in Runs, PollRun(r) PROVE Judgement'
  BY <1>20 DEF PollRun
<1>21. CASE PollEnd
  BY <1>21 DEF PollEnd
<1>22. ASSUME NEW r \in Runs, RecoverRun(r) PROVE Judgement'
  BY <1>22 DEF RecoverRun
<1>23. CASE RecoverDone
  BY <1>23 DEF RecoverDone
<1>24. ASSUME NEW i \in Pids, NEW m \in Markers, TrainerWrites(i, m) PROVE Judgement'
  <2>1. /\ i \in live /\ fresh' = [fresh EXCEPT ![owner[i]] = @ \cup {m}]
        /\ UNCHANGED <<row, process, sawAlive, saved>>
    BY <1>24 DEF TrainerWrites
  <2>2. \A r \in Runs \ {owner[i]} : Finished(r)' => Finished(r)
    BY <2>1
  <2> HIDE DEF Typed, Turns, Judgement, Finished
  <2>3. QED
    BY <2>1, <2>2, WordsOfTheLiving
<1>25. ASSUME NEW i \in Pids, TrainerSaves(i) PROVE Judgement'
  <2>1. /\ i \in live /\ saved' = saved \cup {owner[i]}
        /\ UNCHANGED <<row, process, sawAlive, fresh>>
    BY <1>25 DEF TrainerSaves
  <2>2. \A r \in Runs \ {owner[i]} : Finished(r)' => Finished(r)
    BY <2>1
  <2> HIDE DEF Typed, Turns, Judgement, Finished
  <2>3. QED
    BY <2>1, <2>2, WordsOfTheLiving
<1>26. ASSUME NEW i \in Pids, TrainerExits(i) PROVE Judgement'
  BY <1>26 DEF TrainerExits
<1>27. CASE Evict
  BY <1>27 DEF Evict
<1>28. CASE Crash
  BY <1>28 DEF Crash
<1>29. CASE UNCHANGED vars
  BY <1>29 DEF vars
<1>30. QED
  BY <1>1, <1>2, <1>3, <1>4, <1>5, <1>6, <1>6a, <1>7, <1>8, <1>9, <1>10, <1>11, <1>12,
     <1>13, <1>14, <1>15, <1>16, <1>17, <1>18, <1>19, <1>20, <1>21, <1>22, <1>23,
     <1>24, <1>25, <1>26, <1>27, <1>28, <1>29 DEF Next, Call, Continue, Launch,
     Judge, Poll, World, Procs

-------------------------------------------------------------------------------
(* Theorems that need one request at a time and no restart *)

\* The invariants of the last three sections hold throughout.
LEMMA SerialAlways ==
    ASSUME OneCaller, NoRestart
    PROVE  Spec => [](Typed /\ Undisturbed /\ Judgement)
<1>1. Init => Turns /\ Held /\ Undisturbed /\ Judgement
  BY InitTurns, InitHeld, InitUndisturbed DEF Init, Judgement, Procs
<1>2. Typed /\ Turns /\ Held /\ Undisturbed /\ Judgement /\ [Next]_vars
        => (Turns /\ Held /\ Undisturbed /\ Judgement)'
  BY TurnsStep, HeldStep, UndisturbedStep, JudgementStep DEF Held
<1>3. Inv => Typed
  BY DEF Inv
<1>4. QED
  BY <1>1, <1>2, <1>3, InvHolds, PTL DEF Spec

\* Two trainers never share the GPU: preflight turns a start down as long as a
\* trainer of any run is alive.
THEOREM OneTrainerAtATime ==
    ASSUME OneCaller, NoRestart
    PROVE  Spec => []OneTrainer
<1>1. Typed /\ Undisturbed => OneTrainer
  <2> SUFFICES ASSUME Undisturbed PROVE OneTrainer
    OBVIOUS
  <2>1. live = {} \/ live = {spawned}
    BY DEF Undisturbed, Traced
  <2>2. Cardinality({}) = 0 /\ Cardinality({spawned}) = 1
    BY FS_EmptySet, FS_Singleton
  <2>3. QED
    BY <2>1, <2>2 DEF OneTrainer
<1>2. QED
  BY <1>1, SerialAlways, PTL

\* A trainer is alive only under a row that pause or cancel can act on.
THEOREM NoTrainerIsOrphaned ==
    ASSUME OneCaller, NoRestart
    PROVE  Spec => []NoOrphanTrainer
<1>1. Undisturbed => NoOrphanTrainer
  BY DEF Undisturbed, Traced, NoOrphanTrainer, LiveOf
<1>2. QED
  BY <1>1, SerialAlways, PTL

\* The verdict of interrupted is formed after the trainer's last word was read:
\* liveness is looked at before the log.
THEOREM FinishedRunIsNotWrittenOff ==
    ASSUME OneCaller, NoRestart
    PROVE  Spec => []FinishedIsNotInterrupted
<1>1. Judgement => FinishedIsNotInterrupted
  BY DEF Judgement, Finished, FinishedIsNotInterrupted
<1>2. QED
  BY <1>1, SerialAlways, PTL
===============================================================================
