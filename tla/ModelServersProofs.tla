---------------------------- MODULE ModelServersProofs ----------------------------
(***************************************************************************)
(* Proofs about ModelServers for any number of servers, callers, models,   *)
(* restarts and crashes: types, that a slot which calls itself up is over  *)
(* a server nobody stopped, and the safety half of the refinement: every   *)
(* step is one of ServerLife or leaves its phases alone.                   *)
(*                                                                         *)
(* The argument: a server that is kept is the slot's or in the hands of a  *)
(* call (Accounted), the lock leaves one call at work, and while one is at *)
(* work the slot holds no server of ours (Exclusive).  So a call that gets *)
(* to its spawn finds nothing kept.                                        *)
(***************************************************************************)
EXTENDS ModelServers, TLAPS

InHands == {"stopping", "waiting"}

\* One call at work at a time, and what it has in its local variables
OneAtWork == \A c \in Callers :
    /\ pc[c] # "idle" <=> lock = c
    /\ pc[c] \in InHands => held[c] \in Supervisors /\ sup[held[c]].monitor # "none"
    /\ pc[c] = "waiting" => ~sup[held[c]].stop

\* The slot's server was started and not stopped, and is nowhere while a call is at work
Exclusive ==
    owner \in Supervisors =>
        /\ server = "up" /\ lock = Nobody
        /\ sup[owner].monitor # "none" /\ ~sup[owner].stop

\* The books of the adapters with a server per model
Books == kind \in PerModel =>
    /\ resident # Nobody => server = "up" /\ lock = Nobody
    /\ owner \in Supervisors => resident # Nobody
    /\ \A c \in Callers :
        /\ task[c] # "options"
        /\ task[c] = "load" => arg[c] \in Models
        /\ pc[c] \in {"spawn", "waiting"} => task[c] = "load"
        /\ pc[c] = "stopping" => task[c] \in {"load", "unload"}

\* A supervisor nobody looks after any more has ended or is about to
Kept(s) == Phase(s) = "kept"

Accounted == \A s \in Supervisors :
    Kept(s) => s = owner \/ \E c \in Callers : pc[c] \in InHands /\ held[c] = s

\* A monitor that goes on has restarts left, and a child runs under one that goes on
Budget == \A s \in Supervisors :
    /\ sup[s].monitor # "done" => sup[s].restarts <= MaxRestarts
    /\ sup[s].child = "alive" => sup[s].monitor \notin {"none", "done"}

IInv == TypeOK /\ OneAtWork /\ Exclusive /\ Books /\ Accounted /\ Budget

-------------------------------------------------------------------------------
(* The supervisors *)

\* What the adapters and the monitor make of a supervisor's record is a record.
LEMMA Records ==
    ASSUME NEW r \in Supervision
    PROVE  /\ Unborn \in Supervision /\ Started \in Supervision
           /\ Stopping(r) \in Supervision /\ Dropped(r) \in Supervision
           /\ End(r, "stopped") \in Supervision /\ End(r, "gave_up") \in Supervision
           /\ End(r, r.state) \in Supervision
<1>1. Unborn \in Supervision
  BY BudgetAssumption DEF Supervision, Unborn
<1>2. Started \in Supervision
  BY <1>1 DEF Supervision, Started
<1>3. Stopping(r) \in Supervision
  BY DEF Supervision, Stopping
<1>4. Dropped(r) \in Supervision
  BY DEF Supervision, Dropped
<1>5. \A state \in {"stopped", "gave_up", r.state} : End(r, state) \in Supervision
  BY DEF Supervision, End
<1>6. QED  BY <1>1, <1>2, <1>3, <1>4, <1>5

\* What a monitor may make of a record: the orders it was given stay, and so does the
\* budget while it goes on.
Succeeds(q, r) ==
    /\ q \in Supervision /\ q.monitor # "none"
    /\ q.stop = r.stop
    /\ q.abort = r.abort
    /\ q.monitor # "done" => q.restarts <= MaxRestarts
    /\ q.child = "alive" => q.monitor # "done"

\* A monitor that ends is a successor of what it was.
LEMMA EndSucceeds ==
    ASSUME NEW r \in Supervision, NEW state \in {"stopped", "gave_up", r.state}
    PROVE  Succeeds(End(r, state), r)
<1>1. End(r, state) \in Supervision /\ End(r, state).monitor = "done"
  BY DEF Supervision, End
<1>2. End(r, state).child = "none"
  BY DEF Supervision, End
<1>3. End(r, state).stop = r.stop
  BY DEF Supervision, End
<1>4. End(r, state).abort = r.abort
  BY DEF Supervision, End
<1>5. QED  BY <1>1, <1>2, <1>3, <1>4 DEF Succeeds

\* One that goes on, with or without its child, is a successor within the budget.
LEMMA GoesOnSucceeds ==
    ASSUME NEW r \in Supervision, r.restarts <= MaxRestarts, r.monitor \notin {"none", "done"}
    PROVE  /\ Succeeds([r EXCEPT !.monitor = "killing"], r)
           /\ Succeeds([r EXCEPT !.monitor = "exited", !.child = "none"], r)
           /\ Succeeds([r EXCEPT !.monitor = "watch", !.child = "alive", !.state = "running"], r)
           /\ Succeeds([r EXCEPT !.child = "dead"], r)
<1>1. ASSUME NEW q, q = [r EXCEPT !.monitor = "killing"]  PROVE Succeeds(q, r)
  <2>1. q \in Supervision /\ q.monitor = "killing"  BY <1>1 DEF Supervision
  <2>2. q.stop = r.stop  BY <1>1 DEF Supervision
  <2>3. q.abort = r.abort  BY <1>1 DEF Supervision
  <2>4. q.restarts = r.restarts  BY <1>1 DEF Supervision
  <2>5. QED  BY <2>1, <2>2, <2>3, <2>4 DEF Succeeds
<1>2. ASSUME NEW q, q = [r EXCEPT !.monitor = "exited", !.child = "none"]  PROVE Succeeds(q, r)
  <2>1. q \in Supervision /\ q.monitor = "exited"  BY <1>2 DEF Supervision
  <2>2. q.stop = r.stop  BY <1>2 DEF Supervision
  <2>3. q.abort = r.abort  BY <1>2 DEF Supervision
  <2>4. q.restarts = r.restarts  BY <1>2 DEF Supervision
  <2>5. QED  BY <2>1, <2>2, <2>3, <2>4 DEF Succeeds
<1>3. ASSUME NEW q,
             q = [r EXCEPT !.monitor = "watch", !.child = "alive", !.state = "running"]
      PROVE  Succeeds(q, r)
  <2>1. q \in Supervision /\ q.monitor = "watch"  BY <1>3 DEF Supervision
  <2>2. q.stop = r.stop  BY <1>3 DEF Supervision
  <2>3. q.abort = r.abort  BY <1>3 DEF Supervision
  <2>4. q.restarts = r.restarts  BY <1>3 DEF Supervision
  <2>5. QED  BY <2>1, <2>2, <2>3, <2>4 DEF Succeeds
<1>4. ASSUME NEW q, q = [r EXCEPT !.child = "dead"]  PROVE Succeeds(q, r)
  <2>1. q \in Supervision /\ q.monitor = r.monitor  BY <1>4 DEF Supervision
  <2>2. q.stop = r.stop  BY <1>4 DEF Supervision
  <2>3. q.abort = r.abort  BY <1>4 DEF Supervision
  <2>4. q.restarts = r.restarts  BY <1>4 DEF Supervision
  <2>5. QED  BY <2>1, <2>2, <2>3, <2>4 DEF Succeeds
<1>5. QED  BY <1>1, <1>2, <1>3, <1>4

\* An exit that is judged ends the monitor or counts one restart.
LEMMA JudgeSucceeds ==
    ASSUME NEW r \in Supervision, r.restarts <= MaxRestarts,
           NEW q, q = [r EXCEPT !.restarts = @ + 1]
    PROVE  /\ q.restarts > MaxRestarts => Succeeds(End(q, "gave_up"), r)
           /\ q.restarts <= MaxRestarts =>
                Succeeds([q EXCEPT !.monitor = "backoff", !.state = "restarting"], r)
<1>1. q \in Supervision
  <2>1. r.restarts + 1 \in 0 .. MaxRestarts + 1  BY BudgetAssumption DEF Supervision
  <2>2. QED  BY <2>1 DEF Supervision
<1>2. q.stop = r.stop  BY DEF Supervision
<1>3. q.abort = r.abort  BY DEF Supervision
<1>4. q.restarts > MaxRestarts => Succeeds(End(q, "gave_up"), r)
  BY <1>1, <1>2, <1>3, EndSucceeds DEF Succeeds
<1>5. ASSUME q.restarts <= MaxRestarts,
             NEW p, p = [q EXCEPT !.monitor = "backoff", !.state = "restarting"]
      PROVE  Succeeds(p, r)
  <2>1. p \in Supervision /\ p.monitor = "backoff"  BY <1>1, <1>5 DEF Supervision
  <2>2. p.stop = r.stop  BY <1>1, <1>2, <1>5 DEF Supervision
  <2>3. p.abort = r.abort  BY <1>1, <1>3, <1>5 DEF Supervision
  <2>4. p.restarts = q.restarts  BY <1>1, <1>5 DEF Supervision
  <2>5. QED  BY <1>5, <2>1, <2>2, <2>3, <2>4 DEF Succeeds
<1>6. QED  BY <1>4, <1>5

\* Writing one record leaves the others and the types alone.
LEMMA SetOne ==
    ASSUME sup \in [Supervisors -> Supervision],
           NEW s \in Supervisors, NEW r \in Supervision, Set(s, r)
    PROVE  /\ sup' \in [Supervisors -> Supervision]
           /\ sup'[s] = r
           /\ \A t \in Supervisors \ {s} : sup'[t] = sup[t]
BY DEF Set

\* The monitor of s, or a crash of its child, changes s alone, into a successor.
LEMMA MonitorStep ==
    ASSUME TypeOK, Budget, NEW s \in Supervisors, Monitor(s) \/ ChildExits(s)
    PROVE  /\ sup' \in [Supervisors -> Supervision] /\ exits' \in 0 .. MaxExits
           /\ \A t \in Supervisors \ {s} : sup'[t] = sup[t]
           /\ Succeeds(sup'[s], sup[s])
           /\ sup[s].monitor \notin {"none", "done"}
<1> DEFINE r == sup[s]
<1>1. r \in Supervision  BY DEF TypeOK
<1>2. r.monitor \notin {"none", "done"}
  BY DEF Monitor, SeeStop, Killed, SeeExit, JudgeExit, BackoffStopped, Respawn, Aborted,
         ChildExits, Budget
<1>3. r.restarts <= MaxRestarts  BY <1>2 DEF Budget
<1>4. exits' \in 0 .. MaxExits
  BY BudgetAssumption DEF TypeOK, Monitor, SeeStop, Killed, SeeExit, JudgeExit, BackoffStopped,
         Respawn, Aborted, ChildExits
<1>5. \E q \in Supervision : Set(s, q) /\ Succeeds(q, r)
  <2>0. \A state \in {"stopped", "gave_up", r.state} : Succeeds(End(r, state), r)
    BY <1>1, EndSucceeds
  <2> DEFINE kill == [r EXCEPT !.monitor = "killing"]
             lost == [r EXCEPT !.monitor = "exited", !.child = "none"]
             back == [r EXCEPT !.monitor = "watch", !.child = "alive", !.state = "running"]
             dead == [r EXCEPT !.child = "dead"]
  <2>1. Succeeds(kill, r) /\ Succeeds(lost, r) /\ Succeeds(back, r) /\ Succeeds(dead, r)
    BY <1>1, <1>2, <1>3, GoesOnSucceeds
  <2> HIDE DEF kill, lost, back, dead
  <2>2. CASE SeeStop(s)  BY <2>1, <2>2 DEF SeeStop, kill, Succeeds
  <2>3. CASE Killed(s)  BY <2>0, <2>3 DEF Killed, Succeeds
  <2>4. CASE SeeExit(s)  BY <2>1, <2>4 DEF SeeExit, lost, Succeeds
  <2>5. CASE JudgeExit(s)
    <3> DEFINE q == [r EXCEPT !.restarts = @ + 1]
               p == [q EXCEPT !.monitor = "backoff", !.state = "restarting"]
    <3>1. q.restarts > MaxRestarts => Succeeds(End(q, "gave_up"), r)
      BY <1>1, <1>3, JudgeSucceeds
    <3>2. q.restarts <= MaxRestarts => Succeeds(p, r)
      BY <1>1, <1>3, JudgeSucceeds
    <3>3. q.restarts \in Int  BY <1>1 DEF Supervision
    <3>4. Set(s, IF r.stop THEN End(r, "stopped")
                 ELSE IF q.restarts > MaxRestarts THEN End(q, "gave_up") ELSE p)
      BY <2>5 DEF JudgeExit
    <3> HIDE DEF q, p
    <3>5. CASE r.stop  BY <2>0, <3>4, <3>5 DEF Succeeds
    <3>6. CASE ~r.stop /\ q.restarts > MaxRestarts  BY <3>1, <3>4, <3>6 DEF Succeeds
    <3>7. CASE ~r.stop /\ ~(q.restarts > MaxRestarts)
      <4>1. q.restarts <= MaxRestarts  BY <3>3, <3>7, BudgetAssumption
      <4>2. QED  BY <3>2, <3>4, <3>7, <4>1 DEF Succeeds
    <3>8. QED  BY <3>5, <3>6, <3>7
  <2>6. CASE BackoffStopped(s)  BY <2>0, <2>6 DEF BackoffStopped, Succeeds
  <2>7. CASE Respawn(s)  BY <2>0, <2>1, <2>7 DEF Respawn, back, Succeeds
  <2>8. CASE Aborted(s)  BY <2>0, <2>8 DEF Aborted, Succeeds
  <2>9. CASE ChildExits(s)  BY <2>1, <2>9 DEF ChildExits, dead, Succeeds
  <2>10. QED  BY <2>2, <2>3, <2>4, <2>5, <2>6, <2>7, <2>8, <2>9 DEF Monitor
<1>6. QED  BY <1>2, <1>4, <1>5, SetOne DEF TypeOK

-------------------------------------------------------------------------------
(* What the adapters write *)

\* The orders an adapter gives change the orders only; a new supervisor has none.
LEMMA Orders ==
    ASSUME NEW r \in Supervision
    PROVE  /\ Stopping(r).monitor = r.monitor /\ Stopping(r).child = r.child
           /\ Stopping(r).restarts = r.restarts
           /\ Dropped(r).monitor = r.monitor /\ Dropped(r).child = r.child
           /\ Dropped(r).restarts = r.restarts
           /\ Dropped(r).abort
           /\ Started.monitor = "watch" /\ Started.restarts = 0
           /\ ~Started.stop /\ ~Started.abort
<1>1. /\ Stopping(r).monitor = r.monitor /\ Stopping(r).child = r.child
      /\ Stopping(r).restarts = r.restarts
  BY DEF Supervision, Stopping
<1>2. /\ Dropped(r).monitor = r.monitor /\ Dropped(r).child = r.child
      /\ Dropped(r).restarts = r.restarts
  BY DEF Supervision, Dropped
<1>3. Dropped(r).abort  BY DEF Supervision, Dropped
<1>4. Started.monitor = "watch" /\ Started.restarts = 0  BY DEF Started, Unborn
<1>5. ~Started.stop /\ ~Started.abort  BY DEF Started, Unborn
<1>6. QED  BY <1>1, <1>2, <1>3, <1>4, <1>5

\* A stopped record keeps whether it is aborted.
LEMMA StoppingAbort == ASSUME NEW r \in Supervision PROVE Stopping(r).abort = r.abort
BY DEF Supervision, Stopping

Labels == {"idle", "stopping", "spawn", "waiting"}
Tasks  == {"none", "load", "unload", "options"}

\* A call that goes on writes its own variables and takes the lock.
LEMMA HoldFacts ==
    ASSUME TypeOK, NEW c \in Callers, NEW label \in Labels, NEW t \in Tasks,
           NEW m \in Models \cup {Nobody}, NEW s \in Supervisors \cup {Nobody},
           Hold(c, label, t, m, s)
    PROVE  /\ pc' \in [Callers -> Labels] /\ task' \in [Callers -> Tasks]
           /\ arg' \in [Callers -> Models \cup {Nobody}]
           /\ held' \in [Callers -> Supervisors \cup {Nobody}]
           /\ lock' = c /\ pc'[c] = label /\ task'[c] = t /\ arg'[c] = m /\ held'[c] = s
           /\ \A d \in Callers \ {c} :
                pc'[d] = pc[d] /\ task'[d] = task[d] /\ arg'[d] = arg[d] /\ held'[d] = held[d]
BY DEF Hold, TypeOK, Labels, Tasks

\* A call that returns clears them and gives the lock back.
LEMMA ReturnFacts ==
    ASSUME TypeOK, NEW c \in Callers, Return(c)
    PROVE  /\ pc' \in [Callers -> Labels] /\ task' \in [Callers -> Tasks]
           /\ arg' \in [Callers -> Models \cup {Nobody}]
           /\ held' \in [Callers -> Supervisors \cup {Nobody}]
           /\ lock' = Nobody /\ pc'[c] = "idle" /\ task'[c] = "none" /\ held'[c] = Nobody
           /\ \A d \in Callers \ {c} :
                pc'[d] = pc[d] /\ task'[d] = task[d] /\ arg'[d] = arg[d] /\ held'[d] = held[d]
BY DEF Return, TypeOK, Labels, Tasks

-------------------------------------------------------------------------------
(* The invariant *)

\* Before anything was started there is nothing to account for.
LEMMA InitIInv == Init => IInv
<1> SUFFICES ASSUME Init PROVE IInv  OBVIOUS
<1>0. Unborn \in Supervision  BY BudgetAssumption DEF Supervision, Unborn
<1>1. \A s \in Supervisors : sup[s] = Unborn  BY DEF Init, InitSupervisors
<1>2. TypeOK  BY <1>0, BudgetAssumption DEF TypeOK, Init, InitSupervisors, PerModel
<1>3. OneAtWork  BY NobodyAssumption DEF OneAtWork, Init, InHands
<1>4. Exclusive /\ Books  BY NobodyAssumption DEF Exclusive, Books, Init, PerModel
<1>5. Accounted  BY <1>1 DEF Accounted, Kept, Phase, Unborn
<1>6. Unborn.restarts = 0 /\ Unborn.child = "none"  BY DEF Unborn
<1>7. Budget
  <2> SUFFICES ASSUME NEW s \in Supervisors
               PROVE  sup[s].restarts <= MaxRestarts /\ sup[s].child # "alive"
    BY DEF Budget
  <2>1. sup[s].restarts = 0 /\ sup[s].child = "none"  BY <1>1, <1>6
  <2>2. QED  BY <2>1, BudgetAssumption
<1>8. QED  BY <1>2, <1>3, <1>4, <1>5, <1>7 DEF IInv

\* A supervisor is kept from its start to its end, unless it was aborted.
LEMMA KeptMeans ==
    /\ \A s \in Supervisors :
         Kept(s) <=> sup[s].monitor \notin {"none", "done"} /\ ~sup[s].abort
    /\ \A s \in Supervisors :
         Kept(s)' <=> sup'[s].monitor \notin {"none", "done"} /\ ~sup'[s].abort
BY DEF Kept, Phase

\* While a call is at work, no other is, and the slot is not over a server of ours.
LEMMA AtWork ==
    ASSUME IInv, NEW c \in Callers, pc[c] # "idle"
    PROVE  /\ lock = c /\ owner \notin Supervisors
           /\ \A d \in Callers \ {c} : pc[d] = "idle"
BY NobodyAssumption DEF IInv, OneAtWork, Exclusive

\* With the lock free nobody is at work, and only the slot keeps a server.
LEMMA AtRest ==
    ASSUME IInv, lock = Nobody
    PROVE  /\ \A c \in Callers : pc[c] = "idle"
           /\ \A s \in Supervisors : Kept(s) => s = owner
BY NobodyAssumption DEF IInv, OneAtWork, Accounted, InHands

\* Letting the slot's server go, for a swap, an unload or new options.
LEMMA TakeAndStopKeeps ==
    ASSUME IInv, NEW c \in Callers, Begin(c), NEW t \in Tasks \ {"none"},
           NEW m \in Models \cup {Nobody}, NEW kept \in Models \cup {Nobody},
           kind \in PerModel =>
               kept = Nobody /\ t # "options" /\ (t = "load" => m \in Models),
           TakeAndStop(c, t, m, kept)
    PROVE  IInv'
<1> USE DEF IInv
<1>1. \A d \in Callers : pc[d] = "idle"  BY AtRest DEF Begin
<1>2. server' = "down" /\ owner' = Nobody /\ resident' = kept /\ kind' = kind /\ exits' = exits
  BY DEF TakeAndStop, Serve, supervision
<1>3. owner' \notin Supervisors  BY <1>2, NobodyAssumption
<1>4. CASE Managed
  <2>1. Hold(c, "stopping", t, m, owner)  BY <1>4 DEF TakeAndStop
  <2> DEFINE q == Stopping(sup[owner])
  <2>2. owner \in Supervisors /\ sup[owner] \in Supervision  BY <1>4 DEF Managed, TypeOK
  <2>3. /\ q \in Supervision /\ q.monitor = sup[owner].monitor /\ q.child = sup[owner].child
        /\ q.restarts = sup[owner].restarts
    BY <2>2, Records, Orders
  <2>4. q.abort = sup[owner].abort  BY <2>2, StoppingAbort
  <2> HIDE DEF q
  <2>5. Set(owner, q)  BY <1>4 DEF TakeAndStop, q
  <2>6. /\ sup' \in [Supervisors -> Supervision] /\ sup'[owner] = q
        /\ \A s \in Supervisors \ {owner} : sup'[s] = sup[s]
    BY <2>2, <2>3, <2>5, SetOne DEF TypeOK
  <2>7. /\ pc' \in [Callers -> Labels] /\ task' \in [Callers -> Tasks]
        /\ arg' \in [Callers -> Models \cup {Nobody}]
        /\ held' \in [Callers -> Supervisors \cup {Nobody}]
        /\ lock' = c /\ pc'[c] = "stopping" /\ task'[c] = t /\ arg'[c] = m /\ held'[c] = owner
        /\ \A d \in Callers \ {c} :
             pc'[d] = pc[d] /\ task'[d] = task[d] /\ arg'[d] = arg[d] /\ held'[d] = held[d]
    BY <2>1, <2>2, HoldFacts DEF Labels
  <2>8. TypeOK'  BY <1>2, <2>6, <2>7 DEF TypeOK, Labels, Tasks
  <2>9. OneAtWork'  BY <1>1, <2>2, <2>3, <2>6, <2>7 DEF OneAtWork, InHands, Exclusive
  <2>10. Exclusive'  BY <1>3 DEF Exclusive
  <2>11. Books'  BY <1>1, <1>2, <1>3, <2>7 DEF Books, Tasks
  <2>12. Accounted'
    BY <2>2, <2>3, <2>4, <2>6, <2>7, KeptMeans, AtRest DEF Accounted, InHands, Begin
  <2>13. Budget'  BY <2>2, <2>3, <2>6 DEF Budget
  <2>14. QED  BY <2>8, <2>9, <2>10, <2>11, <2>12, <2>13
<1>5. CASE ~Managed
  <2>1. sup' = sup /\ owner \notin Supervisors  BY <1>5 DEF TakeAndStop, supervision, Managed
  <2>2. CASE t = "unload"
    <3>1. Return(c)  BY <1>5, <2>2 DEF TakeAndStop
    <3>2. /\ pc' \in [Callers -> Labels] /\ task' \in [Callers -> Tasks]
          /\ arg' \in [Callers -> Models \cup {Nobody}]
          /\ held' \in [Callers -> Supervisors \cup {Nobody}]
          /\ lock' = Nobody /\ pc'[c] = "idle" /\ task'[c] = "none" /\ held'[c] = Nobody
          /\ \A d \in Callers \ {c} :
               pc'[d] = pc[d] /\ task'[d] = task[d] /\ arg'[d] = arg[d] /\ held'[d] = held[d]
      BY <3>1, ReturnFacts
    <3>3. TypeOK'  BY <1>2, <2>1, <3>2 DEF TypeOK, Labels, Tasks
    <3>4. OneAtWork'  BY <1>1, <3>2, NobodyAssumption DEF OneAtWork, InHands
    <3>5. Exclusive' /\ Budget'  BY <1>3, <2>1 DEF Exclusive, Budget
    <3>6. Books'  BY <1>1, <1>2, <1>3, <2>2, <3>2 DEF Books
    <3>7. Accounted'  BY <2>1, KeptMeans, AtRest DEF Accounted, Begin
    <3>8. QED  BY <3>3, <3>4, <3>5, <3>6, <3>7
  <2>3. CASE t # "unload"
    <3>1. Hold(c, "spawn", t, m, Nobody)  BY <1>5, <2>3 DEF TakeAndStop
    <3>2. /\ pc' \in [Callers -> Labels] /\ task' \in [Callers -> Tasks]
          /\ arg' \in [Callers -> Models \cup {Nobody}]
          /\ held' \in [Callers -> Supervisors \cup {Nobody}]
          /\ lock' = c /\ pc'[c] = "spawn" /\ task'[c] = t /\ arg'[c] = m /\ held'[c] = Nobody
          /\ \A d \in Callers \ {c} :
               pc'[d] = pc[d] /\ task'[d] = task[d] /\ arg'[d] = arg[d] /\ held'[d] = held[d]
      BY <3>1, HoldFacts DEF Labels
    <3>3. TypeOK'  BY <1>2, <2>1, <3>2 DEF TypeOK, Labels, Tasks
    <3>4. OneAtWork'  BY <1>1, <3>2, NobodyAssumption DEF OneAtWork, InHands
    <3>5. Exclusive' /\ Budget'  BY <1>3, <2>1 DEF Exclusive, Budget
    <3>6. Books'  BY <1>1, <1>2, <1>3, <2>3, <3>2 DEF Books, Tasks
    <3>7. Accounted'  BY <2>1, KeptMeans, AtRest DEF Accounted, Begin
    <3>8. QED  BY <3>3, <3>4, <3>5, <3>6, <3>7
  <2>4. QED  BY <2>2, <2>3
<1>6. QED  BY <1>4, <1>5

\* A call that takes the lock to start a server while the slot is empty.
LEMMA TakesLock ==
    ASSUME IInv, NEW c \in Callers, Begin(c), owner \notin Supervisors, NEW m \in Models,
           kind \in PerModel => resident = Nobody,
           Hold(c, "spawn", "load", m, Nobody), UNCHANGED <<supervision, adapter>>
    PROVE  IInv'
<1> USE DEF IInv, supervision, adapter
<1>1. \A d \in Callers : pc[d] = "idle"  BY AtRest DEF Begin
<1>2. /\ pc' \in [Callers -> Labels] /\ task' \in [Callers -> Tasks]
      /\ arg' \in [Callers -> Models \cup {Nobody}]
      /\ held' \in [Callers -> Supervisors \cup {Nobody}]
      /\ lock' = c /\ pc'[c] = "spawn" /\ task'[c] = "load" /\ arg'[c] = m /\ held'[c] = Nobody
      /\ \A d \in Callers \ {c} :
           pc'[d] = pc[d] /\ task'[d] = task[d] /\ arg'[d] = arg[d] /\ held'[d] = held[d]
  BY HoldFacts DEF Labels, Tasks
<1>3. TypeOK'  BY <1>2 DEF TypeOK, Labels, Tasks
<1>4. OneAtWork'  BY <1>1, <1>2, NobodyAssumption DEF OneAtWork, InHands
<1>5. Exclusive' /\ Budget'  BY DEF Exclusive, Budget
<1>6. Books'  BY <1>1, <1>2, NobodyAssumption DEF Books
<1>7. Accounted'  BY KeptMeans, AtRest DEF Accounted, Begin
<1>8. QED  BY <1>3, <1>4, <1>5, <1>6, <1>7

\* Overwriting the slot with a server of the user drops the one of ours that was there.
LEMMA AttachKeeps ==
    ASSUME IInv, NEW c \in Callers, Begin(c), NEW m \in Models \cup {Nobody},
           Serve("up", Attached, m), UNCHANGED <<exits, calls>>,
           sup' = IF Managed THEN [sup EXCEPT ![owner] = Dropped(sup[owner])] ELSE sup
    PROVE  IInv'
<1> USE DEF IInv, calls
<1>1. \A d \in Callers : pc[d] = "idle"  BY AtRest DEF Begin
<1>2. /\ server' = "up" /\ owner' \notin Supervisors /\ owner' = Attached
      /\ resident' = m /\ kind' = kind
  BY NobodyAssumption DEF Serve
<1>3. CASE ~Managed
  <2>1. sup' = sup /\ owner \notin Supervisors  BY <1>3 DEF Managed
  <2>2. QED
    BY <1>1, <1>2, <2>1, KeptMeans, AtRest, NobodyAssumption
    DEF TypeOK, OneAtWork, InHands, Exclusive, Books, Accounted, Budget, Begin
<1>4. CASE Managed
  <2> DEFINE q == Dropped(sup[owner])
  <2>1. owner \in Supervisors /\ sup[owner] \in Supervision  BY <1>4 DEF Managed, TypeOK
  <2>2. /\ q \in Supervision /\ q.monitor = sup[owner].monitor /\ q.child = sup[owner].child
        /\ q.restarts = sup[owner].restarts
    BY <2>1, Records, Orders
  <2>3. q.abort  BY <2>1, Orders
  <2> HIDE DEF q
  <2>4. Set(owner, q)  BY <1>4 DEF Set, q
  <2>5. /\ sup' \in [Supervisors -> Supervision] /\ sup'[owner] = q
        /\ \A s \in Supervisors \ {owner} : sup'[s] = sup[s]
    BY <2>1, <2>2, <2>4, SetOne DEF TypeOK
  <2>6. TypeOK'  BY <1>2, <2>5 DEF TypeOK
  <2>7. OneAtWork'  BY <1>1 DEF OneAtWork, InHands
  <2>8. Exclusive' /\ Books'  BY <1>1, <1>2 DEF Exclusive, Books, Begin
  <2>9. Accounted'  BY <2>1, <2>3, <2>5, KeptMeans, AtRest DEF Accounted, Begin
  <2>10. Budget'  BY <2>1, <2>2, <2>5 DEF Budget
  <2>11. QED  BY <2>6, <2>7, <2>8, <2>9, <2>10
<1>5. QED  BY <1>3, <1>4

\* The rest of a call: it goes on only alone, and what it lets go of is gone.
LEMMA CallGoesOnKeeps ==
    ASSUME IInv, NEW c \in Callers, GoesOn(c) \/ CallerGone(c)
    PROVE  IInv'
<1> USE DEF IInv
<1>1. pc[c] # "idle"
  BY DEF GoesOn, CallerGone, AwaitStop, SpawnFails, Healthy, NotHealthy, Spawn
<1>2. lock = c /\ owner \notin Supervisors /\ \A d \in Callers \ {c} : pc[d] = "idle"
  BY <1>1, AtWork
<1>3. \A s \in Supervisors : Kept(s) => pc[c] \in InHands /\ held[c] = s
  BY <1>2 DEF Accounted, InHands
<1> DEFINE Ended == /\ pc' \in [Callers -> Labels] /\ task' \in [Callers -> Tasks]
                    /\ arg' \in [Callers -> Models \cup {Nobody}]
                    /\ held' \in [Callers -> Supervisors \cup {Nobody}]
                    /\ lock' = Nobody /\ pc'[c] = "idle" /\ task'[c] = "none"
                    /\ \A d \in Callers \ {c} :
                         pc'[d] = pc[d] /\ task'[d] = task[d] /\ arg'[d] = arg[d]
                         /\ held'[d] = held[d]
<1>4. Return(c) => Ended  BY ReturnFacts
<1> HIDE DEF Ended
<1>5. Ended => OneAtWork'
  BY <1>2, NobodyAssumption DEF Ended, OneAtWork, InHands
<1>6. CASE AwaitStop(c)
  <2>1. /\ pc[c] = "stopping" /\ held[c] \in Supervisors /\ sup[held[c]].monitor = "done"
        /\ UNCHANGED <<sup, exits, kind, server, owner, resident>>
    BY <1>6 DEF AwaitStop, HasStopped, OneAtWork, InHands, supervision, adapter
  <2>2. \A s \in Supervisors : ~Kept(s)  BY <1>3, <2>1, KeptMeans
  <2>3. Exclusive' /\ Accounted' /\ Budget'
    BY <1>2, <2>1, <2>2, KeptMeans DEF Exclusive, Accounted, Budget
  <2>4. CASE task[c] = "unload"
    <3>1. Ended  BY <1>4, <1>6, <2>4 DEF AwaitStop
    <3>2. TypeOK'  BY <2>1, <3>1 DEF Ended, TypeOK, Labels, Tasks
    <3>3. Books'  BY <1>2, <2>1, <3>1, NobodyAssumption DEF Ended, Books
    <3>4. QED  BY <1>5, <2>3, <3>1, <3>2, <3>3
  <2>5. CASE task[c] # "unload"
    <3>1. Hold(c, "spawn", task[c], arg[c], Nobody)  BY <1>6, <2>5 DEF AwaitStop, Goto
    <3>2. task[c] \in Tasks /\ arg[c] \in Models \cup {Nobody}  BY DEF TypeOK, Tasks
    <3>3. /\ pc' \in [Callers -> Labels] /\ task' \in [Callers -> Tasks]
          /\ arg' \in [Callers -> Models \cup {Nobody}]
          /\ held' \in [Callers -> Supervisors \cup {Nobody}]
          /\ lock' = c /\ pc'[c] = "spawn" /\ task'[c] = task[c] /\ arg'[c] = arg[c]
          /\ \A d \in Callers \ {c} :
               pc'[d] = pc[d] /\ task'[d] = task[d] /\ arg'[d] = arg[d] /\ held'[d] = held[d]
      BY <3>1, <3>2, HoldFacts DEF Labels
    <3>4. TypeOK'  BY <2>1, <3>3 DEF TypeOK, Labels, Tasks
    <3>5. OneAtWork'  BY <1>2, <3>3 DEF OneAtWork, InHands
    <3>6. Books'  BY <1>2, <2>1, <2>5, <3>3, NobodyAssumption DEF Books
    <3>7. QED  BY <2>3, <3>4, <3>5, <3>6
  <2>6. QED  BY <2>4, <2>5
<1>7. CASE SpawnFails(c)
  <2>1. Ended /\ pc[c] = "spawn" /\ UNCHANGED <<sup, exits, kind, server, owner, resident>>
    BY <1>4, <1>7 DEF SpawnFails, supervision, adapter
  <2>2. \A s \in Supervisors : ~Kept(s)  BY <1>3, <2>1 DEF InHands
  <2>3. TypeOK'  BY <2>1 DEF Ended, TypeOK, Labels, Tasks
  <2>4. Exclusive' /\ Accounted' /\ Budget'
    BY <1>2, <2>1, <2>2, KeptMeans DEF Exclusive, Accounted, Budget
  <2>5. Books'  BY <1>2, <2>1, NobodyAssumption DEF Ended, Books
  <2>6. QED  BY <1>5, <2>1, <2>3, <2>4, <2>5
<1>8. CASE Healthy(c)
  <2>1. /\ Ended /\ pc[c] = "waiting" /\ held[c] \in Supervisors
        /\ sup[held[c]].monitor # "none" /\ ~sup[held[c]].stop
        /\ UNCHANGED <<sup, exits, kind>>
        /\ server' = "up" /\ owner' = held[c]
        /\ resident' = IF task[c] = "load" THEN arg[c] ELSE resident
    BY <1>4, <1>8 DEF Healthy, Serve, OneAtWork, InHands, supervision
  <2>2. TypeOK'  BY <2>1 DEF Ended, TypeOK, Labels, Tasks
  <2>3. Exclusive'  BY <2>1 DEF Ended, Exclusive
  <2>4. Accounted' /\ Budget'  BY <1>3, <2>1, KeptMeans DEF Accounted, Budget
  <2>5. Books'  BY <1>2, <2>1, NobodyAssumption DEF Ended, Books
  <2>6. QED  BY <1>5, <2>1, <2>2, <2>3, <2>4, <2>5
<1>9. CASE NotHealthy(c) \/ CallerGone(c)
  <2> DEFINE x == held[c]
             q == Dropped(sup[x])
  <2>1. Ended /\ pc[c] \in InHands /\ x \in Supervisors /\ sup[x].monitor # "none"
    BY <1>4, <1>9 DEF NotHealthy, CallerGone, OneAtWork, InHands
  <2>2. /\ exits' = exits /\ kind' = kind /\ owner' \notin Supervisors
        /\ server' \in {"down", "starting", "up"} /\ owner' \in {Attached, Nobody}
        /\ resident' = resident
        /\ server' = "up" \/ kind \in PerModel => resident' = resident
    BY <1>2, <1>9, NobodyAssumption DEF NotHealthy, CallerGone, Serve, adapter, TypeOK
  <2>3. kind \in PerModel => resident = Nobody
    BY <1>2, NobodyAssumption DEF Books
  <2>4. sup[x] \in Supervision  BY <2>1 DEF TypeOK
  <2>5. /\ q \in Supervision /\ q.monitor = sup[x].monitor /\ q.child = sup[x].child
        /\ q.restarts = sup[x].restarts
    BY <2>4, Records, Orders
  <2>6. q.abort  BY <2>4, Orders
  <2>7. Set(x, q)  BY <1>9 DEF NotHealthy, CallerGone
  <2> HIDE DEF q, x
  <2>8. /\ sup' \in [Supervisors -> Supervision] /\ sup'[x] = q
        /\ \A s \in Supervisors \ {x} : sup'[s] = sup[s]
    BY <2>1, <2>5, <2>7, SetOne DEF TypeOK
  <2>9. TypeOK'  BY <2>1, <2>2, <2>8 DEF Ended, TypeOK, Labels, Tasks
  <2>10. Exclusive'  BY <2>2 DEF Exclusive
  <2>11. Accounted'  BY <1>3, <2>6, <2>8, KeptMeans DEF Accounted, x
  <2>12. Budget'  BY <2>1, <2>5, <2>8 DEF Budget
  <2>13. Books'  BY <1>2, <2>1, <2>2, <2>3 DEF Ended, Books
  <2>14. QED  BY <1>5, <2>1, <2>9, <2>10, <2>11, <2>12, <2>13
<1>10. ASSUME NEW s \in Supervisors, Spawn(c, s)  PROVE IInv'
  <2>1. /\ pc[c] = "spawn" /\ Set(s, Started) /\ exits' = exits /\ kind' = kind
        /\ server' = "starting" /\ owner' = Nobody /\ resident' = resident
        /\ Hold(c, "waiting", task[c], arg[c], s)
    BY <1>10 DEF Spawn, Serve, Goto
  <2>2. task[c] \in Tasks /\ arg[c] \in Models \cup {Nobody}  BY DEF TypeOK, Tasks
  <2>3. /\ pc' \in [Callers -> Labels] /\ task' \in [Callers -> Tasks]
        /\ arg' \in [Callers -> Models \cup {Nobody}]
        /\ held' \in [Callers -> Supervisors \cup {Nobody}]
        /\ lock' = c /\ pc'[c] = "waiting" /\ held'[c] = s
        /\ task'[c] = task[c] /\ arg'[c] = arg[c]
        /\ \A d \in Callers \ {c} :
             pc'[d] = pc[d] /\ task'[d] = task[d] /\ arg'[d] = arg[d] /\ held'[d] = held[d]
    BY <2>1, <2>2, HoldFacts DEF Labels
  <2>4. sup[s] \in Supervision  BY DEF TypeOK
  <2>5. /\ Started \in Supervision /\ Started.monitor = "watch" /\ Started.restarts = 0
        /\ ~Started.stop
    BY <2>4, Records, Orders
  <2>6. /\ sup' \in [Supervisors -> Supervision] /\ sup'[s] = Started
        /\ \A t \in Supervisors \ {s} : sup'[t] = sup[t]
    BY <2>1, <2>5, SetOne DEF TypeOK
  <2>7. TypeOK'  BY <2>1, <2>3, <2>6 DEF TypeOK, Labels, Tasks
  <2>8. OneAtWork'
    BY <1>2, <2>3, <2>5, <2>6 DEF OneAtWork, InHands
  <2>9. Exclusive'  BY <2>1, NobodyAssumption DEF Exclusive
  <2>10. Accounted'
    BY <1>3, <2>1, <2>3, <2>6, KeptMeans DEF Accounted, InHands
  <2>11. \A t \in Supervisors :
           (sup'[t].monitor # "done" => sup'[t].restarts <= MaxRestarts)
    BY <2>5, <2>6, BudgetAssumption DEF Budget
  <2>12. Budget'  BY <2>5, <2>6, <2>11 DEF Budget
  <2>13. Books'
    BY <1>2, <2>1, <2>3, NobodyAssumption DEF Books
  <2>14. QED  BY <2>7, <2>8, <2>9, <2>10, <2>12, <2>13
<1>11. QED  BY <1>6, <1>7, <1>8, <1>9, <1>10 DEF GoesOn

\* The monitors work on one supervisor each, and leave the adapter alone.
LEMMA MonitorKeeps ==
    ASSUME IInv, NEW s \in Supervisors, Monitor(s) \/ ChildExits(s), UNCHANGED <<adapter, calls>>
    PROVE  IInv'
<1> USE DEF IInv, adapter, calls
<1>1. /\ sup' \in [Supervisors -> Supervision] /\ exits' \in 0 .. MaxExits
      /\ \A t \in Supervisors \ {s} : sup'[t] = sup[t]
      /\ Succeeds(sup'[s], sup[s])
      /\ sup[s].monitor \notin {"none", "done"}
  BY MonitorStep
<1>2. TypeOK'  BY <1>1 DEF TypeOK
<1>3. OneAtWork'
  <2>1. \A t \in Supervisors :
          (sup[t].monitor # "none" => sup'[t].monitor # "none") /\ (sup'[t].stop = sup[t].stop)
    BY <1>1 DEF Succeeds
  <2>2. \A c \in Callers : pc[c] = "waiting" => pc[c] \in InHands  BY DEF InHands
  <2>3. QED  BY <2>1, <2>2 DEF OneAtWork
<1>4. Exclusive'  BY <1>1 DEF Exclusive, Succeeds
<1>5. Books'  BY DEF Books
<1>6. Accounted'  BY <1>1, KeptMeans DEF Accounted, Succeeds
<1>7. Budget'  BY <1>1 DEF Budget, Succeeds
<1>8. QED  BY <1>2, <1>3, <1>4, <1>5, <1>6, <1>7

\* The calls that begin: each is one of three shapes, or writes the resident model alone.
LEMMA CallKeeps ==
    ASSUME IInv, NEW c \in Callers, Call(c)
    PROVE  IInv'
<1> USE DEF IInv
<1>1. ASSUME NEW m \in Models, SwapModel(c, m)  PROVE IInv'
  BY <1>1, TakeAndStopKeeps DEF SwapModel, Tasks
<1>2. ASSUME NEW m \in Models, LoadFirst(c, m)  PROVE IInv'
  BY <1>2, TakesLock, NobodyAssumption DEF LoadFirst, Books
<1>3. ASSUME NEW m \in Models, UnloadModel(c, m)  PROVE IInv'
  BY <1>3, TakeAndStopKeeps DEF UnloadModel, Tasks
<1>4. ASSUME NEW m \in Models, Attach(c, m)  PROVE IInv'
  BY <1>4, AttachKeeps DEF Attach
<1>5. ASSUME NEW m \in Models, LoadWithServer(c, m)  PROVE IInv'
  BY <1>5, TakesLock DEF LoadWithServer, Exclusive, PerModel
<1>6. ASSUME NEW m \in Models, LoadOnServer(c, m) \/ FreeModel(c, m)  PROVE IInv'
  <2>1. /\ kind \notin PerModel /\ UNCHANGED <<supervision, calls, kind, server, owner>>
        /\ resident' \in Models \cup {Nobody}
    BY <1>6 DEF LoadOnServer, FreeModel, Serve, PerModel
  <2>2. QED
    BY <2>1, KeptMeans
    DEF supervision, calls, TypeOK, OneAtWork, Exclusive, Books, Accounted, Budget
<1>7. CASE AttachServer(c)  BY <1>7, AttachKeeps DEF AttachServer, TypeOK
<1>8. CASE SetOptions(c)
  <2>1. kind \notin PerModel  BY <1>8 DEF SetOptions, PerModel
  <2>2. QED  BY <1>8, <2>1, TakeAndStopKeeps DEF SetOptions, Tasks, TypeOK
<1>9. QED  BY <1>1, <1>2, <1>3, <1>4, <1>5, <1>6, <1>7, <1>8 DEF Call

\* Every step keeps the invariant.
LEMMA NextIInv == IInv /\ [Next]_vars => IInv'
<1> SUFFICES ASSUME IInv, [Next]_vars PROVE IInv'  OBVIOUS
<1>1. ASSUME NEW c \in Callers, Call(c) \/ GoesOn(c) \/ CallerGone(c)  PROVE IInv'
  BY <1>1, CallKeeps, CallGoesOnKeeps
<1>2. ASSUME NEW s \in Supervisors, Monitor(s) \/ ChildExits(s), UNCHANGED <<adapter, calls>>
      PROVE  IInv'
  BY <1>2, MonitorKeeps
<1>3. CASE UNCHANGED vars
  BY <1>3, KeptMeans
  DEF vars, supervision, adapter, calls, IInv, TypeOK, OneAtWork, Exclusive, Books, Accounted,
      Budget
<1>4. QED  BY <1>1, <1>2, <1>3 DEF Next

\* The strengthening holds in every state the adapters reach.
LEMMA InvariantHolds == Spec => []IInv
BY InitIInv, NextIInv, PTL DEF Spec

\* And with it the types.
THEOREM TypeCorrect == Spec => []TypeOK
<1>1. IInv => TypeOK  BY DEF IInv
<1>2. QED  BY <1>1, InvariantHolds, PTL

\* loaded_models never names a model over a server that was told to stop.
THEOREM UpIsNeverStopping == Spec => []UpIsNotStopping
<1>1. IInv => UpIsNotStopping
  BY DEF IInv, UpIsNotStopping, Managed, Exclusive, Books
<1>2. QED  BY <1>1, InvariantHolds, PTL

-------------------------------------------------------------------------------
(* The refinement *)

phases == [s \in Supervisors |-> Phase(s)]

\* A step that touches one supervisor that was started, and lets it neither be born
\* again nor be given back, is a stutter of ServerLife or lets that one go.
LEMMA OneLetsGo ==
    ASSUME NEW x \in Supervisors, \A s \in Supervisors \ {x} : sup'[s] = sup[s],
           sup[x].monitor # "none", sup'[x].monitor # "none",
           sup[x].monitor = "done" => sup'[x].monitor = "done",
           sup[x].abort => sup'[x].abort
    PROVE  [Servers!Next]_phases
<1>1. \A s \in Supervisors \ {x} : Phase(s)' = Phase(s)  BY DEF Phase
<1>2. phases \in [Supervisors -> {"fresh", "kept", "gone"}]  BY DEF phases, Phase
<1>3. phases' = [s \in Supervisors |-> Phase(s)']  BY DEF phases
<1>4. CASE Phase(x)' = Phase(x)
  <2>1. phases' = phases  BY <1>1, <1>3, <1>4 DEF phases
  <2>2. QED  BY <2>1
<1>5. CASE Phase(x)' # Phase(x)
  <2>1. Phase(x) = "kept" /\ Phase(x)' = "gone"  BY <1>5 DEF Phase
  <2>2. phases' = [phases EXCEPT ![x] = "gone"]  BY <1>1, <1>3, <2>1 DEF phases
  <2>3. phases[x] = "kept"  BY <2>1 DEF phases
  <2>4. Servers!LetGo(x)  BY <2>2, <2>3 DEF Servers!LetGo, phases
  <2>5. QED  BY <2>4 DEF Servers!Next
<1>6. QED  BY <1>4, <1>5

\* What is left alone stutters.
LEMMA Stutter == ASSUME sup' = sup PROVE [Servers!Next]_phases
BY DEF phases, Phase

\* An order to a server that was started lets it go, or changes nothing outside.
LEMMA OrderLetsGo ==
    ASSUME sup \in [Supervisors -> Supervision], NEW x \in Supervisors,
           sup[x].monitor # "none",
           Set(x, Stopping(sup[x])) \/ Set(x, Dropped(sup[x]))
    PROVE  [Servers!Next]_phases
<1>1. sup[x] \in Supervision  OBVIOUS
<1>2. PICK q \in Supervision :
        /\ Set(x, q) /\ q.monitor = sup[x].monitor
        /\ sup[x].abort => q.abort
  BY <1>1, Records, Orders, StoppingAbort
<1>3. sup'[x] = q /\ \A s \in Supervisors \ {x} : sup'[s] = sup[s]
  BY <1>2, SetOne
<1>4. QED  BY <1>2, <1>3, OneLetsGo

\* A call starts a server only when none is kept.
LEMMA SpawnKeepsOne ==
    ASSUME IInv, NEW c \in Callers, NEW s \in Supervisors, Spawn(c, s)
    PROVE  [Servers!Next]_phases
<1>1. pc[c] = "spawn" /\ sup[s] = Unborn /\ Set(s, Started)  BY DEF Spawn
<1>2. owner \notin Supervisors /\ \A d \in Callers \ {c} : pc[d] = "idle"
  BY <1>1, AtWork
<1>3. \A t \in Supervisors : Phase(t) # "kept"
  BY <1>1, <1>2 DEF IInv, Accounted, InHands, Kept
<1>4. Started \in Supervision /\ sup[s] \in Supervision
  BY Records DEF IInv, TypeOK
<1>5. sup'[s] = Started /\ \A t \in Supervisors \ {s} : sup'[t] = sup[t]
  BY <1>1, <1>4, SetOne DEF IInv, TypeOK
<1>6. Phase(s) = "fresh"
  <2>1. Unborn.monitor = "none"  BY DEF Unborn
  <2>2. sup[s].monitor = "none"  BY <1>1, <2>1
  <2>3. QED  BY <2>2 DEF Phase
<1>7. Phase(s)' = "kept"
  <2>1. Started.monitor = "watch" /\ ~Started.abort  BY <1>4, Orders
  <2>2. QED  BY <1>5, <2>1 DEF Phase
<1>8. \A t \in Supervisors \ {s} : Phase(t)' = Phase(t)  BY <1>5 DEF Phase
<1>9. phases' = [phases EXCEPT ![s] = "kept"]  BY <1>7, <1>8 DEF phases
<1>10. phases[s] = "fresh" /\ \A t \in Supervisors : phases[t] # "kept"
  BY <1>3, <1>6 DEF phases
<1>11. Servers!Keep(s)  BY <1>9, <1>10 DEF Servers!Keep, phases
<1>12. QED  BY <1>11 DEF Servers!Next

\* Every step of the adapters is a step of ServerLife or a stutter.
LEMMA StepRefines == IInv /\ [Next]_vars => [Servers!Next]_phases
<1> SUFFICES ASSUME IInv, [Next]_vars PROVE [Servers!Next]_phases  OBVIOUS
<1>0. sup \in [Supervisors -> Supervision]  BY DEF IInv, TypeOK
<1>1. Managed => owner \in Supervisors /\ sup[owner].monitor # "none"
  BY DEF IInv, Exclusive, Managed
<1>2. ASSUME NEW c \in Callers, Call(c)  PROVE [Servers!Next]_phases
  <2>1. CASE sup' = sup  BY <2>1, Stutter
  <2>2. CASE Managed /\ (Set(owner, Stopping(sup[owner])) \/ Set(owner, Dropped(sup[owner])))
    BY <1>0, <1>1, <2>2, OrderLetsGo
  <2>3. QED
    BY <1>2, <2>1, <2>2
    DEF Call, SwapModel, LoadFirst, UnloadModel, Attach, LoadOnServer, LoadWithServer, FreeModel,
        AttachServer, SetOptions, TakeAndStop, supervision, Set
<1>3. ASSUME NEW c \in Callers, GoesOn(c) \/ CallerGone(c)  PROVE [Servers!Next]_phases
  <2>1. CASE AwaitStop(c) \/ SpawnFails(c) \/ Healthy(c)
    BY <2>1, Stutter DEF AwaitStop, SpawnFails, Healthy, supervision
  <2>2. CASE NotHealthy(c) \/ CallerGone(c)
    <3>1. pc[c] \in InHands /\ Set(held[c], Dropped(sup[held[c]]))
      BY <2>2 DEF NotHealthy, CallerGone, InHands
    <3>2. held[c] \in Supervisors /\ sup[held[c]].monitor # "none"
      BY <3>1 DEF IInv, OneAtWork
    <3>3. QED  BY <1>0, <3>1, <3>2, OrderLetsGo
  <2>3. QED  BY <1>3, <2>1, <2>2, SpawnKeepsOne DEF GoesOn
<1>4. ASSUME NEW s \in Supervisors, Monitor(s) \/ ChildExits(s)  PROVE [Servers!Next]_phases
  <2>1. /\ \A t \in Supervisors \ {s} : sup'[t] = sup[t]
        /\ Succeeds(sup'[s], sup[s])
        /\ sup[s].monitor \notin {"none", "done"}
    BY <1>4, MonitorStep DEF IInv
  <2>2. QED  BY <2>1, OneLetsGo DEF Succeeds
<1>5. CASE UNCHANGED vars  BY <1>5, Stutter DEF vars, supervision
<1>6. QED  BY <1>2, <1>3, <1>4, <1>5 DEF Next

\* The adapters keep one server at a time and never take back one they let go of.
THEOREM Refinement == Spec => OneServerAtATime
<1>1. Init => Servers!Init
  <2>1. Unborn.monitor = "none"  BY DEF Unborn
  <2> SUFFICES ASSUME Init PROVE Servers!Init  OBVIOUS
  <2>2. \A s \in Supervisors : sup[s] = Unborn  BY DEF Init, InitSupervisors
  <2>3. \A s \in Supervisors : Phase(s) = "fresh"
    <3> SUFFICES ASSUME NEW s \in Supervisors PROVE Phase(s) = "fresh"  OBVIOUS
    <3>1. sup[s].monitor = "none"  BY <2>1, <2>2
    <3>2. QED  BY <3>1 DEF Phase
  <2>4. QED  BY <2>3 DEF Servers!Init
<1>2. IInv /\ [Next]_vars => [Servers!Next]_[s \in Supervisors |-> Phase(s)]
  BY StepRefines DEF phases
<1>3. QED  BY <1>1, <1>2, InvariantHolds, PTL DEF Spec, OneServerAtATime, Servers!Spec

==================================================================================
