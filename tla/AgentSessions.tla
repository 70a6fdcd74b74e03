------------------------------ MODULE AgentSessions ------------------------------
(***************************************************************************)
(* The agent sessions of core/src/capability/agent.rs over the             *)
(* agent_sessions table of core/src/db/agents.rs, with the pins of the     *)
(* scheduler and the one model slot of runtime/llamacpp.                   *)
(*                                                                         *)
(* Covered: open as acquire, create, start and its rollback; stop, message *)
(* and reply; the drain task of each session with its own wind-down, which *)
(* drops the handle that aborts the drain itself; the plan that is made    *)
(* before the load it decides on; what the job engine, a training run and  *)
(* the user do to the slot meanwhile; a restart.                           *)
(* Left out: the deletion of a profile takes the rows of its sessions      *)
(* along, live or not.                                                     *)
(* Abstracted: idle, working and awaiting_approval are "open"; whether a   *)
(* model fits is any answer; the transcript; interrupt changes nothing.    *)
(* An aborted task ends at one of its awaits: at which one is open, since  *)
(* an await that is ready does not give the abort its chance.  Requests    *)
(* run to their end.  SQLite statements are atomic and do not fail.        *)
(***************************************************************************)
EXTENDS Naturals

CONSTANTS
    Sessions,    \* session ids in creation order (UUIDv7), numbers
    Requests,    \* HTTP requests that can be under way at once
    Coding,      \* models a profile may want
    Chat,        \* other models llama.cpp may be asked to load
    NoOne,       \* no session, no model, nobody holds the lock
    MaxCrashes   \* bound on the number of restarts

ASSUME SessionsAssumption == Sessions \subseteq Nat /\ NoOne \notin Sessions
ASSUME NoOneAssumption    == NoOne \notin Requests \cup Coding \cup Chat
ASSUME CrashesAssumption  == MaxCrashes \in Nat

Models == Coding \cup Chat

VARIABLES
    row,      \* the agent_sessions table
    model,    \* the model a session runs on
    live,     \* AgentSessions.live: sessions with a handle in this process
    procs,    \* sessions whose agent runtime is up
    dpc,      \* where the drain of each session stands
    aborted,  \* sessions whose drain was aborted
    slot,     \* the model llama.cpp reports as loaded
    op,       \* op_lock: the request that is loading
    pinned,   \* models pinned in the scheduler
    victim,   \* the model the job engine has decided to evict
    rpc, rid, want, prey,   \* a request: step, session, model, model to evict
    crashes,
    wound,    \* history: how often stop or its drain wound a session up
    stray     \* history: models pinned by an open that then failed without a session

table   == <<row, model>>
gpu     == <<slot, op, pinned>>
drain   == <<dpc, aborted>>
request == <<rpc, rid, want, prey>>
history == <<wound, stray>>
vars    == <<table, live, procs, drain, gpu, victim, request, crashes, history>>

Terminal == {"stopped", "failed"}
Rows     == Terminal \cup {"unborn", "starting", "open"}

Init ==
    /\ row = [s \in Sessions |-> "unborn"] /\ model = [s \in Sessions |-> NoOne]
    /\ live = {} /\ procs = {}
    /\ dpc = [s \in Sessions |-> "none"] /\ aborted = {}
    /\ slot = NoOne /\ op = NoOne /\ pinned = {} /\ victim = NoOne
    /\ rpc = [q \in Requests |-> "idle"] /\ rid = [q \in Requests |-> NoOne]
    /\ want = [q \in Requests |-> NoOne] /\ prey = [q \in Requests |-> NoOne]
    /\ crashes = 0
    /\ wound = [s \in Sessions |-> 0] /\ stray = {}

-------------------------------------------------------------------------------
(* Helpers *)

Goto(q, label) == rpc' = [rpc EXCEPT ![q] = label]
Reply(q) ==
    /\ Goto(q, "idle")
    /\ rid' = [rid EXCEPT ![q] = NoOne]
    /\ want' = [want EXCEPT ![q] = NoOne] /\ prey' = [prey EXCEPT ![q] = NoOne]

\* Request q goes on to another step and keeps what it has in hand.
Continue(q, label) == Goto(q, label) /\ UNCHANGED <<rid, want, prey>>

\* set_session_state: an UPDATE by id alone.
SetState(s, state) == row' = [row EXCEPT ![s] = state] /\ UNCHANGED model

\* unload_model, once it has the lock: a model that is not loaded is no matter.
Unload(m) == op = NoOne /\ slot' = (IF slot = m THEN NoOne ELSE slot) /\ UNCHANGED op

\* Live's Drop aborts the drain, whoever takes the handle out of the map.
TakeHandle(s) == live' = live \ {s} /\ aborted' = aborted \cup {s}

-------------------------------------------------------------------------------
(* acquire: plan, make room, load, pin *)

\* "an agent session is already running"
NoneLive == live = {}

Open(q, m) ==
    /\ rpc[q] = "idle" /\ NoneLive
    /\ \E s \in Sessions : row[s] = "unborn"
    /\ Goto(q, "plan") /\ want' = [want EXCEPT ![q] = m] /\ UNCHANGED <<rid, prey>>
    /\ UNCHANGED <<table, live, procs, drain, gpu, victim, crashes, history>>

\* RunNow, LoadThenRun, EvictThenLoad or Blocked; only a model that is not
\* pinned is a victim (one on another runtime is out of sight here).
Plan(q) ==
    /\ rpc[q] = "plan"
    /\ \/ slot = want[q] /\ Continue(q, "pin")
       \/ slot # want[q] /\ Continue(q, "load")
       \/ /\ slot \notin pinned \cup {want[q], NoOne}
          /\ Goto(q, "evict") /\ prey' = [prey EXCEPT ![q] = slot]
          /\ UNCHANGED <<rid, want>>
       \/ slot # want[q] /\ Reply(q)
    /\ UNCHANGED <<table, live, procs, drain, gpu, victim, crashes, history>>

\* The victim is unpinned, then unloaded, if it is still there.
Evict(q) ==
    /\ rpc[q] = "evict"
    /\ IF slot = prey[q]
         THEN pinned' = pinned \ {prey[q]} /\ Continue(q, "unloadPrey")
         ELSE Continue(q, "load") /\ UNCHANGED pinned
    /\ UNCHANGED <<table, live, procs, drain, slot, op, victim, crashes, history>>

UnloadPrey(q) ==
    /\ rpc[q] = "unloadPrey"
    /\ Unload(prey[q]) /\ Continue(q, "load")
    /\ UNCHANGED <<table, live, procs, drain, pinned, victim, crashes, history>>

\* load_model_at stops the resident server, whatever it serves ...
Load(q) ==
    /\ rpc[q] = "load" /\ op = NoOne
    /\ \/ slot = want[q] /\ Continue(q, "pin") /\ UNCHANGED <<slot, op>>
       \/ slot # want[q] /\ slot' = NoOne /\ op' = q /\ Continue(q, "loading")
       \/ slot # want[q] /\ Reply(q) /\ UNCHANGED <<slot, op>>   \* cannot start
    /\ UNCHANGED <<table, live, procs, drain, pinned, victim, crashes, history>>

\* ... and waits until the new one is healthy, or gives up.
Loaded(q) ==
    /\ rpc[q] = "loading"
    /\ op' = NoOne
    /\ \/ slot' = want[q] /\ Continue(q, "pin")
       \/ Reply(q) /\ UNCHANGED slot
    /\ UNCHANGED <<table, live, procs, drain, pinned, victim, crashes, history>>

\* The pin is set first; without an endpoint acquire then fails.
Pin(q) ==
    /\ rpc[q] = "pin"
    /\ pinned' = pinned \cup {want[q]}
    /\ IF slot # NoOne
         THEN Continue(q, "create") /\ UNCHANGED stray
         ELSE Reply(q) /\ stray' = stray \cup {want[q]}
    /\ UNCHANGED <<table, live, procs, drain, slot, op, victim, crashes, wound>>

Acquire(q) ==
    \/ Plan(q) \/ Evict(q) \/ UnloadPrey(q) \/ Load(q) \/ Loaded(q) \/ Pin(q)

-------------------------------------------------------------------------------
(* open, once the model is acquired: create_session, start_runtime *)

Create(q) ==
    /\ rpc[q] = "create"
    /\ \E s \in Sessions :
          /\ row[s] = "unborn" /\ \A t \in Sessions : t < s => row[t] # "unborn"
          /\ row' = [row EXCEPT ![s] = "starting"]
          /\ model' = [model EXCEPT ![s] = want[q]]
          /\ rid' = [rid EXCEPT ![q] = s]
    /\ Goto(q, "start") /\ UNCHANGED <<want, prey>>
    /\ UNCHANGED <<live, procs, drain, gpu, victim, crashes, history>>

\* The profile was deleted since it was read: the insert fails on its foreign
\* key, and open returns without giving the model back.
ProfileGone(q) ==
    /\ rpc[q] = "create"
    /\ Reply(q) /\ stray' = stray \cup {want[q]}
    /\ UNCHANGED <<table, live, procs, drain, gpu, victim, crashes, wound>>

\* adapter.open_session, whose stream can then be taken; an error rolls
\* everything back.
Start(q) ==
    /\ rpc[q] = "start"
    /\ \/ Continue(q, "rollback") /\ UNCHANGED procs
       \/ Continue(q, "listen") /\ procs' = procs \cup {rid[q]}
    /\ UNCHANGED <<table, live, drain, gpu, victim, crashes, history>>

\* The drain is spawned, and may run at once ...
Listen(q) ==
    /\ rpc[q] = "listen"
    /\ dpc' = [dpc EXCEPT ![rid[q]] = "recv"] /\ Continue(q, "register")
    /\ UNCHANGED <<table, live, procs, aborted, gpu, victim, crashes, history>>

\* ... before its handle is in the map.
Register(q) ==
    /\ rpc[q] = "register"
    /\ live' = live \cup {rid[q]} /\ Continue(q, "opening")
    /\ UNCHANGED <<table, procs, drain, gpu, victim, crashes, history>>

\* The opening turn may not get through; then the state is written.
Opening(q) ==
    /\ rpc[q] = "opening"
    /\ Continue(q, "opened") \/ Continue(q, "rollback")
    /\ UNCHANGED <<table, live, procs, drain, gpu, victim, crashes, history>>

Opened(q) ==
    /\ rpc[q] = "opened"
    /\ SetState(rid[q], "open") /\ Reply(q)
    /\ UNCHANGED <<live, procs, drain, gpu, victim, crashes, history>>

\* Mutant: release forgets the pin.
StillPinned(m) == pinned

\* The pins once release has taken its model's off.
Unpinned(m) == pinned \ {m}

\* The rollback: handle, pin and model go; the agent runtime is not closed.
Rollback(q) ==
    /\ rpc[q] = "rollback"
    /\ IF rid[q] \in live THEN TakeHandle(rid[q]) ELSE UNCHANGED <<live, aborted>>
    /\ Continue(q, "rbUnpin")
    /\ UNCHANGED <<table, procs, dpc, gpu, victim, crashes, history>>

Starting(q) ==
    \/ Create(q) \/ ProfileGone(q) \/ Start(q) \/ Listen(q) \/ Register(q)
    \/ Opening(q) \/ Opened(q) \/ Rollback(q)

-------------------------------------------------------------------------------
(* stop, and release as stop and the rollback call it *)

\* A live session: the handle is taken.  Else the row is read ...
Stop(q, s) ==
    /\ rpc[q] = "idle"
    /\ \/ s \in live /\ live' = live \ {s} /\ Goto(q, "close")
       \/ /\ s \notin live /\ row[s] \in {"starting", "open"}
          /\ Goto(q, "stopped") /\ UNCHANGED live
    /\ rid' = [rid EXCEPT ![q] = s] /\ UNCHANGED <<want, prey>>
    /\ UNCHANGED <<table, procs, drain, gpu, victim, crashes, history>>

Close(q) ==
    /\ rpc[q] = "close"
    /\ procs' = procs \ {rid[q]} /\ aborted' = aborted \cup {rid[q]}
    /\ wound' = [wound EXCEPT ![rid[q]] = @ + 1]
    /\ Continue(q, "stUnpin")
    /\ UNCHANGED <<table, live, dpc, gpu, victim, crashes, stray>>

\* release, first half: unpin, and look whether the model is loaded.
Release(q, from, unload, done) ==
    /\ rpc[q] = from
    /\ LET m == model[rid[q]] IN
         /\ pinned' = Unpinned(m)
         /\ Continue(q, IF slot = m THEN unload ELSE done)
    /\ UNCHANGED <<table, live, procs, drain, slot, op, victim, crashes, history>>

\* Second half: unload what was loaded.
ReleaseUnload(q, from, done) ==
    /\ rpc[q] = from
    /\ Unload(model[rid[q]]) /\ Continue(q, done)
    /\ UNCHANGED <<table, live, procs, drain, pinned, victim, crashes, history>>

Settle(q, from, state) ==
    /\ rpc[q] = from
    /\ SetState(rid[q], state) /\ Reply(q)
    /\ UNCHANGED <<live, procs, drain, gpu, victim, crashes, history>>

Stopping(q) ==
    \/ Close(q)
    \/ Release(q, "stUnpin", "stUnload", "stopped")
    \/ ReleaseUnload(q, "stUnload", "stopped")
    \/ Settle(q, "stopped", "stopped")

RollingBack(q) ==
    \/ Release(q, "rbUnpin", "rbUnload", "failed")
    \/ ReleaseUnload(q, "rbUnload", "failed")
    \/ Settle(q, "failed", "failed")

-------------------------------------------------------------------------------
(* message and reply: the route is looked up, the runtime is called, the row
   is written *)

Message(q, s) ==
    /\ rpc[q] = "idle" /\ s \in live
    /\ Goto(q, "send") /\ rid' = [rid EXCEPT ![q] = s] /\ UNCHANGED <<want, prey>>
    /\ UNCHANGED <<table, live, procs, drain, gpu, victim, crashes, history>>

Send(q) ==
    /\ rpc[q] = "send"
    /\ \/ Reply(q)
       \/ rid[q] \in procs /\ Continue(q, "sent")
    /\ UNCHANGED <<table, live, procs, drain, gpu, victim, crashes, history>>

Sent(q) == Settle(q, "sent", "open")

-------------------------------------------------------------------------------
(* drain_events *)

DGoto(s, label) == dpc' = [dpc EXCEPT ![s] = label] /\ UNCHANGED aborted

\* What the stream delivers, or still had: an event, a terminal error, its end.
Recv(s) ==
    /\ dpc[s] = "recv"
    /\ \E next \in {"event", "error", "ending"} : DGoto(s, next)
    /\ UNCHANGED <<table, live, procs, gpu, victim, request, crashes, history>>

Event(s, from, state, to) ==
    /\ dpc[s] = from
    /\ SetState(s, state) /\ DGoto(s, to)
    /\ UNCHANGED <<live, procs, gpu, victim, request, crashes, history>>

\* Mutant: the drain winds down whether or not stop did.
AnyEnd(s) == TRUE

\* "We own the wind-down only if stop() hasn't already removed the entry."
Owned(s) == s \in live

\* The handle is dropped here, and with it the task that is running this.
WindDown(s) ==
    /\ dpc[s] = "ending"
    /\ IF Owned(s)
         THEN TakeHandle(s) /\ dpc' = [dpc EXCEPT ![s] = "unpin"]
         ELSE DGoto(s, "ended") /\ UNCHANGED live
    /\ UNCHANGED <<table, procs, gpu, victim, request, crashes, history>>

\* release, no await before the unload.
DrainUnpin(s) ==
    /\ dpc[s] = "unpin"
    /\ pinned' = Unpinned(model[s])
    /\ DGoto(s, IF slot = model[s] THEN "unload" ELSE "check")
    /\ wound' = [wound EXCEPT ![s] = @ + 1]
    /\ UNCHANGED <<table, live, procs, slot, op, victim, request, crashes, stray>>

DrainUnload(s) ==
    /\ dpc[s] = "unload"
    /\ Unload(model[s]) /\ DGoto(s, "check")
    /\ UNCHANGED <<table, live, procs, pinned, victim, request, crashes, history>>

DrainCheck(s) ==
    /\ dpc[s] = "check"
    /\ DGoto(s, IF row[s] \in Terminal THEN "ended" ELSE "fail")
    /\ UNCHANGED <<table, live, procs, gpu, victim, request, crashes, history>>

\* The abort takes effect at an await.
Dropped(s) ==
    /\ s \in aborted /\ dpc[s] \in {"recv", "event", "error", "unload", "check", "fail"}
    /\ DGoto(s, "ended")
    /\ UNCHANGED <<table, live, procs, gpu, victim, request, crashes, history>>

Drain(s) ==
    \/ Recv(s) \/ Event(s, "event", "open", "recv") \/ Event(s, "error", "failed", "ending")
    \/ WindDown(s) \/ DrainUnpin(s) \/ DrainUnload(s) \/ DrainCheck(s)
    \/ Event(s, "fail", "failed", "ended")
    \/ Dropped(s)

-------------------------------------------------------------------------------
(* Surroundings *)

\* The agent program ends by itself.
Exit(s) ==
    /\ s \in procs /\ procs' = procs \ {s}
    /\ UNCHANGED <<table, live, drain, gpu, victim, request, crashes, history>>

\* Somebody else unloads the model (the user, even if it is pinned), or has
\* another one loaded in its place.
OthersUse(m) ==
    /\ op = NoOne /\ slot # m /\ slot' = m
    /\ UNCHANGED <<table, live, procs, drain, op, pinned, victim, request, crashes, history>>

\* The job engine plans with a model that is not pinned as its victim ...
EngineChooses ==
    /\ victim = NoOne /\ slot # NoOne /\ slot \notin pinned /\ victim' = slot
    /\ UNCHANGED <<table, live, procs, drain, gpu, request, crashes, history>>

\* ... and later unpins it, if it is still there; the unload that follows is one
\* of OthersUse.
EngineEvicts ==
    /\ victim # NoOne /\ victim' = NoOne
    /\ pinned' = IF slot = victim THEN pinned \ {victim} ELSE pinned
    /\ UNCHANGED <<table, live, procs, drain, slot, op, request, crashes, history>>

\* Mutant: a session that was still starting is overlooked.
OnlyOpen(s) == row[s] = "open"

\* The rows recover_orphaned closes.
Orphaned(s) == row[s] \in {"starting", "open"}

\* The process ends and starts again; runtimes and agents end with it.
Restart ==
    /\ crashes < MaxCrashes /\ crashes' = crashes + 1
    /\ row' = [s \in Sessions |-> IF Orphaned(s) THEN "failed" ELSE row[s]]
    /\ live' = {} /\ procs' = {}
    /\ dpc' = [s \in Sessions |-> IF dpc[s] = "none" THEN "none" ELSE "ended"]
    /\ aborted' = {}
    /\ slot' = NoOne /\ op' = NoOne /\ pinned' = {} /\ victim' = NoOne
    /\ rpc' = [q \in Requests |-> "idle"] /\ rid' = [q \in Requests |-> NoOne]
    /\ want' = [q \in Requests |-> NoOne] /\ prey' = [q \in Requests |-> NoOne]
    /\ stray' = {}
    /\ UNCHANGED <<model, wound>>

-------------------------------------------------------------------------------
Request(q) ==
    \/ \E m \in Coding : Open(q, m)
    \/ \E s \in Sessions : Stop(q, s) \/ Message(q, s)
    \/ Acquire(q) \/ Starting(q) \/ Stopping(q) \/ RollingBack(q) \/ Send(q) \/ Sent(q)

Others ==
    \/ \E s \in Sessions : Exit(s)
    \/ \E m \in Models \cup {NoOne} : OthersUse(m)
    \/ EngineChooses \/ EngineEvicts

Next ==
    \/ \E q \in Requests : Request(q)
    \/ \E s \in Sessions : Drain(s)
    \/ Others \/ Restart

Spec == Init /\ [][Next]_vars

-------------------------------------------------------------------------------
(* Properties *)

RequestPC == {"idle", "plan", "evict", "unloadPrey", "load", "loading", "pin",
              "create", "start", "listen", "register", "opening", "opened", "rollback",
              "rbUnpin", "rbUnload", "failed", "close", "stUnpin", "stUnload", "stopped",
              "send", "sent"}
DrainPC == {"none", "recv", "event", "error", "ending", "unpin", "unload", "check",
            "fail", "ended"}

\* The types of the session rows, the handles and what each request has in hand
TypeOK ==
    /\ row \in [Sessions -> Rows] /\ model \in [Sessions -> Coding \cup {NoOne}]
    /\ live \subseteq Sessions /\ procs \subseteq Sessions
    /\ dpc \in [Sessions -> DrainPC] /\ aborted \subseteq Sessions
    /\ slot \in Models \cup {NoOne} /\ op \in Requests \cup {NoOne}
    /\ pinned \subseteq Coding /\ victim \in Models \cup {NoOne}
    /\ rpc \in [Requests -> RequestPC] /\ rid \in [Requests -> Sessions \cup {NoOne}]
    /\ want \in [Requests -> Coding \cup {NoOne}]
    /\ prey \in [Requests -> Models \cup {NoOne}]
    /\ crashes \in 0 .. MaxCrashes
    /\ wound \in [Sessions -> Nat] /\ stray \subseteq Coding

\* No request is under way, and no drain is in its wind-down.
Quiet ==
    /\ \A q \in Requests : rpc[q] = "idle"
    /\ \A s \in Sessions : dpc[s] \in {"none", "recv", "ended"}

\* A pin goes with its session, whether stop, the drain or the rollback of a
\* failed open took it down; only an open that failed between the pin and the
\* creation of the session (no endpoint, no profile) leaves one.
PinsHaveSessions == Quiet => pinned \subseteq {model[s] : s \in live} \cup stray

\* stop and the drain never both wind a session up, in whatever order the user
\* stops it and its runtime ends: the model released twice could by then be
\* the next session's.
WoundUpOnce == \A s \in Sessions : wound[s] <= 1

\* The steps of open between the creation of its session and its answer.
OpenSteps == {"start", "listen", "register", "opening", "opened", "rollback",
              "rbUnpin", "rbUnload", "failed"}

\* A session reads as starting only while its open is under way: neither an
\* error nor a restart leaves one that never starts.
StartingIsOpening == \A s \in Sessions :
    row[s] = "starting" => \E q \in Requests : rid[q] = s /\ rpc[q] \in OpenSteps

\* A drain that ends "marks the row `Failed`": a session that has no handle
\* does not read as open.
OpenRowsAreLive ==
    Quiet => \A s \in Sessions : row[s] \in {"starting", "open"} => s \in live
===============================================================================
