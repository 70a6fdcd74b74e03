------------------------------- MODULE ModelServers -------------------------------
(***************************************************************************)
(* The adapters that keep a server process: runtime/llamacpp and           *)
(* runtime/colibri, one server per resident model, and runtime/comfyui,    *)
(* one server for all models whose resident model is only bookkeeping.     *)
(*                                                                         *)
(* Covered: load, unload, attach and set_options under the operation lock, *)
(* with the swap, the spawn that fails, the server that never gets         *)
(* healthy, and the caller that goes away in the middle (an HTTP handler   *)
(* is dropped with its connection), over the supervisors of Supervisor.    *)
(* Left out: ComfyUiAdapter::stop, which nothing calls, and installs.      *)
(* Abstracted: ports; health is any answer while the child is alive; the   *)
(* VRAM of a model (colibri reports none).  One adapter per behaviour.     *)
(***************************************************************************)
EXTENDS Supervisor

CONSTANTS
    Models,     \* models of the library this runtime can load
    Callers,    \* tasks that call the adapter
    Attached,   \* the owner of a server the user started
    Nobody      \* no model, no caller, no supervisor

ASSUME NobodyAssumption ==
    /\ Nobody \notin Models \cup Callers \cup Supervisors
    /\ Attached \notin Supervisors \cup {Nobody}

VARIABLES
    kind,       \* which adapter this is
    server,     \* Slot: Empty, Loading, Loaded; Server: Down, Starting, Up
    owner,      \* the supervisor of the server that is up; attached; Nobody
    resident,   \* the model loaded_models reports
    lock,       \* op_lock
    pc,         \* where a caller stands
    task,       \* load, unload or options
    arg,        \* the model it was called with
    held        \* the supervisor in a local variable of the caller

adapter == <<kind, server, owner, resident>>
calls   == <<lock, pc, task, arg, held>>
vars    == <<supervision, adapter, calls>>

PerModel == {"llamacpp", "colibri"}

Init ==
    /\ InitSupervisors
    /\ kind \in PerModel \cup {"comfyui"}
    /\ server = "down" /\ owner = Nobody /\ resident = Nobody
    /\ lock = Nobody
    /\ pc = [c \in Callers |-> "idle"]
    /\ task = [c \in Callers |-> "none"]
    /\ arg = [c \in Callers |-> Nobody]
    /\ held = [c \in Callers |-> Nobody]

-------------------------------------------------------------------------------
(* Helpers *)

Managed == owner \in Supervisors

\* The call goes on at label, with the lock
Hold(c, label, t, m, s) ==
    /\ lock' = c
    /\ pc' = [pc EXCEPT ![c] = label]
    /\ task' = [task EXCEPT ![c] = t]
    /\ arg' = [arg EXCEPT ![c] = m]
    /\ held' = [held EXCEPT ![c] = s]

Goto(c, label, s) == Hold(c, label, task[c], arg[c], s)

Return(c) ==
    /\ lock' = Nobody
    /\ pc' = [pc EXCEPT ![c] = "idle"]
    /\ task' = [task EXCEPT ![c] = "none"]
    /\ arg' = [arg EXCEPT ![c] = Nobody]
    /\ held' = [held EXCEPT ![c] = Nobody]

Serve(state, who, m) ==
    /\ server' = state /\ owner' = who /\ resident' = m
    /\ UNCHANGED kind

\* Mutant: the slot is emptied, and the server in it neither stopped nor awaited.
TakeAndForget(c, t, m, kept) ==
    /\ Serve("down", Nobody, kept)
    /\ IF t = "unload" THEN Return(c) ELSE Hold(c, "spawn", t, m, Nobody)
    /\ UNCHANGED supervision

\* stop_current takes the slot first, then stops what it took; an attached
\* server is only forgotten
TakeAndStop(c, t, m, kept) ==
    /\ Serve("down", Nobody, kept)
    /\ IF Managed
       THEN /\ Set(owner, Stopping(sup[owner])) /\ UNCHANGED exits
            /\ Hold(c, "stopping", t, m, owner)
       ELSE /\ UNCHANGED supervision
            /\ IF t = "unload" THEN Return(c) ELSE Hold(c, "spawn", t, m, Nobody)

Begin(c) == pc[c] = "idle" /\ lock = Nobody

-------------------------------------------------------------------------------
(* llama.cpp and colibri: load_model_at and load_model.  A model that is     *)
(* already there, or one that cannot be resolved, changes nothing; the       *)
(* resident one is let go only after the new one was resolved.               *)

SwapModel(c, m) ==
    /\ Begin(c) /\ kind \in PerModel
    /\ resident \notin {m, Nobody}
    /\ TakeAndStop(c, "load", m, Nobody)

LoadFirst(c, m) ==
    /\ Begin(c) /\ kind \in PerModel
    /\ resident = Nobody
    /\ Hold(c, "spawn", "load", m, Nobody)
    /\ UNCHANGED <<supervision, adapter>>

UnloadModel(c, m) ==
    /\ Begin(c) /\ kind \in PerModel
    /\ resident = m
    /\ TakeAndStop(c, "unload", m, Nobody)

\* attach and attach_external: the slot is overwritten, and with it a server of ours dropped
Attach(c, m) ==
    /\ Begin(c) /\ kind = "llamacpp"
    /\ Serve("up", Attached, m)
    /\ sup' = IF Managed THEN [sup EXCEPT ![owner] = Dropped(sup[owner])] ELSE sup
    /\ UNCHANGED <<exits, calls>>

-------------------------------------------------------------------------------
(* ComfyUI: ensure_server_locked looks only at whether a server is up        *)

LoadOnServer(c, m) ==
    /\ Begin(c) /\ kind = "comfyui"
    /\ server = "up"
    /\ Serve(server, owner, m)
    /\ UNCHANGED <<supervision, calls>>

LoadWithServer(c, m) ==
    /\ Begin(c) /\ kind = "comfyui"
    /\ server # "up"
    /\ Hold(c, "spawn", "load", m, Nobody)
    /\ UNCHANGED <<supervision, adapter>>

FreeModel(c, m) ==
    /\ Begin(c) /\ kind = "comfyui"
    /\ resident = m
    /\ Serve(server, owner, Nobody)
    /\ UNCHANGED <<supervision, calls>>

AttachServer(c) ==
    /\ Begin(c) /\ kind = "comfyui"
    /\ Serve("up", Attached, resident)
    /\ sup' = IF Managed THEN [sup EXCEPT ![owner] = Dropped(sup[owner])] ELSE sup
    /\ UNCHANGED <<exits, calls>>

\* set_options restarts a server of ours and leaves the resident model on the books
SetOptions(c) ==
    /\ Begin(c) /\ kind = "comfyui"
    /\ server = "up" /\ Managed
    /\ TakeAndStop(c, "options", Nobody, resident)

-------------------------------------------------------------------------------
(* The rest of a call, the same in each adapter *)

\* The monitor has ended: the unload is over, anything else starts a new server
AwaitStop(c) ==
    /\ pc[c] = "stopping" /\ HasStopped(sup[held[c]])
    /\ IF task[c] = "unload" THEN Return(c) ELSE Goto(c, "spawn", Nobody)
    /\ UNCHANGED <<supervision, adapter>>

Spawn(c, s) ==
    /\ pc[c] = "spawn" /\ sup[s] = Unborn
    /\ \A t \in Supervisors : t < s => sup[t] # Unborn
    /\ Set(s, Started) /\ UNCHANGED exits
    /\ Serve("starting", Nobody, resident)
    /\ Goto(c, "waiting", s)

SpawnFails(c) ==
    /\ pc[c] = "spawn"
    /\ Return(c)
    /\ UNCHANGED <<supervision, adapter>>

\* await_healthy: a healthy answer comes from a child that is alive
Healthy(c) ==
    /\ pc[c] = "waiting" /\ sup[held[c]].child = "alive"
    /\ Serve("up", held[c], IF task[c] = "load" THEN arg[c] ELSE resident)
    /\ Return(c)
    /\ UNCHANGED supervision

\* Mutant: the supervisor of the failed start is leaked.
NotHealthyKept(c) ==
    /\ pc[c] = "waiting"
    /\ Serve("down", Nobody, resident)
    /\ Return(c)
    /\ UNCHANGED supervision

\* It gave up, or the deadline passed: the slot is emptied and the supervisor dropped
NotHealthy(c) ==
    /\ pc[c] = "waiting"
    /\ Serve("down", Nobody, resident)
    /\ Set(held[c], Dropped(sup[held[c]])) /\ UNCHANGED exits
    /\ Return(c)

\* The caller is dropped at an await, and with it the supervisor it holds
CallerGone(c) ==
    /\ pc[c] \in {"stopping", "waiting"}
    /\ Set(held[c], Dropped(sup[held[c]])) /\ UNCHANGED <<exits, adapter>>
    /\ Return(c)

-------------------------------------------------------------------------------

Call(c) ==
    \/ \E m \in Models :
        \/ SwapModel(c, m) \/ LoadFirst(c, m) \/ UnloadModel(c, m) \/ Attach(c, m)
        \/ LoadOnServer(c, m) \/ LoadWithServer(c, m) \/ FreeModel(c, m)
    \/ AttachServer(c) \/ SetOptions(c)

GoesOn(c) ==
    \/ AwaitStop(c) \/ SpawnFails(c) \/ Healthy(c) \/ NotHealthy(c)
    \/ \E s \in Supervisors : Spawn(c, s)

Next ==
    \/ \E c \in Callers : Call(c) \/ GoesOn(c) \/ CallerGone(c)
    \/ \E s \in Supervisors : (Monitor(s) \/ ChildExits(s)) /\ UNCHANGED <<adapter, calls>>

\* A task that can go on is polled: timers fire, killed children are reaped
Fairness ==
    /\ \A c \in Callers : WF_vars(GoesOn(c))
    /\ \A s \in Supervisors : WF_vars(Monitor(s) /\ UNCHANGED <<adapter, calls>>)

Spec == Init /\ [][Next]_vars /\ Fairness

-------------------------------------------------------------------------------
(* Properties *)

\* The types of the adapter's fields and of the calls on it
TypeOK ==
    /\ sup \in [Supervisors -> Supervision] /\ exits \in 0 .. MaxExits
    /\ kind \in PerModel \cup {"comfyui"} /\ server \in {"down", "starting", "up"}
    /\ owner \in Supervisors \cup {Attached, Nobody}
    /\ resident \in Models \cup {Nobody} /\ lock \in Callers \cup {Nobody}
    /\ pc \in [Callers -> {"idle", "stopping", "spawn", "waiting"}]
    /\ task \in [Callers -> {"none", "load", "unload", "options"}]
    /\ arg \in [Callers -> Models \cup {Nobody}]
    /\ held \in [Callers -> Supervisors \cup {Nobody}]

\* loaded_models never names a model of llama.cpp or colibri, and no slot calls itself
\* up, over a server that was told to stop: the slot is emptied before the stop, and
\* filled again only with a server nobody has stopped since
UpIsNotStopping ==
    /\ server = "up" /\ Managed => ~sup[owner].stop
    /\ kind \in PerModel /\ resident # Nobody => server = "up"

\* The adapter keeps one server at a time and never takes back one it let go of,
\* through swaps, failed starts, restarts for new options, attaches and callers that go away
Phase(s) ==
    IF sup[s].monitor = "none" THEN "fresh"
    ELSE IF sup[s].monitor = "done" \/ sup[s].abort THEN "gone" ELSE "kept"

Servers == INSTANCE ServerLife
    WITH Supervisors <- Supervisors, phase <- [s \in Supervisors |-> Phase(s)]

OneServerAtATime == Servers!Spec

\* No server is left running once neither the slot nor a call holds it: its monitor
\* ends, and the child with it
Held(s) == s = owner \/ \E c \in Callers : held[c] = s

NoStrayServer ==
    \A s \in Supervisors :
        (sup[s].child # "none" /\ ~Held(s)) ~> (sup[s].child = "none" /\ HasStopped(sup[s]))

\* Every call comes to its end, even when the server it stops or starts crashes meanwhile
CallsEnd == \A c \in Callers : pc[c] # "idle" ~> pc[c] = "idle"

===================================================================================
