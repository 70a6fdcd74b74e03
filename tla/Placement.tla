--------------------------------- MODULE Placement ---------------------------------
(***************************************************************************)
(* Everyone who puts a model on the GPU by a plan of the scheduler: the    *)
(* job engine (orchestrator/engine.rs), the agent sessions                 *)
(* (capability/agent.rs) and the external launches (launcher/mod.rs), with *)
(* the user who unloads a model by hand, over what the runtimes report.    *)
(*                                                                         *)
(* Covered: plan, evict, load, pin, run and the release after a dataset    *)
(* preparation in the engine; acquire and release in sessions and launches *)
(* and the launcher's one active entry; the swap inside a load.            *)
(* Abstracted: the rows of jobs and sessions (JobEngine, AgentSessions);   *)
(* the servers behind the slots (ModelServers); a trainer, which takes the *)
(* GPU without a plan (TrainingRuns); telemetry is any reading.            *)
(***************************************************************************)
EXTENDS Scheduler

CONSTANTS
    Engine,     \* the job engine, which drives one job at a time
    Sessions,   \* agent sessions under way
    Launches,   \* external launches under way
    Coding,     \* models a session or launch may want
    Readings    \* what a live reading may say; Usable stands for none

Callers == Sessions \cup Launches
Actors  == {Engine} \cup Callers

ASSUME ActorsAssumption == Nothing \notin Actors /\ Engine \notin Callers
ASSUME CodingAssumption == Coding \subseteq {m \in Models : RuntimeOf[m] = "llamacpp"}
ASSUME ReadingsAssumption == Readings \subseteq Nat /\ Usable \in Readings

VARIABLES
    slot,       \* what each runtime reports as loaded
    pinned,     \* HybridScheduler.pinned
    op,         \* op_lock of llama.cpp
    pc,         \* where an actor stands
    want,       \* the model it is placing
    prey,       \* the model its plan evicts
    agent,      \* is_agent_session of the job being driven
    active,     \* Launcher.active
    basis,      \* history: VRAM in use when an actor planned
    overtaken   \* history: another load landed since it planned

gpu     == <<slot, pinned, op>>
actor   == <<pc, want, prey>>
history == <<basis, overtaken>>
vars    == <<gpu, actor, agent, active, history>>

Init ==
    /\ slot = [r \in Runtimes |-> Nothing] /\ pinned = {} /\ op = Nothing
    /\ pc = [a \in Actors |-> "idle"]
    /\ want = [a \in Actors |-> Nothing] /\ prey = [a \in Actors |-> Nothing]
    /\ agent = FALSE /\ active = Nothing
    /\ basis = [a \in Actors |-> 0] /\ overtaken = [a \in Actors |-> FALSE]

-------------------------------------------------------------------------------
(* Helpers *)

At(a, label) == pc[a] = label
Goto(a, label) == pc' = [pc EXCEPT ![a] = label] /\ UNCHANGED <<want, prey>>
Idle(a) ==
    /\ pc' = [pc EXCEPT ![a] = "idle"]
    /\ want' = [want EXCEPT ![a] = Nothing] /\ prey' = [prey EXCEPT ![a] = Nothing]

\* A job that is over, a caller whose acquire failed
GiveUp(a) == IF a = Engine THEN Goto(a, "over") ELSE Idle(a)

Ready(m) == RuntimeOf[m] = "llamacpp" => op = Nothing

\* unload_model: nothing happens to a model that is not there
Unload(m) ==
    slot' = [r \in Runtimes |-> IF r = RuntimeOf[m] /\ slot[r] = m THEN Nothing ELSE slot[r]]

-------------------------------------------------------------------------------
(* The plan and what follows from it *)

\* The next runnable job, with its target resolved; the flag comes with the request,
\* and is tried here on coding models only
Pick(m, isAgent) ==
    /\ At(Engine, "idle")
    /\ isAgent => m \in Coding
    /\ pc' = [pc EXCEPT ![Engine] = "plan"] /\ want' = [want EXCEPT ![Engine] = m]
    /\ agent' = isAgent
    /\ UNCHANGED <<gpu, prey, active, history>>

\* "an agent session is already running", "an external launch is already tracked"
Ask(c, m) ==
    /\ At(c, "idle")
    /\ IF c \in Sessions THEN \A s \in Sessions : ~At(s, "held") ELSE active = Nothing
    /\ pc' = [pc EXCEPT ![c] = "plan"] /\ want' = [want EXCEPT ![c] = m]
    /\ UNCHANGED <<gpu, prey, agent, active, history>>

\* History: what the plan was made on, and which plans wait for their load
OnItsWay == {"evict", "unload", "load", "landing"}
Note(a) == basis' = [basis EXCEPT ![a] = Used(slot)] /\ UNCHANGED overtaken
Forget(a) == basis' = [basis EXCEPT ![a] = 0] /\ overtaken' = [overtaken EXCEPT ![a] = FALSE]

Decide(a, d) ==
    \/ d = RunNow /\ Goto(a, "pin") /\ UNCHANGED history
    \/ d = LoadThenRun /\ Goto(a, "load") /\ Note(a)
    \/ /\ d.go = "evict" /\ Note(a)
       /\ pc' = [pc EXCEPT ![a] = "evict"] /\ prey' = [prey EXCEPT ![a] = d.victim]
       /\ UNCHANGED want
    \/ d = Blocked /\ Idle(a) /\ UNCHANGED history

\* Only the engine has a live reading
MakePlan(a, live) ==
    /\ At(a, "plan")
    /\ a \in Callers => live = Usable
    /\ LET m == want[a]
       IN \E d \in Plan(slot[RuntimeOf[m]] = m, Loaded(slot), pinned, m, Vram[m],
                        EffectiveFree(Used(slot), live)) : Decide(a, d)
    /\ UNCHANGED <<gpu, agent, active>>

GoOn(a) ==
    /\ pc' = [pc EXCEPT ![a] = "load"] /\ prey' = [prey EXCEPT ![a] = Nothing]
    /\ UNCHANGED want

\* The victim is unpinned, then unloaded, if some runtime still has it
Evict(a) ==
    /\ At(a, "evict")
    /\ IF slot[RuntimeOf[prey[a]]] = prey[a]
       THEN pinned' = pinned \ {prey[a]} /\ Goto(a, "unload")
       ELSE GoOn(a) /\ UNCHANGED pinned
    /\ UNCHANGED <<slot, op, agent, active, history>>

UnloadPrey(a) ==
    /\ At(a, "unload") /\ Ready(prey[a])
    /\ Unload(prey[a]) /\ GoOn(a)
    /\ UNCHANGED <<pinned, op, agent, active, history>>

\* llama.cpp stops the resident server before it starts the next one
Load(a) ==
    /\ At(a, "load") /\ Ready(want[a])
    /\ IF RuntimeOf[want[a]] = "llamacpp" /\ slot["llamacpp"] # want[a]
       THEN slot' = [slot EXCEPT !["llamacpp"] = Nothing] /\ op' = a
       ELSE UNCHANGED <<slot, op>>
    /\ Goto(a, "landing")
    /\ UNCHANGED <<pinned, agent, active, history>>

Unlock(a) == op' = IF op = a THEN Nothing ELSE op

Land(a) ==
    /\ At(a, "landing")
    /\ slot' = [slot EXCEPT ![RuntimeOf[want[a]]] = want[a]]
    /\ Unlock(a) /\ Goto(a, "pin")
    /\ basis' = [basis EXCEPT ![a] = 0]
    /\ overtaken' = [b \in Actors |-> b # a /\ (overtaken[b] \/ pc[b] \in OnItsWay)]
    /\ UNCHANGED <<pinned, agent, active>>

LoadFails(a) ==
    /\ At(a, "landing")
    /\ Unlock(a) /\ GiveUp(a) /\ Forget(a)
    /\ UNCHANGED <<slot, pinned, agent, active>>

-------------------------------------------------------------------------------
(* The job engine *)

\* bail_if_cancelled: before the eviction or load, and before the body
Bail ==
    /\ pc[Engine] \in {"load", "evict", "pin"} /\ Goto(Engine, "over") /\ Forget(Engine)
    /\ UNCHANGED <<gpu, agent, active>>

Start ==
    /\ At(Engine, "pin")
    /\ pinned' = IF agent THEN pinned \cup {want[Engine]} ELSE pinned
    /\ Goto(Engine, "body")
    /\ UNCHANGED <<slot, op, agent, active, history>>

BodyEnds ==
    /\ At(Engine, "body") /\ Goto(Engine, "over")
    /\ UNCHANGED <<gpu, agent, active, history>>

\* Mutant: the captioner loses its pin and stays.
ReleasedPinOnly ==
    /\ pinned' = IF RuntimeOf[want[Engine]] = "vision" THEN pinned \ {want[Engine]} ELSE pinned
    /\ UNCHANGED slot

\* drive: a dataset preparation gives the captioners back, however it ended
Released ==
    IF RuntimeOf[want[Engine]] = "vision"
    THEN pinned' = pinned \ {want[Engine]} /\ Unload(want[Engine])
    ELSE UNCHANGED <<slot, pinned>>

Over ==
    /\ At(Engine, "over")
    /\ Released /\ Idle(Engine) /\ agent' = FALSE
    /\ UNCHANGED <<op, active, history>>

-------------------------------------------------------------------------------
(* Sessions and launches *)

\* acquire's last two lines: without an endpoint it fails and the pin stays
Hold(c) ==
    /\ c \in Callers /\ At(c, "pin")
    /\ pinned' = pinned \cup {want[c]}
    /\ IF slot["llamacpp"] = Nothing THEN Idle(c) ELSE Goto(c, "starting")
    /\ UNCHANGED <<slot, op, agent, active, history>>

\* The runtime or the terminal has started; a launch overwrites the active entry
Started(c) ==
    /\ At(c, "starting") /\ Goto(c, "held")
    /\ active' = IF c \in Launches THEN c ELSE active
    /\ UNCHANGED <<gpu, agent, history>>

StartFails(c) ==
    /\ At(c, "starting") /\ Goto(c, "release")
    /\ UNCHANGED <<gpu, agent, active, history>>

\* Launcher::stop takes what active holds
Stop(c) ==
    /\ At(c, "held")
    /\ c \in Launches => active = c
    /\ active' = IF c \in Launches THEN Nothing ELSE active
    /\ Goto(c, "release")
    /\ UNCHANGED <<gpu, agent, history>>

\* release: unpin, then unload if some runtime has it
Release(c) ==
    /\ At(c, "release")
    /\ pinned' = pinned \ {want[c]} /\ Goto(c, "drop")
    /\ UNCHANGED <<slot, op, agent, active, history>>

Drop(c) ==
    /\ At(c, "drop") /\ Ready(want[c])
    /\ Unload(want[c]) /\ Idle(c)
    /\ UNCHANGED <<pinned, op, agent, active, history>>

\* POST /models/{id}/unload, pinned or not
UserUnloads(m) ==
    /\ m \in Loaded(slot) /\ Ready(m)
    /\ Unload(m)
    /\ UNCHANGED <<pinned, op, actor, agent, active, history>>

-------------------------------------------------------------------------------

Places(a) ==
    \/ \E live \in Readings : MakePlan(a, live)
    \/ Evict(a) \/ UnloadPrey(a) \/ Load(a) \/ Land(a) \/ LoadFails(a)

Drives == Places(Engine) \/ Start \/ BodyEnds \/ Over

CallerStep(c) == Places(c) \/ Hold(c) \/ Started(c) \/ StartFails(c) \/ Release(c) \/ Drop(c)

Next ==
    \/ \E m \in Models, isAgent \in BOOLEAN : Pick(m, isAgent)
    \/ Drives \/ Bail
    \/ \E c \in Callers : CallerStep(c) \/ Stop(c) \/ \E m \in Coding : Ask(c, m)
    \/ \E m \in Models : UserUnloads(m)

Spec == Init /\ [][Next]_vars

-------------------------------------------------------------------------------
(* Properties *)

\* The types of the ledger and of what each actor has in hand
TypeOK ==
    /\ slot \in [Runtimes -> Entries] /\ pinned \subseteq Models
    /\ op \in Actors \cup {Nothing} /\ agent \in BOOLEAN /\ active \in Launches \cup {Nothing}
    /\ pc \in [Actors -> {"idle", "plan", "evict", "unload", "load", "landing", "pin",
                          "body", "over", "starting", "held", "release", "drop"}]
    /\ want \in [Actors -> Entries] /\ prey \in [Actors -> Entries]
    /\ basis \in [Actors -> Nat] /\ overtaken \in [Actors -> BOOLEAN]

\* A load that follows its plan fits: unless another load landed in between, the card
\* holds no more than it can, or than it held already when the plan was made,
\* whatever was swapped, evicted or unloaded by others meanwhile
LoadsFit ==
    [][\A a \in Actors :
        At(a, "landing") /\ pc'[a] = "pin" /\ ~overtaken[a]
            => \/ Used(slot') <= Usable
               \/ Used(slot') <= basis[a]]_vars

\* Between two jobs no dataset captioner stays on the GPU, whether the preparation
\* completed, failed in the middle of its load, or was cancelled
CaptionersGivenBack ==
    At(Engine, "idle") => \A r \in {"vision"} \cap Runtimes : slot[r] = Nothing

\* A pinned model is not swapped out by a load that was planned when it was already there
PinnedStays ==
    [][\A a \in Actors :
        At(a, "load") /\ pc'[a] = "landing" /\ ~overtaken[a]
            => \A r \in Runtimes : slot[r] \in pinned => slot'[r] = slot[r]]_vars
====================================================================================
