--------------------------------- MODULE Scheduler ---------------------------------
(***************************************************************************)
(* The plan of core/src/scheduler/mod.rs: how a model gets onto the GPU,   *)
(* given what the runtimes report as loaded.                               *)
(*                                                                         *)
(* Covered: the free VRAM, the choice of a victim, the four decisions.     *)
(* Left out: the text of a blocked job's reason.  Abstracted: VRAM in      *)
(* small units; Usable is the budget less overhead and headroom; a live    *)
(* reading is what the driver leaves less the headroom, and no reading is  *)
(* one of Usable or more.  Models of one size are tried in any order.      *)
(***************************************************************************)
EXTENDS Integers, FiniteSetsExt

CONSTANTS
    Models,     \* models and pseudo-models a runtime can report
    Runtimes,   \* runtime adapters, each with one model at most
    RuntimeOf,  \* the runtime of a model
    Vram,       \* what a model is charged when loaded
    Usable,     \* VRAM the scheduler plans against
    Nothing     \* no model

ASSUME ModelsAssumption ==
    /\ Nothing \notin Models /\ IsFiniteSet(Runtimes)
    /\ RuntimeOf \in [Models -> Runtimes]
    /\ Vram \in [Models -> Nat]
    /\ Usable \in Nat

\* What a runtime's one entry in the registry can be
Entries == Models \cup {Nothing}

Loaded(slot) == {slot[r] : r \in Runtimes} \ {Nothing}

\* total_vram_used_mb
Used(slot) ==
    MapThenSumSet(LAMBDA r : IF slot[r] = Nothing THEN 0 ELSE Vram[slot[r]], Runtimes)

\* saturating_sub
Monus(a, b) == IF a > b THEN a - b ELSE 0

FreeMb(used) == Monus(Usable, used)

\* Mutant: the reading replaces the ledger.
LiveFree(used, live) == live

EffectiveFree(used, live) == IF live < FreeMb(used) THEN live ELSE FreeMb(used)

\* eviction_candidates: every loaded model but the one asked for
Candidates(loaded, m) == loaded \ {m}

\* The smallest one that closes the deficit, else the largest of all
Preferred(evictable, deficit) ==
    LET Enough == {v \in evictable : Vram[v] >= deficit} IN
    IF Enough # {}
    THEN {v \in Enough : \A w \in Enough : Vram[v] <= Vram[w]}
    ELSE {v \in evictable : \A w \in evictable : Vram[w] <= Vram[v]}

\* ... and only if its eviction leaves room
Victims(loaded, pinned, m, need, free) ==
    {v \in Preferred(Candidates(loaded, m) \ pinned, need - free) : free + Vram[v] >= need}

RunNow == [go |-> "run", victim |-> Nothing]
LoadThenRun == [go |-> "load", victim |-> Nothing]
EvictThenLoad(v) == [go |-> "evict", victim |-> v]
Blocked == [go |-> "blocked", victim |-> Nothing]

\* plan: each decision it may come to, by the order among models of one size
Plan(there, loaded, pinned, m, need, free) ==
    IF there THEN {RunNow}
    ELSE IF need <= free THEN {LoadThenRun}
    ELSE LET vs == Victims(loaded, pinned, m, need, free) IN
         IF vs = {} THEN {Blocked} ELSE {EvictThenLoad(v) : v \in vs}

====================================================================================
