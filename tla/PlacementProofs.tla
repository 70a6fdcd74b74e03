------------------------------ MODULE PlacementProofs ------------------------------
(***************************************************************************)
(* Proofs about Placement, for any models, sizes, runtimes, sessions and   *)
(* launches: what the plan of the scheduler decides, that a dataset        *)
(* preparation leaves no captioner on the GPU, and that a load which       *)
(* follows its plan fits the card.  And about Sidecar, behind the unload   *)
(* of the captioners, for any number of calls: what waits in the pipe was  *)
(* left by a call that was given up, and a release that says so is one.    *)
(*                                                                         *)
(* The argument for the captioners: sessions and launches place coding     *)
(* models only, so whatever is in the vision slot is the engine's (Eyes),  *)
(* and the engine cannot get to its next job except through Over.          *)
(*                                                                         *)
(* The argument for the loads: the ledger is a sum over the runtimes, and  *)
(* follows each change of a slot (Ledger).  From a plan to its load the    *)
(* others only empty slots, unless one of them lands; so the room that the *)
(* plan found, or will have when its victim is out, is still there (Room). *)
(*                                                                         *)
(* The argument for the sidecar (Piped): whoever reads is at the head of   *)
(* the queue of the lock, no call has two lines, and the line of a reader  *)
(* is the last, so all that comes before it is of calls given up.          *)
(***************************************************************************)
EXTENDS Placement, Sidecar, FiniteSetTheorems, WellFoundedInduction, TLAPS

-------------------------------------------------------------------------------
(* Least elements, in the place of induction *)

\* A set of numbers that is not empty has a least one.
LEMMA LeastNumber ==
    ASSUME NEW B, B \subseteq Nat, B # {}
    PROVE  \E n \in B : \A k \in B : n <= k
<1>1. PICK n \in B : \A k \in B : <<k, n>> \notin OpToRel(<, Nat)
  BY WFMin, NatLessThanWellFounded, Zenon
<1>2. \A k \in B : ~(k < n)  BY <1>1, Zenon DEF OpToRel
<1>3. QED  BY <1>2

\* A collection of sets of runtimes has one that is not in it when any element is taken out.
LEMMA LeastSet ==
    ASSUME NEW Bad, Bad \subseteq SUBSET Runtimes, Bad # {}
    PROVE  \E T \in Bad : \A r \in T : T \ {r} \notin Bad
<1> DEFINE sizes == {Cardinality(T) : T \in Bad}
<1>1. \A T \in Bad : IsFiniteSet(T) /\ Cardinality(T) \in Nat
  BY ModelsAssumption, FS_Subset, FS_CardinalityType
<1>2. PICK n \in sizes : \A k \in sizes : n <= k
  <2>1. sizes \subseteq Nat /\ sizes # {}  BY <1>1
  <2> HIDE DEF sizes
  <2>2. QED  BY <2>1, LeastNumber
<1>3. PICK T \in Bad : Cardinality(T) = n  BY <1>2
<1>4. \A r \in T : Cardinality(T \ {r}) = n - 1
  BY <1>1, <1>3, FS_RemoveElement
<1>5. \A U \in Bad : n <= Cardinality(U) BY <1>2
<1>6. n \in Nat  BY <1>1, <1>3
<1>7. \A r \in T : T \ {r} \notin Bad  BY <1>4, <1>5, <1>6
<1>8. QED  BY <1>3, <1>7

-------------------------------------------------------------------------------
(* The plan *)

\* A set of models that is not empty has one that is charged least.
LEMMA Smallest ==
    ASSUME NEW S, S \subseteq Models, S # {}
    PROVE  \E v \in S : \A w \in S : Vram[v] <= Vram[w]
<1> DEFINE sizes == {Vram[v] : v \in S}
<1>1. sizes \subseteq Nat /\ sizes # {}  BY ModelsAssumption
<1>2. PICK n \in sizes : \A k \in sizes : n <= k
  <2> HIDE DEF sizes
  <2>1. QED  BY <1>1, LeastNumber
<1>3. PICK v \in S : n = Vram[v]  BY <1>2
<1>4. \A w \in S : Vram[v] <= Vram[w]  BY <1>2, <1>3
<1>5. QED  BY <1>3, <1>4

\* What the plan decides, whatever is loaded: a model that is not there is loaded at once
\* exactly if it fits; else the smallest unpinned model whose eviction makes room goes, and
\* the job is blocked only if there is none.
THEOREM PlanIsExact ==
    ASSUME NEW loaded, loaded \subseteq Models, NEW pins, NEW m \in Models,
           NEW need \in Nat, NEW free \in Nat,
           NEW d, d \in Plan(FALSE, loaded, pins, m, need, free)
    PROVE  LET Rooms == {v \in loaded \ (pins \cup {m}) : free + Vram[v] >= need} IN
           /\ d.go = "load" <=> need <= free
           /\ d.go = "evict" =>
                d.victim \in Rooms /\ \A w \in Rooms : Vram[d.victim] <= Vram[w]
           /\ d.go = "blocked" => need > free /\ Rooms = {}
<1> DEFINE evictable == Candidates(loaded, m) \ pins
           Rooms == {v \in loaded \ (pins \cup {m}) : free + Vram[v] >= need}
           vs == Victims(loaded, pins, m, need, free)
<1>1. \A v \in loaded : Vram[v] \in Nat  BY ModelsAssumption
<1>2. evictable = loaded \ (pins \cup {m})  BY DEF Candidates
<1>3. CASE need <= free
  <2>1. d = LoadThenRun  BY <1>3 DEF Plan
  <2>2. QED  BY <1>3, <2>1 DEF LoadThenRun
<1>4. CASE ~(need <= free)
  <2> DEFINE Enough == {v \in evictable : Vram[v] >= need - free}
  <2>1. Rooms = Enough
    <3>1. \A v \in evictable : free + Vram[v] >= need <=> Vram[v] >= need - free
      BY <1>1, <1>2
    <3>2. QED  BY <1>2, <3>1
  <2>2. vs = {v \in Enough : \A w \in Enough : Vram[v] <= Vram[w]}
    <3>1. vs = {v \in Preferred(evictable, need - free) : free + Vram[v] >= need}
      BY DEF Victims
    <3>2. \A v \in evictable : free + Vram[v] >= need <=> v \in Enough
      BY <1>1, <1>2
    <3>3. CASE Enough # {}
      BY <3>1, <3>2, <3>3 DEF Preferred
    <3>4. CASE Enough = {}
      BY <3>1, <3>2, <3>4 DEF Preferred
    <3>5. QED  BY <3>3, <3>4
  <2>3. Enough \subseteq Models  BY <1>2
  <2> HIDE DEF Enough, evictable, Rooms, vs
  <2>4. CASE vs = {}
    <3>1. d = Blocked  BY <1>4, <2>4 DEF Plan, vs
    <3>2. Enough = {}  BY <2>2, <2>3, <2>4, Smallest
    <3>3. need > free  BY <1>4
    <3>4. Rooms = {}  BY <2>1, <3>2
    <3>5. QED  BY <1>4, <3>1, <3>3, <3>4 DEF Blocked, Rooms
  <2>5. CASE vs # {}
    <3>1. PICK v \in vs : d = EvictThenLoad(v)  BY <1>4, <2>5 DEF Plan, vs
    <3>2. v \in Rooms /\ \A w \in Rooms : Vram[v] <= Vram[w]  BY <2>1, <2>2
    <3>3. d.go = "evict" /\ d.victim = v  BY <3>1 DEF EvictThenLoad
    <3>4. QED  BY <1>4, <3>2, <3>3 DEF Rooms
  <2>6. QED  BY <2>4, <2>5
<1>5. QED  BY <1>3, <1>4

-------------------------------------------------------------------------------
(* The captioners *)

\* The types the argument needs
Types ==
    /\ slot \in [Runtimes -> Entries]
    /\ pc \in [Actors -> {"idle", "plan", "evict", "unload", "load", "landing", "pin",
                          "body", "over", "starting", "held", "release", "drop"}]
    /\ want \in [Actors -> Entries] /\ prey \in [Actors -> Entries]

\* A model is in the slot of its own runtime
Home == \A r \in Runtimes : slot[r] # Nothing => RuntimeOf[slot[r]] = r

\* Sessions and launches place coding models, the engine any model
Wants ==
    /\ \A c \in Callers : pc[c] # "idle" => want[c] \in Coding
    /\ pc[Engine] # "idle" => want[Engine] \in Models
    /\ pc[Engine] \notin {"starting", "held", "release", "drop"}

\* What is in the vision slot is what the engine is working on
Eyes == \A r \in {"vision"} \cap Runtimes :
    slot[r] # Nothing => pc[Engine] \in {"pin", "body", "over"} /\ slot[r] = want[Engine]

EyesInv == Types /\ Home /\ Wants /\ Eyes

\* A coding model is llama.cpp's, and a caller is not the engine.
LEMMA Roles ==
    /\ \A m \in Coding : m \in Models /\ RuntimeOf[m] = "llamacpp"
    /\ \A c \in Callers : c # Engine
    /\ Nothing \notin Models
BY ActorsAssumption, CodingAssumption, ModelsAssumption

\* Unloading empties the slot of that model and no other.
LEMMA UnloadKeeps ==
    ASSUME Types, Home, NEW m, Unload(m)
    PROVE  /\ slot' \in [Runtimes -> Entries] /\ Home'
           /\ \A r \in Runtimes : slot'[r] # Nothing => slot'[r] = slot[r]
BY DEF Types, Home, Unload, Entries


Labels == {"idle", "plan", "evict", "unload", "load", "landing", "pin",
           "body", "over", "starting", "held", "release", "drop"}
OfEngine == Labels \ {"starting", "held", "release", "drop"}

\* What a step of actor a writes of its own
Moves(a, label, m, v) ==
    /\ pc' = [pc EXCEPT ![a] = label]
    /\ want' = [want EXCEPT ![a] = m] /\ prey' = [prey EXCEPT ![a] = v]

\* The three ways to go on are moves.
LEMMA WaysOn ==
    ASSUME Types, NEW a \in Actors
    PROVE  /\ \A label : Goto(a, label) => Moves(a, label, want[a], prey[a])
           /\ Idle(a) => Moves(a, "idle", Nothing, Nothing)
           /\ GoOn(a) => Moves(a, "load", want[a], Nothing)
           /\ want[a] \in Entries /\ prey[a] \in Entries /\ Nothing \in Entries
BY DEF Types, Goto, Idle, GoOn, Moves, Entries

\* A step of a session or launch that puts nothing into the vision slot keeps all of it.
LEMMA CallerKeeps ==
    ASSUME EyesInv, NEW c \in Callers, NEW label \in Labels, NEW m \in Entries, NEW v \in Entries,
           Moves(c, label, m, v), label # "idle" => m \in Coding,
           slot' \in [Runtimes -> Entries], Home',
           \A r \in {"vision"} \cap Runtimes : slot'[r] # Nothing => slot'[r] = slot[r]
    PROVE  EyesInv'
<1>1. c \in Actors /\ Engine \in Actors /\ c # Engine  BY Roles DEF Actors
<1>2. Types'  BY <1>1 DEF EyesInv, Types, Moves, Labels
<1>3. pc'[Engine] = pc[Engine] /\ want'[Engine] = want[Engine]
  BY <1>1 DEF EyesInv, Types, Moves
<1>4. \A d \in Callers : pc'[d] # "idle" => want'[d] \in Coding
  BY <1>1 DEF EyesInv, Types, Wants, Moves, Actors
<1>5. Wants'  BY <1>3, <1>4 DEF EyesInv, Wants
<1>6. Eyes'  BY <1>3 DEF EyesInv, Eyes
<1>7. QED  BY <1>2, <1>5, <1>6 DEF EyesInv

\* A step of the engine keeps it if what is in the vision slot after it is the engine's.
LEMMA EngineKeeps ==
    ASSUME EyesInv, NEW label \in OfEngine, NEW m \in Entries, NEW v \in Entries,
           Moves(Engine, label, m, v), label # "idle" => m \in Models,
           slot' \in [Runtimes -> Entries], Home',
           \A r \in {"vision"} \cap Runtimes :
               slot'[r] # Nothing => label \in {"pin", "body", "over"} /\ slot'[r] = m
    PROVE  EyesInv'
<1>1. Engine \in Actors /\ \A c \in Callers : c \in Actors /\ c # Engine  BY Roles DEF Actors
<1>2. Types'  BY <1>1 DEF EyesInv, Types, Moves, Labels, OfEngine
<1>3. pc'[Engine] = label /\ want'[Engine] = m  BY <1>1 DEF EyesInv, Types, Moves
<1>4. \A d \in Callers : pc'[d] = pc[d] /\ want'[d] = want[d]
  BY <1>1 DEF EyesInv, Types, Moves
<1>5. Wants'  BY <1>3, <1>4 DEF EyesInv, Wants, OfEngine
<1>6. Eyes'  BY <1>3 DEF Eyes
<1>7. QED  BY <1>2, <1>5, <1>6 DEF EyesInv

\* What the plan picks is a model or nothing.
LEMMA PlanEntries ==
    ASSUME NEW there, NEW loaded, loaded \subseteq Models, NEW pins, NEW m, NEW need, NEW free,
           NEW d \in Plan(there, loaded, pins, m, need, free)
    PROVE  d.victim \in Entries
<1>1. \A v \in Victims(loaded, pins, m, need, free) : v \in loaded
  BY DEF Victims, Preferred, Candidates
<1>2. \A v \in loaded : EvictThenLoad(v).victim \in Entries  BY DEF EvictThenLoad, Entries
<1>3. \A x \in {RunNow, LoadThenRun, Blocked} : x.victim \in Entries
  BY DEF RunNow, LoadThenRun, Blocked, Entries
<1>4. \/ d \in {RunNow, LoadThenRun, Blocked}
      \/ \E v \in Victims(loaded, pins, m, need, free) : d = EvictThenLoad(v)
  BY DEF Plan
<1>5. QED  BY <1>1, <1>2, <1>3, <1>4

\* Placing a model: the step moves the actor on, with the same model or none, and only
\* the landing puts a model into a slot.
LEMMA PlacingSteps ==
    ASSUME EyesInv, NEW a \in Actors, Places(a)
    PROVE  /\ \E label \in OfEngine, m \in Entries, v \in Entries :
                /\ Moves(a, label, m, v)
                /\ label # "idle" => m = want[a]
                /\ At(a, "landing") /\ slot' # slot => label = "pin"
           /\ pc[a] \in {"plan", "evict", "unload", "load", "landing"}
           /\ slot' \in [Runtimes -> Entries] /\ Home'
           /\ \A r \in Runtimes :
                slot'[r] # Nothing =>
                    \/ slot'[r] = slot[r]
                    \/ At(a, "landing") /\ r = RuntimeOf[want[a]] /\ slot'[r] = want[a]
<1> DEFINE Moved == \E label \in OfEngine, m \in Entries, v \in Entries :
                      /\ Moves(a, label, m, v)
                      /\ label # "idle" => m = want[a]
                      /\ At(a, "landing") /\ slot' # slot => label = "pin"
           Fewer == /\ slot' \in [Runtimes -> Entries] /\ Home'
                    /\ \A r \in Runtimes : slot'[r] # Nothing => slot'[r] = slot[r]
<1> USE DEF EyesInv, OfEngine, Labels
<1>1. Types /\ Home  OBVIOUS
<1>2. slot' = slot => Fewer  BY DEF Types, Home
<1>3. \A m : Unload(m) => Fewer  BY UnloadKeeps
<1>4. \A label \in OfEngine \ {"idle"} :
        Goto(a, label) /\ (At(a, "landing") => slot' = slot \/ label = "pin") => Moved
  BY <1>1, WaysOn, Zenon
<1>5. Idle(a) /\ (At(a, "landing") => slot' = slot) => Moved  BY <1>1, WaysOn
<1>6. GoOn(a) /\ ~At(a, "landing") => Moved  BY <1>1, WaysOn
<1> HIDE DEF Moved
<1>7. ASSUME NEW live \in Readings, MakePlan(a, live)  PROVE Moved /\ slot' = slot /\ At(a, "plan")
  <2>1. At(a, "plan") /\ slot' = slot  BY <1>7 DEF MakePlan, gpu
  <2>2. Loaded(slot) \subseteq Models  BY <1>1 DEF Types, Loaded, Entries
  <2>3. PICK d \in Plan(slot[RuntimeOf[want[a]]] = want[a], Loaded(slot), pinned, want[a],
                        Vram[want[a]], EffectiveFree(Used(slot), live)) : Decide(a, d)
    BY <1>7 DEF MakePlan
  <2>4. d.victim \in Entries  BY <2>2, <2>3, PlanEntries
  <2>5. CASE Goto(a, "pin") \/ Goto(a, "load")  BY <1>4, <2>1, <2>5
  <2>6. CASE /\ pc' = [pc EXCEPT ![a] = "evict"] /\ prey' = [prey EXCEPT ![a] = d.victim]
             /\ UNCHANGED want
    <3>1. Moves(a, "evict", want[a], d.victim)  BY <1>1, <2>6 DEF Moves, Types
    <3>2. want[a] \in Entries /\ ~At(a, "landing")  BY <1>1, <2>1, WaysOn DEF At
    <3>3. QED  BY <2>1, <2>4, <3>1, <3>2 DEF Moved
  <2>7. CASE Idle(a)  BY <1>5, <2>1, <2>7
  <2>8. \/ Goto(a, "pin") \/ Goto(a, "load") \/ Idle(a)
        \/ /\ pc' = [pc EXCEPT ![a] = "evict"] /\ prey' = [prey EXCEPT ![a] = d.victim]
           /\ UNCHANGED want
    BY <2>3, Zenon DEF Decide
  <2>9. QED  BY <2>5, <2>6, <2>7, <2>8
<1>8. CASE Evict(a)
  <2>1. At(a, "evict") /\ slot' = slot /\ (Goto(a, "unload") \/ GoOn(a))  BY <1>8 DEF Evict
  <2>2. Moved  BY <1>4, <1>6, <2>1 DEF At
  <2>3. QED  BY <1>2, <2>1, <2>2 DEF At, Moved
<1>9. CASE UnloadPrey(a)
  <2>1. At(a, "unload") /\ GoOn(a) /\ Unload(prey[a])  BY <1>9 DEF UnloadPrey
  <2>2. Moved /\ Fewer  BY <1>3, <1>6, <2>1 DEF At
  <2>3. QED  BY <2>1, <2>2 DEF At, Moved
<1>10. CASE Load(a)
  <2>1. At(a, "load") /\ Goto(a, "landing")  BY <1>10 DEF Load
  <2>2. slot' = slot \/ slot' = [slot EXCEPT !["llamacpp"] = Nothing]  BY <1>10 DEF Load
  <2>3. Fewer  BY <1>1, <1>2, <2>2 DEF Types, Home, Entries
  <2>4. Moved  BY <1>4, <2>1 DEF At
  <2>5. QED  BY <2>1, <2>3, <2>4 DEF At, Moved
<1>11. CASE Land(a)
  <2>1. /\ At(a, "landing") /\ Goto(a, "pin")
        /\ slot' = [slot EXCEPT ![RuntimeOf[want[a]]] = want[a]]
    BY <1>11 DEF Land
  <2>2. want[a] \in Models
    BY Roles, <2>1 DEF Wants, At, Actors
  <2>3. /\ slot' \in [Runtimes -> Entries] /\ Home'
        /\ \A r \in Runtimes : slot'[r] # Nothing =>
             slot'[r] = slot[r] \/ (r = RuntimeOf[want[a]] /\ slot'[r] = want[a])
    BY <1>1, <2>1, <2>2, ModelsAssumption DEF Types, Home, Entries
  <2>4. Moved  BY <1>4, <2>1
  <2>5. QED  BY <2>1, <2>3, <2>4 DEF At, Moved
<1>12. CASE LoadFails(a)
  <2>1. At(a, "landing") /\ slot' = slot /\ (Goto(a, "over") \/ Idle(a))
    BY <1>12 DEF LoadFails, GiveUp
  <2>2. Moved  BY <1>4, <1>5, <2>1
  <2>3. QED  BY <1>2, <2>1, <2>2 DEF At, Moved
<1>13. CASE \E live \in Readings : MakePlan(a, live)
  <2>1. Moved /\ slot' = slot /\ At(a, "plan")  BY <1>7, <1>13
  <2>2. QED  BY <1>2, <2>1 DEF At, Moved
<1>14. QED  BY <1>8, <1>9, <1>10, <1>11, <1>12, <1>13 DEF Places

\* Every step keeps the invariant.
LEMMA NextEyes == EyesInv /\ [Next]_vars => EyesInv'
<1> SUFFICES ASSUME EyesInv, [Next]_vars PROVE EyesInv'  OBVIOUS
<1> USE DEF OfEngine, Labels
<1>0. Engine \in Actors /\ Types /\ Home /\ \A c \in Callers : c \in Actors
  BY DEF Actors, EyesInv
<1>1. slot' = slot => slot' \in [Runtimes -> Entries] /\ Home'
  BY <1>0 DEF Types, Home
<1>2. ASSUME NEW m \in Models, NEW isAgent \in BOOLEAN, Pick(m, isAgent)  PROVE EyesInv'
  <2>1. At(Engine, "idle") /\ slot' = slot  BY <1>2 DEF Pick, gpu
  <2>2. Moves(Engine, "plan", m, prey[Engine])
    BY <1>0, <1>2 DEF Pick, Moves, Types
  <2>3. m \in Entries /\ prey[Engine] \in Entries  BY <1>0, WaysOn DEF Entries
  <2>4. QED  BY <1>1, <2>1, <2>2, <2>3, EngineKeeps DEF EyesInv, Eyes, At
<1>3. CASE Places(Engine)
  <2>1. PICK label \in OfEngine, m \in Entries, v \in Entries :
          /\ Moves(Engine, label, m, v)
          /\ label # "idle" => m = want[Engine]
          /\ At(Engine, "landing") /\ slot' # slot => label = "pin"
    BY <1>0, <1>3, PlacingSteps
  <2>2. /\ pc[Engine] \in {"plan", "evict", "unload", "load", "landing"}
        /\ slot' \in [Runtimes -> Entries] /\ Home'
        /\ \A r \in Runtimes :
             slot'[r] # Nothing =>
                 \/ slot'[r] = slot[r]
                 \/ At(Engine, "landing") /\ r = RuntimeOf[want[Engine]] /\ slot'[r] = want[Engine]
    BY <1>0, <1>3, PlacingSteps
  <2>3. \A r \in {"vision"} \cap Runtimes : slot[r] = Nothing
    BY <2>2 DEF EyesInv, Eyes
  <2>4. \A r \in {"vision"} \cap Runtimes : slot'[r] # Nothing => label = "pin" /\ slot'[r] = m
    BY <2>1, <2>2, <2>3
  <2>5. label # "idle" => m \in Models  BY <2>1, <2>2 DEF EyesInv, Wants
  <2>6. QED  BY <2>1, <2>2, <2>4, <2>5, EngineKeeps
<1>4. CASE Start \/ BodyEnds \/ Bail
  <2>1. slot' = slot /\ pc[Engine] # "idle"
    BY <1>4 DEF Start, BodyEnds, Bail, At, gpu
  <2>2. PICK label \in {"body", "over"} : Goto(Engine, label)
    BY <1>4 DEF Start, BodyEnds, Bail
  <2>3. Moves(Engine, label, want[Engine], prey[Engine])
    BY <1>0, <2>2, WaysOn
  <2>4. want[Engine] \in Models /\ want[Engine] \in Entries /\ prey[Engine] \in Entries
    BY <1>0, <2>1, WaysOn DEF EyesInv, Wants
  <2>5. \A r \in {"vision"} \cap Runtimes : slot'[r] # Nothing => slot'[r] = want[Engine]
    BY <2>1 DEF EyesInv, Eyes
  <2>6. QED  BY <1>1, <2>1, <2>3, <2>4, <2>5, EngineKeeps
<1>5. CASE Over
  <2>1. Released /\ Moves(Engine, "idle", Nothing, Nothing)
    BY <1>0, <1>5, WaysOn DEF Over
  <2>2. CASE RuntimeOf[want[Engine]] = "vision"
    <3>1. Unload(want[Engine])  BY <2>1, <2>2 DEF Released
    <3>2. /\ slot' \in [Runtimes -> Entries] /\ Home'
          /\ \A r \in Runtimes : slot'[r] # Nothing => slot'[r] = slot[r]
      BY <1>0, <3>1, UnloadKeeps
    <3>3. \A r \in {"vision"} \cap Runtimes : slot[r] = want[Engine] => slot'[r] = Nothing
      BY <2>2, <3>1 DEF Unload
    <3>4. \A r \in {"vision"} \cap Runtimes : slot'[r] = Nothing
      BY <3>2, <3>3 DEF EyesInv, Eyes
    <3>5. QED  BY <1>0, <2>1, <3>2, <3>4, EngineKeeps, WaysOn
  <2>3. CASE RuntimeOf[want[Engine]] # "vision"
    <3>1. slot' = slot  BY <2>1, <2>3 DEF Released
    <3>2. \A r \in {"vision"} \cap Runtimes : slot'[r] = Nothing
      BY <2>3, <3>1 DEF EyesInv, Eyes, Home
    <3>3. QED  BY <1>0, <1>1, <2>1, <3>1, <3>2, EngineKeeps, WaysOn
  <2>4. QED  BY <2>2, <2>3
<1>6. ASSUME NEW c \in Callers, Places(c)  PROVE EyesInv'
  <2>1. PICK label \in OfEngine, m \in Entries, v \in Entries :
          /\ Moves(c, label, m, v)
          /\ label # "idle" => m = want[c]
    BY <1>0, <1>6, PlacingSteps
  <2>2. /\ pc[c] # "idle" /\ slot' \in [Runtimes -> Entries] /\ Home'
        /\ \A r \in Runtimes : slot'[r] # Nothing =>
             slot'[r] = slot[r] \/ r = RuntimeOf[want[c]]
    BY <1>0, <1>6, PlacingSteps
  <2>3. want[c] \in Coding /\ RuntimeOf[want[c]] = "llamacpp"
    BY <2>2, Roles DEF EyesInv, Wants
  <2>4. \A r \in {"vision"} \cap Runtimes : slot'[r] # Nothing => slot'[r] = slot[r]
    BY <2>2, <2>3
  <2>5. QED  BY <2>1, <2>2, <2>3, <2>4, CallerKeeps
<1>7. ASSUME NEW c \in Callers, Hold(c) \/ Started(c) \/ StartFails(c) \/ Release(c) \/ Stop(c)
      PROVE  EyesInv'
  <2>1. slot' = slot /\ pc[c] # "idle"
    BY <1>7 DEF Hold, Started, StartFails, Release, Stop, At, gpu
  <2>2. \/ Idle(c)
        \/ \E label \in {"starting", "held", "release", "drop"} : Goto(c, label)
    BY <1>7 DEF Hold, Started, StartFails, Release, Stop
  <2>3. want[c] \in Coding  BY <2>1 DEF EyesInv, Wants
  <2>4. CASE Idle(c)  BY <1>0, <1>1, <2>1, <2>4, WaysOn, CallerKeeps
  <2>5. CASE \E label \in {"starting", "held", "release", "drop"} : Goto(c, label)
    BY <1>0, <1>1, <2>1, <2>3, <2>5, WaysOn, CallerKeeps
  <2>6. QED  BY <2>2, <2>4, <2>5
<1>8. ASSUME NEW c \in Callers, Drop(c)  PROVE EyesInv'
  <2>1. Unload(want[c]) /\ Moves(c, "idle", Nothing, Nothing)
    BY <1>0, <1>8, WaysOn DEF Drop
  <2>2. QED  BY <1>0, <2>1, UnloadKeeps, CallerKeeps, WaysOn
<1>9. ASSUME NEW c \in Callers, NEW m \in Coding, Ask(c, m)  PROVE EyesInv'
  <2>1. slot' = slot /\ Moves(c, "plan", m, prey[c])
    BY <1>0, <1>9 DEF Ask, Moves, Types, gpu
  <2>2. m \in Entries /\ prey[c] \in Entries  BY <1>0, Roles, WaysOn DEF Entries
  <2>3. QED  BY <1>1, <2>1, <2>2, CallerKeeps
<1>10. ASSUME NEW m \in Models, UserUnloads(m)  PROVE EyesInv'
  <2>1. Unload(m) /\ UNCHANGED actor  BY <1>10 DEF UserUnloads
  <2>2. /\ slot' \in [Runtimes -> Entries] /\ Home'
        /\ \A r \in Runtimes : slot'[r] # Nothing => slot'[r] = slot[r]
    BY <1>0, <2>1, UnloadKeeps
  <2>3. QED  BY <1>0, <2>1, <2>2 DEF EyesInv, Types, Wants, Eyes, actor
<1>11. CASE UNCHANGED vars
  BY <1>11 DEF vars, gpu, actor, EyesInv, Types, Home, Wants, Eyes
<1>12. QED
  BY <1>2, <1>3, <1>4, <1>5, <1>6, <1>7, <1>8, <1>9, <1>10, <1>11 DEF Next, Drives, CallerStep

\* Between two jobs no dataset captioner stays on the GPU, whatever became of the
\* preparation and whatever sessions, launches and the user did meanwhile.
THEOREM CaptionersAreGivenBack == Spec => []CaptionersGivenBack
<1>1. Init => EyesInv
  BY Roles, ModelsAssumption
  DEF Init, EyesInv, Types, Home, Wants, Eyes, Entries, Actors
<1>2. EyesInv => CaptionersGivenBack
  BY DEF EyesInv, Eyes, CaptionersGivenBack, At
<1>3. QED  BY <1>1, <1>2, NextEyes, PTL DEF Spec

-------------------------------------------------------------------------------
(* The ledger: a sum over the runtimes *)

\* What a runtime is charged for, and the sum over a set of runtimes, taken in the order in
\* which the fold takes them.
Charge(s) == [r \in Runtimes |-> IF s[r] = Nothing THEN 0 ELSE Vram[s[r]]]
AnyOf(T) == CHOOSE r \in T : TRUE
Sums(f, g, D) ==
    g = [T \in D |-> IF T = {} THEN 0 ELSE f[AnyOf(T)] + g[T \ {AnyOf(T)}]]

\* The ledger is such a sum, if there is one.
LEMMA UsedIsSum ==
    ASSUME NEW s, \E g : Sums(Charge(s), g, SUBSET Runtimes)
    PROVE  \E g : Sums(Charge(s), g, SUBSET Runtimes) /\ Used(s) = g[Runtimes]
<1> DEFINE Body(g) == [T \in SUBSET Runtimes |->
              IF T = {} THEN 0
              ELSE (IF s[AnyOf(T)] = Nothing THEN 0 ELSE Vram[s[AnyOf(T)]])
                   + g[T \ {AnyOf(T)}]]
           h == CHOOSE g : g = Body(g)
<1>1. \A g : Sums(Charge(s), g, SUBSET Runtimes) <=> g = Body(g)
  <2> SUFFICES ASSUME NEW g PROVE Sums(Charge(s), g, SUBSET Runtimes) <=> g = Body(g) OBVIOUS
  <2>1. \A T \in SUBSET Runtimes : T # {} => AnyOf(T) \in Runtimes
    BY DEF AnyOf
  <2>2. \A T \in SUBSET Runtimes : T # {} =>
           Charge(s)[AnyOf(T)] = IF s[AnyOf(T)] = Nothing THEN 0 ELSE Vram[s[AnyOf(T)]]
    BY <2>1 DEF Charge
  <2>3. QED  BY <2>2 DEF Sums
<1>2. \E g : g = Body(g)  BY <1>1
<1>3. h = Body(h)
  <2> HIDE DEF Body
  <2>1. QED BY <1>2, Zenon
<1>4. Used(s) = h[Runtimes]
  BY Zenon DEF Used, MapThenSumSet, MapThenFoldSet, AnyOf
<1>5. QED  BY <1>1, <1>3, <1>4

\* There is one for every charge.
LEMMA SumExists == ASSUME NEW f PROVE \E g : Sums(f, g, SUBSET Runtimes)
<1> DEFINE Sized(n) == {T \in SUBSET Runtimes : Cardinality(T) <= n}
           B == {n \in Nat : ~\E g : Sums(f, g, Sized(n))}
<1>1. \A T \in SUBSET Runtimes : IsFiniteSet(T) /\ Cardinality(T) \in Nat
  BY ModelsAssumption, FS_Subset, FS_CardinalityType
<1>2. \A T \in SUBSET Runtimes : T # {} =>
        /\ T \ {AnyOf(T)} \in SUBSET Runtimes
        /\ Cardinality(T \ {AnyOf(T)}) = Cardinality(T) - 1
  <2>1. \A T \in SUBSET Runtimes : T # {} => AnyOf(T) \in T  BY DEF AnyOf
  <2>2. QED  BY <1>1, <2>1, FS_RemoveElement
<1>3. B = {}
  <2> SUFFICES ASSUME B # {} PROVE FALSE  OBVIOUS
  <2>1. PICK n \in B : \A k \in B : n <= k
    <3>1. B \subseteq Nat  OBVIOUS
    <3> HIDE DEF B
    <3>2. QED  BY <3>1, LeastNumber
  <2>2. CASE n = 0
    <3> DEFINE g == [T \in Sized(0) |-> 0]
    <3>1. \A T \in Sized(0) : T = {}  BY <1>1, FS_EmptySet
    <3>2. Sums(f, g, Sized(0))  BY <3>1 DEF Sums
    <3>3. QED  BY <2>1, <2>2, <3>2
  <2>3. CASE n # 0
    <3>1. n \in Nat /\ n - 1 \in Nat /\ ~(n <= n - 1)  BY <2>3
    <3>2. n - 1 \notin B  BY <2>1, <3>1
    <3>3. PICK h : Sums(f, h, Sized(n - 1))  BY <3>1, <3>2
    <3> DEFINE g == [T \in Sized(n) |->
                       IF T = {} THEN 0 ELSE f[AnyOf(T)] + h[T \ {AnyOf(T)}]]
    <3>4. \A T \in Sized(n) : T # {} => T \ {AnyOf(T)} \in Sized(n - 1)
      BY <1>1, <1>2, <3>1
    <3>5. \A U \in Sized(n - 1) : U \in Sized(n) /\ h[U] = g[U]
      <4>1. \A U \in Sized(n - 1) : U \in Sized(n)  BY <1>1, <3>1
      <4> HIDE DEF Sized
      <4>2. \A U \in Sized(n - 1) :
              h[U] = IF U = {} THEN 0 ELSE f[AnyOf(U)] + h[U \ {AnyOf(U)}]
        BY <3>3 DEF Sums
      <4>3. QED  BY <4>1, <4>2
    <3>6. Sums(f, g, Sized(n))
      <4>1. \A T \in Sized(n) : T # {} => h[T \ {AnyOf(T)}] = g[T \ {AnyOf(T)}]
        BY <3>4, <3>5
      <4> DEFINE g2 == [T \in Sized(n) |->
                          IF T = {} THEN 0 ELSE f[AnyOf(T)] + g[T \ {AnyOf(T)}]]
      <4>2. \A T \in Sized(n) : g[T] = g2[T]
        <5> HIDE DEF Sized
        <5>1. QED  BY <4>1
      <4>3. g = g2
        <5> HIDE DEF Sized
        <5>1. QED  BY <4>2
      <4>4. QED  BY <4>3 DEF Sums
    <3> HIDE DEF g, Sized
    <3>7. n \notin B  BY <3>6
    <3>8. QED  BY <2>1, <3>7
  <2>4. QED  BY <2>2, <2>3
<1>4. Cardinality(Runtimes) \in Nat  BY <1>1
<1>5. Sized(Cardinality(Runtimes)) = SUBSET Runtimes
  BY ModelsAssumption, FS_Subset
<1>6. QED  BY <1>3, <1>4, <1>5

\* Sums of numbers are numbers, and changing the charge of one runtime from x to y changes
\* the sums over the sets it is in by the difference.
Shifted(T, r, x, y, before, after) ==
    /\ before \in Nat /\ after \in Nat
    /\ IF r \in T THEN before >= x /\ after = before - x + y ELSE after = before

\* Each sum follows a change of one charge.
LEMMA SumShift ==
    ASSUME NEW f \in [Runtimes -> Nat], NEW r \in Runtimes, NEW v \in Nat,
           NEW g, Sums(f, g, SUBSET Runtimes),
           NEW g2, Sums([f EXCEPT ![r] = v], g2, SUBSET Runtimes)
    PROVE  \A T \in SUBSET Runtimes : Shifted(T, r, f[r], v, g[T], g2[T])
<1> DEFINE Good(T) == Shifted(T, r, f[r], v, g[T], g2[T])
           Bad == {T \in SUBSET Runtimes : ~Good(T)}
<1> SUFFICES ASSUME Bad # {} PROVE FALSE  OBVIOUS
<1> DEFINE f2 == [f EXCEPT ![r] = v]
<1>0. f2 \in [Runtimes -> Nat] /\ f2[r] = v /\ (\A q \in Runtimes : q # r => f2[q] = f[q])
      /\ Sums(f2, g2, SUBSET Runtimes)
  OBVIOUS
<1> HIDE DEF f2
<1>1. PICK T \in Bad : \A q \in T : T \ {q} \notin Bad
  <2>1. Bad \subseteq SUBSET Runtimes  OBVIOUS
  <2> HIDE DEF Bad
  <2>2. QED  BY <2>1, LeastSet
<1>2. CASE T = {}
  <2>1. g[T] = 0 /\ g2[T] = 0  BY <1>0, <1>2 DEF Sums
  <2>2. QED  BY <1>1, <1>2, <2>1 DEF Shifted
<1>3. CASE T # {}
  <2>1. PICK x \in T : x = AnyOf(T)  BY <1>3 DEF AnyOf
  <2> DEFINE U == T \ {x}
  <2>2. x \in Runtimes /\ U \in SUBSET Runtimes /\ Good(U)  BY <1>1
  <2>3. g[T] = f[x] + g[U] /\ g2[T] = f2[x] + g2[U]
    BY <1>0, <1>1, <1>3, <2>1 DEF Sums
  <2>4. f[x] \in Nat /\ f2[x] \in Nat /\ f[r] \in Nat /\ f2[r] = v  BY <1>0, <2>2
  <2>5. CASE x = r
    <3>1. g2[U] = g[U] /\ r \in T BY <2>2, <2>5 DEF Shifted
    <3>2. Good(T)  BY <2>2, <2>3, <2>4, <2>5, <3>1 DEF Shifted
    <3>3. QED  BY <1>1, <3>2
  <2>6. CASE x # r
    <3>1. f2[x] = f[x] /\ (r \in U <=> r \in T)  BY <1>0, <2>2, <2>6
    <3>2. Good(T)  BY <2>2, <2>3, <2>4, <3>1 DEF Shifted
    <3>3. QED  BY <1>1, <3>2
  <2>7. QED  BY <2>5, <2>6
<1>4. QED  BY <1>2, <1>3

\* What is in use is a number, and follows the slots.
LEMMA Ledger ==
    ASSUME NEW s \in [Runtimes -> Entries], NEW r \in Runtimes, NEW x \in Entries
    PROVE  /\ Used(s) \in Nat
           /\ Used([s EXCEPT ![r] = x]) \in Nat
           /\ Used(s) >= Charge(s)[r]
           /\ Used([s EXCEPT ![r] = x]) = Used(s) - Charge(s)[r]
                                          + (IF x = Nothing THEN 0 ELSE Vram[x])
<1> DEFINE s2 == [s EXCEPT ![r] = x]
<1> DEFINE v == IF x = Nothing THEN 0 ELSE Vram[x]
<1>1. s2 \in [Runtimes -> Entries] /\ s2[r] = x /\ \A q \in Runtimes \ {r} : s2[q] = s[q]
  OBVIOUS
<1> HIDE DEF s2
<1>2. PICK f \in [Runtimes -> Nat] : f = Charge(s)
  BY ModelsAssumption DEF Charge, Entries
<1>3. v \in Nat  BY ModelsAssumption DEF Entries
<1>4. Charge(s2) = [f EXCEPT ![r] = v]
  BY <1>1, <1>2 DEF Charge
<1> HIDE DEF v
<1>5. PICK g : Sums(f, g, SUBSET Runtimes) /\ Used(s) = g[Runtimes]
  BY <1>2, SumExists, UsedIsSum
<1>6. PICK g2 : Sums([f EXCEPT ![r] = v], g2, SUBSET Runtimes) /\ Used(s2) = g2[Runtimes]
  BY <1>4, SumExists, UsedIsSum
<1>7. Shifted(Runtimes, r, f[r], v, g[Runtimes], g2[Runtimes])
  BY <1>3, <1>5, <1>6, SumShift
<1>8. /\ g[Runtimes] \in Nat /\ g2[Runtimes] \in Nat
      /\ g[Runtimes] >= f[r] /\ g2[Runtimes] = g[Runtimes] - f[r] + v
  BY <1>7 DEF Shifted
<1>9. QED  BY <1>2, <1>5, <1>6, <1>8 DEF s2, v

-------------------------------------------------------------------------------
(* A load that follows its plan fits *)

\* What the card may hold when actor a has loaded its model: all it can, or what it held
\* when the plan was made.
Limit(a) == IF basis[a] > Usable THEN basis[a] ELSE Usable

\* There is room for the model, or there will be once the victim is out.
Room(a) ==
    /\ pc[a] \in {"load", "landing"} => Used(slot) + Vram[want[a]] <= Limit(a)
    /\ pc[a] \in {"evict", "unload"} =>
          /\ prey[a] \in Models
          /\ Used(slot) + Vram[want[a]] <=
                Limit(a) + (IF slot[RuntimeOf[prey[a]]] = prey[a] THEN Vram[prey[a]] ELSE 0)

Planned(a) == pc[a] \in OnItsWay /\ ~overtaken[a]

RoomForAll == \A a \in Actors : Planned(a) => Room(a)

FitsInv ==
    /\ EyesInv
    /\ basis \in [Actors -> Nat] /\ overtaken \in [Actors -> BOOLEAN]
    /\ RoomForAll

\* Whoever is on its way has a model.
LEMMA Wanted ==
    ASSUME EyesInv, NEW a \in Actors, pc[a] # "idle"
    PROVE  want[a] \in Models /\ Vram[want[a]] \in Nat /\ RuntimeOf[want[a]] \in Runtimes
<1>1. want[a] \in Models  BY Roles DEF EyesInv, Wants, Actors
<1>2. QED  BY <1>1, ModelsAssumption

\* The slots stay, or one of them is emptied.
Emptied == slot' = slot \/ \E r \in Runtimes : slot' = [slot EXCEPT ![r] = Nothing]

\* An unload empties one slot at most.
LEMMA UnloadEmpties ==
    ASSUME Types, NEW m \in Models, Unload(m)
    PROVE  slot' = [slot EXCEPT ![RuntimeOf[m]] =
                       IF slot[RuntimeOf[m]] = m THEN Nothing ELSE slot[RuntimeOf[m]]]
  BY ModelsAssumption DEF Types, Unload

\* An emptied slot makes room, and takes the victim out if it was the victim's.
LEMMA RoomStays ==
    ASSUME FitsInv, Emptied, NEW a \in Actors, Planned(a),
           pc'[a] = pc[a], want'[a] = want[a], prey'[a] = prey[a], basis'[a] = basis[a]
    PROVE  Room(a)'
<1>1. Room(a) /\ basis[a] \in Nat /\ Usable \in Nat
  BY ModelsAssumption DEF FitsInv, RoomForAll
<1>2. CASE slot' = slot
  BY <1>1, <1>2 DEF Room, Limit
<1>3. ASSUME NEW r \in Runtimes, slot' = [slot EXCEPT ![r] = Nothing]  PROVE Room(a)'
  <2>1. slot \in [Runtimes -> Entries] /\ Nothing \in Entries
    BY DEF FitsInv, EyesInv, Types, Entries
  <2>2. /\ Used(slot) \in Nat /\ Used(slot') \in Nat /\ Used(slot) >= Charge(slot)[r]
        /\ Used(slot') = Used(slot) - Charge(slot)[r]
    <3>1. /\ Used(slot) \in Nat /\ Used(slot') \in Nat /\ Used(slot) >= Charge(slot)[r]
          /\ Used(slot') = Used(slot) - Charge(slot)[r]
                           + (IF Nothing = Nothing THEN 0 ELSE Vram[Nothing])
      BY <1>3, <2>1, Ledger
    <3>2. Charge(slot)[r] \in Nat
      BY <2>1, ModelsAssumption DEF Charge, Entries
    <3>3. QED  BY <3>1, <3>2
  <2>3. Charge(slot)[r] = IF slot[r] = Nothing THEN 0 ELSE Vram[slot[r]]
    BY DEF Charge
  <2>4. Vram[want[a]] \in Nat
    BY Wanted DEF FitsInv, Planned, OnItsWay
  <2>5. Charge(slot)[r] \in Nat
    BY <2>1, <2>3, ModelsAssumption DEF Entries
  <2>6. CASE pc[a] \in {"load", "landing"}
    BY <1>1, <2>2, <2>4, <2>5, <2>6 DEF Room, Limit
  <2>7. CASE pc[a] \in {"evict", "unload"}
    <3> DEFINE v == prey[a]
    <3>1. v \in Models /\ Vram[v] \in Nat /\ RuntimeOf[v] \in Runtimes
      BY <1>1, <2>7, ModelsAssumption DEF Room
    <3>2. v # Nothing  BY <3>1, ModelsAssumption
    <3>3. CASE r = RuntimeOf[v] /\ slot[r] = v
      <4>1. Charge(slot)[r] = Vram[v] /\ slot'[RuntimeOf[v]] # v
        BY <1>3, <2>1, <2>3, <3>1, <3>2, <3>3
      <4>2. QED  BY <1>1, <2>2, <2>4, <2>7, <3>1, <3>3, <4>1 DEF Room, Limit
    <3>4. CASE ~(r = RuntimeOf[v] /\ slot[r] = v)
      <4>1. slot'[RuntimeOf[v]] = v <=> slot[RuntimeOf[v]] = v
        BY <1>3, <2>1, <3>1, <3>2, <3>4
      <4>2. QED  BY <1>1, <2>2, <2>4, <2>5, <2>7, <3>1, <4>1 DEF Room, Limit
    <3>5. QED  BY <3>3, <3>4
  <2>8. QED  BY <2>6, <2>7 DEF Planned, OnItsWay
<1>4. QED  BY <1>2, <1>3 DEF Emptied

\* A step of one actor that lands nothing leaves the room of the others.
LEMMA FitsStays ==
    ASSUME FitsInv, EyesInv', Emptied, NEW a \in Actors,
           \A b \in Actors \ {a} : /\ pc'[b] = pc[b] /\ want'[b] = want[b] /\ prey'[b] = prey[b]
                                   /\ basis'[b] = basis[b] /\ overtaken'[b] = overtaken[b],
           basis' \in [Actors -> Nat], overtaken' \in [Actors -> BOOLEAN],
           Planned(a)' => Room(a)'
    PROVE  FitsInv'
<1>1. ASSUME NEW b \in Actors, b # a, Planned(b)'  PROVE Room(b)'
  <2>1. Planned(b)  BY <1>1 DEF Planned
  <2>2. QED  BY <1>1, <2>1, RoomStays
<1>2. QED  BY <1>1 DEF FitsInv, RoomForAll

\* A plan leaves room for its model, as the card is now.
LEMMA PlansFit ==
    ASSUME FitsInv, EyesInv', NEW a \in Actors, NEW live \in Readings, MakePlan(a, live)
    PROVE  FitsInv'
<1> DEFINE m == want[a]
           used == Used(slot)
           free == EffectiveFree(used, live)
           there == slot[RuntimeOf[m]] = m
<1>1. Types /\ At(a, "plan") /\ slot' = slot /\ EyesInv
  BY DEF FitsInv, EyesInv, MakePlan, gpu
<1>2. m \in Models /\ Vram[m] \in Nat
  BY <1>1, Wanted DEF At
<1>3. used \in Nat
  <2>1. slot \in [Runtimes -> Entries] /\ Nothing \in Entries  BY <1>1 DEF Types, Entries
  <2>2. RuntimeOf[m] \in Runtimes  BY <1>2, ModelsAssumption
  <2>3. QED  BY <2>1, <2>2, Ledger
<1>4. free \in Nat /\ free <= FreeMb(used) /\ Usable \in Nat
  BY <1>3, ReadingsAssumption, ModelsAssumption DEF EffectiveFree, FreeMb, Monus
<1>5. Loaded(slot) \subseteq Models
  BY <1>1 DEF Types, Loaded, Entries
<1>6. PICK d \in Plan(there, Loaded(slot), pinned, m, Vram[m], free) : Decide(a, d)
  BY DEF MakePlan
<1> HIDE DEF m, used, free, there
<1>7. \A b \in Actors \ {a} :
        /\ pc'[b] = pc[b] /\ want'[b] = want[b] /\ prey'[b] = prey[b]
        /\ basis'[b] = basis[b] /\ overtaken'[b] = overtaken[b]
  BY <1>1, <1>6 DEF Decide, Note, Goto, Idle, Types, FitsInv, history
<1>8. basis' \in [Actors -> Nat] /\ overtaken' \in [Actors -> BOOLEAN]
  BY <1>3, <1>6 DEF Decide, Note, FitsInv, history, used
<1>9. Planned(a)' => Room(a)'
  <2>1. CASE d = LoadThenRun /\ Goto(a, "load") /\ Note(a)
    <3>1. pc'[a] = "load" /\ want'[a] = m /\ basis'[a] = used
      BY <1>1, <2>1 DEF Goto, Note, Types, FitsInv, m, used
    <3>2. Vram[m] <= free
      <4>1. d \in {LoadThenRun} => ~there /\ Vram[m] <= free
        BY <1>6 DEF Plan, LoadThenRun, RunNow, Blocked, EvictThenLoad
      <4>2. QED  BY <2>1, <4>1
    <3>3. used + Vram[m] <= IF used > Usable THEN used ELSE Usable
      BY <1>2, <1>3, <1>4, <3>2 DEF FreeMb, Monus
    <3>4. QED  BY <1>1, <3>1, <3>3 DEF Room, Limit, used
  <2>2. CASE /\ d.go = "evict" /\ Note(a)
             /\ pc' = [pc EXCEPT ![a] = "evict"] /\ prey' = [prey EXCEPT ![a] = d.victim]
             /\ UNCHANGED want
    <3>1. pc'[a] = "evict" /\ want'[a] = m /\ basis'[a] = used /\ prey'[a] = d.victim
      BY <1>1, <2>2 DEF Note, Types, FitsInv, m, used
    <3>2. PICK v \in Victims(Loaded(slot), pinned, m, Vram[m], free) : d = EvictThenLoad(v)
      BY <1>6, <2>2 DEF Plan, LoadThenRun, RunNow, Blocked
    <3>3. d.victim = v /\ v \in Loaded(slot) /\ free + Vram[v] >= Vram[m]
      BY <3>2 DEF Victims, Preferred, Candidates, EvictThenLoad
    <3>4. v \in Models /\ Vram[v] \in Nat  BY <1>5, <3>3, ModelsAssumption
    <3>5. slot[RuntimeOf[v]] = v
      BY <1>1, <3>3 DEF EyesInv, Home, Loaded
    <3>6. used + Vram[m] <= (IF used > Usable THEN used ELSE Usable) + Vram[v]
      BY <1>2, <1>3, <1>4, <3>3, <3>4 DEF FreeMb, Monus
    <3>7. QED  BY <1>1, <3>1, <3>3, <3>4, <3>5, <3>6 DEF Room, Limit, used
  <2>3. CASE Goto(a, "pin") \/ Idle(a)
    BY <1>1, <2>3 DEF Goto, Idle, Types, Planned, OnItsWay
  <2>4. QED  BY <1>6, <2>1, <2>2, <2>3 DEF Decide
<1>10. QED  BY <1>1, <1>7, <1>8, <1>9, FitsStays DEF Emptied

\* A step that goes on from the plan to the load keeps the room it found.
LEMMA GoesOnFits ==
    ASSUME FitsInv, EyesInv', NEW a \in Actors, Evict(a) \/ UnloadPrey(a) \/ Load(a)
    PROVE  FitsInv'
<1>1. Types /\ pc[a] \in {"evict", "unload", "load"} /\ EyesInv
  BY DEF FitsInv, EyesInv, Evict, UnloadPrey, Load, At
<1>2. /\ \A b \in Actors \ {a} : pc'[b] = pc[b] /\ want'[b] = want[b] /\ prey'[b] = prey[b]
      /\ want'[a] = want[a] /\ UNCHANGED history
  BY <1>1 DEF Evict, UnloadPrey, Load, Goto, GoOn, Types
<1>3. /\ basis' \in [Actors -> Nat] /\ overtaken' \in [Actors -> BOOLEAN]
      /\ \A b \in Actors : basis'[b] = basis[b] /\ overtaken'[b] = overtaken[b]
  BY <1>2 DEF FitsInv, history
<1>4. basis[a] \in Nat /\ Usable \in Nat /\ slot \in [Runtimes -> Entries] /\ Nothing \in Entries
  BY <1>1, ModelsAssumption DEF FitsInv, Types, Entries
<1>5. want[a] \in Models /\ Vram[want[a]] \in Nat /\ RuntimeOf[want[a]] \in Runtimes
  BY <1>1, Wanted
<1>6. Used(slot) \in Nat  BY <1>4, <1>5, Ledger
<1>7. SUFFICES Emptied /\ (Planned(a)' => Room(a)')
  BY <1>2, <1>3, FitsStays
<1>8. Planned(a)' => Room(a)
  BY <1>1, <1>3 DEF FitsInv, RoomForAll, Planned, OnItsWay
<1>9. CASE Evict(a)
  <2>1. slot' = slot /\ pc[a] = "evict"  BY <1>9 DEF Evict, At
  <2>2. CASE slot[RuntimeOf[prey[a]]] = prey[a]
    <3>1. pc'[a] = "unload" /\ prey'[a] = prey[a]
      BY <1>1, <1>9, <2>2 DEF Evict, Goto, Types
    <3>2. Room(a) => Room(a)'
      BY <1>2, <1>3, <2>1, <3>1 DEF Room, Limit
    <3>3. QED  BY <1>8, <2>1, <3>2 DEF Emptied
  <2>3. CASE slot[RuntimeOf[prey[a]]] # prey[a]
    <3>1. pc'[a] = "load"  BY <1>1, <1>9, <2>3 DEF Evict, GoOn, Types
    <3>2. Room(a) => Used(slot) + Vram[want[a]] <= Limit(a)
      BY <1>4, <1>5, <1>6, <2>1, <2>3 DEF Room, Limit
    <3>3. Room(a) => Room(a)'
      BY <1>2, <1>3, <2>1, <3>1, <3>2 DEF Room, Limit
    <3>4. QED  BY <1>8, <2>1, <3>3 DEF Emptied
  <2>4. QED  BY <2>2, <2>3
<1>10. CASE UnloadPrey(a)
  <2>1. pc[a] = "unload" /\ pc'[a] = "load" /\ Unload(prey[a])
    BY <1>1, <1>10 DEF UnloadPrey, GoOn, At, Types
  <2>2. CASE prey[a] \in Models
    <3> DEFINE v == prey[a]
               r == RuntimeOf[v]
               x == IF slot[r] = v THEN Nothing ELSE slot[r]
    <3>1. v \in Models /\ Vram[v] \in Nat /\ r \in Runtimes /\ v # Nothing
      BY <2>2, ModelsAssumption
    <3>2. slot' = [slot EXCEPT ![r] = x] /\ x \in Entries
      BY <1>1, <1>4, <2>1, <3>1, UnloadEmpties
    <3>3. Emptied  BY <1>4, <3>1, <3>2 DEF Emptied
    <3> HIDE DEF x
    <3>4. /\ Used(slot) \in Nat /\ Used(slot') \in Nat /\ Used(slot) >= Charge(slot)[r]
          /\ Used(slot') = Used(slot) - Charge(slot)[r]
                           + (IF x = Nothing THEN 0 ELSE Vram[x])
      BY <1>4, <3>1, <3>2, Ledger
    <3>5. Charge(slot)[r] = IF slot[r] = Nothing THEN 0 ELSE Vram[slot[r]]
      BY <3>1 DEF Charge
    <3>6. Charge(slot)[r] \in Nat
      BY <1>4, <3>1, <3>5, ModelsAssumption DEF Entries
    <3>7. Used(slot') = IF slot[r] = v THEN Used(slot) - Vram[v] ELSE Used(slot)
      <4>1. CASE slot[r] = v
        <5>1. x = Nothing /\ Charge(slot)[r] = Vram[v]  BY <3>1, <3>5, <4>1 DEF x
        <5>2. QED  BY <3>1, <3>4, <4>1, <5>1
      <4>2. CASE slot[r] # v
        <5>1. Charge(slot)[r] = IF x = Nothing THEN 0 ELSE Vram[x]  BY <3>5, <4>2 DEF x
        <5>2. QED  BY <3>4, <3>6, <4>2, <5>1
      <4>3. QED  BY <4>1, <4>2
    <3>8. Room(a) => Used(slot') + Vram[want[a]] <= Limit(a)
      BY <1>4, <1>5, <1>6, <2>1, <3>1, <3>7 DEF Room, Limit
    <3>9. Room(a) => Room(a)'
      BY <1>2, <1>3, <2>1, <3>8 DEF Room, Limit
    <3>10. QED  BY <1>8, <3>3, <3>9
  <2>3. CASE prey[a] \notin Models
    <3>1. ~Room(a)  BY <2>1, <2>3 DEF Room
    <3>2. prey[a] = Nothing  BY <1>1, <2>3 DEF Types, Entries
    <3>3. slot' = slot  BY <1>4, <2>1, <3>2 DEF Unload
    <3>4. QED  BY <1>8, <3>1, <3>3 DEF Emptied
  <2>4. QED  BY <2>2, <2>3
<1>11. CASE Load(a)
  <2>1. pc[a] = "load" /\ pc'[a] = "landing" /\ prey'[a] = prey[a]
    BY <1>1, <1>11 DEF Load, Goto, At, Types
  <2>2. slot' = slot \/ slot' = [slot EXCEPT ![RuntimeOf[want[a]]] = Nothing]
    BY <1>11 DEF Load
  <2>3. Emptied  BY <1>5, <2>2 DEF Emptied
  <2>4. Used(slot') \in Nat /\ Used(slot') <= Used(slot)
    <3>1. CASE slot' = slot  BY <1>6, <3>1
    <3>2. CASE slot' = [slot EXCEPT ![RuntimeOf[want[a]]] = Nothing]
      <4> DEFINE r == RuntimeOf[want[a]]
      <4>1. /\ Used(slot') \in Nat /\ Used(slot) >= Charge(slot)[r]
            /\ Used(slot') = Used(slot) - Charge(slot)[r]
                             + (IF Nothing = Nothing THEN 0 ELSE Vram[Nothing])
        BY <1>4, <1>5, <3>2, Ledger
      <4>2. Charge(slot)[r] \in Nat
        BY <1>4, <1>5, ModelsAssumption DEF Charge, Entries
      <4>3. QED  BY <1>6, <4>1, <4>2
    <3>3. QED  BY <2>2, <3>1, <3>2
  <2>5. Room(a) => Used(slot') + Vram[want[a]] <= Limit(a)
    BY <1>4, <1>5, <1>6, <2>1, <2>4 DEF Room, Limit
  <2>6. Room(a) => Room(a)'
    BY <1>2, <1>3, <2>1, <2>5 DEF Room, Limit
  <2>7. QED  BY <1>8, <2>3, <2>6
<1>12. QED  BY <1>9, <1>10, <1>11

\* A model that lands overtakes every plan under way.
LEMMA LandFits ==
    ASSUME FitsInv, EyesInv', NEW a \in Actors, Land(a)
    PROVE  FitsInv'
<1>1. Types /\ pc' = [pc EXCEPT ![a] = "pin"]
  BY DEF FitsInv, EyesInv, Land, Goto
<1>2. basis' \in [Actors -> Nat] /\ overtaken' \in [Actors -> BOOLEAN]
      /\ \A b \in Actors : overtaken'[b] <=> b # a /\ (overtaken[b] \/ pc[b] \in OnItsWay)
  BY <1>1 DEF FitsInv, Land
<1>3. \A b \in Actors : ~Planned(b)'
  BY <1>1, <1>2 DEF Planned, OnItsWay, Types
<1>4. QED  BY <1>2, <1>3 DEF FitsInv, RoomForAll

\* A step of an actor that has no plan under way after it, or none that counts.
LEMMA OtherSteps ==
    ASSUME FitsInv, EyesInv', NEW a \in Actors, Emptied,
           \E label \in {"idle", "plan", "pin", "body", "over", "starting", "held",
                         "release", "drop"} : \E m, v : Moves(a, label, m, v),
           UNCHANGED history \/ Forget(a)
    PROVE  FitsInv'
<1>1. Types  BY DEF FitsInv, EyesInv
<1>2. \A b \in Actors \ {a} :
        /\ pc'[b] = pc[b] /\ want'[b] = want[b] /\ prey'[b] = prey[b]
        /\ basis'[b] = basis[b] /\ overtaken'[b] = overtaken[b]
  BY <1>1 DEF Moves, Types, Forget, FitsInv, history
<1>3. basis' \in [Actors -> Nat] /\ overtaken' \in [Actors -> BOOLEAN]
  <2>1. CASE UNCHANGED history  BY <2>1 DEF FitsInv, history
  <2>2. CASE Forget(a)  BY <2>2 DEF FitsInv, Forget
  <2>3. QED  BY <2>1, <2>2
<1>4. ~Planned(a)'
  BY <1>1 DEF Moves, Types, Planned, OnItsWay
<1>5. QED  BY <1>2, <1>3, <1>4, FitsStays

\* Every step keeps the room of the plans under way.
LEMMA NextFits == FitsInv /\ [Next]_vars => FitsInv'
<1> SUFFICES ASSUME FitsInv, [Next]_vars PROVE FitsInv'  OBVIOUS
<1>1. EyesInv'  BY NextEyes DEF FitsInv
<1>2. Types /\ Engine \in Actors /\ \A c \in Callers : c \in Actors
  BY DEF FitsInv, EyesInv, Actors
<1>3. slot \in [Runtimes -> Entries] /\ (slot' = slot => Emptied)
  BY <1>2 DEF Types, Emptied
<1>4. \A m \in Models : Unload(m) => Emptied
  <2> SUFFICES ASSUME NEW m \in Models, Unload(m) PROVE Emptied  OBVIOUS
  <2>1. RuntimeOf[m] \in Runtimes  BY ModelsAssumption
  <2>2. slot' = [slot EXCEPT ![RuntimeOf[m]] =
                    IF slot[RuntimeOf[m]] = m THEN Nothing ELSE slot[RuntimeOf[m]]]
    BY <1>2, UnloadEmpties
  <2>3. CASE slot[RuntimeOf[m]] = m  BY <2>1, <2>2, <2>3 DEF Emptied
  <2>4. CASE slot[RuntimeOf[m]] # m
    <3>1. slot' = slot  BY <1>3, <2>1, <2>2, <2>4
    <3>2. QED  BY <1>3, <3>1
  <2>5. QED  BY <2>3, <2>4
<1> DEFINE Quiet(a) == \E label \in {"idle", "plan", "pin", "body", "over", "starting", "held",
                                     "release", "drop"} : \E m, v : Moves(a, label, m, v)
<1>5. \A a \in Actors : \A label \in {"pin", "body", "over", "starting", "held", "release",
                                      "drop"} :
        Goto(a, label) => Quiet(a)
  BY <1>2, WaysOn
<1>6. \A a \in Actors : Idle(a) => Quiet(a)
  BY <1>2, WaysOn
<1>7. \A a \in Actors : Emptied /\ Quiet(a) /\ (UNCHANGED history \/ Forget(a)) => FitsInv'
  BY <1>1, OtherSteps
<1> HIDE DEF Quiet
<1>8. ASSUME NEW a \in Actors, Places(a)  PROVE FitsInv'
  <2>1. CASE LoadFails(a)
    <3>1. Emptied /\ Forget(a) /\ (Goto(a, "over") \/ Idle(a))
      BY <1>3, <2>1 DEF LoadFails, GiveUp
    <3>2. QED  BY <1>5, <1>6, <1>7, <3>1
  <2>2. QED  BY <1>1, <1>8, <2>1, PlansFit, GoesOnFits, LandFits DEF Places
<1>9. ASSUME NEW m \in Models, NEW isAgent \in BOOLEAN, Pick(m, isAgent)  PROVE FitsInv'
  <2>1. slot' = slot /\ Moves(Engine, "plan", m, prey[Engine]) /\ UNCHANGED history
    BY <1>2, <1>9 DEF Pick, Moves, Types, gpu
  <2>2. QED  BY <1>2, <1>3, <1>7, <2>1 DEF Quiet
<1>10. CASE Start \/ BodyEnds \/ Bail
  <2>1. /\ slot' = slot /\ (Goto(Engine, "body") \/ Goto(Engine, "over"))
        /\ UNCHANGED history \/ Forget(Engine)
    BY <1>10 DEF Start, BodyEnds, Bail, gpu
  <2>2. QED  BY <1>2, <1>3, <1>5, <1>7, <2>1
<1>11. CASE Over
  <2>1. Released /\ Idle(Engine) /\ UNCHANGED history /\ want[Engine] \in Models
    BY <1>2, <1>11, Wanted DEF Over, At, FitsInv
  <2>2. slot' = slot \/ Unload(want[Engine])  BY <2>1 DEF Released
  <2>3. QED  BY <1>2, <1>3, <1>4, <1>6, <1>7, <2>1, <2>2
<1>12. ASSUME NEW c \in Callers, Hold(c) \/ Started(c) \/ StartFails(c) \/ Release(c) \/ Stop(c)
       PROVE  FitsInv'
  <2>1. slot' = slot /\ UNCHANGED history
    BY <1>12 DEF Hold, Started, StartFails, Release, Stop, gpu
  <2>2. \/ Idle(c)
        \/ \E label \in {"starting", "held", "release", "drop"} : Goto(c, label)
    BY <1>12 DEF Hold, Started, StartFails, Release, Stop
  <2>3. QED  BY <1>2, <1>3, <1>5, <1>6, <1>7, <2>1, <2>2
<1>13. ASSUME NEW c \in Callers, Drop(c)  PROVE FitsInv'
  <2>1. Unload(want[c]) /\ Idle(c) /\ UNCHANGED history /\ want[c] \in Models
    BY <1>2, <1>13, Wanted DEF Drop, At, FitsInv
  <2>2. QED  BY <1>2, <1>4, <1>6, <1>7, <2>1
<1>14. ASSUME NEW c \in Callers, NEW m \in Coding, Ask(c, m)  PROVE FitsInv'
  <2>1. slot' = slot /\ Moves(c, "plan", m, prey[c]) /\ UNCHANGED history
    BY <1>2, <1>14 DEF Ask, Moves, Types, gpu
  <2>2. QED  BY <1>2, <1>3, <1>7, <2>1 DEF Quiet
<1>15. ASSUME Emptied, UNCHANGED <<actor, history>>  PROVE FitsInv'
  <2>1. \A b \in Actors : /\ pc'[b] = pc[b] /\ want'[b] = want[b] /\ prey'[b] = prey[b]
                          /\ basis'[b] = basis[b] /\ overtaken'[b] = overtaken[b]
    BY <1>15 DEF actor, history
  <2>2. basis' \in [Actors -> Nat] /\ overtaken' \in [Actors -> BOOLEAN]
    BY <1>15 DEF history, FitsInv
  <2>3. Planned(Engine)' => Planned(Engine)  BY <1>2, <2>1 DEF Planned
  <2>4. Planned(Engine)' => Room(Engine)'  BY <1>2, <1>15, <2>1, <2>3, RoomStays
  <2>5. QED  BY <1>1, <1>2, <1>15, <2>1, <2>2, <2>4, FitsStays
<1>16. CASE \E m \in Models : UserUnloads(m)
  BY <1>4, <1>15, <1>16 DEF UserUnloads
<1>17. CASE UNCHANGED vars
  BY <1>3, <1>15, <1>17 DEF vars, gpu
<1>18. QED
  BY <1>2, <1>8, <1>9, <1>10, <1>11, <1>12, <1>13, <1>14, <1>16, <1>17 DEF Next, Drives, CallerStep

\* The invariant holds in every state.
LEMMA FitsHolds == Spec => []FitsInv
<1>1. Init => FitsInv
  <2> SUFFICES ASSUME Init PROVE FitsInv  OBVIOUS
  <2>1. EyesInv
    BY Roles, ModelsAssumption DEF Init, EyesInv, Types, Home, Wants, Eyes, Entries, Actors
  <2>2. QED  BY <2>1 DEF Init, FitsInv, RoomForAll, Planned, OnItsWay
<1>2. QED  BY <1>1, NextFits, PTL DEF Spec

\* A model that lands as it was planned fits: the card then holds no more than it can, or
\* than it held when the plan was made, whatever was swapped, evicted or unloaded meanwhile.
THEOREM LoadsFitTheCard == Spec => LoadsFit
<1> DEFINE Fit == \A a \in Actors :
        At(a, "landing") /\ pc'[a] = "pin" /\ ~overtaken[a]
            => \/ Used(slot') <= Usable
               \/ Used(slot') <= basis[a]
<1>1. FitsInv /\ [Next]_vars => [Fit]_vars
  <2> SUFFICES ASSUME FitsInv, Next, NEW a \in Actors,
                      pc[a] = "landing", pc'[a] = "pin", ~overtaken[a]
      PROVE  Used(slot') <= Usable \/ Used(slot') <= basis[a]
    BY DEF At
  <2>1. Types /\ EyesInv  BY DEF FitsInv, EyesInv
  <2>2. Land(a)
    BY <2>1, Roles
    DEF Next, Drives, CallerStep, Places, Types, Pick, Bail, Stop, Ask, UserUnloads, MakePlan,
        Decide, Evict, UnloadPrey, Load, Land, LoadFails, GiveUp, Start, BodyEnds, Over, Hold, Started,
        StartFails, Release, Drop, At, Goto, Idle, GoOn, actor, Actors
  <2> DEFINE r == RuntimeOf[want[a]]
  <2>3. want[a] \in Models /\ Vram[want[a]] \in Nat /\ r \in Runtimes /\ want[a] # Nothing
    BY <2>1, Wanted, ModelsAssumption
  <2>4. slot' = [slot EXCEPT ![r] = want[a]]  BY <2>2 DEF Land
  <2>5. slot \in [Runtimes -> Entries] /\ want[a] \in Entries
    BY <2>1, <2>3 DEF Types, Entries
  <2>6. /\ Used(slot) \in Nat /\ Used(slot') \in Nat /\ Used(slot) >= Charge(slot)[r]
        /\ Used(slot') = Used(slot) - Charge(slot)[r]
                         + (IF want[a] = Nothing THEN 0 ELSE Vram[want[a]])
    BY <2>3, <2>4, <2>5, Ledger
  <2>7. Charge(slot)[r] \in Nat
    BY <2>3, <2>5, ModelsAssumption DEF Charge, Entries
  <2>8. Used(slot) + Vram[want[a]] <= Limit(a)
    BY DEF FitsInv, RoomForAll, Planned, OnItsWay, Room
  <2>9. basis[a] \in Nat /\ Usable \in Nat  BY ModelsAssumption DEF FitsInv
  <2>10. QED  BY <2>3, <2>6, <2>7, <2>8, <2>9 DEF Limit
<1>2. QED  BY <1>1, FitsHolds, PTL DEF Spec, LoadsFit

\* The ledger keeps its types for any runtimes, models, sessions and launches: the VRAM that
\* plans were made on is a number.
THEOREM TypeCorrect == Spec => []TypeOK
<1> DEFINE Rest == /\ pinned \subseteq Models /\ op \in Actors \cup {Nothing}
                   /\ agent \in BOOLEAN /\ active \in Launches \cup {Nothing}
<1>1. Init => Rest  BY DEF Init
<1>2. FitsInv /\ Rest /\ [Next]_vars => Rest'
  <2> SUFFICES ASSUME FitsInv, Rest, [Next]_vars PROVE Rest'  OBVIOUS
  <2>1. EyesInv /\ Engine \in Actors /\ \A c \in Callers : c \in Actors
    BY DEF FitsInv, Actors
  <2>2. \A a \in Actors : pc[a] # "idle" => want[a] \in Models
    BY <2>1, Wanted
  <2>3. ASSUME NEW a \in Actors, Places(a)  PROVE Rest'
    BY <2>3 DEF Places, MakePlan, Evict, UnloadPrey, Load, Land, LoadFails, Unlock, gpu
  <2>4. CASE Start \/ BodyEnds \/ Over \/ Bail
    BY <2>1, <2>2, <2>4
    DEF Start, BodyEnds, Over, Bail, Released, At, gpu
  <2>5. ASSUME NEW m \in Models, NEW isAgent \in BOOLEAN, Pick(m, isAgent)  PROVE Rest'
    BY <2>5 DEF Pick, gpu
  <2>6. ASSUME NEW c \in Callers,
               \/ Hold(c) \/ Started(c) \/ StartFails(c) \/ Release(c) \/ Drop(c) \/ Stop(c)
               \/ \E m \in Coding : Ask(c, m)
        PROVE  Rest'
    BY <2>1, <2>2, <2>6
    DEF Hold, Started, StartFails, Release, Drop, Stop, Ask, At, gpu
  <2>7. CASE \E m \in Models : UserUnloads(m)  BY <2>7 DEF UserUnloads
  <2>8. CASE UNCHANGED vars  BY <2>8 DEF vars, gpu
  <2>9. QED
    BY <2>1, <2>3, <2>4, <2>5, <2>6, <2>7, <2>8 DEF Next, Drives, CallerStep
<1>3. FitsInv /\ Rest => TypeOK
  BY DEF FitsInv, EyesInv, Types, TypeOK
<1>4. QED  BY <1>1, <1>2, <1>3, FitsHolds, PTL DEF Spec

-------------------------------------------------------------------------------
(* The sidecar of the captioners and of narration: any calls, abandoned anywhere *)

\* A call has a line in a pipe.
Asked(c) == \E i \in DOMAIN stdin : stdin[i] = c
Told(c) == \E i \in DOMAIN stdout : stdout[i].of = c

\* Whoever reads is at the head of the lock's queue, so nobody else does.
HeadReads == \A c \in Calls : stage[c] = "reading" => Holds(c)

\* A call has one line at most, and only from its write on.
OneLine == \A c \in Calls :
    /\ Asked(c) \/ Told(c) => stage[c] \in {"reading", "dropped", "failed"}
    /\ ~(Asked(c) /\ Told(c))
    /\ \A i, j \in DOMAIN stdin : stdin[i] = c /\ stdin[j] = c => i = j
    /\ \A i, j \in DOMAIN stdout : stdout[i].of = c /\ stdout[j].of = c => i = j

\* While a call reads nobody writes: its request is the last of all, and after its answer
\* the sidecar has nothing to do that could load an engine.
LastLine == \A c \in Calls : stage[c] = "reading" =>
    /\ \A i \in DOMAIN stdin : stdin[i] = c => i = Len(stdin)
    /\ Told(c) => stdin = <<>> /\ (kind[c] = "unload" => ~held)

Piped == SidecarTypeOK /\ HeadReads /\ OneLine /\ LastLine

\* Leaving takes only the call itself out of the queue.
LEMMA LeavesQueue ==
    ASSUME NEW q \in Seq(Calls), NEW c
    PROVE  /\ RemoveFirst(q, c) \in Seq(Calls)
           /\ q # <<>> /\ Head(q) # c =>
                RemoveFirst(q, c) # <<>> /\ Head(RemoveFirst(q, c)) = Head(q)
<1> DEFINE I == {i \in 1 .. Len(q) : q[i] = c}
<1> SUFFICES ASSUME I # {}
    PROVE  /\ RemoveFirst(q, c) \in Seq(Calls)
           /\ q # <<>> /\ Head(q) # c =>
                RemoveFirst(q, c) # <<>> /\ Head(RemoveFirst(q, c)) = Head(q)
  BY DEF RemoveFirst
<1>1. I \subseteq Nat  OBVIOUS
<1>2. PICK n \in I : \A k \in I : n <= k
  <2> HIDE DEF I
  <2>1. QED  BY <1>1, LeastNumber
<1>3. PICK m \in I : m = Min(I)
  <2> HIDE DEF I
  <2>1. Min(I) \in I  BY <1>2 DEF Min
  <2>2. QED  BY <2>1
<1>4. m \in 1 .. Len(q) /\ q[m] = c  OBVIOUS
<1>5. RemoveFirst(q, c) = SubSeq(q, 1, m - 1) \o SubSeq(q, m + 1, Len(q))
  BY <1>3 DEF RemoveFirst, SelectInSeq, RemoveAt
<1>6. q # <<>> /\ Head(q) # c =>
        SubSeq(q, 1, m - 1) # <<>> /\ SubSeq(q, 1, m - 1)[1] = q[1]
  BY <1>4
<1>7. \A a, b \in Seq(Calls) :
        a \o b \in Seq(Calls) /\ (a # <<>> => a \o b # <<>> /\ Head(a \o b) = a[1])
  OBVIOUS
<1>8. PICK a, b \in Seq(Calls) : a = SubSeq(q, 1, m - 1) /\ b = SubSeq(q, m + 1, Len(q))
  <2>1. SubSeq(q, 1, m - 1) \in Seq(Calls) /\ SubSeq(q, m + 1, Len(q)) \in Seq(Calls)
    BY <1>4
  <2>2. QED  BY <2>1, Zenon
<1>9. q # <<>> /\ Head(q) # c => a # <<>> /\ a[1] = Head(q)
  BY <1>6, <1>8
<1>10. RemoveFirst(q, c) = a \o b  BY <1>5, <1>8
<1>11. QED  BY <1>7, <1>9, <1>10

\* The invariant holds before anybody asks.
LEMMA PipedInit == SidecarInit => Piped
<1> SUFFICES ASSUME SidecarInit PROVE Piped  OBVIOUS
<1>1. SidecarTypeOK
  <2>1. served \subseteq Kinds  BY DEF SidecarInit, Kinds
  <2>2. kind \in [Calls -> Kinds]  BY <2>1 DEF SidecarInit
  <2>3. queue \in Seq(Calls) /\ stdin \in Seq(Calls \cup {NoCall})
        /\ stdout \in Seq(Answers)
    BY DEF SidecarInit
  <2>4. QED  BY <2>2, <2>3 DEF SidecarInit, SidecarTypeOK, PCs
<1>2. HeadReads /\ OneLine /\ LastLine
  BY DEF SidecarInit, HeadReads, OneLine, LastLine, Asked, Told
<1>3. QED  BY <1>1, <1>2 DEF Piped

\* A call that comes nearer to the mutex, or fails to spawn, has no line to move.
LEMMA ComesNearer ==
    ASSUME Piped, NEW c \in Calls, NEW next \in PCs \ {"reading"},
           stage[c] \notin {"reading", "dropped", "failed"},
           stage' = [stage EXCEPT ![c] = next],
           queue' = queue \/ queue' = Append(queue, c),
           process' \in {"none", "up", "dead"},
           UNCHANGED <<served, kind, stdin, torn, stdout, held>>
    PROVE  Piped'
<1>1. SidecarTypeOK'
  <2>1. queue \in Seq(Calls)  BY DEF Piped, SidecarTypeOK
  <2>2. Append(queue, c) \in Seq(Calls)  BY <2>1
  <2>3. QED  BY <2>1, <2>2 DEF Piped, SidecarTypeOK
<1>2. \A d \in Calls : d # c => stage'[d] = stage[d]
  BY DEF Piped, SidecarTypeOK
<1>3. stage'[c] # "reading"
  BY DEF Piped, SidecarTypeOK
<1>4. queue # <<>> => queue' # <<>> /\ Head(queue') = Head(queue)
  BY DEF Piped, SidecarTypeOK
<1>5. HeadReads'
  BY <1>2, <1>3, <1>4 DEF Piped, HeadReads, Holds
<1>6. ~Asked(c) /\ ~Told(c)
  BY DEF Piped, OneLine
<1>7. OneLine' /\ LastLine'
  BY <1>2, <1>3, <1>6 DEF Piped, OneLine, LastLine, Asked, Told
<1>8. QED  BY <1>1, <1>5, <1>7 DEF Piped

\* What a reader or a drop makes of the answers: each that is still there was there.
Thinned == \E k \in {0, 1} : \A i \in DOMAIN stdout' :
    \/ stdout'[i] = Garbage
    \/ i + k \in DOMAIN stdout /\ stdout'[i] = stdout[i + k]

\* All answers stay, the first one is read, or it is left torn.
LEMMA Thinning ==
    ASSUME stdout \in Seq(Answers),
           \/ stdout' = stdout
           \/ stdout # <<>> /\ stdout' = Tail(stdout)
           \/ stdout # <<>> /\ stdout' = <<Garbage>> \o Tail(stdout)
    PROVE  stdout' \in Seq(Answers) /\ Thinned
<1>1. Garbage \in Answers  BY DEF Garbage, Answers
<1> HIDE DEF Garbage, Answers
<1>2. CASE stdout' = stdout
  <2>1. \A i \in DOMAIN stdout' : i + 0 \in DOMAIN stdout /\ stdout'[i] = stdout[i + 0]
    BY <1>2
  <2>2. QED  BY <1>2, <2>1 DEF Thinned
<1>3. CASE stdout # <<>> /\ stdout' = Tail(stdout)
  <2>1. \A i \in DOMAIN stdout' : i + 1 \in DOMAIN stdout /\ stdout'[i] = stdout[i + 1]
    BY <1>3
  <2>2. QED  BY <1>3, <2>1 DEF Thinned
<1>4. CASE stdout # <<>> /\ stdout' = <<Garbage>> \o Tail(stdout)
  <2>1. stdout' \in Seq(Answers)  BY <1>1, <1>4
  <2>2. \A i \in DOMAIN stdout' :
            \/ stdout'[i] = Garbage
            \/ i + 0 \in DOMAIN stdout /\ stdout'[i] = stdout[i + 0]
    BY <1>1, <1>4
  <2>3. QED  BY <2>1, <2>2 DEF Thinned
<1>5. QED  BY <1>2, <1>3, <1>4

\* A call that leaves, and takes at most the first answer with it; answered, its own.
LEMMA Leaves ==
    ASSUME Piped, NEW c \in Calls, NEW how \in Ended,
           Leave(c, how),
           how = "answered" =>
               ~Asked(c) /\ \A i \in DOMAIN stdout' : stdout'[i].of # c,
           Asked(c) \/ Told(c) => stage[c] \in {"reading", "dropped", "failed"},
           stdout' \in Seq(Answers), Thinned, torn' \in BOOLEAN,
           UNCHANGED <<served, kind, process, stdin, held>>
    PROVE  Piped'
<1>1. RemoveFirst(queue, c) \in Seq(Calls)
  BY LeavesQueue DEF Piped, SidecarTypeOK
<1>2. SidecarTypeOK'
  BY <1>1 DEF Piped, SidecarTypeOK, Leave, PCs, Ended
<1>3. \A d \in Calls : d # c => stage'[d] = stage[d]
  BY DEF Piped, SidecarTypeOK, Leave
<1>4. stage'[c] = how
  BY DEF Piped, SidecarTypeOK, Leave
<1>5. HeadReads'
  <2> SUFFICES ASSUME NEW d \in Calls, stage'[d] = "reading" PROVE Holds(d)'
    BY DEF HeadReads
  <2>1. d # c  BY <1>4 DEF Ended
  <2>2. queue # <<>> /\ Head(queue) = d
    BY <1>3, <2>1 DEF Piped, HeadReads, Holds
  <2>3. QED
    BY <2>1, <2>2, LeavesQueue DEF Piped, SidecarTypeOK, Leave, Holds
<1>6. PICK k \in {0, 1} : \A i \in DOMAIN stdout' :
          \/ stdout'[i] = Garbage
          \/ i + k \in DOMAIN stdout /\ stdout'[i] = stdout[i + k]
  BY DEF Thinned
<1>7. \A d \in Calls : \A i \in DOMAIN stdout' : stdout'[i].of = d =>
          i + k \in DOMAIN stdout /\ stdout[i + k].of = d
  BY SidecarAssumption, <1>6 DEF Garbage
<1>8. \A d \in Calls : /\ Told(d)' => Told(d)
                       /\ Asked(d)' <=> Asked(d)
  BY <1>7 DEF Told, Asked
<1>9. OneLine'
  <2> SUFFICES ASSUME NEW d \in Calls
      PROVE  /\ Asked(d)' \/ Told(d)' => stage'[d] \in {"reading", "dropped", "failed"}
             /\ ~(Asked(d)' /\ Told(d)')
             /\ \A i, j \in DOMAIN stdin : stdin[i] = d /\ stdin[j] = d => i = j
             /\ \A i, j \in DOMAIN stdout' :
                    stdout'[i].of = d /\ stdout'[j].of = d => i = j
    BY DEF OneLine
  <2>1. Asked(d)' \/ Told(d)' => stage'[d] \in {"reading", "dropped", "failed"}
    <3>1. CASE d # c  BY <1>3, <1>8, <3>1 DEF Piped, OneLine
    <3>2. CASE d = c /\ how = "answered"  BY <1>8, <3>2 DEF Told
    <3>3. CASE d = c /\ how # "answered"  BY <1>4, <3>3 DEF Ended
    <3>4. QED  BY <3>1, <3>2, <3>3
  <2>2. \A i, j \in DOMAIN stdout' : stdout'[i].of = d /\ stdout'[j].of = d => i = j
    <3> SUFFICES ASSUME NEW i \in DOMAIN stdout', NEW j \in DOMAIN stdout',
                        stdout'[i].of = d, stdout'[j].of = d
        PROVE i = j
      OBVIOUS
    <3>1. i + k = j + k  BY <1>7 DEF Piped, OneLine
    <3>2. i \in Nat /\ j \in Nat  OBVIOUS
    <3>3. QED  BY <3>1, <3>2
  <2>3. QED  BY <1>8, <2>1, <2>2 DEF Piped, OneLine
<1>10. LastLine'
  <2> SUFFICES ASSUME NEW d \in Calls, stage'[d] = "reading"
      PROVE  /\ \A i \in DOMAIN stdin : stdin[i] = d => i = Len(stdin)
             /\ Told(d)' => stdin = <<>> /\ (kind[d] = "unload" => ~held)
    BY DEF LastLine
  <2>1. stage[d] = "reading"  BY <1>3, <1>4 DEF Ended
  <2>2. QED  BY <1>8, <2>1 DEF Piped, LastLine
<1>11. QED  BY <1>2, <1>5, <1>9, <1>10 DEF Piped

\* The holder of the mutex writes its line behind all others.
LEMMA WritesLast ==
    ASSUME Piped, NEW c \in Calls, Write(c)
    PROVE  Piped'
<1> DEFINE line == IF torn THEN NoCall ELSE c
<1>1. stdin' = Append(stdin, line) /\ line \in Calls \cup {NoCall}
  BY DEF Write
<1>2. SidecarTypeOK'
  <2>1. stdin' \in Seq(Calls \cup {NoCall})  BY <1>1 DEF Piped, SidecarTypeOK
  <2>2. QED  BY <2>1 DEF Piped, SidecarTypeOK, Write, PCs
<1>3. \A d \in Calls : d # c => stage'[d] = stage[d] /\ stage[d] # "reading"
  BY DEF Piped, SidecarTypeOK, Write, HeadReads, Holds
<1>4. stage'[c] = "reading" /\ ~Asked(c) /\ ~Told(c)
  BY DEF Piped, SidecarTypeOK, Write, OneLine
<1>5. HeadReads'
  BY <1>3, <1>4 DEF Write, HeadReads, Holds
<1>6. \A i \in DOMAIN stdin' :
        IF i \in DOMAIN stdin THEN stdin'[i] = stdin[i] ELSE i = Len(stdin') /\ stdin'[i] = line
  BY <1>1 DEF Piped, SidecarTypeOK
<1> HIDE DEF line
<1>7. line \notin Calls \ {c}  BY SidecarAssumption DEF line
<1>8. \A d \in Calls :
        /\ Told(d)' <=> Told(d)
        /\ d # c => (Asked(d)' => Asked(d))
  BY <1>6, <1>7 DEF Write, Told, Asked
<1>9. \A d \in Calls, i \in DOMAIN stdin' :
        stdin'[i] = d => IF d = c THEN i = Len(stdin') ELSE i \in DOMAIN stdin /\ stdin[i] = d
  BY <1>4, <1>6, <1>7 DEF Asked
<1>10. OneLine'
  <2> SUFFICES ASSUME NEW d \in Calls
      PROVE  /\ Asked(d)' \/ Told(d)' => stage'[d] \in {"reading", "dropped", "failed"}
             /\ ~(Asked(d)' /\ Told(d)')
             /\ \A i, j \in DOMAIN stdin' : stdin'[i] = d /\ stdin'[j] = d => i = j
             /\ \A i, j \in DOMAIN stdout' :
                    stdout'[i].of = d /\ stdout'[j].of = d => i = j
    BY DEF OneLine
  <2>1. \A i, j \in DOMAIN stdin' : stdin'[i] = d /\ stdin'[j] = d => i = j
    BY <1>9 DEF Piped, OneLine
  <2>2. QED
    BY <1>3, <1>4, <1>8, <2>1 DEF Piped, OneLine, Write
<1>11. LastLine'
  <2>1. \A d \in Calls : stage'[d] = "reading" => d = c  BY <1>3
  <2>2. QED  BY <1>4, <1>8, <1>9, <2>1 DEF LastLine
<1>12. QED  BY <1>2, <1>5, <1>10, <1>11 DEF Piped

\* The sidecar answers the first request.
LEMMA Serves == ASSUME Piped, Serve PROVE Piped'
<1>1. stdin # <<>> /\ stdin' = Tail(stdin)  BY DEF Serve
<1>2. \A i \in DOMAIN stdin' : i + 1 \in DOMAIN stdin /\ stdin'[i] = stdin[i + 1]
  BY <1>1 DEF Piped, SidecarTypeOK
<1>3. \A d \in Calls : Asked(d)' => Asked(d)
  BY <1>2 DEF Asked
<1>4. stdin' \in Seq(Calls \cup {NoCall}) /\ Head(stdin) \in Calls \cup {NoCall}
  BY <1>1 DEF Piped, SidecarTypeOK
<1>5. HeadReads'
  BY DEF Piped, HeadReads, Serve, Holds
<1>6. \A d \in Calls :
        \A i, j \in DOMAIN stdin' : stdin'[i] = d /\ stdin'[j] = d => i = j
  <2> SUFFICES ASSUME NEW d \in Calls, NEW i \in DOMAIN stdin', NEW j \in DOMAIN stdin',
                      stdin'[i] = d, stdin'[j] = d
      PROVE i = j
    OBVIOUS
  <2>1. i + 1 = j + 1  BY <1>2 DEF Piped, OneLine
  <2>2. i \in Nat /\ j \in Nat  BY <1>4
  <2>3. QED  BY <2>1, <2>2
<1>7. \A d \in Calls : stage[d] = "reading" =>
        \A i \in DOMAIN stdin' : stdin'[i] = d => i = Len(stdin')
  BY <1>1, <1>2, <1>4 DEF Piped, LastLine, SidecarTypeOK
<1>8. CASE Head(stdin) = NoCall
  <2>1. UNCHANGED <<stdout, held>>  BY SidecarAssumption, <1>8 DEF Serve
  <2>2. SidecarTypeOK'  BY <1>4, <2>1 DEF Piped, SidecarTypeOK, Serve
  <2>3. OneLine'  BY <1>3, <1>6, <2>1 DEF Piped, OneLine, Serve, Told
  <2>4. LastLine'
    BY <1>1, <1>7, <2>1 DEF Piped, LastLine, Serve, Told
  <2>5. QED  BY <1>5, <2>2, <2>3, <2>4 DEF Piped
<1>9. ASSUME Head(stdin) \in Calls, NEW ok \in BOOLEAN, Handle(Head(stdin), ok)
      PROVE  Piped'
  <2> PICK c \in Calls : c = Head(stdin)  BY <1>9
  <2>1. stdin[1] = c /\ 1 \in DOMAIN stdin  BY <1>1 DEF Piped, SidecarTypeOK
  <2>2. Asked(c) /\ ~Told(c) /\ ~Asked(c)'
    <3>1. Asked(c)  BY <2>1 DEF Asked
    <3>2. ~Told(c)  BY <1>9, <3>1 DEF Piped, OneLine
    <3>3. ~Asked(c)'
      <4> SUFFICES ASSUME NEW i \in DOMAIN stdin', stdin'[i] = c PROVE FALSE  BY DEF Asked
      <4>1. i + 1 = 1  BY <1>2, <1>9, <2>1 DEF Piped, OneLine
      <4>2. i \in Nat \ {0}  BY <1>4
      <4>3. QED  BY <4>1, <4>2
    <3>4. QED  BY <3>1, <3>2, <3>3
  <2>3. stdout' = Append(stdout, [of |-> c, ok |-> ok])  BY <1>9 DEF Handle
  <2>4. [of |-> c, ok |-> ok] \in Answers  BY <1>9 DEF Answers
  <2>5. held' \in BOOLEAN  BY <1>9 DEF Handle, Piped, SidecarTypeOK
  <2>6. stdout' \in Seq(Answers)  BY <2>3, <2>4 DEF Piped, SidecarTypeOK
  <2>7. SidecarTypeOK'  BY <1>4, <2>5, <2>6 DEF Piped, SidecarTypeOK, Serve
  <2>8. \A i \in DOMAIN stdout' :
          IF i \in DOMAIN stdout THEN stdout'[i] = stdout[i]
          ELSE i = Len(stdout') /\ stdout'[i] = [of |-> c, ok |-> ok]
    BY <2>3, <2>4 DEF Piped, SidecarTypeOK
  <2>9. \A d \in Calls, i \in DOMAIN stdout' :
          stdout'[i].of = d =>
              IF d = c THEN i = Len(stdout') ELSE i \in DOMAIN stdout /\ stdout[i].of = d
    BY <2>2, <2>8 DEF Told
  <2>10. \A d \in Calls : d # c => (Told(d)' => Told(d))
    BY <2>9 DEF Told
  <2>11. OneLine'
    <3> SUFFICES ASSUME NEW d \in Calls
        PROVE  /\ Asked(d)' \/ Told(d)' => stage'[d] \in {"reading", "dropped", "failed"}
               /\ ~(Asked(d)' /\ Told(d)')
               /\ \A i, j \in DOMAIN stdin' : stdin'[i] = d /\ stdin'[j] = d => i = j
               /\ \A i, j \in DOMAIN stdout' :
                      stdout'[i].of = d /\ stdout'[j].of = d => i = j
      BY DEF OneLine
    <3>1. \A i, j \in DOMAIN stdout' : stdout'[i].of = d /\ stdout'[j].of = d => i = j
      BY <2>9 DEF Piped, OneLine
    <3>2. Asked(d)' \/ Told(d)' => stage'[d] \in {"reading", "dropped", "failed"}
      BY <1>3, <2>2, <2>10 DEF Piped, OneLine, Serve
    <3>3. ~(Asked(d)' /\ Told(d)')
      BY <1>3, <2>2, <2>10 DEF Piped, OneLine
    <3>4. QED  BY <1>6, <3>1, <3>2, <3>3
  <2>12. LastLine'
    <3> SUFFICES ASSUME NEW d \in Calls, stage[d] = "reading", Told(d)'
        PROVE  stdin' = <<>> /\ (kind[d] = "unload" => ~held')
      BY <1>7 DEF LastLine, Serve
    <3>1. d = c  BY <1>1, <2>10 DEF Piped, LastLine
    <3>2. 1 = Len(stdin)  BY <2>1, <3>1 DEF Piped, LastLine
    <3>3. stdin' = <<>>  BY <1>1, <3>2 DEF Piped, SidecarTypeOK
    <3>4. kind[d] = "unload" => ~held'  BY <1>9, <3>1 DEF Handle
    <3>5. QED  BY <3>3, <3>4
  <2>13. QED  BY <1>5, <2>7, <2>11, <2>12 DEF Piped
<1>10. QED  BY <1>8, <1>9 DEF Serve

\* A call looks for its answer: other calls' lines are passed over, its own ends it.
LEMMA Reads ==
    ASSUME Piped, NEW c \in Calls, Read(c)
    PROVE  Piped'
<1>1. stdout # <<>> /\ stdout' = Tail(stdout) /\ stage[c] = "reading"
  BY DEF Read
<1>2. stdout' \in Seq(Answers) /\ Thinned
  BY <1>1, Thinning DEF Piped, SidecarTypeOK
<1>3. CASE Head(stdout).of = NoCall
  <2>1. Leave(c, "failed")  BY SidecarAssumption, <1>3 DEF Read
  <2>2. QED
    BY <1>1, <1>2, <2>1, Leaves DEF Read, Ended, Piped, SidecarTypeOK
<1>4. CASE Head(stdout).of = c
  <2>1. PICK ok \in BOOLEAN : Leave(c, IF ok THEN "answered" ELSE "failed")
    BY <1>4 DEF Read
  <2>2. 1 \in DOMAIN stdout /\ stdout[1].of = c
    BY <1>1, <1>4 DEF Piped, SidecarTypeOK
  <2>3. ~Asked(c)  BY <2>2 DEF Piped, OneLine, Told
  <2>4. \A i \in DOMAIN stdout' : i \in Nat \ {0} /\ i + 1 \in DOMAIN stdout
                                  /\ stdout'[i] = stdout[i + 1]
    BY <1>1 DEF Piped, SidecarTypeOK
  <2>5. \A i \in DOMAIN stdout' : stdout'[i].of # c
    BY <2>2, <2>4 DEF Piped, OneLine
  <2>6. QED
    BY <1>1, <1>2, <2>1, <2>3, <2>5, Leaves DEF Read, Ended, Piped, SidecarTypeOK
<1>5. CASE Head(stdout).of \in Calls \ {c}
  <2>1. UNCHANGED <<stage, queue>>  BY SidecarAssumption, <1>5 DEF Read
  <2>2. \A i \in DOMAIN stdout' : i \in Nat /\ i + 1 \in DOMAIN stdout
                                  /\ stdout'[i] = stdout[i + 1]
    BY <1>1 DEF Piped, SidecarTypeOK
  <2>3. \A d \in Calls : Told(d)' => Told(d)
    BY <2>2 DEF Told
  <2>4. SidecarTypeOK'  BY <1>2, <2>1 DEF Piped, SidecarTypeOK, Read
  <2>5. HeadReads'  BY <2>1 DEF Piped, HeadReads, Holds
  <2>6. \A d \in Calls : \A i, j \in DOMAIN stdout' :
          stdout'[i].of = d /\ stdout'[j].of = d => i = j
    <3> SUFFICES ASSUME NEW d \in Calls, NEW i \in DOMAIN stdout', NEW j \in DOMAIN stdout',
                        stdout'[i].of = d, stdout'[j].of = d
        PROVE i = j
      OBVIOUS
    <3>1. i + 1 = j + 1  BY <2>2 DEF Piped, OneLine
    <3>2. QED  BY <2>2, <3>1
  <2>7. OneLine'  BY <2>1, <2>3, <2>6 DEF Piped, OneLine, Asked, Read
  <2>8. LastLine'  BY <2>1, <2>3 DEF Piped, LastLine, Read
  <2>9. QED  BY <2>4, <2>5, <2>7, <2>8 DEF Piped
<1>6. QED  BY <1>3, <1>4, <1>5 DEF Read

\* A call is given up wherever it waits.
LEMMA Drops ==
    ASSUME Piped, NEW c \in Calls, Abandon(c)
    PROVE  Piped'
<1>1. /\ \/ stdout' = stdout
         \/ stdout # <<>> /\ stdout' = <<Garbage>> \o Tail(stdout)
      /\ torn' \in BOOLEAN
  BY DEF Abandon, Piped, SidecarTypeOK
<1>2. stdout' \in Seq(Answers) /\ Thinned
  BY <1>1, Thinning DEF Piped, SidecarTypeOK
<1>3. Leave(c, "dropped")  BY DEF Abandon
<1>4. QED
  BY <1>1, <1>2, <1>3, Leaves DEF Abandon, Ended, Piped, OneLine

\* The process goes away with its half of the pipes.
LEMMA Dies == ASSUME Piped, Die PROVE Piped'
<1>1. stdin' = <<>> /\ ~held' /\ UNCHANGED <<served, kind, stage, queue, stdout>>
  BY DEF Die
<1>2. stdin' \in Seq(Calls \cup {NoCall})  BY <1>1
<1>3. SidecarTypeOK'  BY <1>1, <1>2 DEF Piped, SidecarTypeOK, Die
<1>4. HeadReads'  BY <1>1 DEF Piped, HeadReads, Holds
<1>5. \A d \in Calls : ~Asked(d)' /\ (Told(d)' <=> Told(d))
  BY <1>1, <1>2 DEF Asked, Told
<1>6. OneLine' /\ LastLine'
  BY <1>1, <1>5 DEF Piped, OneLine, LastLine
<1>7. QED  BY <1>3, <1>4, <1>6 DEF Piped

\* A call that stops at a pipe of a dead process.
LEMMA Fails ==
    ASSUME Piped, NEW c \in Calls,
           WriteFails(c) \/ ReadFails(c)
    PROVE  Piped'
<1>1. Leave(c, "failed") /\ UNCHANGED <<served, kind, process, stdin, torn, stdout, held>>
  BY DEF WriteFails, ReadFails
<1>2. stdout' \in Seq(Answers) /\ Thinned
  BY <1>1, Thinning DEF Piped, SidecarTypeOK
<1>3. QED
  BY <1>1, <1>2, Leaves DEF Ended, Piped, SidecarTypeOK, OneLine

\* Each step keeps the invariant.
LEMMA PipedStep ==
    ASSUME Piped, [SidecarNext]_(sidecarVars)
    PROVE  Piped'
<1>1. ASSUME NEW c \in Calls,
             Begin(c) \/ Open(c) \/ SpawnFails(c) \/ Queue(c)
      PROVE  Piped'
  <2>1. \E next \in PCs \ {"reading"} : stage' = [stage EXCEPT ![c] = next]
    BY <1>1 DEF Begin, Open, SpawnFails, Queue, PCs
  <2>2. stage[c] \notin {"reading", "dropped", "failed"}
    BY <1>1 DEF Begin, Open, SpawnFails, Queue
  <2>3. queue' = queue \/ queue' = Append(queue, c)
    BY <1>1 DEF Begin, Open, SpawnFails, Queue
  <2>4. process' \in {"none", "up", "dead"}
    BY <1>1 DEF Begin, Open, SpawnFails, Queue, Piped, SidecarTypeOK
  <2>5. UNCHANGED <<served, kind, stdin, torn, stdout, held>>
    BY <1>1 DEF Begin, Open, SpawnFails, Queue
  <2>6. QED  BY <2>1, <2>2, <2>3, <2>4, <2>5, ComesNearer
<1>2. ASSUME NEW c \in Calls, CallStep(c) PROVE Piped'
  BY <1>1, <1>2, WritesLast, Reads, Fails DEF CallStep
<1>3. CASE UNCHANGED sidecarVars
  <2>1. UNCHANGED <<served, kind, stage, process, queue, stdin, torn, stdout, held>>
    BY <1>3 DEF sidecarVars
  <2>2. SidecarTypeOK'  BY <2>1 DEF Piped, SidecarTypeOK
  <2>3. HeadReads'  BY <2>1 DEF Piped, HeadReads, Holds
  <2>4. OneLine' /\ LastLine'
    BY <2>1 DEF Piped, OneLine, LastLine, Asked, Told
  <2>5. QED  BY <2>2, <2>3, <2>4 DEF Piped
<1>4. QED  BY <1>1, <1>2, <1>3, Drops, Serves, Dies DEF SidecarNext

\* The invariant holds for ever.
LEMMA PipedHolds == SidecarSpec => []Piped
<1>1. SidecarInit => Piped  BY PipedInit
<1>2. Piped /\ [SidecarNext]_(sidecarVars) => Piped'  BY PipedStep
<1>3. QED  BY <1>1, <1>2, PTL DEF SidecarSpec

\* Whoever reads has before it only what was left behind: no line of a call that waits.
THEOREM NoAnswerIsStolen == SidecarSpec => []OnlyAbandonedAnswersWait
<1>1. Piped => OnlyAbandonedAnswersWait
  BY DEF Piped, OneLine, HeadReads, Asked, Told, OnlyAbandonedAnswersWait
<1>2. QED  BY <1>1, PipedHolds, PTL

\* An unload that says so has released the captioners.
THEOREM ReleasedIsReleased == SidecarSpec => ReleaseIsReal
<1> DEFINE Real == \A c \in Calls :
        kind[c] = "unload" /\ stage[c] = "reading" /\ stage'[c] = "answered" => ~held
<1>1. Piped /\ [SidecarNext]_(sidecarVars) => [Real]_(sidecarVars)
  <2> SUFFICES ASSUME Piped, SidecarNext, NEW c \in Calls, kind[c] = "unload",
                      stage[c] = "reading", stage'[c] = "answered"
      PROVE  ~held
    OBVIOUS
  <2>1. stage \in [Calls -> PCs]  BY DEF Piped, SidecarTypeOK
  <2>2. Read(c)
    BY <2>1 DEF SidecarNext, Begin, CallStep, Open, SpawnFails, Queue,
       Write, WriteFails, ReadFails, Abandon, Serve, Die, Leave,
       Read
  <2>3. stdout # <<>> /\ Head(stdout).of = c
    BY <2>1, <2>2 DEF Read, Leave
  <2>4. 1 \in DOMAIN stdout /\ stdout[1].of = c  BY <2>3 DEF Piped, SidecarTypeOK
  <2>5. QED  BY <2>4 DEF Piped, LastLine, Told
<1>2. QED  BY <1>1, PipedHolds, PTL DEF SidecarSpec, ReleaseIsReal

====================================================================================
