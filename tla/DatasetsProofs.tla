------------------------------- MODULE DatasetsProofs -------------------------------
(***************************************************************************)
(* Proofs about Datasets: for any number of datasets, files and requests   *)
(* no request takes a file that another dataset needs or that a            *)
(* preparation is about to use, no frame row goes before its file, and no  *)
(* preparation leaves an empty dataset.  And about FrameChoice: for any    *)
(* video, finite hash and request, what a preparation drops as a duplicate *)
(* is near the last frame that passed, its cap keeps a spread-out subset,  *)
(* and a search for duplicates keeps the sharpest of what is near.         *)
(*                                                                         *)
(* The argument about Datasets.  A preparation runs only while its dataset *)
(* has a row, and only requests that found it over may drop that row; so   *)
(* what a request learned with its busy check stays true while it works    *)
(* off its files.  An unclaimed folder has files only if its preparation   *)
(* once ran, and has no row only if it is past the point where it writes.  *)
(* A frame lies in its dataset's folder or in the folder it sources from,  *)
(* which the guard asks for.                                               *)
(*                                                                         *)
(* The argument about FrameChoice is about its recursive functions.  Each  *)
(* exists (LastKeptFollows, SelectionExists, CollectsExists), and a value  *)
(* that broke its promise would be the least one that does (LeastNumber,   *)
(* LeastSet): the last frame kept is the latest that passed                *)
(* (LatestPassed), what was chosen stays spread when the farthest of the   *)
(* rest joins (NextSpreads), and what is kept stays apart, with a keeper   *)
(* for every other one, when the next frame is visited (NextRepresents).   *)
(***************************************************************************)
EXTENDS Datasets, FrameChoice, FiniteSetTheorems, WellFoundedInduction, TLAPS

Kinds == {"none", "dataset", "frames", "dedup", "missing", "folder"}
PCs == {"idle", "others", "check", "files", "rows", "missing", "list", "offered", "tree"}

Requests == [kind : Kinds, on : Datasets \cup {User}, pc : PCs, aim : SUBSET Media,
             stay : SUBSET Media, knows : SUBSET Datasets, todo : SUBSET Media,
             gone : SUBSET Media, failed : BOOLEAN]

Typed ==
    /\ there \in SUBSET Media /\ row \in SUBSET Datasets
    /\ root \in [Datasets -> Datasets \cup {User}]
    /\ rows \in [Datasets -> SUBSET Media] /\ aside \in [Datasets -> SUBSET Media]
    /\ cand \in [Datasets -> SUBSET Media]
    /\ prep \in [Datasets -> Running \cup {"none", "over"}]
    /\ op \in [Ops -> Requests]
    /\ excused \in SUBSET Datasets

\* What holds of a dataset
Sound(d) ==
    /\ aside[d] \subseteq rows[d]
    /\ d \notin row => rows[d] = {}
    /\ prep[d] \in {"extract", "insert", "ending"} => d \in row
    /\ d \in row => prep[d] # "none"
    /\ prep[d] \in {"extract", "insert"} => cand[d] # {}
    /\ prep[d] = "none" => cand[d] = {}
    /\ prep[d] \in {"closing", "over"} /\ d \in row \ excused => rows[d] # {}
    /\ there \cap In(d) # {} => prep[d] # "none"
    /\ rows[d] \cup cand[d] \subseteq In(d) \cup In(root[d])

\* What a request that is under way knows
Knowing(o) ==
    LET r == op[o] IN
    /\ r.pc # "idle" => r.on \in Datasets
    /\ r.pc \in {"others", "check"} => r.kind \in {"dataset", "frames"}
    /\ r.pc = "files" => r.kind \in {"dataset", "frames", "folder"}
    /\ r.pc \in {"list", "offered", "tree"} => r.kind = "folder"
    /\ r.pc = "missing" => r.kind = "missing"
    /\ r.pc \in {"rows", "missing"} /\ r.kind # "dedup" => prep[r.on] \in {"closing", "over"}
    /\ r.kind \in {"dataset", "frames", "missing"} /\ r.pc \in {"files", "rows", "missing"}
         => prep[r.on] = "over"
    /\ r.pc \in {"others", "check", "offered"} => prep[r.on] # "none"
    /\ r.kind = "folder" /\ r.pc \in {"tree", "files"} => prep[r.on] \in {"closing", "over"}
    /\ \A e \in r.knows : prep[e] # "none"
    /\ r.pc \in {"others", "check"} => r.gone = {} /\ ~r.failed
    /\ r.kind = "dataset" => r.stay = {}
    /\ r.kind = "frames" => r.stay \cap r.aim = {}

\* What it has done to the files
Settled(o) ==
    LET r == op[o]
        own == r.pc \in {"files", "rows"} /\ ~Sourced(r.on, r.knows)
    IN
    /\ r.pc = "rows" /\ r.kind = "dataset" => r.todo = {}
    /\ own /\ r.kind = "dataset" /\ ~r.failed => there \cap In(r.on) \subseteq r.todo
    /\ own /\ r.kind = "frames" => there \cap In(r.on) \cap r.gone = {}
    /\ r.pc = "rows" /\ r.kind = "missing" => there \cap In(r.on) \cap r.gone = {}

IInv ==
    /\ Typed
    /\ \A d \in Datasets : Sound(d)
    /\ \A o \in Ops : Knowing(o) /\ Settled(o)

-------------------------------------------------------------------------------
(* The types *)

\* The invariant holds before the first dataset.
LEMMA InitTyped == Init => IInv
  <1> SUFFICES ASSUME Init PROVE IInv
    OBVIOUS
  <1>1. Idle \in Requests
    BY DEF Idle, Requests, Kinds, PCs
  <1>2. Typed
    BY <1>1 DEF Init, Typed, Running
  <1>3. \A d \in Datasets : Sound(d)
    BY HomeAssumption DEF Init, Sound, In
  <1>4. \A o \in Ops : Knowing(o) /\ Settled(o)
    BY DEF Init, Knowing, Settled, Idle
  <1> QED
    BY <1>2, <1>3, <1>4 DEF IInv

\* A preparation's step keeps the types
LEMMA PreparationTyped ==
  ASSUME Typed, NEW d \in Datasets, Preparation(d)
  PROVE  Typed'
  <1>1. CASE PrepRefused(d)
    BY <1>1 DEF Typed, PrepRefused, disk, table, Running
  <1>2. CASE Judge(d)
    BY <1>2 DEF Typed, Judge, disk, table, Running
  <1>3. CASE Stops(d)
    BY <1>3 DEF Typed, Stops, disk, table, Running
  <1>4. CASE Discard(d)
    BY <1>4 DEF Typed, Discard, disk, table, Running
  <1>5. CASE Done(d)
    BY <1>5 DEF Typed, Done, disk, table, Running
  <1>6. CASE JobEnds(d)
    BY <1>6 DEF Typed, JobEnds, disk, table, Running
  <1>7. ASSUME NEW r \in Datasets \cup {User}, Begin(d, r) PROVE Typed'
    BY <1>7 DEF Typed, Begin, disk, table, Running, In
  <1>8. ASSUME NEW x \in Media, Extract(d, x) PROVE Typed'
    BY <1>8 DEF Typed, Extract, disk, table, Running
  <1>9. ASSUME NEW x \in Media, NEW rejected \in BOOLEAN, Insert(d, x, rejected) PROVE Typed'
    BY <1>9 DEF Typed, Insert, disk, table, Running
  <1> QED
    BY <1>1, <1>2, <1>3, <1>4, <1>5, <1>6, <1>7, <1>8, <1>9 DEF Preparation

\* A request's step keeps the types: what it holds, then what it writes
LEMMA RequestTyped ==
  ASSUME Typed, NEW o \in Ops, op[o].pc # "idle" => op[o].on \in Datasets, Request(o)
  PROVE  Typed'
  <1> USE DEF Typed, Set, Goto, disk, table
  <1>a. op[o] \in Requests /\ Idle \in Requests
    BY DEF Idle, Requests, Kinds, PCs
  <1>b. \A d \in Datasets : rows[d] \subseteq Media /\ aside[d] \subseteq Media
    OBVIOUS
  <1>1. ASSUME NEW d \in Datasets, NEW kind \in {"dataset", "frames"}, Ask(o, d, kind) PROVE Typed'
    <2>1. CASE kind = "dataset"
      <3>1. Set(o, [Idle EXCEPT !.kind = kind, !.on = d, !.pc = "others", !.aim = rows[d]])
        BY <1>1, <2>1 DEF Ask
      <3>2. op' \in [Ops -> Requests]
        BY <3>1, <1>a, <1>b, <2>1 DEF Requests, Kinds, PCs, Idle
      <3> QED
        BY <1>1, <3>2 DEF Ask
    <2>2. CASE kind = "frames"
      <3>1. PICK aim \in {aside[d]} \cup {{x} : x \in rows[d]} :
              Set(o, [Idle EXCEPT !.kind = kind, !.on = d, !.pc = "others",
                                  !.aim = aim, !.stay = rows[d] \ aim])
        BY <1>1, <2>2 DEF Ask
      <3>2. aim \in SUBSET Media
        BY <1>b
      <3>3. op' \in [Ops -> Requests]
        BY <3>1, <3>2, <1>a, <1>b, <2>2 DEF Requests, Kinds, PCs, Idle
      <3> QED
        BY <1>1, <3>3 DEF Ask
    <2> QED
      BY <2>1, <2>2
  <1>2. ASSUME NEW d \in Datasets, NEW dups \in SUBSET rows[d], FindDuplicates(o, d, dups)
        PROVE  Typed'
    BY <1>2, <1>a DEF FindDuplicates, Requests, Kinds, PCs, Idle
  <1>3. ASSUME NEW d \in Datasets, LookForMissing(o, d) PROVE Typed'
    BY <1>3, <1>a DEF LookForMissing, Requests, Kinds, PCs, Idle
  <1>4. ASSUME NEW d \in Datasets, ScanClaims(o, d) PROVE Typed'
    BY <1>4, <1>a DEF ScanClaims, Requests, Kinds, PCs, Idle
  <1>5. CASE ReadOthers(o)
    BY <1>5, <1>a DEF ReadOthers, Others, Requests, Kinds, PCs
  <1>6. CASE Check(o)
    BY <1>6, <1>a DEF Check, In, Requests, Kinds, PCs
  <1>7. CASE FilesDone(o)
    BY <1>7, <1>a DEF FilesDone, Requests, Kinds, PCs
  <1>8. CASE DropDataset(o)
    BY <1>8, <1>a DEF DropDataset, Requests, Kinds, PCs
  <1>9. CASE DropRows(o)
    BY <1>9, <1>a DEF DropRows, Requests, Kinds, PCs
  <1>10. CASE MarkDuplicates(o)
    BY <1>10, <1>a DEF MarkDuplicates, Requests, Kinds, PCs
  <1>11. CASE FindMissing(o)
    BY <1>11, <1>a DEF FindMissing, Requests, Kinds, PCs
  <1>12. CASE ListFolder(o)
    BY <1>12, <1>a DEF ListFolder, Requests, Kinds, PCs
  <1>13. CASE AskAgain(o)
    BY <1>13, <1>a DEF AskAgain, Requests, Kinds, PCs
  <1>14. CASE ListTree(o)
    BY <1>14, <1>a DEF ListTree, In, Requests, Kinds, PCs
  <1>15. CASE TreeDone(o)
    BY <1>15, <1>a DEF TreeDone, Requests, Kinds, PCs
  <1>16. ASSUME NEW x \in Media, Remove(o, x) PROVE Typed'
    <2> DEFINE r == op[o]
               settled == [r EXCEPT !.todo = @ \ {x}, !.gone = @ \cup ({x} \cap r.aim)]
               failed == [r EXCEPT !.todo = @ \ {x}, !.failed = TRUE]
    <2>1. settled \in Requests /\ failed \in Requests
      BY <1>a DEF Requests, Kinds, PCs
    <2>2. Set(o, settled) \/ Set(o, failed)
      BY <1>16 DEF Remove
    <2>3. op' \in [Ops -> Requests]
      BY <2>1, <2>2
    <2>4. there' \subseteq there
      BY <1>16 DEF Remove
    <2> QED
      BY <1>16, <2>3, <2>4 DEF Remove
  <1> QED
    BY <1>1, <1>2, <1>3, <1>4, <1>5, <1>6, <1>7, <1>8, <1>9, <1>10, <1>11, <1>12, <1>13, <1>14,
       <1>15, <1>16 DEF Request
-------------------------------------------------------------------------------
(* The invariant under a preparation's steps *)

\* What a preparation does to its own dataset
LEMMA PreparationKept ==
  ASSUME IInv, NEW d \in Datasets, Preparation(d), NEW e \in Datasets
  PROVE  Sound(e)'
  <1> USE DEF IInv, Typed, Sound, Running, disk, table
  <1>a. Sound(d) /\ Sound(e)
    OBVIOUS
  <1>b. \A x \in Media, f \in Datasets \cup {User} : x \in In(f) <=> Home[x] = f
    BY DEF In
  <1>c. In(e)' = In(e)
    BY DEF In
  <1>1. CASE PrepRefused(d)
    BY <1>1, <1>a, <1>b DEF PrepRefused, In
  <1>2. CASE Judge(d)
    BY <1>2, <1>a, <1>b DEF Judge, In
  <1>3. CASE Stops(d)
    BY <1>3, <1>a, <1>b DEF Stops, In
  <1>4. CASE Discard(d)
    BY <1>4, <1>a, <1>b DEF Discard, In
  <1>5. CASE Done(d)
    BY <1>5, <1>a, <1>b DEF Done, In
  <1>6. CASE JobEnds(d)
    BY <1>6, <1>a, <1>b DEF JobEnds, In
  <1>7. ASSUME NEW r \in Datasets \cup {User}, Begin(d, r) PROVE Sound(e)'
    BY <1>7, <1>a, <1>b DEF Begin, In
  <1>8. ASSUME NEW x \in Media, Extract(d, x) PROVE Sound(e)'
    BY <1>8, <1>a, <1>b DEF Extract, In
  <1>9. ASSUME NEW x \in Media, NEW rejected \in BOOLEAN, Insert(d, x, rejected) PROVE Sound(e)'
    BY <1>9, <1>a, <1>b DEF Insert, In
  <1> QED
    BY <1>1, <1>2, <1>3, <1>4, <1>5, <1>6, <1>7, <1>8, <1>9 DEF Preparation

\* How far a preparation may move while a request is under way: it never goes
\* back, and it writes no file and changes no source once it is past its stills
LEMMA PreparationMoves ==
  ASSUME IInv, NEW d \in Datasets, Preparation(d)
  PROVE  /\ op' = op
         /\ \A e \in Datasets :
              /\ prep[e] # "none" => prep'[e] # "none" /\ root'[e] = root[e]
              /\ prep[e] \in {"closing", "over"} =>
                   /\ prep'[e] \in {"closing", "over"}
                   /\ there' \cap In(e) = there \cap In(e)
              /\ prep[e] = "over" => prep'[e] = "over"
  <1> USE DEF IInv, Typed, Running, disk, table
  <1>1. CASE PrepRefused(d)
    BY <1>1 DEF PrepRefused
  <1>2. CASE Judge(d)
    BY <1>2 DEF Judge
  <1>3. CASE Stops(d)
    BY <1>3 DEF Stops
  <1>4. CASE Discard(d)
    BY <1>4 DEF Discard
  <1>5. CASE Done(d)
    BY <1>5 DEF Done
  <1>6. CASE JobEnds(d)
    BY <1>6 DEF JobEnds
  <1>7. CASE \E r \in Datasets \cup {User} : Begin(d, r)
    BY <1>7 DEF Begin
  <1>8. CASE \E x \in Media : Extract(d, x)
    BY <1>8 DEF Extract, In
  <1>9. CASE \E x \in Media, rejected \in BOOLEAN : Insert(d, x, rejected)
    BY <1>9 DEF Insert
  <1> QED
    BY <1>1, <1>2, <1>3, <1>4, <1>5, <1>6, <1>7, <1>8, <1>9 DEF Preparation

\* So what a request knows stays true
LEMMA PreparationKnowing ==
  ASSUME IInv, NEW d \in Datasets, Preparation(d), NEW o \in Ops
  PROVE  Knowing(o)' /\ Settled(o)'
  <1> USE DEF IInv, Typed, Requests
  <1> DEFINE r == op[o]
  <1>1. Knowing(o) /\ Settled(o) /\ op' = op /\ r \in Requests
    BY PreparationMoves
  <1>2. Knowing(o)'
    <2>1. r.pc # "idle" => r.on \in Datasets
      BY <1>1 DEF Knowing
    <2>2. r.pc # "idle" =>
            /\ prep[r.on] \in {"closing", "over"} => prep'[r.on] \in {"closing", "over"}
            /\ prep[r.on] = "over" => prep'[r.on] = "over"
            /\ prep[r.on] # "none" => prep'[r.on] # "none"
      BY <2>1, PreparationMoves
    <2>3. \A e \in r.knows : prep'[e] # "none"
      BY <1>1, PreparationMoves DEF Knowing
    <2> QED
      BY <1>1, <2>2, <2>3 DEF Knowing
  <1>3. r.pc \in {"files", "rows"} /\ r.kind \in {"dataset", "frames", "missing"} =>
          /\ there' \cap In(r.on) = there \cap In(r.on)
          /\ Sourced(r.on, r.knows)' <=> Sourced(r.on, r.knows)
    <2> SUFFICES ASSUME r.pc \in {"files", "rows"}, r.kind \in {"dataset", "frames", "missing"}
                 PROVE  /\ there' \cap In(r.on) = there \cap In(r.on)
                        /\ Sourced(r.on, r.knows)' <=> Sourced(r.on, r.knows)
      OBVIOUS
    <2>1. prep[r.on] = "over" /\ r.on \in Datasets
      BY <1>1 DEF Knowing
    <2>2. \A e \in r.knows \cup {r.on} : root'[e] = root[e]
      BY <1>1, <2>1, PreparationMoves DEF Knowing
    <2> QED
      BY <1>1, <2>1, <2>2, PreparationMoves DEF Sourced
  <1>4. Settled(o)'
    BY <1>1, <1>3 DEF Settled, In
  <1> QED
    BY <1>2, <1>4
\* The grid marks rows and nothing else
LEMMA CurationKeeps ==
  ASSUME IInv, NEW d \in Datasets, NEW x \in Media, SetAside(d, x) \/ Restore(d, x)
  PROVE  IInv'
  <1> USE DEF IInv, Typed, disk, table
  <1>1. Typed' /\ UNCHANGED <<there, row, root, rows, cand, prep, op, excused>>
    BY DEF SetAside, Restore
  <1>2. \A e \in Datasets : aside'[e] \subseteq rows[e]
    BY DEF SetAside, Restore, Sound
  <1>3. \A e \in Datasets : Sound(e)'
    BY <1>1, <1>2 DEF Sound, In
  <1>4. \A o \in Ops : Knowing(o)' /\ Settled(o)'
    BY <1>1 DEF Knowing, Settled, In, Sourced
  <1> QED
    BY <1>1, <1>3, <1>4

-------------------------------------------------------------------------------
(* The invariant under a request's steps *)

\* A request moves no preparation, and only takes files
LEMMA RequestMoves ==
  ASSUME IInv, NEW o \in Ops, Request(o)
  PROVE  /\ UNCHANGED <<root, prep, cand>> /\ there' \subseteq there
         /\ \A p \in Ops \ {o} : op'[p] = op[p]
  <1> USE DEF IInv, Typed, disk, table, Set, Goto
  <1>1. CASE \E d \in Datasets :
              \/ \E kind \in {"dataset", "frames"} : Ask(o, d, kind)
              \/ \E dups \in SUBSET rows[d] : FindDuplicates(o, d, dups)
              \/ LookForMissing(o, d) \/ ScanClaims(o, d)
    BY <1>1 DEF Ask, FindDuplicates, LookForMissing, ScanClaims
  <1>2. CASE ReadOthers(o) \/ Check(o) \/ FilesDone(o) \/ DropDataset(o) \/ DropRows(o)
    BY <1>2 DEF ReadOthers, Check, FilesDone, DropDataset, DropRows
  <1>3. CASE MarkDuplicates(o) \/ FindMissing(o) \/ ListFolder(o) \/ AskAgain(o) \/ ListTree(o)
             \/ TreeDone(o)
    BY <1>3 DEF MarkDuplicates, FindMissing, ListFolder, AskAgain, ListTree, TreeDone
  <1>4. CASE \E x \in Media : Remove(o, x)
    BY <1>4 DEF Remove
  <1> QED
    BY <1>1, <1>2, <1>3, <1>4 DEF Request

\* A request keeps what holds of every dataset.
LEMMA RequestKept ==
  ASSUME IInv, NEW o \in Ops, Request(o), NEW e \in Datasets
  PROVE  Sound(e)'
  <1> USE DEF IInv, Typed, disk, table, Requests
  <1>a. Sound(e) /\ Knowing(o) /\ op[o] \in Requests
    OBVIOUS
  <1>1. CASE DropDataset(o)
    <2>1. op[o].on \in Datasets /\ prep[op[o].on] = "over"
      BY <1>a, <1>1 DEF DropDataset, Knowing
    <2> QED
      BY <1>a, <1>1, <2>1 DEF DropDataset, Sound, In
  <1>2. CASE DropRows(o)
    <2>1. op[o].on \in Datasets
      BY <1>a, <1>2 DEF DropRows, Knowing
    <2> QED
      BY <1>a, <1>2, <2>1 DEF DropRows, Sound, In
  <1>3. CASE MarkDuplicates(o)
    <2>1. op[o].on \in Datasets
      BY <1>a, <1>3 DEF MarkDuplicates, Knowing
    <2> QED
      BY <1>a, <1>3, <2>1 DEF MarkDuplicates, Sound, In
  <1>4. ASSUME UNCHANGED <<row, rows, aside, excused>> PROVE Sound(e)'
    BY <1>a, <1>4, RequestMoves DEF Sound, In
  <1>5. CASE \E d \in Datasets :
              \/ \E kind \in {"dataset", "frames"} : Ask(o, d, kind)
              \/ \E dups \in SUBSET rows[d] : FindDuplicates(o, d, dups)
              \/ LookForMissing(o, d) \/ ScanClaims(o, d)
    BY <1>4, <1>5 DEF Ask, FindDuplicates, LookForMissing, ScanClaims
  <1>6. CASE ReadOthers(o) \/ Check(o) \/ FilesDone(o) \/ FindMissing(o) \/ ListFolder(o)
             \/ AskAgain(o) \/ ListTree(o) \/ TreeDone(o) \/ \E x \in Media : Remove(o, x)
    BY <1>4, <1>6 DEF ReadOthers, Check, FilesDone, FindMissing, ListFolder, AskAgain, ListTree,
                      TreeDone, Remove
  <1> QED
    BY <1>1, <1>2, <1>3, <1>5, <1>6 DEF Request

\* What the other requests know is not touched: rows and files only go
LEMMA OthersKnowing ==
  ASSUME IInv, NEW o \in Ops, Request(o), NEW p \in Ops \ {o}
  PROVE  Knowing(p)' /\ Settled(p)'
  <1>1. Knowing(p) /\ Settled(p)
    BY DEF IInv
  <1>2. /\ op'[p] = op[p] /\ prep' = prep /\ root' = root /\ there' \subseteq there
    BY RequestMoves
  <1>3. Sourced(op[p].on, op[p].knows)' <=> Sourced(op[p].on, op[p].knows)
    BY <1>2 DEF Sourced
  <1>4. Knowing(p)'
    BY <1>1, <1>2 DEF Knowing
  <1>5. Settled(p)'
    BY <1>1, <1>2, <1>3 DEF Settled, In
  <1> QED
    BY <1>4, <1>5
\* What the request itself knows, and what it has done to its files
LEMMA RequestKnowing ==
  ASSUME IInv, NEW o \in Ops, Request(o)
  PROVE  Knowing(o)' /\ Settled(o)'
  <1> USE DEF IInv, Typed, disk, table, Requests, Set, Goto
  <1> DEFINE r == op[o]
  <1>a. Knowing(o) /\ Settled(o) /\ r \in Requests /\ prep' = prep /\ root' = root
    BY RequestMoves
  <1>b. \A d \in row : d \in Datasets /\ prep[d] # "none"
    BY DEF Sound
  <1>c. ASSUME op'[o] = Idle PROVE Knowing(o)' /\ Settled(o)'
    BY <1>c DEF Knowing, Settled, Idle
  <1>1. ASSUME NEW d \in Datasets, NEW kind \in {"dataset", "frames"}, Ask(o, d, kind)
        PROVE  Knowing(o)' /\ Settled(o)'
    <2> DEFINE Asked(aim, stay) == [Idle EXCEPT !.kind = kind, !.on = d, !.pc = "others",
                                                !.aim = aim, !.stay = stay]
    <2>a. aside[d] \subseteq Media /\ rows[d] \subseteq Media
      OBVIOUS
    <2>1. PICK aim \in SUBSET Media, stay \in SUBSET Media :
            /\ op'[o] = Asked(aim, stay)
            /\ stay \cap aim = {}
            /\ kind = "dataset" => stay = {}
      <3>1. CASE kind = "dataset"
        <4>1. op'[o] = [Idle EXCEPT !.kind = kind, !.on = d, !.pc = "others", !.aim = rows[d]]
          BY <1>1, <3>1 DEF Ask
        <4>2. op'[o] = Asked(rows[d], {})
          BY <4>1 DEF Idle
        <4> HIDE DEF Asked
        <4> QED
          BY <2>a, <4>2
      <3>2. CASE kind = "frames"
        <4>1. PICK aim \in {aside[d]} \cup {{x} : x \in rows[d]} :
                op'[o] = Asked(aim, rows[d] \ aim)
          BY <1>1, <3>2 DEF Ask
        <4> HIDE DEF Asked
        <4> QED
          BY <2>a, <3>2, <4>1
      <3> QED
        BY <3>1, <3>2
    <2>2. prep[d] # "none"
      BY <1>1, <1>b DEF Ask
    <2> QED
      BY <1>a, <2>1, <2>2 DEF Knowing, Settled, Idle
  <1>2. ASSUME NEW d \in Datasets, NEW dups \in SUBSET rows[d], FindDuplicates(o, d, dups)
        PROVE  Knowing(o)' /\ Settled(o)'
    BY <1>2 DEF FindDuplicates, Knowing, Settled, Idle
  <1>3. ASSUME NEW d \in Datasets, LookForMissing(o, d) PROVE Knowing(o)' /\ Settled(o)'
    <2>1. prep[d] = "over"
      BY <1>3, <1>b DEF LookForMissing, Busy, Running
    <2> QED
      BY <1>3, <1>a, <2>1 DEF LookForMissing, Knowing, Settled, Idle
  <1>4. ASSUME NEW d \in Datasets, ScanClaims(o, d) PROVE Knowing(o)' /\ Settled(o)'
    BY <1>4, <1>a, <1>b DEF ScanClaims, Knowing, Settled, Idle
  <1>5. CASE ReadOthers(o)
    BY <1>5, <1>a, <1>b DEF ReadOthers, Others, Knowing, Settled
  <1>6. CASE Check(o)
    <2>1. CASE Busy(r.on)
      BY <1>6, <1>c, <2>1 DEF Check
    <2>2. CASE ~Busy(r.on)
      <3> DEFINE walked == IF r.kind = "dataset" /\ ~Sourced(r.on, r.knows)
                           THEN there \cap In(r.on) ELSE {}
      <3>1. op'[o] = [r EXCEPT !.pc = "files", !.todo = walked \cup r.aim] /\ there' = there
        BY <1>6, <2>2 DEF Check
      <3>2. r.on \in Datasets /\ r.pc = "check"
        BY <1>6, <1>a DEF Check, Knowing
      <3>3. prep[r.on] = "over"
        <4>1. prep[r.on] # "none"
          BY <1>6, <1>a DEF Check, Knowing
        <4> QED
          BY <2>2, <3>2, <4>1 DEF Busy, Running
      <3>4. Knowing(o)'
        BY <1>a, <3>1, <3>2, <3>3 DEF Knowing
      <3>5. Settled(o)'
        BY <1>a, <3>1, <3>2 DEF Settled, Knowing, Sourced, In
      <3> QED
        BY <3>4, <3>5
    <2> QED
      BY <2>1, <2>2
  <1>7. CASE FilesDone(o)
    BY <1>7, <1>a DEF FilesDone, Knowing, Settled, In, Sourced
  <1>8. CASE DropDataset(o) \/ DropRows(o) \/ MarkDuplicates(o) \/ TreeDone(o)
    BY <1>8, <1>c DEF DropDataset, DropRows, MarkDuplicates, TreeDone
  <1>9. CASE FindMissing(o)
    BY <1>9, <1>a DEF FindMissing, Knowing, Settled, In, Sourced
  <1>10. CASE ListFolder(o)
    <2>1. CASE there \cap In(r.on) = {}
      BY <1>10, <1>c, <2>1 DEF ListFolder
    <2>2. CASE there \cap In(r.on) # {}
      <3>1. r.on \in Datasets /\ prep[r.on] # "none"
        BY <1>10, <1>a, <2>2 DEF ListFolder, Knowing, Sound
      <3> QED
        BY <1>10, <1>a, <2>2, <3>1 DEF ListFolder, Knowing, Settled
    <2> QED
      BY <2>1, <2>2
  <1>11. CASE AskAgain(o)
    <2>1. CASE Claims(r.on, row)
      BY <1>11, <1>c, <2>1 DEF AskAgain
    <2>2. CASE ~Claims(r.on, row)
      <3>1. r.on \in Datasets \ row /\ prep[r.on] # "none"
        BY <1>11, <1>a, <2>2 DEF AskAgain, Knowing, Claims
      <3>2. prep[r.on] \in {"closing", "over"}
        BY <3>1 DEF Sound, Running
      <3> QED
        BY <1>11, <1>a, <1>b, <2>2, <3>2 DEF AskAgain, Knowing, Settled
    <2> QED
      BY <2>1, <2>2
  <1>12. CASE ListTree(o)
    BY <1>12, <1>a DEF ListTree, Knowing, Settled
  <1>13. ASSUME NEW x \in Media, Remove(o, x) PROVE Knowing(o)' /\ Settled(o)'
    <2> DEFINE settled == [r EXCEPT !.todo = @ \ {x}, !.gone = @ \cup ({x} \cap r.aim)]
               failed == [r EXCEPT !.todo = @ \ {x}, !.failed = TRUE]
    <2>1. \/ /\ op'[o] = settled
             /\ Deletable(r.on, r.knows, r.stay, x) => x \notin there'
          \/ op'[o] = failed /\ there' = there
      BY <1>13 DEF Remove
    <2>2. r.pc = "files" /\ there' \in SUBSET there /\ there \ {x} \subseteq there'
      BY <1>13 DEF Remove
    <2>3. Knowing(o)'
      BY <1>a, <2>1, <2>2 DEF Knowing
    <2>4. Settled(o)'
      <3>1. CASE op'[o] = settled /\ (Deletable(r.on, r.knows, r.stay, x) => x \notin there')
        BY <1>a, <2>2, <3>1 DEF Settled, Knowing, Sourced, In, Deletable
      <3>2. CASE op'[o] = failed /\ there' = there
        BY <1>a, <2>2, <3>2 DEF Settled, Knowing, Sourced, In
      <3> QED
        BY <2>1, <3>1, <3>2
    <2> QED
      BY <2>3, <2>4
  <1> QED
    BY <1>1, <1>2, <1>3, <1>4, <1>5, <1>6, <1>7, <1>8, <1>9, <1>10, <1>11, <1>12, <1>13 DEF Request

-------------------------------------------------------------------------------
(* The invariant *)

\* So does a restart, which ends preparations and requests together.
LEMMA RestartKeeps ==
  ASSUME IInv, Restart
  PROVE  IInv'
  <1> USE DEF IInv, Typed, disk, table
  <1>1. Typed'
    BY DEF Restart, Busy, Running, Requests, Idle, Kinds, PCs
  <1>2. \A d \in Datasets : Sound(d)'
    BY DEF Restart, Sound, In, Busy, Running
  <1>3. \A d \in Datasets : prep[d] # "none" => prep'[d] # "none"
    BY DEF Restart
  <1>4. \A o \in Ops : Knowing(o)' /\ Settled(o)'
    <2> SUFFICES ASSUME NEW o \in Ops PROVE Knowing(o)' /\ Settled(o)'
      OBVIOUS
    <2>1. CASE op[o].pc = "offered"
      <3>1. op'[o] = op[o]
        BY <2>1 DEF Restart
      <3>2. op[o] \in Requests
        OBVIOUS
      <3> QED
        BY <1>3, <2>1, <3>1, <3>2 DEF Knowing, Settled, Requests
    <2>2. CASE op[o].pc # "offered"
      <3>1. op'[o] = Idle
        BY <2>2 DEF Restart
      <3> QED
        BY <3>1 DEF Knowing, Settled, Idle
    <2> QED
      BY <2>1, <2>2
  <1> QED
    BY <1>1, <1>2, <1>4

\* Every step keeps the invariant.
LEMMA NextKeeps ==
  ASSUME IInv, [Next]_vars
  PROVE  IInv'
  <1>1. CASE Next
    <2>1. ASSUME NEW d \in Datasets, Preparation(d) PROVE IInv'
      BY <2>1, PreparationTyped, PreparationKept, PreparationKnowing DEF IInv
    <2>2. ASSUME NEW d \in Datasets, NEW x \in Media, SetAside(d, x) \/ Restore(d, x) PROVE IInv'
      BY <2>2, CurationKeeps
    <2>3. ASSUME NEW o \in Ops, Request(o) PROVE IInv'
      <3>1. Typed'
        BY <2>3, RequestTyped DEF IInv, Knowing
      <3>2. \A p \in Ops : Knowing(p)' /\ Settled(p)'
        BY <2>3, RequestKnowing, OthersKnowing
      <3>3. \A d \in Datasets : Sound(d)'
        BY <2>3, RequestKept
      <3> QED
        BY <3>1, <3>2, <3>3 DEF IInv
    <2> QED
      BY <1>1, <2>1, <2>2, <2>3, RestartKeeps DEF Next
  <1>2. CASE UNCHANGED vars
    BY <1>2 DEF IInv, Typed, Sound, Knowing, Settled, In, Sourced, vars, disk, table
  <1> QED
    BY <1>1, <1>2

\* The invariant holds throughout, for any number of datasets, files and requests.
THEOREM Invariance == Spec => []IInv
  <1>1. Init => IInv
    BY InitTyped
  <1>2. IInv /\ [Next]_vars => IInv'
    BY NextKeeps
  <1> QED
    BY <1>1, <1>2, PTL DEF Spec
-------------------------------------------------------------------------------
(* The properties *)

\* The types, and that no frame row is without its dataset
THEOREM TypeCorrect == Spec => []TypeOK
  <1>1. IInv => TypeOK
    <2> SUFFICES ASSUME IInv PROVE TypeOK
      OBVIOUS
    <2>1. \A o \in Ops : op[o] \in Requests
      BY DEF IInv, Typed
    <2> QED
      BY <2>1 DEF IInv, Typed, Sound, TypeOK, Requests, Kinds, PCs
  <1> QED
    BY <1>1, Invariance, PTL

\* No preparation that came to its end leaves a dataset without frames
THEOREM EndedIsNotEmpty == Spec => []NoEmptyDataset
  <1>1. IInv => NoEmptyDataset
    BY DEF IInv, Typed, Sound, NoEmptyDataset
  <1> QED
    BY <1>1, Invariance, PTL

\* The disjuncts of Next, one at a time.
LEMMA StepKinds ==
  ASSUME Next
  PROVE  \/ \E d \in Datasets : Preparation(d)
         \/ \E d \in Datasets, x \in Media : SetAside(d, x) \/ Restore(d, x)
         \/ \E o \in Ops : Request(o)
         \/ Restart
  BY DEF Next

\* A file goes in one place only: where a request takes it from its list
LEMMA OnlyRequestsTake ==
  ASSUME IInv, Next, NEW x \in there \ there'
  PROVE  \E o \in Ops :
           /\ op[o].pc = "files" /\ x \in op[o].todo \ op'[o].todo
           /\ Deletable(op[o].on, op[o].knows, op[o].stay, x)
  <1> USE DEF IInv, Typed, disk, table, Set, Goto, Requests
  <1>1. ASSUME NEW o \in Ops, Request(o)
        PROVE  \E y \in Media : Remove(o, y)
    BY <1>1 DEF Request, Ask, FindDuplicates, LookForMissing, ScanClaims, ReadOthers, Check,
                FilesDone, DropDataset, DropRows, MarkDuplicates, FindMissing, ListFolder,
                AskAgain, ListTree, TreeDone
  <1>2. ASSUME NEW d \in Datasets, Preparation(d) PROVE FALSE
    BY <1>2 DEF Preparation, PrepRefused, Begin, Extract, Judge, Insert, Stops, Discard, Done,
                JobEnds
  <1>3. ASSUME NEW d \in Datasets, NEW y \in Media, SetAside(d, y) \/ Restore(d, y) PROVE FALSE
    BY <1>3 DEF SetAside, Restore
  <1>4. ~Restart
    BY DEF Restart
  <1>5. \E o \in Ops : Request(o)
    BY <1>2, <1>3, <1>4, StepKinds
  <1>5a. PICK o \in Ops, y \in Media : Remove(o, y)
    BY <1>1, <1>5
  <1>6. x = y /\ Deletable(op[o].on, op[o].knows, op[o].stay, x) /\ op[o].pc = "files"
        /\ x \in op[o].todo
    BY <1>5a DEF Remove
  <1>7. x \notin op'[o].todo
    <2>1. op[o] \in Requests
      OBVIOUS
    <2> DEFINE settled == [op[o] EXCEPT !.todo = @ \ {y}, !.gone = @ \cup ({y} \cap op[o].aim)]
               failed == [op[o] EXCEPT !.todo = @ \ {y}, !.failed = TRUE]
    <2>2. op'[o] = settled \/ op'[o] = failed
      BY <1>5a DEF Remove
    <2>3. settled.todo = op[o].todo \ {y} /\ failed.todo = op[o].todo \ {y}
      BY <2>1
    <2> HIDE DEF settled, failed
    <2> QED
      BY <1>6, <2>2, <2>3
  <1> QED
    BY <1>6, <1>7

\* A file that goes is needed by no other dataset that was there at the snapshot
THEOREM NobodyLosesAFile == Spec => OthersKeepTheirFiles
  <1> DEFINE Kind == \A x \in there \ there', e \in row :
                       x \in rows[e] \cup cand[e] =>
                         \E o \in Ops :
                           /\ x \in op[o].todo \ op'[o].todo
                           /\ e = op[o].on \/ e \notin op[o].knows
  <1>1. IInv /\ [Next]_vars => [Kind]_vars
    <2> SUFFICES ASSUME IInv, Next, NEW x \in there \ there', NEW e \in row,
                        x \in rows[e] \cup cand[e]
                 PROVE  \E o \in Ops :
                          /\ x \in op[o].todo \ op'[o].todo
                          /\ e = op[o].on \/ e \notin op[o].knows
      BY DEF vars
    <2>1. PICK o \in Ops : /\ x \in op[o].todo \ op'[o].todo
                           /\ Deletable(op[o].on, op[o].knows, op[o].stay, x)
      BY OnlyRequestsTake
    <2>2. x \in In(e) \cup In(root[e])
      BY DEF IInv, Typed, Sound
    <2>3. Home[x] = op[o].on /\ \A f \in op[o].knows : root[f] # op[o].on
      BY <2>1 DEF Deletable, Sourced
    <2>4. Home[x] = e \/ Home[x] = root[e]
      BY <2>2 DEF In
    <2> QED
      BY <2>1, <2>3, <2>4
  <1> HIDE DEF Kind
  <1>2. Spec => [][Kind]_vars
    BY <1>1, Invariance, PTL DEF Spec
  <1> QED
    BY <1>2, PTL DEF Kind, OthersKeepTheirFiles

\* Nothing is taken from the work folder of a preparation that still writes there
THEOREM NoPreparationIsDisturbed == Spec => PreparationUndisturbed
  <1> DEFINE Calm == \A x \in there \ there' :
                       Home[x] = User \/ prep[Home[x]] \notin {"extract", "insert", "ending"}
  <1>1. IInv /\ [Next]_vars => [Calm]_vars
    <2> SUFFICES ASSUME IInv, Next, NEW x \in there \ there'
                 PROVE  prep[Home[x]] \notin {"extract", "insert", "ending"}
      BY DEF vars
    <2>1. PICK o \in Ops : /\ op[o].pc = "files"
                           /\ Deletable(op[o].on, op[o].knows, op[o].stay, x)
      BY OnlyRequestsTake
    <2>2. Knowing(o)
      BY DEF IInv
    <2>3. prep[op[o].on] \in {"closing", "over"}
      BY <2>1, <2>2 DEF Knowing
    <2> QED
      BY <2>1, <2>3 DEF Deletable
  <1> HIDE DEF Calm
  <1>2. Spec => [][Calm]_vars
    BY <1>1, Invariance, PTL DEF Spec
  <1> QED
    BY <1>2, PTL DEF Calm, PreparationUndisturbed

\* A frame row goes only after its file, unless another dataset sources from the folder
THEOREM RowsGoLast == Spec => RowsGoWithTheirFiles
  <1> DEFINE Last == \A d \in Datasets : \A x \in (rows[d] \ rows'[d]) \cap In(d) :
                       x \in there' => \E o \in Ops :
                         op[o].on = d /\ op'[o] = Idle /\ Sourced(d, op[o].knows)
  <1>1. IInv /\ [Next]_vars => [Last]_vars
    <2> SUFFICES ASSUME IInv, Next, NEW d \in Datasets,
                        NEW x \in (rows[d] \ rows'[d]) \cap In(d), x \in there'
                 PROVE  \E o \in Ops : op[o].on = d /\ op'[o] = Idle /\ Sourced(d, op[o].knows)
      BY DEF vars
    <2> USE DEF IInv, Typed, disk, table, Set, Goto
    <2>1. ASSUME NEW o \in Ops, Request(o) PROVE DropDataset(o) \/ DropRows(o)
      BY <2>1 DEF Request, Ask, FindDuplicates, LookForMissing, ScanClaims, ReadOthers, Check,
                  FilesDone, MarkDuplicates, FindMissing, ListFolder, AskAgain, ListTree,
                  TreeDone, Remove
    <2>2. ASSUME NEW e \in Datasets, Preparation(e) PROVE FALSE
      BY <2>2 DEF Preparation, PrepRefused, Begin, Extract, Judge, Insert, Stops, Discard, Done,
                  JobEnds
    <2>3. ASSUME NEW e \in Datasets, NEW y \in Media, SetAside(e, y) \/ Restore(e, y) PROVE FALSE
      BY <2>3 DEF SetAside, Restore
    <2>4. ~Restart
      BY DEF Restart
    <2>5a. \E o \in Ops : Request(o)
      BY <2>2, <2>3, <2>4, StepKinds
    <2>5. PICK o \in Ops : DropDataset(o) \/ DropRows(o)
      BY <2>1, <2>5a
    <2>6. op[o].pc = "rows" /\ op'[o] = Idle /\ x \in there
      BY <2>5 DEF DropDataset, DropRows
    <2>7. Knowing(o) /\ Settled(o) /\ op[o].on \in Datasets
      BY <2>6 DEF Knowing
    <2>8. op[o].on = d
      BY <2>5, <2>7 DEF DropDataset, DropRows
    <2>9. Sourced(d, op[o].knows)
      <3>1. CASE DropDataset(o)
        <4>1. op[o].kind = "dataset" /\ ~op[o].failed /\ op[o].todo = {}
          BY <2>6, <2>7, <3>1 DEF DropDataset, Settled
        <4> QED
          BY <2>6, <2>7, <2>8, <4>1 DEF Settled
      <3>2. CASE DropRows(o)
        <4>1. op[o].kind \in {"frames", "missing"} /\ x \in op[o].gone
          BY <2>7, <2>8, <3>2 DEF DropRows
        <4> QED
          BY <2>6, <2>7, <2>8, <4>1 DEF Settled
      <3> QED
        BY <2>5, <3>1, <3>2
    <2> QED
      BY <2>6, <2>8, <2>9
  <1> HIDE DEF Last
  <1>2. Spec => [][Last]_vars
    BY <1>1, Invariance, PTL DEF Spec
  <1> QED
    BY <1>2, PTL DEF Last, RowsGoWithTheirFiles
-------------------------------------------------------------------------------
(* Which frames a preparation keeps, and which it drops as duplicates *)

\* A set of numbers that is not empty has a least one.
LEMMA LeastNumber ==
    ASSUME NEW B, B \subseteq Nat, B # {}
    PROVE  \E n \in B : \A k \in B : n <= k
<1>1. PICK n \in B : \A k \in B : <<k, n>> \notin OpToRel(<, Nat)
  BY WFMin, NatLessThanWellFounded, Zenon
<1>2. \A k \in B : ~(k < n)  BY <1>1, Zenon DEF OpToRel
<1>3. QED  BY <1>2

\* Min is the least one.
LEMMA MinIsLeast ==
    ASSUME NEW B, B \subseteq Nat, B # {}
    PROVE  Min(B) \in B /\ \A k \in B : Min(B) <= k
<1>1. \E n \in B : \A k \in B : n <= k  BY LeastNumber
<1>2. QED  BY <1>1 DEF Min

\* A function on an interval may be defined from each value to the next.
Steps(g, first, last, start, G) ==
    g = [n \in first .. last |-> IF n = first THEN start ELSE G[<<g[n - 1], n>>]]

\* There is one, whatever the start and the step.
LEMMA StepsExist ==
    ASSUME NEW first \in Nat, NEW last \in Nat, NEW start, NEW G
    PROVE  \E g : Steps(g, first, last, start, G)
<1> DEFINE B == {n \in Nat : ~\E g : Steps(g, first, n, start, G)}
<1>1. B = {}
  <2> SUFFICES ASSUME B # {} PROVE FALSE  OBVIOUS
  <2>1. PICK n \in B : \A k \in B : n <= k
    <3>1. B \subseteq Nat  OBVIOUS
    <3> HIDE DEF B
    <3>2. QED  BY <3>1, LeastNumber
  <2>2. CASE n <= first
    <3> DEFINE g == [m \in first .. n |-> start]
    <3>1. \A m \in first .. n : m = first  BY <2>2
    <3>2. Steps(g, first, n, start, G)  BY <3>1 DEF Steps
    <3>3. QED  BY <2>1, <3>2
  <2>3. CASE ~(n <= first)
    <3>1. n - 1 \in Nat /\ ~(n <= n - 1)  BY <2>3
    <3>2. PICK h : Steps(h, first, n - 1, start, G)  BY <2>1, <3>1
    <3> DEFINE g == [m \in first .. n |-> IF m = n THEN G[<<h[n - 1], n>>] ELSE h[m]]
    <3>3. \A m \in first .. (n - 1) : h[m] = IF m = first THEN start ELSE G[<<h[m - 1], m>>]
      BY <3>2 DEF Steps
    <3>4. \A m \in first .. n : g[m] = IF m = first THEN start ELSE G[<<g[m - 1], m>>]
      <4> SUFFICES ASSUME NEW m \in first .. n
          PROVE  g[m] = IF m = first THEN start ELSE G[<<g[m - 1], m>>]
        OBVIOUS
      <4>1. m # first => m - 1 \in first .. n /\ m - 1 # n /\ g[m - 1] = h[m - 1]
        BY <2>3
      <4>2. CASE m = n
        <5>1. m # first /\ g[m] = G[<<h[m - 1], m>>]  BY <2>3, <4>2
        <5>2. QED  BY <4>1, <5>1
      <4>3. CASE m # n
        <5>1. m \in first .. (n - 1) /\ g[m] = h[m]  BY <4>3
        <5>2. QED  BY <3>3, <4>1, <5>1
      <4>4. QED  BY <4>2, <4>3
    <3>5. g = [m \in first .. n |-> g[m]]  OBVIOUS
    <3> HIDE DEF g
    <3>6. g = [m \in first .. n |-> IF m = first THEN start ELSE G[<<g[m - 1], m>>]]
      BY <3>4, <3>5
    <3>7. Steps(g, first, n, start, G)  BY <3>6 DEF Steps
    <3>8. QED  BY <2>1, <3>7
  <2>4. QED  BY <2>2, <2>3
<1>2. QED  BY <1>1

\* What is extracted.
Extracted == frames \in [Indices -> Frames]

\* Distances are numbers, the same both ways, and no greater than the number of bits.
LEMMA Distances ==
    ASSUME Extracted
    PROVE  /\ Cardinality(Bits) \in Nat
           /\ \A i, j \in Indices :
                /\ Apart(i, j) \in 0 .. Cardinality(Bits)
                /\ Apart(i, j) = Apart(j, i)
<1>1. Cardinality(Bits) \in Nat  BY FS_CardinalityType, FrameChoiceAssumption
<1>2. \A i \in Indices : frames[i].hash \in SUBSET Bits
  BY DEF Extracted, Frames
<1>3. \A a, b \in SUBSET Bits :
        /\ Distance(a, b) \in 0 .. Cardinality(Bits)
        /\ Distance(a, b) = Distance(b, a)
  <2> SUFFICES ASSUME NEW a \in SUBSET Bits, NEW b \in SUBSET Bits
      PROVE  /\ Distance(a, b) \in 0 .. Cardinality(Bits)
             /\ Distance(a, b) = Distance(b, a)
    OBVIOUS
  <2> DEFINE c == (a \ b) \cup (b \ a)
  <2>1. c \in SUBSET Bits /\ c = (b \ a) \cup (a \ b)  OBVIOUS
  <2>2. Distance(a, b) = Cardinality(c) /\ Distance(b, a) = Cardinality(c)
    BY <2>1 DEF Distance
  <2> HIDE DEF c
  <2>3. IsFiniteSet(c) /\ Cardinality(c) <= Cardinality(Bits)
    BY <2>1, FS_Subset, FrameChoiceAssumption
  <2>4. Cardinality(c) \in Nat  BY <2>3, FS_CardinalityType
  <2>5. QED  BY <1>1, <2>2, <2>3, <2>4
<1>4. QED  BY <1>1, <1>2, <1>3 DEF Apart

\* The recursion of the comparison with the last frame that passed.
Follows(L, d) == L = [i \in 0 .. Length |->
    IF i = 0 THEN 0
    ELSE IF Dropped(i) \/ (L[i - 1] # 0 /\ Apart(L[i - 1], i) <= d)
         THEN L[i - 1]
         ELSE i]

\* LastKept is a function that satisfies it.
LEMMA LastKeptFollows ==
    ASSUME NEW d
    PROVE  Follows(LastKept(d), d)
<1> DEFINE Places == (0 .. Length) \X (1 .. Length)
           G == [x \in Places |->
                   IF Dropped(x[2]) \/ (x[1] # 0 /\ Apart(x[1], x[2]) <= d)
                   THEN x[1] ELSE x[2]]
<1>1. PICK g : Steps(g, 0, Length, 0, G)
  <2> HIDE DEF G
  <2>1. 0 \in Nat /\ Length \in Nat  BY FrameChoiceAssumption
  <2>2. QED  BY <2>1, StepsExist
<1>2. \A i \in 0 .. Length : g[i] = IF i = 0 THEN 0 ELSE G[<<g[i - 1], i>>]
  BY <1>1 DEF Steps
<1>3. g = [i \in 0 .. Length |-> g[i]]
  <2> HIDE DEF G
  <2>1. QED  BY <1>1 DEF Steps
<1>4. \A i \in 0 .. Length : g[i] \in 0 .. Length
  <2> DEFINE B == {i \in 0 .. Length : g[i] \notin 0 .. Length}
  <2> SUFFICES ASSUME B # {} PROVE FALSE  OBVIOUS
  <2>1. PICK n \in B : \A k \in B : n <= k
    <3>1. B \subseteq Nat  OBVIOUS
    <3> HIDE DEF B
    <3>2. QED  BY <3>1, LeastNumber
  <2> HIDE DEF G
  <2>2. n # 0  BY <1>2, <2>1
  <2>3. n - 1 \in 0 .. Length /\ g[n - 1] \in 0 .. Length
    BY <2>1, <2>2, FrameChoiceAssumption
  <2>4. <<g[n - 1], n>> \in Places  BY <2>1, <2>2, <2>3
  <2>5. G[<<g[n - 1], n>>] \in 0 .. Length  BY <2>4 DEF G
  <2>6. QED  BY <1>2, <2>1, <2>2, <2>5
<1>5. \A i \in 0 .. Length : i # 0 =>
        G[<<g[i - 1], i>>] =
            IF Dropped(i) \/ (g[i - 1] # 0 /\ Apart(g[i - 1], i) <= d)
            THEN g[i - 1] ELSE i
  <2> SUFFICES ASSUME NEW i \in 0 .. Length, i # 0
      PROVE  G[<<g[i - 1], i>>] =
                 IF Dropped(i) \/ (g[i - 1] # 0 /\ Apart(g[i - 1], i) <= d)
                 THEN g[i - 1] ELSE i
    OBVIOUS
  <2>1. <<g[i - 1], i>> \in Places  BY <1>4, FrameChoiceAssumption
  <2>2. QED  BY <2>1
<1>6. \A i \in 0 .. Length : g[i] =
        IF i = 0 THEN 0
        ELSE IF Dropped(i) \/ (g[i - 1] # 0 /\ Apart(g[i - 1], i) <= d)
             THEN g[i - 1] ELSE i
  <2> HIDE DEF G
  <2>1. QED  BY <1>2, <1>5
<1>7. Follows(g, d)
  BY <1>3, <1>6 DEF Follows
<1>8. QED
  <2>1. \E L : Follows(L, d)  BY <1>7
  <2>2. LastKept(d) = CHOOSE L : Follows(L, d)
    BY Zenon DEF LastKept, Follows
  <2>3. QED  BY <2>1, <2>2, Zenon

\* The frames that pass the filters of the preparation, given the last one that did.
Passed(L) == {i \in Indices : ~Dropped(i) /\ L[i] = i}

\* The recursion finds, for each frame, the latest one up to it that passed.
LEMMA LatestPassed ==
    ASSUME NEW d, NEW L, Follows(L, d)
    PROVE  \A i \in 0 .. Length :
              /\ L[i] \in 0 .. i
              /\ L[i] # 0 => L[i] \in Passed(L)
              /\ \A k \in Passed(L) : k <= i => k <= L[i]
<1> DEFINE Good(i) == /\ L[i] \in 0 .. i
                      /\ L[i] # 0 => L[i] \in Passed(L)
                      /\ \A k \in Passed(L) : k <= i => k <= L[i]
           B == {i \in 0 .. Length : ~Good(i)}
<1> SUFFICES ASSUME B # {} PROVE FALSE  OBVIOUS
<1>1. PICK n \in B : \A k \in B : n <= k
  <2>1. B \subseteq Nat  OBVIOUS
  <2> HIDE DEF B
  <2>2. QED  BY <2>1, LeastNumber
<1>2. \A i \in 0 .. Length : L[i] =
        IF i = 0 THEN 0
        ELSE IF Dropped(i) \/ (L[i - 1] # 0 /\ Apart(L[i - 1], i) <= d)
             THEN L[i - 1] ELSE i
  BY DEF Follows
<1>3. \A k \in Passed(L) : k \in 1 .. Length /\ L[k] = k  BY DEF Passed, Indices
<1>4. CASE n = 0
  <2>1. L[n] = 0  BY <1>1, <1>2, <1>4
  <2>2. Good(n)  BY <1>3, <1>4, <2>1
  <2>3. QED  BY <1>1, <2>2
<1>5. CASE n # 0
  <2>1. n \in Nat /\ n - 1 \in 0 .. Length /\ ~(n <= n - 1)
    BY <1>1, <1>5, FrameChoiceAssumption
  <2>2. Good(n - 1)  BY <1>1, <2>1
  <2>3. CASE Dropped(n) \/ (L[n - 1] # 0 /\ Apart(L[n - 1], n) <= d)
    <3>1. L[n] = L[n - 1]  BY <1>1, <1>2, <1>5, <2>3
    <3>2. n \notin Passed(L)  BY <1>3, <2>1, <2>2, <3>1
    <3>3. \A k \in Passed(L) : k <= n => k <= n - 1  BY <1>3, <2>1, <3>2
    <3>4. Good(n)  BY <2>1, <2>2, <3>1, <3>3
    <3>5. QED  BY <1>1, <3>4
  <2>4. CASE ~(Dropped(n) \/ (L[n - 1] # 0 /\ Apart(L[n - 1], n) <= d))
    <3>1. L[n] = n  BY <1>1, <1>2, <1>5, <2>4
    <3>2. n \in Passed(L)  BY <1>1, <1>5, <2>4, <3>1 DEF Passed, Indices
    <3>3. Good(n)  BY <2>1, <3>1, <3>2
    <3>4. QED  BY <1>1, <3>3
  <2>5. QED  BY <2>3, <2>4
<1>6. QED  BY <1>4, <1>5

\* The verdicts before the cap: none on those that passed, "duplicate" on those good enough
\* that did not.
LEMMA Verdicts ==
    ASSUME NEW L, NEW i \in Indices
    PROVE  /\ Verdict(i, L) = "" <=> i \in Passed(L)
           /\ Verdict(i, L) = "duplicate" <=> ~Dropped(i) /\ L[i] # i
           /\ Verdict(i, L) \in {"", "black", "transition", "blur", "duplicate"}
<1>1. CASE frames[i].dead
  BY <1>1, Zenon DEF Verdict, Passed, Dropped
<1>2. CASE ~frames[i].dead /\ Transition(i)
  BY <1>2 DEF Verdict, Passed, Dropped
<1>3. CASE ~frames[i].dead /\ ~Transition(i) /\ Blurry(i)
  BY <1>3 DEF Verdict, Passed, Dropped
<1>4. CASE ~Dropped(i)
  BY <1>4 DEF Verdict, Passed, Dropped
<1>5. QED  BY <1>1, <1>2, <1>3, <1>4 DEF Dropped

\* A preparation marks as duplicates what is near the last frame that passed, and passes
\* none that is.
LEMMA PrepareKeepsOriginals ==
    ASSUME Extracted, Prepare
    PROVE  DuplicatesHaveOriginals'
<1>1. PICK d \in Thresholds, cap \in Caps :
        /\ asked' = [run |-> "prepare", distance |-> d, cap |-> cap]
        /\ reason' = Filtered(d, cap)
  BY DEF Prepare
<1> DEFINE L == LastKept(d)
<1>2. PICK chosen : \A i \in Indices : reason'[i] =
        IF i \in {j \in Indices : Verdict(j, L) = ""} \ chosen
        THEN "cap" ELSE Verdict(i, L)
  BY <1>1 DEF Filtered, Indices
<1>3. Follows(L, d) /\ Length \in Nat  BY LastKeptFollows, FrameChoiceAssumption
<1> HIDE DEF L
<1>4. /\ {i \in Indices : reason'[i] \in {"", "cap"}} = Passed(L)
      /\ \A i \in Indices : reason'[i] = "duplicate" <=> ~Dropped(i) /\ L[i] # i
  <2>1. \A i \in Indices :
          /\ Verdict(i, L) = "" <=> i \in Passed(L)
          /\ Verdict(i, L) = "duplicate" <=> ~Dropped(i) /\ L[i] # i
          /\ Verdict(i, L) \in {"", "black", "transition", "blur", "duplicate"}
    BY Verdicts
  <2>2. \A i \in Indices :
          /\ reason'[i] \in {"", "cap"} <=> i \in Passed(L)
          /\ reason'[i] = "duplicate" <=> Verdict(i, L) = "duplicate"
    BY <1>2, <2>1 DEF L
  <2>3. \A i \in Passed(L) : i \in Indices  BY DEF Passed
  <2>4. QED  BY <2>1, <2>2, <2>3
<1>5. \A i \in Indices :
        /\ i - 1 \in 0 .. Length /\ L[i - 1] \in 0 .. (i - 1)
        /\ L[i - 1] # 0 => L[i - 1] \in Passed(L)
        /\ \A k \in Passed(L) : k <= i - 1 => k <= L[i - 1]
        /\ L[i] = IF Dropped(i) \/ (L[i - 1] # 0 /\ Apart(L[i - 1], i) <= d)
                  THEN L[i - 1] ELSE i
  <2>1. \A i \in Indices : i \in 0 .. Length /\ i - 1 \in 0 .. Length /\ i # 0
    BY <1>3 DEF Indices
  <2>2. \A i \in 0 .. Length :
              /\ L[i] \in 0 .. i
              /\ L[i] # 0 => L[i] \in Passed(L)
              /\ \A k \in Passed(L) : k <= i => k <= L[i]
    BY <1>3, LatestPassed
  <2>3. \A i \in 0 .. Length : i # 0 =>
          L[i] = IF Dropped(i) \/ (L[i - 1] # 0 /\ Apart(L[i - 1], i) <= d)
                 THEN L[i - 1] ELSE i
    BY <1>3 DEF Follows
  <2>4. QED  BY <2>1, <2>2, <2>3
<1> DEFINE previous(i) == {j \in Passed(L) : j < i /\ \A k \in Passed(L) : k < i => k <= j}
<1>6. \A i \in Indices : i \in Nat /\ \A k \in Passed(L) : k \in Nat /\ (k < i <=> k <= i - 1)
  BY <1>3 DEF Indices, Passed
<1>7. \A i \in Indices : previous(i) = IF L[i - 1] = 0 THEN {} ELSE {L[i - 1]}
  <2> SUFFICES ASSUME NEW i \in Indices
      PROVE  previous(i) = IF L[i - 1] = 0 THEN {} ELSE {L[i - 1]}
    OBVIOUS
  <2>1. \A k \in Passed(L) : k # 0  BY DEF Passed, Indices
  <2>2. CASE L[i - 1] = 0  BY <1>5, <1>6, <2>1, <2>2
  <2>3. CASE L[i - 1] # 0  BY <1>5, <1>6, <2>3
  <2>4. QED  BY <2>2, <2>3
<1>8. frames' = frames  BY DEF Prepare
<1> DEFINE near(i, j) == Apart(i, j) <= d
<1>9. \A i \in Indices :
        /\ reason'[i] = "duplicate" => \E j \in previous(i) : near(i, j)
        /\ i \in Passed(L) => \A j \in previous(i) : ~near(i, j)
  <2> SUFFICES ASSUME NEW i \in Indices
      PROVE  /\ reason'[i] = "duplicate" => \E j \in previous(i) : near(i, j)
             /\ i \in Passed(L) => \A j \in previous(i) : ~near(i, j)
    OBVIOUS
  <2> HIDE DEF previous
  <2>1. L[i - 1] # 0 =>
          L[i - 1] \in Indices /\ Apart(L[i - 1], i) = Apart(i, L[i - 1])
    BY <1>5, Distances DEF Passed
  <2>2. reason'[i] = "duplicate" => \E j \in previous(i) : near(i, j)
    BY <1>4, <1>5, <1>7, <2>1
  <2>3. i \in Passed(L) => L[i] = i /\ ~Dropped(i) /\ L[i - 1] # i
    BY <1>5, <1>6 DEF Passed
  <2>4. i \in Passed(L) => \A j \in previous(i) : ~near(i, j)
    BY <1>5, <1>7, <2>1, <2>3
  <2>5. QED  BY <2>2, <2>4
<1>10. \A i, j : Apart(i, j)' = Apart(i, j)
  BY <1>8 DEF Apart
<1> HIDE DEF L
<1>11. QED
  BY <1>1, <1>4, <1>9, <1>10 DEF DuplicatesHaveOriginals, Indices

\* What the run of a search, and of the grid's "Keep", leaves of the promise of a
\* preparation: it is about preparations only.
LEMMA OtherRunsPromiseNothing ==
    ASSUME NEW r, r # "prepare", asked'.run = r
    PROVE  DuplicatesHaveOriginals' /\ CapSpreads'
BY DEF DuplicatesHaveOriginals, CapSpreads

\* The frames stay what was extracted.
LEMMA ExtractedKept == Extracted /\ [ChoiceNext]_choiceVars => Extracted'
BY DEF Extracted, ChoiceNext, Prepare, Dedup, KeepFrame, choiceVars

\* A frame is dropped as a duplicate only for the last picture before it that the
\* preparation let pass, and two neighbours that it let pass are not near: for every
\* video, every hash of finitely many bits, every request.
THEOREM DuplicatesAreOfWhatPassed == ChoiceSpec => []DuplicatesHaveOriginals
<1> DEFINE Inv == Extracted /\ DuplicatesHaveOriginals
<1>1. ChoiceInit => Inv
  <2> SUFFICES ASSUME ChoiceInit PROVE Inv  OBVIOUS
  <2>1. frames \in [Indices -> Frames]
    BY DEF ChoiceInit, Indices
  <2>2. asked.run # "prepare"  BY DEF ChoiceInit
  <2>3. QED  BY <2>1, <2>2 DEF Extracted, DuplicatesHaveOriginals
<1>2. Inv /\ [ChoiceNext]_choiceVars => Inv'
  <2> SUFFICES ASSUME Inv, [ChoiceNext]_choiceVars
      PROVE  DuplicatesHaveOriginals'
    BY ExtractedKept
  <2>1. CASE Prepare  BY <2>1, PrepareKeepsOriginals
  <2>2. CASE Dedup
    <3>1. asked'.run = "dedup"  BY <2>2 DEF Dedup
    <3>2. QED  BY <3>1, OtherRunsPromiseNothing
  <2>3. CASE \E i \in Indices : KeepFrame(i)
    <3>1. PICK i \in Indices : KeepFrame(i)  BY <2>3
    <3>2. asked'.run = "restore"  BY <3>1 DEF KeepFrame
    <3>3. QED  BY <3>2, OtherRunsPromiseNothing
  <2>4. CASE UNCHANGED choiceVars
    <3>1. frames' = frames /\ reason' = reason /\ asked' = asked
      BY <2>4 DEF choiceVars
    <3>2. \A i, j : Apart(i, j)' = Apart(i, j)  BY <3>1 DEF Apart
    <3>3. QED  BY <3>1, <3>2 DEF DuplicatesHaveOriginals
  <2>5. QED  BY <2>1, <2>2, <2>3, <2>4 DEF ChoiceNext
<1>3. QED  BY <1>1, <1>2, PTL DEF ChoiceSpec

-------------------------------------------------------------------------------
(* What the cap leaves *)

\* The distance to the nearest of what was chosen is one of the distances, and the least.
LEMMA NearestIsLeast ==
    ASSUME Extracted, NEW C, C \subseteq Indices, C # {}, NEW i \in Indices
    PROVE  /\ Nearest(C, i) \in Nat
           /\ \E c \in C : Nearest(C, i) = Apart(c, i)
           /\ \A c \in C : Nearest(C, i) <= Apart(c, i)
<1> DEFINE B == {Apart(c, i) : c \in C}
<1>1. B \subseteq Nat /\ B # {}
  <2>1. \A c \in C : Apart(c, i) \in 0 .. Cardinality(Bits)  BY Distances
  <2>2. \A c \in C : Apart(c, i) \in Nat  BY <2>1, Distances
  <2>3. QED  BY <2>2
<1>2. Nearest(C, i) = Min(B)  BY DEF Nearest
<1>3. Min(B) \in B /\ \A k \in B : Min(B) <= k
  <2> HIDE DEF B
  <2>1. QED  BY <1>1, MinIsLeast
<1>4. QED  BY <1>1, <1>2, <1>3

\* The farthest of the rest is one of the rest, and none is farther.
LEMMA FarthestIsFar ==
    ASSUME Extracted, NEW C, C \subseteq Indices, C # {},
           NEW rest, rest \subseteq Indices, rest # {}
    PROVE  /\ Farthest(C, rest) \in rest
           /\ \A j \in rest :
                Nearest(C, j) <= Nearest(C, Farthest(C, rest))
<1> DEFINE m == Cardinality(Bits)
           near(i) == Nearest(C, i)
           B == {m - near(i) : i \in rest}
           F == {i \in rest : \A j \in rest : near(j) <= near(i)}
<1>1. \A i \in rest : near(i) \in Nat /\ m - near(i) \in Nat
  <2>1. \A i \in rest : near(i) \in Nat /\ \E c \in C : near(i) = Apart(c, i)
    BY NearestIsLeast
  <2>2. m \in Nat /\ \A i, j \in Indices : Apart(i, j) \in 0 .. m
    BY Distances
  <2> HIDE DEF near, m
  <2>3. QED  BY <2>1, <2>2
<1>2. m \in Nat  BY Distances
<1>3. \E x \in B : \A y \in B : x <= y
  <2>1. B \subseteq Nat /\ B # {}  BY <1>1
  <2> HIDE DEF B
  <2>2. QED  BY <2>1, LeastNumber
<1>4. F # {} /\ F \subseteq Nat
  <2>1. PICK i \in rest : \A j \in rest : m - near(i) <= m - near(j)  BY <1>3
  <2> HIDE DEF near, m
  <2>2. i \in F  BY <1>1, <1>2, <2>1
  <2>3. Indices \subseteq Nat  BY DEF Indices
  <2>4. QED  BY <2>2, <2>3
<1>5. Farthest(C, rest) = Min(F)  BY DEF Farthest
<1>6. Min(F) \in F
  <2> HIDE DEF F
  <2>1. QED  BY <1>4, MinIsLeast
<1> HIDE DEF near
<1>7. QED  BY <1>5, <1>6 DEF near

\* What farthest-point selection promises of n frames chosen among the survivors.
Spread(C, S, n) ==
    /\ C \subseteq S /\ IsFiniteSet(C) /\ Cardinality(C) = n
    /\ Min(S) \in C
    /\ \A i \in S \ C, j, k \in C :
        j # k => Nearest(C, i) <= Apart(j, k)

\* The first survivor is a choice of one.
LEMMA FirstSpreads ==
    ASSUME NEW S, S \subseteq Indices, S # {}
    PROVE  Spread({Min(S)}, S, 1)
<1>1. S \subseteq Nat  BY DEF Indices
<1>2. Min(S) \in S  BY <1>1, MinIsLeast
<1>3. IsFiniteSet({Min(S)}) /\ Cardinality({Min(S)}) = 1
  BY FS_Singleton
<1>4. QED  BY <1>2, <1>3 DEF Spread

\* The farthest of the rest joins what is spread: it is no nearer to any of them than what
\* is left is to all of them.
LEMMA NextSpreads ==
    ASSUME Extracted, NEW S, S \subseteq Indices, NEW n \in Nat, NEW C,
           Spread(C, S, n), S \ C # {}
    PROVE  Spread(C \cup {Farthest(C, S \ C)}, S, n + 1)
<1> DEFINE f == Farthest(C, S \ C)
           D == C \cup {f}
<1>1. /\ C \subseteq S /\ IsFiniteSet(C) /\ Cardinality(C) = n
      /\ Min(S) \in C
      /\ \A i \in S \ C, j, k \in C :
          j # k => Nearest(C, i) <= Apart(j, k)
  BY DEF Spread
<1>2. C # {} /\ C \subseteq Indices /\ S \ C \subseteq Indices  BY <1>1
<1>3. f \in S \ C /\ \A i \in S \ C : Nearest(C, i) <= Nearest(C, f)
  BY <1>2, FarthestIsFar
<1> HIDE DEF f
<1>4. IsFiniteSet(D) /\ Cardinality(D) = n + 1
  BY <1>1, <1>3, FS_AddElement
<1>5. \A i \in S \ D, j, k \in D : j # k => Nearest(D, i) <= Apart(j, k)
  <2>1. /\ \A i \in S : Nearest(C, i) \in Nat
        /\ \A i \in S, c \in C : Nearest(C, i) <= Apart(c, i)
        /\ \A i \in S : \E c \in C : Nearest(C, i) = Apart(c, i)
    BY <1>2, NearestIsLeast
  <2>2. /\ \A i \in S : Nearest(D, i) \in Nat
        /\ \A i \in S, c \in D : Nearest(D, i) <= Apart(c, i)
    <3>1. D # {} /\ D \subseteq Indices  BY <1>2, <1>3
    <3> HIDE DEF D
    <3>2. QED  BY <3>1, NearestIsLeast
  <2>3. \A i, j \in S : Apart(i, j) \in Nat /\ Apart(i, j) = Apart(j, i)
    <3>1. \A i, j \in Indices :
            /\ Apart(i, j) \in 0 .. Cardinality(Bits)
            /\ Apart(i, j) = Apart(j, i)
      BY Distances
    <3>2. QED  BY <3>1, Distances
  <2> SUFFICES ASSUME NEW i \in S \ D, NEW j \in D, NEW k \in D, j # k
      PROVE  Nearest(D, i) <= Apart(j, k)
    OBVIOUS
  <2>4. i \in S \ C /\ i \in S /\ f \in S /\ j \in S /\ k \in S  BY <1>1, <1>3
  <2> DEFINE ofD == Nearest(D, i)
             ofC == Nearest(C, i)
             far == Nearest(C, f)
             between == Apart(j, k)
  <2>5. ofD \in Nat /\ ofC \in Nat /\ far \in Nat /\ between \in Nat
    BY <2>1, <2>2, <2>3, <2>4
  <2>6. ofD <= ofC
    <3>1. PICK c \in C : Nearest(C, i) = Apart(c, i)  BY <2>1, <2>4
    <3>2. Nearest(D, i) <= Apart(c, i)  BY <2>2, <2>4
    <3>3. QED  BY <3>1, <3>2
  <2>7. ofC <= far  BY <1>3, <2>4
  <2>8. \A c \in C : far <= Apart(c, f)  BY <2>1, <2>4
  <2>9. CASE j \in C /\ k \in C
    <3>1. ofC <= between  BY <1>1, <2>4, <2>9
    <3> HIDE DEF ofD, ofC, between
    <3>2. ofD <= between  BY <2>5, <2>6, <3>1
    <3>3. QED  BY <3>2 DEF ofD, between
  <2>10. CASE k = f /\ j \in C
    <3>1. far <= between  BY <2>8, <2>10
    <3> HIDE DEF ofD, ofC, far, between
    <3>2. ofD <= between  BY <2>5, <2>6, <2>7, <3>1
    <3>3. QED  BY <3>2 DEF ofD, between
  <2>11. CASE j = f /\ k \in C
    <3>1. far <= Apart(k, j) /\ Apart(k, j) = between  BY <2>3, <2>4, <2>8, <2>11
    <3> HIDE DEF ofD, ofC, far, between
    <3>2. ofD <= between  BY <2>5, <2>6, <2>7, <3>1
    <3>3. QED  BY <3>2 DEF ofD, between
  <2>12. QED  BY <2>9, <2>10, <2>11
<1>6. Spread(D, S, n + 1)
  <2>1. D \subseteq S /\ Min(S) \in D  BY <1>1, <1>3
  <2> HIDE DEF D
  <2>2. QED  BY <1>4, <1>5, <2>1 DEF Spread
<1>7. QED  BY <1>6 DEF f

\* The recursion of the selection.
Selects(h, S, cap) == h = [n \in 1 .. cap |->
    IF n = 1 THEN {Min(S)}
    ELSE h[n - 1] \cup {Farthest(h[n - 1], S \ h[n - 1])}]

\* Every step of the selection is spread.
LEMMA SelectionSpreads ==
    ASSUME Extracted, NEW S, S \subseteq Indices, NEW cap \in Nat, cap < Cardinality(S),
           NEW h,
           \A n \in 1 .. cap : \/ n = 1 /\ h[n] = {Min(S)}
                               \/ /\ n # 1
                                  /\ Spread(h[n - 1], S, n - 1) =>
                                       h[n] = h[n - 1]
                                          \cup {Farthest(h[n - 1], S \ h[n - 1])}
    PROVE  \A n \in 1 .. cap : Spread(h[n], S, n)
<1> DEFINE B == {n \in 1 .. cap : ~Spread(h[n], S, n)}
<1> SUFFICES ASSUME B # {} PROVE FALSE  OBVIOUS
<1>1. PICK n \in B : \A k \in B : n <= k
  <2>1. B \subseteq Nat  OBVIOUS
  <2> HIDE DEF B
  <2>2. QED  BY <2>1, LeastNumber
<1>2. n \in 1 .. cap /\ ~Spread(h[n], S, n)  BY <1>1
<1>3. S # {}  BY FS_EmptySet
<1>4. n # 1
  <2>1. Spread({Min(S)}, S, 1)  BY <1>3, FirstSpreads
  <2>2. n = 1 => h[n] = {Min(S)}  BY <1>2
  <2>3. QED  BY <1>2, <2>1, <2>2
<1>5. Spread(h[n - 1], S, n - 1)
  <2>1. n - 1 \in 1 .. cap /\ ~(n <= n - 1)  BY <1>2, <1>4
  <2>2. QED  BY <1>1, <2>1
<1>6. S \ h[n - 1] # {}
  <2>1. h[n - 1] \subseteq S /\ Cardinality(h[n - 1]) = n - 1  BY <1>5 DEF Spread
  <2>2. h[n - 1] # S  BY <1>2, <2>1
  <2>3. QED  BY <2>1, <2>2
<1>7. h[n] = h[n - 1] \cup {Farthest(h[n - 1], S \ h[n - 1])}
  BY <1>2, <1>4, <1>5
<1>8. n - 1 \in Nat /\ (n - 1) + 1 = n  BY <1>2
<1>9. Spread(h[n - 1] \cup {Farthest(h[n - 1], S \ h[n - 1])}, S, (n - 1) + 1)
  BY <1>5, <1>6, <1>8, NextSpreads
<1>10. QED  BY <1>2, <1>7, <1>8, <1>9

\* There is such a selection, and a cap smaller than the survivors takes the last step of it.
LEMMA SelectionExists ==
    ASSUME Extracted, NEW S, S \subseteq Indices, NEW cap \in Nat, cap < Cardinality(S)
    PROVE  \E h : Selects(h, S, cap)
<1> DEFINE Places == (SUBSET Indices) \X (1 .. cap)
           G == [x \in Places |-> x[1] \cup {Farthest(x[1], S \ x[1])}]
           start == {Min(S)}
<1>1. PICK h : Steps(h, 1, cap, start, G)
  <2> HIDE DEF G, start
  <2>1. 1 \in Nat  OBVIOUS
  <2>2. QED  BY <2>1, StepsExist
<1>2. \A n \in 1 .. cap : h[n] = IF n = 1 THEN start ELSE G[<<h[n - 1], n>>]
  <2> HIDE DEF G, start
  <2>1. QED  BY <1>1 DEF Steps
<1>3. h = [n \in 1 .. cap |-> h[n]]
  <2> HIDE DEF G, start
  <2>1. QED  BY <1>1 DEF Steps
<1>4. \A n \in 1 .. cap : h[n - 1] \in SUBSET Indices =>
        G[<<h[n - 1], n>>] = h[n - 1] \cup {Farthest(h[n - 1], S \ h[n - 1])}
  <2> SUFFICES ASSUME NEW n \in 1 .. cap, h[n - 1] \in SUBSET Indices
      PROVE  G[<<h[n - 1], n>>] = h[n - 1] \cup {Farthest(h[n - 1], S \ h[n - 1])}
    OBVIOUS
  <2>1. <<h[n - 1], n>> \in Places  OBVIOUS
  <2>2. QED  BY <2>1
<1>5. \A n \in 1 .. cap : Spread(h[n], S, n)
  <2>1. \A n \in 1 .. cap : Spread(h[n - 1], S, n - 1) => h[n - 1] \in SUBSET Indices
    BY DEF Spread
  <2> HIDE DEF G
  <2>2. \A n \in 1 .. cap : \/ n = 1 /\ h[n] = {Min(S)}
                            \/ /\ n # 1
                               /\ Spread(h[n - 1], S, n - 1) =>
                                    h[n] = h[n - 1]
                                       \cup {Farthest(h[n - 1], S \ h[n - 1])}
    BY <1>2, <1>4, <2>1
  <2>3. QED  BY <2>2, SelectionSpreads
<1>6. \A n \in 1 .. cap : h[n] =
        IF n = 1 THEN {Min(S)}
        ELSE h[n - 1] \cup {Farthest(h[n - 1], S \ h[n - 1])}
  <2> HIDE DEF G
  <2>1. \A n \in 1 .. cap : n # 1 => h[n - 1] \in SUBSET Indices
    <3>1. \A n \in 1 .. cap : n # 1 => n - 1 \in 1 .. cap  OBVIOUS
    <3>2. QED  BY <1>5, <3>1 DEF Spread
  <2>2. QED  BY <1>2, <1>4, <2>1
<1>7. Selects(h, S, cap)
  <2> HIDE DEF G
  <2>1. QED  BY <1>3, <1>6 DEF Selects
<1>8. QED  BY <1>7

\* A cap that is small enough to matter selects a spread-out subset of its size.
LEMMA SelectDiverseSpreads ==
    ASSUME Extracted, NEW S, S \subseteq Indices, NEW cap \in Nat
    PROVE  IF cap = 0 \/ Cardinality(S) <= cap
           THEN SelectDiverse(S, cap) = S
           ELSE Spread(SelectDiverse(S, cap), S, cap)
<1>1. SelectDiverse(S, cap) =
        IF cap = 0 \/ Cardinality(S) <= cap THEN S
        ELSE (CHOOSE h : Selects(h, S, cap))[cap]
  BY Zenon DEF SelectDiverse, Selects
<1>2. IsFiniteSet(S) /\ Cardinality(S) \in Nat
  <2>1. IsFiniteSet(Indices)  BY FS_Interval, FrameChoiceAssumption DEF Indices
  <2>2. QED  BY <2>1, FS_Subset, FS_CardinalityType
<1>3. CASE cap = 0 \/ Cardinality(S) <= cap  BY <1>1, <1>3
<1>4. CASE ~(cap = 0 \/ Cardinality(S) <= cap)
  <2>1. cap < Cardinality(S) /\ cap \in 1 .. cap  BY <1>2, <1>4
  <2> DEFINE h == CHOOSE g : Selects(g, S, cap)
  <2>2. Selects(h, S, cap)
    <3>1. \E g : Selects(g, S, cap)  BY <2>1, SelectionExists
    <3>2. QED  BY <3>1, Zenon
  <2> HIDE DEF h
  <2>3. \A n \in 1 .. cap : \/ n = 1 /\ h[n] = {Min(S)}
                            \/ /\ n # 1
                               /\ Spread(h[n - 1], S, n - 1) =>
                                    h[n] = h[n - 1]
                                       \cup {Farthest(h[n - 1], S \ h[n - 1])}
    BY <2>2 DEF Selects
  <2>4. Spread(h[cap], S, cap)  BY <2>1, <2>3, SelectionSpreads
  <2>5. SelectDiverse(S, cap) = h[cap]  BY <1>1, <1>4 DEF h
  <2>6. QED  BY <1>4, <2>4, <2>5
<1>5. QED  BY <1>3, <1>4

\* What a preparation keeps is what it selected among the survivors, and the cap took the
\* other ones.
LEMMA PrepareSelects ==
    ASSUME Extracted, NEW d, NEW cap, reason' = Filtered(d, cap)
    PROVE  \E S \in SUBSET Indices :
              /\ {i \in Indices : reason'[i] = ""} = S \cap SelectDiverse(S, cap)
              /\ {i \in Indices : reason'[i] = "cap"} = S \ SelectDiverse(S, cap)
<1> DEFINE L == LastKept(d)
           S == {i \in Indices : Verdict(i, L) = ""}
           chosen == SelectDiverse(S, cap)
<1>1. \A i \in Indices : reason'[i] =
        IF i \in S \ chosen THEN "cap" ELSE Verdict(i, L)
  BY DEF Filtered, Indices
<1>2. \A i \in Indices :
        Verdict(i, L) \in {"", "black", "transition", "blur", "duplicate"}
  <2> HIDE DEF L
  <2>1. QED  BY Verdicts
<1>3. \A i \in Indices : i \in S <=> Verdict(i, L) = ""  OBVIOUS
<1>4. S \in SUBSET Indices  OBVIOUS
<1> HIDE DEF L, S, chosen
<1>5. \A i \in Indices :
        /\ reason'[i] = "" <=> i \in S /\ i \in chosen
        /\ reason'[i] = "cap" <=> i \in S /\ i \notin chosen
  BY <1>1, <1>2, <1>3
<1>6. /\ {i \in Indices : reason'[i] = ""} = S \cap chosen
      /\ {i \in Indices : reason'[i] = "cap"} = S \ chosen
  BY <1>4, <1>5
<1>7. QED  BY <1>4, <1>6 DEF chosen

\* A preparation's cap keeps a spread-out subset.
LEMMA PrepareSpreads ==
    ASSUME Extracted, Prepare
    PROVE  CapSpreads'
<1>1. PICK d \in Thresholds, cap \in Caps :
        /\ asked' = [run |-> "prepare", distance |-> d, cap |-> cap]
        /\ reason' = Filtered(d, cap)
  BY DEF Prepare
<1>2. cap \in Nat /\ asked'.cap = cap  BY <1>1, FrameChoiceAssumption
<1>3. PICK S \in SUBSET Indices :
        /\ {i \in Indices : reason'[i] = ""} = S \cap SelectDiverse(S, cap)
        /\ {i \in Indices : reason'[i] = "cap"} = S \ SelectDiverse(S, cap)
  BY <1>1, PrepareSelects
<1> DEFINE chosen == SelectDiverse(S, cap)
           kept == Kept'
           capped == {i \in Indices : reason'[i] = "cap"}
<1>4. kept = S \cap chosen /\ capped = S \ chosen
  BY <1>3 DEF Kept, Indices
<1>5. frames' = frames  BY DEF Prepare
<1>6. \A C, i : Nearest(C, i)' = Nearest(C, i)
  BY <1>5 DEF Nearest, Apart
<1>7. \A i, j : Apart(i, j)' = Apart(i, j)
  BY <1>5 DEF Apart
<1>8. IF cap = 0 \/ Cardinality(S) <= cap THEN chosen = S ELSE Spread(chosen, S, cap)
  BY <1>2, SelectDiverseSpreads
<1>9. S \subseteq Nat /\ S \subseteq Indices  BY DEF Indices
<1>10. /\ cap # 0 => Cardinality(kept) <= cap
       /\ capped # {} =>
            /\ Cardinality(kept) = cap
            /\ \A i \in capped : Min(kept) < i
            /\ \A i \in capped, j, k \in kept :
                j # k => Nearest(kept, i) <= Apart(j, k)
  <2> HIDE DEF chosen, kept, capped
  <2>1. CASE cap = 0 \/ Cardinality(S) <= cap
    <3>1. kept = S /\ capped = {}  BY <1>4, <1>8, <2>1
    <3>2. QED  BY <2>1, <3>1
  <2>2. CASE ~(cap = 0 \/ Cardinality(S) <= cap)
    <3>1. Spread(chosen, S, cap)  BY <1>8, <2>2
    <3>2. kept = chosen /\ Cardinality(kept) = cap /\ Min(S) \in kept
      BY <1>4, <3>1 DEF Spread
    <3>3. \A i \in capped, j, k \in kept :
            j # k => Nearest(kept, i) <= Apart(j, k)
      BY <1>4, <3>1, <3>2 DEF Spread
    <3>4. \A i \in capped : Min(kept) < i
      <4>1. kept \subseteq S /\ capped \subseteq S /\ kept \cap capped = {}  BY <1>4
      <4>2. \A i \in S : Min(S) <= i  BY <1>9, <3>2, <4>1, MinIsLeast
      <4>3. Min(kept) \in kept /\ \A i \in kept : Min(kept) <= i
        BY <1>9, <3>2, <4>1, MinIsLeast
      <4> DEFINE first == Min(S)
                 least == Min(kept)
      <4>4. first \in Nat /\ least \in Nat /\ first <= least /\ least <= first
        BY <1>9, <3>2, <4>1, <4>2, <4>3
      <4>5. \A i \in capped : i \in Nat /\ i # first /\ first <= i
        BY <1>9, <3>2, <4>1, <4>2
      <4> HIDE DEF first, least
      <4>6. \A i \in capped : least < i  BY <4>4, <4>5
      <4>7. QED  BY <4>6 DEF least
    <3>5. QED  BY <1>2, <3>2, <3>3, <3>4
  <2>3. QED  BY <2>1, <2>2
<1> HIDE DEF chosen
<1>11. QED
  BY <1>2, <1>6, <1>7, <1>10 DEF CapSpreads, Indices

\* The cap keeps as many frames as it allows, the first survivor among them, and takes none
\* that is farther from all of the kept ones than two of those are from each other: the
\* guarantee of farthest-point selection, for every video and every cap.
THEOREM CapKeepsASpread == ChoiceSpec => []CapSpreads
<1> DEFINE Inv == Extracted /\ CapSpreads
<1>1. ChoiceInit => Inv
  <2> SUFFICES ASSUME ChoiceInit PROVE Inv  OBVIOUS
  <2>1. frames \in [Indices -> Frames]
    BY DEF ChoiceInit, Indices
  <2>2. asked.run # "prepare"  BY DEF ChoiceInit
  <2>3. QED  BY <2>1, <2>2 DEF Extracted, CapSpreads
<1>2. Inv /\ [ChoiceNext]_choiceVars => Inv'
  <2> SUFFICES ASSUME Inv, [ChoiceNext]_choiceVars
      PROVE  CapSpreads'
    BY ExtractedKept
  <2>1. CASE Prepare  BY <2>1, PrepareSpreads
  <2>2. CASE Dedup
    <3>1. asked'.run = "dedup"  BY <2>2 DEF Dedup
    <3>2. QED  BY <3>1, OtherRunsPromiseNothing
  <2>3. CASE \E i \in Indices : KeepFrame(i)
    <3>1. PICK i \in Indices : KeepFrame(i)  BY <2>3
    <3>2. asked'.run = "restore"  BY <3>1 DEF KeepFrame
    <3>3. QED  BY <3>2, OtherRunsPromiseNothing
  <2>4. CASE UNCHANGED choiceVars
    <3>1. frames' = frames /\ reason' = reason /\ asked' = asked
      BY <2>4 DEF choiceVars
    <3>2. \A i, j : Apart(i, j)' = Apart(i, j)  BY <3>1 DEF Apart
    <3>3. \A C, i : Nearest(C, i)' = Nearest(C, i)
      BY <3>1 DEF Nearest, Apart
    <3>4. Kept' = Kept  BY <3>1 DEF Kept
    <3>5. QED  BY <3>1, <3>2, <3>3, <3>4 DEF CapSpreads
  <2>5. QED  BY <2>1, <2>2, <2>3, <2>4 DEF ChoiceNext
<1>3. QED  BY <1>1, <1>2, PTL DEF ChoiceSpec

-------------------------------------------------------------------------------
(* What a search for duplicates keeps *)

\* There are finitely many frames.
LEMMA IndicesFinite == IsFiniteSet(Indices)
BY FS_Interval, FrameChoiceAssumption DEF Indices

\* A collection of sets of frames has one that leaves it when any frame is taken out.
LEMMA LeastSet ==
    ASSUME NEW Bad, Bad \subseteq SUBSET Indices, Bad # {}
    PROVE  \E T \in Bad : \A i \in T : T \ {i} \notin Bad
<1> DEFINE sizes == {Cardinality(T) : T \in Bad}
<1>1. \A T \in SUBSET Indices : IsFiniteSet(T) /\ Cardinality(T) \in Nat
  BY IndicesFinite, FS_Subset, FS_CardinalityType
<1>2. PICK n \in sizes : \A k \in sizes : n <= k
  <2>1. sizes \subseteq Nat /\ sizes # {}  BY <1>1
  <2> HIDE DEF sizes
  <2>2. QED  BY <2>1, LeastNumber
<1>3. PICK T \in Bad : Cardinality(T) = n  BY <1>2
<1>4. \A i \in T : Cardinality(T \ {i}) = n - 1
  BY <1>1, <1>3, FS_RemoveElement
<1>5. \A U \in Bad : n <= Cardinality(U)  BY <1>2
<1>6. n \in Nat /\ ~(n <= n - 1)  BY <1>1, <1>3
<1>7. QED  BY <1>3, <1>4, <1>5, <1>6

\* Sharpness is a number.
LEMMA SharpnessIsNumber == Extracted => \A i \in Indices : frames[i].sharp \in Nat
<1>1. \A f \in Frames : f.sharp \in Nat
  <2>1. \A f \in [dead : {FALSE}, hash : SUBSET Bits, sharp : 0 .. MaxSharpness] :
          f.sharp \in 0 .. MaxSharpness
    OBVIOUS
  <2>2. \A f \in [dead : {TRUE}, hash : {{}}, sharp : {0}] : f.sharp \in {0}  OBVIOUS
  <2>3. 0 .. MaxSharpness \subseteq Nat  BY FrameChoiceAssumption
  <2>4. \A f \in Frames : f.sharp \in 0 .. MaxSharpness \/ f.sharp \in {0}
    BY <2>1, <2>2, Zenon DEF Frames
  <2>5. QED  BY <2>3, <2>4
<1>2. Extracted => \A i \in Indices : frames[i] \in Frames  BY DEF Extracted
<1>3. QED  BY <1>1, <1>2

\* The order of the visits has a last one in every set of frames: of the least sharp the
\* latest.
LEMMA LastVisitedIsLast ==
    ASSUME Extracted, NEW T, T \subseteq Indices, T # {}
    PROVE  /\ LastVisited(T) \in T
           /\ \A j \in T \ {LastVisited(T)} : Before(j, LastVisited(T))
<1> DEFINE sharp(i) == frames[i].sharp
           Values == {sharp(i) : i \in T}
<1>1. \A i \in T : sharp(i) \in Nat /\ i \in 1 .. Length
  BY SharpnessIsNumber DEF Indices
<1>2. PICK i0 \in T : \A j \in T : sharp(i0) <= sharp(j)
  <2>1. Values \subseteq Nat /\ Values # {}  BY <1>1
  <2>2. \E x \in Values : \A y \in Values : x <= y
    <3> HIDE DEF Values
    <3>1. QED  BY <2>1, LeastNumber
  <2>3. QED  BY <2>2
<1> DEFINE Dullest == {i \in T : sharp(i) = sharp(i0)}
           Ends == {Length - i : i \in Dullest}
<1>3. PICK l \in Dullest : \A i \in Dullest : Length - l <= Length - i
  <2>1. Ends \subseteq Nat /\ Ends # {}
    <3>1. i0 \in Dullest  OBVIOUS
    <3>2. \A i \in Dullest : i \in 1 .. Length  BY <1>1
    <3> HIDE DEF Dullest
    <3>3. \A i \in Dullest : Length - i \in Nat  BY <3>2, FrameChoiceAssumption
    <3>4. QED  BY <3>1, <3>3
  <2>2. \E x \in Ends : \A y \in Ends : x <= y
    <3> HIDE DEF Ends
    <3>1. QED  BY <2>1, LeastNumber
  <2>3. QED  BY <2>2
<1>4. \A j \in T \ {l} : Before(j, l)
  <2> SUFFICES ASSUME NEW j \in T \ {l} PROVE Before(j, l)  OBVIOUS
  <2>1. sharp(l) = sharp(i0) /\ sharp(l) \in Nat /\ sharp(j) \in Nat
    BY <1>1
  <2>2. CASE j \in Dullest
    <3>1. Length - l <= Length - j  BY <1>3, <2>2
    <3>2. l \in 1 .. Length /\ j \in 1 .. Length /\ l # j  BY <1>1
    <3>3. j < l  BY <3>1, <3>2, FrameChoiceAssumption
    <3>4. QED  BY <2>1, <2>2, <3>3 DEF Before
  <2>3. CASE j \notin Dullest
    <3>1. sharp(i0) <= sharp(j) /\ sharp(j) # sharp(i0)  BY <1>2, <2>3
    <3>2. sharp(j) > sharp(l)  BY <2>1, <3>1
    <3>3. QED  BY <3>2 DEF Before
  <2>4. QED  BY <2>2, <2>3
<1>5. l \in T  OBVIOUS
<1>6. QED
  <2> HIDE DEF Dullest
  <2>1. \E i \in T : \A j \in T \ {i} : Before(j, i)  BY <1>4, <1>5
  <2>2. QED  BY <2>1 DEF LastVisited

\* The recursion of the fold, over the sets of D.
Collects(g, D, t) == g = [T \in D |->
    IF T = {} THEN {}
    ELSE IF \E k \in g[T \ {LastVisited(T)}] : Apart(k, LastVisited(T)) <= t
         THEN g[T \ {LastVisited(T)}]
         ELSE g[T \ {LastVisited(T)}] \cup {LastVisited(T)}]

\* There is a function that satisfies it, set by set in the order of their sizes.
LEMMA CollectsExists ==
    ASSUME Extracted, NEW items, items \subseteq Indices, NEW t
    PROVE  \E g : Collects(g, SUBSET items, t)
<1> DEFINE Sized(n) == {T \in SUBSET items : Cardinality(T) <= n}
           B == {n \in Nat : ~\E g : Collects(g, Sized(n), t)}
<1>1. \A T \in SUBSET items : IsFiniteSet(T) /\ Cardinality(T) \in Nat
  BY IndicesFinite, FS_Subset, FS_CardinalityType
<1>2. \A T \in SUBSET items : T # {} =>
        /\ T \ {LastVisited(T)} \in SUBSET items
        /\ Cardinality(T \ {LastVisited(T)}) = Cardinality(T) - 1
  <2>1. \A T \in SUBSET items : T # {} => LastVisited(T) \in T  BY LastVisitedIsLast
  <2>2. QED  BY <1>1, <2>1, FS_RemoveElement
<1> DEFINE Joined(K, l) == IF \E k \in K : Apart(k, l) <= t THEN K ELSE K \cup {l}
<1> HIDE DEF Joined
<1>3. \A g, D : Collects(g, D, t) <=>
        g = [T \in D |-> IF T = {} THEN {} ELSE Joined(g[T \ {LastVisited(T)}], LastVisited(T))]
  BY Zenon DEF Collects, Joined
<1>4. B = {}
  <2> SUFFICES ASSUME B # {} PROVE FALSE  OBVIOUS
  <2>1. PICK n \in B : \A k \in B : n <= k
    <3>1. B \subseteq Nat  OBVIOUS
    <3> HIDE DEF B
    <3>2. QED  BY <3>1, LeastNumber
  <2>2. CASE n = 0
    <3> DEFINE g == [T \in Sized(0) |-> {}]
    <3>1. \A T \in Sized(0) : T = {}  BY <1>1, FS_EmptySet
    <3>2. Collects(g, Sized(0), t)  BY <1>3, <3>1
    <3>3. QED  BY <2>1, <2>2, <3>2
  <2>3. CASE n # 0
    <3>1. n \in Nat /\ n - 1 \in Nat /\ ~(n <= n - 1)  BY <2>3
    <3>2. n - 1 \notin B  BY <2>1, <3>1
    <3>3. PICK h : Collects(h, Sized(n - 1), t)  BY <3>1, <3>2
    <3> DEFINE g == [T \in Sized(n) |->
                       IF T = {} THEN {}
                       ELSE Joined(h[T \ {LastVisited(T)}], LastVisited(T))]
    <3>4. \A T \in Sized(n) : T # {} => T \ {LastVisited(T)} \in Sized(n - 1)
      BY <1>1, <1>2, <3>1
    <3>5. \A U \in Sized(n - 1) : U \in Sized(n) /\ h[U] = g[U]
      <4>1. \A U \in Sized(n - 1) : U \in Sized(n)  BY <1>1, <3>1
      <4>2. h = [U \in Sized(n - 1) |->
                   IF U = {} THEN {} ELSE Joined(h[U \ {LastVisited(U)}], LastVisited(U))]
        <5> HIDE DEF Sized
        <5>1. QED  BY <1>3, <3>3, Zenon
      <4> HIDE DEF Sized
      <4>3. \A U \in Sized(n - 1) :
              h[U] = IF U = {} THEN {}
                     ELSE Joined(h[U \ {LastVisited(U)}], LastVisited(U))
        BY <4>2
      <4>4. QED  BY <4>1, <4>3
    <3>6. Collects(g, Sized(n), t)
      <4>1. \A T \in Sized(n) : T # {} =>
              h[T \ {LastVisited(T)}] = g[T \ {LastVisited(T)}]
        BY <3>4, <3>5
      <4> DEFINE g2 == [T \in Sized(n) |->
                          IF T = {} THEN {}
                          ELSE Joined(g[T \ {LastVisited(T)}], LastVisited(T))]
      <4>2. \A T \in Sized(n) : g[T] = g2[T]
        <5> HIDE DEF Sized
        <5>1. QED  BY <4>1
      <4>3. g = [T \in Sized(n) |-> g[T]]  OBVIOUS
      <4> HIDE DEF g, Sized
      <4>4. g = g2  BY <4>2, <4>3
      <4>5. QED  BY <1>3, <4>4
    <3> HIDE DEF g, Sized
    <3>7. n \notin B  BY <3>6
    <3>8. QED  BY <2>1, <3>7
  <2>4. QED  BY <2>2, <2>3
<1>5. Cardinality(items) \in Nat  BY <1>1
<1>6. Sized(Cardinality(items)) = SUBSET items
  BY <1>1, FS_Subset
<1>7. QED  BY <1>4, <1>5, <1>6

\* What a search promises of the frames it keeps of T: each other one is near one that is
\* kept and at least as sharp, and no two of the kept ones are near.
Represents(K, T, t) ==
    /\ K \subseteq T
    /\ \A i \in T \ K : \E k \in K : Apart(i, k) <= t /\ frames[k].sharp >= frames[i].sharp
    /\ \A j, k \in K : j # k => Apart(j, k) > t

\* The last visited frame joins or is near to none; what was visited before is no duller.
LEMMA NextRepresents ==
    ASSUME Extracted, NEW T, T \subseteq Indices, T # {}, NEW t \in Nat, NEW K,
           Represents(K, T \ {LastVisited(T)}, t)
    PROVE  IF \E k \in K : Apart(k, LastVisited(T)) <= t
           THEN Represents(K, T, t)
           ELSE Represents(K \cup {LastVisited(T)}, T, t)
<1>1. PICK l \in T : l = LastVisited(T) /\ \A j \in T \ {l} : Before(j, l)
  BY LastVisitedIsLast
<1>2. /\ K \subseteq T \ {l}
      /\ \A i \in (T \ {l}) \ K :
          \E k \in K : Apart(i, k) <= t /\ frames[k].sharp >= frames[i].sharp
      /\ \A j, k \in K : j # k => Apart(j, k) > t
  BY <1>1 DEF Represents
<1>3. \A i, j \in T : Apart(i, j) \in Nat /\ Apart(i, j) = Apart(j, i)
  <2>1. \A i, j \in Indices :
          /\ Apart(i, j) \in 0 .. Cardinality(Bits)
          /\ Apart(i, j) = Apart(j, i)
    BY Distances
  <2>2. QED  BY <2>1, Distances
<1>4. \A i \in T : frames[i].sharp \in Nat
  BY SharpnessIsNumber
<1>5. \A k \in K : frames[k].sharp >= frames[l].sharp
  BY <1>1, <1>2, <1>4 DEF Before
<1>6. CASE \E k \in K : Apart(k, l) <= t
  <2>1. PICK k \in K : Apart(l, k) <= t /\ frames[k].sharp >= frames[l].sharp
    BY <1>2, <1>3, <1>5, <1>6
  <2>2. \A i \in T \ K : i = l \/ i \in (T \ {l}) \ K  OBVIOUS
  <2>3. Represents(K, T, t)  BY <1>2, <2>1, <2>2 DEF Represents
  <2>4. QED  BY <1>1, <1>6, <2>3
<1>7. CASE ~\E k \in K : Apart(k, l) <= t
  <2>1. \A k \in K : Apart(k, l) > t /\ Apart(l, k) > t
    BY <1>2, <1>3, <1>7
  <2>2. \A i \in T \ (K \cup {l}) : i \in (T \ {l}) \ K  OBVIOUS
  <2>3. Represents(K \cup {l}, T, t)  BY <1>2, <2>1, <2>2 DEF Represents
  <2>4. QED  BY <1>1, <1>7, <2>3
<1>8. QED  BY <1>6, <1>7

\* The keepers stand for all of what was searched.
LEMMA KeepersRepresent ==
    ASSUME Extracted, NEW items, items \subseteq Indices, NEW t \in Nat
    PROVE  Represents(Keepers(items, t), items, t)
<1> DEFINE g == CHOOSE h : Collects(h, SUBSET items, t)
<1>1. Keepers(items, t) = g[items]
  BY Zenon DEF Keepers, MapThenFoldSet, Collects
<1>2. Collects(g, SUBSET items, t)
  <2>1. \E h : Collects(h, SUBSET items, t)  BY CollectsExists
  <2>2. QED  BY <2>1, Zenon
<1> HIDE DEF g
<1>3. \A T \in SUBSET items :
        g[T] = IF T = {} THEN {}
               ELSE IF \E k \in g[T \ {LastVisited(T)}] : Apart(k, LastVisited(T)) <= t
                    THEN g[T \ {LastVisited(T)}]
                    ELSE g[T \ {LastVisited(T)}] \cup {LastVisited(T)}
  BY <1>2 DEF Collects
<1> DEFINE Bad == {T \in SUBSET items : ~Represents(g[T], T, t)}
<1>4. Bad = {}
  <2> SUFFICES ASSUME Bad # {} PROVE FALSE  OBVIOUS
  <2>1. PICK T \in Bad : \A i \in T : T \ {i} \notin Bad
    <3>1. Bad \subseteq SUBSET Indices  OBVIOUS
    <3> HIDE DEF Bad
    <3>2. QED  BY <3>1, LeastSet
  <2>2. T \in SUBSET items /\ ~Represents(g[T], T, t)  BY <2>1
  <2>3. T # {}
    <3>1. Represents({}, {}, t)  BY DEF Represents
    <3>2. T = {} => g[T] = {}  BY <1>3, <2>2
    <3>3. QED  BY <2>2, <3>1, <3>2
  <2>4. LastVisited(T) \in T  BY <2>2, <2>3, LastVisitedIsLast
  <2>5. T \ {LastVisited(T)} \in SUBSET items  BY <2>2
  <2>6. T \ {LastVisited(T)} \notin Bad  BY <2>1, <2>4
  <2>7. Represents(g[T \ {LastVisited(T)}], T \ {LastVisited(T)}, t)  BY <2>5, <2>6
  <2> DEFINE K == g[T \ {LastVisited(T)}]
  <2>8. IF \E k \in K : Apart(k, LastVisited(T)) <= t
        THEN Represents(K, T, t)
        ELSE Represents(K \cup {LastVisited(T)}, T, t)
    <3> HIDE DEF K
    <3>1. T \subseteq Indices  BY <2>2
    <3>2. QED  BY <2>3, <2>7, <3>1, NextRepresents DEF K
  <2>9. g[T] = IF \E k \in K : Apart(k, LastVisited(T)) <= t
               THEN K ELSE K \cup {LastVisited(T)}
    BY <1>3, <2>2, <2>3
  <2> HIDE DEF K
  <2>10. Represents(g[T], T, t)  BY <2>8, <2>9
  <2>11. QED  BY <2>2, <2>10
<1>5. QED  BY <1>1, <1>4

\* A search for duplicates never loses a picture and never leaves a near copy: for every
\* video, and whatever was searched for, or put back by the user, before.
THEOREM SearchKeepsTheSharpest == ChoiceSpec => DedupKeepsTheSharpest
<1> DEFINE Good ==
        /\ \A i \in Kept \ Kept' : \E k \in Kept' :
            Apart(i, k) <= asked'.distance /\ frames[k].sharp >= frames[i].sharp
        /\ \A j, k \in Kept' : j # k => Apart(j, k) > asked'.distance
<1>1. ChoiceInit => Extracted
  BY DEF ChoiceInit, Extracted
<1>2. Extracted /\ [ChoiceNext]_choiceVars => [Dedup => Good]_choiceVars
  <2> SUFFICES ASSUME Extracted, Dedup PROVE Good  OBVIOUS
  <2>1. PICK t \in Thresholds :
          /\ asked' = [run |-> "dedup", distance |-> t, cap |-> 0]
          /\ reason' = [i \in Indices |->
                 IF i \in Kept \ Keepers(Kept, t) THEN "duplicate_global" ELSE reason[i]]
    BY DEF Dedup
  <2>2. t \in Nat /\ asked'.distance = t  BY <2>1, FrameChoiceAssumption
  <2>3. Represents(Keepers(Kept, t), Kept, t)
    <3>1. Kept \subseteq Indices  BY DEF Kept
    <3>2. QED  BY <2>2, <3>1, KeepersRepresent
  <2> DEFINE K == Keepers(Kept, t)
  <2>4. Kept' = K
    <3>1. K \subseteq Kept  BY <2>3 DEF Represents
    <3>2. \A i \in Indices : reason'[i] =
            IF i \in Kept \ K THEN "duplicate_global" ELSE reason[i]
      BY <2>1
    <3> HIDE DEF K
    <3>3. QED  BY <3>1, <3>2 DEF Kept
  <2>5. Represents(Kept', Kept, asked'.distance)  BY <2>2, <2>3, <2>4
  <2>6. QED  BY <2>5 DEF Represents
<1>3. QED  BY <1>1, <1>2, ExtractedKept, PTL DEF ChoiceSpec, DedupKeepsTheSharpest

=====================================================================================
