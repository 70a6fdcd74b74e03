------------------------------ MODULE DownloadsProofs ------------------------------
(***************************************************************************)
(* Proofs about Downloads, for any number of downloads, files, roles,      *)
(* callers, retries and restarts: a file is fetched once however many      *)
(* callers ask for it, no row is left half done, and every role arrives.   *)
(*                                                                         *)
(* DInv strengthens the three until a step keeps it:                       *)
(*   Known     the worker and the requests hold downloads that were born,  *)
(*   Over      a row that is over, or about to be deleted, is history,     *)
(*   Locked    who stands between the two steps of an enqueue or a finish  *)
(*             holds the enqueue lock,                                     *)
(*   Single    while an insert is due its file has no download under way,  *)
(*   Progress  where the worker stands while a row reads running or        *)
(*             verifying,                                                  *)
(*   Arrive    a merge is never due for a row that is done, and only       *)
(*             imported models have roles.                                 *)
(* The bound on the retries is not needed and stays with TLC.              *)
(***************************************************************************)
EXTENDS Downloads, TLAPS

Types ==
    /\ row \in [Ids -> Terminal \cup Active \cup Absent]
    /\ sha \in [Ids -> Files \cup {NoOne}]
    /\ roles \in [Ids -> SUBSET Roles]
    /\ library \subseteq Files /\ tags \in [Files -> SUBSET Roles]
    /\ lock \in Requests \cup {Worker, NoOne}
    /\ wpc \in WorkerPC /\ cur \in Ids \cup {NoOne} /\ carry \subseteq Roles
    /\ rpc \in [Requests -> RequestPC] /\ rid \in [Requests -> Ids \cup {NoOne}]
    /\ wish \in [Requests -> Wishes]
    /\ ended \subseteq Ids

Born(d) == d \in Ids /\ row[d] # "unborn"

Known ==
    /\ wpc # "idle" => Born(cur)
    /\ wpc = "idle" => cur = NoOne
    /\ \A q \in Requests : rpc[q] \notin {"idle", "insert"} => Born(rid[q])
    /\ \A q \in Requests : rpc[q] = "insert" => wish[q].file \in Files
    /\ \A d \in Ids : row[d] # "unborn" => sha[d] \in Files

Over ==
    /\ \A d \in Ids : row[d] \in Terminal \cup {"gone"} => d \in ended
    /\ \A q \in Requests : rpc[q] \in {"discard", "delete"} => rid[q] \in ended
    /\ \A q \in Requests : rpc[q] = "write" => wish[q].next \in {"queued", "paused", "failed"}

Locked ==
    /\ \A q \in Requests : rpc[q] \in {"insert", "merge", "requeue"} => lock = q
    /\ wpc \in {"done", "fetch"} => lock = Worker

Single == \A q \in Requests : rpc[q] = "insert" =>
    \A e \in Ids : row[e] \in Active => e \in ended \/ sha[e] # wish[q].file

Progress ==
    /\ \A d \in Ids : row[d] = "running" =>
          cur = d /\ wpc \in {"open", "stream", "retry", "bumped", "sleep", "toverify", "error"}
    /\ \A d \in Ids : row[d] = "verifying" =>
          cur = d /\ wpc \in {"verify", "reject", "import", "finish", "done", "error"}

Arrive ==
    /\ \A q \in Requests : rpc[q] = "merge" => row[rid[q]] # "done"
    /\ wpc \in {"finish", "done", "fetch"} => sha[cur] \in library
    /\ \A f \in Files \ library : tags[f] = {}

DInv ==
    /\ Types /\ Known /\ Over /\ Locked /\ Single /\ Progress /\ Arrive
    /\ EnqueueOnce /\ RolesArrive

-------------------------------------------------------------------------------
(* The pieces the actions are made of *)

\* A call of the worker or a request to set_state writes one row, unless it is gone.
LEMMA SetStateFacts ==
    ASSUME Types, NEW d \in Ids, row[d] # "unborn", NEW s \in Terminal \cup Active, SetState(d, s)
    PROVE  /\ row' \in [Ids -> Terminal \cup Active \cup Absent]
           /\ row'[d] = IF row[d] = "gone" THEN "gone" ELSE s
           /\ \A e \in Ids \ {d} : row'[e] = row[e]
           /\ \A e \in Ids : row'[e] = "unborn" <=> row[e] = "unborn"
           /\ ended' \subseteq Ids /\ ended \subseteq ended' /\ sha' = sha /\ cut' = cut
           /\ s \in Terminal => d \in ended'
BY DEF SetState, Types, Terminal, Active, Absent

\* A request that goes on, or has its answer.
LEMMA ReplyFacts ==
    ASSUME Types, NEW q \in Requests, Reply(q)
    PROVE  /\ rpc' \in [Requests -> RequestPC] /\ rid' \in [Requests -> Ids \cup {NoOne}]
           /\ wish' \in [Requests -> Wishes]
           /\ rpc'[q] = "idle"
           /\ \A p \in Requests \ {q} : rpc'[p] = rpc[p] /\ rid'[p] = rid[p] /\ wish'[p] = wish[p]
BY DEF Reply, Types, RequestPC, Wishes, NoWish

\* What a request changes when it goes on to a label.
LEMMA RGotoFacts ==
    ASSUME Types, NEW q \in Requests, NEW label \in RequestPC, RGoto(q, label)
    PROVE  /\ rpc' \in [Requests -> RequestPC] /\ rid' = rid /\ wish' = wish
           /\ rpc'[q] = label
           /\ \A p \in Requests \ {q} : rpc'[p] = rpc[p]
BY DEF RGoto, Types

\* What it changes when it begins.
LEMMA CallFacts ==
    ASSUME Types, NEW q \in Requests, NEW d \in Ids \cup {NoOne}, NEW w \in Wishes,
           NEW label \in RequestPC, Call(q, d, w, label)
    PROVE  /\ rpc' \in [Requests -> RequestPC] /\ rid' \in [Requests -> Ids \cup {NoOne}]
           /\ wish' \in [Requests -> Wishes]
           /\ rpc[q] = "idle" /\ rpc'[q] = label /\ rid'[q] = d /\ wish'[q] = w
           /\ \A p \in Requests \ {q} : rpc'[p] = rpc[p] /\ rid'[p] = rid[p] /\ wish'[p] = wish[p]
BY DEF Call, Types

-------------------------------------------------------------------------------
(* The requests *)

\* Enqueue reads under the lock whether the file is being fetched.
LEMMA EnqueueKeeps ==
    ASSUME DInv, NEW q \in Requests, NEW f \in Files, NEW rs \in SUBSET Roles, Enqueue(q, f, rs)
    PROVE  DInv'
<1> USE HolderAssumption DEF DInv
<1>1. /\ lock = NoOne /\ lock' = q
      /\ UNCHANGED <<row, sha, roles, library, tags, wpc, cur, carry, ended, cut>>
  BY DEF Enqueue, LockIsFree, table, disk, worker, history
<1>2. \A next \in {"queued", "same"} :
        [file |-> f, roles |-> rs, next |-> next] \in Wishes
  BY DEF Wishes
<1>3. CASE \E d \in Ids, w \in Wishes :
             row[d] \in Active /\ Call(q, d, w, "merge")
  <2>1. PICK d \in Ids, w \in Wishes : row[d] \in Active /\ Call(q, d, w, "merge")  BY <1>3
  <2>2. /\ rpc' \in [Requests -> RequestPC] /\ rid' \in [Requests -> Ids \cup {NoOne}]
        /\ wish' \in [Requests -> Wishes]
        /\ rpc[q] = "idle" /\ rpc'[q] = "merge" /\ rid'[q] = d /\ wish'[q] = w
        /\ \A p \in Requests \ {q} : rpc'[p] = rpc[p] /\ rid'[p] = rid[p] /\ wish'[p] = wish[p]
    BY <2>1, CallFacts DEF RequestPC
  <2>3. Types'  BY <1>1, <2>2 DEF Types
  <2>4. Known'  BY <1>1, <2>1, <2>2 DEF Known, Born, Active
  <2>5. Over'  BY <1>1, <2>2 DEF Over
  <2>6. Locked'  BY <1>1, <2>2 DEF Locked
  <2>7. Single' /\ Progress'  BY <1>1, <2>2 DEF Single, Progress
  <2>8. Arrive' /\ EnqueueOnce' /\ RolesArrive'
    BY <1>1, <2>1, <2>2 DEF Arrive, EnqueueOnce, RolesArrive, Active
  <2>9. QED  BY <2>3, <2>4, <2>5, <2>6, <2>7, <2>8
<1>4. CASE \E w \in Wishes :
             /\ w.file = f /\ Call(q, NoOne, w, "insert")
             /\ \A e \in Ids : row[e] \in Active => sha[e] # f
  <2>1. PICK w \in Wishes :
             /\ w.file = f /\ Call(q, NoOne, w, "insert")
             /\ \A e \in Ids : row[e] \in Active => sha[e] # f
    BY <1>4
  <2>2. /\ rpc' \in [Requests -> RequestPC] /\ rid' \in [Requests -> Ids \cup {NoOne}]
        /\ wish' \in [Requests -> Wishes]
        /\ rpc[q] = "idle" /\ rpc'[q] = "insert" /\ wish'[q] = w
        /\ \A p \in Requests \ {q} : rpc'[p] = rpc[p] /\ rid'[p] = rid[p] /\ wish'[p] = wish[p]
    BY <2>1, CallFacts DEF RequestPC
  <2>3. Types'  BY <1>1, <2>2 DEF Types
  <2>4. Known'  BY <1>1, <2>1, <2>2 DEF Known, Born
  <2>5. Over'  BY <1>1, <2>2 DEF Over
  <2>6. Locked'  BY <1>1, <2>2 DEF Locked
  <2>7. Single'  BY <1>1, <2>1, <2>2 DEF Single
  <2>8. Arrive' /\ Progress' /\ EnqueueOnce' /\ RolesArrive'
    BY <1>1, <2>2 DEF Arrive, Progress, EnqueueOnce, RolesArrive
  <2>9. QED  BY <2>3, <2>4, <2>5, <2>6, <2>7, <2>8
<1>5. QED
  <2> DEFINE w(next) == [file |-> f, roles |-> rs, next |-> next]
  <2>1. \/ \E d \in ActiveOf(f) :
              Call(q, d, w(IF row[d] = "paused" THEN "queued" ELSE "same"), "merge")
        \/ ActiveOf(f) = {} /\ Call(q, NoOne, w("queued"), "insert")
    BY DEF Enqueue
  <2>2. w("queued") \in Wishes /\ w("same") \in Wishes /\ w("queued").file = f  BY <1>2
  <2> HIDE DEF w
  <2>3. \A d \in ActiveOf(f) : d \in Ids /\ row[d] \in Active  BY DEF ActiveOf
  <2>4. ActiveOf(f) = {} => \A e \in Ids : row[e] \in Active => sha[e] # f  BY DEF ActiveOf
  <2>5. QED  BY <1>3, <1>4, <2>1, <2>2, <2>3, <2>4

\* The insert is the only birth, of a file that nobody is fetching.
LEMMA InsertKeeps ==
    ASSUME DInv, NEW q \in Requests, Insert(q)
    PROVE  DInv'
<1> USE HolderAssumption DEF DInv
<1>1. PICK d \in Ids :
        /\ rpc[q] = "insert" /\ lock' = NoOne
        /\ row[d] = "unborn"
        /\ row' = [row EXCEPT ![d] = "queued"]
        /\ sha' = [sha EXCEPT ![d] = wish[q].file]
        /\ roles' = [roles EXCEPT ![d] = wish[q].roles]
        /\ UNCHANGED <<library, tags, wpc, cur, carry, ended, cut>>
  BY DEF Insert, disk, worker, history
<1>2. /\ rpc' \in [Requests -> RequestPC] /\ rid' \in [Requests -> Ids \cup {NoOne}]
      /\ wish' \in [Requests -> Wishes]
      /\ rpc'[q] = "idle"
      /\ \A p \in Requests \ {q} : rpc'[p] = rpc[p] /\ rid'[p] = rid[p] /\ wish'[p] = wish[p]
  BY ReplyFacts DEF Insert
<1>3. wish[q].file \in Files /\ wish[q].roles \in SUBSET Roles
  BY <1>1 DEF Known, Types, Wishes
<1>4. /\ row'[d] = "queued" /\ sha'[d] = wish[q].file /\ roles'[d] = wish[q].roles
      /\ \A e \in Ids \ {d} : row'[e] = row[e] /\ sha'[e] = sha[e] /\ roles'[e] = roles[e]
      /\ row' \in [Ids -> Terminal \cup Active \cup Absent]
      /\ sha' \in [Ids -> Files \cup {NoOne}] /\ roles' \in [Ids -> SUBSET Roles]
  BY <1>1, <1>3 DEF Types, Active
<1>5. \A p \in Requests \ {q} : rpc[p] \notin {"insert", "merge", "requeue"}
  BY <1>1 DEF Locked
<1>6. wpc \notin {"done", "fetch"} /\ lock = q  BY <1>1 DEF Locked
<1>7. Types'  BY <1>1, <1>2, <1>4 DEF Types
<1>8. Known'  BY <1>1, <1>2, <1>3, <1>4 DEF Known, Born
<1>9. Over'  BY <1>1, <1>2, <1>4 DEF Over, Terminal
<1>10. Locked'  BY <1>1, <1>2, <1>5, <1>6 DEF Locked
<1>11. Single'  BY <1>2, <1>5 DEF Single
<1>12. Progress'  BY <1>1, <1>4 DEF Progress
<1>13. Arrive'  BY <1>1, <1>2, <1>4, <1>5 DEF Arrive, Known, Born
<1>14. EnqueueOnce'
  <2>1. \A e \in Ids \ ended : row[e] \in Active => sha[e] # wish[q].file
    BY <1>1 DEF Single
  <2>2. QED  BY <1>1, <1>4, <2>1 DEF EnqueueOnce
<1>15. RolesArrive'  BY <1>1, <1>4 DEF RolesArrive
<1>16. QED  BY <1>7, <1>8, <1>9, <1>10, <1>11, <1>12, <1>13, <1>14, <1>15

\* A row that is not born, or not active any more, is of no interest to the others: a
\* write of a born row by a request, while nothing waits for its own write of it.
LEMMA RowWriteKeeps ==
    ASSUME DInv, NEW d \in Ids, row[d] # "unborn", NEW s \in {"queued", "paused", "failed"},
           SetState(d, s)
    PROVE  /\ \A e \in Ids : row'[e] \in {"running", "verifying"} => row'[e] = row[e]
           /\ \A e \in Ids : row'[e] \in Terminal \cup {"gone"} => e \in ended'
           /\ \A e \in Ids : row'[e] = "done" => row[e] = "done"
           /\ \A e \in Ids : row'[e] \in Active => e \in ended' \/ row[e] \in Active
           /\ \A e \in Ids : row'[e] = "unborn" <=> row[e] = "unborn"
<1>1. s \in Terminal \cup Active  BY DEF Terminal, Active
<1>2. /\ row'[d] = IF row[d] = "gone" THEN "gone" ELSE s
      /\ \A e \in Ids \ {d} : row'[e] = row[e]
      /\ \A e \in Ids : row'[e] = "unborn" <=> row[e] = "unborn"
      /\ ended \subseteq ended' /\ (s \in Terminal => d \in ended')
  BY <1>1, SetStateFacts DEF DInv
<1>3. row[d] \in Active \/ d \in ended
  BY DEF DInv, Types, Over, Absent
<1>4. QED  BY <1>2, <1>3 DEF DInv, Over, Terminal, Active

\* The parts of the invariant a request's write of a born row keeps.
LEMMA RequestWriteKeeps ==
    ASSUME DInv, NEW d \in Ids, row[d] # "unborn", NEW s \in {"queued", "paused", "failed"},
           SetState(d, s), NEW q \in Requests,
           UNCHANGED <<roles, library, tags, wpc, cur, carry>>,
           rpc' \in [Requests -> RequestPC], rid' \in [Requests -> Ids \cup {NoOne}],
           wish' \in [Requests -> Wishes], lock' \in {lock, NoOne},
           rpc'[q] \in {"idle", "discard"}, rpc'[q] = "discard" => rid'[q] = d /\ s = "failed",
           \A p \in Requests \ {q} : rpc'[p] = rpc[p] /\ rid'[p] = rid[p] /\ wish'[p] = wish[p],
           lock' # lock => lock = q
    PROVE  DInv'
<1> USE HolderAssumption DEF DInv
<1>1. s \in Terminal \cup Active  BY DEF Terminal, Active
<1>2. /\ row' \in [Ids -> Terminal \cup Active \cup Absent]
      /\ ended' \subseteq Ids /\ ended \subseteq ended' /\ sha' = sha /\ cut' = cut
      /\ s \in Terminal => d \in ended'
  BY <1>1, SetStateFacts
<1>3. /\ \A e \in Ids : row'[e] \in {"running", "verifying"} => row'[e] = row[e]
      /\ \A e \in Ids : row'[e] \in Terminal \cup {"gone"} => e \in ended'
      /\ \A e \in Ids : row'[e] = "done" => row[e] = "done"
      /\ \A e \in Ids : row'[e] \in Active => e \in ended' \/ row[e] \in Active
      /\ \A e \in Ids : row'[e] = "unborn" <=> row[e] = "unborn"
  BY RowWriteKeeps
<1>4. Types'  BY <1>2 DEF Types
<1>5. Known'  BY <1>2, <1>3 DEF Known, Born, Types
<1>6. Over'  BY <1>2, <1>3 DEF Over, Terminal
<1>7. Locked'
  <2>1. \A p \in Requests \ {q} : lock = p => lock' = lock  OBVIOUS
  <2>2. wpc \in {"done", "fetch"} => lock' = Worker  BY DEF Locked
  <2>3. QED  BY <2>1, <2>2 DEF Locked
<1>8. Single' /\ EnqueueOnce'
  BY <1>2, <1>3 DEF Single, EnqueueOnce
<1>9. Progress'  BY <1>3 DEF Progress
<1>10. Arrive' /\ RolesArrive'
  BY <1>2, <1>3 DEF Arrive, RolesArrive, Known, Born
<1>11. QED  BY <1>4, <1>5, <1>6, <1>7, <1>8, <1>9, <1>10

\* The steps of a request that leave the rows alone but for the roles of one that is
\* not done, the staging folder aside.
LEMMA RequestReadKeeps ==
    ASSUME DInv, NEW q \in Requests,
           UNCHANGED <<row, sha, library, tags, wpc, cur, carry, ended, cut>>,
           roles' \in [Ids -> SUBSET Roles],
           \A e \in Ids : row[e] = "done" => roles'[e] = roles[e],
           rpc' \in [Requests -> RequestPC], rid' \in [Requests -> Ids \cup {NoOne}],
           wish' \in [Requests -> Wishes], lock' \in {lock, NoOne},
           \A p \in Requests \ {q} : rpc'[p] = rpc[p] /\ rid'[p] = rid[p] /\ wish'[p] = wish[p],
           lock' # lock => lock = q,
           rpc'[q] \notin {"insert", "merge"},
           rpc'[q] = "requeue" => lock' = q,
           rpc'[q] # "idle" => Born(rid'[q]),
           rpc'[q] \in {"discard", "delete"} => rid'[q] \in ended,
           rpc'[q] = "write" => wish'[q].next \in {"queued", "paused", "failed"}
    PROVE  DInv'
<1> USE HolderAssumption DEF DInv
<1>1. Types'  BY DEF Types
<1>2. Known'  BY DEF Known, Born
<1>3. Over'  BY DEF Over
<1>4. Locked'
  <2>1. \A p \in Requests \ {q} : lock = p => lock' = lock  OBVIOUS
  <2>2. wpc \in {"done", "fetch"} => lock' = Worker  BY DEF Locked
  <2>3. QED  BY <2>1, <2>2 DEF Locked
<1>5. Single' /\ EnqueueOnce' /\ Progress'  BY DEF Single, EnqueueOnce, Progress
<1>6. Arrive' /\ RolesArrive'  BY DEF Arrive, RolesArrive
<1>7. QED  BY <1>1, <1>2, <1>3, <1>4, <1>5, <1>6

\* Every step of a request keeps the invariant.
LEMMA RequestKeeps ==
    ASSUME DInv, NEW q \in Requests, NewCall(q) \/ Continue(q)
    PROVE  DInv'
<1> USE HolderAssumption
<1>0. Types /\ Over /\ Known /\ Locked  BY DEF DInv
<1>1. ASSUME NEW f \in Files, NEW rs \in SUBSET Roles, Enqueue(q, f, rs)  PROVE DInv'
  BY <1>1, EnqueueKeeps
<1>2. ASSUME NEW d \in Ids, NEW from, NEW next \in {"queued", "paused", "failed", "gone"},
             NEW label \in {"write", "discard"}, Ask(q, d, from, next, label),
             "unborn" \notin from, label = "discard" => from = Terminal,
             label = "write" => next # "gone"
      PROVE  DInv'
  <2> DEFINE w == [NoWish EXCEPT !.next = next]
  <2>1. w \in Wishes /\ w.next = next  BY <1>2 DEF NoWish, Wishes
  <2> HIDE DEF w
  <2>2. /\ row[d] \in from /\ Call(q, d, w, label)
        /\ UNCHANGED <<row, sha, roles, library, tags, lock, wpc, cur, carry, ended, cut>>
    BY <1>2 DEF Ask, table, disk, worker, history, w
  <2>3. /\ rpc' \in [Requests -> RequestPC] /\ rid' \in [Requests -> Ids \cup {NoOne}]
        /\ wish' \in [Requests -> Wishes]
        /\ rpc[q] = "idle" /\ rpc'[q] = label /\ rid'[q] = d /\ wish'[q] = w
        /\ \A p \in Requests \ {q} : rpc'[p] = rpc[p] /\ rid'[p] = rid[p] /\ wish'[p] = wish[p]
    BY <1>0, <1>2, <2>1, <2>2, CallFacts DEF RequestPC
  <2>4. Born(d) /\ (label = "discard" => d \in ended)
    BY <1>0, <1>2, <2>2 DEF Born, Over
  <2>5. roles' \in [Ids -> SUBSET Roles]  BY <1>0, <2>2 DEF Types
  <2>6. QED  BY <1>2, <2>1, <2>2, <2>3, <2>4, <2>5, RequestReadKeeps
<1>3. CASE Insert(q)  BY <1>3, InsertKeeps
<1>4. CASE MergeRoles(q)
  <2>1. /\ rpc[q] = "merge" /\ Born(rid[q]) /\ row[rid[q]] # "done" /\ lock = q
        /\ wish[q].roles \in SUBSET Roles
    BY <1>0, <1>4 DEF MergeRoles, Known, Locked, Types, Wishes, DInv, Arrive
  <2>2. /\ UNCHANGED <<row, sha, library, tags, wpc, cur, carry, ended, cut>>
        /\ roles' = [roles EXCEPT ![rid[q]] = @ \cup wish[q].roles]
    BY <1>4 DEF MergeRoles, disk, worker
  <2>3. /\ roles' \in [Ids -> SUBSET Roles]
        /\ \A e \in Ids : row[e] = "done" => roles'[e] = roles[e]
    BY <1>0, <2>1, <2>2 DEF Types
  <2>4. CASE RGoto(q, "requeue") /\ UNCHANGED lock
    <3>1. /\ rpc' \in [Requests -> RequestPC] /\ rid' = rid /\ wish' = wish
          /\ rpc'[q] = "requeue" /\ \A p \in Requests \ {q} : rpc'[p] = rpc[p]
      BY <1>0, <2>4, RGotoFacts DEF RequestPC
    <3>2. QED  BY <1>0, <2>1, <2>2, <2>3, <2>4, <3>1, RequestReadKeeps DEF Types
  <2>5. CASE Reply(q) /\ lock' = NoOne
    BY <1>0, <2>1, <2>2, <2>3, <2>5, ReplyFacts, RequestReadKeeps
  <2>6. QED  BY <1>4, <2>4, <2>5 DEF MergeRoles
<1>5. CASE MergeRequeue(q)
  <2>1. /\ rpc[q] = "requeue" /\ Born(rid[q]) /\ lock = q /\ lock' = NoOne
        /\ SetState(rid[q], "queued") /\ Reply(q)
        /\ UNCHANGED <<roles, library, tags, wpc, cur, carry>>
    BY <1>0, <1>5 DEF MergeRequeue, Known, Locked, disk, worker
  <2>2. QED  BY <1>0, <2>1, ReplyFacts, RequestWriteKeeps DEF Born
<1>6. CASE Write(q)
  <2> DEFINE s == wish[q].next
  <2>1. /\ rpc[q] = "write" /\ Born(rid[q]) /\ lock' = lock
        /\ SetState(rid[q], s) /\ s \in {"queued", "paused", "failed"}
        /\ UNCHANGED <<roles, library, tags, wpc, cur, carry>>
        /\ IF s = "failed" THEN RGoto(q, "discard") ELSE Reply(q)
    BY <1>0, <1>6 DEF Write, Known, Over, disk, worker
  <2>2. CASE s = "failed"
    <3>1. /\ rpc' \in [Requests -> RequestPC] /\ rid' = rid /\ wish' = wish
          /\ rpc'[q] = "discard" /\ \A p \in Requests \ {q} : rpc'[p] = rpc[p]
      BY <1>0, <2>1, <2>2, RGotoFacts DEF RequestPC
    <3>2. rid' \in [Requests -> Ids \cup {NoOne}] /\ wish' \in [Requests -> Wishes]
      BY <1>0, <3>1 DEF Types
    <3> HIDE DEF s
    <3>3. QED  BY <2>1, <2>2, <3>1, <3>2, RequestWriteKeeps DEF Born
  <2>3. CASE s # "failed"
    BY <1>0, <2>1, <2>3, ReplyFacts, RequestWriteKeeps DEF Born
  <2>4. QED  BY <2>2, <2>3
<1>7. CASE Discard(q) \/ DeleteRow(q)
  <2>1. Born(rid[q]) /\ rid[q] \in ended
    BY <1>0, <1>7 DEF Discard, DeleteRow, Known, Over
  <2>2. CASE Discard(q)
    <3>1. UNCHANGED <<row, sha, roles, library, tags, lock, wpc, cur, carry, ended, cut>>
      BY <2>2 DEF Discard, table, worker, history
    <3>2. roles' \in [Ids -> SUBSET Roles]  BY <1>0, <3>1 DEF Types
    <3>3. CASE RGoto(q, "delete")
      <4>1. /\ rpc' \in [Requests -> RequestPC] /\ rid' = rid /\ wish' = wish
            /\ rpc'[q] = "delete" /\ \A p \in Requests \ {q} : rpc'[p] = rpc[p]
        BY <1>0, <3>3, RGotoFacts DEF RequestPC
      <4>2. QED  BY <1>0, <2>1, <3>1, <3>2, <4>1, RequestReadKeeps DEF Types
    <3>4. CASE Reply(q)
      BY <1>0, <3>1, <3>2, <3>4, ReplyFacts, RequestReadKeeps
    <3>5. QED  BY <2>2, <3>3, <3>4 DEF Discard
  <2>3. CASE DeleteRow(q)
    <3>1. /\ row' = [row EXCEPT ![rid[q]] = "gone"] /\ Reply(q)
          /\ UNCHANGED <<sha, roles, library, tags, lock, wpc, cur, carry, ended, cut>>
      BY <2>3 DEF DeleteRow, disk, worker, history
    <3>2. /\ row' \in [Ids -> Terminal \cup Active \cup Absent] /\ row'[rid[q]] = "gone"
          /\ \A e \in Ids \ {rid[q]} : row'[e] = row[e]
      BY <1>0, <2>1, <3>1 DEF Types, Born, Absent
    <3>3. /\ rpc' \in [Requests -> RequestPC] /\ rid' \in [Requests -> Ids \cup {NoOne}]
          /\ wish' \in [Requests -> Wishes] /\ rpc'[q] = "idle"
          /\ \A p \in Requests \ {q} :
               rpc'[p] = rpc[p] /\ rid'[p] = rid[p] /\ wish'[p] = wish[p]
      BY <1>0, <3>1, ReplyFacts
    <3> USE DEF DInv
    <3>4. Types'  BY <3>1, <3>2, <3>3 DEF Types
    <3>5. Known'  BY <2>1, <3>1, <3>2, <3>3 DEF Known, Born
    <3>6. Over' /\ Locked'  BY <2>1, <3>1, <3>2, <3>3 DEF Over, Locked
    <3>7. Single' /\ Progress' /\ EnqueueOnce'
      BY <3>1, <3>2, <3>3 DEF Single, Progress, EnqueueOnce, Active
    <3>8. Arrive' /\ RolesArrive'
      BY <3>1, <3>2, <3>3 DEF Arrive, RolesArrive, Known, Born
    <3>9. QED  BY <3>4, <3>5, <3>6, <3>7, <3>8
  <2>4. QED  BY <1>7, <2>2, <2>3
<1>8. CASE \E d \in Ids : Pause(q, d) \/ Resume(q, d) \/ Cancel(q, d) \/ Delete(q, d)
  BY <1>2, <1>8 DEF Pause, Resume, Cancel, Delete, Active, Terminal
<1>9. QED  BY <1>1, <1>3, <1>4, <1>5, <1>6, <1>7, <1>8 DEF NewCall, Continue

-------------------------------------------------------------------------------
(* The worker *)

InFinish == {"finish", "done", "fetch"}

\* A step of the worker that writes no row: it must stand where the row it is on
\* allows it, and let go of the enqueue lock and the roles in order.
LEMMA WorkerMoveKeeps ==
    ASSUME DInv, NEW to \in WorkerPC, Alone,
           UNCHANGED <<row, sha, roles, ended, cut>>,
           \/ wpc' = to /\ UNCHANGED <<cur, carry>> /\ to # "idle" /\ wpc # "idle"
           \/ WIdle /\ to = "idle",
           library' = library, tags' = tags, lock' \in {lock, Worker}, lock' # lock => lock = NoOne,
           to \in {"done", "fetch"} => lock' = Worker, wpc # "fetch",
           to \in InFinish => sha[cur] \in library,
           \A d \in Ids : row[d] = "running" =>
               to \in {"open", "stream", "retry", "bumped", "sleep", "toverify", "error"},
           \A d \in Ids : row[d] = "verifying" =>
               to \in {"verify", "reject", "import", "finish", "done", "error"}
    PROVE  DInv'
<1> USE HolderAssumption DEF DInv, Alone, request
<1>1. Types'  BY DEF Types, WIdle, WorkerPC
<1>2. Known'  BY DEF Known, Born, WIdle
<1>3. Over' /\ Single' /\ EnqueueOnce'  BY DEF Over, Single, EnqueueOnce
<1>4. Locked'  BY DEF Locked, WIdle
<1>5. Progress'  BY DEF Progress, WIdle
<1>6. Arrive' /\ RolesArrive'  BY DEF Arrive, RolesArrive, WIdle, InFinish
<1>7. QED  BY <1>1, <1>2, <1>3, <1>4, <1>5, <1>6

\* A row the worker writes, and where it goes after that.
LEMMA MarkKeeps ==
    ASSUME DInv, wpc # "idle", wpc # "fetch",
           NEW s \in {"failed", "queued", "running", "verifying"},
           SetState(cur, s), Alone, UNCHANGED <<roles, library, tags, lock>>,
           \/ WIdle /\ s \in {"failed", "queued"}
           \/ WGoto("open") /\ s = "running"
           \/ WGoto("verify") /\ s = "verifying"
    PROVE  DInv'
<1> USE HolderAssumption DEF DInv, Alone, request
<1>0. Born(cur) /\ s \in Terminal \cup Active  BY DEF Known, Terminal, Active
<1>1. /\ row' \in [Ids -> Terminal \cup Active \cup Absent]
      /\ row'[cur] = IF row[cur] = "gone" THEN "gone" ELSE s
      /\ \A e \in Ids \ {cur} : row'[e] = row[e]
      /\ \A e \in Ids : row'[e] = "unborn" <=> row[e] = "unborn"
      /\ ended' \subseteq Ids /\ ended \subseteq ended' /\ sha' = sha /\ cut' = cut
      /\ s \in Terminal => cur \in ended'
  BY <1>0, SetStateFacts DEF Born
<1>2. row[cur] \in Active \/ cur \in ended  BY <1>0 DEF Born, Types, Over, Absent
<1>3. \A e \in Ids : row'[e] \in Active => e \in ended' \/ row[e] \in Active
  BY <1>1, <1>2
<1>4. Types'  BY <1>1 DEF Types, WIdle, WGoto, WorkerPC
<1>5. Known'  BY <1>0, <1>1 DEF Known, Born, WIdle, WGoto
<1>6. Over'  BY <1>0, <1>1 DEF Over, Born, Terminal
<1>7. Locked'  BY DEF Locked, WIdle, WGoto
<1>8. Single' /\ EnqueueOnce'  BY <1>1, <1>3 DEF Single, EnqueueOnce
<1>9. Progress'  BY <1>0, <1>1 DEF Progress, WIdle, WGoto, Born
<1>10. Arrive' /\ RolesArrive'
  BY <1>0, <1>1 DEF Arrive, RolesArrive, Known, Born, WIdle, WGoto
<1>11. QED  BY <1>4, <1>5, <1>6, <1>7, <1>8, <1>9, <1>10

\* The import knows the file before the finish, and gives roles to a new model alone.
LEMMA ImportKeeps == ASSUME DInv, Import PROVE DInv'
<1> USE HolderAssumption DEF DInv, Alone, request
<1>1. /\ wpc = "import" /\ Born(cur)
      /\ UNCHANGED <<row, sha, roles, lock, ended, cut>> /\ Alone
  BY DEF Import, table, history, Known
<1>2. sha[cur] \in Files  BY <1>1 DEF Known, Born
<1>3. \A d \in Ids : row[d] # "running" /\ (row[d] = "verifying" => cur = d)
  BY <1>1 DEF Progress
<1>4. /\ cur' = cur /\ carry' = carry /\ wpc' \in {"finish", "error"}
      /\ library \subseteq library' /\ library' \subseteq Files
      /\ tags' \in [Files -> SUBSET Roles]
      /\ wpc' = "finish" => sha[cur] \in library'
      /\ \A f \in Files : tags[f] # {} => tags'[f] = tags[f]
      /\ \A f \in Files \ library' : tags'[f] = {}
  <2>1. CASE UNCHANGED disk /\ WGoto("error")
    BY <1>1, <2>1 DEF disk, WGoto, Types, Arrive
  <2>2. CASE UNCHANGED disk /\ sha[cur] \in library /\ WGoto("finish")
    BY <1>1, <2>2 DEF disk, WGoto, Types, Arrive
  <2>3. CASE /\ sha[cur] \notin library /\ WGoto("finish")
             /\ library' = library \cup {sha[cur]} /\ tags' = [tags EXCEPT ![sha[cur]] = carry]
    BY <1>1, <1>2, <2>3 DEF WGoto, Types, Arrive
  <2>4. QED  BY <2>1, <2>2, <2>3 DEF Import
<1>5. Types'  BY <1>1, <1>4 DEF Types, WorkerPC
<1>6. Known' /\ Over'  BY <1>1, <1>4 DEF Known, Born, Over
<1>7. Locked' /\ Single' /\ EnqueueOnce'  BY <1>1, <1>4 DEF Locked, Single, EnqueueOnce
<1>8. Progress'  BY <1>1, <1>3, <1>4 DEF Progress
<1>9. Arrive'  BY <1>1, <1>4 DEF Arrive
<1>10. RolesArrive'
  <2> SUFFICES ASSUME NEW d \in Ids, row[d] = "done", d \notin cut
               PROVE  roles[d] \subseteq tags'[sha[d]]
    BY <1>1 DEF RolesArrive
  <2>1. roles[d] \subseteq tags[sha[d]] /\ sha[d] \in Files
    BY <1>1 DEF RolesArrive, Known
  <2>2. QED  BY <1>4, <2>1
<1>11. QED  BY <1>5, <1>6, <1>7, <1>8, <1>9, <1>10

\* Between Done and the roles the lock keeps every merge out.
LEMMA FinishKeeps == ASSUME DInv, FinishDone \/ FinishRoles PROVE DInv'
<1> USE HolderAssumption DEF DInv, Alone, request
<1>0. Born(cur) /\ lock = Worker /\ wpc \in {"done", "fetch"}
  BY DEF FinishDone, FinishRoles, Mark, Known, Locked
<1>1. \A q \in Requests : rpc[q] \notin {"insert", "merge", "requeue"}
  BY <1>0 DEF Locked
<1>2. CASE FinishDone
  <2>1. /\ SetState(cur, "done") /\ WGoto("fetch") /\ Alone
        /\ UNCHANGED <<roles, library, tags, lock>> /\ wpc = "done"
    BY <1>2 DEF FinishDone, Mark, disk
  <2>2. /\ row' \in [Ids -> Terminal \cup Active \cup Absent]
        /\ row'[cur] = IF row[cur] = "gone" THEN "gone" ELSE "done"
        /\ \A e \in Ids \ {cur} : row'[e] = row[e]
        /\ \A e \in Ids : row'[e] = "unborn" <=> row[e] = "unborn"
        /\ ended' \subseteq Ids /\ ended \subseteq ended' /\ sha' = sha /\ cut' = cut
        /\ cur \in ended'
    BY <1>0, <2>1, SetStateFacts DEF Born, Terminal
  <2>3. Types'  BY <2>1, <2>2 DEF Types, WGoto, WorkerPC
  <2>4. Known'  BY <1>0, <2>1, <2>2 DEF Known, Born, WGoto
  <2>5. Over' /\ Locked'  BY <1>0, <2>1, <2>2 DEF Over, Locked, WGoto, Born, Terminal
  <2>6. Single' /\ EnqueueOnce'
    BY <1>0, <1>1, <2>1, <2>2 DEF Single, EnqueueOnce, Born, Active
  <2>7. Progress'  BY <1>0, <2>1, <2>2 DEF Progress, WGoto, Born
  <2>8. Arrive' /\ RolesArrive'
    BY <1>0, <1>1, <2>1, <2>2 DEF Arrive, RolesArrive, WGoto, Born
  <2>9. QED  BY <2>3, <2>4, <2>5, <2>6, <2>7, <2>8
<1>3. CASE FinishRoles
  <2>1. /\ wpc = "fetch" /\ WGoto("sweep") /\ Alone /\ lock' = NoOne
        /\ tags' = [tags EXCEPT ![sha[cur]] = @ \cup Wanted(cur)]
        /\ UNCHANGED <<row, sha, roles, library, ended, cut>>
    BY <1>3 DEF FinishRoles, table, history
  <2>2. sha[cur] \in Files /\ sha[cur] \in library  BY <1>0, <2>1 DEF Known, Arrive, Born
  <2>3. Wanted(cur) \in SUBSET Roles  BY <1>0 DEF Wanted, Types, Born
  <2>4. /\ tags' \in [Files -> SUBSET Roles]
        /\ tags'[sha[cur]] = tags[sha[cur]] \cup Wanted(cur)
        /\ \A f \in Files \ {sha[cur]} : tags'[f] = tags[f]
    BY <2>1, <2>2, <2>3 DEF Types
  <2>5. Types'  BY <2>1, <2>4 DEF Types, WGoto, WorkerPC
  <2>6. Known' /\ Over'  BY <1>0, <2>1 DEF Known, Born, WGoto, Over
  <2>7. Locked' /\ Single' /\ EnqueueOnce'
    BY <1>1, <2>1 DEF Locked, Single, EnqueueOnce, WGoto
  <2>8. Progress'  BY <2>1 DEF Progress, WGoto
  <2>9. Arrive'  BY <2>1, <2>2, <2>4 DEF Arrive, WGoto
  <2>10. RolesArrive'
    <3> SUFFICES ASSUME NEW d \in Ids, row[d] = "done", d \notin cut
                 PROVE  roles[d] \subseteq tags'[sha[d]]
      BY <2>1 DEF RolesArrive
    <3>1. sha[d] \in Files  BY DEF Known
    <3>2. CASE d = cur  BY <2>4, <3>2 DEF Wanted
    <3>3. CASE d # cur
      <4>1. roles[d] \subseteq tags[sha[d]]  BY <3>3 DEF RolesArrive
      <4>2. QED  BY <2>4, <3>1, <4>1
    <3>4. QED  BY <3>2, <3>3
  <2>11. QED  BY <2>5, <2>6, <2>7, <2>8, <2>9, <2>10
<1>4. QED  BY <1>2, <1>3

\* The worker takes up a row that nobody is on.
LEMMA PickKeeps == ASSUME DInv, Pick PROVE DInv'
<1> USE HolderAssumption DEF DInv, Alone, request
<1>1. PICK d \in Ids : row[d] \in {"queued", "running"} /\ cur' = d /\ carry' = roles[d]
  BY DEF Pick, NextActionable
<1>2. /\ wpc = "idle" /\ cur = NoOne /\ wpc' = "begin" /\ Alone
      /\ UNCHANGED <<row, sha, roles, ended, cut, library, tags, lock>>
  BY DEF Pick, table, disk, history, Known
<1>3. \A e \in Ids : row[e] \notin {"running", "verifying"}
  BY <1>2 DEF Progress
<1>4. Types'  BY <1>1, <1>2 DEF Types, WorkerPC
<1>5. Known' /\ Over'  BY <1>1, <1>2 DEF Known, Born, Over
<1>6. Locked' /\ Single' /\ EnqueueOnce' /\ Progress'
  BY <1>2, <1>3 DEF Locked, Single, EnqueueOnce, Progress
<1>7. Arrive' /\ RolesArrive'  BY <1>1, <1>2 DEF Arrive, RolesArrive
<1>8. QED  BY <1>4, <1>5, <1>6, <1>7

\* Every step of the worker keeps the invariant.
LEMMA WorkKeeps == ASSUME DInv, Work PROVE DInv'
<1> DEFINE Rest == UNCHANGED <<row, sha, roles, ended, cut>> /\ library' = library /\ tags' = tags
<1>0. Known /\ Progress /\ Arrive /\ Locked /\ Types /\ NoOne \notin Ids
  BY IdsAssumption DEF DInv
<1>1. CASE Pick  BY <1>1, PickKeeps
<1>2. CASE Begin
  <2>1. CASE SetState(cur, "failed") /\ WIdle
    BY <1>2, <2>1, MarkKeeps DEF Begin
  <2>2. CASE (WGoto("start") \/ WGoto("error")) /\ UNCHANGED <<row, sha, ended, cut>>
    <3>1. \A d \in Ids : row[d] \notin {"running", "verifying"}
      BY <1>0, <1>2 DEF Begin, Progress
    <3>2. QED
      BY <1>2, <2>2, <3>1, WorkerMoveKeeps DEF Begin, WGoto, WorkerPC, InFinish
  <2>3. QED  BY <1>2, <2>1, <2>2 DEF Begin
<1>3. CASE Start  BY <1>3, MarkKeeps DEF Start, Mark, disk
<1>4. CASE Open
  <2>1. Rest /\ lock' = lock /\ Alone /\ wpc = "open"  BY <1>4 DEF Open, table, history
  <2>2. \A d \in Ids : row[d] # "verifying"  BY <1>0, <2>1 DEF Progress
  <2>3. PICK to \in {"toverify", "stream", "retry"} : WGoto(to)  BY <1>4 DEF Open
  <2>4. QED  BY <2>1, <2>2, <2>3, WorkerMoveKeeps DEF WGoto, WorkerPC, InFinish
<1>5. CASE Stream
  <2>1. Rest /\ lock' = lock /\ Alone /\ wpc = "stream"  BY <1>5 DEF Stream, table, history
  <2>2. \A d \in Ids : row[d] # "verifying" /\ (row[d] = "running" => d = cur)
    BY <1>0, <2>1 DEF Progress
  <2>3. CASE StopRequested /\ WIdle
    BY <2>1, <2>2, <2>3, WorkerMoveKeeps DEF StopRequested, WorkerPC, InFinish
  <2>4. CASE \E to \in {"toverify", "retry"} : WGoto(to)
    BY <2>1, <2>2, <2>4, WorkerMoveKeeps DEF WGoto, WorkerPC, InFinish
  <2>5. QED  BY <1>5, <2>3, <2>4 DEF Stream
<1>6. CASE BumpRetries \/ Sleep
  <2>1. Rest /\ lock' = lock /\ Alone /\ wpc \in {"retry", "bumped"}
    BY <1>6 DEF BumpRetries, Sleep, table, disk, history
  <2>2. \A d \in Ids : row[d] # "verifying"  BY <1>0, <2>1 DEF Progress
  <2>3. PICK to \in {"error", "bumped", "sleep"} : WGoto(to)  BY <1>6 DEF BumpRetries, Sleep
  <2>4. QED  BY <2>1, <2>2, <2>3, WorkerMoveKeeps DEF WGoto, WorkerPC, InFinish
<1>7. CASE GiveUp \/ Requeue \/ Reject \/ Error
  BY <1>7, MarkKeeps DEF GiveUp, Requeue, Reject, Error, Mark, disk
<1>8. CASE ToVerify  BY <1>8, MarkKeeps DEF ToVerify, Mark, disk
<1>9. CASE Verify
  <2>1. Rest /\ lock' = lock /\ Alone /\ wpc = "verify"  BY <1>9 DEF Verify, table, history
  <2>2. \A d \in Ids : row[d] # "running"  BY <1>0, <2>1 DEF Progress
  <2>3. PICK to \in {"import", "reject", "error"} : WGoto(to)  BY <1>9 DEF Verify
  <2>4. QED  BY <2>1, <2>2, <2>3, WorkerMoveKeeps DEF WGoto, WorkerPC, InFinish
<1>10. CASE Import  BY <1>10, ImportKeeps
<1>11. CASE FinishLock
  <2>1. Rest /\ lock = NoOne /\ lock' = Worker /\ Alone /\ wpc = "finish" /\ WGoto("done")
    BY <1>11 DEF FinishLock, table, disk, history
  <2>2. (\A d \in Ids : row[d] # "running") /\ sha[cur] \in library
    BY <1>0, <2>1 DEF Progress, Arrive
  <2>3. QED  BY <2>1, <2>2, WorkerMoveKeeps DEF WGoto, WorkerPC, InFinish
<1>12. CASE FinishDone \/ FinishRoles  BY <1>12, FinishKeeps
<1>13. CASE Sweep
  <2>1. Rest /\ lock' = lock /\ Alone /\ wpc = "sweep" /\ WIdle
    BY <1>13 DEF Sweep, table, history
  <2>2. \A d \in Ids : row[d] \notin {"running", "verifying"}  BY <1>0, <2>1 DEF Progress
  <2>3. QED  BY <2>1, <2>2, WorkerMoveKeeps DEF WorkerPC, InFinish
<1>14. QED
  BY <1>1, <1>2, <1>3, <1>4, <1>5, <1>6, <1>7, <1>8, <1>9, <1>10, <1>11, <1>12, <1>13 DEF Work

-------------------------------------------------------------------------------
(* The theorems *)

\* A restart puts what was under way back in the queue and forgets everyone's place.
LEMMA RestartKeeps == ASSUME DInv, Restart PROVE DInv'
<1> USE HolderAssumption DEF DInv
<1>1. /\ row' = [d \in Ids |-> IF Interrupted(row[d]) THEN "queued" ELSE row[d]]
      /\ lock' = NoOne /\ wpc' = "idle" /\ cur' = NoOne /\ carry' = {}
      /\ rpc' = [q \in Requests |-> "idle"] /\ rid' = [q \in Requests |-> NoOne]
      /\ wish' = [q \in Requests |-> NoWish]
      /\ cut' = IF wpc = "fetch" THEN cut \cup {cur} ELSE cut
      /\ UNCHANGED <<sha, roles, library, tags, ended>>
  BY DEF Restart, WIdle, disk
<1>2. /\ row' \in [Ids -> Terminal \cup Active \cup Absent]
      /\ \A d \in Ids : row'[d] \notin {"running", "verifying"}
      /\ \A d \in Ids : row'[d] # "queued" => row'[d] = row[d]
      /\ \A d \in Ids : row'[d] \in Active <=> row[d] \in Active
      /\ \A d \in Ids : row'[d] = "unborn" <=> row[d] = "unborn"
  BY <1>1 DEF Types, Interrupted, Active, Terminal, Absent
<1>3. NoWish \in Wishes  BY DEF NoWish, Wishes
<1>4. Types'  BY <1>1, <1>2, <1>3 DEF Types, WorkerPC, RequestPC
<1>5. Known' /\ Over' /\ Locked' /\ Single'
  BY <1>1, <1>2 DEF Known, Born, Over, Locked, Single, Terminal
<1>6. Progress' /\ EnqueueOnce'  BY <1>1, <1>2 DEF Progress, EnqueueOnce
<1>7. Arrive' /\ RolesArrive'  BY <1>1, <1>2 DEF Arrive, RolesArrive
<1>8. QED  BY <1>4, <1>5, <1>6, <1>7

\* The invariant holds when the application starts.
LEMMA InitDInv == Init => DInv
<1> SUFFICES ASSUME Init PROVE DInv  OBVIOUS
<1> USE HolderAssumption, IdsAssumption DEF Init
<1>1. NoWish \in Wishes  BY DEF NoWish, Wishes
<1>2. Types  BY <1>1 DEF Types, WorkerPC, RequestPC, Absent
<1>3. Known /\ Over /\ Locked /\ Single
  BY DEF Known, Over, Locked, Single, Terminal
<1>4. Progress /\ Arrive /\ EnqueueOnce /\ RolesArrive
  BY DEF Progress, Arrive, EnqueueOnce, RolesArrive, Active
<1>5. QED  BY <1>2, <1>3, <1>4 DEF DInv

\* Every step keeps it.
LEMMA NextDInv == DInv /\ [Next]_vars => DInv'
<1> SUFFICES ASSUME DInv, [Next]_vars PROVE DInv'  OBVIOUS
<1>1. CASE UNCHANGED vars
  BY <1>1 DEF vars, table, disk, worker, request, history, DInv, Types, Known, Born, Over, Locked,
              Single, Progress, Arrive, EnqueueOnce, RolesArrive
<1>2. QED  BY <1>1, RequestKeeps, WorkKeeps, RestartKeeps DEF Next

\* It holds throughout.
LEMMA DInvHolds == Spec => []DInv
BY InitDInv, NextDInv, PTL DEF Spec

\* However many callers ask for a file, and however they, the worker and restarts
\* interleave, one download at most of those that never ended is fetching it.
THEOREM OneFetchPerFile == Spec => []EnqueueOnce
<1>1. DInv => EnqueueOnce  BY DEF DInv
<1>2. QED  BY <1>1, DInvHolds, PTL

\* No row is left running or verifying by a worker that is not on it, although pause,
\* resume, cancel and the worker write the row by its id alone.
THEOREM NoneIsLeftHalfDone == Spec => []InProgressIsDriven
<1>1. DInv => InProgressIsDriven  BY DEF DInv, Progress, InProgressIsDriven
<1>2. QED  BY <1>1, DInvHolds, PTL

\* The roles merged into a download while it was under way reach the model.
THEOREM EveryRoleArrives == Spec => []RolesArrive
<1>1. DInv => RolesArrive  BY DEF DInv
<1>2. QED  BY <1>1, DInvHolds, PTL

====================================================================================
