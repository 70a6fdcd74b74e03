------------------------------- MODULE CleanupProofs --------------------------------
(***************************************************************************)
(* Proofs about Cleanup: for any number of jobs, runs and applies at once  *)
(* an apply takes no claimed output, no only copy of a result, no file of  *)
(* a run that is not over and, where copies have their own time, no staged *)
(* input of a job under way.                                               *)
(*                                                                         *)
(* The argument is the same four times: what an apply reads once, it may   *)
(* use later, because the fact is one that never turns back.  A run that   *)
(* is over stays so, and its result enters the library no more; an output  *)
(* that was recorded is so until its job is deleted, and then never again; *)
(* a dataset that was dropped does not return; and within the hour nothing *)
(* that a new job stages grows old.                                        *)
(***************************************************************************)
EXTENDS Cleanup, TLAPS

PCs == {"idle", "scan", "walk", "media", "runs", "decide", "tree", "inputs", "list", "leftovers"}

Requests == [pc : PCs, media : SUBSET Jobs, runs : SUBSET Runs, input : BOOLEAN,
             knows : SUBSET (Jobs \cup Runs), retire : SUBSET Jobs,
             todo : SUBSET (Jobs \cup Files), of : SUBSET Runs, claimed : SUBSET Jobs,
             held : BOOLEAN, lost : SUBSET Runs]

Typed ==
    /\ job \in [Jobs -> {"none", "over", "gone"} \cup Unfinished]
    /\ input \in SUBSET Jobs /\ old \in SUBSET input
    /\ out \in SUBSET Jobs /\ recorded \in SUBSET Jobs
    /\ place \in {"none", "held", "dropped"}
    /\ run \in [Runs -> {"live", "finishing", "stored", "linked", "over"}]
    /\ folder \in [Runs -> SUBSET Files]
    /\ entry \in SUBSET Runs /\ lib \in SUBSET entry /\ result \in SUBSET entry
    /\ dying \in SUBSET (entry \ lib)
    /\ apply \in [Applies -> Requests]

\* What holds of jobs and their files
Rows ==
    /\ \A j \in recorded : job[j] = "over"
    /\ \A j \in input : job[j] \notin {"none", "queued"}

\* What an apply has read of the outputs, and what has become of it
KnowsMedia(s) ==
    /\ s.held => place # "none"
    /\ \A j \in s.claimed : job[j] \in {"over", "gone"}
    /\ s.pc \in {"walk", "media"} =>
         /\ ~(s.held /\ place = "held")
         /\ s.claimed \cap recorded \subseteq s.knows
    /\ s.pc = "media" => \A j \in s.todo : j \in s.retire \/ j \notin s.knows

\* ... of the runs
KnowsRuns(s) ==
    /\ \A r \in s.runs \cup s.of \cup s.lost : run[r] = "over"
    /\ s.lost \cap lib = {}
    /\ s.pc = "tree" => \A r \in s.of \cap s.lost : "final" \notin s.todo

\* ... and of the jobs
KnowsJobs(s) ==
    /\ s.pc = "list" => \A j \in old \ s.knows : job[j] \in {"over", "gone"}
    /\ s.pc = "leftovers" => \A j \in s.todo \cap Jobs : job[j] \in {"over", "gone"}

IInv ==
    /\ Typed /\ Rows
    /\ \A a \in Applies : KnowsMedia(apply[a]) /\ KnowsRuns(apply[a])

\* The facts that never turn back
Stable ==
    /\ \A j \in Jobs : job[j] \in {"over", "gone"} =>
         job'[j] \in {"over", "gone"} /\ (j \in recorded' => j \in recorded)
    /\ place # "none" => place' # "none"
    /\ place = "dropped" => place' = "dropped"
    /\ \A r \in Runs : run[r] = "over" => run'[r] = "over" /\ (r \in lib' => r \in lib)

-------------------------------------------------------------------------------
(* Everything but the applies *)

\* The invariant holds in an empty library.
LEMMA InitHolds == Init => IInv
  <1> SUFFICES ASSUME Init PROVE IInv
    OBVIOUS
  <1>1. Idle \in Requests
    BY DEF Idle, Requests, PCs
  <1>2. Typed
    BY <1>1 DEF Init, Typed
  <1>3. Rows /\ \A a \in Applies : KnowsMedia(apply[a]) /\ KnowsRuns(apply[a])
    BY DEF Init, Rows, KnowsMedia, KnowsRuns, Idle
  <1> QED
    BY <1>2, <1>3 DEF IInv

\* A job's step
LEMMA JobKeeps ==
  ASSUME IInv, NEW j \in Jobs, JobStep(j)
  PROVE  Typed' /\ Rows' /\ Stable /\ apply' = apply
  <1> USE DEF IInv, Typed, Rows, Stable, Unfinished, Going, Move, results
  <1>1. CASE Submit(j)
    BY <1>1 DEF Submit
  <1>2. CASE Stage(j)
    BY <1>2 DEF Stage
  <1>3. CASE Render(j)
    BY <1>3 DEF Render
  <1>4. CASE Return(j)
    BY <1>4 DEF Return
  <1>5. CASE Complete(j)
    BY <1>5 DEF Complete
  <1>6. CASE Fail(j)
    BY <1>6 DEF Fail
  <1>7. CASE DeleteJob(j)
    BY <1>7 DEF DeleteJob
  <1> QED
    BY <1>1, <1>2, <1>3, <1>4, <1>5, <1>6, <1>7 DEF JobStep

\* A step of a run, its result or its model
LEMMA RunKeeps ==
  ASSUME IInv, NEW r \in Runs, RunStep(r)
  PROVE  Typed' /\ Rows' /\ Stable /\ apply' = apply
  <1> USE DEF IInv, Typed, Rows, Stable, To, media
  <1>1. CASE Finish(r)
    BY <1>1 DEF Finish
  <1>2. CASE Import(r)
    BY <1>2 DEF Import
  <1>3. CASE ImportFails(r)
    BY <1>3 DEF ImportFails
  <1>4. CASE SetResult(r)
    BY <1>4 DEF SetResult
  <1>5. CASE Completed(r)
    BY <1>5 DEF Completed
  <1>6. CASE DeleteFile(r)
    BY <1>6 DEF DeleteFile
  <1>7. CASE DeleteEntry(r)
    BY <1>7 DEF DeleteEntry
  <1> QED
    BY <1>1, <1>2, <1>3, <1>4, <1>5, <1>6, <1>7 DEF RunStep

\* Time, and the dataset
LEMMA WorldKeeps ==
  ASSUME IInv, Hour \/ MakeDataset \/ DropDataset
  PROVE  Typed' /\ Rows' /\ Stable /\ apply' = apply
  <1> USE DEF IInv, Typed, Rows, Stable, results
  <1>1. CASE Hour
    BY <1>1 DEF Hour
  <1>2. CASE MakeDataset
    BY <1>2 DEF MakeDataset
  <1>3. CASE DropDataset
    BY <1>3 DEF DropDataset
  <1> QED
    BY <1>1, <1>2, <1>3

\* A restart keeps the rows in order, turns nothing back and ends the applies.
LEMMA RestartKeeps ==
  ASSUME IInv, Restart
  PROVE  Typed' /\ Rows' /\ Stable /\ \A a \in Applies : apply'[a] = Idle
  <1>1. Idle \in Requests
    BY DEF Idle, Requests, PCs
  <1> QED
    BY <1>1 DEF IInv, Typed, Rows, Stable, Restart, Unfinished, Going

\* An apply that does not move knows what it knew
LEMMA KnowledgeLasts ==
  ASSUME IInv, Stable, NEW a \in Applies, apply'[a] = apply[a]
  PROVE  KnowsMedia(apply[a])' /\ KnowsRuns(apply[a])'
  <1>1. apply[a] \in Requests
    BY DEF IInv, Typed
  <1>2. KnowsMedia(apply[a])'
    BY <1>1 DEF IInv, Typed, Stable, KnowsMedia, Requests
  <1>3. KnowsRuns(apply[a])'
    BY <1>1 DEF IInv, Typed, Stable, KnowsRuns, Requests
  <1> QED
    BY <1>2, <1>3

-------------------------------------------------------------------------------
(* An apply *)

\* It takes files and moves nothing else: its new record decides
LEMMA ApplyMoves ==
  ASSUME IInv, NEW a \in Applies, ApplyStep(a)
  PROVE  /\ UNCHANGED <<recorded, job, place, run, lib, entry, result, dying>>
         /\ input' \subseteq input /\ old' = old \cap input' /\ out' \subseteq out
         /\ folder' \in [Runs -> SUBSET Files]
         /\ \A b \in Applies \ {a} : apply'[b] = apply[b]
         /\ DOMAIN apply' = Applies /\ apply' = [apply EXCEPT ![a] = apply'[a]]
  <1> USE DEF IInv, Typed, media, results, Set
  <1>1. CASE \E names \in SUBSET Jobs, runs \in SUBSET Runs, leftovers \in BOOLEAN :
              Ask(a, names, runs, leftovers)
    BY <1>1 DEF Ask
  <1>2. CASE ReadRows(a) \/ Walk(a) \/ MediaDone(a) \/ ReadModels(a) \/ TreeDone(a)
    BY <1>2 DEF ReadRows, Walk, MediaDone, ReadModels, TreeDone
  <1>3. CASE ReadJobs(a) \/ ListLeftovers(a) \/ ApplyDone(a)
    BY <1>3 DEF ReadJobs, ListLeftovers, ApplyDone
  <1>4. CASE \E j \in Jobs : RemoveMedia(a, j) \/ RemoveLeftover(a, j)
    BY <1>4 DEF RemoveMedia, RemoveLeftover
  <1>5. CASE \E r \in Runs : Decide(a, r) \/ \E f \in Files : RemoveFile(a, r, f)
    BY <1>5 DEF Decide, RemoveFile
  <1> QED
    BY <1>1, <1>2, <1>3, <1>4, <1>5 DEF ApplyStep

\* What the new record has to say
Entitled(a) == apply'[a] \in Requests /\ KnowsMedia(apply[a])' /\ KnowsRuns(apply[a])'

\* A record that goes on to the next group keeps only what it may know
LEMMA NextGroup ==
  ASSUME NEW s \in Requests, KnowsRuns(s), NEW n, n = Idle \/ n = RunsNext(s) \/ n = InputsNext(s)
  PROVE  n \in Requests /\ KnowsMedia(n) /\ KnowsRuns(n)
  <1>1. CASE n = Idle
    BY <1>1 DEF Idle, Requests, PCs, KnowsMedia, KnowsRuns
  <1>2. CASE n = RunsNext(s)
    <2>1. n = [pc |-> "runs", media |-> {}, runs |-> s.runs, input |-> s.input, knows |-> {},
               retire |-> {}, todo |-> {}, of |-> {}, claimed |-> {},
               held |-> FALSE, lost |-> s.lost]
      BY <1>2 DEF RunsNext, Idle
    <2>2. n \in Requests
      BY <2>1 DEF Requests, PCs
    <2> QED
      BY <2>1, <2>2 DEF KnowsMedia, KnowsRuns
  <1>3. CASE n = InputsNext(s)
    <2>1. n = [pc |-> "inputs", media |-> {}, runs |-> {}, input |-> s.input, knows |-> {},
               retire |-> {}, todo |-> {}, of |-> {}, claimed |-> {},
               held |-> FALSE, lost |-> {}]
      BY <1>3 DEF InputsNext, Idle
    <2>2. n \in Requests
      BY <2>1 DEF Requests, PCs
    <2> QED
      BY <2>1, <2>2 DEF KnowsMedia, KnowsRuns
  <1> QED
    BY <1>1, <1>2, <1>3

\* What a step of an apply deletes it was entitled to delete.
LEMMA ApplyEntitled ==
  ASSUME IInv, NEW a \in Applies, ApplyStep(a)
  PROVE  Entitled(a)
  <1> DEFINE s == apply[a]
  <1> USE DEF IInv, Typed, Set
  <1>a. s \in Requests /\ Idle \in Requests /\ KnowsMedia(apply[a]) /\ KnowsRuns(apply[a])
    BY DEF Idle, Requests, PCs
  <1>b. UNCHANGED <<recorded, job, place, run, lib>>
    BY ApplyMoves
  <1>c. ASSUME NEW n \in Requests, apply'[a] = n, KnowsMedia(n), KnowsRuns(n) PROVE Entitled(a)
    <2>1. KnowsMedia(apply[a])'
      BY <1>b, <1>c DEF KnowsMedia
    <2>2. KnowsRuns(apply[a])'
      BY <1>b, <1>c DEF KnowsRuns
    <2> QED
      BY <1>c, <2>1, <2>2 DEF Entitled
  <1>d. ASSUME apply'[a] = Idle \/ apply'[a] = RunsNext(s) \/ apply'[a] = InputsNext(s)
        PROVE  Entitled(a)
    BY <1>a, <1>c, <1>d, NextGroup
  <1>1. ASSUME NEW names \in SUBSET Jobs, NEW runs \in SUBSET Runs, NEW leftovers \in BOOLEAN,
               Ask(a, names, runs, leftovers)
        PROVE  Entitled(a)
    <2> DEFINE new == [Idle EXCEPT !.pc = "scan", !.media = names, !.runs = runs,
                                   !.input = leftovers, !.claimed = names \cap recorded,
                                   !.held = place = "held", !.lost = runs \ lib]
    <2>1. \A r \in runs : run[r] = "over"
      BY <1>1 DEF Ask, RefuseIfBusy
    <2>2. \A j \in names \cap recorded : job[j] = "over"
      BY DEF Rows
    <2>3. new \in Requests
      BY DEF Idle, Requests, PCs
    <2>4. KnowsMedia(new)
      BY <2>2 DEF Idle, KnowsMedia
    <2>5. KnowsRuns(new)
      BY <2>1 DEF Idle, KnowsRuns
    <2>6. apply'[a] = new \/ apply'[a] = RunsNext(new)
      BY <1>1 DEF Ask
    <2> HIDE DEF new
    <2> QED
      BY <1>c, <2>3, <2>4, <2>5, <2>6, NextGroup
  <1>2. CASE ReadRows(a) /\ place = "held"
    BY <1>2, <1>d DEF ReadRows
  <1>3. CASE ReadRows(a) /\ place # "held"
    <2> DEFINE n == [s EXCEPT !.pc = "walk", !.knows = recorded]
    <2>1. n \in Requests
      BY <1>a DEF Requests, PCs
    <2>2. KnowsMedia(n)
      BY <1>a, <1>3 DEF KnowsMedia, Requests, ReadRows
    <2>3. KnowsRuns(n)
      BY <1>a, <1>3 DEF KnowsRuns, Requests, ReadRows
    <2>4. apply'[a] = n
      BY <1>3 DEF ReadRows
    <2> HIDE DEF n
    <2> QED
      BY <1>c, <1>d, <2>1, <2>2, <2>3, <2>4
  <1>4. CASE Walk(a)
    <2>1. PICK marked \in SUBSET (out \cap s.knows) :
            apply'[a] = [s EXCEPT !.pc = "media", !.retire = marked, !.media = {},
                                  !.todo = s.media \cap Offered(s.knows, marked)]
      BY <1>4 DEF Walk
    <2> DEFINE n == [s EXCEPT !.pc = "media", !.retire = marked, !.media = {},
                              !.todo = s.media \cap Offered(s.knows, marked)]
    <2>2. n \in Requests
      BY <1>a DEF Requests, PCs
    <2>3. s.pc = "walk"
      BY <1>4 DEF Walk
    <2>4. KnowsMedia(n)
      BY <1>a, <2>3 DEF KnowsMedia, Requests, Offered
    <2>5. KnowsRuns(n)
      BY <1>a DEF KnowsRuns, Requests
    <2> HIDE DEF n
    <2> QED
      BY <1>c, <2>1, <2>2, <2>4, <2>5 DEF n
  <1>5. CASE MediaDone(a) \/ ApplyDone(a)
    BY <1>5, <1>d DEF MediaDone, ApplyDone
  <1>6. CASE ReadModels(a)
    <2> DEFINE n == [s EXCEPT !.pc = "decide", !.knows = result]
    <2>1. n \in Requests
      BY <1>a DEF Requests, PCs
    <2>2. KnowsMedia(n)
      BY <1>a, <1>6 DEF KnowsMedia, Requests
    <2>3. KnowsRuns(n)
      BY <1>a, <1>6 DEF KnowsRuns, Requests
    <2>4. apply'[a] = n \/ apply'[a] = InputsNext(s)
      BY <1>6 DEF ReadModels
    <2> HIDE DEF n
    <2> QED
      BY <1>c, <1>d, <2>1, <2>2, <2>3, <2>4
  <1>7. CASE TreeDone(a)
    <2> DEFINE n == [s EXCEPT !.pc = "decide", !.of = {}]
    <2>1. n \in Requests
      BY <1>a DEF Requests, PCs
    <2>2. KnowsMedia(n)
      BY <1>a, <1>7 DEF KnowsMedia, Requests
    <2>3. KnowsRuns(n)
      BY <1>a, <1>7 DEF KnowsRuns, Requests
    <2>4. apply'[a] = n \/ apply'[a] = InputsNext(s)
      BY <1>7 DEF TreeDone
    <2> HIDE DEF n
    <2> QED
      BY <1>c, <1>d, <2>1, <2>2, <2>3, <2>4
  <1>8. CASE ReadJobs(a)
    <2> DEFINE n == [s EXCEPT !.pc = "list", !.knows = {j \in Jobs : job[j] \in Unfinished}]
    <2>1. n \in Requests
      BY <1>a DEF Requests, PCs
    <2>2. KnowsMedia(n)
      BY <1>a, <1>8 DEF KnowsMedia, Requests
    <2>3. KnowsRuns(n)
      BY <1>a, <1>8 DEF KnowsRuns, Requests
    <2>4. apply'[a] = n \/ apply'[a] = Idle
      BY <1>8 DEF ReadJobs
    <2> HIDE DEF n
    <2> QED
      BY <1>c, <1>d, <2>1, <2>2, <2>3, <2>4
  <1>9. CASE ListLeftovers(a)
    <2> DEFINE n == [s EXCEPT !.pc = "leftovers", !.todo = Leftover(s.knows)]
    <2>1. n \in Requests
      BY <1>a DEF Requests, PCs, Leftover
    <2>2. KnowsMedia(n)
      BY <1>a, <1>9 DEF KnowsMedia, Requests
    <2>3. KnowsRuns(n)
      BY <1>a, <1>9 DEF KnowsRuns, Requests
    <2>4. apply'[a] = n
      BY <1>9 DEF ListLeftovers
    <2> HIDE DEF n
    <2> QED
      BY <1>c, <1>d, <2>1, <2>2, <2>3, <2>4
  <1>10. ASSUME NEW j \in Jobs, RemoveMedia(a, j) \/ RemoveLeftover(a, j) PROVE Entitled(a)
    <2> DEFINE n == [s EXCEPT !.todo = @ \ {j}]
    <2>1. n \in Requests
      BY <1>a DEF Requests, PCs
    <2>2. KnowsMedia(n)
      BY <1>a, <1>10 DEF KnowsMedia, Requests
    <2>3. KnowsRuns(n)
      BY <1>a, <1>10 DEF KnowsRuns, Requests
    <2>4. apply'[a] = n
      BY <1>10 DEF RemoveMedia, RemoveLeftover
    <2> HIDE DEF n
    <2> QED
      BY <1>c, <1>d, <2>1, <2>2, <2>3, <2>4
  <1>11. ASSUME NEW r \in Runs, NEW f \in Files, RemoveFile(a, r, f) PROVE Entitled(a)
    <2> DEFINE n == [s EXCEPT !.todo = @ \ {f}]
    <2>1. n \in Requests
      BY <1>a DEF Requests, PCs
    <2>2. KnowsMedia(n)
      BY <1>a, <1>11 DEF KnowsMedia, Requests
    <2>3. KnowsRuns(n)
      BY <1>a, <1>11 DEF KnowsRuns, Requests
    <2>4. apply'[a] = n
      BY <1>11 DEF RemoveFile
    <2> HIDE DEF n
    <2> QED
      BY <1>c, <1>d, <2>1, <2>2, <2>3, <2>4
  <1>12. ASSUME NEW r \in Runs, Decide(a, r) PROVE Entitled(a)
    <2> DEFINE todo == IF LibraryCopy(s.knows, r) THEN folder[r] ELSE folder[r] \ {"final"}
               n == [s EXCEPT !.pc = "tree", !.runs = @ \ {r}, !.of = {r}, !.todo = todo]
    <2>1. apply'[a] = n
      BY <1>12 DEF Decide
    <2>2. r \in s.lost => "final" \notin todo
      BY <1>a DEF KnowsRuns, LibraryCopy
    <2>3. todo \in SUBSET Files /\ r \in s.runs
      BY <1>12 DEF Decide
    <2> HIDE DEF todo
    <2>4. n \in Requests
      BY <1>a, <2>3 DEF Requests, PCs
    <2>5. KnowsMedia(n)
      BY <1>a DEF KnowsMedia, Requests
    <2>6. KnowsRuns(n)
      BY <1>a, <2>2, <2>3 DEF KnowsRuns, Requests
    <2> HIDE DEF n
    <2> QED
      BY <1>c, <2>1, <2>4, <2>5, <2>6
  <1> QED
    BY <1>1, <1>2, <1>3, <1>4, <1>5, <1>6, <1>7, <1>8, <1>9, <1>10, <1>11,
       <1>12 DEF ApplyStep

-------------------------------------------------------------------------------
(* The invariant *)

\* Every step keeps the invariant and turns none of the stable facts back.
LEMMA NextKeeps ==
  ASSUME IInv, [Next]_vars
  PROVE  IInv' /\ Stable
  <1>1. ASSUME Typed', Rows', Stable, apply' = apply PROVE IInv' /\ Stable
    BY <1>1, KnowledgeLasts DEF IInv
  <1>2. ASSUME NEW a \in Applies, ApplyStep(a) PROVE IInv' /\ Stable
    <2>1. Typed' /\ Rows' /\ Stable
      BY <1>2, ApplyMoves, ApplyEntitled DEF IInv, Typed, Rows, Stable, Entitled
    <2>2. \A b \in Applies : KnowsMedia(apply[b])' /\ KnowsRuns(apply[b])'
      BY <1>2, <2>1, ApplyMoves, ApplyEntitled, KnowledgeLasts DEF Entitled
    <2> QED
      BY <2>1, <2>2 DEF IInv
  <1>3. CASE Restart
    <2>1. \A a \in Applies : KnowsMedia(apply[a])' /\ KnowsRuns(apply[a])'
      BY <1>3, RestartKeeps DEF KnowsMedia, KnowsRuns, Idle
    <2> QED
      BY <1>3, <2>1, RestartKeeps DEF IInv
  <1>4. CASE UNCHANGED vars
    BY <1>4 DEF vars, media, results, IInv, Typed, Rows, KnowsMedia, KnowsRuns, Stable
  <1>5. CASE Hour \/ MakeDataset \/ DropDataset
    BY <1>1, <1>5, WorldKeeps
  <1>6. ASSUME NEW j \in Jobs, JobStep(j) PROVE IInv' /\ Stable
    BY <1>1, <1>6, JobKeeps
  <1>7. ASSUME NEW r \in Runs, RunStep(r) PROVE IInv' /\ Stable
    BY <1>1, <1>7, RunKeeps
  <1> QED
    BY <1>2, <1>3, <1>4, <1>5, <1>6, <1>7 DEF Next

\* The invariant holds throughout, for any number of jobs, runs and applies.
THEOREM Invariance == Spec => []IInv
  <1>1. Init => IInv
    BY InitHolds
  <1>2. IInv /\ [Next]_vars => IInv'
    BY NextKeeps
  <1> QED
    BY <1>1, <1>2, PTL DEF Spec

\* The types; a result never has a file without a row
THEOREM TypeCorrect == Spec => []TypeOK
  <1>1. IInv => TypeOK
    <2> SUFFICES ASSUME IInv PROVE TypeOK
      OBVIOUS
    <2>1. \A a \in Applies : apply[a] \in Requests
      BY DEF IInv, Typed
    <2> QED
      BY <2>1 DEF IInv, Typed, TypeOK, Requests
  <1> QED
    BY <1>1, Invariance, PTL

-------------------------------------------------------------------------------
(* The properties *)

\* The disjuncts of Next, one at a time.
LEMMA StepKinds ==
  ASSUME Next
  PROVE  \/ \E j \in Jobs : JobStep(j)
         \/ \E r \in Runs : RunStep(r)
         \/ \E a \in Applies : ApplyStep(a)
         \/ Hour \/ MakeDataset \/ DropDataset \/ Restart
  BY DEF Next

\* Who may take which files
LEMMA OnlyAppliesTake ==
  ASSUME IInv, Next
  PROVE  /\ folder' # folder => \E a \in Applies, r \in Runs, f \in Files : RemoveFile(a, r, f)
         /\ \A a \in Applies : out' # out /\ apply'[a] # apply[a] =>
                \E j \in Jobs : RemoveMedia(a, j)
  <1>1. ASSUME NEW j \in Jobs, JobStep(j) PROVE folder' = folder /\ apply' = apply
    BY <1>1 DEF JobStep, Submit, Stage, Render, Return, Complete, Fail, DeleteJob, results
  <1>2. ASSUME NEW r \in Runs, RunStep(r) PROVE folder' = folder /\ apply' = apply
    BY <1>2 DEF RunStep, Finish, Import, ImportFails, SetResult, Completed, DeleteFile, DeleteEntry
  <1>3. ASSUME Hour \/ MakeDataset \/ DropDataset PROVE folder' = folder /\ apply' = apply
    BY <1>3 DEF Hour, MakeDataset, DropDataset, results
  <1>4. ASSUME Restart PROVE folder' = folder /\ out' = out
    BY <1>4 DEF Restart
  <1>5. ASSUME NEW a \in Applies, ApplyStep(a)
        PROVE  /\ folder' # folder => \E r \in Runs, f \in Files : RemoveFile(a, r, f)
               /\ out' # out => \E j \in Jobs : RemoveMedia(a, j)
               /\ \A b \in Applies \ {a} : apply'[b] = apply[b]
    <2>1. \A b \in Applies \ {a} : apply'[b] = apply[b]
      BY <1>5, ApplyMoves
    <2>2. CASE \E names \in SUBSET Jobs, runs \in SUBSET Runs, leftovers \in BOOLEAN :
                Ask(a, names, runs, leftovers)
      BY <2>1, <2>2 DEF Ask, media, results
    <2>3. CASE ReadRows(a) \/ Walk(a) \/ MediaDone(a) \/ ReadModels(a) \/ TreeDone(a)
               \/ ReadJobs(a) \/ ListLeftovers(a) \/ ApplyDone(a)
      BY <2>1, <2>3 DEF ReadRows, Walk, MediaDone, ReadModels, TreeDone, ReadJobs, ListLeftovers,
                        ApplyDone, media, results
    <2>4. CASE \E j \in Jobs : RemoveMedia(a, j)
      BY <2>1, <2>4 DEF RemoveMedia, results
    <2>5. CASE \E j \in Jobs : RemoveLeftover(a, j)
      BY <2>1, <2>5 DEF RemoveLeftover, results
    <2>6. CASE \E r \in Runs : Decide(a, r)
      BY <2>1, <2>6 DEF Decide, media, results
    <2>7. CASE \E r \in Runs, f \in Files : RemoveFile(a, r, f)
      BY <2>1, <2>7 DEF RemoveFile, media
    <2> QED
      BY <1>5, <2>2, <2>3, <2>4, <2>5, <2>6, <2>7 DEF ApplyStep
  <1> QED
    BY <1>1, <1>2, <1>3, <1>4, <1>5, StepKinds

\* A file with a claim stays
THEOREM ClaimsAreKept == Spec => ClaimedMediaStay
  <1> DEFINE Kind == \A a \in Applies :
                     \A j \in (out \ out') \cap (apply[a].todo \ apply'[a].todo) :
                       /\ ~(apply[a].held /\ place = "held")
                       /\ j \in apply[a].claimed \cap recorded => j \in apply[a].retire
  <1>1. IInv /\ [Next]_vars => [Kind]_vars
    <2> SUFFICES ASSUME IInv, Next, NEW a \in Applies,
                        NEW j \in (out \ out') \cap (apply[a].todo \ apply'[a].todo)
                 PROVE  /\ ~(apply[a].held /\ place = "held")
                        /\ j \in apply[a].claimed \cap recorded => j \in apply[a].retire
      OBVIOUS
    <2>1. apply[a].pc = "media"
      BY OnlyAppliesTake DEF RemoveMedia
    <2>2. KnowsMedia(apply[a])
      BY DEF IInv
    <2> QED
      BY <2>1, <2>2 DEF KnowsMedia
  <1> HIDE DEF Kind
  <1>2. Spec => [][Kind]_vars
    BY <1>1, Invariance, PTL DEF Spec
  <1> QED
    BY <1>2, PTL DEF Kind, ClaimedMediaStay

\* The last checkpoint of a run stays unless the library held its result
THEOREM ResultsAreKept == Spec => ResultsStay
  <1> DEFINE Kind == \A r \in Runs : "final" \in folder[r] \ folder'[r] =>
                       \E a \in Applies : r \in apply[a].of \ apply[a].lost
  <1>1. IInv /\ [Next]_vars => [Kind]_vars
    <2> SUFFICES ASSUME IInv, Next, NEW r \in Runs, "final" \in folder[r] \ folder'[r]
                 PROVE  \E a \in Applies : r \in apply[a].of \ apply[a].lost
      OBVIOUS
    <2>1. PICK a \in Applies, q \in Runs, f \in Files : RemoveFile(a, q, f)
      BY OnlyAppliesTake
    <2>2. q = r /\ f = "final" /\ r \in apply[a].of /\ f \in apply[a].todo /\ apply[a].pc = "tree"
      BY <2>1 DEF RemoveFile, IInv, Typed
    <2>3. KnowsRuns(apply[a])
      BY DEF IInv
    <2> QED
      BY <2>2, <2>3 DEF KnowsRuns
  <1> HIDE DEF Kind
  <1>2. Spec => [][Kind]_vars
    BY <1>1, Invariance, PTL DEF Spec
  <1> QED
    BY <1>2, PTL DEF Kind, ResultsStay

\* The files of a run that is not over stay
THEOREM UnfinishedRunsAreKept == Spec => UnfinishedRunsKeepTheirFolder
  <1> DEFINE Kind == \A r \in Runs : folder'[r] # folder[r] => run[r] = "over"
  <1>1. IInv /\ [Next]_vars => [Kind]_vars
    <2> SUFFICES ASSUME IInv, Next, NEW r \in Runs, folder'[r] # folder[r]
                 PROVE  run[r] = "over"
      BY DEF vars, results
    <2>1. PICK a \in Applies, q \in Runs, f \in Files : RemoveFile(a, q, f)
      BY OnlyAppliesTake
    <2>2. q = r /\ r \in apply[a].of
      BY <2>1 DEF RemoveFile, IInv, Typed
    <2>3. KnowsRuns(apply[a])
      BY DEF IInv
    <2> QED
      BY <2>2, <2>3 DEF KnowsRuns
  <1> HIDE DEF Kind
  <1>2. Spec => [][Kind]_vars
    BY <1>1, Invariance, PTL DEF Spec
  <1> QED
    BY <1>2, PTL DEF Kind, UnfinishedRunsKeepTheirFolder

-------------------------------------------------------------------------------
(* Where a staged copy has a time of its own *)

JInv == IInv /\ \A a \in Applies : KnowsJobs(apply[a])

\* Nothing grows old that an apply would take for a leftover
LEMMA JobsKnown ==
  ASSUME ~CopyKeepsAge, JInv, [Next]_vars
  PROVE  JInv'
  <1>1. IInv' /\ Stable
    BY NextKeeps DEF JInv
  <1>2. SUFFICES ASSUME NEW a \in Applies PROVE KnowsJobs(apply[a])'
    BY <1>1 DEF JInv
  <1>3. KnowsJobs(apply[a]) /\ IInv /\ apply[a] \in Requests
    BY DEF JInv, IInv, Typed
  <1>4. ASSUME apply'[a] = apply[a], apply[a].pc = "list" => old' \subseteq old
        PROVE  KnowsJobs(apply[a])'
    BY <1>1, <1>3, <1>4 DEF KnowsJobs, Stable, IInv, Typed
  <1>5. ASSUME NEW j \in Jobs, JobStep(j) PROVE KnowsJobs(apply[a])'
    <2>1. old' \subseteq old /\ apply' = apply
      BY <1>5 DEF JobStep, Submit, Stage, Render, Return, Complete, Fail, DeleteJob
    <2> QED
      BY <1>4, <2>1
  <1>6. ASSUME NEW r \in Runs, RunStep(r) PROVE KnowsJobs(apply[a])'
    <2>1. old' = old /\ apply' = apply
      BY <1>6 DEF RunStep, Finish, Import, ImportFails, SetResult, Completed, DeleteFile,
                  DeleteEntry, media
    <2> QED
      BY <1>4, <2>1
  <1>7. ASSUME Hour \/ MakeDataset \/ DropDataset PROVE KnowsJobs(apply[a])'
    <2>1. apply' = apply /\ (apply[a].pc = "list" => old' = old)
      BY <1>7 DEF Hour, MakeDataset, DropDataset
    <2> QED
      BY <1>4, <2>1
  <1>8. ASSUME Restart PROVE KnowsJobs(apply[a])'
    BY <1>8, RestartKeeps, <1>3 DEF KnowsJobs, Idle
  <1>9. ASSUME NEW b \in Applies \ {a}, ApplyStep(b) PROVE KnowsJobs(apply[a])'
    BY <1>3, <1>4, <1>9, ApplyMoves
  <1>10. ASSUME ApplyStep(a) PROVE KnowsJobs(apply[a])'
    <2> DEFINE s == apply[a]
    <2> USE DEF Set, IInv, Typed, Requests
    <2>1. job' = job /\ old' \subseteq old
      BY <1>3, <1>10, ApplyMoves
    <2>2. ASSUME apply'[a].pc \notin {"list", "leftovers"} PROVE KnowsJobs(apply[a])'
      BY <2>2 DEF KnowsJobs
    <2>3. ASSUME NEW names \in SUBSET Jobs, NEW runs \in SUBSET Runs, NEW leftovers \in BOOLEAN,
                 Ask(a, names, runs, leftovers)
          PROVE  KnowsJobs(apply[a])'
      <3>1. apply'[a].pc \in {"scan", "runs"}
        BY <1>3, <2>3 DEF Ask, RunsNext, Idle
      <3> QED
        BY <2>2, <3>1
    <2>4. CASE ReadRows(a) \/ Walk(a) \/ MediaDone(a) \/ ReadModels(a) \/ TreeDone(a)
               \/ ApplyDone(a)
      <3>1. apply'[a].pc \notin {"list", "leftovers"}
        <4>1. CASE ReadRows(a)
          BY <1>3, <4>1 DEF ReadRows, RunsNext, Idle
        <4>2. CASE Walk(a)
          <5>1. PICK marked \in SUBSET (out \cap s.knows) :
                  apply'[a] = [s EXCEPT !.pc = "media", !.retire = marked, !.media = {},
                                        !.todo = s.media \cap Offered(s.knows, marked)]
            BY <1>3, <4>2 DEF Walk
          <5>2. apply'[a].pc = "media"
            BY <1>3, <5>1
          <5> QED
            BY <5>2
        <4>3. CASE MediaDone(a) \/ ApplyDone(a)
          <5>1. apply'[a] = RunsNext(s) \/ apply'[a] = Idle
            BY <1>3, <4>3 DEF MediaDone, ApplyDone
          <5>2. RunsNext(s).pc = "runs"
            BY DEF RunsNext, Idle
          <5>3. Idle.pc = "idle"
            BY DEF Idle
          <5> QED
            BY <5>1, <5>2, <5>3
        <4>4. CASE ReadModels(a)
          BY <1>3, <4>4 DEF ReadModels, InputsNext, Idle
        <4>5. CASE TreeDone(a)
          BY <1>3, <4>5 DEF TreeDone, InputsNext, Idle
        <4> QED
          BY <2>4, <4>1, <4>2, <4>3, <4>4, <4>5
      <3> QED
        BY <2>2, <3>1
    <2>5. CASE ReadJobs(a)
      <3>1. \/ apply'[a] = Idle
            \/ apply'[a] = [s EXCEPT !.pc = "list", !.knows = {j \in Jobs : job[j] \in Unfinished}]
        BY <1>3, <2>5 DEF ReadJobs
      <3>2. \A j \in old : job[j] \in {"over", "gone"} \/ job[j] \in Unfinished
        BY <1>3 DEF Rows
      <3> QED
        <4>1. CASE apply'[a] = Idle
          BY <4>1 DEF KnowsJobs, Idle
        <4>2. CASE apply'[a] = [s EXCEPT !.pc = "list",
                                         !.knows = {j \in Jobs : job[j] \in Unfinished}]
          <5>1. apply'[a].pc = "list" /\ apply'[a].knows = {j \in Jobs : job[j] \in Unfinished}
            BY <1>3, <4>2
          <5> QED
            BY <1>3, <2>1, <3>2, <5>1 DEF KnowsJobs
        <4> QED
          BY <3>1, <4>1, <4>2
    <2>6. CASE ListLeftovers(a)
      <3>1. s.pc = "list" /\ apply'[a] = [s EXCEPT !.pc = "leftovers", !.todo = Leftover(s.knows)]
        BY <1>3, <2>6 DEF ListLeftovers
      <3> QED
        BY <1>3, <2>1, <3>1 DEF KnowsJobs, Leftover
    <2>7. ASSUME NEW j \in Jobs, RemoveMedia(a, j) \/ RemoveLeftover(a, j)
          PROVE  KnowsJobs(apply[a])'
      <3>1. s.pc \in {"media", "leftovers"} /\ apply'[a] = [s EXCEPT !.todo = @ \ {j}]
        BY <1>3, <2>7 DEF RemoveMedia, RemoveLeftover
      <3> QED
        BY <1>3, <2>1, <3>1 DEF KnowsJobs
    <2>8. ASSUME NEW r \in Runs, Decide(a, r) \/ \E f \in Files : RemoveFile(a, r, f)
          PROVE  KnowsJobs(apply[a])'
      <3>1. apply'[a].pc = "tree"
        <4>1. CASE Decide(a, r)
          BY <1>3, <4>1 DEF Decide
        <4>2. CASE \E f \in Files : RemoveFile(a, r, f)
          BY <1>3, <4>2 DEF RemoveFile
        <4> QED
          BY <2>8, <4>1, <4>2
      <3> QED
        BY <2>2, <3>1
    <2> QED
      BY <1>10, <2>3, <2>4, <2>5, <2>6, <2>7, <2>8 DEF ApplyStep
  <1>11. CASE UNCHANGED vars
    BY <1>4, <1>11 DEF vars, media
  <1> QED
    BY <1>5, <1>6, <1>7, <1>8, <1>9, <1>10, <1>11, StepKinds

\* No staged input of a job under way goes, if its copy has its own time
THEOREM StagedInputsAreKept ==
  ASSUME ~CopyKeepsAge
  PROVE  Spec => StagedInputsStay
  <1> DEFINE Kind == \A j \in input \ input' : job[j] \notin Going \/ job'[j] # job[j]
  <1>1. Init => JInv
    BY InitHolds DEF JInv, KnowsJobs, Init, Idle
  <1>2. JInv /\ [Next]_vars => JInv'
    BY JobsKnown
  <1>3. JInv /\ [Next]_vars => [Kind]_vars
    <2> SUFFICES ASSUME JInv, Next, NEW j \in input \ input', job[j] \in Going, job'[j] = job[j]
                 PROVE  FALSE
      BY DEF vars, media
    <2>1. IInv /\ j \in Jobs
      BY DEF JInv, IInv, Typed
    <2>2. ASSUME NEW k \in Jobs, JobStep(k) PROVE FALSE
      BY <2>1, <2>2 DEF IInv, Typed, JobStep, Submit, Stage, Render, Return, Complete, Fail,
                        DeleteJob, Move, Going
    <2>3. ASSUME NEW r \in Runs, RunStep(r) PROVE FALSE
      BY <2>3 DEF RunStep, Finish, Import, ImportFails, SetResult, Completed, DeleteFile,
                  DeleteEntry, media
    <2>4. ~(Hour \/ MakeDataset \/ DropDataset \/ Restart)
      BY DEF Hour, MakeDataset, DropDataset, Restart
    <2>5. PICK a \in Applies : ApplyStep(a)
      BY <2>2, <2>3, <2>4, StepKinds
    <2>6. PICK k \in Jobs : RemoveLeftover(a, k)
      BY <2>5 DEF ApplyStep, Ask, ReadRows, Walk, MediaDone, ReadModels, TreeDone, ReadJobs,
                  ListLeftovers, ApplyDone, RemoveMedia, Decide, RemoveFile, media
    <2>7. k = j /\ apply[a].pc = "leftovers" /\ j \in apply[a].todo
      BY <2>6 DEF RemoveLeftover
    <2> QED
      BY <2>1, <2>7 DEF JInv, KnowsJobs, Going
  <1> HIDE DEF Kind
  <1>4. Spec => [][Kind]_vars
    BY <1>1, <1>2, <1>3, PTL DEF Spec
  <1> QED
    BY <1>4, PTL DEF Kind, StagedInputsStay
=====================================================================================
