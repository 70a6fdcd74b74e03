------------------------------- MODULE Downloads -------------------------------
(***************************************************************************)
(* The download manager of core/src/download/mod.rs over the downloads     *)
(* table of core/src/db/downloads.rs: one worker transfers, verifies and   *)
(* imports one file at a time, while HTTP requests enqueue, pause, resume, *)
(* cancel and delete downloads and the process may stop and start again.   *)
(*                                                                         *)
(* Covered: every set_state is an UPDATE by id alone, so a request and the *)
(* worker overwrite each other; the staging folder a cancel removes under  *)
(* the worker; the enqueue lock and who does not take it; retries; the     *)
(* roles a second enqueue adds to a download that is under way.            *)
(* Abstracted: a file is its hash, known at the enqueue (without one       *)
(* nothing is merged); the transfer is "some bytes" or "all of them"; the  *)
(* free-space, offline and model-type refusals of a request change         *)
(* nothing and are left out.  SQLite statements are atomic and do not fail.*)
(***************************************************************************)
EXTENDS Naturals

CONSTANTS
    Ids,         \* download ids in creation order (UUIDv7), numbers
    Files,       \* files by hash
    Roles,       \* roles a caller may want for the imported model
    Requests,    \* HTTP requests that can be under way at once
    Worker,      \* the download worker, as a holder of the enqueue lock
    NoOne,       \* nobody; no download
    MaxRetries,  \* MAX_RETRIES
    MaxCalls,    \* bound on the number of requests
    MaxCrashes   \* bound on the number of restarts

ASSUME IdsAssumption     == Ids \subseteq Nat /\ NoOne \notin Ids
ASSUME HolderAssumption  == Worker \notin Requests /\ NoOne \notin Requests \cup {Worker}
ASSUME LimitsAssumption  == {MaxRetries, MaxCalls, MaxCrashes} \subseteq Nat

VARIABLES
    row,      \* the downloads table: state of each download
    sha,      \* ... the file it is for
    roles,    \* ... the roles to stamp on the model
    retries,  \* ... transport retries so far
    part,     \* its staging folder: "none", "empty", or the file in it
    library,  \* imported files
    tags,     \* roles of each imported model
    lock,     \* enqueue_lock
    wpc, cur, carry,        \* the worker: step, download, roles as first read
    rpc, rid, wish,         \* a request: step, download, what it means to do
    calls, crashes,
    ended,    \* history: downloads that were done or failed once
    cut       \* history: downloads whose finish_import a restart cut short

table   == <<row, sha, roles, retries>>
disk    == <<part, library, tags>>
worker  == <<wpc, cur, carry>>
request == <<rpc, rid, wish>>
history == <<ended, cut>>
vars    == <<table, disk, lock, worker, request, calls, crashes, history>>

Terminal == {"done", "failed"}
Active   == {"queued", "running", "paused", "verifying"}
Absent   == {"unborn", "gone"}

WorkerPC == {"idle", "begin", "start", "open", "stream", "retry", "bumped", "sleep",
             "toverify", "verify", "reject", "import", "finish", "done", "fetch",
             "sweep", "error"}
RequestPC == {"idle", "insert", "merge", "requeue", "write", "discard", "delete"}

\* The file and roles an enqueue is for, the state the row shall get.
Wishes == [file  : Files \cup {NoOne}, roles : SUBSET Roles,
           next  : {"queued", "paused", "failed", "gone", "same"}]
NoWish == [file |-> NoOne, roles |-> {}, next |-> "same"]

\* The types of the download rows, the worker's and the requests' copies
TypeOK ==
    /\ row \in [Ids -> Terminal \cup Active \cup Absent]
    /\ sha \in [Ids -> Files \cup {NoOne}]
    /\ roles \in [Ids -> SUBSET Roles]
    /\ retries \in [Ids -> 0 .. MaxRetries + 1 + MaxCalls]
    /\ part \in [Ids -> {"none", "empty", "some", "full"}]
    /\ library \subseteq Files /\ tags \in [Files -> SUBSET Roles]
    /\ lock \in Requests \cup {Worker, NoOne}
    /\ wpc \in WorkerPC /\ cur \in Ids \cup {NoOne} /\ carry \subseteq Roles
    /\ rpc \in [Requests -> RequestPC] /\ rid \in [Requests -> Ids \cup {NoOne}]
    /\ wish \in [Requests -> Wishes]
    /\ calls \in 0 .. MaxCalls /\ crashes \in 0 .. MaxCrashes
    /\ ended \subseteq Ids /\ cut \subseteq Ids

Init ==
    /\ row = [d \in Ids |-> "unborn"] /\ sha = [d \in Ids |-> NoOne]
    /\ roles = [d \in Ids |-> {}] /\ retries = [d \in Ids |-> 0]
    /\ part = [d \in Ids |-> "none"]
    /\ library = {} /\ tags = [f \in Files |-> {}]
    /\ lock = NoOne
    /\ wpc = "idle" /\ cur = NoOne /\ carry = {}
    /\ rpc = [q \in Requests |-> "idle"] /\ rid = [q \in Requests |-> NoOne]
    /\ wish = [q \in Requests |-> NoWish]
    /\ calls = 0 /\ crashes = 0
    /\ ended = {} /\ cut = {}

-------------------------------------------------------------------------------
(* Helpers *)

\* set_state: UPDATE by id, whatever the row reads now; a deleted row stays so.
SetState(d, s) ==
    /\ row' = IF row[d] = "gone" THEN row ELSE [row EXCEPT ![d] = s]
    /\ ended' = IF s \in Terminal THEN ended \cup {d} ELSE ended
    /\ UNCHANGED <<sha, cut>>

WGoto(label) == wpc' = label /\ UNCHANGED <<cur, carry>>
WIdle == wpc' = "idle" /\ cur' = NoOne /\ carry' = {}

RGoto(q, label) == rpc' = [rpc EXCEPT ![q] = label] /\ UNCHANGED <<rid, wish>>
Reply(q) ==
    /\ rpc' = [rpc EXCEPT ![q] = "idle"] /\ rid' = [rid EXCEPT ![q] = NoOne]
    /\ wish' = [wish EXCEPT ![q] = NoWish]

\* A request arrives, has read download d and means to do the rest later.
Call(q, d, w, label) ==
    /\ rpc[q] = "idle" /\ calls < MaxCalls /\ calls' = calls + 1
    /\ rpc' = [rpc EXCEPT ![q] = label] /\ rid' = [rid EXCEPT ![q] = d]
    /\ wish' = [wish EXCEPT ![q] = w]

-------------------------------------------------------------------------------
(* Enqueue, under the enqueue lock *)

\* Mutant: the lock is not taken.
AnyTime == TRUE

LockIsFree == lock = NoOne

\* active_with_sha256: the downloads of the file that are not over, newest first
ActiveOf(f) == {d \in Ids : row[d] \in Active /\ sha[d] = f}

Enqueue(q, f, rs) ==
    /\ LockIsFree /\ lock' = q
    /\ LET w(next) == [file |-> f, roles |-> rs, next |-> next] IN
         \/ \E d \in ActiveOf(f) :
               /\ \A e \in ActiveOf(f) : e <= d
               /\ Call(q, d, w(IF row[d] = "paused" THEN "queued" ELSE "same"), "merge")
         \/ ActiveOf(f) = {} /\ Call(q, NoOne, w("queued"), "insert")
    /\ UNCHANGED <<table, disk, worker, crashes, history>>

Insert(q) ==
    /\ rpc[q] = "insert"
    /\ \E d \in Ids :
          /\ row[d] = "unborn" /\ \A e \in Ids : e < d => row[e] # "unborn"
          /\ row' = [row EXCEPT ![d] = "queued"]
          /\ sha' = [sha EXCEPT ![d] = wish[q].file]
          /\ roles' = [roles EXCEPT ![d] = wish[q].roles]
    /\ lock' = NoOne /\ Reply(q)
    /\ UNCHANGED <<retries, disk, worker, calls, crashes, history>>

\* merge_into, first the roles: those read under the lock and the caller's.
MergeRoles(q) ==
    /\ rpc[q] = "merge"
    /\ roles' = [roles EXCEPT ![rid[q]] = @ \cup wish[q].roles]
    /\ IF wish[q].next = "queued" THEN RGoto(q, "requeue") /\ UNCHANGED lock
                                   ELSE Reply(q) /\ lock' = NoOne
    /\ UNCHANGED <<row, sha, retries, disk, worker, calls, crashes, ended, cut>>

\* ... then a download it saw paused goes back in the queue.
MergeRequeue(q) ==
    /\ rpc[q] = "requeue"
    /\ SetState(rid[q], "queued")
    /\ lock' = NoOne /\ Reply(q)
    /\ UNCHANGED <<roles, retries, disk, worker, calls, crashes>>

-------------------------------------------------------------------------------
(* Pause, resume, cancel, delete: a read, then a blind write *)

Ask(q, d, from, next, label) ==
    /\ row[d] \in from
    /\ Call(q, d, [NoWish EXCEPT !.next = next], label)
    /\ UNCHANGED <<table, disk, lock, worker, crashes, history>>

Pause(q, d)  == Ask(q, d, {"queued", "running"}, "paused", "write")
Resume(q, d) == Ask(q, d, {"paused", "failed"}, "queued", "write")
Cancel(q, d) == Ask(q, d, Active \cup {"failed"}, "failed", "write")

\* clear_finished does this for every download it listed as finished.
Delete(q, d) == Ask(q, d, Terminal, "gone", "discard")

Write(q) ==
    /\ rpc[q] = "write"
    /\ SetState(rid[q], wish[q].next)
    /\ IF wish[q].next = "failed" THEN RGoto(q, "discard") ELSE Reply(q)
    /\ UNCHANGED <<roles, retries, disk, lock, worker, calls, crashes>>

\* The staging folder goes, also from under a transfer.
Discard(q) ==
    /\ rpc[q] = "discard"
    /\ part' = [part EXCEPT ![rid[q]] = "none"]
    /\ IF wish[q].next = "gone" THEN RGoto(q, "delete") ELSE Reply(q)
    /\ UNCHANGED <<table, library, tags, lock, worker, calls, crashes, history>>

DeleteRow(q) ==
    /\ rpc[q] = "delete"
    /\ row' = [row EXCEPT ![rid[q]] = "gone"]
    /\ Reply(q)
    /\ UNCHANGED <<sha, roles, retries, disk, lock, worker, calls, crashes, history>>

-------------------------------------------------------------------------------
(* The worker: run, process, transfer, verify, finish_import *)

\* A step of the worker that leaves the requests alone.
Alone == UNCHANGED <<request, calls, crashes>>

\* next_actionable: one that reads running before the oldest queued one.
NextActionable(d) ==
    /\ row[d] \in {"queued", "running"}
    /\ \A e \in Ids : row[e] \in {"queued", "running"} =>
          \/ row[d] = "running" /\ row[e] = "queued"
          \/ row[d] = row[e] /\ d <= e

Pick ==
    /\ wpc = "idle"
    /\ \E d \in Ids : NextActionable(d) /\ cur' = d /\ carry' = roles[d]
    /\ wpc' = "begin"
    /\ Alone /\ UNCHANGED <<table, disk, lock, history>>

\* Offline mode ends it; else the staging folder is made, unless that fails.
Begin ==
    /\ wpc = "begin"
    /\ \/ /\ SetState(cur, "failed") /\ WIdle /\ UNCHANGED part
       \/ /\ part' = IF part[cur] = "none" THEN [part EXCEPT ![cur] = "empty"] ELSE part
          /\ WGoto("start") /\ UNCHANGED <<row, sha, ended, cut>>
       \/ WGoto("error") /\ UNCHANGED <<row, sha, part, ended, cut>>
    /\ Alone /\ UNCHANGED <<roles, retries, library, tags, lock>>

\* A write of the row the worker is on, and nothing else.
Mark(from, state, to) ==
    /\ wpc = from
    /\ SetState(cur, state)
    /\ to
    /\ Alone /\ UNCHANGED <<roles, retries, disk, lock>>

Start == Mark("start", "running", WGoto("open"))

\* The request is answered (416: nothing is missing), or fails.
Open ==
    /\ wpc = "open"
    /\ \/ part[cur] \in {"some", "full"} /\ WGoto("toverify") /\ UNCHANGED part
       \/ part[cur] # "none" /\ part' = [part EXCEPT ![cur] = "some"] /\ WGoto("stream")
       \/ WGoto("retry") /\ UNCHANGED part
    /\ Alone /\ UNCHANGED <<table, library, tags, lock, history>>

\* ~still_running
StopRequested == row[cur] # "running"

\* A tick, a broken stream, or the end: what a cancel unlinked is lost.
Stream ==
    /\ wpc = "stream"
    /\ \/ StopRequested /\ WIdle /\ UNCHANGED part
       \/ WGoto("retry") /\ UNCHANGED part
       \/ /\ WGoto("toverify")
          /\ part' = IF part[cur] = "none" THEN part ELSE [part EXCEPT ![cur] = "full"]
    /\ Alone /\ UNCHANGED <<table, library, tags, lock, history>>

\* Mutant: the attempt is not counted.
Uncounted(n) == n

Bumped(n) == n + 1

BumpRetries ==
    /\ wpc = "retry"
    /\ IF row[cur] = "gone"
         THEN WGoto("error") /\ UNCHANGED retries
         ELSE retries' = [retries EXCEPT ![cur] = Bumped(@)] /\ WGoto("bumped")
    /\ Alone /\ UNCHANGED <<row, sha, roles, disk, lock, history>>

Exhausted(n) == n > MaxRetries

GiveUp == Mark("bumped", "failed", WIdle) /\ Exhausted(retries[cur])
Sleep ==
    /\ wpc = "bumped" /\ ~Exhausted(retries[cur]) /\ WGoto("sleep")
    /\ Alone /\ UNCHANGED <<table, disk, lock, history>>
Requeue  == Mark("sleep", "queued", WIdle)
ToVerify == Mark("toverify", "verifying", WGoto("verify"))

\* Size and hash are checked: only here shows whether it is the right file, and
\* one that is not is removed.
Verify ==
    /\ wpc = "verify"
    /\ \/ part[cur] = "full" /\ WGoto("import") /\ UNCHANGED part
       \/ /\ part[cur] \in {"some", "full"}
          /\ part' = [part EXCEPT ![cur] = "empty"] /\ WGoto("reject")
       \/ part[cur] \in {"none", "empty"} /\ WGoto("error") /\ UNCHANGED part
    /\ Alone /\ UNCHANGED <<table, library, tags, lock, history>>

Reject == Mark("reject", "failed", WIdle)

\* import_model: a new model gets the roles the worker read at the start, a
\* file that is known already keeps its own.
Import ==
    /\ wpc = "import"
    /\ \/ LET f == sha[cur] IN
            /\ part[cur] = "full"
            /\ IF f \in library
                 THEN UNCHANGED disk
                 ELSE /\ library' = library \cup {f}
                      /\ tags' = [tags EXCEPT ![f] = carry]
                      /\ part' = [part EXCEPT ![cur] = "empty"]
            /\ WGoto("finish")
       \/ WGoto("error") /\ UNCHANGED disk
    /\ Alone /\ UNCHANGED <<table, lock, history>>

FinishLock ==
    /\ wpc = "finish" /\ lock = NoOne /\ lock' = Worker
    /\ WGoto("done")
    /\ Alone /\ UNCHANGED <<table, disk, history>>

FinishDone == Mark("done", "done", WGoto("fetch"))

\* Mutant: the roles the download carried when it was picked.
WantedAsPicked(d) == carry

\* The roles it carries now; none if the row is gone.
Wanted(d) == IF row[d] = "gone" THEN {} ELSE roles[d]

FinishRoles ==
    /\ wpc = "fetch"
    /\ tags' = [tags EXCEPT ![sha[cur]] = @ \cup Wanted(cur)]
    /\ lock' = NoOne
    /\ WGoto("sweep")
    /\ Alone /\ UNCHANGED <<table, part, library, history>>

Sweep ==
    /\ wpc = "sweep"
    /\ part' = [part EXCEPT ![cur] = "none"] /\ WIdle
    /\ Alone /\ UNCHANGED <<table, library, tags, lock, history>>

\* process failed: run marks the row.
Error == Mark("error", "failed", WIdle)

Work ==
    \/ Pick \/ Begin \/ Start \/ Open \/ Stream \/ BumpRetries \/ GiveUp \/ Sleep
    \/ Requeue \/ ToVerify \/ Verify \/ Reject \/ Import
    \/ FinishLock \/ FinishDone \/ FinishRoles \/ Sweep \/ Error

-------------------------------------------------------------------------------
(* A restart, with recover_interrupted: one UPDATE before anything else runs *)

\* Mutant: a download caught in its verification is overlooked.
OnlyRunning(s) == s = "running"

Interrupted(s) == s \in {"running", "verifying"}

Restart ==
    /\ crashes < MaxCrashes /\ crashes' = crashes + 1
    /\ row' = [d \in Ids |-> IF Interrupted(row[d]) THEN "queued" ELSE row[d]]
    /\ lock' = NoOne
    /\ WIdle
    /\ rpc' = [q \in Requests |-> "idle"] /\ rid' = [q \in Requests |-> NoOne]
    /\ wish' = [q \in Requests |-> NoWish]
    /\ cut' = IF wpc = "fetch" THEN cut \cup {cur} ELSE cut
    /\ UNCHANGED <<sha, roles, retries, disk, calls, ended>>

-------------------------------------------------------------------------------
NewCall(q) ==
    \/ \E f \in Files, rs \in SUBSET Roles : Enqueue(q, f, rs)
    \/ \E d \in Ids : Pause(q, d) \/ Resume(q, d) \/ Cancel(q, d) \/ Delete(q, d)
Continue(q) ==
    \/ Insert(q) \/ MergeRoles(q) \/ MergeRequeue(q)
    \/ Write(q) \/ Discard(q) \/ DeleteRow(q)

Next == (\E q \in Requests : NewCall(q) \/ Continue(q)) \/ Work \/ Restart

Spec == Init /\ [][Next]_vars

\* The worker loop and the handlers under way go on; the lock is a fair mutex.
Fairness == SF_vars(Work) /\ \A q \in Requests : WF_vars(Continue(q))
FairSpec == Spec /\ Fairness

-------------------------------------------------------------------------------
(* Properties *)

\* Two tabs installing the same file fetch it once: of the downloads of a file
\* that never ended, at most one is active.  (Resuming a failed one is outside
\* the lock and may well bring back a second.)
EnqueueOnce ==
    \A d, e \in Ids \ ended :
        row[d] \in Active /\ row[e] \in Active /\ sha[d] = sha[e] => d = e

\* A row reads running or verifying only while the worker is on it, whatever
\* pauses, cancels and restarts overwrite: no download is stuck half done.
InProgressIsDriven ==
    \A d \in Ids : row[d] \in {"running", "verifying"} => cur = d

\* Every role asked for, also while the transfer was under way, has reached
\* the model once its download is done.
RolesArrive ==
    \A d \in Ids : row[d] = "done" /\ ~(cur = d /\ wpc = "fetch") /\ d \notin cut
                       => roles[d] \subseteq tags[sha[d]]

\* A download that was asked for comes to rest: done, failed, paused, deleted.
EveryDownloadSettles ==
    \A d \in Ids : row[d] \in {"queued", "running", "verifying"}
                       ~> row[d] \in Terminal \cup {"paused", "gone"}

\* cancel: "The worker, on its next tick, sees `failed` and bails without a
\* write": no step of the worker takes a row out of failed.
CancelSticks ==
    [][Work => \A d \in Ids : row[d] = "failed" => row'[d] = "failed"]_vars
===============================================================================
