---------------------------------- MODULE Cleanup ----------------------------------
(***************************************************************************)
(* The apply of the cleanup page (core/src/cleanup/apply.rs) against what  *)
(* goes on meanwhile: jobs that stage inputs and write outputs, a dataset  *)
(* made in place, finished runs that are imported, and the deletion of a   *)
(* model (core/src/model/delete.rs).                                       *)
(*                                                                         *)
(* Covered: the groups of generated media, of finished runs and of         *)
(* ComfyUI's leftovers, in the order in which one request works them off;  *)
(* a restart at any moment.  Left out: the dataset groups (Datasets), a    *)
(* dry run, the cache, logs and backups, which nobody shares, the checks   *)
(* of paths and links, and staging folders (their download verifies what   *)
(* it finds, see Downloads).                                               *)
(* Abstracted: the scan's queries are one step, and so are the group's;    *)
(* the retention rule marks any outputs that have a row; a job has one     *)
(* input and one output, both named after it, so the job names the file;   *)
(* the library entry of a result is named by its run.  A model that is     *)
(* loaded, or that a run continues from, is not deleted; here any may be.  *)
(***************************************************************************)
EXTENDS FiniteSets

CONSTANTS
    Jobs,           \* jobs, and so their files in input/ and in the outputs folder
    Runs,           \* training runs, and so their result in the library
    Applies,        \* requests POST /cleanup/apply under way at once
    CopyKeepsAge    \* whether a staged copy keeps its source's time, as CopyFileEx does

ASSUME AgeAssumption == CopyKeepsAge \in BOOLEAN

VARIABLES
    job,        \* where a job stands
    input,      \* staged copies in ComfyUI's input/
    old,        \* those last modified an hour ago or longer
    out,        \* files in the outputs folder
    recorded,   \* jobs whose row names its output
    place,      \* a dataset whose source folder is the outputs folder
    run,        \* where a training run stands
    folder,     \* the files of its work folder
    lib,        \* results whose file is in the library
    entry,      \* results with a row in models
    result,     \* runs whose result_model_id names it
    dying,      \* models whose file has been deleted and whose row is next
    apply       \* the requests

media == <<input, old, out, recorded, job, place>>
results == <<run, folder, lib, entry, result, dying>>
vars == <<media, results, apply>>

\* What cleanup may delete of a run: the last checkpoint, and everything disposable
Files == {"final", "rest"}

Idle == [pc |-> "idle", media |-> {}, runs |-> {}, input |-> FALSE, knows |-> {},
         retire |-> {}, todo |-> {}, of |-> {}, claimed |-> {},
         held |-> FALSE, lost |-> {}]

Init ==
    /\ job = [j \in Jobs |-> "none"] /\ input = {} /\ old = {} /\ out = {}
    /\ recorded = {} /\ place = "none"
    /\ run = [r \in Runs |-> "live"] /\ folder = [r \in Runs |-> Files]
    /\ lib = {} /\ entry = {} /\ result = {} /\ dying = {}
    /\ apply = [a \in Applies |-> Idle]

-------------------------------------------------------------------------------
(* Jobs *)

Going == {"staged", "rendered", "returned"}
Unfinished == {"queued"} \cup Going

Move(j, s) == job' = [job EXCEPT ![j] = s]

Submit(j) ==
    /\ job[j] = "none" /\ Move(j, "queued")
    /\ UNCHANGED <<input, old, out, recorded, place, results, apply>>

\* stage_media: the copy has its own time, or on some systems its source's
Stage(j) ==
    /\ job[j] = "queued" /\ Move(j, "staged")
    /\ input' = input \cup {j}
    /\ old' \in {old} \cup (IF CopyKeepsAge THEN {old \cup {j}} ELSE {})
    /\ UNCHANGED <<out, recorded, place, results, apply>>

\* write_output
Render(j) ==
    /\ job[j] = "staged" /\ Move(j, "rendered")
    /\ out' = out \cup {j}
    /\ UNCHANGED <<input, old, recorded, place, results, apply>>

\* The body returns and drops its copy
Return(j) ==
    /\ job[j] = "rendered" /\ Move(j, "returned")
    /\ input' = input \ {j} /\ old' = old \ {j}
    /\ UNCHANGED <<out, recorded, place, results, apply>>

\* The row names the file only together with "completed"
Complete(j) ==
    /\ job[j] = "returned" /\ Move(j, "over")
    /\ recorded' = recorded \cup {j}
    /\ UNCHANGED <<input, old, out, place, results, apply>>

\* Cancelled or failed
Fail(j) ==
    /\ job[j] \in {"queued", "staged", "rendered"} /\ Move(j, "over")
    /\ input' = input \ {j} /\ old' = old \ {j}
    /\ UNCHANGED <<out, recorded, place, results, apply>>

\* delete_job
DeleteJob(j) ==
    /\ job[j] = "over" /\ Move(j, "gone")
    /\ out' = IF j \in recorded THEN out \ {j} ELSE out
    /\ recorded' = recorded \ {j}
    /\ UNCHANGED <<input, old, place, results, apply>>

\* An hour passes.  From its list of jobs to its last file an apply needs less.
Hour ==
    /\ old # input /\ \A a \in Applies : apply[a].pc \notin {"list", "leftovers"}
    /\ old' = input
    /\ UNCHANGED <<input, out, recorded, job, place, results, apply>>

\* A dataset of what lies in the outputs folder
MakeDataset ==
    /\ place = "none" /\ out # {} /\ place' = "held"
    /\ UNCHANGED <<input, old, out, recorded, job, results, apply>>

DropDataset ==
    /\ place = "held" /\ place' = "dropped"
    /\ UNCHANGED <<input, old, out, recorded, job, results, apply>>

-------------------------------------------------------------------------------
(* Training runs and their results *)

To(r, s) == run' = [run EXCEPT ![r] = s]

\* settle: judged complete; or failed, cancelled
Finish(r) ==
    /\ run[r] = "live" /\ \E s \in {"finishing", "over"} : To(r, s)
    /\ UNCHANGED <<media, folder, lib, entry, result, dying, apply>>

\* import_model finds an entry of the same hash, file or not, or copies and inserts
Import(r) ==
    /\ run[r] = "finishing" /\ To(r, "stored")
    /\ lib' = IF r \in entry THEN lib ELSE lib \cup {r}
    /\ entry' = entry \cup {r}
    /\ UNCHANGED <<media, folder, result, dying, apply>>

\* The import failed: the run is failed, its checkpoint stays the only copy
ImportFails(r) ==
    /\ run[r] = "finishing" /\ To(r, "over")
    /\ UNCHANGED <<media, folder, lib, entry, result, dying, apply>>

\* set_result, and the poller tries again when the row is not there any more
SetResult(r) ==
    /\ run[r] = "stored"
    /\ IF r \in entry THEN result' = result \cup {r} /\ To(r, "linked")
                      ELSE result' = result /\ To(r, "finishing")
    /\ UNCHANGED <<media, folder, lib, entry, dying, apply>>

Completed(r) ==
    /\ run[r] = "linked" /\ To(r, "over")
    /\ UNCHANGED <<media, folder, lib, entry, result, dying, apply>>

\* delete_model: the file, then the row; the foreign key sets result_model_id to null
DeleteFile(r) ==
    /\ r \in entry \ dying
    /\ lib' = lib \ {r} /\ dying' = dying \cup {r}
    /\ UNCHANGED <<media, run, folder, entry, result, apply>>

DeleteEntry(r) ==
    /\ r \in dying
    /\ entry' = entry \ {r} /\ result' = result \ {r} /\ dying' = dying \ {r}
    /\ UNCHANGED <<media, run, folder, lib, apply>>

-------------------------------------------------------------------------------
(* The apply *)

Set(a, r) == apply' = [apply EXCEPT ![a] = r]

\* On to the next group, with what was asked of it and of those after it
RunsNext(s) == [Idle EXCEPT !.pc = "runs", !.runs = s.runs, !.lost = s.lost, !.input = s.input]
InputsNext(s) == [Idle EXCEPT !.pc = "inputs", !.input = s.input]

\* Mutant: no look at the runs before anything goes.
RefuseNothing(runs) == FALSE

\* refuse_if_busy
RefuseIfBusy(runs) == \E r \in runs : run[r] # "over"

Ask(a, names, runs, leftovers) ==
    /\ apply[a].pc = "idle"
    /\ names # {} \/ runs # {} \/ leftovers
    /\ ~RefuseIfBusy(runs)
    /\ LET s == [Idle EXCEPT !.pc = "scan", !.media = names, !.runs = runs, !.input = leftovers,
                             !.claimed = names \cap recorded, !.held = place = "held",
                             !.lost = runs \ lib]
       IN Set(a, IF names = {} THEN RunsNext(s) ELSE s)
    /\ UNCHANGED <<media, results>>

\* The fresh scan: the rows first ...
ReadRows(a) ==
    /\ apply[a].pc = "scan"
    /\ Set(a, IF place = "held" THEN RunsNext(apply[a])
              ELSE [apply[a] EXCEPT !.pc = "walk", !.knows = recorded])
    /\ UNCHANGED <<media, results>>

\* Mutant: a name that the page sent is taken.
OfferedAsSent(knows, marked) == Jobs

\* media::groups: files a row names when the retention rule marks them, and files no row names
Offered(knows, marked) == marked \cup (out \ knows)

\* ... then the files, of which those asked for and offered go
Walk(a) ==
    LET s == apply[a] IN
    /\ s.pc = "walk"
    /\ \E marked \in SUBSET (out \cap s.knows) :
        Set(a, [s EXCEPT !.pc = "media", !.retire = marked,
                         !.media = {}, !.todo = s.media \cap Offered(s.knows, marked)])
    /\ UNCHANGED <<media, results>>

\* remove_flat_file: a file that is missing, or that is open elsewhere, is passed over
RemoveMedia(a, j) ==
    /\ apply[a].pc = "media" /\ j \in apply[a].todo
    /\ out' \in {out, out \ {j}}
    /\ Set(a, [apply[a] EXCEPT !.todo = @ \ {j}])
    /\ UNCHANGED <<input, old, recorded, job, place, results>>

MediaDone(a) ==
    /\ apply[a].pc = "media" /\ apply[a].todo = {}
    /\ Set(a, RunsNext(apply[a]))
    /\ UNCHANGED <<media, results>>

\* finished_runs: the rows of the runs and of the models they name
ReadModels(a) ==
    /\ apply[a].pc = "runs"
    /\ Set(a, IF apply[a].runs = {} THEN InputsNext(apply[a])
              ELSE [apply[a] EXCEPT !.pc = "decide", !.knows = result])
    /\ UNCHANGED <<media, results>>

\* Mutant: the row is enough.
LibraryCopyByRow(knows, r) == r \in knows

\* library_copy: the run names a model, and its file is there
LibraryCopy(knows, r) == r \in knows \cap lib

\* The whole folder, or what is disposable, which the last checkpoint never is
Decide(a, r) ==
    LET s == apply[a] IN
    /\ s.pc = "decide" /\ r \in s.runs
    /\ Set(a, [s EXCEPT !.pc = "tree", !.runs = @ \ {r}, !.of = {r},
                        !.todo = IF LibraryCopy(s.knows, r) THEN folder[r]
                                 ELSE folder[r] \ {"final"}])
    /\ UNCHANGED <<media, results>>

RemoveFile(a, r, f) ==
    /\ apply[a].pc = "tree" /\ r \in apply[a].of /\ f \in apply[a].todo
    /\ folder' \in {folder, [folder EXCEPT ![r] = @ \ {f}]}
    /\ Set(a, [apply[a] EXCEPT !.todo = @ \ {f}])
    /\ UNCHANGED <<media, run, lib, entry, result, dying>>

TreeDone(a) ==
    /\ apply[a].pc = "tree" /\ apply[a].todo = {}
    /\ Set(a, IF apply[a].runs = {}
              THEN InputsNext(apply[a])
              ELSE [apply[a] EXCEPT !.pc = "decide", !.of = {}])
    /\ UNCHANGED <<media, results>>

\* caches: the jobs that are not over, once for the whole group ...
ReadJobs(a) ==
    /\ apply[a].pc = "inputs"
    /\ Set(a, IF apply[a].input
              THEN [apply[a] EXCEPT !.pc = "list", !.knows = {j \in Jobs : job[j] \in Unfinished}]
              ELSE Idle)
    /\ UNCHANGED <<media, results>>

\* Mutant: the age of a file is not looked at.
LeftoverAtAnyAge(knows) == input \ knows

\* comfyui_leftover_files
Leftover(knows) == old \ knows

\* ... and the files, once the folders before it have been emptied
ListLeftovers(a) ==
    /\ apply[a].pc = "list"
    /\ Set(a, [apply[a] EXCEPT !.pc = "leftovers", !.todo = Leftover(apply[a].knows)])
    /\ UNCHANGED <<media, results>>

RemoveLeftover(a, j) ==
    /\ apply[a].pc = "leftovers" /\ j \in apply[a].todo
    /\ \/ input' = input \ {j} /\ old' = old \ {j}
       \/ UNCHANGED <<input, old>>
    /\ Set(a, [apply[a] EXCEPT !.todo = @ \ {j}])
    /\ UNCHANGED <<out, recorded, job, place, results>>

ApplyDone(a) ==
    /\ apply[a].pc = "leftovers" /\ apply[a].todo = {}
    /\ Set(a, Idle)
    /\ UNCHANGED <<media, results>>

-------------------------------------------------------------------------------

\* Copies of inputs stay behind; a run that was finishing is judged again
Restart ==
    /\ \/ \E j \in Jobs : job[j] \in Going
       \/ dying # {} \/ \E a \in Applies : apply[a].pc # "idle"
    /\ job' = [j \in Jobs |-> IF job[j] \in Going THEN "over" ELSE job[j]]
    /\ run' = [r \in Runs |-> IF run[r] \in {"stored", "linked"} THEN "finishing" ELSE run[r]]
    /\ dying' = {}
    /\ apply' = [a \in Applies |-> Idle]
    /\ UNCHANGED <<input, old, out, recorded, place, folder, lib, entry, result>>

JobStep(j) ==
    \/ Submit(j) \/ Stage(j) \/ Render(j) \/ Return(j) \/ Complete(j) \/ Fail(j) \/ DeleteJob(j)

RunStep(r) ==
    \/ Finish(r) \/ Import(r) \/ ImportFails(r) \/ SetResult(r) \/ Completed(r)
    \/ DeleteFile(r) \/ DeleteEntry(r)

ApplyStep(a) ==
    \/ \E names \in SUBSET Jobs, runs \in SUBSET Runs, leftovers \in BOOLEAN :
          Ask(a, names, runs, leftovers)
    \/ ReadRows(a) \/ Walk(a) \/ MediaDone(a) \/ ReadModels(a) \/ TreeDone(a)
    \/ ReadJobs(a) \/ ListLeftovers(a) \/ ApplyDone(a)
    \/ \E j \in Jobs : RemoveMedia(a, j) \/ RemoveLeftover(a, j)
    \/ \E r \in Runs : Decide(a, r) \/ \E f \in Files : RemoveFile(a, r, f)

Next ==
    \/ \E j \in Jobs : JobStep(j)
    \/ \E r \in Runs : RunStep(r)
    \/ \E a \in Applies : ApplyStep(a)
    \/ Hour \/ MakeDataset \/ DropDataset \/ Restart

Spec == Init /\ [][Next]_vars

-------------------------------------------------------------------------------
(* Properties *)

\* The types; a result has a file only if it has a row, and a dying one has none any more
TypeOK ==
    /\ job \in [Jobs -> {"none", "over", "gone"} \cup Unfinished]
    /\ old \subseteq input /\ input \subseteq Jobs /\ out \subseteq Jobs /\ recorded \subseteq Jobs
    /\ place \in {"none", "held", "dropped"}
    /\ run \in [Runs -> {"live", "finishing", "stored", "linked", "over"}]
    /\ folder \in [Runs -> SUBSET Files]
    /\ lib \subseteq entry /\ entry \subseteq Runs /\ dying \subseteq entry \ lib
    /\ result \subseteq entry
    /\ \A a \in Applies : apply[a].of \subseteq Runs /\ apply[a].runs \subseteq Runs

\* A file that a dataset or a finished job had a claim on when an apply began, and still has,
\* is not deleted by it, unless the retention rule marked the job's
ClaimedMediaStay ==
    [][\A a \in Applies : \A j \in (out \ out') \cap (apply[a].todo \ apply'[a].todo) :
        /\ ~(apply[a].held /\ place = "held")
        /\ j \in apply[a].claimed \cap recorded => j \in apply[a].retire]_vars

\* An apply takes the last checkpoint of a run only if the library held the result when the
\* apply began, whatever becomes of the model's file and row meanwhile
ResultsStay ==
    [][\A r \in Runs : "final" \in folder[r] \ folder'[r] =>
        \E a \in Applies : r \in apply[a].of \ apply[a].lost]_vars

\* The files of a run that is not over stay, although an apply asks for its state only once,
\* before it works off the groups that come first
UnfinishedRunsKeepTheirFolder ==
    [][\A r \in Runs : folder'[r] # folder[r] => run[r] = "over"]_vars

\* No apply takes the input that a job under way has staged, although it reads the jobs once
\* and deletes later: a job it does not know has staged its copy within the hour
StagedInputsStay ==
    [][\A j \in input \ input' : job[j] \notin Going \/ job'[j] # job[j]]_vars

\* "A file a non-terminal job owns ... is neither" retention material nor an orphan
\* (cleanup/scan/media.rs:8).  The row names the file only once the job is over.
UnfinishedJobsKeepTheirOutput ==
    [][\A j \in out \ out' : job[j] \notin Going]_vars
====================================================================================
