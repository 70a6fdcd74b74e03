---------------------------------- MODULE Datasets ----------------------------------
(***************************************************************************)
(* Datasets, their frame rows and their files: the preparation that writes *)
(* them (capability/dataset/pipeline.rs), the curation that marks them,    *)
(* and everything that deletes them (capability/dataset/housekeeping and   *)
(* the dataset groups of cleanup/apply).                                   *)
(*                                                                         *)
(* Covered: a still-frame preparation from its row to its end or its       *)
(* discard; deleting a dataset, some frames, the discarded frames; the     *)
(* duplicate search; unclaimed work folders; rows without a file; the      *)
(* snapshot, the busy check and the guard of each; failed deletions and a  *)
(* restart at any moment.  Left out: clips mode, captions, exports, rows   *)
(* older than the recorded work folder, a training run (which makes a      *)
(* dataset busy as its preparation does), a drive that is not connected.   *)
(* Abstracted: every work folder lies under the datasets root; a file is   *)
(* named by the folder it lies in, so a row is named by its file.          *)
(***************************************************************************)
EXTENDS FiniteSets

CONSTANTS
    Datasets,   \* datasets, each with its preparation job and its work folder
    Media,      \* files that are there or that a preparation may extract
    Home,       \* the folder of a file: a work folder or the user's
    User,       \* the user's own folder, with pictures and a video
    Ops         \* requests that delete or mark, under way at once

ASSUME HomeAssumption == User \notin Datasets /\ Home \in [Media -> Datasets \cup {User}]

VARIABLES
    there,      \* files on the disk
    row,        \* datasets with a row
    root,       \* source_root of a dataset
    rows,       \* its frame rows
    aside,      \* those excluded or rejected
    prep,       \* where its preparation stands; "over" is a terminal job
    cand,       \* the stills its preparation has found or extracted
    op,         \* the requests
    excused     \* history: datasets cut by a restart or trimmed by the user

disk == <<there>>
table == <<row, root, rows, aside>>
vars == <<disk, table, prep, cand, op, excused>>

Idle == [kind |-> "none", on |-> User, pc |-> "idle", aim |-> {}, stay |-> {}, knows |-> {},
         todo |-> {}, gone |-> {}, failed |-> FALSE]

Init ==
    /\ there = {x \in Media : Home[x] = User}
    /\ row = {} /\ root = [d \in Datasets |-> User]
    /\ rows = [d \in Datasets |-> {}] /\ aside = [d \in Datasets |-> {}]
    /\ prep = [d \in Datasets |-> "none"] /\ cand = [d \in Datasets |-> {}]
    /\ op = [o \in Ops |-> Idle]
    /\ excused = {}

-------------------------------------------------------------------------------
(* Helpers *)

In(folder) == {x \in Media : Home[x] = folder}
Running == {"extract", "insert", "ending", "closing"}

\* busy_reason: its preparation job is not terminal
Busy(d) == prep[d] \in Running

\* What the other rows point into at the snapshot of a request on d: source folders, frames
Others(d) == row \ {d}

\* Mutant: only the dataset itself is asked.
SourcedBySelf(d, known) == root[d] = d

\* A known dataset shows a file of d's folder only when it sources from there
Sourced(d, known) == \E e \in known \cup {d} : root[e] = d

\* guard: the folder is d's own, nobody known sources from it, no frame that stays shows it
Deletable(d, known, stay, x) == Home[x] = d /\ ~Sourced(d, known) /\ x \notin stay

-------------------------------------------------------------------------------
(* The preparation.  A source may be the user's folder or a work folder.     *)

\* Before the row: no captioner, nothing found under the root
PrepRefused(d) ==
    /\ prep[d] = "none"
    /\ prep' = [prep EXCEPT ![d] = "over"]
    /\ UNCHANGED <<disk, table, cand, op, excused>>

\* The walk, then the row
Begin(d, r) ==
    /\ prep[d] = "none" /\ r # d
    /\ there \cap In(r) # {}
    /\ row' = row \cup {d} /\ root' = [root EXCEPT ![d] = r]
    /\ cand' = [cand EXCEPT ![d] = there \cap In(r)]
    /\ prep' = [prep EXCEPT ![d] = "extract"]
    /\ UNCHANGED <<disk, rows, aside, op, excused>>

\* ffmpeg writes a still of the user's video into the work folder
Extract(d, x) ==
    /\ prep[d] = "extract" /\ root[d] = User
    /\ x \in In(d) \ there
    /\ there' = there \cup {x} /\ cand' = [cand EXCEPT ![d] = @ \cup {x}]
    /\ UNCHANGED <<table, prep, op, excused>>

\* filter_groups reads every still: one that is not there any more is an error
Judge(d) ==
    /\ prep[d] = "extract" /\ cand[d] \subseteq there
    /\ prep' = [prep EXCEPT ![d] = "insert"]
    /\ UNCHANGED <<disk, table, cand, op, excused>>

\* A row for every still, rejected or kept
Insert(d, x, rejected) ==
    /\ prep[d] = "insert" /\ x \in cand[d] \ rows[d]
    /\ rows' = [rows EXCEPT ![d] = @ \cup {x}]
    /\ aside' = IF rejected THEN [aside EXCEPT ![d] = @ \cup {x}] ELSE aside
    /\ UNCHANGED <<disk, row, root, prep, cand, op, excused>>

\* Cancelled, failed, or everything was filtered out
Stops(d) ==
    /\ prep[d] \in {"extract", "insert"}
    /\ prep' = [prep EXCEPT ![d] = "ending"]
    /\ UNCHANGED <<disk, table, cand, op, excused>>

\* Mutant: the row stays.
DiscardNothing(d) ==
    /\ prep[d] = "ending"
    /\ prep' = [prep EXCEPT ![d] = "closing"]
    /\ UNCHANGED <<disk, table, cand, op, excused>>

\* discard_empty_dataset
Discard(d) ==
    /\ prep[d] = "ending"
    /\ row' = IF rows[d] = {} THEN row \ {d} ELSE row
    /\ prep' = [prep EXCEPT ![d] = "closing"]
    /\ UNCHANGED <<disk, root, rows, aside, cand, op, excused>>

Done(d) ==
    /\ prep[d] = "insert" /\ rows[d] = cand[d]
    /\ prep' = [prep EXCEPT ![d] = "closing"]
    /\ UNCHANGED <<disk, table, cand, op, excused>>

\* The engine writes the terminal state of the job
JobEnds(d) ==
    /\ prep[d] = "closing"
    /\ prep' = [prep EXCEPT ![d] = "over"] /\ cand' = [cand EXCEPT ![d] = {}]
    /\ UNCHANGED <<disk, table, op, excused>>

Preparation(d) ==
    \/ PrepRefused(d) \/ Judge(d) \/ Stops(d) \/ Discard(d) \/ Done(d) \/ JobEnds(d)
    \/ \E r \in Datasets \cup {User} : Begin(d, r)
    \/ \E x \in Media : Extract(d, x) \/ \E rejected \in BOOLEAN : Insert(d, x, rejected)

-------------------------------------------------------------------------------
(* The curation grid *)

SetAside(d, x) ==
    /\ x \in rows[d] \ aside[d]
    /\ aside' = [aside EXCEPT ![d] = @ \cup {x}]
    /\ UNCHANGED <<disk, row, root, rows, prep, cand, op, excused>>

Restore(d, x) ==
    /\ x \in aside[d]
    /\ aside' = [aside EXCEPT ![d] = @ \ {x}]
    /\ UNCHANGED <<disk, row, root, rows, prep, cand, op, excused>>

-------------------------------------------------------------------------------
(* Requests that delete *)

Set(o, r) == op' = [op EXCEPT ![o] = r]
Goto(o, label) == Set(o, [op[o] EXCEPT !.pc = label])

\* snapshot, first half: the row and the frames.  The discarded ones, or some the user named.
Ask(o, d, kind) ==
    /\ op[o].pc = "idle" /\ d \in row
    /\ \/ /\ kind = "dataset"
          /\ Set(o, [Idle EXCEPT !.kind = kind, !.on = d, !.pc = "others", !.aim = rows[d]])
       \/ /\ kind = "frames"
          /\ \E aim \in {aside[d]} \cup {{x} : x \in rows[d]} :
                Set(o, [Idle EXCEPT !.kind = kind, !.on = d, !.pc = "others",
                                    !.aim = aim, !.stay = rows[d] \ aim])
    /\ UNCHANGED <<disk, table, prep, cand, excused>>

\* ... second half: what every other dataset references
ReadOthers(o) ==
    /\ op[o].pc = "others"
    /\ Set(o, [op[o] EXCEPT !.pc = "check", !.knows = Others(op[o].on)])
    /\ UNCHANGED <<disk, table, prep, cand, excused>>

\* refuse_if_busy, then the start of the file work: the walk of a folder nobody
\* else needs, and the frames of the snapshot
Check(o) ==
    LET d == op[o].on
        walked == IF op[o].kind = "dataset" /\ ~Sourced(d, op[o].knows)
                  THEN there \cap In(d) ELSE {}
    IN
    /\ op[o].pc = "check"
    /\ Set(o, IF Busy(d) THEN Idle
              ELSE [op[o] EXCEPT !.pc = "files", !.todo = walked \cup op[o].aim])
    /\ UNCHANGED <<disk, table, prep, cand, excused>>

\* Mutant: a failed deletion takes its row along.
RemoveAnyway(o, x) ==
    LET r == op[o]
        settled == [r EXCEPT !.todo = @ \ {x}, !.gone = @ \cup ({x} \cap r.aim)]
    IN
    /\ r.pc = "files" /\ x \in r.todo
    /\ Set(o, settled)
    /\ \/ there' = there
       \/ Deletable(r.on, r.knows, r.stay, x) /\ there' = there \ {x}
    /\ UNCHANGED <<table, prep, cand, excused>>

\* Tally.remove: missing and refused files count as done; a failed deletion keeps its row
Remove(o, x) ==
    LET r == op[o]
        settled == [r EXCEPT !.todo = @ \ {x}, !.gone = @ \cup ({x} \cap r.aim)]
    IN
    /\ r.pc = "files" /\ x \in r.todo
    /\ IF x \in there /\ Deletable(r.on, r.knows, r.stay, x)
       THEN \/ there' = there \ {x} /\ Set(o, settled)
            \/ there' = there /\ Set(o, [r EXCEPT !.todo = @ \ {x}, !.failed = TRUE])
       ELSE there' = there /\ Set(o, settled)
    /\ UNCHANGED <<table, prep, cand, excused>>

FilesDone(o) ==
    /\ op[o].pc = "files" /\ op[o].todo = {}
    /\ Goto(o, "rows")
    /\ UNCHANGED <<disk, table, prep, cand, excused>>

\* delete: the frames cascade
DropDataset(o) ==
    LET d == op[o].on IN
    /\ op[o].pc = "rows" /\ op[o].kind = "dataset"
    /\ IF op[o].failed
       THEN UNCHANGED table
       ELSE /\ row' = row \ {d} /\ UNCHANGED root
            /\ rows' = [rows EXCEPT ![d] = {}] /\ aside' = [aside EXCEPT ![d] = {}]
    /\ Set(o, Idle)
    /\ UNCHANGED <<disk, prep, cand, excused>>

\* delete_many
DropRows(o) ==
    LET d == op[o].on IN
    /\ op[o].pc = "rows" /\ op[o].kind \in {"frames", "missing"}
    /\ rows' = [rows EXCEPT ![d] = @ \ op[o].gone] /\ aside' = [aside EXCEPT ![d] = @ \ op[o].gone]
    /\ excused' = excused \cup {d}
    /\ Set(o, Idle)
    /\ UNCHANGED <<disk, row, root, prep, cand>>

-------------------------------------------------------------------------------
(* The duplicate search reads the kept frames, compares them and marks all   *)
(* but one of each group, whatever happened to the rows meanwhile            *)

FindDuplicates(o, d, dups) ==
    /\ op[o].pc = "idle" /\ d \in row
    /\ dups # {} /\ dups \subseteq rows[d] \ aside[d] /\ dups # rows[d] \ aside[d]
    /\ Set(o, [Idle EXCEPT !.kind = "dedup", !.on = d, !.pc = "rows", !.aim = dups])
    /\ UNCHANGED <<disk, table, prep, cand, excused>>

MarkDuplicates(o) ==
    LET d == op[o].on IN
    /\ op[o].pc = "rows" /\ op[o].kind = "dedup"
    /\ aside' = [aside EXCEPT ![d] = @ \cup (op[o].aim \cap rows[d])]
    /\ Set(o, Idle)
    /\ UNCHANGED <<disk, row, root, rows, prep, cand, excused>>

-------------------------------------------------------------------------------
(* The cleanup page *)

\* missing_rows: the busy check came first
LookForMissing(o, d) ==
    /\ op[o].pc = "idle" /\ d \in row /\ ~Busy(d)
    /\ Set(o, [Idle EXCEPT !.kind = "missing", !.on = d, !.pc = "missing"])
    /\ UNCHANGED <<disk, table, prep, cand, excused>>

FindMissing(o) ==
    LET d == op[o].on IN
    /\ op[o].pc = "missing"
    /\ Set(o, [op[o] EXCEPT !.pc = "rows", !.gone = rows[d] \ there])
    /\ UNCHANGED <<disk, table, prep, cand, excused>>

\* unclaimed_work_folders reads the rows first and lists the folders after
Claims(d, known) == d \in known \/ Sourced(d, known)

ScanClaims(o, d) ==
    /\ op[o].pc = "idle" /\ ~Claims(d, row)
    /\ Set(o, [Idle EXCEPT !.kind = "folder", !.on = d, !.pc = "list", !.knows = row])
    /\ UNCHANGED <<disk, table, prep, cand, excused>>

\* The page shows it, and the user picks it
ListFolder(o) ==
    /\ op[o].pc = "list"
    /\ IF there \cap In(op[o].on) = {} THEN Set(o, Idle) ELSE Goto(o, "offered")
    /\ UNCHANGED <<disk, table, prep, cand, excused>>

\* Mutant: what the page offered is taken.
AskNoMore(o) ==
    /\ op[o].pc = "offered"
    /\ Set(o, [op[o] EXCEPT !.pc = "tree", !.knows = row])
    /\ UNCHANGED <<disk, table, prep, cand, excused>>

\* The apply asks again: what is claimed now is not offered any more
AskAgain(o) ==
    /\ op[o].pc = "offered"
    /\ Set(o, IF Claims(op[o].on, row) THEN Idle
              ELSE [op[o] EXCEPT !.pc = "tree", !.knows = row])
    /\ UNCHANGED <<disk, table, prep, cand, excused>>

\* remove_tree
ListTree(o) ==
    /\ op[o].pc = "tree"
    /\ Set(o, [op[o] EXCEPT !.pc = "files", !.todo = there \cap In(op[o].on)])
    /\ UNCHANGED <<disk, table, prep, cand, excused>>

TreeDone(o) ==
    /\ op[o].pc = "rows" /\ op[o].kind = "folder"
    /\ Set(o, Idle)
    /\ UNCHANGED <<disk, table, prep, cand, excused>>

-------------------------------------------------------------------------------

\* What the page offered is the client's and outlives the server
Restart ==
    /\ \E d \in Datasets : Busy(d) \/ \E o \in Ops : op[o].pc \notin {"idle", "offered"}
    /\ prep' = [d \in Datasets |-> IF Busy(d) THEN "over" ELSE prep[d]]
    /\ cand' = [d \in Datasets |-> {}]
    /\ excused' = excused \cup {d \in Datasets : Busy(d)}
    /\ op' = [o \in Ops |-> IF op[o].pc = "offered" THEN op[o] ELSE Idle]
    /\ UNCHANGED <<disk, table>>

Request(o) ==
    \/ \E d \in Datasets :
        \/ \E kind \in {"dataset", "frames"} : Ask(o, d, kind)
        \/ \E dups \in SUBSET rows[d] : FindDuplicates(o, d, dups)
        \/ LookForMissing(o, d) \/ ScanClaims(o, d)
    \/ ReadOthers(o) \/ Check(o) \/ FilesDone(o) \/ DropDataset(o) \/ DropRows(o)
    \/ MarkDuplicates(o) \/ FindMissing(o)
    \/ ListFolder(o) \/ AskAgain(o) \/ ListTree(o) \/ TreeDone(o)
    \/ \E x \in Media : Remove(o, x)

Next ==
    \/ \E d \in Datasets : Preparation(d) \/ \E x \in Media : SetAside(d, x) \/ Restore(d, x)
    \/ \E o \in Ops : Request(o)
    \/ Restart

Spec == Init /\ [][Next]_vars

-------------------------------------------------------------------------------
(* Properties *)

\* The types, and that no frame row is without its dataset (the foreign key)
TypeOK ==
    /\ there \subseteq Media /\ row \subseteq Datasets /\ excused \subseteq Datasets
    /\ root \in [Datasets -> Datasets \cup {User}]
    /\ \A d \in Datasets :
        /\ rows[d] \subseteq Media /\ aside[d] \subseteq rows[d] /\ cand[d] \subseteq Media
        /\ prep[d] \in Running \cup {"none", "over"}
        /\ d \notin row => rows[d] = {}
    /\ \A o \in Ops :
        /\ op[o].kind \in {"none", "dataset", "frames", "dedup", "missing", "folder"}
        /\ op[o].pc \in {"idle", "others", "check", "files", "rows", "missing", "list",
                         "offered", "tree"}
        /\ op[o].on \in Datasets \cup {User} /\ op[o].knows \subseteq Datasets
        /\ op[o].aim \cup op[o].stay \cup op[o].todo \cup op[o].gone \subseteq Media

\* A file that goes is not needed by another dataset that was there when the request read
\* its snapshot, not even by a row its preparation inserts later, while the files go
OthersKeepTheirFiles ==
    [][\A x \in there \ there', e \in row :
        x \in rows[e] \cup cand[e] =>
            \E o \in Ops :
                /\ x \in op[o].todo \ op'[o].todo
                /\ e = op[o].on \/ e \notin op[o].knows]_vars

\* Nothing is taken out of a work folder while its preparation writes there, although an
\* unclaimed folder goes without a busy check and without the guard
PreparationUndisturbed ==
    [][\A x \in there \ there' :
        Home[x] = User \/ prep[Home[x]] \notin {"extract", "insert", "ending"}]_vars

\* A frame row goes only once its file is gone, or belongs to another dataset too: what a
\* failed deletion or a restart leaves behind can be deleted again
RowsGoWithTheirFiles ==
    [][\A d \in Datasets : \A x \in (rows[d] \ rows'[d]) \cap In(d) :
        x \in there' => \E o \in Ops :
            op[o].on = d /\ op'[o] = Idle /\ Sourced(d, op[o].knows)]_vars

\* A preparation that came to its end, done, failed or cancelled, leaves no dataset
\* without frames behind
NoEmptyDataset ==
    \A d \in row \ excused : prep[d] = "over" => rows[d] # {}
=====================================================================================
