-------------------------------- MODULE FrameChoice --------------------------------
(***************************************************************************)
(* Which frames of one source video a dataset keeps: the quality filter of *)
(* a preparation (core/src/capability/dataset/pipeline.rs, filter.rs) and  *)
(* the search for duplicates across the dataset that a user may run later  *)
(* (housekeeping.rs, housekeeping/dedup_plan.rs).                          *)
(*                                                                         *)
(* Covered: the order of the verdicts, the comparison with the last frame  *)
(* that passed, the cap by farthest-point selection, the greedy grouping   *)
(* with its order of visits, the marks, and a frame moved back to Keep.    *)
(* Abstracted: a frame is its perceptual hash, a set of bits, and its      *)
(* sharpness, the variance that both the blur check and the grouping use;  *)
(* decoding and the measures themselves.  Whole runs only: what happens    *)
(* between their steps is the subject of Datasets, with which this module  *)
(* shares no name: DatasetsProofs extends both.                            *)
(***************************************************************************)
EXTENDS Integers, FiniteSetsExt

CONSTANTS
    Length,         \* frames extracted from the source
    Bits,           \* bits of a perceptual hash
    MaxSharpness,   \* sharpness is 0 .. MaxSharpness
    BlurThreshold,  \* below it a frame is too blurry
    TransitionMin,  \* DEFAULT_TRANSITION_MIN_DISTANCE
    Thresholds,     \* distances that a request may ask for
    Caps            \* values of max_frames_per_clip

ASSUME FrameChoiceAssumption ==
    /\ Length \in Nat \ {0} /\ MaxSharpness \in Nat /\ TransitionMin \in Nat
    /\ Thresholds \subseteq Nat /\ Caps \subseteq Nat /\ IsFiniteSet(Bits)

VARIABLES
    frames,   \* what was extracted, in the order of the video
    reason,   \* rejection_reason of each frame's row, "" for a kept one
    asked     \* what the last run was asked for

choiceVars == <<frames, reason, asked>>

Indices == 1 .. Length

\* A dead frame is flat: it has no edges, and none of its bits is set
Frames ==
    [dead : {FALSE}, hash : SUBSET Bits, sharp : 0 .. MaxSharpness]
    \cup [dead : {TRUE}, hash : {{}}, sharp : {0}]

Reasons == {"", "black", "transition", "blur", "duplicate", "cap", "duplicate_global"}

\* ImageHash::dist, and hamming on the bytes of two hashes
Distance(a, b) == Cardinality((a \ b) \cup (b \ a))
Apart(i, j) == Distance(frames[i].hash, frames[j].hash)

Kept == {i \in Indices : reason[i] = ""}

----------------------------------------------------------------------------
(* filter_groups *)

Blurry(i) == frames[i].sharp < BlurThreshold

\* is_transition: no verdict at either end of the source
Transition(i) ==
    /\ Blurry(i) /\ {i - 1, i + 1} \subseteq Indices
    /\ Apart(i - 1, i) > TransitionMin
    /\ Apart(i + 1, i) > TransitionMin

Dropped(i) == frames[i].dead \/ Transition(i) \/ Blurry(i)

\* Mutant: the last frame that was good enough, a duplicate or not.
LastGood(distance) ==
    LET last[i \in 0 .. Length] ==
        IF i = 0 THEN 0
        ELSE IF Dropped(i) THEN last[i - 1] ELSE i
    IN last

\* last_kept after the first i frames, 0 for none
LastKept(distance) ==
    LET last[i \in 0 .. Length] ==
        IF i = 0 THEN 0
        ELSE IF Dropped(i) \/ (last[i - 1] # 0 /\ Apart(last[i - 1], i) <= distance)
             THEN last[i - 1]
             ELSE i
    IN last

\* The first reason that applies; "" for the survivors of pass 2
Verdict(i, last) ==
    CASE frames[i].dead -> "black"
      [] ~frames[i].dead /\ Transition(i) -> "transition"
      [] ~frames[i].dead /\ ~Transition(i) /\ Blurry(i) -> "blur"
      [] ~Dropped(i) /\ last[i] # i -> "duplicate"
      [] OTHER -> ""

Nearest(chosen, i) == Min({Apart(c, i) : c \in chosen})

\* Mutant: the first of the rest.
Foremost(chosen, rest) == Min(rest)

\* The frame farthest from what was chosen, the earliest one of a tie
Farthest(chosen, rest) ==
    Min({i \in rest : \A j \in rest : Nearest(chosen, j) <= Nearest(chosen, i)})

\* select_diverse: starts with the first survivor; a cap of 0 is none
SelectDiverse(survivors, cap) ==
    LET chosen[n \in 1 .. cap] ==
        IF n = 1 THEN {Min(survivors)}
        ELSE chosen[n - 1] \cup {Farthest(chosen[n - 1], survivors \ chosen[n - 1])}
    IN IF cap = 0 \/ Cardinality(survivors) <= cap THEN survivors ELSE chosen[cap]

Filtered(distance, cap) ==
    LET last == LastKept(distance)
        survivors == {i \in Indices : Verdict(i, last) = ""}
        chosen == SelectDiverse(survivors, cap)
    IN [i \in Indices |-> IF i \in survivors \ chosen THEN "cap" ELSE Verdict(i, last)]

----------------------------------------------------------------------------
(* plan_dedup *)

\* Mutant: in the order of the video.
Earlier(i, j) == i < j

\* Sharpest first, the earlier one of two that are equally sharp
Before(i, j) ==
    \/ frames[i].sharp > frames[j].sharp
    \/ frames[i].sharp = frames[j].sharp /\ i < j

\* The last one that the loop over the sorted frames comes to
LastVisited(items) == CHOOSE i \in items : \A j \in items \ {i} : Before(j, i)

\* A frame joins a keeper within the threshold, of those that the frames before it left,
\* or becomes one
Keepers(items, threshold) ==
    MapThenFoldSet(LAMBDA i, keepers :
                       IF \E k \in keepers : Apart(k, i) <= threshold
                       THEN keepers ELSE keepers \cup {i},
                   {}, LAMBDA i : i, LastVisited, items)

----------------------------------------------------------------------------
(* A preparation, then whatever the user asks for *)

ChoiceInit ==
    /\ frames \in [Indices -> Frames]
    /\ reason = [i \in Indices |-> ""]
    /\ asked = [run |-> "none", distance |-> 0, cap |-> 0]

Prepare ==
    /\ asked.run = "none"
    /\ \E d \in Thresholds, cap \in Caps :
        /\ asked' = [run |-> "prepare", distance |-> d, cap |-> cap]
        /\ reason' = Filtered(d, cap)
    /\ UNCHANGED frames

\* dedup only looks at what is kept, and only marks
Dedup ==
    /\ asked.run # "none"
    /\ \E t \in Thresholds :
        /\ asked' = [run |-> "dedup", distance |-> t, cap |-> 0]
        /\ reason' = [i \in Indices |->
               IF i \in Kept \ Keepers(Kept, t) THEN "duplicate_global" ELSE reason[i]]
    /\ UNCHANGED frames

\* The curation grid's "Keep"
KeepFrame(i) ==
    /\ asked.run # "none" /\ reason[i] # ""
    /\ asked' = [run |-> "restore", distance |-> 0, cap |-> 0]
    /\ reason' = [reason EXCEPT ![i] = ""]
    /\ UNCHANGED frames

ChoiceNext == Prepare \/ Dedup \/ \E i \in Indices : KeepFrame(i)

ChoiceSpec == ChoiceInit /\ [][ChoiceNext]_choiceVars

----------------------------------------------------------------------------
(* Properties *)

\* A frame is dropped as a duplicate only for a picture that the preparation looked
\* at with favour: the last one before it that passed, at most the requested distance
\* away, and kept unless the cap took it; two neighbours that passed are farther apart.
DuplicatesHaveOriginals ==
    asked.run = "prepare" =>
        LET passed == {i \in Indices : reason[i] \in {"", "cap"}}
            previous(i) == {j \in passed : j < i /\ \A k \in passed : k < i => k <= j}
            near(i, j) == Apart(i, j) <= asked.distance
        IN \A i \in Indices :
            /\ reason[i] = "duplicate" => \E j \in previous(i) : near(i, j)
            /\ i \in passed => \A j \in previous(i) : ~near(i, j)

\* The cap keeps a spread-out subset: as many as it allows, the first survivor among
\* them, and no frame it took is farther from all the kept ones than two of those are
\* from each other, the guarantee of farthest-point selection.
CapSpreads ==
    asked.run = "prepare" =>
        LET capped == {i \in Indices : reason[i] = "cap"} IN
        /\ asked.cap # 0 => Cardinality(Kept) <= asked.cap
        /\ capped # {} =>
            /\ Cardinality(Kept) = asked.cap
            /\ \A i \in capped : Min(Kept) < i
            /\ \A i \in capped, j, k \in Kept :
                j # k => Nearest(Kept, i) <= Apart(j, k)

\* A search for duplicates never loses a picture and never leaves a near copy: each
\* frame it marks has a kept one within the threshold that is at least as sharp, and
\* what it keeps is farther apart; frames are not chained together by small steps.
DedupKeepsTheSharpest ==
    [][Dedup =>
        /\ \A i \in Kept \ Kept' : \E k \in Kept' :
            Apart(i, k) <= asked'.distance /\ frames[k].sharp >= frames[i].sharp
        /\ \A j, k \in Kept' : j # k => Apart(j, k) > asked'.distance]_choiceVars

====================================================================================
