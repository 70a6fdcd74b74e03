---------------------------------- MODULE Sidecar ----------------------------------
(***************************************************************************)
(* One Python sidecar and the calls its adapter makes: the JSON-RPC client *)
(* of core/src/sidecar.rs, the two adapters that own one (core/src/runtime *)
(* /vision.rs and tts.rs), and the loop that serves them                   *)
(* (sidecar/src/aiwm_sidecar/main.py, vision.py).                          *)
(*                                                                         *)
(* Covered: the spawn on first use, the io mutex, request and answer lines *)
(* in the two pipes, the match of ids, a call abandoned at any await (the  *)
(* timeout of an unload, the HTTP client that leaves during an audio       *)
(* clean-up), a sidecar that dies, the captioner engines it keeps cached.  *)
(* Abstracted: an id is the call it belongs to; what an answer says is     *)
(* whether it is a result or an RPC error.  PlacementProofs extends this   *)
(* module and Placement, so it shares no name with that one.               *)
(***************************************************************************)
EXTENDS Sequences, SequencesExt, FiniteSets

CONSTANTS
    Calls,        \* calls made in one run, each with an id of its own
    LongRequests, \* kinds of call whose request line may be written in parts
    LongAnswers,  \* kinds of call whose answer line may be read in parts
    NoCall        \* what a line that cannot be parsed is of

\* What each adapter calls; the tagger's tag_frame is a "caption" too
VisionKinds == {"caption", "unload"}
TtsKinds == {"synthesize", "clean"}
Kinds == VisionKinds \cup TtsKinds

\* Calls that are abandoned at an await: unload_model wraps its call in a
\* timeout, clean_audio runs in the future of its HTTP request
Droppable == {"unload", "clean"}

ASSUME SidecarAssumption ==
    /\ LongRequests \subseteq Kinds
    /\ LongAnswers \subseteq Kinds
    /\ NoCall \notin Calls

VARIABLES
    served,   \* the kinds of the adapter that owns the sidecar
    kind,     \* the kind of a call, chosen when it starts
    stage,       \* where a call is
    process,  \* "none" until the OnceCell holds a client, then "up" or "dead"
    queue,    \* calls that hold or wait for the io mutex, its holder first
    stdin,    \* request lines the sidecar has not read
    torn,     \* stdin ends in part of a line
    stdout,   \* answer lines nobody has read
    held      \* captioner engines are cached in the sidecar

sidecarVars == <<served, kind, stage, process, queue, stdin, torn, stdout, held>>

PCs == {"idle", "opening", "opened", "waiting", "reading", "answered", "failed", "dropped"}
Ended == {"answered", "failed", "dropped"}

Answers == [of : Calls \cup {NoCall}, ok : BOOLEAN]
Garbage == [of |-> NoCall, ok |-> FALSE]

\* The types of the calls, of the two pipes and of the lock's queue
SidecarTypeOK ==
    /\ served \in {VisionKinds, TtsKinds}
    /\ kind \in [Calls -> Kinds]
    /\ stage \in [Calls -> PCs]
    /\ process \in {"none", "up", "dead"}
    /\ queue \in Seq(Calls)
    /\ stdin \in Seq(Calls \cup {NoCall})
    /\ torn \in BOOLEAN
    /\ stdout \in Seq(Answers)
    /\ held \in BOOLEAN

SidecarInit ==
    /\ served \in {VisionKinds, TtsKinds}
    /\ kind \in [Calls -> served]
    /\ stage = [c \in Calls |-> "idle"]
    /\ process = "none"
    /\ queue = <<>> /\ stdin = <<>> /\ stdout = <<>>
    /\ torn = FALSE /\ held = FALSE

Holds(c) == queue # <<>> /\ Head(queue) = c

\* The call leaves raw_call, or gives up waiting for it: the guard is dropped
Leave(c, how) ==
    /\ stage' = [stage EXCEPT ![c] = how]
    /\ queue' = RemoveFirst(queue, c)

\* An unload asks nothing of a sidecar that was never started
Begin(c) ==
    /\ stage[c] = "idle"
    /\ stage' = [stage EXCEPT ![c] =
                 IF kind[c] = "unload" /\ process = "none" THEN "answered" ELSE "opening"]
    /\ UNCHANGED <<served, kind, process, queue, stdin, torn, stdout, held>>

\* client: the first caller spawns the process and shakes hands with it; one
\* that dies stays in the cell
Open(c) ==
    /\ stage[c] = "opening"
    /\ process' = IF process = "none" THEN "up" ELSE process
    /\ stage' = [stage EXCEPT ![c] = "opened"]
    /\ UNCHANGED <<served, kind, queue, stdin, torn, stdout, held>>

\* Others may come first between the cell and the mutex
Queue(c) ==
    /\ stage[c] = "opened"
    /\ stage' = [stage EXCEPT ![c] = "waiting"]
    /\ queue' = Append(queue, c)
    /\ UNCHANGED <<served, kind, process, stdin, torn, stdout, held>>

SpawnFails(c) ==
    /\ stage[c] = "opening" /\ process = "none"
    /\ stage' = [stage EXCEPT ![c] = "failed"]
    /\ UNCHANGED <<served, kind, process, queue, stdin, torn, stdout, held>>

\* raw_call, first half: the line goes behind whatever stdin ends in
Write(c) ==
    /\ stage[c] = "waiting" /\ Holds(c) /\ process = "up"
    /\ stdin' = Append(stdin, IF torn THEN NoCall ELSE c)
    /\ torn' = FALSE
    /\ stage' = [stage EXCEPT ![c] = "reading"]
    /\ UNCHANGED <<served, kind, process, queue, stdout, held>>

WriteFails(c) ==
    /\ stage[c] = "waiting" /\ Holds(c) /\ process = "dead"
    /\ Leave(c, "failed")
    /\ UNCHANGED <<served, kind, process, stdin, torn, stdout, held>>

\* Mutant: the next line is the answer, whatever its id.
ReadAny(c) ==
    /\ stage[c] = "reading" /\ stdout # <<>>
    /\ stdout' = Tail(stdout)
    /\ Leave(c, IF Head(stdout).ok THEN "answered" ELSE "failed")
    /\ UNCHANGED <<served, kind, process, stdin, torn, held>>

\* raw_call, second half: lines are read until one has this call's id
Read(c) ==
    /\ stage[c] = "reading" /\ stdout # <<>>
    /\ stdout' = Tail(stdout)
    /\ LET line == Head(stdout) IN
       \/ /\ line.of = NoCall
          /\ Leave(c, "failed")
       \/ /\ line.of \in Calls \ {c}
          /\ UNCHANGED <<stage, queue>>
       \/ /\ line.of = c
          /\ Leave(c, IF line.ok THEN "answered" ELSE "failed")
    /\ UNCHANGED <<served, kind, process, stdin, torn, held>>

ReadFails(c) ==
    /\ stage[c] = "reading" /\ stdout = <<>> /\ process = "dead"
    /\ Leave(c, "failed")
    /\ UNCHANGED <<served, kind, process, stdin, torn, stdout, held>>

\* Mutant: the timeout spans the exchange, not the wait for the mutex.
AbandonReader(c) ==
    /\ kind[c] \in Droppable
    /\ stage[c] = "reading"
    /\ Leave(c, "dropped")
    /\ UNCHANGED <<served, kind, process, stdin, torn, stdout, held>>

\* The future of a call is dropped at one of its awaits, with what it was
\* writing or reading in whatever state that leaves the pipe
Abandon(c) ==
    /\ kind[c] \in Droppable
    /\ stage[c] \in {"opening", "waiting", "reading"}
    /\ Leave(c, "dropped")
    /\ \/ UNCHANGED <<torn, stdout>>
       \/ /\ stage[c] = "waiting" /\ Holds(c) /\ process = "up"
          /\ kind[c] \in LongRequests
          /\ torn' = TRUE
          /\ UNCHANGED stdout
       \/ /\ stage[c] = "reading" /\ stdout # <<>>
          /\ Head(stdout).of \in Calls
          /\ kind[Head(stdout).of] \in LongAnswers
          /\ stdout' = <<Garbage>> \o Tail(stdout)
          /\ UNCHANGED torn
    /\ UNCHANGED <<served, kind, process, stdin, held>>

\* handle: a caption loads its engine unless it is refused first, an unload
\* drops what is cached; each request gets one answer with its id
Handle(c, ok) ==
    /\ held' = CASE kind[c] = "unload" -> FALSE
                 [] kind[c] = "caption" -> held \/ ok
                 [] OTHER -> held
    /\ stdout' = Append(stdout, [of |-> c, ok |-> ok])

\* main: one line at a time; a line that is not JSON is passed over in silence
Serve ==
    /\ process = "up" /\ stdin # <<>>
    /\ stdin' = Tail(stdin)
    /\ \/ /\ Head(stdin) = NoCall
          /\ UNCHANGED <<stdout, held>>
       \/ /\ Head(stdin) \in Calls
          /\ \E ok \in BOOLEAN : Handle(Head(stdin), ok)
    /\ UNCHANGED <<served, kind, stage, process, queue, torn>>

\* The process goes away, and what it held with it
Die ==
    /\ process = "up"
    /\ process' = "dead"
    /\ stdin' = <<>> /\ torn' = FALSE /\ held' = FALSE
    /\ UNCHANGED <<served, kind, stage, queue, stdout>>

CallStep(c) ==
    Open(c) \/ SpawnFails(c) \/ Queue(c) \/ Write(c) \/ WriteFails(c) \/ Read(c) \/ ReadFails(c)

SidecarNext ==
    \/ \E c \in Calls : Begin(c) \/ CallStep(c) \/ Abandon(c)
    \/ Serve
    \/ Die

\* Each call's own task runs, and the timer of an unload fires
SidecarSpec ==
    /\ SidecarInit /\ [][SidecarNext]_sidecarVars
    /\ \A c \in Calls :
        /\ WF_sidecarVars(CallStep(c))
        /\ WF_sidecarVars(kind[c] = "unload" /\ Abandon(c))

----------------------------------------------------------------------------
(* Properties *)

\* Whatever is still in the pipes is of the call that holds the mutex and reads, or
\* of one that gave up: dropped, or failed on the rest of an answer torn by another
\* that was. No call starts to read behind an answer that somebody still waits for,
\* as io is locked for the whole of raw_call.
OnlyAbandonedAnswersWait ==
    \A c \in Calls :
        (\/ \E i \in DOMAIN stdin : stdin[i] = c
         \/ \E i \in DOMAIN stdout : stdout[i].of = c)
        => \/ stage[c] \in {"dropped", "failed"}
           \/ stage[c] = "reading" /\ Holds(c)

\* An unload that reports its captioners released has released them: no request
\* served before its answer is read loads an engine again, and the late answer of
\* an earlier unload that timed out is not taken for its own.
ReleaseIsReal ==
    [][\A c \in Calls :
        kind[c] = "unload" /\ stage[c] = "reading" /\ stage'[c] = "answered" => ~held]_sidecarVars

\* Every call ends. An unload does whatever the sidecar is doing, a stuck one
\* included, as the timeout spans the wait for the mutex too; the others do if
\* the sidecar goes on serving and no request line was ever left half written,
\* whose successor the sidecar would pass over without an answer.
UnderWay(c) == stage[c] \notin {"idle"} \cup Ended
CallsEnd ==
    /\ \A c \in Calls : (kind[c] = "unload" /\ UnderWay(c)) ~> (stage[c] \in Ended)
    /\ ([]~torn /\ WF_sidecarVars(Serve)) => \A c \in Calls : UnderWay(c) ~> (stage[c] \in Ended)

====================================================================================
