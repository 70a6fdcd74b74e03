-------------------------- MODULE AgentSessionsProofs --------------------------
(***************************************************************************)
(* Proofs about AgentSessions for any set of sessions, callers and models: *)
(* types, that stop and the drain never both wind a session up, that a     *)
(* session that starts has its open, and that a pin goes with its session. *)
(* The run checks them on a small instance; here there may be any number   *)
(* of callers, and several sessions live at once.                          *)
(*                                                                         *)
(* The right to wind a session up is a token: the request that has not yet *)
(* registered the handle has it, then the map of live sessions, then the   *)
(* stop or the drain that took the handle out.  Token says that there is   *)
(* at most one, and that it is spent when the session is wound up.         *)
(*                                                                         *)
(* Every pin has someone who answers for it (PinsClaimed): the open that   *)
(* took it, the live session, the drain or the request that winds it up,   *)
(* or an open that failed too early, which PinsHaveSessions excepts.       *)
(***************************************************************************)
EXTENDS AgentSessions, TLAPS

\* Requests at these steps have a model they want, or a session in hand.
WithModel   == {"plan", "evict", "unloadPrey", "load", "loading", "pin", "create"}
WithSession == RequestPC \ (WithModel \cup {"idle"})

InHand == \A q \in Requests :
    /\ rpc[q] \in WithModel => want[q] \in Coding
    /\ rpc[q] \in WithSession => rid[q] \in Sessions

Typed == TypeOK /\ InHand

\* Request q has the token of session s.
Holds(q, s) == rid[q] = s /\ rpc[q] \in {"start", "listen", "register", "close"}

\* Before its creation nobody knows a session.
Unborn(s) == row[s] = "unborn" =>
    /\ s \notin live /\ dpc[s] = "none" /\ wound[s] = 0
    /\ \A q \in Requests : rid[q] # s

OneToken(s) ==
    /\ \A q \in Requests : Holds(q, s) =>
          /\ s \notin live /\ dpc[s] # "unpin" /\ wound[s] = 0
          /\ \A p \in Requests : Holds(p, s) => p = q
    /\ s \in live => dpc[s] # "unpin" /\ wound[s] = 0
    /\ dpc[s] = "unpin" => wound[s] = 0

Token == \A s \in Sessions : Unborn(s) /\ OneToken(s) /\ wound[s] <= 1

Inv == Typed /\ Token

-------------------------------------------------------------------------------
(* Types *)

\* The invariant holds when the application starts.
THEOREM InitInv == Init => Inv
  BY SessionsAssumption, NoOneAssumption, CrashesAssumption
  DEF Init, Inv, Typed, TypeOK, InHand, Token, Unborn, OneToken, Holds, Models, Rows,
      Terminal, RequestPC, DrainPC, WithModel, WithSession

\* Planning, evicting, loading and pinning keep the types.
LEMMA AcquireTyped ==
    ASSUME Typed, NEW q \in Requests, Acquire(q)
    PROVE  Typed'
<1> USE NoOneAssumption DEF Typed, TypeOK, InHand, Models, RequestPC, WithModel, WithSession,
        Goto, Continue, Reply, table, gpu, drain, request, history
<1>1. CASE Plan(q)  BY <1>1 DEF Plan
<1>2. CASE Evict(q)  BY <1>2 DEF Evict
<1>3. CASE UnloadPrey(q)  BY <1>3 DEF UnloadPrey, Unload
<1>4. CASE Load(q)  BY <1>4 DEF Load
<1>5. CASE Loaded(q)  BY <1>5 DEF Loaded
<1>6. CASE Pin(q)  BY <1>6 DEF Pin
<1>7. QED  BY <1>1, <1>2, <1>3, <1>4, <1>5, <1>6 DEF Acquire

\* So does the rest of an open, its rollback included.
LEMMA StartingTyped ==
    ASSUME Typed, NEW q \in Requests, Starting(q)
    PROVE  Typed'
<1> USE NoOneAssumption, SessionsAssumption
        DEF Typed, TypeOK, InHand, RequestPC, WithModel, WithSession, Goto, Continue, Reply,
            table, gpu, drain, request, history
<1>1. CASE Create(q)  BY <1>1 DEF Create, Rows
<1>2. CASE Start(q)
  <2>1. rid[q] \in Sessions /\ procs' \subseteq Sessions
    BY <1>2 DEF Start
  <2>2. QED
    BY <1>2, <2>1 DEF Start
<1>3. CASE Listen(q)  BY <1>3 DEF Listen, DrainPC
<1>4. CASE Register(q)  BY <1>4 DEF Register
<1>5. CASE Opening(q)  BY <1>5 DEF Opening
<1>6. CASE Opened(q)  BY <1>6 DEF Opened, SetState, Rows
<1>7. CASE Rollback(q)  BY <1>7 DEF Rollback, TakeHandle
<1>8. CASE ProfileGone(q)  BY <1>8 DEF ProfileGone
<1>9. QED  BY <1>1, <1>2, <1>3, <1>4, <1>5, <1>6, <1>7, <1>8 DEF Starting

\* release, as stop and the rollback call it; then the row is written.
LEMMA ReleaseTyped ==
    ASSUME Typed, NEW q \in Requests,
           NEW from \in WithSession, NEW unload \in WithSession, NEW done \in WithSession,
           NEW state \in Rows,
           \/ Release(q, from, unload, done)
           \/ ReleaseUnload(q, from, done)
           \/ Settle(q, from, state)
    PROVE  Typed'
<1> USE NoOneAssumption
        DEF Typed, TypeOK, InHand, RequestPC, WithModel, WithSession, Goto, Continue, Reply,
            table, gpu, drain, request, history
<1>1. CASE Release(q, from, unload, done)  BY <1>1 DEF Release, Unpinned
<1>2. CASE ReleaseUnload(q, from, done)  BY <1>2 DEF ReleaseUnload, Unload
<1>3. CASE Settle(q, from, state)  BY <1>3 DEF Settle, SetState
<1>4. QED  BY <1>1, <1>2, <1>3

\* So do the entries of open, stop and message, and what follows each at once.
LEMMA CallsTyped ==
    ASSUME Typed, NEW q \in Requests,
           \/ \E m \in Coding : Open(q, m)
           \/ \E s \in Sessions : Stop(q, s) \/ Message(q, s)
           \/ Close(q) \/ Send(q)
    PROVE  Typed'
<1> USE NoOneAssumption
        DEF Typed, TypeOK, InHand, RequestPC, WithModel, WithSession, Goto, Continue, Reply,
            table, gpu, drain, request, history
<1>1. ASSUME NEW m \in Coding, Open(q, m) PROVE Typed'  BY <1>1 DEF Open
<1>2. ASSUME NEW s \in Sessions, Stop(q, s) PROVE Typed'  BY <1>2 DEF Stop
<1>3. ASSUME NEW s \in Sessions, Message(q, s) PROVE Typed'  BY <1>3 DEF Message
<1>4. CASE Close(q)  BY <1>4 DEF Close
<1>5. CASE Send(q)  BY <1>5 DEF Send
<1>6. QED  BY <1>1, <1>2, <1>3, <1>4, <1>5

\* So does every step of a request.
LEMMA RequestTyped ==
    ASSUME Typed, NEW q \in Requests, Request(q)
    PROVE  Typed'
<1> DEFINE Labels == {"stUnpin", "stUnload", "stopped", "rbUnpin", "rbUnload", "failed",
                      "sent"}
<1>1. Labels \subseteq WithSession /\ {"stopped", "failed", "open"} \subseteq Rows
  BY DEF RequestPC, WithModel, WithSession, Rows, Terminal
<1>2. CASE Stopping(q)
  BY <1>1, <1>2, CallsTyped, ReleaseTyped DEF Stopping
<1>3. CASE RollingBack(q)
  BY <1>1, <1>3, ReleaseTyped DEF RollingBack
<1>4. CASE Sent(q)
  BY <1>1, <1>4, ReleaseTyped DEF Sent
<1>5. QED
  BY <1>2, <1>3, <1>4, AcquireTyped, StartingTyped, CallsTyped DEF Request

\* So does every step of an event drain.
LEMMA DrainTyped ==
    ASSUME Typed, NEW s \in Sessions, Drain(s)
    PROVE  Typed'
<1> USE DEF Typed, TypeOK, InHand, DrainPC, DGoto, table, gpu, drain, request, history
<1>1. CASE Recv(s)  BY <1>1 DEF Recv
<1>2. CASE \/ Event(s, "event", "open", "recv") \/ Event(s, "error", "failed", "ending")
           \/ Event(s, "fail", "failed", "ended")
  BY <1>2 DEF Event, SetState, Rows, Terminal
<1>3. CASE WindDown(s)  BY <1>3 DEF WindDown, TakeHandle
<1>4. CASE DrainUnpin(s)  BY <1>4 DEF DrainUnpin, Unpinned
<1>5. CASE DrainUnload(s)  BY <1>5 DEF DrainUnload, Unload
<1>6. CASE DrainCheck(s)  BY <1>6 DEF DrainCheck
<1>7. CASE Dropped(s)  BY <1>7 DEF Dropped
<1>8. QED  BY <1>1, <1>2, <1>3, <1>4, <1>5, <1>6, <1>7 DEF Drain

\* So do the program, the other users of the GPU and a restart.
LEMMA SurroundingsTyped ==
    ASSUME Typed, Others \/ Restart
    PROVE  Typed'
<1> USE DEF Typed, TypeOK, InHand, table, gpu, drain, request, history
<1>1. ASSUME NEW s \in Sessions, Exit(s) PROVE Typed'  BY <1>1 DEF Exit
<1>2. ASSUME NEW m \in Models \cup {NoOne}, OthersUse(m) PROVE Typed'  BY <1>2 DEF OthersUse
<1>3. CASE EngineChooses  BY <1>3 DEF EngineChooses
<1>4. CASE EngineEvicts  BY <1>4 DEF EngineEvicts
<1>5. CASE Restart
  BY <1>5, NoOneAssumption, CrashesAssumption
  DEF Restart, Orphaned, Rows, Terminal, DrainPC, RequestPC, WithModel, WithSession
<1>6. QED  BY <1>1, <1>2, <1>3, <1>4, <1>5 DEF Others

\* Every variable stays within its type.
THEOREM TypeCorrect == Spec => []TypeOK
<1>1. Typed /\ [Next]_vars => Typed'
  <2>1. CASE UNCHANGED vars
    BY <2>1 DEF Typed, TypeOK, InHand, vars, table, gpu, drain, request, history
  <2>2. QED
    BY <2>1, RequestTyped, DrainTyped, SurroundingsTyped DEF Next
<1>2. QED
  BY <1>1, InitInv, PTL DEF Spec, Inv, Typed

-------------------------------------------------------------------------------
(* The token *)

\* A step that hands no token on, spends none and creates no session.
Tokenless ==
    /\ live' \subseteq live /\ wound' = wound
    /\ \A s \in Sessions :
          /\ row'[s] = "unborn" => row[s] = "unborn"
          /\ dpc'[s] = "unpin" => dpc[s] = "unpin"
          /\ dpc[s] = "none" /\ row[s] = "unborn" => dpc'[s] = "none"
          /\ \A q \in Requests : Holds(q, s)' => Holds(q, s)
          /\ \A q \in Requests : row[s] = "unborn" /\ rid'[q] = s => rid[q] = s

\* A step that hands no handle around keeps the tokens.
LEMMA TokenlessKeeps ==
    ASSUME Token, Tokenless
    PROVE  Token'
<1> SUFFICES ASSUME NEW s \in Sessions
             PROVE  Unborn(s)' /\ OneToken(s)' /\ wound'[s] <= 1
  BY DEF Token
<1>1. Unborn(s) /\ OneToken(s) /\ wound[s] <= 1
  BY DEF Token
<1>2. Unborn(s)'
  BY <1>1 DEF Tokenless, Unborn
<1>3. OneToken(s)'
  BY <1>1 DEF Tokenless, OneToken
<1>4. QED
  BY <1>1, <1>2, <1>3 DEF Tokenless

\* The steps of a request that leave rows and drains alone.
LEMMA AcquireTokenless ==
    ASSUME Typed, NEW q \in Requests,
           \/ \E m \in Coding : Open(q, m)
           \/ Acquire(q)
    PROVE  Tokenless
<1> USE SessionsAssumption
        DEF Tokenless, Holds, Typed, TypeOK, Goto, Continue, Reply,
            table, drain, request, history
<1>1. ASSUME NEW m \in Coding, Open(q, m) PROVE Tokenless  BY <1>1 DEF Open
<1>2. CASE Plan(q)  BY <1>2 DEF Plan
<1>3. CASE Evict(q)  BY <1>3 DEF Evict
<1>4. CASE UnloadPrey(q)  BY <1>4 DEF UnloadPrey
<1>5. CASE Load(q)  BY <1>5 DEF Load
<1>6. CASE Loaded(q)  BY <1>6 DEF Loaded
<1>7. CASE Pin(q)  BY <1>7 DEF Pin
<1>8. QED  BY <1>1, <1>2, <1>3, <1>4, <1>5, <1>6, <1>7 DEF Acquire

\* An open hands none around but where it creates the row or registers the handle.
LEMMA StartTokenless ==
    ASSUME Typed, Token, NEW q \in Requests,
           \/ ProfileGone(q) \/ Start(q) \/ Listen(q) \/ Opening(q) \/ Opened(q)
           \/ Rollback(q)
    PROVE  Tokenless
<1> USE SessionsAssumption
        DEF Tokenless, Holds, Typed, TypeOK, Goto, Continue, Reply,
            table, drain, request, history
<1>1. CASE Start(q)  BY <1>1 DEF Start
<1>2. CASE Listen(q)  BY <1>2 DEF Listen, Token, Unborn
<1>3. CASE Opening(q)  BY <1>3 DEF Opening
<1>4. CASE Opened(q)  BY <1>4 DEF Opened, SetState
<1>5. CASE Rollback(q)  BY <1>5 DEF Rollback, TakeHandle
<1>6. CASE ProfileGone(q)  BY <1>6 DEF ProfileGone
<1>7. QED  BY <1>1, <1>2, <1>3, <1>4, <1>5, <1>6

\* A release of a pin and its unload hand none around.
LEMMA ReleaseTokenless ==
    ASSUME Typed, Token, NEW q \in Requests,
           NEW from, NEW unload, NEW done, NEW state \in Rows \ {"unborn"},
           {unload, done} \cap {"start", "listen", "register", "close"} = {},
           \/ Release(q, from, unload, done)
           \/ ReleaseUnload(q, from, done)
           \/ Settle(q, from, state)
    PROVE  Tokenless
<1> USE SessionsAssumption
        DEF Tokenless, Holds, Typed, TypeOK, Goto, Continue, Reply,
            table, drain, request, history
<1>1. CASE Release(q, from, unload, done)  BY <1>1 DEF Release
<1>2. CASE ReleaseUnload(q, from, done)  BY <1>2 DEF ReleaseUnload
<1>3. CASE Settle(q, from, state)  BY <1>3 DEF Settle, SetState
<1>4. QED  BY <1>1, <1>2, <1>3

\* A message hands none around.
LEMMA MessageTokenless ==
    ASSUME Typed, Token, NEW q \in Requests,
           Send(q) \/ \E s \in Sessions : Message(q, s)
    PROVE  Tokenless
<1> USE SessionsAssumption
        DEF Tokenless, Holds, Typed, TypeOK, Goto, Continue, Reply,
            table, drain, request, history
<1>1. CASE Send(q)  BY <1>1 DEF Send
<1>2. ASSUME NEW s \in Sessions, Message(q, s) PROVE Tokenless
  BY <1>2 DEF Message, Token, Unborn
<1>3. QED  BY <1>1, <1>2

\* A drain hands none around but where it takes the handle or unpins.
LEMMA DrainTokenless ==
    ASSUME Typed, Token, NEW s \in Sessions,
           \/ Recv(s) \/ Event(s, "event", "open", "recv")
           \/ Event(s, "error", "failed", "ending") \/ Event(s, "fail", "failed", "ended")
           \/ DrainUnload(s) \/ DrainCheck(s) \/ Dropped(s)
    PROVE  Tokenless
<1> USE DEF Tokenless, Holds, Typed, TypeOK, DGoto, table, drain, request, history
<1>1. CASE Recv(s)  BY <1>1 DEF Recv
<1>2. CASE \/ Event(s, "event", "open", "recv") \/ Event(s, "error", "failed", "ending")
           \/ Event(s, "fail", "failed", "ended")
  BY <1>2 DEF Event, SetState
<1>3. CASE DrainUnload(s)  BY <1>3 DEF DrainUnload
<1>4. CASE DrainCheck(s)  BY <1>4 DEF DrainCheck
<1>5. CASE Dropped(s)  BY <1>5 DEF Dropped
<1>6. QED  BY <1>1, <1>2, <1>3, <1>4, <1>5

\* Nothing around a session hands its handle around; a restart drops all of them.
LEMMA SurroundingsTokenless ==
    ASSUME Typed, Others \/ Restart
    PROVE  Tokenless
<1> USE DEF Tokenless, Holds, table, drain, request, history
<1>1. CASE \E s \in Sessions : Exit(s)  BY <1>1 DEF Exit
<1>2. CASE \E m \in Models \cup {NoOne} : OthersUse(m)  BY <1>2 DEF OthersUse
<1>3. CASE EngineChooses  BY <1>3 DEF EngineChooses
<1>4. CASE EngineEvicts  BY <1>4 DEF EngineEvicts
<1>5. CASE Restart
  BY <1>5, SessionsAssumption DEF Restart, Orphaned, Typed, TypeOK
<1>6. QED  BY <1>1, <1>2, <1>3, <1>4, <1>5 DEF Others

\* The new session's token goes to the request that creates it.
LEMMA CreateKeeps ==
    ASSUME Typed, Token, NEW q \in Requests, Create(q)
    PROVE  Token'
<1>1. PICK s \in Sessions :
        /\ row[s] = "unborn"
        /\ row' = [row EXCEPT ![s] = "starting"] /\ rid' = [rid EXCEPT ![q] = s]
  BY DEF Create
<1>2. /\ rpc' = [rpc EXCEPT ![q] = "start"] /\ rpc[q] = "create"
      /\ UNCHANGED <<live, dpc, wound>>
  BY DEF Create, Goto, drain, history
<1>3. SUFFICES ASSUME NEW t \in Sessions
               PROVE  Unborn(t)' /\ OneToken(t)' /\ wound'[t] <= 1
  BY DEF Token
<1>4. Unborn(t) /\ OneToken(t) /\ wound[t] <= 1 /\ Unborn(s)
  BY DEF Token
<1>5. CASE t = s
  BY <1>1, <1>2, <1>4, <1>5 DEF Unborn, OneToken, Holds, Typed, TypeOK
<1>6. CASE t # s
  BY <1>1, <1>2, <1>4, <1>6 DEF Unborn, OneToken, Holds, Typed, TypeOK
<1>7. QED
  BY <1>5, <1>6

\* It hands it on with the handle, to the map of live sessions.
LEMMA RegisterKeeps ==
    ASSUME Typed, Token, NEW q \in Requests, Register(q)
    PROVE  Token'
<1>1. /\ live' = live \cup {rid[q]} /\ rpc' = [rpc EXCEPT ![q] = "opening"]
      /\ rpc[q] = "register" /\ UNCHANGED <<row, rid, dpc, wound>>
  BY DEF Register, Continue, Goto, table, drain, history
<1>2. SUFFICES ASSUME NEW t \in Sessions
               PROVE  Unborn(t)' /\ OneToken(t)' /\ wound'[t] <= 1
  BY DEF Token
<1>3. Unborn(t) /\ OneToken(t) /\ wound[t] <= 1
  BY DEF Token
<1>4. QED
  BY <1>1, <1>3 DEF Unborn, OneToken, Holds, Typed, TypeOK

\* stop takes it out of the map ...
LEMMA StopKeeps ==
    ASSUME Typed, Token, NEW q \in Requests, NEW s \in Sessions, Stop(q, s)
    PROVE  Token'
<1>1. /\ \/ s \in live /\ live' = live \ {s} /\ rpc' = [rpc EXCEPT ![q] = "close"]
         \/ row[s] # "unborn" /\ live' = live /\ rpc' = [rpc EXCEPT ![q] = "stopped"]
      /\ rid' = [rid EXCEPT ![q] = s] /\ rpc[q] = "idle" /\ UNCHANGED <<row, dpc, wound>>
  BY DEF Stop, Goto, table, drain, history
<1>2. SUFFICES ASSUME NEW t \in Sessions
               PROVE  Unborn(t)' /\ OneToken(t)' /\ wound'[t] <= 1
  BY DEF Token
<1>3. Unborn(t) /\ OneToken(t) /\ wound[t] <= 1
  BY DEF Token
<1>4. QED
  BY <1>1, <1>3 DEF Unborn, OneToken, Holds, Typed, TypeOK

\* ... and spends it.
LEMMA CloseKeeps ==
    ASSUME Typed, Token, NEW q \in Requests, Close(q)
    PROVE  Token'
<1>1. /\ rpc' = [rpc EXCEPT ![q] = "stUnpin"] /\ rpc[q] = "close"
      /\ wound' = [wound EXCEPT ![rid[q]] = @ + 1] /\ UNCHANGED <<row, rid, live, dpc>>
  BY DEF Close, Continue, Goto, table
<1>2. SUFFICES ASSUME NEW t \in Sessions
               PROVE  Unborn(t)' /\ OneToken(t)' /\ wound'[t] <= 1
  BY DEF Token
<1>3. Unborn(t) /\ OneToken(t) /\ wound[t] <= 1
  BY DEF Token
<1>4. CASE rid[q] = t
  <2>1. Holds(q, t)
    BY <1>1, <1>4 DEF Holds
  <2>2. \A p \in Requests : ~ Holds(p, t)'
    BY <1>1, <1>3, <2>1 DEF OneToken, Holds, Typed, TypeOK
  <2>3. wound'[t] = 1 /\ t \notin live /\ dpc[t] # "unpin" /\ row[t] # "unborn"
    BY <1>1, <1>3, <1>4, <2>1 DEF OneToken, Unborn, Typed, TypeOK
  <2>4. QED
    BY <1>1, <2>2, <2>3 DEF Unborn, OneToken
<1>5. CASE rid[q] # t
  BY <1>1, <1>3, <1>5 DEF Unborn, OneToken, Holds, Typed, TypeOK
<1>6. QED
  BY <1>4, <1>5

\* A drain that still finds the handle takes it and the token with it ...
LEMMA WindDownKeeps ==
    ASSUME Typed, Token, NEW s \in Sessions, WindDown(s)
    PROVE  Token'
<1>1. /\ UNCHANGED <<row, rpc, rid, wound>> /\ dpc[s] = "ending"
      /\ \/ s \in live /\ live' = live \ {s} /\ dpc' = [dpc EXCEPT ![s] = "unpin"]
         \/ UNCHANGED live /\ dpc' = [dpc EXCEPT ![s] = "ended"]
  BY DEF WindDown, Owned, TakeHandle, DGoto, table, request, history
<1>2. SUFFICES ASSUME NEW t \in Sessions
               PROVE  Unborn(t)' /\ OneToken(t)' /\ wound'[t] <= 1
  BY DEF Token
<1>3. Unborn(t) /\ OneToken(t) /\ wound[t] <= 1
  BY DEF Token
<1>4. QED
  BY <1>1, <1>3 DEF Unborn, OneToken, Holds, Typed, TypeOK

\* ... and spends it when it gives the model back.
LEMMA DrainUnpinKeeps ==
    ASSUME Typed, Token, NEW s \in Sessions, DrainUnpin(s)
    PROVE  Token'
<1>1. /\ UNCHANGED <<row, rpc, rid, live>> /\ dpc[s] = "unpin"
      /\ \E to \in {"unload", "check"} : dpc' = [dpc EXCEPT ![s] = to]
      /\ wound' = [wound EXCEPT ![s] = @ + 1]
  BY DEF DrainUnpin, DGoto, table, request
<1>2. SUFFICES ASSUME NEW t \in Sessions
               PROVE  Unborn(t)' /\ OneToken(t)' /\ wound'[t] <= 1
  BY DEF Token
<1>3. Unborn(t) /\ OneToken(t) /\ wound[t] <= 1
  BY DEF Token
<1>4. QED
  BY <1>1, <1>3 DEF Unborn, OneToken, Holds, Typed, TypeOK

\* A request keeps the tokens: one right at most to wind each session up.
LEMMA RequestToken ==
    ASSUME Typed, Token, NEW q \in Requests, Request(q)
    PROVE  Token'
<1>1. CASE Tokenless
  BY <1>1, TokenlessKeeps
<1>2. CASE Starting(q)
  BY <1>2, CreateKeeps, RegisterKeeps, StartTokenless, TokenlessKeeps DEF Starting
<1>3. CASE Stopping(q) \/ RollingBack(q) \/ Sent(q)
  <2>1. {"stopped", "failed", "open"} \subseteq Rows \ {"unborn"}
    BY DEF Rows, Terminal
  <2>2. CASE Stopping(q)
    BY <2>1, <2>2, CloseKeeps, ReleaseTokenless, TokenlessKeeps DEF Stopping
  <2>3. CASE RollingBack(q) \/ Sent(q)
    BY <2>1, <2>3, ReleaseTokenless, TokenlessKeeps DEF RollingBack, Sent
  <2>4. QED
    BY <1>3, <2>2, <2>3
<1>4. QED
  BY <1>1, <1>2, <1>3, AcquireTokenless, MessageTokenless, StopKeeps DEF Request

\* So does a drain.
LEMMA DrainToken ==
    ASSUME Typed, Token, NEW s \in Sessions, Drain(s)
    PROVE  Token'
<1>1. CASE WindDown(s) \/ DrainUnpin(s)
  BY <1>1, WindDownKeeps, DrainUnpinKeeps
<1>2. CASE ~ (WindDown(s) \/ DrainUnpin(s))
  BY <1>2, DrainTokenless, TokenlessKeeps DEF Drain
<1>3. QED
  BY <1>1, <1>2

\* The inductive invariant holds throughout.
LEMMA InvHolds == Spec => []Inv
<1>1. Inv /\ [Next]_vars => Inv'
  <2>1. CASE UNCHANGED vars
    BY <2>1 DEF Inv, Typed, TypeOK, InHand, Token, Unborn, OneToken, Holds,
        vars, table, gpu, drain, request, history
  <2>2. CASE Others \/ Restart
    BY <2>2, SurroundingsTyped, SurroundingsTokenless, TokenlessKeeps DEF Inv
  <2>3. CASE (\E q \in Requests : Request(q)) \/ (\E s \in Sessions : Drain(s))
    BY <2>3, RequestTyped, RequestToken, DrainTyped, DrainToken DEF Inv
  <2>4. QED
    BY <2>1, <2>2, <2>3 DEF Next
<1>2. QED
  BY <1>1, InitInv, PTL DEF Spec

\* stop and the drain never both wind a session up.
THEOREM WoundUpAtMostOnce == Spec => []WoundUpOnce
<1>1. Inv => WoundUpOnce
  BY DEF Inv, Token, WoundUpOnce
<1>2. QED
  BY <1>1, InvHolds, PTL

-------------------------------------------------------------------------------
(* Starting *)

\* A step that creates no starting session and leaves the opens of the others
\* where they are.
StaysOpening == \A s \in Sessions : row'[s] = "starting" =>
    /\ row[s] = "starting"
    /\ \A q \in Requests : rid[q] = s /\ rpc[q] \in OpenSteps
                            => rid'[q] = s /\ rpc'[q] \in OpenSteps

\* A step that leaves starting rows to their opens keeps StartingIsOpening.
LEMMA StaysOpeningKeeps ==
    ASSUME StartingIsOpening, StaysOpening
    PROVE  StartingIsOpening'
  BY DEF StartingIsOpening, StaysOpening

\* The row is created by the open that will finish it.
LEMMA CreateOpens ==
    ASSUME Typed, StartingIsOpening, NEW q \in Requests, Create(q)
    PROVE  StartingIsOpening'
<1>1. PICK s \in Sessions :
        row' = [row EXCEPT ![s] = "starting"] /\ rid' = [rid EXCEPT ![q] = s]
  BY DEF Create
<1>2. rpc' = [rpc EXCEPT ![q] = "start"] /\ rpc[q] = "create"
  BY DEF Create, Goto
<1>3. QED
  BY <1>1, <1>2 DEF StartingIsOpening, OpenSteps, Typed, TypeOK

\* No other step of a request makes a row start or leaves one starting.
LEMMA RequestStaysOpening ==
    ASSUME Typed, NEW q \in Requests, Request(q), ~ Create(q)
    PROVE  StaysOpening
<1> USE DEF StaysOpening, OpenSteps, Typed, TypeOK, InHand, RequestPC, WithModel, WithSession,
        Goto, Continue, Reply, table, request
<1>1. ASSUME NEW m \in Coding, Open(q, m) PROVE StaysOpening  BY <1>1 DEF Open
<1>2. CASE Acquire(q)
  <2>1. CASE Plan(q)  BY <2>1 DEF Plan
  <2>2. CASE Evict(q)  BY <2>2 DEF Evict
  <2>3. CASE UnloadPrey(q)  BY <2>3 DEF UnloadPrey
  <2>4. CASE Load(q)  BY <2>4 DEF Load
  <2>5. CASE Loaded(q)  BY <2>5 DEF Loaded
  <2>6. CASE Pin(q)  BY <2>6 DEF Pin
  <2>7. QED  BY <1>2, <2>1, <2>2, <2>3, <2>4, <2>5, <2>6 DEF Acquire
<1>3. CASE Starting(q)
  <2>1. CASE Start(q)  BY <2>1 DEF Start
  <2>2. CASE Listen(q)  BY <2>2 DEF Listen
  <2>3. CASE Register(q)  BY <2>3 DEF Register
  <2>4. CASE Opening(q)  BY <2>4 DEF Opening
  <2>5. CASE Opened(q)  BY <2>5 DEF Opened, SetState
  <2>6. CASE Rollback(q)  BY <2>6 DEF Rollback
  <2>7. CASE ProfileGone(q)  BY <2>7 DEF ProfileGone
  <2>8. QED  BY <1>3, <2>1, <2>2, <2>3, <2>4, <2>5, <2>6, <2>7 DEF Starting
<1>4. ASSUME NEW s \in Sessions, Stop(q, s) \/ Message(q, s) PROVE StaysOpening
  BY <1>4 DEF Stop, Message
<1>5. CASE Stopping(q)
  BY <1>5 DEF Stopping, Close, Release, ReleaseUnload, Settle, SetState
<1>6. CASE RollingBack(q)
  BY <1>6 DEF RollingBack, Release, ReleaseUnload, Settle, SetState
<1>7. CASE Send(q) \/ Sent(q)
  BY <1>7 DEF Send, Sent, Settle, SetState
<1>8. QED
  BY <1>1, <1>2, <1>3, <1>4, <1>5, <1>6, <1>7 DEF Request

\* No step of a drain does.
LEMMA DrainStaysOpening ==
    ASSUME Typed, NEW s \in Sessions, Drain(s)
    PROVE  StaysOpening
<1> USE DEF StaysOpening, Typed, TypeOK, table, request
<1>1. CASE Recv(s)  BY <1>1 DEF Recv
<1>2. CASE \/ Event(s, "event", "open", "recv") \/ Event(s, "error", "failed", "ending")
           \/ Event(s, "fail", "failed", "ended")
  BY <1>2 DEF Event, SetState
<1>3. CASE WindDown(s)  BY <1>3 DEF WindDown
<1>4. CASE DrainUnpin(s) \/ DrainUnload(s) \/ DrainCheck(s) \/ Dropped(s)
  BY <1>4 DEF DrainUnpin, DrainUnload, DrainCheck, Dropped
<1>5. QED  BY <1>1, <1>2, <1>3, <1>4 DEF Drain

\* A session reads as starting only while its open is under way.
THEOREM StartingHasItsOpen == Spec => []StartingIsOpening
<1>1. Init => StartingIsOpening
  BY DEF Init, StartingIsOpening
<1>2. Typed /\ StartingIsOpening /\ [Next]_vars => StartingIsOpening'
  <2>1. CASE UNCHANGED vars \/ Others
    <3>1. UNCHANGED <<row, rid, rpc>>
      BY <2>1 DEF vars, table, request, Others, Exit, OthersUse, EngineChooses, EngineEvicts
    <3>2. QED
      BY <3>1, StaysOpeningKeeps DEF StaysOpening
  <2>2. CASE Restart
    <3>1. \A s \in Sessions : row'[s] # "starting"
      BY <2>2 DEF Restart, Orphaned
    <3>2. QED
      BY <3>1 DEF StartingIsOpening
  <2>3. CASE \E q \in Requests : Request(q)
    BY <2>3, CreateOpens, RequestStaysOpening, StaysOpeningKeeps
  <2>4. CASE \E s \in Sessions : Drain(s)
    BY <2>4, DrainStaysOpening, StaysOpeningKeeps
  <2>5. QED
    BY <2>1, <2>2, <2>3, <2>4 DEF Next
<1>3. Inv => Typed
  BY DEF Inv
<1>4. QED
  BY <1>1, <1>2, <1>3, InvHolds, PTL DEF Spec

-------------------------------------------------------------------------------
(* Pins *)

\* Requests at these steps still have to give the model of their session back.
GivesBack == {"start", "listen", "register", "rollback", "rbUnpin", "close", "stUnpin"}

\* Somebody answers for the pin of model m: an open that failed too early, a live
\* session, the drain that has taken its handle, or a request on its way.
Claimed(m) ==
    \/ m \in stray
    \/ \E s \in Sessions : model[s] = m /\ (s \in live \/ dpc[s] = "unpin")
    \/ \E q \in Requests : rpc[q] = "create" /\ want[q] = m
    \/ \E q \in Requests : rpc[q] \in GivesBack /\ model[rid[q]] = m

PinsClaimed == \A m \in pinned : Claimed(m)

\* A step after which whoever answered for a pin still does, unless it is gone.
ClaimsKept ==
    /\ pinned' \subseteq pinned /\ stray \subseteq stray' /\ UNCHANGED model
    /\ \A s \in Sessions : (s \in live \/ dpc[s] = "unpin") /\ model[s] \in pinned' =>
          \/ s \in live' \/ dpc'[s] = "unpin"
          \/ \E q \in Requests : rpc'[q] \in GivesBack /\ rid'[q] = s
    /\ \A q \in Requests : rpc[q] = "create" /\ want[q] \in pinned' =>
          want[q] \in stray' \/ (rpc'[q] = "create" /\ want'[q] = want[q])
    /\ \A q \in Requests : rpc[q] \in GivesBack /\ model[rid[q]] \in pinned' =>
          \/ rpc'[q] \in GivesBack /\ rid'[q] = rid[q]
          \/ rid[q] \in live'

\* Such a step keeps PinsClaimed.
LEMMA ClaimsKeptKeeps ==
    ASSUME Typed, PinsClaimed, ClaimsKept
    PROVE  PinsClaimed'
<1>1. SUFFICES ASSUME NEW m \in pinned' PROVE Claimed(m)'
  BY DEF PinsClaimed
<1>2. m \in pinned /\ Claimed(m) /\ model' = model
  BY DEF PinsClaimed, ClaimsKept
<1>3. CASE m \in stray
  BY <1>3 DEF Claimed, ClaimsKept
<1>4. ASSUME NEW s \in Sessions, model[s] = m, s \in live \/ dpc[s] = "unpin"
      PROVE  Claimed(m)'
  BY <1>2, <1>4 DEF Claimed, ClaimsKept
<1>5. ASSUME NEW q \in Requests, rpc[q] = "create", want[q] = m
      PROVE  Claimed(m)'
  BY <1>5 DEF Claimed, ClaimsKept
<1>6. ASSUME NEW q \in Requests, rpc[q] \in GivesBack, model[rid[q]] = m
      PROVE  Claimed(m)'
  <2>1. rid[q] \in Sessions
    BY <1>6 DEF Typed, InHand, GivesBack, WithSession, WithModel, RequestPC
  <2>2. QED
    BY <1>2, <1>6, <2>1 DEF Claimed, ClaimsKept
<1>7. QED
  BY <1>2, <1>3, <1>4, <1>5, <1>6 DEF Claimed

\* The pin is set by a request that then creates a session for it, or strays.
LEMMA PinClaims ==
    ASSUME Typed, PinsClaimed, NEW q \in Requests, Pin(q)
    PROVE  PinsClaimed'
<1>1. /\ pinned' = pinned \cup {want[q]} /\ rpc[q] = "pin"
      /\ UNCHANGED <<model, live, dpc>>
      /\ \/ /\ rpc' = [rpc EXCEPT ![q] = "create"] /\ UNCHANGED <<rid, want, stray>>
         \/ /\ stray' = stray \cup {want[q]}
            /\ rpc' = [rpc EXCEPT ![q] = "idle"]
            /\ rid' = [rid EXCEPT ![q] = NoOne] /\ want' = [want EXCEPT ![q] = NoOne]
  BY DEF Pin, Continue, Reply, Goto, table, drain
<1>2. SUFFICES ASSUME NEW m \in pinned' PROVE Claimed(m)'
  BY DEF PinsClaimed
<1>3. CASE m = want[q]
  BY <1>1, <1>3 DEF Claimed, Typed, TypeOK
<1>4. CASE m # want[q]
  <2>1. Claimed(m)
    BY <1>1, <1>4 DEF PinsClaimed
  <2>2. QED
    BY <1>1, <2>1 DEF Claimed, Typed, TypeOK, GivesBack
<1>5. QED
  BY <1>3, <1>4

\* The session that is created takes the pin over; nobody had claimed one by it.
LEMMA CreateClaims ==
    ASSUME Typed, Token, PinsClaimed, NEW q \in Requests, Create(q)
    PROVE  PinsClaimed'
<1>1. PICK s \in Sessions :
        /\ row[s] = "unborn" /\ model' = [model EXCEPT ![s] = want[q]]
        /\ rid' = [rid EXCEPT ![q] = s]
  BY DEF Create
<1>2. /\ rpc' = [rpc EXCEPT ![q] = "start"] /\ rpc[q] = "create"
      /\ UNCHANGED <<live, dpc, pinned, want, stray>>
  BY DEF Create, Goto, drain, gpu, history
<1>3. s \notin live /\ dpc[s] # "unpin" /\ \A p \in Requests : rid[p] # s
  BY <1>1 DEF Token, Unborn
<1>4. SUFFICES ASSUME NEW m \in pinned PROVE Claimed(m)'
  BY <1>2 DEF PinsClaimed
<1>5. Claimed(m)
  BY DEF PinsClaimed
<1>6. CASE m = want[q]
  <2>1. rpc'[q] \in GivesBack /\ model'[rid'[q]] = m
    BY <1>1, <1>2, <1>6 DEF Typed, TypeOK, GivesBack
  <2>2. QED
    BY <2>1 DEF Claimed
<1>7. CASE m # want[q]
  <2>1. \A p \in Requests \ {q} : rpc'[p] = rpc[p] /\ rid'[p] = rid[p]
    BY <1>1, <1>2 DEF Typed, TypeOK
  <2>2. \A x : x # s => model'[x] = model[x]
    BY <1>1 DEF Typed, TypeOK
  <2>3. QED
    BY <1>2, <1>3, <1>5, <1>7, <2>1, <2>2 DEF Claimed, GivesBack
<1>8. QED
  BY <1>6, <1>7

\* No other step of a request drops a claim before the pin.
LEMMA RequestClaims ==
    ASSUME Typed, NEW q \in Requests, Request(q), ~ Create(q), ~ Pin(q)
    PROVE  ClaimsKept
<1> USE DEF ClaimsKept, GivesBack, Typed, TypeOK, InHand, RequestPC, WithModel, WithSession,
        Goto, Continue, Reply, table, gpu, drain, request, history
<1>1. ASSUME NEW m \in Coding, Open(q, m) PROVE ClaimsKept  BY <1>1 DEF Open
<1>2. CASE Acquire(q)
  <2>1. CASE Plan(q)  BY <2>1 DEF Plan
  <2>2. CASE Evict(q)  BY <2>2 DEF Evict
  <2>3. CASE UnloadPrey(q)  BY <2>3 DEF UnloadPrey
  <2>4. CASE Load(q)  BY <2>4 DEF Load
  <2>5. CASE Loaded(q)  BY <2>5 DEF Loaded
  <2>6. QED  BY <1>2, <2>1, <2>2, <2>3, <2>4, <2>5 DEF Acquire
<1>3. CASE Starting(q)
  <2>1. CASE Start(q)  BY <2>1 DEF Start
  <2>2. CASE Listen(q)  BY <2>2 DEF Listen
  <2>3. CASE Register(q)  BY <2>3 DEF Register
  <2>4. CASE Opening(q)  BY <2>4 DEF Opening
  <2>5. CASE Opened(q)  BY <2>5 DEF Opened, SetState
  <2>6. CASE Rollback(q)  BY <2>6 DEF Rollback, TakeHandle
  <2>7. CASE ProfileGone(q)  BY <2>7 DEF ProfileGone
  <2>8. QED  BY <1>3, <2>1, <2>2, <2>3, <2>4, <2>5, <2>6, <2>7 DEF Starting
<1>4. ASSUME NEW s \in Sessions, Stop(q, s) PROVE ClaimsKept  BY <1>4 DEF Stop
<1>5. ASSUME NEW s \in Sessions, Message(q, s) PROVE ClaimsKept  BY <1>5 DEF Message
<1>6. CASE Stopping(q)
  <2>1. CASE Close(q)  BY <2>1 DEF Close
  <2>2. CASE Release(q, "stUnpin", "stUnload", "stopped")
    BY <2>2 DEF Release, Unpinned
  <2>3. CASE \/ ReleaseUnload(q, "stUnload", "stopped") \/ Settle(q, "stopped", "stopped")
    BY <2>3 DEF ReleaseUnload, Settle, SetState
  <2>4. QED  BY <1>6, <2>1, <2>2, <2>3 DEF Stopping
<1>7. CASE RollingBack(q)
  <2>1. CASE Release(q, "rbUnpin", "rbUnload", "failed")
    BY <2>1 DEF Release, Unpinned
  <2>2. CASE \/ ReleaseUnload(q, "rbUnload", "failed") \/ Settle(q, "failed", "failed")
    BY <2>2 DEF ReleaseUnload, Settle, SetState
  <2>3. QED  BY <1>7, <2>1, <2>2 DEF RollingBack
<1>8. CASE Send(q) \/ Sent(q)  BY <1>8 DEF Send, Sent, Settle, SetState
<1>9. QED
  BY <1>1, <1>2, <1>3, <1>4, <1>5, <1>6, <1>7, <1>8 DEF Request

\* Nor does a drain, which unpins with the step after it took the handle.
LEMMA DrainClaims ==
    ASSUME Typed, NEW s \in Sessions, Drain(s)
    PROVE  ClaimsKept
<1> USE DEF ClaimsKept, Typed, TypeOK, DGoto, table, gpu, drain, request, history
<1>1. CASE Recv(s)  BY <1>1 DEF Recv
<1>2. CASE \/ Event(s, "event", "open", "recv") \/ Event(s, "error", "failed", "ending")
           \/ Event(s, "fail", "failed", "ended")
  BY <1>2 DEF Event, SetState
<1>3. CASE WindDown(s)  BY <1>3 DEF WindDown, TakeHandle
<1>4. CASE DrainUnpin(s)  BY <1>4 DEF DrainUnpin, Unpinned
<1>5. CASE DrainUnload(s)  BY <1>5 DEF DrainUnload
<1>6. CASE DrainCheck(s) \/ Dropped(s)  BY <1>6 DEF DrainCheck, Dropped
<1>7. QED  BY <1>1, <1>2, <1>3, <1>4, <1>5, <1>6 DEF Drain

\* When nothing is under way a pin belongs to a live session, or to an open that
\* failed before it had one: for any number of sessions, callers and restarts.
THEOREM PinGoesWithItsSession == Spec => []PinsHaveSessions
<1>1. Init => PinsClaimed
  BY DEF Init, PinsClaimed
<1>2. Inv /\ PinsClaimed /\ [Next]_vars => PinsClaimed'
  <2> SUFFICES ASSUME Inv, PinsClaimed, [Next]_vars PROVE PinsClaimed'
    OBVIOUS
  <2>1. CASE UNCHANGED vars \/ Others
    <3>1. ClaimsKept
      BY <2>1 DEF ClaimsKept, vars, table, gpu, drain, request, history, Others, Exit, OthersUse,
                  EngineChooses, EngineEvicts
    <3>2. QED
      BY <3>1, ClaimsKeptKeeps DEF Inv
  <2>2. CASE Restart
    BY <2>2 DEF Restart, PinsClaimed
  <2>3. CASE \E q \in Requests : Request(q)
    BY <2>3, PinClaims, CreateClaims, RequestClaims, ClaimsKeptKeeps DEF Inv
  <2>4. CASE \E s \in Sessions : Drain(s)
    BY <2>4, DrainClaims, ClaimsKeptKeeps DEF Inv
  <2>5. QED
    BY <2>1, <2>2, <2>3, <2>4 DEF Next
<1>3. Inv /\ PinsClaimed => PinsHaveSessions
  BY DEF Inv, Typed, TypeOK, PinsClaimed, Claimed, PinsHaveSessions, Quiet, GivesBack
<1>4. QED
  BY <1>1, <1>2, <1>3, InvHolds, PTL DEF Spec
===============================================================================
