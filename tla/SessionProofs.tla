---------------------------- MODULE SessionProofs ----------------------------
(***************************************************************************)
(* Session composes Connection and Negotiation: proofs, for any number of  *)
(* sockets and rehome requests.                                            *)
(***************************************************************************)
EXTENDS Session, TLAPS

-----------------------------------------------------------------------------
(***************************************************************************)
(* Session implements its two components.                                  *)
(***************************************************************************)

\* A step of the session is one of the transport, or leaves it alone.
LEMMA LinkStep ==
  ASSUME [Next]_vars
  PROVE  [C!Next]_(C!vars)
<1>0. Threads = C!Threads
  BY DEF Threads, C!Threads
<1>1. UNCHANGED link => UNCHANGED C!vars
  BY DEF link, C!vars
<1>2. ASSUME NEW t \in Threads, HandlerStep(t)
      PROVE  [C!Next]_(C!vars)
  <2>1. ASSUME NEW k \in N!Kinds, SendBreaks(t, k)
        PROVE  C!Next
    BY <1>0, <2>1 DEF SendBreaks, C!Next
  <2>2. CASE ~\E k \in N!Kinds : SendBreaks(t, k)
    BY <1>1, <1>2, <2>2
       DEF HandlerStep, HandleAuth, SendOffer, SendFails, FinishOffer,
           PrepareSession, SkipSession, Wake, HandleAck
  <2> QED
    BY <2>1, <2>2
<1>3. ASSUME NEW t \in Threads, LoopStep(t)
      PROVE  [C!Next]_(C!vars)
  <2>1. CASE SendAuth(t)
    BY <1>1, <2>1 DEF SendAuth
  <2>2. CASE ~SendAuth(t)
    <3>1. C!ThreadStep(t)
      BY <1>3, <2>2 DEF LoopStep, Notify, LoopRuns, Wait, AuthSucceeds, RestoreFails,
                        NoteRehome, RefuseReconnect, AcceptReconnect, CutTransport,
                        C!ThreadStep
    <3> QED
      BY <1>0, <3>1 DEF C!Next
  <2> QED
    BY <2>1, <2>2
<1>4. ASSUME NEW t \in Threads, \/ FindBroken(t) \/ RehomeArrives(t) \/ Suspend(t)
      PROVE  C!Next
  BY <1>0, <1>4 DEF FindBroken, RehomeArrives, Suspend, C!Next
<1>5. ASSUME NEW t \in Threads, AuthArrives(t) \/ AckArrives(t)
      PROVE  UNCHANGED link
  BY <1>5 DEF AuthArrives, AckArrives
<1>6. ASSUME NEW s \in C!Sockets, Break(s)
      PROVE  C!Next
  BY <1>6 DEF Break, C!Next
<1>7. CASE TimerStep
  BY <1>1, <1>7 DEF TimerStep
<1>8. CASE CloseFlags \/ CloseSocket
  BY <1>8 DEF CloseFlags, CloseSocket, C!Next
<1>9. CASE UNCHANGED vars
  BY <1>1, <1>9 DEF vars
<1> QED
  BY <1>1, <1>2, <1>3, <1>4, <1>5, <1>6, <1>7, <1>8, <1>9 DEF Next

\* A step of the session is one of the negotiation, or leaves it alone.
LEMMA RuntimeStep ==
  ASSUME [Next]_vars
  PROVE  [N!Next]_(N!vars)
<1>1. UNCHANGED runtime => UNCHANGED N!vars
  BY DEF runtime, N!vars
<1>2. ASSUME NEW t \in Threads, NEW k, Prepare(t, k)
      PROVE  N!Next
  BY <1>2 DEF Prepare, N!Next
<1>3. ASSUME NEW t \in Threads, HandlerStep(t)
      PROVE  [N!Next]_(N!vars)
  <2>1. CASE HandleAuth(t) \/ PrepareSession(t)
    BY <1>1, <1>2, <2>1 DEF HandleAuth, PrepareSession
  <2>2. ASSUME NEW k \in N!Kinds, NEW sent \in BOOLEAN, FinishOffer(t, k, sent)
        PROVE  N!Next
    BY <2>2 DEF FinishOffer, N!Next
  <2>3. ASSUME NEW ack \in N!Acks, HandleAck(t, ack)
        PROVE  N!Next
    BY <2>3 DEF HandleAck, N!Next
  <2>4. ASSUME NEW k \in N!Kinds, SendOffer(t, k) \/ SendFails(t, k) \/ SendBreaks(t, k)
        PROVE  UNCHANGED runtime
    BY <2>4 DEF SendOffer, SendFails, SendBreaks
  <2>5. CASE SkipSession(t) \/ Wake(t)
    BY <1>1, <2>5 DEF SkipSession, Wake
  <2> QED
    BY <1>1, <1>3, <2>1, <2>2, <2>3, <2>4, <2>5 DEF HandlerStep
<1>4. ASSUME NEW t \in Threads, LoopStep(t)
      PROVE  [N!Next]_(N!vars)
  <2>1. CASE Notify(t)
    BY <1>1, <2>1 DEF Notify, N!Next
  <2>2. CASE ~Notify(t)
    BY <1>1, <1>4, <2>2
       DEF LoopStep, LoopRuns, Wait, SendAuth, AuthSucceeds, RestoreFails, NoteRehome,
           RefuseReconnect, AcceptReconnect, CutTransport
  <2> QED
    BY <2>1, <2>2
<1>5. ASSUME NEW t \in Threads,
             \/ FindBroken(t) \/ AuthArrives(t) \/ AckArrives(t)
             \/ RehomeArrives(t) \/ Suspend(t)
      PROVE  UNCHANGED runtime
  BY <1>5 DEF FindBroken, AuthArrives, AckArrives, RehomeArrives, Suspend
<1>6. ASSUME NEW s \in C!Sockets, Break(s)
      PROVE  UNCHANGED runtime
  BY <1>6 DEF Break
<1>7. CASE TimerStep
  BY <1>7 DEF TimerStep, N!Next
<1>8. CASE CloseFlags \/ CloseSocket
  BY <1>1, <1>8 DEF CloseFlags, CloseSocket, N!Next
<1>9. CASE UNCHANGED vars
  BY <1>1, <1>9 DEF vars
<1> QED
  BY <1>1, <1>3, <1>4, <1>5, <1>6, <1>7, <1>8, <1>9 DEF Next

\* Whatever the client does with it, the transport is the one Connection describes: the
\* session adds no way to open, lose or close a socket.
THEOREM ImplementsConnection == Spec => C!Spec
<1>1. Init => C!Init
  BY DEF Init
<1>2. [Next]_vars => [C!Next]_(C!vars)
  BY LinkStep
<1> QED
  BY <1>1, <1>2, PTL DEF Spec, C!Spec

\* And the negotiation is used as Negotiation allows.
THEOREM ImplementsNegotiation == Spec => N!Spec
<1>1. Init => N!Init
  BY DEF Init
<1>2. [Next]_vars => [N!Next]_(N!vars)
  BY RuntimeStep
<1> QED
  BY <1>1, <1>2, PTL DEF Spec, N!Spec

-----------------------------------------------------------------------------
(***************************************************************************)
(* What was proved of the components holds in the session.  CP and NP are  *)
(* the proved modules; their definitions are those of C and N.             *)
(***************************************************************************)
CP == INSTANCE ConnectionProofs
NP == INSTANCE NegotiationProofs WITH generation <- round

\* The steps of the two negotiations are the same.
LEMMA SameNegotiation ==
  ASSUME [N!Next]_(N!vars)
  PROVE  [NP!Next]_(NP!vars)
BY DEF N!Next, NP!Next, N!Kinds, NP!Kinds, N!Acks, NP!Acks, N!Fallback, NP!Fallback,
       N!Reset, NP!Reset, N!MarkUnsupported, NP!MarkUnsupported, N!BeginOffer,
       NP!BeginOffer, N!FinishOffer, NP!FinishOffer, N!TakeAck, NP!TakeAck,
       N!TimerRunsOut, NP!TimerRunsOut, N!Timeout, NP!Timeout, N!vars, NP!vars

\* So are those of the transport.
LEMMA SameConnection ==
  ASSUME [C!Next]_(C!vars)
  PROVE  [CP!Next]_(CP!vars)
<1> USE DEF C!transport, CP!transport, C!control, CP!control, C!locals, CP!locals,
            C!rehoming, CP!rehoming, C!Threads, CP!Threads, C!Go, CP!Go, C!Move, CP!Move
<1>1. ASSUME NEW t \in C!Threads, C!ThreadStep(t)
      PROVE  CP!ThreadStep(t)
  <2>1. CASE C!Notify(t)
    <3>1. CP!Notify(t)
      BY <2>1 DEF C!Notify, CP!Notify
    <3> QED
      BY <3>1 DEF CP!ThreadStep
  <2>2. CASE C!Claim(t)
    <3>1. CP!Claim(t)
      BY <2>2 DEF C!Claim, CP!Claim
    <3> QED
      BY <3>1 DEF CP!ThreadStep
  <2>3. CASE C!Wait(t)
    <3>1. CP!Wait(t)
      BY <2>3 DEF C!Wait, CP!Wait
    <3> QED
      BY <3>1 DEF CP!ThreadStep
  <2>4. CASE C!DiscoverSucceeds(t)
    <3>1. CP!DiscoverSucceeds(t)
      BY <2>4 DEF C!DiscoverSucceeds, CP!DiscoverSucceeds
    <3> QED
      BY <3>1 DEF CP!ThreadStep
  <2>5. CASE C!DiscoverFails(t)
    <3>1. CP!DiscoverFails(t)
      BY <2>5 DEF C!DiscoverFails, CP!DiscoverFails
    <3> QED
      BY <3>1 DEF CP!ThreadStep
  <2>6. CASE C!CheckPolicy(t)
    <3>1. CP!CheckPolicy(t)
      BY <2>6 DEF C!CheckPolicy, CP!CheckPolicy
    <3> QED
      BY <3>1 DEF CP!ThreadStep
  <2>7. CASE C!ConnectFails(t)
    <3>1. CP!ConnectFails(t)
      BY <2>7 DEF C!ConnectFails, CP!ConnectFails
    <3> QED
      BY <3>1 DEF CP!ThreadStep
  <2>8. CASE C!OpenSocket(t)
    <3>1. CP!OpenSocket(t)
      BY <2>8 DEF C!OpenSocket, CP!OpenSocket
    <3> QED
      BY <3>1 DEF CP!ThreadStep
  <2>9. CASE C!MarkConnected(t)
    <3>1. CP!MarkConnected(t)
      BY <2>9 DEF C!MarkConnected, CP!MarkConnected
    <3> QED
      BY <3>1 DEF CP!ThreadStep
  <2>10. CASE C!StartReceiving(t)
    <3>1. CP!StartReceiving(t)
      BY <2>10 DEF C!StartReceiving, CP!StartReceiving
    <3> QED
      BY <3>1 DEF CP!ThreadStep
  <2>11. CASE C!AuthSucceeds(t)
    <3>1. CP!AuthSucceeds(t)
      BY <2>11 DEF C!AuthSucceeds, CP!AuthSucceeds
    <3> QED
      BY <3>1 DEF CP!ThreadStep
  <2>12. CASE C!FinishRestore(t)
    <3>1. CP!FinishRestore(t)
      BY <2>12 DEF C!FinishRestore, CP!FinishRestore
    <3> QED
      BY <3>1 DEF CP!ThreadStep
  <2>13. CASE C!RestoreFails(t)
    <3>1. CP!RestoreFails(t)
      BY <2>13 DEF C!RestoreFails, CP!RestoreFails
    <3> QED
      BY <3>1 DEF CP!ThreadStep
  <2>14. CASE C!CheckTransport(t)
    <3>1. CP!CheckTransport(t)
      BY <2>14 DEF C!CheckTransport, CP!CheckTransport
    <3> QED
      BY <3>1 DEF CP!ThreadStep
  <2>15. CASE C!Complete(t)
    <3>1. CP!Complete(t)
      BY <2>15 DEF C!Complete, CP!Complete
    <3> QED
      BY <3>1 DEF CP!ThreadStep
  <2>16. CASE C!Release(t)
    <3>1. CP!Release(t)
      BY <2>16 DEF C!Release, CP!Release
    <3> QED
      BY <3>1 DEF CP!ThreadStep
  <2>17. CASE C!NoteRehome(t)
    <3>1. CP!NoteRehome(t)
      BY <2>17 DEF C!NoteRehome, CP!NoteRehome
    <3> QED
      BY <3>1 DEF CP!ThreadStep
  <2>18. CASE C!RefuseReconnect(t)
    <3>1. CP!RefuseReconnect(t)
      BY <2>18 DEF C!RefuseReconnect, CP!RefuseReconnect
    <3> QED
      BY <3>1 DEF CP!ThreadStep
  <2>19. CASE C!AcceptReconnect(t)
    <3>1. CP!AcceptReconnect(t)
      BY <2>19 DEF C!AcceptReconnect, CP!AcceptReconnect
    <3> QED
      BY <3>1 DEF CP!ThreadStep
  <2>20. CASE C!CutTransport(t)
    <3>1. CP!CutTransport(t)
      BY <2>20 DEF C!CutTransport, CP!CutTransport, C!ShouldReconnect,
                   CP!ShouldReconnect, C!Disconnect, CP!Disconnect
    <3> QED
      BY <3>1 DEF CP!ThreadStep
  <2> QED
    BY <1>1, <2>1, <2>2, <2>3, <2>4, <2>5, <2>6, <2>7, <2>8, <2>9, <2>10, <2>11,
       <2>12, <2>13, <2>14, <2>15, <2>16, <2>17, <2>18, <2>19, <2>20
       DEF C!ThreadStep
<1>2. ASSUME NEW t \in C!Threads, C!FindBroken(t) \/ C!RehomeArrives(t) \/ C!Suspend(t)
      PROVE  CP!Next
  BY <1>2 DEF C!FindBroken, CP!FindBroken, C!Disconnect, CP!Disconnect,
              C!ShouldReconnect, CP!ShouldReconnect, C!RehomeArrives, CP!RehomeArrives,
              C!Dispatching, CP!Dispatching, C!Cardinality, CP!Cardinality, C!Suspend,
              CP!Suspend, CP!Next
<1>3. ASSUME NEW s \in C!Sockets, C!Break(s)
      PROVE  CP!Next
  BY <1>3 DEF C!Break, CP!Break, C!Sockets, CP!Sockets, CP!Next
<1>4. ASSUME C!CloseFlags \/ C!CloseSocket
      PROVE  CP!Next
  BY <1>4 DEF C!CloseFlags, CP!CloseFlags, C!CloseSocket, CP!CloseSocket, CP!Next
<1>5. CASE UNCHANGED C!vars
  BY <1>5 DEF C!vars, CP!vars
<1>6. ASSUME C!Next
      PROVE  CP!Next
  <2>1. ASSUME NEW t \in C!Threads, C!ThreadStep(t)
        PROVE  CP!Next
    BY <1>1, <2>1 DEF CP!Next
  <2> QED
    BY <1>2, <1>3, <1>4, <1>6, <2>1 DEF C!Next
<1> QED
  BY <1>5, <1>6

\* The invariants of the transport, in the session.
LEMMA TransportInvariant == Spec => [](CP!TypeOK /\ CP!TransportInv)
<1>1. Init => CP!Init
  BY DEF Init, C!Init, CP!Init, C!Threads, CP!Threads
<1>2. [Next]_vars => [CP!Next]_(CP!vars)
  BY LinkStep, SameConnection
<1>3. CP!Spec => []CP!TypeOK
  BY CP!TypeCorrect, BoundAssumption
<1>4. CP!Spec => []CP!TransportInv
  BY CP!TransportCorrect, BoundAssumption
<1> QED
  BY <1>1, <1>2, <1>3, <1>4, PTL DEF Spec, CP!Spec

\* The invariant of the negotiation, in the session.
LEMMA NegotiationInvariant == Spec => []NP!Safe
<1>1. Init => NP!Init
  BY DEF Init, N!Init, NP!Init, N!Kinds, NP!Kinds
<1>2. [Next]_vars => [NP!Next]_(NP!vars)
  BY RuntimeStep, SameNegotiation
<1>3. NP!Spec => []NP!Safe
  BY NP!AlwaysSafe
<1> QED
  BY <1>1, <1>2, <1>3, PTL DEF Spec, NP!Spec

\* A negotiation that waits has an end ahead, and its timer is its own.
THEOREM OffersAreTimed == Spec => []OfferIsTimed
<1>1. NP!Safe => OfferIsTimed
  BY DEF NP!Safe, NP!WaitHasEnd, NP!TimerIsOwn, OfferIsTimed, N!WaitHasEnd,
         N!TimerIsOwn
<1> QED
  BY <1>1, NegotiationInvariant, PTL

\* One reconnect loop, no loss forgotten, no stray socket and a quiet end: whatever the
\* client's callbacks, handlers and restores do.
THEOREM TransportHolds ==
  Spec => [](C!OneLoop /\ C!LossIsOwned /\ C!NoStraySocket /\ C!ClosedIsQuiet)
<1>1. Spec => [](CP!OneLoop /\ CP!LossIsOwned /\ CP!NoStraySocket /\ CP!ClosedIsQuiet)
  <2>1. CP!Spec => [](CP!OneLoop /\ CP!LossIsOwned)
    BY CP!LoopIsUnique, CP!LossIsNotForgotten, BoundAssumption, PTL
  <2>2. CP!Spec => [](CP!NoStraySocket /\ CP!ClosedIsQuiet)
    BY CP!SocketsAreClosed, CP!CloseIsQuiet, BoundAssumption, PTL
  <2>3. Init => CP!Init
    BY DEF Init, C!Init, CP!Init, C!Threads, CP!Threads
  <2>4. [Next]_vars => [CP!Next]_(CP!vars)
    BY LinkStep, SameConnection
  <2> QED
    BY <2>1, <2>2, <2>3, <2>4, PTL DEF Spec, CP!Spec
<1>2. (CP!OneLoop /\ CP!LossIsOwned /\ CP!NoStraySocket /\ CP!ClosedIsQuiet)
        => (C!OneLoop /\ C!LossIsOwned /\ C!NoStraySocket /\ C!ClosedIsQuiet)
  BY DEF C!OneLoop, CP!OneLoop, C!LossIsOwned, CP!LossIsOwned, C!NoStraySocket,
         CP!NoStraySocket, C!ClosedIsQuiet, CP!ClosedIsQuiet, C!InLoop, CP!InLoop,
         C!LoopPoints, CP!LoopPoints, C!OwesReconnect, CP!OwesReconnect, C!Threads,
         CP!Threads
<1> QED
  BY <1>1, <1>2, PTL

-----------------------------------------------------------------------------
(***************************************************************************)
(* What the client may believe of its transport.                           *)
(*                                                                         *)
(* A handler that still acts is one of the transport there is, for the     *)
(* loop does not leave its delay while one is at work (HandlersAreHere);   *)
(* so the authentication a restore waits for, and the agreement an ACK     *)
(* settles, are those of the current socket.                               *)
(***************************************************************************)
Looking  == {"discover", "check", "connect"}
Welcomed == {"authenticated", "restored", "completing"}

\* Sockets are numbered as they are opened: a new one was never authenticated.
NumbersPast ==
  /\ sock <= generation
  /\ \A s \in asked : s # 0 /\ s <= generation

\* A handler that is about to act on a message.
Acting(u) == doing[u] \in {"auth", "ack"}

HandlersAreHere ==
  \A u \in Threads :
    /\ Acting(u) => /\ at[u] = "idle"
                    /\ sock \in {0, u}
                    /\ \A t \in Threads : at[t] \notin Looking
    /\ doing[u] = "auth" => u \in welcome
    /\ doing[u] = "ack" => u \in acked

\* The authentication a restore waits for is that of its own socket.
AnswerIsOwn ==
  /\ asking => \E t \in Threads : at[t] = "restoring"
  /\ asking /\ authorized /\ sock # 0 => sock \in welcome
  /\ \A t \in Threads : at[t] = "restoring" => mine[t] # 0

ClientTypes ==
  /\ doing \in [Threads -> Handling \cup {"none"}]
  /\ authorized \in BOOLEAN
  /\ answered \in BOOLEAN
  /\ asking \in BOOLEAN
  /\ welcome \subseteq asked
  /\ asked \cup offered \cup acked \subseteq Threads
  /\ source \in Threads

Belief ==
  /\ ClientTypes
  /\ NumbersPast
  /\ HandlersAreHere
  /\ AnswerIsOwn
  /\ RestoredIsWelcome
  /\ EligibleHere

\* What a step of thread t may do to the transport and to where the threads are.
Shape(t) ==
  /\ \A u \in Threads \ {t} : at'[u] = at[u] /\ mine'[u] = mine[u]
  /\ \/ sock' \in {sock, 0} /\ generation' = generation
     \/ at[t] = "connect" /\ sock' = generation + 1 /\ generation' = generation + 1
  /\ at'[t] \in Looking => at[t] \in Looking \cup {"wait"}
  /\ at'[t] \in Welcomed =>
       mine'[t] = mine[t] /\ at[t] \in Welcomed \cup {"restoring"}
  /\ at'[t] = "restoring" =>
       at[t] = "started" /\ mine'[t] = sock /\ sock # 0

\* Every step of a thread of the transport has that shape.
LEMMA ThreadShape ==
  ASSUME C!TypeOK, NEW t \in Threads,
         C!ThreadStep(t) \/ C!FindBroken(t) \/ C!RehomeArrives(t) \/ C!Suspend(t)
  PROVE  Shape(t) \/ UNCHANGED <<at, mine, sock, generation>>
<1> USE DEF C!TypeOK, C!Threads, Threads, C!Sockets, C!transport, C!locals, C!Go, C!Move,
            Shape, Looking, Welcomed
<1>1. CASE C!Notify(t) \/ C!Claim(t) \/ C!Wait(t) \/ C!DiscoverSucceeds(t)
             \/ C!DiscoverFails(t) \/ C!CheckPolicy(t) \/ C!ConnectFails(t)
  BY <1>1 DEF C!Notify, C!Claim, C!Wait, C!DiscoverSucceeds, C!DiscoverFails,
              C!CheckPolicy, C!ConnectFails
<1>2. CASE C!OpenSocket(t) \/ C!MarkConnected(t)
  BY <1>2 DEF C!OpenSocket, C!MarkConnected
<1>3. CASE C!StartReceiving(t)
  BY <1>3 DEF C!StartReceiving
<1>4. CASE C!AuthSucceeds(t) \/ C!FinishRestore(t) \/ C!RestoreFails(t)
             \/ C!CheckTransport(t) \/ C!Complete(t) \/ C!Release(t)
  BY <1>4 DEF C!AuthSucceeds, C!FinishRestore, C!RestoreFails, C!CheckTransport,
              C!Complete, C!Release
<1>5. CASE C!NoteRehome(t) \/ C!RefuseReconnect(t) \/ C!RehomeArrives(t)
             \/ C!Suspend(t)
  BY <1>5 DEF C!NoteRehome, C!RefuseReconnect, C!RehomeArrives, C!Suspend
<1>6. CASE C!AcceptReconnect(t)
  BY <1>6 DEF C!AcceptReconnect
<1>7. CASE C!FindBroken(t) \/ C!CutTransport(t)
  BY <1>7 DEF C!FindBroken, C!CutTransport, C!Disconnect
<1> QED
  BY <1>1, <1>2, <1>3, <1>4, <1>5, <1>6, <1>7 DEF C!ThreadStep

\* The tables of points, read.
LEMMA Points ==
  ASSUME NEW k \in N!Kinds
  PROVE  /\ Send[k] = IF k = "history" THEN "send history" ELSE "send session"
         /\ Sent[k] = IF k = "history" THEN "sent history" ELSE "sent session"
         /\ Failed[k] = IF k = "history" THEN "failed history" ELSE "failed session"
         /\ After[k] = IF k = "history" THEN "send session" ELSE "wake"
         /\ Before[k] = IF k = "history" THEN {"auth"}
                        ELSE {"auth", "send history", "sent history", "failed history"}
<1>1. CASE k = "history"
  BY <1>1 DEF Send, Sent, Failed, After, Before
<1>2. CASE k = "session"
  BY <1>2 DEF Send, Sent, Failed, After, Before
<1> QED
  BY <1>1, <1>2 DEF N!Kinds

\* A step of the transport that no thread takes, or that moves none.
Still == UNCHANGED <<at, mine, generation>> /\ sock' \in {sock, 0}

\* When the client lets its threads move.
Move(t) ==
  /\ Shape(t)
  /\ at[t] = "idle" => ~Acting(t)
  /\ at[t] = "wait" /\ at'[t] \in Looking => \A u \in Threads : ~Short(u)
  /\ at[t] = "restoring" =>
       ~asking' /\ (at'[t] \in Welcomed => asking /\ authorized /\ sock = mine[t])

\* What a step of the transport does to the client: it tells it nothing new.
TellsNothing ==
  /\ UNCHANGED <<kind, server>>
  /\ asking' => asking
  /\ authorized' => authorized
  /\ eligible' => eligible /\ state' = state
  /\ \/ UNCHANGED doing
     \/ sock' = 0 /\ \E t \in Threads, k \in N!Kinds :
          doing[t] = Send[k] /\ doing' = [doing EXCEPT ![t] = Failed[k]]

\* The steps of the transport, as the client sees them.
LinkAction ==
  \/ \E t \in Threads :
       \/ FindBroken(t) \/ Notify(t) \/ LoopRuns(t) \/ Wait(t) \/ AuthSucceeds(t)
       \/ RestoreFails(t) \/ RehomeArrives(t) \/ NoteRehome(t) \/ RefuseReconnect(t)
       \/ AcceptReconnect(t) \/ CutTransport(t) \/ Suspend(t)
       \/ \E k \in N!Kinds : SendBreaks(t, k)
  \/ \E s \in C!Sockets : Break(s)
  \/ CloseFlags
  \/ CloseSocket

\* The client lets a thread move under these conditions only.
LEMMA LinkMoves ==
  ASSUME C!TypeOK, ClientTypes, LinkAction
  PROVE  Still \/ \E t \in Threads : Move(t)
<1>1. ASSUME NEW t \in Threads,
             Shape(t) \/ UNCHANGED <<at, mine, sock, generation>>,
             at[t] = "idle" => ~Acting(t),
             at[t] \notin {"wait", "restoring"}
      PROVE  Still \/ \E u \in Threads : Move(u)
  BY <1>1 DEF Still, Move
<1>2. ASSUME NEW t \in Threads, FindBroken(t) \/ RehomeArrives(t)
      PROVE  Still \/ \E u \in Threads : Move(u)
  <2>1. at[t] = "idle" /\ ~Acting(t)
    BY <1>2 DEF FindBroken, RehomeArrives, C!FindBroken, C!RehomeArrives,
                C!Dispatching, Acting
  <2>2. Shape(t) \/ UNCHANGED <<at, mine, sock, generation>>
    BY <1>2, ThreadShape DEF FindBroken, RehomeArrives
  <2> QED
    BY <1>1, <2>1, <2>2
<1>3. ASSUME NEW t \in Threads, NEW k \in N!Kinds, SendBreaks(t, k)
      PROVE  Still \/ \E u \in Threads : Move(u)
  <2>1. at[t] = "idle" /\ ~Acting(t)
    BY <1>3, Points DEF SendBreaks, Handler, Acting
  <2>2. Shape(t) \/ UNCHANGED <<at, mine, sock, generation>>
    BY <1>3, ThreadShape DEF SendBreaks
  <2> QED
    BY <1>1, <2>1, <2>2
<1>4. ASSUME NEW t \in Threads,
             \/ Notify(t) \/ LoopRuns(t) \/ NoteRehome(t) \/ RefuseReconnect(t)
             \/ AcceptReconnect(t) \/ CutTransport(t)
      PROVE  Still \/ \E u \in Threads : Move(u)
  <2>1. at[t] \notin {"idle", "wait", "restoring"}
    BY <1>4 DEF Notify, LoopRuns, NoteRehome, RefuseReconnect, AcceptReconnect,
                CutTransport, C!Notify, C!Claim, C!DiscoverSucceeds, C!DiscoverFails,
                C!CheckPolicy, C!ConnectFails, C!OpenSocket, C!MarkConnected,
                C!StartReceiving, C!FinishRestore, C!CheckTransport, C!Complete,
                C!Release, C!NoteRehome, C!RefuseReconnect, C!AcceptReconnect,
                C!CutTransport, C!Move
  <2>2. Shape(t) \/ UNCHANGED <<at, mine, sock, generation>>
    <3>1. C!ThreadStep(t)
      BY <1>4 DEF Notify, LoopRuns, NoteRehome, RefuseReconnect, AcceptReconnect,
                  CutTransport, C!ThreadStep
    <3> QED
      BY <3>1, ThreadShape
  <2> QED
    BY <1>1, <2>1, <2>2
<1>5. ASSUME NEW t \in Threads, Wait(t)
      PROVE  Still \/ \E u \in Threads : Move(u)
  <2>1. at[t] = "wait" /\ \A u \in Threads : ~Short(u)
    BY <1>5 DEF Wait, C!Wait
  <2>2. Shape(t) \/ UNCHANGED <<at, mine, sock, generation>>
    BY <1>5, ThreadShape DEF Wait, C!ThreadStep
  <2> QED
    BY <2>1, <2>2 DEF Still, Move
<1>6. ASSUME NEW t \in Threads, AuthSucceeds(t)
      PROVE  Still \/ \E u \in Threads : Move(u)
  <2>1. at[t] = "restoring" /\ asking /\ authorized /\ sock = mine[t] /\ ~asking'
    BY <1>6 DEF AuthSucceeds, C!AuthSucceeds, C!Move
  <2>2. Shape(t) \/ UNCHANGED <<at, mine, sock, generation>>
    BY <1>6, ThreadShape DEF AuthSucceeds, C!ThreadStep
  <2> QED
    BY <2>1, <2>2 DEF Still, Move
<1>7. ASSUME NEW t \in Threads, RestoreFails(t)
      PROVE  Still \/ \E u \in Threads : Move(u)
  <2>1. at[t] \in {"restoring", "authenticated"} /\ at'[t] = "wait" /\ ~asking'
    BY <1>7 DEF RestoreFails, C!RestoreFails, C!Go, C!TypeOK, Threads, C!Threads
  <2>2. Shape(t) \/ UNCHANGED <<at, mine, sock, generation>>
    BY <1>7, ThreadShape DEF RestoreFails, C!ThreadStep
  <2> QED
    BY <2>1, <2>2 DEF Still, Move, Welcomed
<1>8. ASSUME NEW t \in Threads, Suspend(t)
      PROVE  Still
  BY <1>8 DEF Suspend, C!Suspend, C!transport, C!locals, Still
<1>9. ASSUME NEW u \in C!Sockets, Break(u)
      PROVE  Still
  BY <1>9 DEF Break, C!Break, C!transport, C!locals, Still
<1>10. CASE CloseFlags \/ CloseSocket
  BY <1>10 DEF CloseFlags, CloseSocket, C!CloseFlags, C!CloseSocket, C!locals, Still
<1> QED
  BY <1>2, <1>3, <1>4, <1>5, <1>6, <1>7, <1>8, <1>9, <1>10 DEF LinkAction

\* Losses, callbacks, the loop and close() never tell the client anything good.
LEMMA LinkTells ==
  ASSUME C!TypeOK, LinkAction
  PROVE  TellsNothing
<1> USE DEF TellsNothing, server
<1>1. ASSUME NEW t \in Threads,
             \/ FindBroken(t) \/ LoopRuns(t) \/ Wait(t) \/ RehomeArrives(t)
             \/ NoteRehome(t) \/ RefuseReconnect(t) \/ AcceptReconnect(t)
             \/ CutTransport(t)
      PROVE  TellsNothing
  BY <1>1 DEF FindBroken, LoopRuns, Wait, RehomeArrives, NoteRehome, RefuseReconnect,
              AcceptReconnect, CutTransport, runtime, client
<1>2. ASSUME NEW t \in Threads, AuthSucceeds(t) \/ RestoreFails(t) \/ Suspend(t)
      PROVE  TellsNothing
  BY <1>2 DEF AuthSucceeds, RestoreFails, Suspend, runtime
<1>3. ASSUME NEW t \in Threads, Notify(t)
      PROVE  TellsNothing
  BY <1>3 DEF Notify, N!Reset, runtime
<1>4. ASSUME NEW t \in Threads, NEW k \in N!Kinds, SendBreaks(t, k)
      PROVE  TellsNothing
  BY <1>4 DEF SendBreaks, Handler, Do, C!FindBroken, C!Disconnect, runtime
<1>5. ASSUME NEW u \in C!Sockets, Break(u)
      PROVE  TellsNothing
  BY <1>5 DEF Break, runtime, client
<1>6. CASE CloseFlags \/ CloseSocket
  BY <1>6 DEF CloseFlags, CloseSocket, N!Reset, runtime, client
<1> QED
  BY <1>1, <1>2, <1>3, <1>4, <1>5, <1>6 DEF LinkAction

\* Every step of the session is a step of the transport, one of a handler or timer, or
\* the AUTH of a restore.
HandlerAction ==
  \/ \E t \in Threads :
       \/ SendAuth(t) \/ AuthArrives(t) \/ HandleAuth(t) \/ PrepareSession(t)
       \/ SkipSession(t) \/ Wake(t) \/ AckArrives(t)
       \/ \E k \in N!Kinds : SendOffer(t, k) \/ SendFails(t, k)
       \/ \E k \in N!Kinds, sent \in BOOLEAN : FinishOffer(t, k, sent)
       \/ \E ack \in N!Acks : HandleAck(t, ack)
  \/ TimerStep

\* There are no other steps.
LEMMA Actions ==
  ASSUME Next
  PROVE  LinkAction \/ HandlerAction
BY DEF Next, HandlerStep, LoopStep, LinkAction, HandlerAction

\* The variables of the client keep their types.
LEMMA ClientTypesKept ==
  ASSUME C!TypeOK, ClientTypes, [Next]_vars
  PROVE  ClientTypes'
<1> USE DEF ClientTypes, Handling, server, client
<1>1. ASSUME NEW t \in Threads,
             \/ FindBroken(t) \/ LoopRuns(t) \/ Wait(t) \/ RehomeArrives(t)
             \/ RefuseReconnect(t) \/ AcceptReconnect(t) \/ CutTransport(t)
      PROVE  ClientTypes'
  BY <1>1 DEF FindBroken, LoopRuns, Wait, RehomeArrives, RefuseReconnect,
              AcceptReconnect, CutTransport
<1>2. ASSUME NEW t \in Threads,
             \/ NoteRehome(t) \/ Notify(t) \/ AuthSucceeds(t) \/ RestoreFails(t)
             \/ Suspend(t)
      PROVE  ClientTypes'
  BY <1>2 DEF NoteRehome, Notify, AuthSucceeds, RestoreFails, Suspend
<1>3. ASSUME NEW t \in Threads, NEW k \in N!Kinds,
             SendBreaks(t, k) \/ SendOffer(t, k) \/ SendFails(t, k)
      PROVE  ClientTypes'
  <2>1. Do(t, Sent[k]) \/ Do(t, Failed[k])
    BY <1>3 DEF SendBreaks, SendOffer, SendFails, Handler
  <2>2. Sent[k] \in Handling /\ Failed[k] \in Handling
    BY Points
  <2>3. doing' \in [Threads -> Handling \cup {"none"}]
    BY <2>1, <2>2 DEF Do
  <2> QED
    BY <1>3, <2>3 DEF SendBreaks, SendOffer, SendFails
<1>4. ASSUME NEW t \in Threads, NEW k \in N!Kinds, NEW sent \in BOOLEAN,
             FinishOffer(t, k, sent)
      PROVE  ClientTypes'
  <2>1. doing' \in [Threads -> Handling \cup {"none"}]
    BY <1>4, Points DEF FinishOffer, Handler, Do
  <2> QED
    BY <1>4, <2>1 DEF FinishOffer
<1>5. ASSUME NEW t \in Threads, HandleAuth(t) \/ PrepareSession(t)
      PROVE  ClientTypes'
  <2>1. doing' \in [Threads -> Handling \cup {"none"}]
    <3>1. ASSUME NEW k \in N!Kinds, Prepare(t, k)
          PROVE  doing' \in [Threads -> Handling \cup {"none"}]
      BY <3>1, Points DEF Prepare, Do
    <3>2. "history" \in N!Kinds /\ "session" \in N!Kinds
      BY DEF N!Kinds
    <3>3. CASE Do(t, "send history")
      BY <3>3 DEF Do
    <3> QED
      BY <1>5, <3>1, <3>2, <3>3 DEF HandleAuth, PrepareSession
  <2> QED
    BY <1>5, <2>1 DEF HandleAuth, PrepareSession
<1>6. ASSUME NEW t \in Threads, SendAuth(t)
      PROVE  ClientTypes'
  BY <1>6 DEF SendAuth, C!TypeOK, C!Threads, Threads
<1>7. ASSUME NEW t \in Threads,
             AuthArrives(t) \/ SkipSession(t) \/ Wake(t) \/ AckArrives(t)
      PROVE  ClientTypes'
  BY <1>7 DEF AuthArrives, SkipSession, Wake, AckArrives, Handler, Do
<1>8. ASSUME NEW t \in Threads, NEW ack, HandleAck(t, ack)
      PROVE  ClientTypes'
  BY <1>8 DEF HandleAck, Handler, Do
<1>9. ASSUME NEW s, Break(s)
      PROVE  ClientTypes'
  BY <1>9 DEF Break
<1>10. CASE TimerStep \/ CloseFlags \/ CloseSocket
  BY <1>10 DEF TimerStep, CloseFlags, CloseSocket
<1>11. CASE UNCHANGED vars
  BY <1>11 DEF vars
<1> QED
  BY <1>1, <1>2, <1>3, <1>4, <1>5, <1>6, <1>7, <1>8, <1>9, <1>10, <1>11, Actions
     DEF LinkAction, HandlerAction

\* The steps of the transport keep what the client believes true.
LEMMA LinkKeepsBelief ==
  ASSUME C!TypeOK, C!OneLoop, Belief, ClientTypes', LinkAction
  PROVE  Belief'
<1> USE DEF Belief
<1>1. TellsNothing
  BY LinkTells
<1>2. \/ UNCHANGED <<at, mine, generation>> /\ sock' \in {sock, 0}
      \/ \E t \in Threads : Move(t)
  BY LinkMoves DEF Still
<1>3. \A u \in Threads : Acting(u)' => doing[u] = doing'[u]
  BY <1>1, Points DEF TellsNothing, Acting, ClientTypes
<1>4. /\ sock \in Nat /\ generation \in Nat
      /\ at \in [Threads -> C!Points] /\ mine \in [Threads -> Threads]
  BY DEF C!TypeOK, C!Threads, Threads, C!Sockets
<1>5. sock' # 0 /\ sock' # sock => \E t \in Threads : Move(t) /\ at[t] = "connect"
                                      /\ sock' = generation + 1
  BY <1>2 DEF Move, Shape
<1>6. NumbersPast'
  <2>1. asked' = asked /\ \A s \in asked : s \in Nat
    BY <1>1, BoundAssumption DEF TellsNothing, server, ClientTypes, Threads
  <2>2. generation' \in {generation, generation + 1} /\ sock' \in {sock, 0, generation'}
    BY <1>2, <1>4 DEF Move, Shape
  <2>3. sock' <= generation'
    <3>1. CASE sock' \in {0, generation'}
      BY <1>4, <2>2, <3>1
    <3>2. CASE sock' = sock
      BY <1>4, <2>2, <3>2 DEF NumbersPast
    <3> QED
      BY <2>2, <3>1, <3>2
  <2>4. \A s \in asked : s # 0 /\ s <= generation'
    BY <1>4, <2>1, <2>2 DEF NumbersPast
  <2> QED
    BY <2>1, <2>3, <2>4 DEF NumbersPast
<1>7. HandlersAreHere'
  <2>1. ASSUME NEW u \in Threads, Acting(u)'
        PROVE  /\ at'[u] = "idle"
               /\ sock' \in {0, u}
               /\ \A t \in Threads : at'[t] \notin Looking
    <3>1. /\ Acting(u) /\ at[u] = "idle" /\ sock \in {0, u}
          /\ \A t \in Threads : at[t] \notin Looking
      BY <1>3, <2>1 DEF HandlersAreHere, Acting
    <3>2. Short(u)
      BY <3>1 DEF Short, Acting
    <3>3. sock' \in {0, u}
      BY <1>5, <3>1 DEF Looking
    <3>4. CASE UNCHANGED at
      BY <3>1, <3>3, <3>4
    <3>5. ASSUME NEW t \in Threads, Move(t)
          PROVE  at'[u] = "idle" /\ \A v \in Threads : at'[v] \notin Looking
      <4>1. u # t
        BY <3>1, <3>5 DEF Move
      <4>2. at'[t] \notin Looking
        BY <3>1, <3>2, <3>5 DEF Move, Shape
      <4> QED
        BY <3>1, <3>5, <4>1, <4>2 DEF Move, Shape
    <3> QED
      BY <1>2, <3>3, <3>4, <3>5
  <2> QED
    BY <1>1, <1>3, <2>1 DEF HandlersAreHere, Acting, TellsNothing, server
<1>8. AnswerIsOwn'
  <2>1. ASSUME asking'
        PROVE  /\ \E t \in Threads : at'[t] = "restoring"
               /\ sock' \in {0, sock}
    <3>1. PICK v \in Threads : at[v] = "restoring"
      BY <1>1, <2>1 DEF TellsNothing, AnswerIsOwn
    <3>2. CASE UNCHANGED at /\ sock' \in {sock, 0}
      BY <3>1, <3>2
    <3>3. ASSUME NEW t \in Threads, Move(t)
          PROVE  at'[v] = "restoring" /\ sock' \in {0, sock}
      <4>1. t # v
        BY <2>1, <3>1, <3>3 DEF Move
      <4>2. at[t] # "connect"
        BY <3>1, <4>1 DEF C!OneLoop, C!InLoop, C!LoopPoints, C!Threads, Threads
      <4> QED
        BY <3>1, <3>3, <4>1, <4>2 DEF Move, Shape
    <3> QED
      BY <1>2, <3>1, <3>2, <3>3
  <2>2. \A t \in Threads : at'[t] = "restoring" => mine'[t] # 0
    BY <1>2 DEF Move, Shape, AnswerIsOwn
  <2> QED
    BY <1>1, <2>1, <2>2 DEF AnswerIsOwn, TellsNothing, server
<1>9. RestoredIsWelcome'
  <2>1. CASE UNCHANGED <<at, mine>>
    BY <1>1, <2>1 DEF RestoredIsWelcome, TellsNothing, server
  <2>2. ASSUME NEW t \in Threads, Move(t), NEW u \in Threads, at'[u] \in Welcomed
        PROVE  mine'[u] \in welcome
    <3>1. CASE u # t
      BY <2>2, <3>1 DEF Move, Shape, RestoredIsWelcome, Welcomed
    <3>2. CASE u = t /\ at[t] \in Welcomed
      BY <2>2, <3>2 DEF Move, Shape, RestoredIsWelcome, Welcomed
    <3>3. CASE u = t /\ at[t] = "restoring"
      BY <2>2, <3>3 DEF Move, Shape, AnswerIsOwn
    <3> QED
      BY <2>2, <3>1, <3>2, <3>3 DEF Move, Shape
  <2> QED
    BY <1>1, <1>2, <2>1, <2>2 DEF RestoredIsWelcome, TellsNothing, server, Welcomed
<1>10. EligibleHere'
  <2> SUFFICES ASSUME eligible', state' = "negotiated", sock' \in welcome',
                      doing'[sock'] \notin Before[kind']
               PROVE  sock' \in acked'
    BY DEF EligibleHere
  <2>1. sock' \in welcome /\ UNCHANGED <<kind, acked>>
    BY <1>1 DEF TellsNothing, server
  <2>2. sock' # 0 /\ sock' <= generation
    BY <2>1 DEF NumbersPast, ClientTypes
  <2>3. sock' = sock
    BY <1>4, <1>5, <2>2
  <2>4. UNCHANGED doing /\ eligible /\ state = "negotiated"
    BY <1>1, <2>2 DEF TellsNothing
  <2> QED
    BY <2>1, <2>3, <2>4 DEF EligibleHere
<1> QED
  BY <1>6, <1>7, <1>8, <1>9, <1>10

\* A thread goes on in its handler: the transport is left alone, the thread does not
\* begin to act, and the negotiation is told nothing good, or by an ACK of its own.
GoesOn(t, point) ==
  /\ UNCHANGED link /\ UNCHANGED <<kind, asking, asked, welcome, acked>>
  /\ Do(t, point)
  /\ point \notin {"auth", "ack"}
  /\ authorized' => authorized \/ (t \in welcome /\ doing[t] = "auth")
  /\ \/ /\ eligible' => eligible /\ state' = state
        /\ doing[t] \in Before[kind] => point \in Before[kind]
     \/ state' # "negotiated"
     \/ sock \in {0, t} /\ t \in acked

\* Such a step keeps what is believed.
LEMMA GoingOn ==
  ASSUME Belief, ClientTypes', NEW t \in Threads, NEW point, GoesOn(t, point)
  PROVE  Belief'
<1> USE DEF Belief, link, GoesOn, Do
<1>1. doing \in [Threads -> Handling \cup {"none"}]
  BY DEF ClientTypes
<1>2. NumbersPast'
  BY DEF NumbersPast
<1>3. HandlersAreHere'
  <2>1. \A u \in Threads : doing'[u] \in {"auth", "ack"} => doing'[u] = doing[u]
    BY <1>1
  <2> QED
    BY <2>1 DEF HandlersAreHere, Acting
<1>4. AnswerIsOwn'
  <2>1. authorized' /\ sock # 0 => authorized \/ sock \in welcome
    BY DEF HandlersAreHere, Acting
  <2> QED
    BY <2>1 DEF AnswerIsOwn
<1>5. RestoredIsWelcome'
  BY DEF RestoredIsWelcome
<1>6. EligibleHere'
  <2>1. sock \in welcome => sock \in Threads \ {0}
    BY DEF NumbersPast, ClientTypes
  <2>2. doing'[sock] \notin Before[kind] =>
          sock \notin Threads \/ sock = t \/ doing[sock] \notin Before[kind]
    BY <1>1
  <2> QED
    BY <1>1, <2>1, <2>2 DEF EligibleHere
<1> QED
  BY <1>2, <1>3, <1>4, <1>5, <1>6

\* So do the handlers, the timer, and the AUTH of a restore.
LEMMA HandlersKeepBelief ==
  ASSUME C!TypeOK, N!TypeOK, C!OwnerKnowsTransport, Belief, ClientTypes', HandlerAction
  PROVE  Belief'
<1> USE DEF Belief
<1>1. kind \in N!Kinds /\ "history" \in N!Kinds /\ "session" \in N!Kinds
  BY DEF N!TypeOK, N!Kinds
<1>2. ASSUME NEW t \in Threads, NEW k \in N!Kinds, SendOffer(t, k) \/ SendFails(t, k)
      PROVE  Belief'
  <2>1. PICK point \in {Sent[k], Failed[k]} : Do(t, point)
    BY <1>2 DEF SendOffer, SendFails, Handler
  <2>2. /\ UNCHANGED <<link, runtime, authorized, asking, asked, welcome, acked>>
        /\ doing[t] = Send[k]
    BY <1>2 DEF SendOffer, SendFails, Handler, server
  <2>3. /\ point \notin {"auth", "ack"}
        /\ doing[t] \in Before[kind] => point \in Before[kind]
    BY <1>1, <2>2, Points DEF N!Kinds
  <2>4. GoesOn(t, point)
    BY <2>1, <2>2, <2>3 DEF GoesOn, runtime
  <2> QED
    BY <2>4, GoingOn
<1>3. ASSUME NEW t \in Threads, NEW k \in N!Kinds, NEW sent \in BOOLEAN,
             FinishOffer(t, k, sent)
      PROVE  Belief'
  <2>1. /\ UNCHANGED <<link, authorized, asking, asked, welcome, acked>>
        /\ Do(t, After[k]) /\ doing[t] \in {Sent[k], Failed[k]} /\ kind = k
    BY <1>3 DEF FinishOffer, Handler, server
  <2>2. kind' = kind /\ \/ eligible' = eligible /\ state' = state
                        \/ eligible' = FALSE
    BY <1>3 DEF FinishOffer, N!FinishOffer, N!Fallback
  <2>3. After[k] \notin {"auth", "ack"} /\ doing[t] \notin Before[kind]
    BY <2>1, Points DEF N!Kinds
  <2>4. GoesOn(t, After[k])
    BY <2>1, <2>2, <2>3 DEF GoesOn
  <2> QED
    BY <2>4, GoingOn
<1>4. ASSUME NEW t \in Threads, HandleAuth(t) \/ PrepareSession(t)
      PROVE  Belief'
  <2>1. /\ UNCHANGED <<link, asking, asked, welcome, acked>>
        /\ authorized' => authorized \/ (t \in welcome /\ doing[t] = "auth")
    <3>1. UNCHANGED link /\ UNCHANGED <<asking, asked, welcome, acked>>
      BY <1>4 DEF HandleAuth, PrepareSession, server
    <3>2. CASE HandleAuth(t)
      BY <3>1, <3>2 DEF HandleAuth, HandlersAreHere
    <3>3. CASE PrepareSession(t)
      <4>1. authorized' = authorized
        BY <3>3 DEF PrepareSession
      <4> QED
        BY <3>1, <4>1
    <3> QED
      BY <1>4, <3>1, <3>2, <3>3
  <2>2. CASE Prepare(t, kind)
    <3>1. state' # "negotiated" /\ kind' = kind
      BY <2>2 DEF Prepare, N!BeginOffer, N!MarkUnsupported, N!Fallback, N!Reset
    <3>2. PICK point \in {Send[kind], After[kind]} : Do(t, point)
      BY <2>2 DEF Prepare
    <3>3. point \notin {"auth", "ack"}
      BY <1>1, Points
    <3>4. GoesOn(t, point)
      BY <2>1, <3>1, <3>2, <3>3 DEF GoesOn
    <3> QED
      BY <3>4, GoingOn
  <2>3. CASE kind = "session" /\ Do(t, "send history") /\ UNCHANGED runtime
    <3>1. "send history" \in Before[kind]
      BY <2>3 DEF Before
    <3>2. GoesOn(t, "send history")
      BY <2>1, <2>3, <3>1 DEF GoesOn, runtime
    <3> QED
      BY <3>2, GoingOn
  <2> QED
    BY <1>1, <1>4, <2>2, <2>3 DEF HandleAuth, PrepareSession, N!Kinds
<1>5. ASSUME NEW t \in Threads, SkipSession(t)
      PROVE  Belief'
  <2>1. /\ UNCHANGED <<link, runtime, authorized, asking, asked, welcome, acked>>
        /\ Do(t, "wake") /\ doing[t] \notin Before[kind]
    BY <1>5 DEF SkipSession, server, Before
  <2>2. GoesOn(t, "wake")
    BY <2>1 DEF GoesOn, runtime
  <2> QED
    BY <2>2, GoingOn
<1>6. ASSUME NEW t \in Threads, Wake(t)
      PROVE  Belief'
  <2>1. /\ UNCHANGED <<link, runtime, authorized, asking, asked, welcome, acked>>
        /\ Do(t, "none") /\ doing[t] = "wake"
    BY <1>6 DEF Wake, Handler, server
  <2>2. doing[t] \notin Before[kind]
    BY <1>1, <2>1, Points DEF N!Kinds
  <2>3. GoesOn(t, "none")
    BY <2>1, <2>2 DEF GoesOn, runtime
  <2> QED
    BY <2>3, GoingOn
<1>7. ASSUME NEW t \in Threads, NEW ack \in N!Acks, HandleAck(t, ack)
      PROVE  Belief'
  <2>1. /\ UNCHANGED <<link, kind, authorized, asking, asked, welcome, acked>>
        /\ Do(t, "none") /\ doing[t] = "ack"
    BY <1>7 DEF HandleAck, Handler, server, N!TakeAck
  <2>2. sock \in {0, t} /\ t \in acked
    BY <2>1 DEF HandlersAreHere, Acting
  <2>3. GoesOn(t, "none")
    BY <2>1, <2>2 DEF GoesOn
  <2> QED
    BY <2>3, GoingOn
<1>8. ASSUME NEW t \in Threads, SendAuth(t)
      PROVE  Belief'
  <2>1. /\ UNCHANGED <<sock, generation, at, mine, kind, eligible, state, doing,
                       welcome, acked>>
        /\ asked' = asked \cup {sock} /\ sock # 0
        /\ at[t] = "restoring" /\ ~authorized'
    BY <1>8 DEF SendAuth, link, runtime
  <2>2. NumbersPast' /\ AnswerIsOwn'
    BY <2>1 DEF NumbersPast, AnswerIsOwn
  <2>3. HandlersAreHere' /\ RestoredIsWelcome' /\ EligibleHere'
    BY <2>1 DEF HandlersAreHere, Acting, RestoredIsWelcome, EligibleHere
  <2> QED
    BY <2>2, <2>3
<1>9. ASSUME NEW t \in Threads, AuthArrives(t) \/ AckArrives(t)
      PROVE  Belief'
  <2>1. /\ UNCHANGED <<sock, generation, at, mine, kind, eligible, state, asking,
                       authorized, asked>>
        /\ t = sock /\ t # 0 /\ at[t] = "idle"
    BY <1>9 DEF AuthArrives, AckArrives, C!Dispatching, Handler, link, runtime
  <2>2. \/ Do(t, "auth") /\ welcome' = welcome \cup {t} /\ acked' = acked
        \/ Do(t, "ack") /\ welcome' = welcome /\ acked' = acked \cup {t}
    BY <1>9 DEF AuthArrives, AckArrives, Handler
  <2>3. \A u \in Threads : at[u] \notin Looking
    BY <2>1 DEF C!OwnerKnowsTransport, Looking, C!Threads, Threads
  <2>4. /\ doing'[t] \in {"auth", "ack"}
        /\ doing'[t] = "auth" => t \in welcome'
        /\ doing'[t] = "ack" => t \in acked'
        /\ \A u \in Threads \ {t} : doing'[u] = doing[u]
        /\ welcome \subseteq welcome' /\ acked \subseteq acked'
    BY <2>2 DEF Do, ClientTypes
  <2>5. HandlersAreHere'
    BY <2>1, <2>3, <2>4 DEF HandlersAreHere, Acting
  <2>6. NumbersPast' /\ AnswerIsOwn' /\ RestoredIsWelcome'
    BY <2>1, <2>4 DEF NumbersPast, AnswerIsOwn, RestoredIsWelcome
  <2>7. "auth" \in Before[kind]
    BY <1>1, Points DEF N!Kinds
  <2>8. doing'[t] = "auth" \/ t \in acked'
    BY <2>4
  <2>9. EligibleHere'
    BY <2>1, <2>7, <2>8 DEF EligibleHere
  <2> QED
    BY <2>5, <2>6, <2>9
<1>10. CASE TimerStep
  <2>1. /\ UNCHANGED <<link, doing, authorized, asking, kind, server>>
        /\ eligible' => eligible /\ state' = state
    BY <1>10 DEF TimerStep, client, N!TimerRunsOut, N!Timeout, N!Fallback
  <2> QED
    BY <2>1 DEF link, server, NumbersPast, HandlersAreHere, Acting, AnswerIsOwn,
                RestoredIsWelcome, EligibleHere
<1> QED
  BY <1>2, <1>3, <1>4, <1>5, <1>6, <1>7, <1>8, <1>9, <1>10 DEF HandlerAction

\* What was proved of the transport, in the terms of the session.
LEMMA TransportTerms ==
  ASSUME CP!TypeOK, CP!TransportInv
  PROVE  C!TypeOK /\ C!OneLoop /\ C!OwnerKnowsTransport
<1>1. C!TypeOK
  BY DEF CP!TypeOK, C!TypeOK, CP!Threads, C!Threads, CP!Sockets, C!Sockets, CP!Points,
         C!Points, CP!LoopPoints, C!LoopPoints, CP!Rehomes, C!Rehomes
<1>2. C!OneLoop
  BY DEF CP!TransportInv, CP!OneLoop, C!OneLoop, CP!InLoop, C!InLoop, CP!LoopPoints,
         C!LoopPoints, CP!Threads, C!Threads
<1>3. C!OwnerKnowsTransport
  BY DEF CP!TransportInv, CP!OwnerKnowsTransport, C!OwnerKnowsTransport, CP!Pending,
         C!Pending, CP!Threads, C!Threads
<1> QED
  BY <1>1, <1>2, <1>3

\* After connect() nothing was answered yet.
LEMMA BeliefBegins ==
  ASSUME Init
  PROVE  Belief
<1> USE DEF Init
<1>1. ClientTypes
  <2>1. 0 \in Threads /\ 1 \in Threads
    BY BoundAssumption DEF Threads
  <2>2. asked \cup offered \cup acked = {1}
    OBVIOUS
  <2>3. doing \in [Threads -> Handling \cup {"none"}]
    OBVIOUS
  <2> QED
    BY <2>1, <2>2, <2>3 DEF ClientTypes
<1>2. sock = 1 /\ generation = 1 /\ at = [t \in Threads |-> "idle"]
  BY DEF C!Init, C!Threads, Threads
<1>3. NumbersPast
  BY <1>2 DEF NumbersPast
<1>4. HandlersAreHere /\ AnswerIsOwn /\ RestoredIsWelcome
  BY <1>2 DEF HandlersAreHere, Acting, AnswerIsOwn, RestoredIsWelcome
<1>5. EligibleHere
  BY DEF EligibleHere
<1> QED
  BY <1>1, <1>3, <1>4, <1>5 DEF Belief

\* The strengthening, with the invariants of both components under it.
LEMMA BeliefHolds ==
  Spec => [](CP!TypeOK /\ CP!TransportInv /\ NP!Safe /\ Belief)
<1> DEFINE Known == CP!TypeOK /\ CP!TransportInv /\ NP!Safe
<1>1. Spec => []Known
  BY TransportInvariant, NegotiationInvariant, PTL
<1>2. Init => Belief
  BY BeliefBegins
<1>3. Known /\ Belief /\ [Next]_vars => Belief'
  <2> SUFFICES ASSUME Known, Belief, [Next]_vars
               PROVE  Belief'
    OBVIOUS
  <2>1. C!TypeOK /\ C!OneLoop /\ C!OwnerKnowsTransport
    BY TransportTerms
  <2>2. N!TypeOK
    BY DEF NP!Safe, NP!TypeOK, N!TypeOK, NP!Kinds, N!Kinds, NP!States, N!States
  <2>3. ClientTypes'
    BY <2>1, ClientTypesKept DEF Belief
  <2>4. CASE UNCHANGED vars
    BY <2>3, <2>4 DEF vars, link, runtime, client, server, Belief, NumbersPast,
                      HandlersAreHere, Acting, AnswerIsOwn, RestoredIsWelcome,
                      EligibleHere
  <2>5. CASE Next
    BY <2>1, <2>2, <2>3, <2>5, Actions, LinkKeepsBelief, HandlersKeepBelief
  <2> QED
    BY <2>4, <2>5
<1> HIDE DEF Known
<1>4. Spec => [](Known /\ Belief)
  BY <1>1, <1>2, <1>3, PTL DEF Spec
<1> QED
  BY <1>4, PTL DEF Known

\* Every variable of the session keeps its type.
THEOREM TypeCorrect == Spec => []TypeOK
<1>1. CP!TypeOK /\ CP!TransportInv /\ NP!Safe /\ Belief => TypeOK
  <2> SUFFICES ASSUME CP!TypeOK, CP!TransportInv, NP!Safe, Belief
               PROVE  TypeOK
    OBVIOUS
  <2>1. N!TypeOK
    BY DEF NP!Safe, NP!TypeOK, N!TypeOK, NP!Kinds, N!Kinds, NP!States, N!States
  <2> QED
    BY <2>1, TransportTerms DEF Belief, ClientTypes, TypeOK
<1> QED
  BY <1>1, BeliefHolds, PTL

\* Once the handler of AUTH_RESPONSE began the negotiation, what the client may use was
\* acknowledged on the very transport it has, whatever resets, reconnects and handlers
\* of earlier transports came between.
THEOREM AgreedOnThisTransport == Spec => []EligibleHere
<1>1. Belief => EligibleHere
  BY DEF Belief
<1> QED
  BY <1>1, BeliefHolds, PTL

\* No restore passes by the authentication of another transport.
THEOREM RestoresAreAuthenticated == Spec => []RestoredIsWelcome
<1>1. Belief => RestoredIsWelcome
  BY DEF Belief
<1> QED
  BY <1>1, BeliefHolds, PTL

-----------------------------------------------------------------------------
(***************************************************************************)
(* Where a rehome leads.                                                   *)
(*                                                                         *)
(* From the end of its delay until it sends AUTH the loop has a transport  *)
(* that can bring no rehome, so the target it discovered is still wanted;  *)
(* afterwards a rehome can only come on the transport it restores.         *)
(***************************************************************************)
Searching(t) ==
  \/ at[t] \in {"discover", "check", "connect", "opened", "started"}
  \/ at[t] = "restoring" /\ ~asking

Restoring(t) ==
  \/ at[t] \in Welcomed
  \/ at[t] = "restoring" /\ asking

TargetInv ==
  /\ rehome # 0 => required \/ \E u \in Threads : at[u] = "request"
  /\ \A t \in Threads :
       /\ Searching(t) => /\ sock \notin asked
                          /\ \A u \in Threads : at[u] \notin {"rehome", "request"}
       /\ at[t] = "discover" => aim[t] = rehome
       /\ Searching(t) /\ at[t] # "discover" /\ rehome # 0 => endpoint = rehome
       /\ Restoring(t) => /\ \A u \in Threads : at[u] = "rehome" => u = mine[t]
                          /\ rehome # 0 => endpoint = rehome \/ source = mine[t]

\* Where the loop meets nothing that concerns a rehome.
Aside == {"idle", "notify", "claim", "wait", "release"}

\* What is known of the rest of the session.
Basis ==
  /\ C!TypeOK
  /\ C!OneLoop
  /\ C!OwnerKnowsTransport
  /\ NumbersPast
  /\ AnswerIsOwn
  /\ ClientTypes

\* A step that moves no thread, or one thread aside.
LEMMA AsideKeepsTarget ==
  ASSUME Basis, TargetInv,
         UNCHANGED <<rehome, required, endpoint, source, asked>>,
         sock' \in {sock, 0},
         \/ UNCHANGED <<at, mine, aim, asking>>
         \/ \E t \in Threads :
              /\ at[t] \notin {"rehome", "request"}
              /\ at'[t] \in Aside
              /\ \A u \in Threads \ {t} :
                   at'[u] = at[u] /\ mine'[u] = mine[u] /\ aim'[u] = aim[u]
              /\ asking' = asking \/ at[t] \in {"restoring", "authenticated"}
  PROVE  TargetInv'
<1>1. 0 \notin asked
  BY DEF Basis, NumbersPast
<1>2. CASE UNCHANGED <<at, mine, aim, asking>>
  BY <1>1, <1>2 DEF TargetInv, Searching, Restoring
<1>3. ASSUME NEW t \in Threads,
             at[t] \notin {"rehome", "request"},
             at'[t] \in Aside,
             \A u \in Threads \ {t} :
               at'[u] = at[u] /\ mine'[u] = mine[u] /\ aim'[u] = aim[u],
             asking' = asking \/ at[t] \in {"restoring", "authenticated"}
      PROVE  TargetInv'
  <2>1. \A u \in Threads \ {t} : at[u] = "restoring" => asking' = asking
    BY <1>3 DEF Basis, C!OneLoop, C!InLoop, C!LoopPoints, C!Threads, Threads
  <2>2. \A u \in Threads : /\ Searching(u)' => u # t /\ Searching(u)
                           /\ Restoring(u)' => u # t /\ Restoring(u)
    BY <1>3, <2>1 DEF Searching, Restoring, Aside, Welcomed
  <2>3. \A u \in Threads : at'[u] \in {"rehome", "request", "discover"} => u # t
    BY <1>3 DEF Aside
  <2>4. rehome' # 0 => required' \/ \E u \in Threads : at'[u] = "request"
    BY <1>3 DEF TargetInv
  <2> QED
    BY <1>1, <1>3, <2>2, <2>3, <2>4 DEF TargetInv
<1> QED
  BY <1>2, <1>3

\* A step of the loop that goes on, with no other thread inside it.
LEMMA LoopIsAlone ==
  ASSUME Basis, NEW t \in Threads, at[t] \in C!LoopPoints, NEW p, C!Go(t, p)
  PROVE  /\ at'[t] = p
         /\ \A u \in Threads \ {t} : /\ at'[u] = at[u]
                                     /\ at[u] \notin C!LoopPoints
                                     /\ ~Searching(u) /\ ~Restoring(u)
<1>1. \A u \in Threads \ {t} : at[u] \notin C!LoopPoints
  BY DEF Basis, C!OneLoop, C!InLoop, C!Threads, Threads
<1>2. \A u \in Threads \ {t} : ~Searching(u) /\ ~Restoring(u)
  BY <1>1 DEF Searching, Restoring, Welcomed, C!LoopPoints
<1> QED
  BY <1>1, <1>2 DEF Basis, C!TypeOK, C!Go, C!Threads, Threads

\* The loop goes on towards a new transport.
LEMMA SearchStep ==
  ASSUME Basis, TargetInv, NEW t \in Threads, at[t] \in C!LoopPoints, NEW p, C!Go(t, p),
         UNCHANGED <<rehome, required, source, asked, asking>>,
         \A u \in Threads : at[u] \notin {"rehome", "request"},
         sock' \notin asked,
         p \in {"discover", "check", "connect", "opened", "started", "restoring"},
         p = "restoring" => ~asking,
         p = "discover" => aim'[t] = rehome,
         p # "discover" /\ rehome # 0 => endpoint' = rehome
  PROVE  TargetInv'
<1>1. /\ at'[t] = p
      /\ \A u \in Threads \ {t} : at'[u] = at[u] /\ at[u] \notin C!LoopPoints
  BY LoopIsAlone
<1>2. \A u \in Threads \ {t} :
        ~Searching(u)' /\ ~Restoring(u)' /\ at'[u] # "discover"
  BY <1>1 DEF Searching, Restoring, Welcomed, C!LoopPoints
<1>3. ~Restoring(t)'
  BY <1>1 DEF Restoring, Welcomed
<1>4. \A u \in Threads : at'[u] \notin {"rehome", "request"}
  BY <1>1
<1>5. rehome' # 0 => required'
  BY DEF TargetInv
<1> QED
  BY <1>1, <1>2, <1>3, <1>4, <1>5 DEF TargetInv

\* The restore goes on, or comes to its end.
LEMMA RestoreStep ==
  ASSUME Basis, TargetInv, NEW t \in Threads, at[t] \in C!LoopPoints, NEW p, C!Go(t, p),
         UNCHANGED <<rehome, required, source, endpoint>>,
         p \in Welcomed \cup {"restoring"},
         p = "restoring" => asking',
         mine'[t] = mine[t],
         \/ Restoring(t)
         \/ Searching(t) /\ at[t] # "discover"
  PROVE  TargetInv'
<1>1. /\ at'[t] = p
      /\ \A u \in Threads \ {t} : at'[u] = at[u] /\ at[u] \notin C!LoopPoints
  BY LoopIsAlone
<1>2. \A u \in Threads \ {t} :
        ~Searching(u)' /\ ~Restoring(u)' /\ at'[u] # "discover"
  BY <1>1 DEF Searching, Restoring, Welcomed, C!LoopPoints
<1>3. ~Searching(t)' /\ at'[t] # "discover"
  BY <1>1 DEF Searching, Welcomed
<1>4. \A u \in Threads :
        at'[u] \in {"rehome", "request"} <=> at[u] \in {"rehome", "request"}
  BY <1>1 DEF Welcomed, C!LoopPoints
<1>5. \A u \in Threads : /\ at'[u] = "rehome" => u = mine[t]
                         /\ at'[u] = "rehome" <=> at[u] = "rehome"
                         /\ at'[u] = "request" <=> at[u] = "request"
  BY <1>1, <1>4 DEF TargetInv, Welcomed, C!LoopPoints
<1>6. rehome # 0 => endpoint = rehome \/ source = mine[t]
  BY DEF TargetInv
<1>7. rehome' # 0 => required' \/ \E u \in Threads : at'[u] = "request"
  BY <1>5 DEF TargetInv
<1> QED
  BY <1>2, <1>3, <1>5, <1>6, <1>7 DEF TargetInv

\* The steps of the loop.
LEMMA LoopKeepsTarget ==
  ASSUME Basis, TargetInv, NEW t \in Threads,
         \/ LoopRuns(t) \/ Wait(t) \/ SendAuth(t) \/ AuthSucceeds(t) \/ RestoreFails(t)
  PROVE  TargetInv'
<1> USE DEF C!locals, C!transport, C!control, C!rehoming, C!Move
<1>0. Searching(t) => /\ sock \notin asked
                      /\ \A u \in Threads : at[u] \notin {"rehome", "request"}
  BY DEF TargetInv
<1>a. ASSUME NEW p \in Aside, C!Go(t, p),
             at[t] \notin {"rehome", "request"},
             \A u \in Threads \ {t} : mine'[u] = mine[u] /\ aim'[u] = aim[u],
             asking' = asking \/ at[t] \in {"restoring", "authenticated"},
             sock' \in {sock, 0},
             UNCHANGED <<rehome, required, endpoint, source, asked>>
      PROVE  TargetInv'
  <2>1. at'[t] \in Aside /\ \A u \in Threads \ {t} : at'[u] = at[u]
    BY <1>a DEF Basis, C!TypeOK, C!Go, C!Threads, Threads
  <2> QED
    BY <1>a, <2>1, AsideKeepsTarget
<1>b. "idle" \in Aside /\ "wait" \in Aside /\ "release" \in Aside
  BY DEF Aside
<1>c. at[t] # "restoring" /\ at[t] \in C!LoopPoints => ~asking
  BY DEF Basis, AnswerIsOwn, C!OneLoop, C!InLoop, C!LoopPoints, C!Threads, Threads
<1> USE DEF client, server
<1>1. ASSUME Wait(t) PROVE TargetInv'
  <2>1. UNCHANGED <<source, asked, asking, mine, rehome, required, endpoint, sock>>
    BY <1>1 DEF Wait, C!Wait
  <2>2. CASE stop
    <3>1. C!Go(t, "release") /\ aim' = aim /\ at[t] = "wait"
      BY <1>1, <2>2 DEF Wait, C!Wait
    <3> QED
      BY <1>a, <1>b, <2>1, <3>1
  <2>3. CASE ~stop
    <3>1. /\ C!Go(t, "discover") /\ aim' = [aim EXCEPT ![t] = rehome] /\ at[t] = "wait"
          /\ \A u \in Threads : ~Short(u)
      BY <1>1, <2>3 DEF Wait, C!Wait
    <3>2. sock = 0 /\ 0 \notin asked
      BY <2>3, <3>1 DEF Basis, C!OwnerKnowsTransport, NumbersPast, C!Threads, Threads
    <3>3. aim'[t] = rehome
      BY <3>1 DEF Basis, C!TypeOK, C!Threads, Threads
    <3>4. \A u \in Threads : at[u] \notin {"rehome", "request"}
      BY <3>1 DEF Short
    <3>5. at[t] \in C!LoopPoints
      BY <3>1 DEF C!LoopPoints
    <3> QED
      BY <2>1, <3>1, <3>2, <3>3, <3>4, <3>5, SearchStep
  <2> QED
    BY <2>2, <2>3
<1>2. ASSUME LoopRuns(t) PROVE UNCHANGED <<source, asked, asking>>
  BY <1>2 DEF LoopRuns
<1>3. ASSUME LoopRuns(t), C!Claim(t) \/ C!ConnectFails(t) \/ C!Release(t)
      PROVE  TargetInv'
  <2>1. /\ at[t] \in {"claim", "connect", "release"}
        /\ UNCHANGED <<rehome, required, endpoint, sock, mine, aim>>
    BY <1>3 DEF C!Claim, C!ConnectFails, C!Release
  <2>2. PICK p \in Aside : C!Go(t, p)
    BY <1>3 DEF C!Claim, C!ConnectFails, C!Release, Aside
  <2> QED
    BY <1>a, <1>2, <1>3, <2>1, <2>2
<1>4. ASSUME LoopRuns(t), C!DiscoverSucceeds(t) PROVE TargetInv'
  <2>1. /\ at[t] = "discover" /\ C!Go(t, "check") /\ endpoint' = aim[t]
        /\ UNCHANGED <<rehome, required, sock>>
    BY <1>4 DEF C!DiscoverSucceeds
  <2>2. aim[t] = rehome /\ Searching(t) /\ at[t] \in C!LoopPoints
    BY <2>1 DEF TargetInv, Searching, C!LoopPoints
  <2> QED
    BY <1>0, <1>2, <1>4, <2>1, <2>2, SearchStep
<1>5. ASSUME LoopRuns(t), C!DiscoverFails(t) PROVE TargetInv'
  <2>1. /\ at[t] = "discover" /\ C!Go(t, IF required THEN "wait" ELSE "check")
        /\ UNCHANGED <<rehome, required, endpoint, sock, mine, aim>>
    BY <1>5 DEF C!DiscoverFails
  <2>2. Searching(t) /\ at[t] \in C!LoopPoints
    BY <2>1 DEF Searching, C!LoopPoints
  <2>3. CASE required
    BY <1>a, <1>b, <1>2, <1>5, <2>1, <2>3
  <2>4. CASE ~required
    <3>1. rehome = 0
      BY <1>0, <2>2, <2>4 DEF TargetInv
    <3> QED
      BY <1>0, <1>2, <1>5, <2>1, <2>2, <2>4, <3>1, SearchStep
  <2> QED
    BY <2>3, <2>4
<1>6. ASSUME LoopRuns(t), C!CheckPolicy(t) PROVE TargetInv'
  <2>1. /\ at[t] = "check"
        /\ UNCHANGED <<rehome, required, endpoint, sock, mine, aim>>
        /\ (C!Go(t, "wait") \/ C!Go(t, "connect"))
    BY <1>6 DEF C!CheckPolicy
  <2>2. Searching(t) /\ at[t] \in C!LoopPoints /\ (rehome # 0 => endpoint = rehome)
    BY <2>1 DEF Searching, C!LoopPoints, TargetInv
  <2>3. CASE C!Go(t, "wait")
    BY <1>a, <1>b, <1>2, <1>6, <2>1, <2>3
  <2>4. CASE C!Go(t, "connect")
    BY <1>0, <1>2, <1>6, <2>1, <2>2, <2>4, SearchStep
  <2> QED
    BY <2>1, <2>3, <2>4
<1>7. ASSUME LoopRuns(t), C!OpenSocket(t) PROVE TargetInv'
  <2>1. /\ at[t] = "connect" /\ C!Go(t, "opened") /\ sock' = generation + 1
        /\ UNCHANGED <<rehome, required, endpoint>>
    BY <1>7 DEF C!OpenSocket
  <2>2. Searching(t) /\ at[t] \in C!LoopPoints /\ (rehome # 0 => endpoint = rehome)
    BY <2>1 DEF Searching, C!LoopPoints, TargetInv
  <2>3. sock' \notin asked
    <3>1. generation \in Nat /\ \A s \in asked : s \in Nat /\ s <= generation
      BY BoundAssumption
         DEF Basis, C!TypeOK, C!Sockets, ClientTypes, Threads, NumbersPast
    <3> QED
      BY <2>1, <3>1
  <2> QED
    BY <1>0, <1>2, <1>7, <2>1, <2>2, <2>3, SearchStep
<1>8. ASSUME LoopRuns(t), C!MarkConnected(t) PROVE TargetInv'
  <2>1. /\ at[t] = "opened" /\ C!Go(t, "started")
        /\ UNCHANGED <<rehome, required, endpoint, sock>>
    BY <1>8 DEF C!MarkConnected
  <2>2. Searching(t) /\ at[t] \in C!LoopPoints /\ (rehome # 0 => endpoint = rehome)
    BY <2>1 DEF Searching, C!LoopPoints, TargetInv
  <2> QED
    BY <1>0, <1>2, <1>8, <2>1, <2>2, SearchStep
<1>9. ASSUME LoopRuns(t), C!StartReceiving(t) PROVE TargetInv'
  <2>1. /\ at[t] = "started" /\ (C!Go(t, "restoring") \/ C!Go(t, "wait"))
        /\ UNCHANGED <<rehome, required, endpoint, sock, aim>>
        /\ \A u \in Threads \ {t} : mine'[u] = mine[u]
    BY <1>9 DEF C!StartReceiving, Basis, C!TypeOK, C!Threads, Threads
  <2>2. at[t] = "started"
    BY <1>9 DEF C!StartReceiving
  <2>3. Searching(t) /\ at[t] \in C!LoopPoints /\ (rehome # 0 => endpoint = rehome)
    BY <2>2 DEF Searching, C!LoopPoints, TargetInv
  <2>4. CASE C!Go(t, "wait")
    BY <1>a, <1>b, <1>2, <1>9, <2>1, <2>2, <2>4
  <2>5. CASE C!Go(t, "restoring")
    BY <1>0, <1>c, <1>2, <1>9, <2>1, <2>2, <2>3, <2>5, SearchStep
  <2> QED
    BY <2>1, <2>4, <2>5
<1>10. ASSUME SendAuth(t) PROVE TargetInv'
  <2>1. /\ at[t] = "restoring" /\ ~asking /\ asking'
        /\ UNCHANGED <<at, rehome, required, source, endpoint, mine>>
    BY <1>10 DEF SendAuth, link
  <2>2. Searching(t) /\ at[t] \in C!LoopPoints /\ C!Go(t, "restoring")
    BY <2>1 DEF Searching, C!LoopPoints, C!Go, Basis, C!TypeOK, C!Threads, Threads
  <2> QED
    BY <2>1, <2>2, RestoreStep
<1>11. ASSUME AuthSucceeds(t) PROVE TargetInv'
  <2>1. /\ at[t] = "restoring" /\ asking /\ C!Go(t, "authenticated")
        /\ UNCHANGED <<rehome, required, source, endpoint, mine>>
    BY <1>11 DEF AuthSucceeds, C!AuthSucceeds
  <2>2. Restoring(t) /\ at[t] \in C!LoopPoints
    BY <2>1 DEF Restoring, C!LoopPoints
  <2> QED
    BY <2>1, <2>2, RestoreStep DEF Welcomed
<1>12. ASSUME LoopRuns(t), C!FinishRestore(t) PROVE TargetInv'
  <2>1. /\ at[t] = "authenticated" /\ C!Go(t, "restored")
        /\ UNCHANGED <<rehome, required, endpoint, mine>>
    BY <1>12 DEF C!FinishRestore
  <2>2. Restoring(t) /\ at[t] \in C!LoopPoints
    BY <2>1 DEF Restoring, Welcomed, C!LoopPoints
  <2> QED
    BY <1>2, <1>12, <2>1, <2>2, RestoreStep DEF Welcomed
<1>13. ASSUME LoopRuns(t), C!CheckTransport(t) PROVE TargetInv'
  <2>1. /\ at[t] = "restored" /\ (C!Go(t, "completing") \/ C!Go(t, "wait"))
        /\ UNCHANGED <<rehome, required, endpoint, mine, aim, sock>>
    BY <1>13 DEF C!CheckTransport
  <2>2. at[t] = "restored"
    BY <1>13 DEF C!CheckTransport
  <2>3. Restoring(t) /\ at[t] \in C!LoopPoints
    BY <2>2 DEF Restoring, Welcomed, C!LoopPoints
  <2>4. CASE C!Go(t, "wait")
    BY <1>a, <1>b, <1>2, <1>13, <2>1, <2>2, <2>4
  <2>5. CASE C!Go(t, "completing")
    BY <1>2, <1>13, <2>1, <2>3, <2>5, RestoreStep DEF Welcomed
  <2> QED
    BY <2>1, <2>4, <2>5
<1>14. ASSUME LoopRuns(t), C!Complete(t) PROVE TargetInv'
  <2>1. at[t] = "completing" /\ C!Go(t, "release") /\ rehome' = 0
    BY <1>14 DEF C!Complete
  <2>2. at'[t] = "release" /\ \A u \in Threads \ {t} :
          at'[u] = at[u] /\ at[u] \notin C!LoopPoints
    BY <2>1, LoopIsAlone DEF C!LoopPoints
  <2>3. \A u \in Threads : ~Searching(u)' /\ ~Restoring(u)' /\ at'[u] # "discover"
    BY <2>2 DEF Searching, Restoring, Welcomed, C!LoopPoints
  <2> QED
    BY <2>1, <2>3 DEF TargetInv
<1>15. ASSUME RestoreFails(t) PROVE TargetInv'
  <2>1. /\ at[t] \in {"restoring", "authenticated"} /\ C!Go(t, "wait") /\ sock' = 0
        /\ UNCHANGED <<rehome, required, source, endpoint, mine, aim, asked>>
    BY <1>15 DEF RestoreFails, C!RestoreFails
  <2> QED
    BY <1>a, <1>b, <2>1
<1>16. ASSUME LoopRuns(t) PROVE TargetInv'
  <2>1. \/ C!Claim(t) \/ C!ConnectFails(t) \/ C!Release(t)
        \/ C!DiscoverSucceeds(t) \/ C!DiscoverFails(t) \/ C!CheckPolicy(t)
        \/ C!OpenSocket(t) \/ C!MarkConnected(t) \/ C!StartReceiving(t)
        \/ C!FinishRestore(t) \/ C!CheckTransport(t) \/ C!Complete(t)
    BY <1>16 DEF LoopRuns
  <2> QED
    BY <1>16, <2>1, <1>3, <1>4, <1>5, <1>6, <1>7, <1>8, <1>9, <1>12, <1>13, <1>14
<1> QED
  BY <1>1, <1>10, <1>11, <1>15, <1>16

\* A rehome comes, is noted and asks for its reconnect.
LEMMA RehomeKeepsTarget ==
  ASSUME Basis, TargetInv, NEW t \in Threads,
         RehomeArrives(t) \/ NoteRehome(t) \/ RefuseReconnect(t) \/ AcceptReconnect(t)
  PROVE  TargetInv'
<1>1. /\ at'[t] \in {"rehome", "request", "idle", "cut"}
      /\ \A u \in Threads \ {t} : at'[u] = at[u] /\ mine'[u] = mine[u]
      /\ UNCHANGED <<sock, asking, asked, endpoint>>
  BY DEF RehomeArrives, NoteRehome, RefuseReconnect, AcceptReconnect, C!RehomeArrives,
         C!NoteRehome, C!RefuseReconnect, C!AcceptReconnect, C!Move, C!Go, C!transport,
         C!locals, C!rehoming, client, server, Basis, C!TypeOK, C!Threads, Threads
<1>2. RehomeArrives(t) => /\ t = sock /\ t # 0 /\ t \in asked /\ at[t] = "idle"
                          /\ at'[t] = "rehome"
                          /\ UNCHANGED <<rehome, required, source>>
  BY DEF RehomeArrives, C!RehomeArrives, C!Dispatching, C!Go, C!rehoming, C!control,
         Basis, ClientTypes, C!TypeOK, C!Threads, Threads
<1>3. NoteRehome(t) => at[t] = "rehome" /\ at'[t] = "request" /\ source' = t
  BY DEF NoteRehome, C!NoteRehome, C!Move, C!Go, Basis, C!TypeOK, C!Threads, Threads
<1>4. RefuseReconnect(t) => /\ at[t] = "request" /\ at'[t] = "idle" /\ rehome' = 0
  BY DEF RefuseReconnect, C!RefuseReconnect, C!Move, C!Go, Basis, C!TypeOK, C!Threads,
         Threads
<1>5. AcceptReconnect(t) => /\ at[t] = "request" /\ at'[t] \in {"idle", "cut"}
                            /\ required' = TRUE
                            /\ UNCHANGED <<rehome, source>>
  BY DEF AcceptReconnect, C!AcceptReconnect, C!Go, C!rehoming, Basis, C!TypeOK,
         C!Threads, Threads
<1>6. \A u \in Threads : ~Searching(u)
  BY <1>2, <1>3, <1>4, <1>5 DEF TargetInv
<1>7. \A u \in Threads : ~Searching(u)' /\ at'[u] # "discover"
  BY <1>1, <1>6 DEF Searching
<1>8. \A u \in Threads : Restoring(u)' =>
        /\ u # t /\ Restoring(u) /\ mine'[u] = mine[u]
        /\ sock \in {0, mine[u]}
        /\ \A v \in Threads : at[v] = "rehome" => v = mine[u]
        /\ rehome # 0 => endpoint = rehome \/ source = mine[u]
  BY <1>1 DEF Restoring, Welcomed, Basis, C!OwnerKnowsTransport, C!Threads, Threads,
              TargetInv
<1>9. CASE RehomeArrives(t)
  BY <1>1, <1>2, <1>7, <1>8, <1>9 DEF TargetInv
<1>10. CASE NoteRehome(t)
  BY <1>1, <1>3, <1>7, <1>8, <1>10 DEF TargetInv
<1>11. CASE RefuseReconnect(t)
  BY <1>1, <1>4, <1>7, <1>8, <1>11 DEF TargetInv
<1>12. CASE AcceptReconnect(t)
  BY <1>1, <1>5, <1>7, <1>8, <1>12 DEF TargetInv
<1> QED
  BY <1>9, <1>10, <1>11, <1>12

\* Every step keeps it.
LEMMA StepKeepsTarget ==
  ASSUME Basis, TargetInv, [Next]_vars
  PROVE  TargetInv'
<1>1. ASSUME NEW t \in Threads,
             \/ FindBroken(t) \/ Notify(t) \/ CutTransport(t)
             \/ \E k \in N!Kinds : SendBreaks(t, k)
      PROVE  TargetInv'
  <2>1. /\ UNCHANGED <<rehome, required, endpoint, source, asked, asking>>
        /\ at[t] \notin {"rehome", "request"} /\ at'[t] \in Aside
        /\ \A u \in Threads \ {t} :
             at'[u] = at[u] /\ mine'[u] = mine[u] /\ aim'[u] = aim[u]
        /\ sock' \in {sock, 0}
    BY <1>1 DEF FindBroken, Notify, CutTransport, SendBreaks, Handler, C!FindBroken,
                C!Notify, C!CutTransport, C!Disconnect, C!Move, C!Go, C!transport,
                C!control, C!locals, C!rehoming, client, server, Aside, Basis,
                C!TypeOK, C!Threads, Threads
  <2> QED
    BY <2>1, AsideKeepsTarget
<1>2. ASSUME UNCHANGED <<at, mine, aim, asking, rehome, required, endpoint, source,
                         asked>>,
             sock' \in {sock, 0}
      PROVE  TargetInv'
  BY <1>2, AsideKeepsTarget
<1>3. CASE \/ \E t \in Threads : Suspend(t)
           \/ \E s \in C!Sockets : Break(s)
           \/ CloseFlags \/ CloseSocket
  BY <1>2, <1>3 DEF Suspend, Break, CloseFlags, CloseSocket, C!Suspend, C!Break,
                    C!CloseFlags, C!CloseSocket, C!transport, C!control, C!locals,
                    C!rehoming, client, server
<1>4. CASE HandlerAction /\ ~\E t \in Threads : SendAuth(t)
  <2>1. UNCHANGED <<link, asking, source, asked>>
    BY <1>4 DEF HandlerAction, AuthArrives, HandleAuth, PrepareSession, SkipSession,
                Wake, AckArrives, SendOffer, SendFails, FinishOffer, HandleAck,
                TimerStep, client, server
  <2> QED
    BY <1>2, <2>1 DEF link
<1>5. CASE UNCHANGED vars
  BY <1>2, <1>5 DEF vars, link, client, server
<1> QED
  BY <1>1, <1>3, <1>4, <1>5, Actions, LoopKeepsTarget, RehomeKeepsTarget DEF LinkAction

\* Nobody asked for a rehome yet.
LEMMA TargetBegins ==
  ASSUME Init
  PROVE  TargetInv
BY DEF Init, C!Init, C!Threads, Threads, TargetInv, Searching, Restoring, Welcomed

LEMMA TargetHolds == Spec => []TargetInv
<1>1. CP!TypeOK /\ CP!TransportInv /\ NP!Safe /\ Belief => Basis
  BY TransportTerms DEF Basis, Belief
<1>2. Spec => []Basis
  BY <1>1, BeliefHolds, PTL
<1>3. Init => TargetInv
  BY TargetBegins
<1>4. Basis /\ TargetInv /\ [Next]_vars => TargetInv'
  BY StepKeepsTarget
<1> QED
  BY <1>2, <1>3, <1>4, PTL DEF Spec

\* The handoff ticket is sent only where the rehome it belongs to leads, whatever
\* losses, closes and further rehomes meet the loop on its way there.
THEOREM TicketsReachTargets == Spec => TicketReachesTarget
<1>1. TargetInv =>
        [\A t \in Threads : SendAuth(t) /\ rehome # 0 => endpoint = rehome]_vars
  BY DEF TargetInv, Searching, SendAuth
<1> QED
  BY <1>1, TargetHolds, PTL DEF TicketReachesTarget

\* A rehome is given up as done at its target only, or if it came on the transport the
\* loop is completing.
THEOREM RehomesAreKept == Spec => RehomeIsKept
<1>1. TargetInv =>
        [\A t \in Threads :
           at[t] = "completing" /\ at'[t] = "release" /\ rehome # 0 =>
             endpoint = rehome \/ source = mine[t]]_vars
  BY DEF TargetInv, Restoring, Welcomed
<1> QED
  BY <1>1, TargetHolds, PTL DEF RehomeIsKept

=============================================================================
