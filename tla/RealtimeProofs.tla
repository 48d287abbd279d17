--------------------------- MODULE RealtimeProofs ---------------------------
(***************************************************************************)
(* Realtime: proofs, for any symbols, sources, epochs and transports, and  *)
(* any bounds.                                                             *)
(***************************************************************************)
EXTENDS Realtime, TLAPS

-----------------------------------------------------------------------------
(***************************************************************************)
(* Types.                                                                  *)
(***************************************************************************)
LinkTypes ==
  /\ mode \in {"auto", "required_v2"}
  /\ generation \in Generations
  /\ connected \in BOOLEAN /\ cut \in BOOLEAN
  /\ owed \subseteq Generations
  /\ stage \in {"reset", "auth", "refused", "up", "done"}
  /\ closing \in {"open", "reset", "closed"}
  /\ faults \in 0 .. MaxFaults

SessionTypes ==
  /\ nonce \in Nat
  /\ bound \in 0 .. MaxGeneration
  /\ phase \in Phases \ {"waiting_commit"}
  /\ selected \subseteq Sources
  /\ states \in [Sources -> SourceState]
  /\ revision \in 0 .. MaxRevision

WireTypes ==
  /\ cloud \in Cloud
  /\ up \in Seq(UpMessage) /\ down \in Seq(DownMessage)

QuoteTypes ==
  /\ cache \in [Symbols -> Quote]
  /\ watermark \in [Symbols -> {NoQuote} \cup FullField]
  /\ shown \in [Symbols -> {NoQuote} \cup FullField]

HandTypes ==
  /\ handing \subseteq [g : Generations, x : Symbols, q : Quote]
  /\ queue \in Seq([x : Symbols, q : Quote]) /\ Len(queue) <= QueueLimit

\* The five parts are the whole.
LEMMA TypesByPart ==
  /\ TypeOK <=> LinkTypes /\ SessionTypes /\ WireTypes /\ QuoteTypes /\ HandTypes
  /\ TypeOK' <=> LinkTypes' /\ SessionTypes' /\ WireTypes' /\ QuoteTypes' /\ HandTypes'
BY DEF TypeOK, LinkTypes, SessionTypes, WireTypes, QuoteTypes, HandTypes

\* What a full-field quote is.
LEMMA QuoteFacts ==
  /\ NoQuote.v = 0 /\ NoQuote \in Quote /\ FullField \subseteq Quote
  /\ \A q \in SixField : q.v = 1
  /\ \A q \in FullField : /\ q.v = 2 /\ q.nonce \in Nat /\ q.src \in Sources
                          /\ q.epoch \in AllEpochs /\ q.seq \in 1 .. MaxSeq
BY DEF NoQuote, Quote, SixField, FullField

\* Only a full-field quote has version 2.
LEMMA FullQuote ==
  ASSUME NEW q \in Quote, q.v = 2
  PROVE  q \in FullField
BY QuoteFacts DEF Quote

\* Forgetting keeps the types.
LEMMA ForgetTypes ==
  ASSUME QuoteTypes, NEW mask, Forget(mask) \/ ForgetAll
  PROVE  QuoteTypes'
<1>1. CASE UNCHANGED quotes
  BY <1>1 DEF quotes, QuoteTypes
<1>2. CASE ForgetAll
  BY <1>2, QuoteFacts DEF ForgetAll, Nothing, QuoteTypes
<1>3. CASE /\ cache' = KeepOf(cache, mask) /\ watermark' = KeepOf(watermark, mask)
           /\ shown' = KeepOf(shown, mask)
  BY <1>3, QuoteFacts DEF KeepOf, QuoteTypes
<1> QED
  BY <1>1, <1>2, <1>3 DEF Forget

\* All sources down is a state of the sources.
LEMMA NoStatesTypes ==
  /\ 0 \in 0 .. MaxRevision /\ 0 \in 0 .. MaxGeneration
  /\ AllDown \in [Sources -> SourceState] /\ {} \in SUBSET Sources
BY BoundAssumption DEF AllDown, SourceState

\* A new cloud is one.
LEMMA NewCloudTypes ==
  /\ NewCloud("idle") \in Cloud /\ NewCloud("old") \in Cloud
  /\ <<>> \in Seq(UpMessage) /\ <<>> \in Seq(DownMessage)
BY NoStatesTypes DEF NewCloud, Cloud, Phases

\* A reset keeps the types.
LEMMA ResetTypes ==
  ASSUME SessionTypes, QuoteTypes, HandTypes, ResetRealtime
  PROVE  SessionTypes' /\ QuoteTypes' /\ HandTypes'
<1>1. SessionTypes'
  BY NoStatesTypes DEF SessionTypes, ResetRealtime, NoStates, Phases
<1>2. QuoteTypes'
  BY ForgetTypes DEF ResetRealtime
<1>3. HandTypes'
  BY BoundAssumption DEF HandTypes, ResetRealtime
<1> QED
  BY <1>1, <1>2, <1>3

\* The count of faults stays in its range.
LEMMA FaultTypes ==
  ASSUME LinkTypes, Fault
  PROVE  faults' \in 0 .. MaxFaults
BY BoundAssumption DEF LinkTypes, Fault

\* The types hold at first.
LEMMA InitTypes ==
  ASSUME Init
  PROVE  TypeOK
<1> USE DEF Init
<1>1. LinkTypes
  <2>1. 1 \in Generations /\ 0 \in 0 .. MaxFaults
    BY BoundAssumption DEF Generations
  <2> QED
    BY <2>1 DEF LinkTypes
<1>2. SessionTypes
  BY NoStatesTypes DEF SessionTypes, Phases
<1>3. WireTypes
  BY NewCloudTypes DEF WireTypes
<1>4. QuoteTypes
  BY QuoteFacts DEF QuoteTypes, Nothing
<1>5. HandTypes
  BY BoundAssumption DEF HandTypes
<1> QED
  BY <1>1, <1>2, <1>3, <1>4, <1>5, TypesByPart

\* The transports, the threads of the loop and close().
LEMMA LinkActionTypes ==
  ASSUME TypeOK,
         \/ Break \/ Open \/ ReconnectReset \/ FinishRestore \/ RestoreFails
         \/ CloseReset \/ CloseTransport \/ AuthEnds \/ MapChanges
         \/ \E g \in Generations : CallbackReset(g)
  PROVE  TypeOK'
<1> USE TypesByPart, NewCloudTypes, BoundAssumption
<1>1. CASE Break
  BY <1>1 DEF Break, HangUp, LinkTypes, SessionTypes, WireTypes, QuoteTypes, HandTypes,
              session, quotes
<1>2. CASE Open
  <2>1. LinkTypes'
    <3>1. generation' \in Generations
      BY <1>2 DEF Open, LinkTypes, Generations
    <3> QED
      BY <1>2, <3>1 DEF Open, LinkTypes
  <2>2. WireTypes'
    BY <1>2 DEF Open, WireTypes
  <2> QED
    BY <1>2, <2>1, <2>2 DEF Open, SessionTypes, QuoteTypes, HandTypes, session, quotes
<1>3. CASE ReconnectReset
  <2>1. LinkTypes' /\ WireTypes'
    BY <1>3 DEF ReconnectReset, LinkTypes, WireTypes, wires
  <2> QED
    BY <1>3, <2>1, ResetTypes DEF ReconnectReset
<1>4. CASE FinishRestore
  BY <1>4 DEF FinishRestore, LinkTypes, SessionTypes, WireTypes, QuoteTypes, HandTypes,
              session, quotes, wires
<1>5. CASE RestoreFails
  <2>1. faults' \in 0 .. MaxFaults
    BY <1>5, FaultTypes DEF RestoreFails, LinkTypes
  <2> QED
    BY <1>5, <2>1 DEF RestoreFails, HangUp, LinkTypes, SessionTypes, WireTypes,
                      QuoteTypes, HandTypes, session, quotes
<1>6. CASE CloseReset
  <2>1. faults' \in 0 .. MaxFaults
    BY <1>6, FaultTypes DEF CloseReset, LinkTypes
  <2>2. LinkTypes' /\ WireTypes'
    BY <1>6, <2>1 DEF CloseReset, LinkTypes, WireTypes, wires
  <2> QED
    BY <1>6, <2>2, ResetTypes DEF CloseReset
<1>7. CASE CloseTransport
  BY <1>7 DEF CloseTransport, HangUp, LinkTypes, SessionTypes, WireTypes, QuoteTypes,
              HandTypes, session, quotes
<1>8. CASE AuthEnds
  <2>1. LinkTypes' /\ WireTypes'
    BY <1>8, FaultTypes DEF AuthEnds, LinkTypes, WireTypes, wires
  <2> QED
    BY <1>8, <2>1, ResetTypes DEF AuthEnds
<1>9. CASE MapChanges
  <2>1. QuoteTypes'
    BY <1>9, ForgetTypes DEF MapChanges
  <2> QED
    BY <1>9, <2>1, FaultTypes DEF MapChanges, LinkTypes, SessionTypes, WireTypes,
                                  HandTypes, link, session, wires
<1>10. ASSUME NEW g \in Generations, CallbackReset(g)
       PROVE  TypeOK'
  <2>1. LinkTypes' /\ WireTypes'
    BY <1>10 DEF CallbackReset, LinkTypes, WireTypes, wires
  <2>2. CASE UNCHANGED <<session, quotes, handing, queue>>
    BY <2>1, <2>2 DEF SessionTypes, QuoteTypes, HandTypes, session, quotes
  <2> QED
    BY <1>10, <2>1, <2>2, ResetTypes DEF CallbackReset
<1> QED
  BY <1>1, <1>2, <1>3, <1>4, <1>5, <1>6, <1>7, <1>8, <1>9, <1>10

\* AUTH_RESPONSE: a new negotiation, or nothing.
LEMMA AuthGrantedTypes ==
  ASSUME TypeOK, AuthGranted
  PROVE  TypeOK'
<1> USE TypesByPart DEF AuthGranted
<1>1. HandTypes' /\ cloud' \in Cloud /\ down' \in Seq(DownMessage)
  BY DEF HandTypes, WireTypes
<1>2. stage' \in {"reset", "auth", "refused", "up", "done"}
  BY DEF LinkTypes
<1>3. CASE Current
  BY <1>1, <1>2, <1>3 DEF Begin, LinkTypes, SessionTypes, WireTypes, QuoteTypes, session,
                          quotes
<1>4. CASE ~Current
  <2>1. QuoteTypes'
    BY <1>4, ForgetTypes DEF Begin
  <2>2. faults' \in 0 .. MaxFaults /\ cut' \in BOOLEAN
    BY <1>4, FaultTypes DEF Begin, LinkTypes
  <2>3. LinkTypes'
    BY <1>2, <2>2 DEF LinkTypes
  <2>4. SessionTypes'
    <3>1. generation \in 0 .. MaxGeneration /\ phase' \in {"waiting_ack", "closed"}
      BY <1>4, BoundAssumption DEF LinkTypes, Generations, Begin
    <3> QED
      BY <1>4, <3>1, NoStatesTypes DEF Begin, SessionTypes, NoStates, Phases
  <2>5. up' \in Seq(UpMessage)
    <3>1. [kind |-> "offer", nonce |-> nonce'] \in UpMessage
      BY <2>4 DEF UpMessage, SessionTypes
    <3> QED
      BY <1>4, <3>1 DEF Begin, WireTypes
  <2> QED
    BY <1>1, <2>1, <2>3, <2>4, <2>5 DEF WireTypes
<1> QED
  BY <1>3, <1>4

\* A control message: ACK, SOURCE_STATUS, or one that ends the session.
LEMMA ReceiveControlTypes ==
  ASSUME TypeOK, ReceiveControl
  PROVE  TypeOK'
<1> DEFINE m == Head(down)
<1> USE TypesByPart
<1>1. /\ down' = Tail(down) /\ down # <<>>
      /\ UNCHANGED <<mode, generation, connected, owed, stage, closing, cloud, handing,
                     queue>>
      /\ \/ HandleAck(m) \/ HandleStatus(m) \/ HandleBad \/ HandleOversized
         \/ UNCHANGED <<faults, session, cut, up, quotes>>
  BY DEF ReceiveControl
<1>2. m \in DownMessage /\ down' \in Seq(DownMessage)
  BY <1>1 DEF WireTypes
<1> HIDE DEF m
<1>3. m.selected \subseteq Sources /\ m.states \in [Sources -> SourceState]
      /\ m.revision \in 0 .. MaxRevision
  BY <1>2 DEF DownMessage
<1>4. HandTypes' /\ cloud' \in Cloud
  BY <1>1 DEF HandTypes, WireTypes
<1>5. LinkTypes' <=> cut' \in BOOLEAN /\ faults' \in 0 .. MaxFaults
  BY <1>1 DEF LinkTypes
<1>6. CASE HandleAck(m)
  <2>1. QuoteTypes'
    <3>1. CASE UNCHANGED quotes
      BY <3>1 DEF quotes, QuoteTypes
    <3>2. CASE Forget(m.selected) \/ ForgetAll
      BY <3>2, ForgetTypes
    <3> QED
      BY <1>6, <3>1, <3>2 DEF HandleAck
  <2>2. LinkTypes'
    BY <1>5, <1>6, FaultTypes DEF HandleAck, LinkTypes
  <2>3. SessionTypes'
    <3>1. phase' \in {"fallback", "active", "closed"}
      BY <1>6 DEF HandleAck
    <3> QED
      BY <1>3, <1>6, <3>1, NoStatesTypes DEF HandleAck, SessionTypes, NoStates, Phases
  <2>4. up' \in Seq(UpMessage)
    <3>1. [kind |-> "commit", nonce |-> nonce] \in UpMessage
      BY DEF UpMessage, SessionTypes
    <3> QED
      BY <1>6, <3>1 DEF HandleAck, WireTypes
  <2> QED
    BY <1>2, <1>4, <2>1, <2>2, <2>3, <2>4 DEF WireTypes
<1>7. CASE HandleStatus(m)
  <2>1. QuoteTypes'
    BY <1>7, ForgetTypes DEF HandleStatus
  <2>2. LinkTypes' /\ WireTypes'
    BY <1>2, <1>4, <1>5, <1>7 DEF HandleStatus, LinkTypes, WireTypes
  <2>3. SessionTypes'
    BY <1>3, <1>7 DEF HandleStatus, SessionTypes
  <2> QED
    BY <1>4, <2>1, <2>2, <2>3
<1>8. CASE HandleBad
  <2>1. QuoteTypes'
    BY <1>8, ForgetTypes DEF HandleBad, CloseSession
  <2>2. LinkTypes' /\ WireTypes'
    BY <1>2, <1>4, <1>5, <1>8 DEF HandleBad, CloseSession, AbortTransport, LinkTypes,
                                  WireTypes
  <2>3. SessionTypes'
    BY <1>8, NoStatesTypes DEF HandleBad, CloseSession, SessionTypes, Phases
  <2> QED
    BY <1>4, <2>1, <2>2, <2>3
<1>9. CASE HandleOversized
  <2>1. QuoteTypes'
    BY <1>9, ForgetTypes DEF HandleOversized
  <2>2. LinkTypes' /\ WireTypes'
    BY <1>2, <1>4, <1>5, <1>9 DEF HandleOversized, AbortTransport, LinkTypes, WireTypes
  <2>3. SessionTypes'
    BY <1>9 DEF HandleOversized, SessionTypes, session
  <2> QED
    BY <1>4, <2>1, <2>2, <2>3
<1>10. CASE UNCHANGED <<faults, session, cut, up, quotes>>
  BY <1>2, <1>4, <1>5, <1>10 DEF LinkTypes, SessionTypes, WireTypes, QuoteTypes, session,
                                 quotes
<1> QED
  BY <1>1, <1>6, <1>7, <1>8, <1>9, <1>10

\* Quotes, the callbacks and the timer.
LEMMA QuoteActionTypes ==
  ASSUME TypeOK,
         \/ Timeout \/ CallbackRuns
         \/ \E x \in Symbols : SnapshotArrives(x) \/ SixFieldArrives(x)
         \/ \E h \in handing : Dispatch(h)
  PROVE  TypeOK'
<1> USE TypesByPart
<1>1. CASE Timeout
  BY <1>1 DEF Timeout, LinkTypes, SessionTypes, WireTypes, QuoteTypes, HandTypes, link,
              wires, quotes, Phases
<1>2. CASE CallbackRuns
  <2>1. Head(queue) \in [x : Symbols, q : Quote] /\ HandTypes'
    <3>1. /\ queue # <<>> /\ queue' = Tail(queue) /\ UNCHANGED handing
          /\ queue \in Seq([x : Symbols, q : Quote]) /\ Len(queue) <= QueueLimit
      BY <1>2 DEF CallbackRuns, HandTypes
    <3> DEFINE Item == [x : Symbols, q : Quote]
    <3>2. /\ queue # <<>> /\ queue' = Tail(queue)
          /\ queue \in Seq(Item) /\ Len(queue) <= QueueLimit
      BY <3>1
    <3> HIDE DEF Item
    <3>3. /\ Head(queue) \in Item
          /\ queue' \in Seq(Item) /\ Len(queue') <= QueueLimit
      BY <3>2, BoundAssumption
    <3> QED
      BY <3>1, <3>3 DEF HandTypes, Item
  <2>2. shown' \in [Symbols -> {NoQuote} \cup FullField]
    BY <1>2, <2>1, FullQuote DEF CallbackRuns, QuoteTypes
  <2> QED
    BY <1>2, <2>1, <2>2 DEF CallbackRuns, LinkTypes, SessionTypes, WireTypes, QuoteTypes,
                            link, session, wires
<1>3. ASSUME NEW x \in Symbols, NEW q \in Quote, HandOn(x, q)
      PROVE  handing' \subseteq [g : Generations, x : Symbols, q : Quote]
  BY <1>3 DEF HandOn, HandTypes, LinkTypes
<1>4. ASSUME NEW x \in Symbols, SnapshotArrives(x)
      PROVE  TypeOK'
  <2>1. PICK q \in FullField :
          /\ watermark' = [watermark EXCEPT ![x] = q]
          /\ \/ cache' = [cache EXCEPT ![x] = q] /\ HandOn(x, q)
             \/ cache' = [cache EXCEPT ![x] = NoQuote] /\ UNCHANGED handing
    <3>1. PICK s \in Sources, e \in AllEpochs, n \in 1 .. MaxSeq :
            LET q == [v |-> 2, nonce |-> nonce, src |-> s, epoch |-> e, seq |-> n] IN
              /\ watermark' = [watermark EXCEPT ![x] = q]
              /\ \/ cache' = [cache EXCEPT ![x] = q] /\ HandOn(x, q)
                 \/ cache' = [cache EXCEPT ![x] = NoQuote] /\ UNCHANGED handing
      BY <1>4 DEF SnapshotArrives
    <3>2. [v |-> 2, nonce |-> nonce, src |-> s, epoch |-> e, seq |-> n] \in FullField
      BY DEF FullField, SessionTypes
    <3> QED
      BY <3>1, <3>2
  <2>2. QuoteTypes'
    BY <1>4, <2>1, QuoteFacts DEF SnapshotArrives, QuoteTypes
  <2>3. HandTypes'
    BY <1>3, <1>4, <2>1, QuoteFacts DEF SnapshotArrives, HandTypes
  <2> QED
    BY <1>4, <2>2, <2>3 DEF SnapshotArrives, LinkTypes, SessionTypes, WireTypes, link,
                            session, wires
<1>5. ASSUME NEW x \in Symbols, SixFieldArrives(x)
      PROVE  TypeOK'
  <2> DEFINE q == [v |-> 1, nonce |-> nonce]
  <2>1. q \in Quote /\ cache' = [cache EXCEPT ![x] = q] /\ HandOn(x, q)
    BY <1>5 DEF SixFieldArrives, Quote, SixField, SessionTypes
  <2> HIDE DEF q
  <2>2. QuoteTypes' /\ HandTypes'
    BY <1>3, <1>5, <2>1 DEF SixFieldArrives, QuoteTypes, HandTypes
  <2> QED
    BY <1>5, <2>2 DEF SixFieldArrives, LinkTypes, SessionTypes, WireTypes, link, session,
                      wires
<1>6. ASSUME NEW h \in handing, Dispatch(h)
      PROVE  TypeOK'
  <2>1. h.x \in Symbols /\ h.q \in Quote
    BY DEF HandTypes
  <2>2. /\ QueueWithRoom \in Seq([x : Symbols, q : Quote])
        /\ Len(QueueWithRoom) + 1 <= QueueLimit
    BY BoundAssumption DEF QueueWithRoom, HandTypes
  <2>3. HandTypes'
    <3>1. CASE queue' = queue
      BY <1>6, <3>1 DEF Dispatch, HandTypes
    <3>2. CASE queue' = Append(QueueWithRoom, [x |-> h.x, q |-> h.q])
      <4>1. [x |-> h.x, q |-> h.q] \in [x : Symbols, q : Quote]
        BY <2>1
      <4>2. queue' \in Seq([x : Symbols, q : Quote]) /\ Len(queue') <= QueueLimit
        BY <2>2, <3>2, <4>1
      <4> QED
        BY <1>6, <4>2 DEF Dispatch, HandTypes
    <3> QED
      BY <1>6, <3>1, <3>2 DEF Dispatch
  <2> QED
    BY <1>6, <2>3 DEF Dispatch, LinkTypes, SessionTypes, WireTypes, QuoteTypes, link,
                      session, wires, quotes
<1> QED
  BY <1>1, <1>2, <1>4, <1>5, <1>6

\* The other end.
LEMMA CloudActionTypes ==
  ASSUME TypeOK, CloudReceives \/ CloudTimesOut \/ CloudPublishes \/ BadControl
  PROVE  TypeOK'
<1> USE TypesByPart
<1>1. CloudUnchanged
  BY DEF CloudReceives, CloudTimesOut, CloudPublishes, BadControl
<1>2. SessionTypes' /\ QuoteTypes' /\ HandTypes'
  BY <1>1 DEF CloudUnchanged, SessionTypes, QuoteTypes, HandTypes, session, quotes
<1>3. faults' \in 0 .. MaxFaults
  BY FaultTypes DEF CloudReceives, CloudTimesOut, CloudPublishes, BadControl, LinkTypes
<1>4. LinkTypes'
  BY <1>1, <1>3 DEF CloudUnchanged, LinkTypes, link
<1>5. ASSUME NEW m \in DownMessage, Tell(m)
      PROVE  down' \in Seq(DownMessage)
  BY <1>5 DEF Tell, WireTypes
<1>6. CASE CloudReceives
  <2> DEFINE m == Head(up)
  <2>1. m \in UpMessage /\ up' \in Seq(UpMessage)
    <3>1. up # <<>> /\ up' = Tail(up) /\ up \in Seq(UpMessage)
      BY <1>6 DEF CloudReceives, WireTypes
    <3> QED
      BY <3>1
  <2>2. \/ \E common \in SUBSET Sources :
             /\ cloud' = [cloud EXCEPT !.phase = IF common = {} THEN "fallback"
                                                 ELSE "waiting_commit",
                                       !.nonce = m.nonce, !.selected = common]
             /\ Tell([kind |-> "ack", nonce |-> m.nonce, selected |-> common,
                      states |-> AllDown, revision |-> 0])
        \/ cloud' = [cloud EXCEPT !.phase = "active"] /\ UNCHANGED down
        \/ UNCHANGED <<cloud, down>>
    BY <1>6 DEF CloudReceives
  <2> HIDE DEF m
  <2>3. m.nonce \in Nat
    BY <2>1 DEF UpMessage
  <2>4. ASSUME NEW common \in SUBSET Sources
        PROVE  [kind |-> "ack", nonce |-> m.nonce, selected |-> common,
                states |-> AllDown, revision |-> 0] \in DownMessage
    BY <2>3, NoStatesTypes DEF DownMessage
  <2>5. down' \in Seq(DownMessage)
    BY <1>5, <2>2, <2>4 DEF WireTypes
  <2>6. cloud' \in Cloud
    BY <2>2, <2>3 DEF WireTypes, Cloud, Phases
  <2> QED
    BY <1>2, <1>4, <2>1, <2>5, <2>6 DEF WireTypes
<1>7. CASE CloudTimesOut
  BY <1>2, <1>4, <1>7 DEF CloudTimesOut, WireTypes, Cloud, Phases
<1>8. CASE CloudPublishes
  <2>1. PICK new \in [Sources -> SourceState] :
          /\ cloud' = [cloud EXCEPT !.states = new, !.revision = @ + 1]
          /\ Tell([kind |-> "status", nonce |-> cloud.nonce, selected |-> {},
                   states |-> new, revision |-> cloud'.revision])
    BY <1>8 DEF CloudPublishes
  <2>2. cloud' \in Cloud
    <3>1. cloud \in Cloud /\ cloud.revision + 1 \in 0 .. MaxRevision
      <4>1. cloud.revision < MaxRevision
        BY <1>8 DEF CloudPublishes
      <4>2. cloud \in Cloud /\ cloud.revision \in 0 .. MaxRevision
        BY DEF WireTypes, Cloud
      <4> QED
        BY <4>1, <4>2, BoundAssumption
    <3> QED
      BY <2>1, <3>1 DEF Cloud
  <2>3. [kind |-> "status", nonce |-> cloud.nonce, selected |-> {}, states |-> new,
         revision |-> cloud'.revision] \in DownMessage
    BY <2>2 DEF DownMessage, WireTypes, Cloud
  <2> QED
    BY <1>2, <1>4, <1>5, <1>8, <2>1, <2>2, <2>3 DEF CloudPublishes, WireTypes
<1>9. CASE BadControl
  <2>1. PICK k \in {"bad", "oversized"} :
          Tell([kind |-> k, nonce |-> 0, selected |-> {}, states |-> AllDown,
                revision |-> 0])
    BY <1>9 DEF BadControl
  <2>2. [kind |-> k, nonce |-> 0, selected |-> {}, states |-> AllDown,
         revision |-> 0] \in DownMessage
    BY NoStatesTypes DEF DownMessage
  <2> QED
    BY <1>2, <1>4, <1>5, <1>9, <2>1, <2>2 DEF BadControl, WireTypes
<1> QED
  BY <1>6, <1>7, <1>8, <1>9

\* Every variable keeps its type.
THEOREM TypeCorrect == Spec => []TypeOK
<1>1. TypeOK /\ [Next]_vars => TypeOK'
  <2>1. CASE UNCHANGED vars
    BY <2>1 DEF vars, TypeOK
  <2> QED
    BY <2>1, LinkActionTypes, AuthGrantedTypes, ReceiveControlTypes, QuoteActionTypes,
       CloudActionTypes DEF Next
<1> QED
  BY <1>1, InitTypes, PTL DEF Spec

-----------------------------------------------------------------------------
(***************************************************************************)
(* The cache.  CacheIsCurrent is not inductive: that a quote goes when its *)
(* source does is known of the watermark, which moves even when the byte   *)
(* budget keeps the quote out of the cache, and what was shown is behind   *)
(* the watermark.                                                          *)
(***************************************************************************)
Tracked ==
  \A x \in Symbols :
    /\ cache[x].v = 2 => cache[x] = watermark[x]
    /\ cache[x].v = 1 => mode = "auto" /\ watermark[x] = NoQuote
    /\ watermark[x] # NoQuote =>
         /\ watermark[x].nonce = nonce
         /\ IsReady(watermark[x].src, watermark[x].epoch)
    /\ shown[x] # NoQuote =>
         /\ watermark[x] # NoQuote
         /\ shown[x].nonce = nonce
         /\ shown[x].src = watermark[x].src
         /\ shown[x].epoch = watermark[x].epoch
         /\ shown[x].seq <= watermark[x].seq

\* Nothing is kept, nothing is wrong.
LEMMA ForgetAllTracks ==
  ASSUME ForgetAll
  PROVE  Tracked'
BY QuoteFacts DEF ForgetAll, Nothing, Tracked

\* Steps that leave the quotes and what they rest on alone.
LEMMA IdleTracks ==
  ASSUME Tracked, UNCHANGED <<mode, nonce, phase, selected, states, cache, watermark,
                              shown>>
  PROVE  Tracked'
BY DEF Tracked, IsReady

\* Forgetting the sources whose state changed leaves the quotes of the others, which
\* are as ready as they were.
LEMMA ForgetTracks ==
  ASSUME QuoteTypes, Tracked, NEW mask, Forget(mask), UNCHANGED <<mode, nonce>>,
         \A s \in Sources \ mask, e \in AllEpochs : IsReady(s, e) => IsReady(s, e)'
  PROVE  Tracked'
<1> SUFFICES ASSUME NEW x \in Symbols
             PROVE  /\ cache'[x].v = 2 => cache'[x] = watermark'[x]
                    /\ cache'[x].v = 1 => mode' = "auto" /\ watermark'[x] = NoQuote
                    /\ watermark'[x] # NoQuote =>
                         /\ watermark'[x].nonce = nonce'
                         /\ IsReady(watermark[x].src, watermark[x].epoch)'
                    /\ shown'[x] # NoQuote =>
                         /\ watermark'[x] # NoQuote
                         /\ shown'[x].nonce = nonce'
                         /\ shown'[x].src = watermark'[x].src
                         /\ shown'[x].epoch = watermark'[x].epoch
                         /\ shown'[x].seq <= watermark'[x].seq
  BY DEF Tracked, IsReady
<1>1. /\ cache[x] \in Quote
      /\ watermark[x] \in {NoQuote} \cup FullField
      /\ shown[x] \in {NoQuote} \cup FullField
  BY DEF QuoteTypes
<1>2. CASE mask = {}
  <2>1. cache' = cache /\ watermark' = watermark /\ shown' = shown
    BY <1>2 DEF Forget, quotes
  <2>2. watermark[x] # NoQuote => IsReady(watermark[x].src, watermark[x].epoch)'
    BY <1>1, <1>2, <2>1, QuoteFacts DEF Tracked, IsReady
  <2> QED
    BY <2>1, <2>2 DEF Tracked
<1>3. CASE mask # {}
  <2>1. /\ cache'[x] = IF Kept(cache[x], mask) THEN cache[x] ELSE NoQuote
        /\ watermark'[x] = IF Kept(watermark[x], mask) THEN watermark[x] ELSE NoQuote
        /\ shown'[x] = IF Kept(shown[x], mask) THEN shown[x] ELSE NoQuote
    BY <1>3 DEF Forget, KeepOf
  <2>2. watermark'[x] # NoQuote =>
          /\ watermark'[x] = watermark[x]
          /\ watermark[x] # NoQuote /\ watermark[x].src \notin mask
    BY <2>1 DEF Kept
  <2>3. watermark'[x] # NoQuote => IsReady(watermark[x].src, watermark[x].epoch)'
    BY <1>1, <2>2, QuoteFacts DEF Tracked, IsReady
  <2>4. cache'[x].v = 2 => cache'[x] = watermark'[x]
    BY <1>1, <2>1, QuoteFacts DEF Tracked, Kept
  <2>5. cache'[x].v # 1
    BY <2>1, QuoteFacts DEF Kept
  <2>6. shown'[x] # NoQuote => shown'[x] = shown[x] /\ watermark'[x] = watermark[x]
                                 /\ shown[x] # NoQuote /\ watermark[x] # NoQuote
    BY <1>1, <2>1, QuoteFacts DEF Tracked, Kept
  <2> QED
    BY <2>2, <2>3, <2>4, <2>5, <2>6 DEF Tracked
<1> QED
  BY <1>2, <1>3

\* A quote of a ready source, after the last one.
LEMMA SnapshotTracks ==
  ASSUME TypeOK, Tracked, NEW x \in Symbols, SnapshotArrives(x)
  PROVE  Tracked'
<1> USE DEF TypeOK
<1>1. PICK s \in Sources, e \in AllEpochs, n \in 1 .. MaxSeq :
        LET q == [v |-> 2, nonce |-> nonce, src |-> s, epoch |-> e, seq |-> n] IN
          /\ IsReady(s, e) /\ Follows(x, q)
          /\ watermark' = [watermark EXCEPT ![x] = q]
          /\ \/ cache' = [cache EXCEPT ![x] = q]
             \/ cache' = [cache EXCEPT ![x] = NoQuote]
  BY DEF SnapshotArrives
<1> DEFINE q == [v |-> 2, nonce |-> nonce, src |-> s, epoch |-> e, seq |-> n]
<1>2. /\ q # NoQuote /\ q.v = 2 /\ q.nonce = nonce /\ q.src = s /\ q.epoch = e
      /\ q.seq = n
  BY DEF NoQuote
<1>3. /\ Follows(x, q) /\ watermark' = [watermark EXCEPT ![x] = q]
      /\ cache' = [cache EXCEPT ![x] = q] \/ cache' = [cache EXCEPT ![x] = NoQuote]
  BY <1>1
<1> HIDE DEF q
<1>4. UNCHANGED <<mode, nonce, phase, selected, states, shown>>
  BY DEF SnapshotArrives, session
<1>5. ASSUME NEW y \in Symbols, y # x
      PROVE  cache'[y] = cache[y] /\ watermark'[y] = watermark[y]
  BY <1>3, <1>5
<1>6. watermark'[x] = q /\ cache'[x] \in {q, NoQuote}
  BY <1>3
<1>7. shown[x] # NoQuote => /\ shown[x].nonce = nonce /\ shown[x].src = s
                            /\ shown[x].epoch = e /\ shown[x].seq <= n
  <2> SUFFICES ASSUME shown[x] # NoQuote
               PROVE  /\ shown[x].nonce = nonce /\ shown[x].src = s
                      /\ shown[x].epoch = e /\ shown[x].seq <= n
    OBVIOUS
  <2>1. /\ watermark[x] # NoQuote /\ shown[x].nonce = nonce
        /\ shown[x].src = watermark[x].src /\ shown[x].epoch = watermark[x].epoch
        /\ shown[x].seq <= watermark[x].seq
        /\ IsReady(watermark[x].src, watermark[x].epoch)
    BY DEF Tracked
  <2>2. watermark[x].src = s /\ (watermark[x].epoch = e => watermark[x].seq < n)
    BY <1>2, <1>3, <2>1 DEF Follows
  <2>3. watermark[x].epoch = e
    BY <1>1, <2>1, <2>2 DEF IsReady, Ready
  <2>4. shown[x].seq \in Nat /\ watermark[x].seq \in Nat /\ n \in Nat
    BY <2>1, QuoteFacts
  <2> QED
    BY <2>1, <2>2, <2>3, <2>4
<1>8. IsReady(s, e)
  BY <1>1
<1>9. \A u, i : IsReady(u, i)' <=> IsReady(u, i)
  BY <1>4 DEF IsReady
<1>10. ASSUME NEW y \in Symbols, y # x
       PROVE  /\ cache'[y] = cache[y] /\ watermark'[y] = watermark[y]
              /\ shown'[y] = shown[y]
              /\ watermark[y] # NoQuote => IsReady(watermark[y].src, watermark[y].epoch)'
  BY <1>4, <1>5, <1>9, <1>10 DEF Tracked
<1>11. cache'[x].v \in {0, 2} /\ (cache'[x].v = 2 => cache'[x] = q)
  BY <1>2, <1>6, QuoteFacts
<1>12. IsReady(s, e)'
  BY <1>8, <1>9
<1>13. ASSUME NEW y \in Symbols
       PROVE  /\ cache'[y].v = 2 => cache'[y] = watermark'[y]
              /\ cache'[y].v = 1 => mode' = "auto" /\ watermark'[y] = NoQuote
              /\ watermark'[y] # NoQuote =>
                   /\ watermark'[y].nonce = nonce'
                   /\ IsReady(watermark[y].src, watermark[y].epoch)'
              /\ shown'[y] # NoQuote =>
                   /\ watermark'[y] # NoQuote
                   /\ shown'[y].nonce = nonce'
                   /\ shown'[y].src = watermark'[y].src
                   /\ shown'[y].epoch = watermark'[y].epoch
                   /\ shown'[y].seq <= watermark'[y].seq
  <2>1. CASE y = x
    BY <1>2, <1>4, <1>6, <1>7, <1>11, <1>12, <2>1
  <2>2. CASE y # x
    BY <1>4, <1>10, <2>2 DEF Tracked
  <2> QED
    BY <2>1, <2>2
<1> QED
  BY <1>13 DEF Tracked, IsReady

\* A six-field quote is taken only for a symbol without full fields.
LEMMA SixFieldTracks ==
  ASSUME TypeOK, Tracked, NEW x \in Symbols, SixFieldArrives(x)
  PROVE  Tracked'
<1>1. /\ UNCHANGED <<mode, nonce, phase, selected, states, watermark, shown>>
      /\ cache' = [cache EXCEPT ![x] = [v |-> 1, nonce |-> nonce]]
      /\ TakesSixField(x)
  BY DEF SixFieldArrives, session
<1>2. mode = "auto" /\ watermark[x] = NoQuote
  <2>1. ASSUME watermark[x] # NoQuote PROVE FALSE
    <3>1. IsReady(watermark[x].src, watermark[x].epoch)
      BY <2>1 DEF Tracked
    <3>2. states[watermark[x].src].epoch = watermark[x].epoch
      BY <3>1 DEF IsReady, Ready
    <3> QED
      BY <1>1, <2>1, <3>1, <3>2 DEF TakesSixField
  <2> QED
    BY <1>1, <2>1 DEF TakesSixField
<1>3. cache'[x].v = 1 /\ \A y \in Symbols \ {x} : cache'[y] = cache[y]
  BY <1>1 DEF TypeOK
<1> QED
  BY <1>1, <1>2, <1>3 DEF Tracked, IsReady

\* A callback gets what is in the cache.
LEMMA CallbackTracks ==
  ASSUME TypeOK, Tracked, CallbackRuns
  PROVE  Tracked'
<1> DEFINE h == Head(queue)
<1>1. /\ UNCHANGED <<mode, nonce, phase, selected, states, cache, watermark>>
      /\ \/ shown' = shown
         \/ h.q.v = 2 /\ cache[h.x] = h.q /\ shown' = [shown EXCEPT ![h.x] = h.q]
  BY DEF CallbackRuns, Shows, session
<1> HIDE DEF h
<1>2. \A x \in Symbols : shown'[x] = shown[x] \/ (cache[x].v = 2 /\ shown'[x] = cache[x])
  BY <1>1 DEF TypeOK
<1>3. ASSUME NEW x \in Symbols, cache[x].v = 2
      PROVE  /\ watermark[x] = cache[x] /\ watermark[x] # NoQuote
             /\ watermark[x].seq \in Nat
  BY <1>3, QuoteFacts DEF Tracked, TypeOK
<1> QED
  BY <1>1, <1>2, <1>3 DEF Tracked, IsReady

\* A control message.
LEMMA ControlTracks ==
  ASSUME TypeOK, Tracked, ReceiveControl
  PROVE  Tracked'
<1> DEFINE m == Head(down)
<1>1. /\ mode' = mode
      /\ \/ HandleAck(m) /\ phase = "waiting_ack"
         \/ HandleStatus(m) /\ phase = "active"
         \/ HandleBad \/ HandleOversized
         \/ UNCHANGED <<faults, session, cut, up, quotes>>
  BY DEF ReceiveControl, AnswersOffer, IsNews
<1> HIDE DEF m
<1>2. CASE HandleAck(m) /\ phase = "waiting_ack"
  <2>1. \A x \in Symbols : watermark[x] = NoQuote /\ shown[x] = NoQuote /\ cache[x].v # 2
    BY <1>2, QuoteFacts DEF Tracked, IsReady
  <2>2. CASE UNCHANGED quotes
    BY <1>1, <2>1, <2>2 DEF quotes, Tracked
  <2>3. CASE ForgetAll
    BY <2>3, ForgetAllTracks
  <2>4. CASE Forget(m.selected) /\ m.selected # {}
    <3>1. ForgetAll
      BY <2>1, <2>4, QuoteFacts DEF Forget, KeepOf, Kept, ForgetAll, Nothing
    <3> QED
      BY <3>1, ForgetAllTracks
  <2> QED
    BY <1>2, <2>2, <2>3, <2>4 DEF HandleAck
<1>3. CASE HandleStatus(m) /\ phase = "active"
  <2>1. /\ Forget(Changed(m.states)) /\ UNCHANGED <<mode, nonce, phase, selected>>
        /\ states' = m.states
    BY <1>1, <1>3 DEF HandleStatus
  <2>2. ASSUME NEW s \in Sources \ Changed(m.states), NEW e \in AllEpochs,
               IsReady(s, e)
        PROVE  IsReady(s, e)'
    BY <2>1, <2>2 DEF Changed, IsReady
  <2>3. QuoteTypes
    BY TypesByPart
  <2> QED
    BY <2>1, <2>2, <2>3, ForgetTracks
<1>4. CASE HandleBad \/ HandleOversized
  BY <1>4, ForgetAllTracks DEF HandleBad, CloseSession, HandleOversized
<1>5. CASE UNCHANGED <<faults, session, cut, up, quotes>>
  BY <1>1, <1>5, IdleTracks DEF session, quotes
<1> QED
  BY <1>1, <1>2, <1>3, <1>4, <1>5

\* Every step keeps the cache right.
LEMMA StepTracks ==
  ASSUME TypeOK, Tracked, [Next]_vars
  PROVE  Tracked'
<1>1. CASE \/ Break \/ Open \/ FinishRestore \/ RestoreFails \/ CloseTransport
           \/ CloudReceives \/ CloudTimesOut \/ CloudPublishes \/ BadControl
           \/ \E h \in handing : Dispatch(h)
  BY <1>1, IdleTracks DEF Break, Open, FinishRestore, RestoreFails, CloseTransport,
       CloudReceives, CloudTimesOut, CloudPublishes, BadControl, CloudUnchanged,
       Dispatch, session, quotes
<1>2. CASE ReconnectReset \/ CloseReset \/ AuthEnds \/ MapChanges
  BY <1>2, ForgetAllTracks DEF ReconnectReset, CloseReset, AuthEnds, MapChanges,
                               ResetRealtime
<1>3. ASSUME NEW g \in Generations, CallbackReset(g)
      PROVE  Tracked'
  <2>1. CASE UNCHANGED <<session, quotes, handing, queue>>
    BY <1>3, <2>1, IdleTracks DEF CallbackReset, session, quotes
  <2>2. CASE ResetRealtime
    BY <2>2, ForgetAllTracks DEF ResetRealtime
  <2> QED
    BY <1>3, <2>1, <2>2 DEF CallbackReset
<1>4. CASE AuthGranted
  <2>1. CASE Current
    BY <1>4, <2>1, IdleTracks DEF AuthGranted, Begin, session, quotes
  <2>2. CASE ~Current
    BY <1>4, <2>2, ForgetAllTracks DEF AuthGranted, Begin
  <2> QED
    BY <2>1, <2>2
<1>5. CASE Timeout
  <2>1. /\ \A x \in Symbols : watermark[x] = NoQuote /\ shown[x] = NoQuote
                                /\ cache[x].v # 2
        /\ UNCHANGED <<mode, cache, watermark, shown>>
    BY <1>5, QuoteFacts DEF Timeout, Tracked, IsReady, quotes
  <2> QED
    BY <2>1 DEF Tracked
<1>6. CASE UNCHANGED vars
  BY <1>6, IdleTracks DEF vars
<1> QED
  BY <1>1, <1>2, <1>3, <1>4, <1>5, <1>6, ControlTracks, SnapshotTracks, SixFieldTracks,
     CallbackTracks DEF Next

\* The inductive invariant of the quotes holds in every behaviour.
LEMMA TrackedCorrect == Spec => [](TypeOK /\ Tracked)
<1>1. Init => Tracked
  BY ForgetAllTracks, QuoteFacts DEF Init, Nothing, Tracked
<1> QED
  BY <1>1, StepTracks, TypeCorrect, PTL DEF Spec

\* A full-field quote in the cache is of this negotiation, and its source is ready now
\* in its epoch.
THEOREM CacheStaysCurrent == Spec => []CacheIsCurrent
<1>1. Tracked => CacheIsCurrent
  <2> SUFFICES ASSUME Tracked, NEW x \in Symbols, cache[x].v = 2
               PROVE  /\ cache[x].nonce = nonce
                      /\ IsReady(cache[x].src, cache[x].epoch)
    BY DEF CacheIsCurrent
  <2>1. cache[x] = watermark[x] /\ watermark[x] # NoQuote
    BY QuoteFacts DEF Tracked
  <2> QED
    BY <2>1 DEF Tracked
<1> QED
  BY <1>1, TrackedCorrect, PTL

\* No six-field quote in required_v2, nor for a symbol that has full fields.
THEOREM NeverDowngrades == Spec => []NoDowngrade
<1>1. Tracked => NoDowngrade
  BY DEF Tracked, NoDowngrade
<1> QED
  BY <1>1, TrackedCorrect, PTL

\* What a step may show: the quote in the cache, or nothing.
LEMMA ShowsCached ==
  ASSUME TypeOK, Tracked, [Next]_vars, NEW x \in Symbols,
         shown'[x] \notin {shown[x], NoQuote}
  PROVE  cache[x].v = 2 /\ shown'[x] = cache[x]
<1>1. CallbackRuns
  <2> USE DEF TypeOK
  <2>1. ASSUME ForgetAll PROVE FALSE
    BY <2>1 DEF ForgetAll, Nothing
  <2>2. ASSUME NEW mask, Forget(mask) PROVE FALSE
    BY <2>2 DEF Forget, KeepOf, quotes
  <2>3. ~(shown' = shown)
    OBVIOUS
  <2>4. ~(Break \/ Open \/ FinishRestore \/ RestoreFails \/ CloseTransport
           \/ CloudReceives \/ CloudTimesOut \/ CloudPublishes \/ BadControl
           \/ Timeout \/ (\E h \in handing : Dispatch(h))
           \/ (\E y \in Symbols : SnapshotArrives(y) \/ SixFieldArrives(y)))
    BY <2>3 DEF Break, Open, FinishRestore, RestoreFails, CloseTransport, CloudReceives,
                CloudTimesOut, CloudPublishes, BadControl, CloudUnchanged, Dispatch,
                Timeout, SnapshotArrives, SixFieldArrives, quotes
  <2>5. ~(ReconnectReset \/ CloseReset \/ AuthEnds \/ MapChanges
           \/ (\E g \in Generations : CallbackReset(g)))
    BY <2>1, <2>3 DEF ReconnectReset, CloseReset, AuthEnds, MapChanges, CallbackReset,
                      ResetRealtime, quotes
  <2>6. ~AuthGranted
    BY <2>1, <2>3 DEF AuthGranted, Begin, quotes
  <2>7. ~ReceiveControl
    BY <2>1, <2>2, <2>3 DEF ReceiveControl, HandleAck, HandleStatus, HandleBad,
                            CloseSession, HandleOversized, quotes
  <2>8. ~UNCHANGED vars
    BY <2>3 DEF vars
  <2> QED
    BY <2>4, <2>5, <2>6, <2>7, <2>8 DEF Next
<1> DEFINE h == Head(queue)
<1>2. \/ shown' = shown
      \/ h.q.v = 2 /\ cache[h.x] = h.q /\ shown' = [shown EXCEPT ![h.x] = h.q]
  BY <1>1 DEF CallbackRuns, Shows
<1> QED
  BY <1>2 DEF TypeOK

\* A callback is shown a quote only while its source is ready, in this negotiation.
THEOREM ShownWhileReady == Spec => ShownIsReady
<1>1. TypeOK /\ Tracked /\ [Next]_vars =>
        [\A x \in Symbols :
           shown'[x] \notin {shown[x], NoQuote} =>
             shown'[x].nonce = nonce /\ IsReady(shown'[x].src, shown'[x].epoch)]_vars
  <2> SUFFICES ASSUME TypeOK, Tracked, [Next]_vars, NEW x \in Symbols,
                      shown'[x] \notin {shown[x], NoQuote}
               PROVE  shown'[x].nonce = nonce /\ IsReady(shown'[x].src, shown'[x].epoch)
    OBVIOUS
  <2>1. cache[x].v = 2 /\ shown'[x] = cache[x]
    BY ShowsCached
  <2>2. cache[x] = watermark[x] /\ watermark[x] # NoQuote
    BY <2>1, QuoteFacts DEF Tracked
  <2> QED
    BY <2>1, <2>2 DEF Tracked
<1> QED
  BY <1>1, TrackedCorrect, PTL DEF Spec, ShownIsReady

\* The quotes of a symbol are shown in order, within an epoch of their source.
THEOREM ShowsInOrder == Spec => ShowsForward
<1>1. TypeOK /\ Tracked /\ [Next]_vars =>
        [\A x \in Symbols :
           /\ shown'[x] # shown[x]
           /\ NoQuote \notin {shown[x], shown'[x]}
           /\ shown'[x].epoch = shown[x].epoch
           => shown'[x].seq > shown[x].seq]_vars
  <2> SUFFICES ASSUME TypeOK, Tracked, [Next]_vars, NEW x \in Symbols,
                      shown'[x] # shown[x], NoQuote \notin {shown[x], shown'[x]}
               PROVE  shown'[x].seq > shown[x].seq
    OBVIOUS
  <2>1. cache[x].v = 2 /\ shown'[x] = cache[x]
    BY ShowsCached
  <2>2. /\ cache[x] = watermark[x] /\ watermark[x] # NoQuote
        /\ watermark[x].nonce = nonce
    BY <2>1, QuoteFacts DEF Tracked
  <2>3. /\ shown[x].nonce = nonce /\ shown[x].src = watermark[x].src
        /\ shown[x].epoch = watermark[x].epoch /\ shown[x].seq <= watermark[x].seq
    BY DEF Tracked
  <2>4. shown[x] \in FullField /\ watermark[x] \in FullField
    BY <2>2 DEF TypeOK
  <2>5. shown[x].seq # watermark[x].seq
    BY <2>1, <2>2, <2>3, <2>4 DEF FullField
  <2>6. shown[x].seq \in Nat /\ watermark[x].seq \in Nat
    BY <2>4, QuoteFacts
  <2> QED
    BY <2>1, <2>2, <2>3, <2>5, <2>6
<1> QED
  BY <1>1, TrackedCorrect, PTL DEF Spec, ShowsForward

-----------------------------------------------------------------------------
(***************************************************************************)
(* The two ends.  Agreement rests on what is under way between them: an    *)
(* ACK repeats what the cloud has noted, which notes one OFFER only; a     *)
(* COMMIT of the present negotiation comes from a session that is active.  *)
(***************************************************************************)
AckIsTrue(c, m) ==
  /\ m.nonce = c.nonce
  /\ m.selected = c.selected
  /\ c.phase \notin {"idle", "old"}
  /\ m.selected # {} => c.phase \in {"waiting_commit", "active", "closed"}

AcksAreTrue(c, w) == \A i \in 1 .. Len(w) : w[i].kind = "ack" => AckIsTrue(c, w[i])

Begun(w, n) == \A i \in 1 .. Len(w) : w[i].nonce <= n

NoCommit(w, n) == \A i \in 1 .. Len(w) : ~(w[i].kind = "commit" /\ w[i].nonce = n)

WireInv ==
  /\ bound <= generation
  /\ cloud.nonce <= nonce
  /\ connected \/ (up = <<>> /\ down = <<>>)
  /\ Begun(up, nonce)
  /\ (Linked /\ phase \notin {"active", "closed"}) => NoCommit(up, nonce)
  /\ AcksAreTrue(cloud, down)
  /\ Agreement

\* What the wires to the cloud say, when one more message is sent or one is taken.
LEMMA UpWire ==
  ASSUME NEW w \in Seq(UpMessage), NEW n \in Nat
  PROVE  /\ Begun(<<>>, n) /\ NoCommit(<<>>, n)
         /\ Begun(w, n) => Begun(w, n + 1) /\ NoCommit(w, n + 1)
         /\ \A m \in UpMessage :
              /\ Begun(w, n) /\ m.nonce <= n => Begun(Append(w, m), n)
              /\ NoCommit(w, n) /\ m.kind # "commit" => NoCommit(Append(w, m), n)
         /\ w # <<>> => /\ Head(w) \in UpMessage
                        /\ Begun(w, n) => Begun(Tail(w), n) /\ Head(w).nonce <= n
                        /\ NoCommit(w, n) =>
                             /\ NoCommit(Tail(w), n)
                             /\ ~(Head(w).kind = "commit" /\ Head(w).nonce = n)
<1>1. Begun(<<>>, n) /\ NoCommit(<<>>, n)
  BY DEF Begun, NoCommit
<1>2. \A i \in 1 .. Len(w) : w[i].nonce \in Nat
  <2>1. \A i \in 1 .. Len(w) : w[i] \in UpMessage
    OBVIOUS
  <2>2. \A m \in UpMessage : m.nonce \in Nat
    BY DEF UpMessage
  <2> QED
    BY <2>1, <2>2
<1>3. Begun(w, n) => Begun(w, n + 1) /\ NoCommit(w, n + 1)
  BY <1>2 DEF Begun, NoCommit
<1>4. ASSUME NEW m \in UpMessage
      PROVE  /\ Begun(w, n) /\ m.nonce <= n => Begun(Append(w, m), n)
             /\ NoCommit(w, n) /\ m.kind # "commit" => NoCommit(Append(w, m), n)
  <2>1. \A i \in 1 .. Len(Append(w, m)) :
          Append(w, m)[i] = m \/ (i \in 1 .. Len(w) /\ Append(w, m)[i] = w[i])
    OBVIOUS
  <2> QED
    BY <2>1 DEF Begun, NoCommit
<1>5. ASSUME w # <<>>
      PROVE  /\ Head(w) \in UpMessage
             /\ Begun(w, n) => Begun(Tail(w), n) /\ Head(w).nonce <= n
             /\ NoCommit(w, n) =>
                  /\ NoCommit(Tail(w), n)
                  /\ ~(Head(w).kind = "commit" /\ Head(w).nonce = n)
  <2>1. /\ \A i \in 1 .. Len(Tail(w)) : Tail(w)[i] = w[i + 1] /\ i + 1 \in 1 .. Len(w)
        /\ Head(w) = w[1] /\ 1 \in 1 .. Len(w) /\ Head(w) \in UpMessage
    BY <1>5
  <2> QED
    BY <2>1 DEF Begun, NoCommit
<1> QED
  BY <1>1, <1>3, <1>4, <1>5

\* The same for the wire to the SDK.
LEMMA DownWire ==
  ASSUME NEW w \in Seq(DownMessage), NEW c
  PROVE  /\ AcksAreTrue(c, <<>>)
         /\ \A m : AcksAreTrue(c, w) /\ (m.kind = "ack" => AckIsTrue(c, m)) =>
                     AcksAreTrue(c, Append(w, m))
         /\ AcksAreTrue(c, w) /\ w # <<>> =>
              /\ AcksAreTrue(c, Tail(w))
              /\ Head(w).kind = "ack" => AckIsTrue(c, Head(w))
<1>1. AcksAreTrue(c, <<>>)
  BY DEF AcksAreTrue
<1>2. ASSUME NEW m, AcksAreTrue(c, w), m.kind = "ack" => AckIsTrue(c, m)
      PROVE  AcksAreTrue(c, Append(w, m))
  <2>1. \A i \in 1 .. Len(Append(w, m)) :
          Append(w, m)[i] = m \/ (i \in 1 .. Len(w) /\ Append(w, m)[i] = w[i])
    OBVIOUS
  <2> QED
    BY <1>2, <2>1 DEF AcksAreTrue
<1>3. ASSUME AcksAreTrue(c, w), w # <<>>
      PROVE  /\ AcksAreTrue(c, Tail(w))
             /\ Head(w).kind = "ack" => AckIsTrue(c, Head(w))
  <2>1. /\ \A i \in 1 .. Len(Tail(w)) : Tail(w)[i] = w[i + 1] /\ i + 1 \in 1 .. Len(w)
        /\ Head(w) = w[1] /\ 1 \in 1 .. Len(w)
    BY <1>3
  <2> QED
    BY <1>3, <2>1 DEF AcksAreTrue
<1> QED
  BY <1>1, <1>2, <1>3

\* An ACK is as true as before when the cloud keeps what it has agreed to.
LEMMA AcksStayTrue ==
  ASSUME NEW w, NEW c, NEW d, AcksAreTrue(c, w),
         d.nonce = c.nonce, d.selected = c.selected,
         d.phase = c.phase \/ (/\ c.phase = "waiting_commit"
                               /\ d.phase \in {"active", "closed"})
  PROVE  AcksAreTrue(d, w)
BY DEF AcksAreTrue, AckIsTrue

\* Without a transport of its own, the session has nothing to agree on.
LEMMA ApartAgrees ==
  ASSUME TypeOK, WireInv, UNCHANGED nonce, ~Linked', bound' <= generation',
         \/ cloud' \in {NewCloud("idle"), NewCloud("old")} /\ up' = <<>> /\ down' = <<>>
         \/ UNCHANGED <<wires, connected>>
  PROVE  WireInv'
<1>1. Agreement'
  BY DEF Agreement
<1>2. nonce \in Nat /\ NewCloud("idle").nonce = 0 /\ NewCloud("old").nonce = 0
  BY DEF TypeOK, NewCloud
<1>3. CASE cloud' \in {NewCloud("idle"), NewCloud("old")} /\ up' = <<>> /\ down' = <<>>
  <2>1. Begun(<<>>, nonce) /\ AcksAreTrue(cloud', <<>>)
    BY DEF Begun, AcksAreTrue
  <2> QED
    BY <1>1, <1>2, <1>3, <2>1 DEF WireInv
<1>4. CASE UNCHANGED <<wires, connected>>
  BY <1>1, <1>4 DEF WireInv, wires
<1> QED
  BY <1>3, <1>4

\* A step that neither the wires nor the negotiation take part in.
LEMMA IdleAgrees ==
  ASSUME WireInv, UNCHANGED <<generation, connected, nonce, bound, phase, selected,
                              wires>>
  PROVE  WireInv'
BY DEF WireInv, wires, Agreement, Linked

\* A new OFFER: whatever is under way is of an earlier negotiation.
LEMMA AuthAgrees ==
  ASSUME TypeOK, WireInv, AuthGranted
  PROVE  WireInv'
<1>1. CASE Current
  BY <1>1, IdleAgrees DEF AuthGranted, Begin, session, wires
<1>2. CASE ~Current
  <2> DEFINE o == [kind |-> "offer", nonce |-> nonce + 1]
  <2>1. /\ nonce' = nonce + 1 /\ bound' = generation /\ generation' = generation
        /\ connected' = connected /\ cloud' = cloud /\ down' = down /\ connected
        /\ \/ phase' = "waiting_ack" /\ up' = Append(up, o)
           \/ phase' = "closed" /\ up' = up
    BY <1>2 DEF AuthGranted, Begin, Receiving
  <2>2. /\ nonce \in Nat /\ generation \in Nat /\ cloud.nonce \in Nat
        /\ up \in Seq(UpMessage) /\ o \in UpMessage
        /\ o.kind = "offer" /\ o.nonce <= nonce + 1
    BY BoundAssumption DEF TypeOK, Cloud, Generations, UpMessage
  <2> HIDE DEF o
  <2>3. Begun(up, nonce + 1) /\ NoCommit(up, nonce + 1)
    BY <2>2, UpWire DEF WireInv
  <2>4. Begun(Append(up, o), nonce + 1) /\ NoCommit(Append(up, o), nonce + 1)
    BY <2>2, <2>3, UpWire
  <2>5. Begun(up', nonce') /\ NoCommit(up', nonce')
    BY <2>1, <2>3, <2>4
  <2>6. cloud'.nonce <= nonce' /\ cloud'.nonce # nonce' /\ bound' <= generation'
    BY <2>1, <2>2 DEF WireInv
  <2>7. Agreement'
    BY <2>1, <2>6 DEF Agreement
  <2> QED
    BY <2>1, <2>5, <2>6, <2>7 DEF WireInv
<1> QED
  BY <1>1, <1>2

\* An ACK for the present OFFER makes the session active, on what the cloud agreed to.
LEMMA ControlAgrees ==
  ASSUME TypeOK, WireInv, ReceiveControl
  PROVE  WireInv'
<1> DEFINE m == Head(down)
<1>1. /\ down' = Tail(down) /\ down # <<>>
      /\ generation' = generation /\ connected' = connected /\ cloud' = cloud /\ connected
      /\ \/ HandleAck(m) /\ phase = "waiting_ack" /\ m.kind = "ack" /\ m.nonce = nonce
         \/ UNCHANGED <<nonce, bound, phase, selected, up>>
         \/ /\ UNCHANGED <<nonce, bound, selected, up>> /\ phase' = "closed"
            /\ phase \in {"waiting_ack", "active"}
  BY DEF ReceiveControl, AnswersOffer, IsNews, Receiving, HandleStatus, HandleBad,
         CloseSession, HandleOversized, session
<1>2. /\ m.kind = "ack" => AckIsTrue(cloud, m)
      /\ AcksAreTrue(cloud', down')
  <2>1. down \in Seq(DownMessage)
    BY DEF TypeOK
  <2> QED
    BY <1>1, <2>1, DownWire DEF WireInv
<1> HIDE DEF m
<1>4. CASE UNCHANGED <<nonce, bound, phase, selected, up>>
  BY <1>1, <1>2, <1>4 DEF WireInv, Agreement, Linked
<1>5. CASE /\ UNCHANGED <<nonce, bound, selected, up>> /\ phase' = "closed"
           /\ phase \in {"waiting_ack", "active"}
  BY <1>1, <1>2, <1>5 DEF WireInv, Agreement, Linked
<1>6. CASE HandleAck(m) /\ phase = "waiting_ack" /\ m.kind = "ack" /\ m.nonce = nonce
  <2> DEFINE c == [kind |-> "commit", nonce |-> nonce]
  <2>1. /\ nonce' = nonce /\ bound' = bound /\ selected' = m.selected
        /\ \/ m.selected = {} /\ phase' = "fallback" /\ up' = up
           \/ m.selected # {} /\ phase' = "active" /\ up' = Append(up, c)
           \/ m.selected # {} /\ phase' = "closed" /\ up' = up
    BY <1>6 DEF HandleAck
  <2>2. /\ nonce \in Nat /\ up \in Seq(UpMessage) /\ c \in UpMessage /\ c.nonce <= nonce
    BY DEF TypeOK, UpMessage
  <2> HIDE DEF c
  <2>3. AckIsTrue(cloud, m) /\ m.nonce = nonce
    BY <1>2, <1>6
  <2>4. Linked' = Linked
    BY <1>1, <2>1 DEF Linked
  <2>5. Linked => cloud.phase # "active"
    BY <1>6, <2>3 DEF WireInv, Agreement, AckIsTrue
  <2>6. Agreement'
    BY <1>1, <2>1, <2>3, <2>4, <2>5 DEF Agreement, AckIsTrue
  <2>7. Begun(up', nonce')
    <3>1. Begun(up, nonce)
      BY DEF WireInv
    <3>2. Begun(Append(up, c), nonce)
      BY <2>2, <3>1, UpWire
    <3> QED
      BY <2>1, <3>1, <3>2
  <2>8. (Linked' /\ phase' \notin {"active", "closed"}) => NoCommit(up', nonce')
    BY <1>6, <2>1, <2>4 DEF WireInv
  <2> QED
    BY <1>1, <1>2, <2>1, <2>6, <2>7, <2>8 DEF WireInv
<1> QED
  BY <1>1, <1>4, <1>5, <1>6

\* What the cloud does keeps the agreement if it keeps its wires, its nonce, and what
\* the SDK has of it.
LEMMA CloudKeeps ==
  ASSUME WireInv, UNCHANGED <<generation, connected, nonce, bound, phase, selected>>,
         connected, Begun(up', nonce), cloud'.nonce <= nonce,
         NoCommit(up, nonce) => NoCommit(up', nonce), AcksAreTrue(cloud', down'),
         Linked => \/ phase # "active"
                   \/ /\ cloud'.nonce = cloud.nonce /\ cloud'.selected = cloud.selected
                      /\ cloud'.phase \in {"waiting_commit", "active", "closed"},
         (Linked /\ cloud'.phase = "active" /\ cloud'.nonce = nonce) =>
            phase \in {"active", "closed"}
  PROVE  WireInv'
<1>1. Linked' = Linked
  BY DEF Linked
<1>2. Agreement'
  BY <1>1 DEF WireInv, Agreement
<1> QED
  BY <1>1, <1>2 DEF WireInv

\* The cloud answers one OFFER, and believes one COMMIT.
LEMMA CloudReceivesAgrees ==
  ASSUME TypeOK, WireInv, CloudReceives
  PROVE  WireInv'
<1> DEFINE m == Head(up)
<1>1. /\ UNCHANGED <<generation, connected, nonce, bound, phase, selected>> /\ connected
      /\ up # <<>> /\ up' = Tail(up)
      /\ \/ m.kind = "offer" /\ cloud.phase = "idle" /\
            \E common \in SUBSET Sources :
              /\ cloud' = [cloud EXCEPT !.phase = IF common = {} THEN "fallback"
                                                  ELSE "waiting_commit",
                                        !.nonce = m.nonce, !.selected = common]
              /\ Tell([kind |-> "ack", nonce |-> m.nonce, selected |-> common,
                       states |-> AllDown, revision |-> 0])
         \/ /\ m.kind = "commit" /\ cloud.phase = "waiting_commit"
            /\ m.nonce = cloud.nonce
            /\ cloud' = [cloud EXCEPT !.phase = "active"] /\ down' = down
         \/ cloud' = cloud /\ down' = down
  BY DEF CloudReceives, CloudUnchanged, link, session
<1>2. /\ nonce \in Nat /\ cloud \in Cloud /\ up \in Seq(UpMessage)
      /\ down \in Seq(DownMessage)
  BY DEF TypeOK
<1>3. /\ m \in UpMessage /\ m.nonce <= nonce /\ Begun(up', nonce)
      /\ NoCommit(up, nonce) =>
           NoCommit(up', nonce) /\ ~(m.kind = "commit" /\ m.nonce = nonce)
  BY <1>1, <1>2, UpWire DEF WireInv
<1> HIDE DEF m
<1>4. (Linked /\ m.kind = "commit" /\ m.nonce = nonce) => phase \in {"active", "closed"}
  BY <1>3 DEF WireInv
<1>5. CASE cloud' = cloud /\ down' = down
  BY <1>1, <1>3, <1>5, CloudKeeps DEF WireInv, Agreement
<1>6. CASE /\ m.kind = "commit" /\ cloud.phase = "waiting_commit"
           /\ m.nonce = cloud.nonce
           /\ cloud' = [cloud EXCEPT !.phase = "active"] /\ down' = down
  <2>1. /\ cloud'.phase = "active" /\ cloud'.nonce = cloud.nonce
        /\ cloud'.selected = cloud.selected
    BY <1>2, <1>6 DEF Cloud
  <2>2. AcksAreTrue(cloud', down')
    BY <1>6, <2>1, AcksStayTrue DEF WireInv
  <2>3. cloud'.nonce <= nonce
    BY <2>1 DEF WireInv
  <2>4. (Linked /\ cloud'.phase = "active" /\ cloud'.nonce = nonce) =>
           phase \in {"active", "closed"}
    BY <1>4, <1>6, <2>1
  <2> QED
    BY <1>1, <1>3, <2>1, <2>2, <2>3, <2>4, CloudKeeps
<1>7. ASSUME m.kind = "offer", cloud.phase = "idle", NEW common \in SUBSET Sources,
             cloud' = [cloud EXCEPT !.phase = IF common = {} THEN "fallback"
                                              ELSE "waiting_commit",
                                    !.nonce = m.nonce, !.selected = common],
             Tell([kind |-> "ack", nonce |-> m.nonce, selected |-> common,
                   states |-> AllDown, revision |-> 0])
      PROVE  WireInv'
  <2>1. /\ cloud'.phase = IF common = {} THEN "fallback" ELSE "waiting_commit"
        /\ cloud'.nonce = m.nonce /\ cloud'.selected = common
    BY <1>2, <1>7 DEF Cloud
  <2>2. Linked => phase # "active"
    BY <1>7 DEF WireInv, Agreement
  <2>3. \A i \in 1 .. Len(down) : down[i].kind # "ack"
    BY <1>7 DEF WireInv, AcksAreTrue, AckIsTrue
  <2> DEFINE a == [kind |-> "ack", nonce |-> m.nonce, selected |-> common,
                   states |-> AllDown, revision |-> 0]
  <2>4. AckIsTrue(cloud', a)
    BY <2>1 DEF AckIsTrue
  <2>5. down' = Append(down, a)
    BY <1>7 DEF Tell
  <2> HIDE DEF a
  <2>6. AcksAreTrue(cloud', down)
    BY <2>3 DEF AcksAreTrue
  <2>7. AcksAreTrue(cloud', down')
    BY <1>2, <2>4, <2>5, <2>6, DownWire
  <2>8. cloud'.nonce <= nonce /\ cloud'.phase # "active"
    BY <1>3, <2>1
  <2> QED
    BY <1>1, <1>3, <2>2, <2>7, <2>8, CloudKeeps
<1> QED
  BY <1>1, <1>5, <1>6, <1>7

\* What the cloud does on its own.
LEMMA CloudAgrees ==
  ASSUME TypeOK, WireInv, CloudTimesOut \/ CloudPublishes \/ BadControl
  PROVE  WireInv'
<1>1. /\ UNCHANGED <<generation, connected, nonce, bound, phase, selected, up>>
      /\ connected
  BY DEF CloudTimesOut, CloudPublishes, BadControl, CloudUnchanged, link, session
<1>2. /\ cloud \in Cloud /\ down \in Seq(DownMessage)
  BY DEF TypeOK
<1>3. /\ cloud'.nonce = cloud.nonce /\ cloud'.selected = cloud.selected
      /\ \/ cloud'.phase = cloud.phase
         \/ cloud.phase = "waiting_commit" /\ cloud'.phase = "closed"
  BY <1>2 DEF CloudTimesOut, CloudPublishes, BadControl, Cloud
<1>4. down' = down \/ \E m : m.kind # "ack" /\ down' = Append(down, m)
  <2>1. CASE CloudTimesOut
    BY <2>1 DEF CloudTimesOut
  <2>2. CASE CloudPublishes
    <3>1. PICK new : Tell([kind |-> "status", nonce |-> cloud.nonce, selected |-> {},
                           states |-> new, revision |-> cloud'.revision])
      BY <2>2 DEF CloudPublishes
    <3> QED
      BY <3>1 DEF Tell
  <2>3. CASE BadControl
    <3>1. PICK k \in {"bad", "oversized"} :
            Tell([kind |-> k, nonce |-> 0, selected |-> {}, states |-> AllDown,
                  revision |-> 0])
      BY <2>3 DEF BadControl
    <3> QED
      BY <3>1 DEF Tell
  <2> QED
    BY <2>1, <2>2, <2>3
<1>5. AcksAreTrue(cloud', down)
  BY <1>3, AcksStayTrue DEF WireInv
<1>6. AcksAreTrue(cloud', down')
  BY <1>2, <1>4, <1>5, DownWire
<1>7. /\ Begun(up', nonce) /\ cloud'.nonce <= nonce
      /\ NoCommit(up, nonce) => NoCommit(up', nonce)
  BY <1>1, <1>3 DEF WireInv
<1>8. /\ Linked => \/ phase # "active"
                   \/ /\ cloud'.nonce = cloud.nonce /\ cloud'.selected = cloud.selected
                      /\ cloud'.phase \in {"waiting_commit", "active", "closed"}
      /\ (Linked /\ cloud'.phase = "active" /\ cloud'.nonce = nonce) =>
           phase \in {"active", "closed"}
  BY <1>3 DEF WireInv, Agreement
<1> QED
  BY <1>1, <1>6, <1>7, <1>8, CloudKeeps

\* Every step keeps what is under way true.
LEMMA StepAgrees ==
  ASSUME TypeOK, WireInv, [Next]_vars
  PROVE  WireInv'
<1>1. generation \in Nat \ {0} /\ bound <= generation /\ bound \in Nat
  BY BoundAssumption DEF TypeOK, Generations, WireInv
<1>2. CASE Break \/ RestoreFails \/ CloseTransport
  BY <1>1, <1>2, ApartAgrees DEF Break, RestoreFails, CloseTransport, HangUp, Linked,
                                 session
<1>3. CASE Open
  <2>1. up = <<>> /\ down = <<>>
    BY <1>3 DEF Open, WireInv
  <2>2. /\ ~Linked' /\ bound' <= generation' /\ UNCHANGED nonce
        /\ up' = <<>> /\ down' = <<>>
        /\ cloud' \in {NewCloud("idle"), NewCloud("old")}
    BY <1>1, <1>3, <2>1 DEF Open, Linked, session
  <2> QED
    BY <2>2, ApartAgrees
<1>4. ASSUME ResetRealtime, UNCHANGED <<generation, connected, wires>>
      PROVE  WireInv'
  BY <1>1, <1>4, ApartAgrees DEF ResetRealtime, Linked
<1>5. CASE ReconnectReset \/ CloseReset \/ AuthEnds
  BY <1>4, <1>5 DEF ReconnectReset, CloseReset, AuthEnds
<1>6. ASSUME NEW g \in Generations, CallbackReset(g)
      PROVE  WireInv'
  BY <1>4, <1>6, IdleAgrees DEF CallbackReset, session
<1>7. CASE \/ FinishRestore \/ MapChanges \/ CallbackRuns
           \/ \E x \in Symbols : SnapshotArrives(x) \/ SixFieldArrives(x)
           \/ \E h \in handing : Dispatch(h)
  BY <1>7, IdleAgrees DEF FinishRestore, MapChanges, CallbackRuns, SnapshotArrives,
                          SixFieldArrives, Dispatch, link, session
<1>8. CASE Timeout
  <2>1. /\ phase = "waiting_ack" /\ phase' = "fallback"
        /\ UNCHANGED <<generation, connected, nonce, bound, selected, wires>>
    BY <1>8 DEF Timeout, link
  <2>2. Linked => NoCommit(up, nonce)
    BY <2>1 DEF WireInv
  <2> QED
    BY <2>1, <2>2 DEF WireInv, wires, Agreement, Linked
<1>9. CASE UNCHANGED vars
  BY <1>9, IdleAgrees DEF vars, wires
<1> QED
  BY <1>2, <1>3, <1>5, <1>6, <1>7, <1>8, <1>9, AuthAgrees, ControlAgrees,
     CloudReceivesAgrees, CloudAgrees DEF Next

\* The SDK and the cloud agree on the negotiation and on its sources.
THEOREM EndsAgree == Spec => []Agreement
<1>1. Init => WireInv
  <2> SUFFICES ASSUME Init
               PROVE  WireInv
    OBVIOUS
  <2>1. /\ bound = 0 /\ generation = 1 /\ nonce = 0 /\ up = <<>> /\ down = <<>>
        /\ cloud.nonce = 0
    BY DEF Init, NewCloud
  <2>2. Begun(<<>>, nonce) /\ AcksAreTrue(cloud, <<>>)
    BY DEF Begun, AcksAreTrue
  <2>3. ~Linked
    BY <2>1 DEF Linked
  <2> QED
    BY <2>1, <2>2, <2>3 DEF WireInv, Agreement
<1>2. TypeOK /\ WireInv /\ [Next]_vars => WireInv'
  BY StepAgrees
<1>3. WireInv => Agreement
  BY DEF WireInv
<1> QED
  BY <1>1, <1>2, <1>3, TypeCorrect, PTL DEF Spec

===============================================================================
