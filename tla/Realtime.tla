------------------------------- MODULE Realtime -------------------------------
(***************************************************************************)
(* Full-field quotes of one client: the negotiation between the Session of *)
(* the SDK and the Session of the cloud, the states of the sources, the    *)
(* cache of the latest quotes with its watermarks, and the queue of the    *)
(* callback thread, over transports that are lost and reopened.            *)
(*                                                                         *)
(* Everything the SDK does to its session and its cache happens under      *)
(* _realtime_lock, so an action is what one thread does while it holds the *)
(* lock, its control send included; handing a quote to the callbacks comes *)
(* after the lock is released.  Control messages arrive in order.  What    *)
(* snapshots arrive, and when, is up to the relay: any source, epoch and   *)
(* sequence, repeated or out of order.                                     *)
(***************************************************************************)
EXTENDS Naturals, FiniteSets, Sequences

CONSTANTS
  Symbols,
  Sources,        \* tables a snapshot may come from
  MaxGeneration,  \* bound: transports opened
  Epochs,         \* bound: source -> the epochs it may have
  MaxSeq,         \* bound: sequence numbers of snapshots
  MaxRevision,    \* bound: source states published
  MaxWire,        \* bound: control messages on the way to the SDK
  QueueLimit,     \* capacity of the callback queue
  MaxFaults       \* bound: things that go wrong, see faults

ASSUME BoundAssumption ==
  /\ MaxGeneration \in Nat \ {0}
  /\ Epochs \in [Sources -> SUBSET (Nat \ {0})]
  /\ MaxSeq \in Nat \ {0}
  /\ MaxRevision \in Nat
  /\ MaxWire \in Nat \ {0}
  /\ QueueLimit \in Nat \ {0}
  /\ MaxFaults \in Nat

VARIABLES
  mode,         \* realtime_protocol of the client
  generation,   \* of the transport
  connected,
  cut,          \* the client has shut the socket of the transport down
  owed,         \* transports whose disconnect callback is still to come
  stage,        \* how far the restore of the transport is
  closing,      \* how far close() is
  faults,       \* restores and sends failed, bad messages, resets, close()
  nonce,        \* negotiations begun; names the present one
  bound,        \* transport of the session; 0 while it is not authenticated
  phase,        \* of the session
  selected,     \* sources agreed
  states,       \* source -> what the cloud said of it
  revision,     \* of the states
  cloud,        \* the session at the other end of the transport
  up,           \* control messages to the cloud
  down,         \* control messages to the SDK
  cache,        \* symbol -> latest quote
  watermark,    \* symbol -> the last full-field quote accepted
  handing,      \* quotes between the cache and the callback queue
  queue,        \* _callback_queue
  shown         \* symbol -> last full-field quote a callback got since it was forgotten

link    == <<generation, connected, cut, owed, stage, closing>>
session == <<nonce, bound, phase, selected, states, revision>>
wires   == <<cloud, up, down>>
quotes  == <<cache, watermark, shown>>
vars == <<mode, generation, connected, cut, owed, stage, closing, faults, nonce, bound,
          phase, selected, states, revision, cloud, up, down, cache, watermark,
          handing, queue, shown>>

Generations == 1 .. MaxGeneration

Down == [ready |-> FALSE, epoch |-> 0]
Ready(e) == [ready |-> TRUE, epoch |-> e]
AllEpochs == UNION {Epochs[s] : s \in Sources}
SourceState == {Down} \cup {Ready(e) : e \in AllEpochs}
AllDown == [s \in Sources |-> Down]

NoQuote == [v |-> 0]
SixField == [v : {1}, nonce : Nat]
FullField == [v : {2}, nonce : Nat, src : Sources, epoch : AllEpochs, seq : 1 .. MaxSeq]
Quote == {NoQuote} \cup SixField \cup FullField
Nothing == [x \in Symbols |-> NoQuote]

Phases == {"idle", "waiting_ack", "waiting_commit", "active", "fallback", "closed"}

\* A peer without the protocol is "old".
Cloud == [phase : Phases \cup {"old"}, nonce : Nat, selected : SUBSET Sources,
          states : [Sources -> SourceState], revision : 0 .. MaxRevision]
NewCloud(p) == [phase |-> p, nonce |-> 0, selected |-> {}, states |-> AllDown,
                revision |-> 0]

UpMessage == [kind : {"offer", "commit"}, nonce : Nat]
DownMessage == [kind : {"ack", "status", "bad", "oversized"}, nonce : Nat,
                selected : SUBSET Sources,
                states : [Sources -> SourceState], revision : 0 .. MaxRevision]

TypeOK ==
  /\ mode \in {"auto", "required_v2"}
  /\ generation \in Generations
  /\ connected \in BOOLEAN /\ cut \in BOOLEAN
  /\ owed \subseteq Generations
  /\ stage \in {"reset", "auth", "refused", "up", "done"}
  /\ closing \in {"open", "reset", "closed"}
  /\ faults \in 0 .. MaxFaults
  /\ nonce \in Nat
  /\ bound \in 0 .. MaxGeneration
  /\ phase \in Phases \ {"waiting_commit"}
  /\ selected \subseteq Sources
  /\ states \in [Sources -> SourceState]
  /\ revision \in 0 .. MaxRevision
  /\ cloud \in Cloud
  /\ up \in Seq(UpMessage) /\ down \in Seq(DownMessage)
  /\ cache \in [Symbols -> Quote]
  /\ watermark \in [Symbols -> {NoQuote} \cup FullField]
  /\ handing \subseteq [g : Generations, x : Symbols, q : Quote]
  /\ queue \in Seq([x : Symbols, q : Quote]) /\ Len(queue) <= QueueLimit
  /\ shown \in [Symbols -> {NoQuote} \cup FullField]

\* connect() has reset the session, opened the first transport and sent AUTH.
Init ==
  /\ mode \in {"auto", "required_v2"}
  /\ generation = 1
  /\ connected = TRUE
  /\ cut = FALSE
  /\ owed = {}
  /\ stage = "auth"
  /\ closing = "open"
  /\ faults = 0
  /\ nonce = 0
  /\ bound = 0
  /\ phase = "idle"
  /\ selected = {}
  /\ states = AllDown
  /\ revision = 0
  /\ \E p \in {"idle", "old"} : cloud = NewCloud(p)
  /\ up = <<>>
  /\ down = <<>>
  /\ cache = Nothing
  /\ watermark = Nothing
  /\ handing = {}
  /\ queue = <<>>
  /\ shown = Nothing

Fault == faults < MaxFaults /\ faults' = faults + 1

-----------------------------------------------------------------------------
(***************************************************************************)
(* The session and the cache.                                              *)
(***************************************************************************)

\* _realtime_current_locked: the session is that of the transport in use.
Current == bound # 0 /\ connected /\ generation = bound /\ closing # "closed"

IsReady(s, e) == phase = "active" /\ s \in selected /\ states[s] = Ready(e)

\* Bug variant: quotes outlive the state of their source.
KeptAnyhow(q, mask) == TRUE

\* What _invalidate_realtime_locked leaves: full-field quotes of other sources.
Kept(q, mask) == q.v = 2 /\ q.src \notin mask

KeepOf(f, mask) == [x \in Symbols |-> IF Kept(f[x], mask) THEN f[x] ELSE NoQuote]

Forget(mask) ==
  IF mask = {} THEN UNCHANGED quotes
  ELSE /\ cache' = KeepOf(cache, mask)
       /\ watermark' = KeepOf(watermark, mask)
       /\ shown' = KeepOf(shown, mask)

ForgetAll == cache' = Nothing /\ watermark' = Nothing /\ shown' = Nothing

NoStates == states' = AllDown /\ revision' = 0

\* _reset_realtime: session, quotes and callback queue.
ResetRealtime ==
  /\ bound' = 0
  /\ phase' = "idle"
  /\ selected' = {}
  /\ NoStates
  /\ ForgetAll
  /\ queue' = <<>>
  /\ UNCHANGED <<nonce, handing>>

\* abort_generation: the socket is shut down, its receive thread will find out.
AbortTransport == cut' = (cut \/ (connected /\ generation = bound))

\* Bug variant: the transport of a closed session is kept.
CloseSessionOnly ==
  /\ phase' = "closed"
  /\ states' = AllDown
  /\ ForgetAll
  /\ UNCHANGED cut

\* _finish("closed") and what _realtime_apply_locked makes of it: the transport of
\* the session is shut down.
CloseSession ==
  /\ phase' = "closed"
  /\ states' = AllDown
  /\ ForgetAll
  /\ AbortTransport

-----------------------------------------------------------------------------
(***************************************************************************)
(* Transports.                                                             *)
(***************************************************************************)
\* Nothing is left of a transport at its other end.
HangUp == cloud' = NewCloud("old") /\ up' = <<>> /\ down' = <<>>

LoopRuns == generation > 1 /\ stage # "done"

\* The transport is lost, or its receive thread finds the socket shut down.
Break ==
  /\ connected
  /\ connected' = FALSE
  /\ owed' = owed \cup {generation}
  /\ HangUp
  /\ UNCHANGED <<mode, generation, cut, stage, closing, faults, session, quotes,
                 handing, queue>>

\* The disconnect callback, which does not ask whose loss it reports.
CallbackReset(g) ==
  /\ g \in owed
  /\ owed' = owed \ {g}
  /\ IF closing = "closed" THEN UNCHANGED <<session, quotes, handing, queue>>
     ELSE ResetRealtime
  /\ UNCHANGED <<mode, generation, connected, cut, stage, closing, faults, wires>>

\* The reconnect loop opens the next transport, to a cloud with or without the
\* protocol.
Open ==
  /\ ~connected
  /\ closing = "open"
  /\ generation < MaxGeneration
  /\ LoopRuns \/ generation \notin owed
  /\ generation' = generation + 1
  /\ connected' = TRUE
  /\ cut' = FALSE
  /\ stage' = "reset"
  /\ \E p \in {"idle", "old"} : cloud' = NewCloud(p)
  /\ UNCHANGED <<mode, owed, closing, faults, session, up, down, quotes, handing, queue>>

\* _handle_reconnected begins with a reset, then it sends AUTH.
ReconnectReset ==
  /\ stage = "reset"
  /\ stage' = "auth"
  /\ ResetRealtime
  /\ UNCHANGED <<mode, generation, connected, cut, owed, closing, faults, wires>>

\* The restore is over; in required_v2 the protocol must be active.
FinishRestore ==
  /\ stage = "up"
  /\ connected
  /\ mode = "auto" \/ phase = "active"
  /\ stage' = "done"
  /\ UNCHANGED <<mode, generation, connected, cut, owed, closing, faults, session, wires,
                 quotes, handing, queue>>

\* The restore fails, because AUTH was refused, because the protocol is required and
\* not active, or otherwise: the loop closes the transport without a callback.
RestoreFails ==
  /\ connected
  /\ LoopRuns
  /\ \/ /\ \/ stage = "refused"
           \/ stage = "up" /\ mode = "required_v2" /\ phase \in {"fallback", "closed"}
        /\ UNCHANGED faults
     \/ stage # "reset" /\ Fault
  /\ connected' = FALSE
  /\ HangUp
  /\ UNCHANGED <<mode, generation, cut, owed, stage, closing, session, quotes,
                 handing, queue>>

\* connect() closes the client when the protocol it requires is not to be had.
ConnectFails ==
  /\ generation = 1
  /\ stage = "up"
  /\ mode = "required_v2" /\ phase \in {"fallback", "closed"}

CloseReset ==
  /\ closing = "open"
  /\ Fault \/ (ConnectFails /\ UNCHANGED faults)
  /\ closing' = "reset"
  /\ ResetRealtime
  /\ UNCHANGED <<mode, generation, connected, cut, owed, stage, wires>>

\* close(), or connect() when AUTH is refused.
CloseTransport ==
  /\ \/ closing = "reset"
     \/ closing = "open" /\ generation = 1 /\ stage = "refused"
  /\ closing' = "closed"
  /\ connected' = FALSE
  /\ HangUp
  /\ UNCHANGED <<mode, generation, cut, owed, stage, faults, session, quotes,
                 handing, queue>>

-----------------------------------------------------------------------------
(***************************************************************************)
(* The receive thread: AUTH and control messages.                          *)
(***************************************************************************)

\* The receive thread of the transport is not handing a quote on.
Receiving == connected /\ \A h \in handing : h.g # generation

\* _begin_realtime, unless the session is current: OFFER is sent, or the send fails.
Begin ==
  IF Current THEN UNCHANGED <<faults, session, cut, up, quotes>>
  ELSE /\ nonce' = nonce + 1
       /\ bound' = generation
       /\ selected' = {}
       /\ NoStates
       /\ ForgetAll
       /\ \/ /\ phase' = "waiting_ack"
             /\ up' = Append(up, [kind |-> "offer", nonce |-> nonce'])
             /\ UNCHANGED <<faults, cut>>
          \/ /\ Fault
             /\ phase' = "closed"
             /\ cut' = TRUE
             /\ UNCHANGED up

\* AUTH_RESPONSE, also one that repeats on a transport whose session was reset since.
AuthGranted ==
  /\ Receiving
  /\ stage \in {"auth", "up", "done"}
  /\ stage' = IF stage = "auth" THEN "up" ELSE stage
  /\ Begin
  /\ UNCHANGED <<mode, generation, connected, owed, closing, cloud, down, handing, queue>>

\* AUTH is refused, or a terminal token status arrives.
AuthEnds ==
  /\ Receiving
  /\ Fault
  /\ stage \in {"auth", "up", "done"}
  /\ stage' = IF stage = "auth" THEN "refused" ELSE stage
  /\ ResetRealtime
  /\ UNCHANGED <<mode, generation, connected, cut, owed, closing, wires>>

\* A symbol map that differs from the one in use.
MapChanges ==
  /\ Receiving
  /\ Fault
  /\ ForgetAll
  /\ UNCHANGED <<mode, link, session, wires, handing, queue>>

\* Bug variant: any ACK answers the OFFER.
AnswersAnyOffer(m) == m.kind = "ack" /\ phase = "waiting_ack"

AnswersOffer(m) == m.kind = "ack" /\ phase = "waiting_ack" /\ m.nonce = nonce

\* ACK: no source in common, or COMMIT is sent and the session is active.
HandleAck(m) ==
  /\ selected' = m.selected
  /\ NoStates
  /\ \/ /\ m.selected = {}
        /\ phase' = "fallback"
        /\ UNCHANGED <<faults, cut, up, quotes>>
     \/ /\ m.selected # {}
        /\ phase' = "active"
        /\ up' = Append(up, [kind |-> "commit", nonce |-> nonce])
        /\ Forget(m.selected)
        /\ UNCHANGED <<faults, cut>>
     \/ /\ m.selected # {}
        /\ Fault
        /\ phase' = "closed"
        /\ cut' = TRUE
        /\ ForgetAll
        /\ UNCHANGED up
  /\ UNCHANGED <<nonce, bound>>

Changed(new) == {s \in selected : new[s] # states[s]}

IsNews(m) ==
  m.kind = "status" /\ phase = "active" /\ m.nonce = nonce /\ m.revision > revision

\* SOURCE_STATUS: quotes of a source whose state or epoch changed are forgotten.
HandleStatus(m) ==
  /\ states' = m.states
  /\ revision' = m.revision
  /\ Forget(Changed(m.states))
  /\ UNCHANGED <<faults, cut, nonce, bound, phase, selected, up>>

HandleBad ==
  /\ CloseSession
  /\ UNCHANGED <<faults, nonce, bound, selected, revision, up>>

\* A message with a symbol, or too long, leaves the session as it is.
HandleOversized ==
  /\ AbortTransport
  /\ ForgetAll
  /\ UNCHANGED <<faults, session, up>>

\* _handle_realtime_control, on the transport of the session.
ReceiveControl ==
  /\ Receiving
  /\ down # <<>>
  /\ down' = Tail(down)
  /\ LET m == Head(down) IN
     CASE Current /\ AnswersOffer(m) -> HandleAck(m)
       [] Current /\ IsNews(m) -> HandleStatus(m)
       [] Current /\ m.kind = "bad" /\ phase \in {"waiting_ack", "active"} -> HandleBad
       [] Current /\ m.kind = "oversized" -> HandleOversized
       [] OTHER -> UNCHANGED <<faults, session, cut, up, quotes>>
  /\ UNCHANGED <<mode, generation, connected, owed, stage, closing, cloud, handing, queue>>

\* Bug variant: the wait for the ACK arms no timer.
TimeoutNotArmed == FALSE /\ UNCHANGED vars

\* The timer of the session fires while it waits for the ACK.
Timeout ==
  /\ Current
  /\ phase = "waiting_ack"
  /\ phase' = "fallback"
  /\ UNCHANGED <<mode, link, faults, nonce, bound, selected, states, revision, wires,
                 quotes, handing, queue>>

-----------------------------------------------------------------------------
(***************************************************************************)
(* The receive thread: quotes.                                             *)
(***************************************************************************)
HandOn(x, q) == handing' = handing \cup {[g |-> generation, x |-> x, q |-> q]}

\* Bug variant: a snapshot may repeat or precede the last one.
FollowsAnything(x, q) == watermark[x] # NoQuote => watermark[x].src = q.src

\* The watermark: the same source, and a later sequence within an epoch.
Follows(x, q) ==
  watermark[x] # NoQuote =>
    /\ watermark[x].src = q.src
    /\ watermark[x].epoch = q.epoch => watermark[x].seq < q.seq

\* _handle_full_snapshot accepts a snapshot of a ready source in its epoch; one that
\* exceeds the byte budget of the cache only moves the watermark.
SnapshotArrives(x) ==
  /\ Receiving
  /\ Current
  /\ \E s \in Sources, e \in AllEpochs, n \in 1 .. MaxSeq :
       LET q == [v |-> 2, nonce |-> nonce, src |-> s, epoch |-> e, seq |-> n] IN
       /\ IsReady(s, e)
       /\ Follows(x, q)
       /\ watermark' = [watermark EXCEPT ![x] = q]
       /\ \/ cache' = [cache EXCEPT ![x] = q] /\ HandOn(x, q)
          \/ cache' = [cache EXCEPT ![x] = NoQuote] /\ UNCHANGED handing
  /\ UNCHANGED <<mode, link, faults, session, wires, queue, shown>>

\* Bug variant: a six-field quote is taken whatever is known of the symbol.
TakesSixFieldAnyway(x) == mode = "auto"

\* A six-field quote is for a symbol whose source has no full fields.
TakesSixField(x) ==
  /\ mode = "auto"
  /\ watermark[x] # NoQuote => ~IsReady(watermark[x].src, states[watermark[x].src].epoch)

SixFieldArrives(x) ==
  /\ Receiving
  /\ Current
  /\ TakesSixField(x)
  /\ LET q == [v |-> 1, nonce |-> nonce] IN
     cache' = [cache EXCEPT ![x] = q] /\ HandOn(x, q)
  /\ UNCHANGED <<mode, link, faults, session, wires, watermark, queue, shown>>

\* Bug variant: the queue grows.
QueueAnyway == queue

\* A full queue drops its oldest quote.
QueueWithRoom == IF Len(queue) < QueueLimit THEN queue ELSE Tail(queue)

\* _dispatch_quote
Dispatch(h) ==
  /\ handing' = handing \ {h}
  /\ queue' = IF cache[h.x] # h.q THEN queue
              ELSE Append(QueueWithRoom, [x |-> h.x, q |-> h.q])
  /\ UNCHANGED <<mode, link, faults, session, wires, quotes>>

\* Bug variant: the callback does not ask again.
ShowsAnyway(x, q) == TRUE

\* _quote_is_current
Shows(x, q) == cache[x] = q

CallbackRuns ==
  /\ queue # <<>>
  /\ closing # "closed"
  /\ queue' = Tail(queue)
  /\ LET h == Head(queue) IN
     shown' = IF h.q.v = 2 /\ Shows(h.x, h.q) THEN [shown EXCEPT ![h.x] = h.q] ELSE shown
  /\ UNCHANGED <<mode, link, faults, session, wires, cache, watermark, handing>>

-----------------------------------------------------------------------------
(***************************************************************************)
(* The Session of the cloud.                                               *)
(***************************************************************************)
Tell(m) == Len(down) < MaxWire /\ down' = Append(down, m)

CloudUnchanged == UNCHANGED <<mode, link, session, quotes, handing, queue>>

\* OFFER is answered with the sources in common, COMMIT makes the session active.
CloudReceives ==
  /\ connected
  /\ up # <<>>
  /\ up' = Tail(up)
  /\ LET m == Head(up) IN
     CASE m.kind = "offer" /\ cloud.phase = "idle" ->
            \E common \in SUBSET Sources :
              /\ cloud' = [cloud EXCEPT !.phase = IF common = {} THEN "fallback"
                                                  ELSE "waiting_commit",
                                        !.nonce = m.nonce, !.selected = common]
              /\ Tell([kind |-> "ack", nonce |-> m.nonce, selected |-> common,
                       states |-> AllDown, revision |-> 0])
       [] m.kind = "commit" /\ cloud.phase = "waiting_commit" /\ m.nonce = cloud.nonce ->
            cloud' = [cloud EXCEPT !.phase = "active"] /\ UNCHANGED down
       [] OTHER -> UNCHANGED <<cloud, down>>
  /\ CloudUnchanged
  /\ UNCHANGED faults

CloudTimesOut ==
  /\ connected
  /\ cloud.phase = "waiting_commit"
  /\ Fault
  /\ cloud' = [cloud EXCEPT !.phase = "closed"]
  /\ UNCHANGED <<up, down>>
  /\ CloudUnchanged

CloudPublishes ==
  /\ connected
  /\ cloud.phase = "active"
  /\ cloud.revision < MaxRevision
  /\ \E new \in [Sources -> SourceState] :
       /\ \A s \in Sources :
            new[s] = Down \/ (s \in cloud.selected /\ new[s].epoch \in Epochs[s])
       /\ cloud' = [cloud EXCEPT !.states = new, !.revision = @ + 1]
       /\ Tell([kind |-> "status", nonce |-> cloud.nonce, selected |-> {},
                states |-> new, revision |-> cloud'.revision])
  /\ UNCHANGED <<up, faults>>
  /\ CloudUnchanged

\* A control message that is oversized, does not decode or is out of scope.
BadControl ==
  /\ connected
  /\ Fault
  /\ \E k \in {"bad", "oversized"} :
       Tell([kind |-> k, nonce |-> 0, selected |-> {}, states |-> AllDown,
             revision |-> 0])
  /\ UNCHANGED <<cloud, up>>
  /\ CloudUnchanged

-----------------------------------------------------------------------------
Next ==
  \/ Break
  \/ \E g \in Generations : CallbackReset(g)
  \/ Open
  \/ ReconnectReset
  \/ FinishRestore
  \/ RestoreFails
  \/ CloseReset
  \/ CloseTransport
  \/ AuthGranted
  \/ AuthEnds
  \/ MapChanges
  \/ ReceiveControl
  \/ Timeout
  \/ \E x \in Symbols : SnapshotArrives(x) \/ SixFieldArrives(x)
  \/ \E h \in handing : Dispatch(h)
  \/ CallbackRuns
  \/ CloudReceives
  \/ CloudTimesOut
  \/ CloudPublishes
  \/ BadControl

Spec == Init /\ [][Next]_vars

\* The threads of the client run on: a socket that was shut down ends its receive
\* thread, callbacks and timers come, the loop goes through its restore.
Fairness ==
  /\ WF_vars(cut /\ Break)
  /\ \A g \in Generations : WF_vars(CallbackReset(g))
  /\ WF_vars(ReconnectReset)
  /\ WF_vars(CloseTransport)
  /\ WF_vars(ReceiveControl)
  /\ WF_vars(Timeout)
  /\ WF_vars(\E h \in handing : Dispatch(h))
  /\ WF_vars(CallbackRuns)

FairSpec == Spec /\ Fairness

-----------------------------------------------------------------------------
(***************************************************************************)
(* Properties.                                                             *)
(***************************************************************************)

\* A full-field quote in the cache comes from the negotiation and the epoch its source
\* has now, and from a source that is ready now: no reset, status, reconnect or late
\* receive thread leaves an older one behind.
CacheIsCurrent ==
  \A x \in Symbols : cache[x].v = 2 =>
    /\ cache[x].nonce = nonce
    /\ IsReady(cache[x].src, cache[x].epoch)

\* A six-field quote is never in the cache in required_v2, and in auto not for a symbol
\* that has full fields ("required_v2：禁止回退").
NoDowngrade ==
  \A x \in Symbols : cache[x].v = 1 =>
    /\ mode = "auto"
    /\ watermark[x] = NoQuote \/ ~IsReady(watermark[x].src, watermark[x].epoch)

\* The session is that of the transport, as the cloud sees it.
Linked == connected /\ bound = generation

\* The SDK is active before the cloud is, in one negotiation and on the same sources:
\* what the cloud says of its sources and the full fields it sends never meet a session
\* that has not committed.
Agreement ==
  Linked =>
    /\ phase = "active" =>
         /\ cloud.nonce = nonce
         /\ cloud.selected = selected
         /\ cloud.phase \in {"waiting_commit", "active", "closed"}
    /\ cloud.phase = "active" /\ cloud.nonce = nonce => phase \in {"active", "closed"}

\* With no SOURCE_STATUS under way, both ends hold the same states.
StatusArrives ==
  Linked /\ phase = "active" /\ cloud.phase = "active"
  /\ (\A i \in 1 .. Len(down) : down[i].kind # "status")
    => states = cloud.states /\ revision = cloud.revision

\* A quote is shown to a callback only while its source is ready in its epoch, however
\* long it was in the queue and whatever was reset in between.
ShownIsReady ==
  [][\A x \in Symbols :
       shown'[x] \notin {shown[x], NoQuote} =>
         shown'[x].nonce = nonce /\ IsReady(shown'[x].src, shown'[x].epoch)]_vars

\* The quotes of a symbol are shown in their order, though the relay repeats and
\* reorders them, the queue drops some and receive threads of two transports hand
\* them on.
ShowsForward ==
  [][\A x \in Symbols :
       /\ shown'[x] # shown[x]
       /\ NoQuote \notin {shown[x], shown'[x]}
       /\ shown'[x].epoch = shown[x].epoch
       => shown'[x].seq > shown[x].seq]_vars

\* An OFFER does not wait for ever on a transport that stays.
Settles == phase = "waiting_ack" ~> (phase # "waiting_ack" \/ ~connected)

\* The transport of a closed session does not stay.
ClosedIsCut == phase = "closed" /\ connected ~> (phase # "closed" \/ ~connected)

===============================================================================
