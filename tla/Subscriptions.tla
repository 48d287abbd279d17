--------------------------- MODULE Subscriptions ---------------------------
(***************************************************************************)
(* Subscription intent of one client (SubscriptionClientMixin) against the *)
(* quote server it talks to: user calls, the receive threads, the          *)
(* reconnect thread and the symbol-map refresh thread share the state that *)
(* _subscribed_lock guards.  Each critical section of that lock is one     *)
(* action; what a thread does between two critical sections interleaves.   *)
(*                                                                         *)
(* A "session" numbers the pairs (Connection object, generation): both the *)
(* dispatcher and the acknowledgement handler compare the pair, and it     *)
(* never repeats.  The server is external: it applies frames in order and  *)
(* answers a SUBSCRIBE with the full set of ids it serves, without an id   *)
(* of the request.                                                         *)
(***************************************************************************)
EXTENDS Naturals, Sequences

CONSTANTS
  Codes,        \* instrument codes the user may ask for
  Sids,         \* numeric wire ids of the server's catalogue
  NoSid,        \* "no id known"
  Catalogues,   \* symbol maps the server may publish, in [Codes -> Sids or NoSid]
  InitialMap,   \* the map loaded from the disk cache
  MaxRevision,  \* bound: new intents
  MaxSession,   \* bound: transports opened
  MaxInstall,   \* bound: symbol maps installed
  MaxFrames     \* bound: frames waiting on the wire to the server

IdOrNone == Sids \cup {NoSid}

ASSUME SidAssumption == NoSid \notin Sids

ASSUME MapAssumption ==
  /\ Catalogues \subseteq [Codes -> IdOrNone]
  /\ InitialMap \in [Codes -> IdOrNone]

\* The server never gives one id to two codes, in one catalogue or across two.
ASSUME StableIds ==
  \A m, n \in Catalogues \cup {InitialMap} : \A c, d \in Codes :
    c # d /\ m[c] # NoSid => m[c] # n[d]

ASSUME BoundAssumption ==
  /\ MaxRevision \in Nat
  /\ MaxSession \in Nat
  /\ MaxInstall \in Nat
  /\ MaxFrames \in Nat

VARIABLES
  desired,        \* code -> revision of the user's intent, 0 when not wanted
  revision,       \* last revision handed out
  confirmed,      \* code -> id the server confirmed on this session, or NoSid
  queue,          \* codes still to be requested
  inflight,       \* the one SUBSCRIBE without an answer, or NoRequest
  rejected,       \* codes the server answered without accepting
  authenticated,  \* the client's own flag
  symbolMap,      \* code -> id of the current catalogue, or NoSid
  installed,      \* which installation symbolMap is (identity of the dict)
  refreshTried,   \* session whose one HTTP refresh was used
  refresh,        \* the refresh thread, or NoRefresh
  session,        \* last transport opened
  phase,          \* of the transport, see Phases
  restorers,      \* threads inside connect() or _handle_reconnected, with the
                  \* session they found connected and how far they got
  toServer,       \* frames sent and not yet applied
  serverSubs,     \* ids the server serves on this session
  toClient,       \* acknowledgements sent and not yet read
  handling        \* acknowledgements past the dispatcher, before the lock

intentVars == <<desired, revision>>
answerVars == <<confirmed, queue, inflight, rejected>>
mapVars    == <<symbolMap, installed>>
refreshVars == <<refreshTried, refresh>>
wireVars   == <<serverSubs, toClient, handling>>
vars == <<desired, revision, confirmed, queue, inflight, rejected,
          authenticated, symbolMap, installed, refreshTried, refresh, session,
          phase, restorers, toServer, serverSubs, toClient, handling>>

\* offline: the loss was processed; restoring: a transport is open and AUTH is
\* under way; up: AUTH succeeded; lost: the socket is dead and
\* _handle_disconnected has not run.
Phases == {"offline", "restoring", "up", "lost"}
LinkUp == phase \in {"restoring", "up"}

Nothing == [c \in Codes |-> NoSid]

NoRequest == [session |-> 0, requested |-> {},
              sid |-> Nothing, rev |-> [c \in Codes |-> 0]]
Request == [session : Nat, requested : SUBSET Codes,
            sid : [Codes -> IdOrNone], rev : [Codes -> Nat]]

NoRefresh == [session |-> 0, started |-> FALSE, seen |-> 0]
Refresh == [session : Nat, started : BOOLEAN, seen : Nat]

Restorer == [session : Nat, at : {"connected", "resuming"}]

Frame == [kind : {"subscribe", "unsubscribe"}, ids : SUBSET Sids]
Ack == [session : Nat, ids : SUBSET Sids]

Wanted(c) == desired[c] # 0
WantedCodes == {c \in Codes : Wanted(c)}

\* The intent of c that the unanswered SUBSCRIBE carries is still the current one.
InFlight(c) ==
  Wanted(c) /\ c \in inflight.requested /\ inflight.rev[c] = desired[c]

TypeOK ==
  /\ desired \in [Codes -> Nat]
  /\ revision \in Nat
  /\ confirmed \in [Codes -> IdOrNone]
  /\ queue \subseteq Codes
  /\ inflight \in Request
  /\ rejected \subseteq Codes
  /\ authenticated \in BOOLEAN
  /\ symbolMap \in Catalogues \cup {InitialMap}
  /\ installed \in Nat
  /\ refreshTried \in Nat
  /\ refresh \in Refresh
  /\ session \in Nat
  /\ phase \in Phases
  /\ restorers \subseteq Restorer
  /\ toServer \in Seq(Frame)
  /\ serverSubs \subseteq Sids
  /\ toClient \in Seq(SUBSET Sids)
  /\ handling \subseteq Ack

Init ==
  /\ desired = [c \in Codes |-> 0]
  /\ revision = 0
  /\ confirmed = Nothing
  /\ queue = {}
  /\ inflight = NoRequest
  /\ rejected = {}
  /\ authenticated = FALSE
  /\ symbolMap = InitialMap
  /\ installed = 0
  /\ refreshTried = 0
  /\ refresh = NoRefresh
  /\ session = 0
  /\ phase = "offline"
  /\ restorers = {}
  /\ toServer = <<>>
  /\ serverSubs = {}
  /\ toClient = <<>>
  /\ handling = {}

(***************************************************************************)
(* Helpers of the critical sections.  They read the primed values their    *)
(* caller has already assigned.                                            *)
(***************************************************************************)

\* send_for_generation: either the frame is on the wire of the live transport,
\* or the send fails, the socket is shut down and the client drops its
\* authenticated flag.
Transmit(frame) ==
  /\ LinkUp
  /\ toServer' = Append(toServer, frame)
  /\ UNCHANGED <<authenticated, phase>>

SendFails ==
  /\ authenticated' = FALSE
  /\ phase' = IF LinkUp THEN "lost" ELSE phase
  /\ UNCHANGED toServer

Sendable(q) == {c \in q : desired'[c] # 0 /\ symbolMap'[c] # NoSid}

\* The request and the snapshot of ids and revisions its answer is read against.
NewRequest(r) ==
  [session |-> session, requested |-> r,
   sid |-> [c \in Codes |-> IF c \in r THEN symbolMap'[c] ELSE confirmed'[c]],
   rev |-> [c \in Codes |-> IF c \in r \/ confirmed'[c] # NoSid
                              THEN desired'[c] ELSE 0]]

\* An answer names no request, so one request is out at a time.
MayRequest(inf, r) == authenticated /\ inf = NoRequest /\ r # {}

\* _flush_subscriptions_locked, reached with queue q and unanswered request inf.
Flush(q, inf) ==
  LET r == Sendable(q) IN
  \/ /\ ~MayRequest(inf, r)
     /\ queue' = q
     /\ inflight' = inf
     /\ UNCHANGED <<authenticated, phase, toServer>>
  \/ /\ MayRequest(inf, r)
     /\ Transmit([kind |-> "subscribe", ids |-> {symbolMap'[c] : c \in r}])
     /\ inflight' = NewRequest(r)
     /\ queue' = q \ r
  \/ /\ MayRequest(inf, r)
     /\ SendFails
     /\ inflight' = NoRequest
     /\ queue' = q

\* _schedule_subscription_refresh, reached with refresh thread t: one HTTP
\* refresh per session, and only while a wanted code has no id.
ScheduleRefresh(t) ==
  IF /\ authenticated'
     /\ t = NoRefresh
     /\ refreshTried # session
     /\ \E c \in queue' : desired'[c] # 0 /\ symbolMap'[c] = NoSid
  THEN /\ refreshTried' = session
       /\ refresh' = [NoRefresh EXCEPT !.session = session]
  ELSE /\ refresh' = t
       /\ UNCHANGED refreshTried

\* Bug variants of Reset: the intents are not queued again; the request of the
\* lost session stays unanswered.
ResetForgetsIntents ==
  /\ authenticated' = FALSE
  /\ confirmed' = Nothing
  /\ inflight' = NoRequest
  /\ queue' = queue
  /\ rejected' = {}

ResetKeepsRequest ==
  /\ authenticated' = FALSE
  /\ confirmed' = Nothing
  /\ inflight' = inflight
  /\ queue' = WantedCodes
  /\ rejected' = {}

\* _reset_subscriptions: the intents stay, what the server said of them goes.
Reset ==
  /\ authenticated' = FALSE
  /\ confirmed' = Nothing
  /\ inflight' = NoRequest
  /\ queue' = WantedCodes
  /\ rejected' = {}

ClearWires ==
  /\ toServer' = <<>>
  /\ serverSubs' = {}
  /\ toClient' = <<>>

-----------------------------------------------------------------------------
(***************************************************************************)
(* User calls.                                                             *)
(***************************************************************************)

\* Bug variant: a code already under way is queued again.
NeverSent(c) == FALSE

AlreadySent(c) ==
  c \in inflight.requested /\ inflight.rev[c] = desired'[c]

\* subscribe(symbols).  Revisions are only ever compared for one code, so the
\* codes that become wanted in one call may share a number.
Subscribe(S) ==
  /\ authenticated
  /\ \E c \in S : symbolMap[c] # NoSid
  /\ LET new == {c \in S : ~Wanted(c)} IN
       IF new = {}
       THEN UNCHANGED intentVars
       ELSE /\ revision < MaxRevision
            /\ revision' = revision + 1
            /\ desired' = [c \in Codes |->
                             IF c \in new THEN revision + 1 ELSE desired[c]]
  /\ rejected' = rejected \ S
  /\ UNCHANGED <<confirmed, mapVars>>
  /\ Flush(queue \cup {c \in S : confirmed[c] = NoSid /\ ~AlreadySent(c)},
           inflight)
  /\ ScheduleRefresh(refresh)
  /\ UNCHANGED <<session, restorers, wireVars>>

\* Bug variant: only confirmed codes are cancelled on the server.
SidConfirmed(c) == confirmed[c]

SidToCancel(c) ==
  IF confirmed[c] # NoSid THEN confirmed[c]
  ELSE IF c \in inflight.requested THEN inflight.sid[c] ELSE NoSid

\* unsubscribe(symbols): S of them, or every one (all), which the wire encodes
\* as an empty list.
Unsubscribe(S, all) ==
  LET removed == IF all THEN WantedCodes ELSE S
      ids     == {SidToCancel(c) : c \in removed} \ {NoSid}
      frame   == [kind |-> "unsubscribe", ids |-> IF all THEN {} ELSE ids]
  IN
  /\ desired' = [c \in Codes |-> IF c \in removed THEN 0 ELSE desired[c]]
  /\ confirmed' = [c \in Codes |-> IF c \in removed THEN NoSid ELSE confirmed[c]]
  /\ queue' = queue \ removed
  /\ rejected' = rejected \ removed
  /\ IF authenticated /\ (all \/ ids # {})
     THEN /\ Len(toServer) < MaxFrames
          /\ Transmit(frame) \/ SendFails
     ELSE UNCHANGED <<authenticated, phase, toServer>>
  /\ UNCHANGED <<revision, inflight, mapVars, refreshVars, session, restorers,
                 wireVars>>

\* close(): the intents survive in the client object.
Close ==
  /\ phase # "offline"
  /\ Reset
  /\ ClearWires
  /\ phase' = "offline"
  /\ UNCHANGED <<intentVars, mapVars, refreshVars, session, restorers, handling>>

-----------------------------------------------------------------------------
(***************************************************************************)
(* The transport and the thread that restores it.                          *)
(***************************************************************************)

\* The peer or the network ends the transport.
Drop ==
  /\ LinkUp
  /\ phase' = "lost"
  /\ UNCHANGED <<intentVars, answerVars, authenticated, mapVars, refreshVars,
                 session, restorers, toServer, wireVars>>

\* _handle_disconnected, the callback of the closed transport.
HandleDisconnected ==
  /\ phase = "lost"
  /\ Reset
  /\ ClearWires
  /\ phase' = "offline"
  /\ UNCHANGED <<intentVars, mapVars, refreshVars, session, restorers, handling>>

\* Discovery (which may install a catalogue), the new transport, and the reset
\* that opens _handle_reconnected and connect().
Reconnect ==
  /\ phase = "offline"
  /\ session < MaxSession
  /\ session' = session + 1
  /\ phase' = "restoring"
  /\ Reset
  /\ \/ UNCHANGED mapVars
     \/ /\ installed < MaxInstall
        /\ installed' = installed + 1
        /\ symbolMap' \in Catalogues
  /\ UNCHANGED <<intentVars, refreshVars, restorers, toServer, wireVars>>

\* AUTH succeeded and the thread saw the transport connected.  connect() goes on
\* with an empty map; a reconnect with an empty map raises, which is a Drop here.
FindConnected ==
  /\ phase = "restoring"
  /\ phase' = "up"
  /\ restorers' = restorers \cup {[session |-> session, at |-> "connected"]}
  /\ UNCHANGED <<intentVars, answerVars, authenticated, mapVars, refreshVars,
                 session, toServer, wireVars>>

\* It sets the flag without looking again, whatever became of the transport; a
\* connect() this late writes into a session that the receive thread reopened.
Authenticate(r) ==
  /\ r.at = "connected"
  /\ authenticated' = TRUE
  /\ restorers' = (restorers \ {r}) \cup {[r EXCEPT !.at = "resuming"]}
  /\ UNCHANGED <<intentVars, answerVars, mapVars, refreshVars, session, phase,
                 toServer, wireVars>>

\* _resume_subscriptions, in whatever session runs by then.
Resume(r) ==
  /\ r.at = "resuming"
  /\ restorers' = restorers \ {r}
  /\ UNCHANGED <<intentVars, confirmed, rejected, mapVars, session, wireVars>>
  /\ Flush(queue, inflight)
  /\ ScheduleRefresh(refresh)

\* _handle_reconnected looks at the transport once more before it ends, which
\* connect() does not.
FinishRestore ==
  /\ phase = "offline"
  /\ authenticated
  /\ authenticated' = FALSE
  /\ UNCHANGED <<intentVars, answerVars, mapVars, refreshVars, session, phase,
                 restorers, toServer, wireVars>>

-----------------------------------------------------------------------------
(***************************************************************************)
(* The receive thread.                                                     *)
(***************************************************************************)

\* The receive thread of the session is not inside a handler.
Receiving == phase # "offline" /\ \A h \in handling : h.session # session

\* _dispatch_message compared the session and calls the handler, which has
\* not got the lock yet.
ReceiveAck ==
  /\ Receiving
  /\ toClient # <<>>
  /\ toClient' = Tail(toClient)
  /\ handling' = handling \cup {[session |-> session, ids |-> Head(toClient)]}
  /\ UNCHANGED <<intentVars, answerVars, authenticated, mapVars, refreshVars,
                 session, phase, restorers, toServer, serverSubs>>

\* Bug variant: revisions are not compared.
CurrentInAnyRevision == {c \in Codes : inflight.sid[c] # NoSid}

\* What an answer is read against: the snapshot without the intents that were
\* cancelled or renewed after the request was sent.
Current ==
  {c \in Codes : /\ inflight.sid[c] # NoSid
                 /\ Wanted(c)
                 /\ desired[c] = inflight.rev[c]}

AckIsCurrent(h) ==
  /\ authenticated
  /\ inflight # NoRequest
  /\ inflight.session = session
  /\ h.session = inflight.session

\* _set_subscribed_codes_from_ids under the lock.
HandleAck(h) ==
  /\ handling' = handling \ {h}
  /\ UNCHANGED <<intentVars, mapVars, session, restorers, serverSubs, toClient>>
  /\ IF AckIsCurrent(h)
     THEN LET accepted == {c \in Current : inflight.sid[c] \in h.ids} IN
          /\ confirmed' = [c \in Codes |-> IF c \in accepted
                                             THEN inflight.sid[c] ELSE NoSid]
          /\ rejected' = (rejected \ Current) \cup (Current \ accepted)
          /\ Flush(queue, NoRequest)
          /\ ScheduleRefresh(refresh)
     ELSE UNCHANGED <<answerVars, authenticated, refreshVars, phase, toServer>>

\* A SYMBOL_MAP message replaces the catalogue and resumes.
HandleSymbolMap(m) ==
  /\ Receiving
  /\ installed < MaxInstall
  /\ installed' = installed + 1
  /\ symbolMap' = m
  /\ UNCHANGED <<intentVars, confirmed, rejected, session, restorers, wireVars>>
  /\ Flush(queue, inflight)
  /\ ScheduleRefresh(refresh)

-----------------------------------------------------------------------------
(***************************************************************************)
(* The refresh thread.                                                     *)
(***************************************************************************)

\* It notes the map it starts from, then asks the HTTP service.
RefreshStart ==
  /\ refresh # NoRefresh
  /\ ~refresh.started
  /\ refresh' = [refresh EXCEPT !.started = TRUE, !.seen = installed]
  /\ UNCHANGED <<intentVars, answerVars, authenticated, mapVars, refreshTried,
                 session, phase, restorers, toServer, wireVars>>

\* The answer may be installed only into the session and over the map the
\* thread started from.
RefreshMayInstall ==
  /\ authenticated
  /\ session = refresh.session
  /\ installed = refresh.seen

RefreshInstall(m) ==
  /\ refresh.started
  /\ RefreshMayInstall
  /\ installed < MaxInstall
  /\ installed' = installed + 1
  /\ symbolMap' = m
  /\ UNCHANGED <<intentVars, confirmed, rejected, session, restorers, wireVars>>
  /\ Flush(queue, inflight)
  /\ ScheduleRefresh(NoRefresh)

\* Bug variant: the thread ends without looking for more work.
RefreshGiveUpQuietly ==
  /\ refresh.started
  /\ UNCHANGED <<intentVars, answerVars, authenticated, mapVars, session,
                 phase, restorers, toServer, wireVars>>
  /\ refresh' = NoRefresh
  /\ UNCHANGED refreshTried

\* The request failed, brought no symbols, or came too late; either way the
\* thread ends by looking for more work.
RefreshGiveUp ==
  /\ refresh.started
  /\ UNCHANGED <<intentVars, answerVars, authenticated, mapVars, session,
                 phase, restorers, toServer, wireVars>>
  /\ ScheduleRefresh(NoRefresh)

-----------------------------------------------------------------------------
(***************************************************************************)
(* The server (external).                                                  *)
(***************************************************************************)

\* It applies the oldest frame.  Of a SUBSCRIBE it accepts what permissions
\* allow and answers with everything it serves; UNSUBSCRIBE has no answer.
ServerHandle ==
  /\ toServer # <<>>
  /\ toServer' = Tail(toServer)
  /\ LET frame == Head(toServer) IN
     \/ /\ frame.kind = "subscribe"
        /\ \E granted \in SUBSET frame.ids :
             serverSubs' = (serverSubs \ frame.ids) \cup granted
        /\ toClient' = Append(toClient, serverSubs')
     \/ /\ frame.kind = "unsubscribe"
        /\ serverSubs' = IF frame.ids = {} THEN {} ELSE serverSubs \ frame.ids
        /\ UNCHANGED toClient
  /\ UNCHANGED <<intentVars, answerVars, authenticated, mapVars, refreshVars,
                 session, phase, restorers, handling>>

-----------------------------------------------------------------------------
UserStep ==
  \/ \E S \in SUBSET Codes : Subscribe(S)
  \/ \E S \in SUBSET Codes : Unsubscribe(S, FALSE)
  \/ Unsubscribe({}, TRUE)
  \/ Close

ClientStep ==
  \/ HandleDisconnected
  \/ Reconnect
  \/ FindConnected
  \/ \E r \in restorers : Authenticate(r)
  \/ \E r \in restorers : Resume(r)
  \/ FinishRestore
  \/ ReceiveAck
  \/ \E h \in handling : HandleAck(h)
  \/ \E m \in Catalogues : HandleSymbolMap(m)
  \/ RefreshStart
  \/ \E m \in Catalogues : RefreshInstall(m)
  \/ RefreshGiveUp

Next == UserStep \/ ClientStep \/ ServerHandle \/ Drop

Spec == Init /\ [][Next]_vars

\* The threads the client starts keep running, the server keeps reading its
\* socket, and a client whose auto_reconnect is on reopens the transport; no user
\* call and no symbol map is ever owed.
Fairness ==
  /\ WF_vars(HandleDisconnected)
  /\ WF_vars(Reconnect)
  /\ WF_vars(FindConnected)
  /\ WF_vars(\E r \in restorers : Authenticate(r) \/ Resume(r))
  /\ WF_vars(ReceiveAck)
  /\ WF_vars(\E h \in handling : HandleAck(h))
  /\ WF_vars(ServerHandle)

FairSpec == Spec /\ Fairness

-----------------------------------------------------------------------------
(***************************************************************************)
(* Properties.                                                             *)
(***************************************************************************)

\* No intent is ever lost: a wanted code is waiting to be requested, carried by
\* the unanswered request in its current revision, confirmed, or known rejected.
\* Failed sends, lost answers, cancels, renewals and resets all keep it so.
NoLostIntent ==
  \A c \in Codes : Wanted(c) =>
    c \in queue \/ InFlight(c) \/ confirmed[c] # NoSid \/ c \in rejected

\* The four stores of a code's status never contradict each other, and a code
\* that is not wanted is in none of them: no code is requested twice, no
\* rejected code is retried, and the lookup of a confirmed code's intent, which
\* the flush does unconditionally, cannot miss.
OneStatus ==
  \A c \in Codes :
    /\ c \in queue => Wanted(c) /\ ~InFlight(c)
    /\ c \in rejected => Wanted(c) /\ ~InFlight(c) /\ c \notin queue
    /\ confirmed[c] # NoSid =>
         Wanted(c) /\ ~InFlight(c) /\ c \notin queue \cup rejected

Cancels(frame, s) ==
  frame.kind = "unsubscribe" /\ (frame.ids = {} \/ s \in frame.ids)

\* What the client reports as confirmed is what the server serves, and stays so
\* when the frames under way are applied: an answer to an earlier request never
\* confirms an intent that was cancelled and renewed since.
ConfirmedIsServed ==
  \A c \in Codes : confirmed[c] # NoSid =>
    /\ confirmed[c] \in serverSubs
    /\ \A i \in 1 .. Len(toServer) : ~ Cancels(toServer[i], confirmed[c])

\* Conversely the server serves nothing behind the client's back: an id it
\* serves is confirmed, is covered by the unanswered request, or is about to be
\* cancelled by a frame under way.
ServedIsKnown ==
  authenticated /\ LinkUp => \A s \in serverSubs :
    \/ \E c \in Codes : confirmed[c] = s
    \/ \E c \in inflight.requested : inflight.sid[c] = s
    \/ \E i \in 1 .. Len(toServer) : Cancels(toServer[i], s)

\* While a session runs and a wanted code has no id, the refresh of that session
\* was used or a refresh thread is there to start it: a thread left over from an
\* earlier session does not swallow the attempt of this one.
RefreshNotForgotten ==
  authenticated /\ restorers = {}
    /\ (\E c \in queue : symbolMap[c] = NoSid)
  => refreshTried = session \/ refresh # NoRefresh

\* If the transport finally stays up, every wanted code the catalogue knows is
\* answered, unless the user cancels it or the catalogue drops it.
EventuallyAnswered ==
  <>[]LinkUp =>
    \A c \in Codes :
      Wanted(c) /\ symbolMap[c] # NoSid
        ~> \/ confirmed[c] # NoSid
           \/ c \in rejected
           \/ ~Wanted(c)
           \/ symbolMap[c] = NoSid

-----------------------------------------------------------------------------
(***************************************************************************)
(* What a user of the client may rely on, as the abstract specification.   *)
(***************************************************************************)
Status ==
  [c \in Codes |->
     IF confirmed[c] # NoSid THEN "active"
     ELSE IF c \in rejected THEN "refused"
     ELSE IF Wanted(c) THEN "pending" ELSE "idle"]

Intent == INSTANCE SubscriptionIntent WITH status <- Status

\* The subscription code implements SubscriptionIntent.
IntentSpec == Intent!Spec

-----------------------------------------------------------------------------
(***************************************************************************)
(* The inductive invariant behind NoLostIntent, OneStatus and              *)
(* ConfirmedIsServed.  It says what the snapshot of the unanswered request *)
(* still has to do with the intents, and ties the request to the one       *)
(* SUBSCRIBE frame, or the one answer, under way for it.                   *)
(***************************************************************************)

\* Confirmed codes are in the snapshot with their id and revision, and a code
\* that is current in it was requested or is confirmed.
SnapshotIsExact ==
  \A c \in Codes :
    /\ desired[c] <= revision
    /\ inflight.rev[c] <= revision
    /\ c \in inflight.requested => inflight.sid[c] # NoSid
    /\ inflight # NoRequest /\ confirmed[c] # NoSid =>
         inflight.sid[c] = confirmed[c] /\ inflight.rev[c] = desired[c]
    /\ c \in Current => c \in inflight.requested \/ confirmed[c] = inflight.sid[c]

\* Ids the client holds for a code are ids of that code in some catalogue.
KnownSids(c) == {m[c] : m \in Catalogues \cup {InitialMap}} \cup {NoSid}
IdsFromCatalogue ==
  \A c \in Codes : confirmed[c] \in KnownSids(c) /\ inflight.sid[c] \in KnownSids(c)

SubscribeAt == {i \in 1 .. Len(toServer) : toServer[i].kind = "subscribe"}
Handled == {h \in handling : h.session = session}

\* The answers under way, still on the wire or already past the dispatcher.
Answers == {toClient[i] : i \in 1 .. Len(toClient)} \cup {h.ids : h \in Handled}

\* An unanswered request has at most one SUBSCRIBE frame or one answer under way,
\* and without a request there is neither.
OneRequestUnderWay ==
  /\ \A i, j \in SubscribeAt : i = j
  /\ Len(toClient) <= 1
  /\ \A g, h \in Handled : g = h
  /\ toClient # <<>> => Handled = {}
  /\ SubscribeAt # {} => toClient = <<>> /\ Handled = {}
  /\ phase # "offline" /\ inflight = NoRequest => SubscribeAt = {} /\ Answers = {}
  /\ \A i \in SubscribeAt :
       toServer[i].ids = {inflight.sid[c] : c \in inflight.requested}

\* An offline client has empty wires and no request, and no handler belongs to a
\* session still to come.
SessionIsFresh ==
  /\ phase = "offline" => /\ toServer = <<>> /\ toClient = <<>>
                          /\ confirmed = Nothing /\ inflight = NoRequest
  /\ \A h \in handling : h.session <= session

NoCancelAfter(i, s) ==
  \A j \in 1 .. Len(toServer) : j > i => ~ Cancels(toServer[j], s)

\* What the answer says of an intent that is still current will be true when it
\* is read: its id is not cancelled after the request.
RequestIsHonest ==
  \A c \in Current :
    /\ \A i \in SubscribeAt : NoCancelAfter(i, inflight.sid[c])
    /\ \A ids \in Answers : inflight.sid[c] \in ids =>
         /\ inflight.sid[c] \in serverSubs
         /\ NoCancelAfter(0, inflight.sid[c])

\* The parts of the inductive invariant that the proofs establish together.
LedgerInv == NoLostIntent /\ OneStatus /\ SnapshotIsExact
WireInv ==
  /\ IdsFromCatalogue
  /\ OneRequestUnderWay
  /\ SessionIsFresh
  /\ RequestIsHonest
  /\ ConfirmedIsServed

=============================================================================
