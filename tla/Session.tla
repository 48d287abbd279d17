------------------------------ MODULE Session ------------------------------
(***************************************************************************)
(* The client over its transport: what the receive threads, the reconnect  *)
(* loop and close() of Connection do to the authentication, to one of the  *)
(* two capability negotiations (Negotiation) and to session rehoming.      *)
(* Every step is one of Connection, one of Negotiation, both at once, or   *)
(* neither.                                                                *)
(*                                                                         *)
(* A receive thread handles AUTH_RESPONSE in several steps, for it sends   *)
(* both OFFERs, and a send that fails runs the whole reconnect loop before *)
(* the handler goes on.  An AUTH that is rejected is a restore that fails. *)
(*                                                                         *)
(* Dispatcher and handlers share no lock with the loop.  That a handler of *)
(* one transport does not act in the next rests on time: the loop waits a  *)
(* second at least before it opens the next one (Short, Wait).             *)
(***************************************************************************)
EXTENDS Naturals

CONSTANTS
  MaxGeneration,  \* bound: sockets opened
  MaxRehome       \* bound: rehome requests

ASSUME BoundAssumption == MaxGeneration \in Nat \ {0} /\ MaxRehome \in Nat

VARIABLES
  \* Connection
  sock, connected, generation, auto, stop, reconnecting, required, alive, broken,
  at, mine, should, aim, found, rehome, rehomes, endpoint, closing,
  \* Negotiation; round is the _generation of the runtime
  kind, state, round, eligible, timer, firing, offering,
  \* the client
  doing,       \* thread -> where its message handler is
  authorized,  \* _auth_success
  answered,    \* _auth_event
  asking,      \* the restore has sent AUTH and waits
  \* the other end of the sockets, and history
  asked,       \* sockets AUTH was sent on
  welcome,     \* sockets whose AUTH the server accepted
  offered,     \* sockets with an OFFER the server has not acknowledged
  acked,       \* sockets the server has acknowledged an OFFER on
  source       \* the socket the current rehome request came on, 0 none

Threads == 0 .. MaxGeneration

C == INSTANCE Connection
N == INSTANCE Negotiation WITH generation <- round

link    == <<sock, connected, generation, auto, stop, reconnecting, required, alive,
             broken, at, mine, should, aim, found, rehome, rehomes, endpoint, closing>>
runtime == <<kind, state, round, eligible, timer, firing, offering>>
client  == <<doing, authorized, answered, asking>>
server  == <<asked, welcome, offered, acked>>
vars == <<link, runtime, client, server, source>>

\* Where a handler may be: about to act on AUTH_RESPONSE, about to send an OFFER, past
\* a send that succeeded or failed, about to set _auth_event, about to take an ACK.
Send   == [history |-> "send history", session |-> "send session"]
Sent   == [history |-> "sent history", session |-> "sent session"]
Failed == [history |-> "failed history", session |-> "failed session"]
After  == [history |-> "send session", session |-> "wake"]

Handling == {"auth", "send history", "sent history", "failed history",
             "send session", "sent session", "failed session", "wake", "ack"}

TypeOK ==
  /\ C!TypeOK
  /\ N!TypeOK
  /\ doing \in [Threads -> Handling \cup {"none"}]
  /\ authorized \in BOOLEAN
  /\ answered \in BOOLEAN
  /\ asking \in BOOLEAN
  /\ welcome \subseteq asked
  /\ asked \cup offered \cup acked \subseteq Threads
  /\ source \in Threads

\* connect() has sent AUTH on the first socket.
Init ==
  /\ C!Init
  /\ N!Init
  /\ doing = [t \in Threads |-> "none"]
  /\ authorized = FALSE
  /\ answered = FALSE
  /\ asking = FALSE
  /\ asked = {1}
  /\ welcome = {}
  /\ offered = {}
  /\ acked = {}
  /\ source = 0

Do(t, point) == doing' = [doing EXCEPT ![t] = point]

\* A handler of thread t goes on: it is not inside the transport.
Handler(t, from, to) == at[t] = "idle" /\ doing[t] = from /\ Do(t, to)

-----------------------------------------------------------------------------
(***************************************************************************)
(* The transport, as the client sees it.                                   *)
(***************************************************************************)

\* What else may lose a socket: the receive thread between two messages, and any
\* caller of send().
FindBroken(t) ==
  /\ doing[t] = "none"
  /\ C!FindBroken(t)
  /\ UNCHANGED <<runtime, client, server, source>>

\* _handle_connection_disconnected resets the negotiation and ends the wait of a
\* restore; after close() the connection is not the client's any more.
Notify(t) ==
  /\ C!Notify(t)
  /\ IF closing = "closed"
     THEN UNCHANGED <<runtime, authorized, answered>>
     ELSE N!Reset /\ authorized' = FALSE /\ answered' = TRUE
  /\ UNCHANGED <<doing, asking, server, source>>

\* The loop, where it does not meet the client.
LoopRuns(t) ==
  /\ \/ C!Claim(t)
     \/ C!DiscoverSucceeds(t)
     \/ C!DiscoverFails(t)
     \/ C!CheckPolicy(t)
     \/ C!ConnectFails(t)
     \/ C!OpenSocket(t)
     \/ C!MarkConnected(t)
     \/ C!StartReceiving(t)
     \/ C!FinishRestore(t)
     \/ C!CheckTransport(t)
     \/ C!Complete(t)
     \/ C!Release(t)
  /\ UNCHANGED <<runtime, client, server, source>>

\* A thread between two lines of a handler or a callback, where nothing waits.
Short(t) ==
  \/ at[t] \in {"notify", "rehome", "request", "cut"}
  \/ /\ at[t] = "idle"
     /\ doing[t] \notin {"none", "send history", "send session"}

\* The loop waits for a second at least, which no thread spends between two lines.
Wait(t) ==
  /\ \A u \in Threads : ~Short(u)
  /\ C!Wait(t)
  /\ UNCHANGED <<runtime, client, server, source>>

\* Bug variant: the restore keeps what the last authentication left.
SendAuthKeeping(t) ==
  /\ at[t] = "restoring"
  /\ ~asking
  /\ connected
  /\ sock # 0
  /\ asking' = TRUE
  /\ asked' = asked \cup {sock}
  /\ UNCHANGED <<link, runtime, doing, authorized, answered, welcome, offered, acked,
                 source>>

\* _handle_reconnected forgets the last authentication and sends the ticket of a
\* rehome and AUTH.
SendAuth(t) ==
  /\ at[t] = "restoring"
  /\ ~asking
  /\ connected
  /\ sock # 0
  /\ asking' = TRUE
  /\ authorized' = FALSE
  /\ answered' = FALSE
  /\ asked' = asked \cup {sock}
  /\ UNCHANGED <<link, runtime, doing, welcome, offered, acked, source>>

\* The restore wakes up on _auth_event and finds _auth_success.
AuthSucceeds(t) ==
  /\ asking /\ answered /\ authorized
  /\ C!AuthSucceeds(t)
  /\ asking' = FALSE
  /\ UNCHANGED <<runtime, doing, authorized, answered, server, source>>

\* Or it does not, or the rest of the restore fails.
RestoreFails(t) ==
  /\ C!RestoreFails(t)
  /\ asking' = FALSE
  /\ UNCHANGED <<runtime, doing, authorized, answered, server, source>>

Break(s) ==
  /\ C!Break(s)
  /\ UNCHANGED <<runtime, client, server, source>>

-----------------------------------------------------------------------------
(***************************************************************************)
(* AUTH_RESPONSE and the two OFFERs.                                       *)
(***************************************************************************)

\* The dispatcher has compared the generation; the server accepts AUTH.
AuthArrives(t) ==
  /\ t \in asked \ welcome
  /\ C!Dispatching(t)
  /\ Handler(t, "none", "auth")
  /\ welcome' = welcome \cup {t}
  /\ UNCHANGED <<link, runtime, authorized, answered, asking, asked, offered, acked,
                 source>>

\* What _begin_..._capability_negotiation does before its send: the peer may not know
\* the capability, and the connection may be gone.
Prepare(t, k) ==
  \/ /\ closing # "closed"
     /\ N!BeginOffer(t)
     /\ Do(t, Send[k])
  \/ /\ closing # "closed"
     /\ N!MarkUnsupported
     /\ Do(t, After[k])
  \/ /\ closing = "closed"
     /\ N!Reset
     /\ Do(t, After[k])

\* _handle_auth_response up to the first send.
HandleAuth(t) ==
  /\ at[t] = "idle"
  /\ doing[t] = "auth"
  /\ authorized' = TRUE
  /\ IF kind = "history"
     THEN Prepare(t, "history")
     ELSE Do(t, "send history") /\ UNCHANGED runtime
  /\ UNCHANGED <<link, answered, asking, server, source>>

\* The transport takes the OFFER, whatever socket it has by now; the server does
\* nothing with an OFFER that no AUTH came before.
SendOffer(t, k) ==
  /\ Handler(t, Send[k], Sent[k])
  /\ connected /\ sock \notin broken \cup {0}
  /\ offered' = IF kind = k THEN offered \cup ({sock} \cap asked) ELSE offered
  /\ UNCHANGED <<link, runtime, authorized, answered, asking, asked, welcome, acked,
                 source>>

\* There is no transport to send on.
SendFails(t, k) ==
  /\ Handler(t, Send[k], Failed[k])
  /\ ~connected \/ sock = 0
  /\ UNCHANGED <<link, runtime, authorized, answered, asking, server, source>>

\* The send finds the socket broken: this thread runs the loss, and maybe the loop,
\* before its handler goes on.
SendBreaks(t, k) ==
  /\ Handler(t, Send[k], Failed[k])
  /\ C!FindBroken(t)
  /\ UNCHANGED <<runtime, authorized, answered, asking, server, source>>

\* The rest of begin_offer of the tracked runtime.
FinishOffer(t, k, sent) ==
  /\ kind = k
  /\ Handler(t, IF sent THEN Sent[k] ELSE Failed[k],
                After[k])
  /\ N!FinishOffer(t, sent)
  /\ UNCHANGED <<link, authorized, answered, asking, server, source>>

\* Between the two negotiations, when the session runtime is the tracked one.
PrepareSession(t) ==
  /\ kind = "session"
  /\ at[t] = "idle"
  /\ doing[t] \in {"sent history", "failed history"}
  /\ Prepare(t, "session")
  /\ UNCHANGED <<link, authorized, answered, asking, server, source>>

\* The session OFFER when the history runtime is the tracked one.
SkipSession(t) ==
  /\ kind = "history"
  /\ at[t] = "idle"
  /\ doing[t] \in {"sent session", "failed session"}
  /\ Do(t, "wake")
  /\ UNCHANGED <<link, runtime, authorized, answered, asking, server, source>>

\* _auth_event is set at the very end.
Wake(t) ==
  /\ Handler(t, "wake", "none")
  /\ answered' = TRUE
  /\ UNCHANGED <<link, runtime, authorized, asking, server, source>>

-----------------------------------------------------------------------------
(***************************************************************************)
(* ACK, timer, rehome, close.                                              *)
(***************************************************************************)

\* Bug variant: the dispatcher does not ask which transport the message came on.
AckArrivesLate(t) ==
  /\ t \in offered \cap welcome
  /\ ~stop
  /\ Handler(t, "none", "ack")
  /\ offered' = offered \ {t}
  /\ acked' = acked \cup {t}
  /\ UNCHANGED <<link, runtime, authorized, answered, asking, asked, welcome, source>>

AckArrives(t) ==
  /\ t \in offered \cap welcome
  /\ C!Dispatching(t)
  /\ Handler(t, "none", "ack")
  /\ offered' = offered \ {t}
  /\ acked' = acked \cup {t}
  /\ UNCHANGED <<link, runtime, authorized, answered, asking, asked, welcome, source>>

HandleAck(t, ack) ==
  /\ Handler(t, "ack", "none")
  /\ N!TakeAck(ack)
  /\ UNCHANGED <<link, authorized, answered, asking, server, source>>

TimerStep ==
  /\ N!TimerRunsOut \/ \E g \in firing : N!Timeout(g)
  /\ UNCHANGED <<link, client, server, source>>

\* SESSION_REHOME is followed after an agreed handoff only.
RehomeArrives(t) ==
  /\ kind = "session"
  /\ t \in welcome
  /\ eligible
  /\ doing[t] = "none"
  /\ C!RehomeArrives(t)
  /\ UNCHANGED <<runtime, client, server, source>>

NoteRehome(t) ==
  /\ C!NoteRehome(t)
  /\ source' = t
  /\ UNCHANGED <<runtime, client, server>>

RefuseReconnect(t) ==
  /\ C!RefuseReconnect(t)
  /\ UNCHANGED <<runtime, client, server, source>>

AcceptReconnect(t) ==
  /\ C!AcceptReconnect(t)
  /\ UNCHANGED <<runtime, client, server, source>>

CutTransport(t) ==
  /\ C!CutTransport(t)
  /\ UNCHANGED <<runtime, client, server, source>>

\* A terminal TOKEN_STATUS.
Suspend(t) ==
  /\ doing[t] = "none"
  /\ C!Suspend(t)
  /\ authorized' = FALSE
  /\ UNCHANGED <<runtime, doing, answered, asking, server, source>>

\* close() resets the negotiation, then closes the connection and lets go of it.
CloseFlags ==
  /\ C!CloseFlags
  /\ N!Reset
  /\ authorized' = FALSE
  /\ UNCHANGED <<doing, answered, asking, server, source>>

CloseSocket ==
  /\ C!CloseSocket
  /\ UNCHANGED <<runtime, client, server, source>>

-----------------------------------------------------------------------------
HandlerStep(t) ==
  \/ HandleAuth(t)
  \/ \E k \in N!Kinds :
       \/ SendOffer(t, k)
       \/ SendFails(t, k)
       \/ SendBreaks(t, k)
       \/ \E sent \in BOOLEAN : FinishOffer(t, k, sent)
  \/ PrepareSession(t)
  \/ SkipSession(t)
  \/ Wake(t)
  \/ \E ack \in N!Acks : HandleAck(t, ack)

LoopStep(t) ==
  \/ Notify(t)
  \/ LoopRuns(t)
  \/ Wait(t)
  \/ SendAuth(t)
  \/ AuthSucceeds(t)
  \/ RestoreFails(t)
  \/ NoteRehome(t)
  \/ RefuseReconnect(t)
  \/ AcceptReconnect(t)
  \/ CutTransport(t)

Next ==
  \/ \E t \in Threads : HandlerStep(t) \/ LoopStep(t)
  \/ \E t \in Threads :
       FindBroken(t) \/ AuthArrives(t) \/ AckArrives(t) \/ RehomeArrives(t) \/ Suspend(t)
  \/ \E s \in C!Sockets : Break(s)
  \/ TimerStep
  \/ CloseFlags
  \/ CloseSocket

Spec == Init /\ [][Next]_vars

-----------------------------------------------------------------------------
(***************************************************************************)
(* Properties.                                                             *)
(***************************************************************************)

\* A negotiation that waits for its ACK has an end ahead, and a timer watches over
\* the current negotiation only, though resets, ACKs, late timeouts and the OFFERs of
\* a thread that comes back from a reconnect meet while an OFFER is being sent.
OfferIsTimed == N!WaitHasEnd /\ N!TimerIsOwn

\* Where the handler of AUTH_RESPONSE has not begun the negotiation yet.
Before == [history |-> {"auth"},
           session |-> {"auth", "send history", "sent history", "failed history"}]

\* What the client has negotiated (V2 history, handoff) once AUTH_RESPONSE was handled
\* was acknowledged on this very transport.  Until then what an earlier one agreed on
\* may still stand: a restore that fails drops its transport without a reset.
EligibleHere ==
  /\ eligible
  /\ state = "negotiated"
  /\ sock \in welcome
  /\ doing[sock] \notin Before[kind]
  => sock \in acked

\* A restore that gets past authentication got there by the AUTH of its own socket,
\* not by a flag or an event that an earlier handler left or set late.
RestoredIsWelcome ==
  \A t \in Threads :
    at[t] \in {"authenticated", "restored", "completing"} => mine[t] \in welcome

\* The handoff ticket goes to the node it was issued for: the restore that sends it
\* runs on an endpoint discovered for that very rehome.
TicketReachesTarget ==
  [][\A t \in Threads : SendAuth(t) /\ rehome # 0 => endpoint = rehome]_vars

\* A rehome is given up as done only at its target.  The one way to lose it is to ask
\* for it on the transport that the loop is about to complete.
RehomeIsKept ==
  [][\A t \in Threads :
       at[t] = "completing" /\ at'[t] = "release" /\ rehome # 0 =>
         endpoint = rehome \/ source = mine[t]]_vars

=============================================================================
