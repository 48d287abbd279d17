----------------------------- MODULE Connection -----------------------------
(***************************************************************************)
(* Transport of one client (Connection) from the moment connect() has      *)
(* returned: sockets that break, the threads that find out and race to     *)
(* reconnect, close(), the suspension of auto_reconnect, and session       *)
(* rehoming, which forces a reconnect to the node a discovery was asked    *)
(* for.  A step is what one thread does between two points where another   *)
(* may run; _reconnect_lock protects less than it seems to, for close(),   *)
(* _do_connect and the failed restore write without it.                    *)
(*                                                                         *)
(* Socket g is the one _do_connect opened as generation g, and thread g    *)
(* its receive thread; thread 0 stands for the callers of send().  Any of  *)
(* them may end up running the reconnect loop.                             *)
(***************************************************************************)
EXTENDS Naturals, FiniteSets

CONSTANTS
  MaxGeneration,  \* bound: sockets opened
  MaxRehome       \* bound: rehome requests

ASSUME BoundAssumption == MaxGeneration \in Nat \ {0} /\ MaxRehome \in Nat

VARIABLES
  sock,          \* _sock, 0 when None
  connected,     \* _connected
  generation,    \* _generation
  auto,          \* _auto_reconnect
  stop,          \* _stop_event
  reconnecting,  \* _reconnecting
  required,      \* _require_pre_reconnect_success
  alive,         \* sockets nobody closed yet
  broken,        \* sockets whose peer or network is gone
  at,            \* thread -> where it is
  mine,          \* thread -> the socket it works on
  should,        \* thread -> should_reconnect of _handle_disconnect
  aim,           \* thread -> the rehome its discovery asks for, 0 none
  found,         \* thread -> required_discovery_satisfied
  rehome,        \* the client's requested rehome, 0 none
  rehomes,       \* rehome requests received
  endpoint,      \* the rehome the host and port were discovered for, 0 none
  closing        \* how far close() got

control   == <<auto, stop, reconnecting, required>>
transport == <<sock, connected, generation, alive>>
locals    == <<mine, should, aim, found>>
rehoming  == <<rehome, rehomes, endpoint>>
vars == <<sock, connected, generation, auto, stop, reconnecting, required, alive,
          broken, at, mine, should, aim, found, rehome, rehomes, endpoint, closing>>

Sockets == 1 .. MaxGeneration
Threads == 0 .. MaxGeneration
Rehomes == 0 .. MaxRehome

\* Inside _do_reconnect_loop, with _reconnecting claimed.
LoopPoints == {"wait", "discover", "check", "connect", "opened", "started",
               "restoring", "authenticated", "restored", "completing", "release"}
Points == LoopPoints \cup {"idle", "notify", "claim", "rehome", "request",
                         "cut"}

TypeOK ==
  /\ sock \in Threads
  /\ connected \in BOOLEAN
  /\ generation \in Sockets
  /\ auto \in BOOLEAN
  /\ stop \in BOOLEAN
  /\ reconnecting \in BOOLEAN
  /\ required \in BOOLEAN
  /\ alive \subseteq Sockets
  /\ broken \subseteq Sockets
  /\ at \in [Threads -> Points]
  /\ mine \in [Threads -> Threads]
  /\ should \in [Threads -> BOOLEAN]
  /\ aim \in [Threads -> Rehomes]
  /\ found \in [Threads -> BOOLEAN]
  /\ rehome \in Rehomes
  /\ rehomes \in Rehomes
  /\ endpoint \in Rehomes
  /\ closing \in {"open", "flagged", "closed"}

\* connect() opened the first socket and start_recv_loop its receive thread.
Init ==
  /\ sock = 1
  /\ connected = TRUE
  /\ generation = 1
  /\ auto = TRUE
  /\ stop = FALSE
  /\ reconnecting = FALSE
  /\ required = FALSE
  /\ alive = {1}
  /\ broken = {}
  /\ at = [t \in Threads |-> "idle"]
  /\ mine = [t \in Threads |-> 0]
  /\ should = [t \in Threads |-> FALSE]
  /\ aim = [t \in Threads |-> 0]
  /\ found = [t \in Threads |-> FALSE]
  /\ rehome = 0
  /\ rehomes = 0
  /\ endpoint = 0
  /\ closing = "open"

Go(t, point) == at' = [at EXCEPT ![t] = point]

\* The thread is at one point of its code and goes to another.
Move(t, from, to) == at[t] = from /\ Go(t, to)

-----------------------------------------------------------------------------
(***************************************************************************)
(* The loss of a socket: _handle_disconnect and what leads to it.          *)
(***************************************************************************)

\* The network or the peer ends a socket (external).
Break(s) ==
  /\ s \in alive \ broken
  /\ broken' = broken \cup {s}
  /\ UNCHANGED <<transport, control, at, locals, rehoming, closing>>

ShouldReconnect == auto /\ ~stop /\ ~reconnecting

\* The part of _handle_disconnect under the lock, for a caller whose socket is
\* still the current one; every other caller returns at once.
Disconnect(t) ==
  /\ connected
  /\ sock # 0
  /\ connected' = FALSE
  /\ sock' = 0
  /\ mine' = [mine EXCEPT ![t] = sock]
  /\ should' = [should EXCEPT ![t] = ShouldReconnect]
  /\ Go(t, "notify")
  /\ UNCHANGED <<generation, control, alive, broken, aim, found, rehoming, closing>>

\* A receive thread, or a caller of send(), finds its socket broken.
FindBroken(t) ==
  /\ at[t] = "idle"
  /\ sock \in broken
  /\ t \in {0, sock}
  /\ Disconnect(t)

\* The socket is closed and the client told, before any reconnect.
Notify(t) ==
  /\ Move(t, "notify", IF should[t] THEN "claim" ELSE "idle")
  /\ alive' = alive \ {mine[t]}
  /\ UNCHANGED <<sock, connected, generation, control, broken, locals, rehoming,
                 closing>>

-----------------------------------------------------------------------------
(***************************************************************************)
(* The reconnect loop.                                                     *)
(***************************************************************************)

\* _reconnect_loop: one loop at a time.
Claim(t) ==
  /\ Move(t, "claim", IF stop \/ reconnecting THEN "idle" ELSE "wait")
  /\ reconnecting' = (reconnecting \/ ~stop)
  /\ UNCHANGED <<transport, auto, stop, required, broken, locals, rehoming, closing>>

\* Bug variant: the loop looks at nothing before it goes on.
WaitForever(t) ==
  /\ Move(t, "wait", "discover")
  /\ aim' = [aim EXCEPT ![t] = rehome]
  /\ found' = [found EXCEPT ![t] = FALSE]
  /\ UNCHANGED <<transport, control, broken, mine, should, rehoming, closing>>

\* Bug variant: the discovery is not told of the rehome.
WaitAimless(t) ==
  /\ Move(t, "wait", IF stop THEN "release" ELSE "discover")
  /\ aim' = [aim EXCEPT ![t] = IF stop THEN @ ELSE 0]
  /\ found' = [found EXCEPT ![t] = stop /\ @]
  /\ UNCHANGED <<transport, control, broken, mine, should, rehoming, closing>>

\* The head of the loop and its delay look at the stop event only.
Wait(t) ==
  /\ at[t] = "wait"
  /\ IF stop
     THEN /\ Go(t, "release")
          /\ UNCHANGED locals
     ELSE /\ Go(t, "discover")
          /\ aim' = [aim EXCEPT ![t] = rehome]
          /\ found' = [found EXCEPT ![t] = FALSE]
          /\ UNCHANGED <<mine, should>>
  /\ UNCHANGED <<transport, control, broken, rehoming, closing>>

\* _before_reconnect installs the endpoint it discovered for its target.
DiscoverSucceeds(t) ==
  /\ Move(t, "discover", "check")
  /\ endpoint' = aim[t]
  /\ found' = [found EXCEPT ![t] = TRUE]
  /\ UNCHANGED <<transport, control, broken, mine, should, aim, rehome, rehomes,
                 closing>>

\* It raises, or returns False: the cached endpoint will do unless discovery is
\* required by now.
DiscoverFails(t) ==
  /\ Move(t, "discover", IF required THEN "wait" ELSE "check")
  /\ UNCHANGED <<transport, control, broken, locals, rehoming, closing>>

\* The second look at the policy, just before _do_connect.
CheckPolicy(t) ==
  /\ Move(t, "check", IF required /\ ~found[t] THEN "wait" ELSE "connect")
  /\ UNCHANGED <<transport, control, broken, locals, rehoming, closing>>

\* Bug variant: a failed connect leaves the loop for good.
ConnectGivesUp(t) ==
  /\ Move(t, "connect", "idle")
  /\ UNCHANGED <<transport, control, broken, locals, rehoming, closing>>

\* _do_connect fails.
ConnectFails(t) ==
  /\ Move(t, "connect", "wait")
  /\ UNCHANGED <<transport, control, broken, locals, rehoming, closing>>

\* _do_connect stores the socket and counts it, whatever became of the stop event.
OpenSocket(t) ==
  /\ generation < MaxGeneration
  /\ Move(t, "connect", "opened")
  /\ generation' = generation + 1
  /\ sock' = generation + 1
  /\ alive' = alive \cup {generation + 1}
  /\ UNCHANGED <<connected, control, broken, locals, rehoming, closing>>

MarkConnected(t) ==
  /\ Move(t, "opened", "started")
  /\ connected' = TRUE
  /\ UNCHANGED <<sock, generation, alive, control, broken, locals, rehoming, closing>>

\* The loop takes the socket it finds, starts the receive thread and looks 0.1 s
\* later whether the transport is still there.
StartReceiving(t) ==
  /\ Move(t, "started", IF sock # 0 /\ connected THEN "restoring" ELSE "wait")
  /\ mine' = [mine EXCEPT ![t] = sock]
  /\ UNCHANGED <<transport, control, broken, should, aim, found, rehoming, closing>>

\* Bug variant: the receive thread does not look at the stop event.
AuthSucceedsAnyway(t) ==
  /\ Move(t, "restoring", "authenticated")
  /\ sock = mine[t]
  /\ sock \notin broken
  /\ UNCHANGED <<transport, control, broken, locals, rehoming, closing>>

\* The server accepts AUTH; a receive thread that finds the stop event set never
\* reads the answer.
AuthSucceeds(t) ==
  /\ Move(t, "restoring", "authenticated")
  /\ ~stop
  /\ sock = mine[t]
  /\ sock \notin broken
  /\ UNCHANGED <<transport, control, broken, locals, rehoming, closing>>

\* _handle_reconnected ends with a look at the transport.
FinishRestore(t) ==
  /\ connected
  /\ Move(t, "authenticated", "restored")
  /\ UNCHANGED <<transport, control, broken, locals, rehoming, closing>>

\* Bug variant: the failed restore keeps its socket open.
RestoreFailsOpen(t) ==
  /\ at[t] \in {"restoring", "authenticated"}
  /\ Go(t, "wait")
  /\ connected' = FALSE
  /\ sock' = 0
  /\ UNCHANGED <<generation, alive, control, broken, locals, rehoming, closing>>

\* _handle_reconnected raised: AUTH was rejected, for good or not, timed out, or
\* the transport is gone.  The loop drops whatever socket there is.
RestoreFails(t) ==
  /\ at[t] \in {"restoring", "authenticated"}
  /\ Go(t, "wait")
  /\ connected' = FALSE
  /\ sock' = 0
  /\ alive' = alive \ {sock}
  /\ auto' \in (IF sock = mine[t] THEN {auto, FALSE} ELSE {auto})
  /\ UNCHANGED <<generation, stop, reconnecting, required, broken, locals, rehoming,
                 closing>>

\* The last look at the transport.
CheckTransport(t) ==
  /\ Move(t, "restored", IF connected /\ sock = mine[t] THEN "completing" ELSE "wait")
  /\ UNCHANGED <<transport, control, broken, locals, rehoming, closing>>

\* Bug variant: the success is taken for the end of the loop.
CompleteEarly(t) ==
  /\ Move(t, "completing", "release")
  /\ required' = FALSE
  /\ rehome' = 0
  /\ reconnecting' = FALSE
  /\ UNCHANGED <<transport, auto, stop, broken, locals, rehomes, endpoint, closing>>

\* The policy flag and the client's rehome are cleared.
Complete(t) ==
  /\ Move(t, "completing", "release")
  /\ required' = FALSE
  /\ rehome' = 0
  /\ UNCHANGED <<transport, auto, stop, reconnecting, broken, locals, rehomes,
                 endpoint, closing>>

\* Bug variant: the end of the loop does not look for a loss it missed.
ReleaseQuietly(t) ==
  /\ Move(t, "release", "idle")
  /\ reconnecting' = FALSE
  /\ UNCHANGED <<transport, auto, stop, required, broken, locals, rehoming, closing>>

\* A loss during the loop started no other one, so its end looks again.
Release(t) ==
  /\ Move(t, "release", IF auto /\ ~stop /\ ~connected THEN "claim" ELSE "idle")
  /\ reconnecting' = FALSE
  /\ UNCHANGED <<transport, auto, stop, required, broken, locals, rehoming, closing>>

-----------------------------------------------------------------------------
(***************************************************************************)
(* Session rehoming and suspension, in the receive thread.                 *)
(***************************************************************************)

\* A message of the current generation is dispatched.
Dispatching(t) ==
  /\ at[t] = "idle"
  /\ t # 0
  /\ t = sock
  /\ ~stop

RehomeArrives(t) ==
  /\ Dispatching(t)
  /\ rehomes + Cardinality({u \in Threads : at[u] = "rehome"}) < MaxRehome
  /\ Go(t, "rehome")
  /\ UNCHANGED <<transport, control, broken, locals, rehoming, closing>>

\* _handle_session_rehome notes the target before it asks for the reconnect.
NoteRehome(t) ==
  /\ rehomes < MaxRehome
  /\ Move(t, "rehome", "request")
  /\ rehomes' = rehomes + 1
  /\ rehome' = rehomes + 1
  /\ UNCHANGED <<transport, control, broken, locals, endpoint, closing>>

\* request_reconnect refuses, and the client forgets the rehome.
RefuseReconnect(t) ==
  /\ Move(t, "request", "idle")
  /\ \/ /\ ~auto \/ stop
        /\ UNCHANGED required
     \/ /\ auto /\ ~stop
        /\ required' = TRUE
        /\ sock = 0 \/ ~connected
        /\ ~reconnecting
  /\ rehome' = 0
  /\ UNCHANGED <<transport, auto, stop, reconnecting, broken, locals, rehomes,
                 endpoint, closing>>

\* Bug variant: the reconnect is asked for without its policy.
AcceptAnywhere(t) ==
  /\ at[t] = "request"
  /\ auto /\ ~stop
  /\ connected /\ sock # 0
  /\ Go(t, "cut")
  /\ mine' = [mine EXCEPT ![t] = sock]
  /\ UNCHANGED <<transport, control, broken, should, aim, found, rehoming, closing>>

\* Without a transport the running loop will see the policy; with one, the lock is
\* released and taken again by _handle_disconnect.
AcceptReconnect(t) ==
  /\ at[t] = "request"
  /\ auto /\ ~stop
  /\ required' = TRUE
  /\ IF sock = 0 \/ ~connected
     THEN /\ reconnecting
          /\ Go(t, "idle")
          /\ UNCHANGED mine
     ELSE /\ Go(t, "cut")
          /\ mine' = [mine EXCEPT ![t] = sock]
  /\ UNCHANGED <<transport, auto, stop, reconnecting, broken, should, aim, found,
                 rehoming, closing>>

CutTransport(t) ==
  /\ at[t] = "cut"
  /\ IF connected /\ sock = mine[t]
     THEN Disconnect(t)
     ELSE /\ Go(t, "idle")
          /\ UNCHANGED <<transport, control, broken, locals, rehoming, closing>>

\* A terminal TOKEN_STATUS suspends auto_reconnect.
Suspend(t) ==
  /\ Dispatching(t)
  /\ auto' = FALSE
  /\ UNCHANGED <<transport, stop, reconnecting, required, broken, at, locals,
                 rehoming, closing>>

-----------------------------------------------------------------------------
(***************************************************************************)
(* close(), which takes no lock.                                           *)
(***************************************************************************)
CloseFlags ==
  /\ closing = "open"
  /\ closing' = "flagged"
  /\ stop' = TRUE
  /\ connected' = FALSE
  /\ auto' = FALSE
  /\ UNCHANGED <<sock, generation, alive, reconnecting, required, broken, at, locals,
                 rehoming>>

\* A socket that _do_connect stores between the read and the write of _sock is
\* released with its last reference, so the two are one step.
CloseSocket ==
  /\ closing = "flagged"
  /\ closing' = "closed"
  /\ sock' = 0
  /\ alive' = alive \ {sock}
  /\ UNCHANGED <<connected, generation, control, broken, at, locals, rehoming>>

-----------------------------------------------------------------------------
\* What a thread does by itself once it has started.
ThreadStep(t) ==
  \/ Notify(t)
  \/ Claim(t)
  \/ Wait(t)
  \/ DiscoverSucceeds(t)
  \/ DiscoverFails(t)
  \/ CheckPolicy(t)
  \/ ConnectFails(t)
  \/ OpenSocket(t)
  \/ MarkConnected(t)
  \/ StartReceiving(t)
  \/ AuthSucceeds(t)
  \/ FinishRestore(t)
  \/ RestoreFails(t)
  \/ CheckTransport(t)
  \/ Complete(t)
  \/ Release(t)
  \/ NoteRehome(t)
  \/ RefuseReconnect(t)
  \/ AcceptReconnect(t)
  \/ CutTransport(t)

Next ==
  \/ \E t \in Threads : FindBroken(t) \/ ThreadStep(t)
  \/ \E t \in Threads : RehomeArrives(t)
  \/ \E t \in Threads : Suspend(t)
  \/ \E s \in Sockets : Break(s)
  \/ CloseFlags
  \/ CloseSocket

Spec == Init /\ [][Next]_vars

\* Threads run and every wait of theirs has a timeout; a receive thread notices
\* that its socket broke.  Of the network: a discovery and a connect that are tried
\* for ever succeed in the end.
Fairness ==
  /\ \A t \in Threads : /\ WF_vars(ThreadStep(t))
                        /\ SF_vars(DiscoverSucceeds(t))
                        /\ SF_vars(OpenSocket(t))
  /\ \A t \in Sockets : WF_vars(FindBroken(t))
  /\ WF_vars(CloseSocket)

FairSpec == Spec /\ Fairness

-----------------------------------------------------------------------------
(***************************************************************************)
(* Properties.                                                             *)
(***************************************************************************)

InLoop(t) == at[t] \in LoopPoints

\* Whatever number of threads lose the transport, at most one of them runs the
\* reconnect loop, and _reconnecting says so exactly.
OneLoop ==
  /\ \A t, u \in Threads : InLoop(t) /\ InLoop(u) => t = u
  /\ reconnecting <=> \E t \in Threads : InLoop(t)

\* The thread will look whether to reconnect.
OwesReconnect(t) ==
  \/ InLoop(t)
  \/ at[t] = "claim"
  \/ at[t] = "notify" /\ should[t]

\* A lost transport is never forgotten: while auto_reconnect is on and the client
\* not closed, some thread has the reconnect before it.  A loss that finds a loop
\* running starts none, and the loop that ends must not have missed it.
LossIsOwned ==
  auto /\ ~stop /\ ~connected => \E t \in Threads : OwesReconnect(t)

\* No socket is left open behind the client: an open one is current, about to be
\* closed by the thread that lost it, or was opened by the running loop.
NoStraySocket ==
  \A s \in alive :
    \/ s = sock
    \/ \E t \in Threads : at[t] = "notify" /\ mine[t] = s

\* close() racing the loop may find that the loop opens a socket after it; only the
\* loop still holds it then.
ClosedIsQuiet ==
  closing = "closed" /\ sock # 0 => \E t \in Threads : InLoop(t)

\* close() ends everything, whatever the loop was doing.
CloseEnds ==
  closing = "closed" ~> [](alive = {} /\ \A t \in Threads : at[t] = "idle")

\* As long as auto_reconnect stays on, the client is connected again and again.
Reconnects ==
  <>[](auto /\ ~stop /\ generation < MaxGeneration) => []<>connected

\* "停止当前自动重连": once auto_reconnect is suspended, no attempt begins.
SuspendStops ==
  [][\A t \in Threads : at[t] = "wait" /\ at'[t] = "discover" => auto]_vars

-----------------------------------------------------------------------------
(***************************************************************************)
(* The inductive invariant behind OneLoop, LossIsOwned, NoStraySocket and  *)
(* ClosedIsQuiet.                                                          *)
(***************************************************************************)

\* About to claim the loop.
Pending(t) == at[t] = "claim" \/ (at[t] = "notify" /\ should[t])

\* At most one thread has the reconnect before it, though the claim is open
\* between two rounds of the loop.
OneOwner ==
  \A t, u \in Threads :
    (InLoop(t) \/ Pending(t)) /\ (InLoop(u) \/ Pending(u)) => t = u

\* Where the owner is tells what became of the transport, unless the client is
\* being closed.
OwnerKnowsTransport ==
  \A t \in Threads :
    /\ at[t] \in {"discover", "check", "connect"} => sock = 0
    /\ ~stop /\ at[t] = "opened" => sock # 0 /\ ~connected
    /\ ~stop /\ (Pending(t) \/ at[t] = "wait") => sock = 0 /\ ~connected
    /\ at[t] \in {"restoring", "authenticated", "restored", "completing"} =>
         sock \in {0, mine[t]}

\* _sock and _connected agree but while _do_connect sets them.
TransportAgrees ==
  ~stop /\ (\A t \in Threads : at[t] # "opened") => (connected <=> sock # 0)

\* A socket the loop opened after close() is still to be dropped by it.
LateSocket ==
  /\ closing # "open" => stop /\ ~auto
  /\ closing = "closed" /\ sock # 0 =>
       \E t \in Threads : \/ at[t] = "opened"
                          \/ at[t] \in {"started", "restoring"} /\ connected

TransportInv ==
  /\ OneLoop
  /\ OneOwner
  /\ OwnerKnowsTransport
  /\ TransportAgrees
  /\ LossIsOwned
  /\ NoStraySocket
  /\ LateSocket

=============================================================================
