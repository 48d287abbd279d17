----------------------------- MODULE HistoryQuery -----------------------------
(***************************************************************************)
(* History queries of one client, from _perform_history_query to the       *)
(* answer.  A user thread registers an entry in _pending_queries, sends    *)
(* the request and waits; the receive thread puts V2 frames in the decode  *)
(* queue and handles V1 batches; the decode worker checks each frame       *)
(* against the stream of its request, replenishes the window and completes *)
(* the entry; losing the transport or close() takes the whole table and    *)
(* fails what it took.  Whether a query speaks V1 or V2 is decided by the  *)
(* negotiation of the session, here its start and its result only.  A      *)
(* finance call shares the table; it looks at no generation and never at   *)
(* the result of its send.                                                 *)
(*                                                                         *)
(* An action is one critical section, with the code around it that reads   *)
(* and writes nothing shared.  Frames weigh one unit each in the decode    *)
(* queue, and one unit of window each if they carry rows.  Requests reach  *)
(* the server when they are sent; what it sends back is delayed.           *)
(***************************************************************************)
EXTENDS Naturals, FiniteSets, Sequences

CONSTANTS
  Queries,        \* calls of the user, each with a request id of its own
  MaxGeneration,  \* bound: transports opened
  MaxChunks,      \* bound: blocks (V2) or batches (V1) of an answer
  MaxWire,        \* bound: frames sent and not yet received
  QueueLimit,     \* capacity of the decode queue
  Window,         \* initial window of a request
  MaxFaults       \* bound: things that go wrong, see faults

ASSUME BoundAssumption ==
  /\ MaxGeneration \in Nat \ {0}
  /\ MaxChunks \in Nat
  /\ MaxWire \in Nat \ {0}
  /\ QueueLimit \in Nat \ {0}
  /\ Window \in Nat \ {0}
  /\ MaxFaults \in Nat

VARIABLES
  generation,   \* of the transport
  connected,
  restoring,    \* how far connect() or the reconnect loop is with the transport
  authenticated,
  settling,     \* the capability ACK is awaited
  v2,           \* the negotiated capabilities allow V2
  loss,         \* generation -> how far the disconnect callback of it is
  aborting,     \* generation -> entries it took; 0 for close()
  closing,      \* how far close() is
  pc,           \* query -> where its call is
  outcome,      \* query -> what its call returned or raised
  entry,        \* query -> its entry and HistoryV2RequestState
  pending,      \* _pending_queries
  cancels,      \* query -> CANCELs produced for it
  stream,       \* query -> the server's side of it
  wire,         \* frames sent to the client and not yet received
  faults,       \* frames dropped or repeated, transports lost, refusals, close()
  queue,        \* _history_v2_queue
  worker,       \* the frame the decode worker holds, at most one
  failing       \* threads inside _fail_history_v2_entry

link    == <<generation, connected, restoring>>
session == <<authenticated, settling, v2>>
teardown == <<loss, aborting, closing>>
call    == <<pc, outcome>>
table   == <<entry, pending, cancels>>
server  == <<stream, wire, faults>>
decode  == <<queue, worker, failing>>
vars == <<generation, connected, restoring, authenticated, settling, v2, loss,
          aborting, closing, pc, outcome, entry, pending, cancels, stream, wire,
          faults, queue, worker, failing>>

Generations == 1 .. MaxGeneration
\* "blocked": the call runs the reconnect loop; "leaving": it has its outcome and
\* is about to remove its entry.
InCall == {"registered", "checked", "waiting", "grace", "callback", "blocked",
           "leaving"}
Points == InCall \cup {"idle", "negotiating", "selected", "asking", "done"}

\* "auth": AUTH is sent; "admitted": it was granted and the transport was there when
\* last looked at; "resume": authenticated, what remains is the realtime protocol and
\* the subscriptions.
Restoring == {"auth", "admitted", "resume", "done"}

Outcomes == {"none", "rows", "disconnected", "failed", "timeout"}

\* cap: the capability generation of the query is still that of the runtime; got:
\* the blocks taken from the stream, or the batches.  Version 0 is a finance call.
Entry == [version : 0 .. 2, gen : 0 .. MaxGeneration, cap : BOOLEAN, active : BOOLEAN,
          begun : BOOLEAN, got : Seq(Nat),
          error : {"none", "aborted", "failed"}, event : BOOLEAN]
NoEntry == [version |-> 1, gen |-> 0, cap |-> FALSE, active |-> FALSE, begun |-> FALSE,
            got |-> <<>>, error |-> "none", event |-> FALSE]

\* asked: the transport the request was, or was to be, sent on; gen: the same while it
\* is served; total: the blocks of the answer, once the server knows.
Stream == [asked : 0 .. MaxGeneration, gen : 0 .. MaxGeneration, version : {1, 2},
           next : Nat, total : Nat, credit : Nat, lossy : BOOLEAN]
NoStream == [asked |-> 0, gen |-> 0, version |-> 1, next |-> 0, total |-> 0,
             credit |-> 0, lossy |-> FALSE]

\* seq is the position of a block, or the number of blocks an END or ERROR counts.
Frame == [q : Queries, kind : {"begin", "data", "end", "error", "batch", "refusal"},
          seq : Nat]
\* "callback", "blocked": a send failed, and the thread is in the callback of the loss
\* or in the reconnect loop.
Work == [frame : Frame, at : {"handle", "grant", "tell", "callback", "blocked"}]
Failing == [q : Queries, by : 0 .. MaxGeneration,
            at : {"cancel", "tell", "callback", "blocked"}]

TypeOK ==
  /\ generation \in Generations
  /\ connected \in BOOLEAN
  /\ restoring \in Restoring
  /\ authenticated \in BOOLEAN
  /\ settling \in BOOLEAN
  /\ v2 \in BOOLEAN
  /\ loss \in [Generations -> {"none", "owed", "reset", "taken"}]
  /\ aborting \in [0 .. MaxGeneration -> SUBSET Queries]
  /\ closing \in {"open", "taken", "reset", "closed"}
  /\ pc \in [Queries -> Points]
  /\ outcome \in [Queries -> Outcomes]
  /\ entry \in [Queries -> Entry]
  /\ pending \subseteq Queries
  /\ cancels \in [Queries -> Nat]
  /\ stream \in [Queries -> Stream]
  /\ wire \in Seq(Frame)
  /\ faults \in 0 .. MaxFaults
  /\ queue \in Seq(Frame)
  /\ worker \subseteq Work /\ Cardinality(worker) <= 1
  /\ failing \subseteq Failing

\* connect() has opened the first transport and sent AUTH.
Init ==
  /\ generation = 1
  /\ connected = TRUE
  /\ restoring = "auth"
  /\ authenticated = FALSE
  /\ settling = FALSE
  /\ v2 = FALSE
  /\ loss = [g \in Generations |-> "none"]
  /\ aborting = [g \in 0 .. MaxGeneration |-> {}]
  /\ closing = "open"
  /\ pc = [q \in Queries |-> "idle"]
  /\ outcome = [q \in Queries |-> "none"]
  /\ entry = [q \in Queries |-> NoEntry]
  /\ pending = {}
  /\ cancels = [q \in Queries |-> 0]
  /\ stream = [q \in Queries |-> NoStream]
  /\ wire = <<>>
  /\ faults = 0
  /\ queue = <<>>
  /\ worker = {}
  /\ failing = {}

Go(q, point) == pc' = [pc EXCEPT ![q] = point]

-----------------------------------------------------------------------------
(***************************************************************************)
(* The transport, and the callback of its loss.                            *)
(***************************************************************************)

\* Bound: nothing happens to a client whose calls are all over.
Over == \A q \in Queries : pc[q] = "done"

Fault == ~Over /\ faults < MaxFaults /\ faults' = faults + 1

CallbackDone(g) == loss[g] = "none" \/ (loss[g] = "taken" /\ aborting[g] = {})

\* The capability generation moves on, from under every query begun before.
Outdated == [q \in Queries |-> [entry[q] EXCEPT !.cap = FALSE]]

ResetSession ==
  /\ authenticated' = FALSE
  /\ settling' = FALSE
  /\ v2' = FALSE
  /\ entry' = Outdated

\* _handle_disconnect up to its callback: whoever comes first owes the callback.
Lose ==
  /\ connected
  /\ Fault
  /\ connected' = FALSE
  /\ loss' = [loss EXCEPT ![generation] = "owed"]
  /\ wire' = <<>>
  /\ UNCHANGED <<generation, restoring, aborting, closing>>

\* The peer or the network ends the transport; a receive thread or the heartbeat
\* finds out.
Break ==
  /\ Lose
  /\ UNCHANGED <<session, call, table, stream, decode>>

\* The reconnect loop runs, and with it the restore of the transport.
LoopRuns == generation > 1 /\ restoring # "done"

\* A thread whose send fails runs the callback, and then the reconnect loop unless one
\* runs already.  The loop ends when it restored a transport or the client was closed.
HeldAt == IF LoopRuns \/ closing # "open" THEN "callback" ELSE "blocked"

Released(at, g) ==
  \/ at = "callback" /\ CallbackDone(g)
  \/ at = "blocked" /\ (closing = "closed" \/ (connected /\ restoring = "done"))

\* The reconnect loop opens the next transport.  The loop starts after the callback
\* of the loss that starts it; a loss while it runs does not stop it.  A restore that
\* failed last may or may not have taken the flag back.
Open ==
  /\ ~connected
  /\ ~Over
  /\ closing = "open"
  /\ generation < MaxGeneration
  /\ LoopRuns \/ CallbackDone(generation)
  /\ generation' = generation + 1
  /\ connected' = TRUE
  /\ restoring' = "auth"
  /\ authenticated' \in {authenticated, authenticated /\ restoring # "resume"}
  /\ UNCHANGED <<settling, v2, teardown, call, table, server, decode>>

\* The restore of a later transport fails: the loop closes it without a callback, and
\* leaves the session as it is.
RestoreFails ==
  /\ connected
  /\ Fault
  /\ LoopRuns
  /\ connected' = FALSE
  /\ wire' = <<>>
  /\ UNCHANGED <<generation, restoring, session, teardown, call, table, stream,
                 decode>>

\* AUTH is answered, which begins the negotiation unless the peer is known to have
\* none; then the restore looks at the transport.
Authenticate ==
  /\ connected
  /\ restoring = "auth"
  /\ restoring' = "admitted"
  /\ settling' \in BOOLEAN
  /\ v2' = FALSE
  /\ entry' = Outdated
  /\ UNCHANGED <<generation, connected, authenticated, teardown, call, pending,
                 cancels, server, decode>>

\* The flag is set without another look, and before the restore is over: waiting for
\* the realtime protocol and resuming the subscriptions come after it.
MarkAuthenticated ==
  /\ restoring = "admitted"
  /\ restoring' = "resume"
  /\ authenticated' = TRUE
  /\ UNCHANGED <<generation, connected, settling, v2, teardown, call, table, server,
                 decode>>

FinishRestore ==
  /\ connected
  /\ restoring = "resume"
  /\ restoring' = "done"
  /\ UNCHANGED <<generation, connected, session, teardown, call, table, server, decode>>

\* The ACK grants V2 or not, is invalid, or does not come in time.
Settle ==
  /\ settling
  /\ settling' = FALSE
  /\ v2' \in BOOLEAN
  /\ UNCHANGED <<link, authenticated, teardown, call, table, server, decode>>

\* _handle_disconnected, which does not ask whose loss it reports: it resets the
\* session of today, whatever transport that has by now.
CallbackReset(g) ==
  /\ loss[g] = "owed"
  /\ IF closing = "closed"
     THEN /\ loss' = [loss EXCEPT ![g] = "none"]
          /\ UNCHANGED <<session, entry>>
     ELSE /\ loss' = [loss EXCEPT ![g] = "reset"]
          /\ ResetSession
  /\ UNCHANGED <<link, aborting, closing, call, pending, cancels, server, decode>>

\* Bug variant: the abort overlooks V1 queries.
TakeStreams == {q \in pending : entry[q].version = 2}

\* What _abort_pending_queries takes under the lock.
TakePending == pending

CallbackTake(g) ==
  /\ loss[g] = "reset"
  /\ loss' = [loss EXCEPT ![g] = "taken"]
  /\ aborting' = [aborting EXCEPT ![g] = TakePending]
  /\ pending' = {}
  /\ UNCHANGED <<link, session, closing, call, entry, cancels, server, decode>>

\* Bug variant: the stream is not asked whether it was cancelled before.
ProducesCancelAgain(e) == e.version = 2

\* HistoryV2RequestState.cancel returns a CANCEL for an active stream only.
ProducesCancel(e) == e.active

CountCancel(q) ==
  cancels' = [cancels EXCEPT ![q] = @ + IF ProducesCancel(entry[q]) THEN 1 ELSE 0]

\* ... and does to each entry without it: the error is written over whatever the
\* entry holds by then.
Abort(g, q) ==
  /\ q \in aborting[g]
  /\ aborting' = [aborting EXCEPT ![g] = @ \ {q}]
  /\ entry' = [entry EXCEPT ![q].active = FALSE,
                            ![q].error = "aborted", ![q].event = TRUE]
  /\ CountCancel(q)
  /\ UNCHANGED <<link, session, loss, closing, call, pending, server, decode>>

-----------------------------------------------------------------------------
(***************************************************************************)
(* close(): the table, then the negotiation, then the transport.           *)
(***************************************************************************)
CloseTake ==
  /\ closing = "open"
  /\ Fault
  /\ closing' = "taken"
  /\ authenticated' = FALSE
  /\ aborting' = [aborting EXCEPT ![0] = TakePending]
  /\ pending' = {}
  /\ UNCHANGED <<link, settling, v2, loss, call, entry, cancels, stream, wire, decode>>

CloseReset ==
  /\ closing = "taken"
  /\ aborting[0] = {}
  /\ closing' = "reset"
  /\ ResetSession
  /\ UNCHANGED <<link, loss, aborting, call, pending, cancels, server, decode>>

CloseTransport ==
  /\ closing = "reset"
  /\ closing' = "closed"
  /\ connected' = FALSE
  /\ wire' = <<>>
  /\ UNCHANGED <<generation, restoring, session, loss, aborting, call, table, stream,
                 faults, decode>>

-----------------------------------------------------------------------------
(***************************************************************************)
(* The user's call.                                                        *)
(***************************************************************************)

\* Authenticated and connected, it notes both generations before it waits for the
\* negotiation.
Begin(q) ==
  /\ pc[q] = "idle"
  /\ authenticated
  /\ connected
  /\ entry' = [entry EXCEPT ![q].gen = generation, ![q].cap = TRUE]
  /\ Go(q, "negotiating")
  /\ UNCHANGED <<link, session, teardown, outcome, pending, cancels, server, decode>>

SameSession(q) ==
  /\ authenticated
  /\ connected
  /\ closing # "closed"
  /\ generation = entry[q].gen
  /\ entry[q].cap

\* The wait ended, or the budget did, and nothing changed: V2 if the peer agreed to
\* it, V1 otherwise.
Select(q) ==
  /\ pc[q] = "negotiating"
  /\ ~settling
  /\ SameSession(q)
  /\ entry' = [entry EXCEPT ![q].version = IF v2 THEN 2 ELSE 1, ![q].active = v2]
  /\ Go(q, "selected")
  /\ UNCHANGED <<link, session, teardown, outcome, pending, cancels, server, decode>>

RefuseToSelect(q) ==
  /\ pc[q] = "negotiating"
  /\ \/ /\ ~SameSession(q)
        /\ outcome' = [outcome EXCEPT ![q] = "disconnected"]
     \/ /\ SameSession(q)
        /\ outcome' = [outcome EXCEPT ![q] = "timeout"]
  /\ Go(q, "done")
  /\ UNCHANGED <<link, session, teardown, table, server, decode>>

\* The entry takes the generation the transport has now.
Register(q) ==
  /\ pc[q] = "selected"
  /\ entry' = [entry EXCEPT ![q].gen = generation]
  /\ pending' = pending \cup {q}
  /\ Go(q, "registered")
  /\ UNCHANGED <<link, session, teardown, outcome, cancels, server, decode>>

Leave(q, result) ==
  /\ Go(q, "leaving")
  /\ outcome' = [outcome EXCEPT ![q] = result]

CheckGeneration(q) ==
  /\ pc[q] = "registered"
  /\ IF generation = entry[q].gen
     THEN Go(q, "checked") /\ UNCHANGED outcome
     ELSE Leave(q, "disconnected")
  /\ UNCHANGED <<link, session, teardown, table, server, decode>>

IsFinance(q) == entry[q].version = 0

\* An old node answers a V2 request in V1.  A V1 answer says how many batches it has;
\* finance data come as one.
Serve(q) ==
  \E version \in {1, entry[q].version} \ {0} :
  \E total \in (CASE IsFinance(q) -> {1} [] version = 1 -> 1 .. MaxChunks
                 [] OTHER        -> {0}) :
    stream' = [stream EXCEPT ![q] =
      [asked |-> generation, gen |-> generation, version |-> version,
       next |-> 2 - version, total |-> total, credit |-> Window, lossy |-> FALSE]]

\* send() asks for a transport, not for the one that was checked.
SendRequest(q) ==
  /\ pc[q] = "checked"
  /\ connected
  /\ Serve(q)
  /\ Go(q, "waiting")
  /\ UNCHANGED <<link, session, teardown, outcome, table, wire, faults, decode>>

NoTransport(q) ==
  /\ pc[q] = "checked"
  /\ ~connected
  /\ ~IsFinance(q)
  /\ Leave(q, "disconnected")
  /\ UNCHANGED <<link, session, teardown, table, server, decode>>

\* The send of a call fails: request or CANCEL.
LoseInCall(q, result) ==
  /\ Lose
  /\ outcome' = [outcome EXCEPT ![q] = result]
  /\ Go(q, HeldAt)
  /\ stream' = [stream EXCEPT ![q].asked = generation, ![q].gen = 0]
  /\ UNCHANGED <<session, pending, decode>>

SendFails(q) ==
  /\ pc[q] = "checked"
  /\ LoseInCall(q, IF IsFinance(q) THEN "none" ELSE "disconnected")
  /\ UNCHANGED <<entry, cancels>>

Resume(q) ==
  /\ Released(pc[q], stream[q].asked)
  /\ Go(q, IF IsFinance(q) THEN "waiting" ELSE "leaving")
  /\ UNCHANGED <<link, session, teardown, outcome, table, server, decode>>

\* The event is set: the result is read once the entry is out of the table.
Finish(q) ==
  /\ pc[q] \in {"waiting", "grace"}
  /\ entry[q].event
  /\ pending' = pending \ {q}
  /\ outcome' = [outcome EXCEPT ![q] =
       CASE entry[q].error = "aborted" -> "disconnected"
         [] entry[q].error = "failed"  -> "failed"
         [] OTHER                      -> "rows"]
  /\ Go(q, "done")
  /\ UNCHANGED <<link, session, teardown, entry, cancels, server, decode>>

\* The server hears of a CANCEL that reaches its transport.
Stop(q) == IF connected /\ generation = entry[q].gen
           THEN [stream EXCEPT ![q].gen = 0] ELSE stream

\* HistoryV2RequestState.cancel.
Cancel(q) ==
  /\ entry' = [entry EXCEPT ![q].active = FALSE]
  /\ CountCancel(q)

\* The budget is used up.  An active stream is cancelled; an answer that is being
\* completed, and a V1 batch, get a short grace.
Expire(q) ==
  /\ pc[q] = "waiting"
  /\ ~entry[q].event
  /\ ~IsFinance(q)
  /\ IF entry[q].active
     THEN /\ Cancel(q)
          /\ \/ /\ stream' = Stop(q)
                /\ Leave(q, "timeout")
                /\ UNCHANGED <<link, session, teardown, pending, wire, faults, decode>>
             \/ /\ generation = entry[q].gen
                /\ LoseInCall(q, "timeout")
     ELSE /\ Go(q, "grace")
          /\ UNCHANGED <<link, session, teardown, outcome, table, server, decode>>

GraceEnds(q) ==
  /\ pc[q] = "grace"
  /\ ~entry[q].event
  /\ Leave(q, "timeout")
  /\ UNCHANGED <<link, session, teardown, table, server, decode>>

\* Bug variant: a call that ends in an exception leaves its entry behind.
DropEntryForgotten(q) == pending' = pending

DropEntry(q) == pending' = pending \ {q}

\* The entry is removed; a request that was not sent is cancelled for itself.
Depart(q) ==
  /\ pc[q] = "leaving"
  /\ DropEntry(q)
  /\ entry' = [entry EXCEPT ![q].active = FALSE]
  /\ Go(q, "done")
  /\ UNCHANGED <<link, session, teardown, outcome, cancels, server, decode>>

-----------------------------------------------------------------------------
(***************************************************************************)
(* A finance call, where it goes its own way.                              *)
(***************************************************************************)
BeginFinance(q) ==
  /\ pc[q] = "idle"
  /\ authenticated
  /\ entry' = [entry EXCEPT ![q].version = 0]
  /\ Go(q, "asking")
  /\ UNCHANGED <<link, session, teardown, outcome, pending, cancels, server, decode>>

RegisterFinance(q) ==
  /\ pc[q] = "asking"
  /\ pending' = pending \cup {q}
  /\ Go(q, "checked")
  /\ UNCHANGED <<link, session, teardown, outcome, entry, cancels, server, decode>>

\* Without a transport nothing is sent, and the call waits all the same.
WaitUnsent(q) ==
  /\ pc[q] = "checked"
  /\ IsFinance(q)
  /\ ~connected
  /\ closing # "closed"
  /\ Go(q, "waiting")
  /\ UNCHANGED <<link, session, teardown, outcome, table, server, decode>>

\* After close() there is no connection to send on: the call raises and its entry
\* stays in the table.
FindClosed(q) ==
  /\ pc[q] = "checked"
  /\ IsFinance(q)
  /\ closing = "closed"
  /\ outcome' = [outcome EXCEPT ![q] = "failed"]
  /\ Go(q, "done")
  /\ UNCHANGED <<link, session, teardown, table, server, decode>>

ExpireFinance(q) ==
  /\ pc[q] = "waiting"
  /\ IsFinance(q)
  /\ ~entry[q].event
  /\ DropEntry(q)
  /\ outcome' = [outcome EXCEPT ![q] = "timeout"]
  /\ Go(q, "done")
  /\ UNCHANGED <<link, session, teardown, entry, cancels, server, decode>>

-----------------------------------------------------------------------------
(***************************************************************************)
(* The server and its relay (external).  A request is served until its     *)
(* call is over; what was sent by then may still arrive.                   *)
(***************************************************************************)
Serving(q) ==
  /\ stream[q].gen = generation
  /\ connected
  /\ pc[q] # "done"
  /\ Len(wire) < MaxWire

\* What may be sent next, with the stream after it: V1 batches, or BEGIN, blocks
\* within the window, and END, which counts them.
NextFrames(q) ==
  LET s == stream[q] IN
  IF s.version = 1
  THEN {[kind |-> "batch", seq |-> s.next,
         then |-> [s EXCEPT !.next = @ + 1, !.gen = IF s.next = s.total THEN 0 ELSE @]]}
  ELSE IF s.next = 0
  THEN {[kind |-> "begin", seq |-> 0, then |-> [s EXCEPT !.next = 1]]}
  ELSE {[kind |-> "end", seq |-> s.next - 1,
         then |-> [s EXCEPT !.gen = 0, !.total = s.next - 1]]}
       \cup {[kind |-> "data", seq |-> s.next,
              then |-> [s EXCEPT !.next = @ + 1, !.credit = @ - 1]] :
                x \in {y \in {s.credit} : y > 0 /\ s.next <= MaxChunks}}

FrameOf(q, m) == [q |-> q, kind |-> m.kind, seq |-> m.seq]

Put(q, m) == wire' = Append(wire, FrameOf(q, m))

ServerSends(q) ==
  /\ Serving(q)
  /\ \E m \in NextFrames(q) : Put(q, m) /\ stream' = [stream EXCEPT ![q] = m.then]
  /\ UNCHANGED <<link, session, teardown, call, table, faults, decode>>

\* It gives up: HISTORY_ERROR counts what it sent, a V1 refusal says nothing.
ServerFails(q) ==
  /\ Serving(q)
  /\ Fault
  /\ Put(q, IF stream[q].version = 1 THEN [kind |-> "refusal", seq |-> 0]
            ELSE [kind |-> "error",
                  seq |-> IF stream[q].next = 0 THEN 0 ELSE stream[q].next - 1])
  /\ stream' = [stream EXCEPT ![q].gen = 0]
  /\ UNCHANGED <<link, session, teardown, call, table, decode>>

\* A V2 frame is dropped or repeated on the way.
RelayFails(q) ==
  /\ Serving(q)
  /\ stream[q].version = 2
  /\ Fault
  /\ \E m \in NextFrames(q) :
       /\ stream' = [stream EXCEPT ![q] = [m.then EXCEPT !.lossy = TRUE]]
       /\ wire' \in {wire, wire \o <<FrameOf(q, m), FrameOf(q, m)>>}
  /\ UNCHANGED <<link, session, teardown, call, table, decode>>

-----------------------------------------------------------------------------
(***************************************************************************)
(* The receive thread: history frames.                                     *)
(***************************************************************************)
\* The receive thread of the transport is not inside a handler.
Receiving == connected /\ \A f \in failing : f.by # generation

HasEntry(q) == q \in pending

\* _enqueue_history_v2_frame; a full queue fails the request.
Enqueue(frame) ==
  LET e == entry[frame.q] IN
  IF ~HasEntry(frame.q) \/ e.version # 2 \/ e.gen # generation
  THEN UNCHANGED <<queue, failing>>
  ELSE IF Len(queue) < QueueLimit
  THEN queue' = Append(queue, frame) /\ UNCHANGED failing
  ELSE /\ failing' = failing \cup {[q |-> frame.q, by |-> generation, at |-> "cancel"]}
       /\ UNCHANGED queue

ReceiveFrame ==
  /\ Receiving
  /\ wire # <<>>
  /\ Head(wire).kind \notin {"batch", "refusal"}
  /\ wire' = Tail(wire)
  /\ Enqueue(Head(wire))
  /\ UNCHANGED <<link, session, teardown, call, table, stream,
                 faults, worker>>

\* _handle_history_response: a V2 request fails, the batches of a V1 request add up.
ReceiveBatch ==
  /\ Receiving
  /\ wire # <<>>
  /\ Head(wire).kind \in {"batch", "refusal"}
  /\ wire' = Tail(wire)
  /\ LET frame == Head(wire)
         q == frame.q
         got == Append(entry[q].got, frame.seq)
     IN
     IF ~HasEntry(q) THEN UNCHANGED <<entry, failing>>
     ELSE IF entry[q].version = 2
     THEN /\ failing' = failing \cup {[q |-> q, by |-> generation, at |-> "cancel"]}
          /\ UNCHANGED entry
     ELSE /\ entry' = [entry EXCEPT ![q] =
               IF frame.kind = "refusal"
               THEN [@ EXCEPT !.error = "failed", !.event = TRUE]
               ELSE [@ EXCEPT !.got = got,
                       !.event = entry[q].event \/ Len(got) >= stream[q].total]]
          /\ UNCHANGED failing
  /\ UNCHANGED <<link, session, teardown, call, pending, cancels, stream, faults,
                 queue, worker>>

-----------------------------------------------------------------------------
(***************************************************************************)
(* _fail_history_v2_entry, in the receive thread or in the worker (0).     *)
(***************************************************************************)
FailGoes(f, place) == failing' = (failing \ {f}) \cup {[f EXCEPT !.at = place]}

FailCancels(f) ==
  /\ f.at = "cancel"
  /\ Cancel(f.q)
  /\ stream' = IF entry[f.q].active THEN Stop(f.q) ELSE stream
  /\ FailGoes(f, "tell")
  /\ UNCHANGED <<link, session, teardown, call, pending, wire, faults, queue, worker>>

\* The CANCEL is not sent, which loses the transport.
FailBreaks(f) ==
  /\ f.at = "cancel"
  /\ entry[f.q].active
  /\ generation = entry[f.q].gen
  /\ Cancel(f.q)
  /\ Lose
  /\ FailGoes(f, HeldAt)
  /\ UNCHANGED <<session, call, pending, stream, queue, worker>>

FailResumes(f) ==
  /\ Released(f.at, entry[f.q].gen)
  /\ FailGoes(f, "tell")
  /\ UNCHANGED <<link, session, teardown, call, table, server, queue, worker>>

FailTells(f) ==
  /\ f.at = "tell"
  /\ failing' = failing \ {f}
  /\ IF HasEntry(f.q) /\ ~entry[f.q].event
     THEN entry' = [entry EXCEPT ![f.q].error = "failed", ![f.q].event = TRUE]
     ELSE UNCHANGED entry
  /\ UNCHANGED <<link, session, teardown, call, pending, cancels, server, queue,
                 worker>>

-----------------------------------------------------------------------------
(***************************************************************************)
(* The decode worker.                                                      *)
(***************************************************************************)
FailInWorker(q) ==
  failing' = failing \cup {[q |-> q, by |-> 0, at |-> "cancel"]}

\* Bug variant: a worker is started though one is running.
AnyWorkerFree == TRUE

\* _ensure_history_v2_worker starts one worker only.
WorkerFree == worker = {} /\ \A f \in failing : f.by # 0

\* It looks the entry up and compares the capability generation.
WorkerTakes ==
  /\ WorkerFree
  /\ closing # "closed"
  /\ queue # <<>>
  /\ queue' = Tail(queue)
  /\ LET frame == Head(queue) IN
     IF ~HasEntry(frame.q) THEN UNCHANGED <<worker, failing>>
     ELSE IF ~entry[frame.q].cap
     THEN FailInWorker(frame.q) /\ UNCHANGED worker
     ELSE worker' = worker \cup {[frame |-> frame, at |-> "handle"]} /\ UNCHANGED failing
  /\ UNCHANGED <<link, session, teardown, call, table, server>>

\* Bug variants: an END that is not compared with the blocks; a stream that was
\* cancelled.
FitsUncounted(e, frame) ==
  /\ e.active
  /\ CASE frame.kind = "begin" -> ~e.begun
       [] frame.kind = "data"  -> e.begun /\ frame.seq = Len(e.got) + 1
       [] frame.kind = "end"   -> e.begun
       [] frame.kind = "error" -> frame.seq = Len(e.got)

FitsWhenCancelled(e, frame) ==
  CASE frame.kind = "begin" -> ~e.begun
    [] frame.kind = "data"  -> e.begun /\ frame.seq = Len(e.got) + 1
    [] frame.kind = "end"   -> e.begun /\ frame.seq = Len(e.got)
    [] frame.kind = "error" -> frame.seq = Len(e.got)

\* The integrity checks of HistoryV2RequestState.handle_frame.
Fits(e, frame) ==
  /\ e.active
  /\ CASE frame.kind = "begin" -> ~e.begun
       [] frame.kind = "data"  -> e.begun /\ frame.seq = Len(e.got) + 1
       [] frame.kind = "end"   -> e.begun /\ frame.seq = Len(e.got)
       [] frame.kind = "error" -> frame.seq = Len(e.got)

Absorb(e, frame) ==
  CASE frame.kind = "begin" -> [e EXCEPT !.begun = TRUE]
    [] frame.kind = "data"  -> [e EXCEPT !.got = Append(@, frame.seq)]
    [] OTHER                -> [e EXCEPT !.active = FALSE]

WorkerHandles(w) ==
  /\ w.at = "handle"
  /\ LET q == w.frame.q IN
     IF Fits(entry[q], w.frame)
     THEN /\ entry' = [entry EXCEPT ![q] = Absorb(@, w.frame)]
          /\ worker' = CASE w.frame.kind = "begin" -> {}
                         [] w.frame.kind = "data"  -> {[w EXCEPT !.at = "grant"]}
                         [] OTHER                  -> {[w EXCEPT !.at = "tell"]}
          /\ UNCHANGED failing
     ELSE /\ FailInWorker(q)
          /\ worker' = {}
          /\ UNCHANGED entry
  /\ UNCHANGED <<link, session, teardown, call, pending, cancels, server, queue>>

\* Bug variant: the window is not replenished.
GrantNothing(q) == stream

Grant(q) == [stream EXCEPT ![q].credit = @ + 1]

\* WINDOW_UPDATE for the block, on the transport of the request.
WorkerGrants(w) ==
  /\ w.at = "grant"
  /\ worker' = {}
  /\ LET q == w.frame.q IN
     IF connected /\ generation = entry[q].gen
     THEN stream' = Grant(q) /\ UNCHANGED failing
     ELSE FailInWorker(q) /\ UNCHANGED stream
  /\ UNCHANGED <<link, session, teardown, call, table, wire, faults,
                 queue>>

\* The WINDOW_UPDATE is not sent, which loses the transport.
WorkerBreaks(w) ==
  /\ w.at = "grant"
  /\ generation = entry[w.frame.q].gen
  /\ Lose
  /\ worker' = {[w EXCEPT !.at = HeldAt]}
  /\ UNCHANGED <<session, call, table, stream, queue, failing>>

WorkerResumes(w) ==
  /\ Released(w.at, entry[w.frame.q].gen)
  /\ worker' = {}
  /\ FailInWorker(w.frame.q)
  /\ UNCHANGED <<link, session, teardown, call, table, server, queue>>

\* END or ERROR completes an entry that is still in the table.
WorkerTells(w) ==
  /\ w.at = "tell"
  /\ worker' = {}
  /\ LET q == w.frame.q IN
     IF HasEntry(q)
     THEN entry' = [entry EXCEPT ![q] =
            IF w.frame.kind = "error"
            THEN [@ EXCEPT !.error = "failed", !.event = TRUE]
            ELSE [@ EXCEPT !.event = TRUE]]
     ELSE UNCHANGED entry
  /\ UNCHANGED <<link, session, teardown, call, pending, cancels, server, queue,
                 failing>>

-----------------------------------------------------------------------------
CallStep(q) ==
  \/ Select(q)
  \/ RefuseToSelect(q)
  \/ Register(q)
  \/ CheckGeneration(q)
  \/ SendRequest(q)
  \/ NoTransport(q)
  \/ SendFails(q)
  \/ Resume(q)
  \/ Finish(q)
  \/ Expire(q)
  \/ GraceEnds(q)
  \/ Depart(q)
  \/ RegisterFinance(q)
  \/ WaitUnsent(q)
  \/ FindClosed(q)
  \/ ExpireFinance(q)

CallbackStep(g) ==
  \/ CallbackReset(g)
  \/ CallbackTake(g)

ReceiveStep ==
  \/ ReceiveFrame
  \/ ReceiveBatch
  \/ \E f \in failing : FailCancels(f) \/ FailResumes(f) \/ FailTells(f)

WorkerStep ==
  \/ WorkerTakes
  \/ \E w \in worker :
       WorkerHandles(w) \/ WorkerGrants(w) \/ WorkerResumes(w) \/ WorkerTells(w)

Next ==
  \/ Break
  \/ Open
  \/ RestoreFails
  \/ Authenticate
  \/ MarkAuthenticated
  \/ FinishRestore
  \/ \E g \in Generations : CallbackStep(g)
  \/ \E g \in 0 .. MaxGeneration, q \in Queries : Abort(g, q)
  \/ CloseTake
  \/ CloseReset
  \/ CloseTransport
  \/ Settle
  \/ ReceiveStep
  \/ \E q \in Queries : Begin(q) \/ BeginFinance(q) \/ CallStep(q)
  \/ \E q \in Queries : ServerSends(q) \/ ServerFails(q) \/ RelayFails(q)
  \/ WorkerStep
  \/ \E f \in failing : FailBreaks(f)
  \/ \E w \in worker : WorkerBreaks(w)

Spec == Init /\ [][Next]_vars

\* Every thread of the client runs on, every wait of a call has a timeout, a restore
\* whose AUTH was answered completes, and so does close() once begun.  Nothing is
\* asked of the network or the server: Open and Authenticate are theirs.
Fairness ==
  /\ \A q \in Queries : WF_vars(CallStep(q))
  /\ \A g \in Generations : WF_vars(CallbackStep(g))
  /\ WF_vars(\E g \in 0 .. MaxGeneration, q \in Queries : Abort(g, q))
  /\ WF_vars(CloseReset \/ CloseTransport)
  /\ WF_vars(MarkAuthenticated \/ FinishRestore)
  /\ WF_vars(Settle)
  /\ WF_vars(ReceiveStep)
  /\ WF_vars(WorkerStep)

FairSpec == Spec /\ Fairness

-----------------------------------------------------------------------------
(***************************************************************************)
(* Properties.                                                             *)
(***************************************************************************)

\* A call as HistoryAnswer sees it: what it was told, until it has its outcome; a call
\* that is over has one.
CallStatus ==
  [q \in Queries |->
     IF outcome[q] # "none" \/ pc[q] = "done" THEN outcome[q]
     ELSE IF entry[q].event
     THEN IF entry[q].error = "none" THEN "told" ELSE "refused"
     ELSE IF pc[q] = "idle" THEN "idle" ELSE "open"]

Totals == [q \in Queries |-> stream[q].total]

Given == [q \in Queries |->
            IF CallStatus[q] \in {"told", "rows"} THEN entry[q].got ELSE <<>>]

Promise == INSTANCE HistoryAnswer WITH status <- CallStatus, total <- Totals,
                                       rows <- Given

\* The code implements HistoryAnswer: whatever threads, frames and losses do meanwhile,
\* a call that is told of its answer has all of it and returns it unless an error
\* overtakes it, one that is told of an error raises it, and no outcome changes.
PromiseSpec == Promise!Spec

\* Timeout, backpressure, a bad frame, a lost transport and close() may all want to
\* cancel one stream: at most one CANCEL comes of it, and none once the stream has
\* ended by itself ("test_timeout_sends_one_idempotent_cancel").
OneCancel ==
  \A q \in Queries :
    /\ cancels[q] <= 1
    /\ cancels[q] = 1 => ~entry[q].active
    /\ cancels[q] = 1 /\ entry[q].event => entry[q].error # "none"

\* A cancelled or completed stream takes no further block, though the frame was
\* queued before and its entry may still be in the table.
DeadStreamsKeepStill ==
  [][\A q \in Queries :
       entry[q].version = 2 /\ ~entry[q].active /\ pc[q] # "negotiating"
         => entry'[q].got = entry[q].got]_vars

\* The table holds no entry of a call that is over: every way out of the call
\* removes it, and a disconnect that takes the table puts nothing back.  Only a
\* finance call that finds its client closed leaves one behind.
TableIsClean ==
  \A q \in pending : pc[q] \in InCall \/ (IsFinance(q) /\ closing = "closed")

\* The request went out, or failed to, on the transport the call knows of.
AskedOn(q, g) ==
  /\ stream[q].asked = g
  /\ IsFinance(q) \/ g = entry[q].gen

\* Blocks of q on their way to the stream, or whose window is about to be given back.
Underway(q) ==
  Cardinality({i \in 1 .. Len(wire) : wire[i].q = q /\ wire[i].kind = "data"})
  + Cardinality({i \in 1 .. Len(queue) : queue[i].q = q /\ queue[i].kind = "data"})
  + Cardinality({w \in worker : w.frame.q = q /\ w.frame.kind = "data"})

\* Window is neither lost nor invented while a stream runs: what the server may
\* still send and what is under way add up to the initial window.  So the server is
\* never out of window with nothing under way, each side waiting for the other.
WindowIsKept ==
  \A q \in Queries :
    /\ entry[q].active
    /\ q \in pending
    /\ stream[q].gen = generation
    /\ stream[q].asked = entry[q].gen
    /\ stream[q].version = 2
    /\ connected
    /\ ~stream[q].lossy
    /\ \A f \in failing : f.q # q
    => stream[q].credit + Underway(q) = Window

\* Whatever was sent on a transport before its loss is in the table when the callback
\* of the loss takes it, so the call is told, or about to be: no call slips between
\* registering, checking the generation and sending.
AbortMissesNone ==
  \A q \in Queries, g \in Generations :
    /\ pc[q] \in {"waiting", "grace"}
    /\ AskedOn(q, g)
    /\ loss[g] = "taken"
    => entry[q].event \/ \E h \in 0 .. MaxGeneration : q \in aborting[h]

\* What is going to end a wait whose transport is gone.
IsOwed(q, g) ==
  \/ \E h \in 0 .. MaxGeneration : q \in aborting[h]
  \/ q \in pending /\ loss[g] \in {"owed", "reset"}

Interrupted(q, g) ==
  /\ pc[q] = "waiting"
  /\ ~entry[q].event
  /\ AskedOn(q, g)
  /\ ~(connected /\ generation = g)
  /\ closing = "open"

\* "DisconnectedError: 在途查询连接中断": a call whose transport is gone is about to
\* be told so, and does not sit out its timeout.
InterruptedIsTold ==
  \A q \in Queries, g \in Generations : Interrupted(q, g) => IsOwed(q, g)

\* "timeout 是查询阶段的预算": a call that began ends, for all its waits have a
\* timeout.
CallEnds == \A q \in Queries : pc[q] = "negotiating" ~> pc[q] = "done"

=============================================================================
