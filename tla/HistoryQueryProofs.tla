------------------------ MODULE HistoryQueryProofs -------------------------
(***************************************************************************)
(* HistoryQuery: proofs, for any calls and transports, any window, any     *)
(* capacity of the decode queue and any other bounds.                      *)
(***************************************************************************)
EXTENDS HistoryQuery, FiniteSetTheorems, TLAPS

-----------------------------------------------------------------------------
(***************************************************************************)
(* Types.                                                                  *)
(***************************************************************************)
LinkTypes ==
  /\ generation \in Generations
  /\ connected \in BOOLEAN
  /\ restoring \in Restoring
  /\ authenticated \in BOOLEAN
  /\ settling \in BOOLEAN
  /\ v2 \in BOOLEAN

TeardownTypes ==
  /\ loss \in [Generations -> {"none", "owed", "reset", "taken"}]
  /\ aborting \in [0 .. MaxGeneration -> SUBSET Queries]
  /\ closing \in {"open", "taken", "reset", "closed"}
  /\ faults \in 0 .. MaxFaults

CallTypes ==
  /\ pc \in [Queries -> Points]
  /\ outcome \in [Queries -> Outcomes]
  /\ pending \subseteq Queries

EntryTypes ==
  /\ entry \in [Queries -> Entry]
  /\ cancels \in [Queries -> Nat]

WireTypes ==
  /\ stream \in [Queries -> Stream]
  /\ wire \in Seq(Frame)

OneWorker == worker = {} \/ \E w \in Work : worker = {w}

WorkTypes ==
  /\ queue \in Seq(Frame)
  /\ OneWorker
  /\ failing \subseteq Failing

Types == LinkTypes /\ TeardownTypes /\ CallTypes /\ EntryTypes /\ WireTypes /\ WorkTypes

\* One worker is at most one element.
LEMMA TypesSuffice == Types => TypeOK
<1> SUFFICES ASSUME Types
             PROVE  TypeOK
  OBVIOUS
<1>1. worker \subseteq Work /\ Cardinality(worker) <= 1
  <2>1. CASE worker = {}
    BY <2>1, FS_EmptySet
  <2>2. ASSUME NEW w \in Work, worker = {w}
        PROVE  worker \subseteq Work /\ Cardinality(worker) <= 1
    BY <2>2, FS_Singleton
  <2> QED
    BY <2>1, <2>2 DEF Types, WorkTypes, OneWorker
<1> QED
  BY <1>1 DEF Types, LinkTypes, TeardownTypes, CallTypes, EntryTypes, WireTypes, WorkTypes,
              TypeOK

\* Where a call may go.
LEMMA Calls ==
  /\ InCall \subseteq Points
  /\ {"idle", "negotiating", "selected", "asking", "done"} \subseteq Points
  /\ InCall = {"registered", "checked", "waiting", "grace", "callback", "blocked", "leaving"}
  /\ HeldAt \in {"callback", "blocked"}
BY DEF InCall, Points, HeldAt

\* A fault is counted.
LEMMA FaultTypes ==
  ASSUME TeardownTypes, Fault
  PROVE  faults' \in 0 .. MaxFaults
BY BoundAssumption DEF TeardownTypes, Fault

\* The types hold at first.
LEMMA InitTypes == Init => Types
<1> SUFFICES ASSUME Init
             PROVE  Types
  OBVIOUS
<1>1. LinkTypes
  <2>1. generation \in Generations /\ restoring \in Restoring
    BY BoundAssumption DEF Init, Generations, Restoring
  <2>2. /\ connected \in BOOLEAN /\ authenticated \in BOOLEAN /\ settling \in BOOLEAN
        /\ v2 \in BOOLEAN
    BY Zenon DEF Init
  <2> QED
    BY <2>1, <2>2 DEF LinkTypes
<1>2. TeardownTypes
  BY BoundAssumption DEF Init, TeardownTypes
<1>3. CallTypes
  BY Calls DEF Init, CallTypes, Outcomes
<1>4. EntryTypes
  BY BoundAssumption DEF Init, EntryTypes, NoEntry, Entry
<1>5. WireTypes
  BY BoundAssumption DEF Init, WireTypes, NoStream, Stream
<1>6. WorkTypes
  BY DEF Init, WorkTypes, OneWorker
<1> QED
  BY <1>1, <1>2, <1>3, <1>4, <1>5, <1>6 DEF Types

\* Entries stay entries when they are written to.
LEMMA EntryEdits ==
  ASSUME NEW e \in Entry, NEW g \in 0 .. MaxGeneration, NEW got \in Seq(Nat)
  PROVE  /\ [e EXCEPT !.cap = FALSE] \in Entry
         /\ [e EXCEPT !.active = FALSE] \in Entry
         /\ [e EXCEPT !.active = FALSE, !.error = "aborted", !.event = TRUE] \in Entry
         /\ [e EXCEPT !.gen = g, !.cap = TRUE] \in Entry
         /\ [e EXCEPT !.gen = g] \in Entry
         /\ [e EXCEPT !.version = 0] \in Entry
         /\ [e EXCEPT !.version = 1, !.active = FALSE] \in Entry
         /\ [e EXCEPT !.version = 2, !.active = TRUE] \in Entry
         /\ [e EXCEPT !.error = "failed", !.event = TRUE] \in Entry
         /\ [e EXCEPT !.event = TRUE] \in Entry
         /\ [e EXCEPT !.begun = TRUE] \in Entry
         /\ [e EXCEPT !.got = got] \in Entry
         /\ [e EXCEPT !.got = got, !.event = TRUE] \in Entry
         /\ [e EXCEPT !.got = got, !.event = FALSE] \in Entry
<1> DEFINE S == Seq(Nat)
           V == 0 .. 2
           G == 0 .. MaxGeneration
<1>1. got \in S /\ g \in G /\ 0 \in V /\ 1 \in V /\ 2 \in V
  OBVIOUS
<1> HIDE DEF S, V, G
<1>2. Entry = [version : V, gen : G, cap : BOOLEAN, active : BOOLEAN, begun : BOOLEAN,
               got : S, error : {"none", "aborted", "failed"}, event : BOOLEAN]
  BY DEF Entry, S, V, G
<1>3. /\ [e EXCEPT !.cap = FALSE] \in Entry
      /\ [e EXCEPT !.active = FALSE] \in Entry
      /\ [e EXCEPT !.active = FALSE, !.error = "aborted", !.event = TRUE] \in Entry
  BY <1>2
<1>4. /\ [e EXCEPT !.gen = g, !.cap = TRUE] \in Entry
      /\ [e EXCEPT !.gen = g] \in Entry
  BY <1>1, <1>2
<1>5. /\ [e EXCEPT !.version = 0] \in Entry
      /\ [e EXCEPT !.version = 1, !.active = FALSE] \in Entry
      /\ [e EXCEPT !.version = 2, !.active = TRUE] \in Entry
  BY <1>1, <1>2
<1>6. /\ [e EXCEPT !.error = "failed", !.event = TRUE] \in Entry
      /\ [e EXCEPT !.event = TRUE] \in Entry
      /\ [e EXCEPT !.begun = TRUE] \in Entry
  BY <1>2
<1>7. /\ [e EXCEPT !.got = got] \in Entry
      /\ [e EXCEPT !.got = got, !.event = TRUE] \in Entry
      /\ [e EXCEPT !.got = got, !.event = FALSE] \in Entry
  BY <1>1, <1>2
<1> QED
  BY <1>3, <1>4, <1>5, <1>6, <1>7


-----------------------------------------------------------------------------
(***************************************************************************)
(* The steps by who takes them: the transport, its teardown, the server, a *)
(* thread that fails a request, the decode worker.                         *)
(***************************************************************************)
LinkStep ==
  \/ Break \/ Open \/ RestoreFails \/ Authenticate \/ MarkAuthenticated \/ FinishRestore
  \/ Settle
TeardownStep ==
  \/ CloseTake \/ CloseReset \/ CloseTransport
  \/ \E g \in Generations : CallbackStep(g)
  \/ \E g \in 0 .. MaxGeneration, q \in Queries : Abort(g, q)
ServerStep(q) == ServerSends(q) \/ ServerFails(q) \/ RelayFails(q)
FailStep(f) == FailCancels(f) \/ FailResumes(f) \/ FailTells(f) \/ FailBreaks(f)
WorkStep(w) ==
  WorkerHandles(w) \/ WorkerGrants(w) \/ WorkerResumes(w) \/ WorkerTells(w) \/ WorkerBreaks(w)

\* The steps by who takes them.
LEMMA NextSteps ==
  ASSUME Next
  PROVE  \/ LinkStep \/ TeardownStep \/ ReceiveFrame \/ ReceiveBatch \/ WorkerTakes
         \/ \E q \in Queries : Begin(q) \/ BeginFinance(q) \/ CallStep(q) \/ ServerStep(q)
         \/ \E f \in failing : FailStep(f)
         \/ \E w \in worker : WorkStep(w)
BY DEF Next, LinkStep, TeardownStep, ServerStep, FailStep, WorkStep, ReceiveStep, WorkerStep

\* Edits of the entries.
LEMMA EntryWritten ==
  ASSUME EntryTypes,
         \/ entry' \in {entry, Outdated}
         \/ \E q \in Queries, e \in Entry : entry' = [entry EXCEPT ![q] = e]
  PROVE  entry' \in [Queries -> Entry]
<1>1. Outdated \in [Queries -> Entry]
  <2>1. \A e \in Entry : [e EXCEPT !.cap = FALSE] \in Entry
    <3>1. 0 \in 0 .. MaxGeneration /\ <<>> \in Seq(Nat)
      BY BoundAssumption
    <3> QED
      BY <3>1, EntryEdits
  <2> QED
    BY <2>1 DEF Outdated, EntryTypes
<1> QED
  BY <1>1 DEF EntryTypes

\* A CANCEL is counted.
LEMMA CountTypes ==
  ASSUME EntryTypes, NEW q \in Queries, CountCancel(q)
  PROVE  cancels' \in [Queries -> Nat]
<1>1. CASE cancels' = [cancels EXCEPT ![q] = @ + 1]
  BY <1>1 DEF EntryTypes
<1>2. CASE cancels' = [cancels EXCEPT ![q] = @ + 0]
  BY <1>2 DEF EntryTypes
<1> QED
  BY <1>1, <1>2 DEF CountCancel

\* A wire is emptied.
LEMMA EmptyWire == <<>> \in Seq(Frame) /\ <<>> \in Seq(Nat)
OBVIOUS

\* Transports come and go.
LEMMA LinkStepTypes ==
  ASSUME Types, LinkStep
  PROVE  Types'
<1>1. LinkTypes'
  <2>1. generation' \in Generations /\ restoring' \in Restoring
    <3>1. \/ generation' = generation
          \/ generation < MaxGeneration /\ generation' = generation + 1
      BY DEF LinkStep, Break, Lose, Open, RestoreFails, Authenticate, MarkAuthenticated,
         FinishRestore, Settle, link
    <3>2. restoring' = restoring \/ restoring' \in Restoring
      BY DEF LinkStep, Break, Lose, Open, RestoreFails, Authenticate, MarkAuthenticated,
         FinishRestore, Settle, link, Restoring
    <3> QED
      BY <3>1, <3>2, BoundAssumption DEF Types, LinkTypes, Generations
  <2>2. /\ connected' \in {connected, TRUE, FALSE}
        /\ authenticated' \in {authenticated, TRUE, FALSE}
        /\ settling' = settling \/ settling' \in BOOLEAN
        /\ v2' = v2 \/ v2' \in BOOLEAN
    BY DEF LinkStep, Break, Lose, Open, RestoreFails, Authenticate, MarkAuthenticated,
         FinishRestore, Settle, link, session
  <2> QED
    BY <2>1, <2>2 DEF Types, LinkTypes
<1>2. TeardownTypes'
  <2>1. /\ aborting' = aborting /\ closing' = closing
        /\ (faults' = faults \/ Fault)
        /\ loss' = loss \/ loss' = [loss EXCEPT ![generation] = "owed"]
    BY DEF LinkStep, Break, Lose, Open, RestoreFails, Authenticate, MarkAuthenticated,
         FinishRestore, Settle, teardown, server
  <2> QED
    BY <2>1, FaultTypes DEF Types, TeardownTypes
<1>3. CallTypes'
  BY DEF Types, CallTypes, LinkStep, Break, Lose, Open, RestoreFails, Authenticate,
     MarkAuthenticated, FinishRestore, Settle, call, table
<1>4. EntryTypes'
  <2>1. entry' \in {entry, Outdated} /\ cancels' = cancels
    BY DEF LinkStep, Break, Lose, Open, RestoreFails, Authenticate, MarkAuthenticated,
         FinishRestore, Settle, table
  <2> QED
    BY <2>1, EntryWritten DEF Types, EntryTypes
<1>5. WireTypes'
  <2>1. stream' = stream /\ wire' \in {wire, <<>>}
    BY DEF LinkStep, Break, Lose, Open, RestoreFails, Authenticate, MarkAuthenticated,
         FinishRestore, Settle, server
  <2> QED
    BY <2>1, EmptyWire DEF Types, WireTypes
<1>6. WorkTypes'
  BY DEF Types, WorkTypes, OneWorker, LinkStep, Break, Lose, Open, RestoreFails,
     Authenticate, MarkAuthenticated, FinishRestore, Settle, decode
<1> QED
  BY <1>1, <1>2, <1>3, <1>4, <1>5, <1>6 DEF Types

\* Losses and close().
LEMMA TeardownStepTypes ==
  ASSUME Types, TeardownStep
  PROVE  Types'
<1>1. LinkTypes'
  <2>1. /\ generation' = generation /\ restoring' = restoring
        /\ connected' \in {connected, FALSE}
        /\ authenticated' \in {authenticated, FALSE}
        /\ settling' \in {settling, FALSE}
        /\ v2' \in {v2, FALSE}
    BY DEF TeardownStep, CloseTake, CloseReset, CloseTransport, CallbackStep,
         CallbackReset, CallbackTake, Abort, ResetSession, link, session
  <2> QED
    BY <2>1 DEF Types, LinkTypes
<1>2. TeardownTypes'
  <2>1. /\ faults' = faults \/ Fault
        /\ loss' = loss \/ \E g \in Generations, l \in {"none", "reset", "taken"} :
                             loss' = [loss EXCEPT ![g] = l]
        /\ closing' = closing \/ closing' \in {"taken", "reset", "closed"}
    BY DEF TeardownStep, CloseTake, CloseReset, CloseTransport, CallbackStep,
         CallbackReset, CallbackTake, Abort, teardown, server
  <2>2. \/ aborting' = aborting
        \/ \E g \in 0 .. MaxGeneration :
             \/ aborting' = [aborting EXCEPT ![g] = pending]
             \/ \E q \in Queries : aborting' = [aborting EXCEPT ![g] = @ \ {q}]
    <3>1. 0 \in 0 .. MaxGeneration /\ Generations \subseteq 0 .. MaxGeneration
      BY BoundAssumption DEF Generations
    <3> QED
      BY <3>1 DEF TeardownStep, CloseTake, CloseReset, CloseTransport, CallbackStep,
         CallbackReset, CallbackTake, Abort, teardown, server, TakePending
  <2> QED
    BY <2>1, <2>2, FaultTypes DEF Types, TeardownTypes, CallTypes
<1>3. CallTypes'
  BY DEF Types, CallTypes, TeardownStep, CloseTake, CloseReset, CloseTransport,
     CallbackStep, CallbackReset, CallbackTake, Abort, call, table
<1>4. EntryTypes'
  <2>1. \/ entry' \in {entry, Outdated} /\ cancels' = cancels
        \/ \E q \in Queries :
             /\ entry' = [entry EXCEPT ![q] = [@ EXCEPT !.active = FALSE,
                                                        !.error = "aborted", !.event = TRUE]]
             /\ CountCancel(q)
    BY DEF TeardownStep, CloseTake, CloseReset, CloseTransport, CallbackStep,
         CallbackReset, CallbackTake, Abort, ResetSession, table
  <2>2. ASSUME NEW q \in Queries
        PROVE  [entry[q] EXCEPT !.active = FALSE, !.error = "aborted", !.event = TRUE] \in Entry
    <3>1. 0 \in 0 .. MaxGeneration /\ <<>> \in Seq(Nat) /\ entry[q] \in Entry
      BY BoundAssumption DEF Types, EntryTypes
    <3> QED
      BY <3>1, EntryEdits
  <2>3. entry' \in [Queries -> Entry]
    BY <2>1, <2>2, EntryWritten DEF Types
  <2>4. cancels' \in [Queries -> Nat]
    BY <2>1, CountTypes DEF Types, EntryTypes
  <2> QED
    BY <2>3, <2>4 DEF EntryTypes
<1>5. WireTypes'
  <2>1. stream' = stream /\ wire' \in {wire, <<>>}
    BY DEF TeardownStep, CloseTake, CloseReset, CloseTransport, CallbackStep,
         CallbackReset, CallbackTake, Abort, server
  <2> QED
    BY <2>1, EmptyWire DEF Types, WireTypes
<1>6. WorkTypes'
  BY DEF Types, WorkTypes, OneWorker, TeardownStep, CloseTake, CloseReset,
     CloseTransport, CallbackStep, CallbackReset, CallbackTake, Abort, decode
<1> QED
  BY <1>1, <1>2, <1>3, <1>4, <1>5, <1>6 DEF Types

\* What the server promises, and what it may send next.
LEMMA StreamTypes ==
  ASSUME Types, NEW q \in Queries
  PROVE  /\ Serve(q) => stream' \in [Queries -> Stream]
         /\ \A m \in NextFrames(q) :
              /\ m.then \in Stream /\ [m.then EXCEPT !.lossy = TRUE] \in Stream
              /\ FrameOf(q, m) \in Frame
         /\ [stream EXCEPT ![q].gen = 0] \in [Queries -> Stream]
         /\ [stream EXCEPT ![q].asked = generation, ![q].gen = 0] \in [Queries -> Stream]
         /\ [stream EXCEPT ![q].credit = @ + 1] \in [Queries -> Stream]
<1> DEFINE G == 0 .. MaxGeneration
<1>1. 0 \in G /\ generation \in G
  BY BoundAssumption DEF Types, LinkTypes, Generations
<1> HIDE DEF G
<1>2. Stream = [asked : G, gen : G, version : {1, 2}, next : Nat, total : Nat,
                credit : Nat, lossy : BOOLEAN]
  BY DEF Stream, G
<1>3. stream \in [Queries -> Stream] /\ stream[q] \in Stream
  BY DEF Types, WireTypes
<1>4. Serve(q) => stream' \in [Queries -> Stream]
  <2> SUFFICES ASSUME Serve(q)
               PROVE  stream' \in [Queries -> Stream]
    OBVIOUS
  <2>1. \E version \in {1, 2}, total \in Nat :
          stream' = [stream EXCEPT ![q] =
            [asked |-> generation, gen |-> generation, version |-> version,
             next |-> 2 - version, total |-> total, credit |-> Window, lossy |-> FALSE]]
    <3>1. PICK version \in {1, entry[q].version} \ {0} :
            \E total \in (CASE IsFinance(q) -> {1} [] version = 1 -> 1 .. MaxChunks
                           [] OTHER        -> {0}) :
              stream' = [stream EXCEPT ![q] =
                [asked |-> generation, gen |-> generation, version |-> version,
                 next |-> 2 - version, total |-> total, credit |-> Window,
                 lossy |-> FALSE]]
      BY DEF Serve
    <3>2. version \in {1, 2}
      <4>1. entry[q].version \in 0 .. 2
        BY DEF Types, EntryTypes, Entry
      <4> QED
        BY <3>1, <4>1
    <3>3. (CASE IsFinance(q) -> {1} [] version = 1 -> 1 .. MaxChunks [] OTHER -> {0})
            \subseteq Nat
      BY BoundAssumption
    <3> QED
      BY <3>1, <3>2, <3>3
  <2>2. \A version \in {1, 2} : 2 - version \in Nat
    OBVIOUS
  <2>3. Window \in Nat
    BY BoundAssumption
  <2> QED
    BY <1>1, <1>2, <1>3, <2>1, <2>2, <2>3
<1>5. ASSUME NEW m \in NextFrames(q)
      PROVE  /\ m.then \in Stream /\ [m.then EXCEPT !.lossy = TRUE] \in Stream
             /\ FrameOf(q, m) \in Frame
  <2>1. /\ stream[q].next \in Nat /\ stream[q].total \in Nat /\ stream[q].credit \in Nat
        /\ stream[q].next # 0 => stream[q].next - 1 \in Nat
        /\ stream[q].credit > 0 => stream[q].credit - 1 \in Nat
        /\ stream[q].next + 1 \in Nat
    BY <1>2, <1>3
  <2>2. m.then \in Stream /\ m.seq \in Nat /\ m.kind \in {"begin", "data", "end", "batch"}
    <3>1. CASE stream[q].version = 1
      <4> DEFINE h == IF stream[q].next = stream[q].total THEN 0 ELSE stream[q].gen
                 n == stream[q].next + 1
      <4>1. h \in G /\ n \in Nat
        BY <1>1, <1>2, <1>3, <2>1
      <4>2. m = [kind |-> "batch", seq |-> stream[q].next,
                 then |-> [stream[q] EXCEPT !.next = n, !.gen = h]]
        BY <3>1 DEF NextFrames
      <4> HIDE DEF h, n
      <4>3. [stream[q] EXCEPT !.next = n, !.gen = h] \in Stream
        BY <1>2, <1>3, <4>1
      <4> QED
        BY <2>1, <4>2, <4>3
    <3>2. CASE stream[q].version # 1 /\ stream[q].next = 0
      BY <1>1, <1>2, <1>3, <2>1, <3>2 DEF NextFrames
    <3>3. CASE stream[q].version # 1 /\ stream[q].next # 0
      <4> DEFINE n == stream[q].next + 1
                 p == stream[q].next - 1
                 c == stream[q].credit - 1
      <4>1. \/ m = [kind |-> "end", seq |-> p,
                    then |-> [stream[q] EXCEPT !.gen = 0, !.total = p]]
            \/ /\ stream[q].credit > 0
               /\ m = [kind |-> "data", seq |-> stream[q].next,
                       then |-> [stream[q] EXCEPT !.next = n, !.credit = c]]
        BY <3>3 DEF NextFrames
      <4>2. n \in Nat /\ p \in Nat /\ (stream[q].credit > 0 => c \in Nat)
        BY <2>1, <3>3
      <4> HIDE DEF n, p, c
      <4>3. [stream[q] EXCEPT !.gen = 0, !.total = p] \in Stream
        BY <1>1, <1>2, <1>3, <4>2
      <4>4. stream[q].credit > 0 => [stream[q] EXCEPT !.next = n, !.credit = c] \in Stream
        BY <1>2, <1>3, <4>2
      <4> QED
        BY <2>1, <4>1, <4>2, <4>3, <4>4
    <3> QED
      BY <3>1, <3>2, <3>3
  <2>3. [m.then EXCEPT !.lossy = TRUE] \in Stream
    BY <1>2, <2>2
  <2>4. FrameOf(q, m) \in Frame
    BY <2>2 DEF FrameOf, Frame
  <2> QED
    BY <2>2, <2>3, <2>4
<1>6. [stream EXCEPT ![q].gen = 0] \in [Queries -> Stream]
  <2>1. [stream[q] EXCEPT !.gen = 0] \in Stream
    BY <1>1, <1>2, <1>3
  <2> QED
    BY <1>3, <2>1
<1>7. [stream EXCEPT ![q].asked = generation, ![q].gen = 0] \in [Queries -> Stream]
  <2>1. [stream[q] EXCEPT !.asked = generation, !.gen = 0] \in Stream
    BY <1>1, <1>2, <1>3
  <2>2. [stream EXCEPT ![q].asked = generation, ![q].gen = 0]
          = [stream EXCEPT ![q] = [@ EXCEPT !.asked = generation, !.gen = 0]]
    BY <1>3
  <2> QED
    BY <1>3, <2>1, <2>2
<1>8. [stream EXCEPT ![q].credit = @ + 1] \in [Queries -> Stream]
  <2>1. stream[q].credit + 1 \in Nat
    BY <1>2, <1>3
  <2>2. [stream[q] EXCEPT !.credit = @ + 1] \in Stream
    BY <1>2, <1>3, <2>1
  <2> QED
    BY <1>3, <2>2
<1> QED
  BY <1>4, <1>5, <1>6, <1>7, <1>8

\* The calls.
LEMMA CallStepTypes ==
  ASSUME Types, NEW q \in Queries, Begin(q) \/ BeginFinance(q) \/ CallStep(q)
  PROVE  Types'
<1>1. /\ UNCHANGED <<generation, restoring, session, aborting, closing, decode>>
      /\ \/ UNCHANGED <<connected, loss, wire, faults>>
         \/ connected' = FALSE /\ Fault /\ wire' = <<>>
            /\ loss' = [loss EXCEPT ![generation] = "owed"]
  BY DEF CallStep, Begin, BeginFinance, Select, RefuseToSelect, Register,
             CheckGeneration, SendRequest, NoTransport, SendFails, Resume, Finish, Expire,
         GraceEnds, Depart, RegisterFinance, WaitUnsent, FindClosed, ExpireFinance,
         LoseInCall, Lose, link, teardown, server
<1>2. LinkTypes'
  BY <1>1 DEF Types, LinkTypes, session
<1>3. TeardownTypes'
  BY <1>1, FaultTypes DEF Types, TeardownTypes
<1>4. CallTypes'
  BY Calls DEF Types, CallTypes, CallStep, Begin, BeginFinance, Select, RefuseToSelect,
     Register, CheckGeneration, SendRequest, NoTransport, SendFails, Resume, Finish,
     Expire, GraceEnds, Depart, RegisterFinance, WaitUnsent, FindClosed, ExpireFinance,
     LoseInCall, Go, Leave, DropEntry, Outcomes, call, table
<1>5. EntryTypes'
  <2>1. /\ cancels' = cancels \/ CountCancel(q)
        /\ \/ entry' = entry
           \/ entry' = [entry EXCEPT ![q] = [@ EXCEPT !.gen = generation, !.cap = TRUE]]
           \/ entry' = [entry EXCEPT ![q] = [@ EXCEPT !.version = 0]]
           \/ v2 /\ entry' = [entry EXCEPT ![q] = [@ EXCEPT !.version = 2, !.active = TRUE]]
           \/ ~v2 /\ entry' = [entry EXCEPT ![q] = [@ EXCEPT !.version = 1, !.active = FALSE]]
           \/ entry' = [entry EXCEPT ![q] = [@ EXCEPT !.gen = generation]]
           \/ entry' = [entry EXCEPT ![q] = [@ EXCEPT !.active = FALSE]]
    BY DEF CallStep, Begin, BeginFinance, Select, RefuseToSelect, Register,
             CheckGeneration, SendRequest, NoTransport, SendFails, Resume, Finish, Expire,
         GraceEnds, Depart, RegisterFinance, WaitUnsent, FindClosed, ExpireFinance,
         LoseInCall, Cancel, table, Types, LinkTypes
  <2>2. entry[q] \in Entry /\ generation \in 0 .. MaxGeneration
    BY BoundAssumption DEF Types, EntryTypes, LinkTypes, Generations
  <2>3. entry' \in [Queries -> Entry]
    BY <2>1, <2>2, EntryEdits, EmptyWire, EntryWritten DEF Types
  <2> QED
    BY <2>1, <2>3, CountTypes DEF Types, EntryTypes
<1>6. WireTypes'
  <2>1. wire' \in {wire, <<>>}
    BY <1>1
  <2>2. \/ stream' = stream \/ Serve(q)
        \/ stream' = [stream EXCEPT ![q].gen = 0]
        \/ stream' = [stream EXCEPT ![q].asked = generation, ![q].gen = 0]
    BY DEF CallStep, Begin, BeginFinance, Select, RefuseToSelect, Register,
             CheckGeneration, SendRequest, NoTransport, SendFails, Resume, Finish, Expire,
         GraceEnds, Depart, RegisterFinance, WaitUnsent, FindClosed, ExpireFinance,
         LoseInCall, Stop, server
  <2> QED
    BY <2>1, <2>2, StreamTypes, EmptyWire DEF Types, WireTypes
<1>7. WorkTypes'
  BY <1>1 DEF Types, WorkTypes, OneWorker, decode
<1> QED
  BY <1>2, <1>3, <1>4, <1>5, <1>6, <1>7 DEF Types

\* Frames are queued, taken and repeated.
LEMMA Frames ==
  ASSUME NEW w \in Seq(Frame)
  PROVE  /\ w # <<>> => Head(w) \in Frame /\ Tail(w) \in Seq(Frame)
         /\ \A f \in Frame : Append(w, f) \in Seq(Frame) /\ w \o <<f, f>> \in Seq(Frame)
<1>1. w # <<>> => Head(w) \in Frame /\ Tail(w) \in Seq(Frame)
  OBVIOUS
<1>2. ASSUME NEW f \in Frame
      PROVE  Append(w, f) \in Seq(Frame) /\ w \o <<f, f>> \in Seq(Frame)
  <2>1. <<f, f>> \in Seq(Frame)
    OBVIOUS
  <2> QED
    BY <2>1
<1> QED
  BY <1>1, <1>2

\* The server and its relay.
LEMMA ServerStepTypes ==
  ASSUME Types, NEW q \in Queries, ServerStep(q)
  PROVE  Types'
<1>1. /\ UNCHANGED <<link, session, teardown, call, table, decode>>
      /\ faults' = faults \/ Fault
  BY DEF ServerStep, ServerSends, ServerFails, RelayFails
<1>2. LinkTypes' /\ TeardownTypes' /\ CallTypes' /\ EntryTypes'
  BY <1>1, FaultTypes DEF Types, LinkTypes, TeardownTypes, CallTypes, EntryTypes, link,
                          session, teardown, call, table
<1>3. WireTypes'
  <2>1. stream \in [Queries -> Stream] /\ wire \in Seq(Frame) /\ stream[q] \in Stream
    BY DEF Types, WireTypes
  <2>2. CASE ServerSends(q)
    <3>1. PICK m \in NextFrames(q) : wire' = Append(wire, FrameOf(q, m))
                                      /\ stream' = [stream EXCEPT ![q] = m.then]
      BY <2>2 DEF ServerSends, Put
    <3> QED
      BY <2>1, <3>1, StreamTypes, Frames DEF WireTypes
  <2>3. CASE ServerFails(q)
    <3>1. \E n \in Nat, k \in {"refusal", "error"} :
            wire' = Append(wire, [q |-> q, kind |-> k, seq |-> n])
      <4>1. stream[q].next \in Nat
        BY <2>1 DEF Stream
      <4>2. stream[q].next # 0 => stream[q].next - 1 \in Nat
        BY <4>1
      <4>3. CASE stream[q].version = 1
        BY <2>3, <4>3 DEF ServerFails, Put, FrameOf
      <4>4. CASE stream[q].version # 1 /\ stream[q].next = 0
        BY <2>3, <4>4 DEF ServerFails, Put, FrameOf
      <4>5. CASE stream[q].version # 1 /\ stream[q].next # 0
        BY <2>3, <4>2, <4>5 DEF ServerFails, Put, FrameOf
      <4> QED
        BY <4>3, <4>4, <4>5
    <3>2. stream' \in [Queries -> Stream]
      BY <2>3, StreamTypes DEF ServerFails
    <3>3. \A n \in Nat, k \in {"refusal", "error"} : [q |-> q, kind |-> k, seq |-> n] \in Frame
      BY DEF Frame
    <3> QED
      BY <2>1, <3>1, <3>2, <3>3, Frames DEF WireTypes
  <2>4. CASE RelayFails(q)
    <3>1. PICK m \in NextFrames(q) :
            /\ stream' = [stream EXCEPT ![q] = [m.then EXCEPT !.lossy = TRUE]]
            /\ wire' \in {wire, wire \o <<FrameOf(q, m), FrameOf(q, m)>>}
      BY <2>4 DEF RelayFails
    <3>2. FrameOf(q, m) \in Frame /\ [m.then EXCEPT !.lossy = TRUE] \in Stream
      BY StreamTypes
    <3> QED
      BY <2>1, <3>1, <3>2, Frames DEF WireTypes
  <2> QED
    BY <2>2, <2>3, <2>4 DEF ServerStep
<1>4. WorkTypes'
  BY <1>1 DEF Types, WorkTypes, OneWorker, decode
<1> QED
  BY <1>2, <1>3, <1>4 DEF Types

\* Who has failed a request.
LEMMA Fails ==
  ASSUME Types, NEW q \in Queries,
         \/ failing' = failing
         \/ failing' = failing \cup {[q |-> q, by |-> 0, at |-> "cancel"]}
         \/ failing' = failing \cup {[q |-> q, by |-> generation, at |-> "cancel"]}
  PROVE  failing' \subseteq Failing
<1>1. 0 \in 0 .. MaxGeneration /\ generation \in 0 .. MaxGeneration
  BY BoundAssumption DEF Types, LinkTypes, Generations
<1>2. [q |-> q, by |-> 0, at |-> "cancel"] \in Failing
  BY <1>1 DEF Failing
<1>3. [q |-> q, by |-> generation, at |-> "cancel"] \in Failing
  BY <1>1 DEF Failing
<1>4. failing \subseteq Failing
  BY DEF Types, WorkTypes
<1> QED
  BY <1>2, <1>3, <1>4, Zenon

\* The receive thread takes a frame.
LEMMA ReceiveFrameTypes ==
  ASSUME Types, ReceiveFrame
  PROVE  Types'
<1>1. /\ UNCHANGED <<link, session, teardown, call, table, stream, faults, worker>>
      /\ wire # <<>> /\ wire' = Tail(wire) /\ Enqueue(Head(wire))
  BY DEF ReceiveFrame
<1>2. Head(wire) \in Frame /\ wire' \in Seq(Frame) /\ Head(wire).q \in Queries
  <2>1. Head(wire) \in Frame /\ wire' \in Seq(Frame)
    BY <1>1, Frames DEF Types, WireTypes
  <2> QED
    BY <2>1 DEF Frame
<1>3. LinkTypes' /\ TeardownTypes' /\ CallTypes' /\ EntryTypes' /\ WireTypes'
  BY <1>1, <1>2 DEF Types, LinkTypes, TeardownTypes, CallTypes, EntryTypes, WireTypes,
                    link, session, teardown, call, table
<1>4. queue' \in Seq(Frame)
  BY <1>1, <1>2, Frames DEF Types, WorkTypes, Enqueue
<1>5. failing' \subseteq Failing
  BY <1>1, <1>2, Fails DEF Enqueue
<1> QED
  BY <1>1, <1>3, <1>4, <1>5 DEF Types, WorkTypes, OneWorker

\* ... or a V1 batch.
LEMMA ReceiveBatchTypes ==
  ASSUME Types, ReceiveBatch
  PROVE  Types'
<1> DEFINE f == Head(wire)
<1>1. /\ UNCHANGED <<link, session, teardown, call, pending, cancels, stream, faults,
                     queue, worker>>
      /\ wire # <<>> /\ wire' = Tail(wire)
      /\ failing' = failing
         \/ failing' = failing \cup {[q |-> f.q, by |-> generation, at |-> "cancel"]}
  BY DEF ReceiveBatch
<1>2. f \in Frame /\ wire' \in Seq(Frame) /\ f.q \in Queries /\ f.seq \in Nat
  <2>1. f \in Frame /\ wire' \in Seq(Frame)
    BY <1>1, Frames DEF Types, WireTypes
  <2> QED
    BY <2>1 DEF Frame
<1>3. EntryTypes'
  <2> DEFINE e == entry[f.q]
             got == Append(e.got, f.seq)
             told == e.event \/ Len(got) >= stream[f.q].total
  <2>1. \/ entry' = entry
        \/ entry' = [entry EXCEPT ![f.q] = [@ EXCEPT !.error = "failed", !.event = TRUE]]
        \/ entry' = [entry EXCEPT ![f.q] = [@ EXCEPT !.got = got, !.event = told]]
    <3>1. CASE HasEntry(f.q) /\ entry[f.q].version # 2 /\ f.kind # "refusal"
      BY <3>1 DEF ReceiveBatch
    <3>2. CASE ~(HasEntry(f.q) /\ entry[f.q].version # 2 /\ f.kind # "refusal")
      BY <3>2 DEF ReceiveBatch
    <3> QED
      BY <3>1, <3>2
  <2>2. e \in Entry /\ got \in Seq(Nat)
    <3>1. e \in Entry
      BY <1>2 DEF Types, EntryTypes
    <3>2. e.got \in Seq(Nat)
      BY <3>1 DEF Entry
    <3> QED
      BY <1>2, <3>1, <3>2
  <2>3. told \in BOOLEAN
    BY Zenon, <2>2 DEF Entry
  <2> HIDE DEF e, got, told
  <2>4. /\ [e EXCEPT !.error = "failed", !.event = TRUE] \in Entry
        /\ [e EXCEPT !.got = got, !.event = TRUE] \in Entry
        /\ [e EXCEPT !.got = got, !.event = FALSE] \in Entry
    <3>1. 0 \in 0 .. MaxGeneration
      BY BoundAssumption
    <3> QED
      BY <2>2, <3>1, EntryEdits
  <2>5. [e EXCEPT !.got = got, !.event = told] \in Entry
    BY <2>3, <2>4
  <2>6. /\ f.q \in Queries
        /\ \/ entry' = entry
           \/ entry' = [entry EXCEPT ![f.q] = [e EXCEPT !.error = "failed", !.event = TRUE]]
           \/ entry' = [entry EXCEPT ![f.q] = [e EXCEPT !.got = got, !.event = told]]
    BY <1>2, <2>1 DEF e
  <2> HIDE DEF f
  <2>7. entry' \in [Queries -> Entry]
    BY <2>4, <2>5, <2>6, EntryWritten DEF Types
  <2> QED
    BY <1>1, <2>7 DEF Types, EntryTypes
<1> HIDE DEF f
<1>4. LinkTypes' /\ TeardownTypes' /\ CallTypes' /\ WireTypes'
  BY <1>1, <1>2 DEF Types, LinkTypes, TeardownTypes, CallTypes, WireTypes,
                    link, session, teardown, call
<1>5. failing' \subseteq Failing
  BY <1>1, <1>2, Fails
<1> QED
  BY <1>1, <1>3, <1>4, <1>5 DEF Types, WorkTypes, OneWorker

\* A failed request.
LEMMA FailStepTypes ==
  ASSUME Types, NEW f \in failing, FailStep(f)
  PROVE  Types'
<1>1. f \in Failing /\ f.q \in Queries /\ entry[f.q] \in Entry
  <2>1. f \in Failing
    BY DEF Types, WorkTypes
  <2> QED
    BY <2>1 DEF Failing, Types, EntryTypes
<1>2. /\ UNCHANGED <<generation, restoring, session, call, pending, aborting, closing, queue,
                     worker>>
      /\ \/ UNCHANGED <<connected, loss, wire, faults>>
         \/ connected' = FALSE /\ Fault /\ wire' = <<>>
            /\ loss' = [loss EXCEPT ![generation] = "owed"]
  BY DEF FailStep, FailCancels, FailResumes, FailTells, FailBreaks, Lose, link, teardown,
         server, table
<1>3. LinkTypes'
  BY <1>2 DEF Types, LinkTypes, session
<1>4. TeardownTypes'
  BY <1>2, FaultTypes DEF Types, TeardownTypes
<1>5. CallTypes'
  BY <1>2 DEF Types, CallTypes, call
<1>6. EntryTypes'
  <2>1. /\ cancels' = cancels \/ CountCancel(f.q)
        /\ \/ entry' = entry
           \/ entry' = [entry EXCEPT ![f.q] = [@ EXCEPT !.error = "failed", !.event = TRUE]]
           \/ entry' = [entry EXCEPT ![f.q] = [@ EXCEPT !.active = FALSE]]
    BY DEF FailStep, FailCancels, FailResumes, FailTells, FailBreaks, Cancel, table
  <2>2. /\ [entry[f.q] EXCEPT !.error = "failed", !.event = TRUE] \in Entry
        /\ [entry[f.q] EXCEPT !.active = FALSE] \in Entry
    <3>1. 0 \in 0 .. MaxGeneration
      BY BoundAssumption
    <3> QED
      BY <1>1, <3>1, EntryEdits, EmptyWire
  <2>3. entry' \in [Queries -> Entry]
    BY <1>1, <2>1, <2>2, EntryWritten DEF Types
  <2> QED
    BY <1>1, <2>1, <2>3, CountTypes DEF Types, EntryTypes
<1>7. WireTypes'
  <2>1. stream' = stream \/ stream' = [stream EXCEPT ![f.q].gen = 0]
    BY DEF FailStep, FailCancels, FailResumes, FailTells, FailBreaks, Stop, server
  <2> QED
    BY <1>1, <1>2, <2>1, StreamTypes, EmptyWire DEF Types, WireTypes
<1>8. failing' \subseteq Failing
  <2>1. \A at \in {"tell", "callback", "blocked"} : [f EXCEPT !.at = at] \in Failing
    BY <1>1 DEF Failing
  <2>2. \/ failing' = failing \ {f}
        \/ \E at \in {"tell", "callback", "blocked"} :
             failing' = (failing \ {f}) \cup {[f EXCEPT !.at = at]}
    BY Calls DEF FailStep, FailCancels, FailResumes, FailTells, FailBreaks, FailGoes
  <2> QED
    BY <2>1, <2>2 DEF Types, WorkTypes
<1> QED
  BY <1>2, <1>3, <1>4, <1>5, <1>6, <1>7, <1>8 DEF Types, WorkTypes, OneWorker

\* The worker takes a frame.
LEMMA WorkerTakesTypes ==
  ASSUME Types, WorkerTakes
  PROVE  Types'
<1> DEFINE f == Head(queue)
<1>1. /\ UNCHANGED <<link, session, teardown, call, table, server>>
      /\ queue # <<>> /\ queue' = Tail(queue)
      /\ \/ worker' = worker /\ failing' = failing
         \/ /\ worker' = worker
            /\ failing' = failing \cup {[q |-> f.q, by |-> 0, at |-> "cancel"]}
         \/ /\ worker = {} /\ failing' = failing
            /\ worker' = worker \cup {[frame |-> f, at |-> "handle"]}
  BY DEF WorkerTakes, WorkerFree, FailInWorker
<1>2. f \in Frame /\ queue' \in Seq(Frame) /\ f.q \in Queries
  <2>1. f \in Frame /\ queue' \in Seq(Frame)
    BY <1>1, Frames DEF Types, WorkTypes
  <2> QED
    BY <2>1 DEF Frame
<1> HIDE DEF f
<1>3. LinkTypes' /\ TeardownTypes' /\ CallTypes' /\ EntryTypes' /\ WireTypes'
  BY <1>1 DEF Types, LinkTypes, TeardownTypes, CallTypes, EntryTypes, WireTypes,
              link, session, teardown, call, table, server
<1>4. failing' \subseteq Failing
  BY <1>1, <1>2, Fails
<1>5. OneWorker'
  <2>1. [frame |-> f, at |-> "handle"] \in Work
    BY <1>2 DEF Work
  <2> DEFINE h == [frame |-> f, at |-> "handle"]
  <2> HIDE DEF h
  <2>2. worker' = worker \/ worker' = {h}
    BY <1>1 DEF h
  <2>3. h \in Work
    BY <2>1 DEF h
  <2> QED
    BY <2>2, <2>3 DEF OneWorker, Types, WorkTypes
<1> QED
  BY <1>2, <1>3, <1>4, <1>5 DEF Types, WorkTypes

\* The worker goes on with its frame.
LEMMA WorkStepTypes ==
  ASSUME Types, NEW w \in worker, WorkStep(w)
  PROVE  Types'
<1> DEFINE q == w.frame.q
<1>1. w \in Work /\ w.frame \in Frame /\ q \in Queries /\ entry[q] \in Entry
      /\ w.frame.seq \in Nat
  <2>1. w \in Work
    BY DEF Types, WorkTypes, OneWorker
  <2>2. w.frame \in Frame
    BY <2>1 DEF Work
  <2> QED
    BY <2>1, <2>2 DEF Frame, Types, EntryTypes
<1>2. /\ UNCHANGED <<generation, restoring, session, call, pending, cancels, aborting,
                     closing, queue>>
      /\ \/ UNCHANGED <<connected, loss, wire, faults>>
         \/ connected' = FALSE /\ Fault /\ wire' = <<>>
            /\ loss' = [loss EXCEPT ![generation] = "owed"]
  BY DEF WorkStep, WorkerHandles, WorkerGrants, WorkerResumes, WorkerTells, WorkerBreaks,
         Lose, link, teardown, server, table
<1>3. LinkTypes'
  BY <1>2 DEF Types, LinkTypes, session
<1>4. TeardownTypes'
  BY <1>2, FaultTypes DEF Types, TeardownTypes
<1>5. CallTypes'
  BY <1>2 DEF Types, CallTypes, call
<1>6. EntryTypes'
  <2> DEFINE got == Append(entry[q].got, w.frame.seq)
  <2>1. \/ entry' = entry
        \/ entry' = [entry EXCEPT ![q] = [@ EXCEPT !.begun = TRUE]]
        \/ entry' = [entry EXCEPT ![q] = [@ EXCEPT !.got = got]]
        \/ entry' = [entry EXCEPT ![q] = [@ EXCEPT !.active = FALSE]]
        \/ entry' = [entry EXCEPT ![q] = [@ EXCEPT !.error = "failed", !.event = TRUE]]
        \/ entry' = [entry EXCEPT ![q] = [@ EXCEPT !.event = TRUE]]
    BY DEF WorkStep, WorkerHandles, WorkerGrants, WorkerResumes, WorkerTells, WorkerBreaks,
           Absorb, table
  <2>2. got \in Seq(Nat)
    <3>1. entry[q].got \in Seq(Nat)
      BY <1>1 DEF Entry
    <3> QED
      BY <1>1, <3>1
  <2> HIDE DEF got, q
  <2>3. /\ [entry[q] EXCEPT !.begun = TRUE] \in Entry
        /\ [entry[q] EXCEPT !.got = got] \in Entry
        /\ [entry[q] EXCEPT !.active = FALSE] \in Entry
        /\ [entry[q] EXCEPT !.error = "failed", !.event = TRUE] \in Entry
        /\ [entry[q] EXCEPT !.event = TRUE] \in Entry
    <3>1. 0 \in 0 .. MaxGeneration
      BY BoundAssumption
    <3> QED
      BY <1>1, <2>2, <3>1, EntryEdits
  <2>4. entry' \in [Queries -> Entry]
    BY <1>1, <2>1, <2>3, EntryWritten DEF Types
  <2> QED
    BY <1>2, <2>4 DEF Types, EntryTypes
<1>7. WireTypes'
  <2>1. stream' = stream \/ stream' = [stream EXCEPT ![q].credit = @ + 1]
    BY DEF WorkStep, WorkerHandles, WorkerGrants, WorkerResumes, WorkerTells, WorkerBreaks,
           Grant, server
  <2> HIDE DEF q
  <2> QED
    BY <1>1, <1>2, <2>1, StreamTypes, EmptyWire DEF Types, WireTypes
<1>8. failing' \subseteq Failing
  <2>1. failing' = failing \/ FailInWorker(q)
    BY DEF WorkStep, WorkerHandles, WorkerGrants, WorkerResumes, WorkerTells, WorkerBreaks
  <2> HIDE DEF q
  <2> QED
    BY <1>1, <2>1, Fails DEF FailInWorker
<1>9. OneWorker'
  <2>1. worker' = {} \/ \E at \in {"grant", "tell", "callback", "blocked"} :
                          worker' = {[w EXCEPT !.at = at]}
    BY Calls DEF WorkStep, WorkerHandles, WorkerGrants, WorkerResumes, WorkerTells,
       WorkerBreaks
  <2>2. \A at \in {"grant", "tell", "callback", "blocked"} : [w EXCEPT !.at = at] \in Work
    BY <1>1 DEF Work
  <2> QED
    BY <2>1, <2>2 DEF OneWorker
<1> QED
  BY <1>2, <1>3, <1>4, <1>5, <1>6, <1>7, <1>8, <1>9 DEF Types, WorkTypes

\* The types hold after every step,
LEMMA TypesStep ==
  ASSUME Types, [Next]_vars
  PROVE  Types'
<1>1. CASE Next
  BY <1>1, NextSteps, LinkStepTypes, TeardownStepTypes, ReceiveFrameTypes,
     ReceiveBatchTypes, WorkerTakesTypes, CallStepTypes, ServerStepTypes, FailStepTypes,
     WorkStepTypes
<1>2. CASE UNCHANGED vars
  BY <1>2 DEF vars, Types, LinkTypes, TeardownTypes, CallTypes, EntryTypes, WireTypes,
              WorkTypes, OneWorker
<1> QED
  BY <1>1, <1>2

\* ... and so in every behaviour.
LEMMA TypesHold == Spec => []Types
BY InitTypes, TypesStep, PTL DEF Spec

\* Every variable has its type.
THEOREM TypeCorrect == Spec => []TypeOK
BY TypesHold, TypesSuffice, PTL

-----------------------------------------------------------------------------
(***************************************************************************)
(* The table, and CANCEL.                                                  *)
(***************************************************************************)
OtherStep ==
  \/ LinkStep \/ TeardownStep \/ ReceiveFrame \/ ReceiveBatch \/ WorkerTakes
  \/ \E q \in Queries : ServerStep(q)
  \/ \E f \in failing : FailStep(f)
  \/ \E w \in worker : WorkStep(w)

UserStep(q) == Begin(q) \/ BeginFinance(q) \/ CallStep(q)

\* A call, or something else.
LEMMA Steps ==
  ASSUME [Next]_vars
  PROVE  OtherStep \/ (\E q \in Queries : UserStep(q)) \/ UNCHANGED vars
BY NextSteps DEF OtherStep, UserStep

\* What the calls of the user leave alone.
LEMMA UserSteps ==
  ASSUME Types, NEW q \in Queries, UserStep(q)
  PROVE  /\ UNCHANGED <<generation, restoring, session, aborting, closing, decode>>
         /\ \A p \in Queries \ {q} : /\ pc'[p] = pc[p] /\ outcome'[p] = outcome[p]
                                     /\ entry'[p] = entry[p] /\ cancels'[p] = cancels[p]
                                     /\ stream'[p] = stream[p]
                                     /\ (p \in pending' <=> p \in pending)
<1>1. UNCHANGED <<generation, restoring, session, aborting, closing, decode>>
  BY DEF UserStep, CallStep, Begin, BeginFinance, Select, RefuseToSelect, Register,
             CheckGeneration, SendRequest, NoTransport, SendFails, Resume, Finish, Expire,
         GraceEnds, Depart, RegisterFinance, WaitUnsent, FindClosed, ExpireFinance,
         LoseInCall, Lose, link, teardown, server
<1>2. ASSUME NEW p \in Queries \ {q}
      PROVE  /\ pc'[p] = pc[p] /\ outcome'[p] = outcome[p]
             /\ (p \in pending' <=> p \in pending)
  BY <1>2 DEF UserStep, CallStep, Begin, BeginFinance, Select, RefuseToSelect, Register,
             CheckGeneration, SendRequest, NoTransport, SendFails, Resume, Finish, Expire,
         GraceEnds, Depart, RegisterFinance, WaitUnsent, FindClosed, ExpireFinance,
         LoseInCall, Types, CallTypes, Go, Leave, DropEntry, call, table
<1>3. ASSUME NEW p \in Queries \ {q}
      PROVE  entry'[p] = entry[p] /\ cancels'[p] = cancels[p]
  BY <1>3 DEF UserStep, CallStep, Begin, BeginFinance, Select, RefuseToSelect, Register,
             CheckGeneration, SendRequest, NoTransport, SendFails, Resume, Finish, Expire,
         GraceEnds, Depart, RegisterFinance, WaitUnsent, FindClosed, ExpireFinance,
         LoseInCall, Types, EntryTypes, Cancel, CountCancel, table
<1>4. ASSUME NEW p \in Queries \ {q}
      PROVE  stream'[p] = stream[p]
  BY <1>4 DEF UserStep, CallStep, Begin, BeginFinance, Select, RefuseToSelect, Register,
             CheckGeneration, SendRequest, NoTransport, SendFails, Resume, Finish, Expire,
         GraceEnds, Depart, RegisterFinance, WaitUnsent, FindClosed, ExpireFinance,
         LoseInCall, Types, WireTypes, Serve, Stop, server
<1> QED
  BY <1>1, <1>2, <1>3, <1>4

\* What the entries become, but for the steps of the calls: fields that no property
\* looks at are left out.
Same(q) ==
  /\ entry'[q].active = entry[q].active /\ entry'[q].got = entry[q].got
  /\ entry'[q].error = entry[q].error /\ entry'[q].event = entry[q].event
  /\ cancels'[q] = cancels[q]

Cancels(q) ==
  /\ ~entry'[q].active
  /\ cancels'[q] = cancels[q] + IF entry[q].active THEN 1 ELSE 0

Kept(q) == entry'[q].version = entry[q].version /\ entry'[q].gen = entry[q].gen

\* Transports.
LEMMA LinkEffect ==
  ASSUME Types, LinkStep, NEW q \in Queries
  PROVE  Kept(q) /\ Same(q)
<1>1. entry' \in {entry, Outdated} /\ cancels' = cancels
  BY DEF LinkStep, Break, Open, RestoreFails, Authenticate, MarkAuthenticated,
         FinishRestore, Settle, table
<1>2. entry[q] \in Entry
  BY DEF Types, EntryTypes
<1> QED
  BY <1>1, <1>2 DEF Outdated, Kept, Same, Entry

\* An abort.
LEMMA TeardownEffect ==
  ASSUME Types, TeardownStep, NEW q \in Queries
  PROVE  /\ Kept(q) /\ entry'[q].got = entry[q].got
         /\ \/ Same(q)
            \/ Cancels(q) /\ entry'[q].error = "aborted" /\ entry'[q].event
<1>1. CASE entry' \in {entry, Outdated} /\ cancels' = cancels
  <2>1. entry[q] \in Entry
    BY DEF Types, EntryTypes
  <2> QED
    BY <1>1, <2>1 DEF Outdated, Kept, Same, Entry
<1>2. ASSUME NEW p \in Queries, CountCancel(p),
             entry' = [entry EXCEPT ![p] = [@ EXCEPT !.active = FALSE,
                                                     !.error = "aborted", !.event = TRUE]]
      PROVE  /\ Kept(q) /\ entry'[q].got = entry[q].got
             /\ \/ Same(q)
                \/ Cancels(q) /\ entry'[q].error = "aborted" /\ entry'[q].event
  <2>1. entry[q] \in Entry /\ entry \in [Queries -> Entry] /\ cancels \in [Queries -> Nat]
    BY DEF Types, EntryTypes
  <2>2. CASE p = q
    <3>1. entry'[q] = [entry[q] EXCEPT !.active = FALSE, !.error = "aborted", !.event = TRUE]
      BY <1>2, <2>1, <2>2
    <3>2. cancels'[q] = cancels[q] + IF entry[q].active THEN 1 ELSE 0
      BY <1>2, <2>1, <2>2 DEF CountCancel, ProducesCancel
    <3> QED
      BY <2>1, <3>1, <3>2 DEF Kept, Cancels, Entry
  <2>3. CASE p # q
    BY <1>2, <2>1, <2>3 DEF Kept, Same, CountCancel
  <2> QED
    BY <2>2, <2>3
<1> QED
  BY <1>1, <1>2 DEF TeardownStep, CloseTake, CloseReset, CloseTransport, CallbackStep,
         CallbackReset, CallbackTake, Abort, ResetSession, table

\* The server, and a frame that is queued or taken.
LEMMA FrameEffect ==
  ASSUME ReceiveFrame \/ WorkerTakes \/ \E p \in Queries : ServerStep(p), NEW q \in Queries
  PROVE  Kept(q) /\ Same(q)
<1>1. entry' = entry /\ cancels' = cancels
  BY DEF ReceiveFrame, WorkerTakes, ServerStep, ServerSends, ServerFails, RelayFails, table
<1> QED
  BY <1>1 DEF Kept, Same

\* A V1 batch.
LEMMA BatchEffect ==
  ASSUME Types, ReceiveBatch, NEW q \in Queries
  PROVE  /\ Kept(q) /\ cancels'[q] = cancels[q] /\ entry'[q].active = entry[q].active
         /\ \/ Same(q)
            \/ /\ q \in pending /\ entry[q].version # 2 /\ q = Head(wire).q
               /\ \/ /\ entry'[q].error = "failed" /\ entry'[q].event
                     /\ entry'[q].got = entry[q].got /\ Head(wire).kind = "refusal"
                  \/ /\ entry'[q].error = entry[q].error /\ Head(wire).kind # "refusal"
                     /\ entry'[q].got = Append(entry[q].got, Head(wire).seq)
                     /\ entry'[q].event =
                          (entry[q].event \/ Len(entry'[q].got) >= stream[q].total)
<1> DEFINE f == Head(wire)
           e == entry[f.q]
           got == Append(e.got, f.seq)
           told == e.event \/ Len(got) >= stream[f.q].total
<1>1. /\ cancels' = cancels
      /\ \/ entry' = entry
         \/ /\ f.q \in pending /\ e.version # 2
            /\ \/ /\ f.kind = "refusal"
                  /\ entry' = [entry EXCEPT ![f.q] = [@ EXCEPT !.error = "failed",
                                                              !.event = TRUE]]
               \/ /\ f.kind # "refusal"
                  /\ entry' = [entry EXCEPT ![f.q] = [@ EXCEPT !.got = got, !.event = told]]
  <2>1. CASE HasEntry(f.q) /\ entry[f.q].version # 2 /\ f.kind # "refusal"
    BY <2>1 DEF ReceiveBatch, HasEntry
  <2>2. CASE HasEntry(f.q) /\ entry[f.q].version # 2 /\ f.kind = "refusal"
    BY <2>2 DEF ReceiveBatch, HasEntry
  <2>3. CASE ~(HasEntry(f.q) /\ entry[f.q].version # 2)
    BY <2>3 DEF ReceiveBatch
  <2> QED
    BY <2>1, <2>2, <2>3 DEF ReceiveBatch
<1> HIDE DEF told, got, f
<1>2. /\ entry[q] \in Entry /\ entry \in [Queries -> Entry]
      /\ f.q \in pending => f.q \in Queries
  BY DEF Types, EntryTypes, CallTypes
<1>3. CASE f.q # q \/ entry' = entry
  BY <1>1, <1>2, <1>3 DEF Kept, Same
<1>4. CASE /\ f.q = q /\ f.q \in pending /\ e.version # 2 /\ f.kind = "refusal"
           /\ entry' = [entry EXCEPT ![f.q] = [@ EXCEPT !.error = "failed", !.event = TRUE]]
  <2>1. entry'[q] = [entry[q] EXCEPT !.error = "failed", !.event = TRUE]
    BY <1>2, <1>4
  <2>2. /\ Kept(q) /\ entry'[q].active = entry[q].active /\ entry'[q].error = "failed"
        /\ entry'[q].event /\ entry'[q].got = entry[q].got
    BY <1>2, <2>1 DEF Kept, Entry
  <2> QED
    BY <1>1, <1>4, <2>2 DEF f
<1>5. CASE /\ f.q = q /\ f.q \in pending /\ e.version # 2 /\ f.kind # "refusal"
           /\ entry' = [entry EXCEPT ![f.q] = [@ EXCEPT !.got = got, !.event = told]]
  <2>1. entry'[q] = [entry[q] EXCEPT !.got = got, !.event = told]
    BY <1>2, <1>5
  <2>2. /\ Kept(q) /\ entry'[q].active = entry[q].active
        /\ entry'[q].error = entry[q].error
        /\ entry'[q].event = told /\ entry'[q].got = got
    BY <1>2, <2>1 DEF Kept, Entry
  <2>3. entry'[q].event = (entry[q].event \/ Len(got) >= stream[q].total)
    <3>1. entry[f.q].event = entry[q].event /\ stream[f.q].total = stream[q].total
      BY <1>5
    <3>2. entry'[q].event = told
      BY <2>2
    <3>3. told = (entry[f.q].event \/ Len(got) >= stream[f.q].total)
      BY DEF told
    <3>4. (Len(got) >= stream[f.q].total) = (Len(got) >= stream[q].total)
      BY <3>1
    <3> QED
      BY <3>1, <3>2, <3>3, <3>4, Zenon
  <2>4. got = Append(entry[q].got, Head(wire).seq)
    BY <1>5 DEF got, f
  <2>5. /\ q \in pending /\ entry[q].version # 2 /\ q = Head(wire).q
        /\ Head(wire).kind # "refusal"
    BY <1>5 DEF f
  <2> QED
    BY <1>1, <2>2, <2>3, <2>4, <2>5, Zenon
<1> QED
  BY <1>1, <1>3, <1>4, <1>5

\* A failed request.
LEMMA FailEffect ==
  ASSUME Types, NEW f \in failing, FailStep(f), NEW q \in Queries
  PROVE  /\ Kept(q) /\ entry'[q].got = entry[q].got
         /\ \/ Same(q)
            \/ /\ Cancels(q) /\ entry'[q].error = entry[q].error
               /\ entry'[q].event = entry[q].event
            \/ /\ entry'[q].active = entry[q].active /\ cancels'[q] = cancels[q]
               /\ entry'[q].error = "failed" /\ entry'[q].event
<1>1. \/ entry' = entry /\ cancels' = cancels
      \/ /\ cancels' = cancels
         /\ entry' = [entry EXCEPT ![f.q] = [@ EXCEPT !.error = "failed", !.event = TRUE]]
      \/ /\ entry' = [entry EXCEPT ![f.q] = [@ EXCEPT !.active = FALSE]]
         /\ CountCancel(f.q)
  BY DEF FailStep, FailCancels, FailResumes, FailTells, FailBreaks, Cancel, table
<1>2. /\ entry[q] \in Entry /\ entry \in [Queries -> Entry] /\ cancels \in [Queries -> Nat]
      /\ f.q \in Queries
  <2>1. f \in Failing
    BY DEF Types, WorkTypes
  <2> QED
    BY <2>1 DEF Failing, Types, EntryTypes
<1>3. CASE f.q # q
  BY <1>1, <1>2, <1>3 DEF Kept, Same, CountCancel
<1>4. CASE f.q = q
  <2>1. CASE entry' = entry /\ cancels' = cancels
    BY <2>1 DEF Kept, Same
  <2>2. CASE /\ cancels' = cancels
             /\ entry' = [entry EXCEPT ![f.q] = [@ EXCEPT !.error = "failed", !.event = TRUE]]
    <3>1. entry'[q] = [entry[q] EXCEPT !.error = "failed", !.event = TRUE]
      BY <1>2, <1>4, <2>2
    <3> QED
      BY <1>2, <2>2, <3>1 DEF Kept, Entry
  <2>3. CASE /\ entry' = [entry EXCEPT ![f.q] = [@ EXCEPT !.active = FALSE]]
             /\ CountCancel(f.q)
    <3>1. entry'[q] = [entry[q] EXCEPT !.active = FALSE]
      BY <1>2, <1>4, <2>3
    <3>2. cancels'[q] = cancels[q] + IF entry[q].active THEN 1 ELSE 0
      BY <1>2, <1>4, <2>3 DEF CountCancel, ProducesCancel
    <3> QED
      BY <1>2, <3>1, <3>2 DEF Kept, Cancels, Entry
  <2> QED
    BY <1>1, <2>1, <2>2, <2>3
<1> QED
  BY <1>3, <1>4

\* The worker.
LEMMA WorkEffect ==
  ASSUME Types, NEW w \in worker, WorkStep(w), NEW q \in Queries
  PROVE  /\ Kept(q) /\ cancels'[q] = cancels[q]
         /\ \/ Same(q)
            \/ /\ q = w.frame.q /\ w.at = "handle" /\ Fits(entry[q], w.frame)
               /\ entry'[q].error = entry[q].error /\ entry'[q].event = entry[q].event
               /\ \/ /\ w.frame.kind = "data" /\ entry'[q].active = entry[q].active
                     /\ entry'[q].got = Append(entry[q].got, w.frame.seq)
                  \/ /\ w.frame.kind \notin {"begin", "data"} /\ ~entry'[q].active
                     /\ entry'[q].got = entry[q].got
            \/ /\ q = w.frame.q /\ w.at = "tell" /\ q \in pending
               /\ entry'[q].active = entry[q].active /\ entry'[q].got = entry[q].got
               /\ entry'[q].event
               /\ IF w.frame.kind = "error" THEN entry'[q].error = "failed"
                  ELSE entry'[q].error = entry[q].error
<1> DEFINE p == w.frame.q
           got == Append(entry[p].got, w.frame.seq)
<1>1. /\ cancels' = cancels
      /\ \/ entry' = entry
         \/ /\ w.at = "handle" /\ Fits(entry[p], w.frame) /\ w.frame.kind = "begin"
            /\ entry' = [entry EXCEPT ![p] = [@ EXCEPT !.begun = TRUE]]
         \/ /\ w.at = "handle" /\ Fits(entry[p], w.frame) /\ w.frame.kind = "data"
            /\ entry' = [entry EXCEPT ![p] = [@ EXCEPT !.got = got]]
         \/ /\ w.at = "handle" /\ Fits(entry[p], w.frame)
            /\ w.frame.kind \notin {"begin", "data"}
            /\ entry' = [entry EXCEPT ![p] = [@ EXCEPT !.active = FALSE]]
         \/ /\ w.at = "tell" /\ p \in pending /\ w.frame.kind = "error"
            /\ entry' = [entry EXCEPT ![p] = [@ EXCEPT !.error = "failed", !.event = TRUE]]
         \/ /\ w.at = "tell" /\ p \in pending /\ w.frame.kind # "error"
            /\ entry' = [entry EXCEPT ![p] = [@ EXCEPT !.event = TRUE]]
  <2>1. CASE WorkerHandles(w)
    BY <2>1 DEF WorkerHandles, Absorb
  <2>2. CASE ~WorkerHandles(w)
    BY <2>2 DEF WorkStep, WorkerGrants, WorkerResumes, WorkerTells, WorkerBreaks, table,
                HasEntry
  <2> QED
    BY <2>1, <2>2
<1>2. /\ entry[q] \in Entry /\ entry \in [Queries -> Entry] /\ p \in Queries
  <2>1. w \in Work
    BY DEF Types, WorkTypes, OneWorker
  <2> QED
    BY <2>1 DEF Work, Frame, Types, EntryTypes
<1> HIDE DEF p, got
<1>3. CASE p # q \/ entry' = entry
  BY <1>1, <1>2, <1>3 DEF Kept, Same
<1>4. CASE p = q /\ entry' # entry
  <2>1. CASE entry' = [entry EXCEPT ![p] = [@ EXCEPT !.begun = TRUE]]
    <3>1. entry'[q] = [entry[q] EXCEPT !.begun = TRUE]
      BY <1>2, <1>4, <2>1
    <3> QED
      BY <1>1, <1>2, <3>1 DEF Kept, Same, Entry
  <2>2. CASE /\ w.at = "handle" /\ Fits(entry[p], w.frame) /\ w.frame.kind = "data"
             /\ entry' = [entry EXCEPT ![p] = [@ EXCEPT !.got = got]]
    <3>1. entry'[q] = [entry[q] EXCEPT !.got = got]
      BY <1>2, <1>4, <2>2
    <3>2. /\ Kept(q) /\ entry'[q].active = entry[q].active /\ entry'[q].got = got
          /\ entry'[q].error = entry[q].error /\ entry'[q].event = entry[q].event
      BY <1>2, <3>1 DEF Kept, Entry
    <3> QED
      BY <1>1, <1>4, <2>2, <3>2 DEF p, got
  <2>3. CASE /\ w.at = "handle" /\ Fits(entry[p], w.frame)
             /\ w.frame.kind \notin {"begin", "data"}
             /\ entry' = [entry EXCEPT ![p] = [@ EXCEPT !.active = FALSE]]
    <3>1. entry'[q] = [entry[q] EXCEPT !.active = FALSE]
      BY <1>2, <1>4, <2>3
    <3>2. /\ Kept(q) /\ ~entry'[q].active /\ entry'[q].got = entry[q].got
          /\ entry'[q].error = entry[q].error /\ entry'[q].event = entry[q].event
      BY <1>2, <3>1 DEF Kept, Entry
    <3> QED
      BY <1>1, <1>4, <2>3, <3>2 DEF p
  <2>4. CASE /\ w.at = "tell" /\ p \in pending /\ w.frame.kind = "error"
             /\ entry' = [entry EXCEPT ![p] = [@ EXCEPT !.error = "failed", !.event = TRUE]]
    <3>1. entry'[q] = [entry[q] EXCEPT !.error = "failed", !.event = TRUE]
      BY <1>2, <1>4, <2>4
    <3>2. /\ Kept(q) /\ entry'[q].active = entry[q].active /\ entry'[q].got = entry[q].got
          /\ entry'[q].error = "failed" /\ entry'[q].event
      BY <1>2, <3>1 DEF Kept, Entry
    <3> QED
      BY <1>1, <1>4, <2>4, <3>2 DEF p
  <2>5. CASE /\ w.at = "tell" /\ p \in pending /\ w.frame.kind # "error"
             /\ entry' = [entry EXCEPT ![p] = [@ EXCEPT !.event = TRUE]]
    <3>1. entry'[q] = [entry[q] EXCEPT !.event = TRUE]
      BY <1>2, <1>4, <2>5
    <3>2. /\ Kept(q) /\ entry'[q].active = entry[q].active /\ entry'[q].got = entry[q].got
          /\ entry'[q].error = entry[q].error /\ entry'[q].event
      BY <1>2, <3>1 DEF Kept, Entry
    <3> QED
      BY <1>1, <1>4, <2>5, <3>2 DEF p
  <2> QED
    BY <1>1, <1>4, <2>1, <2>2, <2>3, <2>4, <2>5
<1> QED
  BY <1>3, <1>4

\* What everything else leaves of a call.
LEMMA OtherSteps ==
  ASSUME Types, OtherStep
  PROVE  /\ pc' = pc /\ outcome' = outcome /\ pending' \in {pending, {}}
         /\ closing = "closed" => closing' = "closed"
         /\ \A q \in Queries : Kept(q)
<1>1. pc' = pc /\ outcome' = outcome
  BY DEF OtherStep, LinkStep, Break, Open, RestoreFails, Authenticate,
     MarkAuthenticated, FinishRestore, Settle, TeardownStep, CloseTake, CloseReset,
     CloseTransport, CallbackStep, CallbackReset, CallbackTake, Abort, ResetSession,
     ReceiveFrame, ReceiveBatch, WorkerTakes, ServerStep, ServerSends, ServerFails,
     RelayFails, FailStep, FailCancels, FailResumes, FailTells, FailBreaks, WorkStep,
     WorkerHandles, WorkerGrants, WorkerResumes, WorkerTells, WorkerBreaks, call
<1>2. pending' \in {pending, {}} /\ (closing = "closed" => closing' = "closed")
  BY DEF OtherStep, LinkStep, Break, Open, RestoreFails, Authenticate,
     MarkAuthenticated, FinishRestore, Settle, TeardownStep, CloseTake, CloseReset,
     CloseTransport, CallbackStep, CallbackReset, CallbackTake, Abort, ResetSession,
     ReceiveFrame, ReceiveBatch, WorkerTakes, ServerStep, ServerSends, ServerFails,
     RelayFails, FailStep, FailCancels, FailResumes, FailTells, FailBreaks, WorkStep,
     WorkerHandles, WorkerGrants, WorkerResumes, WorkerTells, WorkerBreaks, Lose, table,
     teardown
<1>3. \A q \in Queries : Kept(q)
  BY LinkEffect, TeardownEffect, FrameEffect, BatchEffect, FailEffect, WorkEffect
     DEF OtherStep
<1> QED
  BY <1>1, <1>2, <1>3

Early == {"idle", "negotiating", "selected", "asking"}

\* An entry is in the table from its registration on, and while the call lasts.
TableInv ==
  \A q \in Queries :
    \/ pc[q] \in InCall
    \/ q \notin pending
    \/ pc[q] = "done" /\ IsFinance(q) /\ closing = "closed"

\* Every step leaves the table clean.
LEMMA TableStep ==
  ASSUME Types, TableInv, [Next]_vars
  PROVE  TableInv'
<1>1. CASE OtherStep
  BY <1>1, OtherSteps DEF TableInv, IsFinance, Kept
<1>2. ASSUME NEW q \in Queries, UserStep(q)
      PROVE  TableInv'
  <2>1. ASSUME NEW p \in Queries \ {q}
        PROVE  \/ pc'[p] \in InCall
               \/ p \notin pending'
               \/ pc'[p] = "done" /\ entry'[p].version = 0 /\ closing' = "closed"
    BY <1>2, <2>1, UserSteps DEF TableInv, IsFinance
  <2>2. \/ pc'[q] \in InCall
        \/ q \notin pending'
        \/ pc'[q] = "done" /\ entry'[q].version = 0 /\ closing' = "closed"
    <3>1. \/ pc[q] \in InCall
          \/ q \notin pending
          \/ pc[q] = "done" /\ entry[q].version = 0 /\ closing = "closed"
      BY DEF TableInv, IsFinance
    <3>2. CASE pc[q] \in {"idle", "negotiating", "selected", "asking"}
      BY <1>2, <3>1, <3>2, Calls DEF UserStep, CallStep, Begin, BeginFinance, Select,
         RefuseToSelect, Register, CheckGeneration, SendRequest, NoTransport, SendFails,
         Resume, Finish, Expire, GraceEnds, Depart, RegisterFinance, WaitUnsent,
         FindClosed, ExpireFinance, LoseInCall, Types, CallTypes, EntryTypes, Go, table,
         call
    <3>3. CASE pc[q] \notin {"idle", "negotiating", "selected", "asking"}
      BY <1>2, <3>1, <3>3, Calls DEF UserStep, CallStep, Begin, BeginFinance, Select,
         RefuseToSelect, Register, CheckGeneration, SendRequest, NoTransport, SendFails,
         Resume, Finish, Expire, GraceEnds, Depart, RegisterFinance, WaitUnsent,
         FindClosed, ExpireFinance, LoseInCall, Types, CallTypes, Go, Leave, DropEntry,
         IsFinance, table, call, teardown
    <3> QED
      BY <3>2, <3>3
  <2> QED
    BY <2>1, <2>2 DEF TableInv, IsFinance
<1>3. CASE UNCHANGED vars
  BY <1>3 DEF vars, TableInv, IsFinance
<1> QED
  BY <1>1, <1>2, <1>3, Steps

\* The table holds no entry of a call that is over.
THEOREM TableStaysClean == Spec => []TableIsClean
<1>1. Init => TableInv
  BY DEF Init, TableInv
<1>2. Types /\ TableInv /\ [Next]_vars => TableInv'
  BY TableStep
<1>3. Types /\ TableInv => TableIsClean
  BY DEF Types, CallTypes, TableInv, TableIsClean
<1> QED
  BY <1>1, <1>2, <1>3, TypesHold, PTL DEF Spec

\* A stream is active, then cancelled or over; it is counted when it is cancelled.
CancelOf(q) ==
  /\ entry[q].active => entry[q].version = 2
  /\ pc[q] \in {"idle", "negotiating"} =>
       /\ entry[q].version = 1 /\ ~entry[q].active /\ cancels[q] = 0
       /\ entry[q].event => entry[q].error # "none"
  /\ cancels[q] <= 1
  /\ cancels[q] = 1 => entry[q].version = 2 /\ ~entry[q].active
  /\ (entry[q].event /\ entry[q].error = "none") => ~entry[q].active /\ cancels[q] = 0

CancelInv == \A q \in Queries : CancelOf(q)

\* The frame of the worker is of a call that has registered; when it tells the call of
\* its END, the stream is over by itself.
WorkerInv ==
  \A w \in worker :
    /\ pc[w.frame.q] \notin Early
    /\ (w.at = "tell" /\ w.frame.kind # "error") =>
         ~entry[w.frame.q].active /\ cancels[w.frame.q] = 0

\* What happens to a stream but for its call.
StreamEffect(q) ==
  \/ Same(q)
  \/ /\ Cancels(q) /\ entry'[q].error = entry[q].error
     /\ entry'[q].event = entry[q].event
  \/ Cancels(q) /\ entry'[q].error = "aborted" /\ entry'[q].event
  \/ /\ entry'[q].active = entry[q].active /\ cancels'[q] = cancels[q]
     /\ entry'[q].error = "failed"
  \/ /\ entry[q].active /\ cancels'[q] = cancels[q]
     /\ entry'[q].error = entry[q].error /\ entry'[q].event = entry[q].event
  \/ /\ ~entry[q].active /\ ~entry'[q].active /\ cancels[q] = 0 /\ cancels'[q] = 0
     /\ pc[q] \notin Early

\* What the other threads do to a stream: the cancel of one that runs is counted.
LEMMA OtherEffects ==
  ASSUME Types, TableInv, CancelInv, WorkerInv, OtherStep, NEW q \in Queries
  PROVE  Kept(q) /\ StreamEffect(q)
<1>1. /\ CancelOf(q) /\ cancels[q] \in Nat
      /\ q \in pending => pc[q] \notin Early
  BY Calls DEF CancelInv, Types, EntryTypes, TableInv, Early
<1>2. CASE LinkStep
  BY <1>2, LinkEffect DEF StreamEffect
<1>3. CASE TeardownStep
  BY <1>3, TeardownEffect DEF StreamEffect
<1>4. CASE ReceiveFrame \/ WorkerTakes \/ \E p \in Queries : ServerStep(p)
  BY <1>4, FrameEffect DEF StreamEffect
<1>5. CASE ReceiveBatch
  <2>1. q \in pending /\ entry[q].version # 2 =>
          ~entry[q].active /\ cancels[q] = 0 /\ pc[q] \notin Early
    BY <1>1 DEF CancelOf
  <2> QED
    BY <1>5, <2>1, BatchEffect DEF StreamEffect
<1>6. ASSUME NEW f \in failing, FailStep(f)
      PROVE  Kept(q) /\ StreamEffect(q)
  BY <1>6, FailEffect DEF StreamEffect
<1>7. ASSUME NEW w \in worker, WorkStep(w)
      PROVE  Kept(q) /\ StreamEffect(q)
  <2>1. (w.at = "tell" /\ w.frame.kind # "error" /\ q = w.frame.q) =>
          ~entry[q].active /\ cancels[q] = 0 /\ pc[q] \notin Early
    BY DEF WorkerInv
  <2>2. (w.at = "handle" /\ Fits(entry[q], w.frame)) => entry[q].active
    BY DEF Fits
  <2> QED
    BY <1>7, <2>1, <2>2, WorkEffect DEF StreamEffect
<1> QED
  BY <1>2, <1>3, <1>4, <1>5, <1>6, <1>7 DEF OtherStep

\* The same for what the call does to its own stream.
UserEffect(q) ==
  \/ /\ Same(q) /\ Kept(q)
     /\ pc'[q] \in {"idle", "negotiating"} => pc[q] \in {"idle", "negotiating"}
  \/ /\ Same(q) /\ pc'[q] = "negotiating" /\ pc[q] = "idle"
     /\ entry'[q].version = entry[q].version
  \/ Same(q) /\ pc[q] = "idle" /\ pc'[q] = "asking" /\ entry'[q].version = 0
  \/ /\ pc[q] = "negotiating" /\ pc'[q] = "selected" /\ cancels'[q] = cancels[q]
     /\ entry'[q].error = entry[q].error /\ entry'[q].event = entry[q].event
     /\ entry'[q].got = entry[q].got
     /\ entry'[q].active => entry'[q].version = 2
  \/ /\ Same(q) /\ pc'[q] = "registered" /\ entry'[q].version = entry[q].version
  \/ /\ Cancels(q) /\ Kept(q) /\ pc'[q] \in {"leaving", "callback", "blocked"}
     /\ entry'[q].error = entry[q].error /\ entry'[q].event = entry[q].event
     /\ entry'[q].got = entry[q].got
  \/ /\ ~entry'[q].active /\ cancels'[q] = cancels[q] /\ Kept(q) /\ pc'[q] = "done"
     /\ entry'[q].error = entry[q].error /\ entry'[q].event = entry[q].event
     /\ entry'[q].got = entry[q].got

\* What a call does to its own stream.
LEMMA UserEffects ==
  ASSUME Types, NEW q \in Queries, UserStep(q)
  PROVE  UserEffect(q)
<1>0. /\ entry[q] \in Entry /\ entry \in [Queries -> Entry] /\ cancels \in [Queries -> Nat]
      /\ pc \in [Queries -> Points]
  BY DEF Types, EntryTypes, CallTypes
<1>1. CASE Begin(q)
  <2>1. /\ entry'[q] = [entry[q] EXCEPT !.gen = generation, !.cap = TRUE]
        /\ cancels' = cancels /\ pc[q] = "idle" /\ pc'[q] = "negotiating"
    BY <1>0, <1>1 DEF Begin, Go
  <2> QED
    BY <1>0, <2>1 DEF UserEffect, Same, Entry
<1>2. CASE BeginFinance(q)
  <2>1. /\ entry'[q] = [entry[q] EXCEPT !.version = 0]
        /\ cancels' = cancels /\ pc[q] = "idle" /\ pc'[q] = "asking"
    BY <1>0, <1>2 DEF BeginFinance, Go
  <2> QED
    BY <1>0, <2>1 DEF UserEffect, Same, Entry
<1>3. CASE Select(q)
  <2>1. \E n \in {1, 2} :
          /\ entry'[q] = [entry[q] EXCEPT !.version = n, !.active = v2]
          /\ v2 => n = 2
    BY <1>0, <1>3 DEF Select
  <2>2. cancels' = cancels /\ pc[q] = "negotiating" /\ pc'[q] = "selected"
    BY <1>0, <1>3 DEF Select, Go
  <2> QED
    BY <1>0, <2>1, <2>2 DEF UserEffect, Entry
<1>4. CASE Register(q)
  <2>1. /\ entry'[q] = [entry[q] EXCEPT !.gen = generation]
        /\ cancels' = cancels /\ pc'[q] = "registered"
    BY <1>0, <1>4 DEF Register, Go
  <2> QED
    BY <1>0, <2>1 DEF UserEffect, Same, Entry
<1>5. CASE Depart(q)
  <2>1. /\ entry'[q] = [entry[q] EXCEPT !.active = FALSE]
        /\ cancels' = cancels /\ pc'[q] = "done"
    BY <1>0, <1>5 DEF Depart, Go
  <2> QED
    BY <1>0, <2>1 DEF UserEffect, Kept, Entry
<1>6. CASE Expire(q) /\ entry[q].active
  <2>1. /\ entry'[q] = [entry[q] EXCEPT !.active = FALSE]
        /\ pc'[q] \in {"leaving", "callback", "blocked"}
        /\ CountCancel(q)
    BY <1>0, <1>6, Calls DEF Expire, Go, Leave, LoseInCall, Cancel
  <2>2. cancels'[q] = cancels[q] + IF entry[q].active THEN 1 ELSE 0
    BY <1>0, <2>1 DEF CountCancel, ProducesCancel
  <2> QED
    BY <1>0, <2>1, <2>2 DEF UserEffect, Kept, Cancels, Entry
<1>7. CASE \/ RefuseToSelect(q) \/ CheckGeneration(q) \/ SendRequest(q) \/ NoTransport(q)
           \/ SendFails(q) \/ Resume(q) \/ Finish(q) \/ (Expire(q) /\ ~entry[q].active)
           \/ GraceEnds(q) \/ RegisterFinance(q) \/ WaitUnsent(q) \/ FindClosed(q)
           \/ ExpireFinance(q)
  <2>1. entry' = entry /\ cancels' = cancels
    BY <1>7 DEF CallStep, Begin, BeginFinance, Select, RefuseToSelect, Register,
             CheckGeneration, SendRequest, NoTransport, SendFails, Resume, Finish, Expire,
         GraceEnds, Depart, RegisterFinance, WaitUnsent, FindClosed, ExpireFinance,
         LoseInCall, table
  <2>2. pc'[q] \notin {"idle", "negotiating"}
    BY <1>0, <1>7, Calls DEF CallStep, Begin, BeginFinance, Select, RefuseToSelect,
       Register, CheckGeneration, SendRequest, NoTransport, SendFails, Resume, Finish,
       Expire, GraceEnds, Depart, RegisterFinance, WaitUnsent, FindClosed,
       ExpireFinance, LoseInCall, Go, Leave
  <2> QED
    BY <2>1, <2>2 DEF UserEffect, Same, Kept
<1> QED
  BY <1>1, <1>2, <1>3, <1>4, <1>5, <1>6, <1>7 DEF UserStep, CallStep

\* Every step counts a cancel once, and cancels no stream that is over.
LEMMA CancelStep ==
  ASSUME Types, TableInv, CancelInv, WorkerInv, [Next]_vars
  PROVE  CancelInv'
<1> SUFFICES ASSUME NEW q \in Queries
             PROVE  CancelOf(q)'
  BY DEF CancelInv
<1>1. CancelOf(q) /\ cancels[q] \in Nat
  BY DEF CancelInv, Types, EntryTypes
<1>2. CASE OtherStep
  <2>1. pc'[q] = pc[q] /\ Kept(q) /\ StreamEffect(q)
    BY <1>2, OtherSteps, OtherEffects
  <2> QED
    BY <1>1, <2>1 DEF CancelOf, Kept, StreamEffect, Same, Cancels, Early
<1>3. ASSUME NEW p \in Queries, UserStep(p)
      PROVE  CancelOf(q)'
  <2>1. CASE p # q
    <3>1. pc'[q] = pc[q] /\ entry'[q] = entry[q] /\ cancels'[q] = cancels[q]
      BY <1>3, <2>1, UserSteps
    <3> QED
      BY <1>1, <3>1 DEF CancelOf
  <2>2. CASE p = q
    <3>1. UserEffect(q)
      BY <1>3, <2>2, UserEffects
    <3> QED
      BY <1>1, <3>1 DEF CancelOf, UserEffect, Kept, Same, Cancels
  <2> QED
    BY <2>1, <2>2
<1>4. CASE UNCHANGED vars
  BY <1>1, <1>4 DEF vars, CancelOf
<1> QED
  BY <1>2, <1>3, <1>4, Steps

\* Every step leaves the worker with a frame of a registered call.
LEMMA WorkerInvStep ==
  ASSUME Types, TableInv, CancelInv, WorkerInv, [Next]_vars
  PROVE  WorkerInv'
<1>0. \A w \in worker : w.frame.q \in Queries
  BY DEF Types, WorkTypes, OneWorker, Work, Frame
<1>1. CASE OtherStep /\ worker' \subseteq worker
  <2>1. ASSUME NEW w \in worker'
        PROVE  /\ pc'[w.frame.q] \notin Early
               /\ (w.at = "tell" /\ w.frame.kind # "error") =>
                    ~entry'[w.frame.q].active /\ cancels'[w.frame.q] = 0
    <3>1. w \in worker /\ w.frame.q \in Queries /\ cancels[w.frame.q] \in Nat
      BY <1>0, <1>1, <2>1 DEF Types, EntryTypes
    <3>2. pc' = pc /\ StreamEffect(w.frame.q)
      BY <1>1, <3>1, OtherSteps, OtherEffects
    <3> QED
      BY <3>1, <3>2 DEF WorkerInv, StreamEffect, Same, Cancels
  <2> QED
    BY <2>1 DEF WorkerInv
<1>2. CASE WorkerTakes
  <2> DEFINE f == Head(queue)
  <2>1. worker' \subseteq worker
        \/ (f.q \in pending /\ worker' = {[frame |-> f, at |-> "handle"]})
    BY <1>2 DEF WorkerTakes, WorkerFree, HasEntry
  <2>2. f.q \in pending => pc[f.q] \notin Early
    BY Calls DEF TableInv, Early, Types, CallTypes
  <2> HIDE DEF f
  <2>3. pc' = pc /\ OtherStep
    BY <1>2, OtherSteps DEF OtherStep
  <2> QED
    BY <1>1, <2>1, <2>2, <2>3 DEF WorkerInv
<1>3. ASSUME NEW w \in worker, WorkStep(w)
      PROVE  WorkerInv'
  <2>0. pc' = pc /\ OtherStep /\ w.frame.q \in Queries /\ worker = {w} /\ w \in Work
    <3>1. worker = {w} /\ w \in Work
      BY DEF Types, WorkTypes, OneWorker
    <3> QED
      BY <1>0, <1>3, <3>1, OtherSteps DEF OtherStep
  <2>1. CASE worker' = {}
    BY <2>1 DEF WorkerInv
  <2>2. CASE \E at \in {"grant", "callback", "blocked"} : worker' = {[w EXCEPT !.at = at]}
    <3>1. PICK at \in {"grant", "callback", "blocked"} : worker' = {[w EXCEPT !.at = at]}
      BY <2>2
    <3> DEFINE v == [w EXCEPT !.at = at]
    <3>2. worker' = {v} /\ v.frame = w.frame /\ v.at # "tell"
      BY <2>0, <3>1 DEF Work
    <3> HIDE DEF v
    <3>3. pc'[v.frame.q] \notin Early
      BY <2>0, <3>2 DEF WorkerInv
    <3> QED
      BY <3>2, <3>3 DEF WorkerInv
  <2>3. CASE /\ worker' = {[w EXCEPT !.at = "tell"]} /\ w.at = "handle"
             /\ Fits(entry[w.frame.q], w.frame) /\ w.frame.kind \notin {"begin", "data"}
    <3>1. /\ [w EXCEPT !.at = "tell"].frame = w.frame
          /\ entry[w.frame.q].active
      BY <2>0, <2>3 DEF Fits, Work
    <3>2. cancels[w.frame.q] = 0
      BY <2>0, <3>1 DEF CancelInv, CancelOf, Types, EntryTypes
    <3>3. cancels'[w.frame.q] = 0 /\ ~entry'[w.frame.q].active
      <4>1. cancels' = cancels
        BY <2>3, <1>3 DEF WorkStep, WorkerHandles, WorkerGrants, WorkerResumes, WorkerTells,
         WorkerBreaks, table
      <4>2. entry' = [entry EXCEPT ![w.frame.q] = [@ EXCEPT !.active = FALSE]]
        BY <1>3, <2>3 DEF WorkStep, WorkerHandles, WorkerGrants, WorkerResumes, WorkerTells,
         WorkerBreaks, Absorb
      <4>3. entry'[w.frame.q] = [entry[w.frame.q] EXCEPT !.active = FALSE]
            /\ entry[w.frame.q] \in Entry
        BY <2>0, <4>2 DEF Types, EntryTypes
      <4> QED
        BY <3>2, <4>1, <4>3 DEF Entry
    <3> QED
      BY <2>0, <2>3, <3>1, <3>3 DEF WorkerInv
  <2>4. \/ worker' = {}
        \/ \E at \in {"grant", "callback", "blocked"} : worker' = {[w EXCEPT !.at = at]}
        \/ /\ worker' = {[w EXCEPT !.at = "tell"]} /\ w.at = "handle"
           /\ Fits(entry[w.frame.q], w.frame) /\ w.frame.kind \notin {"begin", "data"}
    BY <1>3, Calls DEF WorkStep, WorkerHandles, WorkerGrants, WorkerResumes, WorkerTells,
         WorkerBreaks
  <2> QED
    BY <2>1, <2>2, <2>3, <2>4
<1>4. CASE \/ LinkStep \/ TeardownStep \/ ReceiveFrame \/ ReceiveBatch
           \/ \E q \in Queries : ServerStep(q)
           \/ \E f \in failing : FailStep(f)
  <2>1. worker' = worker
    BY <1>4 DEF LinkStep, Break, Open, RestoreFails, Authenticate, MarkAuthenticated,
       FinishRestore, Settle, TeardownStep, CloseTake, CloseReset, CloseTransport,
       CallbackStep, CallbackReset, CallbackTake, Abort, ResetSession, ReceiveFrame,
       ReceiveBatch, ServerStep, ServerSends, ServerFails, RelayFails, FailStep,
       FailCancels, FailResumes, FailTells, FailBreaks, decode
  <2> QED
    BY <1>1, <1>4, <2>1 DEF OtherStep
<1>5. ASSUME NEW q \in Queries, UserStep(q)
      PROVE  WorkerInv'
  <2>1. worker' = worker
    BY <1>5, UserSteps DEF decode
  <2>2. ASSUME NEW w \in worker
        PROVE  /\ pc'[w.frame.q] \notin Early
               /\ (w.at = "tell" /\ w.frame.kind # "error") =>
                    ~entry'[w.frame.q].active /\ cancels'[w.frame.q] = 0
    <3>1. w.frame.q \in Queries
      BY <1>0
    <3>2. CASE w.frame.q # q
      BY <1>5, <3>1, <3>2, UserSteps DEF WorkerInv
    <3>3. CASE w.frame.q = q
      <4>1. pc[q] \notin Early /\ pc[q] \in Points
        BY <3>3 DEF WorkerInv, Types, CallTypes
      <4>2. pc'[q] \notin Early
        BY <1>5, <4>1, Calls DEF UserStep, CallStep, Begin, BeginFinance, Select,
           RefuseToSelect, Register, CheckGeneration, SendRequest, NoTransport,
           SendFails, Resume, Finish, Expire, GraceEnds, Depart, RegisterFinance,
           WaitUnsent, FindClosed, ExpireFinance, LoseInCall, Types, CallTypes, Go,
           Leave, Early
      <4>3. UserEffect(q)
        BY <1>5, UserEffects
      <4>4. cancels[q] \in Nat
        BY DEF Types, EntryTypes
      <4> QED
        BY <3>3, <4>1, <4>2, <4>3, <4>4 DEF WorkerInv, UserEffect, Same, Cancels, Early
    <3> QED
      BY <3>2, <3>3
  <2> QED
    BY <2>1, <2>2 DEF WorkerInv
<1>6. CASE UNCHANGED vars
  BY <1>6 DEF vars, WorkerInv
<1> QED
  BY <1>2, <1>3, <1>4, <1>5, <1>6, Steps DEF OtherStep

\* One CANCEL at most, and none after the end.
THEOREM CancelsOnce == Spec => []OneCancel
<1>1. Init => TableInv /\ CancelInv /\ WorkerInv
  <2> SUFFICES ASSUME Init
               PROVE  TableInv /\ CancelInv /\ WorkerInv
    OBVIOUS
  <2>1. TableInv /\ WorkerInv
    BY DEF Init, TableInv, WorkerInv
  <2>2. \A q \in Queries : entry[q] = NoEntry /\ cancels[q] = 0
    BY DEF Init
  <2>3. NoEntry.version = 1 /\ ~NoEntry.active /\ ~NoEntry.event
    BY DEF NoEntry
  <2> QED
    BY <2>1, <2>2, <2>3 DEF CancelInv, CancelOf
<1>2. Types /\ TableInv /\ CancelInv /\ WorkerInv /\ [Next]_vars
        => TableInv' /\ CancelInv' /\ WorkerInv'
  BY TableStep, CancelStep, WorkerInvStep
<1>3. CancelInv => OneCancel
  BY DEF CancelInv, CancelOf, OneCancel
<1> QED
  BY <1>1, <1>2, <1>3, TypesHold, PTL DEF Spec

\* A dead stream takes no block.
THEOREM DeadStreamsStay == Spec => DeadStreamsKeepStill
<1>1. Types /\ [Next]_vars =>
        [\A q \in Queries :
           entry[q].version = 2 /\ ~entry[q].active /\ pc[q] # "negotiating"
             => entry'[q].got = entry[q].got]_vars
  <2> SUFFICES ASSUME Types, [Next]_vars, NEW q \in Queries, entry[q].version = 2,
                      ~entry[q].active
               PROVE  entry'[q].got = entry[q].got
    OBVIOUS
  <2>1. CASE OtherStep
    <3>1. \A f : ~Fits(entry[q], f)
      BY DEF Fits
    <3> QED
      BY <2>1, <3>1, LinkEffect, TeardownEffect, FrameEffect, BatchEffect, FailEffect,
         WorkEffect DEF OtherStep, Same
  <2>2. ASSUME NEW p \in Queries, UserStep(p)
        PROVE  entry'[q].got = entry[q].got
    BY <2>2, UserSteps, UserEffects DEF UserEffect, Same
  <2>3. CASE UNCHANGED vars
    BY <2>3 DEF vars
  <2> QED
    BY <2>1, <2>2, <2>3, Steps
<1> QED
  BY <1>1, TypesHold, PTL DEF Spec, DeadStreamsKeepStill

-----------------------------------------------------------------------------
(***************************************************************************)
(* The abort of a loss.                                                    *)
(***************************************************************************)

\* What is sent next, and the stream after it.
LEMMA NextFrame ==
  ASSUME Types, NEW q \in Queries, NEW m \in NextFrames(q)
  PROVE  /\ m.then.asked = stream[q].asked /\ m.then.version = stream[q].version
         /\ \/ /\ stream[q].version = 1 /\ m.kind = "batch" /\ m.seq = stream[q].next
               /\ m.then.next = stream[q].next + 1 /\ m.then.total = stream[q].total
               /\ m.then.gen = IF stream[q].next = stream[q].total THEN 0 ELSE stream[q].gen
            \/ /\ stream[q].version = 2 /\ m.kind \in {"begin", "data"}
               /\ m.then.total = stream[q].total /\ m.then.gen = stream[q].gen
            \/ /\ stream[q].version = 2 /\ m.kind = "end"
               /\ m.then.gen = 0 /\ m.then.total = m.seq
<1> DEFINE r == stream[q]
<1>1. r \in Stream
  BY DEF Types, WireTypes
<1>2. r.version \in {1, 2}
  BY <1>1 DEF Stream
<1>3. CASE r.version = 1
  <2> DEFINE h == IF r.next = r.total THEN 0 ELSE r.gen
             n == r.next + 1
  <2>1. m = [kind |-> "batch", seq |-> r.next, then |-> [r EXCEPT !.next = n, !.gen = h]]
    BY <1>3 DEF NextFrames
  <2> HIDE DEF h, n, r
  <2>2. /\ m.then.asked = r.asked /\ m.then.version = r.version /\ m.kind = "batch"
        /\ m.seq = r.next /\ m.then.next = n /\ m.then.total = r.total /\ m.then.gen = h
    BY <1>1, <2>1 DEF Stream
  <2> QED
    BY <1>3, <2>2 DEF h, n, r
<1>4. CASE r.version = 2 /\ r.next = 0
  <2>1. m = [kind |-> "begin", seq |-> 0, then |-> [r EXCEPT !.next = 1]]
    BY <1>4 DEF NextFrames
  <2> HIDE DEF r
  <2>2. /\ m.then.asked = r.asked /\ m.then.version = r.version /\ m.kind = "begin"
        /\ m.then.total = r.total /\ m.then.gen = r.gen
    BY <1>1, <2>1 DEF Stream
  <2> QED
    BY <1>4, <2>2 DEF r
<1>5. CASE r.version = 2 /\ r.next # 0
  <2> DEFINE n == r.next + 1
             p == r.next - 1
             c == r.credit - 1
  <2>1. \/ m = [kind |-> "end", seq |-> p, then |-> [r EXCEPT !.gen = 0, !.total = p]]
        \/ m = [kind |-> "data", seq |-> r.next, then |-> [r EXCEPT !.next = n, !.credit = c]]
    BY <1>5 DEF NextFrames
  <2> HIDE DEF n, p, c, r
  <2>2. CASE m = [kind |-> "end", seq |-> p, then |-> [r EXCEPT !.gen = 0, !.total = p]]
    <3>1. m.kind = "end" /\ m.seq = p /\ m.then = [r EXCEPT !.gen = 0, !.total = p]
      BY <2>2
    <3>2. /\ m.then.asked = r.asked /\ m.then.version = r.version
          /\ m.then.gen = 0 /\ m.then.total = p
      BY <1>1, <3>1 DEF Stream
    <3> QED
      BY <1>5, <3>1, <3>2 DEF r
  <2>3. CASE m = [kind |-> "data", seq |-> r.next,
                  then |-> [r EXCEPT !.next = n, !.credit = c]]
    <3>1. m.kind = "data" /\ m.then = [r EXCEPT !.next = n, !.credit = c]
      BY <2>3
    <3>2. /\ m.then.asked = r.asked /\ m.then.version = r.version
          /\ m.then.total = r.total /\ m.then.gen = r.gen
      BY <1>1, <3>1 DEF Stream
    <3> QED
      BY <1>5, <3>1, <3>2 DEF r
  <2> QED
    BY <2>1, <2>2, <2>3
<1> QED
  BY <1>2, <1>3, <1>4, <1>5

\* What happens to the server's side of a request, but for its call.
Served(q) ==
  /\ stream'[q].asked = stream[q].asked /\ stream'[q].version = stream[q].version
  /\ \/ stream'[q] = stream[q]
     \/ /\ stream'[q].next = stream[q].next /\ stream'[q].total = stream[q].total
        /\ stream'[q].gen \in {stream[q].gen, 0}
     \/ stream[q].gen = generation /\ connected

\* Whoever else moves, a request stays the one that was sent.
LEMMA OtherServes ==
  ASSUME Types, OtherStep, NEW q \in Queries
  PROVE  Served(q)
<1>0. stream \in [Queries -> Stream] /\ stream[q] \in Stream
  BY DEF Types, WireTypes
<1>1. CASE LinkStep \/ TeardownStep \/ ReceiveFrame \/ ReceiveBatch \/ WorkerTakes
  BY <1>1 DEF LinkStep, Break, Open, RestoreFails, Authenticate, MarkAuthenticated,
     FinishRestore, Settle, TeardownStep, CloseTake, CloseReset, CloseTransport,
     CallbackStep, CallbackReset, CallbackTake, Abort, ResetSession, ReceiveFrame,
     ReceiveBatch, WorkerTakes, server, Served
<1>2. ASSUME NEW p \in Queries, ServerStep(p)
      PROVE  Served(q)
  <2>1. stream[p].gen = generation /\ connected
    BY <1>2 DEF ServerStep, ServerSends, ServerFails, RelayFails, Serving
  <2>2. \/ stream' = [stream EXCEPT ![p].gen = 0]
        \/ \E m \in NextFrames(p) : \/ stream' = [stream EXCEPT ![p] = m.then]
                                    \/ stream' = [stream EXCEPT ![p] =
                                                    [m.then EXCEPT !.lossy = TRUE]]
    BY <1>2 DEF ServerStep, ServerSends, ServerFails, RelayFails
  <2>3. \A m \in NextFrames(p) :
          /\ m.then.asked = stream[p].asked /\ m.then.version = stream[p].version
          /\ [m.then EXCEPT !.lossy = TRUE].asked = stream[p].asked
          /\ [m.then EXCEPT !.lossy = TRUE].version = stream[p].version
    BY NextFrame, StreamTypes DEF Stream
  <2>4. CASE p = q
    BY <1>0, <2>1, <2>2, <2>3, <2>4 DEF Served, Stream
  <2>5. CASE p # q
    BY <1>0, <2>2, <2>5 DEF Served
  <2> QED
    BY <2>4, <2>5
<1>3. ASSUME NEW f \in failing, FailStep(f)
      PROVE  Served(q)
  <2>1. stream' = stream \/ stream' = [stream EXCEPT ![f.q].gen = 0]
    BY <1>3 DEF FailStep, FailCancels, FailResumes, FailTells, FailBreaks, Stop, server
  <2> QED
    BY <1>0, <2>1 DEF Served, Stream
<1>4. ASSUME NEW w \in worker, WorkStep(w)
      PROVE  Served(q)
  <2>1. stream' = stream \/ stream' = [stream EXCEPT ![w.frame.q].credit = @ + 1]
    BY <1>4 DEF WorkStep, WorkerHandles, WorkerGrants, WorkerResumes, WorkerTells,
         WorkerBreaks, Grant, server
  <2> QED
    BY <1>0, <2>1 DEF Served, Stream
<1> QED
  BY <1>1, <1>2, <1>3, <1>4 DEF OtherStep

\* Callbacks and aborts: a transport in use was not lost, and a table that was taken
\* waits for nobody but the callback that took it.
LossInv ==
  /\ connected => loss[generation] = "none"
  /\ \A g \in Generations : g > generation => loss[g] = "none"
  /\ \A g \in Generations : loss[g] # "taken" => aborting[g] = {}
  /\ closing = "open" => aborting[0] = {}

\* A transport is lost, or not.
LostOrNot ==
  /\ generation' = generation /\ aborting' = aborting /\ closing' = closing
  /\ \/ UNCHANGED <<connected, loss>>
     \/ ~connected' /\ loss' = loss
     \/ connected /\ ~connected' /\ loss' = [loss EXCEPT ![generation] = "owed"]

\* Only the loss of the transport in use makes its callback due.
LEMMA Losses ==
  ASSUME Types, [Next]_vars
  PROVE  Open \/ TeardownStep \/ LostOrNot
<1>1. CASE LinkStep
  BY <1>1 DEF LinkStep, Break, Open, RestoreFails, Authenticate, MarkAuthenticated,
         FinishRestore, Settle, Lose, link, teardown, LostOrNot
<1>2. CASE ReceiveFrame \/ ReceiveBatch \/ WorkerTakes \/ \E q \in Queries : ServerStep(q)
  BY <1>2 DEF ReceiveFrame, ReceiveBatch, WorkerTakes, ServerStep, ServerSends,
     ServerFails, RelayFails, link, teardown, LostOrNot
<1>3. CASE (\E f \in failing : FailStep(f)) \/ \E w \in worker : WorkStep(w)
  BY <1>3 DEF FailStep, FailCancels, FailResumes, FailTells, FailBreaks, WorkStep,
     WorkerHandles, WorkerGrants, WorkerResumes, WorkerTells, WorkerBreaks, Lose, link,
     teardown, LostOrNot
<1>4. ASSUME NEW q \in Queries, UserStep(q)
      PROVE  LostOrNot
  BY <1>4 DEF UserStep, CallStep, Begin, BeginFinance, Select, RefuseToSelect, Register,
             CheckGeneration, SendRequest, NoTransport, SendFails, Resume, Finish, Expire,
         GraceEnds, Depart, RegisterFinance, WaitUnsent, FindClosed, ExpireFinance,
         LoseInCall, Lose, link, teardown, LostOrNot
<1>5. CASE UNCHANGED vars
  BY <1>5 DEF vars, LostOrNot
<1> QED
  BY <1>1, <1>2, <1>3, <1>4, <1>5, Steps DEF OtherStep

\* Every step keeps the account of losses.
LEMMA LossStep ==
  ASSUME Types, LossInv, [Next]_vars
  PROVE  LossInv'
<1>0. /\ generation \in Generations
      /\ loss \in [Generations -> {"none", "owed", "reset", "taken"}]
      /\ aborting \in [0 .. MaxGeneration -> SUBSET Queries] /\ 0 \notin Generations
      /\ Generations \subseteq Nat /\ Generations \subseteq 0 .. MaxGeneration
      /\ 0 \in 0 .. MaxGeneration
  BY BoundAssumption DEF Types, LinkTypes, TeardownTypes, Generations
<1>1. CASE Open
  BY <1>0, <1>1, BoundAssumption DEF Open, LossInv, teardown, Generations
<1>2. CASE LostOrNot
  BY <1>0, <1>2 DEF LostOrNot, LossInv
<1>3. CASE TeardownStep
  <2>1. CASE CloseTake
    <3>1. /\ generation' = generation /\ connected' = connected /\ loss' = loss
          /\ closing' = "taken" /\ aborting' = [aborting EXCEPT ![0] = pending]
      BY <2>1 DEF CloseTake, TakePending, link
    <3> QED
      BY <1>0, <3>1 DEF LossInv
  <2>2. CASE CloseReset \/ CloseTransport
    <3>1. /\ generation' = generation /\ loss' = loss /\ aborting' = aborting
          /\ closing' # "open" /\ (connected' => connected)
      BY <2>2 DEF CloseReset, CloseTransport, link
    <3> QED
      BY <1>0, <3>1 DEF LossInv
  <2>3. ASSUME NEW g \in Generations, CallbackReset(g) \/ CallbackTake(g)
        PROVE  LossInv'
    <3>1. /\ generation' = generation /\ connected' = connected /\ closing' = closing
          /\ loss[g] \in {"owed", "reset"}
          /\ \/ /\ aborting' = aborting
                /\ \/ loss' = [loss EXCEPT ![g] = "none"]
                   \/ loss' = [loss EXCEPT ![g] = "reset"]
             \/ /\ aborting' = [aborting EXCEPT ![g] = pending]
                /\ loss' = [loss EXCEPT ![g] = "taken"]
      BY <2>3 DEF CallbackReset, CallbackTake, TakePending, link
    <3>2. (connected => g # generation) /\ ~(g > generation)
      BY <3>1 DEF LossInv
    <3>3. \A h \in Generations : h # g => loss'[h] = loss[h] /\ aborting'[h] = aborting[h]
      BY <1>0, <3>1
    <3>4. loss'[g] # "taken" => aborting'[g] = {}
      BY <1>0, <3>1 DEF LossInv
    <3>5. aborting'[0] = aborting[0]
      BY <1>0, <3>1
    <3>6. \A h \in Generations : loss'[h] # "taken" => aborting'[h] = {}
      BY <3>3, <3>4 DEF LossInv
    <3>7. connected' => loss'[generation'] = "none"
      BY <1>0, <3>1, <3>2, <3>3 DEF LossInv
    <3>8. \A h \in Generations : h > generation' => loss'[h] = "none"
      BY <1>0, <3>1, <3>2, <3>3 DEF LossInv
    <3> QED
      BY <3>1, <3>5, <3>6, <3>7, <3>8 DEF LossInv
  <2>4. ASSUME NEW g \in 0 .. MaxGeneration, NEW q \in Queries, Abort(g, q)
        PROVE  LossInv'
    BY <1>0, <2>4 DEF Abort, LossInv, link
  <2> QED
    BY <1>3, <2>1, <2>2, <2>3, <2>4 DEF TeardownStep, CallbackStep
<1> QED
  BY <1>1, <1>2, <1>3, Losses

\* A call is told of a loss, or about to be.
ToldOf(q) ==
  /\ pc[q] \in Early \cup {"registered", "checked"} => stream[q].asked = 0
  /\ \A g \in Generations : stream[q].asked = g /\ loss[g] = "taken" => q \notin pending
  /\ pc[q] \in InCall \ {"leaving"} =>
       \/ q \in pending
       \/ entry[q].event
       \/ \E h \in 0 .. MaxGeneration : q \in aborting[h]

ToldInv == \A q \in Queries : ToldOf(q)

\* An event stays set.
LEMMA EventStays ==
  ASSUME Types, [Next]_vars, NEW q \in Queries, entry[q].event
  PROVE  entry'[q].event
<1>1. CASE OtherStep
  BY <1>1, LinkEffect, TeardownEffect, FrameEffect, BatchEffect, FailEffect, WorkEffect
     DEF OtherStep, Same
<1>2. ASSUME NEW p \in Queries, UserStep(p)
      PROVE  entry'[q].event
  BY <1>2, UserSteps, UserEffects DEF UserEffect, Same
<1>3. CASE UNCHANGED vars
  BY <1>3 DEF vars
<1> QED
  BY <1>1, <1>2, <1>3, Steps

\* Every step leaves each call in the table, told, or with whoever took the table.
LEMMA ToldStep ==
  ASSUME Types, TableInv, LossInv, ToldInv, [Next]_vars
  PROVE  ToldInv'
<1> SUFFICES ASSUME NEW q \in Queries
             PROVE  ToldOf(q)'
  BY DEF ToldInv
<1>0. /\ ToldOf(q) /\ generation \in Generations
      /\ loss \in [Generations -> {"none", "owed", "reset", "taken"}]
      /\ aborting \in [0 .. MaxGeneration -> SUBSET Queries] /\ 0 \notin Generations
      /\ Generations \subseteq 0 .. MaxGeneration /\ 0 \in 0 .. MaxGeneration
      /\ pending \subseteq Queries
  BY BoundAssumption DEF Types, LinkTypes, TeardownTypes, CallTypes, Generations, ToldInv
<1>1. entry[q].event => entry'[q].event
  BY EventStays
<1>2. CASE OtherStep /\ ~TeardownStep
  <2>1. pc' = pc /\ pending' = pending /\ stream'[q].asked = stream[q].asked
        /\ aborting' = aborting
    <3>1. pending' = pending
      BY <1>2 DEF OtherStep, LinkStep, Break, Open, RestoreFails, Authenticate,
         MarkAuthenticated, FinishRestore, Settle, ReceiveFrame, ReceiveBatch,
         WorkerTakes, ServerStep, ServerSends, ServerFails, RelayFails, FailStep,
         FailCancels, FailResumes, FailTells, FailBreaks, WorkStep, WorkerHandles,
         WorkerGrants, WorkerResumes, WorkerTells, WorkerBreaks, table
    <3>2. aborting' = aborting
      BY <1>2, Losses DEF LostOrNot, Open, teardown
    <3> QED
      BY <1>2, <3>1, <3>2, OtherSteps, OtherServes DEF Served
  <2>2. \A g \in Generations : loss'[g] = "taken" => loss[g] = "taken"
    BY <1>0, <1>2, Losses DEF LostOrNot, Open, teardown
  <2> QED
    BY <1>0, <1>1, <2>1, <2>2 DEF ToldOf
<1>3. CASE TeardownStep
  <2>0. pc' = pc /\ stream' = stream
    BY <1>3 DEF TeardownStep, CloseTake, CloseReset, CloseTransport, CallbackStep,
         CallbackReset, CallbackTake, Abort, ResetSession, call, server
  <2>1. CASE CloseTake
    <3>1. /\ pending' = {} /\ loss' = loss
          /\ aborting' = [aborting EXCEPT ![0] = pending]
      BY <2>1 DEF CloseTake, TakePending
    <3>2. closing = "open"
      BY <2>1 DEF CloseTake
    <3>3. aborting[0] = {}
      BY <3>2 DEF LossInv
    <3>4. /\ aborting'[0] = pending
          /\ \A h \in 0 .. MaxGeneration : h # 0 => aborting'[h] = aborting[h]
      BY <1>0, <3>1
    <3> QED
      BY <1>0, <1>1, <2>0, <3>1, <3>3, <3>4 DEF ToldOf
  <2>2. CASE CloseReset \/ CloseTransport
    <3>1. pending' = pending /\ loss' = loss /\ aborting' = aborting
      BY <2>2 DEF CloseReset, CloseTransport, table
    <3> QED
      BY <1>0, <1>1, <2>0, <3>1 DEF ToldOf
  <2>3. ASSUME NEW g \in Generations, CallbackReset(g)
        PROVE  ToldOf(q)'
    <3>1. pending' = pending /\ aborting' = aborting
          /\ \A h \in Generations : loss'[h] = "taken" => loss[h] = "taken"
      BY <1>0, <2>3 DEF CallbackReset
    <3> QED
      BY <1>0, <1>1, <2>0, <3>1 DEF ToldOf
  <2>4. ASSUME NEW g \in Generations, CallbackTake(g)
        PROVE  ToldOf(q)'
    <3>1. /\ pending' = {} /\ loss[g] = "reset"
          /\ aborting' = [aborting EXCEPT ![g] = pending]
      BY <2>4 DEF CallbackTake, TakePending
    <3>2. aborting[g] = {}
      BY <3>1 DEF LossInv
    <3>3. /\ aborting'[g] = pending
          /\ \A h \in 0 .. MaxGeneration : h # g => aborting'[h] = aborting[h]
      BY <1>0, <3>1
    <3> QED
      BY <1>0, <1>1, <2>0, <3>1, <3>2, <3>3 DEF ToldOf
  <2>5. ASSUME NEW g \in 0 .. MaxGeneration, NEW p \in Queries, Abort(g, p)
        PROVE  ToldOf(q)'
    <3>1. /\ pending' = pending /\ loss' = loss
          /\ aborting' = [aborting EXCEPT ![g] = @ \ {p}]
      BY <2>5 DEF Abort
    <3>2. p = q => entry'[q].event
      BY <2>5 DEF Abort, Types, EntryTypes, Entry
    <3>3. p # q => \A h \in 0 .. MaxGeneration : q \in aborting[h] => q \in aborting'[h]
      BY <1>0, <3>1
    <3> QED
      BY <1>0, <1>1, <2>0, <3>1, <3>2, <3>3 DEF ToldOf
  <2> QED
    BY <1>3, <2>1, <2>2, <2>3, <2>4, <2>5 DEF TeardownStep, CallbackStep
<1>4. ASSUME NEW p \in Queries, UserStep(p)
      PROVE  ToldOf(q)'
  <2>1. LostOrNot
    BY <1>4, UserSteps DEF UserStep, CallStep, Begin, BeginFinance, Select,
       RefuseToSelect, Register, CheckGeneration, SendRequest, NoTransport, SendFails,
       Resume, Finish, Expire, GraceEnds, Depart, RegisterFinance, WaitUnsent,
       FindClosed, ExpireFinance, LoseInCall, Lose, link, teardown, LostOrNot
  <2>2. /\ aborting' = aborting
        /\ \A g \in Generations : loss'[g] = "taken" => loss[g] = "taken"
    BY <1>0, <2>1 DEF LostOrNot
  <2>3. CASE p # q
    <3>1. /\ pc'[q] = pc[q] /\ stream'[q] = stream[q] /\ (q \in pending' <=> q \in pending)
      BY <1>4, <2>3, UserSteps
    <3> QED
      BY <1>0, <1>1, <2>2, <3>1 DEF ToldOf
  <2>4. CASE p = q
    <3>0. /\ pc \in [Queries -> Points] /\ stream \in [Queries -> Stream]
          /\ stream[q] \in Stream
      BY DEF Types, CallTypes, WireTypes
    <3>1. pc'[q] \in Early \cup {"registered", "checked"} => stream'[q].asked = 0
      <4>1. pc'[q] \in Early \cup {"registered", "checked"} =>
              stream' = stream /\ pc[q] \in Early \cup {"registered", "checked"}
        BY <1>4, <2>4, <3>0, Calls DEF UserStep, CallStep, Begin, BeginFinance, Select,
           RefuseToSelect, Register, CheckGeneration, SendRequest, NoTransport,
           SendFails, Resume, Finish, Expire, GraceEnds, Depart, RegisterFinance,
           WaitUnsent, FindClosed, ExpireFinance, LoseInCall, Go, Leave, Early, server
      <4> QED
        BY <1>0, <4>1 DEF ToldOf
    <3>2. ASSUME NEW g \in Generations, stream'[q].asked = g, loss'[g] = "taken"
          PROVE  q \notin pending'
      <4>1. CASE stream'[q].asked = stream[q].asked
        <5>1. q \notin pending /\ pc[q] \notin Early
          BY <1>0, <2>2, <3>2, <4>1 DEF ToldOf
        <5> QED
          BY <1>4, <2>4, <5>1 DEF UserStep, CallStep, Begin, BeginFinance, Select,
             RefuseToSelect, Register,
         CheckGeneration, SendRequest, NoTransport, SendFails, Resume, Finish, Expire,
         GraceEnds, Depart, RegisterFinance, WaitUnsent, FindClosed, ExpireFinance,
         LoseInCall, DropEntry, Early, table
      <4>2. CASE stream'[q].asked # stream[q].asked
        <5>1. stream'[q].asked = generation /\ connected
          <6>1. Serve(q) => stream'[q].asked = generation
            BY <3>0 DEF Serve, Stream
          <6>2. \/ stream' = stream \/ (Serve(q) /\ connected)
                \/ stream' = [stream EXCEPT ![q].gen = 0]
                \/ connected /\ stream' = [stream EXCEPT ![q].asked = generation, ![q].gen = 0]
            BY <1>4, <2>4 DEF UserStep, CallStep, Begin, BeginFinance, Select,
               RefuseToSelect, Register,
         CheckGeneration, SendRequest, NoTransport, SendFails, Resume, Finish, Expire,
         GraceEnds, Depart, RegisterFinance, WaitUnsent, FindClosed, ExpireFinance,
         LoseInCall, Stop, Lose, server
          <6> QED
            BY <3>0, <4>2, <6>1, <6>2 DEF Stream
        <5>2. loss[generation] = "none"
          BY <5>1 DEF LossInv
        <5> QED
          BY <1>0, <2>2, <3>2, <5>1, <5>2
      <4> QED
        BY <4>1, <4>2
    <3>3. pc'[q] \in InCall \ {"leaving"} =>
            \/ q \in pending'
            \/ entry[q].event
            \/ \E h \in 0 .. MaxGeneration : q \in aborting[h]
      <4>1. CASE Register(q) \/ RegisterFinance(q)
        BY <4>1 DEF Register, RegisterFinance
      <4>2. CASE CheckGeneration(q) \/ SendRequest(q) \/ NoTransport(q) \/ SendFails(q)
                 \/ Resume(q) \/ WaitUnsent(q) \/ FindClosed(q)
        <5>1. pending' = pending /\ pc[q] \in {"checked", "registered", "callback", "blocked"}
          BY <4>2 DEF CheckGeneration, SendRequest, NoTransport, SendFails, Resume,
             WaitUnsent, FindClosed, LoseInCall, Released, table
        <5> QED
          BY <1>0, <5>1, Calls DEF ToldOf, InCall
      <4>3. CASE Expire(q) \/ GraceEnds(q) \/ ExpireFinance(q) \/ Finish(q) \/ Depart(q)
        <5>1. pc'[q] \in InCall \ {"leaving"} =>
                pending' = pending /\ pc[q] \in {"waiting", "grace"}
          BY <3>0, <4>3, Calls DEF Expire, GraceEnds, ExpireFinance, Finish, Depart,
             LoseInCall, Go, Leave, table, InCall
        <5> QED
          BY <1>0, <5>1, Calls DEF ToldOf, InCall
      <4>4. CASE Begin(q) \/ BeginFinance(q) \/ Select(q) \/ RefuseToSelect(q)
        <5>1. pc'[q] \in {"negotiating", "asking", "selected", "done"}
          BY <3>0, <4>4 DEF Begin, BeginFinance, Select, RefuseToSelect, Go
        <5> QED
          BY <5>1, Calls DEF InCall
      <4> QED
        BY <1>4, <2>4, <4>1, <4>2, <4>3, <4>4 DEF UserStep, CallStep
    <3> QED
      BY <1>1, <2>2, <3>1, <3>2, <3>3 DEF ToldOf
  <2> QED
    BY <2>3, <2>4
<1>5. CASE UNCHANGED vars
  BY <1>0, <1>5 DEF vars, ToldOf
<1> QED
  BY <1>2, <1>3, <1>4, <1>5, Steps

\* The callback of a loss overlooks no call.
THEOREM AbortsAreComplete == Spec => []AbortMissesNone
<1>1. Init => TableInv /\ LossInv /\ ToldInv
  <2> SUFFICES ASSUME Init
               PROVE  TableInv /\ LossInv /\ ToldInv
    OBVIOUS
  <2>1. TableInv /\ LossInv
    BY BoundAssumption DEF Init, TableInv, LossInv, Generations
  <2>2. ToldInv
    BY Calls DEF Init, ToldInv, ToldOf, NoStream
  <2> QED
    BY <2>1, <2>2
<1>2. Types /\ TableInv /\ LossInv /\ ToldInv /\ [Next]_vars
        => TableInv' /\ LossInv' /\ ToldInv'
  BY TableStep, LossStep, ToldStep
<1>3. Types /\ ToldInv => AbortMissesNone
  BY Calls DEF ToldInv, ToldOf, AbortMissesNone, AskedOn
<1> QED
  BY <1>1, <1>2, <1>3, TypesHold, PTL DEF Spec

-----------------------------------------------------------------------------
(***************************************************************************)
(* The answer: what is on the wire, in the queue and with the worker comes *)
(* from the stream of its call; the batches of a V1 answer are in line.    *)
(***************************************************************************)
IsBatch(f, q) == f.q = q /\ f.kind = "batch"

\* Of q's batches, those after the n-th and before the x-th are on the wire w in their
\* order; all of them, if more may come or any is there.
Lined(w, q, n, x, live) ==
  /\ \A i \in 1 .. Len(w) : IsBatch(w[i], q) => n < w[i].seq /\ w[i].seq < x
  /\ \A i, j \in 1 .. Len(w) :
       IsBatch(w[i], q) /\ IsBatch(w[j], q) /\ i < j => w[i].seq < w[j].seq
  /\ live \/ (\E i \in 1 .. Len(w) : IsBatch(w[i], q)) =>
       \A k \in Nat : n < k /\ k < x => \E i \in 1 .. Len(w) : IsBatch(w[i], q) /\ w[i].seq = k

\* The elements of a wire that loses its head, or gets one frame more.
LEMMA WireElements ==
  ASSUME NEW w \in Seq(Frame)
  PROVE  /\ w # <<>> => /\ Len(w) > 0 /\ Head(w) = w[1]
                        /\ Len(Tail(w)) = Len(w) - 1
                        /\ \A i \in 1 .. Len(w) - 1 : Tail(w)[i] = w[i + 1]
         /\ \A f \in Frame : /\ Len(Append(w, f)) = Len(w) + 1
                             /\ Append(w, f)[Len(w) + 1] = f
                             /\ \A i \in 1 .. Len(w) : Append(w, f)[i] = w[i]
         /\ \A i \in 1 .. Len(w) : w[i].seq \in Nat
<1>1. \A i \in 1 .. Len(w) : w[i] \in Frame
  OBVIOUS
<1>2. \A i \in 1 .. Len(w) : w[i].seq \in Nat
  BY <1>1 DEF Frame
<1>3. w # <<>> => /\ Len(w) > 0 /\ Head(w) = w[1]
                  /\ Len(Tail(w)) = Len(w) - 1
                  /\ \A i \in 1 .. Len(w) - 1 : Tail(w)[i] = w[i + 1]
  OBVIOUS
<1>4. \A f \in Frame : /\ Len(Append(w, f)) = Len(w) + 1
                       /\ Append(w, f)[Len(w) + 1] = f
                       /\ \A i \in 1 .. Len(w) : Append(w, f)[i] = w[i]
  OBVIOUS
<1> QED
  BY <1>2, <1>3, <1>4

\* Another frame is taken.
LEMMA LinedTail ==
  ASSUME NEW w \in Seq(Frame), w # <<>>, NEW q, NEW n \in Nat, NEW x \in Nat,
         NEW live \in BOOLEAN,
         Lined(w, q, n, x, live), ~IsBatch(Head(w), q)
  PROVE  Lined(Tail(w), q, n, x, live)
<1>1. /\ Len(w) \in Nat /\ Len(w) > 0 /\ ~IsBatch(w[1], q) /\ Len(Tail(w)) = Len(w) - 1
      /\ \A i \in 1 .. Len(w) - 1 : Tail(w)[i] = w[i + 1]
  BY WireElements
<1>2. \A i \in 1 .. Len(w) : IsBatch(w[i], q) => i - 1 \in 1 .. Len(w) - 1 /\ Tail(w)[i - 1] = w[i]
  <2>1. \A i \in 1 .. Len(w) : IsBatch(w[i], q) => i # 1
    BY <1>1
  <2>2. \A i \in 1 .. Len(w) : i # 1 => i - 1 \in 1 .. Len(w) - 1 /\ (i - 1) + 1 = i
    BY <1>1
  <2> QED
    BY <1>1, <2>1, <2>2
<1>3. \A i \in 1 .. Len(w) - 1 : i + 1 \in 1 .. Len(w)
  BY <1>1
<1> DEFINE t == Tail(w)
<1> HIDE DEF t
<1>4. Len(t) = Len(w) - 1 /\ (\A i \in 1 .. Len(w) - 1 : t[i] = w[i + 1])
      /\ \A i \in 1 .. Len(w) : IsBatch(w[i], q) => i - 1 \in 1 .. Len(w) - 1 /\ t[i - 1] = w[i]
  BY <1>1, <1>2 DEF t
<1>5. \A i \in 1 .. Len(t) : IsBatch(t[i], q) => n < t[i].seq /\ t[i].seq < x
  BY <1>3, <1>4 DEF Lined
<1>6. \A i, j \in 1 .. Len(t) :
        IsBatch(t[i], q) /\ IsBatch(t[j], q) /\ i < j => t[i].seq < t[j].seq
  BY <1>3, <1>4 DEF Lined
<1>7. ASSUME live \/ (\E i \in 1 .. Len(t) : IsBatch(t[i], q)), NEW k \in Nat, n < k, k < x
      PROVE  \E i \in 1 .. Len(t) : IsBatch(t[i], q) /\ t[i].seq = k
  <2>1. live \/ \E i \in 1 .. Len(w) : IsBatch(w[i], q)
    BY <1>3, <1>4, <1>7
  <2>2. PICK i \in 1 .. Len(w) : IsBatch(w[i], q) /\ w[i].seq = k
    BY <1>7, <2>1 DEF Lined
  <2> QED
    BY <1>4, <2>2
<1>8. Lined(t, q, n, x, live)
  BY <1>5, <1>6, <1>7 DEF Lined
<1> QED
  BY <1>8 DEF t

\* A batch that is taken is the next one.
LEMMA LinedTake ==
  ASSUME NEW w \in Seq(Frame), w # <<>>, NEW q, NEW n \in Nat, NEW x \in Nat,
         NEW live \in BOOLEAN,
         Lined(w, q, n, x, live), IsBatch(Head(w), q)
  PROVE  Head(w).seq = n + 1 /\ n + 1 < x /\ Lined(Tail(w), q, n + 1, x, live)
<1>1. /\ Len(w) \in Nat /\ Len(w) > 0 /\ Head(w) = w[1] /\ Len(Tail(w)) = Len(w) - 1
      /\ \A i \in 1 .. Len(w) - 1 : Tail(w)[i] = w[i + 1]
      /\ \A i \in 1 .. Len(w) : w[i].seq \in Nat
  BY WireElements
<1>2. 1 \in 1 .. Len(w) /\ IsBatch(w[1], q) /\ n < w[1].seq /\ w[1].seq < x
  BY <1>1 DEF Lined
<1>3. w[1].seq = n + 1
  <2> SUFFICES ASSUME w[1].seq # n + 1
               PROVE  FALSE
    OBVIOUS
  <2>1. n < n + 1 /\ n + 1 < x /\ n + 1 < w[1].seq /\ n + 1 \in Nat
    BY <1>1, <1>2
  <2>2. PICK i \in 1 .. Len(w) : IsBatch(w[i], q) /\ w[i].seq = n + 1
    BY <1>2, <2>1 DEF Lined
  <2>3. i # 1 /\ 1 < i
    BY <2>2
  <2>4. w[1].seq < n + 1 /\ w[1].seq \in Nat
    BY <1>1, <1>2, <2>2, <2>3 DEF Lined
  <2> QED
    BY <2>1, <2>4
<1> DEFINE t == Tail(w)
<1> HIDE DEF t
<1>4. /\ Len(t) = Len(w) - 1 /\ \A i \in 1 .. Len(w) - 1 : t[i] = w[i + 1] /\ i + 1 \in 1 .. Len(w)
      /\ \A i \in 1 .. Len(w) : i # 1 => i - 1 \in 1 .. Len(w) - 1 /\ t[i - 1] = w[i]
  <2>1. \A i \in 1 .. Len(w) : i # 1 => i - 1 \in 1 .. Len(w) - 1 /\ (i - 1) + 1 = i
    BY <1>1
  <2>2. \A i \in 1 .. Len(w) - 1 : i + 1 \in 1 .. Len(w)
    BY <1>1
  <2> QED
    BY <1>1, <2>1, <2>2 DEF t
<1>5. \A i \in 1 .. Len(t) : IsBatch(t[i], q) => n + 1 < t[i].seq /\ t[i].seq < x
  <2> SUFFICES ASSUME NEW i \in 1 .. Len(t), IsBatch(t[i], q)
               PROVE  n + 1 < t[i].seq /\ t[i].seq < x
    OBVIOUS
  <2>1. t[i] = w[i + 1] /\ i + 1 \in 1 .. Len(w) /\ 1 < i + 1
    BY <1>1, <1>4
  <2> QED
    BY <1>2, <1>3, <2>1 DEF Lined
<1>6. \A i, j \in 1 .. Len(t) :
        IsBatch(t[i], q) /\ IsBatch(t[j], q) /\ i < j => t[i].seq < t[j].seq
  BY <1>1, <1>4 DEF Lined
<1>7. ASSUME NEW k \in Nat, n + 1 < k, k < x
      PROVE  \E i \in 1 .. Len(t) : IsBatch(t[i], q) /\ t[i].seq = k
  <2>1. PICK i \in 1 .. Len(w) : IsBatch(w[i], q) /\ w[i].seq = k
    <3>1. n < k
      BY <1>7
    <3> QED
      BY <1>2, <1>7, <3>1 DEF Lined
  <2>2. i # 1
    BY <1>3, <1>7, <2>1
  <2> QED
    BY <1>4, <2>1, <2>2
<1>8. Lined(t, q, n + 1, x, live)
  BY <1>5, <1>6, <1>7 DEF Lined
<1> QED
  BY <1>1, <1>2, <1>3, <1>8 DEF t

\* Another frame is sent.
LEMMA LinedPast ==
  ASSUME NEW w \in Seq(Frame), NEW f \in Frame, NEW q, NEW n \in Nat, NEW x \in Nat,
         NEW live \in BOOLEAN,
         Lined(w, q, n, x, live), ~IsBatch(f, q)
  PROVE  Lined(Append(w, f), q, n, x, live)
<1> DEFINE t == Append(w, f)
<1>1. /\ Len(w) \in Nat /\ Len(t) = Len(w) + 1 /\ t[Len(w) + 1] = f
      /\ \A i \in 1 .. Len(w) : t[i] = w[i] /\ i \in 1 .. Len(t)
  BY WireElements
<1> HIDE DEF t
<1>2. \A i \in 1 .. Len(t) : i \in 1 .. Len(w) \/ i = Len(w) + 1
  BY <1>1
<1>3. \A i \in 1 .. Len(t) : IsBatch(t[i], q) => i \in 1 .. Len(w) /\ t[i] = w[i]
  BY <1>1, <1>2
<1>4. Lined(t, q, n, x, live)
  BY <1>1, <1>3 DEF Lined
<1> QED
  BY <1>4 DEF t

\* The next batch is sent.
LEMMA LinedSend ==
  ASSUME NEW w \in Seq(Frame), NEW f \in Frame, NEW q, NEW n \in Nat, NEW x \in Nat,
         NEW live \in BOOLEAN,
         Lined(w, q, n, x, TRUE), IsBatch(f, q), f.seq = x, n < x
  PROVE  Lined(Append(w, f), q, n, x + 1, live)
<1> DEFINE t == Append(w, f)
<1>1. /\ Len(w) \in Nat /\ Len(t) = Len(w) + 1 /\ t[Len(w) + 1] = f
      /\ Len(w) + 1 \in 1 .. Len(t)
      /\ \A i \in 1 .. Len(w) : t[i] = w[i] /\ i \in 1 .. Len(t)
      /\ \A i \in 1 .. Len(w) : w[i].seq \in Nat
  BY WireElements
<1> HIDE DEF t
<1>2. \A i \in 1 .. Len(t) : i \in 1 .. Len(w) \/ i = Len(w) + 1
  BY <1>1
<1>3. \A i \in 1 .. Len(t) : IsBatch(t[i], q) => n < t[i].seq /\ t[i].seq < x + 1
  BY <1>1, <1>2 DEF Lined
<1>4. ASSUME NEW i \in 1 .. Len(t), NEW j \in 1 .. Len(t),
             IsBatch(t[i], q), IsBatch(t[j], q), i < j
      PROVE  t[i].seq < t[j].seq
  <2>1. i \in 1 .. Len(w)
    BY <1>1, <1>2, <1>4
  <2>2. CASE j \in 1 .. Len(w)
    BY <1>1, <1>4, <2>1, <2>2 DEF Lined
  <2>3. CASE j = Len(w) + 1
    BY <1>1, <1>4, <2>1, <2>3 DEF Lined
  <2> QED
    BY <1>2, <2>2, <2>3
<1>5. ASSUME NEW k \in Nat, n < k, k < x + 1
      PROVE  \E i \in 1 .. Len(t) : IsBatch(t[i], q) /\ t[i].seq = k
  <2>1. CASE k = x
    BY <1>1, <2>1
  <2>2. CASE k # x
    <3>1. k < x
      BY <1>5, <2>2
    <3>2. PICK i \in 1 .. Len(w) : IsBatch(w[i], q) /\ w[i].seq = k
      BY <1>5, <3>1 DEF Lined
    <3> QED
      BY <1>1, <3>2
  <2> QED
    BY <2>1, <2>2
<1>6. Lined(t, q, n, x + 1, live)
  BY <1>3, <1>4, <1>5 DEF Lined
<1> QED
  BY <1>6 DEF t

\* What a frame of the relay says of its stream.
FromStream(s, f) ==
  /\ s[f.q].asked # 0
  /\ f.kind \in {"batch", "refusal"} <=> s[f.q].version = 1
  /\ f.kind = "end" => s[f.q].gen = 0 /\ f.seq = s[f.q].total

Streamed(s, f) == FromStream(s, f) /\ f.kind \notin {"batch", "refusal"}

FrameInv ==
  /\ \A i \in 1 .. Len(wire) : FromStream(stream, wire[i])
  /\ \A i \in 1 .. Len(queue) : Streamed(stream, queue[i])
  /\ \A w \in worker : /\ Streamed(stream, w.frame)
                       /\ w.at = "tell" => w.frame.kind \in {"end", "error"}

\* The server serves a request on the transport it was sent on, in the version of its
\* entry or the older one, and nothing is known of the answer before it is sent.
StreamOf(q) ==
  /\ stream[q].gen <= generation
  /\ entry[q].version # 2 => stream[q].version = 1
  /\ stream[q].version = 1 => /\ stream[q].next <= stream[q].total + 1
                              /\ stream[q].gen # 0 => /\ 1 <= stream[q].next
                                                      /\ stream[q].next <= stream[q].total
  /\ stream[q].asked = 0 => /\ stream[q].gen = 0 /\ stream[q].version = 1
                            /\ entry[q].got = <<>>
                            /\ entry[q].event => entry[q].error # "none"

StreamInv == \A q \in Queries : StreamOf(q)

Live(q) == connected /\ stream[q].gen = generation

\* The batches of a V1 answer, or of a finance call, while its entry is in the table.
LineOf(q) ==
  (q \in pending /\ entry[q].version # 2 /\ stream[q].asked # 0) =>
    /\ entry[q].got = <<>> \/ Len(entry[q].got) < stream[q].next
    /\ Lined(wire, q, Len(entry[q].got), stream[q].next, Live(q))

LineInv == \A q \in Queries : LineOf(q)

\* What a call was given: blocks in order, and all of them when it is woken.
AnswerOf(q) ==
  /\ \A i \in 1 .. Len(entry[q].got) : entry[q].got[i] = i
  /\ (entry[q].event /\ entry[q].error = "none") \/ outcome[q] = "rows" =>
       /\ Len(entry[q].got) = stream[q].total
       /\ stream[q].version = 1 \/ stream[q].gen = 0
       /\ ~entry[q].active
  /\ outcome[q] = "rows" => pc[q] = "done" /\ q \notin pending

EndInv ==
  \A w \in worker :
    w.at = "tell" /\ w.frame.kind = "end" =>
      Len(entry[w.frame.q].got) = stream[w.frame.q].total

AnswerInv == (\A q \in Queries : AnswerOf(q)) /\ EndInv

\* What the server and its relay do to a stream and to the wire.
Sends(q, f) ==
  /\ f \in Frame /\ f.q = q
  /\ stream'[q].asked = stream[q].asked /\ stream'[q].version = stream[q].version
  /\ \/ /\ stream[q].version = 1 /\ f.kind = "batch" /\ f.seq = stream[q].next
        /\ stream'[q].next = stream[q].next + 1 /\ stream'[q].total = stream[q].total
        /\ stream'[q].gen = IF stream[q].next = stream[q].total THEN 0 ELSE stream[q].gen
        /\ wire' = Append(wire, f)
     \/ /\ stream[q].version = 1 /\ f.kind = "refusal"
        /\ stream'[q].next = stream[q].next /\ stream'[q].total = stream[q].total
        /\ stream'[q].gen = 0
        /\ wire' = Append(wire, f)
     \/ /\ stream[q].version = 2 /\ f.kind \in {"begin", "data", "error"}
        /\ stream'[q].total = stream[q].total /\ stream'[q].gen \in {stream[q].gen, 0}
     \/ /\ stream[q].version = 2 /\ f.kind = "end"
        /\ stream'[q].gen = 0 /\ stream'[q].total = f.seq

\* The server, or its relay, sends one frame, drops it, or sends it twice.
LEMMA ServerSteps ==
  ASSUME Types, NEW q \in Queries, ServerStep(q)
  PROVE  /\ \A p \in Queries \ {q} : stream'[p] = stream[p]
         /\ stream[q].gen = generation /\ connected
         /\ UNCHANGED <<generation, connected, entry, pending, outcome, pc, queue, worker>>
         /\ \E f \in Frame :
              /\ Sends(q, f)
              /\ wire' \in {wire, Append(wire, f), Append(Append(wire, f), f)}
<1>0. /\ stream \in [Queries -> Stream] /\ stream[q] \in Stream /\ wire \in Seq(Frame)
      /\ stream[q].version \in {1, 2}
  BY DEF Types, WireTypes, Stream
<1>1. /\ stream[q].gen = generation /\ connected
      /\ UNCHANGED <<generation, connected, entry, pending, outcome, pc, queue, worker>>
  BY DEF ServerStep, ServerSends, ServerFails, RelayFails, Serving, link, table, call,
     decode
<1>2. CASE ServerSends(q)
  <2>1. PICK m \in NextFrames(q) : /\ wire' = Append(wire, FrameOf(q, m))
                                   /\ stream' = [stream EXCEPT ![q] = m.then]
    BY <1>2 DEF ServerSends, Put
  <2>2. /\ FrameOf(q, m) \in Frame /\ FrameOf(q, m).q = q
        /\ FrameOf(q, m).kind = m.kind /\ FrameOf(q, m).seq = m.seq
    BY StreamTypes DEF FrameOf
  <2>3. stream'[q] = m.then
    BY <1>0, <2>1
  <2>4. \A p \in Queries \ {q} : stream'[p] = stream[p]
    BY <1>0, <2>1
  <2>5. Sends(q, FrameOf(q, m))
    BY <2>1, <2>2, <2>3, NextFrame DEF Sends
  <2> QED
    BY <1>1, <2>1, <2>2, <2>4, <2>5
<1>3. CASE ServerFails(q)
  <2>1. PICK k \in {"refusal", "error"}, n \in Nat :
          /\ wire' = Append(wire, [q |-> q, kind |-> k, seq |-> n])
          /\ k = "refusal" <=> stream[q].version = 1
    <3>1. stream[q].next \in Nat
      BY <1>0 DEF Stream
    <3>2. stream[q].next # 0 => stream[q].next - 1 \in Nat
      BY <3>1
    <3>3. CASE stream[q].version = 1
      BY <1>3, <3>3 DEF ServerFails, Put, FrameOf
    <3>4. CASE stream[q].version # 1 /\ stream[q].next = 0
      BY <1>3, <3>4 DEF ServerFails, Put, FrameOf
    <3>5. CASE stream[q].version # 1 /\ stream[q].next # 0
      BY <1>3, <3>2, <3>5 DEF ServerFails, Put, FrameOf
    <3> QED
      BY <3>3, <3>4, <3>5
  <2> DEFINE f == [q |-> q, kind |-> k, seq |-> n]
  <2>2. f \in Frame /\ f.q = q /\ f.kind = k
    BY DEF Frame
  <2>3. stream' = [stream EXCEPT ![q].gen = 0]
    BY <1>3 DEF ServerFails
  <2> HIDE DEF f
  <2>4. /\ stream'[q].asked = stream[q].asked /\ stream'[q].version = stream[q].version
        /\ stream'[q].next = stream[q].next /\ stream'[q].total = stream[q].total
        /\ stream'[q].gen = 0
    BY <1>0, <2>3 DEF Stream
  <2>5. \A p \in Queries \ {q} : stream'[p] = stream[p]
    BY <1>0, <2>3
  <2>6. wire' = Append(wire, f)
    BY <2>1 DEF f
  <2>7. Sends(q, f)
    BY <1>0, <2>1, <2>2, <2>4, <2>6 DEF Sends
  <2> QED
    BY <1>1, <2>2, <2>5, <2>6, <2>7
<1>4. CASE RelayFails(q)
  <2>1. PICK m \in NextFrames(q) :
          /\ stream' = [stream EXCEPT ![q] = [m.then EXCEPT !.lossy = TRUE]]
          /\ wire' \in {wire, wire \o <<FrameOf(q, m), FrameOf(q, m)>>}
          /\ stream[q].version = 2
    BY <1>4 DEF RelayFails
  <2>2. /\ FrameOf(q, m) \in Frame /\ FrameOf(q, m).q = q /\ m.then \in Stream
        /\ FrameOf(q, m).kind = m.kind /\ FrameOf(q, m).seq = m.seq
    BY StreamTypes DEF FrameOf
  <2>3. stream'[q] = [m.then EXCEPT !.lossy = TRUE]
    BY <1>0, <2>1
  <2>4. /\ stream'[q].asked = m.then.asked /\ stream'[q].version = m.then.version
        /\ stream'[q].total = m.then.total /\ stream'[q].gen = m.then.gen
    BY <2>2, <2>3 DEF Stream
  <2>5. \A p \in Queries \ {q} : stream'[p] = stream[p]
    BY <1>0, <2>1
  <2>6. Sends(q, FrameOf(q, m))
    BY <2>1, <2>2, <2>4, NextFrame DEF Sends
  <2>7. wire \o <<FrameOf(q, m), FrameOf(q, m)>>
          = Append(Append(wire, FrameOf(q, m)), FrameOf(q, m))
    BY <1>0, <2>2
  <2> QED
    BY <1>1, <2>1, <2>2, <2>5, <2>6, <2>7
<1> QED
  BY <1>2, <1>3, <1>4 DEF ServerStep

\* What a call does to its own stream, and to the wire.
Asks(q) ==
  /\ pc[q] = "checked" /\ connected /\ connected'
  /\ wire' = wire /\ entry' = entry /\ pending' = pending /\ outcome' = outcome
  /\ stream'[q].asked = generation /\ stream'[q].gen = generation
  /\ stream'[q].version = 1 \/ (stream'[q].version = 2 /\ entry[q].version = 2)
  /\ stream'[q].version = 1 => stream'[q].next = 1 /\ 1 <= stream'[q].total
  /\ stream'[q].version = 2 => stream'[q].total = 0
  /\ stream'[q].total \in Nat

Leaves(q) ==
  /\ wire' = wire \/ (wire' = <<>> /\ ~connected')
  /\ connected' => connected
  /\ stream'[q].version = stream[q].version /\ stream'[q].next = stream[q].next
  /\ stream'[q].total = stream[q].total /\ stream'[q].gen \in {stream[q].gen, 0}
  /\ stream'[q].asked \in {stream[q].asked, generation}

\* A call sends its request, or leaves its stream and the wire alone or stopped.
LEMMA UserServes ==
  ASSUME Types, NEW q \in Queries, UserStep(q)
  PROVE  Asks(q) \/ Leaves(q)
<1>0. /\ stream \in [Queries -> Stream] /\ stream[q] \in Stream
  BY DEF Types, WireTypes
<1>1. CASE SendRequest(q)
  <2>1. PICK v \in {1, entry[q].version} \ {0}, t \in Nat :
          /\ stream' = [stream EXCEPT ![q] =
               [asked |-> generation, gen |-> generation, version |-> v,
                next |-> 2 - v, total |-> t, credit |-> Window, lossy |-> FALSE]]
          /\ v = 1 => 1 <= t
          /\ v = 2 => t = 0
    <3>1. PICK v \in {1, entry[q].version} \ {0} :
            \E t \in (CASE IsFinance(q) -> {1} [] v = 1 -> 1 .. MaxChunks [] OTHER -> {0}) :
              stream' = [stream EXCEPT ![q] =
                [asked |-> generation, gen |-> generation, version |-> v,
                 next |-> 2 - v, total |-> t, credit |-> Window, lossy |-> FALSE]]
      BY <1>1 DEF SendRequest, Serve
    <3>2. \A t \in (CASE IsFinance(q) -> {1} [] v = 1 -> 1 .. MaxChunks [] OTHER -> {0}) :
            t \in Nat /\ (v = 1 => 1 <= t) /\ (v = 2 => t = 0)
      BY BoundAssumption DEF IsFinance
    <3> QED
      BY <3>1, <3>2
  <2>2. /\ stream'[q].asked = generation /\ stream'[q].gen = generation
        /\ stream'[q].version = v /\ stream'[q].next = 2 - v /\ stream'[q].total = t
    BY <1>0, <2>1
  <2>3. /\ pc[q] = "checked" /\ connected /\ connected'
        /\ wire' = wire /\ entry' = entry /\ pending' = pending /\ outcome' = outcome
    BY <1>1 DEF SendRequest, link, table
  <2>4. v = 1 \/ (v = 2 /\ entry[q].version = 2)
    BY DEF Types, EntryTypes, Entry
  <2> QED
    BY <2>1, <2>2, <2>3, <2>4 DEF Asks
<1>2. CASE ~SendRequest(q)
  <2>1. \/ stream' = stream
        \/ stream' = [stream EXCEPT ![q].gen = 0]
        \/ stream' = [stream EXCEPT ![q].asked = generation, ![q].gen = 0]
    BY <1>2 DEF UserStep, CallStep, Begin, BeginFinance, Select, RefuseToSelect, Register,
             CheckGeneration, SendRequest, NoTransport, SendFails, Resume, Finish, Expire,
         GraceEnds, Depart, RegisterFinance, WaitUnsent, FindClosed, ExpireFinance,
         LoseInCall, Stop, Lose, server
  <2>2. /\ wire' = wire \/ (wire' = <<>> /\ ~connected')
        /\ connected' => connected
    BY <1>2 DEF UserStep, CallStep, Begin, BeginFinance, Select, RefuseToSelect, Register,
             CheckGeneration, SendRequest, NoTransport, SendFails, Resume, Finish, Expire,
         GraceEnds, Depart, RegisterFinance, WaitUnsent, FindClosed, ExpireFinance,
         LoseInCall, Lose, server, link
  <2>3. /\ stream'[q].version = stream[q].version /\ stream'[q].next = stream[q].next
        /\ stream'[q].total = stream[q].total /\ stream'[q].gen \in {stream[q].gen, 0}
        /\ stream'[q].asked \in {stream[q].asked, generation}
    <3>1. CASE stream' = stream
      BY <3>1
    <3>2. CASE stream' = [stream EXCEPT ![q].gen = 0]
      BY <1>0, <3>2 DEF Stream
    <3>3. CASE stream' = [stream EXCEPT ![q].asked = generation, ![q].gen = 0]
      BY <1>0, <3>3 DEF Stream
    <3> QED
      BY <2>1, <3>1, <3>2, <3>3
  <2> QED
    BY <2>2, <2>3 DEF Leaves
<1> QED
  BY <1>1, <1>2

\* The other steps that are not the server's: a frame is taken, a transport opened or
\* lost, and the streams stay or lose their server.
Quiet ==
  /\ generation' \in {generation, generation + 1}
  /\ generation' = generation + 1 \/ (connected' => connected)
  /\ \A q \in Queries :
       /\ stream'[q].asked = stream[q].asked /\ stream'[q].version = stream[q].version
       /\ stream'[q].next = stream[q].next /\ stream'[q].total = stream[q].total
       /\ stream'[q].gen \in {stream[q].gen, 0}
  /\ \/ wire' = wire
     \/ wire' = <<>> /\ ~connected'
     \/ /\ wire # <<>> /\ wire' = Tail(wire) /\ generation' = generation
        /\ ReceiveFrame \/ ReceiveBatch

\* Every other step is quiet.
LEMMA OthersQuiet ==
  ASSUME Types, OtherStep
  PROVE  Quiet \/ \E q \in Queries : ServerStep(q)
<1>0. \A q \in Queries : stream[q] \in Stream /\ stream \in [Queries -> Stream]
  BY DEF Types, WireTypes
<1>1. CASE LinkStep \/ TeardownStep \/ ReceiveFrame \/ ReceiveBatch \/ WorkerTakes
  <2>1. stream' = stream
    BY <1>1 DEF LinkStep, Break, Open, RestoreFails, Authenticate, MarkAuthenticated,
       FinishRestore, Settle, TeardownStep, CloseTake, CloseReset, CloseTransport,
       CallbackStep, CallbackReset, CallbackTake, Abort, ResetSession, ReceiveFrame,
       ReceiveBatch, WorkerTakes, server
  <2>2. \/ generation' = generation + 1
        \/ generation' = generation /\ connected' \in {connected, FALSE}
    BY <1>1 DEF LinkStep, Break, Open, RestoreFails, Authenticate, MarkAuthenticated,
       FinishRestore, Settle, TeardownStep, CloseTake, CloseReset, CloseTransport,
       CallbackStep, CallbackReset, CallbackTake, Abort, ResetSession, ReceiveFrame,
       ReceiveBatch, WorkerTakes, link, Lose
  <2>3. \/ wire' = wire
        \/ wire' = <<>> /\ ~connected'
        \/ /\ wire # <<>> /\ wire' = Tail(wire) /\ generation' = generation
           /\ ReceiveFrame \/ ReceiveBatch
    <3>1. CASE ReceiveFrame \/ ReceiveBatch
      <4>1. wire # <<>> /\ wire' = Tail(wire) /\ generation' = generation
        BY <3>1 DEF ReceiveFrame, ReceiveBatch, link
      <4> QED
        BY <3>1, <4>1
    <3>2. CASE LinkStep \/ TeardownStep \/ WorkerTakes
      BY <3>2 DEF LinkStep, Break, Open, RestoreFails, Authenticate, MarkAuthenticated,
         FinishRestore, Settle, TeardownStep, CloseTake, CloseReset, CloseTransport,
         CallbackStep, CallbackReset, CallbackTake, Abort, ResetSession, WorkerTakes,
         link, server, Lose
    <3> QED
      BY <1>1, <3>1, <3>2
  <2>4. generation' = generation + 1 \/ (connected' => connected)
    BY <2>2, Zenon
  <2>5. generation' \in {generation, generation + 1}
    BY <2>2, Zenon
  <2> QED
    BY <2>1, <2>3, <2>4, <2>5 DEF Quiet
<1>2. ASSUME NEW f \in failing, FailStep(f)
      PROVE  Quiet
  <2>1. stream' = stream \/ stream' = [stream EXCEPT ![f.q].gen = 0]
    BY <1>2 DEF FailStep, FailCancels, FailResumes, FailTells, FailBreaks, Stop, server
  <2>2. /\ generation' = generation /\ connected' \in {connected, FALSE}
        /\ wire' = wire \/ (wire' = <<>> /\ ~connected')
    BY <1>2 DEF FailStep, FailCancels, FailResumes, FailTells, FailBreaks, Lose, link,
       server
  <2>3. \A q \in Queries :
          /\ stream'[q].asked = stream[q].asked /\ stream'[q].version = stream[q].version
          /\ stream'[q].next = stream[q].next /\ stream'[q].total = stream[q].total
          /\ stream'[q].gen \in {stream[q].gen, 0}
    <3> SUFFICES ASSUME NEW q \in Queries
                 PROVE  /\ stream'[q].asked = stream[q].asked
                        /\ stream'[q].version = stream[q].version
                        /\ stream'[q].next = stream[q].next
                        /\ stream'[q].total = stream[q].total
                        /\ stream'[q].gen \in {stream[q].gen, 0}
      OBVIOUS
    <3>1. stream'[q] = stream[q] \/ stream'[q] = [stream[q] EXCEPT !.gen = 0]
      BY <1>0, <2>1
    <3> QED
      BY <1>0, <3>1 DEF Stream
  <2>4. connected' => connected
    BY <2>2, Zenon
  <2>5. generation' \in {generation, generation + 1}
    BY <2>2, Zenon
  <2> QED
    BY <2>2, <2>3, <2>4, <2>5, Zenon DEF Quiet
<1>3. ASSUME NEW w \in worker, WorkStep(w)
      PROVE  Quiet
  <2>1. stream' = stream \/ stream' = [stream EXCEPT ![w.frame.q].credit = @ + 1]
    BY <1>3 DEF WorkStep, WorkerHandles, WorkerGrants, WorkerResumes, WorkerTells,
         WorkerBreaks, Grant, server
  <2>2. /\ generation' = generation /\ connected' \in {connected, FALSE}
        /\ wire' = wire \/ (wire' = <<>> /\ ~connected')
    BY <1>3 DEF WorkStep, WorkerHandles, WorkerGrants, WorkerResumes, WorkerTells,
         WorkerBreaks, Lose, link, server
  <2>3. \A q \in Queries :
          /\ stream'[q].asked = stream[q].asked /\ stream'[q].version = stream[q].version
          /\ stream'[q].next = stream[q].next /\ stream'[q].total = stream[q].total
          /\ stream'[q].gen \in {stream[q].gen, 0}
    <3> SUFFICES ASSUME NEW q \in Queries
                 PROVE  /\ stream'[q].asked = stream[q].asked
                        /\ stream'[q].version = stream[q].version
                        /\ stream'[q].next = stream[q].next
                        /\ stream'[q].total = stream[q].total
                        /\ stream'[q].gen \in {stream[q].gen, 0}
      OBVIOUS
    <3> DEFINE c == stream[w.frame.q].credit + 1
    <3>1. stream' = stream \/ stream' = [stream EXCEPT ![w.frame.q].credit = c]
      BY <2>1
    <3> HIDE DEF c
    <3>2. stream'[q] = stream[q] \/ stream'[q] = [stream[q] EXCEPT !.credit = c]
      BY <1>0, <3>1
    <3> QED
      BY <1>0, <3>2 DEF Stream
  <2>4. connected' => connected
    BY <2>2, Zenon
  <2>5. generation' \in {generation, generation + 1}
    BY <2>2, Zenon
  <2> QED
    BY <2>2, <2>3, <2>4, <2>5, Zenon DEF Quiet
<1> QED
  BY <1>1, <1>2, <1>3 DEF OtherStep

\* A stream that was asked for keeps its version, and once it is over, its length.
Settled(q) ==
  /\ stream'[q].asked # 0 /\ stream'[q].version = stream[q].version
  /\ stream[q].gen = 0 => stream'[q].gen = 0
  /\ stream[q].version = 1 \/ stream[q].gen = 0 => stream'[q].total = stream[q].total

\* Every step leaves such a stream settled.
LEMMA StreamStays ==
  ASSUME Types, ToldInv, [Next]_vars, NEW q \in Queries, stream[q].asked # 0
  PROVE  Settled(q)
<1>0. generation \in Nat \ {0}
  BY BoundAssumption DEF Types, LinkTypes, Generations
<1>1. CASE Quiet
  BY <1>1 DEF Quiet, Settled
<1>2. ASSUME NEW p \in Queries, ServerStep(p)
      PROVE  Settled(q)
  <2>1. CASE p = q
    <3>1. PICK f \in Frame : Sends(q, f)
      BY <1>2, <2>1, ServerSteps
    <3>2. stream[q].gen = generation
      BY <1>2, <2>1, ServerSteps
    <3> QED
      BY <1>0, <3>1, <3>2 DEF Sends, Settled
  <2>2. CASE p # q
    BY <1>2, <2>2, ServerSteps DEF Settled
  <2> QED
    BY <2>1, <2>2
<1>3. ASSUME NEW p \in Queries, UserStep(p)
      PROVE  Settled(q)
  <2>1. CASE p = q
    <3>1. pc[q] # "checked"
      BY DEF ToldInv, ToldOf
    <3> QED
      BY <1>0, <1>3, <2>1, <3>1, UserServes DEF Asks, Leaves, Settled
  <2>2. CASE p # q
    BY <1>3, <2>2, UserSteps DEF Settled
  <2> QED
    BY <2>1, <2>2
<1>4. CASE UNCHANGED vars
  BY <1>4 DEF vars, Settled
<1> QED
  BY <1>1, <1>2, <1>3, <1>4, Steps, OthersQuiet

\* A frame goes on saying what is true of its stream.
LEMMA FrameStays ==
  ASSUME Types, ToldInv, [Next]_vars, NEW f \in Frame, FromStream(stream, f)
  PROVE  FromStream(stream', f)
<1>1. f.q \in Queries
  BY DEF Frame
<1>2. Settled(f.q)
  BY <1>1, StreamStays DEF FromStream
<1> QED
  BY <1>2 DEF FromStream, Settled

\* Where frames come from.
LEMMA FrameStep ==
  ASSUME Types, StreamInv, ToldInv, FrameInv, [Next]_vars
  PROVE  FrameInv'
<1>0. /\ wire \in Seq(Frame) /\ queue \in Seq(Frame)
      /\ wire' \in Seq(Frame) /\ queue' \in Seq(Frame)
      /\ generation \in Nat \ {0}
      /\ \A w \in worker : w.frame \in Frame /\ w \in Work
  <2>1. Types'
    BY TypesStep
  <2>2. \A w \in worker : w.frame \in Frame /\ w \in Work
    BY DEF Types, WorkTypes, OneWorker, Work
  <2> QED
    BY <2>1, <2>2, BoundAssumption DEF Types, WireTypes, WorkTypes, LinkTypes, Generations
<1>1. \A f \in Frame :
        /\ FromStream(stream, f) => FromStream(stream', f)
        /\ Streamed(stream, f) => Streamed(stream', f)
  BY FrameStays DEF Streamed
<1>2. \A i \in 1 .. Len(wire') : FromStream(stream', wire'[i])
  <2>1. CASE Quiet \/ (\E q \in Queries : UserStep(q)) \/ UNCHANGED vars
    <3>1. wire' = wire \/ wire' = <<>> \/ (wire # <<>> /\ wire' = Tail(wire))
      BY <2>1, UserServes DEF Quiet, Asks, Leaves, vars
    <3>2. \A i \in 1 .. Len(wire') : \E j \in 1 .. Len(wire) : wire'[i] = wire[j]
      <4>1. CASE wire # <<>> /\ wire' = Tail(wire)
        <5>1. \A i \in 1 .. Len(wire) - 1 : i + 1 \in 1 .. Len(wire)
          BY <1>0
        <5> QED
          BY <1>0, <4>1, <5>1, WireElements
      <4>2. CASE wire' = wire \/ wire' = <<>>
        BY <4>2
      <4> QED
        BY <3>1, <4>1, <4>2
    <3>3. \A j \in 1 .. Len(wire) : wire[j] \in Frame
      BY <1>0
    <3> QED
      BY <1>1, <3>2, <3>3 DEF FrameInv
  <2>2. ASSUME NEW q \in Queries, ServerStep(q)
        PROVE  \A i \in 1 .. Len(wire') : FromStream(stream', wire'[i])
    <3>1. PICK f \in Frame :
            /\ Sends(q, f)
            /\ wire' \in {wire, Append(wire, f), Append(Append(wire, f), f)}
      BY <2>2, ServerSteps
    <3>2. stream[q].gen = generation
      BY <2>2, ServerSteps
    <3>3. stream[q].asked # 0
      BY <1>0, <3>2 DEF StreamInv, StreamOf
    <3>4. FromStream(stream', f)
      BY <3>1, <3>3 DEF Sends, FromStream
    <3>5. \A i \in 1 .. Len(wire') : wire'[i] = f \/ \E j \in 1 .. Len(wire) : wire'[i] = wire[j]
      <4>1. \A w \in Seq(Frame) : \A i \in 1 .. Len(Append(w, f)) :
              Append(w, f)[i] = f \/ (i \in 1 .. Len(w) /\ Append(w, f)[i] = w[i])
        <5> SUFFICES ASSUME NEW w \in Seq(Frame), NEW i \in 1 .. Len(Append(w, f))
                     PROVE  Append(w, f)[i] = f \/ (i \in 1 .. Len(w) /\ Append(w, f)[i] = w[i])
          OBVIOUS
        <5>1. i = Len(w) + 1 \/ i \in 1 .. Len(w)
          BY WireElements
        <5> QED
          BY <5>1, WireElements
      <4>2. Append(wire, f) \in Seq(Frame)
        BY <1>0
      <4> HIDE DEF Sends
      <4> QED
        BY <1>0, <3>1, <4>1, <4>2
    <3>6. \A j \in 1 .. Len(wire) : wire[j] \in Frame
      BY <1>0
    <3> QED
      BY <1>1, <3>4, <3>5, <3>6 DEF FrameInv
  <2> QED
    BY <2>1, <2>2, Steps, OthersQuiet
<1>3. \A i \in 1 .. Len(queue') : Streamed(stream', queue'[i])
  <2>1. \/ queue' = queue
        \/ queue # <<>> /\ queue' = Tail(queue)
        \/ /\ wire # <<>> /\ Head(wire).kind \notin {"batch", "refusal"}
           /\ queue' = Append(queue, Head(wire))
    <3>1. CASE LinkStep \/ TeardownStep \/ ReceiveFrame \/ ReceiveBatch \/ WorkerTakes
      BY <3>1 DEF LinkStep, Break, Open, RestoreFails, Authenticate, MarkAuthenticated,
         FinishRestore, Settle, TeardownStep, CloseTake, CloseReset, CloseTransport,
         CallbackStep, CallbackReset, CallbackTake, Abort, ResetSession, ReceiveFrame,
         ReceiveBatch, WorkerTakes, Enqueue, decode
    <3>2. CASE (\E f \in failing : FailStep(f)) \/ (\E w \in worker : WorkStep(w))
      BY <3>2 DEF FailStep, FailCancels, FailResumes, FailTells, FailBreaks, WorkStep,
         WorkerHandles, WorkerGrants, WorkerResumes, WorkerTells, WorkerBreaks, decode
    <3>3. CASE (\E q \in Queries : ServerStep(q) \/ UserStep(q)) \/ UNCHANGED vars
      BY <3>3, ServerSteps, UserSteps DEF vars, decode
    <3> QED
      BY <3>1, <3>2, <3>3, Steps DEF OtherStep
  <2>2. \A j \in 1 .. Len(queue) : queue[j] \in Frame
    BY <1>0
  <2>3. CASE queue' = queue
    BY <1>1, <2>2, <2>3 DEF FrameInv
  <2>4. CASE queue # <<>> /\ queue' = Tail(queue)
    <3>1. \A i \in 1 .. Len(queue) - 1 : i + 1 \in 1 .. Len(queue)
      BY <1>0
    <3>2. \A i \in 1 .. Len(queue') : \E j \in 1 .. Len(queue) : queue'[i] = queue[j]
      BY <1>0, <2>4, <3>1, WireElements
    <3> QED
      BY <1>1, <2>2, <3>2 DEF FrameInv
  <2>5. CASE /\ wire # <<>> /\ Head(wire).kind \notin {"batch", "refusal"}
             /\ queue' = Append(queue, Head(wire))
    <3> DEFINE f == Head(wire)
    <3>1. f \in Frame /\ f = wire[1] /\ 1 \in 1 .. Len(wire)
      BY <1>0, <2>5
    <3>2. Streamed(stream, f)
      BY <2>5, <3>1 DEF FrameInv, Streamed
    <3>3. \A i \in 1 .. Len(queue') : i \in 1 .. Len(queue) \/ i = Len(queue) + 1
      BY <1>0, <2>5, <3>1, WireElements
    <3>4. \A i \in 1 .. Len(queue') : queue'[i] = f \/ \E j \in 1 .. Len(queue) : queue'[i] = queue[j]
      BY <1>0, <2>5, <3>1, <3>3, WireElements
    <3> HIDE DEF f
    <3> QED
      BY <1>1, <2>2, <3>1, <3>2, <3>4 DEF FrameInv
  <2> QED
    BY <2>1, <2>3, <2>4, <2>5
<1>4. \A w \in worker' : /\ Streamed(stream', w.frame)
                         /\ w.at = "tell" => w.frame.kind \in {"end", "error"}
  <2>1. \/ worker' \subseteq worker
        \/ /\ queue # <<>> /\ worker' = {[frame |-> Head(queue), at |-> "handle"]}
        \/ \E w \in worker :
             \/ \E at \in {"grant", "callback", "blocked"} : worker' = {[w EXCEPT !.at = at]}
             \/ worker' = {[w EXCEPT !.at = "tell"]} /\ w.frame.kind \notin {"begin", "data"}
    <3>1. CASE LinkStep \/ TeardownStep \/ ReceiveFrame \/ ReceiveBatch
      BY <3>1 DEF LinkStep, Break, Open, RestoreFails, Authenticate, MarkAuthenticated,
         FinishRestore, Settle, TeardownStep, CloseTake, CloseReset, CloseTransport,
         CallbackStep, CallbackReset, CallbackTake, Abort, ResetSession, ReceiveFrame,
         ReceiveBatch, decode
    <3>2. CASE WorkerTakes
      BY <3>2 DEF WorkerTakes, WorkerFree
    <3>3. CASE \E f \in failing : FailStep(f)
      BY <3>3 DEF FailStep, FailCancels, FailResumes, FailTells, FailBreaks, decode
    <3>4. CASE \E w \in worker : WorkStep(w)
      BY <3>4, Calls DEF WorkStep, WorkerHandles, WorkerGrants, WorkerResumes, WorkerTells,
         WorkerBreaks
    <3>5. CASE (\E q \in Queries : ServerStep(q) \/ UserStep(q)) \/ UNCHANGED vars
      BY <3>5, ServerSteps, UserSteps DEF vars, decode
    <3> QED
      BY <3>1, <3>2, <3>3, <3>4, <3>5, Steps DEF OtherStep
  <2>2. CASE worker' \subseteq worker
    BY <1>0, <1>1, <2>2 DEF FrameInv
  <2>3. CASE queue # <<>> /\ worker' = {[frame |-> Head(queue), at |-> "handle"]}
    <3> DEFINE f == Head(queue)
    <3>1. f \in Frame /\ f = queue[1] /\ 1 \in 1 .. Len(queue)
      BY <1>0, <2>3
    <3>2. Streamed(stream', f)
      BY <1>1, <3>1 DEF FrameInv
    <3>3. \A w \in worker' : w.frame = f /\ w.at = "handle"
      BY <2>3
    <3> HIDE DEF f
    <3> QED
      BY <3>2, <3>3
  <2>4. ASSUME NEW w \in worker,
               \/ \E at \in {"grant", "callback", "blocked"} : worker' = {[w EXCEPT !.at = at]}
               \/ worker' = {[w EXCEPT !.at = "tell"]} /\ w.frame.kind \notin {"begin", "data"}
        PROVE  \A v \in worker' : /\ Streamed(stream', v.frame)
                                  /\ v.at = "tell" => v.frame.kind \in {"end", "error"}
    <3>1. w \in Work /\ w.frame \in Frame /\ Streamed(stream, w.frame)
      BY <1>0 DEF FrameInv
    <3>2. \A at : [w EXCEPT !.at = at].frame = w.frame /\ [w EXCEPT !.at = at].at = at
      BY <3>1 DEF Work
    <3>3. w.frame.kind \notin {"begin", "data"} => w.frame.kind \in {"end", "error"}
      BY <3>1 DEF Frame, Streamed
    <3>5. Streamed(stream', w.frame)
      BY <1>1, <3>1
    <3> SUFFICES ASSUME NEW v \in worker'
                 PROVE  /\ Streamed(stream', v.frame)
                        /\ v.at = "tell" => v.frame.kind \in {"end", "error"}
      OBVIOUS
    <3>6. v.frame = w.frame /\ (v.at = "tell" => w.frame.kind \notin {"begin", "data"})
      <4>1. CASE \E at \in {"grant", "callback", "blocked"} : worker' = {[w EXCEPT !.at = at]}
        BY <3>2, <4>1
      <4>2. CASE worker' = {[w EXCEPT !.at = "tell"]} /\ w.frame.kind \notin {"begin", "data"}
        BY <3>2, <4>2
      <4> QED
        BY <2>4, <4>1, <4>2
    <3>7. Streamed(stream', v.frame)
      BY <3>5, <3>6, Zenon
    <3>8. v.at = "tell" => v.frame.kind \in {"end", "error"}
      BY <3>3, <3>6, Zenon
    <3> QED
      BY <3>7, <3>8
  <2> QED
    BY <2>1, <2>2, <2>3, <2>4
<1> QED
  BY <1>2, <1>3, <1>4 DEF FrameInv

\* Rows reach an entry from a frame of its stream, the next in line; and an error is
\* never taken back.
LEMMA Effects ==
  ASSUME Types, OtherStep, NEW q \in Queries
  PROVE  /\ entry'[q].version = entry[q].version
         /\ entry'[q].active => entry[q].active
         /\ \/ entry'[q].got = entry[q].got
            \/ /\ ReceiveBatch /\ q \in pending /\ entry[q].version # 2
               /\ q = Head(wire).q /\ Head(wire).kind # "refusal"
               /\ entry'[q].got = Append(entry[q].got, Head(wire).seq)
            \/ \E w \in worker : /\ q = w.frame.q /\ w.at = "handle" /\ WorkStep(w)
                                 /\ entry[q].active
                                 /\ w.frame.seq = Len(entry[q].got) + 1
                                 /\ entry'[q].got = Append(entry[q].got, w.frame.seq)
         /\ \/ entry'[q].event /\ entry'[q].error = "none"
                 => entry[q].event /\ entry[q].error = "none"
            \/ /\ ReceiveBatch /\ q \in pending /\ entry[q].version # 2
               /\ q = Head(wire).q /\ Head(wire).kind # "refusal"
               /\ entry'[q].got = Append(entry[q].got, Head(wire).seq)
               /\ Len(entry'[q].got) >= stream[q].total
            \/ \E w \in worker : /\ q = w.frame.q /\ w.at = "tell" /\ WorkStep(w)
                                 /\ w.frame.kind # "error"
<1>1. CASE LinkStep
  BY <1>1, LinkEffect DEF Same, Kept
<1>2. CASE TeardownStep
  BY <1>2, TeardownEffect DEF Same, Kept, Cancels
<1>3. CASE ReceiveFrame \/ WorkerTakes \/ \E p \in Queries : ServerStep(p)
  BY <1>3, FrameEffect DEF Same, Kept
<1>4. CASE ReceiveBatch
  <2>1. CASE Same(q)
    BY <1>4, <2>1, BatchEffect DEF Same, Kept
  <2>2. CASE ~Same(q)
    <3>1. /\ entry'[q].version = entry[q].version /\ entry'[q].active = entry[q].active
          /\ q \in pending /\ entry[q].version # 2 /\ q = Head(wire).q
          /\ \/ /\ entry'[q].error = "failed" /\ entry'[q].event
                /\ entry'[q].got = entry[q].got /\ Head(wire).kind = "refusal"
             \/ /\ entry'[q].error = entry[q].error /\ Head(wire).kind # "refusal"
                /\ entry'[q].got = Append(entry[q].got, Head(wire).seq)
                /\ entry'[q].event =
                     (entry[q].event \/ Len(entry'[q].got) >= stream[q].total)
      BY <1>4, <2>2, BatchEffect DEF Kept
    <3>2. \/ entry'[q].error = "failed"
          \/ entry'[q].event => entry[q].event \/ Len(entry'[q].got) >= stream[q].total
      BY <3>1, Zenon
    <3> QED
      BY <1>4, <3>1, <3>2
  <2> QED
    BY <2>1, <2>2
<1>5. ASSUME NEW f \in failing, FailStep(f)
      PROVE  /\ entry'[q].version = entry[q].version
             /\ entry'[q].active => entry[q].active
             /\ entry'[q].got = entry[q].got
             /\ entry'[q].event /\ entry'[q].error = "none"
                  => entry[q].event /\ entry[q].error = "none"
  BY <1>5, FailEffect DEF Same, Kept, Cancels
<1>6. ASSUME NEW w \in worker, WorkStep(w)
      PROVE  /\ entry'[q].version = entry[q].version
             /\ entry'[q].active => entry[q].active
             /\ \/ entry'[q].got = entry[q].got
                \/ /\ q = w.frame.q /\ w.at = "handle" /\ entry[q].active
                   /\ w.frame.seq = Len(entry[q].got) + 1
                   /\ entry'[q].got = Append(entry[q].got, w.frame.seq)
             /\ \/ entry'[q].event /\ entry'[q].error = "none"
                     => entry[q].event /\ entry[q].error = "none"
                \/ q = w.frame.q /\ w.at = "tell" /\ w.frame.kind # "error"
  <2>1. entry'[q].version = entry[q].version
    BY <1>6, WorkEffect DEF Kept
  <2>2. CASE Same(q)
    BY <2>1, <2>2 DEF Same
  <2>3. CASE ~Same(q)
    BY <1>6, <2>1, <2>3, WorkEffect DEF Fits
  <2> QED
    BY <2>2, <2>3
<1> QED
  BY <1>1, <1>2, <1>3, <1>4, <1>5, <1>6 DEF OtherStep

\* A frame that is handled is of a request that was sent.
LEMMA Handled ==
  ASSUME Types, FrameInv
  PROVE  /\ wire # <<>> => /\ Head(wire) \in Frame /\ FromStream(stream, Head(wire))
         /\ \A w \in worker : Streamed(stream, w.frame) /\ w.frame \in Frame
<1>1. wire # <<>> => Head(wire) = wire[1] /\ 1 \in 1 .. Len(wire) /\ Head(wire) \in Frame
  BY DEF Types, WireTypes
<1>2. \A w \in worker : w.frame \in Frame
  BY DEF Types, WorkTypes, OneWorker, Work
<1> QED
  BY <1>1, <1>2 DEF FrameInv

\* What is known of the streams stays true.
LEMMA StreamStep ==
  ASSUME Types, StreamInv, ToldInv, FrameInv, [Next]_vars
  PROVE  StreamInv'
<1> SUFFICES ASSUME NEW q \in Queries
             PROVE  StreamOf(q)'
  BY DEF StreamInv
<1>0. /\ StreamOf(q) /\ generation \in Nat \ {0}
      /\ stream[q].next \in Nat /\ stream[q].total \in Nat /\ stream[q].gen \in Nat
      /\ stream[q].version \in {1, 2}
  <2>1. stream[q] \in Stream
    BY DEF Types, WireTypes
  <2> QED
    BY <2>1, BoundAssumption DEF StreamInv, Types, LinkTypes, Generations, Stream
<1>1. CASE OtherStep
  <2>1. entry'[q].version = entry[q].version
    BY <1>1, Effects
  <2>2. stream[q].asked = 0 =>
          /\ entry'[q].got = entry[q].got
          /\ entry'[q].event /\ entry'[q].error = "none"
                     => entry[q].event /\ entry[q].error = "none"
    <3>1. ReceiveBatch => wire # <<>>
      BY DEF ReceiveBatch
    <3>2. stream[q].asked = 0 =>
            ~(ReceiveBatch /\ q = Head(wire).q) /\ \A w \in worker : q # w.frame.q
      BY <3>1, Handled DEF FromStream, Streamed
    <3> QED
      BY <1>1, <3>2, Effects
  <2>3. CASE Quiet
    <3>1. /\ generation' \in {generation, generation + 1}
          /\ stream'[q].asked = stream[q].asked /\ stream'[q].version = stream[q].version
          /\ stream'[q].next = stream[q].next /\ stream'[q].total = stream[q].total
          /\ stream'[q].gen \in {stream[q].gen, 0}
      BY <2>3 DEF Quiet
    <3> QED
      BY <1>0, <2>1, <2>2, <3>1 DEF StreamOf
  <2>4. ASSUME NEW p \in Queries, ServerStep(p)
        PROVE  StreamOf(q)'
    <3>1. generation' = generation /\ stream[p].gen = generation
      BY <2>4, ServerSteps
    <3>2. CASE p # q
      <4>1. stream'[q] = stream[q]
        BY <2>4, <3>2, ServerSteps
      <4> QED
        BY <1>0, <2>1, <2>2, <3>1, <4>1 DEF StreamOf
    <3>3. CASE p = q
      <4>1. PICK f \in Frame : Sends(q, f)
        BY <2>4, <3>3, ServerSteps
      <4>2. stream[q].asked # 0
        BY <1>0, <3>1, <3>3 DEF StreamOf
      <4> QED
        BY <1>0, <2>1, <3>1, <3>3, <4>1, <4>2 DEF StreamOf, Sends
    <3> QED
      BY <3>2, <3>3
  <2> QED
    BY <1>1, <2>3, <2>4, OthersQuiet
<1>2. ASSUME NEW p \in Queries, UserStep(p)
      PROVE  StreamOf(q)'
  <2>1. generation' = generation
    BY <1>2, UserSteps
  <2>2. CASE p # q
    <3>1. stream'[q] = stream[q] /\ entry'[q] = entry[q]
      BY <1>2, <2>2, UserSteps
    <3> QED
      BY <1>0, <2>1, <3>1 DEF StreamOf
  <2>3. CASE p = q /\ Asks(q)
    BY <1>0, <2>1, <2>3 DEF Asks, StreamOf
  <2>4. CASE p = q /\ Leaves(q)
    <3>1. /\ entry'[q].got = entry[q].got /\ entry'[q].event = entry[q].event
          /\ entry'[q].error = entry[q].error
          /\ entry'[q].version = entry[q].version \/ pc[q] \in {"idle", "negotiating"}
      BY <1>2, <2>4, UserEffects DEF UserEffect, Same, Kept, Cancels
    <3>2. pc[q] \in {"idle", "negotiating"} => stream[q].asked = 0
      BY DEF ToldInv, ToldOf, Early
    <3>3. stream[q].asked = 0 => stream[q].version = 1
      BY <1>0 DEF StreamOf
    <3>4. /\ stream'[q].version = stream[q].version /\ stream'[q].next = stream[q].next
          /\ stream'[q].total = stream[q].total /\ stream'[q].gen \in {stream[q].gen, 0}
          /\ stream'[q].asked = 0 => stream[q].asked = 0
      BY <1>0, <2>4 DEF Leaves
    <3> QED
      BY <1>0, <2>1, <3>1, <3>2, <3>3, <3>4 DEF StreamOf
  <2> QED
    BY <1>2, <2>2, <2>3, <2>4, UserServes
<1>3. CASE UNCHANGED vars
  BY <1>0, <1>3 DEF vars, StreamOf
<1> QED
  BY <1>1, <1>2, <1>3, Steps

\* One frame less on the wire, none, or the same: the line of other calls stays.
LEMMA LineKept ==
  ASSUME Types, NEW q \in Queries, LineOf(q), stream[q].asked # 0, q \in pending,
         entry[q].version # 2, entry'[q].got = entry[q].got, stream'[q].next = stream[q].next,
         Live(q)' => Live(q),
         \/ wire' = wire
         \/ wire' = <<>> /\ ~connected'
         \/ wire # <<>> /\ wire' = Tail(wire) /\ ~IsBatch(Head(wire), q)
  PROVE  LineOf(q)'
<1> DEFINE n == Len(entry[q].got)
           x == stream[q].next
<1>0. /\ n \in Nat /\ x \in Nat /\ wire \in Seq(Frame) /\ connected \in BOOLEAN
      /\ Live(q) \in BOOLEAN
  BY DEF Types, WireTypes, EntryTypes, LinkTypes, Entry, Stream, Live
<1>1. (entry[q].got = <<>> \/ n < x) /\ Lined(wire, q, n, x, Live(q))
  BY DEF LineOf
<1>2. Live(q)' = (connected' /\ stream'[q].gen = generation')
  BY DEF Live
<1>3. CASE wire' = wire
  <2>1. Lined(wire, q, n, x, Live(q)')
    BY <1>1 DEF Lined
  <2> QED
    BY <1>1, <1>3, <2>1 DEF LineOf
<1>4. CASE wire' = <<>> /\ ~connected'
  <2>1. Lined(<<>>, q, n, x, FALSE)
    BY DEF Lined
  <2>2. Live(q)' = FALSE
    BY <1>2, <1>4
  <2> QED
    BY <1>1, <1>4, <2>1, <2>2 DEF LineOf
<1>5. CASE wire # <<>> /\ wire' = Tail(wire) /\ ~IsBatch(Head(wire), q)
  <2>1. Lined(Tail(wire), q, n, x, Live(q))
    BY <1>0, <1>1, <1>5, LinedTail
  <2>2. Lined(Tail(wire), q, n, x, Live(q)')
    BY <2>1 DEF Lined
  <2> QED
    BY <1>1, <1>5, <2>2 DEF LineOf
<1> QED
  BY <1>3, <1>4, <1>5

\* Every step keeps the batches in line.
LEMMA LineStep ==
  ASSUME Types, StreamInv, ToldInv, FrameInv, LineInv, [Next]_vars
  PROVE  LineInv'
<1> SUFFICES ASSUME NEW q \in Queries
             PROVE  LineOf(q)'
  BY DEF LineInv
<1>0. /\ LineOf(q) /\ StreamOf(q) /\ generation \in Nat \ {0}
      /\ stream[q].gen \in Nat /\ stream[q].next \in Nat /\ stream[q].total \in Nat
      /\ stream[q].version \in {1, 2} /\ connected \in BOOLEAN
      /\ wire \in Seq(Frame) /\ entry[q].got \in Seq(Nat) /\ Len(entry[q].got) \in Nat
  <2>1. stream[q] \in Stream /\ entry[q] \in Entry
    BY DEF Types, WireTypes, EntryTypes
  <2> QED
    BY <2>1, BoundAssumption DEF LineInv, StreamInv, Types, LinkTypes, WireTypes,
       Generations, Stream, Entry
<1>1. CASE OtherStep
  <2> SUFFICES ASSUME q \in pending', entry'[q].version # 2, stream'[q].asked # 0
               PROVE  LineOf(q)'
    BY DEF LineOf
  <2>1. q \in pending /\ entry[q].version # 2
    BY <1>1, Effects, OtherSteps
  <2>2. stream[q].version = 1
    BY <1>0, <2>1 DEF StreamOf
  <2>3. \A w \in worker : q # w.frame.q
    BY <2>2, Handled DEF Streamed, FromStream
  <2>4. CASE Quiet
    <3>1. /\ stream'[q].next = stream[q].next /\ stream[q].asked # 0
          /\ stream'[q].gen \in {stream[q].gen, 0}
      BY <2>4 DEF Quiet
    <3>2. Live(q)' => Live(q)
      <4>1. ASSUME connected', stream'[q].gen = generation'
            PROVE  connected /\ stream[q].gen = generation
        <5>1. generation' # generation + 1
          BY <1>0, <3>1, <4>1 DEF StreamOf
        <5>2. generation' = generation /\ connected
          BY <2>4, <4>1, <5>1 DEF Quiet
        <5> QED
          BY <1>0, <3>1, <4>1, <5>2
      <4> QED
        BY <4>1 DEF Live
    <3>3. CASE ~(ReceiveBatch /\ IsBatch(Head(wire), q))
      <4>1. entry'[q].got = entry[q].got
        <5>1. ReceiveBatch => Head(wire).kind \in {"batch", "refusal"}
          BY DEF ReceiveBatch
        <5> QED
          BY <1>1, <2>3, <3>3, <5>1, Effects DEF IsBatch
      <4>2. \/ wire' = wire
            \/ wire' = <<>> /\ ~connected'
            \/ wire # <<>> /\ wire' = Tail(wire) /\ ~IsBatch(Head(wire), q)
        <5>1. ReceiveFrame => Head(wire).kind # "batch"
          BY DEF ReceiveFrame
        <5> QED
          BY <2>4, <3>3, <5>1 DEF Quiet, IsBatch
      <4> QED
        BY <1>0, <2>1, <3>1, <3>2, <4>1, <4>2, LineKept
    <3>4. CASE ReceiveBatch /\ IsBatch(Head(wire), q)
      <4> DEFINE n == Len(entry[q].got)
                 x == stream[q].next
                 h == Head(wire).seq
      <4>1. wire # <<>> /\ wire' = Tail(wire) /\ Lined(wire, q, n, x, Live(q))
        BY <1>0, <2>1, <3>1, <3>4 DEF ReceiveBatch, LineOf
      <4>2. entry'[q].got = Append(entry[q].got, h)
        <5> DEFINE got == Append(entry[q].got, h)
                   told == entry[q].event \/ Len(got) >= stream[q].total
        <5>1. entry' = [entry EXCEPT ![q] = [@ EXCEPT !.got = got, !.event = told]]
          BY <2>1, <3>4 DEF ReceiveBatch, HasEntry, IsBatch
        <5> HIDE DEF got, told
        <5>2. entry[q] \in Entry /\ entry \in [Queries -> Entry]
          BY DEF Types, EntryTypes
        <5>3. entry'[q] = [entry[q] EXCEPT !.got = got, !.event = told]
          BY <5>1, <5>2
        <5>4. entry'[q].got = got
          BY <5>2, <5>3 DEF Entry
        <5> QED
          BY <5>4 DEF got
      <4>3. Live(q) \in BOOLEAN
        BY <1>0 DEF Live
      <4> HIDE DEF h
      <4>4. h = n + 1 /\ n + 1 < x /\ Lined(Tail(wire), q, n + 1, x, Live(q))
        BY <1>0, <3>4, <4>1, <4>3, LinedTake DEF h
      <4>5. Len(entry'[q].got) = n + 1
        BY <1>0, <4>2, <4>4
      <4>6. Lined(Tail(wire), q, n + 1, x, Live(q)')
        BY <3>2, <4>4 DEF Lined
      <4> QED
        BY <3>1, <4>1, <4>4, <4>5, <4>6 DEF LineOf
    <3> QED
      BY <3>3, <3>4
  <2>5. ASSUME NEW p \in Queries, ServerStep(p)
        PROVE  LineOf(q)'
    <3> DEFINE n == Len(entry[q].got)
               x == stream[q].next
    <3>1. /\ entry' = entry /\ generation' = generation /\ connected' = connected
          /\ stream[p].gen = generation /\ connected
      BY <2>5, ServerSteps
    <3>2. PICK f \in Frame : /\ Sends(p, f)
                             /\ wire' \in {wire, Append(wire, f), Append(Append(wire, f), f)}
      BY <2>5, ServerSteps
    <3>3. stream[q].asked # 0
      BY <2>5, <3>2, ServerSteps DEF Sends
    <3>4. (entry[q].got = <<>> \/ n < x) /\ Lined(wire, q, n, x, Live(q)) /\ Live(q) \in BOOLEAN
      BY <1>0, <2>1, <3>3 DEF LineOf, Live
    <3>5. CASE p # q
      <4>1. stream'[q] = stream[q] /\ ~IsBatch(f, q)
        BY <2>5, <3>2, <3>5, ServerSteps DEF Sends, IsBatch
      <4>2. Live(q)' = Live(q)
        BY <3>1, <4>1 DEF Live
      <4>3. Append(wire, f) \in Seq(Frame)
        BY <1>0
      <4>4. Lined(Append(wire, f), q, n, x, Live(q))
        BY <1>0, <3>4, <4>1, LinedPast
      <4>5. Lined(Append(Append(wire, f), f), q, n, x, Live(q))
        BY <1>0, <3>4, <4>1, <4>3, <4>4, LinedPast
      <4>6. Lined(wire', q, n, x, Live(q))
        BY <3>2, <3>4, <4>4, <4>5
      <4> QED
        BY <3>1, <3>4, <4>1, <4>2, <4>6 DEF LineOf
    <3>6. CASE p = q
      <4>1. Live(q) = TRUE
        BY <3>1, <3>6 DEF Live
      <4>2. n < x
        BY <1>0, <3>1, <3>4, <3>6 DEF StreamOf
      <4>3. wire' = Append(wire, f)
        BY <2>2, <3>2, <3>6 DEF Sends
      <4>4. CASE f.kind = "batch"
        <5>1. f.seq = x /\ stream'[q].next = x + 1 /\ IsBatch(f, q)
          BY <2>2, <3>2, <3>6, <4>4 DEF Sends, IsBatch
        <5>2. Live(q)' \in BOOLEAN
          BY <1>0, <3>1 DEF Live
        <5>3. Lined(Append(wire, f), q, n, x + 1, Live(q)')
          BY <1>0, <3>4, <4>1, <4>2, <5>1, <5>2, LinedSend
        <5>4. n < x + 1
          BY <1>0, <4>2
        <5> QED
          BY <3>1, <4>3, <5>1, <5>3, <5>4 DEF LineOf
      <4>5. CASE f.kind # "batch"
        <5>1. stream'[q].next = x /\ ~IsBatch(f, q)
          BY <2>2, <3>2, <3>6, <4>5 DEF Sends, IsBatch
        <5>2. Lined(Append(wire, f), q, n, x, Live(q))
          BY <1>0, <3>4, <5>1, LinedPast
        <5>3. Lined(Append(wire, f), q, n, x, Live(q)')
          BY <4>1, <5>2 DEF Lined
        <5> QED
          BY <3>1, <4>2, <4>3, <5>1, <5>3 DEF LineOf
      <4> QED
        BY <4>4, <4>5
    <3> QED
      BY <3>5, <3>6
  <2> QED
    BY <1>1, <2>4, <2>5, OthersQuiet
<1>2. ASSUME NEW p \in Queries, UserStep(p)
      PROVE  LineOf(q)'
  <2> SUFFICES ASSUME q \in pending', entry'[q].version # 2, stream'[q].asked # 0
               PROVE  LineOf(q)'
    BY DEF LineOf
  <2>0. generation' = generation
    BY <1>2, UserSteps
  <2>1. /\ wire' = wire \/ (wire' = <<>> /\ ~connected')
        /\ connected' => connected
    BY <1>2, UserServes DEF Asks, Leaves
  <2>2. CASE p # q
    <3>1. entry'[q] = entry[q] /\ stream'[q] = stream[q] /\ q \in pending
      BY <1>2, <2>2, UserSteps
    <3>2. Live(q)' => Live(q)
      BY <2>0, <2>1, <3>1 DEF Live
    <3> QED
      BY <1>0, <2>1, <3>1, <3>2, LineKept
  <2>3. CASE p = q /\ stream[q].asked = 0
    <3>1. /\ entry[q].got = <<>> /\ stream[q].gen = 0
          /\ pc[q] \notin {"idle", "negotiating"} => entry'[q].version = entry[q].version
      BY <1>0, <1>2, <2>3, UserEffects DEF StreamOf, UserEffect, Kept
    <3>2. entry'[q].got = <<>>
      BY <1>2, <2>3, <3>1, UserEffects DEF UserEffect, Same
    <3>3. \A i \in 1 .. Len(wire) : ~IsBatch(wire[i], q)
      BY <2>3 DEF FrameInv, FromStream, IsBatch
    <3>4. \A i \in 1 .. Len(wire') : ~IsBatch(wire'[i], q)
      BY <2>1, <3>3
    <3>5. CASE Asks(q)
      <4>1. entry' = entry /\ stream'[q].next = 1
        BY <3>5 DEF Asks
      <4>2. \A k \in Nat : ~(0 < k /\ k < 1)
        OBVIOUS
      <4>3. Lined(wire', q, 0, 1, Live(q)')
        BY <3>4, <4>2 DEF Lined
      <4>4. Len(entry'[q].got) = 0
        BY <3>2
      <4> QED
        BY <3>2, <4>1, <4>3, <4>4 DEF LineOf
    <3>6. CASE Leaves(q)
      <4>1. stream'[q].gen = 0
        BY <3>1, <3>6 DEF Leaves
      <4>2. ~Live(q)'
        BY <1>0, <2>0, <4>1 DEF Live
      <4>3. Lined(wire', q, Len(entry'[q].got), stream'[q].next, Live(q)')
        BY <3>4, <4>2 DEF Lined
      <4> QED
        BY <3>2, <4>3 DEF LineOf
    <3> QED
      BY <1>2, <2>3, <3>5, <3>6, UserServes
  <2>4. CASE p = q /\ stream[q].asked # 0
    <3>1. pc[q] \notin Early \cup {"registered", "checked"}
      BY <2>4 DEF ToldInv, ToldOf
    <3>2. Leaves(q)
      BY <1>2, <2>4, <3>1, UserServes DEF Asks
    <3>3. entry'[q].got = entry[q].got /\ entry'[q].version = entry[q].version
      BY <1>2, <2>4, <3>1, UserEffects DEF UserEffect, Same, Kept, Early
    <3>4. q \in pending
      BY <1>2, <2>4, <3>1 DEF UserStep, CallStep, Begin, BeginFinance, Select,
         RefuseToSelect, Register, CheckGeneration, SendRequest, NoTransport, SendFails,
         Resume, Finish, Expire, GraceEnds, Depart, RegisterFinance, WaitUnsent,
         FindClosed, ExpireFinance, LoseInCall, DropEntry, Early, table
    <3>5. Live(q)' => Live(q)
      BY <1>0, <2>0, <3>2 DEF Live, Leaves
    <3> QED
      BY <1>0, <2>1, <2>4, <3>2, <3>3, <3>4, <3>5, LineKept DEF Leaves
  <2> QED
    BY <2>2, <2>3, <2>4
<1>3. CASE UNCHANGED vars
  BY <1>0, <1>3 DEF vars, LineOf, Live
<1> QED
  BY <1>1, <1>2, <1>3, Steps

\* The last frame has been taken after all the others.
LEMMA EndStep ==
  ASSUME Types, StreamInv, ToldInv, FrameInv, AnswerInv, WorkerInv, [Next]_vars
  PROVE  EndInv'
<1> SUFFICES ASSUME NEW v \in worker', v.at = "tell", v.frame.kind = "end"
             PROVE  Len(entry'[v.frame.q].got) = stream'[v.frame.q].total
  BY DEF EndInv
<1>1. PICK w \in worker :
        /\ v.frame = w.frame
        /\ v = w \/ (w.at = "handle" /\ Fits(entry[w.frame.q], w.frame))
  <2>0. worker = {} \/ \E w \in Work : worker = {w}
    BY DEF Types, WorkTypes, OneWorker
  <2>1. CASE LinkStep \/ TeardownStep \/ ReceiveFrame \/ ReceiveBatch \/ WorkerTakes
    <3>1. worker' \subseteq worker \/ \E h : worker' = {[frame |-> h, at |-> "handle"]}
      BY <2>1 DEF LinkStep, Break, Open, RestoreFails, Authenticate, MarkAuthenticated,
         FinishRestore, Settle, TeardownStep, CloseTake, CloseReset, CloseTransport,
         CallbackStep, CallbackReset, CallbackTake, Abort, ResetSession, ReceiveFrame,
         ReceiveBatch, WorkerTakes, WorkerFree, decode
    <3>2. \A h : [frame |-> h, at |-> "handle"].at # "tell"
      OBVIOUS
    <3> QED
      BY <3>1, <3>2
  <2>2. CASE (\E f \in failing : FailStep(f)) \/ UNCHANGED vars
             \/ \E q \in Queries : ServerStep(q) \/ UserStep(q)
    <3>1. worker' = worker
      BY <2>2, ServerSteps, UserSteps DEF FailStep, FailCancels, FailResumes, FailTells,
         FailBreaks, vars, decode
    <3> QED
      BY <3>1
  <2>3. ASSUME NEW w \in worker, WorkStep(w)
        PROVE  \E u \in worker :
                 /\ v.frame = u.frame
                 /\ v = u \/ (u.at = "handle" /\ Fits(entry[u.frame.q], u.frame))
    <3>1. \A at : [w EXCEPT !.at = at].frame = w.frame /\ [w EXCEPT !.at = at].at = at
      BY <2>0 DEF Work
    <3>2. \/ worker' = {}
          \/ \E at \in {"grant", "callback", "blocked"} : worker' = {[w EXCEPT !.at = at]}
          \/ /\ worker' = {[w EXCEPT !.at = "tell"]} /\ w.at = "handle"
             /\ Fits(entry[w.frame.q], w.frame)
      BY <2>3, Calls DEF WorkStep, WorkerHandles, WorkerGrants, WorkerResumes, WorkerTells,
         WorkerBreaks
    <3> QED
      BY <3>1, <3>2
  <2> QED
    BY <2>1, <2>2, <2>3, Steps DEF OtherStep
<1> DEFINE q == w.frame.q
<1>2. /\ w.frame \in Frame /\ w.frame.kind = "end" /\ Streamed(stream, w.frame) /\ q \in Queries
  <2>1. w.frame \in Frame /\ Streamed(stream, w.frame)
    BY Handled
  <2> QED
    BY <1>1, <2>1 DEF Frame
<1>3. /\ stream[q].asked # 0 /\ stream[q].gen = 0 /\ w.frame.seq = stream[q].total
      /\ stream[q].version # 1
  BY <1>2 DEF Streamed, FromStream
<1>4. entry[q].version = 2
  BY <1>2, <1>3 DEF StreamInv, StreamOf
<1> HIDE DEF q
<1>5. stream'[q].total = stream[q].total
  BY <1>2, <1>3, StreamStays DEF Settled
<1>6. Len(entry[q].got) = stream[q].total
  <2>1. CASE v = w
    BY <2>1 DEF AnswerInv, EndInv, q
  <2>2. CASE w.at = "handle" /\ Fits(entry[w.frame.q], w.frame)
    BY <1>2, <1>3, <2>2 DEF Fits, q
  <2> QED
    BY <1>1, <2>1, <2>2
<1>7. entry'[q].got = entry[q].got
  <2>1. CASE OtherStep
    <3> SUFFICES ASSUME entry'[q].got # entry[q].got
                 PROVE  FALSE
      OBVIOUS
    <3>1. PICK u \in worker : /\ u.at = "handle" /\ u.frame.seq = Len(entry[q].got) + 1
      BY <1>2, <1>4, <2>1, Effects
    <3>2. u = w
      BY DEF Types, WorkTypes, OneWorker
    <3>3. v # w
      BY <3>1, <3>2
    <3>4. w.frame.seq = Len(entry[q].got)
      BY <1>1, <1>2, <3>3 DEF Fits, q
    <3>5. Len(entry[q].got) \in Nat
      BY <1>2 DEF Types, EntryTypes, Entry
    <3> QED
      BY <3>1, <3>2, <3>4, <3>5
  <2>2. ASSUME NEW p \in Queries, UserStep(p)
        PROVE  entry'[q].got = entry[q].got
    BY <1>2, <2>2, UserSteps, UserEffects DEF UserEffect, Same
  <2>3. CASE UNCHANGED vars
    BY <2>3 DEF vars
  <2> QED
    BY <2>1, <2>2, <2>3, Steps
<1> QED
  BY <1>1, <1>5, <1>6, <1>7 DEF q

\* One block more, and it is the next.
LEMMA OneMore ==
  ASSUME NEW s \in Seq(Nat), \A i \in 1 .. Len(s) : s[i] = i
  PROVE  LET t == Append(s, Len(s) + 1) IN
         Len(t) = Len(s) + 1 /\ \A i \in 1 .. Len(t) : t[i] = i
<1> DEFINE n == Len(s) + 1
           t == Append(s, n)
<1>1. n \in Nat /\ Len(t) = n /\ t[n] = n /\ \A i \in 1 .. Len(s) : t[i] = s[i]
  OBVIOUS
<1>2. \A i \in 1 .. n : i = n \/ i \in 1 .. Len(s)
  OBVIOUS
<1> HIDE DEF t
<1>3. \A i \in 1 .. Len(t) : t[i] = i
  BY <1>1, <1>2
<1> QED
  BY <1>1, <1>3 DEF t

\* Every step keeps the answers whole.
LEMMA AnswerStep ==
  ASSUME Types, TableInv, CancelInv, WorkerInv, StreamInv, ToldInv, FrameInv, LineInv,
         AnswerInv, [Next]_vars
  PROVE  AnswerInv'
<1> SUFFICES ASSUME NEW q \in Queries
             PROVE  AnswerOf(q)'
  BY EndStep DEF AnswerInv
<1>0. /\ AnswerOf(q) /\ StreamOf(q) /\ LineOf(q) /\ CancelOf(q) /\ generation \in Nat \ {0}
      /\ stream[q].gen \in Nat /\ stream[q].next \in Nat /\ stream[q].total \in Nat
      /\ stream[q].version \in {1, 2} /\ connected \in BOOLEAN
      /\ entry[q].got \in Seq(Nat) /\ Len(entry[q].got) \in Nat
  <2>1. stream[q] \in Stream /\ entry[q] \in Entry
    BY DEF Types, WireTypes, EntryTypes
  <2> QED
    BY <2>1, BoundAssumption DEF AnswerInv, CancelInv, LineInv, StreamInv, Types, LinkTypes,
                                 Generations, Stream, Entry
<1> DEFINE Woken == (entry[q].event /\ entry[q].error = "none") \/ outcome[q] = "rows"
<1>1. CASE OtherStep
  <2>1. /\ pc'[q] = pc[q] /\ outcome'[q] = outcome[q] /\ (q \in pending' => q \in pending)
        /\ entry'[q].active => entry[q].active
    BY <1>1, OtherSteps, Effects
  <2>2. stream[q].version = 1 \/ stream[q].gen = 0 =>
          /\ stream'[q].total = stream[q].total
          /\ stream'[q].version = 1 \/ stream'[q].gen = 0
    <3>1. CASE Quiet
      BY <3>1 DEF Quiet
    <3>2. ASSUME NEW p \in Queries, ServerStep(p), p # q
          PROVE  stream'[q] = stream[q]
      BY <3>2, ServerSteps
    <3>3. CASE ServerStep(q)
      <4>1. PICK f \in Frame : Sends(q, f)
        BY <3>3, ServerSteps
      <4>2. stream[q].gen # 0
        BY <1>0, <3>3, ServerSteps
      <4> QED
        BY <4>1, <4>2 DEF Sends
    <3> QED
      BY <1>1, <3>1, <3>2, <3>3, OthersQuiet
  <2>3. ASSUME ReceiveBatch, q \in pending, entry[q].version # 2, q = Head(wire).q,
               Head(wire).kind # "refusal",
               entry'[q].got = Append(entry[q].got, Head(wire).seq)
        PROVE  /\ Head(wire).seq = Len(entry[q].got) + 1
               /\ Len(entry[q].got) + 1 <= stream[q].total
               /\ stream[q].version = 1
    <3>1. wire # <<>> /\ IsBatch(Head(wire), q) /\ wire \in Seq(Frame)
      BY <2>3 DEF ReceiveBatch, IsBatch, Types, WireTypes
    <3>2. stream[q].asked # 0
      BY <2>3, <3>1, Handled DEF FromStream
    <3>3. Lined(wire, q, Len(entry[q].got), stream[q].next, Live(q)) /\ Live(q) \in BOOLEAN
      BY <1>0, <2>3, <3>2 DEF LineOf, Live
    <3>4. Head(wire).seq = Len(entry[q].got) + 1 /\ Len(entry[q].got) + 1 < stream[q].next
      BY <1>0, <3>1, <3>3, LinedTake
    <3>5. stream[q].version = 1 /\ stream[q].next <= stream[q].total + 1
      BY <1>0, <2>3 DEF StreamOf
    <3> QED
      BY <1>0, <3>4, <3>5
  <2>4. \/ entry'[q].got = entry[q].got
        \/ /\ entry'[q].got = Append(entry[q].got, Len(entry[q].got) + 1)
           /\ \/ entry[q].active
              \/ /\ stream[q].version = 1 /\ Len(entry[q].got) + 1 <= stream[q].total
                 /\ entry[q].version # 2
    BY <1>1, <2>3, Effects
  <2>5. \A i \in 1 .. Len(entry'[q].got) : entry'[q].got[i] = i
    BY <1>0, <2>4, OneMore DEF AnswerOf
  <2>6. CASE Woken
    <3>1. entry'[q].got = entry[q].got
      BY <1>0, <2>4, <2>6 DEF AnswerOf
    <3> QED
      BY <1>0, <2>1, <2>2, <2>5, <2>6, <3>1 DEF AnswerOf
  <2>7. CASE ~Woken /\ ~(entry'[q].event /\ entry'[q].error = "none")
    BY <1>0, <2>1, <2>5, <2>7 DEF AnswerOf
  <2>8. CASE ~Woken /\ entry'[q].event /\ entry'[q].error = "none"
    <3>1. CASE /\ ReceiveBatch /\ q \in pending /\ entry[q].version # 2
               /\ q = Head(wire).q /\ Head(wire).kind # "refusal"
               /\ entry'[q].got = Append(entry[q].got, Head(wire).seq)
               /\ Len(entry'[q].got) >= stream[q].total
      <4>1. Len(entry'[q].got) = Len(entry[q].got) + 1
        BY <1>0, <2>3, <3>1
      <4>2. Len(entry'[q].got) = stream[q].total /\ stream[q].version = 1
        BY <1>0, <2>3, <3>1, <4>1
      <4>3. ~entry'[q].active
        BY <1>0, <2>1, <3>1 DEF CancelOf
      <4> QED
        BY <1>0, <2>1, <2>2, <2>5, <2>8, <4>2, <4>3 DEF AnswerOf
    <3>2. ASSUME NEW w \in worker, q = w.frame.q, w.at = "tell", w.frame.kind # "error"
          PROVE  AnswerOf(q)'
      <4>1. w.frame.kind = "end" /\ Streamed(stream, w.frame)
        BY <3>2 DEF FrameInv
      <4>2. stream[q].gen = 0 /\ stream[q].version # 1 /\ Len(entry[q].got) = stream[q].total
        BY <3>2, <4>1 DEF Streamed, FromStream, AnswerInv, EndInv
      <4>3. ~entry[q].active
        BY <3>2 DEF WorkerInv
      <4>4. entry'[q].got = entry[q].got
        BY <2>4, <4>2, <4>3
      <4> QED
        BY <1>0, <2>1, <2>2, <2>5, <2>8, <4>2, <4>3, <4>4 DEF AnswerOf
    <3> QED
      BY <1>1, <2>8, <3>1, <3>2, Effects
  <2> QED
    BY <2>6, <2>7, <2>8
<1>2. ASSUME NEW p \in Queries, UserStep(p)
      PROVE  AnswerOf(q)'
  <2>1. CASE p # q
    <3>1. /\ entry'[q] = entry[q] /\ stream'[q] = stream[q] /\ outcome'[q] = outcome[q]
          /\ pc'[q] = pc[q] /\ (q \in pending' <=> q \in pending)
      BY <1>2, <2>1, UserSteps
    <3> QED
      BY <1>0, <3>1 DEF AnswerOf
  <2>2. CASE p = q
    <3>0. outcome \in [Queries -> Outcomes] /\ pc \in [Queries -> Points] /\ entry[q] \in Entry
      BY DEF Types, CallTypes, EntryTypes
    <3>1. outcome[q] # "rows"
      <4>1. pc[q] # "done"
        BY <1>2, <2>2, Calls DEF UserStep, CallStep, Begin, BeginFinance, Select,
           RefuseToSelect, Register, CheckGeneration, SendRequest, NoTransport,
           SendFails, Resume, Finish, Expire, GraceEnds, Depart, RegisterFinance,
           WaitUnsent, FindClosed, ExpireFinance, LoseInCall, Released
      <4> QED
        BY <1>0, <4>1 DEF AnswerOf
    <3>2. outcome'[q] = "rows" =>
            /\ entry[q].event /\ entry[q].error = "none"
            /\ pc'[q] = "done" /\ q \notin pending'
      <4>1. CASE Finish(q)
        <5>1. /\ entry[q].event /\ pending' = pending \ {q} /\ pc'[q] = "done"
              /\ outcome' = [outcome EXCEPT ![q] =
                   CASE entry[q].error = "aborted" -> "disconnected"
                     [] entry[q].error = "failed"  -> "failed"
                     [] OTHER                      -> "rows"]
          BY <3>0, <4>1 DEF Finish, Go
        <5>2. outcome'[q] = "rows" => entry[q].error \notin {"aborted", "failed"}
          BY <3>0, <5>1
        <5>3. entry[q].error \in {"none", "aborted", "failed"}
          BY <3>0 DEF Entry
        <5> QED
          BY <5>1, <5>2, <5>3
      <4>2. CASE ~Finish(q)
        <5>1. outcome'[q] # "rows"
          BY <1>2, <2>2, <3>0, <3>1, <4>2 DEF UserStep, CallStep, Begin, BeginFinance,
             Select, RefuseToSelect, Register,
             CheckGeneration, SendRequest, NoTransport, SendFails, Resume, Finish, Expire,
         GraceEnds, Depart, RegisterFinance, WaitUnsent, FindClosed, ExpireFinance,
         LoseInCall, Leave, call
        <5> QED
          BY <5>1
      <4> QED
        BY <4>1, <4>2
    <3>3. /\ entry'[q].got = entry[q].got /\ entry'[q].event = entry[q].event
          /\ entry'[q].error = entry[q].error
          /\ entry'[q].active => entry[q].active \/ pc[q] = "negotiating"
      BY <1>2, <2>2, UserEffects DEF UserEffect, Same, Cancels
    <3>4. pc[q] = "negotiating" => ~(entry[q].event /\ entry[q].error = "none")
      BY <1>0 DEF CancelOf
    <3>5. CASE Asks(q)
      <4>1. stream[q].asked = 0
        BY <3>5 DEF Asks, ToldInv, ToldOf
      <4>2. ~(entry[q].event /\ entry[q].error = "none")
        BY <1>0, <4>1 DEF StreamOf
      <4> QED
        BY <1>0, <3>2, <3>3, <4>2 DEF AnswerOf
    <3>6. CASE Leaves(q)
      <4>1. /\ stream'[q].version = stream[q].version /\ stream'[q].total = stream[q].total
            /\ stream'[q].gen \in {stream[q].gen, 0}
        BY <3>6 DEF Leaves
      <4> QED
        BY <1>0, <3>2, <3>3, <3>4, <4>1 DEF AnswerOf
    <3> QED
      BY <1>2, <2>2, <3>5, <3>6, UserServes
  <2> QED
    BY <2>1, <2>2
<1>3. CASE UNCHANGED vars
  BY <1>0, <1>3 DEF vars, AnswerOf
<1> QED
  BY <1>1, <1>2, <1>3, Steps

AllBlocks(q) == [i \in 1 .. stream[q].total |-> i]

\* A call is woken by an error or by the whole answer, and returns rows only if it has
\* the whole answer, block after block: whatever the relay drops or repeats, however
\* the queue overflows, and whoever cancels, aborts and completes the entry at the
\* same time.
WakesDecided ==
  \A q \in Queries :
    (entry[q].event /\ entry[q].error = "none") \/ outcome[q] = "rows"
      => entry[q].got = AllBlocks(q)

\* What the answers rest on.
AnswersInv ==
  /\ TableInv /\ CancelInv /\ WorkerInv /\ LossInv /\ ToldInv
  /\ StreamInv /\ FrameInv /\ LineInv /\ AnswerInv

\* A call that was given rows to return has them all.
LEMMA AnswerParts ==
  ASSUME Types, AnswersInv
  PROVE  WakesDecided
<1> SUFFICES ASSUME NEW q \in Queries,
                    (entry[q].event /\ entry[q].error = "none") \/ outcome[q] = "rows"
             PROVE  entry[q].got = AllBlocks(q)
  BY DEF WakesDecided
<1>1. /\ AnswerOf(q) /\ entry[q].got \in Seq(Nat)
  BY DEF AnswersInv, AnswerInv, Types, EntryTypes, Entry
<1>2. Len(entry[q].got) = stream[q].total
  BY <1>1 DEF AnswerOf
<1>3. \A i \in 1 .. Len(entry[q].got) : entry[q].got[i] = i
  BY <1>1 DEF AnswerOf
<1>4. entry[q].got = [i \in 1 .. Len(entry[q].got) |-> entry[q].got[i]]
  BY <1>1
<1> QED
  BY <1>2, <1>3, <1>4 DEF AllBlocks

\* It is inductive.
LEMMA AnswersStep ==
  ASSUME Types, AnswersInv, [Next]_vars
  PROVE  AnswersInv'
BY TableStep, CancelStep, WorkerInvStep, LossStep, ToldStep, StreamStep, FrameStep,
   LineStep, AnswerStep DEF AnswersInv

\* It holds.
LEMMA AnswersHold == Spec => []AnswersInv
<1>1. Init => AnswersInv
  <2> SUFFICES ASSUME Init
               PROVE  AnswersInv
    OBVIOUS
  <2>1. TableInv /\ WorkerInv /\ LossInv
    BY BoundAssumption DEF Init, TableInv, WorkerInv, LossInv, Generations
  <2>2. /\ \A q \in Queries : entry[q] = NoEntry /\ cancels[q] = 0 /\ stream[q] = NoStream
        /\ wire = <<>> /\ queue = <<>> /\ worker = {} /\ pending = {} /\ generation = 1
        /\ \A q \in Queries : pc[q] = "idle" /\ outcome[q] = "none"
    BY DEF Init
  <2>3. /\ NoEntry.version = 1 /\ ~NoEntry.active /\ ~NoEntry.event /\ NoEntry.got = <<>>
        /\ NoStream.asked = 0 /\ NoStream.gen = 0 /\ NoStream.version = 1
        /\ NoStream.next = 0 /\ NoStream.total = 0
    BY DEF NoEntry, NoStream
  <2>4. CancelInv /\ ToldInv
    BY <2>2, <2>3, Calls DEF CancelInv, CancelOf, ToldInv, ToldOf
  <2>5. StreamInv /\ FrameInv /\ LineInv
    BY <2>2, <2>3 DEF StreamInv, StreamOf, FrameInv, LineInv, LineOf
  <2>6. AnswerInv
    BY <2>2, <2>3 DEF AnswerInv, AnswerOf, EndInv
  <2> QED
    BY <2>1, <2>4, <2>5, <2>6 DEF AnswersInv
<1>2. Types /\ AnswersInv /\ [Next]_vars => AnswersInv'
  BY AnswersStep
<1> QED
  BY <1>1, <1>2, TypesHold, PTL DEF Spec

\* A call is woken by an error, or by the whole answer; and it returns no other.
THEOREM AnswersAreWhole == Spec => []WakesDecided
<1>1. Types /\ AnswersInv => WakesDecided
  BY AnswerParts
<1> QED
  BY <1>1, TypesHold, AnswersHold, PTL

-----------------------------------------------------------------------------
(***************************************************************************)
(* Flow control: window goes from the server to a block on the wire, from  *)
(* there to the queue and to the worker, and back to the server.           *)
(***************************************************************************)
IsData(f, q) == f.q = q /\ f.kind = "data"

Blocks(s, q) == {i \in 1 .. Len(s) : IsData(s[i], q)}

Count(s, q) == Cardinality(Blocks(s, q))

Held(ws, q) == Cardinality({w \in ws : IsData(w.frame, q)})

\* One if so, or none.
One(b) == IF b THEN 1 ELSE 0

\* The blocks of a sequence of frames are finitely many.
LEMMA BlocksFinite ==
  ASSUME NEW s \in Seq(Frame), NEW q
  PROVE  IsFiniteSet(Blocks(s, q)) /\ Count(s, q) \in Nat
<1>1. IsFiniteSet(1 .. Len(s))
  BY FS_Interval
<1>2. IsFiniteSet(Blocks(s, q))
  BY <1>1, FS_Subset DEF Blocks
<1> QED
  BY <1>2, FS_CardinalityType DEF Count

\* Without blocks there is nothing to count.
LEMMA CountNone ==
  ASSUME NEW s, NEW q, \A i \in 1 .. Len(s) : ~IsData(s[i], q)
  PROVE  Count(s, q) = 0
<1>1. Blocks(s, q) = {}
  BY DEF Blocks
<1> QED
  BY <1>1, FS_EmptySet DEF Count

\* A frame that comes is counted if it is a block.
LEMMA CountAppend ==
  ASSUME NEW s \in Seq(Frame), NEW f \in Frame, NEW q
  PROVE  Count(Append(s, f), q) = Count(s, q) + One(IsData(f, q))
<1> DEFINE t == Append(s, f)
           n == Len(s) + 1
<1>1. /\ n \in Nat /\ Len(t) = n /\ t[n] = f /\ \A i \in 1 .. Len(s) : t[i] = s[i]
      /\ Len(s) \in Nat
  BY WireElements
<1>2. \A i : i \in 1 .. n <=> i = n \/ i \in 1 .. Len(s)
  BY <1>1
<1>3. n \notin 1 .. Len(s)
  BY <1>1
<1> HIDE DEF t, n
<1>4. CASE IsData(f, q)
  <2>1. Blocks(t, q) = Blocks(s, q) \cup {n} /\ n \notin Blocks(s, q)
    BY <1>1, <1>2, <1>3, <1>4 DEF Blocks
  <2> QED
    BY <1>4, <2>1, BlocksFinite, FS_AddElement DEF Count, One, t
<1>5. CASE ~IsData(f, q)
  <2>1. Blocks(t, q) = Blocks(s, q)
    BY <1>1, <1>2, <1>3, <1>5 DEF Blocks
  <2>2. Count(s, q) \in Nat
    BY BlocksFinite
  <2> QED
    BY <1>5, <2>1, <2>2 DEF Count, One, t
<1> QED
  BY <1>4, <1>5

\* A frame that is taken was counted if it is a block.
LEMMA CountTail ==
  ASSUME NEW s \in Seq(Frame), s # <<>>, NEW q
  PROVE  Count(s, q) = Count(Tail(s), q) + One(IsData(Head(s), q))
<1> DEFINE t == Tail(s)
           n == Len(s)
           B == Blocks(s, q) \ {1}
           C == Blocks(t, q)
           F == [i \in C |-> i + 1]
<1>1. /\ n \in Nat /\ n > 0 /\ Head(s) = s[1] /\ Len(t) = n - 1
      /\ \A i \in 1 .. n - 1 : t[i] = s[i + 1]
      /\ t \in Seq(Frame)
  BY WireElements
<1>2. \A i \in 1 .. n - 1 : i + 1 \in 1 .. n /\ i + 1 # 1 /\ i \in Nat
  BY <1>1
<1>3. \A i \in 1 .. n : i # 1 => i - 1 \in 1 .. n - 1 /\ (i - 1) + 1 = i
  BY <1>1
<1>4. 1 \in 1 .. n
  BY <1>1
<1> HIDE DEF t, n
<1>5. \A i \in C : i + 1 \in B /\ i \in Nat
  BY <1>1, <1>2 DEF Blocks, n
<1>6. \A i \in B : i - 1 \in C /\ (i - 1) + 1 = i
  BY <1>1, <1>3 DEF Blocks, n
<1> HIDE DEF B, C
<1>7. F \in Bijection(C, B)
  <2>1. F \in [C -> B]
    BY <1>5
  <2>2. \A i, j \in C : F[i] = F[j] => i = j
    BY <1>5
  <2>3. \A i \in B : \E j \in C : F[j] = i
    BY <1>6
  <2> QED
    BY <2>1, <2>2, <2>3 DEF Bijection, Injection, Surjection, IsInjective
<1>8. IsFiniteSet(C) /\ Cardinality(C) \in Nat
  BY <1>1, BlocksFinite DEF C, Count
<1>9. IsFiniteSet(B) /\ Cardinality(B) = Cardinality(C)
  BY <1>7, <1>8, FS_Bijection DEF ExistsBijection
<1>10. CASE IsData(Head(s), q)
  <2>1. 1 \notin B /\ Blocks(s, q) = B \cup {1}
    BY <1>1, <1>4, <1>10 DEF B, Blocks, n
  <2> QED
    BY <1>8, <1>9, <1>10, <2>1, FS_AddElement DEF Count, One, C, t
<1>11. CASE ~IsData(Head(s), q)
  <2>1. Blocks(s, q) = B
    BY <1>1, <1>11 DEF B, Blocks
  <2> QED
    BY <1>8, <1>9, <1>11, <2>1 DEF Count, One, C, t
<1> QED
  BY <1>10, <1>11

\* The worker holds one block or none.
LEMMA HeldOne ==
  ASSUME NEW w, NEW q
  PROVE  Held({}, q) = 0 /\ Held({w}, q) = One(IsData(w.frame, q))
<1>1. {v \in {} : IsData(v.frame, q)} = {}
  OBVIOUS
<1>2. CASE IsData(w.frame, q)
  <2>1. {v \in {w} : IsData(v.frame, q)} = {w}
    BY <1>2
  <2> QED
    BY <1>1, <1>2, <2>1, FS_EmptySet, FS_Singleton DEF Held, One
<1>3. CASE ~IsData(w.frame, q)
  <2>1. {v \in {w} : IsData(v.frame, q)} = {}
    BY <1>3
  <2> QED
    BY <1>1, <1>3, <2>1, FS_EmptySet DEF Held, One
<1> QED
  BY <1>2, <1>3

\* What is under way of a request.
LEMMA Parts ==
  ASSUME NEW q
  PROVE  /\ Underway(q) = Count(wire, q) + Count(queue, q) + Held(worker, q)
         /\ Underway(q)' = Count(wire', q) + Count(queue', q) + Held(worker', q)
BY DEF Underway, Count, Held, Blocks, IsData

\* A stream that is served to a call that takes its frames.
Running(q) ==
  /\ entry[q].active
  /\ q \in pending
  /\ stream[q].gen = generation
  /\ stream[q].asked = entry[q].gen
  /\ stream[q].version = 2
  /\ connected
  /\ ~stream[q].lossy
  /\ \A f \in failing : f.q # q

\* Who fails a request has made its stream inactive, or is about to; a request is served
\* on the transport it was sent on; the worker gives window back for blocks only.
FailInv ==
  \A f \in failing : /\ f.q \in Queries /\ stream[f.q].asked # 0
                     /\ f.at # "cancel" => ~entry[f.q].active

ServedInv == \A q \in Queries : stream[q].gen # 0 => stream[q].gen = stream[q].asked

GrantInv == \A w \in worker : w.at = "grant" => w.frame.kind = "data"

FlowInv ==
  \A q \in Queries : Running(q) => stream[q].credit + Underway(q) = Window

\* What was asked for is not activated again, nor put back in the table, and its entry
\* keeps its transport.
LEMMA AskedStays ==
  ASSUME Types, ToldInv, [Next]_vars, NEW q \in Queries, stream[q].asked # 0
  PROVE  /\ entry'[q].active => entry[q].active
         /\ q \in pending' => q \in pending
         /\ entry'[q].gen = entry[q].gen
<1>1. CASE OtherStep
  BY <1>1, OtherSteps, Effects DEF Kept
<1>2. ASSUME NEW p \in Queries, UserStep(p)
      PROVE  /\ entry'[q].active => entry[q].active
             /\ q \in pending' => q \in pending
             /\ entry'[q].gen = entry[q].gen
  <2>1. CASE p # q
    BY <1>2, <2>1, UserSteps
  <2>2. CASE p = q
    <3>1. pc[q] \notin {"idle", "negotiating", "selected", "asking", "registered"}
      BY DEF ToldInv, ToldOf, Early
    <3>2. (q \in pending' => q \in pending) /\ (pc'[q] # "registered")
      BY <1>2, <2>2, <3>1 DEF UserStep, CallStep, Begin, BeginFinance, Select,
         RefuseToSelect, Register, CheckGeneration, SendRequest, NoTransport, SendFails,
         Resume, Finish, Expire, GraceEnds, Depart, RegisterFinance, WaitUnsent,
         FindClosed, ExpireFinance, LoseInCall, Types, CallTypes, Go, Leave, DropEntry,
         table, HeldAt
    <3>3. (entry'[q].active => entry[q].active) /\ Kept(q)
      BY <1>2, <2>2, <3>1, <3>2, UserEffects DEF UserEffect, Same, Cancels
    <3> QED
      BY <3>2, <3>3 DEF Kept
  <2> QED
    BY <2>1, <2>2
<1>3. CASE UNCHANGED vars
  BY <1>3 DEF vars
<1> QED
  BY <1>1, <1>2, <1>3, Steps

\* Frames that are taken, of the wire or of the queue, are of requests that were sent.
LEMMA Heads ==
  ASSUME Types, FrameInv
  PROVE  /\ wire # <<>> => Head(wire) \in Frame /\ stream[Head(wire).q].asked # 0
         /\ queue # <<>> => Head(queue) \in Frame /\ stream[Head(queue).q].asked # 0
         /\ \A w \in worker : w.frame \in Frame /\ stream[w.frame.q].asked # 0
<1>1. queue # <<>> => Head(queue) = queue[1] /\ 1 \in 1 .. Len(queue) /\ Head(queue) \in Frame
  BY DEF Types, WorkTypes
<1> QED
  BY <1>1, Handled DEF FrameInv, Streamed, FromStream

\* Who comes to fail a request, and how far.
LEMMA FailSource ==
  ASSUME Types, FrameInv, [Next]_vars, NEW f \in failing'
  PROVE  \/ f.at = "cancel" /\ f.q \in Queries /\ stream[f.q].asked # 0
         \/ \E g \in failing : /\ f.q = g.q
                               /\ f = g \/ g.at # "cancel" \/ ~entry'[f.q].active
<1> DEFINE Fresh(p) == \E by \in 0 .. MaxGeneration :
                         failing' = failing \cup {[q |-> p, by |-> by, at |-> "cancel"]}
<1>1. ASSUME NEW p \in Queries, stream[p].asked # 0, failing' = failing \/ Fresh(p)
      PROVE  \/ f.at = "cancel" /\ f.q \in Queries /\ stream[f.q].asked # 0
             \/ f \in failing
  <2>1. CASE f \notin failing
    <3>1. PICK by : f = [q |-> p, by |-> by, at |-> "cancel"]
      BY <1>1, <2>1
    <3> QED
      BY <1>1, <3>1
  <2> QED
    BY <2>1
<1>2. generation \in 0 .. MaxGeneration /\ 0 \in 0 .. MaxGeneration
  BY BoundAssumption DEF Types, LinkTypes, Generations
<1>3. \A h \in Frame : h.q \in Queries
  BY DEF Frame
<1>4. CASE ReceiveFrame
  <2>1. failing' = failing \/ Fresh(Head(wire).q)
    BY <1>2, <1>4 DEF ReceiveFrame, Enqueue
  <2>2. wire # <<>>
    BY <1>4 DEF ReceiveFrame
  <2> QED
    BY <1>1, <1>3, <2>1, <2>2, Heads
<1>5. CASE ReceiveBatch
  <2>1. failing' = failing \/ Fresh(Head(wire).q)
    BY <1>2, <1>5 DEF ReceiveBatch
  <2>2. wire # <<>>
    BY <1>5 DEF ReceiveBatch
  <2> QED
    BY <1>1, <1>3, <2>1, <2>2, Heads
<1>6. CASE WorkerTakes
  <2>1. failing' = failing \/ Fresh(Head(queue).q)
    BY <1>2, <1>6 DEF WorkerTakes, FailInWorker
  <2>2. queue # <<>>
    BY <1>6 DEF WorkerTakes
  <2> QED
    BY <1>1, <1>3, <2>1, <2>2, Heads
<1>7. ASSUME NEW w \in worker, WorkStep(w)
      PROVE  \/ f.at = "cancel" /\ f.q \in Queries /\ stream[f.q].asked # 0
             \/ f \in failing
  <2>1. failing' = failing \/ Fresh(w.frame.q)
    BY <1>2, <1>7 DEF WorkStep, WorkerHandles, WorkerGrants, WorkerResumes, WorkerTells,
       WorkerBreaks, FailInWorker
  <2> QED
    BY <1>1, <1>3, <2>1, Heads
<1>8. ASSUME NEW g \in failing, FailStep(g), f \notin failing
      PROVE  f.q = g.q /\ (g.at # "cancel" \/ ~entry'[f.q].active)
  <2>1. g \in Failing /\ entry \in [Queries -> Entry] /\ entry[g.q] \in Entry /\ g.q \in Queries
    BY DEF Types, WorkTypes, EntryTypes, Failing
  <2>2. \A at : [g EXCEPT !.at = at].q = g.q
    BY <2>1 DEF Failing
  <2>3. \E at : f = [g EXCEPT !.at = at]
    BY <1>8 DEF FailStep, FailCancels, FailResumes, FailTells, FailBreaks, FailGoes
  <2>4. \/ g.at # "cancel"
        \/ entry' = [entry EXCEPT ![g.q].active = FALSE]
    BY <1>8 DEF FailStep, FailCancels, FailResumes, FailTells, FailBreaks, Cancel, Released
  <2> QED
    BY <2>1, <2>2, <2>3, <2>4 DEF Entry
<1>9. CASE LinkStep \/ TeardownStep \/ (\E q \in Queries : ServerStep(q) \/ UserStep(q))
           \/ UNCHANGED vars
  <2>1. failing' = failing
    BY <1>9, UserSteps DEF LinkStep, Break, Open, RestoreFails, Authenticate,
       MarkAuthenticated, FinishRestore, Settle, TeardownStep, CloseTake, CloseReset,
       CloseTransport, CallbackStep, CallbackReset, CallbackTake, Abort, ServerStep,
       ServerSends, ServerFails, RelayFails, decode, vars
  <2> QED
    BY <2>1
<1> QED
  BY <1>4, <1>5, <1>6, <1>7, <1>8, <1>9, Steps DEF OtherStep

\* Every step keeps what is known of the failing.
LEMMA FailInvStep ==
  ASSUME Types, ToldInv, FrameInv, FailInv, [Next]_vars
  PROVE  FailInv'
<1> SUFFICES ASSUME NEW f \in failing'
             PROVE  /\ f.q \in Queries /\ stream'[f.q].asked # 0
                    /\ f.at # "cancel" => ~entry'[f.q].active
  BY DEF FailInv
<1>1. /\ f.q \in Queries /\ stream[f.q].asked # 0
      /\ \/ f.at = "cancel"
         \/ ~entry'[f.q].active
         \/ ~entry[f.q].active
  BY FailSource DEF FailInv
<1>2. stream'[f.q].asked # 0
  BY <1>1, StreamStays DEF Settled
<1>3. entry'[f.q].active => entry[f.q].active
  BY <1>1, AskedStays
<1> QED
  BY <1>1, <1>2, <1>3

\* Where the worker's frame comes from.
LEMMA WorkerSource ==
  ASSUME Types, [Next]_vars
  PROVE  \/ worker' = worker
         \/ worker' = {}
         \/ /\ WorkerTakes /\ worker = {}
            /\ worker' = {[frame |-> Head(queue), at |-> "handle"]}
         \/ \E w \in Work, at \in {"grant", "tell", "callback", "blocked"} :
              /\ WorkStep(w) /\ worker = {w} /\ worker' = {[w EXCEPT !.at = at]}
              /\ at = "grant" => w.frame.kind = "data"
<1>1. CASE LinkStep \/ TeardownStep \/ ReceiveFrame \/ ReceiveBatch \/ UNCHANGED vars
           \/ (\E q \in Queries : ServerStep(q) \/ UserStep(q))
           \/ (\E f \in failing : FailStep(f))
  <2>1. worker' = worker
    BY <1>1, UserSteps DEF LinkStep, Break, Open, RestoreFails, Authenticate,
       MarkAuthenticated, FinishRestore, Settle, TeardownStep, CloseTake, CloseReset,
       CloseTransport, CallbackStep, CallbackReset, CallbackTake, Abort, ServerStep,
       ServerSends, ServerFails, RelayFails, ReceiveFrame, ReceiveBatch, FailStep,
       FailCancels, FailResumes, FailTells, FailBreaks, decode, vars
  <2> QED
    BY <2>1
<1>2. CASE WorkerTakes
  BY <1>2 DEF WorkerTakes, WorkerFree
<1>3. ASSUME NEW w \in worker, WorkStep(w)
      PROVE  \/ worker' = {}
             \/ \E at \in {"grant", "tell", "callback", "blocked"} :
                  /\ worker' = {[w EXCEPT !.at = at]}
                  /\ at = "grant" => w.frame.kind = "data"
  <2>1. CASE WorkerHandles(w)
    BY <2>1 DEF WorkerHandles
  <2>2. CASE WorkerBreaks(w)
    BY <2>2, Calls DEF WorkerBreaks
  <2>3. CASE WorkerGrants(w) \/ WorkerResumes(w) \/ WorkerTells(w)
    BY <2>3 DEF WorkerGrants, WorkerResumes, WorkerTells
  <2> QED
    BY <1>3, <2>1, <2>2, <2>3 DEF WorkStep
<1>4. \A w \in worker : w \in Work /\ worker = {w}
  BY DEF Types, WorkTypes, OneWorker
<1> QED
  BY <1>1, <1>2, <1>3, <1>4, Steps DEF OtherStep

\* Every step keeps it that window is given back for blocks.
LEMMA GrantStep ==
  ASSUME Types, GrantInv, [Next]_vars
  PROVE  GrantInv'
<1> SUFFICES ASSUME NEW v \in worker', v.at = "grant"
             PROVE  v.frame.kind = "data"
  BY DEF GrantInv
<1>1. CASE worker' = worker \/ worker' = {}
  BY <1>1 DEF GrantInv
<1>2. CASE worker' = {[frame |-> Head(queue), at |-> "handle"]}
  BY <1>2
<1>3. ASSUME NEW w \in Work, NEW at, worker' = {[w EXCEPT !.at = at]},
             at = "grant" => w.frame.kind = "data"
      PROVE  v.frame.kind = "data"
  BY <1>3 DEF Work
<1> QED
  BY <1>1, <1>2, <1>3, WorkerSource

\* What is sent next, in V2: a block costs one of the window.
LEMMA NextFlow ==
  ASSUME Types, NEW q \in Queries, NEW m \in NextFrames(q)
  PROVE  /\ m.then.lossy = stream[q].lossy
         /\ m.then.gen # 0 /\ stream[q].version = 2 =>
              /\ m.kind \in {"begin", "data"}
              /\ m.then.credit = stream[q].credit - One(m.kind = "data")
<1> DEFINE r == stream[q]
<1>1. r \in Stream
  BY DEF Types, WireTypes
<1>2. r.version \in {1, 2} /\ r.credit \in Nat
  BY <1>1 DEF Stream
<1>3. CASE r.version = 1
  <2> DEFINE h == IF r.next = r.total THEN 0 ELSE r.gen
             n == r.next + 1
  <2>1. m.then = [r EXCEPT !.next = n, !.gen = h]
    BY <1>3 DEF NextFrames
  <2> HIDE DEF h, n, r
  <2>2. m.then.lossy = r.lossy
    BY <1>1, <2>1 DEF Stream
  <2> QED
    BY <1>3, <2>2 DEF r
<1>4. CASE r.version = 2 /\ r.next = 0
  <2>1. m.kind = "begin" /\ m.then = [r EXCEPT !.next = 1]
    BY <1>4 DEF NextFrames
  <2> HIDE DEF r
  <2>2. m.then.lossy = r.lossy /\ m.then.credit = r.credit
    BY <1>1, <2>1 DEF Stream
  <2> QED
    BY <1>2, <2>1, <2>2 DEF r, One
<1>5. CASE r.version = 2 /\ r.next # 0
  <2> DEFINE n == r.next + 1
             p == r.next - 1
             c == r.credit - 1
  <2>1. \/ m = [kind |-> "end", seq |-> p, then |-> [r EXCEPT !.gen = 0, !.total = p]]
        \/ m = [kind |-> "data", seq |-> r.next, then |-> [r EXCEPT !.next = n, !.credit = c]]
    BY <1>5 DEF NextFrames
  <2> HIDE DEF n, p, c, r
  <2>2. CASE m = [kind |-> "end", seq |-> p, then |-> [r EXCEPT !.gen = 0, !.total = p]]
    <3>1. m.then = [r EXCEPT !.gen = 0, !.total = p]
      BY <2>2
    <3>2. m.then.lossy = r.lossy /\ m.then.gen = 0
      BY <1>1, <3>1 DEF Stream
    <3> QED
      BY <3>2 DEF r
  <2>3. CASE m = [kind |-> "data", seq |-> r.next,
                  then |-> [r EXCEPT !.next = n, !.credit = c]]
    <3>1. m.kind = "data" /\ m.then = [r EXCEPT !.next = n, !.credit = c]
      BY <2>3
    <3>2. m.then.lossy = r.lossy /\ m.then.credit = c
      BY <1>1, <3>1 DEF Stream
    <3> QED
      BY <3>1, <3>2 DEF r, c, One
  <2> QED
    BY <2>1, <2>2, <2>3
<1> QED
  BY <1>2, <1>3, <1>4, <1>5

\* A call that sends no request stops its stream, or leaves it alone.
LEMMA UserStreams ==
  ASSUME Types, NEW p \in Queries, UserStep(p), ~SendRequest(p), NEW q \in Queries,
         stream'[q].gen # 0
  PROVE  stream'[q] = stream[q]
<1>0. /\ stream \in [Queries -> Stream] /\ \A s \in Queries : stream[s] \in Stream
  BY DEF Types, WireTypes
<1>1. \/ stream' = stream
      \/ stream' = [stream EXCEPT ![p].gen = 0]
      \/ stream' = [stream EXCEPT ![p].asked = generation, ![p].gen = 0]
  BY DEF UserStep, CallStep, Begin, BeginFinance, Select, RefuseToSelect, Register,
         CheckGeneration, SendRequest, NoTransport, SendFails, Resume, Finish, Expire,
         GraceEnds, Depart, RegisterFinance, WaitUnsent, FindClosed, ExpireFinance,
         LoseInCall, Stop, Lose, server
<1>2. CASE p = q
  <2>1. \/ stream'[q] = stream[q]
        \/ stream'[q] = [stream[q] EXCEPT !.gen = 0]
        \/ stream'[q] = [stream[q] EXCEPT !.asked = generation, !.gen = 0]
    BY <1>0, <1>1, <1>2
  <2> QED
    BY <1>0, <2>1 DEF Stream
<1>3. CASE p # q
  BY <1>3, UserSteps
<1> QED
  BY <1>2, <1>3

\* A stream that is still served is the one it was.
Continues(q) ==
  /\ stream'[q].asked = stream[q].asked /\ stream'[q].version = stream[q].version
  /\ stream'[q].gen = stream[q].gen
  /\ stream[q].lossy => stream'[q].lossy

LEMMA StreamContinues ==
  ASSUME Types, [Next]_vars, NEW q \in Queries, ~SendRequest(q), stream'[q].gen # 0
  PROVE  Continues(q)
<1>0. /\ stream \in [Queries -> Stream] /\ \A s \in Queries : stream[s] \in Stream
  BY DEF Types, WireTypes
<1>1. CASE LinkStep \/ TeardownStep \/ ReceiveFrame \/ ReceiveBatch \/ WorkerTakes
           \/ UNCHANGED vars
  <2>1. stream' = stream
    BY <1>1 DEF LinkStep, Break, Open, RestoreFails, Authenticate, MarkAuthenticated,
       FinishRestore, Settle, TeardownStep, CloseTake, CloseReset, CloseTransport,
       CallbackStep, CallbackReset, CallbackTake, Abort, ResetSession, ReceiveFrame,
       ReceiveBatch, WorkerTakes, server, vars
  <2> QED
    BY <2>1 DEF Continues
<1>2. ASSUME NEW f \in failing, FailStep(f)
      PROVE  Continues(q)
  <2>1. stream' = stream \/ stream' = [stream EXCEPT ![f.q].gen = 0]
    BY <1>2 DEF FailStep, FailCancels, FailResumes, FailTells, FailBreaks, Stop, server
  <2>2. stream'[q] = stream[q] \/ stream'[q] = [stream[q] EXCEPT !.gen = 0]
    BY <1>0, <2>1
  <2> QED
    BY <1>0, <2>2 DEF Stream, Continues
<1>3. ASSUME NEW w \in worker, WorkStep(w)
      PROVE  Continues(q)
  <2> DEFINE c == stream[w.frame.q].credit + 1
  <2>1. stream' = stream \/ stream' = [stream EXCEPT ![w.frame.q].credit = c]
    BY <1>3 DEF WorkStep, WorkerHandles, WorkerGrants, WorkerResumes, WorkerTells,
         WorkerBreaks, Grant, server
  <2> HIDE DEF c
  <2>2. stream'[q] = stream[q] \/ stream'[q] = [stream[q] EXCEPT !.credit = c]
    BY <1>0, <2>1
  <2> QED
    BY <1>0, <2>2 DEF Stream, Continues
<1>4. ASSUME NEW p \in Queries, ServerStep(p)
      PROVE  Continues(q)
  <2>1. CASE p # q
    BY <1>4, <2>1, ServerSteps DEF Continues
  <2>2. CASE p = q
    <3>1. \/ stream' = [stream EXCEPT ![q].gen = 0]
          \/ \E m \in NextFrames(q) : \/ stream' = [stream EXCEPT ![q] = m.then]
                                      \/ stream' = [stream EXCEPT ![q] =
                                                      [m.then EXCEPT !.lossy = TRUE]]
      BY <1>4, <2>2 DEF ServerStep, ServerSends, ServerFails, RelayFails
    <3>2. CASE stream' = [stream EXCEPT ![q].gen = 0]
      BY <1>0, <3>2 DEF Stream
    <3>3. ASSUME NEW m \in NextFrames(q),
                 \/ stream' = [stream EXCEPT ![q] = m.then]
                 \/ stream' = [stream EXCEPT ![q] = [m.then EXCEPT !.lossy = TRUE]]
          PROVE  Continues(q)
      <4>1. m.then \in Stream
        BY StreamTypes
      <4>2. stream'[q] = m.then \/ stream'[q] = [m.then EXCEPT !.lossy = TRUE]
        BY <1>0, <3>3
      <4>3. /\ stream'[q].asked = m.then.asked /\ stream'[q].version = m.then.version
            /\ stream'[q].gen = m.then.gen
            /\ m.then.lossy => stream'[q].lossy
        BY <4>1, <4>2 DEF Stream
      <4>4. m.then.gen \in {stream[q].gen, 0}
        BY NextFrame, Zenon
      <4> QED
        BY <4>3, <4>4, NextFrame, NextFlow DEF Continues
    <3> QED
      BY <3>1, <3>2, <3>3
  <2> QED
    BY <2>1, <2>2
<1>5. ASSUME NEW p \in Queries, UserStep(p)
      PROVE  Continues(q)
  <2>1. stream'[q] = stream[q]
    <3>1. CASE p = q
      BY <1>5, <3>1, UserStreams
    <3>2. CASE p # q
      BY <1>5, <3>2, UserSteps
    <3> QED
      BY <3>1, <3>2
  <2> QED
    BY <2>1 DEF Continues
<1> QED
  BY <1>1, <1>2, <1>3, <1>4, <1>5, Steps DEF OtherStep

\* Who fails a request goes on until the request was told of it.
LEMMA FailStays ==
  ASSUME Types, [Next]_vars, NEW f \in failing
  PROVE  f.at = "tell" \/ \E g \in failing' : g.q = f.q
<1>1. CASE failing \subseteq failing'
  BY <1>1
<1>2. ASSUME NEW h \in failing, FailStep(h)
      PROVE  f.at = "tell" \/ \E g \in failing' : g.q = f.q
  <2>1. h \in Failing
    BY DEF Types, WorkTypes
  <2>2. \A at : [h EXCEPT !.at = at].q = h.q
    BY <2>1 DEF Failing
  <2>3. \/ failing' = failing \ {h} /\ h.at = "tell"
        \/ \E at : failing' = (failing \ {h}) \cup {[h EXCEPT !.at = at]}
    BY <1>2 DEF FailStep, FailCancels, FailResumes, FailTells, FailBreaks, FailGoes
  <2> QED
    BY <2>2, <2>3
<1>3. CASE ~\E h \in failing : FailStep(h)
  <2>1. failing \subseteq failing'
    <3>1. CASE LinkStep \/ TeardownStep \/ UNCHANGED vars
               \/ \E q \in Queries : ServerStep(q) \/ UserStep(q)
      BY <3>1, UserSteps DEF LinkStep, Break, Open, RestoreFails, Authenticate,
         MarkAuthenticated, FinishRestore, Settle, TeardownStep, CloseTake, CloseReset,
         CloseTransport, CallbackStep, CallbackReset, CallbackTake, Abort, ServerStep,
         ServerSends, ServerFails, RelayFails, decode, vars
    <3>2. CASE ReceiveFrame \/ ReceiveBatch \/ WorkerTakes \/ \E w \in worker : WorkStep(w)
      BY <3>2 DEF ReceiveFrame, Enqueue, ReceiveBatch, WorkerTakes, WorkStep,
         WorkerHandles, WorkerGrants, WorkerResumes, WorkerTells, WorkerBreaks,
         FailInWorker
    <3> QED
      BY <1>3, <3>1, <3>2, Steps DEF OtherStep
  <2> QED
    BY <2>1
<1> QED
  BY <1>2, <1>3, <1>1

\* A stream that runs after a step ran before it, unless the step sent its request.
LEMMA RanBefore ==
  ASSUME Types, ToldInv, StreamInv, FailInv, [Next]_vars, NEW q \in Queries,
         Running(q)', ~SendRequest(q)
  PROVE  Running(q) /\ generation' = generation /\ Continues(q)
<1>0. generation \in Nat \ {0} /\ generation' \in Nat \ {0}
  BY TypesStep, BoundAssumption DEF Types, LinkTypes, Generations
<1>1. /\ entry'[q].active /\ q \in pending' /\ stream'[q].gen = generation'
      /\ stream'[q].asked = entry'[q].gen /\ stream'[q].version = 2 /\ connected'
      /\ ~stream'[q].lossy /\ \A f \in failing' : f.q # q
  BY DEF Running
<1>2. Continues(q)
  BY <1>0, <1>1, StreamContinues
<1>3. stream[q].gen = generation' /\ stream[q].gen <= generation /\ stream[q].asked # 0
  BY <1>0, <1>1, <1>2 DEF Continues, StreamInv, StreamOf
<1>4. generation' = generation /\ connected
  <2>1. CASE Quiet
    BY <1>0, <1>1, <1>3, <2>1 DEF Quiet
  <2>2. ASSUME NEW p \in Queries, ServerStep(p)
        PROVE  generation' = generation /\ connected
    BY <2>2, ServerSteps
  <2>3. ASSUME NEW p \in Queries, UserStep(p)
        PROVE  generation' = generation /\ connected
    BY <1>1, <2>3, UserSteps, UserServes DEF Asks, Leaves
  <2>4. CASE UNCHANGED vars
    BY <1>1, <2>4 DEF vars
  <2> QED
    BY <2>1, <2>2, <2>3, <2>4, Steps, OthersQuiet
<1>5. entry[q].active /\ q \in pending /\ entry'[q].gen = entry[q].gen
  BY <1>1, <1>3, AskedStays
<1>6. \A f \in failing : f.q # q
  <2> SUFFICES ASSUME NEW f \in failing, f.q = q
               PROVE  FALSE
    OBVIOUS
  <2>1. f.at = "tell"
    BY <1>1, FailStays
  <2> QED
    BY <1>5, <2>1 DEF FailInv
<1> QED
  BY <1>1, <1>2, <1>3, <1>4, <1>5, <1>6 DEF Running, Continues

\* Every step keeps it that a request is served on the transport it was sent on.
LEMMA ServedStep ==
  ASSUME Types, ServedInv, [Next]_vars
  PROVE  ServedInv'
<1> SUFFICES ASSUME NEW q \in Queries, stream'[q].gen # 0
             PROVE  stream'[q].gen = stream'[q].asked
  BY DEF ServedInv
<1>1. CASE SendRequest(q)
  BY <1>1 DEF SendRequest, Serve, Types, WireTypes
<1>2. CASE ~SendRequest(q)
  BY <1>2, StreamContinues DEF Continues, ServedInv
<1> QED
  BY <1>1, <1>2

\* The window of a stream and what of it is under way.
Flow(q) == stream'[q].credit + Underway(q)' = stream[q].credit + Underway(q)

\* Whatever leaves the frames and the window of q alone leaves the sum alone.
LEMMA FlowKept ==
  ASSUME NEW q, stream'[q].credit = stream[q].credit, wire' = wire, queue' = queue,
         worker' = worker
  PROVE  Flow(q)
BY Parts DEF Flow

\* What the worker holds is a number.
LEMMA HeldNat ==
  ASSUME Types, NEW q
  PROVE  Held(worker, q) \in Nat
<1>1. CASE worker = {}
  <2>1. Held({}, q) = 0
    BY HeldOne, Zenon
  <2> QED
    BY <1>1, <2>1
<1>2. ASSUME NEW w, worker = {w}
      PROVE  Held(worker, q) \in Nat
  <2>1. Held(worker, q) = One(IsData(w.frame, q))
    BY <1>2, HeldOne
  <2> QED
    BY <2>1 DEF One
<1>3. worker = {} \/ \E w : worker = {w}
  BY DEF Types, WorkTypes, OneWorker
<1> QED
  BY <1>1, <1>2, <1>3

\* The steps of others, and those of the transport.
LEMMA QuietFlow ==
  ASSUME Types, [Next]_vars, NEW q \in Queries, Running(q)', ~SendRequest(q),
         \/ LinkStep \/ TeardownStep \/ UNCHANGED vars
         \/ (\E p \in Queries : UserStep(p))
         \/ (\E f \in failing : FailStep(f))
  PROVE  Flow(q)
<1>0. /\ stream \in [Queries -> Stream] /\ \A s \in Queries : stream[s] \in Stream
      /\ generation' \in Nat \ {0}
  BY TypesStep, BoundAssumption DEF Types, WireTypes, LinkTypes, Generations
<1>1. connected' /\ stream'[q].gen # 0
  BY <1>0 DEF Running
<1>2. CASE LinkStep \/ TeardownStep \/ UNCHANGED vars
  <2>1. stream' = stream /\ wire' = wire /\ queue' = queue /\ worker' = worker
    BY <1>1, <1>2 DEF LinkStep, Break, Open, RestoreFails, Authenticate,
       MarkAuthenticated, FinishRestore, Settle, TeardownStep, CloseTake, CloseReset,
       CloseTransport, CallbackStep, CallbackReset, CallbackTake, Abort, Lose, server,
       decode, vars
  <2> QED
    BY <2>1, FlowKept
<1>3. ASSUME NEW p \in Queries, UserStep(p)
      PROVE  Flow(q)
  <2>1. stream'[q] = stream[q]
    <3>1. CASE p = q
      BY <1>1, <1>3, <3>1, UserStreams
    <3>2. CASE p # q
      BY <1>3, <3>2, UserSteps
    <3> QED
      BY <3>1, <3>2
  <2>2. wire' = wire /\ queue' = queue /\ worker' = worker
    BY <1>1, <1>3, UserServes, UserSteps DEF Asks, Leaves, decode
  <2> QED
    BY <2>1, <2>2, FlowKept
<1>4. ASSUME NEW f \in failing, FailStep(f)
      PROVE  Flow(q)
  <2>1. /\ stream' = stream \/ stream' = [stream EXCEPT ![f.q].gen = 0]
        /\ wire' = wire /\ queue' = queue /\ worker' = worker
    BY <1>1, <1>4 DEF FailStep, FailCancels, FailResumes, FailTells, FailBreaks, Stop,
       Lose, server
  <2>2. stream'[q] = stream[q] \/ stream'[q] = [stream[q] EXCEPT !.gen = 0]
    BY <1>0, <2>1
  <2>3. stream'[q].credit = stream[q].credit
    BY <1>0, <2>2 DEF Stream
  <2> QED
    BY <2>1, <2>3, FlowKept
<1> QED
  BY <1>2, <1>3, <1>4

\* The server spends window on the block it puts on the wire.
LEMMA ServerFlow ==
  ASSUME Types, [Next]_vars, NEW q \in Queries, Running(q), Running(q)',
         NEW p \in Queries, ServerStep(p)
  PROVE  Flow(q)
<1>0. /\ stream \in [Queries -> Stream] /\ \A s \in Queries : stream[s] \in Stream
      /\ wire \in Seq(Frame) /\ queue \in Seq(Frame)
      /\ generation' \in Nat \ {0} /\ stream[q].credit \in Nat
  <2>1. generation' \in Nat \ {0}
    BY TypesStep, BoundAssumption DEF Types, LinkTypes, Generations
  <2>2. stream[q] \in Stream
    BY DEF Types, WireTypes
  <2>3. stream[q].credit \in Nat
    BY <2>2 DEF Stream
  <2> QED
    BY <2>1, <2>3 DEF Types, WireTypes, WorkTypes
<1>1. stream'[q].gen # 0 /\ ~stream'[q].lossy /\ stream[q].version = 2
  BY <1>0 DEF Running
<1>2. queue' = queue /\ worker' = worker
  BY ServerSteps
<1>3. CASE p = q
  <2>1. ServerSends(q)
    <3>1. ~ServerFails(q)
      <4> SUFFICES ASSUME ServerFails(q)
                   PROVE  FALSE
        OBVIOUS
      <4>1. stream' = [stream EXCEPT ![q].gen = 0]
        BY DEF ServerFails
      <4>2. stream'[q].gen = 0
        BY <1>0, <4>1 DEF Stream
      <4> QED
        BY <1>1, <4>2
    <3>2. ~RelayFails(q)
      <4> SUFFICES ASSUME RelayFails(q)
                   PROVE  FALSE
        OBVIOUS
      <4>1. PICK m \in NextFrames(q) : stream' = [stream EXCEPT ![q] =
                                                    [m.then EXCEPT !.lossy = TRUE]]
        BY DEF RelayFails
      <4>2. stream'[q] = [m.then EXCEPT !.lossy = TRUE] /\ m.then \in Stream
        BY <1>0, <4>1, StreamTypes
      <4> QED
        BY <1>1, <4>2 DEF Stream
    <3> QED
      BY <1>3, <3>1, <3>2 DEF ServerStep
  <2>2. PICK m \in NextFrames(q) : /\ wire' = Append(wire, FrameOf(q, m))
                                   /\ stream' = [stream EXCEPT ![q] = m.then]
    BY <2>1 DEF ServerSends, Put
  <2>3. stream'[q] = m.then
    BY <1>0, <2>2
  <2>4. /\ FrameOf(q, m) \in Frame
        /\ IsData(FrameOf(q, m), q) <=> m.kind = "data"
    BY StreamTypes DEF IsData, FrameOf
  <2>5. Count(wire', q) = Count(wire, q) + One(m.kind = "data")
    BY <1>0, <2>2, <2>4, CountAppend DEF One
  <2>6. stream'[q].credit = stream[q].credit - One(m.kind = "data")
    BY <1>1, <2>3, NextFlow
  <2>7. Count(wire, q) \in Nat /\ Count(queue, q) \in Nat /\ One(m.kind = "data") \in Nat
    BY <1>0, BlocksFinite DEF One
  <2>8. Held(worker, q) \in Nat
    BY HeldNat
  <2> QED
    BY <1>0, <1>2, <2>5, <2>6, <2>7, <2>8, Parts DEF Flow
<1>4. CASE p # q
  <2>1. stream'[q] = stream[q]
    BY <1>4, ServerSteps
  <2>2. PICK f \in Frame :
          /\ f.q = p
          /\ wire' \in {wire, Append(wire, f), Append(Append(wire, f), f)}
    BY ServerSteps DEF Sends
  <2>3. ~IsData(f, q) /\ Append(wire, f) \in Seq(Frame) /\ Count(wire, q) \in Nat
    BY <1>0, <1>4, <2>2, BlocksFinite DEF IsData
  <2>4. Count(Append(wire, f), q) = Count(wire, q)
    BY <1>0, <2>3, CountAppend DEF One
  <2>5. Count(Append(Append(wire, f), f), q) = Count(wire, q)
    <3> DEFINE a == Append(wire, f)
    <3>1. a \in Seq(Frame) /\ Count(a, q) = Count(wire, q)
      BY <2>3, <2>4
    <3> HIDE DEF a
    <3>2. Count(Append(a, f), q) = Count(a, q) + 0
      BY <2>3, <3>1, CountAppend DEF One
    <3> QED
      BY <2>3, <3>1, <3>2 DEF a
  <2>6. Count(wire', q) = Count(wire, q)
    BY <2>2, <2>4, <2>5
  <2> QED
    BY <1>2, <2>1, <2>6, Parts DEF Flow
<1> QED
  BY <1>3, <1>4

\* The receive thread passes a block on to the queue, or the request fails.
LEMMA ReceiveFlow ==
  ASSUME Types, CancelInv, StreamInv, ServedInv, FrameInv, NEW q \in Queries,
         Running(q), Running(q)', ReceiveFrame \/ ReceiveBatch
  PROVE  Flow(q)
<1>0. /\ wire \in Seq(Frame) /\ queue \in Seq(Frame) /\ wire # <<>>
      /\ wire' = Tail(wire) /\ Tail(wire) \in Seq(Frame)
      /\ stream' = stream /\ worker' = worker
  <2>1. wire \in Seq(Frame) /\ queue \in Seq(Frame)
    BY DEF Types, WireTypes, WorkTypes
  <2>2. wire # <<>> /\ wire' = Tail(wire) /\ stream' = stream /\ worker' = worker
    BY DEF ReceiveFrame, ReceiveBatch
  <2> QED
    BY <2>1, <2>2
<1> DEFINE h == Head(wire)
<1>1. h \in Frame
  BY <1>0, Heads
<1>2. Count(wire, q) = Count(wire', q) + One(IsData(h, q))
  BY <1>0, CountTail
<1>3. Count(queue', q) = Count(queue, q) + One(IsData(h, q))
  <2>1. Count(queue, q) \in Nat
    BY <1>0, BlocksFinite
  <2>2. CASE queue' = Append(queue, h)
    BY <1>0, <1>1, <2>2, CountAppend
  <2>3. CASE queue' # Append(queue, h)
    <3>1. queue' = queue
      BY <2>3 DEF ReceiveFrame, ReceiveBatch, Enqueue
    <3>2. ~IsData(h, q)
      <4> SUFFICES ASSUME h.q = q, h.kind = "data"
                   PROVE  FALSE
        BY DEF IsData
      <4>1. ReceiveFrame /\ Enqueue(h)
        BY DEF ReceiveFrame, ReceiveBatch
      <4>2. HasEntry(q) /\ entry[q].version = 2 /\ entry[q].gen = generation
        <5>1. stream[q].gen # 0
          BY BoundAssumption DEF Running, Types, LinkTypes, Generations
        <5> QED
          BY <5>1 DEF Running, HasEntry, CancelInv, CancelOf, ServedInv
      <4>3. failing' = failing \cup {[q |-> q, by |-> generation, at |-> "cancel"]}
        BY <2>3, <4>1, <4>2 DEF Enqueue
      <4>4. [q |-> q, by |-> generation, at |-> "cancel"] \in failing'
        BY <4>3
      <4> QED
        BY <4>4 DEF Running
    <3> QED
      BY <2>1, <3>1, <3>2 DEF One
  <2> QED
    BY <2>2, <2>3
<1>4. /\ Count(wire', q) \in Nat /\ Count(queue, q) \in Nat /\ One(IsData(h, q)) \in Nat
      /\ Held(worker, q) \in Nat
  <2>1. Held(worker, q) \in Nat
    BY HeldNat
  <2> QED
    BY <1>0, <2>1, BlocksFinite DEF One
<1> HIDE DEF h
<1>5. Underway(q)' = Underway(q)
  BY <1>0, <1>2, <1>3, <1>4, Parts
<1> QED
  BY <1>0, <1>5 DEF Flow

\* The worker takes a block out of the queue, or the request fails.
LEMMA TakeFlow ==
  ASSUME Types, FrameInv, NEW q \in Queries, Running(q), Running(q)', WorkerTakes
  PROVE  Flow(q)
<1>0. /\ queue \in Seq(Frame) /\ wire \in Seq(Frame) /\ queue # <<>>
      /\ queue' = Tail(queue) /\ Tail(queue) \in Seq(Frame)
      /\ stream' = stream /\ wire' = wire /\ worker = {}
  <2>1. wire \in Seq(Frame) /\ queue \in Seq(Frame)
    BY DEF Types, WireTypes, WorkTypes
  <2>2. /\ queue # <<>> /\ queue' = Tail(queue) /\ stream' = stream /\ wire' = wire
        /\ worker = {}
    BY DEF WorkerTakes, WorkerFree, server
  <2> QED
    BY <2>1, <2>2
<1> DEFINE h == Head(queue)
           v == [frame |-> h, at |-> "handle"]
<1>1. Count(queue, q) = Count(queue', q) + One(IsData(h, q))
  BY <1>0, CountTail
<1>2. Held(worker, q) = 0 /\ Held(worker', q) = One(IsData(h, q))
  <2>1. worker' = {v} \/ worker' = worker
    BY <1>0 DEF WorkerTakes
  <2>2. CASE worker' = {v}
    <3>1. v.frame = h
      OBVIOUS
    <3> HIDE DEF v, h
    <3>2. Held({v}, q) = One(IsData(v.frame, q)) /\ Held({}, q) = 0
      BY HeldOne
    <3> QED
      BY <1>0, <2>2, <3>1, <3>2
  <2>3. CASE worker' = worker /\ worker' # {v}
    <3>1. ~IsData(h, q)
      <4> SUFFICES ASSUME h.q = q
                   PROVE  FALSE
        BY DEF IsData
      <4>1. FailInWorker(q)
        BY <1>0, <2>3 DEF WorkerTakes, Running, HasEntry
      <4>2. [q |-> q, by |-> 0, at |-> "cancel"] \in failing'
        BY <4>1 DEF FailInWorker
      <4> QED
        BY <4>2 DEF Running
    <3> QED
      BY <1>0, <2>3, <3>1, HeldOne DEF One
  <2> QED
    BY <2>1, <2>2, <2>3
<1>3. Count(wire, q) \in Nat /\ Count(queue', q) \in Nat /\ One(IsData(h, q)) \in Nat
  BY <1>0, BlocksFinite DEF One
<1> HIDE DEF h, v
<1>4. Underway(q)' = Underway(q)
  BY <1>0, <1>1, <1>2, <1>3, Parts
<1> QED
  BY <1>0, <1>4 DEF Flow

\* The worker gives back the window of the block it holds, or the request fails.
LEMMA WorkFlow ==
  ASSUME Types, [Next]_vars, FrameInv, GrantInv, NEW q \in Queries, Running(q), Running(q)',
         NEW w \in worker, WorkStep(w)
  PROVE  Flow(q)
<1>0. /\ worker = {w} /\ w \in Work /\ w.frame \in Frame /\ w.frame.q \in Queries
      /\ stream \in [Queries -> Stream] /\ \A s \in Queries : stream[s] \in Stream
      /\ wire \in Seq(Frame) /\ queue \in Seq(Frame) /\ stream[q].credit \in Nat
  <2>1. worker = {w} /\ w \in Work
    BY DEF Types, WorkTypes, OneWorker
  <2> QED
    BY <2>1 DEF Types, WireTypes, WorkTypes, Work, Frame, Stream
<1>1. queue' = queue /\ wire' = wire /\ connected'
  <2>1. connected'
    BY DEF Running
  <2> QED
    BY <2>1 DEF WorkStep, WorkerHandles, WorkerGrants, WorkerResumes, WorkerTells,
       WorkerBreaks, Lose, server
<1>2. ~FailInWorker(q)
  <2>1. [q |-> q, by |-> 0, at |-> "cancel"].q = q
    OBVIOUS
  <2>2. \A f \in failing' : f.q # q
    BY DEF Running
  <2>3. FailInWorker(q) => [q |-> q, by |-> 0, at |-> "cancel"] \in failing'
    BY DEF FailInWorker
  <2> QED
    BY <2>1, <2>2, <2>3
<1>3. /\ Count(wire, q) \in Nat /\ Count(queue, q) \in Nat
      /\ Held(worker, q) = One(IsData(w.frame, q))
  BY <1>0, BlocksFinite, HeldOne
<1>4. ~WorkerBreaks(w)
  BY <1>1 DEF WorkerBreaks, Lose
<1>5. CASE WorkerHandles(w)
  <2>1. stream' = stream
    BY <1>5 DEF WorkerHandles, server
  <2>2. Held(worker', q) = Held(worker, q)
    <3>1. CASE IsData(w.frame, q)
      <4> DEFINE v == [w EXCEPT !.at = "grant"]
      <4>1. worker' = {v}
        BY <1>2, <1>5, <3>1 DEF WorkerHandles, IsData
      <4>2. v.frame = w.frame
        BY <1>0 DEF Work
      <4> HIDE DEF v
      <4>3. Held({v}, q) = One(IsData(v.frame, q))
        BY HeldOne
      <4> QED
        BY <1>3, <4>1, <4>2, <4>3
    <3>2. CASE ~IsData(w.frame, q)
      <4>1. worker' = {} \/ \E at : worker' = {[w EXCEPT !.at = at]}
        BY <1>5 DEF WorkerHandles
      <4>2. \A at : [w EXCEPT !.at = at].frame = w.frame
        BY <1>0 DEF Work
      <4> QED
        BY <1>3, <3>2, <4>1, <4>2, HeldOne DEF One
    <3> QED
      BY <3>1, <3>2
  <2> QED
    BY <1>1, <2>1, <2>2, Parts DEF Flow
<1>6. CASE WorkerGrants(w)
  <2>0. w.frame.kind = "data" /\ worker' = {} /\ Held(worker', q) = 0
    BY <1>6, HeldOne DEF WorkerGrants, GrantInv
  <2>1. CASE w.frame.q = q
    <3>1. stream' = [stream EXCEPT ![q].credit = @ + 1]
      BY <1>2, <1>6, <2>1 DEF WorkerGrants, Grant
    <3>2. stream'[q].credit = stream[q].credit + 1
      BY <1>0, <3>1 DEF Stream
    <3>3. Held(worker, q) = 1
      BY <1>3, <2>0, <2>1 DEF IsData, One
    <3>4. /\ Underway(q) = Count(wire, q) + Count(queue, q) + 1
          /\ Underway(q)' = Count(wire, q) + Count(queue, q) + 0
      BY <1>1, <2>0, <3>3, Parts
    <3> QED
      BY <1>0, <1>3, <3>2, <3>4 DEF Flow
  <2>2. CASE w.frame.q # q
    <3>1. stream'[q] = stream[q]
      BY <1>0, <1>6, <2>2 DEF WorkerGrants, Grant
    <3>2. Held(worker, q) = 0
      BY <1>3, <2>2 DEF IsData, One
    <3> QED
      BY <1>1, <2>0, <3>1, <3>2, Parts DEF Flow
  <2> QED
    BY <2>1, <2>2
<1>7. CASE WorkerResumes(w) \/ WorkerTells(w)
  <2>1. stream' = stream /\ worker' = {} /\ Held(worker', q) = 0
    BY <1>7, HeldOne DEF WorkerResumes, WorkerTells, server
  <2>2. ~IsData(w.frame, q)
    <3>1. CASE WorkerResumes(w)
      BY <1>2, <3>1 DEF WorkerResumes, IsData
    <3>2. CASE WorkerTells(w)
      BY <3>2 DEF WorkerTells, FrameInv, IsData
    <3> QED
      BY <1>7, <3>1, <3>2
  <2>3. Held(worker, q) = 0
    BY <1>3, <2>2 DEF One
  <2> QED
    BY <1>1, <2>1, <2>3, Parts DEF Flow
<1> QED
  BY <1>4, <1>5, <1>6, <1>7 DEF WorkStep

\* A request starts with the whole window, and with nothing under way.
LEMMA StartFlow ==
  ASSUME Types, ToldInv, FrameInv, NEW q \in Queries, SendRequest(q)
  PROVE  stream'[q].credit + Underway(q)' = Window
<1>0. stream \in [Queries -> Stream] /\ stream[q].asked = 0
  BY DEF Types, WireTypes, SendRequest, ToldInv, ToldOf
<1>1. wire' = wire /\ queue' = queue /\ worker' = worker /\ stream'[q].credit = Window
  BY <1>0 DEF SendRequest, Serve, decode
<1>2. Count(wire, q) = 0 /\ Count(queue, q) = 0
  <2>1. \A i \in 1 .. Len(wire) : ~IsData(wire[i], q)
    BY <1>0 DEF FrameInv, FromStream, IsData
  <2>2. \A i \in 1 .. Len(queue) : ~IsData(queue[i], q)
    BY <1>0 DEF FrameInv, Streamed, FromStream, IsData
  <2> QED
    BY <2>1, <2>2, CountNone
<1>3. Held(worker, q) = 0
  <2>1. \A w \in worker : ~IsData(w.frame, q)
    BY <1>0 DEF FrameInv, Streamed, FromStream, IsData
  <2>2. worker = {} \/ \E w \in worker : worker = {w}
    BY DEF Types, WorkTypes, OneWorker
  <2> QED
    BY <2>1, <2>2, HeldOne DEF One
<1> QED
  BY <1>1, <1>2, <1>3, Parts, BoundAssumption

\* Every step keeps the window.
LEMMA FlowStep ==
  ASSUME Types, CancelInv, ToldInv, StreamInv, ServedInv, FrameInv, FailInv, GrantInv,
         FlowInv, [Next]_vars
  PROVE  FlowInv'
<1> SUFFICES ASSUME NEW q \in Queries, Running(q)'
             PROVE  stream'[q].credit + Underway(q)' = Window
  BY DEF FlowInv
<1>1. CASE SendRequest(q)
  BY <1>1, StartFlow
<1>2. CASE ~SendRequest(q)
  <2>1. Running(q)
    BY <1>2, RanBefore
  <2>2. Flow(q)
    BY <1>2, <2>1, QuietFlow, ServerFlow, ReceiveFlow, TakeFlow, WorkFlow, Steps
       DEF OtherStep
  <2> QED
    BY <2>1, <2>2 DEF Flow, FlowInv
<1> QED
  BY <1>1, <1>2

\* Window is neither lost nor invented while a stream runs, however its frames, its
\* grants, a failing thread and the loss of the transport interleave: what the server
\* may still send and what is under way add up to the initial window.
THEOREM WindowsAreKept == Spec => []WindowIsKept
<1> DEFINE Inv == /\ TableInv /\ CancelInv /\ WorkerInv /\ LossInv /\ ToldInv
                  /\ StreamInv /\ ServedInv /\ FrameInv /\ FailInv /\ GrantInv /\ FlowInv
<1>1. Init => Inv
  <2> SUFFICES ASSUME Init
               PROVE  Inv
    OBVIOUS
  <2>1. TableInv /\ WorkerInv /\ LossInv
    BY BoundAssumption DEF Init, TableInv, WorkerInv, LossInv, Generations
  <2>2. /\ \A q \in Queries : entry[q] = NoEntry /\ cancels[q] = 0 /\ stream[q] = NoStream
        /\ wire = <<>> /\ queue = <<>> /\ worker = {} /\ failing = {} /\ pending = {}
        /\ generation = 1 /\ \A q \in Queries : pc[q] = "idle"
    BY DEF Init
  <2>3. /\ NoEntry.version = 1 /\ ~NoEntry.active /\ ~NoEntry.event /\ NoEntry.got = <<>>
        /\ NoStream.asked = 0 /\ NoStream.gen = 0 /\ NoStream.version = 1
        /\ NoStream.next = 0 /\ NoStream.total = 0
    BY DEF NoEntry, NoStream
  <2>4. CancelInv /\ ToldInv
    BY <2>2, <2>3, Calls DEF CancelInv, CancelOf, ToldInv, ToldOf
  <2>5. StreamInv /\ FrameInv
    BY <2>2, <2>3 DEF StreamInv, StreamOf, FrameInv
  <2>6. ServedInv /\ FailInv /\ GrantInv /\ FlowInv
    BY <2>2, <2>3 DEF ServedInv, FailInv, GrantInv, FlowInv, Running
  <2> QED
    BY <2>1, <2>4, <2>5, <2>6
<1>2. Types /\ Inv /\ [Next]_vars => Inv'
  BY TableStep, CancelStep, WorkerInvStep, LossStep, ToldStep, StreamStep, ServedStep,
     FrameStep, FailInvStep, GrantStep, FlowStep
<1>3. Inv => WindowIsKept
  BY DEF FlowInv, Running, WindowIsKept
<1> QED
  BY <1>1, <1>2, <1>3, TypesHold, PTL DEF Spec

-----------------------------------------------------------------------------
(***************************************************************************)
(* HistoryAnswer, what a user may rely on.                                 *)
(***************************************************************************)

\* An error is never taken back.
LEMMA ErrorStays ==
  ASSUME Types, [Next]_vars, NEW q \in Queries, entry[q].error # "none"
  PROVE  entry'[q].error # "none"
<1>1. CASE OtherStep
  BY <1>1, LinkEffect, TeardownEffect, FrameEffect, BatchEffect, FailEffect, WorkEffect
     DEF OtherStep, Same
<1>2. ASSUME NEW p \in Queries, UserStep(p)
      PROVE  entry'[q].error # "none"
  BY <1>2, UserSteps, UserEffects DEF UserEffect, Same
<1>3. CASE UNCHANGED vars
  BY <1>3 DEF vars
<1> QED
  BY <1>1, <1>2, <1>3, Steps

\* A call has an outcome from the moment it is decided to leave, and only then; a
\* finance call whose send failed does not know of it.
OutcomeOf(q) ==
  outcome[q] # "none" <=> \/ pc[q] \in {"leaving", "done"}
                          \/ pc[q] \in {"callback", "blocked"} /\ ~IsFinance(q)

\* The server does not know how long an answer is before it is asked, and in V2 not
\* before it has sent it.
TotalOf(q) ==
  (stream[q].asked = 0 \/ (stream[q].version = 2 /\ stream[q].gen # 0))
    => stream[q].total = 0

\* Nobody tells a call that has not registered.
UntoldOf(q) ==
  pc[q] \in Early => /\ ~entry[q].event
                     /\ \A h \in 0 .. MaxGeneration : q \notin aborting[h]

PromiseInv == \A q \in Queries : OutcomeOf(q) /\ TotalOf(q) /\ UntoldOf(q)

\* What a step of a call does to its outcome: nothing yet, the result that was told, an
\* error, or a timeout.
GoesOn(q) ==
  /\ outcome'[q] = outcome[q] /\ pc'[q] # "idle"
  /\ outcome[q] = "none" => pc'[q] # "done"

Finishes(q) ==
  /\ outcome[q] = "none" /\ pc[q] # "idle" /\ entry[q].event
  /\ outcome'[q] = IF entry[q].error = "aborted" THEN "disconnected"
                   ELSE IF entry[q].error = "failed" THEN "failed" ELSE "rows"

Raises(q) ==
  /\ outcome[q] = "none" /\ pc[q] \in {"negotiating", "registered", "checked"}
  /\ outcome'[q] \in {"disconnected", "failed"}

TimesOut(q) ==
  /\ outcome[q] = "none" /\ pc[q] # "idle"
  /\ pc[q] = "negotiating" \/ ~entry[q].event
  /\ outcome'[q] = "timeout"

\* The outcome of a call is decided once, by one of these.
LEMMA UserOutcomes ==
  ASSUME Types, NEW q \in Queries, OutcomeOf(q), UserStep(q)
  PROVE  /\ OutcomeOf(q)' /\ pc[q] # "done"
         /\ GoesOn(q) \/ Finishes(q) \/ Raises(q) \/ TimesOut(q)
<1>0. /\ outcome \in [Queries -> Outcomes] /\ pc \in [Queries -> Points]
      /\ entry[q] \in Entry
      /\ entry[q].error \in {"none", "aborted", "failed"}
  BY DEF Types, CallTypes, EntryTypes, Entry
<1>1. CASE Begin(q)
  <2>1. pc[q] = "idle" /\ pc'[q] = "negotiating" /\ outcome' = outcome
    BY <1>0, <1>1 DEF Begin, Go
  <2> QED
    BY <2>1 DEF OutcomeOf, GoesOn
<1>2. CASE BeginFinance(q)
  <2>1. pc[q] = "idle" /\ pc'[q] = "asking" /\ outcome' = outcome
    BY <1>0, <1>2 DEF BeginFinance, Go
  <2> QED
    BY <2>1 DEF OutcomeOf, GoesOn
<1>3. CASE Select(q)
  <2>1. pc[q] = "negotiating" /\ pc'[q] = "selected" /\ outcome' = outcome
    BY <1>0, <1>3 DEF Select, Go
  <2> QED
    BY <2>1 DEF OutcomeOf, GoesOn
<1>4. CASE Register(q) \/ RegisterFinance(q) \/ WaitUnsent(q) \/ SendRequest(q)
  <2>1. /\ pc[q] \in {"selected", "asking", "checked"}
        /\ pc'[q] \in {"registered", "checked", "waiting"}
        /\ outcome' = outcome
    BY <1>0, <1>4 DEF Register, RegisterFinance, WaitUnsent, SendRequest, Go
  <2> QED
    BY <2>1 DEF OutcomeOf, GoesOn
<1>5. CASE RefuseToSelect(q)
  <2>1. /\ pc[q] = "negotiating" /\ pc'[q] = "done"
        /\ outcome'[q] \in {"disconnected", "timeout"}
    BY <1>0, <1>5 DEF RefuseToSelect, Go
  <2> QED
    BY <2>1 DEF OutcomeOf, Raises, TimesOut
<1>6. CASE CheckGeneration(q) \/ NoTransport(q) \/ FindClosed(q)
  <2>1. \/ /\ pc[q] = "registered" /\ pc'[q] = "checked" /\ outcome' = outcome
        \/ /\ pc[q] \in {"registered", "checked"} /\ pc'[q] \in {"leaving", "done"}
           /\ outcome'[q] \in {"disconnected", "failed"}
    BY <1>0, <1>6 DEF CheckGeneration, NoTransport, FindClosed, Leave, Go
  <2> QED
    BY <2>1 DEF OutcomeOf, GoesOn, Raises
<1>7. CASE SendFails(q)
  <2>1. /\ pc[q] = "checked" /\ pc'[q] \in {"callback", "blocked"}
        /\ outcome'[q] = IF IsFinance(q) THEN "none" ELSE "disconnected"
        /\ entry' = entry
    BY <1>0, <1>7, Calls DEF SendFails, LoseInCall, Go
  <2> QED
    BY <2>1 DEF OutcomeOf, GoesOn, Raises, IsFinance
<1>8. CASE Resume(q)
  <2>1. /\ pc[q] \in {"callback", "blocked"} /\ outcome' = outcome
        /\ pc'[q] = IF IsFinance(q) THEN "waiting" ELSE "leaving"
    BY <1>0, <1>8 DEF Resume, Go, Released
  <2> QED
    BY <2>1 DEF OutcomeOf, GoesOn
<1>9. CASE Finish(q)
  <2>1. /\ pc[q] \in {"waiting", "grace"} /\ pc'[q] = "done" /\ entry[q].event
        /\ outcome'[q] = CASE entry[q].error = "aborted" -> "disconnected"
                           [] entry[q].error = "failed"  -> "failed"
                           [] OTHER                      -> "rows"
    BY <1>0, <1>9 DEF Finish, Go
  <2>2. outcome'[q] = IF entry[q].error = "aborted" THEN "disconnected"
                      ELSE IF entry[q].error = "failed" THEN "failed" ELSE "rows"
    BY <2>1
  <2> QED
    BY <2>1, <2>2 DEF OutcomeOf, Finishes
<1>10. CASE Expire(q)
  <2>1. /\ pc[q] = "waiting" /\ ~entry[q].event /\ ~IsFinance(q)
        /\ \/ pc'[q] \in {"leaving", "callback", "blocked"} /\ outcome'[q] = "timeout"
           \/ pc'[q] = "grace" /\ outcome' = outcome
    BY <1>0, <1>10, Calls DEF Expire, Leave, LoseInCall, Go
  <2>2. entry'[q].version = entry[q].version
    <3>1. entry' = entry \/ entry' = [entry EXCEPT ![q].active = FALSE]
      BY <1>10 DEF Expire, Cancel, table
    <3> QED
      BY <1>0, <3>1 DEF Types, EntryTypes, Entry
  <2> QED
    BY <2>1, <2>2 DEF OutcomeOf, GoesOn, TimesOut, IsFinance
<1>11. CASE GraceEnds(q) \/ ExpireFinance(q)
  <2>1. /\ pc[q] \in {"waiting", "grace"} /\ ~entry[q].event
        /\ pc'[q] \in {"leaving", "done"} /\ outcome'[q] = "timeout"
    BY <1>0, <1>11 DEF GraceEnds, ExpireFinance, Leave, Go
  <2> QED
    BY <2>1 DEF OutcomeOf, TimesOut
<1>12. CASE Depart(q)
  <2>1. pc[q] = "leaving" /\ pc'[q] = "done" /\ outcome' = outcome
    BY <1>0, <1>12 DEF Depart, Go
  <2> QED
    BY <2>1 DEF OutcomeOf, GoesOn
<1> QED
  BY <1>1, <1>2, <1>3, <1>4, <1>5, <1>6, <1>7, <1>8, <1>9, <1>10, <1>11, <1>12
     DEF UserStep, CallStep

\* What a call knows of its outcome is kept by every step.
LEMMA OutcomeStep ==
  ASSUME Types, [Next]_vars, NEW q \in Queries, OutcomeOf(q)
  PROVE  OutcomeOf(q)'
<1>1. CASE OtherStep
  BY <1>1, OtherSteps DEF OutcomeOf, IsFinance, Kept
<1>2. ASSUME NEW p \in Queries, UserStep(p)
      PROVE  OutcomeOf(q)'
  BY <1>2, UserSteps, UserOutcomes DEF OutcomeOf, IsFinance
<1>3. CASE UNCHANGED vars
  BY <1>3 DEF vars, OutcomeOf, IsFinance
<1> QED
  BY <1>1, <1>2, <1>3, Steps

\* The length of an answer is learnt once.
LEMMA TotalStep ==
  ASSUME Types, StreamInv, ToldInv, [Next]_vars, NEW q \in Queries, TotalOf(q)
  PROVE  TotalOf(q)'
<1>0. StreamOf(q) /\ ToldOf(q) /\ generation \in Nat \ {0} /\ stream[q].version \in {1, 2}
  <2>1. stream[q] \in Stream
    BY DEF Types, WireTypes
  <2> QED
    BY <2>1, BoundAssumption DEF StreamInv, ToldInv, Types, LinkTypes, Generations, Stream
<1>1. CASE Quiet
  BY <1>0, <1>1 DEF Quiet, TotalOf, StreamOf
<1>2. ASSUME NEW p \in Queries, ServerStep(p)
      PROVE  TotalOf(q)'
  <2>1. CASE p # q
    BY <1>2, <2>1, ServerSteps DEF TotalOf
  <2>2. CASE p = q
    <3>1. PICK f \in Frame : Sends(q, f)
      BY <1>2, <2>2, ServerSteps
    <3>2. stream[q].gen = generation
      BY <1>2, <2>2, ServerSteps
    <3> QED
      BY <1>0, <3>1, <3>2 DEF Sends, TotalOf, StreamOf
  <2> QED
    BY <2>1, <2>2
<1>3. ASSUME NEW p \in Queries, UserStep(p)
      PROVE  TotalOf(q)'
  <2>1. CASE p # q
    BY <1>3, <2>1, UserSteps DEF TotalOf
  <2>2. CASE p = q /\ Asks(q)
    BY <1>0, <2>2 DEF Asks, TotalOf
  <2>3. CASE p = q /\ Leaves(q)
    BY <1>0, <2>3 DEF Leaves, TotalOf, StreamOf
  <2> QED
    BY <1>3, <2>1, <2>2, <2>3, UserServes
<1>4. CASE UNCHANGED vars
  BY <1>4 DEF vars, TotalOf
<1> QED
  BY <1>1, <1>2, <1>3, <1>4, Steps, OthersQuiet

\* An event comes to a call that is in the table, or that somebody took from it.
LEMMA Telling ==
  ASSUME Types, OtherStep, NEW q \in Queries, ~entry[q].event, entry'[q].event
  PROVE  q \in pending \/ \E h \in 0 .. MaxGeneration : q \in aborting[h]
<1>1. CASE LinkStep \/ ReceiveFrame \/ WorkerTakes \/ \E p \in Queries : ServerStep(p)
  BY <1>1, LinkEffect, FrameEffect DEF Same
<1>2. CASE TeardownStep
  <2>1. CASE entry' \in {entry, Outdated}
    <3>1. entry[q] \in Entry
      BY DEF Types, EntryTypes
    <3>2. entry'[q].event = entry[q].event
      <4>1. entry'[q] = entry[q] \/ entry'[q] = [entry[q] EXCEPT !.cap = FALSE]
        BY <2>1 DEF Outdated
      <4> QED
        BY <3>1, <4>1 DEF Entry
    <3> QED
      BY <3>2
  <2>2. ASSUME NEW h \in 0 .. MaxGeneration, NEW p \in Queries, Abort(h, p)
        PROVE  \E k \in 0 .. MaxGeneration : q \in aborting[k]
    <3>1. p = q
      BY <2>2 DEF Abort, Types, EntryTypes
    <3> QED
      BY <2>2, <3>1 DEF Abort
  <2>3. CASE CloseTake \/ CloseReset \/ CloseTransport
    BY <2>1, <2>3 DEF CloseTake, CloseReset, CloseTransport, ResetSession, table
  <2>4. ASSUME NEW g \in Generations, CallbackReset(g) \/ CallbackTake(g)
        PROVE  entry' \in {entry, Outdated}
    BY <2>4 DEF CallbackReset, CallbackTake, ResetSession
  <2> QED
    BY <1>2, <2>1, <2>2, <2>3, <2>4 DEF TeardownStep, CallbackStep
<1>3. CASE ReceiveBatch
  BY <1>3, BatchEffect DEF Same
<1>4. ASSUME NEW f \in failing, FailStep(f)
      PROVE  q \in pending
  <2>1. entry' # entry /\ entry'[q] # entry[q]
    OBVIOUS
  <2>2. CASE FailTells(f)
    <3>1. f.q = q
      BY <2>1, <2>2 DEF FailTells, Types, EntryTypes, table
    <3> QED
      BY <2>1, <2>2, <3>1 DEF FailTells, HasEntry
  <2>3. CASE ~FailTells(f)
    <3>1. entry' = entry \/ entry' = [entry EXCEPT ![f.q].active = FALSE]
      BY <1>4, <2>3 DEF FailStep, FailCancels, FailResumes, FailBreaks, Cancel, table
    <3>2. entry[q] \in Entry /\ entry \in [Queries -> Entry]
      BY DEF Types, EntryTypes
    <3>3. entry'[q].event = entry[q].event
      BY <3>1, <3>2 DEF Entry
    <3> QED
      BY <3>3
  <2> QED
    BY <2>2, <2>3
<1>5. ASSUME NEW w \in worker, WorkStep(w)
      PROVE  q \in pending
  BY <1>5, WorkEffect DEF Same
<1> QED
  BY <1>1, <1>2, <1>3, <1>4, <1>5 DEF OtherStep

\* Nobody takes a call that is not in the table.
LEMMA Taking ==
  ASSUME Types, [Next]_vars, NEW q \in Queries, NEW h \in 0 .. MaxGeneration,
         q \notin aborting[h], q \in aborting'[h]
  PROVE  OtherStep /\ q \in pending
<1>0. /\ aborting \in [0 .. MaxGeneration -> SUBSET Queries]
      /\ Generations \subseteq 0 .. MaxGeneration /\ 0 \in 0 .. MaxGeneration
  BY BoundAssumption DEF Types, TeardownTypes, Generations
<1>1. CASE UNCHANGED vars \/ \E p \in Queries : UserStep(p)
  BY <1>1, UserSteps DEF vars
<1>2. CASE OtherStep
  <2>1. ASSUME NEW g \in Generations, CallbackTake(g)
        PROVE  q \in pending
    BY <1>0, <2>1 DEF CallbackTake, TakePending
  <2>2. CASE CloseTake
    BY <1>0, <1>2, <2>2 DEF CloseTake, TakePending
  <2>3. ASSUME NEW g \in 0 .. MaxGeneration, NEW p \in Queries, Abort(g, p)
        PROVE  FALSE
    BY <1>0, <2>3 DEF Abort
  <2>4. CASE aborting' = aborting
    BY <2>4
  <2>5. \/ aborting' = aborting
        \/ CloseTake
        \/ \E g \in Generations : CallbackTake(g)
        \/ \E g \in 0 .. MaxGeneration, p \in Queries : Abort(g, p)
    BY <1>2 DEF OtherStep, LinkStep, Break, Open, RestoreFails, Authenticate,
       MarkAuthenticated, FinishRestore, Settle, TeardownStep, CloseReset,
       CloseTransport, CallbackStep, CallbackReset, ReceiveFrame, ReceiveBatch,
       WorkerTakes, ServerStep, ServerSends, ServerFails, RelayFails, FailStep,
       FailCancels, FailResumes, FailTells, FailBreaks, WorkStep, WorkerHandles,
       WorkerGrants, WorkerResumes, WorkerTells, WorkerBreaks, Lose, teardown
  <2> QED
    BY <1>2, <2>1, <2>2, <2>3, <2>4, <2>5
<1> QED
  BY <1>1, <1>2, Steps

\* So nobody tells or takes a call before it registers.
LEMMA UntoldStep ==
  ASSUME Types, TableInv, [Next]_vars, NEW q \in Queries, OutcomeOf(q), UntoldOf(q)
  PROVE  UntoldOf(q)'
<1> SUFFICES ASSUME pc'[q] \in Early
             PROVE  /\ ~entry'[q].event
                    /\ \A h \in 0 .. MaxGeneration : q \notin aborting'[h]
  BY DEF UntoldOf
<1>1. pc[q] \in Early
  <2>1. ASSUME UserStep(q)
        PROVE  pc[q] \in Early
    BY <2>1, Calls DEF Early, UserStep, CallStep, Begin, BeginFinance, Select,
       RefuseToSelect, Register, CheckGeneration, SendRequest, NoTransport, SendFails,
       Resume, Finish, Expire, GraceEnds, Depart, RegisterFinance, WaitUnsent, FindClosed,
       ExpireFinance, LoseInCall, Types, CallTypes, Go, Leave, call
  <2>2. CASE \A p \in Queries \ {q} : ~UserStep(p)
    BY <2>1, <2>2, OtherSteps, Steps DEF vars
  <2>3. ASSUME NEW p \in Queries \ {q}, UserStep(p)
        PROVE  pc[q] \in Early
    BY <2>3, UserSteps
  <2> QED
    BY <2>2, <2>3
<1>2. /\ q \notin pending /\ ~entry[q].event
      /\ \A h \in 0 .. MaxGeneration : q \notin aborting[h]
  BY <1>1 DEF UntoldOf, TableInv, Early, InCall
<1>3. \A h \in 0 .. MaxGeneration : q \notin aborting'[h]
  BY <1>2, Taking
<1>4. ~entry'[q].event
  <2>1. CASE OtherStep
    BY <1>2, <2>1, Telling
  <2>2. ASSUME NEW p \in Queries, UserStep(p)
        PROVE  entry'[q].event = entry[q].event
    BY <2>2, UserSteps, UserEffects DEF UserEffect, Same
  <2>3. CASE UNCHANGED vars
    BY <1>2, <2>3 DEF vars
  <2> QED
    BY <1>2, <2>1, <2>2, <2>3, Steps
<1> QED
  BY <1>3, <1>4

\* The invariant is inductive.
LEMMA PromiseInvStep ==
  ASSUME Types, AnswersInv, PromiseInv, [Next]_vars
  PROVE  PromiseInv'
<1> SUFFICES ASSUME NEW q \in Queries
             PROVE  (OutcomeOf(q) /\ TotalOf(q) /\ UntoldOf(q))'
  BY DEF PromiseInv
<1>1. OutcomeOf(q) /\ TotalOf(q) /\ UntoldOf(q)
  BY DEF PromiseInv
<1>2. TableInv /\ StreamInv /\ ToldInv
  BY DEF AnswersInv
<1> QED
  BY <1>1, <1>2, OutcomeStep, TotalStep, UntoldStep

\* What a call is to its user, before and after a step.
LEMMA CallStatusIs ==
  ASSUME NEW q \in Queries
  PROVE  /\ CallStatus[q] = IF outcome[q] # "none" \/ pc[q] = "done" THEN outcome[q]
                            ELSE IF entry[q].event
                            THEN IF entry[q].error = "none" THEN "told" ELSE "refused"
                            ELSE IF pc[q] = "idle" THEN "idle" ELSE "open"
         /\ CallStatus'[q] = IF outcome'[q] # "none" \/ pc'[q] = "done" THEN outcome'[q]
                             ELSE IF entry'[q].event
                             THEN IF entry'[q].error = "none" THEN "told" ELSE "refused"
                             ELSE IF pc'[q] = "idle" THEN "idle" ELSE "open"
BY DEF CallStatus

\* What a call is given is the whole answer, or nothing yet.
LEMMA GivenIs ==
  ASSUME Types, Types', WakesDecided, WakesDecided', NEW q \in Queries
  PROVE  /\ Given[q] = IF CallStatus[q] \in {"told", "rows"} THEN Promise!Whole(q) ELSE <<>>
         /\ Given'[q] = IF CallStatus'[q] \in {"told", "rows"}
                        THEN [i \in 1 .. stream'[q].total |-> i] ELSE <<>>
<1>1. /\ outcome[q] \in {"none", "rows", "disconnected", "failed", "timeout"}
      /\ outcome'[q] \in {"none", "rows", "disconnected", "failed", "timeout"}
  BY DEF Types, CallTypes, Outcomes
<1>2. /\ CallStatus[q] \in {"told", "rows"} =>
           (entry[q].event /\ entry[q].error = "none") \/ outcome[q] = "rows"
      /\ CallStatus'[q] \in {"told", "rows"} =>
           (entry'[q].event /\ entry'[q].error = "none") \/ outcome'[q] = "rows"
  BY <1>1, CallStatusIs
<1>3. /\ CallStatus[q] \in {"told", "rows"} => entry[q].got = [i \in 1 .. stream[q].total |-> i]
      /\ CallStatus'[q] \in {"told", "rows"} =>
           entry'[q].got = [i \in 1 .. stream'[q].total |-> i]
  BY <1>2 DEF WakesDecided, AllBlocks
<1>4. Promise!Whole(q) = [i \in 1 .. stream[q].total |-> i]
  BY DEF Promise!Whole, Totals
<1>5. /\ Given[q] = IF CallStatus[q] \in {"told", "rows"} THEN entry[q].got ELSE <<>>
      /\ Given'[q] = IF CallStatus'[q] \in {"told", "rows"} THEN entry'[q].got ELSE <<>>
  BY DEF Given
<1> QED
  BY <1>3, <1>4, <1>5

\* What may become of a call.
Goes(q, s) == CallStatus'[q] = s /\ stream'[q].total = stream[q].total

Decides(q) ==
  /\ CallStatus'[q] = CallStatus[q] /\ CallStatus[q] \notin {"idle", "told", "rows"}
  /\ stream[q].total = 0 /\ stream'[q].total \in Nat

Turns(q) ==
  \/ Goes(q, CallStatus[q])
  \/ Decides(q)
  \/ CallStatus[q] = "idle" /\ Goes(q, "open")
  \/ CallStatus[q] = "open" /\ Goes(q, "told")
  \/ CallStatus[q] \in {"open", "told"} /\ Goes(q, "refused")
  \/ CallStatus[q] = "told" /\ Goes(q, "rows")
  \/ CallStatus[q] = "refused" /\ \E e \in {"disconnected", "failed"} : Goes(q, e)
  \/ CallStatus[q] = "open" /\ \E e \in {"disconnected", "failed", "timeout"} : Goes(q, e)

\* It is what HistoryAnswer allows.
LEMMA TurnsMove ==
  ASSUME Types, Types', WakesDecided, WakesDecided', NEW q \in Queries, Turns(q)
  PROVE  Promise!Move(q)
<1>1. Totals[q] = stream[q].total /\ Totals'[q] = stream'[q].total
  BY DEF Totals
<1>2. stream'[q].total = stream[q].total =>
        [i \in 1 .. stream'[q].total |-> i] = Promise!Whole(q)
  BY DEF Promise!Whole, Totals
<1>3. CASE Goes(q, CallStatus[q])
  <2>1. Given'[q] = Given[q]
    BY <1>2, <1>3, GivenIs DEF Goes
  <2> QED
    BY <1>1, <1>3, <2>1 DEF Goes, Promise!Move, Promise!Stay, Promise!Becomes
<1>4. CASE Decides(q)
  <2>1. Given'[q] = Given[q]
    BY <1>4, GivenIs DEF Decides
  <2> QED
    BY <1>1, <1>4, <2>1 DEF Decides, Promise!Move, Promise!Decide
<1>5. CASE CallStatus[q] = "idle" /\ Goes(q, "open")
  <2>1. Given'[q] = Given[q]
    BY <1>5, GivenIs DEF Goes
  <2> QED
    BY <1>1, <1>5, <2>1 DEF Goes, Promise!Move, Promise!Ask, Promise!Becomes
<1>6. CASE CallStatus[q] = "open" /\ Goes(q, "told")
  <2>1. Given'[q] = Promise!Whole(q)
    BY <1>2, <1>6, GivenIs DEF Goes
  <2> QED
    BY <1>1, <1>6, <2>1 DEF Goes, Promise!Move, Promise!Tell, Promise!Becomes
<1>7. CASE CallStatus[q] \in {"open", "told"} /\ Goes(q, "refused")
  <2>1. Given'[q] = <<>>
    BY <1>7, GivenIs DEF Goes
  <2> QED
    BY <1>1, <1>7, <2>1 DEF Goes, Promise!Move, Promise!Refuse, Promise!Becomes
<1>8. CASE CallStatus[q] = "told" /\ Goes(q, "rows")
  <2>1. Given'[q] = Given[q]
    BY <1>2, <1>8, GivenIs DEF Goes
  <2> QED
    BY <1>1, <1>8, <2>1 DEF Goes, Promise!Move, Promise!Return, Promise!Becomes
<1>9. CASE CallStatus[q] = "refused" /\ \E e \in {"disconnected", "failed"} : Goes(q, e)
  <2>1. Given'[q] = Given[q]
    BY <1>9, GivenIs DEF Goes
  <2> QED
    BY <1>1, <1>9, <2>1 DEF Goes, Promise!Move, Promise!Raise, Promise!Becomes,
                            Promise!Errors
<1>10. CASE /\ CallStatus[q] = "open"
            /\ \E e \in {"disconnected", "failed", "timeout"} : Goes(q, e)
  <2>1. Given'[q] = Given[q]
    BY <1>10, GivenIs DEF Goes
  <2> QED
    BY <1>1, <1>10, <2>1 DEF Goes, Promise!Move, Promise!GiveUp, Promise!Becomes,
                             Promise!Errors
<1> QED
  BY <1>3, <1>4, <1>5, <1>6, <1>7, <1>8, <1>9, <1>10 DEF Turns

\* The server turns a call at most by learning how long its answer is.
LEMMA ServerTurns ==
  ASSUME Types, AnswersInv, PromiseInv, NEW q \in Queries, ServerStep(q)
  PROVE  Goes(q, CallStatus[q]) \/ Decides(q)
<1>1. /\ stream[q].gen = generation
      /\ entry' = entry /\ outcome' = outcome /\ pc' = pc
      /\ \E f \in Frame : Sends(q, f)
  BY ServerSteps
<1>2. CallStatus' = CallStatus
  BY <1>1 DEF CallStatus
<1>3. PICK f \in Frame : Sends(q, f)
  BY <1>1
<1>4. stream'[q].total = stream[q].total \/ (stream[q].version = 2 /\ stream'[q].total = f.seq)
  BY <1>3 DEF Sends
<1>5. CASE stream'[q].total = stream[q].total
  BY <1>2, <1>5 DEF Goes
<1>6. CASE stream[q].version = 2 /\ stream'[q].total = f.seq
  <2>1. generation # 0 /\ f.seq \in Nat
    BY BoundAssumption DEF Types, LinkTypes, Generations, Frame
  <2>2. stream[q].total = 0
    BY <1>1, <1>6, <2>1 DEF PromiseInv, TotalOf
  <2>3. StreamOf(q) /\ ToldOf(q) /\ AnswerOf(q)
    BY DEF AnswersInv, StreamInv, ToldInv, AnswerInv
  <2>4. pc[q] # "idle"
    BY <1>1, <1>6, <2>1, <2>3 DEF StreamOf, ToldOf, Early
  <2>5. ~((entry[q].event /\ entry[q].error = "none") \/ outcome[q] = "rows")
    BY <1>1, <1>6, <2>1, <2>3 DEF AnswerOf
  <2>6. outcome[q] \in {"none", "rows", "disconnected", "failed", "timeout"}
    BY DEF Types, CallTypes, Outcomes
  <2>7. CallStatus[q] \notin {"idle", "told", "rows"}
    BY <2>4, <2>5, <2>6, CallStatusIs
  <2> QED
    BY <1>2, <1>6, <2>1, <2>2, <2>7 DEF Decides
<1> QED
  BY <1>4, <1>5, <1>6

\* A step of another thread tells a call, or overtakes what it was told.
LEMMA OtherTurns ==
  ASSUME Types, AnswersInv, PromiseInv, PromiseInv', [Next]_vars, OtherStep,
         NEW q \in Queries, ~ServerStep(q)
  PROVE  Turns(q)
<1>1. pc'[q] = pc[q] /\ outcome'[q] = outcome[q]
  BY OtherSteps
<1>2. stream'[q].total = stream[q].total
  <2>1. CASE Quiet
    BY <2>1 DEF Quiet
  <2>2. ASSUME NEW p \in Queries, ServerStep(p)
        PROVE  stream'[q] = stream[q]
    BY <2>2, ServerSteps
  <2> QED
    BY <2>1, <2>2, OthersQuiet
<1>3. CASE outcome[q] # "none" \/ pc[q] = "done"
  BY <1>1, <1>2, <1>3, CallStatusIs DEF Goes, Turns
<1>4. CASE outcome[q] = "none" /\ pc[q] \in {"idle"}
  <2>1. ~entry[q].event /\ ~entry'[q].event
    BY <1>1, <1>4 DEF PromiseInv, UntoldOf, Early
  <2> QED
    BY <1>1, <1>2, <1>4, <2>1, CallStatusIs DEF Goes, Turns
<1>5. CASE outcome[q] = "none" /\ pc[q] \notin {"idle", "done"}
  <2>1. /\ entry[q].event => entry'[q].event
        /\ entry[q].error # "none" => entry'[q].error # "none"
    BY EventStays, ErrorStays
  <2>2. /\ CallStatus[q] = IF entry[q].event
                           THEN IF entry[q].error = "none" THEN "told" ELSE "refused"
                           ELSE "open"
        /\ CallStatus'[q] = IF entry'[q].event
                            THEN IF entry'[q].error = "none" THEN "told" ELSE "refused"
                            ELSE "open"
    BY <1>1, <1>5, CallStatusIs
  <2> QED
    BY <1>2, <2>1, <2>2 DEF Goes, Turns
<1> QED
  BY <1>3, <1>4, <1>5

\* A call turns itself as it goes on.
LEMMA UserTurns ==
  ASSUME Types, AnswersInv, PromiseInv, PromiseInv', NEW q \in Queries, UserStep(q)
  PROVE  Turns(q)
<1>1. /\ OutcomeOf(q) /\ TotalOf(q) /\ UntoldOf(q) /\ UntoldOf(q)'
      /\ StreamOf(q) /\ ToldOf(q) /\ CancelOf(q) /\ AnswerOf(q)
  BY DEF PromiseInv, AnswersInv, StreamInv, ToldInv, CancelInv, AnswerInv
<1>2. /\ pc[q] # "done"
      /\ GoesOn(q) \/ Finishes(q) \/ Raises(q) \/ TimesOut(q)
  BY <1>1, UserOutcomes
<1>3. entry'[q].event = entry[q].event /\ entry'[q].error = entry[q].error
  BY UserEffects DEF UserEffect, Same
<1>4. CASE Asks(q)
  <2>1. stream[q].asked = 0 /\ pc[q] = "checked"
    BY <1>1, <1>4 DEF Asks, ToldOf
  <2>2. stream[q].total = 0 /\ stream'[q].total \in Nat
    BY <1>1, <1>4, <2>1 DEF Asks, TotalOf
  <2>3. outcome[q] = "none" /\ outcome'[q] = "none"
    BY <1>1, <1>4, <2>1 DEF OutcomeOf, Asks
  <2>4. pc'[q] \notin {"idle", "done"}
    BY <1>2, <2>1, <2>3 DEF GoesOn, Finishes, Raises, TimesOut
  <2>5. ~(entry[q].event /\ entry[q].error = "none")
    BY <1>1, <2>1 DEF StreamOf
  <2>6. CallStatus[q] \in {"open", "refused"} /\ CallStatus'[q] = CallStatus[q]
    BY <1>3, <2>1, <2>3, <2>4, <2>5, CallStatusIs
  <2> QED
    BY <2>2, <2>6 DEF Turns, Decides
<1>5. CASE Leaves(q)
  <2>1. stream'[q].total = stream[q].total
    BY <1>5 DEF Leaves
  <2>2. CASE GoesOn(q)
    <3>1. pc[q] = "idle" => ~entry[q].event
      BY <1>1 DEF UntoldOf, Early
    <3>2. CASE outcome[q] # "none"
      BY <2>1, <2>2, <3>2, CallStatusIs DEF GoesOn, Goes, Turns
    <3>3. CASE outcome[q] = "none"
      <4>1. /\ CallStatus[q] = IF entry[q].event
                               THEN IF entry[q].error = "none" THEN "told" ELSE "refused"
                               ELSE IF pc[q] = "idle" THEN "idle" ELSE "open"
            /\ CallStatus'[q] = IF entry[q].event
                                THEN IF entry[q].error = "none" THEN "told" ELSE "refused"
                                ELSE "open"
        BY <1>2, <1>3, <2>2, <3>3, CallStatusIs, UserOutcomes, <1>1 DEF GoesOn
      <4> QED
        BY <2>1, <3>1, <4>1 DEF Goes, Turns
    <3> QED
      BY <3>2, <3>3
  <2>3. CASE ~GoesOn(q)
    <3>1. outcome[q] = "none" /\ pc[q] \notin {"idle", "done"}
      BY <1>1, <1>2, <2>3, UserOutcomes DEF Finishes, Raises, TimesOut
    <3>2. CallStatus[q] = IF entry[q].event
                          THEN IF entry[q].error = "none" THEN "told" ELSE "refused"
                          ELSE "open"
      BY <3>1, CallStatusIs
    <3>3. outcome'[q] # "none" => CallStatus'[q] = outcome'[q]
      BY CallStatusIs
    <3>4. CASE Finishes(q)
      <4>1. entry[q].error \in {"none", "aborted", "failed"}
        BY DEF Types, EntryTypes, Entry
      <4>2. \/ CallStatus[q] = "told" /\ CallStatus'[q] = "rows"
            \/ CallStatus[q] = "refused" /\ CallStatus'[q] \in {"disconnected", "failed"}
        BY <3>2, <3>3, <3>4, <4>1 DEF Finishes
      <4> QED
        BY <2>1, <4>2 DEF Goes, Turns
    <3>5. CASE Raises(q)
      <4>1. ~(entry[q].event /\ entry[q].error = "none")
        BY <1>1, <3>5 DEF Raises, StreamOf, ToldOf, Early
      <4>2. /\ CallStatus[q] \in {"open", "refused"}
            /\ CallStatus'[q] \in {"disconnected", "failed"}
        BY <3>2, <3>3, <3>5, <4>1 DEF Raises
      <4> QED
        BY <2>1, <4>2 DEF Goes, Turns
    <3>6. CASE TimesOut(q)
      <4>1. ~entry[q].event
        BY <1>1, <3>6 DEF TimesOut, UntoldOf, Early
      <4>2. CallStatus[q] = "open" /\ CallStatus'[q] = "timeout"
        BY <3>2, <3>3, <3>6, <4>1 DEF TimesOut
      <4> QED
        BY <2>1, <4>2 DEF Goes, Turns
    <3> QED
      BY <1>2, <2>3, <3>4, <3>5, <3>6
  <2> QED
    BY <2>2, <2>3
<1> QED
  BY <1>4, <1>5, UserServes

\* Every step of the code is one of HistoryAnswer, or none.
LEMMA PromiseStep ==
  ASSUME Types, Types', AnswersInv, PromiseInv, WakesDecided, WakesDecided', [Next]_vars
  PROVE  [Promise!Next]_<<CallStatus, Totals, Given>>
<1>1. PromiseInv'
  BY PromiseInvStep
<1>2. ASSUME NEW q \in Queries
      PROVE  Turns(q)
  <2>1. CASE UNCHANGED vars
    <3>1. /\ outcome'[q] = outcome[q] /\ pc'[q] = pc[q] /\ entry'[q] = entry[q]
          /\ stream'[q] = stream[q]
      BY <2>1 DEF vars
    <3> QED
      BY <3>1, CallStatusIs DEF Turns, Goes
  <2>2. CASE ServerStep(q)
    BY <2>2, ServerTurns DEF Turns
  <2>3. CASE OtherStep /\ ~ServerStep(q)
    BY <1>1, <2>3, OtherTurns
  <2>4. CASE UserStep(q)
    BY <1>1, <2>4, UserTurns
  <2>5. ASSUME NEW p \in Queries \ {q}, UserStep(p)
        PROVE  Turns(q)
    <3>1. /\ outcome'[q] = outcome[q] /\ pc'[q] = pc[q] /\ entry'[q] = entry[q]
          /\ stream'[q] = stream[q]
      BY <2>5, UserSteps
    <3> QED
      BY <3>1, CallStatusIs DEF Turns, Goes
  <2> QED
    BY <2>1, <2>2, <2>3, <2>4, <2>5, Steps
<1>3. \A q \in Queries : Promise!Move(q)
  BY <1>2, TurnsMove
<1> QED
  BY <1>3 DEF Promise!Next

\* The code implements HistoryAnswer.
THEOREM KeepsPromise == Spec => PromiseSpec
<1>1. Init => Promise!Init
  <2> SUFFICES ASSUME Init
               PROVE  Promise!Init
    OBVIOUS
  <2>1. \A q \in Queries : /\ pc[q] = "idle" /\ outcome[q] = "none"
                           /\ entry[q] = NoEntry /\ stream[q] = NoStream
    BY DEF Init
  <2>2. ~NoEntry.event /\ NoStream.total = 0
    BY DEF NoEntry, NoStream
  <2>3. CallStatus = [q \in Queries |-> "idle"]
    BY <2>1, <2>2 DEF CallStatus
  <2>4. Totals = [q \in Queries |-> 0]
    BY <2>1, <2>2 DEF Totals
  <2>5. Given = [q \in Queries |-> <<>>]
    BY <2>3 DEF Given
  <2> QED
    BY <2>3, <2>4, <2>5 DEF Promise!Init
<1>2. Init => PromiseInv
  <2> SUFFICES ASSUME Init, NEW q \in Queries
               PROVE  OutcomeOf(q) /\ TotalOf(q) /\ UntoldOf(q)
    BY DEF PromiseInv
  <2>1. /\ pc[q] = "idle" /\ outcome[q] = "none" /\ entry[q] = NoEntry
        /\ stream[q] = NoStream /\ \A h \in 0 .. MaxGeneration : q \notin aborting[h]
    BY DEF Init
  <2>2. ~NoEntry.event /\ NoStream.total = 0
    BY DEF NoEntry, NoStream
  <2> QED
    BY <2>1, <2>2 DEF OutcomeOf, TotalOf, UntoldOf
<1>3. Types /\ AnswersInv /\ PromiseInv /\ [Next]_vars => PromiseInv'
  BY PromiseInvStep
<1>4. Types /\ Types' /\ AnswersInv /\ PromiseInv /\ WakesDecided /\ WakesDecided' /\ [Next]_vars
        => [Promise!Next]_<<CallStatus, Totals, Given>>
  BY PromiseStep
<1> QED
  BY <1>1, <1>2, <1>3, <1>4, TypesHold, AnswersHold, AnswersAreWhole, PTL
     DEF Spec, PromiseSpec, Promise!Spec

=============================================================================
