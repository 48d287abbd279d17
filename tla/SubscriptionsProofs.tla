------------------------ MODULE SubscriptionsProofs ------------------------
(***************************************************************************)
(* What Subscriptions guarantees for every set of codes, every catalogue   *)
(* that satisfies StableIds and every bound.                               *)
(***************************************************************************)
EXTENDS Subscriptions, SequenceTheorems, TLAPS

\* The flush, started from a well-typed queue and request, leaves well-typed
\* values: what every critical section that ends in a flush needs.
LEMMA FlushTypes ==
  ASSUME TypeOK, NEW q, q \subseteq Codes, NEW inf, inf \in Request,
         desired' \in [Codes -> Nat], confirmed' \in [Codes -> IdOrNone],
         symbolMap' \in Catalogues \cup {InitialMap},
         Flush(q, inf)
  PROVE  /\ queue' \subseteq Codes
         /\ inflight' \in Request
         /\ authenticated' \in BOOLEAN
         /\ phase' \in Phases
         /\ toServer' \in Seq(Frame)
<1> DEFINE r == Sendable(q)
<1>1. symbolMap' \in [Codes -> IdOrNone]
  BY MapAssumption
<1>2. r \subseteq Codes /\ {symbolMap'[c] : c \in r} \subseteq Sids
  BY <1>1 DEF Sendable, IdOrNone
<1>3. [kind |-> "subscribe", ids |-> {symbolMap'[c] : c \in r}] \in Frame
  BY <1>2 DEF Frame
<1>4. NewRequest(r) \in Request
  BY <1>1, <1>2 DEF NewRequest, Request, TypeOK
<1>5. NoRequest \in Request
  BY DEF NoRequest, Request, Nothing, IdOrNone
<1>6. CASE ~MayRequest(inf, r)
  BY <1>6 DEF Flush, TypeOK
<1>7. CASE Transmit([kind |-> "subscribe", ids |-> {symbolMap'[c] : c \in r}])
           /\ inflight' = NewRequest(r) /\ queue' = q \ r
  BY <1>3, <1>4, <1>7 DEF Transmit, TypeOK
<1>8. CASE SendFails /\ inflight' = NoRequest /\ queue' = q
  BY <1>5, <1>8 DEF SendFails, TypeOK, Phases
<1>9. QED
  BY <1>6, <1>7, <1>8 DEF Flush

\* A refresh that is scheduled keeps the types.
LEMMA ScheduleTypes ==
  ASSUME TypeOK, NEW t \in Refresh, ScheduleRefresh(t)
  PROVE  refreshTried' \in Nat /\ refresh' \in Refresh
BY DEF ScheduleRefresh, TypeOK, Refresh, NoRefresh

\* So does a reset.
LEMMA ResetTypes ==
  ASSUME TypeOK, Reset
  PROVE  /\ authenticated' \in BOOLEAN
         /\ confirmed' \in [Codes -> IdOrNone]
         /\ inflight' \in Request
         /\ queue' \subseteq Codes
         /\ rejected' \subseteq Codes
BY DEF Reset, Nothing, NoRequest, Request, IdOrNone, WantedCodes, TypeOK

\* So does the part of subscribe() before the flush.
LEMMA SubscribeTypes ==
  ASSUME TypeOK, NEW S \in SUBSET Codes, Subscribe(S)
  PROVE  desired' \in [Codes -> Nat] /\ revision' \in Nat
<1> DEFINE new == {c \in S : ~Wanted(c)}
<1>1. desired \in [Codes -> Nat] /\ revision \in Nat
  BY DEF TypeOK
<1>2. CASE new = {}
  <2>1. UNCHANGED <<desired, revision>>
    BY <1>2 DEF Subscribe, intentVars
  <2>2. QED
    BY <1>1, <2>1
<1>3. CASE new # {}
  <2>1. /\ revision' = revision + 1
        /\ desired' = [c \in Codes |-> IF c \in new THEN revision + 1 ELSE desired[c]]
    BY <1>3 DEF Subscribe
  <2>2. QED
    BY <1>1, <2>1
<1>4. QED
  BY <1>2, <1>3

\* Every variable of the client, the wires and the server keeps its type.
THEOREM TypeCorrect == Spec => []TypeOK
<1>1. Init => TypeOK
  <2> SUFFICES ASSUME Init PROVE TypeOK
    OBVIOUS
  <2>1. confirmed \in [Codes -> IdOrNone] /\ inflight \in Request
    BY DEF Init, Nothing, NoRequest, Request, IdOrNone
  <2>2. refresh \in Refresh /\ symbolMap \in Catalogues \cup {InitialMap}
    BY DEF Init, NoRefresh, Refresh
  <2>3. toServer \in Seq(Frame) /\ toClient \in Seq(SUBSET Sids)
    BY DEF Init
  <2>4. QED
    BY <2>1, <2>2, <2>3 DEF Init, TypeOK, Phases
<1>2. TypeOK /\ [Next]_vars => TypeOK'
  <2> SUFFICES ASSUME TypeOK, [Next]_vars PROVE TypeOK'
    OBVIOUS
  <2> USE DEF intentVars, answerVars, mapVars, refreshVars, wireVars
  <2>1. ASSUME NEW S \in SUBSET Codes, Subscribe(S) PROVE TypeOK'
    <3>1. desired' \in [Codes -> Nat] /\ revision' \in Nat
      BY <2>1, SubscribeTypes
    <3>2. PICK q \in SUBSET Codes : Flush(q, inflight)
      BY <2>1 DEF Subscribe, TypeOK
    <3>3. QED
      BY <2>1, <3>1, <3>2, FlushTypes, ScheduleTypes DEF Subscribe, TypeOK
  <2>2. ASSUME NEW S \in SUBSET Codes, NEW all \in BOOLEAN, Unsubscribe(S, all)
        PROVE  TypeOK'
    <3> DEFINE removed == IF all THEN WantedCodes ELSE S
               ids == {SidToCancel(c) : c \in removed} \ {NoSid}
               frame == [kind |-> "unsubscribe", ids |-> IF all THEN {} ELSE ids]
    <3>1. removed \subseteq Codes
      BY DEF WantedCodes
    <3>2. ids \subseteq Sids
      BY <3>1 DEF SidToCancel, TypeOK, Request, IdOrNone
    <3>3. frame \in Frame
      BY <3>2 DEF Frame
    <3>4. desired' \in [Codes -> Nat] /\ confirmed' \in [Codes -> IdOrNone]
      BY <2>2 DEF Unsubscribe, TypeOK, IdOrNone
    <3>5. /\ authenticated' \in BOOLEAN
          /\ phase' \in Phases
          /\ toServer' \in Seq(Frame)
      <4>1. CASE Transmit(frame)
        BY <3>3, <4>1 DEF Transmit, TypeOK
      <4>2. CASE SendFails
        BY <4>2 DEF SendFails, TypeOK, Phases
      <4>3. CASE UNCHANGED <<authenticated, phase, toServer>>
        BY <4>3 DEF TypeOK
      <4>4. QED
        BY <2>2, <4>1, <4>2, <4>3 DEF Unsubscribe
    <3>6. QED
      BY <2>2, <3>1, <3>4, <3>5 DEF Unsubscribe, TypeOK
  <2>3. CASE Close
    BY <2>3, ResetTypes DEF Close, ClearWires, TypeOK, Phases
  <2>4. CASE HandleDisconnected
    BY <2>4, ResetTypes DEF HandleDisconnected, ClearWires, TypeOK, Phases
  <2>5. CASE Reconnect
    BY <2>5, ResetTypes DEF Reconnect, TypeOK, Phases
  <2>6. CASE FindConnected
    BY <2>6 DEF FindConnected, TypeOK, Phases, Restorer
  <2>6a. ASSUME NEW r \in restorers, Authenticate(r) PROVE TypeOK'
    BY <2>6a DEF Authenticate, TypeOK, Restorer
  <2>7. ASSUME NEW r \in restorers, Resume(r) PROVE TypeOK'
    BY <2>7, FlushTypes, ScheduleTypes DEF Resume, TypeOK
  <2>7a. CASE FinishRestore
    BY <2>7a DEF FinishRestore, TypeOK
  <2>8. CASE ReceiveAck
    <3>1. Head(toClient) \in SUBSET Sids /\ Tail(toClient) \in Seq(SUBSET Sids)
      BY <2>8 DEF ReceiveAck, TypeOK
    <3>2. QED
      BY <2>8, <3>1 DEF ReceiveAck, TypeOK, Ack
  <2>9. ASSUME NEW h \in handling, HandleAck(h) PROVE TypeOK'
    <3>1. CASE AckIsCurrent(h)
      <4>1. confirmed' \in [Codes -> IdOrNone] /\ rejected' \subseteq Codes
        BY <2>9, <3>1 DEF HandleAck, Current, TypeOK, Request, IdOrNone
      <4>2. NoRequest \in Request
        BY DEF NoRequest, Request, Nothing, IdOrNone
      <4>3. Flush(queue, NoRequest) /\ ScheduleRefresh(refresh)
        BY <2>9, <3>1 DEF HandleAck
      <4>4. /\ UNCHANGED <<desired, revision, symbolMap, installed, session>>
            /\ UNCHANGED <<restorers, serverSubs, toClient>>
            /\ handling' = handling \ {h}
        BY <2>9 DEF HandleAck
      <4>5. /\ queue' \subseteq Codes /\ inflight' \in Request
            /\ authenticated' \in BOOLEAN /\ phase' \in Phases
            /\ toServer' \in Seq(Frame)
        BY <4>1, <4>2, <4>3, <4>4, FlushTypes DEF TypeOK
      <4>6. refreshTried' \in Nat /\ refresh' \in Refresh
        BY <4>3, ScheduleTypes DEF TypeOK
      <4>7. QED
        BY <4>1, <4>4, <4>5, <4>6 DEF TypeOK
    <3>2. CASE ~AckIsCurrent(h)
      BY <2>9, <3>2 DEF HandleAck, TypeOK
    <3>3. QED
      BY <3>1, <3>2
  <2>10. ASSUME NEW m \in Catalogues, HandleSymbolMap(m) PROVE TypeOK'
    <3>1. Flush(queue, inflight) /\ ScheduleRefresh(refresh)
      BY <2>10 DEF HandleSymbolMap
    <3>2. /\ UNCHANGED <<desired, revision, confirmed, rejected, session>>
          /\ UNCHANGED <<restorers, serverSubs, toClient, handling>>
          /\ installed' \in Nat /\ symbolMap' \in Catalogues \cup {InitialMap}
      BY <2>10 DEF HandleSymbolMap, TypeOK
    <3>3. /\ queue' \subseteq Codes /\ inflight' \in Request
          /\ authenticated' \in BOOLEAN /\ phase' \in Phases
          /\ toServer' \in Seq(Frame)
      BY <3>1, <3>2, FlushTypes DEF TypeOK
    <3>4. QED
      BY <3>1, <3>2, <3>3, ScheduleTypes DEF TypeOK
  <2>11. CASE RefreshStart
    BY <2>11 DEF RefreshStart, TypeOK, Refresh
  <2>12. ASSUME NEW m \in Catalogues, RefreshInstall(m) PROVE TypeOK'
    <3>1. NoRefresh \in Refresh
      BY DEF NoRefresh, Refresh
    <3>2. QED
      BY <2>12, <3>1, FlushTypes, ScheduleTypes DEF RefreshInstall, TypeOK
  <2>13. CASE RefreshGiveUp
    <3>1. NoRefresh \in Refresh
      BY DEF NoRefresh, Refresh
    <3>2. QED
      BY <2>13, <3>1, ScheduleTypes DEF RefreshGiveUp, TypeOK
  <2>14. CASE ServerHandle
    <3>1. Head(toServer) \in Frame /\ Tail(toServer) \in Seq(Frame)
      BY <2>14 DEF ServerHandle, TypeOK
    <3>2. serverSubs' \subseteq Sids
      BY <2>14, <3>1 DEF ServerHandle, TypeOK, Frame
    <3>3. toClient' = Append(toClient, serverSubs') \/ UNCHANGED toClient
      BY <2>14 DEF ServerHandle
    <3>4. toClient' \in Seq(SUBSET Sids)
      <4>1. toClient \in Seq(SUBSET Sids) /\ serverSubs' \in SUBSET Sids
        BY <3>2 DEF TypeOK
      <4>2. CASE toClient' = Append(toClient, serverSubs')
        BY <4>1, <4>2, AppendProperties
      <4>3. QED
        BY <3>3, <4>1, <4>2
    <3>5. QED
      BY <2>14, <3>1, <3>2, <3>4 DEF ServerHandle, TypeOK
  <2>15. CASE Drop
    BY <2>15 DEF Drop, TypeOK, Phases
  <2>16. CASE UNCHANGED vars
    BY <2>16 DEF vars, TypeOK
  <2>17. QED
    BY <2>1, <2>2, <2>3, <2>4, <2>5, <2>6, <2>6a, <2>7, <2>7a, <2>8, <2>9, <2>10,
       <2>11, <2>12, <2>13, <2>14, <2>15, <2>16 DEF Next, UserStep, ClientStep
<1>3. QED
  BY <1>1, <1>2, PTL DEF Spec

-----------------------------------------------------------------------------
(***************************************************************************)
(* The ledger of intents.                                                  *)
(***************************************************************************)

\* LedgerInv of given values, so that it can be stated of the values a critical
\* section has when it reaches the flush.
Ledger(d, n, cf, q, inf, rj) ==
  \A c \in Codes :
    LET flying == d[c] # 0 /\ c \in inf.requested /\ inf.rev[c] = d[c] IN
    /\ d[c] <= n
    /\ inf.rev[c] <= n
    /\ c \in inf.requested => inf.sid[c] # NoSid
    /\ inf # NoRequest /\ cf[c] # NoSid =>
         inf.sid[c] = cf[c] /\ inf.rev[c] = d[c]
    /\ inf.sid[c] # NoSid /\ d[c] # 0 /\ d[c] = inf.rev[c] =>
         c \in inf.requested \/ cf[c] = inf.sid[c]
    /\ d[c] # 0 => c \in q \/ flying \/ cf[c] # NoSid \/ c \in rj
    /\ c \in q => d[c] # 0 /\ ~flying
    /\ c \in rj => d[c] # 0 /\ ~flying /\ c \notin q
    /\ cf[c] # NoSid => d[c] # 0 /\ ~flying /\ c \notin q \cup rj

\* LedgerInv, as an operator of the fields of the ledger.
LEMMA LedgerIsInv ==
  LedgerInv <=> Ledger(desired, revision, confirmed, queue, inflight, rejected)
BY DEF LedgerInv, Ledger, NoLostIntent, OneStatus, SnapshotIsExact, Current,
       InFlight, Wanted

\* A flush moves codes from the queue into the request and disturbs nothing else.
LEMMA FlushKeepsLedger ==
  ASSUME NEW q, q \subseteq Codes, NEW inf, inf \in Request,
         revision' \in Nat,
         desired' \in [Codes -> Nat], confirmed' \in [Codes -> IdOrNone],
         symbolMap' \in [Codes -> IdOrNone],
         Ledger(desired', revision', confirmed', q, inf, rejected'),
         Flush(q, inf)
  PROVE  Ledger(desired', revision', confirmed', queue', inflight', rejected')
<1> DEFINE r == Sendable(q)
<1>1. CASE ~MayRequest(inf, r)
  BY <1>1 DEF Flush
<1>2. CASE MayRequest(inf, r) /\ SendFails
           /\ inflight' = NoRequest /\ queue' = q
  BY <1>2 DEF MayRequest, Ledger
<1>3. CASE MayRequest(inf, r) /\ inflight' = NewRequest(r) /\ queue' = q \ r
  <2>1. inf = NoRequest
    BY <1>3 DEF MayRequest
  <2>2. \A c \in Codes : c \notin inf.requested
    BY <2>1 DEF NoRequest
  <2>3. /\ inflight'.requested = r
        /\ \A c \in Codes :
             /\ inflight'.sid[c] = IF c \in r THEN symbolMap'[c] ELSE confirmed'[c]
             /\ inflight'.rev[c] = IF c \in r \/ confirmed'[c] # NoSid
                                     THEN desired'[c] ELSE 0
    BY <1>3 DEF NewRequest
  <2>4. \A c \in r : c \in q /\ desired'[c] # 0 /\ symbolMap'[c] # NoSid
    BY DEF Sendable
  <2>5. SUFFICES ASSUME NEW c \in Codes
                 PROVE Ledger(desired', revision', confirmed', queue', inflight',
                              rejected')!(c)
    BY DEF Ledger
  <2>6. Ledger(desired', revision', confirmed', q, inf, rejected')!(c)
    BY DEF Ledger
  <2>7. CASE c \in r
    BY <1>3, <2>2, <2>3, <2>4, <2>6, <2>7
  <2>8. CASE c \notin r
    BY <1>3, <2>2, <2>3, <2>6, <2>8
  <2>9. QED
    BY <2>7, <2>8
<1>4. QED
  BY <1>1, <1>2, <1>3 DEF Flush

\* A reset queues every intent again.
LEMMA ResetKeepsLedger ==
  ASSUME TypeOK, LedgerInv, Reset, UNCHANGED intentVars
  PROVE  LedgerInv'
BY DEF TypeOK, Reset, LedgerInv, NoLostIntent, OneStatus, SnapshotIsExact, Current,
       InFlight, Wanted, WantedCodes, Nothing, NoRequest, intentVars

\* The stores of the client keep every intent, once: the steps.
LEMMA LedgerStep ==
  ASSUME TypeOK, LedgerInv, [Next]_vars
  PROVE  LedgerInv'
<1> USE DEF intentVars, answerVars, mapVars, refreshVars, wireVars
<1>a. Ledger(desired, revision, confirmed, queue, inflight, rejected)
  BY LedgerIsInv
<1>b. SUFFICES Ledger(desired', revision', confirmed', queue', inflight', rejected')
  BY DEF Ledger, LedgerInv, NoLostIntent, OneStatus, SnapshotIsExact, Current,
         InFlight, Wanted
<1>c. symbolMap \in [Codes -> IdOrNone] /\ \A m \in Catalogues : m \in [Codes -> IdOrNone]
  BY MapAssumption DEF TypeOK
<1>d. NoRequest \in Request
  BY DEF NoRequest, Request, Nothing, IdOrNone
<1>e. ASSUME UNCHANGED <<intentVars, answerVars>>
      PROVE  Ledger(desired', revision', confirmed', queue', inflight', rejected')
  BY <1>a, <1>e
<1>f. ASSUME Flush(queue, inflight), UNCHANGED <<intentVars, confirmed, rejected>>,
             symbolMap' \in [Codes -> IdOrNone]
      PROVE  Ledger(desired', revision', confirmed', queue', inflight', rejected')
  BY <1>a, <1>f, FlushKeepsLedger DEF TypeOK
<1>g. ASSUME Reset, UNCHANGED intentVars
      PROVE  Ledger(desired', revision', confirmed', queue', inflight', rejected')
  <2>1. LedgerInv'
    BY <1>g, ResetKeepsLedger
  <2>2. QED
    BY <2>1 DEF Ledger, LedgerInv, NoLostIntent, OneStatus, SnapshotIsExact, Current,
                InFlight, Wanted
<1>1. ASSUME NEW S \in SUBSET Codes, Subscribe(S)
      PROVE  Ledger(desired', revision', confirmed', queue', inflight', rejected')
  <2> DEFINE q == queue \cup {c \in S : confirmed[c] = NoSid /\ ~AlreadySent(c)}
  <2>1. Flush(q, inflight) /\ q \in SUBSET Codes
    BY <1>1 DEF Subscribe, TypeOK
  <2>2. /\ desired' \in [Codes -> Nat] /\ revision' \in Nat
        /\ symbolMap' = symbolMap /\ confirmed' = confirmed
        /\ rejected' = rejected \ S
    BY <1>1, SubscribeTypes DEF Subscribe, mapVars
  <2>3. /\ revision' >= revision
        /\ \A c \in Codes :
             \/ desired'[c] = desired[c]
             \/ /\ c \in S /\ desired[c] = 0
                /\ desired'[c] = revision + 1 /\ revision' = revision + 1
        /\ \A c \in S : desired'[c] # 0
    <3>1. CASE {c \in S : ~Wanted(c)} = {}
      BY <1>1, <3>1 DEF Subscribe, TypeOK, Wanted
    <3>2. CASE {c \in S : ~Wanted(c)} # {}
      BY <1>1, <3>2 DEF Subscribe, TypeOK, Wanted
    <3>3. QED
      BY <3>1, <3>2
  <2>4. Ledger(desired', revision', confirmed', q, inflight, rejected')
    <3> SUFFICES ASSUME NEW c \in Codes
                 PROVE Ledger(desired', revision', confirmed', q, inflight, rejected')!(c)
      BY DEF Ledger
    <3>1. Ledger(desired, revision, confirmed, queue, inflight, rejected)!(c)
      BY <1>a DEF Ledger
    <3>2. desired[c] \in Nat /\ revision \in Nat /\ inflight.rev[c] \in Nat
      BY DEF TypeOK, Request
    <3>3. CASE desired'[c] = desired[c]
      BY <2>2, <2>3, <3>1, <3>2, <3>3 DEF AlreadySent
    <3>4. CASE c \in S /\ desired[c] = 0 /\ desired'[c] = revision + 1
               /\ revision' = revision + 1
      BY <2>2, <3>1, <3>2, <3>4 DEF AlreadySent
    <3>5. QED
      BY <2>3, <3>3, <3>4
  <2>5. QED
    BY <1>c, <2>1, <2>2, <2>4, FlushKeepsLedger DEF TypeOK
<1>2. ASSUME NEW S \in SUBSET Codes, NEW all \in BOOLEAN, Unsubscribe(S, all)
      PROVE  Ledger(desired', revision', confirmed', queue', inflight', rejected')
  <2> DEFINE removed == IF all THEN WantedCodes ELSE S
  <2>1. /\ desired' = [c \in Codes |-> IF c \in removed THEN 0 ELSE desired[c]]
        /\ confirmed' = [c \in Codes |-> IF c \in removed THEN NoSid ELSE confirmed[c]]
        /\ queue' = queue \ removed /\ rejected' = rejected \ removed
        /\ UNCHANGED <<revision, inflight>>
    BY <1>2 DEF Unsubscribe
  <2> SUFFICES ASSUME NEW c \in Codes
               PROVE Ledger(desired', revision', confirmed', queue', inflight',
                            rejected')!(c)
    BY DEF Ledger
  <2>2. Ledger(desired, revision, confirmed, queue, inflight, rejected)!(c)
    BY <1>a DEF Ledger
  <2>3. desired[c] \in Nat /\ revision \in Nat
    BY DEF TypeOK
  <2>4. CASE c \in removed
    BY <2>1, <2>2, <2>3, <2>4
  <2>5. CASE c \notin removed
    BY <2>1, <2>2, <2>5
  <2>6. QED
    BY <2>4, <2>5
<1>3. CASE Close
  BY <1>3, <1>g DEF Close
<1>4. CASE HandleDisconnected
  BY <1>4, <1>g DEF HandleDisconnected
<1>5. CASE Reconnect
  BY <1>5, <1>g DEF Reconnect
<1>6. CASE FindConnected \/ FinishRestore \/ \E r \in restorers : Authenticate(r)
  BY <1>6, <1>e DEF FindConnected, FinishRestore, Authenticate
<1>7. ASSUME NEW r \in restorers, Resume(r)
      PROVE  Ledger(desired', revision', confirmed', queue', inflight', rejected')
  BY <1>7, <1>f, <1>c DEF Resume
<1>8. CASE ReceiveAck
  BY <1>8, <1>e DEF ReceiveAck
<1>9. ASSUME NEW h \in handling, HandleAck(h)
      PROVE  Ledger(desired', revision', confirmed', queue', inflight', rejected')
  <2>1. CASE ~AckIsCurrent(h)
    BY <1>9, <1>e, <2>1 DEF HandleAck
  <2>2. CASE AckIsCurrent(h)
    <3> DEFINE accepted == {c \in Current : inflight.sid[c] \in h.ids}
    <3>1. /\ confirmed' = [c \in Codes |-> IF c \in accepted
                                             THEN inflight.sid[c] ELSE NoSid]
          /\ rejected' = (rejected \ Current) \cup (Current \ accepted)
          /\ Flush(queue, NoRequest)
          /\ UNCHANGED <<desired, revision, symbolMap>>
      BY <1>9, <2>2 DEF HandleAck
    <3>2. inflight # NoRequest
      BY <2>2 DEF AckIsCurrent
    <3>3. confirmed' \in [Codes -> IdOrNone]
      BY <3>1 DEF TypeOK, Request, IdOrNone
    <3>4. Ledger(desired', revision', confirmed', queue, NoRequest, rejected')
      <4> SUFFICES ASSUME NEW c \in Codes
                   PROVE Ledger(desired', revision', confirmed', queue, NoRequest,
                                rejected')!(c)
        BY DEF Ledger
      <4>1. Ledger(desired, revision, confirmed, queue, inflight, rejected)!(c)
        BY <1>a DEF Ledger
      <4>2. desired[c] \in Nat /\ revision \in Nat
        BY DEF TypeOK
      <4>3. c \in Current <=> inflight.sid[c] # NoSid /\ desired[c] # 0
                              /\ desired[c] = inflight.rev[c]
        BY DEF Current, Wanted
      <4>4. NoRequest.requested = {} /\ NoRequest.sid[c] = NoSid /\ NoRequest.rev[c] = 0
        BY DEF NoRequest, Nothing
      <4>5. CASE c \in Current
        BY <3>1, <3>2, <4>1, <4>2, <4>3, <4>4, <4>5
      <4>6. CASE c \notin Current
        BY <3>1, <3>2, <4>1, <4>2, <4>3, <4>4, <4>6
      <4>7. QED
        BY <4>5, <4>6
    <3>5. QED
      BY <1>c, <1>d, <3>1, <3>3, <3>4, FlushKeepsLedger DEF TypeOK
  <2>3. QED
    BY <2>1, <2>2
<1>10. ASSUME NEW m \in Catalogues, HandleSymbolMap(m)
       PROVE  Ledger(desired', revision', confirmed', queue', inflight', rejected')
  BY <1>10, <1>c, <1>f DEF HandleSymbolMap
<1>11. CASE RefreshStart
  BY <1>11, <1>e DEF RefreshStart
<1>12. ASSUME NEW m \in Catalogues, RefreshInstall(m)
       PROVE  Ledger(desired', revision', confirmed', queue', inflight', rejected')
  BY <1>12, <1>c, <1>f DEF RefreshInstall
<1>13. CASE RefreshGiveUp
  BY <1>13, <1>e DEF RefreshGiveUp
<1>14. CASE ServerHandle
  BY <1>14, <1>e DEF ServerHandle
<1>15. CASE Drop
  BY <1>15, <1>e DEF Drop
<1>16. CASE UNCHANGED vars
  BY <1>16, <1>e DEF vars
<1>17. QED
  BY <1>1, <1>2, <1>3, <1>4, <1>5, <1>6, <1>7, <1>8, <1>9, <1>10, <1>11,
     <1>12, <1>13, <1>14, <1>15, <1>16 DEF Next, UserStep, ClientStep

\* The ledger keeps its invariant.
LEMMA LedgerCorrect == Spec => []LedgerInv
<1>1. Init => LedgerInv
  BY DEF Init, LedgerInv, NoLostIntent, OneStatus, SnapshotIsExact, Current,
         Wanted, InFlight, Nothing, NoRequest
<1>2. TypeOK /\ LedgerInv /\ [Next]_vars => LedgerInv'
  BY LedgerStep
<1>3. QED
  BY <1>1, <1>2, TypeCorrect, PTL DEF Spec

\* No intent is ever lost, for any codes, catalogues and interleaving.
THEOREM IntentIsKept == Spec => []NoLostIntent
<1>1. LedgerInv => NoLostIntent
  BY DEF LedgerInv
<1>2. QED
  BY <1>1, LedgerCorrect, PTL

\* The stores of an intent's status never contradict each other.
THEOREM StatusIsUnique == Spec => []OneStatus
<1>1. LedgerInv => OneStatus
  BY DEF LedgerInv
<1>2. QED
  BY <1>1, LedgerCorrect, PTL

-----------------------------------------------------------------------------
(***************************************************************************)
(* The client and the server agree.                                        *)
(***************************************************************************)

\* Two codes share no id.
LEMMA DistinctIds ==
  ASSUME NEW c \in Codes, NEW d \in Codes, c # d,
         NEW s \in KnownSids(c), NEW t \in KnownSids(d), s # NoSid
  PROVE  s # t
BY StableIds DEF KnownSids

\* What the wire holds after a frame was sent.
LEMMA AppendFrame ==
  ASSUME TypeOK, NEW f \in Frame, toServer' = Append(toServer, f)
  PROVE  /\ Len(toServer) \in Nat
         /\ Len(toServer') = Len(toServer) + 1
         /\ \A i \in 1 .. Len(toServer) : toServer'[i] = toServer[i]
         /\ toServer'[Len(toServer) + 1] = f
<1>1. toServer \in Seq(Frame)
  BY DEF TypeOK
<1>2. QED
  BY <1>1, AppendProperties

\* What the wire holds after a frame was taken.
LEMMA TailFrame ==
  ASSUME TypeOK, toServer # <<>>, toServer' = Tail(toServer)
  PROVE  /\ Len(toServer) \in Nat \ {0}
         /\ Len(toServer') = Len(toServer) - 1
         /\ \A i \in 1 .. Len(toServer') : toServer'[i] = toServer[i + 1]
         /\ Head(toServer) = toServer[1]
         /\ Head(toServer) \in Frame
<1>1. toServer \in Seq(Frame)
  BY DEF TypeOK
<1>2. QED
  BY <1>1, HeadTailProperties

\* A step that leaves the request, the wires and the confirmations alone and makes
\* no further intent current.
LEMMA QuietStep ==
  ASSUME WireInv, Current' \subseteq Current,
         UNCHANGED <<confirmed, inflight, toServer, toClient, handling,
                     serverSubs, session>>,
         phase' = "offline" <=> phase = "offline"
  PROVE  WireInv'
<1>1. IdsFromCatalogue' /\ ConfirmedIsServed'
  BY DEF WireInv, IdsFromCatalogue, KnownSids, ConfirmedIsServed, Cancels
<1>2. Answers' = Answers /\ SubscribeAt' = SubscribeAt /\ Handled' = Handled
  BY DEF Answers, SubscribeAt, Handled
<1>3. OneRequestUnderWay'
  BY <1>2 DEF WireInv, OneRequestUnderWay
<1>4. SessionIsFresh'
  BY DEF WireInv, SessionIsFresh
<1>5. RequestIsHonest'
  BY <1>2 DEF WireInv, RequestIsHonest, NoCancelAfter, Cancels
<1>6. QED
  BY <1>1, <1>3, <1>4, <1>5 DEF WireInv

\* The parts of WireInv that are left when no request is out, its wires are empty
\* and the confirmations are true.
LEMMA IdleStep ==
  ASSUME \A c \in Codes : confirmed'[c] \in KnownSids(c),
         inflight' = NoRequest, SubscribeAt' = {}, toClient' = <<>>,
         Handled' = {}, phase' # "offline",
         \A h \in handling' : h.session <= session',
         ConfirmedIsServed'
  PROVE  WireInv'
<1>1. IdsFromCatalogue'
  BY DEF IdsFromCatalogue, KnownSids, NoRequest, Nothing
<1>2. Answers' = {}
  BY DEF Answers
<1>3. OneRequestUnderWay'
  BY <1>2 DEF OneRequestUnderWay
<1>4. Current' = {}
  BY DEF Current, NoRequest, Nothing
<1>5. QED
  BY <1>1, <1>3, <1>4 DEF WireInv, RequestIsHonest, SessionIsFresh

\* A new request goes out over wires that carry no other one.
LEMMA RequestStep ==
  ASSUME TypeOK, NEW r \in SUBSET Codes, r # {},
         symbolMap' \in Catalogues \cup {InitialMap},
         \A c \in r : symbolMap'[c] # NoSid,
         \A c \in Codes : confirmed'[c] \in KnownSids(c),
         SubscribeAt = {}, toClient' = <<>>, Handled' = {}, phase' # "offline",
         \A h \in handling' : h.session <= session',
         inflight' = NewRequest(r),
         toServer' = Append(toServer, [kind |-> "subscribe",
                                       ids |-> {symbolMap'[c] : c \in r}]),
         \A c \in Codes : confirmed'[c] # NoSid =>
           /\ confirmed'[c] \in serverSubs'
           /\ NoCancelAfter(0, confirmed'[c])
  PROVE  WireInv'
<1> DEFINE f == [kind |-> "subscribe", ids |-> {symbolMap'[c] : c \in r}]
<1>1. f \in Frame
  BY MapAssumption DEF Frame, IdOrNone
<1>2. /\ Len(toServer) \in Nat
      /\ Len(toServer') = Len(toServer) + 1
      /\ \A i \in 1 .. Len(toServer) : toServer'[i] = toServer[i]
      /\ toServer'[Len(toServer) + 1] = f
  BY <1>1, AppendFrame
<1>3. /\ inflight'.requested = r
      /\ \A c \in Codes :
           inflight'.sid[c] = IF c \in r THEN symbolMap'[c] ELSE confirmed'[c]
  BY DEF NewRequest
<1>4. IdsFromCatalogue'
  BY <1>3 DEF IdsFromCatalogue, KnownSids
<1>5. SubscribeAt' = {Len(toServer) + 1}
  BY <1>2 DEF SubscribeAt
<1>6. \A j \in 1 .. Len(toServer') : j > Len(toServer) => toServer'[j].kind = "subscribe"
  BY <1>2
<1>7. Answers' = {}
  BY DEF Answers
<1>8. {inflight'.sid[c] : c \in inflight'.requested} = f.ids
  BY <1>3
<1>9. OneRequestUnderWay'
  <2>1. inflight' # NoRequest
    BY <1>3 DEF NoRequest
  <2>2. \A i \in SubscribeAt' :
          toServer'[i].ids = {inflight'.sid[c] : c \in inflight'.requested}
    BY <1>2, <1>5, <1>8
  <2>3. Len(toClient') <= 1
    OBVIOUS
  <2>4. \A i, j \in SubscribeAt' : i = j
    BY <1>5
  <2>5. QED
    BY <2>1, <2>2, <2>3, <2>4 DEF OneRequestUnderWay
<1>10. RequestIsHonest'
  BY <1>2, <1>5, <1>6, <1>7 DEF RequestIsHonest, NoCancelAfter, Cancels
<1>11. ConfirmedIsServed'
  BY <1>2 DEF ConfirmedIsServed, NoCancelAfter, Cancels
<1>12. QED
  BY <1>4, <1>9, <1>10, <1>11 DEF WireInv, SessionIsFresh

\* A flush that follows no change of the wires.
LEMMA FlushKeepsWires ==
  ASSUME TypeOK, WireInv, NEW q, q \subseteq Codes, Flush(q, inflight),
         symbolMap' \in Catalogues \cup {InitialMap},
         UNCHANGED <<confirmed, toClient, handling, serverSubs, session>>,
         inflight' = inflight => Current' \subseteq Current
  PROVE  WireInv'
<1> DEFINE r == Sendable(q)
<1>1. CASE ~MayRequest(inflight, r)
  BY <1>1, QuietStep DEF Flush, WireInv, SessionIsFresh
<1>2. CASE MayRequest(inflight, r)
  <2>1. inflight = NoRequest /\ r # {}
    BY <1>2 DEF MayRequest
  <2>2. phase # "offline" => SubscribeAt = {} /\ Answers = {}
    BY <2>1 DEF WireInv, OneRequestUnderWay
  <2>3. phase # "offline" => Handled' = {} /\ toClient' = <<>>
    <3>1. phase # "offline" => Handled = {} /\ toClient = <<>>
      <4>1. \A h \in Handled : h.ids \in Answers
        BY DEF Answers
      <4>2. toClient # <<>> => toClient[1] \in Answers
        <5>1. toClient \in Seq(SUBSET Sids)
          BY DEF TypeOK
        <5>2. toClient # <<>> => 1 \in 1 .. Len(toClient)
          BY <5>1
        <5>3. QED
          BY <5>2 DEF Answers
      <4>3. QED
        BY <2>2, <4>1, <4>2
    <3>2. QED
      BY <3>1 DEF Handled
  <2>4. CASE SendFails /\ inflight' = NoRequest
    BY <2>1, <2>4, QuietStep DEF SendFails, LinkUp
  <2>5. CASE Transmit([kind |-> "subscribe", ids |-> {symbolMap'[c] : c \in r}])
             /\ inflight' = NewRequest(r)
    <3>1. \A c \in Codes : confirmed'[c] \in KnownSids(c)
      BY DEF WireInv, IdsFromCatalogue
    <3>2. \A c \in Codes : confirmed'[c] # NoSid =>
            confirmed'[c] \in serverSubs' /\ NoCancelAfter(0, confirmed'[c])
      BY DEF WireInv, ConfirmedIsServed, NoCancelAfter
    <3>3. r \subseteq Codes /\ \A c \in r : symbolMap'[c] # NoSid
      BY DEF Sendable
    <3>4. /\ phase # "offline" /\ phase' # "offline"
          /\ \A h \in handling' : h.session <= session'
      BY <2>5 DEF Transmit, LinkUp, WireInv, SessionIsFresh
    <3>5. QED
      BY <2>1, <2>2, <2>3, <2>5, <3>1, <3>2, <3>3, <3>4, RequestStep DEF Transmit
  <2>6. QED
    BY <1>2, <2>4, <2>5 DEF Flush
<1>3. QED
  BY <1>1, <1>2

\* A reset that also clears the wires, or finds them clear.
LEMMA ResetKeepsWires ==
  ASSUME TypeOK, WireInv, Reset,
         toServer' = <<>>, toClient' = <<>>,
         handling' = handling, session' \in Nat,
         \/ session' = session /\ phase' = "offline"
         \/ session' = session + 1 /\ phase' = "restoring"
  PROVE  WireInv'
<1>1. confirmed' = Nothing /\ inflight' = NoRequest
  BY DEF Reset
<1>2. IdsFromCatalogue' /\ ConfirmedIsServed'
  BY <1>1 DEF IdsFromCatalogue, ConfirmedIsServed, KnownSids, NoRequest, Nothing
<1>3. SubscribeAt' = {}
  BY DEF SubscribeAt
<1>4. Current' = {}
  BY <1>1 DEF Current, NoRequest, Nothing
<1>5. \A h \in handling : h.session <= session /\ h.session \in Nat
  BY DEF WireInv, SessionIsFresh, TypeOK, Ack
<1>6. SessionIsFresh'
  BY <1>1, <1>5 DEF SessionIsFresh, TypeOK
<1>7. OneRequestUnderWay'
  <2>1. CASE session' = session /\ phase' = "offline"
    <3>1. Handled' = Handled
      BY <2>1 DEF Handled
    <3>2. QED
      BY <1>3, <2>1, <3>1 DEF OneRequestUnderWay, WireInv
  <2>2. CASE session' = session + 1
    <3>1. Handled' = {}
      BY <1>5, <2>2 DEF Handled, TypeOK
    <3>2. Answers' = {}
      BY <3>1 DEF Answers
    <3>3. QED
      BY <1>3, <3>1, <3>2 DEF OneRequestUnderWay
  <2>3. QED
    BY <2>1, <2>2
<1>8. QED
  BY <1>2, <1>4, <1>6, <1>7 DEF WireInv, RequestIsHonest

\* UNSUBSCRIBE cancels no id of a code that stays wanted.
LEMMA UnsubscribeKeepsWires ==
  ASSUME TypeOK, LedgerInv, WireInv,
         NEW S \in SUBSET Codes, NEW all \in BOOLEAN, Unsubscribe(S, all)
  PROVE  WireInv'
<1> DEFINE removed == IF all THEN WantedCodes ELSE S
           ids == {SidToCancel(c) : c \in removed} \ {NoSid}
           frame == [kind |-> "unsubscribe", ids |-> IF all THEN {} ELSE ids]
<1>1. /\ desired' = [c \in Codes |-> IF c \in removed THEN 0 ELSE desired[c]]
      /\ confirmed' = [c \in Codes |-> IF c \in removed THEN NoSid ELSE confirmed[c]]
      /\ UNCHANGED <<inflight, toClient, handling, serverSubs, session>>
  BY DEF Unsubscribe, wireVars
<1>2. removed \subseteq Codes
  BY DEF WantedCodes
<1>3. Current' \subseteq Current /\ \A c \in Current' : c \notin removed
  BY <1>1, <1>2 DEF Current, Wanted, TypeOK
<1>4. \A c \in Codes : confirmed'[c] # NoSid =>
        confirmed'[c] = confirmed[c] /\ c \notin removed /\ Wanted(c)
  BY <1>1 DEF LedgerInv, OneStatus
<1>5. IdsFromCatalogue'
  BY <1>1 DEF WireInv, IdsFromCatalogue, KnownSids
<1>6. ASSUME UNCHANGED toServer,
             phase' \in {phase} \/ (phase' = "lost" /\ phase # "offline")
      PROVE  WireInv'
  <2>1. Answers' = Answers /\ SubscribeAt' = SubscribeAt /\ Handled' = Handled
    BY <1>1, <1>6 DEF Answers, SubscribeAt, Handled
  <2>2. OneRequestUnderWay'
    BY <1>1, <1>6, <2>1 DEF WireInv, OneRequestUnderWay
  <2>3. RequestIsHonest'
    BY <1>1, <1>3, <1>6, <2>1 DEF WireInv, RequestIsHonest, NoCancelAfter, Cancels
  <2>4. ConfirmedIsServed'
    BY <1>1, <1>4, <1>6 DEF WireInv, ConfirmedIsServed, Cancels
  <2>5. SessionIsFresh'
    <3>1. phase' = "offline" => phase = "offline"
      BY <1>6
    <3>2. phase = "offline" => confirmed' = Nothing
      BY <1>1, <1>2 DEF WireInv, SessionIsFresh, Nothing
    <3>3. QED
      BY <1>1, <1>6, <3>1, <3>2 DEF WireInv, SessionIsFresh
  <2>6. QED
    BY <1>5, <2>2, <2>3, <2>4, <2>5 DEF WireInv
<1>7. CASE Transmit(frame) /\ (all \/ ids # {})
  <2>1. ids \subseteq Sids
    BY <1>2 DEF SidToCancel, TypeOK, Request, IdOrNone
  <2>2. /\ Len(toServer) \in Nat
        /\ Len(toServer') = Len(toServer) + 1
        /\ \A i \in 1 .. Len(toServer) : toServer'[i] = toServer[i]
        /\ toServer'[Len(toServer) + 1] = frame
    <3>1. frame \in Frame
      BY <2>1 DEF Frame
    <3>2. QED
      BY <1>7, <3>1, AppendFrame DEF Transmit
  <2>3. \A c \in Codes \ removed : \A s \in KnownSids(c) :
          s # NoSid /\ ~all => ~ Cancels(frame, s)
    <3> SUFFICES ASSUME NEW c \in Codes \ removed, NEW s \in KnownSids(c),
                        s # NoSid, ~all
                 PROVE  ~ Cancels(frame, s)
      OBVIOUS
    <3>1. ASSUME NEW d \in removed PROVE SidToCancel(d) # s
      <4>1. d \in Codes /\ d # c
        BY <1>2
      <4>2. SidToCancel(d) \in KnownSids(d)
        BY <4>1 DEF SidToCancel, WireInv, IdsFromCatalogue, KnownSids
      <4>3. QED
        BY <4>1, <4>2, DistinctIds
    <3>2. s \notin ids
      BY <3>1
    <3>3. QED
      BY <1>7, <3>2 DEF Cancels
  <2>4. \A c \in Codes : Wanted(c) /\ c \notin removed => ~all
    BY DEF WantedCodes
  <2>5. SubscribeAt' = SubscribeAt
    BY <2>2 DEF SubscribeAt
  <2>6. Answers' = Answers /\ Handled' = Handled
    BY <1>1 DEF Answers, Handled
  <2>7. OneRequestUnderWay'
    <3>1. \A i \in SubscribeAt : toServer'[i] = toServer[i]
      BY <2>2 DEF SubscribeAt
    <3>2. phase' = phase
      BY <1>7 DEF Transmit
    <3>3. QED
      BY <1>1, <2>5, <2>6, <3>1, <3>2 DEF WireInv, OneRequestUnderWay
  <2>8. RequestIsHonest'
    <3> SUFFICES ASSUME NEW c \in Current'
                 PROVE  /\ \A i \in SubscribeAt' : NoCancelAfter(i, inflight.sid[c])'
                        /\ \A x \in Answers' : inflight.sid[c] \in x =>
                             /\ inflight.sid[c] \in serverSubs'
                             /\ NoCancelAfter(0, inflight.sid[c])'
      BY <1>1 DEF RequestIsHonest, NoCancelAfter
    <3>1. c \in Current /\ c \in Codes /\ c \notin removed /\ Wanted(c)
      BY <1>3 DEF Current
    <3>2. ~ Cancels(frame, inflight.sid[c])
      BY <2>3, <2>4, <3>1 DEF WireInv, IdsFromCatalogue, Current
    <3>3. ASSUME NEW i \in Nat, NoCancelAfter(i, inflight.sid[c])
          PROVE  NoCancelAfter(i, inflight.sid[c])'
      <4>1. \A j \in 1 .. Len(toServer') : j > i => ~ Cancels(toServer'[j], inflight.sid[c])
        BY <2>2, <3>2, <3>3 DEF NoCancelAfter
      <4>2. QED
        BY <1>1, <4>1 DEF NoCancelAfter, Cancels
    <3>4. \A i \in SubscribeAt : i \in Nat
      BY DEF SubscribeAt
    <3>5. QED
      BY <1>1, <2>5, <2>6, <3>1, <3>3, <3>4 DEF WireInv, RequestIsHonest
  <2>9. ConfirmedIsServed'
    <3> SUFFICES ASSUME NEW c \in Codes, confirmed'[c] # NoSid
                 PROVE  /\ confirmed'[c] \in serverSubs'
                        /\ \A i \in 1 .. Len(toServer') :
                             ~ Cancels(toServer'[i], confirmed'[c])
      BY DEF ConfirmedIsServed, Cancels
    <3>1. confirmed'[c] = confirmed[c] /\ c \notin removed /\ ~all
      BY <1>4, <2>4
    <3>2. ~ Cancels(frame, confirmed[c])
      BY <2>3, <3>1 DEF WireInv, IdsFromCatalogue
    <3>3. QED
      BY <1>1, <2>2, <3>1, <3>2 DEF WireInv, ConfirmedIsServed
  <2>10. SessionIsFresh'
    BY <1>1, <1>7 DEF Transmit, LinkUp, WireInv, SessionIsFresh
  <2>11. QED
    BY <1>5, <2>7, <2>8, <2>9, <2>10 DEF WireInv
<1>8. QED
  <2>1. CASE authenticated /\ (all \/ ids # {})
    <3>1. Transmit(frame) \/ SendFails
      BY <2>1 DEF Unsubscribe
    <3>2. CASE SendFails
      <4>1. UNCHANGED toServer
        BY <3>2 DEF SendFails
      <4>2. phase' \in {phase} \/ (phase' = "lost" /\ phase # "offline")
        BY <3>2 DEF SendFails, LinkUp
      <4>3. QED
        BY <1>6, <4>1, <4>2
    <3>3. QED
      BY <1>7, <2>1, <3>1, <3>2
  <2>2. CASE ~(authenticated /\ (all \/ ids # {}))
    <3>1. UNCHANGED <<authenticated, phase, toServer>>
      BY <2>2 DEF Unsubscribe
    <3>2. UNCHANGED toServer /\ phase' \in {phase}
      BY <3>1
    <3>3. QED
      BY <1>6, <3>2
  <2>3. QED
    BY <2>1, <2>2

\* The server applies a SUBSCRIBE: its answer is what it serves.
LEMMA ServeSubscribe ==
  ASSUME TypeOK, LedgerInv, WireInv, ServerHandle, Head(toServer).kind = "subscribe"
  PROVE  WireInv'
<1> DEFINE ids == Head(toServer).ids
<1>1. /\ toServer # <<>> /\ toServer' = Tail(toServer)
      /\ toClient' = Append(toClient, serverSubs')
      /\ \E granted \in SUBSET ids : serverSubs' = (serverSubs \ ids) \cup granted
      /\ UNCHANGED <<desired, confirmed, inflight, handling, session, phase, authenticated>>
  BY DEF ServerHandle, intentVars, answerVars
<1>2. /\ Len(toServer) \in Nat \ {0}
      /\ Len(toServer') = Len(toServer) - 1
      /\ \A i \in 1 .. Len(toServer') : toServer'[i] = toServer[i + 1]
      /\ Head(toServer) = toServer[1]
  BY <1>1, TailFrame
<1>3. 1 \in SubscribeAt
  BY <1>2 DEF SubscribeAt
<1>4. /\ toClient = <<>> /\ Handled = {} /\ Answers = {} /\ phase # "offline"
      /\ ids = {inflight.sid[c] : c \in inflight.requested}
      /\ SubscribeAt = {1}
  BY <1>1, <1>2, <1>3 DEF WireInv, OneRequestUnderWay, Answers, SessionIsFresh
<1>5. inflight # NoRequest
  BY <1>3, <1>4 DEF WireInv, OneRequestUnderWay
<1>6. toClient' = <<serverSubs'>>
  BY <1>1, <1>4
<1>7. SubscribeAt' = {}
  <2> SUFFICES ASSUME NEW i \in SubscribeAt' PROVE FALSE
    OBVIOUS
  <2>1. i \in 1 .. Len(toServer') /\ toServer'[i].kind = "subscribe"
    BY DEF SubscribeAt
  <2>2. i + 1 \in SubscribeAt
    BY <1>2, <2>1 DEF SubscribeAt
  <2>3. QED
    BY <1>4, <2>1, <2>2
<1>8. Handled' = {} /\ Answers' = {serverSubs'}
  <2>1. Handled' = {}
    BY <1>1, <1>4 DEF Handled
  <2>2. Len(toClient') = 1 /\ toClient'[1] = serverSubs'
    BY <1>6
  <2>3. 1 .. Len(toClient') = {1}
    BY <2>2
  <2>4. {toClient'[i] : i \in 1 .. Len(toClient')} = {serverSubs'}
    BY <2>2, <2>3
  <2>5. QED
    BY <2>1, <2>4 DEF Answers
<1>9. \A s : NoCancelAfter(1, s) => NoCancelAfter(0, s)'
  <2> SUFFICES ASSUME NEW s, NoCancelAfter(1, s),
                      NEW j \in 1 .. Len(toServer')
               PROVE  ~ Cancels(toServer'[j], s)
    BY DEF NoCancelAfter, Cancels
  <2>1. j + 1 \in 1 .. Len(toServer) /\ j + 1 > 1 /\ toServer'[j] = toServer[j + 1]
    BY <1>2
  <2>2. QED
    BY <2>1 DEF NoCancelAfter
<1>10. OneRequestUnderWay'
  <2>1. Len(toClient') <= 1
    BY <1>6
  <2>2. inflight' # NoRequest
    BY <1>1, <1>5
  <2>3. QED
    BY <1>7, <1>8, <2>1, <2>2 DEF OneRequestUnderWay
<1>11. RequestIsHonest'
  <2>1. Current' = Current
    BY <1>1 DEF Current, Wanted
  <2> SUFFICES ASSUME NEW c \in Current
               PROVE  NoCancelAfter(0, inflight.sid[c])'
    BY <1>1, <1>7, <1>8, <2>1 DEF RequestIsHonest, NoCancelAfter
  <2>2. NoCancelAfter(1, inflight.sid[c])
    BY <1>3 DEF WireInv, RequestIsHonest
  <2>3. \A j \in 1 .. Len(toServer') : j > 0 => ~ Cancels(toServer'[j], inflight.sid[c])
    BY <1>2, <2>2 DEF NoCancelAfter
  <2>4. QED
    BY <1>1, <2>3 DEF NoCancelAfter, Cancels
<1>12. ConfirmedIsServed'
  <2> SUFFICES ASSUME NEW c \in Codes, confirmed[c] # NoSid
               PROVE  confirmed[c] \in serverSubs'
                      /\ \A i \in 1 .. Len(toServer') : ~ Cancels(toServer'[i], confirmed[c])
    BY <1>1 DEF ConfirmedIsServed, Cancels
  <2>1. c \notin inflight.requested
    BY <1>5 DEF LedgerInv, OneStatus, SnapshotIsExact, InFlight
  <2>2. confirmed[c] \notin ids
    <3> SUFFICES ASSUME NEW d \in inflight.requested PROVE inflight.sid[d] # confirmed[c]
      BY <1>4
    <3>1. d \in Codes /\ d # c
      BY <2>1 DEF TypeOK, Request
    <3>2. QED
      BY <3>1, DistinctIds DEF WireInv, IdsFromCatalogue
  <2>3. confirmed[c] \in serverSubs /\ NoCancelAfter(1, confirmed[c])
    BY DEF WireInv, ConfirmedIsServed, NoCancelAfter
  <2>4. QED
    BY <1>1, <1>9, <2>2, <2>3 DEF NoCancelAfter, Cancels
<1>13. IdsFromCatalogue' /\ SessionIsFresh'
  BY <1>1, <1>4 DEF WireInv, IdsFromCatalogue, KnownSids, SessionIsFresh
<1>14. QED
  BY <1>10, <1>11, <1>12, <1>13 DEF WireInv

\* The server applies an UNSUBSCRIBE, which cancels nothing that is current.
LEMMA ServeUnsubscribe ==
  ASSUME TypeOK, WireInv, ServerHandle, Head(toServer).kind = "unsubscribe"
  PROVE  WireInv'
<1> DEFINE frame == Head(toServer)
<1>1. /\ toServer # <<>> /\ toServer' = Tail(toServer)
      /\ serverSubs' = IF frame.ids = {} THEN {} ELSE serverSubs \ frame.ids
      /\ UNCHANGED <<desired, confirmed, inflight, toClient, handling, session, phase,
                     authenticated>>
  BY DEF ServerHandle, intentVars, answerVars
<1>2. /\ Len(toServer) \in Nat \ {0}
      /\ Len(toServer') = Len(toServer) - 1
      /\ \A i \in 1 .. Len(toServer') : toServer'[i] = toServer[i + 1]
      /\ frame = toServer[1]
  BY <1>1, TailFrame
<1>3. \A i \in SubscribeAt' : i \in Nat /\ i + 1 \in SubscribeAt
                              /\ toServer'[i] = toServer[i + 1]
  BY <1>2 DEF SubscribeAt
<1>4. Answers' = Answers /\ Handled' = Handled
  BY <1>1 DEF Answers, Handled
<1>5. ASSUME NEW i \in Nat, NEW s, NoCancelAfter(i + 1, s) PROVE NoCancelAfter(i, s)'
  <2> SUFFICES ASSUME NEW j \in 1 .. Len(toServer'), j > i
               PROVE  ~ Cancels(toServer'[j], s)
    BY DEF NoCancelAfter, Cancels
  <2>1. j + 1 \in 1 .. Len(toServer) /\ j + 1 > i + 1 /\ toServer'[j] = toServer[j + 1]
    BY <1>2
  <2>2. QED
    BY <1>5, <2>1 DEF NoCancelAfter
<1>6. ASSUME NEW s \in serverSubs, NoCancelAfter(0, s)
      PROVE  s \in serverSubs' /\ NoCancelAfter(0, s)'
  <2>1. ~ Cancels(frame, s)
    BY <1>2, <1>6 DEF NoCancelAfter
  <2>2. NoCancelAfter(0 + 1, s)
    BY <1>6 DEF NoCancelAfter
  <2>3. QED
    BY <1>1, <1>5, <2>1, <2>2 DEF Cancels
<1>7. OneRequestUnderWay'
  <2>1. \A i, j \in SubscribeAt' : i = j
    <3> SUFFICES ASSUME NEW i \in SubscribeAt', NEW j \in SubscribeAt' PROVE i = j
      OBVIOUS
    <3>1. i + 1 = j + 1
      BY <1>3 DEF WireInv, OneRequestUnderWay
    <3>2. QED
      BY <1>3, <3>1
  <2>2. SubscribeAt' # {} => SubscribeAt # {}
    BY <1>3
  <2>3. \A i \in SubscribeAt' :
          toServer'[i].ids = {inflight.sid[c] : c \in inflight.requested}
    BY <1>3 DEF WireInv, OneRequestUnderWay
  <2>4. QED
    BY <1>1, <1>4, <2>1, <2>2, <2>3 DEF WireInv, OneRequestUnderWay
<1>8. RequestIsHonest'
  <2> SUFFICES ASSUME NEW c \in Current'
               PROVE  /\ \A i \in SubscribeAt' : NoCancelAfter(i, inflight.sid[c])'
                      /\ \A x \in Answers' : inflight.sid[c] \in x =>
                           /\ inflight.sid[c] \in serverSubs'
                           /\ NoCancelAfter(0, inflight.sid[c])'
    BY <1>1 DEF RequestIsHonest, NoCancelAfter
  <2>1. c \in Current
    BY <1>1 DEF Current, Wanted
  <2>2. ASSUME NEW i \in SubscribeAt' PROVE NoCancelAfter(i, inflight.sid[c])'
    <3>1. i \in Nat /\ NoCancelAfter(i + 1, inflight.sid[c])
      BY <1>3, <2>1 DEF WireInv, RequestIsHonest
    <3>2. NoCancelAfter(i, inflight.sid[c])'
      BY <1>1, <1>5, <3>1 DEF NoCancelAfter
    <3>3. QED
      BY <3>2
  <2>3. ASSUME NEW x \in Answers', inflight.sid[c] \in x
        PROVE  inflight.sid[c] \in serverSubs' /\ NoCancelAfter(0, inflight.sid[c])'
    <3>1. inflight.sid[c] \in serverSubs /\ NoCancelAfter(0, inflight.sid[c])
      BY <1>4, <2>1, <2>3 DEF WireInv, RequestIsHonest
    <3>2. QED
      BY <1>1, <1>6, <3>1 DEF NoCancelAfter
  <2>4. QED
    BY <2>2, <2>3
<1>9. ConfirmedIsServed'
  <2> SUFFICES ASSUME NEW c \in Codes, confirmed[c] # NoSid
               PROVE  confirmed[c] \in serverSubs'
                      /\ \A i \in 1 .. Len(toServer') : ~ Cancels(toServer'[i], confirmed[c])
    BY <1>1 DEF ConfirmedIsServed, Cancels
  <2>1. confirmed[c] \in serverSubs /\ NoCancelAfter(0, confirmed[c])
    BY DEF WireInv, ConfirmedIsServed, NoCancelAfter
  <2>2. QED
    BY <1>1, <1>6, <2>1 DEF NoCancelAfter, Cancels
<1>10. IdsFromCatalogue' /\ SessionIsFresh'
  <2>1. phase # "offline"
    BY <1>1 DEF WireInv, SessionIsFresh
  <2>2. QED
    BY <1>1, <2>1 DEF WireInv, IdsFromCatalogue, KnownSids, SessionIsFresh
<1>11. QED
  BY <1>7, <1>8, <1>9, <1>10 DEF WireInv

\* A step that only moves or drops answers under way.
LEMMA AnswerStep ==
  ASSUME WireInv,
         UNCHANGED <<desired, confirmed, inflight, toServer, serverSubs, session,
                     phase, authenticated>>,
         Answers' \subseteq Answers, Len(toClient') <= 1,
         \A g, h \in Handled' : g = h,
         toClient' # <<>> => Handled' = {},
         SubscribeAt # {} => toClient' = <<>> /\ Handled' = {},
         phase = "offline" => toClient' = <<>>,
         \A h \in handling' : h.session <= session
  PROVE  WireInv'
<1>1. IdsFromCatalogue' /\ ConfirmedIsServed' /\ SessionIsFresh'
  BY DEF WireInv, IdsFromCatalogue, KnownSids, ConfirmedIsServed, Cancels,
         SessionIsFresh
<1>2. SubscribeAt' = SubscribeAt /\ Current' = Current
  BY DEF SubscribeAt, Current, Wanted
<1>3. OneRequestUnderWay'
  BY <1>2 DEF WireInv, OneRequestUnderWay
<1>4. RequestIsHonest'
  <2>1. \A c \in Current : \A i \in SubscribeAt : NoCancelAfter(i, inflight.sid[c])
    BY DEF WireInv, RequestIsHonest
  <2>2. \A c \in Current : \A ids \in Answers' : inflight.sid[c] \in ids =>
          inflight.sid[c] \in serverSubs /\ NoCancelAfter(0, inflight.sid[c])
    BY DEF WireInv, RequestIsHonest
  <2>3. QED
    BY <1>2, <2>1, <2>2 DEF RequestIsHonest, NoCancelAfter, Cancels
<1>5. QED
  BY <1>1, <1>3, <1>4 DEF WireInv

\* The one answer moves from the wire into its handler.
LEMMA ReceiveKeepsWires ==
  ASSUME TypeOK, WireInv, ReceiveAck
  PROVE  WireInv'
<1> DEFINE ack == [session |-> session, ids |-> Head(toClient)]
<1>1. /\ phase # "offline" /\ toClient # <<>>
      /\ toClient' = Tail(toClient)
      /\ handling' = handling \cup {ack}
      /\ UNCHANGED <<desired, confirmed, inflight, toServer, serverSubs, session,
                     phase, authenticated>>
  BY DEF ReceiveAck, Receiving, intentVars, answerVars
<1>2. toClient \in Seq(SUBSET Sids) /\ session \in Nat
  BY DEF TypeOK
<1>3. Len(toClient) <= 1
  BY DEF WireInv, OneRequestUnderWay
<1>4. Len(toClient) \in Nat /\ Head(toClient) = toClient[1] /\ Len(toClient) = 1
  <2>1. Len(toClient) \in Nat /\ Len(toClient) # 0
    BY <1>1, <1>2, EmptySeq
  <2>2. Head(toClient) = toClient[1]
    BY <1>1, <1>2, HeadTailProperties
  <2>3. \A n \in Nat : n <= 1 /\ n # 0 => n = 1
    OBVIOUS
  <2>4. Len(toClient) = 1
    BY <1>3, <2>1, <2>3, Zenon
  <2>5. QED
    BY <2>1, <2>2, <2>4, Zenon
<1>5. toClient' \in Seq(SUBSET Sids) /\ Len(toClient') = 0
  BY <1>1, <1>2, <1>4, HeadTailProperties
<1>6. toClient' = <<>>
  BY <1>5, EmptySeq
<1>7. Handled = {} /\ SubscribeAt = {}
  BY <1>1 DEF WireInv, OneRequestUnderWay
<1>8. Handled' = {ack}
  BY <1>1, <1>7 DEF Handled
<1>9. Answers' \subseteq Answers
  <2>1. {toClient'[i] : i \in 1 .. Len(toClient')} = {}
    BY <1>5
  <2>2. Answers' = {toClient[1]}
    BY <1>4, <1>8, <2>1 DEF Answers
  <2>3. toClient[1] \in Answers
    BY <1>4 DEF Answers
  <2>4. QED
    BY <2>2, <2>3
<1>10. \A h \in handling' : h.session <= session
  BY <1>1, <1>2 DEF WireInv, SessionIsFresh
<1>11. QED
  BY <1>1, <1>5, <1>6, <1>7, <1>8, <1>9, <1>10, AnswerStep

\* The answer is read: what it confirms is served, and the next request may go.
LEMMA HandleKeepsWires ==
  ASSUME TypeOK, WireInv, NEW h \in handling, HandleAck(h)
  PROVE  WireInv'
<1>1. /\ handling' = handling \ {h}
      /\ UNCHANGED <<desired, symbolMap, session, serverSubs, toClient>>
  BY DEF HandleAck, intentVars, mapVars
<1>2. CASE ~AckIsCurrent(h)
  <2>1. UNCHANGED <<confirmed, inflight, authenticated, phase, toServer>>
    BY <1>2 DEF HandleAck, answerVars
  <2>2. Handled' \subseteq Handled /\ Answers' \subseteq Answers
    BY <1>1 DEF Handled, Answers
  <2>3. /\ Len(toClient') <= 1
        /\ \A f, g \in Handled' : f = g
        /\ toClient' # <<>> => Handled' = {}
        /\ SubscribeAt # {} => toClient' = <<>> /\ Handled' = {}
        /\ phase = "offline" => toClient' = <<>>
        /\ \A g \in handling' : g.session <= session
    BY <1>1, <2>2 DEF WireInv, OneRequestUnderWay, SessionIsFresh
  <2>4. QED
    BY <1>1, <2>1, <2>2, <2>3, AnswerStep
<1>3. CASE AckIsCurrent(h)
  <2> DEFINE accepted == {c \in Current : inflight.sid[c] \in h.ids}
             r == Sendable(queue)
  <2>1. /\ confirmed' = [c \in Codes |-> IF c \in accepted
                                          THEN inflight.sid[c] ELSE NoSid]
        /\ Flush(queue, NoRequest)
    BY <1>3 DEF HandleAck
  <2>2. h \in Handled /\ phase # "offline"
    BY <1>3 DEF AckIsCurrent, Handled, WireInv, SessionIsFresh
  <2>3. /\ toClient = <<>> /\ SubscribeAt = {}
        /\ \A g \in Handled : g = h
    BY <2>2 DEF WireInv, OneRequestUnderWay
  <2>4. Handled' = {} /\ toClient' = <<>>
    BY <1>1, <2>3 DEF Handled
  <2>5. h.ids \in Answers
    BY <2>2 DEF Answers
  <2>6. \A c \in Codes : confirmed'[c] \in KnownSids(c)
    BY <2>1 DEF WireInv, IdsFromCatalogue, KnownSids
  <2>7. \A c \in Codes : confirmed'[c] # NoSid =>
          confirmed'[c] \in serverSubs /\ NoCancelAfter(0, confirmed'[c])
    BY <2>1, <2>5 DEF WireInv, RequestIsHonest
  <2>8. \A g \in handling' : g.session <= session'
    BY <1>1 DEF WireInv, SessionIsFresh
  <2>9. ASSUME UNCHANGED toServer, inflight' = NoRequest, phase' # "offline"
        PROVE  WireInv'
    <3>1. SubscribeAt' = {}
      BY <2>3, <2>9 DEF SubscribeAt
    <3>2. ConfirmedIsServed'
      BY <1>1, <2>7, <2>9 DEF ConfirmedIsServed, NoCancelAfter, Cancels
    <3>3. QED
      BY <2>4, <2>6, <2>8, <2>9, <3>1, <3>2, IdleStep
  <2>10. CASE ~MayRequest(NoRequest, r)
    <3>1. UNCHANGED toServer /\ inflight' = NoRequest /\ phase' # "offline"
      BY <2>1, <2>2, <2>10 DEF Flush
    <3>2. QED
      BY <2>9, <3>1
  <2>11. CASE SendFails /\ inflight' = NoRequest
    <3>1. UNCHANGED toServer /\ inflight' = NoRequest /\ phase' # "offline"
      BY <2>2, <2>11 DEF SendFails
    <3>2. QED
      BY <2>9, <3>1
  <2>12. CASE MayRequest(NoRequest, r) /\ inflight' = NewRequest(r)
              /\ Transmit([kind |-> "subscribe", ids |-> {symbolMap'[c] : c \in r}])
    <3>1. r \subseteq Codes /\ \A c \in r : symbolMap'[c] # NoSid
      BY DEF Sendable, TypeOK
    <3>2. r # {} /\ phase' # "offline"
      BY <2>2, <2>12 DEF MayRequest, Transmit
    <3>3. symbolMap' \in Catalogues \cup {InitialMap}
      BY <1>1 DEF TypeOK
    <3>4. \A c \in Codes : confirmed'[c] # NoSid =>
            confirmed'[c] \in serverSubs' /\ NoCancelAfter(0, confirmed'[c])
      BY <1>1, <2>7
    <3>5. toServer' = Append(toServer, [kind |-> "subscribe",
                                        ids |-> {symbolMap'[c] : c \in r}])
      BY <2>12 DEF Transmit
    <3>6. QED
      BY <2>3, <2>4, <2>6, <2>8, <2>12, <3>1, <3>2, <3>3, <3>4, <3>5, RequestStep
  <2>13. QED
    BY <2>1, <2>10, <2>11, <2>12 DEF Flush
<1>4. QED
  BY <1>2, <1>3

\* Every step keeps the client and the server in agreement.
LEMMA WireStep ==
  ASSUME TypeOK, LedgerInv, WireInv, [Next]_vars
  PROVE  WireInv'
<1>a. symbolMap \in Catalogues \cup {InitialMap}
  BY DEF TypeOK
<1>b. UNCHANGED desired /\ UNCHANGED inflight => Current' = Current
  BY DEF Current, Wanted
<1>1. ASSUME NEW S \in SUBSET Codes, Subscribe(S) PROVE WireInv'
  <2> DEFINE q == queue \cup {c \in S : confirmed[c] = NoSid /\ ~AlreadySent(c)}
  <2>1. /\ Flush(q, inflight)
        /\ UNCHANGED <<confirmed, symbolMap, session, toClient, handling, serverSubs>>
    BY <1>1 DEF Subscribe, mapVars, wireVars
  <2>2. q \subseteq Codes
    BY DEF TypeOK
  <2>3. \A c \in Codes : \/ desired'[c] = desired[c]
                         \/ desired'[c] = revision + 1
    BY <1>1 DEF Subscribe, intentVars, TypeOK
  <2>4. \A c \in Codes : inflight.rev[c] \in Nat /\ inflight.rev[c] <= revision
    BY DEF LedgerInv, SnapshotIsExact, TypeOK, Request
  <2>5. revision \in Nat
    BY DEF TypeOK
  <2>6. inflight' = inflight => Current' \subseteq Current
    BY <2>3, <2>4, <2>5 DEF Current, Wanted
  <2>7. QED
    BY <1>a, <2>1, <2>2, <2>6, FlushKeepsWires
<1>2. ASSUME NEW S \in SUBSET Codes, NEW all \in BOOLEAN, Unsubscribe(S, all)
      PROVE  WireInv'
  BY <1>2, UnsubscribeKeepsWires
<1>3. CASE Close
  BY <1>3, ResetKeepsWires DEF Close, ClearWires, TypeOK
<1>4. CASE HandleDisconnected
  BY <1>4, ResetKeepsWires DEF HandleDisconnected, ClearWires, TypeOK
<1>5. CASE Reconnect
  <2>1. toServer' = <<>> /\ toClient' = <<>>
    BY <1>5 DEF Reconnect, wireVars, WireInv, SessionIsFresh
  <2>2. QED
    BY <1>5, <2>1, ResetKeepsWires DEF Reconnect, wireVars, TypeOK
<1>6. CASE FindConnected
  <2>1. /\ UNCHANGED <<desired, confirmed, inflight, toServer, toClient, handling,
                       serverSubs, session>>
        /\ phase = "restoring" /\ phase' = "up"
    BY <1>6 DEF FindConnected, intentVars, answerVars, wireVars
  <2>2. QED
    BY <1>b, <2>1, QuietStep
<1>7. ASSUME NEW r \in restorers, Resume(r) PROVE WireInv'
  <2>1. /\ Flush(queue, inflight) /\ queue \subseteq Codes
        /\ UNCHANGED <<desired, confirmed, symbolMap, session, toClient, handling,
                       serverSubs>>
    BY <1>7 DEF Resume, intentVars, mapVars, wireVars, TypeOK
  <2>2. QED
    BY <1>a, <1>b, <2>1, FlushKeepsWires
<1>8. CASE ReceiveAck
  BY <1>8, ReceiveKeepsWires
<1>9. ASSUME NEW h \in handling, HandleAck(h) PROVE WireInv'
  BY <1>9, HandleKeepsWires
<1>10. ASSUME NEW m \in Catalogues, HandleSymbolMap(m) \/ RefreshInstall(m)
       PROVE  WireInv'
  <2>1. /\ Flush(queue, inflight) /\ queue \subseteq Codes /\ symbolMap' = m
        /\ UNCHANGED <<desired, confirmed, session, toClient, handling, serverSubs>>
    BY <1>10 DEF HandleSymbolMap, RefreshInstall, intentVars, wireVars, TypeOK
  <2>2. QED
    BY <1>b, <2>1, FlushKeepsWires
<1>11. ASSUME UNCHANGED <<desired, confirmed, inflight, toServer, toClient, handling,
                          serverSubs, session>>,
              phase' = phase \/ (LinkUp /\ phase' = "lost")
       PROVE  WireInv'
  <2>1. Current' \subseteq Current
    BY <1>b, <1>11
  <2>2. phase' = "offline" <=> phase = "offline"
    BY <1>11 DEF LinkUp
  <2>3. QED
    BY <1>11, <2>1, <2>2, QuietStep
<1>12. ASSUME \/ RefreshStart \/ RefreshGiveUp \/ UNCHANGED vars \/ FinishRestore
              \/ \E r \in restorers : Authenticate(r)
       PROVE  WireInv'
  <2>1. UNCHANGED <<desired, confirmed, inflight, toServer, toClient, handling,
                    serverSubs, session, phase>>
    BY <1>12 DEF RefreshStart, RefreshGiveUp, Authenticate, FinishRestore, vars,
                 intentVars, answerVars, wireVars
  <2>2. QED
    BY <1>11, <2>1
<1>13. CASE Drop
  <2>1. /\ UNCHANGED <<desired, confirmed, inflight, toServer, toClient, handling,
                       serverSubs, session>>
        /\ LinkUp /\ phase' = "lost"
    BY <1>13 DEF Drop, intentVars, answerVars, wireVars
  <2>2. QED
    BY <1>11, <2>1
<1>14. CASE ServerHandle
  <2>1. Head(toServer).kind = "subscribe" \/ Head(toServer).kind = "unsubscribe"
    BY <1>14 DEF ServerHandle
  <2>2. QED
    BY <1>14, <2>1, ServeSubscribe, ServeUnsubscribe
<1>15. QED
  BY <1>1, <1>2, <1>3, <1>4, <1>5, <1>6, <1>7, <1>8, <1>9, <1>10, <1>12, <1>13,
     <1>14 DEF Next, UserStep, ClientStep

\* The wires keep their invariant.
LEMMA WireCorrect == Spec => []WireInv
<1>1. Init => WireInv
  <2> SUFFICES ASSUME Init PROVE WireInv
    OBVIOUS
  <2>1. SubscribeAt = {} /\ Answers = {} /\ Handled = {} /\ Current = {}
    BY DEF Init, SubscribeAt, Answers, Handled, Current, Wanted
  <2>2. IdsFromCatalogue /\ ConfirmedIsServed /\ RequestIsHonest
    BY <2>1 DEF Init, IdsFromCatalogue, KnownSids, ConfirmedIsServed,
                RequestIsHonest, NoRequest, Nothing
  <2>3. OneRequestUnderWay /\ SessionIsFresh
    BY <2>1 DEF Init, OneRequestUnderWay, SessionIsFresh
  <2>4. QED
    BY <2>2, <2>3 DEF WireInv
<1>2. TypeOK /\ LedgerInv /\ WireInv /\ [Next]_vars => WireInv'
  BY WireStep
<1>3. QED
  BY <1>1, <1>2, TypeCorrect, LedgerCorrect, PTL DEF Spec

\* What the client reports as confirmed is served, and no frame under way ends it.
THEOREM ConfirmedAgrees == Spec => []ConfirmedIsServed
<1>1. WireInv => ConfirmedIsServed
  BY DEF WireInv
<1>2. QED
  BY <1>1, WireCorrect, PTL

-----------------------------------------------------------------------------
(***************************************************************************)
(* The server serves nothing behind the client's back.                     *)
(***************************************************************************)

(***************************************************************************)
(* The inductive invariant.  Its parts are operators of the intents d, the *)
(* confirmations cf, the unanswered request inf, the frames ts under way   *)
(* and the ids subs the server serves, so that they can be stated of the   *)
(* values a critical section has half way.                                 *)
(***************************************************************************)
SubscribesIn(ts) == {i \in 1 .. Len(ts) : ts[i].kind = "subscribe"}

\* A cancel of s is under way behind frame i.
CancelIn(ts, i, s) == \E j \in 1 .. Len(ts) : j > i /\ Cancels(ts[j], s)

\* The server serves nothing else.
Known(cf, inf, ts, subs) ==
  \A s \in subs : \/ \E c \in Codes : cf[c] = s
                  \/ \E c \in inf.requested : inf.sid[c] = s
                  \/ CancelIn(ts, 0, s)

\* The request carries the current intent of c.
Carries(d, inf, c) == inf.sid[c] # NoSid /\ d[c] # 0 /\ d[c] = inf.rev[c]

\* The server's subscription to s ends after what is under way.
Withdrawn(ts, subs, s) ==
  /\ \A i \in SubscribesIn(ts) : CancelIn(ts, i, s)
  /\ SubscribesIn(ts) = {} => s \notin subs \/ CancelIn(ts, 0, s)

\* What the answer will not confirm ends on the server as well.
Withdrawing(d, inf, ts, subs) ==
  \A c \in inf.requested : Carries(d, inf, c) \/ Withdrawn(ts, subs, inf.sid[c])

\* Before AUTH the session is blank, and an answer under way contains whatever the
\* server serves.
ServedInv ==
  /\ authenticated /\ LinkUp =>
       /\ Known(confirmed, inflight, toServer, serverSubs)
       /\ Withdrawing(desired, inflight, toServer, serverSubs)
  /\ LinkUp /\ ~authenticated =>
       serverSubs = {} /\ toServer = <<>> /\ inflight = NoRequest
  /\ phase = "offline" => serverSubs = {}
  /\ \A ids \in Answers : serverSubs \subseteq ids

-----------------------------------------------------------------------------
\* The invariant of the next state, part by part.
LEMMA ServedParts ==
  ASSUME authenticated' /\ LinkUp' =>
           /\ Known(confirmed', inflight', toServer', serverSubs')
           /\ Withdrawing(desired', inflight', toServer', serverSubs'),
         LinkUp' /\ ~authenticated' =>
           serverSubs' = {} /\ toServer' = <<>> /\ inflight' = NoRequest,
         phase' = "offline" => serverSubs' = {},
         \A ids \in Answers' : serverSubs' \subseteq ids
  PROVE  ServedInv'
BY DEF ServedInv, Known, Withdrawing, Carries, Withdrawn, CancelIn, SubscribesIn,
       Cancels

\* A frame sent after a cancel does not undo it.
LEMMA CancelStays ==
  ASSUME TypeOK, NEW f \in Frame, toServer' = Append(toServer, f),
         NEW i \in Nat, NEW s, CancelIn(toServer, i, s)
  PROVE  CancelIn(toServer', i, s)
BY AppendFrame DEF CancelIn

\* A critical section reaches its flush with the invariant, and leaves it.
LEMMA FlushKeepsServed ==
  ASSUME TypeOK, NEW q, q \subseteq Codes, NEW inf, Flush(q, inf),
         symbolMap' \in Catalogues \cup {InitialMap},
         UNCHANGED <<serverSubs, session>>,
         authenticated /\ LinkUp =>
           /\ Known(confirmed', inf, toServer, serverSubs)
           /\ Withdrawing(desired', inf, toServer, serverSubs),
         LinkUp /\ ~authenticated =>
           serverSubs = {} /\ toServer = <<>> /\ inf = NoRequest,
         phase = "offline" => serverSubs = {},
         \A ids \in Answers' : serverSubs \subseteq ids
  PROVE  ServedInv'
<1> DEFINE r == Sendable(q)
           f == [kind |-> "subscribe", ids |-> {symbolMap'[c] : c \in r}]
<1>1. r \subseteq Codes
        /\ \A c \in r : symbolMap'[c] # NoSid /\ desired'[c] # 0
  BY DEF Sendable
<1>2. f \in Frame
  BY <1>1, MapAssumption DEF Frame, IdOrNone
<1> HIDE DEF r, f
<1>3. SUFFICES /\ authenticated' /\ LinkUp' =>
                    /\ Known(confirmed', inflight', toServer', serverSubs')
                    /\ Withdrawing(desired', inflight', toServer', serverSubs')
               /\ LinkUp' /\ ~authenticated' =>
                    serverSubs' = {} /\ toServer' = <<>> /\ inflight' = NoRequest
               /\ phase' = "offline" => serverSubs' = {}
  BY ServedParts
<1>4. CASE UNCHANGED <<authenticated, phase, toServer>> /\ inflight' = inf
  BY <1>4 DEF LinkUp
<1>5. CASE SendFails
  BY <1>5 DEF SendFails, LinkUp
<1>6. CASE MayRequest(inf, r) /\ Transmit(f) /\ inflight' = NewRequest(r)
  <2>1. /\ authenticated' /\ LinkUp /\ LinkUp' /\ authenticated
        /\ toServer' = Append(toServer, f)
    BY <1>6 DEF MayRequest, Transmit, LinkUp
  <2>2. inf.requested = {}
    BY <1>6 DEF MayRequest, NoRequest
  <2>3. /\ inflight'.requested = r
        /\ \A c \in r : inflight'.sid[c] = symbolMap'[c] /\ inflight'.rev[c] = desired'[c]
    BY <1>1, <1>6 DEF NewRequest
  <2>4. Known(confirmed', inflight', toServer', serverSubs')
    <3> SUFFICES ASSUME NEW s \in serverSubs
                 PROVE  (\E c \in Codes : confirmed'[c] = s) \/ CancelIn(toServer', 0, s)
      BY DEF Known
    <3>1. (\E c \in Codes : confirmed'[c] = s) \/ CancelIn(toServer, 0, s)
      BY <2>1, <2>2 DEF Known
    <3>2. QED
      BY <1>2, <2>1, <3>1, CancelStays
  <2>5. Withdrawing(desired', inflight', toServer', serverSubs')
    BY <1>1, <2>3 DEF Withdrawing, Carries
  <2>6. phase' # "offline"
    BY <2>1 DEF LinkUp
  <2>7. QED
    BY <2>1, <2>4, <2>5, <2>6
<1>7. QED
  BY <1>4, <1>5, <1>6 DEF Flush, r, f

\* A code that becomes wanted was not carried by the request.
LEMMA SubscribeKeepsServed ==
  ASSUME TypeOK, LedgerInv, ServedInv, NEW S \in SUBSET Codes, Subscribe(S)
  PROVE  ServedInv'
<1> DEFINE q == queue \cup {c \in S : confirmed[c] = NoSid /\ ~AlreadySent(c)}
<1>1. /\ Flush(q, inflight)
      /\ UNCHANGED <<confirmed, symbolMap, session, toClient, handling, serverSubs>>
  BY DEF Subscribe, mapVars, wireVars
<1>2. q \subseteq Codes
  BY DEF TypeOK
<1> HIDE DEF q
<1>3. Answers' = Answers
  BY <1>1 DEF Answers, Handled
<1>4. \A c \in Codes : desired[c] # 0 => desired'[c] = desired[c]
  BY DEF Subscribe, intentVars, Wanted, TypeOK
<1>5. inflight.requested \subseteq Codes
  BY DEF TypeOK, Request
<1>6. Withdrawing(desired, inflight, toServer, serverSubs)
        => Withdrawing(desired', inflight, toServer, serverSubs)
  BY <1>4, <1>5 DEF Withdrawing, Carries
<1>7. /\ authenticated /\ LinkUp =>
           /\ Known(confirmed', inflight, toServer, serverSubs)
           /\ Withdrawing(desired', inflight, toServer, serverSubs)
      /\ LinkUp /\ ~authenticated =>
           serverSubs = {} /\ toServer = <<>> /\ inflight = NoRequest
      /\ phase = "offline" => serverSubs = {}
      /\ \A ids \in Answers' : serverSubs \subseteq ids
  BY <1>1, <1>3, <1>6 DEF ServedInv
<1>8. symbolMap' \in Catalogues \cup {InitialMap}
  BY <1>1 DEF TypeOK
<1>9. QED
  BY <1>1, <1>2, <1>7, <1>8, FlushKeepsServed

\* The flush after a change of the catalogue, or none.
LEMMA ResumeKeepsServed ==
  ASSUME TypeOK, ServedInv, Flush(queue, inflight),
         symbolMap' \in Catalogues \cup {InitialMap},
         UNCHANGED <<desired, confirmed, session, toClient, handling, serverSubs>>
  PROVE  ServedInv'
<1>1. Answers' = Answers
  BY DEF Answers, Handled
<1>2. /\ authenticated /\ LinkUp =>
           /\ Known(confirmed', inflight, toServer, serverSubs)
           /\ Withdrawing(desired', inflight, toServer, serverSubs)
      /\ LinkUp /\ ~authenticated =>
           serverSubs = {} /\ toServer = <<>> /\ inflight = NoRequest
      /\ phase = "offline" => serverSubs = {}
      /\ \A ids \in Answers' : serverSubs \subseteq ids
  BY <1>1 DEF ServedInv
<1>3. queue \subseteq Codes
  BY DEF TypeOK
<1>4. QED
  BY <1>2, <1>3, FlushKeepsServed

\* A step that touches neither the ledger nor the wires.
LEMMA QuietKeepsServed ==
  ASSUME ServedInv,
         UNCHANGED <<desired, confirmed, inflight, toServer, serverSubs>>,
         Answers' \subseteq Answers,
         authenticated' /\ LinkUp' => LinkUp,
         LinkUp' /\ ~authenticated' => LinkUp /\ ~authenticated,
         phase' = "offline" => phase = "offline"
  PROVE  ServedInv'
<1>1. authenticated /\ LinkUp =>
        /\ Known(confirmed', inflight', toServer', serverSubs')
        /\ Withdrawing(desired', inflight', toServer', serverSubs')
  BY DEF ServedInv
<1>2. LinkUp /\ ~authenticated =>
        /\ serverSubs' = {} /\ toServer' = <<>> /\ inflight' = NoRequest
        /\ Known(confirmed', inflight', toServer', serverSubs')
        /\ Withdrawing(desired', inflight', toServer', serverSubs')
  BY DEF ServedInv, Known, Withdrawing, NoRequest
<1>3. phase' = "offline" => serverSubs' = {}
  BY DEF ServedInv
<1>4. \A ids \in Answers' : serverSubs' \subseteq ids
  BY DEF ServedInv
<1>5. QED
  BY <1>1, <1>2, <1>3, <1>4
     DEF ServedInv, Known, Withdrawing, Carries, Withdrawn, CancelIn, SubscribesIn,
         Cancels

\* A lost or closed session serves nothing, and the next one starts blank.
LEMMA ResetKeepsServed ==
  ASSUME WireInv, ServedInv, Close \/ HandleDisconnected \/ Reconnect
  PROVE  ServedInv'
<1>1. ~authenticated' /\ inflight' = NoRequest
  BY DEF Close, HandleDisconnected, Reconnect, Reset
<1>2. serverSubs' = {} /\ toServer' = <<>>
  BY DEF Close, HandleDisconnected, Reconnect, ClearWires, wireVars, ServedInv,
         WireInv, SessionIsFresh
<1>3. \A ids \in Answers' : serverSubs' \subseteq ids
  BY <1>2
<1>4. QED
  BY <1>1, <1>2, <1>3, ServedParts

\* What unsubscribe() takes from the ledger it cancels on the server.
LEMMA UnsubscribeKeepsServed ==
  ASSUME TypeOK, LedgerInv, WireInv, ServedInv,
         NEW S \in SUBSET Codes, NEW all \in BOOLEAN, Unsubscribe(S, all)
  PROVE  ServedInv'
<1> DEFINE removed == IF all THEN WantedCodes ELSE S
           ids == {SidToCancel(c) : c \in removed} \ {NoSid}
           frame == [kind |-> "unsubscribe", ids |-> IF all THEN {} ELSE ids]
<1>1. /\ desired' = [c \in Codes |-> IF c \in removed THEN 0 ELSE desired[c]]
      /\ confirmed' = [c \in Codes |-> IF c \in removed THEN NoSid ELSE confirmed[c]]
      /\ UNCHANGED <<inflight, toClient, handling, serverSubs, session>>
      /\ IF authenticated /\ (all \/ ids # {})
         THEN Transmit(frame) \/ SendFails
         ELSE UNCHANGED <<authenticated, phase, toServer>>
  BY DEF Unsubscribe, wireVars
<1>2. removed \subseteq Codes
  BY DEF WantedCodes
<1>3. ids \subseteq Sids
  BY <1>2 DEF SidToCancel, TypeOK, Request, IdOrNone
<1>4. \A c \in removed : SidToCancel(c) # NoSid => SidToCancel(c) \in ids
  OBVIOUS
<1>5. frame \in Frame /\ \A s \in ids : Cancels(frame, s)
  BY <1>3 DEF Frame, Cancels
<1>6. all => \A s : Cancels(frame, s)
  BY DEF Cancels
<1> HIDE DEF removed, ids, frame
<1>7. inflight.requested \subseteq Codes
  BY DEF TypeOK, Request
<1>8. Answers' = Answers
  BY <1>1 DEF Answers, Handled
<1>9. \A c \in Codes : confirmed[c] # NoSid /\ inflight # NoRequest =>
        inflight.sid[c] = confirmed[c]
  BY DEF LedgerInv, SnapshotIsExact
<1>10. \A c \in inflight.requested : inflight.sid[c] # NoSid
  BY <1>7 DEF LedgerInv, SnapshotIsExact
<1>11. \A c \in removed : confirmed[c] # NoSid => confirmed[c] \in ids
  BY <1>4 DEF SidToCancel
<1>12. \A c \in removed : c \in inflight.requested => inflight.sid[c] \in ids
  <2> SUFFICES ASSUME NEW c \in removed, c \in inflight.requested
               PROVE  inflight.sid[c] \in ids
    OBVIOUS
  <2>1. inflight # NoRequest
    BY DEF NoRequest
  <2>2. SidToCancel(c) = inflight.sid[c]
    BY <1>2, <1>9, <2>1 DEF SidToCancel
  <2>3. QED
    BY <1>4, <1>10, <2>2
<1>13. SUFFICES /\ authenticated' /\ LinkUp' =>
                     /\ Known(confirmed', inflight, toServer', serverSubs)
                     /\ Withdrawing(desired', inflight, toServer', serverSubs)
                /\ LinkUp' /\ ~authenticated' =>
                     serverSubs = {} /\ toServer' = <<>> /\ inflight = NoRequest
                /\ phase' = "offline" => serverSubs = {}
  <2>1. \A x \in Answers' : serverSubs' \subseteq x
    BY <1>1, <1>8 DEF ServedInv
  <2>2. inflight' = inflight /\ serverSubs' = serverSubs
    BY <1>1
  <2>3. QED
    BY <2>1, <2>2, ServedParts
<1>14. CASE SendFails
  BY <1>14 DEF SendFails, LinkUp, ServedInv
<1>15. CASE Transmit(frame) /\ authenticated
  <2>1. /\ LinkUp /\ phase' = phase /\ authenticated'
        /\ toServer' = Append(toServer, frame)
    BY <1>15 DEF Transmit
  <2>2. /\ Known(confirmed, inflight, toServer, serverSubs)
        /\ Withdrawing(desired, inflight, toServer, serverSubs)
    BY <1>15, <2>1 DEF ServedInv
  <2>3. /\ Len(toServer) \in Nat
        /\ Len(toServer') = Len(toServer) + 1
        /\ \A i \in 1 .. Len(toServer) : toServer'[i] = toServer[i]
        /\ toServer'[Len(toServer) + 1] = frame
    BY <1>5, <2>1, AppendFrame
  <2>4. \A s : Cancels(frame, s) => \A i \in 0 .. Len(toServer) : CancelIn(toServer', i, s)
    BY <2>3 DEF CancelIn
  <2>5. SubscribesIn(toServer') = SubscribesIn(toServer)
    <3>1. frame.kind # "subscribe"
      BY DEF frame
    <3>2. QED
      BY <2>3, <3>1 DEF SubscribesIn
  <2>6. SubscribesIn(toServer) \subseteq 0 .. Len(toServer) /\ 0 \in 0 .. Len(toServer)
    BY <2>3 DEF SubscribesIn
  <2>7. Known(confirmed', inflight, toServer', serverSubs)
    <3> SUFFICES ASSUME NEW s \in serverSubs
                 PROVE  \/ \E c \in Codes : confirmed'[c] = s
                        \/ \E c \in inflight.requested : inflight.sid[c] = s
                        \/ CancelIn(toServer', 0, s)
      BY DEF Known
    <3>1. \/ \E c \in Codes : confirmed[c] = s
          \/ \E c \in inflight.requested : inflight.sid[c] = s
          \/ CancelIn(toServer, 0, s)
      BY <2>2 DEF Known
    <3>2. ASSUME NEW c \in Codes, confirmed[c] = s
          PROVE  confirmed'[c] = s \/ CancelIn(toServer', 0, s)
      <4>1. CASE c \notin removed
        BY <1>1, <3>2, <4>1
      <4>2. CASE c \in removed
        <5>1. s # NoSid
          BY SidAssumption DEF TypeOK
        <5>2. QED
          BY <1>5, <1>11, <2>4, <2>6, <3>2, <4>2, <5>1
      <4>3. QED
        BY <4>1, <4>2
    <3>3. CancelIn(toServer, 0, s) => CancelIn(toServer', 0, s)
      BY <1>5, <2>1, CancelStays
    <3>4. QED
      BY <3>1, <3>2, <3>3
  <2>8. Withdrawing(desired', inflight, toServer', serverSubs)
    <3> SUFFICES ASSUME NEW c \in inflight.requested, ~Carries(desired', inflight, c)
                 PROVE  Withdrawn(toServer', serverSubs, inflight.sid[c])
      BY DEF Withdrawing
    <3>1. CASE c \in removed
      <4>1. \A i \in 0 .. Len(toServer) : CancelIn(toServer', i, inflight.sid[c])
        BY <1>5, <1>12, <2>4, <3>1
      <4>2. QED
        BY <2>5, <2>6, <4>1 DEF Withdrawn
    <3>2. CASE c \notin removed
      <4>1. desired'[c] = desired[c]
        BY <1>1, <1>7, <3>2
      <4>2. Withdrawn(toServer, serverSubs, inflight.sid[c])
        BY <2>2, <4>1 DEF Withdrawing, Carries
      <4>3. \A i \in 0 .. Len(toServer) : CancelIn(toServer, i, inflight.sid[c])
                                          => CancelIn(toServer', i, inflight.sid[c])
        BY <1>5, <2>1, <2>3, CancelStays
      <4>4. QED
        BY <2>5, <2>6, <4>2, <4>3 DEF Withdrawn
    <3>3. QED
      BY <3>1, <3>2
  <2>9. QED
    BY <2>1, <2>7, <2>8 DEF LinkUp
<1>16. CASE ~(authenticated /\ (all \/ ids # {}))
  <2>1. UNCHANGED <<authenticated, phase, toServer>>
    BY <1>1, <1>16
  <2>2. CASE ~(authenticated /\ LinkUp)
    BY <2>1, <2>2 DEF ServedInv, LinkUp
  <2>3. CASE authenticated /\ LinkUp
    <3>1. ids = {}
      BY <1>16, <2>3
    <3>2. \A c \in removed : confirmed[c] = NoSid /\ c \notin inflight.requested
      BY <1>11, <1>12, <3>1
    <3>3. \A c \in Codes : confirmed'[c] = confirmed[c]
      BY <1>1, <3>2
    <3>4. \A c \in inflight.requested : desired'[c] = desired[c]
      BY <1>1, <1>7, <3>2
    <3>5. /\ Known(confirmed', inflight, toServer, serverSubs)
          /\ Withdrawing(desired', inflight, toServer, serverSubs)
      BY <2>3, <3>3, <3>4 DEF ServedInv, Known, Withdrawing, Carries
    <3>6. QED
      BY <2>1, <2>3, <3>5 DEF LinkUp, ServedInv
  <2>4. QED
    BY <2>2, <2>3
<1>17. QED
  BY <1>1, <1>14, <1>15, <1>16

\* The server applies a SUBSCRIBE: what it grants was asked for.
LEMMA GrantKeepsServed ==
  ASSUME TypeOK, WireInv, ServedInv, ServerHandle, Head(toServer).kind = "subscribe"
  PROVE  ServedInv'
<1> DEFINE ids == Head(toServer).ids
<1>1. /\ toServer # <<>> /\ toServer' = Tail(toServer)
      /\ toClient' = Append(toClient, serverSubs')
      /\ \E granted \in SUBSET ids : serverSubs' = (serverSubs \ ids) \cup granted
      /\ UNCHANGED <<desired, confirmed, inflight, handling, session, phase,
                     authenticated>>
  BY DEF ServerHandle, intentVars, answerVars
<1>2. /\ Len(toServer) \in Nat \ {0}
      /\ Len(toServer') = Len(toServer) - 1
      /\ \A i \in 1 .. Len(toServer') : toServer'[i] = toServer[i + 1]
      /\ Head(toServer) = toServer[1]
  BY <1>1, TailFrame
<1>3. 1 \in SubscribeAt /\ 1 \in SubscribesIn(toServer)
  BY <1>2 DEF SubscribeAt, SubscribesIn
<1>4. /\ toClient = <<>> /\ Handled = {} /\ phase # "offline"
      /\ ids = {inflight.sid[c] : c \in inflight.requested}
  BY <1>1, <1>2, <1>3 DEF WireInv, OneRequestUnderWay, SessionIsFresh
<1>5. Answers' = {serverSubs'}
  <2>1. Handled' = {}
    BY <1>1, <1>4 DEF Handled
  <2>2. toClient' = <<serverSubs'>>
    BY <1>1, <1>4
  <2>3. Len(toClient') = 1 /\ toClient'[1] = serverSubs'
    BY <2>2
  <2>4. 1 .. Len(toClient') = {1}
    BY <2>3
  <2>5. {toClient'[i] : i \in 1 .. Len(toClient')} = {serverSubs'}
    BY <2>3, <2>4
  <2>6. QED
    BY <2>1, <2>5 DEF Answers
<1>6. \A s : CancelIn(toServer, 1, s) => CancelIn(toServer', 0, s)
  <2> SUFFICES ASSUME NEW s, CancelIn(toServer, 1, s) PROVE CancelIn(toServer', 0, s)
    OBVIOUS
  <2>1. PICK j \in 1 .. Len(toServer) : j > 1 /\ Cancels(toServer[j], s)
    BY DEF CancelIn
  <2>2. /\ j - 1 \in 1 .. Len(toServer') /\ j - 1 > 0
        /\ toServer'[j - 1] = toServer[j]
    BY <1>2, <2>1
  <2>3. Cancels(toServer'[j - 1], s)
    BY <2>1, <2>2
  <2>4. QED
    BY <2>2, <2>3 DEF CancelIn
<1>7. \A s : CancelIn(toServer, 0, s) => CancelIn(toServer, 1, s)
  <2> SUFFICES ASSUME NEW s, NEW j \in 1 .. Len(toServer), Cancels(toServer[j], s)
               PROVE  j > 1
    BY DEF CancelIn
  <2>1. j # 1
    BY <1>2 DEF Cancels
  <2>2. QED
    BY <1>2, <2>1
<1>8. SUFFICES ASSUME authenticated, LinkUp
               PROVE  /\ Known(confirmed, inflight, toServer', serverSubs')
                      /\ Withdrawing(desired, inflight, toServer', serverSubs')
  <2>0. UNCHANGED <<desired, confirmed, inflight>>
    BY <1>1
  <2>1. (LinkUp' <=> LinkUp) /\ (authenticated' <=> authenticated) /\ phase' # "offline"
    BY <1>1, <1>4 DEF LinkUp
  <2>2. LinkUp' => authenticated'
    BY <1>1, <2>1 DEF ServedInv
  <2>3. \A x \in Answers' : serverSubs' \subseteq x
    BY <1>5
  <2>4. QED
    BY <2>0, <2>1, <2>2, <2>3, ServedParts
<1>9. /\ Known(confirmed, inflight, toServer, serverSubs)
      /\ Withdrawing(desired, inflight, toServer, serverSubs)
  BY <1>8 DEF ServedInv
<1>10. Known(confirmed, inflight, toServer', serverSubs')
  <2> SUFFICES ASSUME NEW s \in serverSubs'
               PROVE  \/ \E c \in Codes : confirmed[c] = s
                      \/ \E c \in inflight.requested : inflight.sid[c] = s
                      \/ CancelIn(toServer', 0, s)
    BY DEF Known
  <2>1. CASE s \in ids
    BY <1>4, <2>1
  <2>2. CASE s \notin ids
    <3>1. s \in serverSubs
      BY <1>1, <2>2
    <3>2. QED
      BY <1>6, <1>7, <1>9, <3>1 DEF Known
  <2>3. QED
    BY <2>1, <2>2
<1>11. Withdrawing(desired, inflight, toServer', serverSubs')
  <2> SUFFICES ASSUME NEW c \in inflight.requested, ~Carries(desired, inflight, c)
               PROVE  Withdrawn(toServer', serverSubs', inflight.sid[c])
    BY DEF Withdrawing
  <2>1. CancelIn(toServer, 1, inflight.sid[c])
    BY <1>3, <1>9 DEF Withdrawing, Withdrawn
  <2>2. CancelIn(toServer', 0, inflight.sid[c])
    BY <1>6, <2>1
  <2>3. SubscribesIn(toServer') = {}
    <3> SUFFICES ASSUME NEW i \in SubscribesIn(toServer') PROVE FALSE
      OBVIOUS
    <3>1. i \in 1 .. Len(toServer') /\ toServer'[i].kind = "subscribe"
      BY DEF SubscribesIn
    <3>2. i + 1 \in SubscribeAt
      BY <1>2, <3>1 DEF SubscribeAt
    <3>3. i + 1 = 1
      BY <1>3, <3>2 DEF WireInv, OneRequestUnderWay
    <3>4. QED
      BY <3>1, <3>3
  <2>4. QED
    BY <2>2, <2>3 DEF Withdrawn
<1>12. QED
  BY <1>10, <1>11

\* The server applies an UNSUBSCRIBE.
LEMMA CancelKeepsServed ==
  ASSUME TypeOK, WireInv, ServedInv, ServerHandle,
         Head(toServer).kind = "unsubscribe"
  PROVE  ServedInv'
<1> DEFINE frame == Head(toServer)
<1>1. /\ toServer # <<>> /\ toServer' = Tail(toServer)
      /\ serverSubs' = IF frame.ids = {} THEN {} ELSE serverSubs \ frame.ids
      /\ UNCHANGED <<desired, confirmed, inflight, toClient, handling, session, phase,
                     authenticated>>
  BY DEF ServerHandle, intentVars, answerVars
<1>2. /\ Len(toServer) \in Nat \ {0}
      /\ Len(toServer') = Len(toServer) - 1
      /\ \A i \in 1 .. Len(toServer') : toServer'[i] = toServer[i + 1]
      /\ frame = toServer[1]
  BY <1>1, TailFrame
<1>3. Answers' = Answers
  BY <1>1 DEF Answers, Handled
<1>4. serverSubs' \subseteq serverSubs /\ \A s \in serverSubs' : ~ Cancels(frame, s)
  BY <1>1 DEF Cancels
<1>5. \A s : \A i \in Nat :
        CancelIn(toServer, i + 1, s) => CancelIn(toServer', i, s)
  <2> SUFFICES ASSUME NEW s, NEW i \in Nat, CancelIn(toServer, i + 1, s)
               PROVE  CancelIn(toServer', i, s)
    OBVIOUS
  <2>1. PICK j \in 1 .. Len(toServer) : j > i + 1 /\ Cancels(toServer[j], s)
    BY DEF CancelIn
  <2>2. /\ j - 1 \in 1 .. Len(toServer') /\ j - 1 > i
        /\ toServer'[j - 1] = toServer[j]
    BY <1>2, <2>1
  <2>3. Cancels(toServer'[j - 1], s)
    BY <2>1, <2>2
  <2>4. QED
    BY <2>2, <2>3 DEF CancelIn
<1>6. \A s \in serverSubs' : CancelIn(toServer, 0, s) => CancelIn(toServer', 0, s)
  <2> SUFFICES ASSUME NEW s \in serverSubs', CancelIn(toServer, 0, s)
               PROVE  CancelIn(toServer', 0, s)
    OBVIOUS
  <2>1. PICK j \in 1 .. Len(toServer) : Cancels(toServer[j], s)
    BY DEF CancelIn
  <2>2. j # 1
    BY <1>2, <1>4, <2>1
  <2>3. CancelIn(toServer, 0 + 1, s)
    BY <2>1, <2>2 DEF CancelIn
  <2>4. QED
    BY <1>5, <2>3
<1>7. SUFFICES ASSUME authenticated, LinkUp
               PROVE  /\ Known(confirmed, inflight, toServer', serverSubs')
                      /\ Withdrawing(desired, inflight, toServer', serverSubs')
  <2>0. UNCHANGED <<desired, confirmed, inflight>>
    BY <1>1
  <2>1. (LinkUp' <=> LinkUp) /\ (authenticated' <=> authenticated)
    BY <1>1 DEF LinkUp
  <2>2. LinkUp' => authenticated'
    BY <1>1, <2>1 DEF ServedInv
  <2>3. /\ \A x \in Answers' : serverSubs' \subseteq x
        /\ phase' = "offline" => serverSubs' = {}
    BY <1>1, <1>3, <1>4 DEF ServedInv
  <2>4. QED
    BY <2>0, <2>1, <2>2, <2>3, ServedParts
<1>8. /\ Known(confirmed, inflight, toServer, serverSubs)
      /\ Withdrawing(desired, inflight, toServer, serverSubs)
  BY <1>7 DEF ServedInv
<1>9. Known(confirmed, inflight, toServer', serverSubs')
  BY <1>4, <1>6, <1>8 DEF Known
<1>10. Withdrawing(desired, inflight, toServer', serverSubs')
  <2> SUFFICES ASSUME NEW c \in inflight.requested, ~Carries(desired, inflight, c)
               PROVE  Withdrawn(toServer', serverSubs', inflight.sid[c])
    BY DEF Withdrawing
  <2>1. Withdrawn(toServer, serverSubs, inflight.sid[c])
    BY <1>8 DEF Withdrawing
  <2>2. \A i \in SubscribesIn(toServer') : i \in Nat /\ i + 1 \in SubscribesIn(toServer)
    BY <1>2 DEF SubscribesIn
  <2>3. \A i \in SubscribesIn(toServer') : CancelIn(toServer', i, inflight.sid[c])
    BY <1>5, <2>1, <2>2 DEF Withdrawn
  <2>4. SubscribesIn(toServer') = {} => SubscribesIn(toServer) = {}
    <3> SUFFICES ASSUME NEW i \in SubscribesIn(toServer)
                 PROVE  SubscribesIn(toServer') # {}
      OBVIOUS
    <3>1. i # 1 /\ i \in 1 .. Len(toServer) /\ toServer[i].kind = "subscribe"
      BY <1>2 DEF SubscribesIn
    <3>2. i - 1 \in 1 .. Len(toServer') /\ toServer'[i - 1] = toServer[i]
      BY <1>2, <3>1
    <3>3. i - 1 \in SubscribesIn(toServer')
      BY <3>1, <3>2 DEF SubscribesIn
    <3>4. QED
      BY <3>3
  <2>5. QED
    BY <1>4, <1>6, <2>1, <2>3, <2>4 DEF Withdrawn
<1>11. QED
  BY <1>9, <1>10

\* An answer confirms what it contains, unless that ends on the server anyway.
LEMMA AckKeepsServed ==
  ASSUME TypeOK, LedgerInv, WireInv, ServedInv, NEW h \in handling, HandleAck(h)
  PROVE  ServedInv'
<1>1. /\ handling' = handling \ {h}
      /\ UNCHANGED <<desired, symbolMap, session, serverSubs, toClient>>
  BY DEF HandleAck, intentVars, mapVars
<1>2. Answers' \subseteq Answers
  BY <1>1 DEF Answers, Handled
<1>3. CASE ~AckIsCurrent(h)
  <2>1. UNCHANGED <<confirmed, inflight, authenticated, phase, toServer>>
    BY <1>3 DEF HandleAck, answerVars
  <2>2. (LinkUp' <=> LinkUp) /\ (authenticated' <=> authenticated)
    BY <2>1 DEF LinkUp
  <2>3. QED
    BY <1>1, <1>2, <2>1, <2>2, QuietKeepsServed
<1>4. CASE AckIsCurrent(h)
  <2> DEFINE accepted == {c \in Current : inflight.sid[c] \in h.ids}
  <2>1. /\ confirmed' = [c \in Codes |-> IF c \in accepted
                                           THEN inflight.sid[c] ELSE NoSid]
        /\ Flush(queue, NoRequest)
    BY <1>4 DEF HandleAck
  <2>2. h \in Handled /\ inflight # NoRequest /\ authenticated
    BY <1>4 DEF AckIsCurrent, Handled
  <2>3. serverSubs \subseteq h.ids
    BY <2>2 DEF ServedInv, Answers
  <2>4. SubscribesIn(toServer) = {}
    BY <2>2 DEF WireInv, OneRequestUnderWay, SubscribeAt, SubscribesIn
  <2>5. \A c \in Current : inflight.sid[c] \in serverSubs =>
          c \in Codes /\ confirmed'[c] = inflight.sid[c]
    BY <2>1, <2>3 DEF Current
  <2>6. ASSUME LinkUp PROVE Known(confirmed', NoRequest, toServer, serverSubs)
    <3> SUFFICES ASSUME NEW s \in serverSubs
                 PROVE  (\E c \in Codes : confirmed'[c] = s) \/ CancelIn(toServer, 0, s)
      BY DEF Known
    <3>1. /\ Known(confirmed, inflight, toServer, serverSubs)
          /\ Withdrawing(desired, inflight, toServer, serverSubs)
      BY <2>2, <2>6 DEF ServedInv
    <3>2. ASSUME NEW c \in Codes, confirmed[c] = s PROVE confirmed'[c] = s
      <4>1. s # NoSid
        BY SidAssumption DEF TypeOK
      <4>2. /\ desired[c] # 0 /\ inflight.sid[c] = s /\ inflight.rev[c] = desired[c]
        BY <2>2, <3>2, <4>1 DEF LedgerInv, OneStatus, SnapshotIsExact, Wanted
      <4>3. c \in Current
        BY <4>1, <4>2 DEF Current, Wanted
      <4>4. QED
        BY <2>5, <4>2, <4>3
    <3>3. ASSUME NEW c \in inflight.requested, inflight.sid[c] = s
          PROVE  (\E d \in Codes : confirmed'[d] = s) \/ CancelIn(toServer, 0, s)
      <4>1. CASE Carries(desired, inflight, c)
        <5>1. c \in Current
          BY <4>1 DEF Carries, Current, Wanted, TypeOK, Request
        <5>2. QED
          BY <2>5, <3>3, <5>1
      <4>2. CASE Withdrawn(toServer, serverSubs, s)
        BY <2>4, <4>2 DEF Withdrawn
      <4>3. QED
        BY <3>1, <3>3, <4>1, <4>2 DEF Withdrawing
    <3>4. QED
      BY <3>1, <3>2, <3>3 DEF Known
  <2>7. Withdrawing(desired', NoRequest, toServer, serverSubs)
    BY DEF Withdrawing, NoRequest
  <2>8. /\ phase # "offline"
        /\ queue \subseteq Codes
        /\ symbolMap' \in Catalogues \cup {InitialMap}
        /\ \A ids \in Answers' : serverSubs \subseteq ids
    BY <1>1, <1>2, <1>4 DEF AckIsCurrent, WireInv, SessionIsFresh, TypeOK, ServedInv
  <2>9. QED
    BY <1>1, <2>1, <2>2, <2>6, <2>7, <2>8, FlushKeepsServed
<1>5. QED
  BY <1>3, <1>4

\* The answer that moves into its handler is the same.
LEMMA ReceiveKeepsAnswers ==
  ASSUME TypeOK, WireInv, ReceiveAck
  PROVE  Answers' \subseteq Answers
<1>1. /\ toClient # <<>> /\ toClient \in Seq(SUBSET Sids)
      /\ toClient' = Tail(toClient) /\ session' = session
      /\ handling' = handling \cup {[session |-> session, ids |-> Head(toClient)]}
  BY DEF ReceiveAck, TypeOK
<1>2. /\ Len(toClient) \in Nat \ {0} /\ Head(toClient) = toClient[1]
      /\ Len(toClient') = Len(toClient) - 1
      /\ \A i \in 1 .. Len(toClient') : toClient'[i] = toClient[i + 1]
  BY <1>1, HeadTailProperties, EmptySeq
<1>3. toClient[1] \in Answers
  BY <1>2 DEF Answers
<1>4. \A i \in 1 .. Len(toClient') : toClient'[i] \in Answers
  <2>1. \A i \in 1 .. Len(toClient') : i + 1 \in 1 .. Len(toClient)
    BY <1>2
  <2>2. QED
    BY <1>2, <2>1 DEF Answers
<1>5. \A g \in Handled' : g \in Handled \/ g.ids = toClient[1]
  BY <1>1, <1>2 DEF Handled
<1>6. \A g \in Handled : g.ids \in Answers
  BY DEF Answers
<1>7. \A x \in Answers' : \/ \E i \in 1 .. Len(toClient') : x = toClient'[i]
                          \/ \E g \in Handled' : x = g.ids
  BY DEF Answers
<1>8. QED
  BY <1>3, <1>4, <1>5, <1>6, <1>7

\* Every step keeps the server known.
LEMMA ServedStep ==
  ASSUME TypeOK, LedgerInv, WireInv, ServedInv, [Next]_vars
  PROVE  ServedInv'
<1>1. ASSUME NEW S \in SUBSET Codes, Subscribe(S) PROVE ServedInv'
  BY <1>1, SubscribeKeepsServed
<1>2. ASSUME NEW S \in SUBSET Codes, NEW all \in BOOLEAN, Unsubscribe(S, all)
      PROVE  ServedInv'
  BY <1>2, UnsubscribeKeepsServed
<1>3. CASE Close \/ HandleDisconnected \/ Reconnect
  BY <1>3, ResetKeepsServed
<1>4. ASSUME NEW r \in restorers, Resume(r) PROVE ServedInv'
  <2>1. /\ Flush(queue, inflight)
        /\ UNCHANGED <<desired, confirmed, symbolMap, session, toClient, handling,
                       serverSubs>>
    BY <1>4 DEF Resume, intentVars, mapVars, wireVars
  <2>2. symbolMap' \in Catalogues \cup {InitialMap}
    BY <2>1 DEF TypeOK
  <2>3. QED
    BY <2>1, <2>2, ResumeKeepsServed
<1>5. ASSUME NEW m \in Catalogues, HandleSymbolMap(m) \/ RefreshInstall(m)
      PROVE  ServedInv'
  <2>1. /\ Flush(queue, inflight) /\ symbolMap' = m
        /\ UNCHANGED <<desired, confirmed, session, toClient, handling, serverSubs>>
    BY <1>5 DEF HandleSymbolMap, RefreshInstall, intentVars, wireVars
  <2>2. QED
    BY <2>1, ResumeKeepsServed
<1>6. ASSUME NEW h \in handling, HandleAck(h) PROVE ServedInv'
  BY <1>6, AckKeepsServed
<1>7. CASE ServerHandle
  <2>1. Head(toServer).kind = "subscribe" \/ Head(toServer).kind = "unsubscribe"
    BY <1>7 DEF ServerHandle
  <2>2. QED
    BY <1>7, <2>1, GrantKeepsServed, CancelKeepsServed
<1>8. ASSUME UNCHANGED <<desired, confirmed, inflight, toServer, serverSubs>>,
             Answers' \subseteq Answers,
             phase' = phase \/ phase' = "lost" \/ (phase = "restoring" /\ phase' = "up"),
             authenticated' <=> authenticated
      PROVE  ServedInv'
  <2>1. /\ phase' = "offline" => phase = "offline"
        /\ LinkUp' => LinkUp
    BY <1>8 DEF LinkUp
  <2>2. QED
    BY <1>8, <2>1, QuietKeepsServed
<1>9. CASE ReceiveAck
  <2>1. /\ UNCHANGED <<desired, confirmed, inflight, toServer, serverSubs, phase>>
        /\ authenticated' <=> authenticated
    BY <1>9 DEF ReceiveAck, intentVars, answerVars
  <2>2. QED
    BY <1>8, <1>9, <2>1, ReceiveKeepsAnswers
<1>10. CASE FindConnected \/ RefreshStart \/ RefreshGiveUp \/ Drop \/ UNCHANGED vars
  <2>1. UNCHANGED <<desired, confirmed, inflight, toServer, toClient, handling,
                    serverSubs, session, authenticated>>
    BY <1>10 DEF FindConnected, RefreshStart, RefreshGiveUp, Drop, vars, intentVars,
                 answerVars, wireVars
  <2>2. Answers' = Answers
    BY <2>1 DEF Answers, Handled
  <2>3. phase' = phase \/ phase' = "lost" \/ (phase = "restoring" /\ phase' = "up")
    BY <1>10 DEF FindConnected, RefreshStart, RefreshGiveUp, Drop, vars
  <2>4. QED
    BY <1>8, <2>1, <2>2, <2>3
<1>11. CASE FinishRestore \/ \E r \in restorers : Authenticate(r)
  <2>1. /\ UNCHANGED <<desired, confirmed, inflight, toServer, toClient, handling,
                       serverSubs, session, phase>>
        /\ authenticated' \/ phase = "offline"
    BY <1>11 DEF FinishRestore, Authenticate, intentVars, answerVars, wireVars
  <2>2. Answers' = Answers /\ (LinkUp' <=> LinkUp)
    BY <2>1 DEF Answers, Handled, LinkUp
  <2>3. LinkUp => authenticated'
    BY <2>1 DEF LinkUp
  <2>4. QED
    BY <2>1, <2>2, <2>3, QuietKeepsServed
<1>12. QED
  BY <1>1, <1>2, <1>3, <1>4, <1>5, <1>6, <1>7, <1>9, <1>10, <1>11
     DEF Next, UserStep, ClientStep

\* The server serves nothing but what the client has confirmed, asked for or
\* cancelled, for any codes, catalogues and interleaving.
THEOREM ServerIsKnown == Spec => []ServedIsKnown
<1>1. Init => ServedInv
  <2> SUFFICES ASSUME Init PROVE ServedInv
    OBVIOUS
  <2>1. Answers = {}
    BY DEF Init, Answers, Handled
  <2>2. QED
    BY <2>1 DEF Init, ServedInv, LinkUp
<1>2. TypeOK /\ LedgerInv /\ WireInv /\ ServedInv /\ [Next]_vars => ServedInv'
  BY ServedStep
<1>3. ServedInv => ServedIsKnown
  <2> SUFFICES ASSUME ServedInv, authenticated, LinkUp, NEW s \in serverSubs
               PROVE  \/ \E c \in Codes : confirmed[c] = s
                      \/ \E c \in inflight.requested : inflight.sid[c] = s
                      \/ \E i \in 1 .. Len(toServer) : Cancels(toServer[i], s)
    BY DEF ServedIsKnown
  <2>1. Known(confirmed, inflight, toServer, serverSubs)
    BY DEF ServedInv
  <2>2. QED
    BY <2>1 DEF Known, CancelIn
<1>4. QED
  BY <1>1, <1>2, <1>3, TypeCorrect, LedgerCorrect, WireCorrect, PTL DEF Spec

-----------------------------------------------------------------------------
(***************************************************************************)
(* Subscriptions implements SubscriptionIntent, and the refresh of a       *)
(* session is never forgotten.                                             *)
(***************************************************************************)

\* What a user sees of a code, given its entries in the stores of the client.
StatusGiven(d, cf, rj) ==
  IF cf # NoSid THEN "active"
  ELSE IF rj THEN "refused" ELSE IF d # 0 THEN "pending" ELSE "idle"

LEMMA StatusByCode ==
  ASSUME NEW c \in Codes
  PROVE  /\ Status[c] = StatusGiven(desired[c], confirmed[c], c \in rejected)
         /\ Status'[c] = StatusGiven(desired'[c], confirmed'[c], c \in rejected')
BY DEF Status, StatusGiven, Wanted

\* A status is idle exactly when the code is not wanted.
LEMMA IdleIsUnwanted ==
  ASSUME OneStatus, NEW c \in Codes
  PROVE  Status[c] = "idle" <=> desired[c] = 0
BY StatusByCode DEF OneStatus, StatusGiven, Wanted

\* A step that leaves the three stores alone is a stutter.
LEMMA StatusStays ==
  ASSUME UNCHANGED <<desired, confirmed, rejected>>
  PROVE  Status' = Status
BY DEF Status, Wanted

\* A reset is the loss of the session.
LEMMA ResetLosesSession ==
  ASSUME OneStatus, Reset, UNCHANGED desired
  PROVE  Intent!LoseSession
<1>1. \A c \in Codes : Status'[c] = IF Status[c] = "idle" THEN "idle" ELSE "pending"
  <2> SUFFICES ASSUME NEW c \in Codes
               PROVE  Status'[c] = IF Status[c] = "idle" THEN "idle" ELSE "pending"
    OBVIOUS
  <2>1. confirmed'[c] = NoSid /\ c \notin rejected' /\ desired'[c] = desired[c]
    BY DEF Reset, Nothing
  <2>2. Status'[c] = IF desired[c] # 0 THEN "pending" ELSE "idle"
    BY <2>1, StatusByCode DEF StatusGiven
  <2>3. QED
    BY <2>2, IdleIsUnwanted
<1>2. QED
  BY <1>1 DEF Intent!LoseSession, Status

\* subscribe() makes the idle and the refused ones of its codes pending.
LEMMA SubscribeWants ==
  ASSUME TypeOK, NEW S \in SUBSET Codes, Subscribe(S)
  PROVE  Intent!Want(S)
<1>1. /\ confirmed' = confirmed
      /\ rejected' = rejected \ S
  BY DEF Subscribe
<1>2. \A c \in Codes : /\ c \in S => desired'[c] # 0
                       /\ c \notin S => desired'[c] = desired[c]
  <2>1. CASE {c \in S : ~Wanted(c)} = {}
    BY <2>1 DEF Subscribe, intentVars, Wanted
  <2>2. CASE {c \in S : ~Wanted(c)} # {}
    BY <2>2 DEF Subscribe, TypeOK, Wanted
  <2>3. QED
    BY <2>1, <2>2
<1>3. \A c \in Codes :
        Status'[c] = IF c \in S /\ Status[c] \in {"idle", "refused"}
                       THEN "pending" ELSE Status[c]
  BY <1>1, <1>2, StatusByCode DEF StatusGiven
<1>4. QED
  BY <1>3 DEF Intent!Want, Status

\* unsubscribe() makes its codes idle.
LEMMA UnsubscribeCancels ==
  ASSUME NEW S \in SUBSET Codes, NEW all \in BOOLEAN, Unsubscribe(S, all), OneStatus
  PROVE  \E C \in SUBSET Codes : Intent!Cancel(C)
<1> DEFINE removed == IF all THEN WantedCodes ELSE S
<1>1. /\ desired' = [c \in Codes |-> IF c \in removed THEN 0 ELSE desired[c]]
      /\ confirmed' = [c \in Codes |-> IF c \in removed THEN NoSid ELSE confirmed[c]]
      /\ rejected' = rejected \ removed
  BY DEF Unsubscribe
<1> HIDE DEF removed
<1>2. \A c \in Codes : Status'[c] = IF c \in removed THEN "idle" ELSE Status[c]
  BY <1>1, StatusByCode DEF StatusGiven
<1>3. Intent!Cancel(removed)
  BY <1>2 DEF Intent!Cancel, Status
<1>4. removed \in SUBSET Codes
  BY DEF removed, WantedCodes
<1>5. QED
  BY <1>3, <1>4

\* A current answer grants what it contains and refuses the rest of what was asked.
LEMMA AckAnswers ==
  ASSUME TypeOK, LedgerInv, NEW h \in handling, HandleAck(h), AckIsCurrent(h)
  PROVE  \E granted, refused \in SUBSET Codes : Intent!Answer(granted, refused)
<1> DEFINE accepted == {c \in Current : inflight.sid[c] \in h.ids}
           granted == {c \in accepted : confirmed[c] = NoSid}
           refused == Current \ accepted
<1>1. /\ confirmed' = [c \in Codes |-> IF c \in accepted
                                         THEN inflight.sid[c] ELSE NoSid]
      /\ rejected' = (rejected \ Current) \cup (Current \ accepted)
      /\ desired' = desired
  BY DEF HandleAck, intentVars
<1>2. inflight # NoRequest
  BY DEF AckIsCurrent
<1>3. accepted \subseteq Current /\ Current \subseteq Codes
  BY DEF Current
<1>4. \A c \in accepted : inflight.sid[c] # NoSid
  BY DEF Current
<1> HIDE DEF accepted
<1>5. \A c \in Current : c \notin rejected /\ desired[c] # 0
  <2> SUFFICES ASSUME NEW c \in Current PROVE c \notin rejected /\ desired[c] # 0
    OBVIOUS
  <2>1. c \in Codes /\ desired[c] # 0 /\ desired[c] = inflight.rev[c]
    BY DEF Current, Wanted
  <2>2. c \in inflight.requested \/ confirmed[c] = inflight.sid[c]
    BY <2>1 DEF LedgerInv, SnapshotIsExact
  <2>3. inflight.sid[c] # NoSid
    BY DEF Current
  <2>4. CASE c \in inflight.requested
    BY <2>1, <2>4 DEF LedgerInv, OneStatus, InFlight, Wanted
  <2>5. CASE confirmed[c] # NoSid
    BY <2>1, <2>5 DEF LedgerInv, OneStatus
  <2>6. QED
    BY <2>2, <2>3, <2>4, <2>5
<1>6. \A c \in Codes : c \notin Current => confirmed[c] = NoSid
  BY <1>2 DEF LedgerInv, SnapshotIsExact, OneStatus, Current, Wanted
<1>7. \A c \in Codes :
        /\ c \in granted => Status[c] = "pending"
        /\ c \in refused => Status[c] \in {"pending", "active"}
        /\ Status'[c] = IF c \in granted THEN "active"
                        ELSE IF c \in refused THEN "refused" ELSE Status[c]
  <2> SUFFICES ASSUME NEW c \in Codes
               PROVE  /\ c \in granted => Status[c] = "pending"
                      /\ c \in refused => Status[c] \in {"pending", "active"}
                      /\ Status'[c] = IF c \in granted THEN "active"
                                      ELSE IF c \in refused THEN "refused"
                                      ELSE Status[c]
    OBVIOUS
  <2>1. /\ Status[c] = StatusGiven(desired[c], confirmed[c], c \in rejected)
        /\ Status'[c] = StatusGiven(desired'[c], confirmed'[c], c \in rejected')
    BY StatusByCode
  <2>2. CASE c \in accepted
    BY <1>1, <1>3, <1>4, <1>5, <2>1, <2>2 DEF StatusGiven
  <2>3. CASE c \in refused
    BY <1>1, <1>3, <1>5, <2>1, <2>3 DEF StatusGiven
  <2>4. CASE c \notin Current
    BY <1>1, <1>3, <1>6, <2>1, <2>4 DEF StatusGiven
  <2>5. QED
    BY <2>2, <2>3, <2>4
<1>8. /\ \A c \in granted : Status[c] = "pending"
      /\ \A c \in refused : Status[c] \in {"pending", "active"}
  BY <1>3, <1>7
<1>9. Status' = [c \in Codes |-> IF c \in granted THEN "active"
                                 ELSE IF c \in refused THEN "refused"
                                 ELSE Status[c]]
  BY <1>7 DEF Status
<1>10. Intent!Answer(granted, refused)
  BY <1>8, <1>9 DEF Intent!Answer
<1>11. granted \in SUBSET Codes /\ refused \in SUBSET Codes
  BY <1>3
<1>12. QED
  BY <1>10, <1>11

\* Every step of the client and the server is a step of an intent, or none.
LEMMA IntentStep ==
  ASSUME TypeOK, LedgerInv, [Next]_vars
  PROVE  [Intent!Next]_Status
<1> USE DEF intentVars, answerVars, mapVars, refreshVars, wireVars
<1>a. OneStatus
  BY DEF LedgerInv
<1>b. ASSUME UNCHANGED <<desired, confirmed, rejected>>
      PROVE  [Intent!Next]_Status
  BY <1>b, StatusStays
<1>c. ASSUME Reset, UNCHANGED desired PROVE [Intent!Next]_Status
  BY <1>a, <1>c, ResetLosesSession DEF Intent!Next
<1>1. ASSUME NEW S \in SUBSET Codes, Subscribe(S) PROVE [Intent!Next]_Status
  BY <1>1, SubscribeWants DEF Intent!Next
<1>2. ASSUME NEW S \in SUBSET Codes, NEW all \in BOOLEAN, Unsubscribe(S, all)
      PROVE  [Intent!Next]_Status
  BY <1>a, <1>2, UnsubscribeCancels DEF Intent!Next
<1>3. CASE Close \/ HandleDisconnected \/ Reconnect
  BY <1>3, <1>c DEF Close, HandleDisconnected, Reconnect
<1>4. CASE FindConnected \/ FinishRestore \/ ReceiveAck \/ RefreshStart
           \/ RefreshGiveUp \/ ServerHandle \/ Drop
  BY <1>4, <1>b DEF FindConnected, FinishRestore, ReceiveAck, RefreshStart,
                    RefreshGiveUp, ServerHandle, Drop
<1>5. ASSUME NEW r \in restorers, Authenticate(r) \/ Resume(r)
      PROVE  [Intent!Next]_Status
  BY <1>5, <1>b DEF Authenticate, Resume
<1>6. ASSUME NEW m \in Catalogues, HandleSymbolMap(m) \/ RefreshInstall(m)
      PROVE  [Intent!Next]_Status
  BY <1>6, <1>b DEF HandleSymbolMap, RefreshInstall
<1>7. ASSUME NEW h \in handling, HandleAck(h) PROVE [Intent!Next]_Status
  <2>1. CASE AckIsCurrent(h)
    BY <1>7, <2>1, AckAnswers DEF Intent!Next
  <2>2. CASE ~AckIsCurrent(h)
    BY <1>7, <1>b, <2>2 DEF HandleAck
  <2>3. QED
    BY <2>1, <2>2
<1>8. CASE UNCHANGED vars
  BY <1>8, <1>b DEF vars
<1>9. QED
  BY <1>1, <1>2, <1>3, <1>4, <1>5, <1>6, <1>7, <1>8 DEF Next, UserStep, ClientStep

\* The subscription code implements SubscriptionIntent.
THEOREM ImplementsIntent == Spec => IntentSpec
<1>1. Init => Intent!Init
  BY DEF Init, Intent!Init, Status, Wanted, Nothing
<1>2. TypeOK /\ LedgerInv /\ [Next]_vars => [Intent!Next]_Status
  BY IntentStep
<1>3. QED
  BY <1>1, <1>2, TypeCorrect, LedgerCorrect, PTL DEF Spec, IntentSpec, Intent!Spec

-----------------------------------------------------------------------------
(***************************************************************************)
(* The refresh of the symbol map.                                          *)
(***************************************************************************)

\* A critical section that ends with the scheduling owes no refresh.
LEMMA ScheduleRemembers ==
  ASSUME LedgerInv', queue' \subseteq Codes, NEW t, ScheduleRefresh(t),
         session' = session
  PROVE  RefreshNotForgotten'
<1> SUFFICES ASSUME authenticated', NEW c \in queue', symbolMap'[c] = NoSid
             PROVE  refreshTried' = session' \/ refresh' # NoRefresh
  BY DEF RefreshNotForgotten
<1>1. desired'[c] # 0
  BY DEF LedgerInv, OneStatus, Wanted
<1>2. CASE t # NoRefresh
  BY <1>2 DEF ScheduleRefresh
<1>3. CASE t = NoRefresh
  BY <1>1, <1>3 DEF ScheduleRefresh
<1>4. QED
  BY <1>2, <1>3

\* A step that shrinks the queue, or drops the session, owes no refresh either.
LEMMA QuietRemembers ==
  ASSUME RefreshNotForgotten,
         queue' \subseteq queue,
         authenticated' => authenticated,
         UNCHANGED <<restorers, symbolMap, refreshTried, refresh, session>>
  PROVE  RefreshNotForgotten'
BY DEF RefreshNotForgotten

\* The steps.
LEMMA RefreshStep ==
  ASSUME TypeOK, TypeOK', LedgerInv, RefreshNotForgotten, [Next]_vars
  PROVE  RefreshNotForgotten'
<1> USE DEF intentVars, answerVars, mapVars, refreshVars, wireVars
<1>a. LedgerInv'
  BY LedgerStep
<1>b. ASSUME NEW t, ScheduleRefresh(t), session' = session PROVE RefreshNotForgotten'
  BY <1>a, <1>b, ScheduleRemembers DEF TypeOK
<1>c. ASSUME ~authenticated' \/ restorers' # {} \/ refresh' # NoRefresh
      PROVE  RefreshNotForgotten'
  BY <1>c DEF RefreshNotForgotten
<1>1. ASSUME NEW S \in SUBSET Codes, Subscribe(S) PROVE RefreshNotForgotten'
  BY <1>1, <1>b DEF Subscribe
<1>2. ASSUME NEW S \in SUBSET Codes, NEW all \in BOOLEAN, Unsubscribe(S, all)
      PROVE  RefreshNotForgotten'
  <2>1. /\ queue' \subseteq queue
        /\ UNCHANGED <<restorers, symbolMap, refreshTried, refresh, session>>
    BY <1>2 DEF Unsubscribe
  <2>2. authenticated' => authenticated
    BY <1>2 DEF Unsubscribe, Transmit, SendFails
  <2>3. QED
    BY <2>1, <2>2, QuietRemembers
<1>3. CASE Close \/ HandleDisconnected \/ Reconnect
  BY <1>3, <1>c DEF Close, HandleDisconnected, Reconnect, Reset
<1>4. CASE FindConnected \/ FinishRestore \/ \E r \in restorers : Authenticate(r)
  BY <1>4, <1>c DEF FindConnected, FinishRestore, Authenticate
<1>5. ASSUME NEW r \in restorers, Resume(r) PROVE RefreshNotForgotten'
  BY <1>5, <1>b DEF Resume
<1>6. CASE ReceiveAck \/ ServerHandle \/ Drop \/ UNCHANGED vars
  <2>1. UNCHANGED <<queue, authenticated, restorers, symbolMap, refreshTried,
                    refresh, session>>
    BY <1>6 DEF ReceiveAck, ServerHandle, Drop, vars
  <2>2. QED
    BY <2>1, QuietRemembers
<1>7. ASSUME NEW h \in handling, HandleAck(h) PROVE RefreshNotForgotten'
  <2>1. CASE AckIsCurrent(h)
    BY <1>7, <1>b, <2>1 DEF HandleAck
  <2>2. CASE ~AckIsCurrent(h)
    BY <1>7, <2>2, QuietRemembers DEF HandleAck
  <2>3. QED
    BY <2>1, <2>2
<1>8. ASSUME NEW m \in Catalogues, HandleSymbolMap(m) \/ RefreshInstall(m)
      PROVE  RefreshNotForgotten'
  BY <1>8, <1>b DEF HandleSymbolMap, RefreshInstall
<1>9. CASE RefreshStart
  <2>1. refresh'.started
    BY <1>9 DEF RefreshStart, TypeOK, Refresh
  <2>2. QED
    BY <1>c, <2>1 DEF NoRefresh
<1>10. CASE RefreshGiveUp
  BY <1>10, <1>b DEF RefreshGiveUp
<1>11. QED
  BY <1>1, <1>2, <1>3, <1>4, <1>5, <1>6, <1>7, <1>8, <1>9, <1>10
     DEF Next, UserStep, ClientStep

\* A wanted code without an id has had the refresh of its session, or has a thread
\* that will start it.
THEOREM RefreshIsOwed == Spec => []RefreshNotForgotten
<1>1. Init => RefreshNotForgotten
  BY DEF Init, RefreshNotForgotten
<1>2. TypeOK /\ TypeOK' /\ LedgerInv /\ RefreshNotForgotten /\ [Next]_vars
        => RefreshNotForgotten'
  BY RefreshStep
<1>3. QED
  BY <1>1, <1>2, TypeCorrect, LedgerCorrect, PTL DEF Spec

=============================================================================
