-------------------------- MODULE ConnectionProofs --------------------------
(***************************************************************************)
(* Proofs about Connection, for any number of sockets and rehome requests. *)
(***************************************************************************)
EXTENDS Connection, TLAPS

\* The points by name.
LEMMA PointNames ==
  /\ "idle" \in Points /\ "notify" \in Points /\ "claim" \in Points
  /\ "rehome" \in Points /\ "request" \in Points /\ "cut" \in Points
  /\ "wait" \in Points /\ "discover" \in Points /\ "check" \in Points
  /\ "connect" \in Points /\ "opened" \in Points /\ "started" \in Points
  /\ "restoring" \in Points /\ "authenticated" \in Points
  /\ "restored" \in Points /\ "completing" \in Points /\ "release" \in Points
BY DEF Points, LoopPoints

\* A thread that goes to a point keeps the type.
LEMMA GoTypes ==
  ASSUME TypeOK, NEW t \in Threads, NEW p \in Points, Go(t, p)
  PROVE  at' \in [Threads -> Points]
BY DEF Go, TypeOK

\* The first state has the types.
LEMMA InitTypes == Init => TypeOK
<1> SUFFICES ASSUME Init PROVE TypeOK
  OBVIOUS
<1>1. sock \in Threads /\ generation \in Sockets /\ alive \subseteq Sockets
  BY BoundAssumption DEF Init, Threads, Sockets
<1>2. at \in [Threads -> Points]
  BY PointNames DEF Init
<1>3. 0 \in Threads /\ 0 \in Rehomes
  BY BoundAssumption DEF Threads, Rehomes
<1>4. QED
  BY <1>1, <1>2, <1>3 DEF Init, TypeOK

\* A loss keeps the types.
LEMMA DisconnectTypes ==
  ASSUME TypeOK, NEW t \in Threads, Disconnect(t)
  PROVE  TypeOK'
<1>1. at' \in [Threads -> Points]
  BY GoTypes, PointNames DEF Disconnect
<1>2. 0 \in Threads /\ ShouldReconnect \in BOOLEAN
  BY BoundAssumption DEF Threads, ShouldReconnect, TypeOK
<1>3. mine' \in [Threads -> Threads] /\ should' \in [Threads -> BOOLEAN]
  BY <1>2 DEF Disconnect, TypeOK
<1>4. QED
  BY <1>1, <1>2, <1>3 DEF Disconnect, TypeOK, control, rehoming

\* Every variable of the transport keeps its type.
THEOREM TypeCorrect == Spec => []TypeOK
<1>1. Init => TypeOK
  BY InitTypes
<1>2. TypeOK /\ [Next]_vars => TypeOK'
  <2> SUFFICES ASSUME TypeOK, [Next]_vars PROVE TypeOK'
    OBVIOUS
  <2> USE DEF transport, control, locals, rehoming
  <2>a. 0 \in Threads /\ 0 \in Rehomes /\ Sockets \subseteq Threads
    BY BoundAssumption DEF Threads, Rehomes, Sockets
  <2>1. ASSUME NEW t \in Threads, FindBroken(t) PROVE TypeOK'
    BY <2>1, DisconnectTypes DEF FindBroken
  <2>2. ASSUME NEW t \in Threads, Notify(t) PROVE TypeOK'
    <3>1. at' \in [Threads -> Points]
      BY <2>2, GoTypes, PointNames DEF Notify, Move
    <3>2. QED
      BY <2>2, <2>a, <3>1 DEF Notify, TypeOK
  <2>3. ASSUME NEW t \in Threads, Claim(t) PROVE TypeOK'
    <3>1. at' \in [Threads -> Points]
      BY <2>3, GoTypes, PointNames DEF Claim, Move
    <3>2. QED
      BY <2>3, <2>a, <3>1 DEF Claim, TypeOK
  <2>4. ASSUME NEW t \in Threads, Wait(t) PROVE TypeOK'
    <3>1. at' \in [Threads -> Points]
      BY <2>4, GoTypes, PointNames DEF Wait, Move
    <3>2. QED
      BY <2>4, <2>a, <3>1 DEF Wait, TypeOK
  <2>5. ASSUME NEW t \in Threads, DiscoverSucceeds(t) PROVE TypeOK'
    <3>1. at' \in [Threads -> Points]
      BY <2>5, GoTypes, PointNames DEF DiscoverSucceeds, Move
    <3>2. QED
      BY <2>5, <2>a, <3>1 DEF DiscoverSucceeds, TypeOK
  <2>6. ASSUME NEW t \in Threads, DiscoverFails(t) PROVE TypeOK'
    <3>1. at' \in [Threads -> Points]
      BY <2>6, GoTypes, PointNames DEF DiscoverFails, Move
    <3>2. QED
      BY <2>6, <2>a, <3>1 DEF DiscoverFails, TypeOK
  <2>7. ASSUME NEW t \in Threads, CheckPolicy(t) PROVE TypeOK'
    <3>1. at' \in [Threads -> Points]
      BY <2>7, GoTypes, PointNames DEF CheckPolicy, Move
    <3>2. QED
      BY <2>7, <2>a, <3>1 DEF CheckPolicy, TypeOK
  <2>8. ASSUME NEW t \in Threads, ConnectFails(t) PROVE TypeOK'
    <3>1. at' \in [Threads -> Points]
      BY <2>8, GoTypes, PointNames DEF ConnectFails, Move
    <3>2. QED
      BY <2>8, <2>a, <3>1 DEF ConnectFails, TypeOK
  <2>9. ASSUME NEW t \in Threads, OpenSocket(t) PROVE TypeOK'
    <3>1. at' \in [Threads -> Points]
      BY <2>9, GoTypes, PointNames DEF OpenSocket, Move
    <3>2. generation + 1 \in Sockets
      BY <2>9, BoundAssumption DEF OpenSocket, TypeOK, Sockets
    <3>3. QED
      BY <2>9, <2>a, <3>1, <3>2 DEF OpenSocket, TypeOK
  <2>10. ASSUME NEW t \in Threads, MarkConnected(t) PROVE TypeOK'
    <3>1. at' \in [Threads -> Points]
      BY <2>10, GoTypes, PointNames DEF MarkConnected, Move
    <3>2. QED
      BY <2>10, <2>a, <3>1 DEF MarkConnected, TypeOK
  <2>11. ASSUME NEW t \in Threads, StartReceiving(t) PROVE TypeOK'
    <3>1. at' \in [Threads -> Points]
      BY <2>11, GoTypes, PointNames DEF StartReceiving, Move
    <3>2. QED
      BY <2>11, <2>a, <3>1 DEF StartReceiving, TypeOK
  <2>12. ASSUME NEW t \in Threads, AuthSucceeds(t) PROVE TypeOK'
    <3>1. at' \in [Threads -> Points]
      BY <2>12, GoTypes, PointNames DEF AuthSucceeds, Move
    <3>2. QED
      BY <2>12, <2>a, <3>1 DEF AuthSucceeds, TypeOK
  <2>13. ASSUME NEW t \in Threads, FinishRestore(t) PROVE TypeOK'
    <3>1. at' \in [Threads -> Points]
      BY <2>13, GoTypes, PointNames DEF FinishRestore, Move
    <3>2. QED
      BY <2>13, <2>a, <3>1 DEF FinishRestore, TypeOK
  <2>14. ASSUME NEW t \in Threads, RestoreFails(t) PROVE TypeOK'
    <3>1. at' \in [Threads -> Points]
      BY <2>14, GoTypes, PointNames DEF RestoreFails, Move
    <3>2. QED
      BY <2>14, <2>a, <3>1 DEF RestoreFails, TypeOK
  <2>15. ASSUME NEW t \in Threads, CheckTransport(t) PROVE TypeOK'
    <3>1. at' \in [Threads -> Points]
      BY <2>15, GoTypes, PointNames DEF CheckTransport, Move
    <3>2. QED
      BY <2>15, <2>a, <3>1 DEF CheckTransport, TypeOK
  <2>16. ASSUME NEW t \in Threads, Complete(t) PROVE TypeOK'
    <3>1. at' \in [Threads -> Points]
      BY <2>16, GoTypes, PointNames DEF Complete, Move
    <3>2. QED
      BY <2>16, <2>a, <3>1 DEF Complete, TypeOK
  <2>17. ASSUME NEW t \in Threads, Release(t) PROVE TypeOK'
    <3>1. at' \in [Threads -> Points]
      BY <2>17, GoTypes, PointNames DEF Release, Move
    <3>2. QED
      BY <2>17, <2>a, <3>1 DEF Release, TypeOK
  <2>18. ASSUME NEW t \in Threads, NoteRehome(t) PROVE TypeOK'
    <3>1. at' \in [Threads -> Points]
      BY <2>18, GoTypes, PointNames DEF NoteRehome, Move
    <3>2. rehomes + 1 \in Rehomes
      BY <2>18, BoundAssumption DEF NoteRehome, TypeOK, Rehomes
    <3>3. QED
      BY <2>18, <3>1, <3>2 DEF NoteRehome, TypeOK
  <2>19. ASSUME NEW t \in Threads, RefuseReconnect(t) PROVE TypeOK'
    <3>1. at' \in [Threads -> Points]
      BY <2>19, GoTypes, PointNames DEF RefuseReconnect, Move
    <3>2. QED
      BY <2>19, <2>a, <3>1 DEF RefuseReconnect, TypeOK
  <2>20. ASSUME NEW t \in Threads, AcceptReconnect(t) PROVE TypeOK'
    <3>1. at' \in [Threads -> Points]
      BY <2>20, GoTypes, PointNames DEF AcceptReconnect, Move
    <3>2. QED
      BY <2>20, <2>a, <3>1 DEF AcceptReconnect, TypeOK
  <2>21. ASSUME NEW t \in Threads, CutTransport(t) PROVE TypeOK'
    <3>1. CASE connected /\ sock = mine[t]
      BY <2>21, <3>1, DisconnectTypes DEF CutTransport
    <3>2. CASE ~(connected /\ sock = mine[t])
      <4>1. at' \in [Threads -> Points]
        BY <2>21, <3>2, GoTypes, PointNames DEF CutTransport
      <4>2. QED
        BY <2>21, <3>2, <4>1 DEF CutTransport, TypeOK
    <3>3. QED
      BY <3>1, <3>2
  <2>22. ASSUME NEW t \in Threads, RehomeArrives(t) PROVE TypeOK'
    <3>1. at' \in [Threads -> Points]
      BY <2>22, GoTypes, PointNames DEF RehomeArrives, Move
    <3>2. QED
      BY <2>22, <2>a, <3>1 DEF RehomeArrives, TypeOK
  <2>23. ASSUME NEW t \in Threads, Suspend(t) PROVE TypeOK'
    BY <2>23 DEF Suspend, TypeOK
  <2>24. ASSUME NEW s \in Sockets, Break(s) PROVE TypeOK'
    BY <2>24 DEF Break, TypeOK
  <2>25. CASE CloseFlags
    BY <2>25 DEF CloseFlags, TypeOK
  <2>26. CASE CloseSocket
    BY <2>26, <2>a DEF CloseSocket, TypeOK
  <2>27. CASE UNCHANGED vars
    BY <2>27 DEF vars, TypeOK
  <2>28. QED
    BY <2>1, <2>2, <2>3, <2>4, <2>5, <2>6, <2>7, <2>8, <2>9, <2>10, <2>11, <2>12,
       <2>13, <2>14, <2>15, <2>16, <2>17, <2>18, <2>19, <2>20, <2>21, <2>22, <2>23,
       <2>24, <2>25, <2>26, <2>27
       DEF Next, ThreadStep
<1>3. QED
  BY <1>1, <1>2, PTL DEF Spec

-----------------------------------------------------------------------------
(***************************************************************************)
(* One owner of the reconnect.                                             *)
(***************************************************************************)

Owner(t) == InLoop(t) \/ Pending(t)

\* The other threads stay where they are.
LEMMA GoElsewhere ==
  ASSUME TypeOK, NEW t \in Threads, NEW p, Go(t, p)
  PROVE  at'[t] = p /\ \A u \in Threads : u # t => at'[u] = at[u]
BY DEF Go, TypeOK

\* A thread outside the loop does something of its own.
LEMMA OuterStep ==
  ASSUME TypeOK, TransportInv, NEW t \in Threads, NEW p, Go(t, p),
         at[t] \in {"idle", "rehome", "request", "cut"},
         p \in {"idle", "rehome", "request", "cut"},
         UNCHANGED <<transport, auto, stop, reconnecting, should, closing>>,
         \A u \in Threads : u # t => mine'[u] = mine[u]
  PROVE  TransportInv'
<1> USE DEF transport
<1>1. at'[t] = p /\ \A u \in Threads : u # t => at'[u] = at[u]
  BY GoElsewhere
<1>2. \A u \in Threads : (InLoop(u)' <=> InLoop(u)) /\ (Pending(u)' <=> Pending(u))
  BY <1>1 DEF InLoop, Pending, LoopPoints
<1>3. OneLoop' /\ OneOwner'
  BY <1>2 DEF TransportInv, OneLoop, OneOwner
<1>4. OwnerKnowsTransport'
  BY <1>1, <1>2 DEF TransportInv, OwnerKnowsTransport
<1>5. TransportAgrees'
  BY <1>1 DEF TransportInv, TransportAgrees
<1>6. LossIsOwned'
  <2>1. \A u \in Threads : OwesReconnect(u)' <=> OwesReconnect(u)
    BY <1>2 DEF OwesReconnect, Pending
  <2>2. QED
    BY <2>1 DEF TransportInv, LossIsOwned
<1>7. NoStraySocket'
  BY <1>1 DEF TransportInv, NoStraySocket
<1>8. LateSocket'
  BY <1>1 DEF TransportInv, LateSocket
<1>9. QED
  BY <1>3, <1>4, <1>5, <1>6, <1>7, <1>8 DEF TransportInv

\* A move inside the loop keeps its thread the one owner of the reconnect.
LEMMA InnerOwner ==
  ASSUME TypeOK, TransportInv, NEW t \in Threads, NEW p \in LoopPoints, Go(t, p),
         InLoop(t), UNCHANGED <<reconnecting, should>>
  PROVE  /\ OneLoop' /\ OneOwner' /\ LossIsOwned'
         /\ at'[t] = p
         /\ \A u \in Threads : u # t =>
              at'[u] = at[u] /\ ~InLoop(u)' /\ ~Pending(u)' /\ ~InLoop(u) /\ ~Pending(u)
<1>1. at'[t] = p /\ \A u \in Threads : u # t => at'[u] = at[u]
  BY GoElsewhere
<1>2. InLoop(t)' /\ OwesReconnect(t)'
  BY <1>1 DEF InLoop, OwesReconnect
<1>3. \A u \in Threads : u # t => ~InLoop(u) /\ ~Pending(u)
  BY DEF TransportInv, OneOwner
<1>4. \A u \in Threads : u # t => ~InLoop(u)' /\ ~Pending(u)'
  BY <1>1, <1>3 DEF InLoop, Pending
<1>5. OneLoop' /\ OneOwner' /\ LossIsOwned'
  <2>1. OneLoop'
    BY <1>2, <1>4 DEF TransportInv, OneLoop
  <2>2. OneOwner'
    BY <1>4 DEF OneOwner
  <2>3. LossIsOwned'
    BY <1>2 DEF LossIsOwned
  <2>4. QED
    BY <2>1, <2>2, <2>3
<1>6. QED
  BY <1>1, <1>3, <1>4, <1>5

\* A move inside the loop that leaves the transport alone.
LEMMA InnerStep ==
  ASSUME TypeOK, TransportInv, NEW t \in Threads, NEW p \in LoopPoints, Go(t, p),
         InLoop(t),
         UNCHANGED <<transport, stop, reconnecting, should, closing>>,
         auto' \in {auto, FALSE},
         \A u \in Threads : u # t => mine'[u] = mine[u],
         p \in {"discover", "check", "connect"} => sock = 0,
         p = "wait" /\ ~stop => sock = 0 /\ ~connected,
         p \in {"restoring", "authenticated", "restored", "completing"} =>
           sock \in {0, mine'[t]},
         p # "opened", at[t] = "opened" => stop,
         closing = "closed" /\ sock # 0 => p \in {"started", "restoring"} /\ connected
  PROVE  TransportInv'
<1> USE DEF transport
<1>1. /\ OneLoop' /\ OneOwner' /\ LossIsOwned'
      /\ at'[t] = p
      /\ \A u \in Threads : u # t =>
           at'[u] = at[u] /\ ~InLoop(u)' /\ ~Pending(u)' /\ ~InLoop(u) /\ ~Pending(u)
  BY InnerOwner
<1>2. \A u \in Threads : u # t =>
        at'[u] \notin {"discover", "check", "connect", "opened", "wait", "restoring",
                      "authenticated", "restored", "completing"}
  BY <1>1 DEF InLoop, LoopPoints
<1>3. ~Pending(t)'
  BY <1>1 DEF Pending, LoopPoints
<1>4. OwnerKnowsTransport'
  BY <1>1, <1>2, <1>3 DEF OwnerKnowsTransport
<1>5. TransportAgrees'
  BY <1>1, <1>2 DEF TransportInv, TransportAgrees
<1>6. NoStraySocket'
  BY <1>1 DEF TransportInv, NoStraySocket, InLoop, LoopPoints
<1>7. LateSocket'
  <2>1. closing' # "open" => stop' /\ auto' = FALSE
    BY DEF TransportInv, LateSocket, TypeOK
  <2>2. closing' = "closed" /\ sock' # 0 =>
          at'[t] \in {"started", "restoring"} /\ connected'
    BY <1>1
  <2>3. QED
    BY <2>1, <2>2 DEF LateSocket
<1>8. QED
  BY <1>1, <1>4, <1>5, <1>6, <1>7 DEF TransportInv

\* The transport is taken away from a thread outside the loop.
LEMMA DisconnectStep ==
  ASSUME TypeOK, TransportInv, NEW t \in Threads, Disconnect(t),
         at[t] \in {"idle", "cut"}
  PROVE  TransportInv'
<1>1. /\ connected /\ sock # 0 /\ connected' = FALSE /\ sock' = 0
      /\ mine'[t] = sock /\ should'[t] = ShouldReconnect
      /\ \A u \in Threads : u # t => mine'[u] = mine[u] /\ should'[u] = should[u]
      /\ UNCHANGED <<auto, stop, reconnecting, alive, closing>>
  BY DEF Disconnect, TypeOK, control
<1>2. at'[t] = "notify" /\ \A u \in Threads : u # t => at'[u] = at[u]
  BY GoElsewhere DEF Disconnect
<1>3. \A u \in Threads : InLoop(u)' <=> InLoop(u)
  BY <1>2 DEF InLoop, LoopPoints
<1>4. \A u \in Threads : u # t => (Pending(u)' <=> Pending(u))
  BY <1>1, <1>2 DEF Pending
<1>5. Pending(t)' <=> ShouldReconnect
  BY <1>1, <1>2 DEF Pending
<1>6. ShouldReconnect => \A u \in Threads : ~InLoop(u) /\ ~Pending(u)
  BY <1>1 DEF ShouldReconnect, TransportInv, OneLoop, OwnerKnowsTransport
<1>7. ~InLoop(t)
  BY DEF InLoop, LoopPoints
<1>8. OneLoop'
  BY <1>1, <1>3 DEF TransportInv, OneLoop
<1>9. OneOwner'
  BY <1>3, <1>4, <1>5, <1>6, <1>7 DEF TransportInv, OneOwner
<1>10. OwnerKnowsTransport'
  <2>1. \A u \in Threads : ~stop => at[u] # "opened"
    BY <1>1 DEF TransportInv, OwnerKnowsTransport
  <2>2. QED
    BY <1>1, <1>2, <2>1 DEF OwnerKnowsTransport
<1>11. TransportAgrees'
  BY <1>1 DEF TransportAgrees
<1>12. LossIsOwned'
  <2>1. auto /\ ~stop /\ reconnecting => \E u \in Threads : InLoop(u)
    BY DEF TransportInv, OneLoop
  <2>2. auto /\ ~stop /\ ~reconnecting => OwesReconnect(t)'
    BY <1>1, <1>2 DEF ShouldReconnect, OwesReconnect
  <2>3. \A u \in Threads : InLoop(u) => OwesReconnect(u)'
    BY <1>3 DEF OwesReconnect
  <2>4. QED
    BY <1>1, <2>1, <2>2, <2>3 DEF LossIsOwned
<1>13. NoStraySocket'
  BY <1>1, <1>2 DEF TransportInv, NoStraySocket
<1>14. LateSocket'
  BY <1>1 DEF TransportInv, LateSocket
<1>15. QED
  BY <1>8, <1>9, <1>10, <1>11, <1>12, <1>13, <1>14 DEF TransportInv

\* The socket that was lost is closed.
LEMMA NotifyStep ==
  ASSUME TypeOK, TransportInv, NEW t \in Threads, Notify(t)
  PROVE  TransportInv'
<1>1. /\ at[t] = "notify" /\ Go(t, IF should[t] THEN "claim" ELSE "idle")
      /\ alive' = alive \ {mine[t]}
      /\ UNCHANGED <<sock, connected, auto, stop, reconnecting, mine, should, closing>>
  BY DEF Notify, Move, control, locals
<1>2. /\ at'[t] = IF should[t] THEN "claim" ELSE "idle"
      /\ \A u \in Threads : u # t => at'[u] = at[u]
  BY <1>1, GoElsewhere
<1>3. \A u \in Threads : (InLoop(u)' <=> InLoop(u)) /\ (Pending(u)' <=> Pending(u))
  BY <1>1, <1>2 DEF InLoop, Pending, LoopPoints
<1>4. OneLoop' /\ OneOwner'
  BY <1>1, <1>3 DEF TransportInv, OneLoop, OneOwner
<1>5. OwnerKnowsTransport'
  BY <1>1, <1>2, <1>3 DEF TransportInv, OwnerKnowsTransport
<1>6. TransportAgrees'
  BY <1>1, <1>2 DEF TransportInv, TransportAgrees
<1>7. LossIsOwned'
  <2>1. \A u \in Threads : OwesReconnect(u)' <=> OwesReconnect(u)
    BY <1>3 DEF OwesReconnect, Pending
  <2>2. QED
    BY <1>1, <2>1 DEF TransportInv, LossIsOwned
<1>8. NoStraySocket'
  BY <1>1, <1>2 DEF TransportInv, NoStraySocket
<1>9. LateSocket'
  BY <1>1, <1>2 DEF TransportInv, LateSocket
<1>10. QED
  BY <1>4, <1>5, <1>6, <1>7, <1>8, <1>9 DEF TransportInv

\* The loop is claimed by its one owner.
LEMMA ClaimStep ==
  ASSUME TypeOK, TransportInv, NEW t \in Threads, Claim(t)
  PROVE  TransportInv'
<1>1. /\ at[t] = "claim" /\ Go(t, IF stop \/ reconnecting THEN "idle" ELSE "wait")
      /\ reconnecting' = (reconnecting \/ ~stop)
      /\ UNCHANGED <<sock, connected, alive, auto, stop, mine, should, closing>>
  BY DEF Claim, Move, transport, locals
<1>2. /\ at'[t] = IF stop \/ reconnecting THEN "idle" ELSE "wait"
      /\ \A u \in Threads : u # t => at'[u] = at[u]
  BY <1>1, GoElsewhere
<1>3. Pending(t) /\ ~InLoop(t)
  BY <1>1 DEF Pending, InLoop, LoopPoints
<1>4. \A u \in Threads : ~InLoop(u) /\ (u # t => ~Pending(u))
  BY <1>3 DEF TransportInv, OneOwner
<1>5. ~reconnecting
  BY <1>4 DEF TransportInv, OneLoop
<1>6. \A u \in Threads : u # t => ~InLoop(u)' /\ ~Pending(u)'
  BY <1>1, <1>2, <1>4 DEF InLoop, Pending
<1>7. InLoop(t)' <=> ~stop
  BY <1>2, <1>5 DEF InLoop, LoopPoints
<1>8. OneLoop' /\ OneOwner'
  BY <1>1, <1>5, <1>6, <1>7 DEF OneLoop, OneOwner
<1>9. OwnerKnowsTransport'
  <2>1. ~stop => sock = 0 /\ ~connected
    BY <1>3 DEF TransportInv, OwnerKnowsTransport
  <2>2. \A u \in Threads : at'[u] \notin {"discover", "check", "connect", "opened",
                       "restoring", "authenticated", "restored", "completing"}
    BY <1>2, <1>6 DEF InLoop, LoopPoints
  <2>3. QED
    BY <1>1, <2>1, <2>2 DEF OwnerKnowsTransport
<1>10. TransportAgrees'
  BY <1>1, <1>2 DEF TransportInv, TransportAgrees
<1>11. LossIsOwned'
  BY <1>1, <1>7 DEF LossIsOwned, OwesReconnect
<1>12. NoStraySocket'
  BY <1>1, <1>2 DEF TransportInv, NoStraySocket
<1>13. LateSocket'
  BY <1>1, <1>2 DEF TransportInv, LateSocket
<1>14. QED
  BY <1>8, <1>9, <1>10, <1>11, <1>12, <1>13 DEF TransportInv

\* The loop ends, or goes on with a loss it finds.
LEMMA ReleaseStep ==
  ASSUME TypeOK, TransportInv, NEW t \in Threads, Release(t)
  PROVE  TransportInv'
<1>1. /\ at[t] = "release"
      /\ Go(t, IF auto /\ ~stop /\ ~connected THEN "claim" ELSE "idle")
      /\ reconnecting' = FALSE
      /\ UNCHANGED <<sock, connected, alive, auto, stop, mine, should, closing>>
  BY DEF Release, Move, transport, locals
<1>2. /\ at'[t] = IF auto /\ ~stop /\ ~connected THEN "claim" ELSE "idle"
      /\ \A u \in Threads : u # t => at'[u] = at[u]
  BY <1>1, GoElsewhere
<1>3. InLoop(t)
  BY <1>1 DEF InLoop, LoopPoints
<1>4. \A u \in Threads : u # t => ~InLoop(u) /\ ~Pending(u)
  BY <1>3 DEF TransportInv, OneOwner
<1>5. \A u \in Threads : ~InLoop(u)' /\ (u # t => ~Pending(u)')
  BY <1>1, <1>2, <1>4 DEF InLoop, Pending, LoopPoints
<1>6. OneLoop' /\ OneOwner'
  BY <1>1, <1>5 DEF OneLoop, OneOwner
<1>7. \A u \in Threads : at[u] # "opened"
  BY <1>1, <1>4 DEF InLoop, LoopPoints
<1>8. OwnerKnowsTransport'
  <2>1. ~stop /\ ~connected => sock = 0
    BY <1>7 DEF TransportInv, TransportAgrees
  <2>2. \A u \in Threads : at'[u] \notin {"discover", "check", "connect", "opened", "wait",
                       "restoring", "authenticated", "restored", "completing"}
    BY <1>5 DEF InLoop, LoopPoints
  <2>3. ~stop /\ Pending(t)' => ~connected
    BY <1>2 DEF Pending
  <2>4. QED
    BY <1>1, <1>5, <2>1, <2>2, <2>3 DEF OwnerKnowsTransport
<1>9. TransportAgrees'
  BY <1>1, <1>7 DEF TransportInv, TransportAgrees
<1>10. LossIsOwned'
  BY <1>1, <1>2 DEF LossIsOwned, OwesReconnect
<1>11. NoStraySocket'
  BY <1>1, <1>2 DEF TransportInv, NoStraySocket
<1>12. LateSocket'
  BY <1>1, <1>2 DEF TransportInv, LateSocket
<1>13. QED
  BY <1>6, <1>8, <1>9, <1>10, <1>11, <1>12 DEF TransportInv

\* After close() only the three points after the opening of a socket can find one.
LEMMA LateOwner ==
  ASSUME TransportInv, NEW t \in Threads, InLoop(t),
         at[t] \notin {"opened", "started", "restoring"}
  PROVE  ~(closing = "closed" /\ sock # 0)
<1>1. \A u \in Threads : at[u] \in {"opened", "started", "restoring"} => InLoop(u)
  BY DEF InLoop, LoopPoints
<1>2. QED
  BY <1>1 DEF TransportInv, OneLoop, LateSocket

\* The moves inside the loop that only look at the transport.
LEMMA LookingSteps ==
  ASSUME TypeOK, TransportInv, NEW t \in Threads,
         \/ Wait(t) \/ DiscoverSucceeds(t) \/ DiscoverFails(t) \/ CheckPolicy(t)
         \/ ConnectFails(t) \/ StartReceiving(t) \/ AuthSucceeds(t)
         \/ FinishRestore(t) \/ CheckTransport(t) \/ Complete(t)
  PROVE  TransportInv'
<1> USE DEF Move, transport, control, locals, InLoop
<1>a. /\ at[t] \in {"discover", "check", "connect"} => sock = 0
      /\ ~stop /\ at[t] = "wait" => sock = 0 /\ ~connected
      /\ at[t] \in {"restoring", "authenticated", "restored", "completing"} =>
           sock \in {0, mine[t]}
  BY DEF TransportInv, OwnerKnowsTransport
<1>b. at[t] \in LoopPoints /\ at[t] # "opened" =>
        \A u \in Threads : at[u] # "opened"
  BY DEF TransportInv, OneLoop, LoopPoints
<1>c. at[t] \in LoopPoints /\ at[t] # "opened" /\ ~stop => (connected <=> sock # 0)
  BY <1>b DEF TransportInv, TransportAgrees
<1>1. CASE Wait(t)
  <2>1. /\ at[t] = "wait" /\ Go(t, IF stop THEN "release" ELSE "discover")
        /\ UNCHANGED <<transport, control, mine, should, closing>>
    BY <1>1 DEF Wait
  <2>2. InLoop(t) /\ (IF stop THEN "release" ELSE "discover") \in LoopPoints
    BY <2>1 DEF LoopPoints
  <2>3. ~(closing = "closed" /\ sock # 0)
    BY <2>1, <2>2, LateOwner
  <2>4. QED
    BY <1>a, <2>1, <2>2, <2>3, InnerStep
<1>2. CASE DiscoverSucceeds(t)
  <2>1. /\ at[t] = "discover" /\ Go(t, "check")
        /\ UNCHANGED <<transport, control, mine, should, closing>>
    BY <1>2 DEF DiscoverSucceeds
  <2>2. InLoop(t) /\ "check" \in LoopPoints
    BY <2>1 DEF LoopPoints
  <2>3. QED
    BY <1>a, <2>1, <2>2, InnerStep
<1>3. CASE DiscoverFails(t)
  <2>1. /\ at[t] = "discover" /\ Go(t, IF required THEN "wait" ELSE "check")
        /\ UNCHANGED <<transport, control, mine, should, closing>>
    BY <1>3 DEF DiscoverFails
  <2>2. InLoop(t) /\ (IF required THEN "wait" ELSE "check") \in LoopPoints
    BY <2>1 DEF LoopPoints
  <2>3. ~stop => sock = 0 /\ ~connected
    BY <1>a, <1>c, <2>1, <2>2
  <2>4. QED
    BY <1>a, <2>1, <2>2, <2>3, InnerStep
<1>4. CASE CheckPolicy(t)
  <2> DEFINE p == IF required /\ ~found[t] THEN "wait" ELSE "connect"
  <2>1. /\ at[t] = "check" /\ Go(t, p)
        /\ UNCHANGED <<transport, control, mine, should, closing>>
    BY <1>4 DEF CheckPolicy
  <2>2. InLoop(t) /\ p \in LoopPoints /\ p \in {"wait", "connect"}
    BY <2>1 DEF LoopPoints
  <2>3. ~stop => sock = 0 /\ ~connected
    BY <1>a, <1>c, <2>1, <2>2
  <2> HIDE DEF p
  <2>4. QED
    BY <1>a, <2>1, <2>2, <2>3, InnerStep
<1>5. CASE ConnectFails(t)
  <2>1. /\ at[t] = "connect" /\ Go(t, "wait")
        /\ UNCHANGED <<transport, control, mine, should, closing>>
    BY <1>5 DEF ConnectFails
  <2>2. InLoop(t) /\ "wait" \in LoopPoints
    BY <2>1 DEF LoopPoints
  <2>3. ~stop => sock = 0 /\ ~connected
    BY <1>a, <1>c, <2>1, <2>2
  <2>4. QED
    BY <1>a, <2>1, <2>2, <2>3, InnerStep
<1>6. CASE StartReceiving(t)
  <2> DEFINE p == IF sock # 0 /\ connected THEN "restoring" ELSE "wait"
  <2>1. /\ at[t] = "started" /\ Go(t, p)
        /\ mine' = [mine EXCEPT ![t] = sock]
        /\ UNCHANGED <<transport, control, should, closing>>
    BY <1>6 DEF StartReceiving
  <2>2. InLoop(t) /\ p \in LoopPoints /\ p \in {"wait", "restoring"}
    BY <2>1 DEF LoopPoints
  <2>3. mine'[t] = sock /\ \A u \in Threads : u # t => mine'[u] = mine[u]
    BY <2>1 DEF TypeOK
  <2>4. p = "wait" /\ ~stop => sock = 0 /\ ~connected
    BY <1>c, <2>1, <2>2
  <2>5. closing = "closed" /\ sock # 0 => p = "restoring" /\ connected
    <3>1. \A u \in Threads : u # t => at[u] \notin {"opened", "started", "restoring"}
      BY <2>2 DEF TransportInv, OneLoop, LoopPoints
    <3>2. QED
      BY <2>1, <3>1 DEF TransportInv, LateSocket
  <2> HIDE DEF p
  <2>6. QED
    BY <2>1, <2>2, <2>3, <2>4, <2>5, InnerStep
<1>7. CASE AuthSucceeds(t)
  <2>1. /\ at[t] = "restoring" /\ Go(t, "authenticated") /\ ~stop
        /\ UNCHANGED <<transport, control, mine, should, closing>>
    BY <1>7 DEF AuthSucceeds
  <2>2. InLoop(t) /\ "authenticated" \in LoopPoints
    BY <2>1 DEF LoopPoints
  <2>3. closing # "closed"
    BY <2>1 DEF TransportInv, LateSocket
  <2>4. QED
    BY <1>a, <2>1, <2>2, <2>3, InnerStep
<1>8. CASE FinishRestore(t)
  <2>1. /\ at[t] = "authenticated" /\ Go(t, "restored")
        /\ UNCHANGED <<transport, control, mine, should, closing>>
    BY <1>8 DEF FinishRestore
  <2>2. InLoop(t) /\ "restored" \in LoopPoints
    BY <2>1 DEF LoopPoints
  <2>3. ~(closing = "closed" /\ sock # 0)
    BY <2>1, <2>2, LateOwner
  <2>4. QED
    BY <1>a, <2>1, <2>2, <2>3, InnerStep
<1>9. CASE CheckTransport(t)
  <2> DEFINE p == IF connected /\ sock = mine[t] THEN "completing" ELSE "wait"
  <2>1. /\ at[t] = "restored" /\ Go(t, p)
        /\ UNCHANGED <<transport, control, mine, should, closing>>
    BY <1>9 DEF CheckTransport
  <2>2. InLoop(t) /\ p \in LoopPoints /\ p \in {"wait", "completing"}
    BY <2>1 DEF LoopPoints
  <2>3. ~(closing = "closed" /\ sock # 0)
    BY <2>1, <2>2, LateOwner
  <2>4. p = "wait" /\ ~stop => sock = 0 /\ ~connected
    BY <1>a, <1>c, <2>1, <2>2
  <2> HIDE DEF p
  <2>5. QED
    BY <1>a, <2>1, <2>2, <2>3, <2>4, InnerStep
<1>10. CASE Complete(t)
  <2>1. /\ at[t] = "completing" /\ Go(t, "release")
        /\ UNCHANGED <<transport, auto, stop, reconnecting, mine, should, closing>>
    BY <1>10 DEF Complete
  <2>2. InLoop(t) /\ "release" \in LoopPoints
    BY <2>1 DEF LoopPoints
  <2>3. ~(closing = "closed" /\ sock # 0)
    BY <2>1, <2>2, LateOwner
  <2>4. QED
    BY <2>1, <2>2, <2>3, InnerStep
<1>11. QED
  BY <1>1, <1>2, <1>3, <1>4, <1>5, <1>6, <1>7, <1>8, <1>9, <1>10

\* The moves inside the loop that open, announce or drop a socket.
LEMMA SocketSteps ==
  ASSUME TypeOK, TransportInv, NEW t \in Threads,
         OpenSocket(t) \/ MarkConnected(t) \/ RestoreFails(t)
  PROVE  TransportInv'
<1> DEFINE p == IF OpenSocket(t) THEN "opened"
                ELSE IF MarkConnected(t) THEN "started" ELSE "wait"
<1>1. /\ Go(t, p) /\ p \in LoopPoints /\ InLoop(t)
      /\ UNCHANGED <<stop, reconnecting, mine, should, closing>>
  BY DEF OpenSocket, MarkConnected, RestoreFails, Move, InLoop, LoopPoints, control, locals
<1>2. /\ OneLoop' /\ OneOwner' /\ LossIsOwned'
      /\ at'[t] = p
      /\ \A u \in Threads : u # t =>
           at'[u] = at[u] /\ ~InLoop(u)' /\ ~Pending(u)' /\ ~InLoop(u) /\ ~Pending(u)
  BY <1>1, InnerOwner
<1>3. p \in {"opened", "started", "wait"}
  OBVIOUS
<1>4. ~Pending(t)'
  BY <1>2, <1>3 DEF Pending
<1>5. \A u \in Threads : u # t =>
        /\ at'[u] \notin {"discover", "check", "connect", "opened", "wait", "started",
                          "restoring", "authenticated", "restored", "completing"}
        /\ at[u] \notin {"opened", "started"}
  BY <1>2 DEF InLoop, LoopPoints
<1>6. CASE OpenSocket(t)
  <2>1. /\ at[t] = "connect" /\ at'[t] = "opened"
        /\ sock' = generation + 1 /\ alive' = alive \cup {generation + 1}
        /\ UNCHANGED <<connected, auto>>
    BY <1>2, <1>6 DEF OpenSocket, Move, control
  <2>2. sock = 0 /\ sock' # 0 /\ 0 \notin alive
    BY <2>1 DEF TransportInv, OwnerKnowsTransport, TypeOK, Sockets
  <2>3. ~stop => ~connected
    BY <1>5, <2>1, <2>2 DEF TransportInv, TransportAgrees
  <2>4. OwnerKnowsTransport'
    BY <1>1, <1>2, <1>4, <1>5, <2>1, <2>2, <2>3 DEF OwnerKnowsTransport
  <2>5. TransportAgrees'
    BY <2>1 DEF TransportAgrees
  <2>6. NoStraySocket'
    BY <1>1, <1>2, <2>1, <2>2 DEF TransportInv, NoStraySocket
  <2>7. LateSocket'
    BY <1>1, <2>1 DEF TransportInv, LateSocket
  <2>8. QED
    BY <1>2, <2>4, <2>5, <2>6, <2>7 DEF TransportInv
<1>7. CASE MarkConnected(t)
  <2>1. /\ at[t] = "opened" /\ at'[t] = "started" /\ connected' = TRUE
        /\ UNCHANGED <<sock, alive, auto>>
    BY <1>2, <1>7 DEF MarkConnected, OpenSocket, Move, control
  <2>2. OwnerKnowsTransport'
    BY <1>1, <1>2, <1>4, <1>5, <2>1 DEF OwnerKnowsTransport
  <2>3. TransportAgrees'
    BY <1>1, <2>1 DEF TransportInv, TransportAgrees, OwnerKnowsTransport
  <2>4. NoStraySocket'
    BY <1>1, <1>2, <2>1 DEF TransportInv, NoStraySocket
  <2>5. LateSocket'
    BY <1>1, <2>1 DEF TransportInv, LateSocket
  <2>6. QED
    BY <1>2, <2>2, <2>3, <2>4, <2>5 DEF TransportInv
<1>8. CASE RestoreFails(t)
  <2>1. /\ at[t] \in {"restoring", "authenticated"} /\ at'[t] = "wait"
        /\ connected' = FALSE /\ sock' = 0 /\ alive' = alive \ {sock}
        /\ auto' \in {auto, FALSE}
    BY <1>2, <1>8 DEF RestoreFails, OpenSocket, MarkConnected, Move
  <2>2. OwnerKnowsTransport'
    BY <1>1, <1>2, <1>4, <1>5, <2>1 DEF OwnerKnowsTransport
  <2>3. TransportAgrees'
    BY <2>1 DEF TransportAgrees
  <2>4. NoStraySocket'
    BY <1>1, <1>2, <2>1 DEF TransportInv, NoStraySocket
  <2>5. LateSocket'
    <3>1. closing # "open" => stop /\ auto = FALSE
      BY DEF TransportInv, LateSocket, TypeOK
    <3>2. closing' # "open" => stop' /\ ~auto'
      BY <1>1, <2>1, <3>1
    <3>3. QED
      BY <2>1, <3>2 DEF LateSocket
  <2>6. QED
    BY <1>2, <2>2, <2>3, <2>4, <2>5 DEF TransportInv
<1>9. QED
  BY <1>6, <1>7, <1>8

\* Steps that move no thread: a socket breaks, auto_reconnect is suspended, close().
LEMMA ClientSteps ==
  ASSUME TypeOK, TransportInv,
         \/ \E s \in Sockets : Break(s)
         \/ \E t \in Threads : Suspend(t)
         \/ CloseFlags \/ CloseSocket \/ UNCHANGED vars
  PROVE  TransportInv'
<1> USE DEF transport, control, locals
<1>1. UNCHANGED <<at, mine, should, reconnecting>>
  BY DEF Break, Suspend, CloseFlags, CloseSocket, vars
<1>2. \A u \in Threads : (InLoop(u)' <=> InLoop(u)) /\ (Pending(u)' <=> Pending(u))
                         /\ (OwesReconnect(u)' <=> OwesReconnect(u))
  BY <1>1 DEF InLoop, Pending, OwesReconnect
<1>3. OneLoop' /\ OneOwner'
  BY <1>1, <1>2 DEF TransportInv, OneLoop, OneOwner
<1>4. /\ auto' \in {auto, FALSE}
      /\ auto' => auto
      /\ \/ sock' = sock /\ alive' = alive
         \/ sock' = 0 /\ alive' = alive \ {sock}
      /\ ~stop' => ~stop /\ UNCHANGED <<sock, connected, closing>>
  <2>1. CASE \E s \in Sockets : Break(s)
    <3>1. UNCHANGED <<sock, connected, alive, auto, stop, closing>>
      BY <2>1 DEF Break
    <3>2. QED
      BY <3>1
  <2>2. CASE \E t \in Threads : Suspend(t)
    <3>1. auto' = FALSE /\ UNCHANGED <<sock, connected, alive, stop, closing>>
      BY <2>2 DEF Suspend
    <3>2. QED
      BY <3>1
  <2>3. CASE CloseFlags
    BY <2>3 DEF CloseFlags
  <2>4. CASE CloseSocket
    <3>1. stop /\ stop' = stop
      BY <2>4 DEF CloseSocket, TransportInv, LateSocket
    <3>2. QED
      BY <2>4, <3>1 DEF CloseSocket
  <2>5. CASE UNCHANGED vars
    <3>1. UNCHANGED <<sock, connected, alive, auto, stop, closing>>
      BY <2>5 DEF vars
    <3>2. QED
      BY <3>1
  <2>6. QED
    BY <2>1, <2>2, <2>3, <2>4, <2>5
<1>5. OwnerKnowsTransport'
  BY <1>1, <1>2, <1>4 DEF TransportInv, OwnerKnowsTransport
<1>6. TransportAgrees'
  BY <1>1, <1>4 DEF TransportInv, TransportAgrees
<1>7. LossIsOwned'
  <2>1. auto' /\ ~stop' /\ ~connected' => auto /\ ~stop /\ ~connected
    BY <1>4
  <2>2. QED
    BY <1>2, <2>1 DEF TransportInv, LossIsOwned
<1>8. NoStraySocket'
  BY <1>1, <1>4 DEF TransportInv, NoStraySocket, TypeOK, Sockets
<1>9. LateSocket'
  <2>1. CASE closing' = "open"
    BY <2>1 DEF LateSocket
  <2>2. CASE CloseFlags
    BY <2>2 DEF CloseFlags, LateSocket
  <2>3. CASE CloseSocket
    BY <2>3 DEF CloseSocket, LateSocket, TransportInv
  <2>4. CASE UNCHANGED <<closing, connected, sock, stop>>
    <3>1. closing # "open" => stop /\ auto = FALSE
      BY DEF TransportInv, LateSocket, TypeOK
    <3>2. closing' # "open" => stop' /\ ~auto'
      BY <1>4, <2>4, <3>1
    <3>3. QED
      BY <1>1, <2>4, <3>2 DEF LateSocket, TransportInv
  <2>5. QED
    BY <2>2, <2>3, <2>4 DEF Break, Suspend, vars
<1>10. QED
  BY <1>3, <1>5, <1>6, <1>7, <1>8, <1>9 DEF TransportInv

\* Rehoming outside the loop.
LEMMA RehomeSteps ==
  ASSUME TypeOK, TransportInv, NEW t \in Threads,
         \/ RehomeArrives(t) \/ NoteRehome(t) \/ RefuseReconnect(t)
         \/ AcceptReconnect(t) \/ CutTransport(t)
  PROVE  TransportInv'
<1> USE DEF Move, transport, control, locals
<1>1. CASE RehomeArrives(t)
  BY <1>1, OuterStep DEF RehomeArrives, Dispatching
<1>2. CASE NoteRehome(t)
  BY <1>2, OuterStep DEF NoteRehome
<1>3. CASE RefuseReconnect(t)
  BY <1>3, OuterStep DEF RefuseReconnect
<1>4. CASE AcceptReconnect(t)
  <2> DEFINE p == IF sock = 0 \/ ~connected THEN "idle" ELSE "cut"
  <2>1. /\ at[t] = "request" /\ Go(t, p) /\ p \in {"idle", "cut"}
        /\ UNCHANGED <<transport, auto, stop, reconnecting, should, closing>>
    BY <1>4 DEF AcceptReconnect
  <2>2. \A u \in Threads : u # t => mine'[u] = mine[u]
    BY <1>4 DEF AcceptReconnect, TypeOK
  <2> HIDE DEF p
  <2>3. QED
    BY <2>1, <2>2, OuterStep
<1>5. CASE CutTransport(t)
  <2>1. CASE connected /\ sock = mine[t]
    BY <1>5, <2>1, DisconnectStep DEF CutTransport
  <2>2. CASE ~(connected /\ sock = mine[t])
    BY <1>5, <2>2, OuterStep DEF CutTransport
  <2>3. QED
    BY <2>1, <2>2
<1>6. QED
  BY <1>1, <1>2, <1>3, <1>4, <1>5

\* The invariant holds once connect() has returned.
LEMMA InitTransport == Init => TransportInv
<1> SUFFICES ASSUME Init PROVE TransportInv
  OBVIOUS
<1>1. \A t \in Threads : at[t] = "idle" /\ ~InLoop(t) /\ ~Pending(t)
  BY DEF Init, InLoop, Pending, LoopPoints
<1>2. QED
  BY <1>1 DEF Init, TransportInv, OneLoop, OneOwner, OwnerKnowsTransport,
              TransportAgrees, LossIsOwned, NoStraySocket, LateSocket

\* The reconnect has one owner, which knows what became of the transport.
THEOREM TransportCorrect == Spec => []TransportInv
<1>1. TypeOK /\ TransportInv /\ [Next]_vars => TransportInv'
  <2> SUFFICES ASSUME TypeOK, TransportInv, [Next]_vars PROVE TransportInv'
    OBVIOUS
  <2>1. ASSUME NEW t \in Threads, FindBroken(t) PROVE TransportInv'
    BY <2>1, DisconnectStep DEF FindBroken
  <2>2. ASSUME NEW t \in Threads, ThreadStep(t) PROVE TransportInv'
    BY <2>2, NotifyStep, ClaimStep, ReleaseStep, LookingSteps, SocketSteps, RehomeSteps
       DEF ThreadStep
  <2>3. ASSUME NEW t \in Threads, RehomeArrives(t) PROVE TransportInv'
    BY <2>3, RehomeSteps
  <2>4. QED
    BY <2>1, <2>2, <2>3, ClientSteps DEF Next
<1>2. QED
  BY <1>1, InitTransport, TypeCorrect, PTL DEF Spec

\* OneLoop for every number of sockets: however many threads lose the transport,
\* one at most runs the reconnect loop.
THEOREM LoopIsUnique == Spec => []OneLoop
<1>1. TransportInv => OneLoop
  BY DEF TransportInv
<1>2. QED
  BY <1>1, TransportCorrect, PTL

\* LossIsOwned: a loss that starts no loop is left to the running one, which looks
\* again before it is done.
THEOREM LossIsNotForgotten == Spec => []LossIsOwned
<1>1. TransportInv => LossIsOwned
  BY DEF TransportInv
<1>2. QED
  BY <1>1, TransportCorrect, PTL

\* NoStraySocket: every socket but the current one is about to be closed.
THEOREM SocketsAreClosed == Spec => []NoStraySocket
<1>1. TransportInv => NoStraySocket
  BY DEF TransportInv
<1>2. QED
  BY <1>1, TransportCorrect, PTL

\* ClosedIsQuiet: only the loop still holds a socket after close().
THEOREM CloseIsQuiet == Spec => []ClosedIsQuiet
<1>1. TransportInv => ClosedIsQuiet
  BY DEF TransportInv, LateSocket, ClosedIsQuiet, InLoop, LoopPoints
<1>2. QED
  BY <1>1, TransportCorrect, PTL

=============================================================================
