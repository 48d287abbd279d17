------------------------- MODULE NegotiationProofs -------------------------
(***************************************************************************)
(* The negotiation is safe for any set of threads: proofs.                 *)
(*                                                                         *)
(* TimerIsOwn and WaitHasEnd speak of the current generation, and a new    *)
(* one must not meet an old number.  So the inductive invariant adds that  *)
(* no thread sends, and no timer waits, for a generation to come.          *)
(***************************************************************************)
EXTENDS Negotiation, TLAPS

\* Nobody holds a number that was not given out yet.
NoneAhead ==
  /\ \A t \in Threads : offering[t] <= generation
  /\ \A g \in firing : g <= generation

Safe ==
  /\ TypeOK
  /\ NoneAhead
  /\ TimerIsOwn
  /\ WaitHasEnd
  /\ EligibleIsAgreed

\* A new runtime is safe.
LEMMA InitIsSafe ==
  ASSUME Init
  PROVE  Safe
<1>1. TypeOK
  BY DEF Init, TypeOK, States
<1>2. NoneAhead /\ TimerIsOwn /\ WaitHasEnd /\ EligibleIsAgreed
  BY DEF Init, NoneAhead, TimerIsOwn, WaitHasEnd, EligibleIsAgreed
<1> QED
  BY <1>1, <1>2 DEF Safe

\* A step that ends the negotiation, or opens none, is safe.
LEMMA SettlingIsSafe ==
  ASSUME Safe,
         state' \in States \ {"waiting"},
         eligible' \in BOOLEAN, eligible' => state' = "negotiated",
         generation' \in Nat, generation' >= generation, timer' = 0,
         firing' \subseteq firing, UNCHANGED <<kind, offering>>
  PROVE  Safe'
<1>0. TypeOK'
  BY DEF Safe, TypeOK
<1>1. NoneAhead'
  BY DEF Safe, TypeOK, NoneAhead
<1>2. TimerIsOwn' /\ WaitHasEnd' /\ EligibleIsAgreed'
  BY DEF TimerIsOwn, WaitHasEnd, EligibleIsAgreed
<1> QED
  BY <1>0, <1>1, <1>2 DEF Safe

\* No call, ACK or timer makes it unsafe, whatever the other threads are doing.
LEMMA StepIsSafe ==
  ASSUME Safe, [Next]_vars
  PROVE  Safe'
<1> USE DEF Safe
<1>1. CASE Reset
  <2>1. eligible' \in BOOLEAN
    BY <1>1 DEF Reset
  <2> QED
    BY <1>1, <2>1, SettlingIsSafe DEF Reset, TypeOK, States
<1>2. CASE MarkUnsupported
  <2>1. eligible' \in BOOLEAN
    BY <1>2 DEF MarkUnsupported, Fallback
  <2> QED
    BY <1>2, <2>1, SettlingIsSafe DEF MarkUnsupported, Fallback, TypeOK, States
<1>3. ASSUME NEW t \in Threads, BeginOffer(t)
      PROVE  Safe'
  <2>1. TypeOK'
    BY <1>3 DEF BeginOffer, TypeOK, States
  <2>2. NoneAhead'
    BY <1>3 DEF BeginOffer, TypeOK, NoneAhead
  <2>3. TimerIsOwn'
    \* The number is new: no timer that waits has it.
    BY <1>3 DEF BeginOffer, TypeOK, NoneAhead, TimerIsOwn
  <2>4. WaitHasEnd'
    BY <1>3 DEF BeginOffer, TypeOK, WaitHasEnd
  <2>5. EligibleIsAgreed'
    BY <1>3 DEF BeginOffer, TypeOK, EligibleIsAgreed
  <2> QED
    BY <2>1, <2>2, <2>3, <2>4, <2>5
<1>4. ASSUME NEW t \in Threads, NEW sent \in BOOLEAN, FinishOffer(t, sent)
      PROVE  Safe'
  <2>1. TypeOK'
    <3>1. eligible' \in BOOLEAN
      BY <1>4 DEF FinishOffer, Fallback, TypeOK
    <3>2. state' \in States /\ timer' \in Nat /\ offering' \in [Threads -> Nat]
      BY <1>4 DEF FinishOffer, Fallback, TypeOK, States
    <3> QED
      BY <1>4, <3>1, <3>2 DEF FinishOffer, TypeOK
  <2>2. NoneAhead'
    BY <1>4 DEF FinishOffer, TypeOK, NoneAhead
  <2>3. TimerIsOwn'
    BY <1>4 DEF FinishOffer, Fallback, TypeOK, TimerIsOwn
  <2>4. WaitHasEnd'
    \* The sender of the current negotiation leaves it to its timer; another was not
    \* what it waited for.
    BY <1>4 DEF FinishOffer, Fallback, TypeOK, WaitHasEnd
  <2>5. EligibleIsAgreed'
    BY <1>4 DEF FinishOffer, Fallback, EligibleIsAgreed
  <2> QED
    BY <2>1, <2>2, <2>3, <2>4, <2>5
<1>5. ASSUME NEW ack \in Acks, TakeAck(ack)
      PROVE  Safe'
  <2>1. CASE state # "waiting"
    BY <1>5, <2>1 DEF TakeAck, TypeOK, NoneAhead, TimerIsOwn, WaitHasEnd,
                      EligibleIsAgreed
  <2>2. CASE state = "waiting"
    <3>1. eligible' \in BOOLEAN /\ (eligible' => state' = "negotiated")
      BY <1>5, <2>2 DEF TakeAck, Fallback
    <3>2. state' \in States \ {"waiting"} /\ timer' = 0
      BY <1>5, <2>2 DEF TakeAck, Fallback, States
    <3> QED
      BY <1>5, <3>1, <3>2, SettlingIsSafe DEF TakeAck, TypeOK
  <2> QED
    BY <2>1, <2>2
<1>6. CASE TimerRunsOut
  <2>1. TypeOK'
    BY <1>6 DEF TimerRunsOut, TypeOK
  <2>2. NoneAhead' /\ TimerIsOwn'
    BY <1>6 DEF TimerRunsOut, TypeOK, NoneAhead, TimerIsOwn
  <2>3. WaitHasEnd' /\ EligibleIsAgreed'
    BY <1>6 DEF TimerRunsOut, WaitHasEnd, EligibleIsAgreed
  <2> QED
    BY <2>1, <2>2, <2>3
<1>7. ASSUME NEW g \in firing, Timeout(g)
      PROVE  Safe'
  <2>1. CASE g = generation /\ state = "waiting"
    <3>1. eligible' \in BOOLEAN
      BY <1>7, <2>1 DEF Timeout, Fallback
    <3> QED
      BY <1>7, <2>1, <3>1, SettlingIsSafe DEF Timeout, Fallback, TypeOK, States
  <2>2. CASE ~(g = generation /\ state = "waiting")
    <3>1. TypeOK' /\ NoneAhead'
      BY <1>7, <2>2 DEF Timeout, TypeOK, NoneAhead
    <3>2. TimerIsOwn' /\ WaitHasEnd' /\ EligibleIsAgreed'
      BY <1>7, <2>2 DEF Timeout, TimerIsOwn, WaitHasEnd, EligibleIsAgreed
    <3> QED
      BY <3>1, <3>2
  <2> QED
    BY <2>1, <2>2
<1>8. CASE UNCHANGED vars
  BY <1>8 DEF vars, TypeOK, NoneAhead, TimerIsOwn, WaitHasEnd, EligibleIsAgreed
<1> QED
  BY <1>1, <1>2, <1>3, <1>4, <1>5, <1>6, <1>7, <1>8 DEF Next

\* Everything below holds of every behaviour.
THEOREM AlwaysSafe == Spec => []Safe
<1>1. Init => Safe
  BY InitIsSafe
<1>2. Safe /\ [Next]_vars => Safe'
  BY StepIsSafe
<1> QED
  BY <1>1, <1>2, PTL DEF Spec

\* A waiting negotiation has its sender or its timer, which settle it.
THEOREM WaitEnds == Spec => []WaitHasEnd
<1>1. Safe => WaitHasEnd
  BY DEF Safe
<1> QED
  BY <1>1, AlwaysSafe, PTL

\* A timer belongs to the current negotiation, and no old one can end a new one.
THEOREM TimersAreOwned == Spec => []TimerIsOwn
<1>1. Safe => TimerIsOwn
  BY DEF Safe
<1> QED
  BY <1>1, AlwaysSafe, PTL

\* A capability is used only while an agreement on it stands.
THEOREM OnlyAgreed == Spec => []EligibleIsAgreed
<1>1. Safe => EligibleIsAgreed
  BY DEF Safe
<1> QED
  BY <1>1, AlwaysSafe, PTL

=============================================================================
