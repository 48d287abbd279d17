---------------------------- MODULE Negotiation ----------------------------
(***************************************************************************)
(* A capability negotiation (HistoryCapabilityRuntime and                  *)
(* SessionCapabilityRuntime, which differ in two lines): an OFFER goes     *)
(* out, an ACK or the end of a timer settles it, and a reset forgets it.   *)
(* The OFFER is sent between two critical sections, so that resets, ACKs,  *)
(* timers and the OFFERs of other threads come in between; _generation     *)
(* tells the sender and the timer whether the negotiation is still theirs. *)
(* Here any thread may do anything at any time; Session says who does.     *)
(*                                                                         *)
(* The event _settled is set exactly while _state is not waiting_ack, and  *)
(* a runtime that does not advertise does nothing: neither is modelled.    *)
(***************************************************************************)
EXTENDS Naturals

CONSTANT Threads  \* those that may call begin_offer

VARIABLES
  kind,        \* which of the two runtimes this is
  state,       \* _state
  generation,  \* _generation
  eligible,    \* v2_eligible or _handoff_negotiated
  timer,       \* the generation _timer was started for, 0 when None
  firing,      \* generations whose timer ran out and waits for the lock
  offering     \* thread -> generation of the OFFER it is sending, 0 none

vars == <<kind, state, generation, eligible, timer, firing, offering>>

Kinds  == {"history", "session"}
States == {"idle", "waiting", "negotiated", "fallback"}

\* What an ACK may say: all that was offered, less, or what cannot be accepted.
Acks == {"full", "less", "invalid"}

TypeOK ==
  /\ kind \in Kinds
  /\ state \in States
  /\ generation \in Nat
  /\ eligible \in BOOLEAN
  /\ timer \in Nat
  /\ firing \subseteq Nat \ {0}
  /\ offering \in [Threads -> Nat]

Init ==
  /\ kind \in Kinds
  /\ state = "idle"
  /\ generation = 0
  /\ eligible = FALSE
  /\ timer = 0
  /\ firing = {}
  /\ offering = [t \in Threads |-> 0]

\* _set_fallback_locked.  A timer that already ran out cannot be cancelled.
Fallback ==
  /\ state' = "fallback"
  /\ eligible' = FALSE
  /\ timer' = 0

Reset ==
  /\ generation' = generation + 1
  /\ state' = "idle"
  /\ eligible' = FALSE
  /\ timer' = 0
  /\ UNCHANGED <<kind, firing, offering>>

\* The peer does not know the capability; only one of the two ends the generation.
MarkUnsupported ==
  /\ Fallback
  /\ generation' = IF kind = "history" THEN generation + 1 ELSE generation
  /\ UNCHANGED <<kind, firing, offering>>

\* begin_offer up to the send.  The session runtime forgets the negotiation but not
\* that a handoff was agreed.
BeginOffer(t) ==
  /\ offering[t] = 0
  /\ generation' = generation + 1
  /\ state' = "waiting"
  /\ eligible' = (eligible /\ kind = "session")
  /\ timer' = 0
  /\ offering' = [offering EXCEPT ![t] = generation + 1]
  /\ UNCHANGED <<kind, firing>>

\* begin_offer after the send: the timer is started only for a negotiation that is
\* still this thread's and still open.
FinishOffer(t, sent) ==
  /\ offering[t] # 0
  /\ offering' = [offering EXCEPT ![t] = 0]
  /\ \/ /\ offering[t] = generation
        /\ ~sent
        /\ Fallback
     \/ /\ offering[t] = generation
        /\ sent
        /\ timer' = IF state = "waiting" THEN generation ELSE timer
        /\ UNCHANGED <<state, eligible>>
     \/ /\ offering[t] # generation
        /\ UNCHANGED <<state, eligible, timer>>
  /\ UNCHANGED <<kind, generation, firing>>

\* handle_ack: an ACK names no OFFER, it settles whatever is open.
TakeAck(ack) ==
  /\ IF state # "waiting"
     THEN UNCHANGED <<state, eligible, timer>>
     ELSE \/ ack = "invalid" /\ Fallback
          \/ /\ ack # "invalid"
             /\ state' = "negotiated"
             /\ eligible' = (ack = "full")
             /\ timer' = 0
  /\ UNCHANGED <<kind, generation, firing, offering>>

\* The timer thread wakes and asks for the lock.
TimerRunsOut ==
  /\ timer \notin firing \cup {0}
  /\ firing' = firing \cup {timer}
  /\ UNCHANGED <<kind, state, generation, eligible, timer, offering>>

\* Bug variant: the runtime forgets its timer before it looks whose timeout it is.
TimeoutForgetting(g) ==
  /\ g \in firing
  /\ firing' = firing \ {g}
  /\ timer' = 0
  /\ IF g = generation /\ state = "waiting"
     THEN state' = "fallback" /\ eligible' = FALSE
     ELSE UNCHANGED <<state, eligible>>
  /\ UNCHANGED <<kind, generation, offering>>

\* _handle_timeout.
Timeout(g) ==
  /\ g \in firing
  /\ firing' = firing \ {g}
  /\ IF g = generation /\ state = "waiting"
     THEN Fallback
     ELSE UNCHANGED <<state, eligible, timer>>
  /\ UNCHANGED <<kind, generation, offering>>

Next ==
  \/ Reset
  \/ MarkUnsupported
  \/ \E t \in Threads : BeginOffer(t)
  \/ \E t \in Threads, sent \in BOOLEAN : FinishOffer(t, sent)
  \/ \E ack \in Acks : TakeAck(ack)
  \/ TimerRunsOut
  \/ \E g \in firing : Timeout(g)

Spec == Init /\ [][Next]_vars

-----------------------------------------------------------------------------
(***************************************************************************)
(* Properties.                                                             *)
(***************************************************************************)

\* The current timer has not had its say: it runs, or it waits for the lock.  A
\* timer that waits is one of a generation that has been.
TimerIsOwn ==
  /\ timer # 0 => timer = generation /\ state = "waiting"
  /\ \A g \in firing : g = generation /\ state = "waiting" => timer = g

\* A negotiation that waits for its ACK has an end ahead, whatever threads, resets
\* and late timers did: its sender is still to start the timer, or the timer is
\* there.  Without it the first history query of a session waits for nothing.
WaitHasEnd ==
  state = "waiting" =>
    \/ timer = generation
    \/ \E t \in Threads : offering[t] = generation

\* Only what was agreed may be used, but for the handoff a new OFFER leaves behind.
EligibleIsAgreed ==
  eligible => state = "negotiated" \/ (kind = "session" /\ state = "waiting")

=============================================================================
