---------------------------- MODULE HistoryAnswer ----------------------------
(***************************************************************************)
(* What a user may rely on who calls for history or for finance data,      *)
(* without frames, windows, tables, transports or threads.  A call that is *)
(* open is decided once: it is told of the whole answer, or of an error.   *)
(* An error may still overtake an answer that was told but not yet read;   *)
(* otherwise a call that was told returns the rows, all of them, in order  *)
(* and for good.  A call that was told of an error raises it, and no       *)
(* timeout; one that was told nothing gives up by itself.  Calls are       *)
(* independent of each other.                                              *)
(***************************************************************************)
EXTENDS Naturals

CONSTANT Queries

VARIABLES
  status,  \* query -> how far its call is
  total,   \* query -> blocks of the answer, once the server knows
  rows     \* query -> the answer the call was told of, or returned

Errors   == {"disconnected", "failed"}
Statuses == {"idle", "open", "told", "refused", "rows", "timeout"} \cup Errors

Whole(q) == [i \in 1 .. total[q] |-> i]

Init ==
  /\ status = [q \in Queries |-> "idle"]
  /\ total = [q \in Queries |-> 0]
  /\ rows = [q \in Queries |-> <<>>]

Becomes(q, s) == status'[q] = s /\ total'[q] = total[q]

Ask(q) ==
  /\ status[q] = "idle"
  /\ Becomes(q, "open")
  /\ rows'[q] = rows[q]

\* The server learns how long the answer is, once, and not after it gave it.
Decide(q) ==
  /\ status[q] \notin {"idle", "told", "rows"}
  /\ total[q] = 0
  /\ total'[q] \in Nat
  /\ status'[q] = status[q] /\ rows'[q] = rows[q]

Tell(q) ==
  /\ status[q] = "open"
  /\ Becomes(q, "told")
  /\ rows'[q] = Whole(q)

Refuse(q) ==
  /\ status[q] \in {"open", "told"}
  /\ Becomes(q, "refused")
  /\ rows'[q] = <<>>

Return(q) ==
  /\ status[q] = "told"
  /\ Becomes(q, "rows")
  /\ rows'[q] = rows[q]

Raise(q) ==
  /\ status[q] = "refused"
  /\ \E e \in Errors : Becomes(q, e)
  /\ rows'[q] = rows[q]

\* Nothing was heard in time, or the request cannot be sent where it should go.
GiveUp(q) ==
  /\ status[q] = "open"
  /\ \E e \in Errors \cup {"timeout"} : Becomes(q, e)
  /\ rows'[q] = rows[q]

Stay(q) == Becomes(q, status[q]) /\ rows'[q] = rows[q]

Move(q) ==
  \/ Ask(q) \/ Decide(q) \/ Tell(q) \/ Refuse(q)
  \/ Return(q) \/ Raise(q) \/ GiveUp(q) \/ Stay(q)

Next == \A q \in Queries : Move(q)

Spec == Init /\ [][Next]_<<status, total, rows>>

=============================================================================
