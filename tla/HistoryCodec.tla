---------------------------- MODULE HistoryCodec ----------------------------
(***************************************************************************)
(* The timestamp column of a history block: the first timestamp as it is,  *)
(* then the first delta and the changes from delta to delta, each          *)
(* zigzagged into an unsigned integer and cut into bytes of Group bits     *)
(* with a continuation bit.  In the program Group is 7 and Bytes 10, which *)
(* makes integers of 64 bits.  The other columns are copies.               *)
(***************************************************************************)
EXTENDS Integers, Sequences

CONSTANTS
  Group,  \* bits of an integer in a byte
  Bytes   \* bytes of the longest integer, the last of which holds one bit

ASSUME WidthAssumption == Group \in Nat \ {0} /\ Bytes \in Nat \ {0}

\* 1 << n.
Bit[n \in Nat] == IF n = 0 THEN 1 ELSE 2 * Bit[n - 1]

Base  == Bit[Group]
Half  == Bit[Group * (Bytes - 1)]
Times == -Half .. (Half - 1)  \* int64

ByteValues == 0 .. 2 * Base - 1

Continues(b) == b >= Base

-----------------------------------------------------------------------------
(***************************************************************************)
(* Integers.                                                               *)
(***************************************************************************)

\* Bug variant: the sign is lost.
ZigzagUnsigned(v) == IF v >= 0 THEN 2 * v ELSE -2 * v

\* (v << 1) ^ (v >> 63).
Zigzag(v) == IF v >= 0 THEN 2 * v ELSE -2 * v - 1

\* (u >> 1) ^ -(u & 1).
Unzigzag(u) == IF u % 2 = 0 THEN u \div 2 ELSE -(u \div 2) - 1

Varint[u \in Nat] ==
  IF u < Base THEN <<u>> ELSE <<(u % Base) + Base>> \o Varint[u \div Base]

\* Where the integer at the head of s may end: within Bytes bytes, the last of which
\* has one bit to give.
VarintEnds(s) ==
  {n \in 1 .. Len(s) :
     /\ n <= Bytes
     /\ ~Continues(s[n])
     /\ \A i \in 1 .. n - 1 : Continues(s[i])
     /\ n = Bytes => s[n] <= 1}

VarintValue(s, n) ==
  LET sum[i \in 0 .. Len(s)] ==
        IF i = 0 THEN 0 ELSE sum[i - 1] + (s[i] % Base) * Bit[Group * (i - 1)]
  IN sum[n]

-----------------------------------------------------------------------------
(***************************************************************************)
(* Columns.                                                                *)
(***************************************************************************)
Delta(times, i) == times[i + 1] - times[i]

\* The encoder refuses what does not grow, or grows by more than an int64.
Encodable(times) ==
  \A i \in 1 .. Len(times) - 1 : 0 < Delta(times, i) /\ Delta(times, i) < Half

Encoded(times) ==
  LET change(i) == IF i = 1 THEN Delta(times, 1)
                   ELSE Delta(times, i) - Delta(times, i - 1)
      upTo[i \in 0 .. Len(times) - 1] ==
        IF i = 0 THEN <<>> ELSE upTo[i - 1] \o Varint[Zigzag(change(i))]
  IN upTo[Len(times) - 1]

\* The state of the decoder: what is left of the column, the last delta, the rows.
Refused == [ok |-> FALSE, rest |-> <<>>, delta |-> 0, times |-> <<>>]

\* Bug variant: only the first delta is asked for its sign.
DecodeRowUnsigned(state) ==
  LET ends == VarintEnds(state.rest) IN
  IF ~state.ok \/ ends = {} THEN Refused
  ELSE LET n == CHOOSE end \in ends : TRUE
           delta == state.delta + Unzigzag(VarintValue(state.rest, n))
           time == state.times[Len(state.times)] + delta
       IN IF (state.delta = 0 /\ delta <= 0) \/ time \notin Times
          THEN Refused
          ELSE [ok |-> TRUE, rest |-> SubSeq(state.rest, n + 1, Len(state.rest)),
                delta |-> delta, times |-> Append(state.times, time)]

DecodeRow(state) ==
  LET ends == VarintEnds(state.rest) IN
  IF ~state.ok \/ ends = {} THEN Refused
  ELSE LET n == CHOOSE end \in ends : TRUE
           delta == state.delta + Unzigzag(VarintValue(state.rest, n))
           time == state.times[Len(state.times)] + delta
       IN IF delta \notin 1 .. Half - 1 \/ time \notin Times
          THEN Refused
          ELSE [ok |-> TRUE, rest |-> SubSeq(state.rest, n + 1, Len(state.rest)),
                delta |-> delta, times |-> Append(state.times, time)]

\* The timestamps of a column of so many rows, none if it is refused: too short, with
\* bytes to spare, or with a timestamp that cannot be.
Decoded(first, column, rows) ==
  LET upTo[i \in 0 .. rows - 1] ==
        IF i = 0
        THEN [ok |-> TRUE, rest |-> column, delta |-> 0, times |-> <<first>>]
        ELSE DecodeRow(upTo[i - 1])
      last == upTo[rows - 1]
  IN IF last.ok /\ last.rest = <<>> THEN last.times ELSE <<>>

-----------------------------------------------------------------------------
(***************************************************************************)
(* Properties.                                                             *)
(***************************************************************************)
Increasing(times) == \A i \in 1 .. Len(times) - 1 : times[i] < times[i + 1]

\* What the encoder accepts, at the edges of int64 too, comes back as it was.
RoundTrips(rows) ==
  \A times \in [1 .. rows -> Times] :
    Encodable(times) => Decoded(times[1], Encoded(times), rows) = times

\* Whatever bytes arrive, what the decoder accepts is increasing and within int64:
\* the history cache files rows by their order.
DecodesInOrder(rows, length) ==
  \A first \in Times, column \in [1 .. length -> ByteValues] :
    LET times == Decoded(first, column, rows)
    IN times # <<>> => Len(times) = rows /\ Increasing(times)
                       /\ \A i \in 1 .. rows : times[i] \in Times

=============================================================================
