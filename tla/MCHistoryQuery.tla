---------------------------- MODULE MCHistoryQuery ----------------------------
(***************************************************************************)
(* HistoryQuery on a small instance, and the timestamp column of the       *)
(* blocks its worker decodes, with integers of five bits.                  *)
(***************************************************************************)
EXTENDS HistoryQuery, HistoryCodec

MCRows   == 1 .. 3
MCLength == 0 .. 4

MCRoundTrips == \A rows \in MCRows : RoundTrips(rows)
MCInOrder    == \A rows \in MCRows, length \in MCLength : DecodesInOrder(rows, length)

\* The worker is about to decode a block, which may be any.
Decoding == \E w \in worker : w.at = "handle" /\ w.frame.kind = "data"

\* _decode_varint, _zigzag_decode and the loop of decode_columnar_block undo
\* encode_columnar_block, for every increasing run of up to three timestamps, those at
\* the edges of int64 with them.
BlocksRoundTrip == Decoding => MCRoundTrips

\* decode_columnar_block accepts no column that goes back in time or leaves int64,
\* whatever its bytes, up to three rows in four bytes.
BlocksInOrder == Decoding => MCInOrder

===============================================================================
