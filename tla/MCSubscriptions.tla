-------------------------- MODULE MCSubscriptions --------------------------
(***************************************************************************)
(* Two codes; b enters the catalogue late and a changes its id once.       *)
(***************************************************************************)
EXTENDS Subscriptions

CONSTANTS a, b, s1, s2, s3

MCCodes == {a, b}
MCSids == {s1, s2, s3}

Map(x, y) == [c \in MCCodes |-> IF c = a THEN x ELSE y]

\* b unknown; both known.
MCInitialMap == Map(s1, NoSid)
MCKnownMap == Map(s1, s2)

\* b enters and a is renumbered, in one install.
MCCatalogues == {Map(s3, s2)}

=============================================================================
