------------------------- MODULE SubscriptionIntent -------------------------
(***************************************************************************)
(* What the client promises of the codes a user subscribes to, without     *)
(* revisions, requests, answers or threads: an intent is idle until the    *)
(* user wants it, pending until the server answers, and then active or     *)
(* refused.  Losing the session makes every intent pending again, all at   *)
(* once; nothing but the user makes one idle or revives a refused one      *)
(* within a session; nothing but an answer makes one active, and only a    *)
(* pending one.                                                            *)
(***************************************************************************)
CONSTANT Codes

VARIABLE status

States == {"idle", "pending", "active", "refused"}

Init == status = [c \in Codes |-> "idle"]

Want(S) ==
  status' = [c \in Codes |-> IF c \in S /\ status[c] \in {"idle", "refused"}
                               THEN "pending" ELSE status[c]]

Cancel(S) ==
  status' = [c \in Codes |-> IF c \in S THEN "idle" ELSE status[c]]

\* The server grants some pending intents and refuses some pending or active ones.
Answer(granted, refused) ==
  /\ \A c \in granted : status[c] = "pending"
  /\ \A c \in refused : status[c] \in {"pending", "active"}
  /\ status' = [c \in Codes |-> IF c \in granted THEN "active"
                                ELSE IF c \in refused THEN "refused"
                                ELSE status[c]]

LoseSession ==
  status' = [c \in Codes |-> IF status[c] = "idle" THEN "idle" ELSE "pending"]

Next ==
  \/ \E S \in SUBSET Codes : Want(S) \/ Cancel(S)
  \/ \E granted, refused \in SUBSET Codes : Answer(granted, refused)
  \/ LoseSession

Spec == Init /\ [][Next]_status

=============================================================================
