---------------------------- MODULE CaseLifecycle ----------------------------
(***************************************************************************)
(* What a decision-elevation case promises its observers: the lifecycle    *)
(* drawn in adapters/decision_elevation_store.rs, per case, together with  *)
(* the state git reports for its corpus PR.  Statuses and git are all that *)
(* is visible; memory, futures, the journal and restarts are not.          *)
(***************************************************************************)
CONSTANT Case

VARIABLES
    status,  \* [Case -> status of the case row, "none" before it exists]
    git      \* [Case -> state of the case's corpus PR, "none" before it exists]

vars == <<status, git>>

Moves(c, s) == status' = [status EXCEPT ![c] = s] /\ UNCHANGED git
GitMoves(c, s) == git' = [git EXCEPT ![c] = s] /\ UNCHANGED status

Init ==
    /\ status = [c \in Case |-> "none"]
    /\ git = [c \in Case |-> "none"]

Open(c) == status[c] = "none" /\ Moves(c, "pending")

Answer(c) ==
    /\ status[c] = "pending"
    /\ \E s \in {"approved", "rejected", "reviewed"} : Moves(c, s)

PublishFails(c) == status[c] = "pending" /\ Moves(c, "publish_failed")

(* The drawing has the first alternative only.  Boot reconciliation also    *)
(* expires an approval that was never claimed.                              *)
Expire(c) == status[c] \in {"pending", "approved"} /\ Moves(c, "expired")

Claim(c) == status[c] = "approved" /\ Moves(c, "applying")

(* A PR exists only for a claimed approval, and a case has one.             *)
OpenPr(c) == status[c] = "applying" /\ git[c] = "none" /\ GitMoves(c, "open")

(* Cases may share a PR: they settle together.                              *)
GitSettles(S, s) ==
    /\ \A c \in S : git[c] = "open"
    /\ git' = [c \in Case |-> IF c \in S THEN s ELSE git[c]]
    /\ UNCHANGED status

Stamp(c) == status[c] = "applying" /\ git[c] # "none" /\ Moves(c, "elevating")

(* Also from applying: the stamp may have failed, memory still tracks.      *)
Conclude(c) ==
    /\ status[c] \in {"applying", "elevating"}
    /\ \/ git[c] = "merged" /\ Moves(c, "published")
       \/ git[c] = "closed" /\ Moves(c, "abandoned")

Next ==
    \/ \E c \in Case :
          \/ Open(c) \/ Answer(c) \/ PublishFails(c) \/ Expire(c) \/ Claim(c)
          \/ OpenPr(c) \/ Stamp(c) \/ Conclude(c)
    \/ \E S \in SUBSET Case, s \in {"merged", "closed"} : GitSettles(S, s)

Spec == Init /\ [][Next]_vars

=============================================================================
