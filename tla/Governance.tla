------------------------------ MODULE Governance ------------------------------
(***************************************************************************)
(* What the governance modules share: the names of cases, of the signed    *)
(* requests that put them to the forum, and of the answers.                *)
(***************************************************************************)
CONSTANTS
    Case,      \* case ids; one per decision, the slug is a function of its URN
    Request,   \* ids of signed kind-31402 requests
    Local,     \* names of REST decisions, which carry no signed event
    Outcome    \* the answers the environment may give

NoSource == "no decision"

(* Boot reconciliation resumes an application with no decision in hand.     *)
Boot == "boot"

ASSUME SourceAssumption ==
    /\ Request \cap Local = {}
    /\ {NoSource, Boot} \cap (Request \cup Local) = {}

(* The spellings of an approval and of a rejection that the store accepts.  *)
ApproveSpellings == {"approve", "approved", "accept", "accepted", "promote"}
RejectSpellings == {"reject", "rejected"}

ASSUME OutcomeAssumption ==
    Outcome \subseteq ApproveSpellings \cup RejectSpellings \cup {"amend", "delegate"}

=============================================================================
