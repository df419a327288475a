--------------------------- MODULE EnrichmentStore ---------------------------
(***************************************************************************)
(* The durable governance store, data/enrichment.sqlite3: the case rows    *)
(* (`enrichment_proposals`) and the broker decisions                       *)
(* (`enrichment_decisions`), with one action per statement or transaction  *)
(* that writes them.  tokio-rusqlite runs every call on one worker thread  *)
(* and SQLite serialises the connections, so each action is atomic; what a *)
(* caller does between two calls is not.                                   *)
(*                                                                         *)
(* A row keeps its status, the number of the corpus PR its body records (0 *)
(* when there is none) and the time it was opened.  A decision row is      *)
(* named by the signed forum request it answers, or by a local name when   *)
(* it came over REST and carries no signed event.                          *)
(***************************************************************************)
EXTENDS Governance, Naturals

VARIABLES
    db,          \* [Case -> row]: table enrichment_proposals
    decided,     \* set of decision rows: table enrichment_decisions
    approvedBy   \* auxiliary: the decision that last moved a case to approved

storeVars == <<db, decided, approvedBy>>

-----------------------------------------------------------------------------

(* The elevation actors compare with "approve" alone; the store takes any   *)
(* spelling.                                                               *)
status_for_outcome(o) ==
    CASE o \in ApproveSpellings -> "approved"
      [] o \in RejectSpellings  -> "rejected"
      [] OTHER                  -> "reviewed"

Terminal ==
    {"published", "abandoned", "rejected", "reviewed", "publish_failed", "expired"}

(* elevated: a merged PR of the elevation actor, which has no elevating.    *)
Status ==
    {"none", "pending", "approved", "applying", "elevating", "elevated"} \cup Terminal

is_terminal(s) == s \in Terminal

Row == [status : Status, pr : Nat, opened : Nat]
NoRow == [status |-> "none", pr |-> 0, opened |-> 0]

Known(c) == db[c].status # "none"

DecisionRow == [case : Case, src : Request \cup Local, outcome : Outcome]

-----------------------------------------------------------------------------

StoreInit ==
    /\ db = [c \in Case |-> NoRow]
    /\ decided = {}
    /\ approvedBy = [c \in Case |-> NoSource]

(* The upsert overwrites the body and the status of an existing row.        *)
create_or_update(c, row) ==
    /\ db' = [db EXCEPT ![c] = row]
    /\ UNCHANGED <<decided, approvedBy>>

(* UPDATE ... SET status WHERE case_id: no row, nothing to update.          *)
UpdateStatus(c, s) == db' = IF Known(c) THEN [db EXCEPT ![c].status = s] ELSE db

(* Unconditional: whatever status the row has.                              *)
set_status(c, s) ==
    /\ UpdateStatus(c, s)
    /\ UNCHANGED <<decided, approvedBy>>

(* Mutant: an application already claimed may be claimed again.             *)
ClaimableAgain(c) == db[c].status \in {"approved", "applying"}

Claimable(c) == db[c].status = "approved"

(* approved -> applying, in one statement: of several consumers one wins.   *)
claim_application(c) ==
    /\ Claimable(c)
    /\ db' = [db EXCEPT ![c].status = "applying"]
    /\ UNCHANGED <<decided, approvedBy>>

Redelivered(s, o) ==
    s \in Request /\ \E d \in decided : d.src = s /\ d.outcome = o

(* Mutant: the status moves, the decision row does not land with it.        *)
RecordStatusOnly(c, s, o) ==
    /\ ~Redelivered(s, o)
    /\ UpdateStatus(c, status_for_outcome(o))
    /\ UNCHANGED <<decided, approvedBy>>

(* One transaction: a signed event already on record is left alone,         *)
(* otherwise the decision is inserted and the case moves with it.           *)
record_decision(c, s, o) ==
    \/ /\ Redelivered(s, o)
       /\ UNCHANGED storeVars
    \/ /\ ~Redelivered(s, o)
       /\ decided' = decided \cup {[case |-> c, src |-> s, outcome |-> o]}
       /\ UpdateStatus(c, status_for_outcome(o))
       /\ approvedBy' = IF o \in ApproveSpellings
                        THEN [approvedBy EXCEPT ![c] = s]
                        ELSE approvedBy

StoreTypeOK ==
    /\ db \in [Case -> Row]
    /\ decided \subseteq DecisionRow
    /\ approvedBy \in [Case -> Request \cup Local \cup {NoSource}]

=============================================================================
