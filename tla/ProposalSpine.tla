---------------------------- MODULE ProposalSpine ----------------------------
(***************************************************************************)
(* The transaction spine of the governed writes                            *)
(* (services/proposal_spine.rs): an idempotency store and a write-ahead    *)
(* intent log, both in memory.  Each method takes a lock and is one step;  *)
(* a door's calls run on several threads.                                  *)
(***************************************************************************)
EXTENDS Naturals

CONSTANTS
    Proposal,  \* proposal ids: one is minted for each call
    Key,       \* idempotency keys that callers supply
    Payload    \* canonical payloads: equal when their hashes are

NoProposal == 0
NoPayload == "no payload"

ASSUME SpineAssumption ==
    /\ Proposal \subseteq Nat \ {NoProposal}
    /\ NoPayload \notin Payload

VARIABLES
    entries,   \* [IdemKey -> what the store has under the key]
    intents    \* [Proposal -> the state of its intent]

spineVars == <<entries, intents>>

(* auto:<hash>, when the caller supplies no key.                            *)
auto(h) == <<"auto", h>>
IdemKey == Key \cup {auto(h) : h \in Payload}

(* A receipt is named by the proposal that earned it.                       *)
Entry == [payload : Payload \cup {NoPayload}, receipt : Proposal \cup {NoProposal}]
NoEntry == [payload |-> NoPayload, receipt |-> NoProposal]

IntentState == {"none", "pending", "committed", "failed"}

SpineInit ==
    /\ entries = [k \in IdemKey |-> NoEntry]
    /\ intents = [p \in Proposal |-> "none"]

-----------------------------------------------------------------------------

(* Mutant: a key is free again as long as nothing was committed under it.   *)
reserve_uncommitted(k, h) ==
    CASE entries[k].receipt = NoProposal -> "fresh"
      [] entries[k].payload # h          -> "conflict"
      [] OTHER                           -> "replay"

(* Mutant: a key in use is replayed without a look at the payload.          *)
reserve_any_payload(k, h) ==
    IF entries[k].receipt = NoProposal THEN "fresh" ELSE "replay"

(* Mutant: a committed key runs again.                                      *)
reserve_again(k, h) ==
    IF entries[k].payload \in {NoPayload, h} THEN "fresh" ELSE "conflict"

(* What reserve decides.  The same payload still in flight is fresh too.    *)
IdempotencyDecision(k, h) ==
    IF entries[k].payload \notin {NoPayload, h} THEN "conflict"
    ELSE IF entries[k].receipt # NoProposal THEN "replay"
    ELSE "fresh"

(* The key is taken by the first payload that names it.                     *)
reserve(k, h) ==
    /\ entries' = IF entries[k].payload = NoPayload
                  THEN [entries EXCEPT ![k] = [payload |-> h, receipt |-> NoProposal]]
                  ELSE entries
    /\ UNCHANGED intents

(* The receipt recorded last stays.                                         *)
commit(k, h, p) ==
    /\ entries' = [entries EXCEPT ![k] = [payload |-> h, receipt |-> p]]
    /\ UNCHANGED intents

record(p) ==
    /\ intents' = [intents EXCEPT ![p] = "pending"]
    /\ UNCHANGED entries

(* An intent that was not recorded is not marked.                           *)
mark(p, state) ==
    /\ intents' = IF intents[p] = "none" THEN intents ELSE [intents EXCEPT ![p] = state]
    /\ UNCHANGED entries

SpineTypeOK ==
    /\ entries \in [IdemKey -> Entry]
    /\ intents \in [Proposal -> IntentState]

=============================================================================
