------------------------------ MODULE AcspClient ------------------------------
(***************************************************************************)
(* The forum side of a governance case: the panel's relay client           *)
(* (services/acsp/client.rs) and the Nostr relay behind it.                *)
(*                                                                         *)
(* The client journals every signed request before it sends it and claims  *)
(* a request once, in the same journal, before it hands an answer to the   *)
(* actor.  Its subscription asks for events since "now": what is signed    *)
(* while nobody is subscribed is never delivered.                          *)
(***************************************************************************)
EXTENDS Governance

VARIABLES
    acsp,        \* "connecting", "connected" or "failed", in this process
    sub,         \* TRUE once run_decision_subscription listens
    journal,     \* durable: the signed requests, [req, case]
    dispatched,  \* durable: requests one of whose answers was handed on
    forum,       \* relay: requests that reached the forum
    mailbox      \* decisions handed on that the actor has not handled

acspVars == <<acsp, sub, journal, dispatched, forum, mailbox>>

Signed == [req : Request, case : Case]
CaseDecision == [case : Case, src : Request, outcome : Outcome]

AcspBoot ==
    /\ acsp' = "connecting"
    /\ sub' = FALSE
    /\ mailbox' = {}
    /\ UNCHANGED <<journal, dispatched, forum>>

AcspInit ==
    /\ acsp = "connecting"
    /\ sub = FALSE
    /\ journal = {}
    /\ dispatched = {}
    /\ forum = {}
    /\ mailbox = {}

connect(ok) ==
    /\ acsp = "connecting"
    /\ acsp' = IF ok THEN "connected" ELSE "failed"
    /\ UNCHANGED <<sub, journal, dispatched, forum, mailbox>>

(* The subscription is a task of its own, spawned by a successful connect.  *)
subscribe ==
    /\ acsp = "connected"
    /\ ~sub
    /\ sub' = TRUE
    /\ UNCHANGED <<acsp, journal, dispatched, forum, mailbox>>

(* Sign, journal, send.  The request may reach the forum whether or not the *)
(* relay's acknowledgement comes back; `reached` says whether it does.      *)
publish_request(r, c, reached) ==
    /\ journal' = journal \cup {[req |-> r, case |-> c]}
    /\ forum' = IF reached THEN forum \cup {r} ELSE forum
    /\ UNCHANGED <<acsp, sub, dispatched, mailbox>>

(* Mutant: an answer is handed on without claiming its request.             *)
DispatchUnclaimed(r, o) ==
    /\ sub
    /\ r \in forum
    /\ \E s \in journal :
          /\ s.req = r
          /\ mailbox' = mailbox \cup {[case |-> s.case, src |-> r, outcome |-> o]}
    /\ UNCHANGED <<acsp, sub, journal, dispatched, forum>>

(* A signed answer o to request r reaches the subscription.  An answer that *)
(* is signed while nobody is subscribed, or dropped when the notification   *)
(* channel lags, is one that never arrives.  An answer is bound to a        *)
(* journaled request and the request is claimed before the decision is      *)
(* handed on; a second answer to a claimed request is refused.              *)
Dispatch(r, o) ==
    /\ sub
    /\ r \in forum
    /\ r \notin dispatched
    /\ \E s \in journal :
          /\ s.req = r
          /\ mailbox' = mailbox \cup {[case |-> s.case, src |-> r, outcome |-> o]}
    /\ dispatched' = dispatched \cup {r}
    /\ UNCHANGED <<acsp, sub, journal, forum>>

AcspTypeOK ==
    /\ acsp \in {"connecting", "connected", "failed"}
    /\ sub \in BOOLEAN
    /\ journal \subseteq Signed
    /\ dispatched \subseteq Request
    /\ forum \subseteq Request
    /\ mailbox \subseteq CaseDecision

=============================================================================
