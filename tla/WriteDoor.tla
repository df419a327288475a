------------------------------ MODULE WriteDoor ------------------------------
(***************************************************************************)
(* The governed decision write door: POST /decisions/record                *)
(* (handlers/decision_handler.rs), DecisionService::record_decision and    *)
(* governed_commit.  The handler is a future on an HTTP worker; the commit *)
(* stage runs on the blocking pool and goes on when the future is dropped. *)
(* The graph survives a crash, the spine's stores do not.                  *)
(***************************************************************************)
EXTENDS ProposalSpine

CONSTANTS
    Principal,    \* authenticated callers
    Significant,  \* the payloads is_significant accepts
    MaxCrashes    \* bound: crashes of the process

ASSUME DoorAssumption ==
    /\ Significant \subseteq Payload
    /\ MaxCrashes \in Nat

VARIABLES
    call,      \* [Proposal -> the call that minted the id]
    graph,     \* proposals whose transaction is in the Oxigraph store
    elevated,  \* proposals whose trigger is in the elevation actor's mailbox
    crashes    \* crashes so far

vars == <<spineVars, call, graph, elevated, crashes>>

Stage == {"none", "gate", "reserve", "record", "transact", "receipt", "mark",
          "settle", "done"}
Answer == {"none", "refused", "committed", "replay", "conflict", "error"}

(* late is a history variable: the key had a receipt for the payload when   *)
(* the call arrived, or got one while the call waited in the gates.         *)
Call == [who : Principal, key : IdemKey, payload : Payload, stage : Stage,
         attached : BOOLEAN, answer : Answer, receipt : Proposal \cup {NoProposal},
         late : BOOLEAN]

NoCall == [stage |-> "none"]

Init ==
    /\ SpineInit
    /\ call = [p \in Proposal |-> NoCall]
    /\ graph = {}
    /\ elevated = {}
    /\ crashes = 0

-----------------------------------------------------------------------------

At(p, stage) == call[p].stage = stage

(* The key carries a receipt for the payload.                               *)
HasReceipt(key, h) == entries[key].payload = h /\ entries[key].receipt # NoProposal

Goto(p, stage) == call' = [call EXCEPT ![p].stage = stage]

(* The call is over.  Without an answer, the client was not told one.       *)
Ended(c, answer, receipt) ==
    [c EXCEPT !.stage = "done", !.attached = FALSE, !.answer = answer, !.receipt = receipt]

(* The blocking task ends: its result reaches the handler, if there still   *)
(* is one.                                                                  *)
Returns(p, answer, receipt) ==
    call' = [call EXCEPT ![p] =
                IF call[p].attached
                THEN [call[p] EXCEPT !.stage = "settle", !.answer = answer, !.receipt = receipt]
                ELSE Ended(call[p], "none", NoProposal)]

(* Mutant: a blank key is taken for a caller's key.                         *)
SubmitBlankKey(p, who, key, h) ==
    /\ At(p, "none")
    /\ call' = [call EXCEPT ![p] =
           [who |-> who, key |-> <<"blank">>, payload |-> h, stage |-> "gate",
            attached |-> TRUE, answer |-> "none", receipt |-> NoProposal,
            late |-> FALSE]]
    /\ UNCHANGED <<spineVars, graph, elevated, crashes>>

(* A request with a caller's key, or with the one derived from its payload. *)
(* Minted ids are interchangeable: they are handed out in order.            *)
Submit(p, who, key, h) ==
    /\ At(p, "none")
    /\ \A q \in Proposal : q < p => ~At(q, "none")
    /\ key \in Key \cup {auto(h)}
    /\ call' = [call EXCEPT ![p] =
           [who |-> who, key |-> key, payload |-> h, stage |-> "gate",
            attached |-> TRUE, answer |-> "none", receipt |-> NoProposal,
            late |-> HasReceipt(key, h)]]
    /\ UNCHANGED <<spineVars, graph, elevated, crashes>>

(* The envelope and the conflict gate; the corpus is awaited between them.  *)
Refuse(p) ==
    /\ At(p, "gate")
    /\ call' = [call EXCEPT ![p] = Ended(call[p], "refused", NoProposal)]
    /\ UNCHANGED <<spineVars, graph, elevated, crashes>>

Pass(p) ==
    /\ At(p, "gate")
    /\ call' = [call EXCEPT ![p].stage = "reserve",
                            ![p].late = @ \/ HasReceipt(call[p].key, call[p].payload)]
    /\ UNCHANGED <<spineVars, graph, elevated, crashes>>

-----------------------------------------------------------------------------
(* governed_commit, on a thread of the blocking pool.                       *)

Reserve(p) ==
    LET key == call[p].key
        h == call[p].payload
        decision == IdempotencyDecision(key, h)
    IN  /\ At(p, "reserve")
        /\ \/ /\ decision = "fresh"
              /\ Goto(p, "record")
              /\ reserve(key, h)
           \/ /\ decision = "replay"
              /\ Returns(p, "replay", entries[key].receipt)
              /\ UNCHANGED spineVars
           \/ /\ decision = "conflict"
              /\ Returns(p, "conflict", NoProposal)
              /\ UNCHANGED spineVars
        /\ UNCHANGED <<graph, elevated, crashes>>

Record(p) ==
    /\ At(p, "record")
    /\ Goto(p, "transact")
    /\ record(p)
    /\ UNCHANGED <<graph, elevated, crashes>>

(* commit_quads: the asserted and the provenance quads in one transaction.  *)
Transact(p) ==
    /\ At(p, "transact")
    /\ graph' = graph \cup {p}
    /\ Goto(p, "receipt")
    /\ UNCHANGED <<spineVars, elevated, crashes>>

(* Mutant: quads inserted before the failing one stay.                      *)
TransactFailsHalfway(p) ==
    /\ At(p, "transact")
    /\ graph' = graph \cup {p}
    /\ mark(p, "failed")
    /\ Returns(p, "error", NoProposal)
    /\ UNCHANGED <<elevated, crashes>>

(* Mutant: the failure returns early, without the mark.                     *)
TransactFailsUnmarked(p) ==
    /\ At(p, "transact")
    /\ Returns(p, "error", NoProposal)
    /\ UNCHANGED <<spineVars, graph, elevated, crashes>>

TransactFails(p) ==
    /\ At(p, "transact")
    /\ mark(p, "failed")
    /\ Returns(p, "error", NoProposal)
    /\ UNCHANGED <<graph, elevated, crashes>>

CommitReceipt(p) ==
    /\ At(p, "receipt")
    /\ commit(call[p].key, call[p].payload, p)
    /\ Goto(p, "mark")
    /\ UNCHANGED <<graph, elevated, crashes>>

MarkCommitted(p) ==
    /\ At(p, "mark")
    /\ mark(p, "committed")
    /\ Returns(p, "committed", p)
    /\ UNCHANGED <<graph, elevated, crashes>>

-----------------------------------------------------------------------------

(* maybe_elevate fires for what this call committed, and fails open.        *)
Elevates(p) ==
    \/ elevated' = elevated
    \/ /\ call[p].answer = "committed"
       /\ call[p].payload \in Significant
       /\ elevated' = elevated \cup {p}

(* Mutant: a replay elevates too.                                           *)
SettleElevatesAll(p) ==
    /\ At(p, "settle")
    /\ call' = [call EXCEPT ![p] = Ended(call[p], call[p].answer, call[p].receipt)]
    /\ elevated' = elevated \cup {p}
    /\ UNCHANGED <<spineVars, graph, crashes>>

(* The handler's future resumes and answers.                                *)
Settle(p) ==
    /\ At(p, "settle")
    /\ call' = [call EXCEPT ![p] = Ended(call[p], call[p].answer, call[p].receipt)]
    /\ Elevates(p)
    /\ UNCHANGED <<spineVars, graph, crashes>>

(* External: the client disconnects and actix drops the handler's future,   *)
(* at an await.  A blocking task that was spawned runs on.                  *)
Cancel(p) ==
    /\ ~At(p, "none") /\ call[p].attached
    /\ call' = [call EXCEPT ![p] =
                   IF call[p].stage \in {"gate", "settle"}
                   THEN Ended(call[p], "none", NoProposal)
                   ELSE [call[p] EXCEPT !.attached = FALSE]]
    /\ UNCHANGED <<spineVars, graph, elevated, crashes>>

(* External: the process dies and is started again.                         *)
Crash ==
    /\ crashes < MaxCrashes
    /\ crashes' = crashes + 1
    /\ entries' = [k \in IdemKey |-> NoEntry]
    /\ intents' = [p \in Proposal |-> "none"]
    /\ call' = [p \in Proposal |->
                   IF call[p].stage \in {"none", "done"} THEN call[p]
                   ELSE Ended(call[p], "none", NoProposal)]
    /\ UNCHANGED <<graph, elevated>>

Thread(p) ==
    \/ Reserve(p) \/ Record(p)
    \/ Transact(p) \/ TransactFails(p)
    \/ CommitReceipt(p) \/ MarkCommitted(p)

Handler(p) == Refuse(p) \/ Pass(p) \/ Settle(p)

Next ==
    \/ \E p \in Proposal :
          \/ \E who \in Principal, key \in IdemKey, h \in Payload : Submit(p, who, key, h)
          \/ Thread(p)
          \/ Handler(p)
          \/ Cancel(p)
    \/ Crash

Spec == Init /\ [][Next]_vars

-----------------------------------------------------------------------------
(* Properties.                                                              *)

Called == {p \in Proposal : ~At(p, "none")}

TypeOK ==
    /\ SpineTypeOK
    /\ call \in [Proposal -> Call \cup {NoCall}]
    /\ graph \subseteq Called
    /\ elevated \subseteq Called
    /\ crashes \in 0..MaxCrashes

(* Replay with a different payload is rejected: as long as the process runs *)
(* no two payloads are committed under one key, however the calls           *)
(* interleave and whichever of them fail or are cancelled.                  *)
OnePayloadPerKey ==
    \A p, q \in Called :
        /\ intents[p] = "committed" /\ intents[q] = "committed"
        /\ call[p].key = call[q].key
        => call[p].payload = call[q].payload

(* A receipt, in the store or in the answer to a replay, was earned by a    *)
(* call with the same key and payload whose quads are in the graph; also    *)
(* when that call's client is gone or the process died since.               *)
ReceiptIsBacked ==
    /\ \A k \in IdemKey : entries[k].receipt # NoProposal =>
          LET q == entries[k].receipt
          IN  q \in graph /\ call[q].key = k /\ call[q].payload = entries[k].payload
    /\ \A p \in Called : call[p].answer = "replay" =>
          LET q == call[p].receipt
          IN  q \in graph /\ call[q].key = call[p].key /\ call[q].payload = call[p].payload

(* What the client and the intent log are told is what happened to the      *)
(* graph: committed means written, failed, refused, replayed or conflicting *)
(* means that this call wrote nothing.                                      *)
AnswerIsTrue ==
    \A p \in Called :
        /\ call[p].answer = "committed" \/ intents[p] = "committed" => p \in graph
        /\ \/ call[p].answer \in {"refused", "replay", "conflict", "error"}
           \/ intents[p] = "failed"
           => p \notin graph

(* A request whose key has a receipt for its payload when it arrives, or    *)
(* gets one from another call while this one awaits the corpus, writes      *)
(* nothing: the receipt is looked up only after the gates, on a thread of   *)
(* its own.                                                                 *)
LateWritesNothing == \A p \in Called : call[p].late => p \notin graph

(* The elevation actor hears only of decisions that are in the graph.       *)
ElevatedIsRecorded == elevated \subseteq graph

(* No intent is left pending in a living process: when a call is over, what *)
(* it recorded is committed or failed, also when the client went away in    *)
(* between, or it is gone with the process that kept the log in memory.     *)
IntentResolved ==
    \A p \in Called : At(p, "done") => intents[p] # "pending"

(* What decision_handler.rs says of the door: the decision of the caller's  *)
(* verified key is written.  A success, replayed or not, names a decision   *)
(* of this principal that is in the graph.                                  *)
SuccessIsRecorded ==
    \A p \in Called : call[p].answer \in {"committed", "replay"} =>
        \E q \in graph : call[q].who = call[p].who /\ call[q].payload = call[p].payload

=============================================================================
