-------------------------- MODULE ElevationInvariant --------------------------
(***************************************************************************)
(* The inductive invariant behind the safety properties of ElevationActor, *)
(* as a conjunction of named parts.                                        *)
(***************************************************************************)
EXTENDS ElevationActor

(* An answer r for case c was handed on: its request was signed for c and   *)
(* is claimed in the journal.                                               *)
SignedFor(r, c) == [req |-> r, case |-> c] \in journal
HandedOn(r, c) == r \in dispatched /\ SignedFor(r, c)

(* The futures whose answer may still become a draft.                       *)
Undrafted == {t \in tasks : t.pc \in {"record", "gate", "create"}}

(* An answer is in one place only: the mailbox, a future that has not       *)
(* pushed yet, or the commit made under it.  A future that has pushed may   *)
(* still be under way; its answer is the commit's.                          *)
AnswerInMailbox ==
    \A m \in mailbox :
        /\ HandedOn(m.src, m.case)
        /\ \A n \in mailbox : n.src = m.src => n = m
        /\ \A t \in Undrafted : t.src # m.src
        /\ \A i \in DOMAIN commits : commits[i].by # m.src

AnswerInTask ==
    /\ \A t \in tasks : HandedOn(t.src, t.case)
    /\ \A t \in Undrafted :
          /\ \A u \in Undrafted : u.src = t.src => u = t
          /\ \A i \in DOMAIN commits : commits[i].by # t.src

AnswerFlow == AnswerInMailbox /\ AnswerInTask /\ OneDraftPerApproval

(* The approval of request r for case c is on record, or was refused.       *)
Backed(r, c) ==
    r \in refused \/ [case |-> c, src |-> r, outcome |-> "approve"] \in decided

(* A request is signed once, so what is recorded under it is about the case *)
(* it was signed for: a record that finds the answer on record already is   *)
(* a record of the same approval.                                           *)
OneCasePerRequest == \A j, k \in journal : j.req = k.req => j = k

RecordFlow ==
    /\ OneCasePerRequest
    /\ \A d \in decided : d.src \in Request => SignedFor(d.src, d.case)
    /\ \A t \in tasks : /\ t.pc # "record" => t.outcome = "approve"
                        /\ t.pc = "create" => Backed(t.src, t.case)
    /\ DraftIsRecorded

(* A PR number, wherever it is kept, is that of a PR the case opened or was *)
(* given.                                                                   *)
PrNumbers ==
    /\ \A c \in Case :
          /\ PrOfCase(elevating[c], c)
          /\ \A s \in PollSlot : PrOfCase(poll[s].left[c], c)
    /\ \A t \in tasks : PrOfCase(t.pr, t.case)

GitVerdict(c, s) ==
    /\ s = "elevated" => Settled(c, "merged")
    /\ s = "abandoned" => Settled(c, "closed")

(* What a poll is about to write, and what one wrote, is what git said.     *)
Verdicts ==
    /\ \A c \in Case : GitVerdict(c, db[c].status)
    /\ \A s \in PollSlot : poll[s].at # NoCase => GitVerdict(poll[s].at, poll[s].verdict)

OnForum(c) == \E j \in journal : j.case = c /\ j.req \in forum

(* A case on its way into the inbox or the working set is on the forum: one *)
(* that reconciliation resumes, one whose row is next, one already opened.  *)
ForumFlow ==
    /\ AwaitingIsOnForum
    /\ \A c \in recon.resumed : OnForum(c)
    /\ \A s \in OpenSlot :
          /\ opening[s].at # NoLabel => OnForum(case_id(opening[s].at))
          /\ \A l \in opening[s].opened : OnForum(case_id(l))

Inv ==
    /\ TypeOK
    /\ AnswerFlow
    /\ RecordFlow
    /\ PrNumbers
    /\ Verdicts
    /\ ForumFlow

=============================================================================
