-------------------------- MODULE DecisionInvariant --------------------------
(***************************************************************************)
(* The inductive invariant behind the safety properties of                 *)
(* DecisionElevation, as a conjunction of named parts.                     *)
(***************************************************************************)
EXTENDS DecisionElevation

At(pc) == {t \in tasks : t.pc = pc}

(* One answer per request, from the journal's claim to the decision row: a  *)
(* request that is answered anywhere is claimed, and its answer is in one   *)
(* place only, the mailbox, a future about to record it, or the store.      *)
AnswerFlow ==
    /\ \A m \in mailbox :
          /\ m.src \in dispatched
          /\ \A n \in mailbox : n.src = m.src => n = m
          /\ \A t \in At("record") : t.src # m.src
          /\ \A d \in decided : d.src # m.src
    /\ \A t \in At("record") :
          /\ t.src \in dispatched
          /\ \A u \in At("record") : u.src = t.src => u = t
          /\ \A d \in decided : d.src # t.src
    /\ \A d \in decided : d.src \in dispatched \cup Local
    /\ OneAnswerPerRequest

(* An approval is a token.  It lies on a row in status approved, in a       *)
(* future that has claimed it, or in the commit made under it: never in two.*)
TokenOnRow ==
    \A c \in Case : db[c].status = "approved" =>
        /\ Approves(c, approvedBy[c])
        /\ \A i \in DOMAIN commits : commits[i].by # approvedBy[c]
        /\ \A t \in At("create") : t.by # approvedBy[c]

TokenInTask ==
    \A t \in At("create") :
        /\ Approves(t.case, t.by)
        /\ \A i \in DOMAIN commits : commits[i].by # t.by
        /\ \A u \in At("create") : u.by = t.by => u = t

ApprovalToken == TokenOnRow /\ TokenInTask /\ AppliedOnce

(* A case comes to a PR only after its draft was on the branch, so a PR     *)
(* always has a commit to merge.                                            *)
Applied(c) == \E i \in DOMAIN commits : commits[i].case = c

PrsApplied ==
    /\ \A n \in DOMAIN prs :
          /\ prs[n].cases # {}
          /\ \A c \in prs[n].cases : Applied(c)
          /\ prs[n].state # "open" => prs[n].tip \in DOMAIN commits
    /\ \A t \in tasks : t.pc \in {"open", "find"} => Applied(t.case)

(* A PR number, wherever it is kept, is that of a PR the case opened or was *)
(* given.                                                                   *)
PrNumbers ==
    /\ \A c \in Case :
          /\ PrOfCase(db[c].pr, c)
          /\ PrOfCase(elevating[c], c)
          /\ PrOfCase(recon.snap[c].pr, c)
          /\ \A s \in PollSlot : PrOfCase(poll[s].left[c], c)
    /\ \A t \in tasks :
          /\ PrOfCase(t.pr, t.case)
          /\ t.pc \in {"read", "write", "map"} => t.pr # 0

GitVerdict(c, s) ==
    /\ s = "published" => Settled(c, "merged")
    /\ s = "abandoned" => Settled(c, "closed")

(* What a poll is about to write, and what one wrote, is what git said.     *)
Verdicts ==
    /\ \A c \in Case : GitVerdict(c, db[c].status)
    /\ \A s \in PollSlot : poll[s].at # NoCase => GitVerdict(poll[s].at, poll[s].verdict)

Inv ==
    /\ TypeOK
    /\ AnswerFlow
    /\ ApprovalToken
    /\ PrsApplied
    /\ PrNumbers
    /\ Verdicts
    /\ AnswerOnRecord

=============================================================================
