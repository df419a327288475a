-------------------------- MODULE DecisionLifecycle --------------------------
(***************************************************************************)
(* The decision-elevation actor implements CaseLifecycle when a decision   *)
(* is elevated once, is answered on the forum only and no acknowledgement  *)
(* of the relay is lost; and what the actor must eventually do, under the  *)
(* fairness of its scheduling.                                             *)
(***************************************************************************)
EXTENDS DecisionElevation

PrOf(c) == {n \in DOMAIN prs : c \in prs[n].cases}

GitState(c) == IF PrOf(c) = {} THEN "none" ELSE prs[CHOOSE n \in PrOf(c) : TRUE].state

Lifecycle == INSTANCE CaseLifecycle WITH
    status <- [c \in Case |-> db[c].status],
    git <- [c \in Case |-> GitState(c)]

(* Every step of the actor, its futures, the relay, GitHub and a crash is a *)
(* step of the lifecycle or invisible: no crash or interleaving skips the   *)
(* claim, opens a second PR for a case, expires a case that has a PR or     *)
(* reopens a closed case (decision_elevation_store.rs, Lifecycle).          *)
ImplementsLifecycle == Lifecycle!Spec

-----------------------------------------------------------------------------
(* The tokio runtime polls a future that can run, actix drains the mailbox, *)
(* run_interval keeps sending PollPrs.  The clock, the humans, git and the  *)
(* crashes owe nothing.  A store that refuses a terminal status is assumed  *)
(* to take it sometimes.                                                    *)
Fairness ==
    /\ WF_vars(Connect)
    /\ WF_vars(AttachStore)
    /\ WF_vars(Reconciliation)
    /\ WF_vars(OpenFuture)
    /\ WF_vars(\E m \in mailbox : HandleDecision(m))
    /\ WF_vars(TaskFuture)
    /\ WF_vars(\E c \in Case : Expire(c))
    /\ \A s \in PollSlot : /\ WF_vars(PollStart(s))
                           /\ WF_vars(PollFuture(s))
                           /\ SF_vars(PollPersistOk(s))

FairSpec == Spec /\ Fairness

(* A case whose PR is stamped on its row reaches the terminal status git    *)
(* gives it, across crashes and refused writes (Handler<PollPrs> keeps a    *)
(* case until it is durably terminal; ResumeTracking re-arms it at boot).   *)
SettledPrConcludes ==
    \A c \in Case :
        /\ (db[c].status = "elevating" /\ GitState(c) = "merged")
              ~> db[c].status = "published"
        /\ (db[c].status = "elevating" /\ GitState(c) = "closed")
              ~> db[c].status = "abandoned"

(* An approval does not stay unclaimed: the future that recorded it claims  *)
(* it, and if the process dies first boot reconciliation resumes it (or     *)
(* expires it past the TTL).                                                *)
ApprovalIsTakenUp ==
    \A c \in Case : db[c].status = "approved" ~> db[c].status # "approved"

=============================================================================
