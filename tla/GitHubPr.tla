------------------------------ MODULE GitHubPr ------------------------------
(***************************************************************************)
(* The corpus repository as services/github_pr_service.rs leaves it.       *)
(* create_ontology_pr names the branch after the agent type and the first  *)
(* eight characters of the agent id.  The decision-elevation actor's ids   *)
(* are "decision-<slug>", so all its cases share one branch: every draft   *)
(* is a commit on the base that the branch is forced to, and while one PR  *)
(* is open from the branch GitHub refuses another.                         *)
(***************************************************************************)
EXTENDS Governance, Naturals, Sequences

VARIABLES
    commits,  \* the drafts the branch was forced to, in order; the last is its tip
    prs       \* the PRs from the branch, a sequence; a PR is named by its index

githubVars == <<commits, prs>>

PrState == {"open", "merged", "closed"}

Draft == [case : Case, by : Request \cup Local \cup {NoSource}]

(* cases: those that opened the PR or were given its URL; tip: the commit   *)
(* that was merged or closed, 0 while the PR follows the branch.            *)
Pr == [cases : SUBSET Case, tip : Nat, state : PrState]

GitHubInit == commits = <<>> /\ prs = <<>>

OpenPrs == {n \in DOMAIN prs : prs[n].state = "open"}

(* The branch is created, or forced to the new commit when it exists (422). *)
create_ref(c, by) ==
    /\ commits' = Append(commits, [case |-> c, by |-> by])
    /\ UNCHANGED prs

(* GitHub takes one open PR per head and base.                              *)
create_pull_request(c) ==
    /\ OpenPrs = {}
    /\ prs' = Append(prs, [cases |-> {c}, tip |-> 0, state |-> "open"])
    /\ UNCHANGED commits

(* The open PR of the branch, whoever opened it.                            *)
get_existing_pr_url(n, c) ==
    /\ n \in OpenPrs
    /\ prs' = [prs EXCEPT ![n] = [prs[n] EXCEPT !.cases = @ \cup {c}]]
    /\ UNCHANGED commits

(* A maintainer merges or closes the PR with what the branch now holds.     *)
Settle(n, state) ==
    /\ n \in OpenPrs
    /\ prs' = [prs EXCEPT ![n] = [prs[n] EXCEPT !.state = state,
                                             !.tip = Len(commits)]]
    /\ UNCHANGED commits

(* For the properties: n, kept somewhere as the PR of case c, is a PR the   *)
(* case opened or was given; such a PR of c is in a state.                  *)
PrOfCase(n, c) == n = 0 \/ (n \in DOMAIN prs /\ c \in prs[n].cases)
Settled(c, state) == \E n \in DOMAIN prs : c \in prs[n].cases /\ prs[n].state = state

GitHubTypeOK ==
    /\ commits \in Seq(Draft)
    /\ prs \in Seq(Pr)

=============================================================================
