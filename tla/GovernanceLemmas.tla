--------------------------- MODULE GovernanceLemmas ---------------------------
(***************************************************************************)
(* What the statements of the store and the calls to GitHub do to the      *)
(* durable state, for every caller: the facts the proofs about the two     *)
(* elevation actors rest on.                                               *)
(***************************************************************************)
EXTENDS EnrichmentStore, GitHubPr, SequenceTheorems, TLAPS

USE DEF NoSource, githubVars

-----------------------------------------------------------------------------
(* The store: every statement keeps its tables well formed.                 *)

(* What record_decision makes of an outcome is a status, and approved       *)
(* exactly for the spellings of an approval.                                *)
LEMMA StatusForOutcome ==
    ASSUME NEW o \in Outcome \cup {"approve"}
    PROVE  /\ status_for_outcome(o) \in {"approved", "rejected", "reviewed"}
           /\ status_for_outcome(o) = "approved" <=> o \in ApproveSpellings
  BY DEF status_for_outcome, ApproveSpellings, RejectSpellings

LEMMA RowType ==
    ASSUME StoreTypeOK, NEW c \in Case
    PROVE  db[c] \in Row
  BY DEF StoreTypeOK

LEMMA CreateOrUpdateType ==
    ASSUME StoreTypeOK, NEW c \in Case, NEW row \in Row, create_or_update(c, row)
    PROVE  StoreTypeOK'
  BY DEF StoreTypeOK, create_or_update

LEMMA SetStatusType ==
    ASSUME StoreTypeOK, NEW c \in Case, NEW s \in Status, set_status(c, s)
    PROVE  StoreTypeOK'
  BY DEF StoreTypeOK, set_status, UpdateStatus, Row

LEMMA ClaimType ==
    ASSUME StoreTypeOK, NEW c \in Case, claim_application(c)
    PROVE  StoreTypeOK'
  BY DEF StoreTypeOK, claim_application, Row, Status

LEMMA RecordType ==
    ASSUME StoreTypeOK, NEW c \in Case, NEW s \in Request \cup Local, NEW o \in Outcome,
           record_decision(c, s, o)
    PROVE  StoreTypeOK'
  <1>1. CASE UNCHANGED storeVars
    BY <1>1 DEF StoreTypeOK, storeVars
  <1>2. CASE ~Redelivered(s, o)
    <2>1. status_for_outcome(o) \in Status
      BY StatusForOutcome DEF Status, Terminal
    <2>2. db' \in [Case -> Row]
      BY <1>2, <2>1 DEF StoreTypeOK, record_decision, UpdateStatus, storeVars, Row
    <2>3. decided' \subseteq DecisionRow
      <3>1. [case |-> c, src |-> s, outcome |-> o] \in DecisionRow
        BY DEF DecisionRow
      <3>2. decided' = decided \cup {[case |-> c, src |-> s, outcome |-> o]}
        BY <1>2 DEF record_decision
      <3> QED  BY <3>1, <3>2 DEF StoreTypeOK
    <2>4. approvedBy' \in [Case -> Request \cup Local \cup {NoSource}]
      BY <1>2 DEF StoreTypeOK, record_decision, storeVars
    <2> QED  BY <2>2, <2>3, <2>4 DEF StoreTypeOK
  <1> QED  BY <1>1, <1>2 DEF record_decision
(* The store's statements and the statuses they leave.                      *)
LEMMA RowStatuses ==
    ASSUME StoreTypeOK, NEW c \in Case
    PROVE  /\ \A s : UpdateStatus(c, s) =>
                \A b \in Case : db'[b].status = db[b].status \/ (b = c /\ db'[b].status = s)
           /\ \A row : create_or_update(c, row) =>
                \A b \in Case : db'[b].status = db[b].status \/ (b = c /\ db'[b].status = row.status)
           /\ claim_application(c) =>
                \A b \in Case : \/ db'[b].status = db[b].status
                                \/ b = c /\ db[b].status = "approved" /\ db'[b].status = "applying"
  <1>1. db \in [Case -> Row]
    BY DEF StoreTypeOK
  <1>2. \A s : db' = [db EXCEPT ![c].status = s] =>
           \A b \in Case : db'[b].status = db[b].status \/ (b = c /\ db'[b].status = s)
    BY <1>1 DEF Row
  <1>3. \A row : create_or_update(c, row) =>
           \A b \in Case : db'[b].status = db[b].status \/ (b = c /\ db'[b].status = row.status)
    BY <1>1 DEF create_or_update
  <1> QED  BY <1>2, <1>3 DEF UpdateStatus, claim_application, Claimable

(* A recorded decision moves its case to what the outcome stands for.       *)
LEMMA RecordedStatus ==
    ASSUME StoreTypeOK, NEW c \in Case, NEW s, NEW o \in Outcome, record_decision(c, s, o)
    PROVE  \A b \in Case : \/ db'[b].status = db[b].status
                           \/ b = c /\ db'[b].status \in {"approved", "rejected", "reviewed"}
  <1>1. status_for_outcome(o) \in {"approved", "rejected", "reviewed"}
    BY StatusForOutcome
  <1>2. UNCHANGED storeVars \/ UpdateStatus(c, status_for_outcome(o))
    BY DEF record_decision
  <1> QED  BY <1>1, <1>2, RowStatuses DEF storeVars

-----------------------------------------------------------------------------
(* GitHub: what a call appends, and which PR it touches.                    *)

LEMMA AppendEffect ==
    ASSUME NEW S, NEW q \in Seq(S), NEW x \in S
    PROVE  /\ Append(q, x) \in Seq(S)
           /\ Len(q) \in Nat
           /\ DOMAIN q = 1..Len(q)
           /\ DOMAIN Append(q, x) = 1..(Len(q) + 1)
           /\ \A i \in DOMAIN q : Append(q, x)[i] = q[i]
           /\ Append(q, x)[Len(q) + 1] = x
  <1>1. /\ Append(q, x) \in Seq(S)
        /\ Len(Append(q, x)) = Len(q) + 1
        /\ \A i \in 1..Len(q) : Append(q, x)[i] = q[i]
        /\ Append(q, x)[Len(q) + 1] = x
    BY AppendProperties
  <1>2. DOMAIN q = 1..Len(q) /\ Len(q) \in Nat
    BY LenProperties
  <1>3. DOMAIN Append(q, x) = 1..(Len(q) + 1)
    BY <1>1, LenProperties
  <1> QED  BY <1>1, <1>2, <1>3

(* A push appends a commit and leaves the others alone.                     *)
LEMMA CreateRefEffect ==
    ASSUME commits \in Seq(Draft), NEW c \in Case, NEW b \in Request \cup Local \cup {NoSource},
           create_ref(c, b)
    PROVE  /\ commits' \in Seq(Draft)
           /\ DOMAIN commits = 1..Len(commits)
           /\ DOMAIN commits' = 1..(Len(commits) + 1)
           /\ Len(commits) \in Nat
           /\ \A i \in DOMAIN commits : commits'[i] = commits[i]
           /\ commits'[Len(commits) + 1].case = c
           /\ commits'[Len(commits) + 1].by = b
           /\ prs' = prs
  <1> DEFINE p == [case |-> c, by |-> b]
  <1>1. p \in Draft
    BY DEF Draft
  <1>2. p.case = c /\ p.by = b
    OBVIOUS
  <1>3. commits' = Append(commits, p) /\ prs' = prs
    BY DEF create_ref
  <1> HIDE DEF p
  <1>4. /\ Append(commits, p) \in Seq(Draft)
        /\ Len(commits) \in Nat
        /\ DOMAIN commits = 1..Len(commits)
        /\ DOMAIN Append(commits, p) = 1..(Len(commits) + 1)
        /\ \A i \in DOMAIN commits : Append(commits, p)[i] = commits[i]
        /\ Append(commits, p)[Len(commits) + 1] = p
    BY <1>1, AppendEffect, Zenon
  <1> QED  BY <1>2, <1>3, <1>4, Zenon

(* A new PR takes the next number and leaves the others alone.              *)
LEMMA CreatePrEffect ==
    ASSUME prs \in Seq(Pr), NEW c \in Case, create_pull_request(c)
    PROVE  /\ prs' \in Seq(Pr)
           /\ DOMAIN prs = 1..Len(prs)
           /\ DOMAIN prs' = 1..(Len(prs) + 1)
           /\ Len(prs) \in Nat
           /\ \A n \in DOMAIN prs : prs'[n] = prs[n]
           /\ prs'[Len(prs) + 1].cases = {c}
           /\ prs'[Len(prs) + 1].state = "open"
           /\ commits' = commits
  <1> DEFINE p == [cases |-> {c}, tip |-> 0, state |-> "open"]
  <1>1. p \in Pr
    BY DEF Pr, PrState
  <1>2. p.cases = {c} /\ p.state = "open"
    OBVIOUS
  <1>3. prs' = Append(prs, p) /\ commits' = commits
    BY DEF create_pull_request
  <1> HIDE DEF p
  <1> QED  BY <1>1, <1>2, <1>3, AppendEffect

(* One PR's record is replaced, the others are left alone.                  *)
LEMMA ReplacePr ==
    ASSUME prs \in Seq(Pr), NEW n \in DOMAIN prs, NEW p \in Pr, prs' = [prs EXCEPT ![n] = p]
    PROVE  /\ prs' \in Seq(Pr)
           /\ DOMAIN prs' = DOMAIN prs
           /\ \A i \in DOMAIN prs : prs'[i] = IF i = n THEN p ELSE prs[i]
  <1>1. DOMAIN prs = 1..Len(prs) /\ Len(prs) \in Nat
    BY LenProperties
  <1>2. /\ [prs EXCEPT ![n] = p] \in Seq(Pr)
        /\ Len([prs EXCEPT ![n] = p]) = Len(prs)
        /\ \A j \in 1..Len(prs) : [prs EXCEPT ![n] = p][j] = IF j = n THEN p ELSE prs[j]
    BY <1>1, ExceptSeq
  <1>3. DOMAIN prs' = DOMAIN prs
    BY <1>1, <1>2, LenProperties
  <1> QED  BY <1>1, <1>2, <1>3

LEMMA PrType ==
    ASSUME prs \in Seq(Pr), NEW n \in DOMAIN prs
    PROVE  prs[n] \in Pr
  BY ElementOfSeq, LenProperties

(* A case that finds a PR open is added to its cases, no more.              *)
LEMMA FindPrEffect ==
    ASSUME prs \in Seq(Pr), NEW n, NEW c \in Case, get_existing_pr_url(n, c)
    PROVE  /\ n \in DOMAIN prs
           /\ prs' \in Seq(Pr)
           /\ DOMAIN prs' = DOMAIN prs
           /\ prs'[n].cases = prs[n].cases \cup {c}
           /\ \A i \in DOMAIN prs :
                 /\ i # n => prs'[i] = prs[i]
                 /\ prs'[i].state = prs[i].state
                 /\ prs'[i].tip = prs[i].tip
           /\ commits' = commits
  <1> DEFINE p == [prs[n] EXCEPT !.cases = @ \cup {c}]
  <1>1. n \in DOMAIN prs /\ commits' = commits /\ prs' = [prs EXCEPT ![n] = p]
    BY DEF get_existing_pr_url, OpenPrs
  <1>2. prs[n] \in Pr
    BY <1>1, PrType
  <1>3. /\ p \in Pr
        /\ p.cases = prs[n].cases \cup {c}
        /\ p.state = prs[n].state
        /\ p.tip = prs[n].tip
    BY <1>2 DEF Pr
  <1> HIDE DEF p
  <1>4. /\ prs' \in Seq(Pr)
        /\ DOMAIN prs' = DOMAIN prs
        /\ \A i \in DOMAIN prs : prs'[i] = IF i = n THEN p ELSE prs[i]
    BY <1>1, <1>3, ReplacePr
  <1> QED  BY <1>1, <1>3, <1>4

(* Git moves one open PR to a final state, with the branch's tip; its cases *)
(* stay.                                                                    *)
LEMMA SettleEffect ==
    ASSUME prs \in Seq(Pr), commits \in Seq(Draft), NEW n, NEW state \in {"merged", "closed"},
           Settle(n, state)
    PROVE  /\ n \in DOMAIN prs
           /\ prs[n].state = "open"
           /\ prs' \in Seq(Pr)
           /\ DOMAIN prs' = DOMAIN prs
           /\ prs'[n].tip = Len(commits)
           /\ \A i \in DOMAIN prs :
                 /\ prs'[i].cases = prs[i].cases
                 /\ i # n => prs'[i] = prs[i]
                 /\ prs[i].state # "open" => prs'[i].state = prs[i].state
           /\ commits' = commits
  <1> DEFINE p == [prs[n] EXCEPT !.state = state, !.tip = Len(commits)]
  <1>1. /\ n \in DOMAIN prs
        /\ prs[n].state = "open"
        /\ commits' = commits
        /\ prs' = [prs EXCEPT ![n] = p]
    BY DEF Settle, OpenPrs
  <1>2. prs[n] \in Pr /\ Len(commits) \in Nat
    BY <1>1, PrType, LenProperties
  <1>3. /\ p \in Pr
        /\ p.cases = prs[n].cases
        /\ p.tip = Len(commits)
    BY <1>2 DEF Pr, PrState
  <1> HIDE DEF p
  <1>4. /\ prs' \in Seq(Pr)
        /\ DOMAIN prs' = DOMAIN prs
        /\ \A i \in DOMAIN prs : prs'[i] = IF i = n THEN p ELSE prs[i]
    BY <1>1, <1>3, ReplacePr
  <1> QED  BY <1>1, <1>3, <1>4

(* GitHub only grows: a commit stays, a PR keeps its number and its cases,  *)
(* and its final state and tip once it is settled.                          *)

RepoGrows ==
    /\ DOMAIN commits \subseteq DOMAIN commits'
    /\ \A i \in DOMAIN commits : commits'[i] = commits[i]
    /\ DOMAIN prs \subseteq DOMAIN prs'
    /\ \A i \in DOMAIN prs :
          /\ prs[i].cases \subseteq prs'[i].cases
          /\ prs[i].state # "open" => /\ prs'[i].state = prs[i].state
                                      /\ prs'[i].tip = prs[i].tip

LEMMA NextIndex == \A k \in Nat : 1..k \subseteq 1..(k + 1) /\ k + 1 \in 1..(k + 1)
  OBVIOUS

(* Whatever the PR service or a maintainer asks of GitHub, it grows.        *)
LEMMA EveryCallGrows ==
    ASSUME GitHubTypeOK, NEW c \in Case, NEW b \in Request \cup Local \cup {NoSource}, NEW n,
           create_ref(c, b) \/ create_pull_request(c) \/ get_existing_pr_url(n, c)
    PROVE  RepoGrows
  <1>a. commits \in Seq(Draft) /\ prs \in Seq(Pr)
    BY DEF GitHubTypeOK
  <1>1. CASE create_ref(c, b)
    <2>1. /\ DOMAIN commits = 1..Len(commits)
          /\ DOMAIN commits' = 1..(Len(commits) + 1)
          /\ Len(commits) \in Nat
          /\ \A i \in DOMAIN commits : commits'[i] = commits[i]
          /\ prs' = prs
      BY <1>a, <1>1, CreateRefEffect, Zenon
    <2>2. DOMAIN commits \subseteq DOMAIN commits'
      BY <2>1, NextIndex
    <2> QED  BY <2>1, <2>2 DEF RepoGrows
  <1>2. CASE create_pull_request(c)
    <2>1. /\ DOMAIN prs = 1..Len(prs)
          /\ DOMAIN prs' = 1..(Len(prs) + 1)
          /\ Len(prs) \in Nat
          /\ \A i \in DOMAIN prs : prs'[i] = prs[i]
          /\ commits' = commits
      BY <1>a, <1>2, CreatePrEffect, Zenon
    <2>2. DOMAIN prs \subseteq DOMAIN prs'
      BY <2>1, NextIndex
    <2> QED  BY <2>1, <2>2 DEF RepoGrows
  <1>3. CASE get_existing_pr_url(n, c)
    BY <1>a, <1>3, FindPrEffect DEF RepoGrows
  <1> QED  BY <1>1, <1>2, <1>3

LEMMA SettlingGrows ==
    ASSUME GitHubTypeOK, NEW n, NEW state \in {"merged", "closed"}, Settle(n, state)
    PROVE  RepoGrows
  BY SettleEffect DEF RepoGrows, GitHubTypeOK

LEMMA NumberKept ==
    ASSUME RepoGrows, NEW n, NEW c, PrOfCase(n, c)
    PROVE  PrOfCase(n, c)'
  BY DEF RepoGrows, PrOfCase

LEMMA SettledKept ==
    ASSUME RepoGrows, NEW c, NEW state \in {"merged", "closed"}, Settled(c, state)
    PROVE  Settled(c, state)'
  BY DEF RepoGrows, Settled

=============================================================================
