-------------------------- MODULE DecisionGitProofs --------------------------
(***************************************************************************)
(* A status never claims a git outcome or an answer that is not there, for *)
(* every value of the constants: the second half of DecisionInvariant.     *)
(***************************************************************************)
EXTENDS DecisionProofs

USE DEF NoSource, Boot, NoCase, githubVars, clockVars

-----------------------------------------------------------------------------
(* GitHub only grows, whatever step is taken.                               *)

LEMMA RepoGrowsStep == TypeOK /\ [Next]_vars => RepoGrows
  <1> SUFFICES ASSUME TypeOK, [Next]_vars PROVE RepoGrows
    OBVIOUS
  <1>a. GitHubTypeOK
    BY DEF TypeOK
  <1>1. CASE UNCHANGED githubVars
    BY <1>1 DEF RepoGrows
  <1>2. CASE TaskFuture
    <2>1. PICK t \in tasks :
             \/ TaskRecord(t) \/ TaskClaim(t) \/ TaskCreateRef(t) \/ TaskOpenPr(t)
             \/ TaskFindPr(t) \/ TaskStampRead(t) \/ TaskStampWrite(t) \/ TaskMap(t)
      BY <1>2 DEF TaskFuture
    <2>2. t.case \in Case /\ t.by \in Request \cup Local \cup {NoSource}
      BY DEF TypeOK, Task
    <2>3. \/ UNCHANGED githubVars \/ create_ref(t.case, t.by) \/ create_pull_request(t.case)
          \/ \E n \in OpenPrs : get_existing_pr_url(n, t.case)
      BY <2>1 DEF TaskRecord, TaskClaim, TaskCreateRef, TaskOpenPr, TaskFindPr, TaskStampRead,
           TaskStampWrite, TaskMap, envVars
    <2> QED  BY <1>1, <1>a, <2>2, <2>3, EveryCallGrows
  <1>3. ASSUME NEW n \in DOMAIN prs, NEW state \in {"merged", "closed"}, GitSettles(n, state)
        PROVE  RepoGrows
    BY <1>a, <1>3, SettlingGrows DEF GitSettles
  <1>5. CASE OpenFuture \/ Reconciliation \/ Tick \/ Crash \/ ForumAnswers
    BY <1>1, <1>5 DEF OpenFuture, OpenPersist, OpenPublish, OpenCloseout, OpenMap,
         Reconciliation, ReconcileWait, ReconcileRead, apply_reconciliation, Tick, Crash,
         ForumAnswers, envVars
  <1>6. CASE Connect \/ Subscribe \/ AttachStore \/ UNCHANGED vars
    BY <1>1, <1>6 DEF Connect, Subscribe, AttachStore, vars, envVars
  <1>7. ASSUME NEW c \in Case, NEW r \in Request, ElevateDecision(c, r)
        PROVE  RepoGrows
    BY <1>1, <1>7 DEF ElevateDecision
  <1>8. ASSUME NEW m \in mailbox, HandleDecision(m)
        PROVE  RepoGrows
    BY <1>1, <1>8 DEF HandleDecision, envVars
  <1>9. ASSUME NEW c \in Case, Expire(c)
        PROVE  RepoGrows
    BY <1>1, <1>9 DEF Expire, envVars
  <1>10. ASSUME NEW s \in PollSlot, PollStart(s) \/ PollFuture(s)
         PROVE  RepoGrows
    BY <1>1, <1>10 DEF PollStart, PollFuture, PollQuery, PollPersistOk, PollPersistFails,
         PollDone, envVars
  <1>11. ASSUME NEW c \in Case, NEW l \in Local, NEW o \in Outcome, RestDecision(c, l, o)
         PROVE  RepoGrows
    BY <1>1, <1>11 DEF RestDecision, envVars
  <1> QED
    BY <1>2, <1>3, <1>5, <1>6, <1>7, <1>8, <1>9, <1>10, <1>11 DEF Next

LEMMA AppliedKept ==
    ASSUME RepoGrows, NEW c, Applied(c)
    PROVE  Applied(c)'
  BY DEF RepoGrows, Applied

LEMMA VerdictKept ==
    ASSUME RepoGrows, NEW c, NEW s, GitVerdict(c, s)
    PROVE  GitVerdict(c, s)'
  BY DEF RepoGrows, GitVerdict, Settled

-----------------------------------------------------------------------------
(* PR numbers.                                                              *)

TaskNumber(t) ==
    /\ PrOfCase(t.pr, t.case)
    /\ t.pc \in {"read", "write", "map"} => t.pr # 0

(* A step that puts no PR number where there was none: each place keeps     *)
(* its number, takes it from the place it is read from, or drops it.        *)
NumbersUntouched ==
    /\ \A c \in Case :
          /\ db'[c].pr \in {db[c].pr, 0}
          /\ elevating'[c] \in {elevating[c], recon.snap[c].pr, 0}
          /\ recon'.snap[c].pr \in {recon.snap[c].pr, db[c].pr, 0}
          /\ \A s \in PollSlot : poll'[s].left[c] \in {poll[s].left[c], elevating[c], 0}
    /\ \A t \in tasks' : t \in tasks \/ TaskNumber(t)

LEMMA NumbersFrame == PrNumbers /\ RepoGrows /\ NumbersUntouched => PrNumbers'
  <1> SUFFICES ASSUME PrNumbers, RepoGrows, NumbersUntouched PROVE PrNumbers'
    OBVIOUS
  <1>1. \A n, c : PrOfCase(n, c) => PrOfCase(n, c)'
    BY NumberKept
  <1>2. \A c : PrOfCase(0, c)
    BY DEF PrOfCase
  <1>3. \A t \in tasks' : PrOfCase(t.pr, t.case)' /\ (t.pc \in {"read", "write", "map"} => t.pr # 0)
    BY <1>1 DEF PrNumbers, NumbersUntouched, TaskNumber
  <1>4. ASSUME NEW c \in Case
        PROVE  /\ PrOfCase(db[c].pr, c)'
               /\ PrOfCase(elevating[c], c)'
               /\ PrOfCase(recon.snap[c].pr, c)'
               /\ \A s \in PollSlot : PrOfCase(poll[s].left[c], c)'
    <2>1. /\ PrOfCase(db'[c].pr, c)
          /\ PrOfCase(elevating'[c], c)
          /\ PrOfCase(recon'.snap[c].pr, c)
          /\ \A s \in PollSlot : PrOfCase(poll'[s].left[c], c)
      BY <1>2 DEF PrNumbers, NumbersUntouched
    <2> QED  BY <2>1 DEF PrOfCase, RepoGrows
  <1> QED  BY <1>3, <1>4 DEF PrNumbers

(* The store's statements keep the PR number of a row, or clear it when the *)
(* case is opened (again).                                                  *)
LEMMA RowNumbers ==
    ASSUME StoreTypeOK, NEW c \in Case
    PROVE  /\ \A s \in Status : set_status(c, s) => \A b \in Case : db'[b].pr = db[b].pr
           /\ claim_application(c) => \A b \in Case : db'[b].pr = db[b].pr
           /\ \A s, o : record_decision(c, s, o) => \A b \in Case : db'[b].pr = db[b].pr
           /\ open_case(c) => \A b \in Case : db'[b].pr \in {db[b].pr, 0}
           /\ UNCHANGED storeVars => \A b \in Case : db'[b].pr = db[b].pr
  <1>1. db \in [Case -> Row]
    BY DEF StoreTypeOK
  <1>2. \A s : db' = [db EXCEPT ![c].status = s] => \A b \in Case : db'[b].pr = db[b].pr
    BY <1>1 DEF Row
  <1>3. \A s : UpdateStatus(c, s) => \A b \in Case : db'[b].pr = db[b].pr
    BY <1>2 DEF UpdateStatus
  <1>4. open_case(c) => \A b \in Case : db'[b].pr \in {db[b].pr, 0}
    BY <1>1 DEF open_case, create_or_update
  <1>5. UNCHANGED storeVars => \A b \in Case : db'[b].pr = db[b].pr
    BY DEF storeVars
  <1> QED  BY <1>2, <1>3, <1>4, <1>5 DEF set_status, claim_application, record_decision

(* Every action keeps PR numbers right.  Three put a number in a new place: *)
(* the PR is opened, stamped on the row, tracked in memory.                 *)
LEMMA NumbersStep == TypeOK /\ PrNumbers /\ [Next]_vars => PrNumbers'
  <1> SUFFICES ASSUME TypeOK, PrNumbers, [Next]_vars PROVE PrNumbers'
    OBVIOUS
  <1> USE DEF storeVars, acspVars, memVars, futureVars, bootVars, envVars
  <1>a. RepoGrows /\ StoreTypeOK
    BY RepoGrowsStep DEF TypeOK
  <1>b. UNCHANGED <<elevating, recon, poll, tasks>>
          /\ (\A c \in Case : db'[c].pr \in {db[c].pr, 0}) => PrNumbers'
    BY <1>a, NumbersFrame DEF NumbersUntouched
  <1>c. UNCHANGED <<db, elevating, recon, poll, tasks>> => PrNumbers'
    BY <1>b
  <1>1. CASE Connect \/ Subscribe
    BY <1>1, <1>c DEF Connect, Subscribe
  <1>2. CASE AttachStore
    <2>1. recon'.snap = recon.snap
      BY <1>2 DEF AttachStore, TypeOK, Recon
    <2> QED  BY <1>2, <1>a, <2>1, NumbersFrame DEF AttachStore, NumbersUntouched
  <1>3. ASSUME NEW c \in Case, NEW r \in Request, ElevateDecision(c, r)
        PROVE  PrNumbers'
    BY <1>3, <1>c DEF ElevateDecision
  <1>4. CASE OpenFuture
    <2>1. PICK o \in opening : OpenPersist(o) \/ OpenPublish(o) \/ OpenCloseout(o) \/ OpenMap(o)
      BY <1>4 DEF OpenFuture
    <2>2. o.case \in Case
      BY DEF TypeOK, Opening
    <2>3. \A c \in Case : db'[c].pr \in {db[c].pr, 0}
      <3>1. "publish_failed" \in Status
        BY DEF Status, Terminal
      <3> QED  BY <1>a, <2>1, <2>2, <3>1, RowNumbers
                 DEF OpenPersist, OpenPublish, OpenCloseout, OpenMap
    <2> QED  BY <1>b, <2>1, <2>3 DEF OpenPersist, OpenPublish, OpenCloseout, OpenMap
  <1>5. ASSUME NEW m \in mailbox, HandleDecision(m)
        PROVE  PrNumbers'
    <2> DEFINE u == NewTask(m.case, m.src, m.outcome, "record")
    <2>1. TaskNumber(u)
      BY DEF TaskNumber, NewTask, PrOfCase
    <2>2. tasks' \in {tasks, tasks \cup {u}}
      BY <1>5 DEF HandleDecision
    <2> HIDE DEF u
    <2> QED  BY <1>5, <1>a, <2>1, <2>2, NumbersFrame DEF HandleDecision, NumbersUntouched
  <1>6. CASE TaskFuture
    <2>1. PICK t \in tasks :
             \/ TaskRecord(t) \/ TaskClaim(t) \/ TaskCreateRef(t) \/ TaskOpenPr(t)
             \/ TaskFindPr(t) \/ TaskStampRead(t) \/ TaskStampWrite(t) \/ TaskMap(t)
      BY <1>6 DEF TaskFuture
    <2>2. t \in Task /\ t.case \in Case /\ t.pr \in Nat
      BY DEF TypeOK, Task
    <2>3. TaskNumber(t)
      BY DEF PrNumbers, TaskNumber
    <2>4. \A u : (TaskStep(t, u) /\ TaskNumber(u)) \/ TaskEnd(t) =>
             \A v \in tasks' : v \in tasks \/ TaskNumber(v)
      BY DEF TaskStep, TaskEnd
    <2>5. CASE TaskRecord(t)
      <3> DEFINE u == [t EXCEPT !.pc = "claim"]
      <3>1. TaskNumber(u)
        BY <2>2, <2>3 DEF Task, TaskNumber
      <3>2. TaskStep(t, u) \/ TaskEnd(t)
        BY <2>5 DEF TaskRecord
      <3> HIDE DEF u
      <3>3. \A c \in Case : db'[c].pr = db[c].pr
        BY <1>a, <2>2, <2>5, RowNumbers DEF TaskRecord
      <3> QED  BY <1>a, <2>4, <2>5, <3>1, <3>2, <3>3, NumbersFrame DEF TaskRecord, NumbersUntouched
    <2>6. CASE TaskClaim(t)
      <3> DEFINE u == [t EXCEPT !.pc = "create", !.by = approvedBy[t.case]]
      <3>1. TaskNumber(u)
        BY <2>2, <2>3 DEF Task, TaskNumber
      <3>2. TaskStep(t, u) \/ TaskEnd(t)
        BY <2>6 DEF TaskClaim
      <3> HIDE DEF u
      <3>3. \A c \in Case : db'[c].pr = db[c].pr
        BY <1>a, <2>2, <2>6, RowNumbers DEF TaskClaim
      <3> QED  BY <1>a, <2>4, <2>6, <3>1, <3>2, <3>3, NumbersFrame DEF TaskClaim, NumbersUntouched
    <2>a. ASSUME NEW u, NEW k, TaskStep(t, u), u.pr = k, u.case = t.case,
                 k \in DOMAIN prs', k # 0, t.case \in prs'[k].cases,
                 UNCHANGED <<db, elevating, recon, poll>>
          PROVE  PrNumbers'
      <3>1. \A v \in tasks' : /\ PrOfCase(v.pr, v.case)'
                              /\ v.pc \in {"read", "write", "map"} => v.pr # 0
        BY <1>a, <2>a, NumberKept DEF TaskStep, PrNumbers, PrOfCase
      <3>2. \A c \in Case :
               /\ PrOfCase(db[c].pr, c)'
               /\ PrOfCase(elevating[c], c)'
               /\ PrOfCase(recon.snap[c].pr, c)'
               /\ \A s \in PollSlot : PrOfCase(poll[s].left[c], c)'
        BY <1>a, <2>a DEF PrNumbers, PrOfCase, RepoGrows
      <3> QED  BY <3>1, <3>2 DEF PrNumbers
    <2>b. prs \in Seq(Pr)
      BY DEF TypeOK, GitHubTypeOK
    <2>c. ASSUME NEW pc, pc \in {"open", "find"}, TaskStep(t, [t EXCEPT !.pc = pc]),
                 UNCHANGED <<db, elevating, recon, poll>>
          PROVE  PrNumbers'
      <3> DEFINE u == [t EXCEPT !.pc = pc]
      <3>1. TaskNumber(u)
        BY <2>2, <2>3, <2>c DEF Task, TaskNumber
      <3>2. TaskStep(t, u)
        BY <2>c
      <3> HIDE DEF u
      <3> QED  BY <1>a, <2>4, <2>c, <3>1, <3>2, NumbersFrame DEF NumbersUntouched
    <2>d. CASE TaskEnd(t) /\ UNCHANGED <<db, elevating, recon, poll>>
      BY <1>a, <2>4, <2>d, NumbersFrame DEF NumbersUntouched
    <2>7. CASE TaskCreateRef(t)
      BY <2>7, <2>c, <2>d DEF TaskCreateRef
    <2>11. CASE TaskOpenPr(t)
      <3> DEFINE k == Len(prs) + 1
                 u == [t EXCEPT !.pc = "read", !.pr = k]
      <3>1. UNCHANGED <<db, elevating, recon, poll>>
        BY <2>11 DEF TaskOpenPr
      <3>2. CASE create_pull_request(t.case) /\ TaskStep(t, u)
        <4>1. u.pr = k /\ u.case = t.case
          BY <2>2 DEF Task
        <4>2. Len(prs) \in Nat /\ DOMAIN prs' = 1..k /\ prs'[k].cases = {t.case}
          BY <2>2, <2>b, <3>2, CreatePrEffect, Zenon
        <4>3. k \in DOMAIN prs' /\ k # 0
          BY <4>2
        <4> HIDE DEF u, k
        <4> QED  BY <2>a, <3>1, <3>2, <4>1, <4>2, <4>3
      <3> QED  BY <2>11, <2>c, <2>d, <3>1, <3>2 DEF TaskOpenPr
    <2>12. CASE TaskFindPr(t)
      <3>1. UNCHANGED <<db, elevating, recon, poll>>
        BY <2>12 DEF TaskFindPr
      <3>2. ASSUME NEW n, get_existing_pr_url(n, t.case),
                   TaskStep(t, [t EXCEPT !.pc = "read", !.pr = n])
            PROVE  PrNumbers'
        <4> DEFINE u == [t EXCEPT !.pc = "read", !.pr = n]
        <4>1. u.pr = n /\ u.case = t.case
          BY <2>2 DEF Task
        <4>2. n \in DOMAIN prs /\ n \in DOMAIN prs' /\ t.case \in prs'[n].cases
          BY <2>2, <2>b, <3>2, FindPrEffect
        <4>3. n # 0
          BY <2>b, <4>2, LenProperties
        <4>4. TaskStep(t, u)
          BY <3>2
        <4> HIDE DEF u
        <4> QED  BY <2>a, <3>1, <4>1, <4>2, <4>3, <4>4
      <3> QED  BY <2>12, <2>d, <3>1, <3>2 DEF TaskFindPr
    <2>8. CASE TaskStampRead(t)
      <3>1. PICK u : TaskStep(t, u) /\ TaskNumber(u)
        <4>1. /\ TaskNumber([t EXCEPT !.pc = "write", !.opened = db[t.case].opened])
              /\ TaskNumber([t EXCEPT !.pc = "map"])
          BY <2>2, <2>3, <2>8 DEF TaskStampRead, Task, TaskNumber
        <4> QED  BY <2>8, <4>1 DEF TaskStampRead
      <3> QED  BY <1>a, <2>4, <2>8, <3>1, NumbersFrame DEF TaskStampRead, NumbersUntouched
    <2>9. CASE TaskStampWrite(t)
      <3> DEFINE u == [t EXCEPT !.pc = "map"]
      <3>1. TaskNumber(u)
        BY <2>2, <2>3, <2>9 DEF TaskStampWrite, Task, TaskNumber
      <3>2. TaskStep(t, u) /\ UNCHANGED <<prs, elevating, recon, poll>>
        BY <2>9 DEF TaskStampWrite
      <3>3. \A c \in Case : db'[c].pr \in {db[c].pr} \/ (c = t.case /\ db'[c].pr = t.pr)
        <4> DEFINE row == [status |-> "elevating", pr |-> t.pr, opened |-> t.opened]
        <4>1. row.pr = t.pr
          OBVIOUS
        <4>2. db' \in {db, [db EXCEPT ![t.case] = row]} /\ db \in [Case -> Row]
          BY <1>a, <2>9 DEF TaskStampWrite, create_or_update, StoreTypeOK
        <4> HIDE DEF row
        <4> QED  BY <2>2, <4>1, <4>2
      <3> HIDE DEF u
      <3>4. \A v \in tasks' : TaskNumber(v)
        BY <3>1, <3>2 DEF TaskStep, PrNumbers, TaskNumber
      <3>5. \A c \in Case : PrOfCase(db'[c].pr, c)
        BY <2>3, <3>3 DEF PrNumbers, TaskNumber
      <3> QED  BY <3>2, <3>4, <3>5 DEF PrNumbers, PrOfCase, TaskNumber
    <2>10. CASE TaskMap(t)
      <3>1. TaskEnd(t) /\ UNCHANGED <<db, prs, recon, poll>>
        BY <2>10 DEF TaskMap
      <3>2. \A c \in Case : elevating'[c] = elevating[c] \/ (c = t.case /\ elevating'[c] = t.pr)
        BY <2>2, <2>10 DEF TaskMap, TypeOK
      <3>3. \A v \in tasks' : TaskNumber(v)
        BY <3>1 DEF TaskEnd, PrNumbers, TaskNumber
      <3>4. \A c \in Case : PrOfCase(elevating'[c], c)
        BY <2>3, <3>2 DEF PrNumbers, TaskNumber
      <3> QED  BY <3>1, <3>3, <3>4 DEF PrNumbers, PrOfCase, TaskNumber
    <2> QED  BY <2>1, <2>5, <2>6, <2>7, <2>8, <2>9, <2>10, <2>11, <2>12
  <1>7. CASE Reconciliation
    <2>1. CASE ReconcileWait
      <3>1. recon'.snap = recon.snap
        BY <2>1 DEF ReconcileWait, TypeOK, Recon
      <3> QED  BY <2>1, <1>a, <3>1, NumbersFrame DEF ReconcileWait, NumbersUntouched
    <2>2. CASE ReconcileRead
      <3>1. recon'.snap \in {recon.snap, db}
        BY <2>2 DEF ReconcileRead, TypeOK, Recon
      <3> QED  BY <2>2, <1>a, <3>1, NumbersFrame DEF ReconcileRead, NumbersUntouched
    <2>3. CASE apply_reconciliation
      <3>1. \A c \in Case : recon'.snap[c].pr = 0
        BY <2>3 DEF apply_reconciliation, TypeOK, Recon, NoRow
      <3>2. \A c \in Case : elevating'[c] \in {elevating[c], recon.snap[c].pr}
        BY <2>3 DEF apply_reconciliation
      <3>3. \A v \in tasks' : v \in tasks \/ TaskNumber(v)
        <4> DEFINE new == {NewTask(c, Boot, "approve", "claim") : c \in Planned("ResumePr")}
        <4>1. \A v \in new : TaskNumber(v)
          <5>1. \A c : TaskNumber(NewTask(c, Boot, "approve", "claim"))
            BY DEF NewTask, TaskNumber, PrOfCase
          <5> QED  BY <5>1, Zenon
        <4>2. tasks' = tasks \cup new
          BY <2>3 DEF apply_reconciliation
        <4> HIDE DEF new
        <4> QED  BY <4>1, <4>2
      <3>4. UNCHANGED <<db, poll>>
        BY <2>3 DEF apply_reconciliation
      <3> QED  BY <1>a, <3>1, <3>2, <3>3, <3>4, NumbersFrame DEF NumbersUntouched
    <2> QED  BY <1>7, <2>1, <2>2, <2>3 DEF Reconciliation
  <1>8. ASSUME NEW c \in Case, Expire(c)
        PROVE  PrNumbers'
    <2>1. \A b \in Case : db'[b].pr \in {db[b].pr, 0}
      <3>1. "expired" \in Status
        BY DEF Status, Terminal
      <3> QED  BY <1>8, <1>a, <3>1, RowNumbers DEF Expire
    <2> QED  BY <1>8, <1>b, <2>1 DEF Expire
  <1>9. ASSUME NEW s \in PollSlot, PollStart(s) \/ PollFuture(s)
        PROVE  PrNumbers'
    <2>1. poll \in [PollSlot -> Poll] /\ poll[s] \in Poll
      BY DEF TypeOK
    <2>2. ASSUME NEW p, PollStep(s, p), UNCHANGED <<recon, tasks>>,
                 \A c \in Case : p.left[c] \in {poll[s].left[c], elevating[c], 0},
                 \A c \in Case : db'[c].pr = db[c].pr /\ elevating'[c] \in {elevating[c], 0}
          PROVE  PrNumbers'
      <3>1. \A q \in PollSlot : poll'[q] = IF q = s THEN p ELSE poll[q]
        BY <2>1, <2>2 DEF PollStep
      <3> QED  BY <1>a, <2>2, <3>1, NumbersFrame DEF NumbersUntouched
    <2>3. /\ [IdlePoll EXCEPT !.busy = TRUE, !.left = elevating].left = elevating
          /\ \A c \in Case : IdlePoll.left[c] = 0
      BY DEF IdlePoll, NotTracked
    <2>4. CASE PollStart(s)
      BY <2>2, <2>3, <2>4 DEF PollStart
    <2>5. ASSUME NEW c \in Case, PollQuery(s, c)
          PROVE  PrNumbers'
      <3> DEFINE left == [poll[s].left EXCEPT ![c] = 0]
      <3>a. /\ [poll[s] EXCEPT !.left = left].left = left
            /\ \A v : [poll[s] EXCEPT !.left = left, !.at = c, !.verdict = v].left = left
        BY <2>1 DEF Poll
      <3>1. PICK p : PollStep(s, p) /\ p.left = left
        BY <2>5, <3>a, Zenon DEF PollQuery
      <3>2. \A b \in Case : p.left[b] \in {poll[s].left[b], 0}
        BY <2>1, <3>1 DEF Poll
      <3> QED  BY <2>2, <2>5, <3>1, <3>2 DEF PollQuery
    <2>6. CASE PollPersistOk(s)
      <3>1. PICK p : PollStep(s, p) /\ p.left = poll[s].left
        <4>1. [poll[s] EXCEPT !.at = NoCase, !.verdict = "published",
                              !.resolved = @ \cup {poll[s].at}].left = poll[s].left
          BY <2>1 DEF Poll
        <4> QED  BY <2>6, <4>1, Zenon DEF PollPersistOk
      <3>2. \A c \in Case : db'[c].pr = db[c].pr
        <4>1. poll[s].at \in Case /\ poll[s].verdict \in Status
          BY <2>1, <2>6 DEF PollPersistOk, Poll, Status, Terminal
        <4> QED  BY <1>a, <2>6, <4>1, RowNumbers DEF PollPersistOk
      <3> QED  BY <2>2, <2>6, <3>1, <3>2 DEF PollPersistOk
    <2>7. CASE PollPersistFails(s)
      <3>1. PICK p : PollStep(s, p) /\ p.left = poll[s].left
        <4>1. [poll[s] EXCEPT !.at = NoCase, !.verdict = "published"].left = poll[s].left
          BY <2>1 DEF Poll
        <4> QED  BY <2>7, <4>1, Zenon DEF PollPersistFails
      <3> QED  BY <2>2, <2>7, <3>1 DEF PollPersistFails
    <2>8. CASE PollDone(s)
      BY <2>2, <2>3, <2>8 DEF PollDone
    <2> QED  BY <1>9, <2>4, <2>5, <2>6, <2>7, <2>8 DEF PollFuture
  <1>10. CASE ForumAnswers
    BY <1>10, <1>c DEF ForumAnswers
  <1>11. ASSUME NEW n \in DOMAIN prs, NEW state \in {"merged", "closed"}, GitSettles(n, state)
         PROVE  PrNumbers'
    BY <1>11, <1>c DEF GitSettles
  <1>12. ASSUME NEW c \in Case, NEW l \in Local, NEW o \in Outcome, RestDecision(c, l, o)
         PROVE  PrNumbers'
    <2>1. \A b \in Case : db'[b].pr \in {db[b].pr, 0}
      BY <1>12, <1>a, RowNumbers DEF RestDecision
    <2> QED  BY <1>12, <1>b, <2>1 DEF RestDecision
  <1>13. CASE Tick
    BY <1>13, <1>c DEF Tick
  <1>14. CASE Crash
    <2>1. \A c \in Case : /\ elevating'[c] = 0
                          /\ recon'.snap[c].pr = 0
                          /\ \A s \in PollSlot : poll'[s].left[c] = 0
      BY <1>14 DEF Crash, NotTracked, BootRecon, NoRow, IdlePoll
    <2> QED  BY <1>14, <1>a, <2>1, NumbersFrame DEF Crash, NumbersUntouched
  <1>15. CASE UNCHANGED vars
    BY <1>15, <1>c DEF vars
  <1> QED
    BY <1>1, <1>2, <1>3, <1>4, <1>5, <1>6, <1>7, <1>8, <1>9, <1>10, <1>11, <1>12, <1>13,
       <1>14, <1>15 DEF Next

-----------------------------------------------------------------------------
(* A case comes to a PR only after its draft was pushed.                    *)

LEMMA AppliedFrame ==
    ASSUME PrsApplied, RepoGrows, prs' = prs,
           \A t \in tasks' : t \in tasks \/ t.pc \notin {"open", "find"} \/ Applied(t.case)'
    PROVE  PrsApplied'
  <1>1. \A c : Applied(c) => Applied(c)'
    BY AppliedKept
  <1>2. DOMAIN commits \subseteq DOMAIN commits'
    BY DEF RepoGrows
  <1> QED  BY <1>1, <1>2 DEF PrsApplied

(* A step that replaces one PR, the cases of which were applied.            *)
LEMMA AppliedPr ==
    ASSUME PrsApplied, UNCHANGED commits, NEW n, DOMAIN prs' \subseteq DOMAIN prs \cup {n},
           \A i \in DOMAIN prs' \ {n} : prs'[i] = prs[i],
           prs'[n].cases # {},
           \A c \in prs'[n].cases : Applied(c),
           prs'[n].state # "open" => prs'[n].tip \in DOMAIN commits,
           \A t \in tasks' : t \in tasks \/ t.pc \notin {"open", "find"}
    PROVE  PrsApplied'
  BY DEF PrsApplied, Applied

LEMMA PrsAppliedStep == TypeOK /\ PrsApplied /\ [Next]_vars => PrsApplied'
  <1> SUFFICES ASSUME TypeOK, PrsApplied, [Next]_vars PROVE PrsApplied'
    OBVIOUS
  <1> USE DEF storeVars, acspVars, memVars, futureVars, bootVars, envVars
  <1>a. RepoGrows /\ commits \in Seq(Draft) /\ prs \in Seq(Pr)
    BY RepoGrowsStep DEF TypeOK, GitHubTypeOK
  <1>b. UNCHANGED <<prs, tasks>> => PrsApplied'
    BY <1>a, AppliedFrame
  <1>1. CASE \/ Connect \/ Subscribe \/ AttachStore \/ OpenFuture \/ ForumAnswers \/ Tick
             \/ UNCHANGED vars
    BY <1>1, <1>b DEF Connect, Subscribe, AttachStore, OpenFuture, OpenPersist, OpenPublish,
         OpenCloseout, OpenMap, ForumAnswers, Tick, vars
  <1>2. ASSUME NEW c \in Case, NEW r \in Request, ElevateDecision(c, r)
        PROVE  PrsApplied'
    BY <1>2, <1>b DEF ElevateDecision
  <1>3. ASSUME NEW m \in mailbox, HandleDecision(m)
        PROVE  PrsApplied'
    <2> DEFINE u == NewTask(m.case, m.src, m.outcome, "record")
    <2>1. u.pc = "record"
      BY DEF NewTask
    <2>2. tasks' \in {tasks, tasks \cup {u}} /\ prs' = prs
      BY <1>3 DEF HandleDecision
    <2> HIDE DEF u
    <2> QED  BY <1>a, <2>1, <2>2, AppliedFrame
  <1>4. CASE TaskFuture
    <2>1. PICK t \in tasks :
             \/ TaskRecord(t) \/ TaskClaim(t) \/ TaskCreateRef(t) \/ TaskOpenPr(t)
             \/ TaskFindPr(t) \/ TaskStampRead(t) \/ TaskStampWrite(t) \/ TaskMap(t)
      BY <1>4 DEF TaskFuture
    <2>2. /\ t \in Task
          /\ t.case \in Case
          /\ t.by \in Request \cup Local \cup {NoSource}
      BY DEF TypeOK, Task
    <2>3. /\ [t EXCEPT !.pc = "claim"].pc = "claim"
          /\ [t EXCEPT !.pc = "map"].pc = "map"
          /\ [t EXCEPT !.pc = "open"].case = t.case
          /\ [t EXCEPT !.pc = "find"].case = t.case
          /\ \A v : [t EXCEPT !.pc = "create", !.by = v].pc = "create"
          /\ \A v : [t EXCEPT !.pc = "read", !.pr = v].pc = "read"
          /\ \A v : [t EXCEPT !.pc = "write", !.opened = v].pc = "write"
      BY <2>2 DEF Task
    <2>4. \A u : TaskStep(t, u) /\ u.pc \notin {"open", "find"} =>
             \A v \in tasks' : v \in tasks \/ v.pc \notin {"open", "find"}
      BY DEF TaskStep
    <2>5. TaskEnd(t) => \A v \in tasks' : v \in tasks
      BY DEF TaskEnd
    <2>6. CASE TaskRecord(t) \/ TaskClaim(t) \/ TaskStampRead(t) \/ TaskStampWrite(t) \/ TaskMap(t)
      <3>1. \A v \in tasks' : v \in tasks \/ v.pc \notin {"open", "find"}
        BY <2>3, <2>4, <2>5, <2>6 DEF TaskRecord, TaskClaim, TaskStampRead, TaskStampWrite,
             TaskMap
      <3>2. prs' = prs
        BY <2>6 DEF TaskRecord, TaskClaim, TaskStampRead, TaskStampWrite, TaskMap
      <3> QED  BY <1>a, <3>1, <3>2, AppliedFrame
    <2>7. CASE TaskCreateRef(t)
      <3>1. CASE create_ref(t.case, t.by)
        <4>1. /\ DOMAIN commits' = 1..(Len(commits) + 1)
              /\ Len(commits) \in Nat
              /\ commits'[Len(commits) + 1].case = t.case
              /\ prs' = prs
          BY <1>a, <2>2, <3>1, CreateRefEffect, Zenon
        <4>2. Applied(t.case)'
          BY <4>1 DEF Applied
        <4>3. \A v \in tasks' : v \in tasks \/ Applied(v.case)'
          <5>1. \A u : TaskStep(t, u) /\ u.case = t.case =>
                   \A v \in tasks' : v \in tasks \/ v.case = t.case
            BY DEF TaskStep
          <5>2. \A v \in tasks' : v \in tasks \/ v.case = t.case
            BY <2>3, <2>5, <2>7, <5>1 DEF TaskCreateRef
          <5> QED  BY <4>2, <5>2 DEF Applied
        <4> QED  BY <1>a, <4>1, <4>3, AppliedFrame
      <3>2. CASE UNCHANGED githubVars /\ TaskEnd(t)
        BY <1>a, <2>5, <3>2, AppliedFrame
      <3> QED  BY <2>7, <3>1, <3>2 DEF TaskCreateRef
    <2>8. CASE TaskOpenPr(t)
      <3>1. Applied(t.case)
        BY <2>8 DEF TaskOpenPr, PrsApplied
      <3>2. CASE create_pull_request(t.case)
        <4> DEFINE k == Len(prs) + 1
        <4>1. /\ DOMAIN prs = 1..Len(prs)
              /\ DOMAIN prs' = 1..k
              /\ Len(prs) \in Nat
              /\ \A n \in DOMAIN prs : prs'[n] = prs[n]
              /\ prs'[k].cases = {t.case}
              /\ prs'[k].state = "open"
              /\ commits' = commits
          BY <1>a, <2>2, <3>2, CreatePrEffect, Zenon
        <4>2. DOMAIN prs' \subseteq DOMAIN prs \cup {k} /\ DOMAIN prs' \ {k} \subseteq DOMAIN prs
          BY <4>1
        <4>3. \A v \in tasks' : v \in tasks \/ v.pc \notin {"open", "find"}
          <5>1. ~UNCHANGED githubVars
            BY <4>1
          <5> QED  BY <2>3, <2>4, <2>5, <2>8, <5>1 DEF TaskOpenPr
        <4> HIDE DEF k
        <4> QED  BY <3>1, <4>1, <4>2, <4>3, AppliedPr
      <3>3. CASE UNCHANGED githubVars
        <4>1. \A v \in tasks' : v \in tasks \/ v.case = t.case \/ v.pc \notin {"open", "find"}
          <5>1. \A u : TaskStep(t, u) /\ (u.case = t.case \/ u.pc \notin {"open", "find"}) =>
                   \A v \in tasks' :
                      v \in tasks \/ v.case = t.case \/ v.pc \notin {"open", "find"}
            BY DEF TaskStep
          <5> QED  BY <2>3, <2>5, <2>8, <5>1 DEF TaskOpenPr
        <4>2. Applied(t.case)'
          BY <1>a, <3>1, AppliedKept
        <4>3. \A v \in tasks' : v \in tasks \/ v.pc \notin {"open", "find"} \/ Applied(v.case)'
          BY <4>1, <4>2 DEF Applied
        <4> QED  BY <1>a, <3>3, <4>3, AppliedFrame
      <3> QED  BY <2>8, <3>2, <3>3 DEF TaskOpenPr
    <2>9. CASE TaskFindPr(t)
      <3>1. Applied(t.case)
        BY <2>9 DEF TaskFindPr, PrsApplied
      <3>2. \A v \in tasks' : v \in tasks \/ v.pc \notin {"open", "find"}
        BY <2>3, <2>4, <2>5, <2>9 DEF TaskFindPr
      <3>3. ASSUME NEW n, get_existing_pr_url(n, t.case)
            PROVE  PrsApplied'
        <4>1. /\ n \in DOMAIN prs
              /\ DOMAIN prs' = DOMAIN prs
              /\ prs'[n].cases = prs[n].cases \cup {t.case}
              /\ \A i \in DOMAIN prs :
                    /\ i # n => prs'[i] = prs[i]
                    /\ prs'[i].state = prs[i].state
                    /\ prs'[i].tip = prs[i].tip
              /\ commits' = commits
          BY <1>a, <2>2, <3>3, FindPrEffect
        <4>2. /\ prs'[n].cases # {}
              /\ \A c \in prs'[n].cases : Applied(c)
              /\ prs'[n].state # "open" => prs'[n].tip \in DOMAIN commits
          BY <3>1, <4>1 DEF PrsApplied
        <4> QED  BY <3>2, <4>1, <4>2, AppliedPr
      <3>4. CASE UNCHANGED githubVars
        BY <1>a, <3>2, <3>4, AppliedFrame
      <3> QED  BY <2>9, <3>3, <3>4 DEF TaskFindPr
    <2> QED  BY <2>1, <2>6, <2>7, <2>8, <2>9
  <1>5. CASE Reconciliation
    <2>1. prs' = prs
      BY <1>5 DEF Reconciliation, ReconcileWait, ReconcileRead, apply_reconciliation
    <2>2. At("open")' \subseteq At("open") /\ At("find")' \subseteq At("find")
      BY <1>5, ReconciliationStages
    <2> QED  BY <1>a, <2>1, <2>2, AppliedFrame DEF At
  <1>6. ASSUME NEW c \in Case, Expire(c)
        PROVE  PrsApplied'
    BY <1>6, <1>b DEF Expire
  <1>7. ASSUME NEW s \in PollSlot, PollStart(s) \/ PollFuture(s)
        PROVE  PrsApplied'
    BY <1>7, <1>b DEF PollStart, PollFuture, PollQuery, PollPersistOk, PollPersistFails, PollDone
  <1>8. ASSUME NEW n \in DOMAIN prs, NEW state \in {"merged", "closed"}, GitSettles(n, state)
        PROVE  PrsApplied'
    <2>1. /\ DOMAIN prs' = DOMAIN prs
          /\ prs'[n].tip = Len(commits)
          /\ prs'[n].cases = prs[n].cases
          /\ \A i \in DOMAIN prs : i # n => prs'[i] = prs[i]
          /\ commits' = commits
      BY <1>a, <1>8, SettleEffect DEF GitSettles
    <2>2. prs[n].cases # {} /\ \A c \in prs[n].cases : Applied(c)
      BY DEF PrsApplied
    <2>3. Len(commits) \in DOMAIN commits
      <3>1. PICK i : i \in DOMAIN commits
        BY <2>2 DEF Applied
      <3>2. DOMAIN commits = 1..Len(commits) /\ Len(commits) \in Nat
        BY <1>a, LenProperties
      <3> QED  BY <3>1, <3>2
    <2>4. tasks' = tasks
      BY <1>8 DEF GitSettles
    <2> QED  BY <2>1, <2>2, <2>3, <2>4, AppliedPr
  <1>9. ASSUME NEW c \in Case, NEW l \in Local, NEW o \in Outcome, RestDecision(c, l, o)
        PROVE  PrsApplied'
    BY <1>9, <1>b DEF RestDecision
  <1>10. CASE Crash
    BY <1>10, <1>a, AppliedFrame DEF Crash
  <1> QED
    BY <1>1, <1>2, <1>3, <1>4, <1>5, <1>6, <1>7, <1>8, <1>9, <1>10 DEF Next

-----------------------------------------------------------------------------
(* What a status claims.                                                    *)

HasApproval(c) == \E d \in decided : d.case = c /\ d.outcome \in ApproveSpellings

(* Status s of case c is one that git and the recorded decisions bear out.  *)
Justified(c, s) ==
    /\ GitVerdict(c, s)
    /\ s \in {"approved", "applying", "elevating", "published", "abandoned"} => HasApproval(c)
    /\ s \in {"rejected", "reviewed"} =>
          \E d \in decided : d.case = c /\ status_for_outcome(d.outcome) = s

PollVerdicts ==
    \A s \in PollSlot : poll[s].at # NoCase => GitVerdict(poll[s].at, poll[s].verdict)

LEMMA StatusesAreJustified ==
    Verdicts /\ AnswerOnRecord <=> (\A c \in Case : Justified(c, db[c].status)) /\ PollVerdicts
  BY DEF Verdicts, AnswerOnRecord, Justified, PollVerdicts, HasApproval

LEMMA JustifiedKept ==
    ASSUME RepoGrows, decided \subseteq decided', NEW c, NEW s, Justified(c, s)
    PROVE  Justified(c, s)'
  BY VerdictKept DEF Justified, HasApproval

LEMMA NeutralIsJustified ==
    ASSUME NEW c, NEW s \in {"none", "pending", "publish_failed", "expired"}
    PROVE  Justified(c, s)
  BY DEF Justified, GitVerdict

(* A PR bears out its case's approval.                                      *)
LEMMA PrMeansApproval ==
    ASSUME AppliedOnce, PrsApplied, NEW n, NEW c, PrOfCase(n, c), n # 0
    PROVE  HasApproval(c)
  <1>1. Applied(c)
    BY DEF PrOfCase, PrsApplied
  <1> QED  BY <1>1 DEF AppliedOnce, Applied, Approves, HasApproval

(* A verdict of git bears out the terminal status of the poll.              *)
LEMMA VerdictIsJustified ==
    ASSUME AppliedOnce, PrsApplied, NEW c, NEW s \in {"published", "abandoned"}, GitVerdict(c, s)
    PROVE  Justified(c, s)
  <1>1. Applied(c)
    BY DEF GitVerdict, Settled, PrsApplied
  <1>2. HasApproval(c)
    BY <1>1 DEF AppliedOnce, Applied, Approves, HasApproval
  <1> QED  BY <1>2 DEF Justified

(* A step keeps a status, or moves it to one that is justified afterwards;  *)
(* and a poll keeps its verdict, drops it, or takes one from git.           *)
LEMMA StatusFrame ==
    ASSUME Verdicts, AnswerOnRecord, RepoGrows, decided \subseteq decided',
           \A c \in Case : \A s : s = db'[c].status => s = db[c].status \/ Justified(c, s)',
           \A q \in PollSlot : poll'[q].at # NoCase =>
               GitVerdict(poll'[q].at, poll'[q].verdict)
    PROVE  Verdicts' /\ AnswerOnRecord'
  <1>1. ASSUME NEW c \in Case PROVE Justified(c, db[c].status)'
    <2>1. PICK s : s = db'[c].status
      OBVIOUS
    <2>2. Justified(c, s)'
      BY <2>1, StatusesAreJustified, JustifiedKept
    <2> QED  BY <2>1, <2>2 DEF Justified, GitVerdict, HasApproval, Settled
  <1>2. PollVerdicts'
    <2> SUFFICES ASSUME NEW q \in PollSlot, poll'[q].at # NoCase
                 PROVE  GitVerdict(poll[q].at, poll[q].verdict)'
      BY DEF PollVerdicts
    <2>1. PICK a, v : a = poll'[q].at /\ v = poll'[q].verdict
      OBVIOUS
    <2>2. GitVerdict(a, v)'
      BY <2>1, VerdictKept
    <2> QED  BY <2>1, <2>2 DEF GitVerdict, Settled
  <1>3. (\A c \in Case : Justified(c, db[c].status))' /\ PollVerdicts'
    BY <1>1, <1>2
  <1>4. (Verdicts /\ AnswerOnRecord
           <=> (\A c \in Case : Justified(c, db[c].status)) /\ PollVerdicts)'
    BY StatusesAreJustified, PTL
  <1> QED  BY <1>3, <1>4

(* A recorded decision bears out the status that it moves the case to.      *)
LEMMA RecordJustified ==
    ASSUME TypeOK, NEW c \in Case, NEW s, NEW o \in Outcome, record_decision(c, s, o)
    PROVE  /\ decided \subseteq decided'
           /\ \A b \in Case : \A st : st = db'[b].status => st = db[b].status \/ Justified(b, st)'
  <1>1. CASE UNCHANGED storeVars
    BY <1>1 DEF storeVars
  <1>2. CASE ~Redelivered(s, o)
    <2> DEFINE d == [case |-> c, src |-> s, outcome |-> o]
               new == status_for_outcome(o)
    <2>1. /\ decided' = decided \cup {d}
          /\ UpdateStatus(c, new)
      BY <1>2 DEF record_decision, storeVars, Redelivered
    <2>2. \A b \in Case : db'[b].status = db[b].status \/ (b = c /\ db'[b].status = new)
      BY <2>1, RowStatuses DEF TypeOK
    <2>3. d \in decided' /\ d.case = c /\ d.outcome = o
      BY <2>1
    <2>4. /\ new \in {"approved", "rejected", "reviewed"}
          /\ new = "approved" => o \in ApproveSpellings
      BY StatusForOutcome
    <2>5. Justified(c, new)'
      <3>1. new = "approved" => HasApproval(c)'
        BY <2>3, <2>4 DEF HasApproval
      <3>2. (\E e \in decided : e.case = c /\ status_for_outcome(e.outcome) = new)'
        BY <2>3
      <3>3. GitVerdict(c, new)'
        BY <2>4 DEF GitVerdict
      <3> HIDE DEF new
      <3> QED  BY <2>4, <3>1, <3>2, <3>3 DEF Justified
    <2> HIDE DEF d, new
    <2> QED  BY <2>1, <2>2, <2>5
  <1> QED  BY <1>1, <1>2 DEF record_decision

(* Every action moves a case to justified statuses only, and a poll holds   *)
(* verdicts of git only.                                                    *)
LEMMA StatusStep ==
    /\ TypeOK /\ AppliedOnce /\ PrsApplied /\ PrNumbers /\ Verdicts /\ AnswerOnRecord
    /\ [Next]_vars
    => Verdicts' /\ AnswerOnRecord'
  <1> SUFFICES ASSUME TypeOK, AppliedOnce, PrsApplied, PrNumbers, Verdicts,
                      AnswerOnRecord, [Next]_vars
               PROVE  Verdicts' /\ AnswerOnRecord'
    OBVIOUS
  <1> USE DEF storeVars, acspVars, memVars, futureVars, bootVars, envVars
  <1> DEFINE Goal == Verdicts' /\ AnswerOnRecord'
             Moves == \A c \in Case : \A s : s = db'[c].status => s = db[c].status \/ Justified(c, s)'
  <1>a. RepoGrows /\ StoreTypeOK
    BY RepoGrowsStep DEF TypeOK
  <1>b. /\ \A c \in Case : Justified(c, db[c].status)
        /\ \A q \in PollSlot : poll[q].at # NoCase => GitVerdict(poll[q].at, poll[q].verdict)
    BY StatusesAreJustified DEF PollVerdicts
  <1>c. decided \subseteq decided' /\ poll' = poll /\ Moves => Goal
    BY <1>a, <1>b, StatusFrame
  <1>d. UNCHANGED <<storeVars, poll>> => Goal
    BY <1>c
  <1>e. \A c, s : s \in {"none", "pending", "publish_failed", "expired"} => Justified(c, s)'
    BY DEF Justified, GitVerdict
  <1>f. ASSUME decided' = decided, NEW c \in Case, NEW s, Justified(c, s),
               \A b \in Case : db'[b].status = db[b].status \/ (b = c /\ db'[b].status = s)
        PROVE  Moves
    <2>1. Justified(c, s)'
      BY <1>a, <1>f, JustifiedKept
    <2> QED  BY <1>f, <2>1
  <1> HIDE DEF Moves
  <1>1. CASE Connect \/ Subscribe \/ AttachStore
    BY <1>1, <1>d DEF Connect, Subscribe, AttachStore
  <1>2. ASSUME NEW c \in Case, NEW r \in Request, ElevateDecision(c, r)
        PROVE  Goal
    BY <1>2, <1>d DEF ElevateDecision
  <1>3. CASE OpenFuture
    <2>1. PICK o \in opening : OpenPersist(o) \/ OpenPublish(o) \/ OpenCloseout(o) \/ OpenMap(o)
      BY <1>3 DEF OpenFuture
    <2>2. o.case \in Case
      BY DEF TypeOK, Opening
    <2>3. UNCHANGED poll
      BY <2>1 DEF OpenPersist, OpenPublish, OpenCloseout, OpenMap
    <2>4. CASE open_case(o.case)
      <3>1. /\ decided' = decided
            /\ \A b \in Case : db'[b].status = db[b].status \/ (b = o.case /\ db'[b].status = "pending")
        BY <1>a, <2>2, <2>4, RowStatuses DEF open_case, create_or_update
      <3>2. Moves
        BY <2>2, <3>1, <1>f, NeutralIsJustified
      <3> QED  BY <1>c, <2>3, <3>1, <3>2
    <2>5. CASE set_status(o.case, "publish_failed")
      <3>1. /\ decided' = decided
            /\ \A b \in Case :
                  db'[b].status = db[b].status \/ (b = o.case /\ db'[b].status = "publish_failed")
        BY <1>a, <2>2, <2>5, RowStatuses DEF set_status
      <3>2. Moves
        BY <2>2, <3>1, <1>f, NeutralIsJustified
      <3> QED  BY <1>c, <2>3, <3>1, <3>2
    <2> QED  BY <1>d, <2>1, <2>3, <2>4, <2>5 DEF OpenPersist, OpenPublish, OpenCloseout, OpenMap
  <1>4. ASSUME NEW m \in mailbox, HandleDecision(m)
        PROVE  Goal
    BY <1>4, <1>d DEF HandleDecision
  <1>5. CASE TaskFuture
    <2>1. PICK t \in tasks :
             \/ TaskRecord(t) \/ TaskClaim(t) \/ TaskCreateRef(t) \/ TaskOpenPr(t)
             \/ TaskFindPr(t) \/ TaskStampRead(t) \/ TaskStampWrite(t) \/ TaskMap(t)
      BY <1>5 DEF TaskFuture
    <2>2. t \in Task /\ t.case \in Case
      BY DEF TypeOK, Task
    <2>3. UNCHANGED poll
      BY <2>1 DEF TaskRecord, TaskClaim, TaskCreateRef, TaskOpenPr, TaskFindPr, TaskStampRead,
           TaskStampWrite, TaskMap
    <2>4. CASE TaskRecord(t) /\ record_decision(t.case, t.src, t.outcome)
      <3>1. t.outcome \in Outcome
        BY <2>4 DEF TaskRecord, TypeOK
      <3>2. decided \subseteq decided' /\ Moves
        BY <2>2, <2>4, <3>1, RecordJustified DEF Moves
      <3> QED  BY <1>c, <2>3, <3>2
    <2>5. CASE claim_application(t.case)
      <3>1. /\ decided' = decided
            /\ \A b \in Case :
                  \/ db'[b].status = db[b].status
                  \/ b = t.case /\ db[b].status = "approved" /\ db'[b].status = "applying"
        BY <1>a, <2>2, <2>5, RowStatuses DEF claim_application
      <3>2. db[t.case].status = "approved"
        BY <2>5 DEF claim_application, Claimable
      <3>3. Justified(t.case, "applying")
        <4>1. Justified(t.case, "approved")
          BY <1>b, <2>2, <3>2
        <4> QED  BY <4>1 DEF Justified, GitVerdict
      <3>4. Moves
        BY <1>f, <2>2, <3>1, <3>3
      <3> QED  BY <1>c, <2>3, <3>1, <3>4
    <2>6. CASE TaskStampWrite(t)
      <3> DEFINE row == [status |-> "elevating", pr |-> t.pr, opened |-> t.opened]
      <3>1. CASE create_or_update(t.case, row)
        <4>1. /\ decided' = decided
              /\ \A b \in Case :
                    db'[b].status = db[b].status \/ (b = t.case /\ db'[b].status = row.status)
          BY <1>a, <2>2, <3>1, RowStatuses DEF create_or_update
        <4>2. row.status = "elevating"
          OBVIOUS
        <4>3. Justified(t.case, "elevating")
          <5>1. PrOfCase(t.pr, t.case) /\ t.pr # 0
            BY <2>6 DEF TaskStampWrite, PrNumbers
          <5>2. HasApproval(t.case)
            BY <5>1, PrMeansApproval
          <5> QED  BY <5>2 DEF Justified, GitVerdict
        <4> HIDE DEF row
        <4>4. Moves
          BY <1>f, <2>2, <4>1, <4>2, <4>3
        <4> QED  BY <1>c, <2>3, <4>1, <4>4
      <3> QED  BY <1>d, <2>3, <2>6, <3>1 DEF TaskStampWrite
    <2> QED  BY <1>d, <2>1, <2>3, <2>4, <2>5, <2>6
               DEF TaskRecord, TaskClaim, TaskCreateRef, TaskOpenPr, TaskFindPr,
                   TaskStampRead, TaskMap
  <1>6. CASE Reconciliation
    BY <1>6, <1>d DEF Reconciliation, ReconcileWait, ReconcileRead, apply_reconciliation
  <1>7. ASSUME NEW c \in Case, Expire(c)
        PROVE  Goal
    <2>1. CASE set_status(c, "expired")
      <3>1. /\ decided' = decided
            /\ \A b \in Case : db'[b].status = db[b].status \/ (b = c /\ db'[b].status = "expired")
        BY <1>a, <2>1, RowStatuses DEF set_status
      <3>2. Moves
        BY <3>1, <1>f, NeutralIsJustified
      <3> QED  BY <1>7, <1>c, <3>1, <3>2 DEF Expire
    <2> QED  BY <1>7, <1>d, <2>1 DEF Expire
  <1>8. ASSUME NEW s \in PollSlot, PollStart(s) \/ PollFuture(s)
        PROVE  Goal
    <2>1. poll \in [PollSlot -> Poll] /\ poll[s] \in Poll
      BY DEF TypeOK
    <2>2. ASSUME NEW p, PollStep(s, p), p.at # NoCase => GitVerdict(p.at, p.verdict),
                 decided' = decided, Moves
          PROVE  Goal
      <3>1. \A q \in PollSlot : poll'[q] = IF q = s THEN p ELSE poll[q]
        BY <2>1, <2>2 DEF PollStep
      <3>2. \A q \in PollSlot : poll'[q].at # NoCase =>
               GitVerdict(poll'[q].at, poll'[q].verdict)
        BY <1>b, <2>2, <3>1
      <3> QED  BY <1>a, <2>2, <3>2, StatusFrame DEF Moves
    <2>3. UNCHANGED storeVars => decided' = decided /\ Moves
      BY DEF Moves
    <2>4. CASE PollStart(s)
      <3>1. [IdlePoll EXCEPT !.busy = TRUE, !.left = elevating].at = NoCase
        BY DEF IdlePoll
      <3> QED  BY <2>2, <2>3, <2>4, <3>1 DEF PollStart
    <2>5. ASSUME NEW c \in Case, PollQuery(s, c)
          PROVE  Goal
      <3> DEFINE n == poll[s].left[c]
                 left == [poll[s].left EXCEPT ![c] = 0]
                 v == terminal_case_status(prs[n].state)
                 p0 == [poll[s] EXCEPT !.left = left]
                 p1 == [poll[s] EXCEPT !.left = left, !.at = c, !.verdict = v]
      <3>1. /\ p0.at = poll[s].at
            /\ p1.at = c
            /\ p1.verdict = v
        BY <2>1 DEF Poll
      <3>2. poll[s].at = NoCase /\ n # 0
        BY <2>5 DEF PollQuery
      <3>3. CASE PollStep(s, p0)
        BY <2>2, <2>3, <2>5, <3>1, <3>2, <3>3 DEF PollQuery
      <3>4. CASE prs[n].state # "open" /\ PollStep(s, p1)
        <4>1. n \in DOMAIN prs /\ c \in prs[n].cases
          BY <3>2 DEF PrNumbers, PrOfCase
        <4>2. prs[n] \in Pr
          BY <4>1, PrType DEF TypeOK, GitHubTypeOK
        <4>3. prs[n].state \in {"merged", "closed"}
          BY <3>4, <4>2 DEF Pr, PrState
        <4>4. GitVerdict(c, v)
          BY <4>1, <4>3 DEF GitVerdict, Settled, terminal_case_status
        <4> QED  BY <2>2, <2>3, <2>5, <3>1, <3>4, <4>4 DEF PollQuery
      <3> QED  BY <2>5, <3>3, <3>4 DEF PollQuery
    <2>6. CASE PollPersistOk(s)
      <3>1. poll[s].at \in Case
        BY <2>1, <2>6 DEF PollPersistOk, Poll
      <3>2. PICK a, v : a \in Case /\ a = poll[s].at /\ v = poll[s].verdict
        BY <3>1
      <3> DEFINE p == [poll[s] EXCEPT !.at = NoCase, !.verdict = "published",
                                      !.resolved = @ \cup {poll[s].at}]
      <3>3. p.at = NoCase
        BY <2>1 DEF Poll
      <3>4. PollStep(s, p) /\ set_status(a, v) /\ a # NoCase
        BY <2>6, <3>2 DEF PollPersistOk
      <3>5. v \in {"published", "abandoned"}
        BY <2>1, <3>2 DEF Poll
      <3>6. Justified(a, v)
        BY <1>b, <3>2, <3>4, <3>5, VerdictIsJustified
      <3>7. UpdateStatus(a, v) /\ decided' = decided
        BY <3>4 DEF set_status
      <3>8. \A b \in Case : db'[b].status = db[b].status \/ (b = a /\ db'[b].status = v)
        BY <1>a, <3>2, <3>7, RowStatuses
      <3>9. Moves
        BY <1>f, <3>2, <3>6, <3>7, <3>8
      <3> QED  BY <2>2, <3>3, <3>4, <3>7, <3>9
    <2>7. CASE PollPersistFails(s)
      <3>1. [poll[s] EXCEPT !.at = NoCase, !.verdict = "published"].at = NoCase
        BY <2>1 DEF Poll
      <3> QED  BY <2>2, <2>3, <2>7, <3>1 DEF PollPersistFails
    <2>8. CASE PollDone(s)
      <3>1. IdlePoll.at = NoCase
        BY DEF IdlePoll
      <3> QED  BY <2>2, <2>3, <2>8, <3>1 DEF PollDone
    <2> QED  BY <1>8, <2>4, <2>5, <2>6, <2>7, <2>8 DEF PollFuture
  <1>9. CASE ForumAnswers
    BY <1>9, <1>d DEF ForumAnswers
  <1>10. ASSUME NEW n \in DOMAIN prs, NEW state \in {"merged", "closed"}, GitSettles(n, state)
         PROVE  Goal
    BY <1>10, <1>d DEF GitSettles
  <1>11. ASSUME NEW c \in Case, NEW l \in Local, NEW o \in Outcome, RestDecision(c, l, o)
         PROVE  Goal
    <2>1. decided \subseteq decided' /\ Moves
      BY <1>11, RecordJustified DEF RestDecision, Moves
    <2> QED  BY <1>11, <1>c, <2>1 DEF RestDecision
  <1>12. CASE Tick
    BY <1>12, <1>d DEF Tick
  <1>13. CASE Crash
    <2>1. \A q \in PollSlot : poll'[q].at = NoCase
      BY <1>13 DEF Crash, IdlePoll
    <2>2. decided' = decided /\ Moves
      BY <1>13 DEF Crash, Moves
    <2> QED  BY <1>a, <2>1, <2>2, StatusFrame DEF Moves
  <1>14. CASE UNCHANGED vars
    BY <1>14, <1>d DEF vars
  <1> QED
    BY <1>1, <1>2, <1>3, <1>4, <1>5, <1>6, <1>7, <1>8, <1>9, <1>10, <1>11, <1>12, <1>13,
       <1>14 DEF Next

-----------------------------------------------------------------------------
(* The whole invariant.                                                     *)

LEMMA InvInit == Init => Inv
  <1> SUFFICES ASSUME Init PROVE Inv
    OBVIOUS
  <1>1. TypeOK /\ AnswerFlow /\ ApprovalToken
    BY TypeInit, AnswerInit, ApprovalInit
  <1>a. PrsApplied
    BY DEF Init, GitHubInit, PrsApplied
  <1>2. PrNumbers
    BY DEF Init, StoreInit, NoRow, NotTracked, BootRecon, IdlePoll, PrNumbers, PrOfCase
  <1>3. Verdicts /\ AnswerOnRecord
    BY DEF Init, StoreInit, NoRow, IdlePoll, Verdicts, GitVerdict, AnswerOnRecord
  <1> QED  BY <1>1, <1>a, <1>2, <1>3 DEF Inv

LEMMA InvStep == Inv /\ [Next]_vars => Inv'
  BY TypeStep, AnswerStep, ApprovalStep, PrsAppliedStep, NumbersStep, StatusStep DEF Inv, ApprovalToken

(* The invariant of DecisionInvariant is inductive.                         *)
THEOREM Invariant == Spec => []Inv
  BY InvInit, InvStep, PTL DEF Spec

(* A status that claims an answer has it on record, whoever wrote it and    *)
(* whatever failed or crashed in between.                                   *)
THEOREM StatusHasAnswer == Spec => []AnswerOnRecord
  <1>1. Inv => AnswerOnRecord
    BY DEF Inv
  <1> QED  BY <1>1, Invariant, PTL

(* A terminal status of the merge poll is what git says of a PR of the      *)
(* case, and every PR number that a row or memory keeps is that of a PR of  *)
(* the case.                                                                *)
THEOREM StatusAgreesWithGit == Spec => []AgreesWithGit
  <1>1. Inv => AgreesWithGit
    <2> SUFFICES ASSUME Inv PROVE AgreesWithGit
      OBVIOUS
    <2>1. \A c \in Case :
             /\ db[c].status = "published" =>
                   \E i \in DOMAIN prs : c \in prs[i].cases /\ prs[i].state = "merged"
             /\ db[c].status = "abandoned" =>
                   \E i \in DOMAIN prs : c \in prs[i].cases /\ prs[i].state = "closed"
      BY DEF Inv, Verdicts, GitVerdict, Settled
    <2>2. \A c \in Case : \A n \in {db[c].pr, elevating[c]} \ {0} :
             n \in DOMAIN prs /\ c \in prs[n].cases
      BY DEF Inv, PrNumbers, PrOfCase
    <2> QED  BY <2>1, <2>2 DEF AgreesWithGit
  <1> QED  BY <1>1, Invariant, PTL

(* Nothing is merged that no recorded approval stands behind, although the  *)
(* PR that a maintainer merges may hold a draft of another case than the    *)
(* one it was opened for.                                                   *)
THEOREM MergedIsApproved == Spec => []CorpusIsApproved
  <1>1. Inv => CorpusIsApproved
    BY DEF Inv, ApprovalToken, AppliedOnce, PrsApplied, CorpusIsApproved
  <1> QED  BY <1>1, Invariant, PTL

=============================================================================
