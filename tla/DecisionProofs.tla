---------------------------- MODULE DecisionProofs ----------------------------
(***************************************************************************)
(* The safety properties of DecisionElevation hold for every set of cases, *)
(* requests, outcomes and faults, any number of crashes, overlapping polls *)
(* and repeated triggers.                                                  *)
(***************************************************************************)
EXTENDS DecisionInvariant, GovernanceLemmas

USE DEF NoSource, Boot, NoCase, githubVars, clockVars

LEMMA NewTaskType ==
    ASSUME NEW c \in Case, NEW s \in Request \cup {Boot}, NEW o \in Outcome \cup {"approve"},
           NEW pc \in TaskPc
    PROVE  NewTask(c, s, o, pc) \in Task
  BY DEF NewTask, Task

(* Only an answer from the forum is ever recorded by a future.              *)
FutureType(t) ==
    /\ t \in Task
    /\ t.pc = "record" => t.src \in Request /\ t.outcome \in Outcome

(* A future moves by replacing its record, or ends.                         *)
LEMMA TaskMoves ==
    ASSUME \A v \in tasks : FutureType(v),
           NEW t \in tasks, NEW u, FutureType(u), TaskStep(t, u)
    PROVE  \A v \in tasks' : FutureType(v)
  BY DEF TaskStep

LEMMA TaskEnds ==
    ASSUME \A v \in tasks : FutureType(v), NEW t \in tasks, TaskEnd(t)
    PROVE  \A v \in tasks' : FutureType(v)
  BY DEF TaskEnd

(* Every action keeps the type invariant.                                   *)
LEMMA TypeStep == TypeOK /\ [Next]_vars => TypeOK'
  <1> SUFFICES ASSUME TypeOK, [Next]_vars PROVE TypeOK'
    OBVIOUS
  <1> USE DEF TypeOK, GitHubTypeOK
  <1>a. \A v \in tasks : FutureType(v)
    BY DEF FutureType
  <1>b. (\A v \in tasks' : FutureType(v)) =>
           /\ tasks' \subseteq Task
           /\ \A t \in tasks' : t.pc = "record" => t.src \in Request /\ t.outcome \in Outcome
    BY DEF FutureType
  <1>1. CASE Connect
    BY <1>1 DEF Connect, connect, storeVars, memVars, futureVars, bootVars, envVars,
         StoreTypeOK, AcspTypeOK
  <1>2. CASE Subscribe
    BY <1>2 DEF Subscribe, subscribe, storeVars, memVars, futureVars, bootVars, envVars,
         StoreTypeOK, AcspTypeOK
  <1>3. CASE AttachStore
    BY <1>3 DEF AttachStore, storeVars, acspVars, memVars, futureVars, envVars,
         StoreTypeOK, AcspTypeOK, Recon
  <1>4. ASSUME NEW c \in Case, NEW r \in Request, ElevateDecision(c, r)
        PROVE  TypeOK'
    <2>1. opening' \subseteq Opening
      <3>1. [req |-> r, case |-> c, pc |-> "persist"] \in Opening
        BY DEF Opening, OpeningPc
      <3> QED  BY <1>4, <3>1 DEF ElevateDecision
    <2>2. asked' \subseteq Signed
      <3>1. [req |-> r, case |-> c] \in Signed
        BY DEF Signed
      <3> QED  BY <1>4, <3>1 DEF ElevateDecision
    <2> QED  BY <1>4, <2>1, <2>2 DEF ElevateDecision, storeVars, acspVars, memVars, bootVars,
               StoreTypeOK, AcspTypeOK
  <1>5. CASE OpenFuture
    <2>1. PICK o \in opening : OpenPersist(o) \/ OpenPublish(o) \/ OpenCloseout(o) \/ OpenMap(o)
      BY <1>5 DEF OpenFuture
    <2> USE DEF Opening
    <2>2. /\ OpenEnd(o) => opening' \subseteq Opening
          /\ \A pc \in OpeningPc : OpenStep(o, pc) => opening' \subseteq Opening
      BY DEF OpenEnd, OpenStep
    <2>3. CASE OpenPersist(o)
      <3>1. opening' \subseteq Opening
        BY <2>2, <2>3 DEF OpenPersist, OpeningPc
      <3>2. StoreTypeOK'
        <4>1. [status |-> "pending", pr |-> 0, opened |-> now] \in Row
          BY DEF Row, Status
        <4>2. CASE open_case(o.case)
          BY <4>1, <4>2, CreateOrUpdateType DEF open_case
        <4>3. CASE UNCHANGED storeVars
          BY <4>3 DEF StoreTypeOK, storeVars
        <4> QED  BY <2>3, <4>2, <4>3 DEF OpenPersist
      <3> QED  BY <2>3, <3>1, <3>2 DEF OpenPersist, acspVars, memVars, bootVars, envVars, AcspTypeOK
    <2>4. CASE OpenPublish(o)
      <3>1. opening' \subseteq Opening
        BY <2>2, <2>4 DEF OpenPublish, OpeningPc
      <3>2. AcspTypeOK'
        BY <2>4 DEF OpenPublish, publish_request, AcspTypeOK, Signed
      <3> QED  BY <2>4, <3>1, <3>2 DEF OpenPublish, storeVars, memVars, bootVars, envVars, StoreTypeOK
    <2>5. CASE OpenCloseout(o)
      <3>1. opening' \subseteq Opening
        BY <2>2, <2>5 DEF OpenCloseout
      <3>2. StoreTypeOK'
        <4>1. CASE set_status(o.case, "publish_failed")
          BY <4>1, SetStatusType DEF Status, Terminal
        <4>2. CASE UNCHANGED storeVars
          BY <4>2 DEF StoreTypeOK, storeVars
        <4> QED  BY <2>5, <4>1, <4>2 DEF OpenCloseout
      <3> QED  BY <2>5, <3>1, <3>2 DEF OpenCloseout, acspVars, memVars, bootVars, envVars, AcspTypeOK
    <2>6. CASE OpenMap(o)
      BY <2>2, <2>6 DEF OpenMap, storeVars, acspVars, bootVars, envVars, StoreTypeOK, AcspTypeOK
    <2> QED  BY <2>1, <2>3, <2>4, <2>5, <2>6
  <1>6. ASSUME NEW m \in mailbox, HandleDecision(m)
        PROVE  TypeOK'
    <2>1. m \in CaseDecision
      BY DEF AcspTypeOK
    <2>2. NewTask(m.case, m.src, m.outcome, "record") \in Task
      BY <2>1, NewTaskType DEF CaseDecision, TaskPc
    <2>3. \A v \in tasks' : FutureType(v)
      <3>1. FutureType(NewTask(m.case, m.src, m.outcome, "record"))
        BY <2>1, <2>2 DEF FutureType, NewTask, CaseDecision
      <3> QED  BY <1>6, <1>a, <3>1 DEF HandleDecision
    <2> QED  BY <1>b, <1>6, <2>3 DEF HandleDecision, storeVars, bootVars, envVars, StoreTypeOK, AcspTypeOK
  <1>7. CASE TaskFuture
    <2>1. PICK t \in tasks :
             \/ TaskRecord(t) \/ TaskClaim(t) \/ TaskCreateRef(t) \/ TaskOpenPr(t)
             \/ TaskFindPr(t) \/ TaskStampRead(t) \/ TaskStampWrite(t) \/ TaskMap(t)
      BY <1>7 DEF TaskFuture
    <2>2. t \in Task
      OBVIOUS
    <2>3. CASE TaskRecord(t)
      <3>1. FutureType([t EXCEPT !.pc = "claim"])
        BY <2>2 DEF FutureType, Task, TaskPc
      <3>2. \A v \in tasks' : FutureType(v)
        BY <2>3, <3>1, <1>a, TaskMoves, TaskEnds DEF TaskRecord
      <3>3. t.src \in Request /\ t.outcome \in Outcome
        BY <2>3 DEF TaskRecord
      <3>4. StoreTypeOK'
        <4>1. CASE record_decision(t.case, t.src, t.outcome)
          BY <2>2, <3>3, <4>1, RecordType DEF Task
        <4>2. CASE UNCHANGED storeVars
          BY <4>2 DEF StoreTypeOK, storeVars
        <4> QED  BY <2>3, <4>1, <4>2 DEF TaskRecord
      <3> QED  BY <1>b, <2>3, <3>2, <3>4 DEF TaskRecord, acspVars, memVars, bootVars, envVars, AcspTypeOK
    <2>4. CASE TaskClaim(t)
      <3>1. FutureType([t EXCEPT !.pc = "create", !.by = approvedBy[t.case]])
        BY <2>2 DEF FutureType, Task, TaskPc, StoreTypeOK
      <3>2. \A v \in tasks' : FutureType(v)
        BY <2>4, <3>1, <1>a, TaskMoves, TaskEnds DEF TaskClaim
      <3>3. StoreTypeOK'
        <4>1. CASE claim_application(t.case)
          BY <2>2, <4>1, ClaimType DEF Task
        <4>2. CASE UNCHANGED storeVars
          BY <4>2 DEF StoreTypeOK, storeVars
        <4> QED  BY <2>4, <4>1, <4>2 DEF TaskClaim
      <3> QED  BY <1>b, <2>4, <3>2, <3>3 DEF TaskClaim, acspVars, memVars, bootVars, envVars, AcspTypeOK
    <2>5. CASE TaskCreateRef(t)
      <3>1. FutureType([t EXCEPT !.pc = "open"])
        BY <2>2 DEF FutureType, Task, TaskPc
      <3>2. \A v \in tasks' : FutureType(v)
        BY <2>5, <3>1, <1>a, TaskMoves, TaskEnds DEF TaskCreateRef
      <3>3. commits' \in Seq(Draft) /\ prs' = prs
        <4>1. CASE create_ref(t.case, t.by)
          BY <2>2, <4>1, CreateRefEffect DEF Task, create_ref
        <4>2. CASE UNCHANGED githubVars
          BY <4>2
        <4> QED  BY <2>5, <4>1, <4>2 DEF TaskCreateRef
      <3> QED  BY <1>b, <2>5, <3>2, <3>3 DEF TaskCreateRef, storeVars, acspVars, memVars, bootVars,
                 StoreTypeOK, AcspTypeOK
    <2>9. CASE TaskOpenPr(t)
      <3>0. Len(prs) + 1 \in Nat
        OBVIOUS
      <3>1. /\ FutureType([t EXCEPT !.pc = "read", !.pr = Len(prs) + 1])
            /\ FutureType([t EXCEPT !.pc = "find"])
        BY <2>2, <3>0 DEF FutureType, Task, TaskPc
      <3>2. \A v \in tasks' : FutureType(v)
        BY <2>9, <3>1, <1>a, TaskMoves, TaskEnds DEF TaskOpenPr
      <3>3. prs' \in Seq(Pr) /\ commits' = commits
        <4>1. CASE create_pull_request(t.case)
          BY <2>2, <4>1, CreatePrEffect DEF Task
        <4>2. CASE UNCHANGED githubVars
          BY <4>2
        <4> QED  BY <2>9, <4>1, <4>2 DEF TaskOpenPr
      <3> QED  BY <1>b, <2>9, <3>2, <3>3 DEF TaskOpenPr, storeVars, acspVars, memVars, bootVars,
                 StoreTypeOK, AcspTypeOK
    <2>10. CASE TaskFindPr(t)
      <3>1. \A n \in OpenPrs : n \in Nat
        BY LenProperties DEF OpenPrs
      <3>2. \A n \in OpenPrs : FutureType([t EXCEPT !.pc = "read", !.pr = n])
        BY <2>2, <3>1 DEF FutureType, Task, TaskPc
      <3>3. \A v \in tasks' : FutureType(v)
        BY <2>10, <3>2, <1>a, TaskMoves, TaskEnds DEF TaskFindPr
      <3>4. prs' \in Seq(Pr) /\ commits' = commits
        <4>1. ASSUME NEW n \in OpenPrs, get_existing_pr_url(n, t.case)
              PROVE  prs' \in Seq(Pr) /\ commits' = commits
          BY <2>2, <4>1, FindPrEffect DEF Task
        <4>2. CASE UNCHANGED githubVars
          BY <4>2
        <4> QED  BY <2>10, <4>1, <4>2 DEF TaskFindPr
      <3> QED  BY <1>b, <2>10, <3>3, <3>4 DEF TaskFindPr, storeVars, acspVars, memVars, bootVars,
                 StoreTypeOK, AcspTypeOK
    <2>6. CASE TaskStampRead(t)
      <3>1. db[t.case].opened \in Nat
        BY <2>2, RowType DEF Task, Row
      <3>2. /\ FutureType([t EXCEPT !.pc = "write", !.opened = db[t.case].opened])
            /\ FutureType([t EXCEPT !.pc = "map"])
        BY <2>2, <3>1 DEF FutureType, Task, TaskPc
      <3>3. \A v \in tasks' : FutureType(v)
        BY <2>6, <3>2, <1>a, TaskMoves, TaskEnds DEF TaskStampRead
      <3> QED  BY <1>b, <2>6, <3>3 DEF TaskStampRead, storeVars, acspVars, memVars, bootVars, envVars,
                 StoreTypeOK, AcspTypeOK
    <2>7. CASE TaskStampWrite(t)
      <3>1. FutureType([t EXCEPT !.pc = "map"])
        BY <2>2 DEF FutureType, Task, TaskPc
      <3>2. \A v \in tasks' : FutureType(v)
        BY <2>7, <3>1, <1>a, TaskMoves, TaskEnds DEF TaskStampWrite
      <3>3. StoreTypeOK'
        <4>1. [status |-> "elevating", pr |-> t.pr, opened |-> t.opened] \in Row
          BY <2>2 DEF Row, Status, Task
        <4>2. CASE create_or_update(t.case,
                     [status |-> "elevating", pr |-> t.pr, opened |-> t.opened])
          BY <2>2, <4>1, <4>2, CreateOrUpdateType DEF Task
        <4>3. CASE UNCHANGED storeVars
          BY <4>3 DEF StoreTypeOK, storeVars
        <4> QED  BY <2>7, <4>2, <4>3 DEF TaskStampWrite
      <3> QED  BY <1>b, <2>7, <3>2, <3>3 DEF TaskStampWrite, acspVars, memVars, bootVars, envVars, AcspTypeOK
    <2>8. CASE TaskMap(t)
      <3>1. \A v \in tasks' : FutureType(v)
        BY <2>2, <2>8, <1>a, TaskMoves, TaskEnds DEF TaskMap
      <3>2. elevating' \in [Case -> Nat]
        BY <2>2, <2>8 DEF TaskMap, Task
      <3> QED  BY <1>b, <2>8, <3>1, <3>2 DEF TaskMap, storeVars, acspVars, bootVars, envVars,
                 StoreTypeOK, AcspTypeOK
    <2> QED  BY <2>1, <2>3, <2>4, <2>5, <2>6, <2>7, <2>8, <2>9, <2>10
  <1>8. CASE Reconciliation
    <2>1. CASE ReconcileWait
      <3>1. recon.attempts + 1 \in Nat
        BY DEF Recon
      <3>2. recon' \in Recon
        BY <2>1, <3>1 DEF ReconcileWait, Recon
      <3> QED  BY <2>1, <3>2 DEF ReconcileWait, storeVars, acspVars, memVars, futureVars, envVars,
                 StoreTypeOK, AcspTypeOK
    <2>2. CASE ReconcileRead
      BY <2>2 DEF ReconcileRead, storeVars, acspVars, memVars, futureVars, envVars,
           StoreTypeOK, AcspTypeOK, Recon
    <2>3. CASE apply_reconciliation
      <3>1. \A a : Planned(a) \subseteq Case
        BY DEF Planned
      <3>2. recon' \in Recon
        <4>1. NoRow \in Row
          BY DEF NoRow, Row, Status
        <4> QED  BY <2>3, <4>1 DEF apply_reconciliation, Recon
      <3>3. elevating' \in [Case -> Nat]
        <4>1. \A c \in Case : recon.snap[c].pr \in Nat
          BY DEF Recon, Row
        <4> QED  BY <2>3, <4>1 DEF apply_reconciliation
      <3>4. \A v \in tasks' : FutureType(v)
        <4>1. \A c \in Case : FutureType(NewTask(c, Boot, "approve", "claim"))
          BY NewTaskType DEF FutureType, NewTask, TaskPc
        <4> QED  BY <1>a, <2>3, <3>1, <4>1 DEF apply_reconciliation
      <3> QED  BY <1>b, <2>3, <3>1, <3>2, <3>3, <3>4 DEF apply_reconciliation, storeVars,
                 acspVars, envVars, StoreTypeOK, AcspTypeOK
    <2> QED  BY <1>8, <2>1, <2>2, <2>3 DEF Reconciliation
  <1>9. ASSUME NEW c \in Case, Expire(c)
        PROVE  TypeOK'
    <2>1. StoreTypeOK'
      <3>1. CASE set_status(c, "expired")
        BY <3>1, SetStatusType DEF Status, Terminal
      <3>2. CASE UNCHANGED storeVars
        BY <3>2 DEF StoreTypeOK, storeVars
      <3> QED  BY <1>9, <3>1, <3>2 DEF Expire
    <2> QED  BY <1>9, <2>1 DEF Expire, acspVars, memVars, bootVars, envVars, AcspTypeOK
  <1>10. ASSUME NEW s \in PollSlot, PollStart(s) \/ PollFuture(s)
         PROVE  TypeOK'
    <2>1. NotTracked \in [Case -> Nat]
      BY DEF NotTracked
    <2>2. IdlePoll \in Poll
      BY <2>1 DEF IdlePoll, Poll
    <2>3. poll[s] \in Poll
      OBVIOUS
    <2>4. CASE PollStart(s)
      <3>1. [IdlePoll EXCEPT !.busy = TRUE, !.left = elevating] \in Poll
        BY <2>2 DEF Poll
      <3> QED  BY <2>4, <3>1 DEF PollStart, PollStep, storeVars, acspVars, memVars, bootVars, envVars,
                 StoreTypeOK, AcspTypeOK
    <2>5. ASSUME NEW c \in Case, PollQuery(s, c)
          PROVE  TypeOK'
      <3>1. \A state : terminal_case_status(state) \in {"published", "abandoned"}
        BY DEF terminal_case_status
      <3>2. poll' \in [PollSlot -> Poll]
        <4>1. [poll[s].left EXCEPT ![c] = 0] \in [Case -> Nat]
          BY <2>3 DEF Poll
        <4>2. PICK p \in Poll : PollStep(s, p)
          BY <2>3, <2>5, <3>1, <4>1 DEF PollQuery, Poll
        <4> QED  BY <4>2 DEF PollStep
      <3> QED  BY <2>5, <3>2 DEF PollQuery, storeVars, acspVars, memVars, bootVars, envVars,
                 StoreTypeOK, AcspTypeOK
    <2>6. CASE PollPersistOk(s)
      <3>1. /\ poll[s].at \in Case
            /\ poll[s].verdict \in Status
        BY <2>3, <2>6 DEF PollPersistOk, Poll, Status, Terminal
      <3>2. StoreTypeOK'
        BY <2>6, <3>1, SetStatusType DEF PollPersistOk
      <3>3. poll' \in [PollSlot -> Poll]
        <4>1. PICK p \in Poll : PollStep(s, p)
          BY <2>3, <2>6, <3>1 DEF PollPersistOk, Poll
        <4> QED  BY <4>1 DEF PollStep
      <3> QED  BY <2>6, <3>2, <3>3 DEF PollPersistOk, acspVars, memVars, bootVars, envVars, AcspTypeOK
    <2>7. CASE PollPersistFails(s)
      <3>1. poll' \in [PollSlot -> Poll]
        <4>1. PICK p \in Poll : PollStep(s, p)
          BY <2>3, <2>7 DEF PollPersistFails, Poll
        <4> QED  BY <4>1 DEF PollStep
      <3> QED  BY <2>7, <3>1 DEF PollPersistFails, storeVars, acspVars, memVars, bootVars, envVars,
                 StoreTypeOK, AcspTypeOK
    <2>8. CASE PollDone(s)
      BY <2>2, <2>8 DEF PollDone, PollStep, storeVars, acspVars, bootVars, envVars, StoreTypeOK, AcspTypeOK
    <2> QED  BY <1>10, <2>4, <2>5, <2>6, <2>7, <2>8 DEF PollFuture
  <1>11. CASE ForumAnswers
    <2>1. PICK r \in Request, o \in Outcome : Dispatch(r, o)
      BY <1>11 DEF ForumAnswers
    <2>2. AcspTypeOK'
      BY <2>1 DEF Dispatch, AcspTypeOK, Signed, CaseDecision
    <2> QED  BY <1>11, <2>2 DEF ForumAnswers, storeVars, memVars, futureVars, bootVars, envVars,
               StoreTypeOK
  <1>12. ASSUME NEW n \in DOMAIN prs, NEW state \in {"merged", "closed"}, GitSettles(n, state)
         PROVE  TypeOK'
    <2>1. prs' \in Seq(Pr) /\ commits' = commits
      BY <1>12, SettleEffect DEF GitSettles
    <2> QED  BY <1>12, <2>1 DEF GitSettles, storeVars, acspVars, memVars, futureVars, bootVars,
               StoreTypeOK, AcspTypeOK
  <1>13. ASSUME NEW c \in Case, NEW l \in Local, NEW o \in Outcome, RestDecision(c, l, o)
         PROVE  TypeOK'
    <2>1. StoreTypeOK'
      BY <1>13, RecordType DEF RestDecision
    <2> QED  BY <1>13, <2>1 DEF RestDecision, acspVars, memVars, futureVars, bootVars, envVars,
               AcspTypeOK
  <1>14. CASE Tick
    <2>1. now' \in Nat
      BY <1>14 DEF Tick
    <2> QED  BY <1>14, <2>1 DEF Tick, storeVars, acspVars, memVars, futureVars, bootVars,
               StoreTypeOK, AcspTypeOK
  <1>15. CASE Crash
    <2>1. /\ NotTracked \in [Case -> Nat]
          /\ BootRecon \in Recon
      BY DEF NotTracked, BootRecon, Recon, NoRow, Row, Status
    <2>2. IdlePoll \in Poll
      BY <2>1 DEF IdlePoll, Poll
    <2>3. crashes' \in Nat
      BY <1>15 DEF Crash
    <2>4. AcspTypeOK' /\ StoreTypeOK'
      BY <1>15 DEF Crash, AcspBoot, storeVars, StoreTypeOK, AcspTypeOK
    <2>5. poll' \in [PollSlot -> Poll]
      BY <1>15, <2>2 DEF Crash
    <2> QED  BY <1>15, <2>1, <2>3, <2>4, <2>5 DEF Crash
  <1>16. CASE UNCHANGED vars
    BY <1>16 DEF vars, storeVars, acspVars, memVars, futureVars, bootVars, envVars,
         StoreTypeOK, AcspTypeOK
  <1> QED
    BY <1>1, <1>2, <1>3, <1>4, <1>5, <1>6, <1>7, <1>8, <1>9, <1>10, <1>11, <1>12, <1>13,
       <1>14, <1>15, <1>16 DEF Next

LEMMA TypeInit == Init => TypeOK
  <1> SUFFICES ASSUME Init PROVE TypeOK
    OBVIOUS
  <1>1. /\ NoRow \in Row
        /\ NotTracked \in [Case -> Nat]
        /\ BootRecon \in Recon
    BY DEF NotTracked, BootRecon, Recon, NoRow, Row, Status
  <1>2. IdlePoll \in Poll
    BY <1>1 DEF IdlePoll, Poll
  <1> QED
    <2>1. StoreTypeOK /\ AcspTypeOK
      BY <1>1 DEF Init, StoreInit, AcspInit, StoreTypeOK, AcspTypeOK
    <2>2. poll \in [PollSlot -> Poll]
      BY <1>2 DEF Init
    <2>3. GitHubTypeOK
      BY EmptySeq DEF Init, GitHubInit, GitHubTypeOK
    <2> QED  BY <1>1, <2>1, <2>2, <2>3 DEF Init, TypeOK

(* Every variable keeps its type, whatever the constants.                   *)
THEOREM TypeCorrect == Spec => []TypeOK
  BY TypeInit, TypeStep, PTL DEF Spec

-----------------------------------------------------------------------------
(* One answer per request.                                                  *)

(* Replacing or dropping a future brings nothing new to a stage but what it *)
(* is replaced by.                                                          *)
LEMMA TaskStages ==
    ASSUME NEW t \in tasks, NEW pc
    PROVE  /\ \A u : TaskStep(t, u) /\ u.pc # pc => At(pc)' \subseteq At(pc)
           /\ \A u : TaskStep(t, u) => At(pc)' \subseteq At(pc) \cup {u}
           /\ TaskEnd(t) => At(pc)' \subseteq At(pc)
           /\ UNCHANGED tasks => At(pc)' = At(pc)
  BY DEF TaskStep, TaskEnd, At

(* Reconciliation brings futures that are about to claim, and no others.    *)
LEMMA ReconciliationStages ==
    ASSUME Reconciliation, NEW pc, pc # "claim"
    PROVE  At(pc)' \subseteq At(pc)
  <1>1. CASE UNCHANGED tasks
    BY <1>1 DEF At
  <1>2. CASE apply_reconciliation
    <2> DEFINE new == {NewTask(c, Boot, "approve", "claim") : c \in Planned("ResumePr")}
    <2>1. \A u \in new : u.pc = "claim"
      <3>1. \A c : NewTask(c, Boot, "approve", "claim").pc = "claim"
        BY DEF NewTask
      <3> QED  BY <3>1, Zenon
    <2>2. tasks' = tasks \cup new
      BY <1>2 DEF apply_reconciliation
    <2> HIDE DEF new
    <2> QED  BY <2>1, <2>2 DEF At
  <1> QED  BY <1>1, <1>2 DEF Reconciliation, ReconcileWait, ReconcileRead, futureVars

(* What most steps do to the flow of answers: nothing new appears in it.    *)
AnswersUntouched ==
    /\ mailbox' \subseteq mailbox
    /\ dispatched \subseteq dispatched'
    /\ decided' = decided
    /\ At("record")' \subseteq At("record")

LEMMA AnswersFrame == AnswerFlow /\ AnswersUntouched => AnswerFlow'
  <1> SUFFICES ASSUME AnswerFlow, AnswersUntouched PROVE AnswerFlow'
    OBVIOUS
  <1> DEFINE R == At("record")
  <1>1. /\ mailbox' \subseteq mailbox
        /\ dispatched \subseteq dispatched'
        /\ decided' = decided
        /\ R' \subseteq R
    BY DEF AnswersUntouched
  <1> HIDE DEF R
  <1> QED  BY <1>1 DEF AnswerFlow, OneAnswerPerRequest, R

(* Every action keeps the flow of answers.  Four of them touch it: an answer *)
(* is dispatched, handled, recorded by a future, or recorded over REST.      *)
LEMMA AnswerStep == TypeOK /\ AnswerFlow /\ [Next]_vars => AnswerFlow'
  <1> SUFFICES ASSUME TypeOK, AnswerFlow, [Next]_vars PROVE AnswerFlow'
    OBVIOUS
  <1> USE DEF storeVars, acspVars, memVars, futureVars, bootVars, envVars
  <1>1. CASE Connect \/ Subscribe \/ AttachStore
    BY <1>1, AnswersFrame DEF Connect, connect, Subscribe, subscribe, AttachStore,
         AnswersUntouched, At
  <1>2. ASSUME NEW c \in Case, NEW r \in Request, ElevateDecision(c, r)
        PROVE  AnswerFlow'
    BY <1>2, AnswersFrame DEF ElevateDecision, AnswersUntouched, At
  <1>3. CASE OpenFuture
    <2>1. PICK o \in opening : OpenPersist(o) \/ OpenPublish(o) \/ OpenCloseout(o) \/ OpenMap(o)
      BY <1>3 DEF OpenFuture
    <2>2. UNCHANGED <<mailbox, dispatched, decided, tasks>>
      BY <2>1 DEF OpenPersist, OpenPublish, OpenCloseout, OpenMap, open_case,
           create_or_update, set_status, publish_request
    <2> QED  BY <2>2, AnswersFrame DEF AnswersUntouched, At
  <1>4. ASSUME NEW m \in mailbox, HandleDecision(m)
        PROVE  AnswerFlow'
    <2> DEFINE u == NewTask(m.case, m.src, m.outcome, "record")
    <2>1. /\ mailbox' = mailbox \ {m}
          /\ dispatched' = dispatched
          /\ decided' = decided
          /\ At("record")' \subseteq At("record") \cup {u}
          /\ u.src = m.src
      BY <1>4 DEF HandleDecision, At, NewTask
    <2> HIDE DEF u
    <2> QED  BY <2>1 DEF AnswerFlow, OneAnswerPerRequest
  <1>5. CASE TaskFuture
    <2>1. PICK t \in tasks :
             \/ TaskRecord(t) \/ TaskClaim(t) \/ TaskCreateRef(t) \/ TaskOpenPr(t)
             \/ TaskFindPr(t) \/ TaskStampRead(t) \/ TaskStampWrite(t) \/ TaskMap(t)
      BY <1>5 DEF TaskFuture
    <2>2. t \in Task
      BY DEF TypeOK
    <2>3. CASE TaskRecord(t)
      <3> DEFINE d == [case |-> t.case, src |-> t.src, outcome |-> t.outcome]
      <3>1. /\ t \in At("record")
            /\ mailbox' = mailbox
            /\ dispatched' = dispatched
            /\ decided' \in {decided, decided \cup {d}}
        BY <2>3 DEF TaskRecord, record_decision, At
      <3>2. At("record")' \subseteq At("record") \ {t}
        <4>1. [t EXCEPT !.pc = "claim"].pc = "claim"
          BY <2>2 DEF Task
        <4> QED  BY <2>3, <4>1 DEF TaskRecord, At, TaskStep, TaskEnd
      <3>3. d.src = t.src
        OBVIOUS
      <3> HIDE DEF d
      <3> QED  BY <3>1, <3>2, <3>3 DEF AnswerFlow, OneAnswerPerRequest
    <2>4. CASE ~TaskRecord(t)
      <3>1. /\ \A v : [t EXCEPT !.pc = "create", !.by = v].pc = "create"
            /\ \A v : [t EXCEPT !.pc = "read", !.pr = v].pc = "read"
            /\ \A v : [t EXCEPT !.pc = "write", !.opened = v].pc = "write"
            /\ [t EXCEPT !.pc = "map"].pc = "map"
            /\ [t EXCEPT !.pc = "open"].pc = "open"
            /\ [t EXCEPT !.pc = "find"].pc = "find"
        BY <2>2 DEF Task
      <3>2. At("record")' \subseteq At("record")
        BY <2>1, <2>4, <3>1, TaskStages DEF TaskClaim, TaskCreateRef, TaskOpenPr, TaskFindPr, TaskStampRead,
             TaskStampWrite, TaskMap
      <3>3. UNCHANGED <<mailbox, dispatched, decided>>
        BY <2>1, <2>4 DEF TaskClaim, TaskCreateRef, TaskOpenPr, TaskFindPr, TaskStampRead, TaskStampWrite, TaskMap,
             claim_application, create_or_update
      <3> QED  BY <3>2, <3>3, AnswersFrame DEF AnswersUntouched
    <2> QED  BY <2>3, <2>4
  <1>6. CASE Reconciliation
    <2>1. UNCHANGED <<mailbox, dispatched, decided>>
      BY <1>6 DEF Reconciliation, ReconcileWait, ReconcileRead, apply_reconciliation
    <2>2. At("record")' \subseteq At("record")
      BY <1>6, ReconciliationStages
    <2> QED  BY <2>1, <2>2, AnswersFrame DEF AnswersUntouched
  <1>7. ASSUME NEW c \in Case, Expire(c)
        PROVE  AnswerFlow'
    BY <1>7, AnswersFrame DEF Expire, set_status, AnswersUntouched, At
  <1>8. ASSUME NEW s \in PollSlot, PollStart(s) \/ PollFuture(s)
        PROVE  AnswerFlow'
    <2>1. UNCHANGED <<mailbox, dispatched, decided, tasks>>
      BY <1>8 DEF PollStart, PollFuture, PollQuery, PollPersistOk, PollPersistFails, PollDone,
           set_status
    <2> QED  BY <2>1, AnswersFrame DEF AnswersUntouched, At
  <1>9. CASE ForumAnswers
    <2>1. PICK r \in Request, o \in Outcome : Dispatch(r, o)
      BY <1>9 DEF ForumAnswers
    <2>2. PICK s \in journal :
             mailbox' = mailbox \cup {[case |-> s.case, src |-> r, outcome |-> o]}
      BY <2>1 DEF Dispatch
    <2> DEFINE m == [case |-> s.case, src |-> r, outcome |-> o]
    <2>3. /\ mailbox' = mailbox \cup {m}
          /\ m.src = r
          /\ r \notin dispatched
          /\ r \notin Local
          /\ dispatched' = dispatched \cup {r}
          /\ decided' = decided
          /\ At("record")' = At("record")
      BY <1>9, <2>1, <2>2, SourceAssumption DEF ForumAnswers, Dispatch, At
    <2> HIDE DEF m
    <2> QED  BY <2>3 DEF AnswerFlow, OneAnswerPerRequest
  <1>10. ASSUME NEW n \in DOMAIN prs, NEW state \in {"merged", "closed"}, GitSettles(n, state)
         PROVE  AnswerFlow'
    BY <1>10, AnswersFrame DEF GitSettles, AnswersUntouched, At
  <1>11. ASSUME NEW c \in Case, NEW l \in Local, NEW o \in Outcome, RestDecision(c, l, o)
         PROVE  AnswerFlow'
    <2> DEFINE d == [case |-> c, src |-> l, outcome |-> o]
    <2>1. /\ UNCHANGED <<mailbox, dispatched>>
          /\ At("record")' = At("record")
          /\ decided' \in {decided, decided \cup {d}}
          /\ d.src = l
          /\ \A e \in decided : e.src # l
          /\ l \notin Request
      BY <1>11, SourceAssumption DEF RestDecision, record_decision, At
    <2>2. dispatched \subseteq Request
      BY DEF TypeOK, AcspTypeOK
    <2> HIDE DEF d
    <2> QED  BY <2>1, <2>2 DEF AnswerFlow, OneAnswerPerRequest
  <1>12. CASE Tick
    BY <1>12, AnswersFrame DEF Tick, AnswersUntouched, At
  <1>13. CASE Crash
    BY <1>13, AnswersFrame DEF Crash, AcspBoot, AnswersUntouched, At
  <1>14. CASE UNCHANGED vars
    BY <1>14, AnswersFrame DEF vars, AnswersUntouched, At
  <1> QED
    BY <1>1, <1>2, <1>3, <1>4, <1>5, <1>6, <1>7, <1>8, <1>9, <1>10, <1>11, <1>12, <1>13,
       <1>14 DEF Next

LEMMA AnswerInit == Init => AnswerFlow
  BY DEF Init, StoreInit, AcspInit, AnswerFlow, OneAnswerPerRequest, At

(* However often requests are answered, delivered or elevated again, and    *)
(* across any number of crashes, one answer to a request is recorded.       *)
THEOREM OneAnswer == Spec => []OneAnswerPerRequest
  <1>1. TypeOK /\ AnswerFlow /\ [Next]_vars => (TypeOK /\ AnswerFlow)'
    BY TypeStep, AnswerStep
  <1>2. Init => TypeOK /\ AnswerFlow
    BY TypeInit, AnswerInit
  <1>3. AnswerFlow => OneAnswerPerRequest
    BY DEF AnswerFlow
  <1> QED  BY <1>1, <1>2, <1>3, PTL DEF Spec

-----------------------------------------------------------------------------
(* One PR per approval.                                                     *)

(* What most steps do to the approvals: none is granted, claimed or spent.  *)
ApprovalsUntouched ==
    /\ decided \subseteq decided'
    /\ DOMAIN commits' = DOMAIN commits
    /\ \A i \in DOMAIN commits : commits'[i].case = commits[i].case /\ commits'[i].by = commits[i].by
    /\ At("create")' \subseteq At("create")
    /\ \A c \in Case : db'[c].status = "approved" =>
          db[c].status = "approved" /\ approvedBy'[c] = approvedBy[c]

LEMMA ApprovesKept ==
    ASSUME decided \subseteq decided', NEW c, NEW s, Approves(c, s)
    PROVE  Approves(c, s)'
  BY DEF Approves

LEMMA ApprovalsFrame == ApprovalToken /\ ApprovalsUntouched => ApprovalToken'
  <1> SUFFICES ASSUME ApprovalToken, ApprovalsUntouched PROVE ApprovalToken'
    OBVIOUS
  <1> DEFINE C == At("create")
  <1>1. /\ DOMAIN commits' = DOMAIN commits
        /\ \A i \in DOMAIN commits : commits'[i].case = commits[i].case /\ commits'[i].by = commits[i].by
        /\ C' \subseteq C
        /\ \A c \in Case : db'[c].status = "approved" =>
              db[c].status = "approved" /\ approvedBy'[c] = approvedBy[c]
    BY DEF ApprovalsUntouched
  <1>2. \A c, s : Approves(c, s) => Approves(c, s)'
    BY ApprovesKept DEF ApprovalsUntouched
  <1> HIDE DEF C
  <1>3. TokenOnRow'
    BY <1>1, <1>2 DEF ApprovalToken, TokenOnRow, C
  <1>4. TokenInTask'
    BY <1>1, <1>2 DEF ApprovalToken, TokenInTask, C
  <1>5. AppliedOnce'
    BY <1>1, <1>2 DEF ApprovalToken, AppliedOnce
  <1> QED  BY <1>3, <1>4, <1>5 DEF ApprovalToken

(* No statement of the store but record_decision makes an approved row.     *)
NothingGranted ==
    /\ decided' = decided
    /\ \A c \in Case : db'[c].status = "approved" =>
          db[c].status = "approved" /\ approvedBy'[c] = approvedBy[c]

LEMMA UpsertGrantsNothing ==
    ASSUME StoreTypeOK, NEW c \in Case, NEW row, row.status # "approved",
           create_or_update(c, row)
    PROVE  NothingGranted
  BY DEF create_or_update, StoreTypeOK, NothingGranted

LEMMA SetStatusGrantsNothing ==
    ASSUME StoreTypeOK, NEW c \in Case, NEW s, s # "approved", set_status(c, s)
    PROVE  NothingGranted
  BY DEF set_status, UpdateStatus, StoreTypeOK, Row, NothingGranted

LEMMA StoreUnchangedGrantsNothing == UNCHANGED storeVars => NothingGranted
  BY DEF storeVars, NothingGranted

(* A decision nobody has recorded yet grants a fresh approval, or none.     *)
LEMMA FreshDecision ==
    ASSUME TypeOK, ApprovalToken, NEW c \in Case, NEW s, NEW o \in Outcome,
           record_decision(c, s, o), \A d \in decided : d.src # s,
           UNCHANGED commits, At("create")' \subseteq At("create")
    PROVE  ApprovalToken'
  <1> DEFINE C == At("create")
             d == [case |-> c, src |-> s, outcome |-> o]
  <1>1. ~Redelivered(s, o)
    BY DEF Redelivered
  <1>2. decided' = decided \cup {d}
    BY <1>1 DEF record_decision
  <1>3. \A b \in Case : db'[b].status = "approved" =>
           \/ db[b].status = "approved" /\ approvedBy'[b] = approvedBy[b]
           \/ b = c /\ approvedBy'[b] = s /\ o \in ApproveSpellings
    <2> DEFINE st == status_for_outcome(o)
    <2>1. /\ db' = IF Known(c) THEN [db EXCEPT ![c].status = st] ELSE db
          /\ o \in ApproveSpellings => approvedBy' = [approvedBy EXCEPT ![c] = s]
          /\ o \notin ApproveSpellings => approvedBy' = approvedBy
      BY <1>1 DEF record_decision, UpdateStatus
    <2>2. st = "approved" => o \in ApproveSpellings
      BY StatusForOutcome
    <2>3. db \in [Case -> Row] /\ DOMAIN approvedBy = Case
      BY DEF TypeOK, StoreTypeOK
    <2> HIDE DEF st
    <2>4. \A b \in Case : /\ b # c => db'[b] = db[b] /\ approvedBy'[b] = approvedBy[b]
                          /\ b = c => db'[b].status \in {st, "none"}
      BY <2>1, <2>3 DEF Row, Known
    <2>5. o \in ApproveSpellings => approvedBy'[c] = s
      BY <2>1, <2>3
    <2> QED  BY <2>2, <2>4, <2>5
  <1>4. \A b, e : Approves(b, e) => Approves(b, e)' /\ e # s
    BY <1>2 DEF Approves
  <1>5. o \in ApproveSpellings => Approves(c, s)'
    <2>1. d \in decided' /\ d.case = c /\ d.src = s /\ d.outcome = o
      BY <1>2
    <2> QED  BY <2>1 DEF Approves
  <1> HIDE DEF C, d
  <1>6. C' \subseteq C
    BY DEF C
  <1>7. TokenOnRow'
    BY <1>3, <1>4, <1>5, <1>6
       DEF ApprovalToken, TokenOnRow, TokenInTask, AppliedOnce, C
  <1>8. TokenInTask'
    BY <1>4, <1>6 DEF ApprovalToken, TokenInTask, C
  <1>9. AppliedOnce'
    BY <1>4 DEF ApprovalToken, AppliedOnce
  <1> QED  BY <1>7, <1>8, <1>9 DEF ApprovalToken

(* A step that leaves the store, GitHub and the futures' stages alone.      *)
LEMMA ApprovalsIdle ==
    ASSUME ApprovalToken, NothingGranted, UNCHANGED commits, At("create")' \subseteq At("create")
    PROVE  ApprovalToken'
  BY ApprovalsFrame DEF ApprovalsUntouched, NothingGranted

(* The claim takes the approval off the row and into the future.            *)
LEMMA ClaimMovesToken ==
    ASSUME TypeOK, AnswerFlow, ApprovalToken, NEW t \in tasks, claim_application(t.case),
           UNCHANGED commits,
           TaskStep(t, [t EXCEPT !.pc = "create", !.by = approvedBy[t.case]])
    PROVE  ApprovalToken'
  <1> DEFINE C == At("create")
             u == [t EXCEPT !.pc = "create", !.by = approvedBy[t.case]]
             a == t.case
  <1>1. t \in Task
    BY DEF TypeOK
  <1>2. u.case = a /\ u.by = approvedBy[a] /\ a \in Case
    BY <1>1 DEF Task
  <1>3. C' \subseteq C \cup {u}
    BY TaskStages
  <1>4. /\ db[a].status = "approved"
        /\ \A b \in Case : db'[b].status = "approved" => b # a /\ db[b].status = "approved"
        /\ approvedBy' = approvedBy
        /\ decided' = decided
    BY <1>2 DEF claim_application, Claimable, TypeOK, StoreTypeOK, Row
  <1>5. \A b, e : Approves(b, e)' <=> Approves(b, e)
    BY <1>4 DEF Approves
  <1>6. \A b, c, e : Approves(b, e) /\ Approves(c, e) => b = c
    BY DEF Approves, AnswerFlow, OneAnswerPerRequest
  <1> HIDE DEF C, u, a
  <1>7. /\ Approves(u.case, u.by)
        /\ \A i \in DOMAIN commits : commits[i].by # u.by
        /\ \A v \in C : v.by # u.by
    BY <1>2, <1>4 DEF ApprovalToken, TokenOnRow, C
  <1>8. TokenOnRow'
    BY <1>2, <1>3, <1>4, <1>5, <1>6, <1>7 DEF ApprovalToken, TokenOnRow, C
  <1>9. TokenInTask'
    BY <1>3, <1>5, <1>7 DEF ApprovalToken, TokenInTask, C
  <1>10. AppliedOnce'
    BY <1>5 DEF ApprovalToken, AppliedOnce
  <1> QED  BY <1>8, <1>9, <1>10 DEF ApprovalToken

(* A commit spends the approval that its future had claimed.                *)
LEMMA CommitSpendsToken ==
    ASSUME TypeOK, ApprovalToken, NEW t \in tasks, t.pc = "create", create_ref(t.case, t.by),
           UNCHANGED storeVars, At("create")' \subseteq At("create") \ {t}
    PROVE  ApprovalToken'
  <1> DEFINE C == At("create")
             k == Len(commits) + 1
  <1>1. /\ DOMAIN commits = 1..Len(commits)
        /\ DOMAIN commits' = 1..k
        /\ Len(commits) \in Nat
        /\ \A i \in DOMAIN commits : commits'[i] = commits[i]
        /\ commits'[k].case = t.case
        /\ commits'[k].by = t.by
    <2>1. commits \in Seq(Draft) /\ t \in Task
      BY DEF TypeOK, GitHubTypeOK
    <2>2. t.case \in Case /\ t.by \in Request \cup Local \cup {NoSource}
      BY <2>1 DEF Task
    <2> QED  BY <2>1, <2>2, CreateRefEffect
  <1>2. \A i \in DOMAIN commits' : i = k \/ i \in DOMAIN commits
    BY <1>1
  <1>3. t \in C /\ C' \subseteq C \ {t}
    BY DEF At
  <1>4. \A b, e : Approves(b, e)' <=> Approves(b, e)
    BY DEF Approves, storeVars
  <1> HIDE DEF C, k
  <1>5. /\ Approves(t.case, t.by)
        /\ \A i \in DOMAIN commits : commits[i].by # t.by
        /\ \A v \in C : v.by = t.by => v = t
    BY <1>3 DEF ApprovalToken, TokenInTask, C
  <1>6. TokenOnRow'
    <2>1. db' = db /\ approvedBy' = approvedBy
      BY DEF storeVars
    <2>2. \A c \in Case : db[c].status = "approved" => t.by # approvedBy[c]
      BY <1>3 DEF ApprovalToken, TokenOnRow, C
    <2> QED  BY <1>1, <1>2, <1>3, <1>4, <2>1, <2>2 DEF ApprovalToken, TokenOnRow, C
  <1>7. TokenInTask'
    BY <1>1, <1>2, <1>3, <1>4, <1>5 DEF ApprovalToken, TokenInTask, C
  <1>8. AppliedOnce'
    <2>1. ASSUME NEW i \in DOMAIN commits' PROVE Approves(commits[i].case, commits[i].by)'
      <3>1. Approves(commits'[i].case, commits'[i].by)
        BY <1>1, <1>2, <1>5 DEF ApprovalToken, AppliedOnce
      <3> QED  BY <3>1 DEF Approves, storeVars
    <2>2. ASSUME NEW i \in DOMAIN commits', NEW j \in DOMAIN commits', commits'[j].by = commits'[i].by
          PROVE  i = j
      BY <1>1, <1>2, <1>5, <2>2 DEF ApprovalToken, AppliedOnce
    <2> QED  BY <2>1, <2>2 DEF AppliedOnce
  <1> QED  BY <1>6, <1>7, <1>8 DEF ApprovalToken

(* Every action keeps the approvals.  Four of them touch them: a decision   *)
(* is recorded by a future or over REST, a row is claimed, a draft is pushed. *)
LEMMA ApprovalStep ==
    TypeOK /\ AnswerFlow /\ ApprovalToken /\ [Next]_vars => ApprovalToken'
  <1> SUFFICES ASSUME TypeOK, AnswerFlow, ApprovalToken, [Next]_vars PROVE ApprovalToken'
    OBVIOUS
  <1> USE DEF storeVars, acspVars, memVars, futureVars, bootVars, envVars
  <1>a. StoreTypeOK
    BY DEF TypeOK
  <1>b. UNCHANGED <<storeVars, commits, tasks>> => ApprovalToken'
    BY ApprovalsIdle, StoreUnchangedGrantsNothing DEF At
  <1>1. CASE Connect \/ Subscribe \/ AttachStore
    BY <1>1, <1>b DEF Connect, Subscribe, AttachStore
  <1>2. ASSUME NEW c \in Case, NEW r \in Request, ElevateDecision(c, r)
        PROVE  ApprovalToken'
    BY <1>2, <1>b DEF ElevateDecision
  <1>3. CASE OpenFuture
    <2>1. PICK o \in opening : OpenPersist(o) \/ OpenPublish(o) \/ OpenCloseout(o) \/ OpenMap(o)
      BY <1>3 DEF OpenFuture
    <2>2. o.case \in Case
      BY DEF TypeOK, Opening
    <2>3. NothingGranted
      <3>1. CASE open_case(o.case)
        BY <1>a, <2>2, <3>1, UpsertGrantsNothing DEF open_case
      <3>2. CASE set_status(o.case, "publish_failed")
        BY <1>a, <2>2, <3>2, SetStatusGrantsNothing
      <3> QED  BY <2>1, <3>1, <3>2, StoreUnchangedGrantsNothing
                 DEF OpenPersist, OpenPublish, OpenCloseout, OpenMap
    <2>4. UNCHANGED <<commits, tasks>>
      BY <2>1 DEF OpenPersist, OpenPublish, OpenCloseout, OpenMap
    <2> QED  BY <2>3, <2>4, ApprovalsIdle DEF At
  <1>4. ASSUME NEW m \in mailbox, HandleDecision(m)
        PROVE  ApprovalToken'
    <2>1. At("create")' \subseteq At("create")
      <3> DEFINE u == NewTask(m.case, m.src, m.outcome, "record")
      <3>1. u.pc = "record"
        BY DEF NewTask
      <3>2. tasks' \in {tasks, tasks \cup {u}}
        BY <1>4 DEF HandleDecision
      <3> HIDE DEF u
      <3> QED  BY <3>1, <3>2 DEF At
    <2> QED  BY <1>4, <2>1, ApprovalsIdle, StoreUnchangedGrantsNothing DEF HandleDecision
  <1>5. CASE TaskFuture
    <2>1. PICK t \in tasks :
             \/ TaskRecord(t) \/ TaskClaim(t) \/ TaskCreateRef(t) \/ TaskOpenPr(t)
             \/ TaskFindPr(t) \/ TaskStampRead(t) \/ TaskStampWrite(t) \/ TaskMap(t)
      BY <1>5 DEF TaskFuture
    <2>2. t \in Task /\ t.case \in Case
      BY DEF TypeOK, Task
    <2>3. /\ [t EXCEPT !.pc = "claim"].pc = "claim"
          /\ \A v : [t EXCEPT !.pc = "read", !.pr = v].pc = "read"
          /\ \A v : [t EXCEPT !.pc = "write", !.opened = v].pc = "write"
          /\ [t EXCEPT !.pc = "map"].pc = "map"
      BY <2>2 DEF Task
    <2>4. CASE TaskRecord(t)
      <3>1. At("create")' \subseteq At("create") /\ UNCHANGED commits
        BY <2>3, <2>4, TaskStages DEF TaskRecord
      <3>2. CASE record_decision(t.case, t.src, t.outcome)
        <4>1. t.outcome \in Outcome
          BY <2>4 DEF TaskRecord, TypeOK
        <4>2. \A d \in decided : d.src # t.src
          BY <2>4 DEF TaskRecord, AnswerFlow, At
        <4> QED  BY <2>2, <3>1, <3>2, <4>1, <4>2, FreshDecision
      <3>3. CASE UNCHANGED storeVars
        BY <3>1, <3>3, ApprovalsIdle, StoreUnchangedGrantsNothing
      <3> QED  BY <2>4, <3>2, <3>3 DEF TaskRecord
    <2>5. CASE TaskClaim(t)
      <3>1. CASE claim_application(t.case)
                 /\ TaskStep(t, [t EXCEPT !.pc = "create", !.by = approvedBy[t.case]])
        BY <2>5, <3>1, ClaimMovesToken DEF TaskClaim
      <3>2. CASE TaskEnd(t) /\ UNCHANGED storeVars
        <4>1. At("create")' \subseteq At("create") /\ UNCHANGED commits
          BY <2>5, <3>2, TaskStages DEF TaskClaim
        <4> QED  BY <3>2, <4>1, ApprovalsIdle, StoreUnchangedGrantsNothing
      <3> QED  BY <2>5, <3>1, <3>2 DEF TaskClaim
    <2>6. CASE TaskCreateRef(t)
      <3>1. At("create")' \subseteq At("create") \ {t}
        <4> DEFINE u == [t EXCEPT !.pc = "open"]
        <4>1. u.pc = "open"
          BY <2>2 DEF Task
        <4>2. TaskStep(t, u) \/ TaskEnd(t)
          BY <2>6 DEF TaskCreateRef
        <4> HIDE DEF u
        <4> QED  BY <4>1, <4>2 DEF TaskStep, TaskEnd, At
      <3>2. CASE create_ref(t.case, t.by)
        BY <2>6, <3>1, <3>2, CommitSpendsToken DEF TaskCreateRef
      <3>3. CASE UNCHANGED commits
        BY <2>6, <3>1, <3>3, ApprovalsIdle, StoreUnchangedGrantsNothing DEF TaskCreateRef
      <3> QED  BY <2>6, <3>2, <3>3 DEF TaskCreateRef
    <2>8. CASE TaskOpenPr(t) \/ TaskFindPr(t)
      <3>1. UNCHANGED <<storeVars, commits>>
        BY <2>8 DEF TaskOpenPr, TaskFindPr, create_pull_request, get_existing_pr_url
      <3>2. [t EXCEPT !.pc = "find"].pc = "find"
        BY <2>2 DEF Task
      <3>3. At("create")' \subseteq At("create")
        BY <2>3, <2>8, <3>2, TaskStages DEF TaskOpenPr, TaskFindPr
      <3> QED  BY <3>1, <3>3, ApprovalsIdle, StoreUnchangedGrantsNothing
    <2>7. CASE TaskStampRead(t) \/ TaskStampWrite(t) \/ TaskMap(t)
      <3>1. At("create")' \subseteq At("create") /\ UNCHANGED commits
        BY <2>3, <2>7, TaskStages DEF TaskStampRead, TaskStampWrite, TaskMap
      <3>2. NothingGranted
        <4>1. CASE create_or_update(t.case,
                     [status |-> "elevating", pr |-> t.pr, opened |-> t.opened])
          BY <1>a, <2>2, <4>1, UpsertGrantsNothing
        <4> QED  BY <2>7, <4>1, StoreUnchangedGrantsNothing
                   DEF TaskStampRead, TaskStampWrite, TaskMap
      <3> QED  BY <3>1, <3>2, ApprovalsIdle
    <2> QED  BY <2>1, <2>4, <2>5, <2>6, <2>7, <2>8
  <1>6. CASE Reconciliation
    <2>1. UNCHANGED <<storeVars, commits>>
      BY <1>6 DEF Reconciliation, ReconcileWait, ReconcileRead, apply_reconciliation
    <2>2. At("create")' \subseteq At("create")
      BY <1>6, ReconciliationStages
    <2> QED  BY <2>1, <2>2, ApprovalsIdle, StoreUnchangedGrantsNothing
  <1>7. ASSUME NEW c \in Case, Expire(c)
        PROVE  ApprovalToken'
    <2>1. NothingGranted
      BY <1>7, <1>a, SetStatusGrantsNothing, StoreUnchangedGrantsNothing DEF Expire
    <2> QED  BY <1>7, <2>1, ApprovalsIdle DEF Expire, At
  <1>8. ASSUME NEW s \in PollSlot, PollStart(s) \/ PollFuture(s)
        PROVE  ApprovalToken'
    <2>1. UNCHANGED <<commits, tasks>>
      BY <1>8 DEF PollStart, PollFuture, PollQuery, PollPersistOk, PollPersistFails, PollDone
    <2>2. CASE PollPersistOk(s)
      <3>1. poll[s].at \in Case /\ poll[s].verdict # "approved"
        BY <2>2 DEF PollPersistOk, TypeOK, Poll
      <3>2. NothingGranted
        BY <1>a, <2>2, <3>1, SetStatusGrantsNothing DEF PollPersistOk
      <3> QED  BY <2>1, <3>2, ApprovalsIdle DEF At
    <2>3. CASE UNCHANGED storeVars
      BY <1>b, <2>1, <2>3
    <2> QED  BY <1>8, <2>2, <2>3 DEF PollStart, PollFuture, PollQuery, PollPersistFails, PollDone
  <1>9. CASE ForumAnswers
    BY <1>9, <1>b DEF ForumAnswers
  <1>10. ASSUME NEW n \in DOMAIN prs, NEW state \in {"merged", "closed"}, GitSettles(n, state)
         PROVE  ApprovalToken'
    <2>1. UNCHANGED <<storeVars, tasks, commits>>
      BY <1>10 DEF GitSettles, Settle
    <2> QED  BY <2>1, <1>b
  <1>11. ASSUME NEW c \in Case, NEW l \in Local, NEW o \in Outcome, RestDecision(c, l, o)
         PROVE  ApprovalToken'
    <2>1. At("create")' \subseteq At("create") /\ UNCHANGED commits
      BY <1>11 DEF RestDecision, At
    <2> QED  BY <1>11, <2>1, FreshDecision DEF RestDecision
  <1>12. CASE Tick
    BY <1>12, <1>b DEF Tick
  <1>13. CASE Crash
    <2>1. At("create")' \subseteq At("create")
      BY <1>13 DEF Crash, At
    <2> QED  BY <1>13, <2>1, ApprovalsIdle, StoreUnchangedGrantsNothing DEF Crash
  <1>14. CASE UNCHANGED vars
    BY <1>14, <1>b DEF vars
  <1> QED
    BY <1>1, <1>2, <1>3, <1>4, <1>5, <1>6, <1>7, <1>8, <1>9, <1>10, <1>11, <1>12, <1>13,
       <1>14 DEF Next

LEMMA ApprovalInit == Init => ApprovalToken
  <1> SUFFICES ASSUME Init PROVE ApprovalToken
    OBVIOUS
  <1>1. DOMAIN commits = {} /\ At("create") = {}
    BY DEF Init, GitHubInit, At
  <1>2. \A c \in Case : db[c].status # "approved"
    BY DEF Init, StoreInit, NoRow
  <1> QED  BY <1>1, <1>2 DEF ApprovalToken, TokenOnRow, TokenInTask, AppliedOnce

(* Whatever the interleaving of futures, REST decisions, repeated triggers  *)
(* and crashes, every draft pushed stands under a recorded approval of its  *)
(* own case, and under one that no other draft stands under.                *)
THEOREM AppliesOnce == Spec => []AppliedOnce
  <1> DEFINE I == TypeOK /\ AnswerFlow /\ ApprovalToken
  <1>1. I /\ [Next]_vars => I'
    BY TypeStep, AnswerStep, ApprovalStep
  <1>2. Init => I
    BY TypeInit, AnswerInit, ApprovalInit
  <1>3. I => AppliedOnce
    BY DEF ApprovalToken
  <1> QED  BY <1>1, <1>2, <1>3, PTL DEF Spec

=============================================================================
