---------------------------- MODULE ElevationProofs ----------------------------
(***************************************************************************)
(* The safety properties of ElevationActor hold for every set of cases,    *)
(* spellings, requests, outcomes and faults, any number of crashes and of  *)
(* futures that open cases or poll at the same time.                       *)
(***************************************************************************)
EXTENDS ElevationInvariant, GovernanceLemmas

USE DEF NoSource, Boot, githubVars

-----------------------------------------------------------------------------
(* Types, and what the moves of a future do to the others.                  *)

LEMMA IdleTypes ==
    /\ IdleOpening \in Opening
    /\ NotTracked \in [Case -> Nat]
    /\ IdlePoll \in Poll
    /\ BootRecon \in Recon
  <1>1. IdleOpening \in Opening
    BY DEF IdleOpening, Opening
  <1>2. NotTracked \in [Case -> Nat]
    BY DEF NotTracked
  <1>3. IdlePoll \in Poll
    BY <1>2 DEF IdlePoll, Poll
  <1>4. BootRecon \in Recon
    BY DEF BootRecon, Recon
  <1> QED  BY <1>1, <1>2, <1>3, <1>4

LEMMA OpenGotoEffect ==
    ASSUME opening \in [OpenSlot -> Opening], NEW s \in OpenSlot, NEW o \in Opening,
           OpenGoto(s, o)
    PROVE  /\ opening' \in [OpenSlot -> Opening]
           /\ opening'[s] \in {IdleOpening, o}
           /\ \A r \in OpenSlot : r # s => opening'[r] = opening[r]
  <1>1. PICK p \in {IdleOpening, o} : opening' = [opening EXCEPT ![s] = p]
    BY DEF OpenGoto
  <1>2. p \in Opening
    BY <1>1, IdleTypes
  <1> QED  BY <1>1, <1>2

LEMMA PollGotoEffect ==
    ASSUME poll \in [PollSlot -> Poll], NEW s \in PollSlot, NEW p \in Poll, PollGoto(s, p)
    PROVE  /\ poll' \in [PollSlot -> Poll]
           /\ poll'[s] \in {IdlePoll, p}
           /\ \A r \in PollSlot : r # s => poll'[r] = poll[r]
  <1>1. PICK q \in {IdlePoll, p} : poll' = [poll EXCEPT ![s] = q]
    BY DEF PollGoto
  <1>2. q \in Poll
    BY <1>1, IdleTypes
  <1> QED  BY <1>1, <1>2

(* The record a future goes on as.                                          *)
LEMMA TaskMoved ==
    ASSUME NEW t \in Task, NEW pc \in TaskPc, NEW n \in Nat
    PROVE  /\ [t EXCEPT !.pc = pc] \in Task
           /\ [t EXCEPT !.pc = pc].pc = pc
           /\ \A f \in {"case", "src", "outcome", "pr"} : [t EXCEPT !.pc = pc][f] = t[f]
           /\ [t EXCEPT !.pc = pc, !.pr = n] \in Task
           /\ [t EXCEPT !.pc = pc, !.pr = n].pc = pc
           /\ [t EXCEPT !.pc = pc, !.pr = n].pr = n
           /\ \A f \in {"case", "src", "outcome"} : [t EXCEPT !.pc = pc, !.pr = n][f] = t[f]
  BY DEF Task

LEMMA NewTaskType ==
    ASSUME NEW m \in CaseDecision
    PROVE  NewTask(m) \in Task
  BY DEF CaseDecision, NewTask, Task, TaskPc

(* A future about an answer goes on about the same answer, or ends.         *)
Continues(t, u) ==
    u \in Task /\ u.case = t.case /\ u.src = t.src /\ u.outcome = t.outcome

LEMMA TaskContinues ==
    ASSUME TypeOK, NEW t \in tasks, TaskFuture(t)
    PROVE  \/ tasks' = tasks \ {t}
           \/ \E u : /\ tasks' = (tasks \ {t}) \cup {u}
                    /\ Continues(t, u)
                    /\ \/ t.pc = "gate" /\ u.pc = "create"
                       \/ t.pc = "create" /\ u.pc = "open"
                       \/ t.pc = "open" /\ u.pc \in {"find", "map"}
                       \/ t.pc = "find" /\ u.pc = "map"
  <1>a. t \in Task /\ prs \in Seq(Pr)
    BY DEF TypeOK, GitHubTypeOK
  <1>1. CASE TaskEnd(t)
    BY <1>1 DEF TaskEnd
  <1>2. ASSUME NEW pc \in TaskPc, TaskGoto(t, pc)
        PROVE  \E u : tasks' = (tasks \ {t}) \cup {u} /\ Continues(t, u) /\ u.pc = pc
    <2> DEFINE u == [t EXCEPT !.pc = pc]
    <2>1. Continues(t, u) /\ u.pc = pc
      BY <1>a, TaskMoved DEF Continues, Task
    <2> QED  BY <1>2, <2>1 DEF TaskGoto
  <1>3. ASSUME NEW n \in Nat, TaskTracks(t, n)
        PROVE  \E u : tasks' = (tasks \ {t}) \cup {u} /\ Continues(t, u) /\ u.pc = "map"
    <2> DEFINE u == [t EXCEPT !.pc = "map", !.pr = n]
    <2>1. Continues(t, u) /\ u.pc = "map"
      BY <1>a, TaskMoved DEF Continues, Task, TaskPc
    <2> QED  BY <1>3, <2>1 DEF TaskTracks
  <1>4. Len(prs) + 1 \in Nat /\ DOMAIN prs \subseteq Nat
    BY <1>a, LenProperties
  <1>5. {"create", "open", "find"} \subseteq TaskPc /\ OpenPrs \subseteq Nat
    BY <1>4 DEF TaskPc, OpenPrs
  <1> QED
    BY <1>1, <1>2, <1>3, <1>4, <1>5 DEF TaskFuture, TaskRecord, TaskPass, TaskBlock,
      TaskCreateRef, TaskOpenPr, TaskFindPr, TaskMap

(* The store stays well formed through everything a future writes to it.    *)
LEMMA StoreCalls ==
    ASSUME StoreTypeOK, NEW c \in Case
    PROVE  /\ UNCHANGED storeVars => StoreTypeOK'
           /\ \A s \in Status : set_status(c, s) => StoreTypeOK'
           /\ \A s \in Request \cup Local, o \in Outcome : Recorded(c, s, o) => StoreTypeOK'
           /\ NotRecorded(c) => StoreTypeOK'
  <1>1. UNCHANGED storeVars => StoreTypeOK'
    BY DEF StoreTypeOK, storeVars
  <1>2. \A s \in Status : set_status(c, s) => StoreTypeOK'
    BY SetStatusType
  <1>3. \A s \in Request \cup Local, o \in Outcome : Recorded(c, s, o) => StoreTypeOK'
    BY RecordType DEF Recorded
  <1> QED  BY <1>1, <1>2, <1>3 DEF NotRecorded

(* Every action keeps the type invariant.                                   *)
LEMMA TypeStep == TypeOK /\ [Next]_vars => TypeOK'
  <1> SUFFICES ASSUME TypeOK, [Next]_vars PROVE TypeOK'
    OBVIOUS
  <1> USE DEF TypeOK, GitHubTypeOK
  <1>a. UNCHANGED acspVars => AcspTypeOK'
    BY DEF AcspTypeOK, acspVars
  <1>b. UNCHANGED storeVars => StoreTypeOK'
    BY DEF StoreTypeOK, storeVars
  <1>1. CASE Connect
    BY <1>1, <1>b DEF Connect, connect, memVars, envVars, AcspTypeOK, Recon
  <1>2. CASE Subscribe
    BY <1>2, <1>b DEF Subscribe, subscribe, memVars, futureVars, envVars, AcspTypeOK
  <1>3. CASE ReconcileRead
    <2>1. recon' \in Recon
      <3> DEFINE resumed == {c \in OpenRows : ~Stale(db[c])}
                 expired == {c \in OpenRows : Stale(db[c])}
      <3>1. resumed \in SUBSET Case /\ expired \in SUBSET Case
        BY DEF OpenRows
      <3> HIDE DEF resumed, expired
      <3>2. [pc |-> "expire", resumed |-> resumed, expired |-> expired] \in Recon
        BY <3>1 DEF Recon
      <3>3. [recon EXCEPT !.pc = "expire"] \in Recon
        BY DEF Recon
      <3> QED  BY <1>3, <3>2, <3>3 DEF ReconcileRead, resumed, expired
    <2> QED  BY <1>3, <1>a, <1>b, <2>1 DEF ReconcileRead, memVars, envVars
  <1>4. CASE ReconcileMap
    <2>1. recon' \in Recon /\ recon.resumed \subseteq Case
      BY <1>4 DEF ReconcileMap, Recon
    <2>2. seen' \subseteq Label
      BY <1>4, <2>1, ElevationAssumption DEF ReconcileMap, Label
    <2> QED  BY <1>4, <1>a, <1>b, <2>1, <2>2 DEF ReconcileMap, envVars
  <1>5. ASSUME NEW c \in Case, ReconcileExpire(c)
        PROVE  TypeOK'
    <2>1. recon' \in Recon
      BY <1>5 DEF ReconcileExpire, Recon
    <2>2. StoreTypeOK'
      BY <1>5, StoreCalls DEF ReconcileExpire, Status, Terminal
    <2> QED  BY <1>5, <1>a, <2>1, <2>2 DEF ReconcileExpire, memVars, envVars
  <1>6. ASSUME NEW s \in OpenSlot, NEW labels \in SUBSET Label, OpenFor(s, labels)
        PROVE  TypeOK'
    <2>1. [IdleOpening EXCEPT !.busy = TRUE, !.todo = labels] \in Opening
      BY IdleTypes DEF Opening
    <2>2. opening' \in [OpenSlot -> Opening]
      BY <1>6, <2>1, OpenGotoEffect DEF OpenFor
    <2> QED  BY <1>6, <1>a, <1>b, <2>2 DEF OpenFor, memVars, envVars
  <1>7. ASSUME NEW s \in OpenSlot, NEW l \in opening[s].todo, NEW r \in Request,
               OpenPublish(s, l, r)
        PROVE  TypeOK'
    <2>1. opening[s] \in Opening /\ l \in Label
      BY DEF Opening
    <2>2. /\ [opening[s] EXCEPT !.todo = @ \ {l}, !.at = l] \in Opening
          /\ [opening[s] EXCEPT !.todo = @ \ {l}] \in Opening
      BY <2>1 DEF Opening
    <2>3. opening' \in [OpenSlot -> Opening]
      BY <1>7, <2>2, OpenGotoEffect DEF OpenPublish
    <2>4. AcspTypeOK'
      <3>1. case_id(l) \in Case
        BY <2>1 DEF case_id, Label
      <3>2. [req |-> r, case |-> case_id(l)] \in Signed
        BY <3>1 DEF Signed
      <3>3. \E b \in BOOLEAN : publish_request(r, case_id(l), b)
        BY <1>7 DEF OpenPublish
      <3> QED  BY <3>2, <3>3 DEF publish_request, AcspTypeOK
    <2> QED  BY <1>7, <1>b, <2>3, <2>4 DEF OpenPublish, memVars, envVars
  <1>8. ASSUME NEW s \in OpenSlot, OpenPersist(s)
        PROVE  TypeOK'
    <2> DEFINE l == opening[s].at
               o == [opening[s] EXCEPT !.at = NoLabel, !.opened = @ \cup {l}]
    <2>1. opening[s] \in Opening /\ l \in Label
      BY <1>8 DEF Opening, OpenPersist
    <2>2. o \in Opening
      BY <2>1 DEF Opening
    <2>3. opening' \in [OpenSlot -> Opening]
      BY <1>8, <2>2, OpenGotoEffect DEF OpenPersist
    <2>4. StoreTypeOK'
      <3>1. case_id(l) \in Case
        BY <2>1 DEF case_id, Label
      <3>2. db[case_id(l)].opened \in Nat
        BY <3>1, RowType DEF Row
      <3>3. pending_proposal(case_id(l)) \in Row
        BY <3>2 DEF pending_proposal, Row, Status
      <3> QED  BY <1>8, <1>b, <3>1, <3>3, CreateOrUpdateType DEF OpenPersist
    <2> QED  BY <1>8, <1>a, <2>3, <2>4 DEF OpenPersist, memVars, envVars
  <1>9. ASSUME NEW s \in OpenSlot, OpenMap(s)
        PROVE  TypeOK'
    <2>1. opening[s].opened \subseteq Label
      BY DEF Opening
    <2>2. {case_id(l) : l \in opening[s].opened} \subseteq Case
      BY <2>1 DEF case_id, Label
    <2>3. opening' \in [OpenSlot -> Opening]
      BY <1>9, IdleTypes, OpenGotoEffect DEF OpenMap
    <2> QED  BY <1>9, <1>a, <1>b, <2>1, <2>2, <2>3 DEF OpenMap, envVars
  <1>10. ASSUME NEW m \in mailbox, HandleDecision(m)
         PROVE  TypeOK'
    <2>1. NewTask(m) \in Task
      BY NewTaskType DEF AcspTypeOK
    <2> QED  BY <1>10, <1>b, <2>1 DEF HandleDecision, AcspTypeOK, envVars
  <1>11. ASSUME NEW t \in tasks, TaskFuture(t)
         PROVE  TypeOK'
    <2>1. tasks' \subseteq Task
      BY <1>11, TaskContinues DEF Continues
    <2>2. /\ t \in Task /\ t.case \in Case /\ t.src \in Request /\ t.outcome \in Outcome
          /\ t.pr \in Nat
      BY DEF Task
    <2>3. StoreTypeOK'
      <3>1. "reject" \in Outcome
        BY ElevationAssumption
      <3> QED
        BY <1>11, <1>b, <2>2, <3>1, StoreCalls DEF TaskFuture, TaskRecord, TaskPass, TaskBlock,
          TaskCreateRef, TaskOpenPr, TaskFindPr, TaskMap
    <2>4. commits' \in Seq(Draft) /\ prs' \in Seq(Pr)
      <3>1. create_ref(t.case, t.src) => commits' \in Seq(Draft) /\ prs' \in Seq(Pr)
        BY <2>2, CreateRefEffect
      <3>2. create_pull_request(t.case) => commits' \in Seq(Draft) /\ prs' \in Seq(Pr)
        BY <2>2, CreatePrEffect
      <3>3. \A n : get_existing_pr_url(n, t.case) => commits' \in Seq(Draft) /\ prs' \in Seq(Pr)
        BY <2>2, FindPrEffect
      <3> QED
        BY <1>11, <3>1, <3>2, <3>3 DEF TaskFuture, TaskRecord, TaskPass, TaskBlock,
          TaskCreateRef, TaskOpenPr, TaskFindPr, TaskMap
    <2>5. elevating' \in [Case -> Nat] /\ refused' \subseteq Request
      BY <1>11, <2>2 DEF TaskFuture, TaskRecord, TaskPass, TaskBlock, TaskCreateRef,
           TaskOpenPr, TaskFindPr, TaskMap, memVars, envVars
    <2>6. UNCHANGED <<acspVars, pending, seen, recon, opening, poll, now, crashes>>
      BY <1>11 DEF TaskFuture, TaskRecord, TaskPass, TaskBlock, TaskCreateRef,
           TaskOpenPr, TaskFindPr, TaskMap, memVars, envVars
    <2> QED  BY <1>a, <2>1, <2>3, <2>4, <2>5, <2>6
  <1>12. ASSUME NEW s \in PollSlot, PollStart(s)
         PROVE  TypeOK'
    <2>1. [IdlePoll EXCEPT !.busy = TRUE, !.left = elevating] \in Poll
      BY IdleTypes DEF Poll
    <2>2. poll' \in [PollSlot -> Poll]
      BY <1>12, <2>1, PollGotoEffect DEF PollStart
    <2> QED  BY <1>12, <1>a, <1>b, <2>2 DEF PollStart, memVars, envVars
  <1>13. ASSUME NEW s \in PollSlot, NEW c \in Case, PollQuery(s, c)
         PROVE  TypeOK'
    <2> DEFINE left == [poll[s].left EXCEPT ![c] = 0]
               v == terminal_for_pr_state(prs[poll[s].left[c]].state)
    <2>1. poll[s] \in Poll /\ left \in [Case -> Nat] /\ v \in {"elevated", "abandoned"}
      BY DEF Poll, terminal_for_pr_state
    <2>2. /\ [poll[s] EXCEPT !.left = left] \in Poll
          /\ [poll[s] EXCEPT !.left = left, !.at = c, !.verdict = v] \in Poll
      BY <2>1 DEF Poll
    <2>3. poll' \in [PollSlot -> Poll]
      BY <1>13, <2>2, PollGotoEffect DEF PollQuery
    <2> QED  BY <1>13, <1>a, <1>b, <2>3 DEF PollQuery, memVars, envVars
  <1>14. ASSUME NEW s \in PollSlot, PollPersist(s)
         PROVE  TypeOK'
    <2> DEFINE p == [poll[s] EXCEPT !.at = NoCase, !.verdict = "elevated",
                                    !.resolved = @ \cup {poll[s].at}]
    <2>1. poll[s] \in Poll /\ poll[s].at \in Case /\ poll[s].verdict \in Status
      BY <1>14 DEF Poll, PollPersist, Status, Terminal
    <2>2. p \in Poll
      BY <2>1 DEF Poll
    <2>3. poll' \in [PollSlot -> Poll]
      BY <1>14, <2>2, PollGotoEffect DEF PollPersist
    <2>4. StoreTypeOK'
      BY <1>14, <2>1, StoreCalls DEF PollPersist
    <2> QED  BY <1>14, <1>a, <2>3, <2>4 DEF PollPersist, memVars, envVars
  <1>15. ASSUME NEW s \in PollSlot, PollDone(s)
         PROVE  TypeOK'
    <2>1. poll' \in [PollSlot -> Poll]
      BY <1>15, IdleTypes, PollGotoEffect DEF PollDone
    <2>2. elevating' \in [Case -> Nat]
      BY <1>15 DEF PollDone
    <2> QED  BY <1>15, <1>a, <1>b, <2>1, <2>2 DEF PollDone, envVars
  <1>16. CASE ForumAnswers
    <2>1. PICK r \in Request, o \in Outcome : Dispatch(r, o)
      BY <1>16 DEF ForumAnswers
    <2>2. AcspTypeOK'
      <3>1. PICK j \in journal :
               mailbox' = mailbox \cup {[case |-> j.case, src |-> r, outcome |-> o]}
        BY <2>1 DEF Dispatch
      <3>2. [case |-> j.case, src |-> r, outcome |-> o] \in CaseDecision
        BY DEF AcspTypeOK, Signed, CaseDecision
      <3> QED  BY <2>1, <3>1, <3>2 DEF Dispatch, AcspTypeOK
    <2> QED  BY <1>16, <1>b, <2>2 DEF ForumAnswers, memVars, futureVars, envVars
  <1>17. ASSUME NEW n \in DOMAIN prs, NEW state \in {"merged", "closed"}, GitSettles(n, state)
         PROVE  TypeOK'
    <2>1. prs' \in Seq(Pr) /\ commits' = commits
      BY <1>17, SettleEffect DEF GitSettles
    <2> QED  BY <1>17, <1>a, <1>b, <2>1 DEF GitSettles, memVars, futureVars, envVars
  <1>18. ASSUME NEW c \in Case, NEW l \in Local, NEW o \in Outcome, RestDecision(c, l, o)
         PROVE  TypeOK'
    BY <1>18, <1>a, StoreCalls DEF RestDecision, memVars, futureVars, envVars
  <1>19. CASE Tick
    BY <1>19, <1>a, <1>b DEF Tick, memVars, futureVars
  <1>20. CASE Crash
    <2>1. AcspTypeOK'
      BY <1>20 DEF Crash, AcspBoot, AcspTypeOK
    <2>2. /\ elevating' \in [Case -> Nat] /\ recon' \in Recon
          /\ opening' \in [OpenSlot -> Opening] /\ poll' \in [PollSlot -> Poll]
      BY <1>20, IdleTypes DEF Crash
    <2>3. /\ pending' = {} /\ seen' = {} /\ tasks' = {} /\ crashes' = crashes + 1
          /\ UNCHANGED <<storeVars, githubVars, refused, now>>
      BY <1>20 DEF Crash
    <2> QED  BY <1>b, <2>1, <2>2, <2>3
  <1>21. CASE UNCHANGED vars
    BY <1>21, <1>a, <1>b DEF vars, memVars, futureVars, envVars
  <1>22. ASSUME NEW s \in OpenSlot,
                \/ \E labels \in SUBSET (Case \X GraphSpelling) : RunCycle(s, labels)
                \/ \E l \in Label : VoiceTranscript(s, l)
         PROVE  TypeOK'
    <2>1. SUBSET (Case \X GraphSpelling) \subseteq SUBSET Label
      BY ElevationAssumption DEF Label
    <2> QED  BY <1>6, <1>22, <2>1 DEF RunCycle, VoiceTranscript
  <1> QED
    BY <1>1, <1>2, <1>3, <1>4, <1>5, <1>7, <1>8, <1>9, <1>10, <1>11, <1>12, <1>13, <1>14,
       <1>15, <1>16, <1>17, <1>18, <1>19, <1>20, <1>21, <1>22
       DEF Next, Reconciliation, OpenFuture, PollFuture

LEMMA TypeInit == Init => TypeOK
  <1> SUFFICES ASSUME Init PROVE TypeOK
    OBVIOUS
  <1>1. StoreTypeOK
    BY DEF Init, StoreInit, StoreTypeOK, NoRow, Row, Status
  <1>2. AcspTypeOK
    BY DEF Init, AcspInit, AcspTypeOK
  <1>3. GitHubTypeOK
    BY EmptySeq DEF Init, GitHubInit, GitHubTypeOK
  <1> QED  BY <1>1, <1>2, <1>3, IdleTypes DEF Init, TypeOK

(* Every variable of the elevation actor keeps its type.                    *)
THEOREM ElevationTypeCorrect == Spec => []TypeOK
  BY TypeInit, TypeStep, PTL DEF Spec

-----------------------------------------------------------------------------
(* One draft per approval.                                                  *)

AnswerPc == {"record", "gate", "create"}

(* The journal only grows: it is never written but by a publish and a claim.*)
JournalGrows == journal \subseteq journal' /\ dispatched \subseteq dispatched'

LEMMA HandedOnKept ==
    ASSUME JournalGrows, NEW r, NEW c, HandedOn(r, c)
    PROVE  HandedOn(r, c)'
  BY DEF JournalGrows, HandedOn, SignedFor

(* A step that hands no answer on: futures may end, or one go on about its  *)
(* answer without coming before its draft again.                            *)
AnswersUntouched ==
    /\ JournalGrows
    /\ mailbox' \subseteq mailbox
    /\ commits' = commits
    /\ \/ tasks' \subseteq tasks
       \/ \E t \in tasks : \E u :
             /\ tasks' = (tasks \ {t}) \cup {u}
             /\ Continues(t, u)
             /\ u.pc \in AnswerPc => t.pc \in AnswerPc

LEMMA AnswersFrame == AnswerFlow /\ AnswersUntouched => AnswerFlow'
  <1> SUFFICES ASSUME AnswerFlow, AnswersUntouched PROVE AnswerFlow'
    OBVIOUS
  <1> USE DEF AnswerFlow, AnswersUntouched, AnswerPc
  <1>1. \A r, c : HandedOn(r, c) => HandedOn(r, c)'
    BY HandedOnKept
  <1>2. OneDraftPerApproval'
    BY DEF OneDraftPerApproval, JournalGrows
  <1>3. CASE tasks' \subseteq tasks
    <2>1. Undrafted' \subseteq Undrafted
      BY <1>3 DEF Undrafted
    <2>2. AnswerInMailbox'
      BY <1>1, <2>1 DEF AnswerInMailbox
    <2>3. AnswerInTask'
      BY <1>1, <1>3, <2>1 DEF AnswerInTask
    <2> QED  BY <1>2, <2>2, <2>3
  <1>4. ASSUME NEW t \in tasks, NEW u, tasks' = (tasks \ {t}) \cup {u}, Continues(t, u),
               u.pc \in AnswerPc => t.pc \in AnswerPc
        PROVE  AnswerFlow'
    <2>1. \A v \in Undrafted' : (v \in Undrafted /\ v # t) \/ (v = u /\ t \in Undrafted)
      BY <1>4 DEF Undrafted
    <2>2. u.src = t.src /\ u.case = t.case
      BY <1>4 DEF Continues
    <2>3. AnswerInMailbox'
      BY <1>1, <2>1, <2>2 DEF AnswerInMailbox
    <2>4. \A v \in tasks' : HandedOn(v.src, v.case)'
      BY <1>1, <1>4, <2>2 DEF AnswerInTask
    <2>5. \A v \in Undrafted' :
             /\ \A w \in Undrafted' : w.src = v.src => w = v
             /\ \A i \in DOMAIN commits' : commits'[i].by # v.src
      BY <2>1, <2>2 DEF AnswerInTask
    <2>6. AnswerInTask'
      BY <2>4, <2>5 DEF AnswerInTask
    <2> QED  BY <1>2, <2>3, <2>6
  <1> QED  BY <1>3, <1>4

(* The actor takes an answer out of its mailbox, for a future or for none.  *)
LEMMA AnswerTaken ==
    ASSUME TypeOK, AnswerFlow, NEW m \in mailbox, HandleDecision(m)
    PROVE  AnswerFlow'
  <1> USE DEF AnswerFlow
  <1>1. /\ mailbox' = mailbox \ {m} /\ UNCHANGED <<journal, dispatched, commits>>
        /\ tasks' \in {tasks, tasks \cup {NewTask(m)}}
    BY DEF HandleDecision
  <1>2. NewTask(m).src = m.src /\ NewTask(m).case = m.case
    BY DEF NewTask
  <1>3. HandedOn(m.src, m.case) /\ \A r, c : HandedOn(r, c) => HandedOn(r, c)'
    BY <1>1 DEF AnswerInMailbox, HandedOn, SignedFor
  <1>4. \A v \in Undrafted' : v \in Undrafted \/ v = NewTask(m)
    BY <1>1 DEF Undrafted
  <1>5. AnswerInMailbox'
    BY <1>1, <1>2, <1>3, <1>4 DEF AnswerInMailbox
  <1>6. \A v \in tasks' : HandedOn(v.src, v.case)'
    BY <1>1, <1>2, <1>3 DEF AnswerInTask
  <1>7. \A v \in Undrafted' :
           /\ \A w \in Undrafted' : w.src = v.src => w = v
           /\ \A i \in DOMAIN commits' : commits'[i].by # v.src
    BY <1>1, <1>2, <1>4 DEF AnswerInTask, AnswerInMailbox
  <1>8. AnswerInTask'
    BY <1>6, <1>7 DEF AnswerInTask
  <1>9. OneDraftPerApproval'
    BY <1>1 DEF OneDraftPerApproval
  <1> QED  BY <1>5, <1>8, <1>9

(* The subscription hands an answer on, once its request is claimed.        *)
LEMMA AnswerHandedOn ==
    ASSUME TypeOK, AnswerFlow, ForumAnswers
    PROVE  AnswerFlow'
  <1> USE DEF AnswerFlow
  <1>1. PICK r \in Request, o \in Outcome : Dispatch(r, o)
    BY DEF ForumAnswers
  <1>2. UNCHANGED <<commits, tasks, journal>>
    BY <1>1 DEF ForumAnswers, futureVars, Dispatch
  <1>3. PICK j \in journal :
           j.req = r /\ mailbox' = mailbox \cup {[case |-> j.case, src |-> r, outcome |-> o]}
    BY <1>1 DEF Dispatch
  <1> DEFINE m == [case |-> j.case, src |-> r, outcome |-> o]
  <1>4. m.src = r /\ m.case = j.case /\ mailbox' = mailbox \cup {m}
    BY <1>3
  <1>5. r \notin dispatched /\ dispatched' = dispatched \cup {r}
    BY <1>1 DEF Dispatch
  <1>6. j = [req |-> r, case |-> j.case]
    BY <1>3 DEF TypeOK, AcspTypeOK, Signed
  <1> HIDE DEF m
  <1>7. HandedOn(m.src, m.case)' /\ \A q, c : HandedOn(q, c) => HandedOn(q, c)'
    BY <1>2, <1>4, <1>5, <1>6 DEF HandedOn, SignedFor
  <1>8. Undrafted' = Undrafted
    BY <1>2 DEF Undrafted
  <1>9. /\ \A n \in mailbox : n.src # r
        /\ \A t \in tasks : t.src # r
        /\ \A i \in DOMAIN commits : commits[i].by # r
    BY <1>5 DEF AnswerInMailbox, AnswerInTask, OneDraftPerApproval, HandedOn
  <1>10. AnswerInMailbox'
    BY <1>2, <1>4, <1>7, <1>8, <1>9 DEF AnswerInMailbox, Undrafted
  <1>11. AnswerInTask'
    BY <1>2, <1>7, <1>8 DEF AnswerInTask
  <1>12. OneDraftPerApproval'
    BY <1>2, <1>5 DEF OneDraftPerApproval
  <1> QED  BY <1>10, <1>11, <1>12

(* A future pushes its draft, and is then past it or over.                  *)
LEMMA AnswerDrafted ==
    ASSUME TypeOK, AnswerFlow, NEW t \in tasks, t.pc = "create", create_ref(t.case, t.src),
           TaskGoto(t, "open") \/ TaskEnd(t), UNCHANGED acspVars
    PROVE  AnswerFlow'
  <1> USE DEF AnswerFlow
  <1>a. t \in Task /\ commits \in Seq(Draft)
    BY DEF TypeOK, GitHubTypeOK
  <1>1. /\ DOMAIN commits = 1..Len(commits)
        /\ DOMAIN commits' = 1..(Len(commits) + 1)
        /\ Len(commits) \in Nat
        /\ \A i \in DOMAIN commits : commits'[i] = commits[i]
        /\ commits'[Len(commits) + 1].case = t.case
        /\ commits'[Len(commits) + 1].by = t.src
    BY <1>a, CreateRefEffect DEF Task
  <1>2. \A i \in DOMAIN commits' : i \in DOMAIN commits \/ i = Len(commits) + 1
    BY <1>1
  <1>3. t \in Undrafted /\ HandedOn(t.src, t.case)
    BY DEF Undrafted, AnswerInTask
  <1>4. \A r, c : HandedOn(r, c) => HandedOn(r, c)'
    BY DEF HandedOn, SignedFor, acspVars
  <1>5. \A v \in tasks' : (v \in tasks /\ v # t) \/ (v.pc = "open" /\ v.src = t.src /\ v.case = t.case)
    <2> DEFINE u == [t EXCEPT !.pc = "open"]
    <2>1. u.pc = "open" /\ u.src = t.src /\ u.case = t.case
      BY <1>a DEF Task
    <2>2. tasks' = tasks \ {t} \/ tasks' = (tasks \ {t}) \cup {u}
      BY DEF TaskGoto, TaskEnd
    <2> HIDE DEF u
    <2> QED  BY <2>1, <2>2
  <1>6. \A v \in Undrafted' : v \in Undrafted /\ v # t
    BY <1>5 DEF Undrafted
  <1>7. AnswerInMailbox'
    BY <1>1, <1>2, <1>3, <1>4, <1>6 DEF AnswerInMailbox, acspVars
  <1>8. \A v \in tasks' : HandedOn(v.src, v.case)'
    BY <1>3, <1>4, <1>5 DEF AnswerInTask
  <1>9. \A v \in Undrafted' :
           /\ \A w \in Undrafted' : w.src = v.src => w = v
           /\ \A i \in DOMAIN commits' : commits'[i].by # v.src
    BY <1>1, <1>2, <1>3, <1>6 DEF AnswerInTask
  <1>10. AnswerInTask'
    BY <1>8, <1>9 DEF AnswerInTask
  <1>11. OneDraftPerApproval'
    <2>1. \A i \in DOMAIN commits : commits[i].by # t.src
      BY <1>3 DEF AnswerInTask
    <2>2. \A i \in DOMAIN commits' :
             /\ commits'[i].by \in dispatched
             /\ [req |-> commits'[i].by, case |-> commits'[i].case] \in journal
      BY <1>1, <1>2, <1>3 DEF OneDraftPerApproval, HandedOn, SignedFor
    <2>3. \A i, j \in DOMAIN commits' : commits'[j].by = commits'[i].by => i = j
      BY <1>1, <1>2, <2>1 DEF OneDraftPerApproval
    <2> QED  BY <2>2, <2>3 DEF OneDraftPerApproval, acspVars
  <1> QED  BY <1>7, <1>10, <1>11

(* Every action keeps the answers apart.                                    *)
LEMMA AnswerStep == TypeOK /\ AnswerFlow /\ [Next]_vars => AnswerFlow'
  <1> SUFFICES ASSUME TypeOK, AnswerFlow, [Next]_vars PROVE AnswerFlow'
    OBVIOUS
  <1> USE DEF acspVars, memVars, futureVars, envVars
  <1>a. UNCHANGED <<journal, dispatched, mailbox, commits, tasks>> => AnswerFlow'
    BY AnswersFrame DEF AnswersUntouched, JournalGrows
  <1>1. CASE Connect \/ Subscribe
    BY <1>1, <1>a DEF Connect, Subscribe, connect, subscribe
  <1>2. CASE Reconciliation
    BY <1>2, <1>a DEF Reconciliation, ReconcileRead, ReconcileExpire, ReconcileMap
  <1>3. ASSUME NEW s \in OpenSlot,
               \/ \E labels \in SUBSET (Case \X GraphSpelling) : RunCycle(s, labels)
               \/ \E l \in Label : VoiceTranscript(s, l)
        PROVE  AnswerFlow'
    BY <1>3, <1>a DEF RunCycle, VoiceTranscript, OpenFor
  <1>4. ASSUME NEW s \in OpenSlot, OpenFuture(s)
        PROVE  AnswerFlow'
    <2>1. CASE OpenPersist(s) \/ OpenMap(s)
      BY <2>1, <1>a DEF OpenPersist, OpenMap
    <2>2. ASSUME NEW l \in opening[s].todo, NEW r \in Request, OpenPublish(s, l, r)
          PROVE  AnswerFlow'
      BY <2>2, AnswersFrame DEF OpenPublish, publish_request, AnswersUntouched, JournalGrows
    <2> QED  BY <1>4, <2>1, <2>2 DEF OpenFuture
  <1>5. ASSUME NEW m \in mailbox, HandleDecision(m)
        PROVE  AnswerFlow'
    BY <1>5, AnswerTaken
  <1>6. ASSUME NEW t \in tasks, TaskFuture(t)
        PROVE  AnswerFlow'
    <2>1. CASE create_ref(t.case, t.src) /\ TaskCreateRef(t)
      BY <2>1, AnswerDrafted DEF TaskCreateRef, create_ref
    <2>2. ASSUME UNCHANGED commits
          PROVE  AnswerFlow'
      <3>1. UNCHANGED acspVars
        BY <1>6 DEF TaskFuture, TaskRecord, TaskPass, TaskBlock, TaskCreateRef, TaskOpenPr,
             TaskFindPr, TaskMap
      <3>2. CASE tasks' = tasks \ {t}
        BY <2>2, <3>1, <3>2, AnswersFrame DEF AnswersUntouched, JournalGrows
      <3>3. ASSUME NEW u, tasks' = (tasks \ {t}) \cup {u}, Continues(t, u),
                   u.pc \in AnswerPc => t.pc \in AnswerPc
            PROVE  AnswerFlow'
        BY <2>2, <3>1, <3>3, AnswersFrame DEF AnswersUntouched, JournalGrows
      <3> QED  BY <1>6, <3>2, <3>3, TaskContinues DEF AnswerPc
    <2> QED
      BY <1>6, <2>1, <2>2 DEF TaskFuture, TaskRecord, TaskPass, TaskBlock, TaskCreateRef,
        TaskOpenPr, TaskFindPr, TaskMap, create_pull_request, get_existing_pr_url
  <1>7. ASSUME NEW s \in PollSlot, PollStart(s) \/ PollFuture(s)
        PROVE  AnswerFlow'
    BY <1>7, <1>a DEF PollStart, PollFuture, PollQuery, PollPersist, PollDone
  <1>8. CASE ForumAnswers
    BY <1>8, AnswerHandedOn
  <1>9. ASSUME NEW n \in DOMAIN prs, NEW state \in {"merged", "closed"}, GitSettles(n, state)
        PROVE  AnswerFlow'
    BY <1>9, <1>a DEF GitSettles, Settle
  <1>10. ASSUME NEW c \in Case, NEW l \in Local, NEW o \in Outcome, RestDecision(c, l, o)
         PROVE  AnswerFlow'
    BY <1>10, <1>a DEF RestDecision
  <1>11. CASE Tick \/ UNCHANGED vars
    BY <1>11, <1>a DEF Tick, vars
  <1>12. CASE Crash
    BY <1>12, AnswersFrame DEF Crash, AcspBoot, AnswersUntouched, JournalGrows
  <1> QED
    BY <1>1, <1>2, <1>3, <1>4, <1>5, <1>6, <1>7, <1>8, <1>9, <1>10, <1>11, <1>12 DEF Next

LEMMA AnswerInit == Init => AnswerFlow
  BY DEF Init, AcspInit, GitHubInit, AnswerFlow, AnswerInMailbox, AnswerInTask, Undrafted,
    OneDraftPerApproval

(* Every draft answers one request that was signed for its case, and no     *)
(* answer becomes two drafts, although the elevation actor claims nothing   *)
(* in the store (Handler<Decision>, approve_with_gate).                     *)
THEOREM OneDraftEach == Spec => []OneDraftPerApproval
  <1>1. TypeOK /\ AnswerFlow /\ [Next]_vars => (TypeOK /\ AnswerFlow)'
    BY TypeStep, AnswerStep
  <1>2. TypeOK /\ AnswerFlow => OneDraftPerApproval
    BY DEF AnswerFlow
  <1> QED  BY TypeInit, AnswerInit, <1>1, <1>2, PTL DEF Spec

-----------------------------------------------------------------------------
(* The approval behind a draft is on record, or was refused.                *)

TaskBacked(t) ==
    /\ t.pc # "record" => t.outcome = "approve"
    /\ t.pc = "create" => Backed(t.src, t.case)

(* What is recorded stays; what is new is about the case that was asked.    *)
RecordsGrow ==
    /\ JournalGrows
    /\ OneCasePerRequest'
    /\ decided \subseteq decided'
    /\ refused \subseteq refused'
    /\ \A d \in decided' : d \in decided \/ (d.src \in Request => SignedFor(d.src, d.case))

LEMMA RecordsFrame ==
    ASSUME RecordFlow, RecordsGrow,
           \A t \in tasks' : t \in tasks \/ TaskBacked(t)',
           \A i \in DOMAIN commits' :
              \/ i \in DOMAIN commits /\ commits'[i] = commits[i]
              \/ Backed(commits'[i].by, commits'[i].case)
    PROVE  RecordFlow'
  <1>1. \A r, c : Backed(r, c) => Backed(r, c)'
    BY DEF RecordsGrow, Backed
  <1>2. \A d \in decided' : d.src \in Request => SignedFor(d.src, d.case)'
    BY DEF RecordFlow, RecordsGrow, JournalGrows, SignedFor
  <1>3. \A t \in tasks' : TaskBacked(t)'
    BY <1>1 DEF RecordFlow, TaskBacked
  <1>4. DraftIsRecorded'
    <2>1. \A i \in DOMAIN commits' : Backed(commits'[i].by, commits'[i].case)
      BY DEF RecordFlow, DraftIsRecorded, Backed
    <2> QED  BY <2>1 DEF DraftIsRecorded, Backed, RecordsGrow
  <1> QED  BY <1>2, <1>3, <1>4 DEF RecordFlow, RecordsGrow, TaskBacked

(* After record_decision the decision is on record, under this case or, as  *)
(* a redelivery, under the one it was first recorded for.                   *)
LEMMA RecordEffect ==
    ASSUME NEW c, NEW s, NEW o, record_decision(c, s, o)
    PROVE  /\ decided \subseteq decided'
           /\ \A d \in decided' : d \in decided \/ (d.src = s /\ d.case = c)
           /\ \/ [case |-> c, src |-> s, outcome |-> o] \in decided'
              \/ s \in Request /\ \E d \in decided : d.src = s /\ d.outcome = o
  <1> DEFINE row == [case |-> c, src |-> s, outcome |-> o]
  <1>1. row.src = s /\ row.case = c
    OBVIOUS
  <1>2. CASE Redelivered(s, o) /\ UNCHANGED storeVars
    BY <1>2 DEF Redelivered, storeVars
  <1>3. CASE decided' = decided \cup {row}
    <2> HIDE DEF row
    <2>1. row \in decided'
      BY <1>3
    <2>2. decided \subseteq decided' /\ \A d \in decided' : d \in decided \/ (d.src = s /\ d.case = c)
      BY <1>1, <1>3
    <2> QED  BY <2>1, <2>2 DEF row
  <1> QED  BY <1>2, <1>3 DEF record_decision

(* What is recorded under a local name is about no request.                 *)
LEMMA LocalRecord ==
    ASSUME RecordFlow, NEW c, NEW l \in Local, NEW o,
           Recorded(c, l, o) \/ UNCHANGED storeVars,
           UNCHANGED <<journal, dispatched, refused>>
    PROVE  RecordsGrow
  <1>1. OneCasePerRequest' /\ JournalGrows
    BY DEF RecordFlow, OneCasePerRequest, JournalGrows
  <1>2. l \notin Request
    BY SourceAssumption
  <1>3. CASE Recorded(c, l, o)
    BY <1>1, <1>2, <1>3, RecordEffect DEF Recorded, RecordsGrow
  <1>4. CASE UNCHANGED storeVars
    BY <1>1, <1>4 DEF storeVars, RecordsGrow
  <1> QED  BY <1>3, <1>4

(* The gate clears a draft: the approval is recorded, or refused, before    *)
(* the future goes on.                                                      *)
LEMMA ApprovalRecorded ==
    ASSUME TypeOK, AnswerFlow, RecordFlow, NEW t \in tasks, TaskPass(t)
    PROVE  RecordFlow'
  <1> DEFINE u == [t EXCEPT !.pc = "create"]
  <1>a. /\ t \in Task /\ t.pc = "gate" /\ t.outcome = "approve" /\ SignedFor(t.src, t.case)
        /\ tasks' = (tasks \ {t}) \cup {u}
    BY DEF TypeOK, TaskPass, TaskGoto, RecordFlow, AnswerFlow, AnswerInTask, HandedOn
  <1>1. u.src = t.src /\ u.case = t.case /\ u.outcome = t.outcome /\ u.pc = "create"
    BY <1>a DEF Task
  <1> HIDE DEF u
  <1>2. UNCHANGED <<journal, dispatched, commits>>
    BY DEF TaskPass, acspVars
  <1>3. OneCasePerRequest' /\ JournalGrows
    BY <1>2 DEF RecordFlow, OneCasePerRequest, JournalGrows
  <1>4. CASE Recorded(t.case, t.src, t.outcome) /\ UNCHANGED refused
    <2>1. record_decision(t.case, t.src, "approve")
      BY <1>4, <1>a DEF Recorded
    <2>2. /\ decided \subseteq decided'
          /\ \A d \in decided' : d \in decided \/ (d.src = t.src /\ d.case = t.case)
          /\ \/ [case |-> t.case, src |-> t.src, outcome |-> "approve"] \in decided'
             \/ \E d \in decided : d.src = t.src /\ d.outcome = "approve"
      BY <2>1, RecordEffect
    <2>3. RecordsGrow
      BY <1>3, <1>4, <1>a, <2>2 DEF RecordsGrow
    <2>4. Backed(t.src, t.case)'
      <3>1. ASSUME NEW d \in decided, d.src = t.src, d.outcome = "approve"
            PROVE  d = [case |-> t.case, src |-> t.src, outcome |-> "approve"]
        <4>1. d \in DecisionRow /\ t.src \in Request
          BY <1>a DEF TypeOK, StoreTypeOK, Task
        <4>2. SignedFor(t.src, d.case)
          BY <3>1, <4>1 DEF RecordFlow
        <4>3. [req |-> t.src, case |-> d.case] = [req |-> t.src, case |-> t.case]
          BY <1>a, <4>2 DEF RecordFlow, OneCasePerRequest, SignedFor
        <4>4. d.case = t.case
          BY <4>3
        <4> QED  BY <3>1, <4>1, <4>4 DEF DecisionRow
      <3> QED  BY <2>2, <3>1 DEF Backed
    <2>5. TaskBacked(u)'
      BY <1>1, <1>a, <2>4 DEF TaskBacked
    <2> QED  BY <1>2, <1>a, <2>3, <2>5, RecordsFrame
  <1>5. CASE NotRecorded(t.case) /\ refused' = refused \cup {t.src}
    <2>1. RecordsGrow
      BY <1>3, <1>5 DEF RecordsGrow, NotRecorded, storeVars
    <2>2. TaskBacked(u)'
      BY <1>1, <1>5, <1>a DEF TaskBacked, Backed
    <2> QED  BY <1>2, <1>a, <2>1, <2>2, RecordsFrame
  <1> QED  BY <1>4, <1>5 DEF TaskPass

(* Every action keeps the approvals behind drafts.                          *)
LEMMA RecordStep == TypeOK /\ AnswerFlow /\ RecordFlow /\ [Next]_vars => RecordFlow'
  <1> SUFFICES ASSUME TypeOK, AnswerFlow, RecordFlow, [Next]_vars PROVE RecordFlow'
    OBVIOUS
  <1> USE DEF acspVars, memVars, futureVars, envVars
  <1>a. ASSUME UNCHANGED <<journal, decided, refused>>, JournalGrows
        PROVE  RecordsGrow
    BY <1>a DEF RecordFlow, RecordsGrow, OneCasePerRequest
  <1>b. ASSUME UNCHANGED commits, tasks' \subseteq tasks, RecordsGrow
        PROVE  RecordFlow'
    BY <1>b, RecordsFrame
  <1>c. UNCHANGED <<journal, dispatched, storeVars, refused, commits, tasks>> => RecordFlow'
    BY <1>a, <1>b DEF storeVars, JournalGrows
  <1>d. \A c : NotRecorded(c) => UNCHANGED storeVars
    BY DEF NotRecorded
  <1>1. CASE Connect \/ Subscribe
    BY <1>1, <1>c DEF Connect, Subscribe, connect, subscribe
  <1>2. CASE Reconciliation
    <2>1. UNCHANGED <<journal, dispatched, decided, refused, commits, tasks>>
      BY <1>2 DEF Reconciliation, ReconcileRead, ReconcileExpire, ReconcileMap, storeVars,
           set_status
    <2> QED  BY <1>a, <1>b, <2>1 DEF JournalGrows
  <1>3. ASSUME NEW s \in OpenSlot,
               \/ \E labels \in SUBSET (Case \X GraphSpelling) : RunCycle(s, labels)
               \/ \E l \in Label : VoiceTranscript(s, l)
        PROVE  RecordFlow'
    BY <1>3, <1>c DEF RunCycle, VoiceTranscript, OpenFor
  <1>4. ASSUME NEW s \in OpenSlot, OpenFuture(s)
        PROVE  RecordFlow'
    <2>1. CASE OpenPersist(s) \/ OpenMap(s)
      <3>1. UNCHANGED <<journal, dispatched, decided, refused, commits, tasks>>
        BY <2>1 DEF OpenPersist, OpenMap, storeVars, create_or_update
      <3> QED  BY <1>a, <1>b, <3>1 DEF JournalGrows
    <2>2. ASSUME NEW l \in opening[s].todo, NEW r \in Request, OpenPublish(s, l, r)
          PROVE  RecordFlow'
      <3>1. /\ Fresh(r) /\ journal' = journal \cup {[req |-> r, case |-> case_id(l)]}
            /\ UNCHANGED <<dispatched, decided, refused, commits, tasks>>
        BY <2>2 DEF OpenPublish, publish_request, storeVars
      <3>2. OneCasePerRequest'
        BY <3>1 DEF Fresh, RecordFlow, OneCasePerRequest
      <3>3. RecordsGrow
        BY <3>1, <3>2 DEF RecordsGrow, JournalGrows
      <3> QED  BY <1>b, <3>1, <3>3
    <2> QED  BY <1>4, <2>1, <2>2 DEF OpenFuture
  <1>5. ASSUME NEW m \in mailbox, HandleDecision(m)
        PROVE  RecordFlow'
    <2>1. RecordsGrow
      BY <1>5, <1>a DEF HandleDecision, storeVars, JournalGrows
    <2>2. TaskBacked(NewTask(m))'
      BY DEF TaskBacked, NewTask
    <2>3. tasks' \subseteq tasks \cup {NewTask(m)} /\ commits' = commits
      BY <1>5 DEF HandleDecision
    <2> QED  BY <2>1, <2>2, <2>3, RecordsFrame
  <1>6. ASSUME NEW t \in tasks, TaskFuture(t)
        PROVE  RecordFlow'
    <2>a. t \in Task /\ t.case \in Case /\ t.src \in Request /\ SignedFor(t.src, t.case)
      BY DEF TypeOK, Task, AnswerFlow, AnswerInTask, HandedOn
    <2>1. CASE TaskRecord(t)
      <3>1. /\ UNCHANGED <<journal, dispatched, refused, commits>> /\ tasks' \subseteq tasks
            /\ Recorded(t.case, t.src, t.outcome) \/ UNCHANGED storeVars
        BY <1>d, <2>1 DEF TaskRecord, TaskEnd
      <3>2. RecordsGrow
        <4>1. CASE UNCHANGED storeVars
          BY <1>a, <3>1, <4>1 DEF storeVars, JournalGrows
        <4>2. CASE Recorded(t.case, t.src, t.outcome)
          <5>1. /\ decided \subseteq decided'
                /\ \A d \in decided' : d \in decided \/ (d.src = t.src /\ d.case = t.case)
            BY <4>2, RecordEffect DEF Recorded
          <5> QED  BY <2>a, <3>1, <5>1
                     DEF RecordsGrow, JournalGrows, RecordFlow, OneCasePerRequest
        <4> QED  BY <3>1, <4>1, <4>2
      <3> QED  BY <1>b, <3>1, <3>2
    <2>2. CASE TaskPass(t)
      BY <2>2, ApprovalRecorded
    <2>3. ASSUME NEW l \in Local, TaskBlock(t, l)
          PROVE  RecordFlow'
      <3>1. /\ UNCHANGED <<journal, dispatched, refused, commits>> /\ tasks' \subseteq tasks
            /\ Recorded(t.case, l, "reject") \/ UNCHANGED storeVars
        BY <1>d, <2>3 DEF TaskBlock, TaskEnd
      <3> QED  BY <1>b, <3>1, LocalRecord
    <2>4. CASE TaskCreateRef(t) \/ TaskOpenPr(t) \/ TaskFindPr(t) \/ TaskMap(t)
      <3>1. UNCHANGED <<journal, dispatched, storeVars, refused>> /\ t.pc \notin {"record", "gate"}
        BY <2>4 DEF TaskCreateRef, TaskOpenPr, TaskFindPr, TaskMap
      <3>2. RecordsGrow
        BY <1>a, <3>1 DEF storeVars, JournalGrows
      <3>3. \A v \in tasks' : v \in tasks \/ (v.pc \notin {"record", "gate", "create"} /\ v.outcome = t.outcome)
        BY <1>6, <3>1, TaskContinues DEF Continues
      <3>4. \A v \in tasks' : v \in tasks \/ TaskBacked(v)'
        BY <3>1, <3>3 DEF TaskBacked, RecordFlow
      <3>5. CASE TaskCreateRef(t) /\ create_ref(t.case, t.src)
        <4>1. Backed(t.src, t.case)
          BY <3>5 DEF TaskCreateRef, RecordFlow
        <4>2. /\ DOMAIN commits = 1..Len(commits)
              /\ DOMAIN commits' = 1..(Len(commits) + 1)
              /\ Len(commits) \in Nat
              /\ \A i \in DOMAIN commits : commits'[i] = commits[i]
              /\ commits'[Len(commits) + 1].case = t.case
              /\ commits'[Len(commits) + 1].by = t.src
          BY <2>a, <3>5, CreateRefEffect DEF TypeOK, GitHubTypeOK
        <4>3. \A i \in DOMAIN commits' : i \in DOMAIN commits \/ i = Len(commits) + 1
          BY <4>2
        <4> QED  BY <3>2, <3>4, <4>1, <4>2, <4>3, RecordsFrame
      <3>6. CASE UNCHANGED commits
        BY <3>2, <3>4, <3>6, RecordsFrame
      <3> QED  BY <2>4, <3>5, <3>6 DEF TaskCreateRef, TaskOpenPr, TaskFindPr, TaskMap,
                 create_pull_request, get_existing_pr_url
    <2> QED  BY <1>6, <2>1, <2>2, <2>3, <2>4 DEF TaskFuture
  <1>7. ASSUME NEW s \in PollSlot, PollStart(s) \/ PollFuture(s)
        PROVE  RecordFlow'
    <2>1. UNCHANGED <<journal, dispatched, decided, refused, commits, tasks>>
      BY <1>7 DEF PollStart, PollFuture, PollQuery, PollPersist, PollDone, storeVars, set_status
    <2> QED  BY <1>a, <1>b, <2>1 DEF JournalGrows
  <1>8. CASE ForumAnswers
    <2>1. UNCHANGED <<journal, decided, refused, commits, tasks>> /\ dispatched \subseteq dispatched'
      BY <1>8 DEF ForumAnswers, Dispatch, storeVars
    <2> QED  BY <1>a, <1>b, <2>1 DEF JournalGrows
  <1>9. ASSUME NEW n \in DOMAIN prs, NEW state \in {"merged", "closed"}, GitSettles(n, state)
        PROVE  RecordFlow'
    BY <1>9, <1>c DEF GitSettles, Settle
  <1>10. ASSUME NEW c \in Case, NEW l \in Local, NEW o \in Outcome, RestDecision(c, l, o)
         PROVE  RecordFlow'
    BY <1>10, <1>b, LocalRecord DEF RestDecision
  <1>11. CASE Tick \/ UNCHANGED vars
    BY <1>11, <1>c DEF Tick, vars
  <1>12. CASE Crash
    BY <1>12, <1>a, <1>b DEF Crash, AcspBoot, JournalGrows, storeVars
  <1> QED
    BY <1>1, <1>2, <1>3, <1>4, <1>5, <1>6, <1>7, <1>8, <1>9, <1>10, <1>11, <1>12 DEF Next

LEMMA RecordInit == Init => RecordFlow
  <1> SUFFICES ASSUME Init PROVE RecordFlow
    OBVIOUS
  <1>1. decided = {} /\ journal = {} /\ tasks = {} /\ commits = << >>
    BY DEF Init, StoreInit, AcspInit, GitHubInit
  <1>2. DraftIsRecorded
    BY <1>1 DEF DraftIsRecorded
  <1> QED  BY <1>1, <1>2 DEF RecordFlow, OneCasePerRequest

(* The approval behind a draft is on record before the draft is pushed,     *)
(* unless the store refused it (approve_with_gate).                         *)
THEOREM DraftsAreRecorded == Spec => []DraftIsRecorded
  <1> DEFINE I == TypeOK /\ AnswerFlow /\ RecordFlow
  <1>1. Init => I
    BY TypeInit, AnswerInit, RecordInit
  <1>2. I /\ [Next]_vars => I'
    BY TypeStep, AnswerStep, RecordStep
  <1>3. I => DraftIsRecorded
    BY DEF RecordFlow
  <1> HIDE DEF I
  <1> QED  BY <1>1, <1>2, <1>3, PTL DEF Spec

-----------------------------------------------------------------------------
(* PR numbers and git verdicts.                                             *)

(* GitHub only grows, whatever step is taken.                               *)
LEMMA RepoGrowsStep == TypeOK /\ [Next]_vars => RepoGrows
  <1> SUFFICES ASSUME TypeOK, [Next]_vars PROVE RepoGrows
    OBVIOUS
  <1>a. GitHubTypeOK
    BY DEF TypeOK
  <1>1. CASE UNCHANGED githubVars
    BY <1>1 DEF RepoGrows
  <1>2. ASSUME NEW t \in tasks, TaskFuture(t)
        PROVE  RepoGrows
    <2>1. t.case \in Case /\ t.src \in Request \cup Local \cup {NoSource}
      BY DEF TypeOK, Task
    <2>2. \/ UNCHANGED githubVars \/ create_ref(t.case, t.src) \/ create_pull_request(t.case)
          \/ \E n \in OpenPrs : get_existing_pr_url(n, t.case)
      BY <1>2 DEF TaskFuture, TaskRecord, TaskPass, TaskBlock, TaskCreateRef, TaskOpenPr,
           TaskFindPr, TaskMap
    <2> QED  BY <1>1, <1>a, <2>1, <2>2, EveryCallGrows
  <1>3. ASSUME NEW n \in DOMAIN prs, NEW state \in {"merged", "closed"}, GitSettles(n, state)
        PROVE  RepoGrows
    BY <1>a, <1>3, SettlingGrows DEF GitSettles
  <1>4. CASE Connect \/ Subscribe \/ Reconciliation \/ ForumAnswers
    BY <1>1, <1>4 DEF Connect, Subscribe, Reconciliation, ReconcileRead, ReconcileExpire,
         ReconcileMap, ForumAnswers
  <1>5. ASSUME NEW s \in OpenSlot,
               \/ \E labels \in SUBSET (Case \X GraphSpelling) : RunCycle(s, labels)
               \/ \E l \in Label : VoiceTranscript(s, l)
               \/ OpenFuture(s)
        PROVE  RepoGrows
    BY <1>1, <1>5 DEF RunCycle, VoiceTranscript, OpenFor, OpenFuture, OpenPublish, OpenPersist,
         OpenMap
  <1>6. ASSUME NEW m \in mailbox, HandleDecision(m)
        PROVE  RepoGrows
    BY <1>1, <1>6 DEF HandleDecision
  <1>7. ASSUME NEW s \in PollSlot, PollStart(s) \/ PollFuture(s)
        PROVE  RepoGrows
    BY <1>1, <1>7 DEF PollStart, PollFuture, PollQuery, PollPersist, PollDone
  <1>8. ASSUME NEW c \in Case, NEW l \in Local, NEW o \in Outcome, RestDecision(c, l, o)
        PROVE  RepoGrows
    BY <1>1, <1>8 DEF RestDecision
  <1>9. CASE Tick \/ Crash \/ UNCHANGED vars
    BY <1>1, <1>9 DEF Tick, Crash, vars
  <1> QED
    BY <1>2, <1>3, <1>4, <1>5, <1>6, <1>7, <1>8, <1>9 DEF Next

LEMMA VerdictKept ==
    ASSUME RepoGrows, NEW c, NEW s, GitVerdict(c, s)
    PROVE  GitVerdict(c, s)'
  BY SettledKept DEF GitVerdict

(* A poll asks about the PRs that were tracked when it began and forgets    *)
(* each as it goes; what it finds settled is what git says.                 *)
LEMMA PollMoves ==
    ASSUME TypeOK, PrNumbers, NEW s \in PollSlot, PollStart(s) \/ PollFuture(s)
    PROVE  /\ \A r \in PollSlot, c \in Case :
                 poll'[r].left[c] \in {poll[r].left[c], elevating[c], 0}
           /\ \A r \in PollSlot :
                 \/ poll'[r] = poll[r]
                 \/ poll'[r].at = NoCase
                 \/ GitVerdict(poll'[r].at, poll'[r].verdict)
  <1>a. poll \in [PollSlot -> Poll] /\ poll[s] \in Poll /\ elevating \in [Case -> Nat]
    BY DEF TypeOK
  <1>b. IdlePoll.at = NoCase /\ \A c \in Case : IdlePoll.left[c] = 0
    BY DEF IdlePoll, NotTracked
  <1>c. ASSUME NEW p \in Poll, PollGoto(s, p),
               \A c \in Case : p.left[c] \in {poll[s].left[c], elevating[c], 0},
               p.at = NoCase \/ GitVerdict(p.at, p.verdict)
        PROVE  /\ \A r \in PollSlot, c \in Case :
                     poll'[r].left[c] \in {poll[r].left[c], elevating[c], 0}
               /\ \A r \in PollSlot :
                     \/ poll'[r] = poll[r]
                     \/ poll'[r].at = NoCase
                     \/ GitVerdict(poll'[r].at, poll'[r].verdict)
    <2>1. poll'[s] \in {IdlePoll, p} /\ \A r \in PollSlot : r # s => poll'[r] = poll[r]
      BY <1>a, <1>c, PollGotoEffect
    <2> QED  BY <1>b, <1>c, <2>1
  <1>1. CASE PollStart(s)
    <2> DEFINE p == [IdlePoll EXCEPT !.busy = TRUE, !.left = elevating]
    <2>1. p \in Poll /\ p.left = elevating /\ p.at = NoCase
      BY <1>a, <1>b, IdleTypes DEF Poll
    <2>2. PollGoto(s, p)
      BY <1>1 DEF PollStart
    <2> HIDE DEF p
    <2> QED  BY <1>c, <2>1, <2>2
  <1>2. ASSUME NEW c \in Case, PollQuery(s, c)
        PROVE  /\ \A r \in PollSlot, b \in Case :
                     poll'[r].left[b] \in {poll[r].left[b], elevating[b], 0}
               /\ \A r \in PollSlot :
                     \/ poll'[r] = poll[r]
                     \/ poll'[r].at = NoCase
                     \/ GitVerdict(poll'[r].at, poll'[r].verdict)
    <2> DEFINE n == poll[s].left[c]
               left == [poll[s].left EXCEPT ![c] = 0]
               v == terminal_for_pr_state(prs[n].state)
               p == [poll[s] EXCEPT !.left = left]
               q == [poll[s] EXCEPT !.left = left, !.at = c, !.verdict = v]
    <2>1. /\ left \in [Case -> Nat] /\ v \in {"elevated", "abandoned"}
          /\ \A b \in Case : left[b] \in {poll[s].left[b], 0}
          /\ n \in Nat /\ n # 0 /\ poll[s].at = NoCase
      BY <1>2, <1>a DEF Poll, terminal_for_pr_state, PollQuery
    <2>2. PollGoto(s, p) \/ (prs[n].state # "open" /\ PollGoto(s, q))
      BY <1>2 DEF PollQuery
    <2>3. prs[n].state # "open" => GitVerdict(c, v)
      <3>1. n \in DOMAIN prs /\ c \in prs[n].cases
        BY <1>a, <2>1 DEF PrNumbers, PrOfCase
      <3>2. prs[n].state \in {"open", "merged", "closed"}
        BY <3>1, PrType DEF TypeOK, GitHubTypeOK, Pr, PrState
      <3> QED  BY <3>1, <3>2 DEF GitVerdict, Settled, terminal_for_pr_state
    <2> HIDE DEF n, left, v
    <2>4. p \in Poll /\ p.left = left /\ p.at = NoCase
      BY <1>a, <2>1 DEF Poll
    <2>5. q \in Poll /\ q.left = left /\ q.at = c /\ q.verdict = v
      BY <1>a, <2>1 DEF Poll
    <2> HIDE DEF p, q
    <2>6. CASE PollGoto(s, p)
      BY <1>c, <2>1, <2>4, <2>6
    <2>7. CASE prs[n].state # "open" /\ PollGoto(s, q)
      BY <1>c, <2>1, <2>3, <2>5, <2>7
    <2> QED  BY <2>2, <2>6, <2>7
  <1>3. CASE PollPersist(s)
    <2> DEFINE p == [poll[s] EXCEPT !.at = NoCase, !.verdict = "elevated",
                                    !.resolved = @ \cup {poll[s].at}]
    <2>1. p \in Poll /\ p.left = poll[s].left /\ p.at = NoCase
      BY <1>3, <1>a DEF PollPersist, Poll
    <2>2. PollGoto(s, p)
      BY <1>3 DEF PollPersist
    <2> HIDE DEF p
    <2> QED  BY <1>c, <2>1, <2>2
  <1>4. CASE PollDone(s)
    BY <1>4, <1>b, <1>c, IdleTypes DEF PollDone
  <1> QED  BY <1>1, <1>2, <1>3, <1>4 DEF PollFuture

LEMMA NumbersFrame ==
    ASSUME PrNumbers, RepoGrows,
           \A c \in Case : PrOfCase(elevating'[c], c),
           \A s \in PollSlot, c \in Case : poll'[s].left[c] \in {poll[s].left[c], elevating[c], 0},
           \A t \in tasks' : t \in tasks \/ PrOfCase(t.pr, t.case)'
    PROVE  PrNumbers'
  <1>1. \A n, c : PrOfCase(n, c) => PrOfCase(n, c)'
    BY NumberKept
  <1>2. \A t \in tasks' : PrOfCase(t.pr, t.case)'
    BY <1>1 DEF PrNumbers
  <1>3. \A s \in PollSlot, c \in Case : PrOfCase(poll'[s].left[c], c)
    BY DEF PrNumbers, PrOfCase
  <1>4. ASSUME NEW c \in Case
        PROVE  PrOfCase(elevating[c], c)' /\ \A s \in PollSlot : PrOfCase(poll[s].left[c], c)'
    BY <1>3 DEF PrOfCase, RepoGrows
  <1> QED  BY <1>2, <1>4 DEF PrNumbers

(* Every action keeps PR numbers right.                                     *)
LEMMA NumbersStep == TypeOK /\ PrNumbers /\ [Next]_vars => PrNumbers'
  <1> SUFFICES ASSUME TypeOK, PrNumbers, [Next]_vars PROVE PrNumbers'
    OBVIOUS
  <1> USE DEF memVars, futureVars, envVars
  <1>a. RepoGrows /\ (\A c : PrOfCase(0, c)) /\ \A c \in Case : PrOfCase(elevating[c], c)
    BY RepoGrowsStep DEF PrOfCase, PrNumbers
  <1>b. UNCHANGED <<elevating, poll, tasks>> => PrNumbers'
    BY <1>a, NumbersFrame
  <1>1. CASE Connect \/ Subscribe \/ Reconciliation \/ ForumAnswers \/ Tick \/ UNCHANGED vars
    BY <1>1, <1>b DEF Connect, Subscribe, Reconciliation, ReconcileRead, ReconcileExpire,
         ReconcileMap, ForumAnswers, Tick, vars
  <1>2. ASSUME NEW s \in OpenSlot,
               \/ \E labels \in SUBSET (Case \X GraphSpelling) : RunCycle(s, labels)
               \/ \E l \in Label : VoiceTranscript(s, l)
               \/ OpenFuture(s)
        PROVE  PrNumbers'
    BY <1>2, <1>b DEF RunCycle, VoiceTranscript, OpenFor, OpenFuture, OpenPublish, OpenPersist,
         OpenMap
  <1>3. ASSUME NEW m \in mailbox, HandleDecision(m)
        PROVE  PrNumbers'
    <2>1. PrOfCase(NewTask(m).pr, NewTask(m).case)'
      BY DEF NewTask, PrOfCase
    <2>2. tasks' \subseteq tasks \cup {NewTask(m)} /\ UNCHANGED <<elevating, poll>>
      BY <1>3 DEF HandleDecision
    <2> QED  BY <1>a, <2>1, <2>2, NumbersFrame
  <1>4. ASSUME NEW t \in tasks, TaskFuture(t)
        PROVE  PrNumbers'
    <2>a. /\ t \in Task /\ t.case \in Case /\ t.pr \in Nat /\ prs \in Seq(Pr)
          /\ PrOfCase(t.pr, t.case) /\ elevating \in [Case -> Nat]
      BY DEF TypeOK, GitHubTypeOK, Task, PrNumbers
    <2>b. poll' = poll /\ \A c \in Case : PrOfCase(elevating'[c], c)
      BY <1>4, <1>a, <2>a DEF TaskFuture, TaskRecord, TaskPass, TaskBlock, TaskCreateRef,
           TaskOpenPr, TaskFindPr, TaskMap
    <2>c. \A n, c : PrOfCase(n, c) => PrOfCase(n, c)'
      BY <1>a, NumberKept
    <2>1. CASE TaskEnd(t)
      BY <1>a, <2>1, <2>b, NumbersFrame DEF TaskEnd
    <2>2. ASSUME NEW pc, TaskGoto(t, pc)
          PROVE  PrNumbers'
      <3> DEFINE u == [t EXCEPT !.pc = pc]
      <3>1. u.pr = t.pr /\ u.case = t.case
        BY <2>a DEF Task
      <3>2. tasks' = (tasks \ {t}) \cup {u}
        BY <2>2 DEF TaskGoto
      <3> HIDE DEF u
      <3> QED  BY <1>a, <2>a, <2>b, <2>c, <3>1, <3>2, NumbersFrame
    <2>3. ASSUME NEW n, TaskTracks(t, n), PrOfCase(n, t.case)'
          PROVE  PrNumbers'
      <3> DEFINE u == [t EXCEPT !.pc = "map", !.pr = n]
      <3>1. u.pr = n /\ u.case = t.case
        BY <2>a DEF Task
      <3>2. tasks' = (tasks \ {t}) \cup {u}
        BY <2>3 DEF TaskTracks
      <3>3. \A v \in tasks' : v \in tasks \/ PrOfCase(v.pr, v.case)'
        BY <2>3, <3>1, <3>2
      <3> HIDE DEF u
      <3> QED  BY <1>a, <2>b, <3>3, NumbersFrame
    <2>4. ASSUME create_pull_request(t.case), NEW n, n = Len(prs) + 1
          PROVE  PrOfCase(n, t.case)'
      <3>1. /\ DOMAIN prs' = 1..(Len(prs) + 1) /\ Len(prs) \in Nat
            /\ prs'[Len(prs) + 1].cases = {t.case}
        BY <2>4, <2>a, CreatePrEffect
      <3> QED  BY <2>4, <3>1, NextIndex DEF PrOfCase
    <2>5. \A n : get_existing_pr_url(n, t.case) => PrOfCase(n, t.case)'
      BY <2>a, FindPrEffect DEF PrOfCase
    <2> QED
      BY <1>4, <2>1, <2>2, <2>3, <2>4, <2>5 DEF TaskFuture, TaskRecord, TaskPass, TaskBlock,
        TaskCreateRef, TaskOpenPr, TaskFindPr, TaskMap
  <1>5. ASSUME NEW s \in PollSlot, PollStart(s) \/ PollFuture(s)
        PROVE  PrNumbers'
    <2>1. \A c \in Case : elevating'[c] \in {elevating[c], 0}
      BY <1>5 DEF PollStart, PollFuture, PollQuery, PollPersist, PollDone
    <2>2. tasks' = tasks
      BY <1>5 DEF PollStart, PollFuture, PollQuery, PollPersist, PollDone
    <2> QED  BY <1>5, <1>a, <2>1, <2>2, PollMoves, NumbersFrame
  <1>6. ASSUME NEW n \in DOMAIN prs, NEW state \in {"merged", "closed"}, GitSettles(n, state)
        PROVE  PrNumbers'
    BY <1>6, <1>b DEF GitSettles
  <1>7. ASSUME NEW c \in Case, NEW l \in Local, NEW o \in Outcome, RestDecision(c, l, o)
        PROVE  PrNumbers'
    BY <1>7, <1>b DEF RestDecision
  <1>8. CASE Crash
    <2>1. /\ tasks' = {} /\ \A c \in Case : elevating'[c] = 0
          /\ \A s \in PollSlot, c \in Case : poll'[s].left[c] = 0
      BY <1>8 DEF Crash, NotTracked, IdlePoll
    <2> QED  BY <1>a, <2>1, NumbersFrame
  <1> QED
    BY <1>1, <1>2, <1>3, <1>4, <1>5, <1>6, <1>7, <1>8 DEF Next

(* A status that says nothing of git needs no PR.                           *)
LEMMA NeutralStatus ==
    ASSUME NEW c, NEW s, s \notin {"elevated", "abandoned"}
    PROVE  GitVerdict(c, s)
  BY DEF GitVerdict

LEMMA VerdictsFrame ==
    ASSUME Verdicts, RepoGrows,
           \A c \in Case : db'[c].status = db[c].status \/ GitVerdict(c, db'[c].status),
           \A s \in PollSlot : \/ poll'[s] = poll[s]
                               \/ poll'[s].at = NoCase
                               \/ GitVerdict(poll'[s].at, poll'[s].verdict)
    PROVE  Verdicts'
  <1>1. \A c \in Case : GitVerdict(c, db'[c].status)
    BY DEF Verdicts
  <1>2. \A s \in PollSlot : poll'[s].at = NoCase \/ GitVerdict(poll'[s].at, poll'[s].verdict)
    BY DEF Verdicts
  <1>3. ASSUME NEW c \in Case
        PROVE  GitVerdict(c, db[c].status)'
    BY <1>1 DEF GitVerdict, Settled, RepoGrows
  <1>4. ASSUME NEW s \in PollSlot, poll'[s].at # NoCase
        PROVE  GitVerdict(poll[s].at, poll[s].verdict)'
    BY <1>2, <1>4 DEF GitVerdict, Settled, RepoGrows
  <1> QED  BY <1>3, <1>4 DEF Verdicts

(* What a future records over a case says nothing of git.                   *)
LEMMA RecordIsNeutral ==
    ASSUME StoreTypeOK, NEW c \in Case, NEW s, NEW o \in Outcome,
           Recorded(c, s, o) \/ UNCHANGED storeVars
    PROVE  \A b \in Case : db'[b].status = db[b].status \/ GitVerdict(b, db'[b].status)
  <1>1. CASE Recorded(c, s, o)
    BY <1>1, RecordedStatus, NeutralStatus DEF Recorded
  <1>2. CASE UNCHANGED storeVars
    BY <1>2 DEF storeVars
  <1> QED  BY <1>1, <1>2

(* Every action leaves statuses git agrees with.                            *)
LEMMA VerdictsStep == TypeOK /\ PrNumbers /\ Verdicts /\ [Next]_vars => Verdicts'
  <1> SUFFICES ASSUME TypeOK, PrNumbers, Verdicts, [Next]_vars PROVE Verdicts'
    OBVIOUS
  <1> USE DEF memVars, futureVars, envVars
  <1>a. RepoGrows /\ StoreTypeOK
    BY RepoGrowsStep DEF TypeOK
  <1>b. ASSUME poll' = poll,
               \A c \in Case : db'[c].status = db[c].status \/ GitVerdict(c, db'[c].status)
        PROVE  Verdicts'
    BY <1>a, <1>b, VerdictsFrame
  <1>c. UNCHANGED <<storeVars, poll>> => Verdicts'
    BY <1>b DEF storeVars
  <1>d. \A c : NotRecorded(c) => UNCHANGED storeVars
    BY DEF NotRecorded
  <1>1. CASE Connect \/ Subscribe \/ ReconcileRead \/ ReconcileMap \/ ForumAnswers \/ Tick
               \/ UNCHANGED vars
    BY <1>1, <1>c DEF Connect, Subscribe, ReconcileRead, ReconcileMap, ForumAnswers, Tick, vars
  <1>2. ASSUME NEW c \in Case, ReconcileExpire(c)
        PROVE  Verdicts'
    <2>1. UpdateStatus(c, "expired") \/ UNCHANGED storeVars
      BY <1>2 DEF ReconcileExpire, set_status
    <2>2. \A b \in Case : db'[b].status = db[b].status \/ db'[b].status = "expired"
      BY <1>a, <2>1, RowStatuses DEF storeVars
    <2> QED  BY <1>2, <1>b, <2>2, NeutralStatus DEF ReconcileExpire
  <1>3. ASSUME NEW s \in OpenSlot,
               \/ \E labels \in SUBSET (Case \X GraphSpelling) : RunCycle(s, labels)
               \/ \E l \in Label : VoiceTranscript(s, l)
        PROVE  Verdicts'
    BY <1>3, <1>c DEF RunCycle, VoiceTranscript, OpenFor
  <1>4. ASSUME NEW s \in OpenSlot, OpenFuture(s)
        PROVE  Verdicts'
    <2>1. CASE OpenMap(s) \/ \E l \in opening[s].todo, r \in Request : OpenPublish(s, l, r)
      BY <2>1, <1>c DEF OpenMap, OpenPublish
    <2>2. CASE OpenPersist(s)
      <3> DEFINE c == case_id(opening[s].at)
      <3>1. c \in Case
        BY <2>2 DEF TypeOK, Opening, OpenPersist, case_id, Label
      <3>2. create_or_update(c, pending_proposal(c)) \/ UNCHANGED storeVars
        BY <2>2 DEF OpenPersist
      <3>3. pending_proposal(c).status = "pending"
        BY DEF pending_proposal
      <3> HIDE DEF c
      <3>4. \A b \in Case : db'[b].status = db[b].status \/ db'[b].status = "pending"
        BY <1>a, <3>1, <3>2, <3>3, RowStatuses DEF storeVars
      <3> QED  BY <2>2, <1>b, <3>4, NeutralStatus DEF OpenPersist
    <2> QED  BY <1>4, <2>1, <2>2 DEF OpenFuture
  <1>5. ASSUME NEW m \in mailbox, HandleDecision(m)
        PROVE  Verdicts'
    BY <1>5, <1>c DEF HandleDecision
  <1>6. ASSUME NEW t \in tasks, TaskFuture(t)
        PROVE  Verdicts'
    <2>1. t.case \in Case /\ t.outcome \in Outcome /\ "reject" \in Outcome
      BY ElevationAssumption DEF TypeOK, Task
    <2>2. /\ poll' = poll
          /\ \/ UNCHANGED storeVars
             \/ Recorded(t.case, t.src, t.outcome)
             \/ \E l \in Local : Recorded(t.case, l, "reject")
      BY <1>6, <1>d DEF TaskFuture, TaskRecord, TaskPass, TaskBlock, TaskCreateRef, TaskOpenPr,
           TaskFindPr, TaskMap
    <2> QED  BY <1>a, <1>b, <1>c, <2>1, <2>2, RecordIsNeutral
  <1>7. ASSUME NEW s \in PollSlot, PollStart(s) \/ PollFuture(s)
        PROVE  Verdicts'
    <2>1. \A c \in Case : db'[c].status = db[c].status \/ GitVerdict(c, db'[c].status)
      <3>1. CASE UNCHANGED storeVars
        BY <3>1 DEF storeVars
      <3>2. CASE PollPersist(s) /\ set_status(poll[s].at, poll[s].verdict)
        <4>1. poll[s].at \in Case /\ GitVerdict(poll[s].at, poll[s].verdict)
          BY <3>2 DEF PollPersist, TypeOK, Poll, Verdicts
        <4> QED  BY <1>a, <3>2, <4>1, RowStatuses DEF set_status
      <3> QED  BY <1>7, <3>1, <3>2 DEF PollStart, PollFuture, PollQuery, PollPersist, PollDone
    <2> QED  BY <1>7, <1>a, <2>1, PollMoves, VerdictsFrame
  <1>8. ASSUME NEW n \in DOMAIN prs, NEW state \in {"merged", "closed"}, GitSettles(n, state)
        PROVE  Verdicts'
    BY <1>8, <1>c DEF GitSettles
  <1>9. ASSUME NEW c \in Case, NEW l \in Local, NEW o \in Outcome, RestDecision(c, l, o)
        PROVE  Verdicts'
    BY <1>9, <1>a, <1>b, RecordIsNeutral DEF RestDecision
  <1>10. CASE Crash
    <2>1. /\ \A s \in PollSlot : poll'[s].at = NoCase
          /\ \A c \in Case : db'[c].status = db[c].status
      BY <1>10 DEF Crash, IdlePoll, storeVars
    <2> QED  BY <1>a, <2>1, VerdictsFrame
  <1> QED
    BY <1>1, <1>2, <1>3, <1>4, <1>5, <1>6, <1>7, <1>8, <1>9, <1>10 DEF Next, Reconciliation

LEMMA GitInit == Init => PrNumbers /\ Verdicts
  <1> SUFFICES ASSUME Init PROVE PrNumbers /\ Verdicts
    OBVIOUS
  <1>1. /\ tasks = {} /\ \A c \in Case : elevating[c] = 0
        /\ \A s \in PollSlot : poll[s].at = NoCase /\ \A c \in Case : poll[s].left[c] = 0
    BY DEF Init, IdlePoll, NotTracked
  <1>2. \A c \in Case : db[c].status = "none"
    BY DEF Init, StoreInit, NoRow
  <1> QED  BY <1>1, <1>2, NeutralStatus DEF PrNumbers, Verdicts, PrOfCase

(* A terminal status of the merge poll is what git says of a PR of the      *)
(* case, however polls, REST decisions and openings overlap (PollPrs), and  *)
(* a tracked PR is one of the case.                                         *)
THEOREM StatusIsWhatGitSays == Spec => []ElevatedIsMerged
  <1> DEFINE I == TypeOK /\ PrNumbers /\ Verdicts
  <1>1. Init => I
    BY TypeInit, GitInit
  <1>2. I /\ [Next]_vars => I'
    BY TypeStep, NumbersStep, VerdictsStep
  <1>3. I => ElevatedIsMerged
    BY DEF PrNumbers, Verdicts, GitVerdict, Settled, PrOfCase, ElevatedIsMerged
  <1> HIDE DEF I
  <1> QED  BY <1>1, <1>2, <1>3, PTL DEF Spec

-----------------------------------------------------------------------------
(* Who awaits an answer is on the forum.                                    *)

(* The journal and the forum only grow: on the forum once, on it for good.  *)
ForumGrows == journal \subseteq journal' /\ forum \subseteq forum'

LEMMA OnForumKept ==
    ASSUME ForumGrows, NEW c, OnForum(c)
    PROVE  OnForum(c)'
  BY DEF ForumGrows, OnForum

(* A slot of OpenSlot holds cases that are on the forum.                    *)
SlotOnForum(o) ==
    /\ o.at # NoLabel => OnForum(case_id(o.at))
    /\ \A l \in o.opened : OnForum(case_id(l))

(* Each place keeps its cases or takes cases that are on the forum now.     *)
LEMMA ForumFrame ==
    ASSUME ForumFlow, ForumGrows,
           \A c \in Case : db'[c].status = "pending" => db[c].status = "pending" \/ OnForum(c)',
           \A c \in Case : c \in pending' => c \in pending \/ OnForum(c)',
           \A c \in recon'.resumed : c \in recon.resumed \/ OnForum(c)',
           \A s \in OpenSlot : opening'[s] = opening[s] \/ SlotOnForum(opening[s])'
    PROVE  ForumFlow'
  <1>1. \A c : OnForum(c) => OnForum(c)'
    BY OnForumKept
  <1>2. AwaitingIsOnForum'
    <2>1. \A c \in Case : db'[c].status = "pending" \/ c \in pending' => OnForum(c)'
      BY <1>1 DEF ForumFlow, AwaitingIsOnForum, OnForum
    <2> QED  BY <2>1 DEF AwaitingIsOnForum, OnForum
  <1>3. \A c \in recon'.resumed : OnForum(c)'
    BY <1>1 DEF ForumFlow
  <1>4. ASSUME NEW s \in OpenSlot
        PROVE  SlotOnForum(opening[s])'
    <2>1. SlotOnForum(opening[s])
      BY DEF ForumFlow, SlotOnForum
    <2>2. opening'[s] = opening[s] => SlotOnForum(opening[s])'
      BY <1>1, <2>1 DEF SlotOnForum, OnForum, ForumGrows
    <2> QED  BY <2>2
  <1> QED  BY <1>2, <1>3, <1>4 DEF ForumFlow, SlotOnForum

(* A future that opens cases goes on with slots it may hold.                *)
LEMMA SlotMoves ==
    ASSUME TypeOK, NEW s \in OpenSlot, NEW o \in Opening, OpenGoto(s, o), SlotOnForum(o)'
    PROVE  \A r \in OpenSlot : opening'[r] = opening[r] \/ SlotOnForum(opening[r])'
  <1>1. /\ opening'[s] \in {IdleOpening, o}
        /\ \A r \in OpenSlot : r # s => opening'[r] = opening[r]
    BY OpenGotoEffect DEF TypeOK
  <1>2. SlotOnForum(IdleOpening)'
    BY DEF SlotOnForum, IdleOpening
  <1>3. SlotOnForum(opening[s])'
    BY <1>1, <1>2 DEF SlotOnForum
  <1> QED  BY <1>1, <1>3

(* Every action keeps the cases that wait on the forum.                     *)
LEMMA ForumStep == TypeOK /\ ForumFlow /\ [Next]_vars => ForumFlow'
  <1> SUFFICES ASSUME TypeOK, ForumFlow, [Next]_vars PROVE ForumFlow'
    OBVIOUS
  <1> USE DEF acspVars, memVars, futureVars, envVars
  <1>a. StoreTypeOK
    BY DEF TypeOK
  <1>b. ASSUME ForumGrows, UNCHANGED <<recon, opening>>, pending' \subseteq pending,
               \A c \in Case : db'[c].status = "pending" => db[c].status = "pending"
        PROVE  ForumFlow'
    BY <1>b, ForumFrame
  <1>c. ForumGrows /\ UNCHANGED <<storeVars, pending, recon, opening>> => ForumFlow'
    BY <1>b DEF storeVars
  <1>d. \A c : NotRecorded(c) => UNCHANGED storeVars
    BY DEF NotRecorded
  <1>e. UNCHANGED <<journal, forum>> => ForumGrows
    BY DEF ForumGrows
  <1>f. ASSUME NEW c \in Case, NEW s, NEW o \in Outcome, Recorded(c, s, o)
        PROVE  \A b \in Case : db'[b].status = "pending" => db[b].status = "pending"
    BY <1>a, <1>f, RecordedStatus DEF Recorded
  <1>1. CASE Subscribe \/ ForumAnswers \/ Tick \/ UNCHANGED vars
    BY <1>1, <1>c, <1>e DEF Subscribe, subscribe, ForumAnswers, Dispatch, Tick, vars
  <1>2. CASE Connect
    <2>1. recon'.resumed = recon.resumed
      BY <1>2 DEF Connect, TypeOK, Recon
    <2> QED  BY <1>2, <1>e, <2>1, ForumFrame DEF Connect, connect, storeVars
  <1>3. CASE ReconcileRead
    <2>1. UNCHANGED <<journal, forum, storeVars, pending, opening>>
      BY <1>3 DEF ReconcileRead
    <2>2. \A c \in recon'.resumed : c \in recon.resumed \/ (db[c].status = "pending" /\ c \in Case)
      BY <1>3 DEF ReconcileRead, OpenRows, TypeOK, Recon
    <2>3. \A c \in recon'.resumed : c \in recon.resumed \/ OnForum(c)'
      BY <2>1, <2>2 DEF ForumFlow, AwaitingIsOnForum, OnForum
    <2> QED  BY <1>e, <2>1, <2>3, ForumFrame DEF storeVars
  <1>4. CASE ReconcileMap
    <2>1. UNCHANGED <<journal, forum, storeVars, opening>> /\ pending' = pending \cup recon.resumed
      BY <1>4 DEF ReconcileMap
    <2>2. recon'.resumed = {}
      BY <1>4 DEF ReconcileMap, TypeOK, Recon
    <2>3. \A c \in recon.resumed : OnForum(c)'
      BY <2>1 DEF ForumFlow, OnForum
    <2> QED  BY <1>e, <2>1, <2>2, <2>3, ForumFrame DEF storeVars
  <1>5. ASSUME NEW c \in Case, ReconcileExpire(c)
        PROVE  ForumFlow'
    <2>1. UNCHANGED <<journal, forum, pending, opening>> /\ recon'.resumed = recon.resumed
      BY <1>5 DEF ReconcileExpire, TypeOK, Recon
    <2>2. UpdateStatus(c, "expired") \/ UNCHANGED storeVars
      BY <1>5 DEF ReconcileExpire, set_status
    <2>3. \A b \in Case : db'[b].status = "pending" => db[b].status = "pending"
      BY <1>a, <2>2, RowStatuses DEF storeVars
    <2> QED  BY <1>e, <2>1, <2>3, ForumFrame
  <1>6. ASSUME NEW s \in OpenSlot, NEW labels \in SUBSET Label, OpenFor(s, labels)
        PROVE  ForumFlow'
    <2> DEFINE o == [IdleOpening EXCEPT !.busy = TRUE, !.todo = labels]
    <2>1. o \in Opening /\ o.at = NoLabel /\ o.opened = {}
      BY IdleTypes DEF Opening, IdleOpening
    <2>2. OpenGoto(s, o) /\ UNCHANGED <<journal, forum, storeVars, pending, recon>>
      BY <1>6 DEF OpenFor
    <2> HIDE DEF o
    <2>3. SlotOnForum(o)'
      BY <2>1 DEF SlotOnForum
    <2> QED  BY <1>e, <2>1, <2>2, <2>3, SlotMoves, ForumFrame DEF storeVars
  <1>7. ASSUME NEW s \in OpenSlot, NEW l \in opening[s].todo, NEW r \in Request,
               OpenPublish(s, l, r)
        PROVE  ForumFlow'
    <2>1. opening[s] \in Opening /\ l \in Label
      BY DEF TypeOK, Opening
    <2>2. PICK o, p :
             /\ o = [opening[s] EXCEPT !.todo = @ \ {l}, !.at = l]
             /\ p = [opening[s] EXCEPT !.todo = @ \ {l}]
      OBVIOUS
    <2>3. /\ o \in Opening /\ o.at = l /\ o.opened = opening[s].opened
          /\ p \in Opening /\ p.at = opening[s].at /\ p.opened = opening[s].opened
      BY <2>1, <2>2 DEF Opening
    <2>4. ForumGrows /\ UNCHANGED <<storeVars, pending, recon>>
      BY <1>7 DEF OpenPublish, publish_request, ForumGrows
    <2>5. \/ OpenGoto(s, o) /\ publish_request(r, case_id(l), TRUE)
          \/ OpenGoto(s, p)
      BY <1>7, <2>2 DEF OpenPublish
    <2>6. SlotOnForum(opening[s]) /\ \A c : OnForum(c) => OnForum(c)'
      BY <2>4, OnForumKept DEF ForumFlow, SlotOnForum
    <2>7. SlotOnForum(p)'
      BY <2>3, <2>6 DEF SlotOnForum
    <2>8. ASSUME publish_request(r, case_id(l), TRUE)
          PROVE  SlotOnForum(o)'
      <3>1. PICK c : c = case_id(l)
        OBVIOUS
      <3>2. OnForum(c)'
        <4>1. [req |-> r, case |-> c] \in journal' /\ r \in forum'
          BY <2>8, <3>1 DEF publish_request
        <4> QED  BY <4>1 DEF OnForum
      <3> QED  BY <2>3, <2>6, <3>1, <3>2 DEF SlotOnForum
    <2>9. \A q \in OpenSlot : opening'[q] = opening[q] \/ SlotOnForum(opening[q])'
      BY <2>3, <2>5, <2>7, <2>8, SlotMoves
    <2> QED  BY <2>4, <2>9, ForumFrame DEF storeVars
  <1>8. ASSUME NEW s \in OpenSlot, OpenPersist(s)
        PROVE  ForumFlow'
    <2>1. PICK l, o : /\ l = opening[s].at
                      /\ o = [opening[s] EXCEPT !.at = NoLabel, !.opened = @ \cup {l}]
      OBVIOUS
    <2>2. opening[s] \in Opening /\ l \in Label /\ l # NoLabel
      BY <1>8, <2>1 DEF TypeOK, Opening, OpenPersist
    <2>3. o \in Opening /\ o.at = NoLabel /\ o.opened = opening[s].opened \cup {l}
      BY <2>1, <2>2 DEF Opening
    <2>4. PICK c \in Case : c = case_id(l)
      BY <2>2 DEF case_id, Label
    <2>5. OnForum(c) /\ \A k \in opening[s].opened : OnForum(case_id(k))
      BY <2>1, <2>2, <2>4 DEF ForumFlow
    <2>6. /\ UNCHANGED <<journal, forum, pending, recon>> /\ OpenGoto(s, o)
          /\ create_or_update(c, pending_proposal(c)) \/ UNCHANGED storeVars
      BY <1>8, <2>1, <2>4 DEF OpenPersist
    <2>7. \A b \in Case : db'[b].status = db[b].status \/ b = c
      BY <1>a, <2>6, RowStatuses DEF storeVars
    <2>8. \A b : OnForum(b) => OnForum(b)'
      BY <2>6 DEF OnForum
    <2>9. SlotOnForum(o)'
      BY <2>3, <2>4, <2>5, <2>8 DEF SlotOnForum
    <2>10. \A q \in OpenSlot : opening'[q] = opening[q] \/ SlotOnForum(opening[q])'
      BY <2>3, <2>6, <2>9, SlotMoves
    <2> QED  BY <1>e, <2>5, <2>6, <2>7, <2>8, <2>10, ForumFrame
  <1>9. ASSUME NEW s \in OpenSlot, OpenMap(s)
        PROVE  ForumFlow'
    <2>1. /\ UNCHANGED <<journal, forum, storeVars, recon>> /\ OpenGoto(s, IdleOpening)
          /\ pending' = pending \cup {case_id(l) : l \in opening[s].opened}
      BY <1>9 DEF OpenMap
    <2>2. \A l \in opening[s].opened : OnForum(case_id(l))'
      BY <2>1 DEF ForumFlow, OnForum
    <2>3. \A c \in pending' : c \in pending \/ OnForum(c)'
      BY <2>1, <2>2
    <2>4. SlotOnForum(IdleOpening)'
      BY DEF SlotOnForum, IdleOpening
    <2> QED  BY <1>e, <2>1, <2>3, <2>4, IdleTypes, SlotMoves, ForumFrame DEF storeVars
  <1>10. ASSUME NEW m \in mailbox, HandleDecision(m)
         PROVE  ForumFlow'
    BY <1>10, <1>b, <1>e DEF HandleDecision, storeVars
  <1>11. ASSUME NEW t \in tasks, TaskFuture(t)
         PROVE  ForumFlow'
    <2>1. t.case \in Case /\ t.outcome \in Outcome /\ "reject" \in Outcome
      BY ElevationAssumption DEF TypeOK, Task
    <2>2. /\ UNCHANGED <<journal, forum, pending, recon, opening>>
          /\ \/ UNCHANGED storeVars
             \/ Recorded(t.case, t.src, t.outcome)
             \/ \E l \in Local : Recorded(t.case, l, "reject")
      BY <1>11, <1>d DEF TaskFuture, TaskRecord, TaskPass, TaskBlock, TaskCreateRef, TaskOpenPr,
           TaskFindPr, TaskMap
    <2> QED  BY <1>b, <1>e, <1>f, <2>1, <2>2 DEF storeVars
  <1>12. ASSUME NEW s \in PollSlot, PollStart(s) \/ PollFuture(s)
         PROVE  ForumFlow'
    <2>1. UNCHANGED <<journal, forum, pending, recon, opening>>
      BY <1>12 DEF PollStart, PollFuture, PollQuery, PollPersist, PollDone
    <2>2. \A b \in Case : db'[b].status = "pending" => db[b].status = "pending"
      <3>1. CASE UNCHANGED storeVars
        BY <3>1 DEF storeVars
      <3>2. CASE PollPersist(s) /\ set_status(poll[s].at, poll[s].verdict)
        <4>1. poll[s].at \in Case /\ poll[s].verdict \in {"elevated", "abandoned"}
          BY <3>2 DEF PollPersist, TypeOK, Poll
        <4> QED  BY <1>a, <3>2, <4>1, RowStatuses DEF set_status
      <3> QED  BY <1>12, <3>1, <3>2 DEF PollStart, PollFuture, PollQuery, PollPersist, PollDone
    <2> QED  BY <1>b, <1>e, <2>1, <2>2
  <1>13. ASSUME NEW n \in DOMAIN prs, NEW state \in {"merged", "closed"}, GitSettles(n, state)
         PROVE  ForumFlow'
    BY <1>13, <1>c, <1>e DEF GitSettles
  <1>14. ASSUME NEW c \in Case, NEW l \in Local, NEW o \in Outcome, RestDecision(c, l, o)
         PROVE  ForumFlow'
    BY <1>14, <1>b, <1>e, <1>f DEF RestDecision
  <1>15. CASE Crash
    <2>1. /\ UNCHANGED <<journal, forum, storeVars>> /\ pending' = {}
          /\ recon'.resumed = {} /\ \A s \in OpenSlot : opening'[s] = IdleOpening
      BY <1>15 DEF Crash, AcspBoot, BootRecon
    <2>2. SlotOnForum(IdleOpening)'
      BY DEF SlotOnForum, IdleOpening
    <2>3. \A s \in OpenSlot : SlotOnForum(opening[s])'
      BY <2>1, <2>2 DEF SlotOnForum
    <2> QED  BY <1>e, <2>1, <2>3, ForumFrame DEF storeVars
  <1>16. ASSUME NEW s \in OpenSlot,
                \/ \E labels \in SUBSET (Case \X GraphSpelling) : RunCycle(s, labels)
                \/ \E l \in Label : VoiceTranscript(s, l)
         PROVE  ForumFlow'
    <2>1. SUBSET (Case \X GraphSpelling) \subseteq SUBSET Label
      BY ElevationAssumption DEF Label
    <2> QED  BY <1>6, <1>16, <2>1 DEF RunCycle, VoiceTranscript
  <1> QED
    BY <1>1, <1>2, <1>3, <1>4, <1>5, <1>7, <1>8, <1>9, <1>10, <1>11, <1>12, <1>13, <1>14,
       <1>15, <1>16 DEF Next, Reconciliation, OpenFuture

LEMMA ForumInit == Init => ForumFlow
  <1> SUFFICES ASSUME Init PROVE ForumFlow
    OBVIOUS
  <1>1. \A c \in Case : db[c].status = "none"
    BY DEF Init, StoreInit, NoRow
  <1>2. pending = {} /\ recon.resumed = {}
    BY DEF Init, BootRecon
  <1>3. \A s \in OpenSlot : opening[s].at = NoLabel /\ opening[s].opened = {}
    BY DEF Init, IdleOpening
  <1> QED  BY <1>1, <1>2, <1>3 DEF ForumFlow, AwaitingIsOnForum

(* A case that waits for a human was put to the forum: no row is pending,   *)
(* and no case in the working set, that nobody can answer, also after a     *)
(* crash at any point (RunCycle, Reconcile).                                *)
THEOREM WhoWaitsWasAsked == Spec => []AwaitingIsOnForum
  <1> DEFINE I == TypeOK /\ ForumFlow
  <1>1. Init => I
    BY TypeInit, ForumInit
  <1>2. I /\ [Next]_vars => I'
    BY TypeStep, ForumStep
  <1>3. I => AwaitingIsOnForum
    BY DEF ForumFlow
  <1> HIDE DEF I
  <1> QED  BY <1>1, <1>2, <1>3, PTL DEF Spec

=============================================================================
