---------------------------- MODULE ElevationActor ----------------------------
(***************************************************************************)
(* The elevation actor (actors/elevation_actor.rs): concepts the ontology  *)
(* refers to and nobody authored are put to the forum; an approval that    *)
(* the consistency gate lets through becomes a draft in the corpus and a   *)
(* PR, which is polled until git settles it.                               *)
(*                                                                         *)
(* It shares the store, the relay client and the PR service with the       *)
(* decision-elevation actor, and keeps less: a case is published before    *)
(* its row is written, a failed write is logged and passed over, nothing   *)
(* is claimed, and the PRs it polls are known to memory only.  One action  *)
(* is one stretch of a future between two awaits.  Its agent ids are       *)
(* "elevation-<slug>", so its cases share one branch too, their own.       *)
(***************************************************************************)
EXTENDS EnrichmentStore, AcspClient, GitHubPr, FiniteSets

CONSTANTS
    Spelling,       \* ways to write a concept; the case id is the same for all
    GraphSpelling,  \* the ones that labels of the graph have
    MaxOpenCases,   \* MAX_OPEN_CASES, 5
    OpenCaseTtl,    \* OPEN_CASE_TTL, 14 days
    OpenSlot,       \* names for futures that open cases at the same time
    PollSlot,       \* names for merge polls that overlap
    Faults,         \* the calls that may fail
    MaxCrashes,     \* bound: crashes of the process
    MaxNow          \* bound: the clock

Fault == {"connect", "open", "relay", "ack", "record", "github", "terminal", "poll", "scan"}

(* The spelling canonical_name gives a page.                                *)
Title == "title"
NoCase == "no case"
NoSpelling == "no spelling"

ASSUME ElevationAssumption ==
    /\ Title \in Spelling
    /\ GraphSpelling \subseteq Spelling
    /\ {"approve", "reject"} \subseteq Outcome
    /\ NoCase \notin Case
    /\ NoSpelling \notin Spelling
    /\ MaxOpenCases \in Nat
    /\ OpenCaseTtl \in Nat
    /\ Faults \subseteq Fault
    /\ MaxCrashes \in Nat
    /\ MaxNow \in Nat

VARIABLES
    pending,    \* cases awaiting a human, in memory
    seen,       \* labels cased in this process
    elevating,  \* [Case -> PR number]: PRs polled for, in memory; 0 for none
    recon,      \* boot reconciliation: its progress and what it found
    opening,    \* [OpenSlot -> future of RunCycle or VoiceTranscript]
    tasks,      \* futures of Decision and approve_with_gate
    poll,       \* [PollSlot -> future of PollPrs]
    refused,    \* auxiliary: approvals applied without a record
    now,        \* the clock
    crashes     \* crashes so far

memVars == <<pending, seen, elevating>>
futureVars == <<recon, opening, tasks, poll>>
envVars == <<refused, now, crashes>>
vars == <<storeVars, acspVars, githubVars, memVars, futureVars, envVars>>

-----------------------------------------------------------------------------

Label == Case \X Spelling
NoLabel == <<NoCase, NoSpelling>>
case_id(l) == l[1]

(* todo: the candidates still to be published; at: one whose row is next.   *)
Opening == [busy : BOOLEAN, todo : SUBSET Label, at : Label \cup {NoLabel},
            opened : SUBSET Label]
IdleOpening == [busy |-> FALSE, todo |-> {}, at |-> NoLabel, opened |-> {}]

TaskPc == {"record", "gate", "create", "open", "find", "map"}
Task == [case : Case, src : Request, outcome : Outcome, pc : TaskPc, pr : Nat]

NotTracked == [c \in Case |-> 0]

(* left: the snapshot still to be asked about; at: a case found settled.    *)
IdlePoll == [busy |-> FALSE, left |-> NotTracked, at |-> NoCase,
             verdict |-> "elevated", resolved |-> {}]

BootRecon == [pc |-> "off", resumed |-> {}, expired |-> {}]

Init ==
    /\ StoreInit
    /\ AcspInit
    /\ GitHubInit
    /\ pending = {}
    /\ seen = {}
    /\ elevating = NotTracked
    /\ recon = BootRecon
    /\ opening = [s \in OpenSlot |-> IdleOpening]
    /\ tasks = {}
    /\ poll = [s \in PollSlot |-> IdlePoll]
    /\ refused = {}
    /\ now = 0
    /\ crashes = 0

May(f) == f \in Faults

-----------------------------------------------------------------------------
(* started: connect, then send Reconcile; without a relay the actor idles.  *)

Connect ==
    /\ \/ connect(TRUE) /\ recon' = [recon EXCEPT !.pc = "armed"]
       \/ May("connect") /\ connect(FALSE) /\ UNCHANGED recon
    /\ UNCHANGED <<storeVars, githubVars, memVars, opening, tasks, poll, envVars>>

Subscribe ==
    /\ subscribe
    /\ UNCHANGED <<storeVars, githubVars, memVars, futureVars, envVars>>

-----------------------------------------------------------------------------
(* Boot reconciliation: Handler<Reconcile>.                                 *)

Stale(row) == now > row.opened + OpenCaseTtl

OpenRows == {c \in Case : db[c].status = "pending"}

(* list(pending), recovered_case, plan_elevation_reconciliation.            *)
ReconcileRead ==
    /\ recon.pc = "armed"
    /\ \/ recon' = [pc |-> "expire",
                    resumed |-> {c \in OpenRows : ~Stale(db[c])},
                    expired |-> {c \in OpenRows : Stale(db[c])}]
       \/ May("scan") /\ recon' = [recon EXCEPT !.pc = "expire"]
    /\ UNCHANGED <<storeVars, acspVars, githubVars, memVars, opening, tasks, poll,
                   envVars>>

(* After its best-effort receipt: the status, whatever the row has by now.  *)
ReconcileExpire(c) ==
    /\ recon.pc = "expire"
    /\ c \in recon.expired
    /\ recon' = [recon EXCEPT !.expired = @ \ {c}]
    /\ \/ set_status(c, "expired")
       \/ May("terminal") /\ UNCHANGED storeVars
    /\ UNCHANGED <<acspVars, githubVars, memVars, opening, tasks, poll, envVars>>

(* The label of a recovered case is its title, not what the graph calls it. *)
ReconcileMap ==
    /\ recon.pc = "expire"
    /\ recon.expired = {}
    /\ recon' = [recon EXCEPT !.pc = "done", !.resumed = {}]
    /\ pending' = pending \cup recon.resumed
    /\ seen' = seen \cup {<<c, Title>> : c \in recon.resumed}
    /\ UNCHANGED <<storeVars, acspVars, githubVars, elevating, opening, tasks, poll,
                   envVars>>

-----------------------------------------------------------------------------
(* Opening cases: Handler<RunCycle>, Handler<VoiceTranscript>.              *)

(* A future that opened nothing has nothing left to do.                     *)
OpenGoto(s, o) ==
    LET over == o.todo = {} /\ o.at = NoLabel /\ o.opened = {}
    IN  opening' = [opening EXCEPT ![s] = IF over THEN IdleOpening ELSE o]

MayOpen(s) == ~opening[s].busy /\ acsp = "connected"

OpenFor(s, labels) ==
    /\ OpenGoto(s, [IdleOpening EXCEPT !.busy = TRUE, !.todo = labels])
    /\ UNCHANGED <<storeVars, acspVars, githubVars, memVars, recon, tasks, poll, envVars>>

(* The interval, a recovery or a decided case asks for a cycle.  The skip   *)
(* list and the budget are those of now; what the graph offers is loaded    *)
(* and ranked later, out of everything that could be there.                 *)
RunCycle(s, labels) ==
    /\ MayOpen(s)
    /\ labels # {}
    /\ labels \cap seen = {}
    /\ Cardinality(pending) + Cardinality(labels) <= MaxOpenCases
    /\ OpenFor(s, labels)

(* A spoken command names a concept, in the graph's spelling or in another. *)
VoiceTranscript(s, l) ==
    /\ MayOpen(s)
    /\ l \notin seen
    /\ OpenFor(s, {l})

Fresh(r) == \A j \in journal : j.req # r

(* Mutant: a request the relay did not take is persisted all the same.      *)
OpenPublishIgnored(s, l, r) ==
    /\ opening[s].at = NoLabel
    /\ l \in opening[s].todo
    /\ Fresh(r)
    /\ \/ publish_request(r, case_id(l), TRUE)
       \/ May("relay") /\ publish_request(r, case_id(l), FALSE)
    /\ OpenGoto(s, [opening[s] EXCEPT !.todo = @ \ {l}, !.at = l])
    /\ UNCHANGED <<storeVars, githubVars, memVars, recon, tasks, poll, envVars>>

(* The forum first; a candidate that cannot be published is left for        *)
(* another cycle, also when only the acknowledgement was lost.              *)
OpenPublish(s, l, r) ==
    /\ opening[s].at = NoLabel
    /\ l \in opening[s].todo
    /\ Fresh(r)
    /\ \/ /\ publish_request(r, case_id(l), TRUE)
          /\ OpenGoto(s, [opening[s] EXCEPT !.todo = @ \ {l}, !.at = l])
       \/ /\ \/ May("relay") /\ publish_request(r, case_id(l), FALSE)
             \/ May("ack") /\ publish_request(r, case_id(l), TRUE)
          /\ OpenGoto(s, [opening[s] EXCEPT !.todo = @ \ {l}])
    /\ UNCHANGED <<storeVars, githubVars, memVars, recon, tasks, poll, envVars>>

(* The upsert keeps the creation time of a row that is there.               *)
pending_proposal(c) ==
    [status |-> "pending", pr |-> 0, opened |-> IF Known(c) THEN db[c].opened ELSE now]

OpenPersist(s) ==
    LET l == opening[s].at
    IN  /\ l # NoLabel
        /\ \/ create_or_update(case_id(l), pending_proposal(case_id(l)))
           \/ May("open") /\ UNCHANGED storeVars
        /\ OpenGoto(s, [opening[s] EXCEPT !.at = NoLabel, !.opened = @ \cup {l}])
        /\ UNCHANGED <<acspVars, githubVars, memVars, recon, tasks, poll, envVars>>

OpenMap(s) ==
    /\ opening[s].busy
    /\ opening[s].todo = {} /\ opening[s].at = NoLabel
    /\ seen' = seen \cup opening[s].opened
    /\ pending' = pending \cup {case_id(l) : l \in opening[s].opened}
    /\ OpenGoto(s, IdleOpening)
    /\ UNCHANGED <<storeVars, acspVars, githubVars, elevating, recon, tasks, poll,
                   envVars>>

-----------------------------------------------------------------------------
(* Handler<Decision>, approve_with_gate.                                    *)

NewTask(m) ==
    [case |-> m.case, src |-> m.src, outcome |-> m.outcome, pr |-> 0,
     pc |-> IF m.outcome = "approve" THEN "gate" ELSE "record"]

(* Taken out of the working set, or dropped when it is not there.           *)
HandleDecision(m) ==
    /\ m \in mailbox
    /\ mailbox' = mailbox \ {m}
    /\ pending' = pending \ {m.case}
    /\ tasks' = IF m.case \in pending THEN tasks \cup {NewTask(m)} ELSE tasks
    /\ UNCHANGED <<storeVars, acsp, sub, journal, dispatched, forum, githubVars,
                   seen, elevating, recon, opening, poll, envVars>>

TaskGoto(t, pc) == tasks' = (tasks \ {t}) \cup {[t EXCEPT !.pc = pc]}
TaskTracks(t, n) == tasks' = (tasks \ {t}) \cup {[t EXCEPT !.pc = "map", !.pr = n]}
TaskEnd(t) == tasks' = tasks \ {t}

NewLocal(l) == \A d \in decided : d.src # l

(* Decisions refer to a row of their case, by a foreign key.  A record that *)
(* is refused is logged, and the future goes on.                            *)
Recorded(c, s, o) == Known(c) /\ record_decision(c, s, o)
NotRecorded(c) == (~Known(c) \/ May("record")) /\ UNCHANGED storeVars

(* reject, amend, delegate and the other spellings of an approval.          *)
TaskRecord(t) ==
    /\ t.pc = "record"
    /\ Recorded(t.case, t.src, t.outcome) \/ NotRecorded(t.case)
    /\ TaskEnd(t)
    /\ UNCHANGED <<acspVars, githubVars, memVars, recon, opening, poll, envVars>>

(* Mutant: the record is left to a task of its own and not awaited.         *)
TaskPassUnrecorded(t) ==
    /\ t.pc = "gate"
    /\ TaskGoto(t, "create")
    /\ UNCHANGED <<storeVars, acspVars, githubVars, memVars, recon, opening, poll, envVars>>

(* run_consistency_gate clears the draft: the approval is recorded.         *)
TaskPass(t) ==
    /\ t.pc = "gate"
    /\ \/ Recorded(t.case, t.src, t.outcome) /\ UNCHANGED refused
       \/ NotRecorded(t.case) /\ refused' = refused \cup {t.src}
    /\ TaskGoto(t, "create")
    /\ UNCHANGED <<acspVars, githubVars, memVars, recon, opening, poll, now, crashes>>

(* The gate finds the draft inconsistent, or there is no gate: a rejection  *)
(* of its own is recorded, under no signed event.                           *)
TaskBlock(t, l) ==
    /\ t.pc = "gate"
    /\ NewLocal(l)
    /\ Recorded(t.case, l, "reject") \/ NotRecorded(t.case)
    /\ TaskEnd(t)
    /\ UNCHANGED <<acspVars, githubVars, memVars, recon, opening, poll, envVars>>

(* create_ontology_pr: the branch, the PR, or the PR that is open already.  *)
(* The call may err before or after each.                                   *)
TaskCreateRef(t) ==
    /\ t.pc = "create"
    /\ \/ create_ref(t.case, t.src) /\ TaskGoto(t, "open")
       \/ May("github") /\ create_ref(t.case, t.src) /\ TaskEnd(t)
       \/ May("github") /\ TaskEnd(t) /\ UNCHANGED githubVars
    /\ UNCHANGED <<storeVars, acspVars, memVars, recon, opening, poll, envVars>>

TaskOpenPr(t) ==
    /\ t.pc = "open"
    /\ \/ create_pull_request(t.case) /\ TaskTracks(t, Len(prs) + 1)
       \/ OpenPrs # {} /\ TaskGoto(t, "find") /\ UNCHANGED githubVars
       \/ May("github") /\ create_pull_request(t.case) /\ TaskEnd(t)
       \/ May("github") /\ TaskEnd(t) /\ UNCHANGED githubVars
    /\ UNCHANGED <<storeVars, acspVars, memVars, recon, opening, poll, envVars>>

TaskFindPr(t) ==
    /\ t.pc = "find"
    /\ \/ \E n \in OpenPrs : get_existing_pr_url(n, t.case) /\ TaskTracks(t, n)
       \/ (OpenPrs = {} \/ May("github")) /\ TaskEnd(t) /\ UNCHANGED githubVars
    /\ UNCHANGED <<storeVars, acspVars, memVars, recon, opening, poll, envVars>>

(* The PR is tracked in memory; the row keeps no trace of it.               *)
TaskMap(t) ==
    /\ t.pc = "map"
    /\ TaskEnd(t)
    /\ elevating' = [elevating EXCEPT ![t.case] = t.pr]
    /\ UNCHANGED <<storeVars, acspVars, githubVars, pending, seen, recon, opening, poll,
                   envVars>>

-----------------------------------------------------------------------------
(* Handler<PollPrs> and its future.                                         *)

(* A poll that resolved nothing has nothing to remove.                      *)
PollGoto(s, p) ==
    LET over == p.left = NotTracked /\ p.at = NoCase /\ p.resolved = {}
    IN  poll' = [poll EXCEPT ![s] = IF over THEN IdlePoll ELSE p]

PollStart(s) ==
    /\ ~poll[s].busy
    /\ elevating # NotTracked
    /\ acsp = "connected"
    /\ PollGoto(s, [IdlePoll EXCEPT !.busy = TRUE, !.left = elevating])
    /\ UNCHANGED <<storeVars, acspVars, githubVars, memVars, recon, opening, tasks,
                   envVars>>

(* Mutant: a PR that is gone was merged.                                    *)
AlwaysElevated(state) == "elevated"

(* Mutant: the git state itself is written to the row.                      *)
AsGitSays(state) == state

terminal_for_pr_state(state) == IF state = "merged" THEN "elevated" ELSE "abandoned"

(* pr_state of one tracked PR: unknown, still open, or settled.             *)
PollQuery(s, c) ==
    /\ poll[s].at = NoCase
    /\ poll[s].left[c] # 0
    /\ LET state == prs[poll[s].left[c]].state
           left == [poll[s].left EXCEPT ![c] = 0]
       IN  \/ /\ state = "open" \/ May("github")
              /\ PollGoto(s, [poll[s] EXCEPT !.left = left])
           \/ /\ state # "open"
              /\ PollGoto(s, [poll[s] EXCEPT !.left = left, !.at = c,
                               !.verdict = terminal_for_pr_state(state)])
    /\ UNCHANGED <<storeVars, acspVars, githubVars, memVars, recon, opening, tasks,
                   envVars>>

(* The case counts as resolved whether or not its status could be written.  *)
PollPersist(s) ==
    /\ poll[s].at # NoCase
    /\ \/ set_status(poll[s].at, poll[s].verdict)
       \/ May("poll") /\ UNCHANGED storeVars
    /\ PollGoto(s, [poll[s] EXCEPT !.at = NoCase, !.verdict = "elevated",
                                   !.resolved = @ \cup {poll[s].at}])
    /\ UNCHANGED <<acspVars, githubVars, memVars, recon, opening, tasks, envVars>>

PollDone(s) ==
    /\ poll[s].busy
    /\ poll[s].at = NoCase
    /\ poll[s].left = NotTracked
    /\ elevating' = [c \in Case |-> IF c \in poll[s].resolved THEN 0 ELSE elevating[c]]
    /\ PollGoto(s, IdlePoll)
    /\ UNCHANGED <<storeVars, acspVars, githubVars, pending, seen, recon, opening, tasks,
                   envVars>>

-----------------------------------------------------------------------------
(* The environment.                                                         *)

ForumAnswers ==
    /\ \E r \in Request, o \in Outcome : Dispatch(r, o)
    /\ UNCHANGED <<storeVars, githubVars, memVars, futureVars, envVars>>

GitSettles(n, state) ==
    /\ Settle(n, state)
    /\ UNCHANGED <<storeVars, acspVars, memVars, futureVars, envVars>>

(* apply_decision of the REST door, on a row this actor opened.             *)
RestDecision(c, l, o) ==
    /\ NewLocal(l)
    /\ Recorded(c, l, o)
    /\ UNCHANGED <<acspVars, githubVars, memVars, futureVars, envVars>>

(* Days pass while the process is down.  Only Reconcile reads the clock, so *)
(* time that passes earlier shows in nothing but the rows that wait.        *)
Tick ==
    /\ now < MaxNow
    /\ acsp = "connecting"
    /\ OpenRows # {}
    /\ now' = now + 1
    /\ UNCHANGED <<storeVars, acspVars, githubVars, memVars, futureVars, refused, crashes>>

(* The process dies and a new one starts on the durable state.  Before the  *)
(* first request there is none, and a crash only starts over.               *)
Crash ==
    /\ crashes < MaxCrashes
    /\ journal # {}
    /\ crashes' = crashes + 1
    /\ AcspBoot
    /\ pending' = {}
    /\ seen' = {}
    /\ elevating' = NotTracked
    /\ recon' = BootRecon
    /\ opening' = [s \in OpenSlot |-> IdleOpening]
    /\ tasks' = {}
    /\ poll' = [s \in PollSlot |-> IdlePoll]
    /\ UNCHANGED <<storeVars, githubVars, refused, now>>

-----------------------------------------------------------------------------

Reconciliation == ReconcileRead \/ ReconcileMap \/ \E c \in Case : ReconcileExpire(c)

OpenFuture(s) ==
    \/ \E l \in opening[s].todo, r \in Request : OpenPublish(s, l, r)
    \/ OpenPersist(s)
    \/ OpenMap(s)

TaskFuture(t) ==
    \/ TaskRecord(t) \/ TaskPass(t) \/ (\E l \in Local : TaskBlock(t, l))
    \/ TaskCreateRef(t) \/ TaskOpenPr(t) \/ TaskFindPr(t) \/ TaskMap(t)

PollFuture(s) ==
    (\E c \in Case : PollQuery(s, c)) \/ PollPersist(s) \/ PollDone(s)

Next ==
    \/ Connect \/ Subscribe \/ Reconciliation
    \/ \E s \in OpenSlot :
          \/ \E labels \in SUBSET (Case \X GraphSpelling) : RunCycle(s, labels)
          \/ \E l \in Label : VoiceTranscript(s, l)
          \/ OpenFuture(s)
    \/ \E m \in mailbox : HandleDecision(m)
    \/ \E t \in tasks : TaskFuture(t)
    \/ \E s \in PollSlot : PollStart(s) \/ PollFuture(s)
    \/ ForumAnswers
    \/ \E n \in DOMAIN prs, state \in {"merged", "closed"} : GitSettles(n, state)
    \/ \E c \in Case, l \in Local, o \in Outcome : RestDecision(c, l, o)
    \/ Tick
    \/ Crash

Spec == Init /\ [][Next]_vars

(* The runtime polls the futures, delivers what is in a mailbox and keeps   *)
(* the interval of the merge poll.                                          *)
FairSpec ==
    /\ Spec
    /\ WF_vars(Connect) /\ WF_vars(Subscribe) /\ WF_vars(Reconciliation)
    /\ \A s \in OpenSlot : WF_vars(OpenFuture(s))
    /\ WF_vars(\E m \in mailbox : HandleDecision(m))
    /\ WF_vars(\E t \in tasks : TaskFuture(t))
    /\ \A s \in PollSlot : WF_vars(PollStart(s) \/ PollFuture(s))

-----------------------------------------------------------------------------
(* Properties.                                                              *)

Poll == [busy : BOOLEAN, left : [Case -> Nat], at : Case \cup {NoCase},
         verdict : {"elevated", "abandoned"}, resolved : SUBSET Case]

Recon == [pc : {"off", "armed", "expire", "done"}, resumed : SUBSET Case,
          expired : SUBSET Case]

(* Every variable has its type.                                             *)
TypeOK ==
    /\ StoreTypeOK
    /\ AcspTypeOK
    /\ GitHubTypeOK
    /\ pending \subseteq Case
    /\ seen \subseteq Label
    /\ elevating \in [Case -> Nat]
    /\ recon \in Recon
    /\ opening \in [OpenSlot -> Opening]
    /\ tasks \subseteq Task
    /\ poll \in [PollSlot -> Poll]
    /\ refused \subseteq Request
    /\ now \in Nat
    /\ crashes \in Nat

(* Every draft the branch was forced to answers a request that was signed   *)
(* for that case and claimed, and no answer becomes two drafts: although a  *)
(* case may be put to the forum twice, and taken up again by a cycle, by    *)
(* voice or after a crash, without anything being claimed in the store.     *)
OneDraftPerApproval ==
    \A i \in DOMAIN commits :
        /\ commits[i].by \in dispatched
        /\ [req |-> commits[i].by, case |-> commits[i].case] \in journal
        /\ \A j \in DOMAIN commits : commits[j].by = commits[i].by => i = j

(* The approval behind a draft is on record before the draft is pushed,     *)
(* unless the store refused it (approve_with_gate logs that and goes on),   *)
(* and stays there whatever is recorded after it.                           *)
DraftIsRecorded ==
    \A i \in DOMAIN commits :
        \/ commits[i].by \in refused
        \/ [case |-> commits[i].case, src |-> commits[i].by, outcome |-> "approve"]
              \in decided

(* A terminal status of the merge poll is what git says of a PR the case    *)
(* opened or was given, whatever overlapping polls, REST decisions and a    *)
(* case opened again wrote in between; and a tracked PR is such a PR.       *)
ElevatedIsMerged ==
    \A c \in Case :
        /\ db[c].status = "elevated" =>
              \E n \in DOMAIN prs : c \in prs[n].cases /\ prs[n].state = "merged"
        /\ db[c].status = "abandoned" =>
              \E n \in DOMAIN prs : c \in prs[n].cases /\ prs[n].state = "closed"
        /\ elevating[c] # 0 =>
              elevating[c] \in DOMAIN prs /\ c \in prs[elevating[c]].cases

(* A case that waits for a human, in the inbox or in memory, was put to the *)
(* forum: also one recovered after a crash at any point (RunCycle publishes *)
(* before it persists, Reconcile trusts the rows).                          *)
AwaitingIsOnForum ==
    \A c \in Case : db[c].status = "pending" \/ c \in pending =>
        \E j \in journal : j.case = c /\ j.req \in forum

(* What the comment on `elevating` says: PRs opened on approve are tracked  *)
(* to their terminal git state, and a merge marks the row elevated.         *)
MergedIsReported ==
    \A c \in Case :
        (\E n \in DOMAIN prs : c \in prs[n].cases /\ prs[n].state = "merged")
            ~> (db[c].status = "elevated")

=============================================================================
