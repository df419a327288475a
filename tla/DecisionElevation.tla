-------------------------- MODULE DecisionElevation --------------------------
(***************************************************************************)
(* The decision-elevation actor (actors/decision_elevation_actor.rs) over  *)
(* its durable store, its relay client and GitHub.                         *)
(*                                                                         *)
(* A significant decision becomes a case: a durable row, then a signed     *)
(* request on the forum.  A human answer is recorded; an approval is       *)
(* claimed, opens a corpus PR, and the PR is polled until git settles it.  *)
(* Every handler runs to its end on the actor's thread, but what it spawns *)
(* is a future that gives the thread back at each `await`.  The model has  *)
(* one action per stretch between two awaits, so futures interleave with   *)
(* each other, with handlers, with the REST door on the same rows and with *)
(* a crash, after which the process boots on what was durable.             *)
(***************************************************************************)
EXTENDS EnrichmentStore, AcspClient, GitHubPr, FiniteSets

CONSTANTS
    MaxOpenCases,          \* MAX_OPEN_CASES, 16
    OpenCaseTtl,           \* OPEN_CASE_TTL, 14 days
    ReconcileMaxAttempts,  \* RECONCILE_MAX_ATTEMPTS, 15
    PollSlot,              \* names for merge polls that overlap
    Faults,                \* the calls that may fail
    Retrigger,             \* may one decision be elevated twice?
    MaxCrashes,            \* bound: crashes of the process
    MaxNow                 \* bound: the clock

Fault ==
    {"connect", "open", "relay", "ack", "record", "claim", "github", "stamp", "terminal",
     "poll", "scan"}

ASSUME ActorAssumption ==
    /\ MaxOpenCases \in Nat
    /\ OpenCaseTtl \in Nat
    /\ ReconcileMaxAttempts \in Nat
    /\ Faults \subseteq Fault
    /\ Retrigger \in BOOLEAN
    /\ MaxCrashes \in Nat
    /\ MaxNow \in Nat

VARIABLES
    store,      \* TRUE once the durable store is attached, in this process
    pending,    \* cases awaiting a human, in memory
    elevating,  \* [Case -> PR number]: PRs polled for, in memory; 0 for none
    seen,       \* decisions cased in this process
    recon,      \* boot reconciliation: its progress, attempts and row snapshot
    opening,    \* futures of ElevateDecision
    tasks,      \* futures of spawn_decision_outcome
    expiring,   \* cases with a future of spawn_expiry
    poll,       \* [PollSlot -> future of PollPrs]
    asked,      \* auxiliary: the elevation triggers so far
    now,        \* the clock
    crashes     \* crashes so far

memVars == <<pending, elevating, seen>>
futureVars == <<opening, tasks, expiring, poll>>
bootVars == <<store, recon>>
clockVars == <<asked, now, crashes>>
envVars == <<githubVars, clockVars>>
vars == <<storeVars, acspVars, memVars, futureVars, bootVars, envVars>>

-----------------------------------------------------------------------------

OpeningPc == {"persist", "publish", "closeout", "map"}
TaskPc == {"record", "claim", "create", "open", "find", "read", "write", "map"}
NoCase == "no case"

ASSUME NoCaseAssumption == NoCase \notin Case

Opening == [req : Request, case : Case, pc : OpeningPc]

(* by: the approval the task has claimed; opened: the row copy it stamps.   *)
Task == [case : Case, src : Request \cup {Boot}, outcome : Outcome \cup {"approve"},
         pc : TaskPc, by : Request \cup Local \cup {NoSource}, pr : Nat, opened : Nat]

NotTracked == [c \in Case |-> 0]

(* left: the snapshot still to be asked about; at: a case found settled.    *)
IdlePoll == [busy |-> FALSE, left |-> NotTracked, at |-> NoCase,
             verdict |-> "published", resolved |-> {}]

BootRecon == [pc |-> "off", attempts |-> 0, snap |-> [c \in Case |-> NoRow]]

Init ==
    /\ StoreInit
    /\ AcspInit
    /\ GitHubInit
    /\ store = FALSE
    /\ pending = {}
    /\ elevating = NotTracked
    /\ seen = {}
    /\ recon = BootRecon
    /\ opening = {}
    /\ tasks = {}
    /\ expiring = {}
    /\ poll = [s \in PollSlot |-> IdlePoll]
    /\ asked = {}
    /\ now = 0
    /\ crashes = 0

May(f) == f \in Faults

-----------------------------------------------------------------------------
(* started: connect to the relay and attach the store, concurrently.        *)

Connect ==
    /\ \/ connect(TRUE)
       \/ May("connect") /\ connect(FALSE)
    /\ UNCHANGED <<storeVars, memVars, futureVars, bootVars, envVars>>

Subscribe ==
    /\ subscribe
    /\ UNCHANGED <<storeVars, memVars, futureVars, bootVars, envVars>>

AttachStore ==
    /\ ~store
    /\ store' = TRUE
    /\ recon' = [recon EXCEPT !.pc = "armed"]
    /\ UNCHANGED <<storeVars, acspVars, memVars, futureVars, envVars>>

-----------------------------------------------------------------------------
(* Handler<ElevateDecision> and its future.                                 *)

ElevateDecision(c, r) ==
    /\ \A a \in asked : a.req # r /\ (Retrigger \/ a.case # c)
    /\ asked' = asked \cup {[req |-> r, case |-> c]}
    /\ c \notin seen
    /\ Cardinality(pending) < MaxOpenCases
    /\ acsp = "connected"
    /\ store
    /\ opening' = opening \cup {[req |-> r, case |-> c, pc |-> "persist"]}
    /\ UNCHANGED <<storeVars, acspVars, memVars, tasks, expiring, poll, bootVars,
                   githubVars, now, crashes>>

OpenStep(o, pc) == opening' = (opening \ {o}) \cup {[o EXCEPT !.pc = pc]}
OpenEnd(o) == opening' = opening \ {o}

open_case(c) == create_or_update(c, [status |-> "pending", pr |-> 0, opened |-> now])

(* Durable first: the row is there before the forum sees the request.       *)
OpenPersist(o) ==
    /\ o.pc = "persist"
    /\ \/ open_case(o.case) /\ OpenStep(o, "publish")
       \/ May("open") /\ OpenEnd(o) /\ UNCHANGED storeVars
    /\ UNCHANGED <<acspVars, memVars, tasks, expiring, poll, bootVars, envVars>>

(* A publish that errs may have reached the forum all the same, when the    *)
(* relay's acknowledgement is what was lost.                                *)
OpenPublish(o) ==
    /\ o.pc = "publish"
    /\ \/ publish_request(o.req, o.case, TRUE) /\ OpenStep(o, "map")
       \/ /\ \/ May("relay") /\ publish_request(o.req, o.case, FALSE)
             \/ May("ack") /\ publish_request(o.req, o.case, TRUE)
          /\ OpenStep(o, "closeout")
    /\ UNCHANGED <<storeVars, memVars, tasks, expiring, poll, bootVars, envVars>>

OpenCloseout(o) ==
    /\ o.pc = "closeout"
    /\ \/ set_status(o.case, "publish_failed")
       \/ May("terminal") /\ UNCHANGED storeVars
    /\ OpenEnd(o)
    /\ UNCHANGED <<acspVars, memVars, tasks, expiring, poll, bootVars, envVars>>

(* Only now, with the relay's acknowledgement, does memory know the case.   *)
OpenMap(o) ==
    /\ o.pc = "map"
    /\ OpenEnd(o)
    /\ seen' = seen \cup {o.case}
    /\ pending' = pending \cup {o.case}
    /\ UNCHANGED <<storeVars, acspVars, elevating, tasks, expiring, poll, bootVars,
                   envVars>>

-----------------------------------------------------------------------------
(* Handler<Decision> and spawn_decision_outcome.                            *)

NewTask(c, s, o, pc) ==
    [case |-> c, src |-> s, outcome |-> o, pc |-> pc, by |-> NoSource, pr |-> 0,
     opened |-> 0]

HandleDecision(m) ==
    /\ m \in mailbox
    /\ mailbox' = mailbox \ {m}
    /\ pending' = pending \ {m.case}
    /\ tasks' = IF m.case \in pending
                THEN tasks \cup {NewTask(m.case, m.src, m.outcome, "record")}
                ELSE tasks
    /\ UNCHANGED <<storeVars, acsp, sub, journal, dispatched, forum,
                   elevating, seen, opening, expiring, poll, bootVars, envVars>>

TaskStep(t, u) == tasks' = (tasks \ {t}) \cup {u}
TaskEnd(t) == tasks' = tasks \ {t}

TaskRecord(t) ==
    /\ t.pc = "record"
    /\ \/ /\ record_decision(t.case, t.src, t.outcome)
          /\ IF t.outcome = "approve" THEN TaskStep(t, [t EXCEPT !.pc = "claim"])
                                      ELSE TaskEnd(t)
       \/ May("record") /\ TaskEnd(t) /\ UNCHANGED storeVars
    /\ UNCHANGED <<acspVars, memVars, opening, expiring, poll, bootVars, envVars>>

(* Without the claim there is no PR: refused when the row is not an         *)
(* unclaimed approval, and when the claim cannot be persisted.              *)
TaskClaim(t) ==
    /\ t.pc = "claim"
    /\ \/ /\ claim_application(t.case)
          /\ TaskStep(t, [t EXCEPT !.pc = "create", !.by = approvedBy[t.case]])
       \/ /\ ~Claimable(t.case) \/ May("claim")
          /\ TaskEnd(t)
          /\ UNCHANGED storeVars
    /\ UNCHANGED <<acspVars, memVars, opening, expiring, poll, bootVars, envVars>>

(* Mutant: a refused push is ignored and the PR opened all the same.        *)
TaskCreateRefIgnored(t) ==
    /\ t.pc = "create"
    /\ TaskStep(t, [t EXCEPT !.pc = "open"])
    /\ \/ create_ref(t.case, t.by)
       \/ UNCHANGED githubVars
    /\ UNCHANGED <<storeVars, acspVars, memVars, opening, expiring, poll, bootVars,
                   clockVars>>

(* create_ontology_pr: the commit and the branch.  The call may err after   *)
(* the branch has moved; whatever fails, the row stays applying.            *)
TaskCreateRef(t) ==
    /\ t.pc = "create"
    /\ \/ create_ref(t.case, t.by) /\ TaskStep(t, [t EXCEPT !.pc = "open"])
       \/ May("github") /\ create_ref(t.case, t.by) /\ TaskEnd(t)
       \/ May("github") /\ TaskEnd(t) /\ UNCHANGED githubVars
    /\ UNCHANGED <<storeVars, acspVars, memVars, opening, expiring, poll, bootVars,
                   clockVars>>

(* The PR, or 422 when one is open from the branch.                         *)
TaskOpenPr(t) ==
    /\ t.pc = "open"
    /\ \/ /\ create_pull_request(t.case)
          /\ TaskStep(t, [t EXCEPT !.pc = "read", !.pr = Len(prs) + 1])
       \/ /\ OpenPrs # {}
          /\ TaskStep(t, [t EXCEPT !.pc = "find"])
          /\ UNCHANGED githubVars
       \/ May("github") /\ create_pull_request(t.case) /\ TaskEnd(t)
       \/ May("github") /\ TaskEnd(t) /\ UNCHANGED githubVars
    /\ UNCHANGED <<storeVars, acspVars, memVars, opening, expiring, poll, bootVars,
                   clockVars>>

(* The PR that was open may have been settled since: then the call errs.    *)
TaskFindPr(t) ==
    /\ t.pc = "find"
    /\ \/ \E n \in OpenPrs : /\ get_existing_pr_url(n, t.case)
                             /\ TaskStep(t, [t EXCEPT !.pc = "read", !.pr = n])
       \/ /\ OpenPrs = {} \/ May("github")
          /\ TaskEnd(t)
          /\ UNCHANGED githubVars
    /\ UNCHANGED <<storeVars, acspVars, memVars, opening, expiring, poll, bootVars,
                   clockVars>>

(* mark_elevating re-reads the row, then upserts its copy.                  *)
TaskStampRead(t) ==
    /\ t.pc = "read"
    /\ \/ TaskStep(t, [t EXCEPT !.pc = "write", !.opened = db[t.case].opened])
       \/ May("stamp") /\ TaskStep(t, [t EXCEPT !.pc = "map"])
    /\ UNCHANGED <<storeVars, acspVars, memVars, opening, expiring, poll, bootVars,
                   envVars>>

TaskStampWrite(t) ==
    /\ t.pc = "write"
    /\ \/ create_or_update(t.case,
             [status |-> "elevating", pr |-> t.pr, opened |-> t.opened])
       \/ May("stamp") /\ UNCHANGED storeVars
    /\ TaskStep(t, [t EXCEPT !.pc = "map"])
    /\ UNCHANGED <<acspVars, memVars, opening, expiring, poll, bootVars, envVars>>

TaskMap(t) ==
    /\ t.pc = "map"
    /\ TaskEnd(t)
    /\ elevating' = [elevating EXCEPT ![t.case] = t.pr]
    /\ UNCHANGED <<storeVars, acspVars, pending, seen, opening, expiring, poll,
                   bootVars, envVars>>

-----------------------------------------------------------------------------
(* Boot reconciliation: Handler<Reconcile>, plan_reconciliation and         *)
(* apply_reconciliation.                                                    *)

ReconcileWait ==
    /\ recon.pc = "armed"
    /\ acsp # "connected"
    /\ recon.attempts < ReconcileMaxAttempts
    /\ recon' = [recon EXCEPT !.attempts = @ + 1]
    /\ UNCHANGED <<storeVars, acspVars, memVars, futureVars, store, envVars>>

(* The scan; when it fails nothing of the last process is recovered.        *)
ReconcileRead ==
    /\ recon.pc = "armed"
    /\ acsp = "connected" \/ recon.attempts >= ReconcileMaxAttempts
    /\ \/ recon' = [recon EXCEPT !.pc = "apply", !.snap = db]
       \/ May("scan") /\ recon' = [recon EXCEPT !.pc = "done"]
    /\ UNCHANGED <<storeVars, acspVars, memVars, futureVars, store, envVars>>

Stale(row) == now > row.opened + OpenCaseTtl

Tracking(row) == row.status = "elevating" /\ row.pr # 0
Resumable(row) == row.status \in {"pending", "approved", "elevating"} /\ ~Tracking(row)

(* Mutants: a stale row expires whatever it tracks; only pending cases are  *)
(* carried over.                                                            *)
PlanExpiresTracked(row) ==
    CASE Tracking(row) /\ ~Stale(row)      -> "ResumeTracking"
      [] Tracking(row) /\ Stale(row)       -> "Expire"
      [] Resumable(row) /\ Stale(row)      -> "Expire"
      [] Resumable(row) /\ ~Stale(row)     ->
            IF row.status = "pending" THEN "ResumePending" ELSE "ResumePr"
      [] OTHER                             -> "skip"

PlanPendingOnly(row) ==
    IF row.status = "pending"
    THEN IF Stale(row) THEN "Expire" ELSE "ResumePending"
    ELSE "skip"

(* Terminal rows are skipped, and so is an application whose outcome is     *)
(* unknown: that one is left to an operator.                                *)
plan_reconciliation(row) ==
    CASE Tracking(row)                     -> "ResumeTracking"
      [] Resumable(row) /\ Stale(row)      -> "Expire"
      [] Resumable(row) /\ ~Stale(row)     ->
            IF row.status = "pending" THEN "ResumePending" ELSE "ResumePr"
      [] OTHER                             -> "skip"

Planned(action) == {c \in Case : plan_reconciliation(recon.snap[c]) = action}

apply_reconciliation ==
    /\ recon.pc = "apply"
    /\ recon' = [recon EXCEPT !.pc = "done", !.snap = [c \in Case |-> NoRow]]
    /\ seen' = seen \cup Planned("ResumeTracking") \cup Planned("ResumePr")
                    \cup Planned("ResumePending")
    /\ elevating' = [c \in Case |-> IF c \in Planned("ResumeTracking")
                                    THEN recon.snap[c].pr ELSE elevating[c]]
    /\ tasks' = tasks \cup
         {NewTask(c, Boot, "approve", "claim") : c \in Planned("ResumePr")}
    /\ pending' = pending \cup Planned("ResumePending")
    /\ expiring' = expiring \cup Planned("Expire")
    /\ UNCHANGED <<storeVars, acspVars, opening, poll, store, envVars>>

(* spawn_expiry, after its best-effort receipt.                             *)
Expire(c) ==
    /\ c \in expiring
    /\ expiring' = expiring \ {c}
    /\ \/ set_status(c, "expired")
       \/ May("terminal") /\ UNCHANGED storeVars
    /\ UNCHANGED <<acspVars, memVars, opening, tasks, poll, bootVars, envVars>>

-----------------------------------------------------------------------------
(* Handler<PollPrs> and its future.                                         *)

PollStep(s, p) == poll' = [poll EXCEPT ![s] = p]

PollStart(s) ==
    /\ ~poll[s].busy
    /\ elevating # NotTracked
    /\ acsp = "connected"
    /\ PollStep(s, [IdlePoll EXCEPT !.busy = TRUE, !.left = elevating])
    /\ UNCHANGED <<storeVars, acspVars, memVars, opening, tasks, expiring, bootVars,
                   envVars>>

(* Mutants: the git state itself; published whatever git says.             *)
RawGitState(state) == state
AlwaysPublished(state) == "published"

terminal_case_status(state) == IF state = "merged" THEN "published" ELSE "abandoned"

(* pr_state of one tracked PR: unknown, still open, or settled.             *)
PollQuery(s, c) ==
    /\ poll[s].busy
    /\ poll[s].at = NoCase
    /\ poll[s].left[c] # 0
    /\ LET state == prs[poll[s].left[c]].state
           left == [poll[s].left EXCEPT ![c] = 0]
       IN  \/ /\ state = "open" \/ May("github")
              /\ PollStep(s, [poll[s] EXCEPT !.left = left])
           \/ /\ state # "open"
              /\ PollStep(s, [poll[s] EXCEPT !.left = left, !.at = c,
                               !.verdict = terminal_case_status(state)])
    /\ UNCHANGED <<storeVars, acspVars, memVars, opening, tasks, expiring, bootVars,
                   envVars>>

(* After the best-effort receipt: the durable terminal status.              *)
PollPersistOk(s) ==
    /\ poll[s].at # NoCase
    /\ set_status(poll[s].at, poll[s].verdict)
    /\ PollStep(s, [poll[s] EXCEPT !.at = NoCase, !.verdict = "published",
                                   !.resolved = @ \cup {poll[s].at}])
    /\ UNCHANGED <<acspVars, memVars, opening, tasks, expiring, bootVars, envVars>>

(* Mutant: the case is dropped from memory although its row is not terminal. *)
PollPersistForgets(s) ==
    /\ May("poll")
    /\ poll[s].at # NoCase
    /\ PollStep(s, [poll[s] EXCEPT !.at = NoCase, !.verdict = "published",
                                   !.resolved = @ \cup {poll[s].at}])
    /\ UNCHANGED <<storeVars, acspVars, memVars, opening, tasks, expiring, bootVars,
                   envVars>>

(* A refused write leaves the case tracked, for a later poll.               *)
PollPersistFails(s) ==
    /\ May("poll")
    /\ poll[s].at # NoCase
    /\ PollStep(s, [poll[s] EXCEPT !.at = NoCase, !.verdict = "published"])
    /\ UNCHANGED <<storeVars, acspVars, memVars, opening, tasks, expiring, bootVars,
                   envVars>>

PollDone(s) ==
    /\ poll[s].busy
    /\ poll[s].at = NoCase
    /\ poll[s].left = NotTracked
    /\ elevating' = [c \in Case |-> IF c \in poll[s].resolved THEN 0 ELSE elevating[c]]
    /\ PollStep(s, IdlePoll)
    /\ UNCHANGED <<storeVars, acspVars, pending, seen, opening, tasks, expiring,
                   bootVars, envVars>>

-----------------------------------------------------------------------------
(* The environment.                                                         *)

ForumAnswers ==
    /\ \E r \in Request, o \in Outcome : Dispatch(r, o)
    /\ UNCHANGED <<storeVars, memVars, futureVars, bootVars, envVars>>

GitSettles(n, state) ==
    /\ Settle(n, state)
    /\ UNCHANGED <<storeVars, acspVars, memVars, futureVars, bootVars, clockVars>>

(* apply_decision of the REST door, on a row this actor owns.               *)
RestDecision(c, l, o) ==
    /\ Known(c)
    /\ \A d \in decided : d.src # l
    /\ record_decision(c, l, o)
    /\ UNCHANGED <<acspVars, memVars, futureVars, bootVars, envVars>>

(* Days pass, while the process is down or has nothing under way: no call,  *)
(* no mailbox and no boot takes a TTL of 14 days.                           *)
Tick ==
    /\ now < MaxNow
    /\ recon.pc = "done" \/ (recon.pc = "off" /\ acsp = "connecting")
    /\ opening = {} /\ tasks = {} /\ expiring = {} /\ mailbox = {}
    /\ now' = now + 1
    /\ UNCHANGED <<storeVars, acspVars, memVars, futureVars, bootVars, githubVars,
                   asked, crashes>>

(* The process dies and a new one starts on the durable state.              *)
Crash ==
    /\ crashes < MaxCrashes
    /\ crashes' = crashes + 1
    /\ AcspBoot
    /\ store' = FALSE
    /\ recon' = BootRecon
    /\ pending' = {}
    /\ elevating' = NotTracked
    /\ seen' = {}
    /\ opening' = {}
    /\ tasks' = {}
    /\ expiring' = {}
    /\ poll' = [s \in PollSlot |-> IdlePoll]
    /\ UNCHANGED <<storeVars, githubVars, asked, now>>

-----------------------------------------------------------------------------

OpenFuture == \E o \in opening :
    OpenPersist(o) \/ OpenPublish(o) \/ OpenCloseout(o) \/ OpenMap(o)

TaskFuture == \E t \in tasks :
    \/ TaskRecord(t) \/ TaskClaim(t) \/ TaskCreateRef(t) \/ TaskOpenPr(t)
    \/ TaskFindPr(t) \/ TaskStampRead(t) \/ TaskStampWrite(t) \/ TaskMap(t)

PollFuture(s) ==
    \/ \E c \in Case : PollQuery(s, c)
    \/ PollPersistOk(s)
    \/ PollPersistFails(s)
    \/ PollDone(s)

Reconciliation == ReconcileWait \/ ReconcileRead \/ apply_reconciliation

Next ==
    \/ Connect \/ Subscribe \/ AttachStore
    \/ \E c \in Case, r \in Request : ElevateDecision(c, r)
    \/ OpenFuture
    \/ \E m \in mailbox : HandleDecision(m)
    \/ TaskFuture
    \/ Reconciliation
    \/ \E c \in Case : Expire(c)
    \/ \E s \in PollSlot : PollStart(s) \/ PollFuture(s)
    \/ ForumAnswers
    \/ \E n \in DOMAIN prs, state \in {"merged", "closed"} : GitSettles(n, state)
    \/ \E c \in Case, l \in Local, o \in Outcome : RestDecision(c, l, o)
    \/ Tick
    \/ Crash

Spec == Init /\ [][Next]_vars

-----------------------------------------------------------------------------
(* Properties                                                               *)

Poll == [busy : BOOLEAN, left : [Case -> Nat], at : Case \cup {NoCase},
         verdict : {"published", "abandoned"}, resolved : SUBSET Case]

Recon == [pc : {"off", "armed", "apply", "done"}, attempts : Nat, snap : [Case -> Row]]

(* Every variable has its type.                                             *)
TypeOK ==
    /\ StoreTypeOK
    /\ AcspTypeOK
    /\ GitHubTypeOK
    /\ store \in BOOLEAN
    /\ pending \subseteq Case
    /\ elevating \in [Case -> Nat]
    /\ seen \subseteq Case
    /\ recon \in Recon
    /\ opening \subseteq Opening
    /\ tasks \subseteq Task
    /\ \A t \in tasks : t.pc = "record" => t.src \in Request /\ t.outcome \in Outcome
    /\ expiring \subseteq Case
    /\ poll \in [PollSlot -> Poll]
    /\ asked \subseteq Signed
    /\ now \in Nat
    /\ crashes \in Nat

Approves(c, s) ==
    \E d \in decided : d.case = c /\ d.src = s /\ d.outcome \in ApproveSpellings

(* Every draft the branch was forced to stands under a recorded approval of *)
(* its own case, and no approval is applied twice: neither a crash and a    *)
(* resumption, nor futures racing to the claim, nor a decision over REST,   *)
(* nor a decision elevated twice (spawn_decision_outcome,                   *)
(* claim_application).                                                      *)
AppliedOnce ==
    \A i \in DOMAIN commits :
        /\ Approves(commits[i].case, commits[i].by)
        /\ \A j \in DOMAIN commits : commits[j].by = commits[i].by => i = j

(* What a maintainer merged is a draft, and one that a recorded approval    *)
(* stands behind, whichever case the PR was opened for.                     *)
CorpusIsApproved ==
    \A n \in DOMAIN prs : prs[n].state = "merged" =>
        /\ prs[n].tip \in DOMAIN commits
        /\ Approves(commits[prs[n].tip].case, commits[prs[n].tip].by)

(* A case whose status claims an answer has that answer on record: the row  *)
(* and the decision rows are moved by one transaction (record_decision).    *)
AnswerOnRecord ==
    \A c \in Case :
        /\ db[c].status \in {"approved", "applying", "elevating", "published", "abandoned"}
              => \E d \in decided : d.case = c /\ d.outcome \in ApproveSpellings
        /\ db[c].status \in {"rejected", "reviewed"}
              => \E d \in decided : /\ d.case = c
                                    /\ status_for_outcome(d.outcome) = db[c].status

(* A terminal status written by the merge poll is what git says of a PR     *)
(* that the case opened or was given (PollPrs: the poll must not fabricate  *)
(* a state git disagrees with), and a PR number kept in a row or in memory  *)
(* is that of such a PR.                                                    *)
AgreesWithGit ==
    \A c \in Case :
        /\ db[c].status = "published" =>
              \E n \in DOMAIN prs : c \in prs[n].cases /\ prs[n].state = "merged"
        /\ db[c].status = "abandoned" =>
              \E n \in DOMAIN prs : c \in prs[n].cases /\ prs[n].state = "closed"
        /\ \A n \in {db[c].pr, elevating[c]} \ {0} :
              n \in DOMAIN prs /\ c \in prs[n].cases

(* However often a request is answered or an answer is delivered, at most   *)
(* one answer to it is ever recorded (run_decision_subscription claims the  *)
(* request before it dispatches).                                           *)
OneAnswerPerRequest ==
    \A d, e \in decided : d.src = e.src => d = e

=============================================================================
