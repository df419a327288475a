# VisionClaw: verification of the governance core and the position stream

VisionClaw is a Rust server (actix actors over tokio) for a shared knowledge
graph. Agents and people record decisions and propose ontology changes; the
significant ones are put to human brokers on a Nostr forum, and what they
approve becomes a pull request against a public corpus. Meanwhile a GPU layout
moves the graph, and the server streams the positions to every browser. This
directory models the governance path and the position stream in TLA+, checks
them with TLC and proves their main safety properties with TLAPS.

Paths below are relative to the repository root (`src/actors/...` is the
server crate).

## Inventory

| Component | State it keeps | Operations | What is hard |
|---|---|---|---|
| Decision-elevation actor, `src/actors/decision_elevation_actor.rs` | `pending`, `elevating`, `seen` in memory; boot flags | `ElevateDecision`, `Decision`, `Reconcile`, `PollPrs` and the futures they spawn | every future yields at each `await`; crash between any two; memory rebuilt from rows |
| Case store, `src/adapters/decision_elevation_store.rs` over `sqlite_enrichment_repository.rs` | rows `enrichment_proposals`, `enrichment_decisions` | upsert, `set_status`, `claim_application`, `record_decision` | unconditional overwrites by several writers |
| Relay client, `src/services/acsp/client.rs` | request journal and dispatch claims on disk | `connect`, `publish`, decision subscription | lost acknowledgements, answers twice, answers while nobody listens |
| REST decision door, `src/handlers/enrichment_proposals_handler.rs` | none of its own | `apply_decision` | writes the same rows with no coordination |
| Governed write door, `src/handlers/decision_handler.rs`, `src/services/decision_service.rs` | none of its own; writes the Oxigraph graph | `record_decision`, elevation trigger | a future that is dropped while its blocking task goes on; retries |
| Proposal spine, `src/services/proposal_spine.rs` | idempotency entries and intent log, in memory | `reserve`, `commit`, `record`, `mark`, `governed_commit` | each behind its own lock, nothing across them; lost in a restart |
| PR service, `src/services/github_pr_service.rs` | a branch and its PRs on GitHub | `create_ontology_pr`, `pr_state` | the branch name has eight characters of the agent id: cases share it |
| Elevation actor, `src/actors/elevation_actor.rs` | `pending`, `seen`, `elevating` in memory | `RunCycle`, `VoiceTranscript`, `Decision`, `Reconcile`, `PollPrs` | publishes before it persists, claims nothing, overlapping cycles, tracked PRs lost in a restart |
| Circuit breaker, `src/utils/network/` | state, counters | `execute`, transitions | check-then-act, half-open slots |
| Position stream, `src/actors/position_stream.rs`, driven by `client_coordinator_actor.rs` | per client: what it acknowledged, the chunks in flight; one cache and one sequence for all | `PublishPositions`, `ClientBroadcastAck`, `ConfigureStream`, the timer | timeouts racing late acknowledgements, lost frames, full mailboxes, a view that changes under way |
| Client's frame queue, `client/src/store/websocket/` | queued frames, shown positions | apply and acknowledge, drop | acknowledges only what it applied, in order |
| Message tracker, supervisor, physics, presence, settings, ontology | see `PROJECT.json` | | |

A case moves through the components like this. `decision_service` records a
decision and sends `ElevateDecision`. The actor writes a `pending` row, then
publishes a signed request; the client journals the request before it sends
it. A human answers on the forum. The subscription binds the answer to a
journaled request, claims that request on disk, and only then hands the answer
to the actor. The actor records it (decision row and case status in one
transaction); on `approve` it claims the row (`approved` to `applying`, one
statement), forces the branch its cases share to its draft, opens a corpus PR
or is given the one that is open, stamps its URL on the row (`elevating`) and
polls git until the PR is merged (`published`) or closed (`abandoned`). At
boot, reconciliation reads the open rows and rebuilds memory: it re-arms
polls, resumes unclaimed approvals, re-arms pending cases and expires stale
ones. A row left in `applying` is an application of unknown outcome and is
left to an operator.

A decision gets there through the write door: the request is authenticated and
gated, then a blocking task reserves an idempotency key, records an intent,
writes the quads in one transaction, files the receipt and marks the intent;
back in the handler, a committed and significant decision is sent to the actor.

The elevation actor does the same for concepts that the ontology refers to and
nobody authored. Every ten minutes, when a case was decided, or on a spoken
command it publishes cases and then writes their rows; an approval passes a
consistency gate, is recorded and becomes a draft and a PR, polled from memory.

The position stream is a separate loop. Each publication updates the
coordinator's cache and pumps every client; a client with no chunk outstanding
(or one that timed out) is sent the nodes that differ most from what it last
acknowledged, and each acknowledgement pumps that client again.

What makes them correct: no approval is applied twice and nothing is applied
without one; one answer per request; a status never claims an answer or a git
outcome that is not there; work that was promised durably is taken up again
after a crash. A key commits one payload, and what a caller is told is what is
in the graph. The server never believes a client holds more than it does,
no node is starved, and a client ends up showing what the server has.

## Modules

| Module | Models |
|---|---|
| `Governance` | names shared by the others: cases, requests, answers |
| `EnrichmentStore` | the SQLite store, one action per statement or transaction |
| `AcspClient` | relay client, journal, subscription, and the forum behind it |
| `GitHubPr` | the corpus repository: the shared branch, its drafts and its PRs |
| `DecisionElevation` | the decision-elevation actor, composed with the three above, the REST door, the clock and crashes |
| `MCDecisionElevation`, `MCElevation` | symmetry for TLC |
| `CaseLifecycle` | abstract specification: what a case shows an observer |
| `DecisionLifecycle` | the refinement mapping to `CaseLifecycle`, fairness, liveness |
| `DecisionClaims` | what comments of the code claim and TLC refutes |
| `DecisionInvariant` | the inductive invariant, by named parts |
| `GovernanceLemmas` | what the store's statements and GitHub's answers do, for every caller |
| `DecisionProofs` | theorems on types, answers and drafts |
| `DecisionGitProofs` | theorems on what a status may claim and what is merged |
| `LifecycleInvariant` | what more holds when a case is asked about once |
| `LifecycleProofs` | the theorem that the actor implements `CaseLifecycle` |
| `ElevationActor` | the elevation actor on the same store, client and PR service; its properties |
| `ElevationInvariant` | its inductive invariant, by named parts |
| `ElevationProofs` | theorems on its drafts, records, statuses and requests |
| `ProposalSpine` | idempotency store and intent log, one action per locked method |
| `WriteDoor` | the write door over the spine, its properties and a claim |
| `WriteDoorProofs` | theorems on keys, receipts, answers and intents |
| `PositionStream` | one client's stream, the handlers that drive it, the connection and the client |
| `PositionHistory` | the stream with a history variable: how long nodes waited |
| `PositionProofs` | theorems on what the server believes a client holds |
| `FairShareProofs` | the theorem that bounds how often a node is passed over |

Correspondence. A handler runs to its end without yielding, so it is one
action. A future yields at each `await`, so it is one action per stretch
between awaits: `opening` holds the futures of `ElevateDecision` (persist,
publish, closeout, map), `tasks` those of `spawn_decision_outcome` (record,
claim, create, open, find, read, write, map), `expiring` those of `spawn_expiry`, and
`poll` those of `PollPrs`, one per slot so that polls may overlap. `map` is
the closure that touches actor memory after the future is done. `store`,
`pending`, `elevating`, `seen` are the fields of the actor; `recon` is
`reconciled`, `reconcile_attempts` and the rows a scan returned. A row is its
status, its PR number (0 for none; GitHub PRs are a sequence and a number is
an index) and the time it was opened. `commits` are the drafts the shared
branch was forced to, in order, each with the approval it stands under; a PR
has the cases that opened it or were given it, and the `tip` it was merged or
closed with. `approvedBy` and `asked` are auxiliary.
The definitions keep the names of the functions they translate.

Each call that can fail has a name in `Fault`; `Faults` says which fail in an
instance. A failing call has the effect the code handles and, where the
outcome is really unknown, both: a publish without acknowledgement may have
reached the forum (`ack`) or not (`relay`), a PR call that errs may have
forced the branch or opened the PR.

The elevation actor (`ElevationActor`). `opening` holds the futures of
`RunCycle` and of a spoken command, which publish, persist and map alike;
`tasks` those of `Decision` and `approve_with_gate` (record, or gate, create,
open, find, map); `recon` the one of `Reconcile`. A label is a case and a
spelling: the case id does not depend on the spelling, the skip list does, and
a recovered case has the spelling of its title. A cycle chooses any candidates
within its skip list and budget; the gate passes or blocks any draft. A record
is refused when the row is missing (the decisions table refers to it) or by a
fault; `refused` remembers the approvals applied all the same. `Tick` moves the
clock while the process is down, since only `Reconcile` reads it.

The write door (`WriteDoor`). `call` is one request from the handler to its
answer: the gates, then one step per locked method of the spine and one for
the transaction, then `settle`, the rest of the handler. `Cancel` drops the
handler; the blocking task goes on and its result reaches nobody. A crash
keeps the graph and nothing else. Payload hashes are the payloads, and a key
derived from a payload is `auto` of it; a caller who sends the text of a
derived key as its own is not modelled. The elevation trigger puts a proposal
into `elevated`, which is where `Retrigger` of `DecisionElevation` starts.

Abstractions. Drafts, titles, reasons and signatures are left out. A response
is bound to exactly one journaled request or ignored. Publishing panel state
and status receipts changes nothing the actor reads, and is left out. The
mailbox is a set, so decisions may be handled in any order. A store that never
attaches and a poll without a GitHub token are behaviours that take no such
step. A REST decision is considered for rows the actor owns; its rationale
gate, its write-back to the ontology store and the stub it makes for an
unknown case are not modelled. `Tick` moves the clock only while the process
is down or idle: no handler, queue or boot sequence takes the 14 days of a
TTL.

The stream (`PositionStream`). Handlers of the coordinator are one action
each, the pump they end in included; `Timer` is the 50 ms tick. `acked` and
`in_flight` are the fields of `ClientStream`, a missing entry being `NotHeld`
(chunk 0); `cache` and `cached` are `position_cache` and its keys, with the
analytics that ride on a record; `visible` is entitlement and filter together,
and `ViewChange` is any of their updates. Sequence numbers only grow, so the
in-flight list, the connection and the acknowledgements are sets ordered by
number. The timeout and its backoff are abstract: a pump may find the chunk in
flight still waited for or timed out. A timeout while the chunk or its
acknowledgement is still on its way counts as a fault, like a lost frame or a
full mailbox, so that runs can bound them. The connection and the client's
queue deliver in order (one WebSocket, one frame at a time); a closed
connection ends the model, since a reconnecting client is a new stream. Other
clients only make the sequence skip numbers. Positions lie on a line; floating
point is not modelled.

## Runs

| Run | Question | Instance |
|---|---|---|
| `decision_shared` | do two cases on one branch and one PR, repeats of one decision, lost acknowledgements and stamps and a crash leave every draft under its own approval and every status true? | 2 cases, 2 requests, 1 crash; 2.1 million states |
| `decision_rest` | do drafts, decisions, statuses and git stay consistent when REST overwrites the same row and every call may fail? | 1 case, 1 request, 2 REST decisions, all faults, 1 crash; 3.3 million states |
| `decision_lifecycle` | is the actor a case lifecycle, and does it finish what it promised? | 1 case, 1 request, 2 overlapping polls, refused writes, 2 crashes; 32 thousand states |
| `claim_dropped_foreign` | is a dropped decision always replayed or foreign? | violated |
| `claim_reached_corpus` | is a published decision in the corpus? | violated |
| `elevation` | what does the elevation actor keep to without claims, with overlapping cycles, every fault, REST and a crash? | 1 case, 2 spellings, 2 requests, 2 opening futures, 1 local decision, all faults, 1 crash; 2.5 million states |
| `claim_merged_reported` | is a merged elevation PR reported? | violated |
| `stream_sync` | does the server's record stay sound, and does the client catch up? | 2 nodes, 2 positions, 2 analytics keys, chunks of 1 or 2, 3 changes, 1 fault; 61 thousand states |
| `stream_fair_share` | does the reserved share bound how often a node is passed over? | 3 nodes, chunks of 1 or of 2 with 1 reserved, 3 changes, no faults; 82 thousand states |
| `claim_eventually_current` | does the client catch up when as many chunks go unanswered as the list keeps? | violated |
| `write_door` | do keys, receipts, answers and the graph agree when calls race, fail, are abandoned and a crash comes between? | 3 calls, 1 supplied key, 2 payloads, 1 crash; 1.1 million states |
| `claim_success_recorded` | does success mean that the caller's own decision was written? | violated |

Properties of the decision runs: `TypeOK`; `AppliedOnce` (a draft stands under
a recorded approval of its case, no two under one), `CorpusIsApproved` (what is
merged is approved, whoever's PR it was), `OneAnswerPerRequest`,
`AnswerOnRecord`, `AgreesWithGit` (invariants); `ImplementsLifecycle`
(refinement); `SettledPrConcludes`, `ApprovalIsTakenUp` (liveness). Of the
elevation run: `TypeOK`, `OneDraftPerApproval`, `DraftIsRecorded`,
`ElevatedIsMerged`, `AwaitingIsOnForum`. Of the write door: `TypeOK`,
`OnePayloadPerKey`, `ReceiptIsBacked`, `AnswerIsTrue`, `LateWritesNothing`,
`ElevatedIsRecorded`, `IntentResolved`. Of the stream runs: `TypeOK` and
`HeldByClient` (invariants), `EventuallyCurrent` (liveness), `NotStarved` (a
bound on the history variable `waits`). Each has a mutant of the code in
`PROJECT.json` that breaks it.

Bounds. Cases interact through `MaxOpenCases` and through the branch and the
PR they share: two cases show that, one shows the races on a row; the proofs
cover any number. Two requests are what a repeated trigger needs, two local decisions
what it takes to approve a case again while its PR is open, one crash what a
resumption needs, and two what a resumption that dies needs. `OpenCaseTtl = 0`
and `MaxNow = 1` make a case fresh or stale. In `elevation` two opening futures
are two cycles that overlap, or a cycle and a spoken command; two requests let
both publish, or one publish again after a crash, and both be answered; one
local decision is a REST decision or a rejection by the gate. In `write_door`
three calls are a race of two and a retry, or two payloads under one key and a
third that finds the receipt; one supplied key and the derived ones cover both
kinds. The decision, elevation and door runs set `CHECK_DEADLOCK
FALSE`: an actor or a door with nothing to do waits.

For the stream, three changes let a node be published, move and move back, or
be hidden and shown again, and one fault is a late acknowledgement or a lost
chunk; `HeldByClient` is proved for any number. `InFlightHistory` is 8 as in
the code where nothing should age out, and 2 in `claim_eventually_current`,
where as many chunks must go unanswered as the list holds. Stored settings
keep a chunk between 100 and 20000 nodes with a quarter reserved; chunks of 2
with a divisor of 2 are the smallest instance with a share to give, and chunks
of 1 have none. `NotStarved` counts the frames since the view or the settings
last changed, so that a node is not blamed on a chunk size that is gone.
`stream_fair_share` has no faults: the bound counts acknowledged chunks, and a
chunk that is lost is planned again. Its `MaxChanges` is what the bound and
its mutant need: an initial publication and two in which everybody moves.

Fairness (`DecisionLifecycle`). Weak fairness of connect, store attach,
reconciliation, every future and the mailbox: tokio polls futures that can
run. Weak fairness of starting a poll: `run_interval` keeps sending `PollPrs`.
Strong fairness of a poll's terminal write: a store that refuses writes does
not refuse for ever. Humans, git, the clock and crashes owe nothing. The
liveness run leaves out the faults the code does not retry (`scan`, `record`,
`claim`, `github`, `connect`, `terminal`), after which nothing is promised,
and a second spelling of approval, which the actor leaves to the next boot.

Fairness (`ElevationActor`, for `claim_merged_reported`). Weak fairness of
connect, subscribe, reconciliation, every future, the mailbox and the interval
of the poll. Without the crash the claim holds under it.

Fairness (`PositionStream`). Weak fairness of the timer (`run_interval`), of
the acknowledgement handler (actix delivers what is in a mailbox) and of the
client applying the next frame. Faults are bounded, so a frame is not lost for
ever; changes are bounded, since a client cannot be current with a graph that
never rests.

The refinement maps every case by itself; a PR that several cases hold is
settled for all of them in one step of `CaseLifecycle`. It holds when a decision is elevated once, is answered on the
forum only and acknowledgements are not lost. It needs two additions to the
lifecycle drawn in `decision_elevation_store.rs`: an unclaimed approval may
expire at boot, and a case may conclude from `applying` when its stamp was
refused but memory still tracks the PR. Outside those conditions the drawing
does not describe the code: a repeated trigger reopens a closed case, a REST
decision moves a case from any status to any answer, and after a lost
acknowledgement a case closed as `publish_failed` can still be answered.

## Findings

* `DroppedIsReplayedOrForeign`: an answer that arrives before the request's
  acknowledgement is processed, or after a restart before reconciliation, is
  dropped; its request is already claimed in the journal, so no other answer
  to it is ever handed on.
* `PublishedReachedCorpus`: all cases of the actor push to one branch, by force,
  and are given one PR. When two are approved before the PR is merged, the
  second draft replaces the first; both cases are published, the first draft
  never reached the corpus.
* `MergedIsReported`: the elevation actor keeps the PRs it polls in memory only;
  after a restart a merge is never reported and the row stays `approved`.
* `SuccessIsRecorded`: idempotency is not scoped by principal. A second
  principal with the same body, or the same key and body, is told success with
  a URN of its own for which nothing was written.
* `EventuallyCurrent`, when acknowledgements come after their chunk aged out:
  the client applied a chunk the server no longer knows. If the node has moved
  back to where it was last acknowledged, nothing is due and the client shows
  it in the wrong place until it moves again. With the code's list of 8 this
  takes 8 timeouts in a row, so a client that stalled for many times
  `ack_timeout` and then caught up.

Two more that the lifecycle section shows: boot reconciliation expires an
approval that was not claimed before the crash, as if unanswered, and a
decision elevated again after a restart reopens its closed case.

## Proofs

`DecisionProofs` proves, for all values of the constants (any sets of cases,
requests, answers and poll slots, any faults, any bounds), from the
assumptions that requests, local decisions and the two marker strings are
distinct, that outcomes are the known spellings, and that the numeric
parameters are naturals:

* `TypeCorrect`: `Spec => []TypeOK`, one step per action.
* `OneAnswer`: `Spec => []OneAnswerPerRequest`. The invariant `AnswerFlow`
  follows an answer from the claim in the journal through the mailbox and a
  future to the decision row: it is in one place at a time, and a request that
  is answered anywhere is claimed. Without it the property is not inductive,
  since two copies under way would both be recorded.
* `AppliesOnce`: `Spec => []AppliedOnce`. The invariant `ApprovalToken` makes
  an approval a token that lies on an `approved` row, in a future that has
  claimed it, or in the draft pushed under it, never in two. Recording a
  decision makes a fresh token (by `AnswerFlow`), the claim moves it off the
  row, the push spends it, a crash loses it.

Most actions leave both flows alone; `AnswersFrame` and `ApprovalsFrame` say
so once, and each action is either shown to be such a step or argued on its
own.

`DecisionGitProofs` adds the rest of `DecisionInvariant`, so `Invariant` is
`Spec => []Inv`:

* `StatusAgreesWithGit`: `Spec => []AgreesWithGit`. A PR number is copied
  from GitHub's answer to a future, to memory, to the row, to a boot snapshot
  and to a poll, and each copy may be old when it is used. `PrNumbers` says
  that every copy names a PR of its own case, which lasts because PRs are only
  ever added and a settled one never moves; `Verdicts` says that a poll's
  verdict, and a status written from one, is what git settled.
* `StatusHasAnswer`: `Spec => []AnswerOnRecord`. Decisions are only ever
  added, so an old status that a future writes back still has its answer;
  `applying` and `elevating` come with an approval because a draft does
  (`ApprovalToken`).
* `MergedIsApproved`: `Spec => []CorpusIsApproved`. A PR is merged with the last
  draft on the branch, whose case need not be one of its own; `PrsApplied` says
  that a PR is never there without a draft.

Both argue each action as a move of one row to a status that is justified in
the next state (`Justified`), with `StatusFrame` for the rows it leaves alone.

`PositionProofs` proves, for every set of nodes, positions, keys and settings,
every list length and every number of changes and faults:

* `StreamTypeCorrect`: `Spec => []TypeOK`.
* `HeldIsHeld`: `Spec => []HeldByClient`. By itself the property is not kept
  by an acknowledgement: that needs `Vouched` (an acknowledgement on its way
  speaks for what the client shows of the chunk it names), which a frame
  arriving at the client keeps because numbers name one chunk (`OneChunk`),
  frames arrive in their order (`InOrder`) and a new chunk is numbered past
  everything (`Numbered`). `PumpKeepsInv` argues the pump once for the four
  handlers that end in one.

`WriteDoorProofs` proves, for any calls, keys, payloads, principals and crashes:

* `DoorInvariant`: `Spec => []DoorInv`, and from it `DoorTypeCorrect` (`TypeOK`),
  `KeyCommitsOnePayload` (`OnePayloadPerKey`), `ReceiptsAreBacked`
  (`ReceiptIsBacked`), `AnswersAreTrue` (`AnswerIsTrue`), `RetryWritesNothing`
  (`LateWritesNothing`), `OnlyRecordedIsElevated` (`ElevatedIsRecorded`) and
  `NoIntentPending` (`IntentResolved`). None but the types is inductive alone.
  `StageInv` says where in the pipeline an intent and the quads are there;
  `KeyInv` that from its reservation on a call finds its own payload under its
  key, which is what keeps two racing payloads from both committing; `LateInv`
  that a retry whose receipt was there when it arrived, or came while it waited
  in the gates, still finds it when the blocking thread looks, since receipts
  are only replaced by receipts for the same payload and a crash ends the call; `IntentsOfCalls` that only calls have intents.

`ElevationProofs` proves, for any cases, spellings, requests, futures, faults
and crashes, from `ElevationInvariant`:

* `ElevationTypeCorrect`: `Spec => []TypeOK`.
* `OneDraftEach`: `Spec => []OneDraftPerApproval`. The actor claims nothing in
  the store, so the argument is the answer's: it is in the mailbox, in a future
  that has not pushed, or in a draft, and in one of them only (`AnswerFlow`).
  The journal's claim lets it into the mailbox once.
* `DraftsAreRecorded`: `Spec => []DraftIsRecorded`. A record that finds its
  event on file writes nothing and goes on; that what is on file is the same
  approval of the same case needs `RecordFlow`, in which a request is signed
  once, for one case.
* `StatusIsWhatGitSays`: `Spec => []ElevatedIsMerged`, as for the other actor:
  every copy of a PR number names a PR of its case and GitHub only grows.
* `WhoWaitsWasAsked`: `Spec => []AwaitingIsOnForum`. `ForumFlow` follows a case
  from its publication to its row and from a row to a resumed case; journal
  and forum only grow.

`FairShareProofs` proves `NobodyStarves`: `HistorySpec => []NotStarved`, for
any number of nodes, every chunk size and divisor, and changes of position,
view and settings, under `MaxFaults = 0`, that is while every chunk is
acknowledged in time. The invariant is `Overtaken`: a node passed over `w`
times has behind it in age, that is acknowledged later or in the chunk on its
way, the movers of the first frame and `w` fair shares. A frame that passes it
over takes its fair share from the nodes acknowledged before it, and so moves
them past it. These are sets that cannot overlap, so `w` shares fit into the
other nodes. It needs `Lockstep`, one chunk at a time and newer than anything
acknowledged. That a fair share is really filled is a fact about ranks in a
finite order, argued from the least natural number and not by induction.

`LifecycleProofs` proves `ActorImplementsLifecycle`: `Spec =>
ImplementsLifecycle`, for any number of cases, requests, polls and crashes and
any clock, under `OneRequest`: no decision over REST, none elevated twice, no
publication that errs and reached the forum. These are the conditions of the
refinement run; without each of them the lifecycle is left (see above). Every
fault but `ack` is allowed. `Inv` is not enough, since a step of the lifecycle
has a source status and the code often does not look at it: `record_decision`,
`set_status` and the stamp overwrite what they find. `LifeInv` says what they
find:

* `Requests`, `Openings`: a case has one request, so an answer about to be
  recorded is the first to its case and finds it `pending`; a row that is
  closed out as `publish_failed` is of a request that is not on the forum.
* `Stages`, `OnePr`: from its claim to its stamp a future has its case to
  itself, there is no PR before it opens or finds one, and none is tracked
  before it is stamped; so a case has one PR and the stamp overwrites the row
  it read.
* `BootOrder`, `Snapshot`, `Expiries`: a boot plans from rows that may have
  moved since. What this process has in hand is not stale, the clock does not
  move during a boot, and a stale row nobody has in hand has not moved: so an
  expiry finds its case unanswered or unclaimed, and alone.

Each part has a frame lemma; each action is shown to leave a part alone or is
argued. Then each action is a step of `CaseLifecycle` or invisible: the poll's
terminal write, which looks at nothing, is one because a verdict is what git
says (`Verdicts`) of the only PR (`OnePr`), and a second one shows nothing.

Liveness (`SettledPrConcludes`, `ApprovalIsTakenUp`, `EventuallyCurrent`) stays
with TLC, and so do the refuted claims. Every invariant that a run checks, and
the refinement, is a theorem.

## Plan

1. `NobodyStarves` with faults: a bound that counts the chunks timed out.
2. `CircuitBreaker` (half-open slots and calls that never report), then the
   supervisor and the settings cache, each if it is worth a run.
3. The rest of the REST door: rationale gate, write-back, stub rows.

Not modelled: GPU kernels and layout (floating point), ontology reasoning and
graph queries (pure data), what the consistency gate computes and how
candidates are ranked, the ontology proposal door (retired, its route answers
410), the message tracker (its lock sections do not interleave on the server's
single-threaded runtime), presence, the web client's rendering. Most of the
repository's lines are of these kinds.
