---------------------------- MODULE LifecycleProofs ----------------------------
(***************************************************************************)
(* The decision-elevation actor implements CaseLifecycle, for any number   *)
(* of cases, polls and crashes and every fault but a lost acknowledgement. *)
(*                                                                         *)
(* First LifeInv, part by part: what leaves a part alone is said once, by  *)
(* an Untouched and its frame lemma, and an action is such a step or is    *)
(* argued on its own.  Then each action as a step of the lifecycle.        *)
(***************************************************************************)
EXTENDS LifecycleInvariant, DecisionGitProofs

Claimed == {"applying", "elevating", "published", "abandoned"}

(* A case this process has in hand.                                         *)
InHand(c) == Busy(c) \/ Tracked(c)

RequestsUntouched ==
    /\ asked' = asked /\ journal' = journal /\ forum' = forum /\ decided' = decided
    /\ mailbox' \subseteq mailbox
    /\ At("record")' \subseteq At("record")

OpeningsUntouched ==
    /\ opening' \subseteq opening /\ asked' = asked /\ forum' = forum
    /\ \A c \in Case :
          \/ db'[c].status = db[c].status
          \/ /\ Known(c) /\ db'[c].status \notin {"none", "publish_failed", "elevated"}
             /\ \A o \in opening' : o.case = c => o.pc = "map"

BootUntouched ==
    /\ store' = store /\ recon' = recon /\ now' = now /\ expiring' \subseteq expiring
    /\ \A c \in Case :
          /\ InHand(c)' => InHand(c)
          /\ Old(db[c])' => Old(db[c])

SnapshotUntouched ==
    /\ recon' = recon /\ now' = now
    /\ \A c \in Case :
          \/ db'[c] = db[c]
          \/ /\ ~Old(recon.snap[c]) /\ Known(c)'
             /\ recon.pc = "apply" => db'[c].status # "expired"
             /\ db'[c].status = "elevating" => db'[c].pr # 0

ExpiriesUntouched ==
    /\ expiring' \subseteq expiring
    /\ \A c \in Case :
          /\ Busy(c)' => Busy(c)
          /\ \/ db'[c].status = db[c].status
             \/ c \notin expiring' /\ (Busy(c)' => db'[c].status # "expired")

StagesUntouched ==
    \A t \in tasks' :
        /\ t.pc \in Late => t \in tasks
        /\ t.pc \in Late \ {"map"} =>
              /\ db'[t.case] = db[t.case]
              /\ PrOf(t.case)' = PrOf(t.case)
              /\ recon'.snap[t.case].pr = recon.snap[t.case].pr
              /\ Tracked(t.case)' => Tracked(t.case)

OnePrUntouched ==
    \A c \in Case :
        /\ PrOf(c)' = PrOf(c)
        /\ db'[c].status = db[c].status \/ PrOf(c) = {} \/ db'[c].status \in Claimed

-----------------------------------------------------------------------------

LEMMA RequestsFrame == Requests /\ RequestsUntouched => Requests'
BY DEF Requests, RequestsUntouched, OfCase

LEMMA OpeningsFrame == TypeOK /\ Openings /\ OpeningsUntouched => Openings'
<1> SUFFICES ASSUME TypeOK, Openings, OpeningsUntouched PROVE Openings'
  OBVIOUS
<1>1. (\A o \in opening : o.case \in Case) /\ (\A a \in asked : a.case \in Case)
  BY DEF TypeOK, Opening, Signed
<1>2. \A c \in Case : Known(c)' => Known(c)
  BY DEF OpeningsUntouched, Known
<1>3. \A c \in Case : Known(c)' => \E r \in Request : OfCase(r, c)'
  BY <1>2 DEF Openings, OpeningsUntouched, OfCase
<1>4. \A a \in asked' : a.req \in forum' =>
         db'[a.case].status \notin {"none", "publish_failed", "elevated"}
  BY <1>1 DEF Openings, OpeningsUntouched
<1>5. ASSUME NEW o \in opening'
      PROVE  /\ OfCase(o.req, o.case)'
             /\ \A p \in opening' : p.case = o.case => p = o
             /\ o.pc = "persist" => db'[o.case].status = "none"
             /\ o.pc \in {"publish", "closeout"} =>
                   db'[o.case].status = "pending" /\ o.req \notin forum'
  BY <1>1, <1>5 DEF Openings, OpeningsUntouched, OfCase
<1> QED
  BY <1>3, <1>4, <1>5 DEF Openings

LEMMA BootFrame == BootOrder /\ BootUntouched => BootOrder'
BY DEF BootOrder, BootUntouched, InHand, Old, Stale

LEMMA SnapshotFrame == Snapshot /\ SnapshotUntouched => Snapshot'
BY DEF Snapshot, SnapshotUntouched, Old, Stale, Known

LEMMA ExpiriesFrame == TypeOK /\ Expiries /\ ExpiriesUntouched => Expiries'
BY DEF TypeOK, Expiries, ExpiriesUntouched

LEMMA StagesFrame == Stages /\ StagesUntouched => Stages'
BY DEF Stages, StagesUntouched, Late

LEMMA OnePrFrame == OnePr /\ OnePrUntouched => OnePr'
BY DEF OnePr, OnePrUntouched, Claimed

-----------------------------------------------------------------------------
(* Actions that move no row                                                 *)

Sound == Inv /\ LifeInv

LEMMA SoundParts ==
    ASSUME Sound
    PROVE  /\ TypeOK /\ Requests /\ Openings /\ BootOrder /\ Snapshot
           /\ Expiries /\ Stages /\ OnePr
BY DEF Sound, Inv, LifeInv

(* The rows, GitHub, the forum and boot are left alone.                     *)
NothingMoves ==
    /\ db' = db /\ decided' = decided
    /\ asked' = asked /\ journal' = journal /\ forum' = forum
    /\ store' = store /\ recon' = recon /\ now' = now
    /\ \A c \in Case : PrOf(c)' = PrOf(c)

(* The mailbox and the futures about to record an answer may change.        *)
LEMMA QuietButRequests ==
    ASSUME Sound, NothingMoves, Requests', expiring' = expiring, opening' \subseteq opening,
           \A t \in tasks' : t.pc \in Late => t \in tasks,
           \A c \in Case : (Busy(c)' => Busy(c)) /\ (Tracked(c)' => InHand(c)),
           \A t \in tasks' : t.pc \in Late \ {"map"} => (Tracked(t.case)' => Tracked(t.case))
    PROVE  LifeInv'
<1> USE SoundParts
<1>2. Openings'
  BY OpeningsFrame DEF OpeningsUntouched, NothingMoves
<1>3. BootOrder'
  <2>1. \A c \in Case : Old(db[c])' => Old(db[c])
    BY DEF Old, Stale, NothingMoves
  <2>2. \A c \in Case : InHand(c)' => InHand(c)
    BY DEF InHand
  <2> QED
    BY <2>1, <2>2, BootFrame DEF BootUntouched, NothingMoves
<1>4. Snapshot'
  BY SnapshotFrame DEF SnapshotUntouched, NothingMoves
<1>5. Expiries'
  BY ExpiriesFrame DEF ExpiriesUntouched, NothingMoves
<1>6. Stages'
  <2>1. \A t \in tasks : t.case \in Case
    BY DEF TypeOK, Task
  <2> QED
    BY <2>1, StagesFrame DEF StagesUntouched, NothingMoves, Late
<1>7. OnePr'
  BY OnePrFrame DEF OnePrUntouched, NothingMoves
<1> QED
  BY <1>2, <1>3, <1>4, <1>5, <1>6, <1>7 DEF LifeInv

LEMMA QuietStep ==
    ASSUME Sound, NothingMoves, expiring' = expiring,
           mailbox' \subseteq mailbox, At("record")' \subseteq At("record"),
           opening' \subseteq opening,
           \A t \in tasks' : t.pc \in Late => t \in tasks,
           \A c \in Case : (Busy(c)' => Busy(c)) /\ (Tracked(c)' => Tracked(c))
    PROVE  LifeInv'
<1>1. Requests'
  BY SoundParts, RequestsFrame DEF RequestsUntouched, NothingMoves
<1>2. \A t \in tasks : t.case \in Case
  BY SoundParts DEF TypeOK, Task
<1>3. \A c \in Case : Tracked(c)' => InHand(c)
  BY DEF InHand
<1>4. \A t \in tasks' : t.pc \in Late \ {"map"} => (Tracked(t.case)' => Tracked(t.case))
  BY <1>2
<1> QED
  BY <1>1, <1>3, <1>4, QuietButRequests

LEMMA SamePrs == prs' = prs => \A c : PrOf(c)' = PrOf(c)
BY DEF PrOf

LEMMA SamePolls ==
    UNCHANGED <<elevating, poll>> => \A c : Tracked(c)' = Tracked(c)
BY DEF Tracked

LEMMA SameHands ==
    UNCHANGED <<pending, opening, tasks>> => \A c : Busy(c)' = Busy(c)
BY DEF Busy

(* A future that ends, or goes on with the same case.                       *)
LEMMA TaskHands ==
    ASSUME UNCHANGED <<pending, opening>>, NEW t \in tasks,
           TaskEnd(t) \/ \E u : TaskStep(t, u) /\ u.case = t.case
    PROVE  \A c : Busy(c)' => Busy(c)
BY DEF Busy, TaskEnd, TaskStep

LEMMA OpenHands ==
    ASSUME UNCHANGED <<pending, tasks>>, NEW o \in opening,
           OpenEnd(o) \/ \E pc : OpenStep(o, pc)
    PROVE  \A c : Busy(c)' => Busy(c)
<1>1. CASE OpenEnd(o)
  BY <1>1 DEF Busy, OpenEnd
<1>2. CASE \E pc : OpenStep(o, pc)
  <2> PICK pc : OpenStep(o, pc)
    BY <1>2
  <2>1. [o EXCEPT !.pc = pc].case = o.case
    OBVIOUS
  <2> QED
    BY <2>1 DEF Busy, OpenStep
<1> QED
  BY <1>1, <1>2

(* A future that ends having changed nothing.                               *)
LEMMA TaskGivesUp ==
    ASSUME Sound, NEW t \in tasks, TaskEnd(t), UNCHANGED <<storeVars, acspVars, memVars>>,
           UNCHANGED <<opening, expiring, poll, bootVars, prs, clockVars>>
    PROVE  LifeInv'
<1> USE DEF storeVars, acspVars, memVars, bootVars, clockVars
<1>1. NothingMoves /\ expiring' = expiring
  BY SamePrs DEF NothingMoves
<1>2. \A c \in Case : (Busy(c)' => Busy(c)) /\ (Tracked(c)' => Tracked(c))
  BY TaskHands, SamePolls
<1>3. tasks' \subseteq tasks /\ At("record")' \subseteq At("record")
  BY TaskStages DEF TaskEnd
<1> QED
  BY <1>1, <1>2, <1>3, QuietStep

LEMMA StutterKeepsLife ==
    ASSUME Sound, UNCHANGED vars \/ Connect \/ Subscribe
    PROVE  LifeInv'
<1> USE DEF storeVars, acspVars, memVars, bootVars, clockVars, futureVars, envVars, githubVars
<1>1. /\ UNCHANGED <<storeVars, memVars, futureVars, bootVars, envVars>>
      /\ UNCHANGED <<journal, forum, mailbox>>
  BY DEF vars, Connect, connect, Subscribe, subscribe
<1>2. NothingMoves /\ expiring' = expiring /\ At("record")' \subseteq At("record")
  BY <1>1, SamePrs DEF NothingMoves, At
<1>3. \A c \in Case : (Busy(c)' => Busy(c)) /\ (Tracked(c)' => Tracked(c))
  BY <1>1, SamePolls, SameHands
<1> QED
  BY <1>1, <1>2, <1>3, QuietStep


(* A poll is about cases that were tracked when it started.                 *)
LEMMA PollTracks ==
    ASSUME TypeOK, NEW s \in PollSlot, NEW p \in Poll, PollStep(s, p),
           \A c \in Case : p.left[c] # 0 \/ p.at = c => Tracked(c),
           \A c \in Case : elevating'[c] # 0 => elevating[c] # 0
    PROVE  \A c \in Case : Tracked(c)' => Tracked(c)
<1>1. \A q \in PollSlot : poll'[q] = IF q = s THEN p ELSE poll[q]
  BY DEF PollStep, TypeOK
<1> QED
  BY <1>1 DEF Tracked

LEMMA PollKeepsLife ==
    ASSUME Sound, NEW s \in PollSlot,
           \/ PollStart(s) \/ PollPersistFails(s) \/ PollDone(s)
           \/ \E c \in Case : PollQuery(s, c)
    PROVE  LifeInv'
<1> USE DEF storeVars, acspVars, memVars, bootVars, clockVars, envVars, githubVars
<1> USE SoundParts
<1>1. /\ UNCHANGED <<storeVars, acspVars, pending, opening, tasks, expiring, bootVars, envVars>>
      /\ \A c \in Case : elevating'[c] # 0 => elevating[c] # 0
  BY DEF PollStart, PollPersistFails, PollDone, PollQuery
<1>2. poll[s] \in Poll /\ elevating \in [Case -> Nat]
  BY DEF TypeOK
<1>3. IdlePoll \in Poll /\ IdlePoll.at = NoCase /\ \A c \in Case : IdlePoll.left[c] = 0
  BY DEF IdlePoll, Poll, NotTracked
<1>4. \A c \in Case : NoCase # c
  BY NoCaseAssumption
<1>5. \A c \in Case : poll[s].left[c] # 0 \/ poll[s].at = c \/ elevating[c] # 0 => Tracked(c)
  BY DEF Tracked
<1>6. \E p \in Poll : /\ PollStep(s, p)
                      /\ \A c \in Case : p.left[c] # 0 \/ p.at = c => Tracked(c)
  <2>1. CASE PollStart(s)
    <3> PICK p : p = [IdlePoll EXCEPT !.busy = TRUE, !.left = elevating]
      OBVIOUS
    <3>1. p \in Poll /\ p.left = elevating /\ p.at = NoCase
      BY <1>2, <1>3 DEF Poll
    <3> QED
      BY <1>4, <1>5, <2>1, <3>1 DEF PollStart
  <2>2. CASE PollPersistFails(s)
    <3> PICK p : p = [poll[s] EXCEPT !.at = NoCase, !.verdict = "published"]
      OBVIOUS
    <3>1. p \in Poll /\ p.left = poll[s].left /\ p.at = NoCase
      BY <1>2 DEF Poll
    <3> QED
      BY <1>4, <1>5, <2>2, <3>1 DEF PollPersistFails
  <2>3. CASE PollDone(s)
    BY <1>3, <1>4, <2>3 DEF PollDone
  <2>4. CASE \E c \in Case : PollQuery(s, c)
    <3> PICK c \in Case : PollQuery(s, c)
      BY <2>4
    <3> PICK left : left = [poll[s].left EXCEPT ![c] = 0]
      OBVIOUS
    <3>1. /\ left \in [Case -> Nat]
          /\ \A b \in Case : left[b] # 0 => poll[s].left[b] # 0
      BY <1>2 DEF Poll
    <3>2. poll[s].left[c] # 0
      BY DEF PollQuery
    <3>3. CASE PollStep(s, [poll[s] EXCEPT !.left = left])
      <4> PICK p : p = [poll[s] EXCEPT !.left = left]
        OBVIOUS
      <4>1. p \in Poll /\ p.left = left /\ p.at = poll[s].at
        BY <1>2, <3>1 DEF Poll
      <4>2. PollStep(s, p)
        BY <3>3
      <4>3. \A b \in Case : p.left[b] # 0 \/ p.at = b => Tracked(b)
        BY <1>5, <3>1, <4>1
      <4> QED
        BY <4>1, <4>2, <4>3
    <3>4. CASE PollStep(s, [poll[s] EXCEPT !.left = left, !.at = c,
                            !.verdict = terminal_case_status(prs[poll[s].left[c]].state)])
      <4> PICK v : v = terminal_case_status(prs[poll[s].left[c]].state)
        OBVIOUS
      <4> PICK p : p = [poll[s] EXCEPT !.left = left, !.at = c, !.verdict = v]
        OBVIOUS
      <4>1. v \in {"published", "abandoned"}
        BY DEF terminal_case_status
      <4>2. p \in Poll /\ p.left = left /\ p.at = c
        BY <1>2, <3>1, <4>1 DEF Poll
      <4>3. PollStep(s, p)
        BY <3>4
      <4>4. \A b \in Case : p.left[b] # 0 \/ p.at = b => Tracked(b)
        BY <1>5, <3>1, <3>2, <4>2
      <4> QED
        BY <4>2, <4>3, <4>4
    <3> QED
      BY <3>3, <3>4 DEF PollQuery
  <2> QED
    BY <2>1, <2>2, <2>3, <2>4
<1>7. \A c \in Case : Tracked(c)' => Tracked(c)
  BY <1>1, <1>6, PollTracks
<1>8. \A c \in Case : Busy(c)' => Busy(c)
  BY <1>1, SameHands
<1>9. NothingMoves /\ At("record")' \subseteq At("record")
  BY <1>1, SamePrs DEF NothingMoves, At
<1> QED
  BY <1>1, <1>7, <1>8, <1>9, QuietStep

(* Settling a PR takes no case off it and adds none.                        *)
LEMMA SettlingKeepsLife ==
    ASSUME Sound, NEW n \in DOMAIN prs, NEW state \in {"merged", "closed"}, GitSettles(n, state)
    PROVE  LifeInv'
<1> USE DEF storeVars, acspVars, memVars, bootVars, clockVars, futureVars
<1>1. prs \in Seq(Pr) /\ commits \in Seq(Draft)
  BY SoundParts DEF TypeOK, GitHubTypeOK
<1>2. DOMAIN prs' = DOMAIN prs /\ \A i \in DOMAIN prs : prs'[i].cases = prs[i].cases
  BY <1>1, SettleEffect DEF GitSettles
<1>3. \A c : PrOf(c)' = PrOf(c)
  BY <1>2 DEF PrOf
<1>4. NothingMoves /\ At("record")' \subseteq At("record")
  BY <1>3 DEF GitSettles, NothingMoves, At
<1>5. \A c \in Case : (Busy(c)' => Busy(c)) /\ (Tracked(c)' => Tracked(c))
  BY SamePolls, SameHands DEF GitSettles
<1> QED
  BY <1>4, <1>5, QuietStep DEF GitSettles

LEMMA OpenMapKeepsLife ==
    ASSUME Sound, NEW o \in opening, OpenMap(o)
    PROVE  LifeInv'
<1> USE DEF storeVars, acspVars, bootVars, clockVars, envVars, githubVars
<1>1. NothingMoves /\ At("record")' \subseteq At("record")
  BY SamePrs DEF OpenMap, NothingMoves, At
<1>2. \A c \in Case : Tracked(c)' => Tracked(c)
  BY SamePolls DEF OpenMap
<1>3. \A c \in Case : Busy(c)' => Busy(c)
  BY DEF OpenMap, OpenEnd, Busy
<1> QED
  BY <1>1, <1>2, <1>3, QuietStep DEF OpenMap, OpenEnd

-----------------------------------------------------------------------------
(* Answers on their way to the actor                                        *)

LEMMA AnsweringKeepsLife ==
    ASSUME Sound, ForumAnswers \/ \E m \in mailbox : HandleDecision(m)
    PROVE  LifeInv'
<1> USE DEF storeVars, acspVars, memVars, bootVars, clockVars, futureVars, envVars, githubVars
<1> USE SoundParts
<1>1. CASE ForumAnswers
  <2>1. PICK r \in Request, o \in Outcome : Dispatch(r, o)
    BY <1>1 DEF ForumAnswers
  <2>2. PICK s \in journal : /\ s.req = r
                             /\ mailbox' = mailbox \cup {[case |-> s.case, src |-> r, outcome |-> o]}
    BY <2>1 DEF Dispatch
  <2>3. OfCase(r, s.case) /\ r \in forum
    <3>1. s \in Signed
      BY DEF TypeOK, AcspTypeOK
    <3>2. s = [req |-> r, case |-> s.case]
      BY <2>2, <3>1 DEF Signed
    <3> QED
      BY <2>1, <3>2 DEF OfCase, Requests, Dispatch
  <2>4. NothingMoves
    BY <1>1, <2>1, SamePrs DEF ForumAnswers, Dispatch, NothingMoves
  <2>5. At("record")' = At("record")
    BY <1>1 DEF ForumAnswers, At
  <2>6. \A m \in mailbox' : m.src \in forum' /\ OfCase(m.src, m.case)'
    <3> PICK x : x = [case |-> s.case, src |-> r, outcome |-> o]
      OBVIOUS
    <3>1. x.src = r /\ x.case = s.case /\ mailbox' = mailbox \cup {x}
      BY <2>2
    <3>2. \A m \in mailbox' : m.src \in forum /\ OfCase(m.src, m.case)
      BY <2>3, <3>1 DEF Requests
    <3> QED
      BY <2>4, <3>2 DEF NothingMoves, OfCase
  <2>7. Requests'
    BY <2>4, <2>5, <2>6 DEF Requests, NothingMoves, OfCase
  <2>8. \A c : Busy(c)' = Busy(c) /\ Tracked(c)' = Tracked(c)
    BY <1>1, SamePolls, SameHands DEF ForumAnswers
  <2> QED
    BY <1>1, <2>4, <2>7, <2>8, QuietButRequests DEF ForumAnswers, InHand
<1>2. CASE \E m \in mailbox : HandleDecision(m)
  <2>1. PICK m \in mailbox : HandleDecision(m)
    BY <1>2
  <2> PICK u : u = NewTask(m.case, m.src, m.outcome, "record")
    OBVIOUS
  <2>2. u.pc = "record" /\ u.src = m.src /\ u.case = m.case
    BY DEF NewTask
  <2>3. NothingMoves /\ mailbox' \subseteq mailbox
    BY <2>1, SamePrs DEF HandleDecision, NothingMoves
  <2>4. tasks' = tasks \/ (m.case \in pending /\ tasks' = tasks \cup {u})
    BY <2>1 DEF HandleDecision
  <2>5. \A t \in At("record")' : t.src \in forum' /\ OfCase(t.src, t.case)'
    BY <2>2, <2>3, <2>4 DEF Requests, NothingMoves, OfCase, At
  <2>6. Requests'
    BY <2>3, <2>5 DEF Requests, NothingMoves, OfCase
  <2>7. \A c : Busy(c)' => Busy(c)
    BY <2>1, <2>2, <2>4 DEF HandleDecision, Busy
  <2>8. \A c : Tracked(c)' = Tracked(c)
    BY <2>1, SamePolls DEF HandleDecision
  <2>9. \A t \in tasks' : t.pc \in Late => t \in tasks
    BY <2>2, <2>4 DEF Late
  <2> QED
    BY <2>1, <2>3, <2>6, <2>7, <2>8, <2>9, QuietButRequests DEF HandleDecision, InHand
<1> QED
  BY <1>1, <1>2

(* A new trigger is of a case nobody asked about before.                    *)
LEMMA ElevatingKeepsLife ==
    ASSUME OneRequest, Sound, NEW c \in Case, NEW r \in Request, ElevateDecision(c, r)
    PROVE  LifeInv'
<1> USE DEF storeVars, acspVars, memVars, bootVars, clockVars, futureVars, envVars, githubVars
<1> USE SoundParts
<1> PICK a : a = [req |-> r, case |-> c]
  OBVIOUS
<1> PICK o : o = [req |-> r, case |-> c, pc |-> "persist"]
  OBVIOUS
<1>1. /\ a.req = r /\ a.case = c
      /\ o.req = r /\ o.case = c /\ o.pc = "persist"
  OBVIOUS
<1>2. /\ asked' = asked \cup {a} /\ opening' = opening \cup {o}
      /\ \A b \in asked : b.req # r /\ b.case # c
  BY DEF ElevateDecision, OneRequest
<1>3. (\A x : ~OfCase(x, c)) /\ (\A b : ~OfCase(r, b)) /\ OfCase(r, c)'
  BY <1>1, <1>2 DEF OfCase
<1>4. \A x, b : OfCase(x, b) => OfCase(x, b)'
  BY <1>2 DEF OfCase
<1>5. /\ db' = db /\ decided' = decided /\ journal' = journal /\ forum' = forum
      /\ mailbox' = mailbox /\ tasks' = tasks /\ expiring' = expiring
      /\ store' = store /\ recon' = recon /\ now' = now /\ prs' = prs
      /\ pending' = pending /\ UNCHANGED <<elevating, poll>>
  BY DEF ElevateDecision
<1>6. At("record")' = At("record")
  BY <1>5 DEF At
<1>7. ~Known(c) /\ (\A p \in opening : p.case # c) /\ r \notin forum
  BY <1>3 DEF Openings, Requests
<1>8. \A b \in Case : Tracked(b)' = Tracked(b) /\ (Busy(b)' => Busy(b) \/ b = c)
  BY <1>1, <1>2, <1>5, SamePolls DEF Busy
<1>9. Requests'
  <2>1. \A x, y \in asked' : x.req = y.req \/ x.case = y.case => x = y
    BY <1>1, <1>2 DEF Requests
  <2>2. journal' \subseteq asked'
    BY <1>2, <1>5 DEF Requests
  <2> QED
    BY <1>4, <1>5, <1>6, <2>1, <2>2 DEF Requests
<1>10. Openings'
  <2>1. \A p \in opening :
           /\ OfCase(p.req, p.case)'
           /\ \A q \in opening' : q.case = p.case => q = p
    BY <1>1, <1>2, <1>4, <1>7 DEF Openings
  <2>2. \A q \in opening' : q.case = o.case => q = o
    BY <1>1, <1>2, <1>7
  <2>3. \A p \in opening' :
           /\ OfCase(p.req, p.case)'
           /\ \A q \in opening' : q.case = p.case => q = p
    BY <1>1, <1>2, <1>3, <2>1, <2>2
  <2>4. \A p \in opening' :
           /\ p.pc = "persist" => db[p.case].status = "none"
           /\ p.pc \in {"publish", "closeout"} => db[p.case].status = "pending" /\ p.req \notin forum
    BY <1>1, <1>2, <1>7 DEF Openings, Known
  <2>5. \A b \in asked' : b.req \in forum =>
           db[b.case].status \notin {"none", "publish_failed", "elevated"}
    BY <1>1, <1>2, <1>7 DEF Openings
  <2> QED
    BY <1>4, <1>5, <2>3, <2>4, <2>5 DEF Openings, Known
<1>11. BootOrder'
  <2>1. ~Old(db[c]) /\ ~Old(recon.snap[c])
    BY <1>7 DEF Known, Old, Snapshot
  <2>2. \A b \in Case : Old(db[b])' = Old(db[b]) /\ Old(recon.snap[b])' = Old(recon.snap[b])
    BY <1>5 DEF Old, Stale
  <2>3. store
    BY DEF ElevateDecision
  <2> QED
    BY <1>5, <1>8, <2>1, <2>2, <2>3 DEF BootOrder
<1>12. Snapshot'
  BY <1>5, SnapshotFrame DEF SnapshotUntouched
<1>13. Expiries'
  BY <1>5, <1>7, <1>8 DEF Expiries, Known, TypeOK
<1>14. Stages'
  <2>1. \A t \in tasks : t.case \in Case
    BY DEF TypeOK, Task
  <2> QED
    BY <1>5, <1>8, <2>1, SamePrs, StagesFrame DEF StagesUntouched
<1>15. OnePr'
  BY <1>5, SamePrs, OnePrFrame DEF OnePrUntouched
<1> QED
  BY <1>9, <1>10, <1>11, <1>12, <1>13, <1>14, <1>15 DEF LifeInv

-----------------------------------------------------------------------------
(* Rows that move                                                           *)

(* What a process has in hand is not a row it read at boot as stale.        *)
LEMMA InHandIsRecent ==
    ASSUME Sound, NEW c \in Case, InHand(c)
    PROVE  ~Old(recon.snap[c])
<1>1. CASE recon.pc = "apply"
  BY <1>1, SoundParts DEF BootOrder, InHand
<1>2. CASE recon.pc # "apply"
  BY <1>2, SoundParts DEF Snapshot, Old, NoRow
<1> QED
  BY <1>1, <1>2

(* The row of c is the only one that moves, and goes on with the lifecycle. *)
RowMoves(c) ==
    /\ \A b \in Case \ {c} : db'[b] = db[b]
    /\ Known(c) /\ db'[c].opened = db[c].opened
    /\ db'[c].status \notin {"none", "expired"}
    /\ db'[c].status = "elevating" => db'[c].pr # 0

LEMMA StatusMoves ==
    ASSUME TypeOK, NEW c \in Case, NEW s, Known(c), UpdateStatus(c, s) \/ db' = [db EXCEPT ![c].status = s]
    PROVE  /\ \A b \in Case \ {c} : db'[b] = db[b]
           /\ db'[c].status = s /\ db'[c].pr = db[c].pr /\ db'[c].opened = db[c].opened
<1>1. db \in [Case -> Row] /\ db' = [db EXCEPT ![c].status = s]
  BY DEF TypeOK, StoreTypeOK, UpdateStatus
<1> QED
  BY <1>1 DEF Row

(* Boot and the expiries do not mind a move of a case that is in hand.      *)
LEMMA HandMovesRow ==
    ASSUME Sound, NEW c \in Case, InHand(c), c \notin expiring, RowMoves(c),
           store' = store, recon' = recon, now' = now, expiring' = expiring,
           \A b \in Case : (Busy(b)' => Busy(b)) /\ (Tracked(b)' => Tracked(b))
    PROVE  BootOrder' /\ Snapshot' /\ Expiries'
<1> USE SoundParts
<1>1. \A b \in Case : Old(db[b])' => Old(db[b])
  BY DEF RowMoves, Known, Old, Stale
<1>2. BootOrder'
  BY <1>1, BootFrame DEF BootUntouched, InHand
<1>3. Snapshot'
  BY InHandIsRecent, SnapshotFrame DEF SnapshotUntouched, RowMoves, Known
<1>4. Expiries'
  BY ExpiriesFrame DEF ExpiriesUntouched, RowMoves
<1> QED
  BY <1>2, <1>3, <1>4

(* Still one future of ElevateDecision per case.                            *)
LEMMA OpeningMoves ==
    ASSUME Sound, NEW o \in opening, NEW pc \in OpeningPc, OpenStep(o, pc)
    PROVE  /\ \A q \in opening' :
                 /\ OfCase(q.req, q.case)
                 /\ \A x \in opening' : x.case = q.case => x = q
           /\ \A q \in opening' : \/ q \in opening /\ q.case # o.case
                                  \/ q.case = o.case /\ q.req = o.req /\ q.pc = pc
<1> PICK p : p = [o EXCEPT !.pc = pc]
  OBVIOUS
<1>1. p.req = o.req /\ p.case = o.case /\ p.pc = pc
  BY SoundParts DEF TypeOK, Opening
<1>2. opening' = (opening \ {o}) \cup {p}
  BY DEF OpenStep
<1>3. \A q \in opening : /\ OfCase(q.req, q.case)
                         /\ \A x \in opening : x.case = q.case => x = q
  BY SoundParts DEF Openings
<1>4. \A q \in opening' : q = p \/ (q \in opening /\ q.case # o.case)
  BY <1>2, <1>3
<1>5. \A q \in opening' : OfCase(q.req, q.case)
  BY <1>1, <1>3, <1>4
<1>6. \A q, x \in opening' : x.case = q.case => x = q
  BY <1>1, <1>3, <1>4
<1> QED
  BY <1>1, <1>4, <1>5, <1>6

LEMMA PersistKeepsLife ==
    ASSUME Sound, NEW o \in opening, OpenPersist(o)
    PROVE  LifeInv'
<1> USE DEF storeVars, acspVars, memVars, bootVars, clockVars, futureVars, envVars, githubVars
<1> USE SoundParts
<1>1. /\ asked' = asked /\ journal' = journal /\ forum' = forum /\ mailbox' = mailbox
      /\ tasks' = tasks /\ expiring' = expiring /\ prs' = prs
      /\ store' = store /\ recon' = recon /\ now' = now
      /\ pending' = pending /\ UNCHANGED <<elevating, poll>>
      /\ At("record")' = At("record") /\ decided' = decided
  BY DEF OpenPersist, At, open_case, create_or_update
<1>2. \A c : Busy(c)' => Busy(c)
  <2>1. OpenEnd(o) \/ OpenStep(o, "publish")
    BY DEF OpenPersist
  <2> QED
    BY <1>1, <2>1, OpenHands
<1>3. \A c : Tracked(c)' = Tracked(c) /\ PrOf(c)' = PrOf(c)
  BY <1>1, SamePolls, SamePrs
<1>4. CASE UNCHANGED storeVars /\ OpenEnd(o)
  <2>1. NothingMoves
    BY <1>1, <1>3, <1>4 DEF NothingMoves
  <2> QED
    BY <1>1, <1>2, <1>3, <1>4, <2>1, QuietStep DEF OpenEnd
<1>5. CASE open_case(o.case) /\ OpenStep(o, "publish")
  <2> PICK c : c = o.case
    OBVIOUS
  <2> PICK p : p = [o EXCEPT !.pc = "publish"]
    OBVIOUS
  <2>1. /\ o \in Opening /\ c \in Case
        /\ p.req = o.req /\ p.case = c /\ p.pc = "publish"
    BY DEF TypeOK, Opening
  <2>2. opening' = (opening \ {o}) \cup {p}
    BY <1>5 DEF OpenStep
  <2>3. db[c].status = "none" /\ o.req \notin forum
    BY <2>1 DEF OpenPersist, Openings, OfCase
  <2>4. /\ \A b \in Case \ {c} : db'[b] = db[b]
        /\ db'[c].status = "pending" /\ db'[c].pr = 0 /\ db'[c].opened = now
    BY <1>5, <2>1 DEF open_case, create_or_update, TypeOK, StoreTypeOK
  <2>5. \A q \in opening : q.case = c => q = o
    BY DEF Openings
  <2>6. Requests'
    BY <1>1, RequestsFrame DEF RequestsUntouched
  <2>7. Openings'
    <3>1. (\A q \in opening : q.case \in Case) /\ (\A a \in asked : a.case \in Case)
      BY DEF TypeOK, Opening, Signed
    <3>2. \A x, y : OfCase(x, y)' = OfCase(x, y)
      BY <1>1 DEF OfCase
    <3>3. \A q \in opening' :
             /\ OfCase(q.req, q.case)
             /\ \A x \in opening' : x.case = q.case => x = q
      BY <1>5, OpeningMoves DEF OpeningPc
    <3>4. \A q \in opening' :
             /\ q.pc = "persist" => db'[q.case].status = "none"
             /\ q.pc \in {"publish", "closeout"} =>
                   db'[q.case].status = "pending" /\ q.req \notin forum
      BY <2>1, <2>2, <2>3, <2>4, <2>5, <3>1 DEF Openings
    <3>5. \A b \in Case : Known(b)' => \E r \in Request : OfCase(r, b)
      BY <2>1, <2>4 DEF Known, Openings, Opening
    <3>6. \A a \in asked : a.req \in forum =>
             db'[a.case].status \notin {"none", "publish_failed", "elevated"}
      BY <2>3, <2>4, <3>1 DEF Openings
    <3> QED
      BY <1>1, <3>2, <3>3, <3>4, <3>5, <3>6 DEF Openings
  <2>8. BootOrder'
    <3>1. now \in Nat /\ OpenCaseTtl \in Nat
      BY ActorAssumption DEF TypeOK
    <3>2. ~Old(db[c])'
      BY <1>1, <2>4, <3>1 DEF Old, Stale
    <3>3. \A b \in Case : Old(db[b])' => Old(db[b])
      BY <1>1, <2>4, <3>2 DEF Old, Stale
    <3> QED
      BY <1>1, <1>2, <1>3, <3>3, BootFrame DEF BootUntouched, InHand
  <2>9. Snapshot'
    <3>1. ~Old(recon.snap[c])
      BY <2>1, <2>3 DEF Snapshot, Known, Old
    <3> QED
      BY <1>1, <2>4, <3>1, SnapshotFrame DEF SnapshotUntouched, Known
  <2>10. Expiries'
    BY <1>1, <1>2, <2>1, <2>3, <2>4, ExpiriesFrame DEF ExpiriesUntouched, Expiries
  <2>11. Stages'
    <3>1. \A t \in tasks : t.case \in Case
      BY DEF TypeOK, Task
    <3>2. \A t \in tasks : t.pc \in Late \ {"map"} => t.case # c
      BY <2>3 DEF Stages, Late
    <3> QED
      BY <1>1, <1>3, <2>4, <3>1, <3>2, StagesFrame DEF StagesUntouched
  <2>12. OnePr'
    BY <1>3, <2>1, <2>3, <2>4, OnePrFrame DEF OnePrUntouched, OnePr
  <2> QED
    BY <2>6, <2>7, <2>8, <2>9, <2>10, <2>11, <2>12 DEF LifeInv
<1> QED
  BY <1>4, <1>5 DEF OpenPersist

LEMMA PublishKeepsLife ==
    ASSUME OneRequest, Sound, NEW o \in opening, OpenPublish(o)
    PROVE  LifeInv'
<1> USE DEF storeVars, acspVars, memVars, bootVars, clockVars, futureVars, envVars, githubVars
<1> USE SoundParts
<1>1. /\ asked' = asked /\ mailbox' = mailbox /\ db' = db /\ decided' = decided
      /\ tasks' = tasks /\ expiring' = expiring /\ prs' = prs
      /\ store' = store /\ recon' = recon /\ now' = now
      /\ pending' = pending /\ UNCHANGED <<elevating, poll>>
      /\ At("record")' = At("record")
      /\ journal' = journal \cup {[req |-> o.req, case |-> o.case]}
      /\ forum' = forum \/ forum' = forum \cup {o.req}
  BY DEF OpenPublish, At, publish_request
<1>2. \/ OpenStep(o, "map")
      \/ OpenStep(o, "closeout") /\ forum' = forum
  BY DEF OpenPublish, publish_request, OneRequest, May
<1>3. PICK pc \in {"map", "closeout"} :
         OpenStep(o, pc) /\ (pc = "closeout" => forum' = forum)
  BY <1>2
<1>4. \A c : Busy(c)' => Busy(c)
  BY <1>1, <1>3, OpenHands
<1>5. \A c : Tracked(c)' = Tracked(c) /\ PrOf(c)' = PrOf(c)
  BY <1>1, SamePolls, SamePrs
<1>6. /\ OfCase(o.req, o.case)
      /\ db[o.case].status = "pending" /\ o.req \notin forum
      /\ o.case \in Case
  BY DEF Openings, OpenPublish, TypeOK, Opening
<1>7. \A x, y : OfCase(x, y)' = OfCase(x, y)
  BY <1>1 DEF OfCase
<1>8. \A a \in asked : a.req = o.req => a.case = o.case
  <2>1. [req |-> o.req, case |-> o.case] \in asked
    BY <1>6 DEF OfCase
  <2> QED
    BY <2>1 DEF Requests
<1>9. Requests'
  <2>1. journal' \subseteq asked'
    BY <1>1, <1>6 DEF Requests, OfCase
  <2>2. \A r \in forum' : \E c \in Case : OfCase(r, c)
    BY <1>1, <1>6 DEF Requests
  <2>3. forum \subseteq forum'
    BY <1>1
  <2> QED
    BY <1>1, <1>7, <2>1, <2>2, <2>3 DEF Requests
<1>10. Openings'
  <2>1. \A q \in opening' :
           /\ OfCase(q.req, q.case)
           /\ \A x \in opening' : x.case = q.case => x = q
    BY <1>3, OpeningMoves DEF OpeningPc
  <2>2. \A q \in opening' : \/ q \in opening /\ q.case # o.case
                            \/ q.case = o.case /\ q.req = o.req /\ q.pc = pc
    BY <1>3, OpeningMoves DEF OpeningPc
  <2>3. \A q \in opening : q.req = o.req => q.case = o.case
    BY <1>8 DEF Openings, OfCase
  <2>4. \A q \in opening' :
           /\ q.pc = "persist" => db[q.case].status = "none"
           /\ q.pc \in {"publish", "closeout"} =>
                 db[q.case].status = "pending" /\ q.req \notin forum'
    BY <1>1, <1>3, <1>6, <2>2, <2>3 DEF Openings
  <2>5. \A a \in asked : a.req \in forum' =>
           db[a.case].status \notin {"none", "publish_failed", "elevated"}
    BY <1>1, <1>6, <1>8 DEF Openings
  <2> QED
    BY <1>1, <1>7, <2>1, <2>4, <2>5 DEF Openings, Known
<1>11. BootOrder'
  <2>1. \A b \in Case : Old(db[b])' => Old(db[b])
    BY <1>1 DEF Old, Stale
  <2> QED
    BY <1>1, <1>4, <1>5, <2>1, BootFrame DEF BootUntouched, InHand
<1>12. Snapshot'
  BY <1>1, SnapshotFrame DEF SnapshotUntouched
<1>13. Expiries'
  BY <1>1, <1>4, ExpiriesFrame DEF ExpiriesUntouched
<1>14. Stages'
  <2>1. \A t \in tasks : t.case \in Case
    BY DEF TypeOK, Task
  <2> QED
    BY <1>1, <1>5, <2>1, StagesFrame DEF StagesUntouched
<1>15. OnePr'
  BY <1>1, <1>5, OnePrFrame DEF OnePrUntouched
<1> QED
  BY <1>9, <1>10, <1>11, <1>12, <1>13, <1>14, <1>15 DEF LifeInv

LEMMA CloseoutKeepsLife ==
    ASSUME Sound, NEW o \in opening, OpenCloseout(o)
    PROVE  LifeInv'
<1> USE DEF storeVars, acspVars, memVars, bootVars, clockVars, futureVars, envVars, githubVars
<1> USE SoundParts
<1>1. /\ asked' = asked /\ journal' = journal /\ forum' = forum /\ mailbox' = mailbox
      /\ tasks' = tasks /\ expiring' = expiring /\ prs' = prs
      /\ store' = store /\ recon' = recon /\ now' = now
      /\ pending' = pending /\ UNCHANGED <<elevating, poll>>
      /\ At("record")' = At("record") /\ decided' = decided
      /\ opening' = opening \ {o}
  BY DEF OpenCloseout, At, set_status, OpenEnd
<1>2. \A c : Busy(c)' => Busy(c)
  BY <1>1, OpenHands DEF OpenEnd
<1>3. \A c : Tracked(c)' = Tracked(c) /\ PrOf(c)' = PrOf(c)
  BY <1>1, SamePolls, SamePrs
<1>4. CASE UNCHANGED storeVars
  <2>1. NothingMoves
    BY <1>1, <1>3, <1>4 DEF NothingMoves
  <2> QED
    BY <1>1, <1>2, <1>3, <1>4, <2>1, QuietStep
<1>5. CASE set_status(o.case, "publish_failed")
  <2> PICK c : c = o.case
    OBVIOUS
  <2>1. /\ c \in Case /\ OfCase(o.req, c)
        /\ db[c].status = "pending" /\ o.req \notin forum
        /\ \A q \in opening : q.case = c => q = o
    BY DEF OpenCloseout, Openings, TypeOK, Opening
  <2>2. /\ \A b \in Case \ {c} : db'[b] = db[b]
        /\ db'[c].status = "publish_failed" /\ db'[c].opened = db[c].opened
    BY <1>5, <2>1, StatusMoves DEF set_status, Known
  <2>3. Busy(c) /\ InHand(c) /\ c \notin expiring
    BY <2>1 DEF Busy, InHand, Expiries
  <2>4. Requests'
    BY <1>1, RequestsFrame DEF RequestsUntouched
  <2>5. Openings'
    <3>1. (\A q \in opening : q.case \in Case) /\ (\A a \in asked : a.case \in Case)
      BY DEF TypeOK, Opening, Signed
    <3>2. \A x, y : OfCase(x, y)' = OfCase(x, y)
      BY <1>1 DEF OfCase
    <3>3. \A q \in opening' : q \in opening /\ q.case # c
      BY <1>1, <2>1
    <3>4. \A q \in opening' :
             /\ OfCase(q.req, q.case)
             /\ \A x \in opening' : x.case = q.case => x = q
             /\ q.pc = "persist" => db'[q.case].status = "none"
             /\ q.pc \in {"publish", "closeout"} =>
                   db'[q.case].status = "pending" /\ q.req \notin forum
      BY <2>2, <3>1, <3>3 DEF Openings
    <3>5. \A b \in Case : Known(b)' => \E r \in Request : OfCase(r, b)
      BY <2>1, <2>2 DEF Known, Openings
    <3>6. \A a \in asked : a.req \in forum => a.case # c
      <4>1. [req |-> o.req, case |-> c] \in asked
        BY <2>1 DEF OfCase
      <4>2. \A a \in asked : a.case = c => a.req = o.req
        BY <4>1 DEF Requests
      <4> QED
        BY <2>1, <4>2
    <3>7. \A a \in asked : a.req \in forum =>
             db'[a.case].status \notin {"none", "publish_failed", "elevated"}
      BY <2>2, <3>1, <3>6 DEF Openings
    <3> QED
      BY <1>1, <3>2, <3>4, <3>5, <3>7 DEF Openings
  <2>6. RowMoves(c)
    BY <2>1, <2>2 DEF RowMoves, Known
  <2>7. BootOrder' /\ Snapshot' /\ Expiries'
    BY <1>1, <1>2, <1>3, <2>1, <2>3, <2>6, HandMovesRow
  <2>8. Stages'
    <3>1. \A t \in tasks : t.case \in Case
      BY DEF TypeOK, Task
    <3>2. \A t \in tasks : t.pc \in Late \ {"map"} => t.case # c
      BY <2>1 DEF Stages, Late
    <3> QED
      BY <1>1, <1>3, <2>2, <3>1, <3>2, StagesFrame DEF StagesUntouched
  <2>9. OnePr'
    BY <1>3, <2>1, <2>2, OnePrFrame DEF OnePrUntouched, OnePr
  <2> QED
    BY <2>4, <2>5, <2>7, <2>8, <2>9 DEF LifeInv
<1> QED
  BY <1>4, <1>5 DEF OpenCloseout

-----------------------------------------------------------------------------
(* The futures of spawn_decision_outcome                                    *)

(* Past pending, whoever opened the case only has it to remember.           *)
LEMMA OpeningsPast ==
    ASSUME Sound, NEW o \in opening, db[o.case].status \notin {"none", "pending"}
    PROVE  o.pc = "map"
BY SoundParts DEF Openings, TypeOK, Opening, OpeningPc

(* An answer about to be recorded finds its case waiting for it.            *)
LEMMA RecordFindsPending ==
    ASSUME OneRequest, Sound, NEW t \in tasks, t.pc = "record"
    PROVE  /\ db[t.case].status = "pending"
           /\ \A d \in decided : d.src # t.src
           /\ \A o \in opening : o.case = t.case => o.pc = "map"
<1> USE SoundParts
<1>1. t \in Task /\ t.case \in Case /\ t \in At("record")
  BY DEF TypeOK, Task, At
<1>2. t.src \in forum /\ OfCase(t.src, t.case)
  BY <1>1 DEF Requests
<1>3. \A d \in decided : d.src # t.src
  BY <1>1 DEF Sound, Inv, AnswerFlow
<1>4. \A x : OfCase(x, t.case) => x = t.src
  <2>1. \A x, y : [req |-> x, case |-> y].req = x /\ [req |-> x, case |-> y].case = y
    OBVIOUS
  <2> QED
    BY <1>2, <2>1 DEF OfCase, Requests
<1>5. \A d \in decided : d.case # t.case
  BY <1>3, <1>4 DEF Requests
<1>6. db[t.case].status \notin {"approved", "applying", "elevating", "published", "abandoned",
                                "rejected", "reviewed"}
  BY <1>1, <1>5 DEF Sound, Inv, AnswerOnRecord
<1>7. db[t.case].status \notin {"none", "publish_failed", "elevated"}
  <2>1. [req |-> t.src, case |-> t.case] \in asked
    BY <1>2 DEF OfCase
  <2> QED
    BY <1>2, <2>1 DEF Openings
<1>8. db[t.case].status # "expired"
  BY <1>1 DEF Expiries, Busy
<1>9. db[t.case].status \in Status
  BY <1>1 DEF TypeOK, StoreTypeOK, Row
<1>10. \A o \in opening : o.case = t.case => o.pc = "map"
  <2>1. SUFFICES ASSUME NEW o \in opening, o.case = t.case PROVE o.pc = "map"
    OBVIOUS
  <2>2. o.req \in forum
    BY <1>2, <1>4, <2>1 DEF Openings
  <2> QED
    BY <1>7, <2>1, <2>2 DEF Openings, TypeOK, Opening, OpeningPc
<1> QED
  BY <1>3, <1>6, <1>7, <1>8, <1>9, <1>10 DEF Status, Terminal

LEMMA RecordingKeepsLife ==
    ASSUME OneRequest, Sound, NEW t \in tasks, TaskRecord(t)
    PROVE  LifeInv'
<1> USE DEF storeVars, acspVars, memVars, bootVars, clockVars, futureVars, envVars, githubVars
<1> USE SoundParts
<1>1. /\ asked' = asked /\ journal' = journal /\ forum' = forum /\ mailbox' = mailbox
      /\ opening' = opening /\ expiring' = expiring /\ prs' = prs
      /\ store' = store /\ recon' = recon /\ now' = now
      /\ pending' = pending /\ UNCHANGED <<elevating, poll>>
  BY DEF TaskRecord
<1>2. \A c : Tracked(c)' = Tracked(c) /\ PrOf(c)' = PrOf(c)
  BY <1>1, SamePolls, SamePrs
<1>3. CASE TaskEnd(t) /\ UNCHANGED storeVars
  BY <1>3, TaskGivesUp DEF TaskRecord
<1>4. CASE ~(TaskEnd(t) /\ UNCHANGED storeVars)
  <2> PICK c : c = t.case
    OBVIOUS
  <2> PICK u : u = [t EXCEPT !.pc = "claim"]
    OBVIOUS
  <2> PICK d : d = [case |-> t.case, src |-> t.src, outcome |-> t.outcome]
    OBVIOUS
  <2>1. /\ t \in Task /\ c \in Case /\ t.outcome \in Outcome /\ t.src \in Request /\ t.pc = "record"
        /\ u.case = c /\ u.pc = "claim" /\ d.case = c /\ d.src = t.src
        /\ t \in At("record")
    BY DEF TypeOK, Task, TaskRecord, At
  <2>2. /\ db[c].status = "pending"
        /\ \A e \in decided : e.src # t.src
        /\ \A o \in opening : o.case = c => o.pc = "map"
    BY <2>1, RecordFindsPending
  <2>3. /\ decided' = decided \cup {d}
        /\ UpdateStatus(c, status_for_outcome(t.outcome))
    BY <1>4, <2>2 DEF TaskRecord, record_decision, Redelivered
  <2>4. PICK s \in {"approved", "rejected", "reviewed"} : UpdateStatus(c, s)
    BY <2>1, <2>3, StatusForOutcome
  <2>5. /\ \A b \in Case \ {c} : db'[b] = db[b]
        /\ db'[c].status = s /\ db'[c].opened = db[c].opened
    BY <2>1, <2>2, <2>4, StatusMoves DEF Known
  <2>6. TaskEnd(t) \/ TaskStep(t, u)
    BY <1>4 DEF TaskRecord
  <2>7. \A b : Busy(b)' => Busy(b)
    BY <1>1, <2>1, <2>6, TaskHands
  <2>8. /\ At("record")' \subseteq At("record")
        /\ \A v \in tasks' : v.pc \in Late => v \in tasks
    BY <2>1, <2>6 DEF At, TaskEnd, TaskStep, Late
  <2>9. Requests'
    <3>1. \A x, y : OfCase(x, y)' = OfCase(x, y)
      BY <1>1 DEF OfCase
    <3>2. \A e \in decided' : OfCase(e.src, e.case)
      BY <2>1, <2>3 DEF Requests
    <3> QED
      BY <1>1, <2>8, <3>1, <3>2 DEF Requests
  <2>10. Openings'
    BY <1>1, <2>2, <2>4, <2>5, OpeningsFrame DEF OpeningsUntouched, Known
  <2>11. RowMoves(c) /\ InHand(c) /\ c \notin expiring
    BY <2>1, <2>2, <2>4, <2>5 DEF RowMoves, Known, InHand, Busy, Expiries
  <2>12. BootOrder' /\ Snapshot' /\ Expiries'
    BY <1>1, <1>2, <2>1, <2>7, <2>11, HandMovesRow
  <2>13. Stages'
    <3>1. \A v \in tasks : v.case \in Case
      BY DEF TypeOK, Task
    <3>2. \A v \in tasks : v.pc \in Late \ {"map"} => v.case # c
      BY <2>2 DEF Stages, Late
    <3>3. \A v \in tasks' : v.pc \in Late \ {"map"} => v \in tasks /\ db'[v.case] = db[v.case]
      BY <2>5, <2>8, <3>1, <3>2
    <3> QED
      BY <1>1, <1>2, <2>8, <3>3, StagesFrame DEF StagesUntouched
  <2>14. OnePr'
    BY <1>2, <2>1, <2>2, <2>5, OnePrFrame DEF OnePrUntouched, OnePr
  <2> QED
    BY <2>9, <2>10, <2>12, <2>13, <2>14 DEF LifeInv
<1> QED
  BY <1>3, <1>4 DEF TaskRecord

(* What the stage of one future says of its case.                           *)
StageOf(t) ==
    /\ t.pc \in {"create", "open", "find"} =>
          db[t.case].status = "applying" /\ PrOf(t.case) = {}
    /\ t.pc \in {"read", "write"} =>
          /\ db[t.case].status = "applying" /\ db[t.case].pr = 0
          /\ recon.snap[t.case].pr = 0 /\ ~Tracked(t.case)
    /\ t.pc = "write" => t.opened = db[t.case].opened

(* A future goes to a later stage, the only one of its case there.          *)
LEMMA StagesMove ==
    ASSUME Sound, NEW t \in tasks, NEW u, TaskStep(t, u), u.case = t.case, StageOf(u)',
           \A v \in tasks : v.pc \in Late /\ v.case = t.case => v = t,
           recon' = recon,
           \A v \in tasks : v.pc \in Late \ {"map"} /\ v.case # t.case =>
                 /\ db'[v.case] = db[v.case] /\ PrOf(v.case)' = PrOf(v.case)
                 /\ Tracked(v.case)' => Tracked(v.case)
    PROVE  Stages'
<1> USE SoundParts
<1>1. tasks' = (tasks \ {t}) \cup {u}
  BY DEF TaskStep
<1>2. \A v \in tasks' : v.pc \in Late => v = u \/ (v \in tasks /\ v.case # t.case)
  BY <1>1
<1>3. \A v, w \in tasks' : v.pc \in Late /\ w.pc \in Late /\ w.case = v.case => w = v
  BY <1>2 DEF Stages
<1>4. \A v \in tasks' : v.pc \in Late => StageOf(v)'
  <2>1. SUFFICES ASSUME NEW v \in tasks, v.pc \in Late, v.case # t.case PROVE StageOf(v)'
    BY <1>2
  <2>2. StageOf(v)
    BY <2>1 DEF Stages, StageOf
  <2>3. CASE v.pc = "map"
    BY <2>3 DEF StageOf
  <2>4. CASE v.pc # "map"
    <3>1. /\ db'[v.case] = db[v.case] /\ PrOf(v.case)' = PrOf(v.case)
          /\ Tracked(v.case)' => Tracked(v.case)
      BY <2>1, <2>4
    <3> QED
      BY <2>2, <3>1 DEF StageOf
  <2> QED
    BY <2>3, <2>4
<1> QED
  BY <1>3, <1>4 DEF Stages, StageOf, Late

(* A future that only goes from one late stage to another.                  *)
LEMMA LateMoves ==
    ASSUME Sound, NEW t \in tasks, t.pc \in Late, NEW u, TaskStep(t, u),
           u.case = t.case, u.pc \in Late, StageOf(u)', NothingMoves,
           UNCHANGED <<mailbox, opening, expiring, pending, elevating, poll>>
    PROVE  LifeInv'
<1> USE SoundParts
<1>1. \A v \in tasks : v.pc \in Late /\ v.case = t.case => v = t
  BY DEF Stages
<1>2. \A c : (Busy(c)' => Busy(c)) /\ Tracked(c)' = Tracked(c)
  BY TaskHands, SamePolls
<1>3. \A v \in tasks : v.case \in Case
  BY DEF TypeOK, Task
<1>4. Stages'
  BY <1>1, <1>2, <1>3, StagesMove DEF NothingMoves
<1>5. At("record")' \subseteq At("record")
  BY DEF At, TaskStep, Late
<1>6. Requests'
  BY <1>5, RequestsFrame DEF RequestsUntouched, NothingMoves
<1>7. Openings'
  BY OpeningsFrame DEF OpeningsUntouched, NothingMoves
<1>8. BootOrder'
  <2>1. \A b \in Case : Old(db[b])' => Old(db[b])
    BY DEF Old, Stale, NothingMoves
  <2> QED
    BY <1>2, <2>1, BootFrame DEF BootUntouched, InHand, NothingMoves
<1>9. Snapshot'
  BY SnapshotFrame DEF SnapshotUntouched, NothingMoves
<1>10. Expiries'
  BY <1>2, ExpiriesFrame DEF ExpiriesUntouched, NothingMoves
<1>11. OnePr'
  BY OnePrFrame DEF OnePrUntouched, NothingMoves
<1> QED
  BY <1>4, <1>6, <1>7, <1>8, <1>9, <1>10, <1>11 DEF LifeInv

LEMMA ClaimKeepsLife ==
    ASSUME Sound, NEW t \in tasks, TaskClaim(t)
    PROVE  LifeInv'
<1> USE DEF storeVars, acspVars, memVars, bootVars, clockVars, futureVars, envVars, githubVars
<1> USE SoundParts
<1>1. /\ asked' = asked /\ journal' = journal /\ forum' = forum /\ mailbox' = mailbox
      /\ opening' = opening /\ expiring' = expiring /\ prs' = prs
      /\ store' = store /\ recon' = recon /\ now' = now
      /\ pending' = pending /\ UNCHANGED <<elevating, poll>>
  BY DEF TaskClaim
<1>2. \A c : Tracked(c)' = Tracked(c) /\ PrOf(c)' = PrOf(c)
  BY <1>1, SamePolls, SamePrs
<1>3. CASE TaskEnd(t) /\ UNCHANGED storeVars
  BY <1>3, TaskGivesUp DEF TaskClaim
<1>4. CASE /\ claim_application(t.case)
           /\ TaskStep(t, [t EXCEPT !.pc = "create", !.by = approvedBy[t.case]])
  <2> PICK c : c = t.case
    OBVIOUS
  <2> PICK u : u = [t EXCEPT !.pc = "create", !.by = approvedBy[t.case]]
    OBVIOUS
  <2>1. t \in Task /\ c \in Case /\ u.case = c /\ u.pc = "create" /\ TaskStep(t, u)
    BY <1>4 DEF TypeOK, Task
  <2>2. db[c].status = "approved" /\ decided' = decided
    BY <1>4 DEF claim_application, Claimable
  <2>3. /\ \A b \in Case \ {c} : db'[b] = db[b]
        /\ db'[c].status = "applying" /\ db'[c].opened = db[c].opened
    BY <1>4, <2>1, <2>2, StatusMoves DEF claim_application, Known
  <2>4. PrOf(c) = {}
    BY <2>1, <2>2 DEF OnePr
  <2>5. \A v \in tasks : v.pc \in Late => v.case # c
    <3>1. SUFFICES ASSUME NEW v \in tasks, v.pc \in Late, v.case = c PROVE FALSE
      OBVIOUS
    <3>2. v.pc = "map"
      BY <2>2, <3>1 DEF Stages, Late
    <3>3. PrOfCase(v.pr, c) /\ v.pr # 0
      BY <3>1, <3>2 DEF Sound, Inv, PrNumbers
    <3> QED
      BY <2>4, <3>3 DEF PrOfCase, PrOf
  <2>6. \A b : Busy(b)' => Busy(b)
    BY <1>1, <2>1, TaskHands
  <2>7. At("record")' \subseteq At("record")
    BY <2>1 DEF At, TaskStep
  <2>8. Requests'
    BY <1>1, <2>2, <2>7, RequestsFrame DEF RequestsUntouched
  <2>9. Openings'
    <3>1. \A o \in opening : o.case = c => o.pc = "map"
      BY <2>2, OpeningsPast
    <3> QED
      BY <1>1, <2>2, <2>3, <3>1, OpeningsFrame DEF OpeningsUntouched, Known
  <2>10. RowMoves(c) /\ InHand(c) /\ c \notin expiring
    BY <2>1, <2>2, <2>3 DEF RowMoves, Known, InHand, Busy, Expiries
  <2>11. BootOrder' /\ Snapshot' /\ Expiries'
    BY <1>1, <1>2, <2>1, <2>6, <2>10, HandMovesRow
  <2>12. Stages'
    <3>1. StageOf(u)'
      BY <1>2, <2>1, <2>3, <2>4 DEF StageOf
    <3>2. \A v \in tasks : v.case \in Case
      BY DEF TypeOK, Task
    <3> QED
      BY <1>1, <1>2, <2>1, <2>3, <2>5, <3>1, <3>2, StagesMove
  <2>13. OnePr'
    BY <1>2, <2>1, <2>3, <2>4, OnePrFrame DEF OnePrUntouched
  <2> QED
    BY <2>8, <2>9, <2>11, <2>12, <2>13 DEF LifeInv
<1> QED
  BY <1>3, <1>4 DEF TaskClaim

LEMMA PushKeepsLife ==
    ASSUME Sound, NEW t \in tasks, TaskCreateRef(t)
    PROVE  LifeInv'
<1> USE DEF storeVars, acspVars, memVars, bootVars, clockVars, futureVars, envVars, githubVars
<1> USE SoundParts
<1>1. /\ UNCHANGED <<storeVars, acspVars, memVars, opening, expiring, poll, bootVars, clockVars>>
      /\ prs' = prs /\ t.pc = "create"
  BY DEF TaskCreateRef, create_ref
<1>2. CASE TaskEnd(t)
  BY <1>1, <1>2, TaskGivesUp
<1>3. CASE ~TaskEnd(t)
  <2> PICK u : u = [t EXCEPT !.pc = "open"]
    OBVIOUS
  <2>1. t \in Task /\ u.case = t.case /\ u.pc = "open" /\ TaskStep(t, u)
    BY <1>3 DEF TypeOK, Task, TaskCreateRef
  <2>2. NothingMoves /\ UNCHANGED <<mailbox, opening, expiring, pending, elevating, poll>>
    BY <1>1, SamePrs DEF NothingMoves
  <2>3. t.pc \in Late /\ u.pc \in Late
    BY <1>1, <2>1 DEF Late
  <2>4. db[t.case].status = "applying" /\ PrOf(t.case) = {} /\ t.case \in Case
    BY <1>1, <2>1 DEF Stages, Task
  <2>5. StageOf(u)'
    BY <2>1, <2>2, <2>4 DEF StageOf, NothingMoves
  <2> QED
    BY <2>1, <2>2, <2>3, <2>5, LateMoves
<1> QED
  BY <1>2, <1>3

(* A case without a PR has none on record, in memory or in a poll.          *)
LEMMA NoPrNowhere ==
    ASSUME Sound, NEW c \in Case, PrOf(c) = {}
    PROVE  db[c].pr = 0 /\ recon.snap[c].pr = 0 /\ ~Tracked(c)
<1>1. \A n : PrOfCase(n, c) => n = 0
  BY DEF PrOfCase, PrOf
<1>2. /\ db[c].pr = 0 /\ recon.snap[c].pr = 0 /\ elevating[c] = 0
      /\ \A s \in PollSlot : poll[s].left[c] = 0
  BY <1>1 DEF Sound, Inv, PrNumbers
<1>3. \A s \in PollSlot : poll[s].at # c
  <2>1. SUFFICES ASSUME NEW s \in PollSlot, poll[s].at = c PROVE FALSE
    OBVIOUS
  <2>2. c # NoCase /\ poll[s].verdict \in {"published", "abandoned"}
    BY SoundParts, NoCaseAssumption DEF TypeOK, Poll
  <2>3. GitVerdict(c, poll[s].verdict)
    BY <2>1, <2>2 DEF Sound, Inv, Verdicts
  <2> QED
    BY <2>2, <2>3 DEF GitVerdict, Settled, PrOf
<1> QED
  BY <1>2, <1>3 DEF Tracked

(* The case of t, which had no PR, is now on one.                           *)
PrGiven(c) ==
    /\ \A b \in Case \ {c} : PrOf(b)' = PrOf(b)
    /\ \E n : PrOf(c)' = {n}

LEMMA PrOpened ==
    ASSUME TypeOK, NEW c \in Case, PrOf(c) = {}, create_pull_request(c)
    PROVE  PrGiven(c)
<1>1. prs \in Seq(Pr)
  BY DEF TypeOK, GitHubTypeOK
<1> PICK k : k = Len(prs) + 1
  OBVIOUS
<1>2. /\ DOMAIN prs = 1..Len(prs) /\ DOMAIN prs' = 1..(Len(prs) + 1) /\ Len(prs) \in Nat
      /\ \A n \in DOMAIN prs : prs'[n] = prs[n]
      /\ prs'[k].cases = {c}
  BY <1>1, CreatePrEffect
<1>3. DOMAIN prs' = DOMAIN prs \cup {k} /\ k \notin DOMAIN prs
  BY <1>2
<1>4. \A b \in Case \ {c} : PrOf(b)' = PrOf(b)
  BY <1>2, <1>3 DEF PrOf
<1>5. PrOf(c)' = {k}
  BY <1>2, <1>3 DEF PrOf
<1> QED
  BY <1>4, <1>5 DEF PrGiven

LEMMA PrFound ==
    ASSUME TypeOK, NEW c \in Case, PrOf(c) = {}, NEW n, get_existing_pr_url(n, c)
    PROVE  PrGiven(c)
<1>1. prs \in Seq(Pr)
  BY DEF TypeOK, GitHubTypeOK
<1>2. /\ n \in DOMAIN prs /\ DOMAIN prs' = DOMAIN prs
      /\ prs'[n].cases = prs[n].cases \cup {c}
      /\ \A i \in DOMAIN prs : i # n => prs'[i] = prs[i]
  BY <1>1, FindPrEffect
<1>3. \A b \in Case \ {c} : PrOf(b)' = PrOf(b)
  BY <1>2 DEF PrOf
<1>4. PrOf(c)' = {n}
  BY <1>2 DEF PrOf
<1> QED
  BY <1>3, <1>4 DEF PrGiven

(* The future that opened or found the PR goes on to the stamp, or dies.    *)
LEMMA PrKeepsLife ==
    ASSUME Sound, NEW t \in tasks, t.pc \in {"open", "find"}, PrGiven(t.case),
           TaskEnd(t) \/ \E u : TaskStep(t, u) /\ u.case = t.case /\ u.pc = "read",
           UNCHANGED <<storeVars, acspVars, memVars, opening, expiring, poll, bootVars, clockVars>>
    PROVE  LifeInv'
<1> USE DEF storeVars, acspVars, memVars, bootVars, clockVars
<1> USE SoundParts
<1> PICK c : c = t.case
  OBVIOUS
<1>1. c \in Case /\ t.pc \in Late
  BY DEF TypeOK, Task, Late
<1>2. db[c].status = "applying" /\ PrOf(c) = {}
  BY DEF Stages
<1>3. \A v \in tasks : v.pc \in Late /\ v.case = c => v = t
  BY <1>1 DEF Stages
<1>4. \A b : (Busy(b)' => Busy(b)) /\ Tracked(b)' = Tracked(b)
  BY TaskHands, SamePolls
<1>5. \A v \in tasks : v.case \in Case
  BY DEF TypeOK, Task
<1>6. Stages'
  <2>1. CASE TaskEnd(t)
    <3>1. \A v \in tasks' : v.pc \in Late => v \in tasks /\ v.case # c
      BY <1>3, <2>1 DEF TaskEnd
    <3> QED
      BY <1>4, <1>5, <3>1, StagesFrame DEF StagesUntouched, PrGiven
  <2>2. CASE \E u : TaskStep(t, u) /\ u.case = t.case /\ u.pc = "read"
    <3> PICK u : TaskStep(t, u) /\ u.case = t.case /\ u.pc = "read"
      BY <2>2
    <3>1. StageOf(u)'
      <4>1. db[c].pr = 0 /\ recon.snap[c].pr = 0 /\ ~Tracked(c)
        BY <1>1, <1>2, NoPrNowhere
      <4> QED
        BY <1>2, <1>4, <4>1 DEF StageOf
    <3> QED
      BY <1>3, <1>4, <1>5, <3>1, StagesMove DEF PrGiven
  <2> QED
    BY <2>1, <2>2
<1>7. Requests'
  <2>1. At("record")' \subseteq At("record")
    BY DEF At, TaskStep, TaskEnd
  <2> QED
    BY <2>1, RequestsFrame DEF RequestsUntouched
<1>8. Openings'
  BY OpeningsFrame DEF OpeningsUntouched
<1>9. BootOrder'
  <2>1. \A b \in Case : Old(db[b])' => Old(db[b])
    BY DEF Old, Stale
  <2> QED
    BY <1>4, <2>1, BootFrame DEF BootUntouched, InHand
<1>10. Snapshot'
  BY SnapshotFrame DEF SnapshotUntouched
<1>11. Expiries'
  BY <1>4, ExpiriesFrame DEF ExpiriesUntouched
<1>12. OnePr'
  BY <1>2 DEF OnePr, PrGiven
<1> QED
  BY <1>6, <1>7, <1>8, <1>9, <1>10, <1>11, <1>12 DEF LifeInv

LEMMA OpenPrKeepsLife ==
    ASSUME Sound, NEW t \in tasks, TaskOpenPr(t)
    PROVE  LifeInv'
<1> USE DEF storeVars, acspVars, memVars, bootVars, clockVars, futureVars, envVars, githubVars
<1> USE SoundParts
<1>1. /\ UNCHANGED <<storeVars, acspVars, memVars, opening, expiring, poll, bootVars, clockVars>>
      /\ t.pc = "open" /\ t \in Task
  BY DEF TaskOpenPr, TypeOK
<1>2. t.case \in Case /\ db[t.case].status = "applying" /\ PrOf(t.case) = {}
  BY <1>1 DEF Stages, Task
<1>3. CASE TaskEnd(t) /\ UNCHANGED githubVars
  BY <1>1, <1>3, TaskGivesUp
<1>4. CASE create_pull_request(t.case)
  <2>1. PrGiven(t.case)
    BY <1>2, <1>4, PrOpened
  <2>2. TaskEnd(t) \/ \E u : TaskStep(t, u) /\ u.case = t.case /\ u.pc = "read"
    <3> PICK u : u = [t EXCEPT !.pc = "read", !.pr = Len(prs) + 1]
      OBVIOUS
    <3>1. u.case = t.case /\ u.pc = "read"
      BY <1>1 DEF Task
    <3>2. OpenPrs = {}
      BY <1>4 DEF create_pull_request
    <3> QED
      BY <3>1, <3>2 DEF TaskOpenPr
  <2> QED
    BY <1>1, <2>1, <2>2, PrKeepsLife
<1>5. CASE TaskStep(t, [t EXCEPT !.pc = "find"]) /\ UNCHANGED githubVars
  <2> PICK u : u = [t EXCEPT !.pc = "find"]
    OBVIOUS
  <2>1. u.case = t.case /\ u.pc = "find" /\ TaskStep(t, u)
    BY <1>1, <1>5 DEF Task
  <2>2. NothingMoves /\ UNCHANGED <<mailbox, opening, expiring, pending, elevating, poll>>
    BY <1>1, <1>5, SamePrs DEF NothingMoves
  <2>3. t.pc \in Late /\ u.pc \in Late
    BY <1>1, <2>1 DEF Late
  <2>4. StageOf(u)'
    BY <1>2, <2>1, <2>2 DEF StageOf, NothingMoves
  <2> QED
    BY <2>1, <2>2, <2>3, <2>4, LateMoves
<1> QED
  BY <1>3, <1>4, <1>5 DEF TaskOpenPr

LEMMA FindPrKeepsLife ==
    ASSUME Sound, NEW t \in tasks, TaskFindPr(t)
    PROVE  LifeInv'
<1> USE DEF storeVars, acspVars, memVars, bootVars, clockVars, futureVars, envVars, githubVars
<1> USE SoundParts
<1>1. /\ UNCHANGED <<storeVars, acspVars, memVars, opening, expiring, poll, bootVars, clockVars>>
      /\ t.pc = "find" /\ t \in Task
  BY DEF TaskFindPr, TypeOK
<1>2. CASE TaskEnd(t) /\ UNCHANGED githubVars
  BY <1>1, <1>2, TaskGivesUp
<1>3. ASSUME NEW n \in OpenPrs, get_existing_pr_url(n, t.case),
             TaskStep(t, [t EXCEPT !.pc = "read", !.pr = n])
      PROVE  LifeInv'
  <2> PICK u : u = [t EXCEPT !.pc = "read", !.pr = n]
    OBVIOUS
  <2>1. u.case = t.case /\ u.pc = "read" /\ TaskStep(t, u)
    BY <1>1, <1>3 DEF Task
  <2>2. t.case \in Case /\ PrOf(t.case) = {}
    BY <1>1 DEF Stages, Task
  <2>3. PrGiven(t.case)
    BY <1>3, <2>2, PrFound
  <2> QED
    BY <1>1, <2>1, <2>3, PrKeepsLife
<1> QED
  BY <1>2, <1>3 DEF TaskFindPr

LEMMA StampReadKeepsLife ==
    ASSUME Sound, NEW t \in tasks, TaskStampRead(t)
    PROVE  LifeInv'
<1> USE DEF storeVars, acspVars, memVars, bootVars, clockVars, futureVars, envVars, githubVars
<1> USE SoundParts
<1>1. /\ UNCHANGED <<storeVars, acspVars, memVars, opening, expiring, poll, bootVars, envVars>>
      /\ t.pc = "read" /\ t \in Task
  BY DEF TaskStampRead, TypeOK
<1>2. NothingMoves /\ UNCHANGED <<mailbox, opening, expiring, pending, elevating, poll>>
  BY <1>1, SamePrs DEF NothingMoves
<1>3. \A c : Tracked(c)' = Tracked(c)
  BY <1>1, SamePolls
<1>4. StageOf(t)
  BY DEF Stages, StageOf
<1>5. CASE TaskStep(t, [t EXCEPT !.pc = "write", !.opened = db[t.case].opened])
  <2> PICK u : u = [t EXCEPT !.pc = "write", !.opened = db[t.case].opened]
    OBVIOUS
  <2>1. /\ u.case = t.case /\ u.pc = "write" /\ u.opened = db[t.case].opened
        /\ TaskStep(t, u)
    BY <1>1, <1>5 DEF Task
  <2>2. StageOf(u)'
    BY <1>1, <1>2, <1>3, <1>4, <2>1 DEF StageOf, NothingMoves
  <2>3. t.pc \in Late /\ u.pc \in Late
    BY <1>1, <2>1 DEF Late
  <2> QED
    BY <1>2, <2>1, <2>2, <2>3, LateMoves
<1>6. CASE TaskStep(t, [t EXCEPT !.pc = "map"])
  <2> PICK u : u = [t EXCEPT !.pc = "map"]
    OBVIOUS
  <2>1. u.case = t.case /\ u.pc = "map" /\ TaskStep(t, u)
    BY <1>1, <1>6 DEF Task
  <2>2. StageOf(u)'
    BY <2>1 DEF StageOf
  <2>3. t.pc \in Late /\ u.pc \in Late
    BY <1>1, <2>1 DEF Late
  <2> QED
    BY <1>2, <2>1, <2>2, <2>3, LateMoves
<1> QED
  BY <1>5, <1>6 DEF TaskStampRead

(* The row the future read is still the row it overwrites.                  *)
LEMMA StampWriteKeepsLife ==
    ASSUME Sound, NEW t \in tasks, TaskStampWrite(t)
    PROVE  LifeInv'
<1> USE DEF storeVars, acspVars, memVars, bootVars, clockVars, futureVars, envVars, githubVars
<1> USE SoundParts
<1> PICK c : c = t.case
  OBVIOUS
<1> PICK u : u = [t EXCEPT !.pc = "map"]
  OBVIOUS
<1>1. /\ asked' = asked /\ journal' = journal /\ forum' = forum /\ mailbox' = mailbox
      /\ opening' = opening /\ expiring' = expiring /\ prs' = prs
      /\ store' = store /\ recon' = recon /\ now' = now
      /\ pending' = pending /\ UNCHANGED <<elevating, poll>>
      /\ decided' = decided
      /\ t.pc = "write" /\ t \in Task /\ c \in Case
      /\ u.case = c /\ u.pc = "map" /\ TaskStep(t, u)
  BY DEF TaskStampWrite, TypeOK, Task, create_or_update
<1>2. \A b : Tracked(b)' = Tracked(b) /\ PrOf(b)' = PrOf(b)
  BY <1>1, SamePolls, SamePrs
<1>3. StageOf(u)' /\ t.pc \in Late /\ u.pc \in Late
  BY <1>1 DEF StageOf, Late
<1>4. CASE UNCHANGED storeVars
  <2>1. NothingMoves /\ UNCHANGED <<mailbox, opening, expiring, pending, elevating, poll>>
    BY <1>1, <1>2, <1>4 DEF NothingMoves
  <2> QED
    BY <1>1, <1>3, <2>1, LateMoves
<1>5. CASE create_or_update(c, [status |-> "elevating", pr |-> t.pr, opened |-> t.opened])
  <2>1. db[c].status = "applying" /\ t.opened = db[c].opened
    BY <1>1 DEF Stages
  <2>2. t.pr # 0
    BY <1>1 DEF Sound, Inv, PrNumbers
  <2>3. /\ \A b \in Case \ {c} : db'[b] = db[b]
        /\ db'[c].status = "elevating" /\ db'[c].pr = t.pr /\ db'[c].opened = t.opened
    BY <1>1, <1>5 DEF create_or_update, TypeOK, StoreTypeOK
  <2>4. \A b : Busy(b)' => Busy(b)
    BY <1>1, TaskHands
  <2>5. At("record")' \subseteq At("record")
    BY <1>1 DEF At, TaskStep
  <2>6. Requests'
    BY <1>1, <2>5, RequestsFrame DEF RequestsUntouched
  <2>7. Openings'
    <3>1. \A o \in opening : o.case = c => o.pc = "map"
      BY <2>1, OpeningsPast
    <3> QED
      BY <1>1, <2>1, <2>3, <3>1, OpeningsFrame DEF OpeningsUntouched, Known
  <2>8. RowMoves(c) /\ InHand(c) /\ c \notin expiring
    BY <1>1, <2>1, <2>2, <2>3 DEF RowMoves, Known, InHand, Busy, Expiries
  <2>9. BootOrder' /\ Snapshot' /\ Expiries'
    BY <1>1, <1>2, <2>4, <2>8, HandMovesRow
  <2>10. Stages'
    <3>1. \A v \in tasks : v.pc \in Late /\ v.case = c => v = t
      BY <1>3 DEF Stages
    <3>2. \A v \in tasks : v.case \in Case
      BY DEF TypeOK, Task
    <3> QED
      BY <1>1, <1>2, <1>3, <2>3, <3>1, <3>2, StagesMove
  <2>11. OnePr'
    BY <1>2, <2>3, OnePrFrame DEF OnePrUntouched, Claimed
  <2> QED
    BY <2>6, <2>7, <2>9, <2>10, <2>11 DEF LifeInv
<1> QED
  BY <1>4, <1>5 DEF TaskStampWrite

(* From now on the case is in memory, not in the future's hands.            *)
LEMMA TaskMapKeepsLife ==
    ASSUME Sound, NEW t \in tasks, TaskMap(t)
    PROVE  LifeInv'
<1> USE DEF storeVars, acspVars, memVars, bootVars, clockVars, futureVars, envVars, githubVars
<1> USE SoundParts
<1>1. /\ UNCHANGED <<storeVars, acspVars, pending, seen, opening, expiring, poll, bootVars, envVars>>
      /\ t.pc = "map" /\ t \in Task /\ t.case \in Case /\ TaskEnd(t)
  BY DEF TaskMap, TypeOK, Task
<1>2. \A b \in Case : b # t.case => elevating'[b] = elevating[b]
  BY <1>1 DEF TaskMap, TypeOK
<1>3. \A b \in Case : Tracked(b)' => Tracked(b) \/ b = t.case
  BY <1>1, <1>2 DEF Tracked
<1>4. \A b : Busy(b)' => Busy(b)
  BY <1>1, TaskHands
<1>5. InHand(t.case)
  BY DEF InHand, Busy
<1>6. NothingMoves
  BY <1>1, SamePrs DEF NothingMoves
<1>7. Requests'
  <2>1. At("record")' \subseteq At("record")
    BY <1>1 DEF At, TaskEnd
  <2> QED
    BY <1>1, <2>1, RequestsFrame DEF RequestsUntouched
<1>8. \A v \in tasks' : v.pc \in Late => v \in tasks /\ v.case # t.case
  BY <1>1 DEF TaskEnd, Stages, Late
<1>9. \A v \in tasks : v.case \in Case
  BY DEF TypeOK, Task
<1>10. \A v \in tasks' : v.pc \in Late \ {"map"} => (Tracked(v.case)' => Tracked(v.case))
  BY <1>3, <1>8, <1>9
<1>11. \A b \in Case : (Busy(b)' => Busy(b)) /\ (Tracked(b)' => InHand(b))
  BY <1>3, <1>4, <1>5 DEF InHand
<1> QED
  BY <1>1, <1>6, <1>7, <1>8, <1>10, <1>11, QuietButRequests

-----------------------------------------------------------------------------
(* Boot, its expiries, the merge poll, the clock and crashes                *)

LEMMA BootKeepsLife ==
    ASSUME Sound, AttachStore \/ ReconcileWait \/ ReconcileRead
    PROVE  LifeInv'
<1> USE DEF storeVars, acspVars, memVars, bootVars, clockVars, futureVars, envVars, githubVars
<1> USE SoundParts
<1>1. /\ UNCHANGED <<storeVars, acspVars, memVars, futureVars, envVars>>
      /\ At("record")' = At("record") /\ recon \in Recon
  BY DEF AttachStore, ReconcileWait, ReconcileRead, At, TypeOK
<1>2. \A c : Tracked(c)' = Tracked(c) /\ Busy(c)' = Busy(c) /\ PrOf(c)' = PrOf(c)
  BY <1>1, SamePolls, SameHands, SamePrs
<1>3. /\ Requests' /\ Openings' /\ Expiries' /\ OnePr'
  BY <1>1, <1>2, RequestsFrame, OpeningsFrame, ExpiriesFrame, OnePrFrame
  DEF RequestsUntouched, OpeningsUntouched, ExpiriesUntouched, OnePrUntouched
<1>4. \A row : Old(row)' = Old(row)
  BY <1>1 DEF Old, Stale
<1>5. expiring = {} /\ \A c \in Case : recon.snap[c] = NoRow
  BY DEF BootOrder, Snapshot, AttachStore, ReconcileWait, ReconcileRead
<1>6. ~Old(NoRow) /\ NoRow.status = "none" /\ NoRow.pr = 0
  BY DEF Old, NoRow
<1>7. CASE recon'.snap = recon.snap /\ recon'.pc # "apply" /\ (recon'.pc # "off" <=> store')
  <2>1. BootOrder'
    <3>1. ASSUME NEW c \in Case, recon'.pc = "armed", InHand(c) PROVE ~Old(db[c])
      BY <3>1 DEF BootOrder, InHand, AttachStore, ReconcileWait, ReconcileRead
    <3>2. \A c \in Case : ~Old(recon.snap[c])
      BY <1>5, <1>6
    <3>3. store'
      BY <1>7 DEF AttachStore, ReconcileWait, ReconcileRead, BootOrder
    <3> QED
      BY <1>1, <1>2, <1>4, <1>5, <1>7, <3>1, <3>2, <3>3 DEF BootOrder, InHand
  <2>2. Snapshot'
    BY <1>1, <1>4, <1>5, <1>6, <1>7 DEF Snapshot
  <2>3. Stages'
    BY <1>1, <1>2, <1>7, StagesFrame DEF StagesUntouched, TypeOK, Task
  <2> QED
    BY <1>3, <2>1, <2>2, <2>3 DEF LifeInv
<1>8. CASE ReconcileRead /\ recon' = [recon EXCEPT !.pc = "apply", !.snap = db]
  <2>1. /\ recon'.pc = "apply" /\ recon'.snap = db /\ store' = store /\ recon.pc = "armed"
    BY <1>1, <1>8 DEF ReconcileRead, Recon
  <2>2. BootOrder'
    BY <1>1, <1>2, <1>4, <1>5, <2>1 DEF BootOrder
  <2>3. Snapshot'
    BY <1>1, <1>4, <2>1 DEF Snapshot, Known
  <2>4. Stages'
    <3>1. \A t \in tasks : StageOf(t)'
      BY <1>1, <1>2, <2>1 DEF StageOf, Stages
    <3> QED
      BY <1>1, <3>1 DEF Stages, StageOf
  <2> QED
    BY <1>3, <2>2, <2>3, <2>4 DEF LifeInv
<1>9. AttachStore => recon'.snap = recon.snap /\ recon'.pc = "armed" /\ store'
  BY <1>1 DEF AttachStore, Recon
<1>10. ReconcileWait => recon'.snap = recon.snap /\ recon'.pc = "armed" /\ store'
  BY <1>1 DEF ReconcileWait, Recon, BootOrder
<1>11. ReconcileRead /\ recon' = [recon EXCEPT !.pc = "done"]
          => recon'.snap = recon.snap /\ recon'.pc = "done" /\ store'
  BY <1>1 DEF ReconcileRead, Recon, BootOrder
<1> QED
  BY <1>7, <1>8, <1>9, <1>10, <1>11 DEF ReconcileRead

(* What is planned from a row: an expiry for a stale case that is waiting   *)
(* or unclaimed, a resumption for one that is not stale, and the tracking   *)
(* of the PR the row records.                                               *)
LEMMA Plans ==
    ASSUME Sound, NEW c \in Case, NEW a, plan_reconciliation(recon.snap[c]) = a
    PROVE  /\ a = "Expire" => /\ Old(recon.snap[c])
                              /\ recon.snap[c].status \in {"pending", "approved"}
           /\ a \in {"ResumePr", "ResumePending"} =>
                 recon.snap[c].status \in {"pending", "approved"}
           /\ a = "ResumeTracking" => recon.snap[c].pr # 0
<1>1. recon.snap[c].status = "elevating" => recon.snap[c].pr # 0
  BY SoundParts DEF Snapshot
<1> PICK row : row = recon.snap[c]
  OBVIOUS
<1>2. Resumable(row) => row.status \in {"pending", "approved"}
  BY <1>1 DEF Resumable, Tracking
<1>3. Tracking(row) => a = "ResumeTracking" /\ row.pr # 0
  BY DEF plan_reconciliation, Tracking, Resumable
<1>4. ~Tracking(row) /\ ~Resumable(row) => a = "skip"
  BY DEF plan_reconciliation
<1>5. Resumable(row) /\ Stale(row) => a = "Expire"
  BY DEF plan_reconciliation, Resumable
<1>6. Resumable(row) /\ ~Stale(row) => a \in {"ResumePending", "ResumePr"}
  BY DEF plan_reconciliation, Resumable
<1> QED
  BY <1>2, <1>3, <1>4, <1>5, <1>6 DEF Old

LEMMA ReconcilingKeepsLife ==
    ASSUME Sound, apply_reconciliation
    PROVE  LifeInv'
<1> USE DEF storeVars, acspVars, bootVars, clockVars, futureVars, envVars, githubVars
<1> USE SoundParts
<1>1. /\ UNCHANGED <<storeVars, acspVars, opening, poll, store, envVars>>
      /\ recon.pc = "apply" /\ recon'.pc = "done"
      /\ \A c \in Case : recon'.snap[c] = NoRow
      /\ expiring' = Planned("Expire")
      /\ pending' = pending \cup Planned("ResumePending")
  <2>1. recon \in Recon
    BY DEF TypeOK
  <2>2. expiring = {}
    BY DEF BootOrder, apply_reconciliation
  <2> QED
    BY <2>1, <2>2 DEF apply_reconciliation, Recon
<1>2. \A v \in tasks' : v \in tasks \/ (v.pc = "claim" /\ v.case \in Planned("ResumePr"))
  BY DEF apply_reconciliation, NewTask
<1>3. tasks \subseteq tasks'
  BY DEF apply_reconciliation
<1>4. /\ \A c \in Planned("Expire") :
            c \in Case /\ Old(recon.snap[c]) /\ recon.snap[c].status \in {"pending", "approved"}
      /\ \A c \in Planned("ResumePr") \cup Planned("ResumePending") :
            c \in Case /\ recon.snap[c].status \in {"pending", "approved"} /\ c \notin Planned("Expire")
      /\ \A c \in Planned("ResumeTracking") : recon.snap[c].pr # 0
  BY Plans DEF Planned
<1>5. \A c : Busy(c)' => Busy(c) \/ c \in Planned("ResumePr") \cup Planned("ResumePending")
  BY <1>1, <1>2 DEF Busy
<1>6. Requests'
  <2>1. At("record")' \subseteq At("record")
    BY <1>2 DEF At
  <2> QED
    BY <1>1, <2>1, RequestsFrame DEF RequestsUntouched
<1>7. Openings'
  BY <1>1, OpeningsFrame DEF OpeningsUntouched
<1>8. BootOrder'
  <2>1. store
    BY <1>1 DEF BootOrder
  <2> QED
    BY <1>1, <2>1 DEF BootOrder
<1>9. Snapshot'
  <2>1. NoRow.status = "none" /\ NoRow.pr = 0
    BY DEF NoRow
  <2>2. db' = db /\ \A c \in Case : recon'.snap[c] = NoRow
    BY <1>1
  <2>3. \A c \in Case : ~Old(recon.snap[c])'
    BY <2>1, <2>2 DEF Old
  <2> QED
    BY <1>1, <2>1, <2>2, <2>3 DEF Snapshot
<1>10. Expiries'
  <2>1. \A c \in expiring' : db[c].status \in {"pending", "approved"}
    BY <1>1, <1>4 DEF Snapshot
  <2>2. \A c \in expiring' : ~Busy(c)
    BY <1>1, <1>4, InHandIsRecent DEF InHand
  <2>3. \A c \in expiring' : ~Busy(c)'
    BY <1>1, <1>4, <1>5, <2>2
  <2>4. \A c \in Case : Busy(c)' => db[c].status # "expired"
    BY <1>1, <1>4, <1>5 DEF Expiries, Snapshot
  <2> QED
    BY <1>1, <2>1, <2>3, <2>4 DEF Expiries
<1>11. Stages'
  <2>1. \A t \in tasks' : t.pc \in Late => t \in tasks
    BY <1>2 DEF Late
  <2>2. NoRow.pr = 0
    BY DEF NoRow
  <2>3. \A t \in tasks : t.case \in Case
    BY DEF TypeOK, Task
  <2>4. \A c \in Case : recon.snap[c].pr = 0 => (Tracked(c)' => Tracked(c))
    <3>1. \A c \in Case : recon.snap[c].pr = 0 => elevating'[c] = elevating[c]
      BY <1>4 DEF apply_reconciliation
    <3> QED
      BY <1>1, <3>1 DEF Tracked
  <2>5. \A c \in Case : PrOf(c)' = PrOf(c) /\ db'[c] = db[c]
    BY <1>1, SamePrs
  <2>6. \A t \in tasks : t.pc \in Late => StageOf(t)'
    BY <1>1, <2>2, <2>3, <2>4, <2>5 DEF Stages, StageOf
  <2> QED
    BY <2>1, <2>6 DEF Stages, StageOf, Late
<1>12. OnePr'
  BY <1>1, SamePrs, OnePrFrame DEF OnePrUntouched
<1> QED
  BY <1>6, <1>7, <1>8, <1>9, <1>10, <1>11, <1>12 DEF LifeInv

LEMMA ExpiringKeepsLife ==
    ASSUME Sound, NEW c \in Case, Expire(c)
    PROVE  LifeInv'
<1> USE DEF storeVars, acspVars, memVars, bootVars, clockVars, futureVars, envVars, githubVars
<1> USE SoundParts
<1>1. /\ UNCHANGED <<acspVars, memVars, opening, tasks, poll, bootVars, envVars>>
      /\ decided' = decided /\ At("record")' = At("record")
      /\ c \in expiring /\ expiring' = expiring \ {c}
  BY DEF Expire, set_status, At
<1>2. \A b : Tracked(b)' = Tracked(b) /\ Busy(b)' = Busy(b) /\ PrOf(b)' = PrOf(b)
  BY <1>1, SamePolls, SameHands, SamePrs
<1>3. /\ db[c].status \in {"pending", "approved"} /\ ~Busy(c)
      /\ recon.pc = "done" /\ \A b \in Case : recon.snap[b] = NoRow
  BY <1>1 DEF Expiries, BootOrder, Snapshot
<1>4. \/ db' = db
      \/ /\ \A b \in Case \ {c} : db'[b] = db[b]
         /\ db'[c].status = "expired" /\ db'[c].opened = db[c].opened
  BY <1>3, StatusMoves DEF Expire, set_status, Known
<1>5. \A t \in tasks : t.case \in Case /\ t.case # c
  BY <1>3 DEF Busy, TypeOK, Task
<1>6. \A o \in opening : o.case # c
  BY <1>3 DEF Busy
<1>7. Requests'
  BY <1>1, RequestsFrame DEF RequestsUntouched
<1>8. Openings'
  BY <1>1, <1>3, <1>4, <1>6, OpeningsFrame DEF OpeningsUntouched, Known
<1>9. BootOrder'
  <2>1. \A b \in Case : Old(db[b])' => Old(db[b])
    BY <1>1, <1>3, <1>4 DEF Old, Stale
  <2> QED
    BY <1>1, <1>2, <2>1, BootFrame DEF BootUntouched, InHand
<1>10. Snapshot'
  <2>1. ~Old(recon.snap[c])
    BY <1>3 DEF Old, NoRow
  <2> QED
    BY <1>1, <1>3, <1>4, <2>1, SnapshotFrame DEF SnapshotUntouched, Known
<1>11. Expiries'
  BY <1>1, <1>2, <1>3, <1>4, ExpiriesFrame DEF ExpiriesUntouched
<1>12. Stages'
  BY <1>1, <1>2, <1>4, <1>5, StagesFrame DEF StagesUntouched
<1>13. OnePr'
  BY <1>2, <1>3, <1>4, OnePrFrame DEF OnePrUntouched, OnePr
<1> QED
  BY <1>7, <1>8, <1>9, <1>10, <1>11, <1>12, <1>13 DEF LifeInv

(* A poll that has a verdict has it about a claimed case with a settled PR. *)
LEMMA VerdictFindsClaimed ==
    ASSUME Sound, NEW s \in PollSlot, poll[s].at # NoCase
    PROVE  /\ poll[s].at \in Case
           /\ PrOf(poll[s].at) # {}
           /\ db[poll[s].at].status \in Claimed
           /\ \/ poll[s].verdict = "published" /\ Settled(poll[s].at, "merged")
              \/ poll[s].verdict = "abandoned" /\ Settled(poll[s].at, "closed")
<1>1. poll[s].at \in Case /\ poll[s].verdict \in {"published", "abandoned"}
  BY SoundParts DEF TypeOK, Poll
<1>2. GitVerdict(poll[s].at, poll[s].verdict)
  BY DEF Sound, Inv, Verdicts
<1>3. PrOf(poll[s].at) # {}
  BY <1>1, <1>2 DEF GitVerdict, Settled, PrOf
<1> QED
  BY <1>1, <1>2, <1>3, SoundParts DEF GitVerdict, OnePr, Claimed

LEMMA VerdictKeepsLife ==
    ASSUME Sound, NEW s \in PollSlot, PollPersistOk(s)
    PROVE  LifeInv'
<1> USE DEF storeVars, acspVars, memVars, bootVars, clockVars, futureVars, envVars, githubVars
<1> USE SoundParts
<1> PICK c : c = poll[s].at
  OBVIOUS
<1>1. /\ UNCHANGED <<acspVars, memVars, opening, tasks, expiring, bootVars, envVars>>
      /\ decided' = decided /\ At("record")' = At("record") /\ c # NoCase
      /\ set_status(c, poll[s].verdict)
  BY DEF PollPersistOk, set_status, At
<1>2. /\ c \in Case /\ PrOf(c) # {} /\ db[c].status \in Claimed
      /\ poll[s].verdict \in {"published", "abandoned"}
  BY <1>1, VerdictFindsClaimed
<1>3. \A b : Busy(b)' = Busy(b) /\ PrOf(b)' = PrOf(b)
  BY <1>1, SameHands, SamePrs
<1>4. \A b \in Case : Tracked(b)' => Tracked(b)
  <2> PICK p : p = [poll[s] EXCEPT !.at = NoCase, !.verdict = "published",
                                   !.resolved = @ \cup {poll[s].at}]
    OBVIOUS
  <2>1. poll[s] \in Poll
    BY DEF TypeOK
  <2>2. p \in Poll /\ p.at = NoCase /\ p.left = poll[s].left
    BY <1>2, <2>1 DEF Poll
  <2>3. \A b \in Case : p.left[b] # 0 \/ p.at = b => Tracked(b)
    BY <2>2, NoCaseAssumption DEF Tracked
  <2> QED
    BY <1>1, <2>2, <2>3, PollTracks DEF PollPersistOk
<1>5. Tracked(c)
  BY DEF Tracked
<1>6. /\ \A b \in Case \ {c} : db'[b] = db[b]
      /\ db'[c].status \in {"published", "abandoned"} /\ db'[c].opened = db[c].opened
  BY <1>1, <1>2, StatusMoves DEF set_status, Known, Claimed
<1>7. Requests'
  BY <1>1, RequestsFrame DEF RequestsUntouched
<1>8. Openings'
  <2>1. \A o \in opening : o.case = c => o.pc = "map"
    BY <1>2, OpeningsPast DEF Claimed
  <2> QED
    BY <1>1, <1>2, <1>6, <2>1, OpeningsFrame DEF OpeningsUntouched, Known, Claimed
<1>9. RowMoves(c) /\ InHand(c) /\ c \notin expiring
  BY <1>2, <1>5, <1>6 DEF RowMoves, Known, InHand, Expiries, Claimed
<1>10. BootOrder' /\ Snapshot' /\ Expiries'
  BY <1>1, <1>2, <1>3, <1>4, <1>9, HandMovesRow
<1>11. Stages'
  <2>1. \A t \in tasks : t.pc \in Late \ {"map"} => t.case \in Case \ {c}
    BY <1>2, <1>5 DEF Stages, Late, TypeOK, Task
  <2> QED
    BY <1>1, <1>3, <1>4, <1>6, <2>1, StagesFrame DEF StagesUntouched
<1>12. OnePr'
  BY <1>3, <1>6, OnePrFrame DEF OnePrUntouched, Claimed
<1> QED
  BY <1>7, <1>8, <1>10, <1>11, <1>12 DEF LifeInv

(* Time passes only when nothing is in hand that a boot still has to plan.  *)
LEMMA TickKeepsLife ==
    ASSUME Sound, Tick
    PROVE  LifeInv'
<1> USE DEF storeVars, acspVars, memVars, bootVars, clockVars, futureVars, envVars, githubVars
<1> USE SoundParts
<1>1. /\ UNCHANGED <<storeVars, acspVars, memVars, futureVars, bootVars, githubVars, asked>>
      /\ At("record")' = At("record")
      /\ recon.pc \in {"done", "off"} /\ \A c \in Case : recon.snap[c] = NoRow
  BY DEF Tick, At, Snapshot
<1>2. \A c : Tracked(c)' = Tracked(c) /\ Busy(c)' = Busy(c) /\ PrOf(c)' = PrOf(c)
  BY <1>1, SamePolls, SameHands, SamePrs
<1>3. /\ Requests' /\ Openings' /\ Expiries' /\ OnePr' /\ Stages'
  BY <1>1, <1>2, RequestsFrame, OpeningsFrame, ExpiriesFrame, OnePrFrame, StagesFrame
  DEF RequestsUntouched, OpeningsUntouched, ExpiriesUntouched, OnePrUntouched,
      StagesUntouched, TypeOK, Task
<1>4. BootOrder'
  BY <1>1, <1>2 DEF BootOrder
<1>5. Snapshot'
  <2>1. \A c \in Case : ~Old(recon.snap[c])'
    BY <1>1 DEF Old, NoRow
  <2> QED
    BY <1>1, <2>1 DEF Snapshot, Known
<1> QED
  BY <1>3, <1>4, <1>5 DEF LifeInv

LEMMA CrashKeepsLife ==
    ASSUME Sound, Crash
    PROVE  LifeInv'
<1> USE DEF storeVars, clockVars, githubVars
<1> USE SoundParts
<1>1. /\ db' = db /\ decided' = decided /\ asked' = asked /\ journal' = journal
      /\ forum' = forum /\ prs' = prs
      /\ mailbox' = {} /\ opening' = {} /\ tasks' = {} /\ expiring' = {} /\ pending' = {}
      /\ recon' = BootRecon /\ store' = FALSE
  BY DEF Crash, AcspBoot
<1>2. At("record")' = {} /\ \A c : ~Busy(c)'
  BY <1>1 DEF At, Busy
<1>3. \A c \in Case : ~Tracked(c)'
  <2>1. \A s \in PollSlot : poll'[s] = IdlePoll
    BY DEF Crash
  <2>2. IdlePoll.at = NoCase /\ \A c \in Case : IdlePoll.left[c] = 0
    BY DEF IdlePoll, NotTracked
  <2>3. \A c \in Case : elevating'[c] = 0 /\ c # NoCase
    BY NoCaseAssumption DEF Crash, NotTracked
  <2> QED
    BY <2>1, <2>2, <2>3 DEF Tracked
<1>4. /\ Requests' /\ Openings' /\ OnePr' /\ Stages' /\ Expiries'
  <2>1. Requests'
    BY <1>1, <1>2, RequestsFrame DEF RequestsUntouched
  <2>2. Openings'
    BY <1>1, OpeningsFrame DEF OpeningsUntouched
  <2>3. OnePr'
    BY <1>1, SamePrs, OnePrFrame DEF OnePrUntouched
  <2>4. Stages' /\ Expiries'
    BY <1>1, <1>2 DEF Stages, Expiries
  <2> QED
    BY <2>1, <2>2, <2>3, <2>4
<1>5. BootRecon.pc = "off" /\ \A c \in Case : BootRecon.snap[c] = NoRow
  BY DEF BootRecon
<1>6. BootOrder'
  BY <1>1, <1>2, <1>3, <1>5 DEF BootOrder
<1>7. Snapshot'
  <2>1. NoRow.status = "none"
    BY DEF NoRow
  <2>2. \A c \in Case : ~Old(recon.snap[c])'
    BY <1>1, <1>5, <2>1 DEF Old
  <2> QED
    BY <1>1, <1>5, <2>1, <2>2 DEF Snapshot, Known
<1> QED
  BY <1>4, <1>6, <1>7 DEF LifeInv

LEMMA LifeInit == Init => LifeInv
<1> SUFFICES ASSUME Init PROVE LifeInv
  OBVIOUS
<1>1. /\ mailbox = {} /\ opening = {} /\ tasks = {} /\ expiring = {} /\ pending = {}
      /\ decided = {} /\ asked = {} /\ journal = {} /\ forum = {}
      /\ store = FALSE /\ prs = <<>>
      /\ recon.pc = "off" /\ \A c \in Case : recon.snap[c] = NoRow /\ db[c] = NoRow
  BY DEF Init, StoreInit, AcspInit, GitHubInit, BootRecon
<1>2. NoRow.status = "none" /\ DOMAIN prs = {}
  BY <1>1 DEF NoRow
<1>3. At("record") = {} /\ \A c : ~Busy(c) /\ PrOf(c) = {}
  BY <1>1, <1>2 DEF At, Busy, PrOf
<1>4. \A c \in Case : ~Tracked(c) /\ ~Known(c) /\ ~Old(recon.snap[c])
  <2>1. \A s \in PollSlot : poll[s] = IdlePoll
    BY DEF Init
  <2>2. IdlePoll.at = NoCase /\ \A c \in Case : IdlePoll.left[c] = 0
    BY DEF IdlePoll, NotTracked
  <2>3. \A c \in Case : elevating[c] = 0 /\ c # NoCase
    BY NoCaseAssumption DEF Init, NotTracked
  <2> QED
    BY <1>1, <1>2, <2>1, <2>2, <2>3 DEF Tracked, Known, Old
<1>5. Requests /\ Openings
  BY <1>1, <1>3, <1>4 DEF Requests, Openings
<1>6. BootOrder /\ Snapshot
  BY <1>1, <1>2, <1>3, <1>4 DEF BootOrder, Snapshot
<1>7. Expiries /\ Stages /\ OnePr
  BY <1>1, <1>3 DEF Expiries, Stages, OnePr
<1> QED
  BY <1>5, <1>6, <1>7 DEF LifeInv

(* One disjunct of Next after the other.                                    *)
LEMMA LifeStep ==
    ASSUME OneRequest, Sound, [Next]_vars
    PROVE  LifeInv'
<1>1. CASE UNCHANGED vars \/ Connect \/ Subscribe
  BY <1>1, StutterKeepsLife
<1>2. CASE AttachStore \/ ReconcileWait \/ ReconcileRead
  BY <1>2, BootKeepsLife
<1>3. CASE \E c \in Case, r \in Request : ElevateDecision(c, r)
  BY <1>3, ElevatingKeepsLife
<1>4. CASE OpenFuture
  BY <1>4, PersistKeepsLife, PublishKeepsLife, CloseoutKeepsLife, OpenMapKeepsLife DEF OpenFuture
<1>5. CASE ForumAnswers \/ \E m \in mailbox : HandleDecision(m)
  BY <1>5, AnsweringKeepsLife
<1>6. CASE TaskFuture
  BY <1>6, RecordingKeepsLife, ClaimKeepsLife, PushKeepsLife, OpenPrKeepsLife, FindPrKeepsLife,
     StampReadKeepsLife, StampWriteKeepsLife, TaskMapKeepsLife DEF TaskFuture
<1>7. CASE apply_reconciliation
  BY <1>7, ReconcilingKeepsLife
<1>8. CASE \E c \in Case : Expire(c)
  BY <1>8, ExpiringKeepsLife
<1>9. CASE \E s \in PollSlot : PollStart(s) \/ PollFuture(s)
  BY <1>9, PollKeepsLife, VerdictKeepsLife DEF PollFuture
<1>10. CASE \E n \in DOMAIN prs, state \in {"merged", "closed"} : GitSettles(n, state)
  BY <1>10, SettlingKeepsLife
<1>11. CASE \E c \in Case, l \in Local, o \in Outcome : RestDecision(c, l, o)
  BY <1>11 DEF OneRequest
<1>12. CASE Tick
  BY <1>12, TickKeepsLife
<1>13. CASE Crash
  BY <1>13, CrashKeepsLife
<1> QED
  BY <1>1, <1>2, <1>3, <1>4, <1>5, <1>6, <1>7, <1>8, <1>9, <1>10, <1>11, <1>12, <1>13
  DEF Next, Reconciliation

LEMMA SoundInit == Init => Sound
BY InvInit, LifeInit DEF Sound

LEMMA SoundStep ==
    ASSUME OneRequest
    PROVE  Sound /\ [Next]_vars => Sound'
BY InvStep, LifeStep DEF Sound

-----------------------------------------------------------------------------
(* Each step is one of the lifecycle, or shows nothing                      *)

(* What git reports for a case is the state of the one PR it is on.         *)
LEMMA GitStateIs ==
    ASSUME NEW c \in Case, NEW n \in PrOf(c), OnePr
    PROVE  GitState(c) = prs[n].state
<1>1. PrOf(c) = {n}
  BY DEF OnePr
<1> QED
  BY <1>1 DEF GitState

LEMMA GitStateBecomes ==
    ASSUME NEW c \in Case, NEW n \in PrOf(c)', OnePr'
    PROVE  GitState(c)' = prs'[n].state
<1>1. PrOf(c)' = {n}
  BY DEF OnePr
<1> QED
  BY <1>1 DEF GitState

LEMMA SameGit == prs' = prs => \A c : GitState(c)' = GitState(c)
BY DEF GitState, PrOf

LEMMA SettledIs ==
    ASSUME Sound, NEW c \in Case, NEW state, Settled(c, state)
    PROVE  GitState(c) = state
<1>1. PICK n \in DOMAIN prs : c \in prs[n].cases /\ prs[n].state = state
  BY DEF Settled
<1>2. n \in PrOf(c)
  BY <1>1 DEF PrOf
<1> QED
  BY <1>1, <1>2, GitStateIs, SoundParts

ShowsNothing ==
    \A c \in Case : db'[c].status = db[c].status /\ GitState(c)' = GitState(c)

ShowsStatus(c, s) ==
    /\ db'[c].status = s /\ GitState(c)' = GitState(c)
    /\ \A b \in Case \ {c} : db'[b].status = db[b].status /\ GitState(b)' = GitState(b)

LEMMA Stutters == ShowsNothing => UNCHANGED Lifecycle!vars
BY DEF ShowsNothing, Lifecycle!vars

LEMMA MovesRow ==
    ASSUME NEW c \in Case, NEW s, ShowsStatus(c, s)
    PROVE  Lifecycle!Moves(c, s)
BY DEF ShowsStatus, Lifecycle!Moves

(* One PR more, or one case more on the open PR.                            *)
LEMMA MovesGit ==
    ASSUME NEW c \in Case, GitState(c)' = "open",
           \A b \in Case \ {c} : GitState(b)' = GitState(b),
           \A b \in Case : db'[b].status = db[b].status
    PROVE  Lifecycle!GitMoves(c, "open")
BY DEF Lifecycle!GitMoves

LEMMA OpeningRefines ==
    ASSUME OneRequest, Sound, NEW o \in opening,
           OpenPersist(o) \/ OpenPublish(o) \/ OpenCloseout(o) \/ OpenMap(o)
    PROVE  [Lifecycle!Next]_(Lifecycle!vars)
<1> USE DEF storeVars, envVars, githubVars
<1> USE SoundParts
<1>1. \A c : GitState(c)' = GitState(c)
  BY SameGit DEF OpenPersist, OpenPublish, OpenCloseout, OpenMap
<1>2. o.case \in Case /\ db \in [Case -> Row]
  BY DEF TypeOK, StoreTypeOK, Opening
<1>3. CASE UNCHANGED storeVars
  BY <1>1, <1>3, Stutters DEF ShowsNothing
<1>4. CASE OpenPersist(o) /\ open_case(o.case)
  <2>1. db[o.case].status = "none"
    BY <1>4 DEF OpenPersist, Openings
  <2>2. ShowsStatus(o.case, "pending")
    BY <1>1, <1>2, <1>4 DEF ShowsStatus, open_case, create_or_update
  <2>3. Lifecycle!Open(o.case)
    BY <1>2, <2>1, <2>2, MovesRow DEF Lifecycle!Open
  <2> QED
    BY <1>2, <2>3 DEF Lifecycle!Next
<1>5. CASE OpenCloseout(o) /\ set_status(o.case, "publish_failed")
  <2>1. db[o.case].status = "pending"
    BY <1>5 DEF OpenCloseout, Openings
  <2>2. ShowsStatus(o.case, "publish_failed")
    BY <1>1, <1>2, <1>5, <2>1, StatusMoves DEF ShowsStatus, set_status, Known
  <2>3. Lifecycle!PublishFails(o.case)
    BY <1>2, <2>1, <2>2, MovesRow DEF Lifecycle!PublishFails
  <2> QED
    BY <1>2, <2>3 DEF Lifecycle!Next
<1> QED
  BY <1>3, <1>4, <1>5 DEF OpenPersist, OpenPublish, OpenCloseout, OpenMap

LEMMA RecordingRefines ==
    ASSUME OneRequest, Sound, NEW t \in tasks, TaskRecord(t)
    PROVE  [Lifecycle!Next]_(Lifecycle!vars)
<1> USE DEF storeVars, envVars, githubVars
<1> USE SoundParts
<1>1. \A c : GitState(c)' = GitState(c)
  BY SameGit DEF TaskRecord
<1>2. t.pc = "record" /\ t.case \in Case /\ t.outcome \in Outcome
  BY DEF TypeOK, Task, TaskRecord
<1>3. CASE UNCHANGED storeVars
  BY <1>1, <1>3, Stutters DEF ShowsNothing
<1>4. CASE UpdateStatus(t.case, status_for_outcome(t.outcome))
  <2>1. db[t.case].status = "pending"
    BY <1>2, RecordFindsPending
  <2>2. PICK s \in {"approved", "rejected", "reviewed"} : UpdateStatus(t.case, s)
    BY <1>2, <1>4, StatusForOutcome
  <2>3. ShowsStatus(t.case, s)
    BY <1>1, <1>2, <2>1, <2>2, StatusMoves DEF ShowsStatus, Known
  <2>4. Lifecycle!Answer(t.case)
    BY <1>2, <2>1, <2>2, <2>3, MovesRow DEF Lifecycle!Answer
  <2> QED
    BY <1>2, <2>4 DEF Lifecycle!Next
<1> QED
  BY <1>3, <1>4 DEF TaskRecord, record_decision

LEMMA ClaimRefines ==
    ASSUME Sound, NEW t \in tasks, TaskClaim(t)
    PROVE  [Lifecycle!Next]_(Lifecycle!vars)
<1> USE DEF storeVars, envVars, githubVars
<1>1. \A c : GitState(c)' = GitState(c)
  BY SameGit DEF TaskClaim
<1>2. t.case \in Case /\ TypeOK
  BY SoundParts DEF TypeOK, Task
<1>3. CASE UNCHANGED storeVars
  BY <1>1, <1>3, Stutters DEF ShowsNothing
<1>4. CASE claim_application(t.case)
  <2>1. db[t.case].status = "approved"
    BY <1>4 DEF claim_application, Claimable
  <2>2. ShowsStatus(t.case, "applying")
    BY <1>1, <1>2, <1>4, <2>1, StatusMoves DEF ShowsStatus, claim_application, Known
  <2>3. Lifecycle!Claim(t.case)
    BY <1>2, <2>1, <2>2, MovesRow DEF Lifecycle!Claim
  <2> QED
    BY <1>2, <2>3 DEF Lifecycle!Next
<1> QED
  BY <1>3, <1>4 DEF TaskClaim

(* A case comes to a PR that is open: the one it opened or the branch's.    *)
LEMMA PrRefines ==
    ASSUME Sound, LifeInv', NEW t \in tasks, TaskOpenPr(t) \/ TaskFindPr(t)
    PROVE  [Lifecycle!Next]_(Lifecycle!vars)
<1> USE DEF storeVars, envVars, githubVars
<1> USE SoundParts
<1> PICK c : c = t.case
  OBVIOUS
<1>1. /\ c \in Case /\ db[c].status = "applying" /\ PrOf(c) = {}
      /\ db' = db /\ prs \in Seq(Pr) /\ OnePr'
  BY DEF TypeOK, GitHubTypeOK, Task, TaskOpenPr, TaskFindPr, Stages, LifeInv
<1>2. GitState(c) = "none"
  BY <1>1 DEF GitState
<1>3. CASE prs' = prs
  BY <1>1, <1>3, SameGit, Stutters DEF ShowsNothing
<1>4. ASSUME NEW n \in PrOf(c)', prs'[n].state = "open",
             \A b \in Case \ {c} : GitState(b)' = GitState(b)
      PROVE  [Lifecycle!Next]_(Lifecycle!vars)
  <2>1. GitState(c)' = "open"
    BY <1>1, <1>4, GitStateBecomes
  <2>2. Lifecycle!OpenPr(c)
    BY <1>1, <1>2, <1>4, <2>1, MovesGit DEF Lifecycle!OpenPr
  <2> QED
    BY <1>1, <2>2 DEF Lifecycle!Next
<1>5. CASE create_pull_request(c)
  <2> PICK k : k = Len(prs) + 1
    OBVIOUS
  <2>1. /\ DOMAIN prs = 1..Len(prs) /\ DOMAIN prs' = 1..(Len(prs) + 1) /\ Len(prs) \in Nat
        /\ \A n \in DOMAIN prs : prs'[n] = prs[n]
        /\ prs'[k].cases = {c} /\ prs'[k].state = "open"
    BY <1>1, <1>5, CreatePrEffect
  <2>2. DOMAIN prs' = DOMAIN prs \cup {k} /\ k \notin DOMAIN prs
    BY <2>1
  <2>3. k \in PrOf(c)'
    BY <2>1, <2>2 DEF PrOf
  <2>4. \A b \in Case \ {c} : GitState(b)' = GitState(b)
    <3>1. SUFFICES ASSUME NEW b \in Case \ {c} PROVE GitState(b)' = GitState(b)
      OBVIOUS
    <3>2. PrOf(b)' = PrOf(b) /\ \A n \in PrOf(b) : prs'[n] = prs[n]
      BY <2>1, <2>2 DEF PrOf
    <3>3. CASE PrOf(b) = {}
      BY <3>2, <3>3 DEF GitState
    <3>4. CASE PrOf(b) # {}
      <4> PICK n : n \in PrOf(b)
        BY <3>4
      <4> QED
        BY <1>1, <3>2, GitStateIs, GitStateBecomes
    <3> QED
      BY <3>3, <3>4
  <2> QED
    BY <1>4, <2>1, <2>3, <2>4
<1>6. ASSUME NEW n \in OpenPrs, get_existing_pr_url(n, c)
      PROVE  [Lifecycle!Next]_(Lifecycle!vars)
  <2>1. /\ n \in DOMAIN prs /\ DOMAIN prs' = DOMAIN prs
        /\ prs'[n].cases = prs[n].cases \cup {c}
        /\ \A i \in DOMAIN prs : /\ i # n => prs'[i] = prs[i]
                                 /\ prs'[i].state = prs[i].state
    BY <1>1, <1>6, FindPrEffect
  <2>2. n \in PrOf(c)' /\ prs'[n].state = "open"
    BY <1>6, <2>1 DEF PrOf, OpenPrs
  <2>3. \A b \in Case \ {c} : GitState(b)' = GitState(b)
    <3>1. SUFFICES ASSUME NEW b \in Case \ {c} PROVE GitState(b)' = GitState(b)
      OBVIOUS
    <3>2. PrOf(b)' = PrOf(b) /\ PrOf(b) \subseteq DOMAIN prs
      BY <2>1 DEF PrOf
    <3>3. CASE PrOf(b) = {}
      BY <3>2, <3>3 DEF GitState
    <3>4. CASE PrOf(b) # {}
      <4> PICK i : i \in PrOf(b)
        BY <3>4
      <4> QED
        BY <1>1, <2>1, <3>2, GitStateIs, GitStateBecomes
    <3> QED
      BY <3>3, <3>4
  <2> QED
    BY <1>4, <2>2, <2>3
<1> QED
  BY <1>3, <1>5, <1>6 DEF TaskOpenPr, TaskFindPr

(* The cases that share a PR settle together.                               *)
LEMMA SettlingRefines ==
    ASSUME Sound, LifeInv', NEW n \in DOMAIN prs, NEW state \in {"merged", "closed"},
           GitSettles(n, state)
    PROVE  [Lifecycle!Next]_(Lifecycle!vars)
<1> USE DEF storeVars
<1> USE SoundParts
<1> PICK S : S = {c \in Case : n \in PrOf(c)}
  OBVIOUS
<1>1. /\ prs \in Seq(Pr) /\ commits \in Seq(Draft) /\ OnePr' /\ db' = db
      /\ n \in OpenPrs
      /\ prs' = [prs EXCEPT ![n] = [prs[n] EXCEPT !.state = state, !.tip = Len(commits)]]
  BY DEF TypeOK, GitHubTypeOK, LifeInv, GitSettles, Settle
<1>2. /\ DOMAIN prs' = DOMAIN prs /\ prs[n].state = "open"
      /\ \A i \in DOMAIN prs : /\ prs'[i].cases = prs[i].cases
                               /\ i # n => prs'[i] = prs[i]
  BY <1>1, SettleEffect DEF GitSettles
<1>3. prs'[n].state = state
  <2>1. prs[n] \in Pr /\ n \in 1..Len(prs) /\ Len(prs) \in Nat
    BY <1>1, PrType, LenProperties
  <2> PICK p : p = [prs[n] EXCEPT !.state = state, !.tip = Len(commits)]
    OBVIOUS
  <2>2. p.state = state
    BY <2>1 DEF Pr
  <2>3. prs'[n] = p
    BY <1>1, <2>1
  <2> QED
    BY <2>2, <2>3
<1>4. \A c : PrOf(c)' = PrOf(c)
  BY <1>2 DEF PrOf
<1>5. \A c \in S : GitState(c) = "open" /\ GitState(c)' = state
  BY <1>1, <1>2, <1>3, <1>4, GitStateIs, GitStateBecomes
<1>6. \A c \in Case \ S : GitState(c)' = GitState(c)
  <2>1. SUFFICES ASSUME NEW c \in Case \ S PROVE GitState(c)' = GitState(c)
    OBVIOUS
  <2>2. CASE PrOf(c) = {}
    BY <1>4, <2>2 DEF GitState
  <2>3. CASE PrOf(c) # {}
    <3> PICK i : i \in PrOf(c)
      BY <2>3
    <3>1. i # n /\ i \in DOMAIN prs
      BY DEF PrOf
    <3> QED
      BY <1>1, <1>2, <1>4, <3>1, GitStateIs, GitStateBecomes
  <2> QED
    BY <2>2, <2>3
<1>7. Lifecycle!GitSettles(S, state)
  BY <1>1, <1>5, <1>6 DEF Lifecycle!GitSettles
<1>8. S \in SUBSET Case
  OBVIOUS
<1> QED
  BY <1>7, <1>8 DEF Lifecycle!Next

LEMMA StampRefines ==
    ASSUME Sound, NEW t \in tasks, TaskStampWrite(t)
    PROVE  [Lifecycle!Next]_(Lifecycle!vars)
<1> USE DEF storeVars, envVars, githubVars
<1> USE SoundParts
<1>1. \A c : GitState(c)' = GitState(c)
  BY SameGit DEF TaskStampWrite
<1>2. /\ t.case \in Case /\ db \in [Case -> Row] /\ prs \in Seq(Pr)
      /\ t.pc = "write" /\ db[t.case].status = "applying"
  BY DEF TypeOK, Task, StoreTypeOK, GitHubTypeOK, TaskStampWrite, Stages
<1>3. CASE UNCHANGED storeVars
  BY <1>1, <1>3, Stutters DEF ShowsNothing
<1>4. CASE create_or_update(t.case, [status |-> "elevating", pr |-> t.pr, opened |-> t.opened])
  <2>1. GitState(t.case) # "none"
    <3>1. t.pr \in PrOf(t.case)
      BY <1>2 DEF Sound, Inv, PrNumbers, PrOfCase, PrOf
    <3>2. GitState(t.case) = prs[t.pr].state
      BY <1>2, <3>1, GitStateIs
    <3>3. prs[t.pr] \in Pr
      BY <1>2, <3>1, PrType DEF PrOf
    <3> QED
      BY <3>2, <3>3 DEF Pr, PrState
  <2>2. ShowsStatus(t.case, "elevating")
    BY <1>1, <1>2, <1>4 DEF ShowsStatus, create_or_update
  <2>3. Lifecycle!Stamp(t.case)
    BY <1>2, <2>1, <2>2, MovesRow DEF Lifecycle!Stamp
  <2> QED
    BY <1>2, <2>3 DEF Lifecycle!Next
<1> QED
  BY <1>3, <1>4 DEF TaskStampWrite

LEMMA ExpiringRefines ==
    ASSUME Sound, NEW c \in Case, Expire(c)
    PROVE  [Lifecycle!Next]_(Lifecycle!vars)
<1> USE DEF storeVars, envVars, githubVars
<1> USE SoundParts
<1>1. \A b : GitState(b)' = GitState(b)
  BY SameGit DEF Expire
<1>2. CASE UNCHANGED storeVars
  BY <1>1, <1>2, Stutters DEF ShowsNothing
<1>3. CASE set_status(c, "expired")
  <2>1. db[c].status \in {"pending", "approved"}
    BY DEF Expire, Expiries
  <2>2. ShowsStatus(c, "expired")
    BY <1>1, <1>3, <2>1, StatusMoves DEF ShowsStatus, set_status, Known
  <2>3. Lifecycle!Expire(c)
    BY <2>1, <2>2, MovesRow DEF Lifecycle!Expire
  <2> QED
    BY <2>3 DEF Lifecycle!Next
<1> QED
  BY <1>2, <1>3 DEF Expire

(* The verdict is what git says, so a case that is closed stays as it is.   *)
LEMMA VerdictRefines ==
    ASSUME Sound, NEW s \in PollSlot, PollPersistOk(s)
    PROVE  [Lifecycle!Next]_(Lifecycle!vars)
<1> USE DEF envVars, githubVars
<1> USE SoundParts
<1> PICK c : c = poll[s].at
  OBVIOUS
<1> PICK v : v = poll[s].verdict
  OBVIOUS
<1>1. /\ \A b : GitState(b)' = GitState(b)
      /\ c # NoCase /\ UpdateStatus(c, v)
  BY SameGit DEF PollPersistOk, set_status
<1>2. /\ c \in Case /\ db[c].status \in Claimed
      /\ \/ v = "published" /\ Settled(c, "merged")
         \/ v = "abandoned" /\ Settled(c, "closed")
  BY <1>1, VerdictFindsClaimed
<1>3. \/ v = "published" /\ GitState(c) = "merged"
      \/ v = "abandoned" /\ GitState(c) = "closed"
  BY <1>2, SettledIs
<1>4. ShowsStatus(c, v)
  BY <1>1, <1>2, StatusMoves DEF ShowsStatus, Known, Claimed
<1>5. CASE db[c].status \in {"applying", "elevating"}
  <2>1. Lifecycle!Conclude(c)
    BY <1>2, <1>3, <1>4, <1>5, MovesRow DEF Lifecycle!Conclude
  <2> QED
    BY <1>2, <2>1 DEF Lifecycle!Next
<1>6. CASE db[c].status \in {"published", "abandoned"}
  <2>1. GitVerdict(c, db[c].status)
    BY <1>2 DEF Sound, Inv, Verdicts
  <2>2. db[c].status = v
    BY <1>2, <1>3, <1>6, <2>1, SettledIs DEF GitVerdict
  <2> QED
    BY <1>4, <2>2, Stutters DEF ShowsNothing, ShowsStatus
<1> QED
  BY <1>2, <1>5, <1>6 DEF Claimed

LEMMA RestRefines ==
    ASSUME UNCHANGED <<db, prs>>
    PROVE  [Lifecycle!Next]_(Lifecycle!vars)
BY SameGit, Stutters DEF ShowsNothing

(* Every step of the actor and its world.                                   *)
LEMMA StepRefines ==
    ASSUME OneRequest, Sound, LifeInv', [Next]_vars
    PROVE  [Lifecycle!Next]_(Lifecycle!vars)
<1> USE DEF storeVars, acspVars, memVars, bootVars, clockVars, futureVars, envVars, githubVars
<1>1. CASE UNCHANGED vars \/ Connect \/ Subscribe \/ AttachStore \/ Tick \/ Crash \/ ForumAnswers
  BY <1>1, RestRefines DEF vars, Connect, Subscribe, AttachStore, Tick, Crash, ForumAnswers
<1>2. CASE Reconciliation \/ \E c \in Case, r \in Request : ElevateDecision(c, r)
  BY <1>2, RestRefines
  DEF Reconciliation, ReconcileWait, ReconcileRead, apply_reconciliation, ElevateDecision
<1>3. CASE \E m \in mailbox : HandleDecision(m)
  BY <1>3, RestRefines DEF HandleDecision
<1>4. CASE OpenFuture
  BY <1>4, OpeningRefines DEF OpenFuture
<1>5. CASE TaskFuture
  <2> PICK t \in tasks :
         \/ TaskRecord(t) \/ TaskClaim(t) \/ TaskCreateRef(t) \/ TaskOpenPr(t)
         \/ TaskFindPr(t) \/ TaskStampRead(t) \/ TaskStampWrite(t) \/ TaskMap(t)
    BY <1>5 DEF TaskFuture
  <2>1. CASE TaskCreateRef(t) \/ TaskStampRead(t) \/ TaskMap(t)
    BY <2>1, RestRefines DEF TaskCreateRef, create_ref, TaskStampRead, TaskMap
  <2> QED
    BY <2>1, RecordingRefines, ClaimRefines, PrRefines, StampRefines
<1>6. CASE \E c \in Case : Expire(c)
  BY <1>6, ExpiringRefines
<1>7. CASE \E s \in PollSlot : PollStart(s) \/ PollFuture(s)
  <2> PICK s \in PollSlot : PollStart(s) \/ PollFuture(s)
    BY <1>7
  <2>1. CASE PollStart(s) \/ PollPersistFails(s) \/ PollDone(s) \/ \E c \in Case : PollQuery(s, c)
    BY <2>1, RestRefines DEF PollStart, PollPersistFails, PollDone, PollQuery
  <2> QED
    BY <2>1, VerdictRefines DEF PollFuture
<1>8. CASE \E n \in DOMAIN prs, state \in {"merged", "closed"} : GitSettles(n, state)
  BY <1>8, SettlingRefines
<1>9. CASE \E c \in Case, l \in Local, o \in Outcome : RestDecision(c, l, o)
  BY <1>9 DEF OneRequest
<1> QED
  BY <1>1, <1>2, <1>3, <1>4, <1>5, <1>6, <1>7, <1>8, <1>9 DEF Next

LEMMA InitRefines == Init => Lifecycle!Init
<1> SUFFICES ASSUME Init PROVE Lifecycle!Init
  OBVIOUS
<1>1. \A c \in Case : db[c].status = "none"
  BY DEF Init, StoreInit, NoRow
<1>2. \A c \in Case : GitState(c) = "none"
  <2>1. prs = <<>> /\ DOMAIN prs = {}
    BY DEF Init, GitHubInit
  <2> QED
    BY <2>1 DEF GitState, PrOf
<1> QED
  BY <1>1, <1>2 DEF Lifecycle!Init

(* The actor, its futures, the relay, GitHub and every crash together go    *)
(* through the case lifecycle and no other way, whatever the number of      *)
(* cases, requests, polls and crashes: no interleaving skips the claim,     *)
(* opens a second PR for a case, expires a case with a PR or reopens a      *)
(* closed one (decision_elevation_store.rs, Lifecycle).                     *)
THEOREM ActorImplementsLifecycle ==
    ASSUME OneRequest
    PROVE  Spec => ImplementsLifecycle
<1>1. Init => Sound /\ Lifecycle!Init
  BY SoundInit, InitRefines
<1>2. Sound /\ [Next]_vars => Sound'
  BY SoundStep
<1>3. Sound /\ Sound' /\ [Next]_vars => [Lifecycle!Next]_(Lifecycle!vars)
  BY StepRefines DEF Sound
<1> QED
  BY <1>1, <1>2, <1>3, PTL DEF Spec, ImplementsLifecycle, Lifecycle!Spec

===============================================================================
