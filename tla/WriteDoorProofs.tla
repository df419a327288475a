--------------------------- MODULE WriteDoorProofs ---------------------------
(***************************************************************************)
(* The write door's properties for any number of calls, keys, payloads,    *)
(* principals and crashes.                                                 *)
(***************************************************************************)
EXTENDS WriteDoor, TLAPS

(* Where a call is in the pipeline says what its intent is and whether its  *)
(* quads are in the graph.                                                  *)
StageInv(p) ==
    /\ call[p].stage \in {"gate", "reserve", "record"} =>
          intents[p] = "none" /\ p \notin graph
    /\ call[p].stage = "transact" => intents[p] = "pending" /\ p \notin graph
    /\ call[p].stage \in {"receipt", "mark"} => intents[p] = "pending" /\ p \in graph
    /\ call[p].stage \in {"settle", "done"} => intents[p] # "pending"
    /\ call[p].stage = "done" => ~call[p].attached
    /\ call[p].stage \notin {"settle", "done"} => call[p].answer = "none"

(* From its reservation on, the key of a call carries the call's payload.   *)
KeyInv(p) ==
    intents[p] # "none" \/ call[p].stage = "record" =>
        entries[call[p].key].payload = call[p].payload

(* A late call finds the receipt when it comes to look for it.              *)
LateInv(p) ==
    call[p].late =>
        /\ call[p].stage \in {"gate", "reserve"} =>
              /\ entries[call[p].key].payload = call[p].payload
              /\ entries[call[p].key].receipt # NoProposal
        /\ call[p].stage \in {"gate", "reserve", "settle", "done"}
        /\ p \notin graph

(* An intent is recorded by a call.                                         *)
IntentsOfCalls == \A p \in Proposal \ Called : intents[p] = "none"

DoorInv ==
    /\ TypeOK
    /\ IntentsOfCalls
    /\ \A p \in Called : StageInv(p) /\ KeyInv(p) /\ LateInv(p)
    /\ AnswerIsTrue
    /\ ReceiptIsBacked
    /\ ElevatedIsRecorded

(* The part of AnswerIsTrue that is about one call.                         *)
AnswerInv(p) ==
    /\ call[p].answer = "committed" \/ intents[p] = "committed" => p \in graph
    /\ \/ call[p].answer \in {"refused", "replay", "conflict", "error"}
       \/ intents[p] = "failed"
       => p \notin graph

(* Proposal q earned a receipt for the key and the payload.                 *)
Earned(q, k, h) == q \in graph /\ call[q].key = k /\ call[q].payload = h

EntryInv(k) == entries[k].receipt # NoProposal =>
    Earned(entries[k].receipt, k, entries[k].payload)

ReplayInv(p) == call[p].answer = "replay" =>
    Earned(call[p].receipt, call[p].key, call[p].payload)

CallInv(p) == StageInv(p) /\ KeyInv(p) /\ LateInv(p) /\ AnswerInv(p) /\ ReplayInv(p)

(* What a step may do to the other calls, keys and intents when it moves    *)
(* call p.                                                                  *)
Moves(p) ==
    /\ call' \in [Proposal -> Call \cup {NoCall}]
    /\ Called' = Called
    /\ \A q \in Proposal : q # p => call'[q] = call[q]
    /\ call'[p] \in Call
    /\ call'[p].key = call[p].key
    /\ call'[p].payload = call[p].payload

Keeps(p) ==
    /\ SpineTypeOK'
    /\ graph' \in {graph, graph \cup {p}}
    /\ elevated' \subseteq graph'
    /\ crashes' = crashes
    /\ \A q \in Proposal : q # p => intents'[q] = intents[q]
    /\ \A k \in IdemKey :
          /\ entries'[k].payload = entries[k].payload \/ entries[k].payload = NoPayload
          /\ entries[k].receipt # NoProposal => entries'[k].receipt # NoProposal

-----------------------------------------------------------------------------

LEMMA CallOf ==
    ASSUME TypeOK, NEW p \in Called
    PROVE  /\ p \in Proposal /\ call[p] \in Call
           /\ call[p].key \in IdemKey /\ call[p].payload \in Payload
           /\ call[p].late \in BOOLEAN /\ call[p].answer \in Answer
           /\ call[p].receipt \in Proposal \cup {NoProposal}
BY DEF TypeOK, Called, At, NoCall, Call

LEMMA InvSplit ==
    DoorInv <=> /\ TypeOK
                /\ IntentsOfCalls
                /\ \A p \in Called : CallInv(p)
                /\ \A k \in IdemKey : EntryInv(k)
                /\ ElevatedIsRecorded
BY DEF DoorInv, CallInv, AnswerIsTrue, AnswerInv, ReceiptIsBacked, ReplayInv, EntryInv, Earned

LEMMA InvSplitNext ==
    DoorInv' <=> /\ TypeOK'
                 /\ IntentsOfCalls'
                 /\ \A p \in Called' : CallInv(p)'
                 /\ \A k \in IdemKey : EntryInv(k)'
                 /\ ElevatedIsRecorded'
BY DEF DoorInv, CallInv, AnswerIsTrue, AnswerInv, ReceiptIsBacked, ReplayInv, EntryInv, Earned

(* What was earned stays earned.                                            *)
LEMMA EarnedStays ==
    ASSUME TypeOK, NEW p \in Called, Moves(p), Keeps(p)
    PROVE  \A q \in graph : /\ q \in graph'
                            /\ call'[q].key = call[q].key
                            /\ call'[q].payload = call[q].payload
<1>1. \A q \in graph : q \in Proposal
  BY DEF TypeOK, Called
<1> QED
  BY <1>1 DEF Moves, Keeps

(* It is enough to look at the call that moves and at the keys.             *)
LEMMA OneMoves ==
    ASSUME DoorInv, NEW p \in Called, Moves(p), Keeps(p), CallInv(p)',
           \A k \in IdemKey : EntryInv(k)'
    PROVE  DoorInv'
<1>0. TypeOK
  BY DEF DoorInv
<1>1. TypeOK'
  <2>1. graph' \subseteq Called'
    BY <1>0 DEF TypeOK, Keeps, Moves
  <2>2. elevated' \subseteq Called'
    BY <2>1 DEF Keeps
  <2> QED
    BY <1>0, <2>1, <2>2 DEF TypeOK, Keeps, Moves
<1>2. ASSUME NEW q \in Called, q # p PROVE CallInv(q)'
  <2>1. CallInv(q) /\ call[q] \in Call /\ q \in Proposal
    BY InvSplit, CallOf, <1>0
  <2>2. call'[q] = call[q] /\ intents'[q] = intents[q] /\ (q \in graph' <=> q \in graph)
    BY <1>2, <2>1 DEF Moves, Keeps
  <2>3. StageInv(q)' /\ AnswerInv(q)'
    BY <2>1, <2>2 DEF CallInv, StageInv, AnswerInv
  <2>4. call[q].key \in IdemKey /\ call[q].payload # NoPayload
    BY <2>1, SpineAssumption DEF Call
  <2>5. KeyInv(q)'
    BY <2>1, <2>2, <2>4 DEF CallInv, KeyInv, Keeps
  <2>6. LateInv(q)'
    BY <2>1, <2>2, <2>4 DEF CallInv, LateInv, Keeps
  <2>7. ReplayInv(q)'
    <3> SUFFICES ASSUME call[q].answer = "replay"
                 PROVE  Earned(call[q].receipt, call[q].key, call[q].payload)'
      BY <2>2 DEF ReplayInv, Earned
    <3>1. Earned(call[q].receipt, call[q].key, call[q].payload)
      BY <2>1 DEF CallInv, ReplayInv
    <3> QED
      BY <1>0, <2>2, <3>1, EarnedStays DEF Earned
  <2> QED
    BY <2>3, <2>5, <2>6, <2>7 DEF CallInv
<1>3. \A q \in Called' : CallInv(q)'
  BY <1>2 DEF Moves
<1>4. ElevatedIsRecorded'
  BY DEF Keeps, ElevatedIsRecorded
<1>5. IntentsOfCalls'
  BY DEF DoorInv, IntentsOfCalls, Moves, Keeps
<1> QED
  BY <1>1, <1>3, <1>4, <1>5, InvSplitNext

-----------------------------------------------------------------------------
(* The steps.                                                               *)

LEMMA GotoMoves ==
    ASSUME TypeOK, NEW p \in Called, NEW s \in Stage \ {"none"}, Goto(p, s)
    PROVE  /\ Moves(p)
           /\ call'[p].stage = s
           /\ call'[p].late = call[p].late
           /\ call'[p].attached = call[p].attached
           /\ call'[p].answer = call[p].answer
           /\ call'[p].receipt = call[p].receipt
<1>1. call[p] \in Call /\ p \in Proposal
  BY CallOf
<1>2. call' = [call EXCEPT ![p] = [call[p] EXCEPT !.stage = s]]
  BY DEF Goto
<1>3. [call[p] EXCEPT !.stage = s] \in Call
  BY <1>1 DEF Call
<1>4. call'[p] = [call[p] EXCEPT !.stage = s]
  BY <1>1, <1>2 DEF TypeOK
<1> QED
  BY <1>1, <1>2, <1>3, <1>4 DEF TypeOK, Moves, Called, At, Call

(* A call that is replaced by one of the same request moves.                *)
LEMMA ReplaceMoves ==
    ASSUME TypeOK, NEW p \in Called, NEW c \in Call, call' = [call EXCEPT ![p] = c],
           c.stage # "none", c.key = call[p].key, c.payload = call[p].payload
    PROVE  Moves(p) /\ call'[p] = c
<1>1. p \in Proposal
  BY CallOf
<1>2. call'[p] = c /\ \A q \in Proposal : q # p => call'[q] = call[q]
  BY <1>1 DEF TypeOK
<1>3. call' \in [Proposal -> Call \cup {NoCall}]
  BY DEF TypeOK
<1>4. Called' = Called
  BY <1>2 DEF Called, At
<1> QED
  BY <1>2, <1>3, <1>4 DEF Moves

LEMMA ReturnsMoves ==
    ASSUME TypeOK, NEW p \in Called, NEW a \in Answer, NEW r \in Proposal \cup {NoProposal},
           Returns(p, a, r)
    PROVE  /\ Moves(p) /\ call'[p].late = call[p].late
           /\ \/ /\ call'[p].stage = "settle"
                 /\ call'[p].answer = a
                 /\ call'[p].receipt = r
              \/ /\ call'[p].stage = "done"
                 /\ call'[p].attached = FALSE
                 /\ call'[p].answer = "none"
<1>1. call[p] \in Call
  BY CallOf
<1>2. CASE call[p].attached
  <2> DEFINE c == [call[p] EXCEPT !.stage = "settle", !.answer = a, !.receipt = r]
  <2>1. /\ c \in Call /\ c.stage = "settle" /\ c.answer = a /\ c.receipt = r
        /\ c.key = call[p].key /\ c.payload = call[p].payload /\ c.late = call[p].late
    BY <1>1 DEF Call, Stage
  <2>2. call' = [call EXCEPT ![p] = c]
    BY <1>2 DEF Returns
  <2> HIDE DEF c
  <2>3. Moves(p) /\ call'[p] = c
    BY <2>1, <2>2, ReplaceMoves
  <2> QED
    BY <2>1, <2>3
<1>3. CASE ~call[p].attached
  <2> DEFINE c == Ended(call[p], "none", NoProposal)
  <2>0. "none" \in Answer /\ NoProposal \in Proposal \cup {NoProposal}
    BY DEF Answer
  <2>1. /\ c \in Call /\ c.stage = "done" /\ c.answer = "none" /\ c.attached = FALSE
        /\ c.key = call[p].key /\ c.payload = call[p].payload /\ c.late = call[p].late
    BY <1>1, <2>0 DEF Ended, Call, Stage
  <2>2. call' = [call EXCEPT ![p] = c]
    BY <1>3 DEF Returns
  <2> HIDE DEF c
  <2>3. Moves(p) /\ call'[p] = c
    BY <2>1, <2>2, ReplaceMoves
  <2> QED
    BY <2>1, <2>3
<1> QED
  BY <1>2, <1>3

(* A step that leaves the spine and the graph alone.                        *)
LEMMA QuietStep ==
    ASSUME DoorInv, NEW p \in Called, Moves(p), UNCHANGED <<spineVars, graph, crashes>>,
           elevated' \subseteq graph, CallInv(p)'
    PROVE  DoorInv'
<1>0. TypeOK
  BY DEF DoorInv
<1>1. entries' = entries /\ intents' = intents /\ graph' = graph
  BY DEF spineVars
<1>2. Keeps(p)
  BY <1>0, <1>1 DEF Keeps, TypeOK, SpineTypeOK
<1>3. \A k \in IdemKey : EntryInv(k)'
  BY <1>0, <1>1, <1>2, EarnedStays, InvSplit DEF EntryInv, Earned
<1> QED
  BY <1>2, <1>3, OneMoves

(* The call ends before it has reserved its key, or with no answer.         *)
LEMMA EndingStep ==
    ASSUME DoorInv, NEW p \in Called, NEW a \in Answer, NEW r \in Proposal \cup {NoProposal},
           call' = [call EXCEPT ![p] = Ended(call[p], a, r)],
           UNCHANGED <<spineVars, graph, crashes>>, elevated' \subseteq graph,
           call[p].stage \in {"gate", "settle"},
           \/ a = "none"
           \/ a = "refused" /\ call[p].stage = "gate"
           \/ a = call[p].answer /\ r = call[p].receipt
    PROVE  DoorInv'
<1>0. TypeOK
  BY DEF DoorInv
<1>1. call[p] \in Call /\ CallInv(p)
  BY <1>0, CallOf, InvSplit
<1> DEFINE c == Ended(call[p], a, r)
<1>2. /\ c \in Call /\ c.stage = "done" /\ c.attached = FALSE /\ c.answer = a /\ c.receipt = r
      /\ c.key = call[p].key /\ c.payload = call[p].payload /\ c.late = call[p].late
  BY <1>1 DEF Ended, Call, Stage
<1> HIDE DEF c
<1>3. Moves(p) /\ call'[p] = c
  BY <1>0, <1>2, ReplaceMoves DEF c
<1>4. entries' = entries /\ intents' = intents /\ graph' = graph
  BY DEF spineVars
<1>5. StageInv(p)' /\ KeyInv(p)' /\ LateInv(p)' /\ AnswerInv(p)'
  BY <1>1, <1>2, <1>3, <1>4 DEF CallInv, StageInv, KeyInv, LateInv, AnswerInv
<1>6. ReplayInv(p)'
  <2> SUFFICES ASSUME a = "replay" PROVE Earned(r, call[p].key, call[p].payload)'
    BY <1>2, <1>3 DEF ReplayInv, Earned, Moves
  <2>1. Earned(r, call[p].key, call[p].payload)
    BY <1>1 DEF CallInv, ReplayInv
  <2>2. Keeps(p)
    BY <1>0, <1>4 DEF Keeps, TypeOK, SpineTypeOK
  <2> QED
    BY <1>0, <1>3, <2>1, <2>2, EarnedStays DEF Earned, Moves
<1> QED
  BY <1>3, <1>5, <1>6, QuietStep DEF CallInv

LEMMA HandlerStep ==
    ASSUME DoorInv, NEW p \in Proposal, Handler(p)
    PROVE  DoorInv'
<1>0. TypeOK
  BY DEF DoorInv
<1>1. p \in Called
  BY DEF Handler, Refuse, Pass, Settle, At, Called
<1>2. call[p] \in Call /\ CallInv(p)
  BY <1>0, <1>1, CallOf, InvSplit
<1>3. CASE Refuse(p)
  <2>1. "refused" \in Answer /\ NoProposal \in Proposal \cup {NoProposal}
    BY DEF Answer
  <2>2. elevated' \subseteq graph
    BY <1>3 DEF Refuse, DoorInv, ElevatedIsRecorded
  <2> QED
    BY <1>1, <1>3, <2>1, <2>2, EndingStep DEF Refuse, At
<1>4. CASE Pass(p)
  <2> DEFINE found == HasReceipt(call[p].key, call[p].payload)
             c == [call[p] EXCEPT !.stage = "reserve", !.late = @ \/ found]
  <2>0. call[p].stage = "gate" /\ found \in BOOLEAN
    BY <1>4 DEF Pass, At, HasReceipt
  <2>1. call' = [call EXCEPT ![p] = c]
    BY <1>4 DEF Pass
  <2> HIDE DEF found
  <2>2. /\ c \in Call /\ c.stage = "reserve" /\ c.answer = call[p].answer
        /\ c.key = call[p].key /\ c.payload = call[p].payload
        /\ c.late = (call[p].late \/ found)
    BY <1>2, <2>0 DEF Call, Stage
  <2> HIDE DEF c
  <2>3. Moves(p) /\ call'[p] = c
    BY <1>0, <1>1, <2>1, <2>2, ReplaceMoves
  <2>4. entries' = entries /\ intents' = intents /\ graph' = graph /\ elevated' = elevated
    BY <1>4 DEF Pass, spineVars
  <2>5. StageInv(p)' /\ KeyInv(p)' /\ AnswerInv(p)' /\ ReplayInv(p)'
    BY <1>2, <2>0, <2>2, <2>3, <2>4
       DEF CallInv, StageInv, KeyInv, AnswerInv, ReplayInv
  <2>6. LateInv(p)'
    BY <1>2, <2>0, <2>2, <2>3, <2>4 DEF CallInv, StageInv, LateInv, HasReceipt, found
  <2> QED
    BY <1>1, <1>4, <2>3, <2>4, <2>5, <2>6, QuietStep
       DEF CallInv, Pass, DoorInv, ElevatedIsRecorded
<1>5. CASE Settle(p)
  <2>1. call[p].answer \in Answer /\ call[p].receipt \in Proposal \cup {NoProposal}
    BY <1>2 DEF Call
  <2>2. elevated' \subseteq graph
    BY <1>2, <1>5 DEF Settle, Elevates, DoorInv, ElevatedIsRecorded, CallInv, AnswerInv
  <2> QED
    BY <1>1, <1>5, <2>1, <2>2, EndingStep DEF Settle, At
<1> QED
  BY <1>3, <1>4, <1>5 DEF Handler

LEMMA CancelStep ==
    ASSUME DoorInv, NEW p \in Proposal, Cancel(p)
    PROVE  DoorInv'
<1>0. TypeOK
  BY DEF DoorInv
<1>1. p \in Called
  BY DEF Cancel, At, Called
<1>2. call[p] \in Call /\ CallInv(p)
  BY <1>0, <1>1, CallOf, InvSplit
<1>3. elevated' \subseteq graph
  BY DEF Cancel, DoorInv, ElevatedIsRecorded
<1>4. CASE call[p].stage \in {"gate", "settle"}
  <2>1. "none" \in Answer /\ NoProposal \in Proposal \cup {NoProposal}
    BY DEF Answer
  <2> QED
    BY <1>1, <1>3, <1>4, <2>1, EndingStep DEF Cancel
<1>5. CASE call[p].stage \notin {"gate", "settle"}
  <2> DEFINE c == [call[p] EXCEPT !.attached = FALSE]
  <2>1. /\ c \in Call /\ c.stage = call[p].stage /\ c.answer = call[p].answer
        /\ c.attached = FALSE /\ c.receipt = call[p].receipt
        /\ c.key = call[p].key /\ c.payload = call[p].payload /\ c.late = call[p].late
    BY <1>2 DEF Call
  <2>2. call' = [call EXCEPT ![p] = c] /\ call[p].stage # "none"
    BY <1>5 DEF Cancel, At
  <2> HIDE DEF c
  <2>3. Moves(p) /\ call'[p] = c
    BY <1>0, <1>1, <2>1, <2>2, ReplaceMoves
  <2>4. entries' = entries /\ intents' = intents /\ graph' = graph
    BY DEF Cancel, spineVars
  <2>5. StageInv(p)' /\ KeyInv(p)' /\ LateInv(p)' /\ AnswerInv(p)'
    BY <1>2, <2>1, <2>3, <2>4 DEF CallInv, StageInv, KeyInv, LateInv, AnswerInv
  <2>6. ReplayInv(p)'
    <3>1. call[p].stage # "done"
      BY <1>2 DEF Cancel, CallInv, StageInv
    <3>2. call[p].answer = "none"
      BY <1>2, <1>5, <3>1 DEF CallInv, StageInv
    <3> QED
      BY <2>1, <2>3, <3>2 DEF ReplayInv
  <2> QED
    BY <1>1, <1>3, <2>3, <2>5, <2>6, QuietStep DEF CallInv, Cancel
<1> QED
  BY <1>4, <1>5

(* A thread that gives up leaves its call with a result or with none.       *)
LEMMA ReturnStep ==
    ASSUME DoorInv, NEW p \in Called, NEW a \in Answer, NEW r \in Proposal \cup {NoProposal},
           Returns(p, a, r), Keeps(p), graph' = graph, entries' = entries,
           intents'[p] # "pending", intents'[p] # "none" => intents[p] # "none",
           call[p].stage \in {"reserve", "transact", "mark"},
           a = "committed" \/ intents'[p] = "committed" => p \in graph,
           a \in {"refused", "replay", "conflict", "error"} \/ intents'[p] = "failed" =>
               p \notin graph,
           a = "replay" => Earned(r, call[p].key, call[p].payload)
    PROVE  DoorInv'
<1>0. TypeOK
  BY DEF DoorInv
<1>1. CallInv(p) /\ call[p] \in Call
  BY <1>0, CallOf, InvSplit
<1>2. /\ Moves(p) /\ call'[p].late = call[p].late
      /\ \/ /\ call'[p].stage = "settle"
            /\ call'[p].answer = a
            /\ call'[p].receipt = r
         \/ /\ call'[p].stage = "done"
            /\ call'[p].attached = FALSE
            /\ call'[p].answer = "none"
  BY <1>0, ReturnsMoves
<1>3. StageInv(p)' /\ KeyInv(p)' /\ AnswerInv(p)'
  BY <1>1, <1>2 DEF CallInv, StageInv, KeyInv, AnswerInv, Moves
<1>4. LateInv(p)'
  BY <1>1, <1>2 DEF CallInv, LateInv, Moves
<1>5. ReplayInv(p)'
  BY <1>0, <1>2, EarnedStays DEF ReplayInv, Earned, Moves
<1>6. \A k \in IdemKey : EntryInv(k)'
  BY <1>0, <1>2, EarnedStays, InvSplit DEF EntryInv, Earned
<1> QED
  BY <1>2, <1>3, <1>4, <1>5, <1>6, OneMoves DEF CallInv

LEMMA ReserveStep ==
    ASSUME DoorInv, NEW p \in Proposal, Reserve(p)
    PROVE  DoorInv'
<1>0. TypeOK
  BY DEF DoorInv
<1>1. p \in Called
  BY DEF Reserve, At, Called
<1>2. /\ call[p] \in Call /\ CallInv(p) /\ call[p].stage = "reserve"
      /\ call[p].key \in IdemKey /\ call[p].payload \in Payload
  BY <1>0, <1>1, CallOf, InvSplit DEF Reserve, At
<1>3. intents[p] = "none" /\ p \notin graph /\ elevated \subseteq graph
  BY <1>2 DEF CallInv, StageInv, DoorInv, ElevatedIsRecorded
<1>4. entries[call[p].key] \in Entry
  BY <1>0, <1>2 DEF TypeOK, SpineTypeOK
<1> DEFINE d == IdempotencyDecision(call[p].key, call[p].payload)
<1>5. CASE d = "fresh"
  <2>1. Goto(p, "record") /\ reserve(call[p].key, call[p].payload)
    BY <1>5 DEF Reserve
  <2>2. "record" \in Stage \ {"none"}
    BY DEF Stage
  <2>3. /\ Moves(p) /\ call'[p].stage = "record"
        /\ call'[p].answer = call[p].answer /\ call'[p].late = call[p].late
    BY <1>0, <1>1, <2>1, <2>2, GotoMoves
  <2>4. /\ entries[call[p].key].receipt = NoProposal
        /\ entries[call[p].key].payload \in {NoPayload, call[p].payload}
    BY <1>5 DEF IdempotencyDecision
  <2>5. /\ entries' \in [IdemKey -> Entry]
        /\ entries'[call[p].key].payload = call[p].payload
        /\ entries'[call[p].key].receipt = NoProposal
        /\ \A k \in IdemKey : k # call[p].key => entries'[k] = entries[k]
    BY <1>0, <1>2, <2>1, <2>4 DEF reserve, TypeOK, SpineTypeOK, Entry
  <2>6. intents' = intents /\ graph' = graph /\ elevated' = elevated /\ crashes' = crashes
    BY <2>1 DEF reserve, Reserve
  <2>7. Keeps(p)
    BY <1>0, <1>3, <2>4, <2>5, <2>6 DEF Keeps, TypeOK, SpineTypeOK
  <2>8. \A k \in IdemKey : EntryInv(k)'
    BY <1>0, <1>1, <2>3, <2>5, <2>7, EarnedStays, InvSplit DEF EntryInv, Earned
  <2>9. CallInv(p)'
    BY <1>2, <1>3, <2>3, <2>4, <2>5, <2>6
       DEF CallInv, StageInv, KeyInv, LateInv, AnswerInv, ReplayInv, Moves
  <2> QED
    BY <1>1, <2>3, <2>7, <2>8, <2>9, OneMoves
<1>6. CASE d # "fresh"
  <2>1. /\ entries' = entries /\ intents' = intents /\ graph' = graph
        /\ elevated' = elevated /\ crashes' = crashes
    BY <1>6 DEF Reserve, spineVars
  <2>2. Keeps(p)
    BY <1>0, <1>3, <2>1 DEF Keeps, TypeOK, SpineTypeOK
  <2>3. CASE d = "replay"
    <3>1. Returns(p, "replay", entries[call[p].key].receipt)
      BY <2>3 DEF Reserve
    <3>2. /\ entries[call[p].key].receipt # NoProposal
          /\ entries[call[p].key].payload \in {NoPayload, call[p].payload}
      BY <2>3 DEF IdempotencyDecision
    <3>3. Earned(entries[call[p].key].receipt, call[p].key, entries[call[p].key].payload)
      BY <1>2, <3>2, InvSplit DEF EntryInv
    <3>4. entries[call[p].key].payload # NoPayload
      BY <1>0, <3>3, CallOf, SpineAssumption DEF Earned, TypeOK
    <3>5. /\ "replay" \in Answer
          /\ entries[call[p].key].receipt \in Proposal \cup {NoProposal}
      BY <1>4 DEF Answer, Entry
    <3>6. Earned(entries[call[p].key].receipt, call[p].key, call[p].payload)
      BY <3>2, <3>3, <3>4
    <3> QED
      BY <1>1, <1>2, <1>3, <2>1, <2>2, <3>1, <3>5, <3>6, ReturnStep
  <2>4. CASE d = "conflict"
    <3>1. Returns(p, "conflict", NoProposal)
      BY <2>4 DEF Reserve
    <3>2. "conflict" \in Answer /\ NoProposal \in Proposal \cup {NoProposal}
      BY DEF Answer
    <3> QED
      BY <1>1, <1>2, <1>3, <2>1, <2>2, <3>1, <3>2, ReturnStep
  <2> QED
    BY <1>6, <2>3, <2>4 DEF Reserve
<1> QED
  BY <1>5, <1>6

LEMMA CommitStep ==
    ASSUME DoorInv, NEW p \in Proposal,
           \/ Record(p) \/ Transact(p) \/ TransactFails(p)
           \/ CommitReceipt(p) \/ MarkCommitted(p)
    PROVE  DoorInv'
<1>0. TypeOK
  BY DEF DoorInv
<1>1. p \in Called
  BY DEF Record, Transact, TransactFails, CommitReceipt, MarkCommitted, At, Called
<1>2. /\ call[p] \in Call /\ CallInv(p)
      /\ call[p].key \in IdemKey /\ call[p].payload \in Payload
  BY <1>0, <1>1, CallOf, InvSplit
<1>3. elevated \subseteq graph
  BY DEF DoorInv, ElevatedIsRecorded
<1>4. CASE Record(p)
  <2>1. Goto(p, "transact") /\ "transact" \in Stage \ {"none"}
    BY <1>4 DEF Record, Stage
  <2>2. /\ Moves(p) /\ call'[p].stage = "transact"
        /\ call'[p].answer = call[p].answer /\ call'[p].late = call[p].late
    BY <1>0, <1>1, <2>1, GotoMoves
  <2>3. /\ entries' = entries /\ graph' = graph /\ elevated' = elevated /\ crashes' = crashes
        /\ intents' \in [Proposal -> IntentState]
        /\ intents'[p] = "pending" /\ \A q \in Proposal : q # p => intents'[q] = intents[q]
    BY <1>0, <1>4 DEF Record, record, TypeOK, SpineTypeOK, IntentState
  <2>4. Keeps(p)
    BY <1>0, <1>3, <2>3 DEF Keeps, TypeOK, SpineTypeOK
  <2>5. \A k \in IdemKey : EntryInv(k)'
    BY <1>0, <1>1, <2>2, <2>3, <2>4, EarnedStays, InvSplit DEF EntryInv, Earned
  <2>6. CallInv(p)'
    BY <1>2, <1>4, <2>2, <2>3 DEF CallInv, StageInv, KeyInv, LateInv, AnswerInv, ReplayInv,
                                  Moves, Record, At
  <2> QED
    BY <1>1, <2>2, <2>4, <2>5, <2>6, OneMoves
<1>5. CASE Transact(p)
  <2>1. Goto(p, "receipt") /\ "receipt" \in Stage \ {"none"}
    BY <1>5 DEF Transact, Stage
  <2>2. /\ Moves(p) /\ call'[p].stage = "receipt"
        /\ call'[p].answer = call[p].answer /\ call'[p].late = call[p].late
    BY <1>0, <1>1, <2>1, GotoMoves
  <2>3. /\ entries' = entries /\ intents' = intents /\ elevated' = elevated
        /\ crashes' = crashes /\ graph' = graph \cup {p}
    BY <1>5 DEF Transact, spineVars
  <2>4. Keeps(p)
    BY <1>0, <1>3, <2>3 DEF Keeps, TypeOK, SpineTypeOK
  <2>5. \A k \in IdemKey : EntryInv(k)'
    BY <1>0, <1>1, <2>2, <2>3, <2>4, EarnedStays, InvSplit DEF EntryInv, Earned
  <2>6. CallInv(p)'
    BY <1>2, <1>5, <2>2, <2>3 DEF CallInv, StageInv, KeyInv, LateInv, AnswerInv, ReplayInv,
                                  Moves, Transact, At
  <2> QED
    BY <1>1, <2>2, <2>4, <2>5, <2>6, OneMoves
<1>6. CASE TransactFails(p)
  <2>1. /\ Returns(p, "error", NoProposal)
        /\ "error" \in Answer /\ NoProposal \in Proposal \cup {NoProposal}
    BY <1>6 DEF TransactFails, Answer
  <2>2. call[p].stage = "transact" /\ intents[p] = "pending" /\ p \notin graph
    BY <1>2, <1>6 DEF TransactFails, At, CallInv, StageInv
  <2>3. /\ entries' = entries /\ graph' = graph /\ elevated' = elevated /\ crashes' = crashes
        /\ intents' \in [Proposal -> IntentState]
        /\ intents'[p] = "failed" /\ \A q \in Proposal : q # p => intents'[q] = intents[q]
    BY <1>0, <1>6, <2>2 DEF TransactFails, mark, TypeOK, SpineTypeOK, IntentState
  <2>4. Keeps(p)
    BY <1>0, <1>3, <2>3 DEF Keeps, TypeOK, SpineTypeOK
  <2> QED
    BY <1>1, <2>1, <2>2, <2>3, <2>4, ReturnStep
<1>7. CASE CommitReceipt(p)
  <2>1. Goto(p, "mark") /\ "mark" \in Stage \ {"none"}
    BY <1>7 DEF CommitReceipt, Stage
  <2>2. /\ Moves(p) /\ call'[p].stage = "mark"
        /\ call'[p].answer = call[p].answer /\ call'[p].late = call[p].late
    BY <1>0, <1>1, <2>1, GotoMoves
  <2>3. /\ call[p].stage = "receipt" /\ intents[p] = "pending" /\ p \in graph
        /\ entries[call[p].key].payload = call[p].payload
    BY <1>2, <1>7 DEF CommitReceipt, At, CallInv, StageInv, KeyInv
  <2>4. /\ intents' = intents /\ graph' = graph /\ elevated' = elevated /\ crashes' = crashes
        /\ entries' \in [IdemKey -> Entry]
        /\ entries'[call[p].key].payload = call[p].payload
        /\ entries'[call[p].key].receipt = p
        /\ \A k \in IdemKey : k # call[p].key => entries'[k] = entries[k]
    BY <1>0, <1>2, <1>7 DEF CommitReceipt, commit, TypeOK, SpineTypeOK, Entry
  <2>5. p # NoProposal
    BY SpineAssumption
  <2>6. Keeps(p)
    BY <1>0, <1>3, <2>3, <2>4, <2>5 DEF Keeps, TypeOK, SpineTypeOK
  <2>7. \A k \in IdemKey : k # call[p].key => EntryInv(k)'
    BY <1>0, <1>1, <2>2, <2>4, <2>6, EarnedStays, InvSplit DEF EntryInv, Earned
  <2>8. \A k \in IdemKey : k = call[p].key => EntryInv(k)'
    BY <2>2, <2>3, <2>4 DEF EntryInv, Earned, Moves
  <2>9. CallInv(p)'
    BY <1>2, <2>2, <2>3, <2>4 DEF CallInv, StageInv, KeyInv, LateInv, AnswerInv, ReplayInv, Moves
  <2> QED
    BY <1>1, <2>2, <2>6, <2>7, <2>8, <2>9, OneMoves
<1>8. CASE MarkCommitted(p)
  <2>1. Returns(p, "committed", p) /\ "committed" \in Answer /\ p \in Proposal \cup {NoProposal}
    BY <1>8 DEF MarkCommitted, Answer
  <2>2. call[p].stage = "mark" /\ intents[p] = "pending" /\ p \in graph
    BY <1>2, <1>8 DEF MarkCommitted, At, CallInv, StageInv
  <2>3. /\ entries' = entries /\ graph' = graph /\ elevated' = elevated /\ crashes' = crashes
        /\ intents' \in [Proposal -> IntentState]
        /\ intents'[p] = "committed" /\ \A q \in Proposal : q # p => intents'[q] = intents[q]
    BY <1>0, <1>8, <2>2 DEF MarkCommitted, mark, TypeOK, SpineTypeOK, IntentState
  <2>4. Keeps(p)
    BY <1>0, <1>3, <2>3 DEF Keeps, TypeOK, SpineTypeOK
  <2> QED
    BY <1>1, <2>1, <2>2, <2>3, <2>4, ReturnStep
<1> QED
  BY <1>4, <1>5, <1>6, <1>7, <1>8

LEMMA SubmitStep ==
    ASSUME DoorInv, NEW p \in Proposal, NEW who \in Principal, NEW key \in IdemKey,
           NEW h \in Payload, Submit(p, who, key, h)
    PROVE  DoorInv'
<1>0. TypeOK
  BY DEF DoorInv
<1>1. p \notin Called /\ p \notin graph
  BY <1>0 DEF Submit, Called, TypeOK
<1> DEFINE c == [who |-> who, key |-> key, payload |-> h, stage |-> "gate",
                 attached |-> TRUE, answer |-> "none", receipt |-> NoProposal,
                 late |-> HasReceipt(key, h)]
<1>2. c \in Call
  BY DEF Call, Stage, Answer, HasReceipt
<1>3. call' = [call EXCEPT ![p] = c]
  BY DEF Submit
<1>4. /\ c.stage = "gate" /\ c.answer = "none" /\ c.key = key /\ c.payload = h
      /\ c.late => entries[key].payload = h /\ entries[key].receipt # NoProposal
  BY DEF HasReceipt
<1> HIDE DEF c
<1>5. call'[p] = c /\ \A q \in Proposal : q # p => call'[q] = call[q]
  BY <1>0, <1>3 DEF TypeOK
<1>6. Called' = Called \cup {p}
  BY <1>4, <1>5 DEF Called, At
<1>7. /\ entries' = entries /\ intents' = intents /\ graph' = graph
      /\ elevated' = elevated /\ crashes' = crashes
  BY DEF Submit, spineVars
<1>8. TypeOK'
  <2>1. call' \in [Proposal -> Call \cup {NoCall}]
    BY <1>0, <1>2, <1>3 DEF TypeOK
  <2> QED
    BY <1>0, <1>6, <1>7, <2>1 DEF TypeOK, SpineTypeOK
<1>9. \A q \in graph : q \in Called /\ q \in Proposal /\ call'[q] = call[q]
  BY <1>0, <1>1, <1>5 DEF TypeOK, Called
<1>10. \A k \in IdemKey : EntryInv(k)'
  BY <1>7, <1>9, InvSplit DEF EntryInv, Earned
<1>11. ASSUME NEW q \in Called PROVE CallInv(q)'
  <2>1. q # p /\ q \in Proposal
    BY <1>1 DEF Called
  <2>2. call'[q] = call[q] /\ CallInv(q)
    BY <1>5, <2>1, InvSplit
  <2>3. StageInv(q)' /\ KeyInv(q)' /\ LateInv(q)' /\ AnswerInv(q)'
    BY <1>7, <2>2 DEF CallInv, StageInv, KeyInv, LateInv, AnswerInv
  <2>4. ReplayInv(q)'
    BY <1>7, <1>9, <2>2 DEF CallInv, ReplayInv, Earned
  <2> QED
    BY <2>3, <2>4 DEF CallInv
<1>12. intents[p] = "none"
  BY <1>1 DEF DoorInv, IntentsOfCalls
<1>13. CallInv(p)'
  BY <1>1, <1>4, <1>5, <1>7, <1>12
     DEF CallInv, StageInv, KeyInv, LateInv, AnswerInv, ReplayInv
<1>14. IntentsOfCalls'
  BY <1>6, <1>7 DEF DoorInv, IntentsOfCalls
<1> QED
  BY <1>6, <1>7, <1>8, <1>10, <1>11, <1>13, <1>14, InvSplitNext DEF DoorInv, ElevatedIsRecorded

LEMMA CrashStep ==
    ASSUME DoorInv, Crash
    PROVE  DoorInv'
<1>0. TypeOK
  BY DEF DoorInv
<1>1. /\ entries' = [k \in IdemKey |-> NoEntry] /\ intents' = [p \in Proposal |-> "none"]
      /\ graph' = graph /\ elevated' = elevated /\ crashes' \in 0..MaxCrashes
  BY <1>0, DoorAssumption DEF Crash, TypeOK
<1>2. ASSUME NEW p \in Called
      PROVE  /\ call'[p] \in Call
             /\ call'[p].stage = "done" /\ call'[p].attached = FALSE
             /\ call'[p].key = call[p].key /\ call'[p].payload = call[p].payload
             /\ call'[p].late = call[p].late
             /\ \/ call'[p].answer = "none"
                \/ call'[p].answer = call[p].answer /\ call'[p].receipt = call[p].receipt
  <2>1. call[p] \in Call /\ p \in Proposal /\ StageInv(p) /\ call[p].stage # "none"
    BY <1>0, CallOf, InvSplit DEF CallInv, Called, At
  <2>2. CASE call[p].stage = "done"
    BY <2>1, <2>2 DEF Crash, StageInv, Call
  <2>3. CASE call[p].stage # "done"
    <3>1. call'[p] = Ended(call[p], "none", NoProposal)
      BY <2>1, <2>3 DEF Crash
    <3> QED
      BY <2>1, <3>1 DEF Ended, Call, Stage, Answer
  <2> QED
    BY <2>2, <2>3
<1>3. \A p \in Proposal \ Called : call'[p] = call[p]
  BY DEF Crash, Called, At
<1>4. Called' = Called
  BY <1>2, <1>3 DEF Called, At
<1>5. TypeOK'
  <2>1. call' \in [Proposal -> Call \cup {NoCall}]
    <3>1. DOMAIN call' = Proposal /\ call' = [p \in Proposal |-> call'[p]]
      BY DEF Crash
    <3>2. \A p \in Proposal : call'[p] \in Call \cup {NoCall}
      BY <1>0, <1>2, <1>3 DEF TypeOK
    <3> QED
      BY <3>1, <3>2
  <2>2. SpineTypeOK'
    BY <1>1 DEF SpineTypeOK, NoEntry, Entry, IntentState
  <2> QED
    BY <1>0, <1>1, <1>4, <2>1, <2>2 DEF TypeOK
<1>6. IntentsOfCalls' /\ ElevatedIsRecorded'
  BY <1>1 DEF DoorInv, IntentsOfCalls, ElevatedIsRecorded
<1>7. \A k \in IdemKey : EntryInv(k)'
  BY <1>1 DEF EntryInv, NoEntry
<1>8. \A q \in graph : call'[q].key = call[q].key /\ call'[q].payload = call[q].payload
  BY <1>0, <1>2 DEF TypeOK
<1>9. ASSUME NEW p \in Called PROVE CallInv(p)'
  <2>1. CallInv(p) /\ p \in Proposal
    BY InvSplit DEF Called
  <2>2. intents'[p] = "none"
    BY <1>1, <2>1
  <2>3. StageInv(p)' /\ KeyInv(p)' /\ LateInv(p)' /\ AnswerInv(p)'
    BY <1>1, <1>2, <2>1, <2>2 DEF CallInv, StageInv, KeyInv, LateInv, AnswerInv
  <2>4. ReplayInv(p)'
    BY <1>1, <1>2, <1>8, <2>1 DEF CallInv, ReplayInv, Earned
  <2> QED
    BY <2>3, <2>4 DEF CallInv
<1> QED
  BY <1>4, <1>5, <1>6, <1>7, <1>9, InvSplitNext

-----------------------------------------------------------------------------
(* The theorems.                                                            *)

LEMMA DoorInvInit == Init => DoorInv
<1> SUFFICES ASSUME Init PROVE DoorInv
  OBVIOUS
<1>1. Called = {}
  BY DEF Init, Called, At, NoCall
<1>2. TypeOK
  BY <1>1, DoorAssumption
     DEF Init, SpineInit, TypeOK, SpineTypeOK, NoEntry, Entry, IntentState
<1>3. \A k \in IdemKey : EntryInv(k)
  BY DEF Init, SpineInit, EntryInv, NoEntry
<1> QED
  BY <1>1, <1>2, <1>3, InvSplit DEF Init, SpineInit, IntentsOfCalls, ElevatedIsRecorded

LEMMA DoorInvStep == DoorInv /\ [Next]_vars => DoorInv'
<1> SUFFICES ASSUME DoorInv, [Next]_vars PROVE DoorInv'
  OBVIOUS
<1>1. CASE UNCHANGED vars
  BY <1>1 DEF vars, spineVars, DoorInv, TypeOK, SpineTypeOK, IntentsOfCalls, Called, At,
              StageInv, KeyInv, LateInv, AnswerIsTrue, ReceiptIsBacked, ElevatedIsRecorded
<1>2. CASE Crash
  BY <1>2, CrashStep
<1>3. ASSUME NEW p \in Proposal,
             \/ \E who \in Principal, key \in IdemKey, h \in Payload : Submit(p, who, key, h)
             \/ Thread(p) \/ Handler(p) \/ Cancel(p)
      PROVE  DoorInv'
  BY <1>3, SubmitStep, ReserveStep, CommitStep, HandlerStep, CancelStep DEF Thread
<1> QED
  BY <1>1, <1>2, <1>3 DEF Next

(* The inductive invariant of the door.                                     *)
THEOREM DoorInvariant == Spec => []DoorInv
BY DoorInvInit, DoorInvStep, PTL DEF Spec

(* However calls interleave, fail, are cancelled or die with the process,   *)
(* one key never commits two payloads while the process runs                *)
(* (IdempotencyStore::reserve).                                             *)
THEOREM KeyCommitsOnePayload == Spec => []OnePayloadPerKey
<1>1. DoorInv => OnePayloadPerKey
  BY DEF DoorInv, OnePayloadPerKey, KeyInv
<1> QED
  BY <1>1, DoorInvariant, PTL

(* Every receipt that is kept or replayed stands for quads in the graph.    *)
THEOREM ReceiptsAreBacked == Spec => []ReceiptIsBacked
<1>1. DoorInv => ReceiptIsBacked
  BY DEF DoorInv
<1> QED
  BY <1>1, DoorInvariant, PTL

(* An answer and an intent tell what the call did to the graph.             *)
THEOREM AnswersAreTrue == Spec => []AnswerIsTrue
<1>1. DoorInv => AnswerIsTrue
  BY DEF DoorInv
<1> QED
  BY <1>1, DoorInvariant, PTL

(* A retry that arrives after the receipt was recorded, or whose receipt is *)
(* recorded while it waits in the gates, writes nothing, although other     *)
(* calls may still be committing under its key (governed_commit).           *)
THEOREM RetryWritesNothing == Spec => []LateWritesNothing
<1>1. DoorInv => LateWritesNothing
  BY DEF DoorInv, LateWritesNothing, LateInv
<1> QED
  BY <1>1, DoorInvariant, PTL

(* The variables of the door keep their types.                              *)
THEOREM DoorTypeCorrect == Spec => []TypeOK
<1>1. DoorInv => TypeOK
  BY DEF DoorInv
<1> QED
  BY <1>1, DoorInvariant, PTL

(* Only a decision whose receipt was recorded is handed to the elevation    *)
(* actor: no failed, refused or abandoned call elevates                     *)
(* (DecisionService::maybe_elevate).                                        *)
THEOREM OnlyRecordedIsElevated == Spec => []ElevatedIsRecorded
<1>1. DoorInv => ElevatedIsRecorded
  BY DEF DoorInv
<1> QED
  BY <1>1, DoorInvariant, PTL

(* A call that has ended left no intent pending in the log of the process   *)
(* that runs (IntentLog::mark).                                             *)
THEOREM NoIntentPending == Spec => []IntentResolved
<1>1. DoorInv => IntentResolved
  BY DEF DoorInv, IntentResolved, StageInv, At
<1> QED
  BY <1>1, DoorInvariant, PTL

=============================================================================
