---------------------------- MODULE PositionStream ----------------------------
(***************************************************************************)
(* Acknowledged position streaming to one client (ADR-2141): the client's  *)
(* ClientStream, the coordinator handlers that drive it, the connection    *)
(* and the client.                                                         *)
(*                                                                         *)
(* The server keeps, per node, what the client last acknowledged, and      *)
(* sends chunks of what differs from it.  Sequence numbers only grow, so a *)
(* queue in the order of sending (the in-flight list, the connection, the  *)
(* acknowledgements) is the set of its entries, taken from the smallest    *)
(* number on.                                                              *)
(*                                                                         *)
(* Time is abstract: a pump may find the chunk in flight still waited for  *)
(* or timed out, whatever the backoff.  Positions lie on a line.           *)
(***************************************************************************)
EXTENDS Integers, FiniteSets

CONSTANTS
    Node,              \* node ids
    Pos,               \* positions
    Key,               \* analytics keys
    ChunkNodes,        \* values of physics.streamChunkNodes
    MoveThresholds,    \* values of physics.streamMoveThreshold
    InFlightHistory,   \* IN_FLIGHT_HISTORY
    FairShareDivisor,  \* FAIR_SHARE_DIVISOR
    MaxChanges,        \* bound: publications and changes of key, view and settings
    MaxFaults          \* bound: lost frames, full mailboxes and early timeouts

ASSUME StreamAssumption ==
    /\ Node \subseteq Nat /\ IsFiniteSet(Node)
    /\ Pos \subseteq Int /\ Pos # {} /\ Key # {}
    /\ ChunkNodes \subseteq Nat /\ MoveThresholds \subseteq Nat
    /\ InFlightHistory \in Nat \ {0} /\ FairShareDivisor \in Nat \ {0}
    /\ MaxChanges \in Nat /\ MaxFaults \in Nat

VARIABLES
    cache,      \* [Node -> value]: position_cache, with the node's analytics
    cached,     \* the keys of position_cache
    visible,    \* what this client is entitled to and has not filtered out
    settings,   \* stream_settings
    seq,        \* broadcast_sequence
    acked,      \* [Node -> Held]: what the client acknowledged
    in_flight,  \* set of chunks sent and not acknowledged
    wire,       \* set of frames on their way to the client
    acks,       \* set of acknowledgements on their way back
    client,     \* [Node -> Held]: what the client shows
    changes, faults

serverVars == <<seq, acked, in_flight>>
linkVars == <<wire, acks, client>>
worldVars == <<cache, cached, visible, settings>>
vars == <<serverVars, linkVars, worldVars, changes, faults>>

-----------------------------------------------------------------------------

Value == [pos : Pos, key : Key]

(* The stored stream settings; the timeout is abstract.                     *)
Settings == [chunk_nodes : ChunkNodes, move_threshold : MoveThresholds]

(* A value and the chunk that carried it, 0 for none.                       *)
Held == [pos : Pos, key : Key, seq : Nat]
NotHeld == [pos |-> CHOOSE p \in Pos : TRUE, key |-> CHOOSE k \in Key : TRUE, seq |-> 0]

(* A chunk says NotHeld of the nodes it does not carry.                     *)
Chunk == [seq : Nat, nodes : [Node -> Held]]
Carried(f) == {n \in Node : f.nodes[n].seq # 0}

dist2(a, b) == (a - b) * (a - b)

Moved(h, v, s) ==
    /\ dist2(v.pos, h.pos) > s.move_threshold * s.move_threshold
    /\ dist2(v.pos, h.pos) > 0

(* What makes a node a candidate for a client that holds h.                 *)
IsNews(h, v, s) == h.seq = 0 \/ Moved(h, v, s) \/ v.key # h.key

(* Mutant: a node that stays in place is never news.                        *)
CandidatesByMove(a, c, ids, s) ==
    {n \in ids \cap visible : a[n].seq = 0 \/ Moved(a[n], c[n], s)}

Candidates(a, c, ids, s) == {n \in ids \cap visible : IsNews(a[n], c[n], s)}

(* Never acknowledged first, then the largest displacement, then the id; an *)
(* analytics-only change counts as no displacement.                         *)
Displacement(h, v, s) == IF h.seq # 0 /\ Moved(h, v, s) THEN dist2(v.pos, h.pos) ELSE 0

by_move(a, c, s, m, n) ==
    LET new(x) == a[x].seq = 0
        d(x) == Displacement(a[x], c[x], s)
    IN  \/ new(m) /\ ~new(n)
        \/ /\ new(m) = new(n)
           /\ d(m) > d(n) \/ (d(m) = d(n) /\ m < n)

by_age(a, m, n) == a[m].seq < a[n].seq \/ (a[m].seq = a[n].seq /\ m < n)

MinOf(i, j) == IF i < j THEN i ELSE j
AtLeastOne(i) == IF i < 1 THEN 1 ELSE i

(* Mutant: the whole chunk goes to the biggest movers.                      *)
NoFairShare(k) == 0

FairShare(k) == MinOf(k \div FairShareDivisor, k - 1)

(* Most of a chunk goes to the biggest movers, the fair share to the rest   *)
(* that waited longest.                                                     *)
plan(a, c, ids, s) ==
    LET all == Candidates(a, c, ids, s)
        k == AtLeastOne(s.chunk_nodes)
        fair == FairShare(k)
        movers == {n \in all : Cardinality({m \in all : by_move(a, c, s, m, n)}) < k - fair}
        rest == all \ movers
        oldest == {n \in rest : Cardinality({m \in rest : by_age(a, m, n)}) < fair}
    IN  IF Cardinality(all) > k THEN movers \cup oldest ELSE all

-----------------------------------------------------------------------------

Init ==
    /\ cache = [n \in Node |-> [pos |-> NotHeld.pos, key |-> NotHeld.key]]
    /\ cached = {}
    /\ visible = Node
    /\ settings \in Settings
    /\ seq = 0
    /\ acked = [n \in Node |-> NotHeld]
    /\ in_flight = {} /\ wire = {} /\ acks = {}
    /\ client = [n \in Node |-> NotHeld]
    /\ changes = 0 /\ faults = 0

(* Mutant: forgetting drops the entry instead of emptying it.               *)
RetainDropsEntries(a, ids) == [n \in ids \cap visible |-> a[n]]

(* What the client is no longer entitled to, or has left the cache, is      *)
(* forgotten; the chunks in flight keep it.                                 *)
retain_nodes(a, ids) == [n \in Node |-> IF n \in ids \cap visible THEN a[n] ELSE NotHeld]

(* The list keeps the last InFlightHistory chunks.                          *)
record_sent(f, chunk) ==
    {chunk} \cup (IF Cardinality(f) >= InFlightHistory
                  THEN {x \in f : \E y \in f : y.seq < x.seq}
                  ELSE f)

NewChunk(ids, c) ==
    [seq   |-> seq + 1,
     nodes |-> [n \in Node |-> IF n \in ids
                               THEN [pos |-> c[n].pos, key |-> c[n].key, seq |-> seq + 1]
                               ELSE NotHeld]]

(* The latest chunk or its acknowledgement is still on its way: a timeout   *)
(* now is early.                                                            *)
OnItsWay(f, ack) ==
    \E x \in f : (\A y \in f : y.seq <= x.seq) /\ (x.seq \in ack \/ x \in wire)

Fault(n) == faults' = faults + n /\ faults' <= MaxFaults

(* pump for this client, with a and f for acked and in_flight, c and ids    *)
(* for the cache, s for the settings and ack for the acknowledgements on    *)
(* their way.  An empty cache, or a client that may see nothing yet, leaves *)
(* nothing to plan.                                                         *)
StillWaiting(a, f) ==
    /\ f # {}
    /\ acked' = a /\ in_flight' = f
    /\ UNCHANGED <<seq, wire, faults>>

(* The frame is sent and on record, or the mailbox is full and it is not.   *)
deliver_binary(f, chunk, early) ==
    \/ /\ in_flight' = record_sent(f, chunk)
       /\ wire' = wire \cup {chunk}
       /\ Fault(early)
    \/ /\ in_flight' = f
       /\ UNCHANGED wire
       /\ Fault(early + 1)

SendNext(a, f, c, ids, s, ack) ==
    LET kept == retain_nodes(a, ids)
        next == plan(kept, c, ids, s)
        chunk == NewChunk(next, c)
        early == IF OnItsWay(f, ack) THEN 1 ELSE 0
    IN  /\ acked' = kept
        /\ \/ /\ next = {}
              /\ in_flight' = f
              /\ UNCHANGED <<seq, wire, faults>>
           \/ /\ next # {}
              /\ seq' = seq + 1
              /\ deliver_binary(f, chunk, early)

pump(a, f, c, ids, s, ack) == StillWaiting(a, f) \/ SendNext(a, f, c, ids, s, ack)

-----------------------------------------------------------------------------

Change == changes < MaxChanges /\ changes' = changes + 1

(* The cache takes the positions in and drops none.                         *)
update_position_cache(ids, at) ==
    [n \in Node |-> IF n \in ids THEN [cache[n] EXCEPT !.pos = at[n]] ELSE cache[n]]

(* The physics publishes a set of positions.                                *)
PublishPositions(ids, at) ==
    LET c == update_position_cache(ids, at)
    IN  /\ Change
        /\ cache' = c
        /\ cached' = cached \cup ids
        /\ pump(acked, in_flight, c, cached', settings, acks)
        /\ UNCHANGED <<visible, settings, acks, client>>

(* The analytics a record carries change, outside the coordinator.          *)
AnalyticsChange(n, key) ==
    /\ Change
    /\ cache' = [cache EXCEPT ![n].key = key]
    /\ UNCHANGED <<cached, visible, settings, serverVars, linkVars, faults>>

(* The client's filter is recomputed, it authenticates, or a node turns     *)
(* private.  The timer sends what follows.                                  *)
ViewChange(ids) ==
    /\ Change
    /\ visible' = ids
    /\ UNCHANGED <<cache, cached, settings, serverVars, linkVars, faults>>

ConfigureStream(s) ==
    /\ Change
    /\ settings' = s
    /\ pump(acked, in_flight, cache, cached, s, acks)
    /\ UNCHANGED <<cache, cached, visible, acks, client>>

(* The 50 ms safety timer.                                                  *)
Timer ==
    /\ SendNext(acked, in_flight, cache, cached, settings, acks)
    /\ UNCHANGED <<worldVars, acks, client, changes>>

(* What the chunk carried is now what the client holds, unless a later      *)
(* chunk said more; earlier chunks are dropped from the list.               *)
acknowledge(a, f) ==
    [n \in Node |-> IF n \in Carried(f) /\ a[n].seq <= f.nodes[n].seq THEN f.nodes[n] ELSE a[n]]

ClientBroadcastAck ==
    \E k \in acks :
        /\ \A j \in acks : k <= j
        /\ acks' = acks \ {k}
        /\ \/ \E f \in in_flight :
                 /\ f.seq = k
                 /\ pump(acknowledge(acked, f), {x \in in_flight : x.seq > k},
                         cache, cached, settings, acks')
           \/ /\ \A f \in in_flight : f.seq # k    \* unknown or aged out
              /\ UNCHANGED <<serverVars, wire, faults>>
        /\ UNCHANGED <<worldVars, client, changes>>

-----------------------------------------------------------------------------
(* The client takes frames in order; it acknowledges what it applied.       *)

NextFrame(f) == f \in wire /\ \A g \in wire : f.seq <= g.seq

ClientApplies ==
    \E f \in wire :
        /\ NextFrame(f)
        /\ wire' = wire \ {f}
        /\ client' = [n \in Node |-> IF n \in Carried(f) THEN f.nodes[n] ELSE client[n]]
        /\ acks' = acks \cup {f.seq}
        /\ UNCHANGED <<serverVars, worldVars, changes, faults>>

(* Mutant: the frame is acknowledged before it is applied.                  *)
ClientAcksUnapplied ==
    \E f \in wire :
        /\ NextFrame(f)
        /\ wire' = wire \ {f}
        /\ acks' = acks \cup {f.seq}
        /\ Fault(1)
        /\ UNCHANGED <<serverVars, worldVars, client, changes>>

(* The frame cannot be applied, or the client's queue drops it.             *)
ClientDrops ==
    \E f \in wire :
        /\ NextFrame(f)
        /\ wire' = wire \ {f}
        /\ Fault(1)
        /\ UNCHANGED <<serverVars, worldVars, acks, client, changes>>

-----------------------------------------------------------------------------

Next ==
    \/ \E ids \in SUBSET Node : \E at \in [ids -> Pos] :
          ids # {} /\ PublishPositions(ids, at)
    \/ \E n \in Node, key \in Key : key # cache[n].key /\ AnalyticsChange(n, key)
    \/ \E ids \in SUBSET Node : ids # visible /\ ViewChange(ids)
    \/ \E s \in Settings : s # settings /\ ConfigureStream(s)
    \/ Timer
    \/ ClientBroadcastAck
    \/ ClientApplies
    \/ ClientDrops

Spec == Init /\ [][Next]_vars

(* The timer keeps firing, actix delivers, and the client works off its     *)
(* frames.                                                                  *)
Fairness == WF_vars(Timer) /\ WF_vars(ClientBroadcastAck) /\ WF_vars(ClientApplies)

FairSpec == Spec /\ Fairness

-----------------------------------------------------------------------------

TypeOK ==
    /\ cache \in [Node -> Value]
    /\ cached \subseteq Node /\ visible \subseteq Node
    /\ settings \in Settings
    /\ seq \in Nat
    /\ acked \in [Node -> Held] /\ client \in [Node -> Held]
    /\ in_flight \subseteq Chunk /\ wire \subseteq Chunk
    /\ acks \subseteq Nat
    /\ changes \in 0..MaxChanges /\ faults \in 0..MaxFaults

(* The server never believes the client holds more than it does: what it    *)
(* has on record for a node is what the client shows, or the client has     *)
(* since shown a later chunk (acknowledge, record_sent).  Late, lost and    *)
(* superseded acknowledgements, and chunks still in flight when a node is   *)
(* hidden and shown again, do not change this.                              *)
HeldByClient ==
    \A n \in Node : acked[n].seq # 0 =>
        \/ acked[n] = client[n]
        \/ acked[n].seq < client[n].seq

(* The client shows every node it may see, within the threshold and with    *)
(* the node's current analytics.                                            *)
Current == \A n \in cached \cap visible : ~IsNews(client[n], cache[n], settings)

(* "Every entitled node is eventually delivered and acknowledged": when     *)
(* nothing changes any more, the client becomes and stays current, and the  *)
(* server knows it (plan, pump and the timer).                              *)
EventuallyCurrent == <>[](Current /\ plan(acked, cache, cached, settings) = {})

===============================================================================
