---------------------------- MODULE FairShareProofs ----------------------------
(***************************************************************************)
(* The bound on how often a frame passes a node over, for every set of     *)
(* nodes, every chunk size and every move threshold, as long as chunks are *)
(* acknowledged in time and no mailbox is full.                            *)
(*                                                                         *)
(* The argument: a frame that leaves a node behind takes a fair share of   *)
(* nodes that were acknowledged before it, and from then on they were      *)
(* acknowledged after it.  So the nodes that have overtaken it grow by the *)
(* fair share with each frame, and there are only so many nodes.           *)
(***************************************************************************)
EXTENDS PositionHistory, PositionProofs, FiniteSetTheorems, WellFoundedInduction

Size(s) == AtLeastOne(s.chunk_nodes)
Share(s) == FairShare(Size(s))

(* The nodes the client may see that have overtaken n, or are about to,     *)
(* with a for acked, f for in_flight and ids for cached.                    *)
Ahead(a, f, ids, n) ==
    {m \in (ids \cap visible) \ {n} : \/ a[m].seq > a[n].seq
                                      \/ \E x \in f : m \in Carried(x)}

(* A node that was passed over w[n] times has been overtaken by that many   *)
(* fair shares, and by the movers of the first frame.                       *)
OvertakenBy(a, f, ids, s, w) ==
    \A n \in Node : w[n] > 0 =>
        /\ n \in ids \cap visible
        /\ \A x \in f : n \notin Carried(x)
        /\ Cardinality(Ahead(a, f, ids, n)) >= (Size(s) - Share(s)) + w[n] * Share(s)

Overtaken == OvertakenBy(acked, in_flight, cached, settings, waits)

(* One chunk at a time, and it is on its way to the client or back.         *)
Lockstep ==
    /\ \A f, g \in in_flight : f = g
    /\ \A f \in in_flight : /\ f \in wire \/ f.seq \in acks
                            /\ \A n \in Node : acked[n].seq < f.seq

HistoryInv == StreamInv /\ Lockstep /\ waits \in [Node -> Nat] /\ Overtaken

-----------------------------------------------------------------------------
(* Ranks in a finite total order, given by the predecessors of each element *)

LEMMA LeastNatural ==
    ASSUME NEW T \in SUBSET Nat, T # {}
    PROVE  \E x \in T : \A y \in T : x <= y
<1>1. PICK x \in T : \A y \in T : <<y, x>> \notin OpToRel(<, Nat)
  BY NatLessThanWellFounded, WFMin, Zenon
<1>2. \A y \in T : ~ (y < x)
  BY <1>1 DEF OpToRel
<1> QED
  BY <1>2

(* The first k of S, where P gives the predecessors of each element.        *)
First(S, P, k) == {n \in S : Cardinality(P[n]) < k}

(* The elements that have fewer than k predecessors are at least k, when    *)
(* they are not all, and they come before the others.                       *)
LEMMA FirstOnes ==
    ASSUME NEW S, IsFiniteSet(S), NEW P \in [S -> SUBSET S], NEW k \in Int,
           \A m \in S : m \notin P[m],
           \A m, n \in S : m = n \/ m \in P[n] \/ n \in P[m],
           \A m, n \in S : m \in P[n] => P[m] \subseteq P[n],
           First(S, P, k) # S
    PROVE  /\ Cardinality(First(S, P, k)) >= k
           /\ \A m \in First(S, P, k) : \A n \in S \ First(S, P, k) : m \in P[n]
<1> PICK T : T = First(S, P, k)
  OBVIOUS
<1>0. T = {n \in S : Cardinality(P[n]) < k} /\ T # S
  BY DEF First
<1>1. \A n \in S : IsFiniteSet(P[n]) /\ Cardinality(P[n]) \in Nat
  BY FS_Subset, FS_CardinalityType
<1>2. \A m, n \in S : m \in P[n] => Cardinality(P[m]) < Cardinality(P[n])
  <2> SUFFICES ASSUME NEW m \in S, NEW n \in S, m \in P[n]
               PROVE  Cardinality(P[m]) < Cardinality(P[n])
    OBVIOUS
  <2>1. P[m] \in SUBSET P[n] /\ P[m] # P[n]
    OBVIOUS
  <2>2. Cardinality(P[m]) <= Cardinality(P[n]) /\ Cardinality(P[m]) # Cardinality(P[n])
    BY <1>1, <2>1, FS_Subset
  <2> QED
    BY <1>1, <2>2
<1>3. \A m \in T : \A n \in S \ T : m \in P[n]
  BY <1>0, <1>1, <1>2
<1>4. PICK r \in {Cardinality(P[n]) : n \in S \ T} :
             \A q \in {Cardinality(P[n]) : n \in S \ T} : r <= q
  <2>1. {Cardinality(P[n]) : n \in S \ T} \in SUBSET Nat
    BY <1>1
  <2>2. {Cardinality(P[n]) : n \in S \ T} # {}
    BY <1>0
  <2> QED
    BY <2>1, <2>2, LeastNatural
<1>5. PICK x \in S \ T : \A y \in S \ T : Cardinality(P[x]) <= Cardinality(P[y])
  BY <1>4
<1>6. P[x] = T
  BY <1>0, <1>1, <1>2, <1>3, <1>5
<1>7. Cardinality(T) \in Nat /\ Cardinality(T) >= k
  <2>1. Cardinality(P[x]) \in Nat /\ ~ (Cardinality(P[x]) < k)
    BY <1>0, <1>1
  <2> QED
    BY <1>6, <2>1
<1> QED
  BY <1>3, <1>7

-----------------------------------------------------------------------------
(* What a chunk takes                                                       *)

LEMMA AgeIsAnOrder ==
    ASSUME NEW a \in [Node -> Held]
    PROVE  /\ \A m \in Node : ~ by_age(a, m, m)
           /\ \A m, n \in Node : m = n \/ by_age(a, m, n) \/ by_age(a, n, m)
           /\ \A l, m, n \in Node : by_age(a, l, m) /\ by_age(a, m, n) => by_age(a, l, n)
<1>1. \A n \in Node : n \in Int /\ a[n].seq \in Int
  BY StreamAssumption DEF Held
<1> QED
  BY <1>1 DEF by_age

LEMMA MoveIsAnOrder ==
    ASSUME NEW a \in [Node -> Held], NEW c \in [Node -> Value], NEW s
    PROVE  /\ \A m \in Node : ~ by_move(a, c, s, m, m)
           /\ \A m, n \in Node : m = n \/ by_move(a, c, s, m, n) \/ by_move(a, c, s, n, m)
           /\ \A l, m, n \in Node :
                 by_move(a, c, s, l, m) /\ by_move(a, c, s, m, n) => by_move(a, c, s, l, n)
<1>1. PICK d : d = [n \in Node |-> Displacement(a[n], c[n], s)]
  OBVIOUS
<1>2. \A n \in Node : n \in Int /\ d[n] \in Int
  <2> SUFFICES ASSUME NEW n \in Node PROVE n \in Int /\ Displacement(a[n], c[n], s) \in Int
    BY <1>1
  <2>1. n \in Int /\ a[n].pos \in Int /\ c[n].pos \in Int
    <3>1. a[n] \in Held /\ c[n] \in Value
      OBVIOUS
    <3>2. a[n].pos \in Pos /\ c[n].pos \in Pos
      BY <3>1 DEF Held, Value
    <3>3. Pos \subseteq Int /\ Node \subseteq Int
      BY StreamAssumption
    <3> QED
      BY <3>2, <3>3
  <2>2. dist2(c[n].pos, a[n].pos) \in Int
    BY <2>1 DEF dist2
  <2> QED
    BY <2>1, <2>2 DEF Displacement
<1>3. \A m, n \in Node : by_move(a, c, s, m, n) <=>
             \/ a[m].seq = 0 /\ a[n].seq # 0
             \/ /\ (a[m].seq = 0) <=> (a[n].seq = 0)
                /\ d[m] > d[n] \/ (d[m] = d[n] /\ m < n)
  BY <1>1 DEF by_move
<1> QED
  BY <1>2, <1>3

LEMMA Sizes ==
    ASSUME NEW s \in Settings
    PROVE  /\ Size(s) \in Nat \ {0} /\ Share(s) \in Nat /\ Share(s) < Size(s)
           /\ Share(s) = MinOf(Size(s) \div FairShareDivisor, Size(s) - 1)
<1>1. s.chunk_nodes \in Nat
  BY StreamAssumption DEF Settings
<1>2. Size(s) \in Nat \ {0}
  BY <1>1 DEF Size, AtLeastOne
<1>3. \A k \in Nat, d \in Nat \ {0} : k \div d \in Nat
  OBVIOUS
<1>4. Size(s) \div FairShareDivisor \in Nat
  BY <1>2, <1>3, StreamAssumption
<1> QED
  BY <1>2, <1>4 DEF Share, FairShare, MinOf

(* A plan of movers and, apart from them, a fair share of nodes that were   *)
(* acknowledged before n.                                                   *)
FairTo(n, a, c, ids, s) ==
    \E movers, oldest \in SUBSET (ids \cap visible) :
        /\ plan(a, c, ids, s) = movers \cup oldest
        /\ movers \cap oldest = {}
        /\ Cardinality(movers) >= Size(s) - Share(s)
        /\ Cardinality(oldest) >= Share(s)
        /\ \A m \in oldest : by_age(a, m, n)

(* A chunk that leaves a candidate n behind is full, and its fair share     *)
(* goes to nodes acknowledged before n.                                     *)
LEMMA PlanIsFair ==
    ASSUME NEW a \in [Node -> Held], NEW c \in [Node -> Value], NEW ids \in SUBSET Node,
           NEW s \in Settings, NEW n \in Candidates(a, c, ids, s) \ plan(a, c, ids, s)
    PROVE  FairTo(n, a, c, ids, s)
<1>1. PICK all : all = Candidates(a, c, ids, s)
  OBVIOUS
<1>2. all \subseteq ids \cap visible /\ all \subseteq Node /\ IsFiniteSet(all)
  BY <1>1, StreamAssumption, FS_Subset DEF Candidates
<1>3. PICK P : P = [x \in all |-> {m \in all : by_move(a, c, s, m, x)}]
  OBVIOUS
<1>4. PICK movers : movers = First(all, P, Size(s) - Share(s))
  OBVIOUS
<1>5. PICK rest : rest = all \ movers
  OBVIOUS
<1>6. PICK Q : Q = [x \in rest |-> {m \in rest : by_age(a, m, x)}]
  OBVIOUS
<1>7. PICK oldest : oldest = First(rest, Q, Share(s))
  OBVIOUS
<1>8. plan(a, c, ids, s) = IF Cardinality(all) > Size(s) THEN movers \cup oldest ELSE all
  BY <1>1, <1>3, <1>4, <1>5, <1>6, <1>7, Zenon DEF plan, Size, Share, First
<1>9. plan(a, c, ids, s) = movers \cup oldest /\ n \in rest /\ n \notin oldest
  BY <1>1, <1>5, <1>8 DEF First
<1>10. Size(s) - Share(s) \in Int /\ Share(s) \in Int
  BY Sizes
<1>11. Cardinality(movers) >= Size(s) - Share(s)
  <2>1. P \in [all -> SUBSET all]
    BY <1>3
  <2>2. /\ \A x \in all : x \notin P[x]
        /\ \A x, y \in all : x = y \/ x \in P[y] \/ y \in P[x]
        /\ \A x, y \in all : x \in P[y] => P[x] \subseteq P[y]
    BY <1>2, <1>3, MoveIsAnOrder
  <2>3. movers # all
    BY <1>5, <1>9
  <2> QED
    BY <1>2, <1>4, <1>10, <2>1, <2>2, <2>3, FirstOnes
<1>12. IsFiniteSet(rest) /\ rest \subseteq Node
  BY <1>2, <1>5, FS_Subset
<1>13. Cardinality(oldest) >= Share(s) /\ \A m \in oldest : \A x \in rest \ oldest : m \in Q[x]
  <2>1. Q \in [rest -> SUBSET rest]
    BY <1>6
  <2>2. /\ \A x \in rest : x \notin Q[x]
        /\ \A x, y \in rest : x = y \/ x \in Q[y] \/ y \in Q[x]
        /\ \A x, y \in rest : x \in Q[y] => Q[x] \subseteq Q[y]
    BY <1>6, <1>12, AgeIsAnOrder
  <2>3. oldest # rest
    BY <1>9
  <2>4. Cardinality(oldest) >= Share(s)
    BY <1>7, <1>10, <1>12, <2>1, <2>2, <2>3, FirstOnes
  <2>5. \A m \in oldest : \A x \in rest \ oldest : m \in Q[x]
    BY <1>7, <1>10, <1>12, <2>1, <2>2, <2>3, FirstOnes
  <2> QED
    BY <2>4, <2>5
<1>14. \A m \in oldest : by_age(a, m, n)
  BY <1>6, <1>9, <1>13
<1>15. /\ movers \in SUBSET (ids \cap visible) /\ oldest \in SUBSET (ids \cap visible)
       /\ movers \cap oldest = {}
  BY <1>2, <1>4, <1>5, <1>7 DEF First
<1> QED
  BY <1>9, <1>11, <1>13, <1>14, <1>15 DEF FairTo

-----------------------------------------------------------------------------
(* What a step does while chunks are acknowledged in time                   *)

(* The chunk a pump sends, with a for acked.                                *)
Frame(a, c, ids, s) ==
    NewChunk(plan(retain_nodes(a, ids), c, ids, s), c)

(* Nothing is sent while a chunk is on its way, and what is sent arrives.   *)
LEMMA QuietPump ==
    ASSUME MaxFaults = 0, TypeOK, NEW a, NEW f, NEW c, NEW ids, NEW s, NEW ack,
           f # {} => OnItsWay(f, ack),
           pump(a, f, c, ids, s, ack)
    PROVE  \/ acked' \in {a, retain_nodes(a, ids)} /\ in_flight' = f /\ wire' = wire
           \/ /\ f = {}
              /\ acked' = retain_nodes(a, ids)
              /\ in_flight' = {Frame(a, c, ids, s)}
              /\ wire' = wire \cup {Frame(a, c, ids, s)}
              /\ seq' = seq + 1
<1>1. \A i \in Nat : Fault(i) => i = 0
  BY DEF Fault, TypeOK
<1>2. CASE StillWaiting(a, f)
  BY <1>2 DEF StillWaiting
<1>3. CASE SendNext(a, f, c, ids, s, ack)
  <2> PICK early : early = IF OnItsWay(f, ack) THEN 1 ELSE 0
    OBVIOUS
  <2>1. early \in Nat /\ early + 1 \in Nat /\ early + 1 # 0
    OBVIOUS
  <2>2. /\ acked' = retain_nodes(a, ids)
        /\ \/ in_flight' = f /\ wire' = wire
           \/ seq' = seq + 1 /\ deliver_binary(f, Frame(a, c, ids, s), early)
    BY <1>3, Zenon DEF SendNext, Frame
  <2>3. CASE deliver_binary(f, Frame(a, c, ids, s), early) /\ seq' = seq + 1
    <3>1. /\ in_flight' = record_sent(f, Frame(a, c, ids, s))
          /\ wire' = wire \cup {Frame(a, c, ids, s)}
          /\ early = 0
      BY <1>1, <2>1, <2>3 DEF deliver_binary
    <3>2. f = {}
      BY <3>1
    <3>3. in_flight' = {Frame(a, c, ids, s)}
      BY <3>1, <3>2 DEF record_sent
    <3> QED
      BY <2>2, <2>3, <3>1, <3>2, <3>3
  <2> QED
    BY <2>2, <2>3
<1> QED
  BY <1>2, <1>3 DEF pump

LEMMA NodesCount ==
    ASSUME NEW T \in SUBSET Node, NEW S \in SUBSET T
    PROVE  /\ IsFiniteSet(S) /\ IsFiniteSet(T)
           /\ Cardinality(S) \in Nat /\ Cardinality(T) \in Nat
           /\ Cardinality(S) <= Cardinality(T)
<1>1. IsFiniteSet(T)
  BY StreamAssumption, FS_Subset
<1> QED
  BY <1>1, FS_Subset, FS_CardinalityType

(* The frame carries what was planned.                                      *)
LEMMA FrameCarries ==
    ASSUME TypeOK, NEW a, NEW c, NEW ids, NEW s
    PROVE  Carried(Frame(a, c, ids, s)) = Node \cap plan(retain_nodes(a, ids), c, ids, s)
<1>1. seq + 1 # 0
  BY DEF TypeOK
<1> QED
  BY <1>1, NotHeldType DEF Frame, NewChunk, Carried

(* What was overtaken stays so when the sets only grow.                     *)
LEMMA OvertakenGrows ==
    ASSUME NEW a \in [Node -> Held], NEW b \in [Node -> Held], NEW f, NEW g,
           NEW ids \in SUBSET Node, NEW more \in SUBSET Node, ids \subseteq more,
           NEW s \in Settings, NEW w \in [Node -> Nat],
           OvertakenBy(a, f, ids, s, w),
           \A n \in Node : w[n] > 0 =>
              /\ \A x \in g : n \notin Carried(x)
              /\ Ahead(a, f, ids, n) \subseteq Ahead(b, g, more, n)
    PROVE  OvertakenBy(b, g, more, s, w)
<1> SUFFICES ASSUME NEW n \in Node, w[n] > 0
             PROVE  /\ n \in more \cap visible
                    /\ \A x \in g : n \notin Carried(x)
                    /\ Cardinality(Ahead(b, g, more, n))
                          >= (Size(s) - Share(s)) + w[n] * Share(s)
  BY DEF OvertakenBy
<1>1. Ahead(b, g, more, n) \in SUBSET Node
  BY DEF Ahead
<1>2. /\ Cardinality(Ahead(a, f, ids, n)) \in Nat /\ Cardinality(Ahead(b, g, more, n)) \in Nat
      /\ Cardinality(Ahead(a, f, ids, n)) <= Cardinality(Ahead(b, g, more, n))
  BY <1>1, NodesCount
<1>3. /\ n \in ids \cap visible
      /\ Cardinality(Ahead(a, f, ids, n)) >= (Size(s) - Share(s)) + w[n] * Share(s)
  BY DEF OvertakenBy
<1>4. (Size(s) - Share(s)) + w[n] * Share(s) \in Int
  BY Sizes
<1> QED
  BY <1>2, <1>3, <1>4


(* Acknowledging the chunk in flight makes the nodes it carried later than  *)
(* the nodes it left behind.                                                *)
LEMMA AckOvertakes ==
    ASSUME StreamInv, Lockstep, waits \in [Node -> Nat], Overtaken,
           NEW g \in in_flight, acknowledge(acked, g) \in [Node -> Held]
    PROVE  OvertakenBy(acknowledge(acked, g), {}, cached, settings, waits)
<1>1. \A x \in in_flight : x = g
  BY DEF Lockstep
<1>2. \A n \in Node : /\ acked[n].seq \in Nat /\ acked[n].seq < g.seq
                      /\ g.seq \in Nat
                      /\ n \in Carried(g) => g.nodes[n].seq = g.seq
  BY DEF Lockstep, StreamInv, TypeOK, Held, Chunk, Numbered, Sent, Carried
<1> PICK b : b = acknowledge(acked, g)
  OBVIOUS
<1>3. \A n \in Node : b[n].seq = IF n \in Carried(g) THEN g.seq ELSE acked[n].seq
  BY <1>2 DEF acknowledge
<1>4. \A n \in Node : waits[n] > 0 =>
         Ahead(acked, in_flight, cached, n) \subseteq Ahead(b, {}, cached, n)
  <2> SUFFICES ASSUME NEW n \in Node, waits[n] > 0, NEW m \in Ahead(acked, in_flight, cached, n)
               PROVE  m \in Ahead(b, {}, cached, n)
    OBVIOUS
  <2>1. n \notin Carried(g)
    BY DEF Overtaken, OvertakenBy
  <2>2. /\ m \in (cached \cap visible) \ {n} /\ m \in Node
        /\ acked[m].seq > acked[n].seq \/ m \in Carried(g)
    BY <1>1 DEF Ahead, StreamInv, TypeOK
  <2>3. b[m].seq > b[n].seq
    BY <1>2, <1>3, <2>1, <2>2
  <2> QED
    BY <2>2, <2>3 DEF Ahead
<1>5. cached \in SUBSET Node /\ acked \in [Node -> Held] /\ settings \in Settings
  BY DEF StreamInv, TypeOK
<1>6. OvertakenBy(acked, in_flight, cached, settings, waits)
  BY DEF Overtaken
<1> QED
  BY <1>4, <1>5, <1>6, OvertakenGrows

(* A frame counts against a node only if a fair share overtakes it.         *)
LEMMA FrameOvertakes ==
    ASSUME StreamInv, NEW a \in [Node -> Held], NEW c \in [Node -> Value],
           NEW ids \in SUBSET Node, NEW s \in Settings, NEW w \in [Node -> Nat],
           OvertakenBy(a, {}, ids, s, w),
           NEW n \in Candidates(retain_nodes(a, ids), c, ids, s)
                        \ plan(retain_nodes(a, ids), c, ids, s)
    PROVE  /\ n \in ids \cap visible
           /\ n \notin Carried(Frame(a, c, ids, s))
           /\ Cardinality(Ahead(retain_nodes(a, ids), {Frame(a, c, ids, s)}, ids, n))
                 >= (Size(s) - Share(s)) + (w[n] + 1) * Share(s)
<1> PICK kept : kept = retain_nodes(a, ids)
  OBVIOUS
<1> PICK next : next = plan(kept, c, ids, s)
  OBVIOUS
<1> PICK ahead : ahead = Ahead(kept, {Frame(a, c, ids, s)}, ids, n)
  OBVIOUS
<1>1. kept \in [Node -> Held] /\ \A m \in ids \cap visible : kept[m] = a[m]
  BY NotHeldType DEF retain_nodes
<1>2. n \in ids \cap visible /\ n \in Node
  BY DEF Candidates
<1>3. Carried(Frame(a, c, ids, s)) = Node \cap next
  BY FrameCarries DEF StreamInv
<1>4. PICK movers \in SUBSET (ids \cap visible), oldest \in SUBSET (ids \cap visible) :
              /\ next = movers \cup oldest
              /\ movers \cap oldest = {}
              /\ Cardinality(movers) >= Size(s) - Share(s)
              /\ Cardinality(oldest) >= Share(s)
              /\ \A m \in oldest : by_age(kept, m, n)
  <2>1. n \in Candidates(kept, c, ids, s) \ plan(kept, c, ids, s)
    OBVIOUS
  <2>2. kept \in [Node -> Held]
    BY <1>1
  <2>3. FairTo(n, kept, c, ids, s)
    BY <2>1, <2>2, PlanIsFair
  <2> QED
    BY <2>3 DEF FairTo
<1>5. n \notin movers /\ n \notin oldest
  BY <1>4
<1>6. ahead \in SUBSET Node /\ movers \subseteq ahead /\ oldest \subseteq ahead
  BY <1>3, <1>4, <1>5 DEF Ahead
<1>7. /\ Size(s) - Share(s) \in Int /\ Share(s) \in Int /\ w[n] \in Nat
      /\ (w[n] + 1) * Share(s) = w[n] * Share(s) + Share(s)
      /\ w[n] * Share(s) \in Int
  BY <1>2, Sizes
<1>8. CASE w[n] = 0
  <2>1. movers \cup oldest \in SUBSET ahead
    BY <1>6
  <2>2. /\ IsFiniteSet(movers) /\ IsFiniteSet(oldest)
        /\ Cardinality(movers) \in Nat /\ Cardinality(oldest) \in Nat
    BY <1>6, NodesCount
  <2>3. Cardinality(movers \cup oldest) = Cardinality(movers) + Cardinality(oldest)
    <3>1. movers \cap oldest = {}
      BY <1>4
    <3> QED
      BY <2>2, <3>1, FS_Union, FS_EmptySet
  <2>4. /\ Cardinality(ahead) \in Nat
        /\ Cardinality(movers \cup oldest) <= Cardinality(ahead)
    BY <1>6, <2>1, NodesCount
  <2>5. Cardinality(ahead) >= (Size(s) - Share(s)) + Share(s)
    BY <1>4, <1>7, <2>2, <2>3, <2>4
  <2>6. (w[n] + 1) * Share(s) = Share(s)
    BY <1>7, <1>8
  <2> QED
    BY <1>2, <1>3, <1>4, <1>5, <2>5, <2>6
<1>9. CASE w[n] > 0
  <2> PICK before : before = Ahead(a, {}, ids, n)
    OBVIOUS
  <2>1. Cardinality(before) >= (Size(s) - Share(s)) + w[n] * Share(s)
    BY <1>2, <1>9 DEF OvertakenBy
  <2>2. before \in SUBSET Node
    BY DEF Ahead
  <2>3. \A m \in Node : a[m].seq \in Nat
    BY DEF Held
  <2>4. \A m \in before : m \in (ids \cap visible) \ {n} /\ a[m].seq > a[n].seq
    BY DEF Ahead
  <2>5. before \cap oldest = {}
    BY <1>1, <1>2, <1>4, <2>3, <2>4 DEF by_age
  <2>6. before \subseteq ahead
    BY <1>1, <1>2, <2>4 DEF Ahead
  <2>7. /\ IsFiniteSet(before) /\ IsFiniteSet(oldest)
        /\ Cardinality(before) \in Nat /\ Cardinality(oldest) \in Nat
    BY <1>6, <2>2, <2>6, NodesCount
  <2>8. Cardinality(before \cup oldest) = Cardinality(before) + Cardinality(oldest)
    BY <2>5, <2>7, FS_Union, FS_EmptySet
  <2>9. before \cup oldest \in SUBSET ahead
    BY <1>6, <2>6
  <2>10. /\ Cardinality(ahead) \in Nat
         /\ Cardinality(before \cup oldest) <= Cardinality(ahead)
    BY <1>6, <2>9, NodesCount
  <2>11. Cardinality(ahead) >= (Size(s) - Share(s)) + (w[n] + 1) * Share(s)
    BY <1>4, <1>7, <2>1, <2>7, <2>8, <2>10
  <2> QED
    BY <1>2, <1>3, <1>4, <1>5, <2>11
<1> QED
  BY <1>7, <1>8, <1>9


(* What the history does with a step, w being the count before it.          *)
Counts(w, c, ids, s) ==
    \/ NewFrames = {} /\ waits' = w
    \/ \E f \in NewFrames :
          waits' = [n \in Node |-> IF n \in Candidates(acked', c, ids, s) \ Carried(f)
                                   THEN w[n] + 1 ELSE 0]

LEMMA PumpOvertakes ==
    ASSUME MaxFaults = 0, StreamInv,
           NEW a \in [Node -> Held], NEW f \in SUBSET in_flight, NEW c \in [Node -> Value],
           NEW ids \in SUBSET Node, NEW s \in Settings, NEW ack, NEW w \in [Node -> Nat],
           f # {} => OnItsWay(f, ack),
           OvertakenBy(a, f, ids, s, w),
           pump(a, f, c, ids, s, ack),
           Counts(w, c, ids, s)
    PROVE  waits' \in [Node -> Nat] /\ OvertakenBy(acked', in_flight', ids, s, waits')
<1> PICK kept : kept = retain_nodes(a, ids)
  OBVIOUS
<1> PICK frame : frame = Frame(a, c, ids, s)
  OBVIOUS
<1>1. kept \in [Node -> Held] /\ \A m \in ids \cap visible : kept[m] = a[m]
  BY NotHeldType DEF retain_nodes
<1>2. CASE acked' \in {a, kept} /\ in_flight' = f /\ wire' = wire
  <2>1. waits' = w
    BY <1>2 DEF Counts, NewFrames
  <2>2. acked' \in [Node -> Held] /\ \A m \in ids \cap visible : acked'[m] = a[m]
    BY <1>1, <1>2
  <2>3. \A n \in Node : w[n] > 0 =>
           /\ \A x \in f : n \notin Carried(x)
           /\ Ahead(a, f, ids, n) \subseteq Ahead(acked', f, ids, n)
    BY <2>2 DEF OvertakenBy, Ahead
  <2>4. OvertakenBy(acked', f, ids, s, w)
    BY <2>2, <2>3, OvertakenGrows
  <2> QED
    BY <1>2, <2>1, <2>4
<1>3. CASE /\ f = {} /\ acked' = kept /\ in_flight' = {frame}
           /\ wire' = wire \cup {frame}
  <2>1. frame.seq = seq + 1
    BY DEF Frame, NewChunk
  <2>2. frame \notin wire
    BY <2>1 DEF StreamInv, Numbered, Sent, TypeOK
  <2>3. NewFrames = {frame}
    BY <1>3, <2>2 DEF NewFrames
  <2>4. waits' = [n \in Node |-> IF n \in Candidates(kept, c, ids, s) \ Carried(frame)
                                 THEN w[n] + 1 ELSE 0]
    BY <1>3, <2>3 DEF Counts
  <2>5. waits' \in [Node -> Nat]
    BY <2>4
  <2>6. Carried(frame) = Node \cap plan(kept, c, ids, s)
    BY FrameCarries DEF StreamInv
  <2>7. ASSUME NEW n \in Node, waits'[n] > 0
        PROVE  /\ n \in ids \cap visible
               /\ \A x \in {frame} : n \notin Carried(x)
               /\ Cardinality(Ahead(kept, {frame}, ids, n))
                     >= (Size(s) - Share(s)) + waits'[n] * Share(s)
    <3>1. waits'[n] = w[n] + 1 /\ n \in Candidates(kept, c, ids, s) \ plan(kept, c, ids, s)
      BY <2>4, <2>6, <2>7
    <3>2. n \in Candidates(retain_nodes(a, ids), c, ids, s)
                   \ plan(retain_nodes(a, ids), c, ids, s)
      BY <3>1
    <3>3. OvertakenBy(a, {}, ids, s, w)
      BY <1>3
    <3> QED
      BY <3>1, <3>2, <3>3, FrameOvertakes
  <2>8. OvertakenBy(kept, {frame}, ids, s, waits')
    BY <2>7 DEF OvertakenBy
  <2> QED
    BY <1>3, <2>5, <2>8
<1> QED
  BY <1>2, <1>3, QuietPump DEF StreamInv

(* A pump keeps one chunk at a time on its way.                             *)
LEMMA PumpLockstep ==
    ASSUME MaxFaults = 0, StreamInv,
           NEW a \in [Node -> Held], NEW f \in SUBSET in_flight, NEW c \in [Node -> Value],
           NEW ids, NEW s, NEW ack,
           \A n \in Node : a[n].seq <= seq,
           \A x, y \in f : x = y,
           \A x \in f : (x \in wire \/ x.seq \in acks') /\ \A n \in Node : a[n].seq < x.seq,
           f # {} => OnItsWay(f, ack),
           pump(a, f, c, ids, s, ack)
    PROVE  Lockstep'
<1> PICK kept : kept = retain_nodes(a, ids)
  OBVIOUS
<1> PICK frame : frame = Frame(a, c, ids, s)
  OBVIOUS
<1>1. \A n \in Node : kept[n] = a[n] \/ kept[n].seq = 0
  BY NotHeldType DEF retain_nodes
<1>2. seq \in Nat /\ \A x \in in_flight : x.seq \in Nat /\ 0 < x.seq
  BY DEF StreamInv, TypeOK, Numbered, Sent
<1>3. CASE acked' \in {a, kept} /\ in_flight' = f /\ wire' = wire
  BY <1>1, <1>2, <1>3 DEF Lockstep
<1>4. CASE /\ f = {} /\ acked' = kept /\ in_flight' = {frame}
           /\ wire' = wire \cup {frame}
  <2>1. frame.seq = seq + 1
    BY DEF Frame, NewChunk
  <2>2. \A n \in Node : a[n].seq \in Nat
    BY DEF Held
  <2>3. \A n \in Node : acked'[n].seq < frame.seq
    BY <1>1, <1>2, <1>4, <2>1, <2>2
  <2> QED
    BY <1>4, <2>3 DEF Lockstep
<1> QED
  BY <1>3, <1>4, QuietPump DEF StreamInv

(* Nothing on record is numbered ahead.                                     *)
LEMMA AckedNumbered ==
    ASSUME StreamInv
    PROVE  \A n \in Node : acked[n].seq \in Nat /\ acked[n].seq <= seq
BY DEF StreamInv, HeldByClient, Numbered, TypeOK, Held

LEMMA LockstepOnItsWay ==
    ASSUME Lockstep, StreamInv
    PROVE  in_flight # {} => OnItsWay(in_flight, acks)
BY DEF Lockstep, OnItsWay, StreamInv, TypeOK, Chunk


-----------------------------------------------------------------------------
(* Every step keeps the invariant                                           *)

(* A pump of the stream as it stands: PublishPositions, ConfigureStream and *)
(* Timer.                                                                   *)
LEMMA PumpStep ==
    ASSUME MaxFaults = 0, HistoryInv,
           cache' \in [Node -> Value], cached' \in SUBSET Node, cached \subseteq cached',
           settings' \in Settings, visible' = visible, acks' = acks,
           pump(acked, in_flight, cache', cached', settings', acks),
           Counts(WaitsBefore, cache', cached', settings')
    PROVE  Lockstep' /\ waits' \in [Node -> Nat] /\ Overtaken'
<1> USE DEF HistoryInv
<1>1. /\ acked \in [Node -> Held] /\ cached \in SUBSET Node /\ settings \in Settings
      /\ in_flight \in SUBSET in_flight
  BY DEF StreamInv, TypeOK
<1>2. in_flight # {} => OnItsWay(in_flight, acks)
  BY LockstepOnItsWay
<1>3. Lockstep'
  <2>1. \A n \in Node : acked[n].seq <= seq
    BY AckedNumbered
  <2>2. /\ \A x, y \in in_flight : x = y
        /\ \A x \in in_flight : /\ x \in wire \/ x.seq \in acks'
                                /\ \A n \in Node : acked[n].seq < x.seq
    BY DEF Lockstep
  <2> QED
    BY <1>1, <1>2, <2>1, <2>2, PumpLockstep
<1>4. /\ WaitsBefore \in [Node -> Nat]
      /\ OvertakenBy(acked, in_flight, cached', settings', WaitsBefore)
  <2>1. CASE settings' = settings
    <3>1. WaitsBefore = waits
      BY <2>1 DEF WaitsBefore
    <3>2. OvertakenBy(acked, in_flight, cached, settings, waits)
      BY DEF Overtaken
    <3>3. \A n \in Node : waits[n] > 0 =>
             /\ \A x \in in_flight : n \notin Carried(x)
             /\ Ahead(acked, in_flight, cached, n) \subseteq Ahead(acked, in_flight, cached', n)
      BY <3>2 DEF OvertakenBy, Ahead
    <3>4. OvertakenBy(acked, in_flight, cached', settings, waits)
      BY <1>1, <3>2, <3>3, OvertakenGrows
    <3> QED
      BY <2>1, <3>1, <3>4
  <2>2. CASE settings' # settings
    <3>1. WaitsBefore = [n \in Node |-> 0]
      BY <2>2 DEF WaitsBefore
    <3> QED
      BY <3>1 DEF OvertakenBy
  <2> QED
    BY <2>1, <2>2
<1>5. /\ waits' \in [Node -> Nat]
      /\ OvertakenBy(acked', in_flight', cached', settings', waits')
  BY <1>1, <1>2, <1>4, PumpOvertakes
<1>6. Overtaken'
  BY <1>5 DEF Overtaken, OvertakenBy, Ahead
<1> QED
  BY <1>3, <1>5, <1>6

(* A step that leaves the stream's books alone sends nothing.               *)
LEMMA QuietStep ==
    ASSUME HistoryInv, acked' = acked, in_flight' = in_flight, cached' = cached,
           waits' = WaitsBefore
    PROVE  waits' \in [Node -> Nat] /\ Overtaken'
<1>1. CASE visible' = visible /\ settings' = settings
  <2>1. waits' = waits
    BY <1>1 DEF WaitsBefore
  <2> QED
    BY <1>1, <2>1 DEF HistoryInv, Overtaken, OvertakenBy, Ahead, Carried, Size, Share
<1>2. CASE ~ (visible' = visible /\ settings' = settings)
  <2>1. waits' = [n \in Node |-> 0]
    BY <1>2 DEF WaitsBefore
  <2> QED
    BY <2>1 DEF Overtaken, OvertakenBy
<1> QED
  BY <1>1, <1>2


(* The acknowledgement of the chunk in flight clears the way for the next;  *)
(* one of a chunk that is no longer known changes nothing.                  *)
LEMMA AckStep ==
    ASSUME MaxFaults = 0, HistoryInv, ClientBroadcastAck,
           Counts(WaitsBefore, cache', cached', settings')
    PROVE  Lockstep' /\ waits' \in [Node -> Nat] /\ Overtaken'
<1> USE DEF HistoryInv
<1> PICK k \in acks :
        /\ acks' = acks \ {k}
        /\ \/ \E f \in in_flight :
                 /\ f.seq = k
                 /\ pump(acknowledge(acked, f), {x \in in_flight : x.seq > k},
                         cache, cached, settings, acks')
           \/ /\ \A f \in in_flight : f.seq # k
              /\ UNCHANGED <<serverVars, wire, faults>>
        /\ UNCHANGED <<worldVars, client, changes>>
  BY DEF ClientBroadcastAck
<1>1. /\ cache' = cache /\ cached' = cached /\ visible' = visible /\ settings' = settings
      /\ WaitsBefore = waits
  BY DEF worldVars, WaitsBefore
<1>2. CASE \E f \in in_flight :
                 /\ f.seq = k
                 /\ pump(acknowledge(acked, f), {x \in in_flight : x.seq > k},
                         cache, cached, settings, acks')
  <2> PICK g \in in_flight :
                 /\ g.seq = k
                 /\ pump(acknowledge(acked, g), {x \in in_flight : x.seq > k},
                         cache, cached, settings, acks')
    BY <1>2
  <2> PICK a : a = acknowledge(acked, g)
    OBVIOUS
  <2>1. g \in Chunk /\ g.seq \in Nat /\ g.nodes \in [Node -> Held] /\ acked \in [Node -> Held]
    BY DEF StreamInv, TypeOK, Chunk
  <2>2. a \in [Node -> Held]
    BY <2>1 DEF acknowledge
  <2>3. {x \in in_flight : x.seq > k} = {}
    BY <2>1 DEF Lockstep
  <2>4. pump(a, {}, cache, cached, settings, acks')
    BY <2>3
  <2>5. \A n \in Node : a[n].seq <= seq
    <3>1. \A n \in Node : a[n] = acked[n] \/ a[n] = g.nodes[n]
      BY DEF acknowledge
    <3>2. \A n \in Node : g.nodes[n].seq <= seq
      BY DEF StreamInv, Numbered, Sent, TypeOK
    <3> QED
      BY <3>1, <3>2, AckedNumbered
  <2>6. cache \in [Node -> Value] /\ cached \in SUBSET Node /\ settings \in Settings
    BY DEF StreamInv, TypeOK
  <2>7. OvertakenBy(a, {}, cached, settings, waits)
    BY <2>2, AckOvertakes
  <2>8. Counts(waits, cache, cached, settings)
    BY <1>1
  <2>9. /\ waits' \in [Node -> Nat]
        /\ OvertakenBy(acked', in_flight', cached, settings, waits')
    BY <2>2, <2>4, <2>6, <2>7, <2>8, PumpOvertakes
  <2>10. Overtaken'
    BY <1>1, <2>9 DEF Overtaken, OvertakenBy, Ahead
  <2>11. Lockstep'
    BY <2>2, <2>4, <2>5, <2>6, PumpLockstep
  <2> QED
    BY <2>9, <2>10, <2>11
<1>3. CASE (\A f \in in_flight : f.seq # k) /\ UNCHANGED <<serverVars, wire, faults>>
  <2>1. Lockstep'
    BY <1>3 DEF Lockstep, serverVars
  <2>2. waits' = WaitsBefore
    BY <1>3 DEF Counts, NewFrames
  <2> QED
    BY <1>1, <1>3, <2>1, <2>2, QuietStep DEF serverVars
<1> QED
  BY <1>2, <1>3

LEMMA HistoryStart == HistoryInit => HistoryInv
<1> SUFFICES ASSUME HistoryInit PROVE HistoryInv
  OBVIOUS
<1>1. StreamInv
  BY StreamInit DEF HistoryInit
<1>2. Lockstep /\ waits \in [Node -> Nat] /\ Overtaken
  BY DEF HistoryInit, Init, Lockstep, Overtaken, OvertakenBy
<1> QED
  BY <1>1, <1>2 DEF HistoryInv

LEMMA HistoryStep ==
    ASSUME MaxFaults = 0, HistoryInv, [HistoryNext]_historyVars
    PROVE  HistoryInv'
<1>1. StreamInv'
  BY StreamStep DEF HistoryInv, HistoryNext, historyVars
<1>2. Lockstep' /\ waits' \in [Node -> Nat] /\ Overtaken'
  <2>1. CASE UNCHANGED historyVars
    <3>1. UNCHANGED <<serverVars, linkVars, worldVars, waits>>
      BY <2>1 DEF historyVars, vars
    <3>2. Lockstep'
      BY <3>1 DEF HistoryInv, Lockstep, serverVars, linkVars
    <3>3. waits' = WaitsBefore
      BY <3>1 DEF WaitsBefore, worldVars
    <3> QED
      BY <3>1, <3>2, <3>3, QuietStep DEF serverVars, worldVars
  <2> SUFFICES ASSUME HistoryNext PROVE Lockstep' /\ waits' \in [Node -> Nat] /\ Overtaken'
    BY <2>1
  <2>2. Counts(WaitsBefore, cache', cached', settings')
    BY DEF HistoryNext, Counts
  <2>3. cache' \in [Node -> Value] /\ cached' \in SUBSET Node /\ settings' \in Settings
    BY <1>1 DEF StreamInv, TypeOK
  <2>4. CASE \E ids \in SUBSET Node : \E at \in [ids -> Pos] : PublishPositions(ids, at)
    <3>1. /\ cached \subseteq cached' /\ settings' = settings /\ visible' = visible /\ acks' = acks
          /\ pump(acked, in_flight, cache', cached', settings, acks)
      BY <2>4 DEF PublishPositions
    <3> QED
      BY <2>2, <2>3, <3>1, PumpStep
  <2>5. CASE \E s \in Settings : ConfigureStream(s)
    <3>1. /\ cached' = cached /\ cache' = cache /\ visible' = visible /\ acks' = acks
          /\ pump(acked, in_flight, cache, cached, settings', acks)
      BY <2>5 DEF ConfigureStream
    <3> QED
      BY <2>2, <2>3, <3>1, PumpStep
  <2>6. CASE Timer
    <3>1. /\ cached' = cached /\ cache' = cache /\ settings' = settings /\ visible' = visible
          /\ acks' = acks
          /\ pump(acked, in_flight, cache, cached, settings, acks)
      BY <2>6 DEF Timer, worldVars, pump
    <3> QED
      BY <2>2, <2>3, <3>1, PumpStep
  <2>7. CASE ClientBroadcastAck
    BY <2>2, <2>7, AckStep
  <2>8. CASE \/ \E n \in Node, key \in Key : AnalyticsChange(n, key)
             \/ \E ids \in SUBSET Node : ViewChange(ids)
    <3>1. UNCHANGED serverVars /\ UNCHANGED linkVars /\ cached' = cached
      BY <2>8 DEF AnalyticsChange, ViewChange
    <3>2. Lockstep'
      BY <3>1 DEF HistoryInv, Lockstep, serverVars, linkVars
    <3>3. waits' = WaitsBefore
      BY <2>2, <3>1 DEF Counts, NewFrames, linkVars
    <3>4. waits' \in [Node -> Nat] /\ Overtaken'
      BY <3>1, <3>3, QuietStep DEF serverVars
    <3> QED
      BY <3>2, <3>4
  <2>9. CASE ClientApplies
    <3>1. UNCHANGED serverVars /\ cached' = cached /\ wire' \subseteq wire
      BY <2>9 DEF ClientApplies, worldVars
    <3>2. Lockstep'
      BY <2>9 DEF HistoryInv, Lockstep, serverVars, ClientApplies
    <3>3. waits' = WaitsBefore
      BY <2>2, <3>1 DEF Counts, NewFrames
    <3>4. waits' \in [Node -> Nat] /\ Overtaken'
      BY <3>1, <3>3, QuietStep DEF serverVars
    <3> QED
      BY <3>2, <3>4
  <2>10. CASE ClientDrops
    BY <2>10 DEF ClientDrops, Fault, HistoryInv, StreamInv, TypeOK
  <2> QED
    BY <2>4, <2>5, <2>6, <2>7, <2>8, <2>9, <2>10 DEF HistoryNext, Next
<1> QED
  BY <1>1, <1>2 DEF HistoryInv

(* While chunks are acknowledged in time, the frames in a row that leave a  *)
(* node behind are bounded: what has overtaken it cannot be more than the   *)
(* other nodes (the fair share of plan, src/actors/position_stream.rs).     *)
THEOREM NobodyStarves ==
    ASSUME MaxFaults = 0
    PROVE  HistorySpec => []NotStarved
<1>1. HistoryInv => NotStarved
  <2> SUFFICES ASSUME HistoryInv, NEW n \in Node, waits[n] > 0
               PROVE  waits[n] * Share(settings)
                         <= Cardinality(Node) - 1 - (Size(settings) - Share(settings))
    BY Sizes DEF NotStarved, Size, HistoryInv, StreamInv, TypeOK
  <2> PICK ahead : ahead = Ahead(acked, in_flight, cached, n)
    OBVIOUS
  <2>1. Cardinality(ahead)
           >= (Size(settings) - Share(settings)) + waits[n] * Share(settings)
    BY DEF HistoryInv, Overtaken, OvertakenBy
  <2>2. ahead \in SUBSET (Node \ {n})
    BY DEF Ahead, HistoryInv, StreamInv, TypeOK
  <2>3. /\ IsFiniteSet(Node \ {n}) /\ Cardinality(Node \ {n}) = Cardinality(Node) - 1
        /\ Cardinality(Node) \in Nat
    BY StreamAssumption, FS_RemoveElement, FS_CardinalityType
  <2>4. Cardinality(ahead) \in Nat /\ Cardinality(ahead) <= Cardinality(Node) - 1
    BY <2>2, <2>3, FS_Subset, FS_CardinalityType
  <2>5. /\ Size(settings) - Share(settings) \in Int /\ waits[n] * Share(settings) \in Int
    BY Sizes DEF HistoryInv, StreamInv, TypeOK
  <2> QED
    BY <2>1, <2>3, <2>4, <2>5
<1>2. HistoryInv /\ [HistoryNext]_historyVars => HistoryInv'
  BY HistoryStep
<1> QED
  BY <1>1, <1>2, HistoryStart, PTL DEF HistorySpec

===============================================================================
