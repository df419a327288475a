---------------------------- MODULE PositionProofs ----------------------------
(***************************************************************************)
(* The server never believes a client holds more than it does, for every   *)
(* set of nodes, every setting and every number of faults.                 *)
(***************************************************************************)
EXTENDS PositionStream, TLAPS

Sent == in_flight \cup wire

(* A chunk is numbered by its frame and nothing is numbered ahead.          *)
Numbered ==
    /\ \A f \in Sent : f.seq \in 1..seq /\ \A n \in Node : f.nodes[n].seq \in {0, f.seq}
    /\ \A k \in acks : k <= seq
    /\ \A n \in Node : client[n].seq <= seq

(* A number names one chunk.                                                *)
OneChunk == \A f, g \in Sent : f.seq = g.seq => f = g

(* What is still on the connection is later than all the client has seen.   *)
InOrder ==
    \A g \in wire :
        /\ \A k \in acks : k < g.seq
        /\ \A n \in Node : client[n].seq < g.seq

(* An acknowledgement on its way vouches for the chunk it names.            *)
Vouched ==
    \A f \in in_flight : f.seq \in acks =>
        \A n \in Carried(f) : client[n] = f.nodes[n] \/ f.seq < client[n].seq

StreamInv == TypeOK /\ Numbered /\ OneChunk /\ InOrder /\ Vouched /\ HeldByClient

(* What a pump does to the stream, with a and f for acked and in_flight.    *)
PumpEffect(a, f) ==
    /\ acked' \in [Node -> Held]
    /\ \A n \in Node : acked'[n] = a[n] \/ acked'[n] = NotHeld
    /\ faults' \in 0..MaxFaults
    /\ \/ seq' \in {seq, seq + 1} /\ in_flight' = f /\ wire' = wire
       \/ /\ seq' = seq + 1
          /\ \E chunk \in Chunk :
                /\ chunk.seq = seq + 1
                /\ \A n \in Node : chunk.nodes[n].seq \in {0, seq + 1}
                /\ in_flight' \subseteq f \cup {chunk}
                /\ wire' = wire \cup {chunk}

-----------------------------------------------------------------------------

LEMMA NotHeldType == NotHeld \in Held /\ NotHeld.seq = 0
BY StreamAssumption DEF NotHeld, Held

LEMMA NewChunkType ==
    ASSUME TypeOK, NEW ids, NEW c \in [Node -> Value]
    PROVE  /\ NewChunk(ids, c) \in Chunk
           /\ NewChunk(ids, c).seq = seq + 1
           /\ \A n \in Node : NewChunk(ids, c).nodes[n].seq \in {0, seq + 1}
<1>1. seq + 1 \in Nat
  BY DEF TypeOK
<1>2. \A n \in Node : [pos |-> c[n].pos, key |-> c[n].key, seq |-> seq + 1] \in Held
  BY <1>1 DEF Value, Held
<1>3. [n \in Node |-> IF n \in ids
                      THEN [pos |-> c[n].pos, key |-> c[n].key, seq |-> seq + 1]
                      ELSE NotHeld] \in [Node -> Held]
  BY <1>2, NotHeldType
<1> QED
  BY <1>1, <1>3, NotHeldType DEF NewChunk, Chunk

(* Every step that pumps has the effect of a pump.                          *)
LEMMA PumpHasEffect ==
    ASSUME TypeOK, NEW a \in [Node -> Held], NEW f, NEW c \in [Node -> Value],
           NEW ids, NEW s, NEW ack,
           pump(a, f, c, ids, s, ack)
    PROVE  PumpEffect(a, f)
<1>1. CASE StillWaiting(a, f)
  BY <1>1 DEF StillWaiting, PumpEffect, TypeOK
<1>2. CASE SendNext(a, f, c, ids, s, ack)
  <2> DEFINE kept == retain_nodes(a, ids)
             chunk == NewChunk(plan(kept, c, ids, s), c)
  <2>1. acked' = kept
    BY <1>2 DEF SendNext
  <2>2. kept \in [Node -> Held] /\ \A n \in Node : kept[n] = a[n] \/ kept[n] = NotHeld
    BY NotHeldType DEF retain_nodes
  <2>3. /\ chunk \in Chunk
        /\ chunk.seq = seq + 1
        /\ \A n \in Node : chunk.nodes[n].seq \in {0, seq + 1}
    BY NewChunkType
  <2>4. faults' \in 0..MaxFaults
    BY <1>2, StreamAssumption DEF SendNext, deliver_binary, Fault, TypeOK
  <2>5. \/ seq' \in {seq, seq + 1} /\ in_flight' = f /\ wire' = wire
        \/ seq' = seq + 1 /\ in_flight' = record_sent(f, chunk) /\ wire' = wire \cup {chunk}
    BY <1>2 DEF SendNext, deliver_binary
  <2>6. record_sent(f, chunk) \subseteq f \cup {chunk}
    BY DEF record_sent
  <2> HIDE DEF kept, chunk
  <2> QED
    BY <2>1, <2>2, <2>3, <2>4, <2>5, <2>6 DEF PumpEffect
<1> QED
  BY <1>1, <1>2 DEF pump


(* A pump from a sound record of what the client holds keeps the record     *)
(* sound: the new chunk is numbered after everything else.                  *)
LEMMA PumpKeepsInv ==
    ASSUME TypeOK, Numbered, OneChunk, InOrder, Vouched,
           NEW a \in [Node -> Held], NEW f \in SUBSET in_flight,
           \A n \in Node : a[n].seq # 0 => a[n] = client[n] \/ a[n].seq < client[n].seq,
           PumpEffect(a, f),
           acks' \subseteq acks, client' = client
    PROVE  /\ seq' \in Nat /\ in_flight' \subseteq Chunk /\ wire' \subseteq Chunk
           /\ Numbered' /\ OneChunk' /\ InOrder' /\ Vouched' /\ HeldByClient'
<1>1. HeldByClient'
  BY NotHeldType DEF PumpEffect, HeldByClient
<1>2. CASE seq' \in {seq, seq + 1} /\ in_flight' = f /\ wire' = wire
  <2>1. seq \in Nat /\ seq' \in Nat /\ seq <= seq'
    BY <1>2 DEF TypeOK
  <2>2. Numbered'
    BY <1>2, <2>1 DEF Numbered, Sent, TypeOK, Held, Chunk
  <2>3. OneChunk' /\ InOrder' /\ Vouched'
    BY <1>2 DEF OneChunk, InOrder, Vouched, Sent, Carried
  <2> QED
    BY <1>1, <1>2, <2>1, <2>2, <2>3 DEF TypeOK
<1>3. CASE /\ seq' = seq + 1
           /\ \E chunk \in Chunk :
                 /\ chunk.seq = seq + 1
                 /\ \A n \in Node : chunk.nodes[n].seq \in {0, seq + 1}
                 /\ in_flight' \subseteq f \cup {chunk}
                 /\ wire' = wire \cup {chunk}
  <2> PICK chunk \in Chunk :
                 /\ chunk.seq = seq + 1
                 /\ \A n \in Node : chunk.nodes[n].seq \in {0, seq + 1}
                 /\ in_flight' \subseteq f \cup {chunk}
                 /\ wire' = wire \cup {chunk}
    BY <1>3
  <2>1. seq \in Nat /\ seq' = seq + 1 /\ seq' \in Nat
    BY <1>3 DEF TypeOK
  <2>2. Sent' \subseteq Sent \cup {chunk}
    BY DEF Sent
  <2>3. \A g \in Sent : g \in Chunk /\ g.seq \in Nat /\ g.seq <= seq
    BY <2>1 DEF Numbered, Sent, TypeOK, Chunk
  <2>4. \A g \in Sent' : g.seq \in 1..seq' /\ \A n \in Node : g.nodes[n].seq \in {0, g.seq}
    BY <2>1, <2>2 DEF Numbered, Chunk
  <2>5. /\ \A k \in acks : k \in Nat /\ k <= seq
        /\ \A n \in Node : client[n].seq \in Nat /\ client[n].seq <= seq
    BY DEF Numbered, TypeOK, Held
  <2>6. Numbered'
    BY <2>1, <2>4, <2>5 DEF Numbered
  <2>7. OneChunk'
    BY <2>1, <2>2, <2>3 DEF OneChunk
  <2>8. InOrder'
    BY <2>1, <2>5 DEF InOrder
  <2>9. Vouched'
    <3>1. chunk.seq \notin acks
      BY <2>1, <2>5
    <3> QED
      BY <3>1 DEF Vouched, Carried
  <2> QED
    BY <1>1, <2>1, <2>6, <2>7, <2>8, <2>9 DEF TypeOK
<1> QED
  BY <1>2, <1>3 DEF PumpEffect

-----------------------------------------------------------------------------

LEMMA StreamInit == Init => StreamInv
<1> SUFFICES ASSUME Init PROVE StreamInv
  OBVIOUS
<1>1. TypeOK
  <2>1. NotHeld.pos \in Pos /\ NotHeld.key \in Key
    BY NotHeldType DEF Held
  <2> QED
    BY <2>1, NotHeldType, StreamAssumption DEF Init, TypeOK, Value
<1>2. Numbered /\ OneChunk /\ InOrder /\ Vouched /\ HeldByClient
  BY NotHeldType DEF Init, Numbered, OneChunk, InOrder, Vouched, HeldByClient, Sent
<1> QED
  BY <1>1, <1>2 DEF StreamInv

LEMMA ChangeType ==
    ASSUME TypeOK, Change
    PROVE  changes' \in 0..MaxChanges
BY StreamAssumption DEF TypeOK, Change

LEMMA PublishKeepsInv ==
    ASSUME StreamInv, NEW ids \in SUBSET Node, NEW at \in [ids -> Pos],
           PublishPositions(ids, at)
    PROVE  StreamInv'
<1> DEFINE c == update_position_cache(ids, at)
<1>1. c \in [Node -> Value]
  BY DEF update_position_cache, StreamInv, TypeOK, Value
<1>2. pump(acked, in_flight, c, cached', settings, acks) /\ cache' = c
  BY DEF PublishPositions
<1> HIDE DEF c
<1>3. PumpEffect(acked, in_flight)
  BY <1>1, <1>2, PumpHasEffect DEF StreamInv, TypeOK
<1>4. acks' = acks /\ client' = client
  BY DEF PublishPositions
<1>5. /\ seq' \in Nat /\ in_flight' \subseteq Chunk /\ wire' \subseteq Chunk
      /\ Numbered' /\ OneChunk' /\ InOrder' /\ Vouched' /\ HeldByClient'
  BY <1>3, <1>4, PumpKeepsInv DEF StreamInv, TypeOK, HeldByClient
<1>6. TypeOK'
  <2>1. cached' \subseteq Node /\ UNCHANGED <<visible, settings>>
    BY DEF StreamInv, TypeOK, PublishPositions
  <2>2. changes' \in 0..MaxChanges
    BY ChangeType DEF StreamInv, PublishPositions
  <2> QED
    BY <1>1, <1>2, <1>3, <1>4, <1>5, <2>1, <2>2 DEF StreamInv, TypeOK, PumpEffect
<1> QED
  BY <1>5, <1>6 DEF StreamInv

LEMMA ConfigureKeepsInv ==
    ASSUME StreamInv, NEW s \in Settings, ConfigureStream(s)
    PROVE  StreamInv'
<1>1. PumpEffect(acked, in_flight)
  BY PumpHasEffect DEF StreamInv, TypeOK, ConfigureStream
<1>2. acks' = acks /\ client' = client
  BY DEF ConfigureStream
<1>3. /\ seq' \in Nat /\ in_flight' \subseteq Chunk /\ wire' \subseteq Chunk
      /\ Numbered' /\ OneChunk' /\ InOrder' /\ Vouched' /\ HeldByClient'
  BY <1>1, <1>2, PumpKeepsInv DEF StreamInv, TypeOK, HeldByClient
<1>4. TypeOK'
  <2>1. changes' \in 0..MaxChanges
    BY ChangeType DEF StreamInv, ConfigureStream
  <2> QED
    BY <1>1, <1>2, <1>3, <2>1 DEF StreamInv, TypeOK, PumpEffect, ConfigureStream
<1> QED
  BY <1>3, <1>4 DEF StreamInv

LEMMA TimerKeepsInv ==
    ASSUME StreamInv, Timer
    PROVE  StreamInv'
<1>1. PumpEffect(acked, in_flight)
  BY PumpHasEffect DEF StreamInv, TypeOK, Timer, pump
<1>2. acks' = acks /\ client' = client
  BY DEF Timer
<1>3. /\ seq' \in Nat /\ in_flight' \subseteq Chunk /\ wire' \subseteq Chunk
      /\ Numbered' /\ OneChunk' /\ InOrder' /\ Vouched' /\ HeldByClient'
  BY <1>1, <1>2, PumpKeepsInv DEF StreamInv, TypeOK, HeldByClient
<1>4. TypeOK'
  BY <1>1, <1>2, <1>3 DEF StreamInv, TypeOK, PumpEffect, Timer, worldVars
<1> QED
  BY <1>3, <1>4 DEF StreamInv

(* The acknowledgement vouches for the chunk that it turns into the record. *)
LEMMA AckKeepsInv ==
    ASSUME StreamInv, ClientBroadcastAck
    PROVE  StreamInv'
<1> PICK k \in acks :
        /\ acks' = acks \ {k}
        /\ \/ \E f \in in_flight :
                 /\ f.seq = k
                 /\ pump(acknowledge(acked, f), {x \in in_flight : x.seq > k},
                         cache, cached, settings, acks')
           \/ UNCHANGED <<serverVars, wire, faults>>
        /\ UNCHANGED <<worldVars, client, changes>>
  BY DEF ClientBroadcastAck
<1>1. CASE UNCHANGED <<serverVars, wire, faults>>
  <2>1. TypeOK'
    BY <1>1 DEF StreamInv, TypeOK, serverVars, worldVars
  <2>2. Numbered' /\ OneChunk' /\ InOrder' /\ Vouched' /\ HeldByClient'
    BY <1>1 DEF StreamInv, Numbered, OneChunk, InOrder, Vouched, HeldByClient, Sent, Carried,
                serverVars
  <2> QED
    BY <2>1, <2>2 DEF StreamInv
<1>2. CASE \E f \in in_flight :
                 /\ f.seq = k
                 /\ pump(acknowledge(acked, f), {x \in in_flight : x.seq > k},
                         cache, cached, settings, acks')
  <2> PICK f \in in_flight :
                 /\ f.seq = k
                 /\ pump(acknowledge(acked, f), {x \in in_flight : x.seq > k},
                         cache, cached, settings, acks')
    BY <1>2
  <2> DEFINE a == acknowledge(acked, f)
             later == {x \in in_flight : x.seq > k}
  <2>1. f \in Chunk /\ f.nodes \in [Node -> Held]
    BY DEF StreamInv, TypeOK, Chunk
  <2>2. a \in [Node -> Held]
    BY <2>1 DEF acknowledge, StreamInv, TypeOK
  <2>3. \A n \in Node : a[n].seq # 0 => a[n] = client[n] \/ a[n].seq < client[n].seq
    <3> SUFFICES ASSUME NEW n \in Node, a[n].seq # 0
                 PROVE  a[n] = client[n] \/ a[n].seq < client[n].seq
      OBVIOUS
    <3>1. CASE a[n] = acked[n]
      BY <3>1 DEF StreamInv, HeldByClient
    <3>2. CASE n \in Carried(f) /\ a[n] = f.nodes[n]
      <4>1. client[n] = f.nodes[n] \/ f.seq < client[n].seq
        BY <3>2 DEF StreamInv, Vouched
      <4>2. f.nodes[n].seq = f.seq
        BY <3>2 DEF StreamInv, Numbered, Sent, Carried
      <4> QED
        BY <3>2, <4>1, <4>2
    <3> QED
      BY <3>1, <3>2 DEF acknowledge
  <2>4. pump(a, later, cache, cached, settings, acks') /\ later \in SUBSET in_flight
    OBVIOUS
  <2> HIDE DEF a, later
  <2>5. PumpEffect(a, later)
    BY <2>2, <2>4, PumpHasEffect DEF StreamInv, TypeOK
  <2>6. /\ seq' \in Nat /\ in_flight' \subseteq Chunk /\ wire' \subseteq Chunk
        /\ Numbered' /\ OneChunk' /\ InOrder' /\ Vouched' /\ HeldByClient'
    BY <2>2, <2>3, <2>4, <2>5, PumpKeepsInv DEF StreamInv
  <2>7. TypeOK'
    BY <2>5, <2>6 DEF StreamInv, TypeOK, PumpEffect, worldVars
  <2> QED
    BY <2>6, <2>7 DEF StreamInv
<1> QED
  BY <1>1, <1>2

(* The client takes the frame all earlier ones precede.                     *)
LEMMA ApplyKeepsInv ==
    ASSUME StreamInv, ClientApplies
    PROVE  StreamInv'
<1> PICK f \in wire :
        /\ NextFrame(f)
        /\ wire' = wire \ {f}
        /\ client' = [n \in Node |-> IF n \in Carried(f) THEN f.nodes[n] ELSE client[n]]
        /\ acks' = acks \cup {f.seq}
        /\ UNCHANGED <<serverVars, worldVars, changes, faults>>
  BY DEF ClientApplies
<1>1. f \in Chunk /\ f.seq \in Nat /\ f.nodes \in [Node -> Held] /\ f \in Sent
  BY DEF StreamInv, TypeOK, Chunk, Sent
<1>2. client' \in [Node -> Held]
  BY <1>1 DEF StreamInv, TypeOK
<1>3. TypeOK'
  BY <1>1, <1>2 DEF StreamInv, TypeOK, serverVars, worldVars
<1>4. \A n \in Carried(f) : n \in Node /\ client'[n] = f.nodes[n] /\ client'[n].seq = f.seq
  BY <1>1 DEF StreamInv, Numbered, Carried
<1>5. \A n \in Node \ Carried(f) : client'[n] = client[n]
  OBVIOUS
<1>6. \A n \in Node : client[n].seq \in Nat /\ client[n].seq < f.seq
  BY DEF StreamInv, InOrder, TypeOK, Held
<1>7. Sent' \subseteq Sent /\ in_flight' = in_flight /\ seq' = seq /\ acked' = acked
  BY DEF Sent, serverVars
<1>8. Numbered'
  <2>1. f.seq <= seq
    BY <1>1 DEF StreamInv, Numbered, TypeOK
  <2>2. \A n \in Node : client'[n].seq <= seq
    BY <1>4, <1>5, <2>1 DEF StreamInv, Numbered
  <2>3. \A k \in acks' : k <= seq
    BY <2>1 DEF StreamInv, Numbered
  <2>4. \A g \in Sent' : g.seq \in 1..seq /\ \A n \in Node : g.nodes[n].seq \in {0, g.seq}
    BY <1>7 DEF StreamInv, Numbered
  <2> QED
    BY <1>7, <2>2, <2>3, <2>4 DEF Numbered
<1>9. OneChunk'
  BY <1>7 DEF StreamInv, OneChunk
<1>10. \A g \in wire' : g.seq \in Nat /\ f.seq < g.seq
  BY <1>1 DEF StreamInv, OneChunk, Sent, NextFrame, TypeOK, Chunk
<1>11. InOrder'
  BY <1>4, <1>5, <1>10 DEF StreamInv, InOrder
<1>12. Vouched'
  <2> SUFFICES ASSUME NEW h \in in_flight, h.seq \in acks', NEW n \in Carried(h)
               PROVE  client'[n] = h.nodes[n] \/ h.seq < client'[n].seq
    BY <1>7 DEF Vouched, Carried
  <2>1. CASE h.seq = f.seq
    BY <2>1, <1>1, <1>4 DEF StreamInv, OneChunk, Sent
  <2>2. CASE h.seq \in acks
    <3>1. h.seq < f.seq /\ (client[n] = h.nodes[n] \/ h.seq < client[n].seq)
      BY <2>2 DEF StreamInv, InOrder, Vouched
    <3> QED
      BY <3>1, <1>4, <1>5 DEF Carried
  <2> QED
    BY <2>1, <2>2
<1>13. HeldByClient'
  <2> SUFFICES ASSUME NEW n \in Node, acked[n].seq # 0
               PROVE  acked[n] = client'[n] \/ acked[n].seq < client'[n].seq
    BY <1>7 DEF HeldByClient
  <2>1. acked[n] = client[n] \/ acked[n].seq < client[n].seq
    BY DEF StreamInv, HeldByClient
  <2>2. acked[n].seq \in Nat
    BY DEF StreamInv, TypeOK, Held
  <2>3. CASE n \in Carried(f)
    <3>1. acked[n].seq < f.seq
      BY <2>1, <2>2, <1>1, <1>6
    <3> QED
      BY <2>3, <3>1, <1>4
  <2>4. CASE n \notin Carried(f)
    BY <2>1, <2>4, <1>5
  <2> QED
    BY <2>3, <2>4
<1> QED
  BY <1>3, <1>8, <1>9, <1>11, <1>12, <1>13 DEF StreamInv

LEMMA DropKeepsInv ==
    ASSUME StreamInv, ClientDrops
    PROVE  StreamInv'
<1>1. TypeOK'
  BY StreamAssumption DEF StreamInv, TypeOK, ClientDrops, Fault, serverVars, worldVars
<1>2. Numbered' /\ OneChunk' /\ InOrder' /\ Vouched' /\ HeldByClient'
  BY DEF StreamInv, ClientDrops, Numbered, OneChunk, InOrder, Vouched, HeldByClient, Sent,
         Carried, serverVars
<1> QED
  BY <1>1, <1>2 DEF StreamInv

(* What happens outside the stream leaves its books alone.                  *)
LEMMA WorldKeepsInv ==
    ASSUME StreamInv,
           \/ \E n \in Node, key \in Key : AnalyticsChange(n, key)
           \/ \E ids \in SUBSET Node : ViewChange(ids)
           \/ UNCHANGED vars
    PROVE  StreamInv'
<1>1. UNCHANGED <<serverVars, linkVars>>
  BY DEF AnalyticsChange, ViewChange, vars
<1>2. Numbered' /\ OneChunk' /\ InOrder' /\ Vouched' /\ HeldByClient'
  BY <1>1 DEF StreamInv, Numbered, OneChunk, InOrder, Vouched, HeldByClient, Sent, Carried,
              serverVars, linkVars
<1>3. TypeOK'
  <2>1. CASE \E n \in Node, key \in Key : AnalyticsChange(n, key)
    <3> PICK n \in Node, key \in Key : AnalyticsChange(n, key)
      BY <2>1
    <3>1. [cache EXCEPT ![n].key = key] \in [Node -> Value]
      BY DEF StreamInv, TypeOK, Value
    <3> QED
      BY <3>1, ChangeType DEF StreamInv, TypeOK, AnalyticsChange, serverVars, linkVars
  <2>2. CASE \E ids \in SUBSET Node : ViewChange(ids)
    BY <2>2, ChangeType DEF StreamInv, TypeOK, ViewChange, serverVars, linkVars
  <2>3. CASE UNCHANGED vars
    BY <2>3 DEF StreamInv, TypeOK, vars, serverVars, linkVars, worldVars
  <2> QED
    BY <2>1, <2>2, <2>3
<1> QED
  BY <1>2, <1>3 DEF StreamInv

LEMMA StreamStep == StreamInv /\ [Next]_vars => StreamInv'
<1> SUFFICES ASSUME StreamInv, [Next]_vars PROVE StreamInv'
  OBVIOUS
<1>1. CASE \E ids \in SUBSET Node : \E at \in [ids -> Pos] : PublishPositions(ids, at)
  BY <1>1, PublishKeepsInv
<1>2. CASE \/ \E n \in Node, key \in Key : AnalyticsChange(n, key)
           \/ \E ids \in SUBSET Node : ViewChange(ids)
           \/ UNCHANGED vars
  BY <1>2, WorldKeepsInv
<1>3. CASE \E s \in Settings : ConfigureStream(s)
  BY <1>3, ConfigureKeepsInv
<1>4. CASE Timer
  BY <1>4, TimerKeepsInv
<1>5. CASE ClientBroadcastAck
  BY <1>5, AckKeepsInv
<1>6. CASE ClientApplies
  BY <1>6, ApplyKeepsInv
<1>7. CASE ClientDrops
  BY <1>7, DropKeepsInv
<1> QED
  BY <1>1, <1>2, <1>3, <1>4, <1>5, <1>6, <1>7 DEF Next

(* The variables of the stream keep their types.                            *)
THEOREM StreamTypeCorrect == Spec => []TypeOK
<1>1. StreamInv => TypeOK
  BY DEF StreamInv
<1> QED
  BY <1>1, StreamInit, StreamStep, PTL DEF Spec

(* Whatever is late, lost, superseded or aged out, what the server has on   *)
(* record for a client is what the client shows, or something later is.     *)
THEOREM HeldIsHeld == Spec => []HeldByClient
<1>1. StreamInv => HeldByClient
  BY DEF StreamInv
<1> QED
  BY <1>1, StreamInit, StreamStep, PTL DEF Spec

===============================================================================
