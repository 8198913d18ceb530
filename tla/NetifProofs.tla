---------------------------- MODULE NetifProofs ----------------------------
(***************************************************************************)
(* The invariants of Netif hold for every number of frames, slots, buffers *)
(* and sequence numbers.  The heart of the argument: a slot is held by one *)
(* caller (HandleHonoured), no packet on the wire is newer than the one    *)
(* its slot stands for (NewestInSlot), and two numbers less than SEQ apart *)
(* that agree modulo SEQ are equal (SameNumber).                           *)
(***************************************************************************)
EXTENDS NetifProperties, FiniteSetTheorems, TLAPS

USE NetifAssumption DEF MAX_UNCLAIMED_PACKETS, Slots, Buffers, NULL, Frames

\* A sequence number tells apart packets that are less than SEQ numbers away.
LEMMA SameNumber ==
  ASSUME NEW a \in Nat, NEW b \in Nat, a <= b, b - a < SEQ, a % SEQ = b % SEQ
  PROVE  a = b
  <1> DEFINE q == a \div SEQ
             r == b \div SEQ
  <1>1. a = SEQ * q + (a % SEQ) /\ b = SEQ * r + (b % SEQ) /\ q \in Int /\ r \in Int
    OBVIOUS
  <1> HIDE DEF q, r
  <1>2. b - a = SEQ * r - SEQ * q
    BY <1>1, a % SEQ \in Int, b % SEQ \in Int
  <1>3. SEQ * r - SEQ * q = SEQ * (r - q)
    BY <1>1
  <1>4. CASE r <= q
    BY <1>1, <1>2, <1>3, <1>4
  <1>5. CASE r >= q + 1
    <2>1. SEQ * (r - q) >= SEQ * 1
      BY <1>1, <1>5
    <2> QED
      BY <1>2, <1>3, <2>1
  <1> QED
    BY <1>1, <1>4, <1>5

\* The slots in use are finitely many; one more or one less changes their number by one.
LEMMA Slotted ==
  ASSUME NEW S \in SUBSET Slots, NEW s \in Slots
  PROVE  /\ IsFiniteSet(S) /\ Cardinality(S) \in Nat
         /\ s \notin S => Cardinality(S \cup {s}) = Cardinality(S) + 1
         /\ s \in S => Cardinality(S \ {s}) = Cardinality(S) - 1
  <1>1. IsFiniteSet(Slots)
    BY FS_Interval
  <1>2. IsFiniteSet(S)
    BY <1>1, FS_Subset
  <1> QED
    BY <1>2, FS_CardinalityType, FS_AddElement, FS_RemoveElement

\* With every buffer owned and the limit kept, neither a buffer nor a slot is missing.
LEMMA Enough == TypeOK /\ BuffersOwned /\ UnclaimedCounted => NeverStarved
  <1> SUFFICES ASSUME TypeOK, BuffersOwned, UnclaimedCounted PROVE NeverStarved
    OBVIOUS
  <1> USE DEF TypeOK
  <1>1. Outstanding \in SUBSET Slots /\ IsFiniteSet(Outstanding)
    BY Slotted DEF Outstanding
  <1>2. Cardinality(Outstanding) \in Nat
    BY <1>1, FS_CardinalityType
  <1>3. Cardinality(Outstanding) < BUF_LIST_SIZE
    BY <1>2 DEF UnclaimedCounted
  <1>4. ASSUME input = NULL PROVE \E b \in Buffers : buf_list[b].is_free
    <2> SUFFICES ASSUME \A b \in Buffers : ~buf_list[b].is_free PROVE FALSE
      OBVIOUS
    <2> DEFINE g == [b \in Buffers |-> CHOOSE s \in Slots : pkt_list[s].buf = b]
    <2>1. ASSUME NEW b \in Buffers PROVE g[b] \in Slots /\ pkt_list[g[b]].buf = b
      <3>1. \E s \in Slots : pkt_list[s].buf = b
        <4>1. b # input
          BY <1>4
        <4> QED
          BY <4>1 DEF BuffersOwned
      <3> QED
        BY <3>1
    <2> HIDE DEF g
    <2>2. ASSUME NEW b \in Buffers PROVE g[b] \in Outstanding
      <3> HIDE DEF TypeOK
      <3>1. g[b] \in Slots /\ pkt_list[g[b]].buf # NULL
        <4>1. g[b] \in Slots /\ pkt_list[g[b]].buf = b
          BY <2>1
        <4>2. b # NULL
          OBVIOUS
        <4> QED
          BY <4>1, <4>2
      <3>2. \A u \in Answered : pkt_list[u].frame # NULL
        BY DEF BuffersOwned
      <3> QED
        BY <3>1, <3>2 DEF Answered, Outstanding
    <2>3. g \in [Buffers -> Outstanding]
      BY <2>2 DEF g
    <2>4. \A b, c \in Buffers : g[b] = g[c] => b = c
      BY <2>1
    <2>5. g \in Injection(Buffers, Outstanding)
      BY <2>3, <2>4 DEF Injection, IsInjective
    <2>6. Cardinality(Buffers) <= Cardinality(Outstanding)
      BY <1>1, <2>5, FS_Injection
    <2>7. Cardinality(Buffers) = BUF_LIST_SIZE
      BY FS_Interval
    <2> QED
      BY <1>2, <1>3, <2>6, <2>7
  <1>5. Free # {}
    <2> SUFFICES ASSUME Free = {} PROVE FALSE
      OBVIOUS
    <2>1. Outstanding = Slots
      BY DEF Free, Outstanding
    <2>2. Cardinality(Slots) = PKT_LIST_SIZE
      BY FS_Interval
    <2> QED
      BY <1>2, <1>3, <2>1, <2>2
  <1> QED
    BY <1>4, <1>5 DEF NeverStarved

\* The invariant holds when the interface is attached.
LEMMA InitInv == Init => IInv
  <1> SUFFICES ASSUME Init PROVE IInv
    OBVIOUS
  <1> USE DEF Init, FreeSlot, FreeBuffer
  <1>1. TypeOK
    <2>1. 0 \in Slots /\ FreeSlot.frame = NULL
      OBVIOUS
    <2>2. FreeSlot \in [frame : Frames \cup {NULL}, num : Nat, buf : Buffers \cup {NULL}]
      OBVIOUS
    <2>3. FreeBuffer \in [is_free : BOOLEAN, num : Nat, ok : BOOLEAN]
      OBVIOUS
    <2>4. /\ pkt_list \in [Slots -> [frame : Frames \cup {NULL}, num : Nat, buf : Buffers \cup {NULL}]]
          /\ buf_list \in [Buffers -> [is_free : BOOLEAN, num : Nat, ok : BOOLEAN]]
      BY <2>2, <2>3
    <2>5. handle \in [Frames -> [slot : Slots, num : Nat]] /\ wire \subseteq [slot : Slots, num : Nat]
      BY <2>1
    <2>6. collecting \in BOOLEAN
      OBVIOUS
    <2>7. /\ chunk \in 0..Chunks /\ pc \in [Frames -> {"idle", "sent", "waiting"}]
          /\ received \in [Frames -> Nat \cup {NULL}]
      OBVIOUS
    <2> QED
      BY <2>1, <2>4, <2>5, <2>6, <2>7 DEF TypeOK
  <1>2. Outstanding = {} /\ Answered = {}
    BY DEF Outstanding, Answered
  <1>3. BuffersOwned
    BY <1>2 DEF BuffersOwned
  <1>4. UnclaimedCounted
    BY <1>2, FS_EmptySet DEF UnclaimedCounted
  <1>5. OwnReply /\ HandleHonoured /\ NewestInSlot /\ ChunksOut
    BY <1>2 DEF OwnReply, HandleHonoured, NewestInSlot, ChunksOut
  <1> QED
    BY <1>1, <1>3, <1>4, <1>5 DEF IInv
-----------------------------------------------------------------------------
\* Every caller with a packet out finds it under its handle.
LEMMA Found ==
  ASSUME IInv, NEW f \in Frames, pc[f] # "idle"
  PROVE  /\ Known(f) /\ handle[f].slot \in Outstanding
         /\ Reply(f) = pkt_list[handle[f].slot].buf
  BY DEF IInv, TypeOK, HandleHonoured, Known, Reply, Outstanding

\* A transmission takes a free slot for a frame that has no packet out.
LEMMA SendInv ==
  ASSUME IInv, NEW f \in Frames, Send(f)
  PROVE  IInv'
  <1> USE DEF IInv
  <1>1. PICK s \in Slots : Takes(s) /\ Transmit(f, s)
    BY DEF Send
  <1>2. pkt_list[s].frame = NULL /\ pc[f] = "idle" /\ unclaimed < MAX_UNCLAIMED_PACKETS
    BY <1>1 DEF Takes, Free, Send, MaySend, Room
  <1> DEFINE n == sent + 1
  <1>3. n \in Nat /\ n > sent /\ n = sent'
    BY <1>1 DEF Transmit, TypeOK
  <1>4. /\ pkt_list' = [pkt_list EXCEPT ![s] = [frame |-> f, num |-> n, buf |-> NULL]]
        /\ wire' = wire \cup {[slot |-> s, num |-> n]}
        /\ handle' = [handle EXCEPT ![f] = [slot |-> s, num |-> n]]
        /\ pc' = [pc EXCEPT ![f] = "sent"]
        /\ unclaimed' = unclaimed + 1 /\ UNCHANGED <<buf_list, input, lost>>
    BY <1>1, <1>3 DEF Transmit, Send
  <1> HIDE DEF n
  <1>5. pkt_list[s].buf = NULL
    BY <1>2 DEF BuffersOwned, Answered
  <1>6. /\ Outstanding' = Outstanding \cup {s} /\ s \notin Outstanding
        /\ Answered' = Answered /\ s \notin Answered /\ Outstanding \in SUBSET Slots
    <2>1. /\ pkt_list'[s].frame = f /\ pkt_list'[s].buf = NULL
          /\ \A u \in Slots : u # s => pkt_list'[u] = pkt_list[u]
      <3>1. pkt_list \in [Slots -> [frame : Frames \cup {NULL}, num : Nat, buf : Buffers \cup {NULL}]]
        BY DEF TypeOK
      <3> QED
        BY <1>4, <3>1
    <2>2. f # NULL
      BY DEF Frames, NULL
    <2>3. Outstanding' = Outstanding \cup {s} /\ s \notin Outstanding
      BY <1>2, <2>1, <2>2 DEF Outstanding
    <2>4. Answered' = Answered /\ s \notin Answered
      BY <1>5, <2>1 DEF Answered
    <2> QED
      BY <2>3, <2>4 DEF Outstanding
  <1>7. /\ pkt_list'[s].frame = f /\ pkt_list'[s].num = n
        /\ \A u \in Slots : u # s => pkt_list'[u] = pkt_list[u]
        /\ handle'[f].slot = s /\ handle'[f].num = n /\ pc'[f] # "idle"
        /\ \A g \in Frames : g # f => handle'[g] = handle[g] /\ pc'[g] = pc[g]
    BY <1>4 DEF TypeOK
  <1>8. TypeOK'
    <2>1. next_pkt_index' \in Slots
      <3>1. next_pkt_index' = (next_pkt_index + 1) % PKT_LIST_SIZE
        BY <1>1 DEF Transmit
      <3> QED
        BY <3>1 DEF TypeOK
    <2>2. chunk' \in 0..Chunks
      BY DEF Send, TypeOK
    <2>3. collecting' \in BOOLEAN
      BY DEF Send
    <2>4. pkt_list' \in [Slots -> [frame : Frames \cup {NULL}, num : Nat, buf : Buffers \cup {NULL}]]
      BY <1>3, <1>4 DEF TypeOK
    <2>5. handle' \in [Frames -> [slot : Slots, num : Nat]]
      BY <1>3, <1>4 DEF TypeOK
    <2>6. wire' \subseteq [slot : Slots, num : Nat]
      <3>1. wire \subseteq [slot : Slots, num : Nat]
        BY DEF TypeOK
      <3>2. [slot |-> s, num |-> n] \in [slot : Slots, num : Nat]
        BY <1>3
      <3> QED
        BY <1>4, <3>1, <3>2
    <2>7. pc' \in [Frames -> {"idle", "sent", "waiting"}]
      BY <1>4 DEF TypeOK
    <2>8. buf_list' \in [Buffers -> [is_free : BOOLEAN, num : Nat, ok : BOOLEAN]]
      BY <1>4 DEF TypeOK
    <2>9. unclaimed' \in Nat /\ sent' \in Nat /\ lost' \in Nat /\ input' \in Buffers \cup {NULL}
      BY <1>3, <1>4 DEF TypeOK
    <2>10. received' \in [Frames -> Nat \cup {NULL}]
      BY DEF Send, TypeOK
    <2> QED
      BY <2>1, <2>2, <2>3, <2>4, <2>5, <2>6, <2>7, <2>8, <2>9, <2>10 DEF TypeOK
  <1>9. BuffersOwned'
    BY <1>4, <1>5, <1>6, <1>7 DEF BuffersOwned, Answered
  <1>10. UnclaimedCounted'
    <2>1. Cardinality(Outstanding \cup {s}) = Cardinality(Outstanding) + 1
      BY <1>6, Slotted
    <2> QED
      <3>1. Cardinality(Outstanding) \in Nat
        BY <1>6, Slotted
      <3>2. Cardinality(Outstanding') = Cardinality(Outstanding) + 1
        BY <1>6, <2>1
      <3>3. unclaimed' <= MAX_UNCLAIMED_PACKETS
        BY <1>2, <1>4 DEF TypeOK
      <3>4. unclaimed' = Cardinality(Outstanding') + lost'
        BY <1>4, <3>1, <3>2 DEF UnclaimedCounted, TypeOK
      <3> QED
        BY <3>3, <3>4 DEF UnclaimedCounted
  <1>11. OwnReply'
    BY <1>4, <1>6, <1>7 DEF OwnReply, Answered
  <1>12. HandleHonoured'
    <2>1. ASSUME NEW g \in Frames, g # f, pc[g] # "idle"
          PROVE  /\ handle[g].slot # s /\ handle[g].slot \in Slots
                 /\ pkt_list[handle[g].slot].frame = g
                 /\ pkt_list[handle[g].slot].num = handle[g].num
      <3>1. pkt_list[handle[g].slot].frame = g /\ pkt_list[handle[g].slot].num = handle[g].num
        BY <2>1 DEF HandleHonoured
      <3>2. handle[g].slot \in Slots
        BY DEF TypeOK
      <3> QED
        BY <1>2, <3>1, <3>2
    <2>2. ASSUME NEW u \in Outstanding PROVE pkt_list[u].frame # f
      BY <1>2, <2>2 DEF HandleHonoured
    <2>3. \A u \in Outstanding : pkt_list[u].frame \in Frames
      BY DEF Outstanding, TypeOK
    <2> QED
      BY <1>6, <1>7, <2>1, <2>2, <2>3 DEF HandleHonoured
  <1>13. NewestInSlot'
    <2>1. sent \in Nat /\ \A p \in wire : p.num \in Nat /\ p.slot \in Slots
      BY DEF TypeOK
    <2>2. ASSUME NEW p \in wire
          PROVE  p.num <= sent' /\ (p.slot \in Outstanding' => p.num <= pkt_list'[p.slot].num)
      BY <1>3, <1>6, <1>7, <2>1 DEF NewestInSlot
    <2>3. ASSUME NEW u \in Outstanding' PROVE pkt_list'[u].num <= sent'
      <3>1. u \in Outstanding => pkt_list[u].num <= sent /\ pkt_list[u].num \in Nat
        BY DEF NewestInSlot, Outstanding, TypeOK
      <3> QED
        BY <1>3, <1>6, <1>7, <2>1, <3>1
    <2>4. ASSUME NEW p, p = [slot |-> s, num |-> n]
          PROVE  p.num <= sent' /\ p.num <= pkt_list'[p.slot].num
      BY <1>3, <1>7, <2>4
    <2> QED
      BY <1>4, <2>2, <2>3, <2>4 DEF NewestInSlot
  <1>14. ChunksOut'
    <2>1. CASE f <= Chunks
      <3>1. chunk' = f /\ f = chunk + 1 /\ chunk \in Nat
        BY <2>1 DEF Send, MaySend, TypeOK
      <3> QED
        BY <1>7, <2>1, <3>1 DEF ChunksOut
    <2>2. CASE f > Chunks
      <3>1. chunk' = chunk /\ Chunks \in Nat /\ chunk \in Nat /\ chunk <= Chunks
        BY <2>2 DEF Send, TypeOK
      <3>2. \A g \in 1 .. Chunks : g \in Frames /\ g # f
        BY <2>2
      <3> QED
        BY <1>7, <3>1, <3>2 DEF ChunksOut
    <2> QED
      BY <2>1, <2>2
  <1> QED
    BY <1>8, <1>9, <1>10, <1>11, <1>12, <1>13, <1>14

\* A caller gives its slot back, with the buffer of the reply when there is one:
\* the packet is no longer counted, or it is counted among the rejected replies.
LEMMA ReturnInv ==
  ASSUME IInv, NEW f \in Frames, MayReceive(f), Return(f),
         pkt_list' = [pkt_list EXCEPT ![handle[f].slot] = FreeSlot],
         buf_list' = [b \in Buffers |-> IF b = Reply(f) THEN FreeBuffer ELSE buf_list[b]],
         \/ unclaimed' = unclaimed - 1 /\ lost' = lost
         \/ unclaimed' = unclaimed /\ lost' = lost + 1,
         received' \in [Frames -> Nat \cup {NULL}],
         UNCHANGED <<next_pkt_index, sent, input, wire>>
  PROVE  IInv'
  <1> USE DEF IInv
  <1> DEFINE s == handle[f].slot
             b == pkt_list[s].buf
  <1>1. pc[f] # "idle" /\ Reply(f) = b /\ s \in Outstanding /\ s \in Slots
    BY Found DEF MayReceive, TypeOK
  <1>2. pkt_list[s].frame = f
    BY <1>1 DEF HandleHonoured
  <1>3. \A u \in Slots : u # s => pkt_list'[u] = pkt_list[u]
    OBVIOUS
  <1>4. pkt_list'[s].frame = NULL /\ pkt_list'[s].buf = NULL
    BY <1>1 DEF TypeOK, FreeSlot
  <1>5. buf_list' = [c \in Buffers |-> IF c = b THEN FreeBuffer ELSE buf_list[c]]
    BY <1>1
  <1>6. pc' = [pc EXCEPT ![f] = "idle"] /\ handle' = handle
    BY DEF Return
  <1> HIDE DEF s, b
  <1>7. Outstanding' = Outstanding \ {s} /\ Answered' = Answered \ {s}
    BY <1>1, <1>3, <1>4 DEF Outstanding, Answered
  <1>8. /\ IsFiniteSet(Outstanding) /\ Cardinality(Outstanding) \in Nat
        /\ Cardinality(Outstanding \ {s}) = Cardinality(Outstanding) - 1
    BY <1>1, Slotted DEF Outstanding
  <1>9. Cardinality(Outstanding \ {s}) \in Nat
    BY <1>8, FS_RemoveElement, FS_CardinalityType
  <1>10. unclaimed' = Cardinality(Outstanding') + lost' /\ unclaimed' \in Nat /\ lost' \in Nat
    <2> DEFINE m == Cardinality(Outstanding)
    <2>1. m - 1 = Cardinality(Outstanding') /\ m \in Nat /\ m - 1 \in Nat
      BY <1>7, <1>8, <1>9
    <2>2. unclaimed = m + lost /\ lost \in Nat
      BY DEF UnclaimedCounted, TypeOK
    <2> HIDE DEF m
    <2> QED
      BY <2>1, <2>2
  <1>11. TypeOK'
    <2>1. pkt_list' \in [Slots -> [frame : Frames \cup {NULL}, num : Nat, buf : Buffers \cup {NULL}]]
      BY DEF TypeOK, FreeSlot
    <2>2. buf_list' \in [Buffers -> [is_free : BOOLEAN, num : Nat, ok : BOOLEAN]]
      BY <1>5 DEF TypeOK, FreeBuffer
    <2>3. pc' \in [Frames -> {"idle", "sent", "waiting"}] /\ handle' \in [Frames -> [slot : Slots, num : Nat]]
      BY <1>6 DEF TypeOK
    <2>4. chunk' \in 0..Chunks
      BY <1>1 DEF Return, MayReceive, TypeOK
    <2>5. collecting' \in BOOLEAN
      <3>1. CASE f <= Chunks
        BY <3>1 DEF Return
      <3>2. CASE ~(f <= Chunks)
        BY <3>2 DEF Return, TypeOK
      <3> QED
        BY <3>1, <3>2
    <2> QED
      BY <1>10, <2>1, <2>2, <2>3, <2>4, <2>5 DEF TypeOK
  <1>12. BuffersOwned'
    <2>1. ASSUME NEW c \in Buffers
          PROVE  ~buf_list'[c].is_free <=> c = input' \/ \E u \in Slots : pkt_list'[u].buf = c
      <3>1. CASE c = b
        <4>1. s \in Answered
          BY <1>1, <3>1 DEF Answered, b
        <4>2. c # input /\ \A u \in Slots : u # s => pkt_list[u].buf # c
          BY <4>1, <3>1 DEF BuffersOwned, Answered, b
        <4>3. buf_list'[c].is_free
          BY <1>5, <3>1 DEF FreeBuffer
        <4> QED
          BY <1>3, <1>4, <4>2, <4>3
      <3>2. CASE c # b
        <4>1. buf_list'[c] = buf_list[c]
          BY <1>5, <3>2
        <4>2. (\E u \in Slots : pkt_list'[u].buf = c) <=> (\E u \in Slots : pkt_list[u].buf = c)
          BY <1>1, <1>3, <1>4, <3>2 DEF b
        <4> QED
          BY <4>1, <4>2 DEF BuffersOwned
      <3> QED
        BY <3>1, <3>2
    <2>2. \A u \in Answered' : u \in Answered /\ pkt_list'[u] = pkt_list[u]
      BY <1>3, <1>7 DEF Answered
    <2> QED
      BY <2>1, <2>2 DEF BuffersOwned
  <1>13. UnclaimedCounted'
    <2>1. unclaimed' <= unclaimed
      BY DEF TypeOK
    <2>2. unclaimed \in Nat /\ unclaimed <= MAX_UNCLAIMED_PACKETS /\ MAX_UNCLAIMED_PACKETS \in Int
      BY DEF UnclaimedCounted, TypeOK
    <2>3. unclaimed' <= MAX_UNCLAIMED_PACKETS
      BY <1>10, <2>1, <2>2
    <2> QED
      BY <1>10, <2>3 DEF UnclaimedCounted
  <1>14. OwnReply'
    <2>1. ASSUME NEW u \in Answered'
          PROVE  u \in Answered /\ pkt_list'[u] = pkt_list[u] /\ pkt_list[u].buf # b /\ pkt_list[u].buf \in Buffers
      <3>1. u \in Answered /\ u # s /\ pkt_list'[u] = pkt_list[u]
        BY <1>3, <1>7 DEF Answered
      <3>2. pkt_list[u].buf \in Buffers
        BY <3>1 DEF Answered, TypeOK
      <3> QED
        BY <1>1, <3>1, <3>2 DEF BuffersOwned, Answered, b
    <2> QED
      BY <1>5, <2>1 DEF OwnReply
  <1>15. HandleHonoured'
    <2>1. ASSUME NEW g \in Frames, pc'[g] # "idle"
          PROVE  /\ pkt_list'[handle'[g].slot].frame = g
                 /\ pkt_list'[handle'[g].slot].num = handle'[g].num
      <3>1. g # f /\ pc[g] # "idle"
        BY <1>6, <2>1 DEF TypeOK
      <3>2. pkt_list[handle[g].slot].frame = g /\ pkt_list[handle[g].slot].num = handle[g].num
        BY <3>1 DEF HandleHonoured
      <3> QED
        BY <1>2, <1>3, <1>6, <3>1, <3>2 DEF TypeOK
    <2>2. ASSUME NEW u \in Outstanding'
          PROVE  pc'[pkt_list'[u].frame] # "idle" /\ handle'[pkt_list'[u].frame].slot = u
      <3>1. u \in Outstanding /\ u # s /\ pkt_list'[u] = pkt_list[u]
        BY <1>3, <1>7 DEF Outstanding
      <3>2. pc[pkt_list[u].frame] # "idle" /\ handle[pkt_list[u].frame].slot = u
        BY <3>1 DEF HandleHonoured
      <3>3. pkt_list[u].frame # f /\ pkt_list[u].frame \in Frames
        BY <3>1, <3>2 DEF s, Outstanding, TypeOK
      <3> QED
        BY <1>6, <3>1, <3>2, <3>3
    <2> QED
      BY <2>1, <2>2 DEF HandleHonoured
  <1>16. NewestInSlot'
    BY <1>3, <1>7 DEF NewestInSlot, Outstanding
  <1>17. ChunksOut'
    <2>1. CASE f <= Chunks
      <3>1. chunk' = chunk - 1 /\ f = chunk /\ chunk \in Nat
        BY <2>1 DEF Return, MayReceive, TypeOK
      <3>2. ASSUME NEW g \in Frames, g <= Chunks
            PROVE  pc'[g] # "idle" <=> g <= chunk'
        <4>1. g \in Nat /\ (pc[g] # "idle" <=> g <= chunk)
          BY <3>2 DEF ChunksOut
        <4>2. CASE g = f
          <5>1. pc'[g] = "idle"
            BY <1>6, <4>2 DEF TypeOK
          <5>2. ~(g <= chunk')
            BY <3>1, <4>2
          <5> QED
            BY <5>1, <5>2
        <4>3. CASE g # f
          <5>1. pc'[g] = pc[g]
            BY <1>6, <4>3
          <5> QED
            BY <3>1, <4>1, <4>3, <5>1
        <4> QED
          BY <4>2, <4>3
      <3> QED
        BY <3>2 DEF ChunksOut
    <2>2. CASE f > Chunks
      BY <1>6, <2>2 DEF ChunksOut, Return, TypeOK
    <2> QED
      BY <2>1, <2>2
  <1> QED
    BY <1>11, <1>12, <1>13, <1>14, <1>15, <1>16, <1>17

\* The input thread attaches a reply to the slot it names: the packet is the one
\* the slot stands for, as it is neither newer nor SEQ numbers older.
LEMMA ArriveInv ==
  ASSUME IInv, NEW p \in wire, NEW ok \in BOOLEAN, Arrive(p, ok)
  PROVE  IInv'
  <1> USE DEF IInv
  <1> DEFINE s == p.slot
  <1>1. s \in Slots /\ p.num \in Nat /\ input \in Buffers /\ sent \in Nat
    BY DEF Arrive, TypeOK
  <1>2. pkt_list[s].frame # NULL /\ pkt_list[s].buf = NULL
    BY DEF Arrive, Accepts
  <1>3. pkt_list' = [pkt_list EXCEPT ![s].buf = input] /\ input' = NULL
    BY DEF Arrive
  <1>4. buf_list' = [buf_list EXCEPT ![input] = [is_free |-> FALSE, num |-> p.num, ok |-> ok]]
    BY DEF Arrive
  <1>5. UNCHANGED <<next_pkt_index, unclaimed, sent, wire, lost, pc, handle, received, chunk, collecting>>
    BY DEF Arrive
  <1>6. pkt_list[s].num = p.num
    <2>1. s \in Outstanding /\ pkt_list[s].num \in Nat
      BY <1>1, <1>2 DEF Outstanding, TypeOK
    <2>2. p.num <= pkt_list[s].num /\ pkt_list[s].num <= sent
      BY <2>1 DEF NewestInSlot
    <2>3. p.num % SEQ = pkt_list[s].num % SEQ /\ sent - p.num < SEQ
      BY DEF Arrive, Accepts
    <2>4. pkt_list[s].num - p.num < SEQ
      BY <1>1, <2>1, <2>2, <2>3
    <2> HIDE DEF s
    <2> QED
      BY <1>1, <2>1, <2>2, <2>3, <2>4, SameNumber
  <1>7. \A u \in Slots : u # s => pkt_list'[u] = pkt_list[u]
    BY <1>3
  <1>8. pkt_list'[s].frame = pkt_list[s].frame /\ pkt_list'[s].num = p.num /\ pkt_list'[s].buf = input
    BY <1>1, <1>3, <1>6 DEF TypeOK
  <1>9. \A u \in Slots : pkt_list'[u].frame = pkt_list[u].frame /\ pkt_list'[u].num = pkt_list[u].num
    BY <1>6, <1>7, <1>8
  <1> HIDE DEF s
  <1>10. Outstanding' = Outstanding /\ Answered' = Answered \cup {s} /\ s \notin Answered
    <2>1. Outstanding' = Outstanding
      BY <1>9 DEF Outstanding
    <2>2. Answered' = Answered \cup {s} /\ s \notin Answered
      BY <1>1, <1>2, <1>7, <1>8 DEF Answered
    <2> QED
      BY <2>1, <2>2
  <1>11. \A u \in Answered : pkt_list[u].buf # input
    BY DEF BuffersOwned
  <1>12. TypeOK'
    <2>1. pkt_list' \in [Slots -> [frame : Frames \cup {NULL}, num : Nat, buf : Buffers \cup {NULL}]]
      <3>1. pkt_list \in [Slots -> [frame : Frames \cup {NULL}, num : Nat, buf : Buffers \cup {NULL}]]
        BY DEF TypeOK
      <3>2. [pkt_list[s] EXCEPT !.buf = input]
              \in [frame : Frames \cup {NULL}, num : Nat, buf : Buffers \cup {NULL}]
        BY <1>1, <3>1
      <3>3. pkt_list' = [pkt_list EXCEPT ![s] = [pkt_list[s] EXCEPT !.buf = input]]
        BY <1>3
      <3> QED
        BY <1>1, <3>1, <3>2, <3>3
    <2>2. buf_list' \in [Buffers -> [is_free : BOOLEAN, num : Nat, ok : BOOLEAN]]
      BY <1>1, <1>4 DEF TypeOK
    <2> QED
      BY <1>3, <1>5, <2>1, <2>2 DEF TypeOK
  <1>13. BuffersOwned'
    <2>1. ASSUME NEW c \in Buffers
          PROVE  ~buf_list'[c].is_free <=> c = input' \/ \E u \in Slots : pkt_list'[u].buf = c
      <3>1. CASE c = input
        BY <1>1, <1>4, <1>8, <3>1 DEF TypeOK
      <3>2. CASE c # input
        <4>1. buf_list'[c] = buf_list[c]
          BY <1>4, <3>2
        <4>2. (\E u \in Slots : pkt_list'[u].buf = c) <=> (\E u \in Slots : pkt_list[u].buf = c)
          BY <1>1, <1>2, <1>7, <1>8, <3>2
        <4> QED
          BY <1>3, <3>2, <4>1, <4>2 DEF BuffersOwned
      <3> QED
        BY <3>1, <3>2
    <2>2. \A u \in Answered' : pkt_list'[u].buf # input' /\ pkt_list'[u].frame # NULL
      BY <1>1, <1>2, <1>3, <1>7, <1>8, <1>10 DEF BuffersOwned, Answered
    <2>3. \A u, v \in Answered' : pkt_list'[u].buf = pkt_list'[v].buf => u = v
      BY <1>1, <1>7, <1>8, <1>10, <1>11 DEF BuffersOwned, Answered
    <2> QED
      BY <2>1, <2>2, <2>3 DEF BuffersOwned
  <1>14. UnclaimedCounted'
    BY <1>5, <1>10 DEF UnclaimedCounted
  <1>15. OwnReply'
    <2>1. ASSUME NEW u \in Answered, u # s
          PROVE  buf_list'[pkt_list'[u].buf].num = pkt_list'[u].num
      <3>1. pkt_list'[u] = pkt_list[u] /\ pkt_list[u].buf \in Buffers
        BY <1>7, <2>1 DEF Answered, TypeOK
      <3> QED
        BY <1>4, <1>11, <3>1 DEF OwnReply
    <2>2. buf_list'[pkt_list'[s].buf].num = pkt_list'[s].num
      BY <1>1, <1>4, <1>8 DEF TypeOK
    <2> QED
      BY <1>10, <2>1, <2>2 DEF OwnReply
  <1>16. HandleHonoured'
    <2>1. \A g \in Frames : handle[g].slot \in Slots
      BY DEF TypeOK
    <2>2. \A g \in Frames : pc'[g] # "idle" =>
            /\ pkt_list'[handle'[g].slot].frame = g
            /\ pkt_list'[handle'[g].slot].num = handle'[g].num
      BY <1>5, <1>9, <2>1 DEF HandleHonoured
    <2>3. \A u \in Outstanding' :
            pc'[pkt_list'[u].frame] # "idle" /\ handle'[pkt_list'[u].frame].slot = u
      BY <1>5, <1>9, <1>10 DEF HandleHonoured, Outstanding
    <2> QED
      BY <2>2, <2>3 DEF HandleHonoured
  <1>17. NewestInSlot' /\ ChunksOut'
    BY <1>5, <1>9, <1>10 DEF NewestInSlot, ChunksOut, Outstanding
  <1> QED
    BY <1>12, <1>13, <1>14, <1>15, <1>16, <1>17

\* The invariant is preserved by every step.
LEMMA NextInv == IInv /\ [Next]_vars => IInv'
  <1> SUFFICES ASSUME IInv, [Next]_vars PROVE IInv'
    OBVIOUS
  <1>1. ASSUME NEW f \in Frames, Send(f) PROVE IInv'
    BY <1>1, SendInv
  <1>2. ASSUME NEW f \in Frames, SendFails(f) PROVE IInv'
    <2>1. sent' \in Nat /\ sent <= sent'
      <3>1. sent \in Nat
        BY DEF IInv, TypeOK
      <3>2. sent' = sent \/ sent' = sent + 1
        BY <1>2 DEF SendFails
      <3> QED
        BY <3>1, <3>2
    <2>2. collecting' \in BOOLEAN
      BY <1>2 DEF SendFails
    <2>3. UNCHANGED <<pkt_list, buf_list, next_pkt_index, unclaimed, input, wire, lost,
                      pc, handle, received, chunk>>
      BY <1>2 DEF SendFails
    <2>4. Outstanding' = Outstanding /\ Answered' = Answered
      BY <2>3 DEF Outstanding, Answered
    <2>5. TypeOK'
      BY <2>1, <2>2, <2>3 DEF IInv, TypeOK
    <2>6. BuffersOwned' /\ UnclaimedCounted' /\ OwnReply' /\ HandleHonoured' /\ ChunksOut'
      BY <2>3, <2>4 DEF IInv, BuffersOwned, UnclaimedCounted, OwnReply, HandleHonoured, ChunksOut
    <2>7. NewestInSlot'
      BY <2>1, <2>3, <2>4 DEF IInv, NewestInSlot, TypeOK, Outstanding
    <2> QED
      BY <2>5, <2>6, <2>7 DEF IInv
  <1>3. ASSUME NEW f \in Frames, Collect(f) PROVE IInv'
    <2>1. buf_list' = [b \in Buffers |-> IF b = Reply(f) THEN FreeBuffer ELSE buf_list[b]]
      BY <1>3 DEF Collect, IInv, TypeOK
    <2>2. received' \in [Frames -> Nat \cup {NULL}]
      <3>1. received \in [Frames -> Nat \cup {NULL}]
        BY DEF IInv, TypeOK
      <3>2. Reply(f) \in Buffers
        <4>1. pc[f] # "idle" /\ Reply(f) # NULL /\ handle[f].slot \in Slots
          BY <1>3 DEF Collect, MayReceive, IInv, TypeOK
        <4>2. Reply(f) = pkt_list[handle[f].slot].buf
          BY <4>1, Found
        <4> QED
          BY <4>1, <4>2 DEF IInv, TypeOK
      <3>3. buf_list[Reply(f)].num \in Nat
        BY <3>2 DEF IInv, TypeOK
      <3> QED
        BY <1>3, <3>1, <3>3 DEF Collect
    <2> QED
      BY <1>3, <2>1, <2>2, ReturnInv DEF Collect
  <1>4. ASSUME NEW f \in Frames, Await(f) PROVE IInv'
    <2>1. pc' = [pc EXCEPT ![f] = "waiting"] /\ pc[f] # "idle"
      BY <1>4 DEF Await, MayReceive
    <2>2. UNCHANGED <<netif, handle, received, chunk, collecting>>
      BY <1>4 DEF Await
    <2>3. \A g \in Frames : pc'[g] # "idle" <=> pc[g] # "idle"
      BY <2>1 DEF IInv, TypeOK
    <2>4. Outstanding' = Outstanding /\ Answered' = Answered
      BY <2>2 DEF Outstanding, Answered, netif
    <2>5. TypeOK'
      BY <2>1, <2>2 DEF IInv, TypeOK, netif
    <2>6. BuffersOwned' /\ UnclaimedCounted' /\ OwnReply' /\ NewestInSlot'
      BY <2>2, <2>4 DEF IInv, BuffersOwned, UnclaimedCounted, OwnReply, NewestInSlot, netif
    <2>7. HandleHonoured'
      <3>1. UNCHANGED <<pkt_list, handle>>
        BY <2>2 DEF netif
      <3>2. \A u \in Outstanding : pkt_list[u].frame \in Frames
        BY DEF IInv, Outstanding, TypeOK
      <3> QED
        BY <2>3, <2>4, <3>1, <3>2 DEF IInv, HandleHonoured
    <2>8. ChunksOut'
      BY <2>2, <2>3 DEF IInv, ChunksOut
    <2> QED
      BY <2>5, <2>6, <2>7, <2>8 DEF IInv
  <1>5. ASSUME NEW f \in Frames, GiveUp(f) PROVE IInv'
    <2>1. pc[f] # "idle"
      BY <1>5 DEF GiveUp, MayReceive
    <2>2. Known(f)
      BY <2>1, Found
    <2>3. received' \in [Frames -> Nat \cup {NULL}]
      BY <1>5 DEF GiveUp, IInv, TypeOK
    <2> QED
      BY <1>5, <2>2, <2>3, ReturnInv DEF GiveUp, Release
  <1>6. CASE TakeBuffer
    <2>1. PICK b \in Buffers :
            buf_list[b].is_free /\ input' = b /\ buf_list' = [buf_list EXCEPT ![b].is_free = FALSE]
      BY <1>6 DEF TakeBuffer
    <2>2. UNCHANGED <<pkt_list, next_pkt_index, unclaimed, sent, wire, lost,
                      pc, handle, received, chunk, collecting>> /\ input = NULL
      BY <1>6 DEF TakeBuffer
    <2>3. Outstanding' = Outstanding /\ Answered' = Answered
      BY <2>2 DEF Outstanding, Answered
    <2>4. ~buf_list'[b].is_free /\ \A c \in Buffers : c # b => buf_list'[c] = buf_list[c]
      BY <2>1 DEF IInv, TypeOK
    <2>5. TypeOK'
      <3>1. buf_list' \in [Buffers -> [is_free : BOOLEAN, num : Nat, ok : BOOLEAN]]
        <4>1. buf_list \in [Buffers -> [is_free : BOOLEAN, num : Nat, ok : BOOLEAN]]
          BY DEF IInv, TypeOK
        <4>2. [buf_list[b] EXCEPT !.is_free = FALSE] \in [is_free : BOOLEAN, num : Nat, ok : BOOLEAN]
          BY <4>1
        <4>3. buf_list' = [buf_list EXCEPT ![b] = [buf_list[b] EXCEPT !.is_free = FALSE]]
          BY <2>1
        <4> QED
          BY <4>1, <4>2, <4>3
      <3> QED
        BY <2>1, <2>2, <3>1 DEF IInv, TypeOK
    <2>6. \A u \in Answered : pkt_list[u].buf # b
      BY <2>1 DEF IInv, BuffersOwned, Answered
    <2>7. BuffersOwned'
      BY <2>1, <2>2, <2>3, <2>4, <2>6 DEF IInv, BuffersOwned, Answered
    <2>8. OwnReply'
      <3>1. \A u \in Answered : pkt_list[u].buf \in Buffers /\ pkt_list[u].buf # b
        BY <2>6 DEF IInv, Answered, TypeOK
      <3> QED
        BY <2>2, <2>3, <2>4, <3>1 DEF IInv, OwnReply
    <2>9. UnclaimedCounted' /\ HandleHonoured' /\ NewestInSlot' /\ ChunksOut'
      BY <2>2, <2>3 DEF IInv, UnclaimedCounted, HandleHonoured, NewestInSlot, ChunksOut
    <2> QED
      BY <2>5, <2>7, <2>8, <2>9 DEF IInv
  <1>7. CASE Discard
    <2>1. /\ input \in Buffers /\ input' = NULL
          /\ buf_list' = [buf_list EXCEPT ![input] = FreeBuffer]
      BY <1>7 DEF Discard, IInv, TypeOK
    <2>2. UNCHANGED <<pkt_list, next_pkt_index, unclaimed, sent, wire, lost,
                      pc, handle, received, chunk, collecting>>
      BY <1>7 DEF Discard
    <2>3. Outstanding' = Outstanding /\ Answered' = Answered
      BY <2>2 DEF Outstanding, Answered
    <2>4. buf_list'[input].is_free /\ \A c \in Buffers : c # input => buf_list'[c] = buf_list[c]
      BY <2>1 DEF IInv, TypeOK, FreeBuffer
    <2>5. TypeOK'
      BY <2>1, <2>2 DEF IInv, TypeOK, FreeBuffer
    <2>6. \A u \in Slots : pkt_list[u].buf # input
      BY <2>1 DEF IInv, BuffersOwned, Answered
    <2>7. BuffersOwned'
      BY <2>1, <2>2, <2>3, <2>4, <2>6 DEF IInv, BuffersOwned, Answered
    <2>8. OwnReply'
      <3>1. \A u \in Answered : pkt_list[u].buf \in Buffers /\ pkt_list[u].buf # input
        BY <2>6 DEF IInv, Answered, TypeOK
      <3> QED
        BY <2>2, <2>3, <2>4, <3>1 DEF IInv, OwnReply
    <2>9. UnclaimedCounted' /\ HandleHonoured' /\ NewestInSlot' /\ ChunksOut'
      BY <2>2, <2>3 DEF IInv, UnclaimedCounted, HandleHonoured, NewestInSlot, ChunksOut
    <2> QED
      BY <2>5, <2>7, <2>8, <2>9 DEF IInv
  <1>8. ASSUME NEW p \in wire, NEW ok \in BOOLEAN, Arrive(p, ok) PROVE IInv'
    BY <1>8, ArriveInv
  <1>9. CASE UNCHANGED vars
    <2>1. UNCHANGED <<netif, pc, handle, received, chunk, collecting>>
      BY <1>9 DEF vars
    <2>2. UNCHANGED <<pkt_list, buf_list, next_pkt_index, unclaimed, sent, input, wire, lost>>
      BY <2>1 DEF netif
    <2>3. Outstanding' = Outstanding /\ Answered' = Answered
      BY <2>2 DEF Outstanding, Answered
    <2>4. TypeOK'
      BY <2>1, <2>2 DEF IInv, TypeOK
    <2>5. BuffersOwned' /\ UnclaimedCounted' /\ OwnReply'
      BY <2>2, <2>3 DEF IInv, BuffersOwned, UnclaimedCounted, OwnReply
    <2>6. HandleHonoured' /\ NewestInSlot' /\ ChunksOut'
      BY <2>1, <2>2, <2>3 DEF IInv, HandleHonoured, NewestInSlot, ChunksOut
    <2> QED
      BY <2>4, <2>5, <2>6 DEF IInv
  <1> QED
    BY <1>1, <1>2, <1>3, <1>4, <1>5, <1>6, <1>7, <1>8, <1>9 DEF Next, CallerStep

THEOREM Inv == Spec => []IInv
  BY InitInv, NextInv, PTL DEF Spec

-----------------------------------------------------------------------------
\* The variables keep their types: no counter goes below zero, no index out of its table.
THEOREM TypeCorrect == Spec => []TypeOK
  BY Inv, PTL DEF IInv

\* Packets, buffers and slots are accounted for, so that the input thread always
\* finds a buffer and tx is refused for its limit only (netif.h:74-75).
THEOREM AccountedAlways == Spec => []Accounted
  <1>1. IInv => Accounted
    BY Enough DEF IInv, Accounted
  <1> QED
    BY <1>1, Inv, PTL

\* A caller never collects the reply to another packet, as long as no packet
\* comes back SEQ packets late.
THEOREM OwnReplyAlways == Spec => []OwnReply
  BY Inv, PTL DEF IInv

\* A handle names its packet until its caller has collected or given it up.
THEOREM HandleHonouredAlways == Spec => []HandleHonoured
  BY Inv, PTL DEF IInv

-----------------------------------------------------------------------------
(* netif implements FrameExchange. *)

\* The packets that are out, as the callers see them and as the table has them: each
\* caller's handle names a slot of its own.
LEMMA OutFits ==
  ASSUME IInv
  PROVE  /\ Exchange!Out = {f \in Frames : pc[f] # "idle"}
         /\ Cardinality(Exchange!Out) \in Nat
         /\ Cardinality(Exchange!Out) <= Cardinality(Outstanding)
<1>1. Exchange!Out = {f \in Frames : pc[f] # "idle"}
  <2>1. \A f \in Frames : handle[f].num # NULL
    BY DEF IInv, TypeOK
  <2>2. \A f \in Frames : Requested[f] # NULL <=> pc[f] # "idle"
    BY <2>1 DEF Requested
  <2> QED
    BY <2>2 DEF Exchange!Out, Exchange!NONE
<1> DEFINE g == [f \in Exchange!Out |-> handle[f].slot]
<1>2. \A f \in Exchange!Out : handle[f].slot \in Outstanding /\ pkt_list[handle[f].slot].frame = f
  BY <1>1, Found DEF IInv, HandleHonoured
<1>3. g \in Injection(Exchange!Out, Outstanding)
  BY <1>2 DEF Injection, IsInjective
<1>4. IsFiniteSet(Frames)
  BY FS_Interval
<1>5. IsFiniteSet(Exchange!Out) /\ Cardinality(Exchange!Out) \in Nat
  BY <1>1, <1>4, FS_Subset, FS_CardinalityType
<1>6. IsFiniteSet(Outstanding)
  BY 0 \in Slots, Slotted DEF Outstanding
<1> QED
  BY <1>1, <1>3, <1>5, <1>6, FS_Injection

\* Nothing is out at first.
LEMMA RefInit == Init => Exchange!Init
  BY DEF Init, Exchange!Init, Exchange!NONE, Requested

\* The caller f and no other returns from rx: what it has out changes for it alone.
LEMMA RequestedReturn ==
  ASSUME IInv, NEW f \in Frames, Return(f)
  PROVE  Requested' = [Requested EXCEPT ![f] = NULL]
  BY DEF Requested, Return, IInv, TypeOK

\* A step of netif is a step of FrameExchange or invisible.
LEMMA RefNext == IInv /\ [Next]_vars => [Exchange!Next]_(Exchange!exchangeVars)
<1> SUFFICES ASSUME IInv, [Next]_vars PROVE [Exchange!Next]_(Exchange!exchangeVars)
  OBVIOUS
<1> USE DEF Exchange!NONE
<1>0. TypeOK
  BY DEF IInv
<1>1. ASSUME NEW f \in Frames, Send(f) PROVE Exchange!Request(f)
  <2>1. PICK s \in Slots : Transmit(f, s)
    BY <1>1 DEF Send
  <2>2. /\ pc[f] = "idle" /\ pc' = [pc EXCEPT ![f] = "sent"] /\ unclaimed < MAX_UNCLAIMED_PACKETS
        /\ handle' = [handle EXCEPT ![f] = [slot |-> s, num |-> sent']]
        /\ sent' = sent + 1 /\ received' = [received EXCEPT ![f] = NULL] /\ lost' = lost
    BY <1>1, <2>1 DEF Send, MaySend, Room, Transmit
  <2>3. Requested[f] = NULL
    BY <2>2 DEF Requested
  <2>4. Requested' = [Requested EXCEPT ![f] = sent']
    <3>1. ASSUME NEW g \in Frames
          PROVE  Requested'[g] = [Requested EXCEPT ![f] = sent'][g]
      BY <1>0, <2>2 DEF Requested, TypeOK
    <3> QED
      BY <3>1 DEF Requested
  <2>5. Cardinality(Exchange!Out) + lost < MAX_UNCLAIMED_PACKETS
    <3>1. unclaimed = Cardinality(Outstanding) + lost
      BY DEF IInv, UnclaimedCounted
    <3>2. Cardinality(Outstanding) \in Nat /\ lost \in Nat
      BY <1>0, 0 \in Slots, Slotted DEF Outstanding, TypeOK
    <3> QED
      BY <2>2, <3>1, <3>2, OutFits
  <2>6. Exchange!Cardinality(Exchange!Out) = Cardinality(Exchange!Out)
    BY Zenon DEF Cardinality, Exchange!Cardinality
  <2> QED
    BY <2>2, <2>3, <2>4, <2>5, <2>6 DEF Exchange!Request
<1>2. ASSUME NEW f \in Frames, SendFails(f)
      PROVE  Exchange!Refuse \/ UNCHANGED Exchange!exchangeVars
  BY <1>2 DEF SendFails, Exchange!Refuse, Exchange!exchangeVars, Requested
<1>3. ASSUME NEW f \in Frames, Collect(f) PROVE Exchange!Receive(f) \/ Exchange!Withdraw(f)
  <2>1. pc[f] # "idle" /\ Requested[f] = handle[f].num /\ Requested[f] # NULL
    BY <1>0, <1>3 DEF Collect, MayReceive, Requested, TypeOK
  <2>2. Requested' = [Requested EXCEPT ![f] = NULL] /\ sent' = sent
    BY <1>3, RequestedReturn DEF Collect
  <2>3. Reply(f) # NULL /\ buf_list[Reply(f)].num = handle[f].num
    <3>1. handle[f].slot \in Answered /\ Reply(f) = pkt_list[handle[f].slot].buf
      BY <1>0, <1>3, <2>1, Found DEF Collect, Answered, TypeOK
    <3>2. pkt_list[handle[f].slot].num = handle[f].num
      BY <2>1 DEF IInv, HandleHonoured
    <3> QED
      BY <1>3, <3>1, <3>2 DEF Collect, IInv, OwnReply
  <2>4. CASE buf_list[Reply(f)].ok
    <3>1. received' = [received EXCEPT ![f] = Requested[f]] /\ lost' = lost
      BY <1>3, <2>1, <2>3, <2>4 DEF Collect
    <3> QED
      BY <2>1, <2>2, <3>1 DEF Exchange!Receive
  <2>5. CASE ~buf_list[Reply(f)].ok
    <3>1. received' = received /\ lost' = lost + 1
      BY <1>3, <2>5 DEF Collect
    <3> QED
      BY <2>1, <2>2, <3>1 DEF Exchange!Withdraw
  <2> QED
    BY <2>4, <2>5
<1>4. ASSUME NEW f \in Frames, Await(f) PROVE UNCHANGED Exchange!exchangeVars
  <2>1. \A g \in Frames : pc'[g] = "idle" <=> pc[g] = "idle"
    BY <1>0, <1>4 DEF Await, MayReceive, TypeOK
  <2>2. UNCHANGED <<sent, lost, handle, received>>
    BY <1>4 DEF Await, netif
  <2>3. Requested' = Requested
    BY <2>1, <2>2 DEF Requested
  <2> QED
    BY <2>2, <2>3 DEF Exchange!exchangeVars
<1>5. ASSUME NEW f \in Frames, GiveUp(f) PROVE Exchange!Withdraw(f)
  <2>1. Requested[f] # NULL
    BY <1>0, <1>5 DEF GiveUp, MayReceive, Requested, TypeOK
  <2>2. Requested' = [Requested EXCEPT ![f] = NULL] /\ UNCHANGED <<sent, lost, received>>
    BY <1>5, RequestedReturn DEF GiveUp
  <2> QED
    BY <2>1, <2>2 DEF Exchange!Withdraw
<1>6. CASE TakeBuffer \/ Discard \/ (\E p \in wire, ok \in BOOLEAN : Arrive(p, ok)) \/ UNCHANGED vars
  <2>1. UNCHANGED <<sent, lost, pc, handle, received>>
    BY <1>6 DEF TakeBuffer, Discard, Arrive, vars, netif
  <2> QED
    BY <2>1 DEF Exchange!exchangeVars, Requested
<1> QED
  BY <1>1, <1>2, <1>3, <1>4, <1>5, <1>6 DEF Next, CallerStep, Exchange!Next

\* netif implements FrameExchange: with any number of callers, slots, buffers and
\* sequence numbers a caller is handed the reply to its own packet or nothing, and
\* what is out or rejected stays within the limit (netif.h:99-105, 146-179).
THEOREM Refinement == Spec => ImplementsFrameExchange
  BY RefInit, RefNext, Inv, PTL DEF Spec, Exchange!Spec, ImplementsFrameExchange

\* What FrameExchange itself keeps: a number is drawn for one caller and stays its own.
LEMMA UnsharedStep ==
  ASSUME Requested \in [Frames -> Nat \cup {NULL}], received \in [Frames -> Nat \cup {NULL}],
         sent \in Nat, Exchange!Unshared, [Exchange!Next]_(Exchange!exchangeVars)
  PROVE  Exchange!Unshared'
<1> USE DEF Exchange!NONE, Exchange!Unshared, Exchange!Own
<1>1. ASSUME NEW f \in Frames, Exchange!Request(f) PROVE Exchange!Unshared'
  <2>1. sent' = sent + 1 /\ Requested' = [Requested EXCEPT ![f] = sent']
        /\ received' = [received EXCEPT ![f] = NULL]
    BY <1>1 DEF Exchange!Request
  <2>2. Exchange!Own(f)' = {sent'}
    BY <2>1
  <2>3. \A g \in Frames : g # f => Exchange!Own(g)' = Exchange!Own(g)
    BY <2>1
  <2>4. \A g \in Frames : sent' \notin Exchange!Own(g) /\ Exchange!Own(g) \subseteq 1 .. sent'
    BY <2>1
  <2> HIDE DEF Exchange!Own
  <2> QED
    BY <2>1, <2>2, <2>3, <2>4
<1>2. ASSUME Exchange!Refuse PROVE Exchange!Unshared'
  <2>1. sent' = sent + 1 /\ \A g \in Frames : Exchange!Own(g)' = Exchange!Own(g)
    BY <1>2 DEF Exchange!Refuse
  <2> HIDE DEF Exchange!Own
  <2>2. 1 .. sent \subseteq 1 .. sent'
    BY <2>1
  <2> QED
    BY <2>1, <2>2
<1>3. ASSUME NEW f \in Frames, Exchange!Receive(f) \/ Exchange!Withdraw(f)
      PROVE  Exchange!Unshared'
  <2>1. \A g \in Frames : Exchange!Own(g)' \subseteq Exchange!Own(g)
    BY <1>3 DEF Exchange!Receive, Exchange!Withdraw
  <2>2. sent' = sent
    BY <1>3 DEF Exchange!Receive, Exchange!Withdraw
  <2> HIDE DEF Exchange!Own
  <2> QED
    BY <2>1, <2>2
<1>4. CASE UNCHANGED Exchange!exchangeVars
  BY <1>4 DEF Exchange!exchangeVars
<1> QED
  BY <1>1, <1>2, <1>3, <1>4 DEF Exchange!Next

\* No two callers are ever handed the reply to the same packet, though it may come
\* back twice (netif.h:189-193).
THEOREM RepliesUnsharedAlways == Spec => []RepliesUnshared
<1>1. Init => RepliesUnshared
  BY DEF Init, RepliesUnshared, Exchange!Unshared, Exchange!Own, Exchange!NONE, Requested
<1>2. IInv => /\ Requested \in [Frames -> Nat \cup {NULL}]
              /\ received \in [Frames -> Nat \cup {NULL}] /\ sent \in Nat
  BY DEF IInv, TypeOK, Requested
<1>3. IInv /\ RepliesUnshared /\ [Next]_vars => RepliesUnshared'
  BY <1>2, RefNext, UnsharedStep DEF RepliesUnshared
<1> QED
  BY <1>1, <1>3, Inv, PTL DEF Spec
-----------------------------------------------------------------------------
(* How a full table empties. *)

\* Once process data has sent its last chunk it collects; so while it does not, it
\* has a chunk left to send.
LastCollects == chunk = Chunks => collecting

\* Sending the last chunk, or failing to, turns process data to collecting.
LEMMA LastCollectsStep == IInv /\ LastCollects /\ [Next]_vars => LastCollects'
<1> SUFFICES ASSUME IInv, LastCollects, [Next]_vars PROVE LastCollects'
  OBVIOUS
<1> USE DEF LastCollects
<1>0. chunk \in 0..Chunks /\ chunk' \in 0..Chunks
  BY NextInv DEF IInv, TypeOK
<1>1. ASSUME NEW f \in Frames, Send(f) PROVE LastCollects'
  BY <1>1 DEF Send
<1>2. ASSUME NEW f \in Frames, SendFails(f) PROVE LastCollects'
  BY <1>2 DEF SendFails
<1>3. ASSUME NEW f \in Frames, Return(f) PROVE LastCollects'
  BY <1>0, <1>3 DEF Return
<1>4. ASSUME UNCHANGED <<chunk, collecting>> PROVE LastCollects'
  BY <1>4
<1> QED
  BY <1>1, <1>2, <1>3, <1>4
    DEF Next, CallerStep, Collect, Await, GiveUp, TakeBuffer, Discard, Arrive, vars

\* Process data that has sent all its chunks collects (pd_buffer txandrx's two loops).
THEOREM LastCollectsAlways == Spec => []LastCollects
<1>1. Init => LastCollects
  BY DEF Init, LastCollects
<1> QED
  BY <1>1, LastCollectsStep, Inv, PTL DEF Spec

\* A table full of packets that are out has a caller that can go on: process data
\* turns to its last chunk, or finds at its next one that it must collect.
LEMMA FullMovesOn ==
  ASSUME IInv, LastCollects, Full, lost < MAX_UNCLAIMED_PACKETS
  PROVE  SomeoneGoesOn
<1> USE DEF SomeoneGoesOn
<1>1. Outstanding # {}
  <2>1. Cardinality({}) = 0
    BY FS_EmptySet
  <2>2. unclaimed = Cardinality(Outstanding) + lost /\ lost \in Nat
    BY DEF IInv, UnclaimedCounted, TypeOK
  <2> QED
    BY <2>1, <2>2 DEF Full
<1>2. PICK s \in Outstanding : TRUE
  BY <1>1
<1> DEFINE f == pkt_list[s].frame
<1>3. f \in Frames /\ pc[f] # "idle"
  <2>1. \A u \in Outstanding : pkt_list[u].frame \in Frames
    BY DEF IInv, TypeOK, Outstanding
  <2> QED
    BY <1>2, <2>1 DEF IInv, HandleHonoured
<1> HIDE DEF f
<1>4. CASE f > Chunks
  BY <1>3, <1>4 DEF MayReceive
<1>5. CASE f <= Chunks
  <2>1. chunk \in 1..Chunks /\ f <= chunk
    <3>1. f <= chunk
      BY <1>3, <1>5 DEF IInv, ChunksOut
    <3> QED
      BY <1>3, <3>1 DEF IInv, TypeOK
  <2>2. CASE collecting
    <3>1. chunk \in Frames /\ pc[chunk] # "idle"
      BY <2>1 DEF IInv, ChunksOut
    <3> QED
      BY <2>1, <2>2, <3>1 DEF MayReceive
  <2>3. CASE ~collecting
    <3>1. chunk + 1 \in Frames /\ chunk + 1 <= Chunks
      BY <2>1, <2>3 DEF LastCollects
    <3>2. pc[chunk + 1] = "idle"
      BY <2>1, <3>1 DEF IInv, ChunksOut
    <3> QED
      BY <2>1, <2>3, <3>1, <3>2 DEF MaySend
  <2> QED
    BY <2>2, <2>3
<1> QED
  BY <1>3, <1>4, <1>5

\* The callers are finitely many, and one fewer is one fewer.
LEMMA Callers ==
  ASSUME NEW S \in SUBSET Frames
  PROVE  /\ Cardinality(S) \in Nat
         /\ \A f \in S : Cardinality(S \ {f}) = Cardinality(S) - 1
         /\ \A T \in SUBSET S : Cardinality(T) <= Cardinality(S)
<1>1. IsFiniteSet(Frames)
  BY FS_Interval
<1>2. IsFiniteSet(S)
  BY <1>1, FS_Subset
<1> QED
  BY <1>2, FS_CardinalityType, FS_RemoveElement, FS_Subset

\* One caller fewer outweighs the phase of process data.
LEMMA Weighs ==
  ASSUME NEW a \in Nat, NEW b \in Nat, NEW c \in Nat, NEW d \in Nat,
         NEW k \in 0..1, NEW l \in 0..1,
         \/ a = b - 1 /\ c <= d
         \/ a = b /\ c = d - 1 /\ k = l
         \/ a = b /\ c = d /\ k = 0 /\ l = 1
  PROVE  2 * a + c + k < 2 * b + d + l
  OBVIOUS

\* While the table stays full a step of a caller brings it closer to being drained,
\* and no step of the input thread takes it further away.
LEMMA DrainStep ==
  ASSUME IInv, [Next]_vars
  PROVE  [ComesCloser]_vars
<1> SUFFICES ASSUME Full, Full' PROVE ComesCloser \/ UNCHANGED vars
  BY Zenon DEF ComesCloser
<1> DEFINE Sent == {f \in Frames : pc[f] = "sent"}
           phase == IF collecting THEN 0 ELSE 1
<1>0. TypeOK /\ TypeOK'
  BY NextInv DEF IInv
<1>1. /\ Cardinality(Busy) \in Nat /\ Cardinality(Sent) \in Nat /\ phase \in 0..1
      /\ Cardinality(Busy') \in Nat /\ Cardinality(Sent') \in Nat /\ phase' \in 0..1
  <2>1. Busy \in SUBSET Frames /\ Sent \in SUBSET Frames
        /\ Busy' \in SUBSET Frames /\ Sent' \in SUBSET Frames
    BY DEF Busy
  <2> HIDE DEF Sent
  <2> QED
    BY <2>1, Callers
<1>2. /\ ToDrain = 2 * Cardinality(Busy) + Cardinality(Sent) + phase
      /\ ToDrain' = 2 * Cardinality(Busy') + Cardinality(Sent') + phase'
  BY DEF ToDrain
<1>3. ASSUME NEW f \in Frames, CallerStep(f) PROVE ToDrain' < ToDrain \/ UNCHANGED vars
  <2>1. ~Send(f)
    BY DEF Send, Room, Full
  <2>2. CASE SendFails(f)
    <3>1. CASE f <= Chunks /\ chunk > 0
      <4>1. ~collecting /\ collecting' /\ pc' = pc
        BY <2>2, <3>1 DEF SendFails, MaySend
      <4>2. Busy' = Busy /\ Sent' = Sent /\ phase' = 0 /\ phase = 1
        BY <4>1 DEF Busy
      <4> HIDE DEF Sent, phase
      <4> QED
        BY <1>1, <1>2, <4>2, Weighs
    <3>2. CASE ~(f <= Chunks /\ chunk > 0)
      <4>1. ~Room
        BY DEF Room, Full
      <4>2. collecting' = collecting
        BY <1>0, <2>2, <3>2 DEF SendFails, TypeOK
      <4> QED
        BY <2>2, <4>1, <4>2 DEF SendFails, vars, netif
    <3> QED
      BY <3>1, <3>2
  <2>3. CASE Collect(f)
    <3>1. pc[f] # "idle" /\ pc' = [pc EXCEPT ![f] = "idle"]
      BY <2>3 DEF Collect, MayReceive, Return
    <3>2. f \in Busy /\ Busy' = Busy \ {f} /\ Sent' \in SUBSET Sent
      BY <1>0, <3>1 DEF Busy, TypeOK
    <3>3. Cardinality(Busy') = Cardinality(Busy) - 1
      BY <3>2, Callers DEF Busy
    <3>4. Cardinality(Sent') <= Cardinality(Sent)
      <4>1. Sent \in SUBSET Frames
        OBVIOUS
      <4> HIDE DEF Sent
      <4> QED
        BY <3>2, <4>1, Callers
    <3> HIDE DEF Sent, phase
    <3> QED
      BY <1>1, <1>2, <3>3, <3>4, Weighs
  <2>4. CASE Await(f)
    <3>1. pc[f] = "sent" /\ pc' = [pc EXCEPT ![f] = "waiting"] /\ collecting' = collecting
      BY <2>4 DEF Await
    <3>2. Busy' = Busy /\ f \in Sent /\ Sent' = Sent \ {f} /\ phase' = phase
      BY <1>0, <3>1 DEF Busy, TypeOK
    <3>3. Cardinality(Sent') = Cardinality(Sent) - 1
      <4>1. Sent \in SUBSET Frames
        OBVIOUS
      <4> HIDE DEF Sent
      <4> QED
        BY <3>2, <4>1, Callers
    <3> HIDE DEF Sent, phase
    <3> QED
      BY <1>1, <1>2, <3>2, <3>3, Weighs
  <2>5. ~GiveUp(f)
    <3> SUFFICES ASSUME GiveUp(f) PROVE FALSE
      OBVIOUS
    <3>1. Known(f)
      BY Found DEF GiveUp, MayReceive
    <3>2. unclaimed' = unclaimed - 1
      BY <3>1 DEF GiveUp, Release
    <3> QED
      BY <1>0, <3>2 DEF Full, TypeOK
  <2> QED
    BY <1>3, <2>1, <2>2, <2>3, <2>4, <2>5 DEF CallerStep
<1>4. ASSUME UNCHANGED <<pc, collecting>> PROVE ToDrain' = ToDrain
  BY <1>4 DEF ToDrain, Busy
<1>5. ToDrain \in Nat /\ ToDrain' \in Nat
  <2> HIDE DEF Sent, phase
  <2> QED
    BY <1>1, <1>2
<1>6. CASE \E f \in Frames : CallerStep(f)
  BY <1>3, <1>5, <1>6 DEF ComesCloser
<1>7. CASE ~(\E f \in Frames : CallerStep(f))
  <2>1. UNCHANGED <<pc, collecting>>
    BY <1>7 DEF Next, TakeBuffer, Discard, Arrive, vars
  <2> QED
    BY <1>4, <1>5, <1>7, <2>1 DEF ComesCloser
<1> QED
  BY <1>6, <1>7

\* A full table drains, for every number of callers and every limit: some caller can
\* go on unless framebuild has rejected a whole table of replies, and with k callers
\* that have a packet out the table is full for at most 3k + 1 more of their steps.
THEOREM DrainsAlways == Spec => Drains
<1>1. IInv /\ LastCollects => (Full /\ lost < MAX_UNCLAIMED_PACKETS => SomeoneGoesOn)
  BY FullMovesOn
<1>2. IInv /\ [Next]_vars => [ComesCloser]_vars
  BY DrainStep
<1>3. Spec => [](Full /\ lost < MAX_UNCLAIMED_PACKETS => SomeoneGoesOn)
  BY <1>1, Inv, LastCollectsAlways, PTL
<1>4. Spec => [][ComesCloser]_vars
  BY <1>2, Inv, PTL DEF Spec
<1> QED
  BY <1>3, <1>4 DEF Drains
=============================================================================
