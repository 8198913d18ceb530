------------------------------- MODULE Netif -------------------------------
(***************************************************************************)
(* struct netif: the table of outstanding packets, the receive buffers and *)
(* the input thread that all users of the wire share.  Process data sends  *)
(* the frames of its chunks one after the other and collects the replies   *)
(* in the reverse order (EtherCAT_PD_Buffer::txandrx); every other caller  *)
(* has one frame.  The functions behind the struct's pointers are those of *)
(* src/eml/lib/libeml.so; each holds txandrx_mut throughout, except while  *)
(* it waits for a reply, and so does the input thread except in recv.      *)
(* The wire loses, duplicates, delays and damages packets.                 *)
(***************************************************************************)
EXTENDS Integers, FiniteSets

CONSTANTS Chunks,          \* frames of process data in a cycle, at most MAX_CHUNKS: 4
          Others,          \* frames of all other callers
          PKT_LIST_SIZE,   \* 128
          BUF_LIST_SIZE,   \* 16
          SEQ,             \* values of a sequence number: 2^16
          MaxSent          \* bound: numbers drawn in a behaviour

ASSUME NetifAssumption ==
  /\ Chunks \in Nat \ {0} /\ Others \in Nat /\ MaxSent \in Nat
  /\ SEQ \in Nat \ {0} /\ BUF_LIST_SIZE \in Nat \ {0}
  /\ PKT_LIST_SIZE \in Nat /\ BUF_LIST_SIZE <= PKT_LIST_SIZE

MAX_UNCLAIMED_PACKETS == BUF_LIST_SIZE - 1
Slots == 0 .. PKT_LIST_SIZE - 1
Buffers == 0 .. BUF_LIST_SIZE - 1
NULL == -1
Frames == 1 .. Chunks + Others     \* frames 1 .. Chunks carry process data

VARIABLES
  pkt_list,           \* per slot its frame (NULL: free), its number and its reply
  buf_list,           \* per buffer whether it is free and the packet it holds
  next_pkt_index,
  unclaimed,          \* unclaimed_packets
  sent,               \* tx_seqnum, counted on: the wire carries sent % SEQ
  input,              \* the buffer the input thread receives into
  wire,               \* the packets sent so far: each may come back, again and late
  pc, handle,         \* per frame: what its caller does and what tx returned
  received,           \* history: per frame the packet whose reply rx handed over last
  chunk, collecting,  \* process data: frames sent and not collected, and the phase
  lost                \* history: replies that framebuild rejected

netif == <<pkt_list, buf_list, next_pkt_index, unclaimed, sent, input, wire, lost>>
vars == <<netif, pc, handle, received, chunk, collecting>>

FreeSlot == [frame |-> NULL, num |-> 0, buf |-> NULL]
FreeBuffer == [is_free |-> TRUE, num |-> 0, ok |-> TRUE]

Init ==
  /\ pkt_list = [s \in Slots |-> FreeSlot]
  /\ buf_list = [b \in Buffers |-> FreeBuffer]
  /\ next_pkt_index = 0 /\ unclaimed = 0 /\ sent = 0 /\ lost = 0
  /\ input = NULL /\ wire = {}
  /\ pc = [f \in Frames |-> "idle"]
  /\ handle = [f \in Frames |-> [slot |-> 0, num |-> 0]]
  /\ received = [f \in Frames |-> NULL]
  /\ chunk = 0 /\ collecting = FALSE

-----------------------------------------------------------------------------
(* tx *)

Free == {s \in Slots : pkt_list[s].frame = NULL}

TakesNext(s) == s = next_pkt_index   \* the next slot, without a look at is_free

\* The search takes the first free slot from next_pkt_index on.
Takes(s) ==
  /\ s \in Free
  /\ \A u \in Free :
       (s - next_pkt_index) % PKT_LIST_SIZE <= (u - next_pkt_index) % PKT_LIST_SIZE

\* A caller sends its frame when it has no packet out; process data sends its
\* chunks in order.
MaySend(f) == pc[f] = "idle" /\ (f <= Chunks => ~collecting /\ f = chunk + 1)

RoomForOneMore == unclaimed <= MAX_UNCLAIMED_PACKETS /\ Free # {}   \* one too many

Room == unclaimed < MAX_UNCLAIMED_PACKETS /\ Free # {}

\* Slot and sequence number travel in the source MAC address; together they are
\* also the handle.
Transmit(f, s) ==
  /\ sent < MaxSent /\ sent' = sent + 1
  /\ pkt_list' = [pkt_list EXCEPT ![s] = [frame |-> f, num |-> sent', buf |-> NULL]]
  /\ wire' = wire \cup {[slot |-> s, num |-> sent']}
  /\ unclaimed' = unclaimed + 1
  /\ next_pkt_index' = (next_pkt_index + 1) % PKT_LIST_SIZE
  /\ handle' = [handle EXCEPT ![f] = [slot |-> s, num |-> sent']]
  /\ UNCHANGED <<buf_list, input, lost>>

Send(f) ==
  /\ MaySend(f) /\ Room
  /\ \E s \in Slots : Takes(s) /\ Transmit(f, s)
  /\ pc' = [pc EXCEPT ![f] = "sent"]
  /\ received' = [received EXCEPT ![f] = NULL]
  /\ chunk' = IF f <= Chunks THEN f ELSE chunk
  /\ collecting' = (collecting \/ f = Chunks)

SendFailsWaiting(f) ==   \* process data waits for room instead of collecting
  /\ MaySend(f)
  /\ \/ ~Room /\ UNCHANGED sent
     \/ Room /\ sent < MaxSent /\ sent' = sent + 1
  /\ UNCHANGED <<pkt_list, buf_list, next_pkt_index, unclaimed, input, wire, lost,
                 pc, handle, received, chunk, collecting>>

\* tx returns a negative value: the table is full, or the write failed after the
\* number was drawn.  Process data then collects the chunks it has sent.
SendFails(f) ==
  /\ MaySend(f)
  /\ \/ ~Room /\ UNCHANGED sent
     \/ Room /\ sent < MaxSent /\ sent' = sent + 1
  /\ collecting' = (collecting \/ (f <= Chunks /\ chunk > 0))
  /\ UNCHANGED <<pkt_list, buf_list, next_pkt_index, unclaimed, input, wire, lost,
                 pc, handle, received, chunk>>

-----------------------------------------------------------------------------
(* rx, rx_nowait and drop *)

\* The caller of rx: process data turns to the last chunk it has not collected.
MayReceive(f) == pc[f] # "idle" /\ (f <= Chunks => collecting /\ f = chunk)

\* lookup: the handle names a slot that still holds this packet of this frame.
Known(f) ==
  LET p == pkt_list[handle[f].slot] IN
  p.frame = f /\ p.num % SEQ = handle[f].num % SEQ

Reply(f) == IF Known(f) THEN pkt_list[handle[f].slot].buf ELSE NULL

\* rx has returned, whatever its result; process data goes on to the next.
Return(f) ==
  /\ pc' = [pc EXCEPT ![f] = "idle"]
  /\ chunk' = IF f <= Chunks THEN chunk - 1 ELSE chunk
  /\ collecting' = IF f <= Chunks THEN chunk > 1 ELSE collecting
  /\ UNCHANGED handle

\* A reply that framebuild rejects frees its slot and its buffer, but the packet
\* stays counted in unclaimed_packets for good.
Collect(f) ==
  LET b == Reply(f) IN
  /\ MayReceive(f) /\ b # NULL
  /\ pkt_list' = [pkt_list EXCEPT ![handle[f].slot] = FreeSlot]
  /\ buf_list' = [buf_list EXCEPT ![b] = FreeBuffer]
  /\ IF buf_list[b].ok
     THEN /\ received' = [received EXCEPT ![f] = buf_list[b].num]
          /\ unclaimed' = unclaimed - 1 /\ UNCHANGED lost
     ELSE lost' = lost + 1 /\ UNCHANGED <<unclaimed, received>>
  /\ Return(f)
  /\ UNCHANGED <<next_pkt_index, sent, input, wire>>

\* The reply is not there: rx waits for it.
Await(f) ==
  /\ MayReceive(f) /\ pc[f] = "sent" /\ Known(f) /\ Reply(f) = NULL
  /\ pc' = [pc EXCEPT ![f] = "waiting"]
  /\ UNCHANGED <<netif, handle, received, chunk, collecting>>

ReleaseLeaky(f) ==   \* the buffer of a reply that came too late is not freed
  IF Known(f)
  THEN /\ pkt_list' = [pkt_list EXCEPT ![handle[f].slot] = FreeSlot]
       /\ unclaimed' = unclaimed - 1 /\ UNCHANGED buf_list
  ELSE UNCHANGED <<pkt_list, buf_list, unclaimed>>

ReleaseUncounted(f) ==   \* a packet given up stays counted
  IF Known(f)
  THEN /\ pkt_list' = [pkt_list EXCEPT ![handle[f].slot] = FreeSlot]
       /\ buf_list' = [b \in Buffers |-> IF b = Reply(f) THEN FreeBuffer ELSE buf_list[b]]
       /\ UNCHANGED unclaimed
  ELSE UNCHANGED <<pkt_list, buf_list, unclaimed>>

\* The slot, and a reply that has come in the meantime, are given back.
Release(f) ==
  IF Known(f)
  THEN /\ pkt_list' = [pkt_list EXCEPT ![handle[f].slot] = FreeSlot]
       /\ buf_list' = [b \in Buffers |-> IF b = Reply(f) THEN FreeBuffer ELSE buf_list[b]]
       /\ unclaimed' = unclaimed - 1
  ELSE UNCHANGED <<pkt_list, buf_list, unclaimed>>

\* The wait timed out; or the caller asked for no wait, or to drop the packet;
\* or the handle is not known.
GiveUp(f) ==
  /\ MayReceive(f) /\ (pc[f] = "waiting" \/ f > Chunks \/ ~Known(f))
  /\ Release(f) /\ Return(f)
  /\ UNCHANGED <<next_pkt_index, sent, input, wire, lost, received>>

-----------------------------------------------------------------------------
(* The input thread *)

TakeBuffer ==
  /\ input = NULL
  /\ \E b \in Buffers :
       /\ buf_list[b].is_free /\ (\A c \in Buffers : c < b => ~buf_list[c].is_free)
       /\ input' = b
       /\ buf_list' = [buf_list EXCEPT ![b].is_free = FALSE]
  /\ UNCHANGED <<pkt_list, next_pkt_index, unclaimed, sent, wire, lost,
                 pc, handle, received, chunk, collecting>>

AcceptsAny(p) ==   \* the sequence number is not compared
  pkt_list[p.slot].frame # NULL /\ pkt_list[p.slot].buf = NULL

\* The slot the packet names waits for a reply, and to this number.
Accepts(p) ==
  /\ pkt_list[p.slot].frame # NULL /\ pkt_list[p.slot].buf = NULL
  /\ pkt_list[p.slot].num % SEQ = p.num % SEQ

\* A packet comes back intact or with telegrams that framebuild will reject.
\* Lifetime: by the time SEQ more packets have been sent (half a minute of
\* cycles) a packet comes back no more.
Arrive(p, ok) ==
  /\ input # NULL /\ sent - p.num < SEQ /\ Accepts(p)
  /\ pkt_list' = [pkt_list EXCEPT ![p.slot].buf = input]
  /\ buf_list' = [buf_list EXCEPT ![input] = [is_free |-> FALSE, num |-> p.num, ok |-> ok]]
  /\ input' = NULL
  /\ UNCHANGED <<next_pkt_index, unclaimed, sent, wire, lost,
                 pc, handle, received, chunk, collecting>>

\* Whatever else recv returns is dropped: an error, a runt, another master's
\* packet, a late, duplicate or mismatched reply.
Discard ==
  /\ input # NULL /\ input' = NULL
  /\ buf_list' = [buf_list EXCEPT ![input] = FreeBuffer]
  /\ UNCHANGED <<pkt_list, next_pkt_index, unclaimed, sent, wire, lost,
                 pc, handle, received, chunk, collecting>>

CallerStep(f) == Send(f) \/ SendFails(f) \/ Collect(f) \/ Await(f) \/ GiveUp(f)

Next ==
  \/ \E f \in Frames : CallerStep(f)
  \/ TakeBuffer \/ Discard
  \/ \E p \in wire, ok \in BOOLEAN : Arrive(p, ok)

Spec == Init /\ [][Next]_vars
=============================================================================
