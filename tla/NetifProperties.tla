-------------------------- MODULE NetifProperties --------------------------
(***************************************************************************)
(* What netif must guarantee to the users of the wire, and the inductive   *)
(* invariant behind it.                                                    *)
(***************************************************************************)
EXTENDS Netif

\* The type of every variable.
TypeOK ==
  /\ pkt_list \in [Slots -> [frame : Frames \cup {NULL}, num : Nat, buf : Buffers \cup {NULL}]]
  /\ buf_list \in [Buffers -> [is_free : BOOLEAN, num : Nat, ok : BOOLEAN]]
  /\ next_pkt_index \in Slots
  /\ unclaimed \in Nat /\ sent \in Nat /\ lost \in Nat
  /\ input \in Buffers \cup {NULL}
  /\ wire \subseteq [slot : Slots, num : Nat]
  /\ pc \in [Frames -> {"idle", "sent", "waiting"}]
  /\ handle \in [Frames -> [slot : Slots, num : Nat]]
  /\ received \in [Frames -> Nat \cup {NULL}]
  /\ chunk \in 0..Chunks /\ collecting \in BOOLEAN

Outstanding == {s \in Slots : pkt_list[s].frame # NULL}
Answered == {s \in Slots : pkt_list[s].buf # NULL}

\* A buffer in use belongs to one slot or to the input thread, and to no two.
BuffersOwned ==
  /\ \A b \in Buffers : ~buf_list[b].is_free
       <=> b = input \/ \E s \in Slots : pkt_list[s].buf = b
  /\ \A s \in Answered : pkt_list[s].buf # input /\ pkt_list[s].frame # NULL
  /\ \A s, u \in Answered : pkt_list[s].buf = pkt_list[u].buf => s = u

\* unclaimed_packets is the number of packets sent and not collected or given
\* up, plus the replies framebuild rejected; it never exceeds its limit.
UnclaimedCounted ==
  /\ unclaimed = Cardinality(Outstanding) + lost
  /\ unclaimed <= MAX_UNCLAIMED_PACKETS

\* netif.h:74-75: as fewer packets may be unclaimed than there are buffers, the
\* input thread always finds a buffer, whatever the callers leave unclaimed; and
\* tx is refused for the limit only, never for want of a slot.
NeverStarved ==
  /\ input = NULL => \E b \in Buffers : buf_list[b].is_free
  /\ unclaimed < MAX_UNCLAIMED_PACKETS => Free # {}

Accounted == BuffersOwned /\ UnclaimedCounted /\ NeverStarved

\* The reply a slot holds answers the very packet the slot stands for, though
\* replies come late, twice and out of order and the numbers wrap around.
OwnReply ==
  \A s \in Answered : buf_list[pkt_list[s].buf].num = pkt_list[s].num

\* netif.h:103-105: until a caller collects or gives up its packet, the handle
\* names the slot with this packet, and no slot is held by anyone else: what
\* another caller or the input thread does never takes the slot away.
HandleHonoured ==
  /\ \A f \in Frames : pc[f] # "idle" =>
       pkt_list[handle[f].slot].frame = f /\ pkt_list[handle[f].slot].num = handle[f].num
  /\ \A s \in Outstanding : LET f == pkt_list[s].frame IN
       pc[f] # "idle" /\ handle[f].slot = s

\* No packet on the wire is newer than the one its slot stands for.
NewestInSlot ==
  /\ \A p \in wire : p.num <= sent
       /\ (p.slot \in Outstanding => p.num <= pkt_list[p.slot].num)
  /\ \A s \in Outstanding : pkt_list[s].num <= sent

\* Process data has a packet out for exactly the chunks it has sent and not
\* collected.
ChunksOut == \A f \in Frames : f <= Chunks => (pc[f] # "idle" <=> f <= chunk)

\* The inductive invariant.
IInv ==
  /\ TypeOK /\ BuffersOwned /\ UnclaimedCounted
  /\ OwnReply /\ HandleHonoured /\ NewestInSlot /\ ChunksOut

-----------------------------------------------------------------------------
(* Refinement: netif implements FrameExchange. *)

Requested == [f \in Frames |-> IF pc[f] = "idle" THEN NULL ELSE handle[f].num]

Exchange == INSTANCE FrameExchange WITH
  Limit <- MAX_UNCLAIMED_PACKETS, issued <- sent, request <- Requested, rejected <- lost

\* Whatever happens to packets, slots and buffers, rx hands a caller the reply to the
\* packet it has out or nothing, and no more packets are out or rejected than the
\* limit; a packet stays the caller's own until it returns (netif.h:99-105, 146-179).
ImplementsFrameExchange == Exchange!Spec

\* However often a reply comes back, no caller is handed the reply to a packet that
\* another caller has out or has had the reply to (netif.h:189-193).
RepliesUnshared == Exchange!Unshared

-----------------------------------------------------------------------------
(* How a full table empties. *)

Full == unclaimed = MAX_UNCLAIMED_PACKETS

\* What the callers have to do before none of them has a packet out.
Busy == {f \in Frames : pc[f] # "idle"}
ToDrain ==
  2 * Cardinality(Busy) + Cardinality({f \in Frames : pc[f] = "sent"})
    + (IF collecting THEN 0 ELSE 1)

\* A caller can go on with its packet, or process data that has sent chunks with the next.
SomeoneGoesOn ==
  \E f \in Frames : MayReceive(f) \/ (MaySend(f) /\ f <= Chunks /\ chunk > 0)

\* A step that leaves the table full.
ComesCloser == Full /\ Full' =>
  /\ ToDrain' <= ToDrain
  /\ (\E f \in Frames : CallerStep(f)) => ToDrain' < ToDrain

\* While the table is full some caller can go on, collecting or, as process data
\* between its chunks, finding that it must; and each step of a caller that leaves
\* the table full brings the callers closer to having no packet out.  So no two of
\* them wait for each other's packets, whatever the wire does.
Drains ==
  /\ [](Full /\ lost < MAX_UNCLAIMED_PACKETS => SomeoneGoesOn)
  /\ [][ComesCloser]_vars

-----------------------------------------------------------------------------
(* Liveness.  "Successfull tx MUST be followed by rx call" (ethercat_dll.h): *)
(* every caller goes on, and the wait in rx times out.  Nothing is assumed   *)
(* of the wire or of the input thread.                                       *)

Fairness == \A f \in Frames :
  /\ WF_vars(Collect(f) \/ Await(f) \/ GiveUp(f))
  /\ f <= Chunks => WF_vars(Send(f) \/ SendFails(f))

LiveSpec == Spec /\ Fairness

\* A full table does not stay full though every reply may be lost: netif sends
\* again, unless MAX_UNCLAIMED_PACKETS replies were rejected by framebuild.
Recovers == []<>(unclaimed < MAX_UNCLAIMED_PACKETS \/ lost = MAX_UNCLAIMED_PACKETS)
=============================================================================
