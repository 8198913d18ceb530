--------------------------- MODULE FrameExchange ---------------------------
(***************************************************************************)
(* What netif promises the callers of tx and rx: each packet has a number  *)
(* of its own, at most Limit packets are out or lost to rejected replies,  *)
(* a packet out can always be collected or given up, and what rx hands a   *)
(* caller is the reply to the packet this caller has out.  Of slots,       *)
(* buffers, wrapped numbers and the input thread nothing is seen.          *)
(***************************************************************************)
EXTENDS Integers, FiniteSets

CONSTANTS Frames,   \* callers, each with its own frame
          Limit     \* packets that may be unclaimed

VARIABLES issued,     \* numbers drawn so far
          request,    \* per frame the number of the packet it has out
          received,   \* per frame the number of the packet whose reply it was given last
          rejected    \* replies that were no good

exchangeVars == <<issued, request, received, rejected>>

NONE == -1

Init ==
  /\ issued = 0 /\ rejected = 0
  /\ request = [f \in Frames |-> NONE] /\ received = [f \in Frames |-> NONE]

Out == {f \in Frames : request[f] # NONE}

\* tx: under a fresh number.
Request(f) ==
  /\ request[f] = NONE /\ Cardinality(Out) + rejected < Limit
  /\ issued' = issued + 1
  /\ request' = [request EXCEPT ![f] = issued']
  /\ received' = [received EXCEPT ![f] = NONE]
  /\ UNCHANGED rejected

\* tx fails: it leaves nothing behind but the number it may have drawn.
Refuse ==
  /\ issued' = issued + 1
  /\ UNCHANGED <<request, received, rejected>>

\* rx succeeds: with the reply to the caller's own packet.
Receive(f) ==
  /\ request[f] # NONE
  /\ received' = [received EXCEPT ![f] = request[f]]
  /\ request' = [request EXCEPT ![f] = NONE]
  /\ UNCHANGED <<issued, rejected>>

\* rx fails, or drop is called: the packet is out no more.
Withdraw(f) ==
  /\ request[f] # NONE
  /\ request' = [request EXCEPT ![f] = NONE]
  /\ rejected' \in {rejected, rejected + 1}
  /\ UNCHANGED <<issued, received>>

Next == Refuse \/ \E f \in Frames : Request(f) \/ Receive(f) \/ Withdraw(f)

Spec == Init /\ [][Next]_exchangeVars

-----------------------------------------------------------------------------
\* The numbers f has to do with: of the packet it has out and of its last reply.
Own(f) == {request[f], received[f]} \ {NONE}

\* Every number has been drawn, and belongs to one caller.
Unshared ==
  \A f \in Frames :
    /\ Own(f) \subseteq 1 .. issued
    /\ \A g \in Frames : f # g => Own(f) \cap Own(g) = {}
=============================================================================
