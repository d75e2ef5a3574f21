--------------------------- MODULE ReliableStream ---------------------------
(***************************************************************************)
(* What every direction of a physical channel promises its clients: the    *)
(* receiver sees the items the sender handed over, each one once and in    *)
(* the order they were sent.  How many arrive at a time is left open: the  *)
(* channels move whole windows.                                            *)
(***************************************************************************)
EXTENDS Naturals, Sequences

CONSTANT Items      (* what the sender may send *)

VARIABLES
  sent,             (* every item handed to the channel, in order      *)
  received          (* every item handed to the receiver, in order     *)

vars == <<sent, received>>

Init ==
  /\ sent = << >>
  /\ received = << >>

Send ==
  /\ \E item \in Items : sent' = Append(sent, item)
  /\ UNCHANGED received

Deliver ==
  /\ \E n \in Len(received) + 1 .. Len(sent) : received' = SubSeq(sent, 1, n)
  /\ UNCHANGED sent

Next == Send \/ Deliver

Spec == Init /\ [][Next]_vars
=============================================================================
