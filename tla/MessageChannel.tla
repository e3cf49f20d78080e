--------------------------- MODULE MessageChannel ---------------------------
(***************************************************************************)
(* What a net channel promises, without packets: messages handed to the    *)
(* channel are numbered in the order they are transmitted, and the other   *)
(* side receives some of them, each at most once, whole, in that order.    *)
(* A message that is lost is skipped ("dropped packets don't keep the      *)
(* message from being used", code/qcommon/net_chan.cpp:373); one that      *)
(* arrives after a later one is gone for good.                             *)
(***************************************************************************)
EXTENDS Naturals, Sequences

CONSTANT Message   \* records with an id and a length

VARIABLES
  sent,       \* the messages transmitted, the i-th under sequence number i
  delivered   \* what the receiver was given: sequence number and bytes

channelVars == <<sent, delivered>>

\* Byte k (from 0) of a message is modelled as the pair of its id and k.
Bytes(m) == [k \in 1 .. m.len |-> <<m.id, k - 1>>]

LastDelivered ==
  IF delivered = <<>> THEN 0 ELSE delivered[Len(delivered)].sequence

Init == sent = <<>> /\ delivered = <<>>

Transmit == \E m \in Message :
  /\ sent' = Append(sent, m)
  /\ UNCHANGED delivered

Deliver == \E i \in LastDelivered + 1 .. Len(sent) :
  /\ delivered' = Append(delivered, [sequence |-> i, data |-> Bytes(sent[i])])
  /\ UNCHANGED sent

Next == Transmit \/ Deliver

Spec == Init /\ [][Next]_channelVars
=============================================================================
