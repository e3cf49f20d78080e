------------------------------ MODULE Netchan -------------------------------
(***************************************************************************)
(* One direction of a net channel: the server side that fragments and      *)
(* queues messages (code/server/sv_net_chan.cpp over netchan_t of          *)
(* code/qcommon/net_chan.cpp), the datagram network, and the side that     *)
(* reassembles them (Netchan_Process).                                     *)
(*                                                                         *)
(* The network loses, duplicates, delays and reorders: net only grows, and *)
(* Netchan_Process may take any packet ever sent, at any time, any number  *)
(* of times, or never.                                                     *)
(*                                                                         *)
(* A message is its id (the number of the SV_Netchan_Transmit call that    *)
(* handed it over) and its length; byte k of it is the pair <<id, k>>, so  *)
(* that bytes of two messages can be told apart.  sent and delivered are   *)
(* histories; no action reads them.                                        *)
(***************************************************************************)
EXTENDS Naturals, Sequences

CONSTANTS
  FragmentSize,   \* FRAGMENT_SIZE
  MaxMsgLen,      \* MAX_MSGLEN: size of unsentBuffer and fragmentBuffer
  MaxMessages     \* bound on the calls of SV_Netchan_Transmit

ASSUME FragmentSizeAssumption == FragmentSize \in Nat \ {0}
ASSUME MaxMsgLenAssumption == MaxMsgLen \in Nat \ {0}
ASSUME MaxMessagesAssumption == MaxMessages \in Nat

VARIABLES
  chan,              \* the sender's half of its netchan_t
  queue,             \* netchan_start_queue: messages stacked by the server
  calls,             \* number of messages handed to SV_Netchan_Transmit
  net,               \* every packet sent so far
  incomingSequence, fragmentSequence, fragmentLength, fragmentBuffer,
                     \* the receiver's half of its netchan_t
  sent, delivered    \* histories, see MessageChannel

sendVars == <<chan, queue, calls, net, sent>>
recvVars == <<incomingSequence, fragmentSequence, fragmentLength,
              fragmentBuffer, delivered>>
vars == <<sendVars, recvVars>>

Message == [id : 1 .. MaxMessages, len : 1 .. MaxMsgLen]
NoMessage == [id |-> 0, len |-> 0]
Packet == [sequence : Nat, fragmented : BOOLEAN, start : Nat, len : Nat,
           id : Nat]
Byte == Nat \X Nat
NoByte == <<0, 0>>

Channel == INSTANCE MessageChannel
             WITH Message <- Message, sent <- sent, delivered <- delivered
-----------------------------------------------------------------------------
(* Sending: what Netchan_Transmit and Netchan_TransmitNextFragment do to   *)
(* the sender's netchan_t, and the packets they put on the network.        *)

Netchan_Setup == [outgoingSequence |-> 1, unsentFragments |-> FALSE,
                  unsentFragmentStart |-> 0, unsent |-> NoMessage]

\* The length of the fragment that Netchan_TransmitNextFragment sends next.
NextFragmentLength(c) ==
  IF c.unsentFragmentStart + FragmentSize > c.unsent.len
  THEN c.unsent.len - c.unsentFragmentStart
  ELSE FragmentSize

NextFragment(c) ==
  [sequence |-> c.outgoingSequence, fragmented |-> TRUE,
   start |-> c.unsentFragmentStart, len |-> NextFragmentLength(c),
   id |-> c.unsent.id]

\* Mistake: a message may end with a full fragment.
IsLastFragmentByLength(c) ==
  c.unsentFragmentStart + NextFragmentLength(c) = c.unsent.len

\* A fragment of FragmentSize bytes is never the last: a message whose length
\* is a multiple of FragmentSize ends with an empty fragment.
IsLastFragment(c) ==
  /\ c.unsentFragmentStart + NextFragmentLength(c) = c.unsent.len
  /\ NextFragmentLength(c) # FragmentSize

Netchan_TransmitNextFragment(c) ==
  LET moved == [c EXCEPT !.unsentFragmentStart = @ + NextFragmentLength(c)]
  IN  IF IsLastFragment(c)
      THEN [moved EXCEPT !.outgoingSequence = @ + 1, !.unsentFragments = FALSE]
      ELSE moved

\* The channel with message m in its fragment buffer, nothing of it sent yet.
Loaded(c, m) == [c EXCEPT !.unsentFragmentStart = 0, !.unsentFragments = TRUE,
                          !.unsent = m]

Netchan_Transmit(c, m) ==
  IF m.len >= FragmentSize
  THEN Netchan_TransmitNextFragment(Loaded(c, m))
  ELSE [c EXCEPT !.unsentFragmentStart = 0, !.outgoingSequence = @ + 1]

FirstPacket(c, m) ==
  IF m.len >= FragmentSize
  THEN NextFragment(Loaded(c, m))
  ELSE [sequence |-> c.outgoingSequence, fragmented |-> FALSE,
        start |-> 0, len |-> m.len, id |-> m.id]
-----------------------------------------------------------------------------
Init ==
  /\ chan = Netchan_Setup
  /\ queue = <<>> /\ calls = 0 /\ net = {}
  /\ incomingSequence = 0 /\ fragmentSequence = 0 /\ fragmentLength = 0
  /\ fragmentBuffer = [k \in 0 .. MaxMsgLen - 1 |-> NoByte]
  /\ sent = <<>> /\ delivered = <<>>

\* Mistake: fragments still unsent are not looked at.
SendNowUnguarded(m) ==
  /\ chan' = Netchan_Transmit(chan, m)
  /\ net' = net \cup {FirstPacket(chan, m)}
  /\ sent' = Append(sent, m)
  /\ UNCHANGED queue

\* SV_Netchan_Transmit with nothing unsent: the message goes out now.
SendNow(m) ==
  /\ ~chan.unsentFragments
  /\ chan' = Netchan_Transmit(chan, m)
  /\ net' = net \cup {FirstPacket(chan, m)}
  /\ sent' = Append(sent, m)
  /\ UNCHANGED queue

\* SV_Netchan_Transmit with fragments unsent: the message is stacked, and the
\* next fragment goes out through Netchan_TransmitNextFragment, which does
\* not look at the queue.
Stack(m) ==
  /\ chan.unsentFragments
  /\ queue' = Append(queue, m)
  /\ chan' = Netchan_TransmitNextFragment(chan)
  /\ net' = net \cup {NextFragment(chan)}
  /\ UNCHANGED sent

\* A snapshot or a gamestate of the given length is ready for the client.
\* SV_SendClientMessages calls it only with nothing unsent, but
\* SV_SendClientGameState, SV_VerifyPaks_f and SV_FinalMessage at any time.
SV_Netchan_Transmit(len) ==
  /\ calls < MaxMessages
  /\ calls' = calls + 1
  /\ \/ SendNow([id |-> calls + 1, len |-> len])
     \/ Stack([id |-> calls + 1, len |-> len])
  /\ UNCHANGED recvVars

\* SV_SendClientMessages with fragments unsent.  When the last one has gone
\* out, the oldest stacked message is transmitted in the same call.
SV_Netchan_TransmitNextFragment ==
  /\ chan.unsentFragments
  /\ LET after == Netchan_TransmitNextFragment(chan)
     IN  IF ~after.unsentFragments /\ queue # <<>>
         THEN /\ chan' = Netchan_Transmit(after, Head(queue))
              /\ net' = net \cup {NextFragment(chan),
                                  FirstPacket(after, Head(queue))}
              /\ sent' = Append(sent, Head(queue))
              /\ queue' = Tail(queue)
         ELSE /\ chan' = after
              /\ net' = net \cup {NextFragment(chan)}
              /\ UNCHANGED <<sent, queue>>
  /\ UNCHANGED <<calls, recvVars>>
-----------------------------------------------------------------------------
(* Receiving.  A packet that Netchan_Process discards without touching the *)
(* channel is a stuttering step and has no action.                         *)

\* fragmentLength after the reset for a new fragmentSequence.
Assembled(p) == IF p.sequence = fragmentSequence THEN fragmentLength ELSE 0

\* Mistakes: any fragment of the message in assembly is taken; a fragment is
\* taken wherever it starts.
FitsIfSequence(p) == p.sequence = fragmentSequence \/ p.start = 0
FitsAnyStart(p) == Assembled(p) + p.len <= MaxMsgLen

Fits(p) == /\ p.start = Assembled(p)
           /\ Assembled(p) + p.len <= MaxMsgLen

\* fragmentBuffer with the packet's bytes copied behind the assembled ones.
Copied(p) ==
  [k \in 0 .. MaxMsgLen - 1 |->
     IF k \in Assembled(p) .. Assembled(p) + p.len - 1
     THEN <<p.id, p.start + (k - Assembled(p))>>
     ELSE fragmentBuffer[k]]

Delivery(p, data) ==
  /\ incomingSequence' = p.sequence
  /\ delivered' = Append(delivered, [sequence |-> p.sequence, data |-> data])

ReceiveUnfragmented(p) ==
  /\ ~p.fragmented
  /\ Delivery(p, [k \in 1 .. p.len |-> <<p.id, p.start + k - 1>>])
  /\ UNCHANGED <<fragmentSequence, fragmentLength, fragmentBuffer>>

\* A fragment was missed: what is assembled of this sequence number is kept.
MissedFragment(p) ==
  /\ p.fragmented /\ ~Fits(p)
  /\ fragmentSequence' = p.sequence
  /\ fragmentLength' = Assembled(p)
  /\ UNCHANGED <<incomingSequence, fragmentBuffer, delivered>>

StoreFragment(p) ==
  /\ p.fragmented /\ Fits(p) /\ p.len = FragmentSize
  /\ fragmentSequence' = p.sequence
  /\ fragmentBuffer' = Copied(p)
  /\ fragmentLength' = Assembled(p) + p.len
  /\ UNCHANGED <<incomingSequence, delivered>>

\* Mistake: a reassembled message does not advance incomingSequence.
CompleteMessageUnacked(p) ==
  /\ p.fragmented /\ Fits(p) /\ p.len # FragmentSize
  /\ fragmentSequence' = p.sequence
  /\ fragmentBuffer' = Copied(p)
  /\ fragmentLength' = 0
  /\ delivered' = Append(delivered, [sequence |-> p.sequence,
       data |-> [k \in 1 .. Assembled(p) + p.len |-> Copied(p)[k - 1]]])
  /\ UNCHANGED incomingSequence

CompleteMessage(p) ==
  /\ p.fragmented /\ Fits(p) /\ p.len # FragmentSize
  /\ fragmentSequence' = p.sequence
  /\ fragmentBuffer' = Copied(p)
  /\ fragmentLength' = 0
  /\ Delivery(p, [k \in 1 .. Assembled(p) + p.len |-> Copied(p)[k - 1]])

\* Mistake: a packet that repeats incomingSequence is not discarded.
Netchan_ProcessRepeated(p) ==
  /\ p.sequence >= incomingSequence
  /\ \/ ReceiveUnfragmented(p)
     \/ MissedFragment(p)
     \/ StoreFragment(p)
     \/ CompleteMessage(p)
  /\ UNCHANGED sendVars

Netchan_Process(p) ==
  /\ p.sequence > incomingSequence
  /\ \/ ReceiveUnfragmented(p)
     \/ MissedFragment(p)
     \/ StoreFragment(p)
     \/ CompleteMessage(p)
  /\ UNCHANGED sendVars
-----------------------------------------------------------------------------
Next ==
  \/ \E len \in 1 .. MaxMsgLen : SV_Netchan_Transmit(len)
  \/ SV_Netchan_TransmitNextFragment
  \/ \E p \in net : Netchan_Process(p)

Spec == Init /\ [][Next]_vars

\* SV_Frame reaches SV_SendClientMessages every frame; the client can do
\* nothing about packets that never arrive, so receiving is not fair.
FairSpec == Spec /\ WF_vars(SV_Netchan_TransmitNextFragment)
-----------------------------------------------------------------------------
TypeOK ==
  /\ chan \in [outgoingSequence : Nat \ {0}, unsentFragments : BOOLEAN,
               unsentFragmentStart : Nat, unsent : Message \cup {NoMessage}]
  /\ queue \in Seq(Message)
  /\ calls \in 0 .. MaxMessages
  /\ net \subseteq Packet
  /\ incomingSequence \in Nat /\ fragmentSequence \in Nat
  /\ fragmentLength \in 0 .. MaxMsgLen
  /\ fragmentBuffer \in [0 .. MaxMsgLen - 1 -> Byte]
  /\ sent \in Seq(Message)
  /\ delivered \in Seq([sequence : Nat, data : Seq(Byte)])

\* The parts of the inductive invariant behind the properties below.

\* The last numbered message is the one in the fragment buffer.
SenderInv ==
  /\ chan.unsentFragments =>
       /\ chan.outgoingSequence = Len(sent)
       /\ chan.unsent = sent[Len(sent)]
       /\ chan.unsentFragmentStart <= chan.unsent.len
  /\ ~chan.unsentFragments => chan.outgoingSequence = Len(sent) + 1

\* A packet is a piece of the message that its sequence number stands for,
\* and of the last piece the receiver can tell that it is the last.
PacketInv == \A p \in net :
  /\ p.sequence \in DOMAIN sent
  /\ p.id = sent[p.sequence].id
  /\ p.start + p.len <= sent[p.sequence].len
  /\ p.fragmented /\ p.len # FragmentSize =>
       p.start + p.len = sent[p.sequence].len
  /\ ~p.fragmented => p.start = 0 /\ p.len = sent[p.sequence].len

\* What is assembled is a prefix of the message fragmentSequence stands for.
AssemblyInv ==
  fragmentLength > 0 =>
    /\ fragmentSequence \in DOMAIN sent
    /\ fragmentLength <= sent[fragmentSequence].len
    /\ \A k \in 0 .. fragmentLength - 1 :
         fragmentBuffer[k] = <<sent[fragmentSequence].id, k>>

\* incomingSequence is the sequence number of the last delivery.
LastInv == incomingSequence = Channel!LastDelivered

\* Two packets under one sequence number carry the same message: the sender
\* never loads its fragment buffer while a message is half sent
\* (SV_Netchan_Transmit stacks, SV_Netchan_TransmitNextFragment pops only
\* after the last fragment).
SequenceNotReused ==
  \A p, q \in net : p.sequence = q.sequence => p.id = q.id

\* Every message given to the client is one message of the server, complete,
\* with every byte in its place, however packets of this and of other
\* messages were lost, duplicated or reordered.
DeliveredWhole ==
  \A i \in DOMAIN delivered :
    /\ delivered[i].sequence \in DOMAIN sent
    /\ delivered[i].data = Channel!Bytes(sent[delivered[i].sequence])

\* Messages are received in the order of transmission, each at most once.
DeliveredInOrder ==
  \A i, j \in DOMAIN delivered :
    i < j => delivered[i].sequence < delivered[j].sequence

\* The packets implement the abstract channel.
ImplementsChannel == Channel!Spec

IInv == /\ TypeOK /\ SenderInv /\ PacketInv /\ AssemblyInv /\ LastInv
        /\ DeliveredWhole /\ DeliveredInOrder

\* A message that got a sequence number is sent to its end: its last packet,
\* the only one with fewer than FragmentSize bytes, goes out eventually.
LastPacketSent ==
  \A n \in 1 .. MaxMessages :
    Len(sent) >= n ~> \E p \in net : p.sequence = n /\ p.len < FragmentSize

\* "buffer them and make sure they get sent in correct order"
\* (code/server/sv_net_chan.cpp:170): messages are transmitted in the order
\* in which they were handed to SV_Netchan_Transmit.
SentInCallOrder ==
  \A i, j \in DOMAIN sent : i < j => sent[i].id < sent[j].id
=============================================================================
