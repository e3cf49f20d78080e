--------------------------- MODULE NetchanProofs ----------------------------
(***************************************************************************)
(* Proofs about Netchan, for every fragment size, every message size and   *)
(* any number of messages.  The inductive invariant is Netchan!IInv:       *)
(*   - SenderInv and PacketInv tie every packet to the message its         *)
(*     sequence number stands for, which is what SequenceNotReused needs;  *)
(*   - AssemblyInv says that the assembled bytes are a prefix of one       *)
(*     message, so that the last fragment completes exactly that message;  *)
(*   - LastInv ties incomingSequence to the last delivery, which gives the *)
(*     order and the refinement of MessageChannel.                         *)
(***************************************************************************)
EXTENDS Netchan, TLAPS

USE FragmentSizeAssumption, MaxMsgLenAssumption, MaxMessagesAssumption

-----------------------------------------------------------------------------
(* What the two sending operators do to a well-formed sender.              *)

SenderType == [outgoingSequence : Nat \ {0}, unsentFragments : BOOLEAN,
               unsentFragmentStart : Nat, unsent : Message \cup {NoMessage}]

\* A sender in the middle of a message.
Sending(c) == /\ c \in SenderType /\ c.unsentFragments
              /\ c.unsent \in Message
              /\ c.unsentFragmentStart <= c.unsent.len

\* The fragment to be sent is a piece of the message, and it is the last one
\* exactly if it is shorter than FragmentSize.
LEMMA FragmentBounds ==
  ASSUME NEW c, Sending(c)
  PROVE  /\ NextFragmentLength(c) \in 0 .. FragmentSize
         /\ c.unsentFragmentStart + NextFragmentLength(c) <= c.unsent.len
         /\ IsLastFragment(c) <=> NextFragmentLength(c) # FragmentSize
         /\ IsLastFragment(c) =>
              c.unsentFragmentStart + NextFragmentLength(c) = c.unsent.len
  BY DEF Sending, SenderType, NextFragmentLength, IsLastFragment, Message

\* Sending a fragment either finishes the message, and moves to the next
\* sequence number, or leaves the sender in the middle of the same message.
LEMMA FragmentStep ==
  ASSUME NEW c, Sending(c)
  PROVE  LET d == Netchan_TransmitNextFragment(c)
         IN  /\ d \in SenderType
             /\ d.unsent = c.unsent
             /\ \/ /\ Sending(d)
                   /\ d.outgoingSequence = c.outgoingSequence
                \/ /\ ~d.unsentFragments
                   /\ d.outgoingSequence = c.outgoingSequence + 1
  <1> DEFINE moved == [c EXCEPT !.unsentFragmentStart =
                         c.unsentFragmentStart + NextFragmentLength(c)]
             done == [moved EXCEPT
                        !.outgoingSequence = c.outgoingSequence + 1,
                        !.unsentFragments = FALSE]
  <1>1. moved \in SenderType /\ Sending(moved)
    BY FragmentBounds DEF Sending, SenderType
  <1>2. done \in SenderType /\ done.unsent = c.unsent /\ ~done.unsentFragments
        /\ done.outgoingSequence = c.outgoingSequence + 1
    <2> DEFINE next == c.outgoingSequence + 1
               base == moved
    <2>1. next \in Nat \ {0}
      BY DEF Sending, SenderType
    <2>2. base \in SenderType /\ base.unsent = c.unsent
      BY <1>1 DEF Sending, SenderType
    <2> HIDE DEF next, base
    <2>3. [base EXCEPT !.outgoingSequence = next, !.unsentFragments = FALSE]
            \in SenderType
      BY <2>1, <2>2 DEF SenderType
    <2>4. LET d == [base EXCEPT !.outgoingSequence = next,
                                !.unsentFragments = FALSE]
          IN  /\ d.unsent = base.unsent /\ ~d.unsentFragments
              /\ d.outgoingSequence = next
      BY <2>1, <2>2 DEF SenderType
    <2>5. QED
      BY <2>2, <2>3, <2>4 DEF next, base
  <1>3. /\ moved.unsent = c.unsent
        /\ moved.outgoingSequence = c.outgoingSequence
    BY DEF Sending, SenderType
  <1>4. Netchan_TransmitNextFragment(c) = IF IsLastFragment(c) THEN done ELSE moved
    BY <1>3 DEF Netchan_TransmitNextFragment, Sending, SenderType
  <1>5. QED
    BY <1>1, <1>2, <1>3, <1>4

\* Loading the fragment buffer keeps the sequence number.
LEMMA LoadedStep ==
  ASSUME NEW c \in SenderType, NEW m \in Message
  PROVE  /\ Sending(Loaded(c, m)) /\ Loaded(c, m).unsent = m
         /\ Loaded(c, m).outgoingSequence = c.outgoingSequence
  <1>1. /\ Loaded(c, m) \in SenderType
        /\ Loaded(c, m).unsentFragments
        /\ Loaded(c, m).unsentFragmentStart = 0
        /\ Loaded(c, m).unsent = m
        /\ Loaded(c, m).outgoingSequence = c.outgoingSequence
    BY DEF Loaded, SenderType
  <1>2. QED
    BY <1>1 DEF Sending, Message

\* Transmitting a message from an idle sender gives it the next sequence
\* number: either the sender is in the middle of that message, or done.
LEMMA TransmitStep ==
  ASSUME NEW c \in SenderType, ~c.unsentFragments, NEW m \in Message
  PROVE  LET d == Netchan_Transmit(c, m)
         IN  /\ d \in SenderType
             /\ \/ /\ Sending(d) /\ d.unsent = m
                   /\ d.outgoingSequence = c.outgoingSequence
                \/ /\ ~d.unsentFragments
                   /\ d.outgoingSequence = c.outgoingSequence + 1
  <1>1. CASE m.len >= FragmentSize
    BY <1>1, LoadedStep, FragmentStep DEF Netchan_Transmit
  <1>2. CASE ~(m.len >= FragmentSize)
    <2> DEFINE next == c.outgoingSequence + 1
    <2>1. next \in Nat \ {0}
      BY DEF SenderType
    <2>2. Netchan_Transmit(c, m) = [c EXCEPT !.unsentFragmentStart = 0,
                                             !.outgoingSequence = next]
      BY <1>2 DEF Netchan_Transmit, SenderType
    <2> HIDE DEF next
    <2>3. Netchan_Transmit(c, m) \in SenderType
      <3>1. \A z \in Nat : [c EXCEPT !.unsentFragmentStart = z,
                                     !.outgoingSequence = next] \in SenderType
        BY <2>1 DEF SenderType
      <3>2. QED
        BY <2>2, <3>1
    <2>4. Netchan_Transmit(c, m).unsentFragments = c.unsentFragments
      BY <2>1, <2>2 DEF SenderType
    <2>5. Netchan_Transmit(c, m).outgoingSequence = next
      BY <2>1, <2>2 DEF SenderType
    <2>6. QED
      BY <2>3, <2>4, <2>5 DEF next
  <1>3. QED
    BY <1>1, <1>2

\* A packet that is a piece of message m, sent under sequence number n.
PieceOf(p, n, m) ==
  /\ p \in Packet /\ p.sequence = n /\ p.id = m.id
  /\ p.start + p.len <= m.len
  /\ p.fragmented /\ p.len # FragmentSize => p.start + p.len = m.len
  /\ ~p.fragmented => p.start = 0 /\ p.len = m.len

LEMMA NextFragmentIsPiece ==
  ASSUME NEW c, Sending(c)
  PROVE  PieceOf(NextFragment(c), c.outgoingSequence, c.unsent)
  BY FragmentBounds DEF PieceOf, NextFragment, Sending, SenderType, Packet,
                        Message

LEMMA FirstPacketIsPiece ==
  ASSUME NEW c \in SenderType, NEW m \in Message
  PROVE  PieceOf(FirstPacket(c, m), c.outgoingSequence, m)
  <1>1. CASE m.len >= FragmentSize
    BY <1>1, LoadedStep, NextFragmentIsPiece DEF FirstPacket
  <1>2. CASE ~(m.len >= FragmentSize)
    BY <1>2 DEF FirstPacket, PieceOf, Packet, SenderType, Message
  <1>3. QED
    BY <1>1, <1>2
-----------------------------------------------------------------------------
(* The inductive invariant.                                                *)

LEMMA InitEstablishes == Init => IInv
  BY DEF Init, IInv, TypeOK, SenderInv, PacketInv, AssemblyInv, LastInv,
         DeliveredWhole, DeliveredInOrder, Netchan_Setup, NoMessage, Byte,
         NoByte, Channel!LastDelivered

\* A message of the history keeps its place when the history grows, so what
\* was sent and received before stays right.
LEMMA HistoryGrows ==
  ASSUME IInv, NEW m \in Message,
         sent' = sent \/ sent' = Append(sent, m),
         UNCHANGED recvVars
  PROVE  /\ sent' \in Seq(Message)
         /\ \A n \in DOMAIN sent : n \in DOMAIN sent' /\ sent'[n] = sent[n]
         /\ AssemblyInv' /\ LastInv' /\ DeliveredWhole' /\ DeliveredInOrder'
  <1>1. /\ sent' \in Seq(Message)
        /\ \A n \in DOMAIN sent : n \in DOMAIN sent' /\ sent'[n] = sent[n]
    <2>1. sent \in Seq(Message)
      BY DEF IInv, TypeOK
    <2>2. CASE sent' = sent
      BY <2>1, <2>2
    <2>3. CASE sent' = Append(sent, m)
      BY <2>1, <2>3
    <2>4. QED
      BY <2>2, <2>3
  <1>2. AssemblyInv'
    BY <1>1 DEF IInv, AssemblyInv, recvVars
  <1>3. LastInv'
    BY DEF IInv, LastInv, recvVars, Channel!LastDelivered
  <1>4. DeliveredWhole'
    BY <1>1 DEF IInv, DeliveredWhole, recvVars, Channel!Bytes
  <1>5. DeliveredInOrder'
    BY DEF IInv, DeliveredInOrder, recvVars
  <1>6. QED
    BY <1>1, <1>2, <1>3, <1>4, <1>5

\* New packets that are pieces of numbered messages keep PacketInv.
LEMMA PacketsGrow ==
  ASSUME IInv, NEW new, net' = net \cup new,
         \A n \in DOMAIN sent : n \in DOMAIN sent' /\ sent'[n] = sent[n],
         \A p \in new : /\ p.sequence \in DOMAIN sent'
                        /\ PieceOf(p, p.sequence, sent'[p.sequence])
  PROVE  PacketInv' /\ net' \subseteq Packet
  <1>1. \A p \in new : p \in Packet
    BY DEF PieceOf
  <1>2. net \subseteq Packet
    BY DEF IInv, TypeOK
  <1>3. ASSUME NEW p \in net'
        PROVE  /\ p.sequence \in DOMAIN sent'
               /\ p.id = sent'[p.sequence].id
               /\ p.start + p.len <= sent'[p.sequence].len
               /\ p.fragmented /\ p.len # FragmentSize =>
                    p.start + p.len = sent'[p.sequence].len
               /\ ~p.fragmented => p.start = 0 /\ p.len = sent'[p.sequence].len
    <2>1. CASE p \in net
      BY <2>1 DEF IInv, PacketInv
    <2>2. CASE p \in new
      BY <2>2 DEF PieceOf
    <2>3. QED
      BY <2>1, <2>2
  <1>4. QED
    BY <1>1, <1>2, <1>3 DEF PacketInv

\* The sender in the middle of a message, in terms of the history.
LEMMA SenderIsSending ==
  ASSUME IInv, chan.unsentFragments
  PROVE  /\ Sending(chan) /\ Len(sent) \in DOMAIN sent
         /\ chan.outgoingSequence = Len(sent)
         /\ chan.unsent = sent[Len(sent)]
  <1>1. chan \in SenderType /\ chan.outgoingSequence = Len(sent)
        /\ chan.unsent = sent[Len(sent)]
        /\ chan.unsentFragmentStart <= chan.unsent.len
    BY DEF IInv, TypeOK, SenderInv, SenderType
  <1>2. sent \in Seq(Message) /\ Len(sent) \in Nat \ {0}
    BY <1>1 DEF IInv, TypeOK, SenderType
  <1>3. QED
    BY <1>1, <1>2 DEF Sending

LEMMA SendNowPreserves ==
  ASSUME IInv, NEW len \in 1 .. MaxMsgLen, calls < MaxMessages,
         calls' = calls + 1, SendNow([id |-> calls + 1, len |-> len]),
         UNCHANGED recvVars
  PROVE  IInv'
  <1> DEFINE m == [id |-> calls + 1, len |-> len]
             p == FirstPacket(chan, m)
  <1>1. m \in Message /\ calls' \in 0 .. MaxMessages
    BY DEF IInv, TypeOK, Message
  <1> HIDE DEF m
  <1>2. /\ ~chan.unsentFragments /\ chan' = Netchan_Transmit(chan, m)
        /\ net' = net \cup {p} /\ sent' = Append(sent, m) /\ queue' = queue
    BY DEF SendNow, m
  <1>3. /\ chan \in SenderType /\ chan.outgoingSequence = Len(sent) + 1
        /\ sent \in Seq(Message)
    BY <1>2 DEF IInv, TypeOK, SenderInv, SenderType
  <1>4. /\ sent' \in Seq(Message) /\ Len(sent') = Len(sent) + 1
        /\ sent'[Len(sent) + 1] = m /\ Len(sent) + 1 \in DOMAIN sent'
    BY <1>1, <1>2, <1>3
  <1>5. /\ \A n \in DOMAIN sent : n \in DOMAIN sent' /\ sent'[n] = sent[n]
        /\ AssemblyInv' /\ LastInv' /\ DeliveredWhole' /\ DeliveredInOrder'
    BY <1>1, <1>2, HistoryGrows
  <1>6. p.sequence = Len(sent) + 1 /\ PieceOf(p, Len(sent) + 1, m)
    BY <1>1, <1>3, FirstPacketIsPiece DEF PieceOf
  <1>7. PacketInv' /\ net' \subseteq Packet
    <2> DEFINE new == {p}
    <2>1. /\ net' = net \cup new
          /\ \A q \in new : /\ q.sequence \in DOMAIN sent'
                           /\ PieceOf(q, q.sequence, sent'[q.sequence])
      BY <1>2, <1>4, <1>6
    <2> HIDE DEF new
    <2>2. QED
      BY <1>5, <2>1, PacketsGrow
  <1>8. chan' \in SenderType /\ SenderInv'
    BY <1>1, <1>2, <1>3, <1>4, TransmitStep DEF SenderInv, Sending
  <1>9. TypeOK'
    BY <1>1, <1>2, <1>4, <1>7, <1>8 DEF IInv, TypeOK, SenderType, recvVars
  <1>10. QED
    BY <1>5, <1>7, <1>8, <1>9 DEF IInv

LEMMA StackPreserves ==
  ASSUME IInv, NEW len \in 1 .. MaxMsgLen, calls < MaxMessages,
         calls' = calls + 1, Stack([id |-> calls + 1, len |-> len]),
         UNCHANGED recvVars
  PROVE  IInv'
  <1> DEFINE m == [id |-> calls + 1, len |-> len]
             p == NextFragment(chan)
  <1>1. m \in Message /\ calls' \in 0 .. MaxMessages
    BY DEF IInv, TypeOK, Message
  <1> HIDE DEF m
  <1>2. /\ chan.unsentFragments
        /\ chan' = Netchan_TransmitNextFragment(chan)
        /\ net' = net \cup {p} /\ sent' = sent /\ queue' = Append(queue, m)
    BY DEF Stack, m
  <1>3. /\ Sending(chan) /\ Len(sent) \in DOMAIN sent
        /\ chan.outgoingSequence = Len(sent) /\ chan.unsent = sent[Len(sent)]
    BY <1>2, SenderIsSending
  <1>4. queue' \in Seq(Message)
    BY <1>1, <1>2 DEF IInv, TypeOK
  <1>5. /\ \A n \in DOMAIN sent : n \in DOMAIN sent' /\ sent'[n] = sent[n]
        /\ AssemblyInv' /\ LastInv' /\ DeliveredWhole' /\ DeliveredInOrder'
    BY <1>1, <1>2, HistoryGrows
  <1>6. p.sequence = Len(sent) /\ PieceOf(p, Len(sent), sent[Len(sent)])
    BY <1>3, NextFragmentIsPiece DEF PieceOf
  <1>7. PacketInv' /\ net' \subseteq Packet
    <2> DEFINE new == {p}
    <2>1. /\ net' = net \cup new
          /\ \A q \in new : /\ q.sequence \in DOMAIN sent'
                           /\ PieceOf(q, q.sequence, sent'[q.sequence])
      BY <1>2, <1>3, <1>6
    <2> HIDE DEF new
    <2>2. QED
      BY <1>5, <2>1, PacketsGrow
  <1>8. chan' \in SenderType /\ SenderInv'
    BY <1>2, <1>3, FragmentStep DEF SenderInv, Sending
  <1>9. TypeOK'
    BY <1>1, <1>2, <1>4, <1>7, <1>8 DEF IInv, TypeOK, SenderType, recvVars
  <1>10. QED
    BY <1>5, <1>7, <1>8, <1>9 DEF IInv

LEMMA NextFragmentPreserves ==
  ASSUME IInv, SV_Netchan_TransmitNextFragment
  PROVE  IInv'
  <1> DEFINE after == Netchan_TransmitNextFragment(chan)
             f == NextFragment(chan)
  <1>1. chan.unsentFragments /\ calls' = calls /\ UNCHANGED recvVars
    BY DEF SV_Netchan_TransmitNextFragment
  <1>2. /\ Sending(chan) /\ Len(sent) \in DOMAIN sent
        /\ chan.outgoingSequence = Len(sent) /\ chan.unsent = sent[Len(sent)]
    BY <1>1, SenderIsSending
  <1>3. f.sequence = Len(sent) /\ PieceOf(f, Len(sent), sent[Len(sent)])
    BY <1>2, NextFragmentIsPiece DEF PieceOf
  <1>4. /\ after \in SenderType /\ after.unsent = chan.unsent
        /\ \/ Sending(after) /\ after.outgoingSequence = Len(sent)
           \/ /\ ~after.unsentFragments
              /\ after.outgoingSequence = Len(sent) + 1
    BY <1>2, FragmentStep
  <1>5. sent \in Seq(Message) /\ queue \in Seq(Message)
    BY DEF IInv, TypeOK
  <1>6. CASE ~after.unsentFragments /\ queue # <<>>
    <2> DEFINE m == Head(queue)
               p == FirstPacket(after, m)
    <2>1. m \in Message /\ Tail(queue) \in Seq(Message)
      BY <1>5, <1>6
    <2> HIDE DEF m
    <2>2. /\ chan' = Netchan_Transmit(after, m)
          /\ net' = net \cup {f, p}
          /\ sent' = Append(sent, m) /\ queue' = Tail(queue)
      BY <1>6 DEF SV_Netchan_TransmitNextFragment, m
    <2>3. after.outgoingSequence = Len(sent) + 1
      BY <1>4, <1>6 DEF Sending
    <2>4. /\ sent' \in Seq(Message) /\ Len(sent') = Len(sent) + 1
          /\ sent'[Len(sent) + 1] = m /\ Len(sent) + 1 \in DOMAIN sent'
      BY <1>5, <2>1, <2>2
    <2>5. /\ \A n \in DOMAIN sent : n \in DOMAIN sent' /\ sent'[n] = sent[n]
          /\ AssemblyInv' /\ LastInv' /\ DeliveredWhole' /\ DeliveredInOrder'
      BY <1>1, <2>1, <2>2, HistoryGrows
    <2>6. p.sequence = Len(sent) + 1 /\ PieceOf(p, Len(sent) + 1, m)
      BY <1>4, <2>1, <2>3, FirstPacketIsPiece DEF PieceOf
    <2>7. PacketInv' /\ net' \subseteq Packet
      <3> DEFINE new == {f, p}
      <3>1. /\ net' = net \cup new
            /\ \A q \in new : /\ q.sequence \in DOMAIN sent'
                             /\ PieceOf(q, q.sequence, sent'[q.sequence])
        BY <1>2, <1>3, <2>2, <2>4, <2>5, <2>6
      <3> HIDE DEF new
      <3>2. QED
        BY <2>5, <3>1, PacketsGrow
    <2>8. chan' \in SenderType /\ SenderInv'
      BY <1>4, <1>6, <2>1, <2>2, <2>3, <2>4, TransmitStep
      DEF SenderInv, Sending
    <2>9. TypeOK'
      BY <1>1, <2>1, <2>2, <2>4, <2>7, <2>8
      DEF IInv, TypeOK, SenderType, recvVars
    <2>10. QED
      BY <2>5, <2>7, <2>8, <2>9 DEF IInv
  <1>7. CASE ~(~after.unsentFragments /\ queue # <<>>)
    <2>1. /\ chan' = after /\ net' = net \cup {f}
          /\ sent' = sent /\ queue' = queue
      BY <1>7 DEF SV_Netchan_TransmitNextFragment
    <2>2. sent[Len(sent)] \in Message
      BY <1>2, <1>5
    <2>3. /\ \A n \in DOMAIN sent : n \in DOMAIN sent' /\ sent'[n] = sent[n]
          /\ AssemblyInv' /\ LastInv' /\ DeliveredWhole' /\ DeliveredInOrder'
      BY <1>1, <2>1, <2>2, HistoryGrows
    <2>4. PacketInv' /\ net' \subseteq Packet
      <3> DEFINE new == {f}
      <3>1. /\ net' = net \cup new
            /\ \A q \in new : /\ q.sequence \in DOMAIN sent'
                             /\ PieceOf(q, q.sequence, sent'[q.sequence])
        BY <1>2, <1>3, <2>1
      <3> HIDE DEF new
      <3>2. QED
        BY <2>3, <3>1, PacketsGrow
    <2>5. chan' \in SenderType /\ SenderInv'
      BY <1>2, <1>4, <2>1 DEF SenderInv, Sending
    <2>6. TypeOK'
      BY <1>1, <1>5, <2>1, <2>4, <2>5 DEF IInv, TypeOK, SenderType, recvVars
    <2>7. QED
      BY <2>3, <2>4, <2>5, <2>6 DEF IInv
  <1>8. QED
    BY <1>6, <1>7
-----------------------------------------------------------------------------
(* Receiving.                                                              *)

\* A fragment that is stored fits behind a prefix of its own message, so the
\* buffer holds a longer prefix of it.
LEMMA CopiedIsPrefix ==
  ASSUME IInv, NEW p \in net, p.fragmented, Fits(p)
  PROVE  /\ Assembled(p) + p.len \in 0 .. MaxMsgLen
         /\ Assembled(p) + p.len <= sent[p.sequence].len
         /\ Copied(p) \in [0 .. MaxMsgLen - 1 -> Byte]
         /\ \A k \in 0 .. Assembled(p) + p.len - 1 :
              Copied(p)[k] = <<sent[p.sequence].id, k>>
  <1>1. /\ p.start \in Nat /\ p.len \in Nat /\ p.id \in Nat
        /\ p.sequence \in DOMAIN sent
        /\ p.id = sent[p.sequence].id
        /\ p.start + p.len <= sent[p.sequence].len
    BY DEF IInv, TypeOK, PacketInv, Packet
  <1>2. /\ p.start = Assembled(p) /\ Assembled(p) + p.len <= MaxMsgLen
        /\ Assembled(p) \in Nat
    BY <1>1 DEF Fits
  <1>3. \A k \in 0 .. Assembled(p) - 1 :
          fragmentBuffer[k] = <<sent[p.sequence].id, k>>
    BY DEF Assembled, IInv, AssemblyInv, TypeOK
  <1>4. fragmentBuffer \in [0 .. MaxMsgLen - 1 -> Byte]
    BY DEF IInv, TypeOK
  <1>5. ASSUME NEW k \in 0 .. MaxMsgLen - 1
        PROVE  /\ Copied(p)[k] \in Byte
               /\ k < Assembled(p) + p.len =>
                    Copied(p)[k] = <<sent[p.sequence].id, k>>
    <2>1. CASE k \in Assembled(p) .. Assembled(p) + p.len - 1
      <3>1. Copied(p)[k] = <<p.id, k>>
        BY <1>1, <1>2, <2>1 DEF Copied
      <3>2. QED
        BY <1>1, <3>1 DEF Byte
    <2>2. CASE k \notin Assembled(p) .. Assembled(p) + p.len - 1
      <3>1. Copied(p)[k] = fragmentBuffer[k]
        BY <2>2 DEF Copied
      <3>2. k < Assembled(p) + p.len => k \in 0 .. Assembled(p) - 1
        BY <1>1, <1>2, <2>2
      <3>3. QED
        BY <1>3, <1>4, <3>1, <3>2
    <2>3. QED
      BY <2>1, <2>2
  <1>6. Copied(p) \in [0 .. MaxMsgLen - 1 -> Byte]
    <2>1. Copied(p) = [k \in 0 .. MaxMsgLen - 1 |-> Copied(p)[k]]
      BY DEF Copied
    <2>2. QED
      BY <1>5, <2>1
  <1>7. Assembled(p) + p.len \in 0 .. MaxMsgLen
    BY <1>1, <1>2
  <1>8. \A k \in 0 .. Assembled(p) + p.len - 1 : k \in 0 .. MaxMsgLen - 1
    BY <1>1, <1>2
  <1>9. QED
    BY <1>1, <1>2, <1>5, <1>6, <1>7, <1>8

\* Delivering the bytes of a message newer than the last one delivered.
LEMMA DeliveryPreserves ==
  ASSUME IInv, NEW p \in net, p.sequence > incomingSequence,
         UNCHANGED sent, NEW data, data = Channel!Bytes(sent[p.sequence]),
         Delivery(p, data)
  PROVE  /\ incomingSequence' \in Nat
         /\ delivered' \in Seq([sequence : Nat, data : Seq(Byte)])
         /\ LastInv' /\ DeliveredWhole' /\ DeliveredInOrder'
  <1> DEFINE D == [sequence : Nat, data : Seq(Byte)]
             d == [sequence |-> p.sequence, data |-> data]
             n == Len(delivered)
  <1>1. /\ p.sequence \in DOMAIN sent /\ p.sequence \in Nat
        /\ sent[p.sequence] \in Message /\ sent' = sent
    BY DEF IInv, TypeOK, PacketInv, Packet
  <1>2. data \in Seq(Byte)
    BY <1>1 DEF Channel!Bytes, Message, Byte
  <1>3. d \in D /\ d.sequence = p.sequence /\ d.data = data
    BY <1>1, <1>2
  <1>4. delivered \in Seq(D) /\ incomingSequence \in Nat
    BY DEF IInv, TypeOK
  <1>5. \A e \in D : e.sequence \in Nat
    OBVIOUS
  <1>6. incomingSequence' = p.sequence /\ delivered' = Append(delivered, d)
    BY DEF Delivery
  <1> HIDE DEF d, D
  <1>7. /\ delivered' \in Seq(D)
        /\ Len(delivered') = n + 1 /\ delivered' # <<>>
        /\ delivered'[n + 1] = d
        /\ \A i \in 1 .. n : delivered'[i] = delivered[i] /\ delivered[i] \in D
        /\ DOMAIN delivered' = 1 .. n + 1
        /\ DOMAIN delivered = 1 .. n /\ n \in Nat
        /\ delivered # <<>> => n >= 1
        /\ delivered = <<>> => n = 0
    BY <1>3, <1>4, <1>6
  <1> HIDE DEF n
  <1>8. LastInv'
    BY <1>3, <1>6, <1>7 DEF LastInv, Channel!LastDelivered
  <1>9. DeliveredWhole'
    <2> SUFFICES ASSUME NEW i \in 1 .. n + 1
                 PROVE  /\ delivered'[i].sequence \in DOMAIN sent
                        /\ delivered'[i].data =
                             Channel!Bytes(sent[delivered'[i].sequence])
      BY <1>1, <1>7 DEF DeliveredWhole
    <2>1. CASE i = n + 1
      BY <1>1, <1>3, <1>7, <2>1
    <2>2. CASE i \in 1 .. n
      BY <1>7, <2>2 DEF IInv, DeliveredWhole
    <2>3. QED
      BY <1>7, <2>1, <2>2
  <1>10. \A i \in 1 .. n : /\ delivered[i].sequence \in Nat
                           /\ delivered[i].sequence <= incomingSequence
    <2> SUFFICES ASSUME NEW i \in 1 .. n
                 PROVE  /\ delivered[i].sequence \in Nat
                        /\ delivered[i].sequence <= incomingSequence
      OBVIOUS
    <2>1. delivered # <<>> /\ n \in 1 .. n /\ n = Len(delivered)
      BY <1>7 DEF n
    <2>2. incomingSequence = delivered[n].sequence
      BY <2>1 DEF IInv, LastInv, Channel!LastDelivered
    <2>3. delivered[i].sequence \in Nat
      BY <1>5, <1>7
    <2>4. i < n => delivered[i].sequence < delivered[n].sequence
      BY <1>7, <2>1 DEF IInv, DeliveredInOrder
    <2>5. QED
      BY <1>4, <1>7, <2>2, <2>3, <2>4
  <1>11. DeliveredInOrder'
    <2> SUFFICES ASSUME NEW i \in 1 .. n + 1, NEW j \in 1 .. n + 1, i < j
                 PROVE  delivered'[i].sequence < delivered'[j].sequence
      BY <1>7 DEF DeliveredInOrder
    <2>1. i \in 1 .. n
      BY <1>7
    <2>2. CASE j = n + 1
      BY <1>1, <1>3, <1>4, <1>7, <1>10, <2>1, <2>2
    <2>3. CASE j \in 1 .. n
      BY <1>7, <2>1, <2>3 DEF IInv, DeliveredInOrder
    <2>4. QED
      BY <1>7, <2>2, <2>3
  <1>12. QED
    BY <1>1, <1>6, <1>7, <1>8, <1>9, <1>11 DEF D

\* Taking a packet keeps the invariant and, in the abstract channel, either
\* delivers a message or changes nothing.
LEMMA ProcessPreserves ==
  ASSUME IInv, NEW p \in net, Netchan_Process(p)
  PROVE  /\ IInv'
         /\ \/ Delivery(p, Channel!Bytes(sent[p.sequence]))
            \/ UNCHANGED delivered
  <1>1. UNCHANGED sendVars /\ p.sequence > incomingSequence
    BY DEF Netchan_Process
  <1>2. /\ SenderInv' /\ PacketInv'
        /\ chan' \in SenderType /\ queue' \in Seq(Message)
        /\ calls' \in 0 .. MaxMessages /\ net' \subseteq Packet
        /\ sent' \in Seq(Message)
    BY <1>1 DEF IInv, TypeOK, SenderInv, PacketInv, sendVars, SenderType
  <1>3. /\ p \in Packet /\ p.sequence \in DOMAIN sent
        /\ sent[p.sequence] \in Message
        /\ p.fragmented /\ p.len # FragmentSize =>
             p.start + p.len = sent[p.sequence].len
        /\ p.id = sent[p.sequence].id
    BY DEF IInv, TypeOK, PacketInv
  <1>4. sent' = sent
    BY <1>1 DEF sendVars
  <1>5. fragmentLength \in 0 .. MaxMsgLen /\ Assembled(p) \in 0 .. MaxMsgLen
    BY DEF IInv, TypeOK, Assembled
  <1>6. CASE ReceiveUnfragmented(p)
    <2> DEFINE data == [k \in 1 .. p.len |-> <<p.id, p.start + k - 1>>]
    <2>1. p.start = 0 /\ p.len = sent[p.sequence].len /\ p.len \in Nat
      BY <1>6 DEF ReceiveUnfragmented, IInv, PacketInv, TypeOK, Packet
    <2>2. data = Channel!Bytes(sent[p.sequence])
      <3>1. \A k \in 1 .. p.len : p.start + k - 1 = k - 1
        BY <2>1
      <3>2. QED
        BY <1>3, <2>1, <3>1 DEF Channel!Bytes
    <2>3. Delivery(p, data)
      BY <1>6 DEF ReceiveUnfragmented
    <2> HIDE DEF data
    <2>4. /\ incomingSequence' \in Nat
          /\ delivered' \in Seq([sequence : Nat, data : Seq(Byte)])
          /\ LastInv' /\ DeliveredWhole' /\ DeliveredInOrder'
      BY <1>1, <1>4, <2>2, <2>3, DeliveryPreserves
    <2>5. /\ AssemblyInv' /\ fragmentSequence' = fragmentSequence
          /\ fragmentLength' = fragmentLength /\ fragmentBuffer' = fragmentBuffer
      BY <1>4, <1>6 DEF ReceiveUnfragmented, IInv, AssemblyInv
    <2>6. TypeOK'
      BY <1>2, <2>4, <2>5 DEF IInv, TypeOK, SenderType
    <2>7. QED
      BY <1>2, <2>2, <2>3, <2>4, <2>5, <2>6 DEF IInv
  <1>7. CASE MissedFragment(p)
    <2>1. /\ fragmentSequence' = p.sequence /\ fragmentLength' = Assembled(p)
          /\ incomingSequence' = incomingSequence
          /\ fragmentBuffer' = fragmentBuffer /\ delivered' = delivered
      BY <1>7 DEF MissedFragment
    <2>2. AssemblyInv'
      BY <1>4, <2>1 DEF IInv, AssemblyInv, Assembled
    <2>3. TypeOK'
      BY <1>2, <1>3, <1>5, <2>1 DEF IInv, TypeOK, SenderType, Packet
    <2>4. LastInv' /\ DeliveredWhole' /\ DeliveredInOrder'
      BY <1>4, <2>1 DEF IInv, LastInv, DeliveredWhole, DeliveredInOrder,
                        Channel!LastDelivered
    <2>5. QED
      BY <1>2, <2>1, <2>2, <2>3, <2>4 DEF IInv
  <1>8. CASE StoreFragment(p)
    <2>1. /\ fragmentSequence' = p.sequence
          /\ fragmentLength' = Assembled(p) + p.len
          /\ fragmentBuffer' = Copied(p)
          /\ incomingSequence' = incomingSequence /\ delivered' = delivered
          /\ p.fragmented /\ Fits(p)
      BY <1>8 DEF StoreFragment
    <2>2. /\ fragmentLength' <= sent[p.sequence].len
          /\ \A k \in 0 .. fragmentLength' - 1 :
               fragmentBuffer'[k] = <<sent[p.sequence].id, k>>
      <3>1. /\ Assembled(p) + p.len <= sent[p.sequence].len
            /\ \A k \in 0 .. Assembled(p) + p.len - 1 :
                 Copied(p)[k] = <<sent[p.sequence].id, k>>
        BY <2>1, CopiedIsPrefix
      <3>2. QED
        BY <1>3, <1>5, <2>1, <3>1 DEF Packet
    <2>3. AssemblyInv'
      BY <1>3, <1>4, <2>1, <2>2 DEF AssemblyInv
    <2>4. TypeOK'
      <3>1. /\ fragmentLength' \in 0 .. MaxMsgLen
            /\ fragmentBuffer' \in [0 .. MaxMsgLen - 1 -> Byte]
        BY <2>1, CopiedIsPrefix
      <3>2. QED
        BY <1>2, <1>3, <2>1, <3>1 DEF IInv, TypeOK, SenderType, Packet
    <2>5. LastInv' /\ DeliveredWhole' /\ DeliveredInOrder'
      BY <1>4, <2>1 DEF IInv, LastInv, DeliveredWhole, DeliveredInOrder,
                        Channel!LastDelivered
    <2>6. QED
      BY <1>2, <2>1, <2>3, <2>4, <2>5 DEF IInv
  <1>9. CASE CompleteMessage(p)
    <2> DEFINE n == Assembled(p) + p.len
               data == [k \in 1 .. n |-> Copied(p)[k - 1]]
    <2>1. /\ fragmentSequence' = p.sequence /\ fragmentLength' = 0
          /\ fragmentBuffer' = Copied(p) /\ p.fragmented /\ Fits(p)
          /\ Delivery(p, data) /\ p.len # FragmentSize
      BY <1>9 DEF CompleteMessage
    <2>2. n = sent[p.sequence].len /\ n \in Nat
      BY <1>3, <2>1, CopiedIsPrefix DEF Fits
    <2>3. \A k \in 1 .. n : Copied(p)[k - 1] = <<sent[p.sequence].id, k - 1>>
      <3>1. \A k \in 1 .. n : k - 1 \in 0 .. n - 1
        BY <2>2
      <3>2. \A k \in 0 .. Assembled(p) + p.len - 1 :
              Copied(p)[k] = <<sent[p.sequence].id, k>>
        BY <2>1, CopiedIsPrefix
      <3>3. QED
        BY <1>3, <1>5, <3>1, <3>2 DEF Packet
    <2>4. data = Channel!Bytes(sent[p.sequence])
      BY <2>2, <2>3 DEF Channel!Bytes
    <2> HIDE DEF data
    <2>5. /\ incomingSequence' \in Nat
          /\ delivered' \in Seq([sequence : Nat, data : Seq(Byte)])
          /\ LastInv' /\ DeliveredWhole' /\ DeliveredInOrder'
      BY <1>1, <1>4, <2>1, <2>4, DeliveryPreserves
    <2>6. AssemblyInv'
      BY <2>1 DEF AssemblyInv
    <2>7. TypeOK'
      <3>1. /\ fragmentBuffer' \in [0 .. MaxMsgLen - 1 -> Byte]
            /\ fragmentSequence' \in Nat /\ fragmentLength' \in 0 .. MaxMsgLen
        BY <1>3, <1>5, <2>1, CopiedIsPrefix DEF Packet
      <3>2. QED
        BY <1>2, <2>5, <3>1 DEF IInv, TypeOK, SenderType
    <2>8. QED
      BY <1>2, <2>1, <2>4, <2>5, <2>6, <2>7 DEF IInv
  <1>10. QED
    BY <1>6, <1>7, <1>8, <1>9 DEF Netchan_Process
-----------------------------------------------------------------------------
LEMMA NextPreserves == IInv /\ [Next]_vars => IInv'
  <1> SUFFICES ASSUME IInv, [Next]_vars
               PROVE  IInv'
    OBVIOUS
  <1>1. ASSUME NEW len \in 1 .. MaxMsgLen, SV_Netchan_Transmit(len)
        PROVE  IInv'
    BY <1>1, SendNowPreserves, StackPreserves DEF SV_Netchan_Transmit
  <1>2. CASE SV_Netchan_TransmitNextFragment
    BY <1>2, NextFragmentPreserves
  <1>3. ASSUME NEW p \in net, Netchan_Process(p)
        PROVE  IInv'
    BY <1>3, ProcessPreserves
  <1>4. CASE UNCHANGED vars
    BY <1>4 DEF vars, sendVars, recvVars, IInv, TypeOK, SenderInv, PacketInv,
                AssemblyInv, LastInv, DeliveredWhole, DeliveredInOrder,
                Channel!LastDelivered
  <1>5. QED
    BY <1>1, <1>2, <1>3, <1>4 DEF Next

\* The strengthened invariant holds in every behaviour of the channel.
THEOREM Inductive == Spec => []IInv
  BY InitEstablishes, NextPreserves, PTL DEF Spec

\* The state of sender, network and receiver keeps its types: sequence
\* numbers, the fragment offsets and the assembled length stay in range, for
\* every FRAGMENT_SIZE and MAX_MSGLEN.
THEOREM TypeCorrect == Spec => []TypeOK
  BY Inductive, PTL DEF IInv

\* No two messages share a sequence number on the wire, whatever the order in
\* which the server's callers hand over messages while fragments are unsent.
THEOREM SequencesUnique == Spec => []SequenceNotReused
  <1>1. IInv => SequenceNotReused
    BY DEF IInv, PacketInv, SequenceNotReused
  <1>2. QED
    BY <1>1, Inductive, PTL

\* The receiver never gets a message with a byte missing, misplaced or taken
\* from another message (Netchan_Process).
THEOREM WholeMessages == Spec => []DeliveredWhole
  BY Inductive, PTL DEF IInv

\* The receiver never gets a message twice or out of order (Netchan_Process).
THEOREM OrderedDelivery == Spec => []DeliveredInOrder
  BY Inductive, PTL DEF IInv

\* Every step of the packets is a step of the abstract channel or leaves its
\* histories alone.
LEMMA StepRefines ==
  IInv /\ [Next]_vars => [Channel!Next]_(Channel!channelVars)
  <1> SUFFICES ASSUME IInv, [Next]_vars
               PROVE  Channel!Next \/ UNCHANGED <<sent, delivered>>
    BY DEF Channel!channelVars
  <1> USE DEF Channel!Next
  <1>1. ASSUME NEW len \in 1 .. MaxMsgLen, SV_Netchan_Transmit(len)
        PROVE  Channel!Next \/ UNCHANGED <<sent, delivered>>
    <2> DEFINE m == [id |-> calls + 1, len |-> len]
    <2>1. delivered' = delivered
      BY <1>1 DEF SV_Netchan_Transmit, recvVars
    <2>2. CASE SendNow(m)
      <3>1. m \in Message
        BY <1>1 DEF SV_Netchan_Transmit, IInv, TypeOK, Message
      <3>2. sent' = Append(sent, m)
        BY <2>2 DEF SendNow
      <3>3. QED
        BY <2>1, <3>1, <3>2 DEF Channel!Transmit
    <2>3. CASE Stack(m)
      BY <2>1, <2>3 DEF Stack
    <2>4. QED
      BY <1>1, <2>2, <2>3 DEF SV_Netchan_Transmit
  <1>2. CASE SV_Netchan_TransmitNextFragment
    <2>1. delivered' = delivered
      BY <1>2 DEF SV_Netchan_TransmitNextFragment, recvVars
    <2>2. \/ sent' = sent
          \/ queue # <<>> /\ sent' = Append(sent, Head(queue))
      BY <1>2 DEF SV_Netchan_TransmitNextFragment
    <2>3. queue # <<>> => Head(queue) \in Message
      BY DEF IInv, TypeOK
    <2>4. QED
      BY <2>1, <2>2, <2>3 DEF Channel!Transmit
  <1>3. ASSUME NEW p \in net, Netchan_Process(p)
        PROVE  Channel!Next \/ UNCHANGED <<sent, delivered>>
    <2>1. sent' = sent
      BY <1>3 DEF Netchan_Process, sendVars
    <2>2. CASE Delivery(p, Channel!Bytes(sent[p.sequence]))
      <3>1. /\ p.sequence \in DOMAIN sent /\ sent \in Seq(Message)
            /\ p.sequence > incomingSequence /\ incomingSequence \in Nat
            /\ incomingSequence = Channel!LastDelivered
        BY <1>3 DEF Netchan_Process, IInv, PacketInv, TypeOK, LastInv
      <3>2. p.sequence \in Channel!LastDelivered + 1 .. Len(sent)
        BY <3>1
      <3>3. QED
        BY <2>1, <2>2, <3>2 DEF Delivery, Channel!Deliver
    <2>3. QED
      BY <1>3, <2>1, <2>2, ProcessPreserves
  <1>4. CASE UNCHANGED vars
    BY <1>4 DEF vars, sendVars, recvVars
  <1>5. QED
    BY <1>1, <1>2, <1>3, <1>4 DEF Next

\* Fragmentation, the server's queue and reassembly over a network that
\* loses, duplicates and reorders implement the abstract message channel.
THEOREM Refinement == Spec => ImplementsChannel
  <1>1. Init => Channel!Init
    BY DEF Init, Channel!Init
  <1>2. QED
    BY <1>1, StepRefines, Inductive, PTL
    DEF Spec, ImplementsChannel, Channel!Spec
=============================================================================
