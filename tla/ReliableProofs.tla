--------------------------- MODULE ReliableProofs ---------------------------
(***************************************************************************)
(* Proofs about ReliableCommands, for every ring size and any number of    *)
(* commands and messages: what holds in whatever order the messages of the *)
(* server arrive.                                                          *)
(***************************************************************************)
EXTENDS ReliableCommands, SequenceTheorems, FiniteSetTheorems, TLAPS

USE RingAssumption, BoundsAssumption
-----------------------------------------------------------------------------
(* Sequences of messages.                                                  *)

\* A sequence over any set is one over its own elements.
LEMMA IsSequenceOver ==
  ASSUME NEW S, NEW s \in Seq(S)
  PROVE  IsSequence(s)
  <1> DEFINE T == {s[i] : i \in DOMAIN s}
  <1>1. Len(s) \in Nat /\ DOMAIN s = 1 .. Len(s) /\ s = [i \in 1 .. Len(s) |-> s[i]]
    BY LenProperties
  <1>2. \A i \in 1 .. Len(s) : s[i] \in T
    BY <1>1
  <1> HIDE DEF T
  <1>3. [i \in 1 .. Len(s) |-> s[i]] \in Seq(T)
    BY <1>1, <1>2, IsASeq
  <1>4. QED
    BY <1>1, <1>3 DEF IsSequence, T

LEMMA SequenceDomain ==
  ASSUME NEW s, IsSequence(s)
  PROVE  Len(s) \in Nat /\ DOMAIN s = 1 .. Len(s)
  BY LenProperties DEF IsSequence

LEMMA SequenceAppend ==
  ASSUME NEW s, IsSequence(s), NEW x
  PROVE  /\ IsSequence(Append(s, x)) /\ Len(Append(s, x)) = Len(s) + 1
         /\ \A i \in 1 .. Len(s) : Append(s, x)[i] = s[i]
         /\ Append(s, x)[Len(s) + 1] = x
  <1> DEFINE S == {s[i] : i \in DOMAIN s} \cup {x}
  <1>1. s \in Seq(S) /\ x \in S
    BY SeqMonotonic DEF IsSequence
  <1> HIDE DEF S
  <1>2. Append(s, x) \in Seq(S)
    BY <1>1, AppendProperties
  <1>3. IsSequence(Append(s, x))
    BY <1>2, IsSequenceOver
  <1>4. QED
    BY <1>1, <1>3, AppendProperties

LEMMA SequenceSuffix ==
  ASSUME NEW s, IsSequence(s), NEW k \in DOMAIN s
  PROVE  LET t == SubSeq(s, k + 1, Len(s))
         IN  /\ IsSequence(t) /\ Len(t) = Len(s) - k
             /\ \A i \in 1 .. Len(t) : t[i] = s[i + k]
  <1> DEFINE S == {s[i] : i \in DOMAIN s}
  <1>1. s \in Seq(S) /\ Len(s) \in Nat /\ DOMAIN s = 1 .. Len(s)
    BY SequenceDomain DEF IsSequence
  <1>2. \A i \in k + 1 .. Len(s) : s[i] \in S
    BY <1>1
  <1> HIDE DEF S
  <1>3. SubSeq(s, k + 1, Len(s)) \in Seq(S)
    BY <1>1, <1>2, SubSeqProperties
  <1>4. IsSequence(SubSeq(s, k + 1, Len(s)))
    BY <1>3, IsSequenceOver
  <1>5. k + 1 \in Int /\ Len(s) \in Int /\ k \in 1 .. Len(s)
    BY <1>1
  <1>6. /\ Len(SubSeq(s, k + 1, Len(s))) = Len(s) - k
        /\ \A i \in 1 .. Len(s) - k : SubSeq(s, k + 1, Len(s))[i] = s[i + k]
    BY <1>1, <1>5
  <1>7. QED
    BY <1>4, <1>6

LEMMA SequenceTail ==
  ASSUME NEW s, IsSequence(s), s # <<>>
  PROVE  /\ IsSequence(Tail(s)) /\ Len(Tail(s)) = Len(s) - 1
         /\ \A i \in 1 .. Len(Tail(s)) : Tail(s)[i] = s[i + 1]
         /\ 1 \in DOMAIN s /\ Head(s) = s[1]
  <1> DEFINE S == {s[i] : i \in DOMAIN s}
  <1>1. s \in Seq(S)
    BY DEF IsSequence
  <1>2. Tail(s) \in Seq(S)
    BY <1>1
  <1> HIDE DEF S
  <1>3. IsSequence(Tail(s))
    BY <1>2, IsSequenceOver
  <1>4. QED
    BY <1>1, <1>3, HeadTailProperties, LenProperties, EmptySeq

\* At most one message is unsent: it is appended.
LEMMA SequenceConcat ==
  ASSUME NEW s, IsSequence(s), NEW t, IsSequence(t), t # <<>>, Len(t) <= 1
  PROVE  1 \in DOMAIN t /\ s \o t = Append(s, t[1])
  <1> DEFINE S == {s[i] : i \in DOMAIN s} \cup {t[i] : i \in DOMAIN t}
  <1>1. s \in Seq(S) /\ t \in Seq(S)
    BY SeqMonotonic DEF IsSequence
  <1> HIDE DEF S
  <1>2. Len(t) = 1 /\ DOMAIN t = {1}
    <2>1. Len(t) \in Nat \ {0} /\ DOMAIN t = 1 .. Len(t)
      BY <1>1, LenProperties, EmptySeq
    <2>2. QED
      BY <2>1
  <1>3. t[1] \in S /\ <<t[1]>> \in Seq(S) /\ Len(<<t[1]>>) = 1
    BY <1>1, <1>2
  <1>4. t = <<t[1]>>
    BY <1>1, <1>2, <1>3, SeqEqual
  <1>5. QED
    BY <1>1, <1>2, <1>3, <1>4, AppendIsConcat

LEMMA SameSequence ==
  ASSUME NEW s, IsSequence(s), NEW t, IsSequence(t), Len(s) = Len(t),
         \A i \in 1 .. Len(s) : s[i] = t[i]
  PROVE  s = t
  <1> DEFINE S == {s[i] : i \in DOMAIN s} \cup {t[i] : i \in DOMAIN t}
  <1>1. s \in Seq(S) /\ t \in Seq(S)
    BY SeqMonotonic DEF IsSequence
  <1> HIDE DEF S
  <1>2. QED
    BY <1>1, SeqEqual

LEMMA FunctionIsSequence ==
  ASSUME NEW S, NEW n \in Nat, NEW s \in [1 .. n -> S]
  PROVE  s \in Seq(S) /\ Len(s) = n
  <1>1. s = [i \in 1 .. n |-> s[i]] /\ \A i \in 1 .. n : s[i] \in S
    OBVIOUS
  <1>2. [i \in 1 .. n |-> s[i]] \in Seq(S)
    BY <1>1, IsASeq
  <1>3. s \in Seq(S) /\ DOMAIN s = 1 .. n
    BY <1>1, <1>2
  <1>4. Len(s) \in Nat /\ 1 .. Len(s) = 1 .. n
    BY <1>3, LenProperties
  <1>5. QED
    BY <1>3, <1>4
-----------------------------------------------------------------------------
(* Rings.                                                                  *)

LEMMA SlotRange == \A n \in Nat : Slot(n) \in 0 .. MAX_RELIABLE_COMMANDS - 1
  BY DEF Slot

\* Two numbers less than a ring apart have different slots.
LEMMA SlotsDiffer ==
  ASSUME NEW a \in Nat, NEW b \in Nat, a < b, b < a + MAX_RELIABLE_COMMANDS
  PROVE  Slot(a) # Slot(b)
  <1> DEFINE R == MAX_RELIABLE_COMMANDS
             p == a \div R
             q == b \div R
  <1>1. /\ a = R * p + (a % R) /\ b = R * q + (b % R)
        /\ p \in Int /\ q \in Int /\ R \in Nat \ {0}
        /\ a % R \in 0 .. R - 1 /\ b % R \in 0 .. R - 1
    OBVIOUS
  <1> HIDE DEF p, q, R
  <1>2. SUFFICES ASSUME a % R = b % R PROVE FALSE
    BY DEF Slot, R
  <1>3. b - a = R * (q - p)
    BY <1>1, <1>2
  <1>4. 0 < R * (q - p) /\ R * (q - p) < R
    BY <1>1, <1>3 DEF R
  <1>5. q - p \in Int /\ (q - p <= 0 \/ q - p >= 1)
    BY <1>1
  <1>6. q - p >= 1 => R * (q - p) >= R
    BY <1>1
  <1>7. q - p <= 0 => R * (q - p) <= 0
    BY <1>1
  <1>8. QED
    BY <1>1, <1>4, <1>5, <1>6, <1>7

\* A command that is added goes into the slot of its number; the commands less
\* than a ring behind it keep theirs.
LEMMA KeepsAdded ==
  ASSUME NEW ring \in Ring, NEW seq \in Nat, Keeps(ring, seq)
  PROVE  /\ [ring EXCEPT ![Slot(seq + 1)] = seq + 1] \in Ring
         /\ Keeps([ring EXCEPT ![Slot(seq + 1)] = seq + 1], seq + 1)
  <1> DEFINE r == [ring EXCEPT ![Slot(seq + 1)] = seq + 1]
  <1>1. seq + 1 \in Nat /\ Slot(seq + 1) \in 0 .. MAX_RELIABLE_COMMANDS - 1
    BY SlotRange
  <1>2. r \in Ring /\ r[Slot(seq + 1)] = seq + 1
    BY <1>1 DEF Ring
  <1>3. ASSUME NEW n \in 1 .. seq, n > seq + 1 - MAX_RELIABLE_COMMANDS
        PROVE  r[Slot(n)] = n
    <2>1. Slot(n) # Slot(seq + 1)
      BY <1>3, SlotsDiffer
    <2>2. Slot(n) \in 0 .. MAX_RELIABLE_COMMANDS - 1 /\ ring[Slot(n)] = n
      BY <1>3, SlotRange DEF Keeps
    <2>3. QED
      BY <2>1, <2>2 DEF Ring
  <1>4. QED
    BY <1>1, <1>2, <1>3 DEF Keeps

\* What is unacknowledged is in the ring, hence repeated as it is.
LEMMA UnacknowledgedExact ==
  ASSUME NEW side, side.reliableSequence \in Nat,
         side.reliableAcknowledge \in 0 .. side.reliableSequence,
         Keeps(side.reliableCommands, side.reliableSequence),
         side.reliableSequence <= side.reliableAcknowledge + MAX_RELIABLE_COMMANDS
  PROVE  Exactly(Unacknowledged(side), side.reliableAcknowledge,
                 side.reliableSequence)
  BY DEF Keeps, Unacknowledged, Exactly

LEMMA IntervalBounds ==
  ASSUME NEW lo \in Nat, NEW hi \in Nat, lo < hi
  PROVE  Max(lo + 1 .. hi) = hi /\ Min(lo + 1 .. hi) = lo + 1
  <1>1. hi \in lo + 1 .. hi /\ lo + 1 \in lo + 1 .. hi
    OBVIOUS
  <1>2. \A x \in lo + 1 .. hi : (\A y \in lo + 1 .. hi : x >= y) <=> x = hi
    OBVIOUS
  <1>3. \A x \in lo + 1 .. hi : (\A y \in lo + 1 .. hi : x =< y) <=> x = lo + 1
    OBVIOUS
  <1>4. QED
    BY <1>1, <1>2, <1>3 DEF Max, Min

LEMMA SingletonMax ==
  ASSUME NEW n \in Int
  PROVE  Max({n}) = n
  BY DEF Max
-----------------------------------------------------------------------------
(* What the operators that update a side do.                               *)

SvType == [reliableSequence : 0 .. MaxServerCommands,
           reliableAcknowledge : Nat, reliableCommands : Ring,
           lastClientCommand : Nat, lastClientCommandString : Nat]
ClType == [reliableSequence : 0 .. MaxClientCommands,
           reliableAcknowledge : Nat, reliableCommands : Ring,
           serverCommandSequence : Nat, serverCommands : Ring,
           lastExecutedServerCommand : Nat]

LEMMA SvFields ==
  \A s \in SvType :
    /\ s.reliableSequence \in 0 .. MaxServerCommands /\ s.reliableSequence \in Nat
    /\ s.reliableAcknowledge \in Nat /\ s.reliableCommands \in Ring
    /\ s.lastClientCommand \in Nat /\ s.lastClientCommandString \in Nat
  BY DEF SvType

LEMMA ClFields ==
  \A s \in ClType :
    /\ s.reliableSequence \in 0 .. MaxClientCommands /\ s.reliableSequence \in Nat
    /\ s.reliableAcknowledge \in Nat /\ s.reliableCommands \in Ring
    /\ s.serverCommandSequence \in Nat /\ s.serverCommands \in Ring
    /\ s.lastExecutedServerCommand \in Nat
  BY DEF ClType

LEMMA AddedSv ==
  ASSUME NEW s \in SvType, s.reliableSequence < MaxServerCommands
  PROVE  LET n == s.reliableSequence + 1
         IN  /\ Added(s) \in SvType
             /\ Added(s) = [s EXCEPT !.reliableSequence = n,
                                     !.reliableCommands =
                                       [s.reliableCommands EXCEPT ![Slot(n)] = n]]
  <1> DEFINE n == s.reliableSequence + 1
             r == [s.reliableCommands EXCEPT ![Slot(n)] = n]
  <1>1. n \in 0 .. MaxServerCommands /\ n \in Nat /\ s.reliableCommands \in Ring
    BY DEF SvType
  <1>2. r \in Ring
    BY <1>1, SlotRange DEF Ring
  <1>3. Added(s) = [s EXCEPT !.reliableSequence = n, !.reliableCommands = r]
    BY DEF Added, SvType
  <1> HIDE DEF n, r
  <1>4. [s EXCEPT !.reliableSequence = n, !.reliableCommands = r] \in SvType
    BY <1>1, <1>2 DEF SvType
  <1>5. QED
    BY <1>3, <1>4 DEF n, r

LEMMA AddedCl ==
  ASSUME NEW s \in ClType, s.reliableSequence < MaxClientCommands
  PROVE  LET n == s.reliableSequence + 1
         IN  /\ Added(s) \in ClType
             /\ Added(s) = [s EXCEPT !.reliableSequence = n,
                                     !.reliableCommands =
                                       [s.reliableCommands EXCEPT ![Slot(n)] = n]]
  <1> DEFINE n == s.reliableSequence + 1
             r == [s.reliableCommands EXCEPT ![Slot(n)] = n]
  <1>1. n \in 0 .. MaxClientCommands /\ n \in Nat /\ s.reliableCommands \in Ring
    BY DEF ClType
  <1>2. r \in Ring
    BY <1>1, SlotRange DEF Ring
  <1>3. Added(s) = [s EXCEPT !.reliableSequence = n, !.reliableCommands = r]
    BY DEF Added, ClType
  <1> HIDE DEF n, r
  <1>4. [s EXCEPT !.reliableSequence = n, !.reliableCommands = r] \in ClType
    BY <1>1, <1>2 DEF ClType
  <1>5. QED
    BY <1>3, <1>4 DEF n, r

\* CL_ParseCommandString for a sound message: the client has all commands up
\* to the message's, and the last ring of them in their slots.
LEMMA StoredSound ==
  ASSUME cl \in ClType, NEW m, ServerMessageSound(m),
         sv.reliableSequence \in Nat,
         Keeps(cl.serverCommands, cl.serverCommandSequence)
  PROVE  /\ Stored(m) \in ClType
         /\ Stored(m).reliableAcknowledge = Clamped(cl, m.ack)
         /\ Stored(m).serverCommandSequence =
              IF m.madeAt > cl.serverCommandSequence THEN m.madeAt
              ELSE cl.serverCommandSequence
         /\ Keeps(Stored(m).serverCommands, Stored(m).serverCommandSequence)
         /\ \A f \in {"reliableSequence", "reliableCommands",
                      "lastExecutedServerCommand"} : Stored(m)[f] = cl[f]
  <1> DEFINE have == cl.serverCommandSequence
             fresh == {n \in DOMAIN m.commands : n > have}
             In(s) == {n \in fresh : Slot(n) = s}
             ack == Clamped(cl, m.ack)
             top == IF fresh = {} THEN have ELSE Max(fresh)
             ring == [s \in DOMAIN cl.serverCommands |->
                        IF In(s) = {} THEN cl.serverCommands[s]
                        ELSE m.commands[Max(In(s))]]
  <1>1. PICK lo \in 0 .. have :
          Exactly(m.commands, lo, m.madeAt) /\ m.madeAt <= lo + MAX_RELIABLE_COMMANDS
    BY DEF ServerMessageSound
  <1>2. have \in Nat /\ lo \in Nat /\ m.madeAt \in Nat /\ m.ack \in Nat
    BY <1>1 DEF ClType, ServerMessageSound
  <1>3. /\ DOMAIN m.commands = lo + 1 .. m.madeAt
        /\ \A n \in DOMAIN m.commands : m.commands[n] = n
    BY <1>1 DEF Exactly
  <1>4. /\ fresh = have + 1 .. m.madeAt
        /\ \A n \in fresh : n \in Nat /\ n \in DOMAIN m.commands
    BY <1>1, <1>2, <1>3
  <1> HIDE DEF fresh
  <1>5. top = IF m.madeAt > have THEN m.madeAt ELSE have
    <2> HIDE DEF have
    <2>1. CASE m.madeAt > have
      <3>1. m.madeAt \in fresh
        BY <1>2, <1>4, <2>1
      <3>2. Max(have + 1 .. m.madeAt) = m.madeAt
        BY <1>2, <2>1, IntervalBounds
      <3>3. QED
        BY <1>4, <2>1, <3>1, <3>2
    <2>2. CASE ~(m.madeAt > have)
      BY <1>2, <1>4, <2>2
    <2>3. QED
      BY <2>1, <2>2
  <1>6. ack \in Nat
    BY <1>2 DEF Clamped, ClType
  <1>7. ASSUME NEW n \in fresh
        PROVE  In(Slot(n)) = {n} /\ Max(In(Slot(n))) = n
    <2>1. \A k \in fresh : k # n => Slot(k) # Slot(n)
      BY <1>1, <1>2, <1>4, SlotsDiffer
    <2>2. In(Slot(n)) = {n} /\ n \in Int
      BY <1>2, <1>4, <2>1
    <2>3. QED
      BY <2>2, SingletonMax
  <1>8. /\ cl.serverCommands \in Ring
        /\ DOMAIN cl.serverCommands = 0 .. MAX_RELIABLE_COMMANDS - 1
    BY DEF ClType, Ring
  <1>9. ASSUME NEW n \in fresh
        PROVE  ring[Slot(n)] = n
    <2>1. Slot(n) \in DOMAIN cl.serverCommands /\ n \in DOMAIN m.commands
      BY <1>4, <1>8, SlotRange
    <2>2. In(Slot(n)) # {} /\ Max(In(Slot(n))) = n /\ m.commands[n] = n
      BY <1>3, <1>7, <2>1
    <2>3. QED
      BY <2>1, <2>2
  <1>10. ring \in Ring
    <2>1. ASSUME NEW s \in 0 .. MAX_RELIABLE_COMMANDS - 1
          PROVE  ring[s] \in Nat
      <3>1. CASE In(s) = {}
        BY <1>8, <3>1 DEF Ring
      <3>2. CASE In(s) # {}
        <4>1. PICK n \in fresh : Slot(n) = s
          BY <3>2
        <4>2. ring[Slot(n)] = n /\ n \in Nat
          BY <1>4, <1>9
        <4>3. QED
          BY <4>1, <4>2
      <3>3. QED
        BY <3>1, <3>2
    <2>2. QED
      BY <1>8, <2>1 DEF Ring
  <1>11. Keeps(ring, top)
    <2>1. SUFFICES ASSUME NEW n \in 1 .. top, n > top - MAX_RELIABLE_COMMANDS
                   PROVE  ring[Slot(n)] = n
      BY DEF Keeps
    <2>2. CASE n > have
      <3>1. n \in fresh
        BY <1>2, <1>4, <1>5, <2>2
      <3>2. QED
        BY <1>9, <3>1
    <2>3. CASE n <= have
      <3>1. \A k \in fresh : Slot(k) # Slot(n)
        BY <1>2, <1>4, <1>5, <2>1, <2>3, SlotsDiffer
      <3>2. In(Slot(n)) = {} /\ Slot(n) \in DOMAIN cl.serverCommands
        BY <1>8, <2>3, <3>1, SlotRange
      <3>3. cl.serverCommands[Slot(n)] = n
        BY <1>2, <1>5, <2>1, <2>3 DEF Keeps
      <3>4. QED
        BY <3>2, <3>3
    <2>4. QED
      BY <1>2, <1>5, <2>2, <2>3
  <1>12. Stored(m) = [cl EXCEPT !.reliableAcknowledge = ack,
                                !.serverCommandSequence = top,
                                !.serverCommands = ring]
    BY DEF Stored, ClType, fresh
  <1>13. top \in Nat
    BY <1>2, <1>5
  <1> HIDE DEF ack, top, ring
  <1>14. Stored(m) \in ClType
    BY <1>6, <1>10, <1>12, <1>13 DEF ClType
  <1>15. /\ Stored(m).reliableAcknowledge = ack
         /\ Stored(m).serverCommandSequence = top
         /\ Stored(m).serverCommands = ring
         /\ \A f \in {"reliableSequence", "reliableCommands",
                      "lastExecutedServerCommand"} : Stored(m)[f] = cl[f]
    BY <1>12 DEF ClType
  <1>16. QED
    BY <1>5, <1>11, <1>14, <1>15 DEF ack
-----------------------------------------------------------------------------
(* The part of the invariant that holds whatever the order in which the    *)
(* messages of the server arrive.                                          *)

Sound == TypeOK /\ ServerInv

LEMMA InitSound == Init => Sound
  <1> SUFFICES ASSUME Init PROVE Sound
    OBVIOUS
  <1>1. EmptyRing \in Ring
    BY DEF EmptyRing, Ring
  <1>2. IsSequence(<<>>)
    BY EmptySeq, IsSequenceOver
  <1>3. TypeOK
    BY <1>1, <1>2 DEF Init, TypeOK
  <1>4. GameGetsEveryCommand
    BY DEF Init, GameGetsEveryCommand
  <1>5. ServerInv
    BY <1>4 DEF Init, ServerInv, ServerMessagesSound, ClientMessagesSound, Keeps,
       Active
  <1>6. QED
    BY <1>3, <1>5 DEF Sound

\* A sound message stays sound when the numbers it is compared with grow.
LEMMA SoundGrows ==
  ASSUME sv \in SvType, sv' \in SvType, cl \in ClType, cl' \in ClType,
         sv.reliableSequence <= sv'.reliableSequence,
         cl.serverCommandSequence <= cl'.serverCommandSequence
  PROVE  \A m : ServerMessageSound(m) => ServerMessageSound(m)'
  BY DEF ServerMessageSound, SvType, ClType

\* The messages a step leaves alone stay sound.
LEMMA ServerMessagesStay ==
  ASSUME ServerMessagesSound, UNCHANGED <<toClient, unsent, stacked>>,
         sv \in SvType, sv' \in SvType, cl \in ClType, cl' \in ClType,
         sv.reliableSequence <= sv'.reliableSequence,
         cl.serverCommandSequence <= cl'.serverCommandSequence
  PROVE  ServerMessagesSound'
  BY SoundGrows DEF ServerMessagesSound

LEMMA ClientMessagesStay ==
  ASSUME ClientMessagesSound, UNCHANGED toServer,
         sv \in SvType, sv' \in SvType, cl \in ClType, cl' \in ClType,
         sv'.reliableAcknowledge = sv.reliableAcknowledge,
         cl.serverCommandSequence <= cl'.serverCommandSequence
  PROVE  ClientMessagesSound'
  <1>1. /\ sv.reliableAcknowledge \in Nat /\ cl.serverCommandSequence \in Nat
        /\ cl'.serverCommandSequence \in Nat
    BY DEF SvType, ClType
  <1>2. ASSUME NEW i \in DOMAIN toServer
        PROVE  toServer[i].ack \in sv'.reliableAcknowledge .. cl'.serverCommandSequence
    <2>1. toServer[i].ack \in sv.reliableAcknowledge .. cl.serverCommandSequence
      BY DEF ClientMessagesSound
    <2>2. QED
      BY <1>1, <2>1
  <1>3. QED
    BY <1>2 DEF ClientMessagesSound

\* TypeOK in terms of the types above.
LEMMA SideTypes ==
  TypeOK => sv \in SvType /\ cl \in ClType
  BY DEF TypeOK, SvType, ClType

LEMMA CL_AddReliableCommandSound ==
  ASSUME Sound, CL_AddReliableCommand
  PROVE  Sound'
  <1>1. cl \in ClType /\ sv \in SvType /\ UNCHANGED <<svVars, got, snapshot, channelVars>>
    BY SideTypes DEF Sound, CL_AddReliableCommand
  <1>2. /\ cl' \in ClType /\ cl'.serverCommandSequence = cl.serverCommandSequence
        /\ cl'.serverCommands = cl.serverCommands
        /\ cl'.lastExecutedServerCommand = cl.lastExecutedServerCommand
        /\ status' \in {"active", "client overflow"} /\ status = "active"
    <2>1. CASE UNCHANGED cl
      BY <1>1, <2>1 DEF CL_AddReliableCommand, Active
    <2>2. CASE cl' = Added(cl) /\ UNCHANGED status
      BY <1>1, <2>2, AddedCl DEF CL_AddReliableCommand, Active, ClType
    <2>3. QED
      BY <2>1, <2>2 DEF CL_AddReliableCommand
  <1>3. TypeOK'
    BY <1>1, <1>2 DEF Sound, TypeOK, ClType, svVars, channelVars
  <1>4. ServerMessagesSound' /\ ClientMessagesSound'
    <2>1. /\ ServerMessagesSound /\ ClientMessagesSound
          /\ UNCHANGED <<sv, toClient, unsent, stacked, toServer>> /\ sv' = sv
      BY <1>1 DEF Sound, ServerInv, svVars, channelVars
    <2>4. sv.reliableSequence <= sv'.reliableSequence
      BY <1>1, <2>1, SvFields
    <2>2. cl.serverCommandSequence <= cl'.serverCommandSequence
      <3>1. cl.serverCommandSequence \in Nat
        BY <1>1, ClFields
      <3>2. cl'.serverCommandSequence = cl.serverCommandSequence
        BY <1>2
      <3>3. QED
        BY <3>1, <3>2
    <2>3. QED
      BY <1>1, <1>2, <2>1, <2>2, <2>4, ServerMessagesStay, ClientMessagesStay
  <1>5. ServerInv'
    BY <1>1, <1>2, <1>4 DEF Sound, ServerInv, Active, svVars, GameGetsEveryCommand
  <1>6. QED
    BY <1>3, <1>5 DEF Sound

LEMMA SV_AddServerCommandSound ==
  ASSUME Sound, SV_AddServerCommand
  PROVE  Sound'
  <1> DEFINE n == sv.reliableSequence + 1
  <1>1. /\ cl \in ClType /\ sv \in SvType
        /\ UNCHANGED <<clVars, executed, lastMove, channelVars>>
        /\ status = "active" /\ sv.reliableSequence < MaxServerCommands
    BY SideTypes DEF Sound, SV_AddServerCommand, Active
  <1>2. /\ sv.reliableSequence \in Nat /\ sv.reliableAcknowledge \in Nat
        /\ cl.serverCommandSequence \in Nat /\ sv.reliableCommands \in Ring
    BY <1>1, SvFields, ClFields
  <1>3. /\ UNCHANGED <<cl, got, snapshot>>
        /\ UNCHANGED <<toClient, toServer, unsent, stacked>>
    BY <1>1 DEF clVars, channelVars
  <1>4. IF sv.reliableSequence + 1 - sv.reliableAcknowledge
             = MAX_RELIABLE_COMMANDS + 1
        THEN /\ status' = "server overflow"
             /\ sv' = [sv EXCEPT !.reliableSequence = n]
        ELSE sv' = Added(sv) /\ UNCHANGED status
    BY DEF SV_AddServerCommand
  <1>5. sv' \in SvType
    <2>1. [sv EXCEPT !.reliableSequence = n] \in SvType
      <3>1. n \in 0 .. MaxServerCommands
        BY <1>1, <1>2
      <3> HIDE DEF n
      <3>2. QED
        BY <1>1, <3>1 DEF SvType
    <2>2. Added(sv) \in SvType
      BY <1>1, AddedSv
    <2>3. QED
      BY <1>4, <2>1, <2>2
  <1>6. /\ sv'.reliableSequence = n
        /\ sv'.reliableAcknowledge = sv.reliableAcknowledge
        /\ sv'.lastClientCommand = sv.lastClientCommand
    <2>1. Added(sv) = [sv EXCEPT !.reliableSequence = n,
                                 !.reliableCommands =
                                   [sv.reliableCommands EXCEPT ![Slot(n)] = n]]
      BY <1>1, AddedSv
    <2> HIDE DEF n
    <2>2. QED
      BY <1>1, <1>4, <2>1 DEF SvType
  <1>7. status' \in {"active", "server overflow"}
    BY <1>1, <1>4
  <1>8. TypeOK'
    BY <1>1, <1>3, <1>5, <1>7 DEF Sound, TypeOK, SvType
  <1>9. sv.reliableSequence <= sv'.reliableSequence
    BY <1>2, <1>6
  <1>10. cl.serverCommandSequence <= cl'.serverCommandSequence
    BY <1>2, <1>3
  <1>11. ServerMessagesSound' /\ ClientMessagesSound'
    <2>1. ServerMessagesSound /\ ClientMessagesSound
      BY DEF Sound, ServerInv
    <2>2. cl' \in ClType /\ sv'.reliableAcknowledge = sv.reliableAcknowledge
      BY <1>1, <1>3, <1>6
    <2>3. QED
      BY <1>1, <1>3, <1>5, <1>9, <1>10, <2>1, <2>2, ServerMessagesStay,
         ClientMessagesStay
  <1>12. ASSUME Active'
         PROVE  /\ sv'.reliableSequence <= sv'.reliableAcknowledge + MAX_RELIABLE_COMMANDS
                /\ Keeps(sv'.reliableCommands, sv'.reliableSequence)
    <2>1. /\ sv' = Added(sv)
          /\ sv.reliableSequence + 1 - sv.reliableAcknowledge
               # MAX_RELIABLE_COMMANDS + 1
      BY <1>4, <1>12 DEF Active
    <2>2. /\ sv.reliableSequence <= sv.reliableAcknowledge + MAX_RELIABLE_COMMANDS
          /\ Keeps(sv.reliableCommands, sv.reliableSequence)
      BY <1>1 DEF Sound, ServerInv, Active
    <2>3. n <= sv.reliableAcknowledge + MAX_RELIABLE_COMMANDS
      BY <1>2, <2>1, <2>2
    <2>4. sv'.reliableSequence <= sv'.reliableAcknowledge + MAX_RELIABLE_COMMANDS
      BY <1>6, <2>3
    <2>5. Keeps([sv.reliableCommands EXCEPT ![Slot(n)] = n], n)
      BY <1>2, <2>2, KeepsAdded
    <2>6. Added(sv) = [sv EXCEPT !.reliableSequence = n,
                                 !.reliableCommands =
                                   [sv.reliableCommands EXCEPT ![Slot(n)] = n]]
      BY <1>1, AddedSv
    <2>7. Keeps(sv'.reliableCommands, sv'.reliableSequence)
      <3> DEFINE r == [sv.reliableCommands EXCEPT ![Slot(n)] = n]
      <3>1. Keeps(r, n) /\ sv' = [sv EXCEPT !.reliableSequence = n, !.reliableCommands = r]
        BY <2>1, <2>5, <2>6
      <3> HIDE DEF r, n
      <3>2. sv'.reliableSequence = n /\ sv'.reliableCommands = r
        BY <1>1, <3>1 DEF SvType
      <3>3. QED
        BY <3>1, <3>2
    <2>8. QED
      BY <2>4, <2>7
  <1>13. cl'.serverCommandSequence <= sv'.reliableSequence
    <2>1. cl.serverCommandSequence <= sv.reliableSequence
      BY DEF Sound, ServerInv
    <2>2. QED
      BY <1>2, <1>3, <1>6, <2>1
  <1>14. ServerInv'
    BY <1>1, <1>3, <1>6, <1>11, <1>12, <1>13
       DEF Sound, ServerInv, GameGetsEveryCommand
  <1>15. QED
    BY <1>8, <1>14 DEF Sound

LEMMA SoundParts ==
  ASSUME Sound
  PROVE  /\ sv \in SvType /\ cl \in ClType
         /\ sv.reliableSequence \in Nat /\ sv.reliableAcknowledge \in Nat
         /\ cl.serverCommandSequence \in Nat
         /\ sv.reliableAcknowledge <= cl.serverCommandSequence
         /\ cl.serverCommandSequence <= sv.reliableSequence
         /\ ServerMessagesSound /\ ClientMessagesSound
         /\ IsSequence(toClient) /\ IsSequence(toServer)
         /\ IsSequence(unsent) /\ IsSequence(stacked)
  <1>1. sv \in SvType /\ cl \in ClType
    BY SideTypes DEF Sound
  <1>2. /\ sv.reliableSequence \in Nat /\ sv.reliableAcknowledge \in Nat
        /\ cl.serverCommandSequence \in Nat
    BY <1>1, SvFields, ClFields
  <1>3. QED
    BY <1>1, <1>2 DEF Sound, ServerInv, TypeOK

\* A packet of the client carries commands of the right type.
LEMMA PacketCommands ==
  ASSUME NEW c \in ClType
  PROVE  \E lo \in 0 .. c.reliableSequence :
           Unacknowledged(c) \in [lo + 1 .. c.reliableSequence -> Nat]
  <1>1. /\ c.reliableSequence \in Nat /\ c.reliableAcknowledge \in Nat
        /\ c.reliableCommands \in Ring
    BY ClFields
  <1>2. \A n \in Nat : c.reliableCommands[Slot(n)] \in Nat
    BY <1>1, SlotRange DEF Ring
  <1>3. CASE c.reliableAcknowledge <= c.reliableSequence
    BY <1>1, <1>2, <1>3 DEF Unacknowledged
  <1>4. CASE c.reliableSequence < c.reliableAcknowledge
    <2>1. /\ c.reliableAcknowledge + 1 .. c.reliableSequence = {}
          /\ c.reliableSequence + 1 .. c.reliableSequence = {}
      BY <1>1, <1>4
    <2>2. Unacknowledged(c) \in [c.reliableSequence + 1 .. c.reliableSequence -> Nat]
      BY <2>1 DEF Unacknowledged
    <2>3. QED
      BY <1>1, <2>2
  <1>5. QED
    BY <1>1, <1>3, <1>4

LEMMA CL_WritePacketSound ==
  ASSUME Sound, CL_WritePacket
  PROVE  Sound'
  <1> DEFINE m == [ack |-> cl.serverCommandSequence,
                   key |-> cl.serverCommands[Slot(cl.serverCommandSequence)],
                   commands |-> Unacknowledged(cl),
                   move |-> cl.reliableSequence]
  <1>1. /\ UNCHANGED <<svVars, clVars, toClient, unsent, stacked, status>>
        /\ toServer' = Append(toServer, m) /\ Len(toServer) < MaxInFlight
    BY DEF CL_WritePacket
  <1>2. UNCHANGED <<sv, executed, lastMove, cl, got, snapshot>>
    BY <1>1 DEF svVars, clVars
  <1>3. /\ IsSequence(toServer') /\ Len(toServer') = Len(toServer) + 1
        /\ DOMAIN toServer = 1 .. Len(toServer) /\ Len(toServer) \in Nat
        /\ DOMAIN toServer' = 1 .. Len(toServer) + 1
        /\ \A i \in 1 .. Len(toServer) : toServer'[i] = toServer[i]
        /\ toServer'[Len(toServer) + 1] = m
    BY <1>1, SoundParts, SequenceAppend, SequenceDomain
  <1>4. TypeOK'
    <2>1. Len(toServer') <= MaxInFlight
      BY <1>1, <1>3
    <2>2. QED
      BY <1>1, <1>2, <1>3, <2>1 DEF Sound, TypeOK
  <1>5. /\ m.ack = cl.serverCommandSequence /\ m.move = cl.reliableSequence
        /\ m.commands = Unacknowledged(cl)
    OBVIOUS
  <1> HIDE DEF m
  <1>6. /\ m.ack \in sv.reliableAcknowledge .. cl.serverCommandSequence
        /\ m.move \in Nat
        /\ \E lo \in 0 .. m.move : m.commands \in [lo + 1 .. m.move -> Nat]
    BY <1>5, SoundParts, PacketCommands, ClFields
  <1>7. ClientMessagesSound'
    <2>1. SUFFICES ASSUME NEW i \in DOMAIN toServer'
                   PROVE  /\ toServer'[i].move \in Nat
                          /\ toServer'[i].ack \in
                               sv.reliableAcknowledge .. cl.serverCommandSequence
                          /\ \A j \in DOMAIN toServer' :
                               i <= j => toServer'[i].ack <= toServer'[j].ack
                          /\ \E lo \in 0 .. toServer'[i].move :
                               toServer'[i].commands \in
                                 [lo + 1 .. toServer'[i].move -> Nat]
      BY <1>2 DEF ClientMessagesSound
    <2>2. \A k \in 1 .. Len(toServer) :
             toServer[k].ack \in sv.reliableAcknowledge .. cl.serverCommandSequence
      BY <1>3, SoundParts DEF ClientMessagesSound
    <2>3. CASE i \in 1 .. Len(toServer)
      <3>1. ASSUME NEW j \in DOMAIN toServer', i <= j
            PROVE  toServer'[i].ack <= toServer'[j].ack
        <4>1. CASE j \in 1 .. Len(toServer)
          BY <1>3, <2>3, <3>1, <4>1, SoundParts DEF ClientMessagesSound
        <4>2. CASE j = Len(toServer) + 1
          <5>1. /\ toServer'[i] = toServer[i] /\ toServer'[j] = m
                /\ toServer[i].ack \in sv.reliableAcknowledge .. cl.serverCommandSequence
            BY <1>3, <2>2, <2>3, <4>2
          <5>2. QED
            BY <1>5, <5>1, SoundParts
        <4>3. QED
          BY <1>3, <4>1, <4>2
      <3>2. QED
        BY <1>3, <2>3, <3>1, SoundParts DEF ClientMessagesSound
    <2>4. CASE i = Len(toServer) + 1
      <3>1. \A j \in DOMAIN toServer' : i <= j => j = i
        BY <1>3, <2>4
      <3>2. m.ack <= m.ack
        BY <1>5, SoundParts
      <3>3. QED
        BY <1>3, <1>6, <2>4, <3>1, <3>2
    <2>5. i \in 1 .. Len(toServer) \/ i = Len(toServer) + 1
      BY <1>3
    <2>6. QED
      BY <2>3, <2>4, <2>5, Zenon
  <1>8. ServerMessagesSound'
    BY <1>1, <1>2, SoundParts DEF ServerMessagesSound, ServerMessageSound
  <1>9. ServerInv'
    BY <1>1, <1>2, <1>7, <1>8
       DEF Sound, ServerInv, Active, GameGetsEveryCommand
  <1>10. QED
    BY <1>4, <1>9 DEF Sound

\* When the server takes the i-th message, the later ones stay sound: they
\* acknowledge no less.
LEMMA ClientSuffix ==
  ASSUME Sound, NEW i \in DOMAIN toServer,
         toServer' = SubSeq(toServer, i + 1, Len(toServer)),
         sv'.reliableAcknowledge \in {sv.reliableAcknowledge, toServer[i].ack},
         cl' = cl
  PROVE  /\ ClientMessagesSound'
         /\ IsSequence(toServer') /\ Len(toServer') <= MaxInFlight
  <1>1. /\ IsSequence(toServer') /\ Len(toServer') = Len(toServer) - i
        /\ \A k \in 1 .. Len(toServer') : toServer'[k] = toServer[k + i]
        /\ Len(toServer) \in Nat /\ DOMAIN toServer = 1 .. Len(toServer)
        /\ DOMAIN toServer' = 1 .. Len(toServer')
    BY SoundParts, SequenceSuffix, SequenceDomain
  <1>2. Len(toServer') <= MaxInFlight
    <2>1. Len(toServer) <= MaxInFlight
      BY DEF Sound, TypeOK
    <2>2. QED
      BY <1>1, <2>1
  <1>3. \A k \in DOMAIN toServer' :
          k + i \in DOMAIN toServer /\ toServer'[k] = toServer[k + i] /\ i <= k + i
    BY <1>1
  <1>4. ClientMessagesSound
    BY SoundParts
  <1>5. ASSUME NEW k \in DOMAIN toServer'
        PROVE  toServer'[k].ack \in sv'.reliableAcknowledge .. cl.serverCommandSequence
    <2>1. /\ toServer[k + i].ack \in sv.reliableAcknowledge .. cl.serverCommandSequence
          /\ toServer[i].ack \in sv.reliableAcknowledge .. cl.serverCommandSequence
          /\ toServer[i].ack <= toServer[k + i].ack
      BY <1>3, <1>4 DEF ClientMessagesSound
    <2>2. toServer'[k] = toServer[k + i]
      BY <1>3
    <2>3. sv.reliableAcknowledge \in Nat /\ cl.serverCommandSequence \in Nat
      BY SoundParts
    <2>4. toServer[k + i].ack \in sv'.reliableAcknowledge .. cl.serverCommandSequence
      BY <2>1, <2>3
    <2>5. QED
      BY <2>2, <2>4
  <1>6. ASSUME NEW k \in DOMAIN toServer', NEW j \in DOMAIN toServer', k <= j
        PROVE  toServer'[k].ack <= toServer'[j].ack
    <2>1. k + i <= j + i
      BY <1>1, <1>6
    <2>2. toServer[k + i].ack <= toServer[j + i].ack
      BY <1>3, <1>4, <2>1 DEF ClientMessagesSound
    <2>3. QED
      BY <1>3, <2>2
  <1>7. \A k \in DOMAIN toServer' :
          /\ toServer'[k].move \in Nat
          /\ \E lo \in 0 .. toServer'[k].move :
               toServer'[k].commands \in [lo + 1 .. toServer'[k].move -> Nat]
    BY <1>3, <1>4 DEF ClientMessagesSound
  <1>8. ClientMessagesSound'
    BY <1>5, <1>6, <1>7 DEF ClientMessagesSound
  <1>9. QED
    BY <1>1, <1>2, <1>8

\* The server never finds an acknowledgement out of range.
LEMMA InRange ==
  ASSUME Sound, Active, NEW i \in DOMAIN toServer
  PROVE  /\ toServer[i].ack \in Nat
         /\ toServer[i].ack \in sv.reliableAcknowledge .. cl.serverCommandSequence
         /\ Clamped(sv, toServer[i].ack) = toServer[i].ack
  <1>1. toServer[i].ack \in sv.reliableAcknowledge .. cl.serverCommandSequence
    BY SoundParts DEF ClientMessagesSound
  <1>2. sv.reliableSequence <= sv.reliableAcknowledge + MAX_RELIABLE_COMMANDS
    BY DEF Sound, ServerInv
  <1>3. QED
    BY <1>1, <1>2, SoundParts DEF Clamped

\* The commands of a message that follow the last one executed.
LEMMA FreshCommands ==
  ASSUME NEW last \in Nat, NEW lo \in Nat, NEW hi \in Nat,
         NEW fresh, \A n : n \in fresh <=> n \in lo + 1 .. hi /\ n > last,
         fresh # {}
  PROVE  /\ Max(fresh) = hi /\ hi > last
         /\ Min(fresh) = last + 1 <=> lo <= last
         /\ Min(fresh) > last + 1 <=> lo > last
         /\ lo <= last => Cardinality(fresh) = hi - last /\ IsFiniteSet(fresh)
         /\ lo <= last => fresh = last + 1 .. hi
  <1> DEFINE from == IF lo > last THEN lo ELSE last
  <1>1. from \in Nat /\ fresh = from + 1 .. hi
    <2>1. \A n : n \in lo + 1 .. hi /\ n > last <=> n \in from + 1 .. hi
      OBVIOUS
    <2>2. \A n : n \in fresh <=> n \in from + 1 .. hi
      BY <2>1, Zenon
    <2> HIDE DEF from
    <2>3. fresh = from + 1 .. hi
      BY <2>2, Zenon
    <2>4. QED
      BY <2>3 DEF from
  <1>2. from < hi
    BY <1>1
  <1>3. Max(fresh) = hi /\ Min(fresh) = from + 1
    BY <1>1, <1>2, IntervalBounds
  <1>4. ASSUME lo <= last
        PROVE  Cardinality(fresh) = hi - last /\ IsFiniteSet(fresh)
    <2>1. fresh = last + 1 .. hi /\ last < hi
      BY <1>1, <1>2, <1>4
    <2>2. last + 1 \in Int /\ hi \in Int
      OBVIOUS
    <2>3. IsFiniteSet(last + 1 .. hi) /\ Cardinality(last + 1 .. hi) =
             IF last + 1 > hi THEN 0 ELSE hi - (last + 1) + 1
      BY <2>2, FS_Interval
    <2>4. ~(last + 1 > hi) /\ hi - (last + 1) + 1 = hi - last
      BY <2>1
    <2>5. QED
      BY <2>1, <2>3, <2>4, Zenon
  <1>5. QED
    BY <1>1, <1>2, <1>3, <1>4

\* What executing a message's commands does to the server.
LEMMA ExecutedSound ==
  ASSUME Sound, NEW m, m.ack \in Nat, m.move \in Nat,
         NEW lo \in 0 .. m.move, m.commands \in [lo + 1 .. m.move -> Nat],
         ExecuteCommands(m)
  PROVE  /\ sv' \in SvType
         /\ sv'.reliableSequence = sv.reliableSequence
         /\ sv'.reliableCommands = sv.reliableCommands
         /\ sv'.reliableAcknowledge = m.ack
         /\ executed' \in Seq(Nat) /\ Len(executed') = sv'.lastClientCommand
         /\ lastMove' \in {lastMove, m.move}
         /\ status' \in {status, "lost reliable commands"}
  <1> DEFINE last == sv.lastClientCommand
             fresh == {n \in DOMAIN m.commands : n > last}
             acked == [sv EXCEPT !.reliableAcknowledge = m.ack]
             more == [k \in 1 .. Cardinality(fresh) |-> m.commands[last + k]]
  <1>1. sv \in SvType /\ last \in Nat /\ lo \in Nat
    BY SoundParts, SvFields
  <1>2. executed \in Seq(Nat) /\ Len(executed) = last
    BY DEF Sound, TypeOK, ServerInv
  <1>3. fresh = {n \in lo + 1 .. m.move : n > last}
    OBVIOUS
  <1>4. /\ acked \in SvType
        /\ acked.reliableSequence = sv.reliableSequence
        /\ acked.reliableCommands = sv.reliableCommands
        /\ acked.reliableAcknowledge = m.ack
        /\ acked.lastClientCommand = last
    BY <1>1 DEF SvType
  <1>5. CASE sv' = acked /\ executed' = executed
    <2>1. /\ lastMove' \in {lastMove, m.move}
          /\ status' \in {status, "lost reliable commands"}
      BY DEF ExecuteCommands
    <2>2. QED
      BY <1>2, <1>4, <1>5, <2>1
  <1>6. CASE /\ fresh # {} /\ Min(fresh) = last + 1
             /\ sv' = [acked EXCEPT !.lastClientCommand = Max(fresh),
                                    !.lastClientCommandString =
                                       m.commands[Max(fresh)]]
             /\ executed' = executed \o more
             /\ lastMove' = m.move /\ status' = status
    <2>1. /\ Max(fresh) = m.move /\ m.move > last /\ lo <= last
          /\ Cardinality(fresh) = m.move - last
      <3>1. fresh # {} /\ Min(fresh) = last + 1
        BY <1>6
      <3> HIDE DEF last, fresh
      <3> DEFINE hi == m.move
      <3>2. last \in Nat /\ hi \in Nat /\ lo \in Nat
            /\ \A n : n \in fresh <=> n \in lo + 1 .. hi /\ n > last
        BY <1>1, <1>3
      <3> HIDE DEF hi
      <3>3. /\ Max(fresh) = hi /\ hi > last
            /\ Min(fresh) = last + 1 <=> lo <= last
            /\ lo <= last => Cardinality(fresh) = hi - last
        BY <3>1, <3>2, FreshCommands
      <3>4. QED
        BY <3>1, <3>3 DEF hi
    <2>2. m.move \in lo + 1 .. m.move /\ m.commands[m.move] \in Nat
      BY <1>1, <2>1
    <2>3. m.move - last \in Nat /\ \A k \in 1 .. m.move - last :
             last + k \in lo + 1 .. m.move /\ m.commands[last + k] \in Nat
      BY <1>1, <2>1
    <2>4. more = [k \in 1 .. m.move - last |-> m.commands[last + k]]
      BY <2>1
    <2>5. more \in Seq(Nat) /\ Len(more) = m.move - last
      <3>1. more \in [1 .. m.move - last -> Nat]
        BY <2>3, <2>4
      <3> HIDE DEF more
      <3>2. QED
        BY <2>3, <3>1, FunctionIsSequence
    <2>6. executed' \in Seq(Nat) /\ Len(executed') = m.move
      <3>1. executed' = executed \o more
        BY <1>6
      <3> HIDE DEF more, last
      <3>2. executed \in Seq(Nat) /\ more \in Seq(Nat)
        BY <1>2, <2>5
      <3>3. executed \o more \in Seq(Nat)
            /\ Len(executed \o more) = Len(executed) + Len(more)
        BY <3>2, ConcatProperties
      <3>4. last + (m.move - last) = m.move
        BY <1>1
      <3>5. QED
        BY <1>2, <2>5, <3>1, <3>3, <3>4
    <2> HIDE DEF more
    <2>7. sv' = [acked EXCEPT !.lastClientCommand = m.move,
                              !.lastClientCommandString = m.commands[m.move]]
      BY <1>6, <2>1, Zenon
    <2> HIDE DEF acked, last, fresh
    <2>8. /\ sv' \in SvType
          /\ sv'.reliableSequence = acked.reliableSequence
          /\ sv'.reliableCommands = acked.reliableCommands
          /\ sv'.reliableAcknowledge = acked.reliableAcknowledge
          /\ sv'.lastClientCommand = m.move
      BY <1>4, <2>2, <2>7 DEF SvType
    <2>9. QED
      BY <1>4, <1>6, <2>6, <2>8
  <1>7. QED
    BY <1>5, <1>6 DEF ExecuteCommands

\* A step in which the server adds no command keeps its half.
LEMMA ServerStep ==
  ASSUME Sound, sv' \in SvType, UNCHANGED <<cl, got, snapshot>>,
         sv'.reliableSequence = sv.reliableSequence,
         sv'.reliableCommands = sv.reliableCommands,
         sv'.reliableAcknowledge \in
           sv.reliableAcknowledge .. cl.serverCommandSequence,
         Len(executed') = sv'.lastClientCommand,
         Active' => Active, ServerMessagesSound', ClientMessagesSound'
  PROVE  ServerInv'
  <1>1. /\ sv'.reliableAcknowledge \in Nat
        /\ sv.reliableAcknowledge <= sv'.reliableAcknowledge
        /\ sv'.reliableAcknowledge <= cl.serverCommandSequence
    BY SoundParts
  <1>2. Active' =>
          /\ sv'.reliableSequence <= sv'.reliableAcknowledge + MAX_RELIABLE_COMMANDS
          /\ Keeps(sv'.reliableCommands, sv'.reliableSequence)
    <2>1. SUFFICES ASSUME Active
                   PROVE  sv.reliableSequence <=
                            sv'.reliableAcknowledge + MAX_RELIABLE_COMMANDS
      BY DEF Sound, ServerInv
    <2>2. sv.reliableSequence <= sv.reliableAcknowledge + MAX_RELIABLE_COMMANDS
      BY <2>1 DEF Sound, ServerInv
    <2>3. QED
      BY <1>1, <2>2, SoundParts
  <1>3. cl'.serverCommandSequence <= sv'.reliableSequence
    BY SoundParts
  <1>4. QED
    BY <1>1, <1>2, <1>3 DEF Sound, ServerInv, GameGetsEveryCommand

LEMMA SV_ExecuteClientMessageSound ==
  ASSUME Sound, NEW i \in DOMAIN toServer, SV_ExecuteClientMessage(i)
  PROVE  Sound'
  <1> DEFINE m == toServer[i]
  <1>1. /\ Active /\ UNCHANGED <<clVars, toClient, unsent, stacked>>
        /\ toServer' = SubSeq(toServer, i + 1, Len(toServer))
    BY DEF SV_ExecuteClientMessage
  <1>2. UNCHANGED <<cl, got, snapshot>>
    BY <1>1 DEF clVars
  <1>3. /\ m.ack \in Nat /\ Clamped(sv, m.ack) = m.ack
        /\ m.ack \in sv.reliableAcknowledge .. cl.serverCommandSequence
    BY <1>1, InRange
  <1>4. \/ status' = "illegible" /\ UNCHANGED svVars
        \/ ExecuteCommands(m)
    BY <1>3 DEF SV_ExecuteClientMessage
  <1>5. /\ sv' \in SvType
        /\ sv'.reliableSequence = sv.reliableSequence
        /\ sv'.reliableCommands = sv.reliableCommands
        /\ sv'.reliableAcknowledge \in {sv.reliableAcknowledge, m.ack}
        /\ executed' \in Seq(Nat) /\ Len(executed') = sv'.lastClientCommand
        /\ lastMove' \in Nat
        /\ status' \in {status, "lost reliable commands", "illegible"}
    <2>1. CASE status' = "illegible" /\ UNCHANGED svVars
      BY <2>1, SoundParts DEF svVars, Sound, TypeOK, ServerInv
    <2>2. CASE ExecuteCommands(m)
      <3>1. PICK lo \in 0 .. m.move : m.commands \in [lo + 1 .. m.move -> Nat]
        BY SoundParts DEF ClientMessagesSound
      <3>2. QED
        BY <1>3, <2>2, <3>1, SoundParts, ExecutedSound DEF Sound, TypeOK, ClientMessagesSound
    <2>3. QED
      BY <1>4, <2>1, <2>2
  <1>6. /\ ClientMessagesSound'
        /\ IsSequence(toServer') /\ Len(toServer') <= MaxInFlight
    BY <1>1, <1>2, <1>5, ClientSuffix
  <1>7. ServerMessagesSound'
    BY <1>1, <1>2, <1>5, SoundParts DEF ServerMessagesSound, ServerMessageSound
  <1>8. sv'.reliableAcknowledge \in sv.reliableAcknowledge .. cl.serverCommandSequence
    <2>1. /\ sv.reliableAcknowledge \in Nat /\ cl.serverCommandSequence \in Nat
          /\ sv.reliableAcknowledge <= cl.serverCommandSequence
      BY SoundParts
    <2>2. sv.reliableAcknowledge \in sv.reliableAcknowledge .. cl.serverCommandSequence
      BY <2>1
    <2>3. QED
      BY <1>3, <1>5, <2>2
  <1>9. ServerInv'
    BY <1>1, <1>2, <1>5, <1>6, <1>7, <1>8, ServerStep
  <1>10. TypeOK'
    BY <1>1, <1>2, <1>5, <1>6 DEF Sound, TypeOK, SvType
  <1>11. QED
    BY <1>9, <1>10 DEF Sound
-----------------------------------------------------------------------------
(* Messages of the server.                                                 *)

\* A message of a server that has the state of sv, except perhaps for a newer
\* acknowledgement, is sound.
LEMMA MadeSound ==
  ASSUME Sound, Active, NEW s, s \in SvType,
         s.reliableSequence = sv.reliableSequence,
         s.reliableCommands = sv.reliableCommands,
         s.reliableAcknowledge \in
           sv.reliableAcknowledge .. cl.serverCommandSequence
  PROVE  ServerMessageSound(SV_WriteMessage(s))
  <1> DEFINE m == SV_WriteMessage(s)
             lo == s.reliableAcknowledge
  <1>1. /\ m.ack = s.lastClientCommand /\ m.madeAt = s.reliableSequence
        /\ m.commands = Unacknowledged(s)
    BY DEF SV_WriteMessage
  <1>2. /\ s.lastClientCommand \in Nat
        /\ lo \in Nat /\ sv.reliableAcknowledge <= lo
        /\ lo \in 0 .. cl.serverCommandSequence
        /\ lo \in 0 .. s.reliableSequence /\ s.reliableSequence \in Nat
    <2>1. s.lastClientCommand \in Nat
      BY SvFields
    <2>2. QED
      BY <2>1, SoundParts
  <1>3. s.reliableSequence <= lo + MAX_RELIABLE_COMMANDS
    <2>1. sv.reliableSequence <= sv.reliableAcknowledge + MAX_RELIABLE_COMMANDS
      BY DEF Sound, ServerInv
    <2>2. QED
      BY <1>2, <2>1, SoundParts
  <1>4. Keeps(s.reliableCommands, s.reliableSequence)
    BY DEF Sound, ServerInv
  <1>5. Exactly(Unacknowledged(s), lo, s.reliableSequence)
    BY <1>2, <1>3, <1>4, UnacknowledgedExact
  <1>6. m.madeAt \in 0 .. sv.reliableSequence
    BY <1>1, <1>2
  <1> HIDE DEF m, lo
  <1>7. Exactly(m.commands, lo, m.madeAt) /\ m.madeAt <= lo + MAX_RELIABLE_COMMANDS
    BY <1>1, <1>3, <1>5
  <1>8. ServerMessageSound(m)
    BY <1>1, <1>2, <1>6, <1>7 DEF ServerMessageSound
  <1>9. QED
    BY <1>8 DEF m

LEMMA EncodeSound ==
  ASSUME NEW m, ServerMessageSound(m)
  PROVE  /\ ServerMessageSound(SV_Netchan_Encode(m))
         /\ SV_Netchan_Encode(m).ack = m.ack
  BY DEF SV_Netchan_Encode, ServerMessageSound

\* What the sequences of messages of the server are after a step, in terms of
\* the state before it.
OutgoingSound ==
  /\ IsSequence(toClient') /\ Len(toClient') <= MaxInFlight
  /\ IsSequence(unsent') /\ Len(unsent') <= 1
  /\ IsSequence(stacked') /\ Len(stacked') <= MaxStacked
  /\ \A i \in DOMAIN toClient' : ServerMessageSound(toClient'[i])
  /\ \A i \in DOMAIN unsent' : ServerMessageSound(unsent'[i])
  /\ \A i \in DOMAIN stacked' : ServerMessageSound(stacked'[i])

LEMMA AppendSound ==
  ASSUME NEW q, IsSequence(q), NEW m, ServerMessageSound(m),
         \A i \in DOMAIN q : ServerMessageSound(q[i])
  PROVE  /\ IsSequence(Append(q, m)) /\ Len(Append(q, m)) = Len(q) + 1
         /\ Len(q) \in Nat
         /\ \A i \in DOMAIN Append(q, m) : ServerMessageSound(Append(q, m)[i])
  <1>1. /\ IsSequence(Append(q, m)) /\ Len(Append(q, m)) = Len(q) + 1
        /\ \A i \in 1 .. Len(q) : Append(q, m)[i] = q[i]
        /\ Append(q, m)[Len(q) + 1] = m
    BY SequenceAppend
  <1>2. /\ Len(q) \in Nat /\ DOMAIN q = 1 .. Len(q)
        /\ DOMAIN Append(q, m) = 1 .. Len(q) + 1
    BY <1>1, SequenceDomain
  <1>3. ASSUME NEW i \in 1 .. Len(q) + 1
        PROVE  ServerMessageSound(Append(q, m)[i])
    <2>1. CASE i \in 1 .. Len(q)
      <3>1. Append(q, m)[i] = q[i] /\ ServerMessageSound(q[i])
        BY <1>1, <1>2, <2>1
      <3>2. QED
        BY <3>1
    <2>2. CASE i = Len(q) + 1
      BY <1>1, <2>2
    <2>3. QED
      BY <1>2, <2>1, <2>2
  <1>4. QED
    BY <1>1, <1>2, <1>3

\* The unsent message, if there is one, goes out behind those in flight.
LEMMA FinishedSound ==
  ASSUME Sound, unsent # <<>>
  PROVE  /\ IsSequence(toClient \o unsent)
         /\ Len(toClient \o unsent) = Len(toClient) + 1 /\ Len(toClient) \in Nat
         /\ \A i \in DOMAIN (toClient \o unsent) :
              ServerMessageSound((toClient \o unsent)[i])
         /\ toClient \o unsent = Append(toClient, unsent[1]) /\ 1 \in DOMAIN unsent
  <1>1. Len(unsent) <= 1
    BY DEF Sound, TypeOK
  <1>2. 1 \in DOMAIN unsent /\ toClient \o unsent = Append(toClient, unsent[1])
    BY <1>1, SoundParts, SequenceConcat
  <1>3. /\ ServerMessageSound(unsent[1])
        /\ \A i \in DOMAIN toClient : ServerMessageSound(toClient[i])
    BY <1>2, SoundParts DEF ServerMessagesSound
  <1>4. QED
    BY <1>2, <1>3, SoundParts, AppendSound

LEMMA EmptySound ==
  /\ IsSequence(<<>>) /\ Len(<<>>) = 0
  /\ \A i \in DOMAIN <<>> : ServerMessageSound(<<>>[i])
  <1>1. IsSequence(<<>>) /\ Len(<<>>) = 0
    BY EmptySeq, IsSequenceOver
  <1>2. DOMAIN <<>> = {}
    BY <1>1, SequenceDomain
  <1>3. QED
    BY <1>1, <1>2, Zenon

LEMMA SingletonSound ==
  ASSUME NEW m, ServerMessageSound(m)
  PROVE  /\ IsSequence(<<m>>) /\ Len(<<m>>) = 1
         /\ \A i \in DOMAIN <<m>> : ServerMessageSound(<<m>>[i])
  <1>1. <<m>> = Append(<<>>, m)
    OBVIOUS
  <1>2. QED
    BY <1>1, EmptySound, AppendSound

LEMMA TransmitSound ==
  ASSUME Sound, NEW q, IsSequence(q), Len(q) < MaxInFlight, Len(q) \in Nat,
         \A i \in DOMAIN q : ServerMessageSound(q[i]),
         NEW m, ServerMessageSound(m), Netchan_Transmit(m, q)
  PROVE  /\ IsSequence(toClient') /\ Len(toClient') <= MaxInFlight
         /\ IsSequence(unsent') /\ Len(unsent') <= 1
         /\ \A i \in DOMAIN toClient' : ServerMessageSound(toClient'[i])
         /\ \A i \in DOMAIN unsent' : ServerMessageSound(unsent'[i])
  <1>1. CASE toClient' = Append(q, m) /\ unsent' = <<>>
    <2>1. /\ IsSequence(toClient') /\ Len(toClient') = Len(q) + 1
          /\ \A i \in DOMAIN toClient' : ServerMessageSound(toClient'[i])
      BY <1>1, AppendSound
    <2>2. Len(toClient') <= MaxInFlight
      BY <2>1
    <2>3. /\ IsSequence(unsent') /\ Len(unsent') = 0
          /\ \A i \in DOMAIN unsent' : ServerMessageSound(unsent'[i])
      BY <1>1, EmptySound
    <2>4. QED
      BY <2>1, <2>2, <2>3
  <1>2. CASE toClient' = q /\ unsent' = <<m>>
    <2>1. Len(toClient') <= MaxInFlight
      BY <1>2
    <2>2. /\ IsSequence(unsent') /\ Len(unsent') = 1
          /\ \A i \in DOMAIN unsent' : ServerMessageSound(unsent'[i])
      BY <1>2, SingletonSound
    <2>3. QED
      BY <1>2, <2>1, <2>2
  <1>3. QED
    BY <1>1, <1>2 DEF Netchan_Transmit

LEMMA SequencesSound ==
  ASSUME Sound
  PROVE  /\ IsSequence(toClient) /\ Len(toClient) <= MaxInFlight
         /\ IsSequence(unsent) /\ Len(unsent) <= 1
         /\ IsSequence(stacked) /\ Len(stacked) <= MaxStacked
         /\ Len(toClient) \in Nat /\ Len(stacked) \in Nat
         /\ \A i \in DOMAIN toClient : ServerMessageSound(toClient[i])
         /\ \A i \in DOMAIN unsent : ServerMessageSound(unsent[i])
         /\ \A i \in DOMAIN stacked : ServerMessageSound(stacked[i])
  <1>1. /\ IsSequence(toClient) /\ Len(toClient) <= MaxInFlight
        /\ IsSequence(unsent) /\ Len(unsent) <= 1
        /\ IsSequence(stacked) /\ Len(stacked) <= MaxStacked
    BY DEF Sound, TypeOK
  <1>2. ServerMessagesSound
    BY DEF Sound, ServerInv
  <1>3. QED
    BY <1>1, <1>2, SequenceDomain DEF ServerMessagesSound

\* SV_Netchan_Transmit, whether the message goes out or is stacked.
LEMMA SentSound ==
  ASSUME Sound, Active, NEW s, ServerMessageSound(SV_WriteMessage(s)),
         SendNow(s) \/ Stack(s)
  PROVE  OutgoingSound
  <1>1. CASE SendNow(s)
    <2>1. /\ Len(toClient) < MaxInFlight /\ stacked' = stacked
          /\ Netchan_Transmit(SV_Netchan_Encode(SV_WriteMessage(s)), toClient)
      BY <1>1 DEF SendNow
    <2>2. ServerMessageSound(SV_Netchan_Encode(SV_WriteMessage(s)))
      BY EncodeSound
    <2>3. /\ IsSequence(toClient') /\ Len(toClient') <= MaxInFlight
          /\ IsSequence(unsent') /\ Len(unsent') <= 1
          /\ \A i \in DOMAIN toClient' : ServerMessageSound(toClient'[i])
          /\ \A i \in DOMAIN unsent' : ServerMessageSound(unsent'[i])
      BY <2>1, <2>2, SequencesSound, TransmitSound
    <2>4. QED
      BY <2>1, <2>3, SequencesSound DEF OutgoingSound
  <1>2. CASE Stack(s)
    <2>1. /\ unsent # <<>> /\ Len(stacked) < MaxStacked
          /\ Len(toClient) < MaxInFlight
          /\ stacked' = Append(stacked, SV_WriteMessage(s))
          /\ \/ toClient' = toClient /\ unsent' = unsent
             \/ toClient' = toClient \o unsent /\ unsent' = <<>>
      BY <1>2 DEF Stack
    <2>2. /\ IsSequence(stacked') /\ Len(stacked') <= MaxStacked
          /\ \A i \in DOMAIN stacked' : ServerMessageSound(stacked'[i])
      <3>1. /\ IsSequence(stacked') /\ Len(stacked') = Len(stacked) + 1
            /\ \A i \in DOMAIN stacked' : ServerMessageSound(stacked'[i])
        BY <2>1, SequencesSound, AppendSound
      <3>2. Len(stacked') <= MaxStacked
        BY <2>1, <3>1, SequencesSound
      <3>3. QED
        BY <3>1, <3>2
    <2>3. CASE toClient' = toClient /\ unsent' = unsent
      BY <2>2, <2>3, SequencesSound DEF OutgoingSound
    <2>4. CASE toClient' = toClient \o unsent /\ unsent' = <<>>
      <3>1. /\ IsSequence(toClient') /\ Len(toClient') = Len(toClient) + 1
            /\ \A i \in DOMAIN toClient' : ServerMessageSound(toClient'[i])
        BY <2>1, <2>4, FinishedSound
      <3>2. Len(toClient') <= MaxInFlight
        BY <2>1, <3>1, SequencesSound
      <3>3. /\ IsSequence(unsent') /\ Len(unsent') <= 1
            /\ \A i \in DOMAIN unsent' : ServerMessageSound(unsent'[i])
        BY <2>4, EmptySound
      <3>4. QED
        BY <2>2, <3>1, <3>2, <3>3 DEF OutgoingSound
    <2>5. QED
      BY <2>1, <2>3, <2>4
  <1>3. QED
    BY <1>1, <1>2

\* A step that only moves messages, and perhaps takes an acknowledgement.
LEMMA OutgoingStep ==
  ASSUME Sound, OutgoingSound, sv' \in SvType,
         UNCHANGED <<cl, got, snapshot, executed, lastMove, status>>,
         sv'.reliableSequence = sv.reliableSequence,
         sv'.reliableCommands = sv.reliableCommands,
         sv'.lastClientCommand = sv.lastClientCommand,
         sv'.reliableAcknowledge \in
           sv.reliableAcknowledge .. cl.serverCommandSequence,
         ClientMessagesSound', IsSequence(toServer'), Len(toServer') <= MaxInFlight
  PROVE  Sound'
  <1>1. TypeOK'
    BY DEF Sound, TypeOK, OutgoingSound, SvType
  <1>2. ServerMessagesSound'
    BY DEF OutgoingSound, ServerMessagesSound, ServerMessageSound
  <1>3. Len(executed') = sv'.lastClientCommand /\ (Active' => Active)
    BY DEF Sound, ServerInv, Active
  <1>4. ServerInv'
    BY <1>2, <1>3, ServerStep
  <1>5. QED
    BY <1>1, <1>4 DEF Sound

LEMMA UnchangedServer ==
  ASSUME Sound
  PROVE  /\ sv.reliableAcknowledge \in
              sv.reliableAcknowledge .. cl.serverCommandSequence
         /\ IsSequence(toServer) /\ Len(toServer) <= MaxInFlight
  <1>1. IsSequence(toServer) /\ Len(toServer) <= MaxInFlight
    BY DEF Sound, TypeOK
  <1>2. /\ sv.reliableAcknowledge \in Nat /\ cl.serverCommandSequence \in Nat
        /\ sv.reliableAcknowledge <= cl.serverCommandSequence
    BY SoundParts
  <1>3. sv.reliableAcknowledge \in sv.reliableAcknowledge .. cl.serverCommandSequence
    BY <1>2
  <1>4. QED
    BY <1>1, <1>3

LEMMA SV_SendMessageSound ==
  ASSUME Sound, SV_SendMessage \/ SV_StackMessage
  PROVE  Sound'
  <1>1. /\ Active
        /\ SendNow(sv) \/ Stack(sv)
        /\ UNCHANGED <<svVars, clVars, toServer, status>>
    BY DEF SV_SendMessage, SV_StackMessage
  <1>2. UNCHANGED <<sv, executed, lastMove, cl, got, snapshot, toServer, status>>
    BY <1>1 DEF svVars, clVars
  <1>3. ServerMessageSound(SV_WriteMessage(sv))
    <2>1. sv \in SvType /\ sv.reliableAcknowledge \in
                             sv.reliableAcknowledge .. cl.serverCommandSequence
      BY SoundParts, UnchangedServer
    <2>2. QED
      BY <1>1, <2>1, MadeSound
  <1>4. OutgoingSound
    BY <1>1, <1>3, SentSound
  <1>5. ClientMessagesSound'
    BY <1>2, SoundParts DEF ClientMessagesSound
  <1>6. QED
    BY <1>2, <1>4, <1>5, SoundParts, UnchangedServer, OutgoingStep

LEMMA SV_IgnoreOutdatedMessageSound ==
  ASSUME Sound, NEW i \in DOMAIN toServer, SV_IgnoreOutdatedMessage(i)
  PROVE  Sound'
  <1> DEFINE m == toServer[i]
             acked == [sv EXCEPT !.reliableAcknowledge = m.ack]
  <1>1. /\ Active /\ UNCHANGED <<executed, lastMove, status, clVars>>
        /\ toServer' = SubSeq(toServer, i + 1, Len(toServer))
    BY DEF SV_IgnoreOutdatedMessage
  <1>2. /\ m.ack \in Nat /\ Clamped(sv, m.ack) = m.ack
        /\ m.ack \in sv.reliableAcknowledge .. cl.serverCommandSequence
    BY <1>1, InRange
  <1>3. /\ sv' = acked
        /\ \/ UNCHANGED <<toClient, unsent, stacked>>
           \/ SendNow(acked) \/ Stack(acked)
    BY <1>2 DEF SV_IgnoreOutdatedMessage
  <1>4. UNCHANGED <<cl, got, snapshot>>
    BY <1>1 DEF clVars
  <1>5. /\ acked \in SvType
        /\ acked.reliableSequence = sv.reliableSequence
        /\ acked.reliableCommands = sv.reliableCommands
        /\ acked.lastClientCommand = sv.lastClientCommand
        /\ acked.reliableAcknowledge = m.ack
    BY <1>2, SoundParts DEF SvType
  <1> HIDE DEF acked
  <1>6. /\ ClientMessagesSound'
        /\ IsSequence(toServer') /\ Len(toServer') <= MaxInFlight
    BY <1>1, <1>3, <1>4, <1>5, ClientSuffix
  <1>7. OutgoingSound
    <2>1. CASE UNCHANGED <<toClient, unsent, stacked>>
      BY <2>1, SequencesSound DEF OutgoingSound
    <2>2. CASE SendNow(acked) \/ Stack(acked)
      <3>1. ServerMessageSound(SV_WriteMessage(acked))
        BY <1>1, <1>2, <1>5, MadeSound
      <3>2. QED
        BY <1>1, <2>2, <3>1, SentSound
    <2>3. QED
      BY <1>3, <2>1, <2>2
  <1>8. QED
    BY <1>1, <1>2, <1>3, <1>4, <1>5, <1>6, <1>7, OutgoingStep

LEMMA SV_Netchan_TransmitNextFragmentSound ==
  ASSUME Sound, SV_Netchan_TransmitNextFragment
  PROVE  Sound'
  <1>1. /\ unsent # <<>> /\ Len(toClient) + 1 < MaxInFlight
        /\ UNCHANGED <<svVars, clVars, toServer, status>>
    BY DEF SV_Netchan_TransmitNextFragment
  <1>2. UNCHANGED <<sv, executed, lastMove, cl, got, snapshot, toServer, status>>
    BY <1>1 DEF svVars, clVars
  <1> DEFINE q == toClient \o unsent
  <1>3. /\ IsSequence(q) /\ Len(q) = Len(toClient) + 1 /\ Len(toClient) \in Nat
        /\ \A i \in DOMAIN q : ServerMessageSound(q[i])
    BY <1>1, FinishedSound
  <1>4. Len(q) < MaxInFlight /\ Len(q) \in Nat /\ Len(q) <= MaxInFlight
    BY <1>1, <1>3
  <1>5. \/ stacked = <<>> /\ toClient' = q /\ unsent' = <<>> /\ stacked' = stacked
        \/ /\ stacked # <<>> /\ stacked' = Tail(stacked)
           /\ Netchan_Transmit(SV_Netchan_Encode(Head(stacked)), q)
    BY DEF SV_Netchan_TransmitNextFragment
  <1> HIDE DEF q
  <1>6. OutgoingSound
    <2>1. CASE stacked = <<>> /\ toClient' = q /\ unsent' = <<>> /\ stacked' = stacked
      <3>1. /\ IsSequence(unsent') /\ Len(unsent') = 0
            /\ \A i \in DOMAIN unsent' : ServerMessageSound(unsent'[i])
        BY <2>1, EmptySound
      <3>2. QED
        BY <1>3, <1>4, <2>1, <3>1, SequencesSound DEF OutgoingSound
    <2>2. CASE /\ stacked # <<>> /\ stacked' = Tail(stacked)
               /\ Netchan_Transmit(SV_Netchan_Encode(Head(stacked)), q)
      <3>1. /\ IsSequence(stacked') /\ Len(stacked') = Len(stacked) - 1
            /\ \A k \in 1 .. Len(stacked') : stacked'[k] = stacked[k + 1]
            /\ 1 \in DOMAIN stacked /\ Head(stacked) = stacked[1]
        BY <2>2, SequencesSound, SequenceTail
      <3>2. /\ DOMAIN stacked = 1 .. Len(stacked) /\ DOMAIN stacked' = 1 .. Len(stacked')
            /\ Len(stacked) \in Nat
        BY <3>1, SequencesSound, SequenceDomain
      <3>3. ServerMessageSound(SV_Netchan_Encode(Head(stacked)))
        BY <3>1, SequencesSound, EncodeSound
      <3>4. /\ IsSequence(toClient') /\ Len(toClient') <= MaxInFlight
            /\ IsSequence(unsent') /\ Len(unsent') <= 1
            /\ \A i \in DOMAIN toClient' : ServerMessageSound(toClient'[i])
            /\ \A i \in DOMAIN unsent' : ServerMessageSound(unsent'[i])
        BY <1>3, <1>4, <2>2, <3>3, TransmitSound
      <3>5. Len(stacked') <= MaxStacked
        BY <3>1, <3>2, SequencesSound
      <3>6. ASSUME NEW k \in DOMAIN stacked'
            PROVE  ServerMessageSound(stacked'[k])
        <4>1. k + 1 \in DOMAIN stacked /\ stacked'[k] = stacked[k + 1]
          BY <3>1, <3>2
        <4>2. ServerMessageSound(stacked[k + 1])
          BY <4>1, SequencesSound
        <4>3. QED
          BY <4>1, <4>2
      <3>7. QED
        BY <3>1, <3>4, <3>5, <3>6 DEF OutgoingSound
    <2>3. QED
      BY <1>5, <2>1, <2>2
  <1>7. ClientMessagesSound'
    BY <1>2, SoundParts DEF ClientMessagesSound
  <1>8. QED
    BY <1>2, <1>6, <1>7, SoundParts, UnchangedServer, OutgoingStep

\* The part of a sequence that is left keeps what holds of each message.
LEMMA SuffixSound ==
  ASSUME NEW q, IsSequence(q), NEW i \in DOMAIN q,
         \A k \in DOMAIN q : ServerMessageSound(q[k])
  PROVE  LET t == SubSeq(q, i + 1, Len(q))
         IN  /\ IsSequence(t) /\ Len(t) = Len(q) - i
             /\ Len(q) \in Nat /\ i \in Nat /\ i <= Len(q)
             /\ \A k \in DOMAIN t : ServerMessageSound(t[k])
  <1> DEFINE t == SubSeq(q, i + 1, Len(q))
  <1>1. /\ IsSequence(t) /\ Len(t) = Len(q) - i
        /\ \A k \in 1 .. Len(t) : t[k] = q[k + i]
    BY SequenceSuffix
  <1>2. DOMAIN t = 1 .. Len(t) /\ DOMAIN q = 1 .. Len(q) /\ Len(q) \in Nat
    BY <1>1, SequenceDomain
  <1> HIDE DEF t
  <1>3. ASSUME NEW k \in DOMAIN t
        PROVE  ServerMessageSound(t[k])
    <2>1. k + i \in DOMAIN q /\ t[k] = q[k + i]
      BY <1>1, <1>2
    <2>2. ServerMessageSound(q[k + i])
      BY <2>1
    <2>3. QED
      BY <2>1, <2>2
  <1>4. QED
    BY <1>1, <1>2, <1>3 DEF t

\* Losing the oldest message is taking up to it.
LEMMA TailIsSuffix ==
  ASSUME NEW q, IsSequence(q), q # <<>>
  PROVE  1 \in DOMAIN q /\ Tail(q) = SubSeq(q, 1 + 1, Len(q))
  <1> DEFINE S == {q[k] : k \in DOMAIN q}
             t == SubSeq(q, 1 + 1, Len(q))
  <1>1. q \in Seq(S) /\ 1 \in DOMAIN q
    BY SequenceTail DEF IsSequence
  <1>2. /\ IsSequence(Tail(q)) /\ Len(Tail(q)) = Len(q) - 1
        /\ \A k \in 1 .. Len(Tail(q)) : Tail(q)[k] = q[k + 1]
    BY SequenceTail
  <1>3. /\ IsSequence(t) /\ Len(t) = Len(q) - 1
        /\ \A k \in 1 .. Len(t) : t[k] = q[k + 1]
    BY <1>1, SequenceSuffix
  <1> HIDE DEF t, S
  <1>4. Len(t) = Len(Tail(q)) /\ \A k \in 1 .. Len(t) : t[k] = Tail(q)[k]
    BY <1>2, <1>3
  <1>5. t = Tail(q)
    BY <1>2, <1>3, <1>4, SameSequence
  <1>6. QED
    BY <1>1, <1>5 DEF t

LEMMA CL_ParseServerMessageSound ==
  ASSUME Sound, NEW i \in DOMAIN toClient, CL_ParseServerMessage(i)
  PROVE  Sound'
  <1> DEFINE m == toClient[i]
  <1>1. /\ Active /\ UNCHANGED <<svVars, got, toServer, unsent, stacked>>
        /\ toClient' = SubSeq(toClient, i + 1, Len(toClient))
        /\ \/ status' = "illegible" /\ UNCHANGED <<cl, snapshot>>
           \/ /\ cl' = Stored(m) /\ status' = status
              /\ snapshot' = [madeAt |-> m.madeAt,
                              serverCommandNum |-> cl'.serverCommandSequence]
    BY DEF CL_ParseServerMessage
  <1>2. UNCHANGED <<sv, executed, lastMove>>
    BY <1>1 DEF svVars
  <1>3. ServerMessageSound(m) /\ m.madeAt \in Nat /\ m.madeAt <= sv.reliableSequence
    <2>1. ServerMessageSound(m)
      BY SequencesSound
    <2>2. QED
      BY <2>1, SoundParts DEF ServerMessageSound
  <1>4. /\ cl \in ClType
        /\ Keeps(cl.serverCommands, cl.serverCommandSequence)
        /\ snapshot.madeAt <= snapshot.serverCommandNum
        /\ snapshot.serverCommandNum <= cl.serverCommandSequence
        /\ snapshot \in [madeAt : Nat, serverCommandNum : Nat]
        /\ GameGetsEveryCommand
    BY SoundParts DEF Sound, ServerInv, TypeOK
  <1>5. /\ cl' \in ClType
        /\ cl'.lastExecutedServerCommand = cl.lastExecutedServerCommand
        /\ cl.serverCommandSequence <= cl'.serverCommandSequence
        /\ cl'.serverCommandSequence <= sv.reliableSequence
        /\ Keeps(cl'.serverCommands, cl'.serverCommandSequence)
        /\ snapshot' \in [madeAt : Nat, serverCommandNum : Nat]
        /\ snapshot'.madeAt <= snapshot'.serverCommandNum
        /\ snapshot'.serverCommandNum <= cl'.serverCommandSequence
        /\ status' \in {status, "illegible"}
    <2>1. CASE UNCHANGED <<cl, snapshot>> /\ status' = "illegible"
      BY <1>4, <2>1, SoundParts
    <2>2. CASE /\ cl' = Stored(m) /\ status' = status
               /\ snapshot' = [madeAt |-> m.madeAt,
                               serverCommandNum |-> cl'.serverCommandSequence]
      <3>1. /\ Stored(m) \in ClType
            /\ Stored(m).serverCommandSequence =
                 IF m.madeAt > cl.serverCommandSequence THEN m.madeAt
                 ELSE cl.serverCommandSequence
            /\ Keeps(Stored(m).serverCommands, Stored(m).serverCommandSequence)
            /\ Stored(m)["lastExecutedServerCommand"] = cl["lastExecutedServerCommand"]
        BY <1>3, <1>4, StoredSound, SoundParts
      <3>2. /\ cl'.serverCommandSequence =
                 IF m.madeAt > cl.serverCommandSequence THEN m.madeAt
                 ELSE cl.serverCommandSequence
            /\ cl' \in ClType
            /\ cl'.lastExecutedServerCommand = cl.lastExecutedServerCommand
            /\ Keeps(cl'.serverCommands, cl'.serverCommandSequence)
        BY <2>2, <3>1
      <3>3. /\ snapshot'.madeAt = m.madeAt
            /\ snapshot'.serverCommandNum = cl'.serverCommandSequence
        BY <2>2
      <3>4. cl.serverCommandSequence \in Nat /\ cl.serverCommandSequence <= sv.reliableSequence
            /\ sv.reliableSequence \in Nat
        BY SoundParts
      <3>5. /\ cl'.serverCommandSequence \in Nat
            /\ cl.serverCommandSequence <= cl'.serverCommandSequence
            /\ cl'.serverCommandSequence <= sv.reliableSequence
            /\ m.madeAt <= cl'.serverCommandSequence
        BY <1>3, <3>2, <3>4
      <3>6. snapshot' \in [madeAt : Nat, serverCommandNum : Nat]
        BY <1>3, <2>2, <3>5
      <3>7. QED
        BY <2>2, <3>2, <3>3, <3>5, <3>6
    <2>3. QED
      BY <1>1, <2>1, <2>2
  <1>6. /\ IsSequence(toClient') /\ Len(toClient') <= MaxInFlight
        /\ \A k \in DOMAIN toClient' : ServerMessageSound(toClient'[k])
    <2>1. /\ IsSequence(toClient') /\ Len(toClient') = Len(toClient) - i
          /\ Len(toClient) \in Nat /\ i \in Nat /\ i <= Len(toClient)
          /\ \A k \in DOMAIN toClient' : ServerMessageSound(toClient'[k])
      BY <1>1, SequencesSound, SuffixSound
    <2>2. Len(toClient) <= MaxInFlight
      BY SequencesSound
    <2>3. Len(toClient') <= MaxInFlight
      BY <2>1, <2>2
    <2>4. QED
      BY <2>1, <2>3
  <1>7. \A x : ServerMessageSound(x) => ServerMessageSound(x)'
    <2>1. sv \in SvType /\ sv' \in SvType /\ sv.reliableSequence <= sv'.reliableSequence
      BY <1>2, SoundParts
    <2>2. QED
      BY <1>4, <1>5, <2>1, SoundGrows
  <1>8. ServerMessagesSound'
    BY <1>1, <1>6, <1>7, SequencesSound DEF ServerMessagesSound
  <1>9. ClientMessagesSound'
    <2>1. sv \in SvType /\ sv' \in SvType /\ ClientMessagesSound
      BY <1>2, SoundParts
    <2>2. QED
      BY <1>1, <1>2, <1>4, <1>5, <2>1, ClientMessagesStay
  <1>10. TypeOK'
    BY <1>1, <1>2, <1>5, <1>6 DEF Sound, TypeOK, ClType
  <1>11. sv'.reliableAcknowledge <= cl'.serverCommandSequence
    <2>1. cl'.serverCommandSequence \in Nat
      BY <1>5, ClFields
    <2>2. QED
      BY <1>2, <1>5, <2>1, SoundParts
  <1>12. Active' => /\ sv'.reliableSequence <=
                         sv'.reliableAcknowledge + MAX_RELIABLE_COMMANDS
                    /\ Keeps(sv'.reliableCommands, sv'.reliableSequence)
    BY <1>1, <1>2 DEF Sound, ServerInv
  <1>13. ServerInv'
    BY <1>1, <1>2, <1>4, <1>5, <1>8, <1>9, <1>11, <1>12
       DEF Sound, ServerInv, GameGetsEveryCommand
  <1>14. QED
    BY <1>10, <1>13 DEF Sound

LEMMA CL_GetServerCommandSound ==
  ASSUME Sound, CL_GetServerCommand
  PROVE  Sound'
  <1> DEFINE n == cl.lastExecutedServerCommand + 1
  <1>1. /\ Active /\ UNCHANGED <<svVars, snapshot, channelVars>>
        /\ n <= snapshot.serverCommandNum
    BY DEF CL_GetServerCommand
  <1>2. UNCHANGED <<sv, executed, lastMove, toClient, toServer, unsent, stacked>>
    BY <1>1 DEF svVars, channelVars
  <1>3. /\ cl \in ClType /\ cl.serverCommandSequence \in Nat
        /\ cl.lastExecutedServerCommand \in Nat
        /\ Keeps(cl.serverCommands, cl.serverCommandSequence)
        /\ snapshot.serverCommandNum \in Nat
        /\ snapshot.serverCommandNum <= cl.serverCommandSequence
        /\ got \in Seq(Nat) /\ GameGetsEveryCommand
    BY SoundParts, ClFields DEF Sound, ServerInv, TypeOK
  <1>4. /\ cl' \in ClType
        /\ cl'.serverCommandSequence = cl.serverCommandSequence
        /\ cl'.serverCommands = cl.serverCommands
        /\ got' \in Seq(Nat) /\ GameGetsEveryCommand'
        /\ status' \in {"active", "cycled out"} /\ status = "active"
    <2>1. CASE n <= cl.serverCommandSequence - MAX_RELIABLE_COMMANDS
      <3>1. status' = "cycled out" /\ UNCHANGED <<cl, got>>
        BY <2>1 DEF CL_GetServerCommand
      <3>2. QED
        BY <1>1, <1>3, <3>1 DEF Active, GameGetsEveryCommand
    <2>2. CASE ~(n <= cl.serverCommandSequence - MAX_RELIABLE_COMMANDS)
      <3>1. /\ cl' = [cl EXCEPT !.lastExecutedServerCommand = n]
            /\ got' = Append(got, cl.serverCommands[Slot(n)])
            /\ status' = status
        BY <2>2 DEF CL_GetServerCommand
      <3>2. n \in 1 .. cl.serverCommandSequence /\ n \in Nat
        BY <1>1, <1>3
      <3>3. n > cl.serverCommandSequence - MAX_RELIABLE_COMMANDS
        BY <1>3, <2>2, <3>2
      <3>4. cl.serverCommands[Slot(n)] = n
        BY <1>3, <3>2, <3>3 DEF Keeps
      <3> HIDE DEF n
      <3>5. /\ cl' \in ClType
            /\ cl'.serverCommandSequence = cl.serverCommandSequence
            /\ cl'.serverCommands = cl.serverCommands
            /\ cl'.lastExecutedServerCommand = n
        BY <1>3, <3>1, <3>2 DEF ClType
      <3>6. got' \in Seq(Nat) /\ GameGetsEveryCommand'
        <4>1. Len(got) = n - 1 /\ \A k \in 1 .. Len(got) : got[k] = k
          <5>1. Len(got) = cl.lastExecutedServerCommand
            BY <1>3 DEF GameGetsEveryCommand
          <5>2. \A k \in 1 .. Len(got) : got[k] = k
            BY <1>3, LenProperties DEF GameGetsEveryCommand
          <5>3. QED
            BY <1>3, <5>1, <5>2 DEF n
        <4>2. got' = Append(got, n)
          BY <3>1, <3>4
        <4>3. /\ got' \in Seq(Nat) /\ Len(got') = n
              /\ \A k \in 1 .. n : got'[k] = k
          BY <1>3, <3>2, <4>1, <4>2, AppendProperties
        <4>4. DOMAIN got' = 1 .. n
          BY <4>3, LenProperties
        <4>5. QED
          BY <3>5, <4>3, <4>4 DEF GameGetsEveryCommand
      <3>7. QED
        BY <1>1, <3>1, <3>5, <3>6 DEF Active
    <2>3. QED
      BY <2>1, <2>2
  <1>5. TypeOK'
    BY <1>1, <1>2, <1>4 DEF Sound, TypeOK, ClType
  <1>6. ServerMessagesSound' /\ ClientMessagesSound'
    BY <1>2, <1>4, SoundParts
       DEF ServerMessagesSound, ClientMessagesSound, ServerMessageSound
  <1>7. ServerInv'
    BY <1>1, <1>2, <1>4, <1>6 DEF Sound, ServerInv, Active
  <1>8. QED
    BY <1>5, <1>7 DEF Sound

LEMMA LoseToClientSound ==
  ASSUME Sound, LoseToClient
  PROVE  Sound'
  <1>1. /\ UNCHANGED <<sv, executed, lastMove, cl, got, snapshot, toServer, status>>
        /\ UNCHANGED <<unsent, stacked>>
        /\ toClient # <<>> /\ toClient' = Tail(toClient)
    BY DEF LoseToClient, svVars, clVars
  <1>2. 1 \in DOMAIN toClient /\ toClient' = SubSeq(toClient, 1 + 1, Len(toClient))
    BY <1>1, SequencesSound, TailIsSuffix
  <1>3. /\ IsSequence(toClient') /\ Len(toClient') = Len(toClient) - 1
        /\ Len(toClient) \in Nat
        /\ \A k \in DOMAIN toClient' : ServerMessageSound(toClient'[k])
    BY <1>2, SequencesSound, SuffixSound
  <1>4. Len(toClient') <= MaxInFlight
    BY <1>3, SequencesSound
  <1>5. OutgoingSound
    BY <1>1, <1>3, <1>4, SequencesSound DEF OutgoingSound
  <1>6. ClientMessagesSound'
    BY <1>1, SoundParts DEF ClientMessagesSound
  <1>7. QED
    BY <1>1, <1>5, <1>6, SoundParts, UnchangedServer, OutgoingStep

LEMMA LoseToServerSound ==
  ASSUME Sound, LoseToServer
  PROVE  Sound'
  <1>1. /\ UNCHANGED <<sv, executed, lastMove, cl, got, snapshot, toClient, status>>
        /\ UNCHANGED <<unsent, stacked>>
        /\ toServer # <<>> /\ toServer' = Tail(toServer)
    BY DEF LoseToServer, svVars, clVars
  <1>2. 1 \in DOMAIN toServer /\ toServer' = SubSeq(toServer, 1 + 1, Len(toServer))
    BY <1>1, SoundParts, TailIsSuffix
  <1>3. /\ ClientMessagesSound'
        /\ IsSequence(toServer') /\ Len(toServer') <= MaxInFlight
    BY <1>1, <1>2, ClientSuffix
  <1>4. OutgoingSound
    BY <1>1, SequencesSound DEF OutgoingSound
  <1>5. QED
    BY <1>1, <1>3, <1>4, SoundParts, UnchangedServer, OutgoingStep

LEMMA StutterSound ==
  ASSUME Sound, UNCHANGED vars
  PROVE  Sound'
  <1>1. /\ UNCHANGED <<sv, executed, lastMove, cl, got, snapshot, status>>
        /\ UNCHANGED <<toClient, toServer, unsent, stacked>>
    BY DEF vars, svVars, clVars, channelVars
  <1>2. OutgoingSound
    BY <1>1, SequencesSound DEF OutgoingSound
  <1>3. ClientMessagesSound'
    BY <1>1, SoundParts DEF ClientMessagesSound
  <1>4. QED
    BY <1>1, <1>2, <1>3, SoundParts, UnchangedServer, OutgoingStep

LEMMA SoundStep == Sound /\ [Next]_vars => Sound'
  <1> SUFFICES ASSUME Sound, [Next]_vars PROVE Sound'
    OBVIOUS
  <1>1. CASE CL_AddReliableCommand
    BY <1>1, CL_AddReliableCommandSound
  <1>2. CASE SV_AddServerCommand
    BY <1>2, SV_AddServerCommandSound
  <1>3. CASE CL_WritePacket
    BY <1>3, CL_WritePacketSound
  <1>4. CASE \E i \in DOMAIN toServer : SV_ExecuteClientMessage(i)
    BY <1>4, SV_ExecuteClientMessageSound
  <1>5. CASE \E i \in DOMAIN toServer : SV_IgnoreOutdatedMessage(i)
    BY <1>5, SV_IgnoreOutdatedMessageSound
  <1>6. CASE SV_SendMessage \/ SV_StackMessage
    BY <1>6, SV_SendMessageSound
  <1>7. CASE SV_Netchan_TransmitNextFragment
    BY <1>7, SV_Netchan_TransmitNextFragmentSound
  <1>8. CASE \E i \in DOMAIN toClient : CL_ParseServerMessage(i)
    BY <1>8, CL_ParseServerMessageSound
  <1>9. CASE CL_GetServerCommand
    BY <1>9, CL_GetServerCommandSound
  <1>10. CASE LoseToClient
    BY <1>10, LoseToClientSound
  <1>11. CASE LoseToServer
    BY <1>11, LoseToServerSound
  <1>12. CASE UNCHANGED vars
    BY <1>12, StutterSound
  <1>13. QED
    BY <1>1, <1>2, <1>3, <1>4, <1>5, <1>6, <1>7, <1>8, <1>9, <1>10, <1>11,
       <1>12 DEF Next

\* Spec keeps its types and the server's half of the invariant.
LEMMA SoundInvariant == Spec => []Sound
  BY InitSound, SoundStep, PTL DEF Spec

\* The model has its types: the numbers of both sides stay natural numbers,
\* the rings stay rings and no sequence of messages grows past its bound.
THEOREM TypeCorrect == Spec => []TypeOK
  <1>1. Sound => TypeOK
    BY DEF Sound
  <1>2. QED
    BY <1>1, SoundInvariant, PTL

\* Whatever is lost, stacked or overtaken, cgame gets every server command
\* under its own number, or is told that it has been cycled out
\* (CL_GetServerCommand).
THEOREM GameGets == Spec => []GameGetsEveryCommand
  <1>1. Sound => GameGetsEveryCommand
    BY DEF Sound, ServerInv, GameGetsEveryCommand
  <1>2. QED
    BY <1>1, SoundInvariant, PTL

\* A snapshot never gets to the client before a command that was added before
\* the snapshot was made, even when stacked messages overtake one another
\* (SV_WriteMessage, CL_ParseServerMessage).
THEOREM SnapshotsFollow == Spec => []SnapshotsAfterCommands
  <1>1. Sound => SnapshotsAfterCommands
    BY DEF Sound, ServerInv, SnapshotsAfterCommands
  <1>2. QED
    BY <1>1, SoundInvariant, PTL
-----------------------------------------------------------------------------
(* The stream of the server's commands.                                    *)

\* A stream of which the k-th string is k, whole.
LEMMA NumberedStream ==
  ASSUME NEW q \in Seq(Nat), \A k \in DOMAIN q : q[k] = k
  PROVE  q = [k \in 1 .. Len(q) |-> k]
  <1>1. q \in [1 .. Len(q) -> Nat] /\ DOMAIN q = 1 .. Len(q)
    BY LenProperties
  <1> DEFINE n == Len(q)
  <1> HIDE DEF n
  <1>2. q = [k \in 1 .. n |-> q[k]]
    BY <1>1 DEF n
  <1>3. \A k \in 1 .. n : q[k] = k
    BY <1>1 DEF n
  <1>4. QED
    BY <1>2, <1>3 DEF n

\* Only SV_AddServerCommand touches the number of the server's last command.
LEMMA ServerSequence ==
  ASSUME Sound, [Next]_vars
  PROVE  \/ sv'.reliableSequence = sv.reliableSequence
         \/ SV_AddServerCommand /\ sv'.reliableSequence = sv.reliableSequence + 1
  <1>1. sv \in SvType
    BY SoundParts
  <1>2. CASE SV_AddServerCommand
    <2>1. sv.reliableSequence < MaxServerCommands
      BY <1>2 DEF SV_AddServerCommand
    <2> DEFINE n == sv.reliableSequence + 1
    <2>2. Added(sv) = [sv EXCEPT !.reliableSequence = n,
                                 !.reliableCommands =
                                   [sv.reliableCommands EXCEPT ![Slot(n)] = n]]
      BY <1>1, <2>1, AddedSv
    <2>3. sv' = [sv EXCEPT !.reliableSequence = n] \/ sv' = Added(sv)
      BY <1>2 DEF SV_AddServerCommand
    <2> HIDE DEF n
    <2>4. sv'.reliableSequence = n
      BY <1>1, <2>2, <2>3 DEF SvType
    <2>5. QED
      BY <1>2, <2>4 DEF n
  <1>3. ASSUME NEW i \in DOMAIN toServer,
               SV_ExecuteClientMessage(i) \/ SV_IgnoreOutdatedMessage(i)
        PROVE  sv'.reliableSequence = sv.reliableSequence
    <2> DEFINE m == toServer[i]
    <2>1. Active
      BY <1>3 DEF SV_ExecuteClientMessage, SV_IgnoreOutdatedMessage
    <2>2. /\ m.ack \in Nat /\ Clamped(sv, m.ack) = m.ack /\ m.move \in Nat
          /\ \E lo \in 0 .. m.move : m.commands \in [lo + 1 .. m.move -> Nat]
      BY <2>1, InRange, SoundParts DEF ClientMessagesSound
    <2>3. CASE UNCHANGED svVars
      BY <2>3 DEF svVars
    <2>4. CASE ExecuteCommands(m)
      <3> HIDE DEF m
      <3>1. QED
        BY <2>2, <2>4, ExecutedSound
    <2>5. CASE sv' = [sv EXCEPT !.reliableAcknowledge = m.ack]
      BY <1>1, <2>5 DEF SvType
    <2>6. QED
      BY <1>3, <2>2, <2>3, <2>4, <2>5
         DEF SV_ExecuteClientMessage, SV_IgnoreOutdatedMessage
  <1>4. QED
    BY <1>2, <1>3 DEF Next, vars, svVars, CL_AddReliableCommand, CL_WritePacket,
       SV_SendMessage, SV_StackMessage, SV_Netchan_TransmitNextFragment,
       CL_ParseServerMessage, CL_GetServerCommand, LoseToClient, LoseToServer

\* Only CL_GetServerCommand gives a command to cgame, the next one.
LEMMA GotNext ==
  ASSUME [Next]_vars
  PROVE  \/ got' = got
         \/ /\ CL_GetServerCommand /\ sv' = sv
            /\ cl.lastExecutedServerCommand + 1 <= snapshot.serverCommandNum
            /\ cl' = [cl EXCEPT !.lastExecutedServerCommand =
                                  cl.lastExecutedServerCommand + 1]
  BY DEF Next, vars, svVars, clVars, CL_AddReliableCommand, CL_WritePacket,
     SV_AddServerCommand, SV_ExecuteClientMessage, SV_IgnoreOutdatedMessage,
     SV_SendMessage, SV_StackMessage, SV_Netchan_TransmitNextFragment,
     CL_ParseServerMessage, CL_GetServerCommand, LoseToClient, LoseToServer

LEMMA ServerStreamStep ==
  ASSUME Sound, Sound', [Next]_vars
  PROVE  [ServerStream!Next]_(ServerStream!streamVars)
  <1>1. /\ sv.reliableSequence \in Nat
        /\ cl \in ClType /\ cl.lastExecutedServerCommand \in Nat
        /\ cl.serverCommandSequence \in Nat
        /\ cl.serverCommandSequence <= sv.reliableSequence
    BY SoundParts, ClFields
  <1>2. CASE got' = got
    <2>1. CASE sv'.reliableSequence = sv.reliableSequence
      BY <1>2, <2>1 DEF ServerStream!streamVars
    <2>2. CASE sv'.reliableSequence = sv.reliableSequence + 1
      BY <1>2, <2>2 DEF ServerStream!Next, ServerStream!Add
    <2>3. QED
      BY <2>1, <2>2, ServerSequence
  <1>3. CASE /\ sv' = sv
             /\ cl.lastExecutedServerCommand + 1 <= snapshot.serverCommandNum
             /\ cl' = [cl EXCEPT !.lastExecutedServerCommand =
                                   cl.lastExecutedServerCommand + 1]
    <2> DEFINE n == cl.lastExecutedServerCommand + 1
    <2>1. /\ snapshot.serverCommandNum \in Nat
          /\ snapshot.serverCommandNum <= cl.serverCommandSequence
          /\ Len(got) = cl.lastExecutedServerCommand
          /\ got' \in Seq(Nat) /\ Len(got') = cl'.lastExecutedServerCommand
          /\ \A k \in DOMAIN got' : got'[k] = k
      BY DEF Sound, ServerInv, TypeOK, GameGetsEveryCommand
    <2>2. n \in Len(got) + 1 .. sv.reliableSequence
      <3>1. /\ n \in Nat /\ n = Len(got) + 1
            /\ n <= snapshot.serverCommandNum
        BY <1>1, <1>3, <2>1
      <3>2. /\ sv.reliableSequence \in Nat /\ cl.serverCommandSequence \in Nat
            /\ cl.serverCommandSequence <= sv.reliableSequence
        BY SoundParts, SvFields, ClFields
      <3> HIDE DEF n
      <3>3. QED
        BY <2>1, <3>1, <3>2
    <2>3. Len(got') = n
      <3>1. cl' = [cl EXCEPT !.lastExecutedServerCommand = n]
        BY <1>3
      <3> HIDE DEF n
      <3>2. QED
        BY <1>1, <2>1, <3>1 DEF ClType
    <2>4. got' = [k \in 1 .. n |-> k]
      <3> HIDE DEF n
      <3>1. got' = [k \in 1 .. Len(got') |-> k]
        BY <2>1, NumberedStream
      <3>2. QED
        BY <2>3, <3>1
    <2>5. UNCHANGED sv.reliableSequence
      BY <1>3
    <2> HIDE DEF n
    <2>6. QED
      BY <2>2, <2>4, <2>5 DEF ServerStream!Next, ServerStream!Execute
  <1>4. QED
    BY <1>2, <1>3, GotNext

\* Whatever is lost, stacked or overtaken, and however the client's ring wraps:
\* cgame executes the server's commands as CommandStream says, in the order
\* SV_AddServerCommand numbered them, each once, each with its own string, none
\* left out (CL_GetServerCommand).
THEOREM ServerCommandStream == Spec => ServerStream!Spec
  <1>1. Init => ServerStream!Init
    BY DEF Init, ServerStream!Init
  <1>2. Sound /\ Sound' /\ [Next]_vars
          => [ServerStream!Next]_(ServerStream!streamVars)
    BY ServerStreamStep
  <1>3. QED
    BY <1>1, <1>2, SoundInvariant, PTL DEF Spec, ServerStream!Spec
=============================================================================
