------------------------ MODULE ReliableOrderProofs -------------------------
(***************************************************************************)
(* Proofs about ReliableCommands: the client's commands.  With stacked     *)
(* messages, in whatever order they arrive, as long as none acknowledges a *)
(* command a ring behind the client's last one (AcksFresh); and that this  *)
(* is so as long as no message is stacked.                                 *)
(***************************************************************************)
EXTENDS ReliableProofs

USE RingAssumption, BoundsAssumption
-----------------------------------------------------------------------------
(* What the messages of the server on their way acknowledge.               *)

LEMMA AppendElements ==
  ASSUME NEW q, IsSequence(q), NEW m, NEW i \in DOMAIN Append(q, m)
  PROVE  Append(q, m)[i] = m \/ \E k \in DOMAIN q : Append(q, m)[i] = q[k]
  <1> DEFINE r == Append(q, m)
  <1>1. /\ IsSequence(r) /\ Len(r) = Len(q) + 1
        /\ \A k \in 1 .. Len(q) : r[k] = q[k]
        /\ r[Len(q) + 1] = m
    BY SequenceAppend
  <1>2. Len(q) \in Nat /\ DOMAIN q = 1 .. Len(q) /\ DOMAIN r = 1 .. Len(q) + 1
    BY <1>1, SequenceDomain
  <1> HIDE DEF r
  <1>3. i \in 1 .. Len(q) \/ i = Len(q) + 1
    BY <1>2 DEF r
  <1>4. r[i] = m \/ \E k \in DOMAIN q : r[i] = q[k]
    BY <1>1, <1>2, <1>3
  <1>5. QED
    BY <1>4 DEF r

LEMMA SuffixElements ==
  ASSUME NEW q, IsSequence(q), NEW i \in DOMAIN q,
         NEW k \in DOMAIN SubSeq(q, i + 1, Len(q))
  PROVE  \E j \in DOMAIN q : SubSeq(q, i + 1, Len(q))[k] = q[j]
  <1> DEFINE t == SubSeq(q, i + 1, Len(q))
  <1>1. /\ IsSequence(t) /\ Len(t) = Len(q) - i
        /\ \A j \in 1 .. Len(t) : t[j] = q[j + i]
    BY SequenceSuffix
  <1>2. DOMAIN t = 1 .. Len(t) /\ DOMAIN q = 1 .. Len(q) /\ Len(q) \in Nat
    BY <1>1, SequenceDomain
  <1>3. k \in 1 .. Len(t) /\ i \in 1 .. Len(q)
    BY <1>2
  <1> HIDE DEF t
  <1>4. k \in 1 .. Len(q) - i
    BY <1>1, <1>3
  <1>5. k + i \in 1 .. Len(q)
    BY <1>2, <1>3, <1>4
  <1>6. k + i \in DOMAIN q /\ t[k] = q[k + i]
    BY <1>1, <1>2, <1>3, <1>5
  <1>7. QED
    BY <1>6 DEF t

LEMMA EmptyDomain == DOMAIN <<>> = {}
  BY EmptySound, SequenceDomain

LEMMA SingletonElements ==
  ASSUME NEW m, NEW i \in DOMAIN <<m>>
  PROVE  <<m>>[i] = m
  <1>1. <<m>> = Append(<<>>, m) /\ IsSequence(<<>>)
    BY EmptySound
  <1>2. QED
    BY <1>1, EmptyDomain, AppendElements

\* A message that is transmitted joins those in flight or is the unsent one.
LEMMA TransmitElements ==
  ASSUME NEW q, IsSequence(q), NEW m, Netchan_Transmit(m, q)
  PROVE  /\ \A i \in DOMAIN toClient' :
              toClient'[i] = m \/ \E k \in DOMAIN q : toClient'[i] = q[k]
         /\ \A i \in DOMAIN unsent' : unsent'[i] = m
  <1>1. CASE toClient' = Append(q, m) /\ unsent' = <<>>
    <2>1. \A i \in DOMAIN toClient' :
            toClient'[i] = m \/ \E k \in DOMAIN q : toClient'[i] = q[k]
      BY <1>1, AppendElements
    <2>2. QED
      BY <1>1, <2>1, EmptyDomain
  <1>2. CASE toClient' = q /\ unsent' = <<m>>
    <2>1. \A i \in DOMAIN unsent' : unsent'[i] = m
      BY <1>2, SingletonElements
    <2>2. QED
      BY <1>2, <2>1
  <1>3. QED
    BY <1>1, <1>2 DEF Netchan_Transmit

LEMMA FinishedElements ==
  ASSUME Sound, unsent # <<>>, NEW i \in DOMAIN (toClient \o unsent)
  PROVE  (toClient \o unsent)[i] \in ServerMessages
  <1>1. toClient \o unsent = Append(toClient, unsent[1]) /\ 1 \in DOMAIN unsent
    BY FinishedSound
  <1>2. \/ (toClient \o unsent)[i] = unsent[1]
        \/ \E k \in DOMAIN toClient : (toClient \o unsent)[i] = toClient[k]
    BY <1>1, SequencesSound, AppendElements
  <1>3. QED
    BY <1>1, <1>2 DEF ServerMessages

\* The acknowledgements on their way after a step are among those before it,
\* or of the last command executed.
AcksFrom(last) ==
  \A m \in ServerMessages' :
    m.ack = last \/ \E o \in ServerMessages : m.ack = o.ack

LEMMA SentAcks ==
  ASSUME Sound, NEW s, SendNow(s) \/ Stack(s)
  PROVE  AcksFrom(s.lastClientCommand)
  <1> DEFINE w == SV_WriteMessage(s)
             m == SV_Netchan_Encode(w)
  <1>1. w.ack = s.lastClientCommand /\ m.ack = s.lastClientCommand
    BY DEF SV_WriteMessage, SV_Netchan_Encode
  <1>2. CASE SendNow(s)
    <2>1. Netchan_Transmit(m, toClient) /\ stacked' = stacked
      BY <1>2 DEF SendNow
    <2> HIDE DEF m, w
    <2>2. /\ \A i \in DOMAIN toClient' :
               toClient'[i] = m \/ \E k \in DOMAIN toClient : toClient'[i] = toClient[k]
          /\ \A i \in DOMAIN unsent' : unsent'[i] = m
      BY <2>1, SequencesSound, TransmitElements
    <2>3. QED
      BY <1>1, <2>1, <2>2 DEF AcksFrom, ServerMessages
  <1>3. CASE Stack(s)
    <2>1. /\ stacked' = Append(stacked, w) /\ unsent # <<>>
          /\ \/ UNCHANGED <<toClient, unsent>>
             \/ toClient' = toClient \o unsent /\ unsent' = <<>>
      BY <1>3 DEF Stack
    <2> HIDE DEF m, w
    <2>2. \A i \in DOMAIN stacked' :
            stacked'[i] = w \/ \E k \in DOMAIN stacked : stacked'[i] = stacked[k]
      BY <2>1, SequencesSound, AppendElements
    <2>3. /\ \A i \in DOMAIN toClient' : toClient'[i] \in ServerMessages
          /\ \A i \in DOMAIN unsent' : unsent'[i] \in ServerMessages
      <3>1. CASE UNCHANGED <<toClient, unsent>>
        BY <3>1 DEF ServerMessages
      <3>2. CASE toClient' = toClient \o unsent /\ unsent' = <<>>
        BY <2>1, <3>2, FinishedElements, EmptyDomain
      <3>3. QED
        BY <2>1, <3>1, <3>2
    <2>4. QED
      BY <1>1, <2>2, <2>3 DEF AcksFrom, ServerMessages
  <1>4. QED
    BY <1>2, <1>3

LEMMA FragmentAcks ==
  ASSUME Sound, SV_Netchan_TransmitNextFragment, NEW last
  PROVE  AcksFrom(last)
  <1> DEFINE q == toClient \o unsent
  <1>1. unsent # <<>> /\ IsSequence(q)
    BY FinishedSound DEF SV_Netchan_TransmitNextFragment
  <1>2. \A i \in DOMAIN q : q[i] \in ServerMessages
    BY <1>1, FinishedElements
  <1>3. CASE stacked = <<>>
    <2>1. toClient' = q /\ unsent' = <<>> /\ stacked' = stacked
      BY <1>3 DEF SV_Netchan_TransmitNextFragment
    <2> HIDE DEF q
    <2>2. QED
      BY <1>2, <2>1, EmptyDomain DEF AcksFrom, ServerMessages
  <1>4. CASE stacked # <<>>
    <2> DEFINE m == SV_Netchan_Encode(Head(stacked))
    <2>1. Netchan_Transmit(m, q) /\ stacked' = Tail(stacked)
      BY <1>4 DEF SV_Netchan_TransmitNextFragment
    <2>2. 1 \in DOMAIN stacked /\ stacked' = SubSeq(stacked, 1 + 1, Len(stacked))
      BY <1>4, <2>1, SequencesSound, TailIsSuffix
    <2>3. m.ack = stacked[1].ack
      <3>1. Head(stacked) = stacked[1]
        BY <1>4, SequencesSound, SequenceTail
      <3>2. QED
        BY <3>1 DEF SV_Netchan_Encode
    <2>4. \A i \in DOMAIN stacked' : \E k \in DOMAIN stacked : stacked'[i] = stacked[k]
      BY <2>2, SequencesSound, SuffixElements
    <2> HIDE DEF m, q
    <2>5. /\ \A i \in DOMAIN toClient' :
               toClient'[i] = m \/ \E k \in DOMAIN q : toClient'[i] = q[k]
          /\ \A i \in DOMAIN unsent' : unsent'[i] = m
      BY <1>1, <2>1, TransmitElements
    <2>6. stacked[1] \in ServerMessages
      BY <2>2 DEF ServerMessages
    <2>7. \A i \in DOMAIN stacked' : stacked'[i] \in ServerMessages
      BY <2>4 DEF ServerMessages
    <2>8. \A i \in DOMAIN toClient' : toClient'[i] = m \/ toClient'[i] \in ServerMessages
      BY <1>2, <2>5
    <2>9. \A x \in ServerMessages' : x = m \/ x \in ServerMessages
      BY <2>5, <2>7, <2>8 DEF ServerMessages
    <2>10. QED
      BY <2>3, <2>6, <2>9 DEF AcksFrom
  <1>5. QED
    BY <1>3, <1>4

LEMMA FewerAcks ==
  ASSUME Sound, NEW i \in DOMAIN toClient, NEW last,
         toClient' = SubSeq(toClient, i + 1, Len(toClient)),
         UNCHANGED <<unsent, stacked>>
  PROVE  AcksFrom(last)
  <1>1. \A k \in DOMAIN toClient' : \E j \in DOMAIN toClient : toClient'[k] = toClient[j]
    BY SequencesSound, SuffixElements
  <1>2. QED
    BY <1>1 DEF AcksFrom, ServerMessages

LEMMA SameAcks ==
  ASSUME UNCHANGED <<toClient, unsent, stacked>>, NEW last
  PROVE  AcksFrom(last)
  BY DEF AcksFrom, ServerMessages

\* So they stay known while the server's last command only grows.
LEMMA AcksStayKnown ==
  ASSUME Sound, AcksKnown, AcksFrom(sv.lastClientCommand),
         NEW last \in Nat, sv.lastClientCommand <= last
  PROVE  \A m \in ServerMessages' : m.ack <= last
  <1>1. sv.lastClientCommand \in Nat
    BY SoundParts, SvFields
  <1>2. \A o \in ServerMessages : o.ack \in Nat /\ o.ack <= sv.lastClientCommand
    BY SequencesSound DEF AcksKnown, ServerMessages, ServerMessageSound
  <1>3. QED
    BY <1>1, <1>2 DEF AcksFrom
-----------------------------------------------------------------------------
(* The client's half, with messages stacked or not.                        *)

LEMMA StreamFacts ==
  ASSUME Sound, StreamInv
  PROVE  /\ cl.reliableAcknowledge \in Nat /\ cl.reliableSequence \in Nat
         /\ sv.lastClientCommand \in Nat
         /\ cl.reliableAcknowledge <= sv.lastClientCommand
         /\ sv.lastClientCommand <= cl.reliableSequence
         /\ cl.reliableSequence <= cl.reliableAcknowledge + MAX_RELIABLE_COMMANDS
         /\ Keeps(cl.reliableCommands, cl.reliableSequence)
         /\ AcksKnown
  <1>1. /\ cl.reliableAcknowledge \in Nat /\ cl.reliableSequence \in Nat
        /\ sv.lastClientCommand \in Nat
    BY SoundParts, SvFields, ClFields
  <1>2. QED
    BY <1>1 DEF StreamInv

\* What remains of toServer after the i-th message was taken.
LEMMA PacketsLeft ==
  ASSUME Sound, StreamInv, NEW i \in DOMAIN toServer,
         toServer' = SubSeq(toServer, i + 1, Len(toServer)),
         NEW last \in Nat, sv.lastClientCommand <= last
  PROVE  \A k \in DOMAIN toServer' :
           /\ toServer'[k].move <= cl.reliableSequence
           /\ \E lo \in 0 .. last :
                Exactly(toServer'[k].commands, lo, toServer'[k].move)
  <1>1. /\ IsSequence(toServer') /\ Len(toServer') = Len(toServer) - i
        /\ \A k \in 1 .. Len(toServer') : toServer'[k] = toServer[k + i]
        /\ Len(toServer) \in Nat /\ DOMAIN toServer = 1 .. Len(toServer)
        /\ DOMAIN toServer' = 1 .. Len(toServer')
    BY SoundParts, SequenceSuffix, SequenceDomain
  <1>2. SUFFICES ASSUME NEW k \in DOMAIN toServer'
                 PROVE  /\ toServer'[k].move <= cl.reliableSequence
                        /\ \E lo \in 0 .. last :
                             Exactly(toServer'[k].commands, lo, toServer'[k].move)
    OBVIOUS
  <1>3. k + i \in DOMAIN toServer /\ toServer'[k] = toServer[k + i]
    BY <1>1
  <1>4. PICK lo \in 0 .. sv.lastClientCommand :
          Exactly(toServer[k + i].commands, lo, toServer[k + i].move)
    BY <1>3 DEF StreamInv
  <1>5. toServer[k + i].move <= cl.reliableSequence
    BY <1>3 DEF StreamInv
  <1>6. lo \in 0 .. last
    BY <1>4, StreamFacts
  <1>7. QED
    BY <1>3, <1>4, <1>5, <1>6

LEMMA CL_AddReliableCommandStream ==
  ASSUME Sound, StreamInv, CL_AddReliableCommand,
         ClientWindow <= MAX_RELIABLE_COMMANDS
  PROVE  StreamInv'
  <1>1. /\ UNCHANGED <<sv, executed, lastMove, got, snapshot>>
        /\ UNCHANGED <<toClient, toServer, unsent, stacked>>
        /\ status = "active"
        /\ cl.reliableSequence < MaxClientCommands
        /\ cl.reliableSequence - cl.reliableAcknowledge < ClientWindow
    BY DEF CL_AddReliableCommand, Active, svVars, channelVars
  <1>0. AcksKnown'
    BY <1>1 DEF StreamInv, AcksKnown, ServerMessages
  <1>2. CASE UNCHANGED cl
    <2>1. status' # "lost reliable commands"
      BY <1>1, <1>2 DEF CL_AddReliableCommand
    <2>2. QED
      BY <1>0, <1>1, <1>2, <2>1 DEF StreamInv
  <1>3. CASE cl' = Added(cl) /\ status' = status
    <2> DEFINE n == cl.reliableSequence + 1
               r == [cl.reliableCommands EXCEPT ![Slot(n)] = n]
    <2>1. cl \in ClType /\ cl.reliableCommands \in Ring
      BY SoundParts, ClFields
    <2>2. cl' = [cl EXCEPT !.reliableSequence = n, !.reliableCommands = r]
      BY <1>1, <1>3, <2>1, AddedCl
    <2>3. Keeps(r, n)
      BY <2>1, StreamFacts, KeepsAdded
    <2>4. n \in Nat /\ cl.reliableSequence <= n
          /\ n <= cl.reliableAcknowledge + MAX_RELIABLE_COMMANDS
          /\ sv.lastClientCommand <= n
      BY <1>1, StreamFacts
    <2> HIDE DEF n, r
    <2>5. /\ cl'.reliableSequence = n /\ cl'.reliableCommands = r
          /\ cl'.reliableAcknowledge = cl.reliableAcknowledge
      BY <2>1, <2>2 DEF ClType
    <2>6. ASSUME NEW i \in DOMAIN toServer
          PROVE  toServer[i].move <= n
      <3>1. toServer[i].move \in Nat /\ toServer[i].move <= cl.reliableSequence
        BY SoundParts DEF ClientMessagesSound, StreamInv
      <3>2. QED
        BY <2>4, <3>1, StreamFacts
    <2>7. QED
      BY <1>0, <1>1, <1>3, <2>3, <2>4, <2>5, <2>6 DEF StreamInv
  <1>4. QED
    BY <1>2, <1>3 DEF CL_AddReliableCommand

LEMMA SV_AddServerCommandStream ==
  ASSUME Sound, StreamInv, SV_AddServerCommand
  PROVE  StreamInv'
  <1>1. /\ UNCHANGED <<cl, executed, lastMove, toClient, toServer, unsent, stacked>>
        /\ status' \in {status, "server overflow"}
        /\ sv.reliableSequence < MaxServerCommands
    BY DEF SV_AddServerCommand, clVars, channelVars
  <1>2. sv'.lastClientCommand = sv.lastClientCommand
    <2> DEFINE n == sv.reliableSequence + 1
               r == [sv.reliableCommands EXCEPT ![Slot(n)] = n]
    <2>1. Added(sv) = [sv EXCEPT !.reliableSequence = n, !.reliableCommands = r]
      BY <1>1, SoundParts, AddedSv
    <2>2. sv' = [sv EXCEPT !.reliableSequence = n] \/ sv' = Added(sv)
      BY DEF SV_AddServerCommand
    <2> HIDE DEF n, r
    <2>3. QED
      BY <2>1, <2>2, SoundParts DEF SvType
  <1>3. AcksKnown'
    BY <1>1, <1>2 DEF StreamInv, AcksKnown, ServerMessages
  <1>4. QED
    BY <1>1, <1>2, <1>3 DEF StreamInv

LEMMA ExecutedStream ==
  ASSUME Sound, StreamInv, NEW m, m.ack \in Nat, m.move \in Nat,
         NEW lo \in 0 .. sv.lastClientCommand, Exactly(m.commands, lo, m.move),
         m.move <= cl.reliableSequence, ExecuteCommands(m)
  PROVE  /\ sv'.lastClientCommand \in Nat
         /\ sv.lastClientCommand <= sv'.lastClientCommand
         /\ sv'.lastClientCommand <= cl.reliableSequence
         /\ \A k \in DOMAIN executed' : executed'[k] = k
         /\ lastMove' <= Len(executed') /\ status' = status
  <1> DEFINE last == sv.lastClientCommand
             fresh == {n \in DOMAIN m.commands : n > last}
             acked == [sv EXCEPT !.reliableAcknowledge = m.ack]
             more == [k \in 1 .. Cardinality(fresh) |-> m.commands[last + k]]
  <1>1. /\ sv \in SvType /\ last \in Nat /\ lo \in Nat /\ lo <= last
        /\ last <= cl.reliableSequence
    BY SoundParts, StreamFacts
  <1>2. /\ executed \in Seq(Nat) /\ Len(executed) = last
        /\ DOMAIN executed = 1 .. last
        /\ \A k \in DOMAIN executed : executed[k] = k
    <2>1. executed \in Seq(Nat) /\ Len(executed) = last
      BY DEF Sound, TypeOK, ServerInv
    <2>2. QED
      BY <2>1, LenProperties DEF StreamInv
  <1>3. /\ lo <= m.move /\ DOMAIN m.commands = lo + 1 .. m.move
        /\ \A n \in lo + 1 .. m.move : m.commands[n] = n
    BY DEF Exactly
  <1>4. m.commands \in [lo + 1 .. m.move -> Nat] /\ lo \in 0 .. m.move
    BY <1>1, <1>3 DEF Exactly
  <1>5. executed' \in Seq(Nat) /\ Len(executed') = sv'.lastClientCommand
    BY <1>4, ExecutedSound
  <1>6. CASE fresh = {} /\ sv' = acked /\ lastMove' = m.move
             /\ executed' = executed /\ status' = status
    <2>1. sv'.lastClientCommand = last
      BY <1>1, <1>6 DEF SvType
    <2>2. m.move <= last
      <3>1. m.move \in fresh \/ m.move <= last
        BY <1>1, <1>3
      <3>2. QED
        BY <1>6, <3>1
    <2>3. QED
      BY <1>1, <1>2, <1>6, <2>1, <2>2
  <1>7. ASSUME fresh # {}
        PROVE  /\ Max(fresh) = m.move /\ m.move > last
               /\ ~(Min(fresh) > last + 1)
               /\ Cardinality(fresh) = m.move - last
    <2> DEFINE hi == m.move
    <2>1. /\ last \in Nat /\ hi \in Nat /\ lo \in Nat
          /\ \A n : n \in fresh <=> n \in lo + 1 .. hi /\ n > last
      BY <1>1, <1>3
    <2> HIDE DEF hi, fresh, last
    <2>2. /\ Max(fresh) = hi /\ hi > last
          /\ Min(fresh) > last + 1 <=> lo > last
          /\ lo <= last => Cardinality(fresh) = hi - last
      BY <1>7, <2>1, FreshCommands
    <2>3. ~(lo > last)
      BY <1>1
    <2>4. QED
      BY <1>1, <2>2, <2>3 DEF hi
  <1>8. CASE /\ fresh # {}
             /\ sv' = [acked EXCEPT !.lastClientCommand = Max(fresh),
                                    !.lastClientCommandString =
                                       m.commands[Max(fresh)]]
             /\ executed' = executed \o more
             /\ lastMove' = m.move /\ status' = status
    <2>1. /\ Max(fresh) = m.move /\ m.move > last
          /\ Cardinality(fresh) = m.move - last
      BY <1>7, <1>8
    <2>2. sv'.lastClientCommand = m.move
      <3>1. sv' = [acked EXCEPT !.lastClientCommand = m.move,
                                !.lastClientCommandString = m.commands[m.move]]
        BY <1>8, <2>1, Zenon
      <3>2. acked \in SvType
        BY <1>1 DEF SvType
      <3> HIDE DEF acked
      <3>3. QED
        BY <3>1, <3>2 DEF SvType
    <2> DEFINE d == m.move - last
    <2>3. d \in Nat /\ \A k \in 1 .. d :
            last + k \in lo + 1 .. m.move /\ last + k \in Nat
      BY <1>1, <2>1
    <2>4. more = [k \in 1 .. d |-> m.commands[last + k]]
      BY <2>1
    <2>5. \A k \in 1 .. d : more[k] = last + k
      BY <1>3, <2>3, <2>4
    <2>6. more \in [1 .. d -> Nat]
      BY <1>4, <2>3, <2>4
    <2>7. executed' = executed \o more
      BY <1>8
    <2> HIDE DEF more, last
    <2>8. /\ more \in Seq(Nat) /\ Len(more) = d
          /\ \A k \in 1 .. last + d :
               executed'[k] = IF k <= last THEN executed[k] ELSE more[k - last]
      <3> HIDE DEF d
      <3>1. more \in Seq(Nat) /\ Len(more) = d
        BY <2>3, <2>6, FunctionIsSequence
      <3>2. executed \in Seq(Nat)
        BY <1>2
      <3>3. \A k \in 1 .. Len(executed) + Len(more) :
              (executed \o more)[k] =
                IF k <= Len(executed) THEN executed[k] ELSE more[k - Len(executed)]
        BY <3>1, <3>2, ConcatProperties
      <3>4. QED
        BY <1>2, <2>7, <3>1, <3>3
    <2>9. DOMAIN executed' = 1 .. m.move
      BY <1>5, <2>2, LenProperties
    <2>10. ASSUME NEW k \in 1 .. m.move
           PROVE  executed'[k] = k
      <3>1. k \in 1 .. last + d
        BY <1>1, <2>1
      <3>2. CASE k <= last
        <4>1. k \in 1 .. last
          BY <1>1, <3>2
        <4>2. executed[k] = k
          BY <1>2, <4>1
        <4>3. QED
          BY <2>8, <3>1, <3>2, <4>2
      <3>3. CASE ~(k <= last)
        <4>1. k - last \in 1 .. d /\ last + (k - last) = k
          BY <1>1, <2>1, <3>3
        <4>2. executed'[k] = more[k - last]
          BY <2>8, <3>1, <3>3
        <4>3. QED
          BY <2>5, <4>1, <4>2
      <3>4. QED
        BY <3>2, <3>3
    <2>11. lastMove' <= Len(executed') /\ status' = status
      BY <1>5, <1>8, <2>2
    <2>12. sv.lastClientCommand <= m.move
      BY <1>1, <2>1 DEF last
    <2>13. QED
      BY <2>2, <2>9, <2>10, <2>11, <2>12
  <1>9. QED
    BY <1>6, <1>7, <1>8 DEF ExecuteCommands

\* What a message of the client does to the commands executed.
LEMMA MessageExecuted ==
  ASSUME Sound, StreamInv, NEW i \in DOMAIN toServer, SV_ExecuteClientMessage(i)
  PROVE  /\ sv'.lastClientCommand \in Nat
         /\ sv.lastClientCommand <= sv'.lastClientCommand
         /\ sv'.lastClientCommand <= cl.reliableSequence
         /\ \A k \in DOMAIN executed' : executed'[k] = k
         /\ lastMove' <= Len(executed') /\ status' \in {status, "illegible"}
  <1> DEFINE m == toServer[i]
  <1>1. Active
    BY DEF SV_ExecuteClientMessage
  <1>2. /\ m.ack \in Nat /\ Clamped(sv, m.ack) = m.ack
    BY <1>1, InRange
  <1>3. \/ status' = "illegible" /\ UNCHANGED svVars
        \/ ExecuteCommands(m)
    BY <1>2 DEF SV_ExecuteClientMessage
  <1>4. PICK lo \in 0 .. sv.lastClientCommand : Exactly(m.commands, lo, m.move)
    BY DEF StreamInv
  <1>5. m.move \in Nat /\ m.move <= cl.reliableSequence
    BY SoundParts DEF ClientMessagesSound, StreamInv
  <1>6. CASE status' = "illegible" /\ UNCHANGED svVars
    <2>1. sv' = sv /\ executed' = executed /\ lastMove' = lastMove
      BY <1>6 DEF svVars
    <2>2. /\ \A k \in DOMAIN executed : executed[k] = k
          /\ lastMove <= Len(executed)
      BY DEF StreamInv
    <2>3. /\ sv.lastClientCommand \in Nat
          /\ sv.lastClientCommand <= sv.lastClientCommand
          /\ sv.lastClientCommand <= cl.reliableSequence
      BY StreamFacts
    <2>4. QED
      BY <1>6, <2>1, <2>2, <2>3
  <1>7. CASE ExecuteCommands(m)
    <2> HIDE DEF m
    <2>1. QED
      BY <1>2, <1>4, <1>5, <1>7, ExecutedStream
  <1>8. QED
    BY <1>3, <1>6, <1>7

LEMMA SV_ExecuteClientMessageStream ==
  ASSUME Sound, StreamInv, NEW i \in DOMAIN toServer, SV_ExecuteClientMessage(i)
  PROVE  StreamInv'
  <1>1. /\ UNCHANGED <<cl, toClient, unsent, stacked>>
        /\ toServer' = SubSeq(toServer, i + 1, Len(toServer))
    BY DEF SV_ExecuteClientMessage, clVars
  <1>2. /\ sv'.lastClientCommand \in Nat
        /\ sv.lastClientCommand <= sv'.lastClientCommand
        /\ sv'.lastClientCommand <= cl.reliableSequence
        /\ \A k \in DOMAIN executed' : executed'[k] = k
        /\ lastMove' <= Len(executed') /\ status' \in {status, "illegible"}
    BY MessageExecuted
  <1>3. AcksKnown'
    BY <1>1, <1>2, StreamFacts, SameAcks, AcksStayKnown DEF AcksKnown
  <1>4. \A k \in DOMAIN toServer' :
          /\ toServer'[k].move <= cl.reliableSequence
          /\ \E from \in 0 .. sv'.lastClientCommand :
               Exactly(toServer'[k].commands, from, toServer'[k].move)
    BY <1>1, <1>2, PacketsLeft
  <1>5. cl.reliableAcknowledge <= sv'.lastClientCommand
    BY <1>2, StreamFacts
  <1>6. status' # "lost reliable commands"
    BY <1>2 DEF StreamInv
  <1>7. QED
    BY <1>1, <1>2, <1>3, <1>4, <1>5, <1>6, StreamFacts DEF StreamInv

\* A step that leaves the numbers of both sides alone, but for what the server
\* takes as acknowledged.
LEMMA ChannelStepStream ==
  ASSUME Sound, StreamInv, UNCHANGED <<cl, executed, lastMove, status>>,
         sv'.lastClientCommand = sv.lastClientCommand,
         AcksFrom(sv.lastClientCommand),
         \A k \in DOMAIN toServer' :
           /\ toServer'[k].move <= cl.reliableSequence
           /\ \E lo \in 0 .. sv.lastClientCommand :
                Exactly(toServer'[k].commands, lo, toServer'[k].move)
  PROVE  StreamInv'
  <1>1. sv.lastClientCommand <= sv.lastClientCommand
    BY StreamFacts
  <1>2. AcksKnown'
    BY <1>1, StreamFacts, AcksStayKnown DEF AcksKnown
  <1>3. QED
    BY <1>2 DEF StreamInv

LEMMA PacketsStay ==
  ASSUME StreamInv, toServer' = toServer
  PROVE  \A k \in DOMAIN toServer' :
           /\ toServer'[k].move <= cl.reliableSequence
           /\ \E lo \in 0 .. sv.lastClientCommand :
                Exactly(toServer'[k].commands, lo, toServer'[k].move)
  BY DEF StreamInv

LEMMA SV_IgnoreOutdatedMessageStream ==
  ASSUME Sound, StreamInv,
         NEW i \in DOMAIN toServer, SV_IgnoreOutdatedMessage(i)
  PROVE  StreamInv'
  <1> DEFINE acked == [sv EXCEPT !.reliableAcknowledge =
                         Clamped(sv, toServer[i].ack)]
  <1>1. /\ UNCHANGED <<cl, executed, lastMove, status>> /\ sv' = acked
        /\ toServer' = SubSeq(toServer, i + 1, Len(toServer))
        /\ \/ UNCHANGED <<toClient, unsent, stacked>>
           \/ SendNow(acked) \/ Stack(acked)
    BY DEF SV_IgnoreOutdatedMessage, clVars
  <1>2. acked.lastClientCommand = sv.lastClientCommand
    BY SoundParts DEF SvType
  <1> HIDE DEF acked
  <1>3. AcksFrom(sv.lastClientCommand)
    <2>1. CASE UNCHANGED <<toClient, unsent, stacked>>
      BY <2>1, SameAcks
    <2>2. CASE SendNow(acked) \/ Stack(acked)
      <3>1. AcksFrom(acked.lastClientCommand)
        BY <2>2, SentAcks
      <3>2. QED
        BY <1>2, <3>1
    <2>3. QED
      BY <1>1, <2>1, <2>2
  <1>4. \A k \in DOMAIN toServer' :
          /\ toServer'[k].move <= cl.reliableSequence
          /\ \E lo \in 0 .. sv.lastClientCommand :
               Exactly(toServer'[k].commands, lo, toServer'[k].move)
    <2>1. sv.lastClientCommand \in Nat /\ sv.lastClientCommand <= sv.lastClientCommand
      BY StreamFacts
    <2>2. QED
      BY <1>1, <2>1, PacketsLeft
  <1>5. QED
    BY <1>1, <1>2, <1>3, <1>4, ChannelStepStream

LEMMA CL_WritePacketStream ==
  ASSUME Sound, StreamInv, CL_WritePacket
  PROVE  StreamInv'
  <1> DEFINE m == [ack |-> cl.serverCommandSequence,
                   key |-> cl.serverCommands[Slot(cl.serverCommandSequence)],
                   commands |-> Unacknowledged(cl),
                   move |-> cl.reliableSequence]
             lo == cl.reliableAcknowledge
  <1>1. /\ UNCHANGED <<sv, executed, lastMove, cl, toClient, unsent, stacked, status>>
        /\ toServer' = Append(toServer, m)
    BY DEF CL_WritePacket, svVars, clVars
  <1>2. m.commands = Unacknowledged(cl) /\ m.move = cl.reliableSequence
    OBVIOUS
  <1> HIDE DEF m
  <1>3. lo \in 0 .. sv.lastClientCommand /\ lo \in 0 .. cl.reliableSequence
    BY StreamFacts
  <1>4. Exactly(Unacknowledged(cl), lo, cl.reliableSequence)
    BY <1>3, StreamFacts, UnacknowledgedExact
  <1> HIDE DEF lo
  <1>5. /\ m.move <= cl.reliableSequence
        /\ \E from \in 0 .. sv.lastClientCommand : Exactly(m.commands, from, m.move)
    BY <1>2, <1>3, <1>4, StreamFacts
  <1>6. /\ DOMAIN toServer = 1 .. Len(toServer) /\ Len(toServer) \in Nat
        /\ DOMAIN toServer' = 1 .. Len(toServer) + 1
        /\ \A i \in 1 .. Len(toServer) : toServer'[i] = toServer[i]
        /\ toServer'[Len(toServer) + 1] = m
    BY <1>1, SoundParts, SequenceAppend, SequenceDomain
  <1>7. ASSUME NEW k \in DOMAIN toServer'
        PROVE  /\ toServer'[k].move <= cl.reliableSequence
               /\ \E from \in 0 .. sv.lastClientCommand :
                    Exactly(toServer'[k].commands, from, toServer'[k].move)
    <2>1. CASE k \in 1 .. Len(toServer)
      <3>1. toServer'[k] = toServer[k] /\ k \in DOMAIN toServer
        BY <1>6, <2>1
      <3>2. QED
        BY <3>1 DEF StreamInv
    <2>2. CASE k = Len(toServer) + 1
      BY <1>5, <1>6, <2>2
    <2>3. QED
      BY <1>6, <2>1, <2>2
  <1>8. AcksFrom(sv.lastClientCommand)
    BY <1>1, SameAcks
  <1>9. QED
    BY <1>1, <1>7, <1>8, ChannelStepStream

LEMMA SV_SendMessageStream ==
  ASSUME Sound, StreamInv, SV_SendMessage \/ SV_StackMessage
  PROVE  StreamInv'
  <1>1. /\ UNCHANGED <<sv, executed, lastMove, cl, toServer, status>>
        /\ SendNow(sv) \/ Stack(sv)
    BY DEF SV_SendMessage, SV_StackMessage, svVars, clVars
  <1>2. AcksFrom(sv.lastClientCommand)
    BY <1>1, SentAcks
  <1>3. QED
    BY <1>1, <1>2, PacketsStay, ChannelStepStream

LEMMA SV_Netchan_TransmitNextFragmentStream ==
  ASSUME Sound, StreamInv, SV_Netchan_TransmitNextFragment
  PROVE  StreamInv'
  <1>1. UNCHANGED <<sv, executed, lastMove, cl, toServer, status>>
    BY DEF SV_Netchan_TransmitNextFragment, svVars, clVars
  <1>2. AcksFrom(sv.lastClientCommand)
    BY FragmentAcks
  <1>3. QED
    BY <1>1, <1>2, PacketsStay, ChannelStepStream

\* The client takes an acknowledgement, perhaps one older than the last.
LEMMA CL_ParseServerMessageStream ==
  ASSUME Sound, StreamInv, AcksFresh, NEW i \in DOMAIN toClient,
         CL_ParseServerMessage(i)
  PROVE  StreamInv'
  <1> DEFINE m == toClient[i]
  <1>1. /\ UNCHANGED <<sv, executed, lastMove, toServer, unsent, stacked>>
        /\ toClient' = SubSeq(toClient, i + 1, Len(toClient))
        /\ \/ status' = "illegible" /\ UNCHANGED cl
           \/ cl' = Stored(m) /\ status' = status
    BY DEF CL_ParseServerMessage, svVars
  <1>2. AcksKnown'
    <2>1. AcksFrom(sv.lastClientCommand)
      BY <1>1, FewerAcks
    <2>2. sv.lastClientCommand <= sv.lastClientCommand
      BY StreamFacts
    <2>3. \A o \in ServerMessages' : o.ack <= sv.lastClientCommand
      BY <2>1, <2>2, StreamFacts, AcksStayKnown
    <2>4. QED
      BY <1>1, <2>3 DEF AcksKnown
  <1>3. /\ m.ack \in Nat /\ m.ack <= sv.lastClientCommand
        /\ cl.reliableSequence <= m.ack + MAX_RELIABLE_COMMANDS
    <2>1. m \in ServerMessages
      BY DEF ServerMessages
    <2>2. m.ack \in Nat
      BY SequencesSound DEF ServerMessageSound
    <2>3. QED
      BY <2>1, <2>2, StreamFacts DEF AcksKnown, AcksFresh
  <1>4. CASE status' = "illegible" /\ UNCHANGED cl
    BY <1>1, <1>2, <1>4 DEF StreamInv
  <1>5. CASE cl' = Stored(m) /\ status' = status
    <2>1. Clamped(cl, m.ack) = m.ack
      BY <1>3, StreamFacts DEF Clamped
    <2>2. /\ Stored(m).reliableAcknowledge = Clamped(cl, m.ack)
          /\ \A f \in {"reliableSequence", "reliableCommands",
                       "lastExecutedServerCommand"} : Stored(m)[f] = cl[f]
      <3>1. /\ cl \in ClType /\ ServerMessageSound(m) /\ sv.reliableSequence \in Nat
            /\ Keeps(cl.serverCommands, cl.serverCommandSequence)
        BY SequencesSound, SoundParts DEF Sound, ServerInv
      <3> HIDE DEF m
      <3>2. QED
        BY <3>1, StoredSound
    <2>3. /\ cl'.reliableAcknowledge = m.ack
          /\ cl'.reliableSequence = cl.reliableSequence
          /\ cl'.reliableCommands = cl.reliableCommands
      BY <1>5, <2>1, <2>2
    <2>4. QED
      BY <1>1, <1>2, <1>3, <1>5, <2>3 DEF StreamInv
  <1>6. QED
    BY <1>1, <1>4, <1>5

LEMMA CL_GetServerCommandStream ==
  ASSUME Sound, StreamInv, CL_GetServerCommand
  PROVE  StreamInv'
  <1> DEFINE n == cl.lastExecutedServerCommand + 1
  <1>1. /\ UNCHANGED <<sv, executed, lastMove, toClient, toServer, unsent, stacked>>
        /\ status' \in {status, "cycled out"}
        /\ cl' = cl \/ cl' = [cl EXCEPT !.lastExecutedServerCommand = n]
    BY DEF CL_GetServerCommand, svVars, channelVars
  <1> HIDE DEF n
  <1>2. /\ cl'.reliableSequence = cl.reliableSequence
        /\ cl'.reliableAcknowledge = cl.reliableAcknowledge
        /\ cl'.reliableCommands = cl.reliableCommands
    BY <1>1, SoundParts DEF ClType
  <1>3. AcksKnown'
    BY <1>1 DEF StreamInv, AcksKnown, ServerMessages
  <1>4. QED
    BY <1>1, <1>2, <1>3 DEF StreamInv

LEMMA LoseStream ==
  ASSUME Sound, StreamInv, LoseToClient \/ LoseToServer
  PROVE  StreamInv'
  <1>1. CASE LoseToClient
    <2>1. /\ UNCHANGED <<sv, executed, lastMove, cl, toServer, unsent, stacked>>
          /\ status' = status /\ toClient # <<>> /\ toClient' = Tail(toClient)
      BY <1>1 DEF LoseToClient, svVars, clVars
    <2>2. 1 \in DOMAIN toClient /\ toClient' = SubSeq(toClient, 1 + 1, Len(toClient))
      BY <2>1, SequencesSound, TailIsSuffix
    <2>3. AcksFrom(sv.lastClientCommand)
      BY <2>1, <2>2, FewerAcks
    <2>4. QED
      BY <2>1, <2>3, PacketsStay, ChannelStepStream
  <1>2. CASE LoseToServer
    <2>1. /\ UNCHANGED <<sv, executed, lastMove, cl, toClient, unsent, stacked>>
          /\ status' = status /\ toServer # <<>> /\ toServer' = Tail(toServer)
      BY <1>2 DEF LoseToServer, svVars, clVars
    <2>2. 1 \in DOMAIN toServer /\ toServer' = SubSeq(toServer, 1 + 1, Len(toServer))
      BY <2>1, SoundParts, TailIsSuffix
    <2>3. sv.lastClientCommand \in Nat /\ sv.lastClientCommand <= sv.lastClientCommand
      BY StreamFacts
    <2>4. \A k \in DOMAIN toServer' :
            /\ toServer'[k].move <= cl.reliableSequence
            /\ \E lo \in 0 .. sv.lastClientCommand :
                 Exactly(toServer'[k].commands, lo, toServer'[k].move)
      BY <2>2, <2>3, PacketsLeft
    <2>5. AcksFrom(sv.lastClientCommand)
      BY <2>1, SameAcks
    <2>6. QED
      BY <2>1, <2>4, <2>5, ChannelStepStream
  <1>3. QED
    BY <1>1, <1>2

\* Any step, as long as no acknowledgement is too old.
LEMMA StreamStep ==
  ASSUME ClientWindow <= MAX_RELIABLE_COMMANDS, Sound, StreamInv, AcksFresh,
         [Next]_vars
  PROVE  StreamInv'
  <1>1. CASE CL_AddReliableCommand
    BY <1>1, CL_AddReliableCommandStream
  <1>2. CASE SV_AddServerCommand
    BY <1>2, SV_AddServerCommandStream
  <1>3. CASE CL_WritePacket
    BY <1>3, CL_WritePacketStream
  <1>4. CASE \E i \in DOMAIN toServer : SV_ExecuteClientMessage(i)
    BY <1>4, SV_ExecuteClientMessageStream
  <1>5. CASE \E i \in DOMAIN toServer : SV_IgnoreOutdatedMessage(i)
    BY <1>5, SV_IgnoreOutdatedMessageStream
  <1>6. CASE SV_SendMessage \/ SV_StackMessage
    BY <1>6, SV_SendMessageStream
  <1>7. CASE SV_Netchan_TransmitNextFragment
    BY <1>7, SV_Netchan_TransmitNextFragmentStream
  <1>8. CASE \E i \in DOMAIN toClient : CL_ParseServerMessage(i)
    BY <1>8, CL_ParseServerMessageStream
  <1>9. CASE CL_GetServerCommand
    BY <1>9, CL_GetServerCommandStream
  <1>10. CASE LoseToClient \/ LoseToServer
    BY <1>10, LoseStream
  <1>11. CASE UNCHANGED vars
    BY <1>11 DEF vars, svVars, clVars, channelVars, StreamInv, AcksKnown,
       ServerMessages
  <1>12. QED
    BY <1>1, <1>2, <1>3, <1>4, <1>5, <1>6, <1>7, <1>8, <1>9, <1>10, <1>11 DEF Next

LEMMA InitStream == Init => StreamInv
  <1> SUFFICES ASSUME Init PROVE StreamInv
    OBVIOUS
  <1>1. DOMAIN <<>> = {} /\ Len(<<>>) = 0
    BY EmptyDomain, EmptySound
  <1>2. ServerMessages = {}
    BY <1>1 DEF Init, ServerMessages
  <1>3. QED
    BY <1>1, <1>2 DEF Init, StreamInv, AcksKnown, Keeps

LEMMA StreamInvariant ==
  ASSUME ClientWindow <= MAX_RELIABLE_COMMANDS
  PROVE  Spec /\ []AcksFresh => [](Sound /\ StreamInv)
  <1>1. Sound /\ StreamInv /\ AcksFresh /\ [Next]_vars => StreamInv'
    BY StreamStep
  <1>2. QED
    BY <1>1, InitStream, SoundInvariant, PTL DEF Spec
-----------------------------------------------------------------------------
(* The order of acknowledgements, as long as no message is stacked.         *)

LEMMA AcksAppend ==
  ASSUME NEW q, IsSequence(q), NEW m, NEW lo \in Nat, NEW hi \in Nat, lo <= hi,
         AcksInOrder(q, lo, hi), m.ack = hi
  PROVE  AcksInOrder(Append(q, m), lo, hi)
  <1> DEFINE r == Append(q, m)
  <1>1. /\ IsSequence(r) /\ Len(r) = Len(q) + 1
        /\ \A i \in 1 .. Len(q) : r[i] = q[i]
        /\ r[Len(q) + 1] = m
    BY SequenceAppend
  <1>2. Len(q) \in Nat /\ DOMAIN q = 1 .. Len(q) /\ DOMAIN r = 1 .. Len(q) + 1
    BY <1>1, SequenceDomain
  <1> HIDE DEF r
  <1>3. \A i \in 1 .. Len(q) : q[i].ack \in lo .. hi
    BY <1>2 DEF AcksInOrder
  <1>4. ASSUME NEW i \in DOMAIN r
        PROVE  r[i].ack \in lo .. hi
    BY <1>1, <1>2, <1>3
  <1>5. ASSUME NEW i \in DOMAIN r, NEW j \in DOMAIN r, i <= j
        PROVE  r[i].ack <= r[j].ack
    <2>1. CASE j = Len(q) + 1
      <3>1. r[j].ack = hi
        BY <1>1, <2>1
      <3>2. QED
        BY <1>4, <3>1
    <2>2. CASE j \in 1 .. Len(q)
      <3>1. i \in 1 .. Len(q)
        BY <1>2, <1>5, <2>2
      <3>2. q[i].ack <= q[j].ack
        BY <1>2, <1>5, <2>2, <3>1 DEF AcksInOrder
      <3>3. QED
        BY <1>1, <2>2, <3>1, <3>2
    <2>3. QED
      BY <1>2, <2>1, <2>2
  <1>6. QED
    BY <1>4, <1>5 DEF AcksInOrder, r

LEMMA AcksSuffix ==
  ASSUME NEW q, IsSequence(q), NEW i \in DOMAIN q, NEW lo \in Nat, NEW hi \in Nat,
         AcksInOrder(q, lo, hi)
  PROVE  /\ q[i].ack \in lo .. hi
         /\ AcksInOrder(SubSeq(q, i + 1, Len(q)), q[i].ack, hi)
  <1> DEFINE t == SubSeq(q, i + 1, Len(q))
  <1>1. /\ IsSequence(t) /\ Len(t) = Len(q) - i
        /\ \A k \in 1 .. Len(t) : t[k] = q[k + i]
    BY SequenceSuffix
  <1>2. DOMAIN t = 1 .. Len(t) /\ DOMAIN q = 1 .. Len(q) /\ Len(q) \in Nat
    BY <1>1, SequenceDomain
  <1> HIDE DEF t
  <1>3. \A k \in DOMAIN t : k + i \in DOMAIN q /\ t[k] = q[k + i] /\ i <= k + i
    BY <1>1, <1>2
  <1>4. ASSUME NEW k \in DOMAIN t
        PROVE  t[k].ack \in q[i].ack .. hi
    <2>1. q[k + i].ack \in lo .. hi /\ q[i].ack \in lo .. hi
          /\ q[i].ack <= q[k + i].ack
      BY <1>3 DEF AcksInOrder
    <2>2. t[k] = q[k + i]
      BY <1>3
    <2>3. QED
      BY <2>1, <2>2
  <1>5. ASSUME NEW k \in DOMAIN t, NEW j \in DOMAIN t, k <= j
        PROVE  t[k].ack <= t[j].ack
    <2>1. k + i <= j + i
      BY <1>2, <1>5
    <2>2. q[k + i].ack <= q[j + i].ack
      BY <1>3, <2>1 DEF AcksInOrder
    <2>3. QED
      BY <1>3, <2>2
  <1>6. QED
    BY <1>4, <1>5 DEF AcksInOrder, t

LEMMA AcksWiden ==
  ASSUME NEW q, NEW lo \in Nat, NEW hi \in Nat, AcksInOrder(q, lo, hi),
         NEW lower \in Nat, NEW higher \in Nat, lower <= lo, hi <= higher
  PROVE  AcksInOrder(q, lower, higher)
  BY DEF AcksInOrder

\* What is left of the messages on the way when some of those in flight are
\* taken or lost.
LEMMA SuffixConcat ==
  ASSUME NEW q, IsSequence(q), NEW u, IsSequence(u), NEW i \in DOMAIN q
  PROVE  /\ i \in DOMAIN (q \o u) /\ (q \o u)[i] = q[i] /\ IsSequence(q \o u)
         /\ SubSeq(q, i + 1, Len(q)) \o u = SubSeq(q \o u, i + 1, Len(q \o u))
  <1> DEFINE S == {q[k] : k \in DOMAIN q} \cup {u[k] : k \in DOMAIN u}
             a == SubSeq(q, i + 1, Len(q))
             b == SubSeq(q \o u, i + 1, Len(q \o u))
             w == q \o u
             v == a \o u
  <1>1. q \in Seq(S) /\ u \in Seq(S)
    BY SeqMonotonic DEF IsSequence
  <1>2. /\ IsSequence(a) /\ Len(a) = Len(q) - i
        /\ \A k \in 1 .. Len(a) : a[k] = q[k + i]
    BY SequenceSuffix
  <1>3. DOMAIN q = 1 .. Len(q) /\ Len(q) \in Nat /\ Len(u) \in Nat
    BY SequenceDomain
  <1>4. a \in Seq(S)
    <2>1. \A k \in i + 1 .. Len(q) : q[k] \in S
      BY <1>3
    <2> HIDE DEF S
    <2>2. QED
      BY <1>1, <1>3, <2>1, SubSeqProperties
  <1> HIDE DEF S, a
  <1>5. /\ w \in Seq(S) /\ Len(w) = Len(q) + Len(u)
        /\ \A k \in 1 .. Len(q) + Len(u) :
             w[k] = IF k <= Len(q) THEN q[k] ELSE u[k - Len(q)]
    BY <1>1, ConcatProperties
  <1>6. /\ v \in Seq(S) /\ Len(v) = Len(a) + Len(u)
        /\ \A k \in 1 .. Len(a) + Len(u) :
             v[k] = IF k <= Len(a) THEN a[k] ELSE u[k - Len(a)]
    BY <1>1, <1>4, ConcatProperties
  <1>7. IsSequence(w) /\ IsSequence(v)
    BY <1>5, <1>6, IsSequenceOver
  <1> HIDE DEF w, v
  <1>8. DOMAIN w = 1 .. Len(w) /\ i \in DOMAIN w /\ w[i] = q[i]
    BY <1>3, <1>5, <1>7, SequenceDomain
  <1>9. /\ IsSequence(b) /\ Len(b) = Len(w) - i
        /\ \A k \in 1 .. Len(b) : b[k] = w[k + i]
    BY <1>7, <1>8, SequenceSuffix DEF w
  <1> HIDE DEF b
  <1>10. Len(b) = Len(v)
    BY <1>2, <1>3, <1>5, <1>6, <1>9
  <1>11. ASSUME NEW k \in 1 .. Len(v)
         PROVE  v[k] = b[k]
    <2>1. k \in 1 .. (Len(q) - i) + Len(u) /\ k + i \in 1 .. Len(q) + Len(u)
          /\ b[k] = w[k + i]
      BY <1>2, <1>3, <1>5, <1>6, <1>9, <1>10
    <2>2. CASE k <= Len(q) - i
      <3>1. k <= Len(a) /\ v[k] = a[k] /\ a[k] = q[k + i]
        BY <1>2, <1>3, <1>6, <2>1, <2>2
      <3>2. w[k + i] = q[k + i]
        BY <1>3, <1>5, <2>1, <2>2
      <3>3. QED
        BY <2>1, <3>1, <3>2
    <2>3. CASE ~(k <= Len(q) - i)
      <3>1. v[k] = u[k - (Len(q) - i)]
        BY <1>2, <1>3, <1>6, <2>1, <2>3
      <3>2. w[k + i] = u[(k + i) - Len(q)]
        BY <1>3, <1>5, <2>1, <2>3
      <3>3. k - (Len(q) - i) = (k + i) - Len(q)
        BY <1>3, <2>1
      <3>4. QED
        BY <2>1, <3>1, <3>2, <3>3
    <2>4. QED
      BY <2>2, <2>3
  <1>12. v = b
    BY <1>7, <1>9, <1>10, <1>11, SameSequence
  <1>13. QED
    BY <1>7, <1>8, <1>12 DEF v, b, w, a

LEMMA OrderFacts ==
  ASSUME Sound, ClientInv
  PROVE  /\ cl.reliableAcknowledge \in Nat /\ cl.reliableSequence \in Nat
         /\ sv.lastClientCommand \in Nat
         /\ cl.reliableAcknowledge <= sv.lastClientCommand
         /\ sv.lastClientCommand <= sv.lastClientCommand
         /\ cl.reliableSequence <= cl.reliableAcknowledge + MAX_RELIABLE_COMMANDS
         /\ AcksInOrder(toClient \o unsent, cl.reliableAcknowledge,
                        sv.lastClientCommand)
  BY StreamFacts DEF ClientInv

LEMMA ConcatEmpty ==
  ASSUME NEW q, IsSequence(q)
  PROVE  q \o <<>> = q
  BY ConcatEmptySeq DEF IsSequence

LEMMA ConcatSingleton ==
  ASSUME NEW q, IsSequence(q), NEW m
  PROVE  q \o <<m>> = Append(q, m)
  <1> DEFINE S == {q[k] : k \in DOMAIN q} \cup {m}
  <1>1. q \in Seq(S) /\ m \in S
    BY SeqMonotonic DEF IsSequence
  <1> HIDE DEF S
  <1>2. QED
    BY <1>1, AppendIsConcat

LEMMA NotStacked ==
  ASSUME Sound, NEW m, stacked' = Append(stacked, m), stacked' = <<>>
  PROVE  FALSE
  <1>1. Len(Append(stacked, m)) = Len(stacked) + 1 /\ Len(stacked) \in Nat
    BY SequencesSound, SequenceAppend
  <1>2. Len(Append(stacked, m)) = 0
    BY EmptySound
  <1>3. QED
    BY <1>1, <1>2

\* No acknowledgement is older than the last one the client got, hence none is
\* too old.
LEMMA OrderIsFresh ==
  ASSUME Sound, ClientInv, stacked = <<>>
  PROVE  AcksFresh
  <1> DEFINE q == toClient \o unsent
  <1>1. AcksInOrder(q, cl.reliableAcknowledge, sv.lastClientCommand)
    BY OrderFacts
  <1>2. ASSUME NEW m \in ServerMessages
        PROVE  \E k \in DOMAIN q : q[k] = m
    <2>1. DOMAIN stacked = {}
      BY EmptyDomain
    <2>2. CASE unsent = <<>>
      <3>1. q = toClient /\ DOMAIN unsent = {}
        BY <2>2, SequencesSound, ConcatEmpty, EmptyDomain
      <3>2. QED
        BY <2>1, <3>1 DEF ServerMessages
    <2>3. CASE unsent # <<>>
      <3> DEFINE u == unsent[1]
                 n == Len(toClient) + 1
      <3>1. q = Append(toClient, u) /\ 1 \in DOMAIN unsent
        BY <2>3, FinishedSound
      <3>2. DOMAIN unsent = {1}
        <4>1. DOMAIN unsent = 1 .. Len(unsent) /\ Len(unsent) <= 1
              /\ Len(unsent) \in Nat
          BY SequencesSound, SequenceDomain
        <4>2. QED
          BY <3>1, <4>1
      <3>3. /\ IsSequence(Append(toClient, u)) /\ Len(Append(toClient, u)) = n
            /\ \A k \in 1 .. Len(toClient) : Append(toClient, u)[k] = toClient[k]
            /\ Append(toClient, u)[n] = u
        BY SequencesSound, SequenceAppend
      <3>4. /\ DOMAIN Append(toClient, u) = 1 .. n
            /\ DOMAIN toClient = 1 .. Len(toClient) /\ Len(toClient) \in Nat
        BY <3>3, SequencesSound, SequenceDomain
      <3> HIDE DEF q
      <3>5. /\ DOMAIN q = 1 .. Len(toClient) + 1 /\ q[Len(toClient) + 1] = u
            /\ \A k \in DOMAIN toClient : k \in DOMAIN q /\ q[k] = toClient[k]
        BY <3>1, <3>3, <3>4
      <3>6. m = u \/ \E k \in DOMAIN toClient : m = toClient[k]
        BY <2>1, <3>2 DEF ServerMessages
      <3>7. Len(toClient) + 1 \in DOMAIN q
        BY <3>4, <3>5
      <3>8. QED
        BY <3>5, <3>6, <3>7
    <2>4. QED
      BY <2>2, <2>3
  <1> HIDE DEF q
  <1>3. ASSUME NEW m \in ServerMessages
        PROVE  cl.reliableSequence <= m.ack + MAX_RELIABLE_COMMANDS
    <2>1. PICK k \in DOMAIN q : q[k] = m
      BY <1>2
    <2>2. m.ack \in cl.reliableAcknowledge .. sv.lastClientCommand
      BY <1>1, <2>1 DEF AcksInOrder
    <2>3. QED
      BY <2>2, OrderFacts
  <1>4. QED
    BY <1>3 DEF AcksFresh

\* A message that is sent is the newest on the way and acknowledges the last
\* command the server has executed.
LEMMA SentInOrder ==
  ASSUME Sound, ClientInv, NEW s, s.lastClientCommand = sv.lastClientCommand,
         SendNow(s) \/ Stack(s), stacked' = <<>>
  PROVE  AcksInOrder(toClient' \o unsent', cl.reliableAcknowledge,
                     sv.lastClientCommand)
  <1> DEFINE m == SV_Netchan_Encode(SV_WriteMessage(s))
  <1>1. ~Stack(s)
    BY NotStacked DEF Stack
  <1>2. unsent = <<>> /\ Netchan_Transmit(m, toClient)
    BY <1>1 DEF SendNow
  <1>3. m.ack = sv.lastClientCommand
    BY DEF SV_Netchan_Encode, SV_WriteMessage
  <1> HIDE DEF m
  <1>4. toClient' \o unsent' = Append(toClient, m)
    <2>1. IsSequence(toClient) /\ IsSequence(Append(toClient, m))
      BY SequencesSound, SequenceAppend
    <2>2. QED
      BY <1>2, <2>1, ConcatEmpty, ConcatSingleton DEF Netchan_Transmit
  <1>5. toClient \o unsent = toClient
    BY <1>2, ConcatEmpty, SequencesSound
  <1>6. AcksInOrder(toClient, cl.reliableAcknowledge, sv.lastClientCommand)
    BY <1>5, OrderFacts
  <1>7. AcksInOrder(Append(toClient, m), cl.reliableAcknowledge,
                    sv.lastClientCommand)
    BY <1>3, <1>6, OrderFacts, SequencesSound, AcksAppend
  <1>8. QED
    BY <1>4, <1>7

\* Messages of the server that are taken or lost leave those behind them in
\* order.
LEMMA MessagesLeft ==
  ASSUME Sound, ClientInv, NEW i \in DOMAIN toClient,
         toClient' = SubSeq(toClient, i + 1, Len(toClient)), unsent' = unsent
  PROVE  /\ toClient[i].ack \in cl.reliableAcknowledge .. sv.lastClientCommand
         /\ AcksInOrder(toClient' \o unsent', toClient[i].ack,
                        sv.lastClientCommand)
  <1> DEFINE q == toClient \o unsent
  <1>1. /\ i \in DOMAIN q /\ q[i] = toClient[i] /\ IsSequence(q)
        /\ toClient' \o unsent' = SubSeq(q, i + 1, Len(q))
    BY SequencesSound, SuffixConcat
  <1>2. AcksInOrder(q, cl.reliableAcknowledge, sv.lastClientCommand)
    BY OrderFacts
  <1>3. cl.reliableAcknowledge \in Nat /\ sv.lastClientCommand \in Nat
    BY OrderFacts
  <1> HIDE DEF q
  <1>4. /\ q[i].ack \in cl.reliableAcknowledge .. sv.lastClientCommand
        /\ AcksInOrder(SubSeq(q, i + 1, Len(q)), q[i].ack, sv.lastClientCommand)
    BY <1>1, <1>2, <1>3, AcksSuffix
  <1>5. QED
    BY <1>1, <1>4

Ordered ==
  AcksInOrder(toClient \o unsent, cl.reliableAcknowledge, sv.lastClientCommand)

\* The steps that leave the server's messages and the client's numbers alone.
LEMMA OrderStays ==
  ASSUME Sound, ClientInv, UNCHANGED <<toClient, unsent>>,
         cl'.reliableAcknowledge = cl.reliableAcknowledge,
         sv'.lastClientCommand \in Nat,
         sv.lastClientCommand <= sv'.lastClientCommand
  PROVE  Ordered'
  BY OrderFacts, AcksWiden DEF Ordered

LEMMA AddOrdered ==
  ASSUME Sound, ClientInv, CL_AddReliableCommand \/ SV_AddServerCommand
  PROVE  Ordered'
  <1>1. CASE CL_AddReliableCommand
    <2>1. /\ UNCHANGED <<sv, toClient, unsent>>
          /\ cl.reliableSequence < MaxClientCommands
          /\ cl' = cl \/ cl' = Added(cl)
      BY <1>1 DEF CL_AddReliableCommand, svVars, channelVars
    <2> DEFINE n == cl.reliableSequence + 1
               r == [cl.reliableCommands EXCEPT ![Slot(n)] = n]
    <2>2. Added(cl) = [cl EXCEPT !.reliableSequence = n, !.reliableCommands = r]
      BY <2>1, SoundParts, AddedCl
    <2> HIDE DEF n, r
    <2>3. cl'.reliableAcknowledge = cl.reliableAcknowledge
      BY <2>1, <2>2, SoundParts DEF ClType
    <2>4. QED
      BY <2>1, <2>3, OrderFacts, OrderStays
  <1>2. CASE SV_AddServerCommand
    <2>1. /\ UNCHANGED <<cl, toClient, unsent>>
          /\ sv.reliableSequence < MaxServerCommands
      BY <1>2 DEF SV_AddServerCommand, clVars, channelVars
    <2> DEFINE n == sv.reliableSequence + 1
               r == [sv.reliableCommands EXCEPT ![Slot(n)] = n]
    <2>2. Added(sv) = [sv EXCEPT !.reliableSequence = n, !.reliableCommands = r]
      BY <2>1, SoundParts, AddedSv
    <2>3. sv' = [sv EXCEPT !.reliableSequence = n] \/ sv' = Added(sv)
      BY <1>2 DEF SV_AddServerCommand
    <2> HIDE DEF n, r
    <2>4. sv'.lastClientCommand = sv.lastClientCommand
      BY <2>2, <2>3, SoundParts DEF SvType
    <2>5. QED
      BY <2>1, <2>4, OrderFacts, OrderStays
  <1>3. QED
    BY <1>1, <1>2

LEMMA IgnoreOrdered ==
  ASSUME Sound, ClientInv, stacked' = <<>>,
         NEW i \in DOMAIN toServer, SV_IgnoreOutdatedMessage(i)
  PROVE  Ordered'
  <1> DEFINE acked == [sv EXCEPT !.reliableAcknowledge =
                         Clamped(sv, toServer[i].ack)]
  <1>1. /\ cl' = cl /\ sv' = acked
        /\ UNCHANGED <<toClient, unsent>> \/ SendNow(acked) \/ Stack(acked)
    BY DEF SV_IgnoreOutdatedMessage, clVars
  <1>2. acked.lastClientCommand = sv.lastClientCommand
    BY SoundParts DEF SvType
  <1> HIDE DEF acked
  <1>3. CASE UNCHANGED <<toClient, unsent>>
    BY <1>1, <1>2, <1>3, OrderFacts, OrderStays
  <1>4. CASE SendNow(acked) \/ Stack(acked)
    <2>1. AcksInOrder(toClient' \o unsent', cl.reliableAcknowledge,
                      sv.lastClientCommand)
      BY <1>2, <1>4, SentInOrder
    <2>2. QED
      BY <1>1, <1>2, <2>1 DEF Ordered
  <1>5. QED
    BY <1>1, <1>3, <1>4

LEMMA SendOrdered ==
  ASSUME Sound, ClientInv, stacked = <<>>, stacked' = <<>>,
         \/ SV_SendMessage \/ SV_StackMessage
         \/ SV_Netchan_TransmitNextFragment
  PROVE  Ordered'
  <1>1. UNCHANGED <<sv, cl>>
    BY DEF SV_SendMessage, SV_StackMessage, SV_Netchan_TransmitNextFragment,
       svVars, clVars
  <1>2. CASE SV_SendMessage \/ SV_StackMessage
    <2>1. SendNow(sv) \/ Stack(sv)
      BY <1>2 DEF SV_SendMessage, SV_StackMessage
    <2>2. AcksInOrder(toClient' \o unsent', cl.reliableAcknowledge,
                      sv.lastClientCommand)
      BY <2>1, SentInOrder
    <2>3. QED
      BY <1>1, <2>2 DEF Ordered
  <1>3. CASE SV_Netchan_TransmitNextFragment
    <2>1. unsent # <<>> /\ toClient' = toClient \o unsent /\ unsent' = <<>>
      BY <1>3 DEF SV_Netchan_TransmitNextFragment
    <2>2. toClient' \o unsent' = toClient \o unsent
      BY <2>1, FinishedSound, ConcatEmpty
    <2>3. QED
      BY <1>1, <2>2, OrderFacts DEF Ordered
  <1>4. QED
    BY <1>2, <1>3

LEMMA ParseOrdered ==
  ASSUME Sound, ClientInv, stacked = <<>>, NEW i \in DOMAIN toClient,
         CL_ParseServerMessage(i)
  PROVE  Ordered'
  <1> DEFINE m == toClient[i]
  <1>1. /\ UNCHANGED <<sv, unsent>>
        /\ toClient' = SubSeq(toClient, i + 1, Len(toClient))
        /\ UNCHANGED cl \/ cl' = Stored(m)
    BY DEF CL_ParseServerMessage, svVars
  <1>2. /\ m.ack \in cl.reliableAcknowledge .. sv.lastClientCommand
        /\ AcksInOrder(toClient' \o unsent', m.ack, sv.lastClientCommand)
    BY <1>1, MessagesLeft
  <1>3. m.ack \in Nat /\ cl.reliableAcknowledge <= m.ack
    BY <1>2, OrderFacts
  <1>4. CASE UNCHANGED cl
    BY <1>1, <1>2, <1>3, <1>4, OrderFacts, AcksWiden DEF Ordered
  <1>5. CASE cl' = Stored(m)
    <2>1. cl.reliableSequence <= m.ack + MAX_RELIABLE_COMMANDS
      BY OrderIsFresh DEF AcksFresh, ServerMessages
    <2>2. Clamped(cl, m.ack) = m.ack
      BY <1>3, <2>1, OrderFacts DEF Clamped
    <2>3. Stored(m).reliableAcknowledge = Clamped(cl, m.ack)
      <3>1. /\ cl \in ClType /\ ServerMessageSound(m) /\ sv.reliableSequence \in Nat
            /\ Keeps(cl.serverCommands, cl.serverCommandSequence)
        BY SequencesSound, SoundParts DEF Sound, ServerInv
      <3> HIDE DEF m
      <3>2. QED
        BY <3>1, StoredSound
    <2>4. QED
      BY <1>1, <1>2, <1>5, <2>2, <2>3 DEF Ordered
  <1>6. QED
    BY <1>1, <1>4, <1>5

LEMMA LoseOrdered ==
  ASSUME Sound, ClientInv, LoseToClient
  PROVE  Ordered'
  <1>1. /\ UNCHANGED <<sv, cl, unsent>>
        /\ toClient # <<>> /\ toClient' = Tail(toClient)
    BY DEF LoseToClient, svVars, clVars
  <1>2. 1 \in DOMAIN toClient /\ toClient' = SubSeq(toClient, 1 + 1, Len(toClient))
    BY <1>1, SequencesSound, TailIsSuffix
  <1>3. /\ toClient[1].ack \in cl.reliableAcknowledge .. sv.lastClientCommand
        /\ AcksInOrder(toClient' \o unsent', toClient[1].ack,
                       sv.lastClientCommand)
    BY <1>1, <1>2, MessagesLeft
  <1>4. toClient[1].ack \in Nat /\ cl.reliableAcknowledge <= toClient[1].ack
    BY <1>3, OrderFacts
  <1>5. AcksInOrder(toClient' \o unsent', cl.reliableAcknowledge,
                    sv.lastClientCommand)
    BY <1>3, <1>4, OrderFacts, AcksWiden
  <1>6. QED
    BY <1>1, <1>5 DEF Ordered

\* No step stacks a message and none is overtaken: the order stays.
LEMMA OrderStep ==
  ASSUME Sound, ClientInv, stacked = <<>>, stacked' = <<>>, [Next]_vars
  PROVE  Ordered'
  <1>1. CASE CL_AddReliableCommand \/ SV_AddServerCommand
    BY <1>1, AddOrdered
  <1>2. CASE \/ CL_WritePacket \/ LoseToServer \/ UNCHANGED vars
    <2>1. UNCHANGED <<sv, cl, toClient, unsent>>
      BY <1>2 DEF CL_WritePacket, LoseToServer, vars, svVars, clVars, channelVars
    <2>2. QED
      BY <2>1, OrderFacts, OrderStays
  <1>3. ASSUME NEW i \in DOMAIN toServer, SV_ExecuteClientMessage(i)
        PROVE  Ordered'
    <2>1. UNCHANGED <<cl, toClient, unsent>>
      BY <1>3 DEF SV_ExecuteClientMessage, clVars
    <2>2. /\ sv'.lastClientCommand \in Nat
          /\ sv.lastClientCommand <= sv'.lastClientCommand
      BY <1>3, MessageExecuted DEF ClientInv
    <2>3. QED
      BY <2>1, <2>2, OrderStays
  <1>4. CASE \E i \in DOMAIN toServer : SV_IgnoreOutdatedMessage(i)
    BY <1>4, IgnoreOrdered
  <1>5. CASE SV_SendMessage \/ SV_StackMessage \/ SV_Netchan_TransmitNextFragment
    BY <1>5, SendOrdered
  <1>6. CASE \E i \in DOMAIN toClient : CL_ParseServerMessage(i)
    BY <1>6, ParseOrdered
  <1>7. CASE CL_GetServerCommand
    <2> DEFINE n == cl.lastExecutedServerCommand + 1
    <2>1. /\ UNCHANGED <<sv, toClient, unsent>>
          /\ cl' = cl \/ cl' = [cl EXCEPT !.lastExecutedServerCommand = n]
      BY <1>7 DEF CL_GetServerCommand, svVars, channelVars
    <2> HIDE DEF n
    <2>2. cl'.reliableAcknowledge = cl.reliableAcknowledge
      BY <2>1, SoundParts DEF ClType
    <2>3. QED
      BY <2>1, <2>2, OrderFacts, OrderStays
  <1>8. CASE LoseToClient
    BY <1>8, LoseOrdered
  <1>9. QED
    BY <1>1, <1>2, <1>3, <1>4, <1>5, <1>6, <1>7, <1>8 DEF Next

LEMMA InitOrdered == Init => Ordered
  <1> SUFFICES ASSUME Init PROVE Ordered
    OBVIOUS
  <1>1. DOMAIN <<>> = {} /\ <<>> \o <<>> = <<>>
    BY EmptyDomain, EmptySound, ConcatEmpty
  <1>2. QED
    BY <1>1 DEF Init, AcksInOrder, Ordered

NothingStacked == stacked = <<>>

\* As long as no message is stacked the whole invariant holds, IInv: the two
\* halves and the order of the acknowledgements.
THEOREM NotStackedInductive ==
  ASSUME ClientWindow <= MAX_RELIABLE_COMMANDS
  PROVE  Spec /\ []NothingStacked => []IInv
  <1>1. Init => Sound /\ ClientInv
    BY InitSound, InitStream, InitOrdered DEF ClientInv, Ordered
  <1>2. Sound /\ ClientInv /\ NothingStacked /\ NothingStacked' /\ [Next]_vars
          => Sound' /\ ClientInv'
    <2> SUFFICES ASSUME Sound, ClientInv, NothingStacked, NothingStacked', [Next]_vars
                 PROVE  Sound' /\ ClientInv'
      OBVIOUS
    <2>1. Sound' /\ StreamInv /\ AcksFresh
      BY SoundStep, OrderIsFresh DEF NothingStacked, ClientInv
    <2>2. StreamInv'
      BY <2>1, StreamStep
    <2>3. Ordered'
      BY OrderStep DEF NothingStacked
    <2>4. QED
      BY <2>1, <2>2, <2>3 DEF ClientInv, Ordered
  <1>3. Sound /\ ClientInv => IInv
    BY DEF Sound, IInv
  <1>4. QED
    BY <1>1, <1>2, <1>3, PTL DEF Spec

\* Then no acknowledgement is ever too old (SV_Netchan_Transmit sends every
\* message at once, or after the fragments of the one before).
THEOREM FreshWhenNotStacked ==
  ASSUME ClientWindow <= MAX_RELIABLE_COMMANDS
  PROVE  Spec /\ []NothingStacked => []AcksFresh
  <1>1. IInv /\ NothingStacked => AcksFresh
    BY OrderIsFresh DEF IInv, Sound, NothingStacked
  <1>2. QED
    BY <1>1, NotStackedInductive, PTL

\* Nor is one with messages stacked, until the client's commands wrap its ring
\* (CL_AddReliableCommand).
THEOREM FreshUntilWrap ==
  ASSUME MaxClientCommands <= MAX_RELIABLE_COMMANDS
  PROVE  Spec => []AcksFresh
  <1>1. ASSUME Sound
        PROVE  AcksFresh
    <2>1. cl.reliableSequence \in 0 .. MaxClientCommands
      BY <1>1, SoundParts, ClFields
    <2>2. ASSUME NEW m \in ServerMessages
          PROVE  m.ack \in Nat
      BY <1>1, SequencesSound DEF ServerMessages, ServerMessageSound
    <2>3. QED
      BY <2>1, <2>2 DEF AcksFresh
  <1>2. QED
    BY <1>1, SoundInvariant, PTL

\* With messages stacked or not, in whatever order they arrive: as long as the
\* client's callers keep no more commands unacknowledged than a ring holds, and
\* no message acknowledges a command a ring behind the client's last one, the
\* server executes the client's commands in order, each once, each with its own
\* string (SV_ClientCommand).
THEOREM CommandsInOrder ==
  ASSUME ClientWindow <= MAX_RELIABLE_COMMANDS
  PROVE  Spec /\ []AcksFresh => []ExecutedInOrder
  <1>1. Sound /\ StreamInv => ExecutedInOrder
    BY DEF Sound, ServerInv, StreamInv, ExecutedInOrder
  <1>2. QED
    BY <1>1, StreamInvariant, PTL

\* Under the same conditions a side takes as acknowledged only what the other
\* side has (SV_ExecuteClientMessage, CL_ParseServerMessage).
THEOREM AcknowledgementsAreSound ==
  ASSUME ClientWindow <= MAX_RELIABLE_COMMANDS
  PROVE  Spec /\ []AcksFresh => []AcknowledgementsSound
  <1>1. Sound /\ StreamInv => AcknowledgementsSound
    BY DEF Sound, ServerInv, StreamInv, AcknowledgementsSound
  <1>2. QED
    BY <1>1, StreamInvariant, PTL

\* Under the same conditions no message ever makes the server see a gap and
\* drop the client (SV_ClientCommand).
THEOREM NoCommandLost ==
  ASSUME ClientWindow <= MAX_RELIABLE_COMMANDS
  PROVE  Spec /\ []AcksFresh => []NeverLost
  <1>1. StreamInv => NeverLost
    BY DEF StreamInv, NeverLost
  <1>2. QED
    BY <1>1, StreamInvariant, PTL

\* Under the same conditions no usercmd is executed before a command that was
\* added before the usercmd was made (SV_ExecuteClientMessage).
THEOREM MovesFollow ==
  ASSUME ClientWindow <= MAX_RELIABLE_COMMANDS
  PROVE  Spec /\ []AcksFresh => []MovesAfterCommands
  <1>1. StreamInv => MovesAfterCommands
    BY DEF StreamInv, MovesAfterCommands
  <1>2. QED
    BY <1>1, StreamInvariant, PTL

\* Under the same conditions a connection that lasts has every unacknowledged
\* command of the client in its slot.  The run reliable_window shows that the
\* limit in CL_AddReliableCommand alone does not see to it.
THEOREM CommandsKept ==
  ASSUME ClientWindow <= MAX_RELIABLE_COMMANDS
  PROVE  Spec /\ []AcksFresh => []ClientCommandsKept
  <1>1. ASSUME Sound, StreamInv
        PROVE  ClientCommandsKept
    <2>1. cl.reliableAcknowledge \in 0 .. cl.reliableSequence
      BY <1>1, StreamFacts
    <2>2. Exactly(Unacknowledged(cl), cl.reliableAcknowledge, cl.reliableSequence)
      BY <1>1, <2>1, StreamFacts, UnacknowledgedExact
    <2>3. QED
      BY <2>2 DEF Exactly, ClientCommandsKept
  <1>2. QED
    BY <1>1, StreamInvariant, PTL
-----------------------------------------------------------------------------
(* The stream of the client's commands.                                    *)

\* Only CL_AddReliableCommand touches the number of the client's last command.
LEMMA ClientSequence ==
  ASSUME Sound, [Next]_vars
  PROVE  \/ cl'.reliableSequence = cl.reliableSequence
         \/ /\ CL_AddReliableCommand
            /\ cl'.reliableSequence = cl.reliableSequence + 1
  <1>1. cl \in ClType
    BY SoundParts
  <1>2. CASE CL_AddReliableCommand
    <2>1. cl.reliableSequence < MaxClientCommands /\ (cl' = cl \/ cl' = Added(cl))
      BY <1>2 DEF CL_AddReliableCommand
    <2> DEFINE n == cl.reliableSequence + 1
               r == [cl.reliableCommands EXCEPT ![Slot(n)] = n]
    <2>2. Added(cl) = [cl EXCEPT !.reliableSequence = n, !.reliableCommands = r]
      BY <1>1, <2>1, AddedCl
    <2> HIDE DEF n, r
    <2>3. cl'.reliableSequence = cl.reliableSequence \/ cl'.reliableSequence = n
      BY <1>1, <2>1, <2>2 DEF ClType
    <2>4. QED
      BY <1>2, <2>3 DEF n
  <1>3. ASSUME NEW i \in DOMAIN toClient, CL_ParseServerMessage(i)
        PROVE  cl'.reliableSequence = cl.reliableSequence
    <2> DEFINE m == toClient[i]
    <2>1. cl' = cl \/ cl' = Stored(m)
      BY <1>3 DEF CL_ParseServerMessage
    <2>2. \A f \in {"reliableSequence", "reliableCommands",
                    "lastExecutedServerCommand"} : Stored(m)[f] = cl[f]
      <3>1. /\ cl \in ClType /\ ServerMessageSound(m) /\ sv.reliableSequence \in Nat
            /\ Keeps(cl.serverCommands, cl.serverCommandSequence)
        BY SequencesSound, SoundParts DEF Sound, ServerInv
      <3> HIDE DEF m
      <3>2. QED
        BY <3>1, StoredSound
    <2>3. QED
      BY <2>1, <2>2
  <1>4. CASE CL_GetServerCommand
    <2> DEFINE n == cl.lastExecutedServerCommand + 1
    <2>1. cl' = cl \/ cl' = [cl EXCEPT !.lastExecutedServerCommand = n]
      BY <1>4 DEF CL_GetServerCommand
    <2> HIDE DEF n
    <2>2. QED
      BY <1>1, <2>1 DEF ClType
  <1>5. QED
    BY <1>2, <1>3, <1>4 DEF Next, vars, clVars, SV_AddServerCommand, CL_WritePacket,
       SV_ExecuteClientMessage, SV_IgnoreOutdatedMessage, SV_SendMessage,
       SV_StackMessage, SV_Netchan_TransmitNextFragment, LoseToClient, LoseToServer

\* Only SV_ExecuteClientMessage executes the client's commands.
LEMMA ExecutedNext ==
  ASSUME [Next]_vars
  PROVE  \/ executed' = executed
         \/ /\ \E i \in DOMAIN toServer : SV_ExecuteClientMessage(i)
            /\ cl' = cl
  BY DEF Next, vars, svVars, clVars, CL_AddReliableCommand, CL_WritePacket,
     SV_AddServerCommand, SV_ExecuteClientMessage, SV_IgnoreOutdatedMessage,
     SV_SendMessage, SV_StackMessage, SV_Netchan_TransmitNextFragment,
     CL_ParseServerMessage, CL_GetServerCommand, LoseToClient, LoseToServer

LEMMA ClientStreamStep ==
  ASSUME Sound, StreamInv, Sound', StreamInv', [Next]_vars
  PROVE  [ClientStream!Next]_(ClientStream!streamVars)
  <1>1. cl.reliableSequence \in Nat
    BY StreamFacts
  <1>2. CASE executed' = executed
    <2>1. CASE cl'.reliableSequence = cl.reliableSequence
      BY <1>2, <2>1 DEF ClientStream!streamVars
    <2>2. CASE cl'.reliableSequence = cl.reliableSequence + 1
      BY <1>2, <2>2 DEF ClientStream!Next, ClientStream!Add
    <2>3. QED
      BY <2>1, <2>2, ClientSequence
  <1>3. ASSUME NEW i \in DOMAIN toServer, SV_ExecuteClientMessage(i), cl' = cl,
               executed' # executed
        PROVE  ClientStream!Execute
    <2>1. /\ executed \in Seq(Nat) /\ Len(executed) = sv.lastClientCommand
          /\ \A k \in DOMAIN executed : executed[k] = k
          /\ executed' \in Seq(Nat) /\ Len(executed') = sv'.lastClientCommand
          /\ \A k \in DOMAIN executed' : executed'[k] = k
      BY DEF Sound, TypeOK, ServerInv, StreamInv
    <2>2. /\ sv'.lastClientCommand \in Nat /\ sv.lastClientCommand \in Nat
          /\ sv.lastClientCommand <= sv'.lastClientCommand
          /\ sv'.lastClientCommand <= cl.reliableSequence
      BY <1>3, MessageExecuted, StreamFacts
    <2> DEFINE n == sv'.lastClientCommand
               p == sv.lastClientCommand
    <2>3. executed' = [k \in 1 .. n |-> k] /\ executed = [k \in 1 .. p |-> k]
      <3>1. /\ executed' = [k \in 1 .. Len(executed') |-> k]
            /\ executed = [k \in 1 .. Len(executed) |-> k]
        BY <2>1, NumberedStream
      <3>2. Len(executed') = n /\ Len(executed) = p
        BY <2>1
      <3> HIDE DEF n, p
      <3>3. QED
        BY <3>1, <3>2
    <2>4. Len(executed) = p /\ cl.reliableSequence \in Nat
      BY <1>1, <2>1
    <2>5. n \in Nat /\ p \in Nat /\ p <= n /\ n <= cl.reliableSequence
      BY <2>2
    <2> HIDE DEF n, p
    <2>6. n # p
      BY <1>3, <2>3
    <2>7. n \in Len(executed) + 1 .. cl.reliableSequence
      BY <2>4, <2>5, <2>6
    <2>8. QED
      BY <1>3, <2>3, <2>7 DEF ClientStream!Execute
  <1>4. QED
    BY <1>2, <1>3, ExecutedNext DEF ClientStream!Next

\* Under the same conditions the server executes the client's commands as
\* CommandStream says: every step adds a command, executes the next ones, or
\* leaves the stream alone; what was executed is never taken back.
THEOREM ClientCommandStream ==
  ASSUME ClientWindow <= MAX_RELIABLE_COMMANDS
  PROVE  Spec /\ []AcksFresh => ClientStream!Spec
  <1>1. Init => ClientStream!Init
    BY DEF Init, ClientStream!Init
  <1>2. Sound /\ StreamInv /\ (Sound /\ StreamInv)' /\ [Next]_vars
          => [ClientStream!Next]_(ClientStream!streamVars)
    BY ClientStreamStep
  <1>3. QED
    BY <1>1, <1>2, StreamInvariant, PTL DEF Spec, ClientStream!Spec

\* Both directions together (SV_AddServerCommand to CL_GetServerCommand,
\* CL_AddReliableCommand to SV_ClientCommand).
THEOREM Streams ==
  ASSUME ClientWindow <= MAX_RELIABLE_COMMANDS
  PROVE  Spec /\ []AcksFresh => ImplementsStreams
  BY ServerCommandStream, ClientCommandStream, PTL DEF ImplementsStreams
-----------------------------------------------------------------------------
(* The strings that key the encoding, as long as no message is stacked.    *)

\* Number 0, the empty string, keeps its slot until a ring of commands was
\* added.
KeepsEmpty(ring, seq) == seq < MAX_RELIABLE_COMMANDS => ring[0] = 0

\* Every message is encoded with the string of the command it acknowledges,
\* and both sides still have that string.
KeyInv ==
  /\ KeepsEmpty(sv.reliableCommands, sv.reliableSequence)
  /\ KeepsEmpty(cl.reliableCommands, cl.reliableSequence)
  /\ KeepsEmpty(cl.serverCommands, cl.serverCommandSequence)
  /\ cl.reliableSequence <= cl.reliableAcknowledge + ClientWindow
  /\ sv.lastClientCommandString = sv.lastClientCommand
  /\ \A i \in DOMAIN toServer : toServer[i].key = toServer[i].ack
  /\ \A m \in ServerMessages : m.key = m.ack
  /\ KeysAgree

\* The server has fewer commands unacknowledged than a ring holds.
ServerRingNotFull ==
  sv.reliableSequence < sv.reliableAcknowledge + MAX_RELIABLE_COMMANDS

\* The string under a number less than a ring behind the last one is that
\* number.
LEMMA KeyOf ==
  ASSUME NEW ring, NEW seq \in Nat, Keeps(ring, seq), KeepsEmpty(ring, seq),
         NEW n \in 0 .. seq, seq < n + MAX_RELIABLE_COMMANDS
  PROVE  ring[Slot(n)] = n
  <1>1. CASE n = 0
    <2>1. Slot(0) = 0
      BY DEF Slot
    <2>2. QED
      BY <1>1, <2>1 DEF KeepsEmpty
  <1>2. CASE n # 0
    <2>1. n \in 1 .. seq /\ n > seq - MAX_RELIABLE_COMMANDS
      BY <1>2
    <2>2. QED
      BY <2>1 DEF Keeps
  <1>3. QED
    BY <1>1, <1>2

LEMMA SlotNotZero ==
  ASSUME NEW n \in Nat \ {0}, n < MAX_RELIABLE_COMMANDS
  PROVE  Slot(n) # 0
  <1>1. Slot(0) = 0
    BY DEF Slot
  <1>2. Slot(0) # Slot(n)
    BY SlotsDiffer
  <1>3. QED
    BY <1>1, <1>2

LEMMA KeepsEmptyAdded ==
  ASSUME NEW ring \in Ring, NEW seq \in Nat, KeepsEmpty(ring, seq)
  PROVE  KeepsEmpty([ring EXCEPT ![Slot(seq + 1)] = seq + 1], seq + 1)
  <1> DEFINE n == seq + 1
             r == [ring EXCEPT ![Slot(n)] = n]
  <1>1. n \in Nat \ {0} /\ seq < n
    OBVIOUS
  <1> HIDE DEF n
  <1>2. SUFFICES ASSUME n < MAX_RELIABLE_COMMANDS
                 PROVE  r[0] = 0
    BY DEF KeepsEmpty, n
  <1>3. Slot(n) # 0
    BY <1>1, <1>2, SlotNotZero
  <1>4. ring[0] = 0
    BY <1>1, <1>2 DEF KeepsEmpty
  <1>5. DOMAIN ring = 0 .. MAX_RELIABLE_COMMANDS - 1
    BY DEF Ring
  <1>6. QED
    BY <1>3, <1>4, <1>5

\* The commands a message brings leave the slot of number 0 alone.
LEMMA KeepsEmptyStored ==
  ASSUME Sound, NEW m, ServerMessageSound(m),
         KeepsEmpty(cl.serverCommands, cl.serverCommandSequence)
  PROVE  KeepsEmpty(Stored(m).serverCommands, Stored(m).serverCommandSequence)
  <1> DEFINE have == cl.serverCommandSequence
             fresh == {n \in DOMAIN m.commands : n > have}
             In(s) == {n \in fresh : Slot(n) = s}
             top == Stored(m).serverCommandSequence
             ring == Stored(m).serverCommands
  <1>1. /\ cl \in ClType /\ have \in Nat /\ sv.reliableSequence \in Nat
        /\ Keeps(cl.serverCommands, have)
        /\ cl.serverCommands \in Ring
    BY SoundParts, ClFields DEF Sound, ServerInv
  <1>2. PICK lo \in 0 .. have : Exactly(m.commands, lo, m.madeAt)
    BY DEF ServerMessageSound
  <1>3. m.madeAt \in Nat /\ lo \in Nat
    BY <1>1, <1>2 DEF ServerMessageSound
  <1>4. \A n \in fresh : n \in Nat \ {0} /\ n <= m.madeAt
    <2>1. DOMAIN m.commands = lo + 1 .. m.madeAt
      BY <1>2 DEF Exactly
    <2>2. QED
      BY <1>3, <2>1
  <1>5. top = IF m.madeAt > have THEN m.madeAt ELSE have
    BY <1>1, StoredSound
  <1>6. ring = [s \in DOMAIN cl.serverCommands |->
                  IF In(s) = {} THEN cl.serverCommands[s]
                  ELSE m.commands[Max(In(s))]]
    BY <1>1 DEF Stored, ClType
  <1> HIDE DEF fresh, top, ring
  <1>7. SUFFICES ASSUME top < MAX_RELIABLE_COMMANDS
                 PROVE  ring[0] = 0
    BY DEF KeepsEmpty, top, ring
  <1>8. m.madeAt <= top /\ have <= top /\ top \in Nat
    BY <1>1, <1>3, <1>5
  <1>9. In(0) = {}
    <2>1. ASSUME NEW n \in fresh
          PROVE  Slot(n) # 0
      <3>1. n \in Nat \ {0} /\ n < MAX_RELIABLE_COMMANDS
        BY <1>3, <1>4, <1>7, <1>8
      <3>2. QED
        BY <3>1, SlotNotZero
    <2>2. QED
      BY <2>1
  <1>10. 0 \in DOMAIN cl.serverCommands
    BY <1>1 DEF Ring
  <1>11. cl.serverCommands[0] = 0
    BY <1>1, <1>7, <1>8 DEF KeepsEmpty
  <1>12. QED
    BY <1>6, <1>9, <1>10, <1>11

\* The server can tell what a message of the client was encoded with.
LEMMA ServerLegible ==
  ASSUME Sound, KeyInv, ServerRingNotFull, Active, NEW i \in DOMAIN toServer
  PROVE  Legible(sv.reliableCommands, toServer[i])
  <1> DEFINE a == toServer[i].ack
  <1>1. a \in Nat /\ a \in sv.reliableAcknowledge .. cl.serverCommandSequence
    BY InRange
  <1>2. /\ sv.reliableSequence \in Nat /\ sv.reliableAcknowledge \in Nat
        /\ cl.serverCommandSequence \in Nat
        /\ cl.serverCommandSequence <= sv.reliableSequence
        /\ Keeps(sv.reliableCommands, sv.reliableSequence)
        /\ KeepsEmpty(sv.reliableCommands, sv.reliableSequence)
    BY SoundParts DEF Sound, ServerInv, KeyInv
  <1>3. toServer[i].key = a
    BY DEF KeyInv
  <1> HIDE DEF a
  <1>4. a \in 0 .. sv.reliableSequence
        /\ sv.reliableSequence < a + MAX_RELIABLE_COMMANDS
    BY <1>1, <1>2 DEF ServerRingNotFull
  <1>5. sv.reliableCommands[Slot(a)] = a
    BY <1>2, <1>4, KeyOf
  <1>6. QED
    BY <1>3, <1>5 DEF Legible, a

\* And the client, what one of the server's was.
LEMMA ClientLegible ==
  ASSUME Sound, ClientInv, KeyInv, ClientWindow < MAX_RELIABLE_COMMANDS,
         NEW i \in DOMAIN toClient
  PROVE  /\ Legible(cl.reliableCommands, toClient[i])
         /\ toClient[i].ack \in cl.reliableAcknowledge .. sv.lastClientCommand
  <1> DEFINE a == toClient[i].ack
             q == toClient \o unsent
  <1>1. i \in DOMAIN q /\ q[i] = toClient[i]
    BY SequencesSound, SuffixConcat
  <1>2. AcksInOrder(q, cl.reliableAcknowledge, sv.lastClientCommand)
    BY OrderFacts
  <1> HIDE DEF q
  <1>3. a \in cl.reliableAcknowledge .. sv.lastClientCommand
    BY <1>1, <1>2 DEF AcksInOrder
  <1>4. toClient[i].key = a
    BY DEF KeyInv, ServerMessages
  <1>5. /\ cl.reliableSequence \in Nat /\ cl.reliableAcknowledge \in Nat
        /\ sv.lastClientCommand \in Nat
        /\ sv.lastClientCommand <= cl.reliableSequence
        /\ Keeps(cl.reliableCommands, cl.reliableSequence)
        /\ KeepsEmpty(cl.reliableCommands, cl.reliableSequence)
        /\ cl.reliableSequence <= cl.reliableAcknowledge + ClientWindow
    BY StreamFacts DEF ClientInv, KeyInv
  <1> HIDE DEF a
  <1>6. a \in 0 .. cl.reliableSequence
        /\ cl.reliableSequence < a + MAX_RELIABLE_COMMANDS
    BY <1>3, <1>5
  <1>7. cl.reliableCommands[Slot(a)] = a
    BY <1>5, <1>6, KeyOf
  <1>8. QED
    BY <1>3, <1>4, <1>7 DEF Legible, a

LEMMA AddKeyed ==
  ASSUME Sound, KeyInv, CL_AddReliableCommand \/ SV_AddServerCommand
  PROVE  KeyInv'
  <1>1. CASE CL_AddReliableCommand
    <2> DEFINE n == cl.reliableSequence + 1
               r == [cl.reliableCommands EXCEPT ![Slot(n)] = n]
    <2>1. /\ UNCHANGED <<sv, toClient, toServer, unsent, stacked>>
          /\ cl.reliableSequence < MaxClientCommands
          /\ cl.reliableSequence - cl.reliableAcknowledge < ClientWindow
          /\ cl' = cl \/ cl' = Added(cl)
          /\ status' # "illegible"
      BY <1>1 DEF CL_AddReliableCommand, Active, svVars, channelVars
    <2>2. cl \in ClType /\ cl.reliableCommands \in Ring
          /\ cl.reliableSequence \in Nat /\ cl.reliableAcknowledge \in Nat
      BY SoundParts, ClFields
    <2>3. Added(cl) = [cl EXCEPT !.reliableSequence = n, !.reliableCommands = r]
      BY <2>1, <2>2, AddedCl
    <2>4. KeepsEmpty(r, n)
      BY <2>2, KeepsEmptyAdded DEF KeyInv
    <2>5. n <= cl.reliableAcknowledge + ClientWindow
      BY <2>1, <2>2
    <2>6. ServerMessages' = ServerMessages
      BY <2>1 DEF ServerMessages
    <2> HIDE DEF n, r
    <2>7. CASE cl' = cl
      BY <2>1, <2>6, <2>7 DEF KeyInv, KeysAgree
    <2>8. CASE cl' = Added(cl)
      <3>1. /\ cl'.reliableSequence = n /\ cl'.reliableCommands = r
            /\ cl'.reliableAcknowledge = cl.reliableAcknowledge
            /\ cl'.serverCommands = cl.serverCommands
            /\ cl'.serverCommandSequence = cl.serverCommandSequence
        BY <2>2, <2>3, <2>8 DEF ClType
      <3>2. QED
        BY <2>1, <2>4, <2>5, <2>6, <3>1 DEF KeyInv, KeysAgree
    <2>9. QED
      BY <2>1, <2>7, <2>8
  <1>2. CASE SV_AddServerCommand
    <2> DEFINE n == sv.reliableSequence + 1
               r == [sv.reliableCommands EXCEPT ![Slot(n)] = n]
    <2>1. /\ UNCHANGED <<cl, toClient, toServer, unsent, stacked>>
          /\ sv.reliableSequence < MaxServerCommands
          /\ sv' = [sv EXCEPT !.reliableSequence = n] \/ sv' = Added(sv)
          /\ status' # "illegible"
      BY <1>2 DEF SV_AddServerCommand, Active, clVars, channelVars
    <2>2. sv \in SvType /\ sv.reliableCommands \in Ring /\ sv.reliableSequence \in Nat
      BY SoundParts, SvFields
    <2>3. Added(sv) = [sv EXCEPT !.reliableSequence = n, !.reliableCommands = r]
      BY <2>1, <2>2, AddedSv
    <2>4. KeepsEmpty(r, n) /\ KeepsEmpty(sv.reliableCommands, n)
      <3>1. KeepsEmpty(r, n)
        BY <2>2, KeepsEmptyAdded DEF KeyInv
      <3>2. KeepsEmpty(sv.reliableCommands, n)
        BY <2>2 DEF KeyInv, KeepsEmpty
      <3>3. QED
        BY <3>1, <3>2
    <2>5. ServerMessages' = ServerMessages
      BY <2>1 DEF ServerMessages
    <2> HIDE DEF n, r
    <2>6. /\ sv'.reliableSequence = n
          /\ sv'.reliableCommands \in {r, sv.reliableCommands}
          /\ sv'.lastClientCommand = sv.lastClientCommand
          /\ sv'.lastClientCommandString = sv.lastClientCommandString
      BY <2>1, <2>2, <2>3 DEF SvType
    <2>7. KeepsEmpty(sv'.reliableCommands, sv'.reliableSequence)
      BY <2>4, <2>6
    <2>8. QED
      BY <2>1, <2>5, <2>6, <2>7 DEF KeyInv, KeysAgree
  <1>3. QED
    BY <1>1, <1>2

\* A step that only moves messages, all with their keys.
LEMMA MovedKeyed ==
  ASSUME Sound, KeyInv, sv' \in SvType, UNCHANGED <<cl, status>>,
         sv'.reliableSequence = sv.reliableSequence,
         sv'.reliableCommands = sv.reliableCommands,
         sv'.lastClientCommandString = sv'.lastClientCommand,
         \A k \in DOMAIN toServer' : toServer'[k].key = toServer'[k].ack,
         \A m \in ServerMessages' : m.key = m.ack
  PROVE  KeyInv'
  BY DEF KeyInv, KeysAgree

LEMMA WriteKeyed ==
  ASSUME Sound, KeyInv, CL_WritePacket
  PROVE  KeyInv'
  <1> DEFINE a == cl.serverCommandSequence
             m == [ack |-> a, key |-> cl.serverCommands[Slot(a)],
                   commands |-> Unacknowledged(cl),
                   move |-> cl.reliableSequence]
  <1>1. /\ UNCHANGED <<sv, cl, status, toClient, unsent, stacked>>
        /\ toServer' = Append(toServer, m)
    BY DEF CL_WritePacket, svVars, clVars
  <1>2. /\ a \in Nat /\ Keeps(cl.serverCommands, a)
        /\ KeepsEmpty(cl.serverCommands, a)
    BY SoundParts DEF Sound, ServerInv, KeyInv
  <1>3. m.key = m.ack
    <2>1. m.ack = a /\ m.key = cl.serverCommands[Slot(a)]
      OBVIOUS
    <2> HIDE DEF a, m
    <2>2. a \in 0 .. a /\ a < a + MAX_RELIABLE_COMMANDS
      BY <1>2
    <2>3. cl.serverCommands[Slot(a)] = a
      BY <1>2, <2>2, KeyOf
    <2>4. QED
      BY <2>1, <2>3
  <1> HIDE DEF m, a
  <1>4. ASSUME NEW k \in DOMAIN toServer'
        PROVE  toServer'[k].key = toServer'[k].ack
    <2>1. toServer'[k] = m \/ \E j \in DOMAIN toServer : toServer'[k] = toServer[j]
      BY <1>1, SoundParts, AppendElements
    <2>2. QED
      BY <1>3, <2>1 DEF KeyInv
  <1>5. ServerMessages' = ServerMessages
    BY <1>1 DEF ServerMessages
  <1>6. QED
    BY <1>1, <1>4, <1>5, SoundParts, MovedKeyed DEF KeyInv

\* What remains of toServer after the i-th message was taken.
LEMMA PacketsKeyed ==
  ASSUME Sound, KeyInv, NEW i \in DOMAIN toServer,
         toServer' = SubSeq(toServer, i + 1, Len(toServer))
  PROVE  \A k \in DOMAIN toServer' : toServer'[k].key = toServer'[k].ack
  <1>1. \A k \in DOMAIN toServer' : \E j \in DOMAIN toServer : toServer'[k] = toServer[j]
    BY SoundParts, SuffixElements
  <1>2. QED
    BY <1>1 DEF KeyInv

\* A message sent at once is keyed by the command it acknowledges.
LEMMA SentKeyed ==
  ASSUME Sound, KeyInv, NEW s, s.lastClientCommand = sv.lastClientCommand,
         SendNow(s) \/ Stack(s), stacked' = <<>>
  PROVE  \A m \in ServerMessages' : m.key = m.ack
  <1> DEFINE m == SV_Netchan_Encode(SV_WriteMessage(s))
  <1>1. ~Stack(s)
    BY NotStacked DEF Stack
  <1>2. Netchan_Transmit(m, toClient)
    BY <1>1 DEF SendNow
  <1>3. m.key = m.ack
    BY DEF SV_Netchan_Encode, SV_WriteMessage, KeyInv
  <1> HIDE DEF m
  <1>4. /\ \A i \in DOMAIN toClient' :
             toClient'[i] = m \/ \E k \in DOMAIN toClient : toClient'[i] = toClient[k]
        /\ \A i \in DOMAIN unsent' : unsent'[i] = m
    BY <1>2, SequencesSound, TransmitElements
  <1>5. \A x \in ServerMessages' : x = m \/ x \in ServerMessages
    BY <1>4, EmptyDomain DEF ServerMessages
  <1>6. QED
    BY <1>3, <1>5 DEF KeyInv

LEMMA IgnoreKeyed ==
  ASSUME Sound, Sound', KeyInv, stacked' = <<>>,
         NEW i \in DOMAIN toServer, SV_IgnoreOutdatedMessage(i)
  PROVE  KeyInv'
  <1> DEFINE acked == [sv EXCEPT !.reliableAcknowledge =
                         Clamped(sv, toServer[i].ack)]
  <1>1. /\ UNCHANGED <<cl, status>> /\ sv' = acked
        /\ toServer' = SubSeq(toServer, i + 1, Len(toServer))
        /\ \/ UNCHANGED <<toClient, unsent, stacked>>
           \/ SendNow(acked) \/ Stack(acked)
    BY DEF SV_IgnoreOutdatedMessage, clVars
  <1>2. /\ acked.lastClientCommand = sv.lastClientCommand
        /\ acked.lastClientCommandString = sv.lastClientCommandString
        /\ acked.reliableSequence = sv.reliableSequence
        /\ acked.reliableCommands = sv.reliableCommands
    BY SoundParts DEF SvType
  <1> HIDE DEF acked
  <1>3. \A m \in ServerMessages' : m.key = m.ack
    <2>1. CASE UNCHANGED <<toClient, unsent, stacked>>
      <3>1. ServerMessages' = ServerMessages
        BY <2>1 DEF ServerMessages
      <3>2. QED
        BY <3>1 DEF KeyInv
    <2>2. CASE SendNow(acked) \/ Stack(acked)
      BY <1>2, <2>2, SentKeyed
    <2>3. QED
      BY <1>1, <2>1, <2>2
  <1>4. sv' \in SvType
    BY SideTypes DEF Sound, TypeOK, SvType
  <1>5. sv'.lastClientCommandString = sv'.lastClientCommand
    BY <1>1, <1>2 DEF KeyInv
  <1>6. QED
    BY <1>1, <1>2, <1>3, <1>4, <1>5, PacketsKeyed, MovedKeyed

LEMMA ExecuteKeyed ==
  ASSUME Sound, StreamInv, KeyInv, ServerRingNotFull,
         NEW i \in DOMAIN toServer, SV_ExecuteClientMessage(i)
  PROVE  KeyInv'
  <1> DEFINE m == toServer[i]
  <1>1. /\ Active /\ UNCHANGED <<cl, toClient, unsent, stacked>>
        /\ toServer' = SubSeq(toServer, i + 1, Len(toServer))
    BY DEF SV_ExecuteClientMessage, clVars
  <1>2. /\ m.ack \in Nat /\ Clamped(sv, m.ack) = m.ack /\ m.move \in Nat
        /\ \E lo \in 0 .. m.move : m.commands \in [lo + 1 .. m.move -> Nat]
    BY <1>1, InRange, SoundParts DEF ClientMessagesSound
  <1>3. ExecuteCommands(m)
    BY <1>1, <1>2, ServerLegible DEF SV_ExecuteClientMessage
  <1>4. PICK from \in 0 .. sv.lastClientCommand :
          Exactly(m.commands, from, m.move)
    BY DEF StreamInv
  <1>5. sv \in SvType /\ sv.lastClientCommandString = sv.lastClientCommand
    BY SoundParts DEF KeyInv
  <1> HIDE DEF m
  <1>6. /\ sv' \in SvType
        /\ sv'.reliableSequence = sv.reliableSequence
        /\ sv'.reliableCommands = sv.reliableCommands
        /\ status' \in {status, "lost reliable commands"}
    BY <1>2, <1>3, ExecutedSound
  <1> DEFINE fresh == {n \in DOMAIN m.commands : n > sv.lastClientCommand}
             last == Max(fresh)
             acked == [sv EXCEPT !.reliableAcknowledge = m.ack]
  <1>7. /\ acked \in SvType
        /\ acked.lastClientCommand = sv.lastClientCommand
        /\ acked.lastClientCommandString = sv.lastClientCommandString
    BY <1>2, <1>5 DEF SvType
  <1>8. sv'.lastClientCommandString = sv'.lastClientCommand
    <2>1. CASE sv' = acked
      BY <1>5, <1>7, <2>1
    <2>2. CASE /\ fresh # {}
               /\ sv' = [acked EXCEPT !.lastClientCommand = last,
                                      !.lastClientCommandString = m.commands[last]]
      <3>1. /\ sv.lastClientCommand \in Nat /\ from \in Nat
            /\ DOMAIN m.commands = from + 1 .. m.move
            /\ \A n \in from + 1 .. m.move : m.commands[n] = n
        BY <1>4, StreamFacts DEF Exactly
      <3>2. last = m.move /\ m.move \in from + 1 .. m.move
        <4> DEFINE p == sv.lastClientCommand
                   hi == m.move
        <4>1. /\ p \in Nat /\ hi \in Nat /\ from \in Nat
              /\ \A n : n \in fresh <=> n \in from + 1 .. hi /\ n > p
          BY <1>2, <3>1
        <4>2. fresh # {}
          BY <2>2
        <4> HIDE DEF fresh, p, hi
        <4>3. Max(fresh) = hi /\ hi > p
          BY <4>1, <4>2, FreshCommands
        <4>4. hi \in from + 1 .. hi
          <5>1. PICK n \in fresh : TRUE
            BY <4>2
          <5>2. n \in from + 1 .. hi
            BY <4>1, <5>1
          <5>3. QED
            BY <4>1, <5>2
        <4>5. QED
          BY <4>3, <4>4 DEF hi
      <3>3. m.commands[last] = last
        BY <3>1, <3>2
      <3> HIDE DEF acked, last
      <3>4. sv' = [acked EXCEPT !.lastClientCommand = last,
                                !.lastClientCommandString = last]
        BY <2>2, <3>3
      <3>5. QED
        BY <1>7, <3>4 DEF SvType
    <2>3. QED
      BY <1>3, <2>1, <2>2 DEF ExecuteCommands
  <1>9. \A k \in DOMAIN toServer' : toServer'[k].key = toServer'[k].ack
    BY <1>1, PacketsKeyed
  <1>10. ServerMessages' = ServerMessages
    BY <1>1 DEF ServerMessages
  <1>11. status' # "illegible"
    BY <1>6 DEF KeyInv, KeysAgree
  <1>12. QED
    BY <1>1, <1>6, <1>8, <1>9, <1>10, <1>11 DEF KeyInv, KeysAgree

LEMMA SendKeyed ==
  ASSUME Sound, KeyInv, stacked = <<>>, stacked' = <<>>,
         \/ SV_SendMessage \/ SV_StackMessage
         \/ SV_Netchan_TransmitNextFragment
  PROVE  KeyInv'
  <1>1. UNCHANGED <<sv, cl, toServer, status>>
    BY DEF SV_SendMessage, SV_StackMessage, SV_Netchan_TransmitNextFragment,
       svVars, clVars
  <1>2. \A m \in ServerMessages' : m.key = m.ack
    <2>1. CASE SV_SendMessage \/ SV_StackMessage
      <3>1. SendNow(sv) \/ Stack(sv)
        BY <2>1 DEF SV_SendMessage, SV_StackMessage
      <3>2. QED
        BY <3>1, SentKeyed
    <2>2. CASE SV_Netchan_TransmitNextFragment
      <3>1. unsent # <<>> /\ toClient' = toClient \o unsent /\ unsent' = <<>>
        BY <2>2 DEF SV_Netchan_TransmitNextFragment
      <3>2. ServerMessages' \subseteq ServerMessages
        BY <3>1, FinishedElements, EmptyDomain DEF ServerMessages
      <3>3. QED
        BY <3>2 DEF KeyInv
    <2>3. QED
      BY <2>1, <2>2
  <1>3. QED
    BY <1>1, <1>2, SoundParts, MovedKeyed DEF KeyInv

LEMMA ParseKeyed ==
  ASSUME Sound, ClientInv, KeyInv, stacked = <<>>,
         ClientWindow < MAX_RELIABLE_COMMANDS, NEW i \in DOMAIN toClient,
         CL_ParseServerMessage(i)
  PROVE  KeyInv'
  <1> DEFINE m == toClient[i]
  <1>1. /\ UNCHANGED <<sv, toServer, unsent, stacked>>
        /\ toClient' = SubSeq(toClient, i + 1, Len(toClient))
    BY DEF CL_ParseServerMessage, svVars
  <1>2. /\ Legible(cl.reliableCommands, m)
        /\ m.ack \in cl.reliableAcknowledge .. sv.lastClientCommand
    BY ClientLegible
  <1>3. cl' = Stored(m) /\ status' = status
    BY <1>2 DEF CL_ParseServerMessage
  <1>4. /\ cl \in ClType /\ ServerMessageSound(m) /\ sv.reliableSequence \in Nat
        /\ Keeps(cl.serverCommands, cl.serverCommandSequence)
        /\ KeepsEmpty(cl.serverCommands, cl.serverCommandSequence)
    BY SequencesSound, SoundParts DEF Sound, ServerInv, KeyInv
  <1>5. Clamped(cl, m.ack) = m.ack
    <2>1. cl.reliableSequence <= m.ack + MAX_RELIABLE_COMMANDS
      BY OrderIsFresh DEF AcksFresh, ServerMessages
    <2>2. QED
      BY <1>2, <2>1, OrderFacts DEF Clamped
  <1>6. ServerMessages' \subseteq ServerMessages
    <2>1. \A k \in DOMAIN toClient' : \E j \in DOMAIN toClient : toClient'[k] = toClient[j]
      BY <1>1, SequencesSound, SuffixElements
    <2>2. QED
      BY <1>1, <2>1 DEF ServerMessages
  <1>7. cl.reliableSequence <= m.ack + ClientWindow
    BY <1>2, OrderFacts DEF KeyInv
  <1> HIDE DEF m
  <1>8. /\ Stored(m).reliableAcknowledge = m.ack
        /\ Stored(m).reliableSequence = cl.reliableSequence
        /\ Stored(m).reliableCommands = cl.reliableCommands
    BY <1>4, <1>5, StoredSound
  <1>9. KeepsEmpty(Stored(m).serverCommands, Stored(m).serverCommandSequence)
    BY <1>4, KeepsEmptyStored
  <1>10. QED
    BY <1>1, <1>3, <1>6, <1>7, <1>8, <1>9 DEF KeyInv, KeysAgree

LEMMA LoseKeyed ==
  ASSUME Sound, KeyInv, LoseToClient \/ LoseToServer
  PROVE  KeyInv'
  <1>1. UNCHANGED <<sv, cl, status, unsent, stacked>>
    BY DEF LoseToClient, LoseToServer, svVars, clVars
  <1>2. CASE LoseToClient
    <2>1. toServer' = toServer /\ toClient # <<>> /\ toClient' = Tail(toClient)
      BY <1>2 DEF LoseToClient
    <2>2. 1 \in DOMAIN toClient /\ toClient' = SubSeq(toClient, 1 + 1, Len(toClient))
      BY <2>1, SequencesSound, TailIsSuffix
    <2>3. \A k \in DOMAIN toClient' : \E j \in DOMAIN toClient : toClient'[k] = toClient[j]
      BY <2>2, SequencesSound, SuffixElements
    <2>4. ServerMessages' \subseteq ServerMessages
      BY <1>1, <2>3 DEF ServerMessages
    <2>5. QED
      BY <1>1, <2>1, <2>4, SoundParts, MovedKeyed DEF KeyInv
  <1>3. CASE LoseToServer
    <2>1. toClient' = toClient /\ toServer # <<>> /\ toServer' = Tail(toServer)
      BY <1>3 DEF LoseToServer
    <2>2. 1 \in DOMAIN toServer /\ toServer' = SubSeq(toServer, 1 + 1, Len(toServer))
      BY <2>1, SoundParts, TailIsSuffix
    <2>3. \A k \in DOMAIN toServer' : toServer'[k].key = toServer'[k].ack
      BY <2>2, PacketsKeyed
    <2>4. ServerMessages' = ServerMessages
      BY <1>1, <2>1 DEF ServerMessages
    <2>5. QED
      BY <1>1, <2>3, <2>4, SoundParts, MovedKeyed DEF KeyInv
  <1>4. QED
    BY <1>2, <1>3

LEMMA KeyStep ==
  ASSUME ClientWindow < MAX_RELIABLE_COMMANDS, Sound, Sound', ClientInv, KeyInv,
         ServerRingNotFull, stacked = <<>>, stacked' = <<>>, [Next]_vars
  PROVE  KeyInv'
  <1>1. CASE CL_AddReliableCommand \/ SV_AddServerCommand
    BY <1>1, AddKeyed
  <1>2. CASE CL_WritePacket
    BY <1>2, WriteKeyed
  <1>3. CASE \E i \in DOMAIN toServer : SV_ExecuteClientMessage(i)
    BY <1>3, ExecuteKeyed DEF ClientInv
  <1>4. CASE \E i \in DOMAIN toServer : SV_IgnoreOutdatedMessage(i)
    BY <1>4, IgnoreKeyed
  <1>5. CASE SV_SendMessage \/ SV_StackMessage \/ SV_Netchan_TransmitNextFragment
    BY <1>5, SendKeyed
  <1>6. CASE \E i \in DOMAIN toClient : CL_ParseServerMessage(i)
    BY <1>6, ParseKeyed
  <1>7. CASE CL_GetServerCommand
    <2> DEFINE n == cl.lastExecutedServerCommand + 1
    <2>1. /\ UNCHANGED <<sv, toClient, toServer, unsent, stacked>>
          /\ cl' = cl \/ cl' = [cl EXCEPT !.lastExecutedServerCommand = n]
          /\ status' # "illegible"
      BY <1>7 DEF CL_GetServerCommand, Active, svVars, channelVars
    <2> HIDE DEF n
    <2>2. /\ cl'.reliableSequence = cl.reliableSequence
          /\ cl'.reliableCommands = cl.reliableCommands
          /\ cl'.reliableAcknowledge = cl.reliableAcknowledge
          /\ cl'.serverCommands = cl.serverCommands
          /\ cl'.serverCommandSequence = cl.serverCommandSequence
      BY <2>1, SoundParts DEF ClType
    <2>3. ServerMessages' = ServerMessages
      BY <2>1 DEF ServerMessages
    <2>4. QED
      BY <2>1, <2>2, <2>3 DEF KeyInv, KeysAgree
  <1>8. CASE LoseToClient \/ LoseToServer
    BY <1>8, LoseKeyed
  <1>9. CASE UNCHANGED vars
    BY <1>9 DEF vars, svVars, clVars, channelVars, KeyInv, KeysAgree, ServerMessages
  <1>10. QED
    BY <1>1, <1>2, <1>3, <1>4, <1>5, <1>6, <1>7, <1>8, <1>9 DEF Next

LEMMA InitKeyed == Init => KeyInv
  <1> SUFFICES ASSUME Init PROVE KeyInv
    OBVIOUS
  <1>1. DOMAIN <<>> = {}
    BY EmptyDomain
  <1>2. ServerMessages = {}
    BY <1>1 DEF Init, ServerMessages
  <1>3. EmptyRing[0] = 0
    BY DEF EmptyRing
  <1>4. QED
    BY <1>1, <1>2, <1>3 DEF Init, KeyInv, KeysAgree, KeepsEmpty

\* As long as no message is stacked and each side has fewer commands
\* unacknowledged than a ring holds, both sides use the same string to encode
\* and to decode, so no message is illegible (SV_Netchan_Encode,
\* CL_Netchan_Encode).  The run reliable_key shows that stacked messages break
\* it; a full ring does as well: the slot of the command a message acknowledges
\* then holds the newest one.
THEOREM KeysMatch ==
  ASSUME ClientWindow < MAX_RELIABLE_COMMANDS
  PROVE  Spec /\ []NothingStacked /\ []ServerRingNotFull => []KeysAgree
  <1>1. ClientWindow <= MAX_RELIABLE_COMMANDS
    OBVIOUS
  <1>2. Spec /\ []NothingStacked => []IInv
    BY <1>1, NotStackedInductive
  <1>3. IInv /\ IInv' /\ KeyInv /\ ServerRingNotFull /\ NothingStacked
          /\ NothingStacked' /\ [Next]_vars => KeyInv'
    BY KeyStep DEF IInv, Sound, NothingStacked
  <1>4. KeyInv => KeysAgree
    BY DEF KeyInv
  <1>5. QED
    BY <1>2, <1>3, <1>4, InitKeyed, PTL DEF Spec
=============================================================================
