-------------------------- MODULE ReliableCommands --------------------------
(***************************************************************************)
(* The reliable command streams between a server and one client: every     *)
(* message repeats the sender's unacknowledged commands until the other    *)
(* side acknowledges them, out of rings of MAX_RELIABLE_COMMANDS strings   *)
(* that also key the encoding of the messages (sv_net_chan.cpp,            *)
(* cl_net_chan.cpp).                                                       *)
(*                                                                         *)
(* Messages travel on the channel that Netchan implements: in order, each  *)
(* at most once, some lost.  Command number n is modelled as the string n; *)
(* a ring slot or a message holds the number of the string in it, so a     *)
(* string under the wrong number shows.  0 is the empty string.            *)
(***************************************************************************)
EXTENDS Integers, Sequences, FiniteSetsExt

CONSTANTS
  MAX_RELIABLE_COMMANDS,   \* ring size
  ClientWindow,            \* what the client's callers keep unacknowledged
  MaxClientCommands, MaxServerCommands,  \* bounds on commands
  MaxInFlight, MaxStacked  \* bounds on messages in flight and stacked

ASSUME RingAssumption == MAX_RELIABLE_COMMANDS \in Nat \ {0}
ASSUME BoundsAssumption ==
  /\ ClientWindow \in Nat
  /\ MaxClientCommands \in Nat /\ MaxServerCommands \in Nat
  /\ MaxInFlight \in Nat /\ MaxStacked \in Nat

VARIABLES
  sv,         \* the server's client_t
  cl,         \* the client's clc
  toClient, toServer,  \* messages in flight, oldest first
  unsent,     \* a server message with fragments unsent, if there is one
  stacked,    \* netchan_start_queue: messages stacked behind it
  status,     \* "active", or why the connection ended
  executed,   \* history: client command strings executed by the server
  lastMove,   \* history: client's reliableSequence when the last usercmd
              \* executed by the server was made
  got,        \* history: server command strings cgame got
  snapshot    \* of the client's last snapshot: the server's reliableSequence
              \* when it was made, and the serverCommandNum it got

svVars == <<sv, executed, lastMove>>
clVars == <<cl, got, snapshot>>
channelVars == <<toClient, toServer, unsent, stacked>>
vars == <<svVars, clVars, channelVars, status>>

Active == status = "active"

Slot(n) == n % MAX_RELIABLE_COMMANDS
EmptyRing == [s \in 0 .. MAX_RELIABLE_COMMANDS - 1 |-> 0]

\* Mistake: the first unacknowledged command is left out.
UnacknowledgedAfterFirst(side) ==
  [n \in side.reliableAcknowledge + 2 .. side.reliableSequence |->
     side.reliableCommands[Slot(n)]]

\* The unacknowledged commands of a side, each with the string in its slot.
Unacknowledged(side) ==
  [n \in side.reliableAcknowledge + 1 .. side.reliableSequence |->
     side.reliableCommands[Slot(n)]]

Init ==
  /\ sv = [reliableSequence |-> 0, reliableAcknowledge |-> 0,
           reliableCommands |-> EmptyRing,
           lastClientCommand |-> 0, lastClientCommandString |-> 0]
  /\ cl = [reliableSequence |-> 0, reliableAcknowledge |-> 0,
           reliableCommands |-> EmptyRing,
           serverCommandSequence |-> 0, serverCommands |-> EmptyRing,
           lastExecutedServerCommand |-> 0]
  /\ toClient = <<>> /\ toServer = <<>> /\ unsent = <<>> /\ stacked = <<>>
  /\ status = "active"
  /\ executed = <<>> /\ lastMove = 0 /\ got = <<>>
  /\ snapshot = [madeAt |-> 0, serverCommandNum |-> 0]
-----------------------------------------------------------------------------
(* Adding commands.                                                        *)

Added(side) ==
  LET n == side.reliableSequence + 1
  IN  [side EXCEPT !.reliableSequence = n, !.reliableCommands[Slot(n)] = n]

\* The client's callers keep at most ClientWindow commands unacknowledged
\* before they add one; the function's own limit comes on top.
CL_AddReliableCommand ==
  /\ Active
  /\ cl.reliableSequence < MaxClientCommands
  /\ cl.reliableSequence - cl.reliableAcknowledge < ClientWindow
  /\ IF cl.reliableSequence - cl.reliableAcknowledge > MAX_RELIABLE_COMMANDS
     THEN status' = "client overflow" /\ UNCHANGED cl
     ELSE cl' = Added(cl) /\ UNCHANGED status
  /\ UNCHANGED <<svVars, got, snapshot, channelVars>>

\* A command that would be the (MAX_RELIABLE_COMMANDS + 1)-th unacknowledged
\* one is numbered but not stored, and drops the client.  The model ends there:
\* the print and the disconnect that SV_DropClient then adds overwrite commands
\* in the full ring.
SV_AddServerCommand ==
  /\ Active
  /\ sv.reliableSequence < MaxServerCommands
  /\ IF sv.reliableSequence + 1 - sv.reliableAcknowledge
          = MAX_RELIABLE_COMMANDS + 1
     THEN /\ status' = "server overflow"
          /\ sv' = [sv EXCEPT !.reliableSequence = @ + 1]
     ELSE sv' = Added(sv) /\ UNCHANGED status
  /\ UNCHANGED <<clVars, executed, lastMove, channelVars>>
-----------------------------------------------------------------------------
(* Messages to the server.                                                 *)

\* CL_WritePacket and CL_Netchan_Encode.
CL_WritePacket ==
  /\ Active
  /\ Len(toServer) < MaxInFlight
  /\ toServer' = Append(toServer,
       [ack |-> cl.serverCommandSequence,
        key |-> cl.serverCommands[Slot(cl.serverCommandSequence)],
        commands |-> Unacknowledged(cl),
        move |-> cl.reliableSequence])
  /\ UNCHANGED <<svVars, clVars, toClient, unsent, stacked, status>>

\* The ring slot of the acknowledged command keys the encoding.
Legible(ring, m) == m.key = ring[Slot(m.ack)]

\* Mistake: every acknowledgement that is behind counts as out of range.
ClampedBehind(side, ack) ==
  IF ack < side.reliableSequence THEN side.reliableSequence ELSE ack

\* An acknowledgement that is out of range acknowledges everything.
Clamped(side, ack) ==
  IF ack < side.reliableSequence - MAX_RELIABLE_COMMANDS
  THEN side.reliableSequence ELSE ack

\* Mistakes: commands executed before are executed again; one command per
\* message is executed, and then the usercmds all the same.
ExecuteCommandsAgain(m) ==
  LET last == IF m.commands = <<>> THEN sv.lastClientCommand
              ELSE Max(DOMAIN m.commands)
  IN  /\ sv' = [sv EXCEPT !.reliableAcknowledge = m.ack,
                          !.lastClientCommand = last,
                          !.lastClientCommandString =
                             IF m.commands = <<>> THEN @ ELSE m.commands[last]]
      /\ executed' = executed \o
           [k \in 1 .. Cardinality(DOMAIN m.commands) |->
              m.commands[Min(DOMAIN m.commands) + k - 1]]
      /\ lastMove' = m.move
      /\ UNCHANGED status

ExecuteOneCommand(m) ==
  LET next == sv.lastClientCommand + 1
      acked == [sv EXCEPT !.reliableAcknowledge = m.ack]
  IN  /\ IF next \in DOMAIN m.commands
         THEN /\ sv' = [acked EXCEPT
                          !.lastClientCommand = next,
                          !.lastClientCommandString = m.commands[next]]
              /\ executed' = Append(executed, m.commands[next])
         ELSE sv' = acked /\ UNCHANGED executed
      /\ lastMove' = m.move
      /\ UNCHANGED status

\* SV_ClientCommand for each command of the message, then SV_UserMove.
ExecuteCommands(m) ==
  LET fresh == {n \in DOMAIN m.commands : n > sv.lastClientCommand}
      last == Max(fresh)
      acked == [sv EXCEPT !.reliableAcknowledge = m.ack]
  IN  \/ /\ fresh = {}
         /\ sv' = acked /\ lastMove' = m.move
         /\ UNCHANGED <<executed, status>>
      \/ /\ fresh # {} /\ Min(fresh) > sv.lastClientCommand + 1
         /\ status' = "lost reliable commands"
         /\ sv' = acked
         /\ UNCHANGED <<executed, lastMove>>
      \/ /\ fresh # {} /\ Min(fresh) = sv.lastClientCommand + 1
         /\ sv' = [acked EXCEPT !.lastClientCommand = last,
                                !.lastClientCommandString = m.commands[last]]
         /\ executed' = executed \o
              [k \in 1 .. Cardinality(fresh) |->
                 m.commands[sv.lastClientCommand + k]]
         /\ lastMove' = m.move
         /\ UNCHANGED status

\* SV_Netchan_Decode and SV_ExecuteClientMessage; messages before the i-th
\* are lost.
SV_ExecuteClientMessage(i) ==
  LET m == toServer[i]
  IN  /\ Active
      /\ toServer' = SubSeq(toServer, i + 1, Len(toServer))
      /\ IF ~Legible(sv.reliableCommands, m)
         THEN status' = "illegible" /\ UNCHANGED svVars
         ELSE IF Clamped(sv, m.ack) # m.ack
         THEN /\ sv' = [sv EXCEPT !.reliableAcknowledge = sv.reliableSequence]
              /\ UNCHANGED <<executed, lastMove, status>>
         ELSE ExecuteCommands(m)
      /\ UNCHANGED <<clVars, toClient, unsent, stacked>>

-----------------------------------------------------------------------------
(* Messages to the client.                                                 *)

\* Mistakes: the command in execution is acknowledged as one too few; the
\* newest command is left for the next message.
SV_WriteMessageAckBefore(s) ==
  [ack |-> s.lastClientCommand - 1, commands |-> Unacknowledged(s),
   madeAt |-> s.reliableSequence]

SV_WriteMessageButNewest(s) ==
  [ack |-> s.lastClientCommand,
   commands |-> [n \in DOMAIN Unacknowledged(s) \ {s.reliableSequence} |->
                   Unacknowledged(s)[n]],
   madeAt |-> s.reliableSequence]

\* A message of a server in state s.
SV_WriteMessage(s) ==
  [ack |-> s.lastClientCommand, commands |-> Unacknowledged(s),
   madeAt |-> s.reliableSequence]

\* SV_Netchan_Encode, at the time of transmission.
SV_Netchan_Encode(m) ==
  [ack |-> m.ack, commands |-> m.commands, madeAt |-> m.madeAt,
   key |-> sv.lastClientCommandString]

\* Netchan_Transmit: a small message is in flight, a large one begun.
Netchan_Transmit(m, inFlight) ==
  \/ toClient' = Append(inFlight, m) /\ unsent' = <<>>
  \/ toClient' = inFlight /\ unsent' = <<m>>

\* SV_Netchan_Transmit with nothing unsent.
SendNow(s) ==
  /\ unsent = <<>>
  /\ Len(toClient) < MaxInFlight
  /\ Netchan_Transmit(SV_Netchan_Encode(SV_WriteMessage(s)), toClient)
  /\ UNCHANGED stacked

\* The same with fragments unsent: the message is stacked, as it is, and one
\* fragment of the unsent message goes out, perhaps the last one.
Stack(s) ==
  /\ unsent # <<>>
  /\ Len(stacked) < MaxStacked
  /\ Len(toClient) < MaxInFlight
  /\ stacked' = Append(stacked, SV_WriteMessage(s))
  /\ \/ UNCHANGED <<toClient, unsent>>
     \/ toClient' = toClient \o unsent /\ unsent' = <<>>

\* SV_SendClientSnapshot or SV_SendClientGameState.
SV_SendMessage ==
  /\ Active
  /\ SendNow(sv)
  /\ UNCHANGED <<svVars, clVars, toServer, status>>

SV_StackMessage ==
  /\ Active
  /\ Stack(sv)
  /\ UNCHANGED <<svVars, clVars, toServer, status>>

\* A client message written before the client learnt of the current map: only
\* its acknowledgement, which is not encoded, counts, and the gamestate may be
\* sent again at once.
SV_IgnoreOutdatedMessage(i) ==
  LET m == toServer[i]
      acked == [sv EXCEPT !.reliableAcknowledge = Clamped(sv, m.ack)]
  IN  /\ Active
      /\ toServer' = SubSeq(toServer, i + 1, Len(toServer))
      /\ sv' = acked
      /\ \/ UNCHANGED <<toClient, unsent, stacked>>
         \/ Clamped(sv, m.ack) = m.ack /\ (SendNow(acked) \/ Stack(acked))
      /\ UNCHANGED <<executed, lastMove, status, clVars>>

\* The last fragment of the unsent message goes out, and the oldest stacked
\* message is encoded and transmitted.
SV_Netchan_TransmitNextFragment ==
  /\ Active
  /\ unsent # <<>>
  /\ Len(toClient) + 1 < MaxInFlight
  /\ IF stacked = <<>>
     THEN toClient' = toClient \o unsent /\ unsent' = <<>> /\ UNCHANGED stacked
     ELSE /\ Netchan_Transmit(SV_Netchan_Encode(Head(stacked)),
                              toClient \o unsent)
          /\ stacked' = Tail(stacked)
  /\ UNCHANGED <<svVars, clVars, toServer, status>>

\* Mistake: a command that is repeated counts as a new one.
StoredTwice(m) ==
  LET In(s) == {n \in DOMAIN m.commands : Slot(n) = s}
  IN  [cl EXCEPT
        !.reliableAcknowledge = Clamped(cl, m.ack),
        !.serverCommandSequence = @ + Cardinality(DOMAIN m.commands),
        !.serverCommands = [s \in DOMAIN @ |->
           IF In(s) = {} THEN @[s] ELSE m.commands[Max(In(s))]]]

\* CL_ParseCommandString for every command of the message.
Stored(m) ==
  LET fresh == {n \in DOMAIN m.commands : n > cl.serverCommandSequence}
      In(s) == {n \in fresh : Slot(n) = s}
  IN  [cl EXCEPT
        !.reliableAcknowledge = Clamped(cl, m.ack),
        !.serverCommandSequence = IF fresh = {} THEN @ ELSE Max(fresh),
        !.serverCommands = [s \in DOMAIN @ |->
           IF In(s) = {} THEN @[s] ELSE m.commands[Max(In(s))]]]

\* CL_Netchan_Decode, CL_ParseServerMessage and CL_ParseSnapshot.
CL_ParseServerMessage(i) ==
  LET m == toClient[i]
  IN  /\ Active
      /\ toClient' = SubSeq(toClient, i + 1, Len(toClient))
      /\ IF ~Legible(cl.reliableCommands, m)
         THEN status' = "illegible" /\ UNCHANGED <<cl, snapshot>>
         ELSE /\ cl' = Stored(m)
              /\ snapshot' = [madeAt |-> m.madeAt,
                              serverCommandNum |-> cl'.serverCommandSequence]
              /\ UNCHANGED status
      /\ UNCHANGED <<svVars, got, toServer, unsent, stacked>>

\* Mistake: the limit of what is cycled out is one too low.
CL_GetServerCommandTooOld ==
  LET n == cl.lastExecutedServerCommand + 1
  IN  /\ Active
      /\ n <= snapshot.serverCommandNum
      /\ IF n < cl.serverCommandSequence - MAX_RELIABLE_COMMANDS
         THEN status' = "cycled out" /\ UNCHANGED <<cl, got>>
         ELSE /\ cl' = [cl EXCEPT !.lastExecutedServerCommand = n]
              /\ got' = Append(got, cl.serverCommands[Slot(n)])
              /\ UNCHANGED status
      /\ UNCHANGED <<svVars, snapshot, channelVars>>

\* The cgame asks for the next command of the snapshot it moves to.
CL_GetServerCommand ==
  LET n == cl.lastExecutedServerCommand + 1
  IN  /\ Active
      /\ n <= snapshot.serverCommandNum
      /\ IF n <= cl.serverCommandSequence - MAX_RELIABLE_COMMANDS
         THEN status' = "cycled out" /\ UNCHANGED <<cl, got>>
         ELSE /\ cl' = [cl EXCEPT !.lastExecutedServerCommand = n]
              /\ got' = Append(got, cl.serverCommands[Slot(n)])
              /\ UNCHANGED status
      /\ UNCHANGED <<svVars, snapshot, channelVars>>

\* The network loses the oldest message in flight.
LoseToClient ==
  /\ Active
  /\ toClient # <<>> /\ toClient' = Tail(toClient)
  /\ UNCHANGED <<svVars, clVars, toServer, unsent, stacked, status>>

LoseToServer ==
  /\ Active
  /\ toServer # <<>> /\ toServer' = Tail(toServer)
  /\ UNCHANGED <<svVars, clVars, toClient, unsent, stacked, status>>
-----------------------------------------------------------------------------
Next ==
  \/ CL_AddReliableCommand
  \/ SV_AddServerCommand
  \/ CL_WritePacket
  \/ \E i \in DOMAIN toServer :
       SV_ExecuteClientMessage(i) \/ SV_IgnoreOutdatedMessage(i)
  \/ SV_SendMessage
  \/ SV_StackMessage
  \/ SV_Netchan_TransmitNextFragment
  \/ \E i \in DOMAIN toClient : CL_ParseServerMessage(i)
  \/ CL_GetServerCommand
  \/ LoseToClient
  \/ LoseToServer

Spec == Init /\ [][Next]_vars

\* Both sides write a packet every so often, whatever happens (CL_SendCmd,
\* SV_SendClientMessages), and of infinitely many messages in flight some
\* arrive, at a server whose map the client has learnt of.
Fairness ==
  /\ WF_vars(CL_WritePacket)
  /\ WF_vars(SV_SendMessage)
  /\ WF_vars(SV_Netchan_TransmitNextFragment)
  /\ SF_vars(\E i \in DOMAIN toServer : SV_ExecuteClientMessage(i))
  /\ SF_vars(\E i \in DOMAIN toClient : CL_ParseServerMessage(i))

FairSpec == Spec /\ Fairness
-----------------------------------------------------------------------------
Ring == [0 .. MAX_RELIABLE_COMMANDS - 1 -> Nat]

IsSequence(s) == s \in Seq({s[i] : i \in DOMAIN s})

TypeOK ==
  /\ sv \in [reliableSequence : 0 .. MaxServerCommands,
             reliableAcknowledge : Nat, reliableCommands : Ring,
             lastClientCommand : Nat, lastClientCommandString : Nat]
  /\ cl \in [reliableSequence : 0 .. MaxClientCommands,
             reliableAcknowledge : Nat, reliableCommands : Ring,
             serverCommandSequence : Nat, serverCommands : Ring,
             lastExecutedServerCommand : Nat]
  /\ IsSequence(toClient) /\ Len(toClient) <= MaxInFlight
  /\ IsSequence(toServer) /\ Len(toServer) <= MaxInFlight
  /\ IsSequence(unsent) /\ Len(unsent) <= 1
  /\ IsSequence(stacked) /\ Len(stacked) <= MaxStacked
  /\ status \in {"active", "client overflow", "server overflow",
                 "lost reliable commands", "illegible", "cycled out"}
  /\ executed \in Seq(Nat) /\ lastMove \in Nat /\ got \in Seq(Nat)
  /\ snapshot \in [madeAt : Nat, serverCommandNum : Nat]

\* The server executes the client's commands in the order they were added,
\* each once, each with its own string, none left out.
ExecutedInOrder ==
  /\ Len(executed) = sv.lastClientCommand
  /\ \A k \in DOMAIN executed : executed[k] = k

\* A side takes as acknowledged only what the other side has.
AcknowledgementsSound ==
  /\ sv.reliableAcknowledge <= cl.serverCommandSequence
  /\ cl.reliableAcknowledge <= sv.lastClientCommand

\* No message ever makes the server see a gap in the client's commands.
NeverLost == status # "lost reliable commands"

\* "gauranteed to not have future usercmd_t executed before it is executed"
\* (code/client/cl_main.cpp:134).
MovesAfterCommands == lastMove <= Len(executed)

\* "guaranteed to not have future snapshot_t executed before it is executed"
\* (code/server/sv_main.cpp:125): when cgame moves to a snapshot it has all
\* the commands that were added before the snapshot was made.
SnapshotsAfterCommands == snapshot.madeAt <= snapshot.serverCommandNum

\* cgame gets every command under its own number until the connection ends.
GameGetsEveryCommand ==
  /\ Len(got) = cl.lastExecutedServerCommand
  /\ \A k \in DOMAIN got : got[k] = k

\* The streams of both directions, as what their readers see.
ServerStream == INSTANCE CommandStream
  WITH added <- sv.reliableSequence, executed <- got
ClientStream == INSTANCE CommandStream
  WITH added <- cl.reliableSequence, executed <- executed

\* Every step adds a command, executes the next ones, each with its own string
\* (SV_ClientCommand, CL_GetServerCommand), or leaves the streams alone.
ImplementsStreams == ServerStream!Spec /\ ClientStream!Spec

\* Every command added on either side gets to the other one, if the
\* connection lasts.
CommandsDelivered ==
  /\ \A n \in 1 .. MaxClientCommands :
       cl.reliableSequence >= n ~>
         sv.lastClientCommand >= n \/ status # "active"
  /\ \A n \in 1 .. MaxServerCommands :
       sv.reliableSequence >= n ~>
         cl.serverCommandSequence >= n \/ status # "active"

\* "if we would be losing an old command that hasn't been acknowledged, we
\* must drop the connection" (code/client/cl_main.cpp:142): a connection that
\* lasts has every unacknowledged client command in its slot.
ClientCommandsKept ==
  Active => \A n \in DOMAIN Unacknowledged(cl) : Unacknowledged(cl)[n] = n

\* "modify the key with the last received and with this message acknowledged
\* client command" (code/server/sv_net_chan.cpp:64): both sides use the same
\* string, so no message is illegible.
KeysAgree == status # "illegible"
-----------------------------------------------------------------------------
(* The inductive invariant.                                                *)

\* The last commands up to number seq are in their slots of a ring.
Keeps(ring, seq) ==
  \A n \in 1 .. seq : n > seq - MAX_RELIABLE_COMMANDS => ring[Slot(n)] = n

\* The commands lo + 1 .. hi of a message, each with its own string.
Exactly(commands, lo, hi) ==
  lo <= hi /\ commands = [n \in lo + 1 .. hi |-> n]

\* A message of the server repeats, up to the time it was made, what the client
\* may not have got yet, and never more than a ring holds.
ServerMessageSound(m) ==
  /\ m.ack \in Nat /\ m.madeAt \in 0 .. sv.reliableSequence
  /\ \E lo \in 0 .. cl.serverCommandSequence :
       /\ Exactly(m.commands, lo, m.madeAt)
       /\ m.madeAt <= lo + MAX_RELIABLE_COMMANDS

ServerMessagesSound ==
  /\ \A i \in DOMAIN toClient : ServerMessageSound(toClient[i])
  /\ \A i \in DOMAIN unsent : ServerMessageSound(unsent[i])
  /\ \A i \in DOMAIN stacked : ServerMessageSound(stacked[i])

\* The client acknowledges what it has; it never takes an acknowledgement back.
ClientMessagesSound ==
  \A i \in DOMAIN toServer :
    /\ toServer[i].move \in Nat
    /\ toServer[i].ack \in sv.reliableAcknowledge .. cl.serverCommandSequence
    /\ \A j \in DOMAIN toServer : i <= j => toServer[i].ack <= toServer[j].ack
    /\ \E lo \in 0 .. toServer[i].move :
         toServer[i].commands \in [lo + 1 .. toServer[i].move -> Nat]

\* The server's commands: what it takes as acknowledged the client has, what
\* it does not is in its ring.  This half does not depend on the order in
\* which its messages arrive.
ServerInv ==
  /\ sv.reliableAcknowledge <= cl.serverCommandSequence
  /\ cl.serverCommandSequence <= sv.reliableSequence
  /\ Active =>
       /\ sv.reliableSequence <= sv.reliableAcknowledge + MAX_RELIABLE_COMMANDS
       /\ Keeps(sv.reliableCommands, sv.reliableSequence)
  /\ Keeps(cl.serverCommands, cl.serverCommandSequence)
  /\ snapshot.madeAt <= snapshot.serverCommandNum
  /\ snapshot.serverCommandNum <= cl.serverCommandSequence
  /\ GameGetsEveryCommand
  /\ ServerMessagesSound /\ ClientMessagesSound
  /\ Len(executed) = sv.lastClientCommand

\* The messages of the server that the client may still get.
ServerMessages ==
  {toClient[i] : i \in DOMAIN toClient} \cup {unsent[i] : i \in DOMAIN unsent}
    \cup {stacked[i] : i \in DOMAIN stacked}

\* They acknowledge commands that were executed.
AcksKnown == \A m \in ServerMessages : m.ack <= sv.lastClientCommand

\* None of them acknowledges a command a ring or more behind the client's last
\* one.  A message that is stacked for as long as the client adds commands may.
AcksFresh ==
  \A m \in ServerMessages : cl.reliableSequence <= m.ack + MAX_RELIABLE_COMMANDS

\* The client's commands, when the client's callers respect the ring and no
\* acknowledgement is as old as that, in whatever order the messages of the
\* server arrive: no packet comes too late for the commands it starts with, so
\* the server never sees a gap.
StreamInv ==
  /\ cl.reliableAcknowledge <= sv.lastClientCommand
  /\ sv.lastClientCommand <= cl.reliableSequence
  /\ cl.reliableSequence <= cl.reliableAcknowledge + MAX_RELIABLE_COMMANDS
  /\ Keeps(cl.reliableCommands, cl.reliableSequence)
  /\ AcksKnown
  /\ \A i \in DOMAIN toServer :
       /\ toServer[i].move <= cl.reliableSequence
       /\ \E lo \in 0 .. sv.lastClientCommand :
            Exactly(toServer[i].commands, lo, toServer[i].move)
  /\ \A k \in DOMAIN executed : executed[k] = k
  /\ lastMove <= Len(executed)
  /\ status # "lost reliable commands"

\* Acknowledgements of messages from the oldest to the newest.
AcksInOrder(messages, lo, hi) ==
  \A i \in DOMAIN messages :
    /\ messages[i].ack \in lo .. hi
    /\ \A j \in DOMAIN messages : i <= j => messages[i].ack <= messages[j].ack

\* When no message of the server is stacked, hence none overtaken, no
\* acknowledgement is older than the last one the client got.
ClientInv ==
  /\ StreamInv
  /\ AcksInOrder(toClient \o unsent, cl.reliableAcknowledge, sv.lastClientCommand)

IInv == TypeOK /\ ServerInv /\ ClientInv
=============================================================================
