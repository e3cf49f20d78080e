----------------------------- MODULE Connection -----------------------------
(***************************************************************************)
(* The life of a connection: the handshake, the gamestate, map changes and *)
(* restarts, drops and timeouts, as one slot of the server (client_t,      *)
(* code/server/sv_client.cpp, sv_main.cpp, sv_init.cpp, sv_ccmds.cpp) and  *)
(* one client (clc, cl and cls, code/client/cl_main.cpp, cl_parse.cpp,     *)
(* cl_cgame.cpp) see it.                                                   *)
(*                                                                         *)
(* The network loses packets but keeps their order; for those of the net   *)
(* channel that is the promise of Netchan.  Reliable commands are carried  *)
(* by every message until they are acknowledged, and executed once         *)
(* (ReliableCommands); three of them matter here: disconnect, the          *)
(* configstring with the server id, and cp, by which a client of a pure    *)
(* server reports the checksums of its files, which are right.             *)
(* sv.serverId is the time of the frame that sets it; here it counts up.   *)
(* A map is named by the server id it was started with, which is           *)
(* sv.restartedServerId.  Message numbers are compared with that of the    *)
(* last gamestate only: a flag of the message holds the outcome.           *)
(***************************************************************************)
EXTENDS Integers, SequencesExt

CONSTANTS
  MaxServerId,   \* bound on map changes and restarts
  MaxConnects,   \* bound on the connections the user opens
  MaxInFlight    \* bound on the packets in flight each way

ASSUME BoundsAssumption ==
  MaxServerId \in Nat \ {0} /\ MaxConnects \in Nat /\ MaxInFlight \in Nat \ {0}

VARIABLES
  sv,        \* serverId and restartedServerId of server_t, and sv_pure
  server,    \* the client_t
  client,    \* clc, cl and cls
  up, down,  \* packets in flight to the server and to the client
  early      \* a restart met the client before it had the map (history)

vars == <<sv, server, client, up, down, early>>

NoId == 0

\* The network holds some packets, and loses the oldest to a new one.
InFlight(net, packet) ==
  IF Len(net) < MaxInFlight THEN Append(net, packet)
                            ELSE Append(Tail(net), packet)

Rest(net, k) == SubSeq(net, k + 1, Len(net))

\* An out of band packet.
OutOfBand(type) == [type |-> type]
OutOfBandTypes == {"getchallenge", "challengeResponse", "connect",
                   "connectResponse", "disconnect"}

Connected == client.state \in {"CA_CONNECTED", "CA_PRIMED", "CA_ACTIVE"}
-----------------------------------------------------------------------------
(* What the server sends.                                                  *)

\* A new gamestate message number: nothing in flight comes after it.
NotAfter(net) ==
  [i \in DOMAIN net |-> IF "after" \in DOMAIN net[i]
                        THEN [net[i] EXCEPT !.after = FALSE] ELSE net[i]]

GameState ==
  [type |-> "gamestate", after |-> FALSE, id |-> sv.serverId,
   map |-> sv.restartedServerId, cs |-> server.cs, drop |-> server.drop]

\* Mistake: gamestateMessageNum is not set.
SV_SendClientGameStateUnnumbered(s, rest) ==
  /\ server' = [s EXCEPT !.state = "CS_PRIMED", !.gotCP = FALSE]
  /\ down' = InFlight(down, GameState)
  /\ up' = rest
  /\ UNCHANGED client

\* rest is still on its way to the server, and to be compared with the new
\* gamestate when it arrives.
SV_SendClientGameState(s, rest) ==
  /\ server' = [s EXCEPT !.state = "CS_PRIMED", !.gotCP = FALSE]
  /\ down' = InFlight(NotAfter(down), GameState)
  /\ up' = NotAfter(rest)
  /\ client' = [client EXCEPT !.after = FALSE]

\* SV_SendClientMessages and SV_SendClientSnapshot: zombies get messages too.
SV_SendClientSnapshot ==
  /\ server.state # "CS_FREE"
  /\ down' = InFlight(down,
               [type |-> "snapshot", after |-> TRUE, cs |-> server.cs,
                active |-> server.state = "CS_ACTIVE", drop |-> server.drop])
  /\ UNCHANGED <<sv, server, client, up, early>>
-----------------------------------------------------------------------------
(* What the server receives.                                               *)

Free == [state |-> "CS_FREE", drop |-> FALSE, cs |-> NoId,
         gotCP |-> FALSE, cpNum |-> 0]

InUse == server.state \in {"CS_CONNECTED", "CS_PRIMED", "CS_ACTIVE"}

\* Mistake: the disconnect command is not added.
DroppedSilently(s) == [s EXCEPT !.state = "CS_ZOMBIE"]

\* SV_DropClient
Dropped(s) == [s EXCEPT !.state = "CS_ZOMBIE", !.drop = TRUE]

SV_GetChallenge(rest) ==
  /\ down' = InFlight(down, OutOfBand("challengeResponse"))
  /\ up' = rest
  /\ UNCHANGED <<server, client, early>>

\* A connect wipes the client_t, whatever its state; the game may deny it.
\* Packets are younger than the reconnect limit: a second one of the same
\* attempt is rejected as too soon.
SV_DirectConnect(rest, denied) ==
  /\ up' = rest
  /\ IF client.state # "CA_CHALLENGING"
     THEN UNCHANGED <<server, down, early>>
     ELSE /\ server' =
               IF denied THEN Free
               ELSE [Free EXCEPT !.state = "CS_CONNECTED"]
          /\ down' = IF denied THEN down
                     ELSE InFlight(down, OutOfBand("connectResponse"))
          /\ early' = FALSE
  /\ UNCHANGED client

Ignored(rest) ==
  /\ up' = rest
  /\ UNCHANGED <<server, client, down>>

\* A pure server ignores the moves of a client that has not been verified yet,
\* and sends the gamestate again if it is in the game already.
SV_UserMove(s, rest) ==
  IF sv.pure /\ ~s.gotCP
  THEN IF s.state = "CS_ACTIVE" THEN SV_SendClientGameState(s, rest)
       ELSE server' = s /\ up' = rest /\ UNCHANGED <<client, down>>
  ELSE /\ server' = [s EXCEPT !.state = IF @ = "CS_PRIMED" THEN "CS_ACTIVE"
                                                           ELSE @]
       /\ up' = rest
       /\ UNCHANGED <<client, down>>

\* SV_VerifyPaks_f, of the last cp among the client's commands, if it was not
\* executed before: one that was sent for an earlier map is ignored.
SV_VerifyPaks(msg) ==
  [server EXCEPT
     !.cpNum = msg.cpNum,
     !.gotCP = @ \/ (msg.cpNum # server.cpNum /\ msg.cp >= sv.restartedServerId)]

\* Commands, of which disconnect and cp matter, and moves: a client that has
\* the server id has the cgame, which makes a usercmd for every packet.
ExecuteRest(msg, rest) ==
  IF msg.quit
  THEN /\ server' = Dropped(SV_VerifyPaks(msg))
       /\ up' = rest
       /\ UNCHANGED <<client, down>>
  ELSE SV_UserMove(SV_VerifyPaks(msg), rest)

\* Mistake: no return for a message from before the gamestate.
SV_ExecuteClientMessageNoReturn(msg, rest) ==
  IF msg.id # sv.serverId /\ msg.after THEN SV_SendClientGameState(server, rest)
  ELSE ExecuteRest(msg, rest)

\* A message with another server id is ignored, or answered with a gamestate
\* when the last one was dropped; its commands are not executed either.
SV_ExecuteClientMessage(msg, rest) ==
  IF msg.id = sv.serverId THEN ExecuteRest(msg, rest)
  ELSE IF msg.id >= sv.restartedServerId /\ msg.id < sv.serverId THEN Ignored(rest)
  ELSE IF msg.after THEN SV_SendClientGameState(server, rest)
  ELSE Ignored(rest)

\* A packet of the net channel: nobody's is answered with a disconnect,
\* a zombie's is not executed.
SV_SequencedPacket(msg, rest) ==
  /\ UNCHANGED early
  /\ IF InUse THEN SV_ExecuteClientMessage(msg, rest)
     ELSE /\ up' = rest
          /\ down' = IF server.state = "CS_ZOMBIE" THEN down
                     ELSE InFlight(down, OutOfBand("disconnect"))
          /\ UNCHANGED <<server, client>>

\* The k-th packet in flight arrives; those before it are lost.
SV_PacketEvent(k, denied) ==
  LET msg  == up[k]
      rest == Rest(up, k)
  IN  /\ UNCHANGED sv
      /\ \/ msg.type = "getchallenge" /\ SV_GetChallenge(rest)
         \/ msg.type = "connect" /\ SV_DirectConnect(rest, denied)
         \/ msg.type = "packet" /\ SV_SequencedPacket(msg, rest)
-----------------------------------------------------------------------------
(* What the server does by itself.                                         *)

\* A zombie is freed after a while.  A client from which no packet has come
\* for sv_timeout, which may happen to any, is dropped and freed at once: the
\* disconnect command is never sent.
SV_CheckTimeouts ==
  /\ server.state = "CS_ZOMBIE" \/ InUse
  /\ server' = Free
  /\ UNCHANGED <<sv, client, up, down, early>>

\* SV_DropClient for a reason that is not modelled: a kick by the operator or
\* the game, an overflow, a broken download.
SV_Kick ==
  /\ InUse
  /\ server' = Dropped(server)
  /\ UNCHANGED <<sv, client, up, down, early>>

\* Mistake: restartedServerId is not set.
SV_SpawnServerKeepsRestarted(denied) ==
  /\ sv.serverId < MaxServerId
  /\ sv' = [sv EXCEPT !.serverId = @ + 1]
  /\ server' = IF ~InUse THEN server
               ELSE IF denied THEN Dropped(server)
               ELSE [server EXCEPT !.state = "CS_CONNECTED"]
  /\ early' = FALSE
  /\ UNCHANGED <<client, up, down>>

\* A new map: the game connects the client again, or denies it, and the
\* gamestate waits for its next packet.
SV_SpawnServer(denied) ==
  /\ sv.serverId < MaxServerId
  /\ sv' = [sv EXCEPT !.serverId = @ + 1, !.restartedServerId = sv.serverId + 1]
  /\ server' = IF ~InUse THEN server
               ELSE IF denied THEN Dropped(server)
               ELSE [server EXCEPT !.state = "CS_CONNECTED"]
  /\ early' = FALSE
  /\ UNCHANGED <<client, up, down>>

\* The same map anew: every client is put into the game at once, and told of
\* the server id with a configstring command.  A restart that is put off does
\* nothing here yet, and one that needs the map spawned again, as sv_maxclients
\* or g_gametype has changed, is SV_SpawnServer.
SV_MapRestart_f(denied) ==
  /\ sv.serverId < MaxServerId
  /\ sv' = [sv EXCEPT !.serverId = @ + 1]
  /\ server' = IF ~InUse THEN server
               ELSE IF denied THEN Dropped(server)
               ELSE [server EXCEPT !.state = "CS_ACTIVE",
                                   !.cs = sv.serverId + 1]
  /\ early' = (early \/ (InUse /\ ~denied
                         /\ client.map # sv.restartedServerId))
  /\ UNCHANGED <<client, up, down>>
-----------------------------------------------------------------------------
(* The client.                                                             *)

\* Mistake: clc is not wiped, and commands of the connection that ends remain.
WipedKeepsCommands(c) ==
  [c EXCEPT !.state = "CA_DISCONNECTED", !.id = NoId, !.map = NoId,
            !.after = TRUE, !.snap = "none", !.executed = NoId,
            !.drop = FALSE, !.cp = NoId, !.cpNum = 0]

\* clc and cl wiped.  cs and executed are the last configstring command
\* received and executed, cp and cpNum the last cp sent and its number; drop tells that a disconnect command was received.
Wiped(c) ==
  [c EXCEPT !.state = "CA_DISCONNECTED", !.id = NoId, !.map = NoId,
            !.after = TRUE, !.snap = "none", !.cs = NoId,
            !.executed = NoId, !.drop = FALSE, !.cp = NoId, !.cpNum = 0]

Packet(c, quit) ==
  [type |-> "packet", id |-> c.id, after |-> c.after, quit |-> quit,
   cp |-> c.cp, cpNum |-> c.cpNum]

\* CL_Disconnect tells the server, and leaves without an answer: the user
\* has had enough, or CL_CheckTimeout has heard nothing for cl_timeout.
DisconnectPackets == IF Connected THEN InFlight(up, Packet(client, TRUE)) ELSE up

CL_Disconnect ==
  /\ client.state # "CA_DISCONNECTED"
  /\ client' = Wiped(client)
  /\ up' = DisconnectPackets
  /\ UNCHANGED <<sv, server, down, early>>

CL_Connect_f ==
  /\ client.connects < MaxConnects
  /\ client' = [Wiped(client) EXCEPT !.state = "CA_CONNECTING",
                                     !.connects = @ + 1]
  /\ up' = DisconnectPackets
  /\ UNCHANGED <<sv, server, down, early>>

CL_CheckForResend ==
  /\ client.state \in {"CA_CONNECTING", "CA_CHALLENGING"}
  /\ up' = InFlight(up, OutOfBand(IF client.state = "CA_CONNECTING"
                                  THEN "getchallenge" ELSE "connect"))
  /\ UNCHANGED <<sv, server, client, down, early>>

CL_WritePacket ==
  /\ Connected
  /\ up' = InFlight(up, Packet(client, FALSE))
  /\ UNCHANGED <<sv, server, client, down, early>>

\* CL_ParseCommandString: commands are saved for the cgame.
Commands(c, msg) ==
  [c EXCEPT !.after = msg.after, !.drop = @ \/ msg.drop,
            !.cs = IF msg.cs > @ THEN msg.cs ELSE @]

\* CL_SendPureChecksums.  A server that is not pure ignores the command, which
\* is then left out.
CL_SendPureChecksums(c) ==
  IF sv.pure THEN [c EXCEPT !.cp = c.id, !.cpNum = @ + 1]
             ELSE c

\* CL_ParseGamestate with the load of the cgame, and nothing to download.
CL_ParseGamestate(c, msg) == CL_SendPureChecksums(
  [Commands(c, msg) EXCEPT !.state = "CA_PRIMED", !.id = msg.id,
                           !.map = msg.map, !.snap = "none"])

CL_ParseSnapshot(c, msg) ==
  [Commands(c, msg) EXCEPT !.snap = IF msg.active THEN "active" ELSE "not active"]

\* CL_ConnectionlessPacket.  A disconnect is ignored: CL_DisconnectPacket does
\* so when a packet came within three seconds, and CL_PacketEvent has noted
\* the time of this one.
CL_ConnectionlessPacket(c, type) ==
  IF type = "challengeResponse" /\ c.state = "CA_CONNECTING"
  THEN [c EXCEPT !.state = "CA_CHALLENGING"]
  ELSE IF type = "connectResponse" /\ c.state = "CA_CHALLENGING"
  THEN [c EXCEPT !.state = "CA_CONNECTED"]
  ELSE c

CL_PacketEvent(k) ==
  LET msg == down[k]
  IN  /\ client' =
           IF msg.type \in OutOfBandTypes
           THEN CL_ConnectionlessPacket(client, msg.type)
           ELSE IF ~Connected THEN client
           ELSE IF msg.type = "gamestate" THEN CL_ParseGamestate(client, msg)
           ELSE CL_ParseSnapshot(client, msg)
      /\ down' = Rest(down, k)
      /\ early' = (early /\ client'.map # sv.restartedServerId)
      /\ UNCHANGED <<sv, server, up>>

\* CL_FirstSnapshot: the first active snapshot begins the game.
CL_FirstSnapshot(c) == c.snap = "active"

\* CL_SetCGameTime and the commands the cgame then asks for.  It begins after
\* the last one executed, also when a gamestate has come in between.
CL_Frame ==
  /\ \/ client.state = "CA_PRIMED" /\ CL_FirstSnapshot(client)
     \/ client.state = "CA_ACTIVE" /\ (client.drop \/ client.executed # client.cs)
  /\ client' =
       IF client.drop THEN Wiped(client)
       ELSE IF client.executed # client.cs
       THEN [client EXCEPT !.state = "CA_ACTIVE", !.id = client.cs,
                           !.executed = client.cs]
       ELSE [client EXCEPT !.state = "CA_ACTIVE"]
  /\ up' = IF client.drop THEN DisconnectPackets ELSE up
  /\ UNCHANGED <<sv, server, down, early>>
-----------------------------------------------------------------------------
\* An earlier connection of the client may have left a slot in use, and a
\* disconnect on its way.
Init ==
  /\ sv \in [serverId : {1}, restartedServerId : {1}, pure : BOOLEAN]
  /\ server \in {Free, [Free EXCEPT !.state = "CS_ACTIVE"],
                [Free EXCEPT !.state = "CS_ZOMBIE", !.drop = TRUE]}
  /\ client = [state |-> "CA_DISCONNECTED", id |-> NoId, map |-> NoId,
               after |-> TRUE, snap |-> "none", cs |-> NoId,
               executed |-> NoId, drop |-> FALSE, connects |-> 0,
               cp |-> NoId, cpNum |-> 0]
  /\ up \in {<<>>, <<[type |-> "packet", id |-> 1, after |-> TRUE, quit |-> TRUE,
                      cp |-> NoId, cpNum |-> 0]>>}
  /\ down = <<>>
  /\ early = FALSE

Next ==
  \/ SV_SendClientSnapshot
  \/ \E k \in DOMAIN up, denied \in BOOLEAN : SV_PacketEvent(k, denied)
  \/ SV_CheckTimeouts
  \/ SV_Kick
  \/ \E denied \in BOOLEAN : SV_SpawnServer(denied)
  \/ \E denied \in BOOLEAN : SV_MapRestart_f(denied)
  \/ CL_Disconnect
  \/ CL_Connect_f
  \/ CL_CheckForResend
  \/ CL_WritePacket
  \/ \E k \in DOMAIN down : CL_PacketEvent(k)
  \/ CL_Frame

\* Both sides run their frames; what is sent again and again gets through,
\* and the game does not deny a client for ever.  Zombies are freed.
Fairness ==
  /\ WF_vars(SV_SendClientSnapshot)
  /\ WF_vars(server.state = "CS_ZOMBIE" /\ SV_CheckTimeouts)
  /\ WF_vars(CL_CheckForResend) /\ WF_vars(CL_WritePacket) /\ WF_vars(CL_Frame)
  /\ SF_vars(\E k \in DOMAIN up :
               up[k].type \in OutOfBandTypes /\ SV_PacketEvent(k, FALSE))
  /\ SF_vars(\E k \in DOMAIN up :
               up[k].type = "packet" /\ SV_PacketEvent(k, FALSE))
  /\ SF_vars(\E k \in DOMAIN down :
               /\ down[k].type \in OutOfBandTypes \ {"disconnect"}
               /\ CL_PacketEvent(k))
  /\ \A t \in {"gamestate", "snapshot"} :
       SF_vars(\E k \in DOMAIN down : down[k].type = t /\ CL_PacketEvent(k))

Spec == Init /\ [][Next]_vars /\ Fairness
-----------------------------------------------------------------------------
ServerId == NoId .. MaxServerId

\* Types; a connection in use is newer than its server id, and a zombie is
\* the only slot that has a disconnect to send.
TypeOK ==
  /\ sv \in [serverId : 1 .. MaxServerId, restartedServerId : 1 .. MaxServerId,
             pure : BOOLEAN]
  /\ sv.restartedServerId <= sv.serverId
  /\ server \in [state : {"CS_FREE", "CS_ZOMBIE", "CS_CONNECTED", "CS_PRIMED",
                          "CS_ACTIVE"},
                 drop : BOOLEAN, cs : ServerId, gotCP : BOOLEAN,
                 cpNum : Nat]
  /\ server.drop <=> server.state = "CS_ZOMBIE"
  /\ client \in [state : {"CA_DISCONNECTED", "CA_CONNECTING", "CA_CHALLENGING",
                          "CA_CONNECTED", "CA_PRIMED", "CA_ACTIVE"},
                 id : ServerId, map : ServerId, after : BOOLEAN,
                 snap : {"none", "not active", "active"},
                 cs : ServerId, executed : ServerId, drop : BOOLEAN,
                 connects : 0 .. MaxConnects, cp : ServerId,
                 cpNum : Nat]

\* server.h says of CS_ACTIVE "client is fully in game".
OnTheMap ==
  server.state = "CS_ACTIVE" /\ Connected => client.map = sv.restartedServerId

\* SV_UserMove puts a client into the world only when it has the gamestate of
\* the map: a gamestate that is lost, late or of an older map is never taken
\* for it.  Only SV_MapRestart_f may find a client without.
EntersOnTheMap == OnTheMap \/ early

\* SV_ExecuteClientMessage resends a gamestate only when the last one was
\* dropped: no two of the same id are on their way to a client.
OneGameStateInFlight ==
  \A i, j \in DOMAIN down :
    /\ i < j
    /\ down[i].type = "gamestate" /\ down[j].type = "gamestate"
    /\ \A k \in i .. j : down[k].type # "connectResponse"
    => down[i].id # down[j].id

Playing ==
  /\ server.state = "CS_ACTIVE" /\ client.state = "CA_ACTIVE"
  /\ client.id = sv.serverId /\ client.map = sv.restartedServerId

\* The slot is free and the client does not know.
Forgotten == server.state = "CS_FREE" /\ Connected

\* A gamestate is sent again and lost, while a command gives the client the
\* right server id: no gamestate follows, and the cp it has sent is forgotten.
Unverified ==
  /\ sv.pure /\ server.state = "CS_PRIMED" /\ ~server.gotCP
  /\ client.id = sv.serverId /\ client.cpNum = server.cpNum

\* When maps no longer change, a client that stays and is not dropped ends up
\* in the game, on the map, whatever handshake packets, gamestates and
\* snapshots were lost, and wherever a map change or restart met it.
EndsUpPlaying ==
  <>[](Playing \/ early \/ Forgotten \/ Unverified
       \/ client.state = "CA_DISCONNECTED")

\* SV_MapRestart_f says "send the new gamestate to all connected clients"; it
\* sends none.  A client that waits for the gamestate of the map gets the new
\* server id with a command, and is never noticed to be on another map.
RestartReachesClients ==
  <>[](Playing \/ Forgotten \/ Unverified
       \/ client.state = "CA_DISCONNECTED")
-----------------------------------------------------------------------------
(***************************************************************************)
(* The inductive invariant behind EntersOnTheMap and OneGameStateInFlight.  *)
(* It holds while a connection is opened only when nothing that an earlier  *)
(* one sent to set up or to play is in flight any more: the challenge, by   *)
(* which the two ends of different connections find each other's messages   *)
(* illegible, is not part of this module.                                   *)
(***************************************************************************)

\* Packets of the net channel, and what may be in flight.
UpPacket == [type : {"packet"}, id : ServerId, after : BOOLEAN, quit : BOOLEAN,
             cp : ServerId, cpNum : Nat]
GameStates == [type : {"gamestate"}, after : {FALSE}, id : ServerId, map : ServerId,
               cs : ServerId, drop : BOOLEAN]
Snapshots == [type : {"snapshot"}, after : BOOLEAN, cs : ServerId, active : BOOLEAN,
              drop : BOOLEAN]
OutOfBands == [type : OutOfBandTypes]

NetsOK == up \in Seq(UpPacket \cup OutOfBands)
          /\ down \in Seq(GameStates \cup Snapshots \cup OutOfBands)

InBand(msg) == msg.type \in {"gamestate", "snapshot"}

\* No message, and nobody, knows a server id the server has not had yet.
BoundsInv ==
  /\ server.cs <= sv.serverId
  /\ client.id <= sv.serverId /\ client.cs <= sv.serverId
  /\ client.map <= sv.restartedServerId
  /\ \A i \in DOMAIN up : up[i].type = "packet" => up[i].id <= sv.serverId
  /\ \A i \in DOMAIN down :
       /\ InBand(down[i]) => down[i].cs <= sv.serverId
       /\ down[i].type = "gamestate" => /\ down[i].id <= sv.serverId
                                        /\ down[i].map \in 1 .. sv.restartedServerId

\* What the client knows by its state.
ClientInv ==
  /\ client.state \notin {"CA_PRIMED", "CA_ACTIVE"} => client.id = NoId /\ client.map = NoId
  /\ client.state \in {"CA_PRIMED", "CA_ACTIVE"} => client.map # NoId
  /\ ~Connected => client.cs = NoId

\* Gamestates come in the order of their maps, and none of an older map after the server id
\* of a restart on the present one.
OrderInv ==
  /\ \A i \in DOMAIN down : down[i].type = "gamestate" =>
       /\ client.map <= down[i].map
       /\ down[i].id >= sv.restartedServerId \/ down[i].cs >= sv.restartedServerId
            => down[i].map = sv.restartedServerId
       /\ client.cs >= sv.restartedServerId => down[i].map = sv.restartedServerId
  /\ \A i, j \in DOMAIN down : i < j /\ InBand(down[i]) /\ down[j].type = "gamestate" =>
       /\ down[i].type = "gamestate" => down[i].map <= down[j].map
       /\ down[i].cs >= sv.restartedServerId => down[j].map = sv.restartedServerId

\* Nothing is in flight that an earlier connection sent to set up or to play.
Quiet ==
  /\ \A i \in DOMAIN up : up[i].type # "connect" /\ (up[i].type = "packet" => up[i].quit)
  /\ \A i \in DOMAIN down : down[i].type # "connectResponse"

ReconnectsQuietly ==
  [][client'.connects # client.connects /\ client.connects > 0 => Quiet]_vars

\* Until a client has its connectResponse it sends no messages: no gamestate follows the
\* response, and the server has not heard of the client since it sent it.
Answered == \E i \in DOMAIN down : down[i].type = "connectResponse"

HandshakeInv ==
  /\ client.connects = 0 => client.state = "CA_DISCONNECTED" /\ Quiet
  /\ client.state = "CA_CONNECTING" => Quiet
  /\ client.state = "CA_CHALLENGING" =>
       /\ \A i \in DOMAIN up : up[i].type = "packet" => up[i].quit
       /\ \A i, j \in DOMAIN up : i < j /\ up[i].type = "connect" => up[j].type # "packet"
       /\ \A i, j \in DOMAIN down :
            i < j /\ down[i].type = "connectResponse" => down[j].type # "gamestate"
       /\ Answered => /\ \A i \in DOMAIN up : up[i].type # "packet"
                      /\ server.state # "CS_PRIMED"
                      /\ server.state = "CS_ACTIVE" => early

\* A client that has, or is about to learn, a server id of the present map has the map, or was
\* met by a restart before it had it.
Right == client.map = sv.restartedServerId \/ early

MapInv ==
  Connected =>
    /\ client.id >= sv.restartedServerId => Right
    /\ \A i \in DOMAIN up :
         up[i].type = "packet" /\ ~up[i].quit /\ up[i].id >= sv.restartedServerId => Right
    /\ client.map # NoId =>
         /\ client.cs >= sv.restartedServerId \/ server.cs >= sv.restartedServerId => Right
         /\ \A i \in DOMAIN down :
              InBand(down[i]) /\ down[i].cs >= sv.restartedServerId => Right
    /\ \A i \in DOMAIN down :
         down[i].type = "gamestate" /\ down[i].map # sv.restartedServerId =>
           /\ server.cs >= sv.restartedServerId => early
           /\ \A j \in DOMAIN down :
                i < j /\ InBand(down[j]) /\ down[j].cs >= sv.restartedServerId => early
    /\ server.state = "CS_ACTIVE" => Right

\* While a gamestate with the server id is in flight, nothing says that it was dropped.
Current(i) ==
  /\ down[i].type = "gamestate" /\ down[i].id = sv.serverId
  /\ \A j \in DOMAIN down : i < j => down[j].type # "connectResponse"

GameStateInv ==
  \A i \in DOMAIN down : Current(i) =>
    /\ \A k \in DOMAIN up : up[k].type = "packet" => ~up[k].after
    /\ Connected => ~client.after
    /\ \A j \in DOMAIN down : j < i /\ InBand(down[j]) => ~down[j].after
    /\ server.state = "CS_ACTIVE" => ~sv.pure \/ server.gotCP

IInv ==
  /\ TypeOK /\ NetsOK /\ BoundsInv /\ ClientInv /\ OrderInv /\ HandshakeInv /\ MapInv
  /\ GameStateInv /\ OneGameStateInFlight
=============================================================================
