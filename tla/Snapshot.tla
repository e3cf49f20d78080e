------------------------------ MODULE Snapshot ------------------------------
(***************************************************************************)
(* Delta-compressed snapshots, from the server that builds them            *)
(* (code/server/sv_snapshot.cpp) to the client that parses them            *)
(* (code/client/cl_parse.cpp) and the cgame that reads them                *)
(* (CL_GetSnapshot), across map changes.                                   *)
(*                                                                         *)
(* The server remembers a frame per recent message, which is a window into *)
(* a ring of entities shared by all clients; the client remembers a        *)
(* snapshot per recent message, a window into a ring of its own.  Both     *)
(* rings wrap, so a delta is right only if neither end's copy of its base  *)
(* has been overwritten, and if both ends mean the same base.              *)
(*                                                                         *)
(* An entity state is a pair <<number, value>>; its value stands for all   *)
(* its fields.  The network loses messages and keeps the others in order   *)
(* (the promise of Netchan).  The server is not pure (no cp command) and   *)
(* does not restart a map in place (module Connection does).               *)
(***************************************************************************)
EXTENDS Integers, FiniteSets, Sequences

CONSTANTS
  Entity,               \* entity numbers: a set of naturals
  Value,                \* entity states
  Scene,                \* sets of entity states a client may see at once
  OtherScene,           \* those another client may see
  PACKET_BACKUP,        \* frames and snapshots remembered
  DeltaMargin,          \* the 3 of "PACKET_BACKUP - 3"
  NumSnapshotEntities,  \* size of the server's entity ring
  MAX_PARSE_ENTITIES,   \* size of the client's entity ring
  ParseMargin,          \* the 128 of "MAX_PARSE_ENTITIES-128"
  Baseline,             \* the baseline of an entity on a map
  MaxMaps,              \* bound on SV_SpawnServer
  MaxSequence,          \* bound on the messages of the server
  MaxEntitiesStored,    \* bound on nextSnapshotEntities, by map
  MaxDown, MaxUp        \* bounds on the messages in flight to the client
                        \* and to the server; the oldest is lost to a new one

ASSUME RingAssumption == /\ NumSnapshotEntities \in Nat \ {0}
                         /\ MAX_PARSE_ENTITIES \in Nat \ {0}
                         /\ ParseMargin \in 0 .. MAX_PARSE_ENTITIES
ASSUME BackupAssumption == /\ PACKET_BACKUP \in Nat
                           /\ DeltaMargin \in 0 .. PACKET_BACKUP - 1
ASSUME EntityAssumption == /\ IsFiniteSet(Entity) /\ Entity \subseteq Nat
                           /\ IsFiniteSet(Value) /\ Value \subseteq Nat

Map == 1 .. MaxMaps
NoMap == 0       \* of a client that has had no gamestate: all baselines zero
EntityState == Entity \X Value

\* No entity is there twice ("SV_QsortEntityStates: duplicated entity").
Distinct(ents) == \A a, b \in ents : a[1] = b[1] => a = b

\* What a client sees fits into the server's ring and into ParseMargin, which is
\* what keeps a parse from overwriting its own base: true of up to 128 entities,
\* although the code sends up to MAX_SNAPSHOT_ENTITIES, 1024.
ASSUME SceneAssumption ==
  /\ \A scene \in Scene \cup OtherScene :
       scene \subseteq EntityState /\ Distinct(scene)
  /\ \A scene \in Scene : /\ Cardinality(scene) <= NumSnapshotEntities
                          /\ Cardinality(scene) <= ParseMargin
ASSUME BaselineAssumption == Baseline \in [Map \cup {NoMap} -> [Entity -> Value]]
ASSUME BoundAssumption == /\ MaxMaps \in Nat \ {0} /\ MaxSequence \in Nat
                          /\ MaxDown \in Nat \ {0} /\ MaxUp \in Nat \ {0}
                          /\ MaxEntitiesStored \in [Map -> Nat]

VARIABLES
  serverId,             \* sv.serverId: the server's map
  state, outgoingSequence, deltaMessage, gamestateMessageNum,
  frames,               \* of client_t
  snapshotEntities, nextSnapshotEntities,                        \* svs
  clServerId,           \* cl.serverId: the client's map
  serverMessageSequence,                                         \* clc
  snapNum,              \* cl.snap.messageNum; 0 while cl.snap is not valid
  snapshots, parseEntities, parseEntitiesNum,                    \* cl
  down, up              \* messages in flight to the client and to the server

svVars == <<serverId, state, outgoingSequence, deltaMessage,
            gamestateMessageNum, frames, snapshotEntities,
            nextSnapshotEntities>>
clVars == <<clServerId, serverMessageSequence, snapNum, snapshots,
            parseEntities, parseEntitiesNum>>
vars == <<svVars, clVars, down, up>>
-----------------------------------------------------------------------------
(* Rings of entity states, and deltas between sets of them.                *)

NoEntity == <<0, 0>>
EmptyRing(size) == [i \in 0 .. size - 1 |-> NoEntity]

\* The place of an entity among those of a snapshot, sorted by number.
Rank(ent, ents) == Cardinality({e \in ents : e[1] < ent[1]})

\* The ring after the states of a set are stored from position next on.
Stored(ring, next, ents) ==
  LET For(i) == {ent \in ents :
                   (next + Rank(ent, ents)) % Cardinality(DOMAIN ring) = i}
  IN  [i \in DOMAIN ring |->
         IF For(i) = {} THEN ring[i] ELSE CHOOSE ent \in For(i) : TRUE]

Window(ring, first, num) ==
  {ring[(first + i) % Cardinality(DOMAIN ring)] : i \in 0 .. num - 1}

NumbersOf(ents) == {ent[1] : ent \in ents}

Unchanged == -1
Removed == -2

\* What SV_EmitPacketEntities writes: nothing for an entity that has not
\* changed, the difference from the baseline for one that is new.
Delta(old, new, baseline) ==
  {IF ent[1] \notin NumbersOf(old) /\ ent[2] = baseline[ent[1]]
   THEN <<ent[1], Unchanged>> ELSE ent : ent \in new \ old}
    \cup {<<n, Removed>> : n \in NumbersOf(old) \ NumbersOf(new)}

\* What CL_ParsePacketEntities makes of it.
Patched(old, delta, baseline) ==
  {ent \in old : ent[1] \notin NumbersOf(delta)}
    \cup {IF d[2] = Unchanged THEN <<d[1], baseline[d[1]]>> ELSE d :
            d \in {x \in delta : x[2] # Removed}}
-----------------------------------------------------------------------------
(* The server.                                                             *)

NoFrame == [first |-> 0, num |-> 0]
Slot(n) == n % PACKET_BACKUP

InFlight(net, msg, bound) ==
  IF Len(net) < bound THEN Append(net, msg) ELSE Append(Tail(net), msg)

Send(msg) ==
  /\ outgoingSequence <= MaxSequence
  /\ down' = InFlight(down, msg, MaxDown)
  /\ outgoingSequence' = outgoingSequence + 1

\* Mistake: the entities of the base may have rolled off the ring.
MayDeltaRolledOff(frs, next) ==
  /\ deltaMessage > 0
  /\ state = "active"
  /\ outgoingSequence - deltaMessage < PACKET_BACKUP - DeltaMargin

\* Whether SV_WriteSnapshotToClient finds a base among the frames, after the
\* build has moved the entity ring on to next.
MayDelta(frs, next) ==
  /\ deltaMessage > 0
  /\ state = "active"
  /\ outgoingSequence - deltaMessage < PACKET_BACKUP - DeltaMargin
  /\ frs[Slot(deltaMessage)].first > next - NumSnapshotEntities

\* SV_BuildClientSnapshot, then SV_WriteSnapshotToClient.
SV_SendClientSnapshot(scene) ==
  LET next == nextSnapshotEntities + Cardinality(scene)
      ring == Stored(snapshotEntities, nextSnapshotEntities, scene)
      frs  == [frames EXCEPT ![Slot(outgoingSequence)] =
                 [first |-> nextSnapshotEntities, num |-> Cardinality(scene)]]
      old  == frs[Slot(deltaMessage)]
      base == IF MayDelta(frs, next) THEN Window(ring, old.first, old.num)
                                     ELSE {}
  IN  /\ next <= MaxEntitiesStored[serverId]
      /\ frames' = frs
      /\ snapshotEntities' = ring
      /\ nextSnapshotEntities' = next
      /\ Send([type     |-> "snapshot",
               sequence |-> outgoingSequence,
               deltaNum |-> IF MayDelta(frs, next) THEN deltaMessage ELSE -1,
               active   |-> state = "active",
               delta    |-> Delta(base, scene, Baseline[serverId]),
               built    |-> scene,
               map      |-> serverId])
      /\ UNCHANGED <<serverId, state, deltaMessage, gamestateMessageNum,
                     clVars, up>>

\* The snapshots built for other clients take their place in the ring.
SV_BuildOtherSnapshot(scene) ==
  LET next == nextSnapshotEntities + Cardinality(scene)
  IN  /\ next <= MaxEntitiesStored[serverId]
      /\ nextSnapshotEntities' = next
      /\ snapshotEntities' =
           Stored(snapshotEntities, nextSnapshotEntities, scene)
      /\ UNCHANGED <<serverId, state, outgoingSequence, deltaMessage,
                     gamestateMessageNum, frames, clVars, down, up>>

\* A gamestate carries the map and its baselines.
SV_SendClientGameState ==
  /\ state' = "primed"
  /\ gamestateMessageNum' = outgoingSequence
  /\ Send([type |-> "gamestate", sequence |-> outgoingSequence,
           map |-> serverId])
  /\ UNCHANGED <<serverId, deltaMessage, frames, snapshotEntities,
                 nextSnapshotEntities>>

\* A message from another gamestate: the gamestate is resent to a client that
\* acknowledges a later message.
SV_OutdatedMessage(msg) ==
  /\ msg.id # serverId
  /\ IF msg.ack > gamestateMessageNum
     THEN SV_SendClientGameState
     ELSE UNCHANGED <<svVars, down>>

\* SV_UserMove, with SV_ClientEnterWorld on the first move after a gamestate.
SV_UserMove(msg) ==
  /\ msg.id = serverId
  /\ msg.move # "none"
  /\ state' = IF state = "primed" THEN "active" ELSE state
  /\ deltaMessage' = IF msg.move = "delta" /\ state = "active"
                     THEN msg.ack ELSE -1
  /\ UNCHANGED <<serverId, outgoingSequence, gamestateMessageNum, frames,
                 snapshotEntities, nextSnapshotEntities, down>>

\* The k-th message in flight arrives; those before it are lost.
SV_ExecuteClientMessage(k) ==
  LET msg == up[k]
  IN  /\ up' = SubSeq(up, k + 1, Len(up))
      /\ SV_OutdatedMessage(msg) \/ SV_UserMove(msg)
      /\ UNCHANGED clVars

\* Mistake: the client is left active on the new map.
SV_SpawnServerKeepsState ==
  /\ serverId < MaxMaps
  /\ serverId' = serverId + 1
  /\ snapshotEntities' = EmptyRing(NumSnapshotEntities)
  /\ nextSnapshotEntities' = 0
  /\ UNCHANGED <<state, outgoingSequence, deltaMessage,
                 gamestateMessageNum, frames, clVars, down, up>>

\* A map change: the ring restarts, the client keeps its frames.
SV_SpawnServer ==
  /\ serverId < MaxMaps
  /\ serverId' = serverId + 1
  /\ state' = "connected"
  /\ snapshotEntities' = EmptyRing(NumSnapshotEntities)
  /\ nextSnapshotEntities' = 0
  /\ UNCHANGED <<outgoingSequence, deltaMessage,
                 gamestateMessageNum, frames, clVars, down, up>>
-----------------------------------------------------------------------------
(* The client.                                                             *)

\* A slot of cl.snapshots; built and map are histories (what the server built
\* under this number), which no action reads.
NoSnapshot == [valid |-> FALSE, messageNum |-> 0, first |-> 0, num |-> 0,
               active |-> FALSE, built |-> {}, map |-> NoMap]

EntitiesIn(snap) == Window(parseEntities, snap.first, snap.num)

\* The base of a delta snapshot is still there.
Available(msg) ==
  LET old == snapshots[Slot(msg.deltaNum)]
  IN  /\ old.valid
      /\ old.messageNum = msg.deltaNum
      /\ parseEntitiesNum - old.first <= MAX_PARSE_ENTITIES - ParseMargin

\* Mistake: snapshots that were never received stay valid.
KeptAll(n) == snapshots

\* The snapshots that stay valid when number n has arrived: those between the
\* last one and n were not received.
Kept(n) ==
  LET firstMissing == IF n - (snapNum + 1) >= PACKET_BACKUP
                      THEN n - (PACKET_BACKUP - 1) ELSE snapNum + 1
      missing == {Slot(m) : m \in firstMissing .. n - 1}
  IN  [i \in DOMAIN snapshots |->
         IF i \in missing THEN [snapshots[i] EXCEPT !.valid = FALSE]
                          ELSE snapshots[i]]

\* CL_ParseSnapshot with a usable base, or none.
CL_KeepSnapshot(msg) ==
  LET base == IF msg.deltaNum <= 0 THEN {}
              ELSE EntitiesIn(snapshots[Slot(msg.deltaNum)])
      ents == Patched(base, msg.delta, Baseline[clServerId])
  IN  /\ msg.deltaNum <= 0 \/ Available(msg)
      /\ parseEntities' = Stored(parseEntities, parseEntitiesNum, ents)
      /\ parseEntitiesNum' = parseEntitiesNum + Cardinality(ents)
      /\ snapshots' = [Kept(msg.sequence) EXCEPT ![Slot(msg.sequence)] =
                         [valid |-> TRUE, messageNum |-> msg.sequence,
                          first |-> parseEntitiesNum,
                          num |-> Cardinality(ents), active |-> msg.active,
                          built |-> msg.built, map |-> msg.map]]
      /\ snapNum' = msg.sequence

\* CL_ParseSnapshot without the base it needs: the entities parsed, from
\* whatever the slot of the base holds, stay in the ring but the snapshot is
\* not kept.
CL_DumpSnapshot(msg) ==
  LET ents == Patched(EntitiesIn(snapshots[Slot(msg.deltaNum)]), msg.delta,
                      Baseline[clServerId])
  IN  /\ msg.deltaNum > 0 /\ ~Available(msg)
      /\ parseEntities' = Stored(parseEntities, parseEntitiesNum, ents)
      /\ parseEntitiesNum' = parseEntitiesNum + Cardinality(ents)
      /\ UNCHANGED <<snapshots, snapNum>>

\* CL_ParseGamestate: CL_ClearState wipes cl, then the map and cgame are loaded
\* before anything else is read (CL_InitDownloads, with nothing to download).
CL_ParseGamestate(msg) ==
  /\ msg.type = "gamestate"
  /\ clServerId' = msg.map
  /\ snapNum' = 0
  /\ snapshots' = [i \in 0 .. PACKET_BACKUP - 1 |-> NoSnapshot]
  /\ parseEntities' = EmptyRing(MAX_PARSE_ENTITIES)
  /\ parseEntitiesNum' = 0

CL_ParseSnapshot(msg) ==
  /\ msg.type = "snapshot"
  /\ CL_KeepSnapshot(msg) \/ CL_DumpSnapshot(msg)
  /\ UNCHANGED clServerId

\* The k-th message in flight arrives; those before it are lost.
CL_ParseServerMessage(k) ==
  /\ serverMessageSequence' = down[k].sequence
  /\ down' = SubSeq(down, k + 1, Len(down))
  /\ CL_ParseGamestate(down[k]) \/ CL_ParseSnapshot(down[k])
  /\ UNCHANGED <<svVars, up>>

\* Mistake: the last snapshot need not be the last message.
MoveOfAnyMessage ==
  IF clServerId = NoMap THEN "none" ELSE IF snapNum = 0 THEN "noDelta" ELSE "delta"

Move ==
  IF clServerId = NoMap THEN "none"
  ELSE IF snapNum = 0 \/ serverMessageSequence # snapNum THEN "noDelta"
  ELSE "delta"

CL_WritePacket ==
  /\ up' = InFlight(up, [id |-> clServerId, ack |-> serverMessageSequence,
                         move |-> Move], MaxUp)
  /\ UNCHANGED <<svVars, clVars, down>>
-----------------------------------------------------------------------------
Init ==
  /\ serverId = 1
  /\ state = "connected"
  /\ outgoingSequence = 1 /\ deltaMessage = 0 /\ gamestateMessageNum = -1
  /\ frames = [i \in 0 .. PACKET_BACKUP - 1 |-> NoFrame]
  /\ snapshotEntities = EmptyRing(NumSnapshotEntities)
  /\ nextSnapshotEntities = 0
  /\ clServerId = NoMap
  /\ serverMessageSequence = 0
  /\ snapNum = 0
  /\ snapshots = [i \in 0 .. PACKET_BACKUP - 1 |-> NoSnapshot]
  /\ parseEntities = EmptyRing(MAX_PARSE_ENTITIES)
  /\ parseEntitiesNum = 0
  /\ down = <<>> /\ up = <<>>

Next ==
  \/ \E scene \in Scene : SV_SendClientSnapshot(scene)
  \/ \E scene \in OtherScene : SV_BuildOtherSnapshot(scene)
  \/ SV_SpawnServer
  \/ \E k \in DOMAIN up : SV_ExecuteClientMessage(k)
  \/ \E k \in DOMAIN down : CL_ParseServerMessage(k)
  \/ CL_WritePacket

Spec == Init /\ [][Next]_vars
-----------------------------------------------------------------------------
(* What cgame can read.                                                    *)

\* Mistake: the entities may have rolled off the client's ring.
ReadableRolledOff(n) ==
  LET snap == snapshots[Slot(n)]
  IN  n \in 1 .. snapNum /\ snapNum - n < PACKET_BACKUP /\ snap.valid

\* CL_GetSnapshot would return a snapshot under this number.
Readable(n) ==
  LET snap == snapshots[Slot(n)]
  IN  /\ n \in 1 .. snapNum
      /\ snapNum - n < PACKET_BACKUP
      /\ snap.valid
      /\ parseEntitiesNum - snap.first < MAX_PARSE_ENTITIES

Frames == [first : Nat, num : 0 .. Cardinality(Entity)]
Snapshots == [valid : BOOLEAN, messageNum : Nat, first : Nat,
              num : 0 .. Cardinality(Entity), active : BOOLEAN,
              built : SUBSET EntityState, map : Map \cup {NoMap}]

\* Types: frames and snapshots are windows of at most one snapshot's entities.
TypeOK ==
  /\ serverId \in Map /\ clServerId \in Map \cup {NoMap}
  /\ state \in {"connected", "primed", "active"}
  /\ outgoingSequence \in 1 .. MaxSequence + 1
  /\ deltaMessage \in -1 .. MaxSequence
  /\ gamestateMessageNum \in -1 .. MaxSequence
  /\ frames \in [0 .. PACKET_BACKUP - 1 -> Frames]
  /\ snapshotEntities \in
       [0 .. NumSnapshotEntities - 1 -> EntityState \cup {NoEntity}]
  /\ nextSnapshotEntities \in 0 .. MaxEntitiesStored[serverId]
  /\ serverMessageSequence \in 0 .. MaxSequence /\ snapNum \in 0 .. MaxSequence
  /\ snapshots \in [0 .. PACKET_BACKUP - 1 -> Snapshots]
  /\ parseEntities \in
       [0 .. MAX_PARSE_ENTITIES - 1 -> EntityState \cup {NoEntity}]
  /\ parseEntitiesNum \in Nat

\* Whatever was lost and however often the four rings have wrapped, a snapshot
\* cgame can get under a number is the one of that number, and holds the very
\* entities the server built for it, if the server built it on the client's
\* map (CL_GetSnapshot looks at valid, not at the number; the choice of the
\* base in SV_WriteSnapshotToClient and the validity of the base in
\* CL_ParseSnapshot have to agree).
SnapshotExact ==
  \A n \in 1 .. snapNum :
    LET snap == snapshots[Slot(n)]
    IN  Readable(n) =>
          /\ snap.messageNum = n
          /\ snap.map = clServerId => EntitiesIn(snap) = snap.built

\* What cgame was told of a number stands until the gamestate that wipes it: a
\* snapshot it can get keeps its entities, built on whatever map, for as long
\* as it can get it, and one it could not get, when it was lost, dumped or too
\* old, does not turn up later (cgame asks once and goes on to the next number).
SnapshotsSettled ==
  [][\A n \in 1 .. snapNum : Readable(n)' =>
       /\ Readable(n)
       /\ EntitiesIn(snapshots[Slot(n)])' = EntitiesIn(snapshots[Slot(n)])]_vars

\* A snapshot the server built on another map, which the client decodes from
\* the baselines of its own, is never flagged as one of an active client
\* (SNAPFLAG_NOT_ACTIVE keeps cgame from starting on it or drawing it).
ForeignSnapshotFlagged ==
  \A n \in 1 .. snapNum :
    LET snap == snapshots[Slot(n)]
    IN  Readable(n) /\ snap.active => snap.map = clServerId

\* The base of a delta that arrives is a snapshot the client has under that
\* number ("Delta from invalid frame (not supposed to happen!)", "Delta frame
\* too old"): a client's request is never answered with a delta from a
\* message that was lost or wiped by a gamestate since.
BaseReceived ==
  \A i \in DOMAIN down :
    down[i].type = "snapshot" /\ down[i].deltaNum > 0 =>
      LET old == snapshots[Slot(down[i].deltaNum)]
      IN  old.valid /\ old.messageNum = down[i].deltaNum
-----------------------------------------------------------------------------
(***************************************************************************)
(* The inductive invariant behind SnapshotExact, ForeignSnapshotFlagged and *)
(* BaseReceived.                                                            *)
(***************************************************************************)

\* Messages in flight.
GameStates == [type : {"gamestate"}, sequence : Nat, map : Map]
SnapshotMessages ==
  [type : {"snapshot"}, sequence : Nat, deltaNum : Int, active : BOOLEAN,
   delta : SUBSET (Entity \X (Value \cup {Unchanged, Removed})),
   built : SUBSET EntityState, map : Map]
ClientMessages ==
  [id : Map \cup {NoMap}, ack : Nat, move : {"none", "noDelta", "delta"}]

NetsOK == /\ down \in Seq(GameStates \cup SnapshotMessages)
          /\ up \in Seq(ClientMessages)

IsGameState(msg) == msg.type = "gamestate"
IsSnapshot(msg) == msg.type = "snapshot"

\* Messages come in the order of their numbers, on no older map than the
\* client has.
OrderInv ==
  /\ gamestateMessageNum < outgoingSequence
  /\ serverMessageSequence < outgoingSequence
  /\ snapNum <= serverMessageSequence /\ clServerId <= serverId
  /\ \A i \in DOMAIN down :
       /\ down[i].sequence \in serverMessageSequence + 1 .. outgoingSequence - 1
       /\ down[i].map \in clServerId .. serverId
       /\ \A j \in DOMAIN down : i < j => /\ down[i].sequence < down[j].sequence
                                        /\ down[i].map <= down[j].map
  /\ \A i \in DOMAIN up :
       /\ up[i].ack <= serverMessageSequence /\ up[i].id <= clServerId
       /\ \A j \in DOMAIN up : i < j => up[i].ack <= up[j].ack

\* A gamestate is sent only when none is in flight and the client lacks it, so
\* a client that has the server's map keeps its snapshots.
GameStateInv ==
  /\ \A i \in DOMAIN up :
       up[i].ack > gamestateMessageNum => up[i].id = clServerId
  /\ \A i \in DOMAIN down : IsGameState(down[i]) =>
       /\ down[i].sequence <= gamestateMessageNum
       /\ clServerId # serverId
       /\ \A j \in DOMAIN down : i # j => ~IsGameState(down[j])
  /\ state = "active" => clServerId = serverId

\* What the server sends an active client arrives on the map it was built on.
ActiveInv ==
  \A i \in DOMAIN down : IsSnapshot(down[i]) =>
    /\ down[i].deltaNum > 0 => down[i].active
    /\ down[i].active =>
         /\ down[i].map = clServerId
         /\ \A j \in DOMAIN down : j < i => ~IsGameState(down[j])

\* The client's snapshots are those of the last PACKET_BACKUP numbers, and it
\* has the last one.
SnapshotInv ==
  /\ snapNum > 0 => /\ snapshots[Slot(snapNum)].valid
                    /\ snapshots[Slot(snapNum)].messageNum = snapNum
  /\ \A i \in DOMAIN snapshots :
       LET snap == snapshots[i]
       IN  snap.valid =>
             /\ Slot(snap.messageNum) = i
             /\ snap.messageNum \in 1 .. snapNum
             /\ snapNum - snap.messageNum < PACKET_BACKUP
             /\ snap.map \in clServerId .. serverId
             /\ snap.active => snap.map = clServerId
             /\ Distinct(snap.built)

\* The client has had snapshot n, on its map, and has it until it is too old.
Held(n) ==
  /\ n \in 1 .. snapNum
  /\ snapNum - n < PACKET_BACKUP =>
       LET snap == snapshots[Slot(n)]
       IN  snap.valid /\ snap.messageNum = n /\ snap.map = clServerId

HeldInv ==
  /\ state = "active" /\ deltaMessage > 0 => Held(deltaMessage)
  /\ \A i \in DOMAIN up :
       up[i].id = serverId /\ up[i].move = "delta" => Held(up[i].ack)
  /\ \A i \in DOMAIN down : IsSnapshot(down[i]) /\ down[i].deltaNum > 0 =>
       /\ Held(down[i].deltaNum)
       /\ down[i].sequence - down[i].deltaNum < PACKET_BACKUP

\* A delta is of what a client sees, and starts from what the server built
\* under the number of its base.
DeltaInv ==
  \A i \in DOMAIN down : IsSnapshot(down[i]) =>
    LET msg  == down[i]
        base == IF msg.deltaNum > 0 THEN snapshots[Slot(msg.deltaNum)].built
                                    ELSE {}
    IN  msg.built \in Scene /\ msg.delta = Delta(base, msg.built, Baseline[msg.map])

\* The frame of message n holds ents while the ring has not gone past it.
FrameHolds(n, ents) ==
  LET frame == frames[Slot(n)]
  IN  /\ outgoingSequence - n <= PACKET_BACKUP
      /\ frame.first > nextSnapshotEntities - NumSnapshotEntities
      => /\ frame.first + frame.num <= nextSnapshotEntities
         /\ Window(snapshotEntities, frame.first, frame.num) = ents

FrameInv ==
  /\ \A i \in DOMAIN down : IsSnapshot(down[i]) /\ down[i].map = serverId =>
       FrameHolds(down[i].sequence, down[i].built)
  /\ \A i \in DOMAIN snapshots : snapshots[i].valid /\ snapshots[i].map = serverId =>
       FrameHolds(snapshots[i].messageNum, snapshots[i].built)

\* So does a snapshot of the client, of its own map.
ParsedInv ==
  \A i \in DOMAIN snapshots :
    LET snap == snapshots[i]
    IN  snap.valid =>
          /\ snap.first + snap.num <= parseEntitiesNum
          /\ snap.map = clServerId
               /\ parseEntitiesNum - snap.first <= MAX_PARSE_ENTITIES =>
             EntitiesIn(snap) = snap.built

IInv ==
  /\ TypeOK /\ NetsOK /\ OrderInv /\ GameStateInv /\ ActiveInv /\ SnapshotInv
  /\ HeldInv /\ DeltaInv /\ FrameInv /\ ParsedInv
=============================================================================
