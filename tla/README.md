# Quake III Arena: TLA+ models of the network and threading core

This directory holds TLA+ specifications of the parts of this engine that are hard to test: the
protocols by which a server and a client exchange messages, commands, snapshots and files over an
unreliable network and set up and keep a connection, and the thread pool that was added to the
engine. TLC checks them on small instances; TLAPS proves their safety properties for all values of the
constants.

Paths below are relative to `src/`.

## 1. The system and its components

The engine is a single-process client and server. Once per frame `Com_Frame` runs the event loop
(which hands packets to the server and the client), `SV_Frame` and `CL_Frame`. Nearly all state
belongs to the main thread; what makes the behaviour hard is the network between two such
processes, and the threads of `code/sys`.

| Component | State | Operations | Interaction | What makes it correct |
|---|---|---|---|---|
| Net channel, `qcommon/net_chan.cpp` | `netchan_t`: sequence numbers, the fragment buffer of each direction | `Netchan_Setup`, `Netchan_Transmit`, `Netchan_TransmitNextFragment`, `Netchan_Process` | called by both net channel layers; packets | messages whole, in order, at most once |
| Server and client layers, `server/sv_net_chan.cpp`, `client/cl_net_chan.cpp` | queue of stacked messages; encoding keyed by command strings | `SV_Netchan_Transmit`, `..._TransmitNextFragment`, `..._Process`, `CL_Netchan_*` | over the net channel | call order kept; both sides use one key |
| Reliable commands (`sv_main`, `sv_client`, `sv_snapshot`, `cl_main`, `cl_input`, `cl_parse`, `cl_cgame`) | two rings of 64 strings, sequence and acknowledge numbers on each side | `SV_AddServerCommand`, `CL_AddReliableCommand`, `CL_WritePacket`, `SV_ExecuteClientMessage`, `SV_UpdateServerCommandsToClient`, `CL_ParseServerMessage`, `CL_GetServerCommand` | every message repeats what is unacknowledged | each command once, in order, before the moves and snapshots that follow it |
| Snapshots, `server/sv_snapshot.cpp`, `CL_ParseSnapshot` | 32 frames per client, a ring of entities shared by all, the client's parsed frames | build, choose the delta base, write; parse, validate | numbered by the net channel, base named by `clc_move` | both sides use the same base, and it is still intact |
| Server clients, `sv_client.cpp`, `sv_main.cpp` | `CS_*` state, challenges, `serverId`, `gamestateMessageNum`, timers | challenge, connect, gamestate, enter world, drop, timeout | packets, console, game VM | nobody stays half connected; a slot is reused safely |
| Client connection, `cl_main.cpp`, `cl_parse.cpp` | `CA_*` state, resend timer | resend, connection response, gamestate, primed, active, disconnect | packets | every state is left by success, retry or timeout |
| UDP download | a window of 8 blocks on the server, next block on the client | `SV_WriteDownloadToClient`, `SV_NextDownload_f`, `CL_ParseDownload` | blocks in snapshots, acknowledged by reliable commands | the file arrives complete and in order |
| Job system, `sys/threading/job_system.cpp` | three queues, workers, flags, per-job state, C handle table | `init`, `shutdown`, `resize`, `dispatch`, `parallel_for`, `worker_loop`, `wait`, `cancel`, `Sys_Job*` | mutexes, condition variables, main-thread queue | no job lost or run twice, no wait or shutdown that hangs, every completion runs |
| Main-thread queue, `sys/threading/main_thread_queue.cpp` | reliable lane, lossy ring, drop counter | `post`, `post_lossy`, `drain`, `drain_all` | producers on any thread, drained each frame | FIFO per producer, nothing reliable is lost |
| HTTP downloader, `sys/net/http_downloader.cpp` | status, cancel flag, thread | start, cancel, poll | progress posts to the main-thread queue | a restart does not see the old thread's result |

Also in the repository, and not modelled: message bit packing and Huffman coding, sockets,
allocators, command buffer and cvars, file system, virtual machine, collision, game code,
interface code, bots, renderer, sound, logger, scripting, offline tools. `PROJECT.json` lists each
with the reason: mostly floating-point geometry, pure input and output, or sequential tables that
unit tests cover well.

Hard behaviours: loss, duplication and reordering of packets; acknowledgements that travel in
messages that are lost themselves; rings that wrap; messages written at one time and encoded at
another; threads that race a wait, a cancel or a shutdown. The hazards are listed, each at its
line, in `PROJECT.json`, with the properties that catch them; one whose failing case a property
excepts, or an assumption on the constants leaves out, names none and says so in its note.

## 2. Plan

Done so far, in order of importance:

1. `MessageChannel` (abstract), `Netchan` (implements it), `NetchanProofs`.
2. `CommandStream` (abstract), `ReliableCommands` (implements it in both directions), over the channel that
   `Netchan` implements.
3. `JobLife` (abstract), `JobSystem` (implements it).
4. `Snapshot`: the four rings from the server's frames to what cgame reads.
5. `Connection`: handshake, gamestate, map changes and restarts, drops and timeouts, on both sides.
6. `FileTransfer` (abstract), `Download` (implements it), over the reliable commands.

The modules are layered by promise: `Netchan` is shown to deliver some messages, whole and in
order, and the four modules above it start from that; `ReliableCommands` is shown to execute every
command once and in order while the connection lasts, and `Download` starts from that.

7. The proofs of all of these (section 5).

Next:

8. `Connection` with downloads, whose `donedl` has a second gamestate sent.
9. `MainThreadQueue`: both lanes, budgets and the drop counter, with the HTTP downloader as producer.

Modules that are proved about use no recursive operators; every constant has a named assumption.

## 3. Modules

### MessageChannel, Netchan, NetchanProofs, MCNetchan

`MessageChannel` says what the channel promises: messages are numbered as they are transmitted,
and the other side gets some of them, each at most once, whole, in that order.

`Netchan` models one direction. `chan` is the sender's half of `netchan_t` (`outgoingSequence`,
`unsentFragments`, `unsentFragmentStart`, `unsentBuffer` with its length), `queue` is
`netchan_start_queue`, the variables `incomingSequence` to `fragmentBuffer` are the receiver's half.
`net` is the set of all packets ever sent and packets are never taken out of it, so loss,
duplication, delay and reordering are all included. A byte of a message is a pair of the message's
id and the byte's position, so that mixed-up bytes are visible. Actions:

| Action | Code |
|---|---|
| `SV_Netchan_Transmit` (`SendNow`, `Stack`) | `SV_Netchan_Transmit`, with all it calls |
| `SV_Netchan_TransmitNextFragment` | the function of that name, with the pop from the queue |
| `Netchan_Process` (`ReceiveUnfragmented`, `MissedFragment`, `StoreFragment`, `CompleteMessage`) | `Netchan_Process` |

Packets that are discarded without a change are stuttering steps. Messages longer than
`MAX_MSGLEN` are an `ERR_DROP` and never enter. The reassembled message fits into the caller's
buffer, which has room for `MAX_MSGLEN` as the fragment buffer has, so the check against
`msg->maxsize` (`net_chan.cpp:433`) is left out. Corrupt packets are not modelled: packets are those
the sender built. The qport check and address match of the callers are left out, since there is
one channel. A run of `SendNow` with an unfragmented message is also the client's direction.

### CommandStream, ReliableCommands, ReliableProofs, ReliableOrderProofs, MCReliable

`CommandStream` says what a stream of reliable commands promises: commands are added one by one, and
the other side executes the next ones, each once, each with its own string; what was executed is
never taken back. `ServerStream` and `ClientStream` are its two instances: the server's commands as
cgame gets them (the history `got`), and the client's as the server executes them (`executed`).

`sv` is the part of the server's `client_t`, `cl` the part of the client's `clc` that the command
streams use. Command number *n* is the string *n*: a slot or a message that holds another string
than its number says shows. `toClient` and `toServer` are the channel that `Netchan` implements (in
order, at most once, any may be lost); taking the *i*-th message loses the earlier ones. A server
message may be `unsent` (it has fragments to go) with others `stacked` behind it. They are encoded
when they are transmitted, which is what `SV_Netchan_Encode` does.

| Action | Code |
|---|---|
| `CL_AddReliableCommand`, `SV_AddServerCommand` | the same |
| `CL_WritePacket` | `CL_WritePacket`, `CL_Netchan_Transmit`, `CL_Netchan_Encode` |
| `SV_ExecuteClientMessage`, `SV_IgnoreOutdatedMessage` | `SV_Netchan_Decode`, `SV_ExecuteClientMessage` with `SV_ClientCommand`; the second is the early return for a message from an older gamestate, which may send the gamestate again at once |
| `SV_SendMessage`, `SV_StackMessage`, `SV_Netchan_TransmitNextFragment` | `SV_SendClientSnapshot`/`SV_SendClientGameState` down to `SV_Netchan_Transmit`, and the next-fragment call |
| `CL_ParseServerMessage` | `CL_Netchan_Decode`, `CL_ParseServerMessage`, `CL_ParseCommandString` |
| `CL_GetServerCommand` | the function, asked for the next command as cgame asks |
| `LoseToClient`, `LoseToServer` | the network |

`status` records why a connection ended; no action is enabled afterwards, so these runs do not
check for deadlock. An illegible message (decoded with another key) ends the connection in the
model: what either side makes of the garbage is left open. The client usually ends with `ERR_DROP`
on a bad command byte, while the server goes on after a warning (`server/sv_client.cpp:1405`).
So does a server command that overflows the ring: what `SV_DropClient` then adds to the full ring
is not modelled, and the properties speak of the commands up to there. Release builds are
modelled: with `NDEBUG` unset the two out-of-range returns of `SV_ExecuteClientMessage` drop the
client instead. Not modelled: flood protection (it changes what a command does, not the numbering),
the gamestate's own sequence number, what an executed
command does (it may disconnect, or send a message), demo playback, messages that overflow `MAX_MSGLEN`.

### JobLife, JobSystem, JobSystemProofs, JobSystemKeptProofs, MCJobs

One action per critical section or atomic access. `pool` is `queues_`, `stopping_`, `initialized_`
and `workers_`; `worker[w]` is the place of a worker thread in `worker_loop`; `state[h]` is the
`JobState` of a handle, with `Combined` for the one of `parallel_for`; `tasks` is the reliable lane
of the main-thread queue (`pending_reliable_` and `reliable_tasks_` together, which are read in
that order); `call[c]` is how far a caller is in `dispatch` and `Sys_JobSubmit`; `main` and
`thread[t]` are the main thread and a further thread with their waits.

| Action | Code |
|---|---|
| `Dispatch`, `DispatchInit`, `DispatchPush`, `Register` | `Sys_JobSubmit` and `dispatch`; the middle two only if the pool is not initialised |
| `ParallelFor`, `DispatchChunk` | `parallel_for` |
| `Cancel` | `JobHandle::cancel`, `Sys_JobCancel` |
| `WorkerExit`, `WorkerTake`, `WorkerSleep`, `WorkerStart`, `BodyReturns`, `BodyThrows`, `PostCompletion`, `StoreDone`, `NotifyWaiters` | `worker_loop`, and the chunk body of `parallel_for` |
| `ThreadWait`, `ThreadCheck`, `ThreadSleep` | `JobHandle::wait` off the main thread |
| `MainWait`, `RunTask`, `MainSeesDone`, `MainWaitReturns` | `JobHandle::wait` on the main thread; `RunTask` is also the drain of every frame and of shutdown |
| `SubsystemInit`, `Shutdown`, `Joined`, `ResizeInit`, `Exit` | `Sys_SubsystemInit`, `shutdown`, `resize`, `Sys_SubsystemShutdown` |

The mutex of a job's state is explicit where it matters: a thread that found `done` unset holds it
until it sleeps, and the notification needs it (`MutexFree`). Bodies end, and neither bodies nor
completions wait for other jobs: a worker that waits can exhaust the pool, which is the caller's
error and not what is checked here. A cancelled or throwing parallel_for is switched by
`DisturbChunks`. A `parallel_for` over an empty range, which returns a finished handle at once, is
not modelled, and a wait or cancel is that of `JobHandle`: `Sys_JobWait` and `Sys_JobCancel` on a
released handle do nothing. Completions do not call back into the job system. Spurious wake-ups are
left out: they only make a thread test its predicate again.

`JobLife` is what is left when queues, workers, locks and the main thread are taken away: a job is
submitted, its body starts if nobody cancelled it before, returns, its completion is handed over,
it is done, its completion runs; the handle of a `parallel_for` is done when every chunk has come
to its end. Completing needs only the hand-over: the completion may run before `done` is set. There
is an action for each of these steps and none that takes one back. `ImplementsLife` maps the pool
to it: a body has returned when it was entered and no worker is in it any more, and the completion
was handed over when the job is done or its worker is between the post and the store of `done`.

### Snapshot, SnapshotProofs, MCSnapshot

One client of one server, and other clients as far as they use the shared entity ring. `frames`
(`clientSnapshot_t`) and `snapshots` (`clSnapshot_t`) are windows, a first index and a number, into
the entity rings `snapshotEntities` and `parseEntities`. An entity state is a pair of number and
value; the value stands for all fields, as `MSG_WriteDeltaEntity` writes nothing when none has
changed. A snapshot's entities are sorted by number before they are stored, so `Stored` puts each
at its `Rank`. `Delta` is what `SV_EmitPacketEntities` writes for two lists of entities, `Patched` what
`CL_ParsePacketEntities` makes of it; a client that has lost its base applies it to what the slot
holds, as the code does, and dumps the result. `built` and `map` are histories.

`SceneAssumption` bounds what a client sees by the client's margin (`ParseMargin`, 128 in the code)
and by the server's ring. Beyond the margin a parse may overwrite the base it is reading from, which
the model, where a parse is one step, does not show; the code allows 1024 entities.

| Action | Code |
|---|---|
| `SV_SendClientSnapshot` | `SV_BuildClientSnapshot`, `SV_WriteSnapshotToClient` (`MayDelta` is the choice of the base) and the sequence number of `Netchan_Transmit` |
| `SV_BuildOtherSnapshot` | the entities another client's snapshot takes from the ring |
| `SV_ExecuteClientMessage` | `SV_OutdatedMessage` with `SV_SendClientGameState`, `SV_UserMove` with `SV_ClientEnterWorld` |
| `SV_SpawnServer` | the part of a map change that matters: new id, empty ring, the client connected again with its old frames |
| `CL_ParseServerMessage` | `CL_ParseGamestate` (`CL_ClearState`), or `CL_ParseSnapshot` (`CL_KeepSnapshot`, `CL_DumpSnapshot`) |
| `CL_WritePacket` | the acknowledgement, the server id and the choice of `clc_move` or `clc_moveNoDelta` |

What cgame may read (`Readable`) is the condition of `CL_GetSnapshot`. `SnapshotsSettled` is about its
use: cgame asks for each number once (`CG_ReadNextSnapshot`) and keeps what it got, so an answer must
not change before the gamestate that wipes the snapshots. Not modelled: which entities
a client sees, player state and area bits (they travel in the same frame, by the same base),
fragments and rates (a message is sent or not), zombies, `cl_nodelta`, pure servers, a restart in
place, and the wrap of the counters, which the server kicks over before it happens.

### FileTransfer, Download, DownloadProofs, MCDownload

`FileTransfer` is the abstract specification: the wanted files, one after the other, each copied
from its first block to its last or given up before anything is copied. `server` is the download
part of `client_t`, `window` its blocks, `client` that of `clc`; a block is a pair of its file and
number, so one taken for another shows.

| Action | Code |
|---|---|
| `SV_WriteDownloadToClient` | the function: open (`Opened`), read into the window (`Filled`, `WindowFilled`), resend (`FirstBlock`), write `BlocksOf` with 16-bit numbers (`Short`) |
| `SV_RefuseDownload` | its path for a file the server lacks or may not send |
| `SV_ClientCommand` | `SV_BeginDownload_f`, `SV_NextDownload_f`, `SV_StopDownload_f`, `SV_DoneDownload_f`, in the order of the reliable commands |
| `CL_ParseServerMessage` | `CL_ParseDownload` for each block of the message, `CL_NextDownload`, `CL_BeginDownload`, `CL_DownloadsComplete` |

`LongFilesAssumption` says that every file but the last has at least as many blocks as the window,
and `UnwritableAssumption` that the client can create every file but the last: without either a
block of one file is taken for one of the next (finding 7). Not modelled: the gamestate that answers `donedl` and the map that is loaded then,
the error return of `FS_Read` (`server/sv_client.cpp:699`), which has none for a file that
`FS_SV_FOpenFileRead` opened (`qcommon/files.cpp:1279-1302`), disconnects and map changes while a file is copied, rates other than as a choice of the
number of blocks per snapshot.

### Connection, ConnectionProofs, MCConnection

One slot of the server and one client. `server` is the `client_t`: its state, whether a
`disconnect` command is among its reliable commands (`drop`), and the last server id told by
configstring (`cs`), whether its files are verified (`gotCP`) and the number of the last `cp` it
executed (`cpNum`). `client` is the `CA_*` state, the server id and map it has, whether its last
message was later than its last gamestate (`after`), the last snapshot, the last `cp` it sent, and
the commands received and executed. `sv.pure` is `sv_pure`; the client's files are the right ones. `up` and `down` are the packets in flight; each message carries the commands that
matter, as all of them carry the unacknowledged commands. `after` in a packet is the outcome of
`messageAcknowledge > gamestateMessageNum`: sending a gamestate clears it in all that is in flight.

| Action | Code |
|---|---|
| `SV_PacketEvent` | `SV_PacketEvent`: `SV_GetChallenge`, `SV_DirectConnect`, `SV_SequencedPacket` with `SV_ExecuteClientMessage`, `SV_SendClientGameState`, `SV_VerifyPaks`, `SV_UserMove`, or the out of band disconnect for a client without a slot |
| `SV_SendClientSnapshot` | the function, for every state but free |
| `SV_CheckTimeouts`, `SV_Kick` | `SV_CheckTimeouts`; `SV_DropClient` from elsewhere |
| `SV_SpawnServer`, `SV_MapRestart_f` | the same; the game may deny a client then. A restart the slow way (`sv_maxclients` or `g_gametype` changed) is `SV_SpawnServer`; one that is put off changes nothing yet |
| `CL_Connect_f`, `CL_Disconnect` | the same; the second is also `CL_CheckTimeout` |
| `CL_CheckForResend`, `CL_WritePacket` | the same |
| `CL_PacketEvent` | `CL_ConnectionlessPacket`, `CL_ParseServerMessage` with `CL_ParseGamestate` and `CL_ParseSnapshot` |
| `CL_Frame` | `CL_SetCGameTime` with `CL_FirstSnapshot`, and `CL_GetServerCommand` with `CL_SystemInfoChanged` and `disconnect` |

`early` is a history: a `map_restart` met the client before it had the map, which the code gets
wrong (finding 5); `EntersOnTheMap` and `EndsUpPlaying` hold where it did not.

Every connection has a challenge, by which the code tells its packets from those of an earlier one:
the challenge is part of the key they are encoded with, and a message of another connection does
not decode. The model has no challenges, so a user who connects a second time could be answered by
what is still in flight from the first. `ReconnectsQuietly` says that this does not occur. The runs
allow one attempt to connect, for which it says nothing.

Not modelled:
downloads and `donedl`, wrong files and `vid_restart` on a pure server, the challenge table, other clients and a full server,
authorisation, a connect packet older than `sv_reconnectlimit` seconds, errors that drop the client
(`ERR_DROP`), packets handled while a map is being loaded, a server that shuts down or crashes.

## 4. Runs

| Run | Module, cfg | Result | Shows |
|---|---|---|---|
| `netchan` | `MCNetchan` | holds | `SequenceNotReused`, `DeliveredWhole`, `DeliveredInOrder`, refinement of `MessageChannel`, `LastPacketSent` |
| `netchan_order` | `MCNetchanOrder` | violated | stacked messages can be overtaken |
| `reliable` | `MCReliable` | holds | order, exactly-once execution, sound acknowledgements, right string under each number, with rings of 2 that wrap: refinement of `CommandStream` in both directions; the inductive invariant `IInv`, types included |
| `reliable_stacked` | `MCReliableStacked` | holds | moves and snapshots after their commands, and delivery, with fragmented and stacked messages |
| `reliable_window` | `MCReliableWindow` | violated | the client's limit lets one command too many in |
| `reliable_key` | `MCReliableKey` | violated | a stacked message is encoded with another key than it announces |
| `jobs` | `MCJobs` | holds | no job lost or doubled, latch, shutdown, handles, completions, no hang; implements `JobLife`; the inductive invariant `MainOnlyInv` |
| `jobs_chunks` | `MCJobsChunks` | violated | a cancelled or throwing `parallel_for` is waited for for ever |
| `snapshot` | `MCSnapshot` | holds | what cgame reads is what the server built, of its map, and an answer stands until a gamestate wipes it; a delta's base is there; the inductive invariant `IInv` |
| `download` | `MCDownload` | holds | refinement of `FileTransfer`, no client dropped wrongly, every file arrives |
| `connection` | `MCConnection` | holds | no client in the world without the map, no double gamestate, everyone ends up playing; the inductive invariant `IInv` |
| `connection_restart` | `MCConnectionRestart` | violated | a restart takes a client into the game that has another map |

### Bounds

* `netchan`: fragments of 2 bytes, buffers of 5, three messages of length 1 to 5. Lengths below, at
  and above a multiple of the fragment size all occur, so do one to three packets per message, and
  three messages are enough for one to be stacked, one to be overtaken and old packets of both to
  come late.
* `reliable`: rings of 2 slots, 4 client and 3 server commands, 2 messages in flight each way: both
  rings wrap, and acknowledgements lag behind by a full ring, though never by more: the clamps of
  acknowledgements out of range take no effect (finding 14 has a case in which one does).
  `ClientWindow = 2` keeps the client's callers within the ring; the run `reliable_window` drops that.
* `reliable_stacked`: rings of 4, one message stacked, two commands one way and one the other: no
  ring wraps here, and the question is what stacking does to the order.
* `jobs`: two jobs, two workers, one further thread, two priorities, one resize; the two jobs may be
  the chunks of the `parallel_for`. Two of each are enough for every pair of them to race.
* `snapshot`: two entities, two maps with different baselines, scenes in which an entity appears,
  changes to and from its baseline, and goes. `PACKET_BACKUP` is 3, the margin of the delta base 0,
  the rings have 5 and 4 places and the client's margin is 2: with five messages all four rings
  wrap, bases roll off on either side and are asked for afterwards. Two messages down and one up
  may be in flight; a new one pushes out the oldest, and any message may overtake by loss. The
  margin of 0 is the hardest case, the code's 3 only makes the base younger.
* `download`: files of 6, 3 and 1 blocks and a window of 3, so that there are a file that is longer
  than the window, one whose EOF block waits for room, and one that fits with its EOF block; the
  largest number a short holds is 6, that of the longest file's EOF block. Two blocks per snapshot
  and three messages in flight, so a resent window overlaps its acknowledgements. Six commands in
  flight are more than the client has reason to send at a time. The last file may be refused or
  not be created.
* `connection`: three server ids, so a map change and a restart occur in both orders, or two of a
  kind; one attempt of the user to connect, after an earlier connection that may have left an
  active slot, a zombie, and a disconnect on its way; two packets in flight each way. With
  four server ids (800,000 states, five minutes) the properties hold as well; that is where
  `Unverified` occurs with no restart that came too early.

### Fairness

* `netchan`: weak fairness of `SV_Netchan_TransmitNextFragment`. `SV_Frame` calls
  `SV_SendClientMessages` in every frame, and that sends the next fragment when there is one.
  Nothing is assumed of the network.
* `reliable_stacked`: both sides go on writing packets (`CL_SendCmd`, `SV_SendClientMessages` run
  each frame), and of infinitely many packets some arrive (strong fairness of the two receiving
  actions). The conclusion allows the connection to end.
* `jobs`: every thread that can take a step does, bodies end, and the main thread goes on draining,
  as `Sys_SubsystemFrame` does in every frame and `wait` while it waits. Nothing makes anybody
  dispatch, wait, cancel or shut down.
* `download`: the server writes snapshots in every frame and executes the client's commands (weak
  fairness; their delivery is `CommandsDelivered`), and a block that is sent again and again
  arrives (strong fairness for each block number, for the window is resent for ever).
* `connection`: both sides run their frames (weak fairness of what a frame sends and executes, and
  of freeing a zombie), and of the packets of one kind that are sent again and again some arrive,
  the game not denying the client at that time (strong fairness for each kind). Nothing is assumed
  of the operator, the user, map changes or timeouts. `snapshot` checks safety only.

## 5. What is proved

Every invariant below was checked by TLC first, then proved for all values of the constants; those
of the reliable commands, the job system, the snapshots and the connection are among the
properties of the runs of section 4 (that of `Download` quantifies over all
numbers and all sequences of commands, which TLC cannot; it was checked with bounds in their place). None of the properties is inductive as it stands: each says what must not go
wrong, and nothing of the messages, half-done steps or queues by which it could. The inductive
invariants say that; they are at the end of each component's module, in named parts, and the proofs
have one step per action and part.

### Net channel: `NetchanProofs`

For every `FragmentSize` and `MaxMsgLen` above zero and every number of messages:

* `TypeCorrect`: the types, and with them that reassembly stays inside its buffer;
* `SequencesUnique`: packets under one sequence number carry one message;
* `WholeMessages`: `DeliveredWhole`, and `OrderedDelivery`: `DeliveredInOrder`;
* `Refinement`: `Netchan` implements `MessageChannel`.

All follow from `Inductive`, that `IInv` is an invariant. `DeliveredWhole` says nothing of a message
half assembled. `IInv` adds the chain from the sender to the receiver: the fragment buffer holds the
message that the last sequence number stands for (`SenderInv`); every packet in the network is a
piece of the message of its sequence number, and a fragment that is not full is its last piece
(`PacketInv`); what is assembled is a prefix of the message `fragmentSequence` stands for
(`AssemblyInv`), so that a last piece that fits completes it. The `sent` history only grows, which
keeps the meaning of old packets; that is a lemma of its own.

### Reliable commands: `ReliableProofs`, `ReliableOrderProofs`

`ReliableProofs` is about the server's commands, for all ring sizes and bounds, with messages
fragmented and stacked at will: `TypeCorrect`, `GameGets` (`GameGetsEveryCommand`),
`SnapshotsFollow` (`SnapshotsAfterCommands`) and `ServerCommandStream`, that this direction
implements `CommandStream`. They rest on `TypeOK /\ ServerInv`: each message of the server repeats all
its commands from a number the client has reached to the last one of the time it was made, and never
more than a ring; each slot of either ring holds the last command written to it; acknowledgements
lie between what was acknowledged and what was received. None of this depends on the order in which
the server's messages arrive.

`ReliableOrderProofs` is about the client's commands. Its theorems take as premises, by name, what
the code leaves to its callers.

* `ClientWindow <= MAX_RELIABLE_COMMANDS`: the client has no more commands unacknowledged than its
  ring holds. `CL_AddReliableCommand` lets one more in (finding 2).
* `[]AcksFresh`: no message on its way to the client acknowledges a command that is a ring or more
  behind the client's last one.

From these two, with messages stacked and overtaken at will: `CommandsInOrder` (`ExecutedInOrder`),
`AcknowledgementsAreSound`, `NoCommandLost` (`NeverLost`), `MovesFollow` (`MovesAfterCommands`),
`CommandsKept` (`ClientCommandsKept`), `ClientCommandStream`, and `Streams`, that both directions
implement `CommandStream` (`ImplementsStreams`). An overtaken message sets the client's
acknowledgement back, and the client repeats commands it had stopped sending; as the acknowledgement
is fresh, their slots still hold them. So `StreamInv` needs no order of the messages: the
packets of the client begin no later than after the server's last command, each command in them
with its own string.

When `AcksFresh` holds is proved as well:

* `FreshWhenNotStacked`: when the server transmits no message while an earlier one has fragments to
  go (`NothingStacked`). `SV_SendClientMessages` does not, but the calls of finding 1 may. Then the
  acknowledgements arrive in order, each at least as late as the last, which is what `ClientInv` adds to
  `StreamInv` and `NotStackedInductive` shows (`IInv`).
* `FreshUntilWrap`: until the client's commands wrap its ring, whatever is stacked.

It does not hold always: a message that stays stacked while the client adds a ring of commands
violates it, and then the clamp in `CL_ParseServerMessage` breaks the promise (finding 14).

`KeysMatch` (`KeysAgree`) has three premises: nothing is stacked, and on neither side are
a whole ring of commands unacknowledged (`ClientWindow < MAX_RELIABLE_COMMANDS`,
`ServerRingNotFull`). A stacked message breaks it (finding 3), and so does a full ring on either side
(finding 13). `KeyInv`, which is added to `IInv`, says that each message is keyed with the string of
the command it acknowledges, and that this one is still in its slot on the other side: it is less
than a ring old. Number 0, the empty string before the first command, needs a conjunct of its own
(`KeepsEmpty`).

### Job system: `JobSystemProofs`, `JobSystemKeptProofs`

`JobSystemProofs`, for any number of jobs, workers, threads, chunks and resizes, whoever dispatches:
`TypeCorrect` (in particular the latch never gets below zero), `RunsOnce` (`DoneOnce`),
`LatchCorrect` (`LatchCounts`), `WaitCorrect` (the action property `WaitSeesCompletion`), and
`LifeRefinement` (`ImplementsLife`: the pool implements `JobLife`).
`Inductive` is the invariant `IInv` behind them: who holds each job and how far it is (its body
counter against the place of its worker), that a completion is posted once and then waits or has
run, that the latch counts at least the chunks whose body has not ended, and for a wait of the main thread that the job
is done when the last drain begins.

The refinement goes through the steps by what they do to a job (`StepKinds`): a step is calm, and
then a stutter unless it is a cancel, or it is the one of a worker or a dispatch, and has a lemma of
its own that names the step of `JobLife`. The invariant is needed in each of them: that a body
starts once is the place of the job in no other worker (`HoldsInv`), that the completion is handed
over only after the body, or instead of a cancelled one, is the counter of the body against the
worker's place (`BodyInv`), and that the combined handle is not done too early is the latch, of
which zero means that every chunk was dispatched and has ended (`AllCounted`).

`JobSystemKeptProofs`, under `OnlyMain`, `Dispatchers = {Main}`: `JobsKept` (`JobKept`),
`ShutdownComplete` (`ShutdownDrains`), `HandlesGone` (`HandlesReleased`), all from `KeptInductive`.
In this repository only the main thread calls `Sys_JobSubmit`, and the three properties need it: a
dispatch from elsewhere can come between the joins of a shutdown, or have its completion run before
the handle is registered (end of section 6). `MainOnlyInv` adds the life of the pool to `IInv`
(stopped, with its queues empty once the workers have gone, or running with at least one worker),
the one place of each job, and that a handle in the table is of a job not completed.

### Connection: `ConnectionProofs`

For any number of maps, restarts, reconnects and packets in flight:

* `TypeCorrect`, of `Spec` alone;
* `EntersRight` (`EntersOnTheMap`), `OneGameState` (`OneGameStateInFlight`) and the invariant they
  follow from (`Inductive`), under the premise `ReconnectsQuietly` (section 3, `Connection`);
* `FirstConnection`: with `MaxConnects <= 1` both properties hold of `Spec`, without the premise.

The premise is needed: with `MaxServerId = 2`, `MaxConnects = 3` and three packets in flight each
way TLC finds a late connect packet of the first attempt accepted in the second, and two gamestates
of one id. In the code the challenge tells them apart.

`IInv` follows the map from the server to the client and back: what is in flight to the client has
its ids, maps and configstrings in order (`OrderInv`); the client's commands are those it received
(`ClientInv`); a client whose message bears the server's id and is later than the gamestate has that
gamestate's map (`MapInv`); until it has its `connectResponse` nothing it sends is taken for news
(`HandshakeInv`); and while a gamestate of the current id is in flight, nothing on its way to the
server can ask for another (`GameStateInv`, with `OneGameStateInFlight`).

### Snapshots: `SnapshotProofs`

For all sizes of the four rings and all margins, maps, entities and numbers of messages in flight:
`TypeCorrect`, `Exact` (`SnapshotExact`), `Settled` (`SnapshotsSettled`), `ForeignFlagged`
(`ForeignSnapshotFlagged`) and `BaseThere` (`BaseReceived`), all from `Inductive`, that `IInv` is an invariant. What is assumed of
the constants is that snapshots keep to the margins (`SceneAssumption`, section 3) and that entity
numbers and values are finite sets of naturals.

First come the facts about the data, of which none is an induction. Numbers less than a ring's size
apart have different places in it, so what is stored leaves every window alone that is still within
the ring (`StoredKeepsWindow`) and can be read back (`StoredHolds`, for which every place of the
window has to be the rank of one entity). And `RoundTrip`: what `CL_ParsePacketEntities` makes of a delta, applied to the base it was made
from, with the same baselines, is the set of entities it was made for.

`IInv` then ties the two ends together:

* a gamestate is sent only when none is in flight and the client lacks the map, so while the client
  is active on the server it is on the server's map and nothing can wipe its snapshots
  (`OrderInv`, `GameStateInv`, `ActiveInv`);
* what the client acknowledges in a `clc_move` that asks for deltas is a snapshot of that map which
  it has, and keeps until it is `PACKET_BACKUP` messages old; so it is with the base the server has
  been asked for and that of every delta in flight (`SnapshotInv`, `HeldInv`);
* the frame of a message holds what was built for it until the entity ring has gone past it, which
  is the last guard of `MayDelta`; so a delta starts from the history `built` of the snapshot
  the client has under the same number (`FrameInv`, `DeltaInv`);
* the window of a client's snapshot holds that same set until its own ring has gone past it, which
  is the guard of `Available` and of `CL_GetSnapshot` (`ParsedInv`).

With the last two, `RoundTrip` makes a parsed snapshot what the server built.

`Settled` is proved step by step from `IInv`: only a parse touches what cgame reads. One that keeps
its snapshot advances both client rings, so what is readable after it under an earlier number was
so before and its window is still whole (`KeptAre`, `SettledStore`); one that dumps it stores its
entities and leaves the snapshots alone (`SettledDumped`); a gamestate leaves nothing readable.

### Downloads: `DownloadProofs`

For any number of files of any length, window size, range of the block numbers, blocks per snapshot
and messages in flight, under the two assumptions of section 3:

* `Refinement`: `Download` implements `FileTransfer`;
* `Unbroken` (`NeverBroken`);
* `TypeCorrect`, under the premise `FilesFit`: the number of every block fits into a short. A longer
  file is sent past that number and never accepted there (finding 8), which the other theorems allow.

All follow from `Inductive`. The client believes a block by its number alone, so the invariant has
to say of every number in flight what it can still mean:

* the window holds the blocks of the open file from `clientBlock` to `currentBlock` (`ServerInv`),
  and the client's file its blocks up to the one expected (`ClientInv`);
* commands on their way are just the acknowledgements of the blocks between the two, after which
  the client may ask for the next file or part (`Agreement`: one disjunct for each stage of a file);
* a message of some use to the client (`Live`: it expects a block that is not the first, or the
  message comes after a block 0 that it may take) is of the file that the server has open, with the
  right content for every number from the one expected (`OfFile`); what is older may have been
  overwritten in the window, and is refused;
* between the EOF block of a file and the command that asks for the next, no block 0 is sent
  (`EofLast`). This is where the code needs `LongFilesAssumption`: when the EOF block is in the
  window, block 0 is not.

Numbers are compared after `Short`, which is the identity only up to `ShortMax`; a number of the
window is less than twice that range ahead, so a wrapped one is negative and matches nothing
(`ShortKeeps`).

What `Parsed` does with a message is an induction over its blocks. Where the library's induction
rules cannot be used, `Least` stands in: a set of naturals that is not empty has a least element
(from the well-foundedness of `<`). `ParsedIn` takes for each number of blocks a set of clients, and
shows that a parse that starts in the first and goes from each set to the next ends in the last: the
least number of blocks for which it does not would be the step from its predecessor.

### Model-checked only

* All liveness (`LastPacketSent`, `CommandsDelivered`, the completions, waits and shutdowns of the
  job system, `FilesComplete`, `EndsUpPlaying`): the prover does not reason about fairness.
* `SentInCallOrder`, `WaitReturns` with `parallel_for` disturbed, and `RestartReachesClients`, which
  runs show violated. (So are `KeysAgree` and `ClientCommandsKept`; the theorems above say under what
  premises they hold.)

## 6. Disagreements between the code and what it says

1 to 5 each have a run that TLC finds violated. 6 to 14 were met while translating the code or proving; the
models contain these steps, and their properties leave the case out by name where they would fail.

1. `server/sv_net_chan.cpp:187`: stacking sends a fragment through `Netchan_TransmitNextFragment`,
   which does not pop the queue when it was the last one. Messages are then sent out of order, and
   the stacked one waits for the next message that fragments (`netchan_order`).
   `SV_SendClientMessages` itself never stacks; a resent gamestate, `SV_VerifyPaks_f` and
   `SV_FinalMessage` can.
2. `client/cl_main.cpp:143`: off by one against the ring size (`reliable_window`).
3. `server/sv_net_chan.cpp:147`: the key of a stacked message (`reliable_key`).
4. `sys/threading/job_system.cpp:183`: the latch of `parallel_for` (`jobs_chunks`). Nothing in the
   engine calls `parallel_for` yet.
5. `server/sv_ccmds.cpp:314`: `map_restart` puts every client into the game, also one that waits for
   the gamestate of another map (`connection_restart`). It is enough that a map change and a restart
   follow each other before the client's next packet.
6. `server/sv_client.cpp:566`: the gamestate that answers `donedl` is not resent when it is lost,
   since the client has the right server id already.
7. `client/cl_parse.cpp:499`: a block does not name its file. After a file shorter than the window,
   its block 0 may still be in flight when the client expects block 0 of the next. With
   `Blocks = <<1, 1>>`, and without `LongFilesAssumption`, `Download` violates `NeverBroken` and
   `ImplementsTransfer`. So does a file that the client cannot create: it answers its block 0 with
   `stopdl` and asks for the next file, and a resent block 0 is taken for that of the next. With
   `UnwritableSets = {{1}}`, and without `UnwritableAssumption`, `Download` violates
   `ImplementsTransfer`. When it is the last file the client says `stopdl` and goes on to complete
   its downloads a second time, since `downloadTempName` is not cleared: `downloadRestart` is clear by
   then, so it does not say `donedl` again but loads the map of the old gamestate, which is outside
   `Download`.
8. `client/cl_parse.cpp:479`: the 32,768th block of a file (64 MB) is read with a negative number
   and refused for ever. With `Blocks = <<6>>` and `ShortMax = 4`, `Download` violates
   `FilesComplete`.
9. `server/sv_client.cpp:678`: the refusal of a file is sent once; a client that does not get it
   waits for ever. `FilesComplete` asks nothing of refused files.
10. `client/cl_main.cpp:1544`: the out of band disconnect is always ignored, as the packet itself
    counts as news from the server. A client whose slot was freed by a timeout does not learn of it:
    the state `Forgotten` in `EndsUpPlaying`.
11. `client/cl_cgame.cpp:750`: configstring commands from before a gamestate are executed after it,
    and may set an old server id; the map is then loaded a second time. `Connection` recovers. So a
    client may also be sent a gamestate it did get (the comment at `server/sv_client.cpp:1374` has it that the
    client "has dropped the last gamestate"): with `MaxServerId = 4` TLC finds a client put back from the
    world to loading though it has the current map.
12. `server/sv_client.cpp:1260`: a pure server forgets a client's `cp` when it sends a gamestate. If
    that is lost, and the client has the right server id again by a configstring command (after 11),
    neither gamestate nor `cp` follows, and its moves are ignored for ever: the state `Unverified` in
    `EndsUpPlaying`. Without that exception the property fails with `MaxServerId = 4`.
13. `server/sv_main.cpp:142`: the server keeps a client that has `MAX_RELIABLE_COMMANDS` commands
    unacknowledged. The slot of the command its packets acknowledge, which is the key to decode them,
    has then been overwritten (`server/sv_net_chan.cpp:109`). The proof of `KeysMatch` needs
    `ServerRingNotFull`; TLC finds `KeysAgree` violated with `MAX_RELIABLE_COMMANDS = 2`, `ClientWindow = 1`,
    `MaxClientCommands = 2`, `MaxServerCommands = 3`, `MaxInFlight = 2`, `MaxStacked = 0`. The client's
    ring has the same weakness.
14. `client/cl_parse.cpp:604`: when a stacked message was overtaken (1) for so long that its
    acknowledgement is a ring behind, the client counts commands as received that were not, and its
    usercmds overtake them. The proofs name the premise (`AcksFresh`); without it TLC finds `AcknowledgementsSound`
    and `MovesAfterCommands` violated with `MAX_RELIABLE_COMMANDS = 2`, `ClientWindow = 2`,
    `MaxClientCommands = 4`, `MaxServerCommands = 1`, `MaxInFlight = 3`, `MaxStacked = 1`.

Two more races of the job system need a caller the repository does not have, and the runs show them
when `Dispatchers` is widened: a dispatch from a worker while `shutdown` joins restarts the pool
and leaves the old workers asleep (`ShutdownReturns`, with `MCMainAndWorkers`, one worker per
pool), and a `Sys_JobSubmit` off the main thread whose completion runs before the handle is
registered leaks the handle (`HandlesReleased`, with `MCThreadOnly`).

## 7. Not modelled

The repository has about half a million lines: the renderer, game rules, bots, menus, map compiler
and editor, a C compiler, and vendored libraries make up nearly all of them. They are geometry and
floating-point arithmetic, tables, user interface and batch programs, sequential and without the
interleavings and failures a model checker is for. The modules cover well under one per cent of the
lines, and nearly all of the code in which packets, peers or threads race. What is left of that:

* the lossy lane and the time budgets of the main-thread queue, and the HTTP downloader, a single
  thread with a status word and a cancel flag (`JobSystem` has the reliable lane);
* the loopback ring of a local game, and the size limits of messages;
* several clients at once, other than as users of the entity ring: the slots are independent but
  for the choice of a free one;
* composition of `Connection` with `Download` (plan, 8).

`PROJECT.json` gives the reason for each component.

## 8. Running

    tlc -workers 2 -config MCNetchan.cfg MCNetchan
    tlapm NetchanProofs.tla

The proofs are in `NetchanProofs`, `ReliableProofs`, `ReliableOrderProofs`, `JobSystemProofs`,
`JobSystemKeptProofs`, `ConnectionProofs`, `SnapshotProofs` and `DownloadProofs`; the longest, the
last three, take some minutes each.

Each property has a mutant of the code that violates it: the operators marked *Mistake* or *Mutant*
in the modules, paired in `PROJECT.json`.
