------------------------------ MODULE Download ------------------------------
(***************************************************************************)
(* Download of missing pk3 files over the game connection: a client that   *)
(* needs files asks for them one by one (code/client/cl_main.cpp,          *)
(* cl_parse.cpp), and the server puts blocks of the file into the          *)
(* snapshots it sends (code/server/sv_client.cpp).                         *)
(*                                                                         *)
(* Blocks travel in messages that may be lost but keep their order (the    *)
(* promise of Netchan).  The client answers with reliable commands, which  *)
(* are executed once and in order (the promise of ReliableCommands).       *)
(* The server resends its window when nothing was acknowledged for a       *)
(* second; the second is a choice.  A block is its file and number, the    *)
(* block of size zero that ends a file is EOF.                             *)
(***************************************************************************)
EXTENDS Integers, Sequences

CONSTANTS
  Blocks,              \* number of blocks of each file, in the order wanted
  RefusedSets,         \* which files the server may refuse to send
  UnwritableSets,      \* which files the client may fail to create
  MAX_DOWNLOAD_WINDOW, \* blocks that may be unacknowledged
  BlocksPerSnap,       \* most blocks that fit into a snapshot
  ShortMax,            \* largest number that MSG_WriteShort keeps
  MaxInFlight,         \* bound on the messages in flight to the client
  MaxCommands          \* bound on the commands in flight to the server

ASSUME BlocksAssumption == Blocks \in Seq(Nat \ {0}) /\ Blocks # <<>>
ASSUME WindowAssumption ==
  /\ MAX_DOWNLOAD_WINDOW \in 1 .. ShortMax
  /\ ShortMax \in Nat
ASSUME BoundsAssumption ==
  BlocksPerSnap \in Nat /\ MaxInFlight \in Nat \ {0}
ASSUME RefusedAssumption == RefusedSets \subseteq SUBSET DOMAIN Blocks

\* A client that expects block zero of a file takes any block zero, and the one
\* of the file before may have been sent twice: when the client could not create
\* that file, or when its EOF block is sent while its block zero is still in the
\* window.  Nothing in the code tells the two blocks apart; the README shows
\* what happens then.
ASSUME UnwritableAssumption == UnwritableSets \subseteq SUBSET {Len(Blocks)}
ASSUME LongFilesAssumption ==
  \A f \in DOMAIN Blocks :
    f < Len(Blocks) => Blocks[f] > MAX_DOWNLOAD_WINDOW - 1

VARIABLES
  server,   \* the download fields of client_t
  window,   \* downloadBlocks and downloadBlockSize
  client,   \* the download fields of clc
  down,     \* messages in flight to the client: sequences of blocks
  commands  \* reliable commands of the client, not yet executed

vars == <<server, window, client, down, commands>>

File == DOMAIN Blocks
NoFile == 0
EOF == <<0, 0>>
REFUSED == <<0, 1>>
Nothing == Len(Blocks) + 1      \* no more files wanted

\* The network holds some messages, and loses the oldest to a new one.
InFlight(msg) ==
  IF Len(down) < MaxInFlight THEN Append(down, msg)
                             ELSE Append(Tail(down), msg)
-----------------------------------------------------------------------------
(* The server: SV_WriteDownloadToClient, part by part.                     *)

\* Mistake: the acknowledgements of the last file are kept.
OpenedKeepsClientBlock(s) ==
  IF s.open THEN s
  ELSE [s EXCEPT !.open = TRUE, !.currentBlock = 0, !.xmitBlock = 0,
                 !.count = 0, !.eof = FALSE]

\* The file is opened by the first snapshot after the command.
Opened(s) ==
  IF s.open THEN s
  ELSE [s EXCEPT !.open = TRUE, !.currentBlock = 0, !.clientBlock = 0,
                 !.xmitBlock = 0, !.count = 0, !.eof = FALSE]

\* Mistake: the window takes a block more than it has room for.
FilledByOneMore(s) ==
  LET room == MAX_DOWNLOAD_WINDOW + 1 - (s.currentBlock - s.clientBlock)
      left == Blocks[s.name] - s.count
      read == IF left < room THEN left ELSE room
      end  == s.count + read = Blocks[s.name] /\ ~s.eof /\ read < room
  IN  [s EXCEPT !.currentBlock = @ + read + IF end THEN 1 ELSE 0,
                !.count = @ + read, !.eof = @ \/ end]

\* Blocks are read while the window has room, and the EOF block added.  FS_Read
\* does not return a negative size of a file that FS_SV_FOpenFileRead opened.
Filled(s) ==
  LET room == MAX_DOWNLOAD_WINDOW - (s.currentBlock - s.clientBlock)
      left == Blocks[s.name] - s.count
      read == IF left < room THEN left ELSE room
      end  == s.count + read = Blocks[s.name] /\ ~s.eof /\ read < room
  IN  [s EXCEPT !.currentBlock = @ + read + IF end THEN 1 ELSE 0,
                !.count = @ + read, !.eof = @ \/ end]

\* The window after the step from s to t has read blocks.
WindowFilled(s, t) ==
  [i \in DOMAIN window |->
     LET new == {n \in s.currentBlock .. t.currentBlock - 1 :
                   n % MAX_DOWNLOAD_WINDOW = i}
     IN  IF new = {} THEN window[i]
         ELSE LET n == CHOOSE n \in new : \A m \in new : m <= n
              IN  IF n < Blocks[t.name] THEN <<t.name, n>> ELSE EOF]

\* Mistake: the window is never sent again.
FirstBlockNoResend(s, expired) == s.xmitBlock

\* Where transmission goes on: the window is resent when all of it has been
\* sent and the second is over.
FirstBlock(s, expired) ==
  IF s.xmitBlock = s.currentBlock /\ expired THEN s.clientBlock
                                             ELSE s.xmitBlock

\* MSG_WriteShort and MSG_ReadShort.
Short(n) == ((n + ShortMax + 1) % (2 * (ShortMax + 1))) - (ShortMax + 1)

\* The blocks of one snapshot: sending a block restarts the second, so the
\* window is resent at most once, at the beginning.
BlocksOf(s, win, first, n) ==
  [k \in 1 .. IF s.currentBlock - first < n THEN s.currentBlock - first ELSE n |->
     [block |-> Short(first + k - 1),
      data  |-> win[(first + k - 1) % MAX_DOWNLOAD_WINDOW]]]

\* SV_WriteDownloadToClient: n is blockspersnap at the client's present rate.
SV_WriteDownloadToClient(expired, n) ==
  LET s      == Filled(Opened(server))
      win    == WindowFilled(Opened(server), s)
      first  == FirstBlock(s, expired)
      blocks == BlocksOf(s, win, first, n)
  IN  /\ server.name \in File \ server.refused
      /\ s.clientBlock # s.currentBlock
      /\ blocks # <<>>
      /\ server' = [s EXCEPT !.xmitBlock = first + Len(blocks)]
      /\ window' = win
      /\ down' = InFlight(blocks)
      /\ UNCHANGED <<client, commands>>

\* A file the server has not, or may not send: block zero with size -1, once.
SV_RefuseDownload ==
  /\ server.name \in server.refused
  /\ server' = [server EXCEPT !.name = NoFile]
  /\ down' = InFlight(<<[block |-> 0, data |-> REFUSED]>>)
  /\ UNCHANGED <<window, client, commands>>

\* SV_CloseDownload
Closed(s) == [s EXCEPT !.name = NoFile, !.open = FALSE]

SV_BeginDownload_f(cmd) ==
  /\ cmd.type = "download"
  /\ server' = [Closed(server) EXCEPT !.name = cmd.arg]

SV_StopDownload_f(cmd) ==
  /\ cmd.type = "stopdl"
  /\ server' = Closed(server)

\* The gamestate that answers is not part of this module.
SV_DoneDownload_f(cmd) ==
  /\ cmd.type = "donedl"
  /\ UNCHANGED server

\* An acknowledgement moves the window, or closes the file after its EOF
\* block; one of another block drops the client.
SV_NextDownload_f(cmd) ==
  /\ cmd.type = "nextdl"
  /\ server' =
       IF cmd.arg # server.clientBlock
       THEN [Closed(server) EXCEPT !.broken = TRUE]
       ELSE IF window[server.clientBlock % MAX_DOWNLOAD_WINDOW] = EOF
       THEN Closed(server)
       ELSE [server EXCEPT !.clientBlock = @ + 1]

SV_ClientCommand ==
  /\ commands # <<>> /\ ~server.broken
  /\ commands' = Tail(commands)
  /\ LET cmd == Head(commands)
     IN  \/ SV_BeginDownload_f(cmd)
         \/ SV_NextDownload_f(cmd)
         \/ SV_StopDownload_f(cmd)
         \/ SV_DoneDownload_f(cmd)
  /\ UNCHANGED <<window, client, down>>
-----------------------------------------------------------------------------
(* The client.                                                             *)

Command(type, arg) == [type |-> type, arg |-> arg]

\* CL_NextDownload and CL_BeginDownload, or CL_DownloadsComplete.
NextFile(c) ==
  IF c.name + 1 \in File
  THEN [c EXCEPT !.name = @ + 1, !.block = 0,
                 !.out = Append(@, Command("download", c.name + 1))]
  ELSE [c EXCEPT !.name = Nothing, !.out = Append(@, Command("donedl", 0))]

Stopped(c) == [c EXCEPT !.out = Append(@, Command("stopdl", 0))]

\* A block that is the expected one; a file that cannot be created is given up.
Accepted(c, b) ==
  LET acked == [c EXCEPT !.block = @ + 1,
                         !.out = Append(@, Command("nextdl", c.block))]
  IN  IF c.name \in c.unwritable THEN NextFile(Stopped(c))
      ELSE IF b.data = EOF THEN NextFile(acked)
      ELSE [acked EXCEPT !.copied[c.name] = Append(@, b.data)]

\* Mistake: the number of the block is not looked at.
ParseBlockUnchecked(c, b) ==
  IF c.error THEN c
  ELSE IF b.data = REFUSED THEN [c EXCEPT !.error = TRUE]
  ELSE IF c.name = Nothing THEN Stopped(c)
  ELSE Accepted(c, b)

\* CL_ParseDownload: a refusal is a fatal error, whatever block is expected.
\* When nothing more is wanted, a block gets the answer stopdl, also when it is
\* tried on a last file that could not be created: CL_DownloadsComplete has
\* sent donedl already, and by now would load the map.
ParseBlock(c, b) ==
  IF c.error THEN c
  ELSE IF b.data = REFUSED THEN [c EXCEPT !.error = TRUE]
  ELSE IF b.block # c.block THEN c
  ELSE IF c.name = Nothing THEN Stopped(c)
  ELSE Accepted(c, b)

\* The blocks of a message, one after the other.
Parsed(c, blocks) ==
  LET parsed[n \in 0 .. Len(blocks)] ==
        IF n = 0 THEN c ELSE ParseBlock(parsed[n - 1], blocks[n])
  IN  parsed[Len(blocks)]

\* The k-th message in flight arrives; those before it are lost.
CL_ParseServerMessage(k) ==
  LET c == Parsed(client, down[k])
  IN  /\ Len(commands) < MaxCommands
      /\ client' = [c EXCEPT !.out = <<>>]
      /\ commands' = IF c.error THEN <<>> ELSE commands \o c.out
      /\ down' = SubSeq(down, k + 1, Len(down))
      /\ UNCHANGED <<server, window>>
-----------------------------------------------------------------------------
\* The client has a gamestate and wants the first file.
Init ==
  /\ server \in [name : {NoFile}, open : {FALSE}, currentBlock : {0},
                 clientBlock : {0}, xmitBlock : {0}, count : {0},
                 eof : {FALSE}, broken : {FALSE}, refused : RefusedSets]
  /\ window = [i \in 0 .. MAX_DOWNLOAD_WINDOW - 1 |-> EOF]
  /\ client \in [name : {1}, block : {0}, error : {FALSE},
                 copied : {[f \in File |-> <<>>]}, out : {<<>>},
                 unwritable : UnwritableSets]
  /\ down = <<>>
  /\ commands = <<Command("download", 1)>>

Next ==
  \/ \E expired \in BOOLEAN, n \in 1 .. BlocksPerSnap :
       SV_WriteDownloadToClient(expired, n)
  \/ SV_RefuseDownload
  \/ SV_ClientCommand
  \/ \E k \in DOMAIN down : CL_ParseServerMessage(k)

\* Snapshots are sent all the time, commands get through, and so does a block
\* that is sent again and again.
Fairness ==
  /\ WF_vars(\E expired \in BOOLEAN, n \in 1 .. BlocksPerSnap :
               SV_WriteDownloadToClient(expired, n))
  /\ WF_vars(SV_ClientCommand)
  /\ \A n \in 0 .. ShortMax :
       SF_vars(\E k \in DOMAIN down :
                 /\ \E b \in DOMAIN down[k] : down[k][b].block = n
                 /\ CL_ParseServerMessage(k))

Spec == Init /\ [][Next]_vars /\ Fairness
-----------------------------------------------------------------------------
Transfer == INSTANCE FileTransfer
              WITH file <- client.name, copied <- client.copied

BlockNumber == 0 .. ShortMax + 1

\* Types: the window holds at most MAX_DOWNLOAD_WINDOW unacknowledged blocks,
\* and neither end's block numbers outgrow the short that carries them.
TypeOK ==
  /\ server \in [name : File \cup {NoFile}, open : BOOLEAN,
                 currentBlock : BlockNumber, clientBlock : BlockNumber,
                 xmitBlock : BlockNumber, count : Nat, eof : BOOLEAN,
                 broken : BOOLEAN, refused : SUBSET File]
  /\ server.currentBlock - server.clientBlock \in 0 .. MAX_DOWNLOAD_WINDOW
  /\ server.xmitBlock <= server.currentBlock
  /\ client.name \in File \cup {Nothing}
  /\ client.block \in BlockNumber

\* A download copies the files the client wants, block by block, whatever is
\* lost and resent: CL_ParseDownload, which looks only at the number of a
\* block, never takes one that is stale or was overwritten in the window of
\* SV_WriteDownloadToClient.
ImplementsTransfer == Transfer!Spec

\* The argument of nextdl is downloadClientBlock ("it should be the same as
\* cl->downloadClientBlock", SV_NextDownload_f): a client that does what the
\* code does is never dropped for a broken download.
NeverBroken == ~server.broken

\* Every file that the server does not refuse and the client can create is
\* copied to its end, once blocks sent again and again get through.
FilesComplete ==
  <>(\A f \in File \ (server.refused \cup client.unwritable) :
       client.copied[f] = Transfer!Prefix(f, Blocks[f]))
-----------------------------------------------------------------------------
(* The inductive invariant.                                                *)

Refusal == <<[block |-> 0, data |-> REFUSED]>>
Contents == (File \X Nat) \cup {EOF}
Message == Seq([block : Int, data : Contents]) \cup {Refusal}

\* What block n of file f holds.
Block(f, n) == IF n < Blocks[f] THEN <<f, n>> ELSE EOF

\* The acknowledgements of the blocks from m to n - 1.
Acks(m, n) == [i \in 1 .. n - m |-> Command("nextdl", m + i - 1)]

ClientCommands ==
  [type : {"download", "nextdl", "stopdl", "donedl"}, arg : Nat]
Parting == {Command("stopdl", 0), Command("donedl", 0)}

Servers ==
  [name : File \cup {NoFile}, open : BOOLEAN, currentBlock : Nat,
   clientBlock : Nat, xmitBlock : Nat, count : Nat, eof : BOOLEAN,
   broken : BOOLEAN, refused : SUBSET File]

Clients ==
  [name : File \cup {Nothing}, block : 0 .. ShortMax + 1, error : BOOLEAN,
   copied : [File -> Seq(File \X Nat)],
   out : Seq(ClientCommands), unwritable : SUBSET {Len(Blocks)}]

TypesInv ==
  /\ server \in Servers
  /\ window \in [0 .. MAX_DOWNLOAD_WINDOW - 1 -> Contents]
  /\ client \in Clients
  /\ client.out = <<>>
  /\ down \in Seq(Message)
  /\ commands \in Seq(ClientCommands)

\* The window holds the blocks of the file that have been read and are not
\* acknowledged.
ServerInv(s, win) ==
  /\ s.currentBlock - s.clientBlock \in 0 .. MAX_DOWNLOAD_WINDOW
  /\ s.xmitBlock <= s.currentBlock
  /\ \E f \in File : s.currentBlock <= Blocks[f] + 1
  /\ s.open =>
       /\ s.name \in File \ s.refused
       /\ s.count <= Blocks[s.name]
       /\ s.currentBlock = s.count + IF s.eof THEN 1 ELSE 0
       /\ s.eof => s.count = Blocks[s.name]
       /\ \A n \in s.clientBlock .. s.currentBlock - 1 :
            win[n % MAX_DOWNLOAD_WINDOW] = Block(s.name, n)

\* The file wanted is copied up to the block expected, and none after it.
ClientInv(c) ==
  /\ \E f \in File : c.block <= Blocks[f] + 1
  /\ c.name \in File =>
       /\ c.block <= Blocks[c.name]
       /\ c.copied[c.name] = Transfer!Prefix(c.name, c.block)
       /\ c.name \in c.unwritable => c.block = 0
       /\ \A g \in File : g > c.name => c.copied[g] = <<>>

\* The client wants a file, and the server has it open.
Copying(s, c, cmds) ==
  /\ c.name \in File
  /\ s.open
  /\ s.name = c.name
  /\ c.block \in s.clientBlock .. s.currentBlock
  /\ cmds = Acks(s.clientBlock, c.block)

\* The server knows which file is wanted, and has not opened it yet, or never will.
Asked(s, c, cmds) ==
  /\ c.name \in File
  /\ ~s.open
  /\ s.name = c.name \/ (s.name = NoFile /\ c.name \in s.refused)
  /\ c.block = 0
  /\ cmds = <<>>

Asking(s, c, cmds) ==
  /\ c.name \in File
  /\ ~s.open
  /\ s.name = NoFile
  /\ c.block = 0
  /\ cmds = <<Command("download", c.name)>>

\* The server has the file before open, and its last blocks are not all
\* acknowledged.
LeavingFile(s) ==
  /\ s.open
  /\ s.currentBlock = Blocks[s.name] + 1
  /\ s.clientBlock <= Blocks[s.name]
  /\ Blocks[s.name] <= ShortMax

AskingNext(s, c, cmds) ==
  /\ c.name \in File
  /\ LeavingFile(s)
  /\ s.name + 1 = c.name
  /\ s.xmitBlock >= 1
  /\ s.clientBlock >= 1
  /\ c.block = 0
  /\ cmds = Acks(s.clientBlock, Blocks[s.name] + 1)
              \o <<Command("download", c.name)>>

\* The client wants nothing more.
Finishing(s, c, cmds) ==
  /\ c.name = Nothing
  /\ \E rest \in Seq(Parting) :
       \/ cmds = rest
       \/ /\ LeavingFile(s)
          /\ cmds = Acks(s.clientBlock, Blocks[s.name] + 1) \o rest

Agreement(s, c, cmds) ==
  \/ Copying(s, c, cmds)
  \/ Asked(s, c, cmds)
  \/ Asking(s, c, cmds)
  \/ AskingNext(s, c, cmds)
  \/ Finishing(s, c, cmds)

HasBlock(m, n) == \E e \in DOMAIN m : m[e].block = n

\* Message j of q can be of use to the client: it expects a block that is not
\* the first of a file, or it will when it has taken the block zero of a
\* message before.
Live(c, q, j) == c.block > 0 \/ \E i \in 1 .. j : HasBlock(q[i], 0)

\* A message with blocks of the file that is copied: what is older than the
\* block expected may have been overwritten in the window.
OfFile(s, c, m) ==
  \E first \in Nat :
    /\ first + Len(m) <= s.currentBlock
    /\ \A e \in DOMAIN m :
         /\ m[e].block = Short(first + e - 1)
         /\ m[e].data \in Contents
         /\ first + e - 1 >= c.block =>
              m[e].data = Block(s.name, first + e - 1)

\* After the EOF block of a file, its block zero is not sent.
EofLast(s, q, j) ==
  s.name < Len(Blocks) /\ HasBlock(q[j], Blocks[s.name]) =>
    /\ s.xmitBlock >= 1
    /\ \A i \in j + 1 .. Len(q) : ~HasBlock(q[i], 0)

DownInv(s, c, cmds, q) ==
  c.name \in File =>
    \A j \in DOMAIN q :
      Live(c, q, j) =>
        IF c.name \in s.refused
        THEN s.name = NoFile /\ cmds = <<>> /\ q[j] = Refusal
        ELSE /\ s.open
             /\ s.name = c.name
             /\ OfFile(s, c, q[j])
             /\ EofLast(s, q, j)

IInv ==
  /\ TypesInv
  /\ ServerInv(server, window)
  /\ ClientInv(client)
  /\ ~server.broken
  /\ client.error => commands = <<>>
  /\ ~client.error => Agreement(server, client, commands)
  /\ ~client.error => DownInv(server, client, commands, down)
=============================================================================
