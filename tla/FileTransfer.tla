---------------------------- MODULE FileTransfer ----------------------------
(***************************************************************************)
(* What a download promises: the files the client asked for, one after the *)
(* other, each copied from its first block to its last, with no block left *)
(* out, repeated, or taken from another file.  A file may be given up as   *)
(* long as nothing of it is copied.  The code is module Download.          *)
(***************************************************************************)
EXTENDS Naturals, Sequences

CONSTANT Blocks     \* number of blocks of each file, in the order wanted

VARIABLES file,     \* the file being copied; one past the last when done
          copied    \* what has been copied of each file

\* A block stands for its bytes: its file and its number.
Prefix(f, n) == [k \in 1 .. n |-> <<f, k - 1>>]

Init == file = 1 /\ copied = [f \in DOMAIN Blocks |-> <<>>]

\* Some more blocks; the next file is begun when one is complete.
Copy ==
  /\ file \in DOMAIN Blocks
  /\ \E n \in Len(copied[file]) .. Blocks[file] :
       /\ copied' = [copied EXCEPT ![file] = Prefix(file, n)]
       /\ file' \in {file} \cup {f \in {file + 1} : n = Blocks[file]}

GiveUp ==
  /\ file \in DOMAIN Blocks
  /\ copied[file] = <<>>
  /\ file' = file + 1
  /\ UNCHANGED copied

Spec == Init /\ [][Copy \/ GiveUp]_<<file, copied>>
=============================================================================
