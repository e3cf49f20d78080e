--------------------------- MODULE CommandStream ---------------------------
(***************************************************************************)
(* What a stream of reliable commands promises, without rings, messages or *)
(* acknowledgements: the other side executes the commands in the order     *)
(* they were added, each once, each with its own string, none left out.    *)
(* What was executed is never taken back.                                  *)
(***************************************************************************)
EXTENDS Naturals, Sequences

VARIABLES
  added,     \* how many commands were added; the n-th is the string n
  executed   \* the strings executed by the other side

streamVars == <<added, executed>>

Init == added = 0 /\ executed = <<>>

Add ==
  /\ added' = added + 1
  /\ UNCHANGED executed

\* Any of the commands waiting, up to the n-th.
Execute == \E n \in Len(executed) + 1 .. added :
  /\ executed' = [k \in 1 .. n |-> k]
  /\ UNCHANGED added

Next == Add \/ Execute

Spec == Init /\ [][Next]_streamVars
=============================================================================
