--------------------------- MODULE KeypathRangeSpec ---------------------------
(***************************************************************************)
(* What hdderive promises (spec section 4.1), without the scan: the paths  *)
(* of the range contract of the keypath are handed to the derivation one   *)
(* at a time, in ascending order of the index; the command stops at the   *)
(* first derivation that fails, and ends once every path was derived.      *)
(***************************************************************************)
EXTENDS Naturals, Sequences

CONSTANT Contract(_)  \* the ordered paths the contract derives from a keypath

VARIABLES
  keypath,  \* the -m argument
  calls,    \* the derivations so far: [path, ok] in call order
  status    \* "run", "done" (every path derived), "failed"

vars == <<keypath, calls, status>>

Init == calls = <<>> /\ status = "run"

\* Derive the next path of the contract; a failure ends the command, and
\* the command may end with the call that derives the last path.
Call ==
  LET paths == Contract(keypath)
  IN /\ status = "run" /\ Len(calls) < Len(paths)
     /\ \E ok \in BOOLEAN :
          /\ calls' = Append(calls, [path |-> paths[Len(calls) + 1], ok |-> ok])
          /\ status' \in IF ~ok THEN {"failed"}
                         ELSE IF Len(calls') = Len(paths)
                                THEN {"run", "done"} ELSE {"run"}
     /\ UNCHANGED keypath

\* Every path was derived.
Finish ==
  /\ status = "run" /\ Len(calls) = Len(Contract(keypath))
  /\ status' = "done"
  /\ UNCHANGED <<keypath, calls>>

Next == Call \/ Finish

Spec == Init /\ [][Next]_vars /\ WF_vars(Next)

================================================================================
