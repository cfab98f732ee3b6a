--------------------------- MODULE SkylineStream ---------------------------
(***************************************************************************)
(* What an observer of the program sees: a stream of tuples goes in, and   *)
(* for every K-th complete window a set of tuples comes out. README.md     *)
(* promises the skyline of the window. The programs deliver less: a set    *)
(* between that skyline and the window itself, and the program of          *)
(* parallel/ may even miss a tuple (EmitBut).                              *)
(***************************************************************************)
EXTENDS Skyline

CONSTANTS
  N,        \* stream length
  K         \* sliding factor

VARIABLES
  stream,   \* the tuples received so far
  output    \* the sets of tuples emitted so far, one for each window

\* The number of windows to be emitted once len tuples have arrived.
Windows(len) == IF len < W THEN 0 ELSE (len - W) \div K + 1

Due == Len(output) < Windows(Len(stream))

Init ==
  /\ stream = <<>>
  /\ output = <<>>

\* A window is emitted before the next tuple is taken in.
Receive ==
  /\ Len(stream) < N
  /\ ~Due
  /\ \E new \in Tuple : stream' = Append(stream, new)
  /\ UNCHANGED output

\* A window is emitted of which the tuples missing may be missing.
EmitBut(missing) ==
  /\ Due
  /\ \E S \in SUBSET WindowTuples(stream, Len(stream) - 1) :
       /\ SkylineTuples(stream, Len(stream) - 1) \ missing \subseteq S
       /\ output' = Append(output, S)
  /\ UNCHANGED stream

Emit == EmitBut({})

Next == Receive \/ Emit

Spec == Init /\ [][Next]_<<stream, output>>
============================================================================
