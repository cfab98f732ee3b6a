------------------------------ MODULE ForkJoin ------------------------------
(***************************************************************************)
(* What a caller of parallel_for relies on: the iterations of a call run   *)
(* once each, in any order and any number of them at a time, all of them   *)
(* between the call and its return.                                        *)
(***************************************************************************)
EXTENDS Integers

CONSTANT
  Lengths                       \* how many iterations a call may have

VARIABLES
  calling,                      \* the caller is inside parallel_for
  iteration                     \* progress of each iteration of the last call

vars == <<calling, iteration>>

Init ==
  /\ calling = FALSE
  /\ iteration = [j \in {} |-> "over"]

Call ==
  /\ ~calling
  /\ calling' = TRUE
  /\ \E n \in Lengths : iteration' = [j \in 0..(n - 1) |-> "waiting"]

Begin(j) ==
  /\ iteration[j] = "waiting"
  /\ iteration' = [iteration EXCEPT ![j] = "running"]

End(j) ==
  /\ iteration[j] = "running"
  /\ iteration' = [iteration EXCEPT ![j] = "over"]

Step ==
  /\ calling
  /\ \E j \in DOMAIN iteration : Begin(j) \/ End(j)
  /\ calling' = calling

Return ==
  /\ calling
  /\ \A j \in DOMAIN iteration : iteration[j] = "over"
  /\ calling' = FALSE
  /\ iteration' = iteration

Next == Call \/ Step \/ Return

Spec == Init /\ [][Next]_vars
=============================================================================
