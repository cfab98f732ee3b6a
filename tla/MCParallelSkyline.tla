------------------------ MODULE MCParallelSkyline ------------------------
(***************************************************************************)
(* ParallelSkyline on streams in which two rest workers move a node at the *)
(* same time: there are too many states for every stream to be tried.      *)
(***************************************************************************)
EXTENDS ParallelInvariant

\* The second and the third tuple wait for the first to leave, and are moved while
\* the fourth is handled; if that is equal to the third, it replaces it instead.
TwoWait ==
  /\ Len(stream) >= 1 => stream[1] = <<1, 1>>
  /\ Len(stream) >= 2 => stream[2] = <<0, 1>>
  /\ Len(stream) >= 3 => stream[3] = <<1, 0>>
  /\ Len(stream) >= 4 => stream[4] \in {<<0, 0>>, <<1, 0>>}

\* They wait in different lists. Only the third may come to another skyline list
\* than the others.
Placed ==
  /\ \A r \in Rest : \A x \in rests[r] : r = x.expire % NW_rest
  /\ \A s \in Sky : \A x \in skylines[s] : x.expire # W + 2 => s = 0

TwoWaitApart == TwoWait /\ Placed
============================================================================
