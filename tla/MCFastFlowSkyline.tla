------------------------- MODULE MCFastFlowSkyline -------------------------
(***************************************************************************)
(* FastFlowSkyline on the streams in which the races have the most to      *)
(* lose: the first tuple is as good as can be, so that all others wait for *)
(* it to leave, and the third is not dominated by the second, so that two  *)
(* of them may be moved at the same time.                                  *)
(***************************************************************************)
EXTENDS FastFlowInvariant

ManyWait ==
  /\ Len(stream) >= 1 => stream[1] = <<1, 1>>
  /\ Len(stream) >= 2 => stream[2] = <<0, 1>>
  /\ Len(stream) >= 3 => stream[3][1] = 1
============================================================================
