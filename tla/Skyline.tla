------------------------------ MODULE Skyline ------------------------------
(***************************************************************************)
(* The data every variant of the program works on: tuples of M integers,   *)
(* the dominance test of util.cpp, the linked-list node of linked_list.hpp *)
(* and the skyline of a window as README.md defines it.                    *)
(*                                                                         *)
(* Tuple number j of a stream (the source counts from 0) is stream[j + 1]. *)
(***************************************************************************)
EXTENDS Integers, Sequences

CONSTANTS
  M,        \* tuple size, the parameter m of the program
  Values,   \* the integers generate_tuple draws a component from
  W         \* window size, the parameter w

ASSUME MAssumption == M \in Nat \ {0}
ASSUME ValuesAssumption == Values \subseteq Int
ASSUME WAssumption == W \in Nat \ {0}

Tuple == [1..M -> Values]

\* dominate() of util.cpp: component-wise "not smaller", true of equal tuples.
Dominate(t1, t2) == \A c \in 1..M : t1[c] >= t2[c]

\* Dominance as README.md defines it: at least one component is better.
StrictlyDominates(t1, t2) ==
  Dominate(t1, t2) /\ \E c \in 1..M : t1[c] > t2[c]

\* class Node without its link: a list is a set or a sequence of these.
Node == [tuple : Tuple, expire : Nat, insert : Nat]

MkNode(tuple, expire, insert) ==
  [tuple |-> tuple, expire |-> expire, insert |-> insert]

Tuples(nodes) == {x.tuple : x \in nodes}

Least(S) == {v \in S : \A y \in S : v <= y}

\* The running maximum the scans keep, as the set of the greatest elements.
Greatest(S) == {v \in S : \A y \in S : y <= v}

----------------------------------------------------------------------------
(* A stream and its windows.                                               *)

Arrived(stream, j) == stream[j + 1]

\* The numbers of the tuples in the window that ends with tuple number i.
Live(stream, i) == {j \in 0..(Len(stream) - 1) : j <= i /\ j + W > i}

\* The skyline of that window: the numbers no other tuple strictly dominates.
SkylineNumbers(stream, i) ==
  {j \in Live(stream, i) :
      \A l \in Live(stream, i) :
         ~StrictlyDominates(Arrived(stream, l), Arrived(stream, j))}

SkylineTuples(stream, i) ==
  {Arrived(stream, j) : j \in SkylineNumbers(stream, i)}

WindowTuples(stream, i) == {Arrived(stream, j) : j \in Live(stream, i)}
============================================================================
