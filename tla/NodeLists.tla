----------------------------- MODULE NodeLists -----------------------------
(***************************************************************************)
(* What the linked lists promise the handlers: sequences of values, the    *)
(* newest first. A scan goes through one of them and removes some of the   *)
(* values, some of which it puts at the head of another list.              *)
(***************************************************************************)
EXTENDS SequencesExt, Integers

CONSTANTS
  Lists,    \* the lists
  Values,   \* what a node carries
  None      \* no list

VARIABLES
  contents, \* the values in each list
  scanned,  \* the list being scanned, or None
  at        \* the position the scan has come to

Init ==
  /\ contents = [l \in Lists |-> <<>>]
  /\ scanned = None
  /\ at = 0

Prepend ==
  /\ scanned = None
  /\ \E l \in Lists, v \in Values : contents' = [contents EXCEPT ![l] = <<v>> \o @]
  /\ UNCHANGED <<scanned, at>>

Start ==
  /\ scanned = None
  /\ scanned' \in Lists
  /\ at' = 1
  /\ UNCHANGED contents

Scanning == scanned # None /\ at <= Len(contents[scanned])

Delete ==
  /\ Scanning
  /\ contents' = [contents EXCEPT ![scanned] = RemoveAt(@, at)]
  /\ UNCHANGED <<scanned, at>>

Transfer ==
  /\ Scanning
  /\ \E l \in Lists \ {scanned} :
       contents' = [contents EXCEPT ![l] = <<contents[scanned][at]>> \o @,
                                    ![scanned] = RemoveAt(@, at)]
  /\ UNCHANGED <<scanned, at>>

Keep ==
  /\ Scanning
  /\ at' = at + 1
  /\ UNCHANGED <<contents, scanned>>

Finish ==
  /\ scanned # None /\ ~Scanning
  /\ scanned' = None /\ at' = 0
  /\ UNCHANGED contents

Next == Prepend \/ Start \/ Delete \/ Transfer \/ Keep \/ Finish

Spec == Init /\ [][Next]_<<contents, scanned, at>>
============================================================================
