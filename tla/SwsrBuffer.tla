----------------------------- MODULE SwsrBuffer -----------------------------
(***************************************************************************)
(* SWSR_Ptr_Buffer of ff/buffer.hpp: a ring of slots in which an empty     *)
(* slot holds Null.  There is no count and no lock: the writer looks at    *)
(* the slot it writes next and the reader at the slot it reads next, and   *)
(* pwrite and pread are each used by one of them only.  A slot that the    *)
(* writer has found empty stays empty, and a slot that the reader has      *)
(* found full stays full, until that same thread changes it; so push and   *)
(* pop may each be taken as one step.                                      *)
(***************************************************************************)
EXTENDS Integers, Sequences

CONSTANT Null                   \* NULL, no pointer a thread may push

BufferOf(values, size) ==
  [buf : [0..(size - 1) -> values \cup {Null}], pread : 0..(size - 1), pwrite : 0..(size - 1)]

EmptyBuffer(size) == [buf |-> [i \in 0..(size - 1) |-> Null], pread |-> 0, pwrite |-> 0]

IsEmpty(b) == b.buf[b.pread] = Null
IsAvailable(b) == b.buf[b.pwrite] = Null

\* The slot behind p: pread and pwrite go round. Straight is for comparison.
Straight(b, p) == p + 1

After(b, p) == IF p + 1 \in DOMAIN b.buf THEN p + 1 ELSE 0

\* push, where there is room, and pop, where there is something.
Pushed(b, data) == [b EXCEPT !.buf[b.pwrite] = data, !.pwrite = After(b, b.pwrite)]
Popped(b) == [b EXCEPT !.buf[b.pread] = Null, !.pread = After(b, b.pread)]
Top(b) == b.buf[b.pread]

\* What the slots hold, in whatever order.
Contents(b) == {b.buf[i] : i \in DOMAIN b.buf} \ {Null}
=============================================================================
