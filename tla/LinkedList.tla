----------------------------- MODULE LinkedList -----------------------------
(***************************************************************************)
(* The lists of linked_list.cpp as they lie in memory, and the way the     *)
(* scans of all three programs walk over them: with a pointer to the       *)
(* current node and one to the node before it. What a scan does with a     *)
(* node depends on the tuples; here it does anything.                      *)
(***************************************************************************)
EXTENDS Integers, Sequences, FiniteSets

CONSTANTS
  Lists,    \* the lists, each known by a pointer to its head
  Values,   \* what a node carries: tuple, expire and insert
  Cells,    \* the addresses malloc returns; how many bounds the run
  NULL,     \* the null pointer
  Freed     \* what a load from memory not allocated yields

ASSUME CellsAssumption == IsFiniteSet(Cells)
ASSUME NULLAssumption == NULL \notin Cells /\ NULL \notin Lists
\* The pointers to the heads are locals of the programs, outside the heap.
ASSUME ListsAssumption == Lists \cap Cells = {}

VARIABLES
  mem,      \* the node at each address, or Freed
  head,     \* the heads
  list,     \* the list being scanned, or NULL
  prev,     \* prev_node of the scan
  cur       \* cur_node of the scan

vars == <<mem, head, list, prev, cur>>

Pointer == Cells \cup {NULL}
Node == [value : Values, next : Pointer]

ASSUME FreedAssumption == Freed \notin Node

Init ==
  /\ mem = [c \in Cells |-> Freed]
  /\ head = [l \in Lists |-> NULL]
  /\ list = NULL
  /\ prev = NULL
  /\ cur = NULL

\* Where malloc may put a node.
Available(m) == {c \in Cells : m[c] = Freed}

\* push_node: memory and heads afterwards, with the new node at address c.
Pushed(m, l, v, c) == [m EXCEPT ![c] = [value |-> v, next |-> head[l]]]

ReadAfterFree(c) == Freed

\* delete_node reads next before it frees the node.
Temp(c) == mem[c].next

ForgetsHead(c) == head

\* delete_node: a first node leaves by the head of its list ...
HeadsWithout(c) == IF prev = NULL THEN [head EXCEPT ![list] = Temp(c)] ELSE head

ForgetsPrev(m, c) == [m EXCEPT ![c] = Freed]

\* ... any other by the node before it.
Unlinked(m, c) ==
  IF prev = NULL THEN [m EXCEPT ![c] = Freed]
  ELSE [m EXCEPT ![prev].next = mem[c].next, ![c] = Freed]

\* The main program, or the collector, adds a node between two scans.
PushNode ==
  /\ list = NULL
  /\ \E l \in Lists, v \in Values, c \in Available(mem) :
       /\ mem' = Pushed(mem, l, v, c)
       /\ head' = [head EXCEPT ![l] = c]
  /\ UNCHANGED <<list, prev, cur>>

StartScan ==
  /\ list = NULL
  /\ list' \in Lists
  /\ prev' = NULL
  /\ cur' = head[list']
  /\ UNCHANGED <<mem, head>>

Scanning == list # NULL /\ cur # NULL

DeleteNode ==
  /\ Scanning
  /\ mem' = Unlinked(mem, cur)
  /\ head' = HeadsWithout(cur)
  /\ cur' = Temp(cur)
  /\ UNCHANGED <<list, prev>>

\* check_rest moves a node: push_node on the other list, then delete_node.
MoveNode ==
  /\ Scanning
  /\ \E l \in Lists \ {list}, c \in Available(mem) :
       /\ mem' = Unlinked(Pushed(mem, l, mem[cur].value, c), cur)
       /\ head' = [HeadsWithout(cur) EXCEPT ![l] = c]
  /\ cur' = Temp(cur)
  /\ UNCHANGED <<list, prev>>

NextNode ==
  /\ Scanning
  /\ prev' = cur
  /\ cur' = mem[cur].next
  /\ UNCHANGED <<mem, head, list>>

EndScan ==
  /\ list # NULL /\ cur = NULL
  /\ list' = NULL
  /\ prev' = NULL
  /\ UNCHANGED <<mem, head, cur>>

Next == PushNode \/ StartScan \/ DeleteNode \/ MoveNode \/ NextNode \/ EndScan

Spec == Init /\ [][Next]_vars
----------------------------------------------------------------------------
(* Properties.                                                             *)

\* The type invariant.
TypeOK ==
  /\ mem \in [Cells -> Node \cup {Freed}]
  /\ head \in [Lists -> Pointer]
  /\ list \in Lists \cup {NULL}
  /\ prev \in Pointer
  /\ cur \in Pointer

Allocated(m) == {c \in Cells : m[c] # Freed}

\* Where pointers are: the heads, and the next field of each node. What
\* follows is said of any memory m and heads h, as a move passes through one
\* that is not a state.
Places(m) == Lists \cup Allocated(m)

PointerAt(m, h, o) == IF o \in Lists THEN h[o] ELSE m[o].next

NoneDangles(m, h) == \A o \in Places(m) : PointerAt(m, h, o) \in Allocated(m) \cup {NULL}

OnePointerEach(m, h) ==
  \A o1, o2 \in Places(m) :
    PointerAt(m, h, o1) = PointerAt(m, h, o2) /\ PointerAt(m, h, o1) # NULL => o1 = o2

\* No group of nodes is cut off from the heads.
NoneLost(m, h) ==
  \A S \in SUBSET Allocated(m) :
    S # {} => \E o \in Places(m) \ S : PointerAt(m, h, o) \in S

\* While a list is scanned, cur_node is where the node before it points, or the
\* head when there is none: what delete_node takes for granted.
CurAfterPrev ==
  list # NULL =>
    IF prev = NULL THEN head[list] = cur
    ELSE prev \in Allocated(mem) /\ mem[prev].next = cur

\* Every node allocated and not freed can be reached from the heads, and by one
\* pointer only, so that no list is circular or shares nodes with another;
\* every pointer, those of the scan too, leads to such a node or is NULL:
\* deleting the first, the last or several nodes in a row, or moving one, leaks
\* nothing and leaves no pointer to freed memory.
OwnedOnce ==
  /\ NoneDangles(mem, head)
  /\ OnePointerEach(mem, head)
  /\ NoneLost(mem, head)
  /\ CurAfterPrev

\* The addresses met from pointer p on, at most n of them.
Walk[n \in 0..Cardinality(Cells) + 1, p \in Pointer] ==
  IF n = 0 \/ p = NULL \/ mem[p] = Freed THEN <<>> ELSE <<p>> \o Walk[n - 1, mem[p].next]

Chain(p) == Walk[Cardinality(Cells) + 1, p]

\* Refinement: followed from their heads, the lists are the sequences of
\* NodeLists, and the scan is where it should be.
ValuesOf(chain) == [k \in 1..Len(chain) |-> mem[chain[k]].value]

Abstract == INSTANCE NodeLists WITH
  None <- NULL,
  contents <- [l \in Lists |-> ValuesOf(Chain(head[l]))],
  scanned <- list,
  at <- IF list = NULL THEN 0 ELSE Len(Chain(head[list])) - Len(Chain(cur)) + 1

ImplementsNodeLists == Abstract!Spec
============================================================================
