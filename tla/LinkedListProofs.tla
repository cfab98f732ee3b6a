-------------------------- MODULE LinkedListProofs --------------------------
(***************************************************************************)
(* What LinkedList promises for any number of lists, values and cells: no  *)
(* sequence of pushes and scans leaks a node or leaves a pointer to freed  *)
(* memory. A push and an unlinking are taken apart first, on any memory    *)
(* and heads, because a move is the one after the other.                   *)
(***************************************************************************)
EXTENDS LinkedList, TLAPS

Typed(m, h) == m \in [Cells -> Node \cup {Freed}] /\ h \in [Lists -> Pointer]

Sound(m, h) == Typed(m, h) /\ NoneDangles(m, h) /\ OnePointerEach(m, h) /\ NoneLost(m, h)

\* Memory and heads once x, the node after p in list l, is freed.
CutMem(m, p, x) ==
  IF p = NULL THEN [m EXCEPT ![x] = Freed]
  ELSE [m EXCEPT ![p].next = m[x].next, ![x] = Freed]

CutHead(m, h, l, p, x) == IF p = NULL THEN [h EXCEPT ![l] = m[x].next] ELSE h

\* x is the node after p in list l, or its first when p is NULL.
Follows(m, h, l, p, x) ==
  /\ x \in Allocated(m)
  /\ IF p = NULL THEN h[l] = x ELSE p \in Allocated(m) /\ m[p].next = x

\* An allocated cell holds a node.
LEMMA AllocatedNodes ==
  ASSUME NEW m, NEW h, Typed(m, h), NEW c \in Allocated(m)
  PROVE  c \in Cells /\ m[c] \in Node /\ m[c].next \in Pointer /\ c # NULL
BY NULLAssumption DEF Typed, Allocated, Node

\* A pointer is to a cell or NULL wherever it lies.
LEMMA PointersTyped ==
  ASSUME NEW m, NEW h, Typed(m, h), NEW o \in Places(m)
  PROVE  PointerAt(m, h, o) \in Pointer
BY AllocatedNodes DEF Places, PointerAt, Typed

\* Memory and heads once the free cell c is a node at the head of list l.
PushMem(m, h, l, v, c) == [m EXCEPT ![c] = [value |-> v, next |-> h[l]]]
PushHead(h, l, c) == [h EXCEPT ![l] = c]

\* What push_node does to the pointers.
LEMMA PushPointers ==
  ASSUME NEW m, NEW h, Sound(m, h),
         NEW l \in Lists, NEW v \in Values, NEW c \in Available(m)
  PROVE  /\ Typed(PushMem(m, h, l, v, c), PushHead(h, l, c))
         /\ Allocated(PushMem(m, h, l, v, c)) = Allocated(m) \cup {c}
         /\ c \in Cells /\ c \notin Allocated(m) /\ c \notin Lists /\ c \notin Places(m)
         /\ PointerAt(PushMem(m, h, l, v, c), PushHead(h, l, c), l) = c
         /\ PointerAt(PushMem(m, h, l, v, c), PushHead(h, l, c), c) = PointerAt(m, h, l)
         /\ \A o \in Places(m) \ {l} :
              PointerAt(PushMem(m, h, l, v, c), PushHead(h, l, c), o) = PointerAt(m, h, o)
<1> DEFINE new == [value |-> v, next |-> h[l]]
           M == PushMem(m, h, l, v, c)
           H == PushHead(h, l, c)
<1>1. c \in Cells /\ m[c] = Freed /\ c \notin Allocated(m)
  BY DEF Available, Allocated
<1>2. c \notin Lists /\ c \notin Places(m)
  BY <1>1, ListsAssumption DEF Places
<1>3. new \in Node /\ new # Freed /\ new.next = h[l]
  BY FreedAssumption DEF Sound, Typed, Node
<1>4. M \in [Cells -> Node \cup {Freed}] /\ M[c] = new /\ \A d \in Cells \ {c} : M[d] = m[d]
  BY <1>1, <1>3 DEF PushMem, Sound, Typed
<1>5. H \in [Lists -> Pointer] /\ H[l] = c /\ \A k \in Lists \ {l} : H[k] = h[k]
  BY <1>1 DEF PushHead, Sound, Typed, Pointer
<1>6. Allocated(M) = Allocated(m) \cup {c}
  BY <1>1, <1>3, <1>4 DEF Allocated
<1>7. Typed(M, H)
  BY <1>4, <1>5 DEF Typed
<1>8. PointerAt(M, H, l) = c
  BY <1>5 DEF PointerAt
<1>9. PointerAt(M, H, c) = PointerAt(m, h, l)
  BY <1>2, <1>3, <1>4 DEF PointerAt
<1>10. ASSUME NEW o \in Places(m) \ {l} PROVE PointerAt(M, H, o) = PointerAt(m, h, o)
  <2>1. CASE o \in Lists
    BY <2>1, <1>5 DEF PointerAt
  <2>2. CASE o \notin Lists
    <3>1. o \in Cells /\ o # c
      BY <2>2, <1>1 DEF Places, Allocated
    <3> QED
      BY <3>1, <2>2, <1>4 DEF PointerAt
  <2> QED
    BY <2>1, <2>2
<1> QED
  BY <1>1, <1>2, <1>6, <1>7, <1>8, <1>9, <1>10

\* push_node keeps memory sound.
LEMMA PushSound ==
  ASSUME NEW m, NEW h, Sound(m, h),
         NEW l \in Lists, NEW v \in Values, NEW c \in Available(m)
  PROVE  Sound(PushMem(m, h, l, v, c), PushHead(h, l, c))
<1>0. PICK M, H : M = PushMem(m, h, l, v, c) /\ H = PushHead(h, l, c)
  OBVIOUS
<1>1. /\ Typed(M, H) /\ Allocated(M) = Allocated(m) \cup {c}
      /\ c \in Cells /\ c \notin Allocated(m) /\ c \notin Lists /\ c \notin Places(m)
  BY PushPointers, <1>0
<1>2. /\ PointerAt(M, H, l) = c
      /\ PointerAt(M, H, c) = PointerAt(m, h, l)
      /\ \A o \in Places(m) \ {l} : PointerAt(M, H, o) = PointerAt(m, h, o)
  BY PushPointers, <1>0
<1>3. Places(M) = Places(m) \cup {c} /\ l \in Places(m) /\ l # c
  BY <1>1 DEF Places
<1>4. \A o \in Places(m) : PointerAt(m, h, o) \in Allocated(m) \cup {NULL} /\ PointerAt(m, h, o) # c
  BY <1>1, NULLAssumption DEF Sound, NoneDangles
<1>5. NoneDangles(M, H)
  BY <1>1, <1>2, <1>3, <1>4 DEF NoneDangles
<1>6. OnePointerEach(M, H)
  <2> SUFFICES ASSUME NEW o1 \in Places(M), NEW o2 \in Places(M),
                      PointerAt(M, H, o1) = PointerAt(M, H, o2), PointerAt(M, H, o1) # NULL
               PROVE  o1 = o2
    BY DEF OnePointerEach
  \* The place whose pointer is at o now.
  <2> DEFINE was(o) == IF o = c THEN l ELSE o
  <2>1. \A a, b \in Places(m) :
          PointerAt(m, h, a) = PointerAt(m, h, b) /\ PointerAt(m, h, a) # NULL => a = b
    BY DEF Sound, OnePointerEach
  <2>2. CASE o1 = l
    BY <2>2, <1>2, <1>3, <1>4
  <2>3. CASE o2 = l
    BY <2>3, <1>2, <1>3, <1>4
  <2>4. CASE o1 # l /\ o2 # l
    <3>1. /\ was(o1) \in Places(m) /\ PointerAt(M, H, o1) = PointerAt(m, h, was(o1))
          /\ was(o2) \in Places(m) /\ PointerAt(M, H, o2) = PointerAt(m, h, was(o2))
      BY <2>4, <1>2, <1>3
    <3>2. was(o1) = was(o2)
      BY <3>1, <2>1
    <3> QED
      BY <3>2, <2>4
  <2> QED
    BY <2>2, <2>3, <2>4
<1>7. NoneLost(M, H)
  <2> SUFFICES ASSUME NEW S \in SUBSET Allocated(M), S # {}
               PROVE  \E o \in Places(M) \ S : PointerAt(M, H, o) \in S
    BY DEF NoneLost
  <2>0. l \notin S
    BY <1>1, ListsAssumption DEF Allocated
  <2>1. CASE c \in S
    BY <2>0, <2>1, <1>2, <1>3
  <2>2. CASE c \notin S
    <3>1. S \in SUBSET Allocated(m)
      BY <2>2, <1>1
    <3>2. PICK o \in Places(m) \ S : PointerAt(m, h, o) \in S
      BY <3>1 DEF Sound, NoneLost
    <3>3. CASE o = l
      BY <3>2, <3>3, <2>2, <1>2, <1>3
    <3>4. CASE o # l
      BY <3>2, <3>4, <1>2, <1>3
    <3> QED
      BY <3>3, <3>4
  <2> QED
    BY <2>1, <2>2
<1> QED
  BY <1>0, <1>1, <1>5, <1>6, <1>7 DEF Sound

\* Where the scan comes from: the head of the list, or the node before.
From(l, p) == IF p = NULL THEN l ELSE p

\* What delete_node does to the pointers: the one to x goes on to where x pointed.
LEMMA CutPointers ==
  ASSUME NEW m, NEW h, Sound(m, h), NEW l \in Lists, NEW p, NEW x, Follows(m, h, l, p, x)
  PROVE  /\ Typed(CutMem(m, p, x), CutHead(m, h, l, p, x))
         /\ Allocated(CutMem(m, p, x)) = Allocated(m) \ {x}
         /\ From(l, p) \in Places(m) /\ From(l, p) # x
         /\ PointerAt(m, h, From(l, p)) = x
         /\ PointerAt(CutMem(m, p, x), CutHead(m, h, l, p, x), From(l, p)) = PointerAt(m, h, x)
         /\ \A o \in Places(m) \ {From(l, p), x} :
              PointerAt(CutMem(m, p, x), CutHead(m, h, l, p, x), o) = PointerAt(m, h, o)
<1> DEFINE M == CutMem(m, p, x)
           H == CutHead(m, h, l, p, x)
           f == From(l, p)
<1>1. x \in Cells /\ x \in Allocated(m) /\ m[x] \in Node /\ m[x].next \in Pointer /\ x \notin Lists
  BY AllocatedNodes, ListsAssumption DEF Follows, Sound
<1>2. f \in Places(m) /\ PointerAt(m, h, f) = x
  <2>1. CASE p = NULL
    BY <2>1 DEF Follows, From, Places, PointerAt
  <2>2. CASE p # NULL
    <3>1. p \in Allocated(m) /\ m[p].next = x /\ p \notin Lists
      BY <2>2, ListsAssumption DEF Follows, Allocated
    <3> QED
      BY <3>1, <2>2 DEF From, Places, PointerAt
  <2> QED
    BY <2>1, <2>2
<1>3. f # x
  <2> SUFFICES ASSUME f = x PROVE FALSE
    OBVIOUS
  <2>1. PICK o \in Places(m) \ {x} : PointerAt(m, h, o) \in {x}
    BY <1>1 DEF Sound, NoneLost
  <2>2. o = f
    BY <2>1, <1>1, <1>2, AllocatedNodes DEF Sound, OnePointerEach
  <2> QED
    BY <2>1, <2>2
<1>4. PointerAt(m, h, x) = m[x].next
  BY <1>1 DEF PointerAt
<1>5. CASE p = NULL
  <2>1. M = [m EXCEPT ![x] = Freed] /\ H = [h EXCEPT ![l] = m[x].next] /\ f = l
    BY <1>5 DEF CutMem, CutHead, From
  <2>2. M \in [Cells -> Node \cup {Freed}] /\ M[x] = Freed /\ \A d \in Cells \ {x} : M[d] = m[d]
    BY <2>1, <1>1 DEF Sound, Typed
  <2>3. H \in [Lists -> Pointer] /\ H[l] = m[x].next /\ \A k \in Lists \ {l} : H[k] = h[k]
    BY <2>1, <1>1 DEF Sound, Typed
  <2>4. Allocated(M) = Allocated(m) \ {x}
    BY <2>2 DEF Allocated
  <2>5. PointerAt(M, H, f) = PointerAt(m, h, x)
    BY <2>1, <2>3, <1>4 DEF PointerAt
  <2>6. \A o \in Places(m) \ {f, x} : PointerAt(M, H, o) = PointerAt(m, h, o)
    BY <2>1, <2>2, <2>3 DEF PointerAt, Places, Allocated
  <2> QED
    BY <2>2, <2>3, <2>4, <2>5, <2>6, <1>2, <1>3 DEF Typed
<1>6. CASE p # NULL
  <2>1. M = [m EXCEPT ![p].next = m[x].next, ![x] = Freed] /\ H = h /\ f = p
    BY <1>6 DEF CutMem, CutHead, From
  <2>2. p \in Allocated(m) /\ p \in Cells /\ m[p] \in Node /\ p # x /\ p \notin Lists
    BY <1>6, <1>3, <2>1, AllocatedNodes, ListsAssumption DEF Follows, Sound
  <2>3. PICK new : new = [m[p] EXCEPT !.next = m[x].next]
    OBVIOUS
  <2>4. new \in Node /\ new # Freed /\ new.next = m[x].next
    BY <2>2, <2>3, <1>1, FreedAssumption DEF Node
  <2>5. M = [m EXCEPT ![p] = new, ![x] = Freed]
    BY <2>1, <2>3
  <2>6. /\ M \in [Cells -> Node \cup {Freed}] /\ M[x] = Freed /\ M[p] = new
        /\ \A d \in Cells \ {p, x} : M[d] = m[d]
    BY <2>5, <2>2, <2>4, <1>1 DEF Sound, Typed
  <2>7. Allocated(M) = Allocated(m) \ {x}
    BY <2>2, <2>4, <2>6 DEF Allocated
  <2>8. PointerAt(M, H, f) = PointerAt(m, h, x)
    BY <2>1, <2>2, <2>4, <2>6, <1>4 DEF PointerAt
  <2>9. \A o \in Places(m) \ {f, x} : PointerAt(M, H, o) = PointerAt(m, h, o)
    BY <2>1, <2>6 DEF PointerAt, Places, Allocated
  <2> QED
    BY <2>1, <2>6, <2>7, <2>8, <2>9, <1>2, <1>3 DEF Typed, Sound
<1> QED
  BY <1>5, <1>6

\* delete_node keeps memory sound.
LEMMA CutSound ==
  ASSUME NEW m, NEW h, Sound(m, h), NEW l \in Lists, NEW p, NEW x, Follows(m, h, l, p, x)
  PROVE  Sound(CutMem(m, p, x), CutHead(m, h, l, p, x))
<1>0. PICK M, H, f : M = CutMem(m, p, x) /\ H = CutHead(m, h, l, p, x) /\ f = From(l, p)
  OBVIOUS
<1>1. Typed(M, H) /\ Allocated(M) = Allocated(m) \ {x}
  BY CutPointers, <1>0
<1>2. /\ f \in Places(m) /\ f # x /\ PointerAt(m, h, f) = x
      /\ PointerAt(M, H, f) = PointerAt(m, h, x)
      /\ \A o \in Places(m) \ {f, x} : PointerAt(M, H, o) = PointerAt(m, h, o)
  BY CutPointers, <1>0
<1>3. x \in Allocated(m) /\ x \in Cells /\ x # NULL /\ x \notin Lists
  BY AllocatedNodes, ListsAssumption DEF Follows, Sound
<1>4. Places(M) = Places(m) \ {x}
  BY <1>1, <1>3 DEF Places
<1>5. \A a, b \in Places(m) :
        PointerAt(m, h, a) = PointerAt(m, h, b) /\ PointerAt(m, h, a) # NULL => a = b
  BY DEF Sound, OnePointerEach
<1>6. x \in Places(m) /\ PointerAt(m, h, x) # x
  BY <1>2, <1>3, <1>5 DEF Places
<1>7. \A o \in Places(m) \ {f} : PointerAt(m, h, o) # x
  BY <1>2, <1>3, <1>5
<1>8. NoneDangles(M, H)
  BY <1>1, <1>2, <1>4, <1>6, <1>7 DEF NoneDangles, Sound
<1>9. OnePointerEach(M, H)
  <2> SUFFICES ASSUME NEW o1 \in Places(M), NEW o2 \in Places(M),
                      PointerAt(M, H, o1) = PointerAt(M, H, o2), PointerAt(M, H, o1) # NULL
               PROVE  o1 = o2
    BY DEF OnePointerEach
  <2> DEFINE was(o) == IF o = f THEN x ELSE o
  <2>1. /\ was(o1) \in Places(m) /\ PointerAt(M, H, o1) = PointerAt(m, h, was(o1))
        /\ was(o2) \in Places(m) /\ PointerAt(M, H, o2) = PointerAt(m, h, was(o2))
    BY <1>2, <1>4, <1>6
  <2>2. was(o1) = was(o2)
    BY <2>1, <1>5
  <2> QED
    BY <2>2, <1>4
<1>10. NoneLost(M, H)
  <2> SUFFICES ASSUME NEW S \in SUBSET Allocated(M), S # {}
               PROVE  \E o \in Places(M) \ S : PointerAt(M, H, o) \in S
    BY DEF NoneLost
  <2>1. S \in SUBSET Allocated(m) /\ x \notin S
    BY <1>1
  <2>2. PICK o \in Places(m) \ S : PointerAt(m, h, o) \in S
    BY <2>1 DEF Sound, NoneLost
  <2>3. CASE o # x
    BY <2>1, <2>2, <2>3, <1>2, <1>4
  <2>4. CASE o = x /\ f \notin S
    BY <2>2, <2>4, <1>2, <1>4
  \* Then the way into S avoids x altogether.
  <2>5. CASE o = x /\ f \in S
    <3>1. S \cup {x} \in SUBSET Allocated(m)
      BY <2>1, <1>3
    <3>2. PICK q \in Places(m) \ (S \cup {x}) : PointerAt(m, h, q) \in S \cup {x}
      BY <3>1 DEF Sound, NoneLost
    <3>3. q # f /\ PointerAt(m, h, q) \in S
      BY <3>2, <2>5, <1>7
    <3> QED
      BY <3>2, <3>3, <1>2, <1>4
  <2> QED
    BY <2>3, <2>4, <2>5
<1> QED
  BY <1>0, <1>1, <1>8, <1>9, <1>10 DEF Sound
----------------------------------------------------------------------------
IInv == TypeOK /\ OwnedOnce

\* The invariant says that memory is sound and where the scan is in it.
LEMMA InvariantSound ==
  ASSUME IInv
  PROVE  /\ Sound(mem, head)
         /\ list # NULL => list \in Lists /\ prev \in Allocated(mem) \cup {NULL}
                           /\ cur \in Allocated(mem) \cup {NULL}
         /\ Scanning => Follows(mem, head, list, prev, cur)
<1>1. Sound(mem, head) /\ CurAfterPrev
  BY DEF IInv, TypeOK, OwnedOnce, Sound, Typed
<1>2. ASSUME list # NULL
      PROVE  list \in Lists /\ prev \in Allocated(mem) \cup {NULL} /\ cur \in Allocated(mem) \cup {NULL}
  <2>1. list \in Lists /\ list \in Places(mem)
    BY <1>2 DEF IInv, TypeOK, Places
  <2>2. CASE prev = NULL
    <3>1. PointerAt(mem, head, list) = cur
      BY <2>1, <2>2, <1>1, <1>2 DEF CurAfterPrev, PointerAt
    <3> QED
      BY <3>1, <2>1, <2>2, <1>1 DEF Sound, NoneDangles
  <2>3. CASE prev # NULL
    <3>1. prev \in Allocated(mem) /\ mem[prev].next = cur
      BY <2>3, <1>1, <1>2 DEF CurAfterPrev
    <3>2. prev \in Places(mem) /\ PointerAt(mem, head, prev) = cur
      BY <3>1, ListsAssumption DEF Places, PointerAt, Allocated
    <3> QED
      BY <3>1, <3>2, <2>1, <1>1 DEF Sound, NoneDangles
  <2> QED
    BY <2>2, <2>3
<1>3. ASSUME Scanning PROVE Follows(mem, head, list, prev, cur)
  BY <1>1, <1>2, <1>3 DEF Scanning, Follows, CurAfterPrev
<1> QED
  BY <1>1, <1>2, <1>3

\* Sound memory and a scan in its place are the invariant.
LEMMA SoundInvariant ==
  ASSUME Sound(mem, head), list \in Lists \cup {NULL}, prev \in Pointer, cur \in Pointer, CurAfterPrev
  PROVE  IInv
BY DEF IInv, TypeOK, OwnedOnce, Sound, Typed

LEMMA InitInvariant == Init => IInv
<1> SUFFICES ASSUME Init PROVE IInv
  OBVIOUS
<1>1. mem = [c \in Cells |-> Freed] /\ head = [l \in Lists |-> NULL]
  BY DEF Init
<1>2. Allocated(mem) = {}
  BY <1>1 DEF Allocated
<1>3. Typed(mem, head)
  BY <1>1 DEF Typed, Pointer
<1>4. Places(mem) = Lists /\ \A o \in Lists : PointerAt(mem, head, o) = NULL
  BY <1>1, <1>2 DEF Places, PointerAt
<1>5. NoneDangles(mem, head) /\ OnePointerEach(mem, head) /\ NoneLost(mem, head)
  BY <1>2, <1>4 DEF NoneDangles, OnePointerEach, NoneLost
<1> QED
  BY <1>3, <1>5, SoundInvariant DEF Sound, Init, Pointer, CurAfterPrev

\* A node deleted: what remains is sound, and the scan goes on behind it.
LEMMA CutContinues ==
  ASSUME NEW m, NEW h, Sound(m, h), NEW l \in Lists, NEW p, NEW x, Follows(m, h, l, p, x)
  PROVE  /\ Sound(CutMem(m, p, x), CutHead(m, h, l, p, x))
         /\ IF p = NULL THEN CutHead(m, h, l, p, x)[l] = m[x].next
            ELSE p \in Allocated(CutMem(m, p, x)) /\ CutMem(m, p, x)[p].next = m[x].next
         /\ m[x].next \in Pointer
<1>0. PICK M, H : M = CutMem(m, p, x) /\ H = CutHead(m, h, l, p, x)
  OBVIOUS
<1>1. Sound(M, H)
  BY CutSound, <1>0
<1>2. /\ Allocated(M) = Allocated(m) \ {x} /\ From(l, p) # x
      /\ PointerAt(M, H, From(l, p)) = PointerAt(m, h, x)
  BY CutPointers, <1>0
<1>3. x \notin Lists /\ m[x].next \in Pointer
  BY AllocatedNodes, ListsAssumption DEF Follows, Sound
<1>4. PointerAt(m, h, x) = m[x].next
  BY <1>3 DEF PointerAt
<1>5. CASE p = NULL
  BY <1>0, <1>1, <1>2, <1>3, <1>4, <1>5 DEF From, PointerAt
<1>6. CASE p # NULL
  <2>1. p \in Allocated(m) /\ p \notin Lists
    BY <1>6, ListsAssumption DEF Follows, Allocated
  <2> QED
    BY <2>1, <1>0, <1>1, <1>2, <1>3, <1>4, <1>6 DEF From, PointerAt
<1> QED
  BY <1>5, <1>6

\* No step breaks the invariant.
LEMMA NextInvariant == IInv /\ [Next]_vars => IInv'
<1> SUFFICES ASSUME IInv, [Next]_vars PROVE IInv'
  OBVIOUS
<1> USE DEF IInv
<1>1. Sound(mem, head) /\ list \in Lists \cup {NULL} /\ prev \in Pointer /\ cur \in Pointer
  BY InvariantSound DEF TypeOK
<1>2. ASSUME Sound(mem', head'), list' \in Lists \cup {NULL}, prev' \in Pointer, cur' \in Pointer,
             list' # NULL => IF prev' = NULL THEN head'[list'] = cur'
                             ELSE prev' \in Allocated(mem') /\ mem'[prev'].next = cur'
      PROVE  IInv'
  BY <1>2 DEF TypeOK, OwnedOnce, Sound, Typed, CurAfterPrev
<1>3. CASE PushNode
  <2>1. PICK l \in Lists, v \in Values, c \in Available(mem) :
          mem' = Pushed(mem, l, v, c) /\ head' = [head EXCEPT ![l] = c]
    BY <1>3 DEF PushNode
  <2>2. mem' = PushMem(mem, head, l, v, c) /\ head' = PushHead(head, l, c)
    BY <2>1 DEF Pushed, PushMem, PushHead
  <2>3. Sound(mem', head')
    BY <2>2, <1>1, PushSound
  <2> QED
    BY <2>3, <1>1, <1>2, <1>3 DEF PushNode
<1>4. CASE StartScan
  <2>1. list' \in Lists /\ prev' = NULL /\ cur' = head[list'] /\ mem' = mem /\ head' = head
    BY <1>4 DEF StartScan
  <2>2. prev' \in Pointer /\ cur' \in Pointer
    BY <2>1, <1>1 DEF Sound, Typed, Pointer
  <2> QED
    BY <2>1, <2>2, <1>1, <1>2
<1>5. CASE DeleteNode
  <2>1. Follows(mem, head, list, prev, cur) /\ list \in Lists
    BY <1>5, InvariantSound DEF DeleteNode, Scanning
  <2>2. mem' = CutMem(mem, prev, cur) /\ head' = CutHead(mem, head, list, prev, cur)
    BY <1>5 DEF DeleteNode, Unlinked, HeadsWithout, Temp, CutMem, CutHead
  <2>3. list' = list /\ prev' = prev /\ cur' = mem[cur].next
    BY <1>5 DEF DeleteNode, Temp
  <2>4. /\ Sound(mem', head') /\ cur' \in Pointer
        /\ IF prev = NULL THEN head'[list] = cur' ELSE prev \in Allocated(mem') /\ mem'[prev].next = cur'
    BY <2>1, <2>2, <2>3, <1>1, CutContinues
  <2> QED
    BY <2>3, <2>4, <1>1, <1>2
<1>6. CASE MoveNode
  <2>1. Follows(mem, head, list, prev, cur) /\ list \in Lists
    BY <1>6, InvariantSound DEF MoveNode, Scanning
  <2>2. PICK l \in Lists \ {list}, c \in Available(mem) :
          /\ mem' = Unlinked(Pushed(mem, l, mem[cur].value, c), cur)
          /\ head' = [HeadsWithout(cur) EXCEPT ![l] = c]
    BY <1>6 DEF MoveNode
  <2>3. list' = list /\ prev' = prev /\ cur' = mem[cur].next
    BY <1>6 DEF MoveNode, Temp
  <2>4. PICK m, h : m = PushMem(mem, head, l, mem[cur].value, c) /\ h = PushHead(head, l, c)
    OBVIOUS
  <2>5. mem[cur].value \in Values /\ cur \in Cells /\ cur # c
    BY <2>1, <1>1, AllocatedNodes DEF Follows, Sound, Node, Allocated, Available
  <2>6. Sound(m, h)
    BY <2>4, <2>5, <1>1, PushSound
  <2>7. m[cur] = mem[cur] /\ h[list] = head[list] /\ Allocated(m) = Allocated(mem) \cup {c}
    <3>1. m[cur] = mem[cur] /\ h[list] = head[list]
      BY <2>1, <2>2, <2>4, <2>5, <1>1 DEF PushMem, PushHead, Sound, Typed
    <3>2. Allocated(m) = Allocated(mem) \cup {c}
      BY <2>4, <2>5, <1>1, PushPointers
    <3> QED
      BY <3>1, <3>2
  <2>8. prev # NULL => m[prev] = mem[prev]
    <3>1. prev # NULL => prev \in Cells /\ prev # c
      BY <2>1 DEF Follows, Allocated, Available
    <3> QED
      BY <3>1, <2>4, <1>1 DEF PushMem, Sound, Typed
  <2>9. Follows(m, h, list, prev, cur)
    BY <2>1, <2>7, <2>8 DEF Follows
  <2>10. mem' = CutMem(m, prev, cur)
    BY <2>2, <2>4, <2>7 DEF Unlinked, Pushed, PushMem, CutMem
  <2>11. head' = CutHead(m, h, list, prev, cur)
    <3>1. CASE prev = NULL
      <4>1. head' = [[head EXCEPT ![list] = mem[cur].next] EXCEPT ![l] = c]
        BY <3>1, <2>2 DEF HeadsWithout, Temp
      <4>2. CutHead(m, h, list, prev, cur) = [[head EXCEPT ![l] = c] EXCEPT ![list] = mem[cur].next]
        BY <3>1, <2>4, <2>7 DEF CutHead, PushHead
      <4>3. l # list /\ head \in [Lists -> Pointer]
        BY <2>2, <1>1 DEF Sound, Typed
      <4> QED
        BY <4>1, <4>2, <4>3
    <3>2. CASE prev # NULL
      BY <3>2, <2>2, <2>4 DEF HeadsWithout, CutHead, PushHead
    <3> QED
      BY <3>1, <3>2
  <2>12. /\ Sound(mem', head') /\ cur' \in Pointer
         /\ IF prev = NULL THEN head'[list] = cur' ELSE prev \in Allocated(mem') /\ mem'[prev].next = cur'
    BY <2>1, <2>3, <2>6, <2>7, <2>9, <2>10, <2>11, CutContinues
  <2> QED
    BY <2>3, <2>12, <1>1, <1>2
<1>7. CASE NextNode
  <2>1. list \in Lists /\ cur \in Allocated(mem)
    BY <1>7, InvariantSound DEF NextNode, Scanning
  <2>2. prev' = cur /\ cur' = mem[cur].next /\ mem' = mem /\ head' = head /\ list' = list
    BY <1>7 DEF NextNode
  <2>3. cur # NULL /\ cur' \in Pointer
    BY <2>1, <2>2, <1>1, AllocatedNodes DEF Sound
  <2> QED
    BY <2>1, <2>2, <2>3, <1>1, <1>2
<1>8. CASE EndScan
  BY <1>1, <1>2, <1>8 DEF EndScan, Pointer
<1>9. CASE UNCHANGED vars
  BY <1>9 DEF vars, TypeOK, OwnedOnce, CurAfterPrev
<1> QED
  BY <1>3, <1>4, <1>5, <1>6, <1>7, <1>8, <1>9 DEF Next

\* The inductive invariant: the types, and every node owned once.
THEOREM Invariance == Spec => []IInv
<1>1. Init => IInv
  BY InitInvariant
<1>2. IInv /\ [Next]_vars => IInv'
  BY NextInvariant
<1> QED
  BY <1>1, <1>2, PTL DEF Spec

\* Every pointer of the lists and of the scan is to a cell or NULL, and no
\* scan ever copies what freed memory holds.
THEOREM TypeCorrect == Spec => []TypeOK
<1>1. IInv => TypeOK
  BY DEF IInv
<1> QED
  BY Invariance, <1>1, PTL

\* However long the lists and whatever is deleted or moved, no node leaks, none
\* is in two places and no pointer is to freed memory (push_node, delete_node).
THEOREM NodesOwnedOnce == Spec => []OwnedOnce
<1>1. IInv => OwnedOnce
  BY DEF IInv
<1> QED
  BY Invariance, <1>1, PTL
=============================================================================
