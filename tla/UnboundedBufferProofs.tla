----------------------- MODULE UnboundedBufferProofs -----------------------
(***************************************************************************)
(* The proofs about UnboundedBuffer: its memory stays in order, and the    *)
(* values come out as they went in, for all sizes of rings and caches.     *)
(***************************************************************************)
EXTENDS UnboundedBufferInvariant, SequenceTheorems, TLAPS

(***************************************************************************)
(* A ring holds a queue.                                                   *)
(***************************************************************************)

\* The slots behind the reader's are those of the ring, each once.
LEMMA Slots ==
  ASSUME NEW sz \in Nat \ {0}, NEW V, NEW b \in BufferOf(V, sz)
  PROVE  /\ \A j \in 0..sz : Slot(b, sz, j) \in 0..(sz - 1)
         /\ Slot(b, sz, 0) = b.pread /\ Slot(b, sz, sz) = b.pread
         /\ \A j, k \in 0..(sz - 1) : Slot(b, sz, j) = Slot(b, sz, k) => j = k
         /\ \A s \in 0..(sz - 1) : \E j \in 1..sz : Slot(b, sz, j - 1) = s
<1>1. b.pread \in 0..(sz - 1)
  BY DEF BufferOf
<1>2. ASSUME NEW s \in 0..(sz - 1)
      PROVE  \E j \in 1..sz : Slot(b, sz, j - 1) = s
  <2> DEFINE j == IF s >= b.pread THEN s - b.pread + 1 ELSE s - b.pread + sz + 1
  <2>1. j \in 1..sz /\ Slot(b, sz, j - 1) = s
    BY <1>1 DEF Slot
  <2>2. QED
    BY <2>1
<1>3. /\ \A j \in 0..sz : Slot(b, sz, j) \in 0..(sz - 1)
      /\ Slot(b, sz, 0) = b.pread /\ Slot(b, sz, sz) = b.pread
  BY <1>1 DEF Slot
<1>4. \A j, k \in 0..(sz - 1) : Slot(b, sz, j) = Slot(b, sz, k) => j = k
  BY <1>1 DEF Slot
<1>5. QED
  BY <1>2, <1>3, <1>4

\* The number of slots in use is determined.
LEMMA HeldIs ==
  ASSUME NEW sz \in Nat \ {0}, NEW b, NEW n \in 0..sz, Holds(b, sz, n)
  PROVE  Held(b, sz) = n
<1>1. ASSUME NEW m \in 0..sz, Holds(b, sz, m)
      PROVE  m = n
  <2>1. \A j \in 1..sz : j <= m <=> j <= n
    BY <1>1 DEF Holds
  <2>2. QED
    BY <2>1
<1>2. QED
  BY <1>1 DEF Held

\* What the two looks at a ring see.
LEMMA QueueIs ==
  ASSUME NEW sz \in Nat \ {0}, NEW V, Null \notin V, NEW b \in BufferOf(V, sz),
         InOrder(b, sz)
  PROVE  /\ Held(b, sz) \in 0..sz /\ Holds(b, sz, Held(b, sz))
         /\ Queue(b, sz) \in Seq(V) /\ Len(Queue(b, sz)) = Held(b, sz)
         /\ \A j \in 1..Held(b, sz) : Queue(b, sz)[j] = b.buf[Slot(b, sz, j - 1)]
         /\ IsEmpty(b) <=> Queue(b, sz) = <<>>
         /\ IsAvailable(b) <=> Held(b, sz) < sz
         /\ Contents(b) = Range(Queue(b, sz))
<1>1. PICK n \in 0..sz : Holds(b, sz, n)
  BY DEF InOrder
<1>2. Held(b, sz) = n
  BY <1>1, HeldIs
<1>3. /\ b.buf \in [0..(sz - 1) -> V \cup {Null}]
      /\ \A j \in 1..sz : Slot(b, sz, j - 1) \in 0..(sz - 1)
  <2>1. b.buf \in [0..(sz - 1) -> V \cup {Null}]
    BY DEF BufferOf
  <2>2. ASSUME NEW j \in 1..sz PROVE Slot(b, sz, j - 1) \in 0..(sz - 1)
    <3>1. j - 1 \in 0..sz
      OBVIOUS
    <3>2. QED
      BY <3>1, Slots
  <2>3. QED
    BY <2>1, <2>2
<1>4. \A j \in 1..n : b.buf[Slot(b, sz, j - 1)] \in V
  BY <1>1, <1>3 DEF Holds
<1>5. Queue(b, sz) \in Seq(V) /\ Len(Queue(b, sz)) = n
  BY <1>2, <1>4 DEF Queue
<1>6. IsEmpty(b) <=> n = 0
  <2>1. b.pread = Slot(b, sz, 1 - 1)
    BY Slots
  <2>2. b.buf[Slot(b, sz, 1 - 1)] # Null <=> 1 <= n
    BY <1>1 DEF Holds
  <2>3. QED
    BY <2>1, <2>2 DEF IsEmpty
<1>7. IsAvailable(b) <=> n < sz
  <2>1. CASE n = sz
    <3>1. b.pwrite = Slot(b, sz, 1 - 1)
      BY <1>1, <2>1, Slots DEF Holds
    <3>2. QED
      BY <1>1, <2>1, <3>1 DEF Holds, IsAvailable
  <2>2. CASE n < sz
    <3>1. n + 1 \in 1..sz /\ b.pwrite = Slot(b, sz, (n + 1) - 1)
      BY <1>1, <2>2 DEF Holds
    <3>2. b.buf[Slot(b, sz, (n + 1) - 1)] # Null <=> n + 1 <= n
      BY <1>1, <3>1 DEF Holds
    <3>3. QED
      BY <2>2, <3>1, <3>2 DEF IsAvailable
  <2>3. QED
    BY <2>1, <2>2
<1>8. Contents(b) = Range(Queue(b, sz))
  <2>1. ASSUME NEW v \in Contents(b)
        PROVE  v \in Range(Queue(b, sz))
    <3>1. PICK s \in 0..(sz - 1) : b.buf[s] = v /\ v # Null
      BY <1>3 DEF Contents
    <3>2. PICK j \in 1..sz : Slot(b, sz, j - 1) = s
      BY Slots
    <3>3. j \in 1..n
      BY <1>1, <3>1, <3>2 DEF Holds
    <3>4. QED
      BY <1>2, <3>1, <3>2, <3>3 DEF Queue, Range
  <2>2. ASSUME NEW v \in Range(Queue(b, sz))
        PROVE  v \in Contents(b)
    <3>1. PICK j \in 1..n : v = b.buf[Slot(b, sz, j - 1)]
      BY <1>2 DEF Queue, Range
    <3>2. QED
      BY <1>3, <1>4, <3>1 DEF Contents
  <2>3. QED
    BY <2>1, <2>2
<1>9. QED
  BY <1>1, <1>2, <1>5, <1>6, <1>7, <1>8 DEF Queue

\* To know a queue it is enough to know the slots.
LEMMA QueueFrom ==
  ASSUME NEW sz \in Nat \ {0}, NEW b, NEW n \in 0..sz, Holds(b, sz, n)
  PROVE  /\ InOrder(b, sz)
         /\ Queue(b, sz) = [j \in 1..n |-> b.buf[Slot(b, sz, j - 1)]]
BY HeldIs DEF InOrder, Queue

LEMMA EmptyRing ==
  ASSUME NEW sz \in Nat \ {0}, NEW V
  PROVE  /\ EmptyBuffer(sz) \in BufferOf(V, sz)
         /\ InOrder(EmptyBuffer(sz), sz) /\ Queue(EmptyBuffer(sz), sz) = <<>>
<1> DEFINE b == EmptyBuffer(sz)
<1>1. b \in BufferOf(V, sz)
  BY DEF EmptyBuffer, BufferOf
<1>2. \A j \in 1..sz : b.buf[Slot(b, sz, j - 1)] = Null
  <2>1. \A s \in 0..(sz - 1) : b.buf[s] = Null
    BY DEF EmptyBuffer
  <2>2. QED
    BY <1>1, <2>1, Slots
<1>3. b.pwrite = Slot(b, sz, 0)
  BY <1>1, Slots DEF EmptyBuffer
<1>4. Holds(b, sz, 0)
  BY <1>2, <1>3 DEF Holds
<1> HIDE DEF b
<1>5. InOrder(b, sz) /\ Queue(b, sz) = [j \in 1..0 |-> b.buf[Slot(b, sz, j - 1)]]
  BY <1>4, QueueFrom
<1>6. QED
  BY <1>1, <1>5 DEF b

LEMMA PushedRing ==
  ASSUME NEW sz \in Nat \ {0}, NEW V, Null \notin V, NEW b \in BufferOf(V, sz),
         InOrder(b, sz), IsAvailable(b), NEW v \in V
  PROVE  /\ Pushed(b, v) \in BufferOf(V, sz) /\ InOrder(Pushed(b, v), sz)
         /\ Queue(Pushed(b, v), sz) = Append(Queue(b, sz), v)
<1> DEFINE n == Held(b, sz)
           c == Pushed(b, v)
<1>1. n \in 0..(sz - 1) /\ Holds(b, sz, n) /\ Queue(b, sz) \in Seq(V) /\ Len(Queue(b, sz)) = n
  BY QueueIs
<1>2. /\ b.buf \in [0..(sz - 1) -> V \cup {Null}] /\ DOMAIN b.buf = 0..(sz - 1)
      /\ b.pread \in 0..(sz - 1) /\ b.pwrite \in 0..(sz - 1)
  BY DEF BufferOf
<1>3. /\ c.buf = [b.buf EXCEPT ![b.pwrite] = v] /\ c.pread = b.pread
      /\ c.pwrite = After(b, b.pwrite)
  BY DEF Pushed, BufferOf
<1>4. After(b, b.pwrite) = IF b.pwrite + 1 < sz THEN b.pwrite + 1 ELSE 0
  BY <1>2 DEF After
<1>5. b.pwrite = Slot(b, sz, n)
  BY <1>1 DEF Holds
<1>6. c \in BufferOf(V, sz)
  <2>1. After(b, b.pwrite) \in 0..(sz - 1)
    BY <1>2, <1>4
  <2>2. QED
    BY <2>1 DEF Pushed, BufferOf
<1> HIDE DEF n, c
<1>7. \A j \in 0..sz : Slot(c, sz, j) = Slot(b, sz, j)
  BY <1>3 DEF Slot
<1>8. c.pwrite = Slot(c, sz, n + 1)
  <2>1. Slot(c, sz, n + 1) = Slot(b, sz, n + 1)
    BY <1>1, <1>7
  <2>2. After(b, b.pwrite) = Slot(b, sz, n + 1)
    BY <1>1, <1>2, <1>4, <1>5 DEF Slot
  <2>3. QED
    BY <1>3, <2>1, <2>2
<1>9. \A j \in 1..sz : c.buf[Slot(c, sz, j - 1)] = IF j = n + 1 THEN v ELSE b.buf[Slot(b, sz, j - 1)]
  <2> SUFFICES ASSUME NEW j \in 1..sz
               PROVE  c.buf[Slot(c, sz, j - 1)] = IF j = n + 1 THEN v ELSE b.buf[Slot(b, sz, j - 1)]
    OBVIOUS
  <2>1. j - 1 \in 0..(sz - 1) /\ Slot(b, sz, j - 1) \in 0..(sz - 1)
    BY Slots
  <2>2. Slot(b, sz, j - 1) = Slot(b, sz, n) <=> j = n + 1
    <3>1. Slot(b, sz, j - 1) = Slot(b, sz, n) => j - 1 = n
      BY <1>1, <2>1, Slots
    <3>2. QED
      BY <1>1, <3>1
  <2>3. QED
    BY <1>2, <1>3, <1>5, <1>7, <2>1, <2>2
<1>10. Holds(c, sz, n + 1)
  <2>1. \A j \in 1..sz : c.buf[Slot(c, sz, j - 1)] # Null <=> j <= n + 1
    BY <1>1, <1>9 DEF Holds
  <2>2. QED
    BY <1>8, <2>1 DEF Holds
<1>11. InOrder(c, sz) /\ Queue(c, sz) = [j \in 1..(n + 1) |-> c.buf[Slot(c, sz, j - 1)]]
  BY <1>1, <1>10, QueueFrom
<1>12. Queue(c, sz) = Append(Queue(b, sz), v)
  <2>1. \A j \in 1..n : Queue(b, sz)[j] = b.buf[Slot(b, sz, j - 1)]
    BY <1>1, QueueIs DEF n
  <2>2. /\ Append(Queue(b, sz), v) \in Seq(V) /\ Len(Append(Queue(b, sz), v)) = n + 1
        /\ \A j \in 1..n : Append(Queue(b, sz), v)[j] = Queue(b, sz)[j]
        /\ Append(Queue(b, sz), v)[n + 1] = v
    BY <1>1, AppendProperties
  <2>3. \A j \in 1..(n + 1) : Append(Queue(b, sz), v)[j] = c.buf[Slot(c, sz, j - 1)]
    BY <1>1, <1>9, <2>1, <2>2
  <2>4. Append(Queue(b, sz), v) = [j \in 1..(n + 1) |-> Append(Queue(b, sz), v)[j]]
    BY <1>1, <2>2, LenProperties
  <2>5. QED
    BY <1>11, <2>3, <2>4
<1>13. QED
  BY <1>6, <1>11, <1>12 DEF c

LEMMA PoppedRing ==
  ASSUME NEW sz \in Nat \ {0}, NEW V, Null \notin V, NEW b \in BufferOf(V, sz),
         InOrder(b, sz), ~IsEmpty(b)
  PROVE  /\ Popped(b) \in BufferOf(V, sz) /\ InOrder(Popped(b), sz)
         /\ Queue(b, sz) # <<>>
         /\ Top(b) = Head(Queue(b, sz)) /\ Queue(Popped(b), sz) = Tail(Queue(b, sz))
<1> DEFINE n == Held(b, sz)
           c == Popped(b)
           q == Queue(b, sz)
<1>1. n \in 0..sz /\ Holds(b, sz, n) /\ q \in Seq(V) /\ Len(q) = n /\ q # <<>>
  BY QueueIs
<1>2. /\ b.buf \in [0..(sz - 1) -> V \cup {Null}] /\ DOMAIN b.buf = 0..(sz - 1)
      /\ b.pread \in 0..(sz - 1) /\ b.pwrite \in 0..(sz - 1)
  BY DEF BufferOf
<1>3. /\ c.buf = [b.buf EXCEPT ![b.pread] = Null] /\ c.pwrite = b.pwrite
      /\ c.pread = After(b, b.pread)
  BY DEF Popped, BufferOf
<1>4. After(b, b.pread) = IF b.pread + 1 < sz THEN b.pread + 1 ELSE 0
  BY <1>2 DEF After
<1>5. b.pwrite = Slot(b, sz, n)
  BY <1>1 DEF Holds
<1>6. c \in BufferOf(V, sz)
  <2>1. After(b, b.pread) \in 0..(sz - 1)
    BY <1>2, <1>4
  <2>2. QED
    BY <2>1 DEF Popped, BufferOf
<1>7. \A j \in 1..n : q[j] = b.buf[Slot(b, sz, j - 1)]
  BY <1>1, QueueIs
<1>8. n \in 1..sz
  BY <1>1
<1> HIDE DEF n, c, q
<1>9. \A j \in 0..(sz - 1) : Slot(c, sz, j) = Slot(b, sz, j + 1)
  <2>1. c.pread = IF b.pread + 1 < sz THEN b.pread + 1 ELSE 0
    BY <1>3, <1>4
  <2>2. QED
    BY <1>2, <2>1 DEF Slot
<1>10. c.pwrite = Slot(c, sz, n - 1)
  BY <1>3, <1>5, <1>8, <1>9
<1>11. \A j \in 1..(sz - 1) : c.buf[Slot(c, sz, j - 1)] = b.buf[Slot(b, sz, j)]
  <2> SUFFICES ASSUME NEW j \in 1..(sz - 1)
               PROVE  c.buf[Slot(c, sz, j - 1)] = b.buf[Slot(b, sz, j)]
    OBVIOUS
  <2>1. Slot(c, sz, j - 1) = Slot(b, sz, j)
    BY <1>9
  <2>2. Slot(b, sz, j) # b.pread /\ Slot(b, sz, j) \in 0..(sz - 1)
    BY Slots
  <2>3. QED
    BY <1>2, <1>3, <2>1, <2>2
<1>12. c.buf[Slot(c, sz, sz - 1)] = Null
  <2>1. sz - 1 \in 0..(sz - 1) /\ (sz - 1) + 1 = sz
    OBVIOUS
  <2>2. Slot(c, sz, sz - 1) = b.pread
    BY <1>9, <2>1, Slots
  <2>3. QED
    BY <1>2, <1>3, <2>2
<1>13. Holds(c, sz, n - 1)
  <2>1. ASSUME NEW j \in 1..sz
        PROVE  c.buf[Slot(c, sz, j - 1)] # Null <=> j <= n - 1
    <3>1. CASE j = sz
      BY <1>8, <1>12, <3>1
    <3>2. CASE j \in 1..(sz - 1)
      <4>1. j + 1 \in 1..sz /\ (j + 1) - 1 = j
        BY <3>2
      <4>2. b.buf[Slot(b, sz, j)] # Null <=> j + 1 <= n
        BY <1>1, <4>1 DEF Holds
      <4>3. QED
        BY <1>8, <1>11, <3>2, <4>2
    <3>3. QED
      BY <3>1, <3>2
  <2>2. QED
    BY <1>10, <2>1 DEF Holds
<1>14. InOrder(c, sz) /\ Queue(c, sz) = [j \in 1..(n - 1) |-> c.buf[Slot(c, sz, j - 1)]]
  BY <1>8, <1>13, QueueFrom
<1>15. Queue(c, sz) = Tail(q)
  <2>1. /\ Tail(q) \in Seq(V) /\ Len(Tail(q)) = n - 1
        /\ \A j \in 1..(n - 1) : Tail(q)[j] = q[j + 1]
    BY <1>1, HeadTailProperties
  <2>2. ASSUME NEW j \in 1..(n - 1)
        PROVE  Tail(q)[j] = c.buf[Slot(c, sz, j - 1)]
    <3>1. j + 1 \in 1..n /\ (j + 1) - 1 = j /\ j \in 1..(sz - 1)
      BY <1>8
    <3>2. q[j + 1] = b.buf[Slot(b, sz, j)]
      BY <1>7, <3>1
    <3>3. QED
      BY <1>11, <2>1, <3>1, <3>2
  <2>3. Tail(q) = [j \in 1..(n - 1) |-> Tail(q)[j]]
    BY <1>8, <2>1, LenProperties
  <2>4. QED
    BY <1>14, <2>2, <2>3
<1>16. Top(b) = Head(q)
  <2>1. Head(q) = q[1]
    BY <1>1
  <2>2. Slot(b, sz, 1 - 1) = b.pread
    BY Slots
  <2>3. QED
    BY <1>7, <1>8, <2>1, <2>2 DEF Top
<1>17. QED
  BY <1>1, <1>6, <1>14, <1>15, <1>16 DEF c, q

(***************************************************************************)
(* Sequences that grow at the end and shrink at the front.                 *)
(***************************************************************************)

LEMMA Appended ==
  ASSUME NEW S, NEW s \in Seq(S), NEW v \in S
  PROVE  /\ Append(s, v) \in Seq(S) /\ Len(Append(s, v)) = Len(s) + 1
         /\ \A k \in 1..Len(s) : Append(s, v)[k] = s[k]
         /\ Append(s, v)[Len(s) + 1] = v
         /\ Range(Append(s, v)) = Range(s) \cup {v}
         /\ IsInjective(s) /\ v \notin Range(s) => IsInjective(Append(s, v))
<1> DEFINE t == Append(s, v)
<1>1. /\ t \in Seq(S) /\ Len(t) = Len(s) + 1 /\ Len(s) \in Nat
      /\ \A k \in 1..Len(s) : t[k] = s[k]
      /\ t[Len(s) + 1] = v
      /\ DOMAIN t = 1..(Len(s) + 1) /\ DOMAIN s = 1..Len(s)
  BY AppendProperties, LenProperties
<1> HIDE DEF t
<1>2. Range(t) = Range(s) \cup {v}
  <2>1. ASSUME NEW x \in Range(t) PROVE x \in Range(s) \cup {v}
    BY <1>1 DEF Range
  <2>2. ASSUME NEW x \in Range(s) \cup {v} PROVE x \in Range(t)
    <3>1. CASE x = v
      BY <1>1, <3>1 DEF Range
    <3>2. CASE x \in Range(s)
      <4>1. PICK k \in 1..Len(s) : x = s[k]
        BY <1>1, <3>2 DEF Range
      <4>2. k \in DOMAIN t /\ t[k] = x
        BY <1>1, <4>1
      <4>3. QED
        BY <4>2 DEF Range
    <3>3. QED
      BY <3>1, <3>2
  <2>3. QED
    BY <2>1, <2>2
<1>3. ASSUME IsInjective(s), v \notin Range(s)
      PROVE  IsInjective(t)
  <2>1. \A k \in 1..Len(s) : s[k] # v
    BY <1>1, <1>3 DEF Range
  <2>2. \A k, l \in 1..Len(s) : s[k] = s[l] => k = l
    BY <1>1, <1>3 DEF IsInjective
  <2>3. QED
    BY <1>1, <2>1, <2>2 DEF IsInjective
<1>4. QED
  BY <1>1, <1>2, <1>3 DEF t

LEMMA Shortened ==
  ASSUME NEW S, NEW s \in Seq(S), s # <<>>
  PROVE  /\ Tail(s) \in Seq(S) /\ Len(Tail(s)) = Len(s) - 1 /\ Len(s) \in Nat \ {0}
         /\ Head(s) = s[1] /\ s[1] \in S /\ s[1] \in Range(s)
         /\ \A k \in 1..(Len(s) - 1) : Tail(s)[k] = s[k + 1]
         /\ Range(s) = Range(Tail(s)) \cup {s[1]}
         /\ IsInjective(s) => IsInjective(Tail(s)) /\ s[1] \notin Range(Tail(s))
<1> DEFINE t == Tail(s)
<1>1. /\ t \in Seq(S) /\ Len(t) = Len(s) - 1 /\ Len(s) \in Nat \ {0}
      /\ \A k \in 1..(Len(s) - 1) : t[k] = s[k + 1]
      /\ DOMAIN t = 1..(Len(s) - 1) /\ DOMAIN s = 1..Len(s)
  BY HeadTailProperties, LenProperties, EmptySeq
<1>2. Head(s) = s[1] /\ s[1] \in S
  BY <1>1, ElementOfSeq
<1> HIDE DEF t
<1>3. s[1] \in Range(s)
  BY <1>1 DEF Range
<1>4. Range(s) = Range(t) \cup {s[1]}
  <2>1. ASSUME NEW x \in Range(t) PROVE x \in Range(s)
    <3>1. PICK k \in 1..(Len(s) - 1) : x = t[k]
      BY <1>1 DEF Range
    <3>2. k + 1 \in DOMAIN s /\ x = s[k + 1]
      BY <1>1, <3>1
    <3>3. QED
      BY <3>2 DEF Range
  <2>2. ASSUME NEW x \in Range(s) PROVE x \in Range(t) \cup {s[1]}
    <3>1. PICK k \in 1..Len(s) : x = s[k]
      BY <1>1 DEF Range
    <3>2. CASE k = 1
      BY <3>1, <3>2
    <3>3. CASE k # 1
      <4>1. k - 1 \in 1..(Len(s) - 1) /\ (k - 1) + 1 = k
        BY <1>1, <3>3
      <4>2. x = t[k - 1]
        BY <1>1, <3>1, <4>1
      <4>3. QED
        BY <1>1, <4>1, <4>2 DEF Range
    <3>4. QED
      BY <3>2, <3>3
  <2>3. QED
    BY <1>3, <2>1, <2>2
<1>5. ASSUME IsInjective(s)
      PROVE  IsInjective(t) /\ s[1] \notin Range(t)
  <2>1. \A k, l \in 1..Len(s) : s[k] = s[l] => k = l
    BY <1>1, <1>5 DEF IsInjective
  <2>2. \A k \in 1..(Len(s) - 1) : k + 1 \in 1..Len(s) /\ k + 1 # 1
    BY <1>1
  <2>3. \A k \in 1..(Len(s) - 1) : t[k] # s[1]
    BY <1>1, <2>1, <2>2
  <2>4. \A k, l \in 1..(Len(s) - 1) : t[k] = t[l] => k = l
    BY <1>1, <2>1, <2>2
  <2>5. QED
    BY <1>1, <2>3, <2>4 DEF IsInjective, Range
<1>6. QED
  BY <1>1, <1>2, <1>3, <1>4, <1>5 DEF t

LEMMA Joined ==
  ASSUME NEW S, NEW s \in Seq(S), NEW t \in Seq(S), NEW n \in Nat, Len(s) = n
  PROVE  /\ s \o t \in Seq(S) /\ Len(s \o t) = n + Len(t) /\ Len(t) \in Nat
         /\ \A k \in 1..n : (s \o t)[k] = s[k]
         /\ \A k \in 1..Len(t) : (s \o t)[n + k] = t[k]
<1> DEFINE w == s \o t
<1>1. /\ w \in Seq(S) /\ Len(w) = Len(s) + Len(t) /\ Len(t) \in Nat
      /\ \A k \in 1..(Len(s) + Len(t)) : w[k] = IF k <= Len(s) THEN s[k] ELSE t[k - Len(s)]
  BY ConcatProperties, LenProperties
<1> HIDE DEF w
<1>2. ASSUME NEW k \in 1..n PROVE w[k] = s[k]
  BY <1>1
<1>3. ASSUME NEW k \in 1..Len(t) PROVE w[n + k] = t[k]
  <2>1. n + k \in 1..(Len(s) + Len(t)) /\ ~(n + k <= Len(s)) /\ (n + k) - Len(s) = k
    BY <1>1
  <2>2. w[n + k] = t[(n + k) - Len(s)]
    BY <1>1, <2>1
  <2>3. QED
    BY <2>1, <2>2
<1>4. QED
  BY <1>1, <1>2, <1>3 DEF w

LEMMA ConcatAppended ==
  ASSUME NEW S, NEW s \in Seq(S), NEW t \in Seq(S), NEW v \in S
  PROVE  s \o Append(t, v) = Append(s \o t, v)
<1> DEFINE n == Len(s)
           m == Len(t)
           u == Append(t, v)
           w == s \o t
           x == s \o u
           y == Append(w, v)
<1>1. n \in Nat /\ m \in Nat
  BY LenProperties
<1>2. u \in Seq(S) /\ Len(u) = m + 1 /\ u[m + 1] = v /\ \A k \in 1..m : u[k] = t[k]
  BY Appended
<1>3. /\ w \in Seq(S) /\ Len(w) = n + m
      /\ (\A k \in 1..n : w[k] = s[k]) /\ (\A k \in 1..m : w[n + k] = t[k])
  BY <1>1, Joined
<1>4. /\ x \in Seq(S) /\ Len(x) = n + Len(u)
      /\ (\A k \in 1..n : x[k] = s[k]) /\ (\A k \in 1..Len(u) : x[n + k] = u[k])
  BY <1>1, <1>2, Joined
<1>5. /\ y \in Seq(S) /\ Len(y) = Len(w) + 1 /\ y[Len(w) + 1] = v
      /\ \A k \in 1..Len(w) : y[k] = w[k]
  BY <1>3, Appended
<1> HIDE DEF n, m, u, w, x, y
<1>6. ASSUME NEW k \in 1..Len(x)
      PROVE  x[k] = y[k]
  <2>1. CASE k \in 1..n
    BY <1>1, <1>3, <1>4, <1>5, <2>1
  <2>2. CASE k - n \in 1..m
    <3>1. k = n + (k - n)
      BY <1>1, <1>4
    <3>2. x[n + (k - n)] = t[k - n]
      BY <1>1, <1>2, <1>4, <2>2
    <3>3. w[n + (k - n)] = t[k - n] /\ k \in 1..Len(w)
      BY <1>1, <1>3, <2>2
    <3>4. QED
      BY <1>5, <3>1, <3>2, <3>3
  <2>3. CASE k = n + (m + 1)
    BY <1>1, <1>2, <1>3, <1>4, <1>5, <2>3
  <2>4. QED
    BY <1>1, <1>2, <1>4, <2>1, <2>2, <2>3
<1>7. x = y
  BY <1>1, <1>2, <1>3, <1>4, <1>5, <1>6, SeqEqual
<1>8. QED
  BY <1>7 DEF u, w, x, y

\* The first of a list moves from the list to what comes before it.
LEMMA TwoThenTail ==
  ASSUME NEW S, NEW t \in Seq(S), t # <<>>, NEW x \in S
  PROVE  <<x>> \o t = <<x, Head(t)>> \o Tail(t)
<1> DEFINE m == Len(t)
           u == Tail(t)
           p == <<x>>
           q == <<x, Head(t)>>
           v == p \o t
           w == q \o u
<1>1. /\ u \in Seq(S) /\ Len(u) = m - 1 /\ m \in Nat \ {0} /\ Head(t) = t[1]
      /\ \A k \in 1..(m - 1) : u[k] = t[k + 1]
      /\ t[1] \in S
  BY Shortened
<1>2. p \in Seq(S) /\ Len(p) = 1 /\ p[1] = x
  OBVIOUS
<1>3. q \in Seq(S) /\ Len(q) = 2 /\ q[1] = x /\ q[2] = t[1]
  BY <1>1
<1>4. /\ v \in Seq(S) /\ Len(v) = 1 + m /\ v[1] = p[1]
      /\ \A k \in 1..m : v[1 + k] = t[k]
  BY <1>2, Joined
<1>5. /\ w \in Seq(S) /\ Len(w) = 2 + Len(u)
      /\ (\A k \in 1..2 : w[k] = q[k]) /\ (\A k \in 1..Len(u) : w[2 + k] = u[k])
  BY <1>1, <1>3, Joined
<1> HIDE DEF m, u, p, q, v, w
<1>6. ASSUME NEW k \in 1..Len(v)
      PROVE  v[k] = w[k]
  <2>1. CASE k = 1
    BY <1>2, <1>3, <1>4, <1>5, <2>1
  <2>2. CASE k = 2
    <3>1. v[1 + 1] = t[1]
      BY <1>1, <1>4
    <3>2. QED
      BY <1>3, <1>5, <2>2, <3>1
  <2>3. CASE k > 2
    <3>1. k - 2 \in 1..(m - 1) /\ (k - 2) + 1 = k - 1 /\ k - 1 \in 1..m
      BY <1>1, <1>4, <2>3
    <3>2. v[1 + (k - 1)] = t[k - 1] /\ 1 + (k - 1) = k
      BY <1>4, <3>1
    <3>3. w[2 + (k - 2)] = u[k - 2] /\ 2 + (k - 2) = k
      BY <1>1, <1>5, <3>1
    <3>4. u[k - 2] = t[k - 1]
      BY <1>1, <3>1
    <3>5. QED
      BY <3>2, <3>3, <3>4
  <2>4. QED
    BY <1>1, <1>4, <2>1, <2>2, <2>3
<1>7. v = w
  BY <1>1, <1>4, <1>5, <1>6, SeqEqual
<1>8. QED
  BY <1>7 DEF u, p, q, v, w

LEMMA TailOfTwo ==
  ASSUME NEW S, NEW t \in Seq(S), NEW x \in S, NEW y \in S
  PROVE  Tail(<<x, y>> \o t) = <<y>> \o t
<1> DEFINE m == Len(t)
           p == <<y>>
           q == <<x, y>>
           v == p \o t
           w == q \o t
           z == Tail(w)
<1>1. p \in Seq(S) /\ Len(p) = 1 /\ p[1] = y /\ m \in Nat
  OBVIOUS
<1>2. q \in Seq(S) /\ Len(q) = 2 /\ q[1] = x /\ q[2] = y
  OBVIOUS
<1>3. /\ v \in Seq(S) /\ Len(v) = 1 + m /\ v[1] = p[1]
      /\ \A k \in 1..m : v[1 + k] = t[k]
  BY <1>1, Joined
<1>4. /\ w \in Seq(S) /\ Len(w) = 2 + m
      /\ (\A k \in 1..2 : w[k] = q[k]) /\ (\A k \in 1..m : w[2 + k] = t[k])
  BY <1>2, Joined
<1> HIDE DEF w
<1>5. /\ z \in Seq(S) /\ Len(z) = Len(w) - 1
      /\ \A k \in 1..(Len(w) - 1) : z[k] = w[k + 1]
  BY <1>1, <1>4, EmptySeq, Shortened
<1> HIDE DEF m, p, q, v, z
<1>6. ASSUME NEW k \in 1..Len(v)
      PROVE  v[k] = z[k]
  <2>1. z[k] = w[k + 1]
    BY <1>1, <1>3, <1>4, <1>5
  <2>2. CASE k = 1
    BY <1>1, <1>2, <1>3, <1>4, <2>1, <2>2
  <2>3. CASE k > 1
    <3>1. k - 1 \in 1..m /\ 1 + (k - 1) = k /\ 2 + (k - 1) = k + 1
      BY <1>1, <1>3, <2>3
    <3>2. v[1 + (k - 1)] = t[k - 1] /\ w[2 + (k - 1)] = t[k - 1]
      BY <1>3, <1>4, <3>1
    <3>3. QED
      BY <2>1, <3>1, <3>2
  <2>4. QED
    BY <1>1, <1>3, <2>2, <2>3
<1>7. z = v
  BY <1>1, <1>3, <1>4, <1>5, <1>6, SeqEqual
<1>8. QED
  BY <1>7 DEF p, q, v, w, z

(***************************************************************************)
(* A cache holds a set of addresses.                                       *)
(***************************************************************************)

LEMMA CachePushed ==
  ASSUME NEW sz \in Nat \ {0}, NEW V, Null \notin V, NEW b \in BufferOf(V, sz),
         InOrder(b, sz), IsInjective(Queue(b, sz)), IsAvailable(b),
         NEW v \in V, v \notin Contents(b)
  PROVE  /\ Pushed(b, v) \in BufferOf(V, sz)
         /\ InOrder(Pushed(b, v), sz) /\ IsInjective(Queue(Pushed(b, v), sz))
         /\ Contents(Pushed(b, v)) = Contents(b) \cup {v}
<1>1. /\ Pushed(b, v) \in BufferOf(V, sz) /\ InOrder(Pushed(b, v), sz)
      /\ Queue(Pushed(b, v), sz) = Append(Queue(b, sz), v)
  BY PushedRing
<1>2. Queue(b, sz) \in Seq(V) /\ Contents(b) = Range(Queue(b, sz))
  BY QueueIs
<1>3. Contents(Pushed(b, v)) = Range(Queue(Pushed(b, v), sz))
  BY <1>1, QueueIs
<1>4. QED
  BY <1>1, <1>2, <1>3, Appended

LEMMA CachePopped ==
  ASSUME NEW sz \in Nat \ {0}, NEW V, Null \notin V, NEW b \in BufferOf(V, sz),
         InOrder(b, sz), IsInjective(Queue(b, sz)), ~IsEmpty(b)
  PROVE  /\ Popped(b) \in BufferOf(V, sz)
         /\ InOrder(Popped(b), sz) /\ IsInjective(Queue(Popped(b), sz))
         /\ Top(b) \in V /\ Top(b) \in Contents(b)
         /\ Contents(Popped(b)) = Contents(b) \ {Top(b)}
<1>1. /\ Popped(b) \in BufferOf(V, sz) /\ InOrder(Popped(b), sz) /\ Queue(b, sz) # <<>>
      /\ Top(b) = Head(Queue(b, sz)) /\ Queue(Popped(b), sz) = Tail(Queue(b, sz))
  BY PoppedRing
<1>2. Queue(b, sz) \in Seq(V) /\ Contents(b) = Range(Queue(b, sz))
  BY QueueIs
<1>3. Contents(Popped(b)) = Range(Queue(Popped(b), sz))
  BY <1>1, QueueIs
<1>4. QED
  BY <1>1, <1>2, <1>3, Shortened

LEMMA CacheEmpty ==
  ASSUME NEW sz \in Nat \ {0}, NEW V, Null \notin V, NEW b \in BufferOf(V, sz),
         InOrder(b, sz), IsEmpty(b)
  PROVE  Contents(b) = {}
BY QueueIs DEF Range

\* What free() leaves is neither a ring nor a node.
LEMMA FreedIsNone ==
  /\ \A x \in ListNode : x # Freed
  /\ \A V, sz : \A x \in BufferOf(V, sz) : x # Freed
<1>1. DOMAIN Freed = {"freed"}
  BY DEF Freed
<1>2. \A x \in ListNode : DOMAIN x = {"data", "next"}
  BY DEF ListNode
<1>3. \A V, sz : \A x \in BufferOf(V, sz) : DOMAIN x = {"buf", "pread", "pwrite"}
  BY DEF BufferOf
<1>4. QED
  BY <1>1, <1>2, <1>3

(***************************************************************************)
(* The list and the chain.                                                 *)
(***************************************************************************)

LEMMA ListIs ==
  ASSUME TypeOK, NodesInPlace
  PROVE  /\ list \in Seq(Nodes) /\ list # <<>> /\ Len(list) \in Nat \ {0}
         /\ DOMAIN list = 1..Len(list)
         /\ head = list[1] /\ tail = list[Len(list)]
         /\ \A k \in 1..Len(list) :
              list[k] \in Nodes /\ list[k] \in Range(list) /\ node[list[k]] \in ListNode
         /\ \A k, l \in 1..Len(list) : list[k] = list[l] => k = l
<1>1. /\ list \in Seq(Nodes) /\ list # <<>> /\ Len(list) \in Nat \ {0}
      /\ DOMAIN list = 1..Len(list)
  BY EmptySeq, LenProperties DEF TypeOK, NodesInPlace, ListLinked
<1>2. ASSUME NEW k \in 1..Len(list)
      PROVE  list[k] \in Nodes /\ list[k] \in Range(list) /\ node[list[k]] \in ListNode
  <2>1. list[k] \in Nodes /\ list[k] \in Range(list)
    BY <1>1, ElementOfSeq DEF Range
  <2>2. node[list[k]] # Freed
    BY <2>1 DEF NodesInPlace, IsFree
  <2>3. QED
    BY <2>1, <2>2 DEF TypeOK
<1>3. \A k, l \in 1..Len(list) : list[k] = list[l] => k = l
  BY <1>1 DEF NodesInPlace, IsInjective
<1>4. head = list[1] /\ tail = list[Len(list)]
  BY DEF NodesInPlace, ListLinked
<1>5. QED
  BY <1>1, <1>2, <1>3, <1>4

LEMMA ListedIs ==
  ASSUME TypeOK, NodesInPlace
  PROVE  /\ Listed \in Seq(Buffers \cup {Null}) /\ Len(Listed) = Len(list) - 1
         /\ \A k \in 1..(Len(list) - 1) : Listed[k] = node[list[k + 1]].data
         /\ Ahead \in Seq(Buffers \cup {Null}) /\ Len(Ahead) \in {1, 2} /\ Ahead[1] = buf_r
         /\ reader.pc \in {"oldnode", "release", "oldring"} =>
              Len(Ahead) = 2 /\ Ahead[2] = reader.tmp
<1>1. ASSUME NEW k \in 1..(Len(list) - 1)
      PROVE  node[list[k + 1]].data \in Buffers \cup {Null}
  <2>1. k + 1 \in 1..Len(list)
    BY ListIs
  <2>2. node[list[k + 1]] \in ListNode
    BY <2>1, ListIs
  <2>3. QED
    BY <2>2 DEF ListNode
<1>2. Len(list) - 1 \in Nat
  BY ListIs
<1>3. Listed \in Seq(Buffers \cup {Null}) /\ Len(Listed) = Len(list) - 1
  BY <1>1, <1>2 DEF Listed
<1>4. buf_r \in Buffers \cup {Null} /\ reader.tmp \in Buffers \cup {Null}
  BY DEF TypeOK
<1>5. /\ Ahead \in Seq(Buffers \cup {Null}) /\ Len(Ahead) \in {1, 2} /\ Ahead[1] = buf_r
      /\ reader.pc \in {"oldnode", "release", "oldring"} =>
           Len(Ahead) = 2 /\ Ahead[2] = reader.tmp
  <2> DEFINE far == reader.pc \in {"oldnode", "release", "oldring"}
  <2>1. Ahead = IF far THEN <<buf_r, reader.tmp>> ELSE <<buf_r>>
    BY DEF Ahead
  <2> HIDE DEF far
  <2>2. CASE far
    <3>1. Ahead = <<buf_r, reader.tmp>>
      BY <2>1, <2>2
    <3>2. QED
      BY <1>4, <3>1
  <2>3. CASE ~far
    <3>1. Ahead = <<buf_r>>
      BY <2>1, <2>3
    <3>2. QED
      BY <1>4, <2>3, <3>1 DEF far
  <2>4. QED
    BY <2>2, <2>3
<1>6. \A k \in 1..(Len(list) - 1) : Listed[k] = node[list[k + 1]].data
  BY DEF Listed
<1>7. QED
  BY <1>3, <1>5, <1>6

LEMMA ChainIs ==
  ASSUME TypeOK, NodesInPlace
  PROVE  /\ Chain \in Seq(Buffers \cup {Null}) /\ Len(Chain) \in Nat \ {0}
         /\ DOMAIN Chain = 1..Len(Chain)
         /\ Len(Chain) = Len(Ahead) + Len(list) - 1
         /\ Chain[1] = buf_r /\ buf_r \in Range(Chain)
         /\ reader.pc \in {"oldnode", "release", "oldring"} =>
              Len(Chain) > 1 /\ Chain[2] = reader.tmp
<1> DEFINE a == Ahead
           l == Listed
           c == a \o l
           n == Len(a)
<1>1. /\ l \in Seq(Buffers \cup {Null}) /\ Len(l) = Len(list) - 1 /\ Len(list) \in Nat \ {0}
      /\ a \in Seq(Buffers \cup {Null}) /\ n \in {1, 2} /\ a[1] = buf_r
      /\ reader.pc \in {"oldnode", "release", "oldring"} => n = 2 /\ a[2] = reader.tmp
  BY ListIs, ListedIs
<1> HIDE DEF a, l
<1>2. /\ c \in Seq(Buffers \cup {Null}) /\ Len(c) = n + Len(l)
      /\ \A k \in 1..n : c[k] = a[k]
  <2>1. n \in Nat /\ Len(a) = n
    BY <1>1
  <2>2. QED
    BY <1>1, <2>1, Joined
<1>3. DOMAIN c = 1..Len(c)
  BY <1>2, LenProperties
<1>4. c = Chain
  BY DEF Chain, a, l
<1> HIDE DEF c, n
<1>5. Len(c) \in Nat \ {0} /\ Len(c) = n + Len(list) - 1 /\ c[1] = buf_r
  BY <1>1, <1>2
<1>6. buf_r \in Range(c)
  BY <1>3, <1>5 DEF Range
<1>7. reader.pc \in {"oldnode", "release", "oldring"} => Len(c) > 1 /\ c[2] = reader.tmp
  BY <1>1, <1>2, <1>5
<1>8. QED
  BY <1>2, <1>3, <1>4, <1>5, <1>6, <1>7 DEF n, a

\* The steps that leave the chain as it is ...
LEMMA SameChain ==
  ASSUME TypeOK, NodesInPlace, list' = list, Ahead' = Ahead,
         \A k \in 2..Len(list) : node'[list[k]].data = node[list[k]].data
  PROVE  Chain' = Chain
<1>1. \A k \in 1..(Len(list) - 1) : k + 1 \in 2..Len(list)
  BY ListIs
<1>2. Listed' = Listed
  BY <1>1 DEF Listed
<1>3. QED
  BY <1>2 DEF Chain

LEMMA SameChainWithNode ==
  ASSUME TypeOK, NodesInPlace, list' = list, buf_r' = buf_r, reader'.tmp = reader.tmp,
         \A n \in Range(list) : node'[n] = node[n],
         reader'.pc \in {"oldnode", "release", "oldring"}
           <=> reader.pc \in {"oldnode", "release", "oldring"}
  PROVE  Chain' = Chain
<1>1. Ahead' = Ahead
  BY DEF Ahead
<1>2. \A k \in 2..Len(list) : node'[list[k]].data = node[list[k]].data
  BY ListIs
<1>3. QED
  BY <1>1, <1>2, SameChain

\* ... and those that do not: Link puts a ring at its end ...
LEMMA LinkChain ==
  ASSUME TypeOK, NodesInPlace, WriterKnows, Link
  PROVE  /\ Chain' = Append(Chain, writer.t)
         /\ node' = [node EXCEPT ![tail].next = writer.n]
<1>1. /\ writer.pc = "link" /\ node' = [node EXCEPT ![tail].next = writer.n]
      /\ list' = Append(list, writer.n) /\ buf_r' = buf_r /\ reader' = reader
  BY DEF Link
<1>2. /\ writer.n \in Nodes /\ writer.t \in Buffers
      /\ node[writer.n] = [data |-> writer.t, next |-> Null]
  BY <1>1 DEF WriterKnows
<1>3. writer.n \notin Range(list)
  BY <1>1 DEF NodesInPlace, NodesApart
<1>4. /\ Len(list') = Len(list) + 1 /\ list'[Len(list) + 1] = writer.n
      /\ \A k \in 1..Len(list) : list'[k] = list[k]
  BY <1>1, <1>2, ListIs, Appended
<1>5. \A k \in 1..Len(list) : node'[list[k]].data = node[list[k]].data
  <2>1. ASSUME NEW k \in 1..Len(list) PROVE node'[list[k]].data = node[list[k]].data
    <3>1. list[k] \in Nodes /\ node[list[k]] \in ListNode
      BY ListIs
    <3>2. node \in [Nodes -> ListNode \cup {Freed}]
      BY DEF TypeOK
    <3>3. QED
      BY <1>1, <3>1, <3>2 DEF ListNode
  <2>2. QED
    BY <2>1
<1>6. node'[writer.n].data = writer.t
  <2>1. writer.n # tail
    BY <1>3, ListIs
  <2>2. node'[writer.n] = node[writer.n]
    BY <1>1, <1>2, <2>1 DEF TypeOK
  <2>3. QED
    BY <1>2, <2>2
<1>7. Listed' = Append(Listed, writer.t)
  <2> DEFINE m == Len(list) - 1
             x == Listed
             y == Append(Listed, writer.t)
  <2>1. m \in Nat /\ Len(list) = m + 1
    BY ListIs
  <2>2. x \in Seq(Buffers \cup {Null}) /\ Len(x) = m /\ \A k \in 1..m : x[k] = node[list[k + 1]].data
    BY ListedIs
  <2>3. /\ y \in Seq(Buffers \cup {Null}) /\ Len(y) = m + 1 /\ y[m + 1] = writer.t
        /\ \A k \in 1..m : y[k] = x[k]
    BY <1>2, <2>2, Appended
  <2> HIDE DEF m, x, y
  <2>4. Listed' = [k \in 1..(m + 1) |-> node'[list'[k + 1]].data]
    BY <1>4, <2>1 DEF Listed
  <2>5. ASSUME NEW k \in 1..(m + 1)
        PROVE  node'[list'[k + 1]].data = y[k]
    <3>1. CASE k \in 1..m
      <4>1. k + 1 \in 1..Len(list)
        BY <2>1, <3>1
      <4>2. list'[k + 1] = list[k + 1]
        BY <1>4, <4>1
      <4>3. QED
        BY <1>5, <2>2, <2>3, <3>1, <4>1, <4>2
    <3>2. CASE k = m + 1
      <4>1. k + 1 = Len(list) + 1
        BY <2>1, <3>2
      <4>2. QED
        BY <1>4, <1>6, <2>3, <3>2, <4>1
    <3>3. QED
      BY <2>1, <3>1, <3>2
  <2>6. y = [k \in 1..(m + 1) |-> y[k]]
    BY <2>1, <2>3, LenProperties
  <2>7. QED
    BY <2>4, <2>5, <2>6 DEF y
<1>8. Ahead' = Ahead
  BY <1>1 DEF Ahead
<1>9. Ahead \o Append(Listed, writer.t) = Append(Ahead \o Listed, writer.t)
  BY <1>2, ListedIs, ConcatAppended
<1>10. QED
  BY <1>1, <1>7, <1>8, <1>9 DEF Chain

\* ... NextR only takes a ring out of the list and into the reader's hands ...
LEMMA NextRDoes ==
  ASSUME TypeOK, NodesInPlace, NextR
  PROVE  /\ Chain' = Chain
         /\ \/ /\ Len(list) > 1 /\ head' = list[2] /\ list' = Tail(list)
               /\ reader' = [pc |-> "oldnode", tmp |-> Listed[1], n |-> head]
            \/ /\ Len(list) = 1 /\ UNCHANGED <<head, list>>
               /\ reader' = [reader EXCEPT !.pc = "take"]
<1>1. reader.pc = "next_r" /\ node' = node /\ buf_r' = buf_r
  BY DEF NextR
<1>2. head = list[1] /\ tail = list[Len(list)] /\ Len(list) \in Nat \ {0}
      /\ list \in Seq(Nodes) /\ list # <<>>
  BY ListIs
<1>3. CASE node[head].next # Null
  <2>1. Len(list) > 1
    <3>1. CASE Len(list) = 1
      BY <1>2, <1>3, <3>1 DEF NodesInPlace, ListLinked
    <3>2. Len(list) = 1 \/ Len(list) > 1
      BY <1>2
    <3>3. QED
      BY <3>1, <3>2
  <2>2. node[head].next = list[2]
    <3>1. 1 \in 1..(Len(list) - 1)
      BY <1>2, <2>1
    <3>2. node[list[1]].next = list[1 + 1]
      BY <3>1 DEF NodesInPlace, ListLinked
    <3>3. QED
      BY <1>2, <3>2
  <2>3. /\ 1 \in 1..(Len(list) - 1) /\ Listed[1] = node[list[1 + 1]].data
        /\ Listed \in Seq(Buffers \cup {Null}) /\ Len(Listed) = Len(list) - 1
    BY <1>2, <2>1, ListedIs
  <2>4. /\ head' = list[2] /\ list' = Tail(list)
        /\ reader' = [pc |-> "oldnode", tmp |-> Listed[1], n |-> head]
    BY <1>3, <2>2, <2>3 DEF NextR
  <2> DEFINE m == Len(list) - 1
             x == Listed
             y == Tail(Listed)
  <2>5. x \in Seq(Buffers \cup {Null}) /\ Len(x) = m /\ m \in Nat \ {0} /\ x # <<>>
    BY <1>2, <2>1, <2>3, EmptySeq
  <2>6. /\ y \in Seq(Buffers \cup {Null}) /\ Len(y) = m - 1 /\ Head(x) = x[1] /\ x[1] \in Buffers \cup {Null}
        /\ \A k \in 1..(m - 1) : y[k] = x[k + 1]
    BY <2>5, Shortened
  <2>7. \A k \in 1..m : x[k] = node[list[k + 1]].data
    BY ListedIs
  <2>8. /\ list' \in Seq(Nodes) /\ Len(list') = m
        /\ \A k \in 1..m : list'[k] = list[k + 1]
    BY <1>2, <2>4, Shortened
  <2> HIDE DEF m, x, y
  <2>9. Listed' = [k \in 1..(m - 1) |-> node[list'[k + 1]].data]
    BY <1>1, <2>8 DEF Listed
  <2>10. ASSUME NEW k \in 1..(m - 1)
         PROVE  node[list'[k + 1]].data = y[k]
    <3>1. k + 1 \in 1..m
      BY <2>5
    <3>2. QED
      BY <2>6, <2>7, <2>8, <3>1
  <2>11. y = [k \in 1..(m - 1) |-> y[k]]
    BY <2>5, <2>6, LenProperties
  <2>12. Listed' = y
    BY <2>9, <2>10, <2>11
  <2>13. Ahead = <<buf_r>> /\ Ahead' = <<buf_r, x[1]>>
    BY <1>1, <2>4 DEF Ahead, x
  <2>14. buf_r \in Buffers \cup {Null}
    BY DEF TypeOK
  <2>15. <<buf_r>> \o x = <<buf_r, Head(x)>> \o Tail(x)
    BY <2>5, <2>14, TwoThenTail
  <2>16. Chain' = <<buf_r, x[1]>> \o y /\ Chain = <<buf_r>> \o x
    BY <2>12, <2>13 DEF Chain, x
  <2>17. Chain' = Chain
    BY <2>6, <2>15, <2>16 DEF x, y
  <2>18. QED
    BY <2>1, <2>4, <2>17
<1>4. CASE node[head].next = Null
  <2>1. Len(list) = 1
    <3>1. CASE Len(list) > 1
      <4>1. 1 \in 1..(Len(list) - 1) /\ 1 + 1 \in 1..Len(list)
        BY <1>2, <3>1
      <4>2. node[list[1]].next = list[1 + 1] /\ list[1 + 1] \in Nodes
        BY <4>1, ListIs DEF NodesInPlace, ListLinked
      <4>3. QED
        BY <1>2, <1>4, <4>2, NullAssumption
    <3>2. Len(list) = 1 \/ Len(list) > 1
      BY <1>2
    <3>3. QED
      BY <3>1, <3>2
  <2>2. UNCHANGED <<head, list>> /\ reader' = [reader EXCEPT !.pc = "take"]
    BY <1>4 DEF NextR
  <2>3. reader'.pc = "take" /\ reader'.tmp = reader.tmp
    BY <2>2 DEF TypeOK
  <2>4. Chain' = Chain
    BY <1>1, <2>2, <2>3, SameChainWithNode
  <2>5. QED
    BY <2>1, <2>2, <2>4
<1>5. QED
  BY <1>3, <1>4

\* ... and DropRing leaves the first one behind.
LEMMA DropRingChain ==
  ASSUME TypeOK, NodesInPlace, DropRing
  PROVE  Chain' = Tail(Chain)
<1>1. /\ reader.pc = "oldring" /\ reader'.pc = "take" /\ buf_r' = reader.tmp
      /\ list' = list /\ node' = node
  BY DEF DropRing, ToReader, TypeOK
<1>2. Ahead = <<buf_r, reader.tmp>> /\ Ahead' = <<reader.tmp>>
  BY <1>1 DEF Ahead
<1>3. Listed' = Listed
  BY <1>1 DEF Listed
<1>4. buf_r \in Buffers \cup {Null} /\ reader.tmp \in Buffers \cup {Null}
  BY DEF TypeOK
<1>5. Tail(<<buf_r, reader.tmp>> \o Listed) = <<reader.tmp>> \o Listed
  BY <1>4, ListedIs, TailOfTwo
<1>6. QED
  BY <1>2, <1>3, <1>5 DEF Chain

(***************************************************************************)
(* What the two threads take from the caches and from malloc, and what     *)
(* they give back.                                                         *)
(***************************************************************************)

LEMMA CachesAre ==
  ASSUME TypeOK, CachesInOrder
  PROVE  /\ bufcache \in BufferOf(Buffers, CacheSize) /\ cache \in BufferOf(Nodes, CacheSize)
         /\ CacheSize \in Nat \ {0} /\ size \in Nat \ {0} /\ Quota \in Nat
         /\ Null \notin Buffers /\ Null \notin Nodes /\ Null \notin 1..Quota
         /\ Contents(bufcache) \subseteq Buffers /\ Contents(cache) \subseteq Nodes
<1>1. bufcache \in BufferOf(Buffers, CacheSize) /\ cache \in BufferOf(Nodes, CacheSize)
  BY DEF TypeOK
<1>2. \A V : \A b \in BufferOf(V, CacheSize) : Contents(b) \subseteq V
  BY DEF BufferOf, Contents
<1>3. QED
  BY <1>1, <1>2, SizesAssumption, NullAssumption

\* A new ring, or an old one that is empty: NextW has an empty ring that nobody uses.
LEMMA NextWDoes ==
  ASSUME TypeOK, RingsInPlace, CachesInOrder, NextW
  PROVE  \E b \in Buffers :
           /\ b \notin Range(Chain)
           /\ writer' = [writer EXCEPT !.pc = "allocnode", !.t = b]
           /\ buffer' = [buffer EXCEPT ![b] = EmptyBuffer(size)]
           /\ bufcache' \in BufferOf(Buffers, CacheSize)
           /\ InOrder(bufcache, CacheSize)' /\ IsInjective(Queue(bufcache, CacheSize))'
           /\ Contents(bufcache)' = Contents(bufcache) \ {b}
<1>1. writer.pc = "next_w" /\ RingsComing = {}
  BY DEF NextW, RingsComing
<1>2. CASE /\ ~IsEmpty(bufcache)
           /\ writer' = [writer EXCEPT !.pc = "allocnode", !.t = Top(bufcache)]
           /\ bufcache' = Popped(bufcache)
           /\ UNCHANGED buffer
  <2> DEFINE b == Top(bufcache)
             c == Popped(bufcache)
  <2>1. /\ c \in BufferOf(Buffers, CacheSize)
        /\ InOrder(c, CacheSize) /\ IsInjective(Queue(c, CacheSize))
        /\ b \in Buffers /\ b \in Contents(bufcache) /\ Contents(c) = Contents(bufcache) \ {b}
    BY <1>2, CachesAre, CachePopped DEF CachesInOrder
  <2>2. b \notin Range(Chain) /\ buffer[b] = EmptyBuffer(size)
    BY <2>1 DEF RingsInPlace
  <2>3. buffer' = [buffer EXCEPT ![b] = EmptyBuffer(size)]
    BY <1>2, <2>1, <2>2 DEF TypeOK
  <2>4. bufcache' = c /\ writer' = [writer EXCEPT !.pc = "allocnode", !.t = b]
    BY <1>2
  <2> HIDE DEF b, c
  <2>5. QED
    BY <2>1, <2>2, <2>3, <2>4
<1>3. CASE /\ IsEmpty(bufcache) /\ Left(buffer)
           /\ LET b == Malloc(buffer)
              IN  /\ buffer' = [buffer EXCEPT ![b] = EmptyBuffer(size)]
                  /\ writer' = [writer EXCEPT !.pc = "allocnode", !.t = b]
           /\ UNCHANGED bufcache
  <2> DEFINE b == Malloc(buffer)
  <2>1. b \in Buffers /\ IsFree(buffer, b)
    <3>1. DOMAIN buffer = Buffers
      BY DEF TypeOK
    <3>2. \E a \in DOMAIN buffer : IsFree(buffer, a)
      BY <1>3 DEF Left
    <3>3. QED
      BY <3>1, <3>2 DEF Malloc
  <2>2. Contents(bufcache) = {}
    BY <1>3, CachesAre, CacheEmpty DEF CachesInOrder
  <2>3. /\ writer' = [writer EXCEPT !.pc = "allocnode", !.t = b]
        /\ buffer' = [buffer EXCEPT ![b] = EmptyBuffer(size)] /\ bufcache' = bufcache
    BY <1>3
  <2> HIDE DEF b
  <2>4. b \notin Range(Chain)
    BY <2>1 DEF RingsInPlace
  <2>5. QED
    BY <2>1, <2>2, <2>3, <2>4, CachesAre DEF CachesInOrder
<1>4. QED
  BY <1>2, <1>3 DEF NextW

\* AllocNode has a node that nobody uses.
LEMMA AllocNodeDoes ==
  ASSUME TypeOK, NodesInPlace, CachesInOrder, AllocNode
  PROVE  \E n \in Nodes :
           /\ n \notin NodesApart \cup Range(list)
           /\ writer' = [writer EXCEPT !.pc = "link", !.n = n]
           /\ node' = [node EXCEPT ![n] = [data |-> writer.t, next |-> Null]]
           /\ cache' \in BufferOf(Nodes, CacheSize)
           /\ InOrder(cache, CacheSize)' /\ IsInjective(Queue(cache, CacheSize))'
           /\ Contents(cache)' = Contents(cache) \ {n}
<1> DEFINE n == IF IsEmpty(cache) THEN Malloc(node) ELSE Top(cache)
<1>1. /\ writer' = [writer EXCEPT !.pc = "link", !.n = n]
      /\ node' = [node EXCEPT ![n] = [data |-> writer.t, next |-> Null]]
      /\ cache' = IF IsEmpty(cache) THEN cache ELSE Popped(cache)
      /\ ~IsEmpty(cache) \/ Left(node)
  BY DEF AllocNode
<1>2. CASE ~IsEmpty(cache)
  <2> DEFINE c == Popped(cache)
             m == Top(cache)
  <2>1. /\ c \in BufferOf(Nodes, CacheSize)
        /\ InOrder(c, CacheSize) /\ IsInjective(Queue(c, CacheSize))
        /\ m \in Nodes /\ m \in Contents(cache) /\ Contents(c) = Contents(cache) \ {m}
    BY <1>2, CachesAre, CachePopped DEF CachesInOrder
  <2>2. m \notin NodesApart \cup Range(list)
    BY <2>1 DEF NodesInPlace
  <2>3. n = m /\ cache' = c
    BY <1>1, <1>2
  <2> HIDE DEF n, m, c
  <2>4. QED
    BY <1>1, <2>1, <2>2, <2>3
<1>3. CASE IsEmpty(cache)
  <2>1. n \in Nodes /\ IsFree(node, n)
    <3>1. DOMAIN node = Nodes /\ n = Malloc(node)
      BY <1>3 DEF TypeOK
    <3>2. \E a \in DOMAIN node : IsFree(node, a)
      BY <1>1, <1>3 DEF Left
    <3> HIDE DEF n
    <3>3. QED
      BY <3>1, <3>2 DEF Malloc
  <2>2. Contents(cache) = {} /\ cache' = cache
    BY <1>1, <1>3, CachesAre, CacheEmpty DEF CachesInOrder
  <2> HIDE DEF n
  <2>3. n \notin NodesApart \cup Range(list)
    BY <2>1 DEF NodesInPlace
  <2>4. QED
    BY <1>1, <2>1, <2>2, <2>3, CachesAre DEF CachesInOrder
<1>4. QED
  BY <1>2, <1>3

\* The reader puts the old node in the cache, or frees it.
LEMMA DropNodeDoes ==
  ASSUME TypeOK, NodesInPlace, CachesInOrder, ReaderKnows, DropNode
  PROVE  /\ reader.pc = "oldnode" /\ reader.n \in Nodes
         /\ reader' = [reader EXCEPT !.pc = "release"]
         /\ cache' \in BufferOf(Nodes, CacheSize)
         /\ InOrder(cache, CacheSize)' /\ IsInjective(Queue(cache, CacheSize))'
         /\ \/ Contents(cache)' = Contents(cache) \cup {reader.n} /\ node' = node
            \/ cache' = cache /\ node' = [node EXCEPT ![reader.n] = Freed]
<1>1. reader.pc = "oldnode" /\ reader.n \in Nodes /\ reader' = [reader EXCEPT !.pc = "release"]
  BY DEF DropNode, ToReader, ReaderKnows
<1>2. reader.n \notin Contents(cache)
  BY <1>1 DEF NodesInPlace, NodesApart
<1>3. CASE IsAvailable(cache)
  <2> DEFINE c == Pushed(cache, reader.n)
  <2>1. /\ c \in BufferOf(Nodes, CacheSize)
        /\ InOrder(c, CacheSize) /\ IsInjective(Queue(c, CacheSize))
        /\ Contents(c) = Contents(cache) \cup {reader.n}
    BY <1>1, <1>2, <1>3, CachesAre, CachePushed DEF CachesInOrder
  <2>2. cache' = c /\ node' = node
    BY <1>3 DEF DropNode
  <2> HIDE DEF c
  <2>3. QED
    BY <1>1, <2>1, <2>2
<1>4. CASE ~IsAvailable(cache)
  <2>1. cache' = cache /\ node' = [node EXCEPT ![reader.n] = Freed]
    BY <1>4 DEF DropNode
  <2>2. QED
    BY <1>1, <2>1, CachesAre DEF CachesInOrder
<1>5. QED
  BY <1>3, <1>4

\* The same for the old ring.
LEMMA DropRingDoes ==
  ASSUME TypeOK, RingsInPlace, NodesInPlace, CachesInOrder, DropRing
  PROVE  /\ reader.pc = "oldring" /\ buf_r' = reader.tmp
         /\ reader' = [reader EXCEPT !.pc = "take"]
         /\ bufcache' \in BufferOf(Buffers, CacheSize)
         /\ InOrder(bufcache, CacheSize)' /\ IsInjective(Queue(bufcache, CacheSize))'
         /\ \/ Contents(bufcache)' = Contents(bufcache) \cup {buf_r} /\ buffer' = buffer
            \/ bufcache' = bufcache /\ buffer' = [buffer EXCEPT ![buf_r] = Freed]
<1>1. reader.pc = "oldring" /\ buf_r' = reader.tmp /\ reader' = [reader EXCEPT !.pc = "take"]
  BY DEF DropRing, ToReader
<1>2. buf_r \notin Contents(bufcache) /\ buf_r \in Buffers
  BY ChainIs DEF RingsInPlace, TypeOK
<1>3. CASE IsAvailable(bufcache)
  <2> DEFINE c == Pushed(bufcache, buf_r)
  <2>1. /\ c \in BufferOf(Buffers, CacheSize)
        /\ InOrder(c, CacheSize) /\ IsInjective(Queue(c, CacheSize))
        /\ Contents(c) = Contents(bufcache) \cup {buf_r}
    BY <1>2, <1>3, CachesAre, CachePushed DEF CachesInOrder
  <2>2. bufcache' = c /\ buffer' = buffer
    BY <1>3 DEF DropRing
  <2> HIDE DEF c
  <2>3. QED
    BY <1>1, <2>1, <2>2
<1>4. CASE ~IsAvailable(bufcache)
  <2>1. bufcache' = bufcache /\ buffer' = [buffer EXCEPT ![buf_r] = Freed]
    BY <1>4 DEF DropRing
  <2>2. QED
    BY <1>1, <2>1, CachesAre DEF CachesInOrder
<1>5. QED
  BY <1>3, <1>4

(***************************************************************************)
(* The types.                                                              *)
(***************************************************************************)

LEMMA RingIs ==
  ASSUME TypeOK, RingsInPlace, NodesInPlace, ValuesInOrder, NEW k \in 1..Len(Chain)
  PROVE  /\ Chain[k] \in Buffers /\ Chain[k] \in Range(Chain) /\ ~IsFree(buffer, Chain[k])
         /\ buffer[Chain[k]] \in BufferOf(1..Quota, size) /\ InOrder(buffer[Chain[k]], size)
<1>1. Chain[k] \in Buffers /\ Chain[k] \in Range(Chain)
  BY ChainIs, ElementOfSeq DEF RingsInPlace, Range
<1>2. ~IsFree(buffer, Chain[k])
  BY <1>1 DEF RingsInPlace
<1>3. InOrder(buffer[Chain[k]], size)
  BY ChainIs DEF ValuesInOrder
<1>4. QED
  BY <1>1, <1>2, <1>3 DEF TypeOK, IsFree

\* The reader's ring and the writer's are in the chain.
LEMMA BothRings ==
  ASSUME TypeOK, RingsInPlace, NodesInPlace, WriterKnows
  PROVE  /\ buf_r = Chain[1] /\ 1 \in 1..Len(Chain)
         /\ buf_w = Chain[IF writer.pc = "switch" THEN Len(Chain) - 1 ELSE Len(Chain)]
         /\ (IF writer.pc = "switch" THEN Len(Chain) - 1 ELSE Len(Chain)) \in 1..Len(Chain)
<1>1. Len(Chain) \in Nat \ {0} /\ buf_r = Chain[1]
  BY ChainIs
<1>2. CASE writer.pc = "switch"
  <2>1. Len(Chain) > 1 /\ Chain[Len(Chain) - 1] = buf_w
    BY <1>2 DEF WriterKnows
  <2>2. QED
    BY <1>1, <1>2, <2>1
<1>3. CASE writer.pc # "switch"
  BY <1>1, <1>3 DEF RingsInPlace
<1>4. QED
  BY <1>2, <1>3

LEMMA TypeStep ==
  ASSUME TypeOK, MemoryInPlace, CachesInOrder, WriterKnows, ReaderKnows, ValuesInOrder, Next
  PROVE  TypeOK'
<1>1. RingsInPlace /\ NodesInPlace
  BY DEF MemoryInPlace
<1>2. ASSUME \/ FindsRoom \/ FindsNoRoom \/ LooksAtRing \/ Compare \/ LooksAgain
      PROVE  TypeOK'
  BY <1>2 DEF FindsRoom, FindsNoRoom, LooksAtRing, Compare, LooksAgain, ToWriter, ToReader,
              pool, TypeOK
<1>3. ASSUME NextW PROVE TypeOK'
  <2>1. PICK b \in Buffers :
          /\ writer' = [writer EXCEPT !.pc = "allocnode", !.t = b]
          /\ buffer' = [buffer EXCEPT ![b] = EmptyBuffer(size)]
          /\ bufcache' \in BufferOf(Buffers, CacheSize)
    BY <1>1, <1>3, NextWDoes
  <2>2. EmptyBuffer(size) \in BufferOf(1..Quota, size)
    BY CachesAre, EmptyRing
  <2>3. QED
    BY <1>3, <2>1, <2>2 DEF NextW, TypeOK
<1>4. ASSUME AllocNode PROVE TypeOK'
  <2>1. PICK n \in Nodes :
          /\ writer' = [writer EXCEPT !.pc = "link", !.n = n]
          /\ node' = [node EXCEPT ![n] = [data |-> writer.t, next |-> Null]]
          /\ cache' \in BufferOf(Nodes, CacheSize)
    BY <1>1, <1>4, AllocNodeDoes
  <2>2. [data |-> writer.t, next |-> Null] \in ListNode
    BY DEF TypeOK, ListNode
  <2>3. node' \in [Nodes -> ListNode \cup {Freed}]
    BY <2>1, <2>2 DEF TypeOK
  <2>4. UNCHANGED <<fixedsize, buffer, buf_r, buf_w, bufcache, head, tail, list, reader,
                    pushed, received>>
    BY <1>4 DEF AllocNode
  <2>5. QED
    BY <2>1, <2>3, <2>4 DEF TypeOK
<1>5. ASSUME Link PROVE TypeOK'
  <2>1. writer.n \in Nodes
    BY <1>5 DEF Link, WriterKnows
  <2>2. list' \in Seq(Nodes)
    BY <1>1, <1>5, <2>1, ListIs, Appended DEF Link
  <2>3. tail \in Nodes /\ node[tail] \in ListNode
    BY <1>1, ListIs
  <2>4. [node[tail] EXCEPT !.next = writer.n] \in ListNode
    BY <2>1, <2>3 DEF ListNode
  <2>5. node' \in [Nodes -> ListNode \cup {Freed}]
    BY <1>5, <2>3, <2>4 DEF Link, TypeOK
  <2>6. QED
    BY <1>5, <2>1, <2>2, <2>5 DEF Link, ToWriter, TypeOK
<1>6. ASSUME Switch PROVE TypeOK'
  <2>1. writer.t \in Buffers
    BY <1>6 DEF Switch, WriterKnows
  <2>2. QED
    BY <1>6, <2>1 DEF Switch, ToWriter, pool, TypeOK
<1>7. ASSUME Store PROVE TypeOK'
  <2>1. pushed \in 0..Quota /\ pushed < Quota /\ IsAvailable(buffer[buf_w])
    BY <1>7 DEF Store, WriterKnows, TypeOK
  <2>2. buffer[buf_w] \in BufferOf(1..Quota, size) /\ InOrder(buffer[buf_w], size)
    BY <1>1, BothRings, RingIs
  <2>3. pushed + 1 \in 1..Quota
    BY <2>1, CachesAre
  <2>4. Pushed(buffer[buf_w], pushed + 1) \in BufferOf(1..Quota, size)
    BY <2>1, <2>2, <2>3, CachesAre, PushedRing
  <2>5. /\ buffer' = [buffer EXCEPT ![buf_w] = Pushed(@, pushed + 1)] /\ pushed' = pushed + 1
        /\ writer' = [writer EXCEPT !.pc = "available"]
        /\ UNCHANGED <<fixedsize, buf_r, buf_w, pool, reader, received>>
    BY <1>7, <2>1 DEF Store, ToWriter
  <2>6. buffer' \in [Buffers -> BufferOf(1..Quota, size) \cup {Freed}]
    BY <2>4, <2>5 DEF TypeOK
  <2>7. pushed' \in 0..Quota
    BY <2>1, <2>3, <2>5
  <2>8. QED
    BY <2>5, <2>6, <2>7 DEF pool, TypeOK
<1>8. ASSUME NextR PROVE TypeOK'
  <2>1. \/ /\ Len(list) > 1 /\ head' = list[2] /\ list' = Tail(list)
           /\ reader' = [pc |-> "oldnode", tmp |-> Listed[1], n |-> head]
        \/ UNCHANGED <<head, list>> /\ reader' = [reader EXCEPT !.pc = "take"]
    BY <1>1, <1>8, NextRDoes
  <2>2. /\ UNCHANGED <<fixedsize, buffer, buf_r, buf_w, bufcache, node, tail, cache, writer,
                       pushed, received>>
    BY <1>8 DEF NextR
  <2>3. CASE /\ Len(list) > 1 /\ head' = list[2] /\ list' = Tail(list)
             /\ reader' = [pc |-> "oldnode", tmp |-> Listed[1], n |-> head]
    <3>1. 2 \in 1..Len(list) /\ 1 \in 1..(Len(list) - 1)
      BY <1>1, <2>3, ListIs
    <3>2. list[2] \in Nodes /\ Tail(list) \in Seq(Nodes)
      BY <1>1, <3>1, ListIs, Shortened
    <3>3. Listed[1] \in Buffers \cup {Null}
      BY <1>1, <3>1, ListedIs, ElementOfSeq
    <3>4. QED
      BY <2>2, <2>3, <3>2, <3>3 DEF TypeOK
  <2>4. CASE UNCHANGED <<head, list>> /\ reader' = [reader EXCEPT !.pc = "take"]
    BY <2>2, <2>4 DEF TypeOK
  <2>5. QED
    BY <2>1, <2>3, <2>4
<1>9. ASSUME DropNode PROVE TypeOK'
  <2>1. /\ reader.n \in Nodes
        /\ reader' = [reader EXCEPT !.pc = "release"]
        /\ cache' \in BufferOf(Nodes, CacheSize)
        /\ node' = node \/ node' = [node EXCEPT ![reader.n] = Freed]
    BY <1>1, <1>9, DropNodeDoes
  <2>2. node' \in [Nodes -> ListNode \cup {Freed}]
    BY <2>1 DEF TypeOK
  <2>3. QED
    BY <1>9, <2>1, <2>2 DEF DropNode, TypeOK
<1>10. ASSUME Reset PROVE TypeOK'
  <2>1. EmptyBuffer(size) \in BufferOf(1..Quota, size)
    BY CachesAre, EmptyRing
  <2>2. QED
    BY <1>10, <2>1 DEF Reset, ToReader, pool, TypeOK
<1>11. ASSUME DropRing PROVE TypeOK'
  <2>1. /\ reader.pc = "oldring" /\ buf_r' = reader.tmp
        /\ reader' = [reader EXCEPT !.pc = "take"]
        /\ bufcache' \in BufferOf(Buffers, CacheSize)
        /\ buffer' = buffer \/ buffer' = [buffer EXCEPT ![buf_r] = Freed]
    BY <1>1, <1>11, DropRingDoes
  <2>2. reader.tmp \in Buffers
    <3>1. Len(Chain) > 1 /\ Chain[2] = reader.tmp /\ Len(Chain) \in Nat
      BY <1>1, <2>1, ChainIs
    <3>2. 2 \in 1..Len(Chain)
      BY <3>1
    <3>3. QED
      BY <1>1, <3>1, <3>2, RingIs
  <2>3. buffer' \in [Buffers -> BufferOf(1..Quota, size) \cup {Freed}]
    BY <2>1 DEF TypeOK
  <2>4. QED
    BY <1>11, <2>1, <2>2, <2>3 DEF DropRing, TypeOK
<1>12. ASSUME Take PROVE TypeOK'
  <2>1. buffer[buf_r] \in BufferOf(1..Quota, size) /\ InOrder(buffer[buf_r], size)
    BY <1>1, BothRings, RingIs
  <2>2. CASE IsEmpty(buffer[buf_r])
    BY <1>12, <2>2 DEF Take, ToReader, pool, TypeOK
  <2>3. CASE ~IsEmpty(buffer[buf_r])
    <3>1. /\ Popped(buffer[buf_r]) \in BufferOf(1..Quota, size)
          /\ Queue(buffer[buf_r], size) # <<>>
          /\ Top(buffer[buf_r]) = Head(Queue(buffer[buf_r], size))
      BY <2>1, <2>3, CachesAre, PoppedRing
    <3>2. Queue(buffer[buf_r], size) \in Seq(1..Quota)
      BY <2>1, CachesAre, QueueIs
    <3>3. Top(buffer[buf_r]) \in 1..Quota
      BY <3>1, <3>2, HeadTailProperties
    <3>4. /\ received' = Append(received, Top(buffer[buf_r]))
          /\ buffer' = [buffer EXCEPT ![buf_r] = Popped(@)]
      BY <1>12, <2>3 DEF Take
    <3>5. received' \in Seq(1..Quota)
      BY <3>3, <3>4, AppendProperties DEF TypeOK
    <3>6. QED
      BY <1>12, <3>1, <3>4, <3>5 DEF Take, ToReader, pool, TypeOK
  <2>4. QED
    BY <2>2, <2>3
<1>13. QED
  BY <1>2, <1>3, <1>4, <1>5, <1>6, <1>7, <1>8, <1>9, <1>10, <1>11, <1>12 DEF Next, Push, Pop

(***************************************************************************)
(* The list nodes.                                                         *)
(***************************************************************************)

LEMMA SameNodes ==
  ASSUME NodesInPlace, UNCHANGED <<node, head, tail, list, cache>>, NodesApart' = NodesApart
  PROVE  NodesInPlace'
<1>1. /\ Range(list)' = Range(list) /\ Contents(cache)' = Contents(cache)
      /\ IsInjective(list)' <=> IsInjective(list)
      /\ \A n \in Nodes : IsFree(node, n)' <=> IsFree(node, n)
      /\ ListLinked' <=> ListLinked
  BY DEF ListLinked, IsFree, Contents, IsInjective, Range
<1>2. QED
  BY <1>1 DEF NodesInPlace

\* Only the steps of the list touch its nodes.
LEMMA OtherNodes ==
  ASSUME TypeOK, MemoryInPlace, CachesInOrder,
         \/ FindsRoom \/ FindsNoRoom \/ NextW \/ Switch \/ Store
         \/ LooksAtRing \/ Compare \/ LooksAgain \/ Reset \/ DropRing \/ Take
  PROVE  UNCHANGED <<node, head, tail, list, cache>> /\ NodesApart' = NodesApart
<1>1. ASSUME FindsRoom \/ FindsNoRoom \/ Switch \/ Store
      PROVE  UNCHANGED <<node, head, tail, list, cache>> /\ NodesApart' = NodesApart
  BY <1>1 DEF FindsRoom, FindsNoRoom, Switch, Store, ToWriter, NodesApart, pool, TypeOK
<1>2. ASSUME NextW
      PROVE  UNCHANGED <<node, head, tail, list, cache>> /\ NodesApart' = NodesApart
  <2>1. PICK b \in Buffers : writer' = [writer EXCEPT !.pc = "allocnode", !.t = b]
    BY <1>2, NextWDoes DEF MemoryInPlace
  <2>2. writer.pc = "next_w" /\ reader' = reader /\ UNCHANGED <<node, head, tail, list, cache>>
    BY <1>2 DEF NextW
  <2>3. writer'.pc = "allocnode"
    BY <2>1 DEF TypeOK
  <2>4. QED
    BY <2>2, <2>3 DEF NodesApart
<1>3. ASSUME LooksAtRing \/ Compare \/ LooksAgain \/ Reset \/ Take
      PROVE  UNCHANGED <<node, head, tail, list, cache>> /\ NodesApart' = NodesApart
  <2>1. /\ reader.pc \in {"empty", "compare", "again", "release", "take"} /\ writer' = writer
        /\ reader'.pc \in {"empty", "compare", "again", "next_r", "oldring", "take"}
        /\ UNCHANGED <<node, head, tail, list, cache>>
    BY <1>3 DEF LooksAtRing, Compare, LooksAgain, Reset, Take, ToReader, pool, TypeOK
  <2>2. QED
    BY <2>1 DEF NodesApart
<1>4. ASSUME DropRing
      PROVE  UNCHANGED <<node, head, tail, list, cache>> /\ NodesApart' = NodesApart
  <2>1. reader.pc = "oldring" /\ reader'.pc = "take" /\ writer' = writer
        /\ UNCHANGED <<node, head, tail, list, cache>>
    BY <1>4 DEF DropRing, ToReader, TypeOK
  <2>2. QED
    BY <2>1 DEF NodesApart
<1>5. QED
  BY <1>1, <1>2, <1>3, <1>4

LEMMA AllocNodeNodes ==
  ASSUME TypeOK, NodesInPlace, CachesInOrder, AllocNode
  PROVE  NodesInPlace'
<1>1. PICK n \in Nodes :
        /\ n \notin NodesApart \cup Range(list)
        /\ writer' = [writer EXCEPT !.pc = "link", !.n = n]
        /\ node' = [node EXCEPT ![n] = [data |-> writer.t, next |-> Null]]
        /\ Contents(cache)' = Contents(cache) \ {n}
  BY AllocNodeDoes
<1>2. writer.pc = "allocnode" /\ UNCHANGED <<head, tail, list, reader>>
  BY DEF AllocNode
<1>3. NodesApart' = NodesApart \cup {n}
  BY <1>1, <1>2 DEF NodesApart, TypeOK
<1>4. node'[n] # Freed /\ \A m \in Nodes \ {n} : node'[m] = node[m]
  <2>1. [data |-> writer.t, next |-> Null] \in ListNode
    BY DEF TypeOK, ListNode
  <2>2. QED
    BY <1>1, <2>1, FreedIsNone DEF TypeOK
<1>5. \A k \in 1..Len(list) : node'[list[k]] = node[list[k]]
  BY <1>1, <1>4, ListIs
<1>6. ListLinked'
  <2>1. ListLinked /\ node'[tail] = node[tail]
    BY <1>5, ListIs DEF NodesInPlace
  <2>2. \A k \in 1..(Len(list) - 1) : k \in 1..Len(list)
    BY ListIs
  <2>3. QED
    BY <1>2, <1>5, <2>1, <2>2 DEF ListLinked
<1>7. IsInjective(list)' /\ Range(list)' = Range(list)
  BY <1>2 DEF NodesInPlace, IsInjective, Range
<1>8. \A m \in Nodes : IsFree(node, m)' <=> m \notin NodesApart' \cup Range(list) \cup Contents(cache)'
  <2>1. \A m \in Nodes : IsFree(node, m) <=> m \notin NodesApart \cup Range(list) \cup Contents(cache)
    BY DEF NodesInPlace
  <2>2. QED
    BY <1>1, <1>3, <1>4, <2>1 DEF IsFree
<1>9. /\ NodesApart' \cap Range(list) = {}
      /\ (NodesApart' \cup Range(list)) \cap Contents(cache)' = {}
  BY <1>1, <1>3 DEF NodesInPlace
<1>10. QED
  BY <1>6, <1>7, <1>8, <1>9 DEF NodesInPlace

LEMMA LinkNodes ==
  ASSUME TypeOK, NodesInPlace, WriterKnows, ReaderKnows, Link
  PROVE  NodesInPlace'
<1> DEFINE n == writer.n
           m == Len(list)
<1>1. /\ writer.pc = "link" /\ node' = [node EXCEPT ![tail].next = n]
      /\ tail' = n /\ list' = Append(list, n) /\ writer'.pc = "switch"
      /\ UNCHANGED <<head, cache, reader>>
  BY DEF Link, ToWriter, TypeOK
<1>2. n \in Nodes /\ node[n].next = Null /\ n \in NodesApart
  BY <1>1 DEF WriterKnows, NodesApart
<1>3. n \notin Range(list) /\ n \notin Contents(cache)
  BY <1>2 DEF NodesInPlace
<1>4. /\ m \in Nat \ {0} /\ list \in Seq(Nodes) /\ tail = list[m] /\ head = list[1]
      /\ \A k \in 1..m : list[k] \in Nodes /\ list[k] # n
      /\ \A k, l \in 1..m : list[k] = list[l] => k = l
      /\ tail \in Nodes /\ node[tail] \in ListNode /\ tail \in Range(list)
  <2>1. m \in Nat \ {0} /\ m \in 1..m
    BY ListIs
  <2>2. QED
    BY <1>3, <2>1, ListIs
<1>5. /\ list' \in Seq(Nodes) /\ Len(list') = m + 1 /\ list'[m + 1] = n
      /\ \A k \in 1..m : list'[k] = list[k]
      /\ Range(list') = Range(list) \cup {n} /\ IsInjective(list')
  BY <1>1, <1>2, <1>3, <1>4, Appended DEF NodesInPlace
<1>6. NodesApart' = NodesApart \ {n}
  BY <1>1 DEF NodesApart, ReaderKnows
<1>7. /\ \A a \in Nodes \ {tail} : node'[a] = node[a]
      /\ node'[tail].next = n /\ node'[tail] # Freed /\ node[tail] # Freed
  <2>1. node'[tail] = [node[tail] EXCEPT !.next = n]
    BY <1>1, <1>4 DEF TypeOK
  <2>2. [node[tail] EXCEPT !.next = n] \in ListNode /\ [node[tail] EXCEPT !.next = n].next = n
    BY <1>2, <1>4 DEF ListNode
  <2>3. \A a \in Nodes \ {tail} : node'[a] = node[a]
    BY <1>1 DEF TypeOK
  <2>4. QED
    BY <1>4, <2>1, <2>2, <2>3, FreedIsNone
<1> HIDE DEF n, m
<1>8. ListLinked'
  <2>1. list' # <<>> /\ list'[1] = head'
    BY <1>1, <1>4, <1>5, EmptySeq
  <2>2. list'[Len(list')] = tail' /\ node'[tail'].next = Null
    <3>1. n # tail
      BY <1>3, <1>4
    <3>2. QED
      BY <1>1, <1>2, <1>5, <1>7, <3>1
  <2>3. ASSUME NEW k \in 1..(Len(list') - 1)
        PROVE  node'[list'[k]].next = list'[k + 1]
    <3>1. CASE k = m
      BY <1>4, <1>5, <1>7, <3>1
    <3>2. CASE k \in 1..(m - 1)
      <4>1. k \in 1..m /\ k + 1 \in 1..m /\ m \in 1..m /\ k # m
        BY <1>4, <3>2
      <4>2. list[k] # tail /\ list[k] \in Nodes
        BY <1>4, <4>1
      <4>3. node[list[k]].next = list[k + 1]
        BY <3>2 DEF NodesInPlace, ListLinked, m
      <4>4. QED
        BY <1>5, <1>7, <4>1, <4>2, <4>3
    <3>3. QED
      BY <1>4, <1>5, <3>1, <3>2
  <2>4. QED
    BY <2>1, <2>2, <2>3 DEF ListLinked
<1>9. \A a \in Nodes : IsFree(node, a)' <=> a \notin NodesApart' \cup Range(list') \cup Contents(cache)
  <2>1. \A a \in Nodes : IsFree(node, a) <=> a \notin NodesApart \cup Range(list) \cup Contents(cache)
    BY DEF NodesInPlace
  <2>2. NodesApart' \cup Range(list') = NodesApart \cup Range(list)
    BY <1>2, <1>5, <1>6
  <2>3. \A a \in Nodes : IsFree(node, a)' <=> IsFree(node, a)
    BY <1>7 DEF IsFree
  <2>4. QED
    BY <2>1, <2>2, <2>3
<1>10. /\ NodesApart' \cap Range(list') = {}
       /\ (NodesApart' \cup Range(list')) \cap Contents(cache) = {}
  BY <1>2, <1>3, <1>5, <1>6 DEF NodesInPlace
<1>11. Contents(cache)' = Contents(cache) /\ Range(list)' = Range(list') /\ IsInjective(list)'
  BY <1>1, <1>5 DEF Contents, Range, IsInjective
<1>12. QED
  BY <1>8, <1>9, <1>10, <1>11 DEF NodesInPlace

LEMMA NextRNodes ==
  ASSUME TypeOK, NodesInPlace, NextR
  PROVE  NodesInPlace'
<1>1. reader.pc = "next_r" /\ UNCHANGED <<node, tail, cache, writer>>
  BY DEF NextR
<1>2. CASE UNCHANGED <<head, list>> /\ reader' = [reader EXCEPT !.pc = "take"]
  <2>1. reader'.pc = "take"
    BY <1>2 DEF TypeOK
  <2>2. NodesApart' = NodesApart
    BY <1>1, <2>1 DEF NodesApart
  <2>3. QED
    BY <1>1, <1>2, <2>2, SameNodes
<1>3. CASE /\ Len(list) > 1 /\ head' = list[2] /\ list' = Tail(list)
           /\ reader' = [pc |-> "oldnode", tmp |-> Listed[1], n |-> head]
  <2> DEFINE m == Len(list)
  <2>1. /\ m \in Nat /\ m > 1 /\ list \in Seq(Nodes) /\ list # <<>>
        /\ head = list[1] /\ tail = list[m]
    BY <1>3, ListIs
  <2>2. /\ list' \in Seq(Nodes) /\ Len(list') = m - 1
        /\ \A k \in 1..(m - 1) : list'[k] = list[k + 1]
        /\ Range(list) = Range(list') \cup {head}
        /\ IsInjective(list') /\ head \notin Range(list')
    BY <1>3, <2>1, Shortened DEF NodesInPlace
  <2> HIDE DEF m
  <2>3. NodesApart' = NodesApart \cup {head}
    BY <1>1, <1>3 DEF NodesApart
  <2>4. ListLinked'
    <3>1. list' # <<>> /\ list'[1] = head' /\ list'[Len(list')] = tail
      <4>1. 1 \in 1..(m - 1) /\ 1 + 1 = 2 /\ m - 1 \in 1..(m - 1) /\ (m - 1) + 1 = m
        BY <2>1
      <4>2. list'[1] = list[2] /\ list'[m - 1] = list[m]
        BY <2>2, <4>1
      <4>3. Len(list') \in Nat \ {0}
        BY <2>1, <2>2
      <4>4. QED
        BY <1>3, <2>1, <2>2, <4>2, <4>3, EmptySeq
    <3>2. ASSUME NEW k \in 1..(Len(list') - 1)
          PROVE  node[list'[k]].next = list'[k + 1]
      <4>1. k \in 1..(m - 1) /\ k + 1 \in 1..(m - 1)
        BY <2>1, <2>2
      <4>2. node[list[k + 1]].next = list[(k + 1) + 1]
        BY <4>1 DEF NodesInPlace, ListLinked, m
      <4>3. QED
        BY <2>2, <4>1, <4>2
    <3>3. QED
      BY <1>1, <3>1, <3>2 DEF NodesInPlace, ListLinked
  <2>5. NodesApart' \cup Range(list') = NodesApart \cup Range(list)
    BY <2>2, <2>3
  <2>6. NodesApart' \cap Range(list') = {}
    BY <2>2, <2>3 DEF NodesInPlace
  <2>7. /\ Contents(cache)' = Contents(cache) /\ Range(list)' = Range(list') /\ IsInjective(list)'
        /\ \A a \in Nodes : IsFree(node, a)' <=> IsFree(node, a)
    BY <1>1, <2>2 DEF Contents, Range, IsInjective, IsFree
  <2>8. QED
    BY <2>4, <2>5, <2>6, <2>7 DEF NodesInPlace
<1>4. QED
  BY <1>2, <1>3, NextRDoes

LEMMA DropNodeNodes ==
  ASSUME TypeOK, NodesInPlace, CachesInOrder, ReaderKnows, DropNode
  PROVE  NodesInPlace'
<1> DEFINE n == reader.n
<1>1. /\ reader.pc = "oldnode" /\ n \in Nodes
      /\ reader' = [reader EXCEPT !.pc = "release"]
      /\ \/ Contents(cache)' = Contents(cache) \cup {n} /\ node' = node
         \/ cache' = cache /\ node' = [node EXCEPT ![n] = Freed]
  BY DropNodeDoes
<1>2. UNCHANGED <<head, tail, list, writer>>
  BY DEF DropNode
<1>3. NodesApart' = NodesApart \ {n} /\ n \in NodesApart
  BY <1>1, <1>2 DEF NodesApart, ReaderKnows, TypeOK
<1>4. n \notin Range(list) /\ n \notin Contents(cache)
  BY <1>3 DEF NodesInPlace
<1>5. \A a \in Nodes \ {n} : node'[a] = node[a]
  BY <1>1 DEF TypeOK
<1>6. \/ Contents(cache)' = Contents(cache) \cup {n} /\ node' = node
      \/ Contents(cache)' = Contents(cache) /\ node'[n] = Freed
  <2>1. CASE cache' = cache /\ node' = [node EXCEPT ![n] = Freed]
    BY <1>1, <2>1 DEF TypeOK, Contents
  <2>2. QED
    BY <1>1, <2>1
<1> HIDE DEF n
<1>7. \A k \in 1..Len(list) : node'[list[k]] = node[list[k]]
  BY <1>4, <1>5, ListIs
<1>8. ListLinked'
  <2>1. ListLinked /\ node'[tail] = node[tail]
    BY <1>7, ListIs DEF NodesInPlace
  <2>2. \A k \in 1..(Len(list) - 1) : k \in 1..Len(list)
    BY ListIs
  <2>3. QED
    BY <1>2, <1>7, <2>1, <2>2 DEF ListLinked
<1>9. IsInjective(list)' /\ Range(list)' = Range(list)
  BY <1>2 DEF NodesInPlace, IsInjective, Range
<1>10. \A a \in Nodes : IsFree(node, a)' <=> a \notin NodesApart' \cup Range(list) \cup Contents(cache)'
  <2>1. \A a \in Nodes : IsFree(node, a) <=> a \notin NodesApart \cup Range(list) \cup Contents(cache)
    BY DEF NodesInPlace
  <2>2. CASE Contents(cache)' = Contents(cache) \cup {n} /\ node' = node
    BY <1>3, <2>1, <2>2 DEF IsFree
  <2>3. CASE Contents(cache)' = Contents(cache) /\ node'[n] = Freed
    BY <1>3, <1>4, <1>5, <2>1, <2>3 DEF IsFree
  <2>4. QED
    BY <1>6, <2>2, <2>3
<1>11. /\ NodesApart' \cap Range(list) = {}
       /\ (NodesApart' \cup Range(list)) \cap Contents(cache)' = {}
  BY <1>3, <1>4, <1>6 DEF NodesInPlace
<1>12. QED
  BY <1>8, <1>9, <1>10, <1>11 DEF NodesInPlace

LEMMA NodesStep ==
  ASSUME TypeOK, MemoryInPlace, CachesInOrder, WriterKnows, ReaderKnows, Next
  PROVE  NodesInPlace'
<1>1. RingsInPlace /\ NodesInPlace
  BY DEF MemoryInPlace
<1>2. CASE \/ FindsRoom \/ FindsNoRoom \/ NextW \/ Switch \/ Store
           \/ LooksAtRing \/ Compare \/ LooksAgain \/ Reset \/ DropRing \/ Take
  BY <1>1, <1>2, OtherNodes, SameNodes
<1>3. CASE AllocNode
  BY <1>1, <1>3, AllocNodeNodes
<1>4. CASE Link
  BY <1>1, <1>4, LinkNodes
<1>5. CASE NextR
  BY <1>1, <1>5, NextRNodes
<1>6. CASE DropNode
  BY <1>1, <1>6, DropNodeNodes
<1>7. QED
  BY <1>2, <1>3, <1>4, <1>5, <1>6 DEF Next, Push, Pop

(***************************************************************************)
(* The rings.                                                              *)
(***************************************************************************)

\* The other steps leave the chain as it is.
LEMMA OtherChain ==
  ASSUME TypeOK, MemoryInPlace, CachesInOrder, ReaderKnows,
         \/ FindsRoom \/ FindsNoRoom \/ NextW \/ AllocNode \/ Switch \/ Store
         \/ LooksAtRing \/ Compare \/ LooksAgain \/ NextR \/ DropNode \/ Reset \/ Take
  PROVE  Chain' = Chain
<1> DEFINE far(pc) == pc \in {"oldnode", "release", "oldring"}
<1>1. RingsInPlace /\ NodesInPlace
  BY DEF MemoryInPlace
<1>2. ASSUME \/ FindsRoom \/ FindsNoRoom \/ NextW \/ Switch \/ Store
      PROVE  Chain' = Chain
  <2>1. UNCHANGED <<list, buf_r, reader, node>>
    BY <1>2 DEF FindsRoom, FindsNoRoom, NextW, Switch, Store, pool
  <2>2. QED
    BY <1>1, <2>1, SameChainWithNode
<1>3. ASSUME \/ LooksAtRing \/ Compare \/ LooksAgain \/ Reset \/ Take
      PROVE  Chain' = Chain
  <2>1. UNCHANGED <<list, buf_r, node>> /\ reader'.tmp = reader.tmp /\ (far(reader'.pc) <=> far(reader.pc))
    BY <1>3 DEF LooksAtRing, Compare, LooksAgain, Reset, Take, ToReader, pool, TypeOK
  <2>2. QED
    BY <1>1, <2>1, SameChainWithNode
<1>4. ASSUME AllocNode PROVE Chain' = Chain
  <2>1. PICK n \in Nodes :
          /\ n \notin Range(list)
          /\ node' = [node EXCEPT ![n] = [data |-> writer.t, next |-> Null]]
    BY <1>1, <1>4, AllocNodeDoes
  <2>2. UNCHANGED <<list, buf_r, reader>>
    BY <1>4 DEF AllocNode
  <2>3. \A m \in Range(list) : node'[m] = node[m]
    <3>1. \A m \in Nodes \ {n} : node'[m] = node[m]
      BY <2>1 DEF TypeOK
    <3>2. Range(list) \subseteq Nodes
      BY <1>1, ListIs DEF Range
    <3>3. QED
      BY <2>1, <3>1, <3>2
  <2>4. QED
    BY <1>1, <2>2, <2>3, SameChainWithNode
<1>5. ASSUME DropNode PROVE Chain' = Chain
  <2>1. /\ reader.pc = "oldnode" /\ reader.n \in Nodes /\ reader' = [reader EXCEPT !.pc = "release"]
        /\ node' = node \/ node' = [node EXCEPT ![reader.n] = Freed]
    BY <1>1, <1>5, DropNodeDoes
  <2>2. UNCHANGED <<list, buf_r>> /\ reader'.tmp = reader.tmp /\ far(reader.pc) /\ far(reader'.pc)
    BY <1>5, <2>1 DEF DropNode, TypeOK
  <2>3. reader.n \notin Range(list)
    BY <1>1, <2>1 DEF NodesInPlace, NodesApart
  <2>4. Range(list) \subseteq Nodes
    BY <1>1, ListIs DEF Range
  <2>5. \A m \in Range(list) : node'[m] = node[m]
    BY <2>1, <2>3, <2>4 DEF TypeOK
  <2>6. QED
    BY <1>1, <2>2, <2>5, SameChainWithNode
<1>6. ASSUME NextR PROVE Chain' = Chain
  BY <1>1, <1>6, NextRDoes
<1>7. QED
  BY <1>2, <1>3, <1>4, <1>5, <1>6

TheEnd == IF writer.pc = "switch" THEN writer.t ELSE buf_w

LEMMA SameRings ==
  ASSUME RingsInPlace, Chain' = Chain, RingsComing' = RingsComing, bufcache' = bufcache,
         TheEnd' = TheEnd,
         \A b \in Buffers : IsFree(buffer, b)' <=> IsFree(buffer, b),
         \A b \in RingsComing \cup Contents(bufcache) : buffer'[b] = buffer[b]
  PROVE  RingsInPlace'
<1>1. Contents(bufcache)' = Contents(bufcache) /\ Range(Chain)' = Range(Chain)
  BY DEF Contents, Range
<1>2. /\ (Chain \in Seq(Buffers))' <=> Chain \in Seq(Buffers)
      /\ IsInjective(Chain)' <=> IsInjective(Chain)
  BY DEF IsInjective
<1>3. (Chain[Len(Chain)] = TheEnd)' <=> Chain[Len(Chain)] = TheEnd
  OBVIOUS
<1>4. QED
  BY <1>1, <1>2, <1>3 DEF RingsInPlace, TheEnd

\* The steps that only look, and those that only touch a ring of the chain.
LEMMA OtherRings ==
  ASSUME TypeOK, MemoryInPlace, CachesInOrder, WriterKnows, ReaderKnows, ValuesInOrder,
         \/ FindsRoom \/ FindsNoRoom \/ AllocNode \/ Switch \/ Store
         \/ LooksAtRing \/ Compare \/ LooksAgain \/ NextR \/ DropNode \/ Reset \/ Take
  PROVE  RingsInPlace'
<1>1. RingsInPlace /\ NodesInPlace /\ Chain' = Chain
  BY OtherChain DEF MemoryInPlace
<1>2. RingsComing' = RingsComing /\ TheEnd' = TheEnd /\ bufcache' = bufcache
  <2>1. CASE FindsRoom \/ FindsNoRoom \/ Switch \/ Store
    BY <2>1 DEF FindsRoom, FindsNoRoom, Switch, Store, ToWriter, pool, TypeOK, RingsComing, TheEnd
  <2>2. CASE AllocNode
    <3>1. PICK n \in Nodes : writer' = [writer EXCEPT !.pc = "link", !.n = n]
      BY <1>1, <2>2, AllocNodeDoes
    <3>2. writer.pc = "allocnode" /\ writer'.pc = "link" /\ writer'.t = writer.t
          /\ buf_w' = buf_w /\ bufcache' = bufcache
      BY <2>2, <3>1 DEF AllocNode, TypeOK
    <3>3. QED
      BY <3>2 DEF RingsComing, TheEnd
  <2>3. CASE LooksAtRing \/ Compare \/ LooksAgain \/ NextR \/ DropNode \/ Reset \/ Take
    <3>1. UNCHANGED <<writer, buf_w, bufcache>>
      BY <2>3 DEF LooksAtRing, Compare, LooksAgain, NextR, DropNode, Reset, Take, pool
    <3>2. QED
      BY <3>1 DEF RingsComing, TheEnd
  <2>4. QED
    BY <2>1, <2>2, <2>3
<1>3. \/ buffer' = buffer
      \/ \E b \in Range(Chain), new \in BufferOf(1..Quota, size) : buffer' = [buffer EXCEPT ![b] = new]
  <2>1. CASE FindsRoom \/ FindsNoRoom \/ AllocNode \/ Switch \/ LooksAtRing \/ Compare
             \/ LooksAgain \/ NextR \/ DropNode
    BY <2>1 DEF FindsRoom, FindsNoRoom, AllocNode, Switch, LooksAtRing, Compare, LooksAgain,
                NextR, DropNode
  <2>2. CASE Store
    <3>1. /\ buf_w \in Range(Chain)
          /\ buffer[buf_w] \in BufferOf(1..Quota, size) /\ InOrder(buffer[buf_w], size)
      BY <1>1, BothRings, RingIs
    <3>2. pushed \in 0..Quota /\ pushed < Quota /\ IsAvailable(buffer[buf_w])
      BY <2>2 DEF Store, WriterKnows, TypeOK
    <3>3. pushed + 1 \in 1..Quota
      BY <3>2, CachesAre
    <3>4. Pushed(buffer[buf_w], pushed + 1) \in BufferOf(1..Quota, size)
      BY <3>1, <3>2, <3>3, CachesAre, PushedRing
    <3>5. buffer' = [buffer EXCEPT ![buf_w] = Pushed(buffer[buf_w], pushed + 1)]
      BY <2>2, <3>2 DEF Store
    <3>6. QED
      BY <3>1, <3>4, <3>5
  <2>3. CASE Reset
    <3>1. buf_r \in Range(Chain) /\ EmptyBuffer(size) \in BufferOf(1..Quota, size)
      BY <1>1, ChainIs, CachesAre, EmptyRing
    <3>2. buffer' = [buffer EXCEPT ![buf_r] = EmptyBuffer(size)]
      BY <2>3 DEF Reset
    <3>3. QED
      BY <3>1, <3>2
  <2>4. CASE Take
    <3>1. /\ buf_r \in Range(Chain)
          /\ buffer[buf_r] \in BufferOf(1..Quota, size) /\ InOrder(buffer[buf_r], size)
      BY <1>1, BothRings, RingIs
    <3>2. CASE IsEmpty(buffer[buf_r])
      BY <2>4, <3>2 DEF Take
    <3>3. CASE ~IsEmpty(buffer[buf_r])
      <4>1. Popped(buffer[buf_r]) \in BufferOf(1..Quota, size)
        BY <3>1, <3>3, CachesAre, PoppedRing
      <4>2. buffer' = [buffer EXCEPT ![buf_r] = Popped(buffer[buf_r])]
        BY <2>4, <3>3 DEF Take
      <4>3. QED
        BY <3>1, <4>1, <4>2
    <3>4. QED
      BY <3>2, <3>3
  <2>5. QED
    BY <2>1, <2>2, <2>3, <2>4
<1>4. CASE buffer' = buffer
  BY <1>1, <1>2, <1>4, SameRings DEF IsFree
<1>5. CASE \E b \in Range(Chain), new \in BufferOf(1..Quota, size) : buffer' = [buffer EXCEPT ![b] = new]
  <2>1. PICK b \in Range(Chain), new \in BufferOf(1..Quota, size) : buffer' = [buffer EXCEPT ![b] = new]
    BY <1>5
  <2>2. b \in Buffers /\ buffer[b] # Freed /\ new # Freed
    <3>1. PICK k \in 1..Len(Chain) : b = Chain[k]
      BY <1>1, ChainIs DEF Range
    <3>2. QED
      BY <1>1, <3>1, RingIs, FreedIsNone DEF IsFree
  <2>3. buffer'[b] = new /\ \A a \in Buffers \ {b} : buffer'[a] = buffer[a]
    BY <2>1, <2>2 DEF TypeOK
  <2>4. \A a \in Buffers : IsFree(buffer, a)' <=> IsFree(buffer, a)
    BY <2>2, <2>3 DEF IsFree
  <2>5. \A a \in RingsComing \cup Contents(bufcache) : a # b /\ a \in Buffers
    <3>1. Contents(bufcache) \subseteq Buffers /\ RingsComing \subseteq Buffers
      BY CachesAre DEF RingsComing, WriterKnows
    <3>2. QED
      BY <1>1, <3>1 DEF RingsInPlace
  <2>6. QED
    BY <1>1, <1>2, <2>3, <2>4, <2>5, SameRings
<1>6. QED
  BY <1>3, <1>4, <1>5

LEMMA NextWRings ==
  ASSUME TypeOK, MemoryInPlace, CachesInOrder, ReaderKnows, NextW
  PROVE  RingsInPlace'
<1>1. RingsInPlace /\ NodesInPlace /\ Chain' = Chain
  BY OtherChain DEF MemoryInPlace
<1>2. PICK b \in Buffers :
        /\ b \notin Range(Chain)
        /\ writer' = [writer EXCEPT !.pc = "allocnode", !.t = b]
        /\ buffer' = [buffer EXCEPT ![b] = EmptyBuffer(size)]
        /\ Contents(bufcache)' = Contents(bufcache) \ {b}
  BY <1>1, NextWDoes
<1>3. writer.pc = "next_w" /\ buf_w' = buf_w
  BY DEF NextW
<1>4. RingsComing = {} /\ RingsComing' = {b} /\ TheEnd' = buf_w /\ TheEnd = buf_w
  BY <1>2, <1>3 DEF RingsComing, TheEnd, TypeOK
<1>5. /\ buffer'[b] = EmptyBuffer(size) /\ EmptyBuffer(size) # Freed
      /\ \A a \in Buffers \ {b} : buffer'[a] = buffer[a]
  <2>1. EmptyBuffer(size) \in BufferOf(Buffers, size)
    BY CachesAre, EmptyRing
  <2>2. QED
    BY <1>2, <2>1, FreedIsNone DEF TypeOK
<1>6. Range(Chain)' = Range(Chain) /\ IsInjective(Chain)' /\ (Chain \in Seq(Buffers))'
  BY <1>1 DEF RingsInPlace, IsInjective, Range
<1>7. \A a \in Buffers : IsFree(buffer, a)' <=> a \notin {b} \cup Range(Chain) \cup Contents(bufcache)'
  <2>1. \A a \in Buffers : IsFree(buffer, a) <=> a \notin Range(Chain) \cup Contents(bufcache)
    BY <1>1, <1>4 DEF RingsInPlace
  <2>2. QED
    BY <1>2, <1>5, <2>1 DEF IsFree
<1>8. \A a \in {b} \cup Contents(bufcache)' : buffer'[a] = EmptyBuffer(size)
  BY <1>1, <1>2, <1>5, CachesAre DEF RingsInPlace
<1>9. {b} \cap Range(Chain) = {} /\ ({b} \cup Range(Chain)) \cap Contents(bufcache)' = {}
  BY <1>1, <1>2 DEF RingsInPlace
<1>10. (Chain[Len(Chain)] = TheEnd)'
  BY <1>1, <1>4 DEF RingsInPlace, TheEnd
<1>11. QED
  BY <1>4, <1>6, <1>7, <1>8, <1>9, <1>10 DEF RingsInPlace, TheEnd

LEMMA LinkRings ==
  ASSUME TypeOK, MemoryInPlace, WriterKnows, Link
  PROVE  RingsInPlace'
<1>1. RingsInPlace /\ NodesInPlace
  BY DEF MemoryInPlace
<1>2. Chain' = Append(Chain, writer.t)
  BY <1>1, LinkChain
<1>3. /\ writer.pc = "link" /\ writer'.pc = "switch" /\ writer'.t = writer.t
      /\ writer.t \in Buffers /\ UNCHANGED <<buffer, bufcache>>
  BY DEF Link, ToWriter, TypeOK, WriterKnows
<1>4. RingsComing = {writer.t} /\ RingsComing' = {}
  BY <1>3 DEF RingsComing
<1>5. writer.t \notin Range(Chain)
  BY <1>1, <1>4 DEF RingsInPlace
<1>6. /\ Chain' \in Seq(Buffers) /\ Len(Chain') = Len(Chain) + 1
      /\ Chain'[Len(Chain) + 1] = writer.t
      /\ Range(Chain') = Range(Chain) \cup {writer.t} /\ IsInjective(Chain')
  BY <1>1, <1>2, <1>3, <1>5, Appended DEF RingsInPlace
<1>7. /\ Contents(bufcache)' = Contents(bufcache)
      /\ \A b \in Buffers : IsFree(buffer, b)' <=> IsFree(buffer, b)
  BY <1>3 DEF Contents, IsFree
<1>8. Range(Chain)' = Range(Chain') /\ IsInjective(Chain)'
  BY <1>6 DEF Range, IsInjective
<1>9. QED
  BY <1>1, <1>3, <1>4, <1>6, <1>7, <1>8 DEF RingsInPlace

LEMMA DropRingRings ==
  ASSUME TypeOK, MemoryInPlace, CachesInOrder, ReaderKnows, DropRing
  PROVE  RingsInPlace'
<1>1. RingsInPlace /\ NodesInPlace
  BY DEF MemoryInPlace
<1>2. Chain' = Tail(Chain)
  BY <1>1, DropRingChain
<1>3. /\ reader.pc = "oldring" /\ UNCHANGED <<writer, buf_w>>
      /\ buffer[buf_r] = EmptyBuffer(size) /\ buf_r \in Buffers
  BY DEF DropRing, ReaderKnows, TypeOK
<1>4. RingsComing' = RingsComing /\ TheEnd' = TheEnd
  BY <1>3 DEF RingsComing, TheEnd
<1>5. /\ Len(Chain) \in Nat /\ Len(Chain) > 1 /\ Chain[1] = buf_r /\ Chain # <<>>
      /\ Chain \in Seq(Buffers) /\ IsInjective(Chain)
  BY <1>1, <1>3, ChainIs, EmptySeq DEF RingsInPlace
<1>6. /\ Chain' \in Seq(Buffers) /\ Len(Chain') = Len(Chain) - 1
      /\ \A k \in 1..(Len(Chain) - 1) : Chain'[k] = Chain[k + 1]
      /\ Range(Chain) = Range(Chain') \cup {buf_r}
      /\ IsInjective(Chain') /\ buf_r \notin Range(Chain')
  BY <1>2, <1>5, Shortened
<1>7. Chain'[Len(Chain')] = TheEnd
  <2>1. Len(Chain) - 1 \in 1..(Len(Chain) - 1) /\ (Len(Chain) - 1) + 1 = Len(Chain)
    BY <1>5
  <2>2. Chain'[Len(Chain')] = Chain[Len(Chain)]
    BY <1>6, <2>1
  <2>3. QED
    BY <1>1, <2>2 DEF RingsInPlace, TheEnd
<1>8. buf_r \notin RingsComing /\ buf_r \notin Contents(bufcache)
  BY <1>1, ChainIs DEF RingsInPlace
<1>9. Range(Chain)' = Range(Chain') /\ IsInjective(Chain)'
  BY <1>6 DEF Range, IsInjective
<1>10. CASE Contents(bufcache)' = Contents(bufcache) \cup {buf_r} /\ buffer' = buffer
  <2>1. \A b \in Buffers : IsFree(buffer, b)' <=> IsFree(buffer, b)
    BY <1>10 DEF IsFree
  <2>2. RingsComing \cup Range(Chain') \cup Contents(bufcache)' =
          RingsComing \cup Range(Chain) \cup Contents(bufcache)
    BY <1>6, <1>10
  <2>3. \A b \in RingsComing \cup Contents(bufcache)' : buffer'[b] = EmptyBuffer(size)
    BY <1>1, <1>3, <1>10 DEF RingsInPlace
  <2>4. /\ RingsComing \cap Range(Chain') = {}
        /\ (RingsComing \cup Range(Chain')) \cap Contents(bufcache)' = {}
    BY <1>1, <1>6, <1>8, <1>10 DEF RingsInPlace
  <2>5. \A b \in Buffers :
          IsFree(buffer, b)' <=> b \notin RingsComing \cup Range(Chain') \cup Contents(bufcache)'
    BY <1>1, <2>1, <2>2 DEF RingsInPlace
  <2>6. QED
    BY <1>4, <1>6, <1>7, <1>9, <2>3, <2>4, <2>5 DEF RingsInPlace, TheEnd
<1>11. CASE bufcache' = bufcache /\ buffer' = [buffer EXCEPT ![buf_r] = Freed]
  <2>1. Contents(bufcache)' = Contents(bufcache)
    BY <1>11 DEF Contents
  <2>2. buffer'[buf_r] = Freed /\ \A b \in Buffers \ {buf_r} : buffer'[b] = buffer[b]
    BY <1>3, <1>11 DEF TypeOK
  <2>3. \A b \in RingsComing \cup Contents(bufcache) : buffer'[b] = EmptyBuffer(size)
    <3>1. \A b \in RingsComing \cup Contents(bufcache) : buffer[b] = EmptyBuffer(size) /\ b # buf_r
      BY <1>1, <1>8 DEF RingsInPlace
    <3>2. \A b \in RingsComing \cup Contents(bufcache) : buffer'[b] = buffer[b]
      BY <1>11, <3>1 DEF TypeOK
    <3>3. QED
      BY <3>1, <3>2
  <2>4. /\ RingsComing \cap Range(Chain') = {}
        /\ (RingsComing \cup Range(Chain')) \cap Contents(bufcache) = {}
    BY <1>1, <1>6 DEF RingsInPlace
  <2>5. \A b \in Buffers :
          IsFree(buffer, b)' <=> b \notin RingsComing \cup Range(Chain') \cup Contents(bufcache)
    <3>1. \A b \in Buffers : IsFree(buffer, b) <=> b \notin RingsComing \cup Range(Chain) \cup Contents(bufcache)
      BY <1>1 DEF RingsInPlace
    <3>2. QED
      BY <1>3, <1>6, <1>8, <2>2, <3>1 DEF IsFree
  <2>6. QED
    BY <1>4, <1>6, <1>7, <1>9, <2>1, <2>3, <2>4, <2>5 DEF RingsInPlace, TheEnd
<1>12. QED
  BY <1>1, <1>10, <1>11, DropRingDoes

LEMMA RingsStep ==
  ASSUME TypeOK, MemoryInPlace, CachesInOrder, WriterKnows, ReaderKnows, ValuesInOrder, Next
  PROVE  RingsInPlace'
BY OtherRings, NextWRings, LinkRings, DropRingRings DEF Next, Push, Pop

(***************************************************************************)
(* The caches, and where the two threads are.                              *)
(***************************************************************************)

LEMMA CachesStep ==
  ASSUME TypeOK, MemoryInPlace, CachesInOrder, ReaderKnows, Next
  PROVE  CachesInOrder'
<1>1. RingsInPlace /\ NodesInPlace
  BY DEF MemoryInPlace
<1>2. CASE \/ FindsRoom \/ FindsNoRoom \/ Link \/ Switch \/ Store
           \/ LooksAtRing \/ Compare \/ LooksAgain \/ NextR \/ Reset \/ Take
  <2>1. UNCHANGED <<bufcache, cache>>
    BY <1>2 DEF FindsRoom, FindsNoRoom, Link, Switch, Store, LooksAtRing, Compare, LooksAgain,
                NextR, Reset, Take, pool
  <2>2. QED
    BY <2>1 DEF CachesInOrder
<1>3. CASE NextW
  <2>1. cache' = cache /\ InOrder(bufcache, CacheSize)' /\ IsInjective(Queue(bufcache, CacheSize))'
    BY <1>1, <1>3, NextWDoes DEF NextW
  <2>2. QED
    BY <2>1 DEF CachesInOrder
<1>4. CASE AllocNode
  <2>1. bufcache' = bufcache /\ InOrder(cache, CacheSize)' /\ IsInjective(Queue(cache, CacheSize))'
    BY <1>1, <1>4, AllocNodeDoes DEF AllocNode
  <2>2. QED
    BY <2>1 DEF CachesInOrder
<1>5. CASE DropNode
  <2>1. bufcache' = bufcache /\ InOrder(cache, CacheSize)' /\ IsInjective(Queue(cache, CacheSize))'
    BY <1>1, <1>5, DropNodeDoes DEF DropNode
  <2>2. QED
    BY <2>1 DEF CachesInOrder
<1>6. CASE DropRing
  <2>1. cache' = cache /\ InOrder(bufcache, CacheSize)' /\ IsInjective(Queue(bufcache, CacheSize))'
    BY <1>1, <1>6, DropRingDoes DEF DropRing
  <2>2. QED
    BY <2>1 DEF CachesInOrder
<1>7. QED
  BY <1>2, <1>3, <1>4, <1>5, <1>6 DEF Next, Push, Pop

\* What the writer has found stays so: the reader only makes room in its ring, and
\* touches neither the writer's node nor its ring before it has got there.
LEMMA WriterStep ==
  ASSUME TypeOK, MemoryInPlace, CachesInOrder, WriterKnows, ReaderKnows, ValuesInOrder, Next
  PROVE  WriterKnows'
<1>1. RingsInPlace /\ NodesInPlace
  BY DEF MemoryInPlace
<1>2. CASE FindsRoom \/ FindsNoRoom \/ Store
  <2>1. CASE FindsRoom
    <3>1. writer'.pc = "store" /\ pushed' = pushed /\ pushed < Quota /\ UNCHANGED <<buffer, buf_w>>
      BY <2>1 DEF FindsRoom, ToWriter, TypeOK
    <3>2. IsAvailable(buffer[buf_w])'
      BY <2>1, <3>1 DEF FindsRoom
    <3>3. QED
      BY <3>1, <3>2 DEF WriterKnows
  <2>2. CASE FindsNoRoom
    <3>1. writer'.pc = "next_w" /\ pushed' = pushed /\ pushed < Quota
      BY <2>2 DEF FindsNoRoom, ToWriter, TypeOK
    <3>2. QED
      BY <3>1 DEF WriterKnows
  <2>3. CASE Store
    <3>1. writer'.pc = "available"
      BY <2>3 DEF Store, ToWriter, TypeOK
    <3>2. QED
      BY <3>1 DEF WriterKnows
  <2>4. QED
    BY <1>2, <2>1, <2>2, <2>3
<1>3. CASE NextW
  <2>1. PICK b \in Buffers : writer' = [writer EXCEPT !.pc = "allocnode", !.t = b]
    BY <1>1, <1>3, NextWDoes
  <2>2. writer'.pc = "allocnode" /\ writer'.t \in Buffers /\ pushed < Quota /\ pushed' = pushed
    BY <1>3, <2>1 DEF NextW, TypeOK, WriterKnows
  <2>3. QED
    BY <2>2 DEF WriterKnows
<1>4. CASE AllocNode
  <2>1. PICK n \in Nodes :
          /\ writer' = [writer EXCEPT !.pc = "link", !.n = n]
          /\ node' = [node EXCEPT ![n] = [data |-> writer.t, next |-> Null]]
    BY <1>1, <1>4, AllocNodeDoes
  <2>2. /\ writer'.pc = "link" /\ writer'.t = writer.t /\ writer.t \in Buffers
        /\ pushed < Quota /\ pushed' = pushed /\ writer'.n = n
        /\ node'[n] = [data |-> writer.t, next |-> Null]
    BY <1>4, <2>1 DEF AllocNode, TypeOK, WriterKnows
  <2>3. QED
    BY <2>2 DEF WriterKnows
<1>5. CASE Link
  <2>1. Chain' = Append(Chain, writer.t)
    BY <1>1, <1>5, LinkChain
  <2>2. /\ writer'.pc = "switch" /\ writer.t \in Buffers /\ writer'.t = writer.t /\ buf_w' = buf_w
        /\ pushed < Quota /\ pushed' = pushed /\ writer.pc = "link"
    BY <1>5 DEF Link, ToWriter, TypeOK, WriterKnows
  <2>3. Chain[Len(Chain)] = buf_w /\ Chain \in Seq(Buffers) /\ Len(Chain) \in Nat \ {0}
    BY <1>1, <2>2, ChainIs DEF RingsInPlace
  <2>4. Len(Chain') = Len(Chain) + 1 /\ \A k \in 1..Len(Chain) : Chain'[k] = Chain[k]
    BY <2>1, <2>2, <2>3, Appended
  <2>5. Len(Chain') > 1 /\ Len(Chain') - 1 = Len(Chain) /\ Chain'[Len(Chain)] = buf_w
    BY <2>3, <2>4
  <2>6. QED
    BY <2>2, <2>5 DEF WriterKnows
<1>6. CASE Switch
  <2>1. /\ writer.pc = "switch" /\ writer'.pc = "store" /\ buf_w' = writer.t
        /\ pushed < Quota /\ pushed' = pushed /\ buffer' = buffer
    BY <1>6 DEF Switch, ToWriter, TypeOK, WriterKnows
  <2>2. Len(Chain) \in 1..Len(Chain) /\ Chain[Len(Chain)] = writer.t
    BY <1>1, <2>1, ChainIs DEF RingsInPlace
  <2>3. /\ buffer[writer.t] \in BufferOf(1..Quota, size) /\ InOrder(buffer[writer.t], size)
        /\ Queue(buffer[writer.t], size) = <<>>
    BY <1>1, <2>1, <2>2, ChainIs, RingIs DEF ValuesInOrder, Rings
  <2>4. IsAvailable(buffer[writer.t])
    BY <2>3, CachesAre, QueueIs
  <2>5. QED
    BY <2>1, <2>4 DEF WriterKnows
<1>7. CASE \/ LooksAtRing \/ Compare \/ LooksAgain \/ NextR \/ DropNode \/ Reset \/ DropRing \/ Take
  <2>1. UNCHANGED <<writer, pushed, buf_w>>
    BY <1>7 DEF LooksAtRing, Compare, LooksAgain, NextR, DropNode, Reset, DropRing, Take
  <2>2. writer.pc = "link" => node'[writer.n] = node[writer.n]
    <3>1. CASE \/ LooksAtRing \/ Compare \/ LooksAgain \/ NextR \/ Reset \/ DropRing \/ Take
      BY <3>1 DEF LooksAtRing, Compare, LooksAgain, NextR, Reset, DropRing, Take, pool
    <3>2. CASE DropNode
      <4>1. /\ reader.pc = "oldnode" /\ reader.n \in Nodes
            /\ node' = node \/ node' = [node EXCEPT ![reader.n] = Freed]
        BY <1>1, <3>2, DropNodeDoes
      <4>2. writer.pc = "link" => writer.n # reader.n /\ writer.n \in Nodes
        BY <4>1 DEF ReaderKnows, WriterKnows
      <4>3. QED
        BY <4>1, <4>2 DEF TypeOK
    <3>3. QED
      BY <1>7, <3>1, <3>2
  <2>3. writer.pc = "switch" => Len(Chain') > 1 /\ Chain'[Len(Chain') - 1] = buf_w
    <3> SUFFICES ASSUME writer.pc = "switch"
                 PROVE  Len(Chain') > 1 /\ Chain'[Len(Chain') - 1] = buf_w
      OBVIOUS
    <3>1. Len(Chain) > 1 /\ Chain[Len(Chain) - 1] = buf_w /\ Len(Chain) \in Nat
      BY <1>1, ChainIs DEF WriterKnows
    <3>2. CASE \/ LooksAtRing \/ Compare \/ LooksAgain \/ NextR \/ DropNode \/ Reset \/ Take
      <4>1. Chain' = Chain
        BY <3>2, OtherChain
      <4>2. QED
        BY <3>1, <4>1
    <3>3. CASE DropRing
      <4>1. Chain' = Tail(Chain)
        BY <1>1, <3>3, DropRingChain
      <4>2. buf_r # buf_w /\ Chain[1] = buf_r
        BY <1>1, <3>3, ChainIs DEF DropRing, ReaderKnows
      <4>3. Chain \in Seq(Buffers) /\ Chain # <<>>
        BY <1>1, <3>1, EmptySeq DEF RingsInPlace
      <4>4. /\ Len(Chain') = Len(Chain) - 1
            /\ \A k \in 1..(Len(Chain) - 1) : Chain'[k] = Chain[k + 1]
        BY <4>1, <4>3, Shortened
      <4>5. Len(Chain) - 1 # 1
        BY <3>1, <4>2
      <4>6. Len(Chain) - 2 \in 1..(Len(Chain) - 1) /\ (Len(Chain) - 2) + 1 = Len(Chain) - 1
        BY <3>1, <4>5
      <4>7. Chain'[Len(Chain) - 2] = Chain[Len(Chain) - 1] /\ Len(Chain') - 1 = Len(Chain) - 2
        BY <3>1, <4>4, <4>6
      <4>8. QED
        BY <3>1, <4>4, <4>5, <4>7
    <3>4. QED
      BY <1>7, <3>2, <3>3
  <2>4. writer.pc = "store" => IsAvailable(buffer'[buf_w])
    <3> SUFFICES ASSUME writer.pc = "store" PROVE IsAvailable(buffer'[buf_w])
      OBVIOUS
    <3>1. IsAvailable(buffer[buf_w])
      BY DEF WriterKnows
    <3>2. CASE LooksAtRing \/ Compare \/ LooksAgain \/ NextR \/ DropNode
      BY <3>1, <3>2 DEF LooksAtRing, Compare, LooksAgain, NextR, DropNode
    <3>3. CASE Reset \/ DropRing
      <4>1. buf_r # buf_w /\ buf_w \in Buffers
        BY <3>3 DEF Reset, DropRing, ReaderKnows, TypeOK
      <4>2. buffer'[buf_w] = buffer[buf_w]
        BY <3>3, <4>1 DEF Reset, DropRing, TypeOK
      <4>3. QED
        BY <3>1, <4>2
    <3>4. CASE Take
      <4>1. /\ buf_w \in Buffers /\ buf_r \in Buffers
            /\ buffer[buf_r] \in BufferOf(1..Quota, size) /\ InOrder(buffer[buf_r], size)
        BY <1>1, BothRings, RingIs DEF TypeOK
      <4>2. CASE buf_w # buf_r \/ IsEmpty(buffer[buf_r])
        <5>1. buffer'[buf_w] = buffer[buf_w]
          BY <3>4, <4>1, <4>2 DEF Take, TypeOK
        <5>2. QED
          BY <3>1, <5>1
      <4>3. CASE buf_w = buf_r /\ ~IsEmpty(buffer[buf_r])
        <5>1. buffer'[buf_w] = Popped(buffer[buf_w])
          BY <3>4, <4>1, <4>3 DEF Take, TypeOK
        <5>2. /\ Popped(buffer[buf_w]).pwrite = buffer[buf_w].pwrite
              /\ Popped(buffer[buf_w]).buf[buffer[buf_w].pwrite] = Null
          BY <3>1, <4>1, <4>3 DEF Popped, BufferOf, IsAvailable
        <5>3. QED
          BY <5>1, <5>2 DEF IsAvailable
      <4>4. QED
        BY <4>2, <4>3
    <3>5. QED
      BY <1>7, <3>2, <3>3, <3>4
  <2>5. QED
    BY <2>1, <2>2, <2>3, <2>4 DEF WriterKnows
<1>8. QED
  BY <1>2, <1>3, <1>4, <1>5, <1>6, <1>7 DEF Next, Push, Pop

\* Once the writer has gone on from a ring it does not come back to it while the
\* reader has it, and an empty ring that it has left stays empty.
LEMMA ReaderStep ==
  ASSUME TypeOK, MemoryInPlace, CachesInOrder, WriterKnows, ReaderKnows, ValuesInOrder, Next
  PROVE  ReaderKnows'
<1>1. RingsInPlace /\ NodesInPlace
  BY DEF MemoryInPlace
<1>2. CASE FindsRoom \/ FindsNoRoom \/ NextW \/ Link \/ AllocNode
  <2>1. UNCHANGED <<reader, buf_r, buf_w>>
    BY <1>2 DEF FindsRoom, FindsNoRoom, NextW, Link, AllocNode
  <2>2. buffer'[buf_r] = buffer[buf_r]
    <3>1. CASE FindsRoom \/ FindsNoRoom \/ Link \/ AllocNode
      BY <3>1 DEF FindsRoom, FindsNoRoom, Link, AllocNode
    <3>2. CASE NextW
      <4>1. PICK b \in Buffers :
              b \notin Range(Chain) /\ buffer' = [buffer EXCEPT ![b] = EmptyBuffer(size)]
        BY <1>1, <3>2, NextWDoes
      <4>2. buf_r \in Buffers /\ buf_r # b
        BY <1>1, <4>1, ChainIs DEF TypeOK
      <4>3. QED
        BY <4>1, <4>2 DEF TypeOK
    <3>3. QED
      BY <1>2, <3>1, <3>2
  <2>3. reader.pc = "oldnode" /\ writer'.pc = "link" => reader.n # writer'.n
    <3>1. CASE FindsRoom \/ FindsNoRoom \/ Link
      BY <3>1 DEF FindsRoom, FindsNoRoom, Link, ToWriter, TypeOK
    <3>2. CASE NextW
      <4>1. writer'.pc = "allocnode"
        BY <1>1, <3>2, NextWDoes DEF TypeOK
      <4>2. QED
        BY <4>1
    <3>3. CASE AllocNode
      <4>1. PICK n \in Nodes :
              n \notin NodesApart /\ writer' = [writer EXCEPT !.pc = "link", !.n = n]
        BY <1>1, <3>3, AllocNodeDoes
      <4>2. writer'.n = n
        BY <4>1 DEF TypeOK
      <4>3. QED
        BY <4>1, <4>2 DEF NodesApart
    <3>4. QED
      BY <1>2, <3>1, <3>2, <3>3
  <2>4. QED
    BY <2>1, <2>2, <2>3 DEF ReaderKnows
<1>3. CASE Switch
  <2>1. /\ writer.pc = "switch" /\ writer'.pc = "store" /\ buf_w' = writer.t
        /\ UNCHANGED <<reader, buf_r, buffer>>
    BY <1>3 DEF Switch, ToWriter, TypeOK
  <2>2. Len(Chain) > 1 /\ Chain[Len(Chain)] = writer.t /\ IsInjective(Chain)
    BY <1>1, <2>1 DEF WriterKnows, RingsInPlace
  <2>3. Len(Chain) \in Nat /\ DOMAIN Chain = 1..Len(Chain) /\ Chain[1] = buf_r
    BY <1>1, ChainIs
  <2>4. 1 \in DOMAIN Chain /\ Len(Chain) \in DOMAIN Chain /\ 1 # Len(Chain)
    BY <2>2, <2>3
  <2>5. buf_r # writer.t
    BY <2>2, <2>3, <2>4 DEF IsInjective
  <2>6. QED
    BY <2>1, <2>5 DEF ReaderKnows
<1>4. CASE Store
  <2>1. /\ writer'.pc = "available" /\ UNCHANGED <<reader, buf_r, buf_w>>
        /\ \A b \in Buffers : b # buf_w => buffer'[b] = buffer[b]
    BY <1>4 DEF Store, ToWriter, TypeOK
  <2>2. buf_r # buf_w => buffer'[buf_r] = buffer[buf_r]
    BY <2>1 DEF TypeOK
  <2>3. QED
    BY <2>1, <2>2 DEF ReaderKnows
<1>5. CASE LooksAtRing \/ Compare \/ LooksAgain
  <2>1. UNCHANGED <<writer, buf_r, buf_w, buffer>> /\ reader'.n = reader.n
    BY <1>5 DEF LooksAtRing, Compare, LooksAgain, ToReader, TypeOK
  <2>2. CASE LooksAtRing
    <3>1. reader'.pc \in {"compare", "take"}
      BY <2>2 DEF LooksAtRing, ToReader, TypeOK
    <3>2. QED
      BY <3>1 DEF ReaderKnows
  <2>3. CASE Compare
    <3>1. reader'.pc = "empty" \/ (reader'.pc = "again" /\ buf_r # buf_w)
      BY <2>3 DEF Compare, ToReader, TypeOK
    <3>2. QED
      BY <2>1, <3>1 DEF ReaderKnows
  <2>4. CASE LooksAgain
    <3>1. reader.pc = "again" /\ buf_r # buf_w
      BY <2>4 DEF LooksAgain, ReaderKnows
    <3>2. reader'.pc = "take" \/ (reader'.pc = "next_r" /\ IsEmpty(buffer[buf_r]))
      <4>1. CASE IsEmpty(buffer[buf_r])
        BY <2>4, <4>1 DEF LooksAgain, ToReader, TypeOK
      <4>2. CASE ~IsEmpty(buffer[buf_r])
        BY <2>4, <4>2 DEF LooksAgain, ToReader, TypeOK
      <4>3. QED
        BY <4>1, <4>2
    <3>3. QED
      BY <2>1, <3>1, <3>2 DEF ReaderKnows
  <2>5. QED
    BY <1>5, <2>2, <2>3, <2>4
<1>6. CASE NextR
  <2>1. reader.pc = "next_r" /\ UNCHANGED <<writer, buf_r, buf_w, buffer>>
    BY <1>6 DEF NextR
  <2>2. buf_r # buf_w /\ IsEmpty(buffer[buf_r])
    BY <2>1 DEF ReaderKnows
  <2>3. \/ reader'.pc = "oldnode" /\ reader'.n = head
        \/ reader'.pc = "take"
    BY <1>1, <1>6, NextRDoes DEF TypeOK
  <2>4. head \in Nodes /\ head \in Range(list)
    BY <1>1, ListIs
  <2>5. writer.pc = "link" => head # writer.n
    BY <1>1, <2>4 DEF NodesInPlace, NodesApart
  <2>6. QED
    BY <2>1, <2>2, <2>3, <2>4, <2>5 DEF ReaderKnows
<1>7. CASE DropNode
  <2>1. reader.pc = "oldnode" /\ reader'.pc = "release" /\ UNCHANGED <<buf_r, buf_w, buffer>>
    BY <1>7 DEF DropNode, ToReader, TypeOK
  <2>2. QED
    BY <2>1 DEF ReaderKnows
<1>8. CASE Reset
  <2>1. /\ reader.pc = "release" /\ reader'.pc = "oldring" /\ UNCHANGED <<buf_r, buf_w>>
        /\ buffer'[buf_r] = EmptyBuffer(size)
    BY <1>8 DEF Reset, ToReader, TypeOK
  <2>2. IsEmpty(EmptyBuffer(size))
    BY CachesAre DEF IsEmpty, EmptyBuffer
  <2>3. QED
    BY <2>1, <2>2 DEF ReaderKnows
<1>9. CASE DropRing \/ Take
  <2>1. reader'.pc \in {"take", "empty"}
    BY <1>9 DEF DropRing, Take, ToReader, TypeOK
  <2>2. QED
    BY <2>1 DEF ReaderKnows
<1>10. QED
  BY <1>2, <1>3, <1>4, <1>5, <1>6, <1>7, <1>8, <1>9 DEF Next, Push, Pop

(***************************************************************************)
(* The values are numbered from the reader's ring to the writer's.         *)
(***************************************************************************)

LEMMA BeforeIs ==
  ASSUME NEW q \in Seq(Seq(Nat)), NEW r \in Nat, NEW p \in Nat, NEW k \in 1..Len(q)
  PROVE  /\ q[k] \in Seq(Nat) /\ Len(q[k]) \in Nat /\ DOMAIN q[k] = 1..Len(q[k])
         /\ Before(q, r, p, k) \in Int
         /\ Len(q) \in Nat /\ DOMAIN q = 1..Len(q)
<1>1. q[k] \in Seq(Nat) /\ Len(q) \in Nat /\ DOMAIN q = 1..Len(q)
  BY ElementOfSeq, LenProperties
<1>2. Len(q[k]) \in Nat /\ DOMAIN q[k] = 1..Len(q[k])
  BY <1>1, LenProperties
<1>3. q[k] # <<>> => q[k][1] \in Nat
  BY <1>1, Shortened
<1>4. Before(q, r, p, k) \in Int
  BY <1>3 DEF Before
<1>5. QED
  BY <1>1, <1>2, <1>4

\* To be numbered, seen from each queue.
LEMMA NumberedFrom ==
  ASSUME NEW q \in Seq(Seq(Nat)), NEW r \in Nat, NEW p \in Nat, NEW m \in Int,
         NEW n \in Nat, Len(q) = n,
         \A k \in 1..n :
           /\ \A j \in 1..Len(q[k]) : q[k][j] = Before(q, r, p, k) + j
           /\ k > 1 /\ k <= m => q[k] # <<>>
           /\ Before(q, r, p, k) + Len(q[k]) = IF k = n THEN p ELSE Before(q, r, p, k + 1)
           /\ Before(q, r, p, k) + Len(q[k]) <= p
  PROVE  Numbered(q, r, p, m)
<1>1. DOMAIN q = 1..n
  BY LenProperties
<1>2. \A k \in 1..n : DOMAIN q[k] = 1..Len(q[k])
  BY BeforeIs
<1>3. QED
  BY <1>1, <1>2 DEF Numbered

\* The writer stores the next value in the last ring.
LEMMA NumberedPush ==
  ASSUME NEW q \in Seq(Seq(Nat)), NEW r \in Nat, NEW p \in Nat,
         NEW n \in Nat \ {0}, Len(q) = n, Numbered(q, r, p, n - 1)
  PROVE  Numbered([q EXCEPT ![n] = Append(@, p + 1)], r, p + 1, n - 1)
<1> DEFINE l == Len(q[n])
           a == Append(q[n], p + 1)
           c == [q EXCEPT ![n] = a]
           B(k) == Before(q, r, p, k)
           C(k) == Before(c, r, p + 1, k)
<1>1. /\ n \in 1..n /\ DOMAIN q = 1..n
      /\ \A k \in 1..n :
           /\ q[k] \in Seq(Nat) /\ Len(q[k]) \in Nat /\ B(k) \in Int
           /\ \A j \in 1..Len(q[k]) : q[k][j] = B(k) + j
           /\ k > 1 /\ k < n => q[k] # <<>>
           /\ B(k) + Len(q[k]) = IF k = n THEN p ELSE B(k + 1)
           /\ B(k) + Len(q[k]) <= p
  <2>1. ASSUME NEW k \in 1..n
        PROVE  /\ q[k] \in Seq(Nat) /\ Len(q[k]) \in Nat /\ B(k) \in Int
               /\ \A j \in 1..Len(q[k]) : q[k][j] = B(k) + j
               /\ k > 1 /\ k <= n - 1 => q[k] # <<>>
               /\ B(k) + Len(q[k]) = IF k = n THEN p ELSE B(k + 1)
               /\ B(k) + Len(q[k]) <= p
    <3>1. /\ q[k] \in Seq(Nat) /\ Len(q[k]) \in Nat /\ B(k) \in Int
          /\ k \in DOMAIN q /\ DOMAIN q[k] = 1..Len(q[k])
      BY BeforeIs
    <3>2. QED
      BY <3>1 DEF Numbered
  <2>2. DOMAIN q = 1..n
    BY LenProperties
  <2> HIDE DEF B
  <2>3. \A k \in 1..n : k < n => k <= n - 1
    OBVIOUS
  <2>4. QED
    BY <2>1, <2>2, <2>3
<1>2. /\ a \in Seq(Nat) /\ Len(a) = l + 1 /\ a[l + 1] = p + 1 /\ l \in Nat
      /\ \A j \in 1..l : a[j] = q[n][j]
  <2>1. q[n] \in Seq(Nat) /\ l \in Nat /\ p + 1 \in Nat
    BY <1>1
  <2>2. QED
    BY <2>1, Appended
<1>3. /\ c \in Seq(Seq(Nat)) /\ Len(c) = n /\ c[n] = a
      /\ \A k \in 1..n : k # n => c[k] = q[k]
  BY <1>1, <1>2
<1>4. B(n) + l = p /\ B(n) \in Int /\ \A j \in 1..l : q[n][j] = B(n) + j
  BY <1>1
<1>5. \A k \in 1..n : B(k) = IF k = 1 THEN r ELSE IF q[k] = <<>> THEN p ELSE q[k][1] - 1
  BY DEF Before
<1>6. \A k \in 1..n : C(k) = IF k = 1 THEN r ELSE IF c[k] = <<>> THEN p + 1 ELSE c[k][1] - 1
  BY DEF Before
<1> HIDE DEF l, a, c, B, C
<1>7. ASSUME n > 1 PROVE C(n) = B(n)
  <2>1. a # <<>>
    BY <1>2
  <2>2. n \in 1..n /\ n # 1 /\ c[n] = a
    BY <1>1, <1>3, <1>7
  <2>3. C(n) = a[1] - 1
    BY <1>6, <2>1, <2>2
  <2>4. CASE l = 0
    BY <1>2, <1>4, <2>3, <2>4
  <2>5. CASE l > 0
    BY <1>2, <1>4, <2>3, <2>5
  <2>6. QED
    BY <1>2, <2>4, <2>5
<1>8. ASSUME NEW k \in 1..n PROVE C(k) = B(k)
  <2>1. CASE k = 1
    BY <1>5, <1>6, <2>1
  <2>2. CASE k > 1 /\ k < n
    <3>1. q[k] # <<>>
      BY <1>1, <2>2
    <3>2. c[k] = q[k]
      BY <1>3, <2>2
    <3>3. QED
      BY <1>5, <1>6, <2>2, <3>1, <3>2
  <2>3. CASE k > 1 /\ k = n
    BY <1>7, <2>3
  <2>4. QED
    BY <2>1, <2>2, <2>3
<1>9. \A j \in 1..(l + 1) : a[j] = B(n) + j
  <2>1. l \in Nat /\ a[l + 1] = p + 1
    BY <1>2
  <2>2. B(n) + (l + 1) = p + 1
    BY <1>4, <2>1
  <2>3. ASSUME NEW j \in 1..(l + 1) PROVE a[j] = B(n) + j
    <3>1. CASE j = l + 1
      BY <2>1, <2>2, <3>1
    <3>2. CASE j \in 1..l
      <4>1. a[j] = q[n][j]
        BY <1>2, <3>2
      <4>2. QED
        BY <1>4, <3>2, <4>1
    <3>3. QED
      BY <2>1, <3>1, <3>2
  <2>4. QED
    BY <2>3
<1>10. ASSUME NEW k \in 1..n
       PROVE  /\ \A j \in 1..Len(c[k]) : c[k][j] = C(k) + j
              /\ k > 1 /\ k <= n - 1 => c[k] # <<>>
              /\ C(k) + Len(c[k]) = IF k = n THEN p + 1 ELSE C(k + 1)
              /\ C(k) + Len(c[k]) <= p + 1
  <2>1. C(k) = B(k)
    BY <1>8
  <2>2. CASE k = n
    <3>1. c[k] = a /\ Len(c[k]) = l + 1 /\ B(k) + (l + 1) = p + 1
      BY <1>2, <1>3, <1>4, <2>2
    <3>2. \A j \in 1..(l + 1) : c[k][j] = C(k) + j
      BY <1>9, <2>1, <2>2, <3>1
    <3>3. QED
      BY <2>1, <2>2, <3>1, <3>2
  <2>3. CASE k # n
    <3>1. c[k] = q[k] /\ k + 1 \in 1..n
      BY <1>3, <2>3
    <3>2. C(k + 1) = B(k + 1)
      BY <1>8, <3>1
    <3>3. /\ \A j \in 1..Len(q[k]) : q[k][j] = B(k) + j
          /\ k > 1 /\ k < n => q[k] # <<>>
          /\ B(k) + Len(q[k]) = B(k + 1) /\ B(k) + Len(q[k]) <= p
          /\ B(k) \in Int /\ Len(q[k]) \in Nat
      BY <1>1, <2>3
    <3>4. C(k) + Len(c[k]) <= p + 1
      BY <2>1, <3>1, <3>3
    <3>5. QED
      BY <2>1, <2>3, <3>1, <3>2, <3>3, <3>4
  <2>4. QED
    BY <2>2, <2>3
<1>11. Numbered(c, r, p + 1, n - 1)
  <2>1. p + 1 \in Nat /\ n - 1 \in Int /\ n \in Nat
    OBVIOUS
  <2>2. QED
    BY <1>3, <1>10, <2>1, NumberedFrom DEF C
<1>12. QED
  BY <1>11 DEF c, a

\* The reader takes the next value from the first.
LEMMA NumberedPop ==
  ASSUME NEW q \in Seq(Seq(Nat)), NEW r \in Nat, NEW p \in Nat, NEW m \in Int,
         NEW n \in Nat \ {0}, Len(q) = n, Numbered(q, r, p, m), q[1] # <<>>
  PROVE  /\ Head(q[1]) = r + 1 /\ r + 1 <= p
         /\ Numbered([q EXCEPT ![1] = Tail(@)], r + 1, p, m)
<1> DEFINE l == Len(q[1])
           a == Tail(q[1])
           c == [q EXCEPT ![1] = a]
           B(k) == Before(q, r, p, k)
           C(k) == Before(c, r + 1, p, k)
<1>1. /\ DOMAIN q = 1..n
      /\ \A k \in 1..n :
           /\ q[k] \in Seq(Nat) /\ Len(q[k]) \in Nat /\ B(k) \in Int
           /\ \A j \in 1..Len(q[k]) : q[k][j] = B(k) + j
           /\ k > 1 /\ k <= m => q[k] # <<>>
           /\ B(k) + Len(q[k]) = IF k = n THEN p ELSE B(k + 1)
           /\ B(k) + Len(q[k]) <= p
  <2>1. ASSUME NEW k \in 1..n
        PROVE  /\ q[k] \in Seq(Nat) /\ Len(q[k]) \in Nat /\ B(k) \in Int
               /\ \A j \in 1..Len(q[k]) : q[k][j] = B(k) + j
               /\ k > 1 /\ k <= m => q[k] # <<>>
               /\ B(k) + Len(q[k]) = IF k = n THEN p ELSE B(k + 1)
               /\ B(k) + Len(q[k]) <= p
    <3>1. /\ q[k] \in Seq(Nat) /\ Len(q[k]) \in Nat /\ B(k) \in Int
          /\ k \in DOMAIN q /\ DOMAIN q[k] = 1..Len(q[k])
      BY BeforeIs
    <3>2. QED
      BY <3>1 DEF Numbered
  <2>2. DOMAIN q = 1..n
    BY LenProperties
  <2> HIDE DEF B
  <2>3. QED
    BY <2>1, <2>2
<1>2. 1 \in 1..n /\ q[1] \in Seq(Nat)
  BY <1>1
<1>3. /\ a \in Seq(Nat) /\ Len(a) = l - 1 /\ l \in Nat \ {0} /\ Head(q[1]) = q[1][1]
      /\ \A j \in 1..(l - 1) : a[j] = q[1][j + 1]
  BY <1>2, Shortened
<1>4. /\ c \in Seq(Seq(Nat)) /\ Len(c) = n /\ c[1] = a
      /\ \A k \in 1..n : k # 1 => c[k] = q[k]
  BY <1>1, <1>2, <1>3
<1>5. B(1) = r /\ C(1) = r + 1
  BY DEF Before
<1>6. /\ \A j \in 1..l : q[1][j] = r + j
      /\ r + l = IF 1 = n THEN p ELSE B(1 + 1)
      /\ r + l <= p
  BY <1>1, <1>2, <1>5
<1>7. \A k \in 1..n : k # 1 => C(k) = B(k)
  BY <1>4 DEF Before
<1> HIDE DEF l, a, c, B, C
<1>8. Head(q[1]) = r + 1 /\ r + 1 <= p
  BY <1>3, <1>6
<1>9. ASSUME NEW k \in 1..n
      PROVE  /\ \A j \in 1..Len(c[k]) : c[k][j] = C(k) + j
             /\ k > 1 /\ k <= m => c[k] # <<>>
             /\ C(k) + Len(c[k]) = IF k = n THEN p ELSE C(k + 1)
             /\ C(k) + Len(c[k]) <= p
  <2>1. k # n => k + 1 \in 1..n /\ C(k + 1) = B(k + 1)
    BY <1>7
  <2>2. CASE k = 1
    <3>1. c[k] = a /\ Len(c[k]) = l - 1 /\ C(k) = r + 1 /\ (r + 1) + (l - 1) = r + l
      BY <1>3, <1>4, <1>5, <2>2
    <3>2. ASSUME NEW j \in 1..(l - 1) PROVE a[j] = (r + 1) + j
      <4>1. a[j] = q[1][j + 1] /\ j + 1 \in 1..l
        BY <1>3
      <4>2. q[1][j + 1] = r + (j + 1)
        BY <1>6, <4>1
      <4>3. QED
        BY <4>1, <4>2
    <3>3. r + l = IF k = n THEN p ELSE C(k + 1)
      BY <1>6, <2>1, <2>2
    <3>4. r + l <= p
      BY <1>6
    <3>5. \A j \in 1..Len(c[k]) : c[k][j] = C(k) + j
      BY <3>1, <3>2
    <3>6. C(k) + Len(c[k]) = r + l
      BY <3>1
    <3>7. QED
      BY <2>2, <3>3, <3>4, <3>5, <3>6
  <2>3. CASE k # 1
    <3>1. c[k] = q[k] /\ C(k) = B(k)
      BY <1>4, <1>7, <2>3
    <3>2. /\ \A j \in 1..Len(q[k]) : q[k][j] = B(k) + j
          /\ k > 1 /\ k <= m => q[k] # <<>>
          /\ B(k) + Len(q[k]) = IF k = n THEN p ELSE B(k + 1)
          /\ B(k) + Len(q[k]) <= p
      BY <1>1
    <3>3. QED
      BY <2>1, <3>1, <3>2
  <2>4. QED
    BY <2>2, <2>3
<1>10. Numbered(c, r + 1, p, m)
  <2>1. r + 1 \in Nat /\ n \in Nat
    OBVIOUS
  <2>2. QED
    BY <1>4, <1>9, <2>1, NumberedFrom DEF C
<1>11. QED
  BY <1>8, <1>10 DEF c, a

\* The writer goes on from a ring that is not empty to one that is.
LEMMA NumberedLink ==
  ASSUME NEW q \in Seq(Seq(Nat)), NEW r \in Nat, NEW p \in Nat,
         NEW n \in Nat \ {0}, Len(q) = n, Numbered(q, r, p, n)
  PROVE  Numbered(Append(q, <<>>), r, p, n)
<1> DEFINE c == Append(q, <<>>)
           B(k) == Before(q, r, p, k)
           C(k) == Before(c, r, p, k)
<1>1. ASSUME NEW k \in 1..n
      PROVE  /\ Len(q[k]) \in Nat /\ B(k) \in Int
             /\ \A j \in 1..Len(q[k]) : q[k][j] = B(k) + j
             /\ k > 1 => q[k] # <<>>
             /\ B(k) + Len(q[k]) = IF k = n THEN p ELSE B(k + 1)
             /\ B(k) + Len(q[k]) <= p
  <2>1. /\ q[k] \in Seq(Nat) /\ Len(q[k]) \in Nat /\ B(k) \in Int
        /\ k \in DOMAIN q /\ DOMAIN q[k] = 1..Len(q[k])
    BY BeforeIs
  <2>2. k <= n
    OBVIOUS
  <2>3. QED
    BY <2>1, <2>2 DEF Numbered
<1>2. /\ c \in Seq(Seq(Nat)) /\ Len(c) = n + 1 /\ c[n + 1] = <<>>
      /\ \A k \in 1..n : c[k] = q[k]
  <2>1. <<>> \in Seq(Nat)
    OBVIOUS
  <2>2. QED
    BY <2>1, Appended
<1>3. (\A k \in 1..n : C(k) = B(k)) /\ C(n + 1) = p
  BY <1>2 DEF Before
<1> HIDE DEF c, B, C
<1>4. ASSUME NEW k \in 1..(n + 1)
      PROVE  /\ \A j \in 1..Len(c[k]) : c[k][j] = C(k) + j
             /\ k > 1 /\ k <= n => c[k] # <<>>
             /\ C(k) + Len(c[k]) = IF k = n + 1 THEN p ELSE C(k + 1)
             /\ C(k) + Len(c[k]) <= p
  <2>1. CASE k = n + 1
    <3>1. c[k] = <<>> /\ Len(c[k]) = 0 /\ C(k) = p
      BY <1>2, <1>3, <2>1
    <3>2. QED
      BY <2>1, <3>1
  <2>2. CASE k \in 1..n
    <3>1. c[k] = q[k] /\ C(k) = B(k) /\ k # n + 1
      BY <1>2, <1>3, <2>2
    <3>2. C(k + 1) = IF k = n THEN p ELSE B(k + 1)
      <4>1. k = n \/ k + 1 \in 1..n
        BY <2>2
      <4>2. QED
        BY <1>3, <4>1
    <3>3. /\ \A j \in 1..Len(q[k]) : q[k][j] = B(k) + j
          /\ k > 1 => q[k] # <<>>
          /\ B(k) + Len(q[k]) = C(k + 1)
          /\ B(k) + Len(q[k]) <= p
      BY <1>1, <2>2, <3>2
    <3>4. QED
      BY <3>1, <3>3
  <2>3. QED
    BY <2>1, <2>2
<1>5. Numbered(c, r, p, n)
  <2>1. n + 1 \in Nat /\ n \in Int
    OBVIOUS
  <2>2. QED
    BY <1>2, <1>4, <2>1, NumberedFrom DEF C
<1>6. QED
  BY <1>5 DEF c

\* The reader leaves an empty ring behind.
LEMMA NumberedDrop ==
  ASSUME NEW q \in Seq(Seq(Nat)), NEW r \in Nat, NEW p \in Nat, NEW m \in Int,
         NEW n \in Nat, n > 1, Len(q) = n, Numbered(q, r, p, m), q[1] = <<>>
  PROVE  Numbered(Tail(q), r, p, m - 1)
<1> DEFINE c == Tail(q)
           B(k) == Before(q, r, p, k)
           C(k) == Before(c, r, p, k)
<1>1. ASSUME NEW k \in 1..n
      PROVE  /\ Len(q[k]) \in Nat /\ B(k) \in Int
             /\ \A j \in 1..Len(q[k]) : q[k][j] = B(k) + j
             /\ k > 1 /\ k <= m => q[k] # <<>>
             /\ B(k) + Len(q[k]) = IF k = n THEN p ELSE B(k + 1)
             /\ B(k) + Len(q[k]) <= p
  <2>1. /\ q[k] \in Seq(Nat) /\ Len(q[k]) \in Nat /\ B(k) \in Int
        /\ k \in DOMAIN q /\ DOMAIN q[k] = 1..Len(q[k])
    BY BeforeIs
  <2>2. QED
    BY <2>1 DEF Numbered
<1>2. c \in Seq(Seq(Nat)) /\ Len(c) = n - 1 /\ \A k \in 1..(n - 1) : c[k] = q[k + 1]
  <2>1. q # <<>>
    BY EmptySeq
  <2>2. QED
    BY <2>1, Shortened
<1>3. B(1) = r /\ C(1) = r
  BY DEF Before
<1>4. \A k \in 1..(n - 1) : k > 1 => C(k) = B(k + 1)
  <2>1. \A k \in 1..(n - 1) : k > 1 => k + 1 # 1
    OBVIOUS
  <2>2. QED
    BY <1>2, <2>1 DEF Before
<1> HIDE DEF c, B, C
<1>5. B(2) = r
  <2>1. 1 \in 1..n /\ 1 # n /\ 1 + 1 = 2 /\ Len(q[1]) = 0
    OBVIOUS
  <2>2. B(1) + Len(q[1]) = B(1 + 1)
    BY <1>1, <2>1
  <2>3. QED
    BY <1>3, <2>1, <2>2
<1>6. ASSUME NEW k \in 1..(n - 1) PROVE C(k) = B(k + 1)
  <2>1. CASE k = 1
    BY <1>3, <1>5, <2>1
  <2>2. CASE k > 1
    BY <1>4, <2>2
  <2>3. QED
    BY <2>1, <2>2
<1>7. ASSUME NEW k \in 1..(n - 1)
      PROVE  /\ \A j \in 1..Len(c[k]) : c[k][j] = C(k) + j
             /\ k > 1 /\ k <= m - 1 => c[k] # <<>>
             /\ C(k) + Len(c[k]) = IF k = n - 1 THEN p ELSE C(k + 1)
             /\ C(k) + Len(c[k]) <= p
  <2>1. k + 1 \in 1..n /\ c[k] = q[k + 1] /\ C(k) = B(k + 1)
    <3>1. k + 1 \in 1..n
      OBVIOUS
    <3>2. QED
      BY <1>2, <1>6, <3>1
  <2>2. k # n - 1 => k + 1 # n /\ C(k + 1) = B((k + 1) + 1)
    <3>1. k # n - 1 => k + 1 # n /\ k + 1 \in 1..(n - 1)
      OBVIOUS
    <3>2. QED
      BY <1>6, <3>1
  <2>3. k = n - 1 <=> k + 1 = n
    OBVIOUS
  <2>4. k > 1 /\ k <= m - 1 => k + 1 > 1 /\ k + 1 <= m
    OBVIOUS
  <2>5. /\ \A j \in 1..Len(q[k + 1]) : q[k + 1][j] = B(k + 1) + j
        /\ k + 1 > 1 /\ k + 1 <= m => q[k + 1] # <<>>
        /\ B(k + 1) + Len(q[k + 1]) = IF k + 1 = n THEN p ELSE B((k + 1) + 1)
        /\ B(k + 1) + Len(q[k + 1]) <= p
    BY <1>1, <2>1
  <2>6. QED
    BY <2>1, <2>2, <2>3, <2>4, <2>5
<1>8. Numbered(c, r, p, m - 1)
  <2>1. n - 1 \in Nat /\ m - 1 \in Int
    OBVIOUS
  <2>2. QED
    BY <1>2, <1>7, <2>1, NumberedFrom DEF C
<1>9. QED
  BY <1>8 DEF c

(***************************************************************************)
(* What each step does to the values.                                      *)
(***************************************************************************)

LEMMA RingsAre ==
  ASSUME TypeOK, RingsInPlace, NodesInPlace, ValuesInOrder
  PROVE  /\ Rings \in Seq(Seq(Nat)) /\ Len(Rings) = Len(Chain) /\ Len(Chain) \in Nat \ {0}
         /\ \A k \in 1..Len(Chain) : Rings[k] = Queue(buffer[Chain[k]], size)
         /\ received \in Seq(Nat) /\ Len(received) \in Nat /\ DOMAIN received = 1..Len(received)
         /\ pushed \in Nat
<1>1. Quota \in Nat
  BY SizesAssumption
<1>2. ASSUME NEW s \in Seq(1..Quota) PROVE s \in Seq(Nat)
  <2>1. Len(s) \in Nat /\ s = [k \in 1..Len(s) |-> s[k]] /\ \A k \in 1..Len(s) : s[k] \in 1..Quota
    BY LenProperties, ElementOfSeq
  <2>2. \A k \in 1..Len(s) : s[k] \in Nat
    BY <1>1, <2>1
  <2>3. QED
    BY <2>1, <2>2
<1>3. ASSUME NEW k \in 1..Len(Chain)
      PROVE  Queue(buffer[Chain[k]], size) \in Seq(Nat)
  <2>1. buffer[Chain[k]] \in BufferOf(1..Quota, size) /\ InOrder(buffer[Chain[k]], size)
    BY RingIs
  <2>2. Queue(buffer[Chain[k]], size) \in Seq(1..Quota)
    BY <2>1, QueueIs, SizesAssumption, NullAssumption
  <2>3. QED
    BY <1>2, <2>2
<1>4. DOMAIN Chain = 1..Len(Chain) /\ Len(Chain) \in Nat \ {0}
  BY ChainIs
<1>5. Rings = [k \in 1..Len(Chain) |-> Queue(buffer[Chain[k]], size)]
  BY <1>4 DEF Rings
<1>6. Rings \in Seq(Seq(Nat)) /\ Len(Rings) = Len(Chain)
  BY <1>3, <1>4, <1>5
<1>7. received \in Seq(Nat) /\ Len(received) \in Nat /\ DOMAIN received = 1..Len(received)
  <2>1. received \in Seq(1..Quota)
    BY DEF TypeOK
  <2>2. received \in Seq(Nat)
    BY <1>2, <2>1
  <2>3. QED
    BY <2>2, LenProperties
<1>8. pushed \in Nat
  BY SizesAssumption DEF TypeOK
<1>9. QED
  BY <1>4, <1>5, <1>6, <1>7, <1>8

\* No ring of the chain is touched.
LEMMA SameValues ==
  ASSUME ValuesInOrder, Chain' = Chain, UNCHANGED <<received, pushed>>, Passed' = Passed,
         writer'.pc = "switch" => writer.pc = "switch",
         \A b \in Range(Chain) : buffer'[b] = buffer[b]
  PROVE  ValuesInOrder'
<1>1. \A k \in DOMAIN Chain : buffer'[Chain[k]] = buffer[Chain[k]]
  BY DEF Range
<1>2. Rings' = Rings
  BY <1>1 DEF Rings
<1>3. Numbered(Rings, Len(received), pushed, Passed)'
  BY <1>2 DEF ValuesInOrder
<1>4. QED
  BY <1>1, <1>2, <1>3 DEF ValuesInOrder

\* One of them is.
LEMMA OneRing ==
  ASSUME TypeOK, RingsInPlace, NodesInPlace, ValuesInOrder, Chain' = Chain,
         NEW i \in 1..Len(Chain), NEW new, InOrder(new, size),
         buffer' = [buffer EXCEPT ![Chain[i]] = new]
  PROVE  /\ Rings' = [Rings EXCEPT ![i] = Queue(new, size)]
         /\ \A k \in DOMAIN Chain' : InOrder(buffer'[Chain'[k]], size)
<1>1. DOMAIN Chain = 1..Len(Chain)
  BY ChainIs
<1>2. \A k \in 1..Len(Chain) : Chain[k] \in Buffers
  BY RingIs
<1>3. buffer'[Chain[i]] = new /\ \A k \in 1..Len(Chain) : k # i => buffer'[Chain[k]] = buffer[Chain[k]]
  <2>1. \A k \in 1..Len(Chain) : k # i => Chain[k] # Chain[i]
    BY <1>1 DEF RingsInPlace, IsInjective
  <2>2. DOMAIN buffer = Buffers
    BY DEF TypeOK
  <2>3. QED
    BY <1>2, <2>1, <2>2
<1>4. Rings = [k \in 1..Len(Chain) |-> Queue(buffer[Chain[k]], size)]
  BY <1>1 DEF Rings
<1>5. Rings' = [k \in 1..Len(Chain) |-> Queue(buffer'[Chain[k]], size)]
  BY <1>1 DEF Rings
<1>6. Rings' = [Rings EXCEPT ![i] = Queue(new, size)]
  BY <1>3, <1>4, <1>5
<1>7. \A k \in 1..Len(Chain) : InOrder(buffer'[Chain[k]], size)
  BY <1>1, <1>3 DEF ValuesInOrder
<1>8. QED
  BY <1>1, <1>6, <1>7

\* The writer stores the next value behind the last one.
LEMMA StoreValues ==
  ASSUME TypeOK, MemoryInPlace, CachesInOrder, WriterKnows, ReaderKnows, ValuesInOrder, Store
  PROVE  ValuesInOrder'
<1> DEFINE n == Len(Chain)
           b == buffer[Chain[n]]
<1>1. RingsInPlace /\ NodesInPlace /\ Chain' = Chain
  BY OtherChain DEF MemoryInPlace
<1>2. /\ writer.pc = "store" /\ writer'.pc = "available" /\ received' = received
      /\ pushed' = pushed + 1 /\ pushed < Quota /\ IsAvailable(buffer[buf_w])
      /\ buffer' = [buffer EXCEPT ![buf_w] = Pushed(buffer[buf_w], pushed + 1)]
  BY DEF Store, ToWriter, TypeOK, WriterKnows
<1>3. n \in Nat \ {0} /\ n \in 1..n /\ Chain[n] = buf_w
  BY <1>1, <1>2, BothRings, ChainIs
<1>4. b \in BufferOf(1..Quota, size) /\ InOrder(b, size) /\ IsAvailable(b)
  BY <1>1, <1>2, <1>3, RingIs
<1>5. pushed + 1 \in 1..Quota
  BY <1>2, CachesAre DEF TypeOK
<1>6. InOrder(Pushed(b, pushed + 1), size) /\ Queue(Pushed(b, pushed + 1), size) = Append(Queue(b, size), pushed + 1)
  BY <1>4, <1>5, CachesAre, PushedRing
<1>7. buffer' = [buffer EXCEPT ![Chain[n]] = Pushed(b, pushed + 1)]
  BY <1>2, <1>3
<1>8. /\ Rings' = [Rings EXCEPT ![n] = Queue(Pushed(b, pushed + 1), size)]
      /\ \A k \in DOMAIN Chain' : InOrder(buffer'[Chain'[k]], size)
  BY <1>1, <1>3, <1>6, <1>7, OneRing
<1>9. /\ Rings \in Seq(Seq(Nat)) /\ Len(Rings) = n /\ Rings[n] = Queue(b, size)
      /\ Len(received) \in Nat /\ pushed \in Nat
  BY <1>1, <1>3, RingsAre
<1>10. Passed = n - 1 /\ Passed' = n - 1
  BY <1>1, <1>2 DEF Passed
<1>11. Numbered(Rings, Len(received), pushed, n - 1)
  BY <1>10 DEF ValuesInOrder
<1>12. Rings' = [Rings EXCEPT ![n] = Append(Rings[n], pushed + 1)]
  BY <1>6, <1>8, <1>9
<1> HIDE DEF n, b
<1>13. Numbered([Rings EXCEPT ![n] = Append(Rings[n], pushed + 1)], Len(received), pushed + 1, n - 1)
  BY <1>3, <1>9, <1>11, NumberedPush
<1>14. Numbered(Rings', Len(received'), pushed', Passed')
  BY <1>2, <1>10, <1>12, <1>13
<1>15. QED
  BY <1>2, <1>8, <1>14 DEF ValuesInOrder

\* What the reader takes is the next value.
LEMMA TakeDoes ==
  ASSUME TypeOK, MemoryInPlace, CachesInOrder, WriterKnows, ReaderKnows, ValuesInOrder, Take,
         ~IsEmpty(buffer[buf_r])
  PROVE  /\ received' = Append(received, Len(received) + 1) /\ Len(received) + 1 <= pushed
         /\ ValuesInOrder'
<1> DEFINE n == Len(Chain)
           b == buffer[Chain[1]]
           r == Len(received)
<1>1. RingsInPlace /\ NodesInPlace /\ Chain' = Chain
  BY OtherChain DEF MemoryInPlace
<1>2. /\ UNCHANGED <<writer, pushed>>
      /\ received' = Append(received, Top(buffer[buf_r]))
      /\ buffer' = [buffer EXCEPT ![buf_r] = Popped(buffer[buf_r])]
  BY DEF Take
<1>3. n \in Nat \ {0} /\ 1 \in 1..n /\ Chain[1] = buf_r
  BY <1>1, ChainIs
<1>4. b \in BufferOf(1..Quota, size) /\ InOrder(b, size) /\ ~IsEmpty(b)
  BY <1>1, <1>3, RingIs
<1>5. /\ InOrder(Popped(b), size) /\ Queue(b, size) # <<>>
      /\ Top(b) = Head(Queue(b, size)) /\ Queue(Popped(b), size) = Tail(Queue(b, size))
  BY <1>4, CachesAre, PoppedRing
<1>6. buffer' = [buffer EXCEPT ![Chain[1]] = Popped(b)] /\ received' = Append(received, Top(b))
  BY <1>2, <1>3
<1>7. /\ Rings' = [Rings EXCEPT ![1] = Queue(Popped(b), size)]
      /\ \A k \in DOMAIN Chain' : InOrder(buffer'[Chain'[k]], size)
  BY <1>1, <1>3, <1>5, <1>6, OneRing
<1>8. /\ Rings \in Seq(Seq(Nat)) /\ Len(Rings) = n /\ Rings[1] = Queue(b, size)
      /\ r \in Nat /\ pushed \in Nat /\ received \in Seq(Nat) /\ DOMAIN received = 1..r
  BY <1>1, <1>3, RingsAre
<1>9. Passed' = Passed /\ Passed \in Int
  BY <1>1, <1>2, <1>3 DEF Passed
<1>10. Numbered(Rings, r, pushed, Passed) /\ \A k \in DOMAIN received : received[k] = k
  BY DEF ValuesInOrder
<1>11. Rings' = [Rings EXCEPT ![1] = Tail(Rings[1])] /\ Rings[1] # <<>>
  BY <1>5, <1>7, <1>8
<1> HIDE DEF n, b, r
<1>12. /\ Head(Rings[1]) = r + 1 /\ r + 1 <= pushed
       /\ Numbered([Rings EXCEPT ![1] = Tail(Rings[1])], r + 1, pushed, Passed)
  BY <1>3, <1>8, <1>9, <1>10, <1>11, NumberedPop
<1>13. received' = Append(received, r + 1)
  BY <1>5, <1>6, <1>8, <1>12
<1>14. /\ Len(received') = r + 1 /\ DOMAIN received' = 1..(r + 1)
       /\ \A k \in DOMAIN received' : received'[k] = k
  <2>1. r + 1 \in Nat
    BY <1>8
  <2>2. /\ received' \in Seq(Nat) /\ Len(received') = r + 1 /\ received'[r + 1] = r + 1
        /\ \A k \in 1..r : received'[k] = received[k]
    BY <1>8, <1>13, <2>1, Appended DEF r
  <2>3. DOMAIN received' = 1..(r + 1)
    BY <2>2, LenProperties
  <2>4. QED
    BY <1>8, <1>10, <2>2, <2>3
<1>15. Numbered(Rings', Len(received'), pushed', Passed')
  BY <1>2, <1>9, <1>11, <1>12, <1>14
<1>16. writer'.pc = "switch" => Rings'[Len(Chain')] = <<>>
  <2> SUFFICES ASSUME writer.pc = "switch" PROVE Rings'[n] = <<>>
    BY <1>1, <1>2 DEF n
  <2>1. Rings[n] = <<>> /\ n > 1
    BY DEF ValuesInOrder, WriterKnows, n
  <2>2. n \in DOMAIN Rings /\ n # 1
    BY <1>3, <1>8, <2>1, LenProperties
  <2>3. QED
    BY <1>11, <2>1, <2>2
<1>17. ValuesInOrder'
  BY <1>7, <1>14, <1>15, <1>16 DEF ValuesInOrder
<1>18. QED
  BY <1>12, <1>13, <1>17 DEF r

\* The writer goes on to an empty ring.
LEMMA LinkValues ==
  ASSUME TypeOK, MemoryInPlace, CachesInOrder, WriterKnows, ReaderKnows, ValuesInOrder, Link
  PROVE  ValuesInOrder'
<1> DEFINE n == Len(Chain)
           t == writer.t
<1>1. RingsInPlace /\ NodesInPlace
  BY DEF MemoryInPlace
<1>2. Chain' = Append(Chain, t)
  BY <1>1, LinkChain
<1>3. /\ writer.pc = "link" /\ writer'.pc = "switch" /\ t \in Buffers
      /\ UNCHANGED <<buffer, received, pushed>>
  BY DEF Link, ToWriter, TypeOK, WriterKnows
<1>4. buffer[t] = EmptyBuffer(size)
  BY <1>1, <1>3 DEF RingsInPlace, RingsComing
<1>5. InOrder(EmptyBuffer(size), size) /\ Queue(EmptyBuffer(size), size) = <<>>
  BY CachesAre, EmptyRing
<1>6. n \in Nat \ {0} /\ Chain \in Seq(Buffers) /\ DOMAIN Chain = 1..n
  BY <1>1, ChainIs DEF RingsInPlace
<1>7. /\ Len(Chain') = n + 1 /\ Chain'[n + 1] = t /\ DOMAIN Chain' = 1..(n + 1)
      /\ \A k \in 1..n : Chain'[k] = Chain[k]
  <2>1. Chain' \in Seq(Buffers) /\ Len(Chain') = n + 1 /\ Chain'[n + 1] = t
        /\ \A k \in 1..n : Chain'[k] = Chain[k]
    BY <1>2, <1>3, <1>6, Appended
  <2>2. QED
    BY <2>1, LenProperties
<1>8. /\ Rings \in Seq(Seq(Nat)) /\ Len(Rings) = n
      /\ Len(received) \in Nat /\ pushed \in Nat
      /\ \A k \in 1..n : Rings[k] = Queue(buffer[Chain[k]], size)
  BY <1>1, RingsAre
<1> HIDE DEF n, t
<1>9. Rings' = Append(Rings, <<>>)
  <2> DEFINE c == Append(Rings, <<>>)
  <2>1. c \in Seq(Seq(Nat)) /\ Len(c) = n + 1 /\ c[n + 1] = <<>> /\ \A k \in 1..n : c[k] = Rings[k]
    <3>1. <<>> \in Seq(Nat)
      OBVIOUS
    <3>2. QED
      BY <1>8, <3>1, Appended
  <2> HIDE DEF c
  <2>2. Rings' = [k \in 1..(n + 1) |-> Queue(buffer[Chain'[k]], size)]
    BY <1>3, <1>7 DEF Rings
  <2>3. ASSUME NEW k \in 1..(n + 1)
        PROVE  Queue(buffer[Chain'[k]], size) = c[k]
    <3>1. CASE k = n + 1
      BY <1>4, <1>5, <1>7, <2>1, <3>1 DEF t
    <3>2. CASE k \in 1..n
      BY <1>7, <1>8, <2>1, <3>2
    <3>3. QED
      BY <1>6, <3>1, <3>2
  <2>4. c = [k \in 1..(n + 1) |-> c[k]]
    BY <2>1, LenProperties
  <2>5. QED
    BY <2>2, <2>3, <2>4 DEF c
<1>10. \A k \in DOMAIN Chain' : InOrder(buffer'[Chain'[k]], size)
  <2>1. \A k \in 1..n : InOrder(buffer[Chain[k]], size)
    BY <1>6 DEF ValuesInOrder
  <2>2. InOrder(buffer[t], size)
    BY <1>4, <1>5
  <2>3. \A k \in 1..(n + 1) : k = n + 1 \/ k \in 1..n
    BY <1>6
  <2>4. QED
    BY <1>3, <1>7, <2>1, <2>2, <2>3
<1>11. Passed = n /\ Passed' = n
  BY <1>3, <1>6, <1>7 DEF Passed, n
<1>12. Numbered(Rings, Len(received), pushed, n)
  BY <1>11 DEF ValuesInOrder
<1>13. Numbered(Append(Rings, <<>>), Len(received), pushed, n)
  BY <1>6, <1>8, <1>12, NumberedLink
<1>14. Numbered(Rings', Len(received'), pushed', Passed')
  BY <1>3, <1>9, <1>11, <1>13
<1>15. Rings'[Len(Chain')] = <<>>
  <2>1. <<>> \in Seq(Nat)
    OBVIOUS
  <2>2. QED
    BY <1>7, <1>8, <1>9, <2>1, Appended
<1>16. \A k \in DOMAIN received' : received'[k] = k
  BY <1>3 DEF ValuesInOrder
<1>17. QED
  BY <1>10, <1>14, <1>15, <1>16 DEF ValuesInOrder

\* The reader leaves an empty ring behind.
LEMMA DropRingValues ==
  ASSUME TypeOK, MemoryInPlace, CachesInOrder, WriterKnows, ReaderKnows, ValuesInOrder, DropRing
  PROVE  ValuesInOrder'
<1> DEFINE n == Len(Chain)
<1>1. RingsInPlace /\ NodesInPlace
  BY DEF MemoryInPlace
<1>2. Chain' = Tail(Chain)
  BY <1>1, DropRingChain
<1>3. /\ reader.pc = "oldring" /\ UNCHANGED <<writer, received, pushed>>
      /\ buffer[buf_r] = EmptyBuffer(size) /\ buf_r \in Buffers
      /\ \A b \in Buffers : b # buf_r => buffer'[b] = buffer[b]
  BY DEF DropRing, ReaderKnows, TypeOK
<1>4. n \in Nat /\ n > 1 /\ Chain[1] = buf_r /\ Chain \in Seq(Buffers) /\ IsInjective(Chain)
      /\ DOMAIN Chain = 1..n
  BY <1>1, <1>3, ChainIs DEF RingsInPlace
<1>5. /\ Len(Chain') = n - 1 /\ DOMAIN Chain' = 1..(n - 1)
      /\ \A k \in 1..(n - 1) : Chain'[k] = Chain[k + 1]
  <2>1. Chain # <<>>
    BY <1>4, EmptySeq
  <2>2. Chain' \in Seq(Buffers) /\ Len(Chain') = n - 1
        /\ \A k \in 1..(n - 1) : Chain'[k] = Chain[k + 1]
    BY <1>2, <1>4, <2>1, Shortened
  <2>3. QED
    BY <2>2, LenProperties
<1>6. /\ Rings \in Seq(Seq(Nat)) /\ Len(Rings) = n
      /\ Len(received) \in Nat /\ pushed \in Nat
      /\ \A k \in 1..n : Rings[k] = Queue(buffer[Chain[k]], size)
  BY <1>1, RingsAre
<1>7. Rings[1] = <<>>
  <2>1. Queue(EmptyBuffer(size), size) = <<>>
    BY CachesAre, EmptyRing
  <2>2. QED
    BY <1>3, <1>4, <1>6, <2>1
<1> HIDE DEF n
<1>8. ASSUME NEW k \in 1..(n - 1)
      PROVE  buffer'[Chain'[k]] = buffer[Chain[k + 1]] /\ k + 1 \in 1..n
  <2>1. k + 1 \in 1..n /\ k + 1 # 1 /\ 1 \in 1..n
    BY <1>4
  <2>2. Chain[k + 1] # buf_r /\ Chain[k + 1] \in Buffers
    <3>1. Chain[k + 1] # Chain[1]
      BY <1>4, <2>1 DEF IsInjective
    <3>2. Chain[k + 1] \in Buffers
      BY <1>4, <2>1, ElementOfSeq DEF n
    <3>3. QED
      BY <1>4, <3>1, <3>2
  <2>3. QED
    BY <1>3, <1>5, <2>1, <2>2
<1>9. Rings' = Tail(Rings)
  <2> DEFINE c == Tail(Rings)
  <2>1. c \in Seq(Seq(Nat)) /\ Len(c) = n - 1 /\ \A k \in 1..(n - 1) : c[k] = Rings[k + 1]
    <3>1. Rings # <<>>
      BY <1>4, <1>6, EmptySeq
    <3>2. QED
      BY <1>6, <3>1, Shortened
  <2> HIDE DEF c
  <2>2. Rings' = [k \in 1..(n - 1) |-> Queue(buffer'[Chain'[k]], size)]
    BY <1>5 DEF Rings
  <2>3. \A k \in 1..(n - 1) : Queue(buffer'[Chain'[k]], size) = c[k]
    BY <1>6, <1>8, <2>1
  <2>4. c = [k \in 1..(n - 1) |-> c[k]]
    BY <2>1, LenProperties
  <2>5. QED
    BY <2>2, <2>3, <2>4 DEF c
<1>10. \A k \in DOMAIN Chain' : InOrder(buffer'[Chain'[k]], size)
  BY <1>4, <1>5, <1>8 DEF ValuesInOrder
<1>11. Passed' = Passed - 1 /\ Passed \in Int
  BY <1>3, <1>4, <1>5 DEF Passed, n
<1>12. Numbered(Rings, Len(received), pushed, Passed)
  BY DEF ValuesInOrder
<1>13. Numbered(Tail(Rings), Len(received), pushed, Passed - 1)
  BY <1>4, <1>6, <1>7, <1>11, <1>12, NumberedDrop
<1>14. Numbered(Rings', Len(received'), pushed', Passed')
  BY <1>3, <1>9, <1>11, <1>13
<1>15. writer'.pc = "switch" => Rings'[Len(Chain')] = <<>>
  <2> SUFFICES ASSUME writer.pc = "switch" PROVE Rings'[n - 1] = <<>>
    BY <1>3, <1>5
  <2>1. Rings[n] = <<>>
    BY DEF ValuesInOrder, n
  <2>2. Rings # <<>> /\ n - 1 \in 1..(n - 1) /\ (n - 1) + 1 = n
    BY <1>4, <1>6, EmptySeq
  <2>3. Tail(Rings)[n - 1] = Rings[n]
    BY <1>6, <2>2, Shortened
  <2>4. QED
    BY <1>9, <2>1, <2>3
<1>16. \A k \in DOMAIN received' : received'[k] = k
  BY <1>3 DEF ValuesInOrder
<1>17. QED
  BY <1>10, <1>14, <1>15, <1>16 DEF ValuesInOrder

\* Reset finds its ring empty already.
LEMMA ResetValues ==
  ASSUME TypeOK, MemoryInPlace, CachesInOrder, WriterKnows, ReaderKnows, ValuesInOrder, Reset
  PROVE  ValuesInOrder'
<1>1. RingsInPlace /\ NodesInPlace /\ Chain' = Chain
  BY OtherChain DEF MemoryInPlace
<1>2. /\ reader.pc = "release" /\ UNCHANGED <<writer, received, pushed>>
      /\ buffer' = [buffer EXCEPT ![buf_r] = EmptyBuffer(size)] /\ IsEmpty(buffer[buf_r])
  BY DEF Reset, ReaderKnows
<1>3. 1 \in 1..Len(Chain) /\ Chain[1] = buf_r
  BY <1>1, ChainIs
<1>4. InOrder(EmptyBuffer(size), size) /\ Queue(EmptyBuffer(size), size) = <<>>
  BY CachesAre, EmptyRing
<1>5. buffer' = [buffer EXCEPT ![Chain[1]] = EmptyBuffer(size)]
  BY <1>2, <1>3
<1>6. /\ Rings' = [Rings EXCEPT ![1] = Queue(EmptyBuffer(size), size)]
      /\ \A k \in DOMAIN Chain' : InOrder(buffer'[Chain'[k]], size)
  BY <1>1, <1>3, <1>4, <1>5, OneRing
<1>7. Rings[1] = <<>> /\ Rings \in Seq(Seq(Nat))
  <2>1. buffer[Chain[1]] \in BufferOf(1..Quota, size) /\ InOrder(buffer[Chain[1]], size)
    BY <1>1, <1>3, RingIs
  <2>2. Queue(buffer[Chain[1]], size) = <<>>
    BY <1>2, <1>3, <2>1, CachesAre, QueueIs
  <2>3. QED
    BY <1>1, <1>3, <2>2, RingsAre
<1>8. Rings' = Rings
  BY <1>4, <1>6, <1>7
<1>9. Passed' = Passed
  BY <1>1, <1>2 DEF Passed
<1>10. Numbered(Rings', Len(received'), pushed', Passed')
  BY <1>2, <1>8, <1>9 DEF ValuesInOrder
<1>11. QED
  BY <1>1, <1>2, <1>6, <1>8, <1>10 DEF ValuesInOrder

\* The other steps leave the values where they are.
LEMMA OtherValues ==
  ASSUME TypeOK, MemoryInPlace, CachesInOrder, WriterKnows, ReaderKnows, ValuesInOrder,
         \/ FindsRoom \/ FindsNoRoom \/ NextW \/ AllocNode \/ Switch
         \/ LooksAtRing \/ Compare \/ LooksAgain \/ NextR \/ DropNode
         \/ Take /\ IsEmpty(buffer[buf_r])
  PROVE  ValuesInOrder'
<1>1. RingsInPlace /\ NodesInPlace /\ Chain' = Chain
  BY OtherChain DEF MemoryInPlace
<1>2. UNCHANGED <<received, pushed>>
  BY DEF FindsRoom, FindsNoRoom, NextW, AllocNode, Switch, LooksAtRing, Compare, LooksAgain,
         NextR, DropNode, Take
<1>3. \A b \in Range(Chain) : buffer'[b] = buffer[b]
  <2>1. CASE NextW
    <3>1. PICK b \in Buffers :
            b \notin Range(Chain) /\ buffer' = [buffer EXCEPT ![b] = EmptyBuffer(size)]
      BY <1>1, <2>1, NextWDoes
    <3>2. QED
      BY <3>1 DEF TypeOK
  <2>2. CASE ~NextW
    BY <2>2 DEF FindsRoom, FindsNoRoom, AllocNode, Switch, LooksAtRing, Compare, LooksAgain,
                NextR, DropNode, Take
  <2>3. QED
    BY <2>1, <2>2
<1>4. CASE ~FindsNoRoom
  <2>1. /\ writer.pc \in {"next_w", "allocnode", "link"}
             <=> writer'.pc \in {"next_w", "allocnode", "link"}
        /\ writer'.pc = "switch" => writer.pc = "switch"
    <3>1. CASE FindsRoom
      BY <3>1 DEF FindsRoom, ToWriter, TypeOK
    <3>2. CASE NextW
      <4>1. writer.pc = "next_w" /\ writer'.pc = "allocnode"
        BY <1>1, <3>2, NextWDoes DEF NextW, TypeOK
      <4>2. QED
        BY <4>1
    <3>3. CASE AllocNode
      <4>1. writer.pc = "allocnode" /\ writer'.pc = "link"
        BY <1>1, <3>3, AllocNodeDoes DEF AllocNode, TypeOK
      <4>2. QED
        BY <4>1
    <3>4. CASE Switch
      BY <3>4 DEF Switch, ToWriter, TypeOK
    <3>5. CASE LooksAtRing \/ Compare \/ LooksAgain \/ NextR \/ DropNode \/ Take
      BY <3>5 DEF LooksAtRing, Compare, LooksAgain, NextR, DropNode, Take
    <3>6. QED
      BY <1>4, <3>1, <3>2, <3>3, <3>4, <3>5
  <2>2. Passed' = Passed
    BY <1>1, <2>1 DEF Passed
  <2>3. QED
    BY <1>1, <1>2, <1>3, <2>1, <2>2, SameValues
<1>5. CASE FindsNoRoom
  <2> DEFINE n == Len(Chain)
  <2>1. /\ writer.pc = "available" /\ writer'.pc = "next_w" /\ ~IsAvailable(buffer[buf_w])
        /\ buffer' = buffer
    BY <1>5 DEF FindsNoRoom, ToWriter, TypeOK
  <2>2. n \in 1..n /\ n \in Nat /\ Chain[n] = buf_w
    BY <1>1, <2>1, BothRings, ChainIs
  <2>3. buffer[buf_w] \in BufferOf(1..Quota, size) /\ InOrder(buffer[buf_w], size)
    BY <1>1, <2>2, RingIs
  <2>4. Queue(buffer[buf_w], size) # <<>>
    <3>1. Held(buffer[buf_w], size) \in 0..size /\ ~(Held(buffer[buf_w], size) < size)
          /\ Len(Queue(buffer[buf_w], size)) = Held(buffer[buf_w], size)
      BY <2>1, <2>3, CachesAre, QueueIs
    <3>2. Len(Queue(buffer[buf_w], size)) # 0
      BY <3>1, SizesAssumption
    <3>3. QED
      BY <3>2
  <2>5. Rings[n] # <<>> /\ Len(Rings) = n /\ DOMAIN Rings = 1..n
    BY <1>1, <2>2, <2>4, RingsAre, LenProperties
  <2>6. Passed = n - 1 /\ Passed' = n
    BY <1>1, <2>1 DEF Passed
  <2>7. Numbered(Rings, Len(received), pushed, n - 1)
    BY <2>6 DEF ValuesInOrder
  <2> HIDE DEF n
  <2>8. \A k \in 1..n : k <= n => k = n \/ k <= n - 1
    BY <2>2
  <2>9. Numbered(Rings, Len(received), pushed, n)
    BY <2>5, <2>7, <2>8 DEF Numbered
  <2>10. Rings' = Rings
    BY <1>1, <2>1 DEF Rings
  <2>11. Numbered(Rings', Len(received'), pushed', Passed')
    BY <1>2, <2>6, <2>9, <2>10
  <2>12. QED
    BY <1>1, <1>2, <2>1, <2>11 DEF ValuesInOrder
<1>6. QED
  BY <1>4, <1>5

LEMMA ValuesStep ==
  ASSUME TypeOK, MemoryInPlace, CachesInOrder, WriterKnows, ReaderKnows, ValuesInOrder, Next
  PROVE  ValuesInOrder'
<1>1. CASE \/ FindsRoom \/ FindsNoRoom \/ NextW \/ AllocNode \/ Switch
           \/ LooksAtRing \/ Compare \/ LooksAgain \/ NextR \/ DropNode
           \/ Take /\ IsEmpty(buffer[buf_r])
  BY <1>1, OtherValues
<1>2. CASE Store
  BY <1>2, StoreValues
<1>3. CASE Take /\ ~IsEmpty(buffer[buf_r])
  BY <1>3, TakeDoes
<1>4. CASE Link
  BY <1>4, LinkValues
<1>5. CASE DropRing
  BY <1>5, DropRingValues
<1>6. CASE Reset
  BY <1>6, ResetValues
<1>7. QED
  BY <1>1, <1>2, <1>3, <1>4, <1>5, <1>6 DEF Next, Push, Pop

(***************************************************************************)
(* The invariant, and what follows.                                        *)
(***************************************************************************)

LEMMA InitHolds ==
  ASSUME Init
  PROVE  IInv
<1>1. /\ buf_r \in Buffers /\ buf_w = buf_r /\ head \in Nodes /\ tail = head
      /\ list = <<head>> /\ bufcache = EmptyBuffer(CacheSize) /\ cache = EmptyBuffer(CacheSize)
      /\ writer = [pc |-> "available", t |-> Null, n |-> Null]
      /\ reader = [pc |-> "empty", tmp |-> Null, n |-> Null]
      /\ pushed = 0 /\ received = <<>> /\ fixedsize \in BOOLEAN
  BY AddressesAssumption DEF Init
<1>2. /\ buffer = [b \in Buffers |-> IF b = buf_r THEN EmptyBuffer(size) ELSE Freed]
      /\ node = [n \in Nodes |-> IF n = head THEN [data |-> Null, next |-> Null] ELSE Freed]
  BY DEF Init
<1>3. \A V : /\ EmptyBuffer(size) \in BufferOf(V, size)
             /\ EmptyBuffer(CacheSize) \in BufferOf(V, CacheSize)
  BY EmptyRing, SizesAssumption
<1>4. /\ InOrder(EmptyBuffer(size), size) /\ Queue(EmptyBuffer(size), size) = <<>>
      /\ InOrder(EmptyBuffer(CacheSize), CacheSize)
      /\ Queue(EmptyBuffer(CacheSize), CacheSize) = <<>>
  BY EmptyRing, SizesAssumption
<1>5. TypeOK
  <2>1. [data |-> Null, next |-> Null] \in ListNode
    BY DEF ListNode
  <2>2. node \in [Nodes -> ListNode \cup {Freed}]
    BY <1>2, <2>1
  <2>3. buffer \in [Buffers -> BufferOf(1..Quota, size) \cup {Freed}]
    BY <1>2, <1>3
  <2>4. list \in Seq(Nodes) /\ received \in Seq(1..Quota) /\ pushed \in 0..Quota
    BY <1>1, SizesAssumption
  <2>5. QED
    BY <1>1, <1>3, <2>2, <2>3, <2>4 DEF TypeOK
<1>6. Contents(bufcache) = {} /\ Contents(cache) = {}
  BY <1>1 DEF Contents, EmptyBuffer
<1>7. Chain = <<buf_r>>
  <2>1. Ahead = <<buf_r>>
    BY <1>1 DEF Ahead
  <2>2. Listed = <<>>
    BY <1>1 DEF Listed
  <2>3. QED
    BY <2>1, <2>2 DEF Chain
<1>8. /\ Chain \in Seq(Buffers) /\ Len(Chain) = 1 /\ Chain[1] = buf_r /\ DOMAIN Chain = {1}
      /\ Range(Chain) = {buf_r} /\ IsInjective(Chain)
  <2>1. Chain \in Seq(Buffers) /\ Len(Chain) = 1 /\ Chain[1] = buf_r /\ DOMAIN Chain = {1}
    BY <1>1, <1>7
  <2>2. QED
    BY <2>1 DEF Range, IsInjective
<1>9. /\ list # <<>> /\ Len(list) = 1 /\ list[1] = head /\ DOMAIN list = {1}
      /\ Range(list) = {head} /\ IsInjective(list)
  <2>1. list # <<>> /\ Len(list) = 1 /\ list[1] = head /\ DOMAIN list = {1}
    BY <1>1
  <2>2. QED
    BY <2>1 DEF Range, IsInjective
<1>10. RingsInPlace
  <2>1. RingsComing = {}
    BY <1>1 DEF RingsComing
  <2>2. \A b \in Buffers : IsFree(buffer, b) <=> b \notin {buf_r}
    BY <1>1, <1>2, <1>3, FreedIsNone DEF IsFree
  <2>3. QED
    BY <1>1, <1>6, <1>8, <2>1, <2>2 DEF RingsInPlace
<1>11. NodesInPlace
  <2>1. NodesApart = {}
    BY <1>1 DEF NodesApart
  <2>2. node[head] = [data |-> Null, next |-> Null] /\ [data |-> Null, next |-> Null] \in ListNode
    BY <1>1, <1>2 DEF ListNode
  <2>3. \A n \in Nodes : IsFree(node, n) <=> n \notin {head}
    BY <1>1, <1>2, <2>2, FreedIsNone DEF IsFree
  <2>4. ListLinked
    BY <1>1, <1>9, <2>2 DEF ListLinked
  <2>5. QED
    BY <1>6, <1>9, <2>1, <2>3, <2>4 DEF NodesInPlace
<1>12. CachesInOrder
  BY <1>1, <1>4 DEF CachesInOrder, IsInjective
<1>13. WriterKnows /\ ReaderKnows
  BY <1>1 DEF WriterKnows, ReaderKnows
<1>14. ValuesInOrder
  <2>1. buffer[Chain[1]] = EmptyBuffer(size)
    BY <1>1, <1>2, <1>8
  <2>2. Rings = [k \in {1} |-> <<>>]
    BY <1>4, <1>8, <2>1 DEF Rings
  <2>3. DOMAIN Rings = {1} /\ Rings[1] = <<>> /\ Len(Rings) = 1
    <3>1. Rings = << <<>> >>
      BY <2>2
    <3>2. QED
      BY <3>1
  <2>4. Len(received) = 0 /\ pushed = 0 /\ DOMAIN received = {} /\ Passed = 0
    BY <1>1, <1>8 DEF Passed
  <2>5. Before(Rings, 0, 0, 1) = 0
    BY DEF Before
  <2>6. Numbered(Rings, 0, 0, 0)
    BY <2>3, <2>5 DEF Numbered
  <2>7. QED
    BY <1>1, <1>4, <1>8, <2>1, <2>4, <2>6 DEF ValuesInOrder
<1>15. QED
  BY <1>5, <1>10, <1>11, <1>12, <1>13, <1>14 DEF IInv, MemoryInPlace

LEMMA SameIInv ==
  ASSUME IInv, UNCHANGED vars
  PROVE  IInv'
<1>1. UNCHANGED <<fixedsize, buffer, buf_r, buf_w, bufcache, node, head, tail, cache, list,
                  writer, reader, pushed, received>>
  BY DEF vars, pool
<1>2. Chain' = Chain
  BY <1>1 DEF Chain, Ahead, Listed
<1>3. TypeOK'
  BY <1>1 DEF IInv, TypeOK
<1>4. RingsInPlace'
  BY <1>1, <1>2 DEF IInv, MemoryInPlace, RingsInPlace, RingsComing, IsFree, Contents, IsInjective, Range
<1>5. NodesInPlace'
  <2>1. NodesApart' = NodesApart
    BY <1>1 DEF NodesApart
  <2>2. QED
    BY <1>1, <2>1, SameNodes DEF IInv, MemoryInPlace
<1>6. CachesInOrder'
  BY <1>1 DEF IInv, CachesInOrder
<1>7. WriterKnows' /\ ReaderKnows'
  BY <1>1, <1>2 DEF IInv, WriterKnows, ReaderKnows
<1>8. ValuesInOrder'
  <2>1. Rings' = Rings /\ Passed' = Passed
    BY <1>1, <1>2 DEF Rings, Passed
  <2>2. QED
    BY <1>1, <1>2, <2>1 DEF IInv, ValuesInOrder
<1>9. QED
  BY <1>3, <1>4, <1>5, <1>6, <1>7, <1>8 DEF IInv, MemoryInPlace

\* The inductive invariant: the memory of push and pop is in order, each of the two
\* threads is where it believes to be, and the values are in the rings in their order.
THEOREM Invariance == Spec => []IInv
<1>1. Init => IInv
  BY InitHolds
<1>2. IInv /\ [Next]_vars => IInv'
  <2> SUFFICES ASSUME IInv, [Next]_vars PROVE IInv'
    OBVIOUS
  <2>1. CASE Next
    <3>1. TypeOK' /\ RingsInPlace' /\ NodesInPlace'
      BY <2>1, TypeStep, RingsStep, NodesStep DEF IInv
    <3>2. CachesInOrder' /\ WriterKnows' /\ ReaderKnows' /\ ValuesInOrder'
      BY <2>1, CachesStep, WriterStep, ReaderStep, ValuesStep DEF IInv
    <3>3. QED
      BY <3>1, <3>2 DEF IInv, MemoryInPlace
  <2>2. CASE UNCHANGED vars
    BY <2>2, SameIInv
  <2>3. QED
    BY <2>1, <2>2
<1>3. QED
  BY <1>1, <1>2, PTL DEF Spec

\* Every variable keeps its type.
THEOREM TypeCorrect == Spec => []TypeOK
BY Invariance, PTL DEF IInv

\* Neither a ring nor a list node is lost, used twice, or used after free().
THEOREM MemoryStaysInPlace == Spec => []MemoryInPlace
BY Invariance, PTL DEF IInv

\* The items between the reader, who has taken r, and the writer, who has stored p.
Between(r, p) == [k \in 1..(p - r) |-> <<1, r + k>>]

Items(seq) == [k \in DOMAIN seq |-> <<1, seq[k]>>]

LEMMA BetweenGrows ==
  ASSUME NEW r \in Nat, NEW p \in Nat, r <= p
  PROVE  /\ Append(Between(r, p), <<1, p + 1>>) = Between(r, p + 1)
         /\ r < p => /\ Between(r, p) # <<>> /\ Head(Between(r, p)) = <<1, r + 1>>
                     /\ Tail(Between(r, p)) = Between(r + 1, p)
<1> DEFINE P == {1} \X Nat
           q == Between(r, p)
           n == p - r
<1>1. n \in Nat /\ q \in Seq(P) /\ Len(q) = n /\ \A k \in 1..n : q[k] = <<1, r + k>>
  BY DEF Between
<1> HIDE DEF q
<1>2. Append(q, <<1, p + 1>>) = Between(r, p + 1)
  <2> DEFINE a == Append(q, <<1, p + 1>>)
             b == Between(r, p + 1)
  <2>1. <<1, p + 1>> \in P
    OBVIOUS
  <2>2. /\ a \in Seq(P) /\ Len(a) = n + 1 /\ a[n + 1] = <<1, p + 1>>
        /\ \A k \in 1..n : a[k] = q[k]
    BY <1>1, <2>1, Appended
  <2>3. b \in Seq(P) /\ Len(b) = n + 1 /\ \A k \in 1..(n + 1) : b[k] = <<1, r + k>>
    <3>1. (p + 1) - r = n + 1
      OBVIOUS
    <3>2. b = [k \in 1..(n + 1) |-> <<1, r + k>>]
      BY <3>1 DEF Between
    <3> HIDE DEF b
    <3>3. QED
      BY <1>1, <3>2
  <2> HIDE DEF a, b
  <2>4. ASSUME NEW k \in 1..(n + 1) PROVE a[k] = b[k]
    <3>1. CASE k = n + 1
      <4>1. r + k = p + 1
        BY <3>1
      <4>2. b[k] = <<1, p + 1>>
        BY <2>3, <4>1
      <4>3. QED
        BY <2>2, <3>1, <4>2
    <3>2. CASE k \in 1..n
      BY <1>1, <2>2, <2>3, <3>2
    <3>3. QED
      BY <1>1, <3>1, <3>2
  <2>5. a = b
    BY <2>2, <2>3, <2>4, SeqEqual
  <2>6. QED
    BY <2>5 DEF a, b
<1>3. ASSUME r < p
      PROVE  q # <<>> /\ Head(q) = <<1, r + 1>> /\ Tail(q) = Between(r + 1, p)
  <2> DEFINE a == Tail(q)
             b == Between(r + 1, p)
  <2>1. q # <<>> /\ 1 \in 1..n
    BY <1>1, <1>3
  <2>2. /\ a \in Seq(P) /\ Len(a) = n - 1 /\ Head(q) = q[1]
        /\ \A k \in 1..(n - 1) : a[k] = q[k + 1]
    BY <1>1, <2>1, Shortened
  <2>3. b \in Seq(P) /\ Len(b) = n - 1 /\ \A k \in 1..(n - 1) : b[k] = <<1, (r + 1) + k>>
    <3>1. p - (r + 1) = n - 1 /\ n - 1 \in Nat
      BY <1>3
    <3>2. b = [k \in 1..(n - 1) |-> <<1, (r + 1) + k>>]
      BY <3>1 DEF Between
    <3> HIDE DEF b
    <3>3. QED
      BY <3>1, <3>2
  <2> HIDE DEF a, b
  <2>4. ASSUME NEW k \in 1..(n - 1) PROVE a[k] = b[k]
    <3>1. k + 1 \in 1..n /\ r + (k + 1) = (r + 1) + k
      OBVIOUS
    <3>2. a[k] = q[k + 1] /\ q[k + 1] = <<1, r + (k + 1)>>
      BY <1>1, <2>2, <3>1
    <3>3. QED
      BY <2>3, <3>1, <3>2
  <2>5. a = b
    BY <2>2, <2>3, <2>4, SeqEqual
  <2>6. Head(q) = <<1, r + 1>>
    BY <1>1, <2>1, <2>2
  <2>7. QED
    BY <2>1, <2>5, <2>6 DEF a, b
<1>4. QED
  BY <1>2, <1>3 DEF q

LEMMA ItemsGrow ==
  ASSUME NEW s \in Seq(Nat), NEW v \in Nat
  PROVE  Items(Append(s, v)) = Append(Items(s), <<1, v>>)
<1> DEFINE P == {1} \X Nat
           n == Len(s)
           t == Append(s, v)
           a == Items(t)
           b == Append(Items(s), <<1, v>>)
<1>1. n \in Nat /\ DOMAIN s = 1..n /\ \A k \in 1..n : s[k] \in Nat
  BY LenProperties, ElementOfSeq
<1>2. /\ t \in Seq(Nat) /\ Len(t) = n + 1 /\ t[n + 1] = v /\ \A k \in 1..n : t[k] = s[k]
  BY Appended
<1>3. DOMAIN t = 1..(n + 1)
  BY <1>2, LenProperties
<1>4. Items(s) \in Seq(P) /\ Len(Items(s)) = n /\ \A k \in 1..n : Items(s)[k] = <<1, s[k]>>
  BY <1>1 DEF Items
<1>5. /\ b \in Seq(P) /\ Len(b) = n + 1 /\ b[n + 1] = <<1, v>>
      /\ \A k \in 1..n : b[k] = Items(s)[k]
  <2>1. <<1, v>> \in P
    OBVIOUS
  <2>2. QED
    BY <1>4, <2>1, Appended
<1>6. a = [k \in 1..(n + 1) |-> <<1, t[k]>>]
  BY <1>3 DEF Items
<1> HIDE DEF t, a, b, n
<1>7. \A k \in 1..(n + 1) : b[k] = <<1, t[k]>>
  <2>1. \A k \in 1..(n + 1) : k = n + 1 \/ k \in 1..n
    BY <1>1
  <2>2. QED
    BY <1>2, <1>4, <1>5, <2>1
<1>8. b = [k \in 1..(n + 1) |-> b[k]]
  BY <1>5, LenProperties
<1>9. a = b
  BY <1>6, <1>7, <1>8
<1>10. QED
  BY <1>9 DEF t, a, b

\* What the promise is about.
LEMMA PromiseIs ==
  ASSUME IInv
  PROVE  /\ Len(received) \in Nat /\ pushed \in Nat /\ Len(received) <= pushed
         /\ received \in Seq(Nat)
<1>1. TypeOK /\ RingsInPlace /\ NodesInPlace /\ ValuesInOrder
  BY DEF IInv, MemoryInPlace
<1>2. /\ Rings \in Seq(Seq(Nat)) /\ Len(Rings) \in Nat \ {0}
      /\ received \in Seq(Nat) /\ Len(received) \in Nat /\ pushed \in Nat
  BY <1>1, RingsAre
<1>3. 1 \in 1..Len(Rings)
  BY <1>2
<1>4. 1 \in DOMAIN Rings /\ Len(Rings[1]) \in Nat
  BY <1>2, <1>3, BeforeIs
<1>5. Before(Rings, Len(received), pushed, 1) + Len(Rings[1]) <= pushed
  BY <1>1, <1>4 DEF ValuesInOrder, Numbered
<1>6. Before(Rings, Len(received), pushed, 1) = Len(received)
  BY DEF Before
<1>7. QED
  BY <1>2, <1>4, <1>5, <1>6

\* The values come out once each, in the order they went in: Store is the sending, and a
\* Take that finds a value is the receiving.
THEOREM Refinement == Spec => ImplementsFifo
<1> DEFINE sent == [p \in {1} |-> pushed]
           queue == Between(Len(received), pushed)
           taken == [c \in {1} |-> Items(received)]
<1>1. Init => Promise!Init
  <2> SUFFICES ASSUME Init PROVE Promise!Init
    OBVIOUS
  <2>1. pushed = 0 /\ received = <<>>
    BY DEF Init
  <2>2. [k \in 1..(pushed - Len(received)) |-> <<1, Len(received) + k>>] = <<>>
    BY <2>1
  <2>3. [k \in DOMAIN received |-> <<1, received[k]>>] = <<>>
    BY <2>1
  <2>4. QED
    BY <2>1, <2>2, <2>3 DEF Promise!Init
<1>2. IInv /\ [Next]_vars => [Promise!Next]_<<sent, queue, taken>>
  <2> SUFFICES ASSUME IInv, [Next]_vars
               PROVE  Promise!Next \/ UNCHANGED <<sent, queue, taken>>
    OBVIOUS
  <2> USE DEF IInv
  <2>1. /\ Len(received) \in Nat /\ pushed \in Nat /\ Len(received) <= pushed
        /\ received \in Seq(Nat)
    BY PromiseIs
  <2>2. CASE UNCHANGED <<pushed, received>>
    BY <2>2
  <2>3. CASE Store
    <3>1. pushed' = pushed + 1 /\ received' = received /\ pushed < Quota
      BY <2>3 DEF Store, WriterKnows
    <3>2. queue' = Append(queue, <<1, pushed + 1>>)
      BY <2>1, <3>1, BetweenGrows
    <3>3. sent' = [sent EXCEPT ![1] = @ + 1] /\ sent'[1] = pushed + 1 /\ sent[1] < Quota
      BY <3>1
    <3>4. taken' = taken
      BY <3>1
    <3>5. Promise!Send(1)
      BY <3>2, <3>3, <3>4 DEF Promise!Send, Between, Items
    <3>6. QED
      BY <3>5 DEF Promise!Next
  <2>4. CASE Take /\ ~IsEmpty(buffer[buf_r])
    <3>1. received' = Append(received, Len(received) + 1) /\ Len(received) + 1 <= pushed
      BY <2>4, TakeDoes
    <3>2. pushed' = pushed /\ Len(received') = Len(received) + 1
      BY <2>1, <2>4, <3>1, Appended DEF Take
    <3>3. queue # <<>> /\ Head(queue) = <<1, Len(received) + 1>> /\ queue' = Tail(queue)
      <4>1. Len(received) < pushed
        BY <2>1, <3>1
      <4>2. queue' = Between(Len(received) + 1, pushed)
        BY <3>2
      <4>3. QED
        BY <2>1, <4>1, <4>2, BetweenGrows
    <3>4. Items(received)' = Append(Items(received), <<1, Len(received) + 1>>)
      BY <2>1, <3>1, ItemsGrow
    <3>5. taken' = [taken EXCEPT ![1] = Append(@, Head(queue))]
      BY <3>3, <3>4
    <3>6. sent' = sent
      BY <3>2
    <3>7. Promise!Receive(1)
      BY <3>3, <3>5, <3>6 DEF Promise!Receive, Between, Items
    <3>8. QED
      BY <3>7 DEF Promise!Next
  <2>5. QED
    BY <2>2, <2>3, <2>4 DEF Next, Push, Pop, FindsRoom, FindsNoRoom, NextW, AllocNode, Link, Switch,
         LooksAtRing, Compare, LooksAgain, NextR, DropNode, Reset, DropRing, Take, vars
<1>3. QED
  BY <1>1, <1>2, Invariance, PTL DEF Spec, ImplementsFifo, Promise!Spec, Between, Items

============================================================================
