-------------------------- MODULE UnboundedBuffer ---------------------------
(***************************************************************************)
(* uSWSR_Ptr_Buffer of ff/ubuffer.hpp, the queue in front of each worker   *)
(* of FastFlow: one thread pushes, one pops, without a lock.  It is a      *)
(* chain of rings.  When the ring the writer fills (buf_w) is full it      *)
(* takes another, from the cache or from malloc, and hands it to the       *)
(* reader through a list (dynqueue of ff/dynqueue.hpp).  The reader goes   *)
(* on to the next ring of the list once its own (buf_r) is empty and will  *)
(* stay so, and puts the old one in the cache.  The list itself keeps a    *)
(* cache of nodes that goes the other way round.  With fixedsize, as for   *)
(* the workers of ParallelFor, there is one ring and push may fail.        *)
(*                                                                         *)
(* Each access to what the other thread writes is a step of its own.  Not  *)
(* here: in_use_buffers, which only length() reads.                        *)
(***************************************************************************)
EXTENDS SwsrBuffer, Functions

CONSTANTS
  size,                         \* slots of a ring
  CacheSize,                    \* CACHE_SIZE: slots of either cache
  Buffers, Nodes,               \* addresses of rings and of list nodes
  Quota                         \* how many values the writer pushes: 1, 2, ...

ASSUME SizesAssumption == size \in Nat \ {0} /\ CacheSize \in Nat \ {0} /\ Quota \in Nat
ASSUME AddressesAssumption == Buffers # {} /\ Nodes # {}
ASSUME NullAssumption == Null \notin Buffers /\ Null \notin Nodes /\ Null \notin 1..Quota

VARIABLES
  fixedsize,                    \* given to the constructor
  buffer,                       \* the rings in memory, or Freed
  buf_r, buf_w,
  bufcache,                     \* BufferPool::bufcache, a ring of rings
  node, head, tail,             \* BufferPool::inuse: list nodes, or Freed
  cache,                        \* the list's own cache, a ring of nodes
  list,                         \* history: the list nodes from head to tail
  writer, reader,               \* pc and locals of push and pop
  pushed,                       \* how many pushes have returned true
  received                      \* history: the values popped

pool == <<bufcache, node, head, tail, cache, list>>
vars == <<fixedsize, buffer, buf_r, buf_w, pool, writer, reader, pushed, received>>

Freed == [freed |-> TRUE]

IsFree(memory, a) == memory[a] = Freed

\* malloc: one free address is as good as another. Where none is left it does not
\* return: the bound on memory.
Malloc(memory) == CHOOSE a \in DOMAIN memory : IsFree(memory, a)
Left(memory) == \E a \in DOMAIN memory : IsFree(memory, a)
-----------------------------------------------------------------------------
Init ==
  /\ fixedsize \in BOOLEAN
  /\ buf_r = CHOOSE b \in Buffers : TRUE
  /\ buf_w = buf_r
  /\ buffer = [b \in Buffers |-> IF b = buf_r THEN EmptyBuffer(size) ELSE Freed]
  /\ bufcache = EmptyBuffer(CacheSize)
  /\ head = CHOOSE n \in Nodes : TRUE
  /\ tail = head
  /\ node = [n \in Nodes |-> IF n = head THEN [data |-> Null, next |-> Null] ELSE Freed]
  /\ cache = EmptyBuffer(CacheSize)
  /\ list = <<head>>
  /\ writer = [pc |-> "available", t |-> Null, n |-> Null]
  /\ reader = [pc |-> "empty", tmp |-> Null, n |-> Null]
  /\ pushed = 0
  /\ received = <<>>

ToWriter(pc) == writer' = [writer EXCEPT !.pc = pc]
ToReader(pc) == reader' = [reader EXCEPT !.pc = pc]
-----------------------------------------------------------------------------
(***************************************************************************)
(* push.  A push that fails is tried again by its caller, from the start.  *)
(***************************************************************************)
FindsRoom ==
  /\ writer.pc = "available"
  /\ pushed < Quota
  /\ IsAvailable(buffer[buf_w])
  /\ ToWriter("store")
  /\ UNCHANGED <<fixedsize, buffer, buf_r, buf_w, pool, reader, pushed, received>>

FindsNoRoom ==
  /\ writer.pc = "available"
  /\ pushed < Quota
  /\ ~IsAvailable(buffer[buf_w])
  /\ ~fixedsize
  /\ ToWriter("next_w")
  /\ UNCHANGED <<fixedsize, buffer, buf_r, buf_w, pool, reader, pushed, received>>

\* BufferPool::next_w: a ring from the cache, which is empty, or a new one.
NextW ==
  /\ writer.pc = "next_w"
  /\ \/ /\ ~IsEmpty(bufcache)
        /\ writer' = [writer EXCEPT !.pc = "allocnode", !.t = Top(bufcache)]
        /\ bufcache' = Popped(bufcache)
        /\ UNCHANGED buffer
     \/ /\ IsEmpty(bufcache) /\ Left(buffer)
        /\ LET b == Malloc(buffer)
           IN  /\ buffer' = [buffer EXCEPT ![b] = EmptyBuffer(size)]
               /\ writer' = [writer EXCEPT !.pc = "allocnode", !.t = b]
        /\ UNCHANGED bufcache
  /\ UNCHANGED <<fixedsize, buf_r, buf_w, node, head, tail, cache, list, reader, pushed, received>>

\* dynqueue::push(t): a node that nobody else has ...
AllocNode ==
  /\ writer.pc = "allocnode"
  /\ ~IsEmpty(cache) \/ Left(node)
  /\ LET n == IF IsEmpty(cache) THEN Malloc(node) ELSE Top(cache)
     IN  /\ node' = [node EXCEPT ![n] = [data |-> writer.t, next |-> Null]]
         /\ writer' = [writer EXCEPT !.pc = "link", !.n = n]
  /\ cache' = IF IsEmpty(cache) THEN cache ELSE Popped(cache)
  /\ UNCHANGED <<fixedsize, buffer, buf_r, buf_w, bufcache, head, tail, list, reader, pushed, received>>

\* ... behind the last one; tail is the writer's own.
Link ==
  /\ writer.pc = "link"
  /\ node' = [node EXCEPT ![tail].next = writer.n]
  /\ tail' = writer.n
  /\ list' = Append(list, writer.n)
  /\ ToWriter("switch")
  /\ UNCHANGED <<fixedsize, buffer, buf_r, buf_w, bufcache, head, cache, reader, pushed, received>>

Switch ==
  /\ writer.pc = "switch"
  /\ buf_w' = writer.t
  /\ ToWriter("store")
  /\ UNCHANGED <<fixedsize, buffer, buf_r, pool, reader, pushed, received>>

\* buf_w->push(data), whose result is not looked at.
Store ==
  /\ writer.pc = "store"
  /\ buffer' = IF IsAvailable(buffer[buf_w])
                 THEN [buffer EXCEPT ![buf_w] = Pushed(@, pushed + 1)] ELSE buffer
  /\ pushed' = pushed + 1
  /\ ToWriter("available")
  /\ UNCHANGED <<fixedsize, buf_r, buf_w, pool, reader, received>>

-----------------------------------------------------------------------------
(***************************************************************************)
(* pop.  The reader spins: a pop that fails is tried again.                *)
(***************************************************************************)
LooksAtRing ==
  /\ reader.pc = "empty"
  /\ ToReader(IF IsEmpty(buffer[buf_r]) THEN "compare" ELSE "take")
  /\ UNCHANGED <<fixedsize, buffer, buf_r, buf_w, pool, writer, pushed, received>>

\* Compare without the second look; only for comparison with the code.
CompareOnly ==
  /\ reader.pc = "compare"
  /\ ToReader(IF buf_r = buf_w THEN "empty" ELSE "next_r")
  /\ UNCHANGED <<fixedsize, buffer, buf_r, buf_w, pool, writer, pushed, received>>

\* if (buf_r == buf_w) return false
Compare ==
  /\ reader.pc = "compare"
  /\ ToReader(IF buf_r = buf_w THEN "empty" ELSE "again")
  /\ UNCHANGED <<fixedsize, buffer, buf_r, buf_w, pool, writer, pushed, received>>

\* LooksAgain that never goes on to the next ring; only for comparison.
LooksAtThisRing ==
  /\ reader.pc = "again"
  /\ ToReader("take")
  /\ UNCHANGED <<fixedsize, buffer, buf_r, buf_w, pool, writer, pushed, received>>

\* The writer may have filled the ring between the first look and its leaving.
LooksAgain ==
  /\ reader.pc = "again"
  /\ ToReader(IF IsEmpty(buffer[buf_r]) THEN "next_r" ELSE "take")
  /\ UNCHANGED <<fixedsize, buffer, buf_r, buf_w, pool, writer, pushed, received>>

\* NextR that lets go of the node it should keep; only for comparison.
NextRDropsNext ==
  /\ reader.pc = "next_r"
  /\ LET next == node[head].next
     IN  IF next # Null
           THEN /\ reader' = [pc |-> "oldnode", tmp |-> node[next].data, n |-> next]
                /\ head' = next /\ list' = Tail(list)
           ELSE /\ reader' = [reader EXCEPT !.pc = "take"]
                /\ UNCHANGED <<head, list>>
  /\ UNCHANGED <<fixedsize, buffer, buf_r, buf_w, bufcache, node, tail, cache, writer, pushed, received>>

\* BufferPool::next_r, dynqueue::pop: the node behind head has the data and
\* becomes head.
NextR ==
  /\ reader.pc = "next_r"
  /\ LET next == node[head].next
     IN  IF next # Null
           THEN /\ reader' = [pc |-> "oldnode", tmp |-> node[next].data, n |-> head]
                /\ head' = next /\ list' = Tail(list)
           ELSE /\ reader' = [reader EXCEPT !.pc = "take"]
                /\ UNCHANGED <<head, list>>
  /\ UNCHANGED <<fixedsize, buffer, buf_r, buf_w, bufcache, node, tail, cache, writer, pushed, received>>

\* if (!cache.push(n)) ::free(n)
DropNode ==
  /\ reader.pc = "oldnode"
  /\ IF IsAvailable(cache)
       THEN /\ cache' = Pushed(cache, reader.n)
            /\ node' = node
       ELSE /\ node' = [node EXCEPT ![reader.n] = Freed]
            /\ cache' = cache
  /\ ToReader("release")
  /\ UNCHANGED <<fixedsize, buffer, buf_r, buf_w, bufcache, head, tail, list, writer, pushed, received>>

\* BufferPool::release: reset, then into the cache or back to malloc.
Reset ==
  /\ reader.pc = "release"
  /\ buffer' = [buffer EXCEPT ![buf_r] = EmptyBuffer(size)]
  /\ ToReader("oldring")
  /\ UNCHANGED <<fixedsize, buf_r, buf_w, pool, writer, pushed, received>>

DropRing ==
  /\ reader.pc = "oldring"
  /\ IF IsAvailable(bufcache)
       THEN /\ bufcache' = Pushed(bufcache, buf_r)
            /\ buffer' = buffer
       ELSE /\ buffer' = [buffer EXCEPT ![buf_r] = Freed]
            /\ bufcache' = bufcache
  /\ buf_r' = reader.tmp
  /\ ToReader("take")
  /\ UNCHANGED <<fixedsize, buf_w, node, head, tail, cache, list, writer, pushed, received>>

\* return buf_r->pop(data)
Take ==
  /\ reader.pc = "take"
  /\ IF IsEmpty(buffer[buf_r])
       THEN UNCHANGED <<buffer, received>>
       ELSE /\ received' = Append(received, Top(buffer[buf_r]))
            /\ buffer' = [buffer EXCEPT ![buf_r] = Popped(@)]
  /\ ToReader("empty")
  /\ UNCHANGED <<fixedsize, buf_r, buf_w, pool, writer, pushed>>

-----------------------------------------------------------------------------
Push == FindsRoom \/ FindsNoRoom \/ NextW \/ AllocNode \/ Link \/ Switch \/ Store

Pop ==
  \/ LooksAtRing \/ Compare \/ LooksAgain \/ NextR \/ DropNode \/ Reset \/ DropRing \/ Take

Next == Push \/ Pop

\* Each of the two threads goes on.
Spec == Init /\ [][Next]_vars /\ WF_vars(Push) /\ WF_vars(Pop)
-----------------------------------------------------------------------------
\* The rings from the reader's to the last one in the list: what the reader is about
\* to go on to, and what is behind the list's first node.
Ahead ==
  IF reader.pc \in {"oldnode", "release", "oldring"} THEN <<buf_r, reader.tmp>> ELSE <<buf_r>>

Listed == [k \in 1..(Len(list) - 1) |-> node[list[k + 1]].data]

Chain == Ahead \o Listed

ListNode == [data : Buffers \cup {Null}, next : Nodes \cup {Null}]

TypeOK ==
  /\ fixedsize \in BOOLEAN
  /\ buf_r \in Buffers /\ buf_w \in Buffers
  /\ head \in Nodes /\ tail \in Nodes /\ list \in Seq(Nodes)
  /\ buffer \in [Buffers -> BufferOf(1..Quota, size) \cup {Freed}]
  /\ node \in [Nodes -> ListNode \cup {Freed}]
  /\ bufcache \in BufferOf(Buffers, CacheSize)
  /\ cache \in BufferOf(Nodes, CacheSize)
  /\ writer \in [pc : {"available", "next_w", "allocnode", "link", "switch", "store"},
                 t : Buffers \cup {Null}, n : Nodes \cup {Null}]
  /\ reader \in [pc : {"empty", "compare", "again", "next_r", "oldnode", "release", "oldring", "take"},
                 tmp : Buffers \cup {Null}, n : Nodes \cup {Null}]
  /\ pushed \in 0..Quota
  /\ received \in Seq(1..Quota)

\* Every ring is in one place: in the chain from the reader to the writer, on its
\* way there, or in the cache, and then empty. Every list node is in the list, in
\* the hands of one of the two threads, or in the cache. All else is free: nothing
\* is lost, and nothing is used twice, or after free().
RingsComing == IF writer.pc \in {"allocnode", "link"} THEN {writer.t} ELSE {}

RingsInPlace ==
  /\ Chain \in Seq(Buffers) /\ IsInjective(Chain)
  /\ Chain[Len(Chain)] = IF writer.pc = "switch" THEN writer.t ELSE buf_w
  /\ RingsComing \cap Range(Chain) = {}
  /\ (RingsComing \cup Range(Chain)) \cap Contents(bufcache) = {}
  /\ \A b \in Buffers :
       IsFree(buffer, b) <=> b \notin RingsComing \cup Range(Chain) \cup Contents(bufcache)
  /\ \A b \in RingsComing \cup Contents(bufcache) : buffer[b] = EmptyBuffer(size)

NodesApart ==
  (IF writer.pc = "link" THEN {writer.n} ELSE {})
    \cup (IF reader.pc = "oldnode" THEN {reader.n} ELSE {})

ListLinked ==
  /\ list # <<>> /\ list[1] = head /\ list[Len(list)] = tail
  /\ \A k \in 1..(Len(list) - 1) : node[list[k]].next = list[k + 1]
  /\ node[tail].next = Null

NodesInPlace ==
  /\ ListLinked
  /\ IsInjective(list)
  /\ NodesApart \cap Range(list) = {}
  /\ (NodesApart \cup Range(list)) \cap Contents(cache) = {}
  /\ \A n \in Nodes :
       IsFree(node, n) <=> n \notin NodesApart \cup Range(list) \cup Contents(cache)

MemoryInPlace == RingsInPlace /\ NodesInPlace

\* Values come out once each, in the order they went in.
Promise ==
  INSTANCE Fifo WITH
    Producers <- {1}, Consumers <- {1},
    sent      <- [p \in {1} |-> pushed],
    queue     <- [k \in 1..(pushed - Len(received)) |-> <<1, Len(received) + k>>],
    received  <- [c \in {1} |-> [k \in DOMAIN received |-> <<1, received[k]>>]]

ImplementsFifo == Promise!Spec

\* None is left behind in a ring the reader does not come to, and in a fixed
\* ring the writer gets its turn again: all values are pushed and popped.
EverythingArrives == <>(received = [k \in 1..Quota |-> k])
=============================================================================
