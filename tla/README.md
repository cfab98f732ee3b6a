# Skyline stream application: TLA+ models and proofs

The repository computes the skyline (the tuples no other tuple dominates) of
every window of a stream. It holds three programs that do the same thing: a
sequential one, one made of threads and queues (`parallel/`), and one on top
of FastFlow (`fastflow/`). This directory models them, checks the models with
TLC and proves theorems about some of them with TLAPS.

## The system

| part | source | state | operations |
|---|---|---|---|
| tuples | `util.cpp` | none | `generate_tuple`, `dominate`, printing |
| linked list | `linked_list.cpp/.hpp` | nodes (`tuple`, `expire`, `insert`, `next`), heads | `push_node`, `delete_node`, printing |
| blocking queue | `stdQueue.hpp` | mutex, condition variable, deque, `queueSize` | `push`, `pop` |
| sequential program | `sequential/` | `DB_sky`, `DB_rest`, `window` | the five stages of main's loop body |
| parallel program | `parallel/` | lists per worker, a `Message` on each sky worker's stack, one queue per edge of the ring | `generator`, `check_skyline`, `connect_sky_rest`, `check_rest`, `collector` |
| FastFlow program | `fastflow/main.cpp`, `stages.cpp` | lists per worker, `sky_arr`, `insert_sky`, `insert_rest` | main's loop, two `parallel_for` |
| FastFlow library | `fastflow/ff/`, vendored | the threads of a `ParallelFor`, the ranges of a call, a queue in front of each worker | constructor, `parallel_for`, destructor; `push` and `pop`; the rest is not used |
| parameter checks | three `check_parameters` | none | accept or refuse `argv` |

How the algorithm works, in all three: every tuple gets an expiry time,
`expire = i + w`. A tuple that a stored tuple dominates goes to a rest list
with the time `insert` at which it may enter the skyline, the expiry of a
dominator. A scan for a new tuple deletes what has expired and what the new
tuple dominates; the scan of the rest list moves whoever's `insert` has come.

How the parts interact: in the sequential program by calls. In the parallel
one by messages, in a ring, one queue per worker and direction; the queues
carry pointers, so a message is shared memory as well, and so are the skyline
lists, on which sky workers, rest workers and collector all write without a
lock. In the FastFlow one by the vectors that the bodies of a `parallel_for`
capture by reference; FastFlow's threads are created once and put to sleep and
woken again for every tuple, twice.

What is hard here: (1) the retention logic, where a wrong comparison shows only
after a series of arrivals and expiries; (2) the window between unlock and
`notify_all`, and waits under an `if`; (3) the exclusion between stages, which
nothing enforces but the order of messages; (4) the unlocked lists and flags;
(5) termination of a ring that waits for itself; (6) FastFlow's
sleep and wake protocol, and its queues without a lock. There is no persistence, no
network, no timeout and no retry.

What makes each part correct:

- lists: no node leaked, doubled or left dangling by a scan;
- queue: first in first out, no wakeup lost, nothing read from an empty deque;
- sequential program: the lists hold exactly the tuples that may still matter,
  the printed list contains the skyline, and the windows slide as they should;
- parallel program: stages exclude each other, messages outlive their readers,
  the threads' own counts agree, output comes in turn, all threads return;
- FastFlow program: what the races can and cannot do to the lists;
- FastFlow library: a call runs each iteration once, between the call and its
  return, no wakeup is lost, all threads end; queues are first in first out and
  lose no memory.

## Modules

| module | models | notes |
|---|---|---|
| `Skyline` | tuples, `dominate`, nodes, the skyline of a window as README.md defines it | data only |
| `SkylineStream` | what an observer sees: tuples in, a set of tuples out for every K-th window | abstract specification |
| `SequentialSkyline` | `sequential/main.cpp` and `stages.cpp` | one action per stage F1..F5 |
| `SkylineLemmas` | | lemmas about dominance, about when windows are due and about the parameters, for the proofs of all three programs |
| `SequentialSkylineProofs` | | proofs about its lists and about what it prints |
| `StdQueueOps` | effect of `push` and `pop` on one queue object | shared by the next two |
| `StdQueue` | `stdQueue.hpp` with the threads that use it | |
| `Fifo` | a queue with several writers and readers | abstract specification |
| `StdQueueProofs` | | proofs about it |
| `ParallelSkyline`, `MCParallelSkyline` | `parallel/main.cpp` and `stages.cpp` | composes the threads through the queues |
| `ParallelInvariant`, `ParallelSkylineProofs` | | its inductive invariant and the proofs |
| `FastFlowSkyline`, `MCFastFlowSkyline` | `fastflow/main.cpp` and `stages.cpp` | fork and join |
| `FastFlowInvariant`, `FastFlowSkylineProofs` | | its inductive invariant and the proofs |
| `ForkJoin` | what a caller of `parallel_for` relies on | abstract specification |
| `ParallelFor` | `ParallelFor` of `ff/parallel_for.hpp`, from constructor to destructor | what `fastflow/main.cpp` reaches |
| `ParallelForInvariant`, `ParallelForProofs` | | its inductive invariant and the proofs |
| `SwsrBuffer` | a ring of `ff/buffer.hpp` | operators |
| `UnboundedBuffer` | the queue of `ff/ubuffer.hpp`, with `ff/dynqueue.hpp` below it | implements `Fifo` |
| `UnboundedBufferInvariant`, `UnboundedBufferProofs` | | its inductive invariant and the proofs |
| `LinkedList` | `linked_list.cpp` at the level of addresses, and the scans' walk | |
| `LinkedListProofs` | | proofs about it |
| `NodeLists` | sequences with a cursor | abstract specification |
| `CheckParameters` | the three `check_parameters` | operators, no state; the theorems are in `SkylineLemmas` |

Times and tuple numbers count from 0 as in the source; sequences start at 1, so
`Arrived(stream, j)` is `stream[j + 1]`.

**SequentialSkyline.** `phase` is the program counter of main's loop body and
each stage is one action; nothing else runs. `DB_sky` and `DB_rest` are sets of
nodes. That loses nothing: expiry times are distinct, and neither handler's
result depends on the order of its list (the `insert` it computes is a maximum,
all other decisions are about one node). `LinkedList` shows that the pointers
really are such lists. `printed` records every call of `print_lists` that
writes. `check_rest` is declared `bool` and returns nothing; the behaviour is
undefined once it flows off its end. Built with optimisation (`-O3` in the
makefile) the loop loses its exit and the program dereferences NULL, without
optimisation it carries on: `CheckRest` allows both, and `"crashed"` is a phase
nothing follows.

**StdQueue.** A critical section is one step. `push` is `PushWaits` (asleep on a
full queue), `Push` (the rest of the block that holds the lock) and `Notify`
(`notify_all`, after the lock is released); `pop` is `PopWaits` and `Pop`.
`waiting` is the wait set of the condition variable and `woken` the threads that
have left it and not yet taken the mutex. They do not test the condition again,
because the code waits under an `if`; one that finds the deque empty reads
`back()` of an empty deque, and `undefined` records it. Nothing follows
`undefined`. The default constructor stores the greatest unsigned integer in an
int, and the comparison with `size()` turns it into a size no deque reaches:
`DefaultSize`.

**ParallelSkyline.** Every thread is a record with its program counter and its
locals. A queue is a sequence together with the set `notifying` of queues whose
writer has pushed and not notified. Each queue has one writer and one reader,
so the rest of `StdQueue` folds away: the reader either finds an element, or
sleeps and is woken by a notification; the one case with an effect of its own is
`PopUndefined`, where the reader has already taken the element, is back in `pop`
and is woken by the notification of the element it took. Spurious wakeups are
left out of the ring: they lead to `undefined` or to an ordinary pop, both of
which the model has. A pointer to a tuple is its number, a pointer to a message
the number of the sky worker on whose stack it lies, so reuse of the stack slot
shows as a message that changes under its readers. Scans of a skyline list are one
step (`StageExclusion` is what justifies it: no one else is at that list); the
scan of a rest list is one step per node, and a `push_node` to a skyline list is
two, the read of the head and the write, since rest workers do this at the same
time. `lost` is a history variable, the nodes that such a write has taken out of a list
because they were pushed after the head was read. The ring does not implement
`SkylineStream` as it stands, since a window may be printed without a lost tuple
(`parallel_complete`); `ImplementsSkylineStream` is the refinement with `EmitBut` for
`Emit`, which lets the tuples of lost nodes that would still be in the window be missing,
and no other. Verbose is taken to be on.

**FastFlowSkyline.** `parallel_for(0, nw, f)` splits the range statically, one
iteration per worker: iteration j is a process of its own between the fork and
the join. `sky_arr[j] = ...` on a `vector<bool>` reads a word and writes it back
with one bit changed, hence `FlagRead` and `FlagWrite`; a flag is written once at
the start and once more for each dominating node. Lists are sequences here,
because `insert_sky[j]` and `insert_rest[j]` are left by the last node of the
scan that sets them. A scan keeps the nodes at some positions (`Kept`); `Picked` is the
list of these in their order, as a set of one, and `LastExpiry` the value left behind,
likewise. The loop over `insert_rest` runs to `nw_sky`; where that is
behind the end of the vector `Garbage` says what may be read. `raced` records
that a write has overwritten someone else's, or that garbage has been used.

**LinkedList.** Memory is a function from addresses to nodes or `Freed`. A scan
keeps `prev` and `cur` as the code does, and deletes, moves or keeps nodes as it
likes: which it does is the business of the other modules.

**ParallelFor.** What one thread does between taking a mutex and giving it up,
or waiting, is one step; everything else that another thread can see is a step
too. `main` is the record of the calling thread, `thread` has the fields of
`ff_thread` (`stp`, `freezing`, `frozen`) for the workers and the emitter.
`parallel_for` sets the ranges (`SetRange`), puts the first task of each worker
in its queue (`SendTask`), wakes the workers (`ThawWorker`) and waits until each is
frozen again (`WaitFreezing`); with one worker main runs the loop itself
(`RunAlone`). All that is written without a lock: it is the sleep of the workers that
protects it. Any thread that waits on a condition variable may wake without a
signal (`Spurious`). The built program has static scheduling with chunk 0, step 1 and no
spinning, so a worker that has no task left freezes. The number of iterations is
arbitrary here, where the program always asks for as many as there are workers. A
queue is a sequence: `UnboundedBuffer` shows that it is one.

`FastFlowSkyline` forks and joins as `ForkJoin` says, and `ParallelFor` implements
`ForkJoin`. So what the one assumes the other provides.

**UnboundedBuffer.** One writer and one reader, without a lock. Each access to
something the other thread writes is a step. Rings and list nodes are addresses that
are taken from a cache or from `malloc`, and given back to either; where no address is
left `malloc` does not return (`Left`, the bound on memory: the run has as many rings
and nodes as nine values can need). `list` is a history variable, the list nodes from
`head` to `tail`; `ListLinked` says that the pointers in memory agree with it. A push that
fails is repeated by the caller. Left out is `in_use_buffers`, which
`length()` reads and the program does not call. Stores are taken to be seen in the order
in which they are made, which is what `WMB()` is for and what x86 provides. The workers of
the program have queues of a fixed size; both kinds are checked.

**CheckParameters.** A command line is the sequence of the numbers `atoi` reads.
The program that goes on after `argc < 7` and reads `argv` past its end is
undefined there; if it lives it refuses the command line, which is what the module
says.

## What TLC checks

| run | module, bounds | shows |
|---|---|---|
| `sequential` | M=2, values {0,1}, W=4, N=7, K=2 | `StoresTheCandidates`, `SkylineComplete`, `RestWaits`, `PromotionSound`, `WindowsSlide`, the inductive invariants `IInv` and `OInv`, refinement of `SkylineStream` |
| `std_queue` | 2 producers, 2 consumers, 2 values each, size 1, spurious wakeups | `NoLostWakeup`, `ImplementsFifo`, `EveryPushIsPopped` |
| `parallel` | 2 sky and 2 rest workers, M=2, W=3, N=4, two tuples wait for the first in different lists | `StageExclusion`, `MessageIntact`, `CountersAgree`, `QueuesHoldOne`, `WindowThenSkyline`, `StoredOnce`, the inductive invariant `IInv`, refinement of `SkylineStream` but for what overwritten pushes cost, `Terminates` |
| `fastflow` | 3 sky and 2 rest workers, M=2, W=3, N=4, first two tuples fixed and the third not dominated by the second | `ListsSound`, `PrintedTogether`, `OnlyRacesLose`, `WaitsForADominator`, the inductive invariant `IInv` |
| `parallel_for` | 1 and 3 workers, two calls of 0, 2 or 4 iterations, spurious wakeups | the inductive invariant `IInv`, `WorkersParked`, `NoLostWakeup`, refinement of `ForkJoin`, `Terminates` |
| `unbounded_buffer` | rings of 2, caches of 1, 5 rings, 5 list nodes, 9 values, fixed size and growing | `IInv`, `MemoryInPlace`, `ImplementsFifo`, `EverythingArrives` |
| `linked_list` | 2 lists, 4 addresses, 2 values | `OwnedOnce`, refinement of `NodeLists` |

Every run checks the type invariant of its module too.

Why the bounds are enough. Tuples of two components over {0,1} have a best, a
worst and two incomparable members, so every pattern dominance can make between
three tuples occurs. In `sequential`, N=7 with W=4 lets a tuple arrive, wait,
be moved and expire, and lets the list it left be scanned again. In `parallel`
and `parallel_complete` the first tuple is better than all others, so that the second and
third, of which neither dominates the other, wait for it and are moved by two rest workers at
the same time, while the fourth is handled; the fourth may also replace the third. The race on a
skyline list, with both its outcomes, and the windows printed before and after it occur. The
exclusion, the counts and termination do not depend on what the tuples are. In
`parallel` a CONSTRAINT fixes in which list a tuple waits, and leaves the choice of a skyline list
to the third tuple only, whose worker may push on the list of the other's or on the other list; it
does not tie the order of the threads. These runs and `fastflow` fix the beginning of the
stream so that these things happen (by a CONSTRAINT on `stream`, which
only drops other streams). `fastflow` has more sky workers than rest workers so that
the read behind `insert_rest` occurs too. Four addresses let a list
have a first, a middle and a last node while another has one. In `parallel_for`
three workers share 0, 2 or 4 iterations: ranges are empty, of one and of two, and
the last is cut; after the first call a second finds what the first left behind, and one worker is
the case in which no thread is woken. Nine values in rings of two need five
rings, so that the reader falls behind by several, and the rings that come back find
the cache both empty and full.

Runs that are expected to fail, each a disagreement between the code and what
it says of itself:

| run | what happens |
|---|---|
| `sequential_sound` | The new tuple's `sky` flag is decided before the rest list is looked at: a tuple of the rest list may dominate a tuple that goes to the skyline. The printed list then holds more than the skyline (never less: `SkylineComplete`). The same is true of the other two programs. |
| `std_queue_pop` | A consumer takes an element before its producer notifies, sleeps on the empty deque, is woken by that notification and reads what is not there. |
| `parallel_complete` | Two rest workers push on the same skyline list; one node is lost, and with it a tuple of the skyline printed for the window. |
| `parallel_sky_nodes` | The connector folds in the message it has before it pops the next: the last worker's verdict is overwritten unread. A dominated tuple is passed on as a skyline tuple. |
| `fastflow_complete` | Two sky workers write their flags to the same word; a lost write keeps an undominated tuple out of the skyline printed for its window, which can be empty. |

Disagreements without a run of their own: `check_rest` of the sequential program is
declared `bool` and has no `return`, which the makefile's `-O3` turns into an end of the
program at the first tuple (`CheckRest` allows it, and the properties
of the run hold with and without); `dominate` is true of equal tuples, so
of two equal tuples only the newer is kept, where README.md's definition keeps both
(values are what is printed, and no value is lost); a producer woken on a full
queue does not test the size again, and the size test is `==`; the rest scans of
`parallel/` and `fastflow/` compare with the `insert` they had before the scan,
so a later node with an earlier expiry overwrites it; `check_parameters` says
"positive" and accepts 0 in two of the programs (`ZerosAccepted`), and in the
sequential one refuses verbose = 0 once an argument follows it (`OneMoreArgument`). The example windows of README.md
(`<a, c, e, g>`, `<b, d, f, h>`) are not n consecutive tuples; the code prints
what the sentence before them says, and that is what `WindowsSlide` states.

**Fairness.** The sequential and the FastFlow program: weak fairness of the
next-state relation, that is, the machine does not stop. `ParallelSkyline` assumes
no more: some thread that can run runs. That is enough for `Terminates`, because
no thread of the ring can run for ever while the others wait: each is at most one
message ahead. `StdQueue` assumes weak fairness of each thread, which an
ordinary scheduler provides; no fairness of the mutex beyond that.
`ParallelFor` assumes weak fairness of main and of each thread, and none of spurious
wakeups: they may happen or not. `UnboundedBuffer` assumes weak fairness of the writer and of the
reader, which spin. `EveryPushIsPopped` and the ring's `Terminates` allow for `undefined`, since nothing
can be said of what follows it.

**Deadlock** checking is off in all runs: the programs end.

## What is proved

For all values of the constants that satisfy the named assumptions. Every step
is checked by `tlapm`; nothing is assumed but the ASSUMEs of the modules, which
say of the parameters what `check_parameters` lets through, that the tuple
size is not zero, that threads are disjoint, and that addresses, null and the
content of freed memory are different things.

`SequentialSkylineProofs`:

- `TypeCorrect`: `Spec => []TypeOK`;
- `Invariance`: `Spec => []IInv`, from which follow
- `StorageCorrect`: the lists hold exactly the tuples of the window that no later
  tuple dominates, each once (`StoresTheCandidates`);
- `NothingIsMissing`: the printed list contains the skyline (`SkylineComplete`);
- `WaitingIsLongEnough` (`RestWaits`) and `PromotionsAreSound` (`PromotionSound`).

The argument. `SkylineComplete` alone is not inductive: to know that a tuple of
the skyline is in the skyline list one must know that it was stored, that nothing
deleted it, and that its waiting is over. Hence the parts of `IInv`: stored
nodes are what they were made from (`Genuine`) and distinct (`Distinct`); every
tuple of the window is covered by a stored node that dominates it and leaves no
earlier (`Covered`, which survives the deletion of the tuple itself, because
dominance is transitive and a newer tuple expires later); no stored node is
dominated by a tuple handled after it (`NotSuperseded`); what a scan leaves behind
is alive (`Scanned`); whoever waits until e waits for the better tuple that
expires at e (`RestJustified`), and the tuple at hand likewise while its `insert`
is being computed (`InsertJustified`); and that wait is long enough (`RestWaits`).
From `RestJustified` a node still waiting is dominated by a live tuple, so it is not
in the skyline; from `Covered` and `NotSuperseded` a tuple of the skyline is stored;
hence it is in the skyline list. `RestWaits` gives the converse for moved nodes.

And about what is printed:

- `OutputInvariance`: `Spec => []OInv`; `WindowsAreRight` (`WindowsSlide`);
- `Refinement`: `Verbose => (Spec => ImplementsSkylineStream)`. Without verbose
  nothing is printed and there is nothing to refine.

`WindowsSlide` says nothing of the deque the windows are copied from, so it is
not inductive. `OInv` adds it: outside F1 the deque holds the W newest tuples (or
all there are), and the number of windows printed is the number that is due once
i tuples have been handled. `NextWindow` (`WindowCount` of `SkylineLemmas`) is the arithmetic: that number, a
quotient by K, grows just at the steps where `print_lists` finds
`(i + 1 - w) % k` to be zero, and the window it then prints is the one with that
number. In the refinement `generate_tuple` maps to `Receive`, a `print_lists`
that prints to `Emit`, and every other step to a stutter: `OInv` shows that
a window is due exactly when `Emit` is taken and never when `Receive` is, and
`IInv` that what is emitted lies between the skyline and the window.

`StdQueueProofs`:

- `TypeCorrect`; `NoWakeupIsLost`: a consumer sleeps on a queue that has elements only
  while a notification is still to come, for any number of threads and any size;
- `Refinement`: `Spec => ImplementsFifo`, each step maps to one of `Fifo` or to a
  stutter.

`ParallelSkylineProofs`, for any number of sky and rest workers and any stream:

- `TypeCorrect`; `Invariance`: `Spec => []IInv`, from which follow
- `StagesExclude` (`StageExclusion`), `MessagesIntact` (`MessageIntact`), `CountsAgree`
  (`CountersAgree`), `QueuesNeedNoBound` (`QueuesHoldOne`), `PrintedInTurn`
  (`WindowThenSkyline`) and `NodesStoredOnce` (`StoredOnce`).

No lock protects the lists and the messages. The argument is that one token goes
round: `OneToken` says, for each place the newest tuple can be at (generator, a
sky worker, connector, a rest worker, collector), where every other thread waits
and what is in every queue. `StorageInv` adds where the nodes of each tuple may be, which
also needs the two steps of a `push_node` on a shared list, and `OutputInv` ties what
has been printed to where the token is. Each action moves the token by one place;
there is a lemma for each.

`FastFlowSkylineProofs`, for any number of sky and rest workers, any stream and any garbage
behind `insert_rest`:

- `TypeCorrect`; `Invariance`: `Spec => []IInv`, from which follow
- `ListsAreSound` (`ListsSound`): what two workers overwrite of each other can lose a node,
  and nothing else: no node is doubled, stale or dominated by a later tuple;
- `PrintsTogether` (`PrintedTogether`): every window printed is the right one, and its
  skyline is taken from it;
- `WaitingIsJustified` (`WaitsForADominator`) and `RacesAloneLose` (`OnlyRacesLose`): while
  nothing has been overwritten or read behind the end, whoever waits is strictly dominated
  by a live tuple, and no tuple of the skyline is missing.

The argument. `ListsSound` speaks of the moments between two tuples; in between a node may
have left its rest list and not reached a skyline list, and a rest worker may hold a copy
of a list that another is about to change. So `FastFlowInvariant` gives every node a
place: a skyline list together with the copies of it the rest workers have in their hands
(`OnSkyline`), a rest list, or the nodes a worker has yet to push. What a late write brings
back is from such a copy, hence from the same place, so every step moves nodes between
places, drops some, or adds the newest tuple (the `...Nodes` lemmas). `NodesSound`
says what a node is, and that a place that has been scanned for the newest tuple holds none
that it dominates or that has expired (`Scanned`, `Fresh`); without the second part the
first would fail when main counts the tuple. `Apart` (no tuple in two places) and
`NoRepeats` (nor twice on a list) need each other: a pushed node is not on the list in the
worker's hands, because it is in another place. None of these mention `raced`. Those that do are
`FlagsRight` (a cleared flag means that something to wait for was found), `Waiting` (what a
node waits for has arrived and is strictly better) and `Covered` (every live tuple is
dominated by a stored one that lives as long, itself or one that deleted it; the newest
tuple counts as stored from the moment it is read, because what it dominates is deleted
before it is inserted). A tuple of the skyline is then stored, by `Covered`, and not in a rest
list, by `Waiting`. `Shown` ties the deque and the output to the stream, as `OInv` does
for the sequential program.

`ParallelForProofs`, for any number of workers, of calls and of iterations:

- `TypeCorrect`; `Invariance`: `Spec => []IInv`;
- `MainWritesAlone` (`WorkersParked`): while main fills the ranges, sends the tasks or
  stores the loop body, every worker sleeps, or has woken for nothing and sleeps on;
- `SignalsArrive` (`NoLostWakeup`): main never sleeps on a thread that is frozen already, nor a
  thread that has been thawed;
- `RunsEachOnce` (`ImplementsForkJoin`): every step is one of `ForkJoin` or a
  stutter.

The argument: what main is doing determines what each thread may be doing
(`Creation`, `Calling`, `Ending`; the emitter sleeps throughout the calls,
`EmitterSleeps`; and `MainWaits` says whom main sleeps on). Within a call each worker is asleep,
on its way to the task main left in its queue, in its loop, or done, and the
iterations of its range are in the state that goes with that. That the iterations run once each then rests on
arithmetic: the ranges `init_data_static` computes meet end to end, do not overlap and cover
the loop (`RangesCover`, `RangeLength`, `RangesOrdered`), whatever the remainder, and the first
task a worker takes is its whole range because the chunk was rounded up.

`LinkedListProofs`, for any lists, values and cells:

- `TypeCorrect`; `NodesOwnedOnce` (`OwnedOnce`).

`OwnedOnce` is inductive. No group of nodes is cut off from the heads, and no two
pointers lead to one node: when a node is unlinked, a way that went through it goes on
where it pointed, and by uniqueness no other way did. `CurAfterPrev` is the part
`delete_node` needs: `cur_node` is what the node before it, or the head, points to. A move is
a push on one list followed by an unlinking from another, so the two are proved for any memory
and any heads (`PushSound`, `CutSound`).

`UnboundedBufferProofs`, for all sizes of rings and caches, any addresses, any number of
values, and both settings of `fixedsize`:

- `TypeCorrect`; `Invariance`: `Spec => []IInv`;
- `MemoryStaysInPlace` (`MemoryInPlace`): no ring and no list node is lost, used twice, or
  used after `free()`;
- `Refinement` (`ImplementsFifo`): every step is one of `Fifo` or a stutter, so what
  comes out is what went in, once each and in order.

The argument. A ring holds a queue (`InOrder`: the slots in use follow each other from
`pread` to `pwrite`, round the end), which `PushedRing` and `PoppedRing` show to grow at one
end and shrink at the other. The caches are such rings and hold an address once
(`CachesInOrder`); so what is taken from one is in no other place (`MemoryInPlace`). The
rings between the two threads form the chain: the reader's, the one it is about to go on to, and
those in the list, of which the last is the writer's or about to be. `NextR` only moves
a ring from the list to the reader's hands, so the chain is the same; `Link` puts one at its end
and `DropRing` takes the first away. `ValuesInOrder` says that the queues of the chain,
one after the other, hold the values from the first not yet received to the last pushed
(`Numbered`), and that none between the first and the last is empty. The step that
matters is `DropRing`: it is right because its ring is empty, which `ReaderKnows`
keeps from the second look on; and that stays true because the reader first saw that the writer is
elsewhere (`buf_r # buf_w`) and the writer comes back to a ring only through the cache.
With one look only, before the comparison, the writer may have filled the ring in
between; that is the mutant `CompareOnly`.

`SkylineLemmas` on `CheckParameters`: what is accepted implies the assumptions above, for the two
parallel programs provided no worker number and no sliding factor is 0, and the
proviso is needed.

Only model-checked: liveness (`EveryPushIsPopped`, `EverythingArrives`, both
`Terminates`), which is beyond the prover; the refinement of `NodeLists`, whose
sequences are read off memory by a recursive walk; and the refinement of `SkylineStream` by
`ParallelSkyline`, which holds up to the tuples whose nodes were overwritten (`lost`, `EmitBut`).

## What is not modelled

- Reads behind the end of `argv`: the program is undefined there.
- Printing, timing, build files: no decision depends on them.
- Overflow of `i + w`, which a window near `INT_MAX` causes at once: times are natural numbers.
- Memory the programs never give back (the tuples) and failure of `malloc`.
- A queue of a bounded size that outgrows it: the programs have none.
- Of FastFlow, what the program does not reach: dynamic scheduling and work stealing,
  `parallel_reduce`, spinning and blocking mode, the multi-producer queues, farms,
  pipelines, stencils, allocators, distributed nodes, the OpenCL, CUDA and TPC back ends. This
  is most of the lines of the repository, vendored and not the program's own.
  Modelled from it are `ParallelFor`, which a run of `fastflow/main.cpp` executes, and the
  queue below it. Of that queue the run uses the kind of fixed size (`farm.hpp` makes the
  workers' queues so): one ring. The chain of rings and the caches of the growing kind are
  modelled as the library has them, and the program never runs them.
