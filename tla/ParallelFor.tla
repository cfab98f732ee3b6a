---------------------------- MODULE ParallelFor -----------------------------
(***************************************************************************)
(* The part of FastFlow on which fastflow/main.cpp runs: an object of      *)
(* class ParallelFor from its constructor to its destructor.  Its threads  *)
(* are kept between calls and sleep on a condition variable ("frozen").    *)
(* parallel_for fills the table of ranges, puts one task in the queue of   *)
(* each worker, wakes ("thaws") the workers and waits until they sleep.    *)
(*                                                                         *)
(* A block between pthread_mutex_lock and the unlock or the wait that ends *)
(* it is one step.  The built program uses static scheduling (chunk 0),    *)
(* step 1 and no spinning.                                                 *)
(***************************************************************************)
EXTENDS Integers, Sequences

CONSTANTS
  WorkerNumbers,                \* maxnw, given to the constructor
  Lengths,                      \* last - first of a call; first is 0
  Calls                         \* bound on the number of calls

ASSUME ConstantsAssumption ==
  /\ WorkerNumbers \subseteq Nat \ {0}
  /\ Lengths \subseteq Nat
  /\ Calls \in Nat

VARIABLES
  nw,                           \* number of workers
  main,                         \* the calling thread: pc, locals, asleep on cond_frozen
  thread,                       \* ff_thread of the workers and the emitter
  queue,                        \* in queues of the workers: ranges, or GoOut
  table,                        \* forall_Scheduler::data, one range per worker
  chunk,                        \* forall_Scheduler::_chunk
  iteration                     \* history: progress of the iterations of the last call

vars == <<nw, main, thread, queue, table, chunk, iteration>>

GoOut == <<>>

Workers == 0..(nw - 1)

\* The thread of the load balancer, which runs the emitter.
Emitter == nw

Threads == 0..nw
-----------------------------------------------------------------------------
NewThread ==
  [pc |-> "none", stp |-> TRUE, freezing |-> 0, frozen |-> FALSE, at |-> 0, to |-> 0]

Init ==
  /\ nw \in WorkerNumbers
  /\ main = [pc |-> "create", at |-> 0, start |-> 0, stop |-> 0, asleep |-> FALSE, calls |-> 0]
  /\ thread = [t \in Threads |-> NewThread]
  /\ queue = [w \in Workers |-> <<>>]
  /\ table = [w \in Workers |-> [ntask |-> 0, start |-> 0, end |-> 0]]
  /\ chunk = 1
  /\ iteration = [j \in {} |-> "over"]

\* freeze() before the thread exists, then spawn().
FreezeAndRun(t) ==
  thread' = [thread EXCEPT ![t].pc = "svc", ![t].stp = FALSE, ![t].freezing = 1]

\* thaw without the reset of frozen, and without the signal; only for comparison.
ThawStillFrozen(t, freezing) ==
  thread' = [thread EXCEPT ![t].freezing = freezing,
                           ![t].pc = IF @ = "asleep" THEN "woken" ELSE @]

ThawUnsignalled(t, freezing) ==
  thread' = [thread EXCEPT ![t].freezing = freezing, ![t].frozen = FALSE]

\* What the mutex of a thread protects: pthread_cond_signal(&cond) wakes it.
Thaw(t, freezing) ==
  thread' = [thread EXCEPT ![t].freezing = freezing, ![t].frozen = FALSE,
                           ![t].pc = IF @ = "asleep" THEN "woken" ELSE @]

\* Main's loops over the threads: the body for one of them, then the next.
NextIndex(last, next) ==
  main' = IF main.at = last
            THEN [main EXCEPT !.pc = next, !.at = 0]
            ELSE [main EXCEPT !.at = @ + 1]

\* pthread_cond_signal(&cond_frozen), if it is t that main waits for.
SignalFrozen(t) ==
  main' = [main EXCEPT !.asleep = @ /\ main.at # t]

-----------------------------------------------------------------------------
(***************************************************************************)
(* The constructor: it starts all threads and waits until they are frozen. *)
(***************************************************************************)
CreateEmitter ==
  /\ main.pc = "create"
  /\ FreezeAndRun(Emitter)
  /\ main' = [main EXCEPT !.pc = "spawn"]
  /\ UNCHANGED <<nw, queue, table, chunk, iteration>>

CreateWorker ==
  /\ main.pc = "spawn"
  /\ FreezeAndRun(main.at)
  /\ NextIndex(nw - 1, "settle")
  /\ UNCHANGED <<nw, queue, table, chunk, iteration>>

\* wait_freezing: of all threads in the constructor, of the workers in a call.
\* At the end of a call, main goes on.
WaitFreezing ==
  /\ main.pc \in {"settle", "join"}
  /\ ~main.asleep
  /\ thread[main.at].frozen
  /\ IF main.pc = "settle" THEN NextIndex(nw, "idle") ELSE NextIndex(nw - 1, "idle")
  /\ UNCHANGED <<nw, thread, queue, table, chunk, iteration>>

\* while(!frozen) pthread_cond_wait(&cond_frozen, &mutex)
SleepUntilFrozen ==
  /\ main.pc \in {"settle", "join", "endwait"}
  /\ ~main.asleep
  /\ ~thread[main.at].frozen
  /\ main' = [main EXCEPT !.asleep = TRUE]
  /\ UNCHANGED <<nw, thread, queue, table, chunk, iteration>>

-----------------------------------------------------------------------------
(***************************************************************************)
(* parallel_for.  With one worker main runs the loop itself.               *)
(***************************************************************************)
Call ==
  /\ main.pc = "idle"
  /\ main.calls < Calls
  /\ \E n \in Lengths :
       /\ iteration' = [j \in 0..(n - 1) |-> "waiting"]
       /\ main' = [main EXCEPT !.pc = "setloop", !.start = 0, !.stop = n, !.calls = @ + 1]
       /\ chunk' = n \div nw
  /\ UNCHANGED <<nw, thread, queue, table>>

\* Least with the bound forgotten; only for comparison with the code.
Unclipped(a, b) == a

Least(a, b) == IF a < b THEN a ELSE b

\* _chunk, once the ranges are set: the longest of them. NotRounded is for comparison.
NotRounded(c, r) == c

RoundedUp(c, r) == IF r > 0 THEN c + 1 ELSE c

\* init_data_static: the range of worker main.at starts where the last one ended.
\* Once all are set, _chunk is rounded up, setF stores the loop body.
SetRange ==
  LET r   == main.stop % nw
      e   == main.start + chunk + (IF main.at < r THEN 1 ELSE 0)
      end == Least(e, main.stop)
  IN  /\ main.pc = "setloop"
      /\ table' = [table EXCEPT ![main.at] = [ntask |-> 1, start |-> main.start, end |-> end]]
      /\ IF main.at = nw - 1
           THEN /\ main' = [main EXCEPT !.pc = IF nw > 1 THEN "send" ELSE "alone",
                                        !.at = 0, !.start = 0]
                /\ chunk' = RoundedUp(chunk, r)
           ELSE /\ main' = [main EXCEPT !.at = @ + 1, !.start = end]
                /\ chunk' = chunk
      /\ UNCHANGED <<nw, thread, queue, iteration>>

\* The first task of worker w, and the table without it. Uncounted is for comparison.
FirstOf(w) == <<table[w].start, Least(table[w].start + chunk, table[w].end)>>

Uncounted(w) == [table EXCEPT ![w].start = FirstOf(w)[2]]

Without(w) ==
  [table EXCEPT ![w].ntask = @ - 1, ![w].start = FirstOf(w)[2]]

\* sendTask: the workers still sleep.
SendTask ==
  /\ main.pc = "send"
  /\ IF table[main.at].ntask > 0
       THEN /\ queue' = [queue EXCEPT ![main.at] = Append(@, FirstOf(main.at))]
            /\ table' = Without(main.at)
       ELSE UNCHANGED <<queue, table>>
  /\ NextIndex(nw - 1, "thaw")
  /\ UNCHANGED <<nw, thread, chunk, iteration>>

\* thawWorkers(true): they will freeze again when they have nothing to do.
ThawWorker ==
  /\ main.pc = "thaw"
  /\ Thaw(main.at, 2)
  /\ NextIndex(nw - 1, "join")
  /\ UNCHANGED <<nw, queue, table, chunk, iteration>>

\* An iteration may run twice or be none of the loop's for all this knows.
Progress(j, state) ==
  iteration' = [k \in DOMAIN iteration \cup {j} |-> IF k = j THEN state ELSE iteration[k]]

BeginIteration(j) == Progress(j, "running")

EndIteration(j) == Progress(j, "over")

RunAlone ==
  /\ UNCHANGED <<nw, thread, queue, table, chunk>>
  /\ \/ /\ main.pc = "alone"
        /\ main.start < main.stop
        /\ main' = [main EXCEPT !.pc = "body"]
        /\ BeginIteration(main.start)
     \/ /\ main.pc = "body"
        /\ main' = [main EXCEPT !.pc = "alone", !.start = @ + 1]
        /\ EndIteration(main.start)
     \/ /\ main.pc = "alone"
        /\ main.start >= main.stop
        /\ main' = [main EXCEPT !.pc = "idle"]
        /\ UNCHANGED iteration

-----------------------------------------------------------------------------
(***************************************************************************)
(* The destructor: stop() for all threads, then wait() for one after the   *)
(* other, which wakes it for the last time and joins it.                   *)
(***************************************************************************)
Destroy ==
  /\ main.pc = "idle"
  /\ main' = [main EXCEPT !.pc = "stop"]
  /\ UNCHANGED <<nw, thread, queue, table, chunk, iteration>>

Stop ==
  /\ main.pc = "stop"
  /\ thread' = [thread EXCEPT ![main.at].stp = TRUE]
  /\ NextIndex(nw, "wait")
  /\ UNCHANGED <<nw, queue, table, chunk, iteration>>

\* stp = true; if (isfrozen()) ...
Wait ==
  /\ main.pc = "wait"
  /\ thread' = [thread EXCEPT ![main.at].stp = TRUE]
  /\ main' = [main EXCEPT !.pc = IF thread[main.at].freezing > 0 THEN "endwait" ELSE "join_thread"]
  /\ UNCHANGED <<nw, queue, table, chunk, iteration>>

EndWait ==
  /\ main.pc = "endwait"
  /\ ~main.asleep
  /\ thread[main.at].frozen
  /\ main' = [main EXCEPT !.pc = "endthaw"]
  /\ UNCHANGED <<nw, thread, queue, table, chunk, iteration>>

EndThaw ==
  /\ main.pc = "endthaw"
  /\ Thaw(main.at, 0)
  /\ main' = [main EXCEPT !.pc = "join_thread"]
  /\ UNCHANGED <<nw, queue, table, chunk, iteration>>

JoinThread ==
  /\ main.pc = "join_thread"
  /\ thread[main.at].pc = "finished"
  /\ main' = IF main.at = nw
               THEN [main EXCEPT !.pc = "done"]
               ELSE [main EXCEPT !.pc = "wait", !.at = @ + 1]
  /\ UNCHANGED <<nw, thread, queue, table, chunk, iteration>>

-----------------------------------------------------------------------------
(***************************************************************************)
(* The threads: svc, then freeze, until somebody has called stop().        *)
(***************************************************************************)
\* The emitter has no tasks when it is created: it sends its workers to sleep.
Broadcast ==
  /\ thread[Emitter].pc = "svc"
  /\ IF thread[Emitter].at < nw
       THEN /\ queue' = [queue EXCEPT ![thread[Emitter].at] = Append(@, GoOut)]
            /\ thread' = [thread EXCEPT ![Emitter].at = @ + 1]
       ELSE /\ thread' = [thread EXCEPT ![Emitter].pc = "freeze"]
            /\ UNCHANGED queue
  /\ UNCHANGED <<nw, main, table, chunk, iteration>>

\* thWorker::svc spins on the queue.
Pop(w) ==
  /\ thread[w].pc = "svc"
  /\ queue[w] # <<>>
  /\ queue' = [queue EXCEPT ![w] = Tail(@)]
  /\ thread' = IF Head(queue[w]) = GoOut
                 THEN [thread EXCEPT ![w].pc = "freeze"]
                 ELSE [thread EXCEPT ![w].pc = "loop", ![w].at = Head(queue[w])[1],
                                                      ![w].to = Head(queue[w])[2]]
  /\ UNCHANGED <<nw, main, table, chunk, iteration>>

Begin(w) ==
  /\ thread[w].pc = "loop"
  /\ thread[w].at < thread[w].to
  /\ thread' = [thread EXCEPT ![w].pc = "body"]
  /\ BeginIteration(thread[w].at)
  /\ UNCHANGED <<nw, main, queue, table, chunk>>

End(w) ==
  /\ thread[w].pc = "body"
  /\ thread' = [thread EXCEPT ![w].pc = "loop", ![w].at = @ + 1]
  /\ EndIteration(thread[w].at)
  /\ UNCHANGED <<nw, main, queue, table, chunk>>

\* nextTaskConcurrent under static scheduling: what the worker's own range has left.
NextTask(w) ==
  /\ thread[w].pc = "loop"
  /\ thread[w].at >= thread[w].to
  /\ table' = IF table[w].ntask > 0 THEN Without(w) ELSE table
  /\ thread' = IF table[w].ntask > 0 /\ FirstOf(w)[1] < FirstOf(w)[2]
                 THEN [thread EXCEPT ![w].at = FirstOf(w)[1], ![w].to = FirstOf(w)[2]]
                 ELSE [thread EXCEPT ![w].pc = "freeze"]
  /\ UNCHANGED <<nw, main, queue, chunk, iteration>>

\* while (freezing == 1) { frozen = true; signal; wait; }
FallAsleep(t) ==
  /\ thread' = [thread EXCEPT ![t].frozen = TRUE, ![t].pc = "asleep"]
  /\ SignalFrozen(t)

\* StayAwake that does not freeze again next time; only for comparison.
StayThawed(t) ==
  /\ thread' = [thread EXCEPT ![t].pc = "again"]
  /\ UNCHANGED main

\* Behind the loop: freeze again next time.
StayAwake(t) ==
  /\ thread' = [thread EXCEPT ![t].pc = "again", ![t].freezing = IF @ # 0 THEN 1 ELSE 0]
  /\ UNCHANGED main

Freeze(t) ==
  /\ thread[t].pc = "freeze"
  /\ IF ~thread[t].stp /\ thread[t].freezing = 1 THEN FallAsleep(t) ELSE StayAwake(t)
  /\ UNCHANGED <<nw, queue, table, chunk, iteration>>

WakeUp(t) ==
  /\ thread[t].pc = "woken"
  /\ IF thread[t].freezing = 1 THEN FallAsleep(t) ELSE StayAwake(t)
  /\ UNCHANGED <<nw, queue, table, chunk, iteration>>

\* while (!stp)
Again(t) ==
  /\ thread[t].pc = "again"
  /\ thread' = [thread EXCEPT ![t].pc = IF thread[t].stp THEN "leave" ELSE "svc"]
  /\ UNCHANGED <<nw, main, queue, table, chunk, iteration>>

Leave(t) ==
  /\ thread[t].pc = "leave"
  /\ IF thread[t].freezing # 0
       THEN /\ thread' = [thread EXCEPT ![t].frozen = TRUE, ![t].pc = "finished"]
            /\ SignalFrozen(t)
       ELSE /\ thread' = [thread EXCEPT ![t].pc = "finished"]
            /\ UNCHANGED main
  /\ UNCHANGED <<nw, queue, table, chunk, iteration>>

\* pthread_cond_wait may return although nobody signalled.
Spurious ==
  /\ UNCHANGED <<nw, queue, table, chunk, iteration>>
  /\ \/ /\ main.asleep
        /\ main' = [main EXCEPT !.asleep = FALSE]
        /\ UNCHANGED thread
     \/ \E t \in Threads :
          /\ thread[t].pc = "asleep"
          /\ thread' = [thread EXCEPT ![t].pc = "woken"]
          /\ UNCHANGED main

-----------------------------------------------------------------------------
MainStep ==
  \/ CreateEmitter \/ CreateWorker \/ WaitFreezing \/ SleepUntilFrozen
  \/ Call \/ SetRange \/ SendTask \/ ThawWorker \/ RunAlone
  \/ Destroy \/ Stop \/ Wait \/ EndWait \/ EndThaw \/ JoinThread

Svc(t) ==
  IF t = Emitter THEN Broadcast ELSE Pop(t) \/ Begin(t) \/ End(t) \/ NextTask(t)

ThreadStep(t) == Svc(t) \/ Freeze(t) \/ WakeUp(t) \/ Again(t) \/ Leave(t)

Next == MainStep \/ (\E t \in Threads : ThreadStep(t)) \/ Spurious

\* Every thread that can run does, sooner or later.  No fairness of Spurious.
Fairness ==
  /\ WF_vars(MainStep)
  /\ \A number \in WorkerNumbers : \A t \in 0..number : WF_vars(t \in Threads /\ ThreadStep(t))

Spec == Init /\ [][Next]_vars /\ Fairness
-----------------------------------------------------------------------------
TypeOK ==
  /\ nw \in WorkerNumbers
  /\ main \in [pc : {"create", "spawn", "settle", "idle", "setloop", "send", "thaw", "join",
                      "alone", "body", "stop", "wait", "endwait", "endthaw", "join_thread", "done"},
                at : Threads, start : Nat, stop : Lengths \cup {0}, asleep : BOOLEAN, calls : 0..Calls]
  /\ thread \in [Threads -> [pc : {"none", "svc", "loop", "body", "freeze", "asleep", "woken",
                                   "again", "leave", "finished"},
                             stp : BOOLEAN, freezing : 0..2, frozen : BOOLEAN, at : Nat, to : Nat]]
  /\ queue \in [Workers -> Seq({GoOut} \cup (Nat \X Nat))]
  /\ table \in [Workers -> [ntask : Int, start : Nat, end : Nat]]
  /\ chunk \in Nat
  /\ iteration \in [0..(main.stop - 1) -> {"waiting", "running", "over"}]

\* Between calls, and while main writes the table, the queues and the loop
\* body, no worker is about: each sleeps, or has woken up for nothing, and will
\* sleep on.  Main takes no lock for what it writes (setF, init_data_static,
\* sendTask): this is what makes it safe.
WorkersParked ==
  main.pc \in {"idle", "setloop", "send", "alone", "body"} =>
    \A w \in Workers :
      /\ thread[w].pc \in {"asleep", "woken"}
      /\ thread[w].frozen /\ thread[w].freezing = 1
      /\ queue[w] # <<>> => main.pc = "send" /\ w < main.at

\* Nobody sleeps on a condition variable whose condition holds: a thread that has
\* been thawed is no longer in pthread_cond_wait, and main does not wait for
\* frozen once it is set.
NoLostWakeup ==
  /\ \A t \in Threads : thread[t].pc = "asleep" => thread[t].freezing = 1 /\ thread[t].frozen
  /\ main.asleep => ~thread[main.at].frozen

\* Every iteration of a call runs once, and parallel_for returns when all are over.
InCall == main.pc \in {"setloop", "send", "thaw", "join", "alone", "body"}

Promise == INSTANCE ForkJoin WITH calling <- InCall
ImplementsForkJoin == Promise!Spec

\* Whatever the calls, and however often threads wake up for nothing, the
\* destructor gets to its end: all threads are joined.
Terminates == <>(main.pc = "done" /\ \A t \in Threads : thread[t].pc = "finished")
=============================================================================
