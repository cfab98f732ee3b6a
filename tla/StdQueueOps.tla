---------------------------- MODULE StdQueueOps ----------------------------
(***************************************************************************)
(* The state of one stdQueue and the effect on it of the calls its methods *)
(* make on the deque and on the condition variable. The mutex is not part  *)
(* of the state: whatever a method does while it holds it is one step.     *)
(*                                                                         *)
(* As in stdQueue.hpp, elements enter at the front, which is position 1,   *)
(* and leave at the back.                                                  *)
(***************************************************************************)
EXTENDS Integers, Sequences

\* The three operations on the deque.
push_front(deque, value) == <<value>> \o deque
back(deque) == deque[Len(deque)]
pop_back(deque) == SubSeq(deque, 1, Len(deque) - 1)

\* waiting: the threads inside d_condition.wait; woken: those that have been
\* notified and have not taken the mutex again.
EmptyQueue == [d_queue |-> <<>>, waiting |-> {}, woken |-> {}]

QueueOf(items, threads) ==
  [d_queue : Seq(items), waiting : SUBSET threads, woken : SUBSET threads]

Size(q) == Len(q.d_queue)
Empty(q) == q.d_queue = <<>>
Back(q) == back(q.d_queue)

\* The condition variable.
Wait(q, thread) == [q EXCEPT !.waiting = @ \cup {thread}]
NotifyOne(q) ==
  IF q.waiting = {} THEN q
  ELSE LET thread == CHOOSE x \in q.waiting : TRUE IN
       [q EXCEPT !.woken = @ \cup {thread}, !.waiting = @ \ {thread}]
NotifyAll(q) == [q EXCEPT !.woken = @ \cup q.waiting, !.waiting = {}]
Awake(q, thread) == thread \notin q.waiting
Spurious(q, thread) ==
  [q EXCEPT !.waiting = @ \ {thread}, !.woken = @ \cup {thread}]

\* The rest of a critical section, once the thread is past the wait if there
\* was one. A woken thread does not test the condition again: the wait stands
\* under an if.
PushBack(q, thread, value) ==
  [q EXCEPT !.d_queue = Append(@, value), !.woken = @ \ {thread}]
PushFront(q, thread, value) ==
  [q EXCEPT !.d_queue = push_front(@, value), !.woken = @ \ {thread}]
PopBack(q, thread) ==
  [q EXCEPT !.d_queue = pop_back(@), !.woken = @ \ {thread}]

\* pop: what the thread does when it gets the mutex.
MustWaitUnchecked(q, thread) == Awake(q, thread) /\ thread \notin q.woken
MustWait(q, thread) == Awake(q, thread) /\ thread \notin q.woken /\ Empty(q)
CanPop(q, thread) == Awake(q, thread) /\ ~Empty(q)
FindsNothing(q, thread) == thread \in q.woken /\ Empty(q)
============================================================================
