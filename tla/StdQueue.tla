------------------------------ MODULE StdQueue ------------------------------
(***************************************************************************)
(* The queue of stdQueue.hpp, shared by threads that push and threads that *)
(* pop. push takes the mutex, perhaps waits once for room, adds the value, *)
(* releases the mutex and only then notifies; pop takes the mutex, perhaps *)
(* waits once for an element, and removes the element at the back. Between *)
(* the two halves of push every other thread may run.                      *)
(***************************************************************************)
EXTENDS StdQueueOps, FiniteSets

CONSTANTS
  Producers, Consumers,   \* the threads
  Quota,                  \* how many values each producer pushes
  queueSize,              \* the size given to the constructor, or DefaultSize
  SpuriousWakeups         \* whether wait may return without a notification

ASSUME ThreadsAssumption == Producers \cap Consumers = {}
ASSUME QuotaAssumption == Quota \in Nat

\* The default constructor stores the greatest unsigned int in an int.
DefaultSize == -1

ASSUME SizeAssumption == queueSize \in Nat \cup {DefaultSize}
ASSUME SpuriousAssumption == SpuriousWakeups \in BOOLEAN

Threads == Producers \cup Consumers

VARIABLES
  q,          \* the queue object
  sent,       \* how many values each producer has put into the deque
  notifying,  \* the producers between the two halves of push
  received,   \* history: what each consumer has popped
  undefined   \* a pop has read the back of an empty deque

vars == <<q, sent, notifying, received, undefined>>

Init ==
  /\ q = EmptyQueue
  /\ sent = [p \in Producers |-> 0]
  /\ notifying = {}
  /\ received = [c \in Consumers |-> <<>>]
  /\ undefined = FALSE

\* d_queue.size() == queueSize: the comparison turns DefaultSize into a size
\* no deque reaches.
Full == Size(q) = queueSize

OneMore(p) == sent[p] <= Quota
MorePushes(p) == sent[p] < Quota

(* push, up to the end of the block that holds the lock. *)
PushWaits(p) ==
  /\ MorePushes(p) /\ p \notin notifying
  /\ Awake(q, p) /\ p \notin q.woken
  /\ Full
  /\ q' = Wait(q, p)
  /\ UNCHANGED <<sent, notifying, received, undefined>>

Push(p) ==
  /\ MorePushes(p) /\ p \notin notifying
  /\ Awake(q, p)
  /\ Full => p \in q.woken
  /\ sent' = [sent EXCEPT ![p] = @ + 1]
  /\ q' = PushFront(q, p, <<p, sent'[p]>>)
  /\ notifying' = notifying \cup {p}
  /\ UNCHANGED <<received, undefined>>

(* push, after the lock is released. *)
Notify(p) ==
  /\ p \in notifying
  /\ notifying' = notifying \ {p}
  /\ q' = NotifyAll(q)
  /\ UNCHANGED <<sent, received, undefined>>

(* pop. *)
PopWaits(c) ==
  /\ MustWait(q, c)
  /\ q' = Wait(q, c)
  /\ UNCHANGED <<sent, notifying, received, undefined>>

Pop(c) ==
  /\ CanPop(q, c)
  /\ received' = [received EXCEPT ![c] = Append(@, Back(q))]
  /\ q' = PopBack(q, c)
  /\ UNCHANGED <<sent, notifying, undefined>>

PopUndefined(c) ==
  /\ FindsNothing(q, c)
  /\ undefined' = TRUE
  /\ UNCHANGED <<q, sent, notifying, received>>

SpuriousWakeup(thread) ==
  /\ SpuriousWakeups
  /\ thread \in q.waiting
  /\ q' = Spurious(q, thread)
  /\ UNCHANGED <<sent, notifying, received, undefined>>

Producer(p) == PushWaits(p) \/ Push(p) \/ Notify(p)
Consumer(c) == PopWaits(c) \/ Pop(c) \/ PopUndefined(c)

\* Nothing is said of what follows the read of an element that is not there.
Next ==
  /\ ~undefined
  /\ \/ \E p \in Producers : Producer(p)
     \/ \E c \in Consumers : Consumer(c)
     \/ \E thread \in Threads : SpuriousWakeup(thread)

\* Every thread that can run runs: the scheduler leaves none out for ever.
Spec ==
  /\ Init /\ [][Next]_vars
  /\ \A p \in Producers : WF_vars(~undefined /\ Producer(p))
  /\ \A c \in Consumers : WF_vars(~undefined /\ Consumer(c))
----------------------------------------------------------------------------
(* Properties.                                                             *)

Items == Producers \X (1..Quota)

\* The type invariant.
TypeOK ==
  /\ q \in QueueOf(Items, Threads)
  /\ sent \in [Producers -> 0..Quota]
  /\ notifying \subseteq Producers
  /\ received \in [Consumers -> Seq(Items)]
  /\ undefined \in BOOLEAN

\* No wakeup is lost between a pop that finds the deque empty and a push that
\* is about to notify: a consumer sleeps on a deque that has elements only
\* while some producer still has its notify_all to do.
NoLostWakeup ==
  q.waiting \cap Consumers # {} /\ ~Empty(q) => notifying # {}

\* The values come out as they went in, each once. The deque grows at the
\* front and shrinks at the back: read backwards it is the abstract queue.
Reversed(s) == [n \in 1..Len(s) |-> s[Len(s) - n + 1]]

Abstract == INSTANCE Fifo WITH queue <- Reversed(q.d_queue)

ImplementsFifo == Abstract!Spec

\* Every value pushed is popped in the end, whoever sleeps at what moment, or
\* some pop has run into an empty deque.
Delivered == UNION {{received[c][n] : n \in 1..Len(received[c])} : c \in Consumers}

EveryPushIsPopped ==
  \A p \in Producers : \A n \in 1..Quota :
    sent[p] >= n ~> (<<p, n>> \in Delivered \/ undefined)

----------------------------------------------------------------------------
(* What the comments of stdQueue.hpp say, and the code does not do.        *)

\* "if we're here we know that there's an element in the queue"
PopFindsElement == ~undefined
============================================================================
