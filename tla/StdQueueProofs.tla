--------------------------- MODULE StdQueueProofs ---------------------------
(***************************************************************************)
(* The queue between threads, for any number of threads, any number of     *)
(* values and any size: no wakeup is lost, and what comes out is what went *)
(* in, once and in order.                                                  *)
(***************************************************************************)
EXTENDS StdQueue, SequenceTheorems, TLAPS

\* The oldest of some values, for a thread that finds any.
LEMMA BackIsElement ==
  ASSUME NEW S, NEW threads, NEW o \in QueueOf(S, threads), ~Empty(o)
  PROVE  Back(o) \in S
BY DEF QueueOf, Empty, Back, back

\* A queue object stays one under the operations on it.
LEMMA QueueOfOperations ==
  ASSUME NEW S, NEW threads, NEW o \in QueueOf(S, threads), NEW thread \in threads,
         NEW value \in S
  PROVE  /\ Wait(o, thread) \in QueueOf(S, threads)
         /\ NotifyAll(o) \in QueueOf(S, threads)
         /\ Spurious(o, thread) \in QueueOf(S, threads)
         /\ PushFront(o, thread, value) \in QueueOf(S, threads)
         /\ PopBack(o, thread) \in QueueOf(S, threads)
<1>1. o.d_queue \in Seq(S) /\ o.waiting \in SUBSET threads /\ o.woken \in SUBSET threads
  BY DEF QueueOf
<1>2. <<value>> \o o.d_queue \in Seq(S)
  BY <1>1
<1>3. SubSeq(o.d_queue, 1, Len(o.d_queue) - 1) \in Seq(S)
  BY <1>1
<1>4. QED
  BY <1>1, <1>2, <1>3 DEF QueueOf, Wait, NotifyAll, Spurious, PushFront, PopBack, push_front, pop_back

\* Every step of a thread keeps the variables in their types.
LEMMA TypeStep == TypeOK /\ [Next]_vars => TypeOK'
<1> SUFFICES ASSUME TypeOK, [Next]_vars
             PROVE  TypeOK'
  OBVIOUS
<1> USE QuotaAssumption DEF TypeOK, Threads
<1>1. ASSUME NEW p \in Producers, PushWaits(p)
      PROVE  TypeOK'
  BY <1>1, QueueOfOperations DEF PushWaits, Wait, QueueOf
<1>2. ASSUME NEW p \in Producers, Push(p)
      PROVE  TypeOK'
  <2>1. sent[p] + 1 \in 1..Quota /\ sent'[p] = sent[p] + 1
    BY <1>2 DEF Push, MorePushes
  <2>2. <<p, sent'[p]>> \in Items
    BY <2>1 DEF Items
  <2>3. q' \in QueueOf(Items, Threads)
    BY <1>2, <2>2, QueueOfOperations DEF Push
  <2>4. sent' \in [Producers -> 0..Quota]
    BY <1>2, <2>1 DEF Push
  <2>5. QED
    BY <1>2, <2>3, <2>4 DEF Push
<1>3. ASSUME NEW p \in Producers, Notify(p)
      PROVE  TypeOK'
  BY <1>3 DEF Notify, NotifyAll, QueueOf
<1>4. ASSUME NEW c \in Consumers, PopWaits(c)
      PROVE  TypeOK'
  BY <1>4 DEF PopWaits, Wait, QueueOf
<1>5. ASSUME NEW c \in Consumers, Pop(c)
      PROVE  TypeOK'
  <2>1. Back(q) \in Items
    BY <1>5, BackIsElement DEF Pop, CanPop
  <2>2. q' \in QueueOf(Items, Threads)
    BY <1>5, <2>1, QueueOfOperations DEF Pop
  <2>3. received' \in [Consumers -> Seq(Items)]
    BY <1>5, <2>1 DEF Pop
  <2>4. QED
    BY <1>5, <2>2, <2>3 DEF Pop
<1>6. ASSUME NEW c \in Consumers, PopUndefined(c)
      PROVE  TypeOK'
  BY <1>6 DEF PopUndefined
<1>7. ASSUME NEW thread \in Threads, SpuriousWakeup(thread)
      PROVE  TypeOK'
  BY <1>7 DEF SpuriousWakeup, Spurious, QueueOf
<1>8. CASE UNCHANGED vars
  BY <1>8 DEF vars
<1>9. QED
  BY <1>1, <1>2, <1>3, <1>4, <1>5, <1>6, <1>7, <1>8 DEF Next, Producer, Consumer

\* The variables always have their types.
THEOREM TypeCorrect == Spec => []TypeOK
<1>1. Init => TypeOK
  <2>1. <<>> \in Seq(Items)
    BY EmptySeq
  <2>2. EmptyQueue \in QueueOf(Items, Threads)
    BY <2>1 DEF EmptyQueue, QueueOf
  <2>3. Init => sent \in [Producers -> 0..Quota]
    BY QuotaAssumption DEF Init
  <2>4. Init => received \in [Consumers -> Seq(Items)]
    BY <2>1, Zenon DEF Init
  <2>5. QED
    BY <2>2, <2>3, <2>4 DEF Init, TypeOK
<1>2. QED
  BY <1>1, TypeStep, PTL DEF Spec

\* A consumer never sleeps on a deque with elements in it unless a producer is
\* on its way to wake it.
THEOREM NoWakeupIsLost == Spec => []NoLostWakeup
<1>1. Init => NoLostWakeup
  BY DEF Init, NoLostWakeup, EmptyQueue
<1>2. TypeOK /\ NoLostWakeup /\ [Next]_vars => NoLostWakeup'
  <2> SUFFICES ASSUME TypeOK, NoLostWakeup, [Next]_vars
               PROVE  NoLostWakeup'
    OBVIOUS
  <2> USE ThreadsAssumption DEF NoLostWakeup, Empty, TypeOK, QueueOf
  <2>1. ASSUME NEW p \in Producers, PushWaits(p)
        PROVE  NoLostWakeup'
    BY <2>1 DEF PushWaits, Wait
  <2>2. ASSUME NEW p \in Producers, Push(p)
        PROVE  NoLostWakeup'
    BY <2>2 DEF Push
  <2>3. ASSUME NEW p \in Producers, Notify(p)
        PROVE  NoLostWakeup'
    BY <2>3 DEF Notify, NotifyAll
  <2>4. ASSUME NEW c \in Consumers, PopWaits(c)
        PROVE  NoLostWakeup'
    BY <2>4 DEF PopWaits, Wait, MustWait
  <2>5. ASSUME NEW c \in Consumers, Pop(c)
        PROVE  NoLostWakeup'
    BY <2>5 DEF Pop, PopBack, pop_back, CanPop
  <2>6. ASSUME NEW c \in Consumers, PopUndefined(c)
        PROVE  NoLostWakeup'
    BY <2>6 DEF PopUndefined
  <2>7. ASSUME NEW thread \in Threads, SpuriousWakeup(thread)
        PROVE  NoLostWakeup'
    BY <2>7 DEF SpuriousWakeup, Spurious
  <2>8. CASE UNCHANGED vars
    BY <2>8 DEF vars
  <2>9. QED
    BY <2>1, <2>2, <2>3, <2>4, <2>5, <2>6, <2>7, <2>8 DEF Next, Producer, Consumer
<1>3. QED
  BY <1>1, <1>2, TypeCorrect, PTL DEF Spec

----------------------------------------------------------------------------
(* The queue implements the abstract one.                                  *)

\* Pushing at the front is appending to the reversed deque.
LEMMA ReversedPush ==
  ASSUME NEW S, NEW s \in Seq(S), NEW value \in S
  PROVE  Reversed(<<value>> \o s) = Append(Reversed(s), value)
<1> DEFINE longer == <<value>> \o s
<1>1. Len(s) \in Nat /\ Reversed(s) \in Seq(S) /\ Len(Reversed(s)) = Len(s)
  BY DEF Reversed
<1>2. /\ longer \in Seq(S) /\ Len(longer) = Len(s) + 1 /\ longer[1] = value
      /\ \A n \in 2..(Len(s) + 1) : longer[n] = s[n - 1]
  OBVIOUS
<1> HIDE DEF longer
<1>3. Reversed(longer) \in Seq(S) /\ Append(Reversed(s), value) \in Seq(S)
  BY <1>1, <1>2, AppendProperties DEF Reversed
<1>4. Len(Reversed(longer)) = Len(s) + 1 /\ Len(Append(Reversed(s), value)) = Len(s) + 1
  BY <1>1, <1>2, AppendProperties DEF Reversed
<1>5. ASSUME NEW n \in 1..(Len(s) + 1)
      PROVE  Reversed(longer)[n] = Append(Reversed(s), value)[n]
  <2>1. Reversed(longer)[n] = longer[Len(s) + 1 - n + 1]
    BY <1>2 DEF Reversed
  <2>2. CASE n = Len(s) + 1
    BY <1>1, <1>2, <2>1, <2>2, AppendProperties
  <2>3. CASE n \in 1..Len(s)
    <3>1. Append(Reversed(s), value)[n] = Reversed(s)[n]
      BY <1>1, <2>3, AppendProperties
    <3>2. QED
      BY <1>1, <1>2, <2>1, <2>3, <3>1 DEF Reversed
  <2>4. QED
    BY <1>1, <2>2, <2>3
<1>6. QED
  BY <1>3, <1>4, <1>5, SeqEqual DEF longer

\* Popping at the back is taking the head of the reversed deque.
LEMMA ReversedPop ==
  ASSUME NEW S, NEW s \in Seq(S), s # <<>>
  PROVE  /\ Reversed(s) # <<>>
         /\ Head(Reversed(s)) = s[Len(s)]
         /\ Reversed(SubSeq(s, 1, Len(s) - 1)) = Tail(Reversed(s))
<1> DEFINE shorter == SubSeq(s, 1, Len(s) - 1)
<1>1. Len(s) \in Nat \ {0}
  OBVIOUS
<1>2. Reversed(s) \in Seq(S) /\ Len(Reversed(s)) = Len(s) /\ Reversed(s) # <<>>
  BY <1>1 DEF Reversed
<1>3. Head(Reversed(s)) = s[Len(s)]
  BY <1>1, <1>2 DEF Reversed
<1>4. /\ shorter \in Seq(S) /\ Len(shorter) = Len(s) - 1
      /\ \A n \in 1..(Len(s) - 1) : shorter[n] = s[n]
  <2> DEFINE k == Len(s) - 1
  <2>1. k \in Int /\ \A n \in 1..k : s[n] \in S
    BY <1>1, ElementOfSeq
  <2> HIDE DEF k
  <2>2. /\ SubSeq(s, 1, k) \in Seq(S)
        /\ Len(SubSeq(s, 1, k)) = IF 1 <= k THEN k - 1 + 1 ELSE 0
        /\ \A n \in 1..(k - 1 + 1) : SubSeq(s, 1, k)[n] = s[1 + n - 1]
    BY <2>1, SubSeqProperties
  <2>3. shorter = SubSeq(s, 1, k)
    BY Zenon DEF shorter, k
  <2>4. k = Len(s) - 1 /\ k \in Nat
    BY <1>1 DEF k
  <2> HIDE DEF shorter
  <2>5. shorter \in Seq(S) /\ Len(shorter) = Len(s) - 1
    BY <2>2, <2>3, <2>4
  <2>6. ASSUME NEW n \in 1..(Len(s) - 1)
        PROVE  shorter[n] = s[n]
    BY <2>2, <2>3, <2>4
  <2>7. QED
    BY <2>5, <2>6
<1> HIDE DEF shorter
<1>5. /\ Tail(Reversed(s)) \in Seq(S) /\ Len(Tail(Reversed(s))) = Len(s) - 1
      /\ \A n \in 1..(Len(s) - 1) : Tail(Reversed(s))[n] = Reversed(s)[n + 1]
  BY <1>2, HeadTailProperties
<1>6. Reversed(shorter) \in Seq(S) /\ Len(Reversed(shorter)) = Len(s) - 1
  BY <1>1, <1>4 DEF Reversed
<1>7. ASSUME NEW n \in 1..(Len(s) - 1)
      PROVE  Reversed(shorter)[n] = Tail(Reversed(s))[n]
  <2>1. Len(s) - n \in 1..(Len(s) - 1) /\ n + 1 \in 1..Len(s)
    BY <1>1
  <2>2. Reversed(shorter)[n] = shorter[Len(s) - n]
    BY <1>1, <1>4 DEF Reversed
  <2>3. Reversed(s)[n + 1] = s[Len(s) - n]
    BY <1>1, <2>1 DEF Reversed
  <2>4. QED
    BY <1>4, <1>5, <2>1, <2>2, <2>3
<1>8. Reversed(shorter) = Tail(Reversed(s))
  BY <1>5, <1>6, <1>7, SeqEqual
<1>9. QED
  BY <1>2, <1>3, <1>8 DEF shorter

\* Every step of a thread is a step of the abstract queue, or none.
THEOREM Refinement == Spec => ImplementsFifo
<1>1. Init => Abstract!Init
  BY DEF Init, Abstract!Init, EmptyQueue, Reversed
<1>2. TypeOK /\ [Next]_vars =>
        [Abstract!Next]_<<sent, Reversed(q.d_queue), received>>
  <2> SUFFICES ASSUME TypeOK, [Next]_vars
               PROVE  \/ Abstract!Next
                      \/ UNCHANGED <<sent, Reversed(q.d_queue), received>>
    BY Zenon
  <2>1. q.d_queue \in Seq(Items) /\ q \in QueueOf(Items, Threads)
    BY DEF TypeOK, QueueOf
  <2>2. ASSUME NEW p \in Producers, Push(p)
        PROVE  Abstract!Send(p)
    <3>1. sent[p] < Quota /\ <<p, sent'[p]>> \in Items
      BY <2>2, QuotaAssumption DEF Push, MorePushes, TypeOK, Items
    <3>2. q'.d_queue = <<(<<p, sent'[p]>>)>> \o q.d_queue
      BY <2>1, <2>2 DEF Push, PushFront, push_front, QueueOf
    <3>3. Reversed(q'.d_queue) = Append(Reversed(q.d_queue), <<p, sent'[p]>>)
      BY <2>1, <3>1, <3>2, ReversedPush
    <3>4. QED
      BY <2>2, <3>1, <3>3 DEF Push, Abstract!Send
  <2>3. ASSUME NEW c \in Consumers, Pop(c)
        PROVE  Abstract!Receive(c)
    <3>1. q.d_queue # <<>> /\ Back(q) = q.d_queue[Len(q.d_queue)]
      BY <2>3 DEF Pop, CanPop, Empty, Back, back
    <3>2. q'.d_queue = SubSeq(q.d_queue, 1, Len(q.d_queue) - 1)
      BY <2>1, <2>3 DEF Pop, PopBack, pop_back, QueueOf
    <3>3. /\ Reversed(q.d_queue) # <<>>
          /\ Head(Reversed(q.d_queue)) = Back(q)
          /\ Reversed(q'.d_queue) = Tail(Reversed(q.d_queue))
      BY <2>1, <3>1, <3>2, ReversedPop
    <3>4. QED
      BY <2>3, <3>3 DEF Pop, Abstract!Receive
  <2>4. ASSUME NEW thread \in Threads, q' \in {Wait(q, thread), NotifyAll(q), Spurious(q, thread), q}
        PROVE  q'.d_queue = q.d_queue
    BY <2>1, <2>4 DEF Wait, NotifyAll, Spurious, QueueOf
  <2>5. ASSUME NEW p \in Producers, PushWaits(p) \/ Notify(p)
        PROVE  UNCHANGED <<sent, Reversed(q.d_queue), received>>
    BY <2>4, <2>5 DEF PushWaits, Notify, Threads
  <2>6. ASSUME NEW c \in Consumers, PopWaits(c) \/ PopUndefined(c)
        PROVE  UNCHANGED <<sent, Reversed(q.d_queue), received>>
    BY <2>4, <2>6 DEF PopWaits, PopUndefined, Threads
  <2>7. ASSUME NEW thread \in Threads, SpuriousWakeup(thread)
        PROVE  UNCHANGED <<sent, Reversed(q.d_queue), received>>
    BY <2>4, <2>7 DEF SpuriousWakeup
  <2>8. CASE UNCHANGED vars
    BY <2>8 DEF vars
  <2>9. QED
    BY <2>2, <2>3, <2>5, <2>6, <2>7, <2>8 DEF Next, Producer, Consumer, Abstract!Next
<1>3. QED
  BY <1>1, <1>2, TypeCorrect, PTL DEF Spec, ImplementsFifo, Abstract!Spec
============================================================================
