-------------------------- MODULE ParallelForProofs --------------------------
(***************************************************************************)
(* Proofs about ParallelFor: its inductive invariant, for any number of    *)
(* workers and loops of any length, and what follows from it.              *)
(***************************************************************************)
EXTENDS ParallelForInvariant, TLAPS

-----------------------------------------------------------------------------
(* The ranges of init_data_static meet end to end and cover the loop.      *)

\* The quotient and the remainder of the length by the number of workers.
LEMMA DivMod ==
  ASSUME NEW n \in Nat, NEW k \in Nat \ {0}
  PROVE  /\ n \div k \in Nat
         /\ n % k \in 0..(k - 1)
         /\ n = k * (n \div k) + (n % k)
BY SMT

\* The first range starts at 0, the last one ends at n.
LEMMA RangesCover ==
  ASSUME NEW n \in Nat, NEW k \in Nat \ {0}
  PROVE  RangeStart(k, 0, n) = 0 /\ RangeStart(k, k, n) = n
<1> DEFINE q == n \div k
           r == n % k
<1>1. q \in Nat /\ r \in 0..(k - 1) /\ n = k * q + r
  BY DivMod
<1>2. /\ RangeStart(k, 0, n) = 0 * q + Least(0, r)
      /\ RangeStart(k, k, n) = k * q + Least(k, r)
  BY DEF RangeStart
<1> HIDE DEF q, r
<1>3. Least(0, r) = 0 /\ Least(k, r) = r
  BY <1>1 DEF Least
<1>4. QED
  BY <1>1, <1>2, <1>3, 0 * q = 0

\* Each range is as long as the code makes it, the first ones by one longer.
LEMMA RangeLength ==
  ASSUME NEW n \in Nat, NEW k \in Nat \ {0}, NEW w \in Nat
  PROVE  /\ RangeStart(k, w, n) \in Nat
         /\ RangeStart(k, w + 1, n)
              = RangeStart(k, w, n) + n \div k + (IF w < n % k THEN 1 ELSE 0)
<1> DEFINE q == n \div k
           r == n % k
<1>1. q \in Nat /\ r \in 0..(k - 1)
  BY DivMod
<1>2. /\ RangeStart(k, w, n) = w * q + Least(w, r)
      /\ RangeStart(k, w + 1, n) = (w + 1) * q + Least(w + 1, r)
  BY DEF RangeStart
<1> HIDE DEF q, r
<1>3. w * q \in Nat /\ (w + 1) * q = w * q + q
  BY <1>1, SMT
<1>4. /\ Least(w, r) \in Nat
      /\ Least(w + 1, r) = Least(w, r) + (IF w < r THEN 1 ELSE 0)
  BY <1>1 DEF Least
<1>5. QED
  BY <1>1, <1>2, <1>3, <1>4 DEF q, r

\* The ranges follow each other.
LEMMA RangesOrdered ==
  ASSUME NEW n \in Nat, NEW k \in Nat \ {0}, NEW w1 \in Nat, NEW w2 \in Nat, w1 <= w2
  PROVE  /\ RangeStart(k, w1, n) \in Nat
         /\ RangeStart(k, w2, n) \in Nat
         /\ RangeStart(k, w1, n) <= RangeStart(k, w2, n)
<1> DEFINE q == n \div k
           r == n % k
<1>1. q \in Nat /\ r \in 0..(k - 1)
  BY DivMod
<1>2. /\ RangeStart(k, w1, n) = w1 * q + Least(w1, r)
      /\ RangeStart(k, w2, n) = w2 * q + Least(w2, r)
  BY DEF RangeStart
<1> HIDE DEF q, r
<1>3. PICK e \in Nat : w2 = w1 + e
  BY w2 = w1 + (w2 - w1), w2 - w1 \in Nat
<1>4. /\ w1 * q \in Nat /\ e * q \in Nat
      /\ w2 * q = w1 * q + e * q
  BY <1>1, <1>3, SMT
<1>5. Least(w1, r) \in Nat /\ Least(w2, r) \in Nat /\ Least(w1, r) <= Least(w2, r)
  BY <1>1 DEF Least
<1>6. QED
  BY <1>2, <1>4, <1>5

-----------------------------------------------------------------------------
(* Types. *)

ThreadType ==
  [pc : {"none", "svc", "loop", "body", "freeze", "asleep", "woken", "again", "leave", "finished"},
   stp : BOOLEAN, freezing : 0..2, frozen : BOOLEAN, at : Nat, to : Nat]

MainType ==
  [pc : {"create", "spawn", "settle", "idle", "setloop", "send", "thaw", "join",
         "alone", "body", "stop", "wait", "endwait", "endthaw", "join_thread", "done"},
   at : Threads, start : Nat, stop : Lengths \cup {0}, asleep : BOOLEAN, calls : 0..Calls]

TaskType == {GoOut} \cup (Nat \X Nat)

EntryType == [ntask : Int, start : Nat, end : Nat]

Progresses == {"waiting", "running", "over"}

\* What TypeOK says of single threads, entries and counts.
LEMMA Types ==
  ASSUME TypeOK
  PROVE  /\ nw \in Nat \ {0}
         /\ main \in MainType /\ main.stop \in Nat /\ main.at \in Nat
         /\ Workers = 0..(nw - 1) /\ Threads = 0..nw /\ Emitter = nw
         /\ \A t \in Threads : thread[t] \in ThreadType
         /\ \A w \in Workers : queue[w] \in Seq(TaskType) /\ table[w] \in EntryType
         /\ DOMAIN iteration = 0..(main.stop - 1)
<1>1. nw \in Nat \ {0}
  BY ConstantsAssumption DEF TypeOK
<1>2. main \in MainType
  BY DEF TypeOK, MainType
<1>3. main.stop \in Nat
  <2>1. main.stop \in Lengths \cup {0}
    BY <1>2 DEF MainType
  <2>2. Lengths \subseteq Nat
    BY ConstantsAssumption
  <2>3. main.stop \in Lengths \/ main.stop = 0
    BY <2>1, Zenon
  <2>4. QED
    BY <2>2, <2>3, 0 \in Nat
<1>4. main.at \in Nat
  BY <1>1, <1>2 DEF MainType, Threads
<1>5. \A t \in Threads : thread[t] \in ThreadType
  BY DEF TypeOK, ThreadType
<1>6. \A w \in Workers : queue[w] \in Seq(TaskType) /\ table[w] \in EntryType
  BY DEF TypeOK, TaskType, EntryType
<1>7. DOMAIN iteration = 0..(main.stop - 1)
  BY DEF TypeOK
<1>8. QED
  BY <1>1, <1>2, <1>3, <1>4, <1>5, <1>6, <1>7 DEF Workers, Threads, Emitter

\* The ranges of the workers in the loop at hand.
LEMMA Ranges ==
  ASSUME TypeOK, NEW n \in Nat
  PROVE  /\ Lo(0, n) = 0 /\ Lo(nw, n) = n
         /\ \A w \in Workers :
              /\ Lo(w, n) \in Nat /\ Lo(w + 1, n) \in Nat
              /\ Lo(w, n) <= Lo(w + 1, n) /\ Lo(w + 1, n) <= n
              /\ Lo(w + 1, n) = Lo(w, n) + n \div nw + (IF w < n % nw THEN 1 ELSE 0)
              /\ \A v \in Workers : w < v => Lo(w + 1, n) <= Lo(v, n)
<1>1. nw \in Nat \ {0} /\ Workers = 0..(nw - 1)
  BY Types
<1>2. Lo(0, n) = 0 /\ Lo(nw, n) = n
  BY <1>1, RangesCover DEF Lo
<1>3. ASSUME NEW w \in Workers
      PROVE  /\ Lo(w, n) \in Nat /\ Lo(w + 1, n) \in Nat
             /\ Lo(w, n) <= Lo(w + 1, n) /\ Lo(w + 1, n) <= n
             /\ Lo(w + 1, n) = Lo(w, n) + n \div nw + (IF w < n % nw THEN 1 ELSE 0)
             /\ \A v \in Workers : w < v => Lo(w + 1, n) <= Lo(v, n)
  <2>1. w \in Nat /\ w + 1 \in Nat /\ w <= w + 1 /\ w + 1 <= nw /\ nw \in Nat
    BY <1>1
  <2>2. Lo(w, n) \in Nat /\ Lo(w + 1, n) \in Nat /\ Lo(w, n) <= Lo(w + 1, n)
    BY <1>1, <2>1, RangesOrdered DEF Lo
  <2>3. Lo(w + 1, n) <= Lo(nw, n)
    BY <1>1, <2>1, RangesOrdered DEF Lo
  <2>4. Lo(w + 1, n) = Lo(w, n) + n \div nw + (IF w < n % nw THEN 1 ELSE 0)
    BY <1>1, <2>1, RangeLength DEF Lo
  <2>5. ASSUME NEW v \in Workers, w < v PROVE Lo(w + 1, n) <= Lo(v, n)
    <3>1. v \in Nat /\ w + 1 <= v
      BY <1>1, <2>1, <2>5
    <3>2. QED
      BY <1>1, <2>1, <3>1, RangesOrdered DEF Lo
  <2>6. QED
    BY <1>2, <2>2, <2>3, <2>4, <2>5
<1>4. QED
  BY <1>2, <1>3

-----------------------------------------------------------------------------
(* One step of a thread, and what it leaves alone. *)

Wakes(t) ==
  /\ thread[t].pc = "asleep"
  /\ thread' = [thread EXCEPT ![t].pc = "woken"]
  /\ UNCHANGED <<nw, main, queue, table, chunk, iteration>>

StepOf(t) == ThreadStep(t) \/ Wakes(t)

\* Each step but those of svc leaves data alone.
LEMMA StepCases ==
  ASSUME NEW t, StepOf(t)
  PROVE  \/ t = Emitter /\ Broadcast
         \/ t # Emitter /\ (Pop(t) \/ Begin(t) \/ End(t) \/ NextTask(t))
         \/ Freeze(t) \/ WakeUp(t) \/ Again(t) \/ Leave(t) \/ Wakes(t)
BY DEF StepOf, ThreadStep, Svc

\* A step of thread t leaves the other threads and main alone, but may wake main.
LEMMA StepFrame ==
  ASSUME TypeOK, NEW t \in Threads, StepOf(t)
  PROVE  /\ nw' = nw /\ chunk' = chunk
         /\ \A u \in Threads : u # t => thread'[u] = thread[u]
         /\ main' = main \/ main' = [main EXCEPT !.asleep = @ /\ main.at # t]
<1>1. thread \in [Threads -> ThreadType]
  BY DEF TypeOK, ThreadType
<1>2. CASE t = Emitter /\ Broadcast
  BY <1>1, <1>2 DEF Broadcast
<1>3. CASE Pop(t)
  BY <1>1, <1>3 DEF Pop
<1>4. CASE Begin(t) \/ End(t)
  BY <1>1, <1>4 DEF Begin, End
<1>5. CASE NextTask(t)
  BY <1>1, <1>5 DEF NextTask
<1>6. CASE Freeze(t)
  BY <1>1, <1>6 DEF Freeze, FallAsleep, StayAwake, SignalFrozen
<1>7. CASE WakeUp(t)
  BY <1>1, <1>7 DEF WakeUp, FallAsleep, StayAwake, SignalFrozen
<1>8. CASE Again(t) \/ Wakes(t)
  BY <1>1, <1>8 DEF Again, Wakes
<1>9. CASE Leave(t)
  BY <1>1, <1>9 DEF Leave, SignalFrozen
<1>10. QED
  BY StepCases, <1>2, <1>3, <1>4, <1>5, <1>6, <1>7, <1>8, <1>9

\* Main stays where it is.
LEMMA StepMain ==
  ASSUME TypeOK, NEW t \in Threads, StepOf(t)
  PROVE  /\ main'.pc = main.pc /\ main'.at = main.at /\ main'.start = main.start
         /\ main'.stop = main.stop /\ main' \in MainType
         /\ main'.asleep => main.asleep
<1>1. main \in MainType
  BY Types
<1>2. CASE main' = main
  BY <1>1, <1>2
<1>3. CASE main' = [main EXCEPT !.asleep = @ /\ main.at # t]
  <2>1. /\ main'.pc = main.pc /\ main'.at = main.at /\ main'.start = main.start
        /\ main'.stop = main.stop /\ main'.calls = main.calls
        /\ main'.asleep = (main.asleep /\ main.at # t)
    BY <1>1, <1>3 DEF MainType
  <2>2. main.asleep \in BOOLEAN /\ (main.asleep /\ main.at # t) \in BOOLEAN
    BY <1>1, Zenon DEF MainType
  <2>3. main' = [main EXCEPT !.asleep = (main.asleep /\ main.at # t)]
    BY <1>3
  <2>4. main' \in MainType
    BY <1>1, <2>2, <2>3 DEF MainType
  <2>5. main'.asleep => main.asleep
    BY <2>1, <2>2, Zenon
  <2>6. QED
    BY <2>1, <2>4, <2>5
<1>4. QED
  BY <1>2, <1>3, StepFrame

\* A thread that sleeps, or has woken up for nothing, does nothing but sleep on.
LEMMA ParkedStep ==
  ASSUME TypeOK, NEW t \in Threads, NEW s \in BOOLEAN, Parked(t, s), StepOf(t)
  PROVE  /\ Parked(t, s)' /\ thread'[t].at = thread[t].at
         /\ UNCHANGED <<queue, table, iteration>>
<1>1. thread \in [Threads -> ThreadType]
  BY DEF TypeOK, ThreadType
<1>2. WakeUp(t) \/ Wakes(t)
  BY StepCases DEF Parked, Broadcast, Pop, Begin, End, NextTask, Freeze, Again, Leave
<1>3. CASE WakeUp(t)
  <2>1. thread' = [thread EXCEPT ![t].frozen = TRUE, ![t].pc = "asleep"]
    BY <1>3 DEF Parked, WakeUp, FallAsleep
  <2>2. QED
    BY <1>1, <1>3, <2>1 DEF Parked, WakeUp, ThreadType
<1>4. CASE Wakes(t)
  BY <1>1, <1>4 DEF Parked, Wakes, ThreadType
<1>5. QED
  BY <1>2, <1>3, <1>4

\* Once told to leave, a thread leaves.
LEMMA LeavingStep ==
  ASSUME TypeOK, NEW t \in Threads, Leaving(t), StepOf(t)
  PROVE  Leaving(t)' /\ UNCHANGED <<queue, table, iteration>>
<1>1. thread \in [Threads -> ThreadType]
  BY DEF TypeOK, ThreadType
<1>2. WakeUp(t) \/ Again(t) \/ Leave(t)
  BY StepCases DEF Leaving, Broadcast, Pop, Begin, End, NextTask, Freeze, Wakes
<1>3. CASE WakeUp(t)
  <2>1. thread' = [thread EXCEPT ![t].pc = "again", ![t].freezing = 0]
    BY <1>1, <1>3 DEF Leaving, WakeUp, StayAwake
  <2>2. QED
    BY <1>1, <1>3, <2>1 DEF Leaving, WakeUp, ThreadType
<1>4. CASE Again(t)
  BY <1>1, <1>4 DEF Leaving, Again, ThreadType
<1>5. CASE Leave(t)
  BY <1>1, <1>5 DEF Leaving, Leave, ThreadType
<1>6. QED
  BY StepCases, <1>2, <1>3, <1>4, <1>5

\* A thread that is not there, not yet or no longer, takes no step.
LEMMA NoStep ==
  ASSUME NEW t, NotSpawned(t) \/ Gone(t), StepOf(t)
  PROVE  FALSE
<1>1. thread[t].pc \in {"none", "finished"}
  BY DEF NotSpawned, NewThread, Gone
<1>2. QED
  BY <1>1, StepCases DEF Broadcast, Pop, Begin, End, NextTask, Freeze, WakeUp, Again, Leave, Wakes

\* Records whose fields change stay records.
LEMMA EntryUpdate ==
  ASSUME NEW r \in EntryType, NEW a \in Int, NEW b \in Nat
  PROVE  [r EXCEPT !.ntask = a, !.start = b] \in EntryType
BY DEF EntryType

LEMMA ThreadUpdate ==
  ASSUME thread \in [Threads -> ThreadType], NEW t \in Threads, NEW r \in ThreadType,
         thread' = [thread EXCEPT ![t] = r]
  PROVE  thread' \in [Threads -> ThreadType]
OBVIOUS

\* What becomes of the record of a thread that takes a step.
LEMMA StepThread ==
  ASSUME TypeOK, NEW t \in Threads, StepOf(t)
  PROVE  thread' \in [Threads -> ThreadType]
<1>1. thread \in [Threads -> ThreadType]
  BY DEF TypeOK, ThreadType
<1>2. thread[t] \in ThreadType
  BY <1>1
<1>3. CASE t = Emitter /\ Broadcast
  <2>1. \/ thread' = [thread EXCEPT ![t] = [thread[t] EXCEPT !.at = thread[t].at + 1]]
        \/ thread' = [thread EXCEPT ![t] = [thread[t] EXCEPT !.pc = "freeze"]]
    BY <1>3 DEF Broadcast
  <2>2. /\ [thread[t] EXCEPT !.at = thread[t].at + 1] \in ThreadType
        /\ [thread[t] EXCEPT !.pc = "freeze"] \in ThreadType
    BY <1>2 DEF ThreadType
  <2>3. QED
    BY <1>1, <2>1, <2>2, ThreadUpdate
<1>4. CASE t # Emitter /\ Pop(t)
  <2>1. t \in Workers
    BY <1>4, Types
  <2>2. queue[t] \in Seq(TaskType) /\ queue[t] # <<>>
    BY <1>4, <2>1, Types DEF Pop
  <2>3. Head(queue[t]) \in TaskType
    BY <2>2
  <2>4. CASE Head(queue[t]) = GoOut
    <3>1. thread' = [thread EXCEPT ![t] = [thread[t] EXCEPT !.pc = "freeze"]]
      BY <1>4, <2>4 DEF Pop
    <3>2. [thread[t] EXCEPT !.pc = "freeze"] \in ThreadType
      BY <1>2 DEF ThreadType
    <3>3. QED
      BY <1>1, <3>1, <3>2, ThreadUpdate
  <2>5. CASE Head(queue[t]) # GoOut
    <3>1. Head(queue[t]) \in Nat \X Nat
      BY <2>3, <2>5 DEF TaskType
    <3>2. PICK a \in Nat, b \in Nat : Head(queue[t])[1] = a /\ Head(queue[t])[2] = b
      BY <3>1
    <3>3. thread' = [thread EXCEPT ![t] = [thread[t] EXCEPT !.pc = "loop", !.at = a, !.to = b]]
      BY <1>4, <2>5, <3>2 DEF Pop
    <3>4. [thread[t] EXCEPT !.pc = "loop", !.at = a, !.to = b] \in ThreadType
      BY <1>2 DEF ThreadType
    <3>5. QED
      BY <1>1, <3>3, <3>4, ThreadUpdate
  <2>6. QED
    BY <2>4, <2>5
<1>5. CASE Begin(t) \/ End(t)
  <2>0. PICK a \in Nat : a = thread[t].at + 1
    BY <1>2 DEF ThreadType
  <2>1. \/ thread' = [thread EXCEPT ![t] = [thread[t] EXCEPT !.pc = "body"]]
        \/ thread' = [thread EXCEPT ![t] = [thread[t] EXCEPT !.pc = "loop", !.at = a]]
    BY <1>5, <2>0 DEF Begin, End
  <2>2. [thread[t] EXCEPT !.pc = "body"] \in ThreadType
    BY <1>2 DEF ThreadType
  <2>3. [thread[t] EXCEPT !.pc = "loop", !.at = a] \in ThreadType
    BY <1>2 DEF ThreadType
  <2>4. QED
    BY <1>1, <2>1, <2>2, <2>3, ThreadUpdate
<1>6. CASE t # Emitter /\ NextTask(t)
  <2>1. table[t] \in EntryType /\ chunk \in Nat
    BY <1>6, Types DEF TypeOK
  <2>2. PICK a \in Nat, b \in Nat : FirstOf(t)[1] = a /\ FirstOf(t)[2] = b
    BY <2>1 DEF FirstOf, Least, EntryType
  <2>3. \/ thread' = [thread EXCEPT ![t] = [thread[t] EXCEPT !.at = a, !.to = b]]
        \/ thread' = [thread EXCEPT ![t] = [thread[t] EXCEPT !.pc = "freeze"]]
    BY <1>6, <2>2 DEF NextTask
  <2>4. /\ [thread[t] EXCEPT !.at = a, !.to = b] \in ThreadType
        /\ [thread[t] EXCEPT !.pc = "freeze"] \in ThreadType
    BY <1>2 DEF ThreadType
  <2>5. QED
    BY <1>1, <2>3, <2>4, ThreadUpdate
<1>7. CASE Freeze(t) \/ WakeUp(t)
  <2>1. \/ thread' = [thread EXCEPT ![t] = [thread[t] EXCEPT !.frozen = TRUE, !.pc = "asleep"]]
        \/ \E f \in 0..2 :
             thread' = [thread EXCEPT ![t] = [thread[t] EXCEPT !.pc = "again", !.freezing = f]]
    BY <1>1, <1>7, 0 \in 0..2, 1 \in 0..2 DEF Freeze, WakeUp, FallAsleep, StayAwake
  <2>2. [thread[t] EXCEPT !.frozen = TRUE, !.pc = "asleep"] \in ThreadType
    BY <1>2 DEF ThreadType
  <2>3. ASSUME NEW f \in 0..2
        PROVE  [thread[t] EXCEPT !.pc = "again", !.freezing = f] \in ThreadType
    BY <1>2 DEF ThreadType
  <2>4. QED
    BY <1>1, <2>1, <2>2, <2>3, ThreadUpdate
<1>8. CASE Again(t) \/ Wakes(t) \/ Leave(t)
  <2>1. \/ thread' = [thread EXCEPT ![t] = [thread[t] EXCEPT !.pc = "leave"]]
        \/ thread' = [thread EXCEPT ![t] = [thread[t] EXCEPT !.pc = "svc"]]
        \/ thread' = [thread EXCEPT ![t] = [thread[t] EXCEPT !.pc = "woken"]]
        \/ thread' = [thread EXCEPT ![t] = [thread[t] EXCEPT !.frozen = TRUE, !.pc = "finished"]]
        \/ thread' = [thread EXCEPT ![t] = [thread[t] EXCEPT !.pc = "finished"]]
    BY <1>8 DEF Again, Wakes, Leave
  <2>2. /\ [thread[t] EXCEPT !.pc = "leave"] \in ThreadType
        /\ [thread[t] EXCEPT !.pc = "svc"] \in ThreadType
        /\ [thread[t] EXCEPT !.pc = "woken"] \in ThreadType
        /\ [thread[t] EXCEPT !.frozen = TRUE, !.pc = "finished"] \in ThreadType
        /\ [thread[t] EXCEPT !.pc = "finished"] \in ThreadType
    BY <1>2 DEF ThreadType
  <2>3. QED
    BY <1>1, <2>1, <2>2, ThreadUpdate
<1>9. QED
  BY StepCases, <1>3, <1>4, <1>5, <1>6, <1>7, <1>8

\* Queues and tables stay queues and tables.
LEMMA StepTypes ==
  ASSUME TypeOK, NEW t \in Threads, StepOf(t)
  PROVE  /\ queue' \in [Workers -> Seq(TaskType)]
         /\ table' \in [Workers -> EntryType]
<1>1. /\ queue \in [Workers -> Seq(TaskType)]
      /\ table \in [Workers -> EntryType]
      /\ chunk \in Nat
  BY DEF TypeOK, TaskType, EntryType
<1>2. CASE t = Emitter /\ Broadcast
  <2>1. table' = table
    BY <1>2 DEF Broadcast
  <2>2. CASE thread[t].at < nw
    <3>1. queue' = [queue EXCEPT ![thread[t].at] = Append(queue[thread[t].at], GoOut)]
      BY <1>2, <2>2 DEF Broadcast
    <3>2. thread[t].at \in Nat
      BY Types DEF ThreadType
    <3>3. thread[t].at \in Workers /\ GoOut \in TaskType
      BY <2>2, <3>2, Types DEF TaskType
    <3>4. Append(queue[thread[t].at], GoOut) \in Seq(TaskType)
      BY <1>1, <3>3
    <3>5. QED
      BY <1>1, <2>1, <3>1, <3>4
  <2>3. CASE ~(thread[t].at < nw)
    BY <1>1, <1>2, <2>1, <2>3 DEF Broadcast
  <2>4. QED
    BY <2>2, <2>3
<1>3. CASE t # Emitter /\ Pop(t)
  <2>1. t \in Workers
    BY <1>3, Types
  <2>2. queue[t] \in Seq(TaskType) /\ queue[t] # <<>>
    BY <1>1, <1>3, <2>1 DEF Pop
  <2>3. Tail(queue[t]) \in Seq(TaskType)
    BY <2>2
  <2>4. QED
    BY <1>1, <1>3, <2>3 DEF Pop
<1>4. CASE t # Emitter /\ NextTask(t)
  <2>1. t \in Workers
    BY <1>4, Types
  <2>2. table[t] \in EntryType
    BY <1>1, <2>1
  <2>3. PICK a \in Int : table[t].ntask - 1 = a
    BY <2>2 DEF EntryType
  <2>8. PICK b \in Nat : FirstOf(t)[2] = b
    BY <1>1, <2>2 DEF FirstOf, Least, EntryType
  <2>4. Without(t) = [table EXCEPT ![t] = [table[t] EXCEPT !.ntask = a, !.start = b]]
    BY <2>3, <2>8 DEF Without
  <2>5. [table[t] EXCEPT !.ntask = a, !.start = b] \in EntryType
    BY <2>2, EntryUpdate
  <2>6. Without(t) \in [Workers -> EntryType]
    BY <1>1, <2>4, <2>5
  <2>7. QED
    BY <1>1, <1>4, <2>6 DEF NextTask
<1>5. CASE Begin(t) \/ End(t) \/ Freeze(t) \/ WakeUp(t) \/ Again(t) \/ Leave(t) \/ Wakes(t)
  <2>1. queue' = queue /\ table' = table
    BY <1>5 DEF Begin, End, Freeze, WakeUp, Again, Leave, Wakes
  <2>2. QED
    BY <1>1, <2>1
<1>6. QED
  BY StepCases, <1>2, <1>3, <1>4, <1>5

-----------------------------------------------------------------------------
(* What a step of a thread makes of the invariant's words for that thread. *)

\* In the constructor the emitter tells one worker after the other to go to sleep.
LEMMA WarmEmitterStep ==
  ASSUME TypeOK, WarmEmitter, StepOf(Emitter)
  PROVE  /\ WarmEmitter' /\ UNCHANGED <<table, iteration>>
         /\ \/ thread'[Emitter].at = thread[Emitter].at /\ queue' = queue
            \/ /\ thread[Emitter].at \in Workers
               /\ thread'[Emitter].at = thread[Emitter].at + 1
               /\ queue' = [queue EXCEPT ![thread[Emitter].at] = Append(@, GoOut)]
<1>1. /\ thread \in [Threads -> ThreadType] /\ Emitter \in Threads
      /\ nw \in Nat \ {0} /\ Workers = 0..(nw - 1) /\ nw' = nw /\ Emitter' = Emitter
  <2>1. Emitter \in Threads /\ nw \in Nat \ {0} /\ Workers = 0..(nw - 1)
    BY Types
  <2>2. nw' = nw
    BY <2>1, StepFrame
  <2>3. QED
    BY <2>1, <2>2 DEF TypeOK, ThreadType, Emitter
<1>2. CASE thread[Emitter].pc = "svc" /\ thread[Emitter].at \in 0..nw /\ Up(Emitter)
  <2>1. Broadcast
    BY <1>2, StepCases DEF Up, Pop, Begin, End, NextTask, Freeze, WakeUp, Again, Leave, Wakes
  <2>2. CASE thread[Emitter].at < nw
    <3>1. /\ thread' = [thread EXCEPT ![Emitter].at = @ + 1]
          /\ queue' = [queue EXCEPT ![thread[Emitter].at] = Append(@, GoOut)]
          /\ UNCHANGED <<table, iteration>>
      BY <2>1, <2>2 DEF Broadcast
    <3>2. /\ thread'[Emitter].pc = "svc" /\ thread'[Emitter].at = thread[Emitter].at + 1
          /\ Up(Emitter)'
      BY <1>1, <1>2, <3>1 DEF Up, ThreadType
    <3>3. thread'[Emitter'].at \in 0..nw'
      BY <1>1, <1>2, <2>2, <3>2
    <3>5. WarmEmitter'
      BY <1>1, <3>2, <3>3 DEF WarmEmitter
    <3>4. QED
      BY <1>1, <1>2, <2>2, <3>1, <3>2, <3>5
  <2>3. CASE ~(thread[Emitter].at < nw)
    <3>1. /\ thread' = [thread EXCEPT ![Emitter].pc = "freeze"]
          /\ UNCHANGED <<queue, table, iteration>>
      BY <2>1, <2>3 DEF Broadcast
    <3>2. /\ thread'[Emitter].pc = "freeze" /\ thread'[Emitter].at = thread[Emitter].at
          /\ Up(Emitter)'
      BY <1>1, <1>2, <3>1 DEF Up, ThreadType
    <3>3. thread[Emitter].at = nw
      BY <1>1, <1>2, <2>3
    <3>4. QED
      BY <1>1, <3>1, <3>2, <3>3 DEF WarmEmitter
  <2>4. QED
    BY <2>2, <2>3
<1>3. CASE thread[Emitter].pc = "freeze" /\ thread[Emitter].at = nw /\ Up(Emitter)
  <2>1. Freeze(Emitter)
    BY <1>3, StepCases DEF Broadcast, Pop, Begin, End, NextTask, WakeUp, Again, Leave, Wakes
  <2>2. /\ thread' = [thread EXCEPT ![Emitter].frozen = TRUE, ![Emitter].pc = "asleep"]
        /\ UNCHANGED <<queue, table, iteration>>
    BY <1>3, <2>1 DEF Up, Freeze, FallAsleep
  <2>3. Parked(Emitter, FALSE)' /\ thread'[Emitter].at = nw
    BY <1>1, <1>3, <2>2 DEF Up, Parked, ThreadType
  <2>4. QED
    BY <1>1, <1>3, <2>2, <2>3 DEF WarmEmitter
<1>4. CASE thread[Emitter].at = nw /\ Parked(Emitter, FALSE)
  BY <1>1, <1>4, ParkedStep DEF WarmEmitter
<1>5. QED
  BY <1>2, <1>3, <1>4 DEF WarmEmitter

\* Each of them does so once.
LEMMA WarmWorkerStep ==
  ASSUME TypeOK, NEW w \in Workers, WarmWorker(w), StepOf(w)
  PROVE  /\ WarmWorker(w)' /\ UNCHANGED <<table, iteration>>
         /\ \A v \in Workers : v # w => queue'[v] = queue[v]
         /\ Parked(w, FALSE) /\ queue[w] = <<>> => Parked(w, FALSE)' /\ queue'[w] = <<>>
<1>1. /\ thread \in [Threads -> ThreadType] /\ w \in Threads /\ Emitter \in Threads
      /\ w # Emitter /\ nw' = nw /\ Emitter' = Emitter /\ thread'[Emitter] = thread[Emitter]
      /\ queue \in [Workers -> Seq(TaskType)]
  <2>1. w \in Threads /\ Emitter \in Threads /\ w # Emitter
    BY Types
  <2>2. QED
    BY <2>1, StepFrame DEF TypeOK, ThreadType, TaskType, Emitter
<1>2. CASE Parked(w, FALSE) /\ queue[w] = <<>> /\ w < thread[Emitter].at
  BY <1>1, <1>2, ParkedStep DEF WarmWorker
<1>3. CASE thread[w].pc = "svc" /\ Up(w) /\ queue[w] = <<>> /\ w >= thread[Emitter].at
  BY <1>1, <1>3, StepCases DEF Pop, Begin, End, NextTask, Freeze, WakeUp, Again, Leave, Wakes
<1>4. CASE thread[w].pc = "svc" /\ Up(w) /\ queue[w] = <<GoOut>> /\ w < thread[Emitter].at
  <2>1. Pop(w)
    BY <1>1, <1>4, StepCases DEF Begin, End, NextTask, Freeze, WakeUp, Again, Leave, Wakes
  <2>2. Head(queue[w]) = GoOut /\ Tail(queue[w]) = <<>>
    BY <1>4
  <2>3. /\ thread' = [thread EXCEPT ![w].pc = "freeze"]
        /\ queue' = [queue EXCEPT ![w] = <<>>]
        /\ UNCHANGED <<table, iteration>>
    BY <2>1, <2>2 DEF Pop
  <2>4. thread'[w].pc = "freeze" /\ Up(w)' /\ queue'[w] = <<>>
    BY <1>1, <1>4, <2>3 DEF Up, ThreadType
  <2>5. WarmWorker(w)'
    BY <1>1, <1>4, <2>4 DEF WarmWorker
  <2>6. QED
    BY <1>1, <1>4, <2>3, <2>5 DEF Parked
<1>5. CASE thread[w].pc = "freeze" /\ Up(w) /\ queue[w] = <<>> /\ w < thread[Emitter].at
  <2>1. Freeze(w)
    BY <1>1, <1>5, StepCases DEF Pop, Begin, End, NextTask, WakeUp, Again, Leave, Wakes
  <2>2. /\ thread' = [thread EXCEPT ![w].frozen = TRUE, ![w].pc = "asleep"]
        /\ UNCHANGED <<queue, table, iteration>>
    BY <1>5, <2>1 DEF Up, Freeze, FallAsleep
  <2>3. Parked(w, FALSE)'
    BY <1>1, <1>5, <2>2 DEF Up, Parked, ThreadType
  <2>4. QED
    BY <1>1, <1>5, <2>2, <2>3 DEF WarmWorker
<1>6. QED
  BY <1>2, <1>3, <1>4, <1>5 DEF WarmWorker

\* A worker in a call goes from its task to its sleep, and to the iterations of
\* its range only.
LEMMA AtWorkStep ==
  ASSUME TypeOK, NEW w \in Workers, NEW n \in Nat, n = main.stop, AtWork(w, n), StepOf(w)
  PROVE  /\ AtWork(w, n)'
         /\ \A v \in Workers : v # w => queue'[v] = queue[v] /\ table'[v] = table[v]
         /\ iteration' \in [0..(n - 1) -> Progresses]
         /\ \A j \in 0..(n - 1) :
              ~(Lo(w, n) <= j /\ j < Lo(w + 1, n)) => iteration'[j] = iteration[j]
<1>1. /\ thread \in [Threads -> ThreadType] /\ w \in Threads /\ w # Emitter
      /\ queue \in [Workers -> Seq(TaskType)] /\ table \in [Workers -> EntryType]
      /\ iteration \in [0..(n - 1) -> Progresses]
      /\ nw' = nw
  <2>1. w \in Threads /\ w # Emitter
    BY Types
  <2>2. QED
    BY <2>1, StepFrame DEF TypeOK, ThreadType, TaskType, EntryType, Progresses
<1>2. PICK lo \in Nat, hi \in Nat :
        Lo(w, n) = lo /\ Lo(w + 1, n) = hi /\ lo <= hi /\ hi <= n
  BY Ranges
<1>3. Lo(w, n)' = lo /\ Lo(w + 1, n)' = hi
  BY <1>1, <1>2 DEF Lo
<1>4. thread[w] \in ThreadType
  BY <1>1
<1>5. CASE Thawed(w) /\ Given(w, n)
  <2>1. CASE thread[w].pc \in {"woken", "again"}
    <3>1. WakeUp(w) \/ Again(w)
      BY <1>1, <2>1, StepCases DEF Pop, Begin, End, NextTask, Freeze, Leave, Wakes
    <3>2. UNCHANGED <<queue, table, iteration>>
      BY <3>1 DEF WakeUp, Again
    <3>3. Thawed(w)'
      <4>1. CASE thread[w].pc = "woken"
        <5>1. thread[w].freezing = 2 /\ ~thread[w].frozen /\ ~thread[w].stp
          BY <1>5, <4>1 DEF Thawed
        <5>2. WakeUp(w)
          BY <3>1, <4>1 DEF Again
        <5>3. StayAwake(w)
          BY <5>1, <5>2 DEF WakeUp
        <5>4. /\ thread'[w].pc = "again" /\ thread'[w].freezing = 1
              /\ thread'[w].frozen = thread[w].frozen /\ thread'[w].stp = thread[w].stp
          BY <1>1, <5>1, <5>3 DEF StayAwake, ThreadType
        <5>5. QED
          BY <5>1, <5>4 DEF Thawed, Up
      <4>2. CASE thread[w].pc = "again"
        <5>1. Up(w)
          BY <1>5, <4>2 DEF Thawed
        <5>2. Again(w)
          BY <3>1, <4>2 DEF WakeUp
        <5>3. thread' = [thread EXCEPT ![w].pc = "svc"]
          BY <5>1, <5>2 DEF Again, Up
        <5>4. QED
          BY <1>1, <5>1, <5>3 DEF Thawed, Up, ThreadType
      <4>3. QED
        BY <2>1, <4>1, <4>2
    <3>4. Given(w, n)'
      BY <1>2, <1>3, <1>5, <3>2 DEF Given, Share, Iterations
    <3>5. QED
      BY <1>1, <3>2, <3>3, <3>4 DEF AtWork
  <2>2. CASE thread[w].pc = "svc"
    <3>1. Pop(w) /\ Up(w)
      BY <1>1, <1>5, <2>2, StepCases DEF Thawed, Begin, End, NextTask, Freeze, WakeUp, Again, Leave, Wakes
    <3>2. queue[w] = << <<lo, hi>> >>
      BY <1>2, <1>5 DEF Given, Share
    <3>3. Head(queue[w]) = <<lo, hi>> /\ Tail(queue[w]) = <<>> /\ <<lo, hi>> # GoOut
      BY <3>2 DEF GoOut
    <3>4. /\ thread' = [thread EXCEPT ![w].pc = "loop", ![w].at = lo, ![w].to = hi]
          /\ queue' = [queue EXCEPT ![w] = <<>>]
          /\ UNCHANGED <<table, iteration>>
      <4>1. <<lo, hi>>[1] = lo /\ <<lo, hi>>[2] = hi
        OBVIOUS
      <4>2. QED
        BY <3>1, <3>3, <4>1 DEF Pop
    <3>5. /\ thread'[w].pc = "loop" /\ thread'[w].at = lo /\ thread'[w].to = hi
          /\ Up(w)' /\ queue'[w] = <<>>
      BY <1>1, <3>1, <3>4 DEF Up, ThreadType
    <3>6. /\ table'[w] = [ntask |-> 0, start |-> hi, end |-> hi]
          /\ Iterations(lo, hi, "waiting")' /\ Iterations(lo, lo, "over")'
      BY <1>1, <1>2, <1>5, <3>4 DEF Given, Iterations
    <3>7. Working(w, n)'
      BY <1>2, <1>3, <3>5, <3>6 DEF Working
    <3>8. QED
      BY <1>1, <3>4, <3>7 DEF AtWork
  <2>3. QED
    BY <1>5, <2>1, <2>2 DEF Thawed
<1>6. CASE Working(w, n)
  <2>0. PICK a \in Nat : a = thread[w].at
    BY <1>4 DEF ThreadType
  <2>1. /\ thread[w].pc \in {"loop", "body"} /\ Up(w) /\ queue[w] = <<>>
        /\ table[w] = [ntask |-> 0, start |-> hi, end |-> hi]
        /\ thread[w].to = hi /\ a >= lo /\ a = thread[w].at
        /\ Iterations(lo, a, "over")
    BY <1>2, <1>6, <2>0 DEF Working
  <2>2. Begin(w) \/ End(w) \/ NextTask(w)
    BY <1>1, <2>1, StepCases DEF Pop, Freeze, WakeUp, Again, Leave, Wakes
  <2>3. CASE Begin(w)
    <3>1. /\ a < hi
          /\ thread' = [thread EXCEPT ![w].pc = "body"]
          /\ BeginIteration(a)
          /\ UNCHANGED <<queue, table>>
          /\ thread[w].pc = "loop"
      BY <2>1, <2>3 DEF Begin
    <3>2. Iterations(a, hi, "waiting")
      BY <1>2, <1>6, <2>1, <3>1 DEF Working
    <3>3. iteration' = [iteration EXCEPT ![a] = "running"] /\ a \in 0..(n - 1)
      <4>1. a \in 0..(n - 1)
        BY <1>1, <1>2, <2>1, <3>1
      <4>2. DOMAIN iteration = 0..(n - 1) /\ (0..(n - 1)) \cup {a} = 0..(n - 1)
        BY <1>1, <4>1
      <4>3. iteration' = [k \in 0..(n - 1) |-> IF k = a THEN "running" ELSE iteration[k]]
        BY <2>0, <3>1, <4>2 DEF BeginIteration, Progress
      <4>4. QED
        BY <1>1, <4>1, <4>3
    <3>4. /\ thread'[w].pc = "body" /\ thread'[w].at = a /\ thread'[w].to = hi /\ Up(w)'
      BY <1>1, <2>1, <3>1 DEF Up, ThreadType
    <3>5. iteration' \in [0..(n - 1) -> Progresses]
      BY <1>1, <3>3 DEF Progresses
    <3>6. /\ iteration'[a] = "running"
          /\ \A j \in 0..(n - 1) : j # a => iteration'[j] = iteration[j]
      BY <1>1, <3>3
    <3>7. Iterations(a + 1, hi, "waiting")' /\ Iterations(lo, a, "over")'
      BY <1>1, <1>2, <2>1, <3>2, <3>4, <3>5, <3>6 DEF Iterations
    <3>8. Working(w, n)'
      BY <1>2, <1>3, <2>1, <3>1, <3>4, <3>6, <3>7 DEF Working
    <3>9. QED
      BY <1>1, <1>2, <2>1, <3>1, <3>5, <3>6, <3>8 DEF AtWork
  <2>4. CASE End(w)
    <3>1. /\ thread' = [thread EXCEPT ![w].pc = "loop", ![w].at = @ + 1]
          /\ EndIteration(a)
          /\ UNCHANGED <<queue, table>>
          /\ thread[w].pc = "body"
      BY <2>1, <2>4 DEF End
    <3>2. a < hi /\ Iterations(a + 1, hi, "waiting")
      BY <1>2, <1>6, <2>1, <3>1 DEF Working
    <3>3. iteration' = [iteration EXCEPT ![a] = "over"] /\ a \in 0..(n - 1)
      <4>1. a \in 0..(n - 1)
        BY <1>1, <1>2, <2>1, <3>1, <3>2
      <4>2. DOMAIN iteration = 0..(n - 1) /\ (0..(n - 1)) \cup {a} = 0..(n - 1)
        BY <1>1, <4>1
      <4>3. iteration' = [k \in 0..(n - 1) |-> IF k = a THEN "over" ELSE iteration[k]]
        BY <2>0, <3>1, <4>2 DEF EndIteration, Progress
      <4>4. QED
        BY <1>1, <4>1, <4>3
    <3>4. /\ thread'[w].pc = "loop" /\ thread'[w].at = a + 1 /\ thread'[w].to = hi /\ Up(w)'
      BY <1>1, <2>1, <3>1 DEF Up, ThreadType
    <3>5. iteration' \in [0..(n - 1) -> Progresses]
      BY <1>1, <3>3 DEF Progresses
    <3>6. /\ iteration'[a] = "over"
          /\ \A j \in 0..(n - 1) : j # a => iteration'[j] = iteration[j]
      BY <1>1, <3>3
    <3>10. DOMAIN iteration = 0..(n - 1) /\ DOMAIN iteration' = 0..(n - 1)
      BY <1>1, <3>5
    <3>11. Iterations(a + 1, hi, "waiting")'
      BY <3>2, <3>6, <3>10 DEF Iterations
    <3>12. Iterations(lo, a + 1, "over")'
      <4>1. ASSUME NEW j \in 0..(n - 1), lo <= j, j < a + 1 PROVE iteration'[j] = "over"
        <5>1. j = a \/ j < a
          BY <4>1
        <5>2. QED
          BY <2>1, <3>6, <3>10, <4>1, <5>1 DEF Iterations
      <4>2. QED
        BY <3>10, <4>1 DEF Iterations
    <3>7. Iterations(a + 1, hi, "waiting")' /\ Iterations(lo, a + 1, "over")'
      BY <3>11, <3>12
    <3>8. Working(w, n)'
      BY <1>2, <1>3, <2>1, <3>1, <3>2, <3>4, <3>7 DEF Working
    <3>9. QED
      BY <1>1, <1>2, <2>1, <3>1, <3>2, <3>5, <3>6, <3>8 DEF AtWork
  <2>5. CASE NextTask(w)
    <3>1. table[w].ntask = 0
      BY <2>1
    <3>2. /\ thread[w].pc = "loop" /\ a >= hi
          /\ thread' = [thread EXCEPT ![w].pc = "freeze"]
          /\ UNCHANGED <<queue, table, iteration>>
      BY <2>1, <2>5, <3>1 DEF NextTask
    <3>3. thread'[w].pc = "freeze" /\ Up(w)'
      BY <1>1, <2>1, <3>2 DEF Up, ThreadType
    <3>4. Iterations(lo, hi, "over")'
      BY <1>1, <1>2, <2>1, <3>2 DEF Iterations
    <3>5. Ready(w, n)'
      BY <1>2, <1>3, <2>1, <3>2, <3>4 DEF Ready
    <3>6. QED
      BY <1>1, <3>2, <3>3, <3>5 DEF AtWork
  <2>6. QED
    BY <2>2, <2>3, <2>4, <2>5
<1>7. CASE Ready(w, n) /\ thread[w].pc = "freeze" /\ Up(w)
  <2>1. Freeze(w)
    BY <1>1, <1>7, StepCases DEF Pop, Begin, End, NextTask, WakeUp, Again, Leave, Wakes
  <2>2. /\ thread' = [thread EXCEPT ![w].frozen = TRUE, ![w].pc = "asleep"]
        /\ UNCHANGED <<queue, table, iteration>>
    BY <1>7, <2>1 DEF Up, Freeze, FallAsleep
  <2>3. Parked(w, FALSE)'
    BY <1>1, <1>7, <2>2 DEF Up, Parked, ThreadType
  <2>4. Ready(w, n)'
    BY <1>2, <1>3, <1>7, <2>2 DEF Ready, Iterations
  <2>5. QED
    BY <1>1, <2>2, <2>3, <2>4 DEF AtWork
<1>8. CASE Ready(w, n) /\ Parked(w, FALSE)
  <2>1. Parked(w, FALSE)' /\ UNCHANGED <<queue, table, iteration>>
    BY <1>1, <1>8, ParkedStep
  <2>2. Ready(w, n)'
    BY <1>2, <1>3, <1>8, <2>1 DEF Ready, Iterations
  <2>3. QED
    BY <1>1, <2>1, <2>2 DEF AtWork
<1>9. QED
  BY <1>5, <1>6, <1>7, <1>8 DEF AtWork

-----------------------------------------------------------------------------
(* What a step of a thread leaves true of all of them. *)

\* The parts of the invariant for another phase say nothing.
LEMMA Elsewhere ==
  /\ main.pc \notin {"create", "spawn", "settle"} => Creation
  /\ main.pc \notin {"idle", "setloop", "send", "thaw", "join", "alone", "body"} => Calling
  /\ main.pc \notin {"stop", "wait", "endwait", "endthaw", "join_thread", "done"} => Ending
  /\ main.pc \notin {"idle", "setloop", "alone", "body", "send", "thaw", "join"} => EmitterSleeps
BY DEF Creation, Calling, Ending, EmitterSleeps

\* Who sleeps sleeps on, who leaves leaves, who is gone is gone.
LEMMA StepStable ==
  ASSUME TypeOK, NEW t \in Threads, StepOf(t), NEW u \in Threads
  PROVE  /\ \A s \in BOOLEAN : Parked(u, s) => Parked(u, s)'
         /\ Leaving(u) => Leaving(u)'
         /\ Gone(u) => Gone(u)' /\ u # t
         /\ NotSpawned(u) => NotSpawned(u)' /\ u # t
<1>1. CASE u = t
  BY <1>1, ParkedStep, LeavingStep, NoStep
<1>2. CASE u # t
  <2>1. thread'[u] = thread[u]
    BY <1>2, StepFrame
  <2>2. QED
    BY <1>2, <2>1 DEF Parked, Leaving, Gone, NotSpawned
<1>3. QED
  BY <1>1, <1>2

\* Main is woken by a thread that sets frozen.
LEMMA StepMainWaits ==
  ASSUME TypeOK, MainWaits, NEW t \in Threads, StepOf(t)
  PROVE  MainWaits'
<1>1. /\ thread \in [Threads -> ThreadType] /\ main \in MainType /\ main.at \in Threads
      /\ main'.pc = main.pc /\ main'.at = main.at
      /\ (main'.asleep => main.asleep)
  BY Types, StepMain DEF TypeOK, ThreadType, MainType
<1>2. SUFFICES ASSUME main'.asleep PROVE ~thread'[main.at].frozen
  BY <1>1 DEF MainWaits
<1>3. ~thread[main.at].frozen
  BY <1>1, <1>2 DEF MainWaits
<1>4. CASE main.at # t
  BY <1>1, <1>3, <1>4, StepFrame
<1>5. CASE main.at = t
  <2>1. ~SignalFrozen(t)
    <3>1. SUFFICES ASSUME SignalFrozen(t) PROVE FALSE
      OBVIOUS
    <3>2. main'.asleep = (main.asleep /\ main.at # t)
      BY <1>1, <3>1 DEF SignalFrozen, MainType
    <3>3. (main.asleep /\ main.at # t) = FALSE
      BY <1>5
    <3>4. QED
      BY <1>2, <3>2, <3>3
  <2>2. thread'[t].frozen = thread[t].frozen
    <3>1. CASE t = Emitter /\ Broadcast
      BY <1>1, <3>1 DEF Broadcast, ThreadType
    <3>2. CASE Pop(t)
      BY <1>1, <3>2 DEF Pop, ThreadType
    <3>3. CASE Begin(t) \/ End(t)
      BY <1>1, <3>3 DEF Begin, End, ThreadType
    <3>4. CASE NextTask(t)
      BY <1>1, <3>4 DEF NextTask, ThreadType
    <3>5. CASE Freeze(t) \/ WakeUp(t)
      <4>1. StayAwake(t)
        BY <2>1, <3>5 DEF Freeze, WakeUp, FallAsleep
      <4>2. QED
        BY <1>1, <4>1 DEF StayAwake, ThreadType
    <3>6. CASE Again(t) \/ Wakes(t)
      BY <1>1, <3>6 DEF Again, Wakes, ThreadType
    <3>7. CASE Leave(t)
      <4>1. thread' = [thread EXCEPT ![t].pc = "finished"]
        BY <2>1, <3>7 DEF Leave
      <4>2. QED
        BY <1>1, <4>1 DEF ThreadType
    <3>8. QED
      BY StepCases, <3>1, <3>2, <3>3, <3>4, <3>5, <3>6, <3>7
  <2>3. QED
    BY <1>3, <1>5, <2>2
<1>6. QED
  BY <1>4, <1>5

\* Types, where the iterations keep theirs.
LEMMA StepTypeOK ==
  ASSUME TypeOK, NEW t \in Threads, StepOf(t),
         iteration' \in [0..(main.stop - 1) -> Progresses]
  PROVE  TypeOK'
<1>1. nw' = nw /\ chunk' = chunk /\ main' \in MainType /\ main'.stop = main.stop
  BY StepFrame, StepMain
<1>2. /\ thread' \in [Threads -> ThreadType]
      /\ queue' \in [Workers -> Seq(TaskType)]
      /\ table' \in [Workers -> EntryType]
  BY StepThread, StepTypes
<1>3. Workers' = Workers /\ Threads' = Threads
  BY <1>1 DEF Workers, Threads
<1>4. QED
  BY <1>1, <1>2, <1>3
     DEF TypeOK, MainType, ThreadType, TaskType, EntryType, Progresses

\* What a worker at work relies on: its own thread, queue, entry and range.
LEMMA AtWorkFrame ==
  ASSUME TypeOK, NEW n \in Nat, NEW w \in Workers, nw' = nw,
         thread'[w] = thread[w], queue'[w] = queue[w], table'[w] = table[w],
         DOMAIN iteration = 0..(n - 1), DOMAIN iteration' = 0..(n - 1),
         \A j \in 0..(n - 1) :
           Lo(w, n) <= j /\ j < Lo(w + 1, n) => iteration'[j] = iteration[j]
  PROVE  /\ Given(w, n) => Given(w, n)'
         /\ AtWork(w, n) => AtWork(w, n)'
<1>1. PICK lo \in Nat, hi \in Nat :
        Lo(w, n) = lo /\ Lo(w + 1, n) = hi /\ lo <= hi /\ hi <= n
  BY Ranges
<1>2. Lo(w, n)' = lo /\ Lo(w + 1, n)' = hi
  BY <1>1 DEF Lo
<1>3. thread[w] \in ThreadType
  BY Types
<1>4. PICK a \in Nat : thread[w].at = a
  BY <1>3 DEF ThreadType
<1>5. /\ \A state : Iterations(lo, hi, state) => Iterations(lo, hi, state)'
      /\ a >= lo => \A state : Iterations(a, hi, state) => Iterations(a, hi, state)'
      /\ a >= lo => \A state : Iterations(a + 1, hi, state) => Iterations(a + 1, hi, state)'
      /\ a <= hi => \A state : Iterations(lo, a, state) => Iterations(lo, a, state)'
  BY <1>1, <1>4 DEF Iterations
<1>6. Given(w, n) => Given(w, n)'
  BY <1>1, <1>2, <1>5 DEF Given, Share
<1>7. Thawed(w) => Thawed(w)'
  BY DEF Thawed, Up
<1>8. Working(w, n) => Working(w, n)'
  <2>1. SUFFICES ASSUME Working(w, n) PROVE Working(w, n)'
    OBVIOUS
  <2>2. a >= lo /\ a <= hi /\ (thread[w].pc = "body" => a < hi)
    BY <1>1, <1>4, <2>1 DEF Working
  <2>3. thread[w].pc = "body" => iteration'[a] = iteration[a]
    BY <1>1, <2>2
  <2>4. Iterations(lo, a, "over")'
    BY <1>1, <1>4, <1>5, <2>1, <2>2 DEF Working
  <2>5. /\ thread[w].pc = "loop" => Iterations(a, hi, "waiting")'
        /\ thread[w].pc = "body" => Iterations(a + 1, hi, "waiting")'
    BY <1>1, <1>4, <1>5, <2>1, <2>2 DEF Working
  <2>6. Up(w)'
    BY <2>1 DEF Working, Up
  <2>7. QED
    BY <1>1, <1>2, <1>4, <2>1, <2>2, <2>3, <2>4, <2>5, <2>6 DEF Working
<1>9. Ready(w, n) => Ready(w, n)'
  BY <1>1, <1>2, <1>5 DEF Ready
<1>10. Parked(w, FALSE) => Parked(w, FALSE)'
  BY DEF Parked
<1>11. thread[w].pc = "freeze" /\ Up(w) => thread'[w].pc = "freeze" /\ Up(w)'
  BY DEF Up
<1>12. QED
  BY <1>6, <1>7, <1>8, <1>9, <1>10, <1>11 DEF AtWork

\* The same of the next state.
LEMMA ElsewhereNext ==
  /\ main'.pc \notin {"create", "spawn", "settle"} => Creation'
  /\ main'.pc \notin {"idle", "setloop", "send", "thaw", "join", "alone", "body"} => Calling'
  /\ main'.pc \notin {"stop", "wait", "endwait", "endthaw", "join_thread", "done"} => Ending'
  /\ main'.pc \notin {"idle", "setloop", "alone", "body", "send", "thaw", "join"} => EmitterSleeps'
BY DEF Creation, Calling, Ending, EmitterSleeps

\* In the constructor the threads go to sleep, whichever of them takes a step.
LEMMA WarmStep ==
  ASSUME TypeOK, WarmEmitter, \A w \in Workers : WarmWorker(w) \/ Unspawned(w),
         NEW t \in Threads, StepOf(t)
  PROVE  /\ iteration' = iteration /\ WarmEmitter'
         /\ \A w \in Workers :
              /\ WarmWorker(w) => WarmWorker(w)'
              /\ Unspawned(w) => Unspawned(w)'
              /\ Parked(w, FALSE) /\ queue[w] = <<>> /\ WarmWorker(w)
                   => Parked(w, FALSE)' /\ queue'[w] = <<>>
<1>1. /\ queue \in [Workers -> Seq(TaskType)] /\ nw' = nw /\ Emitter' = Emitter
      /\ nw \in Nat \ {0} /\ Workers = 0..(nw - 1) /\ Threads = 0..nw /\ Emitter = nw
      /\ thread[Emitter].at \in Nat
      /\ \A u \in Threads : u # t => thread'[u] = thread[u]
  <2>1. Emitter \in Threads /\ nw \in Nat \ {0} /\ Workers = 0..(nw - 1) /\ Threads = 0..nw
    BY Types
  <2>2. thread[Emitter] \in ThreadType
    BY <2>1, Types
  <2>3. thread[Emitter].at \in Nat
    BY <2>2 DEF ThreadType
  <2>4. QED
    BY <2>1, <2>3, StepFrame DEF TypeOK, TaskType, Emitter
<1>2. PICK e \in Nat : thread[Emitter].at = e
  BY <1>1
<1>3. CASE t = Emitter
  <2>1. /\ WarmEmitter' /\ iteration' = iteration
        /\ \/ thread'[Emitter].at = e /\ queue' = queue
           \/ /\ e \in Workers /\ thread'[Emitter].at = e + 1
              /\ queue' = [queue EXCEPT ![e] = Append(@, GoOut)]
    BY <1>2, <1>3, WarmEmitterStep
  <2>2. ASSUME NEW w \in Workers PROVE thread'[w] = thread[w]
    BY <1>1, <1>3
  <2>3. CASE thread'[Emitter].at = e /\ queue' = queue
    BY <1>1, <1>2, <2>1, <2>2, <2>3 DEF WarmWorker, Unspawned, NotSpawned, Parked, Up
  <2>4. CASE /\ e \in Workers /\ thread'[Emitter].at = e + 1
             /\ queue' = [queue EXCEPT ![e] = Append(@, GoOut)]
    <3>1. ASSUME NEW w \in Workers, w # e
          PROVE  queue'[w] = queue[w] /\ (w < e <=> w < e + 1) /\ (w >= e <=> w >= e + 1)
      BY <1>1, <2>4, <3>1
    <3>2. ASSUME NEW w \in Workers, w # e
          PROVE  /\ WarmWorker(w) => WarmWorker(w)'
                 /\ Unspawned(w) => Unspawned(w)'
                 /\ Parked(w, FALSE) /\ queue[w] = <<>> /\ WarmWorker(w)
                      => Parked(w, FALSE)' /\ queue'[w] = <<>>
      BY <1>1, <1>2, <2>2, <2>4, <3>1, <3>2 DEF WarmWorker, Unspawned, NotSpawned, Parked, Up
    <3>3. ~(e < e) /\ e < e + 1
      BY <1>2
    <3>4. queue[e] = <<>> => queue'[e] = <<GoOut>>
      BY <1>1, <2>4
    <3>5. WarmWorker(e) => WarmWorker(e)'
      <4>1. SUFFICES ASSUME WarmWorker(e) PROVE WarmWorker(e)'
        OBVIOUS
      <4>2. thread[e].pc = "svc" /\ Up(e) /\ queue[e] = <<>>
        BY <1>2, <3>3, <4>1 DEF WarmWorker
      <4>3. thread'[e].pc = "svc" /\ Up(e)' /\ queue'[e] = <<GoOut>>
        BY <2>2, <2>4, <3>4, <4>2 DEF Up
      <4>4. QED
        BY <1>1, <2>4, <3>3, <4>3 DEF WarmWorker
    <3>6. Unspawned(e) => Unspawned(e)'
      BY <1>1, <1>2, <2>2, <2>4, <3>3, <3>4 DEF Unspawned, NotSpawned
    <3>7. ~(Parked(e, FALSE) /\ queue[e] = <<>> /\ WarmWorker(e))
      BY <1>2, <3>3 DEF WarmWorker, Parked
    <3>8. QED
      BY <2>1, <3>2, <3>5, <3>6, <3>7
  <2>5. QED
    BY <2>1, <2>3, <2>4
<1>4. CASE t # Emitter
  <2>1. t \in Workers /\ thread'[Emitter] = thread[Emitter]
    BY <1>1, <1>4
  <2>2. WarmEmitter'
    BY <1>1, <2>1 DEF WarmEmitter, Parked, Up
  <2>3. WarmWorker(t) /\ ~Unspawned(t)
    BY <2>1, NoStep DEF Unspawned
  <2>4. /\ WarmWorker(t)' /\ iteration' = iteration
        /\ \A v \in Workers : v # t => queue'[v] = queue[v]
        /\ Parked(t, FALSE) /\ queue[t] = <<>> => Parked(t, FALSE)' /\ queue'[t] = <<>>
    BY <2>1, <2>3, WarmWorkerStep
  <2>5. ASSUME NEW w \in Workers, w # t
        PROVE  /\ WarmWorker(w) => WarmWorker(w)'
               /\ Unspawned(w) => Unspawned(w)'
               /\ Parked(w, FALSE) /\ queue[w] = <<>> /\ WarmWorker(w)
                    => Parked(w, FALSE)' /\ queue'[w] = <<>>
    <3>1. thread'[w] = thread[w] /\ queue'[w] = queue[w]
      BY <1>1, <2>4, <2>5
    <3>2. QED
      BY <1>1, <2>1, <3>1 DEF WarmWorker, Unspawned, NotSpawned, Parked, Up
  <2>6. QED
    BY <2>2, <2>3, <2>4, <2>5
<1>5. QED
  BY <1>3, <1>4

LEMMA CreationStep ==
  ASSUME TypeOK, Creation, main.pc \in {"create", "spawn", "settle"}, NEW t \in Threads, StepOf(t)
  PROVE  Creation' /\ iteration' = iteration
<1>1. /\ nw' = nw /\ Emitter' = Emitter /\ Workers' = Workers /\ Threads' = Threads
      /\ main'.pc = main.pc /\ main'.at = main.at /\ main'.stop = main.stop
  BY StepFrame, StepMain DEF Emitter, Workers, Threads
<1>2. CASE main.pc = "create"
  BY <1>2, NoStep DEF Creation
<1>3. CASE main.pc = "spawn"
  <2>1. /\ WarmEmitter /\ main.at < nw
        /\ \A w \in Workers : IF w < main.at THEN WarmWorker(w) ELSE Unspawned(w)
    BY <1>3 DEF Creation
  <2>2. /\ WarmEmitter' /\ iteration' = iteration
        /\ \A w \in Workers : IF w < main.at THEN WarmWorker(w)' ELSE Unspawned(w)'
    BY <2>1, WarmStep
  <2>3. QED
    BY <1>1, <1>3, <2>1, <2>2 DEF Creation
<1>4. CASE main.pc = "settle"
  <2>1. /\ WarmEmitter
        /\ \A w \in Workers : WarmWorker(w) /\ (w < main.at => Parked(w, FALSE) /\ queue[w] = <<>>)
    BY <1>4 DEF Creation
  <2>2. /\ WarmEmitter' /\ iteration' = iteration
        /\ \A w \in Workers : WarmWorker(w)'
                              /\ (w < main.at => Parked(w, FALSE)' /\ queue'[w] = <<>>)
    BY <2>1, WarmStep
  <2>3. QED
    BY <1>1, <1>4, <2>1, <2>2 DEF Creation
<1>5. QED
  BY <1>2, <1>3, <1>4

LEMMA EndingStep ==
  ASSUME TypeOK, Ending, NEW t \in Threads, StepOf(t),
         main.pc \in {"stop", "wait", "endwait", "endthaw", "join_thread", "done"}
  PROVE  Ending' /\ iteration' = iteration
<1>1. /\ Threads' = Threads
      /\ main'.pc = main.pc /\ main'.at = main.at
  BY StepFrame, StepMain DEF Threads
<1>2. CASE main.pc = "stop"
  <2>1. \A u \in Threads : (u < main.at) \in BOOLEAN /\ Parked(u, u < main.at)
    BY <1>2 DEF Ending
  <2>2. \A u \in Threads : \A s \in BOOLEAN : Parked(u, s) => Parked(u, s)'
    BY StepStable
  <2>3. ASSUME NEW u \in Threads PROVE Parked(u, u < main.at)'
    <3>1. PICK s \in BOOLEAN : s = (u < main.at)
      BY <2>1
    <3>2. Parked(u, s)'
      BY <2>1, <2>2, <3>1
    <3>3. QED
      BY <1>1, <3>1, <3>2 DEF Parked
  <2>4. iteration' = iteration
    BY <2>1, ParkedStep
  <2>5. QED
    BY <1>1, <1>2, <2>3, <2>4 DEF Ending
<1>3. CASE main.pc \in {"wait", "endwait", "endthaw"}
  <2>1. \A u \in Threads : IF u < main.at THEN Gone(u) ELSE Parked(u, TRUE)
    BY <1>3 DEF Ending
  <2>2. \A u \in Threads : IF u < main.at THEN Gone(u)' ELSE Parked(u, TRUE)'
    BY <2>1, StepStable
  <2>3. iteration' = iteration
    BY <2>1, ParkedStep, NoStep
  <2>4. QED
    BY <1>1, <1>3, <2>2, <2>3 DEF Ending
<1>4. CASE main.pc = "join_thread"
  <2>1. \A u \in Threads :
          IF u < main.at THEN Gone(u) ELSE IF u = main.at THEN Leaving(u) ELSE Parked(u, TRUE)
    BY <1>4 DEF Ending
  <2>2. \A u \in Threads :
          IF u < main.at THEN Gone(u)' ELSE IF u = main.at THEN Leaving(u)' ELSE Parked(u, TRUE)'
    BY <2>1, StepStable
  <2>3. iteration' = iteration
    BY <2>1, ParkedStep, LeavingStep, NoStep
  <2>4. QED
    BY <1>1, <1>4, <2>2, <2>3 DEF Ending
<1>5. CASE main.pc = "done"
  BY <1>5, NoStep DEF Ending
<1>6. QED
  BY <1>2, <1>3, <1>4, <1>5

\* Between calls and until main thaws them, the threads leave the data alone.
LEMMA QuietStep ==
  ASSUME TypeOK, NEW t \in Threads, StepOf(t), Parked(Emitter, FALSE),
         \A w \in Workers : Parked(w, FALSE)
  PROVE  /\ UNCHANGED <<queue, table, iteration, chunk, nw>>
         /\ Parked(Emitter, FALSE)' /\ \A w \in Workers : Parked(w, FALSE)'
<1>1. Emitter \in Threads /\ nw \in Nat \ {0} /\ Workers = 0..(nw - 1) /\ Threads = 0..nw
      /\ Emitter = nw
  BY Types
<1>2. nw' = nw /\ chunk' = chunk /\ Emitter' = Emitter
  BY StepFrame DEF Emitter
<1>8. \A u \in Threads : u \in Workers \/ u = Emitter
  BY <1>1
<1>9. \A w \in Workers : w \in Threads
  BY <1>1
<1>3. Parked(t, FALSE)
  BY <1>8
<1>4. \A u \in Threads : Parked(u, FALSE) => Parked(u, FALSE)'
  BY StepStable
<1>5. Parked(Emitter, FALSE)'
  BY <1>1, <1>2, <1>4
<1>6. \A w \in Workers : Parked(w, FALSE)'
  BY <1>4, <1>9
<1>7. QED
  BY <1>2, <1>3, <1>5, <1>6, ParkedStep

\* In a call, each worker does its part.
LEMMA CallingStep ==
  ASSUME TypeOK, Calling, EmitterSleeps, NEW t \in Threads, StepOf(t),
         main.pc \in {"idle", "setloop", "send", "thaw", "join", "alone", "body"}
  PROVE  /\ Calling' /\ EmitterSleeps'
         /\ iteration' \in [0..(main.stop - 1) -> Progresses]
<1>1. /\ nw' = nw /\ chunk' = chunk /\ Emitter' = Emitter /\ Workers' = Workers
      /\ main'.pc = main.pc /\ main'.at = main.at /\ main'.stop = main.stop
      /\ main'.start = main.start
  BY StepFrame, StepMain DEF Emitter, Workers, Threads
<1>2. /\ nw \in Nat \ {0} /\ Workers = 0..(nw - 1) /\ Threads = 0..nw /\ Emitter = nw
      /\ main.stop \in Nat
      /\ iteration \in [0..(main.stop - 1) -> Progresses]
  BY Types DEF TypeOK, Progresses
<1>3. Parked(Emitter, FALSE)
  BY DEF EmitterSleeps
<1>4. ASSUME main.pc \notin {"thaw", "join"}
      PROVE  /\ Calling' /\ EmitterSleeps'
             /\ iteration' \in [0..(main.stop - 1) -> Progresses]
  <2>1. \A w \in Workers : Parked(w, FALSE)
    BY <1>4 DEF Calling, AllSleep, Idle
  <2>2. /\ UNCHANGED <<queue, table, iteration>>
        /\ Parked(Emitter, FALSE)' /\ \A w \in Workers : Parked(w, FALSE)'
    BY <1>3, <2>1, QuietStep
  <2>3. EmitterSleeps'
    BY <1>1, <2>2 DEF EmitterSleeps
  <2>4. CASE main.pc \in {"idle", "setloop", "alone", "body"}
    <3>1. AllSleep'
      BY <1>1, <2>2, <2>4 DEF Calling, AllSleep, Idle
    <3>2. \A from, to, state : Iterations(from, to, state) => Iterations(from, to, state)'
      BY <2>2 DEF Iterations
    <3>3. \A w : Lo(w, main.stop)' = Lo(w, main.stop) /\ Entry(w, main.stop)' = Entry(w, main.stop)
      BY <1>1 DEF Lo, Entry
    <3>4. Calling'
      BY <1>1, <2>2, <2>4, <3>1, <3>2, <3>3 DEF Calling
    <3>5. QED
      BY <1>2, <2>2, <2>3, <3>4
  <2>5. CASE main.pc = "send"
    <3>0. PICK n \in Nat : n = main.stop
      BY <1>2
    <3>1. /\ main.at < nw
          /\ chunk = n \div nw + (IF n % nw > 0 THEN 1 ELSE 0)
          /\ \A w \in Workers :
               IF w < main.at
                 THEN Given(w, n)
                 ELSE /\ queue[w] = <<>> /\ table[w] = Entry(w, n)
                      /\ Iterations(Lo(w, n), Lo(w + 1, n), "waiting")
      BY <2>5, <3>0 DEF Calling, Idle
    <3>2. \A from, to, state : Iterations(from, to, state) => Iterations(from, to, state)'
      BY <2>2 DEF Iterations
    <3>3. \A w : Lo(w, n)' = Lo(w, n) /\ Entry(w, n)' = Entry(w, n) /\ Share(w, n)' = Share(w, n)
      BY <1>1 DEF Lo, Entry, Share
    <3>4. \A w \in Workers : Given(w, n) => Given(w, n)'
      BY <2>2, <3>2, <3>3 DEF Given
    <3>5. \A w \in Workers :
            IF w < main.at
              THEN Parked(w, FALSE)' /\ Given(w, n)'
              ELSE Idle(w)' /\ table'[w] = Entry(w, n)'
                   /\ Iterations(Lo(w, n), Lo(w + 1, n), "waiting")'
      BY <2>2, <3>1, <3>2, <3>3, <3>4 DEF Idle
    <3>6. Calling'
      BY <1>1, <2>2, <2>5, <3>0, <3>1, <3>5 DEF Calling
    <3>7. QED
      BY <1>2, <2>2, <2>3, <3>6
  <2>6. QED
    BY <1>4, <2>4, <2>5
<1>5. ASSUME NEW n \in Nat, n = main.stop,
             \A w \in Workers : Idle(w) \/ (Parked(w, FALSE) /\ Given(w, n)) \/ AtWork(w, n)
      PROVE  /\ Parked(Emitter, FALSE)'
             /\ iteration' \in [0..(n - 1) -> Progresses]
             /\ \A w \in Workers :
                  /\ Idle(w) => Idle(w)'
                  /\ Parked(w, FALSE) /\ Given(w, n) => Parked(w, FALSE)' /\ Given(w, n)'
                  /\ AtWork(w, n) => AtWork(w, n)'
             /\ \/ iteration' = iteration
                \/ /\ t \in Workers /\ ~Parked(t, FALSE)
                   /\ \A j \in 0..(n - 1) :
                        ~(Lo(t, n) <= j /\ j < Lo(t + 1, n)) => iteration'[j] = iteration[j]
  <2>1. /\ \A u \in Threads : u \in Workers \/ u = Emitter
        /\ \A w \in Workers : w \in Threads /\ w # Emitter
        /\ Emitter \in Threads
    BY <1>2
  <2>2. /\ Parked(Emitter, FALSE)'
        /\ \A w \in Workers : Parked(w, FALSE) => Parked(w, FALSE)'
    BY <1>1, <1>3, <2>1, StepStable
  <2>3. \A u \in Threads : u # t => thread'[u] = thread[u]
    BY StepFrame
  <2>4. iteration \in [0..(n - 1) -> Progresses] /\ DOMAIN iteration = 0..(n - 1)
    BY <1>2, <1>5
  <2>5. CASE Parked(t, FALSE)
    <3>1. UNCHANGED <<queue, table, iteration>>
      BY <2>5, ParkedStep
    <3>2. ASSUME NEW w \in Workers
          PROVE  /\ Idle(w) => Idle(w)'
                 /\ Parked(w, FALSE) /\ Given(w, n) => Parked(w, FALSE)' /\ Given(w, n)'
      <4>1. Given(w, n) => Given(w, n)'
        BY <1>1, <3>1 DEF Given, Share, Lo, Iterations
      <4>2. QED
        BY <2>2, <3>1, <4>1 DEF Idle
    <3>3. ASSUME NEW w \in Workers, AtWork(w, n)
          PROVE  AtWork(w, n)'
      <4>1. CASE w = t
        BY <1>5, <3>3, <4>1, AtWorkStep
      <4>2. CASE w # t
        BY <1>1, <2>1, <2>3, <2>4, <3>1, <3>3, <4>2, AtWorkFrame
      <4>3. QED
        BY <4>1, <4>2
    <3>4. QED
      BY <2>2, <2>4, <3>1, <3>2, <3>3
  <2>6. CASE ~Parked(t, FALSE)
    <3>1. t \in Workers /\ AtWork(t, n) /\ ~Idle(t)
      BY <1>3, <1>5, <2>1, <2>6 DEF Idle
    <3>2. /\ AtWork(t, n)'
          /\ \A v \in Workers : v # t => queue'[v] = queue[v] /\ table'[v] = table[v]
          /\ iteration' \in [0..(n - 1) -> Progresses]
          /\ \A j \in 0..(n - 1) :
               ~(Lo(t, n) <= j /\ j < Lo(t + 1, n)) => iteration'[j] = iteration[j]
      BY <1>5, <3>1, AtWorkStep
    <3>3. DOMAIN iteration' = 0..(n - 1)
      BY <3>2
    <3>4. ASSUME NEW w \in Workers, w # t
          PROVE  /\ Idle(w) => Idle(w)'
                 /\ Parked(w, FALSE) /\ Given(w, n) => Parked(w, FALSE)' /\ Given(w, n)'
                 /\ AtWork(w, n) => AtWork(w, n)'
      <4>1. thread'[w] = thread[w] /\ queue'[w] = queue[w] /\ table'[w] = table[w]
        BY <2>1, <2>3, <3>2, <3>4
      <4>2. ASSUME NEW j \in 0..(n - 1), Lo(w, n) <= j, j < Lo(w + 1, n)
            PROVE  iteration'[j] = iteration[j]
        <5>1. Lo(w + 1, n) <= Lo(t, n) \/ Lo(t + 1, n) <= Lo(w, n)
          <6>1. w < t \/ t < w
            BY <1>2, <3>1, <3>4
          <6>2. QED
            BY <3>1, <6>1, Ranges
        <5>2. /\ Lo(w, n) \in Nat /\ Lo(w + 1, n) \in Nat
              /\ Lo(t, n) \in Nat /\ Lo(t + 1, n) \in Nat
          BY <3>1, Ranges
        <5>3. ~(Lo(t, n) <= j /\ j < Lo(t + 1, n))
          BY <4>2, <5>1, <5>2
        <5>4. QED
          BY <3>2, <5>3
      <4>3. /\ Given(w, n) => Given(w, n)'
            /\ AtWork(w, n) => AtWork(w, n)'
        BY <1>1, <2>4, <3>3, <4>1, <4>2, AtWorkFrame
      <4>4. QED
        BY <2>2, <4>1, <4>3 DEF Idle
    <3>5. QED
      BY <2>2, <2>6, <3>1, <3>2, <3>4
  <2>7. QED
    BY <2>5, <2>6
<1>6. CASE main.pc = "thaw"
  <2>0. PICK n \in Nat : n = main.stop
    BY <1>2
  <2>1. /\ main.at < nw
        /\ \A w \in Workers :
             IF w < main.at THEN AtWork(w, n) ELSE Parked(w, FALSE) /\ Given(w, n)
    BY <1>6, <2>0 DEF Calling
  <2>2. /\ Parked(Emitter, FALSE)'
        /\ iteration' \in [0..(n - 1) -> Progresses]
        /\ \A w \in Workers :
             IF w < main.at THEN AtWork(w, n)' ELSE Parked(w, FALSE)' /\ Given(w, n)'
    BY <1>5, <2>0, <2>1
  <2>3. Calling'
    BY <1>1, <1>6, <2>0, <2>1, <2>2 DEF Calling
  <2>4. QED
    BY <1>1, <2>0, <2>2, <2>3 DEF EmitterSleeps
<1>7. CASE main.pc = "join"
  <2>0. PICK n \in Nat : n = main.stop
    BY <1>2
  <2>1. /\ main.at < nw
        /\ Iterations(0, Lo(main.at, n), "over")
        /\ \A w \in Workers : IF w < main.at THEN Idle(w) ELSE AtWork(w, n)
    BY <1>7, <2>0 DEF Calling
  <2>2. \A w \in Workers : Idle(w) \/ (Parked(w, FALSE) /\ Given(w, n)) \/ AtWork(w, n)
    BY <2>1
  <2>3. /\ Parked(Emitter, FALSE)'
        /\ iteration' \in [0..(n - 1) -> Progresses]
        /\ \A w \in Workers : IF w < main.at THEN Idle(w)' ELSE AtWork(w, n)'
    BY <1>5, <2>0, <2>1, <2>2
  <2>4. \/ iteration' = iteration
        \/ /\ t \in Workers /\ ~Parked(t, FALSE)
           /\ \A j \in 0..(n - 1) :
                ~(Lo(t, n) <= j /\ j < Lo(t + 1, n)) => iteration'[j] = iteration[j]
    BY <1>5, <2>0, <2>2
  <2>5. Lo(main.at, n)' = Lo(main.at, n) /\ DOMAIN iteration' = DOMAIN iteration
        /\ DOMAIN iteration = 0..(n - 1)
    BY <1>1, <1>2, <2>0, <2>3 DEF Lo
  <2>6. Iterations(0, Lo(main.at, n), "over")'
    <3>1. CASE iteration' = iteration
      BY <2>1, <2>5, <3>1 DEF Iterations
    <3>2. CASE /\ t \in Workers /\ ~Parked(t, FALSE)
               /\ \A j \in 0..(n - 1) :
                    ~(Lo(t, n) <= j /\ j < Lo(t + 1, n)) => iteration'[j] = iteration[j]
      <4>1. ~(t < main.at)
        BY <2>1, <3>2 DEF Idle
      <4>2. main.at \in Workers /\ (main.at = t \/ main.at < t)
        BY <1>2, <2>1, <3>2, <4>1, Types
      <4>3. /\ Lo(main.at, n) \in Nat /\ Lo(t, n) \in Nat /\ Lo(main.at, n) <= Lo(t, n)
        <5>1. CASE main.at = t
          BY <4>2, <5>1, Ranges
        <5>2. CASE main.at < t
          <6>1. /\ Lo(main.at, n) \in Nat /\ Lo(main.at + 1, n) \in Nat /\ Lo(t, n) \in Nat
                /\ Lo(main.at, n) <= Lo(main.at + 1, n) /\ Lo(main.at + 1, n) <= Lo(t, n)
            BY <3>2, <4>2, <5>2, Ranges
          <6>2. QED
            BY <6>1
        <5>3. QED
          BY <4>2, <5>1, <5>2
      <4>4. ASSUME NEW j \in 0..(n - 1), j < Lo(main.at, n)
            PROVE  iteration'[j] = "over"
        <5>1. iteration'[j] = iteration[j]
          BY <3>2, <4>3, <4>4
        <5>2. iteration[j] = "over"
          BY <2>1, <2>5, <4>4 DEF Iterations
        <5>3. QED
          BY <5>1, <5>2
      <4>5. QED
        BY <1>1, <2>5, <4>4 DEF Iterations
    <3>3. QED
      BY <2>4, <3>1, <3>2
  <2>7. Calling'
    BY <1>1, <1>7, <2>0, <2>1, <2>3, <2>5, <2>6 DEF Calling
  <2>8. QED
    BY <1>1, <2>0, <2>3, <2>7 DEF EmitterSleeps
<1>8. QED
  BY <1>4, <1>6, <1>7

\* So a step of any thread keeps the invariant.
LEMMA ThreadKeeps ==
  ASSUME IInv, NEW t \in Threads, StepOf(t)
  PROVE  IInv'
<1>1. main'.pc = main.pc /\ main \in MainType
  BY StepMain, Types DEF IInv
<1>2. MainWaits'
  BY StepMainWaits DEF IInv
<1>3. iteration \in [0..(main.stop - 1) -> Progresses]
  BY DEF IInv, TypeOK, Progresses
<1>4. CASE main.pc \in {"create", "spawn", "settle"}
  <2>1. Creation' /\ iteration' = iteration
    BY <1>4, CreationStep DEF IInv
  <2>2. TypeOK'
    BY <1>3, <2>1, StepTypeOK DEF IInv
  <2>3. QED
    BY <1>1, <1>2, <1>4, <2>1, <2>2, ElsewhereNext DEF IInv
<1>5. CASE main.pc \in {"stop", "wait", "endwait", "endthaw", "join_thread", "done"}
  <2>1. Ending' /\ iteration' = iteration
    BY <1>5, EndingStep DEF IInv
  <2>2. TypeOK'
    BY <1>3, <2>1, StepTypeOK DEF IInv
  <2>3. QED
    BY <1>1, <1>2, <1>5, <2>1, <2>2, ElsewhereNext DEF IInv
<1>6. CASE main.pc \in {"idle", "setloop", "send", "thaw", "join", "alone", "body"}
  <2>1. Calling' /\ EmitterSleeps' /\ iteration' \in [0..(main.stop - 1) -> Progresses]
    BY <1>6, CallingStep DEF IInv
  <2>2. TypeOK'
    BY <2>1, StepTypeOK DEF IInv
  <2>3. QED
    BY <1>1, <1>2, <1>6, <2>1, <2>2, ElsewhereNext DEF IInv
<1>7. QED
  BY <1>1, <1>4, <1>5, <1>6 DEF MainType

-----------------------------------------------------------------------------
(* The steps of main. *)

MainPcs ==
  {"create", "spawn", "settle", "idle", "setloop", "send", "thaw", "join",
   "alone", "body", "stop", "wait", "endwait", "endthaw", "join_thread", "done"}

\* What a step of main that knows of its own record shows.
LEMMA MainTypeOK ==
  ASSUME TypeOK, nw' = nw, main' \in MainType,
         thread' \in [Threads -> ThreadType],
         queue' \in [Workers -> Seq(TaskType)], table' \in [Workers -> EntryType],
         chunk' \in Nat, iteration' \in [0..(main'.stop - 1) -> Progresses]
  PROVE  TypeOK'
<1>1. Workers' = Workers /\ Threads' = Threads
  BY DEF Workers, Threads
<1>2. QED
  BY <1>1 DEF TypeOK, MainType, ThreadType, TaskType, EntryType, Progresses

\* The types once more, by the names of this module.
LEMMA Typed ==
  ASSUME TypeOK
  PROVE  /\ thread \in [Threads -> ThreadType]
         /\ queue \in [Workers -> Seq(TaskType)] /\ table \in [Workers -> EntryType]
         /\ chunk \in Nat /\ iteration \in [0..(main.stop - 1) -> Progresses]
         /\ main \in MainType /\ nw \in Nat \ {0}
         /\ main.asleep \in BOOLEAN /\ main.pc \in MainPcs
<1>1. main \in MainType /\ nw \in Nat \ {0}
  BY Types
<1>2. main.asleep \in BOOLEAN /\ main.pc \in MainPcs
  BY <1>1 DEF MainType, MainPcs
<1>3. QED
  BY <1>1, <1>2 DEF TypeOK, ThreadType, TaskType, EntryType, Progresses

\* A loop over the threads goes on, or ends and starts the next one.
LEMMA NextIndexStep ==
  ASSUME TypeOK, NEW last \in Nat, last <= nw, main.at <= last,
         NEW next \in MainPcs, NextIndex(last, next)
  PROVE  /\ main' \in MainType
         /\ main'.start = main.start /\ main'.stop = main.stop
         /\ main'.asleep = main.asleep
         /\ \/ main.at = last /\ main'.pc = next /\ main'.at = 0
            \/ main.at < last /\ main'.pc = main.pc /\ main'.at = main.at + 1
<1>1. main \in MainType /\ main.at \in Nat /\ nw \in Nat \ {0} /\ Threads = 0..nw
  BY Types
<1>2. CASE main.at = last
  <2>1. main' = [main EXCEPT !.pc = next, !.at = 0] /\ 0 \in Threads
    BY <1>1, <1>2 DEF NextIndex
  <2>2. QED
    BY <1>1, <1>2, <2>1 DEF MainType, MainPcs
<1>3. CASE main.at # last
  <2>1. PICK a \in Threads : a = main.at + 1
    BY <1>1, <1>3
  <2>2. main' = [main EXCEPT !.at = a] /\ main.at < last
    BY <1>1, <1>3, <2>1 DEF NextIndex
  <2>3. main' \in MainType
    BY <1>1, <2>2 DEF MainType
  <2>4. QED
    BY <1>1, <2>1, <2>2, <2>3 DEF MainType
<1>4. QED
  BY <1>2, <1>3

\* A thread that is created starts with svc, and is to freeze when that is over.
LEMMA FreezeAndRunStep ==
  ASSUME TypeOK, NEW t \in Threads, NotSpawned(t), FreezeAndRun(t), nw' = nw
  PROVE  /\ thread' \in [Threads -> ThreadType]
         /\ thread'[t].pc = "svc" /\ thread'[t].at = 0 /\ Up(t)'
         /\ \A u \in Threads : u # t => thread'[u] = thread[u]
<1>1. thread \in [Threads -> ThreadType]
  BY Typed
<1>2. PICK r : r = [thread[t] EXCEPT !.pc = "svc", !.stp = FALSE, !.freezing = 1]
  OBVIOUS
<1>3. thread' = [thread EXCEPT ![t] = r]
  BY <1>2 DEF FreezeAndRun
<1>4. r \in ThreadType
  <2>1. PICK f \in 0..2 : f = 1
    OBVIOUS
  <2>2. PICK b \in BOOLEAN : b = FALSE
    OBVIOUS
  <2>3. thread[t] \in ThreadType /\ r = [thread[t] EXCEPT !.pc = "svc", !.stp = b, !.freezing = f]
    BY <1>1, <1>2, <2>1, <2>2
  <2>4. QED
    BY <2>3 DEF ThreadType
<1>5. r.pc = "svc" /\ r.at = 0 /\ ~r.frozen /\ r.freezing = 1 /\ ~r.stp
  BY <1>2 DEF NotSpawned, NewThread
<1>6. thread'[t] = r /\ \A u \in Threads : u # t => thread'[u] = thread[u]
  BY <1>1, <1>3
<1>7. QED
  BY <1>1, <1>3, <1>4, <1>5, <1>6, ThreadUpdate DEF Up

LEMMA CreateEmitterKeeps ==
  ASSUME IInv, CreateEmitter
  PROVE  IInv'
<1>1. /\ TypeOK /\ thread \in [Threads -> ThreadType] /\ main \in MainType
      /\ nw \in Nat \ {0} /\ Workers = 0..(nw - 1) /\ Threads = 0..nw /\ Emitter = nw
  BY Types, Typed DEF IInv
<1>2. /\ main.pc = "create" /\ main.at = 0 /\ main.stop = 0 /\ \A t \in Threads : NotSpawned(t)
      /\ \A w \in Workers : queue[w] = <<>>
  BY DEF IInv, Creation, CreateEmitter
<1>3. /\ main' = [main EXCEPT !.pc = "spawn"]
      /\ FreezeAndRun(Emitter)
      /\ UNCHANGED <<nw, queue, table, chunk, iteration>>
  BY DEF CreateEmitter
<1>4. /\ main'.pc = "spawn" /\ main'.at = 0 /\ main'.stop = main.stop
      /\ main'.asleep = main.asleep /\ main' \in MainType
  BY <1>1, <1>2, <1>3 DEF MainType
<1>5. /\ thread' \in [Threads -> ThreadType]
      /\ thread'[Emitter].pc = "svc" /\ thread'[Emitter].at = 0 /\ Up(Emitter)'
      /\ \A u \in Threads : u # Emitter => thread'[u] = thread[u]
  <2>1. Emitter \in Threads /\ NotSpawned(Emitter) /\ nw' = nw /\ Emitter' = Emitter
    BY <1>1, <1>2, <1>3 DEF Emitter
  <2>2. QED
    BY <1>1, <1>3, <2>1, FreezeAndRunStep
<1>6. TypeOK'
  BY <1>1, <1>3, <1>4, <1>5, MainTypeOK, Typed
<1>7. Emitter' = Emitter /\ 0 \in 0..nw' /\ \A w \in Workers : ~(w < 0)
  BY <1>1, <1>3 DEF Emitter
<1>9. WarmEmitter'
  BY <1>5, <1>7 DEF WarmEmitter
<1>10. ASSUME NEW w \in Workers PROVE Unspawned(w)'
  <2>1. w # Emitter /\ w \in Threads
    BY <1>1, <1>10
  <2>2. thread'[w] = NewThread /\ queue'[w] = <<>>
    BY <1>2, <1>3, <1>5, <2>1 DEF NotSpawned
  <2>3. QED
    BY <1>5, <1>7, <2>2 DEF Unspawned, NotSpawned
<1>11. Creation'
  BY <1>1, <1>2, <1>3, <1>4, <1>9, <1>10 DEF Creation, Workers
<1>12. MainWaits'
  BY <1>2, <1>4 DEF IInv, MainWaits
<1>13. QED
  BY <1>4, <1>6, <1>11, <1>12, ElsewhereNext DEF IInv

LEMMA CreateWorkerKeeps ==
  ASSUME IInv, CreateWorker
  PROVE  IInv'
<1>1. /\ TypeOK /\ thread \in [Threads -> ThreadType] /\ main \in MainType
      /\ nw \in Nat \ {0} /\ Workers = 0..(nw - 1) /\ Threads = 0..nw /\ Emitter = nw
      /\ main.at \in Nat
  BY Types, Typed DEF IInv
<1>0. PICK a \in Workers : a = main.at
  <2>1. main.at < nw
    BY DEF IInv, Creation, CreateWorker
  <2>2. QED
    BY <1>1, <2>1
<1>2. /\ main.pc = "spawn" /\ main.stop = 0 /\ WarmEmitter
      /\ \A w \in Workers : IF w < a THEN WarmWorker(w) ELSE Unspawned(w)
  BY <1>0 DEF IInv, Creation, CreateWorker
<1>3. /\ NextIndex(nw - 1, "settle")
      /\ FreezeAndRun(a)
      /\ UNCHANGED <<nw, queue, table, chunk, iteration>>
  BY <1>0 DEF CreateWorker
<1>4. /\ main' \in MainType /\ main'.stop = main.stop /\ main'.asleep = main.asleep
      /\ \/ a = nw - 1 /\ main'.pc = "settle" /\ main'.at = 0
         \/ a < nw - 1 /\ main'.pc = "spawn" /\ main'.at = a + 1
  <2>1. nw - 1 \in Nat /\ nw - 1 <= nw /\ main.at <= nw - 1 /\ "settle" \in MainPcs
    BY <1>0, <1>1 DEF MainPcs
  <2>2. QED
    BY <1>0, <1>1, <1>2, <1>3, <2>1, NextIndexStep
<1>5. a \in Threads /\ a # Emitter
  BY <1>1
<1>6. /\ thread' \in [Threads -> ThreadType]
      /\ thread'[a].pc = "svc" /\ Up(a)'
      /\ \A u \in Threads : u # a => thread'[u] = thread[u]
  <2>1. NotSpawned(a)
    BY <1>1, <1>2 DEF Unspawned
  <2>2. QED
    BY <1>1, <1>3, <1>5, <2>1, FreezeAndRunStep
<1>7. TypeOK'
  BY <1>1, <1>3, <1>4, <1>6, MainTypeOK, Typed
<1>8. /\ Emitter' = Emitter /\ thread'[Emitter] = thread[Emitter]
      /\ \A w \in Workers : w # a => thread'[w] = thread[w]
  BY <1>1, <1>3, <1>5, <1>6 DEF Emitter
<1>9. WarmEmitter'
  BY <1>2, <1>3, <1>8 DEF WarmEmitter, Parked, Up
<1>10. ASSUME NEW w \in Workers, w # a
       PROVE  /\ WarmWorker(w) => WarmWorker(w)'
              /\ Unspawned(w) => Unspawned(w)'
  BY <1>3, <1>8, <1>10 DEF WarmWorker, Unspawned, NotSpawned, Parked, Up
<1>11. WarmWorker(a)'
  <2>1. queue[a] = IF a < thread[Emitter].at THEN <<GoOut>> ELSE <<>>
    BY <1>1, <1>2 DEF Unspawned
  <2>2. thread[Emitter].at \in Nat
    <3>1. thread[Emitter] \in ThreadType
      BY <1>1
    <3>2. QED
      BY <3>1 DEF ThreadType
  <2>3. a < thread[Emitter].at \/ a >= thread[Emitter].at
    BY <1>1, <2>2
  <2>4. QED
    BY <1>1, <1>3, <1>6, <1>8, <2>1, <2>2, <2>3 DEF WarmWorker
<1>12. Creation'
  <2>1. Workers' = Workers
    BY <1>3 DEF Workers
  <2>2. CASE a = nw - 1 /\ main'.pc = "settle" /\ main'.at = 0
    <3>1. \A w \in Workers : WarmWorker(w)' /\ ~(w < main'.at)
      BY <1>1, <1>2, <1>10, <1>11, <2>2
    <3>2. QED
      BY <1>2, <1>4, <1>9, <2>1, <2>2, <3>1 DEF Creation
  <2>3. CASE a < nw - 1 /\ main'.pc = "spawn" /\ main'.at = a + 1
    <3>1. ASSUME NEW w \in Workers
          PROVE  IF w < a + 1 THEN WarmWorker(w)' ELSE Unspawned(w)'
      BY <1>1, <1>2, <1>10, <1>11
    <3>2. QED
      BY <1>1, <1>2, <1>3, <1>4, <1>9, <2>1, <2>3, <3>1 DEF Creation
  <2>4. QED
    BY <1>4, <2>2, <2>3
<1>13. MainWaits'
  BY <1>2, <1>4 DEF IInv, MainWaits
<1>14. QED
  BY <1>4, <1>7, <1>12, <1>13, ElsewhereNext DEF IInv

\* A worker at work that has set frozen is done.
LEMMA FrozenReady ==
  ASSUME TypeOK, NEW w \in Workers, NEW n \in Nat, AtWork(w, n), thread[w].frozen
  PROVE  Idle(w) /\ Ready(w, n)
<1>1. thread[w].frozen = TRUE
  BY Types, ~FALSE DEF ThreadType
<1>2. ~Thawed(w) /\ ~Working(w, n) /\ ~Up(w)
  BY DEF Thawed, Working, Up
<1>3. Parked(w, FALSE) /\ Ready(w, n)
  BY <1>2 DEF AtWork
<1>4. QED
  BY <1>3 DEF Idle, Ready

\* Iterations over up to a, and from a to b, are over up to b.
LEMMA IterationsJoin ==
  ASSUME NEW n \in Nat, DOMAIN iteration = 0..(n - 1), NEW a \in Nat, NEW b \in Nat,
         NEW state, Iterations(0, a, state), Iterations(a, b, state)
  PROVE  Iterations(0, b, state)
BY DEF Iterations

\* Main finds one thread frozen after the other.
LEMMA WaitFreezingKeeps ==
  ASSUME IInv, WaitFreezing
  PROVE  IInv'
<1>1. /\ TypeOK /\ main \in MainType /\ main.stop \in Nat
      /\ nw \in Nat \ {0} /\ Workers = 0..(nw - 1) /\ Threads = 0..nw /\ Emitter = nw
      /\ main.at \in 0..nw /\ DOMAIN iteration = 0..(main.stop - 1)
  BY Types DEF IInv, MainType
<1>2. /\ UNCHANGED <<nw, thread, queue, table, chunk, iteration>>
      /\ ~main.asleep /\ thread[main.at].frozen
      /\ main.pc \in {"settle", "join"}
  BY DEF WaitFreezing
<1>3. Emitter' = Emitter /\ Workers' = Workers /\ Threads' = Threads
  BY <1>2 DEF Emitter, Workers, Threads
<1>4. PICK a \in 0..nw : a = main.at
  BY <1>1
<1>5. CASE main.pc = "settle"
  <2>1. NextIndex(nw, "idle")
    BY <1>5 DEF WaitFreezing
  <2>2. /\ main' \in MainType /\ main'.stop = main.stop /\ main'.asleep = main.asleep
        /\ \/ a = nw /\ main'.pc = "idle" /\ main'.at = 0
           \/ a < nw /\ main'.pc = "settle" /\ main'.at = a + 1
    <3>1. "idle" \in MainPcs /\ nw \in Nat /\ nw <= nw /\ main.at <= nw
      BY <1>1 DEF MainPcs
    <3>2. QED
      BY <1>1, <1>4, <1>5, <2>1, <3>1, NextIndexStep
  <2>3. TypeOK'
    BY <1>1, <1>2, <2>2, MainTypeOK, Typed
  <2>4. /\ WarmEmitter /\ main.stop = 0
        /\ \A w \in Workers :
             WarmWorker(w) /\ (w < a => Parked(w, FALSE) /\ queue[w] = <<>>)
    BY <1>4, <1>5 DEF IInv, Creation
  <2>5. CASE a = nw /\ main'.pc = "idle" /\ main'.at = 0
    <3>0. \A w \in Workers : w < a
      BY <1>1, <2>5
    <3>1. \A w \in Workers : Parked(w, FALSE) /\ queue[w] = <<>>
      BY <2>4, <3>0
    <3>2. Parked(Emitter, FALSE)
      BY <1>1, <1>2, <1>4, <2>4, <2>5 DEF WarmEmitter, Up
    <3>3. AllSleep' /\ Parked(Emitter, FALSE)'
      BY <1>2, <1>3, <3>1, <3>2 DEF AllSleep, Idle, Parked
    <3>4. Iterations(0, main.stop, "over")'
      BY <1>1, <1>2, <2>4 DEF Iterations
    <3>5. Calling' /\ EmitterSleeps'
      BY <2>2, <2>5, <3>3, <3>4 DEF Calling, EmitterSleeps, Iterations
    <3>6. MainWaits'
      BY <1>2, <2>2 DEF MainWaits
    <3>7. QED
      BY <2>3, <2>5, <3>5, <3>6, ElsewhereNext DEF IInv
  <2>6. CASE a < nw /\ main'.pc = "settle" /\ main'.at = a + 1
    <3>1. a \in Workers
      BY <1>1, <2>6
    <3>2. Parked(a, FALSE) /\ queue[a] = <<>>
      BY <1>2, <1>4, <2>4, <3>1 DEF WarmWorker, Up
    <3>3. \A w \in Workers : WarmWorker(w) /\ (w < a + 1 => Parked(w, FALSE) /\ queue[w] = <<>>)
      <4>1. \A w \in Workers : w < a + 1 => w < a \/ w = a
        BY <1>1
      <4>2. QED
        BY <2>4, <3>2, <4>1
    <3>4. WarmEmitter' /\ \A w \in Workers : WarmWorker(w)' /\ (Parked(w, FALSE) => Parked(w, FALSE)')
      BY <1>2, <1>3, <2>4 DEF WarmEmitter, WarmWorker, Parked, Up
    <3>5. Creation'
      BY <1>2, <1>3, <2>2, <2>4, <2>6, <3>3, <3>4 DEF Creation
    <3>6. MainWaits'
      BY <1>2, <2>2 DEF MainWaits
    <3>7. QED
      BY <2>3, <2>6, <3>5, <3>6, ElsewhereNext DEF IInv
  <2>7. QED
    BY <2>2, <2>5, <2>6
<1>6. CASE main.pc = "join"
  <2>0. PICK n \in Nat : n = main.stop
    BY <1>1
  <2>1. /\ NextIndex(nw - 1, "idle") /\ a < nw
        /\ Iterations(0, Lo(a, n), "over")
        /\ \A w \in Workers : IF w < a THEN Idle(w) ELSE AtWork(w, n)
        /\ Parked(Emitter, FALSE)
    BY <1>4, <1>6, <2>0 DEF WaitFreezing, IInv, Calling, EmitterSleeps
  <2>2. /\ main' \in MainType /\ main'.stop = n /\ main'.asleep = main.asleep
        /\ \/ a = nw - 1 /\ main'.pc = "idle" /\ main'.at = 0
           \/ a < nw - 1 /\ main'.pc = "join" /\ main'.at = a + 1
    <3>1. "idle" \in MainPcs /\ nw - 1 \in Nat /\ nw - 1 <= nw /\ main.at <= nw - 1
      BY <1>1, <1>4, <2>1 DEF MainPcs
    <3>2. QED
      BY <1>1, <1>4, <1>6, <2>0, <2>1, <3>1, NextIndexStep
  <2>3. TypeOK'
    BY <1>1, <1>2, <2>0, <2>2, MainTypeOK, Typed
  <2>4. a \in Workers /\ AtWork(a, n) /\ thread[a].frozen
    BY <1>1, <1>2, <1>4, <2>1
  <2>5. Idle(a) /\ Iterations(Lo(a, n), Lo(a + 1, n), "over")
    BY <1>1, <2>4, FrozenReady DEF Ready
  <2>6. Lo(a, n) \in Nat /\ Lo(a + 1, n) \in Nat /\ Lo(nw, n) = n
    BY <1>1, <2>4, Ranges
  <2>7. Iterations(0, Lo(a + 1, n), "over")
    BY <1>1, <2>0, <2>1, <2>5, <2>6, IterationsJoin
  <2>8. \A w \in Workers : IF w < a + 1 THEN Idle(w) ELSE AtWork(w, n)
    BY <1>1, <2>1, <2>5
  <2>9. EmitterSleeps' /\ MainWaits'
    BY <1>2, <1>3, <2>1, <2>2 DEF EmitterSleeps, Parked, MainWaits
  <2>10. CASE a = nw - 1 /\ main'.pc = "idle" /\ main'.at = 0
    <3>1. a + 1 = nw
      BY <1>1, <2>10
    <3>2. \A w \in Workers : Idle(w)
      BY <1>1, <2>8, <3>1
    <3>3. AllSleep'
      BY <1>2, <1>3, <3>2 DEF AllSleep, Idle, Parked
    <3>4. Iterations(0, n, "over")'
      BY <1>2, <2>6, <2>7, <3>1 DEF Iterations
    <3>5. Calling'
      BY <2>2, <2>10, <3>3, <3>4 DEF Calling
    <3>6. QED
      BY <2>3, <2>9, <2>10, <3>5, ElsewhereNext DEF IInv
  <2>11. CASE a < nw - 1 /\ main'.pc = "join" /\ main'.at = a + 1
    <3>1. a + 1 < nw
      BY <1>1, <2>11
    <3>2. \A w \in Workers : (Idle(w) => Idle(w)') /\ (AtWork(w, n) => AtWork(w, n)')
      <4>1. ASSUME NEW w \in Workers PROVE AtWork(w, n) => AtWork(w, n)'
        BY <1>1, <1>2, <2>0, AtWorkFrame
      <4>2. QED
        BY <1>2, <4>1 DEF Idle, Parked
    <3>3. Iterations(0, Lo(a + 1, n), "over")'
      BY <1>2, <2>7 DEF Iterations, Lo
    <3>4. Calling'
      BY <1>2, <1>3, <2>2, <2>8, <2>11, <3>1, <3>2, <3>3 DEF Calling
    <3>5. QED
      BY <2>3, <2>9, <2>11, <3>4, ElsewhereNext DEF IInv
  <2>12. QED
    BY <2>2, <2>10, <2>11
<1>7. QED
  BY <1>2, <1>5, <1>6

\* What main does for one thread changes nothing but whether it sleeps, or sleeps no more.
LEMMA AsleepKeeps ==
  ASSUME IInv, NEW b \in BOOLEAN, main' = [main EXCEPT !.asleep = b],
         UNCHANGED <<nw, thread, queue, table, chunk, iteration>>, MainWaits'
  PROVE  IInv'
<1>1. TypeOK /\ main \in MainType
  BY Types DEF IInv
<1>2. /\ main' \in MainType /\ main'.pc = main.pc /\ main'.at = main.at
      /\ main'.start = main.start /\ main'.stop = main.stop
  BY <1>1 DEF MainType
<1>3. TypeOK'
  BY <1>1, <1>2, MainTypeOK, Typed
<1>4. Creation'
  BY <1>2 DEF IInv, Creation, WarmEmitter, WarmWorker, Unspawned, NotSpawned, Parked, Up,
              Emitter, Workers, Threads
<1>5. EmitterSleeps' /\ Ending'
  BY <1>2 DEF IInv, EmitterSleeps, Ending, Parked, Gone, Leaving, Emitter, Threads
<1>6. Calling'
  BY <1>2 DEF IInv, Calling, AllSleep, Idle, AtWork, Given, Working, Ready, Thawed, Iterations,
              Entry, Share, Lo, Parked, Up, Workers
<1>7. QED
  BY <1>3, <1>4, <1>5, <1>6 DEF IInv

LEMMA SleepUntilFrozenKeeps ==
  ASSUME IInv, SleepUntilFrozen
  PROVE  IInv'
<1>1. /\ main \in MainType /\ main.at \in Threads /\ thread[main.at] \in ThreadType
  BY Types DEF IInv, MainType
<1>2. /\ main' = [main EXCEPT !.asleep = TRUE] /\ ~thread[main.at].frozen
      /\ UNCHANGED <<nw, thread, queue, table, chunk, iteration>>
  BY DEF SleepUntilFrozen
<1>3. main.pc \in {"settle", "join"}
  <2>1. main.pc # "endwait"
    <3>1. ~(main.at < main.at)
      BY <1>1 DEF IInv, TypeOK, Threads
    <3>2. QED
      BY <1>1, <1>2, <3>1 DEF IInv, Ending, Parked
  <2>2. QED
    BY <2>1 DEF SleepUntilFrozen
<1>4. MainWaits'
  BY <1>1, <1>2, <1>3 DEF MainWaits, MainType
<1>5. QED
  BY <1>2, <1>4, AsleepKeeps

LEMMA SpuriousKeeps ==
  ASSUME IInv, Spurious
  PROVE  IInv'
<1>1. CASE main.asleep /\ main' = [main EXCEPT !.asleep = FALSE] /\ UNCHANGED thread
  <2>1. main \in MainType
    BY Types DEF IInv
  <2>2. ~main'.asleep
    BY <1>1, <2>1 DEF MainType
  <2>3. MainWaits'
    BY <2>2 DEF MainWaits
  <2>4. QED
    BY <1>1, <2>3, AsleepKeeps DEF Spurious
<1>2. CASE \E t \in Threads : /\ thread[t].pc = "asleep"
                              /\ thread' = [thread EXCEPT ![t].pc = "woken"]
                              /\ UNCHANGED main
  BY <1>2, ThreadKeeps DEF Spurious, StepOf, Wakes
<1>3. QED
  BY <1>1, <1>2 DEF Spurious

\* A call starts with all threads asleep and nothing done.
LEMMA CallKeeps ==
  ASSUME IInv, Call
  PROVE  IInv'
<1>1. /\ TypeOK /\ main \in MainType /\ nw \in Nat \ {0} /\ Workers = 0..(nw - 1)
  BY Types DEF IInv
<1>2. PICK n \in Lengths :
        /\ iteration' = [j \in 0..(n - 1) |-> "waiting"]
        /\ main' = [main EXCEPT !.pc = "setloop", !.start = 0, !.stop = n, !.calls = @ + 1]
        /\ chunk' = n \div nw
  BY DEF Call
<1>3. n \in Nat
  BY <1>2, ConstantsAssumption
<1>4. /\ main.pc = "idle" /\ main.calls < Calls /\ UNCHANGED <<nw, thread, queue, table>>
  BY DEF Call
<1>5. AllSleep /\ main.at = 0 /\ Parked(Emitter, FALSE)
  BY <1>4 DEF IInv, Calling, EmitterSleeps
<1>6. /\ main'.pc = "setloop" /\ main'.at = 0 /\ main'.start = 0 /\ main'.stop = n
      /\ main'.asleep = main.asleep /\ main' \in MainType
  <2>1. PICK c \in 0..Calls : c = main.calls + 1
    BY <1>1, <1>4, ConstantsAssumption DEF MainType
  <2>2. main' = [main EXCEPT !.pc = "setloop", !.start = 0, !.stop = n, !.calls = c]
    BY <1>2, <2>1
  <2>3. n \in Lengths \cup {0} /\ 0 \in Nat
    OBVIOUS
  <2>4. QED
    BY <1>1, <1>5, <2>2, <2>3 DEF MainType
<1>7. TypeOK'
  <2>1. chunk' \in Nat
    BY <1>1, <1>2, <1>3, DivMod
  <2>2. iteration' \in [0..(n - 1) -> Progresses]
    BY <1>2 DEF Progresses
  <2>3. QED
    BY <1>1, <1>4, <1>6, <2>1, <2>2, MainTypeOK, Typed
<1>8. AllSleep' /\ Parked(Emitter, FALSE)'
  BY <1>4, <1>5 DEF AllSleep, Idle, Parked, Emitter, Workers
<1>9. Lo(0, n)' = 0 /\ 0 < nw /\ \A w \in Workers : ~(w < 0)
  BY <1>1, <1>3, <1>4, Ranges DEF Lo
<1>10. Iterations(0, n, "waiting")'
  BY <1>2 DEF Iterations
<1>11. Calling' /\ EmitterSleeps' /\ MainWaits'
  BY <1>2, <1>4, <1>6, <1>8, <1>9, <1>10 DEF IInv, Calling, EmitterSleeps, MainWaits, Workers
<1>12. QED
  BY <1>6, <1>7, <1>11, ElsewhereNext DEF IInv

\* Part of the loop.
LEMMA IterationsPart ==
  ASSUME NEW n \in Nat, DOMAIN iteration = 0..(n - 1), NEW state,
         NEW a \in Nat, NEW b \in Nat, NEW c \in Nat, NEW d \in Nat, a <= c, d <= b,
         Iterations(a, b, state)
  PROVE  Iterations(c, d, state)
BY DEF Iterations

\* The ranges of the table are those of the invariant.
LEMMA SetRangeKeeps ==
  ASSUME IInv, SetRange
  PROVE  IInv'
<1>1. /\ TypeOK /\ main \in MainType /\ nw \in Nat \ {0} /\ Workers = 0..(nw - 1)
      /\ Threads = 0..nw /\ main.at \in Nat /\ main.stop \in Nat
      /\ DOMAIN iteration = 0..(main.stop - 1)
      /\ table \in [Workers -> EntryType] /\ chunk \in Nat
  BY Types, Typed DEF IInv
<1>2. PICK n \in Nat : n = main.stop
  BY <1>1
<1>3. main.pc = "setloop" /\ UNCHANGED <<nw, thread, queue, iteration>>
  BY DEF SetRange
<1>4. /\ main.at < nw /\ Iterations(0, n, "waiting") /\ chunk = n \div nw
      /\ main.start = Lo(main.at, n) /\ \A w \in Workers : w < main.at => table[w] = Entry(w, n)
      /\ AllSleep /\ Parked(Emitter, FALSE)
  BY <1>2, <1>3 DEF IInv, Calling, EmitterSleeps
<1>5. PICK a \in Workers : a = main.at
  BY <1>1, <1>4
<1>6. PICK lo \in Nat, hi \in Nat :
        lo = Lo(a, n) /\ hi = Lo(a + 1, n) /\ lo <= hi /\ hi <= n
        /\ hi = lo + chunk + (IF a < n % nw THEN 1 ELSE 0)
  <2>1. /\ Lo(a, n) \in Nat /\ Lo(a + 1, n) \in Nat
        /\ Lo(a, n) <= Lo(a + 1, n) /\ Lo(a + 1, n) <= n
        /\ Lo(a + 1, n) = Lo(a, n) + n \div nw + (IF a < n % nw THEN 1 ELSE 0)
    BY <1>1, <1>5, Ranges
  <2>2. QED
    BY <1>4, <2>1
<1>7. Least(lo + chunk + (IF a < n % nw THEN 1 ELSE 0), n) = hi
  BY <1>6 DEF Least
<1>8. /\ table' = [table EXCEPT ![a] = [ntask |-> 1, start |-> lo, end |-> hi]]
      /\ \/ /\ a = nw - 1 /\ chunk' = RoundedUp(chunk, n % nw)
            /\ main' = [main EXCEPT !.pc = IF nw > 1 THEN "send" ELSE "alone",
                                    !.at = 0, !.start = 0]
         \/ /\ a # nw - 1 /\ chunk' = chunk
            /\ main' = [main EXCEPT !.at = a + 1, !.start = hi]
  BY <1>2, <1>4, <1>5, <1>6, <1>7 DEF SetRange
<1>9. Entry(a, n) = [ntask |-> 1, start |-> lo, end |-> hi]
  BY <1>6 DEF Entry
<1>10. table' \in [Workers -> EntryType]
  <2>1. Entry(a, n) \in EntryType
    BY <1>9, 1 \in Int DEF EntryType
  <2>2. QED
    BY <1>1, <1>8, <1>9, <2>1
<1>11. \A w \in Workers : w < a + 1 => table'[w] = Entry(w, n)'
  <2>1. \A w \in Workers : w < a + 1 => w < a \/ w = a
    BY <1>1
  <2>2. \A w \in Workers : Entry(w, n)' = Entry(w, n)
    BY <1>3 DEF Entry, Lo
  <2>3. \A w \in Workers : w < a => w # a
    BY <1>1
  <2>4. QED
    BY <1>1, <1>4, <1>5, <1>8, <1>9, <2>1, <2>2, <2>3
<1>12. /\ AllSleep' /\ Parked(Emitter, FALSE)'
       /\ \A from, to, state : Iterations(from, to, state) => Iterations(from, to, state)'
  BY <1>3, <1>4 DEF AllSleep, Idle, Parked, Emitter, Workers, Iterations
<1>13. CASE a # nw - 1
  <2>1. a + 1 \in Threads /\ a + 1 < nw
    BY <1>1, <1>13
  <2>2. main' = [main EXCEPT !.at = a + 1, !.start = hi] /\ chunk' = chunk
    BY <1>8, <1>13
  <2>3. /\ main'.pc = "setloop" /\ main'.at = a + 1 /\ main'.start = hi /\ main'.stop = n
        /\ main'.asleep = main.asleep
    BY <1>1, <1>2, <1>3, <2>2 DEF MainType
  <2>4. main' \in MainType
    <3>1. PICK b \in Threads : b = a + 1
      BY <2>1
    <3>2. main' = [main EXCEPT !.at = b, !.start = hi]
      BY <2>2, <3>1
    <3>3. QED
      BY <1>1, <3>2 DEF MainType
  <2>5. TypeOK'
    BY <1>1, <1>2, <1>3, <1>10, <2>2, <2>3, <2>4, MainTypeOK, Typed
  <2>6. Lo(a + 1, n)' = hi
    BY <1>3, <1>6 DEF Lo
  <2>7. Calling'
    BY <1>3, <1>4, <1>11, <1>12, <2>1, <2>2, <2>3, <2>6 DEF Calling, Workers
  <2>8. EmitterSleeps' /\ MainWaits'
    BY <1>3, <1>12, <2>3 DEF IInv, EmitterSleeps, MainWaits
  <2>9. QED
    BY <2>3, <2>5, <2>7, <2>8, ElsewhereNext DEF IInv
<1>14. CASE a = nw - 1
  <2>1. PICK next \in {"send", "alone"} : next = IF nw > 1 THEN "send" ELSE "alone"
    OBVIOUS
  <2>2. /\ main' = [main EXCEPT !.pc = next, !.at = 0, !.start = 0]
        /\ chunk' = RoundedUp(chunk, n % nw) /\ 0 \in Threads /\ 0 \in Nat
    BY <1>1, <1>8, <1>14, <2>1
  <2>3. /\ main'.pc = next /\ main'.at = 0 /\ main'.start = 0 /\ main'.stop = n
        /\ main'.asleep = main.asleep /\ main' \in MainType
    BY <1>1, <1>2, <2>2 DEF MainType
  <2>4. /\ chunk' = n \div nw + (IF n % nw > 0 THEN 1 ELSE 0) /\ chunk' \in Nat
    BY <1>1, <1>4, <2>2 DEF RoundedUp
  <2>5. TypeOK'
    BY <1>1, <1>2, <1>3, <1>10, <2>3, <2>4, MainTypeOK, Typed
  <2>6. EmitterSleeps' /\ MainWaits'
    BY <1>3, <1>12, <2>3 DEF IInv, EmitterSleeps, MainWaits
  <2>7. 0 < nw /\ a + 1 = nw /\ \A w \in Workers : w < a + 1 /\ ~(w < 0)
    BY <1>1, <1>14
  <2>8. CASE next = "alone"
    <3>1. Iterations(0, 0, "over")'
      <4>1. DOMAIN iteration' = 0..(n - 1)
        BY <1>1, <1>2, <1>3
      <4>2. QED
        BY <4>1 DEF Iterations
    <3>2. Iterations(0, n, "waiting")'
      BY <1>4, <1>12
    <3>3. Calling'
      BY <1>12, <2>3, <2>8, <3>1, <3>2 DEF Calling
    <3>4. QED
      BY <2>3, <2>5, <2>6, <2>8, <3>3, ElsewhereNext DEF IInv
  <2>9. CASE next = "send"
    <3>1. ASSUME NEW w \in Workers
          PROVE  Iterations(Lo(w, n), Lo(w + 1, n), "waiting")'
      <4>1. Iterations(Lo(w, n), Lo(w + 1, n), "waiting")
        <5>1. Lo(w, n) \in Nat /\ Lo(w + 1, n) \in Nat /\ Lo(w + 1, n) <= n
          BY <1>1, Ranges
        <5>2. 0 <= Lo(w, n) /\ 0 \in Nat
          BY <5>1
        <5>3. QED
          BY <1>1, <1>2, <1>4, <5>1, <5>2, IterationsPart
      <4>2. QED
        BY <1>3, <1>12, <4>1 DEF Lo, Iterations
    <3>2. \A w \in Workers : /\ ~(w < 0) /\ Idle(w)' /\ table'[w] = Entry(w, n)'
                             /\ Iterations(Lo(w, n), Lo(w + 1, n), "waiting")'
      BY <1>3, <1>11, <1>12, <2>7, <3>1 DEF AllSleep, Workers
    <3>3. Calling'
      BY <1>3, <2>3, <2>4, <2>7, <2>9, <3>2 DEF Calling, Workers
    <3>4. QED
      BY <2>3, <2>5, <2>6, <2>9, <3>3, ElsewhereNext DEF IInv
  <2>10. QED
    BY <2>8, <2>9
<1>15. QED
  BY <1>13, <1>14

LEMMA EntryFields ==
  ASSUME NEW e \in EntryType, NEW a \in Int, NEW b \in Nat
  PROVE  [e EXCEPT !.ntask = a, !.start = b] = [ntask |-> a, start |-> b, end |-> e.end]
<1>1. PICK r : r = [e EXCEPT !.ntask = a, !.start = b]
  OBVIOUS
<1>2. r \in EntryType
  BY <1>1, EntryUpdate
<1>3. r.ntask = a /\ r.start = b /\ r.end = e.end
  BY <1>1 DEF EntryType
<1>4. r = [ntask |-> a, start |-> b, end |-> e.end]
  BY <1>2, <1>3 DEF EntryType
<1>5. QED
  BY <1>1, <1>4

\* The first task of a worker is its whole range: _chunk is the longest range.
LEMMA FirstTask ==
  ASSUME TypeOK, NEW n \in Nat, NEW a \in Workers, table[a] = Entry(a, n),
         chunk = n \div nw + (IF n % nw > 0 THEN 1 ELSE 0)
  PROVE  /\ FirstOf(a) = Share(a, n) /\ table[a].ntask = 1
         /\ Without(a) = [table EXCEPT ![a] =
                            [ntask |-> 0, start |-> Lo(a + 1, n), end |-> Lo(a + 1, n)]]
<1>1. nw \in Nat \ {0} /\ Workers = 0..(nw - 1)
  BY Types
<1>2. /\ Lo(a, n) \in Nat /\ Lo(a + 1, n) \in Nat
      /\ Lo(a + 1, n) = Lo(a, n) + n \div nw + (IF a < n % nw THEN 1 ELSE 0)
  BY Ranges
<1>3. n \div nw \in Nat /\ n % nw \in 0..(nw - 1)
  BY <1>1, DivMod
<1>4. PICK lo \in Nat, hi \in Nat, q \in Nat, r \in Nat :
        lo = Lo(a, n) /\ hi = Lo(a + 1, n) /\ q = n \div nw /\ r = n % nw
  BY <1>2, <1>3
<1>5. lo + chunk >= hi
  BY <1>1, <1>2, <1>4
<1>6. Least(lo + chunk, hi) = hi
  <2>1. chunk \in Nat
    BY DEF TypeOK
  <2>2. QED
    BY <1>4, <1>5, <2>1 DEF Least
<1>7. table[a] = [ntask |-> 1, start |-> lo, end |-> hi]
  BY <1>4 DEF Entry
<1>8. FirstOf(a) = <<lo, hi>>
  BY <1>6, <1>7 DEF FirstOf
<1>9. PICK one \in Int, none \in Int : one = 1 /\ none = 0 /\ one - 1 = none
  OBVIOUS
<1>10. table[a] = [ntask |-> one, start |-> lo, end |-> hi] /\ table[a].ntask - 1 = none
  BY <1>7, <1>9
<1>11. FirstOf(a)[2] = hi
  BY <1>8
<1>12. Without(a) = [table EXCEPT ![a] = [table[a] EXCEPT !.ntask = none, !.start = hi]]
  BY <1>10, <1>11 DEF Without
<1>13. [table[a] EXCEPT !.ntask = none, !.start = hi] = [ntask |-> none, start |-> hi, end |-> hi]
  <2>1. table[a] \in EntryType /\ table[a].end = hi
    BY <1>10, Typed
  <2>2. none \in Int /\ hi \in Nat
    BY <1>4, <1>9
  <2>3. [table[a] EXCEPT !.ntask = none, !.start = hi]
          = [ntask |-> none, start |-> hi, end |-> table[a].end]
    BY <2>1, <2>2, EntryFields, Zenon
  <2>4. QED
    BY <2>1, <2>3, Zenon
<1>14. table[a].ntask = 1
  BY <1>9, <1>10
<1>15. QED
  BY <1>4, <1>8, <1>9, <1>12, <1>13, <1>14 DEF Share

LEMMA SendTaskKeeps ==
  ASSUME IInv, SendTask
  PROVE  IInv'
<1>1. /\ TypeOK /\ main \in MainType /\ nw \in Nat \ {0} /\ Workers = 0..(nw - 1)
      /\ main.at \in Nat /\ main.stop \in Nat
      /\ table \in [Workers -> EntryType] /\ queue \in [Workers -> Seq(TaskType)]
  BY Types, Typed DEF IInv
<1>2. PICK n \in Nat : n = main.stop
  BY <1>1
<1>3. main.pc = "send" /\ NextIndex(nw - 1, "thaw") /\ UNCHANGED <<nw, thread, chunk, iteration>>
  BY DEF SendTask
<1>4. /\ main.at < nw /\ Parked(Emitter, FALSE)
      /\ chunk = n \div nw + (IF n % nw > 0 THEN 1 ELSE 0)
      /\ \A w \in Workers :
           IF w < main.at
             THEN Parked(w, FALSE) /\ Given(w, n)
             ELSE Idle(w) /\ table[w] = Entry(w, n) /\ Iterations(Lo(w, n), Lo(w + 1, n), "waiting")
  BY <1>2, <1>3 DEF IInv, Calling, EmitterSleeps
<1>5. PICK a \in Workers : a = main.at /\ ~(a < a)
  BY <1>1, <1>4
<1>6. /\ Idle(a) /\ table[a] = Entry(a, n) /\ Iterations(Lo(a, n), Lo(a + 1, n), "waiting")
  BY <1>4, <1>5
<1>7. FirstOf(a) = Share(a, n) /\ table[a].ntask = 1
      /\ Without(a) = [table EXCEPT ![a] =
                         [ntask |-> 0, start |-> Lo(a + 1, n), end |-> Lo(a + 1, n)]]
  BY <1>1, <1>4, <1>6, FirstTask
<1>8. table[a].ntask > 0
  BY <1>7
<1>9. /\ queue' = [queue EXCEPT ![a] = << Share(a, n) >>]
      /\ table' = [table EXCEPT ![a] =
                     [ntask |-> 0, start |-> Lo(a + 1, n), end |-> Lo(a + 1, n)]]
  <2>1. Append(queue[a], Share(a, n)) = << Share(a, n) >>
    BY <1>6 DEF Idle
  <2>2. QED
    BY <1>5, <1>7, <1>8, <2>1 DEF SendTask
<1>10. /\ queue' \in [Workers -> Seq(TaskType)] /\ table' \in [Workers -> EntryType]
  <2>1. Lo(a, n) \in Nat /\ Lo(a + 1, n) \in Nat
    BY <1>1, Ranges
  <2>2. Share(a, n) \in TaskType
    BY <2>1 DEF Share, TaskType
  <2>3. << Share(a, n) >> \in Seq(TaskType)
    BY <2>2
  <2>4. [ntask |-> 0, start |-> Lo(a + 1, n), end |-> Lo(a + 1, n)] \in EntryType
    BY <2>1, 0 \in Int DEF EntryType
  <2>5. QED
    BY <1>1, <1>9, <2>3, <2>4
<1>11. /\ main' \in MainType /\ main'.stop = n /\ main'.asleep = main.asleep
       /\ \/ a = nw - 1 /\ main'.pc = "thaw" /\ main'.at = 0
          \/ a < nw - 1 /\ main'.pc = "send" /\ main'.at = a + 1
  <2>1. nw - 1 \in Nat /\ nw - 1 <= nw /\ main.at <= nw - 1 /\ "thaw" \in MainPcs
    BY <1>1, <1>4 DEF MainPcs
  <2>2. QED
    BY <1>1, <1>2, <1>3, <1>5, <2>1, NextIndexStep
<1>12. TypeOK'
  BY <1>1, <1>2, <1>3, <1>10, <1>11, MainTypeOK, Typed
<1>13. EmitterSleeps' /\ MainWaits'
  BY <1>3, <1>4, <1>11 DEF IInv, EmitterSleeps, MainWaits, Parked, Emitter
<1>14. /\ \A w : /\ Lo(w, n)' = Lo(w, n) /\ Entry(w, n)' = Entry(w, n) /\ Share(w, n)' = Share(w, n)
                 /\ Parked(w, FALSE) => Parked(w, FALSE)'
       /\ \A from, to, state : Iterations(from, to, state) => Iterations(from, to, state)'
  BY <1>3 DEF Lo, Entry, Share, Parked, Iterations
<1>15. Parked(a, FALSE)' /\ Given(a, n)'
  BY <1>1, <1>6, <1>9, <1>14 DEF Given, Idle
<1>16. ASSUME NEW w \in Workers, w # a
       PROVE  /\ queue'[w] = queue[w] /\ table'[w] = table[w]
              /\ Given(w, n) => Given(w, n)'
  BY <1>1, <1>9, <1>14, <1>16 DEF Given
<1>17. ASSUME NEW w \in Workers
       PROVE  IF w < a + 1
                THEN Parked(w, FALSE)' /\ Given(w, n)'
                ELSE Idle(w)' /\ table'[w] = Entry(w, n)'
                     /\ Iterations(Lo(w, n), Lo(w + 1, n), "waiting")'
  <2>1. CASE w = a
    <3>1. a < a + 1
      BY <1>1
    <3>2. QED
      BY <1>15, <2>1, <3>1
  <2>2. CASE w # a
    <3>1. w < a + 1 <=> w < a
      BY <1>1, <2>2
    <3>2. CASE w < a
      BY <1>4, <1>5, <1>14, <1>16, <2>2, <3>1, <3>2
    <3>3. CASE ~(w < a)
      <4>1. Idle(w) /\ table[w] = Entry(w, n) /\ Iterations(Lo(w, n), Lo(w + 1, n), "waiting")
        BY <1>4, <1>5, <3>3
      <4>2. Idle(w)'
        BY <1>14, <1>16, <2>2, <4>1 DEF Idle
      <4>3. QED
        BY <1>14, <1>16, <2>2, <3>1, <3>3, <4>1, <4>2
    <3>4. QED
      BY <3>2, <3>3
  <2>3. QED
    BY <2>1, <2>2
<1>18. CASE a < nw - 1 /\ main'.pc = "send" /\ main'.at = a + 1
  <2>1. a + 1 < nw
    BY <1>1, <1>18
  <2>2. Calling'
    BY <1>3, <1>4, <1>11, <1>17, <1>18, <2>1 DEF Calling, Workers
  <2>3. QED
    BY <1>12, <1>13, <1>18, <2>2, ElsewhereNext DEF IInv
<1>19. CASE a = nw - 1 /\ main'.pc = "thaw" /\ main'.at = 0
  <2>1. 0 < nw /\ \A w \in Workers : w < a + 1 /\ ~(w < 0)
    BY <1>1, <1>19
  <2>2. \A w \in Workers : Parked(w, FALSE)' /\ Given(w, n)'
    BY <1>17, <2>1
  <2>3. Calling'
    BY <1>3, <1>11, <1>19, <2>1, <2>2 DEF Calling, Workers
  <2>4. QED
    BY <1>12, <1>13, <1>19, <2>3, ElsewhereNext DEF IInv
<1>20. QED
  BY <1>11, <1>18, <1>19

\* A thread is thawed: it is on its way, and the others are as they were.
LEMMA ThawStep ==
  ASSUME TypeOK, NEW t \in Threads, NEW f \in 0..2, NEW s \in BOOLEAN, Parked(t, s), Thaw(t, f)
  PROVE  /\ thread' \in [Threads -> ThreadType]
         /\ thread'[t].pc = "woken" /\ ~thread'[t].frozen /\ thread'[t].freezing = f
         /\ thread'[t].stp = s
         /\ \A u \in Threads : u # t => thread'[u] = thread[u]
<1>1. thread \in [Threads -> ThreadType] /\ thread[t] \in ThreadType
  BY Types, Typed
<1>2. (IF thread[t].pc = "asleep" THEN "woken" ELSE thread[t].pc) = "woken"
  BY DEF Parked
<1>3. PICK b \in BOOLEAN : b = FALSE
  OBVIOUS
<1>4. PICK r : r = [thread[t] EXCEPT !.freezing = f, !.frozen = b, !.pc = "woken"]
  OBVIOUS
<1>5. thread' = [thread EXCEPT ![t] = r]
  BY <1>1, <1>2, <1>3, <1>4 DEF Thaw, ThreadType
<1>6. r \in ThreadType
  BY <1>1, <1>4 DEF ThreadType
<1>7. r.pc = "woken" /\ ~r.frozen /\ r.freezing = f /\ r.stp = s
  BY <1>1, <1>3, <1>4 DEF Parked, ThreadType
<1>8. thread'[t] = r /\ \A u \in Threads : u # t => thread'[u] = thread[u]
  BY <1>1, <1>5
<1>9. QED
  BY <1>1, <1>5, <1>6, <1>7, <1>8, ThreadUpdate

LEMMA ThawWorkerKeeps ==
  ASSUME IInv, ThawWorker
  PROVE  IInv'
<1>1. /\ TypeOK /\ main \in MainType /\ nw \in Nat \ {0} /\ Workers = 0..(nw - 1)
      /\ Threads = 0..nw /\ Emitter = nw
      /\ main.at \in Nat /\ main.stop \in Nat /\ DOMAIN iteration = 0..(main.stop - 1)
  BY Types DEF IInv
<1>2. PICK n \in Nat : n = main.stop
  BY <1>1
<1>3. /\ main.pc = "thaw" /\ NextIndex(nw - 1, "join") /\ Thaw(main.at, 2)
      /\ UNCHANGED <<nw, queue, table, chunk, iteration>>
  BY DEF ThawWorker
<1>4. /\ main.at < nw /\ Parked(Emitter, FALSE)
      /\ \A w \in Workers : IF w < main.at THEN AtWork(w, n) ELSE Parked(w, FALSE) /\ Given(w, n)
  BY <1>2, <1>3 DEF IInv, Calling, EmitterSleeps
<1>5. PICK a \in Workers : a = main.at /\ ~(a < a)
  BY <1>1, <1>4
<1>6. a \in Threads /\ a # Emitter /\ 2 \in 0..2
      /\ \A w \in Workers : w \in Threads /\ w # Emitter
  BY <1>1
<1>7. /\ thread' \in [Threads -> ThreadType]
      /\ thread'[a].pc = "woken" /\ ~thread'[a].frozen /\ thread'[a].freezing = 2
      /\ ~thread'[a].stp
      /\ \A u \in Threads : u # a => thread'[u] = thread[u]
  <2>1. Parked(a, FALSE) /\ Thaw(a, 2)
    BY <1>3, <1>4, <1>5
  <2>2. thread'[a].stp = FALSE
    BY <1>1, <1>6, <2>1, ThawStep
  <2>3. QED
    BY <1>1, <1>6, <2>1, <2>2, ThawStep
<1>8. /\ main' \in MainType /\ main'.stop = n /\ main'.asleep = main.asleep
      /\ \/ a = nw - 1 /\ main'.pc = "join" /\ main'.at = 0
         \/ a < nw - 1 /\ main'.pc = "thaw" /\ main'.at = a + 1
  <2>1. nw - 1 \in Nat /\ nw - 1 <= nw /\ main.at <= nw - 1 /\ "join" \in MainPcs
    BY <1>1, <1>4 DEF MainPcs
  <2>2. QED
    BY <1>1, <1>2, <1>3, <1>5, <2>1, NextIndexStep
<1>9. TypeOK'
  BY <1>1, <1>2, <1>3, <1>7, <1>8, MainTypeOK, Typed
<1>10. EmitterSleeps' /\ MainWaits'
  <2>1. Emitter' = Emitter /\ thread'[Emitter] = thread[Emitter]
    BY <1>1, <1>3, <1>6, <1>7 DEF Emitter
  <2>2. ~main'.asleep
    BY <1>3, <1>8 DEF IInv, MainWaits
  <2>3. QED
    BY <1>4, <2>1, <2>2 DEF EmitterSleeps, MainWaits, Parked
<1>11. Given(a, n) /\ \A w : Given(w, n) => Given(w, n)'
  BY <1>3, <1>4, <1>5 DEF Given, Share, Lo, Iterations
<1>12. AtWork(a, n)'
  BY <1>7, <1>11 DEF AtWork, Thawed
<1>13. ASSUME NEW w \in Workers, w # a
       PROVE  /\ AtWork(w, n) => AtWork(w, n)'
              /\ Parked(w, FALSE) => Parked(w, FALSE)'
  <2>1. thread'[w] = thread[w]
    BY <1>6, <1>7, <1>13
  <2>2. AtWork(w, n) => AtWork(w, n)'
    BY <1>1, <1>2, <1>3, <2>1, AtWorkFrame
  <2>3. QED
    BY <2>1, <2>2 DEF Parked
<1>14. ASSUME NEW w \in Workers
       PROVE  IF w < a + 1 THEN AtWork(w, n)' ELSE Parked(w, FALSE)' /\ Given(w, n)'
  <2>1. w < a + 1 <=> w < a \/ w = a
    BY <1>1
  <2>2. CASE w = a
    BY <1>12, <2>1, <2>2
  <2>3. CASE w # a
    BY <1>4, <1>5, <1>11, <1>13, <2>1, <2>3
  <2>4. QED
    BY <2>2, <2>3
<1>15. CASE a < nw - 1 /\ main'.pc = "thaw" /\ main'.at = a + 1
  <2>1. a + 1 < nw
    BY <1>1, <1>15
  <2>2. Calling'
    BY <1>3, <1>8, <1>14, <1>15, <2>1 DEF Calling, Workers
  <2>3. QED
    BY <1>9, <1>10, <1>15, <2>2, ElsewhereNext DEF IInv
<1>16. CASE a = nw - 1 /\ main'.pc = "join" /\ main'.at = 0
  <2>1. 0 < nw /\ \A w \in Workers : w < a + 1 /\ ~(w < 0)
    BY <1>1, <1>16
  <2>2. \A w \in Workers : AtWork(w, n)'
    BY <1>14, <2>1
  <2>3. Lo(0, n)' = 0
    BY <1>1, <1>3, Ranges DEF Lo
  <2>4. Iterations(0, 0, "over")'
    BY <1>1, <1>3 DEF Iterations
  <2>5. Calling'
    BY <1>3, <1>8, <1>16, <2>1, <2>2, <2>3, <2>4 DEF Calling, Workers
  <2>6. QED
    BY <1>9, <1>10, <1>16, <2>5, ElsewhereNext DEF IInv
<1>17. QED
  BY <1>8, <1>15, <1>16

\* With one worker, main runs one iteration after the other.
LEMMA RunAloneKeeps ==
  ASSUME IInv, RunAlone
  PROVE  IInv'
<1>1. /\ TypeOK /\ main \in MainType /\ main.stop \in Nat /\ main.start \in Nat
      /\ DOMAIN iteration = 0..(main.stop - 1)
      /\ iteration \in [0..(main.stop - 1) -> Progresses]
  BY Types, Typed DEF IInv, MainType
<1>2. PICK n \in Nat, s \in Nat : n = main.stop /\ s = main.start
  BY <1>1
<1>3. UNCHANGED <<nw, thread, queue, table, chunk>> /\ main.pc \in {"alone", "body"}
  BY DEF RunAlone
<1>4. /\ AllSleep /\ main.at = 0 /\ s <= n /\ Iterations(0, s, "over")
      /\ main.pc = "alone" => Iterations(s, n, "waiting")
      /\ main.pc = "body" => s < n /\ iteration[s] = "running" /\ Iterations(s + 1, n, "waiting")
  BY <1>2, <1>3 DEF IInv, Calling
<1>5. AllSleep' /\ Parked(Emitter, FALSE)'
  <2>1. Parked(Emitter, FALSE)
    BY <1>3 DEF IInv, EmitterSleeps
  <2>2. QED
    BY <1>3, <1>4, <2>1 DEF AllSleep, Idle, Parked, Emitter, Workers
<1>6. ASSUME NEW c \in {"alone", "body", "idle"}, NEW e \in Nat,
             main' = [main EXCEPT !.pc = c, !.start = e],
             iteration' \in [0..(n - 1) -> Progresses], Calling'
      PROVE  IInv'
  <2>1. /\ main'.pc = c /\ main'.at = main.at /\ main'.start = e /\ main'.stop = n
        /\ main'.asleep = main.asleep /\ main' \in MainType
    BY <1>1, <1>2, <1>6 DEF MainType
  <2>2. TypeOK'
    BY <1>1, <1>3, <1>6, <2>1, MainTypeOK, Typed
  <2>3. EmitterSleeps' /\ MainWaits'
    BY <1>3, <1>5, <2>1 DEF IInv, EmitterSleeps, MainWaits
  <2>4. QED
    BY <1>6, <2>1, <2>2, <2>3, ElsewhereNext DEF IInv
<1>7. CASE main.pc = "alone" /\ s < n /\ main' = [main EXCEPT !.pc = "body"] /\ BeginIteration(s)
  <2>1. main' = [main EXCEPT !.pc = "body", !.start = s]
    BY <1>1, <1>2, <1>7 DEF MainType
  <2>2. iteration' = [iteration EXCEPT ![s] = "running"] /\ s \in 0..(n - 1)
    <3>1. s \in 0..(n - 1)
      BY <1>2, <1>7
    <3>2. DOMAIN iteration = 0..(n - 1) /\ (0..(n - 1)) \cup {s} = 0..(n - 1)
      BY <1>1, <1>2, <3>1
    <3>3. iteration' = [k \in 0..(n - 1) |-> IF k = s THEN "running" ELSE iteration[k]]
      BY <1>7, <3>2 DEF BeginIteration, Progress
    <3>4. QED
      BY <1>1, <1>2, <3>1, <3>3
  <2>3. iteration' \in [0..(n - 1) -> Progresses]
    BY <1>1, <1>2, <2>2 DEF Progresses
  <2>4. /\ iteration'[s] = "running" /\ DOMAIN iteration' = 0..(n - 1)
        /\ DOMAIN iteration = 0..(n - 1)
        /\ \A j \in 0..(n - 1) : j # s => iteration'[j] = iteration[j]
    BY <1>1, <1>2, <2>2, <2>3
  <2>5. Iterations(0, s, "over")' /\ Iterations(s + 1, n, "waiting")'
    BY <1>2, <1>4, <1>7, <2>4 DEF Iterations
  <2>6. /\ main'.pc = "body" /\ main'.at = 0 /\ main'.start = s /\ main'.stop = n
    BY <1>1, <1>2, <1>4, <2>1 DEF MainType
  <2>7. Calling'
    BY <1>4, <1>5, <1>7, <2>4, <2>5, <2>6 DEF Calling
  <2>8. QED
    BY <1>2, <1>6, <2>1, <2>3, <2>7
<1>8. CASE main.pc = "body" /\ main' = [main EXCEPT !.pc = "alone", !.start = @ + 1] /\ EndIteration(s)
  <2>0. PICK e \in Nat : e = s + 1 /\ e <= n /\ s < n
    BY <1>2, <1>4, <1>8
  <2>1. main' = [main EXCEPT !.pc = "alone", !.start = e]
    BY <1>2, <1>8, <2>0
  <2>2. iteration' = [iteration EXCEPT ![s] = "over"] /\ s \in 0..(n - 1)
    <3>1. s \in 0..(n - 1)
      BY <1>2, <2>0
    <3>2. DOMAIN iteration = 0..(n - 1) /\ (0..(n - 1)) \cup {s} = 0..(n - 1)
      BY <1>1, <1>2, <3>1
    <3>3. iteration' = [k \in 0..(n - 1) |-> IF k = s THEN "over" ELSE iteration[k]]
      BY <1>8, <3>2 DEF EndIteration, Progress
    <3>4. QED
      BY <1>1, <1>2, <3>1, <3>3
  <2>3. iteration' \in [0..(n - 1) -> Progresses]
    BY <1>1, <1>2, <2>2 DEF Progresses
  <2>4. /\ iteration'[s] = "over" /\ DOMAIN iteration' = 0..(n - 1)
        /\ DOMAIN iteration = 0..(n - 1)
        /\ \A j \in 0..(n - 1) : j # s => iteration'[j] = iteration[j]
    BY <1>1, <1>2, <2>2, <2>3
  <2>5. Iterations(0, e, "over")'
    <3>1. ASSUME NEW j \in 0..(n - 1), j < e PROVE iteration'[j] = "over"
      <4>1. j = s \/ j < s
        BY <1>2, <2>0, <3>1
      <4>2. QED
        BY <1>2, <1>4, <2>4, <3>1, <4>1 DEF Iterations
    <3>2. QED
      BY <2>4, <3>1 DEF Iterations
  <2>6. Iterations(e, n, "waiting")'
    BY <1>2, <1>4, <1>8, <2>0, <2>4 DEF Iterations
  <2>7. /\ main'.pc = "alone" /\ main'.at = 0 /\ main'.start = e /\ main'.stop = n
    BY <1>1, <1>2, <1>4, <2>1 DEF MainType
  <2>8. Calling'
    BY <1>5, <2>0, <2>5, <2>6, <2>7 DEF Calling
  <2>9. QED
    BY <1>6, <2>0, <2>1, <2>3, <2>8
<1>9. CASE main.pc = "alone" /\ s >= n /\ main' = [main EXCEPT !.pc = "idle"] /\ UNCHANGED iteration
  <2>0. s = n
    BY <1>2, <1>4, <1>9
  <2>1. main' = [main EXCEPT !.pc = "idle", !.start = s]
    BY <1>1, <1>2, <1>9 DEF MainType
  <2>2. Iterations(0, n, "over")'
    BY <1>4, <1>9, <2>0 DEF Iterations
  <2>3. /\ main'.pc = "idle" /\ main'.at = 0 /\ main'.stop = n
    BY <1>1, <1>2, <1>4, <2>1 DEF MainType
  <2>4. Calling'
    BY <1>5, <2>2, <2>3 DEF Calling
  <2>5. QED
    BY <1>1, <1>2, <1>6, <1>9, <2>1, <2>4
<1>10. QED
  BY <1>2, <1>7, <1>8, <1>9 DEF RunAlone

\* Steps of the destructor leave the data alone.
LEMMA EndingKeeps ==
  ASSUME IInv, main.pc \in {"idle", "stop", "wait", "endwait", "endthaw", "join_thread"},
         UNCHANGED <<nw, queue, table, chunk, iteration>>,
         thread' \in [Threads -> ThreadType], main' \in MainType,
         main'.stop = main.stop, main'.asleep = main.asleep,
         main'.pc \in {"stop", "wait", "endwait", "endthaw", "join_thread", "done"}, Ending'
  PROVE  IInv'
<1>1. TypeOK'
  <2>1. chunk \in Nat
    BY Typed DEF IInv
  <2>2. QED
    BY <2>1, MainTypeOK, Typed DEF IInv
<1>2. ~main'.asleep
  BY DEF IInv, MainWaits
<1>3. MainWaits'
  BY <1>2 DEF MainWaits
<1>4. QED
  BY <1>1, <1>3, ElsewhereNext DEF IInv

LEMMA DestroyKeeps ==
  ASSUME IInv, Destroy
  PROVE  IInv'
<1>1. /\ TypeOK /\ main \in MainType /\ Workers = 0..(nw - 1) /\ Threads = 0..nw
      /\ Emitter = nw /\ nw \in Nat \ {0} /\ thread \in [Threads -> ThreadType]
  BY Types, Typed DEF IInv
<1>2. /\ main.pc = "idle" /\ main' = [main EXCEPT !.pc = "stop"]
      /\ UNCHANGED <<nw, thread, queue, table, chunk, iteration>>
  BY DEF Destroy
<1>3. AllSleep /\ Parked(Emitter, FALSE) /\ main.at = 0
  BY <1>2 DEF IInv, Calling, EmitterSleeps
<1>4. /\ main' \in MainType /\ main'.pc = "stop" /\ main'.at = 0 /\ main'.stop = main.stop
      /\ main'.asleep = main.asleep
  BY <1>1, <1>2, <1>3 DEF MainType
<1>5. \A t \in Threads : (t \in Workers \/ t = Emitter) /\ (t < 0) = FALSE
  BY <1>1
<1>6. \A t \in Threads : Parked(t, FALSE)
  BY <1>3, <1>5 DEF AllSleep, Idle
<1>7. \A t \in Threads : Parked(t, t < 0)'
  BY <1>2, <1>5, <1>6 DEF Parked
<1>8. Ending'
  BY <1>2, <1>4, <1>7 DEF Ending, Threads
<1>9. QED
  BY <1>1, <1>2, <1>4, <1>8, EndingKeeps

\* A thread is told to stop.
LEMMA StopStep ==
  ASSUME TypeOK, NEW t \in Threads, thread' = [thread EXCEPT ![t].stp = TRUE],
         NEW s \in BOOLEAN, Parked(t, s)
  PROVE  /\ thread' \in [Threads -> ThreadType] /\ Parked(t, TRUE)'
         /\ \A u \in Threads : u # t => thread'[u] = thread[u]
<1>1. thread \in [Threads -> ThreadType] /\ thread[t] \in ThreadType
  BY Types, Typed
<1>2. PICK b \in BOOLEAN : b = TRUE
  OBVIOUS
<1>3. PICK r : r = [thread[t] EXCEPT !.stp = b]
  OBVIOUS
<1>4. thread' = [thread EXCEPT ![t] = r]
  BY <1>2, <1>3
<1>5. r \in ThreadType
  BY <1>1, <1>3 DEF ThreadType
<1>6. r.pc = thread[t].pc /\ r.frozen = thread[t].frozen /\ r.freezing = thread[t].freezing
      /\ r.stp = TRUE
  BY <1>1, <1>2, <1>3 DEF ThreadType
<1>7. thread'[t] = r /\ \A u \in Threads : u # t => thread'[u] = thread[u]
  BY <1>1, <1>4
<1>8. QED
  BY <1>1, <1>4, <1>5, <1>6, <1>7, ThreadUpdate DEF Parked

LEMMA StopKeeps ==
  ASSUME IInv, Stop
  PROVE  IInv'
<1>1. /\ TypeOK /\ main \in MainType /\ Threads = 0..nw /\ nw \in Nat \ {0}
      /\ main.at \in Threads
  BY Types DEF IInv, MainType
<1>2. PICK a \in Threads : a = main.at
  BY <1>1
<1>3. /\ main.pc = "stop" /\ NextIndex(nw, "wait") /\ thread' = [thread EXCEPT ![a].stp = TRUE]
      /\ UNCHANGED <<nw, queue, table, chunk, iteration>>
  BY <1>2 DEF Stop
<1>4. \A t \in Threads : Parked(t, t < a)
  BY <1>2, <1>3 DEF IInv, Ending
<1>5. /\ thread' \in [Threads -> ThreadType] /\ Parked(a, TRUE)'
      /\ \A u \in Threads : u # a => thread'[u] = thread[u]
  <2>1. (a < a) = FALSE
    BY <1>1
  <2>2. Parked(a, FALSE)
    BY <1>4, <2>1
  <2>3. QED
    BY <1>1, <1>3, <2>2, StopStep
<1>6. /\ main' \in MainType /\ main'.stop = main.stop /\ main'.asleep = main.asleep
      /\ \/ a = nw /\ main'.pc = "wait" /\ main'.at = 0
         \/ a < nw /\ main'.pc = "stop" /\ main'.at = a + 1
  <2>1. nw \in Nat /\ nw <= nw /\ main.at <= nw /\ "wait" \in MainPcs
    BY <1>1 DEF MainPcs
  <2>2. QED
    BY <1>1, <1>2, <1>3, <2>1, NextIndexStep
<1>7. ASSUME NEW t \in Threads PROVE Parked(t, t < a + 1)'
  <2>1. CASE t = a
    <3>1. (t < a + 1) = TRUE /\ a' = a
      BY <1>1, <2>1
    <3>2. QED
      BY <1>5, <2>1, <3>1 DEF Parked
  <2>2. CASE t # a
    <3>1. (t < a + 1) = (t < a)
      BY <1>1, <2>2
    <3>2. QED
      BY <1>4, <1>5, <2>2, <3>1 DEF Parked
  <2>3. QED
    BY <2>1, <2>2
<1>8. CASE a < nw /\ main'.pc = "stop" /\ main'.at = a + 1
  <2>1. Ending'
    BY <1>3, <1>7, <1>8 DEF Ending, Threads, Parked
  <2>2. QED
    BY <1>3, <1>5, <1>6, <1>8, <2>1, EndingKeeps
<1>9. CASE a = nw /\ main'.pc = "wait" /\ main'.at = 0
  <2>1. \A t \in Threads : (t < a + 1) = TRUE /\ ~(t < 0)
    BY <1>1, <1>9
  <2>2. \A t \in Threads : Parked(t, TRUE)'
    BY <1>7, <2>1 DEF Parked
  <2>3. Ending'
    BY <1>3, <1>9, <2>1, <2>2 DEF Ending, Threads
  <2>4. QED
    BY <1>3, <1>5, <1>6, <1>9, <2>3, EndingKeeps
<1>10. QED
  BY <1>6, <1>8, <1>9

LEMMA WaitKeeps ==
  ASSUME IInv, Wait
  PROVE  IInv'
<1>1. /\ TypeOK /\ main \in MainType /\ Threads = 0..nw /\ nw \in Nat \ {0}
      /\ main.at \in Threads
  BY Types DEF IInv, MainType
<1>2. PICK a \in Threads : a = main.at
  BY <1>1
<1>3. /\ main.pc = "wait" /\ thread' = [thread EXCEPT ![a].stp = TRUE]
      /\ main' = [main EXCEPT !.pc = IF thread[a].freezing > 0 THEN "endwait" ELSE "join_thread"]
      /\ UNCHANGED <<nw, queue, table, chunk, iteration>>
  BY <1>2 DEF Wait
<1>4. \A t \in Threads : IF t < a THEN Gone(t) ELSE Parked(t, TRUE)
  BY <1>2, <1>3 DEF IInv, Ending
<1>5. Parked(a, TRUE)
  <2>1. ~(a < a)
    BY <1>1
  <2>2. QED
    BY <1>4, <2>1
<1>6. /\ thread' \in [Threads -> ThreadType] /\ Parked(a, TRUE)'
      /\ \A u \in Threads : u # a => thread'[u] = thread[u]
  BY <1>1, <1>3, <1>5, StopStep
<1>7. thread[a].freezing > 0
  BY <1>5 DEF Parked
<1>8. /\ main' \in MainType /\ main'.pc = "endwait" /\ main'.at = a /\ main'.stop = main.stop
      /\ main'.asleep = main.asleep
  BY <1>1, <1>2, <1>3, <1>7 DEF MainType
<1>9. \A t \in Threads : IF t < a THEN Gone(t)' ELSE Parked(t, TRUE)'
  <2>1. ASSUME NEW t \in Threads, t # a
        PROVE  IF t < a THEN Gone(t)' ELSE Parked(t, TRUE)'
    BY <1>4, <1>6, <2>1 DEF Gone, Parked
  <2>2. ~(a < a)
    BY <1>1
  <2>3. QED
    BY <1>6, <2>1, <2>2
<1>10. Ending'
  BY <1>3, <1>8, <1>9 DEF Ending, Threads
<1>11. QED
  BY <1>3, <1>6, <1>8, <1>10, EndingKeeps

LEMMA EndWaitKeeps ==
  ASSUME IInv, EndWait
  PROVE  IInv'
<1>1. main \in MainType /\ thread \in [Threads -> ThreadType]
  BY Typed DEF IInv
<1>2. /\ main.pc = "endwait" /\ main' = [main EXCEPT !.pc = "endthaw"]
      /\ UNCHANGED <<nw, thread, queue, table, chunk, iteration>>
  BY DEF EndWait
<1>3. /\ main' \in MainType /\ main'.pc = "endthaw" /\ main'.at = main.at
      /\ main'.stop = main.stop /\ main'.asleep = main.asleep
  BY <1>1, <1>2 DEF MainType
<1>4. Ending'
  BY <1>2, <1>3 DEF IInv, Ending, Threads, Gone, Parked
<1>5. QED
  BY <1>1, <1>2, <1>3, <1>4, EndingKeeps

LEMMA EndThawKeeps ==
  ASSUME IInv, EndThaw
  PROVE  IInv'
<1>1. /\ TypeOK /\ main \in MainType /\ Threads = 0..nw /\ nw \in Nat \ {0}
      /\ main.at \in Threads /\ 0 \in 0..2
  BY Types DEF IInv, MainType
<1>2. PICK a \in Threads : a = main.at
  BY <1>1
<1>3. /\ main.pc = "endthaw" /\ Thaw(a, 0) /\ main' = [main EXCEPT !.pc = "join_thread"]
      /\ UNCHANGED <<nw, queue, table, chunk, iteration>>
  BY <1>2 DEF EndThaw
<1>4. \A t \in Threads : IF t < a THEN Gone(t) ELSE Parked(t, TRUE)
  BY <1>2, <1>3 DEF IInv, Ending
<1>5. \A t \in Threads : (t < a => t # a) /\ (t = a => ~(t < a))
  BY <1>1
<1>6. Parked(a, TRUE)
  BY <1>4, <1>5
<1>7. /\ thread' \in [Threads -> ThreadType] /\ Leaving(a)'
      /\ \A u \in Threads : u # a => thread'[u] = thread[u]
  BY <1>1, <1>3, <1>6, ThawStep DEF Leaving
<1>8. /\ main' \in MainType /\ main'.pc = "join_thread" /\ main'.at = a
      /\ main'.stop = main.stop /\ main'.asleep = main.asleep
  BY <1>1, <1>2, <1>3 DEF MainType
<1>9. \A t \in Threads :
        IF t < a THEN Gone(t)' ELSE IF t = a THEN Leaving(t)' ELSE Parked(t, TRUE)'
  <2>1. ASSUME NEW t \in Threads, t # a
        PROVE  IF t < a THEN Gone(t)' ELSE Parked(t, TRUE)'
    BY <1>4, <1>7, <2>1 DEF Gone, Parked
  <2>2. QED
    BY <1>5, <1>7, <2>1
<1>10. Ending'
  BY <1>3, <1>8, <1>9 DEF Ending, Threads
<1>11. QED
  BY <1>3, <1>7, <1>8, <1>10, EndingKeeps

LEMMA JoinThreadKeeps ==
  ASSUME IInv, JoinThread
  PROVE  IInv'
<1>1. /\ TypeOK /\ main \in MainType /\ Threads = 0..nw /\ nw \in Nat \ {0}
      /\ main.at \in Threads /\ thread \in [Threads -> ThreadType]
  BY Types, Typed DEF IInv, MainType
<1>2. PICK a \in Threads : a = main.at
  BY <1>1
<1>3. /\ main.pc = "join_thread" /\ Gone(a)
      /\ main' = IF a = nw THEN [main EXCEPT !.pc = "done"]
                           ELSE [main EXCEPT !.pc = "wait", !.at = @ + 1]
      /\ UNCHANGED <<nw, thread, queue, table, chunk, iteration>>
  BY <1>2 DEF JoinThread, Gone
<1>4. \A t \in Threads :
        IF t < a THEN Gone(t) ELSE IF t = a THEN Leaving(t) ELSE Parked(t, TRUE)
  BY <1>2, <1>3 DEF IInv, Ending
<1>5. \A t \in Threads : IF t < a + 1 THEN Gone(t) ELSE Parked(t, TRUE)
  <2>1. \A t \in Threads : t < a + 1 <=> t < a \/ t = a
    BY <1>1
  <2>2. QED
    BY <1>3, <1>4, <2>1
<1>6. CASE a = nw
  <2>1. main' = [main EXCEPT !.pc = "done"]
    BY <1>3, <1>6
  <2>2. /\ main' \in MainType /\ main'.pc = "done" /\ main'.stop = main.stop
        /\ main'.asleep = main.asleep
    BY <1>1, <2>1 DEF MainType
  <2>3. \A t \in Threads : t < a + 1
    BY <1>1, <1>6
  <2>4. \A t \in Threads : Gone(t)
    BY <1>5, <2>3
  <2>5. Ending'
    BY <1>3, <2>2, <2>4 DEF Ending, Threads, Gone
  <2>6. QED
    BY <1>1, <1>3, <2>2, <2>5, EndingKeeps
<1>7. CASE a # nw
  <2>1. PICK b \in Threads : b = a + 1
    BY <1>1, <1>7
  <2>2. main' = [main EXCEPT !.pc = "wait", !.at = b]
    BY <1>2, <1>3, <1>7, <2>1
  <2>3. /\ main' \in MainType /\ main'.pc = "wait" /\ main'.at = b /\ main'.stop = main.stop
        /\ main'.asleep = main.asleep
    BY <1>1, <2>2 DEF MainType
  <2>4. \A t \in Threads : IF t < b THEN Gone(t)' ELSE Parked(t, TRUE)'
    BY <1>3, <1>5, <2>1 DEF Gone, Parked
  <2>5. Ending'
    BY <1>3, <2>3, <2>4 DEF Ending, Threads
  <2>6. QED
    BY <1>1, <1>3, <2>3, <2>5, EndingKeeps
<1>8. QED
  BY <1>6, <1>7

-----------------------------------------------------------------------------
(* The theorems. *)

\* The invariant holds at the start.
LEMMA InitInv == Init => IInv
<1> SUFFICES ASSUME Init PROVE IInv
  OBVIOUS
<1>1. nw \in Nat \ {0}
  BY ConstantsAssumption DEF Init
<1>2. /\ main.pc = "create" /\ main.at = 0 /\ main.stop = 0 /\ main.asleep = FALSE
      /\ main.start = 0 /\ main.calls = 0
  BY DEF Init
<1>3. main \in MainType
  <2>0. 0 \in Threads /\ 0 \in 0..Calls
    BY <1>1, ConstantsAssumption DEF Threads
  <2>1. PICK z \in Threads, c \in 0..Calls, b \in BOOLEAN, n \in Nat :
          z = 0 /\ c = 0 /\ b = FALSE /\ n = 0
    BY <2>0
  <2>2. PICK l \in Lengths \cup {0} : l = 0
    OBVIOUS
  <2>3. main = [pc |-> "create", at |-> z, start |-> n, stop |-> l, asleep |-> b, calls |-> c]
    BY <2>1, <2>2 DEF Init
  <2>4. QED
    BY <2>3 DEF MainType
<1>4. thread \in [Threads -> ThreadType]
  <2>1. PICK f \in 0..2, b \in BOOLEAN, c \in BOOLEAN, n \in Nat :
          f = 0 /\ b = TRUE /\ c = FALSE /\ n = 0
    BY 0 \in 0..2
  <2>2. NewThread = [pc |-> "none", stp |-> b, freezing |-> f, frozen |-> c, at |-> n, to |-> n]
    BY <2>1 DEF NewThread
  <2>3. NewThread \in ThreadType
    BY <2>2 DEF ThreadType
  <2>4. QED
    BY <2>3 DEF Init
<1>5. queue \in [Workers -> Seq(TaskType)]
  BY DEF Init
<1>6. table \in [Workers -> EntryType]
  <2>1. [ntask |-> 0, start |-> 0, end |-> 0] \in EntryType
    BY 0 \in Int, 0 \in Nat DEF EntryType
  <2>2. QED
    BY <2>1 DEF Init
<1>7. iteration \in [0..(main.stop - 1) -> Progresses]
  <2>1. 0..(main.stop - 1) = {}
    BY <1>2
  <2>2. QED
    BY <2>1 DEF Init
<1>8. chunk \in Nat /\ nw \in WorkerNumbers
  BY DEF Init
<1>9. TypeOK
  BY <1>3, <1>4, <1>5, <1>6, <1>7, <1>8
     DEF TypeOK, MainType, ThreadType, TaskType, EntryType, Progresses
<1>10. Creation
  BY <1>2 DEF Init, Creation, NotSpawned
<1>11. MainWaits
  BY <1>2 DEF MainWaits
<1>12. QED
  BY <1>2, <1>9, <1>10, <1>11, Elsewhere DEF IInv

\* Every step keeps it.
LEMMA NextInv == IInv /\ [Next]_vars => IInv'
<1> SUFFICES ASSUME IInv, [Next]_vars PROVE IInv'
  OBVIOUS
<1>1. CASE MainStep
  BY <1>1, CreateEmitterKeeps, CreateWorkerKeeps, WaitFreezingKeeps, SleepUntilFrozenKeeps,
     CallKeeps, SetRangeKeeps, SendTaskKeeps, ThawWorkerKeeps, RunAloneKeeps, DestroyKeeps,
     StopKeeps, WaitKeeps, EndWaitKeeps, EndThawKeeps, JoinThreadKeeps DEF MainStep
<1>2. ASSUME NEW t \in Threads, ThreadStep(t) PROVE IInv'
  BY <1>2, ThreadKeeps DEF StepOf
<1>3. CASE Spurious
  BY <1>3, SpuriousKeeps
<1>4. CASE UNCHANGED vars
  <2>1. UNCHANGED <<nw, main, thread, queue, table, chunk, iteration>>
    BY <1>4 DEF vars
  <2>2. main \in MainType /\ main.asleep \in BOOLEAN
    BY Typed DEF IInv
  <2>3. main' = [main EXCEPT !.asleep = main.asleep]
    BY <2>1, <2>2 DEF MainType
  <2>4. MainWaits'
    BY <2>1 DEF IInv, MainWaits
  <2>5. QED
    BY <2>1, <2>2, <2>3, <2>4, AsleepKeeps
<1>5. QED
  BY <1>1, <1>2, <1>3, <1>4 DEF Next

\* What main is doing determines what every thread may be doing, what the queues
\* and the table hold, and which iterations are over, in every reachable state
\* of ff_thread and ParallelFor.
THEOREM Invariance == Spec => []IInv
<1>1. QED
  BY InitInv, NextInv, PTL DEF Spec

\* All variables of the model keep their types.
THEOREM TypeCorrect == Spec => []TypeOK
<1>1. IInv => TypeOK
  BY DEF IInv
<1>2. QED
  BY Invariance, <1>1, PTL

\* Main writes the table, the queues and the loop body while no worker is about
\* (forall_Scheduler, setF and sendTask take no lock).
THEOREM MainWritesAlone == Spec => []WorkersParked
<1>1. IInv => WorkersParked
  <2>1. SUFFICES ASSUME IInv, main.pc \in {"idle", "setloop", "send", "alone", "body"},
                        NEW w \in Workers
                 PROVE  /\ thread[w].pc \in {"asleep", "woken"}
                        /\ thread[w].frozen /\ thread[w].freezing = 1
                        /\ queue[w] # <<>> => main.pc = "send" /\ w < main.at
    BY DEF WorkersParked
  <2>2. CASE main.pc = "send"
    BY <2>1, <2>2 DEF IInv, Calling, Parked, Idle
  <2>3. CASE main.pc # "send"
    BY <2>1, <2>3 DEF IInv, Calling, Parked, Idle, AllSleep
  <2>4. QED
    BY <2>2, <2>3
<1>2. QED
  BY Invariance, <1>1, PTL


\* Nobody sleeps on a condition variable whose condition holds: thaw, the freeze
\* loop and wait_freezing of ff_thread lose no signal.
THEOREM SignalsArrive == Spec => []NoLostWakeup
<1>1. IInv => NoLostWakeup
  <2>1. SUFFICES ASSUME IInv PROVE NoLostWakeup
    OBVIOUS
  <2>2. /\ Threads = 0..nw /\ Workers = 0..(nw - 1) /\ Emitter = nw /\ nw \in Nat \ {0}
        /\ main.pc \in MainPcs
    BY <2>1, Types, Typed DEF IInv
  <2>3. ASSUME NEW t \in Threads, thread[t].pc = "asleep"
        PROVE  thread[t].freezing = 1 /\ thread[t].frozen
    <3>1. t \in Workers \/ t = Emitter
      BY <2>2
    <3>2. ~NotSpawned(t) /\ ~Gone(t) /\ ~Leaving(t)
      BY <2>3 DEF NotSpawned, NewThread, Gone, Leaving
    <3>3. CASE main.pc \in {"create", "spawn", "settle"}
      BY <2>1, <2>3, <3>1, <3>2, <3>3
         DEF IInv, Creation, WarmEmitter, WarmWorker, Unspawned, Parked
    <3>4. CASE main.pc \in {"stop", "wait", "endwait", "endthaw", "join_thread", "done"}
      BY <2>1, <2>3, <3>2, <3>4 DEF IInv, Ending, Parked
    <3>5. CASE main.pc \in {"idle", "setloop", "alone", "body", "send", "thaw", "join"}
      <4>1. CASE t = Emitter
        BY <2>1, <3>5, <4>1 DEF IInv, EmitterSleeps, Parked
      <4>2. CASE t \in Workers
        <5>1. Parked(t, FALSE) \/ AtWork(t, main.stop)
          BY <2>1, <3>5, <4>2 DEF IInv, Calling, AllSleep, Idle
        <5>2. QED
          BY <2>3, <5>1 DEF AtWork, Thawed, Working, Parked
      <4>3. QED
        BY <3>1, <4>1, <4>2
    <3>6. QED
      BY <2>2, <3>3, <3>4, <3>5 DEF MainPcs
  <2>4. main.asleep => ~thread[main.at].frozen
    BY <2>1 DEF IInv, MainWaits
  <2>5. QED
    BY <2>3, <2>4 DEF NoLostWakeup
<1>2. QED
  BY Invariance, <1>1, PTL

\* Who executes an iteration is a worker that the running call has set to work.
LEMMA LoopWorks ==
  ASSUME IInv, NEW w \in Workers, thread[w].pc \in {"loop", "body"}
  PROVE  Working(w, main.stop) /\ main.pc \in {"thaw", "join"}
<1>1. w \in Threads /\ main.pc \in MainPcs
  BY Types, Typed DEF IInv
<1>2. /\ ~NotSpawned(w) /\ ~Gone(w) /\ ~Leaving(w)
      /\ \A s \in BOOLEAN : ~Parked(w, s)
  BY DEF NotSpawned, NewThread, Gone, Leaving, Parked
<1>3. main.pc \notin {"create", "spawn", "settle"}
  BY <1>1, <1>2 DEF IInv, Creation, WarmWorker, Unspawned
<1>4. main.pc \notin {"stop", "wait", "endwait", "endthaw", "join_thread", "done"}
  <2>1. main.at \in Nat /\ (w < main.at) \in BOOLEAN
    BY Types DEF IInv
  <2>2. main.pc # "stop"
    BY <1>1, <1>2, <2>1 DEF IInv, Ending
  <2>3. main.pc \notin {"wait", "endwait", "endthaw", "join_thread", "done"}
    BY <1>1, <1>2 DEF IInv, Ending
  <2>4. QED
    BY <2>2, <2>3
<1>5. main.pc \notin {"idle", "setloop", "alone", "body", "send"}
  BY <1>2 DEF IInv, Calling, AllSleep, Idle
<1>6. main.pc \in {"thaw", "join"}
  BY <1>1, <1>3, <1>4, <1>5 DEF MainPcs
<1>7. AtWork(w, main.stop)
  BY <1>2, <1>6 DEF IInv, Calling, Idle
<1>8. QED
  BY <1>2, <1>6, <1>7 DEF AtWork, Thawed

\* An iteration that is waiting begins, or one that is running ends.
LEMMA IterationStep ==
  ASSUME TypeOK, InCall, InCall', NEW j \in 0..(main.stop - 1),
         \/ iteration[j] = "waiting" /\ BeginIteration(j)
         \/ iteration[j] = "running" /\ EndIteration(j)
  PROVE  Promise!Step
<1>1. /\ DOMAIN iteration = 0..(main.stop - 1)
      /\ iteration \in [0..(main.stop - 1) -> Progresses]
  BY Types, Typed
<1>2. DOMAIN iteration \cup {j} = DOMAIN iteration
  BY <1>1
<1>3. ASSUME NEW state, Progress(j, state)
      PROVE  iteration' = [iteration EXCEPT ![j] = state]
  BY <1>1, <1>2, <1>3 DEF Progress
<1>4. Promise!Begin(j) \/ Promise!End(j)
  BY <1>3 DEF Promise!Begin, Promise!End, BeginIteration, EndIteration
<1>5. InCall' = InCall
  BY DEF InCall
<1>6. QED
  BY <1>1, <1>4, <1>5, Zenon DEF Promise!Step

\* A step of a thread starts or ends an iteration, or is none of the caller's business.
LEMMA ThreadRefines ==
  ASSUME IInv, NEW t \in Threads, StepOf(t)
  PROVE  Promise!Step \/ UNCHANGED Promise!vars
<1>1. /\ TypeOK /\ main'.pc = main.pc /\ DOMAIN iteration = 0..(main.stop - 1)
      /\ main.stop \in Nat
  BY StepMain, Types DEF IInv
<1>2. InCall' = InCall
  BY <1>1 DEF InCall
<1>3. CASE t # Emitter /\ (Begin(t) \/ End(t))
  <2>1. t \in Workers /\ thread[t].pc \in {"loop", "body"}
    BY <1>1, <1>3, Types DEF Begin, End
  <2>2. PICK n \in Nat, lo \in Nat, hi \in Nat :
          n = main.stop /\ lo = Lo(t, n) /\ hi = Lo(t + 1, n) /\ hi <= n
    <3>1. PICK n \in Nat : n = main.stop
      BY <1>1
    <3>2. Lo(t, n) \in Nat /\ Lo(t + 1, n) \in Nat /\ Lo(t + 1, n) <= n
      BY <1>1, <2>1, Ranges
    <3>3. QED
      BY <3>1, <3>2
  <2>3. Working(t, n) /\ InCall
    BY <2>1, <2>2, LoopWorks DEF InCall
  <2>4. InCall'
    BY <1>1, <2>3 DEF InCall
  <2>5. PICK a \in Nat : a = thread[t].at
    <3>1. thread[t] \in ThreadType
      BY <1>1, Types
    <3>2. QED
      BY <3>1 DEF ThreadType
  <2>6. CASE Begin(t)
    <3>1. BeginIteration(a) /\ a < hi /\ Iterations(a, hi, "waiting")
      BY <2>2, <2>3, <2>5, <2>6 DEF Begin, Working
    <3>2. a \in 0..(n - 1)
      BY <2>2, <2>5, <3>1
    <3>3. iteration[a] = "waiting"
      BY <1>1, <2>2, <2>5, <3>1, <3>2 DEF Iterations
    <3>4. QED
      BY <1>1, <2>2, <2>3, <2>4, <3>1, <3>2, <3>3, IterationStep
  <2>7. CASE End(t)
    <3>1. EndIteration(a) /\ a < hi /\ iteration[a] = "running"
      BY <2>2, <2>3, <2>5, <2>7 DEF End, Working
    <3>2. a \in 0..(n - 1)
      BY <2>2, <2>5, <3>1
    <3>3. QED
      BY <1>1, <2>2, <2>3, <2>4, <3>1, <3>2, IterationStep
  <2>8. QED
    BY <1>3, <2>6, <2>7
<1>4. CASE iteration' = iteration
  BY <1>2, <1>4 DEF Promise!vars
<1>5. CASE ~(t # Emitter /\ (Begin(t) \/ End(t)))
  <2>1. iteration' = iteration
    BY <1>5, StepCases
       DEF Broadcast, Pop, NextTask, Freeze, WakeUp, Again, Leave, Wakes
  <2>2. QED
    BY <1>4, <2>1
<1>6. QED
  BY <1>3, <1>5

LEMMA StopTyped == TypeOK => main.stop \in Nat /\ DOMAIN iteration = 0..(main.stop - 1)
BY Types

\* Main calls, runs an iteration itself, returns when all are over, or does
\* something the caller does not see.
LEMMA MainRefines ==
  ASSUME IInv, IInv', MainStep
  PROVE  Promise!Next \/ UNCHANGED Promise!vars
<1>1. /\ TypeOK /\ main \in MainType /\ main.stop \in Nat /\ main.start \in Nat
      /\ main.at \in Nat /\ DOMAIN iteration = 0..(main.stop - 1)
  BY Types DEF IInv, MainType
<1>2. CASE Call
  <2>1. ~InCall /\ InCall'
    BY <1>1, <1>2 DEF Call, InCall, MainType
  <2>2. \E n \in Lengths : iteration' = [j \in 0..(n - 1) |-> "waiting"]
    BY <1>2 DEF Call
  <2>3. InCall' = TRUE
    BY <2>1, Zenon
  <2>4. QED
    BY <2>1, <2>2, <2>3, Zenon DEF Promise!Call, Promise!Next
<1>3. CASE RunAlone /\ main.start < main.stop
  <2>1. PICK s \in Nat, n \in Nat : s = main.start /\ n = main.stop /\ s \in 0..(n - 1)
    BY <1>1, <1>3
  <2>2. /\ main.pc = "alone" => Iterations(s, n, "waiting")
        /\ main.pc = "body" => iteration[s] = "running"
    BY <2>1 DEF IInv, Calling
  <2>3. main.pc = "alone" => iteration[s] = "waiting"
    BY <1>1, <2>1, <2>2 DEF Iterations
  <2>4. main'.pc \in {"alone", "body"} /\ main.pc \in {"alone", "body"}
    <3>1. ~(main.start >= main.stop)
      BY <1>1, <1>3
    <3>2. PICK e : e = main.start + 1
      OBVIOUS
    <3>3. /\ main.pc \in {"alone", "body"}
          /\ \/ main' = [main EXCEPT !.pc = "body"]
             \/ main' = [main EXCEPT !.pc = "alone", !.start = e]
      BY <1>3, <3>1, <3>2 DEF RunAlone
    <3>4. QED
      BY <1>1, <3>3 DEF MainType
  <2>5. \/ iteration[s] = "waiting" /\ BeginIteration(s)
        \/ iteration[s] = "running" /\ EndIteration(s)
    BY <1>1, <1>3, <2>1, <2>2, <2>3 DEF RunAlone
  <2>6. Promise!Step
    BY <1>1, <2>1, <2>4, <2>5, IterationStep DEF InCall
  <2>7. QED
    BY <2>6 DEF Promise!Next
<1>4. CASE \/ InCall' = InCall /\ iteration' = iteration
           \/ InCall /\ main'.pc = "idle" /\ iteration' = iteration
  <2>1. CASE InCall' = InCall /\ iteration' = iteration
    BY <2>1 DEF Promise!vars
  <2>2. CASE InCall /\ main'.pc = "idle" /\ iteration' = iteration
    <3>1. Iterations(0, main.stop, "over")'
      BY <2>2 DEF IInv, Calling
    <3>2. TypeOK'
      BY DEF IInv
    <3>3. (main.stop \in Nat /\ DOMAIN iteration = 0..(main.stop - 1))'
      BY <3>2, StopTyped, PTL
    <3>4. \A j \in DOMAIN iteration : iteration[j] = "over"
      BY <2>2, <3>1, <3>3 DEF Iterations
    <3>5. InCall' = FALSE
      BY <2>2 DEF InCall
    <3>6. QED
      BY <2>2, <3>4, <3>5, Zenon DEF Promise!Return, Promise!Next
  <2>3. QED
    BY <1>4, <2>1, <2>2
<1>5. CASE RunAlone /\ ~(main.start < main.stop)
  <2>1. main.pc = "alone" /\ main'.pc = "idle" /\ iteration' = iteration
    <3>1. main.pc # "body"
      BY <1>5 DEF IInv, Calling
    <3>2. QED
      BY <1>1, <1>5, <3>1 DEF RunAlone, MainType
  <2>2. QED
    BY <1>4, <2>1 DEF InCall
<1>6. CASE CreateEmitter \/ CreateWorker \/ SleepUntilFrozen
  <2>1. main'.pc \in {"spawn", "settle", main.pc} /\ iteration' = iteration
        /\ main.pc \in {"create", "spawn", "settle", "join", "endwait"}
        /\ (main.pc \in {"join", "endwait"} => main'.pc = main.pc)
        /\ (main.pc = "settle" => main'.pc = "settle")
    BY <1>1, <1>6
       DEF CreateEmitter, CreateWorker, SleepUntilFrozen, NextIndex, MainType
  <2>2. InCall' = InCall
    BY <2>1 DEF InCall
  <2>3. QED
    BY <1>4, <2>1, <2>2
<1>7. CASE WaitFreezing
  <2>1. /\ main.pc \in {"settle", "join"} /\ iteration' = iteration
        /\ main'.pc = main.pc \/ main'.pc = "idle"
    BY <1>1, <1>7 DEF WaitFreezing, NextIndex, MainType
  <2>2. InCall' = InCall \/ (InCall /\ main'.pc = "idle")
    BY <2>1 DEF InCall
  <2>3. QED
    BY <1>4, <2>1, <2>2
<1>8. CASE SetRange \/ SendTask \/ ThawWorker
  <2>1. /\ main.pc \in {"setloop", "send", "thaw"} /\ iteration' = iteration
        /\ main'.pc \in {"setloop", "send", "alone", "thaw", "join"}
    BY <1>1, <1>8 DEF SetRange, SendTask, ThawWorker, NextIndex, MainType
  <2>2. InCall' = InCall
    BY <2>1 DEF InCall
  <2>3. QED
    BY <1>4, <2>1, <2>2
<1>9. CASE Destroy \/ Stop \/ Wait \/ EndWait \/ EndThaw \/ JoinThread
  <2>1. /\ main.pc \in {"idle", "stop", "wait", "endwait", "endthaw", "join_thread"}
        /\ main'.pc \in {"stop", "wait", "endwait", "endthaw", "join_thread", "done"}
        /\ iteration' = iteration
    BY <1>1, <1>9
       DEF Destroy, Stop, Wait, EndWait, EndThaw, JoinThread, NextIndex, MainType
  <2>2. InCall' = InCall
    BY <2>1 DEF InCall
  <2>3. QED
    BY <1>4, <2>1, <2>2
<1>10. QED
  BY <1>2, <1>3, <1>5, <1>6, <1>7, <1>8, <1>9 DEF MainStep

\* A call of parallel_for runs each of its iterations once, and returns when all
\* are over.
THEOREM RunsEachOnce == Spec => ImplementsForkJoin
<1>1. Init => Promise!Init
  <2>1. SUFFICES ASSUME Init PROVE Promise!Init
    OBVIOUS
  <2>2. InCall = FALSE /\ iteration = [j \in {} |-> "over"]
    BY <2>1 DEF Init, InCall
  <2>3. QED
    BY <2>2 DEF Promise!Init
<1>2. IInv /\ IInv' /\ [Next]_vars => [Promise!Next]_(Promise!vars)
  <2>1. SUFFICES ASSUME IInv, IInv', [Next]_vars
                 PROVE  Promise!Next \/ UNCHANGED Promise!vars
    OBVIOUS
  <2>2. CASE MainStep
    BY <2>1, <2>2, MainRefines
  <2>3. ASSUME NEW t \in Threads, StepOf(t) PROVE Promise!Next \/ UNCHANGED Promise!vars
    BY <2>1, <2>3, ThreadRefines DEF Promise!Next
  <2>4. CASE Spurious
    <3>1. CASE main' = [main EXCEPT !.asleep = FALSE]
      <4>1. main'.pc = main.pc /\ iteration' = iteration
        BY <2>1, <2>4, <3>1, Typed DEF IInv, Spurious, MainType
      <4>2. InCall' = InCall
        BY <4>1 DEF InCall
      <4>3. QED
        BY <4>1, <4>2 DEF Promise!vars
    <3>2. CASE \E t \in Threads : /\ thread[t].pc = "asleep"
                                  /\ thread' = [thread EXCEPT ![t].pc = "woken"]
                                  /\ UNCHANGED main
      BY <2>3, <2>4, <3>2 DEF Spurious, StepOf, Wakes
    <3>3. QED
      BY <2>4, <3>1, <3>2 DEF Spurious
  <2>5. CASE UNCHANGED vars
    BY <2>5 DEF vars, InCall, Promise!vars
  <2>6. QED
    BY <2>1, <2>2, <2>3, <2>4, <2>5 DEF Next, StepOf
<1>3. QED
  BY <1>1, <1>2, Invariance, PTL DEF Spec, ImplementsForkJoin, Promise!Spec
=============================================================================
