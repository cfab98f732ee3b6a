------------------------ MODULE ParallelForInvariant ------------------------
(***************************************************************************)
(* Why ParallelFor keeps its promise.  What main is doing says of every    *)
(* thread whether it sleeps, works or has left, and what its queue holds;  *)
(* and where a worker stands in its range says which of the iterations of  *)
(* that range are over.                                                    *)
(***************************************************************************)
EXTENDS ParallelFor

(* Where the range of the w-th of k workers starts in a loop of n iterations. *)
RangeStart(k, w, n) == w * (n \div k) + Least(w, n % k)

Lo(w, n) == RangeStart(nw, w, n)

(* A thread that sleeps, or that has woken up for nothing; s: stop() was called. *)
Parked(t, s) ==
  /\ thread[t].pc \in {"asleep", "woken"}
  /\ thread[t].frozen /\ thread[t].freezing = 1 /\ thread[t].stp = s

(* A thread between two sleeps. *)
Up(t) == ~thread[t].frozen /\ thread[t].freezing = 1 /\ ~thread[t].stp

Iterations(from, to, state) ==
  \A j \in DOMAIN iteration : from <= j /\ j < to => iteration[j] = state

-----------------------------------------------------------------------------
(* The constructor. *)
NotSpawned(t) == thread[t] = NewThread

WarmEmitter ==
  \/ thread[Emitter].pc = "svc" /\ thread[Emitter].at \in 0..nw /\ Up(Emitter)
  \/ thread[Emitter].pc = "freeze" /\ thread[Emitter].at = nw /\ Up(Emitter)
  \/ thread[Emitter].at = nw /\ Parked(Emitter, FALSE)

(* GO_OUT is still to come, is in the queue, or has been taken. *)
WarmWorker(w) ==
  \/ thread[w].pc = "svc" /\ Up(w) /\ queue[w] = <<>> /\ w >= thread[Emitter].at
  \/ thread[w].pc = "svc" /\ Up(w) /\ queue[w] = <<GoOut>> /\ w < thread[Emitter].at
  \/ thread[w].pc = "freeze" /\ Up(w) /\ queue[w] = <<>> /\ w < thread[Emitter].at
  \/ Parked(w, FALSE) /\ queue[w] = <<>> /\ w < thread[Emitter].at

Unspawned(w) ==
  /\ NotSpawned(w)
  /\ queue[w] = IF w < thread[Emitter].at THEN <<GoOut>> ELSE <<>>

Creation ==
  /\ main.pc \in {"create", "spawn", "settle"} => main.stop = 0
  /\ main.pc = "create" =>
       main.at = 0 /\ (\A t \in Threads : NotSpawned(t)) /\ \A w \in Workers : queue[w] = <<>>
  /\ main.pc = "spawn" =>
       /\ main.at < nw /\ WarmEmitter
       /\ \A w \in Workers : IF w < main.at THEN WarmWorker(w) ELSE Unspawned(w)
  /\ main.pc = "settle" =>
       /\ WarmEmitter
       /\ \A w \in Workers :
            WarmWorker(w) /\ (w < main.at => Parked(w, FALSE) /\ queue[w] = <<>>)

-----------------------------------------------------------------------------
(* parallel_for. *)
Idle(w) == Parked(w, FALSE) /\ queue[w] = <<>>

Entry(w, n) == [ntask |-> 1, start |-> Lo(w, n), end |-> Lo(w + 1, n)]

Share(w, n) == <<Lo(w, n), Lo(w + 1, n)>>

(* The worker has its task in the queue and nothing else to do. *)
Given(w, n) ==
  /\ queue[w] = <<Share(w, n)>>
  /\ table[w] = [ntask |-> 0, start |-> Lo(w + 1, n), end |-> Lo(w + 1, n)]
  /\ Iterations(Lo(w, n), Lo(w + 1, n), "waiting")

Thawed(w) ==
  \/ thread[w].pc = "woken" /\ ~thread[w].frozen /\ thread[w].freezing = 2 /\ ~thread[w].stp
  \/ thread[w].pc \in {"again", "svc"} /\ Up(w)

Working(w, n) ==
  /\ Up(w)
  /\ queue[w] = <<>>
  /\ table[w] = [ntask |-> 0, start |-> Lo(w + 1, n), end |-> Lo(w + 1, n)]
  /\ thread[w].to = Lo(w + 1, n)
  /\ thread[w].at >= Lo(w, n)
  /\ \/ thread[w].pc = "loop" /\ thread[w].at <= Lo(w + 1, n)
        /\ Iterations(thread[w].at, Lo(w + 1, n), "waiting")
     \/ thread[w].pc = "body" /\ thread[w].at < Lo(w + 1, n)
        /\ iteration[thread[w].at] = "running"
        /\ Iterations(thread[w].at + 1, Lo(w + 1, n), "waiting")
  /\ Iterations(Lo(w, n), thread[w].at, "over")

Ready(w, n) ==
  /\ queue[w] = <<>>
  /\ table[w] = [ntask |-> 0, start |-> Lo(w + 1, n), end |-> Lo(w + 1, n)]
  /\ Iterations(Lo(w, n), Lo(w + 1, n), "over")

AtWork(w, n) ==
  \/ Thawed(w) /\ Given(w, n)
  \/ Working(w, n)
  \/ ((thread[w].pc = "freeze" /\ Up(w)) \/ Parked(w, FALSE)) /\ Ready(w, n)

AllSleep == \A w \in Workers : Idle(w)

Calling ==
  LET n == main.stop
  IN
  /\ main.pc \in {"idle", "setloop", "alone", "body"} => AllSleep
  /\ main.pc = "idle" => Iterations(0, n, "over") /\ main.at = 0
  /\ main.pc = "setloop" =>
       /\ main.at < nw
       /\ Iterations(0, n, "waiting")
       /\ chunk = n \div nw
       /\ main.start = Lo(main.at, n)
       /\ \A w \in Workers : w < main.at => table[w] = Entry(w, n)
  /\ main.pc \in {"alone", "body"} =>
       /\ main.at = 0
       /\ main.start <= n
       /\ Iterations(0, main.start, "over")
  /\ main.pc = "alone" => Iterations(main.start, n, "waiting")
  /\ main.pc = "body" =>
       /\ main.start < n
       /\ iteration[main.start] = "running"
       /\ Iterations(main.start + 1, n, "waiting")
  /\ main.pc = "send" =>
       /\ main.at < nw
       /\ chunk = n \div nw + (IF n % nw > 0 THEN 1 ELSE 0)
       /\ \A w \in Workers :
            IF w < main.at
              THEN Parked(w, FALSE) /\ Given(w, n)
              ELSE Idle(w) /\ table[w] = Entry(w, n) /\ Iterations(Lo(w, n), Lo(w + 1, n), "waiting")
  /\ main.pc = "thaw" =>
       /\ main.at < nw
       /\ \A w \in Workers :
            IF w < main.at THEN AtWork(w, n) ELSE Parked(w, FALSE) /\ Given(w, n)
  /\ main.pc = "join" =>
       /\ main.at < nw
       /\ Iterations(0, Lo(main.at, n), "over")
       /\ \A w \in Workers : IF w < main.at THEN Idle(w) ELSE AtWork(w, n)

-----------------------------------------------------------------------------
(* The destructor. *)
Gone(t) == thread[t].pc = "finished"

Leaving(t) ==
  /\ thread[t].pc \in {"woken", "again", "leave", "finished"}
  /\ thread[t].freezing = 0 /\ thread[t].stp

Ending ==
  /\ main.pc = "stop" => \A t \in Threads : Parked(t, t < main.at)
  /\ main.pc \in {"wait", "endwait", "endthaw"} =>
       \A t \in Threads : IF t < main.at THEN Gone(t) ELSE Parked(t, TRUE)
  /\ main.pc = "join_thread" =>
       \A t \in Threads :
         IF t < main.at THEN Gone(t) ELSE IF t = main.at THEN Leaving(t) ELSE Parked(t, TRUE)
  /\ main.pc = "done" => \A t \in Threads : Gone(t)

(* The emitter has nothing to do after the constructor. *)
EmitterSleeps ==
  main.pc \in {"idle", "setloop", "alone", "body", "send", "thaw", "join"} =>
    Parked(Emitter, FALSE)

MainWaits == main.asleep => main.pc \in {"settle", "join"} /\ ~thread[main.at].frozen

IInv ==
  /\ TypeOK
  /\ Creation
  /\ Calling
  /\ Ending
  /\ EmitterSleeps
  /\ MainWaits
=============================================================================
