-------------------------- MODULE ParallelSkyline --------------------------
(***************************************************************************)
(* The program of parallel/: a ring of threads joined by stdQueues.        *)
(*                                                                         *)
(*   generator -> NW_sky sky workers -> connector -> NW_rest rest workers  *)
(*        ^                                                  |             *)
(*        +------------------ collector <--------------------+             *)
(*                                                                         *)
(* Each queue has one writer and one reader, and is taken here as what     *)
(* module StdQueue shows it to be: a deque whose elements come out in      *)
(* order, a push that has two halves, and a pop that fails if a            *)
(* notification reaches it too late. A sky worker sends a pointer          *)
(* to the Message on its own stack; the connector and the rest workers     *)
(* write to that Message and pass the same pointer on. The skyline lists   *)
(* are shared by the sky workers, the rest workers and the collector, and  *)
(* nothing but the order of the messages keeps them apart.                 *)
(*                                                                         *)
(* A list is the set of its nodes, a tuple pointer the number of the tuple *)
(* and a message pointer the number of the sky worker.                     *)
(***************************************************************************)
EXTENDS Skyline, StdQueueOps

CONSTANTS
  N,        \* stream length
  K,        \* sliding factor
  NW_sky,   \* number of sky workers, the parameter nw_sky
  NW_rest   \* number of rest workers, the parameter nw_rest

\* What the parameters must be for the program to get past its first tuple.
ASSUME ParametersAssumption ==
  /\ N \in Nat /\ N >= W
  /\ K \in 1..W
  /\ NW_sky \in Nat \ {0}
  /\ NW_rest \in Nat \ {0}

Sky == 0..(NW_sky - 1)
Rest == 0..(NW_rest - 1)

VARIABLES
  stream,     \* history: every tuple generate_tuple returned
  gen,        \* the locals of generator, of each check_skyline, of
  sky,        \*   connect_sky_rest, of each check_rest and of collector
  conn,
  rest,
  coll,
  message,    \* the variable mes on the stack of each sky worker
  skylines,   \* the heads of the skyline lists
  rests,      \* the heads of the rest lists
  queues,     \* all the queues
  notifying,  \* the queues whose writer has pushed and not yet notified
  window,     \* the window deque of generator
  windows,    \* history: the windows printed
  output,     \* history: the skylines printed, each a set of tuples
  undefined,  \* some pop has read the back of an empty deque
  lost        \* history: the nodes that a push on a skyline list overwrote

heap == <<stream, message, skylines, rests>>
threads == <<gen, sky, conn, rest, coll>>
printed == <<window, windows, output>>
vars == <<heap, threads, queues, notifying, printed, undefined, lost>>

EOS == -1     \* the NULL pointer

----------------------------------------------------------------------------
(* The queues.                                                             *)

GenToSky(s) == <<"gen_to_sky", s>>
SkyToConn(s) == <<"sky_to_conn", s>>
ConnToRest(r) == <<"conn_to_rest", r>>
RestToColl(r) == <<"rest_to_coll", r>>
CollToGen == <<"coll_to_gen", 0>>

QueueIds ==
  {GenToSky(s) : s \in Sky} \cup {SkyToConn(s) : s \in Sky}
    \cup {ConnToRest(r) : r \in Rest} \cup {RestToColl(r) : r \in Rest} \cup {CollToGen}

\* A writer is done with its last push once it has notified.
Settled(name) == \A x \in notifying : x[1] # name

Send(x, value) ==
  /\ queues' = [queues EXCEPT ![x] = push_front(@, value)]
  /\ notifying' = notifying \cup {x}

Take(x) ==
  /\ queues[x] # <<>>
  /\ queues' = [queues EXCEPT ![x] = pop_back(@)]
  /\ UNCHANGED notifying

\* The reader of queue x is in pop.
InPop(x) ==
  \/ x = CollToGen /\ gen.pc = "pop" /\ Settled("gen_to_sky")
  \/ \E s \in Sky : x = GenToSky(s) /\ sky[s].pc = "pop" /\ SkyToConn(s) \notin notifying
  \/ conn.pc = "pop" /\ x = SkyToConn(conn.j) /\ Settled("conn_to_rest")
  \/ \E r \in Rest : x = ConnToRest(r) /\ rest[r].pc = "pop" /\ RestToColl(r) \notin notifying
  \/ coll.pc = "pop" /\ x = RestToColl(coll.j) /\ Settled("coll_to_gen")

\* The second half of push.
Notify(x) ==
  /\ x \in notifying
  /\ notifying' = notifying \ {x}
  /\ UNCHANGED <<heap, threads, queues, printed, undefined, lost>>

\* The reader has taken the last element before its writer notifies, and is
\* back in pop: it falls asleep on the empty deque, is woken by the belated
\* notification and reads an element that is not there.
PopUndefined(x) ==
  /\ InPop(x)
  /\ queues[x] = <<>> /\ x \in notifying
  /\ undefined' = TRUE
  /\ UNCHANGED <<heap, threads, queues, notifying, printed, lost>>

----------------------------------------------------------------------------
(* The data the threads work on.                                           *)

KeptPastExpiry(nodes, i, t) == {x \in nodes : x.expire >= i /\ ~Dominate(t, x.tuple)}

\* The nodes a scan keeps for tuple t when the thread's own count is i.
Kept(nodes, i, t) == {x \in nodes : x.expire > i /\ ~Dominate(t, x.tuple)}
Blockers(nodes, t) == {x.expire : x \in {y \in nodes : Dominate(y.tuple, t)}}

\* The tuple a message is about.
TupleOf(p) == Arrived(stream, message[p].tuple)

\* How connector and collector fold the next message into what they have.
Merge(acc, p) ==
  [sky |-> acc.sky /\ message[p].sky,
   insert |-> IF message[p].insert > acc.insert THEN message[p].insert ELSE acc.insert]
Fresh(p) == [sky |-> message[p].sky, insert |-> message[p].insert]

WindowComplete(i) == i >= W - 1
OnSlide(i) == (i + 1 - W) % K = 0

Init ==
  /\ stream = <<>>
  /\ gen = [pc |-> "generate", i |-> 0, j |-> 0, out |-> EOS]
  /\ sky = [s \in Sky |-> [pc |-> "pop", i |-> 0, extracted |-> EOS]]
  /\ conn = [pc |-> "pop", j |-> 0, extracted |-> EOS, found |-> [sky |-> TRUE, insert |-> 0]]
  /\ rest = [r \in Rest |-> [pc |-> "pop", i |-> 0, extracted |-> EOS, insert |-> 0,
                             todo |-> {}, list |-> 0, seen |-> {}]]
  /\ coll = [pc |-> "pop", i |-> 0, j |-> 0, extracted |-> EOS,
             found |-> [sky |-> TRUE, insert |-> 0]]
  /\ message = [s \in Sky |-> [tuple |-> EOS, sky |-> TRUE, insert |-> 0]]
  /\ skylines = [s \in Sky |-> {}]
  /\ rests = [r \in Rest |-> {}]
  /\ queues = [x \in QueueIds |-> <<>>]
  /\ notifying = {}
  /\ window = <<>> /\ windows = <<>> /\ output = <<>>
  /\ undefined = FALSE
  /\ lost = {}

----------------------------------------------------------------------------
(* generator                                                               *)

MoreTuplesOffByOne == gen.i <= N
MoreTuples == gen.i < N

GenerateTuple ==
  /\ gen.pc = "generate" /\ MoreTuples
  /\ \E t \in Tuple :
       LET full == <<t>> \o window IN
       /\ stream' = Append(stream, t)
       /\ window' = IF WindowComplete(gen.i) THEN SubSeq(full, 1, Len(full) - 1) ELSE full
       /\ windows' = IF WindowComplete(gen.i) /\ OnSlide(gen.i)
                     THEN Append(windows, full) ELSE windows
  /\ gen' = [gen EXCEPT !.pc = "push", !.j = 0, !.out = gen.i]
  /\ UNCHANGED <<sky, conn, rest, coll, message, skylines, rests, queues, notifying,
                 output, undefined, lost>>

EndOfStream ==
  /\ gen.pc = "generate" /\ ~MoreTuples
  /\ gen' = [gen EXCEPT !.pc = "push", !.j = 0, !.out = EOS]
  /\ UNCHANGED <<heap, sky, conn, rest, coll, queues, notifying, printed, undefined, lost>>

AlwaysPops == "pop"
RunsAhead == IF gen.out = EOS THEN "done" ELSE "generate"

\* Where generator goes once a tuple, or EOS, has been pushed to every worker.
AfterPushes == IF gen.out = EOS THEN "done" ELSE "pop"

GeneratorPush ==
  /\ gen.pc = "push" /\ Settled("gen_to_sky")
  /\ Send(GenToSky(gen.j), gen.out)
  /\ gen' = IF gen.j + 1 < NW_sky
            THEN [gen EXCEPT !.j = @ + 1]
            ELSE [gen EXCEPT !.pc = AfterPushes,
                             !.i = IF AfterPushes = "generate" THEN @ + 1 ELSE @]
  /\ UNCHANGED <<heap, sky, conn, rest, coll, printed, undefined, lost>>

GeneratorPop ==
  /\ InPop(CollToGen)
  /\ Take(CollToGen)
  /\ gen' = [gen EXCEPT !.pc = "generate", !.i = @ + 1]
  /\ UNCHANGED <<heap, sky, conn, rest, coll, printed, undefined, lost>>

(* check_skyline                                                           *)

SkyPop(s) ==
  /\ InPop(GenToSky(s))
  /\ Take(GenToSky(s))
  /\ sky' = [sky EXCEPT ![s].extracted = back(queues[GenToSky(s)]),
                        ![s].pc = IF back(queues[GenToSky(s)]) = EOS THEN "push" ELSE "scan"]
  /\ UNCHANGED <<heap, gen, conn, rest, coll, printed, undefined, lost>>

SkyScan(s) ==
  LET t == Arrived(stream, sky[s].extracted)
      kept == Kept(skylines[s], sky[s].i, t)
  IN
  /\ sky[s].pc = "scan"
  /\ skylines' = [skylines EXCEPT ![s] = kept]
  /\ \E insert \in Greatest({0} \cup Blockers(kept, t)) :
       message' = [message EXCEPT ![s] = [tuple |-> sky[s].extracted,
                                          sky |-> Blockers(kept, t) = {},
                                          insert |-> insert]]
  /\ sky' = [sky EXCEPT ![s].pc = "push"]
  /\ UNCHANGED <<stream, rests, gen, conn, rest, coll, queues, notifying, printed,
                 undefined, lost>>

SkyPush(s) ==
  /\ sky[s].pc = "push"
  /\ Send(SkyToConn(s), IF sky[s].extracted = EOS THEN EOS ELSE s)
  /\ sky' = IF sky[s].extracted = EOS
            THEN [sky EXCEPT ![s].pc = "done"]
            ELSE [sky EXCEPT ![s].pc = "pop", ![s].i = @ + 1]
  /\ UNCHANGED <<heap, gen, conn, rest, coll, printed, undefined, lost>>

(* connect_sky_rest                                                        *)

\* The first message replaces what was found; before each later one is taken,
\* the one at hand is folded in. The last message is overwritten with it.
ConnectorPop ==
  /\ conn.pc = "pop"
  /\ InPop(SkyToConn(conn.j))
  /\ Take(SkyToConn(conn.j))
  /\ LET p == back(queues[SkyToConn(conn.j)])
         found == IF conn.j = 0 THEN Fresh(p) ELSE Merge(conn.found, conn.extracted)
     IN
     \/ /\ conn.j = 0 /\ p = EOS
        /\ conn' = [conn EXCEPT !.pc = "push", !.extracted = EOS]
        /\ UNCHANGED message
     \/ /\ ~(conn.j = 0 /\ p = EOS) /\ conn.j + 1 < NW_sky
        /\ conn' = [conn EXCEPT !.j = @ + 1, !.extracted = p, !.found = found]
        /\ UNCHANGED message
     \/ /\ ~(conn.j = 0 /\ p = EOS) /\ conn.j + 1 = NW_sky
        /\ conn' = [conn EXCEPT !.pc = "push", !.j = 0, !.extracted = p, !.found = found]
        /\ message' = [message EXCEPT ![p].sky = found.sky, ![p].insert = found.insert]
  /\ UNCHANGED <<stream, skylines, rests, gen, sky, rest, coll, printed, undefined, lost>>

ConnectorPush ==
  /\ conn.pc = "push" /\ Settled("conn_to_rest")
  /\ Send(ConnToRest(conn.j), conn.extracted)
  /\ conn' = IF conn.j + 1 < NW_rest
             THEN [conn EXCEPT !.j = @ + 1]
             ELSE [conn EXCEPT !.pc = IF conn.extracted = EOS THEN "done" ELSE "pop", !.j = 0]
  /\ UNCHANGED <<heap, gen, sky, rest, coll, printed, undefined, lost>>

(* check_rest. The nodes stand in the list with the latest expiry first:   *)
(* the collector pushes them at the head, in the order they arrive.        *)

RestPop(r) ==
  LET p == back(queues[ConnToRest(r)]) IN
  /\ InPop(ConnToRest(r))
  /\ Take(ConnToRest(r))
  /\ \/ /\ p = EOS
        /\ rest' = [rest EXCEPT ![r].pc = "push", ![r].extracted = EOS]
     \/ /\ p # EOS
        /\ rest' = [rest EXCEPT ![r].pc = "scan", ![r].extracted = p,
                                ![r].insert = message[p].insert, ![r].todo = rests[r]]
  /\ UNCHANGED <<heap, gen, sky, conn, coll, printed, undefined, lost>>

\* The node the scan has come to.
Current(r) == CHOOSE x \in rest[r].todo : \A y \in rest[r].todo : y.expire <= x.expire

Visiting(r) == rest[r].pc = "scan" /\ rest[r].todo # {}
Keeps(r) == Current(r) \in Kept(rest[r].todo, rest[r].i, TupleOf(rest[r].extracted))

RestDelete(r) ==
  /\ Visiting(r) /\ ~Keeps(r)
  /\ rests' = [rests EXCEPT ![r] = @ \ {Current(r)}]
  /\ rest' = [rest EXCEPT ![r].todo = @ \ {Current(r)}]
  /\ UNCHANGED <<stream, message, skylines, gen, sky, conn, coll, queues, notifying,
                 printed, undefined, lost>>

\* The message is changed, but the comparison is with the value read at first.
RestKeep(r) ==
  LET x == Current(r)
      p == rest[r].extracted
  IN
  /\ Visiting(r) /\ Keeps(r)
  /\ message' = IF Dominate(x.tuple, TupleOf(p)) /\ x.expire > rest[r].insert
                THEN [message EXCEPT ![p].insert = x.expire]
                ELSE message
  /\ rest' = IF x.insert <= rest[r].i
             THEN [rest EXCEPT ![r].pc = "move"]
             ELSE [rest EXCEPT ![r].todo = @ \ {x}]
  /\ UNCHANGED <<stream, skylines, rests, gen, sky, conn, coll, queues, notifying,
                 printed, undefined, lost>>

\* push_node on some skyline list, without a lock: it reads the head ...
RestReadHead(r) ==
  /\ rest[r].pc = "move"
  /\ \E s \in Sky :
       rest' = [rest EXCEPT ![r].pc = "write", ![r].list = s, ![r].seen = skylines[s]]
  /\ UNCHANGED <<heap, gen, sky, conn, coll, queues, notifying, printed, undefined, lost>>

\* What stood behind the head when it was read is behind the new one; what has
\* been pushed since is not.
Overwritten(r) == (lost \cup skylines[rest[r].list]) \ rest[r].seen

RestWriteOnly(r) ==
  LET x == Current(r) IN
  /\ rest[r].pc = "write"
  /\ skylines' = [skylines EXCEPT ![rest[r].list] =
                    rest[r].seen \cup {MkNode(x.tuple, x.expire, 0)}]
  /\ rest' = [rest EXCEPT ![r].pc = "scan", ![r].todo = @ \ {x}, ![r].seen = {}]
  /\ lost' = Overwritten(r)
  /\ UNCHANGED <<stream, message, rests, gen, sky, conn, coll, queues, notifying, printed,
                 undefined>>

\* ... and replaces it; then delete_node takes the node out of the rest list.
RestWriteHead(r) ==
  LET x == Current(r) IN
  /\ rest[r].pc = "write"
  /\ skylines' = [skylines EXCEPT ![rest[r].list] =
                    rest[r].seen \cup {MkNode(x.tuple, x.expire, 0)}]
  /\ rests' = [rests EXCEPT ![r] = @ \ {x}]
  /\ rest' = [rest EXCEPT ![r].pc = "scan", ![r].todo = @ \ {x}, ![r].seen = {}]
  /\ lost' = Overwritten(r)
  /\ UNCHANGED <<stream, message, gen, sky, conn, coll, queues, notifying, printed,
                 undefined>>

RestPush(r) ==
  /\ rest[r].pc = "push" \/ (rest[r].pc = "scan" /\ rest[r].todo = {})
  /\ Send(RestToColl(r), rest[r].extracted)
  /\ rest' = IF rest[r].extracted = EOS
             THEN [rest EXCEPT ![r].pc = "done"]
             ELSE [rest EXCEPT ![r].pc = "pop", ![r].i = @ + 1]
  /\ UNCHANGED <<heap, gen, sky, conn, coll, printed, undefined, lost>>

(* collector                                                               *)

FirstIsEnough == TRUE
EveryRestTaken == coll.j + 1 = NW_rest

CollectorPop ==
  /\ coll.pc = "pop"
  /\ InPop(RestToColl(coll.j))
  /\ Take(RestToColl(coll.j))
  /\ LET p == back(queues[RestToColl(coll.j)]) IN
     \/ /\ coll.j = 0 /\ p = EOS
        /\ coll' = [coll EXCEPT !.pc = "done", !.extracted = EOS]
     \/ /\ ~(coll.j = 0 /\ p = EOS)
        /\ coll' = [coll EXCEPT !.extracted = p,
                      !.found = IF coll.j = 0 THEN Fresh(p)
                                ELSE IF EveryRestTaken THEN @ ELSE Merge(@, p),
                      !.pc = IF EveryRestTaken THEN "insert" ELSE "pop",
                      !.j = IF EveryRestTaken THEN 0 ELSE @ + 1]
  /\ UNCHANGED <<heap, gen, sky, conn, rest, printed, undefined, lost>>

\* push_node, print_sky_rest, and the two fields of the message.
CollectorInsert ==
  LET p == coll.extracted
      node == MkNode(TupleOf(p), coll.i + W, coll.found.insert)
  IN
  /\ coll.pc = "insert"
  /\ \/ /\ coll.found.sky
        /\ \E s \in Sky : skylines' = [skylines EXCEPT ![s] = @ \cup {node}]
        /\ UNCHANGED rests
     \/ /\ ~coll.found.sky
        /\ \E r \in Rest : rests' = [rests EXCEPT ![r] = @ \cup {node}]
        /\ UNCHANGED skylines
  /\ output' = IF WindowComplete(coll.i) /\ OnSlide(coll.i)
               THEN Append(output, UNION {Tuples(skylines'[s]) : s \in Sky})
               ELSE output
  /\ message' = [message EXCEPT ![p].sky = coll.found.sky, ![p].insert = coll.found.insert]
  /\ coll' = [coll EXCEPT !.pc = "push"]
  /\ UNCHANGED <<stream, gen, sky, conn, rest, queues, notifying, window, windows,
                 undefined, lost>>

CollectorPush ==
  /\ coll.pc = "push"
  /\ Send(CollToGen, 1)
  /\ coll' = [coll EXCEPT !.pc = "pop", !.i = @ + 1]
  /\ UNCHANGED <<heap, gen, sky, conn, rest, printed, undefined, lost>>

----------------------------------------------------------------------------
Generator == GenerateTuple \/ EndOfStream \/ GeneratorPush \/ GeneratorPop
SkyWorker(s) == SkyPop(s) \/ SkyScan(s) \/ SkyPush(s)
Connector == ConnectorPop \/ ConnectorPush
RestWorker(r) ==
  \/ RestPop(r) \/ RestDelete(r) \/ RestKeep(r)
  \/ RestReadHead(r) \/ RestWriteHead(r) \/ RestPush(r)
Collector == CollectorPop \/ CollectorInsert \/ CollectorPush

\* Nothing is said of what follows the read of an element that is not there.
Next ==
  /\ ~undefined
  /\ \/ Generator
     \/ \E s \in Sky : SkyWorker(s)
     \/ Connector
     \/ \E r \in Rest : RestWorker(r)
     \/ Collector
     \/ \E x \in QueueIds : Notify(x) \/ PopUndefined(x)

\* Some thread that can run runs.
Spec == Init /\ [][Next]_vars /\ WF_vars(Next)
----------------------------------------------------------------------------
(* Properties.                                                             *)

Tick == 0..N
Pointers == Sky \cup {EOS}
Found == [sky : BOOLEAN, insert : Nat]

\* The type invariant.
TypeOK ==
  /\ stream \in Seq(Tuple) /\ Len(stream) <= N
  /\ gen \in [pc : {"generate", "push", "pop", "done"}, i : Tick, j : Sky, out : Tick \cup {EOS}]
  /\ sky \in [Sky -> [pc : {"pop", "scan", "push", "done"}, i : Tick,
                      extracted : Tick \cup {EOS}]]
  /\ conn \in [pc : {"pop", "push", "done"}, j : Sky \cup Rest, extracted : Pointers,
               found : Found]
  /\ rest \in [Rest -> [pc : {"pop", "scan", "move", "write", "push", "done"}, i : Tick,
                        extracted : Pointers, insert : Nat, todo : SUBSET Node, list : Sky,
                        seen : SUBSET Node]]
  /\ coll \in [pc : {"pop", "insert", "push", "done"}, i : Tick, j : Rest,
               extracted : Pointers, found : Found]
  /\ message \in [Sky -> [tuple : Tick \cup {EOS}, sky : BOOLEAN, insert : Nat]]
  /\ skylines \in [Sky -> SUBSET Node]
  /\ rests \in [Rest -> SUBSET Node]
  /\ queues \in [QueueIds -> Seq(Int)]
  /\ notifying \subseteq QueueIds
  /\ undefined \in BOOLEAN
  /\ lost \subseteq Node

Finished ==
  /\ gen.pc = "done" /\ conn.pc = "done" /\ coll.pc = "done"
  /\ \A s \in Sky : sky[s].pc = "done"
  /\ \A r \in Rest : rest[r].pc = "done"

ScanningSky(s) == sky[s].pc = "scan"
ScanningRest(r) == rest[r].pc \in {"scan", "move", "write"}

\* The skyline lists have no lock. No sky worker scans while a rest worker may
\* push into its list or the collector is about to, and the collector waits
\* for the last rest worker: the acknowledgement the generator waits for keeps
\* the stages apart.
StageExclusion ==
  /\ \A s \in Sky : ScanningSky(s) =>
       coll.pc # "insert" /\ \A r \in Rest : ~ScanningRest(r)
  /\ coll.pc = "insert" => \A r \in Rest : ~ScanningRest(r)

InTransit(x) == {queues[x][n] : n \in 1..Len(queues[x])}

\* The message pointers on their way, and those a thread is working with.
OnTheWay ==
  (UNION {InTransit(SkyToConn(s)) : s \in Sky})
    \cup (UNION {InTransit(ConnToRest(r)) \cup InTransit(RestToColl(r)) : r \in Rest})
AtRest == {rest[r].extracted : r \in {q \in Rest : rest[q].pc \notin {"pop", "done"}}}
AtConnector == IF conn.pc = "push" \/ conn.j > 0 THEN {conn.extracted} ELSE {}
AtCollector == IF coll.pc = "insert" \/ coll.j > 0 THEN {coll.extracted} ELSE {}
PointersInUse == (OnTheWay \cup AtRest \cup AtConnector \cup AtCollector) \ {EOS}

\* A Message lives on the stack of a sky worker. As long as anyone may follow a
\* pointer to it, that worker neither fills it again nor returns, and it is
\* about the newest tuple.
MessageIntact ==
  \A p \in PointersInUse :
    /\ message[p].tuple = gen.i
    /\ sky[p].pc = "pop" \/ (sky[p].pc = "push" /\ sky[p].extracted = gen.i)

\* Expiry is counted by each thread on its own: each has counted as many tuples
\* as the generator when it handles the newest one.
CountersAgree ==
  /\ \A s \in Sky : ScanningSky(s) => sky[s].i = gen.i /\ sky[s].extracted = gen.i
  /\ \A r \in Rest : ScanningRest(r) => rest[r].i = message[rest[r].extracted].tuple
  /\ coll.pc = "insert" => coll.i = message[coll.extracted].tuple

\* The queues have no bound, and need none: at most one element is ever in one.
QueuesHoldOne == \A x \in QueueIds : Len(queues[x]) <= 1

\* A window and its skyline are printed by different threads, and still in
\* turn; when all have returned every window has had its skyline.
WindowThenSkyline ==
  /\ Len(windows) - Len(output) \in {0, 1}
  /\ Finished => Len(output) = (N - W) \div K + 1 /\ Len(windows) = Len(output)

\* However the lists are divided and moved between workers, no tuple is in two
\* of them.
StoredOnce ==
  LET lists == {<<"sky", s>> : s \in Sky} \cup {<<"rest", r>> : r \in Rest}
      At(l) == IF l[1] = "sky" THEN skylines[l[2]] ELSE rests[l[2]]
  IN \A l1, l2 \in lists : \A x \in At(l1), y \in At(l2) :
       x.expire = y.expire => l1 = l2 /\ x = y

\* The nodes that pushes have overwritten and that would still be in the window.
Missing == {x \in lost : x.expire > coll.i}

\* Refinement, up to the pushes that two rest workers lose: what the collector
\* prints for a window lies between its skyline and the window, but for tuples
\* whose nodes were overwritten, and comes before the next tuple is taken in. A
\* lost push costs the skyline that one tuple and nothing else.
Observed == INSTANCE SkylineStream

ImplementsSkylineStream ==
  /\ Observed!Init
  /\ [][Observed!Receive \/ Observed!EmitBut(Tuples(Missing))]_<<stream, output>>

\* The ring does not stall: all threads return in the end, or some pop has run
\* into an empty deque.
Terminates == <>(Finished \/ undefined)

----------------------------------------------------------------------------
(* What the documentation says, and the code does not do.                  *)

Newest == Len(stream) - 1
Printing == coll.pc = "push" /\ WindowComplete(coll.i) /\ OnSlide(coll.i)
Printed == UNION {Tuples(skylines[s]) : s \in Sky}

\* README.md: for each window the application computes the skyline: none of
\* its tuples is missing from the skyline lists when they are printed.
SkylineComplete == Printing => SkylineTuples(stream, Newest) \subseteq Printed

\* stages.cpp, check_skyline: "If new tuple is dominated by sky node then it
\* shouldn't be put in sky until sky node expires": the flag the connector sends
\* on says whether any sky worker has found such a node.
SkyNodesAwaited ==
  conn.pc = "push" /\ conn.j = 0 /\ conn.extracted # EOS /\ message[conn.extracted].sky =>
    \A s \in Sky : \A x \in skylines[s] : ~StrictlyDominates(x.tuple, TupleOf(conn.extracted))
============================================================================
