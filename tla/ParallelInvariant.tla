------------------------- MODULE ParallelInvariant -------------------------
(***************************************************************************)
(* Why the ring of ParallelSkyline works: one tuple is under way at a      *)
(* time, and where it is tells what every thread does and what every queue *)
(* holds. The round is the generator's count: round gen.i < N is that of a *)
(* tuple, round N that of EOS.                                             *)
(*                                                                         *)
(* Each worker goes through a round once: idle, given the message, busy,   *)
(* done, its answer taken.                                                 *)
(***************************************************************************)
EXTENDS ParallelSkyline

TupleRound == gen.i < N

\* What the generator sends, what sky worker s answers, and what the connector
\* sends on: of all the messages the last worker's.
Item == IF TupleRound THEN gen.i ELSE EOS
Answer(s) == IF TupleRound THEN s ELSE EOS
Passed == Answer(NW_sky - 1)

(* Sky workers.                                                            *)

Pushed(s) == gen.pc \in {"pop", "done"} \/ (gen.pc = "push" /\ s < gen.j)

SkyIdle(s) == sky[s].pc = "pop" /\ sky[s].i = gen.i
SkyBusy(s) ==
  /\ sky[s].pc \in {"scan", "push"}
  /\ sky[s].i = gen.i /\ sky[s].extracted = Item
  /\ sky[s].pc = "scan" => TupleRound
SkyDone(s) ==
  IF TupleRound THEN sky[s].pc = "pop" /\ sky[s].i = gen.i + 1
  ELSE sky[s].pc = "done"

(* Connector. Of the EOSs it takes only the first.                         *)

ConnectorDone ==
  IF TupleRound THEN /\ conn.pc = "pop" /\ conn.j = 0
                     /\ SkyDone(0) /\ queues[SkyToConn(0)] = <<>>
  ELSE conn.pc = "done"

Taken(s) ==
  IF TupleRound THEN \/ ConnectorDone \/ conn.pc = "push"
                     \/ conn.pc = "pop" /\ s < conn.j
  ELSE s = 0 /\ conn.pc # "pop"

Sent(r) == ConnectorDone \/ (conn.pc = "push" /\ r < conn.j)

(* Rest workers.                                                           *)

RestIdle(r) == rest[r].pc = "pop" /\ rest[r].i = gen.i
RestBusy(r) ==
  /\ rest[r].pc \in (IF TupleRound THEN {"scan", "move", "write"} ELSE {"push"})
  /\ rest[r].i = gen.i /\ rest[r].extracted = Passed
RestDone(r) ==
  IF TupleRound THEN rest[r].pc = "pop" /\ rest[r].i = gen.i + 1
  ELSE rest[r].pc = "done"

(* Collector.                                                              *)

Acknowledged == coll.i = gen.i + 1

Collected(r) ==
  IF TupleRound THEN \/ Acknowledged \/ coll.pc \in {"insert", "push"}
                     \/ coll.pc = "pop" /\ r < coll.j
  ELSE r = 0 /\ coll.pc = "done"

----------------------------------------------------------------------------
Holds(x, present, value) == queues[x] = IF present THEN <<value>> ELSE <<>>

GeneratorInv ==
  /\ gen.pc = "push" => gen.out = Item
  /\ gen.pc = "pop" => TupleRound /\ gen.out = gen.i
  /\ gen.pc = "done" => ~TupleRound

SkyInv(s) ==
  /\ SkyIdle(s) \/ SkyBusy(s) \/ SkyDone(s)
  /\ ~Pushed(s) => SkyIdle(s)
  /\ Taken(s) => SkyDone(s)
  /\ Holds(GenToSky(s), Pushed(s) /\ SkyIdle(s), Item)
  /\ Holds(SkyToConn(s), SkyDone(s) /\ ~Taken(s), Answer(s))

ConnectorInv ==
  /\ conn.pc = "pop" => conn.j \in Sky /\ (conn.j > 0 => TupleRound /\ conn.extracted = conn.j - 1)
  /\ conn.pc = "push" => conn.j \in Rest /\ conn.extracted = Passed
  /\ conn.pc = "done" => ~TupleRound /\ conn.j = 0

RestInv(r) ==
  /\ RestIdle(r) \/ RestBusy(r) \/ RestDone(r)
  /\ ~Sent(r) => RestIdle(r)
  /\ Collected(r) => RestDone(r)
  /\ Holds(ConnToRest(r), Sent(r) /\ RestIdle(r), Passed)
  /\ Holds(RestToColl(r), RestDone(r) /\ ~Collected(r), Passed)

CollectorInv ==
  /\ coll.pc = "pop" => coll.i = gen.i \/ (Acknowledged /\ coll.j = 0 /\ TupleRound)
  /\ coll.pc = "pop" /\ coll.j > 0 => TupleRound /\ coll.extracted = Passed
  /\ coll.pc \in {"insert", "push"} => TupleRound /\ coll.i = gen.i /\ coll.extracted = Passed
  /\ coll.pc = "done" => ~TupleRound /\ coll.i = gen.i
  /\ coll.pc # "pop" => coll.j = 0
  /\ Holds(CollToGen, Acknowledged, 1)

\* A worker that is through with the newest tuple has left it in its message.
MessageInv ==
  TupleRound => \A s \in Sky : sky[s].pc = "push" \/ SkyDone(s) => message[s].tuple = gen.i

StreamInv == Len(stream) = IF gen.pc = "generate" \/ ~TupleRound THEN gen.i ELSE gen.i + 1

\* One token goes round.
OneToken ==
  /\ GeneratorInv
  /\ \A s \in Sky : SkyInv(s)
  /\ ConnectorInv
  /\ \A r \in Rest : RestInv(r)
  /\ CollectorInv
  /\ MessageInv
  /\ StreamInv

----------------------------------------------------------------------------
(* The nodes. A rest worker that has read a head still has that list in    *)
(* its hands, and may put back what another has replaced meanwhile.        *)

Place(s) == skylines[s] \cup UNION {rest[r].seen : r \in {q \in Rest : rest[q].list = s}}

\* The tuples that have been put on a list.
Handled == coll.i + (IF coll.pc = "push" THEN 1 ELSE 0)

ApartInSkylines ==
  \A s1, s2 \in Sky : \A x \in Place(s1), y \in Place(s2) :
    x.expire = y.expire => s1 = s2 /\ x = y

ApartInRests ==
  \A r1, r2 \in Rest : \A x \in rests[r1], y \in rests[r2] :
    x.expire = y.expire => r1 = r2 /\ x = y

SkylinesApartFromRests ==
  \A s \in Sky, r \in Rest : \A x \in Place(s), y \in rests[r] : x.expire # y.expire

StoredBefore ==
  /\ \A s \in Sky : \A x \in Place(s) : x.expire < Handled + W
  /\ \A r \in Rest : \A x \in rests[r] : x.expire < Handled + W

ScanInv ==
  \A r \in Rest :
    /\ rest[r].todo \subseteq rests[r]
    /\ rest[r].pc \in {"move", "write"} => Current(r) \in rest[r].todo

StorageInv ==
  ApartInSkylines /\ ApartInRests /\ SkylinesApartFromRests /\ StoredBefore /\ ScanInv

----------------------------------------------------------------------------
(* What has been printed.                                                  *)

\* The windows due once i tuples have been handled.
Due(i) == IF i < W THEN 0 ELSE (i - W) \div K + 1

OutputInv ==
  /\ window \in Seq(Tuple)
  /\ windows \in Seq(Seq(Tuple))
  /\ output \in Seq(SUBSET Tuple)
  /\ Len(windows) = Due(Len(stream))
  /\ Len(output) = Due(Handled)

\* The inductive invariant.
IInv == TypeOK /\ OneToken /\ StorageInv /\ OutputInv
============================================================================
