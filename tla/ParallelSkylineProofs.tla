----------------------- MODULE ParallelSkylineProofs -----------------------
(***************************************************************************)
(* The ring of parallel/, for any number of workers, any stream length and *)
(* any window: the stages exclude each other, the messages stay intact,    *)
(* the counts agree, no queue ever holds more than one element, no tuple   *)
(* is in two lists and the output comes in turn.                           *)
(***************************************************************************)
EXTENDS ParallelInvariant, SkylineLemmas, SequenceTheorems

\* The queues are different queues.
LEMMA Ids ==
  /\ \A s \in Sky : GenToSky(s) \in QueueIds /\ SkyToConn(s) \in QueueIds
  /\ \A r \in Rest : ConnToRest(r) \in QueueIds /\ RestToColl(r) \in QueueIds
  /\ CollToGen \in QueueIds
  /\ \A a, b : (GenToSky(a) = GenToSky(b)) <=> (a = b)
  /\ \A a, b : (SkyToConn(a) = SkyToConn(b)) <=> (a = b)
  /\ \A a, b : (ConnToRest(a) = ConnToRest(b)) <=> (a = b)
  /\ \A a, b : (RestToColl(a) = RestToColl(b)) <=> (a = b)
  /\ \A a, b : GenToSky(a) # SkyToConn(b)
  /\ \A a, b : GenToSky(a) # ConnToRest(b)
  /\ \A a, b : GenToSky(a) # RestToColl(b)
  /\ \A a, b : SkyToConn(a) # ConnToRest(b)
  /\ \A a, b : SkyToConn(a) # RestToColl(b)
  /\ \A a, b : ConnToRest(a) # RestToColl(b)
  /\ \A a : GenToSky(a) # CollToGen /\ SkyToConn(a) # CollToGen
  /\ \A a : ConnToRest(a) # CollToGen /\ RestToColl(a) # CollToGen
BY DEF QueueIds, GenToSky, SkyToConn, ConnToRest, RestToColl, CollToGen

\* A message sent over an empty queue is the only one in it.
LEMMA SendEffect ==
  ASSUME TypeOK, NEW x \in QueueIds, NEW value \in Int, Send(x, value), queues[x] = <<>>
  PROVE  /\ queues'[x] = <<value>>
         /\ \A y \in QueueIds : y # x => queues'[y] = queues[y]
         /\ queues' \in [QueueIds -> Seq(Int)]
         /\ notifying' \subseteq QueueIds
<1>1. push_front(<<>>, value) = <<value>>
  BY DEF push_front
<1>2. queues \in [QueueIds -> Seq(Int)] /\ notifying \subseteq QueueIds
  BY DEF TypeOK
<1>3. <<value>> \in Seq(Int)
  OBVIOUS
<1>4. QED
  BY <1>1, <1>2, <1>3 DEF Send

\* The only message in a queue leaves it empty.
LEMMA TakeEffect ==
  ASSUME TypeOK, NEW x \in QueueIds, NEW value \in Int, Take(x), queues[x] = <<value>>
  PROVE  /\ queues'[x] = <<>>
         /\ \A y \in QueueIds : y # x => queues'[y] = queues[y]
         /\ queues' \in [QueueIds -> Seq(Int)]
         /\ back(queues[x]) = value
         /\ notifying' \subseteq QueueIds
<1>1. pop_back(<<value>>) = <<>> /\ back(<<value>>) = value
  BY DEF pop_back, back
<1>2. <<>> \in Seq(Int)
  BY EmptySeq
<1>3. queues \in [QueueIds -> Seq(Int)] /\ notifying \subseteq QueueIds
  BY DEF TypeOK
<1>4. QED
  BY <1>1, <1>2, <1>3 DEF Take

\* Who is in pop, by queue.
LEMMA InPopOf ==
  /\ \A s \in Sky : InPop(GenToSky(s)) => sky[s].pc = "pop"
  /\ \A s \in Sky : InPop(SkyToConn(s)) => conn.pc = "pop" /\ conn.j = s
  /\ \A r \in Rest : InPop(ConnToRest(r)) => rest[r].pc = "pop"
  /\ \A r \in Rest : InPop(RestToColl(r)) => coll.pc = "pop" /\ coll.j = r
  /\ InPop(CollToGen) => gen.pc = "pop"
BY Ids DEF InPop

SkyRecord == [pc : {"pop", "scan", "push", "done"}, i : Tick, extracted : Tick \cup {EOS}]
RestRecord == [pc : {"pop", "scan", "move", "write", "push", "done"}, i : Tick,
               extracted : Pointers, insert : Nat, todo : SUBSET Node, list : Sky,
               seen : SUBSET Node]

\* The types, and the numbers the messages are made of.
LEMMA Types ==
  ASSUME TypeOK
  PROVE  /\ gen.i \in 0..N /\ gen.j \in Sky /\ Item \in Int /\ Passed \in Int
         /\ \A s \in Sky : Answer(s) \in Int
         /\ gen \in [pc : {"generate", "push", "pop", "done"}, i : Tick, j : Sky,
                     out : Tick \cup {EOS}]
         /\ sky \in [Sky -> SkyRecord]
         /\ conn \in [pc : {"pop", "push", "done"}, j : Sky \cup Rest, extracted : Pointers,
                      found : Found]
         /\ rest \in [Rest -> RestRecord]
         /\ coll \in [pc : {"pop", "insert", "push", "done"}, i : Tick, j : Rest,
                      extracted : Pointers, found : Found]
         /\ queues \in [QueueIds -> Seq(Int)] /\ notifying \subseteq QueueIds
         /\ 0 \in Sky /\ 0 \in Rest /\ NW_sky - 1 \in Sky
         /\ Passed \in Pointers /\ Item \in Tick \cup {EOS}
         /\ (Item = EOS) <=> ~TupleRound
         /\ (Passed = EOS) <=> ~TupleRound
         /\ TupleRound => Item = gen.i /\ Passed = NW_sky - 1
<1>1. gen.i \in 0..N /\ gen.j \in Sky /\ N \in Nat
  BY ParametersAssumption DEF TypeOK, Tick
<1>2. 0 \in Sky /\ 0 \in Rest /\ NW_sky - 1 \in Sky /\ NW_sky - 1 \in Nat
  BY ParametersAssumption DEF Sky, Rest
<1>3. \A s \in Sky : s \in Int
  BY ParametersAssumption DEF Sky
<1>4. /\ Item \in Int /\ Passed \in Int /\ \A s \in Sky : Answer(s) \in Int
      /\ Passed \in Pointers /\ Item \in Tick \cup {EOS}
      /\ (Item = EOS) <=> ~TupleRound
      /\ (Passed = EOS) <=> ~TupleRound
      /\ TupleRound => Item = gen.i /\ Passed = NW_sky - 1
  BY <1>1, <1>2, <1>3 DEF Item, Passed, Answer, EOS, Tick, TupleRound, Pointers
<1>5. QED
  BY <1>1, <1>2, <1>4 DEF TypeOK, SkyRecord, RestRecord

----------------------------------------------------------------------------
(* What a step leaves alone.                                               *)

\* In the same round the messages are the same.
LEMMA SameRound ==
  ASSUME gen'.i = gen.i
  PROVE  /\ TupleRound' <=> TupleRound
         /\ Item' = Item /\ Passed' = Passed /\ \A s : Answer(s)' = Answer(s)
BY DEF TupleRound, Item, Passed, Answer

\* A sky worker nothing happens to.
LEMMA SkyFrame ==
  ASSUME NEW s \in Sky, SkyInv(s), gen'.i = gen.i, sky'[s] = sky[s],
         Pushed(s)' <=> Pushed(s), Taken(s)' <=> Taken(s),
         queues'[GenToSky(s)] = queues[GenToSky(s)],
         queues'[SkyToConn(s)] = queues[SkyToConn(s)]
  PROVE  SkyInv(s)'
<1>1. /\ SkyIdle(s)' <=> SkyIdle(s)
      /\ SkyBusy(s)' <=> SkyBusy(s)
      /\ SkyDone(s)' <=> SkyDone(s)
  BY SameRound DEF SkyIdle, SkyBusy, SkyDone
<1>2. QED
  BY <1>1, SameRound DEF SkyInv, Holds

\* A rest worker nothing happens to.
LEMMA RestFrame ==
  ASSUME NEW r \in Rest, RestInv(r), gen'.i = gen.i, rest'[r] = rest[r],
         Sent(r)' <=> Sent(r), Collected(r)' <=> Collected(r),
         queues'[ConnToRest(r)] = queues[ConnToRest(r)],
         queues'[RestToColl(r)] = queues[RestToColl(r)]
  PROVE  RestInv(r)'
<1>1. /\ RestIdle(r)' <=> RestIdle(r)
      /\ RestBusy(r)' <=> RestBusy(r)
      /\ RestDone(r)' <=> RestDone(r)
  BY SameRound DEF RestIdle, RestBusy, RestDone
<1>2. QED
  BY <1>1, SameRound DEF RestInv, Holds

\* The connector, when nothing happens to it.
LEMMA ConnectorFrame ==
  ASSUME ConnectorInv, gen'.i = gen.i, conn' = conn
  PROVE  ConnectorInv'
BY SameRound DEF ConnectorInv

\* What hangs on the connector and on the first sky worker's answer.
LEMMA TakenFrame ==
  ASSUME gen'.i = gen.i, conn' = conn,
         SkyDone(0)' /\ queues'[SkyToConn(0)] = <<>> <=> SkyDone(0) /\ queues[SkyToConn(0)] = <<>>
  PROVE  /\ \A s : Taken(s)' <=> Taken(s)
         /\ \A r : Sent(r)' <=> Sent(r)
<1>1. ConnectorDone' <=> ConnectorDone
  BY SameRound DEF ConnectorDone
<1>2. QED
  BY <1>1, SameRound DEF Taken, Sent

\* The collector, when nothing happens to it.
LEMMA CollectorFrame ==
  ASSUME gen'.i = gen.i, coll' = coll
  PROVE  /\ \A r : Collected(r)' <=> Collected(r)
         /\ CollectorInv /\ queues'[CollToGen] = queues[CollToGen] => CollectorInv'
BY SameRound DEF Collected, Acknowledged, CollectorInv, Holds

\* The generator, when nothing happens to it.
LEMMA GeneratorFrame ==
  ASSUME gen' = gen
  PROVE  /\ \A s : Pushed(s)' <=> Pushed(s)
         /\ GeneratorInv => GeneratorInv'
         /\ StreamInv /\ stream' = stream => StreamInv'
BY SameRound DEF Pushed, GeneratorInv, StreamInv

\* The messages, when their tuples and the sky workers stay.
LEMMA MessageFrame ==
  ASSUME MessageInv, gen'.i = gen.i, sky' = sky,
         \A s \in Sky : message'[s].tuple = message[s].tuple
  PROVE  MessageInv'
BY SameRound DEF MessageInv, SkyDone

\* Upstream of the rest workers nothing happens.
LEMMA SkyStageFrame ==
  ASSUME OneToken, UNCHANGED <<gen, sky, conn>>,
         \A s \in Sky : /\ queues'[GenToSky(s)] = queues[GenToSky(s)]
                        /\ queues'[SkyToConn(s)] = queues[SkyToConn(s)]
  PROVE  /\ \A s \in Sky : SkyInv(s)'
         /\ \A r : Sent(r)' <=> Sent(r)
         /\ GeneratorInv' /\ ConnectorInv'
         /\ stream' = stream => StreamInv'
<1>1. 0 \in Sky
  BY ParametersAssumption DEF Sky
<1>2. SkyDone(0)' /\ queues'[SkyToConn(0)] = <<>> <=> SkyDone(0) /\ queues[SkyToConn(0)] = <<>>
  BY <1>1, SameRound DEF SkyDone
<1>3. /\ \A s : Taken(s)' <=> Taken(s)
      /\ \A r : Sent(r)' <=> Sent(r)
  BY <1>2, TakenFrame
<1>4. \A s : Pushed(s)' <=> Pushed(s)
  BY GeneratorFrame
<1>5. ASSUME NEW s \in Sky
      PROVE  SkyInv(s)'
  <2>1. SkyInv(s)
    BY DEF OneToken
  <2>2. QED
    BY <1>3, <1>4, <2>1, SkyFrame
<1>6. QED
  BY <1>3, <1>5, GeneratorFrame, ConnectorFrame DEF OneToken

\* Downstream of the connector nothing happens.
LEMMA RestStageFrame ==
  ASSUME OneToken, gen'.i = gen.i, UNCHANGED <<rest, coll>>,
         \A r \in Rest : /\ Sent(r)' <=> Sent(r)
                         /\ queues'[ConnToRest(r)] = queues[ConnToRest(r)]
                         /\ queues'[RestToColl(r)] = queues[RestToColl(r)],
         queues'[CollToGen] = queues[CollToGen]
  PROVE  (\A r \in Rest : RestInv(r)') /\ CollectorInv'
<1>1. ASSUME NEW r \in Rest
      PROVE  RestInv(r)'
  <2>1. RestInv(r)
    BY DEF OneToken
  <2>2. Collected(r)' <=> Collected(r)
    BY CollectorFrame
  <2>3. QED
    BY <2>1, <2>2, RestFrame
<1>2. QED
  BY <1>1, CollectorFrame DEF OneToken

----------------------------------------------------------------------------
(* What each step does to the queues.                                      *)

\* The worker has been sent the item, and its answer has not been taken.
LEMMA SkyPopEffect ==
  ASSUME TypeOK, OneToken, NEW w \in Sky, SkyPop(w)
  PROVE  /\ sky[w].pc = "pop" /\ Pushed(w) /\ SkyIdle(w) /\ ~SkyDone(w) /\ ~Taken(w)
         /\ queues[GenToSky(w)] = <<Item>> /\ queues[SkyToConn(w)] = <<>>
         /\ queues'[GenToSky(w)] = <<>>
         /\ \A y \in QueueIds : y # GenToSky(w) => queues'[y] = queues[y]
         /\ queues' \in [QueueIds -> Seq(Int)] /\ notifying' \subseteq QueueIds
         /\ sky' = [sky EXCEPT ![w].extracted = Item,
                               ![w].pc = IF Item = EOS THEN "push" ELSE "scan"]
         /\ UNCHANGED <<stream, gen, conn, rest, coll, message, skylines, rests, window,
                        windows, output, undefined, lost>>
<1>1. sky[w].pc = "pop" /\ queues[GenToSky(w)] # <<>>
  BY InPopOf DEF SkyPop, Take
<1>2. SkyInv(w)
  BY DEF OneToken
<1>3. Pushed(w) /\ SkyIdle(w) /\ queues[GenToSky(w)] = <<Item>>
  BY <1>1, <1>2 DEF SkyInv, Holds
<1>4. ~SkyDone(w) /\ ~Taken(w) /\ queues[SkyToConn(w)] = <<>>
  BY <1>2, <1>3, Types DEF SkyInv, Holds, SkyIdle, SkyDone
<1>5. /\ queues'[GenToSky(w)] = <<>>
      /\ \A y \in QueueIds : y # GenToSky(w) => queues'[y] = queues[y]
      /\ queues' \in [QueueIds -> Seq(Int)] /\ notifying' \subseteq QueueIds
      /\ back(queues[GenToSky(w)]) = Item
  <2>1. GenToSky(w) \in QueueIds /\ Take(GenToSky(w)) /\ Item \in Int
    BY Ids, Types DEF SkyPop
  <2>2. QED
    BY <1>3, <2>1, TakeEffect
<1>6. QED
  BY <1>1, <1>3, <1>4, <1>5 DEF SkyPop, heap, printed

\* The worker is busy: nothing is in its queues.
LEMMA SkyBusyFacts ==
  ASSUME TypeOK, OneToken, NEW w \in Sky, sky[w].pc \in {"scan", "push"}
  PROVE  /\ SkyBusy(w) /\ Pushed(w) /\ ~SkyIdle(w) /\ ~SkyDone(w) /\ ~Taken(w)
         /\ queues[GenToSky(w)] = <<>> /\ queues[SkyToConn(w)] = <<>>
<1>1. SkyInv(w)
  BY DEF OneToken
<1>2. ~SkyIdle(w) /\ ~SkyDone(w)
  BY DEF SkyIdle, SkyDone
<1>3. QED
  BY <1>1, <1>2 DEF SkyInv, Holds

LEMMA SkyPushEffect ==
  ASSUME TypeOK, OneToken, NEW w \in Sky, SkyPush(w)
  PROVE  /\ SkyBusy(w) /\ Pushed(w) /\ ~SkyIdle(w) /\ ~SkyDone(w) /\ ~Taken(w)
         /\ queues[GenToSky(w)] = <<>> /\ queues[SkyToConn(w)] = <<>>
         /\ queues'[SkyToConn(w)] = <<Answer(w)>>
         /\ \A y \in QueueIds : y # SkyToConn(w) => queues'[y] = queues[y]
         /\ queues' \in [QueueIds -> Seq(Int)] /\ notifying' \subseteq QueueIds
         /\ sky[w].pc = "push"
         /\ sky' = IF TupleRound THEN [sky EXCEPT ![w].pc = "pop", ![w].i = @ + 1]
                   ELSE [sky EXCEPT ![w].pc = "done"]
         /\ UNCHANGED <<stream, gen, conn, rest, coll, message, skylines, rests, window,
                        windows, output, undefined, lost>>
<1>1. /\ SkyBusy(w) /\ Pushed(w) /\ ~SkyIdle(w) /\ ~SkyDone(w) /\ ~Taken(w)
      /\ queues[GenToSky(w)] = <<>> /\ queues[SkyToConn(w)] = <<>>
      /\ sky[w].pc = "push"
  BY SkyBusyFacts DEF SkyPush
<1>2. (sky[w].extracted = EOS) <=> ~TupleRound
  BY <1>1, Types DEF SkyBusy
<1>3. Send(SkyToConn(w), Answer(w))
  BY <1>2 DEF SkyPush, Answer
<1>4. /\ queues'[SkyToConn(w)] = <<Answer(w)>>
      /\ \A y \in QueueIds : y # SkyToConn(w) => queues'[y] = queues[y]
      /\ queues' \in [QueueIds -> Seq(Int)] /\ notifying' \subseteq QueueIds
  BY <1>1, <1>3, Types, Ids, SendEffect
<1>5. QED
  BY <1>1, <1>2, <1>4 DEF SkyPush, heap, printed

----------------------------------------------------------------------------
(* Each step passes the token on.                                          *)

\* A step of a sky worker that the item has been sent to, and that has not
\* answered.
LEMMA SkyWorkerStep ==
  ASSUME TypeOK, OneToken, NEW w \in Sky,
         UNCHANGED <<gen, conn, rest, coll, stream>>,
         \A s \in Sky : s # w => sky'[s] = sky[s] /\ message'[s] = message[s],
         \A x \in QueueIds : x # GenToSky(w) /\ x # SkyToConn(w) => queues'[x] = queues[x],
         Pushed(w), ~Taken(w), ~SkyDone(w),
         SkyBusy(w)' \/ SkyDone(w)',
         queues'[GenToSky(w)] = <<>>,
         queues'[SkyToConn(w)] = IF SkyDone(w)' THEN <<Answer(w)>> ELSE <<>>,
         TupleRound /\ (sky'[w].pc = "push" \/ SkyDone(w)') => message'[w].tuple = gen.i
  PROVE  OneToken'
<1>1. SkyDone(0)' /\ queues'[SkyToConn(0)] = <<>> <=> SkyDone(0) /\ queues[SkyToConn(0)] = <<>>
  <2>1. CASE w = 0
    <3>1. SkyDone(0)' => queues'[SkyToConn(0)] = <<Answer(0)>>
      BY <2>1 DEF SkyDone
    <3>2. ~SkyDone(0) /\ <<Answer(0)>> # <<>>
      BY <2>1
    <3>3. QED
      BY <3>1, <3>2
  <2>2. CASE w # 0
    <3>1. 0 \in Sky /\ sky'[0] = sky[0]
      BY <2>2, Types
    <3>2. queues'[SkyToConn(0)] = queues[SkyToConn(0)]
      BY <2>2, <3>1, Ids
    <3>3. SkyDone(0)' <=> SkyDone(0)
      BY <3>1, SameRound DEF SkyDone
    <3>4. QED
      BY <3>2, <3>3
  <2>3. QED
    BY <2>1, <2>2
<1>2. /\ \A s : Taken(s)' <=> Taken(s)
      /\ \A r : Sent(r)' <=> Sent(r)
  BY <1>1, TakenFrame
<1>3. \A s : Pushed(s)' <=> Pushed(s)
  BY GeneratorFrame
<1>4. ASSUME NEW s \in Sky
      PROVE  SkyInv(s)'
  <2>1. CASE s = w
    <3>1. ~SkyIdle(w)'
      BY Types DEF SkyIdle, SkyBusy, SkyDone
    <3>2. QED
      BY <2>1, <1>2, <1>3, <3>1, SameRound DEF SkyInv, Holds
  <2>2. CASE s # w
    <3>1. SkyInv(s)
      BY DEF OneToken
    <3>2. QED
      BY <2>2, <3>1, <1>2, <1>3, Ids, SkyFrame
  <2>3. QED
    BY <2>1, <2>2
<1>5. (\A r \in Rest : RestInv(r)') /\ CollectorInv'
  <2>1. /\ \A r \in Rest : /\ queues'[ConnToRest(r)] = queues[ConnToRest(r)]
                           /\ queues'[RestToColl(r)] = queues[RestToColl(r)]
        /\ queues'[CollToGen] = queues[CollToGen]
    BY Ids
  <2>2. QED
    BY <1>2, <2>1, RestStageFrame
<1>6. GeneratorInv' /\ StreamInv' /\ ConnectorInv'
  BY GeneratorFrame, ConnectorFrame DEF OneToken
<1>7. MessageInv'
  <2> SUFFICES ASSUME TupleRound', NEW s \in Sky, (sky[s].pc = "push" \/ SkyDone(s))'
               PROVE  message'[s].tuple = gen'.i
    BY DEF MessageInv
  <2>1. CASE s = w
    BY <2>1, SameRound
  <2>2. CASE s # w
    <3>1. sky[s].pc = "push" \/ SkyDone(s)
      BY <2>2, SameRound DEF SkyDone
    <3>2. QED
      BY <2>2, <3>1, SameRound DEF OneToken, MessageInv
  <2>3. QED
    BY <2>1, <2>2
<1>8. QED
  BY <1>4, <1>5, <1>6, <1>7 DEF OneToken

LEMMA SkyPopToken ==
  ASSUME TypeOK, OneToken, NEW w \in Sky, SkyPop(w)
  PROVE  OneToken'
<1>1. /\ sky'[w].pc = (IF TupleRound THEN "scan" ELSE "push")
      /\ sky'[w].i = gen.i /\ sky'[w].extracted = Item
      /\ \A s \in Sky : s # w => sky'[s] = sky[s]
  <2>1. sky'[w] = [sky[w] EXCEPT !.extracted = Item, !.pc = IF Item = EOS THEN "push" ELSE "scan"]
    BY SkyPopEffect, Types
  <2>2. sky[w] \in SkyRecord
    BY Types
  <2>3. QED
    <3>1. sky[w].i = gen.i /\ (Item = EOS <=> ~TupleRound)
      BY SkyPopEffect, Types DEF SkyIdle
    <3>2. \A s \in Sky : s # w => sky'[s] = sky[s]
      BY SkyPopEffect, Types
    <3>3. QED
      BY <2>1, <2>2, <3>1, <3>2 DEF SkyRecord
<1>2. SkyBusy(w)' /\ ~SkyDone(w)' /\ ~(TupleRound /\ sky'[w].pc = "push")
  BY <1>1, SkyPopEffect, SameRound DEF SkyBusy, SkyDone
<1>3. /\ queues'[GenToSky(w)] = <<>> /\ queues'[SkyToConn(w)] = <<>>
      /\ \A x \in QueueIds : x # GenToSky(w) /\ x # SkyToConn(w) => queues'[x] = queues[x]
  <2>1. /\ GenToSky(w) # SkyToConn(w)
        /\ GenToSky(w) \in QueueIds /\ SkyToConn(w) \in QueueIds
    BY Ids
  <2>2. QED
    BY <2>1, SkyPopEffect
<1>4. QED
  BY <1>1, <1>2, <1>3, SkyPopEffect, SkyWorkerStep

LEMMA SkyScanToken ==
  ASSUME TypeOK, OneToken, NEW w \in Sky, SkyScan(w)
  PROVE  OneToken'
<1> USE DEF SkyScan
<1>1. SkyBusy(w) /\ Pushed(w) /\ ~SkyDone(w) /\ ~Taken(w) /\ TupleRound
  BY SkyBusyFacts DEF SkyBusy
<1>2. /\ sky'[w].pc = "push" /\ sky'[w].i = gen.i /\ sky'[w].extracted = Item
      /\ \A s \in Sky : s # w => sky'[s] = sky[s]
  BY <1>1, Types DEF SkyBusy, SkyRecord
<1>3. SkyBusy(w)' /\ ~SkyDone(w)'
  BY <1>1, <1>2, SameRound DEF SkyBusy, SkyDone
<1>4. message'[w].tuple = gen.i /\ \A s \in Sky : s # w => message'[s] = message[s]
  BY <1>1, Types DEF SkyBusy, TypeOK
<1>5. queues' = queues /\ queues[GenToSky(w)] = <<>> /\ queues[SkyToConn(w)] = <<>>
  BY SkyBusyFacts
<1>6. QED
  BY <1>1, <1>2, <1>3, <1>4, <1>5, SkyWorkerStep

LEMMA SkyPushToken ==
  ASSUME TypeOK, OneToken, NEW w \in Sky, SkyPush(w)
  PROVE  OneToken'
<1>1. \A s \in Sky : s # w => sky'[s] = sky[s]
  BY SkyPushEffect, Types
<1>2. SkyDone(w)'
  <2>1. CASE TupleRound
    <3>1. sky'[w].pc = "pop" /\ sky'[w].i = gen.i + 1
      <4>1. sky[w] \in SkyRecord /\ sky[w].i = gen.i
        BY SkyPushEffect, Types DEF SkyBusy
      <4>2. sky'[w] = [sky[w] EXCEPT !.pc = "pop", !.i = @ + 1]
        BY <2>1, SkyPushEffect, Types
      <4>3. QED
        BY <4>1, <4>2 DEF SkyRecord
    <3>2. QED
      BY <2>1, <3>1, SkyPushEffect, SameRound DEF SkyDone
  <2>2. CASE ~TupleRound
    <3>1. sky'[w].pc = "done"
      BY <2>2, SkyPushEffect, Types DEF SkyRecord
    <3>2. QED
      BY <2>2, <3>1, SkyPushEffect, SameRound DEF SkyDone
  <2>3. QED
    BY <2>1, <2>2
<1>3. /\ queues'[GenToSky(w)] = <<>> /\ queues'[SkyToConn(w)] = <<Answer(w)>>
      /\ \A x \in QueueIds : x # GenToSky(w) /\ x # SkyToConn(w) => queues'[x] = queues[x]
  <2>1. /\ GenToSky(w) # SkyToConn(w)
        /\ GenToSky(w) \in QueueIds /\ SkyToConn(w) \in QueueIds
    BY Ids
  <2>2. QED
    BY <2>1, SkyPushEffect
<1>4. TupleRound => message'[w].tuple = gen.i
  BY SkyPushEffect DEF OneToken, MessageInv
<1>5. QED
  BY <1>1, <1>2, <1>3, <1>4, SkyPushEffect, SkyWorkerStep

\* Before the first push and after: nobody has been sent anything yet.
LEMMA NextRoundToken ==
  ASSUME TypeOK, OneToken, GenerateTuple \/ EndOfStream
  PROVE  OneToken'
<1>1. /\ gen.pc = "generate" /\ gen'.pc = "push" /\ gen'.i = gen.i /\ gen'.j = 0
      /\ gen'.out = Item
      /\ UNCHANGED <<sky, conn, rest, coll, message, queues>>
  BY Types DEF GenerateTuple, EndOfStream, MoreTuples, Item, TupleRound, heap
<1>2. \A s \in Sky : Pushed(s)' <=> Pushed(s)
  <2> TAKE s \in Sky
  <2>1. ~(s < 0)
    BY ParametersAssumption DEF Sky
  <2>2. QED
    BY <1>1, <2>1 DEF Pushed
<1>3. SkyDone(0)' <=> SkyDone(0)
  BY <1>1, SameRound DEF SkyDone
<1>4. /\ \A s : Taken(s)' <=> Taken(s)
      /\ \A r : Sent(r)' <=> Sent(r)
  BY <1>1, <1>3, TakenFrame
<1>5. ASSUME NEW s \in Sky
      PROVE  SkyInv(s)'
  <2>1. SkyInv(s)
    BY DEF OneToken
  <2>2. QED
    BY <1>1, <1>2, <1>4, <2>1, SkyFrame
<1>6. (\A r \in Rest : RestInv(r)') /\ CollectorInv'
  BY <1>1, <1>4, RestStageFrame
<1>7. GeneratorInv' /\ ConnectorInv' /\ MessageInv'
  BY <1>1, SameRound, ConnectorFrame, MessageFrame DEF OneToken, GeneratorInv
<1>8. StreamInv'
  <2>1. Len(stream) = gen.i
    BY <1>1 DEF OneToken, StreamInv
  <2>2. CASE GenerateTuple
    <3>1. Len(stream') = gen.i + 1 /\ TupleRound
      BY <2>1, <2>2 DEF GenerateTuple, TypeOK, MoreTuples, TupleRound
    <3>2. QED
      BY <1>1, <3>1, SameRound DEF StreamInv
  <2>3. CASE EndOfStream
    <3>1. stream' = stream /\ ~TupleRound
      BY <2>3 DEF EndOfStream, MoreTuples, TupleRound, heap
    <3>2. QED
      BY <1>1, <2>1, <3>1, SameRound DEF StreamInv
  <2>4. QED
    BY <2>2, <2>3
<1>9. QED
  BY <1>5, <1>6, <1>7, <1>8 DEF OneToken

LEMMA GeneratorPushEffect ==
  ASSUME TypeOK, OneToken, GeneratorPush
  PROVE  /\ gen.pc = "push" /\ ~Pushed(gen.j) /\ SkyIdle(gen.j)
         /\ queues[GenToSky(gen.j)] = <<>>
         /\ queues'[GenToSky(gen.j)] = <<Item>>
         /\ \A y \in QueueIds : y # GenToSky(gen.j) => queues'[y] = queues[y]
         /\ queues' \in [QueueIds -> Seq(Int)] /\ notifying' \subseteq QueueIds
         /\ gen.out = Item
         /\ gen' = IF gen.j + 1 < NW_sky THEN [gen EXCEPT !.j = @ + 1]
                   ELSE [gen EXCEPT !.pc = IF TupleRound THEN "pop" ELSE "done"]
         /\ UNCHANGED <<stream, sky, conn, rest, coll, message, skylines, rests, window,
                        windows, output, undefined, lost>>
<1>1. gen.pc = "push" /\ gen.out = Item /\ gen.j \in Sky
  BY Types DEF GeneratorPush, OneToken, GeneratorInv
<1>2. SkyInv(gen.j) /\ ~Pushed(gen.j)
  BY <1>1, ParametersAssumption DEF OneToken, Pushed, Sky
<1>3. SkyIdle(gen.j) /\ queues[GenToSky(gen.j)] = <<>>
  BY <1>2 DEF SkyInv, Holds
<1>4. GenToSky(gen.j) \in QueueIds /\ Send(GenToSky(gen.j), Item) /\ Item \in Int
  BY <1>1, Ids, Types DEF GeneratorPush
<1>5. /\ queues'[GenToSky(gen.j)] = <<Item>>
      /\ \A y \in QueueIds : y # GenToSky(gen.j) => queues'[y] = queues[y]
      /\ queues' \in [QueueIds -> Seq(Int)] /\ notifying' \subseteq QueueIds
  BY <1>3, <1>4, SendEffect
<1>6. AfterPushes = IF TupleRound THEN "pop" ELSE "done"
  BY <1>1, Types DEF AfterPushes
<1>7. gen' = IF gen.j + 1 < NW_sky THEN [gen EXCEPT !.j = @ + 1]
             ELSE [gen EXCEPT !.pc = IF TupleRound THEN "pop" ELSE "done"]
  BY <1>6, Types DEF GeneratorPush
<1>8. QED
  BY <1>1, <1>2, <1>3, <1>5, <1>7 DEF GeneratorPush, heap, printed

LEMMA GeneratorPushToken ==
  ASSUME TypeOK, OneToken, GeneratorPush
  PROVE  OneToken'
<1>1. /\ gen.pc = "push" /\ gen'.i = gen.i /\ gen'.out = gen.out /\ gen.j \in Sky
      /\ \/ gen'.pc = "push" /\ gen'.j = gen.j + 1
         \/ gen'.pc = (IF TupleRound THEN "pop" ELSE "done") /\ gen.j + 1 >= NW_sky
  <2>1. /\ gen \in [pc : {"generate", "push", "pop", "done"}, i : Tick, j : Sky,
                    out : Tick \cup {EOS}]
        /\ gen.j \in Int /\ gen.pc = "push"
    BY GeneratorPushEffect, Types, ParametersAssumption DEF Sky
  <2>2. CASE gen.j + 1 < NW_sky
    <3>1. gen' = [gen EXCEPT !.j = @ + 1]
      BY <2>2, GeneratorPushEffect
    <3>2. QED
      BY <2>1, <3>1
  <2>3. CASE ~(gen.j + 1 < NW_sky)
    <3>1. gen' = [gen EXCEPT !.pc = IF TupleRound THEN "pop" ELSE "done"]
      BY <2>3, GeneratorPushEffect
    <3>2. gen.j + 1 >= NW_sky
      BY <2>1, <2>3, ParametersAssumption
    <3>3. QED
      BY <2>1, <3>1, <3>2
  <2>4. QED
    BY <2>2, <2>3
<1>2. \A s \in Sky : Pushed(s)' <=> Pushed(s) \/ s = gen.j
  BY <1>1, ParametersAssumption DEF Pushed, Sky
<1>3. queues'[SkyToConn(0)] = queues[SkyToConn(0)]
  BY GeneratorPushEffect, Ids, Types
<1>4. SkyDone(0)' <=> SkyDone(0)
  BY <1>1, GeneratorPushEffect, SameRound DEF SkyDone
<1>5. /\ \A s : Taken(s)' <=> Taken(s)
      /\ \A r : Sent(r)' <=> Sent(r)
  BY <1>1, <1>3, <1>4, GeneratorPushEffect, TakenFrame
<1>6. ASSUME NEW s \in Sky
      PROVE  SkyInv(s)'
  <2>1. SkyInv(s) /\ queues'[SkyToConn(s)] = queues[SkyToConn(s)] /\ sky'[s] = sky[s]
    BY GeneratorPushEffect, Ids DEF OneToken
  <2>2. CASE s = gen.j
    <3>1. queues'[GenToSky(s)] = <<Item>> /\ SkyIdle(s) /\ Pushed(s)'
      BY <2>2, <1>2, GeneratorPushEffect
    <3>2. /\ SkyIdle(s)' <=> SkyIdle(s)
          /\ SkyDone(s)' <=> SkyDone(s)
      BY <1>1, <2>1, SameRound DEF SkyIdle, SkyDone
    <3>3. QED
      BY <1>1, <1>5, <2>1, <3>1, <3>2, SameRound DEF SkyInv, Holds
  <2>3. CASE s # gen.j
    <3>1. queues'[GenToSky(s)] = queues[GenToSky(s)]
      BY <2>3, GeneratorPushEffect, Ids
    <3>2. QED
      BY <1>1, <1>2, <1>5, <2>1, <2>3, <3>1, SkyFrame
  <2>4. QED
    BY <2>2, <2>3
<1>7. (\A r \in Rest : RestInv(r)') /\ CollectorInv'
  <2>1. /\ \A r \in Rest : /\ queues'[ConnToRest(r)] = queues[ConnToRest(r)]
                           /\ queues'[RestToColl(r)] = queues[RestToColl(r)]
        /\ queues'[CollToGen] = queues[CollToGen]
    BY GeneratorPushEffect, Ids
  <2>2. QED
    BY <1>1, <1>5, <2>1, GeneratorPushEffect, RestStageFrame
<1>8. ConnectorInv' /\ MessageInv'
  BY <1>1, GeneratorPushEffect, ConnectorFrame, MessageFrame DEF OneToken
<1>9. GeneratorInv' /\ StreamInv'
  BY <1>1, GeneratorPushEffect, Types, SameRound DEF OneToken, GeneratorInv, StreamInv
<1>10. QED
  BY <1>6, <1>7, <1>8, <1>9 DEF OneToken

\* The generator takes the acknowledgement when everyone is done with the round,
\* and has nothing left in its queue.
LEMMA RoundComplete ==
  ASSUME TypeOK, OneToken, gen.pc = "pop", queues[CollToGen] # <<>>
  PROVE  /\ TupleRound /\ queues[CollToGen] = <<1>>
         /\ coll.pc = "pop" /\ coll.j = 0 /\ coll.i = gen.i + 1
         /\ conn.pc = "pop" /\ conn.j = 0
         /\ \A s \in Sky : /\ SkyDone(s)
                           /\ queues[GenToSky(s)] = <<>> /\ queues[SkyToConn(s)] = <<>>
         /\ \A r \in Rest : /\ RestDone(r)
                            /\ queues[ConnToRest(r)] = <<>> /\ queues[RestToColl(r)] = <<>>
<1>1. /\ TupleRound /\ queues[CollToGen] = <<1>> /\ Acknowledged
      /\ coll.pc = "pop" /\ coll.j = 0 /\ coll.i = gen.i + 1
  <2>1. Acknowledged /\ queues[CollToGen] = <<1>>
    BY DEF OneToken, CollectorInv, Holds
  <2>2. coll.i # gen.i
    BY <2>1, Types DEF Acknowledged
  <2>3. QED
    BY <2>1, <2>2, Types DEF OneToken, CollectorInv, Acknowledged
<1>2. ASSUME NEW r \in Rest
      PROVE  RestDone(r) /\ queues[ConnToRest(r)] = <<>> /\ queues[RestToColl(r)] = <<>> /\ Sent(r)
  <2>1. RestInv(r) /\ Collected(r)
    BY <1>1 DEF OneToken, Collected
  <2>2. RestDone(r) /\ ~RestIdle(r)
    BY <1>1, <2>1, Types DEF RestInv, RestDone, RestIdle
  <2>3. QED
    BY <2>1, <2>2 DEF RestInv, Holds
<1>3. conn.pc = "pop" /\ conn.j = 0 /\ ConnectorDone
  <2>1. ConnectorDone
    <3>1. CASE conn.pc = "push"
      <4>1. conn.j \in Rest /\ ~(conn.j < conn.j)
        BY <3>1, ParametersAssumption DEF OneToken, ConnectorInv, Rest
      <4>2. QED
        BY <1>2, <4>1 DEF Sent
    <3>2. CASE conn.pc # "push"
      BY <1>2, <3>2, Types DEF Sent
    <3>3. QED
      BY <3>1, <3>2
  <2>2. QED
    BY <1>1, <2>1 DEF ConnectorDone
<1>4. ASSUME NEW s \in Sky
      PROVE  SkyDone(s) /\ queues[GenToSky(s)] = <<>> /\ queues[SkyToConn(s)] = <<>>
  <2>1. SkyInv(s) /\ Taken(s)
    BY <1>1, <1>3 DEF OneToken, Taken
  <2>2. SkyDone(s) /\ ~SkyIdle(s)
    BY <1>1, <2>1, Types DEF SkyInv, SkyDone, SkyIdle
  <2>3. QED
    BY <2>1, <2>2 DEF SkyInv, Holds
<1>5. QED
  BY <1>1, <1>2, <1>3, <1>4

LEMMA GeneratorPopEffect ==
  ASSUME TypeOK, OneToken, GeneratorPop
  PROVE  /\ gen.pc = "pop" /\ queues[CollToGen] # <<>>
         /\ queues'[CollToGen] = <<>>
         /\ \A y \in QueueIds : y # CollToGen => queues'[y] = queues[y]
         /\ queues' \in [QueueIds -> Seq(Int)] /\ notifying' \subseteq QueueIds
         /\ gen'.pc = "generate" /\ gen'.i = gen.i + 1
         /\ gen' = [gen EXCEPT !.pc = "generate", !.i = @ + 1]
         /\ UNCHANGED <<stream, sky, conn, rest, coll, message, skylines, rests, window,
                        windows, output, undefined, lost>>
<1>1. gen.pc = "pop" /\ queues[CollToGen] # <<>>
  BY InPopOf DEF GeneratorPop, Take
<1>2. queues[CollToGen] = <<1>> /\ CollToGen \in QueueIds /\ Take(CollToGen)
  BY <1>1, RoundComplete, Ids DEF GeneratorPop
<1>3. /\ queues'[CollToGen] = <<>>
      /\ \A y \in QueueIds : y # CollToGen => queues'[y] = queues[y]
      /\ queues' \in [QueueIds -> Seq(Int)] /\ notifying' \subseteq QueueIds
  BY <1>2, TakeEffect
<1>4. gen'.pc = "generate" /\ gen'.i = gen.i + 1
  BY Types DEF GeneratorPop
<1>5. QED
  BY <1>1, <1>3, <1>4 DEF GeneratorPop, heap, printed

\* The next round begins with everyone idle.
LEMMA GeneratorPopToken ==
  ASSUME TypeOK, OneToken, GeneratorPop
  PROVE  OneToken'
<1>1. /\ TupleRound /\ coll.pc = "pop" /\ coll.j = 0 /\ coll.i = gen.i + 1
      /\ conn.pc = "pop" /\ conn.j = 0
  BY GeneratorPopEffect, RoundComplete
<1>2. /\ gen'.pc = "generate" /\ gen'.i = gen.i + 1
      /\ UNCHANGED <<stream, sky, conn, rest, coll, message>>
  BY GeneratorPopEffect
<1>3. gen.i \in Int /\ gen.i + 1 # gen.i + 1 + 1
  BY Types
<1>4. ASSUME NEW s \in Sky
      PROVE  /\ ~Pushed(s)' /\ SkyIdle(s)' /\ ~SkyDone(s)'
             /\ queues'[GenToSky(s)] = <<>> /\ queues'[SkyToConn(s)] = <<>>
  <2>1. SkyDone(s) /\ queues[GenToSky(s)] = <<>> /\ queues[SkyToConn(s)] = <<>>
    BY GeneratorPopEffect, RoundComplete
  <2>2. sky[s].pc = "pop" /\ sky[s].i = gen.i + 1
    BY <1>1, <2>1 DEF SkyDone
  <2>3. SkyIdle(s)' /\ ~SkyDone(s)'
    BY <1>2, <1>3, <2>2 DEF SkyIdle, SkyDone
  <2>4. QED
    BY <1>2, <2>1, <2>3, GeneratorPopEffect, Ids DEF Pushed
<1>5. ~ConnectorDone' /\ \A r : ~Sent(r)'
  BY <1>1, <1>2, <1>4, Types DEF ConnectorDone, Sent
<1>6. ASSUME NEW s \in Sky
      PROVE  SkyInv(s)'
  <2>1. ~(s < 0)
    BY ParametersAssumption DEF Sky
  <2>2. ~Taken(s)'
    BY <1>1, <1>2, <1>5, <2>1 DEF Taken
  <2>3. QED
    BY <1>4, <2>2 DEF SkyInv, Holds
<1>7. ASSUME NEW r \in Rest
      PROVE  RestInv(r)'
  <2>1. RestDone(r) /\ queues[ConnToRest(r)] = <<>> /\ queues[RestToColl(r)] = <<>>
    BY GeneratorPopEffect, RoundComplete
  <2>2. queues'[ConnToRest(r)] = <<>> /\ queues'[RestToColl(r)] = <<>>
    BY <2>1, GeneratorPopEffect, Ids
  <2>3. rest[r].pc = "pop" /\ rest[r].i = gen.i + 1
    BY <1>1, <2>1 DEF RestDone
  <2>4. RestIdle(r)' /\ ~RestDone(r)'
    BY <1>2, <1>3, <2>3 DEF RestIdle, RestDone
  <2>5. ~(r < 0)
    BY ParametersAssumption DEF Rest
  <2>6. ~Collected(r)'
    BY <1>1, <1>2, <1>3, <2>5 DEF Collected, Acknowledged
  <2>7. QED
    BY <1>5, <2>2, <2>4, <2>6 DEF RestInv, Holds
<1>8. CollectorInv'
  BY <1>1, <1>2, <1>3, GeneratorPopEffect DEF CollectorInv, Acknowledged, Holds
<1>9. ConnectorInv' /\ GeneratorInv'
  BY <1>1, <1>2, Types DEF ConnectorInv, GeneratorInv
<1>10. MessageInv'
  BY <1>4 DEF MessageInv, SkyIdle
<1>11. StreamInv'
  BY <1>1, <1>2, GeneratorPopEffect DEF StreamInv, OneToken
<1>12. QED
  BY <1>6, <1>7, <1>8, <1>9, <1>10, <1>11 DEF OneToken

LEMMA ConnectorPopEffect ==
  ASSUME TypeOK, OneToken, ConnectorPop
  PROVE  /\ conn.pc = "pop" /\ conn.j \in Sky /\ SkyDone(conn.j) /\ ~Taken(conn.j)
         /\ queues'[SkyToConn(conn.j)] = <<>>
         /\ \A y \in QueueIds : y # SkyToConn(conn.j) => queues'[y] = queues[y]
         /\ queues' \in [QueueIds -> Seq(Int)] /\ notifying' \subseteq QueueIds
         /\ back(queues[SkyToConn(conn.j)]) = Answer(conn.j)
         /\ ~TupleRound => conn.j = 0
         /\ UNCHANGED <<stream, gen, sky, rest, coll, skylines, rests, window, windows,
                        output, undefined, lost>>
<1>1. conn.pc = "pop" /\ conn.j \in Sky /\ queues[SkyToConn(conn.j)] # <<>>
  BY DEF ConnectorPop, Take, OneToken, ConnectorInv
<1>2. SkyInv(conn.j)
  BY <1>1 DEF OneToken
<1>3. SkyDone(conn.j) /\ ~Taken(conn.j) /\ queues[SkyToConn(conn.j)] = <<Answer(conn.j)>>
  BY <1>1, <1>2 DEF SkyInv, Holds
<1>4. SkyToConn(conn.j) \in QueueIds /\ Take(SkyToConn(conn.j)) /\ Answer(conn.j) \in Int
  BY <1>1, Ids, Types DEF ConnectorPop
<1>5. /\ queues'[SkyToConn(conn.j)] = <<>>
      /\ \A y \in QueueIds : y # SkyToConn(conn.j) => queues'[y] = queues[y]
      /\ queues' \in [QueueIds -> Seq(Int)] /\ notifying' \subseteq QueueIds
      /\ back(queues[SkyToConn(conn.j)]) = Answer(conn.j)
  BY <1>3, <1>4, TakeEffect
<1>6. ~TupleRound => conn.j = 0
  BY <1>1, ParametersAssumption DEF OneToken, ConnectorInv, Sky
<1>7. QED
  BY <1>1, <1>3, <1>5, <1>6 DEF ConnectorPop, printed

\* Where the connector goes from there.
LEMMA ConnectorPopNext ==
  ASSUME TypeOK, OneToken, ConnectorPop
  PROVE  /\ conn'.extracted = Answer(conn.j)
         /\ \/ TupleRound /\ conn.j + 1 < NW_sky /\ conn'.pc = "pop" /\ conn'.j = conn.j + 1
            \/ TupleRound /\ conn.j + 1 = NW_sky /\ conn'.pc = "push" /\ conn'.j = 0
            \/ ~TupleRound /\ conn'.pc = "push" /\ conn'.j = 0
         /\ conn' \in [pc : {"pop", "push", "done"}, j : Sky \cup Rest, extracted : Pointers,
                       found : Found]
         /\ message' \in [Sky -> [tuple : Tick \cup {EOS}, sky : BOOLEAN, insert : Nat]]
         /\ \A s \in Sky : message'[s].tuple = message[s].tuple
<1> DEFINE p == Answer(conn.j)
           found == IF conn.j = 0 THEN Fresh(p) ELSE Merge(conn.found, conn.extracted)
<1>1. /\ conn.pc = "pop" /\ conn.j \in Sky /\ conn.j \in Int
      /\ ~TupleRound => conn.j = 0
      /\ 0 \in Sky /\ 0 \in Rest /\ p \in Pointers /\ (p = EOS <=> ~TupleRound)
      /\ TupleRound => p = conn.j
  <2>1. conn.j \in Int /\ conn.j >= 0
    BY ConnectorPopEffect, ParametersAssumption DEF Sky
  <2>2. QED
    BY <2>1, ConnectorPopEffect, Types DEF Answer, EOS, Pointers
<1>2. /\ conn \in [pc : {"pop", "push", "done"}, j : Sky \cup Rest, extracted : Pointers,
                   found : Found]
      /\ message \in [Sky -> [tuple : Tick \cup {EOS}, sky : BOOLEAN, insert : Nat]]
  BY DEF TypeOK
<1>3. p # EOS => found \in Found
  <2>1. ASSUME p # EOS, conn.j = 0
        PROVE  Fresh(p) \in Found
    <3>1. p \in Sky
      BY <1>1, <2>1
    <3>2. message[p] \in [tuple : Tick \cup {EOS}, sky : BOOLEAN, insert : Nat]
      BY <1>2, <3>1
    <3>3. QED
      BY <3>2 DEF Fresh, Found
  <2>2. ASSUME p # EOS, conn.j # 0
        PROVE  Merge(conn.found, conn.extracted) \in Found
    <3>1. conn.extracted \in Sky
      BY <1>1, <2>2, ParametersAssumption DEF OneToken, ConnectorInv, Sky
    <3>2. message[conn.extracted] \in [tuple : Tick \cup {EOS}, sky : BOOLEAN, insert : Nat]
      BY <1>2, <3>1
    <3>3. conn.found \in [sky : BOOLEAN, insert : Nat]
      BY <1>2 DEF Found
    <3>4. (conn.found.sky /\ message[conn.extracted].sky) \in BOOLEAN
      OBVIOUS
    <3>5. QED
      BY <3>2, <3>3, <3>4 DEF Merge, Found
  <2>3. QED
    BY <2>1, <2>2
<1> HIDE DEF found, p
<1>4. /\ \/ /\ conn.j = 0 /\ p = EOS
            /\ conn' = [conn EXCEPT !.pc = "push", !.extracted = EOS]
            /\ UNCHANGED message
         \/ /\ ~(conn.j = 0 /\ p = EOS) /\ conn.j + 1 < NW_sky
            /\ conn' = [conn EXCEPT !.j = @ + 1, !.extracted = p, !.found = found]
            /\ UNCHANGED message
         \/ /\ ~(conn.j = 0 /\ p = EOS) /\ conn.j + 1 = NW_sky
            /\ conn' = [conn EXCEPT !.pc = "push", !.j = 0, !.extracted = p, !.found = found]
            /\ message' = [message EXCEPT ![p].sky = found.sky, ![p].insert = found.insert]
  BY ConnectorPopEffect DEF ConnectorPop, p, found
<1>5. CASE conn.j = 0 /\ p = EOS
  <2>1. conn' = [conn EXCEPT !.pc = "push", !.extracted = EOS] /\ message' = message
    BY <1>4, <1>5
  <2>2. QED
    BY <1>1, <1>2, <1>5, <2>1 DEF p, Pointers
<1>6. CASE ~(conn.j = 0 /\ p = EOS) /\ conn.j + 1 < NW_sky
  <2>1. /\ conn' = [conn EXCEPT !.j = @ + 1, !.extracted = p, !.found = found]
        /\ message' = message
    BY <1>1, <1>4, <1>6
  <2>2. TupleRound /\ conn.j + 1 \in Sky
    BY <1>1, <1>6, ParametersAssumption DEF Sky
  <2>3. QED
    BY <1>1, <1>2, <1>3, <1>6, <2>1, <2>2 DEF p
<1>7. CASE ~(conn.j = 0 /\ p = EOS) /\ conn.j + 1 = NW_sky
  <2>1. /\ conn' = [conn EXCEPT !.pc = "push", !.j = 0, !.extracted = p, !.found = found]
        /\ message' = [message EXCEPT ![p].sky = found.sky, ![p].insert = found.insert]
    BY <1>1, <1>4, <1>7
  <2>2. TupleRound /\ p \in Sky /\ found \in Found
    BY <1>1, <1>3, <1>7
  <2>3. message' \in [Sky -> [tuple : Tick \cup {EOS}, sky : BOOLEAN, insert : Nat]]
    <3>1. message[p] \in [tuple : Tick \cup {EOS}, sky : BOOLEAN, insert : Nat]
      BY <1>2, <2>2
    <3>2. found.sky \in BOOLEAN /\ found.insert \in Nat
      BY <2>2, Zenon DEF Found
    <3>3. [message[p] EXCEPT !.sky = found.sky, !.insert = found.insert]
            \in [tuple : Tick \cup {EOS}, sky : BOOLEAN, insert : Nat]
      BY <3>1, <3>2
    <3>4. QED
      BY <1>2, <2>1, <2>2, <3>3
  <2>4. \A s \in Sky : message'[s].tuple = message[s].tuple
    BY <1>2, <2>1, <2>2
  <2>5. QED
    BY <1>1, <1>2, <1>7, <2>1, <2>2, <2>3, <2>4 DEF p
<1>8. QED
  BY <1>1, <1>4, <1>5, <1>6, <1>7

LEMMA ConnectorPopToken ==
  ASSUME TypeOK, OneToken, ConnectorPop
  PROVE  OneToken'
<1> DEFINE w == conn.j
<1>1. /\ conn.pc = "pop" /\ w \in Sky /\ w \in Int /\ SkyDone(w) /\ ~Taken(w)
      /\ gen'.i = gen.i /\ UNCHANGED <<stream, gen, sky, rest, coll>>
      /\ \A s \in Sky : s \in Int /\ 0 <= s /\ s < NW_sky
  BY ConnectorPopEffect, ParametersAssumption DEF Sky
<1>2. \/ TupleRound /\ w + 1 < NW_sky /\ conn'.pc = "pop" /\ conn'.j = w + 1
      \/ TupleRound /\ w + 1 = NW_sky /\ conn'.pc = "push" /\ conn'.j = 0
      \/ ~TupleRound /\ conn'.pc = "push" /\ conn'.j = 0
  BY ConnectorPopNext
<1>3. ~TupleRound => w = 0
  BY ConnectorPopEffect
<1>4. ~ConnectorDone /\ ~ConnectorDone'
  <2>1. ~ConnectorDone
    BY <1>1 DEF ConnectorDone, Taken
  <2>2. ~ConnectorDone'
    BY <1>1, <1>2, SameRound DEF ConnectorDone
  <2>3. QED
    BY <2>1, <2>2
<1>5. \A s \in Sky : Taken(s)' <=> Taken(s) \/ s = w
  <2> TAKE s \in Sky
  <2>1. CASE TupleRound
    BY <1>1, <1>2, <1>4, <2>1, SameRound DEF Taken
  <2>2. CASE ~TupleRound
    BY <1>1, <1>2, <1>3, <2>2, SameRound DEF Taken
  <2>3. QED
    BY <2>1, <2>2
<1>6. \A r \in Rest : Sent(r)' <=> Sent(r)
  <2> TAKE r \in Rest
  <2>1. ~(r < 0)
    BY ParametersAssumption DEF Rest
  <2>2. QED
    BY <1>1, <1>2, <1>4, <2>1 DEF Sent
<1>7. \A s : Pushed(s)' <=> Pushed(s)
  BY <1>1, GeneratorFrame
<1>8. ASSUME NEW s \in Sky
      PROVE  SkyInv(s)'
  <2>1. SkyInv(s) /\ queues'[GenToSky(s)] = queues[GenToSky(s)]
    BY ConnectorPopEffect, Ids DEF OneToken
  <2>2. CASE s = w
    <3>1. queues'[SkyToConn(s)] = <<>> /\ SkyDone(s) /\ Taken(s)'
      BY <2>2, <1>1, <1>5, ConnectorPopEffect
    <3>2. /\ SkyIdle(s)' <=> SkyIdle(s)
          /\ SkyDone(s)' <=> SkyDone(s)
      BY <1>1, SameRound DEF SkyIdle, SkyDone
    <3>3. QED
      BY <1>1, <1>7, <2>1, <3>1, <3>2, SameRound DEF SkyInv, Holds
  <2>3. CASE s # w
    <3>1. queues'[SkyToConn(s)] = queues[SkyToConn(s)]
      BY <2>3, ConnectorPopEffect, Ids
    <3>2. QED
      BY <1>1, <1>5, <1>7, <2>1, <2>3, <3>1, SkyFrame
  <2>4. QED
    BY <2>2, <2>3
<1>9. (\A r \in Rest : RestInv(r)') /\ CollectorInv'
  <2>1. /\ \A r \in Rest : /\ queues'[ConnToRest(r)] = queues[ConnToRest(r)]
                           /\ queues'[RestToColl(r)] = queues[RestToColl(r)]
        /\ queues'[CollToGen] = queues[CollToGen]
    BY ConnectorPopEffect, Ids
  <2>2. QED
    BY <1>1, <1>6, <2>1, RestStageFrame
<1>10. ConnectorInv'
  <2>1. conn'.extracted = Answer(w) /\ (TupleRound => Answer(w) = w)
    BY ConnectorPopNext DEF Answer
  <2>2. CASE TupleRound /\ w + 1 < NW_sky /\ conn'.pc = "pop" /\ conn'.j = w + 1
    <3>1. w + 1 \in Sky /\ (w + 1) - 1 = w
      BY <1>1, <2>2, ParametersAssumption DEF Sky
    <3>2. QED
      BY <1>1, <2>1, <2>2, <3>1, SameRound DEF ConnectorInv
  <2>3. CASE TupleRound /\ w + 1 = NW_sky /\ conn'.pc = "push" /\ conn'.j = 0
    <3>1. w = NW_sky - 1 /\ 0 \in Rest
      BY <1>1, <2>3, Types, ParametersAssumption
    <3>2. QED
      BY <1>1, <2>1, <2>3, <3>1, SameRound DEF ConnectorInv, Passed
  <2>4. CASE ~TupleRound /\ conn'.pc = "push" /\ conn'.j = 0
    <3>1. 0 \in Rest
      BY Types
    <3>2. QED
      BY <1>1, <2>1, <2>4, <3>1, SameRound DEF ConnectorInv, Passed, Answer
  <2>5. QED
    BY <1>2, <2>2, <2>3, <2>4
<1>11. GeneratorInv' /\ StreamInv' /\ MessageInv'
  BY <1>1, ConnectorPopNext, GeneratorFrame, MessageFrame DEF OneToken
<1>12. QED
  BY <1>8, <1>9, <1>10, <1>11 DEF OneToken

LEMMA ConnectorPushEffect ==
  ASSUME TypeOK, OneToken, ConnectorPush
  PROVE  /\ conn.pc = "push" /\ conn.j \in Rest /\ conn.extracted = Passed
         /\ ~Sent(conn.j) /\ RestIdle(conn.j)
         /\ queues[ConnToRest(conn.j)] = <<>>
         /\ queues'[ConnToRest(conn.j)] = <<Passed>>
         /\ \A y \in QueueIds : y # ConnToRest(conn.j) => queues'[y] = queues[y]
         /\ queues' \in [QueueIds -> Seq(Int)] /\ notifying' \subseteq QueueIds
         /\ conn' \in [pc : {"pop", "push", "done"}, j : Sky \cup Rest, extracted : Pointers,
                       found : Found]
         /\ conn'.extracted = Passed
         /\ \/ conn'.pc = "push" /\ conn'.j = conn.j + 1 /\ conn.j + 1 < NW_rest
            \/ conn'.pc = (IF TupleRound THEN "pop" ELSE "done") /\ conn'.j = 0
                 /\ conn.j + 1 = NW_rest
         /\ UNCHANGED <<stream, gen, sky, rest, coll, message, skylines, rests, window,
                        windows, output, undefined, lost>>
<1>1. conn.pc = "push" /\ conn.extracted = Passed /\ conn.j \in Rest
  BY DEF ConnectorPush, OneToken, ConnectorInv
<1>2. RestInv(conn.j) /\ ~Sent(conn.j)
  <2>1. ~(conn.j < conn.j)
    BY <1>1, ParametersAssumption DEF Rest
  <2>2. ~ConnectorDone
    BY <1>1 DEF ConnectorDone
  <2>3. QED
    BY <1>1, <2>1, <2>2 DEF OneToken, Sent
<1>3. RestIdle(conn.j) /\ queues[ConnToRest(conn.j)] = <<>>
  BY <1>2 DEF RestInv, Holds
<1>4. ConnToRest(conn.j) \in QueueIds /\ Send(ConnToRest(conn.j), Passed) /\ Passed \in Int
  BY <1>1, Ids, Types DEF ConnectorPush
<1>5. /\ queues'[ConnToRest(conn.j)] = <<Passed>>
      /\ \A y \in QueueIds : y # ConnToRest(conn.j) => queues'[y] = queues[y]
      /\ queues' \in [QueueIds -> Seq(Int)] /\ notifying' \subseteq QueueIds
  BY <1>3, <1>4, SendEffect
<1>6. /\ conn' \in [pc : {"pop", "push", "done"}, j : Sky \cup Rest, extracted : Pointers,
                    found : Found]
      /\ conn'.extracted = Passed
      /\ \/ conn'.pc = "push" /\ conn'.j = conn.j + 1 /\ conn.j + 1 < NW_rest
         \/ /\ conn'.pc = (IF TupleRound THEN "pop" ELSE "done") /\ conn'.j = 0
            /\ conn.j + 1 = NW_rest
  <2>1. /\ conn \in [pc : {"pop", "push", "done"}, j : Sky \cup Rest, extracted : Pointers,
                     found : Found]
        /\ (Passed = EOS <=> ~TupleRound) /\ 0 \in Rest
    BY Types
  <2>2. CASE conn.j + 1 < NW_rest
    <3>1. conn' = [conn EXCEPT !.j = @ + 1]
      BY <2>2 DEF ConnectorPush
    <3>2. conn.j + 1 \in Rest
      BY <1>1, <2>2, ParametersAssumption DEF Rest
    <3>3. QED
      BY <1>1, <2>1, <2>2, <3>1, <3>2
  <2>3. CASE ~(conn.j + 1 < NW_rest)
    <3>1. conn' = [conn EXCEPT !.pc = IF TupleRound THEN "pop" ELSE "done", !.j = 0]
      BY <1>1, <2>1, <2>3 DEF ConnectorPush
    <3>2. conn.j + 1 = NW_rest
      BY <1>1, <2>3, ParametersAssumption DEF Rest
    <3>3. QED
      BY <1>1, <2>1, <3>1, <3>2
  <2>4. QED
    BY <2>2, <2>3
<1>7. QED
  BY <1>1, <1>2, <1>3, <1>5, <1>6 DEF ConnectorPush, heap, printed

LEMMA ConnectorPushToken ==
  ASSUME TypeOK, OneToken, ConnectorPush
  PROVE  OneToken'
<1> DEFINE w == conn.j
<1>1. /\ conn.pc = "push" /\ w \in Rest /\ gen'.i = gen.i
      /\ UNCHANGED <<stream, gen, sky, rest, coll, message>>
      /\ \A r \in Rest : r \in Int /\ 0 <= r /\ r < NW_rest
  BY ConnectorPushEffect, ParametersAssumption DEF Rest
<1>2. \/ conn'.pc = "push" /\ conn'.j = w + 1 /\ w + 1 < NW_rest
      \/ conn'.pc = (IF TupleRound THEN "pop" ELSE "done") /\ conn'.j = 0 /\ w + 1 = NW_rest
  BY ConnectorPushEffect
<1>3. ~ConnectorDone
  BY <1>1 DEF ConnectorDone
<1>4. \A s \in Sky : queues'[SkyToConn(s)] = queues[SkyToConn(s)]
                     /\ queues'[GenToSky(s)] = queues[GenToSky(s)]
  BY ConnectorPushEffect, Ids
<1>5. SkyDone(0) /\ queues[SkyToConn(0)] = <<>>
  <2>1. SkyInv(0) /\ Taken(0)
    BY <1>1, Types DEF OneToken, Taken
  <2>2. QED
    BY <2>1 DEF SkyInv, Holds
<1>6. ConnectorDone' <=> conn'.pc # "push"
  <2>1. SkyDone(0)' /\ queues'[SkyToConn(0)] = <<>>
    BY <1>1, <1>4, <1>5, Types, SameRound DEF SkyDone
  <2>2. QED
    BY <1>1, <1>2, <2>1, SameRound DEF ConnectorDone
<1>7. \A s \in Sky : Taken(s)' <=> Taken(s)
  BY <1>1, <1>2, <1>6, SameRound DEF Taken
<1>8. \A r \in Rest : Sent(r)' <=> Sent(r) \/ r = w
  BY <1>1, <1>2, <1>3, <1>6 DEF Sent
<1>9. ASSUME NEW s \in Sky
      PROVE  SkyInv(s)'
  <2>1. SkyInv(s) /\ (Pushed(s)' <=> Pushed(s))
    BY <1>1, GeneratorFrame DEF OneToken
  <2>2. QED
    BY <1>1, <1>4, <1>7, <2>1, SkyFrame
<1>10. ASSUME NEW r \in Rest
       PROVE  RestInv(r)'
  <2>1. RestInv(r) /\ (Collected(r)' <=> Collected(r))
    BY <1>1, CollectorFrame DEF OneToken
  <2>2. queues'[RestToColl(r)] = queues[RestToColl(r)]
    BY ConnectorPushEffect, Ids
  <2>3. CASE r = w
    <3>1. queues'[ConnToRest(r)] = <<Passed>> /\ RestIdle(r) /\ Sent(r)'
      BY <2>3, <1>8, ConnectorPushEffect
    <3>2. /\ RestIdle(r)' <=> RestIdle(r)
          /\ RestDone(r)' <=> RestDone(r)
      BY <1>1, SameRound DEF RestIdle, RestDone
    <3>3. QED
      BY <1>1, <2>1, <2>2, <3>1, <3>2, SameRound DEF RestInv, Holds
  <2>4. CASE r # w
    <3>1. queues'[ConnToRest(r)] = queues[ConnToRest(r)]
      BY <2>4, ConnectorPushEffect, Ids
    <3>2. QED
      BY <1>1, <1>8, <2>1, <2>2, <2>4, <3>1, RestFrame
  <2>5. QED
    BY <2>3, <2>4
<1>11. ConnectorInv'
  <2>1. w + 1 < NW_rest => w + 1 \in Rest
    BY <1>1, ParametersAssumption DEF Rest
  <2>2. QED
    BY <1>1, <1>2, <2>1, ConnectorPushEffect, Types, SameRound DEF ConnectorInv
<1>12. CollectorInv'
  BY <1>1, ConnectorPushEffect, CollectorFrame, Ids DEF OneToken
<1>13. GeneratorInv' /\ StreamInv' /\ MessageInv'
  BY <1>1, GeneratorFrame, MessageFrame DEF OneToken
<1>14. QED
  BY <1>9, <1>10, <1>11, <1>12, <1>13 DEF OneToken

LEMMA RestPopEffect ==
  ASSUME TypeOK, OneToken, NEW w \in Rest, RestPop(w)
  PROVE  /\ rest[w].pc = "pop" /\ Sent(w) /\ RestIdle(w) /\ ~RestDone(w) /\ ~Collected(w)
         /\ queues[ConnToRest(w)] = <<Passed>> /\ queues[RestToColl(w)] = <<>>
         /\ queues'[ConnToRest(w)] = <<>>
         /\ \A y \in QueueIds : y # ConnToRest(w) => queues'[y] = queues[y]
         /\ queues' \in [QueueIds -> Seq(Int)] /\ notifying' \subseteq QueueIds
         /\ \/ /\ ~TupleRound
               /\ rest' = [rest EXCEPT ![w].pc = "push", ![w].extracted = EOS]
            \/ /\ TupleRound
               /\ rest' = [rest EXCEPT ![w].pc = "scan", ![w].extracted = Passed,
                                       ![w].insert = message[Passed].insert,
                                       ![w].todo = rests[w]]
         /\ UNCHANGED <<stream, gen, sky, conn, coll, message, skylines, rests, window,
                        windows, output, undefined, lost>>
<1>1. rest[w].pc = "pop" /\ queues[ConnToRest(w)] # <<>>
  BY InPopOf DEF RestPop, Take
<1>2. RestInv(w)
  BY DEF OneToken
<1>3. Sent(w) /\ RestIdle(w) /\ queues[ConnToRest(w)] = <<Passed>>
  BY <1>1, <1>2 DEF RestInv, Holds
<1>4. ~RestDone(w) /\ ~Collected(w) /\ queues[RestToColl(w)] = <<>>
  BY <1>2, <1>3, Types DEF RestInv, Holds, RestIdle, RestDone
<1>5. /\ queues'[ConnToRest(w)] = <<>>
      /\ \A y \in QueueIds : y # ConnToRest(w) => queues'[y] = queues[y]
      /\ queues' \in [QueueIds -> Seq(Int)] /\ notifying' \subseteq QueueIds
      /\ back(queues[ConnToRest(w)]) = Passed
  <2>1. ConnToRest(w) \in QueueIds /\ Take(ConnToRest(w)) /\ Passed \in Int
    BY Ids, Types DEF RestPop
  <2>2. QED
    BY <1>3, <2>1, TakeEffect
<1>6. QED
  BY <1>1, <1>3, <1>4, <1>5, Types DEF RestPop, heap, printed

\* A rest worker at work has nothing in its queues.
LEMMA RestBusyFacts ==
  ASSUME TypeOK, OneToken, NEW w \in Rest, rest[w].pc \in {"scan", "move", "write", "push"}
  PROVE  /\ RestBusy(w) /\ Sent(w) /\ ~RestIdle(w) /\ ~RestDone(w) /\ ~Collected(w)
         /\ queues[ConnToRest(w)] = <<>> /\ queues[RestToColl(w)] = <<>>
         /\ rest[w].i = gen.i /\ rest[w].extracted = Passed
         /\ rest[w].pc # "push" => TupleRound
<1>1. RestInv(w)
  BY DEF OneToken
<1>2. ~RestIdle(w) /\ ~RestDone(w)
  BY DEF RestIdle, RestDone
<1>3. RestBusy(w)
  BY <1>1, <1>2 DEF RestInv
<1>4. QED
  BY <1>1, <1>2, <1>3 DEF RestInv, Holds, RestBusy

LEMMA RestPushEffect ==
  ASSUME TypeOK, OneToken, NEW w \in Rest, RestPush(w)
  PROVE  /\ RestBusy(w) /\ Sent(w) /\ ~RestIdle(w) /\ ~RestDone(w) /\ ~Collected(w)
         /\ queues[ConnToRest(w)] = <<>> /\ queues[RestToColl(w)] = <<>>
         /\ queues'[RestToColl(w)] = <<Passed>>
         /\ \A y \in QueueIds : y # RestToColl(w) => queues'[y] = queues[y]
         /\ queues' \in [QueueIds -> Seq(Int)] /\ notifying' \subseteq QueueIds
         /\ rest' = IF TupleRound THEN [rest EXCEPT ![w].pc = "pop", ![w].i = @ + 1]
                    ELSE [rest EXCEPT ![w].pc = "done"]
         /\ UNCHANGED <<stream, gen, sky, conn, coll, message, skylines, rests, window,
                        windows, output, undefined, lost>>
<1>1. /\ RestBusy(w) /\ Sent(w) /\ ~RestIdle(w) /\ ~RestDone(w) /\ ~Collected(w)
      /\ queues[ConnToRest(w)] = <<>> /\ queues[RestToColl(w)] = <<>>
      /\ rest[w].extracted = Passed
  BY RestBusyFacts DEF RestPush
<1>2. Send(RestToColl(w), Passed) /\ RestToColl(w) \in QueueIds /\ Passed \in Int
  BY <1>1, Ids, Types DEF RestPush
<1>3. /\ queues'[RestToColl(w)] = <<Passed>>
      /\ \A y \in QueueIds : y # RestToColl(w) => queues'[y] = queues[y]
      /\ queues' \in [QueueIds -> Seq(Int)] /\ notifying' \subseteq QueueIds
  BY <1>1, <1>2, SendEffect
<1>4. QED
  BY <1>1, <1>3, Types DEF RestPush, heap, printed

\* A step of a rest worker that has been sent the message, and whose answer is
\* still to come.
LEMMA RestWorkerStep ==
  ASSUME TypeOK, OneToken, NEW w \in Rest,
         UNCHANGED <<gen, sky, conn, coll, stream>>,
         \A r \in Rest : r # w => rest'[r] = rest[r],
         \A s \in Sky : message'[s].tuple = message[s].tuple,
         \A x \in QueueIds : x # ConnToRest(w) /\ x # RestToColl(w) => queues'[x] = queues[x],
         Sent(w), ~Collected(w),
         RestBusy(w)' \/ RestDone(w)',
         queues'[ConnToRest(w)] = <<>>,
         queues'[RestToColl(w)] = IF RestDone(w)' THEN <<Passed>> ELSE <<>>
  PROVE  OneToken'
<1>1. /\ \A s \in Sky : SkyInv(s)'
      /\ \A r : Sent(r)' <=> Sent(r)
      /\ GeneratorInv' /\ ConnectorInv' /\ StreamInv'
  <2>1. \A s \in Sky : /\ queues'[GenToSky(s)] = queues[GenToSky(s)]
                       /\ queues'[SkyToConn(s)] = queues[SkyToConn(s)]
    BY Ids
  <2>2. QED
    BY <2>1, SkyStageFrame
<1>2. \A r : Collected(r)' <=> Collected(r)
  BY CollectorFrame
<1>3. ASSUME NEW r \in Rest
      PROVE  RestInv(r)'
  <2>1. CASE r = w
    <3>1. RestBusy(w)' => rest'[w].pc \in {"scan", "move", "write", "push"}
      BY DEF RestBusy
    <3>2. RestDone(w)' => rest'[w].pc = "done" \/ rest'[w].i = gen.i + 1
      BY DEF RestDone
    <3>3. ~RestIdle(w)'
      BY <3>1, <3>2, Types DEF RestIdle
    <3>4. QED
      BY <2>1, <1>1, <1>2, <3>3, SameRound DEF RestInv, Holds
  <2>2. CASE r # w
    <3>1. RestInv(r)
      BY DEF OneToken
    <3>2. QED
      BY <2>2, <3>1, <1>1, <1>2, Ids, RestFrame
  <2>3. QED
    BY <2>1, <2>2
<1>4. CollectorInv'
  BY CollectorFrame, Ids DEF OneToken
<1>5. MessageInv'
  BY MessageFrame DEF OneToken
<1>6. QED
  BY <1>1, <1>3, <1>4, <1>5 DEF OneToken

LEMMA RestPopToken ==
  ASSUME TypeOK, OneToken, NEW w \in Rest, RestPop(w)
  PROVE  OneToken'
<1>1. \A r \in Rest : r # w => rest'[r] = rest[r]
  <2>1. rest \in [Rest -> RestRecord]
    BY Types
  <2>2. CASE TupleRound
    BY <2>1, <2>2, RestPopEffect
  <2>3. CASE ~TupleRound
    BY <2>1, <2>3, RestPopEffect
  <2>4. QED
    BY <2>2, <2>3
<1>2. RestBusy(w)' /\ ~RestDone(w)'
  <2>1. rest[w] \in RestRecord /\ rest[w].i = gen.i
    BY RestPopEffect, Types DEF RestIdle
  <2>2. CASE TupleRound
    <3>1. rest'[w] = [rest[w] EXCEPT !.pc = "scan", !.extracted = Passed,
                        !.insert = message[Passed].insert, !.todo = rests[w]]
      BY <2>2, RestPopEffect, Types
    <3>2. rest'[w].pc = "scan" /\ rest'[w].i = gen.i /\ rest'[w].extracted = Passed
      BY <2>1, <3>1 DEF RestRecord
    <3>3. QED
      BY <2>2, <3>2, RestPopEffect, SameRound DEF RestBusy, RestDone
  <2>3. CASE ~TupleRound
    <3>1. rest'[w] = [rest[w] EXCEPT !.pc = "push", !.extracted = EOS]
      BY <2>3, RestPopEffect, Types
    <3>2. rest'[w].pc = "push" /\ rest'[w].i = gen.i /\ rest'[w].extracted = Passed
      BY <2>1, <2>3, <3>1, Types DEF RestRecord
    <3>3. QED
      BY <2>3, <3>2, RestPopEffect, SameRound DEF RestBusy, RestDone
  <2>4. QED
    BY <2>2, <2>3
<1>3. /\ queues'[ConnToRest(w)] = <<>> /\ queues'[RestToColl(w)] = <<>>
      /\ \A x \in QueueIds : x # ConnToRest(w) /\ x # RestToColl(w) => queues'[x] = queues[x]
  <2>1. ConnToRest(w) # RestToColl(w) /\ RestToColl(w) \in QueueIds
    BY Ids
  <2>2. QED
    BY <2>1, RestPopEffect
<1>4. QED
  BY <1>1, <1>2, <1>3, RestPopEffect, RestWorkerStep

\* The scan: the worker stays where it is in the round.
LEMMA RestScanToken ==
  ASSUME TypeOK, OneToken, NEW w \in Rest,
         RestDelete(w) \/ RestKeep(w) \/ RestReadHead(w) \/ RestWriteHead(w)
  PROVE  OneToken'
<1>1. rest[w].pc \in {"scan", "move", "write"}
  BY DEF RestDelete, RestKeep, RestReadHead, RestWriteHead, Visiting
<1>2. /\ RestBusy(w) /\ Sent(w) /\ ~RestDone(w) /\ ~Collected(w)
      /\ queues[ConnToRest(w)] = <<>> /\ queues[RestToColl(w)] = <<>>
      /\ rest[w].i = gen.i /\ rest[w].extracted = Passed /\ TupleRound
  BY <1>1, RestBusyFacts
<1>3. UNCHANGED <<gen, sky, conn, coll, stream, queues>>
  BY DEF RestDelete, RestKeep, RestReadHead, RestWriteHead, heap, printed
<1>4. /\ \A r \in Rest : r # w => rest'[r] = rest[r]
      /\ rest'[w].i = rest[w].i /\ rest'[w].extracted = rest[w].extracted
      /\ rest'[w].pc \in {"scan", "move", "write"}
  <2>1. rest \in [Rest -> RestRecord] /\ rest[w] \in RestRecord
    BY Types
  <2>2. CASE RestDelete(w)
    BY <2>1, <2>2 DEF RestDelete, Visiting, RestRecord
  <2>3. CASE RestKeep(w)
    BY <2>1, <2>3 DEF RestKeep, Visiting, RestRecord
  <2>4. CASE RestReadHead(w)
    <3>1. PICK s \in Sky : rest' = [rest EXCEPT ![w].pc = "write", ![w].list = s,
                                               ![w].seen = skylines[s]]
      BY <2>4 DEF RestReadHead
    <3>2. QED
      BY <2>1, <3>1 DEF RestRecord
  <2>5. CASE RestWriteHead(w)
    BY <2>1, <2>5 DEF RestWriteHead, RestRecord
  <2>6. QED
    BY <2>2, <2>3, <2>4, <2>5
<1>5. RestBusy(w)' /\ ~RestDone(w)'
  BY <1>2, <1>3, <1>4, SameRound DEF RestBusy, RestDone
<1>6. \A s \in Sky : message'[s].tuple = message[s].tuple
  <2>1. message \in [Sky -> [tuple : Tick \cup {EOS}, sky : BOOLEAN, insert : Nat]]
    BY DEF TypeOK
  <2>2. CASE RestKeep(w)
    <3>1. \/ message' = message
          \/ message' = [message EXCEPT ![rest[w].extracted].insert = Current(w).expire]
      BY <2>2 DEF RestKeep
    <3>2. QED
      BY <2>1, <3>1
  <2>3. CASE ~RestKeep(w)
    BY <2>3 DEF RestDelete, RestReadHead, RestWriteHead, heap
  <2>4. QED
    BY <2>2, <2>3
<1>7. QED
  BY <1>2, <1>3, <1>4, <1>5, <1>6, RestWorkerStep

LEMMA RestPushToken ==
  ASSUME TypeOK, OneToken, NEW w \in Rest, RestPush(w)
  PROVE  OneToken'
<1>1. \A r \in Rest : r # w => rest'[r] = rest[r]
  BY RestPushEffect, Types
<1>2. RestDone(w)'
  <2>1. rest[w] \in RestRecord /\ rest[w].i = gen.i
    BY RestPushEffect, Types DEF RestBusy
  <2>2. CASE TupleRound
    <3>1. rest'[w] = [rest[w] EXCEPT !.pc = "pop", !.i = @ + 1]
      BY <2>2, RestPushEffect, Types
    <3>2. rest'[w].pc = "pop" /\ rest'[w].i = gen.i + 1
      BY <2>1, <3>1 DEF RestRecord
    <3>3. QED
      BY <2>2, <3>2, RestPushEffect, SameRound DEF RestDone
  <2>3. CASE ~TupleRound
    <3>1. rest'[w].pc = "done"
      BY <2>1, <2>3, RestPushEffect, Types DEF RestRecord
    <3>2. QED
      BY <2>3, <3>1, RestPushEffect, SameRound DEF RestDone
  <2>4. QED
    BY <2>2, <2>3
<1>3. /\ queues'[ConnToRest(w)] = <<>> /\ queues'[RestToColl(w)] = <<Passed>>
      /\ \A x \in QueueIds : x # ConnToRest(w) /\ x # RestToColl(w) => queues'[x] = queues[x]
  <2>1. ConnToRest(w) # RestToColl(w) /\ ConnToRest(w) \in QueueIds
    BY Ids
  <2>2. QED
    BY <2>1, RestPushEffect
<1>4. QED
  BY <1>1, <1>2, <1>3, RestPushEffect, RestWorkerStep

LEMMA CollectorPopEffect ==
  ASSUME TypeOK, OneToken, CollectorPop
  PROVE  /\ coll.pc = "pop" /\ coll.j \in Rest /\ coll.i = gen.i
         /\ RestDone(coll.j) /\ ~Collected(coll.j)
         /\ queues'[RestToColl(coll.j)] = <<>>
         /\ \A y \in QueueIds : y # RestToColl(coll.j) => queues'[y] = queues[y]
         /\ queues' \in [QueueIds -> Seq(Int)] /\ notifying' \subseteq QueueIds
         /\ back(queues[RestToColl(coll.j)]) = Passed
         /\ ~TupleRound => coll.j = 0
         /\ UNCHANGED <<stream, gen, sky, conn, rest, message, skylines, rests, window, windows,
                        output, undefined, lost>>
<1>1. coll.pc = "pop" /\ coll.j \in Rest /\ queues[RestToColl(coll.j)] # <<>>
  BY Types DEF CollectorPop, Take
<1>2. RestInv(coll.j)
  BY <1>1 DEF OneToken
<1>3. RestDone(coll.j) /\ ~Collected(coll.j) /\ queues[RestToColl(coll.j)] = <<Passed>>
  BY <1>1, <1>2 DEF RestInv, Holds
<1>4. coll.i = gen.i
  BY <1>1, <1>3 DEF OneToken, CollectorInv, Collected
<1>5. /\ queues'[RestToColl(coll.j)] = <<>>
      /\ \A y \in QueueIds : y # RestToColl(coll.j) => queues'[y] = queues[y]
      /\ queues' \in [QueueIds -> Seq(Int)] /\ notifying' \subseteq QueueIds
      /\ back(queues[RestToColl(coll.j)]) = Passed
  <2>1. RestToColl(coll.j) \in QueueIds /\ Take(RestToColl(coll.j)) /\ Passed \in Int
    BY <1>1, Ids, Types DEF CollectorPop
  <2>2. QED
    BY <1>3, <2>1, TakeEffect
<1>6. ~TupleRound => coll.j = 0
  BY <1>1, ParametersAssumption DEF OneToken, CollectorInv, Rest
<1>7. QED
  BY <1>1, <1>3, <1>4, <1>5, <1>6 DEF CollectorPop, heap, printed

\* Where the collector goes from there.
LEMMA CollectorPopNext ==
  ASSUME TypeOK, OneToken, CollectorPop
  PROVE  /\ coll'.i = gen.i
         /\ \/ TupleRound /\ coll.j + 1 < NW_rest /\ coll'.pc = "pop" /\ coll'.j = coll.j + 1
                 /\ coll'.extracted = Passed
            \/ TupleRound /\ coll.j + 1 = NW_rest /\ coll'.pc = "insert" /\ coll'.j = 0
                 /\ coll'.extracted = Passed
            \/ ~TupleRound /\ coll'.pc = "done" /\ coll'.j = 0
         /\ coll' \in [pc : {"pop", "insert", "push", "done"}, i : Tick, j : Rest,
                       extracted : Pointers, found : Found]
<1> DEFINE p == back(queues[RestToColl(coll.j)])
           found == IF coll.j = 0 THEN Fresh(p)
                    ELSE IF EveryRestTaken THEN coll.found ELSE Merge(coll.found, p)
<1>1. /\ coll.pc = "pop" /\ coll.j \in Rest /\ coll.i = gen.i
      /\ coll.j \in Int /\ 0 <= coll.j /\ coll.j < NW_rest
      /\ ~TupleRound => coll.j = 0
      /\ p = Passed /\ p \in Pointers
      /\ p = EOS <=> ~TupleRound
      /\ TupleRound => p \in Sky
      /\ coll \in [pc : {"pop", "insert", "push", "done"}, i : Tick, j : Rest,
                   extracted : Pointers, found : Found]
      /\ message \in [Sky -> [tuple : Tick \cup {EOS}, sky : BOOLEAN, insert : Nat]]
  <2>1. /\ coll.j \in Int /\ 0 <= coll.j /\ coll.j < NW_rest
        /\ message \in [Sky -> [tuple : Tick \cup {EOS}, sky : BOOLEAN, insert : Nat]]
    <3>1. coll.j \in Rest /\ NW_rest \in Nat
      BY CollectorPopEffect, ParametersAssumption
    <3>2. coll.j \in Int /\ 0 <= coll.j /\ coll.j < NW_rest
      BY <3>1 DEF Rest
    <3>3. QED
      BY <3>2 DEF TypeOK
  <2>2. QED
    BY <2>1, CollectorPopEffect, Types
<1>2. CASE ~TupleRound
  <2>1. coll' = [coll EXCEPT !.pc = "done", !.extracted = EOS]
    BY <1>1, <1>2 DEF CollectorPop
  <2>2. EOS \in Pointers
    BY DEF Pointers
  <2>3. QED
    BY <1>1, <1>2, <2>1, <2>2
<1>3. CASE TupleRound
  <2>1. coll' = [coll EXCEPT !.extracted = p, !.found = found,
                   !.pc = IF EveryRestTaken THEN "insert" ELSE "pop",
                   !.j = IF EveryRestTaken THEN 0 ELSE @ + 1]
    BY <1>1, <1>3 DEF CollectorPop
  <2>2. found \in Found
    <3>1. message[p] \in [tuple : Tick \cup {EOS}, sky : BOOLEAN, insert : Nat]
      BY <1>1, <1>3
    <3>2. coll.found \in [sky : BOOLEAN, insert : Nat]
      BY <1>1 DEF Found
    <3>3. Fresh(p) \in Found
      BY <3>1 DEF Fresh, Found
    <3>4. Merge(coll.found, p) \in Found
      <4>1. (coll.found.sky /\ message[p].sky) \in BOOLEAN
        OBVIOUS
      <4>2. QED
        BY <3>1, <3>2, <4>1 DEF Merge, Found
    <3>5. QED
      BY <3>2, <3>3, <3>4 DEF Found
  <2> HIDE DEF p, found
  <2>3. CASE EveryRestTaken
    <3>1. coll.j + 1 = NW_rest /\ 0 \in Rest
      BY <2>3, Types DEF EveryRestTaken
    <3>2. coll' = [coll EXCEPT !.extracted = p, !.found = found, !.pc = "insert", !.j = 0]
      BY <2>1, <2>3
    <3>3. QED
      BY <1>1, <1>3, <2>2, <3>1, <3>2
  <2>4. CASE ~EveryRestTaken
    <3>1. coll.j + 1 < NW_rest /\ coll.j + 1 \in Rest
      BY <1>1, <2>4, ParametersAssumption DEF EveryRestTaken, Rest
    <3>2. coll' = [coll EXCEPT !.extracted = p, !.found = found, !.pc = "pop", !.j = @ + 1]
      BY <2>1, <2>4
    <3>3. QED
      BY <1>1, <1>3, <2>2, <3>1, <3>2
  <2>5. QED
    BY <2>3, <2>4
<1>4. QED
  BY <1>2, <1>3

LEMMA CollectorPopToken ==
  ASSUME TypeOK, OneToken, CollectorPop
  PROVE  OneToken'
<1> DEFINE w == coll.j
<1>1. /\ coll.pc = "pop" /\ w \in Rest /\ w \in Int /\ RestDone(w) /\ ~Collected(w)
      /\ coll.i = gen.i /\ coll'.i = gen.i /\ gen.i # gen.i + 1
      /\ UNCHANGED <<stream, gen, sky, conn, rest, message>>
      /\ \A r \in Rest : r \in Int /\ 0 <= r /\ r < NW_rest
  BY CollectorPopEffect, CollectorPopNext, Types, ParametersAssumption DEF Rest
<1>2. \/ TupleRound /\ w + 1 < NW_rest /\ coll'.pc = "pop" /\ coll'.j = w + 1
           /\ coll'.extracted = Passed
      \/ TupleRound /\ w + 1 = NW_rest /\ coll'.pc = "insert" /\ coll'.j = 0
           /\ coll'.extracted = Passed
      \/ ~TupleRound /\ coll'.pc = "done" /\ coll'.j = 0
  BY CollectorPopNext
<1>3. ~TupleRound => w = 0
  BY CollectorPopEffect
<1>4. \A r \in Rest : Collected(r)' <=> Collected(r) \/ r = w
  <2> TAKE r \in Rest
  <2>1. CASE TupleRound
    BY <1>1, <1>2, <2>1, SameRound DEF Collected, Acknowledged
  <2>2. CASE ~TupleRound
    BY <1>1, <1>2, <1>3, <2>2, SameRound DEF Collected
  <2>3. QED
    BY <2>1, <2>2
<1>5. /\ \A s \in Sky : SkyInv(s)'
      /\ \A r : Sent(r)' <=> Sent(r)
      /\ GeneratorInv' /\ ConnectorInv' /\ StreamInv'
  <2>1. \A s \in Sky : /\ queues'[GenToSky(s)] = queues[GenToSky(s)]
                       /\ queues'[SkyToConn(s)] = queues[SkyToConn(s)]
    BY CollectorPopEffect, Ids
  <2>2. QED
    BY <1>1, <2>1, SkyStageFrame
<1>6. ASSUME NEW r \in Rest
      PROVE  RestInv(r)'
  <2>1. RestInv(r) /\ queues'[ConnToRest(r)] = queues[ConnToRest(r)]
    BY CollectorPopEffect, Ids DEF OneToken
  <2>2. CASE r = w
    <3>1. queues'[RestToColl(r)] = <<>> /\ RestDone(r) /\ Collected(r)'
      BY <2>2, <1>1, <1>4, CollectorPopEffect
    <3>2. /\ RestIdle(r)' <=> RestIdle(r)
          /\ RestDone(r)' <=> RestDone(r)
      BY <1>1, SameRound DEF RestIdle, RestDone
    <3>3. QED
      BY <1>1, <1>5, <2>1, <3>1, <3>2, SameRound DEF RestInv, Holds
  <2>3. CASE r # w
    <3>1. queues'[RestToColl(r)] = queues[RestToColl(r)]
      BY <2>3, CollectorPopEffect, Ids
    <3>2. QED
      BY <1>1, <1>4, <1>5, <2>1, <2>3, <3>1, RestFrame
  <2>4. QED
    BY <2>2, <2>3
<1>7. CollectorInv'
  <2>1. queues'[CollToGen] = queues[CollToGen]
    BY CollectorPopEffect, Ids
  <2>2. queues[CollToGen] = <<>>
    BY <1>1 DEF OneToken, CollectorInv, Holds, Acknowledged
  <2>3. ~Acknowledged'
    BY <1>1 DEF Acknowledged
  <2>4. QED
    BY <1>1, <1>2, <2>1, <2>2, <2>3, SameRound DEF CollectorInv, Holds
<1>8. MessageInv'
  BY <1>1, MessageFrame DEF OneToken
<1>9. QED
  BY <1>5, <1>6, <1>7, <1>8 DEF OneToken

\* A step of the collector once it has taken every answer.
LEMMA CollectorStep ==
  ASSUME TypeOK, OneToken, UNCHANGED <<gen, sky, conn, rest, stream>>,
         coll.pc \in {"insert", "push"},
         \A s \in Sky : message'[s].tuple = message[s].tuple,
         \A x \in QueueIds : x # CollToGen => queues'[x] = queues[x],
         \A r \in Rest : Collected(r)', CollectorInv'
  PROVE  OneToken'
<1>1. /\ \A s \in Sky : SkyInv(s)'
      /\ \A r : Sent(r)' <=> Sent(r)
      /\ GeneratorInv' /\ ConnectorInv' /\ StreamInv'
  <2>1. \A s \in Sky : /\ queues'[GenToSky(s)] = queues[GenToSky(s)]
                       /\ queues'[SkyToConn(s)] = queues[SkyToConn(s)]
    BY Ids
  <2>2. QED
    BY <2>1, SkyStageFrame
<1>2. TupleRound
  BY DEF OneToken, CollectorInv
<1>3. ASSUME NEW r \in Rest
      PROVE  RestInv(r)'
  <2>1. RestInv(r) /\ Collected(r)
    BY <1>2 DEF OneToken, Collected
  <2>2. /\ queues'[ConnToRest(r)] = queues[ConnToRest(r)]
        /\ queues'[RestToColl(r)] = queues[RestToColl(r)]
    BY Ids
  <2>3. QED
    BY <1>1, <2>1, <2>2, RestFrame
<1>4. MessageInv'
  BY MessageFrame DEF OneToken
<1>5. QED
  BY <1>1, <1>3, <1>4 DEF OneToken

LEMMA CollectorInsertToken ==
  ASSUME TypeOK, OneToken, CollectorInsert
  PROVE  OneToken'
<1>1. /\ coll.pc = "insert" /\ TupleRound /\ coll.i = gen.i /\ coll.extracted = Passed
      /\ coll.j = 0 /\ gen.i # gen.i + 1
  BY Types DEF CollectorInsert, OneToken, CollectorInv
<1>2. /\ UNCHANGED <<gen, sky, conn, rest, stream, queues>>
      /\ coll'.pc = "push" /\ coll'.i = coll.i /\ coll'.j = coll.j
      /\ coll'.extracted = coll.extracted
  BY Types DEF CollectorInsert
<1>3. \A s \in Sky : message'[s].tuple = message[s].tuple
  BY DEF CollectorInsert, TypeOK
<1>4. \A r \in Rest : Collected(r)'
  BY <1>1, <1>2, SameRound DEF Collected
<1>5. CollectorInv'
  BY <1>1, <1>2, SameRound DEF CollectorInv, OneToken, Holds, Acknowledged
<1>6. QED
  BY <1>1, <1>2, <1>3, <1>4, <1>5, CollectorStep

LEMMA CollectorPushEffect ==
  ASSUME TypeOK, OneToken, CollectorPush
  PROVE  /\ coll.pc = "push" /\ TupleRound /\ coll.i = gen.i /\ coll.j = 0
         /\ queues'[CollToGen] = <<1>>
         /\ \A y \in QueueIds : y # CollToGen => queues'[y] = queues[y]
         /\ queues' \in [QueueIds -> Seq(Int)] /\ notifying' \subseteq QueueIds
         /\ coll'.pc = "pop" /\ coll'.i = coll.i + 1 /\ coll'.j = 0
         /\ coll' = [coll EXCEPT !.pc = "pop", !.i = @ + 1]
         /\ UNCHANGED <<stream, gen, sky, conn, rest, message, skylines, rests, window, windows,
                        output, undefined, lost>>
<1>1. /\ coll.pc = "push" /\ TupleRound /\ coll.i = gen.i /\ coll.j = 0
      /\ queues[CollToGen] = <<>>
  BY Types DEF CollectorPush, OneToken, CollectorInv, Holds, Acknowledged
<1>2. /\ queues'[CollToGen] = <<1>>
      /\ \A y \in QueueIds : y # CollToGen => queues'[y] = queues[y]
      /\ queues' \in [QueueIds -> Seq(Int)] /\ notifying' \subseteq QueueIds
  BY <1>1, Ids, SendEffect DEF CollectorPush
<1>3. coll'.pc = "pop" /\ coll'.i = coll.i + 1 /\ coll'.j = 0
  BY <1>1, Types DEF CollectorPush
<1>4. QED
  BY <1>1, <1>2, <1>3 DEF CollectorPush, heap, printed

LEMMA CollectorPushToken ==
  ASSUME TypeOK, OneToken, CollectorPush
  PROVE  OneToken'
<1>1. gen'.i = gen.i /\ Acknowledged' /\ coll.pc \in {"insert", "push"}
  BY CollectorPushEffect DEF Acknowledged
<1>2. \A r \in Rest : Collected(r)'
  BY <1>1, CollectorPushEffect, SameRound DEF Collected
<1>3. CollectorInv'
  BY <1>1, CollectorPushEffect, SameRound DEF CollectorInv, Holds
<1>4. QED
  BY <1>1, <1>2, <1>3, CollectorPushEffect, CollectorStep

\* Notifications, and steps of nobody.
LEMMA StutterToken ==
  ASSUME OneToken, UNCHANGED <<stream, message, threads, queues>>
  PROVE  OneToken'
<1>1. gen'.i = gen.i /\ UNCHANGED <<gen, sky, conn, rest, coll>>
  BY DEF threads
<1>2. /\ \A s \in Sky : SkyInv(s)'
      /\ \A r : Sent(r)' <=> Sent(r)
      /\ GeneratorInv' /\ ConnectorInv' /\ StreamInv'
  BY <1>1, SkyStageFrame
<1>3. (\A r \in Rest : RestInv(r)') /\ CollectorInv'
  BY <1>1, <1>2, RestStageFrame
<1>4. MessageInv'
  BY <1>1, MessageFrame DEF OneToken
<1>5. QED
  BY <1>2, <1>3, <1>4 DEF OneToken

\* Every step.
LEMMA TokenStep == TypeOK /\ OneToken /\ [Next]_vars => OneToken'
<1> SUFFICES ASSUME TypeOK, OneToken, [Next]_vars
             PROVE  OneToken'
  OBVIOUS
<1>1. CASE Generator
  BY <1>1, NextRoundToken, GeneratorPushToken, GeneratorPopToken DEF Generator
<1>2. ASSUME NEW s \in Sky, SkyWorker(s)
      PROVE  OneToken'
  BY <1>2, SkyPopToken, SkyScanToken, SkyPushToken DEF SkyWorker
<1>3. CASE Connector
  BY <1>3, ConnectorPopToken, ConnectorPushToken DEF Connector
<1>4. ASSUME NEW r \in Rest, RestWorker(r)
      PROVE  OneToken'
  BY <1>4, RestPopToken, RestScanToken, RestPushToken DEF RestWorker
<1>5. CASE Collector
  BY <1>5, CollectorPopToken, CollectorInsertToken, CollectorPushToken DEF Collector
<1>6. ASSUME NEW x \in QueueIds, Notify(x) \/ PopUndefined(x)
      PROVE  OneToken'
  <2>1. UNCHANGED <<stream, message, threads, queues>>
    BY <1>6 DEF Notify, PopUndefined, heap
  <2>2. QED
    BY <2>1, StutterToken
<1>7. CASE UNCHANGED vars
  <2>1. UNCHANGED <<stream, message, threads, queues>>
    BY <1>7 DEF vars, heap
  <2>2. QED
    BY <2>1, StutterToken
<1>8. QED
  BY <1>1, <1>2, <1>3, <1>4, <1>5, <1>6, <1>7 DEF Next

----------------------------------------------------------------------------
(* Types.                                                                  *)

MessageRecord == [tuple : Tick \cup {EOS}, sky : BOOLEAN, insert : Nat]
GenRecord == [pc : {"generate", "push", "pop", "done"}, i : Tick, j : Sky,
              out : Tick \cup {EOS}]

\* Once the item is on its way, its tuple has arrived.
LEMMA NewestArrived ==
  ASSUME TypeOK, OneToken, TupleRound, NEW s \in Sky, Pushed(s)
  PROVE  Len(stream) = gen.i + 1 /\ Arrived(stream, gen.i) \in Tuple
<1>1. gen.pc # "generate"
  BY DEF Pushed
<1>2. Len(stream) = gen.i + 1 /\ stream \in Seq(Tuple) /\ gen.i \in Nat
  BY <1>1, Types, ParametersAssumption DEF OneToken, StreamInv, TypeOK
<1>3. QED
  BY <1>2 DEF Arrived

\* Once the connector has all answers, every message is about the newest tuple.
LEMMA AllAnswered ==
  ASSUME TypeOK, OneToken, TupleRound, ConnectorDone \/ conn.pc = "push"
  PROVE  /\ \A s \in Sky : SkyDone(s) /\ message[s].tuple = gen.i /\ TupleOf(s) \in Tuple
         /\ Passed \in Sky /\ Len(stream) = gen.i + 1
<1>1. ASSUME NEW s \in Sky
      PROVE  SkyDone(s) /\ Pushed(s)
  <2>1. Taken(s) /\ SkyInv(s)
    BY DEF Taken, OneToken
  <2>2. SkyDone(s) /\ ~SkyIdle(s)
    BY <2>1, Types DEF SkyInv, SkyDone, SkyIdle
  <2>3. QED
    BY <2>1, <2>2 DEF SkyInv
<1>2. ASSUME NEW s \in Sky
      PROVE  message[s].tuple = gen.i /\ TupleOf(s) \in Tuple
  BY <1>1, NewestArrived DEF OneToken, MessageInv, TupleOf
<1>3. QED
  BY <1>1, <1>2, NewestArrived, Types

\* A rest worker that has been sent the message finds it complete.
LEMMA SentMeansAnswered ==
  ASSUME TypeOK, OneToken, TupleRound, NEW r \in Rest, Sent(r)
  PROVE  /\ \A s \in Sky : SkyDone(s) /\ message[s].tuple = gen.i /\ TupleOf(s) \in Tuple
         /\ Passed \in Sky /\ Len(stream) = gen.i + 1
BY AllAnswered DEF Sent

\* The collector inserts when every rest worker has answered.
LEMMA InsertMeansAnswered ==
  ASSUME TypeOK, OneToken, coll.pc \in {"insert", "push"}
  PROVE  /\ TupleRound /\ coll.i = gen.i /\ coll.extracted = Passed
         /\ \A r \in Rest : RestDone(r) /\ Sent(r)
         /\ \A s \in Sky : SkyDone(s) /\ message[s].tuple = gen.i /\ TupleOf(s) \in Tuple
         /\ Passed \in Sky /\ Len(stream) = gen.i + 1
<1>1. TupleRound /\ coll.i = gen.i /\ coll.extracted = Passed
  BY DEF OneToken, CollectorInv
<1>2. ASSUME NEW r \in Rest
      PROVE  RestDone(r) /\ Sent(r)
  <2>1. RestInv(r) /\ Collected(r)
    BY <1>1 DEF OneToken, Collected
  <2>2. RestDone(r) /\ ~RestIdle(r)
    BY <1>1, <2>1, Types DEF RestInv, RestDone, RestIdle
  <2>3. QED
    BY <2>1, <2>2 DEF RestInv
<1>3. 0 \in Rest
  BY Types
<1>4. QED
  BY <1>1, <1>2, <1>3, SentMeansAnswered

LEMMA GeneratorTypes ==
  ASSUME TypeOK, OneToken, Generator
  PROVE  TypeOK'
<1>1. gen \in GenRecord /\ gen.i \in 0..N /\ N \in Nat /\ 0 \in Sky /\ gen.i \in Tick
  BY Types, ParametersAssumption DEF GenRecord, Tick
<1>2. CASE GenerateTuple
  <2>1. gen' \in GenRecord
    BY <1>1, <1>2 DEF GenerateTuple, GenRecord
  <2>2. stream' \in Seq(Tuple) /\ Len(stream') <= N
    <3>1. stream \in Seq(Tuple) /\ Len(stream) = gen.i /\ gen.i < N
      BY <1>2 DEF GenerateTuple, MoreTuples, OneToken, StreamInv, TypeOK
    <3>2. QED
      BY <1>1, <1>2, <3>1 DEF GenerateTuple
  <2>3. QED
    BY <1>2, <2>1, <2>2 DEF GenerateTuple, TypeOK, GenRecord
<1>3. CASE EndOfStream
  <2>1. gen' \in GenRecord
    BY <1>1, <1>3 DEF EndOfStream, GenRecord
  <2>2. QED
    BY <1>3, <2>1 DEF EndOfStream, TypeOK, GenRecord, heap, printed
<1>4. CASE GeneratorPush
  <2>1. gen' \in GenRecord
    <3>1. CASE gen.j + 1 < NW_sky
      <4>1. gen' = [gen EXCEPT !.j = @ + 1] /\ gen.j + 1 \in Sky
        BY <1>1, <1>4, <3>1, GeneratorPushEffect, ParametersAssumption, Types DEF Sky
      <4>2. QED
        BY <1>1, <4>1 DEF GenRecord
    <3>2. CASE ~(gen.j + 1 < NW_sky)
      <4>1. gen' = [gen EXCEPT !.pc = IF TupleRound THEN "pop" ELSE "done"]
        BY <1>4, <3>2, GeneratorPushEffect
      <4>2. QED
        BY <1>1, <4>1 DEF GenRecord
    <3>3. QED
      BY <3>1, <3>2
  <2>2. QED
    BY <1>4, <2>1, GeneratorPushEffect DEF TypeOK, GenRecord
<1>5. CASE GeneratorPop
  <2>1. gen' = [gen EXCEPT !.pc = "generate", !.i = @ + 1] /\ TupleRound
    BY <1>5, GeneratorPopEffect, RoundComplete
  <2>2. gen.i + 1 \in Tick
    BY <1>1, <2>1 DEF TupleRound, Tick
  <2>3. gen' \in GenRecord
    BY <1>1, <2>1, <2>2 DEF GenRecord
  <2>4. QED
    BY <1>5, <2>3, GeneratorPopEffect DEF TypeOK, GenRecord
<1>6. QED
  BY <1>2, <1>3, <1>4, <1>5 DEF Generator

\* The nodes a scan keeps are nodes of the list.
LEMMA KeptNodes ==
  ASSUME NEW nodes, NEW i, NEW t
  PROVE  Kept(nodes, i, t) \subseteq nodes
BY DEF Kept

\* What a sky worker scans for, and what it finds.
LEMMA SkyScanEffect ==
  ASSUME TypeOK, OneToken, NEW w \in Sky, SkyScan(w)
  PROVE  /\ skylines' \in [Sky -> SUBSET Node]
         /\ skylines'[w] \subseteq skylines[w]
         /\ \A s \in Sky : s # w => skylines'[s] = skylines[s]
         /\ message' \in [Sky -> MessageRecord]
         /\ TupleRound
<1>1. SkyBusy(w) /\ Pushed(w) /\ TupleRound /\ sky[w].extracted = gen.i
  BY SkyBusyFacts, Types DEF SkyScan, SkyBusy
<1> DEFINE t == Arrived(stream, sky[w].extracted)
           kept == Kept(skylines[w], sky[w].i, t)
<1>2. skylines \in [Sky -> SUBSET Node] /\ message \in [Sky -> MessageRecord]
  BY DEF TypeOK, MessageRecord
<1>3. kept \subseteq skylines[w] /\ kept \subseteq Node
  BY <1>2, KeptNodes
<1>4. Greatest({0} \cup Blockers(kept, t)) \subseteq Nat
  BY <1>3 DEF Greatest, Blockers, Node
<1>5. PICK insert \in Greatest({0} \cup Blockers(kept, t)) :
        message' = [message EXCEPT ![w] = [tuple |-> sky[w].extracted,
                                           sky |-> Blockers(kept, t) = {},
                                           insert |-> insert]]
  BY DEF SkyScan
<1> HIDE DEF kept, t
<1>6. sky[w].extracted \in Tick
  BY <1>1, Types
<1>7. [tuple |-> sky[w].extracted, sky |-> Blockers(kept, t) = {}, insert |-> insert] \in MessageRecord
  <2>1. (Blockers(kept, t) = {}) \in BOOLEAN
    OBVIOUS
  <2>2. insert \in Nat
    BY <1>4, <1>5
  <2>3. QED
    BY <1>6, <2>1, <2>2 DEF MessageRecord
<1>8. message' \in [Sky -> MessageRecord]
  BY <1>2, <1>5, <1>7
<1>9. skylines' = [skylines EXCEPT ![w] = kept]
  BY DEF SkyScan, kept, t
<1>10. QED
  BY <1>1, <1>2, <1>3, <1>8, <1>9

LEMMA SkyWorkerTypes ==
  ASSUME TypeOK, OneToken, NEW w \in Sky, SkyWorker(w)
  PROVE  TypeOK'
<1>1. sky \in [Sky -> SkyRecord] /\ sky[w] \in SkyRecord
  BY Types
<1>2. CASE SkyPop(w)
  <2>1. sky' = [sky EXCEPT ![w] = [sky[w] EXCEPT !.extracted = Item,
                                     !.pc = IF Item = EOS THEN "push" ELSE "scan"]]
    BY <1>1, <1>2, SkyPopEffect
  <2>2. [sky[w] EXCEPT !.extracted = Item, !.pc = IF Item = EOS THEN "push" ELSE "scan"] \in SkyRecord
    BY <1>1, Types DEF SkyRecord
  <2>3. sky' \in [Sky -> SkyRecord]
    BY <1>1, <2>1, <2>2
  <2>4. /\ UNCHANGED <<stream, gen, conn, rest, coll, message, skylines, rests, undefined, lost>>
        /\ queues' \in [QueueIds -> Seq(Int)] /\ notifying' \subseteq QueueIds
    BY <1>2, SkyPopEffect
  <2>5. QED
    BY <2>3, <2>4 DEF TypeOK, SkyRecord
<1>3. CASE SkyScan(w)
  <2>1. sky' \in [Sky -> SkyRecord]
    BY <1>1, <1>3 DEF SkyScan, SkyRecord
  <2>2. QED
    <3>1. UNCHANGED <<stream, rests, gen, conn, rest, coll, queues, notifying, undefined, lost>>
      BY <1>3 DEF SkyScan
    <3>2. skylines' \in [Sky -> SUBSET Node] /\ message' \in [Sky -> MessageRecord]
      BY <1>3, SkyScanEffect
    <3>3. QED
      BY <2>1, <3>1, <3>2 DEF TypeOK, SkyRecord, MessageRecord
<1>4. CASE SkyPush(w)
  <2>1. sky' \in [Sky -> SkyRecord]
    <3>1. CASE TupleRound
      <4>1. sky' = [sky EXCEPT ![w] = [sky[w] EXCEPT !.pc = "pop", !.i = @ + 1]]
        BY <1>1, <1>4, <3>1, SkyPushEffect
      <4>2. sky[w].i + 1 \in Tick
        <5>1. sky[w].i = gen.i
          BY <1>4, SkyPushEffect DEF SkyBusy
        <5>2. gen.i \in 0..N /\ gen.i < N /\ N \in Nat
          BY <3>1, Types, ParametersAssumption DEF TupleRound
        <5>3. QED
          BY <5>1, <5>2 DEF Tick
      <4>3. [sky[w] EXCEPT !.pc = "pop", !.i = @ + 1] \in SkyRecord
        BY <1>1, <4>2 DEF SkyRecord
      <4>4. QED
        BY <1>1, <4>1, <4>3
    <3>2. CASE ~TupleRound
      <4>1. sky' = [sky EXCEPT ![w] = [sky[w] EXCEPT !.pc = "done"]]
        BY <1>1, <1>4, <3>2, SkyPushEffect
      <4>2. [sky[w] EXCEPT !.pc = "done"] \in SkyRecord
        BY <1>1 DEF SkyRecord
      <4>3. QED
        BY <1>1, <4>1, <4>2
    <3>3. QED
      BY <3>1, <3>2
  <2>2. /\ UNCHANGED <<stream, gen, conn, rest, coll, message, skylines, rests, undefined, lost>>
        /\ queues' \in [QueueIds -> Seq(Int)] /\ notifying' \subseteq QueueIds
    BY <1>4, SkyPushEffect
  <2>3. QED
    BY <2>1, <2>2 DEF TypeOK, SkyRecord
<1>5. QED
  BY <1>2, <1>3, <1>4 DEF SkyWorker

LEMMA ConnectorTypes ==
  ASSUME TypeOK, OneToken, Connector
  PROVE  TypeOK'
<1>1. CASE ConnectorPop
  BY <1>1, ConnectorPopEffect, ConnectorPopNext DEF TypeOK
<1>2. CASE ConnectorPush
  BY <1>2, ConnectorPushEffect DEF TypeOK
<1>3. QED
  BY <1>1, <1>2 DEF Connector

\* The node a scan has come to and keeps is one it has yet to look at.
LEMMA RestKeepEffect ==
  ASSUME TypeOK, OneToken, NEW w \in Rest, RestKeep(w)
  PROVE  /\ TupleRound /\ rest[w].pc = "scan" /\ rest[w].extracted = Passed
         /\ Passed \in Sky
         /\ Current(w) \in rest[w].todo /\ Current(w) \in Node
         /\ message' \in [Sky -> MessageRecord]
         /\ \A s \in Sky : message'[s].tuple = message[s].tuple
<1>1. rest[w].pc = "scan" /\ Current(w) \in rest[w].todo
  BY DEF RestKeep, Visiting, Keeps, Kept
<1>2. rest[w].extracted = Passed /\ TupleRound
  BY <1>1, RestBusyFacts
<1>3. Passed \in Sky
  BY <1>2, Types
<1>4. Current(w) \in Node
  BY <1>1, Types DEF RestRecord
<1>5. Current(w).expire \in Nat
  BY <1>4 DEF Node
<1>6. message \in [Sky -> MessageRecord]
  BY DEF TypeOK, MessageRecord
<1>7. \/ message' = [message EXCEPT ![Passed].insert = Current(w).expire]
      \/ message' = message
  BY <1>2 DEF RestKeep
<1>8. message' \in [Sky -> MessageRecord] /\ \A s \in Sky : message'[s].tuple = message[s].tuple
  <2>1. CASE message' = message
    BY <1>6, <2>1
  <2>2. CASE message' = [message EXCEPT ![Passed].insert = Current(w).expire]
    <3>1. [message[Passed] EXCEPT !.insert = Current(w).expire] \in MessageRecord
      BY <1>3, <1>5, <1>6 DEF MessageRecord
    <3>2. message' = [message EXCEPT ![Passed] = [message[Passed] EXCEPT !.insert = Current(w).expire]]
      BY <1>3, <1>6, <2>2
    <3>3. message[Passed] \in MessageRecord
      BY <1>3, <1>6
    <3>4. [message[Passed] EXCEPT !.insert = Current(w).expire].tuple = message[Passed].tuple
      BY <3>3 DEF MessageRecord
    <3>5. QED
      BY <1>3, <1>6, <3>1, <3>2, <3>4
  <2>3. QED
    BY <1>7, <2>1, <2>2
<1>9. QED
  BY <1>1, <1>2, <1>3, <1>4, <1>8

\* What each step of a scan does to the worker's own record.
LEMMA RestScanTypes ==
  ASSUME TypeOK, OneToken, StorageInv, NEW w \in Rest,
         RestDelete(w) \/ RestKeep(w) \/ RestReadHead(w) \/ RestWriteHead(w)
  PROVE  TypeOK'
<1>1. rest \in [Rest -> RestRecord] /\ rest[w] \in RestRecord
  BY Types
<1>2. skylines \in [Sky -> SUBSET Node] /\ rests \in [Rest -> SUBSET Node]
  BY DEF TypeOK
<1>3. CASE RestDelete(w)
  <2>1. rest' = [rest EXCEPT ![w] = [rest[w] EXCEPT !.todo = rest[w].todo \ {Current(w)}]]
    BY <1>1, <1>3 DEF RestDelete
  <2>2. [rest[w] EXCEPT !.todo = rest[w].todo \ {Current(w)}] \in RestRecord
    BY <1>1 DEF RestRecord
  <2>3. rest' \in [Rest -> RestRecord]
    BY <1>1, <2>1, <2>2
  <2>4. rests' \in [Rest -> SUBSET Node]
    BY <1>2, <1>3 DEF RestDelete
  <2>5. UNCHANGED <<stream, message, skylines, gen, sky, conn, coll, queues, notifying, undefined, lost>>
    BY <1>3 DEF RestDelete
  <2>6. QED
    BY <2>3, <2>4, <2>5 DEF TypeOK, RestRecord
<1>4. CASE RestKeep(w)
  <2>1. \/ rest' = [rest EXCEPT ![w] = [rest[w] EXCEPT !.pc = "move"]]
        \/ rest' = [rest EXCEPT ![w] = [rest[w] EXCEPT !.todo = rest[w].todo \ {Current(w)}]]
    BY <1>1, <1>4 DEF RestKeep
  <2>2. /\ [rest[w] EXCEPT !.pc = "move"] \in RestRecord
        /\ [rest[w] EXCEPT !.todo = rest[w].todo \ {Current(w)}] \in RestRecord
    BY <1>1 DEF RestRecord
  <2>3. rest' \in [Rest -> RestRecord]
    BY <1>1, <2>1, <2>2
  <2>4. message' \in [Sky -> MessageRecord]
    BY <1>4, RestKeepEffect
  <2>5. UNCHANGED <<stream, skylines, rests, gen, sky, conn, coll, queues, notifying, undefined, lost>>
    BY <1>4 DEF RestKeep
  <2>6. QED
    BY <2>3, <2>4, <2>5 DEF TypeOK, RestRecord, MessageRecord
<1>5. CASE RestReadHead(w)
  <2>1. PICK s \in Sky : rest' = [rest EXCEPT ![w].pc = "write", ![w].list = s,
                                              ![w].seen = skylines[s]]
    BY <1>5 DEF RestReadHead
  <2>2. rest' = [rest EXCEPT ![w] = [rest[w] EXCEPT !.pc = "write", !.list = s,
                                                    !.seen = skylines[s]]]
    BY <1>1, <2>1
  <2>3. [rest[w] EXCEPT !.pc = "write", !.list = s, !.seen = skylines[s]] \in RestRecord
    BY <1>1, <1>2 DEF RestRecord
  <2>4. rest' \in [Rest -> RestRecord]
    BY <1>1, <2>2, <2>3
  <2>5. UNCHANGED <<stream, message, skylines, rests, gen, sky, conn, coll, queues, notifying,
                    undefined, lost>>
    BY <1>5 DEF RestReadHead, heap
  <2>6. QED
    BY <2>4, <2>5 DEF TypeOK, RestRecord
<1>6. CASE RestWriteHead(w)
  <2>1. rest' = [rest EXCEPT ![w] = [rest[w] EXCEPT !.pc = "scan",
                                       !.todo = rest[w].todo \ {Current(w)}, !.seen = {}]]
    BY <1>1, <1>6 DEF RestWriteHead
  <2>2. [rest[w] EXCEPT !.pc = "scan", !.todo = rest[w].todo \ {Current(w)}, !.seen = {}]
          \in RestRecord
    BY <1>1 DEF RestRecord
  <2>3. rest' \in [Rest -> RestRecord]
    BY <1>1, <2>1, <2>2
  <2>4. Current(w) \in Node
    BY <1>1, <1>6 DEF RestWriteHead, StorageInv, ScanInv, RestRecord
  <2>5. MkNode(Current(w).tuple, Current(w).expire, 0) \in Node
    BY <2>4 DEF MkNode, Node
  <2>6. rest[w].seen \in SUBSET Node /\ rest[w].list \in Sky
    BY <1>1 DEF RestRecord
  <2>7. skylines' \in [Sky -> SUBSET Node] /\ rests' \in [Rest -> SUBSET Node]
    BY <1>2, <1>6, <2>5, <2>6 DEF RestWriteHead
  <2>8. UNCHANGED <<stream, message, gen, sky, conn, coll, queues, notifying, undefined>>
    BY <1>6 DEF RestWriteHead
  <2>9. lost' \subseteq Node
    <3>1. lost \subseteq Node /\ skylines[rest[w].list] \subseteq Node
      BY <1>2, <2>6 DEF TypeOK
    <3>2. QED
      BY <1>6, <3>1 DEF RestWriteHead, Overwritten
  <2>10. QED
    BY <2>3, <2>7, <2>8, <2>9 DEF TypeOK, RestRecord
<1>7. QED
  BY <1>3, <1>4, <1>5, <1>6

LEMMA RestWorkerTypes ==
  ASSUME TypeOK, OneToken, StorageInv, NEW w \in Rest, RestWorker(w)
  PROVE  TypeOK'
<1>1. rest \in [Rest -> RestRecord] /\ rest[w] \in RestRecord
  BY Types
<1>2. CASE RestPop(w)
  <2>1. rest' \in [Rest -> RestRecord]
    <3>1. CASE ~TupleRound
      <4>1. rest' = [rest EXCEPT ![w] = [rest[w] EXCEPT !.pc = "push", !.extracted = EOS]]
        BY <1>1, <1>2, <3>1, RestPopEffect
      <4>2. [rest[w] EXCEPT !.pc = "push", !.extracted = EOS] \in RestRecord
        BY <1>1 DEF RestRecord, Pointers
      <4>3. QED
        BY <1>1, <4>1, <4>2
    <3>2. CASE TupleRound
      <4>1. rest' = [rest EXCEPT ![w] = [rest[w] EXCEPT !.pc = "scan", !.extracted = Passed,
                                           !.insert = message[Passed].insert,
                                           !.todo = rests[w]]]
        <5>1. rest' = [rest EXCEPT ![w].pc = "scan", ![w].extracted = Passed,
                                   ![w].insert = message[Passed].insert, ![w].todo = rests[w]]
          BY <1>2, <3>2, RestPopEffect
        <5>2. QED
          BY <1>1, <5>1
      <4>2. Passed \in Sky /\ Passed \in Pointers
        BY <3>2, Types
      <4>3. message[Passed].insert \in Nat
        BY <4>2 DEF TypeOK
      <4>4. rests[w] \in SUBSET Node
        BY DEF TypeOK
      <4>5. [rest[w] EXCEPT !.pc = "scan", !.extracted = Passed,
               !.insert = message[Passed].insert, !.todo = rests[w]] \in RestRecord
        BY <1>1, <4>2, <4>3, <4>4 DEF RestRecord
      <4>6. QED
        BY <1>1, <4>1, <4>5
    <3>3. QED
      BY <3>1, <3>2
  <2>2. /\ UNCHANGED <<stream, gen, sky, conn, coll, message, skylines, rests, undefined, lost>>
        /\ queues' \in [QueueIds -> Seq(Int)] /\ notifying' \subseteq QueueIds
    BY <1>2, RestPopEffect
  <2>3. QED
    BY <2>1, <2>2 DEF TypeOK, RestRecord
<1>3. CASE RestPush(w)
  <2>1. rest' \in [Rest -> RestRecord]
    <3>1. CASE TupleRound
      <4>1. rest' = [rest EXCEPT ![w] = [rest[w] EXCEPT !.pc = "pop", !.i = @ + 1]]
        BY <1>1, <1>3, <3>1, RestPushEffect
      <4>2. rest[w].i + 1 \in Tick
        <5>1. rest[w].i = gen.i
          BY <1>3, RestPushEffect DEF RestBusy
        <5>2. gen.i \in 0..N /\ gen.i < N /\ N \in Nat
          BY <3>1, Types, ParametersAssumption DEF TupleRound
        <5>3. QED
          BY <5>1, <5>2 DEF Tick
      <4>3. [rest[w] EXCEPT !.pc = "pop", !.i = @ + 1] \in RestRecord
        BY <1>1, <4>2 DEF RestRecord
      <4>4. QED
        BY <1>1, <4>1, <4>3
    <3>2. CASE ~TupleRound
      <4>1. rest' = [rest EXCEPT ![w] = [rest[w] EXCEPT !.pc = "done"]]
        BY <1>1, <1>3, <3>2, RestPushEffect
      <4>2. [rest[w] EXCEPT !.pc = "done"] \in RestRecord
        BY <1>1 DEF RestRecord
      <4>3. QED
        BY <1>1, <4>1, <4>2
    <3>3. QED
      BY <3>1, <3>2
  <2>2. /\ UNCHANGED <<stream, gen, sky, conn, coll, message, skylines, rests, undefined, lost>>
        /\ queues' \in [QueueIds -> Seq(Int)] /\ notifying' \subseteq QueueIds
    BY <1>3, RestPushEffect
  <2>3. QED
    BY <2>1, <2>2 DEF TypeOK, RestRecord
<1>4. QED
  BY <1>2, <1>3, RestScanTypes DEF RestWorker

CollRecord == [pc : {"pop", "insert", "push", "done"}, i : Tick, j : Rest,
               extracted : Pointers, found : Found]

\* The node the collector makes.
NewNode == MkNode(TupleOf(coll.extracted), coll.i + W, coll.found.insert)

LEMMA CollectorInsertEffect ==
  ASSUME TypeOK, OneToken, CollectorInsert
  PROVE  /\ NewNode \in Node /\ NewNode.expire = coll.i + W
         /\ coll.pc = "insert" /\ coll' = [coll EXCEPT !.pc = "push"]
         /\ \/ /\ \E s \in Sky : skylines' = [skylines EXCEPT ![s] = @ \cup {NewNode}]
               /\ rests' = rests
            \/ /\ \E r \in Rest : rests' = [rests EXCEPT ![r] = @ \cup {NewNode}]
               /\ skylines' = skylines
         /\ skylines' \in [Sky -> SUBSET Node] /\ rests' \in [Rest -> SUBSET Node]
         /\ message' \in [Sky -> MessageRecord]
         /\ output' = IF WindowComplete(coll.i) /\ OnSlide(coll.i)
                      THEN Append(output, UNION {Tuples(skylines'[s]) : s \in Sky})
                      ELSE output
         /\ UNCHANGED <<stream, gen, sky, conn, rest, queues, notifying, window, windows, undefined, lost>>
<1>1. coll.pc = "insert" /\ coll' = [coll EXCEPT !.pc = "push"]
  BY DEF CollectorInsert
<1>2. coll \in CollRecord /\ coll.extracted = Passed /\ Passed \in Sky /\ TupleOf(Passed) \in Tuple
  BY <1>1, InsertMeansAnswered, Types DEF CollRecord
<1>3. coll.i \in Nat /\ coll.found \in Found /\ W \in Nat
  BY <1>2, ParametersAssumption, WAssumption DEF CollRecord, Tick
<1>4. coll.found.insert \in Nat /\ coll.found.sky \in BOOLEAN
  BY <1>3 DEF Found
<1>5. NewNode \in Node /\ NewNode.expire = coll.i + W
  BY <1>2, <1>3, <1>4 DEF NewNode, MkNode, Node
<1>6. \/ /\ \E s \in Sky : skylines' = [skylines EXCEPT ![s] = @ \cup {NewNode}]
         /\ rests' = rests
      \/ /\ \E r \in Rest : rests' = [rests EXCEPT ![r] = @ \cup {NewNode}]
         /\ skylines' = skylines
  BY DEF CollectorInsert, NewNode
<1>7. skylines \in [Sky -> SUBSET Node] /\ rests \in [Rest -> SUBSET Node]
      /\ message \in [Sky -> MessageRecord]
  BY DEF TypeOK, MessageRecord
<1>8. skylines' \in [Sky -> SUBSET Node] /\ rests' \in [Rest -> SUBSET Node]
  BY <1>5, <1>6, <1>7
<1>9. message' \in [Sky -> MessageRecord]
  <2>1. message' = [message EXCEPT ![Passed] = [message[Passed] EXCEPT !.sky = coll.found.sky,
                                                 !.insert = coll.found.insert]]
    BY <1>2, <1>7 DEF CollectorInsert
  <2>2. [message[Passed] EXCEPT !.sky = coll.found.sky, !.insert = coll.found.insert]
          \in MessageRecord
    BY <1>2, <1>4, <1>7 DEF MessageRecord
  <2>3. QED
    BY <1>7, <2>1, <2>2
<1>10. QED
  BY <1>1, <1>5, <1>6, <1>8, <1>9 DEF CollectorInsert

LEMMA CollectorTypes ==
  ASSUME TypeOK, OneToken, Collector
  PROVE  TypeOK'
<1>1. coll \in CollRecord
  BY Types DEF CollRecord
<1>2. CASE CollectorPop
  <2>1. coll' \in CollRecord
    BY <1>2, CollectorPopNext DEF CollRecord
  <2>2. /\ UNCHANGED <<stream, gen, sky, conn, rest, message, skylines, rests, undefined, lost>>
        /\ queues' \in [QueueIds -> Seq(Int)] /\ notifying' \subseteq QueueIds
    BY <1>2, CollectorPopEffect
  <2>3. QED
    BY <2>1, <2>2 DEF TypeOK, CollRecord
<1>3. CASE CollectorInsert
  <2>1. coll' \in CollRecord
    BY <1>1, <1>3, CollectorInsertEffect DEF CollRecord
  <2>2. /\ UNCHANGED <<stream, gen, sky, conn, rest, queues, notifying, undefined, lost>>
        /\ skylines' \in [Sky -> SUBSET Node] /\ rests' \in [Rest -> SUBSET Node]
        /\ message' \in [Sky -> MessageRecord]
    BY <1>3, CollectorInsertEffect
  <2>3. QED
    BY <2>1, <2>2 DEF TypeOK, CollRecord, MessageRecord
<1>4. CASE CollectorPush
  <2>1. coll.i + 1 \in Tick
    <3>1. coll.i = gen.i
      BY <1>4, CollectorPushEffect
    <3>2. gen.i \in 0..N /\ gen.i < N /\ N \in Nat
      BY <1>4, CollectorPushEffect, Types, ParametersAssumption DEF TupleRound
    <3>3. QED
      BY <3>1, <3>2 DEF Tick
  <2>2. coll' \in CollRecord
    BY <1>1, <1>4, <2>1, CollectorPushEffect DEF CollRecord
  <2>3. /\ UNCHANGED <<stream, gen, sky, conn, rest, message, skylines, rests, undefined, lost>>
        /\ queues' \in [QueueIds -> Seq(Int)] /\ notifying' \subseteq QueueIds
    BY <1>4, CollectorPushEffect
  <2>4. QED
    BY <2>2, <2>3 DEF TypeOK, CollRecord
<1>5. QED
  BY <1>2, <1>3, <1>4 DEF Collector

LEMMA TypeStep == TypeOK /\ OneToken /\ StorageInv /\ [Next]_vars => TypeOK'
<1> SUFFICES ASSUME TypeOK, OneToken, StorageInv, [Next]_vars
             PROVE  TypeOK'
  OBVIOUS
<1>1. ASSUME NEW x \in QueueIds, Notify(x) \/ PopUndefined(x)
      PROVE  TypeOK'
  <2>1. CASE Notify(x)
    BY <2>1 DEF Notify, TypeOK, heap, threads
  <2>2. CASE PopUndefined(x)
    BY <2>2 DEF PopUndefined, TypeOK, heap, threads
  <2>3. QED
    BY <1>1, <2>1, <2>2
<1>2. CASE UNCHANGED vars
  BY <1>2 DEF vars, heap, threads, TypeOK
<1>3. QED
  BY <1>1, <1>2, GeneratorTypes, SkyWorkerTypes, ConnectorTypes, RestWorkerTypes,
     CollectorTypes DEF Next

----------------------------------------------------------------------------
(* The nodes: no step puts a tuple on a second list.                       *)

Apart == ApartInSkylines /\ ApartInRests /\ SkylinesApartFromRests

\* Lists that only lose nodes stay apart.
LEMMA ApartShrinks ==
  ASSUME Apart,
         \A s \in Sky : Place(s)' \subseteq Place(s),
         \A r \in Rest : rests'[r] \subseteq rests[r]
  PROVE  Apart'
<1>1. ApartInSkylines' /\ ApartInRests' /\ SkylinesApartFromRests'
  BY DEF Apart, ApartInSkylines, ApartInRests, SkylinesApartFromRests
<1>2. QED
  BY <1>1 DEF Apart

\* A node no list has is put on a skyline list.
LEMMA ApartWithSkyNode ==
  ASSUME Apart, NEW l \in Sky, NEW node,
         \A s \in Sky : Place(s)' \subseteq Place(s) \cup (IF s = l THEN {node} ELSE {}),
         \A r \in Rest : rests'[r] \subseteq rests[r],
         \A s \in Sky : \A x \in Place(s) : x.expire # node.expire,
         \A r \in Rest : \A x \in rests'[r] : x.expire # node.expire
  PROVE  Apart'
<1>1. ASSUME NEW s1 \in Sky, NEW s2 \in Sky, NEW x \in Place(s1)', NEW y \in Place(s2)',
             x.expire = y.expire
      PROVE  s1 = s2 /\ x = y
  <2>1. x \in Place(s1) \/ (s1 = l /\ x = node)
    OBVIOUS
  <2>2. y \in Place(s2) \/ (s2 = l /\ y = node)
    OBVIOUS
  <2>3. CASE x \in Place(s1) /\ y \in Place(s2)
    BY <1>1, <2>3 DEF Apart, ApartInSkylines
  <2>4. QED
    BY <1>1, <2>1, <2>2, <2>3
<1>2. ApartInSkylines'
  BY <1>1 DEF ApartInSkylines
<1>3. ApartInRests'
  BY DEF Apart, ApartInRests
<1>4. ASSUME NEW s \in Sky, NEW r \in Rest, NEW x \in Place(s)', NEW y \in rests'[r]
      PROVE  x.expire # y.expire
  <2>1. x \in Place(s) \/ x = node
    OBVIOUS
  <2>2. y \in rests[r] /\ y.expire # node.expire
    OBVIOUS
  <2>3. QED
    BY <2>1, <2>2 DEF Apart, SkylinesApartFromRests
<1>5. SkylinesApartFromRests'
  BY <1>4 DEF SkylinesApartFromRests
<1>6. QED
  BY <1>2, <1>3, <1>5 DEF Apart

\* A node no list has is put on a rest list.
LEMMA ApartWithRestNode ==
  ASSUME Apart, NEW l \in Rest, NEW node,
         \A s \in Sky : Place(s)' \subseteq Place(s),
         \A r \in Rest : rests'[r] \subseteq rests[r] \cup (IF r = l THEN {node} ELSE {}),
         \A s \in Sky : \A x \in Place(s) : x.expire # node.expire,
         \A r \in Rest : \A x \in rests[r] : x.expire # node.expire
  PROVE  Apart'
<1>1. ASSUME NEW r1 \in Rest, NEW r2 \in Rest, NEW x \in rests'[r1], NEW y \in rests'[r2],
             x.expire = y.expire
      PROVE  r1 = r2 /\ x = y
  <2>1. x \in rests[r1] \/ (r1 = l /\ x = node)
    OBVIOUS
  <2>2. y \in rests[r2] \/ (r2 = l /\ y = node)
    OBVIOUS
  <2>3. CASE x \in rests[r1] /\ y \in rests[r2]
    BY <1>1, <2>3 DEF Apart, ApartInRests
  <2>4. QED
    BY <1>1, <2>1, <2>2, <2>3
<1>2. ApartInRests'
  BY <1>1 DEF ApartInRests
<1>3. ApartInSkylines'
  BY DEF Apart, ApartInSkylines
<1>4. ASSUME NEW s \in Sky, NEW r \in Rest, NEW x \in Place(s)', NEW y \in rests'[r]
      PROVE  x.expire # y.expire
  <2>1. x \in Place(s)
    OBVIOUS
  <2>2. y \in rests[r] \/ y = node
    OBVIOUS
  <2>3. QED
    BY <2>1, <2>2 DEF Apart, SkylinesApartFromRests
<1>5. SkylinesApartFromRests'
  BY <1>4 DEF SkylinesApartFromRests
<1>6. QED
  BY <1>2, <1>3, <1>5 DEF Apart

\* What is in a place, before and after a step.
LEMMA InPlace ==
  ASSUME NEW s, NEW x
  PROVE  /\ x \in Place(s) <=>
              x \in skylines[s] \/ \E r \in Rest : rest[r].list = s /\ x \in rest[r].seen
         /\ x \in Place(s)' <=>
              x \in skylines'[s] \/ \E r \in Rest : rest'[r].list = s /\ x \in rest'[r].seen
BY DEF Place

\* Where the lists stand still and the rest workers keep what they have read,
\* so do the places.
LEMMA PlaceFrame ==
  ASSUME UNCHANGED skylines,
         \A r \in Rest : rest'[r].seen = rest[r].seen /\ rest'[r].list = rest[r].list,
         NEW s
  PROVE  Place(s)' = Place(s)
BY DEF Place

\* A step that leaves the lists alone, the count of tuples on them, and what
\* the rest workers have in their hands.
LEMMA StorageFrame ==
  ASSUME StorageInv, UNCHANGED <<skylines, rests>>, Handled' = Handled,
         \A r \in Rest : /\ rest'[r].seen = rest[r].seen /\ rest'[r].list = rest[r].list
                         /\ rest'[r].todo \subseteq rests[r]
                         /\ rest'[r].pc \in {"move", "write"} =>
                              Current(r)' \in rest'[r].todo
  PROVE  StorageInv'
<1>1. \A s \in Sky : Place(s)' = Place(s)
  BY PlaceFrame
<1>2. Apart'
  BY <1>1, ApartShrinks DEF StorageInv, Apart
<1>3. StoredBefore'
  BY <1>1 DEF StorageInv, StoredBefore
<1>4. ScanInv'
  BY DEF ScanInv
<1>5. QED
  BY <1>2, <1>3, <1>4 DEF StorageInv, Apart

\* The rest workers' part of StorageFrame when none of them moves.
LEMMA RestStands ==
  ASSUME StorageInv, UNCHANGED rest
  PROVE  \A r \in Rest : /\ rest'[r].seen = rest[r].seen /\ rest'[r].list = rest[r].list
                         /\ rest'[r].todo \subseteq rests[r]
                         /\ rest'[r].pc \in {"move", "write"} => Current(r)' \in rest'[r].todo
BY DEF StorageInv, ScanInv, Current

LEMMA SkyWorkerStorage ==
  ASSUME TypeOK, OneToken, StorageInv, NEW w \in Sky, SkyWorker(w)
  PROVE  StorageInv'
<1>1. CASE SkyPop(w) \/ SkyPush(w)
  <2>1. UNCHANGED <<skylines, rests, rest, coll>>
    BY <1>1, SkyPopEffect, SkyPushEffect
  <2>2. QED
    BY <2>1, RestStands, StorageFrame DEF Handled
<1>2. CASE SkyScan(w)
  <2>1. UNCHANGED <<rests, rest, coll>>
    BY <1>2 DEF SkyScan
  <2>2. \A s \in Sky : skylines'[s] \subseteq skylines[s]
    BY <1>2, SkyScanEffect
  <2>3. \A s \in Sky : Place(s)' \subseteq Place(s)
    BY <2>1, <2>2 DEF Place
  <2>4. Apart'
    BY <2>1, <2>3, ApartShrinks DEF StorageInv, Apart
  <2>5. StoredBefore'
    BY <2>1, <2>3 DEF StorageInv, StoredBefore, Handled
  <2>6. ScanInv'
    BY <2>1, RestStands DEF ScanInv
  <2>7. QED
    BY <2>4, <2>5, <2>6 DEF StorageInv, Apart
<1>3. QED
  BY <1>1, <1>2 DEF SkyWorker

LEMMA RestWorkerStorage ==
  ASSUME TypeOK, OneToken, StorageInv, NEW w \in Rest, RestWorker(w)
  PROVE  StorageInv'
<1>1. rest \in [Rest -> RestRecord] /\ rest[w] \in RestRecord
  BY Types
<1>2. skylines \in [Sky -> SUBSET Node] /\ rests \in [Rest -> SUBSET Node]
  BY DEF TypeOK
<1>3. ASSUME NEW record, rest' = [rest EXCEPT ![w] = record]
      PROVE  rest'[w] = record /\ \A r \in Rest : r # w => rest'[r] = rest[r]
  BY <1>1, <1>3
<1>4. ASSUME NEW r \in Rest, rest'[r] = rest[r]
      PROVE  /\ rest'[r].todo \subseteq rests[r]
             /\ rest'[r].pc \in {"move", "write"} => Current(r)' \in rest'[r].todo
  BY <1>4 DEF StorageInv, ScanInv, Current
<1>5. ASSUME UNCHANGED <<skylines, rests, coll>>, NEW record, rest' = [rest EXCEPT ![w] = record],
             record.seen = rest[w].seen, record.list = rest[w].list,
             record.todo \subseteq rests[w],
             record.pc \in {"move", "write"} =>
               record.todo = rest[w].todo /\ Current(w) \in rest[w].todo
      PROVE  StorageInv'
  <2>1. rest'[w] = record /\ \A r \in Rest : r # w => rest'[r] = rest[r]
    BY <1>3, <1>5
  <2>2. rest'[w].pc \in {"move", "write"} => Current(w)' \in rest'[w].todo
    BY <1>5, <2>1 DEF Current
  <2>3. Handled' = Handled
    BY <1>5 DEF Handled
  <2>4. \A r \in Rest : /\ rest'[r].seen = rest[r].seen /\ rest'[r].list = rest[r].list
                        /\ rest'[r].todo \subseteq rests[r]
                        /\ rest'[r].pc \in {"move", "write"} => Current(r)' \in rest'[r].todo
    BY <1>4, <1>5, <2>1, <2>2
  <2>5. QED
    BY <1>5, <2>3, <2>4, StorageFrame
<1>6. rest[w].todo \subseteq rests[w]
  BY DEF StorageInv, ScanInv
<1>7. CASE RestPop(w)
  <2>1. UNCHANGED <<skylines, rests, coll>>
    BY <1>7, RestPopEffect
  <2>2. CASE ~TupleRound
    <3>1. rest' = [rest EXCEPT ![w] = [rest[w] EXCEPT !.pc = "push", !.extracted = EOS]]
      BY <1>1, <1>7, <2>2, RestPopEffect
    <3>2. QED
      BY <1>1, <1>5, <1>6, <2>1, <3>1 DEF RestRecord
  <2>3. CASE TupleRound
    <3>1. rest' = [rest EXCEPT ![w].pc = "scan", ![w].extracted = Passed,
                               ![w].insert = message[Passed].insert, ![w].todo = rests[w]]
      BY <1>7, <2>3, RestPopEffect
    <3>2. rest' = [rest EXCEPT ![w] = [rest[w] EXCEPT !.pc = "scan", !.extracted = Passed,
                                         !.insert = message[Passed].insert, !.todo = rests[w]]]
      BY <1>1, <3>1
    <3>3. QED
      BY <1>1, <1>5, <2>1, <3>2 DEF RestRecord
  <2>4. QED
    BY <2>2, <2>3
<1>8. CASE RestPush(w)
  <2>1. UNCHANGED <<skylines, rests, coll>>
    BY <1>8, RestPushEffect
  <2>2. \/ rest' = [rest EXCEPT ![w] = [rest[w] EXCEPT !.pc = "pop", !.i = @ + 1]]
        \/ rest' = [rest EXCEPT ![w] = [rest[w] EXCEPT !.pc = "done"]]
    BY <1>1, <1>8, RestPushEffect
  <2>3. QED
    BY <1>1, <1>5, <1>6, <2>1, <2>2 DEF RestRecord
<1>9. CASE RestKeep(w)
  <2>1. UNCHANGED <<skylines, rests, coll>>
    BY <1>9 DEF RestKeep
  <2>2. \/ rest' = [rest EXCEPT ![w] = [rest[w] EXCEPT !.pc = "move"]]
        \/ rest' = [rest EXCEPT ![w] = [rest[w] EXCEPT !.todo = rest[w].todo \ {Current(w)}]]
    BY <1>1, <1>9 DEF RestKeep
  <2>3. Current(w) \in rest[w].todo /\ rest[w].pc = "scan"
    BY <1>9, RestKeepEffect
  <2>4. QED
    BY <1>1, <1>5, <1>6, <2>1, <2>2, <2>3 DEF RestRecord
<1>10. CASE RestDelete(w)
  <2>1. UNCHANGED <<skylines, coll>> /\ rests' = [rests EXCEPT ![w] = @ \ {Current(w)}]
    BY <1>10 DEF RestDelete
  <2>2. rest' = [rest EXCEPT ![w] = [rest[w] EXCEPT !.todo = rest[w].todo \ {Current(w)}]]
    BY <1>1, <1>10 DEF RestDelete
  <2>3. /\ rest'[w] = [rest[w] EXCEPT !.todo = rest[w].todo \ {Current(w)}]
        /\ \A r \in Rest : r # w => rest'[r] = rest[r]
    BY <1>3, <2>2
  <2>4. rest'[w].seen = rest[w].seen /\ rest'[w].list = rest[w].list /\ rest'[w].pc = "scan"
        /\ rest'[w].todo = rest[w].todo \ {Current(w)}
    BY <1>1, <1>10, <2>3 DEF RestRecord, RestDelete, Visiting
  <2>5. /\ rests'[w] = rests[w] \ {Current(w)}
        /\ \A r \in Rest : r # w => rests'[r] = rests[r]
    BY <1>2, <2>1
  <2>6. \A s \in Sky : Place(s)' = Place(s)
    BY <2>1, <2>3, <2>4, PlaceFrame
  <2>7. Apart'
    BY <2>5, <2>6, ApartShrinks DEF StorageInv, Apart
  <2>8. StoredBefore'
    BY <2>1, <2>5, <2>6 DEF StorageInv, StoredBefore, Handled
  <2>9. ScanInv'
    BY <1>4, <1>6, <2>3, <2>4, <2>5 DEF ScanInv
  <2>10. QED
    BY <2>7, <2>8, <2>9 DEF StorageInv, Apart
<1>11. CASE RestReadHead(w)
  <2>1. PICK l \in Sky : rest' = [rest EXCEPT ![w].pc = "write", ![w].list = l,
                                              ![w].seen = skylines[l]]
    BY <1>11 DEF RestReadHead
  <2>2. rest' = [rest EXCEPT ![w] = [rest[w] EXCEPT !.pc = "write", !.list = l,
                                                    !.seen = skylines[l]]]
    BY <1>1, <2>1
  <2>3. /\ rest'[w] = [rest[w] EXCEPT !.pc = "write", !.list = l, !.seen = skylines[l]]
        /\ \A r \in Rest : r # w => rest'[r] = rest[r]
    BY <1>3, <2>2
  <2>4. rest'[w].seen = skylines[l] /\ rest'[w].list = l /\ rest'[w].todo = rest[w].todo
    BY <1>1, <2>3 DEF RestRecord
  <2>5. UNCHANGED <<skylines, rests, coll>>
    BY <1>11 DEF RestReadHead, heap
  <2>6. ASSUME NEW s \in Sky, NEW x \in Place(s)'
        PROVE  x \in Place(s)
    <3>1. CASE x \in skylines[s]
      BY <3>1, InPlace
    <3>2. ASSUME NEW r \in Rest, rest'[r].list = s, x \in rest'[r].seen
          PROVE  x \in Place(s)
      <4>1. CASE r = w
        BY <2>4, <3>1, <3>2, <4>1, InPlace
      <4>2. CASE r # w
        <5>1. rest[r].list = s /\ x \in rest[r].seen
          BY <2>3, <3>2, <4>2
        <5>2. QED
          BY <5>1, InPlace
      <4>3. QED
        BY <4>1, <4>2
    <3>3. x \in skylines[s] \/ \E r \in Rest : rest'[r].list = s /\ x \in rest'[r].seen
      BY <2>5, InPlace
    <3>4. QED
      BY <3>1, <3>2, <3>3
  <2>7. Apart'
    BY <2>5, <2>6, ApartShrinks DEF StorageInv, Apart
  <2>8. StoredBefore'
    BY <2>5, <2>6 DEF StorageInv, StoredBefore, Handled
  <2>9. Current(w) \in rest[w].todo
    BY <1>11 DEF RestReadHead, StorageInv, ScanInv
  <2>10. Current(w)' = Current(w)
    BY <2>4 DEF Current
  <2>11. ScanInv'
    BY <1>4, <1>6, <2>3, <2>4, <2>5, <2>9, <2>10 DEF ScanInv
  <2>12. QED
    BY <2>7, <2>8, <2>11 DEF StorageInv, Apart
<1>12. CASE RestWriteHead(w)
  <2> DEFINE x == Current(w)
             l == rest[w].list
             node == MkNode(x.tuple, x.expire, 0)
  <2>1. x \in rest[w].todo /\ x \in rests[w] /\ x \in Node /\ l \in Sky
    BY <1>1, <1>2, <1>6, <1>12 DEF RestWriteHead, StorageInv, ScanInv, RestRecord
  <2>2. node.expire = x.expire
    BY DEF MkNode
  <2> HIDE DEF node
  <2>3. rest' = [rest EXCEPT ![w] = [rest[w] EXCEPT !.pc = "scan", !.todo = rest[w].todo \ {x},
                                                    !.seen = {}]]
    BY <1>1, <1>12 DEF RestWriteHead
  <2>4. /\ rest'[w] = [rest[w] EXCEPT !.pc = "scan", !.todo = rest[w].todo \ {x}, !.seen = {}]
        /\ \A r \in Rest : r # w => rest'[r] = rest[r]
    BY <1>3, <2>3
  <2>5. rest'[w].seen = {} /\ rest'[w].list = l /\ rest'[w].pc = "scan"
        /\ rest'[w].todo = rest[w].todo \ {x}
    BY <1>1, <2>4 DEF RestRecord
  <2>6. skylines' = [skylines EXCEPT ![l] = rest[w].seen \cup {node}]
        /\ rests' = [rests EXCEPT ![w] = @ \ {x}] /\ coll' = coll
    BY <1>12 DEF RestWriteHead, node
  <2>7. /\ skylines'[l] = rest[w].seen \cup {node}
        /\ \A s \in Sky : s # l => skylines'[s] = skylines[s]
        /\ rests'[w] = rests[w] \ {x}
        /\ \A r \in Rest : r # w => rests'[r] = rests[r]
    BY <1>2, <2>1, <2>6
  <2>8. rest[w].seen \subseteq Place(l)
    BY DEF Place
  <2>9. ASSUME NEW s \in Sky
        PROVE  Place(s)' \subseteq Place(s) \cup (IF s = l THEN {node} ELSE {})
    <3>1. ASSUME NEW r \in Rest, rest'[r].list = s, NEW y \in rest'[r].seen
          PROVE  y \in Place(s)
      <4>1. r # w
        BY <2>5, <3>1
      <4>2. QED
        BY <2>4, <3>1, <4>1, InPlace
    <3>2. skylines'[s] \subseteq Place(s) \cup (IF s = l THEN {node} ELSE {})
      <4>1. CASE s = l
        BY <2>7, <2>8, <4>1
      <4>2. CASE s # l
        BY <2>7, <4>2 DEF Place
      <4>3. QED
        BY <4>1, <4>2
    <3>3. QED
      BY <3>1, <3>2, InPlace
  <2>10. \A s \in Sky : \A y \in Place(s) : y.expire # node.expire
    BY <2>1, <2>2 DEF StorageInv, SkylinesApartFromRests
  <2>11. ASSUME NEW r \in Rest, NEW y \in rests'[r]
         PROVE  y.expire # node.expire
    <3>1. y \in rests[r] /\ (r = w => y # x)
      BY <2>7
    <3>2. QED
      BY <2>1, <2>2, <3>1 DEF StorageInv, ApartInRests
  <2>12. Apart'
    BY <2>1, <2>7, <2>9, <2>10, <2>11, ApartWithSkyNode DEF StorageInv, Apart
  <2>13. StoredBefore'
    <3>1. Handled' = Handled
      BY <2>6 DEF Handled
    <3>2. node.expire < Handled + W
      BY <2>1, <2>2 DEF StorageInv, StoredBefore
    <3>3. ASSUME NEW s \in Sky, NEW y \in Place(s)'
          PROVE  y.expire < Handled + W
      <4>1. y \in Place(s) \/ y = node
        BY <2>9
      <4>2. QED
        BY <3>2, <4>1 DEF StorageInv, StoredBefore
    <3>4. QED
      BY <2>7, <3>1, <3>3 DEF StorageInv, StoredBefore
  <2>14. ScanInv'
    BY <1>4, <1>6, <2>4, <2>5, <2>7 DEF ScanInv
  <2>15. QED
    BY <2>12, <2>13, <2>14 DEF StorageInv, Apart
<1>13. QED
  BY <1>7, <1>8, <1>9, <1>10, <1>11, <1>12 DEF RestWorker

LEMMA CollectorStorage ==
  ASSUME TypeOK, OneToken, StorageInv, Collector
  PROVE  StorageInv'
<1>1. coll \in CollRecord /\ coll.i \in Nat /\ W \in Nat \ {0}
  BY Types, ParametersAssumption, WAssumption DEF CollRecord, Tick
<1>2. CASE CollectorPop
  <2>1. UNCHANGED <<skylines, rests, rest>> /\ coll.i = gen.i /\ coll.pc = "pop"
    BY <1>2, CollectorPopEffect
  <2>2. coll'.i = gen.i /\ coll'.pc \in {"pop", "insert", "done"}
    BY <1>2, CollectorPopNext
  <2>3. Handled' = Handled
    BY <2>1, <2>2 DEF Handled
  <2>4. QED
    BY <2>1, <2>3, RestStands, StorageFrame
<1>3. CASE CollectorPush
  <2>1. /\ UNCHANGED <<skylines, rests, rest>> /\ coll.pc = "push"
        /\ coll'.pc = "pop" /\ coll'.i = coll.i + 1
    BY <1>3, CollectorPushEffect
  <2>2. Handled' = Handled
    BY <1>1, <2>1 DEF Handled
  <2>3. QED
    BY <2>1, <2>2, RestStands, StorageFrame
<1>4. CASE CollectorInsert
  <2> DEFINE node == NewNode
  <2>1. /\ node \in Node /\ node.expire = coll.i + W
        /\ coll.pc = "insert" /\ coll' = [coll EXCEPT !.pc = "push"]
        /\ UNCHANGED rest
        /\ \/ /\ \E s \in Sky : skylines' = [skylines EXCEPT ![s] = @ \cup {node}]
              /\ rests' = rests
           \/ /\ \E r \in Rest : rests' = [rests EXCEPT ![r] = @ \cup {node}]
              /\ skylines' = skylines
    BY <1>4, CollectorInsertEffect
  <2> HIDE DEF node
  <2>2. Handled = coll.i /\ Handled' = coll.i + 1
    BY <1>1, <2>1 DEF CollRecord, Handled
  <2>3. skylines \in [Sky -> SUBSET Node] /\ rests \in [Rest -> SUBSET Node]
        /\ rest \in [Rest -> RestRecord]
    BY Types DEF TypeOK
  <2>4. /\ \A s \in Sky : \A x \in Place(s) : x \in Node /\ x.expire < node.expire
        /\ \A r \in Rest : \A x \in rests[r] : x \in Node /\ x.expire < node.expire
    <3>1. ASSUME NEW s \in Sky, NEW x \in Place(s)
          PROVE  x \in Node
      BY <2>3, InPlace DEF RestRecord
    <3>2. QED
      BY <2>1, <2>2, <2>3, <3>1 DEF StorageInv, StoredBefore
  <2>5. /\ \A s \in Sky : \A x \in Place(s) : x.expire # node.expire
        /\ \A r \in Rest : \A x \in rests[r] : x.expire # node.expire
    BY <1>1, <2>1, <2>4 DEF Node
  <2>6. ASSUME NEW x \in Node, x.expire < coll.i + W
        PROVE  x.expire < coll.i + 1 + W
    BY <1>1, <2>6 DEF Node
  <2>7. node.expire < coll.i + 1 + W
    BY <1>1, <2>1
  <2>8. CASE rests' = rests /\ \E s \in Sky : skylines' = [skylines EXCEPT ![s] = @ \cup {node}]
    <3>1. PICK l \in Sky : skylines' = [skylines EXCEPT ![l] = @ \cup {node}]
      BY <2>8
    <3>2. ASSUME NEW s \in Sky
          PROVE  Place(s)' \subseteq Place(s) \cup (IF s = l THEN {node} ELSE {})
      <4>1. skylines'[s] \subseteq skylines[s] \cup (IF s = l THEN {node} ELSE {})
        BY <2>3, <3>1
      <4>2. QED
        BY <2>1, <4>1, InPlace
    <3>3. Apart'
      BY <2>5, <2>8, <3>2, ApartWithSkyNode DEF StorageInv, Apart
    <3>4. StoredBefore'
      <4>1. ASSUME NEW s \in Sky, NEW x \in Place(s)'
            PROVE  x.expire < coll.i + 1 + W
        BY <2>1, <2>4, <2>6, <2>7, <3>2
      <4>2. ASSUME NEW r \in Rest, NEW x \in rests'[r]
            PROVE  x.expire < coll.i + 1 + W
        BY <2>1, <2>4, <2>6, <2>8
      <4>3. QED
        BY <2>2, <4>1, <4>2 DEF StoredBefore
    <3>5. ScanInv'
      BY <2>1, <2>8, RestStands DEF ScanInv
    <3>6. QED
      BY <3>3, <3>4, <3>5 DEF StorageInv, Apart
  <2>9. CASE skylines' = skylines /\ \E r \in Rest : rests' = [rests EXCEPT ![r] = @ \cup {node}]
    <3>1. PICK l \in Rest : rests' = [rests EXCEPT ![l] = @ \cup {node}]
      BY <2>9
    <3>2. ASSUME NEW r \in Rest
          PROVE  /\ rests'[r] \subseteq rests[r] \cup (IF r = l THEN {node} ELSE {})
                 /\ rests[r] \subseteq rests'[r]
      BY <2>3, <3>1
    <3>3. \A s \in Sky : Place(s)' = Place(s)
      BY <2>1, <2>9, PlaceFrame
    <3>4. Apart'
      BY <2>5, <3>2, <3>3, ApartWithRestNode DEF StorageInv, Apart
    <3>5. StoredBefore'
      <4>1. ASSUME NEW s \in Sky, NEW x \in Place(s)'
            PROVE  x.expire < coll.i + 1 + W
        BY <2>1, <2>4, <2>6, <3>3
      <4>2. ASSUME NEW r \in Rest, NEW x \in rests'[r]
            PROVE  x.expire < coll.i + 1 + W
        BY <2>1, <2>4, <2>6, <2>7, <3>2
      <4>3. QED
        BY <2>2, <4>1, <4>2 DEF StoredBefore
    <3>6. ScanInv'
      BY <2>1, <3>2, RestStands DEF ScanInv
    <3>7. QED
      BY <3>4, <3>5, <3>6 DEF StorageInv, Apart
  <2>10. QED
    BY <2>1, <2>8, <2>9
<1>5. QED
  BY <1>2, <1>3, <1>4 DEF Collector

LEMMA StorageStep == TypeOK /\ OneToken /\ StorageInv /\ [Next]_vars => StorageInv'
<1> SUFFICES ASSUME TypeOK, OneToken, StorageInv, [Next]_vars
             PROVE  StorageInv'
  OBVIOUS
<1>1. ASSUME UNCHANGED <<skylines, rests, rest, coll>>
      PROVE  StorageInv'
  BY <1>1, RestStands, StorageFrame DEF Handled
<1>2. ASSUME NEW x \in QueueIds, Notify(x) \/ PopUndefined(x)
      PROVE  UNCHANGED <<skylines, rests, rest, coll>>
  BY <1>2 DEF Notify, PopUndefined, heap, threads
<1>3. CASE Generator
  <2>1. UNCHANGED <<skylines, rests, rest, coll>>
    BY <1>3, GeneratorPushEffect, GeneratorPopEffect
       DEF Generator, GenerateTuple, EndOfStream, heap
  <2>2. QED
    BY <1>1, <2>1
<1>4. CASE Connector
  <2>1. UNCHANGED <<skylines, rests, rest, coll>>
    BY <1>4, ConnectorPopEffect, ConnectorPushEffect DEF Connector
  <2>2. QED
    BY <1>1, <2>1
<1>5. CASE UNCHANGED vars
  BY <1>1, <1>5 DEF vars, heap, threads
<1>6. QED
  BY <1>1, <1>2, <1>3, <1>4, <1>5, SkyWorkerStorage, RestWorkerStorage, CollectorStorage
     DEF Next

----------------------------------------------------------------------------
(* What is printed.                                                        *)

\* A window is printed just where the number of those due grows.
LEMMA DueStep ==
  ASSUME NEW i \in Nat
  PROVE  /\ Due(i) \in Nat
         /\ Due(i + 1) = IF WindowComplete(i) /\ OnSlide(i) THEN Due(i) + 1 ELSE Due(i)
<1>1. W \in Nat \ {0} /\ K \in Nat \ {0}
  BY WAssumption, ParametersAssumption
<1>2. Due(i) = WindowsDue(i, W, K) /\ Due(i + 1) = WindowsDue(i + 1, W, K)
  BY Zenon DEF Due, WindowsDue
<1>3. /\ WindowsDue(i, W, K) \in Nat
      /\ WindowsDue(i + 1, W, K) = IF i >= W - 1 /\ (i + 1 - W) % K = 0
                                  THEN WindowsDue(i, W, K) + 1
                                  ELSE WindowsDue(i, W, K)
  BY <1>1, WindowCount
<1>4. QED
  BY <1>2, <1>3, Zenon DEF WindowComplete, OnSlide

\* A step that prints nothing and takes nothing in.
LEMMA OutputFrame ==
  ASSUME OutputInv, UNCHANGED <<stream, window, windows, output>>, Handled' = Handled
  PROVE  OutputInv'
BY DEF OutputInv

LEMMA GenerateOutput ==
  ASSUME TypeOK, OneToken, OutputInv, GenerateTuple
  PROVE  OutputInv'
<1>1. gen.i \in Nat /\ Len(stream) = gen.i /\ stream \in Seq(Tuple)
  BY Types, ParametersAssumption
     DEF GenerateTuple, MoreTuples, OneToken, StreamInv, TypeOK
<1>2. PICK t \in Tuple :
        /\ stream' = Append(stream, t)
        /\ window' = IF WindowComplete(gen.i)
                     THEN SubSeq(<<t>> \o window, 1, Len(<<t>> \o window) - 1)
                     ELSE <<t>> \o window
        /\ windows' = IF WindowComplete(gen.i) /\ OnSlide(gen.i)
                      THEN Append(windows, <<t>> \o window) ELSE windows
  BY DEF GenerateTuple
<1> DEFINE full == <<t>> \o window
<1>3. full \in Seq(Tuple) /\ Len(full) \in Nat /\ Len(full) >= 1
  <2>1. window \in Seq(Tuple) /\ <<t>> \in Seq(Tuple)
    BY DEF OutputInv
  <2>2. Len(<<t>> \o window) = 1 + Len(window) /\ Len(window) \in Nat
    BY <2>1
  <2>3. QED
    BY <2>1, <2>2
<1>4. SubSeq(full, 1, Len(full) - 1) \in Seq(Tuple)
  <2>1. \A n \in 1..(Len(full) - 1) : full[n] \in Tuple
    BY <1>3
  <2>2. QED
    BY <1>3, <2>1
<1> HIDE DEF full
<1>5. window' \in Seq(Tuple)
  BY <1>2, <1>3, <1>4 DEF full
<1>6. Len(stream') = gen.i + 1
  BY <1>1, <1>2
<1>7. windows' \in Seq(Seq(Tuple)) /\ Len(windows') = Due(gen.i + 1)
  <2>1. windows \in Seq(Seq(Tuple)) /\ Len(windows) = Due(gen.i)
    BY <1>1 DEF OutputInv
  <2>2. CASE WindowComplete(gen.i) /\ OnSlide(gen.i)
    <3>1. windows' = Append(windows, full) /\ Due(gen.i + 1) = Due(gen.i) + 1
      BY <1>1, <1>2, <2>2, DueStep DEF full
    <3>2. windows' \in Seq(Seq(Tuple)) /\ Len(windows') = Len(windows) + 1
      BY <1>3, <2>1, <3>1, AppendProperties
    <3>3. QED
      BY <2>1, <3>1, <3>2
  <2>3. CASE ~(WindowComplete(gen.i) /\ OnSlide(gen.i))
    <3>1. windows' = windows /\ Due(gen.i + 1) = Due(gen.i)
      BY <1>1, <1>2, <2>3, DueStep
    <3>2. QED
      BY <2>1, <3>1
  <2>4. QED
    BY <2>2, <2>3
<1>8. output' = output /\ Handled' = Handled
  BY DEF GenerateTuple, Handled
<1>9. QED
  BY <1>5, <1>6, <1>7, <1>8 DEF OutputInv

LEMMA CollectorOutput ==
  ASSUME TypeOK, OneToken, OutputInv, Collector
  PROVE  OutputInv'
<1>1. coll \in CollRecord /\ coll.i \in Nat
  BY Types, ParametersAssumption DEF CollRecord, Tick
<1>2. CASE CollectorPop
  <2>1. UNCHANGED <<stream, window, windows, output>> /\ coll.i = gen.i /\ coll.pc = "pop"
    BY <1>2, CollectorPopEffect
  <2>2. coll'.i = gen.i /\ coll'.pc \in {"pop", "insert", "done"}
    BY <1>2, CollectorPopNext
  <2>3. Handled' = Handled
    BY <2>1, <2>2 DEF Handled
  <2>4. QED
    BY <2>1, <2>3, OutputFrame
<1>3. CASE CollectorPush
  <2>1. /\ UNCHANGED <<stream, window, windows, output>> /\ coll.pc = "push"
        /\ coll'.pc = "pop" /\ coll'.i = coll.i + 1
    BY <1>3, CollectorPushEffect
  <2>2. Handled' = Handled
    BY <1>1, <2>1 DEF Handled
  <2>3. QED
    BY <2>1, <2>2, OutputFrame
<1>4. CASE CollectorInsert
  <2>1. /\ UNCHANGED <<stream, window, windows>>
        /\ coll.pc = "insert" /\ coll' = [coll EXCEPT !.pc = "push"]
        /\ skylines' \in [Sky -> SUBSET Node]
        /\ output' = IF WindowComplete(coll.i) /\ OnSlide(coll.i)
                     THEN Append(output, UNION {Tuples(skylines'[s]) : s \in Sky})
                     ELSE output
    BY <1>4, CollectorInsertEffect
  <2>2. Handled = coll.i /\ Handled' = coll.i + 1
    BY <1>1, <2>1 DEF CollRecord, Handled
  <2> DEFINE printedNow == UNION {Tuples(skylines'[s]) : s \in Sky}
  <2>3. printedNow \in SUBSET Tuple
    BY <2>1 DEF Tuples, Node
  <2> HIDE DEF printedNow
  <2>4. output \in Seq(SUBSET Tuple) /\ Len(output) = Due(coll.i)
    BY <2>2 DEF OutputInv
  <2>5. output' \in Seq(SUBSET Tuple) /\ Len(output') = Due(coll.i + 1)
    <3>1. CASE WindowComplete(coll.i) /\ OnSlide(coll.i)
      <4>1. output' = Append(output, printedNow) /\ Due(coll.i + 1) = Due(coll.i) + 1
        BY <1>1, <2>1, <3>1, DueStep DEF printedNow
      <4>2. QED
        BY <2>3, <2>4, <4>1
    <3>2. CASE ~(WindowComplete(coll.i) /\ OnSlide(coll.i))
      <4>1. output' = output /\ Due(coll.i + 1) = Due(coll.i)
        BY <1>1, <2>1, <3>2, DueStep
      <4>2. QED
        BY <2>4, <4>1
    <3>3. QED
      BY <3>1, <3>2
  <2>6. QED
    BY <2>1, <2>2, <2>5 DEF OutputInv
<1>5. QED
  BY <1>2, <1>3, <1>4 DEF Collector

LEMMA OutputStep == TypeOK /\ OneToken /\ OutputInv /\ [Next]_vars => OutputInv'
<1> SUFFICES ASSUME TypeOK, OneToken, OutputInv, [Next]_vars
             PROVE  OutputInv'
  OBVIOUS
<1>1. ASSUME UNCHANGED <<stream, window, windows, output, coll>>
      PROVE  OutputInv'
  BY <1>1, OutputFrame DEF Handled
<1>2. CASE EndOfStream \/ GeneratorPush \/ GeneratorPop
  <2>1. UNCHANGED <<stream, window, windows, output, coll>>
    BY <1>2, GeneratorPushEffect, GeneratorPopEffect DEF EndOfStream, heap, printed
  <2>2. QED
    BY <1>1, <2>1
<1>3. ASSUME NEW s \in Sky, SkyWorker(s)
      PROVE  UNCHANGED <<stream, window, windows, output, coll>>
  BY <1>3, SkyPopEffect, SkyPushEffect DEF SkyWorker, SkyScan, printed
<1>4. CASE Connector
  <2>1. UNCHANGED <<stream, window, windows, output, coll>>
    BY <1>4, ConnectorPopEffect, ConnectorPushEffect DEF Connector
  <2>2. QED
    BY <1>1, <2>1
<1>5. ASSUME NEW r \in Rest, RestWorker(r)
      PROVE  UNCHANGED <<stream, window, windows, output, coll>>
  BY <1>5, RestPopEffect, RestPushEffect
     DEF RestWorker, RestDelete, RestKeep, RestReadHead, RestWriteHead, heap, printed
<1>6. ASSUME NEW x \in QueueIds, Notify(x) \/ PopUndefined(x)
      PROVE  UNCHANGED <<stream, window, windows, output, coll>>
  BY <1>6 DEF Notify, PopUndefined, heap, threads, printed
<1>7. CASE UNCHANGED vars
  BY <1>1, <1>7 DEF vars, heap, threads, printed
<1>8. QED
  BY <1>1, <1>2, <1>3, <1>4, <1>5, <1>6, <1>7, GenerateOutput, CollectorOutput
     DEF Next, Generator

----------------------------------------------------------------------------
(* The theorems.                                                           *)

LEMMA InitOK == Init => IInv
<1> SUFFICES ASSUME Init
             PROVE  IInv
  OBVIOUS
<1> USE DEF Init
<1>1. N \in Nat /\ N >= W /\ W \in Nat \ {0} /\ 0 \in Sky /\ 0 \in Rest /\ 0 \in Tick
  BY ParametersAssumption, WAssumption DEF Sky, Rest, Tick
<1>2. TypeOK
  <2>1. stream \in Seq(Tuple) /\ Len(stream) <= N
    BY <1>1
  <2>2. gen \in GenRecord /\ sky \in [Sky -> SkyRecord] /\ rest \in [Rest -> RestRecord]
        /\ coll \in CollRecord
    BY <1>1 DEF GenRecord, SkyRecord, RestRecord, CollRecord, Pointers, Found
  <2>3. conn \in [pc : {"pop", "push", "done"}, j : Sky \cup Rest, extracted : Pointers,
                  found : Found]
    BY <1>1 DEF Pointers, Found
  <2>4. message \in [Sky -> MessageRecord] /\ queues \in [QueueIds -> Seq(Int)]
    BY DEF MessageRecord
  <2>5. skylines \in [Sky -> SUBSET Node] /\ rests \in [Rest -> SUBSET Node]
        /\ notifying \subseteq QueueIds /\ undefined \in BOOLEAN /\ lost \subseteq Node
    OBVIOUS
  <2>6. QED
    BY <2>1, <2>2, <2>3, <2>4, <2>5
       DEF TypeOK, GenRecord, SkyRecord, RestRecord, CollRecord, MessageRecord
<1>3. TupleRound
  BY <1>1 DEF TupleRound
<1>4. ~Acknowledged /\ (\A s \in Sky : ~Pushed(s) /\ ~SkyDone(s) /\ SkyIdle(s))
      /\ (\A r \in Rest : ~RestDone(r) /\ RestIdle(r))
  BY <1>3 DEF Acknowledged, Pushed, SkyDone, SkyIdle, RestDone, RestIdle
<1>5. ~ConnectorDone /\ (\A s \in Sky : ~Taken(s)) /\ (\A r \in Rest : ~Sent(r) /\ ~Collected(r))
  BY <1>1, <1>3, <1>4 DEF ConnectorDone, Taken, Sent, Collected, Sky, Rest
<1>6. OneToken
  <2>1. \A s \in Sky : SkyInv(s)
    BY <1>3, <1>4, <1>5, Ids DEF SkyInv, Holds
  <2>2. \A r \in Rest : RestInv(r)
    BY <1>3, <1>4, <1>5, Ids DEF RestInv, Holds
  <2>3. GeneratorInv /\ ConnectorInv /\ CollectorInv /\ MessageInv /\ StreamInv
    BY <1>1, <1>3, <1>4, <1>5, Ids
       DEF GeneratorInv, ConnectorInv, CollectorInv, MessageInv, StreamInv, Holds
  <2>4. QED
    BY <2>1, <2>2, <2>3 DEF OneToken
<1>7. StorageInv
  <2>1. \A s \in Sky : Place(s) = {}
    BY DEF Place
  <2>2. QED
    BY <2>1 DEF StorageInv, ApartInSkylines, ApartInRests, SkylinesApartFromRests,
                StoredBefore, ScanInv
<1>8. OutputInv
  <2>1. Handled = 0 /\ Due(0) = 0
    BY <1>1 DEF Handled, Due
  <2>2. QED
    BY <2>1 DEF OutputInv
<1>9. QED
  BY <1>2, <1>6, <1>7, <1>8 DEF IInv

\* The inductive invariant: one token goes round the ring, the lists hold each
\* tuple once, and what is due has been printed.
THEOREM Invariance == Spec => []IInv
<1>1. IInv /\ [Next]_vars => IInv'
  BY TokenStep, TypeStep, StorageStep, OutputStep DEF IInv
<1>2. QED
  BY InitOK, <1>1, PTL DEF Spec

\* No variable ever leaves its type.
THEOREM TypeCorrect == Spec => []TypeOK
<1>1. IInv => TypeOK
  BY DEF IInv
<1>2. QED
  BY Invariance, <1>1, PTL

\* However a list is divided and moved between workers, and whatever the races
\* of push_node on it, no tuple is in two of them.
THEOREM NodesStoredOnce == Spec => []StoredOnce
<1>1. IInv => StoredOnce
  <2> SUFFICES ASSUME IInv
               PROVE  StoredOnce
    OBVIOUS
  <2> DEFINE lists == {<<"sky", s>> : s \in Sky} \cup {<<"rest", r>> : r \in Rest}
             At(l) == IF l[1] = "sky" THEN skylines[l[2]] ELSE rests[l[2]]
  <2>1. SUFFICES ASSUME NEW l1 \in lists, NEW l2 \in lists, NEW x \in At(l1), NEW y \in At(l2),
                        x.expire = y.expire
                 PROVE  l1 = l2 /\ x = y
    BY DEF StoredOnce
  <2>2. \A s \in Sky : skylines[s] \subseteq Place(s)
    BY DEF Place
  <2>3. ApartInSkylines /\ ApartInRests /\ SkylinesApartFromRests
    BY DEF IInv, StorageInv
  <2>4. \/ l1[1] = "sky" /\ l1[2] \in Sky /\ l1 = <<"sky", l1[2]>> /\ x \in Place(l1[2])
        \/ l1[1] = "rest" /\ l1[2] \in Rest /\ l1 = <<"rest", l1[2]>> /\ x \in rests[l1[2]]
    BY <2>2
  <2>5. \/ l2[1] = "sky" /\ l2[2] \in Sky /\ l2 = <<"sky", l2[2]>> /\ y \in Place(l2[2])
        \/ l2[1] = "rest" /\ l2[2] \in Rest /\ l2 = <<"rest", l2[2]>> /\ y \in rests[l2[2]]
    BY <2>2
  <2> HIDE DEF lists, At
  <2>6. QED
    BY <2>1, <2>3, <2>4, <2>5 DEF ApartInSkylines, ApartInRests, SkylinesApartFromRests
<1>2. QED
  BY Invariance, <1>1, PTL

\* At most one element is ever in a queue.
THEOREM QueuesNeedNoBound == Spec => []QueuesHoldOne
<1>1. IInv => QueuesHoldOne
  <2> SUFFICES ASSUME IInv, NEW x \in QueueIds
               PROVE  Len(queues[x]) <= 1
    BY DEF QueuesHoldOne
  <2>1. \E present \in BOOLEAN : \E v : queues[x] = IF present THEN <<v>> ELSE <<>>
    BY DEF IInv, OneToken, SkyInv, RestInv, CollectorInv, Holds, QueueIds
  <2>2. QED
    BY <2>1
<1>2. QED
  BY Invariance, <1>1, PTL

\* The acknowledgement keeps the stages apart, whatever the number of workers.
THEOREM StagesExclude == Spec => []StageExclusion
<1>1. IInv => StageExclusion
  <2> SUFFICES ASSUME IInv
               PROVE  StageExclusion
    OBVIOUS
  <2>1. TypeOK /\ OneToken
    BY DEF IInv
  <2>2. ASSUME NEW s \in Sky, ScanningSky(s)
        PROVE  TupleRound /\ ~SkyDone(s)
    BY <2>1, <2>2, SkyBusyFacts DEF ScanningSky, SkyBusy
  <2>3. ASSUME NEW r \in Rest, ScanningRest(r)
        PROVE  /\ TupleRound /\ ~RestDone(r)
               /\ \A s \in Sky : SkyDone(s)
    BY <2>1, <2>3, RestBusyFacts, SentMeansAnswered DEF ScanningRest
  <2>4. ASSUME coll.pc = "insert"
        PROVE  (\A s \in Sky : SkyDone(s)) /\ (\A r \in Rest : RestDone(r))
    BY <2>1, <2>4, InsertMeansAnswered
  <2>5. QED
    BY <2>2, <2>3, <2>4 DEF StageExclusion
<1>2. QED
  BY Invariance, <1>1, PTL

\* Every thread's own count is the generator's when it handles a tuple.
THEOREM CountsAgree == Spec => []CountersAgree
<1>1. IInv => CountersAgree
  <2> SUFFICES ASSUME IInv
               PROVE  CountersAgree
    OBVIOUS
  <2>1. TypeOK /\ OneToken
    BY DEF IInv
  <2>2. ASSUME NEW s \in Sky, ScanningSky(s)
        PROVE  sky[s].i = gen.i /\ sky[s].extracted = gen.i
    BY <2>1, <2>2, SkyBusyFacts, Types DEF ScanningSky, SkyBusy
  <2>3. ASSUME NEW r \in Rest, ScanningRest(r)
        PROVE  rest[r].i = message[rest[r].extracted].tuple
    BY <2>1, <2>3, RestBusyFacts, SentMeansAnswered DEF ScanningRest
  <2>4. ASSUME coll.pc = "insert"
        PROVE  coll.i = message[coll.extracted].tuple
    BY <2>1, <2>4, InsertMeansAnswered
  <2>5. QED
    BY <2>2, <2>3, <2>4 DEF CountersAgree
<1>2. QED
  BY Invariance, <1>1, PTL

\* The collector has had an answer about the newest tuple only if all have.
LEMMA CollectedMeansAnswered ==
  ASSUME TypeOK, OneToken, NEW r \in Rest, Collected(r), TupleRound
  PROVE  Sent(r) /\ gen.pc # "generate"
<1>1. RestDone(r) /\ RestInv(r)
  BY DEF OneToken, RestInv
<1>2. Sent(r)
  BY <1>1, Types DEF RestInv, RestDone, RestIdle
<1>3. SkyDone(0) /\ SkyInv(0) /\ 0 \in Sky
  BY <1>2, SentMeansAnswered, Types DEF OneToken
<1>4. ~SkyIdle(0)
  BY <1>3, Types DEF SkyIdle, SkyDone
<1>5. Pushed(0)
  BY <1>3, <1>4 DEF SkyInv
<1>6. QED
  BY <1>2, <1>5 DEF Pushed

\* A message pointer under way or in a thread's hands is about the newest
\* tuple, and its owner leaves it alone.
THEOREM MessagesIntact == Spec => []MessageIntact
<1>1. IInv => MessageIntact
  <2> SUFFICES ASSUME IInv, NEW p \in PointersInUse
               PROVE  /\ message[p].tuple = gen.i
                      /\ sky[p].pc = "pop" \/ (sky[p].pc = "push" /\ sky[p].extracted = gen.i)
    BY DEF MessageIntact
  <2>1. TypeOK /\ OneToken
    BY DEF IInv
  <2>2. p # EOS
    BY DEF PointersInUse
  <2>3. ASSUME p \in Sky, TupleRound, SkyDone(p)
        PROVE  message[p].tuple = gen.i /\ sky[p].pc = "pop"
    BY <2>1, <2>3 DEF OneToken, MessageInv, SkyDone
  <2>4. ASSUME NEW r \in Rest, Sent(r), p = Passed
        PROVE  message[p].tuple = gen.i /\ sky[p].pc = "pop"
    <3>1. TupleRound
      BY <2>1, <2>2, <2>4, Types
    <3>2. QED
      BY <2>1, <2>3, <2>4, <3>1, SentMeansAnswered
  <2>5. ASSUME NEW s \in Sky, p \in InTransit(SkyToConn(s))
        PROVE  message[p].tuple = gen.i /\ sky[p].pc = "pop"
    <3>1. queues[SkyToConn(s)] = IF SkyDone(s) /\ ~Taken(s) THEN <<Answer(s)>> ELSE <<>>
      BY <2>1 DEF OneToken, SkyInv, Holds
    <3>2. p = Answer(s) /\ SkyDone(s)
      BY <2>5, <3>1 DEF InTransit
    <3>3. TupleRound /\ p = s
      BY <2>2, <3>2 DEF Answer
    <3>4. QED
      BY <2>3, <3>2, <3>3
  <2>6. ASSUME NEW r \in Rest, p \in InTransit(ConnToRest(r))
        PROVE  message[p].tuple = gen.i /\ sky[p].pc = "pop"
    <3>1. queues[ConnToRest(r)] = IF Sent(r) /\ RestIdle(r) THEN <<Passed>> ELSE <<>>
      BY <2>1 DEF OneToken, RestInv, Holds
    <3>2. p = Passed /\ Sent(r)
      BY <2>6, <3>1 DEF InTransit
    <3>3. QED
      BY <2>4, <3>2
  <2>7. ASSUME NEW r \in Rest, p \in InTransit(RestToColl(r))
        PROVE  message[p].tuple = gen.i /\ sky[p].pc = "pop"
    <3>1. /\ queues[RestToColl(r)] = IF RestDone(r) /\ ~Collected(r) THEN <<Passed>> ELSE <<>>
          /\ ~Sent(r) => RestIdle(r)
      BY <2>1 DEF OneToken, RestInv, Holds
    <3>2. p = Passed /\ RestDone(r)
      BY <2>7, <3>1 DEF InTransit
    <3>3. Sent(r)
      BY <2>1, <3>1, <3>2, Types DEF RestDone, RestIdle
    <3>4. QED
      BY <2>4, <3>2, <3>3
  <2>8. ASSUME NEW r \in Rest, rest[r].pc \notin {"pop", "done"}, p = rest[r].extracted
        PROVE  message[p].tuple = gen.i /\ sky[p].pc = "pop"
    <3>1. rest[r].pc \in {"scan", "move", "write", "push"}
      BY <2>1, <2>8, Types DEF RestRecord
    <3>2. QED
      BY <2>1, <2>4, <2>8, <3>1, RestBusyFacts
  <2>9. ASSUME conn.pc = "push" \/ conn.j > 0, p = conn.extracted
        PROVE  message[p].tuple = gen.i /\ sky[p].pc = "pop"
    <3>1. ConnectorInv /\ conn.pc \in {"pop", "push", "done"}
      BY <2>1, Types DEF OneToken
    <3>2. CASE conn.pc = "push"
      <4>1. p = Passed
        BY <2>9, <3>1, <3>2 DEF ConnectorInv
      <4>2. TupleRound
        BY <2>1, <2>2, <4>1, Types
      <4>3. QED
        BY <2>1, <2>3, <3>2, <4>1, <4>2, AllAnswered
    <3>3. CASE conn.pc = "pop"
      <4>1. conn.j > 0 /\ TupleRound /\ p = conn.j - 1 /\ conn.j \in Sky
        BY <2>9, <3>1, <3>3 DEF ConnectorInv
      <4>2. p \in Sky /\ p < conn.j
        BY <4>1, ParametersAssumption DEF Sky
      <4>3. Taken(p)
        BY <3>3, <4>1, <4>2 DEF Taken
      <4>4. SkyDone(p)
        BY <2>1, <4>2, <4>3 DEF OneToken, SkyInv
      <4>5. QED
        BY <2>3, <4>1, <4>2, <4>4
    <3>4. CASE conn.pc = "done"
      BY <2>9, <3>1, <3>4 DEF ConnectorInv
    <3>5. QED
      BY <3>1, <3>2, <3>3, <3>4
  <2>10. ASSUME coll.pc = "insert" \/ coll.j > 0, p = coll.extracted
         PROVE  message[p].tuple = gen.i /\ sky[p].pc = "pop"
    <3>1. CollectorInv /\ coll.j \in Rest /\ 0 \in Rest /\ coll.j \in Int
      BY <2>1, Types, ParametersAssumption DEF OneToken, Rest
    <3>2. p = Passed /\ TupleRound
      BY <2>10, <3>1 DEF CollectorInv
    <3>3. Collected(0)
      BY <2>10, <3>1, <3>2 DEF CollectorInv, Collected
    <3>4. QED
      BY <2>1, <2>4, <3>1, <3>2, <3>3, CollectedMeansAnswered
  <2>11. p \in OnTheWay \/ p \in AtRest \/ p \in AtConnector \/ p \in AtCollector
    BY DEF PointersInUse
  <2>12. message[p].tuple = gen.i /\ sky[p].pc = "pop"
    <3>1. CASE p \in OnTheWay
      <4>1. CASE p \in UNION {InTransit(SkyToConn(s)) : s \in Sky}
        BY <2>5, <4>1
      <4>2. CASE p \in UNION {InTransit(ConnToRest(r)) \cup InTransit(RestToColl(r)) : r \in Rest}
        <5>1. PICK r \in Rest : p \in InTransit(ConnToRest(r)) \cup InTransit(RestToColl(r))
          BY <4>2
        <5>2. QED
          BY <2>6, <2>7, <5>1
      <4>3. QED
        BY <3>1, <4>1, <4>2 DEF OnTheWay
    <3>2. CASE p \in AtRest
      BY <2>8, <3>2 DEF AtRest
    <3>3. CASE p \in AtConnector
      BY <2>9, <3>3, Zenon DEF AtConnector
    <3>4. CASE p \in AtCollector
      BY <2>10, <3>4, Zenon DEF AtCollector
    <3>5. QED
      BY <2>11, <3>1, <3>2, <3>3, <3>4
  <2>13. QED
    BY <2>12
<1>2. QED
  BY Invariance, <1>1, PTL

\* How far the collector is behind the generator.
LEMMA HandledArrived ==
  ASSUME TypeOK, OneToken
  PROVE  /\ Handled \in Nat
         /\ Len(stream) = Handled \/ Len(stream) = Handled + 1
         /\ ~TupleRound => Handled = N /\ Len(stream) = N
<1>1. gen.i \in 0..N /\ N \in Nat /\ coll \in CollRecord /\ 0 \in Rest
  BY Types, ParametersAssumption DEF CollRecord
<1>2. CollectorInv /\ StreamInv
  BY DEF OneToken
<1>3. CASE ~TupleRound
  <2>1. gen.i = N /\ coll.pc \in {"pop", "done"} /\ coll.i = gen.i
    BY <1>1, <1>2, <1>3 DEF CollectorInv, TupleRound, CollRecord
  <2>2. Handled = N /\ Len(stream) = N
    BY <1>1, <1>2, <1>3, <2>1 DEF Handled, StreamInv
  <2>3. QED
    BY <1>1, <1>3, <2>2
<1>4. CASE TupleRound
  <2>1. CASE Handled = gen.i
    BY <1>1, <1>2, <1>4, <2>1 DEF StreamInv
  <2>2. CASE Acknowledged \/ coll.pc = "push"
    <3>1. Collected(0)
      BY <1>4, <2>2 DEF Collected
    <3>2. gen.pc # "generate"
      BY <1>1, <1>4, <3>1, CollectedMeansAnswered
    <3>3. Len(stream) = gen.i + 1
      BY <1>2, <1>4, <3>2 DEF StreamInv
    <3>4. Handled = gen.i + 1
      BY <1>1, <1>2, <1>4, <2>2 DEF CollectorInv, Acknowledged, Handled, CollRecord
    <3>5. QED
      BY <1>1, <1>4, <3>3, <3>4
  <2>3. Handled = gen.i \/ Acknowledged \/ coll.pc = "push"
    BY <1>1, <1>2, <1>4 DEF CollectorInv, Handled, CollRecord
  <2>4. QED
    BY <2>1, <2>2, <2>3
<1>5. QED
  BY <1>3, <1>4

\* A window and its skyline are printed in turn, and every window that is due
\* has been printed when all threads have returned.
THEOREM PrintedInTurn == Spec => []WindowThenSkyline
<1>1. IInv => WindowThenSkyline
  <2> SUFFICES ASSUME IInv
               PROVE  WindowThenSkyline
    OBVIOUS
  <2>1. TypeOK /\ OneToken /\ OutputInv
    BY DEF IInv
  <2>2. /\ Handled \in Nat
        /\ Len(stream) = Handled \/ Len(stream) = Handled + 1
        /\ ~TupleRound => Handled = N /\ Len(stream) = N
    BY <2>1, HandledArrived
  <2>3. Len(windows) = Due(Len(stream)) /\ Len(output) = Due(Handled)
    BY <2>1 DEF OutputInv
  <2>4. /\ Due(Handled) \in Nat
        /\ Due(Handled + 1) = Due(Handled) \/ Due(Handled + 1) = Due(Handled) + 1
    BY <2>2, DueStep
  <2>5. Len(windows) - Len(output) \in {0, 1}
    BY <2>2, <2>3, <2>4
  <2>6. ASSUME Finished
        PROVE  Len(output) = (N - W) \div K + 1 /\ Len(windows) = Len(output)
    <3>1. ~TupleRound
      BY <2>1, <2>6 DEF Finished, OneToken, GeneratorInv
    <3>2. Due(N) = (N - W) \div K + 1
      BY ParametersAssumption, WAssumption DEF Due
    <3>3. QED
      BY <2>2, <2>3, <3>1, <3>2
  <2>7. QED
    BY <2>5, <2>6 DEF WindowThenSkyline
<1>2. QED
  BY Invariance, <1>1, PTL
============================================================================
