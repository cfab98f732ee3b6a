----------------------- MODULE FastFlowSkylineProofs -----------------------
(***************************************************************************)
(* The inductive invariant of FastFlowSkyline and what follows from it,    *)
(* for every tuple size, window, stream length, sliding factor and number  *)
(* of workers: the lists stay sound through the races, and without a race  *)
(* they lose nothing.                                                      *)
(***************************************************************************)
EXTENDS FastFlowInvariant, SkylineLemmas, SequenceTheorems, FiniteSetTheorems

(* Lists.                                                                  *)

\* A node put in front of a list.
LEMMA Pushed ==
  ASSUME NEW S, NEW x \in S, NEW l \in Seq(S)
  PROVE  /\ <<x>> \o l \in Seq(S)
         /\ Range(<<x>> \o l) = {x} \cup Range(l)
         /\ IsInjective(l) /\ x \notin Range(l) => IsInjective(<<x>> \o l)
<1> DEFINE m == <<x>> \o l
<1>1. <<x>> \in Seq(S) /\ Len(<<x>>) = 1 /\ <<x>>[1] = x
  OBVIOUS
<1>2. /\ m \in Seq(S) /\ Len(m) = 1 + Len(l) /\ Len(l) \in Nat
      /\ \A q \in 1..(1 + Len(l)) : m[q] = IF q <= 1 THEN <<x>>[q] ELSE l[q - 1]
  BY <1>1, ConcatProperties
<1> HIDE DEF m
<1>3. DOMAIN m = 1..(1 + Len(l)) /\ DOMAIN l = 1..Len(l)
  BY <1>2, LenProperties
<1>4. m[1] = x /\ \A q \in 2..(1 + Len(l)) : q - 1 \in 1..Len(l) /\ m[q] = l[q - 1]
  BY <1>1, <1>2
<1>5. Range(m) = {x} \cup Range(l)
  <2>1. ASSUME NEW q \in 1..(1 + Len(l)) PROVE m[q] \in {x} \cup Range(l)
    <3>1. CASE q = 1
      BY <1>4, <3>1
    <3>2. CASE q \in 2..(1 + Len(l))
      BY <1>3, <1>4, <3>2 DEF Range
    <3>3. QED
      BY <1>2, <3>1, <3>2
  <2>2. x \in Range(m)
    BY <1>2, <1>3, <1>4 DEF Range
  <2>3. ASSUME NEW q \in 1..Len(l) PROVE l[q] \in Range(m)
    <3>1. q + 1 \in 2..(1 + Len(l)) /\ q + 1 - 1 = q /\ q + 1 \in 1..(1 + Len(l))
      BY <1>2
    <3>2. m[q + 1] = l[q]
      BY <1>4, <3>1
    <3>3. QED
      BY <1>3, <3>1, <3>2 DEF Range
  <2>4. QED
    BY <1>3, <2>1, <2>2, <2>3 DEF Range
<1>6. ASSUME IsInjective(l), x \notin Range(l), NEW a \in 1..(1 + Len(l)),
             NEW b \in 1..(1 + Len(l)), m[a] = m[b]
      PROVE  a = b
  <2>1. ASSUME NEW c \in 2..(1 + Len(l)) PROVE m[c] \in Range(l)
    BY <1>3, <1>4 DEF Range
  <2>2. CASE a = 1 \/ b = 1
    BY <1>2, <1>4, <1>6, <2>1, <2>2
  <2>3. CASE a # 1 /\ b # 1
    <3>1. a \in 2..(1 + Len(l)) /\ b \in 2..(1 + Len(l))
      BY <1>2, <2>3
    <3>2. a - 1 \in DOMAIN l /\ b - 1 \in DOMAIN l /\ l[a - 1] = l[b - 1]
      BY <1>3, <1>4, <1>6, <3>1
    <3>3. a - 1 = b - 1
      BY <1>6, <3>2 DEF IsInjective
    <3>4. QED
      BY <1>2, <3>3
  <2>4. QED
    BY <2>2, <2>3
<1>7. IsInjective(l) /\ x \notin Range(l) => IsInjective(m)
  BY <1>3, <1>6 DEF IsInjective
<1>8. QED
  BY <1>2, <1>5, <1>7 DEF m

\* A list without its first node.
LEMMA Popped ==
  ASSUME NEW S, NEW l \in Seq(S), l # <<>>
  PROVE  /\ Head(l) \in S /\ Head(l) \in Range(l)
         /\ Tail(l) \in Seq(S)
         /\ Range(Tail(l)) \subseteq Range(l)
         /\ Range(l) \subseteq Range(Tail(l)) \cup {Head(l)}
         /\ IsInjective(l) => IsInjective(Tail(l)) /\ Head(l) \notin Range(Tail(l))
<1> DEFINE m == Tail(l)
<1>1. /\ Head(l) \in S /\ Head(l) = l[1]
      /\ m \in Seq(S) /\ Len(m) = Len(l) - 1 /\ Len(l) \in Nat \ {0}
      /\ \A q \in 1..(Len(l) - 1) : m[q] = l[q + 1]
  BY HeadTailProperties, EmptySeq, LenProperties
<1> HIDE DEF m
<1>2. DOMAIN m = 1..(Len(l) - 1) /\ DOMAIN l = 1..Len(l)
  BY <1>1, LenProperties
<1>3. \A q \in 1..(Len(l) - 1) : q + 1 \in 1..Len(l) /\ q + 1 # 1 /\ m[q] = l[q + 1]
  BY <1>1
<1>4. Head(l) \in Range(l) /\ Range(m) \subseteq Range(l)
  BY <1>1, <1>2, <1>3 DEF Range
<1>5. Range(l) \subseteq Range(m) \cup {Head(l)}
  <2>1. ASSUME NEW q \in 1..Len(l) PROVE l[q] \in Range(m) \cup {Head(l)}
    <3>1. CASE q = 1
      BY <1>1, <3>1
    <3>2. CASE q # 1
      <4>1. q - 1 \in 1..(Len(l) - 1) /\ q - 1 + 1 = q
        BY <1>1, <3>2
      <4>2. m[q - 1] = l[q]
        BY <1>3, <4>1
      <4>3. QED
        BY <1>2, <4>1, <4>2 DEF Range
    <3>3. QED
      BY <3>1, <3>2
  <2>2. QED
    BY <1>2, <2>1 DEF Range
<1>6. ASSUME IsInjective(l) PROVE IsInjective(m) /\ Head(l) \notin Range(m)
  <2>1. ASSUME NEW a \in 1..(Len(l) - 1), NEW b \in 1..(Len(l) - 1), m[a] = m[b]
        PROVE  a = b
    <3>1. a + 1 = b + 1
      BY <1>2, <1>3, <1>6, <2>1 DEF IsInjective
    <3>2. QED
      BY <3>1
  <2>2. ASSUME NEW a \in 1..(Len(l) - 1) PROVE m[a] # Head(l)
    BY <1>1, <1>2, <1>3, <1>6 DEF IsInjective
  <2>3. QED
    BY <1>2, <2>1, <2>2 DEF IsInjective, Range
<1>7. QED
  BY <1>1, <1>4, <1>5, <1>6 DEF m

\* The number of places a walk selects.
LEMMA PlacesCounted ==
  ASSUME NEW S, NEW nodes \in Seq(S), NEW places \in SUBSET DOMAIN nodes
  PROVE  Cardinality(places) \in Nat /\ (Cardinality(places) = 0 <=> places = {})
<1>1. DOMAIN nodes = 1..Len(nodes) /\ Len(nodes) \in Nat
  BY LenProperties
<1>2. IsFiniteSet(1..Len(nodes))
  BY <1>1, FS_Interval
<1>3. IsFiniteSet(places)
  BY <1>1, <1>2, FS_Subset
<1>4. QED
  BY <1>3, FS_CardinalityType, FS_EmptySet

\* What a walk leaves of a list: the nodes at the places it keeps.
LEMMA PickedList ==
  ASSUME NEW S, NEW nodes \in Seq(S), NEW keep \in SUBSET DOMAIN nodes,
         NEW list \in Picked(nodes, keep)
  PROVE  /\ list \in Seq(S)
         /\ Range(list) = {nodes[k] : k \in keep}
         /\ IsInjective(nodes) => IsInjective(list)
<1> DEFINE c == Cardinality(keep)
<1>1. PICK p \in Surjection(1..c, keep) :
        /\ list = [n \in 1..c |-> nodes[p[n]]]
        /\ \A n, o \in 1..c : n < o => p[n] < p[o]
  BY DEF Picked
<1>2. p \in [1..c -> keep] /\ \A k \in keep : \E n \in 1..c : p[n] = k
  BY DEF Surjection
<1>3. DOMAIN nodes = 1..Len(nodes) /\ Len(nodes) \in Nat /\ \A k \in DOMAIN nodes : nodes[k] \in S
  BY LenProperties
<1>4. c \in Nat
  BY PlacesCounted
<1> HIDE DEF c
<1>5. \A n \in 1..c : p[n] \in keep /\ list[n] = nodes[p[n]]
  BY <1>1, <1>2
<1>6. list \in [1..c -> S]
  BY <1>1, <1>3, <1>5
<1>7. list \in Seq(S) /\ DOMAIN list = 1..c
  BY <1>4, <1>6, SeqDef
<1>8. Range(list) = {nodes[k] : k \in keep}
  <2>1. ASSUME NEW n \in 1..c PROVE list[n] \in {nodes[k] : k \in keep}
    BY <1>5
  <2>2. ASSUME NEW k \in keep PROVE nodes[k] \in Range(list)
    <3>1. PICK n \in 1..c : p[n] = k
      BY <1>2
    <3>2. list[n] = nodes[k]
      BY <1>5, <3>1
    <3>3. QED
      BY <1>7, <3>2, Zenon DEF Range
  <2>3. QED
    BY <1>7, <2>1, <2>2, Zenon DEF Range
<1>9. ASSUME IsInjective(nodes), NEW a \in 1..c, NEW b \in 1..c, list[a] = list[b]
      PROVE  a = b
  <2>1. p[a] = p[b]
    BY <1>5, <1>9 DEF IsInjective
  <2>2. p[a] \in 1..Len(nodes) /\ p[b] \in 1..Len(nodes)
    BY <1>3, <1>5
  <2>3. ~(a < b) /\ ~(b < a)
    BY <1>1, <1>3, <2>1, <2>2
  <2>4. QED
    BY <1>4, <2>3
<1>10. QED
  BY <1>7, <1>8, <1>9 DEF IsInjective

\* What a scan leaves in insert_sky[j] or insert_rest[j].
LEMMA LastExpiryOf ==
  ASSUME NEW nodes \in Seq(Node), NEW at \in SUBSET DOMAIN nodes,
         NEW e \in LastExpiry(nodes, at)
  PROVE  /\ e \in Nat
         /\ (at = {} /\ e = 0) \/ \E k \in at : e = nodes[k].expire
<1>1. ASSUME NEW k \in at PROVE nodes[k].expire \in Nat
  <2>1. nodes[k] \in Node
    BY LenProperties
  <2>2. QED
    BY <2>1 DEF Node
<1>2. CASE at = {}
  BY <1>2 DEF LastExpiry
<1>3. CASE at # {}
  BY <1>1, <1>3 DEF LastExpiry, Greatest
<1>4. QED
  BY <1>2, <1>3

----------------------------------------------------------------------------
(* Types.                                                                  *)

\* The variables a stage leaves alone.
LEMMA SkyWorkerFields ==
  ASSUME TypeOK, NEW s \in Sky
  PROVE  /\ sky[s] \in SkyWorker
         /\ sky[s].pc \in {"read", "write", "scan", "done"}
         /\ sky[s].value \in BOOLEAN
         /\ sky[s].writes \in Nat
         /\ sky[s].seen \in [Sky -> BOOLEAN]
         /\ skylines[s] \in Seq(Node)
         /\ insert_sky[s] \in Nat
BY DEF TypeOK, SkyWorker

LEMMA RestWorkerFields ==
  ASSUME TypeOK, NEW r \in Rest
  PROVE  /\ rest[r] \in RestWorker
         /\ rest[r].pc \in {"scan", "move", "write", "done"}
         /\ rest[r].todo \in Seq(Node)
         /\ rest[r].list \in Sky
         /\ rest[r].seen \in Seq(Node)
         /\ rests[r] \in Seq(Node)
         /\ insert_rest[r] \in Nat
BY DEF TypeOK, RestWorker

LEMMA SkyMap == TypeOK => sky \in [Sky -> SkyWorker]
BY DEF TypeOK

LEMMA RestMap == TypeOK => rest \in [Rest -> RestWorker]
BY DEF TypeOK

LEMMA KeptPositions ==
  ASSUME NEW nodes, NEW ins
  PROVE  /\ Kept(nodes) \in SUBSET DOMAIN nodes
         /\ Blockers(nodes, ins) \in SUBSET DOMAIN nodes
BY DEF Kept, Blockers

LEMMA GenerateTupleTypes == TypeOK /\ GenerateTuple => TypeOK'
<1> SUFFICES ASSUME TypeOK, GenerateTuple
             PROVE  TypeOK'
  OBVIOUS
<1> USE WAssumption, ParametersAssumption
<1>1. PICK new \in Tuple :
        LET full == <<new>> \o window IN
        /\ stream' = Append(stream, new)
        /\ window' = IF WindowComplete THEN SubSeq(full, 1, Len(full) - 1) ELSE full
        /\ windows' = IF WindowComplete /\ OnSlide THEN Append(windows, full) ELSE windows
  BY DEF GenerateTuple
<1> DEFINE full == <<new>> \o window
<1>2. full \in Seq(Tuple) /\ Len(full) = 1 + Len(window) /\ Len(window) \in Nat
  <2>1. <<new>> \in Seq(Tuple) /\ window \in Seq(Tuple) /\ Len(<<new>>) = 1
    BY DEF TypeOK
  <2>2. QED
    BY <2>1, ConcatProperties, LenProperties
<1>3. /\ window' = IF WindowComplete THEN SubSeq(full, 1, Len(full) - 1) ELSE full
      /\ windows' = IF WindowComplete /\ OnSlide THEN Append(windows, full) ELSE windows
  BY <1>1
<1> HIDE DEF full
<1>4. window' \in Seq(Tuple)
  <2>1. \A q \in 1..(Len(full) - 1) : full[q] \in Tuple
    BY <1>2, LenProperties
  <2>2. SubSeq(full, 1, Len(full) - 1) \in Seq(Tuple)
    BY <1>2, <2>1, SubSeqProperties
  <2>3. QED
    BY <1>2, <1>3, <2>2
<1>5. windows' \in Seq(Seq(Tuple))
  BY <1>2, <1>3, AppendProperties DEF TypeOK
<1>6. stream' \in Seq(Tuple) /\ Len(stream') = i + 1
  BY <1>1, AppendProperties DEF TypeOK, GenerateTuple
<1>7. sky' \in [Sky -> SkyWorker]
  BY DEF GenerateTuple, Idle, SkyWorker
<1>8. insert_sky' \in [Sky -> Nat] /\ sky_arr' \in [Sky -> BOOLEAN] /\ insert' \in Nat
  BY DEF GenerateTuple
<1>9. QED
  BY <1>4, <1>5, <1>6, <1>7, <1>8 DEF GenerateTuple, MoreTuples, TypeOK

LEMMA FlagReadTypes == ASSUME TypeOK, NEW s \in Sky, FlagRead(s) PROVE TypeOK'
<1>1. sky' = [sky EXCEPT ![s].pc = "write", ![s].seen = sky_arr]
  BY DEF FlagRead
<1>2. sky_arr \in [Sky -> BOOLEAN]
  BY DEF TypeOK
<1>3. sky' \in [Sky -> SkyWorker]
  BY SkyMap, <1>1, <1>2 DEF SkyWorker
<1>4. QED
  BY <1>3 DEF FlagRead, TypeOK, printed

LEMMA FlagWriteTypes == ASSUME TypeOK, SkyWorkers, NEW s \in Sky, FlagWrite(s) PROVE TypeOK'
<1>1. PICK pc, n :
        /\ n = sky[s].writes - 1 /\ pc \in {"scan", "read", "done"}
        /\ sky' = [sky EXCEPT ![s].writes = n, ![s].pc = pc]
  BY DEF FlagWrite
<1>2. n \in Nat
  BY <1>1, SkyWorkerFields DEF SkyWorkers, FlagWrite
<1>3. sky' \in [Sky -> SkyWorker]
  BY SkyMap, <1>1, <1>2 DEF SkyWorker
<1>4. sky_arr' \in [Sky -> BOOLEAN]
  BY SkyWorkerFields DEF FlagWrite
<1>5. raced' \in BOOLEAN
  BY Zenon DEF FlagWrite, TypeOK
<1>6. QED
  BY <1>3, <1>4, <1>5 DEF FlagWrite, TypeOK, printed

LEMMA SkyScanTypes == ASSUME TypeOK, NEW s \in Sky, SkyScan(s) PROVE TypeOK'
<1>1. skylines[s] \in Seq(Node)
  BY SkyWorkerFields
<1>2. PICK kept \in Picked(skylines[s], Kept(skylines[s])) :
        skylines' = [skylines EXCEPT ![s] = kept]
  BY DEF SkyScan
<1>3. skylines' \in [Sky -> Seq(Node)]
  BY <1>1, <1>2, KeptPositions, PickedList DEF TypeOK
<1>4. PICK e \in LastExpiry(skylines[s], Blockers(skylines[s], insert)) :
        insert_sky' = [insert_sky EXCEPT ![s] = e]
  BY DEF SkyScan
<1>5. insert_sky' \in [Sky -> Nat]
  BY <1>1, <1>4, KeptPositions, LastExpiryOf DEF TypeOK
<1>6. PICK n, pc :
        /\ pc \in {"done", "read"}
        /\ n = Cardinality(Blockers(skylines[s], insert))
        /\ sky' = [sky EXCEPT ![s] = [pc |-> pc, value |-> FALSE, writes |-> n,
                                      seen |-> sky[s].seen]]
  BY DEF SkyScan
<1>7. n \in Nat
  BY <1>1, <1>6, KeptPositions, PlacesCounted
<1>8. sky' \in [Sky -> SkyWorker]
  BY SkyMap, SkyWorkerFields, <1>6, <1>7 DEF SkyWorker
<1>9. QED
  BY <1>3, <1>5, <1>8 DEF SkyScan, TypeOK, printed

LEMMA JoinSkyTypes == ASSUME TypeOK, JoinSky PROVE TypeOK'
<1>1. insert' \in {insert} \cup {insert_sky[s] : s \in Sky}
  BY DEF JoinSky, Greatest
<1>2. insert' \in Nat
  BY <1>1, SkyWorkerFields DEF TypeOK
<1>3. 0 \in Sky
  BY ParametersAssumption DEF Sky
<1>4. rest' \in [Rest -> RestWorker]
  <2>1. <<>> \in Seq(Node)
    OBVIOUS
  <2>2. QED
    BY <1>3, <2>1 DEF JoinSky, Off, RestWorker
<1>5. insert_rest' \in [Rest -> Nat]
  BY DEF JoinSky
<1>6. QED
  BY <1>2, <1>4, <1>5 DEF JoinSky, TypeOK, printed

LEMMA RestScanTypes == ASSUME TypeOK, NEW r \in Rest, RestScan(r) PROVE TypeOK'
<1> DEFINE free == {k \in Kept(rests[r]) : Promoted(rests[r][k])}
<1>1. rests[r] \in Seq(Node)
  BY RestWorkerFields
<1>2. free \in SUBSET DOMAIN rests[r] /\ Kept(rests[r]) \ free \in SUBSET DOMAIN rests[r]
  BY KeptPositions
<1>3. PICK e \in LastExpiry(rests[r], Blockers(rests[r], insert)) :
        insert_rest' = [insert_rest EXCEPT ![r] = e]
  BY DEF RestScan
<1>4. PICK staying \in Picked(rests[r], Kept(rests[r]) \ free) :
        rests' = [rests EXCEPT ![r] = staying]
  BY DEF RestScan
<1>5. PICK moved, pc :
        /\ moved \in Picked(rests[r], free) /\ pc = NextMove(moved)
        /\ rest' = [rest EXCEPT ![r].todo = moved, ![r].pc = pc]
  BY DEF RestScan
<1> HIDE DEF free
<1>6. insert_rest' \in [Rest -> Nat]
  BY <1>1, <1>3, KeptPositions, LastExpiryOf DEF TypeOK
<1>7. rests' \in [Rest -> Seq(Node)]
  BY <1>1, <1>2, <1>4, PickedList DEF TypeOK
<1>8. moved \in Seq(Node) /\ pc \in {"done", "move"}
  BY <1>1, <1>2, <1>5, PickedList DEF NextMove
<1>9. rest' \in [Rest -> RestWorker]
  BY RestMap, <1>5, <1>8 DEF RestWorker
<1>10. QED
  BY <1>6, <1>7, <1>9 DEF RestScan, TypeOK, printed

LEMMA RestReadHeadTypes == ASSUME TypeOK, NEW r \in Rest, RestReadHead(r) PROVE TypeOK'
<1>1. PICK s, l :
        /\ s \in Sky /\ l = skylines[s]
        /\ rest' = [rest EXCEPT ![r].pc = "write", ![r].list = s, ![r].seen = l]
  BY DEF RestReadHead
<1>2. l \in Seq(Node)
  BY <1>1, SkyWorkerFields
<1>3. rest' \in [Rest -> RestWorker]
  BY RestMap, <1>1, <1>2 DEF RestWorker
<1>4. QED
  BY <1>3 DEF RestReadHead, TypeOK, printed

\* A pushed node keeps its tuple and its expiry.
LEMMA MovedNode ==
  ASSUME NEW x \in Node
  PROVE  /\ MkNode(x.tuple, x.expire, 0) \in Node
         /\ MkNode(x.tuple, x.expire, 0).tuple = x.tuple
         /\ MkNode(x.tuple, x.expire, 0).expire = x.expire
BY DEF MkNode, Node

LEMMA RestWriteHeadTypes ==
  ASSUME TypeOK, RestWorkers, NEW r \in Rest, RestWriteHead(r)
  PROVE  TypeOK'
<1>1. rest[r].todo \in Seq(Node) /\ rest[r].todo # <<>> /\ rest[r].seen \in Seq(Node)
  BY RestWorkerFields DEF RestWorkers, RestWriteHead
<1>2. PICK left, pc, none :
        /\ left = Tail(rest[r].todo) /\ pc = NextMove(left) /\ none = <<>>
        /\ rest' = [rest EXCEPT ![r] = [pc |-> pc, todo |-> left, list |-> rest[r].list,
                                        seen |-> none]]
  BY DEF RestWriteHead
<1>3. left \in Seq(Node) /\ pc \in {"done", "move"} /\ none \in Seq(Node)
  <2>1. left \in Seq(Node)
    BY <1>1, <1>2, Popped
  <2>2. pc \in {"done", "move"}
    BY <1>2 DEF NextMove
  <2>3. QED
    BY <1>2, <2>1, <2>2
<1>4. rest' \in [Rest -> RestWorker]
  BY RestMap, RestWorkerFields, <1>2, <1>3 DEF RestWorker
<1>5. PICK l, x :
        /\ x \in Node /\ l = <<x>> \o rest[r].seen
        /\ skylines' = [skylines EXCEPT ![rest[r].list] = l]
  BY <1>1, Popped, MovedNode DEF RestWriteHead
<1>6. l \in Seq(Node)
  BY <1>1, <1>5, Pushed
<1>7. skylines' \in [Sky -> Seq(Node)]
  BY <1>5, <1>6 DEF TypeOK
<1>8. raced' \in BOOLEAN
  BY Zenon DEF RestWriteHead, TypeOK
<1>9. QED
  BY <1>4, <1>7, <1>8 DEF RestWriteHead, TypeOK, printed

\* The node main makes for the newest tuple.
LEMMA NewNode ==
  ASSUME TypeOK, phase # "generate", NEW e \in Nat
  PROVE  /\ t \in Tuple
         /\ MkNode(t, i + W, e) \in Node
         /\ MkNode(t, i + W, e).tuple = t
         /\ MkNode(t, i + W, e).expire = i + W
         /\ MkNode(t, i + W, e).insert = e
<1>1. i \in Nat /\ stream \in Seq(Tuple) /\ Len(stream) = i + 1 /\ i + W \in Nat
  BY WAssumption DEF TypeOK
<1>2. t \in Tuple
  BY <1>1, LenProperties DEF t, Arrived
<1>3. QED
  BY <1>1, <1>2 DEF MkNode, Node

\* The greatest value main takes over is no less than what it had.
LEMMA InsertGrows ==
  ASSUME TypeOK, NEW beyond \in [Sky \ Rest -> Garbage], NEW e,
         e \in Greatest({insert} \cup Insertions(beyond))
  PROVE  /\ e \in Nat
         /\ e >= insert
         /\ \/ e = insert
            \/ \E r \in Rest : e = insert_rest[r]
            \/ \E s \in Sky \ Rest : e = beyond[s]
<1>1. e \in {insert} \cup Insertions(beyond) /\ e >= insert
  BY DEF Greatest
<1>2. insert \in Nat
  BY DEF TypeOK
<1>3. ASSUME NEW s \in Sky, e = IF s \in Rest THEN insert_rest[s] ELSE beyond[s]
      PROVE  e \in Int /\ ((\E r \in Rest : e = insert_rest[r]) \/ (\E o \in Sky \ Rest : e = beyond[o]))
  <2>1. CASE s \in Rest
    BY <1>3, <2>1, RestWorkerFields
  <2>2. CASE s \notin Rest
    <3>1. s \in Sky \ Rest /\ e = beyond[s]
      BY <1>3, <2>2
    <3>2. beyond[s] \in Int
      BY <3>1, GarbageAssumption
    <3>3. QED
      BY <3>1, <3>2
  <2>3. QED
    BY <2>1, <2>2
<1>4. CASE e = insert
  BY <1>1, <1>2, <1>4
<1>5. CASE e \in Insertions(beyond)
  <2>1. PICK s \in Sky : e = IF s \in Rest THEN insert_rest[s] ELSE beyond[s]
    BY <1>5 DEF Insertions
  <2>2. QED
    BY <1>1, <1>2, <1>3, <2>1
<1>6. QED
  BY <1>1, <1>4, <1>5

----------------------------------------------------------------------------
(* What each step does.                                                    *)

\* A step that moves no node.
Still == UNCHANGED <<rest, skylines, rests>>

LEMMA GenerateTupleEffect ==
  ASSUME TypeOK, GenerateTuple
  PROVE  /\ phase = "generate" /\ phase' = "check_skyline" /\ i' = i /\ raced' = raced
         /\ Still /\ output' = output
         /\ \E new \in Tuple : stream' = Append(stream, new)
         /\ insert' = 0
         /\ \A s \in Sky :
              /\ sky'[s].pc = "read" /\ sky'[s].value = TRUE /\ sky'[s].writes = 1
              /\ insert_sky'[s] = 0
BY DEF GenerateTuple, Idle, Still

LEMMA FlagReadEffect ==
  ASSUME TypeOK, NEW s \in Sky, FlagRead(s)
  PROVE  /\ sky[s].pc = "read" /\ Still
         /\ UNCHANGED <<i, phase, stream, insert, sky_arr, insert_sky, insert_rest, window,
                        windows, output, raced>>
         /\ sky'[s].pc = "write" /\ sky'[s].value = sky[s].value
         /\ sky'[s].writes = sky[s].writes
         /\ \A o \in Sky \ {s} : sky'[o] = sky[o]
BY SkyMap DEF FlagRead, Still, printed, SkyWorker

LEMMA FlagWriteEffect ==
  ASSUME TypeOK, NEW s \in Sky, FlagWrite(s)
  PROVE  /\ sky[s].pc = "write" /\ Still
         /\ UNCHANGED <<i, phase, stream, insert, insert_sky, insert_rest, window, windows,
                        output>>
         /\ sky'[s].pc = IF sky[s].value THEN "scan"
                         ELSE IF sky[s].writes > 1 THEN "read" ELSE "done"
         /\ sky'[s].value = sky[s].value
         /\ sky'[s].writes = sky[s].writes - 1
         /\ \A o \in Sky \ {s} : sky'[o] = sky[o]
         /\ sky_arr'[s] = sky[s].value
         /\ ~raced' => ~raced /\ \A o \in Sky \ {s} : sky_arr'[o] = sky_arr[o]
<1>1. /\ sky[s].pc = "write" /\ Still
      /\ UNCHANGED <<i, phase, stream, insert, insert_sky, insert_rest, window, windows,
                     output>>
  BY DEF FlagWrite, Still, printed
<1>2. /\ sky'[s].pc = IF sky[s].value THEN "scan"
                      ELSE IF sky[s].writes > 1 THEN "read" ELSE "done"
      /\ sky'[s].value = sky[s].value
      /\ sky'[s].writes = sky[s].writes - 1
      /\ \A o \in Sky \ {s} : sky'[o] = sky[o]
  BY SkyMap DEF FlagWrite, SkyWorker
<1>3. sky_arr' = [sky[s].seen EXCEPT ![s] = sky[s].value] /\ sky[s].seen \in [Sky -> BOOLEAN]
  BY SkyWorkerFields DEF FlagWrite
<1>4. sky_arr'[s] = sky[s].value
  BY <1>3
<1>5. ~raced' => ~raced /\ \A o \in Sky \ {s} : sky_arr'[o] = sky_arr[o]
  BY Zenon DEF FlagWrite
<1>6. QED
  BY <1>1, <1>2, <1>4, <1>5

LEMMA SkyScanEffect ==
  ASSUME TypeOK, NEW s \in Sky, SkyScan(s)
  PROVE  /\ sky[s].pc = "scan"
         /\ UNCHANGED <<i, phase, stream, insert, sky_arr, insert_rest, rest, rests, window,
                        windows, output, raced>>
         /\ Range(skylines'[s]) = {skylines[s][k] : k \in Kept(skylines[s])}
         /\ IsInjective(skylines[s]) => IsInjective(skylines'[s])
         /\ \A o \in Sky \ {s} :
              skylines'[o] = skylines[o] /\ insert_sky'[o] = insert_sky[o] /\ sky'[o] = sky[o]
         /\ ~sky'[s].value
         /\ \/ /\ sky'[s].pc = "done" /\ insert_sky'[s] = 0
               /\ Blockers(skylines[s], insert) = {}
            \/ /\ sky'[s].pc = "read" /\ sky'[s].writes > 0
               /\ \E k \in Blockers(skylines[s], insert) :
                    insert_sky'[s] = skylines[s][k].expire
<1>1. /\ sky[s].pc = "scan"
      /\ UNCHANGED <<i, phase, stream, insert, sky_arr, insert_rest, rest, rests, window,
                     windows, output, raced>>
  BY DEF SkyScan, printed
<1>2. skylines[s] \in Seq(Node)
  BY SkyWorkerFields
<1>3. /\ Range(skylines'[s]) = {skylines[s][k] : k \in Kept(skylines[s])}
      /\ IsInjective(skylines[s]) => IsInjective(skylines'[s])
      /\ \A o \in Sky \ {s} : skylines'[o] = skylines[o]
  <2>1. PICK kept \in Picked(skylines[s], Kept(skylines[s])) :
          skylines' = [skylines EXCEPT ![s] = kept]
    BY DEF SkyScan
  <2>2. skylines'[s] = kept /\ \A o \in Sky \ {s} : skylines'[o] = skylines[o]
    BY <2>1 DEF TypeOK
  <2>3. QED
    BY <1>2, <2>1, <2>2, KeptPositions, PickedList
<1> DEFINE at == Blockers(skylines[s], insert)
<1>4. /\ \A o \in Sky \ {s} : insert_sky'[o] = insert_sky[o]
      /\ (at = {} /\ insert_sky'[s] = 0) \/ \E k \in at : insert_sky'[s] = skylines[s][k].expire
  <2>1. PICK e \in LastExpiry(skylines[s], at) : insert_sky' = [insert_sky EXCEPT ![s] = e]
    BY DEF SkyScan
  <2>2. insert_sky'[s] = e /\ \A o \in Sky \ {s} : insert_sky'[o] = insert_sky[o]
    BY <2>1 DEF TypeOK
  <2>3. at \in SUBSET DOMAIN skylines[s]
    BY KeptPositions
  <2> HIDE DEF at
  <2>4. (at = {} /\ e = 0) \/ \E k \in at : e = skylines[s][k].expire
    BY <1>2, <2>1, <2>3, LastExpiryOf
  <2>5. QED
    BY <2>2, <2>4
<1>5. /\ \A o \in Sky \ {s} : sky'[o] = sky[o]
      /\ ~sky'[s].value
      /\ sky'[s].pc = IF at = {} THEN "done" ELSE "read"
      /\ sky'[s].writes = Cardinality(at)
  BY SkyMap DEF SkyScan
<1>6. Cardinality(at) \in Nat /\ (Cardinality(at) = 0 <=> at = {})
  BY <1>2, KeptPositions, PlacesCounted
<1> HIDE DEF at
<1>7. \/ /\ sky'[s].pc = "done" /\ insert_sky'[s] = 0 /\ at = {}
      \/ /\ sky'[s].pc = "read" /\ sky'[s].writes > 0
         /\ \E k \in at : insert_sky'[s] = skylines[s][k].expire
  <2>1. CASE at = {}
    BY <1>4, <1>5, <2>1
  <2>2. CASE at # {}
    BY <1>4, <1>5, <1>6, <2>2
  <2>3. QED
    BY <2>1, <2>2
<1>8. QED
  BY <1>1, <1>3, <1>4, <1>5, <1>7 DEF at

LEMMA JoinSkyEffect ==
  ASSUME TypeOK, JoinSky
  PROVE  /\ phase = "check_skyline" /\ phase' = "check_rest"
         /\ UNCHANGED <<i, stream, sky_arr, insert_sky, sky, skylines, rests, window, windows,
                        output, raced>>
         /\ \A s \in Sky : sky[s].pc = "done"
         /\ insert' >= insert /\ \A s \in Sky : insert' >= insert_sky[s]
         /\ insert' = insert \/ \E s \in Sky : insert' = insert_sky[s]
         /\ \A r \in Rest :
              /\ rest'[r].pc = "scan" /\ rest'[r].todo = <<>> /\ rest'[r].seen = <<>>
              /\ insert_rest'[r] = 0
<1>1. /\ insert' >= insert /\ \A s \in Sky : insert' >= insert_sky[s]
      /\ insert' = insert \/ \E s \in Sky : insert' = insert_sky[s]
  BY DEF JoinSky, Greatest
<1>2. QED
  BY <1>1 DEF JoinSky, Off, printed

LEMMA RestScanEffect ==
  ASSUME TypeOK, NEW r \in Rest, RestScan(r)
  PROVE  /\ rest[r].pc = "scan"
         /\ UNCHANGED <<i, phase, stream, insert, sky_arr, insert_sky, sky, skylines, window,
                        windows, output, raced>>
         /\ Range(rests'[r]) =
              {rests[r][k] : k \in {m \in Kept(rests[r]) : ~Promoted(rests[r][m])}}
         /\ Range(rest'[r].todo) =
              {rests[r][k] : k \in {m \in Kept(rests[r]) : Promoted(rests[r][m])}}
         /\ IsInjective(rests[r]) => IsInjective(rests'[r]) /\ IsInjective(rest'[r].todo)
         /\ rest'[r].pc = NextMove(rest'[r].todo)
         /\ rest'[r].seen = rest[r].seen /\ rest'[r].list = rest[r].list
         /\ \A o \in Rest \ {r} :
              /\ rests'[o] = rests[o] /\ rest'[o] = rest[o]
              /\ insert_rest'[o] = insert_rest[o]
         /\ \/ insert_rest'[r] = 0
            \/ \E k \in Blockers(rests[r], insert) : insert_rest'[r] = rests[r][k].expire
<1> DEFINE free == {k \in Kept(rests[r]) : Promoted(rests[r][k])}
           at == Blockers(rests[r], insert)
<1>1. /\ rest[r].pc = "scan"
      /\ UNCHANGED <<i, phase, stream, insert, sky_arr, insert_sky, sky, skylines, window,
                     windows, output, raced>>
  BY DEF RestScan, printed
<1>2. rests[r] \in Seq(Node)
  BY RestWorkerFields
<1>3. /\ free \in SUBSET DOMAIN rests[r] /\ Kept(rests[r]) \ free \in SUBSET DOMAIN rests[r]
      /\ at \in SUBSET DOMAIN rests[r]
      /\ Kept(rests[r]) \ free = {m \in Kept(rests[r]) : ~Promoted(rests[r][m])}
  BY KeptPositions
<1>4. PICK e \in LastExpiry(rests[r], at) : insert_rest' = [insert_rest EXCEPT ![r] = e]
  BY DEF RestScan
<1>5. PICK staying \in Picked(rests[r], Kept(rests[r]) \ free) :
        rests' = [rests EXCEPT ![r] = staying]
  BY DEF RestScan
<1>6. PICK moved, pc :
        /\ moved \in Picked(rests[r], free) /\ pc = NextMove(moved)
        /\ rest' = [rest EXCEPT ![r].todo = moved, ![r].pc = pc]
  BY DEF RestScan
<1> HIDE DEF free, at
<1>7. /\ insert_rest'[r] = e /\ rests'[r] = staying
      /\ \A o \in Rest \ {r} : rests'[o] = rests[o] /\ insert_rest'[o] = insert_rest[o]
  BY <1>4, <1>5 DEF TypeOK
<1>8. /\ rest'[r].todo = moved /\ rest'[r].pc = pc
      /\ rest'[r].seen = rest[r].seen /\ rest'[r].list = rest[r].list
      /\ \A o \in Rest \ {r} : rest'[o] = rest[o]
  BY RestMap, <1>6 DEF RestWorker
<1>9. e = 0 \/ \E k \in at : e = rests[r][k].expire
  BY <1>2, <1>3, <1>4, LastExpiryOf
<1>10. /\ Range(staying) = {rests[r][k] : k \in Kept(rests[r]) \ free}
       /\ IsInjective(rests[r]) => IsInjective(staying)
  BY <1>2, <1>3, <1>5, PickedList
<1>11. /\ Range(moved) = {rests[r][k] : k \in free}
       /\ IsInjective(rests[r]) => IsInjective(moved)
  BY <1>2, <1>3, <1>6, PickedList
<1>12. QED
  BY <1>1, <1>3, <1>6, <1>7, <1>8, <1>9, <1>10, <1>11, Zenon DEF free, at

LEMMA RestReadHeadEffect ==
  ASSUME TypeOK, NEW r \in Rest, RestReadHead(r)
  PROVE  /\ rest[r].pc = "move"
         /\ UNCHANGED <<i, phase, stream, insert, sky_arr, insert_sky, insert_rest, sky,
                        skylines, rests, window, windows, output, raced>>
         /\ rest'[r].pc = "write" /\ rest'[r].todo = rest[r].todo
         /\ rest'[r].list \in Sky /\ rest'[r].seen = skylines[rest'[r].list]
         /\ \A o \in Rest \ {r} : rest'[o] = rest[o]
<1>1. PICK s, l :
        /\ s \in Sky /\ l = skylines[s]
        /\ rest' = [rest EXCEPT ![r].pc = "write", ![r].list = s, ![r].seen = l]
  BY DEF RestReadHead
<1>2. /\ rest'[r].pc = "write" /\ rest'[r].todo = rest[r].todo
      /\ rest'[r].list = s /\ rest'[r].seen = l
      /\ \A o \in Rest \ {r} : rest'[o] = rest[o]
  BY RestMap, <1>1 DEF RestWorker
<1>3. QED
  BY <1>1, <1>2 DEF RestReadHead, printed

\* The node a rest worker pushes.
Carried(r) == MkNode(Head(rest[r].todo).tuple, Head(rest[r].todo).expire, 0)

LEMMA RestWriteHeadEffect ==
  ASSUME TypeOK, NEW r \in Rest, RestWriteHead(r)
  PROVE  /\ rest[r].pc = "write"
         /\ UNCHANGED <<i, phase, stream, insert, sky_arr, insert_sky, insert_rest, sky, rests,
                        window, windows, output>>
         /\ rest[r].list \in Sky
         /\ skylines'[rest[r].list] = <<Carried(r)>> \o rest[r].seen
         /\ \A s \in Sky \ {rest[r].list} : skylines'[s] = skylines[s]
         /\ rest'[r].pc = NextMove(rest'[r].todo) /\ rest'[r].todo = Tail(rest[r].todo)
         /\ rest'[r].seen = <<>> /\ rest'[r].list = rest[r].list
         /\ \A o \in Rest \ {r} : rest'[o] = rest[o]
         /\ ~raced' => ~raced /\ rest[r].seen = skylines[rest[r].list]
<1>1. /\ rest[r].pc = "write"
      /\ UNCHANGED <<i, phase, stream, insert, sky_arr, insert_sky, insert_rest, sky, rests,
                     window, windows, output>>
  BY DEF RestWriteHead, printed
<1>2. rest[r].list \in Sky
  BY RestWorkerFields
<1>3. /\ skylines'[rest[r].list] = <<Carried(r)>> \o rest[r].seen
      /\ \A s \in Sky \ {rest[r].list} : skylines'[s] = skylines[s]
  <2>1. PICK l : /\ l = <<Carried(r)>> \o rest[r].seen
                 /\ skylines' = [skylines EXCEPT ![rest[r].list] = l]
    BY DEF RestWriteHead, Carried
  <2>2. QED
    BY <1>2, <2>1 DEF TypeOK
<1>4. /\ rest'[r].pc = NextMove(rest'[r].todo) /\ rest'[r].todo = Tail(rest[r].todo)
      /\ rest'[r].seen = <<>> /\ rest'[r].list = rest[r].list
      /\ \A o \in Rest \ {r} : rest'[o] = rest[o]
  BY RestMap DEF RestWriteHead
<1>5. ~raced' => ~raced /\ rest[r].seen = skylines[rest[r].list]
  BY Zenon DEF RestWriteHead
<1>6. QED
  BY <1>1, <1>2, <1>3, <1>4, <1>5

\* The newest tuple is put on one list, in front.
LEMMA InsertTupleEffect ==
  ASSUME TypeOK, InsertTuple
  PROVE  /\ phase = "check_rest" /\ phase' = "generate" /\ i' = i + 1
         /\ UNCHANGED <<stream, sky_arr, insert_sky, insert_rest, sky, rest, window, windows>>
         /\ \A r \in Rest : rest[r].pc = "done"
         /\ insert' \in Nat /\ insert' >= insert
         /\ ~raced' => /\ ~raced
                       /\ insert' = insert \/ \E r \in Rest : insert' = insert_rest[r]
         /\ \/ /\ \A s \in Sky : sky_arr[s]
               /\ rests' = rests
               /\ \E s \in Sky :
                    /\ skylines'[s] = <<MkNode(t, i + W, 0)>> \o skylines[s]
                    /\ \A o \in Sky \ {s} : skylines'[o] = skylines[o]
            \/ /\ \E s \in Sky : ~sky_arr[s]
               /\ skylines' = skylines
               /\ \E r \in Rest :
                    /\ rests'[r] = <<MkNode(t, i + W, insert')>> \o rests[r]
                    /\ \A o \in Rest \ {r} : rests'[o] = rests[o]
<1>1. PICK beyond \in [Sky \ Rest -> Garbage] :
        /\ insert' \in Greatest({insert} \cup Insertions(beyond))
        /\ raced' = (raced \/ \E s \in Sky \ Rest : beyond[s] > insert)
  BY DEF InsertTuple
<1>2. PICK e : e = insert'
  OBVIOUS
<1>3. /\ e \in Nat /\ e >= insert
      /\ \/ e = insert
         \/ \E r \in Rest : e = insert_rest[r]
         \/ \E s \in Sky \ Rest : e = beyond[s]
  BY <1>1, <1>2, InsertGrows
<1>4. ASSUME ~raced'
      PROVE  ~raced /\ (e = insert \/ \E r \in Rest : e = insert_rest[r])
  <2>1. ~raced /\ \A s \in Sky \ Rest : ~(beyond[s] > insert)
    BY <1>1, <1>4
  <2>2. ASSUME NEW s \in Sky \ Rest, e = beyond[s]
        PROVE  e = insert
    BY <1>3, <2>1, <2>2 DEF TypeOK
  <2>3. QED
    BY <1>3, <2>1, <2>2
<1>5. \/ /\ \A s \in Sky : sky_arr[s]
         /\ rests' = rests
         /\ \E s \in Sky :
              /\ skylines'[s] = <<MkNode(t, i + W, 0)>> \o skylines[s]
              /\ \A o \in Sky \ {s} : skylines'[o] = skylines[o]
      \/ /\ \E s \in Sky : ~sky_arr[s]
         /\ skylines' = skylines
         /\ \E r \in Rest :
              /\ rests'[r] = <<MkNode(t, i + W, insert')>> \o rests[r]
              /\ \A o \in Rest \ {r} : rests'[o] = rests[o]
  <2>1. CASE /\ \A s \in Sky : sky_arr[s]
             /\ \E s \in Sky :
                  skylines' = [skylines EXCEPT ![s] = <<MkNode(t, i + W, 0)>> \o @]
             /\ UNCHANGED rests
    <3>1. PICK s, l : /\ s \in Sky /\ l = <<MkNode(t, i + W, 0)>> \o skylines[s]
                      /\ skylines' = [skylines EXCEPT ![s] = l]
      BY <2>1
    <3>2. skylines'[s] = l /\ \A o \in Sky \ {s} : skylines'[o] = skylines[o]
      BY <3>1 DEF TypeOK
    <3>3. QED
      BY <2>1, <3>1, <3>2
  <2>2. CASE /\ \E s \in Sky : ~sky_arr[s]
             /\ \E r \in Rest :
                  rests' = [rests EXCEPT ![r] = <<MkNode(t, i + W, insert')>> \o @]
             /\ UNCHANGED skylines
    <3>1. PICK r, l : /\ r \in Rest /\ l = <<MkNode(t, i + W, insert')>> \o rests[r]
                      /\ rests' = [rests EXCEPT ![r] = l]
      BY <2>2
    <3>2. rests'[r] = l /\ \A o \in Rest \ {r} : rests'[o] = rests[o]
      BY <3>1 DEF TypeOK
    <3>3. QED
      BY <2>2, <3>1, <3>2
  <2>3. QED
    BY <2>1, <2>2, Zenon DEF InsertTuple
<1>6. QED
  BY <1>2, <1>3, <1>4, <1>5 DEF InsertTuple

LEMMA InsertTupleTypes == ASSUME TypeOK, InsertTuple PROVE TypeOK'
<1>1. PICK e : e = insert'
  OBVIOUS
<1>2. phase = "check_rest" /\ e \in Nat /\ 0 \in Nat
  BY <1>1, InsertTupleEffect
<1>3. MkNode(t, i + W, 0) \in Node /\ MkNode(t, i + W, e) \in Node
  BY <1>2, NewNode
<1>4. skylines' \in [Sky -> Seq(Node)] /\ rests' \in [Rest -> Seq(Node)]
  <2>1. ASSUME NEW s \in Sky
        PROVE  <<MkNode(t, i + W, 0)>> \o skylines[s] \in Seq(Node)
    BY <1>3, SkyWorkerFields, Pushed
  <2>2. ASSUME NEW r \in Rest
        PROVE  <<MkNode(t, i + W, e)>> \o rests[r] \in Seq(Node)
    BY <1>3, RestWorkerFields, Pushed
  <2>3. CASE /\ \E s \in Sky :
                  skylines' = [skylines EXCEPT ![s] = <<MkNode(t, i + W, 0)>> \o @]
             /\ UNCHANGED rests
    <3>1. PICK s, l : /\ s \in Sky /\ l = <<MkNode(t, i + W, 0)>> \o skylines[s]
                      /\ skylines' = [skylines EXCEPT ![s] = l]
      BY <2>3
    <3>2. l \in Seq(Node)
      BY <2>1, <3>1
    <3>3. QED
      BY <2>3, <3>1, <3>2 DEF TypeOK
  <2>4. CASE /\ \E r \in Rest :
                  rests' = [rests EXCEPT ![r] = <<MkNode(t, i + W, insert')>> \o @]
             /\ UNCHANGED skylines
    <3>1. PICK r, l : /\ r \in Rest /\ l = <<MkNode(t, i + W, e)>> \o rests[r]
                      /\ rests' = [rests EXCEPT ![r] = l]
      BY <1>1, <2>4
    <3>2. l \in Seq(Node)
      BY <2>2, <3>1
    <3>3. QED
      BY <2>4, <3>1, <3>2 DEF TypeOK
  <2>5. QED
    BY <2>3, <2>4, Zenon DEF InsertTuple
<1>5. output' \in Seq(SUBSET Tuple)
  <2> DEFINE shown == UNION {Tuples(Range(skylines'[s])) : s \in Sky}
  <2>1. ASSUME NEW s \in Sky PROVE Tuples(Range(skylines'[s])) \subseteq Tuple
    <3>1. skylines'[s] \in Seq(Node)
      BY <1>4
    <3>2. Range(skylines'[s]) \subseteq Node
      BY <3>1, RangeOfSeq
    <3>3. QED
      BY <3>2 DEF Tuples, Node
  <2>2. shown \in SUBSET Tuple
    BY <2>1
  <2>3. output' = IF WindowComplete /\ OnSlide THEN Append(output, shown) ELSE output
    BY DEF InsertTuple
  <2> HIDE DEF shown
  <2>4. QED
    BY <2>2, <2>3, AppendProperties DEF TypeOK
<1>6. raced' \in BOOLEAN
  BY Zenon DEF InsertTuple, TypeOK
<1>7. i' \in 0..N /\ Len(stream') = i' /\ phase' = "generate"
  BY ParametersAssumption DEF InsertTuple, TypeOK
<1>8. QED
  BY <1>1, <1>2, <1>4, <1>5, <1>6, <1>7 DEF InsertTuple, TypeOK

\* Every step keeps the variables in their types.
LEMMA TypeStep ==
  ASSUME TypeOK, SkyWorkers, RestWorkers, Next
  PROVE  TypeOK'
BY GenerateTupleTypes, FlagReadTypes, FlagWriteTypes, SkyScanTypes, JoinSkyTypes, RestScanTypes,
   RestReadHeadTypes, RestWriteHeadTypes, InsertTupleTypes DEF Next

----------------------------------------------------------------------------
(* The phases.                                                             *)

\* A worker that has not ended is one of the stage main is in.
LEMMA InStage ==
  ASSUME SkyWorkers, RestWorkers
  PROVE  /\ \A s \in Sky : sky[s].pc # "done" => phase = "check_skyline"
         /\ \A r \in Rest : rest[r].pc # "done" => phase = "check_rest"
BY DEF SkyWorkers, RestWorkers

LEMMA SkyWorkersStep ==
  ASSUME TypeOK, SkyWorkers, RestWorkers, Next
  PROVE  SkyWorkers'
<1>1. CASE GenerateTuple
  <2>1. /\ phase' = "check_skyline"
        /\ \A s \in Sky : sky'[s].pc = "read" /\ sky'[s].writes = 1
    BY <1>1, GenerateTupleEffect
  <2>2. QED
    BY <2>1 DEF SkyWorkers
<1>2. ASSUME NEW s \in Sky, FlagRead(s) PROVE SkyWorkers'
  <2>1. phase' = "check_skyline" /\ phase = "check_skyline"
    BY <1>2, FlagReadEffect, InStage
  <2>2. /\ sky[s].pc = "read" /\ sky'[s].pc = "write" /\ sky'[s].writes = sky[s].writes
        /\ \A o \in Sky \ {s} : sky'[o] = sky[o]
    BY <1>2, FlagReadEffect
  <2>3. ASSUME NEW o \in Sky
        PROVE  /\ sky'[o].pc \in {"read", "write"} => sky'[o].writes > 0
               /\ sky'[o].pc = "scan" => sky'[o].value
               /\ sky'[o].pc = "done" => ~sky'[o].value
    BY <2>1, <2>2 DEF SkyWorkers
  <2>4. QED
    BY <2>1, <2>3 DEF SkyWorkers
<1>3. ASSUME NEW s \in Sky, FlagWrite(s) PROVE SkyWorkers'
  <2>1. phase' = "check_skyline" /\ phase = "check_skyline"
    BY <1>3, FlagWriteEffect, InStage
  <2>2. ASSUME NEW o \in Sky
        PROVE  /\ sky'[o].pc \in {"read", "write"} => sky'[o].writes > 0
               /\ sky'[o].pc = "scan" => sky'[o].value
               /\ sky'[o].pc = "done" => ~sky'[o].value
    <3>1. CASE o = s
      BY <1>3, <3>1, FlagWriteEffect, SkyWorkerFields
    <3>2. CASE o # s
      BY <1>3, <2>1, <3>2, FlagWriteEffect DEF SkyWorkers
    <3>3. QED
      BY <3>1, <3>2
  <2>3. QED
    BY <2>1, <2>2 DEF SkyWorkers
<1>4. ASSUME NEW s \in Sky, SkyScan(s) PROVE SkyWorkers'
  <2>1. phase' = "check_skyline" /\ phase = "check_skyline"
    BY <1>4, SkyScanEffect, InStage
  <2>2. ASSUME NEW o \in Sky
        PROVE  /\ sky'[o].pc \in {"read", "write"} => sky'[o].writes > 0
               /\ sky'[o].pc = "scan" => sky'[o].value
               /\ sky'[o].pc = "done" => ~sky'[o].value
    <3>1. CASE o = s
      BY <1>4, <3>1, SkyScanEffect
    <3>2. CASE o # s
      <4>1. sky'[o] = sky[o]
        BY <1>4, <3>2, SkyScanEffect
      <4>2. QED
        BY <2>1, <4>1 DEF SkyWorkers
    <3>3. QED
      BY <3>1, <3>2
  <2>3. QED
    BY <2>1, <2>2 DEF SkyWorkers
<1>5. CASE JoinSky
  BY <1>5, JoinSkyEffect DEF SkyWorkers
<1>6. ASSUME NEW r \in Rest, RestScan(r) \/ RestReadHead(r) \/ RestWriteHead(r)
      PROVE  SkyWorkers'
  <2>1. sky' = sky /\ phase' = phase
    BY <1>6 DEF RestScan, RestReadHead, RestWriteHead
  <2>2. QED
    BY <2>1 DEF SkyWorkers
<1>7. CASE InsertTuple
  BY <1>7, InsertTupleEffect DEF SkyWorkers
<1>8. QED
  BY <1>1, <1>2, <1>3, <1>4, <1>5, <1>6, <1>7 DEF Next

LEMMA RestWorkersStep ==
  ASSUME TypeOK, SkyWorkers, RestWorkers, Next
  PROVE  RestWorkers'
<1>1. CASE GenerateTuple
  BY <1>1, GenerateTupleEffect DEF RestWorkers, Still
<1>2. ASSUME NEW s \in Sky, FlagRead(s) \/ FlagWrite(s) \/ SkyScan(s) PROVE RestWorkers'
  <2>1. rest' = rest /\ phase' = phase
    BY <1>2 DEF FlagRead, FlagWrite, SkyScan
  <2>2. QED
    BY <2>1 DEF RestWorkers
<1>3. CASE JoinSky
  BY <1>3, JoinSkyEffect DEF RestWorkers
<1>4. ASSUME NEW r \in Rest, RestScan(r) PROVE RestWorkers'
  <2>1. phase' = "check_rest" /\ phase = "check_rest"
    BY <1>4, RestScanEffect, InStage
  <2>2. rest[r].seen = <<>>
    BY <1>4, RestScanEffect DEF RestWorkers
  <2>3. QED
    BY <1>4, <2>1, <2>2, RestScanEffect DEF RestWorkers, NextMove
<1>5. ASSUME NEW r \in Rest, RestReadHead(r) PROVE RestWorkers'
  <2>1. phase' = "check_rest" /\ phase = "check_rest"
    BY <1>5, RestReadHeadEffect, InStage
  <2>2. /\ rest[r].pc = "move" /\ rest'[r].pc = "write" /\ rest'[r].todo = rest[r].todo
        /\ \A o \in Rest \ {r} : rest'[o] = rest[o]
    BY <1>5, RestReadHeadEffect
  <2>3. ASSUME NEW o \in Rest
        PROVE  /\ rest'[o].pc \in {"move", "write"} <=> rest'[o].todo # <<>>
               /\ rest'[o].pc # "write" => rest'[o].seen = <<>>
    BY <2>1, <2>2 DEF RestWorkers
  <2>4. QED
    BY <2>1, <2>3 DEF RestWorkers
<1>6. ASSUME NEW r \in Rest, RestWriteHead(r) PROVE RestWorkers'
  <2>1. phase' = "check_rest" /\ phase = "check_rest"
    BY <1>6, RestWriteHeadEffect, InStage
  <2>2. /\ rest'[r].pc = NextMove(rest'[r].todo) /\ rest'[r].seen = <<>>
        /\ \A o \in Rest \ {r} : rest'[o] = rest[o]
    BY <1>6, RestWriteHeadEffect
  <2>3. ASSUME NEW o \in Rest
        PROVE  /\ rest'[o].pc \in {"move", "write"} <=> rest'[o].todo # <<>>
               /\ rest'[o].pc # "write" => rest'[o].seen = <<>>
    BY <2>1, <2>2 DEF RestWorkers, NextMove
  <2>4. QED
    BY <2>1, <2>3 DEF RestWorkers
<1>7. CASE InsertTuple
  BY <1>7, InsertTupleEffect DEF RestWorkers
<1>8. QED
  BY <1>1, <1>2, <1>3, <1>4, <1>5, <1>6, <1>7 DEF Next

----------------------------------------------------------------------------
(* Where the nodes are.                                                    *)

LEMMA PlaceIs ==
  ASSUME NEW p \in Place
  PROVE  \/ \E s \in Sky : p = <<"sky", s>>
         \/ \E r \in Rest : p = <<"rest", r>>
         \/ \E r \in Rest : p = <<"moved", r>>
BY DEF Place

LEMMA PlacesAre ==
  /\ \A s \in Sky : <<"sky", s>> \in Place
  /\ \A r \in Rest : <<"rest", r>> \in Place /\ <<"moved", r>> \in Place
BY DEF Place

\* The contents of the places.
Contents ==
  /\ \A s \in Sky : \A x :
       x \in NodesAt(<<"sky", s>>) <=>
         \/ x \in Range(skylines[s])
         \/ \E r \in Rest : rest[r].list = s /\ x \in Range(rest[r].seen)
  /\ \A r \in Rest : NodesAt(<<"rest", r>>) = Range(rests[r])
  /\ \A r \in Rest : NodesAt(<<"moved", r>>) = Range(rest[r].todo)

LEMMA ContentsAre == Contents
<1>1. ASSUME NEW s \in Sky, NEW x
      PROVE  x \in NodesAt(<<"sky", s>>) <=>
               \/ x \in Range(skylines[s])
               \/ \E r \in Rest : rest[r].list = s /\ x \in Range(rest[r].seen)
  <2>1. NodesAt(<<"sky", s>>) = OnSkyline(s)
    BY DEF NodesAt
  <2>2. x \in OnSkyline(s) <=>
          x \in Range(skylines[s])
            \/ \E r \in Rest : x \in (IF rest[r].list = s THEN Range(rest[r].seen) ELSE {})
    BY Zenon DEF OnSkyline
  <2>3. QED
    BY <2>1, <2>2
<1>2. ASSUME NEW r \in Rest
      PROVE  /\ NodesAt(<<"rest", r>>) = Range(rests[r])
             /\ NodesAt(<<"moved", r>>) = Range(rest[r].todo)
  BY DEF NodesAt
<1>3. QED
  BY <1>1, <1>2 DEF Contents

LEMMA ContentsNext == Contents'
BY ContentsAre, PTL

LEMMA EmptyRange == Range(<<>>) = {}
BY DEF Range

LEMMA StoredNodes ==
  ASSUME TypeOK, NEW p \in Place, NEW x \in NodesAt(p)
  PROVE  x \in Node /\ x.tuple \in Tuple /\ x.expire \in Nat /\ x.insert \in Nat
<1>1. x \in Node
  <2>1. \A s \in Sky : Range(skylines[s]) \subseteq Node
    BY SkyWorkerFields, RangeOfSeq
  <2>2. \A r \in Rest : /\ Range(rests[r]) \subseteq Node
                        /\ Range(rest[r].todo) \subseteq Node
                        /\ Range(rest[r].seen) \subseteq Node
    BY RestWorkerFields, RangeOfSeq
  <2>3. ASSUME NEW s \in Sky, p = <<"sky", s>> PROVE x \in Node
    <3>1. \/ x \in Range(skylines[s])
          \/ \E r \in Rest : rest[r].list = s /\ x \in Range(rest[r].seen)
      BY <2>3, ContentsAre DEF Contents
    <3>2. QED
      BY <2>1, <2>2, <3>1
  <2>4. ASSUME NEW r \in Rest, p = <<"rest", r>> \/ p = <<"moved", r>> PROVE x \in Node
    BY <2>2, <2>4, ContentsAre DEF Contents
  <2>5. QED
    BY <2>3, <2>4, PlaceIs
<1>2. QED
  BY <1>1 DEF Node

\* No step but these moves a node.
LEMMA StillNodes ==
  ASSUME Still, NEW p \in Place
  PROVE  NodesAt(p)' = NodesAt(p)
BY DEF Still, NodesAt, OnSkyline

\* The rest workers have nothing in their hands outside their stage.
LEMMA EmptyHands ==
  ASSUME RestWorkers, NEW r \in Rest, phase # "check_rest" \/ rest[r].pc \in {"scan", "done"}
  PROVE  rest[r].todo = <<>> /\ rest[r].seen = <<>>
BY DEF RestWorkers

LEMMA SkyScanNodes ==
  ASSUME TypeOK, SkyWorkers, RestWorkers, NEW s \in Sky, SkyScan(s)
  PROVE  /\ \A p \in Place : p # <<"sky", s>> => NodesAt(p)' = NodesAt(p)
         /\ NodesAt(<<"sky", s>>)' = {x \in NodesAt(<<"sky", s>>) : Fresh(x)}
<1>1. phase = "check_skyline"
  BY InStage, SkyScanEffect
<1>2. rest' = rest /\ rests' = rests /\ \A o \in Sky \ {s} : skylines'[o] = skylines[o]
  BY SkyScanEffect
<1>3. \A r \in Rest : Range(rest[r].seen) = {}
  BY <1>1, EmptyHands, EmptyRange
<1>4. \A x : x \in Range(skylines'[s]) <=> x \in Range(skylines[s]) /\ Fresh(x)
  <2>1. Range(skylines'[s]) = {skylines[s][k] : k \in Kept(skylines[s])}
    BY SkyScanEffect
  <2>2. QED
    BY <2>1, Zenon DEF Kept, Fresh, Range
<1>5. \A o \in Sky : \A x :
        /\ x \in NodesAt(<<"sky", o>>) <=> x \in Range(skylines[o])
        /\ x \in NodesAt(<<"sky", o>>)' <=> x \in Range(skylines'[o])
  BY <1>2, <1>3, ContentsAre, ContentsNext DEF Contents
<1>6. NodesAt(<<"sky", s>>)' = {x \in NodesAt(<<"sky", s>>) : Fresh(x)}
  BY <1>4, <1>5
<1>7. ASSUME NEW o \in Sky, o # s PROVE NodesAt(<<"sky", o>>)' = NodesAt(<<"sky", o>>)
  BY <1>2, <1>5, <1>7
<1>8. ASSUME NEW r \in Rest
      PROVE  /\ NodesAt(<<"rest", r>>)' = NodesAt(<<"rest", r>>)
             /\ NodesAt(<<"moved", r>>)' = NodesAt(<<"moved", r>>)
  BY <1>2, ContentsAre, ContentsNext DEF Contents
<1>9. QED
  BY <1>6, <1>7, <1>8, PlaceIs

LEMMA JoinSkyNodes ==
  ASSUME TypeOK, RestWorkers, JoinSky, NEW p \in Place
  PROVE  NodesAt(p)' = NodesAt(p)
<1>1. skylines' = skylines /\ rests' = rests /\ phase = "check_skyline"
  BY JoinSkyEffect
<1>2. \A r \in Rest : /\ Range(rest[r].seen) = {} /\ Range(rest[r].todo) = {}
                      /\ Range(rest'[r].seen) = {} /\ Range(rest'[r].todo) = {}
  BY <1>1, EmptyHands, JoinSkyEffect, EmptyRange
<1>3. ASSUME NEW s \in Sky PROVE NodesAt(<<"sky", s>>)' = NodesAt(<<"sky", s>>)
  <2>1. \A x : x \in NodesAt(<<"sky", s>>)' <=> x \in NodesAt(<<"sky", s>>)
    BY <1>1, <1>2, ContentsAre, ContentsNext DEF Contents
  <2>2. QED
    BY <2>1
<1>4. ASSUME NEW r \in Rest
      PROVE  /\ NodesAt(<<"rest", r>>)' = NodesAt(<<"rest", r>>)
             /\ NodesAt(<<"moved", r>>)' = NodesAt(<<"moved", r>>)
  BY <1>1, <1>2, ContentsAre, ContentsNext DEF Contents
<1>5. QED
  BY <1>3, <1>4, PlaceIs

LEMMA RestScanNodes ==
  ASSUME TypeOK, RestWorkers, NEW r \in Rest, RestScan(r)
  PROVE  /\ \A p \in Place :
              p # <<"rest", r>> /\ p # <<"moved", r>> => NodesAt(p)' = NodesAt(p)
         /\ NodesAt(<<"rest", r>>)' =
              {x \in NodesAt(<<"rest", r>>) : Fresh(x) /\ ~Promoted(x)}
         /\ NodesAt(<<"moved", r>>)' = {x \in NodesAt(<<"rest", r>>) : Fresh(x) /\ Promoted(x)}
<1>1. /\ skylines' = skylines /\ \A o \in Rest \ {r} : rests'[o] = rests[o] /\ rest'[o] = rest[o]
      /\ rest'[r].seen = rest[r].seen /\ rest'[r].list = rest[r].list
  BY RestScanEffect
<1>2. \A x : x \in Range(rests'[r]) <=> x \in Range(rests[r]) /\ Fresh(x) /\ ~Promoted(x)
  <2>1. Range(rests'[r]) = {rests[r][k] : k \in {m \in Kept(rests[r]) : ~Promoted(rests[r][m])}}
    BY RestScanEffect
  <2>2. QED
    BY <2>1, Zenon DEF Kept, Fresh, Range
<1>3. \A x : x \in Range(rest'[r].todo) <=> x \in Range(rests[r]) /\ Fresh(x) /\ Promoted(x)
  <2>1. Range(rest'[r].todo) =
          {rests[r][k] : k \in {m \in Kept(rests[r]) : Promoted(rests[r][m])}}
    BY RestScanEffect
  <2>2. QED
    BY <2>1, Zenon DEF Kept, Fresh, Range
<1>4. /\ NodesAt(<<"rest", r>>) = Range(rests[r])
      /\ NodesAt(<<"rest", r>>)' = Range(rests'[r])
      /\ NodesAt(<<"moved", r>>)' = Range(rest'[r].todo)
  BY ContentsAre, ContentsNext DEF Contents
<1>5. ASSUME NEW s \in Sky PROVE NodesAt(<<"sky", s>>)' = NodesAt(<<"sky", s>>)
  <2>1. \A q \in Rest : rest'[q].seen = rest[q].seen /\ rest'[q].list = rest[q].list
    BY <1>1
  <2>2. \A x : x \in NodesAt(<<"sky", s>>)' <=> x \in NodesAt(<<"sky", s>>)
    BY <1>1, <2>1, ContentsAre, ContentsNext DEF Contents
  <2>3. QED
    BY <2>2
<1>6. ASSUME NEW q \in Rest, q # r
      PROVE  /\ NodesAt(<<"rest", q>>)' = NodesAt(<<"rest", q>>)
             /\ NodesAt(<<"moved", q>>)' = NodesAt(<<"moved", q>>)
  BY <1>1, <1>6, ContentsAre, ContentsNext DEF Contents
<1>7. \A p \in Place : p # <<"rest", r>> /\ p # <<"moved", r>> => NodesAt(p)' = NodesAt(p)
  BY <1>5, <1>6, PlaceIs
<1>8. QED
  BY <1>2, <1>3, <1>4, <1>7

\* What the worker takes into its hands is what is on the list.
LEMMA RestReadHeadNodes ==
  ASSUME TypeOK, RestWorkers, NEW r \in Rest, RestReadHead(r), NEW p \in Place
  PROVE  NodesAt(p)' = NodesAt(p)
<1>1. /\ rest[r].pc = "move" /\ skylines' = skylines /\ rests' = rests
      /\ rest'[r].todo = rest[r].todo
      /\ rest'[r].list \in Sky /\ rest'[r].seen = skylines[rest'[r].list]
      /\ \A o \in Rest \ {r} : rest'[o] = rest[o]
  BY RestReadHeadEffect
<1>2. Range(rest[r].seen) = {}
  BY <1>1, EmptyRange DEF RestWorkers
<1>3. ASSUME NEW s \in Sky PROVE NodesAt(<<"sky", s>>)' = NodesAt(<<"sky", s>>)
  <2>1. ASSUME NEW x PROVE x \in NodesAt(<<"sky", s>>)' <=> x \in NodesAt(<<"sky", s>>)
    <3>1. x \in NodesAt(<<"sky", s>>) <=>
            x \in Range(skylines[s])
              \/ \E q \in Rest \ {r} : rest[q].list = s /\ x \in Range(rest[q].seen)
      BY <1>2, ContentsAre DEF Contents
    <3>2. x \in NodesAt(<<"sky", s>>)' <=>
            \/ x \in Range(skylines[s])
            \/ rest'[r].list = s /\ x \in Range(rest'[r].seen)
            \/ \E q \in Rest \ {r} : rest[q].list = s /\ x \in Range(rest[q].seen)
      BY <1>1, ContentsNext DEF Contents
    <3>3. rest'[r].list = s => Range(rest'[r].seen) = Range(skylines[s])
      BY <1>1
    <3>4. QED
      BY <3>1, <3>2, <3>3
  <2>2. QED
    BY <2>1
<1>4. ASSUME NEW q \in Rest
      PROVE  /\ NodesAt(<<"rest", q>>)' = NodesAt(<<"rest", q>>)
             /\ NodesAt(<<"moved", q>>)' = NodesAt(<<"moved", q>>)
  <2>1. rest'[q].todo = rest[q].todo
    BY <1>1
  <2>2. QED
    BY <1>1, <2>1, ContentsAre, ContentsNext DEF Contents
<1>5. QED
  BY <1>3, <1>4, PlaceIs

\* A push puts the node back on the list the worker has read, or loses what has come
\* there meanwhile.
LEMMA RestWriteHeadNodes ==
  ASSUME TypeOK, RestWorkers, NEW r \in Rest, RestWriteHead(r),
         NEW l, l = rest[r].list, NEW h, h = Head(rest[r].todo), NEW c, c = Carried(r)
  PROVE  /\ l \in Sky /\ h \in NodesAt(<<"moved", r>>)
         /\ c \in Node /\ c.tuple = h.tuple /\ c.expire = h.expire
         /\ NodesAt(<<"sky", l>>)' \subseteq NodesAt(<<"sky", l>>) \cup {c}
         /\ c \in NodesAt(<<"sky", l>>)'
         /\ Range(rest[r].seen) \subseteq NodesAt(<<"sky", l>>)
         /\ ~raced' => NodesAt(<<"sky", l>>) \subseteq NodesAt(<<"sky", l>>)'
         /\ NodesAt(<<"moved", r>>)' \subseteq NodesAt(<<"moved", r>>)
         /\ NodesAt(<<"moved", r>>) \subseteq NodesAt(<<"moved", r>>)' \cup {h}
         /\ IsInjective(rest[r].todo) => h \notin NodesAt(<<"moved", r>>)'
         /\ \A p \in Place :
              p # <<"sky", l>> /\ p # <<"moved", r>> => NodesAt(p)' = NodesAt(p)
<1>1. /\ rest[r].pc = "write" /\ rests' = rests
      /\ l \in Sky
      /\ skylines'[l] = <<c>> \o rest[r].seen
      /\ \A s \in Sky \ {l} : skylines'[s] = skylines[s]
      /\ rest'[r].todo = Tail(rest[r].todo)
      /\ rest'[r].seen = <<>> /\ rest'[r].list = rest[r].list
      /\ \A o \in Rest \ {r} : rest'[o] = rest[o]
      /\ ~raced' => rest[r].seen = skylines[l]
  BY RestWriteHeadEffect
<1>2. rest[r].todo \in Seq(Node) /\ rest[r].todo # <<>> /\ rest[r].seen \in Seq(Node)
  BY <1>1, RestWorkerFields DEF RestWorkers
<1>3. /\ h \in Node /\ h \in Range(rest[r].todo)
      /\ Range(Tail(rest[r].todo)) \subseteq Range(rest[r].todo)
      /\ Range(rest[r].todo) \subseteq Range(Tail(rest[r].todo)) \cup {h}
      /\ IsInjective(rest[r].todo) => h \notin Range(Tail(rest[r].todo))
  BY <1>2, Popped
<1>4. c \in Node /\ c.tuple = h.tuple /\ c.expire = h.expire
  BY <1>3, MovedNode DEF Carried
<1>5. Range(skylines'[l]) = {c} \cup Range(rest[r].seen)
  BY <1>1, <1>2, <1>4, Pushed
<1>6. /\ NodesAt(<<"moved", r>>) = Range(rest[r].todo)
      /\ NodesAt(<<"moved", r>>)' = Range(Tail(rest[r].todo))
  BY <1>1, ContentsAre, ContentsNext DEF Contents
<1>7. Range(rest[r].seen) \subseteq NodesAt(<<"sky", l>>)
  BY <1>1, ContentsAre DEF Contents
<1>8. \A x : x \in NodesAt(<<"sky", l>>) <=>
              \/ x \in Range(skylines[l]) \/ x \in Range(rest[r].seen)
              \/ \E q \in Rest \ {r} : rest[q].list = l /\ x \in Range(rest[q].seen)
  BY <1>1, ContentsAre DEF Contents
<1>9. \A x : x \in NodesAt(<<"sky", l>>)' <=>
              \/ x = c \/ x \in Range(rest[r].seen)
              \/ \E q \in Rest \ {r} : rest[q].list = l /\ x \in Range(rest[q].seen)
  <2>1. \A x : x \in NodesAt(<<"sky", l>>)' <=>
                \/ x \in Range(skylines'[l])
                \/ \E q \in Rest : rest'[q].list = l /\ x \in Range(rest'[q].seen)
    BY <1>1, ContentsNext DEF Contents
  <2>2. Range(rest'[r].seen) = {}
    BY <1>1, EmptyRange
  <2>3. \A x : (\E q \in Rest : rest'[q].list = l /\ x \in Range(rest'[q].seen)) <=>
                \E q \in Rest \ {r} : rest[q].list = l /\ x \in Range(rest[q].seen)
    BY <1>1, <2>2
  <2>4. QED
    BY <1>5, <2>1, <2>3
<1>10. ~raced' => NodesAt(<<"sky", l>>) \subseteq NodesAt(<<"sky", l>>)'
  BY <1>1, <1>8, <1>9
<1>11. ASSUME NEW s \in Sky, s # l PROVE NodesAt(<<"sky", s>>)' = NodesAt(<<"sky", s>>)
  <2>1. \A x : x \in NodesAt(<<"sky", s>>) <=>
                 \/ x \in Range(skylines[s])
                 \/ \E q \in Rest \ {r} : rest[q].list = s /\ x \in Range(rest[q].seen)
    BY <1>11, ContentsAre DEF Contents
  <2>2. \A x : x \in NodesAt(<<"sky", s>>)' <=>
                 \/ x \in Range(skylines[s])
                 \/ \E q \in Rest \ {r} : rest[q].list = s /\ x \in Range(rest[q].seen)
    BY <1>1, <1>11, ContentsNext DEF Contents
  <2>3. QED
    BY <2>1, <2>2
<1>12. ASSUME NEW q \in Rest
       PROVE  /\ NodesAt(<<"rest", q>>)' = NodesAt(<<"rest", q>>)
              /\ q # r => NodesAt(<<"moved", q>>)' = NodesAt(<<"moved", q>>)
  BY <1>1, ContentsAre, ContentsNext DEF Contents
<1>13. \A p \in Place : p # <<"sky", l>> /\ p # <<"moved", r>> => NodesAt(p)' = NodesAt(p)
  BY <1>11, <1>12, PlaceIs
<1>14. QED
  BY <1>1, <1>3, <1>4, <1>6, <1>7, <1>8, <1>9, <1>10, <1>13

\* The step puts one node in a place.
Added(pl, x) ==
  /\ NodesAt(pl)' = NodesAt(pl) \cup {x}
  /\ \A p \in Place : p # pl => NodesAt(p)' = NodesAt(p)

LEMMA InsertTupleNodes ==
  ASSUME TypeOK, InsertTuple
  PROVE  \/ /\ \A s \in Sky : sky_arr[s]
            /\ \E s \in Sky : Added(<<"sky", s>>, MkNode(t, i + W, 0))
         \/ /\ \E s \in Sky : ~sky_arr[s]
            /\ \E r \in Rest : Added(<<"rest", r>>, MkNode(t, i + W, insert'))
<1>1. PICK e : e = insert'
  OBVIOUS
<1>2. phase = "check_rest" /\ rest' = rest /\ e \in Nat /\ 0 \in Nat
  BY <1>1, InsertTupleEffect
<1>3. MkNode(t, i + W, 0) \in Node /\ MkNode(t, i + W, e) \in Node
  BY <1>2, NewNode
<1>4. ASSUME NEW s \in Sky, rests' = rests,
             skylines'[s] = <<MkNode(t, i + W, 0)>> \o skylines[s],
             \A o \in Sky \ {s} : skylines'[o] = skylines[o]
      PROVE  Added(<<"sky", s>>, MkNode(t, i + W, 0))
  <2> DEFINE x == MkNode(t, i + W, 0)
  <2>1. Range(skylines'[s]) = {x} \cup Range(skylines[s])
    BY <1>3, <1>4, SkyWorkerFields, Pushed
  <2> HIDE DEF x
  <2>2. \A y : y \in NodesAt(<<"sky", s>>)' <=> y \in NodesAt(<<"sky", s>>) \/ y = x
    BY <1>2, <2>1, ContentsAre, ContentsNext DEF Contents
  <2>3. NodesAt(<<"sky", s>>)' = NodesAt(<<"sky", s>>) \cup {x}
    BY <2>2
  <2>4. ASSUME NEW o \in Sky, o # s PROVE NodesAt(<<"sky", o>>)' = NodesAt(<<"sky", o>>)
    <3>1. \A y : y \in NodesAt(<<"sky", o>>)' <=> y \in NodesAt(<<"sky", o>>)
      BY <1>2, <1>4, <2>4, ContentsAre, ContentsNext DEF Contents
    <3>2. QED
      BY <3>1
  <2>5. ASSUME NEW r \in Rest
        PROVE  /\ NodesAt(<<"rest", r>>)' = NodesAt(<<"rest", r>>)
               /\ NodesAt(<<"moved", r>>)' = NodesAt(<<"moved", r>>)
    BY <1>2, <1>4, ContentsAre, ContentsNext DEF Contents
  <2>6. \A p \in Place : p # <<"sky", s>> => NodesAt(p)' = NodesAt(p)
    BY <2>4, <2>5, PlaceIs
  <2>7. QED
    BY <2>3, <2>6 DEF Added, x
<1>5. ASSUME NEW r \in Rest, skylines' = skylines,
             rests'[r] = <<MkNode(t, i + W, e)>> \o rests[r],
             \A o \in Rest \ {r} : rests'[o] = rests[o]
      PROVE  Added(<<"rest", r>>, MkNode(t, i + W, e))
  <2> DEFINE x == MkNode(t, i + W, e)
  <2>1. Range(rests'[r]) = {x} \cup Range(rests[r])
    BY <1>3, <1>5, RestWorkerFields, Pushed
  <2> HIDE DEF x
  <2>2. NodesAt(<<"rest", r>>)' = NodesAt(<<"rest", r>>) \cup {x}
    BY <2>1, ContentsAre, ContentsNext DEF Contents
  <2>3. ASSUME NEW s \in Sky PROVE NodesAt(<<"sky", s>>)' = NodesAt(<<"sky", s>>)
    <3>1. \A y : y \in NodesAt(<<"sky", s>>)' <=> y \in NodesAt(<<"sky", s>>)
      BY <1>2, <1>5, ContentsAre, ContentsNext DEF Contents
    <3>2. QED
      BY <3>1
  <2>4. ASSUME NEW o \in Rest
        PROVE  /\ o # r => NodesAt(<<"rest", o>>)' = NodesAt(<<"rest", o>>)
               /\ NodesAt(<<"moved", o>>)' = NodesAt(<<"moved", o>>)
    BY <1>2, <1>5, ContentsAre, ContentsNext DEF Contents
  <2>5. \A p \in Place : p # <<"rest", r>> => NodesAt(p)' = NodesAt(p)
    BY <2>3, <2>4, PlaceIs
  <2>6. QED
    BY <2>2, <2>5 DEF Added, x
<1>6. CASE \A s \in Sky : sky_arr[s]
  BY <1>4, <1>6, InsertTupleEffect
<1>7. CASE \E s \in Sky : ~sky_arr[s]
  <2>1. PICK r \in Rest : /\ skylines' = skylines
                          /\ rests'[r] = <<MkNode(t, i + W, e)>> \o rests[r]
                          /\ \A o \in Rest \ {r} : rests'[o] = rests[o]
    BY <1>1, <1>7, InsertTupleEffect
  <2>2. Added(<<"rest", r>>, MkNode(t, i + W, insert'))
    BY <1>1, <1>5, <2>1
  <2>3. QED
    BY <1>7, <2>2
<1>8. QED
  BY <1>6, <1>7

----------------------------------------------------------------------------
(* The nodes are sound.                                                    *)

ScannedPlaces ==
  /\ \A s \in Sky : Scanned(<<"sky", s>>) <=>
       phase = "check_rest" \/ (phase = "check_skyline" /\ ~sky[s].value)
  /\ \A r \in Rest : Scanned(<<"rest", r>>) <=> phase = "check_rest" /\ rest[r].pc # "scan"
  /\ \A r \in Rest : Scanned(<<"moved", r>>) <=> phase = "check_rest"

LEMMA ScannedAre == ScannedPlaces
BY DEF ScannedPlaces, Scanned

LEMMA ScannedNext == ScannedPlaces'
BY ScannedAre, PTL

LEMMA SoundFrame ==
  ASSUME i' = i, stream' = stream, NEW x
  PROVE  (Sound(x)' <=> Sound(x)) /\ (Fresh(x)' <=> Fresh(x))
BY DEF Sound, Fresh, t, Arrived, NumberOf

\* Only the tuple and the expiry of a node matter.
LEMMA SoundSame ==
  ASSUME NEW x, NEW y, x.tuple = y.tuple, x.expire = y.expire
  PROVE  (Sound(x) => Sound(y)) /\ (Fresh(x) => Fresh(y))
BY DEF Sound, Fresh, NumberOf

\* The tuples that have arrived stay what they are.
LEMMA ArrivedStays ==
  ASSUME TypeOK, phase = "generate", NEW new \in Tuple, stream' = Append(stream, new)
  PROVE  /\ i \in Nat /\ Len(stream) = i /\ Len(stream') = i + 1
         /\ \A j \in 0..(i - 1) : Arrived(stream', j) = Arrived(stream, j)
         /\ Arrived(stream', i) = new
<1>1. stream \in Seq(Tuple) /\ Len(stream) = i /\ i \in Nat
  BY DEF TypeOK
<1>2. \A j \in 0..(i - 1) : j + 1 \in 1..Len(stream)
  BY <1>1
<1>3. QED
  BY <1>1, <1>2, AppendProperties DEF Arrived

LEMMA SoundGenerate ==
  ASSUME TypeOK, GenerateTuple, NEW x, Sound(x)
  PROVE  Sound(x)'
<1>1. PICK new \in Tuple : stream' = Append(stream, new)
  BY GenerateTupleEffect
<1>2. i' = i /\ i \in Nat /\ \A j \in 0..(i - 1) : Arrived(stream', j) = Arrived(stream, j)
  BY <1>1, ArrivedStays, GenerateTupleEffect
<1>3. QED
  BY <1>2 DEF Sound, NumberOf

\* A node scanned for the newest tuple is sound once main counts it.
LEMMA SoundCounted ==
  ASSUME TypeOK, InsertTuple, NEW x \in Node, Sound(x), Fresh(x)
  PROVE  Sound(x)'
<1>1. i' = i + 1 /\ stream' = stream /\ i \in Nat /\ x.expire \in Nat /\ W \in Nat
  <2>1. i' = i + 1 /\ stream' = stream
    BY InsertTupleEffect
  <2>2. i \in Nat
    BY DEF TypeOK
  <2>3. x.expire \in Nat
    BY DEF Node
  <2>4. QED
    BY <2>1, <2>2, <2>3, WAssumption
<1>2. \A j \in 0..(i' - 1) : j \in 0..(i - 1) \/ j = i
  BY <1>1
<1>3. QED
  BY <1>1, <1>2 DEF Sound, Fresh, NumberOf, t

LEMMA SoundNew ==
  ASSUME TypeOK, InsertTuple, NEW e \in Nat, NEW x, x = MkNode(t, i + W, e)
  PROVE  Sound(x)'
<1>1. x.tuple = t /\ x.expire = i + W
  BY InsertTupleEffect, NewNode
<1>2. i' = i + 1 /\ stream' = stream /\ i \in Nat /\ W \in Nat \ {0}
  <2>1. i' = i + 1 /\ stream' = stream
    BY InsertTupleEffect
  <2>2. i \in Nat
    BY DEF TypeOK
  <2>3. QED
    BY <2>1, <2>2, WAssumption
<1>3. NumberOf(x) = i /\ x.tuple = Arrived(stream, i)
  BY <1>1, <1>2 DEF NumberOf, t
<1>4. QED
  BY <1>1, <1>2, <1>3 DEF Sound, NumberOf

\* A place that only loses nodes, and is not newly scanned.
LEMMA SoundKept ==
  ASSUME NodesSound, i' = i, stream' = stream, NEW p \in Place,
         NodesAt(p)' \subseteq NodesAt(p), Scanned(p)' => Scanned(p)
  PROVE  \A x \in NodesAt(p)' : Sound(x)' /\ (Scanned(p)' => Fresh(x)')
BY SoundFrame DEF NodesSound

LEMMA NodesSoundStep ==
  ASSUME TypeOK, SkyWorkers, RestWorkers, NodesSound, Next
  PROVE  NodesSound'
<1>1. CASE GenerateTuple
  <2>1. Still /\ phase' = "check_skyline" /\ \A s \in Sky : sky'[s].value = TRUE
    BY <1>1, GenerateTupleEffect
  <2>2. ASSUME NEW p \in Place PROVE ~Scanned(p)'
    BY <2>1, PlaceIs, ScannedNext DEF ScannedPlaces
  <2>3. ASSUME NEW p \in Place, NEW x \in NodesAt(p)' PROVE Sound(x)'
    BY <1>1, <2>1, StillNodes, SoundGenerate DEF NodesSound
  <2>4. QED
    BY <2>2, <2>3 DEF NodesSound
<1>2. ASSUME NEW s \in Sky, FlagRead(s) \/ FlagWrite(s) PROVE NodesSound'
  <2>1. /\ Still /\ phase' = phase /\ i' = i /\ stream' = stream
        /\ \A o \in Sky : sky'[o].value = sky[o].value
    BY <1>2, FlagReadEffect, FlagWriteEffect
  <2>2. ASSUME NEW p \in Place PROVE Scanned(p)' <=> Scanned(p)
    BY <2>1, PlaceIs, ScannedAre, ScannedNext DEF ScannedPlaces, Still
  <2>3. QED
    BY <2>1, <2>2, StillNodes, SoundKept DEF NodesSound
<1>3. ASSUME NEW s \in Sky, SkyScan(s) PROVE NodesSound'
  <2>1. /\ phase' = phase /\ i' = i /\ stream' = stream /\ rest' = rest
        /\ \A o \in Sky \ {s} : sky'[o] = sky[o]
    BY <1>3, SkyScanEffect
  <2>2. ASSUME NEW p \in Place, p # <<"sky", s>> PROVE Scanned(p)' <=> Scanned(p)
    BY <2>1, <2>2, PlaceIs, ScannedAre, ScannedNext DEF ScannedPlaces
  <2>3. ASSUME NEW p \in Place, NEW x \in NodesAt(p)'
        PROVE  Sound(x)' /\ (Scanned(p)' => Fresh(x)')
    <3>1. CASE p = <<"sky", s>>
      BY <1>3, <2>1, <2>3, <3>1, SkyScanNodes, SoundFrame DEF NodesSound
    <3>2. CASE p # <<"sky", s>>
      BY <1>3, <2>1, <2>2, <2>3, <3>2, SkyScanNodes, SoundKept
    <3>3. QED
      BY <3>1, <3>2
  <2>4. QED
    BY <2>3 DEF NodesSound
<1>4. CASE JoinSky
  <2>1. /\ phase = "check_skyline" /\ phase' = "check_rest" /\ i' = i /\ stream' = stream
        /\ \A s \in Sky : sky[s].pc = "done"
        /\ \A r \in Rest : rest'[r].pc = "scan" /\ rest'[r].todo = <<>>
    BY <1>4, JoinSkyEffect
  <2>2. ASSUME NEW s \in Sky PROVE Scanned(<<"sky", s>>)
    BY <2>1, ScannedAre DEF ScannedPlaces, SkyWorkers
  <2>3. ASSUME NEW r \in Rest
        PROVE  ~Scanned(<<"rest", r>>)' /\ NodesAt(<<"moved", r>>)' = {}
    BY <2>1, ScannedNext, ContentsNext, EmptyRange DEF ScannedPlaces, Contents
  <2>4. ASSUME NEW p \in Place, NEW x \in NodesAt(p)'
        PROVE  Sound(x)' /\ (Scanned(p)' => Fresh(x)')
    <3>1. NodesAt(p)' = NodesAt(p)
      BY <1>4, JoinSkyNodes
    <3>2. Scanned(p)' => Scanned(p)
      BY <2>2, <2>3, <2>4, PlaceIs
    <3>3. QED
      BY <2>1, <2>4, <3>1, <3>2, SoundKept
  <2>5. QED
    BY <2>4 DEF NodesSound
<1>5. ASSUME NEW r \in Rest, RestScan(r) PROVE NodesSound'
  <2>1. /\ phase' = phase /\ i' = i /\ stream' = stream /\ sky' = sky
        /\ \A o \in Rest \ {r} : rest'[o] = rest[o]
    BY <1>5, RestScanEffect
  <2>2. ASSUME NEW p \in Place, p # <<"rest", r>> PROVE Scanned(p)' <=> Scanned(p)
    BY <2>1, <2>2, PlaceIs, ScannedAre, ScannedNext DEF ScannedPlaces
  <2>3. ASSUME NEW p \in Place, NEW x \in NodesAt(p)'
        PROVE  Sound(x)' /\ (Scanned(p)' => Fresh(x)')
    <3>1. CASE p = <<"rest", r>> \/ p = <<"moved", r>>
      <4>1. x \in NodesAt(<<"rest", r>>) /\ Fresh(x) /\ <<"rest", r>> \in Place
        BY <1>5, <2>3, <3>1, RestScanNodes, PlacesAre
      <4>2. QED
        BY <2>1, <4>1, SoundFrame DEF NodesSound
    <3>2. CASE p # <<"rest", r>> /\ p # <<"moved", r>>
      BY <1>5, <2>1, <2>2, <2>3, <3>2, RestScanNodes, SoundKept
    <3>3. QED
      BY <3>1, <3>2
  <2>4. QED
    BY <2>3 DEF NodesSound
<1>6. ASSUME NEW r \in Rest, RestReadHead(r) PROVE NodesSound'
  <2>1. /\ phase' = phase /\ i' = i /\ stream' = stream /\ sky' = sky
        /\ rest[r].pc = "move" /\ rest'[r].pc = "write"
        /\ \A o \in Rest \ {r} : rest'[o] = rest[o]
    BY <1>6, RestReadHeadEffect
  <2>2. \A o \in Rest : rest'[o].pc = "scan" <=> rest[o].pc = "scan"
    BY <2>1
  <2>3. ASSUME NEW p \in Place PROVE Scanned(p)' <=> Scanned(p)
    BY <2>1, <2>2, PlaceIs, ScannedAre, ScannedNext DEF ScannedPlaces
  <2>4. QED
    BY <1>6, <2>1, <2>3, RestReadHeadNodes, SoundKept DEF NodesSound
<1>7. ASSUME NEW r \in Rest, RestWriteHead(r) PROVE NodesSound'
  <2>1. /\ phase = "check_rest" /\ phase' = phase /\ i' = i /\ stream' = stream /\ sky' = sky
        /\ rest[r].pc = "write" /\ rest'[r].pc = NextMove(rest'[r].todo)
        /\ \A o \in Rest \ {r} : rest'[o] = rest[o]
    BY <1>7, RestWriteHeadEffect, InStage
  <2>2. \A o \in Rest : rest'[o].pc = "scan" <=> rest[o].pc = "scan"
    BY <2>1 DEF NextMove
  <2>3. ASSUME NEW p \in Place PROVE Scanned(p)' <=> Scanned(p)
    BY <2>1, <2>2, PlaceIs, ScannedAre, ScannedNext DEF ScannedPlaces
  <2>4. PICK l, h, c : l = rest[r].list /\ h = Head(rest[r].todo) /\ c = Carried(r)
    OBVIOUS
  <2>5. /\ h \in NodesAt(<<"moved", r>>) /\ c.tuple = h.tuple /\ c.expire = h.expire
        /\ NodesAt(<<"sky", l>>)' \subseteq NodesAt(<<"sky", l>>) \cup {c}
        /\ NodesAt(<<"moved", r>>)' \subseteq NodesAt(<<"moved", r>>)
        /\ \A p \in Place :
              p # <<"sky", l>> /\ p # <<"moved", r>> => NodesAt(p)' = NodesAt(p)
    BY <1>7, <2>4, RestWriteHeadNodes
  <2>6. Sound(h) /\ Fresh(h)
    <3>1. Scanned(<<"moved", r>>) /\ <<"moved", r>> \in Place
      BY <2>1, ScannedAre, PlacesAre DEF ScannedPlaces
    <3>2. QED
      BY <2>5, <3>1 DEF NodesSound
  <2>7. Sound(c)' /\ Fresh(c)'
    BY <2>1, <2>5, <2>6, SoundSame, SoundFrame
  <2>8. ASSUME NEW p \in Place, NEW x \in NodesAt(p)'
        PROVE  Sound(x)' /\ (Scanned(p)' => Fresh(x)')
    <3>1. CASE x = c
      BY <2>7, <3>1
    <3>2. CASE x # c
      <4>1. x \in NodesAt(p)
        BY <2>5, <2>8, <3>2
      <4>2. QED
        BY <2>1, <2>3, <4>1, SoundFrame DEF NodesSound
    <3>3. QED
      BY <3>1, <3>2
  <2>9. QED
    BY <2>8 DEF NodesSound
<1>8. CASE InsertTuple
  <2>1. /\ phase = "check_rest" /\ phase' = "generate"
        /\ \A r \in Rest : rest[r].pc = "done"
        /\ insert' \in Nat
    BY <1>8, InsertTupleEffect
  <2>2. ASSUME NEW p \in Place PROVE Scanned(p) /\ ~Scanned(p)'
    BY <2>1, PlaceIs, ScannedAre, ScannedNext DEF ScannedPlaces
  <2>3. PICK pl, e, y : e \in Nat /\ y = MkNode(t, i + W, e) /\ Added(pl, y)
    BY <1>8, <2>1, InsertTupleNodes
  <2>4. ASSUME NEW p \in Place, NEW x \in NodesAt(p)' PROVE Sound(x)'
    <3>1. CASE x \in NodesAt(p)
      <4>1. x \in Node /\ Sound(x) /\ Fresh(x)
        BY <2>2, <3>1, StoredNodes DEF NodesSound
      <4>2. QED
        BY <1>8, <4>1, SoundCounted
    <3>2. CASE x \notin NodesAt(p)
      <4>1. x = y
        BY <2>3, <2>4, <3>2 DEF Added
      <4>2. QED
        BY <1>8, <2>3, <4>1, SoundNew
    <3>3. QED
      BY <3>1, <3>2
  <2>5. QED
    BY <2>2, <2>4 DEF NodesSound
<1>9. QED
  BY <1>1, <1>2, <1>3, <1>4, <1>5, <1>6, <1>7, <1>8 DEF Next

----------------------------------------------------------------------------
(* A tuple is in one place.                                                *)

LEMMA ApartShrinks ==
  ASSUME Apart, \A p \in Place : NodesAt(p)' \subseteq NodesAt(p)
  PROVE  Apart'
BY DEF Apart

LEMMA ApartAdded ==
  ASSUME Apart, NEW pl \in Place, NEW x, Added(pl, x),
         \A p \in Place : \A y \in NodesAt(p) : y.expire # x.expire
  PROVE  Apart'
<1>1. ASSUME NEW p \in Place, NEW y \in NodesAt(p)'
      PROVE  \/ y \in NodesAt(p) /\ y.expire # x.expire
             \/ p = pl /\ y = x
  BY <1>1 DEF Added
<1>2. ASSUME NEW p \in Place, NEW y \in NodesAt(p)', NEW q \in Place, NEW z \in NodesAt(q)',
             y.expire = z.expire
      PROVE  p = q /\ y = z
  BY <1>1, <1>2 DEF Apart
<1>3. QED
  BY <1>2 DEF Apart

\* A scan of a rest list parts it in two.
LEMMA ApartRestScan ==
  ASSUME TypeOK, RestWorkers, Apart, NEW r \in Rest, RestScan(r)
  PROVE  Apart'
<1>1. <<"rest", r>> \in Place /\ <<"moved", r>> \in Place
  BY PlacesAre
<1>2. ASSUME NEW p \in Place, NEW x \in NodesAt(p)'
      PROVE  \/ p = <<"rest", r>> /\ x \in NodesAt(<<"rest", r>>) /\ ~Promoted(x)
             \/ p = <<"moved", r>> /\ x \in NodesAt(<<"rest", r>>) /\ Promoted(x)
             \/ p # <<"rest", r>> /\ p # <<"moved", r>> /\ x \in NodesAt(p)
  BY <1>2, RestScanNodes
<1>3. ASSUME NEW p \in Place, NEW x \in NodesAt(p)', NEW q \in Place, NEW y \in NodesAt(q)',
             x.expire = y.expire
      PROVE  p = q /\ x = y
  <2>1. PICK a \in Place : /\ x \in NodesAt(a)
                           /\ a = IF p = <<"moved", r>> THEN <<"rest", r>> ELSE p
    BY <1>1, <1>2, <1>3
  <2>2. PICK b \in Place : /\ y \in NodesAt(b)
                           /\ b = IF q = <<"moved", r>> THEN <<"rest", r>> ELSE q
    BY <1>1, <1>2, <1>3
  <2>3. a = b /\ x = y
    BY <1>3, <2>1, <2>2 DEF Apart
  <2>4. QED
    BY <1>2, <1>3, <2>1, <2>2, <2>3
<1>4. QED
  BY <1>3 DEF Apart

\* A pushed node leaves the worker's hands for the skyline list.
LEMMA ApartRestWriteHead ==
  ASSUME TypeOK, RestWorkers, Apart, NoRepeats, NEW r \in Rest, RestWriteHead(r)
  PROVE  Apart'
<1>1. PICK l, h, c : l = rest[r].list /\ h = Head(rest[r].todo) /\ c = Carried(r)
  OBVIOUS
<1>2. /\ l \in Sky /\ h \in NodesAt(<<"moved", r>>) /\ c.expire = h.expire
      /\ NodesAt(<<"sky", l>>)' \subseteq NodesAt(<<"sky", l>>) \cup {c}
      /\ NodesAt(<<"moved", r>>)' \subseteq NodesAt(<<"moved", r>>)
      /\ IsInjective(rest[r].todo) => h \notin NodesAt(<<"moved", r>>)'
      /\ \A p \in Place :
            p # <<"sky", l>> /\ p # <<"moved", r>> => NodesAt(p)' = NodesAt(p)
  BY <1>1, RestWriteHeadNodes
<1>3. h \notin NodesAt(<<"moved", r>>)' /\ <<"moved", r>> \in Place
  BY <1>2, PlacesAre DEF NoRepeats
<1>4. ASSUME NEW p \in Place, NEW x \in NodesAt(p)'
      PROVE  (p = <<"sky", l>> /\ x = c) \/ x \in NodesAt(p)
  BY <1>2, <1>4
<1>5. ASSUME NEW p \in Place, NEW x \in NodesAt(p)', x.expire = c.expire
      PROVE  p = <<"sky", l>> /\ x = c
  <2>1. CASE x \in NodesAt(p)
    <3>1. p = <<"moved", r>> /\ x = h
      BY <1>2, <1>3, <1>5, <2>1 DEF Apart
    <3>2. QED
      BY <1>3, <1>5, <3>1
  <2>2. QED
    BY <1>4, <1>5, <2>1
<1>6. ASSUME NEW p \in Place, NEW x \in NodesAt(p)', NEW q \in Place, NEW y \in NodesAt(q)',
             x.expire = y.expire
      PROVE  p = q /\ x = y
  <2>1. CASE x.expire = c.expire
    BY <1>5, <1>6, <2>1
  <2>2. CASE x.expire # c.expire
    <3>1. x \in NodesAt(p) /\ y \in NodesAt(q)
      BY <1>4, <1>6, <2>2
    <3>2. QED
      BY <1>6, <3>1 DEF Apart
  <2>3. QED
    BY <2>1, <2>2
<1>7. QED
  BY <1>6 DEF Apart

\* The newest tuple is on no list yet.
LEMMA NewIsNew ==
  ASSUME TypeOK, NodesSound, NEW p \in Place, NEW y \in NodesAt(p)
  PROVE  y.expire # i + W
<1>1. NumberOf(y) \in 0..(i - 1) /\ y.expire \in Nat
  BY StoredNodes DEF NodesSound, Sound
<1>2. i \in Nat /\ W \in Nat
  BY WAssumption DEF TypeOK
<1>3. QED
  BY <1>1, <1>2 DEF NumberOf

LEMMA ApartStep ==
  ASSUME TypeOK, SkyWorkers, RestWorkers, NodesSound, Apart, NoRepeats, Next
  PROVE  Apart'
<1>1. CASE GenerateTuple
  BY <1>1, GenerateTupleEffect, StillNodes, ApartShrinks
<1>2. ASSUME NEW s \in Sky, FlagRead(s) \/ FlagWrite(s) PROVE Apart'
  BY <1>2, FlagReadEffect, FlagWriteEffect, StillNodes, ApartShrinks
<1>3. ASSUME NEW s \in Sky, SkyScan(s) PROVE Apart'
  <2>1. \A p \in Place : NodesAt(p)' \subseteq NodesAt(p)
    BY <1>3, SkyScanNodes
  <2>2. QED
    BY <2>1, ApartShrinks
<1>4. CASE JoinSky
  BY <1>4, JoinSkyNodes, ApartShrinks
<1>5. ASSUME NEW r \in Rest, RestReadHead(r) PROVE Apart'
  BY <1>5, RestReadHeadNodes, ApartShrinks
<1>6. CASE InsertTuple
  <2>1. phase = "check_rest" /\ insert' \in Nat
    BY <1>6, InsertTupleEffect
  <2>2. PICK pl, e : pl \in Place /\ e \in Nat /\ Added(pl, MkNode(t, i + W, e))
    BY <1>6, <2>1, InsertTupleNodes, PlacesAre
  <2>3. PICK x : x = MkNode(t, i + W, e)
    OBVIOUS
  <2>4. x.expire = i + W
    BY <2>1, <2>2, <2>3, NewNode
  <2>5. QED
    BY <2>2, <2>3, <2>4, NewIsNew, ApartAdded
<1>7. QED
  BY <1>1, <1>2, <1>3, <1>4, <1>5, <1>6, ApartRestScan, ApartRestWriteHead DEF Next

----------------------------------------------------------------------------
(* No list holds a node twice.                                             *)

LEMMA EmptyInjective == IsInjective(<<>>)
BY DEF IsInjective

\* The node put in front of a list was not on it.
LEMMA NewInFront ==
  ASSUME TypeOK, phase # "generate", NodesSound, NEW e \in Nat, NEW x, x = MkNode(t, i + W, e),
         NEW p \in Place, NEW l \in Seq(Node), Range(l) \subseteq NodesAt(p), IsInjective(l)
  PROVE  IsInjective(<<x>> \o l)
<1>1. x \in Node /\ x.expire = i + W
  BY NewNode
<1>2. x \notin Range(l)
  BY <1>1, NewIsNew
<1>3. QED
  BY <1>1, <1>2, Pushed

LEMMA NoRepeatsStep ==
  ASSUME TypeOK, SkyWorkers, RestWorkers, NodesSound, Apart, NoRepeats, Next
  PROVE  NoRepeats'
<1>1. ASSUME Still PROVE NoRepeats'
  BY <1>1 DEF NoRepeats, Still
<1>2. ASSUME NEW s \in Sky, SkyScan(s) PROVE NoRepeats'
  <2>1. rest' = rest /\ rests' = rests
    BY <1>2, SkyScanEffect
  <2>2. ASSUME NEW o \in Sky PROVE IsInjective(skylines'[o])
    <3>1. CASE o = s
      BY <1>2, <3>1, SkyScanEffect DEF NoRepeats
    <3>2. CASE o # s
      <4>1. skylines'[o] = skylines[o]
        BY <1>2, <3>2, SkyScanEffect
      <4>2. QED
        BY <4>1 DEF NoRepeats
    <3>3. QED
      BY <3>1, <3>2
  <2>3. QED
    BY <2>1, <2>2 DEF NoRepeats
<1>3. CASE JoinSky
  <2>1. /\ skylines' = skylines /\ rests' = rests
        /\ \A r \in Rest : rest'[r].todo = <<>> /\ rest'[r].seen = <<>>
    BY <1>3, JoinSkyEffect
  <2>2. QED
    BY <2>1, EmptyInjective DEF NoRepeats
<1>4. ASSUME NEW r \in Rest, RestScan(r) PROVE NoRepeats'
  <2>1. /\ skylines' = skylines
        /\ \A o \in Rest \ {r} : rests'[o] = rests[o] /\ rest'[o] = rest[o]
        /\ rest'[r].seen = rest[r].seen
    BY <1>4, RestScanEffect
  <2>2. IsInjective(rests'[r]) /\ IsInjective(rest'[r].todo)
    BY <1>4, RestScanEffect DEF NoRepeats
  <2>3. ASSUME NEW o \in Rest
        PROVE  /\ IsInjective(rests'[o]) /\ IsInjective(rest'[o].todo)
               /\ IsInjective(rest'[o].seen)
    <3>1. CASE o = r
      BY <2>1, <2>2, <3>1 DEF NoRepeats
    <3>2. CASE o # r
      BY <2>1, <3>2 DEF NoRepeats
    <3>3. QED
      BY <3>1, <3>2
  <2>4. QED
    BY <2>1, <2>3 DEF NoRepeats
<1>5. ASSUME NEW r \in Rest, RestReadHead(r) PROVE NoRepeats'
  <2>1. /\ skylines' = skylines /\ rests' = rests
        /\ rest'[r].todo = rest[r].todo
        /\ rest'[r].list \in Sky /\ rest'[r].seen = skylines[rest'[r].list]
        /\ \A o \in Rest \ {r} : rest'[o] = rest[o]
    BY <1>5, RestReadHeadEffect
  <2>2. IsInjective(rest'[r].todo) /\ IsInjective(rest'[r].seen)
    BY <2>1 DEF NoRepeats
  <2>3. ASSUME NEW o \in Rest PROVE IsInjective(rest'[o].todo) /\ IsInjective(rest'[o].seen)
    BY <2>1, <2>2 DEF NoRepeats
  <2>4. QED
    BY <2>1, <2>3 DEF NoRepeats
<1>6. ASSUME NEW r \in Rest, RestWriteHead(r) PROVE NoRepeats'
  <2>1. PICK l, h, c : l = rest[r].list /\ h = Head(rest[r].todo) /\ c = Carried(r)
    OBVIOUS
  <2>2. /\ l \in Sky /\ h \in NodesAt(<<"moved", r>>) /\ c \in Node /\ c.expire = h.expire
        /\ Range(rest[r].seen) \subseteq NodesAt(<<"sky", l>>)
    BY <1>6, <2>1, RestWriteHeadNodes
  <2>3. /\ rest[r].pc = "write" /\ rests' = rests
        /\ skylines'[l] = <<c>> \o rest[r].seen
        /\ \A s \in Sky \ {l} : skylines'[s] = skylines[s]
        /\ rest'[r].todo = Tail(rest[r].todo) /\ rest'[r].seen = <<>>
        /\ \A o \in Rest \ {r} : rest'[o] = rest[o]
    BY <1>6, <2>1, RestWriteHeadEffect
  <2>4. c \notin Range(rest[r].seen)
    <3>1. <<"sky", l>> \in Place /\ <<"moved", r>> \in Place /\ <<"sky", l>> # <<"moved", r>>
      BY <2>2, PlacesAre
    <3>2. QED
      BY <2>2, <3>1 DEF Apart
  <2>5. IsInjective(skylines'[l])
    BY <2>2, <2>3, <2>4, RestWorkerFields, Pushed DEF NoRepeats
  <2>6. IsInjective(rest'[r].todo)
    <3>1. rest[r].todo \in Seq(Node) /\ rest[r].todo # <<>> /\ IsInjective(rest[r].todo)
      BY <2>3, RestWorkerFields DEF RestWorkers, NoRepeats
    <3>2. QED
      BY <2>3, <3>1, Popped
  <2>7. ASSUME NEW o \in Rest PROVE IsInjective(rest'[o].todo) /\ IsInjective(rest'[o].seen)
    BY <2>3, <2>6, EmptyInjective DEF NoRepeats
  <2>8. ASSUME NEW o \in Sky PROVE IsInjective(skylines'[o])
    BY <2>3, <2>5 DEF NoRepeats
  <2>9. QED
    BY <2>3, <2>7, <2>8 DEF NoRepeats
<1>7. CASE InsertTuple
  <2>1. /\ phase = "check_rest" /\ insert' \in Nat /\ rest' = rest
        /\ \/ /\ rests' = rests
              /\ \E s \in Sky :
                   /\ skylines'[s] = <<MkNode(t, i + W, 0)>> \o skylines[s]
                   /\ \A o \in Sky \ {s} : skylines'[o] = skylines[o]
           \/ /\ skylines' = skylines
              /\ \E r \in Rest :
                   /\ rests'[r] = <<MkNode(t, i + W, insert')>> \o rests[r]
                   /\ \A o \in Rest \ {r} : rests'[o] = rests[o]
    BY <1>7, InsertTupleEffect
  <2>2. ASSUME NEW s \in Sky, rests' = rests,
               skylines'[s] = <<MkNode(t, i + W, 0)>> \o skylines[s],
               \A o \in Sky \ {s} : skylines'[o] = skylines[o]
        PROVE  NoRepeats'
    <3>1. /\ skylines[s] \in Seq(Node) /\ IsInjective(skylines[s]) /\ <<"sky", s>> \in Place
          /\ Range(skylines[s]) \subseteq NodesAt(<<"sky", s>>)
      BY SkyWorkerFields, PlacesAre, ContentsAre DEF NoRepeats, Contents
    <3>2. IsInjective(skylines'[s])
      BY <2>1, <2>2, <3>1, 0 \in Nat, NewInFront
    <3>3. ASSUME NEW o \in Sky PROVE IsInjective(skylines'[o])
      BY <2>2, <3>2 DEF NoRepeats
    <3>4. QED
      BY <2>1, <2>2, <3>3 DEF NoRepeats
  <2>3. ASSUME NEW r \in Rest, skylines' = skylines,
               rests'[r] = <<MkNode(t, i + W, insert')>> \o rests[r],
               \A o \in Rest \ {r} : rests'[o] = rests[o]
        PROVE  NoRepeats'
    <3>1. /\ rests[r] \in Seq(Node) /\ IsInjective(rests[r]) /\ <<"rest", r>> \in Place
          /\ Range(rests[r]) \subseteq NodesAt(<<"rest", r>>)
      BY RestWorkerFields, PlacesAre, ContentsAre DEF NoRepeats, Contents
    <3>2. PICK e : e = insert'
      OBVIOUS
    <3>3. IsInjective(rests'[r])
      BY <2>1, <2>3, <3>1, <3>2, NewInFront
    <3>4. ASSUME NEW o \in Rest PROVE IsInjective(rests'[o])
      BY <2>3, <3>3 DEF NoRepeats
    <3>5. QED
      BY <2>1, <2>3, <3>4 DEF NoRepeats
  <2>4. QED
    BY <2>1, <2>2, <2>3
<1>8. QED
  <2>1. GenerateTuple \/ (\E s \in Sky : FlagRead(s) \/ FlagWrite(s)) => Still
    BY GenerateTupleEffect, FlagReadEffect, FlagWriteEffect
  <2>2. QED
    BY <1>1, <1>2, <1>3, <1>4, <1>5, <1>6, <1>7, <2>1 DEF Next

----------------------------------------------------------------------------
(* What a tuple waits for.                                                 *)

LEMMA JustifiedFrame ==
  ASSUME stream' = stream, NEW tuple, NEW e
  PROVE  Justified(tuple, e)' <=> Justified(tuple, e)
BY DEF Justified, Arrived

LEMMA AwaitsFrame ==
  ASSUME i' = i, stream' = stream, NEW e
  PROVE  Awaits(e)' <=> Awaits(e)
BY DEF Awaits, Justified, Arrived, t

\* A tuple that has arrived stays a reason to wait.
LEMMA JustifiedGenerate ==
  ASSUME TypeOK, GenerateTuple, NEW tuple, NEW e, Justified(tuple, e)
  PROVE  Justified(tuple, e)'
<1>1. PICK new \in Tuple : stream' = Append(stream, new)
  BY GenerateTupleEffect
<1>2. /\ i \in Nat /\ Len(stream) = i /\ Len(stream') = i + 1
      /\ \A j \in 0..(i - 1) : Arrived(stream', j) = Arrived(stream, j)
  BY <1>1, ArrivedStays, GenerateTupleEffect
<1>3. e - W \in 0..(i - 1) /\ StrictlyDominates(Arrived(stream, e - W), tuple)
  BY <1>2 DEF Justified
<1>4. e - W \in 0..(Len(stream') - 1)
  BY <1>2, <1>3
<1>5. QED
  BY <1>2, <1>3, <1>4 DEF Justified

\* A node that a scan keeps and that dominates the newest tuple is worth waiting for.
LEMMA BlockerAwaited ==
  ASSUME TypeOK, phase # "generate", NEW x \in Node, Sound(x), Fresh(x),
         Dominate(x.tuple, t)
  PROVE  Awaits(x.expire)
<1>1. t \in Tuple /\ x.tuple \in Tuple
  BY NewNode, 0 \in Nat DEF Node
<1>2. StrictlyDominates(x.tuple, t)
  BY <1>1, StrictlyDominatesIff DEF Fresh
<1>3. x.expire - W \in 0..(Len(stream) - 1)
  <2>1. i \in Nat /\ Len(stream) = i + 1
    BY DEF TypeOK
  <2>2. x.expire - W \in 0..(i - 1)
    BY DEF Sound, NumberOf
  <2>3. QED
    BY <2>1, <2>2
<1>4. x.expire > i /\ x.tuple = Arrived(stream, x.expire - W)
  BY DEF Fresh, Sound, NumberOf
<1>5. QED
  BY <1>2, <1>3, <1>4 DEF Awaits, Justified

\* So is what a scan finds.
LEMMA ScanAwaits ==
  ASSUME TypeOK, NodesSound, phase # "generate", NEW p \in Place,
         NEW nodes, Range(nodes) \subseteq NodesAt(p), NEW ins, NEW k \in Blockers(nodes, ins)
  PROVE  Awaits(nodes[k].expire)
<1>1. k \in DOMAIN nodes /\ Fresh(nodes[k]) /\ Dominate(nodes[k].tuple, t)
  BY DEF Blockers, Kept, Fresh
<1>2. nodes[k] \in NodesAt(p)
  BY <1>1 DEF Range
<1>3. nodes[k] \in Node /\ Sound(nodes[k])
  BY <1>2, StoredNodes DEF NodesSound
<1>4. QED
  BY <1>1, <1>3, BlockerAwaited

LEMMA InsertsSoundStep ==
  ASSUME TypeOK, SkyWorkers, RestWorkers, NodesSound, InsertsSound, Next
  PROVE  InsertsSound'
<1>1. CASE GenerateTuple
  <2>1. phase' = "check_skyline" /\ insert' = 0 /\ \A s \in Sky : insert_sky'[s] = 0
    BY <1>1, GenerateTupleEffect
  <2>2. QED
    BY <2>1 DEF InsertsSound
<1>2. ASSUME NEW s \in Sky, FlagRead(s) \/ FlagWrite(s) PROVE InsertsSound'
  <2>1. UNCHANGED <<i, phase, stream, insert, insert_sky, insert_rest>>
    BY <1>2, FlagReadEffect, FlagWriteEffect
  <2>2. QED
    BY <2>1, AwaitsFrame DEF InsertsSound
<1>3. ASSUME NEW s \in Sky, SkyScan(s) PROVE InsertsSound'
  <2>1. /\ sky[s].pc = "scan" /\ UNCHANGED <<i, phase, stream, insert>>
        /\ \A o \in Sky \ {s} : insert_sky'[o] = insert_sky[o]
        /\ \/ insert_sky'[s] = 0
           \/ \E k \in Blockers(skylines[s], insert) : insert_sky'[s] = skylines[s][k].expire
    BY <1>3, SkyScanEffect
  <2>2. phase = "check_skyline"
    BY <2>1, InStage
  <2>3. insert_sky'[s] = 0 \/ Awaits(insert_sky'[s])
    <3>1. <<"sky", s>> \in Place /\ Range(skylines[s]) \subseteq NodesAt(<<"sky", s>>)
      BY PlacesAre, ContentsAre DEF Contents
    <3>2. QED
      BY <2>1, <2>2, <3>1, ScanAwaits
  <2>4. ASSUME NEW o \in Sky PROVE insert_sky'[o] = 0 \/ Awaits(insert_sky'[o])
    BY <2>1, <2>2, <2>3 DEF InsertsSound
  <2>5. ASSUME NEW o \in Sky PROVE insert_sky'[o] = 0 \/ Awaits(insert_sky[o])'
    <3>1. PICK e : e = insert_sky'[o]
      OBVIOUS
    <3>2. Awaits(e)' <=> Awaits(e)
      BY <2>1, AwaitsFrame
    <3>3. QED
      BY <2>4, <3>1, <3>2
  <2>6. QED
    BY <2>1, <2>2, <2>5 DEF InsertsSound
<1>4. CASE JoinSky
  <2>1. /\ phase = "check_skyline" /\ phase' = "check_rest" /\ i' = i /\ stream' = stream
        /\ insert' = insert \/ \E s \in Sky : insert' = insert_sky[s]
        /\ \A r \in Rest : insert_rest'[r] = 0
    BY <1>4, JoinSkyEffect
  <2>2. PICK e : e = insert'
    OBVIOUS
  <2>3. e = 0 \/ Awaits(e)
    BY <2>1, <2>2 DEF InsertsSound
  <2>4. e = 0 \/ Awaits(e)'
    BY <2>1, <2>3, AwaitsFrame
  <2>5. QED
    BY <2>1, <2>2, <2>4 DEF InsertsSound
<1>5. ASSUME NEW r \in Rest, RestScan(r) PROVE InsertsSound'
  <2>1. /\ rest[r].pc = "scan" /\ UNCHANGED <<i, phase, stream, insert>>
        /\ \A o \in Rest \ {r} : insert_rest'[o] = insert_rest[o]
        /\ \/ insert_rest'[r] = 0
           \/ \E k \in Blockers(rests[r], insert) : insert_rest'[r] = rests[r][k].expire
    BY <1>5, RestScanEffect
  <2>2. phase = "check_rest"
    BY <2>1, InStage
  <2>3. insert_rest'[r] = 0 \/ Awaits(insert_rest'[r])
    <3>1. <<"rest", r>> \in Place /\ Range(rests[r]) \subseteq NodesAt(<<"rest", r>>)
      BY PlacesAre, ContentsAre DEF Contents
    <3>2. QED
      BY <2>1, <2>2, <3>1, ScanAwaits
  <2>4. ASSUME NEW o \in Rest PROVE insert_rest'[o] = 0 \/ Awaits(insert_rest'[o])
    BY <2>1, <2>2, <2>3 DEF InsertsSound
  <2>5. ASSUME NEW o \in Rest PROVE insert_rest'[o] = 0 \/ Awaits(insert_rest[o])'
    <3>1. PICK e : e = insert_rest'[o]
      OBVIOUS
    <3>2. Awaits(e)' <=> Awaits(e)
      BY <2>1, AwaitsFrame
    <3>3. QED
      BY <2>4, <3>1, <3>2
  <2>6. insert' = 0 \/ Awaits(insert)'
    BY <2>1, <2>2, AwaitsFrame DEF InsertsSound
  <2>7. QED
    BY <2>1, <2>2, <2>5, <2>6 DEF InsertsSound
<1>6. ASSUME NEW r \in Rest, RestReadHead(r) \/ RestWriteHead(r) PROVE InsertsSound'
  <2>1. UNCHANGED <<i, phase, stream, insert, insert_sky, insert_rest>>
    BY <1>6, RestReadHeadEffect, RestWriteHeadEffect
  <2>2. QED
    BY <2>1, AwaitsFrame DEF InsertsSound
<1>7. CASE InsertTuple
  BY <1>7, InsertTupleEffect DEF InsertsSound
<1>8. QED
  BY <1>1, <1>2, <1>3, <1>4, <1>5, <1>6, <1>7 DEF Next

----------------------------------------------------------------------------
(* As long as nothing has been lost.                                       *)

\* What has been lost stays lost.
LEMMA RacedStays ==
  ASSUME TypeOK, Next, ~raced'
  PROVE  ~raced
BY GenerateTupleEffect, FlagReadEffect, FlagWriteEffect, SkyScanEffect, JoinSkyEffect,
   RestScanEffect, RestReadHeadEffect, RestWriteHeadEffect, InsertTupleEffect DEF Next

\* The flag of one check_skyline.
FlagRight(s) ==
  /\ sky[s].pc = "scan" => sky_arr[s]
  /\ ~sky[s].value => insert_sky[s] > 0 \/ (sky[s].pc = "done" /\ sky_arr[s])

LEMMA FlagsRightStep ==
  ASSUME TypeOK, SkyWorkers, RestWorkers, FlagsRight, Next, ~raced'
  PROVE  FlagsRight'
<1>1. CASE GenerateTuple
  <2>1. /\ phase' = "check_skyline"
        /\ \A s \in Sky : sky'[s].pc = "read" /\ sky'[s].value = TRUE
    BY <1>1, GenerateTupleEffect
  <2>2. QED
    BY <2>1 DEF FlagsRight
<1>2. ASSUME NEW s \in Sky, FlagRead(s) PROVE FlagsRight'
  <2>1. phase = "check_skyline"
    BY <1>2, FlagReadEffect, InStage
  <2>2. ASSUME NEW o \in Sky PROVE FlagRight(o)'
    <3>1. FlagRight(o)
      BY <2>1 DEF FlagsRight, FlagRight
    <3>2. CASE o = s
      BY <1>2, <3>1, <3>2, FlagReadEffect DEF FlagRight
    <3>3. CASE o # s
      BY <1>2, <3>1, <3>3, FlagReadEffect DEF FlagRight
    <3>4. QED
      BY <3>2, <3>3
  <2>3. phase' = phase
    BY <1>2, FlagReadEffect
  <2>4. QED
    BY <2>1, <2>2, <2>3 DEF FlagsRight, FlagRight
<1>3. ASSUME NEW s \in Sky, FlagWrite(s) PROVE FlagsRight'
  <2>1. phase = "check_skyline"
    BY <1>3, FlagWriteEffect, InStage
  <2>2. ASSUME NEW o \in Sky PROVE FlagRight(o)'
    <3>1. FlagRight(o)
      BY <2>1 DEF FlagsRight, FlagRight
    <3>2. CASE o = s
      BY <1>3, <3>1, <3>2, FlagWriteEffect DEF FlagRight
    <3>3. CASE o # s
      BY <1>3, <3>1, <3>3, FlagWriteEffect DEF FlagRight
    <3>4. QED
      BY <3>2, <3>3
  <2>3. phase' = phase
    BY <1>3, FlagWriteEffect
  <2>4. QED
    BY <2>1, <2>2, <2>3 DEF FlagsRight, FlagRight
<1>4. ASSUME NEW s \in Sky, SkyScan(s) PROVE FlagsRight'
  <2>1. phase = "check_skyline"
    BY <1>4, SkyScanEffect, InStage
  <2>2. ASSUME NEW k \in Blockers(skylines[s], insert) PROVE skylines[s][k].expire > 0
    <3>1. skylines[s] \in Seq(Node) /\ insert \in Nat
      BY SkyWorkerFields DEF TypeOK
    <3>2. k \in DOMAIN skylines[s] /\ skylines[s][k].expire > insert
      BY DEF Blockers, Kept
    <3>3. skylines[s][k].expire \in Nat
      <4>1. skylines[s][k] \in Node
        BY <3>1, <3>2, LenProperties
      <4>2. QED
        BY <4>1 DEF Node
    <3>4. QED
      BY <3>1, <3>2, <3>3
  <2>3. /\ sky[s].pc = "scan" /\ sky_arr' = sky_arr /\ phase' = phase
        /\ \/ sky'[s].pc = "done"
           \/ sky'[s].pc = "read" /\ insert_sky'[s] > 0
    BY <1>4, <2>2, SkyScanEffect
  <2>4. ASSUME NEW o \in Sky PROVE FlagRight(o)'
    <3>1. FlagRight(o)
      BY <2>1 DEF FlagsRight, FlagRight
    <3>2. CASE o = s
      BY <2>3, <3>1, <3>2 DEF FlagRight
    <3>3. CASE o # s
      BY <1>4, <2>3, <3>1, <3>3, SkyScanEffect DEF FlagRight
    <3>4. QED
      BY <3>2, <3>3
  <2>5. QED
    BY <2>1, <2>3, <2>4 DEF FlagsRight, FlagRight
<1>5. CASE JoinSky
  <2>1. /\ phase = "check_skyline" /\ phase' = "check_rest" /\ sky_arr' = sky_arr
        /\ \A s \in Sky : sky[s].pc = "done" /\ insert' >= insert_sky[s]
    BY <1>5, JoinSkyEffect
  <2>2. ASSUME NEW s \in Sky, ~sky_arr[s] PROVE insert' > 0
    <3>1. ~sky[s].value
      BY <2>1 DEF SkyWorkers
    <3>2. insert_sky[s] > 0
      BY <2>1, <2>2, <3>1 DEF FlagsRight
    <3>3. insert_sky[s] \in Nat /\ insert' \in Nat /\ insert' >= insert_sky[s]
      BY <1>5, <2>1, SkyWorkerFields, JoinSkyTypes DEF TypeOK
    <3>4. QED
      BY <3>2, <3>3
  <2>3. QED
    BY <2>1, <2>2 DEF FlagsRight
<1>6. ASSUME NEW r \in Rest, RestScan(r) \/ RestReadHead(r) \/ RestWriteHead(r)
      PROVE  FlagsRight'
  <2>1. phase = "check_rest" /\ UNCHANGED <<phase, sky_arr, insert>>
    BY <1>6, RestScanEffect, RestReadHeadEffect, RestWriteHeadEffect, InStage
  <2>2. QED
    BY <2>1 DEF FlagsRight
<1>7. CASE InsertTuple
  BY <1>7, InsertTupleEffect DEF FlagsRight
<1>8. QED
  BY <1>1, <1>2, <1>3, <1>4, <1>5, <1>6, <1>7 DEF Next

\* The rest lists stay as they are, and none is newly scanned.
LEMMA WaitingKept ==
  ASSUME Waiting, i' = i, stream' = stream, rests' = rests,
         \A r \in Rest : Scanned(<<"rest", r>>)' => Scanned(<<"rest", r>>)
  PROVE  Waiting'
BY JustifiedFrame DEF Waiting

LEMMA WaitingStep ==
  ASSUME TypeOK, SkyWorkers, RestWorkers, InsertsSound, FlagsRight, Waiting, Next, ~raced'
  PROVE  Waiting'
<1>1. CASE GenerateTuple
  <2>1. Still /\ phase' = "check_skyline" /\ i' = i
    BY <1>1, GenerateTupleEffect
  <2>2. \A r \in Rest : ~Scanned(<<"rest", r>>)'
    BY <2>1, ScannedNext DEF ScannedPlaces
  <2>3. ASSUME NEW r \in Rest, NEW x \in Range(rests[r])
        PROVE  x.insert >= i /\ Justified(x.tuple, x.insert)'
    BY <1>1, JustifiedGenerate DEF Waiting
  <2>4. QED
    BY <2>1, <2>2, <2>3 DEF Waiting, Still
<1>2. ASSUME NEW s \in Sky, FlagRead(s) \/ FlagWrite(s) \/ SkyScan(s) PROVE Waiting'
  <2>1. UNCHANGED <<i, phase, stream, rest, rests>>
    BY <1>2, FlagReadEffect, FlagWriteEffect, SkyScanEffect DEF Still
  <2>2. \A r \in Rest : Scanned(<<"rest", r>>)' <=> Scanned(<<"rest", r>>)
    BY <2>1, ScannedAre, ScannedNext DEF ScannedPlaces
  <2>3. QED
    BY <2>1, <2>2, WaitingKept
<1>3. CASE JoinSky
  <2>1. /\ UNCHANGED <<i, stream, rests>>
        /\ \A r \in Rest : rest'[r].pc = "scan"
    BY <1>3, JoinSkyEffect
  <2>2. \A r \in Rest : ~Scanned(<<"rest", r>>)'
    BY <2>1, ScannedNext DEF ScannedPlaces
  <2>3. QED
    BY <2>1, <2>2, WaitingKept
<1>4. ASSUME NEW r \in Rest, RestScan(r) PROVE Waiting'
  <2>1. /\ UNCHANGED <<i, phase, stream>>
        /\ \A o \in Rest \ {r} : rests'[o] = rests[o] /\ rest'[o] = rest[o]
    BY <1>4, RestScanEffect
  <2>2. ASSUME NEW o \in Rest, o # r
        PROVE  Scanned(<<"rest", o>>)' <=> Scanned(<<"rest", o>>)
    BY <2>1, <2>2, ScannedAre, ScannedNext DEF ScannedPlaces
  <2>3. ASSUME NEW x \in Range(rests'[r])
        PROVE  x \in Range(rests[r]) /\ x.insert > i
    <3>1. <<"rest", r>> \in Place /\ x \in NodesAt(<<"rest", r>>)'
      BY <2>3, PlacesAre, ContentsNext DEF Contents
    <3>2. x \in NodesAt(<<"rest", r>>) /\ ~Promoted(x)
      BY <1>4, <3>1, RestScanNodes
    <3>3. x.insert \in Nat /\ i \in Nat
      BY <3>1, <3>2, StoredNodes DEF TypeOK
    <3>4. QED
      BY <3>2, <3>3, ContentsAre DEF Promoted, Contents
  <2>4. i \in Nat
    BY DEF TypeOK
  <2>5. ASSUME NEW o \in Rest, NEW x \in Range(rests'[o])
        PROVE  /\ x.insert >= i
               /\ Scanned(<<"rest", o>>)' => x.insert > i
               /\ Justified(x.tuple, x.insert)
    <3>1. CASE o = r
      BY <2>3, <2>5, <3>1 DEF Waiting
    <3>2. CASE o # r
      BY <2>1, <2>2, <2>5, <3>2 DEF Waiting
    <3>3. QED
      BY <3>1, <3>2
  <2>6. QED
    BY <2>1, <2>5, JustifiedFrame DEF Waiting
<1>5. ASSUME NEW r \in Rest, RestReadHead(r) \/ RestWriteHead(r) PROVE Waiting'
  <2>1. /\ UNCHANGED <<i, phase, stream, rests>>
        /\ rest[r].pc # "scan"
        /\ \A o \in Rest \ {r} : rest'[o] = rest[o]
    BY <1>5, RestReadHeadEffect, RestWriteHeadEffect
  <2>2. \A o \in Rest : Scanned(<<"rest", o>>)' => Scanned(<<"rest", o>>)
    BY <2>1, ScannedAre, ScannedNext DEF ScannedPlaces
  <2>3. QED
    BY <2>1, <2>2, WaitingKept
<1>6. CASE InsertTuple
  <2>1. /\ phase = "check_rest" /\ phase' = "generate" /\ i' = i + 1 /\ stream' = stream
        /\ \A r \in Rest : rest[r].pc = "done"
        /\ insert' \in Nat /\ insert' >= insert
        /\ insert' = insert \/ \E r \in Rest : insert' = insert_rest[r]
    BY <1>6, InsertTupleEffect
  <2>2. \A r \in Rest : Scanned(<<"rest", r>>) /\ ~Scanned(<<"rest", r>>)'
    BY <2>1, ScannedAre, ScannedNext DEF ScannedPlaces
  <2>3. PICK e : e = insert'
    OBVIOUS
  <2>4. e = 0 \/ Awaits(e)
    BY <2>1, <2>3 DEF InsertsSound
  <2>5. i \in Nat /\ insert \in Nat
    BY DEF TypeOK
  <2>6. ASSUME NEW r \in Rest, NEW x \in Range(rests[r]), x.insert \in Nat
        PROVE  x.insert >= i' /\ Justified(x.tuple, x.insert)
    <3>1. x.insert > i /\ Justified(x.tuple, x.insert)
      BY <2>2 DEF Waiting
    <3>2. QED
      BY <2>1, <2>5, <2>6, <3>1
  <2>7. ASSUME NEW r \in Rest, NEW x \in Range(rests[r]) PROVE x.insert \in Nat
    <3>1. <<"rest", r>> \in Place /\ x \in NodesAt(<<"rest", r>>)
      BY <2>7, PlacesAre, ContentsAre DEF Contents
    <3>2. QED
      BY <3>1, StoredNodes
  <2>8. ASSUME \E s \in Sky : ~sky_arr[s], NEW x, x = MkNode(t, i + W, e)
        PROVE  x.insert >= i' /\ Justified(x.tuple, x.insert)
    <3>1. e > 0
      BY <2>1, <2>3, <2>5, <2>8 DEF FlagsRight
    <3>2. e > i /\ Justified(t, e)
      BY <2>1, <2>3, <2>4, <3>1 DEF Awaits
    <3>3. x.tuple = t /\ x.insert = e
      BY <2>1, <2>3, <2>8, NewNode
    <3>4. QED
      BY <2>1, <2>3, <2>5, <3>2, <3>3
  <2>9. ASSUME NEW r \in Rest, NEW x \in Range(rests'[r])
        PROVE  x.insert >= i' /\ Justified(x.tuple, x.insert)
    <3>1. /\ x \in NodesAt(<<"rest", r>>)' /\ <<"rest", r>> \in Place
          /\ NodesAt(<<"rest", r>>) = Range(rests[r])
      BY <2>9, PlacesAre, ContentsAre, ContentsNext DEF Contents
    <3>2. \/ x \in NodesAt(<<"rest", r>>)
          \/ (\E s \in Sky : ~sky_arr[s]) /\ x = MkNode(t, i + W, e)
      <4>1. ASSUME NEW s \in Sky, Added(<<"sky", s>>, MkNode(t, i + W, 0))
            PROVE  x \in NodesAt(<<"rest", r>>)
        BY <3>1, <4>1 DEF Added
      <4>2. ASSUME NEW o \in Rest, Added(<<"rest", o>>, MkNode(t, i + W, e))
            PROVE  x \in NodesAt(<<"rest", r>>) \/ x = MkNode(t, i + W, e)
        BY <3>1, <4>2 DEF Added
      <4>3. QED
        BY <1>6, <2>3, <4>1, <4>2, InsertTupleNodes
    <3>3. QED
      BY <2>6, <2>7, <2>8, <3>1, <3>2
  <2>10. QED
    BY <2>1, <2>2, <2>9, JustifiedFrame DEF Waiting
<1>7. QED
  BY <1>1, <1>2, <1>3, <1>4, <1>5, <1>6 DEF Next

\* The tuples that have arrived.
LEMMA ArrivedIsTuple ==
  ASSUME TypeOK, NEW j \in 0..(Len(stream) - 1)
  PROVE  Arrived(stream, j) \in Tuple
<1>1. stream \in Seq(Tuple) /\ j + 1 \in 1..Len(stream)
  BY DEF TypeOK
<1>2. QED
  BY <1>1, LenProperties DEF Arrived

LEMMA StoredIs ==
  ASSUME NEW x
  PROVE  x \in Stored <=> \E p \in Place : x \in NodesAt(p)
BY DEF Stored

LEMMA StoredIsAll == \A x : x \in Stored <=> \E p \in Place : x \in NodesAt(p)
BY StoredIs

LEMMA StoredNext == \A x : x \in Stored' <=> \E p \in Place : x \in NodesAt(p)'
<1>1. (\A x : x \in Stored <=> \E p \in Place : x \in NodesAt(p))'
  BY StoredIsAll, PTL
<1>2. QED
  BY <1>1

\* A step that loses only what a scan may lose, and keeps the tuple and the expiry of
\* the rest.
LEMMA CoveredKept ==
  ASSUME TypeOK, Covered, i' = i, stream' = stream, phase # "generate", phase' # "generate",
         \A p \in Place : \A x \in NodesAt(p) :
           Fresh(x) => \E q \in Place : \E y \in NodesAt(q)' :
                         y.tuple = x.tuple /\ y.expire = x.expire
  PROVE  Covered'
<1>1. i \in Nat /\ Len(stream) - 1 = i /\ W \in Nat
  BY WAssumption DEF TypeOK
<1>2. PICK new : new = MkNode(t, i + W, 0)
  OBVIOUS
<1>3. new.tuple = t /\ new.expire = i + W /\ t \in Tuple
  BY <1>2, NewNode, 0 \in Nat
<1>4. Coming = {new} /\ Coming' = {new}
  <2>1. Coming = {new}
    BY <1>2 DEF Coming
  <2>2. Coming' = Coming
    BY DEF Coming, t, Arrived
  <2>3. QED
    BY <2>1, <2>2
<1>5. ASSUME NEW j \in Live(stream, i), NEW x \in Stored, Covers(x, j)
      PROVE  \E y \in Stored' \cup {new} : Covers(y, j)
  <2>1. PICK p \in Place : x \in NodesAt(p)
    BY <1>5, StoredIsAll
  <2>2. /\ j \in 0..i /\ j + W > i /\ x.expire >= j + W
        /\ Dominate(x.tuple, Arrived(stream, j))
    BY <1>1, <1>5 DEF Live, Covers
  <2>3. x.tuple \in Tuple /\ x.expire \in Nat /\ Arrived(stream, j) \in Tuple
    BY <1>1, <2>1, <2>2, StoredNodes, ArrivedIsTuple
  <2>4. CASE Fresh(x)
    <3>1. PICK q \in Place : \E y \in NodesAt(q)' : y.tuple = x.tuple /\ y.expire = x.expire
      BY <2>1, <2>4
    <3>2. PICK y \in NodesAt(q)' : y.tuple = x.tuple /\ y.expire = x.expire
      BY <3>1
    <3>3. y \in Stored' /\ Covers(y, j)
      BY <2>2, <3>1, <3>2, StoredNext DEF Covers
    <3>4. QED
      BY <3>3
  <2>5. CASE ~Fresh(x)
    <3>1. Dominate(t, x.tuple)
      BY <1>1, <2>2, <2>3, <2>5 DEF Fresh
    <3>2. Dominate(t, Arrived(stream, j))
      BY <1>3, <2>2, <2>3, <3>1, DominateTransitive
    <3>3. Covers(new, j)
      BY <1>1, <1>3, <2>2, <3>2 DEF Covers
    <3>4. QED
      BY <3>3
  <2>6. QED
    BY <2>4, <2>5
<1>6. ASSUME NEW j \in Live(stream, i)
      PROVE  \E y \in Stored' \cup {new} : Covers(y, j)
  <2>1. PICK x \in Stored \cup {new} : Covers(x, j)
    BY <1>1, <1>4, <1>6 DEF Covered
  <2>2. QED
    BY <1>5, <2>1
<1>7. \A y, j : Covers(y, j)' <=> Covers(y, j)
  BY DEF Covers, Arrived
<1>8. Live(stream, Len(stream) - 1)' = Live(stream, i)
  BY <1>1 DEF Live
<1>9. QED
  BY <1>4, <1>6, <1>7, <1>8 DEF Covered

\* The newest tuple covers itself.
LEMMA CoveredGenerate ==
  ASSUME TypeOK, Covered, GenerateTuple
  PROVE  Covered'
<1>1. PICK new \in Tuple : stream' = Append(stream, new)
  BY GenerateTupleEffect
<1>2. phase = "generate" /\ phase' = "check_skyline" /\ i' = i /\ Still
  BY GenerateTupleEffect
<1>3. /\ i \in Nat /\ Len(stream) = i /\ Len(stream') = i + 1 /\ W \in Nat \ {0}
      /\ \A j \in 0..(i - 1) : Arrived(stream', j) = Arrived(stream, j)
      /\ Arrived(stream', i) = new
  BY <1>1, <1>2, ArrivedStays, WAssumption
<1>4. PICK x : x = MkNode(new, i + W, 0)
  OBVIOUS
<1>5. x.tuple = new /\ x.expire = i + W
  BY <1>4 DEF MkNode
<1>6. Coming = {} /\ Coming' = {x}
  BY <1>2, <1>3, <1>4 DEF Coming, t
<1>7. \A y : y \in Stored => y \in Stored'
  BY <1>2, StillNodes, StoredIsAll, StoredNext
<1>8. ASSUME NEW j \in Live(stream', i)
      PROVE  \E y \in Stored' \cup {x} : y.expire >= j + W /\ Dominate(y.tuple, Arrived(stream', j))
  <2>1. j \in 0..i /\ j + W > i
    BY <1>3, <1>8 DEF Live
  <2>2. CASE j = i
    BY <1>3, <1>5, <2>2, DominateReflexive
  <2>3. CASE j \in 0..(i - 1)
    <3>1. j \in Live(stream, Len(stream) - 1)
      BY <1>3, <2>1, <2>3 DEF Live
    <3>2. PICK y \in Stored : Covers(y, j)
      BY <1>6, <3>1 DEF Covered
    <3>3. y \in Stored'
      BY <1>7, <3>2
    <3>4. y.expire >= j + W /\ Dominate(y.tuple, Arrived(stream', j))
      BY <1>3, <2>3, <3>2 DEF Covers
    <3>5. QED
      BY <3>3, <3>4
  <2>4. QED
    BY <1>3, <2>1, <2>2, <2>3
<1>9. \A y, j : Covers(y, j)' <=> y.expire >= j + W /\ Dominate(y.tuple, Arrived(stream', j))
  BY DEF Covers
<1>10. Live(stream, Len(stream) - 1)' = Live(stream', i)
  BY <1>3
<1>11. QED
  BY <1>6, <1>8, <1>9, <1>10 DEF Covered

\* What was coming is stored.
LEMMA CoveredInsert ==
  ASSUME TypeOK, Covered, InsertTuple
  PROVE  Covered'
<1>1. /\ phase = "check_rest" /\ phase' = "generate" /\ i' = i + 1 /\ stream' = stream
      /\ insert' \in Nat
  BY InsertTupleEffect
<1>2. PICK pl, e, y :
        pl \in Place /\ e \in Nat /\ y = MkNode(t, i + W, e) /\ Added(pl, y)
  BY <1>1, InsertTupleNodes, PlacesAre, 0 \in Nat
<1>3. PICK new : new = MkNode(t, i + W, 0)
  OBVIOUS
<1>4. /\ Coming = {new} /\ new.tuple = y.tuple /\ new.expire = y.expire
  <2>1. Coming = {new}
    BY <1>1, <1>3 DEF Coming
  <2>2. QED
    BY <1>1, <1>2, <1>3, <2>1, NewNode, 0 \in Nat
<1>5. y \in Stored' /\ \A x : x \in Stored => x \in Stored'
  BY <1>2, StoredIsAll, StoredNext DEF Added
<1>6. ASSUME NEW j \in Live(stream, Len(stream) - 1)
      PROVE  \E x \in Stored' : Covers(x, j)
  <2>1. PICK x \in Stored \cup {new} : Covers(x, j)
    BY <1>4, <1>6 DEF Covered
  <2>2. CASE x \in Stored
    BY <1>5, <2>1, <2>2
  <2>3. CASE x = new
    BY <1>4, <1>5, <2>1, <2>3 DEF Covers
  <2>4. QED
    BY <2>1, <2>2, <2>3
<1>7. \A x, j : Covers(x, j)' <=> Covers(x, j)
  BY <1>1 DEF Covers, Arrived
<1>8. Live(stream, Len(stream) - 1)' = Live(stream, Len(stream) - 1)
  BY <1>1
<1>9. QED
  BY <1>6, <1>7, <1>8 DEF Covered

LEMMA CoveredStep ==
  ASSUME TypeOK, SkyWorkers, RestWorkers, Covered, Next, ~raced'
  PROVE  Covered'
<1>1. ASSUME NEW s \in Sky, FlagRead(s) \/ FlagWrite(s) PROVE Covered'
  <2>1. Still /\ UNCHANGED <<i, phase, stream>> /\ phase # "generate"
    BY <1>1, FlagReadEffect, FlagWriteEffect, InStage
  <2>2. QED
    BY <2>1, StillNodes, CoveredKept
<1>2. ASSUME NEW s \in Sky, SkyScan(s) PROVE Covered'
  <2>1. UNCHANGED <<i, phase, stream>> /\ phase # "generate"
    BY <1>2, SkyScanEffect, InStage
  <2>2. \A p \in Place : \A x \in NodesAt(p) : Fresh(x) => x \in NodesAt(p)'
    BY <1>2, SkyScanNodes
  <2>3. QED
    BY <2>1, <2>2, CoveredKept
<1>3. CASE JoinSky
  <2>1. UNCHANGED <<i, stream>> /\ phase # "generate" /\ phase' # "generate"
    BY <1>3, JoinSkyEffect
  <2>2. QED
    BY <1>3, <2>1, JoinSkyNodes, CoveredKept
<1>4. ASSUME NEW r \in Rest, RestScan(r) PROVE Covered'
  <2>1. UNCHANGED <<i, phase, stream>> /\ phase # "generate" /\ rest[r].pc = "scan"
    BY <1>4, RestScanEffect, InStage
  <2>2. /\ <<"rest", r>> \in Place /\ <<"moved", r>> \in Place
        /\ NodesAt(<<"moved", r>>) = {}
    BY <2>1, PlacesAre, ContentsAre, EmptyHands, EmptyRange DEF Contents
  <2>3. ASSUME NEW p \in Place, NEW x \in NodesAt(p), Fresh(x)
        PROVE  \E q \in Place : x \in NodesAt(q)'
    <3>1. CASE p = <<"rest", r>>
      BY <1>4, <2>2, <2>3, <3>1, RestScanNodes
    <3>2. CASE p # <<"rest", r>>
      <4>1. p # <<"moved", r>>
        BY <2>2, <2>3
      <4>2. QED
        BY <1>4, <2>3, <3>2, <4>1, RestScanNodes
    <3>3. QED
      BY <3>1, <3>2
  <2>4. QED
    BY <2>1, <2>3, CoveredKept
<1>5. ASSUME NEW r \in Rest, RestReadHead(r) PROVE Covered'
  <2>1. UNCHANGED <<i, phase, stream>> /\ phase # "generate"
    BY <1>5, RestReadHeadEffect, InStage
  <2>2. QED
    BY <1>5, <2>1, RestReadHeadNodes, CoveredKept
<1>6. ASSUME NEW r \in Rest, RestWriteHead(r) PROVE Covered'
  <2>1. UNCHANGED <<i, phase, stream>> /\ phase # "generate"
    BY <1>6, RestWriteHeadEffect, InStage
  <2>2. PICK l, h, c : l = rest[r].list /\ h = Head(rest[r].todo) /\ c = Carried(r)
    OBVIOUS
  <2>3. /\ l \in Sky /\ c.tuple = h.tuple /\ c.expire = h.expire
        /\ c \in NodesAt(<<"sky", l>>)'
        /\ NodesAt(<<"sky", l>>) \subseteq NodesAt(<<"sky", l>>)'
        /\ NodesAt(<<"moved", r>>) \subseteq NodesAt(<<"moved", r>>)' \cup {h}
        /\ \A p \in Place :
              p # <<"sky", l>> /\ p # <<"moved", r>> => NodesAt(p)' = NodesAt(p)
    BY <1>6, <2>2, RestWriteHeadNodes
  <2>4. <<"sky", l>> \in Place /\ <<"moved", r>> \in Place
    BY <2>3, PlacesAre
  <2>5. ASSUME NEW p \in Place, NEW x \in NodesAt(p)
        PROVE  \E q \in Place : \E y \in NodesAt(q)' : y.tuple = x.tuple /\ y.expire = x.expire
    <3>1. CASE x \in NodesAt(p)'
      BY <3>1
    <3>2. CASE x \notin NodesAt(p)'
      <4>1. x = h
        BY <2>3, <2>5, <3>2
      <4>2. QED
        BY <2>3, <2>4, <4>1
    <3>3. QED
      BY <3>1, <3>2
  <2>6. QED
    BY <2>1, <2>5, CoveredKept
<1>7. QED
  BY <1>1, <1>2, <1>3, <1>4, <1>5, <1>6, CoveredGenerate, CoveredInsert DEF Next

----------------------------------------------------------------------------
(* What is printed.                                                        *)

\* The next tuple makes one more window due just when main prints.
LEMMA DueNext ==
  ASSUME i \in Nat
  PROVE  /\ Due(i) \in Nat
         /\ Due(i + 1) = IF WindowComplete /\ OnSlide THEN Due(i) + 1 ELSE Due(i)
         /\ WindowComplete /\ OnSlide => LastOf(Due(i) + 1) = i
<1>1. W \in Nat \ {0} /\ K \in Nat \ {0}
  BY WAssumption, ParametersAssumption
<1>2. Due(i) = WindowsDue(i, W, K) /\ Due(i + 1) = WindowsDue(i + 1, W, K)
  BY Zenon DEF Due, WindowsDue
<1>3. /\ WindowsDue(i, W, K) \in Nat
      /\ WindowsDue(i + 1, W, K) = IF i >= W - 1 /\ (i + 1 - W) % K = 0
                                   THEN WindowsDue(i, W, K) + 1
                                   ELSE WindowsDue(i, W, K)
      /\ i >= W - 1 /\ (i + 1 - W) % K = 0 => W - 1 + (WindowsDue(i + 1, W, K) - 1) * K = i
  BY <1>1, WindowCount
<1>4. /\ Due(i) \in Nat
      /\ Due(i + 1) = IF WindowComplete /\ OnSlide THEN Due(i) + 1 ELSE Due(i)
      /\ WindowComplete /\ OnSlide => LastOf(Due(i + 1)) = i
  BY <1>2, <1>3, Zenon DEF WindowComplete, OnSlide, LastOf
<1>5. WindowComplete /\ OnSlide => Due(i + 1) = Due(i) + 1
  BY <1>4
<1>6. QED
  BY <1>4, <1>5

\* A tuple that arrives later changes no list of older ones.
LEMMA NewestStay ==
  ASSUME TypeOK, phase = "generate", NEW new \in Tuple, stream' = Append(stream, new),
         NEW list, NEW n \in Nat, NEW last \in Int, last < i, n <= last + 1,
         HoldsNewest(list, n, last)
  PROVE  HoldsNewest(list, n, last)'
<1>1. i \in Nat /\ \A j \in 0..(i - 1) : Arrived(stream', j) = Arrived(stream, j)
  BY ArrivedStays
<1>2. ASSUME NEW q \in 1..n PROVE last + 1 - q \in 0..(i - 1)
  BY <1>1
<1>3. QED
  BY <1>1, <1>2 DEF HoldsNewest

LEMMA ShownGenerate ==
  ASSUME TypeOK, Shown, GenerateTuple
  PROVE  Shown'
<1> USE WAssumption, ParametersAssumption
<1>1. PICK new \in Tuple :
        LET full == <<new>> \o window IN
        /\ stream' = Append(stream, new)
        /\ window' = IF WindowComplete THEN SubSeq(full, 1, Len(full) - 1) ELSE full
        /\ windows' = IF WindowComplete /\ OnSlide THEN Append(windows, full) ELSE windows
  BY DEF GenerateTuple
<1> DEFINE full == <<new>> \o window
<1>2. /\ stream' = Append(stream, new)
      /\ window' = IF WindowComplete THEN SubSeq(full, 1, Len(full) - 1) ELSE full
      /\ windows' = IF WindowComplete /\ OnSlide THEN Append(windows, full) ELSE windows
  BY <1>1
<1>3. phase = "generate" /\ i' = i /\ output' = output
  BY GenerateTupleEffect
<1>4. /\ i \in Nat /\ Len(stream) = i /\ Len(stream') = i + 1
      /\ \A j \in 0..(i - 1) : Arrived(stream', j) = Arrived(stream, j)
      /\ Arrived(stream', i) = new
  BY <1>2, <1>3, ArrivedStays
<1>5. /\ Filled \in Nat /\ Filled <= i /\ Filled + 1 <= W
      /\ WindowComplete => Filled = W - 1
      /\ Filled' = IF WindowComplete THEN Filled ELSE Filled + 1
  BY <1>4 DEF Filled, WindowComplete
<1>6. /\ window \in Seq(Tuple) /\ Len(window) = Filled
      /\ \A q \in 1..Filled : window[q] = Arrived(stream, i - q)
  <2>1. HoldsNewest(window, Filled, i - 1) /\ window \in Seq(Tuple)
    BY <1>4 DEF Shown, TypeOK
  <2>2. \A q \in 1..Filled : i - 1 + 1 - q = i - q
    BY <1>4, <1>5
  <2>3. QED
    BY <2>1, <2>2 DEF HoldsNewest
<1>7. /\ full \in Seq(Tuple) /\ Len(full) = Filled + 1
      /\ \A q \in 1..(Filled + 1) : full[q] = Arrived(stream', i + 1 - q)
  <2>1. <<new>> \in Seq(Tuple) /\ Len(<<new>>) = 1 /\ <<new>>[1] = new
    OBVIOUS
  <2>2. /\ full \in Seq(Tuple) /\ Len(full) = 1 + Filled
        /\ \A q \in 1..(1 + Filled) : full[q] = IF q <= 1 THEN <<new>>[q] ELSE window[q - 1]
    BY <1>6, <2>1, ConcatProperties
  <2> HIDE DEF full
  <2>3. ASSUME NEW q \in 1..(Filled + 1) PROVE full[q] = Arrived(stream', i + 1 - q)
    <3>1. CASE q = 1
      BY <1>4, <1>5, <2>1, <2>2, <3>1
    <3>2. CASE q > 1
      <4>1. q - 1 \in 1..Filled /\ i - (q - 1) = i + 1 - q /\ i + 1 - q \in 0..(i - 1)
        BY <1>4, <1>5, <3>2
      <4>2. full[q] = window[q - 1]
        BY <1>5, <2>2, <3>2
      <4>3. QED
        BY <1>4, <1>6, <4>1, <4>2
    <3>3. QED
      BY <1>5, <3>1, <3>2
  <2>4. QED
    BY <1>5, <2>2, <2>3
<1> HIDE DEF full
<1>8. HoldsNewest(window, Filled, Len(stream) - 1)'
  <2>1. /\ Len(window') = Filled'
        /\ \A q \in 1..Filled' : window'[q] = full[q] /\ q \in 1..(Filled + 1)
    <3>1. CASE WindowComplete
      <4>1. window' = SubSeq(full, 1, Filled)
        BY <1>2, <1>5, <1>7, <3>1
      <4>2. \A q \in 1..Filled : full[q] \in Tuple
        BY <1>5, <1>7, LenProperties
      <4>3. Len(window') = Filled /\ \A q \in 1..Filled : window'[q] = full[q]
        BY <1>5, <4>1, <4>2, SubSeqProperties
      <4>4. QED
        BY <1>5, <3>1, <4>3
    <3>2. CASE ~WindowComplete
      BY <1>2, <1>5, <1>7, <3>2
    <3>3. QED
      BY <3>1, <3>2
  <2>2. \A q \in 1..Filled' : Len(stream') - 1 + 1 - q = i + 1 - q
    BY <1>4, <1>5
  <2>3. QED
    BY <1>7, <2>1, <2>2 DEF HoldsNewest
<1>9. /\ Len(windows) = Due(i) /\ Len(output) = Due(i)
      /\ \A p \in 1..Len(windows) :
           LastOf(p) \in (W - 1)..(i - 1) /\ HoldsNewest(windows[p], W, LastOf(p))
  BY <1>4 DEF Shown
<1>10. /\ Due(i) \in Nat
       /\ Due(i + 1) = IF WindowComplete /\ OnSlide THEN Due(i) + 1 ELSE Due(i)
       /\ WindowComplete /\ OnSlide => LastOf(Due(i) + 1) = i
  BY <1>4, DueNext
<1>11. ASSUME NEW p \in 1..Len(windows)
       PROVE  /\ LastOf(p) \in (W - 1)..i
              /\ Len(windows[p]) = W
              /\ \A q \in 1..W : windows[p][q] = Arrived(stream', LastOf(p) + 1 - q)
  <2>1. PICK last, list : last = LastOf(p) /\ list = windows[p]
    OBVIOUS
  <2>2. last \in (W - 1)..(i - 1) /\ HoldsNewest(list, W, last)
    BY <1>9, <2>1
  <2>3. last \in Int /\ last < i /\ W <= last + 1 /\ W \in Nat
    BY <1>4, <2>2
  <2>4. HoldsNewest(list, W, last)'
    BY <1>2, <1>3, <2>2, <2>3, NewestStay
  <2>5. Len(list) = W /\ \A q \in 1..W : list[q] = Arrived(stream', last + 1 - q)
    BY <2>4 DEF HoldsNewest
  <2>6. QED
    BY <1>4, <2>1, <2>2, <2>5
<1>12. /\ Len(windows') = Due(i + 1)
       /\ \A p \in 1..Len(windows') :
            /\ LastOf(p) \in (W - 1)..i
            /\ Len(windows'[p]) = W
            /\ \A q \in 1..W : windows'[p][q] = Arrived(stream', LastOf(p) + 1 - q)
  <2>1. CASE WindowComplete /\ OnSlide
    <3>1. /\ Len(windows') = Len(windows) + 1
          /\ \A p \in 1..Len(windows) : windows'[p] = windows[p]
          /\ windows'[Len(windows) + 1] = full
      BY <1>2, <1>7, <2>1, AppendProperties DEF TypeOK
    <3>2. ASSUME NEW p \in 1..(Len(windows) + 1)
          PROVE  /\ LastOf(p) \in (W - 1)..i
                 /\ Len(windows'[p]) = W
                 /\ \A q \in 1..W : windows'[p][q] = Arrived(stream', LastOf(p) + 1 - q)
      <4>1. CASE p \in 1..Len(windows)
        BY <1>11, <3>1, <4>1
      <4>2. CASE p = Len(windows) + 1
        <5>1. windows'[p] = full /\ Filled + 1 = W /\ LastOf(p) = i /\ i >= W - 1
          BY <1>5, <1>9, <1>10, <2>1, <3>1, <4>2 DEF WindowComplete
        <5>2. QED
          BY <1>4, <1>7, <5>1
      <4>3. QED
        BY <1>9, <1>10, <4>1, <4>2
    <3>3. QED
      BY <1>9, <1>10, <2>1, <3>1, <3>2
  <2>2. CASE ~(WindowComplete /\ OnSlide)
    BY <1>2, <1>9, <1>10, <1>11, <2>2
  <2>3. QED
    BY <2>1, <2>2
<1>13. ASSUME NEW p \in 1..Len(output)
       PROVE  LastOf(p) < i /\ output[p] \subseteq WindowTuples(stream', LastOf(p))
  <2>1. PICK last : last = LastOf(p)
    OBVIOUS
  <2>2. last < i /\ output[p] \subseteq WindowTuples(stream, last)
    BY <2>1 DEF Shown
  <2>3. last \in Int
    BY <1>9, <1>10, <2>1 DEF LastOf
  <2>4. ASSUME NEW j \in Live(stream, last) PROVE Arrived(stream, j) \in WindowTuples(stream', last)
    <3>1. j \in 0..(i - 1) /\ j \in Live(stream', last)
      BY <1>4, <2>2, <2>3 DEF Live
    <3>2. QED
      BY <1>4, <3>1 DEF WindowTuples
  <2>5. QED
    BY <2>1, <2>2, <2>4 DEF WindowTuples
<1>14. \A p : LastOf(p)' = LastOf(p)
  BY DEF LastOf
<1>15. Due(Len(stream))' = Due(i + 1) /\ Due(i)' = Due(i) /\ Len(stream') - 1 = i
  BY <1>3, <1>4 DEF Due
<1>16. QED
  BY <1>3, <1>8, <1>9, <1>12, <1>13, <1>14, <1>15 DEF Shown, HoldsNewest

LEMMA PrintedNode ==
  ASSUME TypeOK', NEW s \in Sky, NEW x \in Range(skylines'[s])
  PROVE  x.expire \in Nat
<1>1. skylines'[s] \in Seq(Node)
  BY DEF TypeOK
<1>2. x \in Node
  BY <1>1, RangeOfSeq
<1>3. QED
  BY <1>2 DEF Node

\* What is on the skyline lists when main prints is of the window that ends with the
\* tuple just counted.
LEMMA PrintsTheWindow ==
  ASSUME TypeOK, InsertTuple, NodesSound', NEW s \in Sky, NEW x \in Range(skylines'[s])
  PROVE  x.tuple \in WindowTuples(stream, i)
<1>1. i' = i + 1 /\ stream' = stream /\ phase = "check_rest"
  BY InsertTupleEffect
<1>2. x \in NodesAt(<<"sky", s>>)' /\ <<"sky", s>> \in Place
  BY ContentsNext, PlacesAre DEF Contents
<1>3. Sound(x)'
  BY <1>2 DEF NodesSound
<1>4. /\ NumberOf(x) \in 0..i /\ x.expire >= i + 1
      /\ x.tuple = Arrived(stream, NumberOf(x))
  <2>1. /\ NumberOf(x) \in 0..(i' - 1) /\ x.expire >= i'
        /\ x.tuple = Arrived(stream', NumberOf(x))
    BY <1>3 DEF Sound, NumberOf
  <2>2. NumberOf(x) \in 0..i /\ x.expire >= i + 1
    <3>1. i \in Nat
      BY DEF TypeOK
    <3>2. QED
      BY <1>1, <2>1, <3>1
  <2>3. x.tuple = Arrived(stream, NumberOf(x))
    BY <1>1, <2>1
  <2>4. QED
    BY <2>2, <2>3
<1>5. Len(stream) = i + 1 /\ i \in Nat /\ W \in Nat
  BY <1>1, WAssumption DEF TypeOK
<1>6. x.expire \in Nat
  BY InsertTupleTypes, PrintedNode
<1>7. NumberOf(x) \in Live(stream, i)
  BY <1>4, <1>5, <1>6 DEF Live, NumberOf
<1>8. QED
  BY <1>4, <1>7 DEF WindowTuples

LEMMA ShownInsert ==
  ASSUME TypeOK, Shown, InsertTuple, NodesSound'
  PROVE  Shown'
<1> DEFINE shown == UNION {Tuples(Range(skylines'[s])) : s \in Sky}
<1>1. /\ i' = i + 1 /\ UNCHANGED <<stream, window, windows>> /\ phase = "check_rest"
  BY InsertTupleEffect
<1>2. output' = IF WindowComplete /\ OnSlide THEN Append(output, shown) ELSE output
  BY DEF InsertTuple
<1>3. shown \subseteq WindowTuples(stream, i)
  BY PrintsTheWindow DEF Tuples
<1> HIDE DEF shown
<1>4. i \in Nat /\ Len(stream) = i + 1 /\ output \in Seq(SUBSET Tuple) /\ stream \in Seq(Tuple)
  BY <1>1 DEF TypeOK
<1>5. /\ Due(i) \in Nat
      /\ Due(i + 1) = IF WindowComplete /\ OnSlide THEN Due(i) + 1 ELSE Due(i)
      /\ WindowComplete /\ OnSlide => LastOf(Due(i) + 1) = i
  BY <1>4, DueNext
<1>6. /\ Len(output) = Due(i)
      /\ \A p \in 1..Len(output) :
           LastOf(p) < i /\ output[p] \subseteq WindowTuples(stream, LastOf(p))
  BY DEF Shown
<1>7. shown \in SUBSET Tuple
  <2>1. \A j \in Live(stream, i) : Arrived(stream, j) \in Tuple
    BY <1>4, ArrivedIsTuple DEF Live
  <2>2. QED
    BY <1>3, <2>1 DEF WindowTuples
<1>8. /\ Len(output') = Due(i + 1)
      /\ \A p \in 1..Len(output') :
           LastOf(p) < i + 1 /\ output'[p] \subseteq WindowTuples(stream, LastOf(p))
  <2>0. ASSUME NEW p \in 1..Len(output) PROVE LastOf(p) < i + 1
    <3>1. LastOf(p) < i /\ LastOf(p) \in Int
      BY <1>5, <1>6, WAssumption, ParametersAssumption DEF LastOf
    <3>2. QED
      BY <1>4, <3>1
  <2>1. CASE WindowComplete /\ OnSlide
    <3>1. /\ Len(output') = Len(output) + 1
          /\ \A p \in 1..Len(output) : output'[p] = output[p]
          /\ output'[Len(output) + 1] = shown
      BY <1>2, <1>4, <1>7, <2>1, AppendProperties
    <3>2. ASSUME NEW p \in 1..(Len(output) + 1)
          PROVE  LastOf(p) < i + 1 /\ output'[p] \subseteq WindowTuples(stream, LastOf(p))
      <4>1. CASE p \in 1..Len(output)
        BY <1>6, <2>0, <3>1, <4>1
      <4>2. CASE p = Len(output) + 1
        BY <1>3, <1>4, <1>5, <1>6, <2>1, <3>1, <4>2
      <4>3. QED
        BY <1>5, <1>6, <4>1, <4>2
    <3>3. QED
      BY <1>5, <1>6, <2>1, <3>1, <3>2
  <2>2. CASE ~(WindowComplete /\ OnSlide)
    BY <1>2, <1>5, <1>6, <2>0, <2>2
  <2>3. QED
    BY <2>1, <2>2
<1>9. \A p : LastOf(p)' = LastOf(p)
  BY DEF LastOf
<1>10. /\ Due(Len(stream))' = Due(Len(stream)) /\ Due(i)' = Due(i + 1)
       /\ Filled' = Filled
  BY <1>1 DEF Due, Filled
<1>11. QED
  BY <1>1, <1>8, <1>9, <1>10 DEF Shown, HoldsNewest

LEMMA ShownStep ==
  ASSUME TypeOK, SkyWorkers, RestWorkers, NodesSound', Shown, Next
  PROVE  Shown'
<1>1. ASSUME UNCHANGED <<i, stream, window, windows, output>> PROVE Shown'
  BY <1>1 DEF Shown, HoldsNewest, Filled, Due, LastOf
<1>2. GenerateTuple \/ InsertTuple \/ UNCHANGED <<i, stream, window, windows, output>>
  BY FlagReadEffect, FlagWriteEffect, SkyScanEffect, JoinSkyEffect, RestScanEffect,
     RestReadHeadEffect, RestWriteHeadEffect DEF Next
<1>3. QED
  BY <1>1, <1>2, ShownGenerate, ShownInsert

----------------------------------------------------------------------------
(* The invariant.                                                          *)

LEMMA InitiallyIInv ==
  ASSUME Init
  PROVE  IInv
<1> USE WAssumption, ParametersAssumption
<1>1. 0 \in Sky
  BY DEF Sky
<1>2. TypeOK
  <2>1. sky \in [Sky -> SkyWorker]
    BY DEF Init, Idle, SkyWorker
  <2>2. rest \in [Rest -> RestWorker]
    <3>1. <<>> \in Seq(Node)
      OBVIOUS
    <3>2. QED
      BY <1>1, <3>1 DEF Init, Off, RestWorker
  <2>3. skylines \in [Sky -> Seq(Node)] /\ rests \in [Rest -> Seq(Node)]
    BY DEF Init
  <2>4. /\ insert \in Nat /\ sky_arr \in [Sky -> BOOLEAN] /\ insert_sky \in [Sky -> Nat]
        /\ insert_rest \in [Rest -> Nat]
    BY DEF Init
  <2>5. /\ stream \in Seq(Tuple) /\ window \in Seq(Tuple) /\ windows \in Seq(Seq(Tuple))
        /\ output \in Seq(SUBSET Tuple)
    BY DEF Init
  <2>6. /\ i \in 0..N /\ phase = "generate" /\ Len(stream) = i
    BY DEF Init
  <2>7. raced \in BOOLEAN
    BY Zenon DEF Init
  <2>8. QED
    BY <2>1, <2>2, <2>3, <2>4, <2>5, <2>6, <2>7 DEF TypeOK
<1>3. /\ phase = "generate" /\ i = 0 /\ insert = 0 /\ stream = <<>> /\ Len(stream) = 0
      /\ \A s \in Sky : sky[s].pc = "done" /\ skylines[s] = <<>>
      /\ \A r \in Rest : /\ rest[r].pc = "done" /\ rest[r].todo = <<>> /\ rest[r].seen = <<>>
                         /\ rests[r] = <<>>
  BY DEF Init, Idle, Off
<1>4. SkyWorkers /\ RestWorkers
  BY <1>3 DEF SkyWorkers, RestWorkers
<1>5. \A p \in Place : NodesAt(p) = {}
  <2>1. \A s \in Sky : \A x : x \notin NodesAt(<<"sky", s>>)
    BY <1>3, ContentsAre, EmptyRange DEF Contents
  <2>2. \A r \in Rest : NodesAt(<<"rest", r>>) = {} /\ NodesAt(<<"moved", r>>) = {}
    BY <1>3, ContentsAre, EmptyRange DEF Contents
  <2>3. QED
    BY <2>1, <2>2, PlaceIs
<1>6. NodesSound /\ Apart
  BY <1>5 DEF NodesSound, Apart
<1>7. NoRepeats
  BY <1>3, EmptyInjective DEF NoRepeats
<1>8. InsertsSound /\ FlagsRight
  BY <1>3 DEF InsertsSound, FlagsRight
<1>9. Waiting
  BY <1>3, EmptyRange DEF Waiting
<1>10. Covered
  BY <1>3 DEF Covered, Live
<1>11. Shown
  <2>1. window = <<>> /\ windows = <<>> /\ output = <<>>
    BY DEF Init
  <2>2. Due(0) = 0 /\ Filled = 0
    BY <1>3 DEF Due, Filled
  <2>3. QED
    BY <1>3, <2>1, <2>2 DEF Shown, HoldsNewest
<1>12. QED
  BY <1>2, <1>4, <1>6, <1>7, <1>8, <1>9, <1>10, <1>11 DEF IInv

\* Every step of the program preserves the invariant.
LEMMA IInvStep ==
  ASSUME IInv, Next
  PROVE  IInv'
<1>1. /\ TypeOK /\ SkyWorkers /\ RestWorkers /\ NodesSound /\ Apart /\ NoRepeats
      /\ InsertsSound /\ Shown
  BY DEF IInv
<1>2. TypeOK' /\ SkyWorkers' /\ RestWorkers' /\ NodesSound' /\ Apart' /\ NoRepeats'
      /\ InsertsSound'
  BY <1>1, TypeStep, SkyWorkersStep, RestWorkersStep, NodesSoundStep, ApartStep,
     NoRepeatsStep, InsertsSoundStep
<1>3. Shown'
  BY <1>1, <1>2, ShownStep
<1>4. ASSUME ~raced' PROVE FlagsRight' /\ Waiting' /\ Covered'
  <2>1. FlagsRight /\ Waiting /\ Covered
    BY <1>1, <1>4, RacedStays DEF IInv
  <2>2. QED
    BY <1>1, <1>4, <2>1, FlagsRightStep, WaitingStep, CoveredStep
<1>5. QED
  BY <1>2, <1>3, <1>4 DEF IInv

\* A stuttering step changes nothing the invariant is about.
LEMMA IInvStutters ==
  ASSUME IInv, UNCHANGED vars
  PROVE  IInv'
<1>1. /\ UNCHANGED <<i, phase, stream, insert, sky_arr, insert_sky, insert_rest, sky, rest,
                     skylines, rests, raced>>
      /\ UNCHANGED <<window, windows, output>>
  BY DEF vars, printed
<1>2. /\ TypeOK /\ SkyWorkers /\ RestWorkers /\ NodesSound /\ Apart /\ NoRepeats
      /\ InsertsSound /\ Shown
  BY DEF IInv
<1>3. TypeOK'
  BY <1>1, <1>2 DEF TypeOK
<1>4. SkyWorkers' /\ RestWorkers' /\ NoRepeats'
  BY <1>1, <1>2 DEF SkyWorkers, RestWorkers, NoRepeats
<1>5. \A p \in Place : NodesAt(p)' = NodesAt(p)
  BY <1>1, StillNodes DEF Still
<1>6. \A p \in Place : Scanned(p)' <=> Scanned(p)
  BY <1>1 DEF Scanned
<1>7. NodesSound'
  BY <1>1, <1>2, <1>5, <1>6, SoundFrame DEF NodesSound
<1>8. Apart'
  BY <1>2, <1>5, ApartShrinks
<1>9. InsertsSound'
  BY <1>1, <1>2, AwaitsFrame DEF InsertsSound
<1>10. Shown'
  BY <1>1, <1>2 DEF Shown, HoldsNewest, Filled, Due, LastOf
<1>11. ASSUME ~raced PROVE FlagsRight' /\ Waiting' /\ Covered'
  <2>1. FlagsRight /\ Waiting /\ Covered
    BY <1>11 DEF IInv
  <2>2. FlagsRight'
    BY <1>1, <2>1 DEF FlagsRight
  <2>3. Waiting'
    BY <1>1, <1>6, <2>1, PlacesAre, WaitingKept
  <2>4. \A x : x \in Stored' <=> x \in Stored
    BY <1>5, StoredIsAll, StoredNext
  <2>5. Stored' = Stored /\ Coming' = Coming
    BY <1>1, <2>4 DEF Coming, t, Arrived
  <2>6. Covered'
    BY <1>1, <2>1, <2>5 DEF Covered, Covers, Live, Arrived
  <2>7. QED
    BY <2>2, <2>3, <2>6
<1>12. QED
  BY <1>1, <1>3, <1>4, <1>7, <1>8, <1>9, <1>10, <1>11 DEF IInv

\* The invariant holds in every reachable state, for every size of the parameters and
\* whatever the workers overwrite of each other.
THEOREM Invariance == Spec => []IInv
<1>1. Init => IInv
  BY InitiallyIInv
<1>2. IInv /\ [Next]_vars => IInv'
  BY IInvStep, IInvStutters
<1>3. QED
  BY <1>1, <1>2, PTL DEF Spec

\* The variables keep their types: i counts the tuples, no worker counts its writes
\* below zero, and the lists are lists of nodes.
THEOREM TypeCorrect == Spec => []TypeOK
<1>1. IInv => TypeOK
  BY DEF IInv
<1>2. QED
  BY <1>1, Invariance, PTL

----------------------------------------------------------------------------
(* What follows from it.                                                   *)

\* Between two tuples no worker has anything in its hands.
LEMMA OnTheLists ==
  ASSUME RestWorkers, BetweenTuples
  PROVE  /\ \A s \in Sky : NodesAt(<<"sky", s>>) = Range(skylines[s])
         /\ \A r \in Rest : /\ NodesAt(<<"rest", r>>) = Range(rests[r])
                            /\ NodesAt(<<"moved", r>>) = {}
<1>1. \A r \in Rest : Range(rest[r].todo) = {} /\ Range(rest[r].seen) = {}
  BY EmptyHands, EmptyRange DEF BetweenTuples
<1>2. ASSUME NEW s \in Sky PROVE NodesAt(<<"sky", s>>) = Range(skylines[s])
  <2>1. \A x : x \in NodesAt(<<"sky", s>>) <=> x \in Range(skylines[s])
    BY <1>1, ContentsAre DEF Contents
  <2>2. QED
    BY <2>1
<1>3. QED
  BY <1>1, <1>2, ContentsAre DEF Contents

\* A stored node of the window that ends with the newest tuple.
LEMMA SoundIsLive ==
  ASSUME TypeOK, BetweenTuples, NEW x \in Node, Sound(x)
  PROVE  NumberOf(x) \in Live(stream, i - 1)
<1>1. i \in Nat /\ Len(stream) = i /\ W \in Nat
  BY WAssumption DEF TypeOK, BetweenTuples
<1>2. x.expire \in Nat
  BY DEF Node
<1>3. NumberOf(x) \in 0..(i - 1) /\ x.expire >= i
  BY DEF Sound
<1>4. QED
  BY <1>1, <1>2, <1>3 DEF Live, NumberOf

LEMMA SoundLists == IInv => ListsSound
<1> SUFFICES ASSUME IInv, BetweenTuples
             PROVE  /\ \A l \in Lists : IsInjective(l)
                    /\ \A s, o \in Sky :
                         s # o => Range(skylines[s]) \cap Range(skylines[o]) = {}
                    /\ \A r, o \in Rest : r # o => Range(rests[r]) \cap Range(rests[o]) = {}
                    /\ \A x, y \in InSky \cup InRest : x.expire = y.expire => x = y
                    /\ \A x \in InSky \cup InRest :
                         /\ NumberOf(x) \in Live(stream, i - 1)
                         /\ x.tuple = Arrived(stream, NumberOf(x))
                         /\ \A l \in Live(stream, i - 1) :
                              l > NumberOf(x) => ~Dominate(Arrived(stream, l), x.tuple)
  BY DEF ListsSound
<1>1. TypeOK /\ RestWorkers /\ NodesSound /\ Apart /\ NoRepeats
  BY DEF IInv
<1>2. \A l \in Lists : IsInjective(l)
  BY <1>1 DEF Lists, NoRepeats
<1>3. /\ \A s \in Sky : <<"sky", s>> \in Place /\ NodesAt(<<"sky", s>>) = Range(skylines[s])
      /\ \A r \in Rest : <<"rest", r>> \in Place /\ NodesAt(<<"rest", r>>) = Range(rests[r])
  BY <1>1, PlacesAre, OnTheLists
<1>4. ASSUME NEW s \in Sky, NEW o \in Sky, s # o
      PROVE  Range(skylines[s]) \cap Range(skylines[o]) = {}
  <2>1. PICK p, q : p = <<"sky", s>> /\ q = <<"sky", o>>
    OBVIOUS
  <2>2. ASSUME NEW x \in Range(skylines[s]), x \in Range(skylines[o]) PROVE FALSE
    <3>1. p \in Place /\ q \in Place /\ x \in NodesAt(p) /\ x \in NodesAt(q)
      BY <1>3, <2>1, <2>2
    <3>2. p = q
      BY <1>1, <3>1 DEF Apart
    <3>3. QED
      BY <1>4, <2>1, <3>2
  <2>3. QED
    BY <2>2
<1>5. ASSUME NEW r \in Rest, NEW o \in Rest, r # o
      PROVE  Range(rests[r]) \cap Range(rests[o]) = {}
  <2>1. PICK p, q : p = <<"rest", r>> /\ q = <<"rest", o>>
    OBVIOUS
  <2>2. ASSUME NEW x \in Range(rests[r]), x \in Range(rests[o]) PROVE FALSE
    <3>1. p \in Place /\ q \in Place /\ x \in NodesAt(p) /\ x \in NodesAt(q)
      BY <1>3, <2>1, <2>2
    <3>2. p = q
      BY <1>1, <3>1 DEF Apart
    <3>3. QED
      BY <1>5, <2>1, <3>2
  <2>3. QED
    BY <2>2
<1>6. ASSUME NEW x \in InSky \cup InRest PROVE \E p \in Place : x \in NodesAt(p)
  BY <1>3 DEF InSky, InRest
<1>7. \A x, y \in InSky \cup InRest : x.expire = y.expire => x = y
  BY <1>1, <1>6 DEF Apart
<1>8. ASSUME NEW x \in InSky \cup InRest
      PROVE  /\ NumberOf(x) \in Live(stream, i - 1)
             /\ x.tuple = Arrived(stream, NumberOf(x))
             /\ \A l \in Live(stream, i - 1) :
                  l > NumberOf(x) => ~Dominate(Arrived(stream, l), x.tuple)
  <2>1. x \in Node /\ Sound(x)
    BY <1>1, <1>6, StoredNodes DEF NodesSound
  <2>2. \A l \in Live(stream, i - 1) : l \in 0..(i - 1)
    BY <1>1 DEF Live, TypeOK
  <2>3. QED
    BY <1>1, <2>1, <2>2, SoundIsLive DEF Sound
<1>9. QED
  BY <1>2, <1>4, <1>5, <1>7, <1>8

\* Whatever the workers overwrite, the lists hold each tuple at most once, and only tuples
\* of the window that no later one dominates.
THEOREM ListsAreSound == Spec => []ListsSound
BY SoundLists, Invariance, PTL

LEMMA ShownTogether == IInv => PrintedTogether
<1> SUFFICES ASSUME IInv, NEW p \in 1..Len(output)
             PROVE  LET last == W - 1 + (p - 1) * K IN
                    /\ windows[p] = [n \in 1..W |-> Arrived(stream, last + 1 - n)]
                    /\ output[p] \subseteq Range(windows[p])
  BY DEF PrintedTogether
<1> DEFINE last == LastOf(p)
<1>1. TypeOK /\ Shown
  BY DEF IInv
<1>2. i \in Nat /\ (Len(stream) = i \/ Len(stream) = i + 1) /\ W \in Nat \ {0}
  BY <1>1, WAssumption DEF TypeOK
<1>3. p \in 1..Len(windows)
  <2>1. Due(i) \in Nat /\ (Due(i + 1) = Due(i) + 1 \/ Due(i + 1) = Due(i))
    BY <1>2, DueNext
  <2>2. Len(output) = Due(i) /\ Len(windows) = Due(Len(stream))
    BY <1>1 DEF Shown
  <2>3. Len(windows) = Due(i) \/ Len(windows) = Due(i + 1)
    BY <1>2, <2>2
  <2>4. QED
    BY <2>1, <2>2, <2>3
<1>4. /\ last \in (W - 1)..(Len(stream) - 1) /\ HoldsNewest(windows[p], W, last)
      /\ output[p] \subseteq WindowTuples(stream, last)
  BY <1>1, <1>3 DEF Shown
<1> HIDE DEF last
<1>5. windows[p] \in Seq(Tuple)
  BY <1>1, <1>3, LenProperties DEF TypeOK
<1>6. /\ DOMAIN windows[p] = 1..W
      /\ \A n \in 1..W : windows[p][n] = Arrived(stream, last + 1 - n)
  BY <1>4, <1>5, LenProperties DEF HoldsNewest
<1>7. windows[p] = [n \in 1..W |-> Arrived(stream, last + 1 - n)]
  <2>1. windows[p] = [n \in DOMAIN windows[p] |-> windows[p][n]]
    BY <1>5
  <2>2. QED
    BY <1>6, <2>1
<1>8. ASSUME NEW j \in Live(stream, last)
      PROVE  Arrived(stream, j) \in Range(windows[p])
  <2>1. last + 1 - j \in 1..W /\ last + 1 - (last + 1 - j) = j
    BY <1>2, <1>4 DEF Live
  <2>2. windows[p][last + 1 - j] = Arrived(stream, j)
    BY <1>6, <2>1
  <2>3. QED
    BY <1>6, <2>1, <2>2 DEF Range
<1>9. QED
  BY <1>4, <1>7, <1>8 DEF WindowTuples, last, LastOf

\* Each skyline is printed after its window, and nothing in it is from outside that window.
THEOREM PrintsTogether == Spec => []PrintedTogether
BY ShownTogether, Invariance, PTL

LEMMA WithoutRaces ==
  ASSUME IInv, BetweenTuples, ~raced, NEW r \in Rest, NEW x \in Range(rests[r])
  PROVE  /\ x.insert - W \in Live(stream, i - 1)
         /\ StrictlyDominates(Arrived(stream, x.insert - W), x.tuple)
<1>1. TypeOK /\ Waiting
  BY DEF IInv
<1>2. i \in Nat /\ Len(stream) = i /\ W \in Nat
  BY <1>1, WAssumption DEF TypeOK, BetweenTuples
<1>3. x.insert \in Nat
  <2>1. x \in Node
    BY <1>1, RestWorkerFields, RangeOfSeq
  <2>2. QED
    BY <2>1 DEF Node
<1>4. x.insert >= i /\ Justified(x.tuple, x.insert)
  BY <1>1 DEF Waiting
<1>5. x.insert - W \in 0..(i - 1) /\ StrictlyDominates(Arrived(stream, x.insert - W), x.tuple)
  BY <1>2, <1>4 DEF Justified
<1>6. QED
  BY <1>2, <1>3, <1>4, <1>5 DEF Live

LEMMA NobodyWaitsInVain == IInv => WaitsForADominator
<1> SUFFICES ASSUME IInv, BetweenTuples, ~raced, NEW x \in InRest
             PROVE  /\ x.insert - W \in Live(stream, i - 1)
                    /\ StrictlyDominates(Arrived(stream, x.insert - W), x.tuple)
  BY Zenon DEF WaitsForADominator
<1>1. PICK r \in Rest : x \in Range(rests[r])
  BY DEF InRest
<1>2. QED
  BY <1>1, WithoutRaces

\* Without a lost update, whoever waits in a rest list waits for a strictly better tuple
\* that is still in the window.
THEOREM WaitingIsJustified == Spec => []WaitsForADominator
BY NobodyWaitsInVain, Invariance, PTL

LEMMA NothingElseLoses == IInv => OnlyRacesLose
<1> SUFFICES ASSUME IInv, BetweenTuples, ~raced, NEW j \in SkylineNumbers(stream, i - 1)
             PROVE  Arrived(stream, j) \in Tuples(InSky)
  BY Zenon DEF OnlyRacesLose, SkylineTuples
<1>1. TypeOK /\ RestWorkers /\ NodesSound /\ Covered
  BY DEF IInv
<1>2. phase = "generate" /\ i \in Nat /\ Len(stream) = i
  BY <1>1 DEF BetweenTuples, TypeOK
<1>3. /\ j \in Live(stream, i - 1)
      /\ \A l \in Live(stream, i - 1) : ~StrictlyDominates(Arrived(stream, l), Arrived(stream, j))
  BY DEF SkylineNumbers
<1>4. PICK x \in Stored : Covers(x, j)
  BY <1>1, <1>2, <1>3 DEF Covered, Coming
<1>5. PICK p \in Place : x \in NodesAt(p)
  BY <1>4, StoredIsAll
<1>6. x \in Node /\ Sound(x)
  BY <1>1, <1>5, StoredNodes DEF NodesSound
<1>7. NumberOf(x) \in Live(stream, i - 1) /\ x.tuple = Arrived(stream, NumberOf(x))
  BY <1>1, <1>6, SoundIsLive DEF Sound
<1>8. x.tuple = Arrived(stream, j)
  <2>1. j \in 0..(Len(stream) - 1)
    BY <1>3 DEF Live
  <2>2. x.tuple \in Tuple /\ Arrived(stream, j) \in Tuple
    BY <1>1, <1>6, <2>1, ArrivedIsTuple DEF Node
  <2>3. Dominate(x.tuple, Arrived(stream, j)) /\ ~StrictlyDominates(x.tuple, Arrived(stream, j))
    BY <1>3, <1>4, <1>7 DEF Covers
  <2>4. QED
    BY <2>2, <2>3, StrictlyDominatesIff, DominateAntisymmetric
<1>9. ASSUME NEW r \in Rest PROVE p # <<"rest", r>> /\ p # <<"moved", r>>
  <2>1. p # <<"moved", r>>
    BY <1>1, <1>5, OnTheLists
  <2>2. ASSUME p = <<"rest", r>> PROVE FALSE
    <3>1. x \in Range(rests[r])
      BY <1>1, <1>5, <2>2, OnTheLists
    <3>2. /\ x.insert - W \in Live(stream, i - 1)
          /\ StrictlyDominates(Arrived(stream, x.insert - W), Arrived(stream, j))
      BY <1>8, <3>1, WithoutRaces
    <3>3. QED
      BY <1>3, <3>2
  <2>3. QED
    BY <2>1, <2>2
<1>10. PICK s \in Sky : x \in Range(skylines[s])
  BY <1>1, <1>5, <1>9, PlaceIs, OnTheLists
<1>11. QED
  BY <1>8, <1>10 DEF Tuples, InSky

\* Without a lost update or a read behind the end of insert_rest no tuple of the skyline is
\* missing from the skyline lists: the algorithm itself holds none back.
THEOREM RacesAloneLose == Spec => []OnlyRacesLose
BY NothingElseLoses, Invariance, PTL
============================================================================
