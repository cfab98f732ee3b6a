---------------------- MODULE SequentialSkylineProofs ----------------------
(***************************************************************************)
(* The inductive invariant of SequentialSkyline and what follows from it,  *)
(* for every tuple size, window, stream length and sliding factor: what    *)
(* the lists hold, what is printed, and that the program implements        *)
(* SkylineStream.                                                          *)
(***************************************************************************)
EXTENDS SequentialSkyline, SkylineLemmas, SequenceTheorems

\* Every step of main keeps the variables in their types.
LEMMA TypeStep == TypeOK /\ [Next]_vars => TypeOK'
<1> SUFFICES ASSUME TypeOK, [Next]_vars
             PROVE  TypeOK'
  OBVIOUS
<1> USE WAssumption, ParametersAssumption
<1>1. CASE GenerateTuple
  BY <1>1 DEF GenerateTuple, MoreTuples, TypeOK, Phases
<1>2. CASE CheckSkyline
  <2>1. DB_sky' \subseteq Node
    BY <1>2 DEF CheckSkyline, TypeOK, Kept
  <2>2. insert' \in Nat
    BY <1>2, <2>1 DEF CheckSkyline, TypeOK, Greatest, Blockers, Node
  <2>3. QED
    BY <1>2, <2>1, <2>2 DEF CheckSkyline, TypeOK, Phases
<1>3. CASE CheckRest
  <2>1. Kept(DB_rest) \subseteq Node
    BY DEF TypeOK, Kept
  <2>2. insert' \in Nat
    BY <1>3, <2>1 DEF CheckRest, TypeOK, Greatest, Blockers, Node
  <2>3. DB_rest' \subseteq Node /\ DB_sky' \subseteq Node
    BY <1>3, <2>1 DEF CheckRest, TypeOK, Promoted, MkNode, Node
  <2>4. QED
    BY <1>3, <2>2, <2>3 DEF CheckRest, TypeOK, Phases
<1>4. CASE PushNode
  <2>1. t \in Tuple
    BY <1>4 DEF PushNode, TypeOK, t
  <2>2. DB_rest' \subseteq Node /\ DB_sky' \subseteq Node
    BY <1>4, <2>1 DEF PushNode, TypeOK, MkNode, Node
  <2>3. QED
    BY <1>4, <2>2 DEF PushNode, TypeOK, Phases
<1>5. CASE PrintLists
  BY <1>5 DEF PrintLists, TypeOK, Phases
<1>6. CASE UNCHANGED vars
  BY <1>6 DEF vars, TypeOK, Phases
<1>7. QED
  BY <1>1, <1>2, <1>3, <1>4, <1>5, <1>6 DEF Next

\* The variables always have their types.
THEOREM TypeCorrect == Spec => []TypeOK
<1>1. Init => TypeOK
  BY WAssumption, ParametersAssumption DEF Init, TypeOK, Phases
<1>2. QED
  BY <1>1, TypeStep, PTL DEF Spec

----------------------------------------------------------------------------
(* Each stage preserves the inductive invariant.                           *)

\* The tuple at hand is tuple number i.
LEMMA TupleAtHand ==
  ASSUME TypeOK, phase # "generate_tuple"
  PROVE  t \in Tuple /\ t = Arrived(stream, i)
BY DEF TypeOK, t, Arrived

\* So is every other tuple of the stream a tuple.
LEMMA ArrivedIsTuple ==
  ASSUME TypeOK, NEW j \in 0..(Len(stream) - 1)
  PROVE  Arrived(stream, j) \in Tuple
BY DEF TypeOK, Arrived

\* generate_tuple only extends the stream: whatever held of the tuples that
\* had arrived still holds, and the new one represents itself.
LEMMA GenerateTupleStep == IInv /\ GenerateTuple => IInv'
<1> SUFFICES ASSUME IInv, GenerateTuple
             PROVE  IInv'
  OBVIOUS
<1> USE WAssumption, ParametersAssumption
<1>1. TypeOK /\ TypeOK'
  BY TypeStep DEF IInv, Next
<1>2. PICK new \in Tuple : stream' = Append(stream, new)
  BY DEF GenerateTuple
<1>3. /\ phase = "generate_tuple" /\ phase' = "check_skyline"
      /\ i \in Nat /\ Len(stream) = i /\ Len(stream') = i + 1
      /\ i' = i /\ DB_sky' = DB_sky /\ DB_rest' = DB_rest /\ insert' = 0
  BY <1>1, <1>2 DEF GenerateTuple, TypeOK
<1>4. /\ \A j \in 0..(i - 1) : Arrived(stream', j) = Arrived(stream, j)
      /\ Arrived(stream', i) = new /\ t' = new
  BY <1>1, <1>2, <1>3 DEF TypeOK, Arrived, t
<1>5. Stored' = Stored /\ \A x \in Stored : x \in Node /\ NumberOf(x)' = NumberOf(x)
  BY <1>1, <1>3 DEF Stored, NumberOf, TypeOK
<1>6. \A j \in Live(stream, i)' : j = i \/ j \in Live(stream, i)
  BY <1>1, <1>3 DEF Live
<1>7. Genuine'
  BY <1>3, <1>4, <1>5 DEF IInv, Genuine
<1>8. Distinct'
  BY <1>3, <1>5 DEF IInv, Distinct
<1>9. Covered'
  <2> SUFFICES ASSUME NEW j \in Live(stream, i)'
               PROVE  \E x \in (Stored \cup Pending)' :
                        x.expire >= j + W /\ Dominate(x.tuple, Arrived(stream', j))
    BY <1>3 DEF Covered
  <2>1. CASE j = i
    <3>1. MkNode(new, i + W, 0) \in Pending'
      BY <1>3, <1>4 DEF Pending
    <3>2. QED
      BY <2>1, <3>1, <1>3, <1>4, DominateReflexive DEF MkNode
  <2>2. CASE j \in Live(stream, i)
    <3>1. PICK x \in Stored : x.expire >= j + W /\ Dominate(x.tuple, Arrived(stream, j))
      BY <2>2, <1>3 DEF IInv, Covered, Pending
    <3>2. Arrived(stream', j) = Arrived(stream, j)
      BY <2>2, <1>3, <1>4 DEF Live
    <3>3. QED
      BY <3>1, <3>2, <1>5
  <2>3. QED
    BY <2>1, <2>2, <1>6
<1>10. NotSuperseded'
  BY <1>3, <1>4, <1>5 DEF IInv, NotSuperseded
<1>11. Scanned'
  BY <1>3 DEF Scanned, SkyScanned, RestScanned
<1>12. RestJustified'
  BY <1>1, <1>3, <1>4 DEF IInv, RestJustified, Justified
<1>13. InsertJustified'
  BY <1>3 DEF InsertJustified, SkyScanned
<1>14. RestWaits'
  <2> SUFFICES ASSUME NEW x \in DB_rest, NEW j \in Live(stream, i)',
                      StrictlyDominates(Arrived(stream', j), x.tuple), j < NumberOf(x)
               PROVE  j + W <= x.insert
    BY <1>3, <1>5 DEF RestWaits, Stored
  <2>1. NumberOf(x) \in 0..(i - 1)
    BY <1>3 DEF IInv, Genuine, Stored
  <2>2. j \in Live(stream, i) /\ Arrived(stream', j) = Arrived(stream, j)
    BY <2>1, <1>3, <1>4, <1>6 DEF Live
  <2>3. QED
    BY <2>2 DEF IInv, RestWaits
<1>15. QED
  BY <1>1, <1>7, <1>8, <1>9, <1>10, <1>11, <1>12, <1>13, <1>14 DEF IInv

\* check_skyline leaves in the skyline list what the new tuple does not
\* dominate, and finds the last of the nodes there that dominate it.
LEMMA CheckSkylineStep == IInv /\ CheckSkyline => IInv'
<1> SUFFICES ASSUME IInv, CheckSkyline
             PROVE  IInv'
  OBVIOUS
<1> USE WAssumption, ParametersAssumption
<1>1. TypeOK /\ TypeOK'
  BY TypeStep DEF IInv, Next
<1>2. /\ phase = "check_skyline" /\ phase' = "check_rest"
      /\ i \in Nat /\ Len(stream) = i + 1
      /\ i' = i /\ stream' = stream /\ t' = t /\ DB_rest' = DB_rest
      /\ DB_sky' = Kept(DB_sky) /\ DB_sky' \subseteq DB_sky
      /\ insert = 0
  BY <1>1 DEF CheckSkyline, TypeOK, Kept, t, IInv, InsertJustified
<1>3. t \in Tuple /\ t = Arrived(stream, i)
  BY <1>1, <1>2, TupleAtHand
<1>4. /\ Stored' \subseteq Stored
      /\ \A x \in Stored : x \in Node /\ NumberOf(x)' = NumberOf(x)
      /\ Live(stream, i)' = Live(stream, i)
  BY <1>1, <1>2 DEF Stored, NumberOf, TypeOK, Live
<1>5. Genuine'
  BY <1>2, <1>4 DEF IInv, Genuine
<1>6. Distinct'
  BY <1>2, <1>4 DEF IInv, Distinct
<1>7. Covered'
  <2> SUFFICES ASSUME NEW j \in Live(stream, i)
               PROVE  \E x \in (Stored \cup Pending)' :
                        x.expire >= j + W /\ Dominate(x.tuple, Arrived(stream, j))
    BY <1>2, <1>4 DEF Covered
  <2>1. PICK x \in Stored \cup Pending :
          x.expire >= j + W /\ Dominate(x.tuple, Arrived(stream, j))
    BY DEF IInv, Covered
  <2>2. Pending' = Pending /\ MkNode(t, i + W, 0) \in Pending
    BY <1>2 DEF Pending
  <2>3. CASE x \in (Stored \cup Pending)'
    BY <2>1, <2>3
  <2>4. CASE x \notin (Stored \cup Pending)'
    <3>1. x \in DB_sky /\ x \notin Kept(DB_sky) /\ x \in Node
      BY <1>2, <1>4, <2>1, <2>2, <2>4 DEF Stored
    <3>2. j \in 0..i /\ j + W > i
      BY <1>2 DEF Live
    <3>3. x.expire > i
      BY <1>2, <2>1, <3>1, <3>2 DEF Node
    <3>4. Dominate(t, x.tuple)
      BY <3>1, <3>3 DEF Kept
    <3>5. Dominate(t, Arrived(stream, j))
      BY <1>1, <1>2, <1>3, <2>1, <3>1, <3>2, <3>4, DominateTransitive, ArrivedIsTuple DEF Node
    <3>6. i + W >= j + W
      BY <1>2, <3>2
    <3>7. QED
      BY <2>2, <3>5, <3>6 DEF MkNode
  <2>5. QED
    BY <2>3, <2>4
<1>8. NotSuperseded'
  BY <1>2, <1>4 DEF IInv, NotSuperseded
<1>9. Scanned'
  BY <1>2 DEF Scanned, SkyScanned, RestScanned, Survives, Kept
<1>10. RestJustified'
  BY <1>2 DEF IInv, RestJustified, Justified
<1>11. InsertJustified'
  <2>1. ASSUME NEW x \in DB_sky', Dominate(x.tuple, t)
        PROVE  x.expire <= insert'
    BY <2>1 DEF CheckSkyline, Greatest, Blockers
  <2>2. ASSUME ~sky'
        PROVE  insert' > i /\ Justified(t, insert')
    <3>1. PICK e \in Blockers(DB_sky') : TRUE
      BY <2>2 DEF CheckSkyline
    <3>2. \A f \in Blockers(DB_sky') : f > i /\ f \in Nat
      BY <1>2, <1>4 DEF Blockers, Kept, Stored, Node
    <3>3. insert' \in Blockers(DB_sky')
      BY <1>2, <3>1, <3>2 DEF CheckSkyline, Greatest
    <3>4. PICK x \in DB_sky' : x.expire = insert' /\ Dominate(x.tuple, t)
      BY <3>3 DEF Blockers
    <3>5. ~Dominate(t, x.tuple) /\ x \in Stored
      BY <1>2 DEF Kept, Stored
    <3>6. StrictlyDominates(x.tuple, t)
      BY <1>3, <1>4, <3>4, <3>5, StrictlyDominatesIff DEF Node
    <3>7. Justified(t, insert')
      BY <3>4, <3>5, <3>6 DEF IInv, Genuine, Justified, NumberOf
    <3>8. QED
      BY <3>2, <3>3, <3>7
  <2>3. QED
    BY <1>2, <2>1, <2>2 DEF InsertJustified, Justified
<1>12. RestWaits'
  BY <1>2, <1>4 DEF IInv, RestWaits, Stored
<1>13. QED
  BY <1>1, <1>5, <1>6, <1>7, <1>8, <1>9, <1>10, <1>11, <1>12 DEF IInv

\* What check_rest leaves behind: the nodes of the skyline list, and the nodes
\* it kept in the rest list, some of them moved to the skyline list.
LEMMA AfterCheckRest ==
  ASSUME TypeOK, CheckRest
  PROVE  /\ \A y \in DB_rest' : y \in Kept(DB_rest) /\ y.insert > i
         /\ \A y \in DB_sky' \ DB_sky : \E x \in Kept(DB_rest) :
              y = MkNode(x.tuple, x.expire, 0) /\ x \notin DB_rest'
         /\ DB_sky \subseteq DB_sky'
         /\ \A x \in Kept(DB_rest) : x \in DB_rest' \/ MkNode(x.tuple, x.expire, 0) \in DB_sky'
         /\ Kept(DB_rest) \subseteq DB_rest
         /\ \A x \in Kept(DB_rest) : x.expire > i /\ ~Dominate(t, x.tuple)
<1>1. Kept(DB_rest) \subseteq DB_rest /\ DB_rest \subseteq Node /\ i \in Nat
  BY DEF Kept, TypeOK
<1>2. \A x \in Kept(DB_rest) : x \in DB_rest' <=> ~(x.insert <= i)
  BY <1>1 DEF CheckRest, Promoted
<1>3. QED
  BY <1>1, <1>2 DEF CheckRest, Promoted, Kept, Node

\* check_rest leaves in the rest list what the new tuple does not dominate and
\* what still waits, and moves the others to the skyline list.
LEMMA CheckRestStep == IInv /\ CheckRest => IInv'
<1> SUFFICES ASSUME IInv, CheckRest
             PROVE  IInv'
  OBVIOUS
<1> USE WAssumption, ParametersAssumption
<1>1. TypeOK /\ TypeOK'
  BY TypeStep DEF IInv, Next
<1>2. /\ phase = "check_rest" /\ phase' \in {"push_node", "crashed"}
      /\ i \in Nat /\ Len(stream) = i + 1
      /\ i' = i /\ stream' = stream /\ t' = t /\ sky' = sky
  BY <1>1 DEF CheckRest, TypeOK, t
<1>3. t \in Tuple /\ t = Arrived(stream, i)
  BY <1>1, <1>2, TupleAtHand
<1>4. /\ \A x \in Stored : x \in Node
      /\ Live(stream, i)' = Live(stream, i)
  BY <1>1, <1>2 DEF Stored, NumberOf, TypeOK, Live
<1>5. \A y \in Stored' : \E x \in Stored :
         /\ y.tuple = x.tuple /\ y.expire = x.expire
         /\ x = y \/ (x \in Kept(DB_rest) /\ x \notin DB_rest' /\ y = MkNode(x.tuple, x.expire, 0))
  BY <1>1, AfterCheckRest DEF Stored, MkNode
<1>6. Genuine'
  BY <1>2, <1>5 DEF IInv, Genuine, NumberOf
<1>7. Distinct'
  <2>1. ASSUME NEW y \in Stored', NEW z \in Stored', y.expire = z.expire
        PROVE  y = z
    <3>1. PICK a \in Stored :
            /\ y.tuple = a.tuple /\ y.expire = a.expire
            /\ y = a \/ (a \in Kept(DB_rest) /\ a \notin DB_rest' /\ y = MkNode(a.tuple, a.expire, 0))
      BY <1>5
    <3>2. PICK b \in Stored :
            /\ z.tuple = b.tuple /\ z.expire = b.expire
            /\ z = b \/ (b \in Kept(DB_rest) /\ b \notin DB_rest' /\ z = MkNode(b.tuple, b.expire, 0))
      BY <1>5
    <3>3. a = b
      BY <2>1, <3>1, <3>2 DEF IInv, Distinct
    <3>4. ASSUME a \in Kept(DB_rest), a \notin DB_rest', y = a \/ z = a
          PROVE  FALSE
      <4>1. a \in DB_rest /\ a \notin DB_sky
        BY <1>1, <3>4, AfterCheckRest DEF IInv, Distinct
      <4>2. a \in DB_sky'
        BY <2>1, <3>4 DEF Stored
      <4>3. PICK x \in Kept(DB_rest) : a = MkNode(x.tuple, x.expire, 0)
        BY <1>1, <4>1, <4>2, AfterCheckRest
      <4>4. a.insert = 0 /\ a \in DB_rest
        BY <4>1, <4>3 DEF MkNode
      <4>5. Justified(a.tuple, 0)
        BY <4>4 DEF IInv, RestJustified
      <4>6. 0 - W \in 0..(Len(stream) - 1)
        BY <4>5 DEF Justified
      <4>7. QED
        BY <4>6, <1>2
    <3>5. QED
      BY <3>1, <3>2, <3>3, <3>4
  <2>2. ASSUME NEW y \in DB_sky', y \in DB_rest'
        PROVE  FALSE
    <3>1. y \in DB_rest /\ y \notin DB_sky
      BY <1>1, <2>2, AfterCheckRest DEF IInv, Distinct
    <3>2. PICK x \in Kept(DB_rest) : y = MkNode(x.tuple, x.expire, 0) /\ x \notin DB_rest'
      BY <1>1, <2>2, <3>1, AfterCheckRest
    <3>3. x \in DB_rest /\ x.expire = y.expire
      BY <1>1, <3>2, AfterCheckRest DEF MkNode
    <3>4. x = y
      BY <3>1, <3>3 DEF IInv, Distinct, Stored
    <3>5. QED
      BY <2>2, <3>2, <3>4
  <2>3. QED
    BY <2>1, <2>2 DEF Distinct
<1>8. Covered'
  <2> SUFFICES ASSUME NEW j \in Live(stream, i), phase' \in {"push_node", "crashed"}
               PROVE  \E x \in (Stored \cup Pending)' :
                        x.expire >= j + W /\ Dominate(x.tuple, Arrived(stream, j))
    BY <1>2, <1>4 DEF Covered
  <2>1. PICK x \in Stored \cup Pending :
          x.expire >= j + W /\ Dominate(x.tuple, Arrived(stream, j))
    BY DEF IInv, Covered
  <2>2. Pending' = Pending /\ MkNode(t, i + W, 0) \in Pending
    BY <1>2 DEF Pending
  <2>3. j \in 0..i /\ j + W > i
    BY <1>2 DEF Live
  <2>4. CASE x \in DB_sky \cup Pending
    BY <1>1, <2>1, <2>2, <2>4, AfterCheckRest DEF Stored
  <2>5. CASE x \in Kept(DB_rest)
    <3>1. x \in DB_rest' \/ MkNode(x.tuple, x.expire, 0) \in DB_sky'
      BY <1>1, <2>5, AfterCheckRest
    <3>2. PICK y \in Stored' : y.tuple = x.tuple /\ y.expire = x.expire
      BY <3>1 DEF Stored, MkNode
    <3>3. QED
      BY <2>1, <3>2
  <2>6. CASE x \in DB_rest /\ x \notin Kept(DB_rest)
    <3>1. x \in Node
      BY <1>1, <2>6 DEF TypeOK
    <3>2. x.expire > i
      BY <1>2, <2>1, <2>3, <3>1 DEF Node
    <3>3. Dominate(t, x.tuple)
      BY <2>6, <3>2 DEF Kept
    <3>4. Dominate(t, Arrived(stream, j))
      BY <1>1, <1>2, <1>3, <2>1, <2>3, <3>1, <3>3, DominateTransitive, ArrivedIsTuple DEF Node
    <3>5. i + W >= j + W
      BY <1>2, <2>3
    <3>6. QED
      BY <2>2, <3>4, <3>5 DEF MkNode
  <2>7. QED
    BY <2>1, <2>4, <2>5, <2>6 DEF Stored
<1>9. NotSuperseded'
  BY <1>2, <1>5 DEF IInv, NotSuperseded, NumberOf
<1>10. Scanned'
  <2>1. \A x \in DB_sky : x.expire > i /\ (NumberOf(x) < i => ~Dominate(t, x.tuple))
    BY <1>2 DEF IInv, Scanned, SkyScanned, Survives
  <2>2. \A y \in DB_sky' : y.expire > i /\ (NumberOf(y) < i => ~Dominate(t, y.tuple))
    BY <1>1, <2>1, AfterCheckRest DEF MkNode
  <2>3. \A y \in DB_rest' : y.expire > i /\ ~Dominate(t, y.tuple) /\ y.insert > i
    BY <1>1, AfterCheckRest
  <2>4. QED
    BY <1>2, <2>2, <2>3 DEF Scanned, SkyScanned, RestScanned, Survives, NumberOf
<1>11. RestJustified'
  BY <1>1, <1>2, AfterCheckRest DEF IInv, RestJustified, Justified
<1>12. InsertJustified'
  <2>1. insert \in Nat /\ \A e \in Blockers(Kept(DB_rest)) : e \in Nat /\ e > i
    BY <1>1, AfterCheckRest DEF TypeOK, Blockers, Node
  <2>2. /\ insert' \in {insert} \cup Blockers(Kept(DB_rest))
        /\ insert <= insert'
        /\ \A e \in Blockers(Kept(DB_rest)) : e <= insert'
    BY DEF CheckRest, Greatest
  <2>3. ASSUME ~sky
        PROVE  insert' > i /\ Justified(t, insert')
    <3>1. CASE insert' = insert
      BY <1>2, <2>3, <3>1 DEF IInv, InsertJustified, SkyScanned
    <3>2. CASE insert' \in Blockers(Kept(DB_rest))
      <4>1. PICK x \in Kept(DB_rest) : x.expire = insert' /\ Dominate(x.tuple, t)
        BY <3>2 DEF Blockers
      <4>2. x \in Stored /\ ~Dominate(t, x.tuple)
        BY <1>1, AfterCheckRest DEF Stored
      <4>3. StrictlyDominates(x.tuple, t)
        BY <1>3, <1>4, <4>1, <4>2, StrictlyDominatesIff DEF Node
      <4>4. Justified(t, insert')
        BY <4>1, <4>2, <4>3 DEF IInv, Genuine, Justified, NumberOf
      <4>5. QED
        BY <2>1, <3>2, <4>4
    <3>3. QED
      BY <2>2, <3>1, <3>2
  <2>4. ASSUME NEW j \in Live(stream, i), StrictlyDominates(Arrived(stream, j), t)
        PROVE  j + W <= insert'
    <3>1. j \in 0..i /\ j + W > i /\ Arrived(stream, j) \in Tuple
      BY <1>1, <1>2, ArrivedIsTuple DEF Live
    <3>2. Dominate(Arrived(stream, j), t) /\ ~Dominate(t, Arrived(stream, j))
      BY <1>3, <2>4, <3>1, StrictlyDominatesIff
    <3>3. PICK x \in Stored \cup Pending :
            x.expire >= j + W /\ Dominate(x.tuple, Arrived(stream, j))
      BY DEF IInv, Covered
    <3>4. x \notin Pending
      BY <3>2, <3>3 DEF Pending, MkNode
    <3>5. x \in Stored /\ x.tuple \in Tuple /\ x.expire \in Nat
      BY <1>4, <3>3, <3>4 DEF Node
    <3>6. Dominate(x.tuple, t) /\ ~Dominate(t, x.tuple)
      BY <1>3, <3>1, <3>2, <3>3, <3>5, DominateTransitive
    <3>7. CASE x \in DB_sky
      <4>1. x.expire <= insert
        BY <1>2, <3>6, <3>7 DEF IInv, InsertJustified
      <4>2. QED
        BY <2>1, <2>2, <3>1, <3>3, <3>5, <4>1
    <3>8. CASE x \in DB_rest
      <4>1. x \in Kept(DB_rest)
        BY <1>2, <3>1, <3>3, <3>5, <3>6, <3>8 DEF Kept
      <4>2. x.expire \in Blockers(Kept(DB_rest))
        BY <3>6, <4>1 DEF Blockers
      <4>3. QED
        BY <2>1, <2>2, <3>1, <3>3, <3>5, <4>2
    <3>9. QED
      BY <3>5, <3>7, <3>8 DEF Stored
  <2>5. QED
    BY <1>2, <1>4, <2>3, <2>4 DEF InsertJustified, SkyScanned, Justified
<1>13. RestWaits'
  BY <1>1, <1>2, <1>4, AfterCheckRest DEF IInv, RestWaits, NumberOf
<1>14. QED
  BY <1>1, <1>6, <1>7, <1>8, <1>9, <1>10, <1>11, <1>12, <1>13 DEF IInv

\* push_node adds the node of the tuple at hand, and nothing dominated by it
\* is left to be added to.
LEMMA PushNodeStep == IInv /\ PushNode => IInv'
<1> SUFFICES ASSUME IInv, PushNode
             PROVE  IInv'
  OBVIOUS
<1> USE WAssumption, ParametersAssumption
<1>1. TypeOK /\ TypeOK'
  BY TypeStep DEF IInv, Next
<1>2. /\ phase = "push_node" /\ phase' = "print_lists"
      /\ i \in Nat /\ Len(stream) = i + 1 /\ insert \in Nat
      /\ i' = i /\ stream' = stream /\ t' = t /\ insert' = insert /\ sky' = sky
  BY <1>1 DEF PushNode, TypeOK, t
<1>3. t \in Tuple /\ t = Arrived(stream, i)
  BY <1>1, <1>2, TupleAtHand
<1>4. Live(stream, i)' = Live(stream, i) /\ DB_sky \subseteq Node /\ DB_rest \subseteq Node
  BY <1>1, <1>2 DEF TypeOK, Live
<1> DEFINE new == MkNode(t, i + W, IF sky THEN 0 ELSE insert)
<1>5. /\ new \in Node /\ new.tuple = t /\ new.expire = i + W /\ NumberOf(new) = i
      /\ ~sky => new.insert = insert
  BY <1>2, <1>3 DEF MkNode, NumberOf, Node
<1>6. \/ sky /\ DB_sky' = DB_sky \cup {new} /\ DB_rest' = DB_rest
      \/ ~sky /\ DB_rest' = DB_rest \cup {new} /\ DB_sky' = DB_sky
  BY DEF PushNode
<1>7. Stored' = Stored \cup {new} /\ Stored \subseteq Node
  BY <1>4, <1>6 DEF Stored
<1>8. \A x \in Stored : x.expire # new.expire
  BY <1>2, <1>4, <1>5, <1>7 DEF IInv, Genuine, NumberOf, Node
<1> HIDE DEF new
<1>9. Genuine'
  BY <1>2, <1>3, <1>5, <1>7 DEF IInv, Genuine, NumberOf
<1>10. Distinct'
  <2>1. \A x, y \in Stored' : x.expire = y.expire => x = y
    BY <1>7, <1>8 DEF IInv, Distinct
  <2>2. DB_sky' \cap DB_rest' = {}
    BY <1>6, <1>8 DEF IInv, Distinct, Stored
  <2>3. QED
    BY <2>1, <2>2 DEF Distinct
<1>11. Covered'
  <2> SUFFICES ASSUME NEW j \in Live(stream, i)
               PROVE  \E x \in Stored \cup {new} :
                        x.expire >= j + W /\ Dominate(x.tuple, Arrived(stream, j))
    BY <1>2, <1>4, <1>7 DEF Covered
  <2>1. PICK x \in Stored \cup {MkNode(t, i + W, 0)} :
          x.expire >= j + W /\ Dominate(x.tuple, Arrived(stream, j))
    BY <1>2 DEF IInv, Covered, Pending
  <2>2. QED
    BY <2>1, <1>5 DEF MkNode
<1>12. NotSuperseded'
  BY <1>2, <1>5, <1>7 DEF IInv, NotSuperseded, NumberOf
<1>13. Scanned'
  <2>1. \A x \in DB_sky : Survives(x)
    BY <1>2 DEF IInv, Scanned, SkyScanned
  <2>2. \A x \in DB_rest : Survives(x) /\ x.insert > i
    BY <1>2 DEF IInv, Scanned, RestScanned
  <2>3. Survives(new)
    BY <1>2, <1>5 DEF Survives
  <2>4. ~sky => new.insert > i
    BY <1>2, <1>5 DEF IInv, InsertJustified, SkyScanned
  <2>5. (\A x \in DB_sky' : Survives(x)) /\ \A x \in DB_rest' : Survives(x) /\ x.insert > i
    BY <2>1, <2>2, <2>3, <2>4, <1>6
  <2>6. QED
    BY <2>5, <1>2 DEF Scanned, Survives, NumberOf
<1>14. RestJustified'
  <2>1. ~sky => Justified(new.tuple, new.insert)
    BY <1>2, <1>5 DEF IInv, InsertJustified, SkyScanned
  <2>2. QED
    BY <2>1, <1>2, <1>6 DEF IInv, RestJustified, Justified
<1>15. InsertJustified'
  BY <1>2 DEF InsertJustified
<1>16. RestWaits'
  <2>1. ASSUME ~sky, NEW j \in Live(stream, i),
               StrictlyDominates(Arrived(stream, j), new.tuple)
        PROVE  j + W <= new.insert
    BY <2>1, <1>2, <1>5 DEF IInv, InsertJustified
  <2>2. QED
    BY <2>1, <1>2, <1>4, <1>6 DEF IInv, RestWaits, NumberOf
<1>17. QED
  BY <1>1, <1>9, <1>10, <1>11, <1>12, <1>13, <1>14, <1>15, <1>16 DEF IInv

\* The end of the loop body moves the window on by one.
LEMMA PrintListsStep == IInv /\ PrintLists => IInv'
<1> SUFFICES ASSUME IInv, PrintLists
             PROVE  IInv'
  OBVIOUS
<1> USE WAssumption, ParametersAssumption
<1>1. TypeOK /\ TypeOK'
  BY TypeStep DEF IInv, Next
<1>2. /\ phase = "print_lists" /\ phase' = "generate_tuple"
      /\ i \in Nat /\ Len(stream) = i + 1
      /\ i' = i + 1 /\ stream' = stream
      /\ DB_sky' = DB_sky /\ DB_rest' = DB_rest
      /\ t = Arrived(stream, i)
  BY <1>1, TupleAtHand DEF PrintLists, TypeOK
<1>3. Stored' = Stored /\ Live(stream, i)' \subseteq Live(stream, i)
  BY <1>2 DEF Stored, Live
<1>4. Genuine'
  BY <1>2, <1>3 DEF IInv, Genuine, NumberOf
<1>5. Distinct'
  BY <1>2, <1>3 DEF IInv, Distinct
<1>6. Covered'
  BY <1>2, <1>3 DEF IInv, Covered, Pending
<1>7. NotSuperseded'
  <2>1. \A x \in Stored : NumberOf(x) < i => ~Dominate(Arrived(stream, i), x.tuple)
    BY <1>2 DEF IInv, Scanned, SkyScanned, RestScanned, Survives, Stored
  <2>2. QED
    BY <2>1, <1>2, <1>3 DEF IInv, NotSuperseded, NumberOf
<1>8. Scanned'
  BY <1>2 DEF Scanned, SkyScanned, RestScanned
<1>9. RestJustified'
  BY <1>2 DEF IInv, RestJustified, Justified
<1>10. InsertJustified'
  BY <1>2 DEF InsertJustified, SkyScanned
<1>11. RestWaits'
  BY <1>2, <1>3 DEF IInv, RestWaits, NumberOf
<1>12. QED
  BY <1>1, <1>4, <1>5, <1>6, <1>7, <1>8, <1>9, <1>10, <1>11 DEF IInv

----------------------------------------------------------------------------
(* The theorems.                                                           *)

\* At the start nothing has arrived and nothing is stored.
LEMMA InitiallyInvariant == Init => IInv
BY WAssumption, ParametersAssumption
   DEF Init, IInv, TypeOK, Phases, Genuine, Stored, Distinct, Covered, Live, Pending,
       NotSuperseded, Scanned, SkyScanned, RestScanned, RestJustified, InsertJustified,
       RestWaits

\* Every step of the program preserves the inductive invariant.
LEMMA InvariantStep == IInv /\ [Next]_vars => IInv'
<1> SUFFICES ASSUME IInv, [Next]_vars
             PROVE  IInv'
  OBVIOUS
<1>1. CASE UNCHANGED vars
  BY <1>1 DEF vars, IInv, TypeOK, Genuine, Stored, NumberOf, Distinct, Covered, Live,
              Pending, t, NotSuperseded, Scanned, SkyScanned, RestScanned, Survives,
              RestJustified, Justified, InsertJustified, RestWaits
<1>2. QED
  BY <1>1, GenerateTupleStep, CheckSkylineStep, CheckRestStep, PushNodeStep, PrintListsStep
     DEF Next

\* The lists represent the window at every point of the loop.
THEOREM Invariance == Spec => []IInv
BY InitiallyInvariant, InvariantStep, PTL DEF Spec

\* When the lists are printed, what they hold are tuples of the window.
LEMMA StoredIsLive ==
  ASSUME IInv, phase = "print_lists", NEW x \in Stored
  PROVE  /\ NumberOf(x) \in Live(stream, i)
         /\ x.tuple = Arrived(stream, NumberOf(x)) /\ x.tuple \in Tuple
         /\ x.expire \in Nat
<1> USE WAssumption
<1>1. x \in Node /\ i \in Nat /\ Len(stream) = i + 1
  BY DEF IInv, TypeOK, Stored
<1>2. x.expire > i
  BY DEF IInv, Scanned, SkyScanned, RestScanned, Survives, Stored
<1>3. QED
  BY <1>1, <1>2 DEF IInv, Genuine, NumberOf, Live, Node

\* The two lists hold exactly the tuples of the window that no later one
\* dominates, each once.
THEOREM StorageCorrect == Spec => []StoresTheCandidates
<1>1. IInv => StoresTheCandidates
  <2> SUFFICES ASSUME IInv, phase = "print_lists"
               PROVE  {NumberOf(x) : x \in Stored} =
                        {j \in Live(stream, i) : \A l \in Live(stream, i) :
                           l > j => ~Dominate(Arrived(stream, l), Arrived(stream, j))}
    BY DEF StoresTheCandidates, IInv, Genuine, Distinct
  <2> USE WAssumption
  <2>1. i \in Nat /\ Len(stream) = i + 1 /\ t = Arrived(stream, i)
    BY TupleAtHand DEF IInv, TypeOK
  <2>2. ASSUME NEW x \in Stored, NEW l \in Live(stream, i), l > NumberOf(x)
        PROVE  ~Dominate(Arrived(stream, l), Arrived(stream, NumberOf(x)))
    <3>1. NumberOf(x) \in Nat /\ l \in 0..i /\ x.tuple = Arrived(stream, NumberOf(x))
      BY <2>1, StoredIsLive DEF Live
    <3>2. CASE l < i
      BY <2>1, <2>2, <3>1, <3>2 DEF IInv, NotSuperseded
    <3>3. CASE l = i
      BY <2>1, <2>2, <3>1, <3>3
         DEF IInv, Scanned, SkyScanned, RestScanned, Survives, Stored
    <3>4. QED
      BY <2>1, <3>1, <3>2, <3>3
  <2>3. ASSUME NEW j \in Live(stream, i),
               \A l \in Live(stream, i) :
                 l > j => ~Dominate(Arrived(stream, l), Arrived(stream, j))
        PROVE  \E x \in Stored : NumberOf(x) = j
    <3>1. PICK x \in Stored : x.expire >= j + W /\ Dominate(x.tuple, Arrived(stream, j))
      BY DEF IInv, Covered, Pending
    <3>2. NumberOf(x) \in Live(stream, i) /\ x.tuple = Arrived(stream, NumberOf(x))
          /\ x.expire \in Nat
      BY StoredIsLive
    <3>3. ~(NumberOf(x) > j)
      BY <2>3, <3>1, <3>2
    <3>4. QED
      BY <2>1, <3>1, <3>2, <3>3 DEF NumberOf, Live
  <2>4. QED
    BY <2>2, <2>3, StoredIsLive
<1>2. QED
  BY <1>1, Invariance, PTL

\* When the lists are printed, the skyline list lacks no tuple of the skyline.
LEMMA InvariantComplete == IInv => SkylineComplete
<1> SUFFICES ASSUME IInv, phase = "print_lists", NEW j \in SkylineNumbers(stream, i)
             PROVE  \E x \in DB_sky : x.tuple = Arrived(stream, j)
  BY DEF SkylineComplete, SkylineTuples, Tuples
<1> USE WAssumption
<1>1. i \in Nat /\ Len(stream) = i + 1 /\ TypeOK
  BY DEF IInv, TypeOK
<1>2. j \in Live(stream, i) /\ Arrived(stream, j) \in Tuple
  BY <1>1, ArrivedIsTuple DEF SkylineNumbers, Live
<1>3. PICK x \in Stored : x.expire >= j + W /\ Dominate(x.tuple, Arrived(stream, j))
  BY <1>2 DEF IInv, Covered, Pending
<1>4. /\ NumberOf(x) \in Live(stream, i)
      /\ x.tuple = Arrived(stream, NumberOf(x)) /\ x.tuple \in Tuple
  BY StoredIsLive
<1>5. ~StrictlyDominates(x.tuple, Arrived(stream, j))
  BY <1>4 DEF SkylineNumbers
<1>6. x.tuple = Arrived(stream, j)
  BY <1>2, <1>3, <1>4, <1>5, StrictlyDominatesIff, DominateAntisymmetric
<1>7. x \notin DB_rest
  <2> SUFFICES ASSUME x \in DB_rest
               PROVE  FALSE
    OBVIOUS
  <2>1. x.insert \in Nat /\ x.insert > i
    BY DEF IInv, TypeOK, Node, Scanned, RestScanned
  <2>2. /\ x.insert - W \in 0..(Len(stream) - 1)
        /\ StrictlyDominates(Arrived(stream, x.insert - W), x.tuple)
    BY DEF IInv, RestJustified, Justified
  <2>3. x.insert - W \in Live(stream, i)
    BY <1>1, <2>1, <2>2 DEF Live
  <2>4. QED
    BY <1>6, <2>2, <2>3 DEF SkylineNumbers
<1>8. QED
  BY <1>6, <1>7 DEF Stored

\* The printed skyline list lacks no tuple of the skyline.
THEOREM NothingIsMissing == Spec => []SkylineComplete
BY InvariantComplete, Invariance, PTL

\* No waiting tuple misses the departure of its last dominator.
THEOREM WaitingIsLongEnough == Spec => []RestWaits
<1>1. IInv => RestWaits
  BY DEF IInv
<1>2. QED
  BY <1>1, Invariance, PTL

\* A tuple of the rest list that becomes a skyline tuple is one.
THEOREM PromotionsAreSound == Spec => PromotionSound
<1>1. IInv /\ [Next]_vars =>
        [\A x \in DB_rest : MkNode(x.tuple, x.expire, 0) \in DB_sky' =>
           \A j \in Live(stream, i) : ~StrictlyDominates(Arrived(stream, j), x.tuple)]_vars
  <2> SUFFICES ASSUME IInv, Next, NEW x \in DB_rest,
                      MkNode(x.tuple, x.expire, 0) \in DB_sky',
                      NEW j \in Live(stream, i),
                      StrictlyDominates(Arrived(stream, j), x.tuple)
               PROVE  FALSE
    OBVIOUS
  <2> USE WAssumption
  <2> DEFINE moved == MkNode(x.tuple, x.expire, 0)
  <2>1. TypeOK /\ i \in Nat /\ x \in Node /\ moved.expire = x.expire
    BY DEF IInv, TypeOK, MkNode
  <2>2. moved \notin DB_sky
    BY <2>1 DEF IInv, Distinct, Stored
  <2> HIDE DEF moved
  <2>3. moved \in DB_sky'
    BY DEF moved
  <2>4. ~GenerateTuple /\ ~CheckSkyline /\ ~PrintLists
    BY <2>2, <2>3 DEF GenerateTuple, CheckSkyline, PrintLists, Kept
  <2>5. ~PushNode
    <3> SUFFICES ASSUME PushNode
                 PROVE  FALSE
      OBVIOUS
    <3>1. moved = MkNode(t, i + W, 0)
      BY <2>2, <2>3 DEF PushNode
    <3>2. x.expire = i + W
      BY <2>1, <3>1 DEF MkNode
    <3>3. NumberOf(x) < i
      BY DEF PushNode, IInv, Genuine, Stored
    <3>4. QED
      BY <2>1, <3>2, <3>3 DEF NumberOf
  <2>6. CheckRest /\ Len(stream) = i + 1 /\ t = Arrived(stream, i)
    BY <2>4, <2>5, TupleAtHand DEF Next, CheckRest, IInv, TypeOK
  <2>7. x \in Kept(DB_rest) /\ x.insert <= i
    <3>1. PICK y \in Promoted(Kept(DB_rest)) : moved = MkNode(y.tuple, y.expire, 0)
      BY <2>2, <2>3, <2>6 DEF CheckRest
    <3>2. y.expire = x.expire
      BY <2>1, <3>1 DEF MkNode
    <3>3. y \in DB_rest
      BY DEF Promoted, Kept
    <3>4. x = y
      BY <3>2, <3>3 DEF IInv, Distinct, Stored
    <3>5. QED
      BY <3>4 DEF Promoted
  <2>8. /\ j \in 0..i /\ j + W > i /\ Arrived(stream, j) \in Tuple
        /\ NumberOf(x) \in 0..i /\ x.tuple = Arrived(stream, NumberOf(x)) /\ x.tuple \in Tuple
    BY <2>1, <2>6, ArrivedIsTuple DEF Live, IInv, Genuine, Stored, Node
  <2>9. Dominate(Arrived(stream, j), x.tuple) /\ ~Dominate(x.tuple, Arrived(stream, j))
    BY <2>8, StrictlyDominatesIff
  <2>10. CASE j < NumberOf(x)
    BY <2>1, <2>7, <2>8, <2>10 DEF IInv, RestWaits, Node
  <2>11. CASE j = NumberOf(x)
    BY <2>8, <2>9, <2>11
  <2>12. CASE j > NumberOf(x) /\ j < i
    BY <2>1, <2>8, <2>9, <2>12 DEF IInv, NotSuperseded, Stored
  <2>13. CASE j > NumberOf(x) /\ j = i
    BY <2>6, <2>7, <2>9, <2>13 DEF Kept
  <2>14. QED
    BY <2>1, <2>8, <2>10, <2>11, <2>12, <2>13
<1>2. QED
  BY <1>1, Invariance, PTL DEF Spec, PromotionSound
----------------------------------------------------------------------------
(* What is printed.                                                        *)

\* print_lists prints just when the number of windows due grows, and the number
\* of the window tells where it ends.
LEMMA NextWindow ==
  ASSUME i \in Nat
  PROVE  /\ Observed!Windows(i) \in Nat
         /\ Observed!Windows(i + 1) = IF i >= W - 1 /\ OnSlide
                                      THEN Observed!Windows(i) + 1
                                      ELSE Observed!Windows(i)
         /\ i >= W - 1 /\ OnSlide =>
              W - 1 + (Observed!Windows(i + 1) - 1) * K = i
<1>1. W \in Nat \ {0} /\ K \in Nat \ {0}
  BY WAssumption, ParametersAssumption
<1>2. /\ Observed!Windows(i) = WindowsDue(i, W, K)
      /\ Observed!Windows(i + 1) = WindowsDue(i + 1, W, K)
  BY Zenon DEF Observed!Windows, WindowsDue
<1>3. QED
  BY <1>1, <1>2, WindowCount DEF OnSlide

----------------------------------------------------------------------------
(* Each stage preserves the output invariant.                              *)

\* A tuple that arrives later changes no list of older ones.
LEMMA NewestStay ==
  ASSUME NEW list, NEW n \in Nat, NEW last \in Int, last + 1 <= Len(stream), n <= last + 1,
         TypeOK, NEW new \in Tuple, stream' = Append(stream, new),
         HoldsNewest(list, n, last)
  PROVE  /\ list \in Seq(Tuple)
         /\ Len(list) = n
         /\ \A q \in 1..n : list[q] = Arrived(stream', last + 1 - q)
<1>1. stream \in Seq(Tuple) /\ Len(stream) \in Nat
  BY DEF TypeOK
<1>2. ASSUME NEW q \in 1..n
      PROVE  Arrived(stream', last + 1 - q) = Arrived(stream, last + 1 - q)
  <2>1. last + 1 - q + 1 \in 1..Len(stream)
    BY <1>1
  <2>2. QED
    BY <1>1, <2>1, AppendProperties DEF Arrived
<1>3. QED
  BY <1>2 DEF HoldsNewest

\* The deque is as long as the window, but for the first tuples of the stream.
LEMMA FilledIsNat ==
  ASSUME TypeOK
  PROVE  Filled \in Nat /\ Filled <= Len(stream) /\ Filled <= W
BY WAssumption DEF TypeOK, Filled

\* generate_tuple puts the new tuple in front of the deque.
LEMMA GenerateTupleShown == OInv /\ GenerateTuple => WindowShown' /\ PrintedShown'
<1> SUFFICES ASSUME OInv, GenerateTuple
             PROVE  WindowShown' /\ PrintedShown'
  OBVIOUS
<1> USE WAssumption, ParametersAssumption
<1>1. PICK new \in Tuple : /\ stream' = Append(stream, new)
                           /\ window' = IF Verbose THEN <<new>> \o window ELSE window
  BY DEF GenerateTuple
<1>2. /\ stream \in Seq(Tuple) /\ Len(stream) = i /\ i \in Nat
      /\ i' = i /\ printed' = printed /\ phase = "generate_tuple" /\ phase' = "check_skyline"
  BY DEF GenerateTuple, OInv, TypeOK
<1>3. Len(stream') = i + 1 /\ Arrived(stream', i) = new
  BY <1>1, <1>2, AppendProperties DEF Arrived
<1>4. Filled \in Nat /\ Filled <= i /\ Filled' = Filled + 1
  BY <1>2 DEF Filled
<1>5. ASSUME Verbose
      PROVE  WindowShown'
  <2>1. HoldsNewest(window, Filled, i - 1)
    BY <1>2, <1>5 DEF OInv, WindowShown
  <2> DEFINE last == i - 1
  <2>2. last \in Int /\ last + 1 <= Len(stream) /\ Filled <= last + 1 /\ TypeOK
    BY <1>2, <1>4 DEF OInv
  <2>3. HoldsNewest(window, Filled, last)
    BY <2>1
  <2> HIDE DEF last
  <2>4. /\ window \in Seq(Tuple) /\ Len(window) = Filled
         /\ \A q \in 1..Filled : window[q] = Arrived(stream', last + 1 - q)
    BY <1>1, <1>4, <2>2, <2>3, NewestStay
  <2>5. /\ window \in Seq(Tuple) /\ Len(window) = Filled
        /\ \A q \in 1..Filled : window[q] = Arrived(stream', i - 1 + 1 - q)
    BY <2>4 DEF last
  <2>6. /\ <<new>> \in Seq(Tuple) /\ Len(<<new>>) = 1 /\ <<new>>[1] = new
    OBVIOUS
  <2>7. /\ window' \in Seq(Tuple) /\ Len(window') = Filled + 1
        /\ \A q \in 1..(1 + Filled) : window'[q] = IF q <= 1 THEN <<new>>[q] ELSE window[q - 1]
    BY <1>1, <1>4, <1>5, <2>5, <2>6, ConcatProperties
  <2>8. ASSUME NEW q \in 1..(Filled + 1)
        PROVE  window'[q] = Arrived(stream', i + 1 - q)
    <3>1. CASE q = 1
      BY <1>2, <1>3, <1>4, <2>6, <2>7, <3>1
    <3>2. CASE q > 1
      <4>1. q - 1 \in 1..Filled /\ i - 1 + 1 - (q - 1) = i + 1 - q
        BY <1>2, <1>4, <3>2
      <4>2. QED
        BY <1>4, <2>5, <2>7, <3>2, <4>1
    <3>3. QED
      BY <1>4, <3>1, <3>2
  <2>9. ASSUME NEW q \in 1..Filled'
        PROVE  window'[q] = Arrived(stream', Len(stream') - 1 + 1 - q)
    <3>1. Len(stream') - 1 + 1 - q = i + 1 - q /\ q \in 1..(Filled + 1)
      BY <1>2, <1>3, <1>4
    <3>2. QED
      BY <2>8, <3>1
  <2>10. QED
    BY <1>4, <2>7, <2>9 DEF WindowShown, HoldsNewest
<1>6. ASSUME NEW p \in 1..Len(printed)
      PROVE  /\ LastOf(p) \in (W - 1)..(i - 1)
             /\ HoldsNewest(printed[p].window, W, LastOf(p))'
  <2>1. LastOf(p) \in (W - 1)..(i - 1) /\ HoldsNewest(printed[p].window, W, LastOf(p))
    BY DEF OInv, PrintedShown
  <2> HIDE DEF LastOf
  <2>2. LastOf(p) + 1 <= Len(stream) /\ W <= LastOf(p) + 1 /\ LastOf(p) \in Int /\ W \in Nat
    BY <1>2, <2>1
  <2>3. /\ printed[p].window \in Seq(Tuple) /\ Len(printed[p].window) = W
        /\ \A q \in 1..W : printed[p].window[q] = Arrived(stream', LastOf(p) + 1 - q)
    BY <1>1, <2>1, <2>2, NewestStay DEF OInv
  <2>4. LastOf(p)' = LastOf(p)
    BY DEF LastOf
  <2>5. QED
    BY <1>2, <2>1, <2>3, <2>4 DEF HoldsNewest
<1>7. PrintedShown'
  BY <1>2, <1>6 DEF OInv, PrintedShown, Observed!Windows, LastOf
<1>8. QED
  BY <1>5, <1>7 DEF WindowShown

\* The stages in between change neither the deque nor what has been printed.
LEMMA ScansShowNothing ==
  OInv /\ (CheckSkyline \/ CheckRest \/ PushNode) => WindowShown' /\ PrintedShown'
<1> SUFFICES ASSUME OInv, CheckSkyline \/ CheckRest \/ PushNode
             PROVE  WindowShown' /\ PrintedShown'
  OBVIOUS
<1>1. /\ stream' = stream /\ i' = i /\ window' = window /\ printed' = printed
      /\ phase # "generate_tuple" /\ phase' # "generate_tuple"
  BY DEF CheckSkyline, CheckRest, PushNode
<1>2. Filled' = Filled
  BY <1>1 DEF Filled
<1>3. QED
  BY <1>1, <1>2
     DEF OInv, WindowShown, PrintedShown, HoldsNewest, LastOf, Arrived, Observed!Windows

\* When the lists are printed, a complete window is in the deque.
LEMMA WindowToPrint ==
  ASSUME OInv, phase = "print_lists", WindowComplete
  PROVE  HoldsNewest(window, W, i)
BY WAssumption DEF OInv, TypeOK, WindowComplete, WindowShown, Filled, HoldsNewest

\* print_lists drops the oldest tuple of a complete window.
LEMMA PrintListsWindow == OInv /\ PrintLists => WindowShown'
<1> SUFFICES ASSUME OInv, PrintLists, Verbose
             PROVE  WindowShown'
  BY DEF WindowShown
<1> USE WAssumption, ParametersAssumption
<1>1. /\ Len(stream) = i + 1 /\ i \in Nat /\ i' = i + 1 /\ stream' = stream
      /\ phase = "print_lists" /\ phase' = "generate_tuple"
      /\ window' = IF i >= W - 1 THEN SubSeq(window, 1, Len(window) - 1) ELSE window
  BY DEF PrintLists, WindowComplete, OInv, TypeOK
<1>2. /\ window \in Seq(Tuple) /\ Len(window) = Filled
      /\ \A q \in 1..Filled : window[q] = Arrived(stream, i + 1 - q)
  BY <1>1 DEF OInv, WindowShown, HoldsNewest
<1>3. CASE i >= W - 1
  <2> DEFINE n == W - 1
  <2>1. Filled = n + 1 /\ Filled' = n /\ n \in Nat
    BY <1>1, <1>3 DEF Filled
  <2>2. window' = SubSeq(window, 1, n)
    BY <1>1, <1>2, <1>3, <2>1
  <2> HIDE DEF n
  <2>3. \A q \in 1..n : window[q] \in Tuple
    BY <1>2, <2>1
  <2>4. /\ window' \in Seq(Tuple) /\ Len(window') = n
        /\ \A q \in 1..n : window'[q] = window[q]
    BY <2>1, <2>2, <2>3, SubSeqProperties
  <2>5. ASSUME NEW q \in 1..n
        PROVE  window'[q] = Arrived(stream', Len(stream') - 1 + 1 - q)
    <3>1. Len(stream') - 1 + 1 - q = i + 1 - q /\ q \in 1..Filled
      BY <1>1, <2>1
    <3>2. QED
      BY <1>1, <1>2, <2>4, <3>1
  <2>6. QED
    BY <2>1, <2>4, <2>5 DEF WindowShown, HoldsNewest
<1>4. CASE i < W - 1
  <2>1. Filled' = Filled
    BY <1>1, <1>4 DEF Filled
  <2>2. QED
    BY <1>1, <1>2, <1>4, <2>1 DEF WindowShown, HoldsNewest
<1>5. QED
  BY <1>1, <1>3, <1>4

\* print_lists prints the next window that is due, if one is.
LEMMA PrintListsPrinted == OInv /\ PrintLists => PrintedShown'
<1> SUFFICES ASSUME OInv, PrintLists
             PROVE  PrintedShown'
  OBVIOUS
<1> USE WAssumption, ParametersAssumption
<1>1. /\ Len(stream) = i + 1 /\ i \in Nat /\ i' = i + 1 /\ stream' = stream
      /\ phase = "print_lists"
      /\ printed \in Seq(Printout) /\ Len(printed) \in Nat
  BY DEF PrintLists, OInv, TypeOK, PrintedShown
<1>2. \A p \in 1..Len(printed) :
        /\ LastOf(p) \in (W - 1)..(i - 1)
        /\ HoldsNewest(printed[p].window, W, LastOf(p))
  BY DEF OInv, PrintedShown
<1>3. Len(printed) = IF Verbose THEN Observed!Windows(i) ELSE 0
  BY DEF OInv, PrintedShown
<1>4. (\A p \in Nat : LastOf(p)' = LastOf(p)) /\ Observed!Windows(i)' = Observed!Windows(i + 1)
  BY <1>1 DEF LastOf, Observed!Windows
<1> DEFINE printout == [window |-> window, sky |-> DB_sky, rest |-> DB_rest]
<1>5. CASE WindowComplete /\ OnSlide
  <2>1. HoldsNewest(window, W, i)
    BY <1>1, <1>5, WindowToPrint
  <2>2. printout \in Printout /\ printout.window = window
    BY <2>1 DEF HoldsNewest, Printout, OInv, TypeOK
  <2>3. printed' = Append(printed, printout)
    BY <1>5 DEF PrintLists
  <2> HIDE DEF printout
  <2>4. /\ printed' \in Seq(Printout) /\ Len(printed') = Len(printed) + 1
        /\ \A p \in 1..Len(printed) : printed'[p] = printed[p]
        /\ printed'[Len(printed) + 1] = printout
    BY <1>1, <2>2, <2>3, AppendProperties
  <2>5. /\ Observed!Windows(i + 1) = Len(printed) + 1
        /\ LastOf(Len(printed) + 1) = i
    BY <1>1, <1>3, <1>5, NextWindow DEF WindowComplete, LastOf
  <2>6. ASSUME NEW p \in 1..Len(printed')
        PROVE  /\ LastOf(p) \in (W - 1)..i
               /\ HoldsNewest(printed'[p].window, W, LastOf(p))
    <3>1. CASE p = Len(printed) + 1
      BY <1>1, <1>5, <2>1, <2>2, <2>4, <2>5, <3>1 DEF WindowComplete
    <3>2. CASE p \in 1..Len(printed)
      BY <1>1, <1>2, <2>4, <3>2
    <3>3. QED
      BY <1>1, <2>4, <3>1, <3>2
  <2>7. QED
    BY <1>1, <1>4, <1>5, <2>4, <2>5, <2>6 DEF PrintedShown, HoldsNewest, WindowComplete
<1>6. CASE ~(WindowComplete /\ OnSlide)
  <2>1. printed' = printed
    BY <1>6 DEF PrintLists
  <2>2. Verbose => Observed!Windows(i + 1) = Observed!Windows(i)
    BY <1>1, <1>6, NextWindow DEF WindowComplete
  <2>3. QED
    BY <1>1, <1>2, <1>3, <1>4, <2>1, <2>2 DEF PrintedShown, HoldsNewest
<1>7. QED
  BY <1>5, <1>6

----------------------------------------------------------------------------
(* The theorems.                                                           *)

\* At the start the deque is empty and nothing has been printed.
LEMMA InitiallyShown == Init => OInv
<1> SUFFICES ASSUME Init
             PROVE  OInv
  OBVIOUS
<1> USE WAssumption, ParametersAssumption
<1>1. TypeOK
  BY DEF Init, TypeOK, Phases
<1>2. Filled = 0 /\ Len(stream) - 1 = -1 /\ Observed!Windows(i) = 0
  BY DEF Init, Filled, Observed!Windows
<1>3. WindowShown
  BY <1>2 DEF Init, WindowShown, HoldsNewest
<1>4. PrintedShown
  BY <1>2 DEF Init, PrintedShown
<1>5. QED
  BY <1>1, <1>3, <1>4 DEF OInv

\* Every step of the program preserves the output invariant.
LEMMA ShownStep == OInv /\ [Next]_vars => OInv'
<1>1. OInv /\ UNCHANGED vars => WindowShown' /\ PrintedShown'
  BY DEF vars, OInv, WindowShown, PrintedShown, HoldsNewest, Filled, LastOf, Arrived,
         Observed!Windows
<1>2. QED
  BY <1>1, TypeStep, GenerateTupleShown, ScansShowNothing, PrintListsWindow, PrintListsPrinted
     DEF OInv, Next

\* The deque and what has been printed, at every point of the loop.
THEOREM OutputInvariance == Spec => []OInv
BY InitiallyShown, ShownStep, PTL DEF Spec

\* The printed windows are the windows of the stream, K tuples apart.
THEOREM WindowsAreRight == Spec => []WindowsSlide
<1>1. OInv => WindowsSlide
  <2> SUFFICES ASSUME OInv, NEW p \in 1..Len(printed)
               PROVE  printed[p].window = [q \in 1..W |-> Arrived(stream, LastOf(p) + 1 - q)]
    BY DEF WindowsSlide, LastOf
  <2>1. HoldsNewest(printed[p].window, W, LastOf(p))
    BY DEF OInv, PrintedShown
  <2>2. printed[p].window \in [1..W -> Tuple]
    BY <2>1, LenProperties DEF HoldsNewest
  <2>3. QED
    BY <2>1, <2>2 DEF HoldsNewest
<1>2. QED
  BY <1>1, OutputInvariance, PTL

----------------------------------------------------------------------------
(* The refinement.                                                         *)

\* What an observer sees of the printed lists.
Emitted == [p \in 1..Len(printed) |-> Tuples(printed[p].sky)]

\* One set of tuples is seen for each window printed.
EmittedEach ==
  /\ Emitted \in Seq(SUBSET Tuple)
  /\ Len(Emitted) = Len(printed)
  /\ \A p \in 1..Len(printed) : Emitted[p] = Tuples(printed[p].sky)

LEMMA EmittedIsSeq == OInv => EmittedEach
<1> SUFFICES ASSUME OInv
             PROVE  EmittedEach
  OBVIOUS
<1>1. printed \in Seq(Printout) /\ Len(printed) \in Nat
  BY DEF OInv, PrintedShown
<1>2. ASSUME NEW p \in 1..Len(printed)
      PROVE  Tuples(printed[p].sky) \in SUBSET Tuple
  <2>1. printed[p] \in Printout
    BY <1>1
  <2>2. printed[p].sky \subseteq Node
    BY <2>1 DEF Printout
  <2>3. QED
    BY <2>2 DEF Tuples, Node
<1>3. Emitted \in [1..Len(printed) -> SUBSET Tuple]
  BY <1>2 DEF Emitted
<1>4. QED
  BY <1>1, <1>3, SeqDef, LenProperties DEF EmittedEach, Emitted

LEMMA EmittedIsSeqNext == OInv' => EmittedEach'
BY EmittedIsSeq, PTL

\* The abstract specification speaks of the same tuples and windows.
LEMMA SameWindows ==
  /\ Observed!Tuple = Tuple
  /\ \A n : Observed!WindowTuples(stream, n) = WindowTuples(stream, n)
  /\ \A n : Observed!SkylineTuples(stream, n) = SkylineTuples(stream, n)
BY Zenon
   DEF Observed!Tuple, Tuple, Observed!WindowTuples, WindowTuples, Observed!SkylineTuples,
       SkylineTuples, Observed!SkylineNumbers, SkylineNumbers, Observed!Live, Live,
       Observed!Arrived, Arrived, Observed!StrictlyDominates, StrictlyDominates,
       Observed!Dominate, Dominate

\* A window is due between the step that completes it and the end of the loop body.
LEMMA DueIff ==
  ASSUME OInv, Verbose
  PROVE  Observed!Due <=> Observed!Windows(i) < Observed!Windows(Len(stream))
BY EmittedIsSeq DEF EmittedEach, Observed!Due, Emitted, OInv, PrintedShown

\* generate_tuple takes in a tuple, and no window is due.
LEMMA ReceiveStep == Verbose /\ IInv /\ OInv /\ GenerateTuple => Observed!Receive
<1> SUFFICES ASSUME Verbose, IInv, OInv, GenerateTuple
             PROVE  Observed!Receive
  OBVIOUS
<1>1. i \in Nat /\ Len(stream) = i /\ i < N /\ printed' = printed
  BY DEF GenerateTuple, MoreTuples, OInv, TypeOK
<1>2. ~Observed!Due
  BY <1>1, DueIff, NextWindow
<1>3. QED
  BY <1>1, <1>2, SameWindows DEF GenerateTuple, Observed!Receive

\* print_lists emits the skyline list of a window that is due.
LEMMA EmitStep ==
  Verbose /\ IInv /\ OInv /\ OInv' /\ PrintLists /\ WindowComplete /\ OnSlide => Observed!Emit
<1> SUFFICES ASSUME Verbose, IInv, OInv, OInv', PrintLists, WindowComplete, OnSlide
             PROVE  Observed!Emit
  OBVIOUS
<1>1. i \in Nat /\ Len(stream) = i + 1 /\ stream' = stream /\ phase = "print_lists"
  BY DEF PrintLists, OInv, TypeOK
<1>2. Observed!Due
  BY <1>1, DueIff, NextWindow DEF WindowComplete
<1>3. Tuples(DB_sky) \in SUBSET WindowTuples(stream, Len(stream) - 1)
  BY <1>1, StoredIsLive DEF Tuples, Stored, WindowTuples
<1>4. SkylineTuples(stream, Len(stream) - 1) \subseteq Tuples(DB_sky)
  BY <1>1, InvariantComplete DEF SkylineComplete
<1>5. Emitted' = Append(Emitted, Tuples(DB_sky))
  <2> DEFINE printout == [window |-> window, sky |-> DB_sky, rest |-> DB_rest]
  <2>1. printed \in Seq(Printout) /\ printed' = Append(printed, printout)
    BY DEF PrintLists, OInv, PrintedShown
  <2>2. printout \in Printout
    BY <1>1, WindowToPrint DEF Printout, HoldsNewest, OInv, TypeOK
  <2>3. printout.sky = DB_sky
    OBVIOUS
  <2> HIDE DEF printout
  <2>4. /\ Len(printed') = Len(printed) + 1
        /\ \A p \in 1..Len(printed) : printed'[p] = printed[p]
        /\ printed'[Len(printed) + 1] = printout
    BY <2>1, <2>2, AppendProperties
  <2>5. /\ Emitted' \in Seq(SUBSET Tuple) /\ Len(Emitted') = Len(printed')
        /\ \A p \in 1..Len(printed') : Emitted'[p] = Tuples(printed'[p].sky)
    BY EmittedIsSeqNext DEF EmittedEach
  <2>6. Tuples(DB_sky) \in SUBSET Tuple
    BY DEF OInv, TypeOK, Tuples, Node
  <2> DEFINE more == Append(Emitted, Tuples(DB_sky))
  <2>7. /\ more \in Seq(SUBSET Tuple) /\ Len(more) = Len(printed) + 1
        /\ \A p \in 1..Len(printed) : more[p] = Tuples(printed[p].sky)
        /\ more[Len(printed) + 1] = Tuples(DB_sky)
    BY <2>6, EmittedIsSeq, AppendProperties DEF EmittedEach
  <2> HIDE DEF more
  <2>8. \A p \in 1..(Len(printed) + 1) : Emitted'[p] = more[p]
    BY <2>1, <2>3, <2>4, <2>5, <2>7
  <2>9. Emitted' = more
    BY <2>4, <2>5, <2>7, <2>8, SeqEqual
  <2>10. QED
    BY <2>9 DEF more
<1>6. QED
  BY <1>1, <1>2, <1>3, <1>4, <1>5, SameWindows DEF Observed!Emit, Observed!EmitBut, Emitted

\* With printing on, the program is an implementation of SkylineStream.
THEOREM Refinement == Verbose => (Spec => ImplementsSkylineStream)
<1> SUFFICES ASSUME Verbose
             PROVE  Spec => ImplementsSkylineStream
  OBVIOUS
<1>1. Init => Observed!Init
  BY DEF Init, Observed!Init
<1>2. IInv /\ OInv /\ OInv' /\ [Next]_vars => [Observed!Next]_<<stream, Emitted>>
  <2> SUFFICES ASSUME IInv, OInv, OInv', [Next]_vars
               PROVE  Observed!Next \/ UNCHANGED <<stream, Emitted>>
    BY Zenon
  <2>1. CASE GenerateTuple
    BY <2>1, ReceiveStep DEF Observed!Next
  <2>2. CASE CheckSkyline \/ CheckRest \/ PushNode
    BY <2>2 DEF CheckSkyline, CheckRest, PushNode, Emitted
  <2>3. CASE PrintLists /\ WindowComplete /\ OnSlide
    BY <2>3, EmitStep DEF Observed!Next
  <2>4. CASE PrintLists /\ ~(WindowComplete /\ OnSlide)
    BY <2>4 DEF PrintLists, Emitted
  <2>5. CASE UNCHANGED vars
    BY <2>5 DEF vars, Emitted
  <2>6. QED
    BY <2>1, <2>2, <2>3, <2>4, <2>5 DEF Next
<1>3. QED
  BY <1>1, <1>2, Invariance, OutputInvariance, PTL
     DEF Spec, ImplementsSkylineStream, Observed!Spec, Emitted
============================================================================
