--------------------------- MODULE SkylineLemmas ---------------------------
(***************************************************************************)
(* Facts for all three programs: about the dominance test, which is a      *)
(* partial order on the tuples, about the quotients the programs count     *)
(* windows with, and about the numbers they are started with.              *)
(***************************************************************************)
EXTENDS Skyline, TLAPS

\* Components are integers.
LEMMA ComponentsAreIntegers ==
  ASSUME NEW a \in Tuple, NEW c \in 1..M
  PROVE  a[c] \in Int
BY ValuesAssumption DEF Tuple

\* dominate() is reflexive: it is true of equal tuples.
LEMMA DominateReflexive ==
  ASSUME NEW a \in Tuple
  PROVE  Dominate(a, a)
BY ComponentsAreIntegers DEF Dominate

\* dominate() is transitive.
LEMMA DominateTransitive ==
  ASSUME NEW a \in Tuple, NEW b \in Tuple, NEW d \in Tuple,
         Dominate(a, b), Dominate(b, d)
  PROVE  Dominate(a, d)
BY ComponentsAreIntegers DEF Dominate

\* Tuples that dominate each other are equal.
LEMMA DominateAntisymmetric ==
  ASSUME NEW a \in Tuple, NEW b \in Tuple, Dominate(a, b), Dominate(b, a)
  PROVE  a = b
<1>1. ASSUME NEW c \in 1..M PROVE a[c] = b[c]
  BY ComponentsAreIntegers DEF Dominate
<1>2. a = [c \in 1..M |-> a[c]] /\ b = [c \in 1..M |-> b[c]]
  BY DEF Tuple
<1>3. QED
  BY <1>1, <1>2

\* The dominance of README.md is dominate() without its converse.
LEMMA StrictlyDominatesIff ==
  ASSUME NEW a \in Tuple, NEW b \in Tuple
  PROVE  StrictlyDominates(a, b) <=> Dominate(a, b) /\ ~Dominate(b, a)
<1>1. ASSUME NEW c \in 1..M PROVE a[c] > b[c] <=> ~(b[c] >= a[c])
  BY ComponentsAreIntegers
<1>2. QED
  BY <1>1, Zenon DEF StrictlyDominates, Dominate

----------------------------------------------------------------------------
(* The window counts of the programs are quotients.                        *)

\* The integer quotient and remainder.
LEMMA DivMod ==
  ASSUME NEW a \in Nat, NEW k \in Nat \ {0}
  PROVE  /\ a \div k \in Nat
         /\ a % k \in 0..(k - 1)
         /\ a = k * (a \div k) + (a % k)
BY SMT

\* They are determined by that equation.
LEMMA QuotientUnique ==
  ASSUME NEW k \in Nat \ {0}, NEW q1 \in Int, NEW q2 \in Int, NEW r1 \in 0..(k - 1),
         NEW r2 \in 0..(k - 1), k * q1 + r1 = k * q2 + r2
  PROVE  q1 = q2
<1>1. CASE q1 < q2
  <2>1. q1 + 1 <= q2
    BY <1>1
  <2>2. k * (q1 + 1) <= k * q2
    BY <2>1, SMT
  <2>3. k * (q1 + 1) = k * q1 + k
    BY SMT
  <2>4. QED
    BY <2>2, <2>3, SMT
<1>2. CASE q2 < q1
  <2>1. q2 + 1 <= q1
    BY <1>2
  <2>2. k * (q2 + 1) <= k * q1
    BY <2>1, SMT
  <2>3. k * (q2 + 1) = k * q2 + k
    BY SMT
  <2>4. QED
    BY <2>2, <2>3, SMT
<1>3. QED
  BY <1>1, <1>2

\* The quotient grows by one where the remainder comes back to zero.
LEMMA QuotientStep ==
  ASSUME NEW a \in Nat, NEW k \in Nat \ {0}
  PROVE  (a + 1) \div k = IF (a + 1) % k = 0 THEN a \div k + 1 ELSE a \div k
<1> DEFINE q == a \div k
           r == a % k
           s == (a + 1) \div k
           u == (a + 1) % k
<1>1. q \in Nat /\ r \in 0..(k - 1) /\ a = k * q + r
  BY DivMod
<1>2. s \in Nat /\ u \in 0..(k - 1) /\ a + 1 = k * s + u
  BY DivMod, a + 1 \in Nat
<1> HIDE DEF q, r, s, u
<1>3. CASE u = 0
  <2>1. k * s + (k - 1) = k * (q + 1) + r
    BY <1>1, <1>2, <1>3, k * (q + 1) = k * q + k, SMT
  <2>2. s = q + 1
    BY <1>1, <1>2, <2>1, k - 1 \in 0..(k - 1), QuotientUnique
  <2>3. QED
    BY <1>3, <2>2 DEF q, s, u
<1>4. CASE u # 0
  <2>1. k * s + (u - 1) = k * q + r /\ u - 1 \in 0..(k - 1)
    BY <1>1, <1>2, <1>4, SMT
  <2>2. s = q
    BY <1>1, <1>2, <2>1, QuotientUnique
  <2>3. QED
    BY <1>4, <2>2 DEF q, s, u
<1>5. QED
  BY <1>3, <1>4

\* The windows due once c tuples have been handled, when they are w tuples long and k
\* tuples apart.
WindowsDue(c, w, k) == IF c < w THEN 0 ELSE (c - w) \div k + 1

\* All three programs print just when that number grows, and the number of the window
\* tells where it ends.
LEMMA WindowCount ==
  ASSUME NEW c \in Nat, NEW w \in Nat \ {0}, NEW k \in Nat \ {0}
  PROVE  /\ WindowsDue(c, w, k) \in Nat
         /\ WindowsDue(c + 1, w, k) = IF c >= w - 1 /\ (c + 1 - w) % k = 0
                                     THEN WindowsDue(c, w, k) + 1
                                     ELSE WindowsDue(c, w, k)
         /\ c >= w - 1 /\ (c + 1 - w) % k = 0 =>
              w - 1 + (WindowsDue(c + 1, w, k) - 1) * k = c
<1>1. CASE c < w - 1
  BY <1>1 DEF WindowsDue
<1>2. CASE c = w - 1
  <2>1. 0 % k = 0 /\ 0 \div k = 0
    <3>1. 0 \div k \in Nat /\ 0 % k \in 0..(k - 1) /\ 0 = k * (0 \div k) + (0 % k)
      BY DivMod
    <3>2. k * 0 + 0 = k * (0 \div k) + (0 % k) /\ 0 \in 0..(k - 1)
      BY <3>1, SMT
    <3>3. 0 = 0 \div k
      BY <3>1, <3>2, QuotientUnique
    <3>4. QED
      BY <3>1, <3>3, SMT
  <2>2. c + 1 - w = 0
    BY <1>2
  <2>3. WindowsDue(c, w, k) = 0 /\ WindowsDue(c + 1, w, k) = 1
    BY <1>2, <2>1, <2>2 DEF WindowsDue
  <2>4. QED
    BY <1>2, <2>1, <2>2, <2>3
<1>3. CASE c >= w
  <2> DEFINE a == c - w
  <2>1. a \in Nat /\ a + 1 = c + 1 - w
    BY <1>3
  <2>2. (a + 1) \div k = IF (a + 1) % k = 0 THEN a \div k + 1 ELSE a \div k
    BY <2>1, QuotientStep
  <2>3. a \div k \in Nat
    BY <2>1, DivMod
  <2>4. a + 1 = k * ((a + 1) \div k) + ((a + 1) % k) /\ (a + 1) \div k \in Nat
    BY <2>1, a + 1 \in Nat, DivMod
  <2>5. WindowsDue(c, w, k) = a \div k + 1 /\ WindowsDue(c + 1, w, k) = (a + 1) \div k + 1
    BY <1>3, <2>1 DEF WindowsDue
  <2>6. (a + 1) % k = 0 => w - 1 + (WindowsDue(c + 1, w, k) - 1) * k = c
    <3>1. (a + 1) % k = 0 => a + 1 = k * ((a + 1) \div k)
      BY <2>1, <2>4
    <3>2. WindowsDue(c + 1, w, k) - 1 = (a + 1) \div k
      BY <2>4, <2>5
    <3>3. k * ((a + 1) \div k) = ((a + 1) \div k) * k
      BY <2>1, <2>4, SMT
    <3>4. QED
      BY <2>1, <3>1, <3>2, <3>3
  <2>7. QED
    BY <1>3, <2>1, <2>2, <2>3, <2>5, <2>6
<1>4. QED
  BY <1>1, <1>2, <1>3

----------------------------------------------------------------------------
(* What the programs start with is what their modules assume.              *)

Start == INSTANCE CheckParameters

\* What the sequential program accepts is what SequentialSkyline assumes of its
\* constants: the window is not empty, no longer than the stream, and the
\* sliding factor divides without being zero (print_window, print_lists).
THEOREM SequentialChecked ==
  ASSUME NEW arg \in Seq(Int), Start!SequentialAccepts(arg)
  PROVE  /\ Start!n(arg) \in Nat /\ Start!n(arg) >= Start!w(arg)
         /\ Start!k(arg) \in 1..Start!w(arg)
         /\ arg[6] \in {0, 1}
<1>1. /\ Len(arg) \in Nat /\ Len(arg) >= 6
      /\ \A i \in 1..(Len(arg) - 1) : arg[i] >= 1
      /\ \A i \in 1..Len(arg) : arg[i] \in Int
  BY DEF Start!SequentialAccepts, Start!Accepted
<1>2. arg[1] \in Int /\ arg[1] >= 1 /\ arg[3] \in Int /\ arg[4] \in Int /\ arg[4] >= 1
  BY <1>1
<1> QED
  BY <1>2 DEF Start!SequentialAccepts, Start!Accepted, Start!n, Start!w, Start!k

\* A seventh argument turns verbose = 0 into an error: the loop over the
\* numbers stops one before the last argument, not before verbose.
THEOREM OneMoreArgument ==
  ASSUME NEW arg \in Seq(Int), Start!SequentialAccepts(arg), Len(arg) > 6
  PROVE  arg[6] = 1
<1>1. /\ Len(arg) \in Nat /\ 6 \in 1..(Len(arg) - 1)
      /\ \A i \in 1..(Len(arg) - 1) : arg[i] >= 1
  BY DEF Start!SequentialAccepts, Start!Accepted
<1> QED
  BY <1>1 DEF Start!SequentialAccepts, Start!Accepted

\* What the two parallel programs accept is what their modules assume, but for
\* zeros: a sliding factor and numbers of workers that are not zero.
THEOREM WorkersChecked ==
  ASSUME NEW arg \in Seq(Int), Start!WorkersAccept(arg),
         Start!k(arg) # 0, Start!nw_sky(arg) # 0, Start!nw_rest(arg) # 0
  PROVE  /\ Start!n(arg) \in Nat /\ Start!n(arg) >= Start!w(arg)
         /\ Start!k(arg) \in 1..Start!w(arg)
         /\ Start!nw_sky(arg) \in Nat \ {0} /\ Start!nw_rest(arg) \in Nat \ {0}
         /\ arg[8] \in {0, 1}
<1>1. /\ Len(arg) \in Nat /\ Len(arg) >= 8
      /\ \A i \in 1..(Len(arg) - 1) : arg[i] >= 0
      /\ \A i \in 1..Len(arg) : arg[i] \in Int
  BY DEF Start!WorkersAccept, Start!Accepted
<1>2. \A i \in {1, 3, 4, 6, 7} : arg[i] \in Nat
  BY <1>1
<1> QED
  BY <1>2 DEF Start!WorkersAccept, Start!Accepted, Start!n, Start!w, Start!k, Start!nw_sky, Start!nw_rest

\* Nothing in the checks keeps the zeros out, although the message says
\* "Parameters must be all positive integers".
THEOREM ZerosAccepted ==
  ASSUME NEW arg \in Seq(Int), Start!WorkersAccept(arg)
  PROVE  Start!WorkersAccept([i \in 1..Len(arg) |-> 0])
<1>1. Len(arg) \in Nat /\ Len(arg) >= 8
  BY DEF Start!WorkersAccept, Start!Accepted
<1>2. PICK zeros : zeros = [i \in 1..Len(arg) |-> 0]
  OBVIOUS
<1>3. zeros \in Seq(Int) /\ Len(zeros) = Len(arg) /\ \A i \in 1..Len(arg) : zeros[i] = 0
  BY <1>1, <1>2
<1>4. \A i \in {1, 3, 4, 8} : zeros[i] = 0
  BY <1>1, <1>3
<1> QED
  BY <1>1, <1>2, <1>3, <1>4 DEF Start!WorkersAccept, Start!Accepted, Start!n, Start!w, Start!k
============================================================================
