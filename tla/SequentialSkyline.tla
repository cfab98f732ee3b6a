------------------------- MODULE SequentialSkyline -------------------------
(***************************************************************************)
(* The sequential program: the loop of sequential/main.cpp, one action per *)
(* stage F1..F5 of its body, with the list handlers of                     *)
(* sequential/stages.cpp.                                                  *)
(*                                                                         *)
(* A linked list is the set of its nodes: their expiry times are distinct, *)
(* and neither handler's effect depends on the order it visits them in.    *)
(***************************************************************************)
EXTENDS Skyline

CONSTANTS
  N,        \* stream length, the parameter n
  K,        \* sliding factor, the parameter k
  Verbose   \* whether windows and lists are printed

\* What check_parameters of sequential/stages.cpp lets through.
ASSUME ParametersAssumption ==
  /\ N \in Nat /\ N >= W
  /\ K \in 1..W
  /\ Verbose \in BOOLEAN

VARIABLES
  i,         \* the loop counter of main
  phase,     \* the stage main is about to run, or "crashed"
  stream,    \* history: every tuple generate_tuple returned
  insert,    \* when the new tuple may enter the skyline
  sky,       \* whether the new tuple enters the skyline at once
  DB_sky,    \* the skyline list
  DB_rest,   \* the tuples that may still enter it
  window,    \* the deque of the tuples to print, the newest in front
  printed    \* history: what print_lists wrote

vars == <<i, phase, stream, insert, sky, DB_sky, DB_rest, window, printed>>

t == stream[Len(stream)]          \* the tuple being handled

MoreTuplesOffByOne == i <= N
MoreTuples == i < N

Init ==
  /\ i = 0
  /\ phase = "generate_tuple"
  /\ stream = <<>>
  /\ insert = 0
  /\ sky = TRUE
  /\ DB_sky = {}
  /\ DB_rest = {}
  /\ window = <<>>
  /\ printed = <<>>

(* F1. *)
GenerateTuple ==
  /\ phase = "generate_tuple"
  /\ MoreTuples
  /\ phase' = "check_skyline"
  /\ \E new \in Tuple :
       /\ stream' = Append(stream, new)
       /\ window' = IF Verbose THEN <<new>> \o window ELSE window
  /\ insert' = 0
  /\ UNCHANGED <<i, sky, DB_sky, DB_rest, printed>>

KeptPastExpiry(nodes) == {x \in nodes : x.expire >= i /\ ~Dominate(t, x.tuple)}

\* The nodes a scan keeps: still in the window, not dominated by the new tuple.
Kept(nodes) == {x \in nodes : x.expire > i /\ ~Dominate(t, x.tuple)}

\* The expiry times of the nodes among them that dominate the new tuple.
Blockers(nodes) == {x.expire : x \in {y \in nodes : Dominate(y.tuple, t)}}

(* F2. *)
CheckSkyline ==
  /\ phase = "check_skyline"
  /\ phase' = "check_rest"
  /\ DB_sky' = Kept(DB_sky)
  /\ sky' = (Blockers(DB_sky') = {})
  /\ insert' \in Greatest({insert} \cup Blockers(DB_sky'))
  /\ UNCHANGED <<i, stream, DB_rest, window, printed>>

PromotedLate(nodes) == {x \in nodes : x.insert < i}
PromotedEarly(nodes) == {x \in nodes : x.insert <= i + 1}

\* The rest nodes whose last known dominator has left the window.
Promoted(nodes) == {x \in nodes : x.insert <= i}

(* F3. check_rest is declared bool and returns no value: what happens at its *)
(* end is undefined, and depends on the compiler. Either it returns, or the  *)
(* compiled loop has lost its exit test and dereferences the final NULL.     *)
CheckRest ==
  /\ phase = "check_rest"
  /\ phase' \in {"push_node", "crashed"}
  /\ insert' \in Greatest({insert} \cup Blockers(Kept(DB_rest)))
  /\ DB_rest' = Kept(DB_rest) \ Promoted(Kept(DB_rest))
  /\ DB_sky' = DB_sky \cup {MkNode(x.tuple, x.expire, 0) : x \in Promoted(Kept(DB_rest))}
  /\ UNCHANGED <<i, stream, sky, window, printed>>

(* F4. *)
PushNode ==
  /\ phase = "push_node"
  /\ phase' = "print_lists"
  /\ \/ /\ sky
        /\ DB_sky' = DB_sky \cup {MkNode(t, i + W, 0)}
        /\ UNCHANGED DB_rest
     \/ /\ ~sky
        /\ DB_rest' = DB_rest \cup {MkNode(t, i + W, insert)}
        /\ UNCHANGED DB_sky
  /\ UNCHANGED <<i, stream, insert, sky, window, printed>>

OnSlideOffByOne == (i - W) % K = 0
WindowCompleteOffByOne == i >= W /\ Verbose
WindowComplete == i >= W - 1 /\ Verbose
OnSlide == (i + 1 - W) % K = 0

(* F5, and the end of the loop body. *)
PrintLists ==
  /\ phase = "print_lists"
  /\ phase' = "generate_tuple"
  /\ i' = i + 1
  /\ printed' = IF WindowComplete /\ OnSlide
                THEN Append(printed, [window |-> window, sky |-> DB_sky, rest |-> DB_rest])
                ELSE printed
  /\ window' = IF WindowComplete THEN SubSeq(window, 1, Len(window) - 1) ELSE window
  /\ UNCHANGED <<stream, insert, sky, DB_sky, DB_rest>>

Next ==
  \/ GenerateTuple
  \/ CheckSkyline
  \/ CheckRest
  \/ PushNode
  \/ PrintLists

Spec == Init /\ [][Next]_vars /\ WF_vars(Next)
----------------------------------------------------------------------------
(* Properties.                                                             *)

Phases == {"generate_tuple", "check_skyline", "check_rest", "push_node",
           "print_lists", "crashed"}

\* The type invariant.
TypeOK ==
  /\ i \in 0..N
  /\ phase \in Phases
  /\ stream \in Seq(Tuple)
  /\ Len(stream) = IF phase = "generate_tuple" THEN i ELSE i + 1
  /\ phase # "generate_tuple" => i < N
  /\ insert \in Nat
  /\ sky \in BOOLEAN
  /\ DB_sky \subseteq Node
  /\ DB_rest \subseteq Node

\* A stored node is the tuple it was created for, and that tuple is still in
\* the window when the lists are printed.
NumberOf(x) == x.expire - W

Stored == DB_sky \cup DB_rest

\* The lists between two iterations hold exactly the tuples of the window that
\* no later tuple dominates: no scan loses one (a wrong unlink in delete_node,
\* an early expiry), keeps one too long, or stores one twice.
StoresTheCandidates ==
  phase = "print_lists" =>
    /\ {NumberOf(x) : x \in Stored} =
         {j \in Live(stream, i) : \A l \in Live(stream, i) :
             l > j => ~Dominate(Arrived(stream, l), Arrived(stream, j))}
    /\ \A x \in Stored : x.tuple = Arrived(stream, NumberOf(x))
    /\ \A x, y \in Stored : x.expire = y.expire => x = y
    /\ DB_sky \cap DB_rest = {}

\* No tuple of the skyline README.md defines is missing from the skyline list
\* when it is printed: the rest list never holds one back.
SkylineComplete ==
  phase = "print_lists" => SkylineTuples(stream, i) \subseteq Tuples(DB_sky)

\* A tuple in the rest list waits for the last of its dominators: whatever
\* older tuple of the window is better leaves the window no later than insert.
RestWaits ==
  \A x \in DB_rest : \A j \in Live(stream, i) :
    StrictlyDominates(Arrived(stream, j), x.tuple) /\ j < NumberOf(x)
      => j + W <= x.insert

\* Moving a node from the rest list to the skyline list, as check_rest does
\* when insert is reached, never puts a dominated tuple in the skyline.
PromotionSound ==
  [][\A x \in DB_rest : MkNode(x.tuple, x.expire, 0) \in DB_sky' =>
       \A j \in Live(stream, i) :
         ~StrictlyDominates(Arrived(stream, j), x.tuple)]_vars

\* What is printed as the window is the window: its W newest tuples, the
\* newest first, and two consecutive ones share all but K of them.
WindowsSlide ==
  \A p \in 1..Len(printed) :
    LET last == W - 1 + (p - 1) * K IN
    printed[p].window = [q \in 1..W |-> Arrived(stream, last + 1 - q)]

\* Refinement: print_lists emits, at every K-th complete window and before the
\* next tuple is taken in, a set between the skyline of the window and the
\* window itself.
Observed == INSTANCE SkylineStream
              WITH output <- [p \in 1..Len(printed) |-> Tuples(printed[p].sky)]

ImplementsSkylineStream == Observed!Spec

----------------------------------------------------------------------------
(* What the documentation says, and the code does not do.                  *)

\* README.md: the skyline is "the set of tuples that are not dominated by any
\* other tuple": no tuple of the printed skyline is strictly dominated.
SkylineSound ==
  phase = "print_lists" /\ WindowComplete /\ OnSlide =>
    Tuples(DB_sky) \subseteq SkylineTuples(stream, i)

----------------------------------------------------------------------------
(* The inductive invariant.                                                *)

\* Which lists have already been scanned for the tuple numbered i.
SkyScanned == phase \in {"check_rest", "push_node", "print_lists", "crashed"}
RestScanned == phase \in {"push_node", "print_lists", "crashed"}

\* Every stored node is the node of the tuple it is numbered after.
Genuine ==
  \A x \in Stored :
    /\ NumberOf(x) \in 0..(Len(stream) - 1)
    /\ x.tuple = Arrived(stream, NumberOf(x))
    /\ phase # "print_lists" => NumberOf(x) < i

\* No tuple is stored twice.
Distinct ==
  /\ \A x, y \in Stored : x.expire = y.expire => x = y
  /\ DB_sky \cap DB_rest = {}

\* The tuple at hand, seen as a node, until push_node stores it.
Pending ==
  IF phase \in {"check_skyline", "check_rest", "push_node", "crashed"}
  THEN {MkNode(t, i + W, 0)}
  ELSE {}

\* Every tuple of the window is represented by a node that dominates it and
\* leaves the window no earlier: this survives the removal of the tuple itself.
Covered ==
  \A j \in Live(stream, i) : \E x \in Stored \cup Pending :
    x.expire >= j + W /\ Dominate(x.tuple, Arrived(stream, j))

\* No stored node is dominated by a tuple that was handled after it.
NotSuperseded ==
  \A x \in Stored : \A j \in 0..(i - 1) :
    NumberOf(x) < j => ~Dominate(Arrived(stream, j), x.tuple)

\* What a scan leaves behind is in the window and not dominated by the tuple
\* at hand, which may itself have been stored since.
Survives(x) == x.expire > i /\ (NumberOf(x) < i => ~Dominate(t, x.tuple))

Scanned ==
  /\ SkyScanned => \A x \in DB_sky : Survives(x)
  /\ RestScanned => \A x \in DB_rest : Survives(x) /\ x.insert > i

\* Whoever is told to wait until e waits for a better tuple, the one whose
\* expiry time is e.
Justified(tuple, e) ==
  /\ e - W \in 0..(Len(stream) - 1)
  /\ StrictlyDominates(Arrived(stream, e - W), tuple)

RestJustified == \A x \in DB_rest : Justified(x.tuple, x.insert)

\* The same of the tuple at hand, while its insert is being computed.
InsertJustified ==
  /\ phase = "check_skyline" => insert = 0
  /\ phase = "check_rest" =>
       \A x \in DB_sky : Dominate(x.tuple, t) => x.expire <= insert
  /\ SkyScanned /\ phase # "print_lists" /\ ~sky => insert > i /\ Justified(t, insert)
  /\ phase = "push_node" =>
       \A j \in Live(stream, i) :
         StrictlyDominates(Arrived(stream, j), t) => j + W <= insert

IInv ==
  /\ TypeOK
  /\ Genuine
  /\ Distinct
  /\ Covered
  /\ NotSuperseded
  /\ Scanned
  /\ RestJustified
  /\ InsertJustified
  /\ RestWaits

----------------------------------------------------------------------------
(* The output invariant.                                                   *)

\* What print_lists writes: the window and the two lists.
Printout == [window : Seq(Tuple), sky : SUBSET Node, rest : SUBSET Node]

\* list holds the n newest tuples up to tuple number last, the newest first.
HoldsNewest(list, n, last) ==
  /\ list \in Seq(Tuple)
  /\ Len(list) = n
  /\ \A q \in 1..n : list[q] = Arrived(stream, last + 1 - q)

\* The number of tuples in the deque: it is emptied to W - 1 after printing.
Filled ==
  IF phase = "generate_tuple"
  THEN IF i < W - 1 THEN i ELSE W - 1
  ELSE IF i + 1 < W THEN i + 1 ELSE W

\* The number of the tuple the p-th printed window ends with.
LastOf(p) == W - 1 + (p - 1) * K

WindowShown == Verbose => HoldsNewest(window, Filled, Len(stream) - 1)

PrintedShown ==
  /\ printed \in Seq(Printout)
  /\ Len(printed) = IF Verbose THEN Observed!Windows(i) ELSE 0
  /\ \A p \in 1..Len(printed) :
       /\ LastOf(p) \in (W - 1)..(i - 1)
       /\ HoldsNewest(printed[p].window, W, LastOf(p))

\* The deque and what has been printed, at every point of the loop.
OInv == TypeOK /\ WindowShown /\ PrintedShown
============================================================================
