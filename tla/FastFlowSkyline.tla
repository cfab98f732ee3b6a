-------------------------- MODULE FastFlowSkyline --------------------------
(***************************************************************************)
(* The program of fastflow/: one loop, whose scans of the skyline lists    *)
(* and of the rest lists are the bodies of a parallel_for. parallel_for    *)
(* hands iteration j to worker thread j and returns when all have ended.   *)
(*                                                                         *)
(* Two kinds of memory are shared within a parallel_for and not locked:    *)
(* sky_arr, a vector<bool>, packs the flags of all workers into one word;  *)
(* and every rest worker may push on every skyline list. Both are a read   *)
(* of the old contents followed by a write, and another worker may write   *)
(* in between.                                                             *)
(*                                                                         *)
(* A list is a sequence here, its head first: insert_sky[j] and            *)
(* insert_rest[j] are left by the last node that sets them.                *)
(***************************************************************************)
EXTENDS Skyline, FiniteSets, Functions

CONSTANTS
  N,        \* stream length
  K,        \* sliding factor
  NW_sky,   \* number of skyline lists and workers
  NW_rest,  \* number of rest lists and workers
  Garbage   \* what may stand in memory behind the end of insert_rest

\* What the parameters must be for the program to get past its first tuple.
ASSUME ParametersAssumption ==
  /\ N \in Nat /\ N >= W
  /\ K \in 1..W
  /\ NW_sky \in Nat \ {0}
  /\ NW_rest \in Nat \ {0}
ASSUME GarbageAssumption == Garbage \subseteq Int

Sky == 0..(NW_sky - 1)
Rest == 0..(NW_rest - 1)

VARIABLES
  i,            \* the loop counter of main
  phase,        \* the stage main is in
  stream,       \* history: every tuple generate_tuple returned
  insert,       \* the locals of main
  sky_arr,
  insert_sky,
  insert_rest,
  sky,          \* the progress of each check_skyline
  rest,         \* the progress of each check_rest
  skylines,     \* the skyline lists
  rests,        \* the rest lists
  window,       \* the deque of the tuples to print, the newest in front
  windows,      \* history: the windows printed
  output,       \* history: the skylines printed, each a set of tuples
  raced         \* history: an update was lost, or unowned memory was read

printed == <<window, windows, output>>
vars == <<i, phase, stream, insert, sky_arr, insert_sky, insert_rest, sky, rest,
          skylines, rests, printed, raced>>

t == Arrived(stream, i)       \* the tuple being handled

\* A walk that deletes or passes over the other nodes: those at the positions keep,
\* in their order. A set of one list.
Picked(nodes, keep) ==
  {[n \in 1..Cardinality(keep) |-> nodes[p[n]]] :
     p \in {q \in Surjection(1..Cardinality(keep), keep) :
              \A n, o \in 1..Cardinality(keep) : n < o => q[n] < q[o]}}

KeptPastExpiry(nodes) ==
  {k \in DOMAIN nodes : nodes[k].expire >= i /\ ~Dominate(t, nodes[k].tuple)}

\* Where the nodes stand that a scan keeps: still in the window, not dominated by
\* the new tuple.
Kept(nodes) ==
  {k \in DOMAIN nodes : nodes[k].expire > i /\ ~Dominate(t, nodes[k].tuple)}

AllBlockers(nodes, ins) ==
  {k \in DOMAIN nodes : Dominate(nodes[k].tuple, t) /\ nodes[k].expire > ins}

\* Where the kept nodes stand that dominate the new tuple and expire later than
\* ins. The scans compare with the insert main had before the stage, never with a
\* value just found.
Blockers(nodes, ins) ==
  {k \in Kept(nodes) : Dominate(nodes[k].tuple, t) /\ nodes[k].expire > ins}

\* The value a scan leaves in insert_sky[j] or insert_rest[j]: the last one.
LastExpiry(nodes, at) ==
  IF at = {} THEN {0} ELSE {nodes[k].expire : k \in Greatest(at)}

PromotedLate(x) == x.insert < i
Promoted(x) == x.insert <= i

WindowCompleteOffByOne == i >= W
WindowComplete == i >= W - 1
OnSlide == (i + 1 - W) % K = 0

Idle == [pc |-> "done", value |-> FALSE, writes |-> 0, seen |-> [s \in Sky |-> FALSE]]
Off == [pc |-> "done", todo |-> <<>>, list |-> 0, seen |-> <<>>]

Init ==
  /\ i = 0
  /\ phase = "generate"
  /\ stream = <<>>
  /\ insert = 0
  /\ sky_arr = [s \in Sky |-> FALSE]
  /\ insert_sky = [s \in Sky |-> 0]
  /\ insert_rest = [r \in Rest |-> 0]
  /\ sky = [s \in Sky |-> Idle]
  /\ rest = [r \in Rest |-> Off]
  /\ skylines = [s \in Sky |-> <<>>]
  /\ rests = [r \in Rest |-> <<>>]
  /\ window = <<>> /\ windows = <<>> /\ output = <<>>
  /\ raced = FALSE

MoreTuples == i < N

\* F1, print_window, the fresh vectors, and the start of the first parallel_for.
GenerateTuple ==
  /\ phase = "generate" /\ MoreTuples
  /\ \E new \in Tuple :
       LET full == <<new>> \o window IN
       /\ stream' = Append(stream, new)
       /\ window' = IF WindowComplete THEN SubSeq(full, 1, Len(full) - 1) ELSE full
       /\ windows' = IF WindowComplete /\ OnSlide THEN Append(windows, full) ELSE windows
  /\ insert' = 0
  /\ sky_arr' = [s \in Sky |-> FALSE]
  /\ insert_sky' = [s \in Sky |-> 0]
  /\ sky' = [s \in Sky |-> [Idle EXCEPT !.pc = "read", !.value = TRUE, !.writes = 1]]
  /\ phase' = "check_skyline"
  /\ UNCHANGED <<i, insert_rest, rest, skylines, rests, output, raced>>

(* check_skyline: its flag is one bit of the word all workers write to.    *)

FlagRead(s) ==
  /\ sky[s].pc = "read"
  /\ sky' = [sky EXCEPT ![s].pc = "write", ![s].seen = sky_arr]
  /\ UNCHANGED <<i, phase, stream, insert, sky_arr, insert_sky, insert_rest, rest,
                 skylines, rests, printed, raced>>

FlagWrite(s) ==
  LET word == [sky[s].seen EXCEPT ![s] = sky[s].value] IN
  /\ sky[s].pc = "write"
  /\ sky_arr' = word
  /\ raced' = (raced \/ \E o \in Sky \ {s} : word[o] # sky_arr[o])
  /\ sky' = [sky EXCEPT ![s].writes = @ - 1,
                        ![s].pc = IF sky[s].value THEN "scan"
                                  ELSE IF sky[s].writes > 1 THEN "read" ELSE "done"]
  /\ UNCHANGED <<i, phase, stream, insert, insert_sky, insert_rest, rest, skylines,
                 rests, printed>>

\* The list belongs to the worker alone. Each node that dominates the new tuple
\* has the flag written once more.
SkyScan(s) ==
  LET dominating == Blockers(skylines[s], insert) IN
  /\ sky[s].pc = "scan"
  /\ \E kept \in Picked(skylines[s], Kept(skylines[s])) :
       skylines' = [skylines EXCEPT ![s] = kept]
  /\ \E expire \in LastExpiry(skylines[s], dominating) :
       insert_sky' = [insert_sky EXCEPT ![s] = expire]
  /\ sky' = [sky EXCEPT ![s] = [pc |-> IF dominating = {} THEN "done" ELSE "read",
                                value |-> FALSE, writes |-> Cardinality(dominating),
                                seen |-> @.seen]]
  /\ UNCHANGED <<i, phase, stream, insert, sky_arr, insert_rest, rest, rests, printed,
                 raced>>

\* The end of the first parallel_for, and the start of the second.
JoinSky ==
  /\ phase = "check_skyline"
  /\ \A s \in Sky : sky[s].pc = "done"
  /\ insert' \in Greatest({insert} \cup {insert_sky[s] : s \in Sky})
  /\ insert_rest' = [r \in Rest |-> 0]
  /\ rest' = [r \in Rest |-> [Off EXCEPT !.pc = "scan"]]
  /\ phase' = "check_rest"
  /\ UNCHANGED <<i, stream, sky_arr, insert_sky, sky, skylines, rests, printed, raced>>

(* check_rest: the scan of the worker's own list, then a push_node for each *)
(* node to be moved.                                                        *)

NextMove(todo) == IF todo = <<>> THEN "done" ELSE "move"

RestScan(r) ==
  LET free == {k \in Kept(rests[r]) : Promoted(rests[r][k])} IN
  /\ rest[r].pc = "scan"
  /\ \E expire \in LastExpiry(rests[r], Blockers(rests[r], insert)) :
       insert_rest' = [insert_rest EXCEPT ![r] = expire]
  /\ \E staying \in Picked(rests[r], Kept(rests[r]) \ free) :
       rests' = [rests EXCEPT ![r] = staying]
  /\ \E moved \in Picked(rests[r], free) :
       rest' = [rest EXCEPT ![r].todo = moved, ![r].pc = NextMove(moved)]
  /\ UNCHANGED <<i, phase, stream, insert, sky_arr, insert_sky, sky, skylines, printed,
                 raced>>

RestReadHead(r) ==
  /\ rest[r].pc = "move"
  /\ \E s \in Sky :
       rest' = [rest EXCEPT ![r].pc = "write", ![r].list = s, ![r].seen = skylines[s]]
  /\ UNCHANGED <<i, phase, stream, insert, sky_arr, insert_sky, insert_rest, sky,
                 skylines, rests, printed, raced>>

RestWriteHead(r) ==
  LET x == Head(rest[r].todo) IN
  /\ rest[r].pc = "write"
  /\ skylines' = [skylines EXCEPT ![rest[r].list] =
                    <<MkNode(x.tuple, x.expire, 0)>> \o rest[r].seen]
  /\ raced' = (raced \/ rest[r].seen # skylines[rest[r].list])
  /\ rest' = [rest EXCEPT ![r] = [pc |-> NextMove(Tail(@.todo)), todo |-> Tail(@.todo),
                                  list |-> @.list, seen |-> <<>>]]
  /\ UNCHANGED <<i, phase, stream, insert, sky_arr, insert_sky, insert_rest, sky, rests,
                 printed>>

(* The end of the second parallel_for, F4 and the end of the loop body. The *)
(* loop over insert_rest runs to nw_sky, not nw_rest.                       *)

Insertions(beyond) ==
  {IF s \in Rest THEN insert_rest[s] ELSE beyond[s] : s \in Sky}

InsertTuple ==
  /\ phase = "check_rest"
  /\ \A r \in Rest : rest[r].pc = "done"
  /\ \E beyond \in [Sky \ Rest -> Garbage] :
       /\ insert' \in Greatest({insert} \cup Insertions(beyond))
       /\ raced' = (raced \/ \E s \in Sky \ Rest : beyond[s] > insert)
  /\ \/ /\ \A s \in Sky : sky_arr[s]
        /\ \E s \in Sky :
             skylines' = [skylines EXCEPT ![s] = <<MkNode(t, i + W, 0)>> \o @]
        /\ UNCHANGED rests
     \/ /\ \E s \in Sky : ~sky_arr[s]
        /\ \E r \in Rest :
             rests' = [rests EXCEPT ![r] = <<MkNode(t, i + W, insert')>> \o @]
        /\ UNCHANGED skylines
  /\ output' = IF WindowComplete /\ OnSlide
               THEN Append(output, UNION {Tuples(Range(skylines'[s])) : s \in Sky})
               ELSE output
  /\ i' = i + 1
  /\ phase' = "generate"
  /\ UNCHANGED <<stream, sky_arr, insert_sky, insert_rest, sky, rest, window,
                 windows>>

Next ==
  \/ GenerateTuple
  \/ \E s \in Sky : FlagRead(s) \/ FlagWrite(s) \/ SkyScan(s)
  \/ JoinSky
  \/ \E r \in Rest : RestScan(r) \/ RestReadHead(r) \/ RestWriteHead(r)
  \/ InsertTuple

Spec == Init /\ [][Next]_vars /\ WF_vars(Next)
----------------------------------------------------------------------------
(* Properties.                                                             *)

Lists == {skylines[s] : s \in Sky} \cup {rests[r] : r \in Rest}
InSky == UNION {Range(skylines[s]) : s \in Sky}
InRest == UNION {Range(rests[r]) : r \in Rest}
NumberOf(x) == x.expire - W

\* Main is between two tuples, the lists have been printed.
BetweenTuples == phase = "generate" /\ i > 0

SkyWorker == [pc : {"read", "write", "scan", "done"}, value : BOOLEAN, writes : Nat,
              seen : [Sky -> BOOLEAN]]
RestWorker == [pc : {"scan", "move", "write", "done"}, todo : Seq(Node), list : Sky,
               seen : Seq(Node)]

\* The type invariant.
TypeOK ==
  /\ i \in 0..N /\ Len(stream) = IF phase = "generate" THEN i ELSE i + 1
  /\ phase \in {"generate", "check_skyline", "check_rest"}
  /\ phase # "generate" => i < N
  /\ stream \in Seq(Tuple)
  /\ insert \in Nat
  /\ sky_arr \in [Sky -> BOOLEAN]
  /\ insert_sky \in [Sky -> Nat]
  /\ insert_rest \in [Rest -> Nat]
  /\ sky \in [Sky -> SkyWorker]
  /\ rest \in [Rest -> RestWorker]
  /\ skylines \in [Sky -> Seq(Node)]
  /\ rests \in [Rest -> Seq(Node)]
  /\ window \in Seq(Tuple)
  /\ windows \in Seq(Seq(Tuple))
  /\ output \in Seq(SUBSET Tuple)
  /\ raced \in BOOLEAN

\* Whatever the workers overwrite, the lists hold each tuple at most once, as it
\* was when it arrived, and only tuples of the window that no later one dominates.
ListsSound ==
  BetweenTuples =>
    /\ \A l \in Lists : IsInjective(l)
    /\ \A s, o \in Sky : s # o => Range(skylines[s]) \cap Range(skylines[o]) = {}
    /\ \A r, o \in Rest : r # o => Range(rests[r]) \cap Range(rests[o]) = {}
    /\ \A x, y \in InSky \cup InRest : x.expire = y.expire => x = y
    /\ \A x \in InSky \cup InRest :
         /\ NumberOf(x) \in Live(stream, i - 1)
         /\ x.tuple = Arrived(stream, NumberOf(x))
         /\ \A l \in Live(stream, i - 1) :
              l > NumberOf(x) => ~Dominate(Arrived(stream, l), x.tuple)

\* Only a lost update, or the read behind the end of insert_rest, can cost the
\* skyline a tuple: the algorithm itself never holds one back.
OnlyRacesLose ==
  BetweenTuples /\ ~raced => SkylineTuples(stream, i - 1) \subseteq Tuples(InSky)

\* Each skyline is printed after its window, and both are of the same tuples: what
\* main prints is the window itself, and nothing from outside it.
PrintedTogether ==
  \A p \in 1..Len(output) :
    LET last == W - 1 + (p - 1) * K IN
    /\ windows[p] = [n \in 1..W |-> Arrived(stream, last + 1 - n)]
    /\ output[p] \subseteq Range(windows[p])

\* Without them, whoever waits in a rest list waits for a better tuple that is
\* still in the window, even if it is not always the last of them.
WaitsForADominator ==
  BetweenTuples /\ ~raced =>
    \A x \in InRest :
      /\ x.insert - W \in Live(stream, i - 1)
      /\ StrictlyDominates(Arrived(stream, x.insert - W), x.tuple)

----------------------------------------------------------------------------
(* What the documentation says, and the code does not do.                  *)

\* The tuple handled last has completed a window, and its skyline has been printed.
Printing == BetweenTuples /\ i >= W /\ (i - W) % K = 0

\* README.md: for each window the application computes the skyline: none of
\* its tuples is missing from the skyline lists when they are printed.
SkylineComplete == Printing => SkylineTuples(stream, i - 1) \subseteq Tuples(InSky)
============================================================================
