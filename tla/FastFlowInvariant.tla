------------------------- MODULE FastFlowInvariant -------------------------
(***************************************************************************)
(* Why the lists of FastFlowSkyline stay sound, and what they lose nothing *)
(* to but the races.                                                       *)
(*                                                                         *)
(* A node is in one place at a time: on the skyline list s, on the rest    *)
(* list r, or taken from rest list r and not yet pushed. A rest worker     *)
(* between its read and its write of a head still has the list it read in  *)
(* its hands, and may put back what another has replaced meanwhile; but    *)
(* what it puts back has been scanned like everything else.                *)
(***************************************************************************)
EXTENDS FastFlowSkyline

\* Skyline list s, with the contents its writers have read.
OnSkyline(s) ==
  Range(skylines[s]) \cup UNION {IF rest[r].list = s THEN Range(rest[r].seen) ELSE {} : r \in Rest}

Place == ({"sky"} \X Sky) \cup ({"rest", "moved"} \X Rest)

NodesAt(p) ==
  IF p[1] = "sky" THEN OnSkyline(p[2])
  ELSE IF p[1] = "rest" THEN Range(rests[p[2]])
  ELSE Range(rest[p[2]].todo)

Stored == UNION {NodesAt(p) : p \in Place}

----------------------------------------------------------------------------
(* The phases of the loop body.                                            *)

\* Outside its stage a worker has ended; a check_skyline sets its flag, scans, and
\* clears the flag once for each blocker it has found.
SkyWorkers ==
  \A s \in Sky :
    /\ phase # "check_skyline" => sky[s].pc = "done"
    /\ sky[s].pc \in {"read", "write"} => sky[s].writes > 0
    /\ phase = "check_skyline" /\ sky[s].pc = "scan" => sky[s].value
    /\ phase = "check_skyline" /\ sky[s].pc = "done" => ~sky[s].value

RestWorkers ==
  \A r \in Rest :
    /\ phase # "check_rest" => rest[r].pc = "done"
    /\ rest[r].pc \in {"move", "write"} <=> rest[r].todo # <<>>
    /\ rest[r].pc # "write" => rest[r].seen = <<>>

----------------------------------------------------------------------------
(* The nodes, whatever the races do.                                       *)

\* A node is a tuple of the window before the newest one, as it arrived, and no later
\* one dominates it.
Sound(x) ==
  /\ NumberOf(x) \in 0..(i - 1)
  /\ x.expire >= i
  /\ x.tuple = Arrived(stream, NumberOf(x))
  /\ \A j \in 0..(i - 1) : j > NumberOf(x) => ~Dominate(Arrived(stream, j), x.tuple)

\* The place has been scanned for the newest tuple.
Scanned(p) ==
  \/ phase = "check_skyline" /\ p[1] = "sky" /\ ~sky[p[2]].value
  \/ phase = "check_rest" /\ (p[1] = "rest" => rest[p[2]].pc # "scan")

\* What a scan leaves.
Fresh(x) == x.expire > i /\ ~Dominate(t, x.tuple)

NodesSound ==
  \A p \in Place : \A x \in NodesAt(p) : Sound(x) /\ (Scanned(p) => Fresh(x))

\* A tuple is in one place, and has the same node wherever it is seen there.
Apart ==
  \A p \in Place : \A x \in NodesAt(p) :
    \A q \in Place : \A y \in NodesAt(q) : x.expire = y.expire => p = q /\ x = y

NoRepeats ==
  /\ \A s \in Sky : IsInjective(skylines[s])
  /\ \A r \in Rest :
       IsInjective(rests[r]) /\ IsInjective(rest[r].todo) /\ IsInjective(rest[r].seen)

----------------------------------------------------------------------------
(* What a tuple waits for.                                                 *)

\* e is the expiry of a tuple that has arrived and is strictly better.
Justified(tuple, e) ==
  /\ e - W \in 0..(Len(stream) - 1)
  /\ StrictlyDominates(Arrived(stream, e - W), tuple)

\* The newest tuple is to wait until e.
Awaits(e) == e > i /\ Justified(t, e)

InsertsSound ==
  /\ phase = "check_skyline" =>
       insert = 0 /\ \A s \in Sky : insert_sky[s] = 0 \/ Awaits(insert_sky[s])
  /\ phase = "check_rest" =>
       /\ insert = 0 \/ Awaits(insert)
       /\ \A r \in Rest : insert_rest[r] = 0 \/ Awaits(insert_rest[r])

\* As long as no flag has been lost, a worker's flag is cleared only if it has found
\* what the newest tuple is to wait for.
FlagsRight ==
  /\ phase = "check_skyline" =>
       \A s \in Sky :
         /\ sky[s].pc = "scan" => sky_arr[s]
         /\ ~sky[s].value => insert_sky[s] > 0 \/ (sky[s].pc = "done" /\ sky_arr[s])
  /\ phase = "check_rest" => (\A s \in Sky : sky_arr[s]) \/ insert > 0

Waiting ==
  \A r \in Rest : \A x \in Range(rests[r]) :
    /\ x.insert >= i
    /\ Scanned(<<"rest", r>>) => x.insert > i
    /\ Justified(x.tuple, x.insert)

\* Every live tuple is dominated by a stored one that lives as long: itself, or a later
\* one that deleted it. The newest tuple is not stored yet.
Covers(x, j) == x.expire >= j + W /\ Dominate(x.tuple, Arrived(stream, j))

Coming == IF phase = "generate" THEN {} ELSE {MkNode(t, i + W, 0)}

Covered ==
  \A j \in Live(stream, Len(stream) - 1) : \E x \in Stored \cup Coming : Covers(x, j)

----------------------------------------------------------------------------
(* What is printed.                                                        *)

\* The windows due once c tuples have arrived.
Due(c) == IF c < W THEN 0 ELSE (c - W) \div K + 1

LastOf(p) == W - 1 + (p - 1) * K

Filled == IF Len(stream) < W THEN Len(stream) ELSE W - 1

\* list holds the n tuples up to number last, the newest first.
HoldsNewest(list, n, last) ==
  Len(list) = n /\ \A q \in 1..n : list[q] = Arrived(stream, last + 1 - q)

Shown ==
  /\ HoldsNewest(window, Filled, Len(stream) - 1)
  /\ Len(windows) = Due(Len(stream)) /\ Len(output) = Due(i)
  /\ \A p \in 1..Len(windows) :
       LastOf(p) \in (W - 1)..(Len(stream) - 1) /\ HoldsNewest(windows[p], W, LastOf(p))
  /\ \A p \in 1..Len(output) :
       LastOf(p) < i /\ output[p] \subseteq WindowTuples(stream, LastOf(p))

----------------------------------------------------------------------------
\* The inductive invariant.
IInv ==
  /\ TypeOK
  /\ SkyWorkers /\ RestWorkers
  /\ NodesSound /\ Apart /\ NoRepeats
  /\ InsertsSound
  /\ ~raced => FlagsRight /\ Waiting /\ Covered
  /\ Shown
============================================================================
