--------------------------- MODULE CheckParameters ---------------------------
(***************************************************************************)
(* The parameters with which the programs start: check_parameters of       *)
(* sequential/stages.cpp, and the one that parallel/stages.cpp and         *)
(* fastflow/stages.cpp share word for word. A command line is the sequence *)
(* of the numbers atoi reads in argv[1], argv[2], ...: argc is one more    *)
(* than its length. The checks go on after a first error, and a command    *)
(* line too short is rejected whatever they then read past its end.        *)
(***************************************************************************)
EXTENDS Integers, Sequences

\* Where main finds n, w, k, nw_sky and nw_rest.
n(arg) == arg[1]
w(arg) == arg[3]
k(arg) == arg[4]
nw_sky(arg) == arg[6]
nw_rest(arg) == arg[7]

\* The checks common to the programs, given the position of verbose: the
\* numbers are checked from argv[1] to argv[argc - 2], so that verbose is among
\* them when something follows it.
Accepted(arg, verbose, least) ==
  /\ Len(arg) >= verbose
  /\ \A i \in 1..(Len(arg) - 1) : arg[i] >= least
  /\ arg[verbose] \in 0..1
  /\ n(arg) >= w(arg)
  /\ k(arg) <= w(arg)

\* sequential/stages.cpp rejects what is <= 0 ...
SequentialAccepts(arg) == Accepted(arg, 6, 1)

\* ... and the other two what is < 0.
WorkersAccept(arg) == Accepted(arg, 8, 0)
=============================================================================
