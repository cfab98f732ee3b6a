-------------------------------- MODULE Fifo --------------------------------
(***************************************************************************)
(* What a queue between threads promises: each item a producer sends is    *)
(* received at most once, by one consumer, in the order the items entered. *)
(***************************************************************************)
EXTENDS Integers, Sequences

CONSTANTS Producers, Consumers, Quota

VARIABLES
  sent,      \* how many items each producer has put in: item n of p is <<p, n>>
  queue,     \* the items in between, the oldest first
  received   \* what each consumer has taken out, in order

Init ==
  /\ sent = [p \in Producers |-> 0]
  /\ queue = <<>>
  /\ received = [c \in Consumers |-> <<>>]

Send(p) ==
  /\ sent[p] < Quota
  /\ sent' = [sent EXCEPT ![p] = @ + 1]
  /\ queue' = Append(queue, <<p, sent'[p]>>)
  /\ UNCHANGED received

Receive(c) ==
  /\ queue # <<>>
  /\ received' = [received EXCEPT ![c] = Append(@, Head(queue))]
  /\ queue' = Tail(queue)
  /\ UNCHANGED sent

Next ==
  \/ \E p \in Producers : Send(p)
  \/ \E c \in Consumers : Receive(c)

Spec == Init /\ [][Next]_<<sent, queue, received>>
============================================================================
