------------------------------ MODULE Channel -------------------------------
(***************************************************************************)
(* What an endpoint promises: a first-in first-out channel of bounded      *)
(* capacity, from which each message is handed to one receiver.            *)
(***************************************************************************)
EXTENDS Naturals, Sequences

CONSTANTS Receivers, Msgs, Capacity

VARIABLES
    queue,  \* messages accepted and not yet handed over
    last    \* the last receiver and what it was handed; <<>> if none

Init == queue = <<>> /\ last = <<>>

Put(m) ==
    /\ Len(queue) < Capacity
    /\ queue' = Append(queue, m)
    /\ last' = last

Take(t) ==
    /\ queue # <<>>
    /\ queue' = Tail(queue)
    /\ last' = <<t, Head(queue)>>

\* A message overtakes no other when it is handed over at once.
Give(t, m) ==
    /\ queue = <<>>
    /\ last' = <<t, m>>
    /\ queue' = queue

\* The memory of the channel is used for a new one.
Reset == queue' = <<>> /\ last' = last

Next ==
    \/ \E m \in Msgs : Put(m) \/ \E t \in Receivers : Give(t, m)
    \/ \E t \in Receivers : Take(t)
    \/ Reset

Spec == Init /\ [][Next]_<<queue, last>>
=============================================================================
