------------------------------ MODULE Endpoint ------------------------------
(***************************************************************************)
(* An IPC endpoint: ipc_invoke_endpoint of kernel/syscall.c.  A ring       *)
(* buffer, a queue of threads that wait to send because it is full and one *)
(* of threads that wait to receive because it is empty.                    *)
(*                                                                         *)
(* An invocation is one step: it holds the endpoint's lock, and interrupts *)
(* are off.  A message stands for the four words that are copied together. *)
(* scheduler_wake may refuse a thread (its authority, its lease, its       *)
(* budget, its mode); nothing wakes that thread again, so that it is       *)
(* "STUCK", like a thread in a queue that is erased.                       *)
(***************************************************************************)
EXTENDS Naturals, Sequences, FiniteSets

CONSTANTS
    Threads,
    Msgs,
    IPC_BUFFER_SIZE

ASSUME EndpointAssumption ==
    /\ IPC_BUFFER_SIZE \in Nat \ {0}
    /\ IsFiniteSet(Threads)

N == IPC_BUFFER_SIZE

VARIABLES
    buffer, head, tail, count,
    sendq,    \* send_head .. send_tail
    recvq,    \* recv_head .. recv_tail
    payload,  \* ipc_payload of each thread; <<>> before any message
    state,    \* "RUN" (running or ready), "BLOCKED" or "STUCK"
    last      \* history: the last receiver and what it got

ring == <<buffer, head, tail, count>>
vars == <<ring, sendq, recvq, payload, state, last>>

Nothing == <<>>

TypeOK ==
    /\ buffer \in [0 .. N - 1 -> Msgs \cup {Nothing}]
    /\ head \in 0 .. N - 1
    /\ tail \in 0 .. N - 1
    /\ count \in 0 .. N
    /\ sendq \in Seq(Threads)
    /\ recvq \in Seq(Threads)
    /\ payload \in [Threads -> Msgs \cup {Nothing}]
    /\ state \in [Threads -> {"RUN", "BLOCKED", "STUCK"}]
    /\ last \in (Threads \X Msgs) \cup {Nothing}

\* fast_zero in cap_retype
Zeroed ==
    /\ buffer' = [k \in 0 .. N - 1 |-> Nothing]
    /\ head' = 0 /\ tail' = 0 /\ count' = 0
    /\ sendq' = <<>> /\ recvq' = <<>>

Init ==
    /\ buffer = [k \in 0 .. N - 1 |-> Nothing]
    /\ head = 0 /\ tail = 0 /\ count = 0
    /\ sendq = <<>> /\ recvq = <<>>
    /\ payload = [t \in Threads |-> Nothing]
    /\ state = [t \in Threads |-> "RUN"]
    /\ last = Nothing

-----------------------------------------------------------------------------
\* SEND or RECEIVE, from the option and the rights of the capability
Operation(rights, option) ==
    IF option = "AUTO"
    THEN IF "WRITE" \in rights THEN "SEND" ELSE "RECV"
    ELSE option

Allowed(op, rights, option) ==
    /\ Operation(rights, option) = op
    /\ (IF op = "SEND" THEN "WRITE" ELSE "READ") \in rights

Succ(k) == (k + 1) % N

HasRoom == count < N

SendToReceiver(t, m) ==
    /\ state[t] = "RUN"
    /\ recvq # <<>>
    /\ recvq' = Tail(recvq)
    /\ payload' = [payload EXCEPT ![Head(recvq)] = m]
    /\ \E s \in {"RUN", "STUCK"} : state' = [state EXCEPT ![Head(recvq)] = s]
    /\ last' = <<Head(recvq), m>>
    /\ UNCHANGED <<ring, sendq>>

SendToBuffer(t, m) ==
    /\ state[t] = "RUN"
    /\ recvq = <<>>
    /\ HasRoom
    /\ buffer' = [buffer EXCEPT ![tail] = m]
    /\ tail' = Succ(tail)
    /\ count' = count + 1
    /\ UNCHANGED <<head, sendq, recvq, payload, state, last>>

BlockSender(t, m) ==
    /\ state[t] = "RUN"
    /\ recvq = <<>>
    /\ ~HasRoom
    /\ state' = [state EXCEPT ![t] = "BLOCKED"]
    /\ payload' = [payload EXCEPT ![t] = m]
    /\ sendq' = Append(sendq, t)
    /\ UNCHANGED <<ring, recvq, last>>

\* Fault: the last sender to come is served first.
Served_Last == sendq[Len(sendq)]

\* The blocked sender that is served
Served == Head(sendq)

\* Fault: blocked senders are not looked at.
Refill_Never(received) ==
    /\ payload' = received
    /\ count' = count - 1
    /\ UNCHANGED <<buffer, tail, sendq, state>>

\* The slot just vacated goes to a blocked sender, if there is one.
Refill(received) ==
    /\ payload' = received
    /\ IF sendq = <<>>
       THEN /\ count' = count - 1
            /\ UNCHANGED <<buffer, tail, sendq, state>>
       ELSE /\ buffer' = [buffer EXCEPT ![tail] = received[Served]]
            /\ tail' = Succ(tail)
            /\ count' = count
            /\ sendq' = Tail(sendq)
            /\ \E s \in {"RUN", "STUCK"} : state' = [state EXCEPT ![Head(sendq)] = s]

ReceiveFromBuffer(t) ==
    /\ state[t] = "RUN"
    /\ count > 0
    /\ head' = Succ(head)
    /\ last' = <<t, buffer[head]>>
    /\ Refill([payload EXCEPT ![t] = buffer[head]])
    /\ recvq' = recvq

BlockReceiver(t) ==
    /\ state[t] = "RUN"
    /\ count = 0
    /\ state' = [state EXCEPT ![t] = "BLOCKED"]
    /\ recvq' = Append(recvq, t)
    /\ UNCHANGED <<ring, sendq, payload, last>>

\* cap_retype of the same memory into an endpoint once more: threads in the
\* queues are forgotten.
Retype ==
    /\ Zeroed
    /\ state' = [t \in Threads |-> IF state[t] = "BLOCKED" THEN "STUCK" ELSE state[t]]
    /\ UNCHANGED <<payload, last>>

Invoke(t, rights, option) ==
    \/ /\ Allowed("SEND", rights, option)
       /\ \E m \in Msgs :
             SendToReceiver(t, m) \/ SendToBuffer(t, m) \/ BlockSender(t, m)
    \/ /\ Allowed("RECV", rights, option)
       /\ ReceiveFromBuffer(t) \/ BlockReceiver(t)

Next ==
    \/ \E t \in Threads, rights \in SUBSET {"READ", "WRITE"},
          option \in {"AUTO", "SEND", "RECV"} : Invoke(t, rights, option)
    \/ Retype

Spec == Init /\ [][Next]_vars

-----------------------------------------------------------------------------
Elements(q) == {q[k] : k \in DOMAIN q}

(* Nobody waits for what is there: receivers wait only while there is no   *)
(* message, neither in the buffer nor with a blocked sender, and senders   *)
(* only while the buffer is full.                                          *)
NoMissedWakeup ==
    /\ recvq # <<>> => count = 0 /\ sendq = <<>>
    /\ sendq # <<>> => count = N

(* A thread is blocked exactly while it is in one queue, once: no thread   *)
(* is woken that runs, and none is left blocked that no one will wake.     *)
BlockedMeansQueued ==
    LET q == sendq \o recvq
    IN  /\ Elements(q) = {t \in Threads : state[t] = "BLOCKED"}
        /\ Cardinality(Elements(q)) = Len(q)

\* The wait queues are exact: only threads that must wait are in them, each once, and nobody
\* else is blocked (ipc_invoke_endpoint).
WaitersAreExact == NoMissedWakeup /\ BlockedMeansQueued

\* What is in the endpoint, oldest first.
Contents ==
    [k \in 1 .. count + Len(sendq) |->
        IF k <= count THEN buffer[(head + k - 1) % N]
        ELSE payload[sendq[k - count]]]

C == INSTANCE Channel WITH
        Receivers <- Threads, Capacity <- N + Cardinality(Threads),
        queue <- Contents

(* The endpoint is a first-in first-out channel: through the ring buffer,  *)
(* the payload of a blocked sender or a direct hand-over, messages come    *)
(* out complete, once, and in the order in which they were sent.           *)
IsChannel == C!Spec

=============================================================================
