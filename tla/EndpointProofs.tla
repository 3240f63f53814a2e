--------------------------- MODULE EndpointProofs ---------------------------
(***************************************************************************)
(* Proofs about IPC endpoints (ipc_invoke_endpoint of kernel/syscall.c),   *)
(* for any finite set of threads, any messages and any buffer size: nobody *)
(* waits for what is there, and the ring buffer, the payloads of blocked   *)
(* senders and direct hand-overs together implement the first-in first-out *)
(* channel of module Channel.                                              *)
(***************************************************************************)
EXTENDS Endpoint, SequenceTheorems, FiniteSetTheorems, TLAPS

InQ(q, t) == \E i \in 1 .. Len(q) : q[i] = t
Distinct(q) == \A i, j \in 1 .. Len(q) : q[i] = q[j] => i = j

\* The ring: tail follows from head and count, and the slots between them hold messages.
RingInv ==
    /\ tail = (head + count) % N
    /\ \A k \in 0 .. count - 1 : buffer[(head + k) % N] \in Msgs

\* The queues hold the blocked threads, each once, and a blocked sender has its message.
QueuesInv ==
    /\ Distinct(sendq) /\ Distinct(recvq)
    /\ \A t \in Threads : state[t] = "BLOCKED" <=> InQ(sendq, t) \/ InQ(recvq, t)
    /\ \A t \in Threads : InQ(sendq, t) => payload[t] \in Msgs

EpInv == TypeOK /\ RingInv /\ QueuesInv /\ NoMissedWakeup

-----------------------------------------------------------------------------
(* Arithmetic of the ring, and queues.                                      *)

LEMMA NType == N \in Nat \ {0}
BY EndpointAssumption DEF N

LEMMA Wrap ==
    ASSUME NEW h \in 0 .. N - 1, NEW k \in 0 .. N
    PROVE  (h + k) % N = IF h + k < N THEN h + k ELSE h + k - N
<1>1. PICK n \in Nat \ {0} : n = N
  BY NType
<1>2. \A x \in 0 .. n - 1 : x % n = x
  OBVIOUS
<1>3. \A x \in n .. 2 * n - 1 : x % n = x - n
  OBVIOUS
<1> QED  BY <1>1, <1>2, <1>3

LEMMA SuccOfSlot ==
    ASSUME NEW h \in 0 .. N - 1, NEW k \in 0 .. N - 1
    PROVE  /\ (h + k) % N \in 0 .. N - 1 /\ Succ(h) \in 0 .. N - 1
           /\ Succ((h + k) % N) = (h + (k + 1)) % N
           /\ (Succ(h) + k) % N = (h + (k + 1)) % N
           /\ (h + N) % N = h /\ (h + 0) % N = h
<1>1. PICK x : x = (h + k) % N
  OBVIOUS
<1>2. x = IF h + k < N THEN h + k ELSE h + k - N
  BY <1>1, Wrap, NType
<1>3. x \in 0 .. N - 1
  BY <1>2, NType
<1>4. Succ(x) = IF x + 1 < N THEN x + 1 ELSE x + 1 - N
  BY <1>3, NType, Wrap DEF Succ
<1>5. PICK y : y = Succ(h)
  OBVIOUS
<1>6. y = IF h + 1 < N THEN h + 1 ELSE h + 1 - N
  BY <1>5, NType, Wrap DEF Succ
<1>7. y \in 0 .. N - 1
  BY <1>6, NType
<1>8. (y + k) % N = IF y + k < N THEN y + k ELSE y + k - N
  BY <1>7, NType, Wrap
<1>9. k + 1 \in 0 .. N /\ N \in 0 .. N /\ 0 \in 0 .. N
  BY NType
<1>10. (h + (k + 1)) % N = IF h + (k + 1) < N THEN h + (k + 1) ELSE h + (k + 1) - N
  BY <1>9, Wrap
<1>11. (h + N) % N = h /\ (h + 0) % N = h
  <2>1. (h + N) % N = IF h + N < N THEN h + N ELSE h + N - N
    BY <1>9, Wrap
  <2>2. (h + 0) % N = IF h + 0 < N THEN h + 0 ELSE h + 0 - N
    BY <1>9, Wrap
  <2> QED  BY <2>1, <2>2, NType
<1>12. Succ(x) = (h + (k + 1)) % N
  BY <1>2, <1>3, <1>4, <1>10, NType
<1>13. (y + k) % N = (h + (k + 1)) % N
  BY <1>6, <1>7, <1>8, <1>10, NType
<1> QED  BY <1>1, <1>3, <1>5, <1>7, <1>11, <1>12, <1>13

LEMMA SlotsApart ==
    ASSUME NEW h \in 0 .. N - 1, NEW k \in 0 .. N - 1, NEW l \in 0 .. N - 1,
           (h + k) % N = (h + l) % N
    PROVE  k = l
<1>1. (h + k) % N = IF h + k < N THEN h + k ELSE h + k - N
  BY Wrap, NType
<1>2. (h + l) % N = IF h + l < N THEN h + l ELSE h + l - N
  BY Wrap, NType
<1>3. k < N /\ l < N /\ k >= 0 /\ l >= 0
  BY NType
<1> QED  BY <1>1, <1>2, <1>3, NType

LEMMA Dequeue ==
    ASSUME NEW q \in Seq(Threads), q # <<>>, Distinct(q)
    PROVE  /\ Head(q) \in Threads /\ InQ(q, Head(q))
           /\ Tail(q) \in Seq(Threads) /\ Distinct(Tail(q))
           /\ \A t : InQ(Tail(q), t) <=> InQ(q, t) /\ t # Head(q)
<1>1. /\ Len(q) \in Nat \ {0} /\ Head(q) = q[1] /\ Tail(q) \in Seq(Threads)
      /\ Len(Tail(q)) = Len(q) - 1
      /\ \A i \in 1 .. Len(q) - 1 : Tail(q)[i] = q[i + 1]
  OBVIOUS
<1>2. Head(q) \in Threads /\ InQ(q, Head(q))
  BY <1>1 DEF InQ
<1>3. Distinct(Tail(q))
  BY <1>1 DEF Distinct
<1>4. ASSUME NEW t, InQ(Tail(q), t) PROVE InQ(q, t) /\ t # Head(q)
  <2>1. PICK i \in 1 .. Len(q) - 1 : q[i + 1] = t
    BY <1>1, <1>4 DEF InQ
  <2>2. i + 1 \in 1 .. Len(q) /\ i + 1 # 1 /\ 1 \in 1 .. Len(q)
    BY <1>1
  <2> QED  BY <1>1, <2>1, <2>2 DEF InQ, Distinct
<1>5. ASSUME NEW t, InQ(q, t), t # Head(q) PROVE InQ(Tail(q), t)
  <2>1. PICK i \in 1 .. Len(q) : q[i] = t
    BY <1>5 DEF InQ
  <2>2. i - 1 \in 1 .. Len(q) - 1 /\ (i - 1) + 1 = i
    BY <1>1, <1>5, <2>1
  <2>3. Tail(q)[i - 1] = t
    BY <1>1, <2>1, <2>2
  <2> QED  BY <1>1, <2>2, <2>3 DEF InQ
<1> QED  BY <1>1, <1>2, <1>3, <1>4, <1>5

LEMMA Enqueue ==
    ASSUME NEW q \in Seq(Threads), NEW t \in Threads, Distinct(q), ~InQ(q, t)
    PROVE  /\ Append(q, t) \in Seq(Threads) /\ Distinct(Append(q, t)) /\ Append(q, t) # <<>>
           /\ \A u : InQ(Append(q, t), u) <=> InQ(q, u) \/ u = t
<1>1. /\ Len(q) \in Nat /\ Append(q, t) \in Seq(Threads) /\ Len(Append(q, t)) = Len(q) + 1
      /\ \A i \in 1 .. Len(q) : Append(q, t)[i] = q[i]
      /\ Append(q, t)[Len(q) + 1] = t
  OBVIOUS
<1>2. \A i \in 1 .. Len(q) + 1 : i \in 1 .. Len(q) \/ i = Len(q) + 1
  BY <1>1
<1>3. Distinct(Append(q, t))
  BY <1>1, <1>2 DEF Distinct, InQ
<1>4. \A u : InQ(Append(q, t), u) <=> InQ(q, u) \/ u = t
  BY <1>1, <1>2 DEF InQ
<1>5. Append(q, t) # <<>>
  BY <1>1
<1> QED  BY <1>1, <1>3, <1>4, <1>5

LEMMA EmptyQueue == <<>> \in Seq(Threads) /\ Distinct(<<>>) /\ \A t : ~InQ(<<>>, t)
BY DEF Distinct, InQ

-----------------------------------------------------------------------------
(* The invariant.                                                           *)

LEMMA EpInvInit == Init => EpInv
<1> SUFFICES ASSUME Init PROVE EpInv
  OBVIOUS
<1>1. (0 + 0) % N = 0
  BY Wrap, NType
<1>2. TypeOK
  BY NType DEF Init, TypeOK
<1>3. RingInv
  BY <1>1 DEF Init, RingInv
<1>4. QueuesInv
  BY EmptyQueue DEF Init, QueuesInv
<1> QED  BY <1>2, <1>3, <1>4, NType DEF EpInv, Init, NoMissedWakeup

LEMMA SendToReceiverStep ==
    ASSUME EpInv, NEW t \in Threads, NEW m \in Msgs, SendToReceiver(t, m)
    PROVE  EpInv'
<1> USE DEF EpInv
<1>1. PICK r \in Threads : r = Head(recvq)
  BY Dequeue DEF SendToReceiver, TypeOK, QueuesInv
<1>2. PICK s \in {"RUN", "STUCK"} : state' = [state EXCEPT ![r] = s]
  BY <1>1 DEF SendToReceiver
<1>3. /\ recvq # <<>> /\ recvq' = Tail(recvq) /\ payload' = [payload EXCEPT ![r] = m]
      /\ last' = <<r, m>> /\ UNCHANGED <<buffer, head, tail, count, sendq>>
  BY <1>1 DEF SendToReceiver, ring
<1>4. recvq' \in Seq(Threads) /\ Distinct(recvq') /\ \A u : InQ(recvq', u) <=> InQ(recvq, u) /\ u # r
  BY <1>1, <1>3, Dequeue DEF TypeOK, QueuesInv
<1>5. sendq = <<>> /\ count = 0
  BY <1>3 DEF NoMissedWakeup
<1>6. TypeOK'
  BY <1>2, <1>3, <1>4 DEF TypeOK
<1>7. RingInv'
  BY <1>3 DEF RingInv
<1>8. QueuesInv'
  <2>1. \A u \in Threads : state'[u] = "BLOCKED" <=> state[u] = "BLOCKED" /\ u # r
    BY <1>2 DEF TypeOK
  <2>2. \A u : ~InQ(sendq, u)
    BY <1>5, EmptyQueue
  <2> QED  BY <1>3, <1>4, <2>1, <2>2 DEF QueuesInv
<1>9. NoMissedWakeup'
  BY <1>3, <1>5 DEF NoMissedWakeup
<1> QED  BY <1>6, <1>7, <1>8, <1>9

LEMMA SendToBufferStep ==
    ASSUME EpInv, NEW t \in Threads, NEW m \in Msgs, SendToBuffer(t, m)
    PROVE  EpInv'
<1> USE DEF EpInv
<1>1. /\ recvq = <<>> /\ count < N
      /\ buffer' = [buffer EXCEPT ![tail] = m] /\ tail' = Succ(tail) /\ count' = count + 1
      /\ UNCHANGED <<head, sendq, recvq, payload, state, last>>
  BY DEF SendToBuffer, HasRoom
<1>2. head \in 0 .. N - 1 /\ count \in 0 .. N - 1 /\ tail = (head + count) % N
  BY <1>1, NType DEF TypeOK, RingInv
<1>3. tail' \in 0 .. N - 1 /\ tail' = (head + count') % N
  BY <1>1, <1>2, SuccOfSlot DEF TypeOK
<1>4. TypeOK'
  BY <1>1, <1>2, <1>3, NType DEF TypeOK
<1>5. ASSUME NEW k \in 0 .. count' - 1 PROVE buffer'[(head + k) % N] \in Msgs
  <2>1. k \in 0 .. N - 1 /\ (k = count \/ k \in 0 .. count - 1)
    BY <1>1, <1>2, NType
  <2>2. PICK x \in 0 .. N - 1 : x = (head + k) % N
    BY <1>2, <2>1, SuccOfSlot
  <2>3. x = tail \/ buffer[x] \in Msgs
    BY <1>2, <2>1, <2>2 DEF RingInv
  <2>4. buffer'[x] \in Msgs
    BY <1>1, <2>3 DEF TypeOK
  <2> QED  BY <2>2, <2>4
<1>6. RingInv'
  BY <1>1, <1>3, <1>5 DEF RingInv
<1>7. QueuesInv'
  BY <1>1 DEF QueuesInv
<1>8. NoMissedWakeup'
  BY <1>1, <1>2, NType DEF NoMissedWakeup
<1> QED  BY <1>4, <1>6, <1>7, <1>8

LEMMA BlockSenderStep ==
    ASSUME EpInv, NEW t \in Threads, NEW m \in Msgs, BlockSender(t, m)
    PROVE  EpInv'
<1> USE DEF EpInv
<1>1. /\ state[t] = "RUN" /\ recvq = <<>> /\ ~(count < N)
      /\ state' = [state EXCEPT ![t] = "BLOCKED"] /\ payload' = [payload EXCEPT ![t] = m]
      /\ sendq' = Append(sendq, t) /\ UNCHANGED <<buffer, head, tail, count, recvq, last>>
  BY DEF BlockSender, HasRoom, ring
<1>2. ~InQ(sendq, t)
  BY <1>1 DEF QueuesInv
<1>3. sendq' \in Seq(Threads) /\ Distinct(sendq') /\ \A u : InQ(sendq', u) <=> InQ(sendq, u) \/ u = t
  BY <1>1, <1>2, Enqueue DEF TypeOK, QueuesInv
<1>4. count = N
  BY <1>1, NType DEF TypeOK
<1>5. TypeOK'
  BY <1>1, <1>3 DEF TypeOK
<1>6. RingInv'
  BY <1>1 DEF RingInv
<1>7. QueuesInv'
  <2>1. \A u \in Threads : state'[u] = "BLOCKED" <=> state[u] = "BLOCKED" \/ u = t
    BY <1>1 DEF TypeOK
  <2>2. \A u \in Threads : payload'[u] = IF u = t THEN m ELSE payload[u]
    BY <1>1 DEF TypeOK
  <2> QED  BY <1>1, <1>3, <2>1, <2>2 DEF QueuesInv
<1>8. NoMissedWakeup'
  BY <1>1, <1>4 DEF NoMissedWakeup
<1> QED  BY <1>5, <1>6, <1>7, <1>8

LEMMA BlockReceiverStep ==
    ASSUME EpInv, NEW t \in Threads, BlockReceiver(t)
    PROVE  EpInv'
<1> USE DEF EpInv
<1>1. /\ state[t] = "RUN" /\ count = 0
      /\ state' = [state EXCEPT ![t] = "BLOCKED"] /\ recvq' = Append(recvq, t)
      /\ UNCHANGED <<buffer, head, tail, count, sendq, payload, last>>
  BY DEF BlockReceiver, ring
<1>2. ~InQ(recvq, t)
  BY <1>1 DEF QueuesInv
<1>3. recvq' \in Seq(Threads) /\ Distinct(recvq') /\ \A u : InQ(recvq', u) <=> InQ(recvq, u) \/ u = t
  BY <1>1, <1>2, Enqueue DEF TypeOK, QueuesInv
<1>4. sendq = <<>>
  BY <1>1, NType DEF NoMissedWakeup
<1>5. TypeOK'
  BY <1>1, <1>3 DEF TypeOK
<1>6. RingInv'
  BY <1>1 DEF RingInv
<1>7. QueuesInv'
  <2>1. \A u \in Threads : state'[u] = "BLOCKED" <=> state[u] = "BLOCKED" \/ u = t
    BY <1>1 DEF TypeOK
  <2> QED  BY <1>1, <1>3, <2>1 DEF QueuesInv
<1>8. NoMissedWakeup'
  BY <1>1, <1>4 DEF NoMissedWakeup
<1> QED  BY <1>5, <1>6, <1>7, <1>8

\* What a receive from the buffer does, with and without a blocked sender.
LEMMA ReceiveEffect ==
    ASSUME EpInv, NEW t \in Threads, ReceiveFromBuffer(t)
    PROVE  /\ count \in 1 .. N /\ head' = Succ(head) /\ last' = <<t, buffer[head]>>
           /\ buffer[head] \in Msgs /\ recvq = <<>> /\ recvq' = recvq
           /\ payload' = [payload EXCEPT ![t] = buffer[head]]
           /\ \/ /\ sendq = <<>> /\ count' = count - 1
                 /\ UNCHANGED <<buffer, tail, sendq, state>>
              \/ /\ sendq # <<>> /\ count = N /\ tail = head /\ Head(sendq) # t
                 /\ payload[Head(sendq)] \in Msgs
                 /\ buffer' = [buffer EXCEPT ![tail] = payload[Head(sendq)]]
                 /\ tail' = Succ(tail) /\ count' = count /\ sendq' = Tail(sendq)
                 /\ \E s \in {"RUN", "STUCK"} : state' = [state EXCEPT ![Head(sendq)] = s]
<1> USE DEF EpInv
<1>1. /\ state[t] = "RUN" /\ count > 0 /\ head' = Succ(head) /\ last' = <<t, buffer[head]>>
      /\ Refill([payload EXCEPT ![t] = buffer[head]]) /\ recvq' = recvq
  BY DEF ReceiveFromBuffer
<1>2. count \in 1 .. N /\ head \in 0 .. N - 1
  BY <1>1, NType DEF TypeOK
<1>3. (head + 0) % N = head /\ (head + N) % N = head
  BY <1>2, SuccOfSlot, NType
<1>4. buffer[head] \in Msgs
  <2>1. 0 \in 0 .. count - 1
    BY <1>2
  <2>2. buffer[(head + 0) % N] \in Msgs
    BY <2>1 DEF RingInv
  <2> QED  BY <1>3, <2>2
<1>5. recvq = <<>>
  BY <1>2, NType DEF NoMissedWakeup
<1>6. payload' = [payload EXCEPT ![t] = buffer[head]]
  BY <1>1 DEF Refill
<1>7. CASE sendq = <<>>
  BY <1>1, <1>2, <1>4, <1>5, <1>6, <1>7 DEF Refill
<1>8. CASE sendq # <<>>
  <2>1. count = N /\ tail = head
    BY <1>3, <1>8 DEF NoMissedWakeup, RingInv
  <2>2. Head(sendq) \in Threads /\ InQ(sendq, Head(sendq))
    BY <1>8, Dequeue DEF TypeOK, QueuesInv
  <2>3. state[Head(sendq)] = "BLOCKED" /\ payload[Head(sendq)] \in Msgs
    BY <2>2 DEF QueuesInv
  <2>4. Head(sendq) # t
    BY <1>1, <2>3
  <2>5. [payload EXCEPT ![t] = buffer[head]][Head(sendq)] = payload[Head(sendq)]
    BY <2>2, <2>4 DEF TypeOK
  <2> QED  BY <1>1, <1>2, <1>4, <1>5, <1>6, <1>8, <2>1, <2>3, <2>4, <2>5 DEF Refill, Served
<1> QED  BY <1>7, <1>8

LEMMA ReceiveFromBufferStep ==
    ASSUME EpInv, NEW t \in Threads, ReceiveFromBuffer(t)
    PROVE  EpInv'
<1> USE DEF EpInv
<1>1. /\ count \in 1 .. N /\ head' = Succ(head) /\ last' = <<t, buffer[head]>>
      /\ buffer[head] \in Msgs /\ recvq = <<>> /\ recvq' = recvq
      /\ payload' = [payload EXCEPT ![t] = buffer[head]]
  BY ReceiveEffect
<1>2. head \in 0 .. N - 1 /\ tail \in 0 .. N - 1
  BY DEF TypeOK
<1>3. head' \in 0 .. N - 1
  BY <1>1, <1>2, NType, SuccOfSlot
<1>4. \A k \in 0 .. N - 1 : (head' + k) % N = (head + (k + 1)) % N /\ (head' + N) % N = head'
  BY <1>1, <1>2, <1>3, SuccOfSlot
<1>5. \A u \in Threads : payload'[u] = IF u = t THEN buffer[head] ELSE payload[u]
  BY <1>1 DEF TypeOK
<1>6. CASE sendq = <<>>
  <2>1. count' = count - 1 /\ UNCHANGED <<buffer, tail, sendq, state>>
    BY <1>6, ReceiveEffect
  <2>2. TypeOK'
    BY <1>1, <1>3, <2>1, NType DEF TypeOK
  <2>3. tail = (head' + (count - 1)) % N
    <3>1. count - 1 \in 0 .. N - 1 /\ (count - 1) + 1 = count
      BY <1>1, NType
    <3> QED  BY <1>4, <3>1 DEF RingInv
  <2>4. ASSUME NEW k \in 0 .. count' - 1 PROVE buffer[(head' + k) % N] \in Msgs
    <3>1. k \in 0 .. N - 1 /\ k + 1 \in 0 .. count - 1
      BY <1>1, <2>1, NType
    <3> QED  BY <1>4, <3>1 DEF RingInv
  <2>5. RingInv'
    BY <2>1, <2>3, <2>4 DEF RingInv
  <2>6. QueuesInv'
    BY <1>1, <1>6, <2>1, EmptyQueue DEF QueuesInv
  <2>7. NoMissedWakeup'
    BY <1>1, <1>6, <2>1 DEF NoMissedWakeup
  <2> QED  BY <2>2, <2>5, <2>6, <2>7
<1>7. CASE sendq # <<>>
  <2>1. /\ count = N /\ tail = head /\ Head(sendq) # t /\ payload[Head(sendq)] \in Msgs
        /\ buffer' = [buffer EXCEPT ![tail] = payload[Head(sendq)]]
        /\ tail' = Succ(tail) /\ count' = count /\ sendq' = Tail(sendq)
        /\ \E s \in {"RUN", "STUCK"} : state' = [state EXCEPT ![Head(sendq)] = s]
    BY <1>7, ReceiveEffect
  <2>2. PICK r \in Threads : r = Head(sendq)
    BY <1>7, Dequeue DEF TypeOK, QueuesInv
  <2>3. PICK s \in {"RUN", "STUCK"} : state' = [state EXCEPT ![r] = s]
    BY <2>1, <2>2
  <2>4. sendq' \in Seq(Threads) /\ Distinct(sendq') /\ \A u : InQ(sendq', u) <=> InQ(sendq, u) /\ u # r
    BY <1>7, <2>1, <2>2, Dequeue DEF TypeOK, QueuesInv
  <2>5. tail' \in 0 .. N - 1 /\ tail' = (head' + N) % N
    BY <1>1, <1>2, <1>3, <1>4, <2>1, NType
  <2>6. TypeOK'
    BY <1>1, <1>2, <1>3, <2>1, <2>3, <2>4, <2>5 DEF TypeOK
  <2>7. ASSUME NEW k \in 0 .. count' - 1 PROVE buffer'[(head' + k) % N] \in Msgs
    <3>1. k \in 0 .. N - 1
      BY <2>1
    <3>2. (head' + k) % N = (head + (k + 1)) % N /\ (head' + k) % N \in 0 .. N - 1
      BY <1>3, <1>4, <3>1, SuccOfSlot
    <3>3. PICK x \in 0 .. N - 1 : x = (head' + k) % N
      BY <3>2
    <3>4. CASE k + 1 \in 0 .. count - 1
      <4>1. buffer[x] \in Msgs
        BY <3>2, <3>3, <3>4 DEF RingInv
      <4>2. buffer'[x] \in Msgs
        BY <2>1, <4>1 DEF TypeOK
      <4> QED  BY <3>3, <4>2
    <3>5. CASE k + 1 = N
      <4>1. x = head
        BY <1>2, <3>2, <3>3, <3>5, SuccOfSlot, NType
      <4>2. buffer'[x] \in Msgs
        BY <2>1, <4>1 DEF TypeOK
      <4> QED  BY <3>3, <4>2
    <3> QED  BY <2>1, <3>1, <3>4, <3>5, NType
  <2>8. RingInv'
    BY <2>1, <2>5, <2>7 DEF RingInv
  <2>9. QueuesInv'
    <3>1. \A u \in Threads : state'[u] = "BLOCKED" <=> state[u] = "BLOCKED" /\ u # r
      BY <2>3 DEF TypeOK
    <3>2. \A u : ~InQ(recvq, u) /\ ~InQ(recvq', u)
      BY <1>1, EmptyQueue
    <3>3. \A u \in Threads : InQ(sendq', u) => payload'[u] \in Msgs
      BY <1>1, <1>5, <2>4 DEF QueuesInv
    <3> QED  BY <1>1, <2>4, <3>1, <3>2, <3>3 DEF QueuesInv
  <2>10. NoMissedWakeup'
    BY <1>1, <2>1 DEF NoMissedWakeup
  <2> QED  BY <2>6, <2>8, <2>9, <2>10
<1> QED  BY <1>6, <1>7

LEMMA RetypeStep ==
    ASSUME EpInv, Retype
    PROVE  EpInv'
<1> USE DEF EpInv
<1>1. /\ buffer' = [k \in 0 .. N - 1 |-> Nothing] /\ head' = 0 /\ tail' = 0 /\ count' = 0
      /\ sendq' = <<>> /\ recvq' = <<>> /\ UNCHANGED <<payload, last>>
      /\ state' = [t \in Threads |-> IF state[t] = "BLOCKED" THEN "STUCK" ELSE state[t]]
  BY DEF Retype, Zeroed
<1>2. TypeOK'
  BY <1>1, NType, EmptyQueue DEF TypeOK
<1>3. RingInv'
  BY <1>1, SuccOfSlot, NType DEF RingInv
<1>4. QueuesInv'
  BY <1>1, EmptyQueue DEF QueuesInv, TypeOK
<1>5. NoMissedWakeup'
  BY <1>1 DEF NoMissedWakeup
<1> QED  BY <1>2, <1>3, <1>4, <1>5

\* The five outcomes of an invocation, and retyping.
LEMMA NextCases ==
    ASSUME Next
    PROVE  \/ \E t \in Threads, m \in Msgs : SendToReceiver(t, m) \/ SendToBuffer(t, m) \/ BlockSender(t, m)
           \/ \E t \in Threads : ReceiveFromBuffer(t) \/ BlockReceiver(t)
           \/ Retype
BY DEF Next, Invoke

LEMMA EpInvStep ==
    ASSUME EpInv, [Next]_vars
    PROVE  EpInv'
<1>1. ASSUME NEW t \in Threads, NEW m \in Msgs,
             SendToReceiver(t, m) \/ SendToBuffer(t, m) \/ BlockSender(t, m)
      PROVE  EpInv'
  BY <1>1, SendToReceiverStep, SendToBufferStep, BlockSenderStep
<1>2. ASSUME NEW t \in Threads, ReceiveFromBuffer(t) \/ BlockReceiver(t)
      PROVE  EpInv'
  BY <1>2, ReceiveFromBufferStep, BlockReceiverStep
<1>3. CASE Retype
  BY <1>3, RetypeStep
<1>4. CASE UNCHANGED vars
  BY <1>4 DEF EpInv, vars, ring, TypeOK, RingInv, QueuesInv, NoMissedWakeup
<1> QED  BY <1>1, <1>2, <1>3, <1>4, NextCases

\* The inductive invariant of an endpoint: ring, queues and waiting threads agree.
THEOREM EndpointInvariant == Spec => []EpInv
BY EpInvInit, EpInvStep, PTL DEF Spec

\* Ring indices and counts stay in range, and no one is handed an empty slot.
THEOREM EndpointTypeCorrect == Spec => []TypeOK
<1>1. EpInv => TypeOK
  BY DEF EpInv
<1> QED  BY <1>1, EndpointInvariant, PTL

\* ipc_invoke_endpoint leaves no receiver waiting for a message that is there, in the
\* buffer or with a blocked sender, and no sender waiting while the buffer has room.
THEOREM NobodyWaitsForWhatIsThere == Spec => []NoMissedWakeup
<1>1. EpInv => NoMissedWakeup
  BY DEF EpInv
<1> QED  BY <1>1, EndpointInvariant, PTL

-----------------------------------------------------------------------------
(* Queues and blocked threads.                                              *)

\* A queue without duplicates has as many threads as it is long.
LEMMA DistinctCount ==
    ASSUME NEW q \in Seq(Threads), Distinct(q)
    PROVE  Cardinality(Elements(q)) = Len(q)
<1>1. Len(q) \in Nat /\ DOMAIN q = 1 .. Len(q) /\ q \in [1 .. Len(q) -> Threads]
  BY LenProperties
<1>2. q \in [1 .. Len(q) -> Elements(q)]
  BY <1>1 DEF Elements
<1>3. q \in Bijection(1 .. Len(q), Elements(q))
  BY <1>1, <1>2 DEF Bijection, Injection, IsInjective, Surjection, Elements, Distinct
<1>4. ExistsBijection(1 .. Len(q), Elements(q))
  BY <1>3 DEF ExistsBijection
<1> QED  BY <1>1, <1>4, FS_CountingElements

LEMMA ElementsInQ ==
    ASSUME NEW q \in Seq(Threads)
    PROVE  Elements(q) = {t \in Threads : InQ(q, t)}
<1>1. DOMAIN q = 1 .. Len(q) /\ \A i \in 1 .. Len(q) : q[i] \in Threads
  BY LenProperties, ElementOfSeq
<1> QED  BY <1>1 DEF Elements, InQ

LEMMA QueuedFromInv == EpInv => BlockedMeansQueued
<1> SUFFICES ASSUME EpInv PROVE BlockedMeansQueued
  OBVIOUS
<1> USE DEF EpInv
<1>1. PICK q : q = sendq \o recvq
  OBVIOUS
<1>2. CASE recvq = <<>>
  <2>1. q = sendq
    BY <1>1, <1>2, ConcatEmptySeq DEF TypeOK
  <2>2. q \in Seq(Threads) /\ Distinct(q) /\ \A t \in Threads : state[t] = "BLOCKED" <=> InQ(q, t)
    BY <1>2, <2>1, EmptyQueue DEF TypeOK, QueuesInv
  <2>3. Cardinality(Elements(q)) = Len(q) /\ Elements(q) = {t \in Threads : state[t] = "BLOCKED"}
    BY <2>2, DistinctCount, ElementsInQ
  <2> QED  BY <1>1, <2>3 DEF BlockedMeansQueued
<1>3. CASE recvq # <<>>
  <2>1. sendq = <<>> /\ q = recvq
    BY <1>1, <1>3, ConcatEmptySeq DEF TypeOK, NoMissedWakeup
  <2>2. q \in Seq(Threads) /\ Distinct(q) /\ \A t \in Threads : state[t] = "BLOCKED" <=> InQ(q, t)
    BY <2>1, EmptyQueue DEF TypeOK, QueuesInv
  <2>3. Cardinality(Elements(q)) = Len(q) /\ Elements(q) = {t \in Threads : state[t] = "BLOCKED"}
    BY <2>2, DistinctCount, ElementsInQ
  <2> QED  BY <1>1, <2>3 DEF BlockedMeansQueued
<1> QED  BY <1>2, <1>3

\* A thread is in one queue, once, exactly while ipc_invoke_endpoint has it blocked: none
\* is woken that runs, none is left blocked where no one finds it.
THEOREM BlockedThreadsAreQueued == Spec => []BlockedMeansQueued
BY EndpointInvariant, QueuedFromInv, PTL

-----------------------------------------------------------------------------
(* The endpoint implements a channel.                                       *)

\* Contents, as a function of the state
Held(b, h, c, q, p) ==
    [k \in 1 .. c + Len(q) |-> IF k <= c THEN b[(h + k - 1) % N] ELSE p[q[k - c]]]

LEMMA ContentsHeld ==
    /\ Contents = Held(buffer, head, count, sendq, payload)
    /\ Contents' = Held(buffer', head', count', sendq', payload')
BY DEF Contents, Held

\* b holds messages in the c slots from h on, and the threads in q have messages in p
Full(b, h, c) == \A k \in 0 .. c - 1 : b[(h + k) % N] \in Msgs
Loaded(q, p) == \A i \in 1 .. Len(q) : p[q[i]] \in Msgs

\* z is what the slots and then the threads hold
Lists(z, b, h, c, q, p) ==
    /\ z \in Seq(Msgs) /\ Len(z) = c + Len(q)
    /\ \A k \in 1 .. c : z[k] = b[(h + (k - 1)) % N]
    /\ \A k \in 1 .. Len(q) : z[c + k] = p[q[k]]

LEMMA HeldIsSeq ==
    ASSUME NEW b, NEW h \in 0 .. N - 1, NEW c \in 0 .. N, NEW q \in Seq(Threads), NEW p,
           Full(b, h, c), Loaded(q, p)
    PROVE  Lists(Held(b, h, c, q, p), b, h, c, q, p)
<1>1. Len(q) \in Nat /\ c \in Nat /\ h \in Nat /\ c + Len(q) \in Nat
  BY NType
<1>2. PICK n \in Nat : n = c + Len(q)
  BY <1>1
<1>3. ASSUME NEW k \in 1 .. c
      PROVE  /\ k \in 1 .. n /\ Held(b, h, c, q, p)[k] = b[(h + (k - 1)) % N]
             /\ Held(b, h, c, q, p)[k] \in Msgs
  <2>1. k \in 1 .. n /\ k <= c /\ h + k - 1 = h + (k - 1) /\ k - 1 \in 0 .. c - 1
    BY <1>1, <1>2
  <2>2. Held(b, h, c, q, p)[k] = b[(h + (k - 1)) % N]
    BY <1>2, <2>1 DEF Held
  <2> QED  BY <2>1, <2>2 DEF Full
<1>4. ASSUME NEW k \in 1 .. Len(q)
      PROVE  /\ c + k \in 1 .. n /\ Held(b, h, c, q, p)[c + k] = p[q[k]]
             /\ Held(b, h, c, q, p)[c + k] \in Msgs
  <2>1. c + k \in 1 .. n /\ ~(c + k <= c) /\ (c + k) - c = k
    BY <1>1, <1>2
  <2>2. Held(b, h, c, q, p)[c + k] = p[q[k]]
    BY <1>2, <2>1 DEF Held
  <2> QED  BY <2>1, <2>2 DEF Loaded
<1>5. \A k \in 1 .. n : k \in 1 .. c \/ (k - c \in 1 .. Len(q) /\ c + (k - c) = k)
  BY <1>1, <1>2
<1>6. \A k \in 1 .. n : Held(b, h, c, q, p)[k] \in Msgs
  BY <1>3, <1>4, <1>5
<1>7. Held(b, h, c, q, p) \in [1 .. n -> Msgs]
  BY <1>2, <1>6 DEF Held
<1>8. Held(b, h, c, q, p) \in Seq(Msgs) /\ Len(Held(b, h, c, q, p)) = n
  BY <1>7
<1> QED  BY <1>2, <1>3, <1>4, <1>8 DEF Lists

LEMMA ContentsSeq ==
    ASSUME EpInv
    PROVE  Lists(Contents, buffer, head, count, sendq, payload)
<1>1. Loaded(sendq, payload)
  BY ElementOfSeq DEF EpInv, QueuesInv, TypeOK, InQ, Loaded
<1>2. head \in 0 .. N - 1 /\ count \in 0 .. N /\ sendq \in Seq(Threads) /\ Full(buffer, head, count)
  BY DEF EpInv, TypeOK, RingInv, Full
<1> QED  BY <1>1, <1>2, HeldIsSeq, ContentsHeld

LEMMA ContentsSeqNext ==
    ASSUME EpInv'
    PROVE  Lists(Contents', buffer', head', count', sendq', payload')
<1>1. Loaded(sendq', payload')
  BY ElementOfSeq DEF EpInv, QueuesInv, TypeOK, InQ, Loaded
<1>2. head' \in 0 .. N - 1 /\ count' \in 0 .. N /\ sendq' \in Seq(Threads) /\ Full(buffer', head', count')
  BY DEF EpInv, TypeOK, RingInv, Full
<1> QED  BY <1>1, <1>2, HeldIsSeq, ContentsHeld

\* The queue of senders is shorter than the number of threads while one of them runs.
LEMMA RoomForSender ==
    ASSUME EpInv, NEW t \in Threads, state[t] = "RUN"
    PROVE  Len(sendq) < Cardinality(Threads) /\ Cardinality(Threads) \in Nat
<1> USE DEF EpInv
<1>1. IsFiniteSet(Threads) /\ Cardinality(Threads) \in Nat
  BY EndpointAssumption, FS_CardinalityType
<1>2. Elements(sendq) = {u \in Threads : InQ(sendq, u)} /\ Cardinality(Elements(sendq)) = Len(sendq)
  BY DistinctCount, ElementsInQ DEF TypeOK, QueuesInv
<1>3. t \notin Elements(sendq)
  BY <1>2 DEF QueuesInv
<1>4. Elements(sendq) \in SUBSET (Threads \ {t})
  BY <1>2, <1>3
<1>5. IsFiniteSet(Threads \ {t}) /\ Cardinality(Threads \ {t}) = Cardinality(Threads) - 1
  BY <1>1, FS_RemoveElement
<1>6. Cardinality(Elements(sendq)) <= Cardinality(Threads \ {t})
  BY <1>4, <1>5, FS_Subset
<1>7. Len(sendq) \in Nat
  BY DEF TypeOK
<1> QED  BY <1>1, <1>2, <1>5, <1>6, <1>7

\* A message put into the buffer is appended to the channel.
LEMMA BufferPuts ==
    ASSUME EpInv, EpInv', NEW t \in Threads, NEW m \in Msgs, SendToBuffer(t, m)
    PROVE  C!Put(m)
<1>1. /\ recvq = <<>> /\ count < N
      /\ buffer' = [buffer EXCEPT ![tail] = m] /\ count' = count + 1
      /\ UNCHANGED <<head, sendq, payload, last>>
  BY DEF SendToBuffer, HasRoom
<1>2. /\ count \in 0 .. N - 1 /\ head \in 0 .. N - 1 /\ buffer \in [0 .. N - 1 -> Msgs \cup {Nothing}]
      /\ tail = (head + count) % N /\ tail \in 0 .. N - 1 /\ sendq = <<>>
  BY <1>1, NType DEF EpInv, TypeOK, RingInv, NoMissedWakeup
<1>3. PICK z : z = Contents
  OBVIOUS
<1>4. PICK y : y = Contents'
  OBVIOUS
<1>5. /\ z \in Seq(Msgs) /\ Len(z) = count
      /\ \A k \in 1 .. count : z[k] = buffer[(head + (k - 1)) % N]
  BY <1>2, <1>3, ContentsSeq DEF Lists
<1>6. /\ y \in Seq(Msgs) /\ Len(y) = count + 1
      /\ \A k \in 1 .. count + 1 : y[k] = buffer'[(head + (k - 1)) % N]
  <2>1. Lists(y, buffer', head, count + 1, <<>>, payload)
    BY <1>1, <1>2, <1>4, ContentsSeqNext
  <2>2. count + 1 + Len(<<>>) = count + 1
    BY <1>2
  <2> QED  BY <2>1, <2>2 DEF Lists
<1>a. /\ Append(z, m)[count + 1] = m
      /\ \A k \in 1 .. count : Append(z, m)[k] = z[k]
  BY <1>5
<1>7. ASSUME NEW k \in 1 .. count + 1 PROVE y[k] = Append(z, m)[k]
  <2>1. k - 1 \in 0 .. N - 1 /\ k - 1 \in Int
    BY <1>2, NType
  <2>2. PICK x \in 0 .. N - 1 : x = (head + (k - 1)) % N
    BY <1>2, <2>1, SuccOfSlot
  <2>3. CASE k = count + 1
    <3>1. k - 1 = count
      BY <1>2, <2>3
    <3>2. y[k] = m
      BY <1>1, <1>2, <1>6, <3>1
    <3> QED  BY <1>a, <2>3, <3>2
  <2>4. CASE k \in 1 .. count
    <3>1. k - 1 # count
      BY <1>2, <2>4
    <3>2. x # tail
      BY <1>2, <2>1, <2>2, <3>1, SlotsApart
    <3>3. y[k] = buffer[x] /\ z[k] = buffer[x]
      BY <1>1, <1>2, <1>5, <1>6, <2>2, <2>4, <3>2
    <3> QED  BY <1>a, <2>4, <3>3
  <2>5. k = count + 1 \/ k \in 1 .. count
    BY <1>2
  <2> QED  BY <2>3, <2>4, <2>5
<1>8. Append(z, m) \in Seq(Msgs) /\ Len(Append(z, m)) = count + 1
  BY <1>5
<1>9. y = Append(z, m)
  BY <1>6, <1>7, <1>8, SeqEqual
<1>10. Len(z) < N + Cardinality(Threads)
  <2>1. Cardinality(Threads) \in Nat
    BY EndpointAssumption, FS_CardinalityType
  <2> QED  BY <1>1, <1>2, <1>5, <2>1, NType
<1> QED  BY <1>1, <1>3, <1>4, <1>9, <1>10 DEF C!Put

\* So is the message of a sender that blocks.
LEMMA BlockedSenderPuts ==
    ASSUME EpInv, EpInv', NEW t \in Threads, NEW m \in Msgs, BlockSender(t, m)
    PROVE  C!Put(m)
<1>1. /\ state[t] = "RUN" /\ ~(count < N)
      /\ payload' = [payload EXCEPT ![t] = m]
      /\ sendq' = Append(sendq, t) /\ UNCHANGED <<buffer, head, count, last>>
  BY DEF BlockSender, HasRoom, ring
<1>2. count \in 0 .. N /\ sendq \in Seq(Threads) /\ payload \in [Threads -> Msgs \cup {Nothing}]
  BY DEF EpInv, TypeOK
<1>3. Len(sendq) \in Nat /\ Len(sendq') = Len(sendq) + 1 /\ sendq'[Len(sendq) + 1] = t
      /\ \A i \in 1 .. Len(sendq) : sendq'[i] = sendq[i] /\ sendq[i] \in Threads
  BY <1>1, <1>2
<1>4. \A i \in 1 .. Len(sendq) : sendq[i] # t
  <2>1. ~InQ(sendq, t)
    BY <1>1 DEF EpInv, QueuesInv
  <2> QED  BY <2>1 DEF InQ
<1>5. PICK z : z = Contents
  OBVIOUS
<1>6. PICK y : y = Contents'
  OBVIOUS
<1>7. PICK l \in Nat : l = Len(sendq)
  BY <1>3
<1>8. /\ z \in Seq(Msgs) /\ Len(z) = count + l
      /\ \A k \in 1 .. count : z[k] = buffer[(head + (k - 1)) % N]
      /\ \A k \in 1 .. l : z[count + k] = payload[sendq[k]]
  BY <1>5, <1>7, ContentsSeq DEF Lists
<1>9. /\ y \in Seq(Msgs) /\ Len(y) = count + (l + 1)
      /\ \A k \in 1 .. count : y[k] = buffer[(head + (k - 1)) % N]
      /\ \A k \in 1 .. l + 1 : y[count + k] = payload'[sendq'[k]]
  BY <1>1, <1>3, <1>6, <1>7, ContentsSeqNext DEF Lists
<1>10. Append(z, m) \in Seq(Msgs) /\ Len(Append(z, m)) = count + l + 1
  BY <1>8
<1>a. /\ Append(z, m)[Len(z) + 1] = m
      /\ \A k \in 1 .. Len(z) : Append(z, m)[k] = z[k]
  BY <1>8
<1>11. ASSUME NEW k \in 1 .. Len(y) PROVE y[k] = Append(z, m)[k]
  <2>1. CASE k \in 1 .. count
    <3>1. k \in 1 .. Len(z) /\ y[k] = z[k]
      BY <1>2, <1>8, <1>9, <2>1
    <3> QED  BY <1>a, <3>1
  <2>2. CASE k = count + (l + 1)
    <3>1. l + 1 \in 1 .. l + 1
      OBVIOUS
    <3>2. y[k] = payload'[t]
      BY <1>3, <1>7, <1>9, <2>2, <3>1
    <3>3. payload'[t] = m /\ k = Len(z) + 1
      BY <1>1, <1>2, <1>8, <2>2
    <3> QED  BY <1>a, <3>2, <3>3
  <2>3. CASE k \in count + 1 .. count + l
    <3>1. PICK i \in 1 .. l : k = count + i
      <4>1. k - count \in 1 .. l /\ k = count + (k - count)
        BY <1>2, <2>3
      <4> QED  BY <4>1
    <3>2. y[k] = payload'[sendq[i]] /\ z[k] = payload[sendq[i]]
      BY <1>3, <1>7, <1>8, <1>9, <3>1
    <3>3. payload'[sendq[i]] = payload[sendq[i]]
      BY <1>1, <1>2, <1>3, <1>4, <1>7
    <3>4. k \in 1 .. Len(z)
      BY <1>2, <1>8, <3>1
    <3> QED  BY <1>a, <3>2, <3>3, <3>4
  <2>4. k \in 1 .. count \/ k = count + (l + 1) \/ k \in count + 1 .. count + l
    BY <1>2, <1>9
  <2> QED  BY <2>1, <2>2, <2>3, <2>4
<1>12. y = Append(z, m)
  <2>1. Len(y) = Len(Append(z, m))
    BY <1>2, <1>9, <1>10
  <2> QED  BY <1>9, <1>10, <1>11, <2>1, SeqEqual
<1>13. Len(z) < N + Cardinality(Threads)
  BY <1>1, <1>2, <1>7, <1>8, RoomForSender, NType
<1> QED  BY <1>1, <1>5, <1>6, <1>12, <1>13 DEF C!Put

\* A receive takes the first message of the channel, whether or not a blocked sender's
\* message moves into the buffer at the same time.
LEMMA ReceiverTakes ==
    ASSUME EpInv, EpInv', NEW t \in Threads, ReceiveFromBuffer(t)
    PROVE  C!Take(t)
<1>1. /\ count \in 1 .. N /\ head' = Succ(head) /\ last' = <<t, buffer[head]>>
      /\ payload' = [payload EXCEPT ![t] = buffer[head]]
  BY ReceiveEffect
<1>2. /\ head \in 0 .. N - 1 /\ sendq \in Seq(Threads) /\ payload \in [Threads -> Msgs \cup {Nothing}]
      /\ buffer \in [0 .. N - 1 -> Msgs \cup {Nothing}]
  BY DEF EpInv, TypeOK
<1>3. \A k \in 0 .. N - 1 : (head' + k) % N = (head + (k + 1)) % N /\ (head + k) % N \in 0 .. N - 1
  BY <1>1, <1>2, SuccOfSlot
<1>4. PICK z : z = Contents
  OBVIOUS
<1>5. PICK y : y = Contents'
  OBVIOUS
<1>6. PICK l \in Nat : l = Len(sendq)
  BY <1>2
<1>7. /\ z \in Seq(Msgs) /\ Len(z) = count + l
      /\ \A k \in 1 .. count : z[k] = buffer[(head + (k - 1)) % N]
      /\ \A k \in 1 .. l : z[count + k] = payload[sendq[k]]
  BY <1>4, <1>6, ContentsSeq DEF Lists
<1>8. z # <<>> /\ Len(z) > 0
  BY <1>1, <1>7, NType
<1>9. /\ Tail(z) \in Seq(Msgs) /\ Len(Tail(z)) = count + l - 1 /\ Head(z) = z[1]
      /\ \A k \in 1 .. count + l - 1 : Tail(z)[k] = z[k + 1]
  <2>1. /\ Tail(z) \in Seq(Msgs) /\ Len(Tail(z)) = Len(z) - 1 /\ Head(z) = z[1]
        /\ \A k \in 1 .. Len(Tail(z)) : Tail(z)[k] = z[k + 1]
    BY <1>7, <1>8, HeadTailProperties
  <2>2. Len(Tail(z)) = count + l - 1
    BY <1>1, <1>7, <2>1
  <2> QED  BY <2>1, <2>2
<1>10. z[1] = buffer[head]
  <2>1. 1 \in 1 .. count /\ 1 - 1 = 0 /\ (head + 0) % N = head
    BY <1>1, <1>2, NType, SuccOfSlot
  <2>2. z[1] = buffer[(head + (1 - 1)) % N]
    BY <1>7, <2>1
  <2> QED  BY <2>1, <2>2
<1>11. y \in Seq(Msgs) /\ Lists(y, buffer', head', count', sendq', payload')
  BY <1>5, ContentsSeqNext DEF Lists
<1>12. Len(y) = count + l - 1 /\ \A k \in 1 .. count + l - 1 : y[k] = z[k + 1]
  <2>1. CASE sendq = <<>>
    <3>1. count' = count - 1 /\ UNCHANGED <<buffer, sendq>> /\ l = 0
      BY <1>6, <2>1, ReceiveEffect
    <3>2. Len(y) = count - 1
      BY <1>1, <1>11, <2>1, <3>1 DEF Lists
    <3>3. ASSUME NEW k \in 1 .. count - 1 PROVE y[k] = z[k + 1]
      <4>1. k + 1 \in 1 .. count /\ k - 1 \in 0 .. N - 1 /\ (k - 1) + 1 = (k + 1) - 1
        BY <1>1, NType
      <4>2. y[k] = buffer[(head' + (k - 1)) % N]
        BY <1>11, <3>1 DEF Lists
      <4>3. (head' + (k - 1)) % N = (head + ((k - 1) + 1)) % N
        BY <1>3, <4>1
      <4>4. z[k + 1] = buffer[(head + ((k + 1) - 1)) % N]
        BY <1>7, <4>1
      <4> QED  BY <4>1, <4>2, <4>3, <4>4
    <3>4. count + l - 1 = count - 1
      BY <1>1, <3>1
    <3> QED  BY <3>2, <3>3, <3>4
  <2>2. CASE sendq # <<>>
    <3>1. /\ count = N /\ tail = head /\ Head(sendq) # t
          /\ buffer' = [buffer EXCEPT ![head] = payload[Head(sendq)]]
          /\ count' = count /\ sendq' = Tail(sendq)
      BY <2>2, ReceiveEffect
    <3>2. /\ l > 0 /\ Len(sendq') = l - 1 /\ Head(sendq) = sendq[1]
          /\ \A i \in 1 .. l - 1 : sendq'[i] = sendq[i + 1]
      BY <1>2, <1>6, <2>2, <3>1
    <3>3. Len(y) = count + l - 1
      BY <1>1, <1>11, <3>1, <3>2 DEF Lists
    <3>4. ASSUME NEW k \in 1 .. N - 1 PROVE y[k] = z[k + 1]
      <4>1. /\ k + 1 \in 1 .. count /\ k \in 1 .. count /\ k - 1 \in 0 .. N - 1
            /\ (k - 1) + 1 = k /\ (k + 1) - 1 = k /\ k \in 0 .. N - 1 /\ k # 0
        BY <3>1, NType
      <4>2. y[k] = buffer'[(head' + (k - 1)) % N]
        BY <1>11, <3>1, <4>1 DEF Lists
      <4>3. PICK x \in 0 .. N - 1 : x = (head + k) % N
        BY <1>3, <4>1
      <4>4. (head' + (k - 1)) % N = x
        BY <1>3, <4>1, <4>3
      <4>5. z[k + 1] = buffer[x]
        BY <1>7, <4>1, <4>3
      <4>6. x # head
        <5>1. 0 \in 0 .. N - 1
          BY NType
        <5>2. (head + 0) % N = head
          BY <1>2, <5>1, SuccOfSlot
        <5> QED  BY <1>2, <4>1, <4>3, <5>1, <5>2, SlotsApart
      <4> QED  BY <1>2, <3>1, <4>2, <4>4, <4>5, <4>6
    <3>5. y[N] = z[N + 1]
      <4>1. N \in 1 .. count /\ N - 1 \in 0 .. N - 1 /\ (N - 1) + 1 = N /\ 1 \in 1 .. l
        BY <3>1, <3>2, NType
      <4>2. y[N] = buffer'[(head' + (N - 1)) % N]
        BY <1>11, <3>1, <4>1 DEF Lists
      <4>3. (head' + (N - 1)) % N = head
        BY <1>2, <1>3, <4>1, SuccOfSlot
      <4>4. z[count + 1] = payload[sendq[1]]
        BY <1>7, <4>1
      <4> QED  BY <1>2, <3>1, <3>2, <4>2, <4>3, <4>4
    <3>6. ASSUME NEW i \in 1 .. l - 1 PROVE y[N + i] = z[N + i + 1]
      <4>1. i + 1 \in 1 .. l /\ 1 \in 1 .. l /\ i + 1 # 1 /\ N + i + 1 = count + (i + 1)
        BY <3>1, <3>2, NType
      <4>2. y[N + i] = payload'[sendq'[i]]
        BY <1>11, <3>1, <3>2 DEF Lists
      <4>3. sendq'[i] = sendq[i + 1] /\ sendq[i + 1] \in Threads
        BY <1>2, <1>6, <3>2, <4>1
      <4>4. sendq[i + 1] # t
        <5>1. InQ(sendq, sendq[i + 1])
          BY <1>6, <4>1 DEF InQ
        <5>2. state[sendq[i + 1]] = "BLOCKED"
          BY <4>3, <5>1 DEF EpInv, QueuesInv
        <5>3. state[t] = "RUN"
          BY DEF ReceiveFromBuffer
        <5> QED  BY <5>2, <5>3
      <4>5. payload'[sendq[i + 1]] = payload[sendq[i + 1]]
        BY <1>1, <1>2, <4>3, <4>4
      <4>6. z[count + (i + 1)] = payload[sendq[i + 1]]
        BY <1>7, <4>1
      <4> QED  BY <4>1, <4>2, <4>3, <4>5, <4>6
    <3>7. ASSUME NEW k \in 1 .. count + l - 1 PROVE y[k] = z[k + 1]
      <4>1. k \in 1 .. N - 1 \/ k = N \/ (k - N \in 1 .. l - 1 /\ N + (k - N) = k)
        BY <3>1, NType
      <4> QED  BY <3>4, <3>5, <3>6, <4>1
    <3> QED  BY <3>3, <3>7
  <2> QED  BY <2>1, <2>2
<1>13. y = Tail(z)
  <2>1. \A k \in 1 .. Len(y) : y[k] = Tail(z)[k]
    BY <1>9, <1>12
  <2>2. Len(y) = Len(Tail(z))
    BY <1>9, <1>12
  <2> QED  BY <1>9, <1>11, <2>1, <2>2, SeqEqual
<1> QED  BY <1>1, <1>4, <1>5, <1>8, <1>9, <1>10, <1>13 DEF C!Take

\* A direct hand-over happens only when the channel is empty.
LEMMA HandOverGives ==
    ASSUME EpInv, EpInv', NEW t \in Threads, NEW m \in Msgs, SendToReceiver(t, m)
    PROVE  \E r \in Threads : C!Give(r, m)
<1>1. PICK r \in Threads : r = Head(recvq)
  BY Dequeue DEF SendToReceiver, EpInv, TypeOK, QueuesInv
<1>2. recvq # <<>> /\ last' = <<r, m>> /\ UNCHANGED <<count, sendq>>
  BY <1>1 DEF SendToReceiver, ring
<1>3. count = 0 /\ sendq = <<>>
  BY <1>2 DEF EpInv, NoMissedWakeup
<1>4. Contents = <<>> /\ Contents' = <<>>
  BY <1>2, <1>3 DEF Contents
<1>5. C!Give(r, m)
  BY <1>2, <1>4 DEF C!Give
<1> QED  BY <1>5

LEMMA ChannelStep ==
    ASSUME EpInv, EpInv', [Next]_vars
    PROVE  [C!Next]_<<Contents, last>>
<1>1. ASSUME NEW t \in Threads, NEW m \in Msgs,
             SendToReceiver(t, m) \/ SendToBuffer(t, m) \/ BlockSender(t, m)
      PROVE  C!Next
  BY <1>1, HandOverGives, BufferPuts, BlockedSenderPuts DEF C!Next
<1>2. ASSUME NEW t \in Threads, ReceiveFromBuffer(t) PROVE C!Next
  BY <1>2, ReceiverTakes DEF C!Next
<1>3. ASSUME NEW t \in Threads, BlockReceiver(t) PROVE UNCHANGED <<Contents, last>>
  <2>1. count = 0 /\ UNCHANGED <<count, sendq, last>>
    BY <1>3 DEF BlockReceiver, ring
  <2>2. sendq = <<>>
    BY <2>1, NType DEF EpInv, NoMissedWakeup
  <2> QED  BY <2>1, <2>2 DEF Contents
<1>4. CASE Retype
  <2>1. count' = 0 /\ sendq' = <<>> /\ last' = last
    BY <1>4 DEF Retype, Zeroed
  <2>2. Contents' = <<>>
    BY <2>1 DEF Contents
  <2> QED  BY <2>1, <2>2 DEF C!Next, C!Reset
<1>5. CASE UNCHANGED vars
  BY <1>5 DEF vars, ring, Contents
<1> QED  BY <1>1, <1>2, <1>3, <1>4, <1>5, NextCases

LEMMA ChannelInit == Init => C!Init
BY DEF Init, C!Init, Contents, Nothing

\* Every step of an endpoint is a step of the abstract channel or leaves it alone:
\* through the ring buffer, the payload of a blocked sender or a direct hand-over,
\* messages come out whole, once and in the order in which they were sent.
THEOREM EndpointImplementsChannel == Spec => IsChannel
BY ChannelInit, ChannelStep, EndpointInvariant, PTL DEF Spec, IsChannel, C!Spec

\* Together: the wait queues of ipc_invoke_endpoint are exact.
THEOREM WaitQueuesAreExact == Spec => []WaitersAreExact
BY NobodyWaitsForWhatIsThere, BlockedThreadsAreQueued, PTL DEF WaitersAreExact
=============================================================================
