---------------------------- MODULE ProtocolProofs ----------------------------
(***************************************************************************)
(* Proofs about PersistentProtocol, for every set of redialing ends and    *)
(* any number of messages and sockets.  ProtocolInv is inductive.  What    *)
(* makes it so is Genuine: whatever is still under way or may be sent      *)
(* again, however old, claims nothing its receiver or its sender could     *)
(* disown.                                                                 *)
(***************************************************************************)
EXTENDS PersistentProtocol, SequenceTheorems, TLAPS

(* What end e may find on its wire: an ack for what its peer has received, *)
(* a number its peer has given out.                                        *)
Genuine(e) ==
    {m \in Messages : m.ack <= incomingMsgId[Peer(e)] /\ m.id <= outgoingMsgId[Peer(e)]}

(* The messages of queue q have the numbers after base.                    *)
Numbered(q, base) == \A i \in 1..Len(q) : q[i].id = base + i

CountsOK ==
    \A e \in Endpoints :
        /\ outgoingAckId[e] <= incomingMsgId[Peer(e)]
        /\ incomingMsgId[Peer(e)] <= outgoingMsgId[e]
        /\ incomingAckId[e] <= incomingMsgId[e]

QueueOK ==
    \A e \in Endpoints :
        /\ outgoingUnackMsg[e] \in Seq(Genuine(Peer(e)))
        /\ Len(outgoingUnackMsg[e]) = outgoingMsgId[e] - outgoingAckId[e]
        /\ Numbered(outgoingUnackMsg[e], outgoingAckId[e])

WiresOK == \A e \in Endpoints : wire[e] \in Seq(Genuine(e)) /\ next[e] \in Seq(Genuine(e))

DeliveredOK == \A e \in Endpoints : delivered[e] = [i \in 1..incomingMsgId[e] |-> i]

ProtocolInv == ProtocolTypeOK /\ CountsOK /\ QueueOK /\ WiresOK /\ DeliveredOK

(* No step takes a number back.                                            *)
Grows ==
    \A e \in Endpoints :
        /\ outgoingMsgId'[e] \in Nat /\ outgoingMsgId[e] <= outgoingMsgId'[e]
        /\ incomingMsgId'[e] \in Nat /\ incomingMsgId[e] <= incomingMsgId'[e]

LEMMA AtMostIsTransitive ==
    \A i, j, k \in Nat : i <= j /\ j <= k => i <= k
  OBVIOUS

LEMMA PeerFacts ==
    \A e \in Endpoints :
        /\ Peer(e) \in Endpoints /\ Peer(e) # e /\ Peer(Peer(e)) = e
        /\ \A x \in Endpoints : x = e \/ x = Peer(e)
  BY DEF Endpoints, Peer

LEMMA GenuineGrows ==
    ASSUME ProtocolTypeOK, Grows, NEW e \in Endpoints
    PROVE  Genuine(e) \subseteq Genuine(e)'
  <1>1. SUFFICES ASSUME NEW m \in Genuine(e)
                 PROVE  /\ m \in Messages /\ m.ack <= incomingMsgId'[Peer(e)]
                        /\ m.id <= outgoingMsgId'[Peer(e)]
    BY DEF Genuine
  <1>2. m \in Messages /\ m.ack \in Nat /\ m.id \in Nat
    BY <1>1 DEF Genuine, Messages
  <1>3. m.ack <= incomingMsgId[Peer(e)] /\ m.id <= outgoingMsgId[Peer(e)]
    BY <1>1 DEF Genuine
  <1>4. incomingMsgId[Peer(e)] \in Nat /\ outgoingMsgId[Peer(e)] \in Nat
    BY PeerFacts DEF ProtocolTypeOK
  <1> QED
    BY <1>2, <1>3, <1>4, PeerFacts DEF Grows

LEMMA GenuineSeqGrows ==
    ASSUME ProtocolTypeOK, Grows, NEW e \in Endpoints, NEW s \in Seq(Genuine(e))
    PROVE  s \in Seq(Genuine(e)')
  BY GenuineGrows, SeqMonotonic

LEMMA GenuineTyped ==
    ASSUME NEW e \in Endpoints, NEW s \in Seq(Genuine(e))
    PROVE  s \in Seq(Messages)
  <1>1. Genuine(e) \subseteq Messages
    BY DEF Genuine
  <1> QED
    BY <1>1, SeqMonotonic

-----------------------------------------------------------------------------
(* The loop over the queue removes exactly the acknowledged messages.      *)
LEMMA PoppedIsDifference ==
    ASSUME NEW q \in Seq(Messages), NEW base \in Nat, NEW ack \in Nat,
           base < ack, ack <= base + Len(q),
           Numbered(q, base)
    PROVE  Popped(q, ack) = ack - base
  <1> DEFINE P(k) == /\ \A i \in 1..k : q[i].id <= ack
                     /\ k = Len(q) \/ q[k + 1].id > ack
  <1>1. Len(q) \in Nat
    BY LenProperties
  <1>2. ack - base \in 0..Len(q) /\ P(ack - base)
    <2>1. ack - base \in 1..Len(q)
      BY <1>1
    <2>2. ASSUME NEW i \in 1..(ack - base) PROVE q[i].id <= ack
      BY <2>1, <1>1 DEF Numbered
    <2>3. ASSUME ack - base # Len(q) PROVE q[ack - base + 1].id > ack
      <3>1. ack - base + 1 \in 1..Len(q)
        BY <2>1, <2>3, <1>1
      <3> QED
        BY <3>1 DEF Numbered
    <2> QED
      BY <2>1, <2>2, <2>3
  <1>3. ASSUME NEW k \in 0..Len(q), P(k) PROVE k = ack - base
    <2>1. ~(k < ack - base)
      <3>1. SUFFICES ASSUME k < ack - base PROVE FALSE
        OBVIOUS
      <3>2. k + 1 \in 1..Len(q) /\ k # Len(q)
        BY <3>1, <1>1
      <3>3. q[k + 1].id = base + (k + 1) /\ q[k + 1].id > ack
        BY <3>2, <1>3 DEF Numbered
      <3> QED
        BY <3>1, <3>3
    <2>2. ~(k > ack - base)
      <3>1. SUFFICES ASSUME k > ack - base PROVE FALSE
        OBVIOUS
      <3>2. k \in 1..k /\ k \in 1..Len(q)
        BY <3>1, <1>1
      <3>3. q[k].id = base + k /\ q[k].id <= ack
        BY <3>2, <1>3 DEF Numbered
      <3> QED
        BY <3>1, <3>3
    <2> QED
      BY <2>1, <2>2
  <1>4. Popped(q, ack) = CHOOSE k \in 0..Len(q) : P(k)
    BY DEF Popped
  <1>5. Popped(q, ack) \in 0..Len(q) /\ P(Popped(q, ack))
    <2> HIDE DEF P
    <2> QED
      BY <1>2, <1>4
  <1> QED
    BY <1>3, <1>5

Remaining(q, ack) == SubSeq(q, Popped(q, ack) + 1, Len(q))

(* What is left of a queue that starts after base.                         *)
LEMMA Remainder ==
    ASSUME NEW S \in SUBSET Messages, NEW q \in Seq(S), NEW base \in Nat, NEW ack \in Nat,
           base < ack, ack <= base + Len(q),
           Numbered(q, base)
    PROVE  /\ Remaining(q, ack) \in Seq(S)
           /\ Len(Remaining(q, ack)) = base + Len(q) - ack
           /\ Numbered(Remaining(q, ack), ack)
  <1> DEFINE k == ack - base
             u == Remaining(q, ack)
  <1>1. q \in Seq(Messages) /\ Len(q) \in Nat
    BY SeqMonotonic, LenProperties
  <1>2. Popped(q, ack) = k /\ u = SubSeq(q, k + 1, Len(q))
    BY <1>1, PoppedIsDifference DEF Remaining
  <1>3. k \in 1..Len(q)
    BY <1>1
  <1>4. \A i \in (k + 1)..Len(q) : q[i] \in S
    BY <1>1, <1>3, ElementOfSeq
  <1>5. k + 1 \in Int /\ Len(q) \in Int /\ \A i \in (k + 1)..Len(q) : q[i] \in S
    BY <1>1, <1>3, <1>4
  <1>6. u \in Seq(S) /\ Len(u) = Len(q) - k
    <2>1. /\ u \in Seq(S)
          /\ Len(u) = IF k + 1 <= Len(q) THEN Len(q) - (k + 1) + 1 ELSE 0
      <3> HIDE DEF k, u
      <3> QED
        BY <1>2, <1>5, SubSeqProperties
    <2> HIDE DEF u
    <2> QED
      BY <2>1, <1>1, <1>3
  <1>7. ASSUME NEW i \in 1..Len(u) PROVE u[i].id = ack + i
    <2>1. \A j \in 1..(Len(q) - (k + 1) + 1) : u[j] = q[(k + 1) + j - 1]
      <3> HIDE DEF k, u
      <3> QED
        BY <1>2, <1>5, SubSeqProperties
    <2> HIDE DEF u
    <2>2. i \in 1..(Len(q) - (k + 1) + 1) /\ (k + 1) + i - 1 = k + i
          /\ k + i \in 1..Len(q) /\ base + (k + i) = ack + i
      BY <1>1, <1>3, <1>6
    <2> HIDE DEF k
    <2>3. u[i] = q[k + i] /\ k + i \in 1..Len(q)
      BY <2>1, <2>2
    <2> QED
      BY <2>2, <2>3 DEF Numbered
  <1> HIDE DEF u
  <1>8. Numbered(u, ack)
    BY <1>7 DEF Numbered
  <1>9. Len(u) = base + Len(q) - ack
    BY <1>1, <1>6
  <1> USE DEF u
  <1> QED
    BY <1>6, <1>8, <1>9

-----------------------------------------------------------------------------
(* The parts of the invariant that a step which only moves messages keeps. *)
LEMMA TransferKeepsWires ==
    ASSUME ProtocolInv, Grows, NEW e \in Endpoints, NEW rest, NEW ms,
           rest \in Seq(Genuine(e)'), ms \in Seq(Genuine(Peer(e))'),
           Transfer(e, rest, ms)
    PROVE  WiresOK' /\ wire' \in [Endpoints -> Seq(Messages)]
           /\ next' \in [Endpoints -> Seq(Messages)]
  <1>1. ASSUME NEW x \in Endpoints
        PROVE  wire[x] \in Seq(Genuine(x)') /\ next[x] \in Seq(Genuine(x)')
    BY GenuineSeqGrows DEF ProtocolInv, WiresOK
  <1>2. ASSUME NEW x \in Endpoints
        PROVE  wire'[x] \in Seq(Genuine(x)') /\ next'[x] \in Seq(Genuine(x)')
    <2>1. CASE x = e
      <3>1. wire'[x] = rest /\ next'[x] = next[x]
        BY <2>1, PeerFacts DEF Transfer
      <3> QED
        BY <3>1, <2>1, <1>1
    <2>2. CASE x = Peer(e)
      <3>1. /\ wire'[x] = wire[x] \/ wire'[x] = wire[x] \o ms
            /\ next'[x] = next[x] \/ next'[x] = next[x] \o ms
        BY <2>2, PeerFacts DEF Transfer
      <3>2. ms \in Seq(Genuine(x)')
        BY <2>2
      <3> QED
        BY <3>1, <3>2, <1>1, ConcatProperties
    <2> QED
      BY <2>1, <2>2, PeerFacts
  <1>3. ASSUME NEW x \in Endpoints
        PROVE  wire'[x] \in Seq(Messages) /\ next'[x] \in Seq(Messages)
    <2>1. Genuine(x)' \subseteq Messages
      BY DEF Genuine
    <2> QED
      BY <2>1, <1>2, SeqMonotonic
  <1>4. wire' = [x \in Endpoints |-> wire'[x]] /\ next' = [x \in Endpoints |-> next'[x]]
    BY DEF Transfer
  <1> QED
    BY <1>2, <1>3, <1>4 DEF WiresOK

LEMMA MoveKeepsWires ==
    ASSUME ProtocolInv, Grows, NEW e \in Endpoints, Move(e)
    PROVE  WiresOK' /\ wire' \in [Endpoints -> Seq(Messages)]
           /\ next' \in [Endpoints -> Seq(Messages)]
           /\ ahead' \in Endpoints \cup {"none"} /\ moves' \in Nat
  <1>1. ASSUME NEW x \in Endpoints
        PROVE  /\ wire'[x] = IF x = e THEN next[x] ELSE wire[x]
               /\ next'[x] = <<>>
    BY DEF Move, ProtocolInv, ProtocolTypeOK
  <1>2. ASSUME NEW x \in Endpoints
        PROVE  wire'[x] \in Seq(Genuine(x)') /\ next'[x] \in Seq(Genuine(x)')
    <2>1. wire[x] \in Seq(Genuine(x)') /\ next[x] \in Seq(Genuine(x)')
      BY GenuineSeqGrows DEF ProtocolInv, WiresOK
    <2>2. <<>> \in Seq(Genuine(x)')
      BY EmptySeq
    <2> QED
      BY <1>1, <2>1, <2>2
  <1>3. wire' \in [Endpoints -> Seq(Messages)] /\ next' \in [Endpoints -> Seq(Messages)]
    BY EmptySeq DEF Move, ProtocolInv, ProtocolTypeOK
  <1>4. ahead' \in Endpoints \cup {"none"} /\ moves' \in Nat
    BY DEF Move, ProtocolInv, ProtocolTypeOK
  <1> QED
    BY <1>2, <1>3, <1>4 DEF WiresOK

(* The last message known to be received, and the queue, after an ack that *)
(* may be older than what is known.                                        *)
Later(ack, base) == IF ack > base THEN ack ELSE base

Left(q, ack, base) == IF ack > base THEN Remaining(q, ack) ELSE q

LEMMA Shortened ==
    ASSUME NEW S \in SUBSET Messages, NEW q \in Seq(S), NEW base \in Nat, NEW out \in Nat,
           NEW ack \in Nat, ack <= out, Len(q) = out - base, Numbered(q, base)
    PROVE  /\ Left(q, ack, base) \in Seq(S)
           /\ Len(Left(q, ack, base)) = out - Later(ack, base)
           /\ Numbered(Left(q, ack, base), Later(ack, base))
  <1>1. CASE ack > base
    <2>1. base < ack /\ ack <= base + Len(q) /\ base + Len(q) = out
          /\ Later(ack, base) = ack
      BY <1>1, LenProperties DEF Later
    <2>2. Left(q, ack, base) = Remaining(q, ack)
      BY <1>1 DEF Left
    <2>3. /\ Remaining(q, ack) \in Seq(S)
          /\ Len(Remaining(q, ack)) = base + Len(q) - ack
          /\ Numbered(Remaining(q, ack), ack)
      BY <2>1, Remainder
    <2> QED
      BY <2>1, <2>2, <2>3
  <1>2. CASE ~(ack > base)
    BY <1>2 DEF Left, Later
  <1> QED
    BY <1>1, <1>2

(* The messages an end makes, if they tell the numbers of its new state.   *)
LEMMA AckIsGenuine ==
    ASSUME NEW e \in Endpoints, NEW n \in Nat, n <= incomingMsgId[e],
           incomingMsgId[e] \in Nat, outgoingMsgId[e] \in Nat
    PROVE  Ack(n) \in Genuine(Peer(e))
  BY PeerFacts DEF Ack, Genuine, Messages, Types

LEMMA RequestIsGenuine ==
    ASSUME NEW e \in Endpoints, incomingMsgId[e] \in Nat, outgoingMsgId[e] \in Nat
    PROVE  ReplayRequest \in Genuine(Peer(e))
  BY PeerFacts DEF ReplayRequest, Genuine, Messages, Types

(* What noting an acknowledgement leaves behind.                           *)
LEMMA ReadKeepsQueue ==
    ASSUME ProtocolInv, NEW e \in Endpoints, NEW type, Read(e, type), Grows,
           incomingMsgId' \in [Endpoints -> Nat]
    PROVE  /\ outgoingAckId' \in [Endpoints -> Nat]
           /\ outgoingUnackMsg' \in [Endpoints -> Seq(Messages)]
           /\ QueueOK'
           /\ \A x \in Endpoints : outgoingAckId'[x] <= incomingMsgId[Peer(x)]
  <1> DEFINE m == Head(wire[e])
             q == outgoingUnackMsg[e]
             o == IF m.ack > outgoingAckId[e] THEN m.ack ELSE outgoingAckId[e]
             u == Unacked(e, m.ack)
  <1>1. m \in Genuine(e) /\ m \in Messages /\ m.ack \in Nat
    <2>1. m \in Genuine(e)
      BY HeadTailProperties DEF ProtocolInv, WiresOK, Read
    <2> QED
      BY <2>1 DEF Genuine, Messages
  <1>2. /\ m.ack <= incomingMsgId[Peer(e)]
        /\ outgoingAckId[e] \in Nat /\ incomingMsgId[Peer(e)] \in Nat /\ outgoingMsgId[e] \in Nat
        /\ outgoingAckId[e] <= incomingMsgId[Peer(e)] /\ incomingMsgId[Peer(e)] <= outgoingMsgId[e]
    BY <1>1, PeerFacts DEF Genuine, ProtocolInv, ProtocolTypeOK, CountsOK
  <1>3. /\ q \in Seq(Genuine(Peer(e))) /\ Len(q) = outgoingMsgId[e] - outgoingAckId[e]
        /\ Numbered(q, outgoingAckId[e])
    BY DEF ProtocolInv, QueueOK
  <1>4. /\ u \in Seq(Genuine(Peer(e))) /\ Len(u) = outgoingMsgId[e] - o
        /\ Numbered(u, o)
    <2>1. u = IF m.ack > outgoingAckId[e] THEN Remaining(q, m.ack) ELSE q
      BY DEF Unacked, Remaining
    <2>2. Genuine(Peer(e)) \subseteq Messages
      BY DEF Genuine
    <2>3. m.ack \in Nat /\ m.ack <= outgoingMsgId[e]
      BY <1>1, <1>2
    <2>4. u = Left(q, m.ack, outgoingAckId[e]) /\ o = Later(m.ack, outgoingAckId[e])
      BY <2>1 DEF Left, Later
    <2>5. Genuine(Peer(e)) \in SUBSET Messages
      BY <2>2
    <2> HIDE DEF u, o, m, q
    <2>6. /\ Left(q, m.ack, outgoingAckId[e]) \in Seq(Genuine(Peer(e)))
          /\ Len(Left(q, m.ack, outgoingAckId[e]))
                = outgoingMsgId[e] - Later(m.ack, outgoingAckId[e])
          /\ Numbered(Left(q, m.ack, outgoingAckId[e]), Later(m.ack, outgoingAckId[e]))
      BY <1>2, <1>3, <2>3, <2>5, Shortened
    <2> QED
      BY <2>4, <2>6
  <1>5. o \in Nat /\ o <= incomingMsgId[Peer(e)]
    BY <1>1, <1>2
  <1>6. /\ outgoingAckId' = [outgoingAckId EXCEPT ![e] = o]
        /\ outgoingUnackMsg' = [outgoingUnackMsg EXCEPT ![e] = u]
        /\ outgoingMsgId' = outgoingMsgId
    BY DEF Read
  <1>7. u \in Seq(Messages)
    BY <1>4, GenuineTyped, PeerFacts
  <1> HIDE DEF u, o, m, q
  <1>8. ASSUME NEW x \in Endpoints
        PROVE  /\ outgoingUnackMsg'[x] \in Seq(Genuine(Peer(x))')
               /\ Len(outgoingUnackMsg'[x]) = outgoingMsgId'[x] - outgoingAckId'[x]
               /\ Numbered(outgoingUnackMsg'[x], outgoingAckId'[x])
    <2>1. /\ outgoingUnackMsg'[x] \in Seq(Genuine(Peer(x)))
          /\ Len(outgoingUnackMsg'[x]) = outgoingMsgId'[x] - outgoingAckId'[x]
          /\ Numbered(outgoingUnackMsg'[x], outgoingAckId'[x])
      <3>1. CASE x = e
        BY <3>1, <1>4, <1>6 DEF ProtocolInv, ProtocolTypeOK
      <3>2. CASE x # e
        <4>1. outgoingUnackMsg'[x] = outgoingUnackMsg[x] /\ outgoingAckId'[x] = outgoingAckId[x]
          BY <3>2, <1>6 DEF ProtocolInv, ProtocolTypeOK
        <4> QED
          BY <4>1, <1>6 DEF ProtocolInv, QueueOK
      <3> QED
        BY <3>1, <3>2
    <2> QED
      BY <2>1, GenuineSeqGrows, PeerFacts DEF ProtocolInv
  <1>9. outgoingAckId' \in [Endpoints -> Nat] /\ outgoingUnackMsg' \in [Endpoints -> Seq(Messages)]
    BY <1>5, <1>6, <1>7 DEF ProtocolInv, ProtocolTypeOK
  <1>10. ASSUME NEW x \in Endpoints PROVE outgoingAckId'[x] <= incomingMsgId[Peer(x)]
    BY <1>5, <1>6 DEF ProtocolInv, ProtocolTypeOK, CountsOK
  <1> QED
    BY <1>8, <1>9, <1>10 DEF QueueOK

-----------------------------------------------------------------------------
Count(n) == [i \in 1..n |-> i]

LEMMA CountIsSeq ==
    ASSUME NEW n \in Nat
    PROVE  Count(n) \in Seq(Nat) /\ Len(Count(n)) = n /\ Append(Count(n), n + 1) = Count(n + 1)
  <1>1. Count(n) \in [1..n -> Nat] /\ Count(n + 1) \in [1..(n + 1) -> Nat]
    BY DEF Count
  <1>2. Count(n) \in Seq(Nat) /\ Count(n + 1) \in Seq(Nat)
    BY <1>1, SeqDef
  <1>3. Len(Count(n)) = n /\ Len(Count(n + 1)) = n + 1
    BY <1>1, <1>2, LenProperties
  <1>4. /\ Append(Count(n), n + 1) \in Seq(Nat)
        /\ Len(Append(Count(n), n + 1)) = n + 1
        /\ \A i \in 1..n : Append(Count(n), n + 1)[i] = Count(n)[i]
        /\ Append(Count(n), n + 1)[n + 1] = n + 1
    BY <1>2, <1>3, AppendProperties
  <1>5. ASSUME NEW i \in 1..(n + 1) PROVE Append(Count(n), n + 1)[i] = Count(n + 1)[i]
    <2>1. CASE i = n + 1
      BY <2>1, <1>4 DEF Count
    <2>2. CASE i \in 1..n
      BY <2>2, <1>4 DEF Count
    <2>3. i = n + 1 \/ i \in 1..n
      OBVIOUS
    <2> QED
      BY <2>1, <2>2, <2>3
  <1> QED
    BY <1>2, <1>3, <1>4, <1>5, SeqEqual

LEMMA InitInv == Init => ProtocolInv
  <1> SUFFICES ASSUME Init PROVE ProtocolInv
    OBVIOUS
  <1>1. ProtocolTypeOK
    BY EmptySeq DEF Init, ProtocolTypeOK
  <1>2. CountsOK
    BY PeerFacts DEF Init, CountsOK
  <1>3. QueueOK
    BY EmptySeq DEF Init, QueueOK, Numbered
  <1>4. WiresOK
    BY EmptySeq DEF Init, WiresOK
  <1>5. DeliveredOK
    <2>1. Count(0) = <<>>
      BY CountIsSeq, EmptySeq
    <2> QED
      BY <2>1 DEF Init, DeliveredOK, Count
  <1> QED
    BY <1>1, <1>2, <1>3, <1>4, <1>5 DEF ProtocolInv

(* A step that leaves the numbers and the queues alone, or only notes what *)
(* it acknowledges.                                                        *)
LEMMA QuietInv ==
    ASSUME ProtocolInv,
           UNCHANGED <<outgoingMsgId, outgoingAckId, outgoingUnackMsg, incomingMsgId, delivered>>,
           incomingAckId' \in [Endpoints -> Nat],
           \A e \in Endpoints : incomingAckId'[e] <= incomingMsgId[e],
           ProtocolTypeOK', WiresOK'
    PROVE  ProtocolInv'
  <1>1. CountsOK'
    BY DEF ProtocolInv, CountsOK
  <1>2. \A e : Genuine(e)' = Genuine(e)
    BY DEF Genuine
  <1>3. QueueOK'
    BY <1>2 DEF ProtocolInv, QueueOK
  <1>4. DeliveredOK'
    BY DEF ProtocolInv, DeliveredOK
  <1> QED
    BY <1>1, <1>3, <1>4 DEF ProtocolInv

LEMMA SameNumbersGrow ==
    ASSUME ProtocolTypeOK, UNCHANGED <<outgoingMsgId, incomingMsgId>>
    PROVE  Grows
  BY DEF Grows, ProtocolTypeOK

(* RecvAckCheck sets a timer or leaves it.                                 *)
LEMMA TimerTyped ==
    ASSUME ProtocolTypeOK, NEW e \in Endpoints, NEW reconnecting, RecvAckCheck(e, reconnecting)
    PROVE  outgoingAckTimeout' \in [Endpoints -> {"set", "unset", "over"}]
  BY DEF ProtocolTypeOK, RecvAckCheck

LEMMA AckTimerIdleInv ==
    ASSUME ProtocolInv, NEW e \in Endpoints, AckTimerIdle(e) PROVE ProtocolInv'
  <1>1. ProtocolTypeOK' /\ incomingAckId' = incomingAckId
    BY DEF AckTimerIdle, ProtocolInv, ProtocolTypeOK, outVars, socketVars, wireVars
  <1>2. WiresOK'
    BY SameNumbersGrow DEF AckTimerIdle, ProtocolInv, WiresOK, Genuine, outVars, wireVars
  <1> QED
    BY <1>1, <1>2, QuietInv
    DEF AckTimerIdle, ProtocolInv, CountsOK, ProtocolTypeOK, outVars

LEMMA WatchTimerInv ==
    ASSUME ProtocolInv, NEW e \in Endpoints, WatchTimer(e) PROVE ProtocolInv'
  <1>1. ProtocolTypeOK' /\ incomingAckId' = incomingAckId
    BY DEF WatchTimer, ProtocolInv, ProtocolTypeOK, inVars, socketVars, wireVars
  <1>2. WiresOK'
    BY SameNumbersGrow DEF WatchTimer, ProtocolInv, WiresOK, Genuine, inVars, wireVars
  <1> QED
    BY <1>1, <1>2, QuietInv
    DEF WatchTimer, ProtocolInv, CountsOK, ProtocolTypeOK, inVars

(* An end that writes its acknowledgement, perhaps with messages that were *)
(* genuine already.                                                        *)
LEMMA AcknowledgingInv ==
    ASSUME ProtocolInv, NEW e \in Endpoints, NEW ms, ms \in Seq(Genuine(Peer(e))),
           incomingAckId' = [incomingAckId EXCEPT ![e] = incomingMsgId[e]],
           Write(e, <<Ack(incomingMsgId[e])>> \o ms),
           UNCHANGED <<outgoingMsgId, outgoingAckId, outgoingUnackMsg, incomingMsgId, delivered,
                       replayAsked, ahead, moves>>,
           incomingAckTimeout' \in [Endpoints -> BOOLEAN],
           isReconnecting' \in [Endpoints -> BOOLEAN],
           outgoingAckTimeout' \in [Endpoints -> {"set", "unset", "over"}]
    PROVE  ProtocolInv'
  <1>1. Grows
    BY SameNumbersGrow DEF ProtocolInv
  <1>2. Genuine(e)' = Genuine(e) /\ Genuine(Peer(e))' = Genuine(Peer(e))
    BY DEF Genuine
  <1>3. Ack(incomingMsgId[e]) \in Genuine(Peer(e))
    BY AckIsGenuine DEF ProtocolInv, ProtocolTypeOK
  <1>4. <<Ack(incomingMsgId[e])>> \in Seq(Genuine(Peer(e)))
    BY <1>3
  <1>5. <<Ack(incomingMsgId[e])>> \o ms \in Seq(Genuine(Peer(e))')
    BY <1>2, <1>4, ConcatProperties
  <1>6. wire[e] \in Seq(Genuine(e)')
    BY <1>2 DEF ProtocolInv, WiresOK
  <1>7. WiresOK' /\ wire' \in [Endpoints -> Seq(Messages)] /\ next' \in [Endpoints -> Seq(Messages)]
    BY <1>1, <1>5, <1>6, TransferKeepsWires DEF Write
  <1>8. incomingAckId' \in [Endpoints -> Nat]
        /\ \A x \in Endpoints : incomingAckId'[x] <= incomingMsgId[x]
    BY DEF ProtocolInv, ProtocolTypeOK, CountsOK
  <1>9. ProtocolTypeOK'
    BY <1>7, <1>8 DEF ProtocolInv, ProtocolTypeOK
  <1> QED
    BY <1>7, <1>8, <1>9, QuietInv

LEMMA AckTimerSendsInv ==
    ASSUME ProtocolInv, NEW e \in Endpoints, AckTimerSends(e) PROVE ProtocolInv'
  <1>1. <<>> \in Seq(Genuine(Peer(e))) /\ <<Ack(incomingMsgId[e])>> \o <<>> = <<Ack(incomingMsgId[e])>>
    OBVIOUS
  <1>2. Write(e, <<Ack(incomingMsgId[e])>> \o <<>>)
    BY <1>1 DEF AckTimerSends
  <1> QED
    BY <1>1, <1>2, AcknowledgingInv
    DEF AckTimerSends, ProtocolInv, ProtocolTypeOK, outVars, socketVars

LEMMA KeepAliveInv ==
    ASSUME ProtocolInv, NEW e \in Endpoints, KeepAlive(e) PROVE ProtocolInv'
  <1>1. <<>> \in Seq(Genuine(Peer(e))) /\ <<Ack(incomingMsgId[e])>> \o <<>> = <<Ack(incomingMsgId[e])>>
    OBVIOUS
  <1>2. Write(e, <<Ack(incomingMsgId[e])>> \o <<>>)
    BY <1>1 DEF KeepAlive
  <1> QED
    BY <1>1, <1>2, AcknowledgingInv
    DEF KeepAlive, ProtocolInv, ProtocolTypeOK, outVars, socketVars

LEMMA EndReconnectionInv ==
    ASSUME ProtocolInv, NEW e \in Endpoints, EndReconnection(e) PROVE ProtocolInv'
  <1>1. Resent(e) \in Seq(Genuine(Peer(e)))
    BY DEF Resent, ProtocolInv, QueueOK
  <1>2. Write(e, <<Ack(incomingMsgId[e])>> \o Resent(e))
    BY DEF EndReconnection, Resumption
  <1>3. outgoingAckTimeout' \in [Endpoints -> {"set", "unset", "over"}]
    BY TimerTyped DEF EndReconnection, ProtocolInv
  <1> QED
    BY <1>1, <1>2, <1>3, AcknowledgingInv
    DEF EndReconnection, ProtocolInv, ProtocolTypeOK

LEMMA BeginReconnectionInv ==
    ASSUME ProtocolInv, NEW e \in Endpoints, BeginReconnection(e) PROVE ProtocolInv'
  <1>1. Grows /\ Move(e)
    BY SameNumbersGrow DEF BeginReconnection, ProtocolInv, outVars
  <1>2. /\ WiresOK' /\ wire' \in [Endpoints -> Seq(Messages)]
        /\ next' \in [Endpoints -> Seq(Messages)]
        /\ ahead' \in Endpoints \cup {"none"} /\ moves' \in Nat
    BY <1>1, MoveKeepsWires
  <1>3. ProtocolTypeOK'
    BY <1>2 DEF BeginReconnection, ProtocolInv, ProtocolTypeOK, outVars
  <1> QED
    BY <1>2, <1>3, QuietInv
    DEF BeginReconnection, ProtocolInv, ProtocolTypeOK, CountsOK, outVars

LEMMA AutoReconnectInv ==
    ASSUME ProtocolInv, NEW e \in Endpoints, AutoReconnect(e) PROVE ProtocolInv'
  <1>1. Grows /\ Move(e)
    BY SameNumbersGrow DEF AutoReconnect, ProtocolInv, outVars, inVars
  <1>2. /\ WiresOK' /\ wire' \in [Endpoints -> Seq(Messages)]
        /\ next' \in [Endpoints -> Seq(Messages)]
        /\ ahead' \in Endpoints \cup {"none"} /\ moves' \in Nat
    BY <1>1, MoveKeepsWires
  <1>3. ProtocolTypeOK'
    BY <1>2 DEF AutoReconnect, ProtocolInv, ProtocolTypeOK, outVars, inVars
  <1> QED
    BY <1>2, <1>3, QuietInv
    DEF AutoReconnect, ProtocolInv, ProtocolTypeOK, CountsOK, outVars, inVars

LEMMA SendInv ==
    ASSUME ProtocolInv, NEW e \in Endpoints, Send(e) PROVE ProtocolInv'
  <1> DEFINE m == Regular(outgoingMsgId[e] + 1, incomingMsgId[e])
  <1>1. /\ outgoingMsgId' = [outgoingMsgId EXCEPT ![e] = @ + 1]
        /\ incomingAckId' = [incomingAckId EXCEPT ![e] = incomingMsgId[e]]
        /\ outgoingUnackMsg' = [outgoingUnackMsg EXCEPT ![e] = Append(@, m)]
        /\ Write(e, Written(e, m))
        /\ UNCHANGED <<outgoingAckId, incomingMsgId, incomingAckTimeout, replayAsked, delivered,
                       socketVars>>
    BY DEF Send
  <1>2. Grows
    <2>1. outgoingMsgId \in [Endpoints -> Nat] /\ incomingMsgId \in [Endpoints -> Nat]
      BY DEF ProtocolInv, ProtocolTypeOK
    <2>2. ASSUME NEW x \in Endpoints
          PROVE  outgoingMsgId'[x] = IF x = e THEN outgoingMsgId[x] + 1 ELSE outgoingMsgId[x]
      BY <1>1, <2>1
    <2> QED
      BY <1>1, <2>1, <2>2 DEF Grows
  <1>3. /\ outgoingMsgId' \in [Endpoints -> Nat] /\ incomingAckId' \in [Endpoints -> Nat]
        /\ outgoingMsgId[e] \in Nat /\ incomingMsgId[e] \in Nat /\ outgoingAckId[e] \in Nat
        /\ outgoingMsgId'[e] = outgoingMsgId[e] + 1 /\ outgoingAckId'[e] = outgoingAckId[e]
    BY <1>1 DEF ProtocolInv, ProtocolTypeOK
  <1>4. m \in Genuine(Peer(e))' /\ m \in Messages /\ m.id = outgoingMsgId[e] + 1
    BY <1>1, <1>3, PeerFacts DEF Regular, Genuine, Messages, Types
  <1> HIDE DEF m
  <1>5. Written(e, m) \in Seq(Genuine(Peer(e))')
    BY <1>4 DEF Written
  <1>6. wire[e] \in Seq(Genuine(e)')
    BY <1>2, GenuineSeqGrows DEF ProtocolInv, WiresOK
  <1>7. WiresOK' /\ wire' \in [Endpoints -> Seq(Messages)] /\ next' \in [Endpoints -> Seq(Messages)]
    BY <1>1, <1>2, <1>5, <1>6, TransferKeepsWires DEF Write
  <1>8. QueueOK' /\ outgoingUnackMsg' \in [Endpoints -> Seq(Messages)]
    <2>1. ASSUME NEW x \in Endpoints
          PROVE  /\ outgoingUnackMsg'[x] \in Seq(Genuine(Peer(x))')
                 /\ Len(outgoingUnackMsg'[x]) = outgoingMsgId'[x] - outgoingAckId'[x]
                 /\ Numbered(outgoingUnackMsg'[x], outgoingAckId'[x])
      <3> DEFINE q == outgoingUnackMsg[x]
      <3>1. /\ q \in Seq(Genuine(Peer(x))') /\ Len(q) = outgoingMsgId[x] - outgoingAckId[x]
            /\ Numbered(q, outgoingAckId[x])
        BY <1>2, GenuineSeqGrows, PeerFacts DEF ProtocolInv, QueueOK
      <3>2. CASE x = e
        <4>1. outgoingUnackMsg'[x] = Append(q, m)
          BY <1>1, <3>2 DEF ProtocolInv, ProtocolTypeOK
        <4> HIDE DEF q
        <4>2. /\ Append(q, m) \in Seq(Genuine(Peer(x))')
              /\ Len(Append(q, m)) = Len(q) + 1
              /\ \A i \in 1..Len(q) : Append(q, m)[i] = q[i]
              /\ Append(q, m)[Len(q) + 1] = m
          BY <3>1, <3>2, <1>4, AppendProperties
        <4>3. Len(q) \in Nat /\ outgoingAckId[x] + (Len(q) + 1) = outgoingMsgId[e] + 1
          BY <3>1, <3>2, <1>3, LenProperties
        <4>4. ASSUME NEW i \in 1..(Len(q) + 1) PROVE Append(q, m)[i].id = outgoingAckId[x] + i
          <5>1. i \in 1..Len(q) \/ i = Len(q) + 1
            BY <4>3
          <5>2. CASE i \in 1..Len(q)
            BY <5>2, <4>2, <3>1 DEF Numbered
          <5>3. CASE i = Len(q) + 1
            BY <5>3, <4>2, <4>3, <1>4
          <5> QED
            BY <5>1, <5>2, <5>3
        <4>5. Numbered(Append(q, m), outgoingAckId[x])
          BY <4>2, <4>4 DEF Numbered
        <4>6. Len(Append(q, m)) = outgoingMsgId'[x] - outgoingAckId'[x]
          BY <4>2, <4>3, <3>1, <3>2, <1>3
        <4> QED
          BY <4>1, <4>2, <4>5, <4>6, <1>3, <3>2
      <3>3. CASE x # e
        BY <3>1, <3>3, <1>1 DEF ProtocolInv, ProtocolTypeOK
      <3> QED
        BY <3>2, <3>3
    <2>2. outgoingUnackMsg' \in [Endpoints -> Seq(Messages)]
      BY <1>1, <1>4, AppendProperties DEF ProtocolInv, ProtocolTypeOK
    <2> QED
      BY <2>1, <2>2 DEF QueueOK
  <1>9. CountsOK'
    <2>1. ASSUME NEW x \in Endpoints
          PROVE  /\ outgoingMsgId[x] \in Nat /\ outgoingMsgId'[x] \in Nat
                 /\ outgoingMsgId[x] <= outgoingMsgId'[x]
                 /\ incomingMsgId[x] \in Nat /\ incomingMsgId[Peer(x)] \in Nat
      BY <1>2, PeerFacts DEF Grows, ProtocolInv, ProtocolTypeOK
    <2>2. ASSUME NEW x \in Endpoints PROVE incomingAckId'[x] <= incomingMsgId[x]
      BY <1>1 DEF ProtocolInv, ProtocolTypeOK, CountsOK
    <2> QED
      BY <1>1, <2>1, <2>2 DEF ProtocolInv, CountsOK
  <1>10. outgoingAckTimeout' \in [Endpoints -> {"set", "unset", "over"}]
    BY TimerTyped DEF Send, ProtocolInv, ProtocolTypeOK
  <1>11. ProtocolTypeOK'
    BY <1>1, <1>3, <1>7, <1>8, <1>10 DEF ProtocolInv, ProtocolTypeOK, socketVars
  <1>12. DeliveredOK'
    BY <1>1 DEF ProtocolInv, DeliveredOK
  <1> QED
    BY <1>7, <1>8, <1>9, <1>11, <1>12 DEF ProtocolInv

(* A received message whose ack is noted, whatever else it does.           *)
LEMMA ReceivedInv ==
    ASSUME ProtocolInv, NEW e \in Endpoints, NEW type, Read(e, type), Grows,
           NEW ms, ms \in Seq(Genuine(Peer(e))'), Transfer(e, Tail(wire[e]), ms),
           incomingMsgId' \in [Endpoints -> Nat],
           \A x \in Endpoints : incomingMsgId'[Peer(x)] <= outgoingMsgId[x],
           DeliveredOK', delivered' \in [Endpoints -> Seq(Nat)],
           incomingAckTimeout' \in [Endpoints -> BOOLEAN],
           replayAsked' \in [Endpoints -> BOOLEAN],
           outgoingAckTimeout' \in [Endpoints -> {"set", "unset", "over"}]
    PROVE  ProtocolInv'
  <1>1. UNCHANGED <<outgoingMsgId, incomingAckId, ahead, isReconnecting, moves>>
    BY DEF Read, socketVars
  <1>2. Tail(wire[e]) \in Seq(Genuine(e)')
    <2>1. wire[e] \in Seq(Genuine(e)') /\ wire[e] # <<>>
      BY GenuineSeqGrows DEF ProtocolInv, WiresOK, Read
    <2> QED
      BY <2>1, HeadTailProperties
  <1>3. WiresOK' /\ wire' \in [Endpoints -> Seq(Messages)] /\ next' \in [Endpoints -> Seq(Messages)]
    BY <1>2, TransferKeepsWires
  <1>4. /\ outgoingAckId' \in [Endpoints -> Nat]
        /\ outgoingUnackMsg' \in [Endpoints -> Seq(Messages)]
        /\ QueueOK'
        /\ \A x \in Endpoints : outgoingAckId'[x] <= incomingMsgId[Peer(x)]
    BY ReadKeepsQueue
  <1>5. ProtocolTypeOK'
    BY <1>1, <1>3, <1>4 DEF ProtocolInv, ProtocolTypeOK
  <1>6. CountsOK'
    <2>1. ASSUME NEW x \in Endpoints
          PROVE  /\ outgoingAckId'[x] <= incomingMsgId[Peer(x)]
                 /\ incomingMsgId[Peer(x)] <= incomingMsgId'[Peer(x)]
                 /\ incomingMsgId'[Peer(x)] <= outgoingMsgId'[x]
                 /\ incomingAckId'[x] <= incomingMsgId[x]
                 /\ incomingMsgId[x] <= incomingMsgId'[x]
                 /\ outgoingAckId'[x] \in Nat /\ incomingAckId'[x] \in Nat
                 /\ incomingMsgId[x] \in Nat /\ incomingMsgId'[x] \in Nat
                 /\ incomingMsgId[Peer(x)] \in Nat /\ incomingMsgId'[Peer(x)] \in Nat
      BY <1>1, <1>4, PeerFacts DEF Grows, ProtocolInv, ProtocolTypeOK, CountsOK
    <2>2. ASSUME NEW x \in Endpoints PROVE outgoingAckId'[x] <= incomingMsgId'[Peer(x)]
      <3>1. /\ outgoingAckId'[x] \in Nat /\ incomingMsgId[Peer(x)] \in Nat
            /\ incomingMsgId'[Peer(x)] \in Nat
            /\ outgoingAckId'[x] <= incomingMsgId[Peer(x)]
            /\ incomingMsgId[Peer(x)] <= incomingMsgId'[Peer(x)]
        BY <2>1
      <3> QED
        BY <3>1, AtMostIsTransitive
    <2>3. ASSUME NEW x \in Endpoints PROVE incomingAckId'[x] <= incomingMsgId'[x]
      <3>1. /\ incomingAckId'[x] \in Nat /\ incomingMsgId[x] \in Nat
            /\ incomingMsgId'[x] \in Nat
            /\ incomingAckId'[x] <= incomingMsgId[x]
            /\ incomingMsgId[x] <= incomingMsgId'[x]
        BY <2>1
      <3> QED
        BY <3>1, AtMostIsTransitive
    <2>4. \A x \in Endpoints : incomingMsgId'[Peer(x)] <= outgoingMsgId'[x]
      BY <2>1
    <2> QED
      BY <2>2, <2>3, <2>4 DEF CountsOK
  <1> QED
    BY <1>3, <1>4, <1>5, <1>6 DEF ProtocolInv

(* One that leaves its receiver's count alone.                             *)
LEMMA UncountedInv ==
    ASSUME ProtocolInv, NEW e \in Endpoints, NEW type, Read(e, type),
           NEW ms, ms \in Seq(Genuine(Peer(e))), Transfer(e, Tail(wire[e]), ms),
           UNCHANGED <<incomingMsgId, incomingAckTimeout, delivered>>,
           replayAsked' \in [Endpoints -> BOOLEAN],
           outgoingAckTimeout' \in [Endpoints -> {"set", "unset", "over"}]
    PROVE  ProtocolInv'
  <1>1. Grows
    BY SameNumbersGrow DEF Read, ProtocolInv
  <1>2. ms \in Seq(Genuine(Peer(e))')
    BY <1>1, GenuineSeqGrows, PeerFacts DEF ProtocolInv
  <1>3. /\ incomingMsgId' \in [Endpoints -> Nat] /\ delivered' \in [Endpoints -> Seq(Nat)]
        /\ incomingAckTimeout' \in [Endpoints -> BOOLEAN]
        /\ \A x \in Endpoints : incomingMsgId'[Peer(x)] <= outgoingMsgId[x]
        /\ DeliveredOK'
    BY DEF ProtocolInv, ProtocolTypeOK, CountsOK, DeliveredOK
  <1> QED
    BY <1>1, <1>2, <1>3, ReceivedInv

LEMMA ReceiveAckInv ==
    ASSUME ProtocolInv, NEW e \in Endpoints, ReceiveAck(e) PROVE ProtocolInv'
  <1>1. <<>> \in Seq(Genuine(Peer(e)))
    OBVIOUS
  <1> QED
    BY <1>1, UncountedInv DEF ReceiveAck, ProtocolInv, ProtocolTypeOK

LEMMA ReceiveDuplicateInv ==
    ASSUME ProtocolInv, NEW e \in Endpoints, ReceiveDuplicate(e) PROVE ProtocolInv'
  <1>1. <<>> \in Seq(Genuine(Peer(e)))
    OBVIOUS
  <1> QED
    BY <1>1, UncountedInv DEF ReceiveDuplicate, ProtocolInv, ProtocolTypeOK

LEMMA ReceiveAfterGapInv ==
    ASSUME ProtocolInv, NEW e \in Endpoints, ReceiveAfterGap(e) PROVE ProtocolInv'
  <1>1. PICK ms \in {<<>>, <<ReplayRequest>>} : Transfer(e, Tail(wire[e]), ms)
    BY DEF ReceiveAfterGap
  <1>2. ms \in Seq(Genuine(Peer(e)))
    <2>1. ReplayRequest \in Genuine(Peer(e))
      BY RequestIsGenuine DEF ProtocolInv, ProtocolTypeOK
    <2>2. <<>> \in Seq(Genuine(Peer(e))) /\ <<ReplayRequest>> \in Seq(Genuine(Peer(e)))
      BY <2>1
    <2> QED
      BY <2>2, <1>1
  <1> QED
    BY <1>1, <1>2, UncountedInv DEF ReceiveAfterGap, ProtocolInv, ProtocolTypeOK

LEMMA ReceiveReplayRequestInv ==
    ASSUME ProtocolInv, NEW e \in Endpoints, ReceiveReplayRequest(e) PROVE ProtocolInv'
  <1>1. Resent(e) \in Seq(Genuine(Peer(e)))
    BY DEF Resent, ProtocolInv, QueueOK
  <1>2. outgoingAckTimeout' \in [Endpoints -> {"set", "unset", "over"}]
    BY TimerTyped DEF ReceiveReplayRequest, ProtocolInv
  <1> QED
    BY <1>1, <1>2, UncountedInv DEF ReceiveReplayRequest, ProtocolInv, ProtocolTypeOK

(* The next message in the count of its receiver is one its sender has     *)
(* given out.                                                              *)
LEMMA ExpectedIsSent ==
    ASSUME ProtocolInv, NEW e \in Endpoints, ReceiveExpected(e)
    PROVE  /\ incomingMsgId[e] \in Nat /\ incomingMsgId[e] + 1 <= outgoingMsgId[Peer(e)]
           /\ incomingMsgId' = [incomingMsgId EXCEPT ![e] = incomingMsgId[e] + 1]
           /\ delivered' = [delivered EXCEPT ![e] = Append(@, incomingMsgId[e] + 1)]
  <1>1. Head(wire[e]).id = incomingMsgId[e] + 1 /\ wire[e] # <<>>
    BY DEF ReceiveExpected, Expected, Read
  <1>2. Head(wire[e]) \in Genuine(e)
    BY <1>1, HeadTailProperties DEF ProtocolInv, WiresOK
  <1> QED
    BY <1>1, <1>2 DEF ReceiveExpected, Genuine, ProtocolInv, ProtocolTypeOK

LEMMA ReceiveExpectedInv ==
    ASSUME ProtocolInv, NEW e \in Endpoints, ReceiveExpected(e) PROVE ProtocolInv'
  <1>1. /\ incomingMsgId[e] \in Nat /\ incomingMsgId[e] + 1 <= outgoingMsgId[Peer(e)]
        /\ incomingMsgId' = [incomingMsgId EXCEPT ![e] = incomingMsgId[e] + 1]
        /\ delivered' = [delivered EXCEPT ![e] = Append(@, incomingMsgId[e] + 1)]
    BY ExpectedIsSent
  <1>2. /\ Read(e, "REGULAR") /\ Transfer(e, Tail(wire[e]), <<>>)
        /\ incomingAckTimeout' = [incomingAckTimeout EXCEPT ![e] = TRUE]
        /\ UNCHANGED <<outgoingMsgId, outgoingAckTimeout, replayAsked>>
    BY DEF ReceiveExpected, Read
  <1>3. incomingMsgId \in [Endpoints -> Nat] /\ outgoingMsgId \in [Endpoints -> Nat]
        /\ delivered \in [Endpoints -> Seq(Nat)]
    BY DEF ProtocolInv, ProtocolTypeOK
  <1>4. \A x \in Endpoints :
            incomingMsgId'[x] = IF x = e THEN incomingMsgId[e] + 1 ELSE incomingMsgId[x]
    BY <1>1, <1>3
  <1>5. Grows /\ incomingMsgId' \in [Endpoints -> Nat]
    <2>1. incomingMsgId' \in [Endpoints -> Nat]
      BY <1>1, <1>3
    <2>2. ASSUME NEW x \in Endpoints
          PROVE  /\ incomingMsgId'[x] \in Nat /\ incomingMsgId[x] <= incomingMsgId'[x]
                 /\ outgoingMsgId'[x] \in Nat /\ outgoingMsgId[x] <= outgoingMsgId'[x]
      <3>1. /\ incomingMsgId[x] \in Nat /\ incomingMsgId'[x] \in Nat
            /\ outgoingMsgId[x] \in Nat /\ outgoingMsgId'[x] = outgoingMsgId[x]
        BY <1>2, <1>3, <2>1
      <3> QED
        BY <3>1, <1>4
    <2> QED
      BY <2>1, <2>2 DEF Grows
  <1>6. ASSUME NEW x \in Endpoints PROVE incomingMsgId'[Peer(x)] <= outgoingMsgId[x]
    <2>1. CASE Peer(x) = e
      BY <2>1, <1>1, <1>4, PeerFacts
    <2>2. CASE Peer(x) # e
      BY <2>2, <1>4, PeerFacts DEF ProtocolInv, CountsOK
    <2> QED
      BY <2>1, <2>2
  <1>7. DeliveredOK' /\ delivered' \in [Endpoints -> Seq(Nat)]
    <2>1. delivered[e] = Count(incomingMsgId[e])
      BY DEF ProtocolInv, DeliveredOK, Count
    <2>2. Append(delivered[e], incomingMsgId[e] + 1) = Count(incomingMsgId[e] + 1)
          /\ Count(incomingMsgId[e] + 1) \in Seq(Nat)
      <3>1. incomingMsgId[e] \in Nat /\ incomingMsgId[e] + 1 \in Nat
        BY <1>1
      <3> QED
        BY <2>1, <3>1, CountIsSeq
    <2>3. delivered' = [delivered EXCEPT ![e] = Count(incomingMsgId[e] + 1)]
      BY <1>1, <1>3, <2>2
    <2>4. ASSUME NEW x \in Endpoints PROVE delivered'[x] = Count(incomingMsgId'[x])
      <3>1. CASE x = e
        BY <3>1, <2>3, <1>3, <1>4
      <3>2. CASE x # e
        BY <3>2, <2>3, <1>3, <1>4 DEF ProtocolInv, DeliveredOK, Count
      <3> QED
        BY <3>1, <3>2
    <2>5. delivered' \in [Endpoints -> Seq(Nat)]
      BY <2>2, <2>3, <1>3
    <2> QED
      BY <2>4, <2>5 DEF DeliveredOK, Count
  <1>8. <<>> \in Seq(Genuine(Peer(e))')
    BY EmptySeq
  <1>9. /\ incomingAckTimeout' \in [Endpoints -> BOOLEAN]
        /\ replayAsked' \in [Endpoints -> BOOLEAN]
        /\ outgoingAckTimeout' \in [Endpoints -> {"set", "unset", "over"}]
    BY <1>2 DEF ProtocolInv, ProtocolTypeOK
  <1> QED
    BY <1>2, <1>5, <1>6, <1>7, <1>8, <1>9, ReceivedInv

LEMMA NextInv == ProtocolInv /\ [Next]_protocolVars => ProtocolInv'
  <1> SUFFICES ASSUME ProtocolInv, [Next]_protocolVars PROVE ProtocolInv'
    OBVIOUS
  <1>1. CASE Next
    <2>1. PICK e \in Endpoints :
              \/ Send(e) \/ Receive(e) \/ KeepAlive(e)
              \/ AckTimerIdle(e) \/ AckTimerSends(e) \/ WatchTimer(e)
              \/ BeginReconnection(e) \/ EndReconnection(e) \/ AutoReconnect(e)
      BY <1>1 DEF Next
    <2>2. CASE Receive(e)
      BY <2>2, ReceiveAckInv, ReceiveReplayRequestInv, ReceiveExpectedInv, ReceiveDuplicateInv,
         ReceiveAfterGapInv DEF Receive
    <2> QED
      BY <2>1, <2>2, SendInv, KeepAliveInv, AckTimerIdleInv, AckTimerSendsInv, WatchTimerInv,
         BeginReconnectionInv, EndReconnectionInv, AutoReconnectInv
  <1>2. CASE UNCHANGED protocolVars
    <2>1. \A e : Genuine(e)' = Genuine(e)
      BY <1>2 DEF Genuine, protocolVars, outVars, inVars
    <2> QED
      BY <1>2, <2>1 DEF protocolVars, outVars, inVars, socketVars, wireVars, ProtocolInv,
         ProtocolTypeOK, CountsOK, QueueOK, WiresOK, DeliveredOK
  <1> QED
    BY <1>1, <1>2

THEOREM ProtocolInvHolds == Spec => []ProtocolInv
  BY InitInv, NextInv, PTL DEF Spec

(* Every variable keeps its type.                                          *)
THEOREM ProtocolTypeCorrect == Spec => []ProtocolTypeOK
  <1>1. ProtocolInv => ProtocolTypeOK
    BY DEF ProtocolInv
  <1> QED
    BY <1>1, ProtocolInvHolds, PTL

(* The queue holds the messages after the last acknowledged one, in order, *)
(* and none is dropped that the other end has not received, whichever ack  *)
(* is heard (_receiveMessage, protocol.ts:894-905, and send, 978).         *)
THEOREM QueueStaysComplete == Spec => []QueueIsComplete
  <1>1. ProtocolInv => QueueIsComplete
    BY DEF ProtocolInv, CountsOK, QueueOK, Numbered, QueueIsComplete
  <1> QED
    BY <1>1, ProtocolInvHolds, PTL

-----------------------------------------------------------------------------
(* The two parts of SilenceIsNoticed, the second in terms of the numbers.  *)
AckIsDue ==
    \A e \in Endpoints : incomingMsgId[e] > incomingAckId[e] => incomingAckTimeout[e]

WatchedAt(e) ==
    outgoingMsgId[e] > outgoingAckId[e] /\ ~isReconnecting[e] => outgoingAckTimeout[e] # "unset"

Watched == \A e \in Endpoints : WatchedAt(e)

(* A message received and not acknowledged has a timer that will see to it *)
(* (_sendAckCheck, protocol.ts:998).                                       *)
LEMMA AcksAreDue == Spec => []AckIsDue
  <1>1. Init => AckIsDue
    BY DEF Init, AckIsDue
  <1>2. ProtocolInv /\ AckIsDue /\ [Next]_protocolVars => AckIsDue'
    <2> SUFFICES ASSUME ProtocolInv, AckIsDue, [Next]_protocolVars,
                        NEW x \in Endpoints, incomingMsgId'[x] > incomingAckId'[x]
                 PROVE  incomingAckTimeout'[x]
      BY DEF AckIsDue
    <2>1. /\ incomingMsgId \in [Endpoints -> Nat] /\ incomingAckId \in [Endpoints -> Nat]
          /\ incomingAckTimeout \in [Endpoints -> BOOLEAN]
          /\ incomingMsgId[x] \in Nat /\ incomingAckId[x] \in Nat
      BY DEF ProtocolInv, ProtocolTypeOK
    <2>2. incomingMsgId[x] > incomingAckId[x] => incomingAckTimeout[x]
      BY DEF AckIsDue
    <2>3. ASSUME UNCHANGED <<incomingMsgId, incomingAckId, incomingAckTimeout>>
          PROVE  incomingAckTimeout'[x]
      BY <2>2, <2>3
    <2>4. ASSUME NEW e \in Endpoints,
                 incomingAckId' = [incomingAckId EXCEPT ![e] = incomingMsgId[e]],
                 incomingMsgId' = incomingMsgId,
                 \A y \in Endpoints : y # e => incomingAckTimeout'[y] = incomingAckTimeout[y]
          PROVE  incomingAckTimeout'[x]
      <3>1. CASE x = e
        <4>1. incomingAckId'[x] = incomingMsgId[x] /\ incomingMsgId'[x] = incomingMsgId[x]
          BY <3>1, <2>4, <2>1
        <4> QED
          BY <4>1, <2>1
      <3>2. CASE x # e
        <4>1. incomingAckId'[x] = incomingAckId[x] /\ incomingMsgId'[x] = incomingMsgId[x]
              /\ incomingAckTimeout'[x] = incomingAckTimeout[x]
          BY <3>2, <2>4, <2>1
        <4> QED
          BY <4>1, <2>2
      <3> QED
        BY <3>1, <3>2
    <2>5. CASE UNCHANGED protocolVars
      BY <2>3, <2>5 DEF protocolVars, inVars
    <2>6. ASSUME NEW e \in Endpoints,
                 \/ Send(e) \/ KeepAlive(e) \/ EndReconnection(e) \/ AckTimerSends(e)
          PROVE  incomingAckTimeout'[x]
      <3>1. /\ incomingAckId' = [incomingAckId EXCEPT ![e] = incomingMsgId[e]]
            /\ incomingMsgId' = incomingMsgId
            /\ \A y \in Endpoints : y # e => incomingAckTimeout'[y] = incomingAckTimeout[y]
        BY <2>6, <2>1 DEF Send, KeepAlive, EndReconnection, AckTimerSends
      <3> QED
        BY <3>1, <2>4
    <2>7. ASSUME NEW e \in Endpoints,
                 \/ WatchTimer(e) \/ BeginReconnection(e) \/ AutoReconnect(e) \/ ReceiveAck(e)
                 \/ ReceiveReplayRequest(e) \/ ReceiveDuplicate(e) \/ ReceiveAfterGap(e)
          PROVE  incomingAckTimeout'[x]
      <3>1. UNCHANGED <<incomingMsgId, incomingAckId, incomingAckTimeout>>
        BY <2>7 DEF WatchTimer, BeginReconnection, AutoReconnect, ReceiveAck,
           ReceiveReplayRequest, ReceiveDuplicate, ReceiveAfterGap, Read, inVars
      <3> QED
        BY <3>1, <2>3
    <2>8. ASSUME NEW e \in Endpoints, ReceiveExpected(e)
          PROVE  incomingAckTimeout'[x]
      <3>1. /\ incomingAckTimeout' = [incomingAckTimeout EXCEPT ![e] = TRUE]
            /\ incomingAckId' = incomingAckId
            /\ incomingMsgId' = [incomingMsgId EXCEPT ![e] = Head(wire[e]).id]
        BY <2>8 DEF ReceiveExpected, Read
      <3>2. CASE x = e
        BY <3>1, <3>2, <2>1
      <3>3. CASE x # e
        <4>1. incomingMsgId'[x] = incomingMsgId[x] /\ incomingAckTimeout'[x] = incomingAckTimeout[x]
          BY <3>1, <3>3, <2>1
        <4> QED
          BY <3>1, <4>1, <2>2
      <3> QED
        BY <3>2, <3>3
    <2>9. ASSUME NEW e \in Endpoints, AckTimerIdle(e)
          PROVE  incomingAckTimeout'[x]
      <3>1. /\ incomingAckTimeout' = [incomingAckTimeout EXCEPT ![e] = FALSE]
            /\ incomingAckId' = incomingAckId /\ incomingMsgId' = incomingMsgId
            /\ incomingMsgId[e] <= incomingAckId[e]
        BY <2>9 DEF AckTimerIdle
      <3>2. x # e
        BY <3>1, <2>1
      <3> QED
        BY <3>1, <3>2, <2>1, <2>2
    <2> QED
      BY <2>5, <2>6, <2>7, <2>8, <2>9 DEF Next, Receive
  <1> QED
    BY <1>1, <1>2, ProtocolInvHolds, PTL DEF Spec

(* What is to be acknowledged has a timer, and what is not acknowledged    *)
(* one outside of a reconnection (_sendAckCheck, protocol.ts:998,          *)
(* _recvAckCheck, 1027, and who calls them).                               *)
THEOREM SilenceGetsNoticed == Spec => []SilenceIsNoticed
  <1>1. Init => Watched
    BY DEF Init, Watched, WatchedAt
  <1>2. ProtocolInv /\ Watched /\ [Next]_protocolVars => Watched'
    <2> SUFFICES ASSUME ProtocolInv, Watched, [Next]_protocolVars, NEW x \in Endpoints
                 PROVE  WatchedAt(x)'
      BY DEF Watched
    <2>1. /\ outgoingMsgId \in [Endpoints -> Nat] /\ outgoingAckId \in [Endpoints -> Nat]
          /\ outgoingAckTimeout \in [Endpoints -> {"set", "unset", "over"}]
          /\ isReconnecting \in [Endpoints -> BOOLEAN]
          /\ outgoingMsgId[x] \in Nat /\ outgoingAckId[x] \in Nat
      BY DEF ProtocolInv, ProtocolTypeOK
    <2>2. WatchedAt(x)
      BY DEF Watched
    <2>3. ASSUME outgoingMsgId'[x] = outgoingMsgId[x], outgoingAckId'[x] = outgoingAckId[x],
                 isReconnecting'[x] = isReconnecting[x],
                 outgoingAckTimeout'[x] = outgoingAckTimeout[x]
          PROVE  WatchedAt(x)'
      BY <2>2, <2>3 DEF WatchedAt
    <2>4. CASE UNCHANGED protocolVars
      BY <2>3, <2>4 DEF protocolVars, outVars, socketVars
    <2>5. ASSUME NEW e \in Endpoints, Send(e) PROVE WatchedAt(x)'
      <3>1. /\ outgoingMsgId' = [outgoingMsgId EXCEPT ![e] = @ + 1]
            /\ outgoingAckId' = outgoingAckId /\ isReconnecting' = isReconnecting
            /\ \/ RecvAckCheck(e, isReconnecting[e])
               \/ outgoingAckTimeout[e] = "over" /\ UNCHANGED outgoingAckTimeout
        BY <2>5 DEF Send, socketVars
      <3>2. CASE x = e
        BY <3>1, <3>2, <2>1, <2>2 DEF WatchedAt, RecvAckCheck
      <3>3. CASE x # e
        BY <3>1, <3>3, <2>1, <2>3 DEF RecvAckCheck
      <3> QED
        BY <3>2, <3>3
    <2>6. ASSUME NEW e \in Endpoints, KeepAlive(e) \/ AckTimerIdle(e) \/ AckTimerSends(e)
          PROVE  WatchedAt(x)'
      BY <2>6, <2>3 DEF KeepAlive, AckTimerIdle, AckTimerSends, outVars, socketVars
    <2>7. ASSUME NEW e \in Endpoints, BeginReconnection(e) PROVE WatchedAt(x)'
      <3>1. /\ isReconnecting' = [isReconnecting EXCEPT ![e] = TRUE]
            /\ UNCHANGED <<outgoingMsgId, outgoingAckId, outgoingAckTimeout>>
        BY <2>7 DEF BeginReconnection, outVars
      <3> QED
        BY <3>1, <2>1, <2>2 DEF WatchedAt
    <2>8. ASSUME NEW e \in Endpoints, AutoReconnect(e) PROVE WatchedAt(x)'
      BY <2>8, <2>3 DEF AutoReconnect, outVars
    <2>9. ASSUME NEW e \in Endpoints, WatchTimer(e) PROVE WatchedAt(x)'
      <3>1. /\ outgoingAckTimeout' = [outgoingAckTimeout EXCEPT ![e] =
                   IF outgoingMsgId[e] <= outgoingAckId[e] \/ isReconnecting[e]
                   THEN "unset" ELSE "over"]
            /\ UNCHANGED <<outgoingMsgId, outgoingAckId, isReconnecting>>
        BY <2>9 DEF WatchTimer, socketVars
      <3>2. CASE x = e
        BY <3>1, <3>2, <2>1 DEF WatchedAt
      <3>3. CASE x # e
        BY <3>1, <3>3, <2>1, <2>3
      <3> QED
        BY <3>2, <3>3
    <2>10. ASSUME NEW e \in Endpoints, EndReconnection(e) PROVE WatchedAt(x)'
      <3>1. /\ isReconnecting' = [isReconnecting EXCEPT ![e] = FALSE]
            /\ UNCHANGED <<outgoingMsgId, outgoingAckId>>
            /\ RecvAckCheck(e, FALSE)
        BY <2>10 DEF EndReconnection
      <3>2. CASE x = e
        BY <3>1, <3>2, <2>1 DEF WatchedAt, RecvAckCheck
      <3>3. CASE x # e
        BY <3>1, <3>3, <2>1, <2>3 DEF RecvAckCheck
      <3> QED
        BY <3>2, <3>3
    <2>11. ASSUME NEW e \in Endpoints, NEW type, Read(e, type),
                  outgoingAckTimeout' = outgoingAckTimeout \/ RecvAckCheck(e, isReconnecting[e])
           PROVE  WatchedAt(x)'
      <3>1. /\ UNCHANGED <<outgoingMsgId, isReconnecting>>
            /\ outgoingAckId'[x] \in Nat /\ outgoingAckId[x] <= outgoingAckId'[x]
        <4>1. UNCHANGED <<outgoingMsgId, isReconnecting>>
          BY <2>11 DEF Read, socketVars
        <4>2. wire[e] \in Seq(Messages) /\ wire[e] # <<>>
          BY <2>11 DEF ProtocolInv, ProtocolTypeOK, Read
        <4>3. Head(wire[e]).ack \in Nat
          <5>1. Head(wire[e]) \in Messages
            BY <4>2, HeadTailProperties
          <5> QED
            BY <5>1 DEF Messages
        <4> QED
          BY <4>1, <4>3, <2>1, <2>11 DEF Read
      <3>2. outgoingAckTimeout'[x] = outgoingAckTimeout[x] \/ outgoingAckTimeout'[x] = "set"
        BY <2>11, <2>1 DEF RecvAckCheck
      <3> QED
        BY <3>1, <3>2, <2>1, <2>2 DEF WatchedAt
    <2>12. ASSUME NEW e \in Endpoints, Receive(e) PROVE WatchedAt(x)'
      BY <2>12, <2>11 DEF Receive, ReceiveAck, ReceiveReplayRequest, ReceiveExpected,
         ReceiveDuplicate, ReceiveAfterGap
    <2> QED
      BY <2>4, <2>5, <2>6, <2>7, <2>8, <2>9, <2>10, <2>12 DEF Next
  <1>3. ProtocolInv /\ AckIsDue /\ Watched => SilenceIsNoticed
    <2> SUFFICES ASSUME ProtocolInv, AckIsDue, Watched, NEW e \in Endpoints,
                        outgoingUnackMsg[e] # <<>>, ~isReconnecting[e]
                 PROVE  outgoingAckTimeout[e] # "unset"
      BY DEF SilenceIsNoticed, AckIsDue
    <2>1. /\ outgoingUnackMsg[e] \in Seq(Messages)
          /\ Len(outgoingUnackMsg[e]) = outgoingMsgId[e] - outgoingAckId[e]
          /\ outgoingMsgId[e] \in Nat /\ outgoingAckId[e] \in Nat
      BY DEF ProtocolInv, ProtocolTypeOK, QueueOK
    <2>2. Len(outgoingUnackMsg[e]) \in Nat \ {0}
      BY <2>1, EmptySeq
    <2>3. outgoingMsgId[e] > outgoingAckId[e]
      BY <2>1, <2>2
    <2> QED
      BY <2>3 DEF Watched, WatchedAt
  <1> QED
    BY <1>1, <1>2, <1>3, ProtocolInvHolds, AcksAreDue, PTL DEF Spec

-----------------------------------------------------------------------------
(* The protocol implements a reliable channel in each direction: a message *)
(* is given to the other user once and in its turn (onMessage in           *)
(* _receiveMessage, protocol.ts:912).                                      *)
THEOREM ProtocolImplementsChannel == Spec => ImplementsChannel
  <1>1. Init => Channel!InitChannel
    BY DEF Init, Channel!InitChannel, Endpoints, Channel!Endpoints
  <1>2. ProtocolInv /\ [Next]_protocolVars => [Channel!NextChannel]_Channel!channelVars
    <2> SUFFICES ASSUME ProtocolInv, [Next]_protocolVars,
                        ~UNCHANGED <<outgoingMsgId, delivered>>
                 PROVE  Channel!NextChannel
      BY DEF Channel!channelVars
    <2>1. PICK e \in Endpoints : Send(e) \/ ReceiveExpected(e)
      BY DEF Next, protocolVars, outVars, inVars, Receive, ReceiveAck, ReceiveReplayRequest,
         ReceiveDuplicate, ReceiveAfterGap, Read, KeepAlive, AckTimerIdle, AckTimerSends,
         WatchTimer, BeginReconnection, EndReconnection, AutoReconnect
    <2>2. CASE Send(e)
      <3>1. Channel!Submit(e)
        BY <2>2 DEF Send, Channel!Submit
      <3> QED
        BY <3>1 DEF Channel!NextChannel, Endpoints, Channel!Endpoints
    <2>3. CASE ReceiveExpected(e)
      <3>1. /\ incomingMsgId[e] \in Nat /\ incomingMsgId[e] + 1 <= outgoingMsgId[Peer(e)]
            /\ delivered' = [delivered EXCEPT ![e] = Append(@, incomingMsgId[e] + 1)]
            /\ outgoingMsgId' = outgoingMsgId
        BY <2>3, ExpectedIsSent DEF ReceiveExpected, Read
      <3>2. Len(delivered[e]) = incomingMsgId[e]
        <4>1. delivered[e] = Count(incomingMsgId[e])
          BY DEF ProtocolInv, DeliveredOK, Count
        <4> QED
          BY <4>1, <3>1, CountIsSeq
      <3>3. outgoingMsgId[Peer(e)] \in Nat
        BY PeerFacts DEF ProtocolInv, ProtocolTypeOK
      <3>4. Len(delivered[e]) < outgoingMsgId[Peer(e)]
        BY <3>1, <3>2, <3>3
      <3>5. delivered' = [delivered EXCEPT ![e] = Append(@, Len(@) + 1)]
        BY <3>1, <3>2 DEF ProtocolInv, ProtocolTypeOK
      <3>6. Channel!Deliver(e)
        BY <3>1, <3>4, <3>5 DEF Channel!Deliver, Peer, Channel!Peer
      <3> QED
        BY <3>6 DEF Channel!NextChannel, Endpoints, Channel!Endpoints
    <2> QED
      BY <2>1, <2>2, <2>3
  <1> QED
    BY <1>1, <1>2, ProtocolInvHolds, PTL DEF Spec, ImplementsChannel, Channel!SpecChannel
===============================================================================
