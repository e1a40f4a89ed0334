-------------------------- MODULE ProtocolGapProofs --------------------------
(***************************************************************************)
(* With two redialing ends no message is ever missing before the next one: *)
(* proved on top of ProtocolInv.  What is under way to an end, on either   *)
(* socket, never skips a number, and once its peer has ended its           *)
(* reconnection it goes as far as the last number given out, so that what  *)
(* is sent next follows on.                                                *)
(***************************************************************************)
EXTENDS ProtocolProofs

Regulars == {m \in Messages : m.type = "REGULAR"}

(* In s, read after message n, each message follows one that came before.  *)
Gapless(s, n) ==
    \A i \in DOMAIN s : s[i].type = "REGULAR" =>
        \/ s[i].id <= n + 1
        \/ \E j \in DOMAIN s : j < i /\ s[j].type = "REGULAR" /\ s[j].id = s[i].id - 1

(* Who has read s after message n has the messages up to out.              *)
Reaches(s, n, out) == out <= n \/ \E j \in DOMAIN s : s[j].type = "REGULAR" /\ s[j].id = out

NoRequest(s) == \A i \in DOMAIN s : s[i].type # "REPLAY"

GapInvAt(e) ==
    /\ ~replayAsked[e]
    /\ outgoingUnackMsg[e] \in Seq(Regulars)
    /\ NoRequest(wire[e]) /\ NoRequest(next[e])
    /\ Gapless(wire[e], incomingMsgId[e]) /\ Gapless(next[e], incomingMsgId[e])
    /\ ~isReconnecting[Peer(e)] /\ ahead = "none" =>
          Reaches(wire[e], incomingMsgId[e], outgoingMsgId[Peer(e)])
    /\ ~isReconnecting[Peer(e)] /\ ahead = Peer(e) =>
          Reaches(next[e], incomingMsgId[e], outgoingMsgId[Peer(e)])

GapInv == \A e \in Endpoints : GapInvAt(e)

-----------------------------------------------------------------------------
(* A list of messages as its reader gets on.                               *)
LEMMA GapTaken ==
    ASSUME NEW s \in Seq(Messages), s # <<>>, NEW n \in Nat, NEW n2 \in Nat, n <= n2,
           NEW out \in Nat, Gapless(s, n), NoRequest(s),
           Head(s).type = "REGULAR" => Head(s).id <= n2
    PROVE  /\ Gapless(Tail(s), n2) /\ NoRequest(Tail(s))
           /\ Reaches(s, n, out) => Reaches(Tail(s), n2, out)
<1> DEFINE t == Tail(s)
<1>1. /\ DOMAIN s = 1..Len(s) /\ DOMAIN t = 1..(Len(s) - 1) /\ Len(s) \in Nat
      /\ \A i \in DOMAIN t : t[i] = s[i + 1] /\ i + 1 \in DOMAIN s
      /\ Head(s) = s[1]
  BY HeadTailProperties, LenProperties
<1>2. \A i \in DOMAIN s : s[i] \in Messages /\ s[i].id \in Nat
  <2>1. \A i \in DOMAIN s : s[i] \in Messages
    BY ElementOfSeq, <1>1
  <2>2. QED
    BY <2>1 DEF Messages
<1> HIDE DEF t
<1>3. NoRequest(t)
  BY <1>1 DEF NoRequest
<1>4. ASSUME NEW i \in DOMAIN t, t[i].type = "REGULAR", ~(t[i].id <= n2 + 1)
      PROVE  \E j \in DOMAIN t : j < i /\ t[j].type = "REGULAR" /\ t[j].id = t[i].id - 1
  <2>1. s[i + 1].type = "REGULAR" /\ s[i + 1].id \in Nat /\ ~(s[i + 1].id <= n + 1)
    BY <1>1, <1>2, <1>4
  <2>2. PICK j \in DOMAIN s : j < i + 1 /\ s[j].type = "REGULAR" /\ s[j].id = s[i + 1].id - 1
    BY <1>1, <1>4, <2>1 DEF Gapless
  <2>3. j # 1
    BY <1>1, <1>2, <1>4, <2>1, <2>2
  <2>4. j - 1 \in DOMAIN t /\ t[j - 1] = s[j] /\ j - 1 < i
    BY <1>1, <1>4, <2>2, <2>3
  <2>5. QED
    BY <1>1, <1>4, <2>2, <2>4
<1>5. ASSUME Reaches(s, n, out) PROVE Reaches(t, n2, out)
  <2>1. CASE out <= n
    BY <2>1 DEF Reaches
  <2>2. ASSUME NEW j \in DOMAIN s, s[j].type = "REGULAR", s[j].id = out
        PROVE  Reaches(t, n2, out)
    <3>1. CASE j = 1
      BY <1>1, <2>2, <3>1 DEF Reaches
    <3>2. CASE j # 1
      <4>1. j - 1 \in DOMAIN t /\ t[j - 1] = s[j]
        BY <1>1, <2>2, <3>2
      <4>2. QED
        BY <2>2, <4>1 DEF Reaches
    <3>3. QED
      BY <3>1, <3>2
  <2>3. QED
    BY <1>5, <2>1, <2>2 DEF Reaches
<1>6. QED
  BY <1>3, <1>4, <1>5 DEF t, Gapless

(* A list that is added to.                                                *)
LEMMA GapJoined ==
    ASSUME NEW s \in Seq(Messages), NEW t \in Seq(Messages), NEW n \in Nat, Gapless(s, n)
    PROVE  /\ NoRequest(s) /\ NoRequest(t) => NoRequest(s \o t)
           /\ Gapless(t, n) => Gapless(s \o t, n)
           /\ \A out \in Nat : Reaches(s, n, out) \/ Reaches(t, n, out) => Reaches(s \o t, n, out)
           /\ \A out \in Nat :
                 Reaches(s, n, out) /\ Len(t) = 1 /\ t[1].type = "REGULAR" /\ t[1].id = out + 1 =>
                    Gapless(s \o t, n) /\ Reaches(s \o t, n, out + 1)
<1> DEFINE u == s \o t
           l == Len(s)
<1>1. /\ DOMAIN s = 1..l /\ DOMAIN t = 1..Len(t) /\ DOMAIN u = 1..(l + Len(t))
      /\ l \in Nat /\ Len(t) \in Nat
      /\ \A i \in DOMAIN u : u[i] = IF i <= l THEN s[i] ELSE t[i - l]
  BY ConcatProperties, LenProperties
<1> HIDE DEF u, l
<1>2. \A i \in DOMAIN s : i \in DOMAIN u /\ u[i] = s[i]
  BY <1>1
<1>3. \A i \in DOMAIN t : l + i \in DOMAIN u /\ u[l + i] = t[i]
  BY <1>1
<1>4. \A i \in DOMAIN u : i \in DOMAIN s \/ (i > l /\ i - l \in DOMAIN t /\ u[i] = t[i - l])
  BY <1>1
<1>5. NoRequest(s) /\ NoRequest(t) => NoRequest(u)
  BY <1>2, <1>4 DEF NoRequest
<1>6. ASSUME Gapless(t, n), NEW i \in DOMAIN u, u[i].type = "REGULAR", ~(u[i].id <= n + 1)
      PROVE  \E j \in DOMAIN u : j < i /\ u[j].type = "REGULAR" /\ u[j].id = u[i].id - 1
  <2>1. CASE i \in DOMAIN s
    <3>1. PICK j \in DOMAIN s : j < i /\ s[j].type = "REGULAR" /\ s[j].id = s[i].id - 1
      BY <1>2, <1>6, <2>1 DEF Gapless
    <3>2. QED
      BY <1>2, <2>1, <3>1
  <2>2. CASE i > l /\ i - l \in DOMAIN t /\ u[i] = t[i - l]
    <3>1. PICK j \in DOMAIN t : j < i - l /\ t[j].type = "REGULAR" /\ t[j].id = t[i - l].id - 1
      BY <1>6, <2>2 DEF Gapless
    <3>2. l + j < i
      BY <1>1, <2>2, <3>1
    <3>3. QED
      BY <1>3, <2>2, <3>1, <3>2
  <2>3. QED
    BY <1>4, <2>1, <2>2
<1>7. ASSUME NEW out \in Nat, Reaches(s, n, out) \/ Reaches(t, n, out) PROVE Reaches(u, n, out)
  BY <1>2, <1>3, <1>7 DEF Reaches
<1>8. ASSUME NEW out \in Nat, Reaches(s, n, out), Len(t) = 1, t[1].type = "REGULAR",
             t[1].id = out + 1
      PROVE  Gapless(u, n) /\ Reaches(u, n, out + 1)
  <2>1. 1 \in DOMAIN t /\ u[l + 1] = t[1] /\ l + 1 \in DOMAIN u
    BY <1>1, <1>3, <1>8
  <2>2. Reaches(u, n, out + 1)
    BY <1>8, <2>1 DEF Reaches
  <2>3. ASSUME NEW i \in DOMAIN u, u[i].type = "REGULAR", ~(u[i].id <= n + 1)
        PROVE  \E j \in DOMAIN u : j < i /\ u[j].type = "REGULAR" /\ u[j].id = u[i].id - 1
    <3>1. CASE i \in DOMAIN s
      <4>1. PICK j \in DOMAIN s : j < i /\ s[j].type = "REGULAR" /\ s[j].id = s[i].id - 1
        BY <1>2, <2>3, <3>1 DEF Gapless
      <4>2. QED
        BY <1>2, <3>1, <4>1
    <3>2. CASE i \notin DOMAIN s
      <4>1. i = l + 1
        BY <1>1, <1>8, <3>2
      <4>2. u[i].id = out + 1
        BY <1>8, <2>1, <4>1
      <4>3. ~(out <= n)
        BY <2>3, <4>2
      <4>4. PICK j \in DOMAIN s : s[j].type = "REGULAR" /\ s[j].id = out
        BY <1>8, <4>3 DEF Reaches
      <4>5. j < i /\ u[j] = s[j] /\ j \in DOMAIN u /\ u[i].id - 1 = out
        BY <1>1, <1>2, <4>1, <4>2, <4>4
      <4>6. QED
        BY <4>4, <4>5
    <3>3. QED
      BY <3>1, <3>2
  <2>4. QED
    BY <2>2, <2>3 DEF Gapless
<1>9. QED
  BY <1>5, <1>6, <1>7, <1>8 DEF Gapless, u

(* The queue of unacknowledged messages, as it is sent again.              *)
LEMMA GapResent ==
    ASSUME NEW q \in Seq(Regulars), NEW base \in Nat, NEW n \in Nat, base <= n,
           NEW out \in Nat, Len(q) = out - base, Numbered(q, base)
    PROVE  Gapless(q, n) /\ Reaches(q, n, out) /\ NoRequest(q)
<1>1. DOMAIN q = 1..Len(q) /\ Len(q) \in Nat /\ \A i \in DOMAIN q : q[i].type = "REGULAR"
  <2>1. DOMAIN q = 1..Len(q) /\ Len(q) \in Nat
    BY LenProperties
  <2>2. \A i \in DOMAIN q : q[i] \in Regulars
    BY <2>1, ElementOfSeq
  <2>3. QED
    BY <2>1, <2>2 DEF Regulars
<1>2. \A i \in DOMAIN q : q[i].id = base + i
  BY <1>1 DEF Numbered
<1>3. ASSUME NEW i \in DOMAIN q, ~(q[i].id <= n + 1)
      PROVE  \E j \in DOMAIN q : j < i /\ q[j].type = "REGULAR" /\ q[j].id = q[i].id - 1
  <2>1. i - 1 \in DOMAIN q /\ i - 1 < i
    BY <1>1, <1>2, <1>3
  <2>2. q[i - 1].id = q[i].id - 1
    BY <1>1, <1>2, <2>1
  <2>3. QED
    BY <1>1, <2>1, <2>2
<1>4. Reaches(q, n, out)
  <2>1. CASE out <= n
    BY <2>1 DEF Reaches
  <2>2. CASE ~(out <= n)
    <3>1. Len(q) \in DOMAIN q /\ base + Len(q) = out
      BY <1>1, <2>2
    <3>2. QED
      BY <1>1, <1>2, <3>1 DEF Reaches
  <2>3. QED
    BY <2>1, <2>2
<1>5. QED
  BY <1>1, <1>3, <1>4 DEF Gapless, NoRequest

(* A list whose reader has got on by another way.                          *)
LEMMA GapLater ==
    ASSUME NEW s \in Seq(Messages), NEW n \in Nat, NEW n2 \in Nat, n <= n2
    PROVE  /\ Gapless(s, n) => Gapless(s, n2)
           /\ \A out \in Nat : Reaches(s, n, out) => Reaches(s, n2, out)
<1>1. \A i \in DOMAIN s : s[i].id \in Nat
  <2>1. DOMAIN s = 1..Len(s)
    BY LenProperties
  <2>2. \A i \in DOMAIN s : s[i] \in Messages
    BY <2>1, ElementOfSeq
  <2>3. QED
    BY <2>2 DEF Messages
<1>2. \A k \in Nat : (k <= n + 1 => k <= n2 + 1) /\ (k <= n => k <= n2)
  OBVIOUS
<1>3. QED
  BY <1>1, <1>2 DEF Gapless, Reaches

LEMMA NothingIsGapless == \A n : Gapless(<<>>, n) /\ NoRequest(<<>>)
  BY DEF Gapless, NoRequest

(* What end a adds to the messages under way to its peer is ms.            *)
Extends(a, ms) ==
    \A s \in Seq(Messages) :
        /\ Gapless(s, incomingMsgId[Peer(a)]) /\ NoRequest(s)
        /\ ~isReconnecting[a] => Reaches(s, incomingMsgId[Peer(a)], outgoingMsgId[a])
        => /\ Gapless(s \o ms, incomingMsgId[Peer(a)]) /\ NoRequest(s \o ms)
           /\ ~isReconnecting'[a] =>
                 Reaches(s \o ms, incomingMsgId[Peer(a)], outgoingMsgId'[a])

(* What end a leaves of its wire is rest.                                  *)
Leaves(a, rest) ==
    /\ Gapless(rest, incomingMsgId'[a]) /\ NoRequest(rest)
    /\ \A out \in Nat :
          Reaches(wire[a], incomingMsgId[a], out) => Reaches(rest, incomingMsgId'[a], out)

(* A step that only moves messages.                                        *)
LEMMA TransferGap ==
    ASSUME ProtocolInv, GapInv, NEW a \in Endpoints, NEW rest, NEW ms,
           Transfer(a, rest, ms), Extends(a, ms), Leaves(a, rest),
           ahead' = ahead,
           incomingMsgId'[a] \in Nat, incomingMsgId[a] <= incomingMsgId'[a],
           incomingMsgId'[Peer(a)] = incomingMsgId[Peer(a)],
           outgoingMsgId'[Peer(a)] = outgoingMsgId[Peer(a)],
           isReconnecting'[Peer(a)] = isReconnecting[Peer(a)],
           \A x \in Endpoints : ~replayAsked'[x] /\ outgoingUnackMsg'[x] \in Seq(Regulars)
    PROVE  GapInv'
<1> DEFINE p == Peer(a)
<1>1. /\ p \in Endpoints /\ p # a /\ Peer(p) = a /\ Peer(a) = p /\ a # "none" /\ p # "none"
      /\ \A x \in Endpoints : x = a \/ x = p
  BY PeerFacts DEF Endpoints
<1>2. /\ wire[a] \in Seq(Messages) /\ next[a] \in Seq(Messages)
      /\ wire[p] \in Seq(Messages) /\ next[p] \in Seq(Messages)
      /\ incomingMsgId[a] \in Nat /\ incomingMsgId[p] \in Nat
      /\ outgoingMsgId[a] \in Nat /\ outgoingMsgId[p] \in Nat
  BY <1>1 DEF ProtocolInv, ProtocolTypeOK
<1>3. GapInvAt(a) /\ GapInvAt(p)
  BY <1>1 DEF GapInv
<1>4. /\ wire'[a] = rest /\ next'[a] = next[a]
      /\ wire'[p] = IF ahead = "none" THEN wire[p] \o ms ELSE wire[p]
      /\ next'[p] = IF ahead = a THEN next[p] \o ms ELSE next[p]
  BY <1>1 DEF Transfer
<1> HIDE DEF p
<1>5. GapInvAt(a)'
  <2>1. Gapless(next[a], incomingMsgId'[a]) /\ NoRequest(next[a])
    BY <1>2, <1>3, GapLater DEF GapInvAt
  <2>2. ~isReconnecting[p] /\ ahead = "none" => Reaches(rest, incomingMsgId'[a], outgoingMsgId[p])
    BY <1>1, <1>2, <1>3 DEF GapInvAt, Leaves
  <2>3. ~isReconnecting[p] /\ ahead = p => Reaches(next[a], incomingMsgId'[a], outgoingMsgId[p])
    BY <1>1, <1>2, <1>3, GapLater DEF GapInvAt
  <2>4. QED
    BY <1>1, <1>4, <2>1, <2>2, <2>3 DEF GapInvAt, Gapless, NoRequest, Reaches, Leaves, p
<1>6. GapInvAt(p)'
  <2>1. ahead = "none" =>
          /\ Gapless(wire[p] \o ms, incomingMsgId[p]) /\ NoRequest(wire[p] \o ms)
          /\ ~isReconnecting'[a] => Reaches(wire[p] \o ms, incomingMsgId[p], outgoingMsgId'[a])
    BY <1>1, <1>2, <1>3 DEF GapInvAt, Extends
  <2>2. ahead = a =>
          /\ Gapless(next[p] \o ms, incomingMsgId[p]) /\ NoRequest(next[p] \o ms)
          /\ ~isReconnecting'[a] => Reaches(next[p] \o ms, incomingMsgId[p], outgoingMsgId'[a])
    BY <1>1, <1>2, <1>3 DEF GapInvAt, Extends
  <2>3. /\ Gapless(wire[p], incomingMsgId[p]) /\ NoRequest(wire[p])
        /\ Gapless(next[p], incomingMsgId[p]) /\ NoRequest(next[p])
    BY <1>3 DEF GapInvAt
  <2>4. /\ Gapless(wire'[p], incomingMsgId[p]) /\ NoRequest(wire'[p])
        /\ Gapless(next'[p], incomingMsgId[p]) /\ NoRequest(next'[p])
    BY <1>4, <2>1, <2>2, <2>3
  <2>5. ahead = "none" /\ ~isReconnecting'[a] =>
          Reaches(wire'[p], incomingMsgId[p], outgoingMsgId'[a])
    BY <1>4, <2>1
  <2>6. ahead = a /\ ~isReconnecting'[a] =>
          Reaches(next'[p], incomingMsgId[p], outgoingMsgId'[a])
    BY <1>4, <2>2
  <2>7. /\ Gapless(wire[p], incomingMsgId[p])' /\ NoRequest(wire[p])'
        /\ Gapless(next[p], incomingMsgId[p])' /\ NoRequest(next[p])'
    BY <2>4 DEF Gapless, NoRequest, p
  <2>8. /\ (ahead = "none")' /\ ~isReconnecting'[a] =>
              Reaches(wire[p], incomingMsgId[p], outgoingMsgId[a])'
        /\ (ahead = a)' /\ ~isReconnecting'[a] =>
              Reaches(next[p], incomingMsgId[p], outgoingMsgId[a])'
    BY <2>5, <2>6 DEF Reaches, p
  <2>9. QED
    BY <1>1, <2>7, <2>8 DEF GapInvAt, p
<1>7. QED
  BY <1>1, <1>5, <1>6 DEF GapInv

-----------------------------------------------------------------------------
(* What an end may add to the messages under way.                          *)
LEMMA ExtendsByNothing ==
    ASSUME ProtocolInv, NEW a \in Endpoints, isReconnecting'[a] = isReconnecting[a],
           outgoingMsgId'[a] = outgoingMsgId[a] \/ isReconnecting[a]
    PROVE  Extends(a, <<>>)
<1>1. \A s \in Seq(Messages) : s \o <<>> = s
  BY ConcatEmptySeq
<1>2. QED
  BY <1>1 DEF Extends

(* An ack, perhaps followed by messages that do not skip a number.         *)
LEMMA ExtendsByAck ==
    ASSUME ProtocolInv, NEW a \in Endpoints, NEW k \in Nat, NEW q \in Seq(Messages),
           outgoingMsgId'[a] = outgoingMsgId[a],
           Gapless(q, incomingMsgId[Peer(a)]), NoRequest(q),
           \/ isReconnecting'[a] = isReconnecting[a]
           \/ Reaches(q, incomingMsgId[Peer(a)], outgoingMsgId[a])
    PROVE  Extends(a, <<Ack(k)>> \o q)
<1> DEFINE n == incomingMsgId[Peer(a)]
           out == outgoingMsgId[a]
           h == <<Ack(k)>>
<1>1. h \in Seq(Messages) /\ Len(h) = 1 /\ DOMAIN h = {1} /\ h[1].type = "ACK"
  BY DEF Ack, Messages, Types
<1>2. Gapless(h, n) /\ NoRequest(h)
  BY <1>1 DEF Gapless, NoRequest
<1>3. n \in Nat /\ out \in Nat
  BY PeerFacts DEF ProtocolInv, ProtocolTypeOK
<1> HIDE DEF n, out, h
<1>4. Gapless(q, n) /\ (isReconnecting'[a] = isReconnecting[a] \/ Reaches(q, n, out))
  BY DEF n, out
<1>5. ASSUME NEW s \in Seq(Messages), Gapless(s, n), NoRequest(s),
             ~isReconnecting[a] => Reaches(s, n, out)
      PROVE  /\ Gapless(s \o (h \o q), n) /\ NoRequest(s \o (h \o q))
             /\ ~isReconnecting'[a] => Reaches(s \o (h \o q), n, out)
  <2>1. h \o q \in Seq(Messages) /\ Gapless(h \o q, n) /\ NoRequest(h \o q)
    BY <1>1, <1>2, <1>3, <1>4, GapJoined, ConcatProperties
  <2>2. Reaches(q, n, out) => Reaches(h \o q, n, out)
    BY <1>1, <1>2, <1>3, GapJoined
  <2>3. Gapless(s \o (h \o q), n) /\ NoRequest(s \o (h \o q))
    BY <1>3, <1>5, <2>1, GapJoined
  <2>4. Reaches(s, n, out) \/ Reaches(h \o q, n, out) => Reaches(s \o (h \o q), n, out)
    BY <1>3, <1>5, <2>1, GapJoined
  <2>5. QED
    BY <1>4, <1>5, <2>2, <2>3, <2>4
<1>6. QED
  BY <1>5 DEF Extends, n, out, h

(* The message after the last one.                                         *)
LEMMA ExtendsByNext ==
    ASSUME ProtocolInv, NEW a \in Endpoints, NEW m \in Regulars, m.id = outgoingMsgId[a] + 1,
           outgoingMsgId'[a] = outgoingMsgId[a] + 1, ~isReconnecting[a]
    PROVE  Extends(a, <<m>>)
<1> DEFINE n == incomingMsgId[Peer(a)]
           out == outgoingMsgId[a]
           t == <<m>>
<1>1. t \in Seq(Messages) /\ Len(t) = 1 /\ DOMAIN t = {1} /\ t[1].type = "REGULAR"
      /\ t[1].id = out + 1
  BY DEF Regulars
<1>2. NoRequest(t)
  BY <1>1 DEF NoRequest
<1>3. n \in Nat /\ out \in Nat
  BY PeerFacts DEF ProtocolInv, ProtocolTypeOK
<1> HIDE DEF n, out, t
<1>4. ASSUME NEW s \in Seq(Messages), Gapless(s, n), NoRequest(s), Reaches(s, n, out)
      PROVE  Gapless(s \o t, n) /\ NoRequest(s \o t) /\ Reaches(s \o t, n, out + 1)
  <2>1. NoRequest(s \o t)
    BY <1>1, <1>2, <1>3, <1>4, GapJoined
  <2>2. Gapless(s \o t, n) /\ Reaches(s \o t, n, out + 1)
    BY <1>1, <1>3, <1>4, GapJoined
  <2>3. QED
    BY <2>1, <2>2
<1>5. outgoingMsgId'[a] = out + 1
  BY DEF out
<1>6. QED
  BY <1>4, <1>5 DEF Extends, n, out, t

(* What an end may leave of its wire.                                      *)
LEMMA LeavesAll ==
    ASSUME ProtocolInv, GapInv, NEW a \in Endpoints, incomingMsgId'[a] = incomingMsgId[a]
    PROVE  Leaves(a, wire[a])
BY DEF GapInv, GapInvAt, Leaves

LEMMA LeavesTail ==
    ASSUME ProtocolInv, GapInv, NEW a \in Endpoints, wire[a] # <<>>,
           incomingMsgId'[a] \in Nat, incomingMsgId[a] <= incomingMsgId'[a],
           Head(wire[a]).type = "REGULAR" => Head(wire[a]).id <= incomingMsgId'[a]
    PROVE  Leaves(a, Tail(wire[a]))
<1>1. wire[a] \in Seq(Messages) /\ incomingMsgId[a] \in Nat
  BY DEF ProtocolInv, ProtocolTypeOK
<1>2. Gapless(wire[a], incomingMsgId[a]) /\ NoRequest(wire[a])
  BY DEF GapInv, GapInvAt
<1>3. \A out \in Nat :
         /\ Gapless(Tail(wire[a]), incomingMsgId'[a]) /\ NoRequest(Tail(wire[a]))
         /\ Reaches(wire[a], incomingMsgId[a], out) =>
               Reaches(Tail(wire[a]), incomingMsgId'[a], out)
  BY <1>1, <1>2, GapTaken
<1>4. 0 \in Nat
  OBVIOUS
<1>5. QED
  BY <1>3, <1>4 DEF Leaves

-----------------------------------------------------------------------------
(* The operations, one by one.                                             *)
LEMMA SendGap ==
    ASSUME ProtocolInv, GapInv, NEW e \in Endpoints, Send(e) PROVE GapInv'
<1> DEFINE m == Regular(outgoingMsgId[e] + 1, incomingMsgId[e])
<1>1. /\ outgoingMsgId' = [outgoingMsgId EXCEPT ![e] = @ + 1]
      /\ outgoingUnackMsg' = [outgoingUnackMsg EXCEPT ![e] = Append(@, m)]
      /\ Transfer(e, wire[e], Written(e, m))
      /\ UNCHANGED <<incomingMsgId, replayAsked, ahead, isReconnecting>>
  BY DEF Send, Write, socketVars
<1>2. /\ outgoingMsgId \in [Endpoints -> Nat] /\ incomingMsgId \in [Endpoints -> Nat]
      /\ outgoingUnackMsg \in [Endpoints -> Seq(Messages)]
  BY DEF ProtocolInv, ProtocolTypeOK
<1>3. m \in Regulars /\ m.id = outgoingMsgId[e] + 1
  BY <1>2 DEF Regular, Regulars, Messages, Types
<1> HIDE DEF m
<1>4. Extends(e, Written(e, m))
  <2>1. outgoingMsgId'[e] = outgoingMsgId[e] + 1 /\ isReconnecting'[e] = isReconnecting[e]
    BY <1>1, <1>2
  <2>2. CASE isReconnecting[e]
    BY <2>1, <2>2, ExtendsByNothing DEF Written
  <2>3. CASE ~isReconnecting[e]
    BY <1>3, <2>1, <2>3, ExtendsByNext DEF Written
  <2>4. QED
    BY <2>2, <2>3
<1>5. ASSUME NEW x \in Endpoints
      PROVE  ~replayAsked'[x] /\ outgoingUnackMsg'[x] \in Seq(Regulars)
  <2>1. ~replayAsked[x] /\ outgoingUnackMsg[x] \in Seq(Regulars)
    BY DEF GapInv, GapInvAt
  <2>2. Append(outgoingUnackMsg[x], m) \in Seq(Regulars)
    BY <1>3, <2>1, AppendProperties
  <2>3. QED
    BY <1>1, <1>2, <2>1, <2>2
<1>6. Leaves(e, wire[e])
  BY <1>1, LeavesAll
<1>7. /\ incomingMsgId'[e] \in Nat /\ incomingMsgId[e] <= incomingMsgId'[e]
      /\ outgoingMsgId'[Peer(e)] = outgoingMsgId[Peer(e)]
  BY <1>1, <1>2, PeerFacts
<1>8. QED
  BY <1>1, <1>4, <1>5, <1>6, <1>7, TransferGap

(* An ack on its own, or with what is sent again.                          *)
LEMMA AcknowledgingGap ==
    ASSUME ProtocolInv, GapInv, NEW e \in Endpoints, NEW q \in Seq(Messages),
           Gapless(q, incomingMsgId[Peer(e)]), NoRequest(q),
           \/ isReconnecting'[e] = isReconnecting[e]
           \/ Reaches(q, incomingMsgId[Peer(e)], outgoingMsgId[e]),
           isReconnecting'[Peer(e)] = isReconnecting[Peer(e)],
           Write(e, <<Ack(incomingMsgId[e])>> \o q),
           UNCHANGED <<outgoingMsgId, outgoingUnackMsg, incomingMsgId, replayAsked, ahead>>
    PROVE  GapInv'
<1>1. incomingMsgId[e] \in Nat /\ incomingMsgId[e] <= incomingMsgId'[e]
  BY DEF ProtocolInv, ProtocolTypeOK
<1>2. Extends(e, <<Ack(incomingMsgId[e])>> \o q)
  BY <1>1, ExtendsByAck
<1>3. Leaves(e, wire[e])
  BY LeavesAll
<1>4. \A x \in Endpoints : ~replayAsked'[x] /\ outgoingUnackMsg'[x] \in Seq(Regulars)
  BY DEF GapInv, GapInvAt
<1>5. QED
  BY <1>1, <1>2, <1>3, <1>4, TransferGap DEF Write

LEMMA AckAloneGap ==
    ASSUME ProtocolInv, GapInv, NEW e \in Endpoints, AckTimerSends(e) \/ KeepAlive(e)
    PROVE  GapInv'
<1>1. <<>> \in Seq(Messages) /\ <<Ack(incomingMsgId[e])>> \o <<>> = <<Ack(incomingMsgId[e])>>
  OBVIOUS
<1>2. Write(e, <<Ack(incomingMsgId[e])>> \o <<>>)
  BY <1>1 DEF AckTimerSends, KeepAlive
<1>3. UNCHANGED <<outgoingMsgId, outgoingUnackMsg, incomingMsgId, replayAsked, ahead,
                  isReconnecting>>
  BY DEF AckTimerSends, KeepAlive, outVars, socketVars
<1>4. QED
  BY <1>1, <1>2, <1>3, NothingIsGapless, AcknowledgingGap

LEMMA EndReconnectionGap ==
    ASSUME ProtocolInv, GapInv, NEW e \in Endpoints, EndReconnection(e) PROVE GapInv'
<1> DEFINE q == outgoingUnackMsg[e]
           n == incomingMsgId[Peer(e)]
<1>1. /\ q \in Seq(Regulars) /\ q \in Seq(Messages)
      /\ n \in Nat /\ outgoingAckId[e] \in Nat /\ outgoingMsgId[e] \in Nat
      /\ outgoingAckId[e] <= n /\ Len(q) = outgoingMsgId[e] - outgoingAckId[e]
      /\ Numbered(q, outgoingAckId[e])
  BY PeerFacts DEF GapInv, GapInvAt, ProtocolInv, ProtocolTypeOK, CountsOK, QueueOK
<1>2. /\ Write(e, <<Ack(incomingMsgId[e])>> \o q)
      /\ isReconnecting'[Peer(e)] = isReconnecting[Peer(e)]
      /\ UNCHANGED <<outgoingMsgId, outgoingUnackMsg, incomingMsgId, replayAsked, ahead>>
  BY PeerFacts DEF EndReconnection, Resumption, Resent, ProtocolInv, ProtocolTypeOK
<1> HIDE DEF q, n
<1>3. Gapless(q, n) /\ Reaches(q, n, outgoingMsgId[e]) /\ NoRequest(q)
  BY <1>1, GapResent
<1>4. QED
  BY <1>1, <1>2, <1>3, AcknowledgingGap DEF n

(* No replay request is under way, and what is read is never after a gap.  *)
LEMMA ReceiveGap ==
    ASSUME ProtocolInv, GapInv, NEW e \in Endpoints, Receive(e) PROVE GapInv'
<1> DEFINE h == Head(wire[e])
<1>1. /\ wire[e] # <<>> /\ wire[e] \in Seq(Messages) /\ h \in Messages
      /\ 1 \in DOMAIN wire[e] /\ \A i \in DOMAIN wire[e] : ~(i < 1)
      /\ h = wire[e][1] /\ h.id \in Nat /\ h.ack \in Nat
  <2>1. wire[e] # <<>> /\ wire[e] \in Seq(Messages)
    BY DEF Receive, ReceiveAck, ReceiveReplayRequest, ReceiveExpected, ReceiveDuplicate,
       ReceiveAfterGap, Read, ProtocolInv, ProtocolTypeOK
  <2>2. h \in Messages /\ h = wire[e][1]
    BY <2>1, HeadTailProperties
  <2>3. DOMAIN wire[e] = 1..Len(wire[e]) /\ Len(wire[e]) \in Nat /\ Len(wire[e]) # 0
    BY <2>1, LenProperties, EmptySeq
  <2>4. QED
    BY <2>1, <2>2, <2>3 DEF Messages
<1>2. /\ incomingMsgId \in [Endpoints -> Nat] /\ outgoingMsgId \in [Endpoints -> Nat]
      /\ outgoingUnackMsg \in [Endpoints -> Seq(Messages)]
      /\ incomingMsgId[e] \in Nat
  BY DEF ProtocolInv, ProtocolTypeOK
<1>3. h.type # "REPLAY"
  BY <1>1 DEF GapInv, GapInvAt, NoRequest
<1>4. h.type = "REGULAR" => h.id <= incomingMsgId[e] + 1
  BY <1>1 DEF GapInv, GapInvAt, Gapless
<1>5. /\ Transfer(e, Tail(wire[e]), <<>>) /\ \E type \in Types : Read(e, type)
      /\ UNCHANGED replayAsked
      /\ \/ h.type = "ACK" /\ UNCHANGED incomingMsgId
         \/ h.id <= incomingMsgId[e] /\ UNCHANGED incomingMsgId
         \/ /\ h.id = incomingMsgId[e] + 1
            /\ incomingMsgId' = [incomingMsgId EXCEPT ![e] = h.id]
  <2>1. CASE ReceiveAck(e)
    BY <2>1 DEF ReceiveAck, Read, Types
  <2>2. CASE ReceiveReplayRequest(e)
    BY <1>3, <2>2 DEF ReceiveReplayRequest, Read
  <2>3. CASE ReceiveExpected(e)
    BY <2>3 DEF ReceiveExpected, Expected, Types
  <2>4. CASE ReceiveDuplicate(e)
    BY <2>4 DEF ReceiveDuplicate, Types
  <2>5. CASE ReceiveAfterGap(e)
    <3>1. h.type = "REGULAR" /\ h.id > incomingMsgId[e] /\ h.id # incomingMsgId[e] + 1
      BY <2>5 DEF ReceiveAfterGap, Read, Expected
    <3>2. QED
      BY <1>1, <1>2, <1>4, <3>1
  <2>6. QED
    BY <2>1, <2>2, <2>3, <2>4, <2>5 DEF Receive
<1>6. UNCHANGED <<outgoingMsgId, ahead, isReconnecting>>
  BY <1>5 DEF Read, socketVars
<1>7. /\ incomingMsgId'[e] \in Nat /\ incomingMsgId[e] <= incomingMsgId'[e]
      /\ incomingMsgId'[Peer(e)] = incomingMsgId[Peer(e)]
      /\ h.type = "REGULAR" => h.id <= incomingMsgId'[e]
  BY <1>1, <1>2, <1>5, PeerFacts
<1>8. Leaves(e, Tail(wire[e]))
  BY <1>1, <1>7, LeavesTail
<1>9. Extends(e, <<>>)
  BY <1>6, ExtendsByNothing
<1>10. outgoingUnackMsg'[e] \in Seq(Regulars)
  <2> DEFINE q == outgoingUnackMsg[e]
             base == outgoingAckId[e]
             out == outgoingMsgId[e]
  <2>1. /\ q \in Seq(Regulars) /\ base \in Nat /\ out \in Nat
        /\ Len(q) = out - base /\ Numbered(q, base)
    BY DEF GapInv, GapInvAt, ProtocolInv, ProtocolTypeOK, QueueOK
  <2>2. h.ack <= out
    <3>1. h \in Genuine(e)
      BY <1>1, HeadTailProperties DEF ProtocolInv, WiresOK
    <3>2. /\ h.ack <= incomingMsgId[Peer(e)] /\ incomingMsgId[Peer(e)] <= out
          /\ incomingMsgId[Peer(e)] \in Nat
      BY <1>2, <3>1, PeerFacts DEF Genuine, ProtocolInv, CountsOK
    <3>3. QED
      BY <1>1, <2>1, <3>2, AtMostIsTransitive
  <2>3. Regulars \in SUBSET Messages
    BY DEF Regulars
  <2>4. outgoingUnackMsg'[e] = Left(q, h.ack, base)
    BY <1>2, <1>5 DEF Read, Unacked, Left, Remaining
  <2> HIDE DEF q, base, out, h
  <2>5. Left(q, h.ack, base) \in Seq(Regulars)
    BY <1>1, <2>1, <2>2, <2>3, Shortened
  <2>6. QED
    BY <2>4, <2>5
<1>11. ASSUME NEW x \in Endpoints
       PROVE  ~replayAsked'[x] /\ outgoingUnackMsg'[x] \in Seq(Regulars)
  <2>1. ~replayAsked'[x] /\ outgoingUnackMsg[x] \in Seq(Regulars)
    BY <1>5 DEF GapInv, GapInvAt
  <2>2. x # e => outgoingUnackMsg'[x] = outgoingUnackMsg[x]
    BY <1>2, <1>5 DEF Read
  <2>3. QED
    BY <1>10, <2>1, <2>2
<1>12. QED
  BY <1>5, <1>6, <1>7, <1>8, <1>9, <1>11, TransferGap

(* A change of the socket.  Who goes over is reconnecting; who is followed *)
(* has nothing under way on the new socket but what the other left there.  *)
LEMMA BeginReconnectionGap ==
    ASSUME ProtocolInv, GapInv, NEW e \in Endpoints, BeginReconnection(e) PROVE GapInv'
<1> DEFINE p == Peer(e)
<1>1. /\ p \in Endpoints /\ p # e /\ Peer(p) = e /\ Peer(e) = p /\ e # "none" /\ p # "none"
      /\ \A x \in Endpoints : x = e \/ x = p
  BY PeerFacts DEF Endpoints
<1>2. /\ wire'[e] = next[e] /\ wire'[p] = wire[p] /\ next'[e] = <<>> /\ next'[p] = <<>>
      /\ ahead' = IF ahead = p THEN "none" ELSE e
      /\ isReconnecting'[e] /\ isReconnecting'[p] = isReconnecting[p]
      /\ \A x \in Endpoints : ~replayAsked'[x]
      /\ UNCHANGED <<outgoingMsgId, outgoingUnackMsg, incomingMsgId>>
  BY <1>1 DEF BeginReconnection, Move, ProtocolInv, ProtocolTypeOK, GapInv, GapInvAt, outVars
<1>3. GapInvAt(e) /\ GapInvAt(p)
  BY <1>1 DEF GapInv
<1> HIDE DEF p
<1>4. GapInvAt(e)'
  BY <1>1, <1>2, <1>3, NothingIsGapless DEF GapInvAt, Gapless, NoRequest, Reaches
<1>5. GapInvAt(p)'
  BY <1>1, <1>2, <1>3, NothingIsGapless DEF GapInvAt, Gapless, NoRequest
<1>6. QED
  BY <1>1, <1>4, <1>5 DEF GapInv

LEMMA NextGap ==
    ASSUME Redialers = Endpoints, ProtocolInv, GapInv, [Next]_protocolVars PROVE GapInv'
<1>1. CASE UNCHANGED <<outgoingMsgId, outgoingUnackMsg, incomingMsgId, replayAsked, ahead,
                       isReconnecting, wire, next>>
  BY <1>1 DEF GapInv, GapInvAt, Gapless, NoRequest, Reaches
<1>2. CASE UNCHANGED protocolVars
  BY <1>1, <1>2 DEF protocolVars, outVars, inVars, socketVars, wireVars
<1>3. CASE Next
  <2>1. PICK e \in Endpoints :
            \/ Send(e) \/ Receive(e) \/ KeepAlive(e)
            \/ AckTimerIdle(e) \/ AckTimerSends(e) \/ WatchTimer(e)
            \/ BeginReconnection(e) \/ EndReconnection(e) \/ AutoReconnect(e)
    BY <1>3 DEF Next
  <2>2. CASE AckTimerIdle(e) \/ WatchTimer(e)
    BY <1>1, <2>2 DEF AckTimerIdle, WatchTimer, outVars, inVars, socketVars, wireVars
  <2>3. ~AutoReconnect(e)
    BY DEF AutoReconnect
  <2>4. QED
    BY <2>1, <2>2, <2>3, SendGap, ReceiveGap, AckAloneGap, BeginReconnectionGap,
       EndReconnectionGap
<1>4. QED
  BY <1>2, <1>3

(* When both ends go through begin- and endAcceptReconnection, no message  *)
(* ever comes before one that is missing, and _receiveMessage never asks   *)
(* for a replay (protocol.ts:914-922): what is sent again on a new socket  *)
(* joins on to what is sent next, whoever goes over first.                 *)
THEOREM NoGapsOccur == Spec => []NoGapAfterRedial
<1>1. Init => GapInv
  <2>1. \A e \in Endpoints : Reaches(<<>>, 0, 0)
    BY DEF Reaches
  <2>2. QED
    BY <2>1, NothingIsGapless, EmptySeq, PeerFacts DEF Init, GapInv, GapInvAt
<1>2. GapInv => NoGapAfterRedial
  BY DEF GapInv, GapInvAt, NoGapAfterRedial
<1>3. CASE Redialers = Endpoints
  <2>1. ProtocolInv /\ GapInv /\ [Next]_protocolVars => GapInv'
    BY <1>3, NextGap
  <2>2. QED
    BY <1>1, <1>2, <2>1, ProtocolInvHolds, PTL DEF Spec
<1>4. CASE Redialers # Endpoints
  <2>1. NoGapAfterRedial
    BY <1>4 DEF NoGapAfterRedial
  <2>2. QED
    BY <2>1, PTL
<1>5. QED
  BY <1>3, <1>4

=============================================================================
