-------------------------- MODULE ChannelsProofs ---------------------------
(* What Channels promises, proved for any number of calls, events, pages   *)
(* and restarts.                                                           *)
EXTENDS Channels, FiniteSetTheorems, SequenceTheorems, TLAPS

(* What will be disposed of has a subscription to dispose of.              *)
Subscribed == \A k \in Pages : \A e \in active[k] \cap Events : subs[k][e] >= 1

(* The page hears none of the reconnect messages.                          *)
Unheard == \A i \in DOMAIN toClient : toClient[i] \in Reconnects => ~Hears(toClient[i])

TypeInv == ChannelsTypeOK /\ Subscribed /\ Unheard

USE DEF Ids

-----------------------------------------------------------------------------
(* Types.                                                                  *)

(* How often an event is in a list is a number.                            *)
LEMMA ListensNat ==
    ASSUME NEW S, NEW reqs \in Seq(S), NEW e
    PROVE  /\ Listens(reqs, e) \in Nat
           /\ \A i \in DOMAIN reqs :
                 reqs[i].type = "listen" /\ reqs[i].id = e => Listens(reqs, e) >= 1
<1> DEFINE Is == {i \in DOMAIN reqs : reqs[i].type = "listen" /\ reqs[i].id = e}
<1>1. IsFiniteSet(1..Len(reqs))
  BY FS_Interval
<1>2. Is \subseteq 1..Len(reqs)
  OBVIOUS
<1>3. IsFiniteSet(Is)
  BY <1>1, <1>2, FS_Subset
<1>4. Cardinality(Is) \in Nat
  BY <1>3, FS_CardinalityType
<1>5. ASSUME NEW i \in Is PROVE Cardinality(Is) # 0
  BY <1>3, FS_EmptySet
<1>6. Listens(reqs, e) = Cardinality(Is)
  BY DEF Listens
<1>7. ASSUME NEW i \in DOMAIN reqs, reqs[i].type = "listen", reqs[i].id = e
      PROVE  Listens(reqs, e) >= 1
  <2>1. i \in Is
    BY <1>7
  <2> HIDE DEF Is
  <2>2. QED
    BY <2>1, <1>4, <1>5, <1>6
<1>8. QED
  BY <1>4, <1>6, <1>7

(* Requests that are executed add subscriptions for all they make active.  *)
LEMMA ExecuteTyped ==
    ASSUME TypeInv, NEW k \in Pages, NEW S, NEW reqs \in Seq(S), Execute(k, reqs),
           \A i \in DOMAIN reqs :
              reqs[i].id \in Ids /\ (reqs[i].id \in Events => reqs[i].type = "listen")
    PROVE  /\ running' \subseteq [conn : Pages, id : Calls, page : Pages]
           /\ active' \in [Pages -> SUBSET Ids]
           /\ subs' \in [Pages -> [Events -> Nat]]
           /\ executed' \in [Pages -> [Calls -> Nat]]
           /\ Subscribed'
<1>1. /\ active \in [Pages -> SUBSET Ids]
      /\ subs \in [Pages -> [Events -> Nat]]
      /\ executed \in [Pages -> [Calls -> Nat]]
      /\ running \subseteq [conn : Pages, id : Calls, page : Pages]
      /\ \A l \in Pages : \A e \in active[l] \cap Events : subs[l][e] >= 1
  BY DEF TypeInv, ChannelsTypeOK, Subscribed
<1>2. \A e \in Events : Listens(reqs, e) \in Nat
  BY ListensNat
<1>3. running' \subseteq [conn : Pages, id : Calls, page : Pages]
  BY <1>1 DEF Execute
<1>4. active' = [active EXCEPT ![k] = active[k] \cup {reqs[i].id : i \in DOMAIN reqs}]
  BY DEF Execute
<1>5. subs' = [subs EXCEPT ![k] = [e \in Events |-> subs[k][e] + Listens(reqs, e)]]
  BY DEF Execute
<1>6. active' \in [Pages -> SUBSET Ids]
  <2>1. {reqs[i].id : i \in DOMAIN reqs} \subseteq Ids
    OBVIOUS
  <2>2. QED
    BY <1>1, <1>4, <2>1
<1>7. subs' \in [Pages -> [Events -> Nat]]
  <2>1. [e \in Events |-> subs[k][e] + Listens(reqs, e)] \in [Events -> Nat]
    BY <1>1, <1>2
  <2>2. QED
    BY <1>1, <1>5, <2>1
<1>8. executed' \in [Pages -> [Calls -> Nat]]
  <2>1. \A p \in Pages, c \in Calls :
           executed[p][c] + (IF Called(reqs, p, c) THEN 1 ELSE 0) \in Nat
    BY <1>1
  <2>2. QED
    BY <2>1 DEF Execute
<1>9. ASSUME NEW l \in Pages, NEW e \in Events, e \in active'[l]
      PROVE  subs'[l][e] >= 1
  <2>1. CASE l # k
    BY <2>1, <1>1, <1>4, <1>5, <1>9
  <2>2. CASE l = k
    <3>1. subs'[l][e] = subs[k][e] + Listens(reqs, e)
      BY <1>1, <1>5, <2>2
    <3>2. subs[k][e] \in Nat /\ Listens(reqs, e) \in Nat
      BY <1>1, <1>2
    <3>3. CASE e \in active[k]
      <4>1. subs[k][e] >= 1
        BY <1>1, <3>3
      <4>2. QED
        BY <3>1, <3>2, <4>1
    <3>4. CASE e \notin active[k]
      <4>1. PICK i \in DOMAIN reqs : reqs[i].id = e
        BY <1>1, <1>4, <1>9, <2>2, <3>4
      <4>2. Listens(reqs, e) >= 1
        BY <4>1, ListensNat
      <4>3. QED
        BY <3>1, <3>2, <4>2
    <3>5. QED
      BY <3>3, <3>4
  <2>3. QED
    BY <2>1, <2>2
<1>10. QED
  BY <1>3, <1>6, <1>7, <1>8, <1>9 DEF Subscribed

(* Messages to the worker are of these types.                              *)
LEMMA ServerMessages ==
    /\ \A p \in Pages : Hello(p) \in Seq(Handshakes \cup Requests)
    /\ ChannelsTypeOK =>
          /\ \A c \in Calls, t \in {"call", "cancel"} :
                Request(t, c) \in Handshakes \cup Requests /\ Request(t, c) \in Requests
          /\ \A e \in Events, t \in {"listen", "dispose"} :
                Request(t, e) \in Handshakes \cup Requests /\ Request(t, e) \in Requests
<1>1. \A p \in Pages : Hello(p) \in Seq(Handshakes \cup Requests)
  <2> TAKE p \in Pages
  <2>1. [type |-> "hello", page |-> p] \in Handshakes /\ [type |-> "ctx", page |-> p] \in Handshakes
    BY DEF Handshakes
  <2>2. QED
    BY <2>1 DEF Hello
<1>2. QED
  BY <1>1 DEF Request, Requests, ChannelsTypeOK

(* A sequence with an element added.                                       *)
LEMMA Appended ==
    ASSUME NEW S, NEW s \in Seq(S), NEW x \in S
    PROVE  /\ Append(s, x) \in Seq(S)
           /\ Len(Append(s, x)) = Len(s) + 1
           /\ \A j \in 1..(Len(s) + 1) : Append(s, x)[j] = IF j <= Len(s) THEN s[j] ELSE x
OBVIOUS

(* A sequence with an element removed has the elements it had.             *)
LEMMA Removed ==
    ASSUME NEW S, NEW s \in Seq(S), NEW i \in DOMAIN s
    PROVE  /\ RemoveAt(s, i) \in Seq(S)
           /\ Len(RemoveAt(s, i)) = Len(s) - 1
           /\ \A j \in 1..(Len(s) - 1) :
                 RemoveAt(s, i)[j] = IF j < i THEN s[j] ELSE s[j + 1]
<1> DEFINE a == SubSeq(s, 1, i - 1)
           b == SubSeq(s, i + 1, Len(s))
<1>1. a \in Seq(S) /\ Len(a) = i - 1 /\ \A j \in 1..(i - 1) : a[j] = s[j]
  OBVIOUS
<1>2. b \in Seq(S) /\ Len(b) = Len(s) - i /\ \A j \in 1..(Len(s) - i) : b[j] = s[i + j]
  OBVIOUS
<1>3. RemoveAt(s, i) = a \o b
  BY DEF RemoveAt
<1>4. i \in 1..Len(s)
  OBVIOUS
<1> HIDE DEF a, b
<1>5. a \o b \in Seq(S) /\ Len(a \o b) = Len(s) - 1
  BY <1>1, <1>2, <1>4
<1>6. ASSUME NEW j \in 1..(Len(s) - 1)
      PROVE  (a \o b)[j] = IF j < i THEN s[j] ELSE s[j + 1]
  <2>1. CASE j < i
    BY <2>1, <1>1, <1>2, <1>4
  <2>2. CASE ~(j < i)
    <3>1. (a \o b)[j] = b[j - Len(a)]
      <4>1. \A n \in 1..(Len(a) + Len(b)) :
               (a \o b)[n] = IF n <= Len(a) THEN a[n] ELSE b[n - Len(a)]
        BY <1>1, <1>2, ConcatProperties
      <4>2. j \in 1..(Len(a) + Len(b)) /\ ~(j <= Len(a))
        BY <2>2, <1>1, <1>2, <1>4
      <4>3. QED
        BY <4>1, <4>2
    <3>2. j - Len(a) = j - (i - 1) /\ j - (i - 1) \in 1..(Len(s) - i) /\ i + (j - (i - 1)) = j + 1
      BY <2>2, <1>1, <1>4
    <3>3. QED
      BY <2>2, <3>1, <3>2, <1>2
  <2>3. QED
    BY <2>1, <2>2
<1>7. QED
  BY <1>3, <1>5, <1>6

(* Init has the types.                                                     *)
LEMMA TypeInit == Init => TypeInv
<1> SUFFICES ASSUME Init PROVE TypeInv
  OBVIOUS
<1>1. 1 \in Pages
  BY ChannelsAssumption DEF Pages
<1>2. toServer \in Seq(Handshakes \cup Requests)
  BY <1>1, ServerMessages DEF Init
<1>3. /\ call \in [Calls -> {"new", "waiting", "sent", "done", "cancelled"}]
      /\ answered \in [Calls -> Pages \cup {0}]
      /\ event \in [Events -> {"off", "opening", "on"}]
      /\ rejoin \in [Events -> Nat]
  BY DEF Init
<1>4. waiting \in Seq(Requests) /\ toClient \in Seq({Initialize} \cup Answers \cup Reconnects)
  BY DEF Init
<1>5. /\ pending \in [Pages -> Seq(Pendings)]
      /\ active \in [Pages -> SUBSET Ids]
      /\ subs \in [Pages -> [Events -> Nat]]
      /\ executed \in [Pages -> [Calls -> Nat]]
  BY DEF Init
<1>6. ChannelsTypeOK
  BY <1>1, <1>2, <1>3, <1>4, <1>5 DEF Init, ChannelsTypeOK
<1>7. QED
  BY <1>6 DEF Init, TypeInv, Subscribed, Unheard

(* Every step of the page keeps the types.                                 *)
LEMMA PageTypes ==
    ASSUME TypeInv
    PROVE  /\ \A c \in Calls : Call(c) \/ Cancel(c) => TypeInv'
           /\ \A e \in Events : AddListener(e) \/ RemoveListener(e) => TypeInv'
           /\ PageStep \/ Reload => TypeInv'
<1> DEFINE SM == Handshakes \cup Requests
           CM == {Initialize} \cup Answers \cup Reconnects
<1>a. ChannelsTypeOK
  BY DEF TypeInv
<1>b. /\ \A c \in Calls : Request("call", c) \in Requests /\ Request("cancel", c) \in Requests
      /\ \A e \in Events : Request("listen", e) \in Requests /\ Request("dispose", e) \in Requests
  BY <1>a, ServerMessages
<1>c. Requests \subseteq SM
  OBVIOUS
<1>t. toServer \in Seq(SM) /\ toClient \in Seq(CM) /\ waiting \in Seq(Requests) /\ page \in Pages
  BY <1>a DEF ChannelsTypeOK
<1> HIDE DEF SM, CM
<1> USE DEF clientVars, serverVars, managerVars, historyVars
<1>1. ASSUME NEW c \in Calls, Call(c) PROVE TypeInv'
  <2>a. Request("call", c) \in Requests /\ Request("call", c) \in SM
    BY <1>b, <1>c
  <2>b. \/ toServer' = Append(toServer, Request("call", c)) /\ waiting' = waiting
        \/ waiting' = Append(waiting, Request("call", c)) /\ toServer' = toServer
    BY <1>1 DEF Call, Ask
  <2>1. toServer' \in Seq(SM) /\ waiting' \in Seq(Requests)
    BY <2>a, <2>b, <1>t, Appended
  <2>2. ChannelsTypeOK'
    BY <1>1, <1>a, <2>1 DEF Call, ChannelsTypeOK, SM
  <2>3. QED
    BY <1>1, <2>2 DEF Call, TypeInv, Subscribed, Unheard
<1>2. ASSUME NEW c \in Calls, Cancel(c) PROVE TypeInv'
  <2> DEFINE x == Request("cancel", c)
  <2>a. x \in SM
    BY <1>b, <1>c
  <2>b. toServer' = Append(toServer, x) \/ toServer' = toServer \o <<x, x>>
    BY <1>2 DEF Cancel
  <2>1. toServer' \in Seq(SM)
    <3> HIDE DEF x
    <3>1. <<x, x>> \in Seq(SM)
      BY <2>a
    <3>2. toServer \o <<x, x>> \in Seq(SM)
      BY <3>1, <1>t, ConcatProperties
    <3>3. QED
      BY <2>a, <2>b, <3>2, <1>t, Appended
  <2>2. waiting' \in Seq(Requests)
    BY <1>2, <1>t, Removed DEF Cancel, Withdraw
  <2>3. ChannelsTypeOK'
    BY <1>2, <1>a, <2>1, <2>2 DEF Cancel, ChannelsTypeOK, SM
  <2>4. QED
    BY <1>2, <2>3 DEF Cancel, TypeInv, Subscribed, Unheard
<1>3. ASSUME NEW e \in Events, AddListener(e) PROVE TypeInv'
  <2>a. Request("listen", e) \in Requests /\ Request("listen", e) \in SM
    BY <1>b, <1>c
  <2>b. \/ toServer' = Append(toServer, Request("listen", e)) /\ waiting' = waiting
        \/ waiting' = Append(waiting, Request("listen", e)) /\ toServer' = toServer
    BY <1>3 DEF AddListener, Ask
  <2>1. toServer' \in Seq(SM) /\ waiting' \in Seq(Requests)
    BY <2>a, <2>b, <1>t, Appended
  <2>c. rejoin' \in [Events -> Nat] /\ event' \in [Events -> {"off", "opening", "on"}]
    BY <1>3, <1>a DEF AddListener, ChannelsTypeOK
  <2>2. ChannelsTypeOK'
    BY <1>3, <1>a, <2>1, <2>c DEF AddListener, ChannelsTypeOK, SM
  <2>3. QED
    BY <1>3, <2>2 DEF AddListener, TypeInv, Subscribed, Unheard
<1>4. ASSUME NEW e \in Events, RemoveListener(e) PROVE TypeInv'
  <2>a. Request("dispose", e) \in SM
    BY <1>b, <1>c
  <2>b. toServer' = Append(toServer, Request("dispose", e)) \/ toServer' = toServer
    BY <1>4 DEF RemoveListener
  <2>1. toServer' \in Seq(SM)
    BY <2>a, <2>b, <1>t, Appended
  <2>2. waiting' \in Seq(Requests)
    BY <1>4, <1>t, Removed DEF RemoveListener, Withdraw
  <2>3. ChannelsTypeOK'
    BY <1>4, <1>a, <2>1, <2>2 DEF RemoveListener, ChannelsTypeOK, SM
  <2>4. QED
    BY <1>4, <2>3 DEF RemoveListener, TypeInv, Subscribed, Unheard
<1>5. CASE ReceiveInit
  <2>1. toServer' \in Seq(SM) /\ waiting' \in Seq(Requests) /\ toClient' \in Seq(CM)
    BY <1>5, <1>c, <1>t DEF ReceiveInit
  <2>2. rejoin' \in [Events -> Nat]
    <3>1. \A e \in Events : Listens(waiting, e) \in Nat
      BY <1>t, ListensNat
    <3>2. QED
      BY <1>5, <1>a, <3>1 DEF ReceiveInit, ChannelsTypeOK
  <2>3. ChannelsTypeOK'
    BY <1>5, <1>a, <2>1, <2>2 DEF ReceiveInit, ChannelsTypeOK, SM, CM
  <2>4. QED
    BY <1>5, <2>3, <1>t DEF ReceiveInit, TypeInv, Subscribed, Unheard
<1>6. CASE ReceiveAnswer
  <2> DEFINE h == Head(toClient)
  <2>1. h.id \in Calls /\ h.page \in Pages /\ toClient' \in Seq(CM)
    BY <1>6, <1>t DEF ReceiveAnswer, Answers
  <2>2. toServer' \in Seq(SM)
    <3>1. Request("cancel", h.id) \in SM
      BY <2>1, <1>b, <1>c
    <3>2. toServer' = Append(toServer, Request("cancel", h.id)) \/ toServer' = toServer
      BY <1>6 DEF ReceiveAnswer
    <3>3. QED
      BY <3>1, <3>2, <1>t, Appended
  <2>3. call' \in [Calls -> {"new", "waiting", "sent", "done", "cancelled"}]
    BY <1>6, <1>a, <2>1 DEF ReceiveAnswer, ChannelsTypeOK
  <2>4. answered' \in [Calls -> Pages \cup {0}]
    BY <1>6, <1>a, <2>1 DEF ReceiveAnswer, ChannelsTypeOK
  <2>5. ChannelsTypeOK'
    BY <1>6, <1>a, <2>1, <2>2, <2>3, <2>4 DEF ReceiveAnswer, ChannelsTypeOK, SM, CM
  <2>6. QED
    BY <1>6, <2>5, <1>t DEF ReceiveAnswer, TypeInv, Subscribed, Unheard
<1>7. CASE ReceiveReconnect
  <2>1. toClient' \in Seq(CM)
    BY <1>7, <1>t DEF ReceiveReconnect
  <2>a. ~Hears(Head(toClient))
    <3>1. toClient # <<>> /\ toClient[1] \in Reconnects /\ 1 \in DOMAIN toClient
      BY <1>7, <1>t DEF ReceiveReconnect
    <3>2. QED
      BY <3>1 DEF TypeInv, Unheard
  <2>b. toServer' = toServer
    BY <1>7, <2>a DEF ReceiveReconnect
  <2>2. ChannelsTypeOK'
    BY <1>7, <1>a, <2>1, <2>b DEF ReceiveReconnect, ChannelsTypeOK, CM
  <2>3. QED
    BY <1>7, <2>2, <1>t DEF ReceiveReconnect, TypeInv, Subscribed, Unheard
<1>8. CASE Reload
  <2>1. page + 1 \in Pages
    BY <1>8, <1>t, ChannelsAssumption DEF Reload, Pages
  <2>2. toServer' \in Seq(SM)
    BY <1>8, <2>1, <1>t, ServerMessages DEF Reload, SM
  <2>a. /\ call' \in [Calls -> {"new", "waiting", "sent", "done", "cancelled"}]
        /\ answered' \in [Calls -> Pages \cup {0}]
        /\ event' \in [Events -> {"off", "opening", "on"}]
        /\ rejoin' \in [Events -> Nat]
    BY <1>8 DEF Reload
  <2>b. waiting' \in Seq(Requests) /\ toClient' \in Seq(CM)
    BY <1>8 DEF Reload
  <2>3. ChannelsTypeOK'
    BY <1>8, <1>a, <2>1, <2>2, <2>a, <2>b DEF Reload, ChannelsTypeOK, SM, CM
  <2>4. QED
    BY <1>8, <2>3 DEF Reload, TypeInv, Subscribed, Unheard
<1>9. QED
  BY <1>1, <1>2, <1>3, <1>4, <1>5, <1>6, <1>7, <1>8 DEF PageStep

(* Every step of the worker, of its timers and of the browser does.        *)
LEMMA WorkerTypes ==
    ASSUME TypeInv
    PROVE  /\ ServerStep \/ RegisterChannel \/ Save \/ Restart \/ SendReconnect => TypeInv'
           /\ \A k \in Pages : Flush(k) => TypeInv'
           /\ \A k \in Pages : \A i \in DOMAIN pending[k] : Timeout(k, i) => TypeInv'
           /\ \A x \in running, ok \in BOOLEAN : Finish(x, ok) => TypeInv'
<1> DEFINE SM == Handshakes \cup Requests
           CM == {Initialize} \cup Answers \cup Reconnects
<1>a. ChannelsTypeOK
  BY DEF TypeInv
<1>t. /\ toServer \in Seq(SM) /\ toClient \in Seq(CM)
      /\ pending \in [Pages -> Seq(Pendings)]
      /\ active \in [Pages -> SUBSET Ids]
      /\ subs \in [Pages -> [Events -> Nat]]
      /\ lost \subseteq Events
      /\ current \in Pages \cup {0} /\ greeted \in Pages \cup {0}
  BY <1>a DEF ChannelsTypeOK
<1>s. \A k \in Pages : \A e \in active[k] \cap Events : subs[k][e] >= 1
  BY DEF TypeInv, Subscribed
<1>m. toServer # <<>> => Head(toServer) \in SM /\ Tail(toServer) \in Seq(SM)
  BY <1>t
<1> HIDE DEF SM, CM
<1> USE DEF clientVars, serverVars, managerVars, historyVars
<1>1. CASE ReceiveHello
  <2>1. toServer' \in Seq(SM)
    BY <1>1, <1>m DEF ReceiveHello, Arrived
  <2>2. greeted' \in Pages
    BY <1>1, <1>m DEF ReceiveHello, Arrived, SM, Handshakes, Requests
  <2>3. lost' \subseteq Events /\ active' \in [Pages -> SUBSET Ids]
    BY <1>1, <1>t DEF ReceiveHello
  <2>4. subs' \in [Pages -> [Events -> Nat]] /\ Subscribed'
    <3>1. CASE current = 0
      BY <1>1, <1>t, <1>s, <3>1 DEF ReceiveHello, Subscribed
    <3>2. CASE current # 0
      <4> DEFINE f == [e \in Events |-> subs[current][e] - IF e \in active[current] THEN 1 ELSE 0]
      <4>1. current \in Pages
        BY <3>2, <1>t
      <4>2. ASSUME NEW e \in Events
            PROVE  subs[current][e] - (IF e \in active[current] THEN 1 ELSE 0) \in Nat
        <5>1. subs[current][e] \in Nat /\ (e \in active[current] => subs[current][e] >= 1)
          BY <4>1, <1>t, <1>s
        <5>2. QED
          BY <5>1
      <4>3. f \in [Events -> Nat]
        BY <4>2
      <4>4. subs' = [subs EXCEPT ![current] = f] /\ active' = [active EXCEPT ![current] = {}]
        BY <1>1, <3>2 DEF ReceiveHello, Disposed
      <4> HIDE DEF f
      <4>5. subs' \in [Pages -> [Events -> Nat]]
        BY <4>3, <4>4, <1>t
      <4>6. ASSUME NEW k \in Pages, NEW e \in Events, e \in active'[k] PROVE subs'[k][e] >= 1
        BY <4>1, <4>4, <4>6, <1>t, <1>s
      <4>7. QED
        BY <4>5, <4>6 DEF Subscribed
    <3>3. QED
      BY <3>1, <3>2
  <2>5. ChannelsTypeOK'
    BY <1>1, <1>a, <2>1, <2>2, <2>3, <2>4 DEF ReceiveHello, AfterHello, ChannelsTypeOK, SM
  <2>6. QED
    BY <1>1, <2>4, <2>5 DEF ReceiveHello, TypeInv, Unheard
<1>2. CASE ReceiveContext
  <2>1. toServer' \in Seq(SM)
    BY <1>2, <1>m DEF ReceiveContext, Arrived
  <2>2. toClient' \in Seq(CM)
    BY <1>2, <1>t, Appended DEF ReceiveContext, CM
  <2>3. ChannelsTypeOK'
    BY <1>2, <1>a, <2>1, <2>2 DEF ReceiveContext, ChannelsTypeOK, SM, CM
  <2>4. Unheard'
    BY <1>2, <1>t DEF ReceiveContext, TypeInv, Unheard, Initialize, Reconnects
  <2>5. QED
    BY <1>2, <2>3, <2>4 DEF ReceiveContext, TypeInv, Subscribed
<1>3. CASE ReceiveRequest
  <2> DEFINE h == Head(toServer)
  <2>1. toServer' \in Seq(SM) /\ current \in Pages /\ h \in SM /\ h.type \in {"call", "listen"}
    BY <1>3, <1>m, <1>t DEF ReceiveRequest, Arrived
  <2>2. h \in Requests /\ h.id \in Ids /\ (h.id \in Events => h.type = "listen")
    BY <2>1, ChannelsAssumption DEF SM, Handshakes, Requests
  <2>3. pending' \in [Pages -> Seq(Pendings)]
    <3>1. [type |-> h.type, id |-> h.id, page |-> h.page, timer |-> TRUE] \in Pendings
      BY <2>1, <2>2 DEF Requests, Pendings
    <3>2. Collected(h) \in Seq(Pendings)
      BY <3>1, <2>1, <1>t, Appended DEF Collected
    <3>3. QED
      BY <1>3, <2>1, <3>2, <1>t DEF ReceiveRequest
  <2>4. /\ running' \subseteq [conn : Pages, id : Calls, page : Pages]
        /\ active' \in [Pages -> SUBSET Ids]
        /\ subs' \in [Pages -> [Events -> Nat]]
        /\ executed' \in [Pages -> [Calls -> Nat]]
        /\ Subscribed'
    <3>1. CASE registered
      <4>1. Execute(current, <<h>>)
        BY <1>3, <3>1 DEF ReceiveRequest
      <4>2. <<h>> \in Seq(Requests)
        BY <2>2
      <4>3. \A i \in DOMAIN <<h>> : <<h>>[i] = h
        OBVIOUS
      <4> HIDE DEF h
      <4>4. QED
        BY <4>1, <4>2, <4>3, <2>1, <2>2, ExecuteTyped
    <3>2. CASE ~registered
      BY <1>3, <1>a, <1>s, <3>2 DEF ReceiveRequest, ChannelsTypeOK, Subscribed
    <3>3. QED
      BY <3>1, <3>2
  <2>5. ChannelsTypeOK'
    BY <1>3, <1>a, <2>1, <2>3, <2>4 DEF ReceiveRequest, ChannelsTypeOK, SM
  <2>6. QED
    BY <1>3, <2>4, <2>5 DEF ReceiveRequest, TypeInv, Unheard
<1>4. CASE ReceiveDisposal
  <2> DEFINE id == Head(toServer).id
  <2>1. toServer' \in Seq(SM) /\ current \in Pages
    BY <1>4, <1>m, <1>t DEF ReceiveDisposal, Arrived
  <2>2. active' = [active EXCEPT ![current] = @ \ {id}]
    BY <1>4 DEF ReceiveDisposal
  <2>3. lost' \subseteq Events /\ active' \in [Pages -> SUBSET Ids]
    BY <1>4, <2>1, <2>2, <1>t DEF ReceiveDisposal
  <2>4. subs' \in [Pages -> [Events -> Nat]] /\ Subscribed'
    <3>1. CASE SubscribedTo(id)
      <4>1. id \in Events /\ id \in active[current]
        BY <3>1 DEF SubscribedTo
      <4>2. subs' = [subs EXCEPT ![current][id] = subs[current][id] - 1]
        BY <1>4, <3>1 DEF ReceiveDisposal
      <4> HIDE DEF id
      <4>3. subs[current][id] - 1 \in Nat
        BY <4>1, <2>1, <1>t, <1>s
      <4>4. subs' \in [Pages -> [Events -> Nat]]
        BY <4>1, <4>2, <4>3, <2>1, <1>t
      <4>5. ASSUME NEW k \in Pages, NEW e \in Events, e \in active'[k] PROVE subs'[k][e] >= 1
        BY <4>1, <4>2, <4>5, <2>1, <2>2, <1>t, <1>s
      <4>6. QED
        BY <4>4, <4>5 DEF Subscribed
    <3>2. CASE ~SubscribedTo(id)
      <4>1. subs' = subs
        BY <1>4, <3>2 DEF ReceiveDisposal
      <4> HIDE DEF id
      <4>2. QED
        BY <4>1, <2>1, <2>2, <1>t, <1>s DEF Subscribed
    <3>3. QED
      BY <3>1, <3>2
  <2>5. ChannelsTypeOK'
    BY <1>4, <1>a, <2>1, <2>3, <2>4 DEF ReceiveDisposal, ChannelsTypeOK, SM
  <2>6. QED
    BY <1>4, <2>4, <2>5 DEF ReceiveDisposal, TypeInv, Unheard
<1>5. CASE Drop
  <2>1. toServer' \in Seq(SM)
    BY <1>5, <1>m DEF Drop, Arrived
  <2>2. ChannelsTypeOK'
    BY <1>5, <1>a, <2>1 DEF Drop, ChannelsTypeOK, SM
  <2>3. QED
    BY <1>5, <2>2 DEF Drop, TypeInv, Subscribed, Unheard
<1>6. CASE RegisterChannel
  <2>1. ChannelsTypeOK'
    BY <1>6, <1>a DEF RegisterChannel, ChannelsTypeOK
  <2>2. QED
    BY <1>6, <2>1 DEF RegisterChannel, TypeInv, Subscribed, Unheard
<1>7. CASE Save
  <2>1. ChannelsTypeOK'
    BY <1>7, <1>a DEF Save, Forget, Store, ChannelsTypeOK
  <2>2. QED
    BY <1>7, <2>1 DEF Save, Forget, Store, TypeInv, Subscribed, Unheard
<1>8. CASE Restart
  <2>1. /\ pending' \in [Pages -> Seq(Pendings)]
        /\ active' \in [Pages -> SUBSET Ids]
        /\ subs' \in [Pages -> [Events -> Nat]]
    BY <1>8 DEF Restart, ServerStart
  <2>a. /\ greeted' = 0 /\ current' = 0 /\ registered' = FALSE /\ flushDue' = {}
        /\ running' = {}
    BY <1>8 DEF Restart, ServerStart
  <2>c. saving' = "none" /\ reconnectDue' = saved /\ restarts' = restarts + 1
    BY <1>8 DEF Restart
  <2>b. UNCHANGED <<clientVars, toServer, toClient, saved, historyVars>>
    BY <1>8 DEF Restart
  <2>d. /\ page' \in Pages /\ idle' \in BOOLEAN
        /\ call' \in [Calls -> {"new", "waiting", "sent", "done", "cancelled"}]
        /\ answered' \in [Calls -> Pages \cup {0}]
        /\ event' \in [Events -> {"off", "opening", "on"}]
        /\ waiting' \in Seq(Requests) /\ rejoin' \in [Events -> Nat]
    BY <1>a, <2>b DEF ChannelsTypeOK
  <2>e. /\ toServer' \in Seq(SM) /\ toClient' \in Seq(CM) /\ saved' \in BOOLEAN
        /\ executed' \in [Pages -> [Calls -> Nat]]
        /\ lost' \subseteq Events /\ clean' \in BOOLEAN
    BY <1>a, <1>t, <2>b DEF ChannelsTypeOK
  <2>f. restarts' \in Nat
    BY <1>a, <2>c DEF ChannelsTypeOK
  <2>g. saving' \in {"none", "removing", "adding"} /\ reconnectDue' \in BOOLEAN
    BY <1>a, <2>c, Zenon DEF ChannelsTypeOK
  <2>2. ChannelsTypeOK'
    BY <2>1, <2>a, <2>d, <2>e, <2>f, <2>g DEF ChannelsTypeOK, SM, CM
  <2>3. QED
    BY <1>8, <2>2 DEF Restart, ServerStart, TypeInv, Subscribed, Unheard
<1>9. CASE SendReconnect
  <2> DEFINE x == [type |-> "reconnect", source |-> Connection.id, target |-> Connection.source]
  <2>1. x \in Reconnects /\ ~Hears(x)
    BY DEF Reconnects, Addresses, Connection, Hears
  <2>2. toClient' = Append(toClient, x)
    BY <1>9 DEF SendReconnect
  <2> HIDE DEF x
  <2>3. toClient' \in Seq(CM) /\ Unheard'
    <3>1. x \in CM
      BY <2>1 DEF CM
    <3>2. QED
      BY <2>1, <2>2, <3>1, <1>t, Appended DEF TypeInv, Unheard
  <2>4. ChannelsTypeOK'
    BY <1>9, <1>a, <2>3 DEF SendReconnect, ChannelsTypeOK, CM
  <2>5. QED
    BY <1>9, <2>3, <2>4 DEF SendReconnect, TypeInv, Subscribed
<1>10. ASSUME NEW k \in Pages, Flush(k) PROVE TypeInv'
  <2>1. pending[k] \in Seq(Pendings)
    BY <1>t
  <2>2. \A i \in DOMAIN pending[k] :
           /\ pending[k][i].id \in Ids
           /\ pending[k][i].id \in Events => pending[k][i].type = "listen"
    <3> TAKE i \in DOMAIN pending[k]
    <3>1. pending[k][i] \in Pendings
      BY <2>1
    <3>2. QED
      BY <3>1, ChannelsAssumption DEF Pendings
  <2>3. Execute(k, pending[k])
    BY <1>10 DEF Flush, Flushed
  <2>4. /\ running' \subseteq [conn : Pages, id : Calls, page : Pages]
        /\ active' \in [Pages -> SUBSET Ids]
        /\ subs' \in [Pages -> [Events -> Nat]]
        /\ executed' \in [Pages -> [Calls -> Nat]]
        /\ Subscribed'
    BY <2>1, <2>2, <2>3, ExecuteTyped
  <2>5. pending' \in [Pages -> Seq(Pendings)] /\ flushDue' \subseteq Pages
    BY <1>10, <1>a, <1>t DEF Flush, ChannelsTypeOK
  <2>6. ChannelsTypeOK'
    BY <1>10, <1>a, <2>4, <2>5 DEF Flush, ChannelsTypeOK
  <2>7. QED
    BY <1>10, <2>4, <2>6 DEF Flush, TypeInv, Unheard
<1>11. ASSUME NEW k \in Pages, NEW i \in DOMAIN pending[k], Timeout(k, i) PROVE TypeInv'
  <2> DEFINE r == pending[k][i]
             x == [type |-> "unknown", id |-> r.id, page |-> r.page]
  <2>1. pending[k] \in Seq(Pendings) /\ r \in Pendings
    BY <1>t
  <2>2. [r EXCEPT !.timer = FALSE] \in Pendings
    BY <2>1 DEF Pendings
  <2>3. pending' \in [Pages -> Seq(Pendings)]
    <3>1. pending' = [pending EXCEPT ![k] = [pending[k] EXCEPT ![i] = [r EXCEPT !.timer = FALSE]]]
      BY <1>11, <1>t DEF Timeout
    <3>2. [pending[k] EXCEPT ![i] = [r EXCEPT !.timer = FALSE]] \in Seq(Pendings)
      BY <2>1, <2>2
    <3>3. QED
      BY <3>1, <3>2, <1>t
  <2>4. toClient' = toClient \/ (r.type = "call" /\ toClient' = Append(toClient, x))
    BY <1>11 DEF Timeout
  <2>5. r.type = "call" => x \in Answers /\ x \notin Reconnects
    BY <2>1 DEF Pendings, Answers, Reconnects
  <2> HIDE DEF r, x
  <2>6. toClient' \in Seq(CM) /\ Unheard'
    <3>1. CASE toClient' = toClient
      BY <3>1, <1>t DEF TypeInv, Unheard
    <3>2. CASE r.type = "call" /\ toClient' = Append(toClient, x)
      <4>1. x \in CM
        BY <2>5, <3>2 DEF CM
      <4>2. QED
        BY <2>5, <3>2, <4>1, <1>t, Appended DEF TypeInv, Unheard
    <3>3. QED
      BY <2>4, <3>1, <3>2
  <2>7. ChannelsTypeOK'
    BY <1>11, <1>a, <2>3, <2>6 DEF Timeout, ChannelsTypeOK, CM
  <2>8. QED
    BY <1>11, <2>6, <2>7 DEF Timeout, TypeInv, Subscribed
<1>12. ASSUME NEW x \in running, NEW ok \in BOOLEAN, Finish(x, ok) PROVE TypeInv'
  <2> DEFINE y == [type |-> "result", id |-> x.id, page |-> x.page]
  <2>1. x.conn \in Pages /\ x.id \in Calls /\ x.page \in Pages
    BY <1>a DEF ChannelsTypeOK
  <2>2. toClient' = Append(toClient, y)
    BY <1>12 DEF Finish, IsAnswered
  <2>3. y \in Answers /\ y \notin Reconnects
    BY <2>1 DEF Answers, Reconnects
  <2> HIDE DEF y
  <2>4. toClient' \in Seq(CM) /\ Unheard'
    <3>1. y \in CM
      BY <2>3 DEF CM
    <3>2. QED
      BY <2>2, <2>3, <3>1, <1>t, Appended DEF TypeInv, Unheard
  <2>5. active' \in [Pages -> SUBSET Ids] /\ running' \subseteq running
    BY <1>12, <1>t DEF Finish
  <2>6. Subscribed'
    BY <1>12, <2>1, <1>t, <1>s DEF Finish, Subscribed
  <2>7. ChannelsTypeOK'
    BY <1>12, <1>a, <2>4, <2>5 DEF Finish, ChannelsTypeOK, CM
  <2>8. QED
    BY <2>4, <2>6, <2>7 DEF TypeInv
<1>13. QED
  BY <1>1, <1>2, <1>3, <1>4, <1>5, <1>6, <1>7, <1>8, <1>9, <1>10, <1>11, <1>12 DEF ServerStep

(* Every step does.                                                        *)
LEMMA TypeStep == TypeInv /\ [Next]_channelVars => TypeInv'
<1> SUFFICES ASSUME TypeInv, [Next]_channelVars PROVE TypeInv'
  OBVIOUS
<1>1. CASE Next
  <2>1. CASE \/ \E c \in Calls : Call(c) \/ Cancel(c)
             \/ \E e \in Events : AddListener(e) \/ RemoveListener(e)
             \/ PageStep \/ Reload
    BY <2>1, PageTypes
  <2>2. CASE ServerStep \/ RegisterChannel \/ Save \/ Restart \/ SendReconnect
    BY <2>2, WorkerTypes
  <2>3. CASE TimerStep
    BY <2>3, WorkerTypes DEF TimerStep
  <2>4. CASE \E x \in running, ok \in BOOLEAN : Finish(x, ok)
    BY <2>4, WorkerTypes
  <2>5. QED
    BY <1>1, <2>1, <2>2, <2>3, <2>4 DEF Next, SystemStep
<1>2. CASE UNCHANGED channelVars
  BY <1>2 DEF channelVars, clientVars, serverVars, managerVars, historyVars, TypeInv,
              ChannelsTypeOK, Subscribed, Unheard
<1>3. QED
  BY <1>1, <1>2

(* Every variable has its type in every reachable state, and what a        *)
(* connection disposes of is there to be disposed of: no subscription is   *)
(* withdrawn twice.                                                        *)
THEOREM ChannelsTypeCorrect == Spec => []ChannelsTypeOK
<1>1. Spec => []TypeInv
  BY TypeInit, TypeStep, PTL DEF Spec
<1>2. TypeInv => ChannelsTypeOK
  BY DEF TypeInv
<1>3. QED
  BY <1>1, <1>2, PTL

-----------------------------------------------------------------------------
(* A call is in one place at a time.                                       *)

IsCall(m, p, c) == m.type = "call" /\ m.id = c /\ m.page = p

(* No call is in a list twice.                                             *)
OneEach(s) ==
    \A i, j \in DOMAIN s :
        s[i].type = "call" /\ IsCall(s[j], s[i].page, s[i].id) => i = j

Made(p, c) == p < page \/ (p = page /\ call[c] # "new")

(* A request is made, waits for Initialize, is under way, waits for the    *)
(* channel at one connection, and is executed, in this order and each once.*)
OnePlace ==
    /\ OneEach(waiting) /\ OneEach(toServer)
    /\ \A k \in Pages : OneEach(pending[k])
    /\ \A p \in Pages, c \in Calls :
          /\ ~Made(p, c) => ~Called(waiting, p, c) /\ ~Called(toServer, p, c)
          /\ Called(waiting, p, c) => ~Called(toServer, p, c)
          /\ ~Made(p, c) \/ Called(waiting, p, c) \/ Called(toServer, p, c) =>
                (\A k \in Pages : ~Called(pending[k], p, c)) /\ executed[p][c] = 0
          /\ \A k \in Pages : Called(pending[k], p, c) =>
                /\ executed[p][c] = 0
                /\ \A l \in Pages : Called(pending[l], p, c) => l = k
          /\ executed[p][c] <= 1

(* What is added to a list.                                                *)
LEMMA AppendedCalls ==
    ASSUME NEW S, NEW s \in Seq(S), NEW x \in S
    PROVE  /\ \A p, c : Called(Append(s, x), p, c) <=> Called(s, p, c) \/ IsCall(x, p, c)
           /\ OneEach(s) /\ (x.type = "call" => ~Called(s, x.page, x.id)) =>
                 OneEach(Append(s, x))
<1> DEFINE t == Append(s, x)
<1>1. /\ DOMAIN t = 1..(Len(s) + 1) /\ DOMAIN s = 1..Len(s)
      /\ \A j \in 1..(Len(s) + 1) : t[j] = IF j <= Len(s) THEN s[j] ELSE x
      /\ Len(s) \in Nat
  BY Appended
<1> HIDE DEF t
<1>2. ASSUME NEW p, NEW c PROVE Called(t, p, c) <=> Called(s, p, c) \/ IsCall(x, p, c)
  <2>1. ASSUME Called(t, p, c) PROVE Called(s, p, c) \/ IsCall(x, p, c)
    BY <1>1, <2>1 DEF Called, IsCall
  <2>2. ASSUME Called(s, p, c) PROVE Called(t, p, c)
    <3>1. PICK j \in DOMAIN s : IsCall(s[j], p, c)
      BY <2>2 DEF Called, IsCall
    <3>2. j \in DOMAIN t /\ t[j] = s[j]
      BY <1>1, <3>1
    <3>3. QED
      BY <3>1, <3>2 DEF Called, IsCall
  <2>3. ASSUME IsCall(x, p, c) PROVE Called(t, p, c)
    <3>1. Len(s) + 1 \in DOMAIN t /\ t[Len(s) + 1] = x
      BY <1>1
    <3>2. QED
      BY <2>3, <3>1 DEF Called, IsCall
  <2>4. QED
    BY <2>1, <2>2, <2>3
<1>3. ASSUME OneEach(s), x.type = "call" => ~Called(s, x.page, x.id) PROVE OneEach(t)
  <2>1. ASSUME NEW i \in DOMAIN t, NEW j \in DOMAIN t,
               t[i].type = "call", IsCall(t[j], t[i].page, t[i].id)
        PROVE  i = j
    <3>1. CASE i \in DOMAIN s /\ j \in DOMAIN s
      BY <1>1, <1>3, <2>1, <3>1 DEF OneEach
    <3>2. CASE i \notin DOMAIN s /\ j \notin DOMAIN s
      BY <1>1, <3>2
    <3>3. CASE i \notin DOMAIN s /\ j \in DOMAIN s
      <4>1. t[i] = x /\ t[j] = s[j]
        BY <1>1, <3>3
      <4>2. QED
        BY <1>3, <2>1, <3>3, <4>1 DEF Called, IsCall
    <3>4. CASE i \in DOMAIN s /\ j \notin DOMAIN s
      <4>1. t[j] = x /\ t[i] = s[i]
        BY <1>1, <3>4
      <4>2. QED
        BY <1>3, <2>1, <3>4, <4>1 DEF Called, IsCall
    <3>5. QED
      BY <3>1, <3>2, <3>3, <3>4
  <2>2. QED
    BY <2>1 DEF OneEach
<1>4. QED
  BY <1>2, <1>3 DEF t

(* Two lists one after the other.                                          *)
LEMMA JoinedCalls ==
    ASSUME NEW S, NEW s \in Seq(S), NEW t \in Seq(S)
    PROVE  /\ \A p, c : Called(s \o t, p, c) <=> Called(s, p, c) \/ Called(t, p, c)
           /\ OneEach(s) /\ OneEach(t) /\ (\A p, c : ~(Called(s, p, c) /\ Called(t, p, c))) =>
                 OneEach(s \o t)
<1> DEFINE u == s \o t
           n == Len(s)
<1>1. /\ DOMAIN u = 1..(n + Len(t)) /\ DOMAIN s = 1..n /\ DOMAIN t = 1..Len(t)
      /\ n \in Nat /\ Len(t) \in Nat
      /\ \A j \in 1..(n + Len(t)) : u[j] = IF j <= n THEN s[j] ELSE t[j - n]
  BY ConcatProperties, LenProperties
<1> HIDE DEF u, n
<1>2. \A j \in DOMAIN s : j \in DOMAIN u /\ u[j] = s[j]
  BY <1>1
<1>3. \A j \in DOMAIN t : n + j \in DOMAIN u /\ u[n + j] = t[j]
  BY <1>1
<1>4. \A j \in DOMAIN u :
         j \in DOMAIN s \/ (j \notin DOMAIN s /\ j - n \in DOMAIN t /\ u[j] = t[j - n])
  BY <1>1
<1>5. ASSUME NEW p, NEW c PROVE Called(u, p, c) <=> Called(s, p, c) \/ Called(t, p, c)
  BY <1>2, <1>3, <1>4 DEF Called
<1>6. ASSUME OneEach(s), OneEach(t), \A p, c : ~(Called(s, p, c) /\ Called(t, p, c))
      PROVE  OneEach(u)
  <2>1. ASSUME NEW i \in DOMAIN u, NEW j \in DOMAIN u,
               u[i].type = "call", IsCall(u[j], u[i].page, u[i].id)
        PROVE  i = j
    <3>1. CASE i \in DOMAIN s /\ j \in DOMAIN s
      BY <1>2, <1>6, <2>1, <3>1 DEF OneEach
    <3>2. CASE i \notin DOMAIN s /\ j \notin DOMAIN s
      <4>1. i - n = j - n
        BY <1>4, <1>6, <2>1, <3>2 DEF OneEach
      <4>2. QED
        BY <1>1, <4>1
    <3>3. CASE i \notin DOMAIN s /\ j \in DOMAIN s
      BY <1>2, <1>4, <1>6, <2>1, <3>3 DEF Called, IsCall
    <3>4. CASE i \in DOMAIN s /\ j \notin DOMAIN s
      BY <1>2, <1>4, <1>6, <2>1, <3>4 DEF Called, IsCall
    <3>5. QED
      BY <3>1, <3>2, <3>3, <3>4
  <2>2. QED
    BY <2>1 DEF OneEach
<1>7. QED
  BY <1>5, <1>6 DEF u

(* What is left of a list whose head is taken.                             *)
LEMMA TakenCalls ==
    ASSUME NEW S, NEW s \in Seq(S), s # <<>>
    PROVE  /\ \A p, c : Called(Tail(s), p, c) => Called(s, p, c)
           /\ \A p, c : IsCall(Head(s), p, c) => Called(s, p, c)
           /\ OneEach(s) =>
                 /\ OneEach(Tail(s))
                 /\ \A p, c : IsCall(Head(s), p, c) => ~Called(Tail(s), p, c)
<1> DEFINE t == Tail(s)
<1>1. /\ \A j \in DOMAIN t : j \in Nat \ {0} /\ j + 1 \in DOMAIN s /\ t[j] = s[j + 1]
      /\ 1 \in DOMAIN s /\ Head(s) = s[1]
  BY HeadTailProperties, LenProperties
<1> HIDE DEF t
<1>2. \A p, c : Called(t, p, c) => Called(s, p, c)
  BY <1>1 DEF Called
<1>3. \A p, c : IsCall(Head(s), p, c) => Called(s, p, c)
  BY <1>1 DEF Called, IsCall
<1>4. ASSUME OneEach(s) PROVE OneEach(t)
  <2>1. ASSUME NEW i \in DOMAIN t, NEW j \in DOMAIN t,
               t[i].type = "call", IsCall(t[j], t[i].page, t[i].id)
        PROVE  i = j
    <3>1. i + 1 = j + 1
      BY <1>1, <1>4, <2>1 DEF OneEach
    <3>2. QED
      BY <1>1, <3>1
  <2>2. QED
    BY <2>1 DEF OneEach
<1>5. ASSUME OneEach(s), NEW p, NEW c, IsCall(Head(s), p, c), Called(t, p, c) PROVE FALSE
  <2>1. PICK j \in DOMAIN t : IsCall(t[j], p, c)
    BY <1>5 DEF Called, IsCall
  <2>2. 1 = j + 1
    BY <1>1, <1>5, <2>1 DEF OneEach, IsCall
  <2>3. QED
    BY <1>1, <2>1, <2>2
<1>6. QED
  BY <1>2, <1>3, <1>4, <1>5 DEF t

(* What is left of a list that something is withdrawn from.                *)
LEMMA RemovedCalls ==
    ASSUME NEW S, NEW s \in Seq(S), NEW n \in DOMAIN s
    PROVE  /\ \A p, c : Called(RemoveAt(s, n), p, c) => Called(s, p, c)
           /\ OneEach(s) => OneEach(RemoveAt(s, n))
<1> DEFINE t == RemoveAt(s, n)
           f == [j \in DOMAIN t |-> IF j < n THEN j ELSE j + 1]
<1>1. /\ DOMAIN t = 1..(Len(s) - 1) /\ DOMAIN s = 1..Len(s) /\ Len(s) \in Nat
      /\ \A j \in 1..(Len(s) - 1) : t[j] = IF j < n THEN s[j] ELSE s[j + 1]
  BY Removed
<1> HIDE DEF t
<1>2. \A j \in DOMAIN t : f[j] \in DOMAIN s /\ t[j] = s[f[j]]
  BY <1>1
<1>3. \A i, j \in DOMAIN t : f[i] = f[j] => i = j
  BY <1>1
<1> HIDE DEF f
<1>4. \A p, c : Called(t, p, c) => Called(s, p, c)
  BY <1>2 DEF Called
<1>5. ASSUME OneEach(s) PROVE OneEach(t)
  BY <1>2, <1>3, <1>5 DEF OneEach
<1>6. QED
  BY <1>4, <1>5 DEF t

(* A step that neither makes, moves nor executes a call keeps OnePlace.    *)
LEMMA Fewer ==
    ASSUME OnePlace, OneEach(waiting)', OneEach(toServer)',
           \A k \in Pages : OneEach(pending[k])',
           \A p \in Pages, c \in Calls :
              /\ Made(p, c) => Made(p, c)'
              /\ Called(waiting, p, c)' => Called(waiting, p, c)
              /\ Called(toServer, p, c)' => Called(toServer, p, c)
              /\ \A k \in Pages : Called(pending[k], p, c)' => Called(pending[k], p, c),
           executed' = executed
    PROVE  OnePlace'
<1>1. ASSUME NEW p \in Pages, NEW c \in Calls
      PROVE  /\ ~Made(p, c)' => ~Called(waiting, p, c)' /\ ~Called(toServer, p, c)'
             /\ Called(waiting, p, c)' => ~Called(toServer, p, c)'
             /\ ~Made(p, c)' \/ Called(waiting, p, c)' \/ Called(toServer, p, c)' =>
                   (\A k \in Pages : ~Called(pending[k], p, c)') /\ executed'[p][c] = 0
             /\ \A k \in Pages : Called(pending[k], p, c)' =>
                   /\ executed'[p][c] = 0
                   /\ \A l \in Pages : Called(pending[l], p, c)' => l = k
             /\ executed'[p][c] <= 1
  BY DEF OnePlace
<1>2. QED
  BY <1>1 DEF OnePlace

(* A list without calls.                                                   *)
LEMMA NoCalls ==
    ASSUME NEW s, \A i \in DOMAIN s : s[i].type # "call"
    PROVE  OneEach(s) /\ \A p, c : ~Called(s, p, c)
BY DEF OneEach, Called

(* The steps of the page but Call and ReceiveInit keep OnePlace.           *)
LEMMA PagePlaces ==
    ASSUME TypeInv, OnePlace
    PROVE  /\ \A c \in Calls : Cancel(c) => OnePlace'
           /\ \A e \in Events : AddListener(e) \/ RemoveListener(e) => OnePlace'
           /\ ReceiveAnswer \/ ReceiveReconnect \/ Reload => OnePlace'
<1> DEFINE SM == Handshakes \cup Requests
<1>a. /\ toServer \in Seq(SM) /\ waiting \in Seq(Requests)
      /\ call \in [Calls -> {"new", "waiting", "sent", "done", "cancelled"}]
      /\ page \in Pages
  BY DEF TypeInv, ChannelsTypeOK
<1>b. \A t \in {"cancel", "listen", "dispose"}: \A id : Request(t, id).type # "call"
  BY DEF Request
<1>c. /\ \A c \in Calls : Request("cancel", c) \in SM
      /\ \A e \in Events : Request("listen", e) \in Requests /\ Request("listen", e) \in SM
      /\ \A e \in Events : Request("dispose", e) \in SM
  BY ServerMessages DEF TypeInv
<1>d. OneEach(waiting) /\ OneEach(toServer) /\ \A k \in Pages : OneEach(pending[k])
  BY DEF OnePlace
<1> HIDE DEF SM
<1>e. ASSUME NEW s \in Seq(SM), OneEach(s), NEW x \in SM, x.type # "call"
      PROVE  OneEach(Append(s, x)) /\ \A p, c : Called(Append(s, x), p, c) => Called(s, p, c)
  BY <1>e, AppendedCalls DEF IsCall
<1>f. ASSUME NEW s \in Seq(SM), OneEach(s), NEW t \in Seq(SM),
             \A i \in DOMAIN t : t[i].type # "call"
      PROVE  OneEach(s \o t) /\ \A p, c : Called(s \o t, p, c) => Called(s, p, c)
  <2>1. OneEach(t) /\ \A p, c : ~Called(t, p, c)
    BY <1>f, NoCalls
  <2>2. QED
    BY <1>f, <2>1, JoinedCalls
<1>1. ASSUME NEW c \in Calls, Cancel(c) PROVE OnePlace'
  <2> DEFINE x == Request("cancel", c)
  <2>1. x \in SM /\ x.type # "call"
    BY <1>b, <1>c
  <2>2. toServer' = Append(toServer, x) \/ toServer' = toServer \o <<x, x>>
    BY <1>1 DEF Cancel
  <2> HIDE DEF x
  <2>3. OneEach(toServer') /\ \A p, d : Called(toServer', p, d) => Called(toServer, p, d)
    <3>1. <<x, x>> \in Seq(SM) /\ \A i \in DOMAIN <<x, x>> : <<x, x>>[i].type # "call"
      BY <2>1
    <3>2. CASE toServer' = Append(toServer, x)
      BY <3>2, <2>1, <1>a, <1>d, <1>e
    <3>3. CASE toServer' = toServer \o <<x, x>>
      BY <3>1, <3>3, <1>a, <1>d, <1>f
    <3>4. QED
      BY <2>2, <3>2, <3>3
  <2>4. OneEach(waiting') /\ \A p, d : Called(waiting', p, d) => Called(waiting, p, d)
    <3>1. waiting' = waiting \/ \E i \in DOMAIN waiting : waiting' = RemoveAt(waiting, i)
      BY <1>1 DEF Cancel, Withdraw
    <3>2. QED
      BY <3>1, <1>a, <1>d, RemovedCalls
  <2>5. pending' = pending /\ executed' = executed /\ page' = page
    BY <1>1 DEF Cancel, serverVars, historyVars
  <2>6. \A p \in Pages, d \in Calls : Made(p, d) => Made(p, d)'
    BY <1>1, <1>a, <2>5 DEF Cancel, Made
  <2>7. QED
    BY <1>d, <2>3, <2>4, <2>5, <2>6, Fewer
<1>2. ASSUME NEW e \in Events, AddListener(e) PROVE OnePlace'
  <2> DEFINE x == Request("listen", e)
  <2>1. x \in SM /\ x \in Requests /\ x.type # "call"
    BY <1>b, <1>c
  <2>2. \/ toServer' = Append(toServer, x) /\ waiting' = waiting
        \/ waiting' = Append(waiting, x) /\ toServer' = toServer
    BY <1>2 DEF AddListener, Ask
  <2> HIDE DEF x
  <2>3. OneEach(toServer') /\ \A p, d : Called(toServer', p, d) => Called(toServer, p, d)
    BY <2>1, <2>2, <1>a, <1>d, <1>e
  <2>4. OneEach(waiting') /\ \A p, d : Called(waiting', p, d) => Called(waiting, p, d)
    <3>1. CASE waiting' = waiting
      BY <3>1, <1>d
    <3>2. CASE waiting' = Append(waiting, x)
      BY <2>1, <3>2, <1>a, <1>d, AppendedCalls DEF IsCall
    <3>3. QED
      BY <2>2, <3>1, <3>2
  <2>5. pending' = pending /\ executed' = executed /\ page' = page /\ call' = call
    BY <1>2 DEF AddListener, serverVars, historyVars
  <2>6. \A p \in Pages, d \in Calls : Made(p, d) => Made(p, d)'
    BY <2>5 DEF Made
  <2>7. QED
    BY <1>d, <2>3, <2>4, <2>5, <2>6, Fewer
<1>3. ASSUME NEW e \in Events, RemoveListener(e) PROVE OnePlace'
  <2> DEFINE x == Request("dispose", e)
  <2>1. x \in SM /\ x.type # "call"
    BY <1>b, <1>c
  <2>2. toServer' = Append(toServer, x) \/ toServer' = toServer
    BY <1>3 DEF RemoveListener
  <2> HIDE DEF x
  <2>3. OneEach(toServer') /\ \A p, d : Called(toServer', p, d) => Called(toServer, p, d)
    BY <2>1, <2>2, <1>a, <1>d, <1>e
  <2>4. OneEach(waiting') /\ \A p, d : Called(waiting', p, d) => Called(waiting, p, d)
    <3>1. waiting' = waiting \/ \E i \in DOMAIN waiting : waiting' = RemoveAt(waiting, i)
      BY <1>3 DEF RemoveListener, Withdraw
    <3>2. QED
      BY <3>1, <1>a, <1>d, RemovedCalls
  <2>5. pending' = pending /\ executed' = executed /\ page' = page /\ call' = call
    BY <1>3 DEF RemoveListener, serverVars, historyVars
  <2>6. \A p \in Pages, d \in Calls : Made(p, d) => Made(p, d)'
    BY <2>5 DEF Made
  <2>7. QED
    BY <1>d, <2>3, <2>4, <2>5, <2>6, Fewer
<1>4. CASE ReceiveAnswer
  <2> DEFINE h == Head(toClient)
             x == Request("cancel", h.id)
  <2>1. h.id \in Calls
    BY <1>4 DEF ReceiveAnswer, Answers
  <2>2. x \in SM /\ x.type # "call"
    BY <2>1, <1>b, <1>c
  <2>3. toServer' = Append(toServer, x) \/ toServer' = toServer
    BY <1>4 DEF ReceiveAnswer
  <2>4. call' = call \/ call' = [call EXCEPT ![h.id] = "done"]
    BY <1>4 DEF ReceiveAnswer
  <2>5. pending' = pending /\ executed' = executed /\ page' = page /\ waiting' = waiting
    BY <1>4 DEF ReceiveAnswer, serverVars, historyVars
  <2> HIDE DEF h, x
  <2>6. OneEach(toServer') /\ \A p, d : Called(toServer', p, d) => Called(toServer, p, d)
    BY <2>2, <2>3, <1>a, <1>d, <1>e
  <2>7. \A p \in Pages, d \in Calls : Made(p, d) => Made(p, d)'
    BY <1>a, <2>1, <2>4, <2>5 DEF Made
  <2>8. QED
    BY <1>d, <2>5, <2>6, <2>7, Fewer
<1>5. CASE ReceiveReconnect
  <2>1. toServer' = toServer
    <3>1. ~Hears(Head(toClient))
      <4>1. toClient # <<>> /\ toClient[1] \in Reconnects /\ 1 \in DOMAIN toClient
        <5>1. toClient \in Seq({Initialize} \cup Answers \cup Reconnects)
          BY DEF TypeInv, ChannelsTypeOK
        <5>2. QED
          BY <1>5, <5>1 DEF ReceiveReconnect
      <4>2. QED
        BY <4>1 DEF TypeInv, Unheard
    <3>2. QED
      BY <1>5, <3>1 DEF ReceiveReconnect
  <2>2. /\ pending' = pending /\ executed' = executed /\ page' = page /\ waiting' = waiting
        /\ call' = call
    BY <1>5 DEF ReceiveReconnect, clientVars, serverVars, historyVars
  <2>3. QED
    BY <1>d, <2>1, <2>2, Fewer DEF Made
<1>6. CASE Reload
  <2>1. page + 1 \in Pages /\ page \in Nat /\ page' = page + 1
    BY <1>6, <1>a, ChannelsAssumption DEF Reload, Pages
  <2>2. waiting' = <<>> /\ toServer' = toServer \o Hello(page + 1)
    BY <1>6 DEF Reload
  <2>3. OneEach(waiting') /\ \A p, d : ~Called(waiting', p, d)
    BY <2>2, NoCalls
  <2>4. OneEach(toServer') /\ \A p, d : Called(toServer', p, d) => Called(toServer, p, d)
    <3>1. Hello(page + 1) \in Seq(SM)
      BY <2>1, ServerMessages DEF SM
    <3>2. \A i \in DOMAIN Hello(page + 1) : Hello(page + 1)[i].type # "call"
      BY DEF Hello
    <3>3. QED
      BY <2>2, <3>1, <3>2, <1>a, <1>d, <1>f
  <2>5. pending' = pending /\ executed' = executed
    BY <1>6 DEF Reload, serverVars
  <2>6. \A p \in Pages, d \in Calls : Made(p, d) => Made(p, d)'
    BY <2>1 DEF Made, Pages
  <2>7. QED
    BY <1>d, <2>3, <2>4, <2>5, <2>6, Fewer
<1>7. QED
  BY <1>1, <1>2, <1>3, <1>4, <1>5, <1>6

(* Steps that take something from the messages to the worker, or nothing.  *)
LEMMA TakenPlaces ==
    ASSUME TypeInv, OnePlace,
           toServer' = toServer \/ (toServer # <<>> /\ toServer' = Tail(toServer)),
           UNCHANGED <<page, call, waiting, pending, executed>>
    PROVE  OnePlace'
<1>1. toServer \in Seq(Handshakes \cup Requests)
  BY DEF TypeInv, ChannelsTypeOK
<1>2. OneEach(toServer') /\ \A p, d : Called(toServer', p, d) => Called(toServer, p, d)
  <2>1. OneEach(toServer)
    BY DEF OnePlace
  <2>2. CASE toServer' = toServer
    BY <2>1, <2>2
  <2>3. CASE toServer # <<>> /\ toServer' = Tail(toServer)
    BY <1>1, <2>1, <2>3, TakenCalls
  <2>4. QED
    BY <2>2, <2>3
<1>3. \A p \in Pages, d \in Calls : Made(p, d) => Made(p, d)'
  BY DEF Made
<1>4. QED
  BY <1>2, <1>3, Fewer DEF OnePlace

(* The steps of the worker but ReceiveRequest and Flush keep OnePlace.     *)
LEMMA WorkerPlaces ==
    ASSUME TypeInv, OnePlace
    PROVE  /\ ReceiveHello \/ ReceiveContext \/ ReceiveDisposal \/ Drop => OnePlace'
           /\ RegisterChannel \/ Save \/ Restart \/ SendReconnect => OnePlace'
           /\ \A k \in Pages : \A i \in DOMAIN pending[k] : Timeout(k, i) => OnePlace'
           /\ \A x \in running, ok \in BOOLEAN : Finish(x, ok) => OnePlace'
<1> USE DEF clientVars, serverVars, managerVars, historyVars
<1>1. CASE ReceiveHello
  BY <1>1, TakenPlaces DEF ReceiveHello, Arrived
<1>2. CASE ReceiveContext
  BY <1>2, TakenPlaces DEF ReceiveContext, Arrived
<1>3. CASE ReceiveDisposal
  BY <1>3, TakenPlaces DEF ReceiveDisposal, Arrived
<1>4. CASE Drop
  BY <1>4, TakenPlaces DEF Drop, Arrived
<1>5. CASE RegisterChannel
  BY <1>5, TakenPlaces DEF RegisterChannel
<1>6. CASE Save
  BY <1>6, TakenPlaces DEF Save, Forget, Store
<1>7. CASE SendReconnect
  BY <1>7, TakenPlaces DEF SendReconnect
<1>8. CASE Restart
  <2>1. /\ UNCHANGED <<page, call, waiting, toServer, executed>>
        /\ \A k \in Pages : pending'[k] = <<>>
    BY <1>8 DEF Restart, ServerStart
  <2>2. \A k \in Pages : OneEach(pending'[k]) /\ \A p, d : ~Called(pending'[k], p, d)
    BY <2>1, NoCalls
  <2>3. \A p \in Pages, d \in Calls : Made(p, d) => Made(p, d)'
    BY <2>1 DEF Made
  <2>4. QED
    BY <2>1, <2>2, <2>3, Fewer DEF OnePlace
<1>9. ASSUME NEW k \in Pages, NEW i \in DOMAIN pending[k], Timeout(k, i) PROVE OnePlace'
  <2> DEFINE r == pending[k][i]
             q == [pending[k] EXCEPT ![i] = [r EXCEPT !.timer = FALSE]]
  <2>1. /\ UNCHANGED <<page, call, waiting, toServer, executed>>
        /\ pending' = [pending EXCEPT ![k] = q]
    BY <1>9 DEF Timeout
  <2>2. pending \in [Pages -> Seq(Pendings)]
    BY DEF TypeInv, ChannelsTypeOK
  <2>3. pending[k] \in Seq(Pendings) /\ r \in Pendings
    BY <2>2
  <2>4. [r EXCEPT !.timer = FALSE].type = r.type /\ [r EXCEPT !.timer = FALSE].id = r.id
        /\ [r EXCEPT !.timer = FALSE].page = r.page
    BY <2>3 DEF Pendings
  <2>5. /\ DOMAIN q = DOMAIN pending[k]
        /\ \A j \in DOMAIN q : /\ q[j].type = pending[k][j].type /\ q[j].id = pending[k][j].id
                              /\ q[j].page = pending[k][j].page
    BY <2>3, <2>4
  <2> HIDE DEF q
  <2>6. \A p, d : Called(q, p, d) => Called(pending[k], p, d)
    BY <2>5 DEF Called
  <2>7. OneEach(q)
    BY <2>5 DEF OnePlace, OneEach, IsCall
  <2>8. \A l \in Pages : OneEach(pending'[l]) /\
           \A p, d : Called(pending'[l], p, d) => Called(pending[l], p, d)
    BY <2>1, <2>2, <2>6, <2>7 DEF OnePlace
  <2>9. \A p \in Pages, d \in Calls : Made(p, d) => Made(p, d)'
    BY <2>1 DEF Made
  <2>10. QED
    BY <2>1, <2>8, <2>9, Fewer DEF OnePlace
<1>10. ASSUME NEW x \in running, NEW ok \in BOOLEAN, Finish(x, ok) PROVE OnePlace'
  BY <1>10, TakenPlaces DEF Finish
<1>11. QED
  BY <1>1, <1>2, <1>3, <1>4, <1>5, <1>6, <1>7, <1>8, <1>9, <1>10

(* A call is made when it was nowhere.                                     *)
LEMMA CallPlaces ==
    ASSUME TypeInv, OnePlace, NEW c \in Calls, Call(c)
    PROVE  OnePlace'
<1> DEFINE x == Request("call", c)
           SM == Handshakes \cup Requests
<1>1. /\ toServer \in Seq(SM) /\ waiting \in Seq(Requests)
      /\ call \in [Calls -> {"new", "waiting", "sent", "done", "cancelled"}]
      /\ page \in Pages /\ page \in Nat
  BY ChannelsAssumption DEF TypeInv, ChannelsTypeOK, Pages
<1>2. x \in Requests /\ x \in SM
  BY ServerMessages DEF TypeInv
<1>3. x.type = "call" /\ x.id = c /\ x.page = page
  BY DEF Request
<1>4. \/ toServer' = Append(toServer, x) /\ waiting' = waiting
      \/ waiting' = Append(waiting, x) /\ toServer' = toServer
  BY DEF Call, Ask
<1>5. pending' = pending /\ executed' = executed /\ page' = page /\ call[c] = "new"
  BY DEF Call, serverVars, historyVars
<1>6. call' = [call EXCEPT ![c] = IF idle THEN "sent" ELSE "waiting"]
  BY DEF Call
<1>7. \A p \in Pages, d \in Calls : Made(p, d)' <=> Made(p, d) \/ (p = page /\ d = c)
  BY <1>1, <1>5, <1>6 DEF Made
<1>8. ~Made(page, c)
  BY <1>1, <1>5 DEF Made
<1>9. ~Called(waiting, page, c) /\ ~Called(toServer, page, c)
  BY <1>1, <1>8 DEF OnePlace
<1> HIDE DEF x, SM
<1>10. \A p, d : IsCall(x, p, d) <=> p = page /\ d = c
  BY <1>3 DEF IsCall
<1>11. /\ OneEach(waiting') /\ OneEach(toServer')
       /\ \A p, d : /\ Called(toServer', p, d) \/ Called(waiting', p, d) <=>
                           Called(toServer, p, d) \/ Called(waiting, p, d) \/ IsCall(x, p, d)
                    /\ Called(waiting', p, d) => Called(waiting, p, d) \/ IsCall(x, p, d)
                    /\ Called(toServer', p, d) => Called(toServer, p, d) \/ IsCall(x, p, d)
                    /\ IsCall(x, p, d) => ~(Called(toServer', p, d) /\ Called(waiting', p, d))
  <2>1. OneEach(waiting) /\ OneEach(toServer)
    BY DEF OnePlace
  <2>2. CASE toServer' = Append(toServer, x) /\ waiting' = waiting
    BY <1>1, <1>2, <1>3, <1>9, <1>10, <2>1, <2>2, AppendedCalls
  <2>3. CASE waiting' = Append(waiting, x) /\ toServer' = toServer
    BY <1>1, <1>2, <1>3, <1>9, <1>10, <2>1, <2>3, AppendedCalls
  <2>4. QED
    BY <1>4, <2>2, <2>3
<1>12. ASSUME NEW p \in Pages, NEW d \in Calls
       PROVE  /\ ~Made(p, d)' => ~Called(waiting, p, d)' /\ ~Called(toServer, p, d)'
              /\ Called(waiting, p, d)' => ~Called(toServer, p, d)'
              /\ ~Made(p, d)' \/ Called(waiting, p, d)' \/ Called(toServer, p, d)' =>
                    (\A k \in Pages : ~Called(pending[k], p, d)') /\ executed'[p][d] = 0
              /\ \A k \in Pages : Called(pending[k], p, d)' =>
                    /\ executed'[p][d] = 0
                    /\ \A l \in Pages : Called(pending[l], p, d)' => l = k
              /\ executed'[p][d] <= 1
  BY <1>5, <1>7, <1>8, <1>10, <1>11 DEF OnePlace
<1>13. QED
  BY <1>5, <1>11, <1>12 DEF OnePlace

(* What has waited is sent, and no longer waits.                           *)
LEMMA InitPlaces ==
    ASSUME TypeInv, OnePlace, ReceiveInit
    PROVE  OnePlace'
<1> DEFINE SM == Handshakes \cup Requests
<1>1. /\ toServer \in Seq(SM) /\ waiting \in Seq(Requests) /\ waiting \in Seq(SM)
      /\ call \in [Calls -> {"new", "waiting", "sent", "done", "cancelled"}]
  BY DEF TypeInv, ChannelsTypeOK
<1>2. waiting' = <<>> /\ toServer' = toServer \o waiting
  BY DEF ReceiveInit
<1>3. pending' = pending /\ executed' = executed /\ page' = page
  BY DEF ReceiveInit, serverVars, historyVars
<1>4. \A p \in Pages, d \in Calls : Made(p, d)' <=> Made(p, d)
  BY <1>1, <1>3 DEF ReceiveInit, Made
<1>5. ASSUME NEW p, NEW d, Called(waiting, p, d) PROVE p \in Pages /\ d \in Calls
  <2>1. PICK i \in DOMAIN waiting : IsCall(waiting[i], p, d)
    BY <1>5 DEF Called, IsCall
  <2>2. waiting[i] \in Requests
    BY <1>1
  <2>3. QED
    BY <2>1, <2>2 DEF IsCall, Requests
<1>6. \A p, d : ~(Called(toServer, p, d) /\ Called(waiting, p, d))
  BY <1>5 DEF OnePlace
<1> HIDE DEF SM
<1>7. /\ OneEach(toServer')
      /\ \A p, d : Called(toServer', p, d) <=> Called(toServer, p, d) \/ Called(waiting, p, d)
  BY <1>1, <1>2, <1>6, JoinedCalls DEF OnePlace
<1>8. OneEach(waiting') /\ \A p, d : ~Called(waiting', p, d)
  BY <1>2, NoCalls
<1>9. ASSUME NEW p \in Pages, NEW d \in Calls
      PROVE  /\ ~Made(p, d)' => ~Called(waiting, p, d)' /\ ~Called(toServer, p, d)'
             /\ Called(waiting, p, d)' => ~Called(toServer, p, d)'
             /\ ~Made(p, d)' \/ Called(waiting, p, d)' \/ Called(toServer, p, d)' =>
                   (\A k \in Pages : ~Called(pending[k], p, d)') /\ executed'[p][d] = 0
             /\ \A k \in Pages : Called(pending[k], p, d)' =>
                   /\ executed'[p][d] = 0
                   /\ \A l \in Pages : Called(pending[l], p, d)' => l = k
             /\ executed'[p][d] <= 1
  BY <1>3, <1>4, <1>7, <1>8 DEF OnePlace
<1>10. QED
  BY <1>3, <1>7, <1>8, <1>9 DEF OnePlace

(* A request is executed or joins those that wait for the channel.         *)
LEMMA RequestPlaces ==
    ASSUME TypeInv, OnePlace, ReceiveRequest
    PROVE  OnePlace'
<1> DEFINE SM == Handshakes \cup Requests
           h == Head(toServer)
<1>1. /\ toServer \in Seq(SM) /\ toServer # <<>> /\ toServer' = Tail(toServer)
      /\ current \in Pages /\ pending \in [Pages -> Seq(Pendings)]
      /\ executed \in [Pages -> [Calls -> Nat]]
      /\ h.type \in {"call", "listen"}
  BY DEF TypeInv, ChannelsTypeOK, ReceiveRequest, Arrived
<1>2. UNCHANGED <<page, call, waiting>>
  BY DEF ReceiveRequest, clientVars
<1>3. h \in Requests
  <2>1. h \in SM
    BY <1>1
  <2>2. QED
    BY <1>1, <2>1 DEF Handshakes
<1>4. /\ OneEach(toServer')
      /\ \A p, d : Called(toServer', p, d) => Called(toServer, p, d)
      /\ \A p, d : IsCall(h, p, d) => Called(toServer, p, d) /\ ~Called(toServer', p, d)
  BY <1>1, TakenCalls DEF OnePlace
<1>5. \A p, d : Made(p, d)' <=> Made(p, d)
  BY <1>2 DEF Made
<1>6. CASE registered
  <2>1. pending' = pending
    BY <1>6 DEF ReceiveRequest, Waits
  <2>2. Execute(current, <<h>>)
    BY <1>6 DEF ReceiveRequest
  <2> HIDE DEF h, SM
  <2>3. \A p, d : Called(<<h>>, p, d) <=> IsCall(h, p, d)
    BY DEF Called, IsCall
  <2>4. \A p \in Pages, d \in Calls :
           executed'[p][d] = executed[p][d] + IF IsCall(h, p, d) THEN 1 ELSE 0
    BY <2>2, <2>3 DEF Execute
  <2>5. ASSUME NEW p \in Pages, NEW d \in Calls
        PROVE  /\ ~Made(p, d)' => ~Called(waiting, p, d)' /\ ~Called(toServer, p, d)'
               /\ Called(waiting, p, d)' => ~Called(toServer, p, d)'
               /\ ~Made(p, d)' \/ Called(waiting, p, d)' \/ Called(toServer, p, d)' =>
                     (\A k \in Pages : ~Called(pending[k], p, d)') /\ executed'[p][d] = 0
               /\ \A k \in Pages : Called(pending[k], p, d)' =>
                     /\ executed'[p][d] = 0
                     /\ \A l \in Pages : Called(pending[l], p, d)' => l = k
               /\ executed'[p][d] <= 1
    <3>1. executed[p][d] \in Nat
      BY <1>1
    <3>2. CASE IsCall(h, p, d)
      <4>1. /\ Called(toServer, p, d) /\ ~Called(toServer', p, d) /\ ~Called(waiting, p, d)
            /\ Made(p, d) /\ executed[p][d] = 0 /\ \A k \in Pages : ~Called(pending[k], p, d)
        BY <1>4, <3>2 DEF OnePlace
      <4>2. executed'[p][d] = 1
        BY <2>4, <3>2, <4>1
      <4>3. QED
        BY <1>2, <1>5, <2>1, <4>1, <4>2
    <3>3. CASE ~IsCall(h, p, d)
      <4>1. executed'[p][d] = executed[p][d]
        BY <2>4, <3>1, <3>3
      <4>2. QED
        BY <1>2, <1>4, <1>5, <2>1, <4>1 DEF OnePlace
    <3>4. QED
      BY <3>2, <3>3
  <2>6. QED
    BY <1>2, <1>4, <2>1, <2>5 DEF OnePlace
<1>7. CASE ~registered
  <2> DEFINE x == [type |-> h.type, id |-> h.id, page |-> h.page, timer |-> TRUE]
  <2>1. executed' = executed /\ pending' = [pending EXCEPT ![current] = Append(pending[current], x)]
    BY <1>7 DEF ReceiveRequest, Waits, Collected
  <2>2. x \in Pendings
    BY <1>1, <1>3 DEF Requests, Pendings
  <2>3. x.type = h.type /\ \A p, d : IsCall(x, p, d) <=> IsCall(h, p, d)
    BY DEF IsCall
  <2>4. x.type = "call" => x.id \in Calls /\ x.page \in Pages /\ IsCall(h, x.page, x.id)
    BY <1>3, ChannelsAssumption DEF Requests, IsCall
  <2> HIDE DEF h, SM, x
  <2>5. pending[current] \in Seq(Pendings) /\ OneEach(pending[current])
    BY <1>1 DEF OnePlace
  <2>6. x.type = "call" => ~Called(pending[current], x.page, x.id)
    BY <1>1, <1>4, <2>4 DEF OnePlace
  <2>7. /\ OneEach(pending'[current])
        /\ \A p, d : Called(pending'[current], p, d) <=>
                         Called(pending[current], p, d) \/ IsCall(h, p, d)
        /\ \A k \in Pages \ {current} : pending'[k] = pending[k]
    BY <1>1, <2>1, <2>2, <2>3, <2>5, <2>6, AppendedCalls
  <2>8. ASSUME NEW p \in Pages, NEW d \in Calls
        PROVE  /\ ~Made(p, d)' => ~Called(waiting, p, d)' /\ ~Called(toServer, p, d)'
               /\ Called(waiting, p, d)' => ~Called(toServer, p, d)'
               /\ ~Made(p, d)' \/ Called(waiting, p, d)' \/ Called(toServer, p, d)' =>
                     (\A k \in Pages : ~Called(pending[k], p, d)') /\ executed'[p][d] = 0
               /\ \A k \in Pages : Called(pending[k], p, d)' =>
                     /\ executed'[p][d] = 0
                     /\ \A l \in Pages : Called(pending[l], p, d)' => l = k
               /\ executed'[p][d] <= 1
    <3>1. CASE IsCall(h, p, d)
      <4>1. /\ Called(toServer, p, d) /\ ~Called(toServer', p, d) /\ ~Called(waiting, p, d)
            /\ Made(p, d) /\ executed[p][d] = 0 /\ \A k \in Pages : ~Called(pending[k], p, d)
        BY <1>4, <3>1 DEF OnePlace
      <4>2. \A k \in Pages : Called(pending'[k], p, d) => k = current
        BY <2>7, <4>1
      <4>3. QED
        BY <1>2, <1>5, <2>1, <4>1, <4>2
    <3>2. CASE ~IsCall(h, p, d)
      <4>1. \A k \in Pages : Called(pending'[k], p, d) <=> Called(pending[k], p, d)
        BY <2>7, <3>2
      <4>2. QED
        BY <1>2, <1>4, <1>5, <2>1, <4>1 DEF OnePlace
    <3>3. QED
      BY <3>1, <3>2
  <2>9. \A k \in Pages : OneEach(pending'[k])
    BY <2>7 DEF OnePlace
  <2>10. QED
    BY <1>2, <1>4, <2>8, <2>9 DEF OnePlace
<1>8. QED
  BY <1>6, <1>7

(* What is flushed no longer waits.                                        *)
LEMMA FlushPlaces ==
    ASSUME TypeInv, OnePlace, NEW k \in Pages, Flush(k)
    PROVE  OnePlace'
<1>1. executed \in [Pages -> [Calls -> Nat]] /\ pending \in [Pages -> Seq(Pendings)]
  BY DEF TypeInv, ChannelsTypeOK
<1>2. UNCHANGED <<page, call, waiting, toServer>> /\ pending' = [pending EXCEPT ![k] = <<>>]
  BY DEF Flush, clientVars
<1>3. \A p \in Pages, d \in Calls :
         executed'[p][d] = executed[p][d] + IF Called(pending[k], p, d) THEN 1 ELSE 0
  BY DEF Flush, Flushed, Execute
<1>4. \A p, d : Made(p, d)' <=> Made(p, d)
  BY <1>2 DEF Made
<1>5. /\ pending'[k] = <<>>
      /\ \A l \in Pages \ {k} : pending'[l] = pending[l]
  BY <1>1, <1>2
<1>6. OneEach(pending'[k]) /\ \A p, d : ~Called(pending'[k], p, d)
  BY <1>5, NoCalls
<1>7. ASSUME NEW p \in Pages, NEW d \in Calls
      PROVE  /\ ~Made(p, d)' => ~Called(waiting, p, d)' /\ ~Called(toServer, p, d)'
             /\ Called(waiting, p, d)' => ~Called(toServer, p, d)'
             /\ ~Made(p, d)' \/ Called(waiting, p, d)' \/ Called(toServer, p, d)' =>
                   (\A l \in Pages : ~Called(pending[l], p, d)') /\ executed'[p][d] = 0
             /\ \A l \in Pages : Called(pending[l], p, d)' =>
                   /\ executed'[p][d] = 0
                   /\ \A m \in Pages : Called(pending[m], p, d)' => m = l
             /\ executed'[p][d] <= 1
  <2>1. executed[p][d] \in Nat
    BY <1>1
  <2>2. CASE Called(pending[k], p, d)
    <3>1. /\ Made(p, d) /\ ~Called(waiting, p, d) /\ ~Called(toServer, p, d)
          /\ executed[p][d] = 0 /\ \A l \in Pages : Called(pending[l], p, d) => l = k
      BY <2>2 DEF OnePlace
    <3>2. executed'[p][d] = 1 /\ \A l \in Pages : ~Called(pending'[l], p, d)
      BY <1>3, <1>5, <1>6, <2>2, <3>1
    <3>3. QED
      BY <1>2, <1>4, <3>1, <3>2
  <2>3. CASE ~Called(pending[k], p, d)
    <3>1. executed'[p][d] = executed[p][d]
      BY <1>3, <2>1, <2>3
    <3>2. \A l \in Pages : Called(pending'[l], p, d) => Called(pending[l], p, d)
      BY <1>5, <1>6
    <3>3. QED
      BY <1>2, <1>4, <3>1, <3>2 DEF OnePlace
  <2>4. QED
    BY <2>2, <2>3
<1>8. \A l \in Pages : OneEach(pending'[l])
  BY <1>5, <1>6 DEF OnePlace
<1>9. QED
  BY <1>2, <1>7, <1>8 DEF OnePlace

(* Every step keeps OnePlace.                                              *)
LEMMA PlaceStep == TypeInv /\ OnePlace /\ [Next]_channelVars => OnePlace'
<1> SUFFICES ASSUME TypeInv, OnePlace, [Next]_channelVars PROVE OnePlace'
  OBVIOUS
<1>1. CASE Next
  <2>1. CASE \E c \in Calls : Call(c)
    BY <2>1, CallPlaces
  <2>2. CASE \/ \E c \in Calls : Cancel(c)
             \/ \E e \in Events : AddListener(e) \/ RemoveListener(e)
             \/ ReceiveAnswer \/ ReceiveReconnect \/ Reload
    BY <2>2, PagePlaces
  <2>3. CASE ReceiveInit
    BY <2>3, InitPlaces
  <2>4. CASE ReceiveRequest
    BY <2>4, RequestPlaces
  <2>5. CASE \/ ReceiveHello \/ ReceiveContext \/ ReceiveDisposal \/ Drop
             \/ RegisterChannel \/ Save \/ Restart \/ SendReconnect
             \/ \E x \in running, ok \in BOOLEAN : Finish(x, ok)
    BY <2>5, WorkerPlaces
  <2>6. CASE TimerStep
    BY <2>6, WorkerPlaces, FlushPlaces DEF TimerStep
  <2>7. QED
    BY <1>1, <2>1, <2>2, <2>3, <2>4, <2>5, <2>6 DEF Next, SystemStep, PageStep, ServerStep
<1>2. CASE UNCHANGED channelVars
  BY <1>2, TakenPlaces DEF channelVars, clientVars, serverVars, historyVars
<1>3. QED
  BY <1>1, <1>2

(* At first no call is made.                                               *)
LEMMA PlaceInit == Init => OnePlace
<1> SUFFICES ASSUME Init PROVE OnePlace
  OBVIOUS
<1>1. OneEach(waiting) /\ \A p, c : ~Called(waiting, p, c)
  BY NoCalls DEF Init
<1>2. OneEach(toServer) /\ \A p, c : ~Called(toServer, p, c)
  <2>1. toServer = Hello(1) /\ \A i \in DOMAIN Hello(1) : Hello(1)[i].type # "call"
    BY DEF Init, Hello
  <2>2. QED
    BY <2>1, NoCalls
<1>3. \A k \in Pages : OneEach(pending[k]) /\ \A p, c : ~Called(pending[k], p, c)
  <2>1. \A k \in Pages : pending[k] = <<>>
    BY DEF Init
  <2>2. QED
    BY <2>1, NoCalls
<1>4. \A p \in Pages, c \in Calls : executed[p][c] = 0
  BY DEF Init
<1>5. QED
  BY <1>1, <1>2, <1>3, <1>4 DEF OnePlace

(* No call is executed twice, however often pages are loaded and the       *)
(* worker restarts, and whether its requests have timed out or not.        *)
THEOREM CallsRunOnce == Spec => []AtMostOnce
<1>1. Spec => [](TypeInv /\ OnePlace)
  BY TypeInit, TypeStep, PlaceInit, PlaceStep, PTL DEF Spec
<1>2. OnePlace => AtMostOnce
  BY DEF OnePlace, AtMostOnce
<1>3. QED
  BY <1>1, <1>2, PTL

-----------------------------------------------------------------------------
(* Answers.                                                                *)

(* An Initialize has come to the page that is there, or will.              *)
Opened == idle \/ \E i \in DOMAIN toClient : toClient[i] = Initialize

(* An answer the page may take for one to a call of its own.               *)
MayCount(j) ==
    /\ toClient[j] \in Answers
    /\ idle \/ \E i \in 1..(j - 1) : toClient[i] = Initialize

(* Nothing of an older page is left where it could settle a call of the    *)
(* present one, and before Initialize comes no call can be settled.        *)
OwnInv ==
    /\ \A i \in DOMAIN waiting : waiting[i].page = page
    /\ ~idle => \A c \in Calls : call[c] # "sent" /\ answered[c] = 0
    /\ clean => /\ \A c \in Calls : answered[c] \in {0, page}
                /\ Opened => NoneBehind
                /\ \A j \in DOMAIN toClient : MayCount(j) => toClient[j].page = page

(* A sequence without its head.                                            *)
LEMMA Rest ==
    ASSUME NEW S, NEW s \in Seq(S), s # <<>>
    PROVE  /\ Tail(s) \in Seq(S) /\ Head(s) = s[1] /\ 1 \in DOMAIN s
           /\ \A i \in DOMAIN Tail(s) :
                 i \in Nat /\ i >= 1 /\ i + 1 \in DOMAIN s /\ Tail(s)[i] = s[i + 1]
OBVIOUS

(* No step of the worker makes a call that is not there.                   *)
LEMMA BehindWorker ==
    ASSUME TypeInv, NoneBehind
    PROVE  /\ ServerStep \/ RegisterChannel \/ Save \/ Restart \/ SendReconnect => NoneBehind'
           /\ \A k \in Pages : Flush(k) => NoneBehind'
           /\ \A k \in Pages : \A i \in DOMAIN pending[k] : Timeout(k, i) => NoneBehind'
           /\ \A x \in running, ok \in BOOLEAN : Finish(x, ok) => NoneBehind'
<1> DEFINE SM == Handshakes \cup Requests
<1>t. toServer \in Seq(SM) /\ pending \in [Pages -> Seq(Pendings)]
  BY DEF TypeInv, ChannelsTypeOK
<1> HIDE DEF SM
<1> USE DEF clientVars, serverVars, managerVars, historyVars
<1>1. ASSUME toServer # <<>>, toServer' = Tail(toServer), page' = page
      PROVE  \A i \in DOMAIN toServer' : toServer'[i].type = "call" => toServer'[i].page = page'
  BY <1>1, <1>t, Rest DEF NoneBehind
<1>2. CASE ReceiveHello \/ ReceiveContext \/ ReceiveDisposal \/ Drop
  <2>1. /\ toServer # <<>> /\ toServer' = Tail(toServer) /\ page' = page
        /\ running' = running /\ pending' = pending
    BY <1>2 DEF ReceiveHello, ReceiveContext, ReceiveDisposal, Drop, Arrived
  <2>2. QED
    BY <1>1, <2>1 DEF NoneBehind
<1>3. CASE ReceiveRequest
  <2> DEFINE h == Head(toServer)
  <2>1. toServer # <<>> /\ toServer' = Tail(toServer) /\ page' = page
    BY <1>3 DEF ReceiveRequest, Arrived
  <2>2. h.type = "call" => h.page = page
    BY <2>1, <1>t, Rest DEF NoneBehind
  <2>3. \A x \in running' : x.page = page
    <3>1. CASE registered
      <4>1. Execute(current, <<h>>)
        BY <1>3, <3>1 DEF ReceiveRequest
      <4> HIDE DEF h
      <4>2. \A q, c : Called(<<h>>, q, c) => h.type = "call" /\ h.page = q
        BY DEF Called
      <4>3. QED
        BY <4>1, <4>2, <2>2 DEF Execute, NoneBehind
    <3>2. CASE ~registered
      BY <1>3, <3>2 DEF ReceiveRequest, NoneBehind
    <3>3. QED
      BY <3>1, <3>2
  <2>4. \A k \in Pages : \A i \in DOMAIN pending'[k] :
           pending'[k][i].type = "call" => pending'[k][i].page = page
    <3>1. CASE pending' = pending
      BY <3>1 DEF NoneBehind
    <3>2. CASE pending' # pending
      <4> DEFINE x == [type |-> h.type, id |-> h.id, page |-> h.page, timer |-> TRUE]
      <4>1. pending' = [pending EXCEPT ![current] = Append(pending[current], x)] /\ current \in Pages
        BY <1>3, <3>2 DEF ReceiveRequest, Waits, Collected, TypeInv, ChannelsTypeOK
      <4>2. x.type = "call" => x.page = page
        BY <2>2
      <4> HIDE DEF h, x
      <4>3. \A i \in DOMAIN Append(pending[current], x) :
               \/ i \in DOMAIN pending[current]
                    /\ Append(pending[current], x)[i] = pending[current][i]
               \/ Append(pending[current], x)[i] = x
        BY <1>t, <4>1
      <4>4. QED
        BY <1>t, <4>1, <4>2, <4>3 DEF NoneBehind
    <3>3. QED
      BY <3>1, <3>2
  <2>5. QED
    BY <1>1, <2>1, <2>3, <2>4 DEF NoneBehind
<1>4. CASE RegisterChannel \/ Save \/ SendReconnect
  BY <1>4 DEF RegisterChannel, Save, Forget, Store, SendReconnect, NoneBehind
<1>5. CASE Restart
  BY <1>5 DEF Restart, ServerStart, NoneBehind
<1>6. ASSUME NEW k \in Pages, Flush(k) PROVE NoneBehind'
  <2>1. /\ page' = page /\ toServer' = toServer
        /\ pending' = [pending EXCEPT ![k] = <<>>] /\ Execute(k, pending[k])
    BY <1>6 DEF Flush, Flushed
  <2>2. \A q, c : Called(pending[k], q, c) => q = page
    BY DEF Called, NoneBehind
  <2>3. \A x \in running' : x.page = page
    BY <2>1, <2>2 DEF Execute, NoneBehind
  <2>4. \A l \in Pages : \A i \in DOMAIN pending'[l] :
           pending'[l][i].type = "call" => pending'[l][i].page = page
    BY <1>t, <2>1 DEF NoneBehind
  <2>5. QED
    BY <2>1, <2>3, <2>4 DEF NoneBehind
<1>7. ASSUME NEW k \in Pages, NEW i \in DOMAIN pending[k], Timeout(k, i) PROVE NoneBehind'
  <2>1. UNCHANGED <<page, toServer, running>>
    BY <1>7 DEF Timeout
  <2>2. pending' = [pending EXCEPT ![k] = [pending[k] EXCEPT ![i] =
                       [pending[k][i] EXCEPT !.timer = FALSE]]]
    BY <1>7, <1>t DEF Timeout
  <2>3. pending[k] \in Seq(Pendings) /\ pending[k][i] \in Pendings
    BY <1>t
  <2>4. \A l \in Pages : \A j \in DOMAIN pending'[l] :
           /\ j \in DOMAIN pending[l]
           /\ pending'[l][j].type = pending[l][j].type
           /\ pending'[l][j].page = pending[l][j].page
    BY <1>t, <2>2, <2>3 DEF Pendings
  <2>5. QED
    BY <2>1, <2>4 DEF NoneBehind
<1>8. ASSUME NEW x \in running, NEW ok \in BOOLEAN, Finish(x, ok) PROVE NoneBehind'
  BY <1>8 DEF Finish, NoneBehind
<1>9. QED
  BY <1>2, <1>3, <1>4, <1>5, <1>6, <1>7, <1>8 DEF ServerStep

(* A step of the worker that sends nothing, or something that is not an    *)
(* answer to a call of an older page, or only while Initialize is not out. *)
LEMMA OwnWorker ==
    ASSUME TypeInv, OwnInv, NEW m,
           UNCHANGED <<page, idle, call, answered, waiting>>,
           toClient' = toClient \/ toClient' = Append(toClient, m),
           clean' => clean, NoneBehind => NoneBehind',
           m = Initialize /\ clean' => NoneBehind,
           clean /\ Opened /\ m \in Answers => m.page = page
    PROVE  OwnInv'
<1>1. toClient \in Seq({Initialize} \cup Answers \cup Reconnects)
  BY DEF TypeInv, ChannelsTypeOK
<1>2. \A j \in DOMAIN toClient' :
         /\ j \in Nat
         /\ \/ j \in DOMAIN toClient /\ toClient'[j] = toClient[j]
            \/ j = Len(toClient) + 1 /\ toClient'[j] = m
         /\ \A i \in 1..(j - 1) : i \in DOMAIN toClient /\ toClient'[i] = toClient[i]
  BY <1>1
<1>3. ASSUME clean' PROVE Opened' => NoneBehind'
  <2>1. Opened' => Opened \/ m = Initialize
    BY <1>2 DEF Opened
  <2>2. QED
    BY <1>3, <2>1 DEF OwnInv
<1>4. ASSUME clean', NEW j \in DOMAIN toClient', MayCount(j)' PROVE toClient'[j].page = page'
  <2>1. CASE j \in DOMAIN toClient /\ toClient'[j] = toClient[j]
    <3>1. MayCount(j)
      BY <1>2, <1>4, <2>1 DEF MayCount
    <3>2. QED
      BY <1>4, <2>1, <3>1 DEF OwnInv
  <2>2. CASE j = Len(toClient) + 1 /\ toClient'[j] = m
    <3>1. Opened /\ m \in Answers
      BY <1>2, <1>4, <2>2 DEF MayCount, Opened
    <3>2. QED
      BY <1>4, <2>2, <3>1
  <2>3. QED
    BY <1>2, <2>1, <2>2
<1>5. QED
  BY <1>3, <1>4 DEF OwnInv

(* The page receives a message: what it may count now it could before.     *)
LEMMA OwnClient ==
    ASSUME TypeInv, OwnInv, toClient # <<>>, toClient' = Tail(toClient), page' = page,
           idle' => idle \/ Head(toClient) = Initialize
    PROVE  /\ Opened' => Opened
           /\ clean => \A j \in DOMAIN toClient' : MayCount(j)' => toClient'[j].page = page'
<1>1. toClient \in Seq({Initialize} \cup Answers \cup Reconnects)
  BY DEF TypeInv, ChannelsTypeOK
<1>2. /\ Head(toClient) = toClient[1] /\ 1 \in DOMAIN toClient
      /\ \A j \in DOMAIN toClient' :
            j \in Nat /\ j >= 1 /\ j + 1 \in DOMAIN toClient /\ toClient'[j] = toClient[j + 1]
  BY <1>1, Rest
<1>3. Opened' => Opened
  BY <1>2 DEF Opened
<1>4. ASSUME NEW j \in DOMAIN toClient', MayCount(j)' PROVE MayCount(j + 1)
  <2>1. toClient[j + 1] \in Answers
    BY <1>2, <1>4 DEF MayCount
  <2>2. CASE idle
    BY <2>1, <2>2 DEF MayCount
  <2>3. CASE idle' /\ ~idle
    <3>1. 1 \in 1..((j + 1) - 1) /\ toClient[1] = Initialize
      BY <1>2, <2>3
    <3>2. QED
      BY <2>1, <3>1 DEF MayCount
  <2>4. CASE \E i \in 1..(j - 1) : toClient'[i] = Initialize
    <3>1. PICK i \in 1..(j - 1) : toClient'[i] = Initialize
      BY <2>4
    <3>2. i \in DOMAIN toClient'
      BY <1>1, <1>2, <3>1
    <3>3. toClient[i + 1] = Initialize /\ i + 1 \in 1..((j + 1) - 1)
      BY <1>2, <3>1, <3>2
    <3>4. QED
      BY <2>1, <3>3 DEF MayCount
  <2>5. QED
    BY <1>4, <2>2, <2>3, <2>4 DEF MayCount
<1>5. ASSUME clean, NEW j \in DOMAIN toClient', MayCount(j)' PROVE toClient'[j].page = page'
  <2>1. MayCount(j + 1) /\ j + 1 \in DOMAIN toClient
    BY <1>2, <1>4, <1>5
  <2>2. toClient[j + 1].page = page
    BY <1>5, <2>1 DEF OwnInv
  <2>3. QED
    BY <1>2, <1>5, <2>2
<1>6. QED
  BY <1>3, <1>5

(* The requests the page sends are its own.                                *)
LEMMA BehindPage ==
    ASSUME TypeInv, NoneBehind, UNCHANGED <<page, running, pending>>,
           NEW reqs \in Seq(Requests),
           toServer' = toServer \o reqs,
           \A i \in DOMAIN reqs : reqs[i].page = page
    PROVE  NoneBehind'
<1> DEFINE SM == Handshakes \cup Requests
<1>1. toServer \in Seq(SM) /\ reqs \in Seq(SM)
  BY DEF TypeInv, ChannelsTypeOK
<1> HIDE DEF SM
<1>2. \A i \in DOMAIN toServer' :
         \/ i \in DOMAIN toServer /\ toServer'[i] = toServer[i]
         \/ \E j \in DOMAIN reqs : toServer'[i] = reqs[j]
  <2> TAKE i \in DOMAIN toServer'
  <2>1. /\ i \in 1..(Len(toServer) + Len(reqs))
        /\ toServer'[i] = IF i <= Len(toServer) THEN toServer[i] ELSE reqs[i - Len(toServer)]
    BY <1>1, ConcatProperties
  <2>2. Len(toServer) \in Nat /\ Len(reqs) \in Nat
    BY <1>1
  <2>3. CASE i <= Len(toServer)
    BY <1>1, <2>1, <2>2, <2>3
  <2>4. CASE ~(i <= Len(toServer))
    <3>1. i - Len(toServer) \in DOMAIN reqs /\ toServer'[i] = reqs[i - Len(toServer)]
      BY <1>1, <2>1, <2>2, <2>4
    <3>2. QED
      BY <3>1
  <2>5. QED
    BY <2>3, <2>4
<1>3. \A i \in DOMAIN toServer' : toServer'[i].type = "call" => toServer'[i].page = page'
  BY <1>2 DEF NoneBehind
<1>4. QED
  BY <1>3 DEF NoneBehind

(* Sending nothing, one request or two is sending a list of them.          *)
LEMMA Sent ==
    ASSUME TypeInv, NEW x \in Requests
    PROVE  /\ <<>> \in Seq(Requests) /\ toServer = toServer \o <<>>
           /\ <<x>> \in Seq(Requests) /\ Append(toServer, x) = toServer \o <<x>>
           /\ <<x, x>> \in Seq(Requests)
<1>1. toServer \in Seq(Handshakes \cup Requests)
  BY DEF TypeInv, ChannelsTypeOK
<1>2. QED
  BY <1>1

(* Every step of the page keeps answers apart.                             *)
LEMMA OwnPage ==
    ASSUME TypeInv, OwnInv
    PROVE  /\ \A c \in Calls : Call(c) \/ Cancel(c) => OwnInv'
           /\ \A e \in Events : AddListener(e) \/ RemoveListener(e) => OwnInv'
           /\ PageStep \/ Reload => OwnInv'
<1>t. /\ waiting \in Seq(Requests) /\ page \in Pages
      /\ toClient \in Seq({Initialize} \cup Answers \cup Reconnects)
      /\ call \in [Calls -> {"new", "waiting", "sent", "done", "cancelled"}]
      /\ answered \in [Calls -> Pages \cup {0}]
  BY DEF TypeInv, ChannelsTypeOK
<1>o. /\ \A i \in DOMAIN waiting : waiting[i].page = page
      /\ ~idle => \A c \in Calls : call[c] # "sent" /\ answered[c] = 0
  BY DEF OwnInv
<1> USE DEF clientVars, serverVars, managerVars, historyVars
(* A request with the present page is sent or waits.                       *)
<1>1. ASSUME NEW x \in Requests, x.page = page, UNCHANGED <<page, running, pending>>,
             toServer' = toServer \/ toServer' = Append(toServer, x)
                \/ toServer' = toServer \o <<x, x>>
      PROVE  NoneBehind => NoneBehind'
  <2>1. \A i \in DOMAIN <<x>> : <<x>>[i].page = page
    BY <1>1
  <2>2. \A i \in DOMAIN <<x, x>> : <<x, x>>[i].page = page
    BY <1>1
  <2>3. \A i \in DOMAIN <<>> : <<>>[i].page = page
    OBVIOUS
  <2>4. QED
    BY <1>1, <2>1, <2>2, <2>3, Sent, BehindPage
<1>2. ASSUME NEW x \in Requests, x.page = page, waiting' = Append(waiting, x) \/ waiting' = waiting,
             page' = page
      PROVE  \A i \in DOMAIN waiting' : waiting'[i].page = page'
  BY <1>2, <1>t, <1>o, Appended
<1>3. ASSUME NEW id, Withdraw(id), page' = page
      PROVE  \A i \in DOMAIN waiting' : waiting'[i].page = page'
  <2>1. PICK i \in DOMAIN waiting : waiting' = RemoveAt(waiting, i)
    BY <1>3 DEF Withdraw
  <2>2. /\ waiting' \in Seq(Requests) /\ Len(waiting') = Len(waiting) - 1
        /\ \A j \in 1..(Len(waiting) - 1) :
              waiting'[j] = IF j < i THEN waiting[j] ELSE waiting[j + 1]
    BY <1>t, <2>1, Removed
  <2>3. ASSUME NEW j \in DOMAIN waiting' PROVE waiting'[j].page = page'
    <3>1. /\ j \in 1..(Len(waiting) - 1) /\ j \in DOMAIN waiting /\ j + 1 \in DOMAIN waiting
          /\ waiting'[j] = waiting[j] \/ waiting'[j] = waiting[j + 1]
      BY <1>t, <2>2
    <3>2. QED
      BY <1>3, <1>o, <3>1
  <2>4. QED
    BY <2>3
(* What the messages to the page may count as stays as it is.              *)
<1>4. ASSUME UNCHANGED <<page, idle, toClient, answered, clean>>, NoneBehind => NoneBehind',
             \A c \in Calls : call'[c] = "sent" => idle \/ call[c] = "sent",
             \A i \in DOMAIN waiting' : waiting'[i].page = page'
      PROVE  OwnInv'
  <2>1. (Opened' <=> Opened) /\ \A j : MayCount(j)' <=> MayCount(j)
    BY <1>4 DEF Opened, MayCount
  <2>2. QED
    BY <1>4, <2>1 DEF OwnInv
<1>5. ASSUME NEW c \in Calls, Call(c) PROVE OwnInv'
  <2>1. Request("call", c) \in Requests /\ Request("call", c).page = page
    BY ServerMessages DEF TypeInv, Request
  <2>2. /\ UNCHANGED <<page, idle, toClient, answered, clean, running, pending>>
        /\ \/ toServer' = Append(toServer, Request("call", c)) /\ waiting' = waiting
           \/ waiting' = Append(waiting, Request("call", c)) /\ toServer' = toServer
        /\ call' = [call EXCEPT ![c] = IF idle THEN "sent" ELSE "waiting"]
    BY <1>5 DEF Call, Ask
  <2>3. NoneBehind => NoneBehind'
    BY <1>1, <2>1, <2>2
  <2>4. \A i \in DOMAIN waiting' : waiting'[i].page = page'
    BY <1>2, <2>1, <2>2
  <2>5. \A d \in Calls : call'[d] = "sent" => idle \/ call[d] = "sent"
    BY <1>t, <2>2
  <2>6. QED
    BY <1>4, <2>2, <2>3, <2>4, <2>5
<1>6. ASSUME NEW c \in Calls, Cancel(c) PROVE OwnInv'
  <2>1. Request("cancel", c) \in Requests /\ Request("cancel", c).page = page
    BY ServerMessages DEF TypeInv, Request
  <2>2. /\ UNCHANGED <<page, idle, toClient, answered, clean, running, pending>>
        /\ call' = [call EXCEPT ![c] = "cancelled"]
        /\ \/ toServer' = Append(toServer, Request("cancel", c))
           \/ toServer' = toServer \o <<Request("cancel", c), Request("cancel", c)>>
        /\ Withdraw(c) \/ waiting' = waiting
    BY <1>6 DEF Cancel
  <2>3. NoneBehind => NoneBehind'
    BY <1>1, <2>1, <2>2
  <2>4. \A i \in DOMAIN waiting' : waiting'[i].page = page'
    BY <1>3, <1>o, <2>2
  <2>5. \A d \in Calls : call'[d] = "sent" => idle \/ call[d] = "sent"
    BY <1>t, <2>2
  <2>6. QED
    BY <1>4, <2>2, <2>3, <2>4, <2>5
<1>7. ASSUME NEW e \in Events, AddListener(e) PROVE OwnInv'
  <2>1. Request("listen", e) \in Requests /\ Request("listen", e).page = page
    BY ServerMessages DEF TypeInv, Request
  <2>2. /\ UNCHANGED <<page, idle, toClient, answered, clean, running, pending, call>>
        /\ \/ toServer' = Append(toServer, Request("listen", e)) /\ waiting' = waiting
           \/ waiting' = Append(waiting, Request("listen", e)) /\ toServer' = toServer
    BY <1>7 DEF AddListener, Ask
  <2>3. NoneBehind => NoneBehind'
    BY <1>1, <2>1, <2>2
  <2>4. \A i \in DOMAIN waiting' : waiting'[i].page = page'
    BY <1>2, <2>1, <2>2
  <2>5. QED
    BY <1>4, <2>2, <2>3, <2>4
<1>8. ASSUME NEW e \in Events, RemoveListener(e) PROVE OwnInv'
  <2>1. Request("dispose", e) \in Requests /\ Request("dispose", e).page = page
    BY ServerMessages DEF TypeInv, Request
  <2>2. /\ UNCHANGED <<page, idle, toClient, answered, clean, running, pending, call>>
        /\ toServer' = Append(toServer, Request("dispose", e)) \/ toServer' = toServer
        /\ Withdraw(e) \/ waiting' = waiting
    BY <1>8 DEF RemoveListener
  <2>3. NoneBehind => NoneBehind'
    BY <1>1, <2>1, <2>2
  <2>4. \A i \in DOMAIN waiting' : waiting'[i].page = page'
    BY <1>3, <1>o, <2>2
  <2>5. QED
    BY <1>4, <2>2, <2>3, <2>4
<1>9. CASE ReceiveInit
  <2>1. /\ toClient # <<>> /\ toClient' = Tail(toClient) /\ Head(toClient) = Initialize
        /\ UNCHANGED <<page, running, pending, answered, clean>> /\ idle'
        /\ toServer' = toServer \o waiting /\ waiting' = <<>>
    BY <1>9 DEF ReceiveInit
  <2>2. clean => \A j \in DOMAIN toClient' : MayCount(j)' => toClient'[j].page = page'
    BY <2>1, OwnClient
  <2>3. NoneBehind => NoneBehind'
    BY <2>1, <1>t, <1>o, BehindPage
  <2>4. Opened
    BY <2>1, <1>t DEF Opened
  <2>5. QED
    BY <2>1, <2>2, <2>3, <2>4 DEF OwnInv
<1>10. CASE ReceiveAnswer
  <2> DEFINE h == Head(toClient)
             x == Request("cancel", h.id)
  <2>1. /\ toClient # <<>> /\ toClient' = Tail(toClient) /\ h \in Answers
        /\ UNCHANGED <<page, idle, running, pending, clean, waiting>>
        /\ \/ UNCHANGED <<call, answered, toServer>>
           \/ /\ call[h.id] = "sent"
              /\ call' = [call EXCEPT ![h.id] = "done"]
              /\ answered' = [answered EXCEPT ![h.id] = h.page]
              /\ toServer' = Append(toServer, x)
    BY <1>10 DEF ReceiveAnswer, HasHandler
  <2>2. h.id \in Calls
    BY <2>1 DEF Answers
  <2>3. x \in Requests /\ x.page = page
    BY <2>2, ServerMessages DEF TypeInv, Request
  <2> HIDE DEF x
  <2>4. NoneBehind => NoneBehind'
    BY <1>1, <2>1, <2>3
  <2>5. /\ Opened' => Opened
        /\ clean => \A j \in DOMAIN toClient' : MayCount(j)' => toClient'[j].page = page'
    BY <2>1, OwnClient
  <2>6. h = toClient[1] /\ 1 \in DOMAIN toClient
    BY <1>t, <2>1, Rest
  <2>7. ~idle => UNCHANGED <<call, answered>>
    BY <1>o, <2>1, <2>2
  <2>8. clean /\ idle => h.page = page
    BY <2>1, <2>6 DEF OwnInv, MayCount
  <2> HIDE DEF h
  <2>9. clean => \A c \in Calls : answered'[c] \in {0, page}
    BY <1>t, <2>1, <2>2, <2>7, <2>8 DEF OwnInv
  <2>10. QED
    BY <1>o, <2>1, <2>4, <2>5, <2>7, <2>9 DEF OwnInv
<1>11. CASE ReceiveReconnect
  <2>1. /\ toClient # <<>> /\ toClient' = Tail(toClient) /\ Head(toClient) \in Reconnects
        /\ UNCHANGED <<page, idle, call, answered, waiting, running, pending, clean>>
    BY <1>11 DEF ReceiveReconnect
  <2>2. ~Hears(Head(toClient))
    BY <1>t, <2>1, Rest DEF TypeInv, Unheard
  <2>3. toServer' = toServer
    BY <1>11, <2>2 DEF ReceiveReconnect
  <2>4. /\ Opened' => Opened
        /\ clean => \A j \in DOMAIN toClient' : MayCount(j)' => toClient'[j].page = page'
    BY <2>1, OwnClient
  <2>5. NoneBehind => NoneBehind'
    BY <2>1, <2>3 DEF NoneBehind
  <2>6. QED
    BY <1>o, <2>1, <2>4, <2>5 DEF OwnInv
<1>12. CASE Reload
  <2>1. /\ ~idle' /\ toClient' = <<>> /\ waiting' = <<>>
        /\ \A c \in Calls : call'[c] = "new" /\ answered'[c] = 0
    BY <1>12 DEF Reload
  <2>2. QED
    BY <2>1 DEF OwnInv, Opened
<1>13. QED
  BY <1>5, <1>6, <1>7, <1>8, <1>9, <1>10, <1>11, <1>12 DEF PageStep

(* Every step does.                                                        *)
LEMMA OwnStep == TypeInv /\ OwnInv /\ [Next]_channelVars => OwnInv'
<1> SUFFICES ASSUME TypeInv, OwnInv, [Next]_channelVars PROVE OwnInv'
  OBVIOUS
<1>t. /\ pending \in [Pages -> Seq(Pendings)]
      /\ running \subseteq [conn : Pages, id : Calls, page : Pages]
  BY DEF TypeInv, ChannelsTypeOK
<1> USE DEF clientVars, serverVars, managerVars, historyVars
<1>1. CASE ReceiveContext
  <2>1. /\ UNCHANGED <<page, idle, call, answered, waiting>>
        /\ toClient' = Append(toClient, Initialize) /\ clean' = (clean /\ NoneBehind)
    BY <1>1 DEF ReceiveContext
  <2>2. Initialize \notin Answers
    BY DEF Initialize, Answers
  <2>3. QED
    BY <1>1, <2>1, <2>2, OwnWorker, BehindWorker DEF ServerStep
<1>2. CASE \/ ReceiveHello \/ ReceiveRequest \/ ReceiveDisposal \/ Drop
           \/ RegisterChannel \/ Save \/ Restart
  <2>1. UNCHANGED <<page, idle, call, answered, waiting, toClient, clean>>
    BY <1>2 DEF ReceiveHello, ReceiveRequest, ReceiveDisposal, Drop, RegisterChannel,
       Save, Forget, Store, Restart
  <2>2. PICK m : m # Initialize /\ m \notin Answers
    <3>1. [type |-> "none"] # Initialize /\ [type |-> "none"] \notin Answers
      BY DEF Initialize, Answers
    <3>2. QED
      BY <3>1
  <2>3. NoneBehind => NoneBehind'
    BY <1>2, BehindWorker DEF ServerStep
  <2>4. QED
    BY <2>1, <2>2, <2>3, OwnWorker
<1>3. CASE SendReconnect
  <2> DEFINE m == [type |-> "reconnect", source |-> Connection.id, target |-> Connection.source]
  <2>1. /\ UNCHANGED <<page, idle, call, answered, waiting, clean>>
        /\ toClient' = Append(toClient, m)
    BY <1>3 DEF SendReconnect
  <2>2. m # Initialize /\ m \notin Answers
    BY DEF Initialize, Answers
  <2> HIDE DEF m
  <2>3. QED
    BY <1>3, <2>1, <2>2, OwnWorker, BehindWorker
<1>4. ASSUME NEW k \in Pages, Flush(k) PROVE OwnInv'
  <2>1. UNCHANGED <<page, idle, call, answered, waiting, toClient, clean>>
    BY <1>4 DEF Flush
  <2>2. PICK m : m # Initialize /\ m \notin Answers
    <3>1. [type |-> "none"] # Initialize /\ [type |-> "none"] \notin Answers
      BY DEF Initialize, Answers
    <3>2. QED
      BY <3>1
  <2>3. QED
    BY <1>4, <2>1, <2>2, OwnWorker, BehindWorker
<1>5. ASSUME NEW k \in Pages, NEW i \in DOMAIN pending[k], Timeout(k, i) PROVE OwnInv'
  <2> DEFINE r == pending[k][i]
             m == [type |-> "unknown", id |-> r.id, page |-> r.page]
  <2>1. /\ UNCHANGED <<page, idle, call, answered, waiting, clean>>
        /\ toClient' = toClient \/ toClient' = Append(toClient, m)
    BY <1>5 DEF Timeout
  <2>2. m # Initialize
    BY DEF Initialize
  <2>3. clean /\ Opened /\ m \in Answers => m.page = page
    <3>1. m \in Answers => r.id \in Calls
      BY DEF Answers
    <3>2. r \in Pendings
      BY <1>t
    <3>3. r.id \in Calls => r.type = "call"
      BY <3>2, ChannelsAssumption DEF Pendings
    <3>4. QED
      BY <3>1, <3>3 DEF OwnInv, NoneBehind
  <2> HIDE DEF r, m
  <2>4. QED
    BY <1>5, <2>1, <2>2, <2>3, OwnWorker, BehindWorker
<1>6. ASSUME NEW x \in running, NEW ok \in BOOLEAN, Finish(x, ok) PROVE OwnInv'
  <2> DEFINE m == [type |-> "result", id |-> x.id, page |-> x.page]
  <2>1. /\ UNCHANGED <<page, idle, call, answered, waiting, clean>>
        /\ toClient' = toClient \/ toClient' = Append(toClient, m)
    BY <1>6 DEF Finish
  <2>2. m # Initialize /\ (clean /\ Opened => m.page = page)
    BY DEF Initialize, OwnInv, NoneBehind
  <2> HIDE DEF m
  <2>3. NoneBehind => NoneBehind'
    BY <1>6, BehindWorker
  <2>4. QED
    BY <2>1, <2>2, <2>3, OwnWorker
<1>7. CASE UNCHANGED channelVars
  <2>1. UNCHANGED <<page, idle, call, answered, waiting, toClient, clean, running, pending, toServer>>
    BY <1>7 DEF channelVars
  <2>2. QED
    BY <2>1 DEF OwnInv, Opened, NoneBehind, MayCount
<1>8. QED
  BY <1>1, <1>2, <1>3, <1>4, <1>5, <1>6, <1>7, OwnPage
  DEF Next, SystemStep, ServerStep, TimerStep

(* A call is settled by the answer to its own request and by no older one, *)
(* though ids repeat from page to page and answers go to whoever is there  *)
(* (message.client.ts: the source is the same after a reload).             *)
THEOREM AnswersAreOwn == Spec => []AnswerIsOwn
<1>1. Init => OwnInv
  <2>1. Init => ~idle /\ toClient = <<>> /\ waiting = <<>>
                  /\ \A c \in Calls : call[c] = "new" /\ answered[c] = 0
    BY DEF Init
  <2>2. QED
    BY <2>1 DEF OwnInv, Opened
<1>2. Spec => [](TypeInv /\ OwnInv)
  BY <1>1, TypeInit, TypeStep, OwnStep, PTL DEF Spec
<1>3. OwnInv => AnswerIsOwn
  BY DEF OwnInv, AnswerIsOwn
<1>4. QED
  BY <1>2, <1>3, PTL

-----------------------------------------------------------------------------
(* Subscriptions.                                                          *)

(* A connection is open, or will be with the next message.                 *)
Tracking == current # 0 \/ greeted # 0

(* The subscriptions to an event that the open connection has or will have *)
(* when its requests are flushed.                                          *)
Kept(e) == IF current # 0 THEN subs[current][e] + Listens(pending[current], e) ELSE 0

(* A hello is followed by its context, nobody is greeted while a           *)
(* connection is open, and until the worker stops somebody is, or is about *)
(* to say hello.                                                           *)
Handshaking ==
    /\ \A i \in DOMAIN toServer : toServer[i].type = "hello" =>
          i + 1 \in DOMAIN toServer /\ toServer[i + 1].type = "ctx"
    /\ greeted # 0 => current = 0 /\ toServer # <<>> /\ toServer[1].type = "ctx"
    /\ restarts = 0 => Tracking \/ (toServer # <<>> /\ toServer[1].type = "hello")

Asks(m, e) == m.type = "listen" /\ m.id = e

(* An event that is being opened waits for Initialize, once.               *)
Queued(e) ==
    /\ \A i \in DOMAIN waiting : waiting[i].type \in {"call", "listen"}
    /\ \A i, j \in DOMAIN waiting : Asks(waiting[i], e) /\ Asks(waiting[j], e) => i = j
    /\ (\E i \in DOMAIN waiting : Asks(waiting[i], e)) <=> event[e] = "opening"

(* What a message makes of the number n of subscriptions to an event; a    *)
(* listen comes when there is none, a dispose when there is one.           *)
Turns(m, e, n, next) ==
    /\ m.type = "hello" => next = 0
    /\ m.type = "listen" /\ m.id = e => n = 0 /\ next = 1
    /\ m.type = "dispose" /\ m.id = e => n = 1 /\ next = 0
    /\ m.type \in {"ctx", "call", "cancel"} => next = n
    /\ m.type \in {"listen", "dispose"} /\ m.id # e => next = n

(* level is the number of subscriptions before and after each message.     *)
Run(s, e, level) ==
    /\ level \in [0..Len(s) -> {0, 1}]
    /\ \A i \in 1..Len(s) : Turns(s[i], e, level[i - 1], level[i])

(* The subscriptions to an event that the page wants to have.              *)
Wanted(e) == IF event[e] = "on" THEN 1 ELSE 0

(* The messages to the worker take it from what it keeps now to what the   *)
(* page listens to.                                                        *)
Levels(e, level) ==
    /\ Run(toServer, e, level)
    /\ Tracking => level[0] = Kept(e)
    /\ level[Len(toServer)] = Wanted(e)

(* A connection that is not open has nothing of an event, and a            *)
(* subscription can be disposed of.                                        *)
Apart(e) ==
    /\ \A k \in Pages : subs[k][e] >= 1 => e \in active[k]
    /\ \A k \in Pages \ {current} : subs[k][e] = 0 /\ Listens(pending[k], e) = 0
    /\ current # 0 /\ registered /\ Listens(pending[current], e) > 0 => current \in flushDue

Matched(e) == Apart(e) /\ \E level \in [0..Len(toServer) -> {0, 1}] : Levels(e, level)

SubsInv ==
    /\ Handshaking
    /\ \A e \in Events : Queued(e)
    /\ \A e \in Events \ lost : Matched(e)

(* How an event is counted in a list of requests.                          *)
LEMMA ListensCount ==
    ASSUME NEW S, NEW e
    PROVE  /\ Listens(<<>>, e) = 0
           /\ \A s \in Seq(S), x \in S :
                 Listens(Append(s, x), e) = Listens(s, e) + IF Asks(x, e) THEN 1 ELSE 0
           /\ \A x \in S : Listens(<<x>>, e) = IF Asks(x, e) THEN 1 ELSE 0
<1> DEFINE Is(s) == {i \in DOMAIN s : s[i].type = "listen" /\ s[i].id = e}
<1>1. \A s : Listens(s, e) = Cardinality(Is(s))
  BY DEF Listens
<1>2. Listens(<<>>, e) = 0
  <2>1. Is(<<>>) = {}
    OBVIOUS
  <2>2. QED
    BY <1>1, <2>1, FS_EmptySet
<1>3. ASSUME NEW s \in Seq(S), NEW x \in S
      PROVE  Listens(Append(s, x), e) = Listens(s, e) + IF Asks(x, e) THEN 1 ELSE 0
  <2> DEFINE n == Len(s) + 1
  <2>1. n \notin Is(s) /\ n \in Nat
    OBVIOUS
  <2>2. IsFiniteSet(Is(s)) /\ Cardinality(Is(s)) \in Nat
    <3>1. Is(s) \subseteq 1..Len(s) /\ IsFiniteSet(1..Len(s))
      BY FS_Interval
    <3>2. QED
      BY <3>1, FS_Subset, FS_CardinalityType
  <2>3. CASE Asks(x, e)
    <3>1. Is(Append(s, x)) = Is(s) \cup {n}
      BY <2>3 DEF Asks
    <3> HIDE DEF Is, n
    <3>2. Cardinality(Is(s) \cup {n}) = Cardinality(Is(s)) + 1
      BY <2>1, <2>2, FS_AddElement
    <3>3. QED
      BY <1>1, <2>3, <3>1, <3>2
  <2>4. CASE ~Asks(x, e)
    <3>1. Is(Append(s, x)) = Is(s)
      BY <2>4 DEF Asks
    <3> HIDE DEF Is
    <3>2. QED
      BY <1>1, <2>2, <2>4, <3>1
  <2>5. QED
    BY <2>3, <2>4
<1>4. ASSUME NEW x \in S PROVE Listens(<<x>>, e) = IF Asks(x, e) THEN 1 ELSE 0
  <2>1. <<x>> = Append(<<>>, x) /\ <<>> \in Seq(S)
    OBVIOUS
  <2>2. Listens(Append(<<>>, x), e) = 0 + IF Asks(x, e) THEN 1 ELSE 0
    BY <1>2, <1>3, <2>1
  <2>3. QED
    BY <2>1, <2>2
<1>5. QED
  BY <1>2, <1>3, <1>4

(* The first message is taken.                                             *)
LEMMA RunTaken ==
    ASSUME NEW S, NEW s \in Seq(S), s # <<>>, NEW e, NEW level, Run(s, e, level)
    PROVE  /\ Turns(s[1], e, level[0], level[1]) /\ level[0] \in {0, 1} /\ level[1] \in {0, 1}
           /\ \E next : /\ Run(Tail(s), e, next) /\ next[0] = level[1]
                        /\ next[Len(Tail(s))] = level[Len(s)]
<1> DEFINE n == Len(s)
           next == [i \in 0..(n - 1) |-> level[i + 1]]
<1>1. n \in Nat /\ n >= 1 /\ Len(Tail(s)) = n - 1 /\ \A i \in 1..(n - 1) : Tail(s)[i] = s[i + 1]
  OBVIOUS
<1>2. /\ level \in [0..n -> {0, 1}]
      /\ \A i \in 1..n : Turns(s[i], e, level[i - 1], level[i])
  BY DEF Run
<1> HIDE DEF n
<1>3. next \in [0..(n - 1) -> {0, 1}] /\ next[0] = level[1] /\ next[n - 1] = level[n]
  BY <1>1, <1>2
<1>4. ASSUME NEW i \in 1..(n - 1) PROVE Turns(Tail(s)[i], e, next[i - 1], next[i])
  <2>1. next[i - 1] = level[(i + 1) - 1] /\ next[i] = level[i + 1] /\ i + 1 \in 1..n
    BY <1>1
  <2>2. Turns(s[i + 1], e, level[(i + 1) - 1], level[i + 1])
    BY <1>2, <2>1
  <2>3. QED
    BY <1>1, <2>1, <2>2
<1>5. Run(Tail(s), e, next)
  BY <1>1, <1>3, <1>4 DEF Run
<1>6. Turns(s[1], e, level[0], level[1]) /\ level[0] \in {0, 1} /\ level[1] \in {0, 1}
  <2>1. 1 \in 1..n /\ 1 - 1 = 0 /\ 0 \in 0..n /\ 1 \in 0..n
    BY <1>1
  <2>2. QED
    BY <1>2, <2>1
<1>7. QED
  BY <1>1, <1>3, <1>5, <1>6 DEF n

(* A message is added.                                                     *)
LEMMA RunAdded ==
    ASSUME NEW S, NEW s \in Seq(S), NEW e, NEW level, Run(s, e, level),
           NEW x \in S, NEW m \in {0, 1}, Turns(x, e, level[Len(s)], m)
    PROVE  \E next : /\ Run(Append(s, x), e, next) /\ next[0] = level[0]
                     /\ next[Len(Append(s, x))] = m
<1> DEFINE n == Len(s)
           next == [i \in 0..(n + 1) |-> IF i = n + 1 THEN m ELSE level[i]]
<1>1. /\ n \in Nat /\ Len(Append(s, x)) = n + 1 /\ Append(s, x)[n + 1] = x
      /\ \A i \in 1..n : Append(s, x)[i] = s[i]
  OBVIOUS
<1>2. /\ level \in [0..n -> {0, 1}]
      /\ \A i \in 1..n : Turns(s[i], e, level[i - 1], level[i])
      /\ Turns(x, e, level[n], m)
  BY DEF Run
<1> HIDE DEF n
<1>3. next \in [0..(n + 1) -> {0, 1}] /\ next[0] = level[0] /\ next[n + 1] = m
  BY <1>1, <1>2
<1>4. ASSUME NEW i \in 1..(n + 1) PROVE Turns(Append(s, x)[i], e, next[i - 1], next[i])
  <2>1. CASE i = n + 1
    <3>1. next[i - 1] = level[n] /\ next[i] = m /\ Append(s, x)[i] = x
      BY <1>1, <2>1
    <3>2. QED
      BY <1>2, <3>1
  <2>2. CASE i # n + 1
    <3>1. /\ i \in 1..n /\ i - 1 \in 0..(n + 1) /\ i \in 0..(n + 1) /\ i - 1 # n + 1
      BY <1>1, <2>2
    <3>2. next[i - 1] = level[i - 1] /\ next[i] = level[i] /\ Append(s, x)[i] = s[i]
      BY <1>1, <2>2, <3>1
    <3>3. QED
      BY <1>2, <3>1, <3>2
  <2>3. QED
    BY <2>1, <2>2
<1>5. Run(Append(s, x), e, next)
  BY <1>1, <1>3, <1>4 DEF Run
<1>6. QED
  BY <1>1, <1>3, <1>5

(* What has waited is added: one listen at most, when there is no          *)
(* subscription yet.                                                       *)
LEMMA RunJoined ==
    ASSUME NEW S, NEW s \in Seq(S), NEW t \in Seq(S), NEW e, NEW level, Run(s, e, level),
           \A i \in DOMAIN t : t[i].type \in {"call", "listen"},
           \A i, j \in DOMAIN t : Asks(t[i], e) /\ Asks(t[j], e) => i = j,
           (\E i \in DOMAIN t : Asks(t[i], e)) => level[Len(s)] = 0
    PROVE  \E next : /\ Run(s \o t, e, next) /\ next[0] = level[0]
                     /\ next[Len(s \o t)] =
                           IF \E i \in DOMAIN t : Asks(t[i], e) THEN 1 ELSE level[Len(s)]
<1> DEFINE n == Len(s)
           m == Len(t)
           Asked(i) == \E j \in 1..(i - n) : Asks(t[j], e)
           next == [i \in 0..(n + m) |->
                       IF i <= n THEN level[i] ELSE IF Asked(i) THEN 1 ELSE level[n]]
<1>1. /\ n \in Nat /\ m \in Nat /\ DOMAIN t = 1..m /\ Len(s \o t) = n + m
      /\ \A i \in 1..(n + m) : (s \o t)[i] = IF i <= n THEN s[i] ELSE t[i - n]
  BY ConcatProperties
<1>2. /\ level \in [0..n -> {0, 1}]
      /\ \A i \in 1..n : Turns(s[i], e, level[i - 1], level[i])
      /\ level[n] \in {0, 1}
  BY <1>1 DEF Run
<1>a. (\E i \in 1..m : Asks(t[i], e)) => level[n] = 0
  BY <1>1
<1> HIDE DEF n, m
<1>3. /\ next \in [0..(n + m) -> {0, 1}] /\ next[0] = level[0]
      /\ next[n + m] = IF \E i \in 1..m : Asks(t[i], e) THEN 1 ELSE level[n]
  <2>1. next \in [0..(n + m) -> {0, 1}] /\ next[0] = level[0]
    BY <1>1, <1>2
  <2>2. CASE m = 0
    <3>1. n + m = n /\ n \in 0..n /\ n <= n /\ 1..m = {}
      BY <1>1, <2>2
    <3>2. next[n + m] = level[n]
      BY <3>1
    <3>3. QED
      BY <2>1, <3>1, <3>2
  <2>3. CASE m # 0
    <3>1. ~(n + m <= n) /\ (n + m) - n = m /\ n + m \in 0..(n + m)
      BY <1>1, <2>3
    <3>2. next[n + m] = IF Asked(n + m) THEN 1 ELSE level[n]
      BY <3>1
    <3>3. QED
      BY <2>1, <3>1, <3>2
  <2>4. QED
    BY <2>1, <2>2, <2>3
<1>4. ASSUME NEW i \in 1..(n + m) PROVE Turns((s \o t)[i], e, next[i - 1], next[i])
  <2>1. CASE i <= n
    <3>1. next[i - 1] = level[i - 1] /\ next[i] = level[i] /\ (s \o t)[i] = s[i] /\ i \in 1..n
      BY <1>1, <2>1
    <3>2. QED
      BY <1>2, <3>1
  <2>2. CASE ~(i <= n)
    <3> DEFINE x == t[i - n]
    <3>1. (s \o t)[i] = x /\ i - n \in 1..m /\ i \in 0..(n + m) /\ i - 1 \in 0..(n + m)
      BY <1>1, <2>2
    <3>2. next[i] = IF Asked(i) THEN 1 ELSE level[n]
      BY <2>2, <3>1
    <3>3. next[i - 1] = IF Asked(i - 1) THEN 1 ELSE level[n]
      <4>1. CASE i - 1 <= n
        <5>1. i - 1 = n /\ 1..((i - 1) - n) = {}
          BY <1>1, <2>2, <3>1, <4>1
        <5>2. QED
          BY <3>1, <4>1, <5>1
      <4>2. CASE ~(i - 1 <= n)
        BY <3>1, <4>2
      <4>3. QED
        BY <4>1, <4>2
    <3>4. Asked(i) <=> Asked(i - 1) \/ Asks(x, e)
      <4>1. 1..(i - n) = (1..((i - 1) - n)) \cup {i - n} /\ i - n \in 1..(i - n)
        BY <1>1, <2>2, <3>1
      <4>2. QED
        BY <4>1
    <3>5. ~(Asked(i - 1) /\ Asks(x, e))
      <4>1. SUFFICES ASSUME NEW j \in 1..((i - 1) - n), Asks(t[j], e), Asks(x, e) PROVE FALSE
        OBVIOUS
      <4>2. j \in 1..m /\ i - n \in 1..m /\ j # i - n
        BY <1>1, <3>1
      <4>3. QED
        BY <1>1, <4>1, <4>2
    <3>6. Asks(x, e) => level[n] = 0
      BY <1>a, <3>1
    <3>7. x.type \in {"call", "listen"}
      BY <1>1, <3>1
    <3> HIDE DEF x, next, Asked
    <3>8. Turns(x, e, next[i - 1], next[i])
      <4>1. CASE Asks(x, e)
        BY <3>2, <3>3, <3>4, <3>5, <3>6, <4>1 DEF Turns, Asks
      <4>2. CASE ~Asks(x, e)
        BY <3>2, <3>3, <3>4, <3>7, <4>2 DEF Turns, Asks
      <4>3. QED
        BY <4>1, <4>2
    <3>9. QED
      BY <3>1, <3>8
  <2>3. QED
    BY <2>1, <2>2
<1> HIDE DEF next
<1>5. Run(s \o t, e, next)
  BY <1>1, <1>3, <1>4 DEF Run
<1>6. QED
  BY <1>1, <1>3, <1>5 DEF n

(* Lists that ask for the same events count the same; a list that counts   *)
(* an event asks for it.                                                   *)
LEMMA ListensSame ==
    ASSUME NEW S, NEW s \in Seq(S), NEW T, NEW t \in Seq(T), NEW e
    PROVE  /\ DOMAIN s = DOMAIN t /\ (\A i \in DOMAIN s : Asks(s[i], e) <=> Asks(t[i], e))
                 => Listens(s, e) = Listens(t, e)
           /\ Listens(s, e) \in Nat
           /\ Listens(s, e) > 0 <=> \E i \in DOMAIN s : Asks(s[i], e)
<1> DEFINE Is(u) == {i \in DOMAIN u : u[i].type = "listen" /\ u[i].id = e}
<1>1. \A u : Listens(u, e) = Cardinality(Is(u))
  BY DEF Listens
<1>2. ASSUME DOMAIN s = DOMAIN t, \A i \in DOMAIN s : Asks(s[i], e) <=> Asks(t[i], e)
      PROVE  Listens(s, e) = Listens(t, e)
  <2>1. Is(s) = Is(t)
    BY <1>2 DEF Asks
  <2>2. QED
    BY <1>1, <2>1
<1>3. IsFiniteSet(Is(s)) /\ Cardinality(Is(s)) \in Nat
  <2>1. Is(s) \subseteq 1..Len(s) /\ IsFiniteSet(1..Len(s))
    BY FS_Interval
  <2>2. QED
    BY <2>1, FS_Subset, FS_CardinalityType
<1>4. Is(s) # {} <=> \E i \in DOMAIN s : Asks(s[i], e)
  BY DEF Asks
<1> HIDE DEF Is
<1>5. Cardinality(Is(s)) = 0 <=> Is(s) = {}
  BY <1>3, FS_EmptySet
<1>6. QED
  BY <1>1, <1>2, <1>3, <1>4, <1>5

(* What is executed for a connection counts there and only there.          *)
LEMMA ExecuteCounts ==
    ASSUME TypeInv, NEW k \in Pages, NEW S, NEW reqs \in Seq(S), Execute(k, reqs),
           NEW e \in Events
    PROVE  /\ subs'[k][e] = subs[k][e] + Listens(reqs, e)
           /\ \A l \in Pages \ {k} : subs'[l][e] = subs[l][e] /\ active'[l] = active[l]
           /\ (\A l \in Pages : subs[l][e] >= 1 => e \in active[l])
                 => \A l \in Pages : subs'[l][e] >= 1 => e \in active'[l]
<1>1. active \in [Pages -> SUBSET Ids] /\ subs \in [Pages -> [Events -> Nat]]
  BY DEF TypeInv, ChannelsTypeOK
<1>2. /\ active' = [active EXCEPT ![k] = active[k] \cup {reqs[i].id : i \in DOMAIN reqs}]
      /\ subs' = [subs EXCEPT ![k] = [f \in Events |-> subs[k][f] + Listens(reqs, f)]]
  BY DEF Execute
<1>3. subs'[k][e] = subs[k][e] + Listens(reqs, e)
  BY <1>1, <1>2
<1>4. \A l \in Pages \ {k} : subs'[l][e] = subs[l][e] /\ active'[l] = active[l]
  BY <1>1, <1>2
<1>5. ASSUME \A l \in Pages : subs[l][e] >= 1 => e \in active[l],
             NEW l \in Pages, subs'[l][e] >= 1
      PROVE  e \in active'[l]
  <2>1. CASE l # k
    BY <1>4, <1>5, <2>1
  <2>2. CASE l = k
    <3>1. active'[k] = active[k] \cup {reqs[i].id : i \in DOMAIN reqs}
      BY <1>1, <1>2
    <3>2. subs[k][e] \in Nat /\ Listens(reqs, e) \in Nat
      BY <1>1, ListensSame
    <3>3. subs[k][e] >= 1 \/ Listens(reqs, e) > 0
      BY <1>3, <1>5, <2>2, <3>2
    <3>4. CASE subs[k][e] >= 1
      BY <1>5, <2>2, <3>1, <3>4
    <3>5. CASE Listens(reqs, e) > 0
      <4>1. PICK i \in DOMAIN reqs : Asks(reqs[i], e)
        BY <3>5, ListensSame
      <4>2. QED
        BY <2>2, <3>1, <4>1 DEF Asks
    <3>6. QED
      BY <3>3, <3>4, <3>5
  <2>3. QED
    BY <2>1, <2>2
<1>6. QED
  BY <1>3, <1>4, <1>5

(* A queue without one of its requests.                                    *)
LEMMA QueueRemoved ==
    ASSUME NEW S, NEW s \in Seq(S), NEW i \in DOMAIN s, NEW t, t = RemoveAt(s, i)
    PROVE  \E from \in [DOMAIN t -> DOMAIN s \ {i}] :
              /\ \A j \in DOMAIN t : t[j] = s[from[j]]
              /\ \A j, l \in DOMAIN t : from[j] = from[l] => j = l
              /\ \A l \in DOMAIN s \ {i} : \E j \in DOMAIN t : from[j] = l
<1> DEFINE n == Len(s)
           from == [j \in 1..(n - 1) |-> IF j < i THEN j ELSE j + 1]
<1>1. /\ t \in Seq(S) /\ Len(t) = n - 1
      /\ \A j \in 1..(n - 1) : t[j] = IF j < i THEN s[j] ELSE s[j + 1]
  BY Removed
<1>2. DOMAIN t = 1..(n - 1) /\ DOMAIN s = 1..n /\ n \in Nat /\ i \in 1..n
  BY <1>1
<1> HIDE DEF n
<1>3. from \in [DOMAIN t -> DOMAIN s \ {i}]
  BY <1>2
<1>4. \A j \in DOMAIN t : t[j] = s[from[j]]
  BY <1>1, <1>2
<1>5. \A j, l \in DOMAIN t : from[j] = from[l] => j = l
  BY <1>2
<1>6. ASSUME NEW l \in DOMAIN s \ {i} PROVE \E j \in DOMAIN t : from[j] = l
  <2>1. CASE l < i
    <3>1. l \in 1..(n - 1) /\ from[l] = l
      BY <1>2, <2>1
    <3>2. QED
      BY <1>2, <3>1
  <2>2. CASE ~(l < i)
    <3>1. l - 1 \in 1..(n - 1) /\ from[l - 1] = l
      BY <1>2, <2>2
    <3>2. QED
      BY <1>2, <3>1
  <2>3. QED
    BY <2>1, <2>2
<1> HIDE DEF from
<1>7. QED
  BY <1>3, <1>4, <1>5, <1>6

(* What no step of the worker touches.                                     *)
LEMMA QueuedStep ==
    ASSUME TypeInv, \A e \in Events : Queued(e), [Next]_channelVars
    PROVE  \A e \in Events : Queued(e)'
<1>t. /\ waiting \in Seq(Requests) /\ event \in [Events -> {"off", "opening", "on"}]
      /\ page \in Pages
  BY DEF TypeInv, ChannelsTypeOK
<1>r. \A i \in DOMAIN waiting : waiting[i] \in Requests
  BY <1>t
<1> USE DEF clientVars, serverVars, managerVars, historyVars
<1>1. ASSUME UNCHANGED <<waiting, event>> PROVE \A e \in Events : Queued(e)'
  BY <1>1 DEF Queued
(* A request with an id that is not e, or the listen of an event that was  *)
(* off, joins those that wait.                                             *)
<1>2. ASSUME NEW x \in Requests, x.type \in {"call", "listen"}, NEW e \in Events,
             waiting' = Append(waiting, x),
             Asks(x, e) => event[e] = "off" /\ event'[e] = "opening",
             ~Asks(x, e) => event'[e] = event[e]
      PROVE  Queued(e)'
  <2> DEFINE n == Len(waiting)
  <2>1. /\ n \in Nat /\ DOMAIN waiting = 1..n /\ DOMAIN waiting' = 1..(n + 1)
        /\ \A j \in 1..(n + 1) : waiting'[j] = IF j <= n THEN waiting[j] ELSE x
    BY <1>t, <1>2
  <2> HIDE DEF n
  <2>2. Queued(e)
    OBVIOUS
  <2>3. ASSUME NEW j \in DOMAIN waiting'
        PROVE  \/ j \in DOMAIN waiting /\ waiting'[j] = waiting[j]
               \/ j = n + 1 /\ waiting'[j] = x
    BY <2>1
  <2>4. \A j \in DOMAIN waiting : j \in DOMAIN waiting' /\ waiting'[j] = waiting[j]
    BY <2>1
  <2>5. n + 1 \in DOMAIN waiting' /\ waiting'[n + 1] = x
    BY <2>1
  <2>6. \A j \in DOMAIN waiting' : waiting'[j].type \in {"call", "listen"}
    BY <1>2, <2>2, <2>3 DEF Queued
  <2>7. Asks(x, e) => \A j \in DOMAIN waiting : ~Asks(waiting[j], e)
    BY <1>2, <2>2 DEF Queued
  <2>8. ASSUME NEW j \in DOMAIN waiting', NEW l \in DOMAIN waiting',
               Asks(waiting'[j], e), Asks(waiting'[l], e)
        PROVE  j = l
    BY <2>2, <2>3, <2>7, <2>8 DEF Queued
  <2>9. (\E j \in DOMAIN waiting' : Asks(waiting'[j], e)) <=> event'[e] = "opening"
    <3>1. (\E j \in DOMAIN waiting' : Asks(waiting'[j], e))
             <=> (\E j \in DOMAIN waiting : Asks(waiting[j], e)) \/ Asks(x, e)
      BY <2>3, <2>4, <2>5
    <3>2. QED
      BY <1>2, <2>2, <3>1 DEF Queued
  <2>10. QED
    BY <2>6, <2>8, <2>9 DEF Queued
(* A request is withdrawn.                                                 *)
<1>3. ASSUME NEW id, Withdraw(id), NEW e \in Events,
             id = e => event'[e] # "opening" , id # e => event'[e] = event[e]
      PROVE  Queued(e)'
  <2>1. PICK i \in DOMAIN waiting : waiting[i].id = id /\ waiting' = RemoveAt(waiting, i)
    BY <1>3 DEF Withdraw
  <2>2. PICK from \in [DOMAIN waiting' -> DOMAIN waiting \ {i}] :
              /\ \A j \in DOMAIN waiting' : waiting'[j] = waiting[from[j]]
              /\ \A j, l \in DOMAIN waiting' : from[j] = from[l] => j = l
              /\ \A l \in DOMAIN waiting \ {i} : \E j \in DOMAIN waiting' : from[j] = l
    BY <1>t, <2>1, QueueRemoved
  <2>3. Queued(e)
    OBVIOUS
  <2>4. /\ \A j \in DOMAIN waiting' : waiting'[j].type \in {"call", "listen"}
        /\ \A j, l \in DOMAIN waiting' :
              Asks(waiting'[j], e) /\ Asks(waiting'[l], e) => j = l
    BY <2>2, <2>3 DEF Queued
  <2>5. (\E j \in DOMAIN waiting' : Asks(waiting'[j], e))
           <=> \E l \in DOMAIN waiting \ {i} : Asks(waiting[l], e)
    BY <2>2
  <2>6. CASE id = e
    <3>1. Asks(waiting[i], e)
      <4>1. waiting[i] \in Requests /\ waiting[i].type \in {"call", "listen"}
        BY <1>r, <2>3 DEF Queued
      <4>2. QED
        BY <2>1, <2>6, <4>1, ChannelsAssumption DEF Asks, Requests
    <3>2. \A l \in DOMAIN waiting \ {i} : ~Asks(waiting[l], e)
      BY <2>3, <3>1 DEF Queued
    <3>3. QED
      BY <1>3, <2>4, <2>5, <2>6, <3>2 DEF Queued
  <2>7. CASE id # e
    <3>1. ~Asks(waiting[i], e)
      BY <2>1, <2>7 DEF Asks
    <3>2. QED
      BY <1>3, <2>3, <2>4, <2>5, <2>7, <3>1 DEF Queued
  <2>8. QED
    BY <2>6, <2>7
<1>4. ASSUME NEW c \in Calls, Call(c), NEW e \in Events PROVE Queued(e)'
  <2>1. Request("call", c) \in Requests /\ Request("call", c).type = "call"
    BY ServerMessages DEF TypeInv, Request
  <2>2. event' = event /\ (waiting' = waiting \/ waiting' = Append(waiting, Request("call", c)))
    BY <1>4 DEF Call, Ask
  <2>3. ~Asks(Request("call", c), e)
    BY <2>1 DEF Asks
  <2>4. QED
    BY <1>1, <1>2, <2>1, <2>2, <2>3
<1>5. ASSUME NEW c \in Calls, Cancel(c), NEW e \in Events PROVE Queued(e)'
  <2>1. event' = event /\ (waiting' = waiting \/ Withdraw(c)) /\ c # e
    BY <1>5, ChannelsAssumption DEF Cancel
  <2>2. QED
    BY <1>1, <1>3, <2>1
<1>6. ASSUME NEW f \in Events, AddListener(f), NEW e \in Events PROVE Queued(e)'
  <2> DEFINE x == Request("listen", f)
  <2>1. x \in Requests /\ x.type = "listen" /\ x.id = f
    BY ServerMessages DEF TypeInv, Request
  <2>2. /\ event[f] = "off" /\ event' = [event EXCEPT ![f] = IF idle THEN "on" ELSE "opening"]
        /\ IF idle THEN waiting' = waiting ELSE waiting' = Append(waiting, x)
    BY <1>6 DEF AddListener, Ask
  <2> HIDE DEF x
  <2>3. CASE idle
    <3>1. waiting' = waiting /\ (event'[e] = "opening" <=> event[e] = "opening")
      BY <1>t, <2>2, <2>3
    <3>2. QED
      BY <3>1 DEF Queued
  <2>4. CASE ~idle
    <3>1. /\ Asks(x, e) => event[e] = "off" /\ event'[e] = "opening"
          /\ ~Asks(x, e) => event'[e] = event[e]
      BY <1>t, <2>1, <2>2, <2>4 DEF Asks
    <3>2. QED
      BY <1>2, <2>1, <2>2, <2>4, <3>1
  <2>5. QED
    BY <2>3, <2>4
<1>7. ASSUME NEW f \in Events, RemoveListener(f), NEW e \in Events PROVE Queued(e)'
  <2>1. /\ event' = [event EXCEPT ![f] = "off"]
        /\ Withdraw(f) \/ (event[f] = "on" /\ waiting' = waiting)
    BY <1>7 DEF RemoveListener
  <2>2. event'[f] = "off" /\ (f # e => event'[e] = event[e])
    BY <1>t, <2>1
  <2>3. CASE Withdraw(f)
    BY <1>3, <2>2, <2>3
  <2>4. CASE event[f] = "on" /\ waiting' = waiting
    <3>1. event'[e] = "opening" <=> event[e] = "opening"
      BY <2>2, <2>4
    <3>2. QED
      BY <2>4, <3>1 DEF Queued
  <2>5. QED
    BY <2>1, <2>3, <2>4
<1>8. ASSUME ReceiveInit, NEW e \in Events PROVE Queued(e)'
  <2>1. waiting' = <<>> /\ event'[e] # "opening"
    BY <1>8 DEF ReceiveInit
  <2>2. QED
    BY <2>1 DEF Queued
<1>9. ASSUME Reload, NEW e \in Events PROVE Queued(e)'
  <2>1. waiting' = <<>> /\ event'[e] # "opening"
    BY <1>9 DEF Reload
  <2>2. QED
    BY <2>1 DEF Queued
<1>10. CASE \/ ReceiveAnswer \/ ReceiveReconnect \/ ServerStep \/ RegisterChannel \/ TimerStep
            \/ Save \/ Restart \/ SendReconnect \/ UNCHANGED channelVars
            \/ \E x \in running, ok \in BOOLEAN : Finish(x, ok)
  <2>1. UNCHANGED <<waiting, event>>
    BY <1>10 DEF ReceiveAnswer, ReceiveReconnect, ServerStep, RegisterChannel, TimerStep, Save,
       Forget, Store, Restart, SendReconnect, channelVars, Finish, Flush, Timeout, ReceiveHello,
       ReceiveContext, ReceiveRequest, ReceiveDisposal, Drop
  <2>2. QED
    BY <1>1, <2>1
<1>11. QED
  BY <1>4, <1>5, <1>6, <1>7, <1>8, <1>9, <1>10 DEF Next, SystemStep, PageStep

(* Messages the page sends; a hello comes with its context.                *)
LEMMA HandSent ==
    ASSUME TypeInv, Handshaking, UNCHANGED <<greeted, current, restarts>>,
           NEW reqs \in Seq(Handshakes \cup Requests),
           \A i \in DOMAIN reqs : reqs[i].type = "hello" =>
               i + 1 \in DOMAIN reqs /\ reqs[i + 1].type = "ctx",
           toServer' = toServer \o reqs
    PROVE  Handshaking'
<1> DEFINE n == Len(toServer)
           m == Len(reqs)
<1>1. /\ n \in Nat /\ m \in Nat /\ DOMAIN toServer = 1..n /\ DOMAIN reqs = 1..m
      /\ DOMAIN toServer' = 1..(n + m)
      /\ \A i \in 1..(n + m) : toServer'[i] = IF i <= n THEN toServer[i] ELSE reqs[i - n]
      /\ toServer # <<>> => n >= 1
  <2>1. toServer \in Seq(Handshakes \cup Requests)
    BY DEF TypeInv, ChannelsTypeOK
  <2>2. QED
    BY <2>1, ConcatProperties
<1> HIDE DEF n, m
<1>2. ASSUME NEW i \in DOMAIN toServer', toServer'[i].type = "hello"
      PROVE  i + 1 \in DOMAIN toServer' /\ toServer'[i + 1].type = "ctx"
  <2>1. CASE i <= n
    <3>1. i \in DOMAIN toServer /\ toServer'[i] = toServer[i] /\ i \in Nat
      BY <1>1, <2>1
    <3>2. i + 1 \in DOMAIN toServer /\ toServer[i + 1].type = "ctx"
      BY <1>2, <3>1 DEF Handshaking
    <3>3. i + 1 \in 1..n
      BY <1>1, <3>2
    <3>4. i + 1 \in 1..(n + m) /\ i + 1 <= n
      BY <1>1, <3>1, <3>3
    <3>5. toServer'[i + 1] = toServer[i + 1]
      BY <1>1, <3>4
    <3>6. QED
      BY <1>1, <3>2, <3>4, <3>5
  <2>2. CASE ~(i <= n)
    <3>i. i \in 1..(n + m) /\ toServer'[i] = reqs[i - n]
      BY <1>1, <2>2
    <3>n. i \in Nat /\ i - n \in 1..m /\ i - n \in Nat
      BY <1>1, <2>2, <3>i
    <3>1. i - n \in DOMAIN reqs /\ toServer'[i] = reqs[i - n]
      BY <1>1, <3>i, <3>n
    <3>2. (i - n) + 1 \in DOMAIN reqs /\ reqs[(i - n) + 1].type = "ctx"
      BY <1>2, <3>1
    <3>3. (i - n) + 1 \in 1..m
      BY <1>1, <3>2
    <3>4. i + 1 \in 1..(n + m) /\ ~(i + 1 <= n) /\ (i + 1) - n = (i - n) + 1
      <4>1. n \in Nat /\ m \in Nat /\ i \in Nat /\ i > n /\ (i - n) + 1 <= m
        BY <1>1, <2>2, <3>n, <3>3
      <4>2. QED
        BY <4>1
    <3>5. toServer'[i + 1] = reqs[(i - n) + 1]
      BY <1>1, <3>4
    <3>6. QED
      BY <1>1, <3>2, <3>4, <3>5
  <2>3. QED
    BY <2>1, <2>2
<1>3. toServer # <<>> => toServer' # <<>> /\ toServer'[1] = toServer[1]
  <2>1. SUFFICES ASSUME toServer # <<>> PROVE toServer' # <<>> /\ toServer'[1] = toServer[1]
    OBVIOUS
  <2>2. 1 \in 1..(n + m) /\ 1 <= n /\ 1 \in DOMAIN toServer'
    BY <1>1, <2>1
  <2>3. QED
    BY <1>1, <2>2
<1>4. QED
  BY <1>2, <1>3 DEF Handshaking, Tracking

(* The worker takes a message.                                             *)
LEMMA HandTaken ==
    ASSUME TypeInv, Handshaking, toServer # <<>>, toServer' = Tail(toServer),
           greeted' # 0 => current' = 0 /\ toServer[1].type = "hello",
           restarts' = 0 => current' # 0 \/ greeted' # 0
    PROVE  Handshaking'
<1>1. toServer \in Seq(Handshakes \cup Requests)
  BY DEF TypeInv, ChannelsTypeOK
<1>2. /\ 1 \in DOMAIN toServer
      /\ \A i \in DOMAIN toServer' :
            i \in Nat /\ i >= 1 /\ i + 1 \in DOMAIN toServer /\ toServer'[i] = toServer[i + 1]
  BY <1>1, Rest
<1>3. \A i \in DOMAIN toServer : i \in Nat /\ i >= 1 /\ (i >= 2 => i - 1 \in DOMAIN toServer')
  BY <1>1
<1>4. ASSUME NEW i \in DOMAIN toServer', toServer'[i].type = "hello"
      PROVE  i + 1 \in DOMAIN toServer' /\ toServer'[i + 1].type = "ctx"
  <2>1. (i + 1) + 1 \in DOMAIN toServer /\ toServer[(i + 1) + 1].type = "ctx"
    BY <1>2, <1>4 DEF Handshaking
  <2>2. ((i + 1) + 1) - 1 = i + 1 /\ (i + 1) + 1 >= 2
    BY <1>2
  <2>3. i + 1 \in DOMAIN toServer'
    BY <1>3, <2>1, <2>2
  <2>4. QED
    BY <1>2, <2>1, <2>3
<1>5. ASSUME greeted' # 0 PROVE toServer' # <<>> /\ toServer'[1].type = "ctx"
  <2>1. 1 + 1 \in DOMAIN toServer /\ toServer[1 + 1].type = "ctx"
    BY <1>2, <1>5 DEF Handshaking
  <2>2. 1 \in DOMAIN toServer'
    BY <1>3, <2>1
  <2>3. QED
    BY <1>2, <2>1, <2>2
<1>6. QED
  BY <1>4, <1>5 DEF Handshaking, Tracking

LEMMA HandStep ==
    ASSUME TypeInv, Handshaking, [Next]_channelVars
    PROVE  Handshaking'
<1> DEFINE SM == Handshakes \cup Requests
<1>t. /\ toServer \in Seq(SM) /\ waiting \in Seq(Requests) /\ page \in Pages /\ restarts \in Nat
      /\ toClient \in Seq({Initialize} \cup Answers \cup Reconnects)
      /\ current \in Pages \cup {0} /\ greeted \in Pages \cup {0}
  BY DEF TypeInv, ChannelsTypeOK
<1> USE DEF clientVars, serverVars, managerVars, historyVars
<1>1. ASSUME UNCHANGED <<toServer, greeted, current, restarts>> PROVE Handshaking'
  BY <1>1 DEF Handshaking, Tracking
<1>2. ASSUME NEW x \in Requests, UNCHANGED <<greeted, current, restarts>>,
             toServer' = toServer \/ toServer' = Append(toServer, x)
                \/ toServer' = toServer \o <<x, x>>
      PROVE  Handshaking'
  <2>1. x.type # "hello"
    BY <1>2 DEF Requests
  <2>2. /\ <<x>> \in Seq(SM) /\ <<x, x>> \in Seq(SM)
        /\ \A i \in DOMAIN <<x>> : <<x>>[i].type # "hello"
        /\ \A i \in DOMAIN <<x, x>> : <<x, x>>[i].type # "hello"
    BY <1>2, <2>1
  <2>3. QED
    BY <1>1, <1>2, <2>2, Sent, HandSent
<1>3. ASSUME NEW c \in Calls, Call(c) \/ Cancel(c) PROVE Handshaking'
  <2>1. Request("call", c) \in Requests /\ Request("cancel", c) \in Requests
    BY ServerMessages DEF TypeInv
  <2>2. CASE Call(c)
    BY <1>2, <2>1, <2>2 DEF Call, Ask
  <2>3. CASE Cancel(c)
    BY <1>2, <2>1, <2>3 DEF Cancel
  <2>4. QED
    BY <1>3, <2>2, <2>3
<1>4. ASSUME NEW e \in Events, AddListener(e) \/ RemoveListener(e) PROVE Handshaking'
  <2>1. Request("listen", e) \in Requests /\ Request("dispose", e) \in Requests
    BY ServerMessages DEF TypeInv
  <2>2. CASE AddListener(e)
    BY <1>2, <2>1, <2>2 DEF AddListener, Ask
  <2>3. CASE RemoveListener(e)
    BY <1>2, <2>1, <2>3 DEF RemoveListener
  <2>4. QED
    BY <1>4, <2>2, <2>3
<1>5. CASE ReceiveInit
  <2>1. /\ UNCHANGED <<greeted, current, restarts>> /\ toServer' = toServer \o waiting
    BY <1>5 DEF ReceiveInit
  <2>2. waiting \in Seq(SM) /\ \A i \in DOMAIN waiting : waiting[i].type # "hello"
    <3>1. \A i \in DOMAIN waiting : waiting[i] \in Requests
      BY <1>t
    <3>2. QED
      BY <1>t, <3>1 DEF Requests
  <2>3. QED
    BY <2>1, <2>2, HandSent
<1>6. CASE ReceiveAnswer
  <2> DEFINE x == Request("cancel", Head(toClient).id)
  <2>1. Head(toClient).id \in Calls
    BY <1>6 DEF ReceiveAnswer, Answers
  <2>2. x \in Requests
    BY <2>1, ServerMessages DEF TypeInv
  <2>3. UNCHANGED <<greeted, current, restarts>>
        /\ (toServer' = toServer \/ toServer' = Append(toServer, x))
    BY <1>6 DEF ReceiveAnswer
  <2> HIDE DEF x
  <2>4. QED
    BY <1>2, <2>2, <2>3
<1>7. CASE ReceiveReconnect
  <2>1. ~Hears(Head(toClient))
    BY <1>t, <1>7, Rest DEF ReceiveReconnect, TypeInv, Unheard
  <2>2. QED
    BY <1>1, <1>7, <2>1 DEF ReceiveReconnect
<1>8. CASE Reload
  <2>1. page + 1 \in Pages
    BY <1>8, <1>t, ChannelsAssumption DEF Reload, Pages
  <2>2. /\ UNCHANGED <<greeted, current, restarts>> /\ toServer' = toServer \o Hello(page + 1)
    BY <1>8 DEF Reload
  <2>3. Hello(page + 1) \in Seq(SM)
    BY <2>1, ServerMessages
  <2>4. \A i \in DOMAIN Hello(page + 1) : Hello(page + 1)[i].type = "hello" =>
            i + 1 \in DOMAIN Hello(page + 1) /\ Hello(page + 1)[i + 1].type = "ctx"
    BY DEF Hello
  <2>5. QED
    BY <2>2, <2>3, <2>4, HandSent
<1>9. CASE ServerStep
  <2>1. toServer # <<>> /\ toServer' = Tail(toServer) /\ restarts' = restarts
    BY <1>9 DEF ServerStep, ReceiveHello, ReceiveContext, ReceiveRequest, ReceiveDisposal,
                Drop, Arrived
  <2>2. Head(toServer) = toServer[1] /\ 1 \in DOMAIN toServer /\ toServer[1] \in SM
    BY <1>t, <2>1
  <2>3. greeted' # 0 => current' = 0 /\ toServer[1].type = "hello"
    BY <1>9, <2>2 DEF ServerStep, ReceiveHello, ReceiveContext, ReceiveRequest,
       ReceiveDisposal, Drop, Arrived, Handshaking
  <2>4. restarts' = 0 => current' # 0 \/ greeted' # 0
    <3>1. CASE ReceiveHello
      <4>1. toServer[1] \in Handshakes
        BY <2>2, <3>1 DEF ReceiveHello, Arrived, Requests
      <4>2. greeted' \in Pages /\ 0 \notin Pages
        BY <2>2, <3>1, <4>1 DEF ReceiveHello, Handshakes, Pages
      <4>3. QED
        BY <4>2
    <3>2. CASE ReceiveContext
      BY <3>2 DEF ReceiveContext
    <3>3. CASE ReceiveRequest \/ ReceiveDisposal
      BY <3>3 DEF ReceiveRequest, ReceiveDisposal
    <3>4. CASE Drop
      BY <2>1, <2>2, <3>4 DEF Drop, Arrived, Handshaking, Tracking
    <3>5. QED
      BY <1>9, <3>1, <3>2, <3>3, <3>4 DEF ServerStep
  <2>5. QED
    BY <2>1, <2>3, <2>4, HandTaken
<1>10. CASE Restart
  <2>1. greeted' = 0 /\ restarts' # 0 /\ toServer' = toServer
    BY <1>10, <1>t DEF Restart, ServerStart
  <2>2. QED
    BY <2>1 DEF Handshaking
<1>11. CASE \/ RegisterChannel \/ TimerStep \/ Save \/ SendReconnect \/ UNCHANGED channelVars
            \/ \E x \in running, ok \in BOOLEAN : Finish(x, ok)
  <2>1. UNCHANGED <<toServer, greeted, current, restarts>>
    BY <1>11 DEF RegisterChannel, TimerStep, Save, Forget, Store, SendReconnect,
       channelVars, Finish, Flush, Timeout
  <2>2. QED
    BY <1>1, <2>1
<1>12. QED
  BY <1>3, <1>4, <1>5, <1>6, <1>7, <1>8, <1>9, <1>10, <1>11
  DEF Next, SystemStep, PageStep

(* A step of the page keeps Matched when the messages it sends take what   *)
(* it wanted to what it wants.                                             *)
LEMMA MatchedSent ==
    ASSUME NEW e, Matched(e), UNCHANGED serverVars,
           \A level : Run(toServer, e, level) /\ level[Len(toServer)] = Wanted(e) =>
              \E next : /\ Run(toServer', e, next) /\ next[0] = level[0]
                        /\ next[Len(toServer')] = Wanted(e)'
    PROVE  Matched(e)'
<1>1. PICK level : Levels(e, level)
  BY DEF Matched
<1>2. PICK next : /\ Run(toServer', e, next) /\ next[0] = level[0]
                  /\ next[Len(toServer')] = Wanted(e)'
  BY <1>1 DEF Levels
<1>3. (Tracking' <=> Tracking) /\ Kept(e)' = Kept(e) /\ Apart(e)'
  BY DEF serverVars, Tracking, Kept, Apart, Matched
<1>4. Levels(e, next)'
  BY <1>1, <1>2, <1>3 DEF Levels
<1>5. next \in [0..Len(toServer') -> {0, 1}]
  BY <1>2 DEF Run
<1>6. QED
  BY <1>3, <1>4, <1>5 DEF Matched

(* A step of the worker that takes a message does what the message says.   *)
LEMMA MatchedTaken ==
    ASSUME TypeInv, NEW e, Matched(e), toServer # <<>>, toServer' = Tail(toServer),
           event' = event, Apart(e)',
           \A n, next \in {0, 1} :
              Turns(toServer[1], e, n, next) /\ (Tracking => n = Kept(e)) /\ Tracking'
                 => next = Kept(e)'
    PROVE  Matched(e)'
<1>1. toServer \in Seq(Handshakes \cup Requests)
  BY DEF TypeInv, ChannelsTypeOK
<1>2. PICK level : Levels(e, level)
  BY DEF Matched
<1>3. /\ Turns(toServer[1], e, level[0], level[1]) /\ level[0] \in {0, 1} /\ level[1] \in {0, 1}
      /\ \E next : /\ Run(Tail(toServer), e, next) /\ next[0] = level[1]
                   /\ next[Len(Tail(toServer))] = level[Len(toServer)]
  BY <1>1, <1>2, RunTaken DEF Levels
<1>4. PICK next : /\ Run(toServer', e, next) /\ next[0] = level[1]
                  /\ next[Len(toServer')] = level[Len(toServer)]
  BY <1>3
<1>5. Tracking' => level[1] = Kept(e)'
  BY <1>2, <1>3 DEF Levels
<1>6. Wanted(e)' = Wanted(e)
  BY DEF Wanted
<1>7. Levels(e, next)'
  BY <1>2, <1>4, <1>5, <1>6 DEF Levels
<1>8. next \in [0..Len(toServer') -> {0, 1}]
  BY <1>4 DEF Run
<1>9. QED
  BY <1>7, <1>8 DEF Matched

(* Any other step of the worker keeps what the open connection has.        *)
LEMMA MatchedKept ==
    ASSUME NEW e, Matched(e), UNCHANGED <<toServer, event>>, Apart(e)',
           Tracking' => Tracking /\ Kept(e)' = Kept(e)
    PROVE  Matched(e)'
<1>1. PICK level \in [0..Len(toServer) -> {0, 1}] : Levels(e, level)
  BY DEF Matched
<1>2. Levels(e, level)'
  BY <1>1 DEF Levels, Wanted
<1>3. QED
  BY <1>1, <1>2 DEF Matched

(* What is known of a matched event.                                       *)
LEMMA MatchedFacts ==
    ASSUME TypeInv, Handshaking, NEW e \in Events, Matched(e)
    PROVE  /\ Tracking => Kept(e) \in {0, 1}
           /\ \A k \in Pages : subs[k][e] \in Nat /\ Listens(pending[k], e) \in Nat
           /\ \A k \in Pages : subs[k][e] >= 1 <=> e \in active[k]
           /\ \A k \in Pages \ {current} : subs[k][e] = 0 /\ Listens(pending[k], e) = 0
           /\ current # 0 =>
                 /\ current \in Pages /\ Tracking /\ greeted = 0
                 /\ Kept(e) = subs[current][e] + Listens(pending[current], e)
<1>1. /\ subs \in [Pages -> [Events -> Nat]] /\ pending \in [Pages -> Seq(Pendings)]
      /\ current \in Pages \cup {0} /\ Subscribed
  BY DEF TypeInv, ChannelsTypeOK
<1>2. PICK level \in [0..Len(toServer) -> {0, 1}] : Levels(e, level)
  BY DEF Matched
<1>3. 0 \in 0..Len(toServer)
  <2>1. Len(toServer) \in Nat
    BY DEF TypeInv, ChannelsTypeOK
  <2>2. QED
    BY <2>1
<1>4. Tracking => Kept(e) \in {0, 1}
  BY <1>2, <1>3 DEF Levels
<1>5. \A k \in Pages : subs[k][e] \in Nat /\ Listens(pending[k], e) \in Nat
  BY <1>1, ListensSame
<1>6. \A k \in Pages : subs[k][e] >= 1 <=> e \in active[k]
  BY <1>1 DEF Matched, Apart, Subscribed
<1>7. QED
  BY <1>1, <1>4, <1>5, <1>6 DEF Matched, Apart, Tracking, Kept, Handshaking

(* Every step of the page keeps Matched.                                   *)
LEMMA MatchedPage ==
    ASSUME TypeInv, Handshaking, NEW e \in Events, Queued(e), Matched(e)
    PROVE  /\ \A c \in Calls : Call(c) \/ Cancel(c) => Matched(e)'
           /\ \A f \in Events : AddListener(f) \/ RemoveListener(f) => Matched(e)'
           /\ PageStep \/ Reload => Matched(e)'
<1> DEFINE SM == Handshakes \cup Requests
<1>t. /\ toServer \in Seq(SM) /\ waiting \in Seq(Requests) /\ page \in Pages
      /\ toClient \in Seq({Initialize} \cup Answers \cup Reconnects)
      /\ event \in [Events -> {"off", "opening", "on"}]
  BY DEF TypeInv, ChannelsTypeOK
<1>s. Wanted(e) \in {0, 1} /\ Requests \subseteq SM
  BY DEF Wanted
<1> USE DEF clientVars, managerVars, historyVars
<1>1. ASSUME UNCHANGED <<serverVars, toServer>>, Wanted(e)' = Wanted(e) PROVE Matched(e)'
  BY <1>1, MatchedSent
(* One message.                                                            *)
<1>2. ASSUME UNCHANGED serverVars, NEW x \in SM, toServer' = Append(toServer, x),
             Turns(x, e, Wanted(e), Wanted(e)'), Wanted(e)' \in {0, 1}
      PROVE  Matched(e)'
  <2>1. ASSUME NEW level, Run(toServer, e, level), level[Len(toServer)] = Wanted(e)
        PROVE  \E next : /\ Run(toServer', e, next) /\ next[0] = level[0]
                         /\ next[Len(toServer')] = Wanted(e)'
    <3>1. Turns(x, e, level[Len(toServer)], Wanted(e)')
      BY <1>2, <2>1
    <3> HIDE DEF SM
    <3>2. QED
      BY <1>2, <1>t, <2>1, <3>1, RunAdded
  <2>2. QED
    BY <1>2, <2>1, MatchedSent
(* Two messages that lead by way of mid.                                   *)
<1>3. ASSUME UNCHANGED serverVars, NEW x \in SM, NEW y \in SM, toServer' = toServer \o <<x, y>>,
             NEW mid \in {0, 1}, Turns(x, e, Wanted(e), mid), Turns(y, e, mid, Wanted(e)'),
             Wanted(e)' \in {0, 1}
      PROVE  Matched(e)'
  <2>1. ASSUME NEW level, Run(toServer, e, level), level[Len(toServer)] = Wanted(e)
        PROVE  \E next : /\ Run(toServer', e, next) /\ next[0] = level[0]
                         /\ next[Len(toServer')] = Wanted(e)'
    <3> DEFINE s == Append(toServer, x)
    <3>1. toServer' = Append(s, y) /\ s \in Seq(SM)
      BY <1>t, <1>3
    <3> HIDE DEF SM
    <3>2. toServer \in Seq(SM) /\ x \in SM /\ y \in SM /\ mid \in {0, 1} /\ Wanted(e)' \in {0, 1}
      BY <1>t, <1>3
    <3>3. Run(toServer, e, level) /\ Turns(x, e, level[Len(toServer)], mid)
      BY <1>3, <2>1
    <3>4. PICK first : Run(s, e, first) /\ first[0] = level[0] /\ first[Len(s)] = mid
      BY <3>2, <3>3, RunAdded
    <3> HIDE DEF s
    <3>5. Turns(y, e, first[Len(s)], Wanted(e)')
      BY <1>3, <3>4
    <3>6. \E next : /\ Run(Append(s, y), e, next) /\ next[0] = first[0]
                    /\ next[Len(Append(s, y))] = Wanted(e)'
      BY <3>1, <3>2, <3>4, <3>5, RunAdded
    <3>7. QED
      BY <3>1, <3>4, <3>6
  <2>2. QED
    BY <1>3, <2>1, MatchedSent
<1>4. ASSUME NEW c \in Calls, NEW t \in {"call", "cancel"}
      PROVE  /\ Request(t, c) \in SM
             /\ \A n : Turns(Request(t, c), e, n, n)
  <2>1. Request(t, c) \in Requests
    BY ServerMessages DEF TypeInv
  <2>2. QED
    BY <1>4, <2>1 DEF Request, Turns
<1>5. ASSUME NEW c \in Calls, Call(c) PROVE Matched(e)'
  <2>1. /\ UNCHANGED serverVars /\ event' = event
        /\ toServer' = toServer \/ toServer' = Append(toServer, Request("call", c))
    BY <1>5 DEF Call, Ask
  <2>2. Wanted(e)' = Wanted(e)
    BY <2>1 DEF Wanted
  <2>3. QED
    BY <1>1, <1>2, <1>4, <1>s, <2>1, <2>2
<1>6. ASSUME NEW c \in Calls, Cancel(c) PROVE Matched(e)'
  <2> DEFINE x == Request("cancel", c)
  <2>1. /\ UNCHANGED serverVars /\ event' = event
        /\ toServer' = Append(toServer, x) \/ toServer' = toServer \o <<x, x>>
    BY <1>6 DEF Cancel
  <2>2. Wanted(e)' = Wanted(e)
    BY <2>1 DEF Wanted
  <2>3. x \in SM /\ Turns(x, e, Wanted(e), Wanted(e)')
    BY <1>4, <2>2
  <2>4. CASE toServer' = Append(toServer, x)
    BY <1>2, <1>s, <2>1, <2>2, <2>3, <2>4
  <2>5. CASE toServer' = toServer \o <<x, x>>
    BY <1>3, <1>s, <2>1, <2>2, <2>3, <2>5
  <2>6. QED
    BY <2>1, <2>4, <2>5
<1>7. ASSUME NEW f \in Events, AddListener(f) PROVE Matched(e)'
  <2> DEFINE x == Request("listen", f)
  <2>1. /\ UNCHANGED serverVars /\ event[f] = "off"
        /\ event' = [event EXCEPT ![f] = IF idle THEN "on" ELSE "opening"]
        /\ IF idle THEN toServer' = Append(toServer, x) ELSE toServer' = toServer
    BY <1>7 DEF AddListener, Ask
  <2>2. x \in SM /\ x.type = "listen" /\ x.id = f
    BY ServerMessages DEF TypeInv, Request
  <2> HIDE DEF x
  <2>3. CASE idle
    <3>1. /\ f = e => Wanted(e) = 0 /\ Wanted(e)' = 1
          /\ f # e => Wanted(e)' = Wanted(e)
      BY <1>t, <2>1, <2>3 DEF Wanted
    <3>2. Turns(x, e, Wanted(e), Wanted(e)') /\ Wanted(e)' \in {0, 1}
      BY <1>s, <2>2, <3>1 DEF Turns
    <3>3. QED
      BY <1>2, <2>1, <2>2, <2>3, <3>2
  <2>4. CASE ~idle
    <3>1. Wanted(e)' = Wanted(e)
      BY <1>t, <2>1, <2>4 DEF Wanted
    <3>2. QED
      BY <1>1, <2>1, <2>4, <3>1
  <2>5. QED
    BY <2>3, <2>4
<1>8. ASSUME NEW f \in Events, RemoveListener(f) PROVE Matched(e)'
  <2> DEFINE x == Request("dispose", f)
  <2>1. /\ UNCHANGED serverVars /\ event' = [event EXCEPT ![f] = "off"]
        /\ \/ event[f] = "opening" /\ toServer' = toServer
           \/ event[f] = "on" /\ toServer' = Append(toServer, x)
    BY <1>8 DEF RemoveListener
  <2>2. x \in SM /\ x.type = "dispose" /\ x.id = f
    BY ServerMessages DEF TypeInv, Request
  <2> HIDE DEF x
  <2>3. CASE event[f] = "opening" /\ toServer' = toServer
    <3>1. Wanted(e)' = Wanted(e)
      BY <1>t, <2>1, <2>3 DEF Wanted
    <3>2. QED
      BY <1>1, <2>1, <2>3, <3>1
  <2>4. CASE event[f] = "on" /\ toServer' = Append(toServer, x)
    <3>1. /\ f = e => Wanted(e) = 1 /\ Wanted(e)' = 0
          /\ f # e => Wanted(e)' = Wanted(e)
      BY <1>t, <2>1, <2>4 DEF Wanted
    <3>2. Turns(x, e, Wanted(e), Wanted(e)') /\ Wanted(e)' \in {0, 1}
      BY <1>s, <2>2, <3>1 DEF Turns
    <3>3. QED
      BY <1>2, <2>1, <2>2, <2>4, <3>2
  <2>5. QED
    BY <2>1, <2>3, <2>4
<1>9. CASE ReceiveInit
  <2>1. /\ UNCHANGED serverVars /\ toServer' = toServer \o waiting
        /\ event' = [f \in Events |-> IF event[f] = "opening" THEN "on" ELSE event[f]]
    BY <1>9 DEF ReceiveInit
  <2>2. Wanted(e)' = IF \E i \in DOMAIN waiting : Asks(waiting[i], e) THEN 1 ELSE Wanted(e)
    BY <1>t, <2>1 DEF Wanted, Queued
  <2>3. (\E i \in DOMAIN waiting : Asks(waiting[i], e)) => Wanted(e) = 0
    BY DEF Wanted, Queued
  <2>4. ASSUME NEW level, Run(toServer, e, level), level[Len(toServer)] = Wanted(e)
        PROVE  \E next : /\ Run(toServer', e, next) /\ next[0] = level[0]
                         /\ next[Len(toServer')] = Wanted(e)'
    <3>1. waiting \in Seq(SM)
      BY <1>t
    <3>2. /\ \A i \in DOMAIN waiting : waiting[i].type \in {"call", "listen"}
          /\ \A i, j \in DOMAIN waiting : Asks(waiting[i], e) /\ Asks(waiting[j], e) => i = j
          /\ (\E i \in DOMAIN waiting : Asks(waiting[i], e)) => level[Len(toServer)] = 0
      BY <2>3, <2>4 DEF Queued
    <3> HIDE DEF SM
    <3>3. \E next : /\ Run(toServer \o waiting, e, next) /\ next[0] = level[0]
                    /\ next[Len(toServer \o waiting)] =
                         IF \E i \in DOMAIN waiting : Asks(waiting[i], e) THEN 1
                         ELSE level[Len(toServer)]
      BY <1>t, <2>4, <3>1, <3>2, RunJoined
    <3>4. QED
      BY <2>1, <2>2, <2>4, <3>3
  <2>5. QED
    BY <2>1, <2>4, MatchedSent
<1>10. CASE ReceiveAnswer
  <2> DEFINE x == Request("cancel", Head(toClient).id)
  <2>1. Head(toClient).id \in Calls
    BY <1>10 DEF ReceiveAnswer, Answers
  <2>2. /\ UNCHANGED serverVars /\ event' = event
        /\ toServer' = toServer \/ toServer' = Append(toServer, x)
    BY <1>10 DEF ReceiveAnswer
  <2>3. Wanted(e)' = Wanted(e)
    BY <2>2 DEF Wanted
  <2>4. x \in SM /\ Turns(x, e, Wanted(e), Wanted(e)')
    BY <1>4, <2>1, <2>3
  <2> HIDE DEF x
  <2>5. QED
    BY <1>1, <1>2, <1>s, <2>2, <2>3, <2>4
<1>11. CASE ReceiveReconnect
  <2>1. ~Hears(Head(toClient))
    BY <1>t, <1>11, Rest DEF ReceiveReconnect, TypeInv, Unheard
  <2>2. UNCHANGED <<serverVars, toServer, event>>
    BY <1>11, <2>1 DEF ReceiveReconnect
  <2>3. QED
    BY <1>1, <2>2 DEF Wanted
<1>12. CASE Reload
  <2> DEFINE x == [type |-> "hello", page |-> page + 1]
             y == [type |-> "ctx", page |-> page + 1]
  <2>1. page + 1 \in Pages
    BY <1>12, <1>t, ChannelsAssumption DEF Reload, Pages
  <2>2. /\ UNCHANGED serverVars /\ toServer' = toServer \o <<x, y>> /\ Wanted(e)' = 0
    BY <1>12 DEF Reload, Hello, Wanted
  <2>3. x \in SM /\ y \in SM
    BY <2>1 DEF Handshakes
  <2>4. Turns(x, e, Wanted(e), 0) /\ Turns(y, e, 0, Wanted(e)')
    BY <2>2 DEF Turns
  <2> HIDE DEF x, y
  <2>5. QED
    BY <1>3, <2>2, <2>3, <2>4
<1>13. QED
  BY <1>5, <1>6, <1>7, <1>8, <1>9, <1>10, <1>11, <1>12 DEF PageStep

(* Every message the worker takes keeps Matched, unless the event is lost. *)
LEMMA MatchedServer ==
    ASSUME TypeInv, Handshaking, NEW e \in Events, Matched(e), e \notin lost', ServerStep
    PROVE  Matched(e)'
<1> DEFINE h == toServer[1]
<1>t. /\ toServer \in Seq(Handshakes \cup Requests)
      /\ active \in [Pages -> SUBSET Ids] /\ subs \in [Pages -> [Events -> Nat]]
      /\ pending \in [Pages -> Seq(Pendings)]
      /\ current \in Pages \cup {0} /\ greeted \in Pages \cup {0}
  BY DEF TypeInv, ChannelsTypeOK
<1>h. /\ toServer # <<>> /\ toServer' = Tail(toServer) /\ Head(toServer) = h
      /\ h \in Handshakes \cup Requests /\ event' = event
  <2>1. toServer # <<>> /\ toServer' = Tail(toServer) /\ event' = event
    BY DEF ServerStep, ReceiveHello, ReceiveContext, ReceiveRequest, ReceiveDisposal, Drop,
           Arrived, clientVars
  <2>2. QED
    BY <1>t, <2>1
<1>f. /\ Tracking => Kept(e) \in {0, 1}
      /\ \A k \in Pages : subs[k][e] \in Nat /\ Listens(pending[k], e) \in Nat
      /\ \A k \in Pages : subs[k][e] >= 1 <=> e \in active[k]
      /\ \A k \in Pages \ {current} : subs[k][e] = 0 /\ Listens(pending[k], e) = 0
      /\ current # 0 =>
            /\ current \in Pages /\ Tracking /\ greeted = 0
            /\ Kept(e) = subs[current][e] + Listens(pending[current], e)
  BY MatchedFacts
<1>p. 0 \notin Pages
  BY DEF Pages
<1> HIDE DEF h
<1>1. CASE ReceiveHello
  <2>1. current' = 0 /\ h.type = "hello"
    BY <1>1, <1>h DEF ReceiveHello, Arrived
  <2>2. \A k \in Pages : subs'[k][e] = 0 /\ Listens(pending'[k], e) = 0
    <3>1. CASE current = 0
      <4>1. subs' = subs /\ pending' = pending
        BY <1>1, <3>1 DEF ReceiveHello
      <4>2. QED
        BY <1>f, <1>p, <3>1, <4>1
    <3>2. CASE current # 0
      <4>1. /\ pending' = pending /\ e \notin lost \cup {f \in Events : Listens(pending[current], f) > 0}
            /\ subs' = [subs EXCEPT ![current] =
                          [f \in Events |-> subs[current][f] -
                              IF f \in active[current] THEN 1 ELSE 0]]
        BY <1>1, <3>2 DEF ReceiveHello, Disposed
      <4>2. ~(Listens(pending[current], e) > 0) /\ Listens(pending[current], e) \in Nat
        BY <1>f, <3>2, <4>1
      <4>3. Listens(pending[current], e) = 0
        BY <4>2
      <4>4. subs[current][e] \in {0, 1} /\ (subs[current][e] = 1 <=> e \in active[current])
        <5>1. subs[current][e] \in Nat /\ subs[current][e] + 0 \in {0, 1}
          BY <1>f, <3>2, <4>3
        <5>2. subs[current][e] >= 1 <=> e \in active[current]
          BY <1>f, <3>2
        <5>3. QED
          BY <5>1, <5>2
      <4>5. subs'[current][e] = subs[current][e] - IF e \in active[current] THEN 1 ELSE 0
        BY <1>f, <1>t, <3>2, <4>1
      <4>6. subs'[current][e] = 0
        BY <4>4, <4>5
      <4>7. \A k \in Pages \ {current} : subs'[k][e] = subs[k][e]
        BY <1>f, <1>t, <3>2, <4>1
      <4>8. QED
        BY <1>f, <4>1, <4>3, <4>6, <4>7
    <3>3. QED
      BY <3>1, <3>2
  <2>3. Apart(e)'
    BY <2>1, <2>2 DEF Apart
  <2>4. Kept(e)' = 0
    BY <2>1 DEF Kept
  <2>5. \A n, next : Turns(h, e, n, next) => next = 0
    BY <2>1 DEF Turns
  <2>6. QED
    BY <1>h, <2>3, <2>4, <2>5, MatchedTaken DEF h
<1>2. CASE ReceiveContext
  <2>1. /\ h.type = "ctx" /\ greeted # 0 /\ current' = greeted
        /\ UNCHANGED <<subs, pending, active, registered, flushDue>>
    BY <1>2, <1>h DEF ReceiveContext, Arrived
  <2>2. current = 0 /\ greeted \in Pages /\ Tracking
    BY <1>t, <2>1 DEF Handshaking, Tracking
  <2>3. \A k \in Pages : subs'[k][e] = 0 /\ Listens(pending'[k], e) = 0
    BY <1>f, <1>p, <2>1, <2>2
  <2>4. Apart(e)' /\ Kept(e)' = 0
    BY <2>1, <2>2, <2>3 DEF Apart, Kept
  <2>5. Kept(e) = 0 /\ \A n, next : Turns(h, e, n, next) => next = n
    BY <2>1, <2>2 DEF Turns, Kept
  <2>6. QED
    BY <1>h, <2>2, <2>4, <2>5, MatchedTaken DEF h
<1>3. CASE ReceiveRequest
  <2>1. /\ current # 0 /\ current' = current /\ h.type \in {"call", "listen"}
        /\ UNCHANGED <<registered, flushDue, greeted>>
    BY <1>3, <1>h DEF ReceiveRequest, Arrived
  <2>2. current \in Pages /\ Tracking
    BY <1>f, <2>1
  <2>3. \A n, next : Turns(h, e, n, next) =>
           next = (IF Asks(h, e) THEN 1 ELSE n) /\ (Asks(h, e) => n = 0)
    BY <2>1 DEF Turns, Asks
  <2> DEFINE more == IF Asks(h, e) THEN 1 ELSE 0
  <2>4. Apart(e)' /\ Kept(e)' = Kept(e) + more
    <3>1. CASE registered
      <4>1. Execute(current, <<h>>) /\ pending' = pending
        BY <1>3, <1>h, <3>1 DEF ReceiveRequest, Waits
      <4>2. <<h>> \in Seq(Handshakes \cup Requests) /\ Listens(<<h>>, e) = more
        <5>1. \A m \in Handshakes \cup Requests :
                 Listens(<<m>>, e) = IF Asks(m, e) THEN 1 ELSE 0
          BY ListensCount
        <5>2. Listens(<<h>>, e) = more
          BY <1>h, <5>1
        <5>3. <<h>> \in Seq(Handshakes \cup Requests)
          BY <1>h
        <5>4. QED
          BY <5>2, <5>3
      <4>3. /\ subs'[current][e] = subs[current][e] + more
            /\ \A l \in Pages \ {current} : subs'[l][e] = subs[l][e]
            /\ (\A l \in Pages : subs[l][e] >= 1 => e \in active[l])
                 => \A l \in Pages : subs'[l][e] >= 1 => e \in active'[l]
        <5> DEFINE reqs == <<h>>
        <5>1. reqs \in Seq(Handshakes \cup Requests) /\ Listens(reqs, e) = more
              /\ Execute(current, reqs)
          BY <4>1, <4>2
        <5> HIDE DEF reqs, more
        <5>2. /\ subs'[current][e] = subs[current][e] + Listens(reqs, e)
              /\ \A l \in Pages \ {current} : subs'[l][e] = subs[l][e]
              /\ (\A l \in Pages : subs[l][e] >= 1 => e \in active[l])
                   => \A l \in Pages : subs'[l][e] >= 1 => e \in active'[l]
          BY <2>2, <5>1, ExecuteCounts
        <5>3. QED
          BY <5>1, <5>2
      <4>4. Apart(e)'
        BY <2>1, <4>1, <4>3 DEF Apart, Matched
      <4>5. Kept(e)' = subs'[current][e] + Listens(pending[current], e)
        BY <2>1, <4>1 DEF Kept
      <4>6. subs[current][e] \in Nat /\ Listens(pending[current], e) \in Nat /\ more \in Nat
        BY <1>f, <2>2
      <4> HIDE DEF more
      <4>7. QED
        BY <1>f, <2>1, <4>3, <4>4, <4>5, <4>6
    <3>2. CASE ~registered
      <4> DEFINE x == [type |-> h.type, id |-> h.id, page |-> h.page, timer |-> TRUE]
      <4>1. /\ subs' = subs /\ active' = active
            /\ pending' = [pending EXCEPT ![current] = Append(pending[current], x)]
        BY <1>3, <1>h, <3>2 DEF ReceiveRequest, Waits, Collected
      <4>2. x \in Pendings
        BY <1>h, <2>1 DEF Handshakes, Requests, Pendings
      <4>3. Asks(x, e) <=> Asks(h, e)
        BY DEF Asks
      <4> HIDE DEF x
      <4>4. /\ pending'[current] = Append(pending[current], x)
            /\ \A k \in Pages \ {current} : pending'[k] = pending[k]
        BY <1>t, <2>2, <4>1
      <4>5. Listens(pending'[current], e) = Listens(pending[current], e) + more
        <5>1. \A s \in Seq(Pendings), m \in Pendings :
                 Listens(Append(s, m), e) = Listens(s, e) + IF Asks(m, e) THEN 1 ELSE 0
          BY ListensCount
        <5>2. pending[current] \in Seq(Pendings)
          BY <1>t, <2>2
        <5>3. Listens(Append(pending[current], x), e)
                 = Listens(pending[current], e) + IF Asks(x, e) THEN 1 ELSE 0
          BY <4>2, <5>1, <5>2
        <5>4. QED
          BY <4>3, <4>4, <5>3
      <4>6. Apart(e)'
        BY <2>1, <3>2, <4>1, <4>4 DEF Apart, Matched
      <4>7. Kept(e)' = subs[current][e] + Listens(pending'[current], e)
        BY <2>1, <4>1 DEF Kept
      <4>8. subs[current][e] \in Nat /\ Listens(pending[current], e) \in Nat /\ more \in Nat
        BY <1>f, <2>2
      <4> HIDE DEF more
      <4>9. QED
        BY <1>f, <2>1, <4>5, <4>6, <4>7, <4>8
    <3>3. QED
      BY <3>1, <3>2
  <2>5. \A n, next \in {0, 1} : Turns(h, e, n, next) /\ n = Kept(e) => next = Kept(e)'
    BY <2>3, <2>4
  <2>6. QED
    BY <1>h, <2>2, <2>4, <2>5, MatchedTaken DEF h
<1>4. CASE ReceiveDisposal
  <2>1. /\ current # 0 /\ current' = current /\ h.type \in {"cancel", "dispose"}
        /\ UNCHANGED <<registered, flushDue, greeted, pending>>
        /\ active' = [active EXCEPT ![current] = active[current] \ {h.id}]
        /\ IF h.id \in active[current] \cap Events
           THEN subs' = [subs EXCEPT ![current][h.id] = subs[current][h.id] - 1]
           ELSE subs' = subs
        /\ h.id \in Events /\ Listens(pending[current], h.id) > 0 => h.id \in lost'
    BY <1>4, <1>h DEF ReceiveDisposal, Arrived, SubscribedTo
  <2>2. current \in Pages /\ Tracking
    BY <1>f, <2>1
  <2>3. h \in Requests /\ (h.id = e <=> h.type = "dispose" /\ h.id = e)
    BY <1>h, <2>1, ChannelsAssumption DEF Handshakes, Requests
  <2>4. CASE h.id = e
    <3>1. \A n, next : Turns(h, e, n, next) => n = 1 /\ next = 0
      BY <2>3, <2>4 DEF Turns
    <3>2. Listens(pending[current], e) = 0
      <4>1. ~(Listens(pending[current], e) > 0) /\ Listens(pending[current], e) \in Nat
        BY <1>f, <2>1, <2>2, <2>4
      <4>2. QED
        BY <4>1
    <3>3. Apart(e)' /\ (Kept(e) = 1 => Kept(e)' = 0)
      <4>1. Kept(e) = subs[current][e] /\ subs[current][e] \in {0, 1}
        BY <1>f, <2>1, <2>2, <3>2
      <4>2. subs[current][e] = 1 <=> e \in active[current]
        BY <1>f, <2>2, <4>1
      <4>3. subs'[current][e] = 0 /\ \A k \in Pages \ {current} : subs'[k][e] = subs[k][e]
        <5>1. CASE e \in active[current]
          <6>1. subs' = [subs EXCEPT ![current] = [subs[current] EXCEPT ![e] = subs[current][e] - 1]]
            BY <1>t, <2>1, <2>2, <2>4, <5>1
          <6>2. QED
            BY <1>t, <2>2, <4>2, <5>1, <6>1
        <5>2. CASE e \notin active[current]
          BY <2>1, <2>4, <4>1, <4>2, <5>2
        <5>3. QED
          BY <5>1, <5>2
      <4>4. Kept(e)' = 0
        BY <2>1, <3>2, <4>3 DEF Kept
      <4>5. Apart(e)'
        BY <1>f, <2>1, <3>2, <4>3 DEF Apart
      <4>6. QED
        BY <4>4, <4>5
    <3>4. QED
      BY <1>h, <2>2, <3>1, <3>3, MatchedTaken DEF h
  <2>5. CASE h.id # e
    <3>1. \A n, next : Turns(h, e, n, next) => next = n
      BY <2>1, <2>5 DEF Turns
    <3>2. \A k \in Pages : subs'[k][e] = subs[k][e] /\ (e \in active'[k] <=> e \in active[k])
      BY <1>t, <2>1, <2>2, <2>5
    <3>3. Apart(e)'
      BY <2>1, <3>2 DEF Apart, Matched
    <3>4. Kept(e)' = Kept(e)
      BY <2>1, <2>2, <3>2 DEF Kept
    <3>5. QED
      BY <1>h, <2>2, <3>1, <3>3, <3>4, MatchedTaken DEF h
  <2>6. QED
    BY <2>4, <2>5
<1>5. CASE Drop
  <2>1. UNCHANGED serverVars
    BY <1>5 DEF Drop
  <2>2. Apart(e)' /\ Kept(e)' = Kept(e) /\ (Tracking' <=> Tracking)
    BY <2>1 DEF serverVars, Apart, Kept, Tracking, Matched
  <2>3. Tracking => h.type = "ctx"
    BY <1>5, <1>h DEF Drop, Arrived, Tracking, Handshaking, h
  <2>4. Tracking => \A n, next : Turns(h, e, n, next) => next = n
    BY <2>3 DEF Turns
  <2>5. QED
    BY <1>h, <2>2, <2>4, MatchedTaken DEF h
<1>6. QED
  BY <1>1, <1>2, <1>3, <1>4, <1>5 DEF ServerStep

(* So does every other step.                                               *)
LEMMA MatchedOther ==
    ASSUME TypeInv, Handshaking, NEW e \in Events, Matched(e)
    PROVE  /\ RegisterChannel \/ Save \/ Restart \/ SendReconnect => Matched(e)'
           /\ UNCHANGED channelVars => Matched(e)'
           /\ \A k \in Pages : Flush(k) => Matched(e)'
           /\ \A k \in Pages : \A i \in DOMAIN pending[k] : Timeout(k, i) => Matched(e)'
           /\ \A x \in running, ok \in BOOLEAN : Finish(x, ok) => Matched(e)'
<1>t. /\ active \in [Pages -> SUBSET Ids] /\ subs \in [Pages -> [Events -> Nat]]
      /\ pending \in [Pages -> Seq(Pendings)]
      /\ running \subseteq [conn : Pages, id : Calls, page : Pages]
      /\ current \in Pages \cup {0}
  BY DEF TypeInv, ChannelsTypeOK
<1>f. /\ \A k \in Pages : subs[k][e] \in Nat /\ Listens(pending[k], e) \in Nat
      /\ \A k \in Pages : subs[k][e] >= 1 <=> e \in active[k]
      /\ \A k \in Pages \ {current} : subs[k][e] = 0 /\ Listens(pending[k], e) = 0
  BY MatchedFacts
<1> USE DEF clientVars, managerVars, historyVars
<1>1. CASE RegisterChannel
  <2>1. /\ UNCHANGED <<toServer, event, current, greeted, subs, pending, active>>
        /\ current # 0 => current \in flushDue'
    BY <1>1 DEF RegisterChannel
  <2>2. Apart(e)' /\ (Tracking' <=> Tracking) /\ Kept(e)' = Kept(e)
    BY <2>1 DEF Apart, Tracking, Kept, Matched
  <2>3. QED
    BY <2>1, <2>2, MatchedKept
<1>2. CASE Save \/ SendReconnect \/ UNCHANGED channelVars
  <2>1. UNCHANGED <<serverVars, toServer, event>>
    BY <1>2 DEF Save, Forget, Store, SendReconnect, channelVars
  <2>2. Apart(e)' /\ (Tracking' <=> Tracking) /\ Kept(e)' = Kept(e)
    BY <2>1 DEF Apart, Tracking, Kept, Matched, serverVars
  <2>3. QED
    BY <2>1, <2>2, MatchedKept
<1>3. CASE Restart
  <2>1. /\ UNCHANGED <<toServer, event>> /\ current' = 0 /\ greeted' = 0
        /\ \A k \in Pages : subs'[k][e] = 0 /\ pending'[k] = <<>>
    BY <1>3 DEF Restart, ServerStart
  <2>2. Listens(<<>>, e) = 0
    BY ListensCount
  <2>3. Apart(e)' /\ ~Tracking'
    BY <2>1, <2>2 DEF Apart, Tracking
  <2>4. QED
    BY <2>1, <2>3, MatchedKept
<1>4. ASSUME NEW k \in Pages, Flush(k) PROVE Matched(e)'
  <2>1. /\ UNCHANGED <<toServer, event, current, greeted, registered>>
        /\ flushDue' = flushDue \ {k} /\ Execute(k, pending[k])
        /\ pending' = [pending EXCEPT ![k] = <<>>]
    BY <1>4 DEF Flush, Flushed
  <2>2. /\ subs'[k][e] = subs[k][e] + Listens(pending[k], e)
        /\ \A l \in Pages \ {k} : subs'[l][e] = subs[l][e]
        /\ \A l \in Pages : subs'[l][e] >= 1 => e \in active'[l]
    <3>1. pending[k] \in Seq(Pendings)
      BY <1>t
    <3>2. QED
      BY <1>f, <2>1, <3>1, ExecuteCounts
  <2>3. pending'[k] = <<>> /\ \A l \in Pages \ {k} : pending'[l] = pending[l]
    BY <1>t, <2>1
  <2>4. Listens(pending'[k], e) = 0
    BY <2>3, ListensCount
  <2>5. Apart(e)'
    <3>1. \A l \in Pages \ {current'} : subs'[l][e] = 0 /\ Listens(pending'[l], e) = 0
      <4> TAKE l \in Pages \ {current'}
      <4>1. CASE l = k
        <5>1. subs[k][e] = 0 /\ Listens(pending[k], e) = 0
          BY <1>f, <2>1, <4>1
        <5>2. QED
          BY <2>2, <2>4, <4>1, <5>1
      <4>2. CASE l # k
        BY <1>f, <2>1, <2>2, <2>3, <4>2
      <4>3. QED
        BY <4>1, <4>2
    <3>2. ASSUME current' # 0, registered', Listens(pending'[current'], e) > 0
          PROVE  current' \in flushDue'
      <4>1. current' = current /\ current \in Pages /\ registered
        BY <1>t, <2>1, <3>2
      <4>2. current # k
        BY <2>4, <3>2, <4>1
      <4>3. Listens(pending[current], e) > 0
        BY <2>3, <3>2, <4>1, <4>2
      <4>4. QED
        BY <2>1, <3>2, <4>1, <4>2, <4>3 DEF Apart, Matched
    <3>3. QED
      BY <2>2, <3>1, <3>2 DEF Apart
  <2>6. (Tracking' <=> Tracking) /\ Kept(e)' = Kept(e)
    <3>1. Tracking' <=> Tracking
      BY <2>1 DEF Tracking
    <3>2. CASE current = 0
      BY <2>1, <3>2 DEF Kept, Tracking
    <3>3. CASE current = k /\ current # 0
      <4>1. Kept(e)' = subs'[k][e] + 0 /\ Kept(e) = subs[k][e] + Listens(pending[k], e)
        BY <2>1, <2>4, <3>3 DEF Kept
      <4>2. QED
        BY <1>f, <2>2, <3>1, <4>1
    <3>4. CASE current # k /\ current # 0
      BY <1>t, <2>1, <2>2, <2>3, <3>1, <3>4 DEF Kept
    <3>5. QED
      BY <3>1, <3>2, <3>3, <3>4
  <2>7. QED
    BY <2>1, <2>5, <2>6, MatchedKept
<1>5. ASSUME NEW k \in Pages, NEW i \in DOMAIN pending[k], Timeout(k, i) PROVE Matched(e)'
  <2>1. /\ UNCHANGED <<toServer, event, current, greeted, registered, flushDue, subs, active>>
        /\ pending' = [pending EXCEPT ![k] = [pending[k] EXCEPT ![i] =
                         [pending[k][i] EXCEPT !.timer = FALSE]]]
    BY <1>5, <1>t DEF Timeout
  <2>2. pending[k] \in Seq(Pendings) /\ pending[k][i] \in Pendings
    BY <1>t
  <2>3. [pending[k][i] EXCEPT !.timer = FALSE] \in Pendings
    BY <2>2 DEF Pendings
  <2> DEFINE s == pending[k]
             x == [pending[k][i] EXCEPT !.timer = FALSE]
             t == [s EXCEPT ![i] = x]
  <2>4. Asks(x, e) <=> Asks(pending[k][i], e)
    BY <2>2 DEF Asks, Pendings
  <2>5. t \in Seq(Pendings) /\ DOMAIN t = DOMAIN s
        /\ \A j \in DOMAIN s : t[j] = IF j = i THEN x ELSE s[j]
    <3> HIDE DEF x
    <3>1. QED
      BY <2>2, <2>3 DEF x
  <2>6. \A j \in DOMAIN s : Asks(t[j], e) <=> Asks(s[j], e)
    BY <2>4, <2>5
  <2>7. pending'[k] = t /\ \A l \in Pages \ {k} : pending'[l] = pending[l]
    BY <1>t, <2>1
  <2> HIDE DEF s, t, x
  <2>8. Listens(t, e) = Listens(s, e)
    BY <2>2, <2>5, <2>6, ListensSame DEF s
  <2>9. \A l \in Pages : Listens(pending'[l], e) = Listens(pending[l], e)
    BY <2>7, <2>8 DEF s
  <2>10. Apart(e)'
    BY <1>t, <2>1, <2>9 DEF Apart, Matched
  <2>11. (Tracking' <=> Tracking) /\ Kept(e)' = Kept(e)
    BY <1>t, <2>1, <2>9 DEF Tracking, Kept
  <2>12. QED
    BY <2>1, <2>10, <2>11, MatchedKept
<1>6. ASSUME NEW x \in running, NEW ok \in BOOLEAN, Finish(x, ok) PROVE Matched(e)'
  <2>1. /\ UNCHANGED <<toServer, event, current, greeted, registered, flushDue, subs, pending>>
        /\ active' = [active EXCEPT ![x.conn] = active[x.conn] \ {x.id}]
    BY <1>6 DEF Finish
  <2>2. x.id # e
    BY <1>t, ChannelsAssumption
  <2>3. \A k \in Pages : e \in active[k] => e \in active'[k]
    BY <1>t, <2>1, <2>2
  <2>4. Apart(e)'
    BY <2>1, <2>3 DEF Apart, Matched
  <2>5. (Tracking' <=> Tracking) /\ Kept(e)' = Kept(e)
    BY <2>1 DEF Tracking, Kept
  <2>6. QED
    BY <2>1, <2>4, <2>5, MatchedKept
<1>7. QED
  BY <1>1, <1>2, <1>3, <1>4, <1>5, <1>6

LEMMA SubsInit == Init => SubsInv
<1> SUFFICES ASSUME Init PROVE SubsInv
  OBVIOUS
<1>t. 1 \in Pages
  BY ChannelsAssumption DEF Pages
<1> DEFINE x == [type |-> "hello", page |-> 1]
           y == [type |-> "ctx", page |-> 1]
<1>1. /\ toServer = <<x, y>> /\ waiting = <<>> /\ event = [e \in Events |-> "off"]
      /\ greeted = 0 /\ current = 0 /\ subs = [k \in Pages |-> [e \in Events |-> 0]]
      /\ pending = [k \in Pages |-> <<>>]
  BY DEF Init, Hello
<1>2. x.type = "hello" /\ y.type = "ctx"
  OBVIOUS
<1> HIDE DEF x, y
<1>3. Handshaking
  <2>1. DOMAIN toServer = 1..2 /\ toServer[1] = x /\ toServer[2] = y
    BY <1>1
  <2>2. \A i \in DOMAIN toServer : toServer[i].type = "hello" => i = 1
    BY <1>2, <2>1
  <2>3. QED
    BY <1>1, <1>2, <2>1, <2>2 DEF Handshaking
<1>4. ASSUME NEW e \in Events PROVE Queued(e)
  BY <1>1 DEF Queued
<1>5. ASSUME NEW e \in Events PROVE Matched(e)
  <2>1. \A k \in Pages : subs[k][e] = 0 /\ Listens(pending[k], e) = 0
    BY <1>1, ListensCount
  <2>2. Apart(e)
    BY <1>1, <2>1 DEF Apart
  <2> DEFINE level == [i \in 0..2 |-> 0]
  <2>3. Len(toServer) = 2 /\ toServer[1] = x /\ toServer[2] = y
    BY <1>1
  <2>4. level \in [0..2 -> {0, 1}] /\ level[0] = 0 /\ level[1] = 0 /\ level[2] = 0
    OBVIOUS
  <2> HIDE DEF level
  <2>5. Turns(x, e, 0, 0) /\ Turns(y, e, 0, 0)
    BY <1>2 DEF Turns
  <2>6. Run(toServer, e, level)
    <3>1. \A i \in 1..2 : i = 1 \/ i = 2
      OBVIOUS
    <3>2. Turns(toServer[1], e, level[0], level[1]) /\ Turns(toServer[2], e, level[1], level[2])
      BY <2>3, <2>4, <2>5
    <3>3. \A i \in 1..2 : Turns(toServer[i], e, level[i - 1], level[i])
      BY <3>1, <3>2
    <3>4. QED
      BY <2>3, <2>4, <3>3 DEF Run
  <2>7. ~Tracking /\ Wanted(e) = 0
    BY <1>1 DEF Tracking, Wanted
  <2>8. Levels(e, level)
    BY <2>3, <2>4, <2>6, <2>7 DEF Levels
  <2>9. QED
    BY <2>2, <2>3, <2>4, <2>8 DEF Matched
<1>6. QED
  BY <1>3, <1>4, <1>5 DEF SubsInv

LEMMA SubsStep == TypeInv /\ SubsInv /\ [Next]_channelVars => SubsInv'
<1> SUFFICES ASSUME TypeInv, SubsInv, [Next]_channelVars PROVE SubsInv'
  OBVIOUS
<1>1. Handshaking /\ (\A e \in Events : Queued(e)) /\ \A e \in Events \ lost : Matched(e)
  BY DEF SubsInv
<1>2. lost \subseteq lost'
  BY DEF Next, SystemStep, PageStep, ServerStep, TimerStep, channelVars, historyVars,
         Call, Cancel, AddListener, RemoveListener, ReceiveInit, ReceiveAnswer,
         ReceiveReconnect, Reload, ReceiveHello, ReceiveContext, ReceiveRequest,
         ReceiveDisposal, Drop, RegisterChannel, Flush, Timeout, Finish, Save, Forget,
         Store, Restart, SendReconnect
<1>3. Handshaking'
  BY <1>1, HandStep
<1>4. \A e \in Events : Queued(e)'
  BY <1>1, QueuedStep
<1>5. ASSUME NEW e \in Events, e \notin lost' PROVE Matched(e)'
  <2>1. Matched(e) /\ Queued(e)
    BY <1>1, <1>2, <1>5
  <2>2. ServerStep => Matched(e)'
    BY <1>1, <1>5, <2>1, MatchedServer
  <2>3. /\ \A c \in Calls : Call(c) \/ Cancel(c) => Matched(e)'
        /\ \A f \in Events : AddListener(f) \/ RemoveListener(f) => Matched(e)'
        /\ PageStep \/ Reload => Matched(e)'
    BY <1>1, <2>1, MatchedPage
  <2>4. /\ RegisterChannel \/ Save \/ Restart \/ SendReconnect => Matched(e)'
        /\ UNCHANGED channelVars => Matched(e)'
        /\ \A k \in Pages : Flush(k) => Matched(e)'
        /\ \A k \in Pages : \A i \in DOMAIN pending[k] : Timeout(k, i) => Matched(e)'
        /\ \A x \in running, ok \in BOOLEAN : Finish(x, ok) => Matched(e)'
    BY <1>1, <2>1, MatchedOther
  <2>5. QED
    BY <2>2, <2>3, <2>4 DEF Next, SystemStep, TimerStep
<1>6. QED
  BY <1>3, <1>4, <1>5 DEF SubsInv

(* Only the open connection has subscriptions.                             *)
LEMMA SubscriptionsCount ==
    ASSUME TypeInv, Handshaking, NEW e \in Events, Matched(e)
    PROVE  /\ Subscriptions(e) = IF current # 0 THEN subs[current][e] ELSE 0
           /\ Subscriptions(e) \in {0, 1}
<1>f. /\ Tracking => Kept(e) \in {0, 1}
      /\ \A k \in Pages : subs[k][e] \in Nat /\ Listens(pending[k], e) \in Nat
      /\ \A k \in Pages \ {current} : subs[k][e] = 0
      /\ current # 0 =>
            /\ current \in Pages /\ Tracking
            /\ Kept(e) = subs[current][e] + Listens(pending[current], e)
  BY MatchedFacts
<1>1. \A k \in Pages : subs[k][e] = 0 => {k} \X (1..subs[k][e]) = {}
  OBVIOUS
<1>2. \A k \in Pages : subs[k][e] = 1 => {k} \X (1..subs[k][e]) = {<<k, 1>>}
  OBVIOUS
<1>3. CASE \A k \in Pages : subs[k][e] = 0
  <2>1. LiveSubscriptions(e) = {}
    BY <1>1, <1>3 DEF LiveSubscriptions
  <2>2. Subscriptions(e) = 0
    BY <2>1, FS_EmptySet DEF Subscriptions
  <2>3. QED
    BY <1>f, <1>3, <2>2
<1>4. CASE ~\A k \in Pages : subs[k][e] = 0
  <2>1. current \in Pages /\ current # 0 /\ subs[current][e] # 0
    BY <1>f, <1>4 DEF Pages
  <2>2. subs[current][e] = 1
    BY <1>f, <2>1
  <2>3. LiveSubscriptions(e) = {<<current, 1>>}
    <3>1. \A k \in Pages : {k} \X (1..subs[k][e]) = IF k = current THEN {<<current, 1>>} ELSE {}
      BY <1>f, <1>1, <1>2, <2>2
    <3>2. \A x : x \in LiveSubscriptions(e) <=> \E k \in Pages : x \in {k} \X (1..subs[k][e])
      BY DEF LiveSubscriptions
    <3>3. QED
      BY <2>1, <3>1, <3>2
  <2>4. Subscriptions(e) = 1
    BY <2>3, FS_Singleton DEF Subscriptions
  <2>5. QED
    BY <2>1, <2>2, <2>4
<1>5. QED
  BY <1>3, <1>4

(* An event is never delivered twice, and a worker that has heard all has  *)
(* a subscription for exactly the events the page listens to (ipc.ts:      *)
(* onEventListen, disposeActiveRequest, flushPendingRequests), but for     *)
(* those withdrawn while their request waited for the channel.             *)
THEOREM SubscriptionsAreMatched == Spec => []SubscriptionsMatch
<1>1. Spec => [](TypeInv /\ SubsInv)
  BY TypeInit, TypeStep, SubsInit, SubsStep, PTL DEF Spec
<1>2. TypeInv /\ SubsInv => SubscriptionsMatch
  <2> SUFFICES ASSUME TypeInv, SubsInv, NEW e \in Events \ lost
               PROVE  /\ Subscriptions(e) <= 1
                      /\ Quiet => Subscriptions(e) = IF event[e] = "on" THEN 1 ELSE 0
    BY DEF SubscriptionsMatch
  <2>1. Handshaking /\ Matched(e)
    BY DEF SubsInv
  <2>2. /\ Subscriptions(e) = IF current # 0 THEN subs[current][e] ELSE 0
        /\ Subscriptions(e) \in {0, 1}
    BY <2>1, SubscriptionsCount
  <2>3. ASSUME Quiet PROVE Subscriptions(e) = Wanted(e)
    <3>1. toServer = <<>> /\ registered /\ flushDue = {} /\ restarts = 0
      BY <2>3 DEF Quiet
    <3>2. current # 0 /\ Tracking
      BY <2>1, <3>1 DEF Handshaking, Tracking
    <3>3. /\ subs[current][e] \in Nat /\ Listens(pending[current], e) \in Nat
          /\ Kept(e) = subs[current][e] + Listens(pending[current], e)
      BY <2>1, <3>2, MatchedFacts
    <3>4. ~(Listens(pending[current], e) > 0)
      BY <2>1, <3>1, <3>2 DEF Matched, Apart
    <3>5. Kept(e) = subs[current][e]
      BY <3>3, <3>4
    <3>6. PICK level : Levels(e, level)
      BY <2>1 DEF Matched
    <3>7. Kept(e) = Wanted(e)
      BY <3>1, <3>2, <3>6 DEF Levels
    <3>8. QED
      BY <2>2, <3>2, <3>5, <3>7
  <2>4. QED
    BY <2>2, <2>3 DEF Wanted
<1>3. QED
  BY <1>1, <1>2, PTL

-----------------------------------------------------------------------------
(* Calls are under way.                                                    *)

(* A call that was sent is on its way to the worker, waits for the channel *)
(* with a timer, is executed, or its answer is on the way back.            *)
UnderWay(c) ==
    \/ Called(toServer, page, c)
    \/ \E k \in Pages : \E i \in DOMAIN pending[k] :
          IsCall(pending[k][i], page, c) /\ pending[k][i].timer
    \/ \E x \in running : x.id = c /\ x.page = page
    \/ \E i \in DOMAIN toClient :
          toClient[i] \in Answers /\ toClient[i].id = c /\ toClient[i].page = page

(* Somebody has said hello, or will, or Initialize is on its way.          *)
Coming ==
    \/ greeted # 0
    \/ \E i \in DOMAIN toServer : toServer[i].type = "hello"
    \/ \E i \in DOMAIN toClient : toClient[i] = Initialize

(* Unless the worker has stopped, no call that is not settled has been     *)
(* forgotten by everybody.                                                 *)
CallsUnderWay ==
    restarts = 0 =>
        /\ ~idle => Coming
        /\ \A c \in Calls :
              /\ call[c] = "waiting" => ~idle /\ Called(waiting, page, c)
              /\ call[c] = "sent" => UnderWay(c)

(* What is in a list is in another.                                        *)
Within(s, t) == \A i \in DOMAIN s : \E j \in DOMAIN t : t[j] = s[i]

LEMMA WithinAdded ==
    ASSUME NEW S, NEW s \in Seq(S)
    PROVE  /\ Within(s, s)
           /\ \A x \in S : /\ Within(s, Append(s, x))
                           /\ \E j \in DOMAIN Append(s, x) : Append(s, x)[j] = x
           /\ \A t \in Seq(S) : Within(s, s \o t) /\ Within(t, s \o t)
           /\ s # <<>> =>
                 \A i \in DOMAIN s : \/ s[i] = Head(s)
                                     \/ \E j \in DOMAIN Tail(s) : Tail(s)[j] = s[i]
<1>1. Within(s, s)
  BY DEF Within
<1>2. ASSUME NEW x \in S
      PROVE  /\ Within(s, Append(s, x))
             /\ \E j \in DOMAIN Append(s, x) : Append(s, x)[j] = x
  <2> DEFINE t == Append(s, x)
  <2>1. /\ DOMAIN t = 1..(Len(s) + 1) /\ DOMAIN s = 1..Len(s) /\ Len(s) \in Nat
        /\ \A j \in 1..(Len(s) + 1) : t[j] = IF j <= Len(s) THEN s[j] ELSE x
    BY Appended
  <2> HIDE DEF t
  <2>2. \A j \in DOMAIN s : j \in DOMAIN t /\ t[j] = s[j]
    BY <2>1
  <2>3. Len(s) + 1 \in DOMAIN t /\ t[Len(s) + 1] = x
    BY <2>1
  <2>4. QED
    BY <2>2, <2>3 DEF Within, t
<1>3. ASSUME NEW t \in Seq(S) PROVE Within(s, s \o t) /\ Within(t, s \o t)
  <2> DEFINE u == s \o t
             n == Len(s)
  <2>1. /\ DOMAIN u = 1..(n + Len(t)) /\ DOMAIN s = 1..n /\ DOMAIN t = 1..Len(t)
        /\ n \in Nat /\ Len(t) \in Nat
        /\ \A j \in 1..(n + Len(t)) : u[j] = IF j <= n THEN s[j] ELSE t[j - n]
    BY ConcatProperties, LenProperties
  <2> HIDE DEF u, n
  <2>2. \A j \in DOMAIN s : j \in DOMAIN u /\ u[j] = s[j]
    BY <2>1
  <2>3. \A j \in DOMAIN t : n + j \in DOMAIN u /\ u[n + j] = t[j]
    BY <2>1
  <2>4. QED
    BY <2>2, <2>3 DEF Within, u
<1>4. ASSUME s # <<>>, NEW i \in DOMAIN s
      PROVE  s[i] = Head(s) \/ \E j \in DOMAIN Tail(s) : Tail(s)[j] = s[i]
  <2>1. CASE i = 1
    BY <2>1
  <2>2. CASE i # 1
    <3>1. i - 1 \in DOMAIN Tail(s) /\ Tail(s)[i - 1] = s[i]
      BY <1>4, <2>2
    <3>2. QED
      BY <3>1
  <2>3. QED
    BY <2>1, <2>2
<1>5. QED
  BY <1>1, <1>2, <1>3, <1>4

LEMMA WithinCalled ==
    ASSUME NEW s, NEW t, NEW p, NEW c, Within(s, t), Called(s, p, c)
    PROVE  Called(t, p, c)
BY DEF Within, Called

(* A step that sends more, and takes nothing but what is no call, answer,  *)
(* hello or Initialize.                                                    *)
LEMMA WayKept ==
    ASSUME UNCHANGED <<page, pending, greeted>>, running \subseteq running',
           \A i \in DOMAIN toServer :
              \/ toServer[i].type \notin {"call", "hello"}
              \/ \E j \in DOMAIN toServer' : toServer'[j] = toServer[i],
           \A i \in DOMAIN toClient :
              \/ toClient[i] \notin Answers /\ toClient[i] # Initialize
              \/ \E j \in DOMAIN toClient' : toClient'[j] = toClient[i]
    PROVE  /\ Coming => Coming'
           /\ \A c : UnderWay(c) => UnderWay(c)'
<1>1. Coming => Coming'
  BY DEF Coming
<1>2. ASSUME NEW c, UnderWay(c) PROVE UnderWay(c)'
  <2>1. CASE Called(toServer, page, c)
    <3>1. Called(toServer', page, c)
      BY <2>1 DEF Called
    <3>2. QED
      BY <3>1 DEF UnderWay
  <2>2. CASE \E i \in DOMAIN toClient :
                toClient[i] \in Answers /\ toClient[i].id = c /\ toClient[i].page = page
    <3>1. \E i \in DOMAIN toClient' :
             toClient'[i] \in Answers /\ toClient'[i].id = c /\ toClient'[i].page = page
      BY <2>2
    <3>2. QED
      BY <3>1 DEF UnderWay
  <2>3. CASE \/ \E k \in Pages : \E i \in DOMAIN pending[k] :
                   IsCall(pending[k][i], page, c) /\ pending[k][i].timer
             \/ \E x \in running : x.id = c /\ x.page = page
    BY <2>3 DEF UnderWay
  <2>4. QED
    BY <1>2, <2>1, <2>2, <2>3 DEF UnderWay
<1>3. QED
  BY <1>1, <1>2

(* What is said of each call, with the call and the waiting as they are.   *)
LEMMA WayPage ==
    ASSUME TypeInv, CallsUnderWay
    PROVE  /\ \A c \in Calls : Call(c) \/ Cancel(c) => CallsUnderWay'
           /\ \A e \in Events : AddListener(e) \/ RemoveListener(e) => CallsUnderWay'
           /\ PageStep \/ Reload => CallsUnderWay'
<1> DEFINE SM == Handshakes \cup Requests
<1>t. /\ toServer \in Seq(SM) /\ waiting \in Seq(Requests) /\ waiting \in Seq(SM)
      /\ toClient \in Seq({Initialize} \cup Answers \cup Reconnects)
      /\ page \in Pages /\ call \in [Calls -> {"new", "waiting", "sent", "done", "cancelled"}]
  BY DEF TypeInv, ChannelsTypeOK
<1>r. /\ \A c \in Calls, t \in {"call", "cancel"} : Request(t, c) \in SM /\ Request(t, c) \in Requests
      /\ \A e \in Events, t \in {"listen", "dispose"} :
            Request(t, e) \in SM /\ Request(t, e) \in Requests
  BY ServerMessages DEF TypeInv
<1> HIDE DEF SM
<1>w. /\ Within(toServer, toServer)
      /\ \A x \in SM : Within(toServer, Append(toServer, x))
      /\ \A u \in Seq(SM) : Within(toServer, toServer \o u) /\ Within(u, toServer \o u)
  <2>1. toServer \in Seq(SM)
    BY <1>t
  <2>2. QED
    BY <2>1, WithinAdded
<1> USE DEF clientVars, serverVars, managerVars, historyVars
(* A step that only sends.                                                 *)
<1>1. ASSUME UNCHANGED <<page, pending, greeted, running, toClient, restarts, idle>>,
             Within(toServer, toServer')
      PROVE  /\ Coming => Coming'
             /\ \A c : UnderWay(c) => UnderWay(c)'
             /\ restarts' = 0 /\ ~idle' => Coming'
  <2>1. (Coming => Coming') /\ \A c : UnderWay(c) => UnderWay(c)'
    BY <1>1, WayKept DEF Within
  <2>2. QED
    BY <1>1, <2>1 DEF CallsUnderWay
<1>2. ASSUME NEW x \in SM, toServer' = toServer \/ toServer' = Append(toServer, x)
      PROVE  Within(toServer, toServer')
  BY <1>2, <1>w
<1>3. ASSUME NEW c \in Calls, Call(c) PROVE CallsUnderWay'
  <2> DEFINE x == Request("call", c)
  <2>1. /\ UNCHANGED <<page, pending, greeted, running, toClient, restarts, idle>>
        /\ call' = [call EXCEPT ![c] = IF idle THEN "sent" ELSE "waiting"]
        /\ IF idle THEN toServer' = Append(toServer, x) /\ waiting' = waiting
                   ELSE waiting' = Append(waiting, x) /\ toServer' = toServer
    BY <1>3 DEF Call, Ask
  <2>2. x \in SM /\ x \in Requests /\ IsCall(x, page, c)
    BY <1>r DEF IsCall, Request
  <2> HIDE DEF x
  <2>3. (\A d : UnderWay(d) => UnderWay(d)') /\ (restarts' = 0 /\ ~idle' => Coming')
    BY <1>1, <1>2, <2>1, <2>2
  <2>4. \A d \in Calls : d # c => call'[d] = call[d]
    BY <1>t, <2>1
  <2>5. \A d : Called(waiting, page, d) => Called(waiting', page, d)
    <3>1. \A q, d : Called(Append(waiting, x), q, d) <=> Called(waiting, q, d) \/ IsCall(x, q, d)
      BY <1>t, <2>2, AppendedCalls
    <3>2. QED
      BY <2>1, <3>1
  <2>6. CASE idle
    <3>1. Called(toServer', page, c)
      <4>1. \A q, d : Called(Append(toServer, x), q, d) <=> Called(toServer, q, d) \/ IsCall(x, q, d)
        BY <1>t, <2>2, AppendedCalls
      <4>2. QED
        BY <2>1, <2>2, <2>6, <4>1
    <3>2. UnderWay(c)' /\ call'[c] = "sent"
      BY <1>t, <2>1, <2>6, <3>1 DEF UnderWay
    <3>3. QED
      BY <2>1, <2>3, <2>4, <2>5, <2>6, <3>2 DEF CallsUnderWay
  <2>7. CASE ~idle
    <3>1. Called(waiting', page, c)
      <4>1. \A q, d : Called(Append(waiting, x), q, d) <=> Called(waiting, q, d) \/ IsCall(x, q, d)
        BY <1>t, <2>2, AppendedCalls
      <4>2. QED
        BY <2>1, <2>2, <2>7, <4>1
    <3>2. call'[c] = "waiting"
      BY <1>t, <2>1, <2>7
    <3>3. QED
      BY <2>1, <2>3, <2>4, <2>5, <2>7, <3>1, <3>2 DEF CallsUnderWay
  <2>8. QED
    BY <2>6, <2>7
(* Withdrawing a request leaves those with another id.                     *)
<1>4. ASSUME NEW id, Withdraw(id), NEW c, c # id, Called(waiting, page, c)
      PROVE  Called(waiting', page, c)
  <2>1. PICK n \in DOMAIN waiting : waiting[n].id = id /\ waiting' = RemoveAt(waiting, n)
    BY <1>4 DEF Withdraw
  <2>2. PICK i \in DOMAIN waiting : IsCall(waiting[i], page, c)
    BY <1>4 DEF Called, IsCall
  <2> DEFINE m == Len(waiting)
             t == RemoveAt(waiting, n)
  <2>3. /\ DOMAIN waiting = 1..m /\ m \in Nat /\ DOMAIN t = 1..(m - 1)
        /\ \A j \in 1..(m - 1) : t[j] = IF j < n THEN waiting[j] ELSE waiting[j + 1]
    BY <1>t, <2>1, Removed
  <2>4. i # n
    BY <1>4, <2>1, <2>2 DEF IsCall
  <2> HIDE DEF m, t
  <2>5. CASE i < n
    <3>1. i \in DOMAIN t /\ t[i] = waiting[i]
      BY <2>2, <2>3, <2>5
    <3>2. QED
      BY <2>1, <2>2, <3>1 DEF Called, IsCall, t
  <2>6. CASE i > n
    <3>1. i - 1 \in DOMAIN t /\ t[i - 1] = waiting[i]
      BY <2>2, <2>3, <2>6
    <3>2. QED
      BY <2>1, <2>2, <3>1 DEF Called, IsCall, t
  <2>7. QED
    BY <2>2, <2>3, <2>4, <2>5, <2>6
<1>5. ASSUME NEW c \in Calls, Cancel(c) PROVE CallsUnderWay'
  <2> DEFINE x == Request("cancel", c)
  <2>1. /\ UNCHANGED <<page, pending, greeted, running, toClient, restarts, idle>>
        /\ call' = [call EXCEPT ![c] = "cancelled"]
        /\ \/ Withdraw(c) /\ toServer' = Append(toServer, x)
           \/ waiting' = waiting /\ toServer' = toServer \o <<x, x>>
    BY <1>5 DEF Cancel
  <2>2. x \in SM
    BY <1>r
  <2> HIDE DEF x
  <2>3. Within(toServer, toServer')
    <3>1. <<x, x>> \in Seq(SM)
      BY <2>2
    <3>2. QED
      BY <1>w, <2>1, <2>2, <3>1
  <2>4. (\A d : UnderWay(d) => UnderWay(d)') /\ (restarts' = 0 /\ ~idle' => Coming')
    BY <1>1, <2>1, <2>3
  <2>5. call'[c] = "cancelled" /\ \A d \in Calls : d # c => call'[d] = call[d]
    BY <1>t, <2>1
  <2>6. \A d : d # c /\ Called(waiting, page, d) => Called(waiting', page, d)
    BY <1>4, <2>1
  <2>7. QED
    BY <2>1, <2>4, <2>5, <2>6 DEF CallsUnderWay
<1>6. ASSUME NEW e \in Events, AddListener(e) \/ RemoveListener(e) PROVE CallsUnderWay'
  <2>1. PICK x \in SM :
           /\ x \in Requests /\ x.type # "call"
           /\ toServer' = toServer \/ toServer' = Append(toServer, x)
           /\ waiting' = waiting \/ waiting' = Append(waiting, x) \/ Withdraw(e)
    <3>1. CASE AddListener(e)
      <4>1. /\ Request("listen", e) \in SM /\ Request("listen", e) \in Requests
            /\ Request("listen", e).type = "listen"
        BY <1>r DEF Request
      <4>2. QED
        BY <3>1, <4>1 DEF AddListener, Ask
    <3>2. CASE RemoveListener(e)
      <4>1. /\ Request("dispose", e) \in SM /\ Request("dispose", e) \in Requests
            /\ Request("dispose", e).type = "dispose"
        BY <1>r DEF Request
      <4>2. QED
        BY <3>2, <4>1 DEF RemoveListener
    <3>3. QED
      BY <1>6, <3>1, <3>2
  <2>2. UNCHANGED <<page, pending, greeted, running, toClient, restarts, idle, call>>
    BY <1>6 DEF AddListener, RemoveListener
  <2>3. (\A d : UnderWay(d) => UnderWay(d)') /\ (restarts' = 0 /\ ~idle' => Coming')
    BY <1>1, <1>2, <2>1, <2>2
  <2>4. \A d \in Calls : Called(waiting, page, d) => Called(waiting', page, d)
    <3>1. \A q, d : Called(Append(waiting, x), q, d) <=> Called(waiting, q, d) \/ IsCall(x, q, d)
      BY <1>t, <2>1, AppendedCalls
    <3>2. \A d \in Calls : d # e
      BY ChannelsAssumption
    <3>3. QED
      BY <1>4, <2>1, <3>1, <3>2
  <2>5. QED
    BY <2>2, <2>3, <2>4 DEF CallsUnderWay
(* The page takes a message.                                               *)
<1>7. ASSUME toClient # <<>>, toClient' = Tail(toClient), UNCHANGED <<page, pending, greeted, running>>,
             Within(toServer, toServer')
      PROVE  /\ Head(toClient) # Initialize /\ Head(toClient) \notin Answers =>
                  /\ Coming => Coming'
                  /\ \A c : UnderWay(c) => UnderWay(c)'
             /\ \A c : UnderWay(c) =>
                  \/ UnderWay(c)'
                  \/ /\ Head(toClient) \in Answers /\ Head(toClient).id = c
                     /\ Head(toClient).page = page
             /\ Head(toClient) # Initialize => (Coming => Coming')
  <2>1. \A i \in DOMAIN toClient : \/ toClient[i] = Head(toClient)
                                   \/ \E j \in DOMAIN toClient' : toClient'[j] = toClient[i]
    BY <1>7, <1>t, WithinAdded
  <2>2. Head(toClient) # Initialize /\ Head(toClient) \notin Answers =>
           (Coming => Coming') /\ \A c : UnderWay(c) => UnderWay(c)'
    BY <1>7, <2>1, WayKept DEF Within
  <2>3. ASSUME NEW c, UnderWay(c)
        PROVE  \/ UnderWay(c)'
               \/ /\ Head(toClient) \in Answers /\ Head(toClient).id = c
                  /\ Head(toClient).page = page
    <3>1. Called(toServer, page, c) => Called(toServer', page, c)
      BY <1>7, WithinCalled
    <3>2. QED
      BY <1>7, <2>1, <2>3, <3>1 DEF UnderWay
  <2>4. Head(toClient) # Initialize => (Coming => Coming')
    BY <1>7, <2>1 DEF Coming, Within
  <2>5. QED
    BY <2>2, <2>3, <2>4
<1>8. CASE ReceiveInit
  <2>1. /\ toClient # <<>> /\ Head(toClient) = Initialize /\ toClient' = Tail(toClient) /\ idle'
        /\ UNCHANGED <<page, pending, greeted, running, restarts>>
        /\ call' = [c \in Calls |-> IF call[c] = "waiting" THEN "sent" ELSE call[c]]
        /\ toServer' = toServer \o waiting
    BY <1>8 DEF ReceiveInit
  <2>2. Within(toServer, toServer') /\ Within(waiting, toServer')
    BY <1>t, <2>1, WithinAdded
  <2>3. \A c : Called(waiting, page, c) => UnderWay(c)'
    BY <2>1, <2>2, WithinCalled DEF UnderWay
  <2>4. Initialize \notin Answers
    BY DEF Initialize, Answers
  <2>5. \A c : UnderWay(c) => UnderWay(c)'
    BY <1>7, <2>1, <2>2, <2>4
  <2>6. \A c \in Calls : call'[c] # "waiting" /\ (call'[c] = "sent" => call[c] \in {"waiting", "sent"})
    BY <2>1
  <2>7. QED
    BY <2>1, <2>3, <2>5, <2>6 DEF CallsUnderWay
<1>9. CASE ReceiveAnswer
  <2> DEFINE m == Head(toClient)
             x == Request("cancel", m.id)
  <2>1. /\ toClient # <<>> /\ m \in Answers /\ toClient' = Tail(toClient)
        /\ UNCHANGED <<page, pending, greeted, running, restarts, idle, waiting>>
        /\ \/ /\ call' = [call EXCEPT ![m.id] = "done"] /\ toServer' = Append(toServer, x)
           \/ call[m.id] # "sent" /\ call' = call /\ toServer' = toServer
    BY <1>9 DEF ReceiveAnswer, HasHandler
  <2>2. m.id \in Calls /\ m # Initialize
    BY <2>1 DEF Answers, Initialize
  <2>3. x \in SM
    BY <1>r, <2>2
  <2> HIDE DEF x, m
  <2>4. Within(toServer, toServer')
    BY <1>2, <2>1, <2>3
  <2>5. \A c : UnderWay(c) => UnderWay(c)' \/ c = m.id
    BY <1>7, <2>1, <2>4 DEF m
  <2>6. Coming => Coming'
    BY <1>7, <2>1, <2>2, <2>4 DEF m
  <2>7. \A c \in Calls : /\ call'[c] = "sent" => call[c] = "sent" /\ c # m.id
                         /\ call'[c] = "waiting" => call[c] = "waiting"
    BY <1>t, <2>1, <2>2
  <2>8. QED
    BY <2>1, <2>5, <2>6, <2>7 DEF CallsUnderWay
<1>10. CASE ReceiveReconnect
  <2>1. /\ toClient # <<>> /\ Head(toClient) \in Reconnects /\ toClient' = Tail(toClient)
        /\ UNCHANGED <<clientVars, serverVars, managerVars>>
    BY <1>10 DEF ReceiveReconnect
  <2>2. ~Hears(Head(toClient))
    BY <1>t, <2>1, Rest DEF TypeInv, Unheard
  <2>3. toServer' = toServer
    BY <1>10, <2>2 DEF ReceiveReconnect
  <2>4. Within(toServer, toServer')
    BY <1>t, <2>3, WithinAdded
  <2>5. Head(toClient) # Initialize /\ Head(toClient) \notin Answers
    BY <2>1 DEF Initialize, Answers, Reconnects
  <2>6. (Coming => Coming') /\ \A c : UnderWay(c) => UnderWay(c)'
    BY <1>7, <2>1, <2>4, <2>5
  <2>7. QED
    BY <2>1, <2>6 DEF CallsUnderWay
<1>11. CASE Reload
  <2>1. /\ call' = [c \in Calls |-> "new"] /\ toServer' = toServer \o Hello(page + 1)
        /\ page + 1 \in Pages
    BY <1>11, <1>t, ChannelsAssumption DEF Reload, Pages
  <2>2. Hello(page + 1) \in Seq(SM) /\ Hello(page + 1)[1].type = "hello" /\ 1 \in DOMAIN Hello(page + 1)
    <3>1. Hello(page + 1) \in Seq(SM)
      BY <2>1, ServerMessages DEF SM
    <3>2. QED
      BY <3>1 DEF Hello
  <2>3. Within(Hello(page + 1), toServer')
    BY <1>t, <2>1, <2>2, WithinAdded
  <2>4. Coming'
    BY <2>2, <2>3 DEF Coming, Within
  <2>5. QED
    BY <2>1, <2>4 DEF CallsUnderWay
<1>12. QED
  BY <1>3, <1>5, <1>6, <1>8, <1>9, <1>10, <1>11 DEF PageStep

LEMMA WayWorker ==
    ASSUME TypeInv, Handshaking, CallsUnderWay
    PROVE  /\ ServerStep \/ RegisterChannel \/ Save \/ Restart \/ SendReconnect => CallsUnderWay'
           /\ UNCHANGED channelVars => CallsUnderWay'
           /\ \A k \in Pages : Flush(k) => CallsUnderWay'
           /\ \A k \in Pages : \A i \in DOMAIN pending[k] : Timeout(k, i) => CallsUnderWay'
           /\ \A x \in running, ok \in BOOLEAN : Finish(x, ok) => CallsUnderWay'
<1> DEFINE SM == Handshakes \cup Requests
           CM == {Initialize} \cup Answers \cup Reconnects
<1>t. /\ toServer \in Seq(SM) /\ toClient \in Seq(CM)
      /\ pending \in [Pages -> Seq(Pendings)] /\ page \in Pages
      /\ current \in Pages \cup {0} /\ restarts \in Nat
      /\ running \subseteq [conn : Pages, id : Calls, page : Pages]
  BY DEF TypeInv, ChannelsTypeOK
<1>m. /\ Initialize \in CM /\ Answers \subseteq CM /\ Reconnects \subseteq CM
      /\ 0 \notin Pages
  BY DEF Pages
<1>v. \A h \in SM : h.type = "call" => h.id \in Calls /\ h.page \in Pages
  BY DEF Handshakes, Requests
<1> HIDE DEF SM, CM
<1>w. /\ Within(toServer, toServer) /\ Within(toClient, toClient)
      /\ \A m \in CM : /\ Within(toClient, Append(toClient, m))
                       /\ \E j \in DOMAIN Append(toClient, m) : Append(toClient, m)[j] = m
  BY <1>t, WithinAdded
<1>h. /\ toServer # <<>> =>
            /\ Head(toServer) = toServer[1] /\ Head(toServer) \in SM
            /\ \A i \in DOMAIN toServer : \/ toServer[i] = Head(toServer)
                                          \/ \E j \in DOMAIN Tail(toServer) : Tail(toServer)[j] = toServer[i]
  BY <1>t, WithinAdded
<1> USE DEF clientVars, serverVars, managerVars, historyVars
<1> DEFINE h == Head(toServer)
(* What is there stays there.                                              *)
<1>1. ASSUME UNCHANGED <<page, idle, call, waiting, restarts>>, Coming => Coming',
             \A c \in Calls : UnderWay(c) => UnderWay(c)'
      PROVE  CallsUnderWay'
  BY <1>1 DEF CallsUnderWay
<1>2. CASE ReceiveHello
  <2>1. /\ toServer # <<>> /\ toServer' = Tail(toServer) /\ h.type = "hello"
        /\ UNCHANGED <<page, idle, call, waiting, restarts, pending, running, toClient>>
        /\ greeted' = h.page
    BY <1>2 DEF ReceiveHello, Arrived
  <2>2. h.page \in Pages
    BY <1>h, <2>1 DEF SM, Handshakes, Requests
  <2>3. Coming'
    BY <1>m, <2>1, <2>2 DEF Coming
  <2>4. \A c \in Calls : UnderWay(c) => UnderWay(c)'
    <3>1. \A c : Called(toServer, page, c) => Called(toServer', page, c)
      BY <1>h, <2>1 DEF Called
    <3>2. QED
      BY <2>1, <3>1 DEF UnderWay
  <2>5. QED
    BY <1>1, <2>1, <2>3, <2>4
<1>3. CASE ReceiveContext
  <2>1. /\ toServer # <<>> /\ toServer' = Tail(toServer) /\ h.type = "ctx"
        /\ UNCHANGED <<page, idle, call, waiting, restarts, pending, running>>
        /\ toClient' = Append(toClient, Initialize)
    BY <1>3 DEF ReceiveContext, Arrived
  <2>2. Within(toClient, toClient') /\ \E j \in DOMAIN toClient' : toClient'[j] = Initialize
    BY <1>m, <1>w, <2>1
  <2>3. Coming'
    BY <2>2 DEF Coming
  <2>4. \A c \in Calls : UnderWay(c) => UnderWay(c)'
    <3>1. \A c : Called(toServer, page, c) => Called(toServer', page, c)
      BY <1>h, <2>1 DEF Called
    <3>2. QED
      BY <2>1, <2>2, <3>1 DEF UnderWay, Within
  <2>5. QED
    BY <1>1, <2>1, <2>3, <2>4
<1>4. CASE ReceiveRequest
  <2>1. /\ toServer # <<>> /\ toServer' = Tail(toServer) /\ h.type \in {"call", "listen"}
        /\ UNCHANGED <<page, idle, call, waiting, restarts, toClient, greeted>>
        /\ current \in Pages
    BY <1>4, <1>t DEF ReceiveRequest, Arrived
  <2>2. Coming => Coming'
    BY <1>h, <2>1 DEF Coming
  <2>3. ASSUME NEW c \in Calls, UnderWay(c) PROVE UnderWay(c)'
    <3>1. CASE registered
      <4>1. Execute(current, <<h>>) /\ pending' = pending
        BY <1>4, <3>1 DEF ReceiveRequest, Waits
      <4>2. running \subseteq running'
        BY <4>1 DEF Execute
      <4>3. IsCall(h, page, c) => \E x \in running' : x.id = c /\ x.page = page
        <5>1. SUFFICES ASSUME IsCall(h, page, c)
                       PROVE  \E x \in running' : x.id = c /\ x.page = page
          OBVIOUS
        <5> DEFINE x == [conn |-> current, id |-> c, page |-> page]
        <5>2. Called(<<h>>, page, c)
          BY <5>1 DEF Called, IsCall
        <5>3. x \in [conn : {current}, id : Calls, page : Pages] /\ x.page = page /\ x.id = c
          BY <1>t
        <5>4. x \in running'
          BY <4>1, <5>2, <5>3 DEF Execute
        <5>5. QED
          BY <5>3, <5>4
      <4>4. Called(toServer, page, c) => Called(toServer', page, c) \/ IsCall(h, page, c)
        BY <1>h, <2>1 DEF Called, IsCall
      <4>5. QED
        BY <2>1, <2>3, <4>1, <4>2, <4>3, <4>4 DEF UnderWay
    <3>2. CASE ~registered
      <4> DEFINE x == [type |-> h.type, id |-> h.id, page |-> h.page, timer |-> TRUE]
                 s == pending[current]
      <4>1. /\ running' = running
            /\ pending' = [pending EXCEPT ![current] = Append(pending[current], x)]
        BY <1>4, <3>2 DEF ReceiveRequest, Waits, Collected
      <4>2. x \in Pendings
        BY <1>h, <2>1 DEF SM, Handshakes, Requests, Pendings
      <4>3. (IsCall(h, page, c) => IsCall(x, page, c)) /\ x.timer
        BY DEF IsCall
      <4> HIDE DEF x
      <4>4. /\ pending'[current] = Append(s, x)
            /\ \A k \in Pages \ {current} : pending'[k] = pending[k]
        BY <1>t, <2>1, <4>1
      <4>5. Within(s, Append(s, x)) /\ \E j \in DOMAIN Append(s, x) : Append(s, x)[j] = x
        <5>1. s \in Seq(Pendings)
          BY <1>t, <2>1
        <5> HIDE DEF s
        <5>2. QED
          BY <4>2, <5>1, WithinAdded
      <4>6. \A k \in Pages : Within(pending[k], pending'[k])
        <5>1. \A k \in Pages \ {current} : Within(pending[k], pending'[k])
          BY <4>4 DEF Within
        <5>2. QED
          BY <4>4, <4>5, <5>1
      <4>7. Called(toServer, page, c) => Called(toServer', page, c) \/ IsCall(h, page, c)
        BY <1>h, <2>1 DEF Called, IsCall
      <4>8. IsCall(h, page, c) => UnderWay(c)'
        BY <2>1, <4>3, <4>4, <4>5 DEF UnderWay
      <4>9. ASSUME NEW k \in Pages, NEW i \in DOMAIN pending[k],
                   IsCall(pending[k][i], page, c), pending[k][i].timer
            PROVE  UnderWay(c)'
        <5>1. PICK j \in DOMAIN pending'[k] : pending'[k][j] = pending[k][i]
          BY <4>6, <4>9 DEF Within
        <5>2. QED
          BY <2>1, <4>9, <5>1 DEF UnderWay
      <4>10. QED
        BY <2>1, <2>3, <4>1, <4>7, <4>8, <4>9 DEF UnderWay
    <3>3. QED
      BY <3>1, <3>2
  <2>4. QED
    BY <1>1, <2>1, <2>2, <2>3
<1>5. CASE ReceiveDisposal
  <2>1. /\ toServer # <<>> /\ toServer' = Tail(toServer) /\ h.type \in {"cancel", "dispose"}
        /\ UNCHANGED <<page, idle, call, waiting, restarts, toClient, greeted, pending, running>>
    BY <1>5 DEF ReceiveDisposal, Arrived
  <2>2. (Coming => Coming') /\ \A c : UnderWay(c) => UnderWay(c)'
    BY <1>h, <1>w, <2>1, WayKept DEF Within
  <2>3. QED
    BY <1>1, <2>1, <2>2
(* Unless the worker has stopped it drops nothing that matters: a request  *)
(* finds its connection open.                                              *)
<1>6. CASE Drop
  <2>1. /\ toServer # <<>> /\ toServer' = Tail(toServer)
        /\ UNCHANGED <<page, idle, call, waiting, restarts, toClient, greeted, pending, running>>
        /\ h.type = "ctx" \/ (h.type # "hello" /\ current = 0)
    BY <1>6 DEF Drop, Arrived
  <2>2. restarts = 0 => h.type = "ctx"
    BY <1>h, <2>1 DEF Handshaking, Tracking
  <2>3. restarts = 0 => (Coming => Coming') /\ \A c : UnderWay(c) => UnderWay(c)'
    BY <1>h, <1>w, <2>1, <2>2, WayKept DEF Within
  <2>4. QED
    BY <1>1, <2>1, <2>3 DEF CallsUnderWay
<1>7. CASE RegisterChannel \/ Save \/ SendReconnect \/ UNCHANGED channelVars
  <2>1. /\ UNCHANGED <<page, idle, call, waiting, restarts, toServer, greeted, pending, running>>
        /\ toClient' = toClient \/ \E m \in Reconnects : toClient' = Append(toClient, m)
    <3>1. [type |-> "reconnect", source |-> Connection.id, target |-> Connection.source] \in Reconnects
      BY DEF Connection, Reconnects, Addresses
    <3>2. QED
      BY <1>7, <3>1 DEF RegisterChannel, Save, Forget, Store, SendReconnect, channelVars
  <2>2. Within(toClient, toClient')
    BY <1>m, <1>w, <2>1
  <2>3. (Coming => Coming') /\ \A c : UnderWay(c) => UnderWay(c)'
    BY <1>w, <2>1, <2>2, WayKept DEF Within
  <2>4. QED
    BY <1>1, <2>1, <2>3
<1>8. CASE Restart
  <2>1. restarts' # 0
    BY <1>8, <1>t DEF Restart
  <2>2. QED
    BY <2>1 DEF CallsUnderWay
<1>9. ASSUME NEW k \in Pages, Flush(k) PROVE CallsUnderWay'
  <2>1. /\ UNCHANGED <<page, idle, call, waiting, restarts, toServer, toClient, greeted>>
        /\ Execute(k, pending[k]) /\ pending' = [pending EXCEPT ![k] = <<>>]
    BY <1>9 DEF Flush, Flushed
  <2>2. running \subseteq running'
    BY <2>1 DEF Execute
  <2>3. ASSUME NEW c \in Calls, UnderWay(c) PROVE UnderWay(c)'
    <3>1. ASSUME NEW l \in Pages, NEW i \in DOMAIN pending[l],
                 IsCall(pending[l][i], page, c), pending[l][i].timer
          PROVE  UnderWay(c)'
      <4>1. CASE l = k
        <5> DEFINE x == [conn |-> k, id |-> c, page |-> page]
        <5>1. Called(pending[k], page, c)
          BY <3>1, <4>1 DEF Called, IsCall
        <5>2. x \in [conn : {k}, id : Calls, page : Pages] /\ x.page = page /\ x.id = c
          BY <1>t
        <5>3. x \in running'
          BY <2>1, <5>1, <5>2 DEF Execute
        <5>4. QED
          BY <2>1, <5>2, <5>3 DEF UnderWay
      <4>2. CASE l # k
        <5>1. pending'[l] = pending[l]
          BY <1>t, <2>1, <4>2
        <5>2. QED
          BY <2>1, <3>1, <5>1 DEF UnderWay
      <4>3. QED
        BY <4>1, <4>2
    <3>2. QED
      BY <2>1, <2>2, <2>3, <3>1 DEF UnderWay
  <2>4. QED
    BY <1>1, <2>1, <2>3 DEF Coming
<1>10. ASSUME NEW k \in Pages, NEW i \in DOMAIN pending[k], Timeout(k, i) PROVE CallsUnderWay'
  <2> DEFINE r == pending[k][i]
             x == [r EXCEPT !.timer = FALSE]
             m == [type |-> "unknown", id |-> r.id, page |-> r.page]
  <2>1. /\ UNCHANGED <<page, idle, call, waiting, restarts, toServer, greeted, running>>
        /\ pending' = [pending EXCEPT ![k] = [pending[k] EXCEPT ![i] = x]]
        /\ toClient' = IF r.type = "call" THEN Append(toClient, m) ELSE toClient
    BY <1>10, <1>t DEF Timeout
  <2>2. r \in Pendings
    BY <1>t
  <2>3. r.type = "call" => m \in Answers /\ m.id = r.id /\ m.page = r.page
    BY <2>2 DEF Pendings, Answers
  <2>4. \A l \in Pages : \A j \in DOMAIN pending[l] :
           \/ l = k /\ j = i
           \/ j \in DOMAIN pending'[l] /\ pending'[l][j] = pending[l][j]
    <3> HIDE DEF x
    <3>1. QED
      BY <1>t, <2>1
  <2> HIDE DEF r, x, m
  <2>5. /\ Within(toClient, toClient')
        /\ r.type = "call" => \E j \in DOMAIN toClient' : toClient'[j] = m
    BY <1>m, <1>w, <2>1, <2>3
  <2>6. Coming => Coming'
    BY <2>1, <2>5 DEF Coming, Within
  <2>7. ASSUME NEW c \in Calls, UnderWay(c) PROVE UnderWay(c)'
    <3>1. IsCall(r, page, c) => UnderWay(c)'
      BY <2>1, <2>3, <2>5 DEF UnderWay, IsCall
    <3>2. ASSUME NEW l \in Pages, NEW j \in DOMAIN pending[l],
                 IsCall(pending[l][j], page, c), pending[l][j].timer
          PROVE  UnderWay(c)'
      BY <2>1, <2>4, <3>1, <3>2 DEF UnderWay, r
    <3>3. (\E j \in DOMAIN toClient :
             toClient[j] \in Answers /\ toClient[j].id = c /\ toClient[j].page = page)
          => UnderWay(c)'
      BY <2>1, <2>5 DEF UnderWay, Within
    <3>4. QED
      BY <2>1, <2>7, <3>2, <3>3 DEF UnderWay
  <2>8. QED
    BY <1>1, <2>1, <2>6, <2>7
<1>11. ASSUME NEW x \in running, NEW ok \in BOOLEAN, Finish(x, ok) PROVE CallsUnderWay'
  <2> DEFINE m == [type |-> "result", id |-> x.id, page |-> x.page]
  <2>1. /\ UNCHANGED <<page, idle, call, waiting, restarts, toServer, greeted, pending>>
        /\ running' = running \ {x} /\ toClient' = Append(toClient, m)
    BY <1>11 DEF Finish, IsAnswered
  <2>2. m \in Answers /\ m.id = x.id /\ m.page = x.page
    BY <1>t DEF Answers
  <2> HIDE DEF m
  <2>3. Within(toClient, toClient') /\ \E j \in DOMAIN toClient' : toClient'[j] = m
    BY <1>m, <1>w, <2>1, <2>2
  <2>4. Coming => Coming'
    BY <2>1, <2>3 DEF Coming, Within
  <2>5. ASSUME NEW c \in Calls, UnderWay(c) PROVE UnderWay(c)'
    <3>1. x.id = c /\ x.page = page => UnderWay(c)'
      BY <2>1, <2>2, <2>3 DEF UnderWay
    <3>2. (\E j \in DOMAIN toClient :
             toClient[j] \in Answers /\ toClient[j].id = c /\ toClient[j].page = page)
          => UnderWay(c)'
      BY <2>1, <2>3 DEF UnderWay, Within
    <3>3. QED
      BY <2>1, <2>5, <3>1, <3>2 DEF UnderWay
  <2>6. QED
    BY <1>1, <2>1, <2>4, <2>5
<1>12. QED
  BY <1>2, <1>3, <1>4, <1>5, <1>6, <1>7, <1>8, <1>9, <1>10, <1>11 DEF ServerStep

(* Unless the worker has stopped, a call that waits for its answer has     *)
(* somebody to give it one: ChannelServer answers whatever it executes, a  *)
(* request that waits for its channel has a timer (ipc.ts:                 *)
(* collectPendingRequest), and no request arrives before its connection.   *)
(* This is what CallsSettle rests on.                                      *)
THEOREM CallsAreUnderWay == Spec => []CallsUnderWay
<1>1. Init => Handshaking /\ CallsUnderWay
  <2> SUFFICES ASSUME Init PROVE Handshaking /\ CallsUnderWay
    OBVIOUS
  <2>1. Handshaking
    BY SubsInit DEF SubsInv
  <2>2. \A c \in Calls : call[c] = "new"
    BY DEF Init
  <2>3. greeted = 0 /\ current = 0 /\ restarts = 0
    BY DEF Init
  <2>4. toServer # <<>> /\ toServer[1].type = "hello"
    BY <2>1, <2>3 DEF Handshaking, Tracking
  <2>5. 1 \in DOMAIN toServer
    BY <2>4 DEF Init, Hello
  <2>6. Coming
    BY <2>4, <2>5 DEF Coming
  <2>7. QED
    BY <2>1, <2>2, <2>6 DEF CallsUnderWay
<1>2. TypeInv /\ Handshaking /\ CallsUnderWay /\ [Next]_channelVars => CallsUnderWay'
  BY WayPage, WayWorker DEF Next, SystemStep, TimerStep
<1>3. TypeInv /\ Handshaking /\ [Next]_channelVars => Handshaking'
  BY HandStep
<1>4. QED
  BY <1>1, <1>2, <1>3, TypeInit, TypeStep, PTL DEF Spec
=============================================================================
