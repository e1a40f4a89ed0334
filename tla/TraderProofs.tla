---------------------------- MODULE TraderProofs ----------------------------
(* What Trader promises, proved for any number of orders, instruments,     *)
(* attempts and overlapping fetches.                                       *)
EXTENDS Trader, TLAPS

(* A pollOrderStatus that goes on has an attempt left.                     *)
Counting == \A o \in Orders : pc[o] \in {"poll", "monitor"} => attempts[o] # 0

(* A closed order stays as it was read.                                    *)
ResponsesAreTrue ==
    \A o \in Orders : response[o] \in Closed => broker[o] = response[o]

(* An order that is watched, listed or being cancelled is there.           *)
AtBroker ==
    \A o \in Orders :
        /\ pc[o] \in {"none", "review"} => broker[o] = "none"
        /\ pc[o] \notin {"none", "review", "creation"} /\ state[o] # "Error" =>
              broker[o] # "none"
        /\ row[o] # "none" \/ cancels[o] # 0 => broker[o] # "none"

Answered == \A s \in Slots : \A o \in answer[s] : broker[o] # "none"

(* A cancellation has reached the broker, was refused, or is not needed.   *)
Asked(o) == o \in refused \/ broker[o] \notin {"open", "partially_filled"}

AskedToCancel ==
    \A o \in Orders :
        /\ pc[o] \in {"monitor", "monitored"} => Asked(o)
        /\ pc[o] = "ended" /\ state[o] # "Error" => Asked(o)
        /\ row[o] = "Cancelling" => Asked(o)

Ended ==
    \A o \in Orders :
        /\ state[o] \in {"Done", "Cancelled", "Error"} => pc[o] = "ended"
        /\ state[o] = "Done" => broker[o] = "filled"
        /\ state[o] = "Cancelled" => broker[o] = "cancelled"

(* What is or was a row is not listed under its instrument.                *)
Apart ==
    \A o \in Orders : row[o] # "none" \/ cancels[o] # 0 =>
        \A i \in Instruments : local[i] # o

(* Of one order and of the list.                                           *)
OrderInv == ResponsesAreTrue /\ AtBroker /\ Answered /\ AskedToCancel /\ Ended

TraderInv == TraderTypeOK /\ Counting /\ OrderInv /\ Apart

-----------------------------------------------------------------------------
(* The invariant holds in the beginning.                                   *)
LEMMA InvInit == Init => TraderInv
  BY TraderAssumption
  DEF Init, TraderInv, TraderTypeOK, Counting, OrderInv, ResponsesAreTrue, AtBroker,
      Answered, AskedToCancel, Ended, Apart, Asked, States, Working, Closed

(* The steps of a process keep the types.                                  *)
LEMMA TypeProcess ==
  ASSUME TraderTypeOK, Counting, NEW o \in Orders, Process(o)
  PROVE  TraderTypeOK' /\ Counting'
<1> USE TraderAssumption
    DEF TraderTypeOK, Counting, States, Working, Closed, Goes, Fails, listVars
<1>1. CASE Review(o)
  BY <1>1 DEF Review
<1>2. CASE Created(o)
  BY <1>2 DEF Created, StartsPolling
<1>3. CASE CreationFails(o)
  BY <1>3 DEF CreationFails
<1>4. CASE Poll(o)
  <2>1. attempts' = [attempts EXCEPT ![o] = @ - 1] /\ attempts[o] # 0
    BY <1>4 DEF Poll
  <2>2. attempts' \in [Orders -> 0..MaxAttempts]
    BY <2>1
  <2>3. response' \in [Orders -> Working \cup Closed \cup {"none"}]
    BY <1>4 DEF Poll
  <2>4. pc' = [pc EXCEPT ![o] = pc'[o]]
    BY <1>4 DEF Poll
  <2>5. pc'[o] \in {"poll", "polled", "monitor", "monitored"}
    BY <1>4 DEF Poll, AfterPoll
  <2>6. pc' \in [Orders -> {"none", "review", "creation", "poll", "polled", "cancel",
                            "monitor", "monitored", "ended"}]
    BY <2>4, <2>5
  <2>7. TraderTypeOK'
    BY <1>4, <2>2, <2>3, <2>6 DEF Poll
  <2>8. pc'[o] \in {"poll", "monitor"} => attempts[o] # 1
    BY <1>4 DEF Poll, AfterPoll, LastAttempt
  <2>9. Counting'
    BY <2>1, <2>4, <2>8
  <2> QED
    BY <2>7, <2>9
<1>5. CASE AfterPolling(o)
  BY <1>5 DEF AfterPolling
<1>6. CASE Cancel(o)
  BY <1>6 DEF Cancel, Cancelled, StartsPolling
<1>7. CASE AfterMonitoring(o)
  BY <1>7 DEF AfterMonitoring, GivesUp
<1> QED
  BY <1>1, <1>2, <1>3, <1>4, <1>5, <1>6, <1>7 DEF Process

(* So do the steps of the list, the user and the broker.                   *)
LEMMA TypeOrder ==
  ASSUME TraderTypeOK, Counting, NEW o \in Orders,
         CreateOrder(o) \/ Accept(o) \/ Trade(o) \/ CancelOrder(o) \/ CancelOrderEnds(o)
  PROVE  TraderTypeOK' /\ Counting'
<1> USE TraderAssumption
    DEF TraderTypeOK, Counting, States, Working, Closed, processVars, listVars
<1>1. CASE CreateOrder(o)
  BY <1>1 DEF CreateOrder, Goes
<1>2. CASE Accept(o)
  BY <1>2 DEF Accept
<1>3. CASE Trade(o)
  BY <1>3 DEF Trade
<1>4. CASE CancelOrder(o)
  BY <1>4 DEF CancelOrder, ShownMeanwhile
<1>5. CASE CancelOrderEnds(o)
  BY <1>5 DEF CancelOrderEnds, Cancelled
<1> QED
  BY <1>1, <1>2, <1>3, <1>4, <1>5

LEMMA TypeList ==
  ASSUME TraderTypeOK, Counting, NEW s \in Slots,
         Tick(s) \/ Read(s) \/ Apply(s) \/ FetchFails(s)
  PROVE  TraderTypeOK' /\ Counting'
<1> USE TraderAssumption DEF TraderTypeOK, Counting, processVars
<1>1. CASE Tick(s)
  BY <1>1 DEF Tick
<1>2. CASE Read(s)
  BY <1>2 DEF Read
<1>3. CASE Apply(s)
  BY <1>3 DEF Apply, Row, Kept
<1>4. CASE FetchFails(s)
  BY <1>4 DEF FetchFails
<1> QED
  BY <1>1, <1>2, <1>3, <1>4

(* The steps of a process keep what is true of the orders.                 *)
LEMMA OrderProcess ==
  ASSUME TraderTypeOK, OrderInv, NEW o \in Orders, Process(o)
  PROVE  OrderInv'
<1> USE DEF TraderTypeOK, OrderInv, ResponsesAreTrue, AtBroker, Answered, AskedToCancel,
            Ended, Asked, States, Working, Closed, Goes, Fails, listVars
<1>1. CASE Review(o)
  BY <1>1 DEF Review
<1>2. CASE Created(o)
  BY <1>2 DEF Created, IsFilled
<1>3. CASE CreationFails(o)
  BY <1>3 DEF CreationFails
<1>4. CASE Poll(o)
  BY <1>4 DEF Poll, AfterPoll
<1>5. CASE AfterPolling(o)
  BY <1>5 DEF AfterPolling, IsFilled
<1>6. CASE Cancel(o)
  BY <1>6 DEF Cancel, Cancelled
<1>7. CASE AfterMonitoring(o)
  BY <1>7 DEF AfterMonitoring, GivesUp
<1> QED
  BY <1>1, <1>2, <1>3, <1>4, <1>5, <1>6, <1>7 DEF Process

(* And those of the list, the user and the broker.                         *)
LEMMA OrderOrder ==
  ASSUME TraderTypeOK, OrderInv, NEW o \in Orders,
         CreateOrder(o) \/ Accept(o) \/ Trade(o) \/ CancelOrder(o) \/ CancelOrderEnds(o)
  PROVE  OrderInv'
<1> USE DEF TraderTypeOK, OrderInv, ResponsesAreTrue, AtBroker, Answered, AskedToCancel,
            Ended, Asked, States, Working, Closed, processVars, listVars
<1>1. CASE CreateOrder(o)
  BY <1>1 DEF CreateOrder, Goes
<1>2. CASE Accept(o)
  BY <1>2 DEF Accept
<1>3. CASE Trade(o)
  BY <1>3 DEF Trade
<1>4. CASE CancelOrder(o)
  BY <1>4 DEF CancelOrder, ShownMeanwhile
<1>5. CASE CancelOrderEnds(o)
  BY <1>5 DEF CancelOrderEnds, Cancelled
<1> QED
  BY <1>1, <1>2, <1>3, <1>4, <1>5

LEMMA OrderList ==
  ASSUME TraderTypeOK, OrderInv, NEW s \in Slots,
         Tick(s) \/ Read(s) \/ Apply(s) \/ FetchFails(s)
  PROVE  OrderInv'
<1> USE DEF TraderTypeOK, OrderInv, ResponsesAreTrue, AtBroker, Answered, AskedToCancel,
            Ended, Asked, States, Working, Closed, processVars
<1>1. CASE Tick(s)
  BY <1>1 DEF Tick
<1>2. CASE Read(s)
  BY <1>2 DEF Read
<1>3. CASE Apply(s)
  BY <1>3 DEF Apply, Row
<1>4. CASE FetchFails(s)
  BY <1>4 DEF FetchFails
<1> QED
  BY <1>1, <1>2, <1>3, <1>4

-----------------------------------------------------------------------------
(* The two ways to be listed stay apart.                                   *)
LEMMA ApartStep ==
  ASSUME TraderInv, [Next]_traderVars
  PROVE  Apart'
<1> USE TraderAssumption DEF TraderInv, TraderTypeOK, Apart, processVars, listVars
<1>1. ASSUME NEW o \in Orders, CreateOrder(o)
      PROVE  Apart'
  <2>1. row[o] = "none" /\ cancels[o] = 0
    BY <1>1 DEF CreateOrder, OrderInv, AtBroker
  <2> QED
    BY <1>1, <2>1 DEF CreateOrder
<1>2. ASSUME NEW o \in Orders, Process(o)
      PROVE  Apart'
  <2>1. UNCHANGED <<local, row, cancels>>
    BY <1>2 DEF Process, Review, Created, CreationFails, Poll, AfterPolling, Cancel,
                AfterMonitoring
  <2> QED
    BY <2>1
<1>3. ASSUME NEW o \in Orders, Accept(o) \/ Trade(o)
      PROVE  Apart'
  BY <1>3 DEF Accept, Trade
<1>4. ASSUME NEW o \in Orders, CancelOrder(o) \/ CancelOrderEnds(o)
      PROVE  Apart'
  BY <1>4 DEF CancelOrder, CancelOrderEnds, ShownMeanwhile
<1>5. ASSUME NEW s \in Slots, Tick(s) \/ Read(s) \/ FetchFails(s)
      PROVE  Apart'
  BY <1>5 DEF Tick, Read, FetchFails
<1>6. ASSUME NEW s \in Slots, Apply(s)
      PROVE  Apart'
  BY <1>6 DEF Apply, Kept
<1>7. CASE UNCHANGED traderVars
  BY <1>7 DEF traderVars
<1> QED
  BY <1>1, <1>2, <1>3, <1>4, <1>5, <1>6, <1>7 DEF Next

LEMMA InvStep ==
  ASSUME TraderInv, [Next]_traderVars
  PROVE  TraderInv'
<1>1. Apart'
  BY ApartStep
<1>2. TraderTypeOK' /\ Counting' /\ OrderInv'
  <2> USE DEF TraderInv
  <2>1. ASSUME NEW o \in Orders, Process(o)
        PROVE  TraderTypeOK' /\ Counting' /\ OrderInv'
    BY <2>1, TypeProcess, OrderProcess
  <2>2. ASSUME NEW o \in Orders,
               CreateOrder(o) \/ Accept(o) \/ Trade(o) \/ CancelOrder(o) \/ CancelOrderEnds(o)
        PROVE  TraderTypeOK' /\ Counting' /\ OrderInv'
    BY <2>2, TypeOrder, OrderOrder
  <2>3. ASSUME NEW s \in Slots, Tick(s) \/ Read(s) \/ Apply(s) \/ FetchFails(s)
        PROVE  TraderTypeOK' /\ Counting' /\ OrderInv'
    BY <2>3, TypeList, OrderList
  <2>4. CASE UNCHANGED traderVars
    BY <2>4 DEF traderVars, processVars, listVars, TraderTypeOK, Counting, OrderInv,
                ResponsesAreTrue, AtBroker, Answered, AskedToCancel, Ended, Asked
  <2> QED
    BY <2>1, <2>2, <2>3, <2>4 DEF Next
<1> QED
  BY <1>1, <1>2 DEF TraderInv

LEMMA InvHolds == Spec => []TraderInv
  BY InvInit, InvStep, PTL DEF Spec

-----------------------------------------------------------------------------
(* Type correctness, with attempts that never go below zero.               *)
THEOREM TraderTypeCorrect == Spec => []TraderTypeOK
  BY InvHolds, PTL DEF TraderInv

(* processOrder never ends without an error while its order may be filled  *)
(* and nobody has asked to cancel it, but for refusals it does not see.    *)
THEOREM OrdersAreWatched == Spec => []NeverLeftWorking
<1>1. TraderInv => NeverLeftWorking
  BY DEF TraderInv, OrderInv, AskedToCancel, Asked, NeverLeftWorking
<1> QED
  BY <1>1, InvHolds, PTL

(* Done, Cancelled and the Cancelling of a row are true of the broker.     *)
THEOREM ShownStatesAreTrue == Spec => []StatesAreTrue
<1>1. TraderInv => StatesAreTrue
  BY DEF TraderInv, OrderInv, Ended, AskedToCancel, Asked, StatesAreTrue
<1> QED
  BY <1>1, InvHolds, PTL

(* No order has two rows, whatever lists arrive and in whatever order.     *)
THEOREM RowsAreUnique == Spec => []ListedOnce
<1>1. TraderInv => ListedOnce
  <2> SUFFICES ASSUME TraderInv, NEW i \in Instruments, local[i] # NoOrder
               PROVE  row[local[i]] = "none"
    BY DEF ListedOnce
  <2>1. local[i] \in Orders
    BY DEF TraderInv, TraderTypeOK
  <2> QED
    BY <2>1 DEF TraderInv, Apart
<1> QED
  BY <1>1, InvHolds, PTL

-----------------------------------------------------------------------------
(* How far a process is from its end: the waits that are before it, the    *)
(* present one with the attempts it has left.                              *)
Waits(o) ==
    CASE pc[o] = "none" -> 7
      [] pc[o] = "review" -> 6
      [] pc[o] = "creation" -> 5
      [] pc[o] = "poll" -> 4
      [] pc[o] = "polled" -> 3
      [] pc[o] = "cancel" -> 2
      [] pc[o] = "monitor" -> 1
      [] OTHER -> 0

Left(o) ==
    IF pc[o] = "ended" THEN 0
    ELSE 1 + Waits(o) * (MaxAttempts + 1)
           + IF pc[o] \in {"poll", "monitor"} THEN attempts[o] ELSE 0

SomeLeft == \A o \in Orders : Left(o) \in Nat /\ (Left(o) = 0 <=> pc[o] = "ended")

(* A step of its process brings an order nearer to the end of it, and      *)
(* nothing else takes it away from there.                                  *)
GetsOn ==
    \A o \in Orders : /\ Process(o) => Left(o)' < Left(o)
                      /\ Left(o)' <= Left(o)

(* The numbers, written out.                                               *)
Reckoned ==
    \A o \in Orders :
        LET m == MaxAttempts + 1
            a == attempts[o]
        IN  /\ a \in 0..MaxAttempts
            /\ pc[o] = "none" => Left(o) = 1 + 7 * m
            /\ pc[o] = "review" => Left(o) = 1 + 6 * m
            /\ pc[o] = "creation" => Left(o) = 1 + 5 * m
            /\ pc[o] = "poll" => Left(o) = 1 + 4 * m + a
            /\ pc[o] = "polled" => Left(o) = 1 + 3 * m
            /\ pc[o] = "cancel" => Left(o) = 1 + 2 * m
            /\ pc[o] = "monitor" => Left(o) = 1 + m + a
            /\ pc[o] = "monitored" => Left(o) = 1
            /\ pc[o] = "ended" => Left(o) = 0

LEMMA LeftIs == TraderTypeOK => Reckoned
<1> SUFFICES ASSUME TraderTypeOK, NEW o \in Orders
             PROVE  Reckoned!(o)
  BY DEF Reckoned
<1> DEFINE m == MaxAttempts + 1
<1>1. attempts[o] \in 0..MaxAttempts /\ MaxAttempts \in Nat /\ m \in Nat
  BY TraderAssumption DEF TraderTypeOK
<1>2. 1 * m = m /\ 0 * m = 0
  BY <1>1
<1> HIDE DEF m
<1>3. /\ pc[o] = "none" => Waits(o) = 7
      /\ pc[o] = "review" => Waits(o) = 6
      /\ pc[o] = "creation" => Waits(o) = 5
      /\ pc[o] = "poll" => Waits(o) = 4
      /\ pc[o] = "polled" => Waits(o) = 3
      /\ pc[o] = "cancel" => Waits(o) = 2
      /\ pc[o] = "monitor" => Waits(o) = 1
      /\ pc[o] = "monitored" => Waits(o) = 0
  BY DEF Waits
<1>4. pc[o] # "ended" =>
        Left(o) = 1 + Waits(o) * m + IF pc[o] \in {"poll", "monitor"} THEN attempts[o] ELSE 0
  BY DEF Left, m
<1>5. pc[o] = "ended" => Left(o) = 0
  BY DEF Left
<1> QED
  BY <1>1, <1>2, <1>3, <1>4, <1>5 DEF m

LEMMA LeftBecomes == TraderTypeOK' => Reckoned'
  BY LeftIs, PTL

(* Each step of a process.                                                 *)
LEMMA ProcessGetsOn ==
  ASSUME TraderInv, TraderTypeOK', NEW o \in Orders, Process(o)
  PROVE  Left(o)' < Left(o)
<1> USE LeftIs, LeftBecomes, TraderAssumption
    DEF Reckoned, TraderInv, TraderTypeOK, Goes, Fails
<1>1. CASE Review(o)
  BY <1>1 DEF Review
<1>2. CASE Created(o)
  BY <1>2 DEF Created, StartsPolling
<1>3. CASE CreationFails(o)
  BY <1>3 DEF CreationFails
<1>4. CASE Poll(o)
  BY <1>4 DEF Poll, AfterPoll, LastAttempt, Counting
<1>5. CASE AfterPolling(o)
  BY <1>5 DEF AfterPolling
<1>6. CASE Cancel(o)
  BY <1>6 DEF Cancel, StartsPolling
<1>7. CASE AfterMonitoring(o)
  BY <1>7 DEF AfterMonitoring, GivesUp
<1> QED
  BY <1>1, <1>2, <1>3, <1>4, <1>5, <1>6, <1>7 DEF Process

(* What is no step of the process leaves it where it is, or begins it.     *)
LEMMA OthersKeep ==
  ASSUME TraderInv, TraderTypeOK', NEW o \in Orders, NEW q \in Orders, q # o,
         Process(q) \/ CreateOrder(q)
  PROVE  Left(o)' = Left(o)
<1>1. pc'[o] = pc[o] /\ attempts'[o] = attempts[o]
  <2> USE DEF TraderInv, TraderTypeOK, Goes, Fails
  <2>1. CASE Review(q) \/ CreationFails(q) \/ AfterPolling(q) \/ AfterMonitoring(q)
             \/ CreateOrder(q)
    BY <2>1 DEF Review, CreationFails, AfterPolling, AfterMonitoring, CreateOrder
  <2>2. CASE Created(q) \/ Cancel(q)
    BY <2>2 DEF Created, Cancel, StartsPolling
  <2>3. CASE Poll(q)
    BY <2>3 DEF Poll
  <2> QED
    BY <2>1, <2>2, <2>3 DEF Process
<1> QED
  BY <1>1 DEF Left, Waits

LEMMA BegunGetsOn ==
  ASSUME TraderInv, TraderTypeOK', NEW o \in Orders, CreateOrder(o)
  PROVE  Left(o)' < Left(o)
  BY LeftIs, LeftBecomes, TraderAssumption
  DEF Reckoned, TraderInv, TraderTypeOK, CreateOrder, Goes

(* Every process has ended or has a bounded number of steps before it      *)
(* (buyOrder.ts: what processOrder awaits, pollOrderStatus with its        *)
(* attempts, cancelAndMonitorOrder), and each step takes one: no list, no  *)
(* cancellation of the user, nothing of the broker and no step of its own  *)
(* ever gives one back.  This is what ProcessEnds rests on.                *)
THEOREM ProcessesGetOn == Spec => []SomeLeft /\ [][GetsOn]_traderVars
<1>1. TraderInv => SomeLeft
  <2> SUFFICES ASSUME TraderInv, NEW o \in Orders
               PROVE  Left(o) \in Nat /\ (Left(o) = 0 <=> pc[o] = "ended")
    BY DEF SomeLeft
  <2> QED
    BY LeftIs, TraderAssumption DEF Reckoned, TraderInv, TraderTypeOK
<1>2. TraderInv' => SomeLeft'
  BY <1>1, PTL
<1>3. TraderInv /\ TraderInv' /\ [Next]_traderVars => [GetsOn]_traderVars
  <2> SUFFICES ASSUME TraderInv, TraderInv', Next, NEW o \in Orders
               PROVE  (Process(o) => Left(o)' < Left(o)) /\ Left(o)' <= Left(o)
    BY DEF GetsOn
  <2>1. TraderTypeOK' /\ Left(o) \in Nat
    BY <1>1 DEF TraderInv, SomeLeft
  <2>2. Process(o) => Left(o)' < Left(o)
    BY <2>1, ProcessGetsOn
  <2>3. Process(o) \/ CreateOrder(o) => Left(o)' < Left(o)
    BY <2>1, <2>2, BegunGetsOn
  <2>4. ASSUME NEW q \in Orders, q # o, Process(q) \/ CreateOrder(q)
        PROVE  Left(o)' = Left(o)
    BY <2>1, <2>4, OthersKeep
  <2>5. UNCHANGED <<pc, attempts>> => Left(o)' = Left(o)
    BY DEF Left, Waits
  <2>6. ASSUME NEW q \in Orders, Accept(q) \/ Trade(q) \/ CancelOrder(q) \/ CancelOrderEnds(q)
        PROVE  UNCHANGED <<pc, attempts>>
    BY <2>6 DEF Accept, Trade, CancelOrder, CancelOrderEnds, processVars
  <2>7. ASSUME NEW s \in Slots, Tick(s) \/ Read(s) \/ Apply(s) \/ FetchFails(s)
        PROVE  UNCHANGED <<pc, attempts>>
    BY <2>7 DEF Tick, Read, Apply, FetchFails, processVars
  <2>8. \/ Process(o) \/ CreateOrder(o)
        \/ \E q \in Orders : q # o /\ (Process(q) \/ CreateOrder(q))
        \/ UNCHANGED <<pc, attempts>>
    BY <2>6, <2>7 DEF Next
  <2>9. Left(o)' <= Left(o)
    <3>1. Left(o)' < Left(o) \/ Left(o)' = Left(o)
      BY <2>3, <2>4, <2>5, <2>8, Zenon
    <3>2. Left(o)' \in Nat
      BY <1>2 DEF SomeLeft
    <3> QED
      BY <2>1, <3>1, <3>2
  <2> QED
    BY <2>2, <2>9
<1> QED
  BY <1>1, <1>3, InvHolds, PTL DEF Spec
=============================================================================
