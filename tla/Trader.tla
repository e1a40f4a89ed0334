------------------------------- MODULE Trader -------------------------------
(***************************************************************************)
(* The trader of the side panel (pages/side-panel/src/services/trader):    *)
(* orders that are sent to the broker, each watched by its own             *)
(* asynchronous process (buyOrder.ts, and sellOrder.ts that differs in     *)
(* its prices only), and the list of orders that is fetched every second   *)
(* (trader.service.ts).                                                    *)
(*                                                                         *)
(* The list and the processes do not share their objects.  A process has   *)
(* an object that the list has under the instrument, until the next fetch  *)
(* drops it, for the list goes by the ids of the broker.  A row of the     *)
(* list is another object for the same order.                              *)
(*                                                                         *)
(* An element of Orders stands for an order of the panel and for its id    *)
(* with the broker.  Prices, reviews that differ in their contents only,   *)
(* the option chain and the positions are left out.                        *)
(***************************************************************************)
EXTENDS Naturals

CONSTANTS
    Orders,         \* the orders the user places
    NoOrder,        \* none of them
    Instruments,
    InstrumentOf,   \* order -> instrument
    MaxAttempts,    \* attempts of pollOrderStatus: 5 in the code
    Slots,          \* bound: one for each fetch of the list under way
    MaxCancels      \* bound: calls of cancelOrder under way for one row

ASSUME TraderAssumption ==
    /\ NoOrder \notin Orders
    /\ InstrumentOf \in [Orders -> Instruments]
    /\ MaxAttempts \in Nat \ {0}
    /\ MaxCancels \in Nat

VARIABLES
    pc,         \* order -> what its processOrder is waiting for
    attempts,   \* order -> attempts left of the present pollOrderStatus
    state,      \* order -> state of its object
    response,   \* order -> derived_state of its orderResponse
    broker,     \* order -> its state with the broker, or "none"
    local,      \* instrument -> order the list has under it, or NoOrder
    row,        \* order -> state of the object the list has under its id, or "none"
    cancels,    \* order -> calls of cancelOrder under way for its row
    fetch,      \* slot -> "idle", "asked", or "answered"
    answer,     \* slot -> ids of the answer
    refused     \* history: orders with a cancellation the broker has refused

processVars == <<pc, attempts, state, response>>
listVars == <<local, row, cancels, fetch, answer>>
traderVars == <<processVars, broker, listVars, refused>>

States == {"Pending", "Processing", "Submitted", "AwaitingFulfillment", "Cancelling",
           "Cancelled", "Done", "Error"}

(* What fetchAllOptionsOrders asks for; the first stands for all in which  *)
(* nothing is filled.                                                      *)
Working == {"open", "partially_filled", "pending_cancelled"}

Closed == {"filled", "cancelled"}

Init ==
    /\ pc = [o \in Orders |-> "none"] /\ attempts = [o \in Orders |-> 0]
    /\ state = [o \in Orders |-> "Pending"] /\ response = [o \in Orders |-> "none"]
    /\ broker = [o \in Orders |-> "none"]
    /\ local = [i \in Instruments |-> NoOrder] /\ row = [o \in Orders |-> "none"]
    /\ cancels = [o \in Orders |-> 0]
    /\ fetch = [s \in Slots |-> "idle"] /\ answer = [s \in Slots |-> {}]
    /\ refused = {}

-----------------------------------------------------------------------------
(* processOrder.                                                           *)

Goes(o, where, what) ==
    /\ pc' = [pc EXCEPT ![o] = where]
    /\ state' = [state EXCEPT ![o] = what]

(* handleError: the error goes to nobody, for no one awaits processOrder.  *)
Fails(o) == Goes(o, "ended", "Error")

(* createOrder: the process runs to its first request, and its object      *)
(* replaces the one for the same instrument.                               *)
CreateOrder(o) ==
    /\ pc[o] = "none"
    /\ Goes(o, "review", "Processing")
    /\ local' = [local EXCEPT ![InstrumentOf[o]] = o]
    /\ UNCHANGED <<attempts, response, broker, row, cancels, fetch, answer, refused>>

(* The requests of executeOrderReview, any of which may fail.              *)
Review(o) ==
    /\ pc[o] = "review"
    /\ Goes(o, "creation", "Submitted") \/ Fails(o)
    /\ UNCHANGED <<attempts, response, broker, listVars, refused>>

(* The broker gets the order.                                              *)
Accept(o) ==
    /\ pc[o] = "creation" /\ broker[o] = "none"
    /\ broker' = [broker EXCEPT ![o] = "open"]
    /\ UNCHANGED <<processVars, listVars, refused>>

(* isOrderFilled; mutant: part of the order is enough.                     *)
PartlyFilled(r) == r \in {"filled", "partially_filled"}

IsFilled(r) == r = "filled"

StartsPolling(o) == attempts' = [attempts EXCEPT ![o] = MaxAttempts]

(* handleOrderCreation and the start of handleOrderResponse.  The answer   *)
(* tells of the order as it was taken, or as it is.                        *)
Created(o) ==
    /\ pc[o] = "creation" /\ broker[o] # "none"
    /\ \E r \in {"open", broker[o]} :
          /\ response' = [response EXCEPT ![o] = r]
          /\ IF IsFilled(r)
             THEN Goes(o, "ended", "Done") /\ UNCHANGED attempts
             ELSE Goes(o, "poll", "AwaitingFulfillment") /\ StartsPolling(o)
    /\ UNCHANGED <<broker, listVars, refused>>

(* The request fails, or its answer gets lost.                             *)
CreationFails(o) ==
    /\ pc[o] = "creation"
    /\ Fails(o)
    /\ UNCHANGED <<attempts, response, broker, listVars, refused>>

AfterPoll(o) == IF pc[o] = "poll" THEN "polled" ELSE "monitored"

(* Mutant: one attempt too many.                                           *)
AttemptTooMany(o) == attempts[o] = 0

LastAttempt(o) == attempts[o] = 1

(* An attempt of pollOrderStatus: it reads the order, or fails and leaves  *)
(* the response as it was.                                                 *)
Poll(o) ==
    /\ pc[o] \in {"poll", "monitor"}
    /\ attempts' = [attempts EXCEPT ![o] = @ - 1]
    /\ \/ /\ response' = [response EXCEPT ![o] = broker[o]]
          /\ pc' = [pc EXCEPT ![o] = IF broker[o] \in Closed \/ LastAttempt(o)
                                     THEN AfterPoll(o) ELSE @]
       \/ /\ UNCHANGED response
          /\ pc' = [pc EXCEPT ![o] = IF LastAttempt(o) THEN AfterPoll(o) ELSE @]
    /\ UNCHANGED <<state, broker, listVars, refused>>

(* The end of handleOrderResponse: an order that is not known to be filled *)
(* is to be cancelled, one that the user has cancelled too.  The id the    *)
(* code asks for is there since the order was created.                     *)
AfterPolling(o) ==
    /\ pc[o] = "polled"
    /\ pc' = [pc EXCEPT ![o] = IF IsFilled(response[o]) THEN "ended" ELSE "cancel"]
    /\ UNCHANGED <<attempts, state, response, broker, listVars, refused>>

(* What becomes of a request to cancel o: it is taken, it is refused, or   *)
(* it does not get there.  cancelOptionsOrder does not look at the status  *)
(* of the answer.                                                          *)
Cancelled(o) ==
    IF broker[o] \in Closed
    THEN UNCHANGED <<broker, refused>>
    ELSE \/ broker' = [broker EXCEPT ![o] = "pending_cancelled"] /\ UNCHANGED refused
         \/ refused' = refused \cup {o} /\ UNCHANGED broker

(* cancelAndMonitorOrder.                                                  *)
Cancel(o) ==
    /\ pc[o] = "cancel"
    /\ \/ Cancelled(o) /\ Goes(o, "monitor", "Cancelling") /\ StartsPolling(o)
       \/ Cancelled(o) /\ Fails(o) /\ UNCHANGED attempts
       \/ UNCHANGED <<broker, refused>> /\ Fails(o) /\ UNCHANGED attempts
    /\ UNCHANGED <<response, listVars>>

(* Mutant: the order is cancelled until it is.                             *)
CancelsAgain(o) == IF response[o] = "cancelled" THEN "ended" ELSE "cancel"

GivesUp(o) == "ended"

(* The end of cancelAndMonitorOrder, the order being cancelled or not.     *)
AfterMonitoring(o) ==
    /\ pc[o] = "monitored"
    /\ Goes(o, GivesUp(o), IF response[o] = "cancelled" THEN "Cancelled" ELSE state[o])
    /\ UNCHANGED <<attempts, response, broker, listVars, refused>>

-----------------------------------------------------------------------------
(* The list of orders.                                                     *)

(* A tick of the timer does not wait for the fetch of the tick before.     *)
Tick(s) ==
    /\ fetch[s] = "idle"
    /\ fetch' = [fetch EXCEPT ![s] = "asked"]
    /\ UNCHANGED <<processVars, broker, local, row, cancels, answer, refused>>

Read(s) ==
    /\ fetch[s] = "asked"
    /\ fetch' = [fetch EXCEPT ![s] = "answered"]
    /\ answer' = [answer EXCEPT ![s] = {o \in Orders : broker[o] \in Working}]
    /\ UNCHANGED <<processVars, broker, local, row, cancels, refused>>

(* Mutant: the object of a process that is under way is kept.              *)
KeepsWatched(i, ids) ==
    IF local[i] # NoOrder /\ pc[local[i]] # "ended" THEN local[i] ELSE NoOrder

(* What is left under an instrument: no instrument is the id of an order.  *)
Kept(i, ids) == NoOrder

(* Mutant: the rows of orders that are gone stay.                          *)
Accumulated(o, ids) == IF o \in ids /\ row[o] = "none" THEN "AwaitingFulfillment" ELSE row[o]

(* The row of an order: kept, dropped, or a new object.                    *)
Row(o, ids) ==
    IF o \notin ids THEN "none"
    ELSE IF row[o] = "none" THEN "AwaitingFulfillment" ELSE row[o]

(* _syncOrders applies an answer to the list as it is by now.              *)
Apply(s) ==
    /\ fetch[s] = "answered"
    /\ local' = [i \in Instruments |-> Kept(i, answer[s])]
    /\ row' = [o \in Orders |-> Row(o, answer[s])]
    /\ fetch' = [fetch EXCEPT ![s] = "idle"] /\ answer' = [answer EXCEPT ![s] = {}]
    /\ UNCHANGED <<processVars, broker, cancels, refused>>

FetchFails(s) ==
    /\ fetch[s] # "idle"
    /\ fetch' = [fetch EXCEPT ![s] = "idle"] /\ answer' = [answer EXCEPT ![s] = {}]
    /\ UNCHANGED <<processVars, broker, local, row, cancels, refused>>

(* Mutant: the state is set before the request is made.                    *)
Optimistic(o) == row' = [row EXCEPT ![o] = "Cancelling"]

ShownMeanwhile(o) == UNCHANGED row

(* The user cancels a row that does not say Cancelling, again if need be:  *)
(* it says so only once the request is answered.  A click on the object of *)
(* a process finds nothing, for it is not there under its id.              *)
CancelOrder(o) ==
    /\ row[o] = "AwaitingFulfillment" /\ cancels[o] < MaxCancels
    /\ cancels' = [cancels EXCEPT ![o] = @ + 1]
    /\ ShownMeanwhile(o)
    /\ UNCHANGED <<processVars, broker, local, fetch, answer, refused>>

(* The rest of cancelOrder: the object it took when it began is put into   *)
(* the list whether it is still there or not.                              *)
CancelOrderEnds(o) ==
    /\ cancels[o] > 0
    /\ cancels' = [cancels EXCEPT ![o] = @ - 1]
    /\ \/ Cancelled(o) /\ row' = [row EXCEPT ![o] = "Cancelling"]
       \/ Cancelled(o) /\ UNCHANGED row
       \/ UNCHANGED <<broker, refused, row>>
    /\ UNCHANGED <<processVars, local, fetch, answer>>

-----------------------------------------------------------------------------
(* The broker fills orders, in one go or not, and cancels them: when asked *)
(* to, or at the end of the day.                                           *)
Trade(o) ==
    /\ broker[o] \in Working
    /\ \E b \in Closed \cup {"partially_filled"} :
          /\ b = "partially_filled" => broker[o] = "open"
          /\ broker' = [broker EXCEPT ![o] = b]
    /\ UNCHANGED <<processVars, listVars, refused>>

Process(o) ==
    \/ Review(o) \/ Created(o) \/ CreationFails(o)
    \/ Poll(o) \/ AfterPolling(o) \/ Cancel(o) \/ AfterMonitoring(o)

Next ==
    \/ \E o \in Orders :
          \/ CreateOrder(o) \/ Process(o) \/ Accept(o) \/ Trade(o)
          \/ CancelOrder(o) \/ CancelOrderEnds(o)
    \/ \E s \in Slots : Tick(s) \/ Read(s) \/ Apply(s) \/ FetchFails(s)

Spec == Init /\ [][Next]_traderVars

(* Every request is answered or fails in the end, the timer goes on, and a *)
(* list that is asked for again and again is got in the end.  The broker   *)
(* need not do anything.                                                   *)
Fairness ==
    /\ \A o \in Orders :
          WF_traderVars(Process(o)) /\ WF_traderVars(CancelOrderEnds(o))
    /\ \A s \in Slots :
          WF_traderVars(Tick(s)) /\ SF_traderVars(Read(s)) /\ SF_traderVars(Apply(s))

FairSpec == Spec /\ Fairness

-----------------------------------------------------------------------------
(* Every variable has its type.                                            *)
TraderTypeOK ==
    /\ pc \in [Orders -> {"none", "review", "creation", "poll", "polled", "cancel",
                          "monitor", "monitored", "ended"}]
    /\ attempts \in [Orders -> 0..MaxAttempts]
    /\ state \in [Orders -> States]
    /\ response \in [Orders -> Working \cup Closed \cup {"none"}]
    /\ broker \in [Orders -> Working \cup Closed \cup {"none"}]
    /\ local \in [Instruments -> Orders \cup {NoOrder}]
    /\ row \in [Orders -> {"none", "AwaitingFulfillment", "Cancelling"}]
    /\ cancels \in [Orders -> 0..MaxCancels]
    /\ fetch \in [Slots -> {"idle", "asked", "answered"}]
    /\ answer \in [Slots -> SUBSET Orders]
    /\ refused \subseteq Orders

(* A process that ends without an error leaves no order with the broker    *)
(* that may still be filled and that nobody has asked to cancel, whatever  *)
(* its attempts to look at it have found; a refusal goes unnoticed.        *)
NeverLeftWorking ==
    \A o \in Orders \ refused :
        pc[o] = "ended" /\ state[o] # "Error" => broker[o] \notin {"open", "partially_filled"}

(* What an object says of its order is so: done is filled, cancelled is    *)
(* cancelled, and a row says cancelling only once the broker has been      *)
(* asked, whatever list was applied in between.                            *)
StatesAreTrue ==
    \A o \in Orders :
        /\ state[o] = "Done" => broker[o] = "filled"
        /\ state[o] = "Cancelled" => broker[o] = "cancelled"
        /\ row[o] = "Cancelling" /\ o \notin refused =>
              broker[o] \notin {"open", "partially_filled"}

(* An order is never listed twice, once with the object of its process and *)
(* once with that of the list: the rows are keyed by the id.               *)
ListedOnce ==
    \A i \in Instruments :
        local[i] # NoOrder /\ response[local[i]] # "none" => row[local[i]] = "none"

(* Every process ends, whatever the broker does with its order.            *)
ProcessEnds == \A o \in Orders : pc[o] # "none" ~> pc[o] = "ended"

(* In the end the list has the working orders and no others, also those    *)
(* whose creation seemed to fail, though answers overtake each other and a *)
(* cancellation puts its object back.                                      *)
ListSettles ==
    <>[](\A o \in Orders : row[o] # "none" <=> broker[o] \in Working)
=============================================================================
