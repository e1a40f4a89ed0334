---------------------------- MODULE TradeManager ----------------------------
(***************************************************************************)
(* The trade manager of the quant service                                  *)
(* (pages/side-panel/src/services/quant/tradeManager.ts, with order.ts and *)
(* position.ts).                                                           *)
(*                                                                         *)
(* It builds a strategy object for every change of the settings, keeps the *)
(* older ones running, and turns the signals of all of them (Signals) into *)
(* orders.  Orders execute synchronously, so an opening order is filled or *)
(* cancelled within handleOrderOpened.  handleOrderClosed sells position   *)
(* by position; SellNext is one round of its loop and nothing else runs    *)
(* before the loop is over.                                                *)
(***************************************************************************)
EXTENDS Signals, Naturals, FiniteSets

CONSTANTS
    Variants,      \* choices of the settings other than strategyType
    Instruments,   \* option instruments an order can pick
    MaxOrders,     \* bound: orders filled since the last reset
    NoStrategy,    \* the registry has no strategy under this id
    NoSettings     \* the settings of a strategy object not yet built

ASSUME TradeManagerAssumption ==
    /\ MaxOrders \in Nat
    /\ NoStrategy \notin Strategies
    /\ NoSettings \notin [strategyType : Types, variant : Variants]

(* A strategy's id is a function of its settings, one to one in all but    *)
(* the symbol, which no caller ever changes.                               *)
Settings == [strategyType : Types, variant : Variants]

VARIABLES
    current,          \* the settings chosen in the user interface
    conf,             \* strategy -> the settings it was built with
    live,             \* the strategies that still react to the market
    strategies,       \* the registry: settings -> the strategy under that id
    activeStrategy,   \* the strategy built last
    activeOrders, closedOrders,
    activePositions, closedPositions,
    sale              \* the loop of handleOrderClosed, or NoSale

managerVars == <<current, conf, live, strategies, activeStrategy>>
tradeVars == <<activeOrders, closedOrders, activePositions, closedPositions>>
tmVars == <<signalVars, managerVars, tradeVars, sale>>

Positions == [id : Nat, strategyId : Settings, instrument : Instruments, dir : Directions]

Orders == [id : Nat, instrument : Instruments, isClosing : BOOLEAN]

NoSale == [todo |-> {}, asked |-> {}, quoted |-> {}, closedBefore |-> {}]

Idle == sale = NoSale

On(i, S) == {x \in S : x.instrument = i}

(* Maps keep their entries in the order of insertion, which is that of ids.*)
Earliest(S) == CHOOSE p \in S : \A q \in S : p.id <= q.id

NextId == Cardinality(closedOrders) + Cardinality(activeOrders) + 1

Unregistered == [k \in Settings |-> NoStrategy]

-----------------------------------------------------------------------------
(* createNewActiveStrategy with s the new object; the strategies of kept   *)
(* stay alive beside it, demoted.                                          *)
Create(s, k, kept, registry) ==
    /\ conf[s] = NoSettings /\ kind[s] = k.strategyType
    /\ conf' = [conf EXCEPT ![s] = k]
    /\ live' = kept \cup {s}
    /\ strategies' = [registry EXCEPT ![k] = s]
    /\ activeStrategy' = s

DemotedDisposed == live \ {activeStrategy}

Demoted == live

InitTradeManager ==
    /\ InitSignals
    /\ current \in Settings
    /\ \E s \in Strategies :
           /\ kind[s] = current.strategyType
           /\ conf = [o \in Strategies |-> IF o = s THEN current ELSE NoSettings]
           /\ live = {s}
           /\ strategies = [Unregistered EXCEPT ![current] = s]
           /\ activeStrategy = s
    /\ activeOrders = {} /\ closedOrders = {}
    /\ activePositions = {} /\ closedPositions = {}
    /\ sale = NoSale

(* The autorun on the settings: a setter changes one of them.              *)
SettingsChanged(s, k) ==
    /\ Idle
    /\ k # current
    /\ k.strategyType = current.strategyType \/ k.variant = current.variant
    /\ current' = k
    /\ Create(s, k, Demoted, strategies)
    /\ UNCHANGED <<signalVars, tradeVars, sale>>

(* reset: it disposes the strategies the registry still knows.             *)
Reset(s) ==
    /\ Idle
    /\ Create(s, current, live \ {strategies[k] : k \in Settings}, Unregistered)
    /\ activeOrders' = {} /\ closedOrders' = {}
    /\ activePositions' = {} /\ closedPositions' = {}
    /\ UNCHANGED <<signalVars, current, sale>>

-----------------------------------------------------------------------------
(* The direction handleOrderOpened trades: the intent of the strategy that *)
(* the registry has under the id of s, which need not be s.                *)
Requested(s) ==
    LET registered == strategies[conf[s]]
    IN  IF registered = NoStrategy THEN "NONE" ELSE held'[registered]

(* handleOrderOpened gives up, or the order is cancelled for want of a     *)
(* quote; the strategy keeps its intent all the same.                      *)
OpenRefused(s, d) ==
    /\ Idle /\ s \in live
    /\ Enter(s, d)
    /\ UNCHANGED <<managerVars, tradeVars, sale>>

(* handleOrderOpened and executeBuyOrder: the order is filled and moves to *)
(* the closed orders.                                                      *)
OpenFilled(s, d, i) ==
    /\ Idle /\ s \in live
    /\ Enter(s, d)
    /\ activeOrders = {}
    /\ Requested(s) # "NONE"
    /\ Cardinality(closedOrders) < MaxOrders
    /\ activePositions' = activePositions \cup
           {[id |-> NextId, strategyId |-> conf[s], instrument |-> i, dir |-> Requested(s)]}
    /\ closedOrders' = closedOrders \cup
           {[id |-> NextId, instrument |-> i, isClosing |-> FALSE]}
    /\ UNCHANGED <<managerVars, activeOrders, closedPositions, sale>>

(* The positions handleOrderClosed goes through.                           *)
OfStrategy(s) == {p \in activePositions : p.strategyId = conf[s]}

(* handleOrderClosed up to its loop; quoted are the instruments with a bid.*)
StartSale(s, quoted) ==
    /\ Idle /\ s \in live
    /\ Leave(s)
    /\ sale' = IF OfStrategy(s) = {} THEN NoSale
               ELSE [todo |-> OfStrategy(s), asked |-> OfStrategy(s),
                     quoted |-> quoted, closedBefore |-> closedPositions]
    /\ UNCHANGED <<managerVars, tradeVars>>

(* The loop goes on with todo, or is over. *)
ContinueForever(todo) ==
    sale' = [todo |-> todo, asked |-> sale.asked, quoted |-> sale.quoted,
             closedBefore |-> sale.closedBefore]

Continue(todo) ==
    sale' = IF todo = {} THEN NoSale
            ELSE [todo |-> todo, asked |-> sale.asked, quoted |-> sale.quoted,
                  closedBefore |-> sale.closedBefore]

AdvanceByInstrument(p) == Continue(sale.todo \ On(p.instrument, sale.todo))

Advance(p) == Continue(sale.todo \ {p})

(* The positions a sell order that was made for p may close.               *)
MatchingOpposite(p) == {q \in On(p.instrument, activePositions) : q.dir # p.dir}

MatchingStale(p) == On(p.instrument, activePositions \cup sale.asked)

Matching(p) == On(p.instrument, activePositions)

(* A round of the loop whose sell order is cancelled for want of a bid.    *)
SellCancelled ==
    LET p == Earliest(sale.todo)
    IN  /\ ~Idle
        /\ p.instrument \notin sale.quoted
        /\ Advance(p)
        /\ UNCHANGED <<signalVars, managerVars, tradeVars>>

(* A round whose sell order is filled.  handleOrderFilled closes the first *)
(* active position on the instrument of the order, whoever opened it; the  *)
(* order stays active if there is none.                                    *)
SellFilled ==
    LET p == Earliest(sale.todo)
        i == p.instrument
        sold == Earliest(Matching(p))
        order == [id |-> NextId, instrument |-> i, isClosing |-> TRUE]
    IN  /\ ~Idle
        /\ i \in sale.quoted
        /\ Advance(p)
        /\ IF Matching(p) = {}
           THEN /\ activeOrders' = activeOrders \cup {order}
                /\ UNCHANGED <<closedOrders, activePositions, closedPositions>>
           ELSE /\ activePositions' = activePositions \ {sold}
                /\ closedPositions' = closedPositions \cup {sold}
                /\ closedOrders' = closedOrders \cup {order}
                /\ UNCHANGED activeOrders
        /\ UNCHANGED <<signalVars, managerVars>>

NextTradeManager ==
    \/ \E s \in Strategies, k \in Settings : SettingsChanged(s, k)
    \/ \E s \in Strategies : Reset(s)
    \/ \E s \in Strategies, d \in Directions :
           OpenRefused(s, d) \/ \E i \in Instruments : OpenFilled(s, d, i)
    \/ \E s \in Strategies, quoted \in SUBSET Instruments : StartSale(s, quoted)
    \/ SellCancelled
    \/ SellFilled

SpecTradeManager == InitTradeManager /\ [][NextTradeManager]_tmVars

-----------------------------------------------------------------------------
TradeManagerTypeOK ==
    /\ kind \in [Strategies -> Types]
    /\ held \in [Strategies -> Directions \cup {"NONE"}]
    /\ current \in Settings
    /\ conf \in [Strategies -> Settings \cup {NoSettings}]
    /\ live \subseteq {s \in Strategies : conf[s] # NoSettings}
    /\ strategies \in [Settings -> Strategies \cup {NoStrategy}]
    /\ activeStrategy \in live
    /\ activeOrders \subseteq Orders /\ closedOrders \subseteq Orders
    /\ activePositions \subseteq Positions /\ closedPositions \subseteq Positions
    /\ sale.todo \subseteq sale.asked /\ sale.asked \subseteq Positions
    /\ sale.quoted \subseteq Instruments /\ sale.closedBefore \subseteq closedPositions
    /\ Idle <=> sale.todo = {}

(* No order stays active once the code that created it has run: every sell *)
(* order finds a position to close although handleOrderFilled may give     *)
(* this sale's positions to others.  An order left there would block every *)
(* later opening (hasActiveOrderForSymbol) for good.                       *)
NoStuckOrder == activeOrders = {}

(* The positions held in an instrument are those bought and not yet sold.  *)
Netting ==
    \A i \in Instruments :
        Cardinality(On(i, activePositions))
            + Cardinality({o \in On(i, closedOrders) : o.isClosing})
          = Cardinality({o \in On(i, closedOrders) : ~o.isClosing})

(* Every open position has a living strategy under its strategyId to close *)
(* it: demoted strategies keep "managing [their] open orders until they    *)
(* close naturally" (tradeManager.ts:126), and reset, which disposes only  *)
(* some of the objects, leaves no position behind.                         *)
NoOrphan ==
    \A p \in activePositions : \E s \in live : conf[s] = p.strategyId

(* Whoever's positions they are, a strategy that leaves sells exactly as   *)
(* many on each instrument that has a bid as were open under its id, and   *)
(* none on the others.                                                     *)
SaleBalanced ==
    [][~Idle /\ Idle' =>
         \A i \in Instruments :
             Cardinality(On(i, closedPositions' \ sale.closedBefore))
               = IF i \in sale.quoted THEN Cardinality(On(i, sale.asked)) ELSE 0
      ]_tmVars
=============================================================================
