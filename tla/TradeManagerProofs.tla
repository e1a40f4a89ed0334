------------------------- MODULE TradeManagerProofs -------------------------
(***************************************************************************)
(* Proofs about TradeManager, for any number of strategies, settings and   *)
(* instruments and any bound on the orders.  ManagerInv is inductive; its  *)
(* heart is Covered: while a sale goes on, an instrument never has fewer   *)
(* open positions than the sale still wants to sell on it, although every  *)
(* order closes the first position it finds.                               *)
(***************************************************************************)
EXTENDS TradeManager, FiniteSetTheorems, WellFoundedInduction, TLAPS

Sells(i, S) == {o \in On(i, S) : o.isClosing}

Buys(i, S) == {o \in On(i, S) : ~o.isClosing}

Finite ==
    /\ IsFiniteSet(activePositions) /\ IsFiniteSet(closedOrders)
    /\ IsFiniteSet(sale.todo)

(* The next id is above every id given out. *)
FreshIds ==
    /\ \A o \in closedOrders : o.id <= Cardinality(closedOrders)
    /\ \A p \in activePositions : p.id <= Cardinality(closedOrders)

Covered ==
    \A i \in sale.quoted :
        Cardinality(On(i, sale.todo)) <= Cardinality(On(i, activePositions))

ManagerInv ==
    /\ TradeManagerTypeOK
    /\ NoStuckOrder /\ NoOrphan /\ Netting
    /\ Finite /\ FreshIds /\ Covered

(* A finite set of positions has an earliest one.                          *)
LEMMA EarliestIsMember ==
    ASSUME NEW S, S \subseteq Positions, S # {}
    PROVE  Earliest(S) \in S
  <1> DEFINE ids == {p.id : p \in S}
             R == OpToRel(<, Nat)
  <1>1. ids \subseteq Nat /\ ids # {}
    BY DEF Positions
  <1>2. PICK n \in ids : \A m \in ids : <<m, n>> \notin R
    <2>1. IsWellFoundedOn(R, Nat)
      BY NatLessThanWellFounded
    <2> HIDE DEF R, ids
    <2> QED
      BY <1>1, <2>1, WFMin
  <1>3. PICK p \in S : p.id = n
    BY <1>2
  <1>4. \A q \in S : p.id <= q.id
    <2>1. R = {ss \in Nat \X Nat : ss[1] < ss[2]}
      BY DEF OpToRel
    <2>2. \A m \in ids : ~(m < n)
      <3> HIDE DEF R, ids
      <3> QED
        BY <1>1, <1>2, <2>1
    <2>3. SUFFICES ASSUME NEW q \in S PROVE n <= q.id
      BY <1>3
    <2>4. n \in Nat /\ q.id \in Nat /\ ~(q.id < n)
      BY <1>1, <2>2
    <2> QED
      BY <2>4
  <1> QED
    BY <1>3, <1>4 DEF Earliest

LEMMA OnFinite ==
    ASSUME NEW S, IsFiniteSet(S), NEW i
    PROVE  IsFiniteSet(On(i, S)) /\ Cardinality(On(i, S)) \in Nat
  BY FS_Subset, FS_CardinalityType DEF On

(* What removing one element does to the count of every instrument.        *)
LEMMA OnRemove ==
    ASSUME NEW S, IsFiniteSet(S), NEW x \in S, NEW i
    PROVE  Cardinality(On(i, S \ {x})) =
               Cardinality(On(i, S)) - (IF x.instrument = i THEN 1 ELSE 0)
  <1>1. CASE x.instrument = i
    <2>1. On(i, S \ {x}) = On(i, S) \ {x} /\ x \in On(i, S)
      BY <1>1 DEF On
    <2> QED
      BY <1>1, <2>1, OnFinite, FS_RemoveElement
  <1>2. CASE x.instrument # i
    <2>1. On(i, S \ {x}) = On(i, S)
      BY <1>2 DEF On
    <2> QED
      BY <1>2, <2>1, OnFinite
  <1> QED
    BY <1>1, <1>2

(* What adding a new element does to it.                                   *)
LEMMA OnAdd ==
    ASSUME NEW S, IsFiniteSet(S), NEW x, x \notin S, NEW i
    PROVE  Cardinality(On(i, S \cup {x})) =
               Cardinality(On(i, S)) + (IF x.instrument = i THEN 1 ELSE 0)
  <1>1. CASE x.instrument = i
    <2>1. On(i, S \cup {x}) = On(i, S) \cup {x} /\ x \notin On(i, S)
      BY <1>1 DEF On
    <2> QED
      BY <1>1, <2>1, OnFinite, FS_AddElement
  <1>2. CASE x.instrument # i
    <2>1. On(i, S \cup {x}) = On(i, S)
      BY <1>2 DEF On
    <2> QED
      BY <1>2, <2>1, OnFinite
  <1> QED
    BY <1>1, <1>2

LEMMA InitInv == InitTradeManager => ManagerInv
  <1> SUFFICES ASSUME InitTradeManager PROVE ManagerInv
    OBVIOUS
  <1>1. PICK s \in Strategies :
            /\ kind[s] = current.strategyType
            /\ conf = [o \in Strategies |-> IF o = s THEN current ELSE NoSettings]
            /\ live = {s}
            /\ strategies = [Unregistered EXCEPT ![current] = s]
            /\ activeStrategy = s
    BY DEF InitTradeManager
  <1>2. TradeManagerTypeOK
    BY <1>1, TradeManagerAssumption
    DEF InitTradeManager, InitSignals, TradeManagerTypeOK, Settings, Unregistered, Idle, NoSale
  <1>3. \A i : On(i, {}) = {}
    BY DEF On
  <1>4. Finite /\ FreshIds /\ Covered
    BY FS_EmptySet DEF InitTradeManager, Finite, FreshIds, Covered, NoSale
  <1>5. Netting
    <2>1. activePositions = {} /\ closedOrders = {}
      BY DEF InitTradeManager
    <2> QED
      BY <1>3, <2>1, FS_EmptySet DEF Netting
  <1> QED
    BY <1>2, <1>4, <1>5 DEF InitTradeManager, ManagerInv, NoStuckOrder, NoOrphan

(* A new strategy leaves the registry well typed and the settings of every *)
(* living strategy as they were.                                           *)
LEMMA CreateType ==
    ASSUME TradeManagerTypeOK, NEW s \in Strategies, NEW k \in Settings,
           NEW kept \in SUBSET live, NEW registry \in [Settings -> Strategies \cup {NoStrategy}],
           Create(s, k, kept, registry)
    PROVE  /\ conf' \in [Strategies -> Settings \cup {NoSettings}]
           /\ live' \subseteq {o \in Strategies : conf'[o] # NoSettings}
           /\ strategies' \in [Settings -> Strategies \cup {NoStrategy}]
           /\ activeStrategy' \in live'
           /\ \A o \in live : conf'[o] = conf[o]
  <1>1. conf' = [conf EXCEPT ![s] = k] /\ conf[s] = NoSettings /\ k # NoSettings
    BY TradeManagerAssumption DEF Create, Settings
  <1>2. s \notin live
    BY <1>1 DEF TradeManagerTypeOK
  <1> QED
    BY <1>1, <1>2 DEF Create, TradeManagerTypeOK

LEMMA SettingsChangedInv ==
    ASSUME ManagerInv, NEW s \in Strategies, NEW k \in Settings, SettingsChanged(s, k)
    PROVE  ManagerInv'
  <1>1. /\ Create(s, k, live, strategies) /\ current' = k
        /\ UNCHANGED <<signalVars, tradeVars, sale>>
    BY DEF SettingsChanged, Demoted
  <1>2. TradeManagerTypeOK /\ strategies \in [Settings -> Strategies \cup {NoStrategy}]
    BY DEF ManagerInv, TradeManagerTypeOK
  <1>3. /\ conf' \in [Strategies -> Settings \cup {NoSettings}]
        /\ live' \subseteq {o \in Strategies : conf'[o] # NoSettings}
        /\ strategies' \in [Settings -> Strategies \cup {NoStrategy}]
        /\ activeStrategy' \in live'
        /\ \A o \in live : conf'[o] = conf[o]
    BY <1>1, <1>2, CreateType
  <1>4. TradeManagerTypeOK'
    BY <1>1, <1>2, <1>3 DEF TradeManagerTypeOK, signalVars, tradeVars, Idle
  <1>5. NoOrphan'
    BY <1>1, <1>3 DEF ManagerInv, NoOrphan, Create, tradeVars
  <1>6. NoStuckOrder' /\ Netting' /\ Finite' /\ FreshIds' /\ Covered'
    BY <1>1 DEF ManagerInv, tradeVars, NoStuckOrder, Netting, Finite, FreshIds, Covered
  <1> QED
    BY <1>4, <1>5, <1>6 DEF ManagerInv

LEMMA ResetInv ==
    ASSUME ManagerInv, NEW s \in Strategies, Reset(s)
    PROVE  ManagerInv'
  <1>1. /\ Create(s, current, live \ {strategies[k] : k \in Settings}, Unregistered)
        /\ activeOrders' = {} /\ closedOrders' = {}
        /\ activePositions' = {} /\ closedPositions' = {}
        /\ UNCHANGED <<signalVars, current, sale>>
    BY DEF Reset
  <1>2. sale' = NoSale
    BY <1>1 DEF Reset, Idle
  <1>3. TradeManagerTypeOK /\ current \in Settings
    BY DEF ManagerInv, TradeManagerTypeOK
  <1>4. /\ conf' \in [Strategies -> Settings \cup {NoSettings}]
        /\ live' \subseteq {o \in Strategies : conf'[o] # NoSettings}
        /\ strategies' \in [Settings -> Strategies \cup {NoStrategy}]
        /\ activeStrategy' \in live'
    BY <1>1, <1>3, CreateType DEF Unregistered
  <1>5. TradeManagerTypeOK'
    BY <1>1, <1>2, <1>3, <1>4 DEF TradeManagerTypeOK, signalVars, Idle, NoSale
  <1>6. \A i : On(i, {}) = {}
    BY DEF On
  <1>7. Netting'
    BY <1>1, <1>6, FS_EmptySet DEF Netting
  <1>8. NoStuckOrder' /\ NoOrphan' /\ Finite' /\ FreshIds' /\ Covered'
    BY <1>1, <1>2, FS_EmptySet DEF NoStuckOrder, NoOrphan, Finite, FreshIds, Covered, NoSale
  <1> QED
    BY <1>5, <1>7, <1>8 DEF ManagerInv

LEMMA OpenRefusedInv ==
    ASSUME ManagerInv, NEW s \in Strategies, NEW d \in Directions, OpenRefused(s, d)
    PROVE  ManagerInv'
  <1>1. held' \in [Strategies -> Directions \cup {"NONE"}] /\ kind' = kind
    BY DEF OpenRefused, Enter, ManagerInv, TradeManagerTypeOK
  <1>2. UNCHANGED <<managerVars, tradeVars, sale>>
    BY DEF OpenRefused
  <1>3. TradeManagerTypeOK'
    BY <1>1, <1>2 DEF ManagerInv, TradeManagerTypeOK, managerVars, tradeVars, Idle
  <1>4. NoStuckOrder' /\ NoOrphan' /\ Netting' /\ Finite' /\ FreshIds' /\ Covered'
    BY <1>2 DEF ManagerInv, managerVars, tradeVars, NoStuckOrder, NoOrphan, Netting,
                Finite, FreshIds, Covered
  <1> QED
    BY <1>3, <1>4 DEF ManagerInv

LEMMA StartSaleInv ==
    ASSUME ManagerInv, NEW s \in Strategies, NEW quoted \in SUBSET Instruments,
           StartSale(s, quoted)
    PROVE  ManagerInv'
  <1>1. held' \in [Strategies -> Directions \cup {"NONE"}] /\ kind' = kind
    BY DEF StartSale, Leave, ManagerInv, TradeManagerTypeOK
  <1>2. UNCHANGED <<managerVars, tradeVars>>
    BY DEF StartSale
  <1>3. OfStrategy(s) \subseteq activePositions
    BY DEF OfStrategy
  <1>4. \/ sale' = NoSale
        \/ /\ OfStrategy(s) # {}
           /\ sale' = [todo |-> OfStrategy(s), asked |-> OfStrategy(s),
                       quoted |-> quoted, closedBefore |-> closedPositions]
    BY DEF StartSale
  <1>5. TradeManagerTypeOK'
    BY <1>1, <1>2, <1>3, <1>4
    DEF ManagerInv, TradeManagerTypeOK, managerVars, tradeVars, Idle, NoSale
  <1>6. Finite'
    BY <1>2, <1>3, <1>4, FS_Subset, FS_EmptySet DEF ManagerInv, Finite, tradeVars, NoSale
  <1>7. Covered'
    <2>1. ASSUME NEW i \in Instruments
          PROVE  Cardinality(On(i, OfStrategy(s))) <= Cardinality(On(i, activePositions))
      <3>1. On(i, OfStrategy(s)) \subseteq On(i, activePositions)
        BY <1>3 DEF On
      <3> QED
        BY <3>1, OnFinite, FS_Subset DEF ManagerInv, Finite
    <2> QED
      BY <2>1, <1>2, <1>4 DEF Covered, tradeVars, NoSale
  <1>8. NoStuckOrder' /\ NoOrphan' /\ Netting' /\ FreshIds'
    BY <1>2 DEF ManagerInv, managerVars, tradeVars, NoStuckOrder, NoOrphan, Netting, FreshIds
  <1> QED
    BY <1>5, <1>6, <1>7, <1>8 DEF ManagerInv

(* A new order counts among the buys or among the sells on its instrument. *)
Counted(i, S, x) ==
    /\ Cardinality(Sells(i, S)) \in Nat /\ Cardinality(Buys(i, S)) \in Nat
    /\ Cardinality(Sells(i, S \cup {x})) =
          Cardinality(Sells(i, S)) + (IF x.instrument = i /\ x.isClosing THEN 1 ELSE 0)
    /\ Cardinality(Buys(i, S \cup {x})) =
          Cardinality(Buys(i, S)) + (IF x.instrument = i /\ ~x.isClosing THEN 1 ELSE 0)

LEMMA FilledAdd ==
    ASSUME NEW S, IsFiniteSet(S), NEW x, x \notin S, x.isClosing \in BOOLEAN, NEW i
    PROVE  Counted(i, S, x)
  <1>1. /\ IsFiniteSet(Sells(i, S)) /\ IsFiniteSet(Buys(i, S))
        /\ Cardinality(Sells(i, S)) \in Nat /\ Cardinality(Buys(i, S)) \in Nat
    BY FS_Subset, FS_CardinalityType DEF Sells, Buys, On
  <1>2. Sells(i, S \cup {x}) =
            IF x.instrument = i /\ x.isClosing THEN Sells(i, S) \cup {x} ELSE Sells(i, S)
    BY DEF Sells, On
  <1>3. Buys(i, S \cup {x}) =
            IF x.instrument = i /\ ~x.isClosing THEN Buys(i, S) \cup {x} ELSE Buys(i, S)
    BY DEF Buys, On
  <1>4. x \notin Sells(i, S) /\ x \notin Buys(i, S)
    BY DEF Sells, Buys, On
  <1>5. /\ Cardinality(Sells(i, S) \cup {x}) = Cardinality(Sells(i, S)) + 1
        /\ Cardinality(Buys(i, S) \cup {x}) = Cardinality(Buys(i, S)) + 1
    BY <1>1, <1>4, FS_AddElement
  <1> QED
    BY <1>1, <1>2, <1>3, <1>5 DEF Counted

LEMMA NextIdFresh ==
    ASSUME ManagerInv
    PROVE  /\ NextId = Cardinality(closedOrders) + 1 /\ NextId \in Nat
           /\ \A o \in closedOrders : o.id # NextId
           /\ \A p \in activePositions : p.id # NextId
  <1>1. Cardinality(closedOrders) \in Nat /\ Cardinality(activeOrders) = 0
    BY FS_CardinalityType, FS_EmptySet DEF ManagerInv, Finite, NoStuckOrder
  <1>2. /\ \A o \in closedOrders : o.id \in Nat
        /\ \A p \in activePositions : p.id \in Nat
    BY DEF ManagerInv, TradeManagerTypeOK, Orders, Positions
  <1> QED
    BY <1>1, <1>2 DEF ManagerInv, FreshIds, NextId

LEMMA OpenFilledInv ==
    ASSUME ManagerInv, NEW s \in Strategies, NEW d \in Directions, NEW i \in Instruments,
           OpenFilled(s, d, i)
    PROVE  ManagerInv'
  <1> DEFINE position == [id |-> NextId, strategyId |-> conf[s], instrument |-> i,
                          dir |-> Requested(s)]
             order == [id |-> NextId, instrument |-> i, isClosing |-> FALSE]
  <1>1. /\ activePositions' = activePositions \cup {position}
        /\ closedOrders' = closedOrders \cup {order}
        /\ UNCHANGED <<managerVars, activeOrders, closedPositions, sale>>
        /\ Requested(s) # "NONE" /\ s \in live /\ Idle
    BY DEF OpenFilled
  <1>2. held' \in [Strategies -> Directions \cup {"NONE"}] /\ kind' = kind
    BY DEF OpenFilled, Enter, ManagerInv, TradeManagerTypeOK
  <1>3. conf[s] \in Settings
    BY <1>1 DEF ManagerInv, TradeManagerTypeOK
  <1>4. Requested(s) \in Directions
    BY <1>1, <1>2, <1>3 DEF Requested, ManagerInv, TradeManagerTypeOK
  <1>5. position \in Positions /\ order \in Orders
    BY <1>3, <1>4, NextIdFresh DEF Positions, Orders
  <1>6. position \notin activePositions /\ order \notin closedOrders
    BY NextIdFresh
  <1> HIDE DEF position, order
  <1>7. TradeManagerTypeOK'
    BY <1>1, <1>2, <1>5 DEF ManagerInv, TradeManagerTypeOK, managerVars, Idle
  <1>8. NoOrphan'
    BY <1>1 DEF ManagerInv, NoOrphan, managerVars, position
  <1>9. Finite'
    BY <1>1, FS_AddElement DEF ManagerInv, Finite
  <1>10. FreshIds'
    <2>1. Cardinality(closedOrders') = Cardinality(closedOrders) + 1
      BY <1>1, <1>6, FS_AddElement DEF ManagerInv, Finite
    <2>2. position.id = Cardinality(closedOrders) + 1 /\ order.id = position.id
      BY NextIdFresh DEF position, order
    <2>3. /\ Cardinality(closedOrders) \in Nat
          /\ \A o \in closedOrders : o.id \in Nat
          /\ \A p \in activePositions : p.id \in Nat
      BY FS_CardinalityType
      DEF ManagerInv, Finite, TradeManagerTypeOK, Orders, Positions
    <2>4. /\ \A o \in closedOrders : o.id <= Cardinality(closedOrders)
          /\ \A p \in activePositions : p.id <= Cardinality(closedOrders)
      BY DEF ManagerInv, FreshIds
    <2>5. ASSUME NEW o \in closedOrders' PROVE o.id <= Cardinality(closedOrders')
      BY <1>1, <2>1, <2>2, <2>3, <2>4
    <2>6. ASSUME NEW p \in activePositions' PROVE p.id <= Cardinality(closedOrders')
      BY <1>1, <2>1, <2>2, <2>3, <2>4
    <2> QED
      BY <2>5, <2>6 DEF FreshIds
  <1>11. Netting'
    <2> SUFFICES ASSUME NEW j \in Instruments
                 PROVE  Cardinality(On(j, activePositions'))
                          + Cardinality(Sells(j, closedOrders'))
                        = Cardinality(Buys(j, closedOrders'))
      BY DEF Netting, Sells, Buys
    <2>1. Cardinality(On(j, activePositions)) + Cardinality(Sells(j, closedOrders))
            = Cardinality(Buys(j, closedOrders))
      BY DEF ManagerInv, Netting, Sells, Buys
    <2>2. position.instrument = i /\ order.instrument = i /\ order.isClosing = FALSE
      BY DEF position, order
    <2>3. Cardinality(On(j, activePositions')) =
            Cardinality(On(j, activePositions)) + (IF i = j THEN 1 ELSE 0)
      BY <1>1, <1>6, <2>2, OnAdd DEF ManagerInv, Finite
    <2>4. /\ Cardinality(Sells(j, closedOrders)) \in Nat
          /\ Cardinality(Buys(j, closedOrders)) \in Nat
          /\ Cardinality(Sells(j, closedOrders')) = Cardinality(Sells(j, closedOrders))
          /\ Cardinality(Buys(j, closedOrders')) =
                Cardinality(Buys(j, closedOrders)) + (IF i = j THEN 1 ELSE 0)
      <3>1. IsFiniteSet(closedOrders)
        BY DEF ManagerInv, Finite
      <3>2. order.isClosing \in BOOLEAN /\ ~order.isClosing
        BY <2>2
      <3>3. Counted(j, closedOrders, order)
        BY <3>1, <3>2, <1>6, FilledAdd
      <3> QED
        BY <3>2, <3>3, <1>1, <2>2 DEF Counted
    <2>5. Cardinality(On(j, activePositions)) \in Nat
      BY OnFinite DEF ManagerInv, Finite
    <2> QED
      BY <2>1, <2>3, <2>4, <2>5
  <1>12. Covered'
    BY <1>1 DEF Idle, NoSale, Covered
  <1> QED
    BY <1>1, <1>7, <1>8, <1>9, <1>10, <1>11, <1>12 DEF ManagerInv, NoStuckOrder

LEMMA AdvanceType ==
    ASSUME TradeManagerTypeOK, NEW p \in sale.todo, Advance(p)
    PROVE  /\ sale'.todo = sale.todo \ {p}
           /\ sale'.todo \subseteq sale'.asked /\ sale'.asked \subseteq Positions
           /\ sale'.quoted \subseteq sale.quoted /\ sale'.quoted \subseteq Instruments
           /\ sale'.closedBefore \subseteq sale.closedBefore
           /\ Idle' <=> sale'.todo = {}
  BY DEF Advance, Continue, NoSale, TradeManagerTypeOK, Idle

LEMMA SellCancelledInv ==
    ASSUME ManagerInv, SellCancelled
    PROVE  ManagerInv'
  <1> DEFINE p == Earliest(sale.todo)
  <1>1. p \in sale.todo
    BY EarliestIsMember DEF SellCancelled, Idle, ManagerInv, TradeManagerTypeOK
  <1>2. /\ UNCHANGED <<signalVars, managerVars, tradeVars>>
        /\ Advance(p) /\ p.instrument \notin sale.quoted
    BY DEF SellCancelled
  <1> HIDE DEF p
  <1>3. /\ sale'.todo = sale.todo \ {p}
        /\ sale'.todo \subseteq sale'.asked /\ sale'.asked \subseteq Positions
        /\ sale'.quoted \subseteq sale.quoted /\ sale'.quoted \subseteq Instruments
        /\ sale'.closedBefore \subseteq sale.closedBefore
        /\ Idle' <=> sale'.todo = {}
    BY <1>1, <1>2, AdvanceType DEF ManagerInv
  <1>4. TradeManagerTypeOK'
    BY <1>2, <1>3 DEF ManagerInv, TradeManagerTypeOK, signalVars, managerVars, tradeVars
  <1>5. Finite'
    BY <1>2, <1>3, FS_RemoveElement DEF ManagerInv, Finite, tradeVars
  <1>6. Covered'
    <2>1. ASSUME NEW i \in sale'.quoted PROVE On(i, sale'.todo) = On(i, sale.todo)
      BY <1>2, <1>3 DEF On
    <2> QED
      BY <1>2, <1>3, <2>1 DEF ManagerInv, Covered, tradeVars
  <1>7. NoStuckOrder' /\ NoOrphan' /\ Netting' /\ FreshIds'
    BY <1>2 DEF ManagerInv, managerVars, tradeVars, NoStuckOrder, NoOrphan, Netting, FreshIds
  <1> QED
    BY <1>4, <1>5, <1>6, <1>7 DEF ManagerInv

(* A quoted position that is still to be sold finds one to close.          *)
LEMMA SoldIsOpen ==
    ASSUME ManagerInv, NEW p \in sale.todo, p.instrument \in sale.quoted
    PROVE  Matching(p) # {}
  <1>1. IsFiniteSet(On(p.instrument, sale.todo)) /\ p \in On(p.instrument, sale.todo)
    BY OnFinite DEF ManagerInv, Finite, On
  <1>2. Cardinality(On(p.instrument, sale.todo)) # 0
    BY <1>1, FS_EmptySet
  <1>3. Cardinality(On(p.instrument, activePositions)) # 0
    BY <1>2, OnFinite DEF ManagerInv, Covered, Finite
  <1> QED
    BY <1>3, FS_EmptySet DEF Matching

LEMMA SellFilledInv ==
    ASSUME ManagerInv, SellFilled
    PROVE  ManagerInv'
  <1> DEFINE p == Earliest(sale.todo)
             sold == Earliest(Matching(p))
             order == [id |-> NextId, instrument |-> p.instrument, isClosing |-> TRUE]
  <1>1. p \in sale.todo /\ p \in Positions
    BY EarliestIsMember DEF SellFilled, Idle, ManagerInv, TradeManagerTypeOK
  <1>2. p.instrument \in sale.quoted /\ Advance(p) /\ UNCHANGED <<signalVars, managerVars>>
    BY DEF SellFilled
  <1>3. Matching(p) # {}
    BY <1>1, <1>2, SoldIsOpen
  <1>4. sold \in activePositions /\ sold \in Positions /\ sold.instrument = p.instrument
    <2>1. sold \in Matching(p)
      BY <1>3, EarliestIsMember DEF Matching, On, ManagerInv, TradeManagerTypeOK
    <2> QED
      BY <2>1 DEF Matching, On, ManagerInv, TradeManagerTypeOK
  <1>5. /\ activePositions' = activePositions \ {sold}
        /\ closedPositions' = closedPositions \cup {sold}
        /\ closedOrders' = closedOrders \cup {order}
        /\ UNCHANGED activeOrders
    BY <1>3 DEF SellFilled
  <1>6. order \in Orders /\ order \notin closedOrders
    BY <1>1, NextIdFresh DEF Orders, Positions
  <1>7. /\ order.id = Cardinality(closedOrders) + 1
        /\ order.instrument = p.instrument /\ order.isClosing \in BOOLEAN /\ order.isClosing
    BY NextIdFresh
  <1> HIDE DEF p, sold, order
  <1>8. /\ sale'.todo = sale.todo \ {p}
        /\ sale'.todo \subseteq sale'.asked /\ sale'.asked \subseteq Positions
        /\ sale'.quoted \subseteq sale.quoted /\ sale'.quoted \subseteq Instruments
        /\ sale'.closedBefore \subseteq sale.closedBefore
        /\ Idle' <=> sale'.todo = {}
    BY <1>1, <1>2, AdvanceType DEF ManagerInv
  <1>9. TradeManagerTypeOK'
    BY <1>2, <1>4, <1>5, <1>6, <1>8
    DEF ManagerInv, TradeManagerTypeOK, signalVars, managerVars
  <1>10. NoOrphan'
    BY <1>2, <1>5 DEF ManagerInv, NoOrphan, managerVars
  <1>11. Finite'
    <2>1. Finite
      BY DEF ManagerInv
    <2>2. /\ IsFiniteSet(activePositions \ {sold}) /\ IsFiniteSet(sale.todo \ {p})
          /\ IsFiniteSet(closedOrders \cup {order})
      BY <2>1, FS_RemoveElement, FS_AddElement DEF Finite
    <2> QED
      BY <1>5, <1>8, <2>2 DEF Finite
  <1>12. FreshIds'
    <2>1. Cardinality(closedOrders') = Cardinality(closedOrders) + 1
      BY <1>5, <1>6, FS_AddElement DEF ManagerInv, Finite
    <2>2. /\ Cardinality(closedOrders) \in Nat
          /\ \A o \in closedOrders : o.id \in Nat /\ o.id <= Cardinality(closedOrders)
          /\ \A q \in activePositions : q.id \in Nat /\ q.id <= Cardinality(closedOrders)
      BY FS_CardinalityType
      DEF ManagerInv, Finite, FreshIds, TradeManagerTypeOK, Orders, Positions
    <2>3. ASSUME NEW o \in closedOrders' PROVE o.id <= Cardinality(closedOrders')
      BY <1>5, <1>7, <2>1, <2>2
    <2>4. ASSUME NEW q \in activePositions' PROVE q.id <= Cardinality(closedOrders')
      BY <1>5, <2>1, <2>2
    <2> QED
      BY <2>3, <2>4 DEF FreshIds
  <1>13. Netting'
    <2> SUFFICES ASSUME NEW j \in Instruments
                 PROVE  Cardinality(On(j, activePositions'))
                          + Cardinality(Sells(j, closedOrders'))
                        = Cardinality(Buys(j, closedOrders'))
      BY DEF Netting, Sells, Buys
    <2>1. Cardinality(On(j, activePositions)) + Cardinality(Sells(j, closedOrders))
            = Cardinality(Buys(j, closedOrders))
      BY DEF ManagerInv, Netting, Sells, Buys
    <2>2. IsFiniteSet(closedOrders) /\ IsFiniteSet(activePositions)
      BY DEF ManagerInv, Finite
    <2>3. Cardinality(On(j, activePositions')) =
            Cardinality(On(j, activePositions)) - (IF p.instrument = j THEN 1 ELSE 0)
      BY <1>4, <1>5, <2>2, OnRemove
    <2>4. Counted(j, closedOrders, order)
      BY <2>2, <1>6, <1>7, FilledAdd
    <2>5. Cardinality(On(j, activePositions)) \in Nat
      BY <2>2, OnFinite
    <2> QED
      BY <1>5, <1>7, <2>1, <2>3, <2>4, <2>5 DEF Counted
  <1>14. Covered'
    <2>1. ASSUME NEW i \in sale'.quoted
          PROVE  Cardinality(On(i, sale'.todo)) <= Cardinality(On(i, activePositions'))
      <3>1. /\ Cardinality(On(i, sale.todo)) <= Cardinality(On(i, activePositions))
            /\ Cardinality(On(i, sale.todo)) \in Nat
            /\ Cardinality(On(i, activePositions)) \in Nat
        BY <1>8, OnFinite DEF ManagerInv, Covered, Finite
      <3>2. Cardinality(On(i, sale'.todo)) =
              Cardinality(On(i, sale.todo)) - (IF p.instrument = i THEN 1 ELSE 0)
        BY <1>1, <1>8, OnRemove DEF ManagerInv, Finite
      <3>3. Cardinality(On(i, activePositions')) =
              Cardinality(On(i, activePositions)) - (IF p.instrument = i THEN 1 ELSE 0)
        BY <1>4, <1>5, OnRemove DEF ManagerInv, Finite
      <3> QED
        BY <3>1, <3>2, <3>3
    <2> QED
      BY <2>1 DEF Covered
  <1> QED
    BY <1>5, <1>9, <1>10, <1>11, <1>12, <1>13, <1>14 DEF ManagerInv, NoStuckOrder

LEMMA NextInv == ManagerInv /\ [NextTradeManager]_tmVars => ManagerInv'
  <1> SUFFICES ASSUME ManagerInv, [NextTradeManager]_tmVars PROVE ManagerInv'
    OBVIOUS
  <1>1. CASE NextTradeManager
    BY <1>1, SettingsChangedInv, ResetInv, OpenRefusedInv, OpenFilledInv, StartSaleInv,
       SellCancelledInv, SellFilledInv DEF NextTradeManager
  <1>2. CASE UNCHANGED tmVars
    BY <1>2 DEF tmVars, signalVars, managerVars, tradeVars, ManagerInv, TradeManagerTypeOK,
                NoStuckOrder, NoOrphan, Netting, Finite, FreshIds, Covered, Idle
  <1> QED
    BY <1>1, <1>2

THEOREM ManagerInvHolds == SpecTradeManager => []ManagerInv
  BY InitInv, NextInv, PTL DEF SpecTradeManager

(* Every variable of the trade manager keeps its type.                     *)
THEOREM TradeManagerTypeCorrect == SpecTradeManager => []TradeManagerTypeOK
  <1>1. ManagerInv => TradeManagerTypeOK
    BY DEF ManagerInv
  <1> QED
    BY <1>1, ManagerInvHolds, PTL

(* No sell order misses a position to close and stays active for ever      *)
(* (handleOrderFilled, tradeManager.ts:289), so openings are never blocked.*)
THEOREM OrdersNeverStick == SpecTradeManager => []NoStuckOrder
  <1>1. ManagerInv => NoStuckOrder
    BY DEF ManagerInv
  <1> QED
    BY <1>1, ManagerInvHolds, PTL

(* On every instrument the open positions are the buys less the sells.     *)
THEOREM PositionsNet == SpecTradeManager => []Netting
  <1>1. ManagerInv => Netting
    BY DEF ManagerInv
  <1> QED
    BY <1>1, ManagerInvHolds, PTL

(* Every open position has a living strategy that can close it.            *)
THEOREM PositionsAreManaged == SpecTradeManager => []NoOrphan
  <1>1. ManagerInv => NoOrphan
    BY DEF ManagerInv
  <1> QED
    BY <1>1, ManagerInvHolds, PTL
-----------------------------------------------------------------------------
(* What SaleBalanced needs besides: a position is open or closed and never *)
(* both, and during a sale the positions closed since it started and those *)
(* still to be sold are together as many as were asked for.                *)
ClosedApart ==
    /\ IsFiniteSet(closedPositions) /\ IsFiniteSet(sale.asked)
    /\ activePositions \cap closedPositions = {}
    /\ \A q \in closedPositions : q.id <= Cardinality(closedOrders)

Tally ==
    ~Idle => \A i \in Instruments :
        IF i \in sale.quoted
        THEN Cardinality(On(i, closedPositions \ sale.closedBefore))
                 + Cardinality(On(i, sale.todo)) = Cardinality(On(i, sale.asked))
        ELSE Cardinality(On(i, closedPositions \ sale.closedBefore)) = 0

SaleInv == ManagerInv /\ ClosedApart /\ Tally

(* A round of the loop for p: what is left to sell and what was closed     *)
(* still make up what was asked for.                                       *)
RoundTally(p) ==
    \A i \in Instruments :
        IF i \in sale.quoted
        THEN Cardinality(On(i, closedPositions' \ sale.closedBefore))
                 + Cardinality(On(i, sale.todo \ {p})) = Cardinality(On(i, sale.asked))
        ELSE Cardinality(On(i, closedPositions' \ sale.closedBefore)) = 0

LEMMA CancelledRound ==
    ASSUME SaleInv, SellCancelled
    PROVE  RoundTally(Earliest(sale.todo)) /\ ClosedApart'
  <1> DEFINE p == Earliest(sale.todo)
  <1>1. /\ ~Idle /\ p.instrument \notin sale.quoted /\ Advance(p)
        /\ UNCHANGED <<signalVars, managerVars, tradeVars>>
    BY DEF SellCancelled
  <1> HIDE DEF p
  <1>2. RoundTally(p)
    <2>1. ASSUME NEW i \in sale.quoted PROVE On(i, sale.todo \ {p}) = On(i, sale.todo)
      BY <1>1 DEF On
    <2> QED
      BY <1>1, <2>1 DEF SaleInv, Tally, RoundTally, tradeVars
  <1>3. sale'.asked = sale.asked \/ sale'.asked = {}
    BY <1>1 DEF Advance, Continue, NoSale
  <1>4. ClosedApart'
    BY <1>1, <1>3, FS_EmptySet DEF SaleInv, ClosedApart, tradeVars
  <1> QED
    BY <1>2, <1>4 DEF p

(* The position a round sells was open, so it is not among the closed ones *)
(* and counts once more on its instrument.                                 *)
LEMMA FilledRound ==
    ASSUME SaleInv, SellFilled
    PROVE  RoundTally(Earliest(sale.todo)) /\ ClosedApart'
  <1> DEFINE p == Earliest(sale.todo)
             sold == Earliest(Matching(p))
             order == [id |-> NextId, instrument |-> p.instrument, isClosing |-> TRUE]
             closed == closedPositions \ sale.closedBefore
  <1>1. p \in sale.todo /\ p \in Positions
    BY EarliestIsMember DEF SellFilled, Idle, SaleInv, ManagerInv, TradeManagerTypeOK
  <1>2. ~Idle /\ p.instrument \in sale.quoted /\ Advance(p)
    BY DEF SellFilled
  <1>3. Matching(p) # {}
    BY <1>1, <1>2, SoldIsOpen DEF SaleInv
  <1>4. sold \in activePositions /\ sold.instrument = p.instrument
    <2>1. sold \in Matching(p)
      BY <1>3, EarliestIsMember DEF Matching, On, SaleInv, ManagerInv, TradeManagerTypeOK
    <2> QED
      BY <2>1 DEF Matching, On
  <1>5. /\ activePositions' = activePositions \ {sold}
        /\ closedPositions' = closedPositions \cup {sold}
        /\ closedOrders' = closedOrders \cup {order}
    BY <1>3 DEF SellFilled
  <1>6. order \notin closedOrders
    BY NextIdFresh DEF SaleInv
  <1> HIDE DEF p, sold, order
  <1>7. IsFiniteSet(closedPositions) /\ IsFiniteSet(closed) /\ sold \notin closedPositions
    BY <1>4, FS_Subset DEF SaleInv, ClosedApart
  <1>8. closedPositions' \ sale.closedBefore = closed \cup {sold} /\ sold \notin closed
    BY <1>5, <1>7 DEF SaleInv, ManagerInv, TradeManagerTypeOK
  <1>9. RoundTally(p)
    <2> SUFFICES ASSUME NEW i \in Instruments
                 PROVE  IF i \in sale.quoted
                        THEN Cardinality(On(i, closed \cup {sold}))
                               + Cardinality(On(i, sale.todo \ {p})) = Cardinality(On(i, sale.asked))
                        ELSE Cardinality(On(i, closed \cup {sold})) = 0
      BY <1>8 DEF RoundTally
    <2>1. /\ IF i \in sale.quoted
             THEN Cardinality(On(i, closed))
                    + Cardinality(On(i, sale.todo)) = Cardinality(On(i, sale.asked))
             ELSE Cardinality(On(i, closed)) = 0
      BY <1>2 DEF SaleInv, Tally
    <2>2. Cardinality(On(i, closed \cup {sold})) =
              Cardinality(On(i, closed)) + (IF p.instrument = i THEN 1 ELSE 0)
      BY <1>4, <1>7, <1>8, OnAdd
    <2>3. Cardinality(On(i, sale.todo \ {p})) =
              Cardinality(On(i, sale.todo)) - (IF p.instrument = i THEN 1 ELSE 0)
      BY <1>1, OnRemove DEF SaleInv, ManagerInv, Finite
    <2>4. /\ Cardinality(On(i, closed)) \in Nat /\ Cardinality(On(i, sale.todo)) \in Nat
          /\ Cardinality(On(i, sale.asked)) \in Nat
      BY <1>7, OnFinite DEF SaleInv, ManagerInv, Finite, ClosedApart
    <2> HIDE DEF closed
    <2> QED
      BY <1>2, <2>1, <2>2, <2>3, <2>4
  <1>10. ClosedApart'
    <2>1. sale'.asked = sale.asked \/ sale'.asked = {}
      BY <1>2 DEF Advance, Continue, NoSale
    <2>2. IsFiniteSet(closedPositions') /\ IsFiniteSet(sale'.asked)
      BY <1>5, <1>7, <2>1, FS_AddElement, FS_EmptySet DEF SaleInv, ClosedApart
    <2>3. activePositions' \cap closedPositions' = {}
      BY <1>5 DEF SaleInv, ClosedApart
    <2>4. Cardinality(closedOrders') = Cardinality(closedOrders) + 1
      BY <1>5, <1>6, FS_AddElement DEF SaleInv, ManagerInv, Finite
    <2>5. /\ Cardinality(closedOrders) \in Nat
          /\ \A q \in closedPositions : q.id \in Nat /\ q.id <= Cardinality(closedOrders)
          /\ sold.id \in Nat /\ sold.id <= Cardinality(closedOrders)
      BY <1>4, FS_CardinalityType
      DEF SaleInv, ClosedApart, ManagerInv, Finite, FreshIds, TradeManagerTypeOK, Positions
    <2>6. ASSUME NEW q \in closedPositions' PROVE q.id <= Cardinality(closedOrders')
      BY <1>5, <2>4, <2>5
    <2> QED
      BY <2>2, <2>3, <2>6 DEF ClosedApart
  <1> QED
    BY <1>9, <1>10 DEF p

(* The tally of a round is that of the state it leads to, or the loop is   *)
(* over.                                                                   *)
LEMMA RoundKeepsTally ==
    ASSUME NEW p, Advance(p), RoundTally(p)
    PROVE  Tally'
  BY DEF Advance, Continue, Idle, NoSale, Tally, RoundTally

LEMMA OpenFilledApart ==
    ASSUME SaleInv, NEW s \in Strategies, NEW d \in Directions, NEW i \in Instruments,
           OpenFilled(s, d, i)
    PROVE  ClosedApart'
  <1> DEFINE position == [id |-> NextId, strategyId |-> conf[s], instrument |-> i,
                          dir |-> Requested(s)]
             order == [id |-> NextId, instrument |-> i, isClosing |-> FALSE]
  <1>1. /\ activePositions' = activePositions \cup {position}
        /\ closedOrders' = closedOrders \cup {order}
        /\ closedPositions' = closedPositions /\ sale' = sale
    BY DEF OpenFilled
  <1>2. order \notin closedOrders
    BY NextIdFresh DEF SaleInv
  <1>3. Cardinality(closedOrders) \in Nat /\ position.id = Cardinality(closedOrders) + 1
    BY NextIdFresh, FS_CardinalityType DEF SaleInv, ManagerInv, Finite
  <1> HIDE DEF position, order
  <1>4. Cardinality(closedOrders') = Cardinality(closedOrders) + 1
    BY <1>1, <1>2, FS_AddElement DEF SaleInv, ManagerInv, Finite
  <1>5. \A q \in closedPositions : q.id \in Nat /\ q.id <= Cardinality(closedOrders)
    BY DEF SaleInv, ClosedApart, ManagerInv, TradeManagerTypeOK, Positions
  <1>6. position \notin closedPositions
    BY <1>3, <1>5
  <1>7. \A q \in closedPositions' : q.id <= Cardinality(closedOrders')
    BY <1>1, <1>3, <1>4, <1>5
  <1> QED
    BY <1>1, <1>6, <1>7 DEF SaleInv, ClosedApart

LEMMA StartSaleTally ==
    ASSUME SaleInv, NEW s \in Strategies, NEW quoted \in SUBSET Instruments,
           StartSale(s, quoted)
    PROVE  ClosedApart' /\ Tally'
  <1>1. UNCHANGED <<managerVars, tradeVars>>
    BY DEF StartSale
  <1>2. OfStrategy(s) \subseteq activePositions /\ IsFiniteSet(OfStrategy(s))
    BY FS_Subset DEF OfStrategy, SaleInv, ManagerInv, Finite
  <1>3. \/ sale' = NoSale
        \/ sale' = [todo |-> OfStrategy(s), asked |-> OfStrategy(s),
                    quoted |-> quoted, closedBefore |-> closedPositions]
    BY DEF StartSale
  <1>4. ClosedApart'
    BY <1>1, <1>2, <1>3, FS_EmptySet DEF SaleInv, ClosedApart, tradeVars, NoSale
  <1>5. ASSUME NEW i
        PROVE  /\ Cardinality(On(i, closedPositions \ closedPositions)) = 0
               /\ Cardinality(On(i, OfStrategy(s))) \in Nat
    <2>1. On(i, closedPositions \ closedPositions) = {}
      BY DEF On
    <2> QED
      BY <1>2, <2>1, FS_EmptySet, OnFinite
  <1>6. Tally'
    <2>1. CASE sale' = NoSale
      BY <2>1 DEF Tally, Idle
    <2>2. CASE sale' # NoSale
      <3>1. /\ sale'.todo = OfStrategy(s) /\ sale'.asked = OfStrategy(s)
            /\ sale'.closedBefore = closedPositions /\ closedPositions' = closedPositions
        BY <1>1, <1>3, <2>2 DEF tradeVars
      <3> QED
        BY <3>1, <1>5 DEF Tally
    <2> QED
      BY <2>1, <2>2
  <1> QED
    BY <1>4, <1>6

LEMMA SaleInit == InitTradeManager => SaleInv
  <1> SUFFICES ASSUME InitTradeManager PROVE SaleInv
    OBVIOUS
  <1>1. activePositions = {} /\ closedPositions = {} /\ sale = NoSale
    BY DEF InitTradeManager
  <1>2. ClosedApart
    BY <1>1, FS_EmptySet DEF ClosedApart, NoSale
  <1>3. Tally
    BY <1>1 DEF Tally, Idle
  <1> QED
    BY <1>2, <1>3, InitInv DEF SaleInv

LEMMA SaleStep == SaleInv /\ [NextTradeManager]_tmVars => SaleInv'
  <1> SUFFICES ASSUME SaleInv, [NextTradeManager]_tmVars PROVE ClosedApart' /\ Tally'
    BY NextInv DEF SaleInv
  <1>1. ASSUME NEW s \in Strategies, NEW k \in Settings, SettingsChanged(s, k)
        PROVE  ClosedApart' /\ Tally'
    BY <1>1 DEF SettingsChanged, SaleInv, ClosedApart, Tally, tradeVars, Idle
  <1>2. ASSUME NEW s \in Strategies, Reset(s) PROVE ClosedApart' /\ Tally'
    BY <1>2, FS_EmptySet DEF Reset, ClosedApart, Tally, Idle, NoSale
  <1>3. ASSUME NEW s \in Strategies, NEW d \in Directions, OpenRefused(s, d)
        PROVE  ClosedApart' /\ Tally'
    BY <1>3 DEF OpenRefused, SaleInv, ClosedApart, Tally, tradeVars, Idle
  <1>4. ASSUME NEW s \in Strategies, NEW d \in Directions, NEW i \in Instruments,
               OpenFilled(s, d, i)
        PROVE  ClosedApart' /\ Tally'
    BY <1>4, OpenFilledApart DEF OpenFilled, Tally, Idle
  <1>5. ASSUME SellCancelled PROVE ClosedApart' /\ Tally'
    BY <1>5, CancelledRound, RoundKeepsTally DEF SellCancelled
  <1>6. ASSUME SellFilled PROVE ClosedApart' /\ Tally'
    BY <1>6, FilledRound, RoundKeepsTally DEF SellFilled
  <1>7. CASE UNCHANGED tmVars
    BY <1>7 DEF tmVars, tradeVars, SaleInv, ClosedApart, Tally, Idle
  <1> QED
    BY <1>1, <1>2, <1>3, <1>4, <1>5, <1>6, <1>7, StartSaleTally DEF NextTradeManager

THEOREM SaleInvHolds == SpecTradeManager => []SaleInv
  BY SaleInit, SaleStep, PTL DEF SpecTradeManager

(* The step that ends a sale: nothing is left to sell, so what was closed  *)
(* since it started is what was asked for.                                 *)
LEMMA SaleEnds ==
    ASSUME SaleInv, [NextTradeManager]_tmVars, ~Idle, Idle', NEW i \in Instruments
    PROVE  Cardinality(On(i, closedPositions' \ sale.closedBefore))
             = IF i \in sale.quoted THEN Cardinality(On(i, sale.asked)) ELSE 0
  <1> DEFINE p == Earliest(sale.todo)
  <1>1. SellCancelled \/ SellFilled
    BY DEF NextTradeManager, SettingsChanged, Reset, OpenRefused, OpenFilled, StartSale,
           tmVars, Idle
  <1>2. RoundTally(p) /\ Advance(p)
    BY <1>1, CancelledRound, FilledRound DEF SellCancelled, SellFilled
  <1>3. p \in sale.todo
    BY EarliestIsMember DEF Idle, SaleInv, ManagerInv, TradeManagerTypeOK
  <1> HIDE DEF p
  <1>4. sale.todo \ {p} = {}
    BY <1>2, <1>3, AdvanceType DEF Idle, NoSale, SaleInv, ManagerInv
  <1>5. Cardinality(On(i, sale.todo \ {p})) = 0
    BY <1>4, FS_EmptySet DEF On
  <1>6. IsFiniteSet(closedPositions' \ sale.closedBefore) /\ IsFiniteSet(sale.asked)
    BY <1>1, CancelledRound, FilledRound, FS_Subset DEF ClosedApart, SaleInv
  <1>7. /\ Cardinality(On(i, closedPositions' \ sale.closedBefore)) \in Nat
        /\ Cardinality(On(i, sale.asked)) \in Nat
    BY <1>6, OnFinite
  <1>8. IF i \in sale.quoted
        THEN Cardinality(On(i, closedPositions' \ sale.closedBefore))
                 + Cardinality(On(i, sale.todo \ {p})) = Cardinality(On(i, sale.asked))
        ELSE Cardinality(On(i, closedPositions' \ sale.closedBefore)) = 0
    BY <1>2, Zenon DEF RoundTally
  <1> QED
    BY <1>5, <1>7, <1>8

(* A strategy that leaves sells exactly as many positions on each quoted   *)
(* instrument as were open under its id, and none on the others, though    *)
(* every order closes the first position it finds, whoever opened it       *)
(* (handleOrderClosed and handleOrderFilled, tradeManager.ts:289).         *)
THEOREM SalesBalance == SpecTradeManager => SaleBalanced
  <1>1. SaleInv /\ [NextTradeManager]_tmVars
          => [~Idle /\ Idle' =>
                \A i \in Instruments :
                    Cardinality(On(i, closedPositions' \ sale.closedBefore))
                      = IF i \in sale.quoted THEN Cardinality(On(i, sale.asked)) ELSE 0
             ]_tmVars
    BY SaleEnds
  <1> QED
    BY <1>1, SaleInvHolds, PTL DEF SpecTradeManager, SaleBalanced
=============================================================================
