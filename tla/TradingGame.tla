---------------------------- MODULE TradingGame ----------------------------
(***************************************************************************)
(* The paper trading game of the side panel                                *)
(* (pages/side-panel/src/services/tradingGame), on the market data of an   *)
(* OptionChain.  The user buys options, one contract at a time, and sells  *)
(* the positions; each open position subscribes to the market data, which  *)
(* gives it its mark.                                                      *)
(*                                                                         *)
(* An order is filled or cancelled before the call that made it returns,   *)
(* and all subscribers of the market data run within the step that sets    *)
(* it.  A cancelled order leaves no trace, so only those that are filled   *)
(* have an action.  Of the options the code would choose among by their    *)
(* type and delta, any may be.                                             *)
(***************************************************************************)
EXTENDS OptionChain, FiniteSets, Functions

CONSTANT MaxPositions  \* bound: positions opened since the last reset

ASSUME GameAssumption == MaxPositions \in Nat

VARIABLES
    opened,           \* positions opened since the last reset
    activePositions, closedPositions,
    subscriptions,    \* ids of positions with a subscription to the market data
    cash,             \* history: what the fills have paid
    held              \* history: instrument -> contracts bought less those sold

historyVars == <<cash, held>>
gameVars == <<opened, activePositions, closedPositions, subscriptions, historyVars>>
vars == <<chainVars, gameVars>>

Active == [id : Nat, instrument : Instruments, entry : Nat, mark : Nat]

Sold == [id : Nat, instrument : Instruments, entry : Nat, exit : Nat]

Fresh ==
    /\ opened = 0
    /\ activePositions = {} /\ closedPositions = {}
    /\ subscriptions = {}
    /\ cash = 0 /\ held = [i \in Instruments |-> 0]

Init == InitChain /\ Fresh

-----------------------------------------------------------------------------
On(i, S) == {p \in S : p.instrument = i}

(* Maps keep their entries in the order of insertion, which is that of ids.*)
Earliest(S) == CHOOSE p \in S : \A q \in S : p.id <= q.id

IsPrice(x) == x # NaN

Quote(i) == market[i]

(* A quote gives a mark: its bid or, for want of one, the middle.          *)
Marks(q) == q # NoQuote /\ IsPrice(q.bid) /\ (q.bid > 0 \/ IsPrice(q.ask))

MarkOf(q) == IF q.bid > 0 THEN q.bid ELSE (q.ask + q.bid) \div 2

(* Mutant: a bid that is missing is not told from one that is there.       *)
MarkUnparsed(mark, q) ==
    IF q = NoQuote \/ q.bid = 0 THEN mark ELSE q.bid

(* The mark after a look at the market data.                               *)
Remark(mark, q) == IF Marks(q) THEN MarkOf(q) ELSE mark

(* openPosition with the whole execution of its order; the subscription    *)
(* looks at the market data at once.                                       *)
OpenPosition(i) ==
    LET q == Quote(i)
        id == opened + 1
    IN  /\ opened < MaxPositions
        /\ q # NoQuote /\ IsPrice(q.ask)
        /\ opened' = id
        /\ activePositions' = activePositions \cup
               {[id |-> id, instrument |-> i, entry |-> q.ask, mark |-> Remark(q.ask, q)]}
        /\ subscriptions' = subscriptions \cup {id}
        /\ cash' = cash - q.ask
        /\ held' = [held EXCEPT ![i] = @ + 1]
        /\ UNCHANGED <<chainVars, closedPositions>>

(* Mutant: the first active position.                                      *)
MatchingAny(p) == activePositions

(* The positions that an order made for p may close.                       *)
Matching(p) == On(p.instrument, activePositions)

(* Mutant: the subscription of the position the order was made for.        *)
UnsubscribedChosen(p, sold) == p.id

Unsubscribed(p, sold) == sold.id

(* Mutant: a price of zero counts as absent.                               *)
ExitOrMark(p, bid) == IF bid = 0 THEN p.mark ELSE bid

(* Position.close: the price it was sold for.                              *)
ExitPrice(p, bid) == bid

(* closePositionById with the whole execution of its order.  The handler   *)
(* of the fill goes by the instrument of the order.                        *)
ClosePosition(p) ==
    LET q == Quote(p.instrument)
        sold == Earliest(Matching(p))
    IN  /\ q # NoQuote /\ IsPrice(q.bid)
        /\ activePositions' = activePositions \ {sold}
        /\ closedPositions' = closedPositions \cup
               {[id |-> sold.id, instrument |-> sold.instrument, entry |-> sold.entry,
                 exit |-> ExitPrice(sold, q.bid)]}
        /\ subscriptions' = subscriptions \ {Unsubscribed(p, sold)}
        /\ cash' = cash + q.bid
        /\ held' = [held EXCEPT ![p.instrument] = @ - 1]
        /\ UNCHANGED <<chainVars, opened>>

Reset ==
    /\ opened' = 0
    /\ activePositions' = {} /\ closedPositions' = {}
    /\ subscriptions' = {}
    /\ cash' = 0 /\ held' = [i \in Instruments |-> 0]
    /\ UNCHANGED chainVars

Profit(p) == p.exit - p.entry

(* calculateTotalPL. *)
TotalPL == SumFunction([p \in closedPositions |-> Profit(p)])

(* The autoruns of the subscriptions.                                      *)
Updated(p) ==
    IF p.id \in subscriptions
    THEN [p EXCEPT !.mark = Remark(p.mark, market'[p.instrument])] ELSE p

MarketData(s) ==
    /\ Publish(s)
    /\ activePositions' = {Updated(p) : p \in activePositions}
    /\ UNCHANGED <<opened, closedPositions, subscriptions, historyVars>>

Next ==
    \/ \E i \in Instruments : OpenPosition(i)
    \/ \E p \in activePositions : ClosePosition(p)
    \/ Reset
    \/ \E s \in Slots : MarketData(s)
    \/ (Move \/ \E s \in Slots : Fetching(s)) /\ UNCHANGED gameVars

Spec == Init /\ [][Next]_vars

(* The timer goes on, every batch is answered or fails in the end, and     *)
(* quotes that are asked for again and again are got in the end.           *)
Fairness ==
    \A s \in Slots :
        /\ WF_vars(Tick(s) /\ UNCHANGED gameVars)
        /\ SF_vars(ReadBatch(s, missing[s]) /\ UNCHANGED gameVars)
        /\ SF_vars(MarketData(s) /\ Apply(s))

FairSpec == Spec /\ Fairness

-----------------------------------------------------------------------------
(* Every variable has its type; a mark is a price, never one that is       *)
(* missing.                                                                *)
GameTypeOK ==
    /\ ChainTypeOK
    /\ opened \in 0..MaxPositions
    /\ activePositions \subseteq Active
    /\ closedPositions \subseteq Sold
    /\ subscriptions \subseteq 1..opened
    /\ cash \in Int
    /\ held \in [Instruments -> Int]

(* An open position shows the profit of the market data there is, however  *)
(* the positions on its instrument were sold before.                       *)
MarksAreCurrent ==
    \A p \in activePositions :
        Marks(market[p.instrument]) => p.mark = MarkOf(market[p.instrument])

(* On every instrument there are as many open positions as contracts were  *)
(* bought and not sold, whichever positions the user chose to sell.        *)
PositionsMatchFills ==
    \A i \in Instruments : Cardinality(On(i, activePositions)) = held[i]

(* calculateTotalPL: the profits of the closed positions and what the open *)
(* ones have cost add up to what the fills have paid, also when one        *)
(* position is closed in place of another or for nothing.                  *)
ProfitIsPaid ==
    TotalPL = cash + SumFunction([p \in activePositions |-> p.entry])

(* Once the market rests, the marks of the positions it has quotes for     *)
(* become those of the exchange and stay so, though older answers overtake *)
(* newer ones and fetches fail.                                            *)
MarksSettle ==
    <>[](\A p \in activePositions :
            p.instrument \in near /\ Marks(quote[p.instrument]) =>
                p.mark = MarkOf(quote[p.instrument]))
=============================================================================
