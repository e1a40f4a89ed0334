------------------------------ MODULE Strategy ------------------------------
(***************************************************************************)
(* The trading strategies of the quant service                             *)
(* (pages/side-panel/src/services/quant/strategy.ts).                      *)
(*                                                                         *)
(* A strategy object watches the options-flow indicators of QQQ and SPY.   *)
(* Each time both have changed it processes the pair: it leaves the        *)
(* position it intends to hold when price or flows say so, and otherwise   *)
(* may enter a new one.  The object keeps an intent only; the orders that  *)
(* follow from it belong to TradeManager.                                  *)
(*                                                                         *)
(* Prices and flows are integers, dollars and cents are not told apart.    *)
(* The long and the short case mirror each other: Toward(d, x) is x seen   *)
(* in the direction d, so that larger is always better for the holder.     *)
(***************************************************************************)
EXTENDS Integers

CONSTANTS
    Strategies,    \* the strategy objects
    Prices,        \* prices of the underlying an indicator can carry
    Flows,         \* pairs [qqq, spy] of cumulative flows the indicators can carry
    TakeProfits,   \* choices of the take-profit setting, in price units
    StopLosses,    \* choices of the stop-loss setting, 0 switches it off
    Bullish,       \* the bullishThreshold setting
    Bearish,       \* the bearishThreshold setting
    Widening,      \* the wideningThreshold setting
    WarmUpTicks    \* WARM_UP_TICKS

ASSUME StrategyAssumption ==
    /\ Prices \subseteq Nat \ {0}
    /\ Flows \subseteq [qqq : Int, spy : Int]
    /\ TakeProfits \subseteq Nat \ {0}
    /\ StopLosses \subseteq Nat
    /\ Bullish \in Nat /\ Bearish \in Int /\ Bearish <= 0
    /\ Widening \in Nat
    /\ WarmUpTicks \in Nat \ {0}

Directions == {"LONG", "SHORT"}

Types == Directions \cup {"TWO_WAY"}

ExitReasons == {"FLOW_THRESHOLD", "CUMULATIVE_FLOW", "TAKE_PROFIT", "TRAILING_STOP"}

Settings == [strategyType : Types, takeProfit : TakeProfits, stopLoss : StopLosses]

Symbols == {"QQQ", "SPY"}

(* The pair of indicators one run of the callback processes: the price of  *)
(* the traded symbol, both cumulative flows, and whether the last call     *)
(* (put) flow of either symbol is below MIN_FLOW_THRESHOLD.                *)
Pairs == [price : Prices, flows : Flows, callLow : BOOLEAN, putLow : BOOLEAN]

VARIABLES
    settings,      \* strategy -> the settings it was built with
    tickCounter,   \* strategy -> QQQ updates seen, up to WarmUpTicks
    pending,       \* strategy -> symbols that changed since the last pair
    missing,       \* strategy -> symbols whose indicator reads undefined now
    intent,        \* strategy -> positionIntent, the position it believes to hold
    lastExit,      \* strategy -> lastExitReason and lastExitDirection
    lastFlows,     \* strategy -> lastCumulativeValueQQQ/SPY, recorded at exits
    seen,          \* history: strategy -> while it holds, the last pair it processed
    left           \* history: strategy -> until it enters again, how it left and on
                   \*   which flows

strategyVars ==
    <<settings, tickCounter, pending, missing, intent, lastExit, lastFlows, seen, left>>

Toward(d, x) == IF d = "LONG" THEN x ELSE -x

NoIntent == [dir |-> "NONE", price |-> 0, extreme |-> 0]

NoExit == [reason |-> "NONE", dir |-> "NONE"]

NoFlows == [qqq |-> 0, spy |-> 0]

NoPair == [price |-> 0, flows |-> NoFlows]

NotLeft == [dir |-> "NONE", byPrice |-> FALSE, flows |-> NoFlows]

Holds(s) == intent[s].dir # "NONE"

InitStrategy ==
    /\ settings \in [Strategies -> Settings]
    /\ tickCounter = [s \in Strategies |-> 0]
    /\ pending = [s \in Strategies |-> {}]
    /\ missing = [s \in Strategies |-> Symbols]
    /\ intent = [s \in Strategies |-> NoIntent]
    /\ lastExit = [s \in Strategies |-> NoExit]
    /\ lastFlows = [s \in Strategies |-> NoFlows]
    /\ seen = [s \in Strategies |-> NoPair]
    /\ left = [s \in Strategies |-> NotLeft]

-----------------------------------------------------------------------------
(* isBullish for LONG, isBearish for SHORT.                                *)
Market(d, flows) ==
    IF d = "LONG" THEN flows.qqq > Bullish /\ flows.spy > Bullish
                  ELSE flows.qqq < Bearish /\ flows.spy < Bearish

Opposite(d) == IF d = "LONG" THEN "SHORT" ELSE "LONG"

(* callFlowBelowThreshold guards longs, putFlowBelowThreshold shorts.      *)
FlowLow(d, t) == IF d = "LONG" THEN t.callLow ELSE t.putLow

(* The market turned against a position in direction d. *)
AgainstLong(d, flows) == d = "LONG" /\ Market("SHORT", flows)

Against(d, flows) == Market(Opposite(d), flows)

Warm(s) == tickCounter'[s] >= WarmUpTicks

(* isValidStrategyDirection *)
AdmitsAll(s, d) == settings[s].strategyType \in Types

Admits(s, d) == settings[s].strategyType \in {d, "TWO_WAY"}

(* checkTakeProfit *)
ReachesTarget(s, p) ==
    LET i == intent[s]
    IN  Toward(i.dir, p) >= Toward(i.dir, i.price) + settings[s].takeProfit

(* maxPrice of a long, minPrice of a short intent once price p is seen.    *)
ExtremeAtEntry(s, p) == intent[s].price

Extreme(s, p) ==
    LET i == intent[s]
    IN  IF settings[s].stopLoss > 0 /\ Toward(i.dir, p) > Toward(i.dir, i.extreme)
        THEN p ELSE i.extreme

(* checkTrailingStop *)
HitsStop(s, p) ==
    LET i == intent[s]
    IN  /\ settings[s].stopLoss > 0
        /\ Toward(i.dir, p) <= Toward(i.dir, Extreme(s, p)) - settings[s].stopLoss

(* The held intent is given up on pair t for this reason.  The price is    *)
(* looked at first, and during the warm-up too; the flows only after it.   *)
LeavesFor(s, t, reason) ==
    LET d == intent[s].dir
        target == ReachesTarget(s, t.price)
        stop == HitsStop(s, t.price)
    IN  /\ Holds(s)
        /\ \/ reason = "TAKE_PROFIT" /\ target
           \/ reason = "TRAILING_STOP" /\ ~target /\ stop
           \/ reason = "FLOW_THRESHOLD" /\ ~target /\ ~stop /\ Warm(s) /\ FlowLow(d, t)
           \/ /\ reason = "CUMULATIVE_FLOW" /\ ~target /\ ~stop /\ Warm(s)
              /\ ~FlowLow(d, t) /\ Against(d, t.flows)

Widened(d, from, to) ==
    /\ Toward(d, to.qqq) >= Toward(d, from.qqq) + Widening
    /\ Toward(d, to.spy) >= Toward(d, from.spy) + Widening

(* The market flag canReenterDirection receives is isBullish for LONG and  *)
(* isBearish for SHORT; after a CUMULATIVE_FLOW exit a LONG needs the flag *)
(* set and a SHORT needs it not set.                                       *)
NeverFlips(d, flows) == ~Market(d, flows)

Flips(d, flows) == IF d = "LONG" THEN Market(d, flows) ELSE ~Market(d, flows)

WideningExitsTP == {"TAKE_PROFIT"}

WideningExits == {"TAKE_PROFIT", "TRAILING_STOP"}

(* canReenterDirection *)
CanReenter(s, d, t) ==
    LET reason == lastExit[s].reason
    IN  \/ lastExit[s].dir # d
        \/ reason \notin {"CUMULATIVE_FLOW"} \cup WideningExits
        \/ reason = "CUMULATIVE_FLOW" /\ Flips(d, t.flows)
        \/ reason \in WideningExits /\ Widened(d, lastFlows[s], t.flows)

(* The re-entry that a last exit had to allow also forgets that exit.      *)
ExitAfterEntry(s, d) ==
    IF lastExit[s].dir = d /\ lastExit[s].reason \in {"CUMULATIVE_FLOW"} \cup WideningExits
    THEN NoExit ELSE lastExit[s]

(* canOpenLong or canOpenShort, and the checks handleSignal repeats.       *)
CanOpen(s, d, t) ==
    /\ ~Holds(s)
    /\ Warm(s)
    /\ Admits(s, d)
    /\ ~FlowLow(d, t)
    /\ Market(d, t.flows)
    /\ CanReenter(s, d, t)

-----------------------------------------------------------------------------
(* The callback of setupDataHandlers, for a run in which the indicators of *)
(* changed differ from their last values and those of gone have become     *)
(* undefined.  It goes on to the pair once both symbols have changed since *)
(* the last one and both are defined.                                      *)
Gone(s, changed, gone) == (missing[s] \ changed) \cup gone

Complete(s, changed, gone) ==
    pending[s] \cup changed = Symbols /\ Gone(s, changed, gone) = {}

TickedOn(s, changed, gone) ==
    IF "QQQ" \in changed \ gone THEN tickCounter[s] + 1 ELSE tickCounter[s]

Ticked(s, changed, gone) ==
    IF "QQQ" \in changed \ gone /\ tickCounter[s] < WarmUpTicks
    THEN tickCounter[s] + 1 ELSE tickCounter[s]

Receive(s, changed, gone) ==
    /\ tickCounter' = [tickCounter EXCEPT ![s] = Ticked(s, changed, gone)]
    /\ pending' = [pending EXCEPT ![s] =
           IF Complete(s, changed, gone) THEN {} ELSE @ \cup changed]
    /\ missing' = [missing EXCEPT ![s] = Gone(s, changed, gone)]
    /\ UNCHANGED settings

(* A symbol is still to change or undefined, or the pair lacks a price or  *)
(* a flow of the chosen period: nothing is traded on it.                   *)
Wait(s, changed, gone) ==
    /\ gone \cap missing[s] = {}
    /\ Receive(s, changed, gone)
    /\ UNCHANGED <<intent, lastExit, lastFlows, seen, left>>

(* A complete pair t is processed. *)
ReceivePair(s, changed, t) ==
    /\ Complete(s, changed, {})
    /\ Receive(s, changed, {})
    /\ seen' = [seen EXCEPT ![s] =
           IF Holds(s)' THEN [price |-> t.price, flows |-> t.flows] ELSE NoPair]

(* closePosition: record the flows, fire onPositionClosed, drop the intent.*)
Close(s, changed, t) ==
    /\ intent' = [intent EXCEPT ![s] = NoIntent]
    /\ ReceivePair(s, changed, t)
    /\ \E reason \in ExitReasons :
           /\ LeavesFor(s, t, reason)
           /\ lastExit' = [lastExit EXCEPT ![s] = [reason |-> reason, dir |-> intent[s].dir]]
    /\ lastFlows' = [lastFlows EXCEPT ![s] = t.flows]
    /\ left' = [left EXCEPT ![s] =
           [dir |-> intent[s].dir,
            byPrice |-> ReachesTarget(s, t.price) \/ HitsStop(s, t.price),
            flows |-> t.flows]]

(* openPosition: set the intent, then fire onPositionOpened.               *)
Open(s, changed, t, d) ==
    /\ intent' = [intent EXCEPT ![s] = [dir |-> d, price |-> t.price, extreme |-> t.price]]
    /\ ReceivePair(s, changed, t)
    /\ CanOpen(s, d, t)
    /\ lastExit' = [lastExit EXCEPT ![s] = ExitAfterEntry(s, d)]
    /\ left' = [left EXCEPT ![s] = NotLeft]
    /\ UNCHANGED lastFlows

(* The pair changes nothing but the trailing extreme of a held intent.     *)
Keep(s, changed, t) ==
    /\ intent' = [intent EXCEPT ![s] =
           IF Holds(s)
           THEN [dir |-> @.dir, price |-> @.price, extreme |-> Extreme(s, t.price)]
           ELSE @]
    /\ ReceivePair(s, changed, t)
    /\ \A reason \in ExitReasons : ~LeavesFor(s, t, reason)
    /\ \A d \in Directions : ~CanOpen(s, d, t)
    /\ UNCHANGED <<lastExit, lastFlows, left>>

Changes == SUBSET Symbols \ {{}}

(* One processed pair. *)
Process(s, changed, t) ==
    \/ Close(s, changed, t)
    \/ Keep(s, changed, t)
    \/ \E d \in Directions : Open(s, changed, t, d)

NextStrategy ==
    \E s \in Strategies, changed \in Changes :
        \/ \E gone \in SUBSET changed : Wait(s, changed, gone)
        \/ \E t \in Pairs : Process(s, changed, t)

SpecStrategy == InitStrategy /\ [][NextStrategy]_strategyVars

(* The market is not the program's to schedule.  The liveness properties   *)
(* assume one that keeps coming back to either side with the flow of that  *)
(* side above its threshold, and a feed that keeps delivering pairs.       *)
MarketReturns ==
    \A s \in Strategies, d \in Directions :
        WF_strategyVars(\E t \in Pairs :
            Market(d, t.flows) /\ ~FlowLow(d, t) /\ Process(s, Symbols, t))

FairSpecStrategy == SpecStrategy /\ MarketReturns

(* To the trade manager a strategy is the direction it holds. *)
Signals == INSTANCE Signals WITH
    kind <- [s \in Strategies |-> settings[s].strategyType],
    held <- [s \in Strategies |-> intent[s].dir]

-----------------------------------------------------------------------------
StrategyTypeOK ==
    /\ settings \in [Strategies -> Settings]
    /\ tickCounter \in [Strategies -> 0..WarmUpTicks]
    /\ pending \in [Strategies -> SUBSET Symbols]
    /\ missing \in [Strategies -> SUBSET Symbols]
    /\ intent \in [Strategies -> [dir : Directions \cup {"NONE"}, price : Prices \cup {0},
                                  extreme : Prices \cup {0}]]
    /\ lastExit \in [Strategies -> [reason : ExitReasons \cup {"NONE"},
                                    dir : Directions \cup {"NONE"}]]
    /\ lastFlows \in [Strategies -> Flows \cup {NoFlows}]
    /\ seen \in [Strategies -> [price : Prices \cup {0}, flows : Flows \cup {NoFlows}]]
    /\ left \in [Strategies -> [dir : Directions \cup {"NONE"}, byPrice : BOOLEAN,
                                flows : Flows \cup {NoFlows}]]

(* A held intent lies strictly between its trailing stop and its target at *)
(* the last processed price, and the trailing extreme has followed every   *)
(* price seen since the entry: no pair slips through the exit checks.      *)
HeldInsideBand ==
    \A s \in Strategies :
        LET i == intent[s]
            p == Toward(i.dir, seen[s].price)
        IN  Holds(s) =>
              /\ p < Toward(i.dir, i.price) + settings[s].takeProfit
              /\ settings[s].stopLoss > 0 =>
                    /\ Toward(i.dir, i.extreme) >= p
                    /\ Toward(i.dir, i.extreme) >= Toward(i.dir, i.price)
                    /\ p > Toward(i.dir, i.extreme) - settings[s].stopLoss

(* A held intent is never left standing against the market it last saw.    *)
HeldWithMarket ==
    \A s \in Strategies : Holds(s) => ~Market(Opposite(intent[s].dir), seen[s].flows)

(* After a take-profit or trailing-stop exit the next entry, if it is in   *)
(* the same direction, waits until both cumulative flows have widened over *)
(* their values at that exit, whatever entries and exits came before.      *)
ReentryNeedsWidening ==
    [][\A s \in Strategies :
         ~Holds(s) /\ Holds(s)' /\ left[s].byPrice /\ left[s].dir = intent'[s].dir
           => Widened(left[s].dir, left[s].flows, seen'[s].flows)
      ]_strategyVars

(* Seen by the trade manager, a strategy opens and closes in turn and only *)
(* in the directions of its strategyType, although processCombined-        *)
(* Indicators, handleSignal and canOpenPosition each check a part of it.   *)
ImplementsSignals == Signals!SpecSignals

OutAfterFlip(s, type) ==
    /\ settings[s].strategyType = type
    /\ lastExit[s].reason = "CUMULATIVE_FLOW"
    /\ ~Holds(s)

(* "For cumulative flow exits, require opposite market direction before    *)
(* re-entry" (strategy.ts:368), for a strategy that trades longs only: the *)
(* exit came when the market turned bearish, so the next bullish pair with *)
(* enough call flow lets it in again.                                      *)
LongReentersAfterFlip ==
    \A s \in Strategies : OutAfterFlip(s, "LONG") ~> Holds(s)

(* The same for a strategy that trades shorts only.                        *)
ShortReentersAfterFlip ==
    \A s \in Strategies : OutAfterFlip(s, "SHORT") ~> Holds(s)
=============================================================================
