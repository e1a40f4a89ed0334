--------------------------- MODULE StrategyProofs ---------------------------
(***************************************************************************)
(* Proofs about Strategy, for any number of strategies, prices, flows and  *)
(* settings.  StrategyInv is the inductive invariant: the type invariant,  *)
(* the three invariants on held intents, and ExitRemembered, the fact that *)
(* makes the rule on re-entries hold.                                      *)
(***************************************************************************)
EXTENDS Strategy, TLAPS

(* While a strategy is out after a price exit, lastExit and lastFlows are  *)
(* those of that exit.                                                     *)
ExitRemembered ==
    \A s \in Strategies :
        ~Holds(s) /\ left[s].byPrice =>
            /\ lastExit[s].dir = left[s].dir
            /\ lastExit[s].reason \in WideningExits
            /\ lastFlows[s] = left[s].flows

(* A strategy that holds an intent has finished its warm-up: the callback  *)
(* counts only QQQ updates, processes pairs before the count is reached,   *)
(* and skips just the entry during that time.                              *)
NoTradeBeforeWarmUp == \A s \in Strategies : Holds(s) => tickCounter[s] = WarmUpTicks

HeldInv == NoTradeBeforeWarmUp /\ HeldInsideBand /\ HeldWithMarket

StrategyInv == StrategyTypeOK /\ HeldInv /\ ExitRemembered

(* The callback leaves every part of the input state well typed.           *)
LEMMA ReceiveType ==
    ASSUME StrategyTypeOK, NEW s \in Strategies, NEW changed \in Changes,
           NEW gone \in SUBSET changed, Receive(s, changed, gone)
    PROVE  /\ settings' \in [Strategies -> Settings]
           /\ tickCounter' \in [Strategies -> 0..WarmUpTicks]
           /\ pending' \in [Strategies -> SUBSET Symbols]
           /\ missing' \in [Strategies -> SUBSET Symbols]
  <1>1. Ticked(s, changed, gone) \in 0..WarmUpTicks
    BY StrategyAssumption DEF StrategyTypeOK, Ticked
  <1>2. Gone(s, changed, gone) \in SUBSET Symbols
    BY DEF StrategyTypeOK, Gone, Changes
  <1> QED
    BY <1>1, <1>2 DEF StrategyTypeOK, Receive, Changes

(* A strategy that was warm stays warm.                                    *)
LEMMA ReceiveKeepsWarm ==
    ASSUME StrategyTypeOK, NEW s \in Strategies, NEW changed \in Changes,
           NEW gone \in SUBSET changed, Receive(s, changed, gone)
    PROVE  \A o \in Strategies :
               tickCounter[o] = WarmUpTicks => tickCounter'[o] = WarmUpTicks
  BY StrategyAssumption DEF StrategyTypeOK, Receive, Ticked

(* A market cannot run in both directions.                                 *)
LEMMA OneMarket ==
    ASSUME NEW d \in Directions, NEW flows \in Flows, Market(d, flows)
    PROVE  ~Market(Opposite(d), flows)
  BY StrategyAssumption DEF Directions, Market, Opposite

LEMMA InitInv == InitStrategy => StrategyInv
  <1> SUFFICES ASSUME InitStrategy PROVE StrategyInv
    OBVIOUS
  <1> USE DEF InitStrategy
  <1>1. StrategyTypeOK
    BY StrategyAssumption
    DEF StrategyTypeOK, NoIntent, NoExit, NoFlows, NoPair, NotLeft, Symbols
  <1>2. \A s \in Strategies : ~Holds(s) /\ ~left[s].byPrice
    BY DEF Holds, NoIntent, NotLeft
  <1> QED
    BY <1>1, <1>2 DEF StrategyInv, HeldInv, NoTradeBeforeWarmUp, HeldInsideBand,
                      HeldWithMarket, ExitRemembered

LEMMA WaitInv ==
    ASSUME StrategyInv, NEW s \in Strategies, NEW changed \in Changes,
           NEW gone \in SUBSET changed, Wait(s, changed, gone)
    PROVE  StrategyInv'
  <1> USE DEF Wait
  <1>1. StrategyTypeOK'
    BY ReceiveType DEF StrategyInv, StrategyTypeOK
  <1>2. settings' = settings
    BY DEF Receive
  <1>3. NoTradeBeforeWarmUp'
    BY ReceiveKeepsWarm DEF StrategyInv, HeldInv, NoTradeBeforeWarmUp, Holds
  <1>4. HeldInsideBand' /\ HeldWithMarket' /\ ExitRemembered'
    BY <1>2 DEF StrategyInv, HeldInv, HeldInsideBand, HeldWithMarket, ExitRemembered, Holds
  <1> QED
    BY <1>1, <1>3, <1>4 DEF StrategyInv, HeldInv

LEMMA CloseInv ==
    ASSUME StrategyInv, NEW s \in Strategies, NEW changed \in Changes, NEW t \in Pairs,
           Close(s, changed, t)
    PROVE  StrategyInv'
  <1> USE DEF Close, ReceivePair
  <1>1. PICK reason \in ExitReasons :
            /\ LeavesFor(s, t, reason)
            /\ lastExit' = [lastExit EXCEPT ![s] = [reason |-> reason, dir |-> intent[s].dir]]
    OBVIOUS
  <1>2. intent' = [intent EXCEPT ![s] = NoIntent] /\ ~Holds(s)'
    BY DEF StrategyInv, StrategyTypeOK, Holds, NoIntent
  <1>3. StrategyTypeOK'
    <2>1. /\ settings' \in [Strategies -> Settings]
          /\ tickCounter' \in [Strategies -> 0..WarmUpTicks]
          /\ pending' \in [Strategies -> SUBSET Symbols]
          /\ missing' \in [Strategies -> SUBSET Symbols]
      BY ReceiveType DEF StrategyInv
    <2>2. intent[s].dir \in Directions /\ t.flows \in Flows
      BY <1>1 DEF StrategyInv, StrategyTypeOK, LeavesFor, Holds, Pairs
    <2>3. intent' \in [Strategies -> [dir : Directions \cup {"NONE"}, price : Prices \cup {0},
                                      extreme : Prices \cup {0}]]
      BY <1>2 DEF StrategyInv, StrategyTypeOK, NoIntent
    <2>4. lastExit' \in [Strategies -> [reason : ExitReasons \cup {"NONE"},
                                        dir : Directions \cup {"NONE"}]]
      BY <1>1, <2>2 DEF StrategyInv, StrategyTypeOK
    <2>5. lastFlows' \in [Strategies -> Flows \cup {NoFlows}]
      BY <2>2 DEF StrategyInv, StrategyTypeOK
    <2>6. seen' \in [Strategies -> [price : Prices \cup {0}, flows : Flows \cup {NoFlows}]]
      BY <1>2 DEF StrategyInv, StrategyTypeOK, NoPair
    <2>7. (ReachesTarget(s, t.price) \/ HitsStop(s, t.price)) \in BOOLEAN
      BY Zenon DEF HitsStop
    <2>8. left' \in [Strategies -> [dir : Directions \cup {"NONE"}, byPrice : BOOLEAN,
                                    flows : Flows \cup {NoFlows}]]
      <3> DEFINE price == ReachesTarget(s, t.price) \/ HitsStop(s, t.price)
      <3> HIDE DEF price
      <3>1. left' = [left EXCEPT ![s] =
                        [dir |-> intent[s].dir, byPrice |-> price, flows |-> t.flows]]
        BY DEF price
      <3>2. price \in BOOLEAN
        BY <2>7 DEF price
      <3> QED
        BY <3>1, <3>2, <2>2 DEF StrategyInv, StrategyTypeOK
    <2> QED
      BY <2>1, <2>3, <2>4, <2>5, <2>6, <2>8 DEF StrategyTypeOK
  <1>4. \A o \in Strategies \ {s} :
            /\ intent'[o] = intent[o] /\ seen'[o] = seen[o] /\ left'[o] = left[o]
            /\ lastExit'[o] = lastExit[o] /\ lastFlows'[o] = lastFlows[o]
    BY <1>1, <1>2 DEF StrategyInv, StrategyTypeOK
  <1>5. settings' = settings
    BY DEF Receive
  <1>6. NoTradeBeforeWarmUp'
    BY <1>2, <1>4, ReceiveKeepsWarm DEF StrategyInv, HeldInv, NoTradeBeforeWarmUp, Holds
  <1>7. HeldInsideBand' /\ HeldWithMarket'
    BY <1>2, <1>4, <1>5 DEF StrategyInv, HeldInv, HeldInsideBand, HeldWithMarket, Holds
  <1>8. ExitRemembered'
    <2>1. left'[s].byPrice => reason \in WideningExits
      BY <1>1 DEF StrategyInv, StrategyTypeOK, LeavesFor, WideningExits
    <2>2. /\ lastExit'[s].dir = left'[s].dir
          /\ lastExit'[s].reason = reason
          /\ lastFlows'[s] = left'[s].flows
      BY <1>1 DEF StrategyInv, StrategyTypeOK
    <2> QED
      BY <2>1, <2>2, <1>4 DEF StrategyInv, ExitRemembered, Holds
  <1> QED
    BY <1>3, <1>6, <1>7, <1>8 DEF StrategyInv, HeldInv

LEMMA OpenInv ==
    ASSUME StrategyInv, NEW s \in Strategies, NEW changed \in Changes, NEW t \in Pairs,
           NEW d \in Directions, Open(s, changed, t, d)
    PROVE  StrategyInv'
  <1> USE DEF Open, ReceivePair
  <1>1. /\ intent'[s] = [dir |-> d, price |-> t.price, extreme |-> t.price]
        /\ Holds(s)'
        /\ seen'[s] = [price |-> t.price, flows |-> t.flows]
    BY DEF StrategyInv, StrategyTypeOK, Holds, Directions
  <1>2. \A o \in Strategies \ {s} :
            /\ intent'[o] = intent[o] /\ seen'[o] = seen[o] /\ left'[o] = left[o]
            /\ lastExit'[o] = lastExit[o] /\ lastFlows'[o] = lastFlows[o]
    BY DEF StrategyInv, StrategyTypeOK
  <1>3. StrategyTypeOK'
    <2>1. /\ settings' \in [Strategies -> Settings]
          /\ tickCounter' \in [Strategies -> 0..WarmUpTicks]
          /\ pending' \in [Strategies -> SUBSET Symbols]
          /\ missing' \in [Strategies -> SUBSET Symbols]
      BY ReceiveType DEF StrategyInv
    <2>2. ExitAfterEntry(s, d) \in [reason : ExitReasons \cup {"NONE"},
                                    dir : Directions \cup {"NONE"}]
      BY DEF StrategyInv, StrategyTypeOK, ExitAfterEntry, NoExit
    <2> QED
      BY <2>1, <2>2, <1>1 DEF StrategyInv, StrategyTypeOK, NotLeft, Pairs
  <1>4. settings' = settings
    BY DEF Receive
  <1>5. NoTradeBeforeWarmUp'
    <2>1. Warm(s) /\ tickCounter'[s] \in 0..WarmUpTicks
      BY <1>3 DEF CanOpen, StrategyTypeOK
    <2>2. tickCounter'[s] = WarmUpTicks
      BY <2>1, StrategyAssumption DEF Warm
    <2> QED
      BY <2>2, <1>2, ReceiveKeepsWarm DEF StrategyInv, HeldInv, NoTradeBeforeWarmUp, Holds
  <1>6. HeldInsideBand'
    <2>1. /\ settings[s].takeProfit \in Nat \ {0} /\ settings[s].stopLoss \in Nat
          /\ t.price \in Nat /\ d \in Directions
      BY StrategyAssumption DEF StrategyInv, StrategyTypeOK, Settings, Pairs
    <2>2. Toward(d, t.price) \in Int
      BY <2>1 DEF Toward
    <2> QED
      BY <2>1, <2>2, <1>1, <1>2, <1>4 DEF StrategyInv, HeldInv, HeldInsideBand, Holds
  <1>7. HeldWithMarket'
    <2>1. ~Market(Opposite(d), t.flows)
      BY OneMarket DEF CanOpen, Pairs
    <2> QED
      BY <2>1, <1>1, <1>2 DEF StrategyInv, HeldInv, HeldWithMarket, Holds
  <1>8. ExitRemembered'
    BY <1>1, <1>2 DEF StrategyInv, ExitRemembered, Holds
  <1> QED
    BY <1>3, <1>5, <1>6, <1>7, <1>8 DEF StrategyInv, HeldInv

(* A pair that lets a strategy keep its intent found no reason to leave.   *)
LEMMA KeptInside ==
    ASSUME StrategyInv, NEW s \in Strategies, NEW t \in Pairs, Holds(s), Warm(s),
           \A reason \in ExitReasons : ~LeavesFor(s, t, reason)
    PROVE  /\ ~ReachesTarget(s, t.price) /\ ~HitsStop(s, t.price)
           /\ ~Against(intent[s].dir, t.flows)
  <1>1. /\ ~LeavesFor(s, t, "TAKE_PROFIT") /\ ~LeavesFor(s, t, "TRAILING_STOP")
        /\ ~LeavesFor(s, t, "FLOW_THRESHOLD") /\ ~LeavesFor(s, t, "CUMULATIVE_FLOW")
    BY DEF ExitReasons
  <1> QED
    BY <1>1 DEF LeavesFor

LEMMA KeepInv ==
    ASSUME StrategyInv, NEW s \in Strategies, NEW changed \in Changes, NEW t \in Pairs,
           Keep(s, changed, t)
    PROVE  StrategyInv'
  <1> USE DEF Keep, ReceivePair
  <1>1. /\ Holds(s) => /\ intent'[s].dir = intent[s].dir
                       /\ intent'[s].price = intent[s].price
                       /\ intent'[s].extreme = Extreme(s, t.price)
                       /\ seen'[s] = [price |-> t.price, flows |-> t.flows]
        /\ ~Holds(s) => intent'[s] = intent[s] /\ seen'[s] = NoPair
    BY DEF StrategyInv, StrategyTypeOK, Holds
  <1>2. Holds(s)' <=> Holds(s)
    BY <1>1 DEF Holds
  <1>3. \A o \in Strategies \ {s} : intent'[o] = intent[o] /\ seen'[o] = seen[o]
    BY DEF StrategyInv, StrategyTypeOK
  <1>4. StrategyTypeOK'
    <2>1. /\ settings' \in [Strategies -> Settings]
          /\ tickCounter' \in [Strategies -> 0..WarmUpTicks]
          /\ pending' \in [Strategies -> SUBSET Symbols]
          /\ missing' \in [Strategies -> SUBSET Symbols]
      BY ReceiveType DEF StrategyInv
    <2>2. Extreme(s, t.price) \in Prices \cup {0}
      BY DEF StrategyInv, StrategyTypeOK, Extreme, Pairs
    <2> QED
      BY <2>1, <2>2 DEF StrategyInv, StrategyTypeOK, NoPair, Pairs
  <1>5. settings' = settings
    BY DEF Receive
  <1>6. NoTradeBeforeWarmUp'
    BY <1>2, <1>3, ReceiveKeepsWarm DEF StrategyInv, HeldInv, NoTradeBeforeWarmUp, Holds
  <1>7. Holds(s) => Warm(s)
    BY <1>2, <1>6, StrategyAssumption DEF NoTradeBeforeWarmUp, Warm
  <1>8. HeldInsideBand'
    <2>1. ASSUME Holds(s)
          PROVE  LET i == intent'[s]
                     p == Toward(i.dir, t.price)
                 IN  /\ p < Toward(i.dir, i.price) + settings[s].takeProfit
                     /\ settings[s].stopLoss > 0 =>
                           /\ Toward(i.dir, i.extreme) >= p
                           /\ Toward(i.dir, i.extreme) >= Toward(i.dir, i.price)
                           /\ p > Toward(i.dir, i.extreme) - settings[s].stopLoss
      <3>1. ~ReachesTarget(s, t.price) /\ ~HitsStop(s, t.price)
        BY <2>1, <1>7, KeptInside
      <3>2. /\ settings[s].takeProfit \in Nat \ {0} /\ settings[s].stopLoss \in Nat
            /\ t.price \in Nat /\ intent[s].price \in Nat /\ intent[s].extreme \in Nat
        <4>1. settings[s] \in Settings /\ t \in Pairs
          BY DEF StrategyInv, StrategyTypeOK
        <4>2. intent[s].price \in Prices \cup {0} /\ intent[s].extreme \in Prices \cup {0}
          BY DEF StrategyInv, StrategyTypeOK
        <4> QED
          BY <4>1, <4>2, StrategyAssumption DEF Settings, Pairs
      <3>3. settings[s].stopLoss > 0 =>
                Toward(intent[s].dir, intent[s].extreme)
                  >= Toward(intent[s].dir, intent[s].price)
        BY <2>1 DEF StrategyInv, HeldInv, HeldInsideBand
      <3> QED
        BY <2>1, <3>1, <3>2, <3>3, <1>1 DEF ReachesTarget, HitsStop, Extreme, Toward
    <2> QED
      BY <2>1, <1>1, <1>2, <1>3, <1>5 DEF StrategyInv, HeldInv, HeldInsideBand, Holds
  <1>9. HeldWithMarket'
    <2>1. Holds(s) => ~Market(Opposite(intent[s].dir), t.flows)
      BY <1>7, KeptInside DEF Against
    <2> QED
      BY <2>1, <1>1, <1>2, <1>3 DEF StrategyInv, HeldInv, HeldWithMarket, Holds
  <1>10. ExitRemembered'
    BY <1>2, <1>3 DEF StrategyInv, ExitRemembered, Holds
  <1> QED
    BY <1>4, <1>6, <1>8, <1>9, <1>10 DEF StrategyInv, HeldInv

LEMMA NextInv == StrategyInv /\ [NextStrategy]_strategyVars => StrategyInv'
  <1> SUFFICES ASSUME StrategyInv, [NextStrategy]_strategyVars PROVE StrategyInv'
    OBVIOUS
  <1>1. CASE NextStrategy
    <2>1. PICK s \in Strategies, changed \in Changes :
              \/ \E gone \in SUBSET changed : Wait(s, changed, gone)
              \/ \E t \in Pairs : Process(s, changed, t)
      BY <1>1 DEF NextStrategy
    <2> QED
      BY <2>1, WaitInv, CloseInv, OpenInv, KeepInv DEF Process
  <1>2. CASE UNCHANGED strategyVars
    BY <1>2 DEF strategyVars, StrategyInv, StrategyTypeOK, HeldInv, NoTradeBeforeWarmUp,
                HeldInsideBand, HeldWithMarket, ExitRemembered, Holds
  <1> QED
    BY <1>1, <1>2

THEOREM StrategyInvHolds == SpecStrategy => []StrategyInv
  BY InitInv, NextInv, PTL DEF SpecStrategy

(* Every variable keeps its type.                                          *)
THEOREM StrategyTypeCorrect == SpecStrategy => []StrategyTypeOK
  <1>1. StrategyInv => StrategyTypeOK
    BY DEF StrategyInv
  <1> QED
    BY <1>1, StrategyInvHolds, PTL

(* No intent is held before the warm-up is over (strategy.ts:159).         *)
THEOREM WarmUpIsWaited == SpecStrategy => []NoTradeBeforeWarmUp
  <1>1. StrategyInv => NoTradeBeforeWarmUp
    BY DEF StrategyInv, HeldInv
  <1> QED
    BY <1>1, StrategyInvHolds, PTL

(* A held intent lies inside its band at the last pair it processed        *)
(* (checkPositionClosure, strategy.ts:277).                                *)
THEOREM ExitsAreTaken == SpecStrategy => []HeldInsideBand
  <1>1. StrategyInv => HeldInsideBand
    BY DEF StrategyInv, HeldInv
  <1> QED
    BY <1>1, StrategyInvHolds, PTL

(* A held intent is not against the market of the last pair it processed   *)
(* (the exits at strategy.ts:185).                                         *)
THEOREM MarketIsFollowed == SpecStrategy => []HeldWithMarket
  <1>1. StrategyInv => HeldWithMarket
    BY DEF StrategyInv, HeldInv
  <1> QED
    BY <1>1, StrategyInvHolds, PTL

(* After a price exit the same direction is entered again only once both   *)
(* flows have widened over their values at that exit (strategy.ts:383).    *)
THEOREM ReentryIsWidened == SpecStrategy => ReentryNeedsWidening
  <1> DEFINE Rule ==
        \A s \in Strategies :
           ~Holds(s) /\ Holds(s)' /\ left[s].byPrice /\ left[s].dir = intent'[s].dir
             => Widened(left[s].dir, left[s].flows, seen'[s].flows)
  <1>1. ASSUME StrategyInv, [NextStrategy]_strategyVars
        PROVE  [Rule]_strategyVars
    <2> SUFFICES ASSUME NextStrategy, NEW o \in Strategies, ~Holds(o), Holds(o)',
                        left[o].byPrice, left[o].dir = intent'[o].dir
                 PROVE  Widened(left[o].dir, left[o].flows, seen'[o].flows)
      BY <1>1
    <2>1. PICK s \in Strategies, changed \in Changes :
              \/ \E gone \in SUBSET changed : Wait(s, changed, gone)
              \/ \E t \in Pairs : Process(s, changed, t)
      BY DEF NextStrategy
    <2>2. intent'[o] # intent[o]
      BY DEF Holds
    <2>3. PICK t \in Pairs, d \in Directions : Open(s, changed, t, d) /\ s = o
      <3>1. ~\E gone \in SUBSET changed : Wait(s, changed, gone)
        BY <2>2 DEF Wait
      <3>2. ASSUME NEW t \in Pairs, Close(s, changed, t) PROVE FALSE
        BY <3>2, <2>2, <1>1 DEF Close, StrategyInv, StrategyTypeOK, Holds, NoIntent
      <3>3. ASSUME NEW t \in Pairs, Keep(s, changed, t) PROVE FALSE
        BY <3>3, <2>2, <1>1 DEF Keep, StrategyInv, StrategyTypeOK
      <3>4. ASSUME NEW t \in Pairs, NEW d \in Directions, Open(s, changed, t, d)
            PROVE  s = o
        BY <3>4, <2>2, <1>1 DEF Open, StrategyInv, StrategyTypeOK
      <3> QED
        BY <2>1, <3>1, <3>2, <3>3, <3>4 DEF Process
    <2>4. intent'[o].dir = d /\ CanReenter(o, d, t) /\ seen'[o].flows = t.flows
      <3>1. intent' = [intent EXCEPT ![o] =
                          [dir |-> d, price |-> t.price, extreme |-> t.price]]
        BY <2>3 DEF Open
      <3>2. seen' = [seen EXCEPT ![o] = [price |-> t.price, flows |-> t.flows]]
        BY <2>3 DEF Open, ReceivePair
      <3>3. CanReenter(o, d, t)
        BY <2>3 DEF Open, CanOpen
      <3> QED
        BY <3>1, <3>2, <3>3, <1>1 DEF StrategyInv, StrategyTypeOK
    <2>5. /\ lastExit[o].dir = d /\ lastExit[o].reason \in WideningExits
          /\ lastFlows[o] = left[o].flows /\ left[o].dir = d
      BY <2>4, <1>1 DEF StrategyInv, ExitRemembered
    <2> QED
      BY <2>4, <2>5 DEF CanReenter, WideningExits
  <1>2. StrategyInv /\ [NextStrategy]_strategyVars => [Rule]_strategyVars
    BY <1>1
  <1> QED
    BY <1>2, StrategyInvHolds, PTL DEF SpecStrategy, ReentryNeedsWidening

(* A strategy implements what the trade manager is composed with: a closed *)
(* intent is a Leave, an opened one an Enter, everything else a stutter.   *)
THEOREM StrategyImplementsSignals == SpecStrategy => ImplementsSignals
  <1> DEFINE dirs == [s \in Strategies |-> intent[s].dir]
             kinds == [s \in Strategies |-> settings[s].strategyType]
  <1>1. InitStrategy => Signals!InitSignals
    BY DEF InitStrategy, Signals!InitSignals, Signals!Types, Signals!Directions,
           Settings, Types, Directions, NoIntent
  <1>2. ASSUME StrategyInv, [NextStrategy]_strategyVars
        PROVE  [Signals!NextSignals]_<<kinds, dirs>>
    <2>1. CASE UNCHANGED strategyVars
      BY <2>1 DEF strategyVars
    <2>2. ASSUME NEW s \in Strategies, NEW changed \in Changes,
                 NEW gone \in SUBSET changed, Wait(s, changed, gone)
          PROVE  UNCHANGED <<kinds, dirs>>
      BY <2>2 DEF Wait, Receive
    <2>3. ASSUME NEW s \in Strategies, NEW changed \in Changes, NEW t \in Pairs,
                 Close(s, changed, t)
          PROVE  Signals!Leave(s)
      <3>1. settings' = settings /\ Holds(s) /\ intent' = [intent EXCEPT ![s] = NoIntent]
        BY <2>3 DEF Close, ReceivePair, Receive, LeavesFor
      <3>2. dirs' = [dirs EXCEPT ![s] = "NONE"]
        BY <3>1, <1>2 DEF StrategyInv, StrategyTypeOK, NoIntent
      <3> QED
        BY <3>1, <3>2 DEF Signals!Leave, Holds
    <2>4. ASSUME NEW s \in Strategies, NEW changed \in Changes, NEW t \in Pairs,
                 NEW d \in Directions, Open(s, changed, t, d)
          PROVE  Signals!Enter(s, d)
      <3>1. /\ settings' = settings /\ ~Holds(s) /\ Admits(s, d)
            /\ intent' = [intent EXCEPT ![s] =
                             [dir |-> d, price |-> t.price, extreme |-> t.price]]
        BY <2>4 DEF Open, ReceivePair, Receive, CanOpen
      <3>2. dirs' = [dirs EXCEPT ![s] = d]
        BY <3>1, <1>2 DEF StrategyInv, StrategyTypeOK
      <3> QED
        BY <3>1, <3>2 DEF Signals!Enter, Holds, Admits
    <2>5. ASSUME NEW s \in Strategies, NEW changed \in Changes, NEW t \in Pairs,
                 Keep(s, changed, t)
          PROVE  UNCHANGED <<kinds, dirs>>
      <3>1. settings' = settings
        BY <2>5 DEF Keep, ReceivePair, Receive
      <3>2. intent' = [intent EXCEPT ![s] =
                IF Holds(s)
                THEN [dir |-> @.dir, price |-> @.price, extreme |-> Extreme(s, t.price)]
                ELSE @]
        BY <2>5 DEF Keep
      <3>3. dirs' = dirs
        BY <3>2, <1>2 DEF StrategyInv, StrategyTypeOK
      <3> QED
        BY <3>1, <3>3
    <2> QED
      BY <1>2, <2>1, <2>2, <2>3, <2>4, <2>5
      DEF NextStrategy, Process, Signals!NextSignals, Directions, Signals!Directions
  <1>3. StrategyInv /\ [NextStrategy]_strategyVars
          => [Signals!NextSignals]_Signals!signalVars
    BY <1>2 DEF Signals!signalVars
  <1> QED
    BY <1>1, <1>3, StrategyInvHolds, PTL
    DEF SpecStrategy, ImplementsSignals, Signals!SpecSignals
=============================================================================
