# Doomberg Terminal: a TLA+ development

Doomberg Terminal is a Chrome extension that trades options, on paper and with a broker, from live
market data and watches news with a language model, together with a server and the message
protocols that connect them. This directory specifies the parts of it whose correctness depends on the order of events,
model-checks them with TLC and proves their main invariants with TLAPS.

1. [The system](#1-the-system): inventory, interactions, what is hard
2. [The modules](#2-the-modules) and how they correspond to the code
3. [The runs](#3-the-runs): questions, bounds, fairness
4. [The proofs](#4-the-proofs): assumptions and arguments
5. [Findings](#5-findings)
6. [What is only model-checked, what is left out](#6-limits)
7. [The plan](#7-the-plan)

To repeat the checks, in this directory: `tlc -config trade_manager.cfg MCTradeManager` (each run's
module is in the table of section 3), `tlapm StrategyProofs.tla` and so on.
`PROJECT.json` has the machine-readable side: the lines each definition stands for, the mutants
that show each property can fail, and the hazards with the properties that cover them.

## 1. The system

Paths are relative to `src/`. `quant/`, `trader/`, `tradingGame/`, `chains/`, `news/` and `utils/` stand for those
directories of `pages/side-panel/src/services/`; `ipc/` for `packages/shared/src/ipc/`.

| Component | State | Operations | Modelled |
|---|---|---|---|
| Trading strategies, `quant/strategy.ts` | intent (direction, entry price, trailing extreme), warm-up count, the last pair's symbols, reason and direction of the last exit, flows at it | an autorun delivers QQQ and SPY data; a complete pair is processed: price exits, then the warm-up return, then flow exits or entry | yes |
| Trade manager and paper orders, `quant/tradeManager.ts`, `order.ts`, `position.ts` | registry of strategies by id, active strategy, active and closed orders and positions | settings change, reset, `handleOrderOpened`, `handleOrderClosed`, `handleOrderFilled` | partly |
| Quant settings and data, `quant/settings.ts`, `data.ts`, `quant.service.ts` | observables of settings; price and flows for each symbol | setters; building flows from option chains | as inputs |
| Persistent protocol, `ipc/remote/protocol.ts`, `Client.ts`, `IOSocket.ts` | message numbers both ways, queue of unacknowledged messages, two timers, reconnecting flag | send, receive, acknowledge, replay, begin/endAcceptReconnection | partly |
| Truth Social feed, `news/truthsocial/`, `utils/JobQueue.ts`, `utils/polling.ts`, `packages/shared/src/features/news/news.service.ts` | processed statuses, map of jobs, processing flag; IndexedDB table of news items | poll, add jobs, process queue with retries, store, announce | partly |
| RPC channels, `ipc/message/ChannelClient.ts` and `ChannelServer` in `packages/vs/vs/base/parts/ipc/common/ipc.ts` | handlers and uninitialized requests of the client; active requests, requests pending for a channel and their timers, the flush | call, cancel, listen, unlisten, register a channel, flush, time out, answer | partly |
| Extension message connections, `ipc/message/MessageClient.ts`, `MessageServer.ts`, `messageServerManager.service.ts` of the background | the connection under a source; the stored connections | hello, first message, replacement, store, tell stored pages after a restart | partly |
| Trader service, `trader/trader.service.ts`, `trader/buyOrder.ts`, `sellOrder.ts` | one asynchronous process for each order: state, last response, attempts; the list of orders by id | create, review, place, poll, cancel, monitor; fetch the list each second, cancel a row | partly |
| Remote agent server, `packages/server/src/ipc/` | connections by token, grace timers | handshake, acceptReconnection, dispose | no |
| Socket message connections, `ipc/remoteMessage/` | clients by source | connect, disconnect | no |
| Paper trading game, `tradingGame/` | open and closed positions with their marks, subscriptions to market data | open and close by hand, reset, follow the market data | partly |
| Option chains, `chains/chain.ts` | the last market data, and what each fetch under way has read | fetch the options nearest to the price in batches at each tick, apply, drop all on a failure | partly |
| Fast order machines, `.../machines/trading/*Fast.machine.ts` | state of an XState machine | place, watch, cancel | no |
| Extrinsic value and sentiment; trade simulators | numeric series | compute from option chains, replay | no |
| Chat and language models; settings and side panel visibility | little of their own | requests to web interfaces, browser storage | no |
| Calendars and other news, side panel life cycle, timer and market hours, windows, HTTP interface, market data requests | little of their own | fetching, parsing, wall-clock time, storage | no |

Vendored code (`packages/vs`, but for its IPC server, on which all channels run), the content-script injections, hot reload, build tools, components
of the user interface and fixtures are not part of the inventory.

### How they interact

The quant service fills observables with prices and cumulative flows. Each strategy object runs
an autorun over them; every change of settings makes a *new* object, and older ones stay alive with
theirs. A strategy signals through two events; the trade manager listens, reads the strategy's
intent out of its registry *by id* (a function of the settings), makes an order and matches the
fill with a position of the same instrument. This all runs on one thread, but an event listener
runs inside the emitter's call, and the collections are replaced under a loop that iterates an older
copy.

Panel, background and server talk over channels. A page's `ChannelClient` holds its requests until
the worker's `Initialize`, and the worker's `ChannelServer` holds them until the channel is
registered, with a timer each. The browser stops the service worker when it likes and starts it
for the next message; what it knew of its pages is gone but for what it has stored. Over sockets
channels rest on `PersistentProtocol`: each end numbers its messages, keeps the unacknowledged ones
and replays them on a new socket. A server gives its end a new socket explicitly
(`begin`/`endAcceptReconnection`); a socket.io client reconnects by itself under the protocol.

The trader sends orders to the broker, each watched by its own process, and fetches the broker's
list of orders each second without waiting for the fetch before. The processes and the list do not
share their objects; what ties them together is the order's id with the broker.

The game's positions each subscribe to the market data of an option chain. A tick of the chain starts a
fetch without waiting for the one before, and setting the data runs all subscribers at once. A
sale's order names an option and not the position it was made for.

Each browser window may show a side panel with its own poller, job queue and set of processed
statuses; all share one IndexedDB, whose unique index on `newsSource+originalSourceId` is the only
thing two panels have in common. A panel that closes forgets everything but the database.

### What is hard in it

- *Sequences of calls.* Entry, exit and re-entry of a strategy are decided in three functions with
  early returns, from memory that is several trades old. The trade manager's orders survive only if
  every sale finds a position, although fills take positions of other strategies.
- *Stale identity.* Settings that change and change back give two live strategies one id. A position
  of the game is sold by its option, so that another one may be closed.
- *Lost and repeated messages.* Acks are late, repeated, or contained in messages that are
  replayed later; sockets break in the middle of a reconnection; timers fire in the middle of one.
- *Interleavings across awaits.* A poll asks the database and acts on the answer later; polls
  overlap with each other, with the queue and with those of other panels; panels close anywhere.
- *Restarts and identity of messages.* Request ids start from 0 on every page and answers go to
  whatever page is there; a request may be withdrawn, time out, be flushed or lose its connection
  while it waits.
- *A third party that acts in between.* The broker fills an order while its attempts run out, while
  it is cancelled, and while the answer that says so is under way or lost.
- *Liveness.* Does a strategy that was stopped out ever trade again, is every message delivered,
  is every status stored though analyses fail, is every call answered, does every order's process end?

`PROJECT.json` lists 39 hazards at their lines, 35 of them with properties; each of the others has
a note.

### What makes each component correct

| Component | Correct means |
|---|---|
| strategy | no trade in the warm-up; a held intent is inside its stop and target and not against the market; re-entry rules keep their promise and do not block for ever; openings and closings alternate |
| trade manager | no order stays active; positions are the bought less the sold ones; every position has a living strategy; a sale closes as many positions as the strategy had |
| protocol | exactly-once, in-order delivery; the queue is what the peer misses; acks are due and silence is noticed; delivery and acknowledgement in the end |
| channels | a call is executed at most once and settled by its own answer; subscriptions are the listeners', none leaked; unless the worker stops, every call is settled and every listener served |
| trader | no order is left working that its process believes done with; what is shown is so; an order is listed once; processes end and the list comes to agree with the broker |
| trading game | an open position shows the market data there is, which settles at the exchange's quotes; as many positions are open as contracts were bought and not sold; profits add up to what was paid |
| news feed | a job is `processing` iff it is worked on; one announcement per status at most; processed means stored; no analysis twice; every listed status stored in the end |

## 2. The modules

```
Signals ----------- abstract: what a strategy shows the trade manager
   ^    \
   |     \ EXTENDS (drives)              ReliableChannel  abstract: a lossless channel
Strategy  TradeManager                        ^
   |          |                        PersistentProtocol
MCStrategy  MCTradeManager             MCPersistentProtocol
StrategyProofs  TradeManagerProofs     ProtocolProofs <- ProtocolGapProofs

NewsFeed          Channels          Trader          OptionChain
MCNewsFeed        MCChannels        MCTrader             ^ EXTENDS (drives)
NewsFeedProofs    ChannelsProofs    TraderProofs    TradingGame
                                                    MCTradingGame
                                                    TradingGameProofs
```

**Strategy** (`strategy.ts`). `Receive` is the head of the autorun's callback: which symbols
changed, which of them are undefined, the tick count (QQQ only), and when the pair is complete.
`Wait` is a callback that returns there. `Close`, `Open` and `Keep` are the three ends of
`processCombinedIndicators`, each the whole path: target and trailing stop, the warm-up return, flow
threshold, cumulative flow, the entry conditions with those `handleSignal` and `canOpenPosition`
repeat, `canReenterDirection`, and the moves of the trailing extreme. `seen` and `left`
are history variables for the properties. Prices, flows and thresholds are integers; whether the
call or the put flow is below its threshold is a Boolean of the pair (`callLow`, `putLow`).

**Signals** is the interface: a strategy enters a direction its type admits, and leaves.
`Strategy` implements it (`ImplementsSignals`), and `TradeManager` is composed with it rather than
with `Strategy`, so that its checks cover every sequence of signals strategies can give.

**TradeManager** (`tradeManager.ts`, `order.ts`, `position.ts`). `SettingsChanged` and `Reset` are
the two callers of `createNewActiveStrategy`: the older objects stay alive and subscribed, the
registry entry of an id is overwritten, reset disposes those in the registry only. `OpenFilled` and
`OpenRefused` are `handleOrderOpened` with its early returns and the fill. `handleOrderClosed` is a
loop over a snapshot of positions; since each fill changes what the next round finds, `sale` holds
the loop's progress and `SellFilled`/`SellCancelled` are its rounds. While it runs nothing else does
(`Idle` guards the rest: the loop is synchronous). `conf[s]` is the settings object a strategy was
made with, which is its id; `current` is the user's settings. Ids of orders count up (the code takes
a clock and a random number, `order.ts:39`; two orders of one millisecond may share one, which no
property could hold under).

**ReliableChannel** has `Submit` and `Deliver`: what was sent is delivered in order, once.

**PersistentProtocol** (`ipc/remote/protocol.ts`). Both ends run the same code; `a` and `b` are
symmetric but for `Redialers`, the ends that are given sockets through
`beginAcceptReconnection`/`endAcceptReconnection`. Any other end's socket object reconnects by
itself (`AutoReconnect`, as `Client.ts:12-42` configures socket.io) and what was under way is lost
silently. `ReceiveExpected`, `ReceiveDuplicate`, `ReceiveAfterGap`, `ReceiveAck` and
`ReceiveReplayRequest` are the branches of `_receiveMessage`, each with `Read`, its common head
that pops acknowledged messages. `AckTimer*` are the ends of `_sendAckCheck` and its callback,
`WatchTimer` the one of `_recvAckCheck`. `wire[e]` is what is under way to `e` on its socket. `next`
is what an end that is already on a new socket has sent on it (`ahead` names it): the other end still
has the old one, so the two sides change at different times. Between `begin` and `end` anything may
happen, which is more than `RemoteAgentServer` lets happen (it calls one after the other).

**NewsFeed** (`truth-social.service.ts`, `JobQueue.ts`, `polling.ts`, `news.service.ts`). An action
is the code between two awaits. A poll is `PollStarts`, `Fetched` (then the first status that is
neither processed nor queued is looked up), `Look` (the database reads) and `PollContinues` (the
poll acts on that answer, however old). `TakeJobs` is `processQueue` up to the first await of the
first job. A job goes through `AlreadyStored`/`Analyze`, `Analyzed`, `AlreadyStored`/`Create`, `Add`,
`Announce`, or `Fail`; `Add` meets the unique index. `Finish` also takes the next job of the batch.
`Close` loses all of a panel, `Open` starts an empty one, `ChangeKey` adds or removes the API key.

**Channels** (`ChannelClient.ts`, `MessageClient.ts`, `MessageServer.ts`, vendored `ipc.ts`,
`messageServerManager.service.ts`). One page and the worker, with a queue of messages each way.
`Call`, `Cancel`, `AddListener` and `RemoveListener` are the user's; `ReceiveInit`, `ReceiveAnswer`
and `ReceiveReconnect` are the branches of the page's `onResponse` and `onReconnect`. `Cancel` sends
two cancellations because the code does. `rejoin` counts the `onReconnect` listeners of an event,
which are added each time its first listener is and never removed. On the worker `ReceiveHello`
disposes of the connection of the same source, `ReceiveContext` opens the next;
`ReceiveRequest` either executes or keeps (`Waits`), `ReceiveDisposal` finds active requests only,
`RegisterChannel` starts the timer of `Flush`, and `Timeout` answers a kept request *and keeps it*.
`Finish` answers whatever has become of the caller. `Reload` is the next page under the same source:
its ids begin anew, so a connection and a request bear the number of their page. `Restart`,
`Save` and `SendReconnect` are the manager's. `Save` has two steps: when a connection replaces a stored
one, `Forget` takes that out of the storage before `Store` puts the new one in. A worker that stops in
between starts with none, and tells no page.

**Trader** (`buyOrder.ts`, `trader.service.ts`). `CreateOrder` to `AfterMonitoring` are the steps of
`processOrder` between two awaits; `pc` says which one it waits for. `Accept` and `Trade` are the
broker's, and external. `Poll` is one attempt of `pollOrderStatus`, which may fail and leave the
response as it was. `Tick`, `Read`, `Apply` and `FetchFails` are a fetch of the list, of which
several may be under way (`Slots`); `CancelOrder` and `CancelOrderEnds` are the two sides of the
request in `cancelOrder`. `Cancelled` is what becomes of a cancellation with the broker: taken,
refused (`refused` remembers it, the code does not notice), or not needed.

**OptionChain** (`chain.ts`). `Tick` starts a fetch with the options `near` the price at that moment;
`ReadBatch` is an answer to some of them, each batch with the quotes of *its* moment; `Apply` and
`FetchFails` are the two ends of `_fetchAndUpdateMarketData`, the second with the empty map.
`Slots` are the fetches that may be under way at once. `Move` is the exchange's quotes, or none for an
option, and the filter by the price.

**TradingGame** (`tradingGame/tradeManager.ts`, `order.ts`, `position.ts`). An order is made, executed and
settled in one call, and no other code runs meanwhile: `OpenPosition` is `openPosition` down to the
subscription and its first look at the market data; `ClosePosition(p)` is `closePositionById` down
to the handler of the fill, which closes the earliest position on the *option* of `p`. Calls that
end in a cancelled order change nothing that is modelled. `MarketData` is a `Publish` of the chain
with the autoruns of all subscriptions, which run before it returns. `cash` and `held` are history:
what the fills have paid and how many contracts they leave. Prices are counted in half steps, for the
middle of bid and ask; the multiplier of 100 is left out.

## 3. The runs

Distinct states as TLC reports them, two workers; the longest runs take about two minutes.

| Run | Module | Instance | States | Checks |
|---|---|---|---|---|
| `strategy` | MCStrategy | 1 object, 3 prices, 4 flow pairs, target 2, stop 0 or 1, warm-up 2, fair | 14,564 | StrategyTypeOK, HeldInsideBand, HeldWithMarket, ReentryNeedsWidening, LongReentersAfterFlip, ImplementsSignals |
| `strategy_short` | MCStrategy | 2 prices, 3 flow pairs, fair | violation | ShortReentersAfterFlip |
| `trade_manager` | MCTradeManager | 3 objects, 1 variant of 3 types, 2 instruments, 3 orders | 723,143 | TradeManagerTypeOK, NoStuckOrder, Netting, NoOrphan, SaleBalanced |
| `protocol` | MCPersistentProtocol | both ends redial, 2 sends and 1, 2 moves, 1 keep-alive under way, fair | 254,252 | ProtocolTypeOK, QueueIsComplete, SilenceIsNoticed, NoGapAfterRedial, AllAcknowledged |
| `protocol_auto` | MCPersistentProtocol | only `b` redials, 2 sends each, 2 moves, fair | 118,015 | ImplementsChannel, GapHeals |
| `channels` | MCChannels | 1 call, 1 event, 2 pages, a restart on the second, 2 subscriptions on the first page and 1 on the second, fair | 461,784 | ChannelsTypeOK, AtMostOnce, AnswerIsOwn, SubscriptionsMatch, CallsSettle, ListenersAreServed |
| `channels_reconnect` | MCChannels | same | violation | ReconnectIsHeard |
| `news` | MCNewsFeed | 1 status, 2 panels, 2 overlapping polls each, 2 attempts | 396,074 | FeedTypeOK, AlertedOnce, NeverAnalyzedAgain |
| `news_live` | MCNewsFeed | 2 statuses, 1 panel, 1 poll, 2 attempts, fair | 12,566 | QueueInStep, ListedIsStored |
| `news_key` | MCNewsFeed | same | violation | NothingSkipped |
| `trader` | MCTrader | 1 order, 5 attempts, 2 fetches and 2 cancellations of its row under way, fair | 59,711 | TraderTypeOK, NeverLeftWorking, StatesAreTrue, ListedOnce, ProcessEnds, ListSettles |
| `game` | MCTradingGame | 2 options, 3 quotes, 2 moves of the market, 2 positions, 2 fetches under way, fair | 347,530 | GameTypeOK, MarksAreCurrent, PositionsMatchFills, ProfitIsPaid, MarksSettle |

**Bounds, and why they are enough.**

- *Strategies*: objects do not influence each other, so one is enough; the trade manager's runs
  have three. Three prices let a position miss, reach and pass both stop and target and let the
  extreme trail; the flows lie on both sides of each threshold, weakly and strongly, so that
  widening and not widening both occur; a warm-up of 2 has a tick before, at and after the end.
- *Trade manager*: three objects are what settings that change from A to B and back to A need; two
  instruments let fills go to the wrong position and sales lack a bid on one; three
  closed orders before the last opening (`MaxOrders`; sales go on until nothing is left) are enough for
  positions of several strategies on one instrument and a sale that takes another's. Strategies and instruments are symmetric, and
  no liveness is checked with symmetry.
- *Protocol*: two sends make a replay longer than one message and a gap possible; one message the
  other way is enough for acks inside messages. `MaxMoves` 2
  lets a second break hit the replay of the first or the reconnection itself; `MaxFlight` bounds
  keep-alives alone. Ends may fall silent when these are used up, hence `CHECK_DEADLOCK FALSE`: two
  idle ends are a legal end of the model and not a deadlock.
- *Channels*: one call and one event race with all that happens to a connection; calls do not
  influence each other but by their order, and `CallsRunOnce` holds for any number. Two pages give
  each stage of a request, waiting, under way, pending, executed, answered, a reload to meet.
  Two subscriptions on the first page let a withdrawal overtake, or meet, the request before it.
  The worker stops on the second page only (`MCRestarts`), when requests of the first may be left.
  The system may be idle for good, hence `CHECK_DEADLOCK FALSE`.
- *Trader*: orders meet only under an instrument, where the later replaces the earlier;
  the theorems hold for any number. `MaxAttempts` is the code's 5. Two fetches under way are what an
  older answer needs to be applied after a newer one. `MaxCancels` 2 lets the user ask again while the
  first request is under way (the button is disabled by the state, which is set after the await), so
  that one may put its object back after the other.
- *Trading game*: two positions on one option are what a sale needs to close the other one, and a
  third on top changes nothing of that kind (the theorems hold for any number); a second option keeps
  them apart from the rest. The quotes are one with a bid, one with a bid of zero, and one without a
  bid. Two moves of the market let a quote change and come back, or change while the option leaves
  the filter, under two fetches that overtake each other. `MaxPositions` counts since the last reset.
- *News feed*: the races within a status need two panels and two polls of each, those between
  statuses of a queue need two statuses; `news` and `news_live` have one of these each, and the
  theorems of section 4 hold for all of them together. Two attempts are a retry and a giving-up.

**Fairness, and why the code justifies it.**

- `MarketReturns` (strategies) is an assumption on the market, not on the program: complete pairs
  keep coming and either side of the market comes back with its flow above the threshold.
- Protocol: sockets that are up deliver; the ack timer fires (`setTimeout`); an end follows its peer
  to a new socket; an `endAcceptReconnection` follows its `begin`. No fairness on sends, breaks,
  keep-alives, or the watch timer. `AllAcknowledged` thus holds when sockets
  change finitely often, which `MaxMoves` ensures.
- News feed: `setInterval` keeps firing, promises settle and queue steps continue (weak fairness).
  Strong fairness on what is tried again and again and may fail each time: a fetch lists a status
  still in the feed, a retry's time comes, and the database and the analysis of each status
  sometimes succeed. `ListedIsStored` also has the premise that the panel stays open and the key
  configured from some point on.
- Channels: weak fairness of `SystemStep` as a whole, which is less than of each of its parts:
  *something* goes on while a message is under way, a timer is set, or a call is executed. Each
  such step uses something up, so that none can go on for ever in place of another. Nothing is
  assumed of the user, of reloads, of storing a connection or of restarts, and both liveness
  properties except behaviours in which the worker stops: what happens then is the finding below.
- Trader: each request is answered or fails (weak fairness of the steps of a process and of the end
  of `cancelOrder`), the timer ticks, and a list that is asked for again and again is once read and
  once applied (strong fairness; a fetch may fail, and another one starts). The broker need not do
  anything, so `ProcessEnds` does not rest on an order being filled or cancelled.
- Trading game: the timer ticks (weak fairness), and of fetches that are made again and again one is
  answered and applied in the end (strong fairness of the last batch and of the application, for a
  fetch may fail and the next one starts). Nothing is assumed of the user or the exchange; that
  `MarksSettle` needs the market to rest is the meaning of `<>[]` over a finite `MaxMoves`.

**What the passing runs show.** A strategy keeps its exits and its re-entry
rule, and alternates as `Signals` says. The trade manager never leaves an order active, though a
fill may close a position of another strategy: it sells as many as it took, and the counts agree.
The protocol delivers exactly once and in order also when one end's socket reconnects silently; with
two redialing ends no gap ever occurs and everything is acknowledged in the end. Gaps heal after
the sockets settle. The news feed announces a status at most once, whatever panels close between
storing and announcing (it may then be announced never), and does store each one in the end. What
makes the last true is that `JobQueue` *deletes* a job it gives up (`JobQueue.ts:127-130`) so that
the next poll queues it anew. The same makes a status whose analysis can never succeed be analysed
for ever. A call is executed at most once although its timer answers it and leaves it to be flushed,
although the same id comes again from the next page, and although connections are replaced under
it; its caller gets its own answer unless a call of an older page was anywhere left when a connection
was opened while its page is there (`clean`; then it may get the older one's: ids begin anew with each
page, and answers bear no page). Subscriptions are those of the listeners
except where one was withdrawn while its request waited for the channel (`lost`): that subscription
is never withdrawn. An order whose process ends without an error is filled, cancelled, or about to
be cancelled, unless a cancellation was refused, which the code does not look at
(`request.service.ts`, `cancelOptionsOrder`); and the list comes to agree with the broker although
answers overtake each other. In the game a sale may close another position than the one chosen, and
still every open position keeps a subscription and its mark, the counts agree with the fills and
the profits with the money; an older answer applied over a newer one is mended by the next fetch. An
option that the price has moved away from is out of the market data: its position keeps its last
mark and cannot be sold, which the properties say nothing against (`p.instrument \in near`).

Each property has a mutant in `PROJECT.json`: a plausible bug in one definition, written as a
sibling operator before it (`RecvAckCheckOffByOne` before `RecvAckCheck`), under which TLC finds the
property violated.

## 4. The proofs

8677 obligations in eight modules, for all values of the constants. The prover knows of the
constants what the named assumptions say: `StrategyAssumption` (prices positive, flows integers,
thresholds on either side of zero), `TradeManagerAssumption` (the absent strategy and the absent
settings are none), `ProtocolAssumption` (some end redials, the bounds are naturals),
`FeedAssumption` (listings are sequences of statuses, one attempt at least), `ChannelsAssumption`
(no id is that of a call and of an event, one page at least), `TraderAssumption` (each order has an
instrument, one attempt at least), `ChainAssumption` and `GameAssumption` (prices are naturals or
missing, no quote is not a quote, bounds are naturals). TLC evaluates them in each run.

| Module | Theorems |
|---|---|
| StrategyProofs | StrategyTypeCorrect, WarmUpIsWaited, ExitsAreTaken, MarketIsFollowed, ReentryIsWidened, StrategyImplementsSignals |
| TradeManagerProofs | TradeManagerTypeCorrect, OrdersNeverStick, PositionsNet, SalesBalance, PositionsAreManaged |
| ProtocolProofs | ProtocolTypeCorrect, QueueStaysComplete, SilenceGetsNoticed, ProtocolImplementsChannel |
| ProtocolGapProofs | NoGapsOccur |
| ChannelsProofs | ChannelsTypeCorrect, CallsRunOnce, AnswersAreOwn, SubscriptionsAreMatched, CallsAreUnderWay |
| TraderProofs | TraderTypeCorrect, OrdersAreWatched, ShownStatesAreTrue, RowsAreUnique, ProcessesGetOn |
| TradingGameProofs | GameTypeCorrect, MarksStayCurrent, FillsAreMatched, ProfitsArePaid |
| NewsFeedProofs | FeedTypeCorrect, QueuesStayInStep, AlertsAreUnique, ProcessedStaysStored, AnalysesAreNeeded |

Each module has an inductive invariant, a lemma per action, and theorems that follow from it. Together
they state every safety invariant, every action property and every refinement that a passing run
checks. Two theorems state no property of a run, but the part of a liveness property that is not
about fairness: `CallsAreUnderWay` and `ProcessesGetOn`.

**StrategyInv** has the two safety invariants, `NoTradeBeforeWarmUp` (the count of the warm-up is full
while an intent is held) and `ExitRemembered`: while a strategy is out
after a price exit, `lastExit` and `lastFlows` are those of that exit. Without it the re-entry rule
could compare with flows of an older exit. The trailing stop needs the lemma that a price that
misses the stop leaves the extreme on the right side of it (`KeptInside`).

**ManagerInv**. That no order sticks is not inductive: nothing in `NoStuckOrder` says that a sale
finds a position. The strengthening is `Covered`: on each instrument with a bid, at least as many
positions are open as the sale still has to sell. A fill takes one away on both sides *whichever*
position it closes; this is why closing another strategy's position is harmless to the counts.
`Covered`, `Netting` and the freshness of ids rest on cardinalities of finite sets, hence `Finite`
and `FreshIds`. `SalesBalance` speaks of the end of a sale and needs what holds in the middle of it:
`Tally`, on each instrument with a bid what the sale has closed and what it still has to sell make up
what it was asked to sell. `Covered` is why a round with a bid closes exactly one position;
`ClosedApart` is why that one was not closed before.

**ProtocolInv**. The heart is `WiresOK`: everything under way to an end, on either socket, is
`Genuine`: its ack is for something its peer has received, its number one its peer has given out.
As the numbers only grow, old messages stay genuine however late they come; so popping the queue to
an ack never loses a message (`CountsOK`, `QueueOK`), and an expected message was sent. The queue's
messages are genuine too, as they will be on a wire again. `DeliveredOK` is the refinement:
`delivered` is 1..n, so receiving the next maps to `Deliver`, a send to `Submit`, the rest to a
stutter. `SilenceIsNoticed` has two parts, which are inductive each on top of `ProtocolInv`:
`AckIsDue` and, in terms of the numbers, `Watched`.

**GapInv**, on top of `ProtocolInv` and under the premise that both ends redial. A list of messages is
`Gapless` to a reader who has had *n* if each message in it is at most *n* + 1 or follows its
predecessor; it `Reaches` a number if that number is in it or was read. Whatever is under way, on
either socket, is gapless, and what is under way on the socket its sender writes to reaches the last
number given out, *unless the sender is in the middle of a reconnection*. This is what makes the next
message join on (`GapJoined`): outside a reconnection by what is there already, at its end because
the whole queue is sent first and begins no later than the reader has got (`GapResent`, from
`CountsOK` and `QueueOK`). `TransferGap` does the work for all steps that only move messages;
without a gap no request for a replay is made, and none is under way (`NoRequest`).

**Channels**. `TypeInv` adds to the types that what is disposed of has a subscription to dispose of
(`Subscribed`, or the count would fall below zero) and that the page hears no reconnect message
(`Unheard`): the finding of section 5, as part of the invariant. `OnePlace` is why a call runs once:
a request is not yet made, or waits for `Initialize`, or is under way, or waits at *one*
connection, or has been executed, in this order, and no list has it twice. A connection that is
replaced keeps what it has, a worker that stops loses it, and neither gives it to another.

`OwnInv`, for `AnswersAreOwn`: what waits for `Initialize` is the page's own; while the page is not
`idle` no call of it is sent or answered; and if `clean`, once the connection has been opened
(`Opened`) nothing of an older page is anywhere on its way to an answer (`NoneBehind`), so that each
answer the page could take for its own (`MayCount`: it is idle, or will be before it comes to that one)
is. Before that, an older answer may come, but finds nobody waiting for it. The proof
showed that an earlier definition of `clean`, enough for the two pages of the run, let a request of an
older page slip by when there are three; TLC has the counterexample.

`SubsInv`, for `SubscriptionsAreMatched`: for each event a list of *levels* (`Levels`), the number of
subscriptions before and after each message to the worker. It begins with what the open connection has
or will have when it is flushed (`Kept`) and ends with what the page wants; a listen takes it from zero
to one, a dispose from one to zero, a hello sets it to zero. So the worker may be any number of
messages behind and still neither subscribes twice nor disposes of what is not there. `Handshaking`
says that a hello is followed by its context and that nobody is greeted while a connection is open,
`Queued` that an event being opened waits once, `Apart` that a replaced connection keeps nothing. An
event that was disposed of while its request waited (`lost`) is out of it for good.

`CallsAreUnderWay` is what `CallsSettle` rests on: as long as the worker has not stopped, a call that
is not settled waits at the page for an `Initialize` that somebody will send (`Coming`), or is under
way, waits at a connection with a timer, is at work, or has its answer under way. Which of these will
move on is what the fairness says; that there is always one of them is proved.

**TraderInv**. A closed order stays as it was read (`ResponsesAreTrue`), so acting on an old response
is harmless where it says closed; where it does not, the order is cancelled on it, and
`AskedToCancel` says that from then on the broker has been asked, has refused, or has no need of it.
`AtBroker` and `Answered` say which orders the broker has, `Counting` that an attempt is left,
`Apart` that an object which is or was a row is not under its instrument. `ProcessesGetOn` gives each
process a number (`Left`), the waits that are before it and the attempts left in this one; each of its
steps lowers it and no step of the list, the user, the broker or another order raises it, so that a
process can only end or wait for an answer.

**GameInv**. Marks stay current because the subscriptions are exactly the open positions' (`Subscribed`)
and ids tell these apart (`UniqueIds`): a sale unsubscribes the position it closes and no other. That the
sale finds a position at all is the lemma `EarliestIsOne`: a set of naturals that is not empty has a
least one. With it and the finiteness of the positions each fill moves both sides of `PositionsMatchFills` by one.

`ProfitsArePaid` adds up money over sets of positions (`SumFunction`, a fold whose order is chosen and
not known). That such a sum exists for every finite set, and does not depend on the order, is proved in
this module without an induction rule, from a least counterexample (`SmallestNat`, `SmallestSubset`):
`IsSum` says what a sum is by the removal of chosen elements, `SumAdd` and `SumMoved` what one element
more and one value changed do to it. `ProfitInv` adds to `GameInv` that both sets are finite and apart,
and each fill moves both sides by the same amount: a purchase what it cost, a sale the difference
between its price and its entry.

**FeedInv**. `JobsAgree` ties the map of jobs to what the queue works on and to the rest of its
batch: a job of the batch waits and a processing one is at work. `PollsSound` says that a positive
answer of the database is never out of date (nothing is deleted), which is why acting on it late is
harmless; a negative one may be, which is why the processor checks again. `StoredOnce` is what
`AlertedOnce` lacks: among all panels at most one has stored an item and not yet announced it, and
that item has not been announced. It holds because of the unique index alone. Lemmas
`BeginMovesQueue` and `FinishMovesQueue` say how the two queue operations move map and work together.

## 5. Findings

- `strategy_short` (a bug): after a cumulative-flow exit from a short, a short-only strategy never
  trades again, and a two-way one takes no short until a long was exited. `canReenterDirection` (`strategy.ts:370-382`) lets
  a short in only when the flag it is given is false, but the caller passes `isBearish` and has
  already required it to be true. The comment at 368 asks for the opposite market *before*
  re-entry; for longs (`LongReentersAfterFlip`) the code does what it says.
- `channels_reconnect` (a bug): a restarted worker tells each stored page to say hello again. The
  message is to go back to where the connection came from, "needs to be switched in response" says
  `messageServerManager.service.ts:22`; but id and source of a stored connection are *both* the
  page's (`MessageServer.ts:121-122`), so that the message names the page as its sender too, and the
  page's filter (`MessageClient.ts:38-40`) drops it. The page never says hello again, and its calls
  are dropped until it is loaded anew.
- `news_key` (code and message differ): the key is checked when a poll begins only. Removed while a
  status is on its way, `analyzeStatus` returns a placeholder "Analysis Skipped", which is stored
  and announced as news; the status then counts as processed and is never analysed.

Seen while modelling and not checked by a run:

- Settings that change from A to B and back to A give two live strategies the same id. The registry
  knows the later one, and an opening of the earlier one takes the later one's direction
  (`quant/tradeManager.ts:160`). The module has it so; the hook that
  starts the quant service is commented out of the panel at this commit (`Trading.tsx:39`).
- `closePositionById` "manually closes an existing position by its ID"
  (`tradingGame/tradeManager.ts:136`), but its order bears the option only, and line 238 closes the
  first position on that option, at whatever price it was bought.

## 6. Limits

**Only model-checked.** Liveness (LongReentersAfterFlip, AllAcknowledged, GapHeals, CallsSettle,
ListenersAreServed, ListedIsStored, ProcessEnds, ListSettles, MarksSettle): the prover does not reason
about fairness and ENABLED. What these rest on is proved for some of them: `SilenceGetsNoticed` for
AllAcknowledged, `NoGapsOccur` for GapHeals between two redialing ends, `SubscriptionsAreMatched` for
ListenersAreServed, `CallsAreUnderWay` for CallsSettle, `ProcessesGetOn` for ProcessEnds. RECURSIVE definitions
are out of the prover's reach, and so are the library's induction rules; the proved modules declare no
recursion (`delivered` is compared with a function and not folded), and the one fold that is reasoned
about, the sum of the trading game, is reasoned about by least counterexamples.

**Abstracted.**
- Strategy and trade manager: real numbers become integers; profit and loss, order prices and
  statistics are left out, likewise `cleanup` functions without a caller and `dispose`. Which
  symbol is traded never changes in the code and is not in the id.
- Protocol: content of messages, framing and chunks; Control and Disconnect messages; Pause and
  Resume; `BufferedEmitter`; the wrap of message numbers at 2^32. Durations and the ten seconds
  between two replay requests are nondeterminism, the limit itself is one request per socket.
- Channels: messages arrive in order, as between an extension page and its worker. Left out are calls
  of the worker to the page, what subscriptions deliver, routers, serialisation, DISCONNECT and the
  pruning of stored connections, closing a page without a next one, and several pages at once. One
  channel stands for all.
- Trader: prices, reviews that differ in content, the option chain, positions and market data;
  `removeOrder`, which nobody calls. The pages of the broker's list are read at once. A row has at
  most `MaxCancels` calls of `cancelOrder` under way.
- Trading game: the choice of an option by its delta (any may be chosen), sizes other than one, which
  no caller passes, the order objects, `dispose`. Of the chain: dates, the loading of instruments
  (`near` is empty as long as there are none), and the registry of chains by symbol.
- News feed: times of ticks and retries; the analysis is one step that succeeds or fails; texts,
  impact and market prices; updates and deletions of items, the queue's `clear` and its events have
  no caller or no listener. The queue takes the jobs of a tick in any order, which includes the
  code's.

**Not modelled, and why.** The remote agent server and the order machines are planned (below). The socket message connections are the twin of the extension's, with the same
`ChannelServer` behind them. Calendars repeat the pattern of the news feed and otherwise
parse pages. Extrinsic values and sentiment are numeric series, simulators replay
them. Chat and language models are requests to web pages. Timer and market hours are wall-clock
arithmetic, the other modules leave time open. Settings, windows, side panel, HTTP interface,
storage and market data requests are input and output with little state. Most of the repository's
lines are the vendored library, the user interface and such input and output; the share of lines
that is modelled is accordingly small.
Whether the protocol is used as modelled is a question of its own: `RemoteAgentServer` is not
imported by the production server, which uses `RemoteMessageServer`; the protocol is exercised by
`ServerConnectionManager` and the tests under `packages/server/src/ipc/__tests__/`.

## 7. The plan

Ordered by how much of the system's behaviour depends on the part. 1 to 6 and 8 are done.

1. `Strategy` and `Signals`: abstract specification, refinement, safety, re-entry liveness. *Done.*
2. `TradeManager` over `Signals`: netting, no stuck order, ownership. *Done.*
3. `PersistentProtocol` and `ReliableChannel`: exactly-once delivery, timers, liveness, no gaps.
   *Done.*
4. `NewsFeed`: job queue, panels, database. *Done.*
5. `Channels`: requests, subscriptions, connections, restarts. *Done* for one page; several pages
   would add the lost update of the stored connections (`messageServerManager.service.ts:149`).
6. `Trader`: orders at the broker and the list of them. *Done.*
7. `AgentServer` (`packages/server/src/ipc/RemoteAgentServer.ts`): the handshake's await, tokens, two
   grace timers, a connection that closes during the handshake. It is the environment `PersistentProtocol`
   assumes: what it allows should be among the moves of that module.
8. `TradingGame` over `OptionChain`: closing by id, overlapping fetches. *Done.*
9. `FastOrders` (`sellFast.machine.ts:252-392`, `buyFast.machine.ts:278-295`) on top of `Trader`'s
   broker.
10. `BufferedEmitter` (`protocol.ts:506-557`) as a refinement of an unbuffered emitter.

Theorems to come: for ListedIsStored and MarksSettle what `ProcessesGetOn` is for ProcessEnds, and, with
`AgentServer`, that what it does to a protocol is a move of `PersistentProtocol`'s environment.
