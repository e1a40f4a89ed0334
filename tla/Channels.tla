------------------------------ MODULE Channels ------------------------------
(***************************************************************************)
(* Requests of an extension page to the channels of the service worker:    *)
(* the ChannelClient and MessageClient of the page                         *)
(* (packages/shared/src/ipc/message), the MessageServer and IPCServer of   *)
(* the worker (packages/vs/vs/base/parts/ipc/common/ipc.ts) and the        *)
(* worker's MessageServerManagerService.                                   *)
(*                                                                         *)
(* The browser may stop the worker at any moment and starts it again for   *)
(* the next message; the page may be loaded anew and is then known by the  *)
(* same source.  Each page says hello once, so that a connection of the    *)
(* worker bears the number of its page; the ChannelServer of a replaced    *)
(* connection is disposed of, but what it has begun goes on.               *)
(*                                                                         *)
(* A page counts its request ids from 0, so that the ids of one page mean  *)
(* other requests than those of the next: Calls and Events are the ids.    *)
(* One channel stands for all.  Calls in the other direction and what      *)
(* subscriptions send are left out; how many there are is not.             *)
(***************************************************************************)
EXTENDS Naturals, Sequences, FiniteSets, SequencesExt

CONSTANTS
    Calls,          \* ids of calls
    Events,         \* ids of events
    MaxPages,       \* bound: loads of the page
    MaxRestarts,    \* bound: page -> restarts of the worker so far
    MaxListens      \* bound: page -> times it subscribes to an event

ASSUME ChannelsAssumption ==
    /\ Calls \cap Events = {}
    /\ MaxPages \in Nat \ {0}
    /\ MaxRestarts \in [1..MaxPages -> Nat]
    /\ MaxListens \in [1..MaxPages -> Nat]

Pages == 1..MaxPages

Ids == Calls \cup Events

VARIABLES
    page,           \* the page that is there
    idle,           \* the ChannelClient has had its Initialize
    call,           \* call -> "new", "waiting" for Initialize, "sent", or settled:
                    \*   "done" or "cancelled"
    answered,       \* call -> page of the request whose answer settled it, or 0
    event,          \* event -> "off", "opening" (first listener added), or "on"
    waiting,        \* requests that wait for Initialize
    rejoin,         \* event -> listeners of onReconnect that will ask for it again
    toServer, toClient,     \* messages under way
    greeted,        \* page that said hello and not yet who it is, or 0
    current,        \* page whose connection is open, or 0
    registered,     \* the channel is registered with the worker
    flushDue,       \* connections with a timer that will flush their requests
    pending,        \* connection -> requests that wait for the channel
    active,         \* connection -> ids in activeRequests
    running,        \* calls being executed, with their connection
    subs,           \* connection -> event -> live subscriptions
    saving,         \* what the manager is doing to the stored connection: "removing" the
                    \*   one that was replaced, "adding" the present one, or "none"
    saved,          \* the connection is stored
    reconnectDue,   \* a restarted worker is about to tell the page
    restarts,
    executed,       \* history: page -> call -> times it was executed
    lost,           \* history: events unsubscribed while their request waited
    clean           \* history: no call of an older page was left when a
                    \*   connection was opened while the present one is there

clientVars == <<page, idle, call, answered, event, waiting, rejoin>>
serverVars == <<greeted, current, registered, flushDue, pending, active, running, subs>>
managerVars == <<saving, saved, reconnectDue, restarts>>
historyVars == <<executed, lost, clean>>
channelVars == <<clientVars, toServer, toClient, serverVars, managerVars, historyVars>>

Handshakes == [type : {"hello", "ctx"}, page : Pages]

Requests ==
    [type : {"call", "cancel"}, id : Calls, page : Pages]
        \cup [type : {"listen", "dispose"}, id : Events, page : Pages]

Pendings ==
    [type : {"call"}, id : Calls, page : Pages, timer : BOOLEAN]
        \cup [type : {"listen"}, id : Events, page : Pages, timer : BOOLEAN]

Answers == [type : {"result", "unknown"}, id : Calls, page : Pages]

Addresses == {"page", "worker"}

Reconnects == [type : {"reconnect"}, source : Addresses, target : Addresses]

Initialize == [type |-> "init"]

Hello(p) == <<[type |-> "hello", page |-> p], [type |-> "ctx", page |-> p]>>

Request(type, id) == [type |-> type, id |-> id, page |-> page]

Listens(reqs, e) == Cardinality({i \in DOMAIN reqs : reqs[i].type = "listen" /\ reqs[i].id = e})

ServerStart ==
    /\ greeted' = 0 /\ current' = 0 /\ registered' = FALSE /\ flushDue' = {}
    /\ pending' = [k \in Pages |-> <<>>]
    /\ active' = [k \in Pages |-> {}]
    /\ running' = {}
    /\ subs' = [k \in Pages |-> [e \in Events |-> 0]]

Init ==
    /\ page = 1 /\ idle = FALSE
    /\ call = [c \in Calls |-> "new"] /\ answered = [c \in Calls |-> 0]
    /\ event = [e \in Events |-> "off"] /\ waiting = <<>>
    /\ rejoin = [e \in Events |-> 0]
    /\ toServer = Hello(1) /\ toClient = <<>>
    /\ greeted = 0 /\ current = 0 /\ registered = FALSE /\ flushDue = {}
    /\ pending = [k \in Pages |-> <<>>]
    /\ active = [k \in Pages |-> {}]
    /\ running = {}
    /\ subs = [k \in Pages |-> [e \in Events |-> 0]]
    /\ saving = "none" /\ saved = FALSE /\ reconnectDue = FALSE /\ restarts = 0
    /\ executed = [k \in Pages |-> [c \in Calls |-> 0]]
    /\ lost = {} /\ clean = TRUE

-----------------------------------------------------------------------------
(* The page: MessageClient and ChannelClient.                              *)

(* A request is sent, or waits for Initialize.                             *)
Ask(type, id) ==
    IF idle
    THEN toServer' = Append(toServer, Request(type, id)) /\ UNCHANGED waiting
    ELSE waiting' = Append(waiting, Request(type, id)) /\ UNCHANGED toServer

(* A request no longer waits.                                              *)
Withdraw(id) ==
    \E i \in DOMAIN waiting : waiting[i].id = id /\ waiting' = RemoveAt(waiting, i)

(* getChannel(...).call *)
Call(c) ==
    /\ call[c] = "new"
    /\ call' = [call EXCEPT ![c] = IF idle THEN "sent" ELSE "waiting"]
    /\ Ask("call", c)
    /\ UNCHANGED <<page, idle, answered, event, rejoin, toClient,
                   serverVars, managerVars, historyVars>>

(* The caller cancels.  Settling a promise, in whatever way, has its       *)
(* disposable cancel once more.                                            *)
Cancel(c) ==
    /\ call' = [call EXCEPT ![c] = "cancelled"]
    /\ \/ /\ call[c] = "waiting"
          /\ Withdraw(c)
          /\ toServer' = Append(toServer, Request("cancel", c))
       \/ /\ call[c] = "sent"
          /\ toServer' = toServer \o <<Request("cancel", c), Request("cancel", c)>>
          /\ UNCHANGED waiting
    /\ UNCHANGED <<page, idle, answered, event, rejoin, toClient,
                   serverVars, managerVars, historyVars>>

(* The first listener is added to an event: onWillAddFirstListener.  Once  *)
(* idle the request leaves in a microtask, and the action is that one: a   *)
(* listener that the same task removes has withdrawn it, and is no step.   *)
AddListener(e) ==
    /\ event[e] = "off" /\ rejoin[e] < MaxListens[page]
    /\ event' = [event EXCEPT ![e] = IF idle THEN "on" ELSE "opening"]
    /\ rejoin' = [rejoin EXCEPT ![e] = @ + IF idle THEN 1 ELSE 0]
    /\ Ask("listen", e)
    /\ UNCHANGED <<page, idle, call, answered, toClient, serverVars, managerVars, historyVars>>

(* The last listener is removed: onDidRemoveLastListener.                  *)
RemoveListener(e) ==
    /\ event' = [event EXCEPT ![e] = "off"]
    /\ \/ event[e] = "opening" /\ Withdraw(e) /\ UNCHANGED toServer
       \/ /\ event[e] = "on"
          /\ toServer' = Append(toServer, Request("dispose", e))
          /\ UNCHANGED waiting
    /\ UNCHANGED <<page, idle, call, answered, rejoin, toClient,
                   serverVars, managerVars, historyVars>>

(* What has waited for Initialize is sent.                                 *)
ReceiveInit ==
    /\ toClient # <<>> /\ Head(toClient) = Initialize
    /\ toClient' = Tail(toClient)
    /\ idle' = TRUE
    /\ call' = [c \in Calls |-> IF call[c] = "waiting" THEN "sent" ELSE call[c]]
    /\ event' = [e \in Events |-> IF event[e] = "opening" THEN "on" ELSE event[e]]
    /\ rejoin' = [e \in Events |-> rejoin[e] + Listens(waiting, e)]
    /\ toServer' = toServer \o waiting
    /\ waiting' = <<>>
    /\ UNCHANGED <<page, answered, serverVars, managerVars, historyVars>>

(* Mutant: the handler is there before the request is sent.                *)
HasHandlerSoon(c) == call[c] \in {"waiting", "sent"}

(* There is a handler for the answer to a call.                            *)
HasHandler(c) == call[c] = "sent"

(* An answer to a call that is not waiting for one is ignored.             *)
ReceiveAnswer ==
    LET m == Head(toClient)
    IN  /\ toClient # <<>> /\ m \in Answers
        /\ toClient' = Tail(toClient)
        /\ IF HasHandler(m.id)
           THEN /\ call' = [call EXCEPT ![m.id] = "done"]
                /\ answered' = [answered EXCEPT ![m.id] = m.page]
                /\ toServer' = Append(toServer, Request("cancel", m.id))
           ELSE UNCHANGED <<call, answered, toServer>>
        /\ UNCHANGED <<page, idle, event, waiting, rejoin, serverVars, managerVars, historyVars>>

(* The filter of createMessageEvent.                                       *)
Hears(m) == m.source = "worker" /\ m.target = "page"

(* Told of a restart the page says hello again and every event that was    *)
(* ever listened to is requested again, by each listener of onReconnect,   *)
(* in some order.                                                          *)
ReceiveReconnect ==
    LET m == Head(toClient)
        asks == SetToSeq({x \in Events \X (1..MaxListens[page]) : x[2] <= rejoin[x[1]]})
        again == [i \in DOMAIN asks |-> Request("listen", asks[i][1])]
    IN  /\ toClient # <<>> /\ m \in Reconnects
        /\ toClient' = Tail(toClient)
        /\ toServer' =
              IF Hears(m)
              THEN toServer \o Hello(page) \o again
              ELSE toServer
        /\ UNCHANGED <<clientVars, serverVars, managerVars, historyVars>>

(* The page is loaded anew.  It does not get what was under way to the     *)
(* page before it.                                                         *)
Reload ==
    /\ page < MaxPages
    /\ page' = page + 1
    /\ idle' = FALSE
    /\ call' = [c \in Calls |-> "new"] /\ answered' = [c \in Calls |-> 0]
    /\ event' = [e \in Events |-> "off"] /\ waiting' = <<>>
    /\ rejoin' = [e \in Events |-> 0]
    /\ toClient' = <<>> /\ toServer' = toServer \o Hello(page + 1)
    /\ clean' = TRUE
    /\ UNCHANGED <<serverVars, managerVars, executed, lost>>

-----------------------------------------------------------------------------
(* The worker: MessageServer, IPCServer and ChannelServer.                 *)

Arrived(types) == toServer # <<>> /\ Head(toServer).type \in types

Called(reqs, p, c) ==
    \E i \in DOMAIN reqs : reqs[i].type = "call" /\ reqs[i].id = c /\ reqs[i].page = p

(* onPromise and onEventListen, for requests that find their channel.      *)
Execute(k, reqs) ==
    /\ running' = running \cup
          {x \in [conn : {k}, id : Calls, page : Pages] : Called(reqs, x.page, x.id)}
    /\ active' = [active EXCEPT ![k] = @ \cup {reqs[i].id : i \in DOMAIN reqs}]
    /\ subs' = [subs EXCEPT ![k] = [e \in Events |-> @[e] + Listens(reqs, e)]]
    /\ executed' = [p \in Pages |->
          [c \in Calls |-> executed[p][c] + IF Called(reqs, p, c) THEN 1 ELSE 0]]

(* Mutant: the subscriptions of a connection outlive it.                   *)
DisposedCalls(k) == active[k] \cap Calls

(* What dispose of a ChannelServer disposes of.                            *)
Disposed(k) == active[k]

(* What the manager has to do for a new connection.  It hears of the end   *)
(* of the one that is replaced if it had come to the end of storing it.    *)
AfterHello ==
    IF saving = "removing" \/ (saving = "none" /\ current # 0) THEN "removing" ELSE "adding"

(* A hello replaces the connection that is there under the same source.    *)
ReceiveHello ==
    /\ Arrived({"hello"})
    /\ toServer' = Tail(toServer)
    /\ greeted' = Head(toServer).page
    /\ saving' = AfterHello
    /\ current' = 0
    /\ IF current # 0
       THEN /\ subs' = [subs EXCEPT ![current] =
                          [e \in Events |-> @[e] - IF e \in Disposed(current) THEN 1 ELSE 0]]
            /\ active' = [active EXCEPT ![current] = {}]
            /\ lost' = lost \cup {e \in Events : Listens(pending[current], e) > 0}
       ELSE UNCHANGED <<subs, active, lost>>
    /\ UNCHANGED <<clientVars, toClient, registered, flushDue, pending, running,
                   saved, reconnectDue, restarts, executed, clean>>

(* No call of an older page is left to be executed or answered.            *)
NoneBehind ==
    /\ \A x \in running : x.page = page
    /\ \A k \in Pages : \A i \in DOMAIN pending[k] :
           pending[k][i].type = "call" => pending[k][i].page = page
    /\ \A i \in DOMAIN toServer : toServer[i].type = "call" => toServer[i].page = page

(* onFirstMessage: the connection is opened and Initialize sent, to the    *)
(* page that is there.                                                     *)
ReceiveContext ==
    /\ Arrived({"ctx"}) /\ greeted # 0
    /\ toServer' = Tail(toServer)
    /\ toClient' = Append(toClient, Initialize)
    /\ current' = greeted /\ greeted' = 0
    /\ clean' = (clean /\ NoneBehind)
    /\ UNCHANGED <<clientVars, registered, flushDue, pending, active, running, subs,
                   managerVars, executed, lost>>

(* A request whose channel is not registered is kept, and has a timer; so  *)
(* are the later ones until the channel is.                                *)
Collected(m) ==
    Append(pending[current], [type |-> m.type, id |-> m.id, page |-> m.page, timer |-> TRUE])

(* Mutant: what comes before the flush is kept for it, and executed too.   *)
WaitsAndRuns == ~registered \/ current \in flushDue

Waits == ~registered

ReceiveRequest ==
    /\ Arrived({"call", "listen"}) /\ current # 0
    /\ toServer' = Tail(toServer)
    /\ IF Waits
       THEN pending' = [pending EXCEPT ![current] = Collected(Head(toServer))]
       ELSE UNCHANGED pending
    /\ IF registered
       THEN Execute(current, <<Head(toServer)>>)
       ELSE UNCHANGED <<running, active, subs, executed>>
    /\ UNCHANGED <<clientVars, toClient, greeted, current, registered, flushDue,
                   managerVars, lost, clean>>

(* Mutant: whether there is anything to dispose of is not looked at.       *)
AnyEvent(id) == id \in Events

SubscribedTo(id) == id \in active[current] \cap Events

(* disposeActiveRequest.  A call that is cancelled is executed to its end; *)
(* a request that waits for its channel is not found.                      *)
ReceiveDisposal ==
    LET id == Head(toServer).id
    IN  /\ Arrived({"cancel", "dispose"}) /\ current # 0
        /\ toServer' = Tail(toServer)
        /\ active' = [active EXCEPT ![current] = @ \ {id}]
        /\ IF SubscribedTo(id)
           THEN subs' = [subs EXCEPT ![current][id] = @ - 1]
           ELSE UNCHANGED subs
        /\ lost' = IF id \in Events /\ Listens(pending[current], id) > 0
                   THEN lost \cup {id} ELSE lost
        /\ UNCHANGED <<clientVars, toClient, greeted, current, registered, flushDue,
                       pending, running, managerVars, executed, clean>>

(* Nobody listens to a page that has not said hello to this worker.        *)
Drop ==
    /\ \/ Arrived({"ctx"}) /\ greeted = 0
       \/ Arrived({"call", "listen", "cancel", "dispose"}) /\ current = 0
    /\ toServer' = Tail(toServer)
    /\ UNCHANGED <<clientVars, toClient, serverVars, managerVars, historyVars>>

(* registerChannel: requests that wait are executed by a timer of 0 ms.    *)
RegisterChannel ==
    /\ ~registered
    /\ registered' = TRUE
    /\ flushDue' = IF current # 0 THEN flushDue \cup {current} ELSE flushDue
    /\ UNCHANGED <<clientVars, toServer, toClient, greeted, current, pending, active,
                   running, subs, managerVars, historyVars>>

(* Mutant: requests that have timed out are not flushed.                   *)
NotTimedOut(k) == SelectSeq(pending[k], LAMBDA r : r.timer)

Flushed(k) == pending[k]

(* flushPendingRequests: whether their own timers have run out or not, and *)
(* also when the connection has been replaced in the meantime.             *)
Flush(k) ==
    /\ k \in flushDue
    /\ flushDue' = flushDue \ {k}
    /\ Execute(k, Flushed(k))
    /\ pending' = [pending EXCEPT ![k] = <<>>]
    /\ UNCHANGED <<clientVars, toServer, toClient, greeted, current, registered,
                   managerVars, lost, clean>>

(* The timer of collectPendingRequest answers a call, and keeps it.        *)
Timeout(k, i) ==
    LET r == pending[k][i]
    IN  /\ i \in DOMAIN pending[k] /\ r.timer
        /\ pending' = [pending EXCEPT ![k][i].timer = FALSE]
        /\ toClient' = IF r.type = "call"
                       THEN Append(toClient, [type |-> "unknown", id |-> r.id, page |-> r.page])
                       ELSE toClient
        /\ UNCHANGED <<clientVars, toServer, greeted, current, registered, flushDue,
                       active, running, subs, managerVars, historyVars>>

(* Mutant: a call that fails is not answered.                              *)
ResultsOnly(ok) == ok

(* The answer is sent whether the call has failed, has been cancelled or   *)
(* has lost its connection in the meantime.                                *)
IsAnswered(ok) == TRUE

(* A channel has finished a call, well or not.                             *)
Finish(x, ok) ==
    /\ running' = running \ {x}
    /\ active' = [active EXCEPT ![x.conn] = @ \ {x.id}]
    /\ toClient' = IF IsAnswered(ok)
                   THEN Append(toClient, [type |-> "result", id |-> x.id, page |-> x.page])
                   ELSE toClient
    /\ UNCHANGED <<clientVars, toServer, greeted, current, registered, flushDue, pending,
                   subs, managerVars, historyVars>>

-----------------------------------------------------------------------------
(* MessageServerManagerService, and the browser.                           *)

(* The connection of the page as ClientConnectEvent names its two ends.    *)
Connection == [id |-> "page", source |-> "page"]

(* onDidClientDisconnect: the connection that was replaced gets out of the *)
(* storage, before the one that replaces it, which has the same key.       *)
Forget ==
    /\ saving = "removing"
    /\ saving' = "adding" /\ saved' = FALSE
    /\ UNCHANGED <<clientVars, toServer, toClient, serverVars, reconnectDue, restarts,
                   historyVars>>

(* onDidClientConnect: the connection gets into the storage.               *)
Store ==
    /\ saving = "adding"
    /\ saving' = "none" /\ saved' = TRUE
    /\ UNCHANGED <<clientVars, toServer, toClient, serverVars, reconnectDue, restarts,
                   historyVars>>

Save == Forget \/ Store

(* The worker is stopped and started.  Its channels are registered anew.   *)
Restart ==
    /\ restarts < MaxRestarts[page]
    /\ restarts' = restarts + 1
    /\ ServerStart
    /\ saving' = "none"
    /\ reconnectDue' = saved
    /\ UNCHANGED <<clientVars, toServer, toClient, saved, historyVars>>

(* sendReconnectMessage, with the ends of the connection changed round.    *)
SendReconnect ==
    /\ reconnectDue
    /\ reconnectDue' = FALSE
    /\ toClient' = Append(toClient, [type |-> "reconnect", source |-> Connection.id,
                                     target |-> Connection.source])
    /\ UNCHANGED <<clientVars, toServer, serverVars, saving, saved, restarts, historyVars>>

-----------------------------------------------------------------------------
PageStep == ReceiveInit \/ ReceiveAnswer \/ ReceiveReconnect

ServerStep ==
    \/ ReceiveHello \/ ReceiveContext \/ ReceiveRequest \/ ReceiveDisposal \/ Drop

TimerStep ==
    \E k \in Pages : Flush(k) \/ \E i \in DOMAIN pending[k] : Timeout(k, i)

SystemStep ==
    \/ PageStep \/ ServerStep \/ RegisterChannel \/ TimerStep
    \/ \E x \in running, ok \in BOOLEAN : Finish(x, ok)

Next ==
    \/ \E c \in Calls : Call(c) \/ Cancel(c)
    \/ \E e \in Events : AddListener(e) \/ RemoveListener(e)
    \/ SystemStep
    \/ Reload \/ Save \/ Restart \/ SendReconnect

Spec == Init /\ [][Next]_channelVars

(* Something goes on while anything is to be done: messages arrive, timers *)
(* run out, the worker's start registers its channel, and what is executed *)
(* comes to an end.  None of these steps can go on for ever by itself.     *)
FairSpec == Spec /\ WF_channelVars(SystemStep)

-----------------------------------------------------------------------------
(* Every variable has its type.                                            *)
ChannelsTypeOK ==
    /\ page \in Pages /\ idle \in BOOLEAN
    /\ call \in [Calls -> {"new", "waiting", "sent", "done", "cancelled"}]
    /\ answered \in [Calls -> Pages \cup {0}]
    /\ event \in [Events -> {"off", "opening", "on"}]
    /\ waiting \in Seq(Requests) /\ rejoin \in [Events -> Nat]
    /\ toServer \in Seq(Handshakes \cup Requests)
    /\ toClient \in Seq({Initialize} \cup Answers \cup Reconnects)
    /\ greeted \in Pages \cup {0} /\ current \in Pages \cup {0}
    /\ registered \in BOOLEAN /\ flushDue \subseteq Pages
    /\ pending \in [Pages -> Seq(Pendings)]
    /\ active \in [Pages -> SUBSET Ids]
    /\ running \subseteq [conn : Pages, id : Calls, page : Pages]
    /\ subs \in [Pages -> [Events -> Nat]]
    /\ saving \in {"none", "removing", "adding"} /\ saved \in BOOLEAN /\ reconnectDue \in BOOLEAN
    /\ restarts \in Nat
    /\ executed \in [Pages -> [Calls -> Nat]]
    /\ lost \subseteq Events /\ clean \in BOOLEAN

(* No call is executed twice: not by the flush after it was executed or    *)
(* timed out, not by a worker that starts again, not for the page that     *)
(* comes after.                                                            *)
AtMostOnce == \A p \in Pages, c \in Calls : executed[p][c] <= 1

(* A call is settled by the answer to its own request, though the ids of   *)
(* the page before were the same and its calls are answered to whoever is  *)
(* there, unless one of those was left when the connection was opened.     *)
AnswerIsOwn == clean => \A c \in Calls : answered[c] \in {0, page}

(* The live subscriptions to an event, numbered on every connection.       *)
LiveSubscriptions(e) == UNION {{k} \X (1..subs[k][e]) : k \in Pages}

Subscriptions(e) == Cardinality(LiveSubscriptions(e))

Quiet == toServer = <<>> /\ registered /\ flushDue = {} /\ restarts = 0

(* An event is never delivered twice, and once all is said the worker has  *)
(* a subscription for exactly the events listened to, whatever was added,  *)
(* removed and loaded anew: nothing is leaked but the subscriptions whose  *)
(* withdrawal came while they waited for the channel.                      *)
SubscriptionsMatch ==
    \A e \in Events \ lost :
        /\ Subscriptions(e) <= 1
        /\ Quiet => Subscriptions(e) = IF event[e] = "on" THEN 1 ELSE 0

(* Unless the worker stops, every call is settled in the end: by a result, *)
(* or by a timer when the channel is not there, also around a reload.      *)
CallsSettle ==
    \A c \in Calls :
        call[c] \in {"waiting", "sent"} ~> call[c] \notin {"waiting", "sent"} \/ restarts > 0

(* Unless the worker stops, an event listened to gets its subscription.    *)
ListenersAreServed ==
    \A e \in Events :
        event[e] # "off" ~> event[e] = "off" \/ Subscriptions(e) > 0 \/ restarts > 0

(* "Here the id is receive ... needs to be switched in response"           *)
(* (messageServerManager.service.ts:22): the reconnect message goes from   *)
(* the worker to the page, which waits for it to say hello again.          *)
ReconnectIsHeard ==
    \A i \in DOMAIN toClient : toClient[i] \in Reconnects => Hears(toClient[i])
=============================================================================
