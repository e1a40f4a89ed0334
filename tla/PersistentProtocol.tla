-------------------------- MODULE PersistentProtocol --------------------------
(***************************************************************************)
(* Two ends of a PersistentProtocol                                        *)
(* (packages/shared/src/ipc/remote/protocol.ts) over sockets that break.   *)
(*                                                                         *)
(* Each end numbers its messages, keeps those the other has not            *)
(* acknowledged, and sends them again on a new socket or when asked to.    *)
(* An end of Redialers is given its new socket through begin- and          *)
(* endAcceptReconnection, as RemoteAgentServer does; the socket object of  *)
(* any other end reconnects by itself, as the client's socket.io socket    *)
(* does, and the protocol notices nothing but the loss.                    *)
(*                                                                         *)
(* Messages are numbers without content.  What an end has handed to its    *)
(* ProtocolWriter is on the wire: the writer's buffer is flushed in order  *)
(* or dropped with the socket.                                             *)
(***************************************************************************)
EXTENDS Naturals, Sequences

CONSTANTS
    Redialers,      \* the ends that go through beginAcceptReconnection
    MaxSends,       \* bound: endpoint -> messages its user sends
    MaxMoves,       \* bound: changes of a socket, of both ends together
    MaxFlight       \* bound: no keep-alive onto a wire with that many messages

Endpoints == {"a", "b"}

Peer(e) == IF e = "a" THEN "b" ELSE "a"

ASSUME ProtocolAssumption ==
    /\ Redialers \subseteq Endpoints /\ Redialers # {}
    /\ MaxSends \in [Endpoints -> Nat] /\ MaxMoves \in Nat /\ MaxFlight \in Nat

VARIABLES
    outgoingMsgId,        \* endpoint -> number of its last message
    outgoingAckId,        \* endpoint -> last of them it knows to be received
    outgoingUnackMsg,     \* endpoint -> queue of the messages after that
    incomingMsgId,        \* endpoint -> last message it received
    incomingAckId,        \* endpoint -> last message it has acknowledged
    incomingAckTimeout,   \* endpoint -> the timer of _sendAckCheck is set
    outgoingAckTimeout,   \* endpoint -> the timer of _recvAckCheck is "set" or
                          \*   "unset", or "over" once onSocketTimeout has fired
    isReconnecting,       \* endpoint -> between begin- and endAcceptReconnection
    replayAsked,          \* endpoint -> it asked for a replay on this socket
    delivered,            \* endpoint -> messages onMessage has fired
    ahead,                \* the end that alone is on a new socket, or "none"
    wire,                 \* endpoint -> what is under way to it on its socket
    next,                 \* endpoint -> what the end ahead has sent it on the new one
    moves                 \* sockets changed so far

outVars == <<outgoingMsgId, outgoingAckId, outgoingUnackMsg, outgoingAckTimeout>>
inVars == <<incomingMsgId, incomingAckId, incomingAckTimeout, replayAsked, delivered>>
socketVars == <<ahead, isReconnecting, moves>>
wireVars == <<wire, next>>
protocolVars == <<outVars, inVars, socketVars, wireVars>>

Types == {"REGULAR", "ACK", "REPLAY"}

Messages == [type : Types, id : Nat, ack : Nat]

Regular(id, ack) == [type |-> "REGULAR", id |-> id, ack |-> ack]

(* Mutant: acknowledges what came before the last message.                *)
AckOfPrevious(ack) == [type |-> "ACK", id |-> 0, ack |-> ack - 1]

(* Ack and KeepAlive messages are received alike. *)
Ack(ack) == [type |-> "ACK", id |-> 0, ack |-> ack]

ReplayRequest == [type |-> "REPLAY", id |-> 0, ack |-> 0]

Init ==
    /\ outgoingMsgId = [e \in Endpoints |-> 0]
    /\ outgoingAckId = [e \in Endpoints |-> 0]
    /\ outgoingUnackMsg = [e \in Endpoints |-> <<>>]
    /\ incomingMsgId = [e \in Endpoints |-> 0]
    /\ incomingAckId = [e \in Endpoints |-> 0]
    /\ incomingAckTimeout = [e \in Endpoints |-> FALSE]
    /\ outgoingAckTimeout = [e \in Endpoints |-> "unset"]
    /\ isReconnecting = [e \in Endpoints |-> FALSE]
    /\ replayAsked = [e \in Endpoints |-> FALSE]
    /\ delivered = [e \in Endpoints |-> <<>>]
    /\ ahead = "none"
    /\ wire = [e \in Endpoints |-> <<>>]
    /\ next = [e \in Endpoints |-> <<>>]
    /\ moves = 0

-----------------------------------------------------------------------------
(* End e has left rest of what was under way to it and has written ms.  On *)
(* a socket its peer has already given up, ms is lost.                     *)
Transfer(e, rest, ms) ==
    /\ wire' = [x \in Endpoints |->
           IF x = e THEN rest ELSE IF ahead = "none" THEN wire[x] \o ms ELSE wire[x]]
    /\ next' = [x \in Endpoints |->
           IF x = Peer(e) /\ ahead = e THEN next[x] \o ms ELSE next[x]]

Write(e, ms) == Transfer(e, wire[e], ms)

(* End e changes to a new socket: the one its peer is on already, or one   *)
(* its peer does not know of yet.                                          *)
Move(e) ==
    /\ moves < MaxMoves \/ ahead = Peer(e)
    /\ moves' = IF ahead = Peer(e) THEN moves ELSE moves + 1
    /\ ahead' = IF ahead = Peer(e) THEN "none" ELSE e
    /\ wire' = [wire EXCEPT ![e] = next[e]]
    /\ next' = [x \in Endpoints |-> <<>>]

(* Mutant: one unacknowledged message is not worth a timer.                *)
RecvAckCheckOffByOne(e, reconnecting) ==
    outgoingAckTimeout' = [outgoingAckTimeout EXCEPT ![e] =
        IF outgoingMsgId'[e] > outgoingAckId'[e] + 1 /\ ~reconnecting THEN "set" ELSE @]

(* _recvAckCheck sets its timer if a message is not acknowledged, except   *)
(* in the middle of a reconnection.                                        *)
RecvAckCheck(e, reconnecting) ==
    outgoingAckTimeout' = [outgoingAckTimeout EXCEPT ![e] =
        IF outgoingMsgId'[e] > outgoingAckId'[e] /\ ~reconnecting THEN "set" ELSE @]

-----------------------------------------------------------------------------
(* Mutant: a message sent in the middle of a reconnection is written.      *)
WrittenAlways(e, m) == <<m>>

Written(e, m) == IF isReconnecting[e] THEN <<>> ELSE <<m>>

(* An end whose onSocketTimeout has fired may be found overdue again at    *)
(* once, and then has no timer.                                            *)
Send(e) ==
    LET m == Regular(outgoingMsgId[e] + 1, incomingMsgId[e])
    IN  /\ outgoingMsgId[e] < MaxSends[e]
        /\ outgoingMsgId' = [outgoingMsgId EXCEPT ![e] = @ + 1]
        /\ incomingAckId' = [incomingAckId EXCEPT ![e] = incomingMsgId[e]]
        /\ outgoingUnackMsg' = [outgoingUnackMsg EXCEPT ![e] = Append(@, m)]
        /\ Write(e, Written(e, m))
        /\ UNCHANGED <<outgoingAckId, incomingMsgId, incomingAckTimeout, replayAsked,
                       delivered, socketVars>>
        /\ \/ RecvAckCheck(e, isReconnecting[e])
           \/ /\ outgoingAckTimeout[e] = "over" /\ outgoingUnackMsg[e] # <<>>
              /\ UNCHANGED outgoingAckTimeout

(* Mutant: < for <= in the loop.                                           *)
PoppedBefore(q, ack) ==
    CHOOSE k \in 0..Len(q) :
        /\ \A i \in 1..k : q[i].id < ack
        /\ k = Len(q) \/ q[k + 1].id >= ack

(* The loop at the top of _receiveMessage: how many messages at the front  *)
(* of queue q are acknowledged by ack.                                     *)
Popped(q, ack) ==
    CHOOSE k \in 0..Len(q) :
        /\ \A i \in 1..k : q[i].id <= ack
        /\ k = Len(q) \/ q[k + 1].id > ack

Unacked(e, ack) ==
    LET q == outgoingUnackMsg[e]
    IN  IF ack > outgoingAckId[e] THEN SubSeq(q, Popped(q, ack) + 1, Len(q)) ELSE q

(* The message at the head of e's wire, whose ack is noted first.          *)
Read(e, type) ==
    /\ wire[e] # <<>>
    /\ Head(wire[e]).type = type
    /\ outgoingAckId' = [outgoingAckId EXCEPT ![e] =
           IF Head(wire[e]).ack > @ THEN Head(wire[e]).ack ELSE @]
    /\ outgoingUnackMsg' = [outgoingUnackMsg EXCEPT ![e] = Unacked(e, Head(wire[e]).ack)]
    /\ UNCHANGED <<outgoingMsgId, incomingAckId, socketVars>>

ReceiveAck(e) ==
    /\ Read(e, "ACK")
    /\ Transfer(e, Tail(wire[e]), <<>>)
    /\ UNCHANGED <<outgoingAckTimeout, incomingMsgId, incomingAckTimeout, replayAsked,
                   delivered>>

(* Mutant: any later message counts as the next one.                       *)
ExpectedLater(e) == Head(wire[e]).id > incomingMsgId[e]

(* The message after the last one: _sendAckCheck sets its timer, then      *)
(* onMessage fires.                                                        *)
Expected(e) == Head(wire[e]).id = incomingMsgId[e] + 1

ReceiveExpected(e) ==
    /\ Read(e, "REGULAR")
    /\ Expected(e)
    /\ incomingMsgId' = [incomingMsgId EXCEPT ![e] = Head(wire[e]).id]
    /\ incomingAckTimeout' = [incomingAckTimeout EXCEPT ![e] = TRUE]
    /\ delivered' = [delivered EXCEPT ![e] = Append(@, Head(wire[e]).id)]
    /\ Transfer(e, Tail(wire[e]), <<>>)
    /\ UNCHANGED <<outgoingAckTimeout, replayAsked>>

ReceiveDuplicate(e) ==
    /\ Read(e, "REGULAR")
    /\ Head(wire[e]).id <= incomingMsgId[e]
    /\ Transfer(e, Tail(wire[e]), <<>>)
    /\ UNCHANGED <<outgoingAckTimeout, incomingMsgId, incomingAckTimeout, replayAsked,
                   delivered>>

(* A gap: ask for a replay, unless that was done in the last ten seconds.  *)
ReceiveAfterGap(e) ==
    /\ Read(e, "REGULAR")
    /\ Head(wire[e]).id > incomingMsgId[e]
    /\ ~Expected(e)
    /\ \/ Transfer(e, Tail(wire[e]), <<ReplayRequest>>)
       \/ replayAsked[e] /\ Transfer(e, Tail(wire[e]), <<>>)
    /\ replayAsked' = [replayAsked EXCEPT ![e] = TRUE]
    /\ UNCHANGED <<outgoingAckTimeout, incomingMsgId, incomingAckTimeout, delivered>>

(* Mutant: the replay starts after the oldest message.                     *)
ResentLate(e) == SubSeq(outgoingUnackMsg[e], 2, Len(outgoingUnackMsg[e]))

(* What is sent again: all unacknowledged messages.                        *)
Resent(e) == outgoingUnackMsg[e]

ReceiveReplayRequest(e) ==
    /\ Read(e, "REPLAY")
    /\ Transfer(e, Tail(wire[e]), Resent(e))
    /\ RecvAckCheck(e, isReconnecting[e])
    /\ UNCHANGED <<incomingMsgId, incomingAckTimeout, replayAsked, delivered>>

(* The timer of _sendAckCheck runs out with nothing to acknowledge.        *)
AckTimerIdle(e) ==
    /\ incomingAckTimeout[e]
    /\ incomingMsgId[e] <= incomingAckId[e]
    /\ incomingAckTimeout' = [incomingAckTimeout EXCEPT ![e] = FALSE]
    /\ UNCHANGED <<outVars, incomingMsgId, incomingAckId, replayAsked, delivered, socketVars,
                   wireVars>>

(* It runs out with something to acknowledge.  When the last message came  *)
(* less than two seconds ago it is set once more, which changes nothing.   *)
AckTimerSends(e) ==
    /\ incomingAckTimeout[e]
    /\ incomingMsgId[e] > incomingAckId[e]
    /\ incomingAckTimeout' = [incomingAckTimeout EXCEPT ![e] = FALSE]
    /\ incomingAckId' = [incomingAckId EXCEPT ![e] = incomingMsgId[e]]
    /\ Write(e, <<Ack(incomingMsgId[e])>>)
    /\ UNCHANGED <<outVars, incomingMsgId, replayAsked, delivered, socketVars>>

(* The timer of _recvAckCheck runs out: there is nothing to watch, or the  *)
(* socket is overdue and onSocketTimeout fires.  Otherwise it is set again.*)
WatchTimer(e) ==
    /\ outgoingAckTimeout[e] = "set"
    /\ outgoingAckTimeout' = [outgoingAckTimeout EXCEPT ![e] =
           IF outgoingMsgId[e] <= outgoingAckId[e] \/ isReconnecting[e] THEN "unset" ELSE "over"]
    /\ UNCHANGED <<outgoingMsgId, outgoingAckId, outgoingUnackMsg, inVars, socketVars, wireVars>>

KeepAlive(e) ==
    /\ Len(wire[Peer(e)]) < MaxFlight /\ Len(next[Peer(e)]) < MaxFlight
    /\ incomingAckId' = [incomingAckId EXCEPT ![e] = incomingMsgId[e]]
    /\ Write(e, <<Ack(incomingMsgId[e])>>)
    /\ UNCHANGED <<outVars, incomingMsgId, incomingAckTimeout, replayAsked, delivered, socketVars>>

-----------------------------------------------------------------------------
(* beginAcceptReconnection.  The server is given a new socket only after   *)
(* one that reconnects by itself has opened it.                            *)
BeginReconnection(e) ==
    /\ e \in Redialers
    /\ ahead = Peer(e) \/ Peer(e) \in Redialers
    /\ Move(e)
    /\ isReconnecting' = [isReconnecting EXCEPT ![e] = TRUE]
    /\ replayAsked' = [replayAsked EXCEPT ![e] = FALSE]
    /\ UNCHANGED <<outVars, incomingMsgId, incomingAckId, incomingAckTimeout, delivered>>

(* Mutant: the other end is not told again what has been received.         *)
ResumptionSilent(e) == Resent(e)

Resumption(e) == <<Ack(incomingMsgId[e])>> \o Resent(e)

(* endAcceptReconnection *)
EndReconnection(e) ==
    /\ isReconnecting[e]
    /\ isReconnecting' = [isReconnecting EXCEPT ![e] = FALSE]
    /\ incomingAckId' = [incomingAckId EXCEPT ![e] = incomingMsgId[e]]
    /\ Write(e, Resumption(e))
    /\ UNCHANGED <<outgoingMsgId, outgoingAckId, outgoingUnackMsg, incomingMsgId,
                   incomingAckTimeout, replayAsked, delivered, ahead, moves>>
    /\ RecvAckCheck(e, FALSE)

(* The socket of an end that does not redial reconnects by itself.         *)
AutoReconnect(e) ==
    /\ e \notin Redialers
    /\ Move(e)
    /\ UNCHANGED <<outVars, inVars, isReconnecting>>

Receive(e) ==
    \/ ReceiveAck(e) \/ ReceiveReplayRequest(e)
    \/ ReceiveExpected(e) \/ ReceiveDuplicate(e) \/ ReceiveAfterGap(e)

Next ==
    \E e \in Endpoints :
        \/ Send(e) \/ Receive(e) \/ KeepAlive(e)
        \/ AckTimerIdle(e) \/ AckTimerSends(e) \/ WatchTimer(e)
        \/ BeginReconnection(e) \/ EndReconnection(e) \/ AutoReconnect(e)

Spec == Init /\ [][Next]_protocolVars

(* Sockets deliver, timers run out, and when one end has gone over to a    *)
(* new socket the other follows.                                           *)
Fairness ==
    \A e \in Endpoints :
        /\ WF_protocolVars(Receive(e))
        /\ WF_protocolVars(AckTimerSends(e))
        /\ WF_protocolVars(ahead = Peer(e) /\ BeginReconnection(e))
        /\ WF_protocolVars(EndReconnection(e))

FairSpec == Spec /\ Fairness

Channel == INSTANCE ReliableChannel WITH sent <- outgoingMsgId

-----------------------------------------------------------------------------
ProtocolTypeOK ==
    /\ outgoingMsgId \in [Endpoints -> Nat] /\ outgoingAckId \in [Endpoints -> Nat]
    /\ outgoingUnackMsg \in [Endpoints -> Seq(Messages)]
    /\ incomingMsgId \in [Endpoints -> Nat] /\ incomingAckId \in [Endpoints -> Nat]
    /\ incomingAckTimeout \in [Endpoints -> BOOLEAN]
    /\ outgoingAckTimeout \in [Endpoints -> {"set", "unset", "over"}]
    /\ isReconnecting \in [Endpoints -> BOOLEAN] /\ replayAsked \in [Endpoints -> BOOLEAN]
    /\ delivered \in [Endpoints -> Seq(Nat)]
    /\ ahead \in Endpoints \cup {"none"} /\ moves \in Nat
    /\ wire \in [Endpoints -> Seq(Messages)] /\ next \in [Endpoints -> Seq(Messages)]

(* The queue holds exactly the messages that are not acknowledged, oldest  *)
(* first, and only what the other end has received is acknowledged, though *)
(* acks are resent, overtaken and repeated across sockets, inside old      *)
(* messages too: a replay has all that the other end waits for.            *)
QueueIsComplete ==
    \A e \in Endpoints :
        LET q == outgoingUnackMsg[e]
        IN  /\ outgoingAckId[e] <= incomingMsgId[Peer(e)]
            /\ Len(q) = outgoingMsgId[e] - outgoingAckId[e]
            /\ \A i \in 1..Len(q) : q[i].id = outgoingAckId[e] + i

(* A received message is acknowledged by now or a timer will do it; an     *)
(* unacknowledged one is being watched, for a timer will fire or           *)
(* onSocketTimeout has fired, except in the middle of a reconnection.      *)
(* Timers may run out in the middle of one all the same.                   *)
SilenceIsNoticed ==
    \A e \in Endpoints :
        /\ incomingMsgId[e] > incomingAckId[e] => incomingAckTimeout[e]
        /\ outgoingUnackMsg[e] # <<>> /\ ~isReconnecting[e] => outgoingAckTimeout[e] # "unset"

(* As long as both ends go through begin- and endAcceptReconnection no end *)
(* ever sees a gap, and no replay is asked for.                            *)
NoGapAfterRedial ==
    Redialers = Endpoints => \A e \in Endpoints : ~replayAsked[e]

(* Every end gets the other's messages once each and in order.             *)
ImplementsChannel == Channel!SpecChannel

(* With sockets that change finitely often every message is acknowledged,  *)
(* those written to a broken socket or sent in a reconnection included:    *)
(* it arrives (QueueIsComplete), its sender learns of it, and the queue    *)
(* does not grow for ever.                                                 *)
AllAcknowledged == \A e \in Endpoints : outgoingUnackMsg[e] # <<>> ~> outgoingUnackMsg[e] = <<>>

(* When an end whose peer's socket reconnects by itself sees a gap, it     *)
(* gets the missing messages after all, unless the socket breaks again.    *)
GapHeals ==
    \A e \in Endpoints : \A n \in 1..MaxSends[Peer(e)] :
        /\ moves = MaxMoves /\ ahead = "none"
        /\ wire[e] # <<>> /\ Head(wire[e]).type = "REGULAR" /\ Head(wire[e]).id = n
        ~> incomingMsgId[e] >= n
===============================================================================
