--------------------------- MODULE ReliableChannel ---------------------------
(***************************************************************************)
(* What PersistentProtocol promises to its two users: the messages of each *)
(* side reach the other once, in the order they were sent, whatever        *)
(* happens to the sockets in between.  The n-th message of a side is the   *)
(* number n.                                                               *)
(***************************************************************************)
EXTENDS Naturals, Sequences

Endpoints == {"a", "b"}

Peer(e) == IF e = "a" THEN "b" ELSE "a"

VARIABLES
    sent,       \* endpoint -> how many messages its user has sent
    delivered   \* endpoint -> the messages its user has been given

channelVars == <<sent, delivered>>

InitChannel ==
    /\ sent = [e \in Endpoints |-> 0]
    /\ delivered = [e \in Endpoints |-> <<>>]

Submit(e) ==
    /\ sent' = [sent EXCEPT ![e] = @ + 1]
    /\ UNCHANGED delivered

Deliver(e) ==
    /\ Len(delivered[e]) < sent[Peer(e)]
    /\ delivered' = [delivered EXCEPT ![e] = Append(@, Len(@) + 1)]
    /\ UNCHANGED sent

NextChannel == \E e \in Endpoints : Submit(e) \/ Deliver(e)

SpecChannel == InitChannel /\ [][NextChannel]_channelVars
==============================================================================
