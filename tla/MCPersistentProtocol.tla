------------------------ MODULE MCPersistentProtocol ------------------------
(* Instances of PersistentProtocol for TLC.                                *)
EXTENDS PersistentProtocol

(* Where both ends redial nothing tells them apart, so that one of them    *)
(* may be the one that sends less.                                         *)
MCSendsApart == [a |-> 2, b |-> 1]

MCSendsBoth == [a |-> 2, b |-> 2]
=============================================================================
