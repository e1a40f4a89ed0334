------------------------------ MODULE Signals -------------------------------
(***************************************************************************)
(* What a trading strategy promises to the trade manager: its              *)
(* onPositionOpened and onPositionClosed events alternate, and it enters   *)
(* only the directions its strategyType allows.  Strategy.tla implements   *)
(* this; TradeManager.tla is composed with it.                             *)
(***************************************************************************)

CONSTANT Strategies   \* the strategy objects

VARIABLES
    kind,   \* strategy -> its strategyType, fixed at construction
    held    \* strategy -> direction of its positionIntent, "NONE" without one

signalVars == <<kind, held>>

Directions == {"LONG", "SHORT"}

Types == Directions \cup {"TWO_WAY"}

InitSignals ==
    /\ kind \in [Strategies -> Types]
    /\ held = [s \in Strategies |-> "NONE"]

(* onPositionOpened fires; the intent is set before it does.               *)
Enter(s, d) ==
    /\ held[s] = "NONE"
    /\ kind[s] \in {d, "TWO_WAY"}
    /\ held' = [held EXCEPT ![s] = d]
    /\ UNCHANGED kind

(* onPositionClosed fires; the intent is dropped.                          *)
Leave(s) ==
    /\ held[s] # "NONE"
    /\ held' = [held EXCEPT ![s] = "NONE"]
    /\ UNCHANGED kind

NextSignals == \E s \in Strategies : Leave(s) \/ \E d \in Directions : Enter(s, d)

SpecSignals == InitSignals /\ [][NextSignals]_signalVars
=============================================================================
