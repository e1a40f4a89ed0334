------------------------------ MODULE MCTrader ------------------------------
(* Instance of Trader: all orders are for one instrument.                  *)
EXTENDS Trader

MCInstrumentOf == [o \in Orders |-> CHOOSE i \in Instruments : TRUE]
=============================================================================
