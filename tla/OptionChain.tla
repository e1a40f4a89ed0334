---------------------------- MODULE OptionChain ----------------------------
(***************************************************************************)
(* The market data of an option chain in the side panel                    *)
(* (pages/side-panel/src/services/chains/chain.ts): a timer fetches the    *)
(* quotes of the options nearest to the price, in batches, and does not    *)
(* wait for the fetch before.                                              *)
(*                                                                         *)
(* Prices are counted in halves of a step, for the middle of a bid and an  *)
(* ask may be half a step.  The dates and the loading of the instruments   *)
(* are left out: near is empty as long as there are none.                  *)
(***************************************************************************)
EXTENDS Integers

CONSTANTS
    Instruments,  \* options of the symbol
    Quotes,       \* what may be quoted for one
    NaN,          \* a price that is missing
    NoQuote,
    Slots,        \* bound: one for each fetch under way
    MaxMoves      \* bound: changes of the market

ASSUME ChainAssumption ==
    /\ Quotes \subseteq [bid : Nat \cup {NaN}, ask : Nat \cup {NaN}]
    /\ NaN \notin Nat
    /\ NoQuote \notin Quotes
    /\ MaxMoves \in Nat

VARIABLES
    quote,    \* instrument -> what the exchange quotes, or NoQuote: nothing
    near,     \* the options that the filter of the strikes leaves
    moves,    \* changes of the market so far
    busy,     \* slots with a fetch under way
    missing,  \* slot -> options whose batch has not been read
    answer,   \* slot -> quotes read so far
    market    \* marketData$

worldVars == <<quote, near, moves>>
fetchVars == <<busy, missing, answer>>
chainVars == <<worldVars, fetchVars, market>>

Quoted == [Instruments -> Quotes \cup {NoQuote}]

Empty == [i \in Instruments |-> NoQuote]

InitChain ==
    /\ quote \in [Instruments -> Quotes]
    /\ near = {} /\ moves = 0
    /\ busy = {}
    /\ missing = [s \in Slots |-> {}] /\ answer = [s \in Slots |-> Empty]
    /\ market = Empty

(* A quote changes, or the price of the symbol and with it the filter.     *)
Move ==
    /\ moves < MaxMoves
    /\ moves' = moves + 1
    /\ \/ /\ \E i \in Instruments, q \in Quotes \cup {NoQuote} : quote' = [quote EXCEPT ![i] = q]
          /\ UNCHANGED near
       \/ near' \in SUBSET Instruments /\ UNCHANGED quote
    /\ UNCHANGED <<fetchVars, market>>

(* A tick of the timer: the options are those of now.                      *)
Tick(s) ==
    /\ s \notin busy
    /\ busy' = busy \cup {s}
    /\ missing' = [missing EXCEPT ![s] = near]
    /\ UNCHANGED <<worldVars, answer, market>>

(* A batch is answered.  An option that is not quoted has no entry in the  *)
(* answer, or an empty one, and gets none.                                 *)
ReadBatch(s, batch) ==
    /\ s \in busy
    /\ batch # {} /\ batch \subseteq missing[s]
    /\ missing' = [missing EXCEPT ![s] = @ \ batch]
    /\ answer' = [answer EXCEPT ![s] = [i \in Instruments |-> IF i \in batch THEN quote[i] ELSE @[i]]]
    /\ UNCHANGED <<worldVars, busy, market>>

(* Mutant: what is known goes before what was read.                        *)
KnownFirst(s) ==
    [i \in Instruments |-> IF market[i] = NoQuote THEN answer[s][i] ELSE market[i]]

(* What is known once the fetch is over, whatever was applied meanwhile.   *)
Replaced(s) == answer[s]

FetchEnds(s) ==
    /\ busy' = busy \ {s}
    /\ missing' = [missing EXCEPT ![s] = {}] /\ answer' = [answer EXCEPT ![s] = Empty]

Apply(s) ==
    /\ s \in busy /\ missing[s] = {}
    /\ FetchEnds(s)
    /\ market' = Replaced(s)
    /\ UNCHANGED worldVars

(* Of a fetch that fails nothing is kept, nor of those before.             *)
FetchFails(s) ==
    /\ s \in busy /\ missing[s] # {}
    /\ FetchEnds(s)
    /\ market' = Empty
    /\ UNCHANGED worldVars

(* The steps that leave the market data alone, and those that set it.      *)
Fetching(s) == Tick(s) \/ \E batch \in SUBSET Instruments : ReadBatch(s, batch)

Publish(s) == Apply(s) \/ FetchFails(s)

ChainTypeOK ==
    /\ quote \in Quoted
    /\ near \subseteq Instruments
    /\ moves \in 0..MaxMoves
    /\ busy \subseteq Slots
    /\ missing \in [Slots -> SUBSET Instruments]
    /\ answer \in [Slots -> Quoted]
    /\ market \in Quoted
=============================================================================
