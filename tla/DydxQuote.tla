----------------------------- MODULE DydxQuote -----------------------------
(***************************************************************************)
(* What dydx.rs makes of a market's answer: a quote whose spread is        *)
(* synthetic, and an order book that is synthetic too.  Prices come in     *)
(* thousandths; derived ones are exact, in units of 1/Tick of one.         *)
(***************************************************************************)
EXTENDS Integers, Sequences

CONSTANTS NonFinite, \* a price that parses to NaN or an infinity
          Missing    \* a field that is absent, no string, or no number

QuoteConstants == NonFinite \notin Int /\ Missing \notin Int /\ Missing # NonFinite

Tick == 999 * 1000
NoQuote == [ok |-> FALSE]

Ask(bid) == (bid \div 999) * 1000

Bid(market) ==
  CASE market.index = NonFinite -> NonFinite
    [] market.index # Missing /\ market.index # NonFinite -> market.index * Tick
    [] market.index = Missing /\ market.oracle = NonFinite -> NonFinite
    [] OTHER -> market.oracle * 999 * 999

(* get_price: without an oraclePrice an error, whatever else is there. *)
GetPrice(market) ==
  IF market.oracle = Missing THEN NoQuote
  ELSE LET bid == Bid(market)
       IN [ok |-> TRUE, price |-> market.oracle, bid |-> bid,
           ask |-> IF bid = NonFinite THEN NonFinite ELSE Ask(bid)]

(* The fields and methods of a quote; the middle is doubled. *)
Spread(quote) == quote.ask - quote.bid
TwiceMid(quote) == quote.bid + quote.ask

(* Mutated GetOrderbook: both sides start at the bid. *)
BookAroundBid(quote, depth) ==
  [bids |-> [i \in 1..depth |-> quote.bid - i * Tick],
   asks |-> [i \in 1..depth |-> quote.bid + i * Tick]]

(* get_orderbook: depth levels a thousandth apart, outwards from the quote. *)
GetOrderbook(quote, depth) ==
  [bids |-> [i \in 1..depth |-> quote.bid - i * Tick],
   asks |-> [i \in 1..depth |-> quote.ask + i * Tick]]

(* mid_price and spread of a book, None when a side is empty. *)
TwiceBookMid(book) == IF book.bids = <<>> THEN Missing ELSE book.bids[1] + book.asks[1]
BookSpread(book) == IF book.bids = <<>> THEN Missing ELSE book.asks[1] - book.bids[1]
=============================================================================
