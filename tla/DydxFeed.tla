------------------------------ MODULE DydxFeed ------------------------------
(***************************************************************************)
(* The price cache of the dYdX feed (dydx.rs, MarketFeed).  poll_prices    *)
(* fetches the tickers of a list one after the other and inserts each      *)
(* answer under the write lock.  It takes &self, so polls may overlap, and *)
(* nothing compares an answer with what is cached: requests may be         *)
(* answered in another order than they were sent.  The HTTP client has no  *)
(* timeout.  A price is abstracted to the version of its market: how often *)
(* it had moved when the server read it.                                   *)
(***************************************************************************)
EXTENDS Integers, Sequences

CONSTANTS Pollers,    \* tasks that call poll_prices
          Tickers,
          Lists,      \* the lists of tickers polled
          MaxMoves    \* bound: moves of each market

ASSUME FeedAssumption == Lists \subseteq Seq(Tickers) /\ MaxMoves \in Nat

NoPrice == -1

VARIABLES market,   \* per ticker: version of its price at the exchange
          prices,   \* the cache: version per ticker, or NoPrice
          poll,     \* per poller: where its poll_prices is
          todo,     \* per poller: tickers left, the head being fetched
          sent,     \* per poller: what was at the exchange and in the cache when its request went out
          reply     \* per poller: version in the last answer

task == <<poll, todo, sent, reply>>
feedVars == <<market, prices, task>>

Versions == 0..MaxMoves
Unsent == [market |-> 0, cached |-> NoPrice]
Ticker(p) == Head(todo[p])

FeedTypeOK ==
  /\ market \in [Tickers -> Versions]
  /\ prices \in [Tickers -> Versions \cup {NoPrice}]
  /\ poll \in [Pollers -> {"idle", "fetch", "waiting", "insert"}]
  /\ todo \in [Pollers -> Seq(Tickers)]
  /\ sent \in [Pollers -> [market : Versions, cached : Versions \cup {NoPrice}]]
  /\ reply \in [Pollers -> Versions]

FeedInit ==
  /\ market = [t \in Tickers |-> 0]
  /\ prices = [t \in Tickers |-> NoPrice]
  /\ poll = [p \in Pollers |-> "idle"]
  /\ todo = [p \in Pollers |-> <<>>]
  /\ sent = [p \in Pollers |-> Unsent]
  /\ reply = [p \in Pollers |-> 0]

(* The market moves. *)
Move(t) ==
  /\ market[t] < MaxMoves
  /\ market' = [market EXCEPT ![t] = @ + 1]
  /\ UNCHANGED <<prices, task>>

Poll(p) ==
  /\ poll[p] = "idle"
  /\ \E list \in Lists :
       /\ todo' = [todo EXCEPT ![p] = list]
       /\ poll' = [poll EXCEPT ![p] = IF list = <<>> THEN "idle" ELSE "fetch"]
  /\ UNCHANGED <<market, prices, sent, reply>>

Send(p) ==
  /\ poll[p] = "fetch"
  /\ poll' = [poll EXCEPT ![p] = "waiting"]
  /\ sent' = [sent EXCEPT ![p] = [market |-> market[Ticker(p)], cached |-> prices[Ticker(p)]]]
  /\ UNCHANGED <<market, prices, todo, reply>>

(* The request is done with: on to the next ticker. *)
NextTicker(p) ==
  /\ todo' = [todo EXCEPT ![p] = Tail(@)]
  /\ sent' = [sent EXCEPT ![p] = Unsent]
  /\ poll' = [poll EXCEPT ![p] = IF Tail(todo[p]) = <<>> THEN "idle" ELSE "fetch"]

(* An answer comes in: the server read the price at some time after the    *)
(* request was sent.                                                       *)
Answer(p) ==
  /\ poll[p] = "waiting"
  /\ \E v \in sent[p].market .. market[Ticker(p)] :
       reply' = [reply EXCEPT ![p] = v]
  /\ poll' = [poll EXCEPT ![p] = "insert"]
  /\ UNCHANGED <<market, prices, todo, sent>>

(* Mutated Fail: after an error the last good price is written again. *)
FailFallingBack(p) ==
  /\ poll[p] = "waiting"
  /\ poll' = [poll EXCEPT ![p] = "insert"]
  /\ UNCHANGED <<market, prices, todo, sent, reply>>

(* Mutated Fail: a failed request is sent again, as often as it fails. *)
FailRetrying(p) ==
  /\ poll[p] = "waiting"
  /\ poll' = [poll EXCEPT ![p] = "fetch"]
  /\ UNCHANGED <<market, prices, todo, sent, reply>>

(* No connection, no JSON, no market or no oraclePrice: a warning, and the *)
(* cache stays as it is.                                                   *)
Fail(p) ==
  /\ poll[p] = "waiting"
  /\ NextTicker(p)
  /\ UNCHANGED <<market, prices, reply>>

(* The write lock is had and given back within the statement. *)
Insert(p) ==
  /\ poll[p] = "insert"
  /\ prices' = [prices EXCEPT ![Ticker(p)] = reply[p]]
  /\ NextTicker(p)
  /\ UNCHANGED <<market, reply>>

(* The future of poll_prices is dropped at one of its awaits. *)
Cancel(p) ==
  /\ poll[p] # "idle"
  /\ poll' = [poll EXCEPT ![p] = "idle"]
  /\ todo' = [todo EXCEPT ![p] = <<>>]
  /\ sent' = [sent EXCEPT ![p] = Unsent]
  /\ UNCHANGED <<market, prices, reply>>

FeedNext ==
  \/ \E t \in Tickers : Move(t)
  \/ \E p \in Pollers : \/ Poll(p) \/ Send(p) \/ Answer(p)
                        \/ Fail(p) \/ Insert(p) \/ Cancel(p)

(* The runtime keeps running a task that can go on; nothing obliges the    *)
(* server to answer, nor anybody to poll or to cancel.                     *)
Fairness == \A p \in Pollers : WF_feedVars(Send(p)) /\ WF_feedVars(Insert(p))

FeedSpec == FeedInit /\ [][FeedNext]_feedVars /\ Fairness
-----------------------------------------------------------------------------
(* The cached price of a ticker goes back only when the poll that writes   *)
(* it overlapped the one that wrote the newer price: its request was sent  *)
(* before that price was cached.  One poll at a time never puts an old     *)
(* price over a new one, whatever fails in between.                        *)
GoesBackOnlyInOverlap ==
  [][\A t \in Tickers :
       prices'[t] < prices[t] =>
         \E p \in Pollers : /\ poll[p] = "insert" /\ poll'[p] # "insert"
                            /\ Ticker(p) = t
                            /\ sent[p].cached < prices[t]]_feedVars

(* A poll ends unless a request of its own stays without an answer for     *)
(* ever: errors are not retried and the lock is not held across an await.  *)
PollEnds ==
  \A p \in Pollers :
    poll[p] # "idle" ~> (poll[p] = "idle" \/ [](poll[p] = "waiting"))
=============================================================================
