----------------------------- MODULE OrderBook -----------------------------
(***************************************************************************)
(* One OrderBook of market/clob.py: a price-time book with stops, a halt   *)
(* band and a call auction.                                                *)
(*                                                                         *)
(* A public method of the class is a call: call = "idle" between calls,    *)
(* and a call that has to match runs as a sequence of steps, one iteration *)
(* of its loops at a time, during which no other call starts.  The price   *)
(* levels, stop books and market buckets of the class are one function,    *)
(* ord, whose entries carry their time priority: a deque is always in the  *)
(* order of the priorities _rest hands out.                                *)
(***************************************************************************)
EXTENDS Integers, FiniteSets, FiniteSetsExt, CallPrice

CONSTANTS
    Agents,                 \* agent identifiers; the code orders them as strings
    MaxOrders,              \* order ids 1 .. MaxOrders may be used
    MaxTick,                \* prices, in price increments, are 1 .. MaxTick
    MaxQty,                 \* order sizes, in lots, are 1 .. MaxQty
    Tickets,                \* the orders an agent may submit
    BandNum, BandDen,       \* halt_band = BandNum / BandDen
    InitRef,                \* reference_price of the constructor; 0 is None
    MaxClock, MaxPrio       \* bounds on end_tick calls and on priority numbers

Ids    == 1 .. MaxOrders
Ticks  == 1 .. MaxTick
Prices == 0 .. MaxTick      \* 0 is None
Qtys   == 1 .. MaxQty
Sides  == {"buy", "sell"}
Types  == {"limit", "market", "stop"}
Tifs   == {"GTC", "DAY", "IOC"}

TicketType == [agent : Agents, side : Sides, qty : Qtys, type : Types,
               tif : Tifs, px : Prices, stop : Prices, seq : Nat]

ASSUME BookAssumption ==
    /\ Agents \subseteq Nat
    /\ MaxOrders \in Nat /\ MaxTick \in Nat /\ MaxQty \in Nat
    /\ Tickets \subseteq TicketType
    /\ BandNum \in Nat /\ BandDen \in Nat \ {0} /\ BandNum =< BandDen
    /\ InitRef \in Prices
    /\ MaxClock \in Nat /\ MaxPrio \in Nat

VARIABLES
    ord,                    \* LiveOrder of each id
    at,                     \* where it is: see Places
    status, halted,         \* BookStatus, _halt_pending
    ref, last,              \* _reference_ticks, _last_ticks
    clock,                  \* clock_tick
    nextId, nextPrio, nextSeq,
    call,                   \* the call in progress
    auc,                    \* the uncross in progress: price and volume left
    closing,                \* the call in progress is end_tick
    selfCut                 \* the latest uncross cancelled a self-trade

counters == <<nextId, nextPrio, nextSeq>>
vars == <<ord, at, status, halted, ref, last, clock, counters, call, auc,
          closing, selfCut>>

\* "batch": accepted by ingest, not processed; "active": the order being
\* matched; "triggered": in _triggered; "book": resting; "gone": retired.
Places == {"none", "batch", "active", "triggered", "book", "gone"}

NoOrder == [agent |-> 0, seq |-> 0, side |-> "none", rem |-> 0, type |-> "none",
            tif |-> "none", px |-> 0, stop |-> 0, prio |-> 0, trig |-> FALSE,
            day |-> 0]
NoAuction == [px |-> 0, left |-> 0]

In(place) == {i \in Ids : at[i] = place}
Live      == {i \in Ids : at[i] \notin {"none", "gone"}}

-----------------------------------------------------------------------------
(* Orders and where they rest *)

\* A stop that waits off book.
Untriggered(o) == o.type = "stop" /\ ~o.trig

\* An order without a limit that waits for the call auction.
AtMarket(o) == ~Untriggered(o) /\ (o.type = "market" \/ o.px = 0)

Market(side) == {i \in In("book") : ord[i].side = side /\ AtMarket(ord[i])}
Limits(side) == {i \in In("book") : /\ ord[i].side = side
                                    /\ ~Untriggered(ord[i])
                                    /\ ~AtMarket(ord[i])}

Opposite(side) == IF side = "buy" THEN "sell" ELSE "buy"

\* An order of this side with limit px can pay or take p.
Within(side, px, p) == IF side = "buy" THEN p =< px ELSE p >= px

\* Orders at market come first, then price priority, then time priority.
Before(i, j) ==
    LET m == AtMarket(ord[i])
        n == AtMarket(ord[j])
        better == IF ord[i].side = "buy" THEN ord[i].px > ord[j].px
                                         ELSE ord[i].px < ord[j].px
    IN \/ m /\ ~n
       \/ (m <=> n) /\ better
       \/ (m <=> n) /\ ord[i].px = ord[j].px /\ ord[i].prio < ord[j].prio

IsFirst(i, S) == i \in S /\ \A j \in S \ {i} : Before(i, j)

\* The order of intake: (agent_id, sequence, order_id).
Earlier(i, j) ==
    \/ ord[i].agent < ord[j].agent
    \/ ord[i].agent = ord[j].agent /\ ord[i].seq < ord[j].seq
    \/ ord[i].agent = ord[j].agent /\ ord[i].seq = ord[j].seq /\ i < j

IsEarliest(i, S) == i \in S /\ \A j \in S \ {i} : Earlier(i, j)

\* Whether a print at p triggers the stop o.
Fires(o, p) == /\ o.stop # 0 /\ p # 0
               /\ IF o.side = "buy" THEN p >= o.stop ELSE p =< o.stop

Less(o, q) == [o EXCEPT !.rem = @ - q]

Triggered(o) == [o EXCEPT !.trig = TRUE,
                          !.type = IF o.px = 0 THEN "market" ELSE @]

OutsideBand(p) == /\ ref # 0
                  /\ \/ p * BandDen < ref * (BandDen - BandNum)
                     \/ p * BandDen > ref * (BandDen + BandNum)

-----------------------------------------------------------------------------
(* Changes shared by several calls *)

Rest(i, o) == /\ ord' = [ord EXCEPT ![i] = [o EXCEPT !.prio = nextPrio]]
              /\ at' = [at EXCEPT ![i] = "book"]
              /\ nextPrio' = nextPrio + 1
              /\ UNCHANGED <<nextId, nextSeq>>

\* Orders are pulled from their level and forgotten.
Retire(S) == /\ ord' = [i \in Ids |-> IF i \in S THEN NoOrder ELSE ord[i]]
             /\ at'  = [i \in Ids |-> IF i \in S THEN "gone" ELSE at[i]]
             /\ UNCHANGED counters

\* One fill of q shares at p: sizes shrink, the orders in `full' that have
\* nothing left are retired, the print moves and sets off the stops it reaches.
Execute(x, y, q, p, full) ==
    LET done(i) == i \in full /\ ord[i].rem = q
        hit(i)  == at[i] = "book" /\ Untriggered(ord[i]) /\ Fires(ord[i], p)
    IN /\ ord' = [i \in Ids |-> IF done(i) THEN NoOrder
                                ELSE IF i \in {x, y} THEN Less(ord[i], q)
                                ELSE IF hit(i) THEN Triggered(ord[i]) ELSE ord[i]]
       /\ at'  = [i \in Ids |-> IF done(i) THEN "gone"
                                ELSE IF hit(i) /\ i \notin {x, y} THEN "triggered"
                                ELSE at[i]]
       /\ last' = p
       /\ UNCHANGED counters

-----------------------------------------------------------------------------
(* Intake *)

Idle == call = "idle"

\* What _accept rejects without a trace.
Acceptable(t) == /\ t.type = "limit" => t.px # 0
                 /\ t.type = "stop"  => t.stop # 0

\* The sequence the agent gave, or the next of the book.
SeqOf(t) == IF t.seq = 0 THEN nextSeq ELSE t.seq

NewOrder(t) == [agent |-> t.agent, seq |-> SeqOf(t), side |-> t.side, rem |-> t.qty,
                type |-> t.type, tif |-> t.tif, px |-> t.px,
                stop |-> IF t.type = "stop" THEN t.stop ELSE 0, prio |-> 0,
                trig |-> FALSE, day |-> IF t.tif = "DAY" THEN clock ELSE 0]

Accept(t) ==
    /\ nextId \in Ids
    /\ Acceptable(t)
    /\ ord' = [ord EXCEPT ![nextId] = NewOrder(t)]
    /\ nextSeq' = IF SeqOf(t) >= nextSeq THEN SeqOf(t) + 1 ELSE nextSeq
    /\ at' = [at EXCEPT ![nextId] = "batch"]
    /\ nextId' = nextId + 1
    /\ UNCHANGED <<nextPrio, status, halted, ref, last, clock, auc, closing, selfCut>>

Submit(t) == Idle /\ Accept(t) /\ call' = "run"

\* ingest accepts its whole batch before it processes any of it.
IngestAccept(t) == call \in {"idle", "accept"} /\ Accept(t) /\ call' = "accept"

IngestSort == /\ call = "accept"
              /\ call' = "run"
              /\ UNCHANGED <<ord, at, status, halted, ref, last, clock, counters,
                             auc, closing, selfCut>>

\* o becomes the aggressor; a stop that waits does so because it fires.
Activate(i, o) ==
    /\ ord' = [ord EXCEPT ![i] = IF Untriggered(o) THEN Triggered(o) ELSE o]
    /\ at' = [at EXCEPT ![i] = "active"]
    /\ UNCHANGED counters

\* Continuous matching comes to rest: nothing to match, trigger or process.
NoAggressor == In("active") = {}
Settled == call = "run" /\ auc = NoAuction /\ NoAggressor /\ In("triggered") = {}

\* Faulty: a stop that already fires is left waiting.
Process_NoFireCheck ==
    /\ Settled
    /\ \E i \in In("batch") : /\ IsEarliest(i, In("batch"))
                              /\ IF Untriggered(ord[i]) THEN Rest(i, ord[i])
                                 ELSE Activate(i, ord[i])
    /\ UNCHANGED <<status, halted, ref, last, clock, call, auc, closing, selfCut>>

Process ==
    /\ Settled
    /\ \E i \in In("batch") :
         /\ IsEarliest(i, In("batch"))
         /\ \/ /\ Untriggered(ord[i]) /\ ~Fires(ord[i], last)
               /\ Rest(i, ord[i])
            \/ /\ Untriggered(ord[i]) => Fires(ord[i], last)
               /\ Activate(i, ord[i])
    /\ UNCHANGED <<status, halted, ref, last, clock, call, auc, closing, selfCut>>

-----------------------------------------------------------------------------
(* Continuous matching: one iteration of _match_live per step *)

Crossing(i) ==
    {j \in Limits(Opposite(ord[i].side)) :
        ord[i].type = "market" \/ ord[i].px = 0 \/ Within(ord[i].side, ord[i].px, ord[j].px)}

Matching(i) == call = "run" /\ at[i] = "active" /\ status = "CONTINUOUS"
Facing(i, j) == ord[i].rem > 0 /\ IsFirst(j, Crossing(i))

\* In a call auction an aggressor only joins the book.
RestInAuction(i) ==
    /\ call = "run" /\ at[i] = "active" /\ status = "AUCTION"
    /\ Rest(i, ord[i])
    /\ UNCHANGED <<status, halted, ref, last, clock, call, auc, closing, selfCut>>

Fill(i) ==
    /\ Matching(i)
    /\ \E j \in Ids :
         /\ Facing(i, j)
         /\ ord[j].agent # ord[i].agent
         /\ ~OutsideBand(ord[j].px)
         /\ LET q == Min({ord[i].rem, ord[j].rem})
            IN Execute(i, j, q, ord[j].px, {j})
    /\ UNCHANGED <<status, halted, ref, clock, call, auc, closing, selfCut>>

\* Self-trade prevention cancels what is left of the aggressor.
SelfTradeCancel(i) ==
    /\ Matching(i)
    /\ \E j \in Ids : Facing(i, j) /\ ord[j].agent = ord[i].agent
    /\ Retire({i})
    /\ UNCHANGED <<status, halted, ref, last, clock, call, auc, closing, selfCut>>

\* A price outside the band turns the book to a call auction and parks the
\* aggressor in it.
Halt(i) ==
    /\ Matching(i)
    /\ \E j \in Ids : /\ Facing(i, j) /\ ord[j].agent # ord[i].agent
                      /\ OutsideBand(ord[j].px)
    /\ status' = "AUCTION" /\ halted' = TRUE
    /\ IF ord[i].tif = "IOC" THEN Retire({i}) ELSE Rest(i, ord[i])
    /\ UNCHANGED <<ref, last, clock, call, auc, closing, selfCut>>

\* _finish_aggressor: filled, cancelled or resting.
Finish(i) ==
    /\ Matching(i)
    /\ ord[i].rem = 0 \/ Crossing(i) = {}
    /\ IF ord[i].rem = 0 \/ ord[i].tif = "IOC" \/ ord[i].type = "market"
         THEN Retire({i})
         ELSE Rest(i, ord[i])
    /\ UNCHANGED <<status, halted, ref, last, clock, call, auc, closing, selfCut>>

\* Faulty: only stops without a limit are flushed.
FlushStop_MarketOnly ==
    /\ call = "run" /\ auc = NoAuction /\ NoAggressor
    /\ \E i \in In("triggered") : /\ IsEarliest(i, In("triggered"))
                                  /\ AtMarket(ord[i])
                                  /\ at' = [at EXCEPT ![i] = "active"]
    /\ UNCHANGED <<ord, status, halted, ref, last, clock, counters, call, auc,
                   closing, selfCut>>

\* _flush_stops: the triggered stop that is earliest becomes the aggressor.
FlushStop ==
    /\ call = "run" /\ auc = NoAuction /\ NoAggressor
    /\ \E i \in In("triggered") : /\ IsEarliest(i, In("triggered"))
                                  /\ at' = [at EXCEPT ![i] = "active"]
    /\ UNCHANGED <<ord, status, halted, ref, last, clock, counters, call, auc,
                   closing, selfCut>>

Return ==
    /\ Settled /\ In("batch") = {} /\ ~closing
    /\ call' = "idle"
    /\ UNCHANGED <<ord, at, status, halted, ref, last, clock, counters, auc,
                   closing, selfCut>>

-----------------------------------------------------------------------------
(* Cancel and replace *)

Unmoved == <<status, halted, ref, last, clock, auc, closing, selfCut>>

Cancel(i) == /\ Idle /\ i \in Live
             /\ Retire({i})
             /\ UNCHANGED <<call, Unmoved>>

\* Size down at the same price: time priority is kept.
SizeDown(i, q) == /\ Idle /\ i \in Live /\ q < ord[i].rem
                  /\ ord' = [ord EXCEPT ![i].rem = q]
                  /\ UNCHANGED <<at, counters, call, Unmoved>>

\* Size up at the same price: time priority is lost.
SizeUp(i, q) == /\ Idle /\ i \in Live /\ q > ord[i].rem
                /\ nextPrio =< MaxPrio
                /\ Rest(i, [ord[i] EXCEPT !.rem = q])
                /\ UNCHANGED <<call, Unmoved>>

\* A new price: a stop that does not fire waits again, anything else re-matches.
Reprice(i, q, p) ==
    /\ Idle /\ i \in Live /\ p # ord[i].px
    /\ nextPrio =< MaxPrio
    /\ LET o == [ord[i] EXCEPT !.px = p, !.rem = q]
       IN IF Untriggered(o) /\ ~Fires(o, last)
            THEN Rest(i, o) /\ UNCHANGED call
            ELSE Activate(i, o) /\ call' = "run"
    /\ UNCHANGED Unmoved

Replace(i) == \E q \in Qtys : \/ SizeDown(i, q)
                              \/ SizeUp(i, q)
                              \/ \E p \in Ticks : Reprice(i, q, p)

-----------------------------------------------------------------------------
(* Call auction *)

\* The sum of w over the identifiers, and the shares the orders in S have open.
SumOver(w) == LET upTo[n \in 0 .. MaxOrders] == IF n = 0 THEN 0 ELSE upTo[n - 1] + w[n]
              IN upTo[MaxOrders]
Shares(S) == SumOver([i \in Ids |-> IF i \in S THEN ord[i].rem ELSE 0])

AtOrBetter(side, p) == {i \in Limits(side) : Within(side, ord[i].px, p)}

\* Orders that would trade at p.
Willing(side, p) == Market(side) \cup AtOrBetter(side, p)
Demand == [p \in Ticks |-> Shares(Willing("buy", p))]
Supply == [p \in Ticks |-> Shares(Willing("sell", p))]

\* Centre of the tie-break: reference, else last print, else none.
Centre == IF ref # 0 THEN ref ELSE last

LimitPrices == {ord[i].px : i \in Limits("buy") \cup Limits("sell")}

\* The ticks _auction_clearing_ticks considers: those from the lowest limit to
\* the highest, or the centre when only orders at market wait.
Candidates ==
    IF LimitPrices = {} THEN {Centre} \ {0}
    ELSE {p \in Ticks : \E lo, hi \in LimitPrices : lo =< p /\ p =< hi}

\* The price and volume of the auction; none when nothing would trade.
ClearsAt(p, v) == v > 0 /\ Clears(Demand, Supply, Centre, Candidates, p, v)

\* What _auction_clearing_ticks returns, the price and the volume: by ranges, or at
\* the centre when only orders at market wait; 0, 0 when nothing would trade.
ClearingTicks ==
    LET least == Min({Shares(Market("buy")), Shares(Market("sell"))})
    IN IF LimitPrices # {} THEN ByRanges(Demand, Supply, LimitPrices, Centre)
       ELSE IF Centre = 0 \/ least = 0 THEN <<0, 0>> ELSE <<Centre, least>>

\* Faulty: the orders at market count for the price but are not filled.
Eligible_LimitsOnly(side) == {i \in AtOrBetter(side, auc.px) : ord[i].rem > 0}

\* Orders the uncross may fill at its price.
Eligible(side) == {i \in Willing(side, auc.px) : ord[i].rem > 0}

\* Faulty: a failed auction cancels nothing.
Leftovers_NotAtMarket(marketsOnly) ==
    IF marketsOnly THEN {} ELSE {i \in Live : ord[i].tif = "IOC" \/ ord[i].type = "market"}

\* Orders an uncross leaves behind that may not rest.
Leftovers(marketsOnly) ==
    Market("buy") \cup Market("sell")
      \cup IF marketsOnly THEN {} ELSE {i \in Live : ord[i].tif = "IOC"}

\* The start of uncross: a clearing price is found,
BeginPriced == \E p \in Candidates :
                  LET v == Traded(Demand, Supply, p)
                  IN /\ ClearsAt(p, v)
                     /\ auc' = [px |-> p, left |-> v]
                     /\ selfCut' = FALSE
                     /\ UNCHANGED <<ord, at, counters, status, halted>>

\* or nothing would trade: orders at market are cancelled, and a book that has a
\* reference resumes.
BeginEmpty == /\ \A p \in Candidates : ~ClearsAt(p, Traded(Demand, Supply, p))
              /\ Retire(Leftovers(TRUE))
              /\ status' = IF ref # 0 THEN "CONTINUOUS" ELSE status
              /\ halted' = IF ref # 0 THEN FALSE ELSE halted
              /\ UNCHANGED <<auc, selfCut>>

BeginUncross == BeginPriced \/ BeginEmpty

Uncross == /\ Idle /\ status = "AUCTION"
           /\ call' = "run"
           /\ BeginUncross
           /\ UNCHANGED <<ref, last, clock, closing>>

\* One iteration of _auction_match between the best buy and the best sell.
Pair(b, s) == /\ auc # NoAuction /\ auc.left > 0
              /\ IsFirst(b, Eligible("buy")) /\ IsFirst(s, Eligible("sell"))

\* Faulty: the size of the sell is not looked at.
AuctionFill_Oversell ==
    /\ \E b, s \in Ids :
         /\ Pair(b, s) /\ ord[b].agent # ord[s].agent
         /\ LET q == Min({auc.left, ord[b].rem})
            IN Execute(b, s, q, auc.px, {b, s}) /\ auc' = [auc EXCEPT !.left = @ - q]
    /\ UNCHANGED <<status, halted, ref, clock, call, closing, selfCut>>

\* Faulty: the auction lets an agent trade with itself.
AuctionFill_SelfTrade ==
    /\ \E b, s \in Ids :
         /\ Pair(b, s)
         /\ LET q == Min({auc.left, ord[b].rem, ord[s].rem})
            IN Execute(b, s, q, auc.px, {b, s}) /\ auc' = [auc EXCEPT !.left = @ - q]
    /\ UNCHANGED <<status, halted, ref, clock, call, closing, selfCut>>

AuctionFill ==
    /\ \E b, s \in Ids :
         /\ Pair(b, s)
         /\ ord[b].agent # ord[s].agent
         /\ LET q == Min({auc.left, ord[b].rem, ord[s].rem})
            IN /\ Execute(b, s, q, auc.px, {b, s})
               /\ auc' = [auc EXCEPT !.left = @ - q]
    /\ UNCHANGED <<status, halted, ref, clock, call, closing, selfCut>>

\* Self-trade prevention in the auction cancels the newer order of the pair.
AuctionSelfCut ==
    /\ \E b, s \in Ids :
         /\ Pair(b, s)
         /\ ord[b].agent = ord[s].agent
         /\ LET buyNewer == \/ ord[b].seq > ord[s].seq
                            \/ ord[b].seq = ord[s].seq /\ b > s
            IN Retire({IF buyNewer THEN b ELSE s})
    /\ selfCut' = TRUE
    /\ UNCHANGED <<status, halted, ref, last, clock, call, auc, closing>>

\* The clearing price becomes last and reference, leftovers go, trading resumes.
AuctionDone ==
    /\ auc # NoAuction
    /\ auc.left = 0 \/ Eligible("buy") = {} \/ Eligible("sell") = {}
    /\ last' = auc.px /\ ref' = auc.px
    /\ Retire(Leftovers(FALSE))
    /\ status' = "CONTINUOUS" /\ halted' = FALSE
    /\ auc' = NoAuction
    /\ UNCHANGED <<clock, call, closing, selfCut>>

StartAuction == /\ Idle
                /\ status' = "AUCTION"
                /\ UNCHANGED <<ord, at, halted, ref, last, clock, counters, call,
                               auc, closing, selfCut>>

SetReference(p) == /\ Idle
                   /\ ref' = p
                   /\ UNCHANGED <<ord, at, status, halted, last, clock, counters,
                                  call, auc, closing, selfCut>>

-----------------------------------------------------------------------------
(* The day boundary *)

EndTick == /\ Idle /\ clock < MaxClock
           /\ call' = "run" /\ closing' = TRUE
           /\ IF status = "AUCTION"
                THEN BeginUncross
                ELSE UNCHANGED <<ord, at, counters, status, halted, auc, selfCut>>
           /\ UNCHANGED <<ref, last, clock>>

\* The end of end_tick: DAY orders queued up to this tick expire.
Expire == /\ Settled /\ closing
          /\ Retire({i \in Live : ord[i].tif = "DAY" /\ ord[i].day =< clock})
          /\ clock' = clock + 1
          /\ call' = "idle" /\ closing' = FALSE
          /\ UNCHANGED <<status, halted, ref, last, auc, selfCut>>

-----------------------------------------------------------------------------
Init == /\ ord = [i \in Ids |-> NoOrder]
        /\ at = [i \in Ids |-> "none"]
        /\ status = IF InitRef = 0 THEN "AUCTION" ELSE "CONTINUOUS"
        /\ halted = FALSE
        /\ ref = InitRef /\ last = 0
        /\ clock = 0
        /\ nextId = 1 /\ nextPrio = 1 /\ nextSeq = 1
        /\ call = "idle" /\ auc = NoAuction /\ closing = FALSE /\ selfCut = FALSE

\* The steps of a call in progress, exactly one of which can be taken.
MatchStep == \/ IngestSort \/ Process \/ FlushStop \/ Return \/ Expire
             \/ AuctionFill \/ AuctionSelfCut \/ AuctionDone
             \/ \E i \in Ids : \/ RestInAuction(i) \/ Fill(i) \/ SelfTradeCancel(i)
                               \/ Halt(i) \/ Finish(i)

\* The calls the venue makes.
Call == \/ \E t \in Tickets : Submit(t) \/ IngestAccept(t)
        \/ \E i \in Ids : Cancel(i) \/ Replace(i)
        \/ Uncross \/ StartAuction \/ EndTick
        \/ \E p \in Ticks : SetReference(p)

Next == Call \/ MatchStep

Spec == Init /\ [][Next]_vars

\* A call runs to its end once it has started.
FairSpec == Spec /\ WF_vars(MatchStep)

-----------------------------------------------------------------------------
(* Properties *)

OrderType == [agent : Agents \cup {0}, seq : Nat, side : Sides \cup {"none"},
              rem : Nat, type : Types \cup {"none"}, tif : Tifs \cup {"none"},
              px : Prices, stop : Prices, prio : Nat, trig : BOOLEAN, day : Nat]

\* The orders and the counters.
Stored == /\ ord \in [Ids -> OrderType]
          /\ at \in [Ids -> Places]
          /\ nextId \in Nat \ {0} /\ nextPrio \in Nat \ {0} /\ nextSeq \in Nat \ {0}

\* The mode of the book and of the call in progress.
Modes == /\ status \in {"AUCTION", "CONTINUOUS"} /\ halted \in BOOLEAN
         /\ ref \in Prices /\ last \in Prices
         /\ clock \in Nat
         /\ call \in {"idle", "accept", "run"}
         /\ auc \in [px : Prices, left : Nat]
         /\ closing \in BOOLEAN /\ selfCut \in BOOLEAN

\* Every variable keeps its type; no size or volume left falls below zero.
TypeOK == Stored /\ Modes

Crossed == \E b \in Limits("buy"), s \in Limits("sell") : ord[b].px >= ord[s].px

\* Between calls a continuous book is not crossed: whatever mix of orders,
\* replaces, triggered stops, halts and call auctions led to it, no resting bid
\* reaches a resting ask (is_crossed: "continuous must not").  The exception,
\* which NeverCrossed states and which the code does not rule out, is an uncross
\* that cancelled a self-trade.
UncrossedWhenContinuous ==
    Idle /\ status = "CONTINUOUS" /\ ~selfCut => ~Crossed

\* is_crossed without the exception: an uncross that drops a self-trading order
\* trades less than it planned and can leave the book crossed.
NeverCrossed == Idle /\ status = "CONTINUOUS" => ~Crossed

\* Between calls every stop that waits is still ahead of the last print: no
\* print, halt, auction or replace leaves behind a stop that should have fired
\* (_note_last, _flush_stops).  Not asked while the latest uncross is one
\* that cancelled a self-trade: its price is then the last even if nothing traded at it.
StopsArmed ==
    Idle /\ ~selfCut =>
        \A i \in In("book") : Untriggered(ord[i]) => ~Fires(ord[i], last)

\* An order without a limit never waits in a continuous book: what a halt parks
\* or a call auction collects at market is gone when trading resumes.
NoMarketRests == status = "CONTINUOUS" => Market("buy") \cup Market("sell") = {}

\* No DAY order outlives the tick it was accepted on, wherever it is: resting,
\* waiting as a stop, parked by a halt or repriced since.
DayOrdersExpire == \A i \in Live : ord[i].tif = "DAY" => ord[i].day = clock

\* An uncross that drops no self-trade executes the whole volume it announces:
\* the orders _auction_match finds eligible are those the price was chosen for.
AuctionVolumeExecuted ==
    (/\ auc # NoAuction /\ ~selfCut
     /\ Eligible("buy") = {} \/ Eligible("sell") = {}) => auc.left = 0

\* The price the code computes from the limit prices and the gaps between them is
\* the only one the rules allow, at the volume that trades there, and none exactly
\* when nothing trades; no tick, inside or outside the limits, would trade more,
\* except when only orders at market wait and there is no price to clear them at
\* (_auction_clearing_ticks, _closest_tick).
CallPriceIsRight ==
    LET priced == {p \in Candidates : ClearsAt(p, Traded(Demand, Supply, p))}
    IN /\ {<<p, Traded(Demand, Supply, p)>> : p \in priced} = {ClearingTicks} \ {<<0, 0>>}
       /\ \/ \A p \in Ticks : Traded(Demand, Supply, p) =< ClearingTicks[2]
          \/ LimitPrices = {} /\ Centre = 0

\* Every call that starts returns: matching, stop cascades and halts end.
CallReturns == (call = "run") ~> Idle

Limit(o) == IF o.type = "market" THEN 0 ELSE o.px

\* The book seen by its traders: an order is live while it has shares open.
open == [i \in Ids |-> ord[i].rem]
live == {i \in Live : ord[i].rem > 0}
left == {i \in Ids : at[i] # "none"} \ live
terms == [i \in Ids |-> [agent |-> ord[i].agent, side |-> ord[i].side,
                         limit |-> Limit(ord[i])]]
X == INSTANCE Exchange WITH live <- live, left <- left, terms <- terms,
                            open <- open, print <- last

\* The book keeps its promise to its traders: no self-trade, no fill beyond an
\* order's size or outside its limit, no order that comes back after it left.
RefinesExchange == X!Spec

\* Between two calls nothing is where it should not be: no stop that was reached
\* still waits, an open market is not crossed, no order of a past day is alive and
\* none is left at market.  The first two are not asked while the latest uncross is
\* one that cancelled a self-trade (selfCut).
SettledBetweenCalls == StopsArmed /\ UncrossedWhenContinuous /\ DayOrdersExpire /\ NoMarketRests
=============================================================================
