------------------------------- MODULE Equity -------------------------------
(***************************************************************************)
(* The shares of the agents' firms: the register and its snapshots         *)
(* (equity/captable.py), dividends, issues and buybacks                    *)
(* (corporate_actions.py), control (control.py), listings (listing.py),    *)
(* tenders, the poison pill and mergers (mna.py).  A firm names its ledger *)
(* entity and its share; it is short what is outstanding.                  *)
(***************************************************************************)
EXTENDS Ledger, Sequences, SequencesExt, Functions, TLC

CONSTANTS
    Firms, Founder,             \* the firms, and the founder of each
    Order,                      \* who may hold shares, in the order of their names
    FounderShares, Lots, Lot,   \* the founder's stake, sizes of trades; of an offer, multiples of Lot
    Price, Reserve,             \* of a share, when it is not free; the least each firm's offer takes
    Amounts,                    \* of dividends
    Clearings,                  \* what an auction may clear: sequences of [buyer, qty]
    PillTrigger, PillRatio,     \* percent of the votes, new shares for each old one
    ExchangeRatio,              \* of a merger
    DaysPerMonth, MaxTick, MaxOps   \* bounds: days, and operations

Holders == Range(Order)
NoOne == "nobody"
Nobody == [firm |-> NoOne]

\* What the constants must be.
EquityAssumption ==
    /\ Firms \subseteq Holders /\ NoOne \notin Holders
    /\ Founder \in [Firms -> Holders \ Firms]
    /\ FounderShares \in Nat \ {0} /\ Lots \subseteq Nat \ {0} /\ Price \in Nat
    /\ Lot \in Nat \ {0} /\ Reserve \in [Firms -> Nat]
    /\ Amounts \subseteq Nat \ {0} /\ DaysPerMonth \in Nat \ {0}
    /\ PillRatio \in Nat \ {0} /\ ExchangeRatio \in Nat \ {0}

VARIABLES
    tick, ops,
    pos, history,               \* the books; snapshots of each register, by tick
    operator, pending,          \* who runs each firm, and who is to
    decls,                      \* dividends declared
    offer,                      \* the listing that is open
    received,                   \* dividends each holder has been paid
    queued, reviewed,           \* when control was last queued; no trade since a review
    bypassed                    \* a trade has not been put on the register on its day

vars == <<tick, ops, pos, history, operator, pending, decls, offer, received,
          queued, reviewed, bypassed>>

-----------------------------------------------------------------------------
(* The register *)

Outstanding(p, f) == -p[f][f]
Holdings(p, f) == [h \in {x \in Holders \ {f} : p[x][f] > 0} |-> p[h][f]]
Controlling(p, f) == {h \in DOMAIN Holdings(p, f) : 2 * p[h][f] > Outstanding(p, f)}

\* Faulty: the first snapshot of a day stays.
Remember_First(hist, p, f, t) == [hist EXCEPT ![f] = @ @@ (t :> Holdings(p, f))]

\* remember: the snapshot of a day is the last one taken on it.
Remember(hist, p, f, t) == [hist EXCEPT ![f] = (t :> Holdings(p, f)) @@ @]

HoldingsOn(f, t) ==
    LET past == {u \in DOMAIN history[f] : u =< t}
    IN IF past = {} THEN Holdings(pos, f)
                    ELSE history[f][CHOOSE u \in past : \A v \in past : v =< u]

\* The shares of f that h holds; an issuer holds none of its own.
Holds(p, h, f, q) == h # f /\ p[h][f] >= q

\* transfer, issue_shares and buyback_shares: shares against cash.
Transferred(p, f, from, to, q, px) == Swap(p, to, from, f, q, q * px)
Issued(p, f, h, q, px) == Swap(p, h, f, f, q, q * px)
BoughtBack(p, f, h, q, px) == Swap(p, f, h, f, q, q * px)

-----------------------------------------------------------------------------
(* Control *)

MonthEnd(t) == t % DaysPerMonth = DaysPerMonth - 1

NextMonthEnd(t) == CHOOSE e \in t + 1 .. t + DaysPerMonth : MonthEnd(e)

\* Faulty: what was queued stays queued.
Review_Kept(p, f) ==
    LET new == Controlling(p, f) \ {operator[f]}
    IN IF new = {} THEN pending[f]
       ELSE [firm |-> f, operator |-> CHOOSE h \in new : TRUE,
             effective |-> NextMonthEnd(tick)]

\* review: a majority is queued; without a new one the queue is cancelled.
Review(p, f) ==
    LET new == Controlling(p, f) \ {operator[f]}
    IN IF new = {} THEN Nobody
       ELSE [firm |-> f, operator |-> CHOOSE h \in new : TRUE,
             effective |-> NextMonthEnd(tick)]

-----------------------------------------------------------------------------
(* Dividends *)

Parts(holders, amount) ==
    LET names == SelectSeq(Order, LAMBDA h : h \in DOMAIN holders)
        total == MapThenSumSet(LAMBDA h : holders[h], DOMAIN holders)
        rated(h) == (amount * holders[h]) \div total
        but(h) == MapThenSumSet(rated, DOMAIN holders \ {h})
    IN [h \in DOMAIN holders |-> IF h = Last(names) THEN amount - but(h) ELSE rated(h)]

\* _pay_dividend: pro rata; the last holder takes the remainder.
PayDividend(p, f, holders, amount) ==
    IF DOMAIN holders = {} THEN p
    ELSE [e \in DOMAIN p |-> [p[e] EXCEPT ![Cash] =
             @ + (IF e \in DOMAIN holders THEN Parts(holders, amount)[e] ELSE 0)
               - (IF e = f THEN amount ELSE 0)]]

Due(d, f) == d.firm = f /\ d.paid = -1 /\ tick >= d.record

\* settle: by the register of the record date; without holders nothing is paid.
Paid(d) == [d EXCEPT !.holders = HoldingsOn(d.firm, d.record), !.paid = tick]

-----------------------------------------------------------------------------
(* Operations *)

Start == [e \in Holders |-> [i \in Firms \cup {Cash} |->
            IF i = Cash THEN 0
            ELSE IF e = i THEN -FounderShares
            ELSE IF e = Founder[i] THEN FounderShares ELSE 0]]

\* CapTable.open for every firm, on the first day.
Init == /\ tick = 0 /\ ops = 0
        /\ pos = Start /\ history = [f \in Firms |-> 0 :> Holdings(Start, f)]
        /\ operator = Founder /\ pending = [f \in Firms |-> Nobody]
        /\ decls = << >> /\ offer = Nobody /\ received = [h \in Holders |-> 0]
        /\ queued = [f \in Firms |-> -1] /\ reviewed = [f \in Firms |-> TRUE]
        /\ bypassed = [f \in Firms |-> FALSE]

Operate == ops < MaxOps /\ ops' = ops + 1 /\ UNCHANGED <<tick, operator, received>>

\* A posting on the register of f, which reviews nothing.
Registered(f, p) ==
    /\ pos' = p /\ history' = Remember(history, p, f, tick)
    /\ reviewed' = [reviewed EXCEPT ![f] = FALSE]
    /\ UNCHANGED <<pending, queued>>

\* ControlDesk.transfer: the transfer and a review of control.
Transfer(f, from, to, q) ==
    /\ Operate
    /\ from # to /\ to # f /\ Holds(pos, from, f, q)
    /\ LET p == Transferred(pos, f, from, to, q, Price)
       IN /\ pos' = p /\ history' = Remember(history, p, f, tick)
          /\ pending' = [pending EXCEPT ![f] = Review(p, f)]
          /\ queued' = [queued EXCEPT ![f] = IF Review(p, f) = Nobody THEN @ ELSE tick]
    /\ reviewed' = [reviewed EXCEPT ![f] = TRUE]
    /\ UNCHANGED <<decls, offer, bypassed>>

\* settle_fill on the venue moves the shares past the register and the desk.
VenueTrade(f, from, to, q) ==
    /\ Operate
    /\ from # to /\ to # f /\ Holds(pos, from, f, q)
    /\ pos' = Transferred(pos, f, from, to, q, Price)
    /\ reviewed' = [reviewed EXCEPT ![f] = FALSE]
    /\ bypassed' = [bypassed EXCEPT ![f] = TRUE]
    /\ UNCHANGED <<history, pending, queued, decls, offer>>

\* review on its own.
ReviewControl(f) ==
    /\ Operate /\ ~reviewed[f]
    /\ pending' = [pending EXCEPT ![f] = Review(pos, f)]
    /\ queued' = [queued EXCEPT ![f] = IF Review(pos, f) = Nobody THEN @ ELSE tick]
    /\ reviewed' = [reviewed EXCEPT ![f] = TRUE]
    /\ UNCHANGED <<pos, history, decls, offer, bypassed>>

Issue(f, h, q) ==
    /\ Operate /\ h # f
    /\ Registered(f, Issued(pos, f, h, q, Price))
    /\ UNCHANGED <<decls, offer, bypassed>>

Buyback(f, h, q) ==
    /\ Operate /\ Holds(pos, h, f, q)
    /\ Registered(f, BoughtBack(pos, f, h, q, Price))
    /\ UNCHANGED <<decls, offer, bypassed>>

\* declare_dividend: the record date is two days later.
Declare(f, amount) ==
    /\ Operate
    /\ decls' = Append(decls, [firm |-> f, amount |-> amount, record |-> tick + 2,
                               paid |-> -1, holders |-> << >>, register |-> << >>])
    /\ UNCHANGED <<pos, history, pending, offer, queued, reviewed, bypassed>>

SettleDividends(f) ==
    LET due == SelectSeq(decls, LAMBDA d : Due(d, f))
        paid(d) == HoldingsOn(f, d.record)
        got(h) == LET part(d) == IF h \in DOMAIN paid(d) THEN Parts(paid(d), d.amount)[h]
                                                         ELSE 0
                  IN FoldLeft(LAMBDA x, d : x + part(d), 0, due)
    IN /\ due # << >>
       /\ pos' = FoldLeft(LAMBDA p, d : PayDividend(p, f, paid(d), d.amount), pos, due)
       /\ received' = [h \in Holders |-> received[h] + got(h)]
       /\ decls' = [k \in DOMAIN decls |-> IF Due(decls[k], f) THEN Paid(decls[k]) ELSE decls[k]]
       /\ UNCHANGED <<tick, ops, history, operator, pending, offer, queued, reviewed, bypassed>>

\* apply_month_boundary.
ApplyMonthBoundary(f) ==
    /\ pending[f] # Nobody /\ tick >= pending[f].effective /\ MonthEnd(tick)
    /\ operator' = [operator EXCEPT ![f] = pending[f].operator]
    /\ pending' = [pending EXCEPT ![f] = Nobody]
    /\ UNCHANGED <<tick, ops, pos, history, decls, offer, received, queued, reviewed, bypassed>>

-----------------------------------------------------------------------------
(* Tenders and mergers *)

Trips(f, bidder, q) ==
    100 * ((IF bidder = f THEN 0 ELSE pos[bidder][f]) + q) > PillTrigger * Outstanding(pos, f)
Pilled(p, f, bidder) ==
    LET others == SelectSeq(Order, LAMBDA h : h \in DOMAIN Holdings(p, f) \ {bidder})
    IN FoldLeft(LAMBDA b, h : Issued(b, f, h, PillRatio * p[h][f], 0), p, others)

\* apply_tender_with_defence: the pill goes first; a tender that its seller can
\* then not fill is refused, and the pill stays.
Tender(f, bidder, seller, q, pill) ==
    /\ Operate /\ bidder # f /\ seller # bidder
    /\ LET fires == pill /\ Trips(f, bidder, q)
           diluted == IF fires THEN Pilled(pos, f, bidder) ELSE pos
           sells == Holds(diluted, seller, f, q)
       IN /\ (fires /\ DOMAIN Holdings(pos, f) \ {bidder} # {}) \/ sells
          /\ Registered(f, IF sells THEN Transferred(diluted, f, seller, bidder, q, Price)
                                    ELSE diluted)
    /\ UNCHANGED <<decls, offer, bypassed>>

\* merge_firms: holder by holder, new shares of one and the old ones cancelled.
\* The survivor cannot subscribe: what comes after it in the list is not merged.
Merge(survivor, target) ==
    LET old(p, h) == p[h][target]
        swap(p, h) == BoughtBack(Issued(p, survivor, h, ExchangeRatio * old(p, h), 0),
                                 target, h, old(p, h), 0)
        all == SelectSeq(Order, LAMBDA h : h \in DOMAIN Holdings(pos, target))
        done == SubSeq(all, 1, (IF survivor \in Range(all) THEN
                                    SelectInSeq(all, LAMBDA h : h = survivor) ELSE Len(all) + 1) - 1)
        p == FoldLeft(swap, pos, done)
    IN /\ Operate /\ survivor # target /\ done # << >>
       /\ pos' = p
       /\ history' = Remember(Remember(history, p, survivor, tick), p, target, tick)
       /\ reviewed' = [reviewed EXCEPT ![survivor] = FALSE, ![target] = FALSE]
       /\ UNCHANGED <<pending, queued, decls, offer, bypassed>>

-----------------------------------------------------------------------------
(* Listings *)

\* _check_shares, _check_reserve.
Offered(q, reserve) == q > 0 /\ q % Lot = 0 /\ reserve > 0

Listing(f, primary, q, reserve) ==
    [firm |-> f, primary |-> primary, qty |-> q, reserve |-> reserve, tick |-> tick]

\* A listing can be prepared: a secondary offering is of shares the founder holds.
Preparable(o) ==
    /\ offer = Nobody /\ Offered(o.qty, o.reserve)
    /\ o.primary \/ Holds(pos, Founder[o.firm], o.firm, o.qty)

Prepare(o) ==
    /\ Operate /\ Preparable(o)
    /\ offer' = o
    /\ UNCHANGED <<pos, history, pending, decls, queued, reviewed, bypassed>>

\* _settle_primary: a fill is an issue to its buyer.
SettlePrimary(acc, f, x) == [acc EXCEPT !.p = Issued(@, f, x.buyer, x.qty, Price)]

\* _settle_secondary: a transfer from the founder, who may no longer have the shares;
\* that ends it, with the fills before posted.
SettleSecondary(acc, f, x) ==
    IF acc.failed \/ x.buyer = Founder[f] \/ ~Holds(acc.p, Founder[f], f, x.qty)
    THEN [acc EXCEPT !.failed = TRUE]
    ELSE [acc EXCEPT !.p = Transferred(@, f, Founder[f], x.buyer, x.qty, Price)]

\* settle: the auction clears some of the offering, or misses the reserve and nothing
\* is posted.  The fills are posted one by one, dated by the listing.
Settle(o, fills) ==
    LET f == o.firm
        sold == FoldLeft(LAMBDA n, x : n + x.qty, 0, fills)
        post(acc, x) == IF o.primary THEN SettlePrimary(acc, f, x) ELSE SettleSecondary(acc, f, x)
        p == FoldLeft(post, [p |-> pos, failed |-> FALSE], fills).p
    IN /\ sold =< o.qty /\ \A k \in DOMAIN fills : fills[k].buyer # f
       /\ Price < o.reserve => fills = << >>
       /\ offer' = Nobody
       /\ IF p = pos THEN UNCHANGED <<pos, history, reviewed, bypassed>>
          ELSE /\ pos' = p /\ history' = Remember(history, p, f, o.tick)
               /\ reviewed' = [reviewed EXCEPT ![f] = FALSE]
               /\ bypassed' = [bypassed EXCEPT ![f] = @ \/ o.tick < tick]
       /\ UNCHANGED <<pending, decls, queued>>

SettleListing(fills) ==
    offer # Nobody /\ Settle(offer, fills) /\ UNCHANGED <<tick, ops, operator, received>>

\* list_firm: prepared, bid for and settled in one call.
ListFirm(o, fills) == Operate /\ Preparable(o) /\ Settle(o, fills)

\* The register at the end of a day, of the dividends it is the record date of.
NextTick ==
    /\ tick < MaxTick /\ tick' = tick + 1
    /\ decls' = [k \in DOMAIN decls |-> IF decls[k].record = tick
                    THEN [decls[k] EXCEPT !.register = Holdings(pos, decls[k].firm)] ELSE decls[k]]
    /\ UNCHANGED <<ops, pos, history, operator, pending, offer, received,
                   queued, reviewed, bypassed>>

Next ==
    \/ \E f \in Firms, from, to \in Holders, q \in Lots :
           Transfer(f, from, to, q) \/ VenueTrade(f, from, to, q)
    \/ \E f \in Firms, h \in Holders, q \in Lots : Issue(f, h, q) \/ Buyback(f, h, q)
    \/ \E f \in Firms : ReviewControl(f) \/ SettleDividends(f) \/ ApplyMonthBoundary(f)
    \/ \E f \in Firms, amount \in Amounts : Declare(f, amount)
    \/ \E f \in Firms, b, s \in Holders, q \in Lots, pill \in BOOLEAN : Tender(f, b, s, q, pill)
    \/ \E f, g \in Firms : Merge(f, g)
    \/ \E f \in Firms, primary \in BOOLEAN, q \in Lots :
           LET o == Listing(f, primary, q, Reserve[f])
           IN Prepare(o) \/ \E fills \in Clearings : ListFirm(o, fills)
    \/ \E fills \in Clearings : SettleListing(fills)
    \/ NextTick
Spec == Init /\ [][Next]_vars

-----------------------------------------------------------------------------
(* Properties *)

\* Types.  Nobody is short of a firm's shares but the firm.
TypeOK ==
    /\ tick \in 0 .. MaxTick /\ ops \in 0 .. MaxOps
    /\ \A h \in Holders, f \in Firms : h # f => pos[h][f] \in Nat
    /\ operator \in [Firms -> Holders] /\ pending \in [Firms -> Range(pending)]
    /\ \A f \in Firms : DOMAIN history[f] \subseteq 0 .. tick /\ queued[f] \in -1 .. tick

\* Whatever is issued, bought back, tendered, merged or sold, and however far a
\* failed operation got, the holders' shares of a firm are the shares outstanding
\* (CapTable.invariant_holds).
RegisterBalances ==
    \A f \in Firms : MapThenSumSet(LAMBDA h : Holdings(pos, f)[h], DOMAIN Holdings(pos, f))
                        = Outstanding(pos, f)

\* Every cash leg has its other side: cash sums to nothing (assert_consistent).
CashBalances == Consistent(pos, {Cash})

\* A dividend settled after its record date goes to the register as it stood at
\* the end of that day, whatever was traded later, as long as every trade was
\* put on the register on its day.
DividendsGoByTheRegister ==
    \A k \in DOMAIN decls :
        LET d == decls[k]
        IN (d.paid > d.record /\ ~bypassed[d.firm]) => d.holders = d.register

\* What the holders have been paid is the dividends that are marked as paid, each
\* of them once and whole.
DividendsPaidOnce ==
    MapThenSumSet(LAMBDA h : received[h], Holders)
        = MapThenSumSet(LAMBDA k : IF decls[k].paid = -1 \/ DOMAIN decls[k].holders = {}
                                   THEN 0 ELSE decls[k].amount, DOMAIN decls)

TakeoverStep ==
    \A f \in Firms : (operator'[f] # operator[f] /\ reviewed[f])
                         => operator'[f] \in Controlling(pos, f)

\* When control passes it passes to whoever holds the majority, if the shares have
\* not moved past the desk since its last review: a majority that was lost again
\* before the end of the month gets nothing.

HandoverStep ==
    \A f \in Firms : operator'[f] # operator[f]
                         => /\ MonthEnd(tick) /\ tick > queued[f] /\ queued[f] >= 0

\* Control passes on the last day of a month, and never on the day of the trade
\* that gave it.

\* Registers and ledger agree, cash is conserved, and a dividend goes once, to those
\* who were registered on its record date.
RegisterAndCash ==
    /\ TypeOK /\ RegisterBalances /\ CashBalances
    /\ DividendsGoByTheRegister /\ DividendsPaidOnce

ControlStep == TakeoverStep /\ HandoverStep

\* A firm changes hands by a majority only, at the end of a month only.
ControlByTheMajority == [][ControlStep]_vars
=============================================================================
