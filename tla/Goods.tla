-------------------------------- MODULE Goods --------------------------------
(***************************************************************************)
(* The markets firms buy in: forward contracts served before the spot      *)
(* market (firms/contracts.py), the goods market with its sticky shares,   *)
(* spill and backlogs (goods_market.py), inputs in a shortage              *)
(* (procurement.py) and the matching of vacancies (labour_market.py).      *)
(*                                                                         *)
(* Quantities are whole, so that every pro-rata share rounds down: a       *)
(* market of n takers may leave up to n units more than the code's.        *)
(***************************************************************************)
EXTENDS Ledger, Sequences, SequencesExt, TLC

CONSTANTS
    Buyers, Sellers,
    Forwards,                   \* contracts that may be opened: [buyer, seller, qty, price, months]
    Avails, Spots,              \* what a seller may have, what a buyer may want on the spot
    Demands, Targets,           \* of the goods market; the shares it tends to, in percent
    Loyalty, BacklogLoss,       \* months, percent
    Orders, Weights, Vacancies, \* of a shortage: orders and the weight of a bid; of firms
    OrderCap, HireShare,        \* percent of the supply, and of the unemployed
    MaxMonth, MaxContracts      \* bounds: months, and contracts

VARIABLES
    month,
    book, opened,           \* the open contracts, and how many there have been
    pos, closed,            \* the books; what the contracts that ended have cost
    share, backlog,         \* of each seller in the goods market
    last                    \* what the last operation did

vars == <<month, book, opened, pos, closed, share, backlog, last>>

Least(x, y) == IF x =< y THEN x ELSE y
AtLeast0(x) == IF x < 0 THEN 0 ELSE x
Sum(f) == MapThenSumSet(LAMBDA x : f[x], DOMAIN f)

\* Faulty: each claim is capped alone.
Scale_EachAlone(claims, supply) == [k \in DOMAIN claims |-> Least(claims[k], supply)]

\* _scale: the claims where the supply covers them, else pro rata.
Scale(claims, supply) ==
    LET total == Sum(claims)
    IN [k \in DOMAIN claims |-> IF total =< supply THEN claims[k]
                                ELSE (claims[k] * supply) \div total]

-----------------------------------------------------------------------------
(* Forward contracts *)

Claim(c) == IF c.months =< 0 THEN 0 ELSE Least(c.qty, c.left)

\* open_forward and add.
Open(f) ==
    /\ opened < MaxContracts /\ opened' = opened + 1
    /\ book' = Append(book, f @@ [left |-> f.qty * f.months,
                                                        total |-> f.qty * f.months])
    /\ last' = [kind |-> "none"]
    /\ UNCHANGED <<month, pos, closed, share, backlog>>

Cost(c, fill) == c.price * fill

\* settle_month: the contracts of each seller, then its spot buyers with what is
\* left; each contract is paid for what it got and is a month older, and leaves
\* the book when it is delivered or over.
SettleMonth(avail, spot) ==
    LET of(s) == {k \in DOMAIN book : book[k].seller = s}
        fills(s) == Scale([k \in of(s) |-> Claim(book[k])], avail[s])
        fill(k) == fills(book[k].seller)[k]
        left(s) == avail[s] - Sum(fills(s))
        spots(s) == Scale([b \in Buyers |-> spot[b]], left(s))
        pay(p, k) == Move(p, book[k].buyer, book[k].seller, Cash, Cost(book[k], fill(k)))
        aged == [k \in DOMAIN book |-> [book[k] EXCEPT !.left = @ - fill(k), !.months = @ - 1]]
        ends(c) == c.months =< 0 \/ c.left = 0
        spent(s) == MapThenSumSet(LAMBDA k : aged[k].price * (aged[k].total - aged[k].left),
                                  {k \in of(s) : ends(aged[k])})
    IN /\ month < MaxMonth /\ month' = month + 1
       /\ pos' = FoldLeft(pay, pos, [k \in DOMAIN book |-> k])
       /\ book' = SelectSeq(aged, LAMBDA c : ~ends(c))
       /\ closed' = [s \in Sellers |-> closed[s] + spent(s)]
       /\ last' = [kind |-> "settled", avail |-> avail,
                   claims |-> [s \in Sellers |-> Sum([k \in of(s) |-> Claim(book[k])])],
                   got |-> [s \in Sellers |-> Sum(fills(s))],
                   spot |-> [s \in Sellers |-> Sum(spots(s))]]
       /\ UNCHANGED <<opened, share, backlog>>

-----------------------------------------------------------------------------
(* The goods market *)

\* A share moves to its target by 1/Loyalty of the way; the shares are then
\* brought back to a whole, the last seller taking what rounding leaves.
NewShare(target) ==
    LET moved == [s \in Sellers |-> AtLeast0(share[s] + (target[s] - share[s]) \div Loyalty)]
        z == Sum(moved)
        one == CHOOSE s \in Sellers : TRUE
        part(s) == (100 * moved[s]) \div z
    IN [s \in Sellers |-> IF s = one
            THEN 100 - MapThenSumSet(part, Sellers \ {one}) ELSE part(s)]

Spilled(unmet, spare) == Least(unmet, spare)

\* allocate: orders by share and backlog, sales by what is available, and what is
\* unmet spills over to those with something to spare; a part of the rest is lost
\* and the other part waits.
Allocate(demand, avail, target) ==
    LET new == NewShare(target)
        orders == [s \in Sellers |-> (new[s] * demand) \div 100 + backlog[s]]
        direct == [s \in Sellers |-> Least(orders[s], avail[s])]
        spare == [s \in Sellers |-> avail[s] - direct[s]]
        short == Sum(orders) - Sum(direct)
        spills == short > 0 /\ Sum(spare) > 0
        take == Spilled(short, Sum(spare))
        sales == [s \in Sellers |-> direct[s] +
                    (IF spills THEN (take * spare[s]) \div Sum(spare) ELSE 0)]
        rest == AtLeast0(demand + Sum(backlog) - Sum(sales))
        unmet == [s \in Sellers |-> IF spills THEN (rest * new[s]) \div 100
                                    ELSE orders[s] - direct[s]]
    IN /\ month < MaxMonth /\ month' = month + 1
       /\ share' = new
       /\ backlog' = [s \in Sellers |-> (unmet[s] * (100 - BacklogLoss)) \div 100]
       /\ last' = [kind |-> "allocated", wanted |-> demand + Sum(backlog), avail |-> avail,
                   sales |-> sales, unmet |-> unmet]
       /\ UNCHANGED <<book, opened, pos, closed>>

-----------------------------------------------------------------------------
(* Inputs in a shortage, and vacancies *)

\* allocate_shortage: by orders when there is enough, else by the weights of the
\* bids, what is left going to those who are short of their order.
Shortage(orders, weight, supply) ==
    LET capped == [b \in Buyers |-> Least(orders[b], (OrderCap * supply) \div 100)]
        w == [b \in Buyers |-> capped[b] * weight[b]]
        first == [b \in Buyers |-> Least(capped[b], (supply * w[b]) \div Sum(w))]
        room == [b \in Buyers |-> capped[b] - first[b]]
        left == supply - Sum(first)
    IN IF Sum(capped) =< supply THEN capped
       ELSE [b \in Buyers |-> Least(capped[b], first[b] +
                (IF Sum(room) > 0 THEN (left * room[b]) \div Sum(room) ELSE 0))]

\* What depends on nothing that changes is asked in the first state only.
Fresh == month = 0 /\ opened = 0

Procure(orders, weight, supply) ==
    /\ Fresh
    /\ last' = [kind |-> "procured", supply |-> supply,
                orders |-> [b \in Buyers |-> Least(orders[b], (OrderCap * supply) \div 100)],
                fill |-> Shortage(orders, weight, supply)]
    /\ UNCHANGED <<month, book, opened, pos, closed, share, backlog>>

Hired(raw, unemployed) == Scale(raw, unemployed)

\* match: the vacancies, each firm capped at its share of the unemployed, all of
\* them at the unemployed.
Match(vacancies, unemployed) ==
    LET raw == [f \in Sellers |-> Least(vacancies[f], (HireShare * unemployed) \div 100)]
    IN /\ Fresh
       /\ last' = [kind |-> "matched", unemployed |-> unemployed, hires |-> Hired(raw, unemployed)]
       /\ UNCHANGED <<month, book, opened, pos, closed, share, backlog>>

Init ==
    /\ month = 0 /\ book = << >> /\ opened = 0
    /\ pos = EmptyBooks(Buyers \cup Sellers, {Cash})
    /\ closed = [s \in Sellers |-> 0]
    /\ share = [s \in Sellers |-> 100 \div Cardinality(Sellers)]
    /\ backlog = [s \in Sellers |-> 0] /\ last = [kind |-> "none"]

Next ==
    \/ \E f \in Forwards : Open(f)
    \/ \E avail \in [Sellers -> Avails], spot \in [Buyers -> Spots] : SettleMonth(avail, spot)
    \/ \E d \in Demands, avail \in [Sellers -> Avails], t \in Targets : Allocate(d, avail, t)
    \/ \E orders \in [Buyers -> Orders], w \in [Buyers -> Weights], s \in Avails \ {0} :
           Procure(orders, w, s)
    \/ \E v \in [Sellers -> Vacancies], u \in Avails : Match(v, u)
Spec == Init /\ [][Next]_vars

-----------------------------------------------------------------------------
(* Properties *)

\* Types.
TypeOK ==
    /\ month \in 0 .. MaxMonth /\ opened \in 0 .. MaxContracts
    /\ \A k \in DOMAIN book : book[k].left \in 0 .. book[k].total /\ book[k].months \in Nat
    /\ share \in [Sellers -> 0 .. 100] /\ Sum(share) = 100
    /\ backlog \in [Sellers -> Nat]

\* A seller has been paid the price of what its contracts delivered, of those that
\* are open and of those that ended, and for nothing it could not deliver.
DeliveriesPaid ==
    \A s \in Sellers :
        pos[s][Cash] = closed[s] + MapThenSumSet(LAMBDA k : book[k].price * (book[k].total - book[k].left),
                                                {k \in DOMAIN book : book[k].seller = s})

\* In a month in which a seller cannot serve its contracts they get all it has,
\* and the spot market what rounding leaves.
ContractsFirst ==
    last.kind = "settled" =>
        \A s \in Sellers :
            /\ last.got[s] + last.spot[s] =< last.avail[s]
            /\ last.claims[s] > last.avail[s] => last.spot[s] =< MaxContracts

\* Nobody sells what it has not got, and what is wanted is sold or unmet and
\* nothing else, whatever spilled over.
DemandConserved ==
    last.kind = "allocated" =>
        LET gap == last.wanted - Sum(last.sales) - Sum(last.unmet)
        IN /\ \A s \in Sellers : last.sales[s] =< last.avail[s]
           /\ gap \in 0 .. 2 * Cardinality(Sellers)

\* In a shortage the whole supply is used while an order is short of its fill,
\* and no bid gets more than it ordered.
ShortageUsesSupply ==
    last.kind = "procured" =>
        /\ \A b \in Buyers : last.fill[b] =< last.orders[b]
        /\ Sum(last.fill) =< last.supply
        /\ Sum(last.fill) >= Least(last.supply, Sum(last.orders)) - 2 * Cardinality(Buyers)

\* No more are hired than are unemployed.
HiresWithinPool == last.kind = "matched" => Sum(last.hires) =< last.unemployed

\* Contracts, spot sales and hires share out what there is, and all of it, and what
\* is delivered is paid.
GoodsSharedOut ==
    /\ TypeOK /\ DeliveriesPaid /\ ContractsFirst
    /\ DemandConserved /\ ShortageUsesSupply /\ HiresWithinPool
=============================================================================
