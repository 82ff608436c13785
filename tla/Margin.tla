------------------------------- MODULE Margin -------------------------------
(***************************************************************************)
(* Margin loans, short sales, the check at the end of the day, the forced  *)
(* orders of the next one and the loss waterfall (market/margin.py,        *)
(* market/shorting.py) on the settlement of fills (market/settlement.py).  *)
(*                                                                         *)
(* A share is worth price units of currency; cash, loans and haircuts are  *)
(* in hundredths of it, so that percentages are whole numbers.  A forced   *)
(* fill moves the price by Slip.                                           *)
(***************************************************************************)
EXTENDS Ledger, Sequences, SequencesExt

CONSTANTS
    Accounts,               \* the accounts tracked, in the order of their names
    Initial, Maintenance,   \* haircuts of each symbol, in percent
    Lendable,               \* symbols that may be sold short
    Commission, Tax,        \* percent of a notional
    Retail, Wholesale,      \* daily interest, in percent
    BorrowFee,              \* daily fee of a short position, in percent
    BrokerCap,
    Price0, Prices,         \* prices at first, and what they may move to
    Lots, Draws,            \* sizes of orders and draws
    Payments,               \* <<symbol, amount>> of dividends and variation margin
    Cash0, Inventory,       \* cash of an account, shares of the broker at first
    Slip,                   \* impact of a forced fill
    MaxDay, MaxOrders       \* bounds: days, and orders and draws

Symbols == DOMAIN Initial
Names == Range(Accounts)
MM == "MM"
Bank == "BANKSYS"
Issuer == "NPC"
Entities == Names \cup {MM, Bank, Issuer, "GOVT"}
Instruments == Symbols \cup {Cash, Loan}

\* What the constants must be.
MarginAssumption ==
    /\ Initial \in [Symbols -> 1 .. 100] /\ Maintenance \in [Symbols -> 1 .. 100]
    /\ \A s \in Symbols : Maintenance[s] =< Initial[s]
    /\ Lendable \subseteq Symbols /\ Prices \subseteq Nat \ {0}
    /\ Commission \in Nat /\ Tax \in Nat /\ Retail \in Nat /\ Wholesale \in Nat
    /\ BorrowFee \in Nat /\ BrokerCap \in Nat /\ Slip \in Nat
    /\ Names \cap {MM, Bank, Issuer, "GOVT"} = {}
    /\ Symbols \cap {Cash, Loan} = {}

VARIABLES
    day, stage,             \* "open", then "closed" by the check, then "forced"
    orders,                 \* orders and draws so far
    pos,                    \* the books
    price, debit,           \* of each symbol; face of the loans of this book
    cost,                   \* _cost: entry price, 0 if none is set
    pending,                \* forced orders of the next day
    traded,                 \* who has traded what since the check
    losses                  \* what the last waterfalls have cost broker and bank

vars == <<day, stage, orders, pos, price, debit, cost, pending, traded, losses>>

Index(a) == CHOOSE k \in DOMAIN Accounts : Accounts[k] = a
Abs(x) == IF x < 0 THEN -x ELSE x
CeilDiv(n, d) == (n + d - 1) \div d
AtMost(x, y) == IF x =< y THEN x ELSE y

-----------------------------------------------------------------------------
(* Marks *)

Equity(a) == pos[a][Cash] + pos[a][Loan]
               + MapThenSumSet(LAMBDA s : 100 * pos[a][s] * price[s], Symbols)
Requirement(a, rate) ==
    MapThenSumSet(LAMBDA s : rate[s] * Abs(pos[a][s]) * price[s], Symbols)
Excess(a) == Equity(a) - Requirement(a, Maintenance)
Breached(a) == Excess(a) < 0 /\ Requirement(a, Maintenance) > 0
Profit(a, s) == IF cost[a][s] = 0 THEN 0 ELSE (price[s] - cost[a][s]) * pos[a][s]

\* Most negative excess first, then by name; losers first, then the largest.
Worse(a, b) == \/ Excess(a) < Excess(b)
               \/ Excess(a) = Excess(b) /\ Index(a) < Index(b)
Loser(a, s, t) ==
    \/ Profit(a, s) < Profit(a, t)
    \/ Profit(a, s) = Profit(a, t)
         /\ Abs(pos[a][s]) * price[s] > Abs(pos[a][t]) * price[t]

\* _plan: positions are closed, the largest loser first, until the haircuts that
\* are left fit the equity.
Plan(a) ==
    LET held == {s \in Symbols : pos[a][s] # 0}
        row == SetToSortSeq(held, LAMBDA s, t : Loser(a, s, t))
        n(s, need) == AtMost(Abs(pos[a][s]), CeilDiv(need, Initial[s] * price[s]))
        add(acc, s) ==
            IF acc.need =< 0 THEN acc
            ELSE [need |-> acc.need - n(s, acc.need) * Initial[s] * price[s],
                  plan |-> Append(acc.plan, [account |-> a, symbol |-> s,
                                             sell |-> pos[a][s] > 0, qty |-> n(s, acc.need)])]
    IN FoldLeft(add, [need |-> Requirement(a, Initial) - Equity(a), plan |-> << >>], row).plan

-----------------------------------------------------------------------------
(* Postings *)

\* settle_fill: the swap; on an order of a customer commission, and tax of the
\* buyer.  A forced fill is settled without them.
Settle(p, taker, s, buy, q, px) ==
    IF buy THEN Swap(p, taker, MM, s, q, 100 * q * px)
           ELSE Swap(p, MM, taker, s, q, 100 * q * px)
Charged(p, taker, buy, notional) ==
    Move(Move(p, taker, MM, Cash, Commission * notional),
         IF buy THEN taker ELSE MM, "GOVT", Cash, Tax * notional)

\* Faulty: the broker keeps what it owes the bank.
Repaid_RetailOnly(p, a, x) == Refund(p, a, MM, x)

\* repay: the customer to the broker, the broker to the bank.
Repaid(p, a, x) == Refund(Refund(p, a, MM, x), MM, Bank, x)
Drawn(p, a, x) == Lend(Lend(p, Bank, MM, x), MM, a, x)

\* Shares investors hold, and shares they are short; the issuer is no investor.
Investors == Entities \ {Issuer}
Long(s) == MapThenSumSet(LAMBDA e : IF pos[e][s] > 0 THEN pos[e][s] ELSE 0, Investors)
Short(s) == MapThenSumSet(LAMBDA e : IF pos[e][s] < 0 THEN -pos[e][s] ELSE 0, Investors)
Located(s, q) == s \in Lendable /\ Long(s) - Short(s) >= q

-----------------------------------------------------------------------------
(* The day *)

Init == /\ day = 0 /\ stage = "open" /\ orders = 0
        /\ pos = [e \in Entities |-> [i \in Instruments |->
                    CASE e \in Names /\ i = Cash -> Cash0
                      [] e = Bank /\ i = Cash -> -Cash0 * Len(Accounts)
                      [] e = MM /\ i \in Symbols -> Inventory
                      [] e = Issuer /\ i \in Symbols -> -Inventory
                      [] OTHER -> 0]]
        /\ price = Price0
        /\ debit = [a \in Names |-> 0]
        /\ cost = [a \in Names |-> [s \in Symbols |-> 0]]
        /\ pending = << >> /\ traded = {} /\ losses = << >>

Busy == stage = "open" /\ orders < MaxOrders /\ orders' = orders + 1

\* draw and repay, at the wish of the customer.
Draw(a, x) == /\ Busy
              /\ pos' = Drawn(pos, a, x)
              /\ debit' = [debit EXCEPT ![a] = @ + x]
              /\ UNCHANGED <<day, stage, price, cost, pending, traded, losses>>

Repay(a, x) ==
    LET y == AtMost(x, debit[a])
    IN /\ Busy /\ y > 0
       /\ pos' = Repaid(pos, a, y)
       /\ debit' = [debit EXCEPT ![a] = @ - y]
       /\ UNCHANGED <<day, stage, price, cost, pending, traded, losses>>

\* A fill against the quote; what is sold short has to be located.
Trade(a, s, buy, q) ==
    /\ Busy
    /\ (~buy /\ pos[a][s] < q) => Located(s, q - (IF pos[a][s] > 0 THEN pos[a][s] ELSE 0))
    /\ pos' = Charged(Settle(pos, a, s, buy, q, price[s]), a, buy, q * price[s])
    /\ cost' = [cost EXCEPT ![a][s] = price[s]]
    /\ traded' = traded \cup {<<a, s>>}
    /\ UNCHANGED <<day, stage, price, debit, pending, losses>>

\* check: whoever is below maintenance has its plan queued, the worst first.
Check ==
    /\ stage = "open"
    /\ stage' = "closed"
    /\ pending' = LET row == SetToSortSeq({a \in Names : Breached(a)}, Worse)
                  IN FlattenSeq([k \in DOMAIN row |-> Plan(row[k])])
    /\ traded' = {}
    /\ UNCHANGED <<day, orders, pos, price, debit, cost, losses>>

\* The next day: interest and borrow fees are charged, prices have moved.
Interest(p, a) == Move(Move(p, a, MM, Cash, (Retail * debit[a]) \div 100),
                       MM, Bank, Cash, (Wholesale * debit[a]) \div 100)
Fees(p, a) ==
    LET due(s) == IF s \in Lendable /\ pos[a][s] < 0
                  THEN BorrowFee * (-pos[a][s]) * price[s] ELSE 0
    IN Move(p, a, MM, Cash, MapThenSumSet(due, Symbols))
NextDay ==
    /\ stage = "closed" /\ day < MaxDay
    /\ day' = day + 1 /\ stage' = "open"
    /\ pos' = FoldLeft(Fees, FoldLeft(Interest, pos, Accounts), Accounts)
    /\ price' \in [Symbols -> Prices]
    /\ UNCHANGED <<orders, debit, cost, pending, traded, losses>>

\* execute_forced: what is queued is filled in its order, each fill moves the
\* price of the next, and the proceeds of a sale repay the loan.
Slipped(p, sell) == IF sell THEN (IF p > Slip THEN p - Slip ELSE 1) ELSE p + Slip
ForcedFill ==
    LET f == Head(pending)
        px == Slipped(price[f.symbol], f.sell)
        y == IF f.sell THEN AtMost(100 * f.qty * px, debit[f.account]) ELSE 0
    IN /\ stage \in {"open", "forced"} /\ pending # << >>
       /\ stage' = IF Len(pending) = 1 THEN "open" ELSE "forced"
       /\ pending' = Tail(pending)
       /\ pos' = Repaid(Settle(pos, f.account, f.symbol, ~f.sell, f.qty, px), f.account, y)
       /\ debit' = [debit EXCEPT ![f.account] = @ - y]
       /\ price' = [price EXCEPT ![f.symbol] = px]
       /\ UNCHANGED <<day, orders, cost, traded, losses>>

\* waterfall: the account's cash, the broker up to its cap, then the bank.
Waterfall(b, a) ==
    LET own == IF b.pos[a][Cash] > 0 THEN AtMost(b.pos[a][Cash], b.debit[a]) ELSE 0
        gift == AtMost(b.debit[a] - own, BrokerCap)
        rest == b.debit[a] - own - gift
        p == Repaid(Move(Repaid(b.pos, a, own), MM, a, Cash, gift), a, gift)
    IN [pos |-> Move(p, Bank, a, Loan, rest), debit |-> [b.debit EXCEPT ![a] = 0],
        lost |-> Append(b.lost, [account |-> a, broker |-> gift, bank |-> rest])]

\* resolve_deficits: whoever is in debt and has nothing left to sell.
Resolve ==
    LET owing(a) == debit[a] > 0 /\ Requirement(a, Initial) = 0
        done == FoldLeft(Waterfall, [pos |-> pos, debit |-> debit, lost |-> << >>],
                         SelectSeq(Accounts, owing))
    IN /\ stage = "open" /\ \E a \in Names : owing(a)
       /\ pos' = done.pos /\ debit' = done.debit /\ losses' = done.lost
       /\ UNCHANGED <<day, stage, orders, price, cost, pending, traded>>

\* Dividends of an equity, variation margin of a commodity: d for each unit.
PayPerUnit(s, d) == /\ Busy
                    /\ pos' = PerUnit(pos, s, d)
                    /\ UNCHANGED <<day, stage, price, debit, cost, pending, traded, losses>>

\* to_state and from_state, between two calls: the loans, the entry prices and the
\* plans go on; positions are the ledger's and prices the venue's.
Saved == [debit |-> debit, cost |-> cost, pending |-> pending]
Reload ==
    /\ stage # "forced"
    /\ LET s == Saved IN debit' = s.debit /\ cost' = s.cost /\ pending' = s.pending
    /\ UNCHANGED <<day, stage, orders, pos, price, traded, losses>>

Next == \/ \E a \in Names : \/ \E x \in Draws : Draw(a, x) \/ Repay(a, x)
                            \/ \E s \in Symbols, buy \in BOOLEAN, q \in Lots :
                                  Trade(a, s, buy, q)
        \/ \E p \in Payments : PayPerUnit(p[1], p[2])
        \/ Check \/ NextDay \/ ForcedFill \/ Resolve \/ Reload

Spec == Init /\ [][Next]_vars

-----------------------------------------------------------------------------
(* Properties *)

\* Every variable has its type; a debit is never negative.
TypeOK == /\ day \in 0 .. MaxDay /\ stage \in {"open", "closed", "forced"}
          /\ orders \in 0 .. MaxOrders
          /\ pos \in [Entities -> [Instruments -> Int]]
          /\ price \in [Symbols -> Nat \ {0}]
          /\ debit \in [Names -> Nat]
          /\ cost \in [Names -> [Symbols -> Nat]]
          /\ \A k \in DOMAIN pending : pending[k] \in [account : Names, symbol : Symbols,
                                                     sell : BOOLEAN, qty : Nat \ {0}]
          /\ traded \subseteq Names \X Symbols

\* Every instrument stays somebody's asset and somebody else's liability
\* (assert_consistent, ledger/sfc.py:59-70).
LedgerConsistent == Consistent(pos, Instruments)

\* The margin book and the ledger agree on every loan, the broker passes all of
\* it through to the bank, and only a write-off may end one without a repayment
\* (margin.py:180-219, 377-420).
LoansMatchDebit ==
    /\ \A a \in Names : pos[a][Loan] = -debit[a]
    /\ pos[MM][Loan] = 0
    /\ pos[Bank][Loan] = MapThenSumSet(LAMBDA a : debit[a], Names)

Planned(a, s) == MapThenSumSet(LAMBDA k : IF pending[k].account = a /\ pending[k].symbol = s
                                          THEN pending[k].qty ELSE 0, DOMAIN pending)

\* What the check queues is enough and possible: with the orders filled at the
\* mark the initial haircuts fit the equity, or all is sold; no order is larger
\* than the position it closes, and nobody above maintenance is touched
\* (check and _plan, margin.py:261-300, 444-487).
PlanRestoresInitial ==
    stage = "closed" =>
      \A a \in Names :
        LET left(s) == Abs(pos[a][s]) - Planned(a, s)
        IN /\ \A s \in Symbols : left(s) >= 0
           /\ ~Breached(a) => \A s \in Symbols : Planned(a, s) = 0
           /\ Breached(a) =>
                \/ \A s \in Symbols : left(s) = 0
                \/ MapThenSumSet(LAMBDA s : Initial[s] * left(s) * price[s], Symbols)
                     =< Equity(a)

ForcedStep ==
    (pending # << >> /\ pending' = Tail(pending) /\ stage' # "closed") =>
      LET f == Head(pending)
          q == pos[f.account][f.symbol]
      IN /\ <<f.account, f.symbol>> \notin traded =>
              /\ f.sell <=> q > 0
              /\ Abs(pos'[f.account][f.symbol]) = Abs(q) - f.qty
         /\ \A a \in Names : debit'[a] =< debit[a]

\* A forced fill brings the position of an account that has not traded the
\* symbol since the check closer to zero and never through it, and no forced
\* fill raises a debit: the cascade only deleverages.

LossStep ==
    losses' # losses =>
      \A k \in DOMAIN losses' :
         LET l == losses'[k]
         IN /\ debit'[l.account] = 0
            /\ l.bank > 0 => pos'[l.account][Cash] =< 0 /\ l.broker = BrokerCap
            /\ l.broker > 0 => pos'[l.account][Cash] =< 0

\* The bank writes off only what the account's own cash and the broker's cap do
\* not pay, and leaves the account without debt (waterfall, margin.py:377-420).

\* The books of the accounts, of the broker and of the bank agree, and a plan of
\* forced orders is enough.
LoansAccounted == TypeOK /\ LedgerConsistent /\ LoansMatchDebit /\ PlanRestoresInitial

\* A forced fill only takes leverage away, and the bank loses only what is left when
\* the account and the broker have given theirs.
ForcedOrLoss == ForcedStep /\ LossStep
=============================================================================
