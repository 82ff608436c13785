------------------------------ MODULE BondMarket ------------------------------
(***************************************************************************)
(* The secondary market of the bond buckets (market/bond_market.py), the   *)
(* central bank's purchases and sales on it (real/policy/                  *)
(* cb_operations.py) and the pool of corporate bonds (market/corp_pool.py).*)
(*                                                                         *)
(* The market keeps the holders' books itself; only the central bank and   *)
(* the pool post on the ledger.  A mark follows from yields and impact: it *)
(* is any of Prices after what moves it.  Spreads are whole numbers.       *)
(***************************************************************************)
EXTENDS Ledger, Sequences

CONSTANTS
    Agent, Insurer,             \* a trader; an NPC holder that rebalances
    Buckets, PoolBucket,        \* the government's, and the pool's
    Face0, Held0, Targets,      \* opening face; the insurer's holdings; what it tends to
    Prices, Lots,               \* per unit of face; face of a trade
    Gain, TradeCap,             \* of rebalancing: percent of the gap, and a bound in face
    MarketCoupon,               \* percent a month
    Window, Devs,               \* days of the mean, the deviations a day may show
    MaxTrades                   \* bound

ASSUME BondMarketAssumption ==
    /\ Agent # Insurer
    /\ {Agent, Insurer} \cap {"MM", "CB", "BANKSYS", "GOVT", "ROW", "CORPPOOL", "FIRM"} = {}
    /\ IsFiniteSet(Buckets) /\ PoolBucket \notin Buckets
    /\ (Buckets \cup {PoolBucket}) \cap {Cash, "RES", "CLOAN"} = {}
    /\ Face0 \in Int /\ Held0 \in Nat /\ Targets \in [Buckets \cup {PoolBucket} -> Nat]
    /\ Prices \subseteq Int /\ 1 \in Prices /\ Lots \subseteq Nat
    /\ Gain \in 0 .. 100 /\ TradeCap \in Nat /\ MarketCoupon \in Int
    /\ Window \in Nat /\ MaxTrades \in Nat

Dealer == "MM"
CB == "CB"
Bank == "BANKSYS"
Treasury == "GOVT"
Row == "ROW"
Pool == "CORPPOOL"
Borrower == "FIRM"
CLoan == "CLOAN"
Reserve == "RES"
All == Buckets \cup {PoolBucket}
Bookholders == {Dealer, CB, Row, Agent, Insurer}
Owners == Bookholders \cup {Bank, Treasury, Pool, Borrower}
Papers == All \cup {Cash, Reserve, CLoan}

VARIABLES
    trades,
    outstanding, held,          \* the market's: face, and the books of the holders
    price,
    ledger,
    devs, marks,                \* the pool's window, and all the deviations of its life
    lost                        \* loans of the pool written down

market_vars == <<trades, outstanding, held, price, ledger, devs, marks, lost>>

Positive(x) == IF x < 0 THEN 0 ELSE x
Capped(x, c) == IF x > c THEN c ELSE IF x < -c THEN -c ELSE x
TotalOf(h) == SumOver(held[h], All)

Operate == trades < MaxTrades /\ trades' = trades + 1
\* _sync_marks: the marks move with the yields and the impact.
Remark == price' \in [All -> Prices]

\* Face from one holder's book to another's.
Pass(h, from, to, b, q) == [h EXCEPT ![from][b] = @ - q, ![to][b] = @ + q]

\* _residual_mm: the market maker holds what no other does.
Residual(h, f) ==
    LET others(b) == SumOver([x \in Bookholders |-> h[x][b]], Bookholders \ {Dealer})
    IN [h EXCEPT ![Dealer] = [b \in All |-> f[b] - others(b)]]

-----------------------------------------------------------------------------
(* The market *)

\* _apply_fill: the market maker is on the other side.
Traded(buys, b, q) ==
    IF buys THEN Pass(held, Dealer, Agent, b, q) ELSE Pass(held, Agent, Dealer, b, q)

\* end_tick with a fill of the trader.
FillTick(buys, b, q) ==
    /\ Operate /\ Remark
    /\ held' = Traded(buys, b, q)
    /\ UNCHANGED <<outstanding, ledger, devs, marks, lost>>

Wanted(h, b) == (Gain * ((Targets[b] * TotalOf(h)) \div 100 - held[h][b])) \div 100

\* step: the holders with targets move a part of the way, within the cap.
Rebalance ==
    /\ Operate /\ Remark
    /\ LET move(b) == IF TotalOf(Insurer) =< 0 THEN 0 ELSE Capped(Wanted(Insurer, b), TradeCap)
       IN held' = [held EXCEPT ![Insurer] = [b \in All |-> @[b] + move(b)],
                               ![Dealer] = [b \in All |-> @[b] - move(b)]]
    /\ UNCHANGED <<outstanding, ledger, devs, marks, lost>>

\* apply_row_selloff: a share, in percent, of every bucket of the government.
RowSelloff(share) ==
    /\ Operate /\ Remark
    /\ LET sold(b) == IF b \in Buckets THEN (share * held[Row][b]) \div 100 ELSE 0
       IN held' = [held EXCEPT ![Row] = [b \in All |-> @[b] - sold(b)],
                               ![Dealer] = [b \in All |-> @[b] + sold(b)]]
    /\ UNCHANGED <<outstanding, ledger, devs, marks, lost>>

\* set_face.
SetFace(b, f) ==
    /\ Operate
    /\ outstanding' = [outstanding EXCEPT ![b] = f] /\ held' = Residual(held, outstanding')
    /\ UNCHANGED <<price, ledger, devs, marks, lost>>

\* to_state and from_state: the market maker's book is again what the others leave.
Restore ==
    /\ Operate /\ held' = Residual(held, outstanding)
    /\ UNCHANGED <<outstanding, price, ledger, devs, marks, lost>>

-----------------------------------------------------------------------------
(* The central bank *)

\* purchase_postings: the bond, the reserves made, the seller paid.
Purchase(p, b, q, x) ==
    Move(Move(Move(p, Dealer, CB, b, q), CB, Bank, Reserve, x), Bank, Dealer, Cash, x)

\* mark_day: a deviation more, the window kept at its length.
Windowed(s) == IF Len(s) > Window THEN Tail(s) ELSE s
MarkDay(d) == devs' = Windowed(Append(devs, d)) /\ marks' = Append(marks, d)

\* Faulty: only purchases are checked.
Covered_Purchases(src, b, q) == src = Dealer => held[src][b] >= q

Covered(src, b, q) == held[src][b] >= q

\* purchase, sale and unwind: the books and the ledger move together, or neither
\* does; a trade in the pool marks its spread.
Trade(buying, b, q) ==
    LET src == IF buying THEN Dealer ELSE CB
        dst == IF buying THEN CB ELSE Dealer
        sign == IF buying THEN 1 ELSE -1
    IN /\ Operate /\ Remark /\ q > 0
       /\ Covered(src, b, q)
       /\ held' = Pass(held, src, dst, b, q)
       /\ ledger' = Purchase(ledger, b, sign * q, sign * q * price[b])
       /\ IF b = PoolBucket THEN \E d \in Devs : MarkDay(d) ELSE UNCHANGED <<devs, marks>>
       /\ UNCHANGED <<outstanding, lost>>

Unwind(b) == Trade(FALSE, b, held[CB][b])

\* remit_coupons: on the holdings of the market's book.
RemitCoupons ==
    /\ Operate
    /\ LET due == [b \in All |-> (Positive(held[CB][b]) * MarketCoupon) \div 100]
       IN ledger' = Move(ledger, CB, Treasury, Cash, SumOver(due, All))
    /\ UNCHANGED <<outstanding, held, price, devs, marks, lost>>

-----------------------------------------------------------------------------
(* The pool *)

Lent(p, q, x) == Swap(p, Pool, Borrower, CLoan, q, q * x)

\* weekly_tap: what the auction sells is lent on, at the same price.
Tap(q, p) ==
    /\ Operate
    /\ LET sold == Swap(ledger, Dealer, Pool, PoolBucket, q, q * p)
       IN ledger' = Lent(sold, q, p)
    /\ UNCHANGED <<outstanding, held, price, devs, marks, lost>>

\* write_down_cloan.
WriteDown(q) ==
    /\ Operate /\ q =< ledger[Pool][CLoan]
    /\ ledger' = Move(ledger, Pool, Borrower, CLoan, q) /\ lost' = lost + q
    /\ UNCHANGED <<outstanding, held, price, devs, marks>>

Mark(d) ==
    /\ Operate /\ MarkDay(d)
    /\ UNCHANGED <<outstanding, held, price, ledger, lost>>

MarketInit ==
    /\ trades = 0 /\ outstanding = [b \in All |-> Face0]
    /\ LET opening == [h \in Bookholders |-> [b \in All |-> IF h \in {Insurer, Row} THEN Held0 ELSE 0]]
       IN held = Residual(opening, outstanding)
    /\ price = [b \in All |-> 1]
    /\ ledger = EmptyBooks(Owners, Papers)
    /\ devs = << >> /\ marks = << >> /\ lost = 0

MarketNext ==
    \/ Rebalance \/ Restore \/ RemitCoupons
    \/ \E share \in {50, 100} : RowSelloff(share)
    \/ \E b \in All, q \in Lots, side \in BOOLEAN : FillTick(side, b, q) \/ Trade(side, b, q)
    \/ \E b \in All : Unwind(b) \/ (\E q \in Lots : SetFace(b, outstanding[b] + q))
    \/ \E q \in Lots, p \in Prices : Tap(q, p)
    \/ \E q \in Lots : WriteDown(q)
    \/ \E d \in Devs : Mark(d)
MarketSpec == MarketInit /\ [][MarketNext]_market_vars

-----------------------------------------------------------------------------
(* Properties *)

\* Types.
MarketTyped ==
    /\ trades \in 0 .. MaxTrades /\ Len(devs) =< Window /\ price \in [All -> Prices]
    /\ \A h \in Bookholders, b \in All : held[h][b] \in Int

\* Every unit that is outstanding is in one book, through trades, official flows,
\* rebalancing, sell-offs and issues in any order.
FaceConserved ==
    \A b \in All : outstanding[b] = SumOver([h \in Bookholders |-> held[h][b]], Bookholders)

\* The central bank's bonds on the ledger are those in the market's book, what it
\* bought is never sold twice, and what it paid is reserves and deposits alike.
BankBookOnLedger ==
    /\ \A b \in All : ledger[CB][b] = held[CB][b] /\ held[CB][b] >= 0
    /\ ledger[Bank][Reserve] + ledger[Bank][Cash] = 0

\* An NPC holder never sells what it has not got, however its book got there.
HoldersStayLong == \A h \in {Insurer, Row}, b \in All : held[h][b] >= 0

\* The pool lends what it raises and nothing else: its loans are its units less
\* what was written down, and it keeps no cash.
PoolPassesThrough ==
    /\ ledger[Pool][Cash] = 0
    /\ ledger[Pool][CLoan] = -ledger[Pool][PoolBucket] - lost

\* The spread's mean is over the last deviations marked, in their order: those of the
\* days, and one more for every trade of the central bank in the pool (_mark_pool).
MeanOfTheLast ==
    devs = SubSeq(marks, Positive(Len(marks) - Window) + 1, Len(marks))

\* Every bond is in one book, the central bank's and the pool's also in the ledger,
\* no NPC holder and not the central bank is short (an agent and the dealer may be), and
\* the spread is the mean of the last marks.
HoldingsAccounted ==
    /\ MarketTyped /\ FaceConserved /\ BankBookOnLedger /\ HoldersStayLong
    /\ PoolPassesThrough /\ MeanOfTheLast
=============================================================================
