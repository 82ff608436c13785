------------------------------ MODULE Settlement ------------------------------
(***************************************************************************)
(* The money side of a month of the economy (real/economy.py R9,           *)
(* real/settlement.py, banks.py, government.py, policy/fiscal.py,          *)
(* policy/monetary.py): the economy keeps its own copies of debts and      *)
(* bank balances, computes a month of flows from them, and posts it on the *)
(* ledger.  Households hold the loans and bonds ("passthrough"), or a bank *)
(* and the central bank stand between (full).                              *)
(*                                                                         *)
(* One firm; the bonds of GOVT_MIX are one instrument.  Amounts are whole  *)
(* numbers, the bank's share of a deficit rounds down; a rate is per unit  *)
(* and month.  Flows that only pass between the firm, the households and   *)
(* the rest of the world are one payment for consumption.                  *)
(***************************************************************************)
EXTENDS Ledger

CONSTANTS
    Debt0, Bonds0, BankBonds0, Reserves0, Deposits0,    \* opening balances
    Purchases, Taxes, Borrowings, Losses, Spends,       \* what a month may be
    Rates, Rescues, Lolrs,                              \* of the policymakers
    Capital, Thin,                                      \* the bank's target and floor, in %
    MaxMonth, MaxOps                                    \* bounds

ASSUME SettlementAssumption ==
    /\ Debt0 \in Nat /\ Bonds0 \in Int /\ BankBonds0 \in Int /\ Reserves0 \in Int /\ Deposits0 \in Int
    /\ Purchases \subseteq Int /\ Taxes \subseteq Int /\ Spends \subseteq Int
    /\ Borrowings \subseteq Int /\ Losses \subseteq Nat
    /\ Rates \subseteq Int /\ Rescues \subseteq Int /\ Lolrs \subseteq Nat
    /\ Capital \in Int /\ Thin \in Int /\ MaxMonth \in Nat /\ MaxOps \in Nat

VARIABLES
    full, month, ops,
    books,                              \* the ledger
    debt, govtDebt,                     \* the economy's copies: firms' and government debt
    deposits, reserves, bankGB, cbGB, hhGB, equity,
    rescue, lolr,                       \* one-off levers in effect
    seized, credited,                   \* history: loans written off by events, net cash
    uncounted, lent                     \* "written off" by months, bonds issued for a
                                        \* shortfall, loans of last resort

money_vars == <<full, month, ops, books, debt, govtDebt, deposits, reserves, bankGB, cbGB, hhGB,
                equity, rescue, lolr, seized, credited, uncounted, lent>>
sheet == <<deposits, reserves, bankGB, cbGB, hhGB, equity>>

Bond == "GB"
Res == "RES"
Claims == {Cash, Loan, Bond, Res}
Parties == {"HH", "FIRM", "GOVT", "BANKSYS", "CB"}
Lender == IF full THEN "BANKSYS" ELSE "HH"
Most(x, y) == IF x >= y THEN x ELSE y
AtMost(x, y) == IF x =< y THEN x ELSE y
NFA(p, e) == p[e][Cash] + p[e][Loan] + p[e][Bond] + p[e][Res]

Pay(p, from, to, x) == Move(p, from, to, Cash, x)

-----------------------------------------------------------------------------
(* settle_month *)

\* _issue_bonds_to, post_bond_issue.
Issue(p, buyer, x) == Swap(p, buyer, "GOVT", Bond, x, x)

\* The interest a month owes: on the copies the economy keeps.
Interest(p, r) ==
    LET p1 == Pay(p, "FIRM", Lender, r * debt)
        p2 == Pay(Pay(p1, "GOVT", "HH", r * hhGB), "GOVT", "BANKSYS", r * bankGB)
    IN IF full THEN Pay(p2, "GOVT", "CB", r * cbGB) ELSE Pay(p1, "GOVT", "HH", r * govtDebt)

\* The central bank pays for the reserves and passes the rest on to the government.
Remit(p, r) == Pay(Pay(p, "CB", "BANKSYS", r * reserves), "CB", "GOVT", r * cbGB - r * reserves)

\* monthly_writeoff: a part of the debt, so that a firm with net cash gets a negative
\* one, which takes some of that cash away.
WriteOff(m) == IF debt >= 0 THEN AtMost(m.loss, debt) ELSE -AtMost(m.loss, -debt)

\* Of write-offs, the positive ones are posted.
Written(m) == Most(WriteOff(m), 0)

\* bank_month_flows: profit on the sheet, paid out where the capital is at its
\* target (per cent of the loans), in part above the floor, not at all below.  Where
\* there are no loans, any capital is enough, and only capital is.
DepositInterest(m) == (m.r * deposits) \div 2
Profit(m) == m.r * (debt + reserves + bankGB) - DepositInterest(m) - WriteOff(m)
Loans == Most(debt, 1)
Dividend(m) == IF 100 * equity >= Capital * Loans THEN Most(Profit(m), 0)
               ELSE IF 100 * equity >= Thin * Loans THEN Most(Profit(m) \div 2, 0) ELSE 0

\* Losses on loans, the bank's interest on deposits and its dividend.
Banking(p, m) ==
    IF ~full THEN p
    ELSE LET written == Move(p, "BANKSYS", "FIRM", Loan, Written(m))
         IN Remit(Pay(written, "BANKSYS", "HH", DepositInterest(m) + Dividend(m)), m.r)

\* New loans and repayments; without a bank no cash goes with them.
Borrowed(p, x) == IF full THEN Lend(p, "BANKSYS", "FIRM", x) ELSE Move(p, "FIRM", "HH", Loan, x)

\* _post_full_finance, and post_bond_issue without banks: the bank and the central
\* bank take their share of what the deficit adds, the households the rest.
Financed(p, deficit) ==
    IF ~full \/ govtDebt =< 0 THEN Issue(p, "HH", deficit)
    ELSE LET forBank == (deficit * bankGB) \div govtDebt
             forCB == (deficit * cbGB) \div govtDebt
             p1 == Issue(Issue(p, "HH", deficit - forBank - forCB), "BANKSYS", forBank)
             p2 == Move(Move(p1, "GOVT", "CB", Bond, forCB), "CB", "BANKSYS", Res, forCB)
         IN Pay(p2, "BANKSYS", "GOVT", forCB)

\* cover_govt_shortfall: what the government's account is short of.
Shortfall(p) == Most(-p["GOVT"][Cash], 0)

\* What of d_debt is posted.
Posted(x) == x

\* post_lolr.
LastResort(p, x) == Move(Move(p, "CB", "BANKSYS", Res, x), "BANKSYS", "CB", Loan, x)

\* _refresh_bank_sheet, on a full ledger.
Refreshed(p) ==
    IF full
    THEN /\ deposits' = -p["BANKSYS"][Cash] /\ reserves' = p["BANKSYS"][Res]
         /\ bankGB' = p["BANKSYS"][Bond] /\ cbGB' = p["CB"][Bond] /\ hhGB' = p["HH"][Bond]
         /\ equity' = NFA(p, "BANKSYS")
    ELSE UNCHANGED sheet

\* Faulty: the rescue is not in it.
Deficit_NoRescue(m) == m.buy + m.r * govtDebt - m.tax

\* What the government spends beyond its income.
Deficit(m) == m.buy + m.r * govtDebt + rescue - m.tax

\* The flows of a month, which wages, prices, taxes and profits come to: any.
Flows == [buy : Purchases, tax : Taxes, spend : Spends, borrow : Borrowings, loss : Losses, r : Rates]

\* settle_month, up to the shortfall.
SettledMonth(p, m) ==
    LET p1 == Pay(Pay(Pay(p, "GOVT", "FIRM", m.buy), "HH", "GOVT", m.tax), "HH", "FIRM", m.spend)
        p2 == Pay(p1, "GOVT", "BANKSYS", rescue)
        p3 == Borrowed(Banking(Interest(p2, m.r), m), Posted(m.borrow))
    IN Financed(p3, Deficit(m))

\* step_month, from R9 to its end.
Month(m) ==
    LET loss == IF full THEN WriteOff(m) ELSE 0
        p4 == SettledMonth(books, m)
        p5 == Issue(p4, "HH", Shortfall(p4))
        p6 == LastResort(p5, lolr)
    IN /\ month < MaxMonth /\ month' = month + 1
       /\ books' = p6 /\ debt' = debt - loss + m.borrow /\ govtDebt' = govtDebt + Deficit(m)
       /\ Refreshed(p6)
       /\ uncounted' = uncounted + Shortfall(p4) /\ lent' = lent + lolr
       /\ credited' = credited + Most(-loss, 0)
       /\ rescue' = 0 /\ lolr' = 0
       /\ UNCHANGED <<full, ops, seized>>

\* The one-off levers, between two months (Policy); a loan of last resort is for a bank.
SetRescue(x) ==
    /\ ops < MaxOps /\ ops' = ops + 1 /\ rescue' = x
    /\ UNCHANGED <<full, month, books, debt, govtDebt, sheet, lolr, seized, credited, uncounted, lent>>
SetLolr(x) ==
    /\ ops < MaxOps /\ ops' = ops + 1 /\ lolr' = x
    /\ UNCHANGED <<full, month, books, debt, govtDebt, sheet, rescue, seized, credited, uncounted, lent>>

\* write_off_bank_equity by an event (events/effects.py): half the equity in loans,
\* off the ledger alone; of the copies only the equity follows.
BankLoss ==
    LET x == Most(0, NFA(books, "BANKSYS") \div 2)
        p == Move(books, "BANKSYS", "FIRM", Loan, x)
    IN /\ ops < MaxOps /\ ops' = ops + 1 /\ full /\ debt > 0
       /\ books' = p /\ equity' = NFA(p, "BANKSYS") /\ seized' = seized + x
       /\ UNCHANGED <<full, month, debt, govtDebt, deposits, reserves, bankGB, cbGB, hhGB, rescue, lolr,
                      credited, uncounted, lent>>

-----------------------------------------------------------------------------
\* open_passthrough_books and open_full_books.
Opening ==
    LET none == EmptyBooks(Parties, Claims)
    IN IF ~full THEN Move(Move(none, "FIRM", "HH", Loan, Debt0), "GOVT", "HH", Bond, Bonds0)
       ELSE LET p1 == Move(Move(none, "FIRM", "BANKSYS", Loan, Debt0), "BANKSYS", "HH", Cash, Deposits0)
                p2 == Move(p1, "CB", "BANKSYS", Res, Reserves0)
                p3 == Move(Move(p2, "GOVT", "BANKSYS", Bond, BankBonds0), "GOVT", "CB", Bond, Reserves0)
            IN Move(p3, "GOVT", "HH", Bond, Bonds0 - BankBonds0 - Reserves0)

MoneyInit ==
    /\ full \in BOOLEAN /\ month = 0 /\ ops = 0
    /\ books = Opening /\ debt = Debt0 /\ govtDebt = Bonds0
    /\ deposits = (IF full THEN Deposits0 ELSE 0) /\ reserves = (IF full THEN Reserves0 ELSE 0)
    /\ bankGB = (IF full THEN BankBonds0 ELSE 0) /\ cbGB = (IF full THEN Reserves0 ELSE 0)
    /\ hhGB = (IF full THEN Bonds0 - BankBonds0 - Reserves0 ELSE Bonds0)
    /\ equity = (IF full THEN NFA(Opening, "BANKSYS") ELSE 0)
    /\ rescue = 0 /\ lolr = 0 /\ seized = 0 /\ credited = 0 /\ uncounted = 0 /\ lent = 0

MoneyNext ==
    \/ \E m \in Flows : Month(m)
    \/ \E x \in Rescues : SetRescue(x)
    \/ \E x \in Lolrs : SetLolr(x)
    \/ BankLoss
MoneySpec == MoneyInit /\ [][MoneyNext]_money_vars

-----------------------------------------------------------------------------
(* Properties *)

\* Types, and the ledger's own rule (assert_consistent).
MoneyTyped ==
    /\ month \in 0 .. MaxMonth /\ ops \in 0 .. MaxOps
    /\ Consistent(books, Claims)

\* The firms' debt the economy charges interest on is what they owe on the ledger,
\* but for two things: the loans an event has written off, which only the ledger knows
\* of, and the net cash a month has "written off", of which only the copy knows.
DebtMirrored == debt = seized + credited - books["FIRM"][Loan]

\* Government debt, likewise: the bonds out are those counted and those issued to
\* cover a shortfall, which govtDebt never hears of.
BondsMirrored == -books["GOVT"][Bond] = govtDebt + uncounted

\* Until a loan of last resort raises the reserves above the central bank's bonds,
\* no month leaves the government short: its deficit is what it needs.
DeficitFundsTheMonth == lent = 0 => uncounted = 0

\* The government's account is never left overdrawn, whatever was decided.
GovernmentNotOverdrawn == books["GOVT"][Cash] >= 0

\* The central bank passes on what it earns, of either sign: nothing stays with it.
CentralBankKeepsNothing == NFA(books, "CB") = 0

\* The balances the next month's interest and dividends are taken from are the
\* ledger's, after months, rescues, loans of last resort and losses.
BankSheetIsTheLedgers ==
    full => /\ deposits = -books["BANKSYS"][Cash] /\ reserves = books["BANKSYS"][Res]
            /\ bankGB = books["BANKSYS"][Bond] /\ cbGB = books["CB"][Bond]
            /\ equity = NFA(books, "BANKSYS")

\* The scalars the economy goes by are those of the ledger, and every account it
\* settles ends as its rule says.
MoneyAccounted ==
    /\ MoneyTyped /\ DebtMirrored /\ BondsMirrored /\ DeficitFundsTheMonth
    /\ GovernmentNotOverdrawn /\ CentralBankKeepsNothing /\ BankSheetIsTheLedgers
=============================================================================
