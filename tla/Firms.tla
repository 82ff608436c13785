-------------------------------- MODULE Firms --------------------------------
(***************************************************************************)
(* The life of an agent's firm: its founding and its plants                *)
(* (firms/founding.py, plants.py), its term loan and its lines             *)
(* (financing.py), its books (accounts.py), regulator and bankruptcy       *)
(* (controls.py, bankruptcy.py).  One firm in one cell; the firm of the    *)
(* registry keeps its own cash beside the ledger's.                        *)
(***************************************************************************)
EXTENDS Ledger, Sequences

CONSTANTS
    Capital,                    \* paid in by the founder
    Cell0,                      \* the cell at first: [capacity, stock]
    Sizes, UnitCost, BuildLag,  \* of plants
    Face, Tenor, Rate,          \* of a term loan; Rate is that of a year, in percent
    Committed, Uncommitted,     \* undrawn lines a month may find
    Sales, Wages, Dividends, Fines,  \* flows of a month
    Obligations,                \* <<wages, taxes, suppliers>> of a bankruptcy
    PlantRecovery, StockRecovery,   \* in percent
    Inventory, Staff,           \* at the founding
    MaxMonth, MaxOps            \* bounds: months, and operations

Firm == "FIRM"
Owner == "HH"
Npc == "NPC"
Bank == "BANKSYS"
Govt == "GOVT"
Entities == {Firm, Owner, Npc, Bank, Govt}
Instruments == {Cash, Loan, "EQ", "CAPITAL"}
NoLoan == [face |-> 0, remaining |-> 0]

ASSUME FirmsAssumption ==
    /\ Capital \in Nat \ {0} /\ Cell0.capacity \in Nat /\ Cell0.stock \in Nat
    /\ Sizes \subseteq Nat \ {0} /\ BuildLag \in Nat \ {0} /\ Tenor \in Nat \ {0}
    /\ Face \in Nat /\ Rate \in Nat /\ Committed \subseteq Nat /\ Uncommitted \subseteq Nat
    /\ UnitCost \in Nat /\ Sales \cup Wages \cup Dividends \cup Fines \subseteq Nat
    /\ Obligations \in [1 .. 3 -> Nat]
    /\ PlantRecovery \in 0 .. 100 /\ StockRecovery \in 0 .. 100
    /\ Inventory \in Nat /\ Staff \in Nat /\ MaxMonth \in Nat /\ MaxOps \in Nat

VARIABLES
    month, ops,
    pos,                        \* the books
    status, cash, staff, goods, \* the firm: its own cash, employees and inventories
    capacity, pipeline,         \* its plant, and what is being built: [months, size]
    cell,                       \* the NPC mass of the cell
    loan,                       \* the term loan
    income,                     \* the firm's income since its books were closed
    service,                    \* the last service: [op, drawn, limit], op its operation
    closing,                    \* the last close of the books: [outcome, financed]
    resolution, proceeds,       \* of the bankruptcy: recoveries and losses, by claim
    built, lines, financed      \* capacity finished, lines drawn, loans and dividends

vars == <<month, ops, pos, status, cash, staff, goods, capacity, pipeline, cell, loan,
          income, service, closing, resolution, proceeds, built, lines, financed>>

Least(x, y) == IF x =< y THEN x ELSE y
AtLeast0(x) == IF x < 0 THEN 0 ELSE x

-----------------------------------------------------------------------------
(* Founding and plants *)

Init ==
    /\ month = 0 /\ ops = 0 /\ pos = EmptyBooks(Entities, Instruments)
    /\ status = "none" /\ cash = 0 /\ staff = 0 /\ goods = 0
    /\ capacity = 0 /\ pipeline = << >> /\ cell = Cell0
    /\ loan = NoLoan /\ income = 0 /\ service = [op |-> 0, drawn |-> 0, limit |-> 0]
    /\ closing = [outcome |-> "none", financed |-> 0]
    /\ resolution = << >> /\ proceeds = 0 /\ built = 0 /\ lines = 0 /\ financed = 0

Operate == ops < MaxOps /\ ops' = ops + 1 /\ UNCHANGED month
Active == status = "active"

\* found_firm: capital against equity.
Found ==
    /\ Operate /\ status = "none"
    /\ pos' = Swap(pos, Owner, Firm, "EQ", Capital, Capital)
    /\ status' = "active" /\ cash' = Capital /\ staff' = Staff /\ goods' = Inventory
    /\ UNCHANGED <<capacity, pipeline, cell, loan, income, service, closing,
                   resolution, proceeds, built, lines, financed>>

\* buy_from_npc: existing capacity, at its replacement value.
BuyFromNpc(q) ==
    LET paid == (cell.stock * q) \div cell.capacity
    IN /\ Operate /\ Active /\ q =< cell.capacity
       /\ cell' = [capacity |-> cell.capacity - q, stock |-> cell.stock - paid]
       /\ capacity' = capacity + q /\ cash' = cash - paid
       /\ pos' = Swap(pos, Firm, Npc, "CAPITAL", paid, paid)
       /\ UNCHANGED <<status, staff, goods, pipeline, loan, income, service, closing,
                      resolution, proceeds, built, lines, financed>>

\* start_greenfield: paid now, an expense of the month; the capacity comes later.
StartGreenfield(q) ==
    /\ Operate /\ Active
    /\ pipeline' = Append(pipeline, [months |-> BuildLag, size |-> q])
    /\ cash' = cash - UnitCost * q /\ income' = income - UnitCost * q
    /\ pos' = Move(pos, Firm, Npc, Cash, UnitCost * q)
    /\ UNCHANGED <<status, staff, goods, capacity, cell, loan, service, closing,
                   resolution, proceeds, built, lines, financed>>

\* What is being built is a month older: kept, or finished.
Aged(rest, x) ==
    IF x.months > 1 THEN Append(rest, [months |-> x.months - 1, size |-> x.size]) ELSE rest
Finished(x) == IF x.months > 1 THEN 0 ELSE x.size

\* advance_construction, of any firm in the registry: what is finished is capacity.
NextMonth ==
    LET rest[k \in 0 .. Len(pipeline)] ==
            IF k = 0 THEN << >> ELSE Aged(rest[k - 1], pipeline[k])
        done[k \in 0 .. Len(pipeline)] ==
            IF k = 0 THEN 0 ELSE done[k - 1] + Finished(pipeline[k])
    IN /\ month < MaxMonth /\ month' = month + 1
       /\ pipeline' = rest[Len(pipeline)]
       /\ capacity' = capacity + done[Len(pipeline)] /\ built' = built + done[Len(pipeline)]
       /\ UNCHANGED <<ops, pos, status, cash, staff, goods, cell, loan, income, service,
                      closing, resolution, proceeds, lines, financed>>

-----------------------------------------------------------------------------
(* The books *)

\* A posting on the firm's deposits that is income, and one that is not.
Flow(p, x) == pos' = p /\ income' = income + x
Earn(x) == Flow(Move(pos, Owner, Firm, Cash, x), x)
Pay(to, x) == Flow(Move(pos, Firm, to, Cash, x), -x)

\* Sales, wages and the fines of apply_fine.
Trade ==
    /\ Operate /\ Active
    /\ \/ \E x \in Sales : Earn(x)
       \/ \E x \in Wages : Pay(Owner, x)
       \/ \E x \in Fines : Pay(Govt, x)
    /\ UNCHANGED <<status, cash, staff, goods, capacity, pipeline, cell, loan, service,
                   closing, resolution, proceeds, built, lines, financed>>

\* A dividend is not an expense.
PayDividend(x) ==
    /\ Operate /\ Active
    /\ pos' = Move(pos, Firm, Owner, Cash, x) /\ financed' = financed + x
    /\ UNCHANGED <<status, cash, staff, goods, capacity, pipeline, cell, loan, income, service,
                   closing, resolution, proceeds, built, lines>>

Assets == pos[Firm][Cash] + pos[Firm]["CAPITAL"]
Debt == AtLeast0(-pos[Firm][Loan])
Book == -pos[Firm]["EQ"]
Identity == Assets = Debt + Book

\* Faulty: what was retained is income of the next month as well.
CloseMonth_CursorStays ==
    /\ Operate /\ Active
    /\ pos' = Move(pos, Firm, Owner, "EQ", income)
    /\ closing' = [outcome |-> IF Identity' THEN "kept" ELSE "refused", financed |-> financed]
    /\ UNCHANGED <<income, status, cash, staff, goods, capacity, pipeline, cell, loan, service,
                   resolution, proceeds, built, lines, financed>>

\* close_month: the income is retained and the cursor moves; then the identity is
\* asserted, and a month that fails it is refused: it has no statement and no sheet.
CloseMonth ==
    /\ Operate /\ Active
    /\ pos' = Move(pos, Firm, Owner, "EQ", income) /\ income' = 0
    /\ closing' = [outcome |-> IF Identity' THEN "kept" ELSE "refused", financed |-> financed]
    /\ UNCHANGED <<status, cash, staff, goods, capacity, pipeline, cell, loan, service,
                   resolution, proceeds, built, lines, financed>>

-----------------------------------------------------------------------------
(* The term loan *)

Interest(l) == (l.face * Rate) \div 1200

\* Faulty: each bill finds the whole pocket.
ScalePayments_EachAlone(money, line, bills) ==
    LET take[k \in DOMAIN bills] == Least(AtLeast0(bills[k]), money + line)
        left[k \in 0 .. Len(bills)] == IF k = 0 THEN money ELSE left[k - 1] - take[k]
    IN [paid |-> take, cash |-> left[Len(bills)]]

\* scale_payments: the bills in order, out of the cash and the line; what is taken
\* of a pocket that is overdrawn already is negative.
ScalePayments(money, line, bills) ==
    LET pocket[k \in 0 .. Len(bills)] ==
            IF k = 0 THEN money + line
            ELSE pocket[k - 1] - Least(AtLeast0(bills[k]), pocket[k - 1])
    IN [paid |-> [k \in DOMAIN bills |-> Least(AtLeast0(bills[k]), pocket[k - 1])],
        cash |-> pocket[Len(bills)] - line]

\* post_loan_draw by the firm's treasurer: the loan begins.
DrawTerm ==
    /\ Operate /\ Active /\ loan.face = 0
    /\ loan' = [face |-> Face, remaining |-> Tenor]
    /\ pos' = Lend(pos, Bank, Firm, Face)
    /\ income' = income + Face /\ financed' = financed + Face
    /\ UNCHANGED <<status, cash, staff, goods, capacity, pipeline, cell, service,
                   closing, resolution, proceeds, built, lines>>

Leftover(total, rolls) == IF rolls THEN AtLeast0(total - loan.face) ELSE total

FaceLeft(principal) == loan.face - principal

\* service_term_loan: a month older; at its end the face is drawn again and repaid,
\* where the lines cover it, or it is a bill.  What the bills take beyond the cash
\* is drawn as well, and the interest and the principal they were paid are posted.
Service(committed, uncommitted, breach) ==
    LET total == IF breach THEN 0 ELSE committed + uncommitted
        left == AtLeast0(loan.remaining - 1)
        matured == left = 0
        rolls == matured /\ total >= loan.face
        rest == Leftover(total, rolls)
        bills == <<Interest(loan)>> \o (IF matured /\ ~rolls THEN <<loan.face>> ELSE << >>)
        money == pos[Firm][Cash]
        budget == ScalePayments(money, rest, bills)
        over == AtLeast0(-budget.cash) - AtLeast0(-money)
        drawn == Least(AtLeast0(over), rest)
        interest == AtLeast0(budget.paid[1])
        principal == IF Len(bills) = 2 THEN AtLeast0(budget.paid[2]) ELSE 0
    IN /\ Operate /\ Active /\ loan.face > 0
       /\ pos' = Move(Refund(Lend(pos, Bank, Firm, drawn), Firm, Bank, principal),
                      Firm, Bank, Cash, interest)
       /\ loan' = [face |-> FaceLeft(principal),
                   remaining |-> IF rolls THEN Tenor ELSE left]
       /\ income' = income + drawn - principal - interest
       /\ financed' = financed + drawn - principal
       /\ lines' = lines + drawn
       /\ service' = [op |-> ops', drawn |-> drawn + (IF rolls THEN loan.face ELSE 0),
                      limit |-> total]
       /\ UNCHANGED <<status, cash, staff, goods, capacity, pipeline, cell, closing,
                      resolution, proceeds, built>>

-----------------------------------------------------------------------------
(* Bankruptcy *)

Claims == <<Obligations[1], Obligations[2], Debt, Obligations[3]>>
Creditor == <<Owner, Govt, Bank, Npc>>
BankClaim == 3

\* The claims in their order, out of the proceeds.
Waterfall(pot) ==
    LET left[k \in 0 .. 4] ==
            IF k = 0 THEN pot ELSE left[k - 1] - Least(Claims[k], left[k - 1])
        take(k) == Least(Claims[k], left[k - 1])
    IN [k \in 1 .. 4 |-> [paid |-> take(k), lost |-> Claims[k] - take(k)]]

\* should_resolve: the equity has been negative for three months, as the caller has
\* it (red), or the firm's own cash and its line do not cover what is due.
ShouldResolve(due, red, line) == red >= 3 \/ cash + line < due

\* resolve: the plants go to the mass, which borrows for them; the claims are paid,
\* out of the value of the goods as well, and what the bank loses is written off.
\* What is being built stays in the pipeline.
Resolve(due, red, line) ==
    LET plants == IF cell.capacity = 0 THEN 0
                  ELSE (capacity * cell.stock * PlantRecovery) \div (cell.capacity * 100)
        rows == Waterfall(plants + (goods * StockRecovery) \div 100)
        sold == Move(Lend(pos, Bank, Npc, plants), Npc, Firm, Cash, plants)
        paid[k \in 0 .. 4] ==
            IF k = 0 THEN sold ELSE Move(paid[k - 1], Firm, Creditor[k], Cash, rows[k].paid)
    IN /\ Operate /\ Active /\ ShouldResolve(due, red, line)
       /\ pos' = Move(paid[4], Bank, Firm, Loan, rows[BankClaim].lost)
       /\ cell' = [capacity |-> cell.capacity + capacity, stock |-> cell.stock + plants]
       /\ capacity' = 0 /\ staff' = 0 /\ goods' = 0 /\ status' = "liquidated"
       /\ resolution' = rows /\ proceeds' = plants
       /\ UNCHANGED <<cash, pipeline, loan, income, service, closing, built, lines, financed>>

Next ==
    \/ Found \/ NextMonth \/ Trade \/ CloseMonth \/ DrawTerm
    \/ \E q \in Sizes : BuyFromNpc(q) \/ StartGreenfield(q)
    \/ \E x \in Dividends : PayDividend(x)
    \/ \E c \in Committed, u \in Uncommitted, breach \in BOOLEAN : Service(c, u, breach)
    \/ \E due \in {Capital}, red \in {0, 3}, line \in Uncommitted : Resolve(due, red, line)
Spec == Init /\ [][Next]_vars

-----------------------------------------------------------------------------
(* Properties *)

\* Types.
TypeOK ==
    /\ month \in 0 .. MaxMonth /\ ops \in 0 .. MaxOps
    /\ status \in {"none", "active", "liquidated"}
    /\ capacity \in Nat /\ staff \in Nat /\ goods \in Nat
    /\ cell.capacity \in Nat /\ cell.stock \in Nat
    /\ loan.face \in Nat /\ loan.remaining \in 0 .. Tenor /\ built \in Nat

\* Every posting has its other side, in whatever order the firm draws, pays, is
\* served and is resolved (assert_consistent).
LedgerConsistent == Consistent(pos, {Cash, Loan, "EQ"})

\* Capacity is bought, built and taken over, never lost or doubled: mass and firm
\* have what the cell began with and what was finished (CellBook.total_capacity).
CapacityConserved == cell.capacity + capacity = Cell0.capacity + built

\* What the bank lost in the bankruptcy, and what the creditors were paid beyond
\* what the plants brought in.
Lost == IF resolution = << >> THEN 0 ELSE resolution[BankClaim].lost
PaidOut == IF resolution = << >> THEN 0
           ELSE resolution[1].paid + resolution[2].paid + resolution[3].paid + resolution[4].paid
                - proceeds

\* The firm owes the face of its loan and the lines it has drawn, less what the bank
\* has written off: a face goes down only with cash that went to the bank, a wall
\* that was rolled added nothing, and what the waterfall paid the bank is owed still.
LoanExplained == -pos[Firm][Loan] = loan.face + lines - Lost

\* What a service draws, the wall it rolls and the bills it covers, fits the lines
\* of the month.
DrawnWithinCapacity == service.drawn =< service.limit

\* A service never leaves the firm deeper in the red than it was (the hard budget).
ServiceKeepsBudget ==
    [][service' # service => pos'[Firm][Cash] >= Least(pos[Firm][Cash], 0)]_vars

\* The identity of the balance sheet is off by the income of the open month, and
\* by the loans and dividends of the firm's life and what its bankruptcy paid out
\* and wrote off, and by nothing else.
GapExplained == Assets - Debt - Book = income - financed - PaidOut + Lost

\* A month is refused (the assertion of close_month) whenever the loans drawn, repaid
\* and the dividends of the firm's life up to then do not cancel, and only then.
RefusedWhenFinanced == closing.outcome = "refused" <=> closing.financed # 0

\* What a bankruptcy pays without the cash for it (nobody buys the goods) is at most
\* what the goods of the founding recover.
CashlessBounded == PaidOut =< (Inventory * StockRecovery) \div 100

\* A claim is paid only when those before it are paid in full.
SeniorityKept ==
    \A j, k \in DOMAIN resolution : (j < k /\ resolution[k].paid > 0) => resolution[j].lost = 0

\* What a firm has, owes and may draw is explained by what happened to it, its
\* capacity by what it built, and its creditors are paid in order.
BooksExplained ==
    /\ TypeOK /\ LedgerConsistent /\ CapacityConserved /\ LoanExplained
    /\ DrawnWithinCapacity /\ GapExplained /\ RefusedWhenFinanced /\ CashlessBounded
    /\ SeniorityKept
=============================================================================
