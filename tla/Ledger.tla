------------------------------- MODULE Ledger -------------------------------
(***************************************************************************)
(* The books (ledger/journal.py): pos[entity][instrument], an asset        *)
(* positive and a liability negative, and the postings the engine makes on *)
(* them.  A posting is a set of bilateral moves, so post never has one to  *)
(* refuse; amounts are whole numbers.                                      *)
(***************************************************************************)
EXTENDS Integers, FiniteSets, FiniteSetsExt

Cash == "DEP"
Loan == "LOAN"

\* Ledger.empty, with every entity and instrument registered.
EmptyBooks(E, I) == [e \in E |-> [i \in I |-> 0]]

\* post: from gives x of an instrument to another entity.
Move(p, from, to, i, x) == [p EXCEPT ![from][i] = @ - x, ![to][i] = @ + x]

\* q of an instrument against cash.
Swap(p, buyer, seller, i, q, cash) ==
    Move(Move(p, seller, buyer, i, q), buyer, seller, Cash, cash)

\* A loan with its cash, and the repayment of one.
Lend(p, lender, borrower, x) ==
    Move(Move(p, borrower, lender, Loan, x), lender, borrower, Cash, x)
Refund(p, borrower, lender, x) == Lend(p, borrower, lender, x)

\* Everyone gets d in cash for each unit of an instrument it holds, and pays it
\* for each unit it is short.
PerUnit(p, i, d) == [e \in DOMAIN p |-> [p[e] EXCEPT ![Cash] = @ + p[e][i] * d]]

\* The sums of what f has for the members of a set, of every subset of its domain.
SumsOf(f) ==
    LET sum[E \in SUBSET DOMAIN f] ==
            IF E = {} THEN 0
            ELSE LET e == CHOOSE e \in E : TRUE IN f[e] + sum[E \ {e}]
    IN sum
SumOver(f, K) == SumsOf(f)[K]

\* _assert_instrument_sums: every financial instrument is somebody's liability.
Sums(p, i) == SumsOf([e \in DOMAIN p |-> p[e][i]])
Total(p, i) == Sums(p, i)[DOMAIN p]
Consistent(p, I) == \A i \in I : Total(p, i) = 0
=============================================================================
