------------------------------- MODULE Explain -------------------------------
(* The two explanations a world gives: what changed the quantity sold of a    *)
(* good, factor by factor, and what moved the price of an asset, part by      *)
(* part.  A reader asks again and again, each time from where the last        *)
(* question ended (explain/traces.py, the explain routes of api/rest.py).     *)
(*                                                                            *)
(* A factor is a power of two or zero, so that its logarithm is a number; the *)
(* logs are counted in doublings.  Sums and products are then exact, and the  *)
(* residuals stand for what TRACE_ATOL lets pass in floats.                   *)
EXTENDS Integers, Functions, TLC

CONSTANTS
    CellKeys,      \* factors of the demand of a cell
    ShareKeys,     \* factors of the share of a firm in it
    Rationing,     \* what was served of it
    DemandLevels,  \* the values a factor may have
    Assets,        \* [ee, pe0, rho, g, impact, sentiment, noise]: one asset at one time
    Start,         \* the asset at the first question
    Duration,      \* years, the same in every question
    MaxAsked,      \* bound: questions
    None

Keys == CellKeys \cup ShareKeys \cup {Rationing}
Factors == [Keys -> DemandLevels]

LevelsAssumption ==
    /\ \A x \in DemandLevels : x = 0 \/ \E n \in 0..8 : x = 2^n
    /\ \A a \in Assets : \A x \in {a.ee, a.pe0} : x = 0 \/ \E n \in 0..8 : x = 2^n
    /\ Start \in Assets /\ Start.ee > 0 /\ Start.pe0 > 0

VARIABLES
    factors,  \* the demand of the last answer
    change,   \* DemandChangeView of the last question, None before it
    parts,    \* the reader's sum of the log-changes, factor by factor
    asset,    \* the asset of the last answer
    quote,    \* ReturnTraceView of the last question; refused: status 422
    gained,   \* the reader's sum of the answers
    positive, \* no factor has been zero so far
    asked     \* questions so far

vars == <<factors, change, parts, asset, quote, gained, positive, asked>>

Product(f, S) == FoldFunctionOnSet(LAMBDA x, y : x * y, 1, f, S)
SumOver(f, S) == FoldFunctionOnSet(LAMBDA x, y : x + y, 0, f, S)
Log2(x) == CHOOSE n \in 0..40 : 2^n = x

-----------------------------------------------------------------------------
(* Demand: qty = cell_demand * share * rationing. *)

DemandTrace(f) ==
    LET cell  == Product(f, CellKeys)
        share == Product(f, ShareKeys)
    IN  [factor |-> f, cell_demand |-> cell, share |-> share, qty |-> cell * share * f[Rationing]]

\* demand_identity_gap: by how much the product of all factors misses the quantity.
DemandGap(t) ==
    LET off == Product(t.factor, Keys) - t.qty
    IN  IF off < 0 THEN -off ELSE off

\* _demand_view: what GET and POST explain/demand answer.
DemandView(f) ==
    LET t == DemandTrace(f)
    IN  [qty |-> t.qty, residual |-> DemandGap(t), identity_ok |-> DemandGap(t) = 0]

\* _dlog: the change of what is or was not positive is zero.
Dlog(new, old) == IF old <= 0 \/ new <= 0 THEN 0 ELSE Log2(new) - Log2(old)

DemandChange(before, after) ==
    [factor     |-> [k \in Keys |-> Dlog(after.factor[k], before.factor[k])],
     dlog_cell  |-> Dlog(after.cell_demand, before.cell_demand),
     dlog_share |-> Dlog(after.share, before.share),
     dlog_qty   |-> Dlog(after.qty, before.qty)]

\* check_demand_change: the whole, the cell and the share each add up.
AddsUp(p) ==
    /\ SumOver(p.factor, Keys) = p.dlog_qty
    /\ SumOver(p.factor, CellKeys) = p.dlog_cell
    /\ SumOver(p.factor, ShareKeys) = p.dlog_share

\* post_demand_change: when the check fails, the residual is that of the whole only.
ChangeView(before, after) ==
    LET p   == DemandChange(before, after)
        off == SumOver(p.factor, Keys) - p.dlog_qty
        gap == IF AddsUp(p) THEN 0 ELSE IF off < 0 THEN -off ELSE off
    IN  [parts |-> p, residual |-> gap, identity_ok |-> gap = 0]

Ones == [k \in Keys |-> 1]

AskDemand ==
    /\ asked < MaxAsked
    /\ \E f \in Factors :
         LET view == ChangeView(DemandTrace(factors), DemandTrace(f))
         IN  /\ factors' = f
             /\ change' = view @@ [shown |-> DemandView(f)]
             /\ parts' = [k \in Keys |-> parts[k] + view.parts.factor[k]]
             /\ positive' = (positive /\ \A k \in Keys : f[k] > 0)
    /\ asked' = asked + 1
    /\ UNCHANGED <<asset, quote, gained>>

-----------------------------------------------------------------------------
(* Returns: dln_p = dln_v + dxi. *)

ReturnTrace(a, b) ==
    LET earnings  == Log2(b.ee) - Log2(a.ee)
        pe0       == Log2(b.pe0) - Log2(a.pe0)
        discount  == -(Duration * (b.rho - a.rho))
        growth    == Duration * (b.g - a.g)
        dln_v     == earnings + pe0 + discount + growth
        impact    == b.impact - a.impact
        sentiment == b.sentiment - a.sentiment
        noise     == b.noise - a.noise
        dxi       == impact + sentiment + noise
    IN  [earnings |-> earnings, pe0 |-> pe0, discount |-> discount, growth |-> growth,
         dln_v |-> dln_v, impact |-> impact, sentiment |-> sentiment, noise |-> noise,
         dxi |-> dxi, dln_p |-> dln_v + dxi]

\* return_identity_gap, signed: the parts against the sum.
ReturnGap(t) ==
    t.earnings + t.pe0 + t.discount + t.growth + t.impact + t.sentiment + t.noise - t.dln_p

\* _return_view: the levels of earnings and multiple must be positive.
Refused(a, b) == \E x \in {a.ee, b.ee, a.pe0, b.pe0} : x <= 0

AskReturn ==
    /\ asked < MaxAsked
    /\ \E b \in Assets :
         IF Refused(asset, b)
         THEN quote' = [status |-> 422] /\ UNCHANGED <<asset, gained>>
         ELSE LET t == ReturnTrace(asset, b)
              IN  /\ quote' = [status |-> 200, dln_p |-> t.dln_p, identity_ok |-> ReturnGap(t) = 0]
                  /\ asset' = b
                  /\ gained' = gained + t.dln_p
    /\ asked' = asked + 1
    /\ UNCHANGED <<factors, change, parts, positive>>

\* GET explain: every factor one, every difference zero.
Init ==
    /\ factors = Ones /\ change = None /\ parts = [k \in Keys |-> 0]
    /\ asset = Start /\ quote = None /\ gained = 0
    /\ positive = TRUE /\ asked = 0

Next == AskDemand \/ AskReturn

Spec == Init /\ [][Next]_vars

-----------------------------------------------------------------------------
TypeOK ==
    /\ factors \in Factors /\ parts \in [Keys -> Int]
    /\ asset \in Assets /\ gained \in Int /\ asked \in 0..MaxAsked

\* A change that is not marked exact had a factor at zero before or after; one that is has parts
\* that add up to the change of the quantity.  Without a zero, what each factor did in the questions
\* so far is what it did over all of them, and together they are what happened to the quantity
\* (demand_change, post_demand_change).  The answers about the asset add up to the price change
\* over the questions that were answered, the refused ones in between (_return_view).
ExplanationsAddUp ==
    /\ change /= None =>
         IF change.identity_ok
         THEN SumOver(change.parts.factor, Keys) = change.parts.dlog_qty
         ELSE ~positive
    /\ positive =>
         /\ \A k \in Keys : parts[k] = Log2(factors[k])
         /\ SumOver(parts, Keys) = Log2(DemandTrace(factors).qty)
    /\ gained = ReturnTrace(Start, asset).dln_p
=============================================================================
