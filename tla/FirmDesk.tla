------------------------------- MODULE FirmDesk -------------------------------
(* What the operator of a firm may ask, borrow and say: the limits of a         *)
(* decision (firms/levers.py), rating, credit line, covenants and the tax of a  *)
(* month (firms/rating.py, financing.py), and the reports that others see later *)
(* (firms/reports.py).  A decision is validated against the firm as it is then, *)
(* and nothing follows from it here.  Prices are on a logarithmic grid; money   *)
(* is whole, ratios are in hundredths.                                          *)
EXTENDS Integers, Sequences, FiniteSetsExt, Functions

CONSTANTS
    Operators, None,
    PriceStep, PriceFloor,      \* of a price, in grid steps: a month, below the reference
    Overtime, HireShare, GrowthCap,     \* percent
    CoverMax, OrderCap, PremiumMax,
    Soft, Hard, Line,           \* ND/EBITDA; the line in percent of the replacement value
    Multiplier,                 \* percent, by rating 1..7
    MonthlyLag, QuarterlyLag, DaysPerMonth,
    Asked,                      \* what may be asked of a lever
    Standings, References, Unemployed,  \* what a call finds: the firm, p_ref, the region
    Conditions,                 \* what a rating finds: [nd, icr, size, vol, ebitda, plant, gate]
    Ebts,                       \* of a month
    Professional,
    MaxTick, MaxDecisions       \* bounds

LeverOf == [posted_price |-> "pricing", target_output |-> "production",
            vacancies |-> "labour", wage_offer |-> "labour", layoffs |-> "labour",
            input_cover_m |-> "procurement", order_mult |-> "procurement",
            shortage_premium |-> "procurement", expand_capacity |-> "capex",
            new_plant |-> "capex", rnd_spend |-> "capex", borrow |-> "financing",
            repay |-> "financing", dividend |-> "financing", treasury_enabled |-> "treasury",
            liquidate |-> "exit"]
Fields == DOMAIN LeverOf
Levers == {LeverOf[f] : f \in Fields}

ASSUME FirmDeskAssumption ==
    /\ {PriceStep, PriceFloor, Overtime, HireShare, GrowthCap, Soft, Hard, Line} \subseteq Nat
    /\ Soft <= Hard /\ Overtime >= 100 /\ {CoverMax, OrderCap, PremiumMax} \subseteq Nat
    /\ DaysPerMonth \in Nat \ {0} /\ Professional \in BOOLEAN
    /\ Multiplier \in [1 .. 7 -> Nat]     \* as configured: a worse letter has no larger line
    /\ \A k, l \in 1 .. 7 : k <= l => Multiplier[l] <= Multiplier[k]
    /\ {MonthlyLag, QuarterlyLag} \subseteq Nat /\ MonthlyLag <= QuarterlyLag
    /\ Asked \cup References \cup Unemployed \cup Ebts \subseteq Int
    /\ Standings \subseteq [price : Int, plant : Nat, employees : Nat, limit : Int, drawn : Nat]
    /\ Conditions \subseteq [nd : Int, icr : Int, size : Int, vol : Int, ebitda : Int,
                              plant : Int, gate : Int]
    /\ None \notin Nat /\ MaxTick \in Nat /\ MaxDecisions \in Nat

VARIABLES tick, operator,
          answer,               \* to the last decision, with what it was validated against
          rated,                \* the ratings given: [of, letter, drawable]
          carry, taxed, earned, \* losses carried forward; what was taxed and earned so far
          sheets, quarterEnd,   \* reports: ticks of the months' sheets, of the last quarter's
          decisions
desk_vars == <<tick, operator, answer, rated, carry, taxed, earned, sheets, quarterEnd, decisions>>

OrZero(x) == IF x < 0 THEN 0 ELSE x
Lesser(x, y) == IF x <= y THEN x ELSE y
Greater(x, y) == IF x <= y THEN y ELSE x
Clip(lo, hi, x) == Lesser(hi, Greater(lo, x))
-----------------------------------------------------------------------------
(* Decisions *)

HireCap(unemployed) == (HireShare * unemployed) \div 100
\* The limits of a field, given what was asked, of the firm as it is: some have none.
Limits(f, x, firm, ref, unemployed) ==
    CASE f = "posted_price" -> <<Greater(ref - PriceFloor, firm.price - PriceStep), firm.price + PriceStep>>
      [] f = "target_output" -> <<0, (firm.plant * Overtime) \div 100>>
      [] f = "vacancies" -> <<0, IF HireShare * unemployed > 0 THEN HireCap(unemployed) ELSE x>>
      [] f = "layoffs" -> <<0, firm.employees>>
      [] f = "input_cover_m" -> <<0, CoverMax>>
      [] f = "order_mult" -> <<0, OrderCap>>
      [] f = "shortage_premium" -> <<0, PremiumMax>>
      [] f = "expand_capacity" ->
            <<0, IF GrowthCap * firm.plant > 0 THEN (GrowthCap * firm.plant) \div 100 ELSE x>>
      [] f = "borrow" -> <<0, OrZero(firm.limit - firm.drawn)>>
      [] f = "repay" -> <<0, firm.drawn>>
      [] f \in {"wage_offer", "rnd_spend", "dividend"} -> <<0, OrZero(x)>>
      [] OTHER -> <<x, x>>
\* Two fields are cut without a word.
Reported == Fields \ {"rnd_spend", "dividend"}

\* validate_decision: what is granted, what was adjusted, and what the autopilot keeps.
Validated(request, firm, ref, unemployed) ==
    LET granted == [f \in DOMAIN request |->
                        LET b == Limits(f, request[f], firm, ref, unemployed)
                        IN  Clip(b[1], b[2], request[f])]
    IN  [granted |-> granted,
         adjusted |-> {f \in DOMAIN request \cap Reported : granted[f] # request[f]},
         autopilot |-> Levers \ {LeverOf[f] : f \in DOMAIN request}]
NoAnswer == [verdict |-> "none"]
Refused == [verdict |-> "refused"]

\* A decision is validated, that of anybody but the operator refused; the firm is as
\* the call finds it, and stays so: nothing of a decision is left for the next (the bound:
\* one decision, or some ratings).
Decide(who, request, firm, ref, unemployed) ==
    /\ decisions = 0 /\ decisions' = MaxDecisions
    /\ answer' = IF who # operator THEN Refused
                 ELSE [verdict |-> "validated", firm |-> firm, ref |-> ref, unemployed |-> unemployed,
                       of |-> Validated(request, firm, ref, unemployed)]
    /\ UNCHANGED <<tick, operator, rated, carry, taxed, earned, sheets, quarterEnd>>
-----------------------------------------------------------------------------
(* Credit and tax *)

\* letter_from_nd: worse for every unit above the first.
Letter(nd) == Lesser(7, Greater(1, -((-nd) \div 100)))
\* score_rating: worse by two for an interest cover below one, by one below two; by one
\* for a firm that is small, and for earnings that swing.
Worse(c) == (IF c.icr < 100 THEN 2 ELSE IF c.icr < 200 THEN 1 ELSE 0)
            + (IF c.size < 100 THEN 1 ELSE 0) + (IF c.vol > 30 THEN 1 ELSE 0)
Rating(c) == Lesser(7, Letter(c.nd) + Worse(c))
\* credit_limit, in hundredths of hundredths.
CreditLimit(c) ==
    Lesser(Hard * 100 * OrZero(c.ebitda), Line * OrZero(c.plant))
        * (OrZero(c.gate) * Multiplier[Rating(c)])
\* check_covenants: net debt above the soft norm, or interest cover below 1.5.
Breach(c) == c.nd > 100 * Soft \/ c.icr < 150
\* total_drawable, of a firm without a committed line.
Drawable(c) == IF Breach(c) THEN 0 ELSE CreditLimit(c)
Score(c) ==
    /\ decisions < MaxDecisions /\ decisions' = decisions + 1
    /\ rated' = Append(rated, [of |-> c, letter |-> Rating(c), drawable |-> Drawable(c)])
    /\ UNCHANGED <<tick, operator, answer, carry, taxed, earned, sheets, quarterEnd>>

\* Faulty: losses carried forward are not used up.
Tax_Twice(ebt) == IF ebt < 0 THEN <<0, carry - ebt>> ELSE <<ebt - Lesser(carry, ebt), carry>>
\* apply_tax: what of the month's earnings is taxed, and the losses that are left.
Tax(ebt) == IF ebt < 0 THEN <<0, carry - ebt>>
            ELSE <<ebt - Lesser(carry, ebt), carry - Lesser(carry, ebt)>>

QuarterEnd(t) == t % (3 * DaysPerMonth) = 3 * DaysPerMonth - 1
\* The last day of a month: its tax, and its sheet.
CloseBooks(ebt) ==
    /\ tick % DaysPerMonth = DaysPerMonth - 1
    /\ tick \notin Range(sheets)
    /\ carry' = Tax(ebt)[2] /\ taxed' = taxed + Tax(ebt)[1] /\ earned' = earned + ebt
    /\ sheets' = Append(sheets, tick)
    /\ quarterEnd' = IF QuarterEnd(tick) THEN tick ELSE quarterEnd
    /\ UNCHANGED <<tick, operator, answer, rated, decisions>>
-----------------------------------------------------------------------------
(* Reports *)

\* observe: the operator sees the books; others the last sheet that is old enough.
Shown(viewer, t) ==
    IF viewer = operator THEN "live"
    ELSE LET old == {i \in DOMAIN sheets : t - sheets[i] >= MonthlyLag}
         IN  IF old = {} THEN None ELSE sheets[Max(old)]
\* From the end of a quarter to its publication nobody inside trades the shares.
CanTrade(t) == ~Professional \/ quarterEnd = None \/ t >= quarterEnd + QuarterlyLag

Day == /\ tick < MaxTick /\ tick' = tick + 1
       /\ tick % DaysPerMonth = DaysPerMonth - 1 => tick \in Range(sheets)
       /\ UNCHANGED <<operator, answer, rated, carry, taxed, earned, sheets, quarterEnd, decisions>>
\* Control passes to another (ControlDesk).
HandOver(to) ==
    /\ tick % DaysPerMonth = 0 /\ to # operator /\ operator' = to
    /\ UNCHANGED <<tick, answer, rated, carry, taxed, earned, sheets, quarterEnd, decisions>>

DeskInit ==
    /\ tick = 0 /\ operator \in Operators /\ answer = NoAnswer /\ rated = <<>>
    /\ carry = 0 /\ taxed = 0 /\ earned = 0 /\ sheets = <<>> /\ quarterEnd = None /\ decisions = 0
Requests == UNION {[fs -> Asked] : fs \in {{f} : f \in Fields} \cup {{"borrow", "repay"}}}
DeskNext ==
    \/ \E who \in Operators, request \in Requests, firm \in Standings, ref \in References, u \in Unemployed :
            Decide(who, request, firm, ref, u)
    \/ \E c \in Conditions : Score(c)
    \/ \E ebt \in Ebts : CloseBooks(ebt)
    \/ Day
    \/ \E to \in Operators : HandOver(to)
DeskSpec == DeskInit /\ [][DeskNext]_desk_vars
-----------------------------------------------------------------------------
Granted(v, f, otherwise) == IF f \in DOMAIN v.granted THEN v.granted[f] ELSE otherwise
\* What is granted can be carried out, whatever is asked: no more is dismissed than there
\* are, a draw and a repayment taken together leave what the line or the debt allows; and a
\* price moves by no more than a step, and is below its floor only on its way back up to it,
\* when the reference has run away from it.
GrantsWithinMeans ==
    answer.verdict = "validated" =>
        LET firm == answer.firm
            price == Granted(answer.of, "posted_price", firm.price)
            after == firm.drawn + Granted(answer.of, "borrow", 0) - Granted(answer.of, "repay", 0)
        IN  /\ Granted(answer.of, "layoffs", 0) \in 0 .. firm.employees
            /\ after >= 0 /\ after <= Greater(firm.limit, firm.drawn)
            /\ firm.price - PriceStep <= price /\ price <= firm.price + PriceStep
            /\ "posted_price" \in DOMAIN answer.of.granted /\ price < answer.ref - PriceFloor
                    => price = firm.price + PriceStep
\* A decision handed in again as it was granted, to the same firm, is granted as it stands and
\* nothing of it is adjusted.
GrantedAsItStands ==
    answer.verdict = "validated" =>
        LET again == Validated(answer.of.granted, answer.firm, answer.ref, answer.unemployed)
        IN  again.granted = answer.of.granted /\ again.adjusted = {}
\* A firm no better than another in anything is rated no better, and may draw no more.
NoBetter(d, c) ==
    /\ c.nd <= d.nd /\ d.icr <= c.icr /\ d.size <= c.size /\ c.vol <= d.vol
    /\ d.ebitda <= c.ebitda /\ d.plant <= c.plant /\ d.gate <= c.gate
RatedInOrder ==
    \A i, j \in DOMAIN rated :
        NoBetter(rated[j].of, rated[i].of) =>
            rated[i].letter <= rated[j].letter /\ rated[j].drawable <= rated[i].drawable
\* Of everything the firm ever earned, losses included, what is not taxed is carried forward.
TaxedOnce == taxed = earned + carry /\ carry >= 0
\* Who may trade the shares of the firm knows nothing of its quarter that others do not see.
InsidersWait ==
    CanTrade(tick) /\ Professional /\ quarterEnd # None =>
        \A v \in Operators \ {operator} : Shown(v, tick) # None /\ Shown(v, tick) >= quarterEnd
\* A validated decision can be carried out and stands, ratings follow the firm, losses are used
\* once, and insiders wait.
DecisionsChecked ==
    GrantsWithinMeans /\ GrantedAsItStands /\ RatedInOrder /\ TaxedOnce /\ InsidersWait
=============================================================================
