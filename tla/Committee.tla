------------------------------ MODULE Committee ------------------------------
(***************************************************************************)
(* The central bank's committee (real/policy/monetary_rule.py,             *)
(* real/cenbank.py) inside the months of the economy (real/economy.py):    *)
(* the calendar of meetings, decisions on published figures, the announced *)
(* rate, the floor, statements and minutes.                                *)
(*                                                                         *)
(* Rates are whole basis points; a month's true figures are one number,    *)
(* its slack, which unemployment and the gap show with their own lags.     *)
(***************************************************************************)
EXTENDS Integers, FiniteSets, Sequences, SequencesExt

CONSTANTS
    Calendar,               \* months of the year with a meeting, 0 not one of them
    Figures,                \* what a month's slack may be
    Lag, GapLag, Keep,      \* publication lags; months of true figures kept
    Neutral, PerPoint,      \* the rule's target without slack; per point of it
    Rho,                    \* smoothing per meeting, in %
    Grid, Deadband, Floor,  \* of the announced rate; lower bound
    Cred, Guided,           \* credibility of guidance in %; the path's first rate
    Rates,                  \* the rates a policymaker may set
    Recent, Past, Kept,     \* months of the mean, of the whole window, kept
    Trigger, Cut, Fade,     \* a rise of unemployment that counts; the cut, and its months
    Leak, Clip, PerGap,     \* of the price-level gap, in %; its bound; makeup per point
    Dots,                   \* meetings a projection looks ahead
    Seeds, Noise,           \* of the dots: what a seed adds to that for the n-th decision; its bound
    Blackout,               \* months before a meeting in which nothing is said
    MaxMonth, MaxSets       \* bounds

VARIABLES
    month,
    rule, ann, rate,        \* r_rule, framework.r_ann, r
    true, seen,             \* kept figures; what the committee sees
    strategy,               \* [plevel, hist, risk, residual]
    lever, guidance, sets,  \* the policymaker's rate, 0 without; guidance given?
    seed, meetings,         \* meeting_n, the decisions so far
    pending,                \* minutes to come: [after, of], of 0 without
    news,                   \* statements and minutes published
    all                     \* every figure so far

vars == <<month, rule, ann, rate, true, seen, strategy, lever, guidance, sets, seed, meetings, pending, news, all>>

Most(x, y) == IF x >= y THEN x ELSE y
Least(x, y) == IF x =< y THEN x ELSE y

-----------------------------------------------------------------------------
(* The rule *)

\* is_meeting_month.
IsMeeting(m) == (m % 12) \in Calendar

\* Faulty: the newest figure counts as published.
Vintage_Latest(fig, lag, default) == IF fig = << >> THEN default ELSE Last(fig)

\* information_set: the figure of some months ago, where there is one.
Vintage(fig, lag, default) == IF Len(fig) > lag THEN fig[Len(fig) - lag] ELSE default

\* The newest months of the figures.
LastOf(s, n) == IF Len(s) > n THEN SubSeq(s, Len(s) - n + 1, Len(s)) ELSE s
Newest(fig) == LastOf(fig, Keep)

\* What the committee sees in a month of slack f.
Info(fig, f) == [u |-> Vintage(fig, Lag, f), gap |-> Vintage(fig, GapLag, 0)]

\* step_plevel_gap: slack keeps prices below their path, by as much.
Leaked(plevel, u) ==
    LET next == (Leak * plevel) \div 100 - u
    IN IF next > Clip THEN Clip ELSE IF next < -Clip THEN -Clip ELSE next

\* The recent mean is above the lowest of the months before it by the trigger.
Rose(recent, before) ==
    \E low \in Range(before) :
        /\ \A x \in Range(before) : low =< x
        /\ FoldLeft(+, 0, recent) >= Len(recent) * (low + Trigger)

\* sahm_risk_off: a cut that has begun fades out, whatever happens meanwhile.
RiskOff(hist, residual) ==
    LET n == Len(hist)
    IN IF residual > 0 THEN [risk |-> residual, residual |-> Most(0, residual - Cut \div Fade)]
       ELSE IF n >= Past /\ Rose(SubSeq(hist, n - Recent + 1, n), SubSeq(hist, n - Past + 1, n - Recent))
       THEN [risk |-> Cut, residual |-> Cut - Cut \div Fade]
       ELSE [risk |-> 0, residual |-> 0]

\* update_strategy, every month.
Strategy(s, info) ==
    LET hist == LastOf(Append(s.hist, info.u), Kept)
        off == RiskOff(hist, s.residual)
    IN [plevel |-> Leaked(s.plevel, info.u), hist |-> hist, risk |-> off.risk, residual |-> off.residual]

\* reaction_target.
Target(info, s) == Neutral - PerPoint * (info.u + info.gap) + PerGap * s.plevel - s.risk
Smoothed(r, target) == (Rho * r + (100 - Rho) * target) \div 100

\* grid_rate and announce: the rate on the grid, unless it is too near the old one.
OnGrid(x) == ((2 * x + Grid) \div (2 * Grid)) * Grid
Announced(r, old) ==
    IF OnGrid(r) - old >= Deadband \/ old - OnGrid(r) >= Deadband THEN OnGrid(r) ELSE old

\* elb_toolkit, _apply_elb: below the floor guidance speaks, and the floor binds.
Applied(shadow) ==
    IF shadow < Floor /\ guidance
    THEN Most(Floor, (Cred * Guided + (100 - Cred) * shadow) \div 100)
    ELSE Most(Floor, shadow)

-----------------------------------------------------------------------------
(* One month: maybe_meet, then what the economy publishes of it *)

\* A meeting, by the calendar.
Meets(m) == IsMeeting(m)

\* The month's rates: set by the policymaker, decided, or as announced before.
Decision(target) ==
    LET r == Smoothed(rule, target)
    IN IF ~Meets(month) THEN [rule |-> rule, ann |-> ann, met |-> FALSE, rate |-> Applied(ann)]
       ELSE IF lever > 0 THEN [rule |-> lever, ann |-> lever, met |-> FALSE, rate |-> Most(Floor, lever)]
       ELSE [rule |-> r, ann |-> Announced(r, ann), met |-> TRUE, rate |-> Applied(Announced(r, ann))]

\* committee_draw: the same in every statement that looks to the n-th decision.
Draw(n) == seed[n]

\* projection_path: what the next meetings announce if the target stays, each with
\* the noise of its decision, which is not carried on.
Path(d, target) ==
    LET at[n \in 0 .. Dots] ==
            IF n = 0 THEN [rule |-> d.rule, ann |-> d.ann]
            ELSE LET r == Smoothed(at[n - 1].rule, target)
                 IN [rule |-> r, ann |-> Announced(r, at[n - 1].ann)]
    IN [n \in 1 .. Dots |-> at[n].ann + Draw(meetings + 1 + n)]

Statement(d, target) ==
    [kind |-> "statement", month |-> month, of |-> month, rate |-> d.ann,
     target |-> target, dots |-> Path(d, target)]

\* in_blackout.  The economy asks it with the bank's month, which has been counted by
\* then: what it looks at is the month after the next one.
Silent(m) == \E k \in 1 .. Blackout : IsMeeting(m + k)

Told(d, target) == Statement(d, target)

\* A new decision replaces the minutes still to come; then those that are due are
\* published, unless a meeting is near.
Month(f) ==
    LET fig == Newest(Append(true, f))
        info == Info(fig, f)
        plan == Strategy(strategy, info)
        target == Target(info, plan)
        d == Decision(target)
        due == IF d.met THEN [after |-> month + 1, of |-> month] ELSE pending
        out == due.of > 0 /\ month >= due.after /\ ~Silent(month + 1)
    IN /\ month < MaxMonth /\ month' = month + 1
       /\ true' = fig /\ all' = Append(all, f) /\ seen' = info /\ strategy' = plan
       /\ rule' = d.rule /\ ann' = d.ann /\ rate' = d.rate
       /\ news' = news \o (IF d.met THEN <<Told(d, target)>> ELSE << >>)
                       \o (IF out THEN <<[kind |-> "minutes", month |-> month, of |-> due.of]>> ELSE << >>)
       /\ pending' = IF out THEN [after |-> 0, of |-> 0] ELSE due
       /\ meetings' = IF d.met THEN meetings + 1 ELSE meetings
       /\ UNCHANGED <<lever, guidance, sets, seed>>

\* The policymaker sets its rate, takes it back, or gives guidance (Policy).
SetRate(x) ==
    /\ sets < MaxSets /\ sets' = sets + 1 /\ lever' = x
    /\ UNCHANGED <<month, rule, ann, rate, true, seen, strategy, guidance, seed, meetings, pending, news, all>>

Guide ==
    /\ sets < MaxSets /\ sets' = sets + 1 /\ guidance' = ~guidance
    /\ UNCHANGED <<month, rule, ann, rate, true, seen, strategy, lever, seed, meetings, pending, news, all>>

\* to_state and from_state: the committee goes on where it was.
Saved ==
    [rule |-> rule, ann |-> ann, rate |-> rate, true |-> true, seen |-> seen,
     strategy |-> strategy, pending |-> pending, meetings |-> meetings]
Reload ==
    /\ sets < MaxSets /\ sets' = sets + 1
    /\ LET s == Saved
       IN /\ rule' = s.rule /\ ann' = s.ann /\ rate' = s.rate /\ true' = s.true
          /\ seen' = s.seen /\ strategy' = s.strategy /\ pending' = s.pending /\ meetings' = s.meetings
    /\ UNCHANGED <<month, lever, guidance, seed, news, all>>

Init ==
    /\ month = 0 /\ rule = Neutral /\ ann = Neutral /\ rate = Neutral
    /\ true = << >> /\ seen = [u |-> 0, gap |-> 0] /\ all = << >>
    /\ strategy = [plevel |-> 0, hist |-> << >>, risk |-> 0, residual |-> 0]
    /\ lever = 0 /\ guidance = FALSE /\ sets = 0
    /\ pending = [after |-> 0, of |-> 0] /\ news = << >>
    /\ seed \in Seeds /\ meetings = 0

Next == (\E f \in Figures : Month(f)) \/ (\E x \in Rates \cup {0} : SetRate(x)) \/ Guide \/ Reload
Spec == Init /\ [][Next]_vars

-----------------------------------------------------------------------------
(* Properties *)

\* Types.
TypeOK ==
    /\ month \in 0 .. MaxMonth /\ sets \in 0 .. MaxSets /\ Len(true) =< Keep
    /\ rate >= Floor /\ lever \in Rates \cup {0} /\ pending.of \in 0 .. MaxMonth

\* The committee never decides on a figure that is not out yet, however long the
\* run and however few months are kept.
SeesOnlyPublished ==
    /\ month > Lag => seen.u = all[month - Lag]
    /\ month > GapLag => seen.gap = all[month - GapLag]

Minutes == SelectSeq(news, LAMBDA n : n.kind = "minutes")
Statements == SelectSeq(news, LAMBDA n : n.kind = "statement")

\* The months from the one after the i-th decision on in which its minutes could come
\* out: the bank is not silent, and no later decision has taken their place.
Open(i) ==
    {m \in Statements[i].of + 1 .. month - 1 :
        /\ ~\E k \in 1 .. Blackout : IsMeeting(m + 1 + k)
        /\ i < Len(Statements) => m < Statements[i + 1].of}

\* Minutes come out in the order of the meetings, each in the first month that is open
\* to them, and no others; so those of a decision are missing only when a later one
\* came before such a month, and what waits is the last decision's.
MinutesInOrder ==
    LET out(i) == [kind |-> "minutes", of |-> Statements[i].of,
                   month |-> CHOOSE m \in Open(i) : \A k \in Open(i) : m =< k]
        told == {i \in DOMAIN Statements : Open(i) # {}}
    IN /\ Range(Minutes) = {out(i) : i \in told} /\ Len(Minutes) = Cardinality(told)
       /\ \A i, j \in DOMAIN Minutes : i < j => Minutes[i].of < Minutes[j].of
       /\ pending.of = IF Statements = << >> \/ Len(Statements) \in told THEN 0 ELSE Last(Statements).of

\* The public knows the rate: the last statement says what is announced, unless
\* there has been a meeting since at which a policymaker's own rate came in, of
\* which nothing is said.
StatementTellsTheRate ==
    (Statements # << >> /\ ~\E k \in Last(Statements).of + 1 .. month - 1 : IsMeeting(k))
        => Last(Statements).rate = ann

\* What the committee saw in the m-th month, and whether unemployment had risen in it.
SawAt(m) == IF m > Lag THEN all[m - Lag] ELSE all[m]
RoseIn(m) ==
    LET saw(from, to) == [k \in 1 .. to - from + 1 |-> SawAt(from + k - 1)]
    IN m >= Past /\ Rose(saw(m - Recent + 1, m), saw(m - Past + 1, m - Recent))

\* A cut begins in a month of a rise, unless one is fading.
Begins[m \in 1 .. month] ==
    RoseIn(m) /\ \A k \in 1 .. Fade - 1 : m > k => ~Begins[m - k]

\* No rise of unemployment goes unanswered, and the cut in effect is what is left of
\* the answer to one: it neither lasts nor begins again while it fades, through
\* decisions, own rates and reloads.
CutsAnswerARise ==
    LET running == {m \in 1 .. month : Begins[m] /\ month - m < Fade}
    IN IF running = {} THEN strategy.risk = 0
       ELSE \E m \in running : strategy.risk = Cut - (month - m) * (Cut \div Fade)

\* A projection comes true: as long as every meeting decides for itself and on the
\* same target, it announces what the earlier statements said it would, but for their
\* noise, and the statements agree on the meetings to come.
DotsComeTrue ==
    \A i \in DOMAIN Statements :
        \A n \in 1 .. Least(Dots, Len(Statements) - i) :
            LET first == Statements[i]
                later == Statements[i + n]
                between == {m \in first.of + 1 .. later.of : IsMeeting(m)}
            IN (Cardinality(between) = n /\ \A k \in 1 .. n : Statements[i + k].target = first.target)
                    => /\ later.rate - first.dots[n] \in -Noise .. Noise
                       /\ \A k \in 1 .. Dots - n : later.dots[k] = first.dots[n + k]

\* The committee decides on what is published, its minutes follow in the order of
\* the meetings, the last statement tells the rate, its projections hold, and its
\* cuts answer what it saw.
NewsAsAnnounced ==
    /\ TypeOK /\ SeesOnlyPublished /\ MinutesInOrder /\ StatementTellsTheRate
    /\ CutsAnswerARise /\ DotsComeTrue
=============================================================================
