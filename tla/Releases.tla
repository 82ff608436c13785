------------------------------ MODULE Releases ------------------------------
(* The official figures (events/releases.py): every month end the truth of the  *)
(* month is recorded and its prints are scheduled on later days, the output of  *)
(* a quarter three times with a noise that halves; every tick ends with the     *)
(* prints that are due being published, and only those are observed.            *)
EXTENDS Integers, SequencesExt

CONSTANTS DaysPerMonth, CpiDay, UnemploymentDay, OutputDay, ReleaseDay,
          Revisions,    \* N_GDP_REVISIONS
          Truths,       \* what a month can be, a record of figures
          Noises,       \* eps, in quarters: multiples of 2^Revisions
          MaxMonths     \* bound: months that are simulated

ReleasesAssumption ==
    /\ {DaysPerMonth, MaxMonths} \subseteq Nat \ {0} /\ Revisions \in Nat
    /\ {CpiDay, UnemploymentDay, OutputDay, ReleaseDay} \subseteq 1..DaysPerMonth
    /\ \A e \in Noises : e % 2^Revisions = 0

VARIABLES tick,        \* the last tick that was begun
          stage,       \* "idle" (made, reset or loaded); "real": the economy has run; "published"
          truths,      \* _month_truth: what was recorded of which month
          noise,       \* _quarter_gdp_eps
          acc,         \* _gdp_acc, _trade_acc, _govt_acc: the months of a quarter so far
          pending, vintages,
          observed     \* what the last PUBLISH gave to everybody
vars == <<tick, stage, truths, noise, acc, pending, vintages, observed>>

MonthEnd(m) == m * DaysPerMonth + DaysPerMonth - 1
DayOfNextMonth(m, day) == (m + 1) * DaysPerMonth + day - 1
QuarterOf(m) == m \div 3
IsQuarterEnd(m) == m % 3 = 2
GdpRelease(q, rev) == (3 * q + 3 + rev) * DaysPerMonth + ReleaseDay - 1
PolicyDecision(q) == MonthEnd(3 * q + 2)

Vintage(series, period, value, t, rev) ==
    [series |-> series, period |-> period, value |-> value, tick |-> t, revision |-> rev]
\* Output of a quarter as revision rev prints it, in quarters of its unit.
Printed(gdp, eps, rev) == 4 * gdp + gdp * (eps \div 2^rev)
Total(months, figure) == FoldSeq(LAMBDA t, sum : sum + t[figure], 0, months)

MonthPrints(m, t) ==
    <<Vintage("cpi", m, t.cpi, DayOfNextMonth(m, CpiDay), 0),
      Vintage("unemployment", m, t.unemployment, DayOfNextMonth(m, UnemploymentDay), 0),
      Vintage("output", m, t.output, DayOfNextMonth(m, OutputDay), 0)>>
QuarterPrints(q, months, eps) ==
    [i \in 1..Revisions + 1 |->
        Vintage("gdp", q, Printed(Total(months, "gdp"), eps, i - 1), GdpRelease(q, i - 1), i - 1)]
    \o <<Vintage("trade_balance", q, Total(months, "trade"), GdpRelease(q, 0), 0),
         Vintage("govt_balance", q, Total(months, "govt"), GdpRelease(q, 0), 0),
         Vintage("policy_decision", q, Last(months).rate, PolicyDecision(q), 0)>>
Gathered_Kept(m, months) == months
\* The months of the quarter after month m, of which `months' are gathered.
Gathered(m, months) == IF IsQuarterEnd(m) THEN <<>> ELSE months

\* What the table shows at a tick: of every series and period the highest revision,
\* and of every series the period that was printed first last.
Visible(table, t) ==
    LET seen == SelectSeq(table, LAMBDA v : v.tick <= t)
        Of(k) == {i \in DOMAIN seen : <<seen[i].series, seen[i].period>> = k}
        keys == {<<seen[i].series, seen[i].period>> : i \in DOMAIN seen}
        Newest(k) == CHOOSE i \in Of(k) : \A j \in Of(k) :
                        \/ seen[j].revision < seen[i].revision
                        \/ seen[j].revision = seen[i].revision /\ j <= i
    IN  [prints |-> [k \in keys |-> seen[Newest(k)].value],
         latest |-> [s \in {k[1] : k \in keys} |->
                        LET k == CHOOSE k \in keys : k[1] = s /\ \A l \in keys :
                                    l[1] = s => Min(Of(l)) <= Min(Of(k))
                        IN  seen[Newest(k)].value]]
Nothing == Visible(<<>>, 0)

\* The module is attached to a world that may have run for some days.
InitAt(t) ==
    /\ tick = t
    /\ stage = "idle" /\ truths = [m \in {} |-> 0] /\ noise = [q \in {} |-> 0]
    /\ acc = <<>> /\ pending = <<>> /\ vintages = <<>> /\ observed = Nothing
Init == \E t \in -1..MonthEnd(2) : InitAt(t)

\* on_phase in REAL: at a month end the economy has just closed the month.
Recorded(m, t, eps) ==
    LET months == Append(acc, t)
    IN  /\ truths' = (m :> t) @@ truths
        /\ acc' = Gathered(m, months)
        /\ noise' = IF IsQuarterEnd(m) THEN (QuarterOf(m) :> eps) @@ noise ELSE noise
        /\ pending' = pending \o MonthPrints(m, t)
                      \o IF IsQuarterEnd(m) THEN QuarterPrints(QuarterOf(m), months, eps) ELSE <<>>
Real ==
    /\ stage # "real" /\ tick < MonthEnd(MaxMonths - 1)
    /\ tick' = tick + 1 /\ stage' = "real"
    /\ LET m == (tick + 1) \div DaysPerMonth
       IN  IF tick + 1 = MonthEnd(m)
           THEN \E t \in Truths, eps \in Noises :
                    /\ ~IsQuarterEnd(m) => eps = 0
                    /\ Recorded(m, t, eps)
           ELSE UNCHANGED <<truths, acc, noise, pending>>
    /\ UNCHANGED <<vintages, observed>>

\* on_phase in PUBLISH: publish_due, then everybody is shown what is visible.
Publish ==
    /\ stage = "real" /\ stage' = "published"
    /\ vintages' = vintages \o SelectSeq(pending, LAMBDA v : v.tick <= tick)
    /\ pending' = SelectSeq(pending, LAMBDA v : v.tick > tick)
    /\ observed' = Visible(vintages', tick)
    /\ UNCHANGED <<tick, truths, noise, acc>>

\* The world is saved and loaded: the observations are not part of a saved world.
Saved == [vintages |-> vintages, pending |-> pending, acc |-> acc, truths |-> truths, noise |-> noise]
Restart ==
    /\ stage # "real" /\ stage' = "idle"
    /\ vintages' = Saved.vintages /\ pending' = Saved.pending /\ acc' = Saved.acc
    /\ truths' = Saved.truths /\ noise' = Saved.noise /\ observed' = Nothing
    /\ UNCHANGED tick
Reset ==
    /\ stage # "real" /\ stage' = "idle" /\ tick' = -1 /\ truths' = [m \in {} |-> 0] /\ noise' = [q \in {} |-> 0]
    /\ acc' = <<>> /\ pending' = <<>> /\ vintages' = <<>> /\ observed' = Nothing

Next == Real \/ Publish \/ Restart \/ Reset
Spec == Init /\ [][Next]_vars
-----------------------------------------------------------------------------
\* What ought to be public at tick t, from the months that were recorded.
MonthsOf(q) == [i \in 1..3 |-> 3 * q + i - 1]
RecordedOf(q) == LET kept == SelectSeq(MonthsOf(q), LAMBDA m : m \in DOMAIN truths)
                 IN  [i \in DOMAIN kept |-> truths[kept[i]]]
DayOf(series) ==
    CASE series = "cpi" -> CpiDay [] series = "unemployment" -> UnemploymentDay [] OTHER -> OutputDay
Out(s, p, t) ==
    CASE s \in {"cpi", "unemployment", "output"} -> DayOfNextMonth(p, DayOf(s)) <= t
      [] s = "policy_decision" -> PolicyDecision(p) <= t
      [] OTHER -> GdpRelease(p, 0) <= t
MonthlySeries == {"cpi", "unemployment", "output"}
Quarterly == {"gdp", "trade_balance", "govt_balance", "policy_decision"}
Value(s, p, t) ==
    CASE s \in MonthlySeries -> truths[p][s]
      [] s = "gdp" -> Printed(Total(RecordedOf(p), "gdp"), noise[p],
                            Max({r \in 0..Revisions : GdpRelease(p, r) <= t}))
      [] s = "trade_balance" -> Total(RecordedOf(p), "trade")
      [] s = "govt_balance" -> Total(RecordedOf(p), "govt")
      [] OTHER -> truths[3 * p + 2].rate
Public(t) ==
    LET keys == {k \in (MonthlySeries \X DOMAIN truths) \cup (Quarterly \X DOMAIN noise) : Out(k[1], k[2], t)}
    IN  [prints |-> [k \in keys |-> Value(k[1], k[2], t)],
         latest |-> [s \in {k[1] : k \in keys} |->
                        Value(s, Max({k[2] : k \in {l \in keys : l[1] = s}}), t)]]

\* Everybody sees, at the end of every tick, exactly the figures whose day has come, in their
\* last revision, whatever was saved and loaded before; `latest' is the newest period.
FiguresAsReleased == stage = "published" => observed = Public(tick)
=============================================================================
