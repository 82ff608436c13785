----------------------------- MODULE PolicyEnv ------------------------------
(* The environment in which one learner sits at one policy authority of an    *)
(* economy of its own (sdk/policy_env.py).  Every step is a decision and a    *)
(* day; the economy reads the levers when a month ends, so most steps are     *)
(* scored by a month that closed before the decision was taken.               *)
(*                                                                            *)
(* The economy is what it does with two levers: a month spends purchases and  *)
(* the one-off transfer, which are owed from then on, and its prices          *)
(* follow the purchases.  Values are whole; the score counts quarters.        *)
EXTENDS Integers, SequencesExt

CONSTANTS
    Lowest, Highest,        \* the specs' bounds of each lever
    Home,                   \* what each lever is on autopilot
    Actions,                \* what a learner may do: levers it does not mask -> -1, 0 or 1
    PiStar,                 \* the bank's target
    DaysPerMonth, Horizon,
    MaxDays, MaxResets,     \* bounds
    None

Levers == {"purchases_level", "transfer_oneoff", "debt_target"}
OneOffs == {"transfer_oneoff"}

PolicyEnvAssumption ==
    /\ \A l \in Levers : Lowest[l] <= Highest[l]
    /\ \A a \in Actions : DOMAIN a \subseteq Levers /\ \A l \in DOMAIN a : a[l] \in -1..1
    /\ Horizon >= 2 /\ DaysPerMonth > 0

VARIABLES
    tick,       \* the world's clock
    effective,  \* levers off autopilot: a value, or None
    agg,        \* the figures of the last closed month, None before the first
    answer,     \* what the last step or reset returned
    said,       \* the learner's last word on each lever, None if there is none or it is used up
    months,     \* what each month of this episode has spent
    resets

vars == <<tick, effective, agg, answer, said, months, resets>>

Autopilot == [l \in Levers |-> None]
Value(e, l) == IF e[l] = None THEN Home[l] ELSE e[l]

\* decode: a masked lever is left out, another is placed between its bounds.
Decode(a) == [l \in DOMAIN a |-> Lowest[l] + ((a[l] + 1) * (Highest[l] - Lowest[l])) \div 2]

\* submit without a lag: at once in effect; the rest stays what earlier steps have made it.
Submitted(e, d) == [l \in Levers |-> IF l \in DOMAIN d THEN d[l] ELSE e[l]]

\* _macro: zero until a month has closed.
Macro(t, g) ==
    [tick |-> t] @@ IF g = None THEN [pi |-> 0, debt |-> 0] ELSE [pi |-> g.pi, debt |-> g.debt]

\* policy_loss, in quarters: LAMBDA_B is one.
Loss(m, e) ==
    LET off == m.debt - Value(e, "debt_target")
    IN  -(4 * (m.pi - PiStar) * (m.pi - PiStar) + off * off)

\* encode_observation: the tick is cut off at the horizon.
Observation(m) == [m EXCEPT !.tick = IF @ < Horizon THEN @ ELSE Horizon]

\* The economy's month end: the levers are read, the one-offs used up.
Spent(e) == Value(e, "purchases_level") + Value(e, "transfer_oneoff")
Closed(g, e) == [pi   |-> Value(e, "purchases_level"),
                 debt |-> (IF g = None THEN 0 ELSE g.debt) + Spent(e)]
Used(e) == [l \in Levers |-> IF l \in OneOffs THEN None ELSE e[l]]

Reset ==
    /\ resets < MaxResets /\ tick > 0
    /\ tick' = 0 /\ effective' = Autopilot /\ agg' = None
    /\ answer' = [obs |-> Observation(Macro(0, None)), reward |-> 0, truncated |-> FALSE]
    /\ said' = Autopilot /\ months' = << >>
    /\ resets' = resets + 1

\* A step scores after the day and with the levers the day has left.
Step(a) ==
    /\ tick < MaxDays
    /\ LET d     == Decode(a)
           e     == Submitted(effective, d)
           ends  == tick % DaysPerMonth = DaysPerMonth - 1
           after == IF ends THEN Used(e) ELSE e
           g     == IF ends THEN Closed(agg, e) ELSE agg
           m     == Macro(tick + 1, g)
       IN  /\ effective' = after /\ agg' = g
           /\ answer' = [obs |-> Observation(m), reward |-> Loss(m, after), truncated |-> tick + 1 >= Horizon]
           /\ months' = IF ends THEN Append(months, Spent(e)) ELSE months
           /\ said' = [l \in Levers |-> IF ends /\ l \in OneOffs THEN None
                                        ELSE IF l \in DOMAIN a THEN d[l] ELSE said[l]]
    /\ tick' = tick + 1
    /\ UNCHANGED resets

Init ==
    /\ tick = 0 /\ effective = Autopilot /\ agg = None
    /\ answer = [obs |-> Observation(Macro(0, None)), reward |-> 0, truncated |-> FALSE]
    /\ said = Autopilot /\ months = << >> /\ resets = 0

Next == Reset \/ \E a \in Actions : Step(a)

Spec == Init /\ [][Next]_vars

-----------------------------------------------------------------------------
TypeOK ==
    /\ tick \in 0..MaxDays /\ resets \in 0..MaxResets
    /\ \A l \in Levers : effective[l] = None \/ effective[l] \in Lowest[l]..Highest[l]

\* A learner sees the debt of the months that have closed in this episode and of no other, is
\* scored by it against the target it has set itself, and finds each lever where it last put
\* it, masked since or not, a one-off until the month has used it (PolicyEnv.step, decode).
LearnerSeesItsMonths ==
    /\ Len(months) = tick \div DaysPerMonth
    /\ answer.obs.debt = FoldLeft(LAMBDA x, y : x + y, 0, months)
    /\ answer.truncated <=> tick >= Horizon
    /\ \A l \in Levers : effective[l] = said[l]
    /\ tick > 0 =>
         LET target == IF said["debt_target"] = None THEN Home["debt_target"] ELSE said["debt_target"]
             off == answer.obs.debt - target
         IN  answer.reward <= -(off * off)
=============================================================================
