---------------------------- MODULE Mispricing ------------------------------
(* The mispricing of a share, marketsim.pricing.mispricing: xi = I + s + n,   *)
(* the impact of the trades, a sentiment that follows momentum, news and the  *)
(* appetite for risk, and a noise that arbitrage capital wears down.  The     *)
(* returns of the last window lie in a ring; capital loses when xi widens.    *)
EXTENDS Integers, Sequences, SequencesExt, FiniteSetsExt

CONSTANTS Impacts, News, Risks, Noises,     \* a day's inputs, whole steps of log price
          Fast, Slow,                       \* the two windows of momentum, in days
          Base,                             \* a0, the capital arbitrage returns to
          Floor, Ceiling,                   \* ratio_min * a0 and ratio_max * a0
          MaxDays, MaxLoads                 \* bounds of the exploration

MispricingAssumption ==
    /\ Fast \in Nat \ {0} /\ Slow \in Nat \ {0} /\ Fast =< Slow
    /\ Floor \in Nat /\ Floor =< Base /\ Base =< Ceiling

VARIABLES impact, s, n, capital,
          ret, ret_i, n_ret,    \* the ring of returns: its cells, the next one, how many are filled
          path,                 \* every xi so far, the first before any step
          loads
vars == <<impact, s, n, capital, ret, ret_i, n_ret, path, loads>>

Clip(x, low, high) == IF x < low THEN low ELSE IF x > high THEN high ELSE x
Toward(x, num, den) == IF x >= 0 THEN (x * num) \div den ELSE -((-x * num) \div den)

Xi == impact + s + n

-----------------------------------------------------------------------------
(* The ring *)

\* The returns in the order of the days.
Chrono(cells, i, k) ==
    IF k < Slow THEN SubSeq(cells, 1, k) ELSE SubSeq(cells, i, Slow) \o SubSeq(cells, 1, i - 1)

Pushed(ring, r) == [cells |-> [ring.cells EXCEPT ![ring.i] = r],
                    i |-> (ring.i % Slow) + 1,
                    k |-> Clip(ring.k + 1, 0, Slow)]
Ring == [cells |-> ret, i |-> ret_i, k |-> n_ret]
NoReturns == [cells |-> [d \in 1 .. Slow |-> 0], i |-> 1, k |-> 0]

History == Chrono(ret, ret_i, n_ret)
Total(seq) == FoldLeft(LAMBDA a, x : a + x, 0, seq)
Shorter(window) == Clip(window, 0, n_ret)
Trailing(window) == Total(SubSeq(History, n_ret - Shorter(window) + 1, n_ret))

\* The mean of the fast window less that of the slow, times both lengths.
Momentum == IF n_ret = 0 THEN 0
            ELSE Shorter(Slow) * Trailing(Fast) - Shorter(Fast) * Trailing(Slow)

-----------------------------------------------------------------------------
(* A day *)

\* What noise keeps overnight: less, the more capital arbitrage has.
Speed == Clip(capital, Floor, Ceiling)
Decayed(x) == Toward(x, 2 * Ceiling - Speed, 2 * Ceiling)
Sentiment(news, z) == Toward(s, 1, 2) + Momentum + news + z

\* What a short in xi earns when it moves from old to new.
Pnl(new, old) == -(old * (new - old))
Leak == CASE capital < Base -> 1 [] capital > Base -> -1 [] OTHER -> 0
StepCapital(new, old) == Clip(capital + Leak + Pnl(new, old), Floor, Ceiling)

\* Momentum and speed are of the days before; the return and the profit of this one.
Step == \E i \in Impacts, w \in News, z \in Risks, e \in Noises :
    LET pushed == Pushed(Ring, Xi' - Xi)
    IN /\ Len(path) =< MaxDays
       /\ impact' = i /\ s' = Sentiment(w, z) /\ n' = Decayed(n) + e
       /\ ret' = pushed.cells /\ ret_i' = pushed.i /\ n_ret' = pushed.k
       /\ capital' = StepCapital(Xi', Xi)
       /\ path' = Append(path, Xi')
       /\ UNCHANGED loads

-----------------------------------------------------------------------------
(* Saved and loaded *)

State == [s |-> s, n |-> n, capital |-> capital, last_impact |-> impact, returns |-> History]
Refilled(returns) == FoldLeft(Pushed, NoReturns, returns)

\* from_state on a saved state: the ring is filled anew from its first cell.
Load == /\ loads < MaxLoads
        /\ s' = State.s /\ n' = State.n /\ capital' = State.capital
        /\ impact' = State.last_impact
        /\ LET ring == Refilled(State.returns)
           IN ret' = ring.cells /\ ret_i' = ring.i /\ n_ret' = ring.k
        /\ loads' = loads + 1
        /\ UNCHANGED path

Init == /\ impact = 0 /\ s = 0 /\ n = 0 /\ capital = Base /\ loads = 0
        /\ ret = NoReturns.cells /\ ret_i = NoReturns.i /\ n_ret = NoReturns.k
        /\ path = <<0>>
Next == Step \/ Load
Spec == Init /\ [][Next]_vars

-----------------------------------------------------------------------------
(* Properties *)

TypeOK == /\ {impact, s, n} \subseteq Int /\ capital \in Floor .. Ceiling
          /\ ret \in [1 .. Slow -> Int] /\ ret_i \in 1 .. Slow /\ n_ret \in 0 .. Slow
          /\ path \in Seq(Int) /\ Len(path) \in 1 .. MaxDays + 1 /\ loads \in 0 .. MaxLoads

Ago(days) == path[Len(path) - days]

\* Whatever day the ring wrapped and the state was loaded on, its returns are those of
\* the last days in their order, and the momentum is the rise of xi over the fast window
\* against its rise over the slow one.
MomentumOfTheDays ==
    /\ n_ret = Clip(Len(path) - 1, 0, Slow)
    /\ \A d \in 1 .. n_ret : History[n_ret + 1 - d] = Ago(d - 1) - Ago(d)
    /\ Momentum = Shorter(Slow) * (Xi - Ago(Shorter(Fast))) - Shorter(Fast) * (Xi - Ago(Shorter(Slow)))

\* Arbitrage that never saw xi move away from zero has not lost, and one that never
\* saw it come back has not gained.
CapitalFollowsTheGap ==
    LET moves == {Pnl(path[d + 1], path[d]) : d \in 1 .. Len(path) - 1}
    IN /\ (\A m \in moves : m >= 0) => capital >= Base
       /\ (\A m \in moves : m =< 0) => capital =< Base

\* The state is the path's last day, and its parts what a loaded copy goes on from.
MispricingFollows == Last(path) = Xi /\ MomentumOfTheDays /\ CapitalFollowsTheGap
=============================================================================
