----------------------------- MODULE Episodes ------------------------------
(***************************************************************************)
(* Episodes of several agents in one world: sdk/pz_env.py over the views   *)
(* of sdk/gym_env.py and the client of sdk/local.py, and the year of       *)
(* sdk/curriculum.py that is evaluated.  The environment of one agent is   *)
(* the case of one agent.                                                  *)
(*                                                                         *)
(* A step decodes each living agent's action, sizes its order by what the  *)
(* agent saw last, submits, lets the world step and observes.  What the    *)
(* world publishes for an agent is any of Rows: its cash and net worth in  *)
(* cr, its shares and their price, and the equity and dividend of its      *)
(* firm, where equity 0 stands for a report that is not published.         *)
(***************************************************************************)
EXTENDS Integers, FiniteSets, SequencesExt

CONSTANTS
    Agents,                 \* numbered in the order of their ids
    Rows,                   \* [cash, worth, shares, price, equity, dividend, broke, news,
                            \*  releases, told]
    Acts,                   \* [side, pct], and NoTrade
    NewsSlots,              \* headlines an observation has room for
    Horizon,                \* days of an episode
    MaxDays,                \* bound on the days of an evaluated year
    MaxResets

EpisodesAssumption == Horizon \in Nat /\ Horizon >= 2 /\ NewsSlots \in Nat

VARIABLES
    tick,                   \* world.clock.tick
    row,                    \* row[a]: what the world publishes for a
    agents,                 \* the agents that are still in the episode
    view,                   \* view[a]: the state of a's MarketSimEnv
    applied,                \* what the world ingested last
    acted,                  \* the agents that were in the episode then
    total,                  \* the rewards of each agent in the episode
    seen,                   \* the rows each agent saw in the episode
    resets,
    year                    \* the rows of an evaluated agent, in a world of its own

episode == <<tick, row, agents, view, applied, acted, total, seen, resets>>
vars == <<episode, year>>

-----------------------------------------------------------------------------
(* What is made of a path of net worth: the running mean and spread of        *)
(* sdk/gym_env.py (_reward), and sharpe, max_drawdown and bankruptcies of      *)
(* sdk/curriculum.py.  Numbers are whole; mean and m2 of the running spread    *)
(* count twelfths, so that they are exact for up to four profits.              *)

Twelfths == 12
NoReturns == [n |-> 0, mean |-> 0, m2 |-> 0]

\* One more profit (Welford's update).
Welford(r, pnl) ==
    LET delta == Twelfths * pnl - r.mean
        mean == r.mean + delta \div (r.n + 1)
        off == Twelfths * pnl - mean
    IN  [n |-> r.n + 1, mean |-> mean, m2 |-> r.m2 + (delta * off) \div Twelfths]

Profits(series) == [i \in 1 .. Len(series) - 1 |-> series[i + 1] - series[i]]

\* sharpe is mean / (sqrt(m2 / n) + 1) of these.
SharpeParts(series) == FoldLeft(Welford, NoReturns, Profits(series))

\* A fraction a/b is [a, b]; the worst so far is kept.
Worse(x, y) == IF x.a * y.b < y.a * x.b THEN y ELSE x

\* The peak first, then the fall from it.
Peak(d, nw) ==
    LET peak == IF nw > d.peak THEN nw ELSE d.peak
    IN  [peak |-> peak,
         worst |-> IF peak > 0 THEN Worse(d.worst, [a |-> peak - nw, b |-> peak]) ELSE d.worst]

MaxDrawdown(series) ==
    FoldLeft(Peak, [peak |-> 0, worst |-> [a |-> 0, b |-> 1]], series).worst

Onset(c, flag) == [count |-> IF flag /\ ~c.prev THEN c.count + 1 ELSE c.count, prev |-> flag]

Bankruptcies(flags) == FoldLeft(Onset, [count |-> 0, prev |-> FALSE], flags).count

-----------------------------------------------------------------------------
(* The episode *)

\* is_bankrupt
Bust(r) == r.worth < 0 \/ r.broke

\* The share of the market as it is told first: by the observation, its portfolio or its
\* goods, or by a report of the agent's own firm.
PublishedShare(r) ==
    LET own == SelectSeq(r.told, LAMBDA t : t.own)
    IN  IF own = <<>> THEN 0 ELSE Head(own).share

\* episode_metrics of an evaluated path.
Metrics(path) ==
    LET worths == [i \in DOMAIN path |-> path[i].worth]
    IN  [ticks |-> Len(path), net_worth |-> IF path = <<>> THEN 0 ELSE Last(worths),
         sharpe |-> SharpeParts(worths), max_drawdown |-> MaxDrawdown(worths),
         market_share |-> IF path = <<>> THEN 0 ELSE PublishedShare(Last(path)),
         bankruptcies |-> Bankruptcies([i \in DOMAIN path |-> Bust(path[i])])]

-----------------------------------------------------------------------------
(* What an agent observes *)

\* A world that was reset publishes nothing yet.
Blank == [cash |-> 0, worth |-> 0, shares |-> 0, price |-> 0, equity |-> 0,
          dividend |-> 0, broke |-> FALSE, news |-> <<>>, releases |-> <<>>, told |-> <<>>]

\* Vectors have a fixed length: what is missing is 0, what is too much is left out.
Padded(v, n) == [i \in 1 .. n |-> IF i =< Len(v) THEN v[i] ELSE 0]

\* _first_number: of a release of several figures the first that is not 0.
FirstNumber(release) ==
    LET told == SelectSeq(release, LAMBDA x : x # 0)
    IN  IF told = <<>> THEN 0 ELSE Head(told)

\* encode_observation
Encoded(r, t) ==
    [tick |-> IF t < Horizon THEN t ELSE Horizon, net_worth |-> r.worth,
     portfolio |-> <<r.shares, r.shares * r.price>>, market |-> <<r.price>>,
     news |-> Padded(r.news, NewsSlots),
     macro |-> FirstNumber(r.releases), firm |-> <<r.equity, r.dividend>>]

\* observation_space
Space == [tick : 0 .. Horizon, net_worth : Int, portfolio : [1 .. 2 -> Int], market : [1 .. 1 -> Int],
          news : [1 .. NewsSlots -> 0 .. 3], macro : Int, firm : [1 .. 2 -> Int]]

\* An environment that has not been reset.
NewView == [raw |-> Blank, obs |-> Encoded(Blank, 0), worth |-> 0, equity |-> 0, returns |-> NoReturns]

Init ==
    /\ tick = 0 /\ row = [a \in Agents |-> Blank] /\ agents = {}
    /\ view = [a \in Agents |-> NewView]
    /\ applied = <<>> /\ acted = {}
    /\ total = [a \in Agents |-> 0] /\ seen = [a \in Agents |-> <<>>] /\ resets = 0
    /\ year = <<>>

\* _clear_episode, then the first observation.
Cleared(v, r) == [raw |-> r, obs |-> Encoded(r, 0), worth |-> r.worth, equity |-> r.equity, returns |-> NoReturns]

\* The world is rewound, or built anew for another seed: tick 0 all the same.
Reset ==
    /\ resets < MaxResets /\ resets' = resets + 1 /\ year = <<>> /\ UNCHANGED year
    /\ tick' = 0 /\ row' = [a \in Agents |-> Blank] /\ agents' = Agents
    /\ view' = [a \in Agents |-> Cleared(view[a], Blank)]
    /\ applied' = <<>> /\ acted' = {}
    /\ total' = [a \in Agents |-> 0] /\ seen' = [a \in Agents |-> <<Blank>>]

\* No order; the firm is left to its autopilot.
NoTrade == [side |-> "none", pct |-> 0]

\* The price an order is sized by: 1, the baseline, where none is published.
Mid(raw) == IF raw.price > 0 THEN raw.price ELSE 1

\* _order_qty: a share of the cash at the price, or of the shares held.
Quantity(raw, act) ==
    IF act.side = "buy" THEN (act.pct * raw.cash) \div (100 * Mid(raw))
    ELSE (act.pct * (IF raw.shares > 0 THEN raw.shares ELSE 0)) \div 100

\* decode_orders drops what is less than a share; the decision always goes.
Inputs(a, act) ==
    LET qty == Quantity(view[a].raw, act)
    IN  (IF act # NoTrade /\ qty >= 1
         THEN <<[agent |-> a, kind |-> "order", side |-> act.side, qty |-> qty]>>
         ELSE <<>>) \o <<[agent |-> a, kind |-> "decision"]>>

\* The operator's reward, cr.
\* Faulty: the change is not counted when the report is not there.
Reward_IfPublished(v, r) ==
    IF r.equity # 0 THEN (r.equity - v.equity) + r.dividend
    ELSE r.worth - v.worth
Reward(v, r) ==
    IF r.equity # 0 \/ v.equity # 0 THEN (r.equity - v.equity) + r.dividend
    ELSE r.worth - v.worth

Observed(v, r, t) ==
    [raw |-> r, obs |-> Encoded(r, t), worth |-> r.worth, equity |-> r.equity,
     returns |-> Welford(v.returns, r.worth - v.worth)]

\* Faulty: an agent that is bankrupt plays on.
Stays_Bankrupt(r, t) == t < Horizon
Stays(r, t) == ~Bust(r) /\ t < Horizon

\* Who steps with nobody left steps nothing; actions.get may find no action.
Step(acts, rows) ==
    LET order == SetToSortSeq(agents, <)
    IN  /\ agents # {}
        /\ applied' = FlattenSeq([i \in DOMAIN order |-> Inputs(order[i], acts[order[i]])])
        /\ acted' = agents
        /\ tick' = tick + 1 /\ row' = rows
        /\ view' = [a \in Agents |-> IF a \in agents THEN Observed(view[a], rows[a], tick + 1) ELSE view[a]]
        /\ total' = [a \in Agents |->
                        IF a \in agents THEN total[a] + Reward(view[a], rows[a]) ELSE total[a]]
        /\ seen' = [a \in Agents |-> IF a \in agents THEN Append(seen[a], rows[a]) ELSE seen[a]]
        /\ agents' = {a \in agents : Stays(rows[a], tick + 1)}
        /\ UNCHANGED <<resets, year>>

\* A day of run_scenario_year, which goes on after a bankruptcy.
Day(r) ==
    /\ resets = 0 /\ Len(year) < MaxDays
    /\ year' = Append(year, r) /\ UNCHANGED episode

Next ==
    \/ Reset
    \/ \E acts \in [Agents -> Acts], rows \in [Agents -> Rows] : Step(acts, rows)
    \/ \E r \in Rows : Day(r)

Spec == Init /\ [][Next]_vars

-----------------------------------------------------------------------------
SumOf(s) == FoldLeft(+, 0, s)
Worths(a) == [i \in DOMAIN seen[a] |-> seen[a][i].worth]
Dark(a) == {i \in 1 .. Len(seen[a]) - 1 : seen[a][i].equity = 0 /\ seen[a][i + 1].equity = 0}

\* Nobody plays past the horizon, and who plays has seen every day of the episode.
TypeOK ==
    /\ tick \in 0 .. Horizon /\ Len(year) =< MaxDays /\ agents \subseteq Agents /\ acted \subseteq Agents
    /\ \A a \in agents : tick < Horizon /\ Len(seen[a]) = tick + 1
    /\ \A a \in Agents : row[a] \in Rows \cup {Blank} /\ view[a].raw \in Rows \cup {Blank}

\* What an agent was answered last is in the space its policy was built for, and is of
\* the day it has played to and of what was published for it then.
ObservationsFit ==
    \A a \in Agents :
        /\ view[a].obs \in Space
        /\ seen[a] # <<>> => view[a].obs = Encoded(seen[a][Len(seen[a])], Len(seen[a]) - 1)
        /\ a \in agents => view[a].obs.tick = tick

\* An order is sized by what its agent saw on the day before: alone it can be
\* paid with that day's cash, or delivered from that day's shares.
OrdersFit ==
    \A i \in DOMAIN applied : applied[i].kind = "order" =>
        LET s == seen[applied[i].agent]
            before == s[Len(s) - 1]
        IN  IF applied[i].side = "buy" THEN applied[i].qty * Mid(before) =< before.cash
            ELSE applied[i].qty =< before.shares

DecidesOnce ==
    tick' = tick + 1 =>
        \A a \in Agents :
            LET mine == {i \in DOMAIN applied' : applied'[i].agent = a}
            IN  IF tick > 0 /\ Bust(seen[a][Len(seen[a])]) THEN mine = {}
                ELSE Cardinality({i \in mine : applied'[i].kind = "decision"}) = 1

\* An agent that went bankrupt has left the episode: its orders and decisions
\* stop, and those of every other agent go on, one decision a day.

\* The rewards of an operator add up to what its equity gained and what it was
\* paid, whichever days its report was published; days without a report on both
\* ends count by net worth.
RewardsAddUp ==
    \A a \in Agents : seen[a] # <<>> =>
        LET s == seen[a]
            n == Len(s)
            lit == {i \in 1 .. n - 1 : i \notin Dark(a)}
            days == [i \in 1 .. n - 1 |-> IF i \in lit THEN s[i + 1].dividend
                                          ELSE s[i + 1].worth - s[i].worth]
        IN  total[a] = s[n].equity - s[1].equity + SumOf(days)

\* The spread the trader's reward is divided by is that of the profits of this
\* episode, all of them and no other.
SpreadOfTheEpisode ==
    \A a \in Agents : seen[a] # <<>> =>
        LET p == Profits(Worths(a))
            n == Len(p)
            sq == SumOf([i \in 1 .. n |-> p[i] * p[i]])
            r == view[a].returns
        IN  /\ r = SharpeParts(Worths(a))
            /\ r.n = n /\ r.mean * n = Twelfths * SumOf(p)
            /\ r.m2 * n = Twelfths * (n * sq - SumOf(p) * SumOf(p))

\* The drawdown of an evaluated path is the deepest fall from the highest net
\* worth before it, as a share of that; a path never above zero has none.
DrawdownIsTheDeepest ==
    LET w == [i \in DOMAIN year |-> year[i].worth]
        peak(j) == CHOOSE v \in {w[i] : i \in 1 .. j} : \A i \in 1 .. j : w[i] =< v
        falls == {[a |-> peak(j) - w[j], b |-> peak(j)] : j \in {k \in DOMAIN w : peak(k) > 0}}
        d == Metrics(year).max_drawdown
    IN  /\ d = [a |-> 0, b |-> 1] \/ \E f \in falls : f.a * d.b = d.a * f.b
        /\ \A f \in falls : f.a * d.b =< d.a * f.b

\* An agent that stays bankrupt for days is counted once, and once more when it
\* recovers and fails again.
OnsetsCounted ==
    LET f == [i \in DOMAIN year |-> Bust(year[i])]
    IN  Metrics(year).bankruptcies = Cardinality({i \in DOMAIN f : f[i] /\ (i = 1 \/ ~f[i - 1])})

\* Rewards, their spread and the scores of a year are those of the record they are
\* summed along, and orders fit the day they are sized by.
ScoresFollowTheRecord ==
    /\ TypeOK /\ ObservationsFit /\ OrdersFit /\ RewardsAddUp /\ SpreadOfTheEpisode
    /\ DrawdownIsTheDeepest /\ OnsetsCounted
=============================================================================
