------------------------------- MODULE MCMacro -------------------------------
(* The desk with two bidders, a bucket and two months of three days; or, in    *)
(* behaviours of their own, the secondary market with one bucket of the        *)
(* government, the central bank and the pool; or a book of the market maker;   *)
(* or nine months of the committee; or three months of flows posted on a       *)
(* ledger with and without a bank, between which a policymaker acts twice or   *)
(* an event writes loans off; or three months of the three kinds of sectors,   *)
(* short of labour, of a flowing input or of neither, struck by a catastrophe. *)
EXTENDS Bonds, Settlement, BondMarket, TLC

Schedule == (0 :> 1) @@ (1 :> 2) @@ (2 :> 9) @@ (3 :> 14)
BidderSymmetry == Permutations(Agents)
Shares == ("GB" :> 70) @@ ("POOL" :> 30)

VARIABLE part

ThreeKinds ==
    {[side |-> "buy", type |-> "limit", tif |-> "gtc", price |-> 11, seq |-> 2],
     [side |-> "sell", type |-> "market", tif |-> "ioc", price |-> 0, seq |-> 1],
     [side |-> "sell", type |-> "stop", tif |-> "day", price |-> 9, seq |-> 0]}

VARIABLES clock, calls, orders, nextId, seqs, mid, dealt, inventory, xi, asked, filled, reached, matched
venue_vars == <<clock, calls, orders, nextId, seqs, mid, dealt, inventory, xi, asked, filled, reached, matched>>

V == INSTANCE Venue WITH
        Traders <- {1, 2}, Kinds <- ThreeKinds, Qtys <- {2, 4}, Marks <- {8}, Mid0 <- 10,
        Half <- 1, SkewPer <- 40, Budget <- 50, Strong <- 25, MaxXi <- 4,
        MaxOrders <- 2, MaxClock <- 2, MaxCalls <- 4, last <- dealt

VARIABLES meeting, rule, ann, rate, true, seen, strategy, lever, guidance, sets, seed, meetings, pending, news, all
committee_vars ==
    <<meeting, rule, ann, rate, true, seen, strategy, lever, guidance, sets, seed, meetings, pending, news, all>>

C == INSTANCE Committee WITH
        Calendar <- {1, 2, 3, 5, 7, 8, 9, 11}, Figures <- {0, 2}, Lag <- 1, GapLag <- 3, Keep <- 5,
        Neutral <- 150, PerPoint <- 60, Rho <- 50, Grid <- 25, Deadband <- 10, Floor <- 0, Cred <- 70,
        Guided <- 50, Rates <- {80}, Blackout <- 1, MaxMonth <- 9, MaxSets <- 2,
        Recent <- 2, Past <- 4, Kept <- 6, Trigger <- 1, Cut <- 60, Fade <- 3, Leak <- 90, Clip <- 3,
        PerGap <- 10, Dots <- 2, Noise <- 25, month <- meeting,
        Seeds <- {[n \in 1 .. 9 |-> ((n % 3) - 1) * 20]}

Repayments == {0 - 4, 3}

VARIABLES passed, cap, pipe, expect, inv, backlog, input, fill, recon, tally, built, latest
goods_vars == <<passed, cap, pipe, expect, inv, backlog, input, fill, recon, tally, built, latest>>

Three == {"goods", "build", "power"}
Each(n) == [s \in Three |-> n]
Modes == [goods |-> "stock", build |-> "order", power |-> "flow"]
Needs == [goods |-> [goods |-> 1, build |-> 1, power |-> 0], build |-> Each(0),
          power |-> [goods |-> 1, build |-> 0, power |-> 0]]
CriticalPairs == {<<"goods", "goods">>, <<"goods", "build">>, <<"power", "goods">>}
Labour == {Each(12), [goods |-> 12, build |-> 2, power |-> 2]}

G == INSTANCE Supply WITH
        Sectors <- Three, Mode <- Modes, Need <- Needs, Critical <- CriticalPairs,
        Cap0 <- [goods |-> 12, build |-> 8, power |-> 10], Stock0 <- [goods |-> 5, build |-> 0, power |-> 0],
        Input0 <- 6, Cover <- 1, TauIn <- 2, TauOrder <- 2,
        Finals <- {Each(2), [goods |-> 9, build |-> 6, power |-> 0]}, Labours <- Labour,
        Starts <- {Each(3)}, Scraps <- {Each(0), [goods |-> 2, build |-> 8, power |-> 0]},
        Struck <- {<<"goods", "build">>}, BacklogLoss <- 10, Stages <- 2,
        MaxMonth <- 3, month <- passed, last <- latest

macro_vars == <<committee_vars, money_vars, goods_vars>>

MCInit == /\ Init /\ MarketInit /\ V!Init /\ C!Init /\ MoneyInit /\ G!Init
          /\ part \in {"desk", "market", "venue", "committee", "money", "goods"}
MCNext ==
    \/ part = "desk" /\ Next /\ UNCHANGED <<part, market_vars, venue_vars, macro_vars>>
    \/ part = "market" /\ MarketNext /\ UNCHANGED <<part, vars, venue_vars, macro_vars>>
    \/ part = "venue" /\ V!Next /\ UNCHANGED <<part, vars, market_vars, macro_vars>>
    \/ /\ part = "committee" /\ C!Next
       /\ UNCHANGED <<part, vars, market_vars, venue_vars, money_vars, goods_vars>>
    \/ /\ part = "money" /\ MoneyNext
       /\ UNCHANGED <<part, vars, market_vars, venue_vars, committee_vars, goods_vars>>
    \/ /\ part = "goods" /\ G!Next
       /\ UNCHANGED <<part, vars, market_vars, venue_vars, committee_vars, money_vars>>
MCSpec == MCInit /\ [][MCNext]_<<part, vars, market_vars, venue_vars, macro_vars>>

\* The committee and what it publishes (Committee).
NewsAsAnnounced == part = "committee" => C!NewsAsAnnounced
\* The goods side (Supply).
GoodsTraced == part = "goods" => G!GoodsTraced
=============================================================================
