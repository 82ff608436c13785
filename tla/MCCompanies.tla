------------------------------- MODULE MCCompanies -----------------------------
(* A firm in a cell of four units, through three months; or, in behaviours of *)
(* their own, the markets it buys in: two sellers, two buyers, contracts of   *)
(* one and of two months; or the registers of two firms of one founder; or    *)
(* the desk of a firm, a decision or two ratings in four months.              *)
EXTENDS Firms, FirmDesk

FourUnits == [capacity |-> 4, stock |-> 12]
DueAtTheEnd == <<2, 1, 4>>
MoreOrLess == {-1, 4}
Earnings == {-2, 3}
\* A firm that owes less than its line, and one that owes more than what is left of it.
TwoStandings == {[price |-> 5, plant |-> 10, employees |-> 5, limit |-> 3, drawn |-> 2],
                 [price |-> 0, plant |-> 0, employees |-> 0, limit |-> 1, drawn |-> 4]}
\* Sound; indebted; the same, and swinging; small; short of its interest.
FiveConditions ==
    {[nd |-> nd, icr |-> icr, size |-> size, vol |-> vol, ebitda |-> 5, plant |-> 40, gate |-> 80] :
        <<nd, icr, size, vol>> \in {<<90, 300, 200, 10>>, <<301, 160, 200, 10>>, <<301, 160, 200, 50>>,
                                   <<301, 150, 50, 10>>, <<650, 90, 50, 50>>}}
ByRating == <<120, 110, 100, 90, 70, 50, 25>>

TwoForwards ==
    {[buyer |-> "b1", seller |-> "s1", qty |-> 20, price |-> 2, months |-> 2],
     [buyer |-> "b2", seller |-> "s1", qty |-> 30, price |-> 3, months |-> 1]}
TwoTargets == {[s1 |-> 20, s2 |-> 80], [s1 |-> 90, s2 |-> 10]}

VARIABLES part, gmonth, book, opened, gpos, closed, share, backlog, last
goods_vars == <<gmonth, book, opened, gpos, closed, share, backlog, last>>

G == INSTANCE Goods WITH
        Buyers <- {"b1", "b2"}, Sellers <- {"s1", "s2"}, Forwards <- TwoForwards,
        Avails <- {0, 25, 70}, Spots <- {0, 30}, Demands <- {40, 100}, Targets <- TwoTargets,
        Loyalty <- 3, BacklogLoss <- 10, Orders <- {0, 20, 45}, Weights <- {1, 3},
        Vacancies <- {0, 10, 45}, OrderCap <- 90, HireShare <- 60,
        MaxMonth <- 2, MaxContracts <- 3,
        month <- gmonth, pos <- gpos

VARIABLES trading, moves, shares, history, controller, handover, decls, offer, received, queued,
          reviewed, bypassed
equity_vars == <<trading, moves, shares, history, controller, handover, decls, offer, received, queued,
                 reviewed, bypassed>>

Bids == {<< >>, <<[buyer |-> "bob", qty |-> 2], [buyer |-> "G", qty |-> 1]>>}

E == INSTANCE Equity WITH
        Firms <- {"F", "G"}, Founder <- [F |-> "ann", G |-> "ann"], Order <- <<"F", "G", "ann", "bob">>,
        FounderShares <- 4, Lots <- {3}, Lot <- 3, Price <- 2, Reserve <- [F |-> 2, G |-> 3], Amounts <- {10}, Clearings <- Bids,
        PillTrigger <- 50, PillRatio <- 1, ExchangeRatio <- 2, DaysPerMonth <- 2, MaxTick <- 3,
        MaxOps <- 3, tick <- trading, operator <- controller, ops <- moves, pos <- shares, pending <- handover

ASSUME EquityAssumed == E!EquityAssumption

MCInit == /\ Init /\ G!Init /\ E!Init /\ DeskInit
          /\ part \in {"firm", "goods", "equity", "desk"} /\ operator = "ann"
MCNext == \/ part = "firm" /\ Next /\ UNCHANGED <<part, goods_vars, equity_vars, desk_vars>>
          \/ part = "goods" /\ G!Next /\ UNCHANGED <<part, vars, equity_vars, desk_vars>>
          \/ part = "equity" /\ E!Next /\ UNCHANGED <<part, vars, goods_vars, desk_vars>>
          \/ part = "desk" /\ DeskNext /\ UNCHANGED <<part, vars, goods_vars, equity_vars>>
MCSpec == MCInit /\ [][MCNext]_<<part, vars, goods_vars, equity_vars, desk_vars>>

\* Goods, contracts and labour are shared out (Goods).
GoodsSharedOut == part = "goods" => G!GoodsSharedOut
\* Registers, cash and dividends (Equity).
RegisterAndCash == part = "equity" => E!RegisterAndCash
\* A firm changes hands by a majority, and its operator at the end of a month (Equity).
MovesAreAuthorised == [][E!ControlStep]_equity_vars
=============================================================================
