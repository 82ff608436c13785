-------------------------------- MODULE Supply --------------------------------
(***************************************************************************)
(* The goods side of a month of the economy (real/economy.py R3-R6,        *)
(* production.py, orders.py, capex.py, entry_exit.py, core/erlang.py):     *)
(* capacity under construction, plans, the caps of output, orders for      *)
(* inputs, rationing, inventories, backlogs and input stocks.              *)
(*                                                                         *)
(* Quantities are whole numbers, a share of one rounds down.  A sector     *)
(* sells from stock, to order, or as a flow.                               *)
(***************************************************************************)
EXTENDS Integers, FiniteSets, FiniteSetsExt, Sequences, SequencesExt, TLC

CONSTANTS
    Sectors, Mode,                      \* Mode[s] is "stock", "order" or "flow"
    Need, Critical,                     \* Need[i][j]: of i, per unit of j; critical pairs <<i, j>>
    Cap0, Stock0, Input0,               \* capacity, inventory and input stocks to begin with
    Cover, TauIn, TauOrder,             \* months of inputs held; speeds
    Finals, Labours, Starts, Scraps,    \* what a month may be
    Struck,                             \* <<who a catastrophe may strike, who rebuilds>>
    BacklogLoss,                        \* of unserved demand, in %
    Stages, MaxMonth                    \* of a pipeline; bound

VARIABLES
    month, cap, pipe,                   \* K and its Erlang chain
    expect, inv, backlog, input, fill,  \* se, inv, backlog, s_in[i, j], fill_prev in %
    recon,                              \* demand of a reconstruction
    tally,                              \* by sector: [made, sold, spoilt, ordered, dropped]
    built,                              \* by sector: [started, gone]
    last                                \* the month's [x, sales, served, orders, used, had]

vars == <<month, cap, pipe, expect, inv, backlog, input, fill, recon, tally, built, last>>

Least(x, y) == IF x =< y THEN x ELSE y
Most(x, y) == IF x >= y THEN x ELSE y
\* The function itself, spelt out: every value of it is needed more than once.
Table(f) == f @@ << >>
Storable(i) == Mode[i] = "stock"

-----------------------------------------------------------------------------
(* Capacity *)

\* ErlangChain.push: each stage passes half of what it holds on.
Pushed(q, inflow) ==
    LET step(acc, held) ==
            LET out == (held + acc.x) \div 2
            IN [x |-> out, q |-> Append(acc.q, held + acc.x - out)]
    IN FoldLeft(step, [x |-> inflow, q |-> << >>], q)

Content(q) == FoldLeft(LAMBDA acc, x : acc + x, 0, q)

\* step_capacity: a tenth wears out, what is finished is added, the scrapped leaves.
Worn(s) == cap[s] \div 10

Gone(s, scrapped) == Worn(s) + Least(scrapped, cap[s] - Worn(s))

-----------------------------------------------------------------------------
(* Output and its caps: k is the month's capacity, l the labour that is there *)

\* What spoils of an inventory in a month.
Spoilt(s) == inv[s] \div 10

Plan(s, k) ==
    Least(Most(IF Mode[s] = "stock" THEN expect[s] + Spoilt(s) + (Cover * expect[s] - inv[s]) + backlog[s] \div 2
               ELSE expect[s], 0), k)

\* Faulty: any input will do.
InputCap_Any(s, k) == k

\* input_cap: what the critical stored inputs allow.
InputCap(s, k) ==
    LET caps == {input[i][s] \div Need[i][s] : i \in {j \in Sectors : Storable(j) /\ Need[j][s] > 0 /\ <<j, s>> \in Critical}}
    IN IF caps = {} THEN k ELSE Least(k, Min(caps))

\* flow_crit_fill: last month's fill of the critical inputs that flow.
FlowFill(s) ==
    Min({100} \cup {fill[i] : i \in {j \in Sectors : ~Storable(j) /\ Need[j][s] > 0 /\ <<j, s>> \in Critical}})

\* order_matrix: inputs for the plan, and towards the cover for those stored.
Order(i, s, plan) ==
    Most(Need[i][s] * plan + (IF Storable(i) THEN (Cover * Need[i][s] * plan - input[i][s]) \div TauIn ELSE 0), 0)

-----------------------------------------------------------------------------
(* supply_and_ration *)

\* What unserved demand leaves in the backlog of a sector that sells from stock.
Waiting(s, unserved) == unserved - (unserved * BacklogLoss) \div 100

\* The fill of a sector, in per cent.
Filled(demand, avail) ==
    IF demand = 0 THEN (IF avail > 0 THEN 100 ELSE 0) ELSE (100 * Least(demand, avail)) \div demand

\* A sector's month: sales, what is left, what is still to do, and the share of the
\* new orders served, in per cent.
Served(s, new, goods, k, l) ==
    LET capped == (Least(k, l) * FlowFill(s)) \div 100
        due == new + backlog[s]
        x == CASE Mode[s] = "stock" -> goods
               [] Mode[s] = "order" -> Least(due \div TauOrder, capped)
               [] Mode[s] = "flow" -> Least(new, capped)
        avail == IF Mode[s] = "stock" THEN x + inv[s] - Spoilt(s) ELSE x
        demand == CASE Mode[s] = "stock" -> due [] Mode[s] = "order" -> x [] Mode[s] = "flow" -> new
        sales == Least(demand, avail)
    IN [x |-> x, sales |-> sales,
        left |-> IF Mode[s] = "stock" THEN avail - sales ELSE 0,
        waits |-> CASE Mode[s] = "stock" -> Waiting(s, due - sales)
                    [] Mode[s] = "order" -> due - x
                    [] Mode[s] = "flow" -> 0,
        fill |-> Filled(demand, avail),
        num |-> IF Mode[s] = "order" THEN x ELSE sales,
        den |-> IF Mode[s] = "order" THEN due ELSE demand]

\* The share of an order that is delivered.
Delivered(v, x) == IF v.den = 0 THEN 0 ELSE (x * v.num) \div v.den

\* step_month, R3 to R6: labour, starts, scrapping and final demand are the month's.
Worked(final, labour, start, scrap) ==
    LET push == Table([s \in Sectors |-> Pushed(pipe[s], start[s])])
        gone == Table([s \in Sectors |-> Gone(s, scrap[s])])
        k == Table([s \in Sectors |-> cap[s] + push[s].x - gone[s]])
        plan == Table([s \in Sectors |-> Plan(s, k[s])])
        order == Table([i \in Sectors |-> Table([s \in Sectors |-> Order(i, s, plan[s])])])
        asked == Table([s \in Sectors |-> final[s] + recon[s]])
        new == Table([s \in Sectors |-> MapThenSumSet(LAMBDA j : order[s][j], Sectors) + asked[s]])
        v == Table([s \in Sectors |->
                Served(s, new[s], (Min({plan[s], labour[s], InputCap(s, k[s])}) * FlowFill(s)) \div 100, k[s], labour[s])])
    IN [push |-> push, gone |-> gone, k |-> k, new |-> new, asked |-> asked, v |-> v,
        came |-> Table([i \in Sectors |-> Table([s \in Sectors |-> Delivered(v[i], order[i][s])])])]

Month(final, labour, start, scrap) ==
    \E w \in {Worked(final, labour, start, scrap)} :
       /\ month < MaxMonth /\ month' = month + 1
       /\ cap' = w.k /\ pipe' = [s \in Sectors |-> w.push[s].q]
       /\ built' = [s \in Sectors |-> [started |-> built[s].started + start[s], gone |-> built[s].gone + w.gone[s]]]
       /\ inv' = [s \in Sectors |-> w.v[s].left] /\ backlog' = [s \in Sectors |-> w.v[s].waits]
       /\ fill' = [s \in Sectors |-> w.v[s].fill]
       /\ input' = [i \in Sectors |-> [s \in Sectors |->
                        IF Storable(i) THEN Most(input[i][s] + w.came[i][s] - Need[i][s] * w.v[s].x, 0) ELSE 0]]
       /\ expect' = [s \in Sectors |-> expect[s] + (w.v[s].sales - expect[s]) \div 2]
       /\ recon' = [s \in Sectors |-> 0]
       /\ tally' = [s \in Sectors |->
                       [made |-> tally[s].made + w.v[s].x, sold |-> tally[s].sold + w.v[s].sales,
                        spoilt |-> tally[s].spoilt + (IF Mode[s] = "stock" THEN Spoilt(s) ELSE 0),
                        ordered |-> tally[s].ordered + w.new[s],
                        dropped |-> tally[s].dropped +
                            CASE Mode[s] = "stock" -> ((w.new[s] + backlog[s] - w.v[s].sales) * BacklogLoss) \div 100
                              [] Mode[s] = "order" -> 0
                              [] Mode[s] = "flow" -> w.new[s] - w.v[s].sales]]
       /\ last' = [x |-> [s \in Sectors |-> w.v[s].x], sales |-> [s \in Sectors |-> w.v[s].sales],
                   served |-> [s \in Sectors |-> MapThenSumSet(LAMBDA j : w.came[s][j], Sectors) + Delivered(w.v[s], w.asked[s])],
                   had |-> input, came |-> w.came]

\* A catastrophe (real/shocks.py): a share of capacity and stocks is gone, and the
\* claims become demand.
Catastrophe(s, where) ==
    /\ month < MaxMonth /\ cap[s] > 1 /\ recon[where] = 0
    /\ cap' = [cap EXCEPT ![s] = @ - @ \div 2] /\ inv' = [inv EXCEPT ![s] = @ - @ \div 2]
    /\ recon' = [recon EXCEPT ![where] = @ + cap[s] \div 2]
    /\ built' = [built EXCEPT ![s].gone = @ + cap[s] \div 2]
    /\ tally' = [tally EXCEPT ![s].spoilt = @ + inv[s] \div 2]
    /\ UNCHANGED <<month, pipe, expect, backlog, input, fill, last>>

Init ==
    /\ month = 0 /\ cap = Cap0 /\ pipe = [s \in Sectors |-> [n \in 1 .. Stages |-> 0]]
    /\ expect = [s \in Sectors |-> Cap0[s] \div 2] /\ inv = Stock0
    /\ backlog = [s \in Sectors |-> 0] /\ fill = [s \in Sectors |-> 100]
    /\ input = [i \in Sectors |-> [s \in Sectors |-> IF Storable(i) THEN Need[i][s] * Input0 ELSE 0]]
    /\ recon = [s \in Sectors |-> 0]
    /\ tally = [s \in Sectors |-> [made |-> 0, sold |-> 0, spoilt |-> 0, ordered |-> 0, dropped |-> 0]]
    /\ built = [s \in Sectors |-> [started |-> 0, gone |-> 0]]
    /\ last = [x |-> [s \in Sectors |-> 0], sales |-> [s \in Sectors |-> 0],
               served |-> [s \in Sectors |-> 0], had |-> input, came |-> input]

Next ==
    \/ \E final \in Finals, labour \in Labours, start \in Starts, scrap \in Scraps : Month(final, labour, start, scrap)
    \/ \E b \in Struck : Catastrophe(b[1], b[2])
Spec == Init /\ [][Next]_vars

-----------------------------------------------------------------------------
(* Properties *)

\* Types; nothing is ever negative.
TypeOK ==
    /\ month \in 0 .. MaxMonth
    /\ \A s \in Sectors : cap[s] >= 0 /\ inv[s] >= 0 /\ backlog[s] >= 0 /\ fill[s] \in 0 .. 100
    /\ \A i, s \in Sectors : input[i][s] >= 0

\* Capacity is what there was, what was started, less what is still being built and
\* what has worn out, was scrapped or destroyed.
CapacityExplained ==
    \A s \in Sectors : cap[s] + Content(pipe[s]) = Cap0[s] + built[s].started - built[s].gone

\* What was made is sold, in stock or spoilt; what was ordered is sold, waiting or
\* given up.
GoodsAccounted ==
    \A s \in Sectors :
        /\ Stock0[s] + tally[s].made = tally[s].sold + inv[s] + tally[s].spoilt
        /\ tally[s].ordered = tally[s].sold + backlog[s] + tally[s].dropped

\* A sector that sells from stock never uses more of a critical stored input than
\* it has, whatever was delivered late or lost: the floor of s_in never hides a
\* shortage of its.
CriticalInputsSuffice ==
    \A i, s \in Sectors : (Mode[s] = "stock" /\ Storable(i) /\ <<i, s>> \in Critical) =>
        Need[i][s] * last.x[s] =< last.had[i][s] + last.came[i][s]

\* Deliveries and final sales come out of sales.
ServedWithinSales == \A s \in Sectors : last.served[s] =< last.sales[s]

\* Capacity and goods are accounted for month by month, inputs are there before
\* they are used, and deliveries come out of sales.
GoodsTraced ==
    /\ TypeOK /\ CapacityExplained /\ GoodsAccounted
    /\ CriticalInputsSuffice /\ ServedWithinSales
=============================================================================
