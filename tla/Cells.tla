------------------------------- MODULE Cells --------------------------------
(* What a cell - one sector in one region - adds up to: the mass of small     *)
(* firms (NPC) and the agents' firms with a plant in it (firms/cells.py).     *)
(* Firms open and close plants, hire and set prices; a cell without NPC mass  *)
(* is served by its firms alone.                                              *)
(*                                                                            *)
(* Units: employment and customer shares count twelfths; a price is a         *)
(* fraction [num, den].  Capacities are such that the divisions are exact.    *)
EXTENDS Integers, Functions

CONSTANTS
    Firms, CellNames,
    Npc,            \* cell -> [capacity, output, employment, price, sales] of its NPC mass
    Capacities, Heads, Prices, Demands,   \* what a plant, a firm, a price, a month may be
    MaxMoves, MaxMonths                   \* bounds

Whole == 12

CellsAssumption ==
    \A c \in CellNames : Npc[c].capacity = 0 => Npc[c].output = 0 /\ Npc[c].sales = 0 /\ Npc[c].employment = 0

VARIABLES
    plants,     \* firm -> cell -> capacity, 0 without a plant
    employees,  \* headcount of each firm
    posted,     \* posted_price of each firm in each cell
    share,      \* customer_share, in twelfths
    history,    \* of the served cells: what the last month's aggregate was, and its demand
    fresh,      \* cells served since a plant in them last changed
    moves, months

vars == <<plants, employees, posted, share, history, fresh, moves, months>>

Total(f, S) == FoldFunctionOnSet(LAMBDA x, y : x + y, 0, f, S)
Here(c) == {f \in Firms : plants[f][c] > 0}

\* firm_cell_arrays: firms with capacity in the cell; employment by share of the firm's capacity.
Arrays(c) ==
    [f \in Here(c) |->
        [capacity   |-> plants[f][c],
         output     |-> plants[f][c],
         employment |-> (Whole * employees[f] * plants[f][c]) \div Total(plants[f], CellNames),
         price      |-> posted[f][c],
         sales      |-> share[f][c] * plants[f][c]]]

Field(a, k) == [f \in DOMAIN a |-> a[f][k]]
SumOf(a, k) == Total(Field(a, k), DOMAIN a)
Weighted(a, k) == Total([f \in DOMAIN a |-> a[f].price * a[f][k]], DOMAIN a)

\* reference_price: by sales, by capacity if nothing was sold; without NPC mass of the firms only.
\* A cell without firms and NPC mass has none (NaN).
ReferencePrice(npc, a) ==
    LET w == Whole * npc.sales + SumOf(a, "sales")
        k == npc.capacity + SumOf(a, "capacity")
    IN  IF w > 0 THEN [num |-> Whole * npc.price * npc.sales + Weighted(a, "sales"), den |-> w]
        ELSE IF k > 0 THEN [num |-> npc.price * npc.capacity + Weighted(a, "capacity"), den |-> k]
        ELSE [num |-> npc.price, den |-> 0]

\* aggregate_cell: sums of the NPC mass and the firms.
Aggregate(npc, a) ==
    [capacity   |-> npc.capacity + SumOf(a, "capacity"),
     output     |-> npc.output + SumOf(a, "output"),
     employment |-> Whole * npc.employment + SumOf(a, "employment"),
     sales      |-> Whole * npc.sales + SumOf(a, "sales"),
     p_ref      |-> ReferencePrice(npc, a)]

\* aggregates_for_registry.
Aggregates == [c \in CellNames |-> Aggregate(Npc[c], Arrays(c))]

-----------------------------------------------------------------------------
\* A plant is opened, enlarged or closed.
Build(f, c, k) ==
    /\ moves < MaxMoves /\ k /= plants[f][c]
    /\ plants' = [plants EXCEPT ![f][c] = k]
    /\ fresh' = fresh \ {c} /\ moves' = moves + 1
    /\ UNCHANGED <<employees, posted, share, history, months>>

Staff(f, n, p, c) ==
    /\ moves < MaxMoves
    /\ employees' = [employees EXCEPT ![f] = n]
    /\ posted' = [posted EXCEPT ![f][c] = p]
    /\ moves' = moves + 1
    /\ UNCHANGED <<plants, share, history, fresh, months>>

\* step_zero_npc_cell, one month: what is supplied is filled alike.
Fill(demand, supply) == IF supply = 0 THEN 0 ELSE IF demand >= supply THEN Whole ELSE (Whole * demand) \div supply
Served(a, fill) == [f \in DOMAIN a |-> [a[f] EXCEPT !.sales = a[f].output * fill]]

Serve(c, demand) ==
    /\ months < MaxMonths /\ Npc[c].capacity = 0
    /\ LET a    == Arrays(c)
           fill == Fill(demand, SumOf(a, "output"))
       IN  /\ share' = [f \in Firms |-> IF f \in Here(c) THEN [share[f] EXCEPT ![c] = fill] ELSE share[f]]
           /\ history' = [history EXCEPT ![c] = [agg |-> Aggregate(Npc[c], Served(a, fill)), demand |-> demand]]
    /\ fresh' = fresh \cup {c} /\ months' = months + 1
    /\ UNCHANGED <<plants, employees, posted, moves>>

Init ==
    /\ plants = [f \in Firms |-> [c \in CellNames |-> 0]]
    /\ employees = [f \in Firms |-> 0]
    /\ posted = [f \in Firms |-> [c \in CellNames |-> 1]]
    /\ share = [f \in Firms |-> [c \in CellNames |-> 0]]
    /\ history = [c \in CellNames |-> [agg |-> Aggregate(Npc[c], << >>), demand |-> 0]]
    /\ fresh = {} /\ moves = 0 /\ months = 0

Next ==
    \/ \E f \in Firms, c \in CellNames, k \in Capacities \cup {0} : Build(f, c, k)
    \/ \E f \in Firms, c \in CellNames, n \in Heads, p \in Prices : Staff(f, n, p, c)
    \/ \E c \in CellNames, d \in Demands : Serve(c, d)

Spec == Init /\ [][Next]_vars

-----------------------------------------------------------------------------
TypeOK ==
    /\ \A f \in Firms, c \in CellNames :
          plants[f][c] \in Capacities \cup {0} /\ share[f][c] \in 0..Whole /\ posted[f][c] \in Prices \cup {1}
    /\ fresh \subseteq CellNames /\ moves \in 0..MaxMoves /\ months \in 0..MaxMonths

\* Every employee of a firm that has a plant is counted in exactly one cell's worth of the whole,
\* wherever the firm's plants are (firm_cell_arrays); a reference price lies between the prices
\* it stands for (reference_price); a served cell sells what is asked for and no more than it
\* can make, and until a plant in it changes the registry still says so (step_zero_npc_cell).
CellsSumUp ==
    /\ Total(Field(Aggregates, "employment"), CellNames) =
         Whole * (Total([c \in CellNames |-> Npc[c].employment], CellNames)
                  + Total(employees, {f \in Firms : \E c \in CellNames : plants[f][c] > 0}))
    /\ \A c \in CellNames :
         LET r  == Aggregates[c].p_ref
             ps == {posted[f][c] : f \in Here(c)} \cup IF Npc[c].capacity > 0 THEN {Npc[c].price} ELSE {}
         IN  r.den > 0 => (\E p \in ps : p * r.den <= r.num) /\ (\E p \in ps : r.num <= p * r.den)
    /\ \A c \in fresh :
         LET h == history[c]
             most == IF h.demand < h.agg.capacity THEN h.demand ELSE h.agg.capacity
         IN  h.agg.sales = Whole * most /\ Aggregates[c].sales = h.agg.sales
=============================================================================
