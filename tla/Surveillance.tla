---------------------------- MODULE Surveillance ----------------------------
(* The scanner of the tape of one symbol (market/surveillance.py): every step   *)
(* records a batch of fills and a mark, forgets what is older than the longest  *)
(* window, and returns the flags of three windows of different lengths.         *)
EXTENDS Integers, Sequences, FiniteSetsExt, Functions, Bags

CONSTANTS Traders,       \* numbers, for the order of their names
          WashWindow, CircularN, PumpWindow, \* in ticks
          PumpRunup,     \* in percent
          PumpShare,     \* in percent
          Quantities, Marks, None,
          MaxClock, MaxPrints       \* bounds: ticks, and fills of a behaviour

ASSUME SurveillanceAssumption ==
    /\ {WashWindow, CircularN, PumpWindow} \subseteq Nat \ {0}
    /\ Traders \subseteq Nat /\ PumpRunup \in Nat /\ PumpShare \in 0..100
    /\ Quantities \cup Marks \subseteq Nat /\ MaxClock \in Nat /\ MaxPrints \in Nat

VARIABLES clock,          \* clock_tick
          prints,         \* _prints, a bag: everything read off it is sorted
          px,             \* _px: the last price of a tick
          flags,          \* what the last step returned; None once it is loaded
          tape, prices    \* history: every fill and every price there ever was
scanner_vars == <<clock, prints, px, flags, tape, prices>>

\* Who buys and who sells, by the side of the taker.
Counterparties(fill) == IF fill.side = "buy" THEN <<fill.taker, fill.maker>>
                                             ELSE <<fill.maker, fill.taker>>
PrintOf(fill) == LET who == Counterparties(fill)
                 IN  [tick |-> fill.tick, buyer |-> who[1], seller |-> who[2], qty |-> fill.qty]
Edges(rows) == {<<p.seller, p.buyer>> : p \in DOMAIN rows}

TwoWay(edges) == {e \in edges : e[1] < e[2] /\ <<e[2], e[1]>> \in edges}
\* Directed cycles of at least three, each from its smallest trader on.
Cycles(edges) ==
    UNION {{c \in [1..n -> Traders] :
               /\ \A i \in 1..n : <<c[i], c[(i % n) + 1]>> \in edges /\ c[1] <= c[i]
               /\ IsInjective(c)}
           : n \in {k \in 3..Cardinality(Traders) : k <= Cardinality(edges)}}

InWindow(rows, now, width) == Restrict(rows, {p \in DOMAIN rows : now - width + 1 <= p.tick /\ p.tick <= now})
Wash(rows) ==
    {[kind |-> "self-cross", agents |-> <<p.buyer>>] : p \in {q \in DOMAIN rows : q.buyer = q.seller}}
    \cup {[kind |-> "two-way", agents |-> e] : e \in TwoWay(Edges(rows))}
Circular(rows) == {[kind |-> "circular", agents |-> c] : c \in Cycles(Edges(rows))}
RunsUp(series, now) ==
    LET ticks == {t \in DOMAIN series : now - PumpWindow + 1 <= t /\ t <= now}
    IN  /\ Cardinality(ticks) >= 2
        /\ series[Min(ticks)] > 0
        /\ 100 * series[Max(ticks)] > (100 + PumpRunup) * series[Min(ticks)]
Bought(rows, who) == MapThenSumSet(LAMBDA p : rows[p] * p.qty, {p \in DOMAIN rows : p.buyer \in who})
Pump(rows, series, now) ==
    IF ~RunsUp(series, now) THEN {}
    ELSE {[kind |-> "pump", agents |-> <<a>>] : a \in
             {b \in Traders : 100 * Bought(rows, {b}) > PumpShare * Bought(rows, Traders)}}
Detect(rows, series, now) ==
    Wash(InWindow(rows, now, WashWindow)) \cup Circular(InWindow(rows, now, CircularN))
    \cup Pump(InWindow(rows, now, PumpWindow), series, now)

Horizon_Pairs == Max({WashWindow, CircularN})
Horizon == Max({WashWindow, CircularN, PumpWindow})
KeptPrints(rows, now) == Restrict(rows, {p \in DOMAIN rows : p.tick >= now - Horizon + 1})
KeptMarks(series, now) == Restrict(series, {t \in DOMAIN series : t >= now - Horizon + 1})

ScannerInit == /\ clock = 0 /\ prints = EmptyBag /\ px = [t \in {} |-> 0] /\ flags = None
        /\ tape = EmptyBag /\ prices = [t \in {} |-> 0]

\* A batch of at most one fill, which may be of an earlier tick, and a mark. A fill of a
\* later tick moves the clock on.
Batches(now) ==
    {<<>>} \cup {<<[tick |-> t, maker |-> m, taker |-> k, side |-> s, qty |-> q, price |-> p]>> :
        t \in {now - 1, now} \ {-1}, m \in Traders, k \in Traders, s \in {"buy", "sell"},
        q \in Quantities, p \in Marks}
Recorded(rows, batch) == IF batch = <<>> THEN rows ELSE rows (+) SetToBag({PrintOf(batch[1])})
\* The mark of a tick goes before the price of a fill in it, and both before what was known.
Marked(series, batch, mark, now) ==
    LET told == {batch[i].tick : i \in DOMAIN batch}
        closed == IF mark = None THEN {} ELSE {now}
    IN  [t \in DOMAIN series \cup told \cup closed |->
            IF t \in closed THEN mark ELSE IF t \in told THEN batch[1].price ELSE series[t]]
Step ==
    \E now \in clock..MaxClock, mark \in Marks \cup {None} : \E batch \in Batches(now) :
        /\ now <= clock + 1
        /\ BagCardinality(tape) + Len(batch) <= MaxPrints
        /\ clock' = now
        /\ prints' = KeptPrints(Recorded(prints, batch), now)
        /\ px' = KeptMarks(Marked(px, batch, mark, now), now)
        /\ flags' = Detect(prints', px', now)
        /\ tape' = Recorded(tape, batch)
        /\ prices' = Marked(prices, batch, mark, now)
\* to_state, from_state: the flags are returned once and not kept.
Restart == flags' = None /\ UNCHANGED <<clock, prints, px, tape, prices>>

ScannerNext == Step \/ Restart
ScannerSpec == ScannerInit /\ [][ScannerNext]_scanner_vars
-----------------------------------------------------------------------------
\* What a step returns is what the whole tape shows: nothing a window still needs was forgotten,
\* whichever of the three is the longest, and nothing forgotten counts.
FlagsOfTheTape == flags # None => flags = Detect(tape, prices, clock)
=============================================================================
