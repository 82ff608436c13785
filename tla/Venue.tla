-------------------------------- MODULE Venue --------------------------------
(***************************************************************************)
(* The engine's market maker (market/mm.py), one book: orders are parked,  *)
(* and matched together at the end of the tick, against a quote that the   *)
(* tick's own net volume moves (market/impact.py), within a budget; the    *)
(* background flow (market/background.py) moves the price as well.         *)
(*                                                                         *)
(* Prices are whole ticks: the skew, the half-spread and the impact are    *)
(* added where the code multiplies.                                        *)
(***************************************************************************)
EXTENDS Integers, FiniteSets, FiniteSetsExt, Sequences, SequencesExt, Functions

CONSTANTS
    Traders,                    \* 1 .. n, in the order of their ids
    Kinds,                      \* [side, type, tif, price, seq] an order may have; "stop" has its price
                                \* as the stop, and seq is 0 where the sender gives none
    Qtys, Marks,                \* of an order; mids the world may set
    Mid0, Half, SkewPer, Budget,\* half-spread; inventory a tick of skew takes; per tick, in cr
    Strong, MaxXi,              \* volume beyond which impact is two ticks; bound of it
    MaxOrders, MaxClock, MaxCalls   \* bounds

VARIABLES
    clock, calls,
    orders, nextId,             \* the live orders, by id
    seqs,                       \* of each trader, the highest sequence so far
    mid, last, inventory, xi,   \* last is 0 before the first fill
    asked, filled,              \* by id: what was asked for, and what was done
    reached,                    \* ids of stops whose price has been seen
    matched                     \* the last matching: [spent, fills, wanted]

vars == <<clock, calls, orders, nextId, seqs, mid, last, inventory, xi, asked, filled, reached, matched>>

Least(x, y) == IF x =< y THEN x ELSE y
Sign(side) == IF side = "buy" THEN 1 ELSE -1
Call == calls < MaxCalls /\ calls' = calls + 1

-----------------------------------------------------------------------------
(* Order entry *)

MM == 0

\* _accept: not of the market maker itself, and of a size and at the prices it needs.
Acceptable(t, k, q) == t # MM /\ q > 0 /\ (k.type # "market" => k.price > 0)
Numbered(t, k) == IF k.seq = 0 THEN seqs[t] + 1 ELSE k.seq

\* submit: the order is parked, under the sequence its sender gave or the next one.
Submit(t, k, q) ==
    /\ Call /\ nextId =< MaxOrders /\ Acceptable(t, k, q)
    /\ seqs' = [seqs EXCEPT ![t] = IF Numbered(t, k) > @ THEN Numbered(t, k) ELSE @]
    /\ orders' = [i \in DOMAIN orders \cup {nextId} |->
                    IF i = nextId
                    THEN [who |-> t, seq |-> Numbered(t, k), left |-> q, qty |-> q, fired |-> FALSE, o |-> k]
                    ELSE orders[i]]
    /\ asked' = Append(asked, q) /\ filled' = Append(filled, 0) /\ nextId' = nextId + 1
    /\ UNCHANGED <<clock, mid, last, inventory, xi, reached, matched>>

Without(ids) == Restrict(orders, DOMAIN orders \ ids)

Cancel(i) ==
    /\ Call /\ orders' = Without({i})
    /\ asked' = [asked EXCEPT ![i] = filled[i]]
    /\ UNCHANGED <<clock, nextId, seqs, mid, last, inventory, xi, filled, reached, matched>>


\* What is left becomes q, and the size grows with it; an order at market stays one.
Amended(i, q, p) ==
    [orders[i] EXCEPT !.left = q, !.qty = IF q > @ THEN q ELSE @,
                      !.o.price = IF p > 0 /\ orders[i].o.type = "limit" THEN p ELSE @]

\* replace; p is 0 where the price stays and negative where it is refused.  The
\* quantity is set before the price is looked at: a refused call has changed it.
\* (A price given to a stop would make it a stop with a limit: not modelled.)
Replace(i, q, p) ==
    /\ Call /\ (orders[i].o.type = "stop" => p = 0)
    /\ orders' = [orders EXCEPT ![i] = Amended(i, q, p)]
    /\ asked' = [asked EXCEPT ![i] = filled[i] + q]
    /\ UNCHANGED <<clock, nextId, seqs, mid, last, inventory, xi, filled, reached, matched>>

\* set_mark by the world.
SetMark(m) ==
    /\ Call /\ mid' = m
    /\ UNCHANGED <<clock, orders, nextId, seqs, last, inventory, xi, asked, filled, reached, matched>>

-----------------------------------------------------------------------------
(* The matching *)

Skewed == mid - inventory \div SkewPer
Ask == Skewed + Half
Bid == Skewed - Half
Reference == IF last = 0 THEN mid ELSE last

Fires(o) == IF o.o.side = "buy" THEN Reference >= o.o.price ELSE Reference =< o.o.price
Live(o) == o.o.type = "stop" => (o.fired \/ Fires(o))

\* _is_marketable: a stop that has fired is an order at market.
Marketable(o) ==
    /\ Live(o)
    /\ o.o.type = "limit" => IF o.o.side = "buy" THEN o.o.price >= Ask ELSE o.o.price =< Bid

\* By trader, sequence and id.
Key(i) == <<orders[i].who, orders[i].seq, i>>
Before(k, l) == \E n \in 1 .. 3 : k[n] < l[n] /\ \A m \in 1 .. n - 1 : k[m] = l[m]
InTurn == SetToSortSeq(DOMAIN orders, LAMBDA i, j : Before(Key(i), Key(j)))

Take(o, spent) == Least(o.left, (Budget - spent) \div mid)

\* The takes in turn, out of the budget.
Planned ==
    LET plan(acc, i) ==
            LET q == IF Marketable(orders[i]) THEN Take(orders[i], acc.spent) ELSE 0
            IN [spent |-> acc.spent + q * mid, take |-> Append(acc.take, q)]
    IN FoldLeft(plan, [spent |-> 0, take |-> << >>], InTurn)

\* ImpactKernel.step: what was there decays, the net volume adds to it.
Impact(q) == IF q = 0 THEN 0 ELSE (IF q > 0 THEN 1 ELSE -1) * (IF q * q > Strong * Strong THEN 2 ELSE 1)
Clip(x) == IF x > MaxXi THEN MaxXi ELSE IF x < -MaxXi THEN -MaxXi ELSE x

Decayed == IF xi > 0 THEN xi - 1 ELSE IF xi < 0 THEN xi + 1 ELSE 0

Stepped(q) == Clip(Decayed + Impact(q))

\* Done, or not to rest beyond this tick.
Over(o, left) == left = 0 \/ o.o.tif \in {"ioc", "day"}

\* end_tick: all marketable orders at the price after their own impact, then the
\* retirements.
EndTick ==
    LET turn == InTurn
        plan == Planned
        took(i) == plan.take[CHOOSE n \in DOMAIN turn : turn[n] = i]
        net == MapThenSumSet(LAMBDA i : Sign(orders[i].o.side) * took(i), DOMAIN orders)
        post == Skewed + Stepped(net * mid) - xi
        paid(i) == post + Sign(orders[i].o.side) * Half
        hit == SelectSeq(turn, LAMBDA i : took(i) > 0)
    IN /\ clock < MaxClock /\ clock' = clock + 1
       /\ xi' = Stepped(net * mid)
       /\ inventory' = inventory - MapThenSumSet(LAMBDA i : Sign(orders[i].o.side) * took(i) * paid(i),
                                                 DOMAIN orders)
       /\ last' = IF hit = << >> THEN last ELSE paid(Last(hit))
       /\ filled' = [i \in DOMAIN filled |-> filled[i] + IF i \in DOMAIN orders THEN took(i) ELSE 0]
       /\ orders' = [i \in {j \in DOMAIN orders : ~Over(orders[j], orders[j].left - took(j))} |->
                        [orders[i] EXCEPT !.left = @ - took(i),
                                          !.fired = @ \/ (orders[i].o.type = "stop" /\ Fires(orders[i]))]]
       /\ asked' = [i \in DOMAIN asked |->
                        IF i \in DOMAIN orders \ DOMAIN orders' THEN filled'[i] ELSE asked[i]]
       /\ reached' = reached \cup
                {i \in DOMAIN orders : Sign(orders[i].o.side) * (Reference - orders[i].o.price) >= 0}
       /\ matched' = [spent |-> plan.spent, mid |-> mid,
                      turn |-> [n \in DOMAIN turn |->
                                  [key |-> Key(turn[n]), left |-> orders[turn[n]].left, took |-> took(turn[n]),
                                   crosses |-> Marketable(orders[turn[n]]),
                                   with |-> Sign(orders[turn[n]].o.side) * net,
                                   beyond |-> IF orders[turn[n]].o.type = "limit"
                                              THEN Sign(orders[turn[n]].o.side)
                                                        * (paid(turn[n]) - orders[turn[n]].o.price)
                                              ELSE 0]]]
       /\ UNCHANGED <<calls, nextId, seqs, mid>>

\* BackgroundFlow.step and feed_impact: volume of nobody's, in the kernel alone.
Background(q) ==
    /\ Call /\ xi' = Stepped(q)
    /\ UNCHANGED <<clock, orders, nextId, seqs, mid, last, inventory, asked, filled, reached, matched>>

\* to_state and from_state: all but the fills of the last tick.
Image(o) == [who |-> o.who, seq |-> o.seq, left |-> o.left, qty |-> o.qty, fired |-> o.fired, o |-> o.o]
Kernel == [xi |-> xi]
Saved ==
    [clock |-> clock, next |-> nextId, seqs |-> seqs,
     orders |-> [i \in DOMAIN orders |-> Image(orders[i])],
     book |-> [mid |-> mid, inventory |-> inventory, last |-> last, kernel |-> Kernel]]
Reload ==
    /\ LET s == Saved
       IN /\ clock' = s.clock /\ nextId' = s.next /\ seqs' = s.seqs /\ orders' = s.orders
          /\ mid' = s.book.mid /\ inventory' = s.book.inventory /\ last' = s.book.last
          /\ xi' = s.book.kernel.xi
    /\ UNCHANGED <<calls, asked, filled, reached, matched>>

Init ==
    /\ clock = 0 /\ calls = 0 /\ orders = << >> /\ nextId = 1 /\ seqs = [t \in Traders |-> 0]
    /\ mid = Mid0 /\ last = 0 /\ inventory = 0 /\ xi = 0
    /\ asked = << >> /\ filled = << >> /\ reached = {}
    /\ matched = [spent |-> 0, mid |-> Mid0, turn |-> << >>]

Next ==
    \/ \E t \in Traders \cup {MM}, k \in Kinds, q \in Qtys \cup {0} : Submit(t, k, q)
    \/ \E i \in DOMAIN orders : Cancel(i) \/ (\E q \in Qtys, p \in {-1, 0} \cup Marks : Replace(i, q, p))
    \/ \E m \in Marks : SetMark(m)
    \/ \E q \in {-Strong, Strong + 1} : Background(q)
    \/ EndTick \/ Reload
Spec == Init /\ [][Next]_vars

-----------------------------------------------------------------------------
(* Properties *)

\* Types.
TypeOK ==
    /\ clock \in 0 .. MaxClock /\ nextId \in 1 .. MaxOrders + 1 /\ xi \in -MaxXi .. MaxXi
    /\ DOMAIN orders \subseteq 1 .. nextId - 1
    /\ \A i \in DOMAIN orders :
          orders[i].left \in 1 .. orders[i].qty /\ orders[i].seq \in 1 .. seqs[orders[i].who]

\* A tick's matching stays within the budget at the mid it began with.
BudgetKept == matched.spent =< Budget

\* An order that crosses the quote gets nothing only when those before it in turn
\* have used the budget up: once one is cut short, nobody after it trades.
ServedInTurn ==
    \A m, n \in DOMAIN matched.turn :
        LET a == matched.turn[m]
            b == matched.turn[n]
        IN (Before(a.key, b.key) /\ a.crosses /\ a.took < a.left) => b.took = 0

\* Through amendments, partial fills and ticks, an order has done and has left
\* what was asked for, and an order that is over does nothing more.
AskedIsDoneOrLeft ==
    \A i \in DOMAIN asked :
        asked[i] = filled[i] + (IF i \in DOMAIN orders THEN orders[i].left ELSE 0)

\* A stop trades only after its price was seen, and then counts as fired for good.
StopsWaitForTheirPrice ==
    \A i \in DOMAIN orders : orders[i].o.type = "stop" =>
        /\ orders[i].fired <=> i \in reached
        /\ filled[i] > 0 => i \in reached

\* A limit order is filled at the price after the batch's impact, which may lie beyond
\* its limit: by what the batch moves the quote and a tick of older impact that fades,
\* when the batch as a whole is on its side; by that tick alone when the batch is even;
\* and never when the batch is on the other side.
BeyondTheLimitByImpact ==
    \A n \in DOMAIN matched.turn :
        LET o == matched.turn[n]
        IN o.took > 0 => o.beyond =< (IF o.with > 0 THEN 3 ELSE IF o.with = 0 THEN 1 ELSE 0)

=============================================================================
