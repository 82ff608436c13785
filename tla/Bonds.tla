-------------------------------- MODULE Bonds --------------------------------
(***************************************************************************)
(* Government bonds: the desk of the REST world (api/rest.py BondDesk),    *)
(* the uniform-price auction (market/auction.py), the calendar of the debt *)
(* office (real/policy/debt_management.py) and the buckets' coupons and    *)
(* redemptions (pricing/bond_buckets.py), on the ledger of the world.      *)
(*                                                                         *)
(* Yields are the marks of a grid and face comes in whole units, so that a *)
(* pro-rata fill rounds down and the market maker takes what that leaves.  *)
(***************************************************************************)
EXTENDS Ledger, Sequences

CONSTANTS
    Agents, Insts,              \* bidders, and the buckets of the government
    Size, NpcAt, Fair,          \* of an auction; the NPC's schedule, rising; the fair yield
    Yields, Faces,              \* of a bid
    CouponRate, DecayRate,      \* percent of the face a month
    DaysPerMonth, AuctionDay,   \* the day of the month, from 1
    Months,                     \* of the calendar
    Strides,                    \* ticks a call may step the world by
    MaxTick, MaxBids, MaxResets \* bounds

MM == "MM"
Govt == "GOVT"
Entities == Agents \cup {MM, Govt}
Holders == Entities \ {Govt}
Slots == (0 .. Months - 1) \X Insts

\* The schedule offers the whole size at some yield and knows the yields of the
\* bids; a month redeems no more than there is.
ASSUME BondsAssumption ==
    /\ IsFiniteSet(Agents) /\ MM \notin Agents /\ Govt \notin Agents
    /\ IsFiniteSet(Insts) /\ Cash \notin Insts
    /\ Size \in Nat \ {0} /\ DOMAIN NpcAt \subseteq Nat /\ \A y \in DOMAIN NpcAt : NpcAt[y] \in Nat
    /\ \E y \in DOMAIN NpcAt : NpcAt[y] >= Size
    /\ Yields \cup {Fair} \subseteq DOMAIN NpcAt /\ Faces \subseteq Nat
    /\ CouponRate \in Nat /\ DecayRate \in 0 .. 100
    /\ DaysPerMonth \in Nat \ {0} /\ AuctionDay \in Nat \ {0} /\ Months \in Nat
    /\ Strides \subseteq Nat /\ MaxTick \in Nat /\ MaxBids \in Nat /\ MaxResets \in Nat

VARIABLES
    tick,
    bids,                       \* of each slot: [who, y, face]
    result,                     \* of each slot, None until it is cleared
    paid,                       \* months whose coupons are paid
    pos,                        \* the ledger of the world
    issued, redeemed, coupons,  \* in all
    resets

vars == <<tick, bids, result, paid, pos, issued, redeemed, coupons, resets>>

None == [stop |-> 0]
Least(x, y) == IF x =< y THEN x ELSE y
AtLeast0(x) == IF x < 0 THEN 0 ELSE x

\* auction_tick and announce_tick; the announcement only shows in a view.
AuctionTick(s) == s[1] * DaysPerMonth + AuctionDay - 1

-----------------------------------------------------------------------------
(* The auction *)

FaceOf(bs, K) == SumOver([k \in DOMAIN bs |-> bs[k].face], K)

\* The yields tried: the fair one, the one at which the NPC takes it all, the bids'.
TakesAll == CHOOSE y \in DOMAIN NpcAt : NpcAt[y] >= Size /\ \A z \in DOMAIN NpcAt : z < y => NpcAt[z] < Size
Candidates(bs) == {Fair, TakesAll} \cup {bs[k].y : k \in DOMAIN bs}

\* total_at: what the bids up to a yield and the NPC would take.
TotalAt(bs, y) == FaceOf(bs, {k \in DOMAIN bs : bs[k].y =< y}) + NpcAt[y]
StopOut(bs) ==
    CHOOSE y \in Candidates(bs) :
        TotalAt(bs, y) >= Size /\ \A z \in Candidates(bs) : z < y => TotalAt(bs, z) < Size

\* The groups of one yield from the lowest up, the last pro rata.
Fill(bs, stop, k) ==
    LET before == FaceOf(bs, {j \in DOMAIN bs : bs[j].y < bs[k].y})
        group == FaceOf(bs, {j \in DOMAIN bs : bs[j].y = bs[k].y})
        room == AtLeast0(Size - before)
    IN IF bs[k].y > stop THEN 0
       ELSE IF group =< room THEN bs[k].face ELSE (bs[k].face * room) \div group

\* clear_uniform.
Cleared(s, bs) ==
    LET stop == StopOut(bs)
        fill == [k \in DOMAIN bs |-> Fill(bs, stop, k)]
        fills == [a \in Agents |-> SumOver(fill, {k \in DOMAIN bs : bs[k].who = a})]
    IN [slot |-> s, stop |-> stop, fill |-> fills,
        npc |-> AtLeast0(Size - SumOver(fills, Agents))]

\* What a result gives everyone of the face; the market maker takes the NPC's part.
Takes(r) ==
    [e \in Entities |-> IF e = MM THEN r.npc
                        ELSE IF e = Govt THEN -(r.npc + SumOver(r.fill, Agents))
                        ELSE r.fill[e]]

\* settle_auction of every result there is: cash for face at par.
Settled(p, results) ==
    [e \in Entities |->
        LET taken == [r \in results |-> Takes(r)[e]]
        IN [i \in Insts \cup {Cash} |->
               IF i = Cash THEN p[e][i] - SumOver(taken, results)
               ELSE p[e][i] + SumOver(taken, {r \in results : r.slot[2] = i})]]

-----------------------------------------------------------------------------
(* The desk *)

Coupon(face) == (face * CouponRate) \div 100

Redemption(face) == (face * DecayRate) \div 100

\* What a month brings a holder on each bucket it has: nothing on one it is short of.
Coupons(p) == [e \in Holders |-> [i \in Insts |-> Coupon(AtLeast0(p[e][i]))]]
Redemptions(p) == [e \in Holders |-> [i \in Insts |-> Redemption(AtLeast0(p[e][i]))]]
Everyones(m) == SumOver([e \in Holders |-> SumOver(m[e], Insts)], Holders)

\* _pay_coupons: on what every holder has now, a coupon and a part redeemed.
PayMonth(p) ==
    LET coupon == Coupons(p)
        back == Redemptions(p)
    IN [e \in Entities |-> [i \in Insts \cup {Cash} |->
            IF i = Cash
            THEN p[e][i] + (IF e = Govt THEN -(Everyones(coupon) + Everyones(back))
                            ELSE SumOver(coupon[e], Insts) + SumOver(back[e], Insts))
            ELSE p[e][i] + (IF e = Govt THEN SumOver([h \in Holders |-> back[h][i]], Holders)
                            ELSE -back[e][i])]]

\* on_advance: n months, each on the books the last has left.
MonthOn(acc) ==
    [p |-> PayMonth(acc.p), c |-> acc.c + Everyones(Coupons(acc.p)),
     r |-> acc.r + Everyones(Redemptions(acc.p))]
AfterMonths(acc, n) ==
    LET after[m \in 0 .. n] == IF m = 0 THEN acc ELSE MonthOn(after[m - 1])
    IN after[n]

Due(s, t) == result[s] = None /\ t > AuctionTick(s)

\* Faulty: one month is paid however many have gone by.
MonthsDone_One(t) == Least(t \div DaysPerMonth, paid + 1)

MonthsDone(t) == t \div DaysPerMonth

\* step_world and on_advance: the auctions that are due are cleared, then the
\* coupons of every month not paid yet.
Step(n) ==
    LET t == tick + n
        due == {s \in Slots : Due(s, t)}
        results == {Cleared(s, bids[s]) : s \in due}
        months == AtLeast0(MonthsDone(t) - paid)
        end == AfterMonths([p |-> Settled(pos, results), c |-> coupons, r |-> redeemed], months)
    IN /\ t =< MaxTick /\ tick' = t
       /\ result' = [s \in Slots |-> IF s \in due THEN Cleared(s, bids[s]) ELSE result[s]]
       /\ pos' = end.p /\ coupons' = end.c /\ redeemed' = end.r
       /\ paid' = paid + months
       /\ issued' = issued + Size * Cardinality(results)
       /\ UNCHANGED <<bids, resets>>

\* add_bid: on any day until the auction is cleared.
Accepts(s, face) == result[s] = None /\ face > 0

\* A request to bid: refused, it changes nothing.
Bid(s, a, y, face) ==
    /\ Accepts(s, face)
    /\ SumOver([x \in Slots |-> Len(bids[x])], Slots) < MaxBids
    /\ bids' = [bids EXCEPT ![s] = Append(@, [who |-> a, y |-> y, face |-> face])]
    /\ UNCHANGED <<tick, result, paid, pos, issued, redeemed, coupons, resets>>

\* from_world: a desk with nothing bid, cleared or paid.
NewDesk ==
    /\ bids' = [s \in Slots |-> << >>] /\ result' = [s \in Slots |-> None] /\ paid' = 0

\* reset_world: the world's time and the desk begin again, the ledger does not.
Reset ==
    /\ resets < MaxResets /\ resets' = resets + 1 /\ tick' = 0
    /\ NewDesk
    /\ UNCHANGED <<pos, issued, redeemed, coupons>>

Init ==
    /\ tick = 0 /\ bids = [s \in Slots |-> << >>] /\ result = [s \in Slots |-> None]
    /\ paid = 0 /\ pos = EmptyBooks(Entities, Insts \cup {Cash})
    /\ issued = 0 /\ redeemed = 0 /\ coupons = 0 /\ resets = 0

Next ==
    \/ \E n \in Strides : Step(n)
    \/ \E s \in Slots, a \in Agents, y \in Yields, f \in Faces : Bid(s, a, y, f)
    \/ Reset
Spec == Init /\ [][Next]_vars

-----------------------------------------------------------------------------
(* Properties *)

\* Types: nobody is short of a bond.
TypeOK ==
    /\ tick \in 0 .. MaxTick /\ paid \in Nat /\ resets \in 0 .. MaxResets
    /\ \A e \in Holders, i \in Insts : pos[e][i] \in Nat
    /\ \A s \in Slots : result[s] # None => result[s].npc \in 0 .. Size

\* What is outstanding was issued and not redeemed, through auctions of several
\* months, steps of several ticks and resets; and the treasury's cash is what its
\* debt brought in less what it has cost.
DebtExplained ==
    /\ SumOver([i \in Insts |-> -pos[Govt][i]], Insts) = issued - redeemed
    /\ pos[Govt][Cash] = issued - redeemed - coupons
    /\ Consistent(pos, Insts \cup {Cash})

\* The bids of an agent that are below a yield, and those up to it.
Below(bs, a, y) == FaceOf(bs, {k \in DOMAIN bs : bs[k].who = a /\ bs[k].y < y})
UpTo(bs, a, y) == FaceOf(bs, {k \in DOMAIN bs : bs[k].who = a /\ bs[k].y =< y})

\* An auction places its whole size at one yield: those who bid lower are filled
\* before those who bid the stop-out, nobody beyond it, and the NPC takes no more
\* than its schedule offers at the stop-out and what rounding has left of each bid.
ClearsAtOneYield ==
    \A s \in Slots : result[s] # None =>
        LET r == result[s]
        IN /\ r.npc + SumOver(r.fill, Agents) = Size
           /\ \A a \in Agents : r.fill[a] \in Below(bids[s], a, r.stop) .. UpTo(bids[s], a, r.stop)
           /\ r.npc =< NpcAt[r.stop] + Len(bids[s])

\* The desk has cleared what is due and paid the months that are over, however
\* many ticks a step took and however often the world began again.
CaughtUp ==
    /\ \A s \in Slots : result[s] # None <=> tick > AuctionTick(s)
    /\ paid = tick \div DaysPerMonth

\* The debt is what the auctions sold, each at one yield, and with every step the
\* desk has done what was due.
AuctionsAndCoupons == TypeOK /\ DebtExplained /\ ClearsAtOneYield /\ CaughtUp
=============================================================================
