----------------------------- MODULE CallPrice -----------------------------
(***************************************************************************)
(* The clearing price of a call auction (market/clob.py).                  *)
(*                                                                         *)
(* AsWell and Clears state which tick an auction clears at.  ByRanges is   *)
(* the algorithm the code runs, which looks only at the limit prices and   *)
(* at the gaps between them; CallPriceIsRight of OrderBook compares the    *)
(* two.  dem and sup are functions from ticks to shares; centre is the     *)
(* tick of the tie-break, 0 for none.                                      *)
(***************************************************************************)
EXTENDS Integers, FiniteSetsExt

Distance(x, y) == IF x >= y THEN x - y ELSE y - x
Traded(dem, sup, p) == Min({dem[p], sup[p]})
Near(p, centre) == IF centre = 0 THEN 0 ELSE Distance(p, centre)

\* p clears at least as well as c: volume, then imbalance, then distance to the
\* centre, then the higher tick.
AsWell(dem, sup, centre, p, c) ==
    LET v(x) == Traded(dem, sup, x)
        m(x) == Distance(dem[x], sup[x])
        n(x) == Near(x, centre)
    IN \/ v(p) > v(c)
       \/ v(p) = v(c) /\ m(p) < m(c)
       \/ v(p) = v(c) /\ m(p) = m(c) /\ n(p) < n(c)
       \/ v(p) = v(c) /\ m(p) = m(c) /\ n(p) = n(c) /\ p >= c

\* Among the ticks cands the auction clears at p, and trades v shares there.
Clears(dem, sup, centre, cands, p, v) ==
    /\ p \in cands
    /\ v = Traded(dem, sup, p)
    /\ \A c \in cands : AsWell(dem, sup, centre, p, c)

-----------------------------------------------------------------------------
(* The code's algorithm *)

\* Faulty: a gap takes the demand of its lower end.
Ranges_DemandBelow(dem, sup, prices) ==
    {[lo |-> p, hi |-> p, dem |-> dem[p], sup |-> sup[p]] : p \in prices}
    \cup {[lo |-> g[1] + 1, hi |-> g[2] - 1, dem |-> dem[g[1]], sup |-> sup[g[1]]] :
            g \in {h \in prices \X prices : /\ h[2] - h[1] > 1
                                            /\ ~\E q \in prices : h[1] < q /\ q < h[2]}}

\* Ranges of ticks with the same demand and supply: each limit price, and each
\* gap between two neighbouring ones (the demand of its upper end, the supply of
\* its lower end).
Ranges(dem, sup, prices) ==
    {[lo |-> p, hi |-> p, dem |-> dem[p], sup |-> sup[p]] : p \in prices}
    \cup {[lo |-> g[1] + 1, hi |-> g[2] - 1, dem |-> dem[g[2]], sup |-> sup[g[1]]] :
            g \in {h \in prices \X prices : /\ h[2] - h[1] > 1
                                            /\ ~\E q \in prices : h[1] < q /\ q < h[2]}}

\* The tick of a range that is closest to the centre; its upper end without one.
ClosestIn(r, centre) == IF centre = 0 \/ centre > r.hi THEN r.hi
                        ELSE IF centre < r.lo THEN r.lo ELSE centre

Vol(r) == Min({r.dem, r.sup})
Off(r) == Distance(r.dem, r.sup)

\* The ranges that trade the most and, of those, leave the least imbalance.
Best(ranges) ==
    LET most == {r \in ranges : \A s \in ranges : Vol(r) >= Vol(s)}
    IN {r \in most : \A s \in most : Off(r) =< Off(s)}

\* The price and volume the code picks; 0, 0 when nothing trades.
ByRanges(dem, sup, prices, centre) ==
    LET some    == {r \in Ranges(dem, sup, prices) : Vol(r) > 0}
        tick(r) == ClosestIn(r, centre)
        first   == CHOOSE r \in Best(some) : \A s \in Best(some) :
                      \/ Near(tick(r), centre) < Near(tick(s), centre)
                      \/ /\ Near(tick(r), centre) = Near(tick(s), centre)
                         /\ tick(r) >= tick(s)
    IN IF some = {} THEN <<0, 0>> ELSE <<tick(first), Vol(first)>>

=============================================================================
