------------------------------ MODULE Exchange ------------------------------
(***************************************************************************)
(* What one order book promises to the agents who trade on it, with every *)
(* mechanism left out: no queue, no priority, no halt, no call auction and *)
(* no stop trigger.                                                        *)
(*                                                                         *)
(* An order is entered once, may be amended by its owner, trades only      *)
(* against an order of another agent on the other side, at a price neither *)
(* limit excludes, for no more than either has open, and never comes back  *)
(* after it has left.  The book of OrderBook implements this module.       *)
(***************************************************************************)
EXTENDS Naturals

CONSTANT Ids                \* order identifiers

VARIABLES
    live,                   \* the orders that may still trade
    left,                   \* the orders that have left the book for good
    terms,                  \* terms[i]: agent, side and limit (0: at any price)
    open,                   \* open[i]: the shares order i may still trade
    print                   \* the published last price

evars == <<live, left, terms, open, print>>

\* Orders that stay live keep their terms and their open size.
Keep(S) == \A i \in S \cap live : terms'[i] = terms[i] /\ open'[i] = open[i]

\* A price a limit on that side allows.
Allows(t, p) == \/ t.limit = 0
                \/ t.side = "buy"  /\ p =< t.limit
                \/ t.side = "sell" /\ p >= t.limit

Init == live = {} /\ left = {} /\ print = 0

\* One new order, with an identifier never used before.
Enter == /\ \E i \in Ids \ (live \cup left) :
               live' = live \cup {i} /\ open'[i] > 0
         /\ left' = left /\ print' = print
         /\ Keep(Ids)

\* The owner changes the size or the limit of one order, never its side.
Amend == /\ live' = live /\ left' = left /\ print' = print
         /\ \E i \in live : /\ terms'[i].agent = terms[i].agent
                            /\ terms'[i].side = terms[i].side
                            /\ open'[i] > 0
                            /\ Keep(Ids \ {i})

\* A buy and a sell of two agents trade q shares at the price that is printed;
\* an order with nothing open has left.
Trade == \E b, s \in live :
            LET q == open[b] - open'[b]
                gone == {i \in {b, s} : open'[i] = 0}
            IN /\ terms[b].side = "buy" /\ terms[s].side = "sell"
               /\ terms[b].agent # terms[s].agent
               /\ open'[b] < open[b]
               /\ open'[s] + q = open[s]
               /\ Allows(terms[b], print') /\ Allows(terms[s], print')
               /\ terms'[b] = terms[b] \/ b \in gone
               /\ terms'[s] = terms[s] \/ s \in gone
               /\ live' = live \ gone /\ left' = left \cup gone
               /\ Keep(live' \ {b, s})

\* Orders leave unfilled: cancelled by their owner or by the book, or expired.
Leave == /\ live' \subseteq live
         /\ left' = left \cup (live \ live')
         /\ Keep(live')

Next == Enter \/ Amend \/ Trade \/ Leave

Spec == Init /\ [][Next]_evars
=============================================================================
