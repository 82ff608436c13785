---------------------------- MODULE MCOrderBook ----------------------------
(* Small instances of OrderBook: which orders two agents may submit. *)
EXTENDS OrderBook

Ticket(a, side, q, type, tif, px, stop) ==
    [agent |-> a, side |-> side, qty |-> q, type |-> type, tif |-> tif,
     px |-> px, stop |-> stop, seq |-> 0]

Both(a, q, type, tif, px, stop) ==
    {Ticket(a, side, q, type, tif, px, stop) : side \in Sides}

\* The same orders with a sequence number of the agent's own.
Numbered(n, S) == {[t EXCEPT !.seq = n] : t \in S}

\* Stops and stop-limits of agent 1, for the day, against limits that print at
\* every tick.
StopTickets ==
    UNION {Both(1, 1, "limit", "GTC", 2, 0),
           Both(2, 1, "limit", "GTC", 2, 0),
           Numbered(1, Both(2, 1, "limit", "GTC", 3, 0)),
           Both(1, 1, "stop", "DAY", 0, 2), Both(1, 1, "stop", "DAY", 2, 3),
           Both(2, 1, "stop", "IOC", 1, 1)}

\* Orders for a call auction: limits at every tick, at market, IOC.
AuctionTickets ==
    UNION {Both(1, 1, "limit", "GTC", 1, 0),
           Numbered(7, Both(1, 1, "limit", "GTC", 3, 0)),
           Both(2, 1, "limit", "GTC", 2, 0), Both(2, 2, "limit", "IOC", 2, 0),
           Both(1, 2, "market", "DAY", 0, 0)}
=============================================================================
