----------------------------- MODULE MCAccounts -----------------------------
(* An agent that posts, cancels and decides through two threads of the server, *)
(* which may both step the world; or, in behaviours of their own, two          *)
(* accounts that trade an equity and a commodity on margin; or three fills     *)
(* among three traders under surveillance.                                     *)
EXTENDS Gateway, Surveillance

CONSTANTS t1, t2

Pool == Permutations({t1, t2})

VARIABLES part, day, stage, dealt, pos, price, debit, cost, pending, traded, losses
margin_vars == <<day, stage, dealt, pos, price, debit, cost, pending, traded, losses>>

M == INSTANCE Margin WITH
        Accounts <- <<"ann", "bob">>, Initial <- [EQ |-> 50, OIL |-> 10],
        Maintenance <- [EQ |-> 25, OIL |-> 7], Lendable <- {"EQ"}, Commission <- 1, Tax <- 1,
        Retail <- 2, Wholesale <- 1, BorrowFee <- 1, BrokerCap <- 40, Price0 <- [EQ |-> 5, OIL |-> 5],
        Payments <- {<<"EQ", 20>>, <<"OIL", -80>>}, Prices <- {2, 5}, Cash0 <- 300, Inventory <- 8,
        Lots <- {2}, Draws <- {700}, Slip <- 1, MaxDay <- 2, MaxOrders <- 3, orders <- dealt

ASSUME MarginAssumed == M!MarginAssumption

MCInit == /\ Init /\ M!Init /\ ScannerInit
          /\ part \in {"gateway", "margin", "tape"}
MCNext == \/ part = "gateway" /\ Next /\ UNCHANGED <<part, margin_vars, scanner_vars>>
          \/ part = "margin" /\ M!Next /\ UNCHANGED <<part, vars, scanner_vars>>
          \/ part = "tape" /\ ScannerNext /\ UNCHANGED <<part, vars, margin_vars>>
MCSpec == MCInit /\ [][MCNext]_<<part, vars, margin_vars, scanner_vars>>

\* The books of margin trading, and every step that forces orders or takes a loss (Margin).
LoansAccounted ==
    /\ [](part = "margin" => M!LoansAccounted)
    /\ [][M!ForcedOrLoss]_margin_vars
=============================================================================
