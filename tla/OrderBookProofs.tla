-------------------------- MODULE OrderBookProofs --------------------------
(***************************************************************************)
(* Theorems about OrderBook, for every set of agents and tickets, every    *)
(* band and every bound: its type invariant, that an auction is called at  *)
(* the right price and executes the volume it announces, that between      *)
(* calls no reached stop waits, the open market is not crossed, nothing of *)
(* a past day lives and nothing rests at market, and that the book         *)
(* implements Exchange.                                                    *)
(***************************************************************************)
EXTENDS OrderBook, WellFoundedInduction, TLAPS

-----------------------------------------------------------------------------
(* Sums over the identifiers, by induction on how many are added *)

\* A set that has 0, and n + 1 with n, has every natural number.
LEMMA Induction ==
    ASSUME NEW S, 0 \in S, \A n \in Nat : n \in S => n + 1 \in S
    PROVE  Nat \subseteq S
<1> DEFINE R == OpToRel(<, Nat)
           T == Nat \ S
<1> SUFFICES ASSUME T # {} PROVE FALSE
  OBVIOUS
<1>1. IsWellFoundedOn(R, Nat)
  BY NatLessThanWellFounded
<1>2. PICK x \in T : \A y \in T : ~(<<y, x>> \in R)
  <2>1. T \subseteq Nat
    OBVIOUS
  <2> HIDE DEF R, T
  <2> QED BY <1>1, <2>1, WFMin
<1>3. x \in Nat \ {0} /\ x - 1 \in Nat /\ x - 1 < x
  OBVIOUS
<1>4. x - 1 \in T
  BY <1>3
<1>5. <<x - 1, x>> \in R
  BY <1>3 DEF OpToRel
<1> QED BY <1>2, <1>4, <1>5

\* f[k]: the sum of w over the first k identifiers.
SumTo(f, w, k) == IF k = 0 THEN 0 ELSE f[k - 1] + w[k]
SumsUpTo(f, w, n) == f = [k \in 0 .. n |-> SumTo(f, w, k)]

LEMMA SumsExist ==
    ASSUME NEW w
    PROVE  \A n \in Nat : \E f : SumsUpTo(f, w, n)
<1> DEFINE Good == {n \in Nat : \E f : SumsUpTo(f, w, n)}
<1>1. ASSUME NEW n \in Nat, NEW f, \A k \in 1 .. n : f[k - 1] = SumTo(f, w, k - 1)
      PROVE  \E g : SumsUpTo(g, w, n)
  <2> DEFINE g == [k \in 0 .. n |-> SumTo(f, w, k)]
             h == [k \in 0 .. n |-> SumTo(g, w, k)]
  <2>1. \A k \in 0 .. n : g[k] = SumTo(f, w, k) /\ h[k] = SumTo(g, w, k)
    OBVIOUS
  <2>2. g = [k \in 0 .. n |-> g[k]] /\ h = [k \in 0 .. n |-> h[k]]
    OBVIOUS
  <2> HIDE DEF g, h
  <2>3. ASSUME NEW k \in 0 .. n PROVE SumTo(f, w, k) = SumTo(g, w, k)
    <3>1. CASE k = 0
      BY <3>1 DEF SumTo
    <3>2. CASE k # 0
      <4>1. k \in 1 .. n /\ k - 1 \in 0 .. n
        BY <3>2
      <4>2. f[k - 1] = g[k - 1]
        BY <1>1, <2>1, <4>1
      <4> QED BY <4>2, Zenon DEF SumTo
    <3> QED BY <3>1, <3>2
  <2>4. \A k \in 0 .. n : g[k] = h[k]
    BY <2>1, <2>3
  <2>5. g = h
    BY <2>2, <2>4
  <2>6. SumsUpTo(g, w, n)
    BY <2>5, Zenon DEF SumsUpTo, h
  <2> QED BY <2>6
<1>2. 0 \in Good
  BY <1>1
<1>3. ASSUME NEW n \in Nat, n \in Good
      PROVE  n + 1 \in Good
  <2>1. PICK f : SumsUpTo(f, w, n)
    BY <1>3
  <2>2. \A k \in 0 .. n : f[k] = SumTo(f, w, k)
    BY <2>1, Zenon DEF SumsUpTo
  <2>3. \A k \in 1 .. n + 1 : f[k - 1] = SumTo(f, w, k - 1)
    BY <2>2
  <2> QED BY <1>1, <2>3
<1> HIDE DEF Good
<1>4. Nat \subseteq Good
  BY <1>2, <1>3, Induction
<1> QED BY <1>4 DEF Good

Weights == [Ids -> Nat]

\* What a sum is made of.
SumsOf(f, w) == /\ f[0] = 0
                /\ \A k \in Ids : f[k] = f[k - 1] + w[k]
                /\ \A k \in 0 .. MaxOrders : f[k] \in Nat
                /\ SumOver(w) = f[MaxOrders]

LEMMA SumParts ==
    ASSUME NEW w \in Weights
    PROVE  \E f : SumsOf(f, w)
<1> DEFINE c == CHOOSE f : SumsUpTo(f, w, MaxOrders)
<1>1. SumsUpTo(c, w, MaxOrders)
  BY SumsExist, BookAssumption
<1>2. SumOver(w) = c[MaxOrders]
  BY Zenon DEF SumOver, SumsUpTo, SumTo
<1> HIDE DEF c
<1>3. c[0] = 0 /\ \A k \in Ids : c[k] = c[k - 1] + w[k]
  <2>1. \A k \in 0 .. MaxOrders : c[k] = SumTo(c, w, k)
    BY <1>1, Zenon DEF SumsUpTo
  <2>2. 0 \in 0 .. MaxOrders /\ \A k \in Ids : k \in 0 .. MaxOrders /\ k # 0
    BY BookAssumption DEF Ids
  <2> QED BY <2>1, <2>2, Zenon DEF SumTo
<1> DEFINE Good == {n \in Nat : n =< MaxOrders => c[n] \in Nat}
<1>4. 0 \in Good
  BY <1>3
<1>5. ASSUME NEW n \in Nat, n \in Good
      PROVE  n + 1 \in Good
  <2> SUFFICES ASSUME n + 1 =< MaxOrders PROVE c[n + 1] \in Nat
    OBVIOUS
  <2>1. n + 1 \in Ids /\ n + 1 - 1 = n /\ c[n] \in Nat
    BY <1>5, BookAssumption DEF Ids
  <2> QED BY <1>3, <2>1 DEF Weights
<1> HIDE DEF Good
<1>6. Nat \subseteq Good
  BY <1>4, <1>5, Induction
<1>7. \A k \in 0 .. MaxOrders : c[k] \in Nat
  BY <1>6, BookAssumption DEF Good
<1> QED BY <1>2, <1>3, <1>7 DEF SumsOf

\* A sum of sizes is a size, at least each of them, and zero if all are.
LEMMA SumFacts ==
    ASSUME NEW w \in Weights
    PROVE  /\ SumOver(w) \in Nat
           /\ \A i \in Ids : w[i] =< SumOver(w)
           /\ (\A i \in Ids : w[i] = 0) => SumOver(w) = 0
<1>1. PICK f : SumsOf(f, w)
  BY SumParts
<1> DEFINE Good == {n \in Nat : n =< MaxOrders =>
                      /\ \A i \in Ids : i =< n => w[i] =< f[n]
                      /\ (\A i \in Ids : w[i] = 0) => f[n] = 0}
<1>2. 0 \in Good
  BY <1>1 DEF SumsOf, Ids
<1>3. ASSUME NEW n \in Nat, n \in Good
      PROVE  n + 1 \in Good
  <2> SUFFICES ASSUME n + 1 =< MaxOrders
               PROVE  /\ \A i \in Ids : i =< n + 1 => w[i] =< f[n + 1]
                      /\ (\A i \in Ids : w[i] = 0) => f[n + 1] = 0
    OBVIOUS
  <2>1. /\ n + 1 \in Ids /\ n + 1 - 1 = n /\ n \in 0 .. MaxOrders
        /\ f[n] \in Nat /\ f[n + 1] = f[n] + w[n + 1]
    <3>1. n + 1 \in Ids /\ n + 1 - 1 = n /\ n \in 0 .. MaxOrders
      BY BookAssumption DEF Ids
    <3> QED BY <1>1, <3>1 DEF SumsOf
  <2>2. /\ \A i \in Ids : i =< n => w[i] =< f[n]
        /\ (\A i \in Ids : w[i] = 0) => f[n] = 0
    BY <1>3, BookAssumption
  <2>3. \A i \in Ids : w[i] \in Nat /\ i \in Nat
    BY DEF Weights, Ids
  <2>4. \A i \in Ids : i =< n + 1 => i =< n \/ i = n + 1
    BY <2>3
  <2> QED BY <2>1, <2>2, <2>3, <2>4
<1> HIDE DEF Good
<1>4. Nat \subseteq Good
  BY <1>2, <1>3, Induction
<1>5. MaxOrders \in Good /\ MaxOrders \in 0 .. MaxOrders
  BY <1>4, BookAssumption
<1>6. \A i \in Ids : i =< MaxOrders
  BY BookAssumption DEF Ids
<1> QED BY <1>1, <1>5, <1>6 DEF Good, SumsOf

\* A sum of which one member is q smaller is q smaller.
LEMMA SumChange ==
    ASSUME NEW w \in Weights, NEW v \in Weights, NEW b \in Ids, NEW q \in Nat,
           w[b] = v[b] + q, \A i \in Ids \ {b} : w[i] = v[i]
    PROVE  SumOver(w) = SumOver(v) + q
<1>1. PICK f : SumsOf(f, w)
  BY SumParts
<1>2. PICK g : SumsOf(g, v)
  BY SumParts
<1> DEFINE Good == {n \in Nat : n =< MaxOrders => f[n] = g[n] + (IF b =< n THEN q ELSE 0)}
<1>3. 0 \in Good
  BY <1>1, <1>2 DEF SumsOf, Ids
<1>4. ASSUME NEW n \in Nat, n \in Good
      PROVE  n + 1 \in Good
  <2> SUFFICES ASSUME n + 1 =< MaxOrders
               PROVE  f[n + 1] = g[n + 1] + (IF b =< n + 1 THEN q ELSE 0)
    OBVIOUS
  <2>1. n + 1 \in Ids /\ n + 1 - 1 = n /\ n \in 0 .. MaxOrders /\ b \in Nat
    BY BookAssumption DEF Ids
  <2>2. /\ f[n] \in Nat /\ f[n + 1] = f[n] + w[n + 1]
        /\ g[n] \in Nat /\ g[n + 1] = g[n] + v[n + 1]
        /\ f[n] = g[n] + (IF b =< n THEN q ELSE 0)
        /\ w[n + 1] \in Nat /\ v[n + 1] \in Nat
    BY <1>1, <1>2, <1>4, <2>1 DEF SumsOf, Weights
  <2>3. CASE b = n + 1
    BY <2>1, <2>2, <2>3
  <2>4. CASE b # n + 1
    <3>1. w[n + 1] = v[n + 1]
      BY <2>1, <2>4
    <3>2. b =< n + 1 <=> b =< n
      BY <2>1, <2>4
    <3> QED BY <2>2, <3>1, <3>2
  <2> QED BY <2>3, <2>4
<1> HIDE DEF Good
<1>5. Nat \subseteq Good
  BY <1>3, <1>4, Induction
<1>6. MaxOrders \in Good /\ \A i \in Ids : i =< MaxOrders
  BY <1>5, BookAssumption DEF Ids
<1> QED BY <1>1, <1>2, <1>6 DEF Good, SumsOf

-----------------------------------------------------------------------------
(* Lemmas about the changes the calls share *)

\* The smaller of two or of three sizes is one of them and at most each.
LEMMA MinTwo == ASSUME NEW a \in Nat, NEW b \in Nat
                PROVE  /\ Min({a, b}) \in {a, b}
                       /\ Min({a, b}) =< a /\ Min({a, b}) =< b
<1>1. \E x \in {a, b} : \A y \in {a, b} : x =< y
  <2>1. CASE a =< b  BY <2>1
  <2>2. CASE b =< a  BY <2>2
  <2> QED  BY <2>1, <2>2
<1> QED  BY <1>1 DEF Min

LEMMA MinThree == ASSUME NEW a \in Nat, NEW b \in Nat, NEW c \in Nat
                  PROVE  /\ Min({a, b, c}) \in {a, b, c}
                         /\ Min({a, b, c}) =< a /\ Min({a, b, c}) =< b
                         /\ Min({a, b, c}) =< c
<1>1. \E x \in {a, b, c} : \A y \in {a, b, c} : x =< y
  <2>1. CASE a =< b /\ a =< c  BY <2>1
  <2>2. CASE b =< a /\ b =< c  BY <2>2
  <2>3. CASE c =< a /\ c =< b  BY <2>3
  <2> QED  BY <2>1, <2>2, <2>3
<1> QED  BY <1>1 DEF Min

\* The absent price, order and auction are of their types.
LEMMA ZeroPrice == 0 \in Prices
BY BookAssumption DEF Prices

LEMMA NoAuctionType == NoAuction \in [px : Prices, left : Nat]
BY ZeroPrice DEF NoAuction

LEMMA NoOrderType == NoOrder \in OrderType
BY BookAssumption DEF NoOrder, OrderType, Prices

LEMMA RestType == ASSUME Stored, NEW i \in Ids, NEW o \in OrderType, Rest(i, o)
                  PROVE  Stored'
<1>1. [o EXCEPT !.prio = nextPrio] \in OrderType  BY DEF OrderType, Stored
<1> QED  BY <1>1 DEF Rest, Stored, Places

LEMMA RetireType == ASSUME Stored, NEW S, Retire(S)
                    PROVE  Stored'
BY NoOrderType DEF Retire, Stored, Places, counters

LEMMA TriggeredType == ASSUME NEW o \in OrderType
                       PROVE  Triggered(o) \in OrderType
BY DEF Triggered, OrderType, Types

LEMMA ActivateType == ASSUME Stored, NEW i \in Ids, NEW o \in OrderType, Activate(i, o)
                      PROVE  Stored'
BY TriggeredType DEF Activate, Stored, Places, counters

LEMMA ExecuteType ==
    ASSUME Stored, NEW x \in Ids, NEW y \in Ids, NEW q \in Nat, NEW p \in Prices,
           NEW full, Execute(x, y, q, p, full),
           q =< ord[x].rem, q =< ord[y].rem
    PROVE  Stored' /\ last' \in Prices
<1>1. ASSUME NEW i \in {x, y}
      PROVE  Less(ord[i], q) \in OrderType
  <2>1. ord[i] \in OrderType /\ q =< ord[i].rem  BY <1>1 DEF Stored
  <2>2. ord[i].rem - q \in Nat  BY <2>1 DEF OrderType
  <2> QED  BY <2>1, <2>2 DEF OrderType, Less
<1>2. \A i \in Ids : ord[i] \in OrderType /\ Triggered(ord[i]) \in OrderType
  BY TriggeredType DEF Stored
<1>3. ord' \in [Ids -> OrderType]
  BY <1>1, <1>2, NoOrderType DEF Execute
<1>4. at' \in [Ids -> Places]
  BY DEF Execute, Stored, Places
<1> QED  BY <1>3, <1>4 DEF Execute, Stored, counters

-----------------------------------------------------------------------------
(* Demand and supply *)

LEMMA SharesFacts ==
    ASSUME Stored, NEW S
    PROVE  /\ Shares(S) \in Nat
           /\ \A i \in Ids : i \in S => ord[i].rem =< Shares(S)
           /\ (\A i \in Ids : i \in S => ord[i].rem = 0) => Shares(S) = 0
<1> DEFINE w == [i \in Ids |-> IF i \in S THEN ord[i].rem ELSE 0]
<1>1. \A i \in Ids : ord[i].rem \in Nat
  BY DEF Stored, OrderType
<1>2. w \in Weights
  BY <1>1 DEF Weights
<1>3. Shares(S) = SumOver(w)
  BY DEF Shares
<1>4. \A i \in Ids : w[i] = IF i \in S THEN ord[i].rem ELSE 0
  OBVIOUS
<1> HIDE DEF w
<1> QED BY <1>2, <1>3, <1>4, SumFacts

LEMMA TradedFacts ==
    ASSUME Stored, NEW p \in Ticks
    PROVE  /\ Demand[p] = Shares(Willing("buy", p)) /\ Demand[p] \in Nat
           /\ Supply[p] = Shares(Willing("sell", p)) /\ Supply[p] \in Nat
           /\ Traded(Demand, Supply, p) \in {Demand[p], Supply[p]}
           /\ Traded(Demand, Supply, p) =< Demand[p]
           /\ Traded(Demand, Supply, p) =< Supply[p]
<1>1. /\ Demand[p] = Shares(Willing("buy", p)) /\ Supply[p] = Shares(Willing("sell", p))
  BY DEF Demand, Supply
<1>2. Demand[p] \in Nat /\ Supply[p] \in Nat
  BY <1>1, SharesFacts
<1>3. Traded(Demand, Supply, p) = Min({Demand[p], Supply[p]})
  BY DEF Traded
<1> QED BY <1>1, <1>2, <1>3, MinTwo

LEMMA CandidateTicks ==
    ASSUME Stored, Modes
    PROVE  Candidates \subseteq Ticks /\ LimitPrices \subseteq Candidates
<1>1. Centre \in Prices
  BY DEF Centre, Modes
<1>2. LimitPrices \subseteq Prices
  BY DEF LimitPrices, Limits, In, Stored, OrderType
<1>3. 0 \notin LimitPrices
  BY DEF LimitPrices, Limits, AtMarket
<1>4. LimitPrices \subseteq Ticks
  BY <1>2, <1>3, BookAssumption DEF Prices, Ticks
<1>5. CASE LimitPrices = {}
  BY <1>1, <1>5, BookAssumption DEF Candidates, Prices, Ticks
<1>6. CASE LimitPrices # {}
  <2>1. \A p \in LimitPrices : p \in Int /\ p =< p
    BY <1>4 DEF Ticks
  <2> QED BY <1>4, <1>6, <2>1 DEF Candidates
<1> QED BY <1>5, <1>6

-----------------------------------------------------------------------------
(* The type invariant *)

LEMMA AcceptType == ASSUME TypeOK, NEW t \in Tickets, Accept(t), call' \in {"accept", "run"}
                    PROVE  TypeOK'
<1>1. t \in TicketType  BY BookAssumption
<1>2. SeqOf(t) \in Nat /\ nextSeq' \in Nat \ {0}
  BY <1>1 DEF SeqOf, TicketType, TypeOK, Stored, Accept
<1>3. NewOrder(t) \in OrderType
  BY <1>1, <1>2, ZeroPrice, BookAssumption
     DEF NewOrder, TicketType, OrderType, TypeOK, Modes, Qtys
<1>4. /\ nextId \in Ids /\ nextId' = nextId + 1 /\ nextPrio' = nextPrio
      /\ ord' = [ord EXCEPT ![nextId] = NewOrder(t)]
      /\ at' = [at EXCEPT ![nextId] = "batch"]
      /\ UNCHANGED <<status, halted, ref, last, clock, auc, closing, selfCut>>
  BY DEF Accept
<1>5. Stored'  BY <1>2, <1>3, <1>4 DEF TypeOK, Stored, Places
<1> QED  BY <1>4, <1>5 DEF TypeOK, Modes

LEMMA UncrossType == ASSUME TypeOK, BeginUncross
                     PROVE  /\ Stored'
                            /\ status' \in {"AUCTION", "CONTINUOUS"} /\ halted' \in BOOLEAN
                            /\ auc' \in [px : Prices, left : Nat] /\ selfCut' \in BOOLEAN
<1>1. Candidates \subseteq Prices
  BY BookAssumption DEF Candidates, Centre, Ticks, Prices, TypeOK, Stored, Modes
<1>2. CASE BeginPriced
  <2>1. PICK p \in Candidates : auc' = [px |-> p, left |-> Traded(Demand, Supply, p)]
    BY <1>2 DEF BeginPriced
  <2>2. p \in Prices /\ Traded(Demand, Supply, p) \in Nat
    BY <1>1, CandidateTicks, TradedFacts DEF TypeOK
  <2>3. auc' \in [px : Prices, left : Nat] /\ selfCut' \in BOOLEAN
    BY <1>2, <2>1, <2>2 DEF BeginPriced
  <2> QED  BY <1>2, <2>3 DEF BeginPriced, TypeOK, Stored, Modes, counters
<1>3. CASE BeginEmpty
  <2>1. Stored'  BY <1>3, RetireType DEF BeginEmpty, TypeOK, Stored, Modes
  <2> QED  BY <1>3, <2>1 DEF BeginEmpty, TypeOK, Stored, Modes
<1> QED  BY <1>2, <1>3 DEF BeginUncross

\* Every step keeps the types.
LEMMA TypeStep == ASSUME TypeOK, [Next]_vars
                  PROVE  TypeOK'
<1> USE DEF TypeOK
<1>1. ASSUME NEW t \in Tickets, Submit(t) \/ IngestAccept(t)
      PROVE  TypeOK'
  BY <1>1, AcceptType DEF Submit, IngestAccept
<1>2. ASSUME NEW i \in Ids, Cancel(i)
      PROVE  TypeOK'
  BY <1>2, RetireType DEF Cancel, Modes, Unmoved
<1>3. ASSUME NEW i \in Ids, NEW q \in Qtys, SizeDown(i, q)
      PROVE  TypeOK'
  <2>1. q \in Nat  BY DEF Qtys
  <2>2. [ord[i] EXCEPT !.rem = q] \in OrderType  BY <2>1 DEF TypeOK, Stored, Modes, OrderType
  <2> QED  BY <1>3, <2>2 DEF SizeDown, TypeOK, Stored, Modes, counters, Unmoved
<1>4. ASSUME NEW i \in Ids, NEW q \in Qtys, SizeUp(i, q)
      PROVE  TypeOK'
  <2>1. q \in Nat  BY DEF Qtys
  <2>2. [ord[i] EXCEPT !.rem = q] \in OrderType  BY <2>1 DEF TypeOK, Stored, Modes, OrderType
  <2>3. Stored'  BY <1>4, <2>2, RestType DEF SizeUp
  <2> QED  BY <1>4, <2>3 DEF SizeUp, Modes, Unmoved
<1>5. ASSUME NEW i \in Ids, NEW q \in Qtys, NEW p \in Ticks, Reprice(i, q, p)
      PROVE  TypeOK'
  <2> DEFINE o == [ord[i] EXCEPT !.px = p, !.rem = q]
  <2>1. q \in Nat /\ p \in Prices  BY BookAssumption DEF Qtys, Ticks, Prices
  <2>2. o \in OrderType
    <3>1. ord[i] \in OrderType  BY DEF Stored
    <3> QED  BY <2>1, <3>1 DEF OrderType
  <2>3. (Rest(i, o) /\ UNCHANGED call) \/ (Activate(i, o) /\ call' = "run")
    BY <1>5 DEF Reprice
  <2> HIDE DEF o
  <2>4. Stored' /\ call' \in {"idle", "accept", "run"}
    BY <2>2, <2>3, RestType, ActivateType DEF Modes
  <2> QED  BY <1>5, <2>4 DEF Reprice, Modes, Unmoved
<1>6. CASE Uncross  BY <1>6, UncrossType DEF Uncross, Modes
<1>7. CASE StartAuction  BY <1>7 DEF StartAuction, TypeOK, Stored, Modes, counters
<1>8. CASE EndTick
  <2>1. CASE status = "AUCTION"  BY <1>8, <2>1, UncrossType DEF EndTick, Modes
  <2>2. CASE status # "AUCTION"  BY <1>8, <2>2 DEF EndTick, TypeOK, Stored, Modes, counters
  <2> QED  BY <2>1, <2>2
<1>9. ASSUME NEW p \in Ticks, SetReference(p)
      PROVE  TypeOK'
  BY <1>9, BookAssumption DEF SetReference, TypeOK, Stored, Modes, counters, Ticks, Prices
<1>10. CASE IngestSort  BY <1>10 DEF IngestSort, TypeOK, Stored, Modes, counters
<1>11. CASE Process
  <2>1. PICK i \in Ids : Rest(i, ord[i]) \/ Activate(i, ord[i])
    BY <1>11 DEF Process, In
  <2>2. Stored'  BY <2>1, RestType, ActivateType DEF Stored
  <2> QED  BY <1>11, <2>2 DEF Process, Modes
<1>12. CASE FlushStop
  BY <1>12 DEF FlushStop, TypeOK, Stored, Modes, counters, In, Places
<1>13. CASE Return  BY <1>13 DEF Return, TypeOK, Stored, Modes, counters
<1>14. CASE Expire
  <2>1. Stored'  BY <1>14, RetireType DEF Expire
  <2>2. clock + 1 \in Nat  BY DEF Modes
  <2> QED  BY <1>14, <2>1, <2>2 DEF Expire, Modes
<1>15. CASE AuctionFill
  <2>1. PICK b \in Ids, s \in Ids :
           LET q == Min({auc.left, ord[b].rem, ord[s].rem})
           IN Execute(b, s, q, auc.px, {b, s}) /\ auc' = [auc EXCEPT !.left = @ - q]
    BY <1>15 DEF AuctionFill
  <2> DEFINE q == Min({auc.left, ord[b].rem, ord[s].rem})
  <2>2. auc.left \in Nat /\ auc.px \in Prices /\ ord[b].rem \in Nat /\ ord[s].rem \in Nat
    BY DEF TypeOK, Stored, Modes, OrderType
  <2>3. q \in Nat /\ q =< auc.left /\ q =< ord[b].rem /\ q =< ord[s].rem
    BY <2>2, MinThree
  <2>4. Execute(b, s, q, auc.px, {b, s}) /\ auc' = [auc EXCEPT !.left = @ - q]
    BY <2>1
  <2> HIDE DEF q
  <2>5. auc.left - q \in Nat  BY <2>2, <2>3
  <2>6. auc' \in [px : Prices, left : Nat]  BY <2>4, <2>5 DEF TypeOK, Stored, Modes
  <2>7. Stored' /\ last' \in Prices  BY <2>2, <2>3, <2>4, ExecuteType
  <2> QED  BY <1>15, <2>6, <2>7 DEF AuctionFill, Modes
<1>16. CASE AuctionSelfCut  BY <1>16, RetireType DEF AuctionSelfCut, Modes
<1>17. CASE AuctionDone
  <2>1. Stored'  BY <1>17, RetireType DEF AuctionDone
  <2>2. auc.px \in Prices  BY DEF Modes
  <2> QED  BY <1>17, <2>1, <2>2, NoAuctionType DEF AuctionDone, Modes
<1>18. ASSUME NEW i \in Ids, RestInAuction(i)
       PROVE  TypeOK'
  <2>1. Stored'  BY <1>18, RestType DEF RestInAuction, Stored
  <2> QED  BY <1>18, <2>1 DEF RestInAuction, Modes
<1>19. ASSUME NEW i \in Ids, Fill(i)
       PROVE  TypeOK'
  <2>1. PICK j \in Ids : Execute(i, j, Min({ord[i].rem, ord[j].rem}), ord[j].px, {j})
    BY <1>19 DEF Fill
  <2> DEFINE q == Min({ord[i].rem, ord[j].rem})
  <2>2. ord[i].rem \in Nat /\ ord[j].rem \in Nat /\ ord[j].px \in Prices
    BY DEF TypeOK, Stored, Modes, OrderType
  <2>3. q \in Nat /\ q =< ord[i].rem /\ q =< ord[j].rem  BY <2>2, MinTwo
  <2>4. Execute(i, j, q, ord[j].px, {j})  BY <2>1
  <2> HIDE DEF q
  <2>5. Stored' /\ last' \in Prices  BY <2>2, <2>3, <2>4, ExecuteType
  <2> QED  BY <1>19, <2>5 DEF Fill, Modes
<1>20. ASSUME NEW i \in Ids, SelfTradeCancel(i)
       PROVE  TypeOK'
  BY <1>20, RetireType DEF SelfTradeCancel, Modes
<1>21. ASSUME NEW i \in Ids, Halt(i)
       PROVE  TypeOK'
  <2>1. Stored'  BY <1>21, RestType, RetireType DEF Halt, Stored
  <2> QED  BY <1>21, <2>1 DEF Halt, Modes
<1>22. ASSUME NEW i \in Ids, Finish(i)
       PROVE  TypeOK'
  <2>1. Stored'  BY <1>22, RestType, RetireType DEF Finish, Stored
  <2> QED  BY <1>22, <2>1 DEF Finish, Modes
<1>23. CASE UNCHANGED vars  BY <1>23 DEF vars, TypeOK, Stored, Modes, counters
<1> QED
  BY <1>1, <1>2, <1>3, <1>4, <1>5, <1>6, <1>7, <1>8, <1>9, <1>10, <1>11, <1>12,
     <1>13, <1>14, <1>15, <1>16, <1>17, <1>18, <1>19, <1>20, <1>21, <1>22, <1>23
     DEF Next, Call, MatchStep, Replace

-----------------------------------------------------------------------------
(* Where orders are: the control part of the inductive invariant *)

\* Identifiers not handed out yet are unused.
Fresh == \A i \in Ids : i >= nextId => at[i] = "none"

\* One aggressor at a time.
OneActive == \A i, j \in Ids : at[i] = "active" /\ at[j] = "active" => i = j

\* Only a call in progress has something to match, trigger, process or cross.
QuietOutside == call # "run" => /\ auc = NoAuction
                                /\ In("active") = {} /\ In("triggered") = {}
                                /\ call = "idle" => In("batch") = {}

\* end_tick is one call and accepts no order.
ClosingIsCall == closing => call = "run" /\ In("batch") = {}

Control == Fresh /\ OneActive /\ QuietOutside /\ ClosingIsCall

\* One order more in the book, or orders fewer, disturb none of it.
LEMMA RestControl == ASSUME TypeOK, Control, NEW i \in Live, NEW o, Rest(i, o),
                            UNCHANGED <<call, auc, closing>>
                     PROVE  Control'
BY DEF TypeOK, Stored, Control, Fresh, OneActive, QuietOutside, ClosingIsCall, Rest, In, Live

LEMMA RetireControl == ASSUME TypeOK, Control, NEW S \in SUBSET Live, Retire(S),
                              UNCHANGED <<call, auc, closing>> \/ (call' = "run" /\ (closing' => closing \/ In("batch") = {}))
                       PROVE  Control'
BY DEF TypeOK, Stored, Control, Fresh, OneActive, QuietOutside, ClosingIsCall, Retire, In, Live, counters

LEMMA ActivateControl == ASSUME TypeOK, Control, NEW i \in Live, NEW o, Activate(i, o),
                                In("active") = {}, call' = "run", closing' = closing
                         PROVE  Control'
BY DEF TypeOK, Stored, Control, Fresh, OneActive, QuietOutside, ClosingIsCall, Activate, In, Live, counters

LEMMA ExecuteControl ==
    ASSUME TypeOK, Control, NEW x \in Live, NEW y \in Live, NEW q, NEW p, NEW full,
           Execute(x, y, q, p, full), full \subseteq {x, y}, call' = "run", closing' = closing
    PROVE  Control'
BY DEF TypeOK, Stored, Control, Fresh, OneActive, QuietOutside, ClosingIsCall, Execute, In, Live, counters

LEMMA ControlStep == ASSUME TypeOK, Control, [Next]_vars
                     PROVE  Control'
<1> USE DEF TypeOK
<1>1. ASSUME NEW t \in Tickets, Submit(t) \/ IngestAccept(t)
      PROVE  Control'
  <2>1. /\ nextId \in Ids /\ nextId' = nextId + 1 /\ auc' = auc
        /\ at' = [at EXCEPT ![nextId] = "batch"]
        /\ call # "run" /\ call' \in {"accept", "run"}
    BY <1>1 DEF Submit, IngestAccept, Accept, Idle
  <2>2. Fresh'  BY <2>1, BookAssumption DEF Stored, Control, Fresh, Ids
  <2>3. OneActive'  BY <2>1 DEF Stored, Control, OneActive
  <2>4. QuietOutside'  BY <2>1 DEF Stored, Control, QuietOutside, In
  <2>5. ClosingIsCall'  BY <1>1, <2>1 DEF Submit, IngestAccept, Accept, Control, ClosingIsCall
  <2> QED  BY <2>2, <2>3, <2>4, <2>5 DEF Control
<1>2. ASSUME NEW i \in Ids, Cancel(i)
      PROVE  Control'
  BY <1>2, RetireControl DEF Cancel, Unmoved
<1>3. ASSUME NEW i \in Ids, NEW q \in Qtys, SizeDown(i, q)
      PROVE  Control'
  BY <1>3 DEF SizeDown, Control, Fresh, OneActive, QuietOutside, ClosingIsCall, counters, Unmoved, In
<1>4. ASSUME NEW i \in Ids, NEW q \in Qtys, SizeUp(i, q)
      PROVE  Control'
  BY <1>4, RestControl DEF SizeUp, Unmoved
<1>5. ASSUME NEW i \in Ids, NEW q \in Qtys, NEW p \in Ticks, Reprice(i, q, p)
      PROVE  Control'
  <2> DEFINE o == [ord[i] EXCEPT !.px = p, !.rem = q]
  <2>1. (Rest(i, o) /\ UNCHANGED call) \/ (Activate(i, o) /\ call' = "run")
    BY <1>5 DEF Reprice
  <2>2. i \in Live /\ In("active") = {} /\ UNCHANGED <<auc, closing>>
    BY <1>5 DEF Reprice, Control, QuietOutside, Idle, Unmoved
  <2> HIDE DEF o
  <2> QED  BY <2>1, <2>2, RestControl, ActivateControl
<1>6. ASSUME Uncross \/ (EndTick /\ status = "AUCTION")
      PROVE  Control'
  <2>1. CASE BeginPriced
    BY <1>6, <2>1 DEF BeginPriced, Uncross, EndTick, Control, Fresh, OneActive,
                      QuietOutside, ClosingIsCall, counters, In, Idle
  <2>2. CASE BeginEmpty
    <3>1. Leftovers(TRUE) \in SUBSET Live  BY DEF Leftovers, Market, In, Live
    <3> QED  BY <1>6, <2>2, <3>1, RetireControl DEF BeginEmpty, Uncross, EndTick, Idle,
                     Control, QuietOutside
  <2> QED  BY <1>6, <2>1, <2>2 DEF Uncross, EndTick, BeginUncross
<1>7. CASE StartAuction
  BY <1>7 DEF StartAuction, Control, Fresh, OneActive, QuietOutside, ClosingIsCall, counters, In
<1>8. CASE EndTick /\ status # "AUCTION"
  BY <1>8 DEF EndTick, Control, Fresh, OneActive, QuietOutside, ClosingIsCall, counters,
              In, Idle
<1>9. ASSUME NEW p \in Ticks, SetReference(p)
      PROVE  Control'
  BY <1>9 DEF SetReference, Control, Fresh, OneActive, QuietOutside, ClosingIsCall, counters, In
<1>10. CASE IngestSort
  BY <1>10 DEF IngestSort, Control, Fresh, OneActive, QuietOutside, ClosingIsCall, counters
<1>11. CASE Process
  <2>1. PICK i \in Live : Rest(i, ord[i]) \/ Activate(i, ord[i])
    BY <1>11 DEF Process, In, Live
  <2> QED  BY <1>11, <2>1, RestControl, ActivateControl DEF Process, Settled, NoAggressor
<1>12. CASE FlushStop
  BY <1>12 DEF FlushStop, NoAggressor, Stored, Control, Fresh, OneActive, QuietOutside, ClosingIsCall,
               counters, In
<1>13. CASE Return
  BY <1>13 DEF Return, Settled, NoAggressor, Control, Fresh, OneActive, QuietOutside, ClosingIsCall,
               counters, In
<1>14. CASE Expire
  <2> DEFINE S == {i \in Live : ord[i].tif = "DAY" /\ ord[i].day =< clock}
  <2>1. /\ S \subseteq Live /\ nextId' = nextId /\ auc' = auc
        /\ at' = [i \in Ids |-> IF i \in S THEN "gone" ELSE at[i]]
        /\ auc = NoAuction /\ In("active") = {} /\ In("triggered") = {}
        /\ call' = "idle" /\ closing' = FALSE /\ In("batch") = {}
    BY <1>14 DEF Expire, Settled, NoAggressor, Retire, counters, Live, Control,
                 ClosingIsCall
  <2> HIDE DEF S
  <2> QED  BY <2>1 DEF Control, Fresh, OneActive, QuietOutside, ClosingIsCall, In, Live
<1>15. CASE AuctionFill
  <2>1. PICK b \in Ids, s \in Ids :
           /\ Pair(b, s)
           /\ Execute(b, s, Min({auc.left, ord[b].rem, ord[s].rem}), auc.px, {b, s})
    BY <1>15 DEF AuctionFill
  <2>2. b \in Live /\ s \in Live
    BY <2>1 DEF Pair, IsFirst, Eligible, Willing, Market, AtOrBetter, Limits, In, Live
  <2>3. call' = "run" /\ closing' = closing
    BY <1>15, <2>1 DEF AuctionFill, Pair, Control, QuietOutside, Modes
  <2> QED  BY <2>1, <2>2, <2>3, ExecuteControl
<1>16. CASE AuctionSelfCut
  <2>1. PICK i \in Ids : Retire({i}) /\ i \in Live
    BY <1>16 DEF AuctionSelfCut, Pair, IsFirst, Eligible, Willing, Market, AtOrBetter, Limits, In, Live
  <2> QED  BY <1>16, <2>1, RetireControl DEF AuctionSelfCut
<1>17. CASE AuctionDone
  <2>1. Leftovers(FALSE) \in SUBSET Live  BY DEF Leftovers, Market, In, Live
  <2>2. call' = "run"
    BY <1>17 DEF AuctionDone, Control, QuietOutside, Modes
  <2> QED  BY <1>17, <2>1, <2>2, RetireControl DEF AuctionDone
<1>18. ASSUME NEW i \in Ids, RestInAuction(i)
       PROVE  Control'
  BY <1>18, RestControl DEF RestInAuction, Live
<1>19. ASSUME NEW i \in Ids, Fill(i)
       PROVE  Control'
  <2>1. PICK j \in Ids : /\ j \in Live
                         /\ Execute(i, j, Min({ord[i].rem, ord[j].rem}), ord[j].px, {j})
    BY <1>19 DEF Fill, Facing, IsFirst, Crossing, Limits, In, Live
  <2>2. i \in Live /\ call' = "run" /\ closing' = closing
    BY <1>19 DEF Fill, Matching, Live
  <2> QED  BY <2>1, <2>2, ExecuteControl
<1>20. ASSUME NEW i \in Ids, SelfTradeCancel(i)
       PROVE  Control'
  BY <1>20, RetireControl DEF SelfTradeCancel, Matching, Live
<1>21. ASSUME NEW i \in Ids, Halt(i)
       PROVE  Control'
  <2>1. i \in Live  BY <1>21 DEF Halt, Matching, Live
  <2>2. Rest(i, ord[i]) \/ Retire({i})  BY <1>21 DEF Halt
  <2> QED  BY <1>21, <2>1, <2>2, RestControl, RetireControl DEF Halt
<1>22. ASSUME NEW i \in Ids, Finish(i)
       PROVE  Control'
  <2>1. i \in Live  BY <1>22 DEF Finish, Matching, Live
  <2>2. Rest(i, ord[i]) \/ Retire({i})  BY <1>22 DEF Finish
  <2> QED  BY <1>22, <2>1, <2>2, RestControl, RetireControl DEF Finish
<1>23. CASE UNCHANGED vars
  BY <1>23 DEF vars, Control, Fresh, OneActive, QuietOutside, ClosingIsCall, counters, In
<1> QED
  BY <1>1, <1>2, <1>3, <1>4, <1>5, <1>6, <1>7, <1>8, <1>9, <1>10, <1>11, <1>12,
     <1>13, <1>14, <1>15, <1>16, <1>17, <1>18, <1>19, <1>20, <1>21, <1>22, <1>23
     DEF Next, Call, MatchStep, Replace

-----------------------------------------------------------------------------
(* What orders hold: the data part of the inductive invariant *)

\* A buy or a sell: a limit, an order at market, or a stop that waits.
WellShaped(o) == /\ o.side \in Sides
                 /\ Untriggered(o) \/ o.type = "market" \/ o.px # 0

\* An order being matched is past its trigger.
Shaped == \A i \in Live : /\ WellShaped(ord[i])
                          /\ at[i] \in {"active", "triggered"} => ~Untriggered(ord[i])

\* Only the aggressor can have nothing left, and only until it finishes.
HasOpen == \A i \in Live : ord[i].rem > 0 \/ (at[i] = "active" /\ status = "CONTINUOUS")

Data == Shaped /\ HasOpen /\ NoMarketRests /\ DayOrdersExpire

\* An order that rests is not at market in a continuous book.
LEMMA RestData ==
    ASSUME TypeOK, Data, NEW i \in Live, NEW o \in OrderType, Rest(i, o),
           WellShaped(o), o.rem > 0, o.tif = ord[i].tif, o.day = ord[i].day,
           clock' = clock,
           \/ status' = status /\ (status = "CONTINUOUS" => ~AtMarket(o))
           \/ status' = "AUCTION" /\ \A k \in Ids : at[k] = "active" => k = i
    PROVE  Data'
<1> DEFINE r == [o EXCEPT !.prio = nextPrio]
<1>1. /\ r.rem = o.rem /\ r.tif = o.tif /\ r.day = o.day
      /\ WellShaped(r) /\ (AtMarket(r) <=> AtMarket(o))
  BY DEF OrderType, WellShaped, AtMarket, Untriggered
<1>2. ord' = [ord EXCEPT ![i] = r] /\ at' = [at EXCEPT ![i] = "book"]
  BY DEF Rest
<1> HIDE DEF r
<1>3. Shaped'  BY <1>1, <1>2 DEF TypeOK, Stored, Data, Shaped, Live
<1>4. HasOpen'  BY <1>1, <1>2 DEF TypeOK, Stored, Data, HasOpen, Live
<1>5. DayOrdersExpire'  BY <1>1, <1>2 DEF TypeOK, Stored, Data, DayOrdersExpire, Live
<1>6. NoMarketRests'
  BY <1>1, <1>2 DEF TypeOK, Stored, Data, NoMarketRests, Market, In, Live
<1> QED  BY <1>3, <1>4, <1>5, <1>6 DEF Data

\* Retiring orders is safe when what it leaves may stay.
LEMMA RetireData ==
    ASSUME TypeOK, Data, NEW S, Retire(S),
           \/ status' = status
           \/ status' = "AUCTION" /\ \A k \in Live \ S : ord[k].rem > 0
           \/ status' = "CONTINUOUS" /\ Market("buy") \cup Market("sell") \subseteq S,
           clock' = clock \/ \A k \in Live \ S : ord[k].tif # "DAY"
    PROVE  Data'
<1>1. /\ ord' = [i \in Ids |-> IF i \in S THEN NoOrder ELSE ord[i]]
      /\ at'  = [i \in Ids |-> IF i \in S THEN "gone" ELSE at[i]]
  BY DEF Retire
<1>2. \A i \in Ids : i \in Live' => i \in Live \ S /\ ord'[i] = ord[i] /\ at'[i] = at[i]
  BY <1>1 DEF Live
<1>3. Live' \subseteq Ids  BY DEF Live
<1>4. Shaped'  BY <1>2, <1>3 DEF Data, Shaped
<1>5. HasOpen'  BY <1>2, <1>3 DEF Data, HasOpen, TypeOK, Modes
<1>6. DayOrdersExpire'  BY <1>2, <1>3 DEF Data, DayOrdersExpire
<1>7. \A side \in Sides : Market(side)' \subseteq Market(side) \ S
  BY <1>2 DEF Market, In, Live
<1>8. NoMarketRests'  BY <1>7 DEF Data, NoMarketRests, Sides
<1> QED  BY <1>4, <1>5, <1>6, <1>8 DEF Data

LEMMA ActivateData ==
    ASSUME TypeOK, Data, NEW i \in Live, NEW o \in OrderType, Activate(i, o),
           WellShaped(o), o.rem > 0, o.tif = ord[i].tif, o.day = ord[i].day,
           clock' = clock, status' = status
    PROVE  Data'
<1> DEFINE r == IF Untriggered(o) THEN Triggered(o) ELSE o
<1>1. /\ r.rem = o.rem /\ r.tif = o.tif /\ r.day = o.day
      /\ WellShaped(r) /\ ~Untriggered(r)
  BY DEF OrderType, WellShaped, Triggered, Untriggered
<1>2. ord' = [ord EXCEPT ![i] = r] /\ at' = [at EXCEPT ![i] = "active"]
  BY DEF Activate
<1> HIDE DEF r
<1>3. Shaped'  BY <1>1, <1>2 DEF TypeOK, Stored, Data, Shaped, Live
<1>4. HasOpen'  BY <1>1, <1>2 DEF TypeOK, Stored, Data, HasOpen, Live
<1>5. DayOrdersExpire'  BY <1>1, <1>2 DEF TypeOK, Stored, Data, DayOrdersExpire, Live
<1>6. NoMarketRests'
  BY <1>1, <1>2 DEF TypeOK, Stored, Data, NoMarketRests, Market, In, Live
<1> QED  BY <1>3, <1>4, <1>5, <1>6 DEF Data

\* A fill leaves an order with nothing open only if it retires it, or if the
\* order is the aggressor.
LEMMA ExecuteData ==
    ASSUME TypeOK, Data, NEW x \in Live, NEW y \in Live, NEW q \in Nat, NEW p,
           NEW full, Execute(x, y, q, p, full),
           q =< ord[x].rem, q =< ord[y].rem,
           \A z \in {x, y} \ full : at[z] = "active" /\ status = "CONTINUOUS",
           \A z \in {x, y} : ~Untriggered(ord[z]),
           clock' = clock, status' = status
    PROVE  Data'
<1>1. \A i \in Ids : /\ ord[i] \in OrderType
                     /\ i \in {x, y} => i \in Live /\ ord[i].rem - q \in Nat
  BY DEF TypeOK, Stored, OrderType, Live
<1>2. ASSUME NEW i \in Ids, at'[i] \notin {"none", "gone"}
      PROVE  /\ i \in Live
             /\ WellShaped(ord'[i])
             /\ at'[i] \in {"active", "triggered"} => ~Untriggered(ord'[i])
             /\ ord'[i].rem > 0 \/ (at'[i] = "active" /\ status' = "CONTINUOUS")
             /\ ord'[i].tif = ord[i].tif /\ ord'[i].day = ord[i].day
             /\ at'[i] = "book" => /\ at[i] = "book" /\ ord'[i].side = ord[i].side
                                   /\ AtMarket(ord'[i]) => AtMarket(ord[i])
  <2>1. i \in Live  BY <1>2 DEF Execute, Live
  <2>2. /\ WellShaped(ord[i]) /\ ord[i] \in OrderType
        /\ at[i] \in {"active", "triggered"} => ~Untriggered(ord[i])
        /\ ord[i].rem > 0 \/ (at[i] = "active" /\ status = "CONTINUOUS")
    BY <2>1 DEF Data, Shaped, HasOpen, TypeOK, Stored, Live
  <2>3. CASE i \in {x, y}
    <3>1. ord'[i] = Less(ord[i], q) /\ at'[i] = at[i] /\ ~(i \in full /\ ord[i].rem = q)
      BY <1>2, <2>3 DEF Execute
    <3>2. ord[i].rem \in Nat /\ q =< ord[i].rem  BY <2>2, <2>3 DEF OrderType
    <3>3. /\ ord'[i].rem = ord[i].rem - q /\ ord'[i].type = ord[i].type
          /\ ord'[i].px = ord[i].px /\ ord'[i].trig = ord[i].trig
          /\ ord'[i].side = ord[i].side
          /\ ord'[i].tif = ord[i].tif /\ ord'[i].day = ord[i].day
      BY <2>2, <3>1 DEF Less, OrderType
    <3>4. ord'[i].rem > 0 \/ (at'[i] = "active" /\ status' = "CONTINUOUS")
      BY <2>3, <3>1, <3>2, <3>3
    <3> QED
      BY <2>1, <2>2, <2>3, <3>1, <3>3, <3>4 DEF WellShaped, Untriggered, AtMarket
  <2>4. CASE i \notin {x, y} /\ at'[i] = "triggered" /\ at[i] = "book"
    <3>1. ord'[i] = Triggered(ord[i]) /\ Untriggered(ord[i])
      BY <2>4 DEF Execute
    <3> QED  BY <2>1, <2>2, <2>4, <3>1
             DEF Triggered, OrderType, WellShaped, Untriggered
  <2>5. CASE i \notin {x, y} /\ at'[i] = at[i] /\ ord'[i] = ord[i]
    BY <2>1, <2>2, <2>5
  <2>6. \/ at'[i] = "triggered" /\ at[i] = "book"
        \/ at'[i] = at[i] /\ ord'[i] = ord[i]
        \/ i \in {x, y}
    BY <1>2 DEF Execute
  <2> QED  BY <2>3, <2>4, <2>5, <2>6
<1>3. Live' \subseteq Ids /\ \A i \in Live' : at'[i] \notin {"none", "gone"}  BY DEF Live
<1>4. Shaped' /\ HasOpen'  BY <1>2, <1>3 DEF Shaped, HasOpen
<1>5. DayOrdersExpire'  BY <1>2, <1>3 DEF Data, DayOrdersExpire
<1>6. \A side \in Sides : Market(side)' \subseteq Market(side)  BY <1>2 DEF Market, In
<1>7. NoMarketRests'  BY <1>6 DEF Data, NoMarketRests, Sides
<1> QED  BY <1>4, <1>5, <1>7 DEF Data

LEMMA DataStep == ASSUME TypeOK, Control, Data, [Next]_vars
                  PROVE  Data'
<1> USE DEF TypeOK
<1>0. \A i \in Live : /\ i \in Ids /\ ord[i] \in OrderType /\ WellShaped(ord[i])
                      /\ at[i] # "active" => ord[i].rem > 0
  BY DEF Stored, Live, Data, Shaped, HasOpen
<1>a. ASSUME NEW side \in Sides, NEW i \in Market(side) \cup Limits(side)
      PROVE  /\ i \in Live /\ at[i] = "book" /\ ord[i].side = side
             /\ ~Untriggered(ord[i])
  BY <1>a DEF Market, Limits, In, Live, AtMarket
<1>1. ASSUME NEW t \in Tickets, Submit(t) \/ IngestAccept(t)
      PROVE  Data'
  <2>1. /\ nextId \in Ids /\ Acceptable(t) /\ UNCHANGED <<status, clock>>
        /\ at' = [at EXCEPT ![nextId] = "batch"]
        /\ ord' = [ord EXCEPT ![nextId] = NewOrder(t)]
    BY <1>1 DEF Submit, IngestAccept, Accept
  <2>2. t.qty > 0 /\ t.type \in Types /\ t.side \in Sides  BY BookAssumption DEF TicketType, Qtys
  <2>3. /\ WellShaped(ord'[nextId]) /\ ord'[nextId].rem > 0
        /\ ord'[nextId].tif = "DAY" => ord'[nextId].day = clock
        /\ \A i \in Ids \ {nextId} : ord'[i] = ord[i] /\ at'[i] = at[i]
        /\ at'[nextId] = "batch"
    BY <2>1, <2>2 DEF Stored, Acceptable, NewOrder, WellShaped, Untriggered, Types
  <2>4. Live' = Live \cup {nextId}  BY <2>1, <2>3 DEF Live
  <2>5. Shaped' /\ HasOpen'  BY <2>1, <2>3, <2>4, <1>0 DEF Data, Shaped, HasOpen
  <2>6. DayOrdersExpire'  BY <2>1, <2>3, <2>4 DEF Data, DayOrdersExpire
  <2>7. \A side \in Sides : Market(side)' \subseteq Market(side)
    BY <2>1, <2>3 DEF Market, In
  <2>8. NoMarketRests'  BY <2>1, <2>7 DEF Data, NoMarketRests, Sides
  <2> QED  BY <2>5, <2>6, <2>8 DEF Data
<1>2. ASSUME NEW i \in Ids, Cancel(i)
      PROVE  Data'
  BY <1>2, RetireData DEF Cancel, Unmoved
<1>b. ASSUME Idle, NEW i \in Live
      PROVE  at[i] = "book"
  BY <1>b DEF Idle, Control, QuietOutside, In, Live, Stored, Places
<1>3. ASSUME NEW i \in Ids, NEW q \in Qtys, SizeDown(i, q)
      PROVE  Data'
  <2> DEFINE o == [ord[i] EXCEPT !.rem = q]
  <2>1. /\ i \in Live /\ ord' = [ord EXCEPT ![i] = o] /\ UNCHANGED <<at, status, clock>>
    BY <1>3 DEF SizeDown, Unmoved
  <2>2. /\ o.rem > 0 /\ o.type = ord[i].type /\ o.px = ord[i].px /\ o.trig = ord[i].trig
        /\ o.tif = ord[i].tif /\ o.day = ord[i].day /\ o.side = ord[i].side
    BY <1>0, <2>1 DEF OrderType, Qtys
  <2> HIDE DEF o
  <2>3. \A k \in Ids : /\ ord'[k] = IF k = i THEN o ELSE ord[k]
                       /\ k \in Live' <=> k \in Live
    BY <2>1 DEF Stored, Live
  <2>4. Shaped' /\ HasOpen'
    BY <1>0, <2>1, <2>2, <2>3 DEF Data, Shaped, HasOpen, WellShaped, Untriggered, Live
  <2>5. DayOrdersExpire'
    BY <1>0, <2>1, <2>2, <2>3 DEF Data, DayOrdersExpire, Live
  <2>6. \A side \in Sides : Market(side)' \subseteq Market(side)
    BY <2>1, <2>2, <2>3 DEF Market, In, AtMarket, Untriggered
  <2>7. NoMarketRests'  BY <2>1, <2>6 DEF Data, NoMarketRests, Sides
  <2> QED  BY <2>4, <2>5, <2>7 DEF Data
<1>4. ASSUME NEW i \in Ids, NEW q \in Qtys, SizeUp(i, q)
      PROVE  Data'
  <2> DEFINE o == [ord[i] EXCEPT !.rem = q]
  <2>1. i \in Live /\ Rest(i, o) /\ UNCHANGED <<status, clock>>
    BY <1>4 DEF SizeUp, Unmoved
  <2>2. /\ o \in OrderType /\ o.rem > 0 /\ o.type = ord[i].type /\ o.px = ord[i].px
        /\ o.trig = ord[i].trig /\ o.tif = ord[i].tif /\ o.day = ord[i].day
        /\ o.side = ord[i].side
    BY <1>0, <2>1 DEF OrderType, Qtys
  <2> HIDE DEF o
  <2>3. at[i] = "book"  BY <1>4, <1>b DEF SizeUp
  <2>4. WellShaped(o) /\ (AtMarket(o) <=> AtMarket(ord[i]))
    BY <1>0, <2>1, <2>2 DEF WellShaped, AtMarket, Untriggered
  <2>5. AtMarket(ord[i]) => i \in Market("buy") \cup Market("sell")
    BY <1>0, <2>1, <2>3 DEF WellShaped, Market, In, Live, Sides
  <2> QED
    BY <2>1, <2>2, <2>4, <2>5, RestData DEF Data, NoMarketRests, Modes
<1>5. ASSUME NEW i \in Ids, NEW q \in Qtys, NEW p \in Ticks, Reprice(i, q, p)
      PROVE  Data'
  <2> DEFINE o == [ord[i] EXCEPT !.px = p, !.rem = q]
  <2>1. /\ (Rest(i, o) /\ Untriggered(o)) \/ Activate(i, o)
        /\ i \in Live /\ UNCHANGED <<status, clock>>
    BY <1>5 DEF Reprice, Unmoved
  <2>2. /\ o.rem > 0 /\ o.type = ord[i].type /\ o.px = p
        /\ o.trig = ord[i].trig /\ o.tif = ord[i].tif /\ o.day = ord[i].day
        /\ o.side = ord[i].side
    BY <1>0, <2>1 DEF OrderType, Qtys
  <2>3. o \in OrderType
    <3>1. q \in Nat /\ p \in Prices  BY BookAssumption DEF Qtys, Ticks, Prices
    <3> QED  BY <1>0, <2>1, <3>1 DEF OrderType
  <2> HIDE DEF o
  <2>4. WellShaped(o)
    <3>1. p # 0  BY DEF Ticks
    <3> QED  BY <1>0, <2>1, <2>2, <3>1 DEF WellShaped
  <2>5. Untriggered(o) => ~AtMarket(o)  BY DEF AtMarket
  <2> QED  BY <2>1, <2>2, <2>3, <2>4, <2>5, RestData, ActivateData
<1>6. CASE BeginUncross /\ clock' = clock
  <2>1. CASE BeginPriced
    BY <1>6, <2>1 DEF BeginPriced, Data, Shaped, HasOpen, NoMarketRests,
                      DayOrdersExpire, Market, In, Live
  <2>2. CASE BeginEmpty
    <3>1. Leftovers(TRUE) = Market("buy") \cup Market("sell")  BY DEF Leftovers
    <3>2. status' = status \/ status' = "CONTINUOUS"  BY <2>2 DEF BeginEmpty
    <3>3. Retire(Leftovers(TRUE))  BY <2>2 DEF BeginEmpty
    <3> QED  BY <1>6, <3>1, <3>2, <3>3, RetireData
  <2> QED  BY <1>6, <2>1, <2>2 DEF BeginUncross
<1>7. CASE StartAuction
  <2>1. \A i \in Live : ord[i].rem > 0
    BY <1>0, <1>7, <1>b DEF StartAuction
  <2> QED  BY <1>7, <2>1 DEF StartAuction, Data, Shaped, HasOpen, NoMarketRests,
                             DayOrdersExpire, Live
<1>8. ASSUME UNCHANGED <<ord, at, status, clock>>
      PROVE  Data'
  BY <1>8 DEF Data, Shaped, HasOpen, NoMarketRests, DayOrdersExpire, Market, In, Live
<1>9. CASE EndTick
  <2>1. CASE status = "AUCTION"  BY <1>6, <1>9, <2>1 DEF EndTick
  <2>2. CASE status # "AUCTION"  BY <1>8, <1>9, <2>2 DEF EndTick
  <2> QED  BY <2>1, <2>2
<1>11. CASE Process
  <2>1. PICK i \in In("batch") :
           (Rest(i, ord[i]) /\ Untriggered(ord[i])) \/ Activate(i, ord[i])
    BY <1>11 DEF Process
  <2>2. i \in Live /\ at[i] # "active"  BY DEF In, Live
  <2>3. Untriggered(ord[i]) => ~AtMarket(ord[i])  BY DEF AtMarket
  <2>4. UNCHANGED <<status, clock>>  BY <1>11 DEF Process
  <2> QED  BY <1>0, <2>1, <2>2, <2>3, <2>4, RestData, ActivateData
<1>12. CASE FlushStop
  <2>1. PICK i \in In("triggered") : at' = [at EXCEPT ![i] = "active"]
    BY <1>12 DEF FlushStop
  <2>2. UNCHANGED <<ord, status, clock>>  BY <1>12 DEF FlushStop
  <2>3. i \in Live /\ ord[i].rem > 0 /\ ~Untriggered(ord[i])
    BY <1>0 DEF In, Live, Data, Shaped
  <2>4. \A k \in Ids : /\ k \in Live' <=> k \in Live
                       /\ at'[k] = IF k = i THEN "active" ELSE at[k]
    BY <2>1, <2>3 DEF Live, Stored
  <2>5. Shaped' /\ HasOpen' /\ DayOrdersExpire'
    BY <2>2, <2>3, <2>4 DEF Data, Shaped, HasOpen, DayOrdersExpire, Live
  <2>6. \A side \in Sides : Market(side)' \subseteq Market(side)
    BY <2>2, <2>4 DEF Market, In
  <2>7. NoMarketRests'  BY <2>2, <2>6 DEF Data, NoMarketRests, Sides
  <2> QED  BY <2>5, <2>7 DEF Data
<1>14. CASE Expire
  <2> DEFINE S == {i \in Live : ord[i].tif = "DAY" /\ ord[i].day =< clock}
  <2>1. Retire(S) /\ status' = status  BY <1>14 DEF Expire
  <2>2. \A k \in Live \ S : ord[k].tif # "DAY"
    BY DEF Data, DayOrdersExpire, Modes
  <2> HIDE DEF S
  <2> QED  BY <2>1, <2>2, RetireData
<1>15. CASE AuctionFill
  <2>1. PICK b \in Ids, s \in Ids :
           /\ Pair(b, s)
           /\ Execute(b, s, Min({auc.left, ord[b].rem, ord[s].rem}), auc.px, {b, s})
    BY <1>15 DEF AuctionFill
  <2> DEFINE q == Min({auc.left, ord[b].rem, ord[s].rem})
  <2>2. b \in Eligible("buy") /\ s \in Eligible("sell")  BY <2>1 DEF Pair, IsFirst
  <2>3. /\ b \in Market("buy") \cup Limits("buy")
        /\ s \in Market("sell") \cup Limits("sell")
    BY <2>2 DEF Eligible, Willing, AtOrBetter
  <2>4. b \in Live /\ s \in Live /\ ~Untriggered(ord[b]) /\ ~Untriggered(ord[s])
    BY <2>3, <1>a DEF Sides
  <2>5. auc.left \in Nat /\ ord[b].rem \in Nat /\ ord[s].rem \in Nat
    BY <2>4, <1>0 DEF Modes, OrderType
  <2>6. q \in Nat /\ q =< ord[b].rem /\ q =< ord[s].rem  BY <2>5, MinThree
  <2>7. Execute(b, s, q, auc.px, {b, s})  BY <2>1
  <2>8. UNCHANGED <<status, clock>>  BY <1>15 DEF AuctionFill
  <2> HIDE DEF q
  <2> QED  BY <2>4, <2>6, <2>7, <2>8, ExecuteData
<1>16. CASE AuctionSelfCut
  <2>1. PICK S \in SUBSET Ids : Retire(S)  BY <1>16 DEF AuctionSelfCut
  <2> QED  BY <1>16, <2>1, RetireData DEF AuctionSelfCut
<1>17. CASE AuctionDone
  <2>1. Market("buy") \cup Market("sell") \subseteq Leftovers(FALSE)  BY DEF Leftovers
  <2> QED  BY <1>17, <2>1, RetireData DEF AuctionDone
<1>18. ASSUME NEW i \in Ids, RestInAuction(i)
       PROVE  Data'
  <2>1. i \in Live /\ at[i] = "active"  BY <1>18 DEF RestInAuction, Live
  <2>2. status = "AUCTION" /\ Rest(i, ord[i]) /\ UNCHANGED <<status, clock>>
    BY <1>18 DEF RestInAuction
  <2>3. ord[i].rem > 0  BY <2>1, <2>2 DEF Data, HasOpen
  <2> QED  BY <1>0, <2>1, <2>2, <2>3, RestData
<1>19. ASSUME NEW i \in Ids, Fill(i)
       PROVE  Data'
  <2>1. PICK j \in Ids :
           /\ Facing(i, j)
           /\ Execute(i, j, Min({ord[i].rem, ord[j].rem}), ord[j].px, {j})
    BY <1>19 DEF Fill
  <2> DEFINE q == Min({ord[i].rem, ord[j].rem})
  <2>2. i \in Live /\ at[i] = "active" /\ status = "CONTINUOUS" /\ UNCHANGED <<status, clock>>
    BY <1>19 DEF Fill, Matching, Live
  <2>3. j \in Live /\ ~Untriggered(ord[j])
    BY <2>1 DEF Facing, IsFirst, Crossing, Limits, In, Live
  <2>4. ~Untriggered(ord[i])  BY <2>2 DEF Data, Shaped
  <2>5. ord[i].rem \in Nat /\ ord[j].rem \in Nat  BY <2>2, <2>3, <1>0 DEF OrderType
  <2>6. q \in Nat /\ q =< ord[i].rem /\ q =< ord[j].rem  BY <2>5, MinTwo
  <2>7. Execute(i, j, q, ord[j].px, {j})  BY <2>1
  <2> HIDE DEF q
  <2> QED  BY <2>2, <2>3, <2>4, <2>6, <2>7, ExecuteData
<1>20. ASSUME NEW i \in Ids, SelfTradeCancel(i)
       PROVE  Data'
  BY <1>20, RetireData DEF SelfTradeCancel
<1>21. ASSUME NEW i \in Ids, Halt(i)
       PROVE  Data'
  <2>1. /\ i \in Live /\ at[i] = "active" /\ ord[i].rem > 0
        /\ status' = "AUCTION" /\ clock' = clock
        /\ Rest(i, ord[i]) \/ Retire({i})
    BY <1>21 DEF Halt, Matching, Facing, Live
  <2>2. \A k \in Ids : at[k] = "active" => k = i  BY <2>1 DEF Control, OneActive, Live
  <2>3. \A k \in Live \ {i} : ord[k].rem > 0  BY <2>2, <1>0
  <2> QED  BY <1>0, <2>1, <2>2, <2>3, RestData, RetireData
<1>22. ASSUME NEW i \in Ids, Finish(i)
       PROVE  Data'
  <2>1. /\ i \in Live /\ at[i] = "active" /\ UNCHANGED <<status, clock>>
        /\ Retire({i}) \/ (Rest(i, ord[i]) /\ ord[i].rem # 0 /\ ord[i].type # "market")
    BY <1>22 DEF Finish, Matching, Live
  <2>2. ~Untriggered(ord[i])  BY <2>1 DEF Data, Shaped
  <2>3. ord[i].rem # 0 => ord[i].rem > 0  BY <1>0, <2>1 DEF OrderType
  <2>4. ord[i].type # "market" => ~AtMarket(ord[i])
    BY <1>0, <2>1, <2>2 DEF WellShaped, AtMarket
  <2> QED  BY <1>0, <2>1, <2>3, <2>4, RestData, RetireData
<1>30. CASE Uncross  BY <1>6, <1>30 DEF Uncross
<1>31. ASSUME NEW p \in Ticks, SetReference(p)
       PROVE  Data'
  BY <1>8, <1>31 DEF SetReference
<1>32. CASE IngestSort \/ Return  BY <1>8, <1>32 DEF IngestSort, Return
<1>33. CASE UNCHANGED vars  BY <1>8, <1>33 DEF vars
<1> QED
  BY <1>1, <1>2, <1>3, <1>4, <1>5, <1>7, <1>9, <1>11, <1>12, <1>14, <1>15, <1>16,
     <1>17, <1>18, <1>19, <1>20, <1>21, <1>22, <1>30, <1>31, <1>32, <1>33
     DEF Next, Call, MatchStep, Replace

-----------------------------------------------------------------------------
(* What is settled between calls, and how an uncross gets there *)

ArmedAt(p) == \A i \in In("book") : Untriggered(ord[i]) => ~Fires(ord[i], p)

\* No stop that waits was reached by the last print.  An uncross prints first when it
\* ends; once it has traded its volume, it has set off the stops its price reaches.
Armed == /\ auc = NoAuction /\ ~selfCut => ArmedAt(last)
         /\ auc # NoAuction /\ auc.left = 0 => ArmedAt(auc.px)

Uncrossed == status = "CONTINUOUS" /\ ~selfCut => ~Crossed

\* An uncross matches nothing but its own pairs.
Auction == auc # NoAuction => /\ status = "AUCTION" /\ call = "run"
                              /\ auc.px \in Ticks /\ In("active") = {}

\* What an uncross has left to trade is what could be traded at its price.  At a
\* lower price with sellers, or a higher one with buyers, no more could be.
Plan == auc # NoAuction /\ ~selfCut =>
          /\ Traded(Demand, Supply, auc.px) = auc.left
          /\ \A x \in LimitPrices :
               /\ x < auc.px /\ Supply[x] > 0 => Traded(Demand, Supply, x) =< auc.left
               /\ x > auc.px /\ Demand[x] > 0 => Traded(Demand, Supply, x) =< auc.left

Settle == Armed /\ Uncrossed /\ Auction /\ Plan

\* No new stop waits, and no new limit rests.
StopsStay == \A i \in Ids : at'[i] = "book" /\ Untriggered(ord'[i]) =>
                /\ at[i] = "book" /\ Untriggered(ord[i])
                /\ ord'[i].stop = ord[i].stop /\ ord'[i].side = ord[i].side
LimitsStay == \A i \in Ids, side \in Sides : i \in Limits(side)' =>
                 i \in Limits(side) /\ ord'[i].px = ord[i].px

LEMMA StillArmed == ASSUME StopsStay, NEW p, ArmedAt(p)
                    PROVE  ArmedAt(p)'
BY DEF StopsStay, ArmedAt, In, Fires

LEMMA StillUncrossed == ASSUME LimitsStay, ~Crossed
                        PROVE  ~Crossed'
<1>1. \A side \in Sides : Limits(side) \subseteq Ids /\ Limits(side)' \subseteq Ids
  BY DEF Limits, In
<1>2. "buy" \in Sides /\ "sell" \in Sides
  BY DEF Sides
<1> QED BY <1>1, <1>2 DEF LimitsStay, Crossed

LEMMA RetireStays == ASSUME NEW S, Retire(S)
                     PROVE  StopsStay /\ LimitsStay
BY DEF Retire, StopsStay, LimitsStay, Limits, In

LEMMA ActivateStays == ASSUME Stored, NEW i \in Ids, NEW o, Activate(i, o)
                       PROVE  StopsStay /\ LimitsStay
BY DEF Activate, Stored, StopsStay, LimitsStay, Limits, In

LEMMA ExecuteStays ==
    ASSUME Stored, NEW x \in Ids, NEW y \in Ids, NEW q \in Nat, NEW p, NEW full,
           Execute(x, y, q, p, full), ~Untriggered(ord[x]), ~Untriggered(ord[y])
    PROVE  StopsStay /\ LimitsStay /\ ArmedAt(p)'
<1>1. ASSUME NEW i \in Ids, at'[i] = "book"
      PROVE  /\ at[i] = "book"
             /\ ord'[i].stop = ord[i].stop /\ ord'[i].side = ord[i].side
             /\ ord'[i].px = ord[i].px
             /\ Untriggered(ord'[i]) <=> Untriggered(ord[i])
             /\ AtMarket(ord'[i]) <=> AtMarket(ord[i])
             /\ Untriggered(ord[i]) => ~Fires(ord[i], p)
  <2>1. ord[i] \in OrderType
    BY DEF Stored
  <2>2. CASE i \in {x, y}
    <3>1. ord'[i] = Less(ord[i], q) /\ at[i] = "book" /\ ~Untriggered(ord[i])
      BY <1>1, <2>2 DEF Execute
    <3>2. /\ ord'[i].stop = ord[i].stop /\ ord'[i].side = ord[i].side
          /\ ord'[i].px = ord[i].px /\ ord'[i].type = ord[i].type
          /\ ord'[i].trig = ord[i].trig
      BY <2>1, <3>1 DEF Less, OrderType
    <3> QED BY <3>1, <3>2 DEF Untriggered, AtMarket
  <2>3. CASE i \notin {x, y}
    <3>1. ord'[i] = ord[i] /\ at[i] = "book" /\ (Untriggered(ord[i]) => ~Fires(ord[i], p))
      BY <1>1, <2>3 DEF Execute
    <3> QED BY <3>1
  <2> QED BY <2>2, <2>3
<1>2. StopsStay
  BY <1>1 DEF StopsStay
<1>3. LimitsStay
  BY <1>1 DEF LimitsStay, Limits, In
<1>4. ArmedAt(p)'
  BY <1>1 DEF ArmedAt, In, Fires
<1> QED BY <1>2, <1>3, <1>4

\* Sizes f of the orders in S become sizes g of those in T: z loses q of them.
LEMMA SharesMoved ==
    ASSUME NEW f \in Weights, NEW g \in Weights, NEW S, NEW T, NEW z \in Ids, NEW q \in Nat,
           q =< f[z],
           \A i \in Ids \ {z} : (i \in S <=> i \in T) /\ (i \in T => g[i] = f[i]),
           z \notin S => z \notin T,
           z \in S => IF z \in T THEN g[z] = f[z] - q ELSE f[z] = q
    PROVE  /\ SumOver([i \in Ids |-> IF i \in S THEN f[i] ELSE 0])
             = SumOver([i \in Ids |-> IF i \in T THEN g[i] ELSE 0]) + (IF z \in S THEN q ELSE 0)
           /\ SumOver([i \in Ids |-> IF i \in T THEN g[i] ELSE 0]) \in Nat
<1> DEFINE w == [i \in Ids |-> IF i \in S THEN f[i] ELSE 0]
           v == [i \in Ids |-> IF i \in T THEN g[i] ELSE 0]
           d == IF z \in S THEN q ELSE 0
<1>1. w \in Weights /\ v \in Weights
  BY DEF Weights
<1>2. \A i \in Ids \ {z} : w[i] = v[i]
  OBVIOUS
<1>3. w[z] = v[z] + d /\ d \in Nat
  <2>1. f[z] \in Nat
    BY DEF Weights
  <2> QED BY <2>1
<1> HIDE DEF w, v, d
<1>4. SumOver(w) = SumOver(v) + d /\ SumOver(v) \in Nat
  BY <1>1, <1>2, <1>3, SumChange, SumFacts
<1> QED BY <1>4 DEF w, v, d

\* What a fill of q shares of b and s leaves of the orders willing at x.
FilledAt(b, s, q, side, x) ==
    \A i \in Ids :
      /\ i \notin {b, s} => /\ i \in Willing(side, x)' <=> i \in Willing(side, x)
                            /\ i \in Willing(side, x)' => ord'[i].rem = ord[i].rem
      /\ i \in {b, s} /\ ord[i].rem = q => i \notin Willing(side, x)'
      /\ i \in {b, s} /\ ord[i].rem # q => /\ i \in Willing(side, x)' <=> i \in Willing(side, x)
                                           /\ ord'[i].rem = ord[i].rem - q

LEMMA WillingAfterFill ==
    ASSUME Stored, NEW b \in Ids, NEW s \in Ids, NEW q \in Nat, NEW p,
           Execute(b, s, q, p, {b, s}), ~Untriggered(ord[b]), ~Untriggered(ord[s]),
           NEW side \in Sides, NEW x
    PROVE  FilledAt(b, s, q, side, x)
<1> SUFFICES ASSUME NEW i \in Ids
             PROVE  /\ i \notin {b, s} => /\ i \in Willing(side, x)' <=> i \in Willing(side, x)
                                          /\ i \in Willing(side, x)' => ord'[i].rem = ord[i].rem
                    /\ i \in {b, s} /\ ord[i].rem = q => i \notin Willing(side, x)'
                    /\ i \in {b, s} /\ ord[i].rem # q =>
                         /\ i \in Willing(side, x)' <=> i \in Willing(side, x)
                         /\ ord'[i].rem = ord[i].rem - q
  BY DEF FilledAt
<1>1. ord[i] \in OrderType
  BY DEF Stored
<1>2. CASE i \notin {b, s}
  <2>1. \/ at'[i] = at[i] /\ ord'[i] = ord[i]
        \/ at'[i] = "triggered" /\ Untriggered(ord[i])
    BY <1>2 DEF Execute
  <2>2. CASE at'[i] = at[i] /\ ord'[i] = ord[i]
    BY <1>2, <2>2 DEF Willing, Market, AtOrBetter, Limits, In
  <2>3. CASE at'[i] = "triggered" /\ Untriggered(ord[i])
    BY <1>2, <2>3 DEF Willing, Market, AtOrBetter, Limits, In, AtMarket
  <2> QED BY <2>1, <2>2, <2>3
<1>3. CASE i \in {b, s} /\ ord[i].rem = q
  <2>1. at'[i] = "gone"
    BY <1>3 DEF Execute
  <2> QED BY <1>3, <2>1 DEF Willing, Market, AtOrBetter, Limits, In
<1>4. CASE i \in {b, s} /\ ord[i].rem # q
  <2>1. ord'[i] = Less(ord[i], q) /\ at'[i] = at[i]
    BY <1>4 DEF Execute
  <2>2. /\ ord'[i].side = ord[i].side /\ ord'[i].px = ord[i].px
        /\ ord'[i].type = ord[i].type /\ ord'[i].trig = ord[i].trig
        /\ ord'[i].rem = ord[i].rem - q
    BY <1>1, <2>1 DEF Less, OrderType
  <2>3. i \in Willing(side, x)' <=> i \in Willing(side, x)
    BY <2>1, <2>2 DEF Willing, Market, AtOrBetter, Limits, In, Untriggered, AtMarket
  <2> QED BY <1>4, <2>2, <2>3
<1> QED BY <1>2, <1>3, <1>4

\* The shares willing at x, after q shares of b and s were filled: z, the one of
\* this side, no longer offers q of them.
LEMMA SharesAfterFill ==
    ASSUME Stored, Stored', NEW b \in Ids, NEW s \in Ids, NEW q \in Nat, NEW p,
           Execute(b, s, q, p, {b, s}), ~Untriggered(ord[b]), ~Untriggered(ord[s]),
           NEW side \in Sides, NEW x, NEW z \in {b, s}, ord[z].side = side,
           q =< ord[z].rem, \A y \in {b, s} : y # z => ord[y].side # side
    PROVE  /\ Shares(Willing(side, x))
                = Shares(Willing(side, x))' + (IF z \in Willing(side, x) THEN q ELSE 0)
           /\ Shares(Willing(side, x))' \in Nat
<1> DEFINE f == [i \in Ids |-> ord[i].rem]
           g == [i \in Ids |-> ord'[i].rem]
           S == Willing(side, x)
           T == Willing(side, x)'
<1>1. \A i \in Ids : ord[i] \in OrderType /\ ord[i].rem \in Nat /\ ord'[i].rem \in Nat
  BY DEF Stored, OrderType
<1>2. f \in Weights /\ g \in Weights /\ z \in Ids /\ q =< f[z]
  BY <1>1 DEF Weights
<1>3. \A i \in Ids : i \in S => ord[i].side = side
  BY DEF Willing, Market, AtOrBetter, Limits
<1>4. \A i \in Ids :
        /\ i \notin {b, s} => (i \in T <=> i \in S) /\ (i \in T => ord'[i].rem = ord[i].rem)
        /\ i \in {b, s} /\ ord[i].rem = q => i \notin T
        /\ i \in {b, s} /\ ord[i].rem # q => (i \in T <=> i \in S) /\ ord'[i].rem = ord[i].rem - q
  <2>1. FilledAt(b, s, q, side, x)
    BY WillingAfterFill
  <2> QED BY <2>1 DEF FilledAt
<1>5. Shares(S) = SumOver([i \in Ids |-> IF i \in S THEN f[i] ELSE 0])
  <2>1. [i \in Ids |-> IF i \in S THEN ord[i].rem ELSE 0] = [i \in Ids |-> IF i \in S THEN f[i] ELSE 0]
    OBVIOUS
  <2> QED BY <2>1 DEF Shares
<1>6. Shares(Willing(side, x))' = SumOver([i \in Ids |-> IF i \in T THEN g[i] ELSE 0])
  <2>1. [i \in Ids |-> IF i \in T THEN ord'[i].rem ELSE 0] = [i \in Ids |-> IF i \in T THEN g[i] ELSE 0]
    OBVIOUS
  <2> QED BY <2>1 DEF Shares
<1>7. \A i \in Ids : f[i] = ord[i].rem /\ g[i] = ord'[i].rem
  OBVIOUS
<1> HIDE DEF f, g, S, T
<1>8. \A i \in Ids \ {z} : (i \in S <=> i \in T) /\ (i \in T => g[i] = f[i])
  BY <1>3, <1>4, <1>7
<1>9. z \notin S => z \notin T
  BY <1>4
<1>10. z \in S => IF z \in T THEN g[z] = f[z] - q ELSE f[z] = q
  BY <1>2, <1>4, <1>7
<1>11. /\ SumOver([i \in Ids |-> IF i \in S THEN f[i] ELSE 0])
              = SumOver([i \in Ids |-> IF i \in T THEN g[i] ELSE 0]) + (IF z \in S THEN q ELSE 0)
       /\ SumOver([i \in Ids |-> IF i \in T THEN g[i] ELSE 0]) \in Nat
  BY <1>2, <1>8, <1>9, <1>10, SharesMoved
<1> QED BY <1>5, <1>6, <1>11 DEF S

\* A step of no uncross that adds neither a stop nor a limit and prints nothing.
LEMMA StaysSettled ==
    ASSUME Settle, StopsStay, LimitsStay, auc = NoAuction,
           UNCHANGED <<auc, last, selfCut>>, status' \in {status, "AUCTION"}
    PROVE  Settle'
<1>1. Armed'
  <2>1. PICK p : p = last
    OBVIOUS
  <2>2. ~selfCut => ArmedAt(p)
    BY <2>1 DEF Settle, Armed, ArmedAt
  <2>3. ~selfCut => ArmedAt(p)'
    BY <2>2, StillArmed
  <2>4. last' = p /\ auc' = NoAuction /\ selfCut' = selfCut
    BY <2>1
  <2> QED BY <2>3, <2>4 DEF Armed, ArmedAt
<1>2. Uncrossed'
  BY StillUncrossed DEF Settle, Uncrossed
<1>3. Auction' /\ Plan'
  BY DEF Auction, Plan
<1> QED BY <1>1, <1>2, <1>3 DEF Settle

\* A stop that does not fire may wait.
LEMMA RestStop ==
    ASSUME Stored, Settle, NEW i \in Ids, NEW o \in OrderType, Rest(i, o),
           Untriggered(o), ~Fires(o, last), auc = NoAuction,
           UNCHANGED <<auc, last, selfCut, status>>
    PROVE  Settle'
<1> DEFINE r == [o EXCEPT !.prio = nextPrio]
<1>1. /\ r.type = o.type /\ r.trig = o.trig /\ r.stop = o.stop /\ r.side = o.side
  BY DEF OrderType
<1>2. ord' = [ord EXCEPT ![i] = r] /\ at' = [at EXCEPT ![i] = "book"]
  BY DEF Rest
<1> HIDE DEF r
<1>3. /\ ord'[i] = r /\ \A k \in Ids \ {i} : ord'[k] = ord[k] /\ at'[k] = at[k]
  BY <1>2 DEF Stored
<1>4. Untriggered(r) /\ ~Fires(r, last)
  BY <1>1 DEF Untriggered, Fires
<1>5. LimitsStay
  BY <1>3, <1>4 DEF LimitsStay, Limits, In
<1>6. Armed'
  <2>1. ~selfCut => ArmedAt(last)
    BY DEF Settle, Armed
  <2>2. ~selfCut => ArmedAt(last)'
    BY <1>3, <1>4, <2>1 DEF ArmedAt, In
  <2> QED BY <2>2 DEF Armed
<1>7. Uncrossed'
  BY <1>5, StillUncrossed DEF Settle, Uncrossed
<1>8. Auction' /\ Plan'
  BY DEF Auction, Plan
<1> QED BY <1>6, <1>7, <1>8 DEF Settle

\* An order past its trigger may rest in a call auction, or where it crosses nothing.
LEMMA RestLimit ==
    ASSUME Stored, Settle, NEW i \in Ids, NEW o \in OrderType, Rest(i, o),
           ~Untriggered(o), auc = NoAuction, o.side \in Sides,
           UNCHANGED <<auc, last, selfCut>>,
           \/ status' = "AUCTION"
           \/ /\ status' = status
              /\ \A j \in Limits(Opposite(o.side)) : ~Within(o.side, o.px, ord[j].px)
    PROVE  Settle'
<1> DEFINE r == [o EXCEPT !.prio = nextPrio]
<1>1. /\ r.type = o.type /\ r.trig = o.trig /\ r.px = o.px /\ r.side = o.side
  BY DEF OrderType
<1>2. ord' = [ord EXCEPT ![i] = r] /\ at' = [at EXCEPT ![i] = "book"]
  BY DEF Rest
<1> HIDE DEF r
<1>3. /\ ord'[i] = r /\ \A k \in Ids \ {i} : ord'[k] = ord[k] /\ at'[k] = at[k]
  BY <1>2 DEF Stored
<1>4. ~Untriggered(r)
  BY <1>1 DEF Untriggered
<1>5. StopsStay
  BY <1>3, <1>4 DEF StopsStay
<1>6. CASE status' = "AUCTION"
  <2>1. Armed'
    <3>1. PICK p : p = last
      OBVIOUS
    <3>2. ~selfCut => ArmedAt(p)'
      BY <1>5, <3>1, StillArmed DEF Settle, Armed, ArmedAt
    <3> QED BY <3>1, <3>2 DEF Armed, ArmedAt
  <2> QED BY <1>6, <2>1 DEF Settle, Uncrossed, Auction, Plan
<1>7. CASE /\ status' = status
           /\ \A j \in Limits(Opposite(o.side)) : ~Within(o.side, o.px, ord[j].px)
  <2>1. Armed'
    <3>1. PICK p : p = last
      OBVIOUS
    <3>2. ~selfCut => ArmedAt(p)'
      BY <1>5, <3>1, StillArmed DEF Settle, Armed, ArmedAt
    <3> QED BY <3>1, <3>2 DEF Armed, ArmedAt
  <2>2. ASSUME ~Crossed, NEW b \in Limits("buy")', NEW s \in Limits("sell")'
        PROVE  ~(ord'[b].px >= ord'[s].px)
    <3>1. b \in Ids /\ s \in Ids /\ ord'[b].side = "buy" /\ ord'[s].side = "sell"
      BY DEF Limits, In
    <3>2. \A k \in Ids \ {i} : ord'[k] = ord[k] /\
             \A side \in Sides : k \in Limits(side)' => k \in Limits(side)
      BY <1>3 DEF Limits, In
    <3>3. CASE b = i
      <4>1. o.side = "buy" /\ s # i /\ s \in Limits("sell") /\ ord'[s] = ord[s]
        BY <1>1, <1>3, <3>1, <3>2, <3>3 DEF Sides
      <4>2. ~(ord[s].px =< o.px)
        BY <1>7, <4>1 DEF Opposite, Within
      <4>3. ord'[b].px = o.px /\ ord[s].px \in Int /\ o.px \in Int
        BY <1>1, <1>3, <3>1, <3>3 DEF Stored, OrderType, Prices
      <4> QED BY <4>1, <4>2, <4>3
    <3>4. CASE s = i
      <4>1. o.side = "sell" /\ b # i /\ b \in Limits("buy") /\ ord'[b] = ord[b]
        BY <1>1, <1>3, <3>1, <3>2, <3>4 DEF Sides
      <4>2. ~(ord[b].px >= o.px)
        BY <1>7, <4>1 DEF Opposite, Within
      <4>3. ord'[s].px = o.px
        BY <1>1, <1>3, <3>4
      <4> QED BY <4>1, <4>2, <4>3
    <3>5. CASE b # i /\ s # i
      <4>1. b \in Limits("buy") /\ s \in Limits("sell") /\ ord'[b] = ord[b] /\ ord'[s] = ord[s]
        BY <3>1, <3>2, <3>5 DEF Sides
      <4> QED BY <2>2, <4>1 DEF Crossed
    <3> QED BY <3>3, <3>4, <3>5
  <2>3. Uncrossed'
    BY <1>7, <2>2 DEF Settle, Uncrossed, Crossed
  <2> QED BY <2>1, <2>3 DEF Settle, Auction, Plan
<1> QED BY <1>6, <1>7

\* The order by volume v, imbalance m, distance n and tick p, larger v and p first.
Ahead(v, m, n, p, v2, m2, n2, p2) ==
    \/ v > v2
    \/ v = v2 /\ m < m2
    \/ v = v2 /\ m = m2 /\ n < n2
    \/ v = v2 /\ m = m2 /\ n = n2 /\ p >= p2

LEMMA AheadTotal ==
    ASSUME NEW v \in Int, NEW m \in Int, NEW n \in Int, NEW p \in Int,
           NEW v2 \in Int, NEW m2 \in Int, NEW n2 \in Int, NEW p2 \in Int
    PROVE  Ahead(v, m, n, p, v2, m2, n2, p2) \/ Ahead(v2, m2, n2, p2, v, m, n, p)
BY DEF Ahead

LEMMA AheadTransitive ==
    ASSUME NEW v \in Int, NEW m \in Int, NEW n \in Int, NEW p \in Int,
           NEW v2 \in Int, NEW m2 \in Int, NEW n2 \in Int, NEW p2 \in Int,
           NEW v3 \in Int, NEW m3 \in Int, NEW n3 \in Int, NEW p3 \in Int,
           Ahead(v, m, n, p, v2, m2, n2, p2), Ahead(v2, m2, n2, p2, v3, m3, n3, p3)
    PROVE  Ahead(v, m, n, p, v3, m3, n3, p3)
BY DEF Ahead

\* The numbers a tick is chosen by.
Imbalance(p) == Distance(Demand[p], Supply[p])
Volume(p) == Traded(Demand, Supply, p)
Chosen(p, c) == AsWell(Demand, Supply, Centre, p, c)

LEMMA TickNumbers ==
    ASSUME Stored, Modes, NEW p \in Ticks
    PROVE  Volume(p) \in Int /\ Imbalance(p) \in Int /\ Near(p, Centre) \in Int /\ p \in Int
<1>1. Demand[p] \in Nat /\ Supply[p] \in Nat
  BY TradedFacts
<1>2. Volume(p) \in {Demand[p], Supply[p]}
  BY TradedFacts DEF Volume
<1>3. Imbalance(p) \in Int
  BY <1>1 DEF Imbalance, Distance
<1>4. p \in Int /\ Centre \in Int
  BY BookAssumption DEF Ticks, Centre, Modes, Prices
<1>5. Near(p, Centre) \in Int
  BY <1>4 DEF Near, Distance
<1> QED BY <1>1, <1>2, <1>3, <1>4, <1>5

LEMMA ChosenIsAhead ==
    ASSUME NEW p, NEW c
    PROVE  Chosen(p, c) <=> Ahead(Volume(p), Imbalance(p), Near(p, Centre), p,
                                Volume(c), Imbalance(c), Near(c, Centre), c)
BY DEF Chosen, AsWell, Ahead, Volume, Imbalance

\* Among ticks there is one an auction would choose.
LEMMA ChosenExists ==
    ASSUME Stored, Modes, NEW C \in SUBSET Ticks, NEW x \in C
    PROVE  \E p \in C : \A c \in C : Chosen(p, c)
<1> DEFINE Upto(n) == {c \in C : c =< n}
           Good == {n \in Nat : Upto(n) # {} => \E p \in Upto(n) : \A c \in Upto(n) : Chosen(p, c)}
<1>0. \A c \in C : /\ c \in Ticks /\ c \in Nat \ {0} /\ c =< MaxTick
                    /\ Volume(c) \in Int /\ Imbalance(c) \in Int /\ Near(c, Centre) \in Int
  BY TickNumbers, BookAssumption DEF Ticks
<1>1. \A p, c \in C : Chosen(p, c) \/ Chosen(c, p)
  <2> SUFFICES ASSUME NEW p \in C, NEW c \in C
               PROVE  Chosen(p, c) \/ Chosen(c, p)
    OBVIOUS
  <2>1. \/ Ahead(Volume(p), Imbalance(p), Near(p, Centre), p,
                Volume(c), Imbalance(c), Near(c, Centre), c)
        \/ Ahead(Volume(c), Imbalance(c), Near(c, Centre), c,
                Volume(p), Imbalance(p), Near(p, Centre), p)
    <3>1. /\ p \in Int /\ Volume(p) \in Int /\ Imbalance(p) \in Int /\ Near(p, Centre) \in Int
          /\ c \in Int /\ Volume(c) \in Int /\ Imbalance(c) \in Int /\ Near(c, Centre) \in Int
      BY <1>0
    <3> QED BY <3>1, AheadTotal DEF Ahead
  <2> QED BY <2>1, ChosenIsAhead
<1>2. \A p, c, d \in C : Chosen(p, c) /\ Chosen(c, d) => Chosen(p, d)
  <2> SUFFICES ASSUME NEW p \in C, NEW c \in C, NEW d \in C, Chosen(p, c), Chosen(c, d)
               PROVE  Chosen(p, d)
    OBVIOUS
  <2>1. Ahead(Volume(p), Imbalance(p), Near(p, Centre), p, Volume(c), Imbalance(c), Near(c, Centre), c)
    BY ChosenIsAhead
  <2>2. Ahead(Volume(c), Imbalance(c), Near(c, Centre), c, Volume(d), Imbalance(d), Near(d, Centre), d)
    BY ChosenIsAhead
  <2>3. Ahead(Volume(p), Imbalance(p), Near(p, Centre), p, Volume(d), Imbalance(d), Near(d, Centre), d)
    BY <1>0, <2>1, <2>2, AheadTransitive
  <2> QED BY <2>3, ChosenIsAhead
<1>3. 0 \in Good
  BY <1>0
<1>4. ASSUME NEW n \in Nat, n \in Good
      PROVE  n + 1 \in Good
  <2>1. CASE n + 1 \notin C
    <3>1. Upto(n + 1) = Upto(n)
      BY <1>0, <2>1
    <3> QED BY <1>4, <3>1
  <2>2. CASE n + 1 \in C
    <3>1. Upto(n + 1) = Upto(n) \cup {n + 1}
      BY <1>0, <2>2
    <3>2. Chosen(n + 1, n + 1)
      BY <1>1, <2>2
    <3>3. CASE Upto(n) = {}
      <4>1. \A c \in Upto(n + 1) : c = n + 1
        BY <3>1, <3>3
      <4>2. n + 1 \in Upto(n + 1)
        BY <3>1
      <4>3. \E p \in Upto(n + 1) : \A c \in Upto(n + 1) : Chosen(p, c)
        BY <3>2, <4>1, <4>2
      <4> QED BY <4>3
    <3>4. CASE Upto(n) # {}
      <4>1. PICK p \in Upto(n) : \A c \in Upto(n) : Chosen(p, c)
        BY <1>4, <3>4
      <4>2. p \in C /\ \A c \in Upto(n) : c \in C
        OBVIOUS
      <4> HIDE DEF Upto
      <4>3. CASE Chosen(p, n + 1)
        <5>1. \A c \in Upto(n + 1) : Chosen(p, c)
          BY <3>1, <4>1, <4>3
        <5>2. p \in Upto(n + 1)
          BY <3>1
        <5> QED BY <5>1, <5>2
      <4>4. CASE Chosen(n + 1, p)
        <5>1. \A c \in Upto(n + 1) : Chosen(n + 1, c)
          BY <1>2, <2>2, <3>1, <3>2, <4>1, <4>2, <4>4
        <5>2. n + 1 \in Upto(n + 1)
          BY <3>1
        <5> QED BY <5>1, <5>2
      <4> QED BY <1>1, <2>2, <4>2, <4>3, <4>4
    <3> QED BY <3>3, <3>4
  <2> QED BY <2>1, <2>2
<1> HIDE DEF Good
<1>5. Nat \subseteq Good
  BY <1>3, <1>4, Induction
<1>6. MaxTick \in Good
  BY <1>5, BookAssumption
<1>7. Upto(MaxTick) = C /\ C # {}
  BY <1>0
<1> QED BY <1>6, <1>7 DEF Good

\* At a price within a resting buy and a resting sell, shares would trade.
LEMMA LimitsTrade ==
    ASSUME TypeOK, Control, Data, In("active") = {},
           NEW b \in Limits("buy"), NEW s \in Limits("sell"), NEW x \in Ticks,
           x =< ord[b].px, x >= ord[s].px
    PROVE  Demand[x] > 0 /\ Supply[x] > 0 /\ Volume(x) > 0
<1> USE DEF TypeOK
<1>1. /\ b \in Ids /\ s \in Ids /\ at[b] = "book" /\ at[s] = "book"
      /\ ord[b].rem \in Nat /\ ord[s].rem \in Nat
  BY DEF Limits, In, Stored, OrderType
<1>2. ord[b].rem > 0 /\ ord[s].rem > 0
  BY <1>1 DEF Data, HasOpen, Live
<1>3. b \in Willing("buy", x) /\ s \in Willing("sell", x)
  BY <1>1 DEF Willing, AtOrBetter, Within
<1>4. Demand[x] > 0 /\ Supply[x] > 0
  <2>1. ord[b].rem =< Shares(Willing("buy", x)) /\ Shares(Willing("buy", x)) \in Nat
    BY <1>1, <1>3, SharesFacts
  <2>2. ord[s].rem =< Shares(Willing("sell", x)) /\ Shares(Willing("sell", x)) \in Nat
    BY <1>1, <1>3, SharesFacts
  <2>3. Demand[x] = Shares(Willing("buy", x)) /\ Supply[x] = Shares(Willing("sell", x))
    BY TradedFacts
  <2> QED BY <1>1, <1>2, <2>1, <2>2, <2>3
<1>5. Volume(x) \in {Demand[x], Supply[x]}
  BY TradedFacts DEF Volume
<1> QED BY <1>4, <1>5

\* Where limits cross, shares would trade, so an auction finds a price.
LEMMA NothingCrosses ==
    ASSUME TypeOK, Control, Data, Idle,
           \A p \in Candidates : ~ClearsAt(p, Traded(Demand, Supply, p))
    PROVE  ~Crossed
<1> USE DEF TypeOK
<1> SUFFICES ASSUME NEW b \in Limits("buy"), NEW s \in Limits("sell"), ord[b].px >= ord[s].px
             PROVE  FALSE
  BY DEF Crossed
<1>1. PICK x : x = ord[b].px
  OBVIOUS
<1>2. x \in LimitPrices
  BY <1>1 DEF LimitPrices
<1>3. x \in Candidates /\ x \in Ticks /\ Candidates \in SUBSET Ticks
  BY <1>2, CandidateTicks
<1>4. Volume(x) > 0
  <2>1. x =< ord[b].px /\ x >= ord[s].px /\ In("active") = {}
    BY <1>1, <1>3 DEF Ticks, Control, QuietOutside, Idle
  <2> QED BY <1>3, <2>1, LimitsTrade
<1>5. PICK p \in Candidates : \A c \in Candidates : Chosen(p, c)
  BY <1>3, ChosenExists
<1>6. Volume(p) > 0
  <2>1. Volume(p) \in Int /\ Volume(x) \in Int
    BY <1>3, TickNumbers
  <2>2. Chosen(p, x)
    BY <1>3, <1>5
  <2> QED BY <1>4, <2>1, <2>2, ChosenIsAhead DEF Ahead
<1>7. ClearsAt(p, Traded(Demand, Supply, p))
  BY <1>5, <1>6 DEF ClearsAt, Clears, Chosen, Volume
<1> QED BY <1>7

\* An auction that finds its price plans to trade what its price would, which is
\* the most; one that finds none leaves a book that is not crossed.
LEMMA UncrossSettled ==
    ASSUME TypeOK, Control, Data, Settle, BeginUncross, Idle, status = "AUCTION",
           call' = "run", UNCHANGED <<ref, last>>
    PROVE  Settle'
<1> USE DEF TypeOK
<1>1. auc = NoAuction /\ In("active") = {}
  BY DEF Control, QuietOutside, Idle
<1>2. CASE BeginPriced
  <2>1. PICK p \in Candidates :
           /\ ClearsAt(p, Traded(Demand, Supply, p))
           /\ auc' = [px |-> p, left |-> Traded(Demand, Supply, p)]
    BY <1>2 DEF BeginPriced
  <2>2. UNCHANGED <<ord, at, status>>
    BY <1>2 DEF BeginPriced
  <2>3. Candidates \subseteq Ticks /\ LimitPrices \subseteq Candidates /\ p \in Ticks
    BY CandidateTicks
  <2>4. Volume(p) > 0 /\ \A c \in Candidates : Chosen(p, c)
    BY <2>1 DEF ClearsAt, Clears, Volume, Chosen
  <2>5. auc'.px = p /\ auc'.left = Volume(p) /\ auc'.left > 0 /\ auc' # NoAuction
    BY <2>1, <2>4 DEF Volume, NoAuction
  <2>6. \A side, x : Willing(side, x)' = Willing(side, x)
    BY <2>2 DEF Willing, Market, AtOrBetter, Limits, In
  <2>7. Demand' = Demand /\ Supply' = Supply /\ LimitPrices' = LimitPrices
    BY <2>2, <2>6 DEF Demand, Supply, Shares, LimitPrices, Limits, In
  <2>8. \A x \in LimitPrices : Volume(x) =< Volume(p)
    <3> SUFFICES ASSUME NEW x \in LimitPrices PROVE Volume(x) =< Volume(p)
      OBVIOUS
    <3>1. Chosen(p, x) /\ x \in Ticks
      BY <2>3, <2>4
    <3>2. Volume(p) \in Int /\ Volume(x) \in Int
      BY <2>3, <3>1, TickNumbers
    <3> QED BY <3>1, <3>2, ChosenIsAhead DEF Ahead
  <2>9. Plan'
    <3>1. Traded(Demand', Supply', auc'.px) = auc'.left
      BY <2>5, <2>7 DEF Volume
    <3>2. \A x \in LimitPrices' : Traded(Demand', Supply', x) =< auc'.left
      BY <2>5, <2>7, <2>8 DEF Volume
    <3> QED BY <3>1, <3>2 DEF Plan
  <2>10. Auction'
    BY <1>1, <2>2, <2>3, <2>5 DEF Auction, In
  <2>11. Armed' /\ Uncrossed'
    BY <2>2, <2>5 DEF Armed, Uncrossed
  <2> QED BY <2>9, <2>10, <2>11 DEF Settle
<1>3. CASE BeginEmpty
  <2>1. ~Crossed
    BY <1>3, NothingCrosses DEF BeginEmpty
  <2>2. StopsStay /\ LimitsStay /\ UNCHANGED <<auc, selfCut>>
    BY <1>3, RetireStays DEF BeginEmpty
  <2>3. ~Crossed'
    BY <2>1, <2>2, StillUncrossed
  <2>4. Armed'
    <3>1. PICK p : p = last
      OBVIOUS
    <3>2. ~selfCut => ArmedAt(p)'
      BY <1>1, <2>2, <3>1, StillArmed DEF Settle, Armed, ArmedAt
    <3> QED BY <1>1, <2>2, <3>1, <3>2 DEF Armed, ArmedAt
  <2> QED BY <1>1, <2>2, <2>3, <2>4 DEF Settle, Uncrossed, Auction, Plan
<1> QED BY <1>2, <1>3 DEF BeginUncross

\* With nobody left to fill on a side, that side has no shares at the price.
LEMMA NobodyEligible ==
    ASSUME Stored, NEW side, Eligible(side) = {}
    PROVE  Shares(Willing(side, auc.px)) = 0
<1>1. \A i \in Ids : ord[i].rem \in Nat
  BY DEF Stored, OrderType
<1>2. \A i \in Ids : i \in Willing(side, auc.px) => ord[i].rem = 0
  BY <1>1 DEF Eligible
<1> QED BY <1>2, SharesFacts

\* If the best order of a side would not trade at x, a worse price for its side
\* than the auction's, nobody of that side would.
LEMMA BestIsWilling ==
    ASSUME Stored, NEW side \in Sides, NEW x \in Ticks, NEW z, auc.px \in Ticks,
           IsFirst(z, Eligible(side)), z \notin Willing(side, x),
           IF side = "buy" THEN x > auc.px ELSE x < auc.px
    PROVE  Shares(Willing(side, x)) = 0
<1>0. z \in Ids /\ z \in Willing(side, auc.px)
  BY DEF IsFirst, Eligible, Willing, Market, AtOrBetter, Limits, In
<1>1. z \in Limits(side) /\ ord[z].side = side /\ ~AtMarket(ord[z])
      /\ Within(side, ord[z].px, auc.px) /\ ~Within(side, ord[z].px, x)
  BY <1>0 DEF Willing, AtOrBetter, Market, Limits
<1>2. \A i \in Ids : ord[i].rem \in Nat /\ ord[i].px \in Int
  BY BookAssumption DEF Stored, OrderType, Prices
<1>3. x \in Int /\ auc.px \in Int
  BY DEF Ticks
<1>4. ASSUME NEW y \in Ids, y \in Willing(side, x)
      PROVE  ord[y].rem = 0
  <2> SUFFICES ASSUME ord[y].rem # 0 PROVE FALSE
    OBVIOUS
  <2>1. ord[y].rem > 0 /\ y # z
    BY <1>2, <1>4
  <2>2. y \in Market(side) \/ (y \in Limits(side) /\ Within(side, ord[y].px, x))
    BY <1>4 DEF Willing, AtOrBetter
  <2>3. y \in Willing(side, auc.px)
    <3>1. Within(side, ord[y].px, x) => Within(side, ord[y].px, auc.px)
      BY <1>2, <1>3 DEF Within
    <3> QED BY <2>2, <3>1 DEF Willing, AtOrBetter
  <2>4. Before(z, y)
    BY <2>1, <2>3 DEF IsFirst, Eligible
  <2>5. ~AtMarket(ord[y])
    BY <1>1, <2>4 DEF Before
  <2>6. Within(side, ord[y].px, x)
    BY <2>2, <2>5 DEF Market
  <2>7. IF side = "buy" THEN ord[z].px >= ord[y].px ELSE ord[z].px =< ord[y].px
    BY <1>0, <1>1, <1>2, <2>4 DEF Before
  <2> QED BY <1>0, <1>1, <1>2, <1>3, <2>6, <2>7 DEF Within
<1> QED BY <1>4, SharesFacts

\* An uncross that has nobody left to fill, and dropped no self-trade, has traded
\* its volume.
LEMMA VolumeDone ==
    ASSUME TypeOK, Settle, auc # NoAuction, ~selfCut,
           Eligible("buy") = {} \/ Eligible("sell") = {}
    PROVE  auc.left = 0
<1> USE DEF TypeOK
<1>1. PICK p : p = auc.px
  OBVIOUS
<1>2. p \in Ticks /\ Volume(p) = auc.left
  BY <1>1 DEF Settle, Auction, Plan, Volume
<1>3. /\ Demand[p] = Shares(Willing("buy", p)) /\ Demand[p] \in Nat
      /\ Supply[p] = Shares(Willing("sell", p)) /\ Supply[p] \in Nat
      /\ Volume(p) \in {Demand[p], Supply[p]} /\ Volume(p) =< Demand[p] /\ Volume(p) =< Supply[p]
  BY <1>2, TradedFacts DEF Volume
<1>4. Demand[p] = 0 \/ Supply[p] = 0
  BY <1>1, <1>3, NobodyEligible
<1> QED BY <1>2, <1>3, <1>4

\* Then its price crosses nothing: a crossing pair would have been planned.
LEMMA DoneUncrossed ==
    ASSUME TypeOK, Control, Data, Settle, auc # NoAuction, ~selfCut, auc.left = 0
    PROVE  ~Crossed
<1> USE DEF TypeOK
<1> SUFFICES ASSUME NEW b \in Limits("buy"), NEW s \in Limits("sell"), ord[b].px >= ord[s].px
             PROVE  FALSE
  BY DEF Crossed
<1>1. PICK p, x, y : p = auc.px /\ x = ord[b].px /\ y = ord[s].px
  OBVIOUS
<1>2. /\ p \in Ticks /\ Volume(p) = 0 /\ In("active") = {}
      /\ \A z \in LimitPrices : /\ z < p /\ Supply[z] > 0 => Volume(z) =< 0
                                /\ z > p /\ Demand[z] > 0 => Volume(z) =< 0
  BY <1>1 DEF Settle, Auction, Plan, Volume
<1>3. x \in LimitPrices /\ y \in LimitPrices
  BY <1>1 DEF LimitPrices
<1>4. x \in Ticks /\ y \in Ticks /\ x \in Int /\ y \in Int /\ p \in Int
  BY <1>2, <1>3, CandidateTicks DEF Ticks
<1>5. CASE x < p
  <2>1. Supply[x] > 0 /\ Volume(x) > 0
    BY <1>1, <1>2, <1>4, LimitsTrade
  <2> QED BY <1>2, <1>3, <1>4, <1>5, <2>1, TickNumbers
<1>6. CASE y > p
  <2>1. Demand[y] > 0 /\ Volume(y) > 0
    BY <1>1, <1>2, <1>4, LimitsTrade
  <2> QED BY <1>2, <1>3, <1>4, <1>6, <2>1, TickNumbers
<1>7. CASE p =< x /\ p >= y
  <2>1. Volume(p) > 0
    BY <1>1, <1>2, <1>4, <1>7, LimitsTrade
  <2> QED BY <1>2, <2>1
<1> QED BY <1>4, <1>5, <1>6, <1>7

\* Both orders of a pair are live, past their trigger, and would trade at the price.
LEMMA PairFacts ==
    ASSUME TypeOK, Settle, NEW b \in Ids, NEW s \in Ids, Pair(b, s)
    PROVE  /\ b \in Willing("buy", auc.px) /\ s \in Willing("sell", auc.px)
           /\ ord[b].side = "buy" /\ ord[s].side = "sell"
           /\ ~Untriggered(ord[b]) /\ ~Untriggered(ord[s])
           /\ ord[b].rem \in Nat /\ ord[s].rem \in Nat
           /\ auc.left \in Nat /\ auc.px \in Ticks
<1>1. b \in Willing("buy", auc.px) /\ s \in Willing("sell", auc.px)
  BY DEF Pair, IsFirst, Eligible
<1>2. /\ ord[b].side = "buy" /\ ord[s].side = "sell"
      /\ ~Untriggered(ord[b]) /\ ~Untriggered(ord[s])
  BY <1>1 DEF Willing, Market, AtOrBetter, Limits, AtMarket
<1>3. ord[b].rem \in Nat /\ ord[s].rem \in Nat
  BY DEF TypeOK, Stored, OrderType
<1>4. auc.left \in Nat /\ auc.px \in Ticks
  BY DEF Pair, TypeOK, Modes, Settle, Auction
<1> QED BY <1>1, <1>2, <1>3, <1>4

\* A fill takes the same from what is planned and from what could be traded.
LEMMA FillSettled ==
    ASSUME TypeOK, TypeOK', Settle, AuctionFill
    PROVE  Settle'
<1> USE DEF TypeOK
<1>1. PICK b \in Ids, s \in Ids :
         /\ Pair(b, s)
         /\ Execute(b, s, Min({auc.left, ord[b].rem, ord[s].rem}), auc.px, {b, s})
         /\ auc' = [auc EXCEPT !.left = @ - Min({auc.left, ord[b].rem, ord[s].rem})]
  BY DEF AuctionFill
<1>2. PICK q, p : q = Min({auc.left, ord[b].rem, ord[s].rem}) /\ p = auc.px
  OBVIOUS
<1>3. /\ b \in Willing("buy", p) /\ s \in Willing("sell", p)
      /\ ord[b].side = "buy" /\ ord[s].side = "sell"
      /\ ~Untriggered(ord[b]) /\ ~Untriggered(ord[s])
      /\ ord[b].rem \in Nat /\ ord[s].rem \in Nat /\ auc.left \in Nat /\ p \in Ticks
  BY <1>1, <1>2, PairFacts
<1>4. q \in Nat /\ q =< auc.left /\ q =< ord[b].rem /\ q =< ord[s].rem
  BY <1>2, <1>3, MinThree
<1>5. Execute(b, s, q, p, {b, s})
  BY <1>1, <1>2
<1>6. auc'.px = p /\ auc'.left = auc.left - q /\ auc # NoAuction /\ auc' # NoAuction
  <2>1. auc'.px = p /\ auc'.left = auc.left - q
    BY <1>1, <1>2 DEF Modes
  <2> QED BY <1>1, <1>3, <2>1 DEF Pair, NoAuction, Ticks
<1>7. StopsStay /\ LimitsStay /\ ArmedAt(p)'
  BY <1>3, <1>4, <1>5, ExecuteStays
<1>8. Armed'
  BY <1>6, <1>7 DEF Armed, ArmedAt
<1>9. UNCHANGED <<status, call, selfCut>>
  BY DEF AuctionFill
<1>10. Auction' /\ Uncrossed'
  <2>1. In("active")' \subseteq In("active")
    BY <1>5 DEF Execute, In
  <2> QED BY <1>3, <1>6, <1>9, <2>1 DEF Settle, Auction, Uncrossed
<1>11. ASSUME NEW x \in Ticks
       PROVE  /\ Demand[x] = Demand'[x] + (IF b \in Willing("buy", x) THEN q ELSE 0)
              /\ Supply[x] = Supply'[x] + (IF s \in Willing("sell", x) THEN q ELSE 0)
              /\ Demand'[x] \in Nat /\ Supply'[x] \in Nat
              /\ Demand[x] \in Nat /\ Supply[x] \in Nat
              /\ Volume(x) = Min({Demand[x], Supply[x]})
              /\ Volume(x)' = Min({Demand'[x], Supply'[x]})
  <2>1. b # s /\ "buy" \in Sides /\ "sell" \in Sides
    BY <1>3 DEF Sides
  <2>2. /\ Shares(Willing("buy", x)) = Shares(Willing("buy", x))'
                                         + (IF b \in Willing("buy", x) THEN q ELSE 0)
        /\ Shares(Willing("buy", x))' \in Nat
    <3>1. b \in {b, s} /\ \A y \in {b, s} : y # b => ord[y].side # "buy"
      BY <1>3
    <3> QED BY <1>3, <1>4, <1>5, <2>1, <3>1, SharesAfterFill
  <2>3. /\ Shares(Willing("sell", x)) = Shares(Willing("sell", x))'
                                          + (IF s \in Willing("sell", x) THEN q ELSE 0)
        /\ Shares(Willing("sell", x))' \in Nat
    <3>1. s \in {b, s} /\ \A y \in {b, s} : y # s => ord[y].side # "sell"
      BY <1>3
    <3> QED BY <1>3, <1>4, <1>5, <2>1, <3>1, SharesAfterFill
  <2>4. /\ Demand[x] = Shares(Willing("buy", x)) /\ Supply[x] = Shares(Willing("sell", x))
        /\ Demand'[x] = Shares(Willing("buy", x))' /\ Supply'[x] = Shares(Willing("sell", x))'
    BY DEF Demand, Supply
  <2> QED BY <1>4, <2>2, <2>3, <2>4 DEF Volume, Traded
<1>12. Plan'
  <2> SUFFICES ASSUME ~selfCut PROVE Plan'
    BY <1>9 DEF Plan
  <2>1. /\ Volume(p) = auc.left
        /\ \A x \in LimitPrices : /\ x < p /\ Supply[x] > 0 => Volume(x) =< auc.left
                                  /\ x > p /\ Demand[x] > 0 => Volume(x) =< auc.left
    BY <1>2, <1>6 DEF Settle, Plan, Volume
  <2>2. Volume(p)' = auc.left - q
    <3>1. /\ Demand[p] = Demand'[p] + q /\ Supply[p] = Supply'[p] + q
          /\ Demand'[p] \in Nat /\ Supply'[p] \in Nat
          /\ Demand[p] \in Nat /\ Supply[p] \in Nat
          /\ Volume(p) = Min({Demand[p], Supply[p]})
          /\ Volume(p)' = Min({Demand'[p], Supply'[p]})
      BY <1>3, <1>11
    <3> QED BY <1>3, <1>4, <2>1, <3>1, MinTwo
  <2>3. ASSUME NEW x \in LimitPrices'
        PROVE  /\ x < p /\ Supply'[x] > 0 => Volume(x)' =< auc.left - q
               /\ x > p /\ Demand'[x] > 0 => Volume(x)' =< auc.left - q
    <3>1. x \in LimitPrices
      BY <1>7 DEF LimitsStay, LimitPrices, Sides, Limits, In
    <3>2. x \in Ticks
      BY <3>1, CandidateTicks
    <3>3. /\ Demand[x] = Demand'[x] + (IF b \in Willing("buy", x) THEN q ELSE 0)
          /\ Supply[x] = Supply'[x] + (IF s \in Willing("sell", x) THEN q ELSE 0)
          /\ Demand'[x] \in Nat /\ Supply'[x] \in Nat
          /\ Demand[x] \in Nat /\ Supply[x] \in Nat
          /\ Volume(x) = Min({Demand[x], Supply[x]})
          /\ Volume(x)' = Min({Demand'[x], Supply'[x]})
      BY <1>11, <3>2
    <3>4. b \in Willing("buy", x) /\ s \in Willing("sell", x) => Volume(x)' = Volume(x) - q
      BY <1>4, <3>3, MinTwo
    <3>5. ASSUME x < p, Supply'[x] > 0
          PROVE  Volume(x)' =< auc.left - q
      <4>1. b \in Willing("buy", x)
        <5>1. b \in Market("buy") \/ (b \in Limits("buy") /\ Within("buy", ord[b].px, p))
          BY <1>3 DEF Willing, AtOrBetter
        <5>2. ord[b].px \in Int /\ x \in Int /\ p \in Int
          BY <1>3, <3>2 DEF Stored, OrderType, Prices, Ticks
        <5>3. Within("buy", ord[b].px, p) => Within("buy", ord[b].px, x)
          BY <3>5, <5>2 DEF Within
        <5> QED BY <5>1, <5>3 DEF Willing, AtOrBetter
      <4>2. Supply[x] > 0
        BY <1>4, <3>3, <3>5
      <4>3. s \in Willing("sell", x)
        <5>1. IsFirst(s, Eligible("sell")) /\ "sell" \in Sides /\ auc.px \in Ticks
          BY <1>1, <1>2, <1>3 DEF Pair, Sides
        <5>2. Supply[x] = Shares(Willing("sell", x)) /\ x < auc.px
          BY <1>2, <3>2, <3>5, TradedFacts
        <5> QED BY <3>2, <4>2, <5>1, <5>2, BestIsWilling
      <4>4. Volume(x) =< auc.left /\ Volume(x) \in Nat
        BY <2>1, <3>1, <3>3, <3>5, <4>2, MinTwo
      <4> QED BY <1>3, <1>4, <3>4, <4>1, <4>3, <4>4
    <3>6. ASSUME x > p, Demand'[x] > 0
          PROVE  Volume(x)' =< auc.left - q
      <4>1. s \in Willing("sell", x)
        <5>1. s \in Market("sell") \/ (s \in Limits("sell") /\ Within("sell", ord[s].px, p))
          BY <1>3 DEF Willing, AtOrBetter
        <5>2. ord[s].px \in Int /\ x \in Int /\ p \in Int
          BY <1>3, <3>2 DEF Stored, OrderType, Prices, Ticks
        <5>3. Within("sell", ord[s].px, p) => Within("sell", ord[s].px, x)
          BY <3>6, <5>2 DEF Within
        <5> QED BY <5>1, <5>3 DEF Willing, AtOrBetter
      <4>2. Demand[x] > 0
        BY <1>4, <3>3, <3>6
      <4>3. b \in Willing("buy", x)
        <5>1. IsFirst(b, Eligible("buy")) /\ "buy" \in Sides /\ auc.px \in Ticks
          BY <1>1, <1>2, <1>3 DEF Pair, Sides
        <5>2. Demand[x] = Shares(Willing("buy", x)) /\ x > auc.px
          BY <1>2, <3>2, <3>6, TradedFacts
        <5> QED BY <3>2, <4>2, <5>1, <5>2, BestIsWilling
      <4>4. Volume(x) =< auc.left /\ Volume(x) \in Nat
        BY <2>1, <3>1, <3>3, <3>6, <4>2, MinTwo
      <4> QED BY <1>3, <1>4, <3>4, <4>1, <4>3, <4>4
    <3> QED BY <3>5, <3>6
  <2> QED BY <1>6, <2>2, <2>3 DEF Plan, Volume
<1> QED BY <1>8, <1>10, <1>12 DEF Settle

\* A self-trade cut takes the promise of the uncross back.
LEMMA CutSettled ==
    ASSUME TypeOK, Settle, AuctionSelfCut
    PROVE  Settle'
<1>1. PICK S : Retire(S)
  BY DEF AuctionSelfCut
<1>2. /\ auc # NoAuction /\ auc.left > 0 /\ selfCut' = TRUE /\ UNCHANGED <<auc, status, call>>
  BY DEF AuctionSelfCut, Pair
<1>3. In("active")' \subseteq In("active")
  BY <1>1 DEF Retire, In
<1> QED BY <1>2, <1>3 DEF Settle, Armed, Uncrossed, Auction, Plan

\* An uncross that ends has traded what it planned; its print set its stops off.
LEMMA DoneSettled ==
    ASSUME TypeOK, Control, Data, Settle, AuctionDone
    PROVE  Settle'
<1>1. /\ auc # NoAuction /\ auc' = NoAuction /\ last' = auc.px /\ selfCut' = selfCut
      /\ Retire(Leftovers(FALSE))
      /\ auc.left = 0 \/ Eligible("buy") = {} \/ Eligible("sell") = {}
  BY DEF AuctionDone
<1>2. StopsStay /\ LimitsStay
  BY <1>1, RetireStays
<1>3. ~selfCut => auc.left = 0
  BY <1>1, VolumeDone
<1>4. Armed'
  <2>1. PICK p : p = auc.px
    OBVIOUS
  <2>2. ~selfCut => ArmedAt(p)
    BY <1>1, <1>3, <2>1 DEF Settle, Armed, ArmedAt
  <2>3. ~selfCut => ArmedAt(p)'
    BY <1>2, <2>2, StillArmed
  <2> QED BY <1>1, <2>1, <2>3 DEF Armed, ArmedAt
<1>5. Uncrossed'
  BY <1>1, <1>2, <1>3, DoneUncrossed, StillUncrossed DEF Uncrossed
<1> QED BY <1>1, <1>4, <1>5 DEF Settle, Auction, Plan

LEMMA SettleStep == ASSUME TypeOK, TypeOK', Control, Data, Settle, [Next]_vars
                    PROVE  Settle'
<1> USE DEF TypeOK
<1>0. \A i \in Live : /\ i \in Ids /\ ord[i] \in OrderType /\ WellShaped(ord[i])
                      /\ at[i] \in {"active", "triggered"} => ~Untriggered(ord[i])
  BY DEF Stored, Live, Data, Shaped
<1>a. Idle => auc = NoAuction /\ \A i \in Live : at[i] = "book"
  BY DEF Idle, Control, QuietOutside, In, Live, Stored, Places
<1>b. ASSUME NEW i \in Ids, at[i] = "active"
      PROVE  auc = NoAuction /\ i \in Live /\ ~Untriggered(ord[i])
  BY <1>0, <1>b DEF Settle, Auction, In, Live
<1>c. ASSUME UNCHANGED <<ord, at, auc, last, selfCut>>, auc = NoAuction,
             status' \in {status, "AUCTION"}
      PROVE  Settle'
  <2>1. StopsStay /\ LimitsStay
    BY <1>c DEF StopsStay, LimitsStay, Limits, In
  <2> QED BY <1>c, <2>1, StaysSettled
<1>d. ASSUME NEW S, Retire(S), auc = NoAuction, UNCHANGED <<auc, last, selfCut>>,
             status' \in {status, "AUCTION"}
      PROVE  Settle'
  BY <1>d, RetireStays, StaysSettled
<1>1. ASSUME NEW t \in Tickets, Submit(t) \/ IngestAccept(t)
      PROVE  Settle'
  <2>1. /\ nextId \in Ids /\ UNCHANGED <<auc, last, selfCut, status>>
        /\ at' = [at EXCEPT ![nextId] = "batch"]
        /\ ord' = [ord EXCEPT ![nextId] = NewOrder(t)]
        /\ call # "run"
    BY <1>1 DEF Submit, IngestAccept, Accept, Idle
  <2>2. auc = NoAuction
    BY <2>1 DEF Control, QuietOutside
  <2>3. StopsStay /\ LimitsStay
    BY <2>1 DEF Stored, StopsStay, LimitsStay, Limits, In
  <2> QED BY <2>1, <2>2, <2>3, StaysSettled
<1>2. ASSUME NEW i \in Ids, Cancel(i)
      PROVE  Settle'
  BY <1>2, <1>a, <1>d DEF Cancel, Unmoved
<1>3. ASSUME NEW i \in Ids, NEW q \in Qtys, SizeDown(i, q)
      PROVE  Settle'
  <2>1. /\ i \in Live /\ ord' = [ord EXCEPT ![i].rem = q] /\ at' = at /\ auc = NoAuction
        /\ UNCHANGED <<auc, last, selfCut, status>>
    BY <1>3, <1>a DEF SizeDown, Unmoved
  <2>2. \A k \in Ids : /\ ord'[k].type = ord[k].type /\ ord'[k].px = ord[k].px
                       /\ ord'[k].trig = ord[k].trig /\ ord'[k].side = ord[k].side
                       /\ ord'[k].stop = ord[k].stop
    BY <2>1 DEF Stored, OrderType
  <2>3. StopsStay /\ LimitsStay
    BY <2>1, <2>2 DEF StopsStay, LimitsStay, Limits, In, Untriggered, AtMarket
  <2> QED BY <2>1, <2>3, StaysSettled
<1>4. ASSUME NEW i \in Ids, NEW q \in Qtys, SizeUp(i, q)
      PROVE  Settle'
  <2> DEFINE o == [ord[i] EXCEPT !.rem = q]
             r == [o EXCEPT !.prio = nextPrio]
  <2>1. /\ i \in Live /\ Rest(i, o) /\ at[i] = "book" /\ auc = NoAuction
        /\ UNCHANGED <<auc, last, selfCut, status>>
    BY <1>4, <1>a DEF SizeUp, Unmoved
  <2>2. /\ r.type = ord[i].type /\ r.px = ord[i].px /\ r.trig = ord[i].trig
        /\ r.side = ord[i].side /\ r.stop = ord[i].stop
    BY <1>0, <2>1 DEF OrderType
  <2>3. ord' = [ord EXCEPT ![i] = r] /\ at' = [at EXCEPT ![i] = "book"]
    BY <2>1 DEF Rest
  <2> HIDE DEF o, r
  <2>4. \A k \in Ids : /\ ord'[k].type = ord[k].type /\ ord'[k].px = ord[k].px
                       /\ ord'[k].trig = ord[k].trig /\ ord'[k].side = ord[k].side
                       /\ ord'[k].stop = ord[k].stop /\ at'[k] = at[k]
    BY <2>1, <2>2, <2>3 DEF Stored
  <2>5. StopsStay /\ LimitsStay
    BY <2>4 DEF StopsStay, LimitsStay, Limits, In, Untriggered, AtMarket
  <2> QED BY <2>1, <2>5, StaysSettled
<1>5. ASSUME NEW i \in Ids, NEW q \in Qtys, NEW p \in Ticks, Reprice(i, q, p)
      PROVE  Settle'
  <2> DEFINE o == [ord[i] EXCEPT !.px = p, !.rem = q]
  <2>1. /\ \/ Rest(i, o) /\ Untriggered(o) /\ ~Fires(o, last)
           \/ Activate(i, o)
        /\ i \in Live /\ auc = NoAuction /\ UNCHANGED <<auc, last, selfCut, status>>
    BY <1>5, <1>a DEF Reprice, Unmoved
  <2>2. o \in OrderType
    <3>1. q \in Nat /\ p \in Prices
      BY BookAssumption DEF Qtys, Ticks, Prices
    <3> QED BY <1>0, <2>1, <3>1 DEF OrderType
  <2> HIDE DEF o
  <2>3. CASE Rest(i, o) /\ Untriggered(o) /\ ~Fires(o, last)
    BY <2>1, <2>2, <2>3, RestStop
  <2>4. CASE Activate(i, o)
    BY <2>1, <2>4, ActivateStays, StaysSettled
  <2> QED BY <2>1, <2>3, <2>4
<1>6. CASE Uncross
  BY <1>6, UncrossSettled DEF Uncross
<1>7. CASE StartAuction
  BY <1>7, <1>a, <1>c DEF StartAuction
<1>8. ASSUME NEW p \in Ticks, SetReference(p)
      PROVE  Settle'
  BY <1>8, <1>a, <1>c DEF SetReference
<1>9. CASE EndTick
  <2>1. CASE status = "AUCTION"
    BY <1>9, <2>1, UncrossSettled DEF EndTick
  <2>2. CASE status # "AUCTION"
    BY <1>9, <1>a, <1>c, <2>2 DEF EndTick
  <2> QED BY <2>1, <2>2
<1>10. CASE IngestSort
  <2>1. auc = NoAuction
    BY <1>10 DEF IngestSort, Control, QuietOutside
  <2> QED BY <1>10, <1>c, <2>1 DEF IngestSort
<1>11. CASE Process
  <2>1. PICK i \in In("batch") :
           \/ Rest(i, ord[i]) /\ Untriggered(ord[i]) /\ ~Fires(ord[i], last)
           \/ Activate(i, ord[i])
    BY <1>11 DEF Process
  <2>2. /\ i \in Live /\ auc = NoAuction /\ UNCHANGED <<auc, last, selfCut, status>>
    BY <1>11 DEF Process, Settled, In, Live
  <2>3. CASE Rest(i, ord[i]) /\ Untriggered(ord[i]) /\ ~Fires(ord[i], last)
    BY <1>0, <2>2, <2>3, RestStop
  <2>4. CASE Activate(i, ord[i])
    BY <1>0, <2>2, <2>4, ActivateStays, StaysSettled
  <2> QED BY <2>1, <2>3, <2>4
<1>12. CASE FlushStop
  <2>1. PICK i \in In("triggered") : at' = [at EXCEPT ![i] = "active"]
    BY <1>12 DEF FlushStop
  <2>2. auc = NoAuction /\ UNCHANGED <<ord, auc, last, selfCut, status>>
    BY <1>12 DEF FlushStop
  <2>3. \A k \in Ids : at'[k] = at[k] \/ at'[k] = "active"
    BY <2>1 DEF Stored, In
  <2>4. StopsStay /\ LimitsStay
    BY <2>2, <2>3 DEF StopsStay, LimitsStay, Limits, In
  <2> QED BY <2>2, <2>4, StaysSettled
<1>13. CASE Return
  BY <1>13, <1>c DEF Return, Settled
<1>14. CASE Expire
  BY <1>14, <1>d DEF Expire, Settled
<1>15. ASSUME NEW i \in Ids, RestInAuction(i)
       PROVE  Settle'
  <2>1. /\ i \in Live /\ auc = NoAuction /\ ~Untriggered(ord[i])
        /\ Rest(i, ord[i]) /\ status' = "AUCTION" /\ UNCHANGED <<auc, last, selfCut>>
    BY <1>15, <1>b DEF RestInAuction
  <2>2. ord[i].side \in Sides
    BY <1>0, <2>1 DEF WellShaped
  <2> QED BY <1>0, <2>1, <2>2, RestLimit
<1>16. ASSUME NEW i \in Ids, Fill(i)
       PROVE  Settle'
  <2>1. PICK j \in Ids :
           /\ Facing(i, j)
           /\ Execute(i, j, Min({ord[i].rem, ord[j].rem}), ord[j].px, {j})
    BY <1>16 DEF Fill
  <2>2. PICK q, p : q = Min({ord[i].rem, ord[j].rem}) /\ p = ord[j].px
    OBVIOUS
  <2>3. /\ i \in Live /\ auc = NoAuction /\ ~Untriggered(ord[i])
        /\ UNCHANGED <<auc, selfCut, status>>
    BY <1>16, <1>b DEF Fill, Matching
  <2>4. ~Untriggered(ord[j])
    BY <2>1 DEF Facing, IsFirst, Crossing, Limits
  <2>5. q \in Nat
    <3>1. ord[i].rem \in Nat /\ ord[j].rem \in Nat
      BY DEF Stored, OrderType
    <3> QED BY <2>2, <3>1, MinTwo
  <2>6. Execute(i, j, q, p, {j})
    BY <2>1, <2>2
  <2>7. StopsStay /\ LimitsStay /\ ArmedAt(p)'
    BY <2>3, <2>4, <2>5, <2>6, ExecuteStays
  <2>8. last' = p
    BY <2>6 DEF Execute
  <2>9. Armed'
    BY <2>3, <2>7, <2>8 DEF Armed, ArmedAt
  <2>10. Uncrossed'
    BY <2>3, <2>7, StillUncrossed DEF Settle, Uncrossed
  <2> QED BY <2>3, <2>9, <2>10 DEF Settle, Auction, Plan
<1>17. ASSUME NEW i \in Ids, SelfTradeCancel(i)
       PROVE  Settle'
  BY <1>17, <1>b, <1>d DEF SelfTradeCancel, Matching
<1>18. ASSUME NEW i \in Ids, Halt(i)
       PROVE  Settle'
  <2>1. /\ i \in Live /\ auc = NoAuction /\ ~Untriggered(ord[i])
        /\ Rest(i, ord[i]) \/ Retire({i})
        /\ status' = "AUCTION" /\ UNCHANGED <<auc, last, selfCut>>
    BY <1>18, <1>b DEF Halt, Matching
  <2>2. ord[i].side \in Sides
    BY <1>0, <2>1 DEF WellShaped
  <2>3. CASE Rest(i, ord[i])
    BY <1>0, <2>1, <2>2, <2>3, RestLimit
  <2>4. CASE Retire({i})
    BY <1>d, <2>1, <2>4
  <2> QED BY <2>1, <2>3, <2>4
<1>19. ASSUME NEW i \in Ids, Finish(i)
       PROVE  Settle'
  <2>1. /\ i \in Live /\ auc = NoAuction /\ ~Untriggered(ord[i])
        /\ UNCHANGED <<auc, last, selfCut, status>>
    BY <1>19, <1>b DEF Finish, Matching
  <2>2. \/ Retire({i})
        \/ Rest(i, ord[i]) /\ Crossing(i) = {}
    BY <1>19 DEF Finish
  <2>3. CASE Retire({i})
    BY <1>d, <2>1, <2>3
  <2>4. CASE Rest(i, ord[i]) /\ Crossing(i) = {}
    <3>1. ord[i].side \in Sides
      BY <1>0, <2>1 DEF WellShaped
    <3>2. \A j \in Limits(Opposite(ord[i].side)) : ~Within(ord[i].side, ord[i].px, ord[j].px)
      BY <2>4 DEF Crossing
    <3> QED BY <1>0, <2>1, <2>4, <3>1, <3>2, RestLimit
  <2> QED BY <2>2, <2>3, <2>4
<1>20. CASE AuctionFill
  BY <1>20, FillSettled
<1>21. CASE AuctionSelfCut
  BY <1>21, CutSettled
<1>22. CASE AuctionDone
  BY <1>22, DoneSettled
<1>23. CASE UNCHANGED vars
  <2>1. UNCHANGED <<ord, at, status, last, call, auc, selfCut>>
    BY <1>23 DEF vars
  <2>2. \A side, x : Willing(side, x)' = Willing(side, x)
    BY <2>1 DEF Willing, Market, AtOrBetter, Limits, In
  <2>3. Demand' = Demand /\ Supply' = Supply /\ LimitPrices' = LimitPrices
    BY <2>1, <2>2 DEF Demand, Supply, Shares, LimitPrices, Limits, In
  <2>4. Plan'
    BY <2>1, <2>3 DEF Settle, Plan
  <2>5. Armed' /\ Uncrossed' /\ Auction'
    BY <2>1 DEF Settle, Armed, ArmedAt, Uncrossed, Crossed, Limits, Auction, In
  <2> QED BY <2>4, <2>5 DEF Settle
<1> QED
  BY <1>1, <1>2, <1>3, <1>4, <1>5, <1>6, <1>7, <1>8, <1>9, <1>10, <1>11, <1>12,
     <1>13, <1>14, <1>15, <1>16, <1>17, <1>18, <1>19, <1>20, <1>21, <1>22, <1>23
     DEF Next, Call, MatchStep, Replace

-----------------------------------------------------------------------------
(* The invariant and what it implies *)

Inv == TypeOK /\ Control /\ Data /\ Settle

THEOREM InvCorrect == Spec => []Inv
<1>1. Init => Inv
  <2> SUFFICES ASSUME Init PROVE Inv  OBVIOUS
  <2>1. TypeOK
    <3>1. Stored  BY NoOrderType DEF Init, Stored, Places
    <3>2. Modes  BY ZeroPrice, NoAuctionType, BookAssumption DEF Init, Modes
    <3> QED  BY <3>1, <3>2 DEF TypeOK
  <2>2. \A i \in Ids : at[i] = "none"  BY DEF Init
  <2>3. Control
    BY <2>2 DEF Init, Control, Fresh, OneActive, QuietOutside, ClosingIsCall, In
  <2>4. Live = {} /\ In("book") = {}  BY <2>2 DEF Live, In
  <2>5. Data
    BY <2>4 DEF Data, Shaped, HasOpen, NoMarketRests, DayOrdersExpire, Market
  <2>6. Settle
    BY <2>4 DEF Init, Settle, Armed, ArmedAt, Uncrossed, Crossed, Limits, Auction, Plan
  <2> QED  BY <2>1, <2>3, <2>5, <2>6 DEF Inv
<1>2. Inv /\ [Next]_vars => Inv'
  <2> SUFFICES ASSUME Inv, [Next]_vars PROVE Inv'
    OBVIOUS
  <2>1. TypeOK' /\ Control' /\ Data'
    BY TypeStep, ControlStep, DataStep DEF Inv
  <2>2. Settle'
    BY <2>1, SettleStep DEF Inv
  <2> QED BY <2>1, <2>2 DEF Inv
<1> QED  BY <1>1, <1>2, PTL DEF Spec

\* Whatever the agents submit, replace and cancel, every variable keeps its type;
\* in particular no order is ever filled beyond its size.
THEOREM TypeCorrect == Spec => []TypeOK
<1>1. Inv => TypeOK  BY DEF Inv
<1> QED  BY <1>1, InvCorrect, PTL

\* No order without a limit waits in a continuous book, however halts, stops,
\* replaces and call auctions follow one another.
THEOREM NoMarketRestsCorrect == Spec => []NoMarketRests
<1>1. Inv => NoMarketRests  BY DEF Inv, Data
<1> QED  BY <1>1, InvCorrect, PTL

\* No DAY order is live on a later tick than the one it was accepted on.
THEOREM DayOrdersExpireCorrect == Spec => []DayOrdersExpire
<1>1. Inv => DayOrdersExpire  BY DEF Inv, Data
<1> QED  BY <1>1, InvCorrect, PTL

\* Between two calls, whatever mix of orders, replaces, halts and auctions led there,
\* no reached stop still waits, an open book is not crossed, no order of a past day
\* lives and none rests at market (the first two unless an uncross cut a self-trade).
THEOREM SettledBetweenCallsCorrect == Spec => []SettledBetweenCalls
<1>1. Inv => SettledBetweenCalls
  <2> SUFFICES ASSUME Inv PROVE SettledBetweenCalls
    OBVIOUS
  <2>1. Idle => auc = NoAuction
    BY DEF Inv, Control, QuietOutside, Idle
  <2>2. StopsArmed
    BY <2>1 DEF Inv, Settle, Armed, ArmedAt, StopsArmed
  <2>3. UncrossedWhenContinuous
    BY DEF Inv, Settle, Uncrossed, UncrossedWhenContinuous
  <2> QED BY <2>2, <2>3 DEF Inv, Data, SettledBetweenCalls
<1> QED BY <1>1, InvCorrect, PTL

\* An uncross that cuts no self-trade fills all the shares its clearing price
\* promised: the orders it can still fill run out on no side before that.
THEOREM AuctionVolumeExecutedCorrect == Spec => []AuctionVolumeExecuted
<1>1. Inv => AuctionVolumeExecuted
  BY VolumeDone DEF Inv, AuctionVolumeExecuted
<1> QED BY <1>1, InvCorrect, PTL

-----------------------------------------------------------------------------
(* The price of a call auction: the code's ranges against the rules *)

\* A set of numbers has a least one, and a greatest one if it is bounded.
LEMMA LeastExists ==
    ASSUME NEW S \in SUBSET Nat, NEW x \in S
    PROVE  \E m \in S : \A n \in S : m =< n
<1> DEFINE Good == {n \in Nat : (\E y \in S : y =< n) => \E m \in S : \A k \in S : m =< k}
<1>1. 0 \in Good
  <2> SUFFICES ASSUME NEW y \in S, y =< 0 PROVE \E m \in S : \A k \in S : m =< k
    OBVIOUS
  <2>1. \A k \in S : y =< k
    OBVIOUS
  <2> QED BY <2>1
<1>2. ASSUME NEW n \in Nat, n \in Good
      PROVE  n + 1 \in Good
  <2> SUFFICES ASSUME NEW y \in S, y =< n + 1, ~\E z \in S : z =< n
               PROVE  \E m \in S : \A k \in S : m =< k
    BY <1>2
  <2>1. \A k \in S : y =< k
    OBVIOUS
  <2> QED BY <2>1
<1> HIDE DEF Good
<1>3. x \in Good
  BY <1>1, <1>2, Induction
<1> QED BY <1>3 DEF Good

LEMMA GreatestExists ==
    ASSUME NEW S \in SUBSET Nat, NEW x \in S, NEW b \in Nat, \A n \in S : n =< b
    PROVE  \E m \in S : \A n \in S : n =< m
<1> DEFINE Good == {n \in Nat : (\A k \in S : k =< n) => \E m \in S : \A k \in S : k =< m}
<1>1. 0 \in Good
  <2> SUFFICES ASSUME \A k \in S : k =< 0 PROVE \E m \in S : \A k \in S : k =< m
    OBVIOUS
  <2>1. \A k \in S : k =< x
    OBVIOUS
  <2> QED BY <2>1
<1>2. ASSUME NEW n \in Nat, n \in Good
      PROVE  n + 1 \in Good
  <2> SUFFICES ASSUME \A k \in S : k =< n + 1
               PROVE  \E m \in S : \A k \in S : k =< m
    OBVIOUS
  <2>1. CASE n + 1 \in S
    BY <2>1
  <2>2. CASE n + 1 \notin S
    <3>1. \A k \in S : k =< n
      BY <2>2
    <3> QED BY <1>2, <3>1
  <2> QED BY <2>1, <2>2
<1> HIDE DEF Good
<1>3. b \in Good
  BY <1>1, <1>2, Induction
<1> QED BY <1>3 DEF Good

\* More orders have at least as many shares open.
LEMMA SharesGrow ==
    ASSUME Stored, NEW S, NEW T, \A i \in Ids : i \in S => i \in T
    PROVE  Shares(S) =< Shares(T)
<1> DEFINE w == [i \in Ids |-> IF i \in S THEN ord[i].rem ELSE 0]
           v == [i \in Ids |-> IF i \in T THEN ord[i].rem ELSE 0]
<1>1. \A i \in Ids : ord[i].rem \in Nat
  BY DEF Stored, OrderType
<1>2. w \in Weights /\ v \in Weights
  BY <1>1 DEF Weights
<1>3. Shares(S) = SumOver(w) /\ Shares(T) = SumOver(v)
  BY DEF Shares
<1>4. \A i \in Ids : w[i] \in Nat /\ v[i] \in Nat /\ w[i] =< v[i]
  BY <1>1
<1> HIDE DEF w, v
<1>5. PICK f : SumsOf(f, w)
  BY <1>2, SumParts
<1>6. PICK g : SumsOf(g, v)
  BY <1>2, SumParts
<1> DEFINE Good == {n \in Nat : n =< MaxOrders => f[n] =< g[n]}
<1>7. 0 \in Good
  BY <1>5, <1>6 DEF SumsOf
<1>8. ASSUME NEW n \in Nat, n \in Good
      PROVE  n + 1 \in Good
  <2> SUFFICES ASSUME n + 1 =< MaxOrders PROVE f[n + 1] =< g[n + 1]
    OBVIOUS
  <2>1. n + 1 \in Ids /\ n + 1 - 1 = n /\ n \in 0 .. MaxOrders /\ n =< MaxOrders
    BY BookAssumption DEF Ids
  <2>2. f[n] \in Nat /\ g[n] \in Nat /\ f[n + 1] = f[n] + w[n + 1] /\ g[n + 1] = g[n] + v[n + 1]
    BY <1>5, <1>6, <2>1 DEF SumsOf
  <2>3. f[n] =< g[n] /\ w[n + 1] \in Nat /\ v[n + 1] \in Nat /\ w[n + 1] =< v[n + 1]
    BY <1>4, <1>8, <2>1
  <2> QED BY <2>2, <2>3
<1> HIDE DEF Good
<1>9. MaxOrders \in Good
  BY <1>7, <1>8, Induction, BookAssumption
<1> QED BY <1>3, <1>5, <1>6, <1>9, BookAssumption DEF Good, SumsOf

\* Orders that differ in nothing but identifiers that do not exist.
LEMMA SharesSame ==
    ASSUME Stored, NEW S, NEW T, \A i \in Ids : i \in S <=> i \in T
    PROVE  Shares(S) = Shares(T)
<1>1. Shares(S) \in Nat /\ Shares(T) \in Nat
  BY SharesFacts
<1>2. Shares(S) =< Shares(T)
  BY SharesGrow
<1>3. Shares(T) =< Shares(S)
  BY SharesGrow
<1> QED BY <1>1, <1>2, <1>3

\* Between x and y, with no limit price from x on that is below y, the same buyers
\* are willing; with none above x up to y, the same sellers.
LEMMA FlatBetween ==
    ASSUME Stored, Modes, NEW x \in Ticks, NEW y \in Ticks, x =< y
    PROVE  /\ (\A q \in LimitPrices : ~(x =< q /\ q < y)) => Demand[x] = Demand[y]
           /\ (\A q \in LimitPrices : ~(x < q /\ q =< y)) => Supply[x] = Supply[y]
           /\ Demand[y] =< Demand[x] /\ Supply[x] =< Supply[y]
<1>1. \A side \in Sides : \A i \in Limits(side) : ord[i].px \in LimitPrices
  BY DEF Sides, LimitPrices
<1>2. LimitPrices \subseteq Ticks
  BY CandidateTicks
<1>3. x \in Int /\ y \in Int /\ \A q \in LimitPrices : q \in Int
  BY <1>2 DEF Ticks
<1>4. "buy" \in Sides /\ "sell" \in Sides
  BY DEF Sides
<1>5. /\ Demand[x] = Shares(Willing("buy", x)) /\ Demand[y] = Shares(Willing("buy", y))
      /\ Supply[x] = Shares(Willing("sell", x)) /\ Supply[y] = Shares(Willing("sell", y))
  BY TradedFacts
<1>6. ASSUME \A q \in LimitPrices : ~(x =< q /\ q < y)
      PROVE  Demand[x] = Demand[y]
  <2>1. \A i \in Limits("buy") : x =< ord[i].px <=> y =< ord[i].px
    <3> SUFFICES ASSUME NEW i \in Limits("buy") PROVE x =< ord[i].px <=> y =< ord[i].px
      OBVIOUS
    <3>1. PICK q \in LimitPrices : q = ord[i].px
      BY <1>1, <1>4
    <3> QED BY <1>3, <1>6, <3>1
  <2>2. \A i \in Ids : i \in Willing("buy", x) <=> i \in Willing("buy", y)
    BY <2>1 DEF Willing, AtOrBetter, Within
  <2> QED BY <1>5, <2>2, SharesSame
<1>7. ASSUME \A q \in LimitPrices : ~(x < q /\ q =< y)
      PROVE  Supply[x] = Supply[y]
  <2>1. \A i \in Limits("sell") : x >= ord[i].px <=> y >= ord[i].px
    <3> SUFFICES ASSUME NEW i \in Limits("sell") PROVE x >= ord[i].px <=> y >= ord[i].px
      OBVIOUS
    <3>1. PICK q \in LimitPrices : q = ord[i].px
      BY <1>1, <1>4
    <3> QED BY <1>3, <1>7, <3>1
  <2>2. \A i \in Ids : i \in Willing("sell", x) <=> i \in Willing("sell", y)
    BY <2>1 DEF Willing, AtOrBetter, Within
  <2> QED BY <1>5, <2>2, SharesSame
<1>8. Demand[y] =< Demand[x]
  <2>1. \A i \in Limits("buy") : y =< ord[i].px => x =< ord[i].px
    <3> SUFFICES ASSUME NEW i \in Limits("buy") PROVE y =< ord[i].px => x =< ord[i].px
      OBVIOUS
    <3>1. PICK q \in LimitPrices : q = ord[i].px
      BY <1>1, <1>4
    <3> QED BY <1>3, <3>1
  <2>2. \A i \in Ids : i \in Willing("buy", y) => i \in Willing("buy", x)
    BY <2>1 DEF Willing, AtOrBetter, Within
  <2> QED BY <1>5, <2>2, SharesGrow
<1>9. Supply[x] =< Supply[y]
  <2>1. \A i \in Limits("sell") : x >= ord[i].px => y >= ord[i].px
    <3> SUFFICES ASSUME NEW i \in Limits("sell") PROVE x >= ord[i].px => y >= ord[i].px
      OBVIOUS
    <3>1. PICK q \in LimitPrices : q = ord[i].px
      BY <1>1, <1>4
    <3> QED BY <1>3, <3>1
  <2>2. \A i \in Ids : i \in Willing("sell", x) => i \in Willing("sell", y)
    BY <2>1 DEF Willing, AtOrBetter, Within
  <2> QED BY <1>5, <2>2, SharesGrow
<1> QED BY <1>6, <1>7, <1>8, <1>9

AllRanges == Ranges(Demand, Supply, LimitPrices)
Point(p) == [lo |-> p, hi |-> p, dem |-> Demand[p], sup |-> Supply[p]]
Gap(a, b) == [lo |-> a + 1, hi |-> b - 1, dem |-> Demand[b], sup |-> Supply[a]]

\* Two limit prices with ticks between them and no limit price there.
Neighbours(a, b) == /\ a \in LimitPrices /\ b \in LimitPrices /\ b - a > 1
                    /\ ~\E q \in LimitPrices : a < q /\ q < b

\* A range is a limit price or a gap between neighbours.
LEMMA RangeKinds ==
    ASSUME NEW r
    PROVE  r \in AllRanges <=> \/ \E p \in LimitPrices : r = Point(p)
                               \/ \E a, b \in LimitPrices : Neighbours(a, b) /\ r = Gap(a, b)
<1> DEFINE G == {h \in LimitPrices \X LimitPrices :
                    /\ h[2] - h[1] > 1
                    /\ ~\E q \in LimitPrices : h[1] < q /\ q < h[2]}
<1>1. AllRanges = {Point(p) : p \in LimitPrices} \cup {Gap(g[1], g[2]) : g \in G}
  BY Zenon DEF AllRanges, Ranges, Point, Gap
<1>2. \A g \in G : g[1] \in LimitPrices /\ g[2] \in LimitPrices /\ Neighbours(g[1], g[2])
  BY DEF Neighbours
<1>3. \A a, b \in LimitPrices : Neighbours(a, b) => <<a, b>> \in G /\ <<a, b>>[1] = a /\ <<a, b>>[2] = b
  BY DEF Neighbours
<1> HIDE DEF G
<1>4. ASSUME r \in AllRanges
      PROVE  \/ \E p \in LimitPrices : r = Point(p)
             \/ \E a, b \in LimitPrices : Neighbours(a, b) /\ r = Gap(a, b)
  <2>1. CASE r \in {Point(p) : p \in LimitPrices}
    BY <2>1
  <2>2. CASE r \in {Gap(g[1], g[2]) : g \in G}
    <3>1. PICK g \in G : r = Gap(g[1], g[2])
      BY <2>2
    <3> QED BY <1>2, <3>1
  <2> QED BY <1>1, <1>4, <2>1, <2>2
<1>5. ASSUME NEW p \in LimitPrices, r = Point(p)
      PROVE  r \in AllRanges
  BY <1>1, <1>5
<1>6. ASSUME NEW a \in LimitPrices, NEW b \in LimitPrices, Neighbours(a, b), r = Gap(a, b)
      PROVE  r \in AllRanges
  <2>1. PICK g \in G : g[1] = a /\ g[2] = b
    BY <1>3, <1>6
  <2>2. r = Gap(g[1], g[2])
    BY <1>6, <2>1
  <2>3. r \in {Gap(h[1], h[2]) : h \in G}
    BY <2>2
  <2> QED BY <1>1, <2>3
<1> QED BY <1>4, <1>5, <1>6

\* The ticks of a range are candidates and all trade what the range trades.
LEMMA RangeTicks ==
    ASSUME Stored, Modes, NEW r \in AllRanges
    PROVE  /\ r.lo \in Candidates /\ r.hi \in Candidates /\ r.lo =< r.hi
           /\ \A x \in r.lo .. r.hi :
                 x \in Candidates /\ Volume(x) = Vol(r) /\ Imbalance(x) = Off(r)
<1>1. LimitPrices \subseteq Ticks /\ Candidates \subseteq Ticks /\ LimitPrices \subseteq Candidates
  BY CandidateTicks
<1>2. Ticks \subseteq Int /\ \A x \in Int : x \in Ticks <=> 1 =< x /\ x =< MaxTick
  BY BookAssumption DEF Ticks
<1>3. \A x : Volume(x) = Min({Demand[x], Supply[x]}) /\ Imbalance(x) = Distance(Demand[x], Supply[x])
  BY DEF Volume, Traded, Imbalance
<1>4. Vol(r) = Min({r.dem, r.sup}) /\ Off(r) = Distance(r.dem, r.sup)
  BY DEF Vol, Off
<1>5. CASE \E p \in LimitPrices : r = Point(p)
  <2>1. PICK p \in LimitPrices : r = Point(p)
    BY <1>5
  <2>2. r.lo = p /\ r.hi = p /\ r.dem = Demand[p] /\ r.sup = Supply[p]
    BY <2>1 DEF Point
  <2>3. p \in Int /\ p \in Candidates /\ p =< p /\ \A x \in p .. p : x = p
    BY <1>1, <1>2
  <2>4. Volume(p) = Vol(r) /\ Imbalance(p) = Off(r)
    BY <1>3, <1>4, <2>2
  <2> QED BY <2>2, <2>3, <2>4
<1>6. CASE \E a, b \in LimitPrices : Neighbours(a, b) /\ r = Gap(a, b)
  <2>1. PICK a, b \in LimitPrices : Neighbours(a, b) /\ r = Gap(a, b)
    BY <1>6
  <2>2. r.lo = a + 1 /\ r.hi = b - 1 /\ r.dem = Demand[b] /\ r.sup = Supply[a]
    BY <2>1 DEF Gap
  <2>3. /\ a \in Ticks /\ b \in Ticks /\ a \in Int /\ b \in Int /\ b - a > 1
        /\ \A q \in LimitPrices : q \in Int /\ ~(a < q /\ q < b)
    BY <1>1, <1>2, <2>1 DEF Neighbours
  <2>4. ASSUME NEW x \in a + 1 .. b - 1
        PROVE  x \in Candidates /\ Demand[x] = Demand[b] /\ Supply[x] = Supply[a]
    <3>1. x \in Int /\ a < x /\ x < b /\ a =< x /\ x =< b
      BY <2>3
    <3>2. x \in Ticks
      BY <2>3, <3>1, BookAssumption DEF Ticks
    <3>3. x \in Candidates
      BY <2>1, <3>1, <3>2 DEF Candidates
    <3>4. \A q \in LimitPrices : ~(x =< q /\ q < b) /\ ~(a < q /\ q =< x)
      BY <2>3, <3>1
    <3>5. Demand[x] = Demand[b]
      BY <2>3, <3>1, <3>2, <3>4, FlatBetween
    <3>6. Supply[a] = Supply[x]
      BY <2>3, <3>1, <3>2, <3>4, FlatBetween
    <3> QED BY <3>3, <3>5, <3>6
  <2>5. \A x \in r.lo .. r.hi : x \in Candidates /\ Volume(x) = Vol(r) /\ Imbalance(x) = Off(r)
    BY <1>3, <1>4, <2>2, <2>4
  <2>6. a + 1 \in a + 1 .. b - 1 /\ b - 1 \in a + 1 .. b - 1 /\ a + 1 =< b - 1
    BY <2>3
  <2> QED BY <2>2, <2>4, <2>5, <2>6
<1> QED BY <1>5, <1>6, RangeKinds

\* Every candidate lies in a range.
LEMMA TickInRange ==
    ASSUME Stored, Modes, LimitPrices # {}, NEW x \in Candidates
    PROVE  \E r \in AllRanges : x \in r.lo .. r.hi
<1>1. LimitPrices \subseteq Ticks /\ x \in Ticks
  BY CandidateTicks
<1>2. x \in Nat /\ LimitPrices \subseteq Nat
  BY <1>1, BookAssumption DEF Ticks
<1>3. CASE x \in LimitPrices
  <2>1. Point(x) \in AllRanges
    BY <1>3, RangeKinds
  <2>2. Point(x).lo = x /\ Point(x).hi = x
    BY DEF Point
  <2>3. x \in x .. x
    BY <1>2
  <2> QED BY <2>1, <2>2, <2>3
<1>4. CASE x \notin LimitPrices
  <2> DEFINE Lower == {p \in LimitPrices : p =< x}
             Upper == {p \in LimitPrices : x =< p}
  <2>1. PICK l, u \in LimitPrices : l =< x /\ x =< u
    BY DEF Candidates
  <2>2. PICK a \in Lower : \A n \in Lower : n =< a
    <3>1. l \in Lower /\ Lower \in SUBSET Nat /\ \A n \in Lower : n =< x
      BY <1>2, <2>1
    <3> HIDE DEF Lower
    <3> QED BY <1>2, <3>1, GreatestExists
  <2>3. PICK b \in Upper : \A n \in Upper : b =< n
    <3>1. u \in Upper /\ Upper \in SUBSET Nat
      BY <1>2, <2>1
    <3> HIDE DEF Upper
    <3> QED BY <3>1, LeastExists
  <2>4. a \in LimitPrices /\ b \in LimitPrices /\ a \in Nat /\ b \in Nat /\ a < x /\ x < b
    BY <1>2, <1>4, <2>2, <2>3
  <2>5. \A q \in LimitPrices : ~(a < q /\ q < b)
    <3> SUFFICES ASSUME NEW q \in LimitPrices, a < q, q < b PROVE FALSE
      OBVIOUS
    <3>1. q \in Nat /\ (q \in Lower \/ q \in Upper)
      BY <1>2
    <3> QED BY <2>2, <2>3, <2>4, <3>1
  <2>6. Neighbours(a, b)
    <3>1. b - a > 1
      BY <1>2, <2>4
    <3> QED BY <2>4, <2>5, <3>1 DEF Neighbours
  <2>7. Gap(a, b) \in AllRanges
    BY <2>4, <2>6, RangeKinds
  <2>8. Gap(a, b).lo = a + 1 /\ Gap(a, b).hi = b - 1
    BY DEF Gap
  <2>9. x \in a + 1 .. b - 1
    BY <1>2, <2>4
  <2> QED BY <2>7, <2>8, <2>9
<1> QED BY <1>3, <1>4

\* The tick of a range is the one nearest to the centre; of two, the higher.
LEMMA ClosestTick ==
    ASSUME NEW r, NEW c \in Nat, r.lo \in Nat, r.hi \in Nat, r.lo =< r.hi
    PROVE  /\ ClosestIn(r, c) \in r.lo .. r.hi
           /\ \A x \in r.lo .. r.hi : \/ Near(ClosestIn(r, c), c) < Near(x, c)
                                      \/ /\ Near(ClosestIn(r, c), c) = Near(x, c)
                                         /\ ClosestIn(r, c) >= x
BY DEF ClosestIn, Near, Distance

\* Two candidates that are chosen over each other are one.
LEMMA ChosenTwice ==
    ASSUME Stored, Modes, NEW p \in Ticks, NEW c \in Ticks, Chosen(p, c), Chosen(c, p)
    PROVE  p = c
<1>1. /\ Volume(p) \in Int /\ Imbalance(p) \in Int /\ Near(p, Centre) \in Int /\ p \in Int
      /\ Volume(c) \in Int /\ Imbalance(c) \in Int /\ Near(c, Centre) \in Int /\ c \in Int
  BY TickNumbers
<1>2. /\ Ahead(Volume(p), Imbalance(p), Near(p, Centre), p,
               Volume(c), Imbalance(c), Near(c, Centre), c)
      /\ Ahead(Volume(c), Imbalance(c), Near(c, Centre), c,
               Volume(p), Imbalance(p), Near(p, Centre), p)
  BY ChosenIsAhead
<1> QED BY <1>1, <1>2 DEF Ahead

\* The tick the code takes in a range.
TickOf(r) == ClosestIn(r, Centre)

\* It trades what the range does and is chosen over every tick of the range.
LEMMA TickOfRange ==
    ASSUME Stored, Modes, NEW r \in AllRanges
    PROVE  /\ TickOf(r) \in Candidates /\ Volume(TickOf(r)) = Vol(r)
           /\ Imbalance(TickOf(r)) = Off(r)
           /\ \A x \in r.lo .. r.hi : Chosen(TickOf(r), x)
<1>1. /\ r.lo \in Candidates /\ r.hi \in Candidates /\ r.lo =< r.hi
      /\ \A x \in r.lo .. r.hi : x \in Candidates /\ Volume(x) = Vol(r) /\ Imbalance(x) = Off(r)
  BY RangeTicks
<1>2. Candidates \subseteq Ticks /\ Ticks \subseteq Nat /\ Centre \in Nat
  BY CandidateTicks, BookAssumption DEF Ticks, Centre, Modes, Prices
<1>3. r.lo \in Nat /\ r.hi \in Nat
  BY <1>1, <1>2
<1> DEFINE t == ClosestIn(r, Centre)
<1>4. /\ t \in r.lo .. r.hi
      /\ \A x \in r.lo .. r.hi : \/ Near(t, Centre) < Near(x, Centre)
                                 \/ Near(t, Centre) = Near(x, Centre) /\ t >= x
  BY <1>1, <1>2, <1>3, ClosestTick
<1>5. t = TickOf(r)
  BY DEF TickOf
<1> HIDE DEF t
<1>6. ASSUME NEW x \in r.lo .. r.hi
      PROVE  Chosen(t, x)
  <2>1. /\ Volume(t) = Volume(x) /\ Imbalance(t) = Imbalance(x)
        /\ \/ Near(t, Centre) < Near(x, Centre)
           \/ Near(t, Centre) = Near(x, Centre) /\ t >= x
    BY <1>1, <1>4
  <2> QED BY <2>1, ChosenIsAhead DEF Ahead
<1> QED BY <1>1, <1>4, <1>5, <1>6

\* The ranges that trade, and the one the code takes of them.
Trading == {r \in Ranges(Demand, Supply, LimitPrices) : Vol(r) > 0}
Leads(r) ==
    /\ r \in Best(Trading)
    /\ \A s \in Best(Trading) : \/ Near(TickOf(r), Centre) < Near(TickOf(s), Centre)
                                \/ /\ Near(TickOf(r), Centre) = Near(TickOf(s), Centre)
                                   /\ TickOf(r) >= TickOf(s)

LEMMA ByRangesLeads ==
    /\ Trading = {} => ByRanges(Demand, Supply, LimitPrices, Centre) = <<0, 0>>
    /\ (\E r : Leads(r)) =>
          \E r : /\ Leads(r)
                 /\ ByRanges(Demand, Supply, LimitPrices, Centre) = <<TickOf(r), Vol(r)>>
<1> DEFINE first == CHOOSE r \in Best(Trading) : \A s \in Best(Trading) :
                      \/ Near(TickOf(r), Centre) < Near(TickOf(s), Centre)
                      \/ /\ Near(TickOf(r), Centre) = Near(TickOf(s), Centre)
                         /\ TickOf(r) >= TickOf(s)
<1>1. ByRanges(Demand, Supply, LimitPrices, Centre)
        = IF Trading = {} THEN <<0, 0>> ELSE <<TickOf(first), Vol(first)>>
  BY Zenon DEF ByRanges, TickOf, Trading
<1>2. ASSUME \E r : Leads(r)
      PROVE  Leads(first) /\ Trading # {}
  <2>1. Leads(first)
    BY <1>2, Zenon DEF Leads
  <2>2. \E r : r \in Best(Trading)
    BY <1>2 DEF Leads
  <2>3. Trading # {}
    BY <2>2 DEF Best
  <2> QED BY <2>1, <2>3
<1> HIDE DEF first
<1> QED BY <1>1, <1>2

\* What is ahead of every range that trades is what the code picks.
LEMMA RangesPick ==
    ASSUME Stored, Modes, LimitPrices # {}, NEW p \in Candidates, Volume(p) > 0,
           \A c \in Candidates : Chosen(p, c)
    PROVE  ByRanges(Demand, Supply, LimitPrices, Centre) = <<p, Volume(p)>>
<1> DEFINE some == Trading
<1>0. Candidates \subseteq Ticks
  BY CandidateTicks
<1>1. PICK r \in AllRanges : p \in r.lo .. r.hi
  BY TickInRange
<1>2. TickOf(r) = p
  <2>1. TickOf(r) \in Candidates /\ Chosen(TickOf(r), p)
    BY <1>1, TickOfRange
  <2> QED BY <1>0, <2>1, ChosenTwice
<1>3. ASSUME NEW s \in AllRanges
      PROVE  /\ Vol(s) \in Int /\ Off(s) \in Int
             /\ Near(TickOf(s), Centre) \in Int /\ TickOf(s) \in Int
             /\ Ahead(Volume(p), Imbalance(p), Near(p, Centre), p,
                      Vol(s), Off(s), Near(TickOf(s), Centre), TickOf(s))
  <2>1. /\ TickOf(s) \in Candidates /\ Volume(TickOf(s)) = Vol(s)
        /\ Imbalance(TickOf(s)) = Off(s)
    BY TickOfRange
  <2>2. TickOf(s) \in Ticks /\ Chosen(p, TickOf(s))
    BY <1>0, <2>1
  <2> QED BY <2>1, <2>2, TickNumbers, ChosenIsAhead
<1>4. /\ Vol(r) = Volume(p) /\ Off(r) = Imbalance(p) /\ r \in some
      /\ Volume(p) \in Int /\ Imbalance(p) \in Int /\ Near(p, Centre) \in Int /\ p \in Int
  BY <1>0, <1>1, <1>2, TickOfRange, TickNumbers DEF Trading, AllRanges
<1>5. \A s \in some : s \in AllRanges
  BY DEF Trading, AllRanges
<1>6. some = Trading
  OBVIOUS
<1> HIDE DEF some
<1>7. \A s \in some : Vol(s) \in Int /\ Off(s) \in Int /\ Vol(r) >= Vol(s)
                      /\ (Vol(s) = Vol(r) => Off(r) =< Off(s))
  BY <1>3, <1>4, <1>5 DEF Ahead
<1>8. \A s : s \in Best(some) <=>
                /\ s \in some /\ \A t \in some : Vol(s) >= Vol(t)
                /\ \A t \in some : (\A u \in some : Vol(t) >= Vol(u)) => Off(s) =< Off(t)
  BY DEF Best
<1>9. r \in Best(some)
  <2>1. ASSUME NEW t \in some, \A u \in some : Vol(t) >= Vol(u)
        PROVE  Off(r) =< Off(t)
    BY <1>4, <1>7, <2>1
  <2> QED BY <1>4, <1>7, <1>8, <2>1
<1>10. ASSUME NEW s \in Best(some)
       PROVE  Vol(s) = Vol(r) /\ Off(s) = Off(r) /\ s \in some
  <2>1. s \in some /\ Vol(s) >= Vol(r)
    BY <1>4, <1>8
  <2>2. Vol(s) = Vol(r)
    BY <1>4, <1>7, <2>1
  <2>3. Off(s) =< Off(r)
    BY <1>4, <1>7, <1>8
  <2> QED BY <1>4, <1>7, <2>1, <2>2, <2>3
<1>11. ASSUME NEW s \in Best(some)
       PROVE  \/ Near(p, Centre) < Near(TickOf(s), Centre)
              \/ Near(p, Centre) = Near(TickOf(s), Centre) /\ p >= TickOf(s)
  <2>1. /\ Vol(s) = Volume(p) /\ Off(s) = Imbalance(p)
        /\ Ahead(Volume(p), Imbalance(p), Near(p, Centre), p,
                 Vol(s), Off(s), Near(TickOf(s), Centre), TickOf(s))
    BY <1>3, <1>4, <1>5, <1>10
  <2> QED BY <1>4, <2>1 DEF Ahead
<1>12. Leads(r)
  BY <1>2, <1>6, <1>9, <1>11 DEF Leads
<1>13. PICK s : /\ Leads(s)
                /\ ByRanges(Demand, Supply, LimitPrices, Centre) = <<TickOf(s), Vol(s)>>
  BY <1>12, ByRangesLeads
<1>14. /\ s \in Best(some) /\ s \in AllRanges
       /\ \/ Near(TickOf(s), Centre) < Near(p, Centre)
          \/ Near(TickOf(s), Centre) = Near(p, Centre) /\ TickOf(s) >= p
  BY <1>2, <1>5, <1>6, <1>9, <1>10, <1>13 DEF Leads
<1>15. TickOf(s) = p
  BY <1>3, <1>4, <1>11, <1>14
<1>16. Vol(s) = Volume(p)
  BY <1>4, <1>10, <1>14
<1> QED BY <1>13, <1>15, <1>16

\* When no candidate trades, the code picks nothing.
LEMMA RangesPickNone ==
    ASSUME Stored, Modes, \A c \in Candidates : ~(Volume(c) > 0)
    PROVE  ByRanges(Demand, Supply, LimitPrices, Centre) = <<0, 0>>
<1>1. \A r \in AllRanges : ~(Vol(r) > 0)
  <2> SUFFICES ASSUME NEW r \in AllRanges PROVE ~(Vol(r) > 0)
    OBVIOUS
  <2>1. TickOf(r) \in Candidates /\ Volume(TickOf(r)) = Vol(r)
    BY TickOfRange
  <2> QED BY <2>1
<1>2. Trading = {}
  BY <1>1 DEF Trading, AllRanges
<1> QED BY <1>2, ByRangesLeads

\* A tick outside the limits trades no more than the nearest of them.
LEMMA OutsideTradesNoMore ==
    ASSUME Stored, Modes, LimitPrices # {}, NEW x \in Ticks
    PROVE  \E c \in Candidates : Volume(x) =< Volume(c)
<1>1. LimitPrices \subseteq Ticks /\ LimitPrices \subseteq Candidates
  BY CandidateTicks
<1>2. Ticks \subseteq Nat /\ MaxTick \in Nat /\ \A y \in Ticks : y =< MaxTick
  BY BookAssumption DEF Ticks
<1>3. PICK l : l \in LimitPrices
  OBVIOUS
<1>4. \A y \in Ticks : /\ Demand[y] \in Nat /\ Supply[y] \in Nat
                       /\ Volume(y) \in {Demand[y], Supply[y]}
                       /\ Volume(y) =< Demand[y] /\ Volume(y) =< Supply[y]
  BY TradedFacts DEF Volume
<1>5. ASSUME NEW y \in Ticks, Demand[x] =< Demand[y], Supply[x] =< Supply[y]
      PROVE  Volume(x) =< Volume(y)
  BY <1>4, <1>5
<1>6. LimitPrices \in SUBSET Nat /\ \A q \in LimitPrices : q =< MaxTick
  BY <1>1, <1>2
<1>7. CASE \A q \in LimitPrices : x =< q
  <2>1. PICK m \in LimitPrices : \A q \in LimitPrices : m =< q
    BY <1>3, <1>6, LeastExists
  <2>2. m \in Ticks /\ x =< m /\ \A q \in LimitPrices : ~(x =< q /\ q < m)
    BY <1>1, <1>2, <1>7, <2>1
  <2>3. Demand[x] = Demand[m] /\ Supply[x] =< Supply[m]
    BY <2>2, FlatBetween
  <2>4. Volume(x) =< Volume(m)
    BY <1>4, <1>5, <2>2, <2>3
  <2> QED BY <1>1, <2>4
<1>8. CASE \A q \in LimitPrices : q =< x
  <2>1. PICK m \in LimitPrices : \A q \in LimitPrices : q =< m
    BY <1>2, <1>3, <1>6, GreatestExists
  <2>2. m \in Ticks /\ m =< x /\ \A q \in LimitPrices : ~(m < q /\ q =< x)
    BY <1>1, <1>2, <1>8, <2>1
  <2>3. Demand[x] =< Demand[m] /\ Supply[m] = Supply[x]
    BY <2>2, FlatBetween
  <2>4. Volume(x) =< Volume(m)
    BY <1>4, <1>5, <2>2, <2>3
  <2> QED BY <1>1, <2>4
<1>9. CASE \E lo, hi \in LimitPrices : lo =< x /\ x =< hi
  <2>1. x \in Candidates
    BY <1>9 DEF Candidates
  <2>2. Volume(x) =< Volume(x)
    BY <1>4
  <2> QED BY <2>1, <2>2
<1> QED BY <1>2, <1>6, <1>7, <1>8, <1>9

\* What the code's price has to be: the chosen tick and its volume, when one trades.
LEMMA RightWhenPriced ==
    ASSUME Stored, Modes, NEW p \in Candidates, Volume(p) > 0,
           \A c \in Candidates : Chosen(p, c),
           ClearingTicks = <<p, Volume(p)>>,
           \A x \in Ticks : \E c \in Candidates : Volume(x) =< Volume(c)
    PROVE  CallPriceIsRight
<1> DEFINE priced == {c \in Candidates : ClearsAt(c, Traded(Demand, Supply, c))}
<1>1. Candidates \subseteq Ticks /\ \A c \in Ticks : c # 0 /\ Volume(c) \in Int
  BY CandidateTicks, TickNumbers, BookAssumption DEF Ticks
<1>2. \A c : c \in priced <=> /\ c \in Candidates /\ Volume(c) > 0
                              /\ \A d \in Candidates : Chosen(c, d)
  BY DEF ClearsAt, Clears, Chosen, Volume
<1>3. \A c : Volume(c) = Traded(Demand, Supply, c)
  BY DEF Volume
<1>4. CallPriceIsRight <=>
        /\ {<<c, Traded(Demand, Supply, c)>> : c \in priced} = {ClearingTicks} \ {<<0, 0>>}
        /\ \/ \A x \in Ticks : Traded(Demand, Supply, x) =< ClearingTicks[2]
           \/ LimitPrices = {} /\ Centre = 0
  BY DEF CallPriceIsRight
<1> HIDE DEF priced
<1>5. priced = {p}
  <2>1. p \in priced
    BY <1>2
  <2>2. \A c \in priced : c = p
    BY <1>1, <1>2, ChosenTwice
  <2> QED BY <2>1, <2>2
<1>6. {<<c, Traded(Demand, Supply, c)>> : c \in priced} = {<<p, Volume(p)>>}
  BY <1>3, <1>5
<1>7. <<p, Volume(p)>> # <<0, 0>> /\ ClearingTicks[2] = Volume(p)
  BY <1>1
<1>8. ASSUME NEW x \in Ticks
      PROVE  Traded(Demand, Supply, x) =< ClearingTicks[2]
  <2>1. PICK c \in Candidates : Volume(x) =< Volume(c)
    OBVIOUS
  <2>2. Volume(c) =< Volume(p)
    <3>1. Chosen(p, c) /\ Volume(c) \in Int /\ Volume(p) \in Int
      BY <1>1
    <3> QED BY <3>1, ChosenIsAhead DEF Ahead
  <2>3. Volume(x) =< Volume(p)
    BY <1>1, <2>1, <2>2
  <2> QED BY <1>3, <1>7, <2>3
<1> QED BY <1>4, <1>6, <1>7, <1>8

\* What it has to be when no candidate trades.
LEMMA RightWhenNone ==
    ASSUME \A c \in Candidates : ~(Volume(c) > 0), ClearingTicks = <<0, 0>>,
           \/ \A x \in Ticks : Volume(x) =< 0
           \/ LimitPrices = {} /\ Centre = 0
    PROVE  CallPriceIsRight
<1>1. \A c \in Candidates : ~ClearsAt(c, Traded(Demand, Supply, c))
  BY DEF ClearsAt, Volume
<1>2. ClearingTicks[2] = 0 /\ {ClearingTicks} \ {<<0, 0>>} = {}
  OBVIOUS
<1>3. \A x \in Ticks : Volume(x) = Traded(Demand, Supply, x)
  BY DEF Volume
<1> QED BY <1>1, <1>2, <1>3 DEF CallPriceIsRight

\* With limits in the book: by the ranges.
LEMMA RightWithLimits ==
    ASSUME Stored, Modes, LimitPrices # {}
    PROVE  CallPriceIsRight
<1>1. ClearingTicks = ByRanges(Demand, Supply, LimitPrices, Centre)
  BY Zenon DEF ClearingTicks
<1>2. Candidates \subseteq Ticks /\ \A c \in Ticks : Volume(c) \in Int
  BY CandidateTicks, TickNumbers
<1>3. \A x \in Ticks : \E c \in Candidates : Volume(x) =< Volume(c)
  BY OutsideTradesNoMore
<1>4. CASE \E c \in Candidates : Volume(c) > 0
  <2>1. PICK c \in Candidates : Volume(c) > 0
    BY <1>4
  <2>2. PICK p \in Candidates : \A d \in Candidates : Chosen(p, d)
    BY <1>2, ChosenExists
  <2>3. Volume(p) > 0
    <3>1. Chosen(p, c) /\ Volume(c) \in Int /\ Volume(p) \in Int
      BY <1>2, <2>2
    <3> QED BY <2>1, <3>1, ChosenIsAhead DEF Ahead
  <2>4. ClearingTicks = <<p, Volume(p)>>
    BY <1>1, <2>2, <2>3, RangesPick
  <2> QED BY <1>3, <2>2, <2>3, <2>4, RightWhenPriced
<1>5. CASE \A c \in Candidates : ~(Volume(c) > 0)
  <2>1. ClearingTicks = <<0, 0>>
    BY <1>1, <1>5, RangesPickNone
  <2>2. \A x \in Ticks : Volume(x) =< 0
    <3> SUFFICES ASSUME NEW x \in Ticks PROVE Volume(x) =< 0
      OBVIOUS
    <3>1. PICK c \in Candidates : Volume(x) =< Volume(c)
      BY <1>3
    <3> QED BY <1>2, <1>5, <3>1
  <2> QED BY <1>5, <2>1, <2>2, RightWhenNone
<1> QED BY <1>4, <1>5

\* With orders at market only: at the centre, if there is one.
LEMMA RightAtMarket ==
    ASSUME Stored, Modes, LimitPrices = {}
    PROVE  CallPriceIsRight
<1> DEFINE buys == Shares(Market("buy"))
           sells == Shares(Market("sell"))
           least == Min({buys, sells})
<1>1. buys \in Nat /\ sells \in Nat
  BY SharesFacts
<1>2. Limits("buy") = {} /\ Limits("sell") = {}
  BY DEF LimitPrices
<1>3. \A x \in Ticks : Volume(x) = least
  <2> SUFFICES ASSUME NEW x \in Ticks PROVE Volume(x) = least
    OBVIOUS
  <2>1. Willing("buy", x) = Market("buy") /\ Willing("sell", x) = Market("sell")
    BY <1>2 DEF Willing, AtOrBetter
  <2>2. Demand[x] = buys /\ Supply[x] = sells
    BY <2>1, TradedFacts
  <2> QED BY <2>2 DEF Volume, Traded
<1>4. ClearingTicks = IF Centre = 0 \/ least = 0 THEN <<0, 0>> ELSE <<Centre, least>>
  BY DEF ClearingTicks
<1>5. least \in Nat
  BY <1>1, MinTwo
<1>6. Candidates = {Centre} \ {0} /\ Candidates \subseteq Ticks
  BY CandidateTicks DEF Candidates
<1> HIDE DEF buys, sells, least
<1>7. CASE Centre = 0
  BY <1>4, <1>6, <1>7, RightWhenNone
<1>8. CASE Centre # 0 /\ least = 0
  <2>1. ClearingTicks = <<0, 0>>
    BY <1>4, <1>8
  <2>2. \A x \in Ticks : Volume(x) =< 0 /\ ~(Volume(x) > 0)
    BY <1>3, <1>8
  <2> QED BY <1>6, <2>1, <2>2, RightWhenNone
<1>9. CASE Centre # 0 /\ least # 0
  <2>1. Centre \in Candidates /\ Centre \in Ticks /\ \A c \in Candidates : c = Centre
    BY <1>6, <1>9
  <2>2. Volume(Centre) = least /\ Volume(Centre) > 0
    BY <1>3, <1>5, <1>9, <2>1
  <2>3. ClearingTicks = <<Centre, Volume(Centre)>>
    BY <1>4, <1>9, <2>2
  <2>4. \A c \in Candidates : Chosen(Centre, c)
    <3>1. PICK p \in Candidates : \A c \in Candidates : Chosen(p, c)
      BY <1>6, <2>1, ChosenExists
    <3> QED BY <2>1, <3>1
  <2>5. \A x \in Ticks : \E c \in Candidates : Volume(x) =< Volume(c)
    <3> SUFFICES ASSUME NEW x \in Ticks PROVE Volume(x) =< Volume(Centre)
      BY <2>1
    <3> QED BY <1>3, <1>5, <2>2
  <2> QED BY <2>1, <2>2, <2>3, <2>4, <2>5, RightWhenPriced
<1> QED BY <1>7, <1>8, <1>9

\* In every book that orders, cancels, halts and auctions can lead to, the price the
\* code finds from the limit prices and the gaps between them is the one tick the
\* rules single out, and no tick at all would trade more (_auction_clearing_ticks).
THEOREM CallPriceIsRightCorrect == Spec => []CallPriceIsRight
<1>1. TypeOK => CallPriceIsRight
  BY RightWithLimits, RightAtMarket DEF TypeOK
<1> QED BY <1>1, TypeCorrect, PTL

-----------------------------------------------------------------------------
(* The book implements Exchange *)

\* What a trader sees of an order that was kept: nothing of it changed.
SameTo(o, i) == /\ o.agent = ord[i].agent /\ o.side = ord[i].side
                /\ Limit(o) = Limit(ord[i]) /\ o.rem = ord[i].rem

\* A step that moves one order inside the book shows nothing.
LEMMA HiddenStep ==
    ASSUME NEW i \in Live, NEW o, SameTo(o, i), ord \in [Ids -> OrderType],
           at \in [Ids -> Places], last' = last,
           NEW w \in Places \ {"none", "gone"},
           ord' = [ord EXCEPT ![i] = o], at' = [at EXCEPT ![i] = w]
    PROVE  UNCHANGED X!evars
<1>1. \A k \in Ids : /\ ord'[k] = IF k = i THEN o ELSE ord[k]
                     /\ at'[k] = "none" <=> at[k] = "none"
                     /\ at'[k] = "gone" <=> at[k] = "gone"
  BY DEF Live
<1>2. terms' = terms /\ open' = open  BY <1>1 DEF terms, open, SameTo, Live
<1>3. live' = live  BY <1>1 DEF live, Live, SameTo
<1>4. left' = left  BY <1>1, <1>3 DEF left
<1> QED  BY <1>2, <1>3, <1>4 DEF X!evars

\* Resting or activating an order shows nothing.
LEMMA RestHidden ==
    ASSUME Stored, NEW i \in Live, NEW o \in OrderType, SameTo(o, i), last' = last,
           Rest(i, o) \/ Activate(i, o)
    PROVE  UNCHANGED X!evars
<1>0. ord \in [Ids -> OrderType] /\ at \in [Ids -> Places]  BY DEF Stored
<1>1. CASE Rest(i, o)
  <2> DEFINE r == [o EXCEPT !.prio = nextPrio]
  <2>1. SameTo(r, i)  BY DEF SameTo, Limit, OrderType
  <2>2. ord' = [ord EXCEPT ![i] = r] /\ at' = [at EXCEPT ![i] = "book"]
    BY <1>1 DEF Rest
  <2>3. "book" \in Places \ {"none", "gone"}  BY DEF Places
  <2> HIDE DEF r
  <2> QED  BY <1>0, <2>1, <2>2, <2>3, HiddenStep
<1>2. CASE Activate(i, o)
  <2> DEFINE r == IF Untriggered(o) THEN Triggered(o) ELSE o
  <2>1. SameTo(r, i)  BY DEF SameTo, Limit, OrderType, Triggered, Untriggered
  <2>2. ord' = [ord EXCEPT ![i] = r] /\ at' = [at EXCEPT ![i] = "active"]
    BY <1>2 DEF Activate
  <2>3. "active" \in Places \ {"none", "gone"}  BY DEF Places
  <2> HIDE DEF r
  <2> QED  BY <1>0, <2>1, <2>2, <2>3, HiddenStep
<1> QED  BY <1>1, <1>2

\* A step that leaves the orders, their places and the print alone.
LEMMA NothingShown == ASSUME UNCHANGED <<ord, at, last>>
                      PROVE  UNCHANGED X!evars
BY DEF X!evars, live, left, terms, open, Live

\* A replaced order is amended: its agent and side stay.
LEMMA ReplaceAmends ==
    ASSUME Stored, NEW i \in live, NEW o, NEW w \in Places \ {"none", "gone"},
           o.agent = ord[i].agent, o.side = ord[i].side, o.rem > 0,
           ord' = [ord EXCEPT ![i] = o], at' = [at EXCEPT ![i] = w], last' = last
    PROVE  X!Amend
<1>0. i \in Ids /\ at[i] \notin {"none", "gone"}  BY DEF live, Live
<1>1. \A k \in Ids : /\ ord'[k] = IF k = i THEN o ELSE ord[k]
                     /\ at'[k] = "none" <=> at[k] = "none"
                     /\ at'[k] = "gone" <=> at[k] = "gone"
  BY <1>0 DEF Stored
<1>2. live' = live  BY <1>1 DEF live, Live
<1>3. left' = left  BY <1>1, <1>2 DEF left
<1>4. X!Keep(Ids \ {i})  BY <1>1 DEF X!Keep, terms, open, live, Live
<1>5. /\ terms'[i].agent = terms[i].agent /\ terms'[i].side = terms[i].side
      /\ open'[i] > 0
  BY <1>0, <1>1 DEF terms, open
<1> QED  BY <1>2, <1>3, <1>4, <1>5 DEF X!Amend

\* An accepted order enters under an identifier nobody used.
LEMMA AcceptEnters == ASSUME Stored, Fresh, NEW t \in Tickets, Accept(t)
                      PROVE  X!Enter
<1> DEFINE o == NewOrder(t)
<1>1. nextId \in Ids /\ at[nextId] = "none"  BY DEF Accept, Fresh, Stored
<1>2. o.rem \in Nat \ {0}
  BY BookAssumption DEF NewOrder, TicketType, Qtys
<1>3. ord' = [ord EXCEPT ![nextId] = o] /\ at' = [at EXCEPT ![nextId] = "batch"]
      /\ last' = last
  BY DEF Accept
<1> HIDE DEF o
<1>4. \A k \in Ids : /\ ord'[k] = IF k = nextId THEN o ELSE ord[k]
                     /\ at'[k] = IF k = nextId THEN "batch" ELSE at[k]
  BY <1>1, <1>3 DEF Stored
<1>5. live' = live \cup {nextId}  BY <1>1, <1>2, <1>4 DEF live, Live
<1>6. left' = left  BY <1>1, <1>4, <1>5 DEF left
<1>7. nextId \in Ids \ (live \cup left)  BY <1>1 DEF live, left, Live
<1>8. open'[nextId] > 0  BY <1>1, <1>2, <1>4 DEF open
<1>9. X!Keep(Ids)
  <2>1. \A k \in Ids \cap live : k # nextId  BY <1>7
  <2> QED  BY <1>4, <2>1 DEF X!Keep, terms, open
<1> QED  BY <1>3, <1>5, <1>6, <1>7, <1>8, <1>9 DEF X!Enter

\* Retired orders leave.
LEMMA RetireLeaves == ASSUME Stored, NEW S \in SUBSET Live, Retire(S)
                      PROVE  X!Leave
<1>1. \A k \in Ids : /\ ord'[k] = IF k \in S THEN NoOrder ELSE ord[k]
                     /\ at'[k] = IF k \in S THEN "gone" ELSE at[k]
  BY DEF Retire
<1>2. live' = live \ S  BY <1>1 DEF live, Live, NoOrder
<1>3. left' = left \cup (live \ live')  BY <1>1, <1>2 DEF left, live, Live
<1>4. X!Keep(live')  BY <1>1, <1>2 DEF X!Keep, terms, open, live, Live
<1> QED  BY <1>2, <1>3, <1>4 DEF X!Leave

\* A fill between a buy and a sell of two agents, at a price both allow, is a
\* trade.
LEMMA ExecuteTrades ==
    ASSUME Stored, NEW b \in live, NEW s \in live, NEW q \in Nat, NEW p,
           NEW x, NEW y, {x, y} = {b, s}, NEW full \in SUBSET {b, s},
           Execute(x, y, q, p, full),
           ord[b].side = "buy", ord[s].side = "sell", ord[b].agent # ord[s].agent,
           0 < q, q =< ord[b].rem, q =< ord[s].rem,
           Limit(ord[b]) = 0 \/ p =< Limit(ord[b]),
           Limit(ord[s]) = 0 \/ p >= Limit(ord[s])
    PROVE  X!Trade
<1> DEFINE gone == {i \in {b, s} : open'[i] = 0}
<1>1. /\ b \in Ids /\ s \in Ids /\ b # s
      /\ at[b] \notin {"none", "gone"} /\ at[s] \notin {"none", "gone"}
  BY DEF live, Live
<1>2. \A k \in Ids : ord[k] \in OrderType  BY DEF Stored
<1>3. ASSUME NEW k \in {b, s}
      PROVE  /\ ord'[k].rem = ord[k].rem - q
             /\ ord[k].rem # q => /\ ord'[k] = Less(ord[k], q) /\ at'[k] = at[k]
             /\ at'[k] # "none"
  <2>1. k \in Ids /\ k \in {x, y} /\ ord[k].rem \in Nat /\ at[k] # "none"
    BY <1>1, <1>2 DEF OrderType
  <2>2. CASE k \in full /\ ord[k].rem = q
    BY <2>1, <2>2 DEF Execute, NoOrder
  <2>3. CASE ~(k \in full /\ ord[k].rem = q)
    <3>1. ord'[k] = Less(ord[k], q) /\ at'[k] = at[k]  BY <2>1, <2>3 DEF Execute
    <3>2. ord'[k].rem = ord[k].rem - q  BY <1>2, <2>1, <3>1 DEF Less, OrderType
    <3> QED  BY <2>1, <3>1, <3>2
  <2> QED  BY <2>2, <2>3
<1>4. ASSUME NEW k \in Ids \ {b, s}
      PROVE  /\ ord'[k].rem = ord[k].rem /\ ord'[k].agent = ord[k].agent
             /\ ord'[k].side = ord[k].side /\ Limit(ord'[k]) = Limit(ord[k])
             /\ at'[k] = "none" <=> at[k] = "none"
             /\ at'[k] = "gone" <=> at[k] = "gone"
  <2>1. k \notin full /\ k \notin {x, y}  OBVIOUS
  <2>2. \/ ord'[k] = ord[k] /\ at'[k] = at[k]
        \/ ord'[k] = Triggered(ord[k]) /\ Untriggered(ord[k])
             /\ at'[k] = "triggered" /\ at[k] = "book"
    BY <2>1 DEF Execute
  <2> QED  BY <1>2, <2>2 DEF Triggered, Untriggered, Limit, OrderType
<1>5. /\ ord[b].rem \in Nat /\ ord[s].rem \in Nat
      /\ open[b] = ord[b].rem /\ open[s] = ord[s].rem
      /\ open'[b] = ord[b].rem - q /\ open'[s] = ord[s].rem - q
  BY <1>1, <1>2, <1>3 DEF open, OrderType
<1>6. gone = {i \in {b, s} : ord[i].rem = q}  BY <1>5
<1>7. \A k \in {b, s} \ gone : terms'[k] = terms[k]
  <2> SUFFICES ASSUME NEW k \in {b, s}, ord[k].rem # q
               PROVE  terms'[k] = terms[k]
    BY <1>6
  <2>1. ord'[k] = Less(ord[k], q)  BY <1>3
  <2> QED  BY <1>1, <1>2, <2>1 DEF terms, Less, OrderType, Limit
<1>8. live' = live \ gone
  <2>1. \A k \in Ids \ {b, s} : k \in live' <=> k \in live  BY <1>4 DEF live, Live
  <2>2. \A k \in {b, s} : k \in live' <=> k \notin gone
    BY <1>1, <1>3, <1>5, <1>6 DEF live, Live
  <2>3. live \subseteq Ids /\ live' \subseteq Ids  BY DEF live, Live
  <2> HIDE DEF gone
  <2> QED  BY <1>6, <2>1, <2>2, <2>3
<1>9. left' = left \cup gone
  <2>1. \A k \in Ids : at'[k] # "none" <=> at[k] # "none"  BY <1>1, <1>3, <1>4
  <2>2. gone \subseteq live /\ \A k \in live : k \in Ids /\ at[k] # "none"
    BY <1>6 DEF live, Live
  <2> HIDE DEF gone
  <2> QED  BY <1>8, <2>1, <2>2 DEF left
<1>10. X!Keep(live' \ {b, s})
  <2>1. \A k \in Ids \ {b, s} : terms'[k] = terms[k] /\ open'[k] = open[k]
    BY <1>4 DEF terms, open
  <2>2. live \subseteq Ids  BY DEF live, Live
  <2> QED  BY <2>1, <2>2 DEF X!Keep
<1>11. /\ terms[b].side = "buy" /\ terms[s].side = "sell"
       /\ terms[b].agent # terms[s].agent
       /\ X!Allows(terms[b], last') /\ X!Allows(terms[s], last')
  BY <1>1 DEF terms, X!Allows, Execute
<1>12. open'[b] < open[b] /\ open'[s] + (open[b] - open'[b]) = open[s]
  BY <1>5
<1> QED
  BY <1>7, <1>8, <1>9, <1>10, <1>11, <1>12 DEF X!Trade

\* Every step of the book is a step of Exchange, or shows nothing.
LEMMA RefinementStep == ASSUME Inv, [Next]_vars
                        PROVE  X!Next \/ UNCHANGED X!evars
<1>0. /\ Stored /\ Modes /\ ord \in [Ids -> OrderType] /\ at \in [Ids -> Places]
      /\ Fresh /\ Control /\ Data
      /\ \A i \in Live : i \in Ids /\ ord[i] \in OrderType
      /\ \A i \in Live : at[i] # "active" => i \in live
  BY DEF Inv, TypeOK, Stored, Control, Data, HasOpen, Live, live, OrderType
<1>a. \A side \in Sides : /\ Market(side) \subseteq Live /\ Limits(side) \subseteq Live
                          /\ Market(side) \cup Limits(side) \subseteq In("book")
  BY DEF Market, Limits, In, Live
<1>b. \A i \in Live : SameTo(ord[i], i)  BY DEF SameTo
<1>1. ASSUME NEW t \in Tickets, Accept(t)
      PROVE  X!Next
  BY <1>0, <1>1, AcceptEnters DEF X!Next
<1>2. ASSUME NEW S \in SUBSET Live, Retire(S)
      PROVE  X!Next
  BY <1>0, <1>2, RetireLeaves DEF X!Next
<1>3. ASSUME NEW i \in Live, Rest(i, ord[i]) \/ Activate(i, ord[i]), last' = last
      PROVE  UNCHANGED X!evars
  BY <1>0, <1>b, <1>3, RestHidden
<1>4. ASSUME Idle, NEW i \in Live
      PROVE  i \in live
  BY <1>0, <1>4 DEF Idle, Control, QuietOutside, In, Live
<1>5. ASSUME NEW i \in Ids, NEW q \in Qtys, SizeDown(i, q)
      PROVE  X!Next
  <2> DEFINE o == [ord[i] EXCEPT !.rem = q]
  <2>0. i \in Live /\ Idle  BY <1>5 DEF SizeDown
  <2>1. o.agent = ord[i].agent /\ o.side = ord[i].side /\ o.rem > 0
    BY <1>0, <2>0 DEF OrderType, Qtys
  <2>2. ord' = [ord EXCEPT ![i] = o] /\ last' = last
    BY <1>5 DEF SizeDown, Unmoved
  <2>3. at' = [at EXCEPT ![i] = at[i]]  BY <1>0, <1>5 DEF SizeDown
  <2>4. at[i] \in Places \ {"none", "gone"}  BY <1>0, <2>0 DEF Live
  <2>5. i \in live  BY <1>4, <2>0
  <2> HIDE DEF o
  <2> QED  BY <1>0, <2>1, <2>2, <2>3, <2>4, <2>5, ReplaceAmends DEF X!Next
<1>6. ASSUME NEW i \in Ids, NEW q \in Qtys, SizeUp(i, q)
      PROVE  X!Next
  <2> DEFINE o == [[ord[i] EXCEPT !.rem = q] EXCEPT !.prio = nextPrio]
  <2>0. i \in Live /\ Idle  BY <1>6 DEF SizeUp
  <2>1. o.agent = ord[i].agent /\ o.side = ord[i].side /\ o.rem > 0
    BY <1>0, <2>0 DEF OrderType, Qtys
  <2>2. /\ ord' = [ord EXCEPT ![i] = o] /\ at' = [at EXCEPT ![i] = "book"]
        /\ last' = last
    BY <1>6 DEF SizeUp, Rest, Unmoved
  <2>3. "book" \in Places \ {"none", "gone"}  BY DEF Places
  <2>4. i \in live  BY <1>4, <2>0
  <2> HIDE DEF o
  <2> QED  BY <1>0, <2>1, <2>2, <2>3, <2>4, ReplaceAmends DEF X!Next
<1>7. ASSUME NEW i \in Ids, NEW q \in Qtys, NEW p \in Ticks, Reprice(i, q, p)
      PROVE  X!Next
  <2> DEFINE o == [ord[i] EXCEPT !.px = p, !.rem = q]
             r == [o EXCEPT !.prio = nextPrio]
             u == IF Untriggered(o) THEN Triggered(o) ELSE o
  <2>0. i \in Live /\ Idle /\ last' = last  BY <1>7 DEF Reprice, Unmoved
  <2>1. /\ r.agent = ord[i].agent /\ r.side = ord[i].side /\ r.rem > 0
        /\ u.agent = ord[i].agent /\ u.side = ord[i].side /\ u.rem > 0
    BY <1>0, <2>0 DEF OrderType, Qtys, Triggered
  <2>2. \/ ord' = [ord EXCEPT ![i] = r] /\ at' = [at EXCEPT ![i] = "book"]
        \/ ord' = [ord EXCEPT ![i] = u] /\ at' = [at EXCEPT ![i] = "active"]
    BY <1>7 DEF Reprice, Rest, Activate
  <2>3. /\ "book" \in Places \ {"none", "gone"}
        /\ "active" \in Places \ {"none", "gone"}
    BY DEF Places
  <2>4. i \in live  BY <1>4, <2>0
  <2> HIDE DEF r, u
  <2> QED  BY <1>0, <2>0, <2>1, <2>2, <2>3, <2>4, ReplaceAmends DEF X!Next
<1>8. ASSUME BeginUncross, last' = last
      PROVE  X!Next \/ UNCHANGED X!evars
  <2>1. CASE BeginPriced  BY <1>8, <2>1, NothingShown DEF BeginPriced
  <2>2. CASE BeginEmpty
    <3>1. Leftovers(TRUE) \in SUBSET Live  BY <1>a DEF Leftovers, Sides
    <3> QED  BY <1>2, <2>2, <3>1 DEF BeginEmpty
  <2> QED  BY <1>8, <2>1, <2>2 DEF BeginUncross
<1>9. CASE Uncross  BY <1>8, <1>9 DEF Uncross
<1>10. CASE EndTick
  <2>1. CASE status = "AUCTION"  BY <1>8, <1>10, <2>1 DEF EndTick
  <2>2. CASE status # "AUCTION"  BY <1>10, <2>2, NothingShown DEF EndTick
  <2> QED  BY <2>1, <2>2
<1>11. CASE IngestSort \/ Return \/ StartAuction \/ UNCHANGED vars
  BY <1>11, NothingShown DEF IngestSort, Return, StartAuction, vars
<1>12. ASSUME NEW p \in Ticks, SetReference(p)
       PROVE  UNCHANGED X!evars
  BY <1>12, NothingShown DEF SetReference
<1>13. CASE Process
  <2>1. PICK i \in In("batch") : Rest(i, ord[i]) \/ Activate(i, ord[i])
    BY <1>13 DEF Process
  <2>2. i \in Live /\ last' = last  BY <1>13 DEF Process, In, Live
  <2> QED  BY <1>3, <2>1, <2>2
<1>14. CASE FlushStop
  <2>1. PICK i \in In("triggered") : at' = [at EXCEPT ![i] = "active"]
    BY <1>14 DEF FlushStop
  <2>2. i \in Live /\ last' = last /\ ord' = ord  BY <1>14 DEF FlushStop, In, Live
  <2>3. ord' = [ord EXCEPT ![i] = ord[i]]  BY <1>0, <2>2
  <2>4. "active" \in Places \ {"none", "gone"}  BY DEF Places
  <2>5. SameTo(ord[i], i)  BY <1>b, <2>2
  <2> QED  BY <1>0, <2>1, <2>2, <2>3, <2>4, <2>5, HiddenStep
<1>15. CASE Expire
  BY <1>2, <1>15 DEF Expire
<1>16. CASE AuctionFill
  <2>1. PICK b \in Ids, s \in Ids :
           /\ Pair(b, s) /\ ord[b].agent # ord[s].agent
           /\ Execute(b, s, Min({auc.left, ord[b].rem, ord[s].rem}), auc.px, {b, s})
    BY <1>16 DEF AuctionFill
  <2> DEFINE q == Min({auc.left, ord[b].rem, ord[s].rem})
  <2>2. b \in Eligible("buy") /\ s \in Eligible("sell")  BY <2>1 DEF Pair, IsFirst
  <2>3. /\ b \in Market("buy") \cup Limits("buy") /\ s \in Market("sell") \cup Limits("sell")
        /\ b \in Market("buy") \cup AtOrBetter("buy", auc.px)
        /\ s \in Market("sell") \cup AtOrBetter("sell", auc.px)
        /\ ord[b].rem > 0 /\ ord[s].rem > 0
    BY <2>2 DEF Eligible, Willing, AtOrBetter
  <2>4. b \in Live /\ s \in Live /\ ord[b].side = "buy" /\ ord[s].side = "sell"
    BY <2>3, <1>a DEF Sides, Market, Limits
  <2>5. b \in live /\ s \in live  BY <2>3, <2>4 DEF live
  <2>6. auc.left \in Nat \ {0} /\ ord[b].rem \in Nat \ {0} /\ ord[s].rem \in Nat \ {0}
    BY <2>1, <2>3, <2>4, <1>0 DEF Modes, OrderType, Pair
  <2>7. q \in Nat /\ 0 < q /\ q =< ord[b].rem /\ q =< ord[s].rem  BY <2>6, MinThree
  <2>8. Limit(ord[b]) = 0 \/ auc.px =< Limit(ord[b])
    BY <2>3 DEF Market, AtMarket, AtOrBetter, Within, Limit
  <2>9. Limit(ord[s]) = 0 \/ auc.px >= Limit(ord[s])
    BY <2>3 DEF Market, AtMarket, AtOrBetter, Within, Limit
  <2>10. Execute(b, s, q, auc.px, {b, s})  BY <2>1
  <2> HIDE DEF q
  <2> QED  BY <1>0, <2>1, <2>4, <2>5, <2>7, <2>8, <2>9, <2>10, ExecuteTrades DEF X!Next
<1>17. CASE AuctionSelfCut
  <2>1. PICK b \in Ids, s \in Ids : Pair(b, s) /\ (Retire({b}) \/ Retire({s}))
    BY <1>17 DEF AuctionSelfCut
  <2>2. b \in Eligible("buy") /\ s \in Eligible("sell")  BY <2>1 DEF Pair, IsFirst
  <2>3. b \in Live /\ s \in Live  BY <2>2, <1>a DEF Eligible, Willing, AtOrBetter, Sides
  <2> QED  BY <1>2, <2>1, <2>3
<1>18. CASE AuctionDone
  <2>1. Leftovers(FALSE) \in SUBSET Live  BY <1>a DEF Leftovers, Sides
  <2> QED  BY <1>2, <1>18, <2>1 DEF AuctionDone
<1>19. ASSUME NEW i \in Ids, RestInAuction(i) \/ SelfTradeCancel(i) \/ Halt(i) \/ Finish(i)
       PROVE  X!Next \/ UNCHANGED X!evars
  <2>1. i \in Live /\ last' = last
    BY <1>19 DEF RestInAuction, SelfTradeCancel, Halt, Finish, Matching, Live
  <2>2. Rest(i, ord[i]) \/ Retire({i})
    BY <1>19 DEF RestInAuction, SelfTradeCancel, Halt, Finish
  <2> QED  BY <1>2, <1>3, <2>1, <2>2
<1>20. ASSUME NEW i \in Ids, Fill(i)
       PROVE  X!Next
  <2>1. PICK j \in Ids :
           /\ Facing(i, j) /\ ord[j].agent # ord[i].agent
           /\ Execute(i, j, Min({ord[i].rem, ord[j].rem}), ord[j].px, {j})
    BY <1>20 DEF Fill
  <2> DEFINE q == Min({ord[i].rem, ord[j].rem})
  <2>2. i \in Live /\ at[i] = "active"  BY <1>20 DEF Fill, Matching, Live
  <2>3. /\ j \in Limits(Opposite(ord[i].side)) /\ ord[i].rem > 0
        /\ \/ ord[i].type = "market" \/ ord[i].px = 0
           \/ Within(ord[i].side, ord[i].px, ord[j].px)
    BY <2>1 DEF Facing, IsFirst, Crossing
  <2>4. ord[i].side \in Sides  BY <1>0, <2>2 DEF Data, Shaped, WellShaped
  <2>5. Opposite(ord[i].side) \in Sides  BY DEF Opposite, Sides
  <2>6. j \in Live /\ j \in live /\ ord[j].side = Opposite(ord[i].side)
    <3>1. at[j] = "book" /\ j \in Live  BY <2>3, <2>5, <1>a DEF Limits, In
    <3> QED  BY <1>0, <2>3, <3>1 DEF Limits
  <2>7. i \in live  BY <2>2, <2>3 DEF live
  <2>8. ord[i].rem \in Nat \ {0} /\ ord[j].rem \in Nat \ {0}
    BY <1>0, <2>2, <2>3, <2>6 DEF OrderType, live
  <2>9. q \in Nat /\ 0 < q /\ q =< ord[i].rem /\ q =< ord[j].rem  BY <2>8, MinTwo
  <2>10. Execute(i, j, q, ord[j].px, {j})  BY <2>1
  <2>11. /\ Limit(ord[j]) = ord[j].px
         /\ Limit(ord[i]) = 0 \/ Within(ord[i].side, Limit(ord[i]), ord[j].px)
    BY <2>3 DEF Limits, AtMarket, Limit
  <2>12. ord[j].px \in Int  BY <1>0, <2>6 DEF OrderType, Prices
  <2> HIDE DEF q
  <2>13. CASE ord[i].side = "buy"
    <3>1. ord[j].side = "sell" /\ (Limit(ord[i]) = 0 \/ ord[j].px =< Limit(ord[i]))
      BY <2>6, <2>11, <2>13 DEF Opposite, Within
    <3>2. Limit(ord[j]) = 0 \/ ord[j].px >= Limit(ord[j])  BY <2>11, <2>12
    <3> QED  BY <1>0, <2>1, <2>6, <2>7, <2>9, <2>10, <2>13, <3>1, <3>2,
                ExecuteTrades DEF X!Next
  <2>14. CASE ord[i].side = "sell"
    <3>1. ord[j].side = "buy" /\ (Limit(ord[i]) = 0 \/ ord[j].px >= Limit(ord[i]))
      BY <2>6, <2>11, <2>14 DEF Opposite, Within
    <3>2. Limit(ord[j]) = 0 \/ ord[j].px =< Limit(ord[j])  BY <2>11, <2>12
    <3> QED  BY <1>0, <2>1, <2>6, <2>7, <2>9, <2>10, <2>14, <3>1, <3>2,
                ExecuteTrades DEF X!Next
  <2> QED  BY <2>4, <2>13, <2>14 DEF Sides
<1>21. ASSUME NEW i \in Ids, Cancel(i)
       PROVE  X!Next
  BY <1>2, <1>21 DEF Cancel
<1> QED
  BY <1>1, <1>5, <1>6, <1>7, <1>9, <1>10, <1>11, <1>12, <1>13, <1>14, <1>15, <1>16,
     <1>17, <1>18, <1>19, <1>20, <1>21
     DEF Next, Call, MatchStep, Replace, Submit, IngestAccept

\* The order book implements Exchange: no agent trades with itself, no fill
\* exceeds what either order has open or falls outside its limit, and no order
\* comes back after it left the book.
THEOREM RefinesExchangeCorrect == Spec => RefinesExchange
<1>1. Init => X!Init
  <2> SUFFICES ASSUME Init PROVE X!Init  OBVIOUS
  <2>1. \A i \in Ids : at[i] = "none"  BY DEF Init
  <2> QED  BY <2>1 DEF Init, X!Init, live, left, Live
<1>2. Inv /\ [Next]_vars => [X!Next]_X!evars  BY RefinementStep
<1> QED  BY <1>1, <1>2, InvCorrect, PTL DEF Spec, X!Spec, RefinesExchange
=============================================================================
