--------------------------- MODULE AccountsProofs --------------------------
(***************************************************************************)
(* What Gateway promises about orders and their answers, for any agents,   *)
(* keys, threads and limits.  An order's number passes from a thread that  *)
(* has taken it (Numbered) to the store and, for one with a key, to the    *)
(* answer (Answering); a cancelling thread holds a copy of an order that   *)
(* cannot have changed hands (Cancelling).  Those are enough for the       *)
(* answers and the numbers.  That a key is one order needs patient         *)
(* clients: then no two threads post under one key (Apart), none posts     *)
(* under a key that has its answer (Fresh), and every stored key has its   *)
(* answer or a thread about to give it (Known).  The limit of open orders  *)
(* is kept because open_orders counts at least what rests and what is on   *)
(* its way (Counted), and because an agent that joins for the first time   *)
(* has neither (Seen).  What a tick takes in is bounded because a thread   *)
(* that empties the inbox sets the agent's counts back once after that: an *)
(* order in the inbox, or about to be there, is of a limit some thread has *)
(* yet to give (Holding), of the one given last (Share), or was in a       *)
(* thread when the inbox was emptied (Tally).  All of it is for an         *)
(* operator who ResetsAlone.                                               *)
(*                                                                         *)
(* After that, the scanner of the tape (module Surveillance): what it has  *)
(* forgotten no window would see (ScanInv).                                *)
(***************************************************************************)
EXTENDS Gateway, Surveillance, FiniteSetTheorems, WellFoundedInduction, TLAPS

AnyKey == Keys \cup {NoKey}
Posts == [at : {"count", "submit", "number", "store", "answer"},
          agent : Agents, key : AnyKey, id : Nat]
Cancels == [at : {"cancel"}, id : Nat, order : Order]
Others == [at : {"idle", "ingested"}] \cup [at : {"decision"}, agent : Agents]
              \cup [at : {"counters"}, todo : SUBSET Agents]
Requests == Posts \cup Cancels \cup Others

Typed ==
    /\ req \in [Threads -> Requests]
    /\ resets \in Nat /\ nextId \in Nat /\ members \subseteq Agents
    /\ orders \in [DOMAIN orders -> Order]
    /\ \A id \in DOMAIN orders : id \in Nat /\ id < nextId
    /\ idem \in [DOMAIN idem -> Nat] /\ DOMAIN idem \subseteq Agents \X AnyKey

Numbered ==
    \A t \in Threads : req[t].at = "store" =>
        /\ req[t].id < nextId /\ req[t].id \notin DOMAIN orders
        /\ \A u \in Threads : u # t /\ req[u].at = "store" => req[u].id # req[t].id

Answering ==
    \A t \in Threads : req[t].at = "answer" =>
        /\ req[t].id \in DOMAIN orders
        /\ orders[req[t].id].agent = req[t].agent /\ orders[req[t].id].key = req[t].key

Cancelling ==
    \A t \in Threads : req[t].at = "cancel" =>
        /\ req[t].id \in DOMAIN orders
        /\ req[t].order.agent = orders[req[t].id].agent
        /\ req[t].order.key = orders[req[t].id].key

Base == Typed /\ Numbered /\ Answering /\ Cancelling /\ AnswerIsOwnOrder

Apart ==
    \A t, u \in Threads :
        t # u /\ Posting(t) /\ Posting(u) /\ req[t].key # NoKey =>
            ~(req[t].key = req[u].key /\ req[t].agent = req[u].agent)
Fresh ==
    \A t \in Threads : Posting(t) /\ req[t].key # NoKey =>
        <<req[t].agent, req[t].key>> \notin DOMAIN idem
Known ==
    \A id \in DOMAIN orders : orders[id].key # NoKey =>
        \/ <<orders[id].agent, orders[id].key>> \in DOMAIN idem
        \/ \E t \in Threads : req[t].at = "answer" /\ req[t].id = id

KeyInv == Apart /\ Fresh /\ Known /\ OneOrderPerKey

OnTheWay == {"submit", "number", "store"}
Flight(a) == {t \in Threads : req[t].at \in OnTheWay /\ req[t].agent = a}
Counts == [order : Nat, decision : Nat, open : Nat]
Seen == /\ \A t \in Threads : Posting(t) => req[t].agent \in members \cup gone
        /\ \A id \in DOMAIN orders : orders[id].agent \in members \cup gone
Counted ==
    /\ count \in [Agents -> Counts] /\ IsFiniteSet(DOMAIN orders)
    /\ \A a \in members : /\ Cardinality(Resting(a)) + Cardinality(Flight(a)) =< count[a].open
                          /\ count[a].open =< MaxOpen
LimitInv == Seen /\ Counted

-----------------------------------------------------------------------------
(* What a thread's request looks like *)

LEMMA Shapes ==
    ASSUME NEW r \in Requests
    PROVE  /\ r.at \in {"count", "submit", "number", "store", "answer"} =>
                  r \in Posts /\ r.agent \in Agents /\ r.key \in AnyKey /\ r.id \in Nat
           /\ r.at = "cancel" => r \in Cancels /\ r.id \in Nat /\ r.order \in Order
           /\ r.at = "counters" => r.todo \subseteq Agents
  BY DEF Requests, Posts, Cancels, Others

\* A thread that goes on posts the same order.
LEMMA Going ==
    ASSUME NEW t \in Threads, Typed, Posting(t),
           NEW where \in {"count", "submit", "number", "store", "answer"}, Goes(t, where)
    PROVE  /\ req' \in [Threads -> Requests]
           /\ req'[t].at = where /\ req'[t].agent = req[t].agent
           /\ req'[t].key = req[t].key /\ req'[t].id = req[t].id
           /\ \A u \in Threads : u # t => req'[u] = req[u]
  <1>1. req[t] \in Posts
    BY Shapes DEF Typed, Posting
  <1>2. [req[t] EXCEPT !.at = where] \in Posts
    BY <1>1 DEF Posts
  <1>3. req'[t] = [req[t] EXCEPT !.at = where] /\ \A u \in Threads : u # t => req'[u] = req[u]
    BY DEF Typed, Goes
  <1>4. req' \in [Threads -> Requests]
    BY <1>2 DEF Typed, Goes, Requests
  <1> QED
    BY <1>1, <1>3, <1>4 DEF Posts

LEMMA Ending ==
    ASSUME NEW t \in Threads, Typed, Ends(t)
    PROVE  /\ req' \in [Threads -> Requests] /\ req'[t].at = "idle"
           /\ \A u \in Threads : u # t => req'[u] = req[u]
  <1>1. Idle \in Requests
    BY DEF Idle, Requests, Others
  <1> QED
    BY <1>1 DEF Typed, Ends, Idle

LEMMA Start == Init => Base /\ KeyInv
  <1> SUFFICES ASSUME Init PROVE Base /\ KeyInv
    OBVIOUS
  <1>1. DOMAIN orders = {} /\ DOMAIN idem = {}
    BY DEF Init
  <1>2. \A t \in Threads : req[t].at = "idle"
    BY DEF Init, Idle
  <1>3. Typed
    <2>1. Idle \in Requests
      BY DEF Idle, Requests, Others
    <2>2. orders \in [{} -> Order] /\ idem \in [{} -> Nat]
      BY DEF Init
    <2> QED
      BY <1>1, <2>1, <2>2 DEF Init, Typed
  <1> QED
    BY <1>1, <1>2, <1>3 DEF Base, Numbered, Answering, Cancelling, AnswerIsOwnOrder, KeyInv,
        Apart, Fresh, Known, OneOrderPerKey, Posting
-----------------------------------------------------------------------------
(* Answers and numbers, whatever the clients do *)

\* What NumbersGivenOnce says of a step.
Kept == resets' = resets => \A id \in DOMAIN orders :
            /\ id \in DOMAIN orders'
            /\ orders'[id].agent = orders[id].agent /\ orders'[id].key = orders[id].key
            /\ orders[id].status = "cancelled" => orders'[id].status = "cancelled"

\* A thread that neither takes a number nor stores, answers or cancels.
LEMMA Aside ==
    ASSUME Base, NEW t \in Threads, req' \in [Threads -> Requests],
           \A u \in Threads : u # t => req'[u] = req[u],
           req'[t].at \notin {"store", "answer", "cancel"},
           UNCHANGED <<resets, orders, nextId, idem>>, members' \subseteq Agents
    PROVE  Base' /\ Kept
  <1>1. Typed' /\ AnswerIsOwnOrder'
    BY DEF Base, Typed, AnswerIsOwnOrder
  <1>2. Numbered' /\ Answering' /\ Cancelling'
    BY DEF Base, Numbered, Answering, Cancelling
  <1> QED
    BY <1>1, <1>2 DEF Base, Kept

\* The requests that stay aside of the orders.
AsideStep(t) ==
    \/ \E a \in Agents, k \in AnyKey : Lookup(t, a, k)
    \/ Count(t) \/ Submit(t)
    \/ \E a \in Agents : Decide(t, a)
    \/ DecisionSubmits(t) \/ StepBegins(t) \/ Publish(t) \/ CountersReset(t)

LEMMA AsideMoves ==
    ASSUME Typed, NEW t \in Threads, AsideStep(t)
    PROVE  /\ req' \in [Threads -> Requests] /\ \A u \in Threads : u # t => req'[u] = req[u]
           /\ req'[t].at \notin {"store", "answer", "cancel"}
           /\ UNCHANGED <<resets, orders, nextId, idem, members>>
  <1>1. CASE \E a \in Agents, k \in AnyKey : Lookup(t, a, k)
    <2>1. PICK a \in Agents, k \in AnyKey : Lookup(t, a, k)
      BY <1>1
    <2>2. PostAt(a, k, "count", 0) \in Requests /\ PostAt(a, k, "count", 0).at = "count"
      BY DEF PostAt, Requests, Posts
    <2>3. req' = [req EXCEPT ![t] = PostAt(a, k, "count", 0)]
          /\ UNCHANGED <<resets, orders, nextId, idem, members>>
      BY <2>1 DEF Lookup, world, table, rest
    <2> QED
      BY <2>2, <2>3 DEF Typed
  <1>2. CASE Count(t)
    <2>1. UNCHANGED <<resets, orders, nextId, idem, members>>
      BY <1>2 DEF Count, world, rest
    <2>2. Posting(t) /\ (Ends(t) \/ Goes(t, "submit"))
      BY <1>2 DEF Count, Posting
    <2> QED
      BY <2>1, <2>2, Ending, Going
  <1>3. CASE Submit(t)
    <2>1. Posting(t) /\ Goes(t, "number") /\ UNCHANGED <<resets, orders, nextId, idem, members>>
      BY <1>3 DEF Submit, Posting, table, rest
    <2> QED
      BY <2>1, Going
  <1>4. CASE \E a \in Agents : Decide(t, a)
    <2>1. PICK a \in Agents : Decide(t, a)
      BY <1>4
    <2>2. [at |-> "decision", agent |-> a] \in Requests
      BY DEF Requests, Others
    <2>3. req' = [req EXCEPT ![t] = [at |-> "decision", agent |-> a]]
          /\ UNCHANGED <<resets, orders, nextId, idem, members>>
      BY <2>1 DEF Decide, world, rest
    <2> QED
      BY <2>2, <2>3 DEF Typed
  <1>5. CASE DecisionSubmits(t)
    BY <1>5, Ending DEF DecisionSubmits, world, table, rest
  <1>6. CASE StepBegins(t)
    <2>1. [at |-> "ingested"] \in Requests
      BY DEF Requests, Others
    <2>2. req' = [req EXCEPT ![t] = [at |-> "ingested"]]
          /\ UNCHANGED <<resets, orders, nextId, idem, members>>
      BY <1>6 DEF StepBegins, table, rest
    <2> QED
      BY <2>1, <2>2 DEF Typed
  <1>7. CASE Publish(t)
    <2>1. [at |-> "counters", todo |-> members] \in Requests
      BY DEF Typed, Requests, Others
    <2>2. req[t].at = "ingested" /\ UNCHANGED <<resets, orders, nextId, idem, members>>
      BY <1>7 DEF Publish, table, rest
    <2>3. CASE req' = req
      BY <2>2, <2>3 DEF Typed
    <2>4. CASE req' = [req EXCEPT ![t] = [at |-> "counters", todo |-> members]]
      BY <2>1, <2>2, <2>4 DEF Typed
    <2> QED
      BY <1>7, <2>3, <2>4 DEF Publish
  <1>8. CASE CountersReset(t)
    <2>1. UNCHANGED <<resets, orders, nextId, idem, members>>
      BY <1>8 DEF CountersReset, world, rest
    <2>2. CASE Ends(t)
      BY <2>1, <2>2, Ending
    <2>3. CASE ~Ends(t)
      <3> DEFINE a == Min(req[t].todo)
      <3>1. req' = [req EXCEPT ![t].todo = @ \ {a}] /\ req[t].at = "counters"
        BY <1>8, <2>3 DEF CountersReset
      <3>2. req[t] \in [at : {"counters"}, todo : SUBSET Agents]
        BY <3>1 DEF Typed, Requests, Posts, Cancels, Others
      <3>3. [req[t] EXCEPT !.todo = @ \ {a}] \in [at : {"counters"}, todo : SUBSET Agents]
        BY <3>2
      <3>4. req'[t] = [req[t] EXCEPT !.todo = @ \ {a}] /\ \A u \in Threads : u # t => req'[u] = req[u]
        BY <3>1 DEF Typed
      <3>5. [req[t] EXCEPT !.todo = @ \ {a}] \in Requests
        BY <3>3 DEF Requests, Others
      <3>6. req' \in [Threads -> Requests]
        BY <3>1, <3>5 DEF Typed
      <3> QED
        BY <2>1, <3>3, <3>4, <3>6
    <2> QED
      BY <2>2, <2>3
  <1> QED
    BY <1>1, <1>2, <1>3, <1>4, <1>5, <1>6, <1>7, <1>8 DEF AsideStep

LEMMA NumberKeeps ==
    ASSUME Base, NEW t \in Threads, Number(t)
    PROVE  Base' /\ Kept
  <1>1. req[t] \in Posts
    BY Shapes DEF Number, Base, Typed
  <1>2. [req[t] EXCEPT !.at = "store", !.id = nextId] \in Posts
    BY <1>1 DEF Posts, Base, Typed
  <1>3. /\ req'[t].at = "store" /\ req'[t].id = nextId
        /\ \A u \in Threads : u # t => req'[u] = req[u]
    BY <1>1 DEF Number, Base, Typed, Posts
  <1>4. req' \in [Threads -> Requests]
    BY <1>2 DEF Number, Base, Typed, Requests
  <1>5. nextId' = nextId + 1 /\ UNCHANGED <<resets, members, orders, idem>>
    BY DEF Number, world, table
  <1>6. Typed' /\ AnswerIsOwnOrder'
    BY <1>4, <1>5 DEF Base, Typed, AnswerIsOwnOrder
  <1>7. Numbered'
    <2> SUFFICES ASSUME NEW u \in Threads, req'[u].at = "store"
                 PROVE  /\ req'[u].id < nextId' /\ req'[u].id \notin DOMAIN orders'
                        /\ \A w \in Threads : w # u /\ req'[w].at = "store" => req'[w].id # req'[u].id
      BY DEF Numbered
    <2>1. \A w \in Threads : w # t /\ req'[w].at = "store" =>
              req'[w].id < nextId /\ req'[w].id \in Nat /\ req'[w].id \notin DOMAIN orders
      BY <1>3, Shapes DEF Base, Typed, Numbered
    <2>2. nextId \in Nat /\ nextId \notin DOMAIN orders
      BY DEF Base, Typed
    <2>3. CASE u = t
      BY <1>3, <1>5, <2>1, <2>2, <2>3
    <2>4. CASE u # t
      <3>1. req'[u].id < nextId' /\ req'[u].id \notin DOMAIN orders'
        BY <1>5, <2>1, <2>2, <2>4
      <3>2. ASSUME NEW w \in Threads, w # u, req'[w].at = "store" PROVE req'[w].id # req'[u].id
        <4>1. CASE w = t
          BY <1>3, <2>1, <2>2, <2>4, <4>1
        <4>2. CASE w # t
          BY <1>3, <2>4, <3>2, <4>2 DEF Base, Numbered
        <4> QED
          BY <4>1, <4>2
      <3> QED
        BY <3>1, <3>2
    <2> QED
      BY <2>3, <2>4
  <1>8. Answering' /\ Cancelling'
    BY <1>3, <1>5 DEF Base, Answering, Cancelling
  <1> QED
    BY <1>5, <1>6, <1>7, <1>8 DEF Base, Kept

\* What Store leaves: the order under its number, and a thread that ends or answers.
LEMMA Stored ==
    ASSUME Base, NEW t \in Threads, Store(t)
    PROVE  /\ req[t].at = "store" /\ req[t].id \notin DOMAIN orders
           /\ DOMAIN orders' = DOMAIN orders \cup {req[t].id}
           /\ orders'[req[t].id].agent = req[t].agent /\ orders'[req[t].id].key = req[t].key
           /\ \A id \in DOMAIN orders : orders'[id] = orders[id]
           /\ orders' \in [DOMAIN orders' -> Order]
           /\ req' \in [Threads -> Requests] /\ \A u \in Threads : u # t => req'[u] = req[u]
           /\ \/ req'[t].at = "idle" /\ req[t].key = NoKey
              \/ /\ req'[t].at = "answer" /\ req'[t].agent = req[t].agent
                 /\ req'[t].key = req[t].key /\ req'[t].id = req[t].id
           /\ UNCHANGED <<resets, members, nextId, idem>>
  <1> DEFINE o == [agent |-> req[t].agent, key |-> req[t].key, status |-> "resting"]
  <1>1. req[t].at = "store" /\ orders' = Put(orders, req[t].id, o)
        /\ UNCHANGED <<resets, members, nextId, idem>>
    BY DEF Store, world, table
  <1>2. req[t].id \notin DOMAIN orders
    BY <1>1 DEF Base, Numbered
  <1>3. o \in Order
    BY <1>1, Shapes DEF Base, Typed, Order, AnyKey
  <1>4. /\ DOMAIN orders' = DOMAIN orders \cup {req[t].id} /\ orders'[req[t].id] = o
        /\ \A id \in DOMAIN orders : orders'[id] = orders[id]
    BY <1>1, <1>2 DEF Put
  <1>5. orders' \in [DOMAIN orders' -> Order]
    BY <1>1, <1>3 DEF Put, Base, Typed
  <1>6. Posting(t)
    BY <1>1 DEF Posting
  <1>7. CASE req[t].key = NoKey
    <2>1. Ends(t)
      BY <1>7 DEF Store
    <2> QED
      BY <1>1, <1>2, <1>4, <1>5, <1>7, <2>1, Ending DEF Base
  <1>8. CASE req[t].key # NoKey
    <2>1. Goes(t, "answer")
      BY <1>8 DEF Store
    <2> QED
      BY <1>1, <1>2, <1>4, <1>5, <1>6, <2>1, Going DEF Base
  <1> QED
    BY <1>7, <1>8

LEMMA StoreKeeps ==
    ASSUME Base, NEW t \in Threads, Store(t)
    PROVE  Base' /\ Kept
  <1> DEFINE i == req[t].id
  <1>0. /\ DOMAIN orders' = DOMAIN orders \cup {i}
        /\ orders'[i].agent = req[t].agent /\ orders'[i].key = req[t].key
        /\ \A id \in DOMAIN orders : orders'[id] = orders[id]
        /\ \A u \in Threads : u # t => req'[u] = req[u]
        /\ req'[t].at = "idle" \/ /\ req'[t].at = "answer" /\ req'[t].agent = req[t].agent
                                   /\ req'[t].key = req[t].key /\ req'[t].id = i
        /\ UNCHANGED <<resets, members, nextId, idem>>
    BY Stored
  <1>1. req[t].at = "store" /\ i \notin DOMAIN orders /\ i \in Nat /\ i < nextId
    BY Stored, Shapes DEF Base, Typed, Numbered
  <1>2. Typed'
    BY <1>1, Stored DEF Base, Typed
  <1>3. Numbered'
    <2> SUFFICES ASSUME NEW u \in Threads, req'[u].at = "store"
                 PROVE  /\ req'[u].id < nextId' /\ req'[u].id \notin DOMAIN orders'
                        /\ \A w \in Threads : w # u /\ req'[w].at = "store" => req'[w].id # req'[u].id
      BY DEF Numbered
    <2>1. u # t /\ req'[u] = req[u]
      BY <1>0
    <2>2. req[u].id < nextId /\ req[u].id \notin DOMAIN orders /\ req[u].id # i
      BY <1>1, <2>1 DEF Base, Numbered
    <2>3. ASSUME NEW w \in Threads, w # u, req'[w].at = "store" PROVE req'[w].id # req'[u].id
      <3>1. w # t /\ req'[w] = req[w]
        BY <2>3, <1>0
      <3> QED
        BY <2>1, <2>3, <3>1 DEF Base, Numbered
    <2> QED
      BY <2>1, <2>2, <2>3, <1>0
  <1>4. Answering'
    <2> SUFFICES ASSUME NEW u \in Threads, req'[u].at = "answer"
                 PROVE  /\ req'[u].id \in DOMAIN orders'
                        /\ orders'[req'[u].id].agent = req'[u].agent
                        /\ orders'[req'[u].id].key = req'[u].key
      BY DEF Answering
    <2>1. CASE u = t
      BY <2>1, <1>0
    <2>2. CASE u # t
      <3>1. req'[u] = req[u] /\ req[u].id \in DOMAIN orders
            /\ orders[req[u].id].agent = req[u].agent /\ orders[req[u].id].key = req[u].key
        BY <2>2, <1>0 DEF Base, Answering
      <3> QED
        BY <3>1, <1>0
    <2> QED
      BY <2>1, <2>2
  <1>5. Cancelling'
    <2> SUFFICES ASSUME NEW u \in Threads, req'[u].at = "cancel"
                 PROVE  /\ req'[u].id \in DOMAIN orders'
                        /\ req'[u].order.agent = orders'[req'[u].id].agent
                        /\ req'[u].order.key = orders'[req'[u].id].key
      BY DEF Cancelling
    <2>1. u # t /\ req'[u] = req[u]
      BY <1>0
    <2>2. /\ req[u].id \in DOMAIN orders
          /\ req[u].order.agent = orders[req[u].id].agent
          /\ req[u].order.key = orders[req[u].id].key
      BY <2>1 DEF Base, Cancelling
    <2> QED
      BY <2>1, <2>2, <1>0
  <1>6. AnswerIsOwnOrder'
    <2> SUFFICES ASSUME NEW ak \in DOMAIN idem
                 PROVE  /\ idem[ak] \in DOMAIN orders'
                        /\ orders'[idem[ak]].agent = ak[1] /\ orders'[idem[ak]].key = ak[2]
      BY <1>0 DEF AnswerIsOwnOrder
    <2>1. /\ idem[ak] \in DOMAIN orders
          /\ orders[idem[ak]].agent = ak[1] /\ orders[idem[ak]].key = ak[2]
      BY DEF Base, AnswerIsOwnOrder
    <2> QED
      BY <2>1, <1>0
  <1>7. Kept
    BY <1>0 DEF Kept
  <1> QED
    BY <1>2, <1>3, <1>4, <1>5, <1>6, <1>7 DEF Base

\* What Answer leaves: the answer under its key.
LEMMA Answered ==
    ASSUME Base, NEW t \in Threads, Answer(t)
    PROVE  /\ req[t].at = "answer"
           /\ DOMAIN idem' = DOMAIN idem \cup {<<req[t].agent, req[t].key>>}
           /\ idem'[<<req[t].agent, req[t].key>>] = req[t].id
           /\ \A ak \in DOMAIN idem : ak # <<req[t].agent, req[t].key>> => idem'[ak] = idem[ak]
           /\ idem' \in [DOMAIN idem' -> Nat] /\ DOMAIN idem' \subseteq Agents \X AnyKey
           /\ req' \in [Threads -> Requests] /\ req'[t].at = "idle"
           /\ \A u \in Threads : u # t => req'[u] = req[u]
           /\ UNCHANGED <<resets, members, orders, nextId>>
  <1>1. /\ req[t].at = "answer" /\ idem' = Put(idem, <<req[t].agent, req[t].key>>, req[t].id)
        /\ Ends(t) /\ UNCHANGED <<resets, members, orders, nextId>>
    BY DEF Answer, world, table
  <1>2. req[t].agent \in Agents /\ req[t].key \in AnyKey /\ req[t].id \in Nat
    BY <1>1, Shapes DEF Base, Typed
  <1>3. idem' \in [DOMAIN idem' -> Nat] /\ DOMAIN idem' \subseteq Agents \X AnyKey
    BY <1>1, <1>2 DEF Put, Base, Typed
  <1>4. /\ DOMAIN idem' = DOMAIN idem \cup {<<req[t].agent, req[t].key>>}
        /\ idem'[<<req[t].agent, req[t].key>>] = req[t].id
        /\ \A ak \in DOMAIN idem : ak # <<req[t].agent, req[t].key>> => idem'[ak] = idem[ak]
    BY <1>1 DEF Put
  <1> QED
    BY <1>1, <1>3, <1>4, Ending DEF Base

LEMMA AnswerKeeps ==
    ASSUME Base, NEW t \in Threads, Answer(t)
    PROVE  Base' /\ Kept
  <1>1. Typed'
    BY Answered DEF Base, Typed
  <1>2. /\ req'[t].at = "idle" /\ \A u \in Threads : u # t => req'[u] = req[u]
        /\ UNCHANGED <<orders, nextId>>
    BY Answered
  <1>3. Numbered' /\ Answering' /\ Cancelling'
    BY <1>2 DEF Base, Numbered, Answering, Cancelling
  <1>4. AnswerIsOwnOrder'
    <2> SUFFICES ASSUME NEW ak \in DOMAIN idem'
                 PROVE  /\ idem'[ak] \in DOMAIN orders'
                        /\ orders'[idem'[ak]].agent = ak[1] /\ orders'[idem'[ak]].key = ak[2]
      BY DEF AnswerIsOwnOrder
    <2>1. CASE ak = <<req[t].agent, req[t].key>>
      BY <2>1, Answered DEF Base, Answering
    <2>2. CASE ak # <<req[t].agent, req[t].key>>
      <3>1. ak \in DOMAIN idem /\ idem'[ak] = idem[ak] /\ orders' = orders
        BY <2>2, Answered
      <3>2. /\ idem[ak] \in DOMAIN orders
            /\ orders[idem[ak]].agent = ak[1] /\ orders[idem[ak]].key = ak[2]
        BY <3>1 DEF Base, AnswerIsOwnOrder
      <3> QED
        BY <3>1, <3>2
    <2> QED
      BY <2>1, <2>2
  <1>5. Kept
    BY Answered DEF Kept
  <1> QED
    BY <1>1, <1>3, <1>4, <1>5 DEF Base

LEMMA CancelReadsKeeps ==
    ASSUME Base, NEW t \in Threads, NEW id \in DOMAIN orders, CancelReads(t, id)
    PROVE  Base' /\ Kept
  <1> DEFINE c == [at |-> "cancel", id |-> id, order |-> orders[id]]
  <1>1. req' = [req EXCEPT ![t] = c] /\ UNCHANGED <<resets, members, orders, nextId, idem>>
    BY DEF CancelReads, world, table, rest
  <1>2. c \in Requests
    BY DEF Base, Typed, Requests, Cancels
  <1>3. req' \in [Threads -> Requests] /\ req'[t] = c /\ \A u \in Threads : u # t => req'[u] = req[u]
    BY <1>1, <1>2 DEF Base, Typed
  <1>4. Typed' /\ AnswerIsOwnOrder'
    BY <1>1, <1>3 DEF Base, Typed, AnswerIsOwnOrder
  <1>5. req'[t].at = "cancel" /\ req'[t].id = id /\ req'[t].order = orders[id]
    BY <1>3
  <1>6. Numbered' /\ Answering'
    BY <1>1, <1>3, <1>5 DEF Base, Numbered, Answering
  <1>7. Cancelling'
    BY <1>1, <1>3, <1>5 DEF Base, Cancelling
  <1> QED
    BY <1>1, <1>4, <1>6, <1>7 DEF Base, Kept

\* What CancelWrites leaves: the same orders, one of them cancelled.
LEMMA Cancelled ==
    ASSUME Base, NEW t \in Threads, CancelWrites(t)
    PROVE  /\ DOMAIN orders' = DOMAIN orders /\ orders' \in [DOMAIN orders -> Order]
           /\ \A i \in DOMAIN orders :
                 /\ orders'[i].agent = orders[i].agent /\ orders'[i].key = orders[i].key
                 /\ orders'[i].status = "cancelled" \/ orders'[i] = orders[i]
           /\ req[t].at = "cancel" /\ req' \in [Threads -> Requests] /\ req'[t].at = "idle"
           /\ \A u \in Threads : u # t => req'[u] = req[u]
           /\ UNCHANGED <<resets, members, nextId, idem>>
  <1> DEFINE i == req[t].id
             o == [req[t].order EXCEPT !.status = "cancelled"]
  <1>1. /\ req[t].at = "cancel" /\ orders' = [orders EXCEPT ![i] = o] /\ Ends(t)
        /\ UNCHANGED <<resets, members, nextId, idem>>
    BY DEF CancelWrites, world, table
  <1>2. req[t].order \in Order
    BY <1>1, Shapes DEF Base, Typed
  <1>3. /\ o \in Order /\ o.agent = req[t].order.agent /\ o.key = req[t].order.key
        /\ o.status = "cancelled"
    BY <1>2 DEF Order
  <1>4. i \in DOMAIN orders /\ o.agent = orders[i].agent /\ o.key = orders[i].key
    BY <1>1, <1>3 DEF Base, Cancelling
  <1>5. /\ DOMAIN orders' = DOMAIN orders /\ orders'[i] = o
        /\ \A j \in DOMAIN orders : j # i => orders'[j] = orders[j]
    BY <1>1, <1>4 DEF Base, Typed
  <1>6. orders' \in [DOMAIN orders -> Order]
    BY <1>1, <1>3 DEF Base, Typed
  <1> QED
    BY <1>1, <1>3, <1>4, <1>5, <1>6, Ending DEF Base

LEMMA CancelWritesKeeps ==
    ASSUME Base, NEW t \in Threads, CancelWrites(t)
    PROVE  Base' /\ Kept
  <1>1. /\ DOMAIN orders' = DOMAIN orders
        /\ \A i \in DOMAIN orders : orders'[i].agent = orders[i].agent /\ orders'[i].key = orders[i].key
        /\ req'[t].at = "idle" /\ \A u \in Threads : u # t => req'[u] = req[u]
        /\ UNCHANGED <<nextId, idem>>
    BY Cancelled
  <1>2. Typed'
    BY Cancelled DEF Base, Typed
  <1>3. Numbered'
    BY <1>1 DEF Base, Numbered
  <1>4. Answering'
    BY <1>1 DEF Base, Answering
  <1>5. Cancelling'
    BY <1>1 DEF Base, Cancelling
  <1>6. AnswerIsOwnOrder'
    BY <1>1 DEF Base, AnswerIsOwnOrder
  <1>7. Kept
    BY Cancelled DEF Kept
  <1> QED
    BY <1>2, <1>3, <1>4, <1>5, <1>6, <1>7 DEF Base

LEMMA ResetKeeps ==
    ASSUME ResetsAlone, Base, Reset
    PROVE  Base' /\ Kept
  <1>1. \A t \in Threads : req[t].at = "idle"
    <2>1. \A t \in Threads : req[t] = Idle
      BY DEF Reset
    <2> QED
      BY <2>1 DEF Idle
  <1>2. /\ resets' = resets + 1 /\ nextId' = 1 /\ orders' = << >> /\ idem' = << >>
        /\ UNCHANGED <<members, req>>
    BY DEF Reset
  <1>3. DOMAIN orders' = {} /\ DOMAIN idem' = {}
        /\ orders' \in [{} -> Order] /\ idem' \in [{} -> Nat]
    BY <1>2
  <1>4. Typed'
    BY <1>2, <1>3 DEF Base, Typed
  <1>5. Numbered' /\ Answering' /\ Cancelling' /\ AnswerIsOwnOrder'
    BY <1>1, <1>2, <1>3 DEF Numbered, Answering, Cancelling, AnswerIsOwnOrder
  <1>6. resets' # resets
    BY <1>2 DEF Base, Typed
  <1> QED
    BY <1>4, <1>5, <1>6 DEF Base, Kept

LEMMA TableKeeps ==
    ASSUME Base, NEW a \in Agents, Leave(a) \/ Join(a)
    PROVE  Base' /\ Kept
  <1>1. UNCHANGED <<resets, orders, nextId, idem, req>> /\ members' \subseteq Agents
    BY DEF Leave, Join, world, rest, Base, Typed
  <1>2. Typed' /\ AnswerIsOwnOrder'
    BY <1>1 DEF Base, Typed, AnswerIsOwnOrder
  <1>3. Numbered' /\ Answering' /\ Cancelling'
    BY <1>1 DEF Base, Numbered, Answering, Cancelling
  <1> QED
    BY <1>1, <1>2, <1>3 DEF Base, Kept

LEMMA BaseStep == ResetsAlone /\ Base /\ [Next]_vars => Base' /\ Kept
  <1> SUFFICES ASSUME ResetsAlone, Base, [Next]_vars PROVE Base' /\ Kept
    OBVIOUS
  <1>1. ASSUME NEW t \in Threads, AsideStep(t) PROVE Base' /\ Kept
    <2>1. /\ req' \in [Threads -> Requests] /\ \A u \in Threads : u # t => req'[u] = req[u]
          /\ req'[t].at \notin {"store", "answer", "cancel"}
          /\ UNCHANGED <<resets, orders, nextId, idem, members>>
      BY <1>1, AsideMoves DEF Base
    <2>2. members' \subseteq Agents
      BY <2>1 DEF Base, Typed
    <2> QED
      BY <2>1, <2>2, Aside
  <1>2. ASSUME NEW t \in Threads, Number(t) PROVE Base' /\ Kept
    BY <1>2, NumberKeeps
  <1>3. ASSUME NEW t \in Threads, Store(t) PROVE Base' /\ Kept
    BY <1>3, StoreKeeps
  <1>4. ASSUME NEW t \in Threads, Answer(t) PROVE Base' /\ Kept
    BY <1>4, AnswerKeeps
  <1>5. ASSUME NEW t \in Threads, NEW id \in DOMAIN orders, CancelReads(t, id) PROVE Base' /\ Kept
    BY <1>5, CancelReadsKeeps
  <1>6. ASSUME NEW t \in Threads, CancelWrites(t) PROVE Base' /\ Kept
    BY <1>6, CancelWritesKeeps
  <1>7. CASE Reset
    BY <1>7, ResetKeeps
  <1>8. ASSUME NEW a \in Agents, Leave(a) \/ Join(a) PROVE Base' /\ Kept
    BY <1>8, TableKeeps
  <1>9. CASE UNCHANGED vars
    <2>1. UNCHANGED <<resets, members, orders, nextId, idem, req>>
      BY <1>9 DEF vars
    <2>2. Typed' /\ AnswerIsOwnOrder'
      BY <2>1 DEF Base, Typed, AnswerIsOwnOrder
    <2>3. Numbered' /\ Answering' /\ Cancelling'
      BY <2>1 DEF Base, Numbered, Answering, Cancelling
    <2> QED
      BY <2>1, <2>2, <2>3 DEF Base, Kept
  <1> QED
    BY <1>1, <1>2, <1>3, <1>4, <1>5, <1>6, <1>7, <1>8, <1>9 DEF Next, Request, AsideStep, AnyKey

-----------------------------------------------------------------------------
(* One order for a key, when clients are patient *)

\* Nobody posts under another key than before, and who is to answer still is.
LEMMA KeysAside ==
    ASSUME KeyInv, UNCHANGED idem, DOMAIN orders' = DOMAIN orders,
           \A i \in DOMAIN orders : orders'[i].agent = orders[i].agent /\ orders'[i].key = orders[i].key,
           \A u \in Threads : Posting(u)' =>
               Posting(u) /\ req'[u].agent = req[u].agent /\ req'[u].key = req[u].key,
           \A u \in Threads : req[u].at = "answer" => req'[u] = req[u]
    PROVE  KeyInv'
  <1>1. Apart'
    BY DEF KeyInv, Apart
  <1>2. Fresh'
    BY DEF KeyInv, Fresh
  <1>3. Known'
    <2> SUFFICES ASSUME NEW id \in DOMAIN orders, orders[id].key # NoKey
                 PROVE  \/ <<orders[id].agent, orders[id].key>> \in DOMAIN idem
                        \/ \E t \in Threads : req'[t].at = "answer" /\ req'[t].id = id
      BY DEF Known
    <2>1. CASE <<orders[id].agent, orders[id].key>> \in DOMAIN idem
      BY <2>1
    <2>2. CASE \E t \in Threads : req[t].at = "answer" /\ req[t].id = id
      BY <2>2
    <2> QED
      BY <2>1, <2>2 DEF KeyInv, Known
  <1>4. OneOrderPerKey'
    BY DEF KeyInv, OneOrderPerKey
  <1> QED
    BY <1>1, <1>2, <1>3, <1>4 DEF KeyInv

\* A thread that posts, and goes on or gives up before it has stored anything.
LEMMA PostingKeys ==
    ASSUME Base, KeyInv, NEW t \in Threads, Count(t) \/ Submit(t) \/ Number(t)
    PROVE  KeyInv'
  <1>1. Posting(t) /\ req[t].at # "answer" /\ UNCHANGED <<orders, idem>>
    BY DEF Count, Submit, Number, Posting, rest
  <1>2. /\ \A u \in Threads : u # t => req'[u] = req[u]
        /\ Posting(t)' => req'[t].agent = req[t].agent /\ req'[t].key = req[t].key
    <2>1. CASE Count(t)
      <3>1. Ends(t) \/ Goes(t, "submit")
        BY <2>1 DEF Count
      <3> QED
        BY <1>1, <3>1, Ending, Going DEF Base, Posting
    <2>2. CASE Submit(t)
      <3>1. Goes(t, "number")
        BY <2>2 DEF Submit
      <3> QED
        BY <1>1, <3>1, Going DEF Base
    <2>3. CASE Number(t)
      <3>1. req' = [req EXCEPT ![t].at = "store", ![t].id = nextId]
        BY <2>3 DEF Number
      <3>2. req[t] \in Posts
        BY <1>1, Shapes DEF Base, Typed, Posting
      <3> QED
        BY <3>1, <3>2 DEF Base, Typed, Posts
    <2> QED
      BY <2>1, <2>2, <2>3
  <1>3. \A u \in Threads : Posting(u)' =>
            Posting(u) /\ req'[u].agent = req[u].agent /\ req'[u].key = req[u].key
    BY <1>1, <1>2 DEF Posting
  <1>4. \A u \in Threads : req[u].at = "answer" => req'[u] = req[u]
    BY <1>1, <1>2
  <1> QED
    BY <1>1, <1>3, <1>4, KeysAside

\* A thread that does not post: steps, decisions, cancels.
OtherStep(t) ==
    \/ \E a \in Agents : Decide(t, a)
    \/ DecisionSubmits(t) \/ StepBegins(t) \/ Publish(t) \/ CountersReset(t)
    \/ \E id \in DOMAIN orders : CancelReads(t, id)
    \/ CancelWrites(t)

LEMMA OtherMoves ==
    ASSUME Base, NEW t \in Threads, OtherStep(t)
    PROVE  /\ req[t].at # "answer" /\ idem' = idem /\ ~Posting(t)'
           /\ \A u \in Threads : u # t => req'[u] = req[u]
           /\ DOMAIN orders' = DOMAIN orders
           /\ \A i \in DOMAIN orders : orders'[i].agent = orders[i].agent /\ orders'[i].key = orders[i].key
  <1>1. CASE \E a \in Agents : Decide(t, a)
    <2>1. PICK a \in Agents : Decide(t, a)
      BY <1>1
    <2>2. /\ req[t] = Idle /\ req' = [req EXCEPT ![t] = [at |-> "decision", agent |-> a]]
          /\ UNCHANGED <<orders, idem>>
      BY <2>1 DEF Decide, rest
    <2> QED
      BY <2>2 DEF Idle, Base, Typed, Posting
  <1>2. CASE DecisionSubmits(t)
    BY <1>2, Ending DEF DecisionSubmits, rest, Base, Posting
  <1>3. CASE StepBegins(t)
    <2>1. /\ req[t] = Idle /\ req' = [req EXCEPT ![t] = [at |-> "ingested"]]
          /\ UNCHANGED <<orders, idem>>
      BY <1>3 DEF StepBegins, rest
    <2> QED
      BY <2>1 DEF Idle, Base, Typed, Posting
  <1>4. CASE Publish(t)
    <2>1. /\ req[t].at = "ingested"
          /\ \/ req' = req
             \/ req' = [req EXCEPT ![t] = [at |-> "counters", todo |-> members]]
          /\ UNCHANGED <<orders, idem>>
      BY <1>4 DEF Publish, rest
    <2> QED
      BY <2>1 DEF Base, Typed, Posting
  <1>5. CASE CountersReset(t)
    <2>1. req[t].at = "counters" /\ UNCHANGED <<orders, idem>>
      BY <1>5 DEF CountersReset, rest
    <2>2. CASE Ends(t)
      BY <2>1, <2>2, Ending DEF Base, Posting
    <2>3. CASE ~Ends(t)
      <3> DEFINE a == Min(req[t].todo)
      <3>1. req' = [req EXCEPT ![t].todo = @ \ {a}]
        BY <1>5, <2>3 DEF CountersReset
      <3>2. req[t] \in [at : {"counters"}, todo : SUBSET Agents]
        BY <2>1 DEF Base, Typed, Requests, Posts, Cancels, Others
      <3>3. req'[t].at = "counters" /\ \A u \in Threads : u # t => req'[u] = req[u]
        BY <3>1, <3>2 DEF Base, Typed
      <3> QED
        BY <2>1, <3>3 DEF Posting
    <2> QED
      BY <2>2, <2>3
  <1>6. CASE \E id \in DOMAIN orders : CancelReads(t, id)
    <2>1. PICK id \in DOMAIN orders : CancelReads(t, id)
      BY <1>6
    <2>2. /\ req[t] = Idle /\ req' = [req EXCEPT ![t] = [at |-> "cancel", id |-> id, order |-> orders[id]]]
          /\ UNCHANGED <<orders, idem>>
      BY <2>1 DEF CancelReads, rest
    <2> QED
      BY <2>2 DEF Idle, Base, Typed, Posting
  <1>7. CASE CancelWrites(t)
    BY <1>7, Cancelled DEF Posting
  <1> QED
    BY <1>1, <1>2, <1>3, <1>4, <1>5, <1>6, <1>7 DEF OtherStep

LEMMA OtherKeys ==
    ASSUME Base, KeyInv, NEW t \in Threads, OtherStep(t)
    PROVE  KeyInv'
  <1>1. /\ req[t].at # "answer" /\ idem' = idem /\ ~Posting(t)'
        /\ \A u \in Threads : u # t => req'[u] = req[u]
        /\ DOMAIN orders' = DOMAIN orders
        /\ \A i \in DOMAIN orders : orders'[i].agent = orders[i].agent /\ orders'[i].key = orders[i].key
    BY OtherMoves
  <1>2. \A u \in Threads : Posting(u)' =>
            Posting(u) /\ req'[u].agent = req[u].agent /\ req'[u].key = req[u].key
    BY <1>1 DEF Posting
  <1>3. \A u \in Threads : req[u].at = "answer" => req'[u] = req[u]
    BY <1>1
  <1> QED
    BY <1>1, <1>2, <1>3, KeysAside

LEMMA LookupKeys ==
    ASSUME Patient, Base, KeyInv, NEW t \in Threads, NEW a \in Agents, NEW k \in AnyKey, Lookup(t, a, k)
    PROVE  KeyInv'
  <1>1. /\ req[t] = Idle /\ req' = [req EXCEPT ![t] = PostAt(a, k, "count", 0)]
        /\ k # NoKey => \A u \in Threads : ~(Posting(u) /\ req[u].key = k /\ req[u].agent = a)
        /\ <<a, k>> \notin DOMAIN idem /\ UNCHANGED <<orders, idem>>
    BY DEF Lookup, rest
  <1>2. /\ req[t].at = "idle" /\ req'[t].at = "count" /\ req'[t].agent = a /\ req'[t].key = k
        /\ \A u \in Threads : u # t => req'[u] = req[u]
    BY <1>1 DEF Base, Typed, Idle, PostAt
  <1>3. Apart'
    BY <1>1, <1>2 DEF KeyInv, Apart, Posting
  <1>4. Fresh'
    BY <1>1, <1>2 DEF KeyInv, Fresh, Posting
  <1>5. Known'
    <2> SUFFICES ASSUME NEW id \in DOMAIN orders, orders[id].key # NoKey
                 PROVE  \/ <<orders[id].agent, orders[id].key>> \in DOMAIN idem
                        \/ \E w \in Threads : req'[w].at = "answer" /\ req'[w].id = id
      BY <1>1 DEF Known
    <2>1. CASE \E w \in Threads : req[w].at = "answer" /\ req[w].id = id
      <3>1. PICK w \in Threads : req[w].at = "answer" /\ req[w].id = id
        BY <2>1
      <3>2. req'[w] = req[w]
        BY <1>2, <3>1
      <3> QED
        BY <3>1, <3>2
    <2> QED
      BY <2>1 DEF KeyInv, Known
  <1>6. OneOrderPerKey'
    BY <1>1 DEF KeyInv, OneOrderPerKey
  <1> QED
    BY <1>3, <1>4, <1>5, <1>6 DEF KeyInv

\* Nothing is stored yet under the key of a thread that is about to store.
LEMMA FirstOfItsKey ==
    ASSUME Base, KeyInv, NEW t \in Threads, req[t].at = "store", req[t].key # NoKey,
           NEW i \in DOMAIN orders
    PROVE  ~(orders[i].agent = req[t].agent /\ orders[i].key = req[t].key)
  <1> SUFFICES ASSUME orders[i].agent = req[t].agent, orders[i].key = req[t].key PROVE FALSE
    OBVIOUS
  <1>1. <<orders[i].agent, orders[i].key>> \notin DOMAIN idem
    BY DEF KeyInv, Fresh, Posting
  <1>2. PICK u \in Threads : req[u].at = "answer" /\ req[u].id = i
    BY <1>1 DEF KeyInv, Known
  <1>3. req[u].agent = req[t].agent /\ req[u].key = req[t].key /\ u # t
    BY <1>2 DEF Base, Answering
  <1> QED
    BY <1>2, <1>3 DEF KeyInv, Apart, Posting

LEMMA StoreKeys ==
    ASSUME Base, KeyInv, NEW t \in Threads, Store(t)
    PROVE  KeyInv'
  <1> DEFINE i == req[t].id
  <1>1. /\ req[t].at = "store" /\ i \notin DOMAIN orders
        /\ DOMAIN orders' = DOMAIN orders \cup {i}
        /\ orders'[i].agent = req[t].agent /\ orders'[i].key = req[t].key
        /\ \A id \in DOMAIN orders : orders'[id] = orders[id]
        /\ \A u \in Threads : u # t => req'[u] = req[u]
        /\ \/ req'[t].at = "idle" /\ req[t].key = NoKey
           \/ /\ req'[t].at = "answer" /\ req'[t].agent = req[t].agent
              /\ req'[t].key = req[t].key /\ req'[t].id = i
        /\ idem' = idem
    BY Stored
  <1>2. \A u \in Threads : Posting(u)' =>
            Posting(u) /\ req'[u].agent = req[u].agent /\ req'[u].key = req[u].key
    BY <1>1 DEF Posting
  <1>3. Apart'
    BY <1>2 DEF KeyInv, Apart
  <1>4. Fresh'
    BY <1>1, <1>2 DEF KeyInv, Fresh
  <1>5. Known'
    <2> SUFFICES ASSUME NEW id \in DOMAIN orders', orders'[id].key # NoKey
                 PROVE  \/ <<orders'[id].agent, orders'[id].key>> \in DOMAIN idem'
                        \/ \E w \in Threads : req'[w].at = "answer" /\ req'[w].id = id
      BY DEF Known
    <2>1. CASE id = i
      BY <1>1, <2>1
    <2>2. CASE id # i
      <3>1. id \in DOMAIN orders /\ orders'[id] = orders[id]
        BY <1>1, <2>2
      <3>2. CASE \E w \in Threads : req[w].at = "answer" /\ req[w].id = id
        <4>1. PICK w \in Threads : req[w].at = "answer" /\ req[w].id = id
          BY <3>2
        <4>2. req'[w] = req[w]
          BY <1>1, <4>1
        <4> QED
          BY <4>1, <4>2
      <3>3. CASE <<orders[id].agent, orders[id].key>> \in DOMAIN idem
        BY <1>1, <3>1, <3>3
      <3> QED
        BY <3>1, <3>2, <3>3 DEF KeyInv, Known
    <2> QED
      BY <2>1, <2>2
  <1>6. OneOrderPerKey'
    <2> SUFFICES ASSUME NEW x \in DOMAIN orders', NEW y \in DOMAIN orders',
                        orders'[x].key # NoKey, orders'[x].agent = orders'[y].agent,
                        orders'[x].key = orders'[y].key
                 PROVE  x = y
      BY DEF OneOrderPerKey
    <2>1. CASE x = i /\ y # i
      <3>1. y \in DOMAIN orders /\ orders'[y] = orders[y] /\ req[t].key # NoKey
        BY <1>1, <2>1
      <3> QED
        BY <1>1, <2>1, <3>1, FirstOfItsKey
    <2>2. CASE x # i /\ y = i
      <3>1. x \in DOMAIN orders /\ orders'[x] = orders[x] /\ req[t].key # NoKey
        BY <1>1, <2>2
      <3> QED
        BY <1>1, <2>2, <3>1, FirstOfItsKey
    <2>3. CASE x # i /\ y # i
      BY <1>1, <2>3 DEF KeyInv, OneOrderPerKey
    <2> QED
      BY <2>1, <2>2, <2>3
  <1> QED
    BY <1>3, <1>4, <1>5, <1>6 DEF KeyInv

LEMMA AnswerKeys ==
    ASSUME Base, KeyInv, NEW t \in Threads, Answer(t)
    PROVE  KeyInv'
  <1> DEFINE ak == <<req[t].agent, req[t].key>>
  <1>1. /\ req[t].at = "answer" /\ DOMAIN idem' = DOMAIN idem \cup {ak} /\ orders' = orders
        /\ req'[t].at = "idle" /\ \A u \in Threads : u # t => req'[u] = req[u]
    BY Answered
  <1>2. \A u \in Threads : Posting(u)' => u # t /\ Posting(u) /\ req'[u] = req[u]
    BY <1>1 DEF Posting
  <1>3. Apart'
    BY <1>2 DEF KeyInv, Apart
  <1>4. Fresh'
    <2> SUFFICES ASSUME NEW u \in Threads, Posting(u)', req'[u].key # NoKey
                 PROVE  <<req'[u].agent, req'[u].key>> \notin DOMAIN idem'
      BY DEF Fresh
    <2>1. u # t /\ Posting(u) /\ req'[u] = req[u] /\ Posting(t)
      BY <1>1, <1>2 DEF Posting
    <2>2. <<req[u].agent, req[u].key>> \notin DOMAIN idem
      BY <2>1 DEF KeyInv, Fresh
    <2>3. ~(req[u].key = req[t].key /\ req[u].agent = req[t].agent)
      BY <2>1 DEF KeyInv, Apart
    <2>4. <<req[u].agent, req[u].key>> # ak
      BY <2>3
    <2> QED
      BY <1>1, <2>1, <2>2, <2>4
  <1>5. Known'
    <2> SUFFICES ASSUME NEW id \in DOMAIN orders, orders[id].key # NoKey
                 PROVE  \/ <<orders[id].agent, orders[id].key>> \in DOMAIN idem'
                        \/ \E w \in Threads : req'[w].at = "answer" /\ req'[w].id = id
      BY <1>1 DEF Known
    <2>1. CASE <<orders[id].agent, orders[id].key>> \in DOMAIN idem
      BY <1>1, <2>1
    <2>2. CASE \E w \in Threads : req[w].at = "answer" /\ req[w].id = id
      <3>1. PICK w \in Threads : req[w].at = "answer" /\ req[w].id = id
        BY <2>2
      <3>2. CASE w = t
        <4>1. orders[id].agent = req[t].agent /\ orders[id].key = req[t].key
          BY <3>1, <3>2 DEF Base, Answering
        <4> QED
          BY <1>1, <4>1
      <3>3. CASE w # t
        BY <1>1, <3>1, <3>3
      <3> QED
        BY <3>2, <3>3
    <2> QED
      BY <2>1, <2>2 DEF KeyInv, Known
  <1>6. OneOrderPerKey'
    BY <1>1 DEF KeyInv, OneOrderPerKey
  <1> QED
    BY <1>3, <1>4, <1>5, <1>6 DEF KeyInv

LEMMA ResetKeys ==
    ASSUME ResetsAlone, Reset
    PROVE  KeyInv'
  <1>1. \A t \in Threads : req[t] = Idle
    BY DEF Reset
  <1>2. \A t \in Threads : req[t].at = "idle"
    BY <1>1 DEF Idle
  <1>3. orders' = << >> /\ req' = req
    BY DEF Reset
  <1>4. DOMAIN orders' = {} /\ \A t \in Threads : ~Posting(t)'
    BY <1>2, <1>3 DEF Posting
  <1> QED
    BY <1>4 DEF KeyInv, Apart, Fresh, Known, OneOrderPerKey

LEMMA KeyStep == Patient /\ ResetsAlone /\ Base /\ KeyInv /\ [Next]_vars => KeyInv'
  <1> SUFFICES ASSUME Patient, ResetsAlone, Base, KeyInv, [Next]_vars PROVE KeyInv'
    OBVIOUS
  <1>1. ASSUME NEW t \in Threads, NEW a \in Agents, NEW k \in AnyKey, Lookup(t, a, k) PROVE KeyInv'
    BY <1>1, LookupKeys
  <1>2. ASSUME NEW t \in Threads, Count(t) \/ Submit(t) \/ Number(t) PROVE KeyInv'
    BY <1>2, PostingKeys
  <1>3. ASSUME NEW t \in Threads, Store(t) PROVE KeyInv'
    BY <1>3, StoreKeys
  <1>4. ASSUME NEW t \in Threads, Answer(t) PROVE KeyInv'
    BY <1>4, AnswerKeys
  <1>5. ASSUME NEW t \in Threads, OtherStep(t) PROVE KeyInv'
    BY <1>5, OtherKeys
  <1>6. CASE Reset
    BY <1>6, ResetKeys
  <1>7. CASE (\E a \in Agents : Leave(a) \/ Join(a)) \/ UNCHANGED vars
    <2>1. UNCHANGED <<orders, idem, req>>
      BY <1>7 DEF Leave, Join, rest, vars
    <2>2. \A u \in Threads : Posting(u)' => Posting(u)
      BY <2>1 DEF Posting
    <2> QED
      BY <2>1, <2>2, KeysAside
  <1> QED
    BY <1>1, <1>2, <1>3, <1>4, <1>5, <1>6, <1>7 DEF Next, Request, OtherStep, AnyKey

-----------------------------------------------------------------------------
(* An agent's orders within its limit, when nobody registers twice *)

LEMMA Finite ==
    ASSUME Counted, NEW a
    PROVE  /\ IsFiniteSet(Resting(a)) /\ IsFiniteSet(Flight(a))
           /\ Cardinality(Resting(a)) \in Nat /\ Cardinality(Flight(a)) \in Nat
  <1>1. Resting(a) \in SUBSET DOMAIN orders /\ Flight(a) \in SUBSET Threads
    BY DEF Resting, Flight
  <1>2. IsFiniteSet(DOMAIN orders) /\ IsFiniteSet(Threads)
    BY GatewayAssumption DEF Counted
  <1>3. IsFiniteSet(Resting(a)) /\ IsFiniteSet(Flight(a))
    BY <1>1, <1>2, FS_Subset
  <1> QED
    BY <1>3, FS_CardinalityType

\* No order of an agent that stays is added, and none sets out.
LEMMA LimitAside ==
    ASSUME Base, LimitInv, UNCHANGED <<members, gone>>, DOMAIN orders' = DOMAIN orders,
           \A i \in DOMAIN orders : /\ orders'[i].agent = orders[i].agent
                                    /\ orders'[i].status = "resting" => orders[i].status = "resting",
           count' \in [Agents -> Counts], \A a \in members : count'[a].open = count[a].open,
           \A u \in Threads : Posting(u)' => req'[u].agent \in members \cup gone,
           \A u \in Threads : req'[u].at \in OnTheWay =>
               req[u].at \in OnTheWay /\ req'[u].agent = req[u].agent
    PROVE  LimitInv'
  <1>1. Seen'
    BY DEF LimitInv, Seen
  <1>2. ASSUME NEW a \in members
        PROVE  /\ Cardinality(Resting(a)') + Cardinality(Flight(a)')
                      =< Cardinality(Resting(a)) + Cardinality(Flight(a))
               /\ Cardinality(Resting(a)') \in Nat /\ Cardinality(Flight(a)') \in Nat
    <2>1. Resting(a)' \in SUBSET Resting(a)
      BY DEF Resting
    <2>2. Flight(a)' \in SUBSET Flight(a)
      BY DEF Flight
    <2>3. /\ IsFiniteSet(Resting(a)) /\ IsFiniteSet(Flight(a))
          /\ Cardinality(Resting(a)) \in Nat /\ Cardinality(Flight(a)) \in Nat
      BY Finite DEF LimitInv
    <2>4. /\ Cardinality(Resting(a)') =< Cardinality(Resting(a)) /\ IsFiniteSet(Resting(a)')
          /\ Cardinality(Flight(a)') =< Cardinality(Flight(a)) /\ IsFiniteSet(Flight(a)')
      BY <2>1, <2>2, <2>3, FS_Subset
    <2>5. Cardinality(Resting(a)') \in Nat /\ Cardinality(Flight(a)') \in Nat
      BY <2>4, FS_CardinalityType
    <2> QED
      BY <2>3, <2>4, <2>5
  <1>3. Counted'
    <2> SUFFICES ASSUME NEW a \in members
                 PROVE  /\ Cardinality(Resting(a)') + Cardinality(Flight(a)') =< count'[a].open
                        /\ count'[a].open =< MaxOpen
      BY DEF LimitInv, Counted
    <2>1. /\ Cardinality(Resting(a)) + Cardinality(Flight(a)) =< count[a].open
          /\ count[a].open =< MaxOpen /\ count'[a].open = count[a].open
      BY DEF LimitInv, Counted
    <2>2. Cardinality(Resting(a)') + Cardinality(Flight(a)')
              =< Cardinality(Resting(a)) + Cardinality(Flight(a))
      BY <1>2
    <2>3. Cardinality(Resting(a)) \in Nat /\ Cardinality(Flight(a)) \in Nat
      BY Finite DEF LimitInv
    <2>4. Cardinality(Resting(a)') \in Nat /\ Cardinality(Flight(a)') \in Nat
      BY <1>2
    <2>5. count[a].open \in Nat
      BY DEF Base, Typed, LimitInv, Counted, Counts
    <2> QED
      BY <2>1, <2>2, <2>3, <2>4, <2>5
  <1> QED
    BY <1>1, <1>3 DEF LimitInv

LEMMA OneMore ==
    ASSUME NEW c \in Counts
    PROVE  /\ [c EXCEPT !.order = @ + 1, !.open = @ + 1] \in Counts
           /\ [c EXCEPT !.order = @ + 1, !.open = @ + 1].open = c.open + 1
  <1>1. c.order \in Nat /\ c.decision \in Nat /\ c.open \in Nat
    BY DEF Counts
  <1>2. c.order + 1 \in Nat /\ c.open + 1 \in Nat
    BY <1>1
  <1> QED
    BY <1>1, <1>2 DEF Counts

\* An order is counted before it sets out.
LEMMA LimitCount ==
    ASSUME Base, LimitInv, NEW t \in Threads, Count(t)
    PROVE  LimitInv'
  <1> DEFINE b == req[t].agent
  <1>1. Posting(t) /\ req[t].at = "count" /\ UNCHANGED <<members, gone, orders>>
    BY DEF Count, Posting, rest
  <1>2. b \in Agents
    BY <1>1, Shapes DEF Base, Typed
  <1>3. CASE Ends(t) /\ UNCHANGED count
    <2>1. req'[t].at = "idle" /\ \A u \in Threads : u # t => req'[u] = req[u]
      BY <1>3, Ending DEF Base
    <2>2. \A u \in Threads : Posting(u)' => req'[u].agent \in members \cup gone
      BY <2>1 DEF Posting, LimitInv, Seen
    <2>3. \A u \in Threads : req'[u].at \in OnTheWay => req[u].at \in OnTheWay /\ req'[u].agent = req[u].agent
      BY <2>1 DEF OnTheWay
    <2>4. count' \in [Agents -> Counts] /\ \A a \in members : count'[a].open = count[a].open
      BY <1>3 DEF LimitInv, Counted
    <2> QED
      BY <1>1, <2>2, <2>3, <2>4, LimitAside
  <1>4. CASE ~(Ends(t) /\ UNCHANGED count)
    <2>1. /\ Authenticated(b) /\ ~(count[b].open >= MaxOpen) /\ Goes(t, "submit")
          /\ count' = [count EXCEPT ![b].order = @ + 1, ![b].open = @ + 1]
      BY <1>4 DEF Count
    <2>2. /\ req'[t].at = "submit" /\ req'[t].agent = b
          /\ \A u \in Threads : u # t => req'[u] = req[u]
      BY <1>1, <2>1, Going DEF Base
    <2>3. count[b] \in Counts /\ count[b].open \in Nat
      BY <1>2 DEF LimitInv, Counted, Counts
    <2>4. /\ [count[b] EXCEPT !.order = @ + 1, !.open = @ + 1] \in Counts
          /\ [count[b] EXCEPT !.order = @ + 1, !.open = @ + 1].open = count[b].open + 1
      BY <2>3, OneMore
    <2>5. /\ count' \in [Agents -> Counts] /\ count'[b].open = count[b].open + 1
          /\ \A a \in Agents : a # b => count'[a] = count[a]
      BY <1>2, <2>1, <2>4 DEF LimitInv, Counted
    <2>6. Seen'
      BY <1>1, <2>1, <2>2 DEF LimitInv, Seen, Posting, Authenticated
    <2>7. ASSUME NEW a \in members
          PROVE  /\ Cardinality(Resting(a)') + Cardinality(Flight(a)') =< count'[a].open
                 /\ count'[a].open =< MaxOpen
      <3>1. Resting(a)' = Resting(a)
        BY <1>1 DEF Resting
      <3>2. /\ IsFiniteSet(Flight(a))
            /\ Cardinality(Resting(a)) \in Nat /\ Cardinality(Flight(a)) \in Nat
        BY Finite DEF LimitInv
      <3>3. /\ Cardinality(Resting(a)) + Cardinality(Flight(a)) =< count[a].open
            /\ count[a].open =< MaxOpen
        BY DEF LimitInv, Counted
      <3>4. CASE a = b
        <4>1. Flight(a)' = Flight(a) \cup {t} /\ t \notin Flight(a)
          BY <1>1, <2>2, <3>4 DEF Flight, OnTheWay
        <4>2. Cardinality(Flight(a)') = Cardinality(Flight(a)) + 1
          BY <3>2, <4>1, FS_AddElement
        <4>3. count[a].open + 1 =< MaxOpen /\ count[a].open \in Nat
          BY <2>1, <2>3, <3>4, GatewayAssumption
        <4>4. count'[a].open = count[a].open + 1
          BY <2>5, <3>4
        <4> QED
          BY <3>1, <3>2, <3>3, <4>2, <4>3, <4>4
      <3>5. CASE a # b
        <4>1. Flight(a)' = Flight(a)
          BY <1>1, <2>2, <3>5 DEF Flight, OnTheWay
        <4>2. a \in Agents
          BY DEF Base, Typed
        <4> QED
          BY <2>5, <3>1, <3>3, <3>5, <4>1, <4>2
      <3> QED
        BY <3>4, <3>5
    <2>8. Counted'
      BY <1>1, <2>5, <2>7 DEF LimitInv, Counted
    <2> QED
      BY <2>6, <2>8 DEF LimitInv
  <1> QED
    BY <1>3, <1>4

\* An order that is stored was on its way until then.
LEMMA LimitStore ==
    ASSUME Base, LimitInv, NEW t \in Threads, Store(t)
    PROVE  LimitInv'
  <1> DEFINE i == req[t].id
             b == req[t].agent
  <1>1. /\ req[t].at = "store" /\ i \notin DOMAIN orders
        /\ DOMAIN orders' = DOMAIN orders \cup {i} /\ orders'[i].agent = b
        /\ \A id \in DOMAIN orders : orders'[id] = orders[id]
        /\ \A u \in Threads : u # t => req'[u] = req[u]
        /\ \/ req'[t].at = "idle"
           \/ req'[t].at = "answer" /\ req'[t].agent = b
        /\ members' = members
    BY Stored
  <1>2. gone' = gone /\ count' = count
    BY DEF Store, table
  <1>3. Posting(t) /\ b \in members \cup gone
    BY <1>1 DEF LimitInv, Seen, Posting
  <1>4. Seen'
    BY <1>1, <1>2, <1>3 DEF LimitInv, Seen, Posting
  <1>5. ASSUME NEW a \in members
        PROVE  /\ Cardinality(Resting(a)') + Cardinality(Flight(a)') =< count[a].open
               /\ count[a].open =< MaxOpen
    <2>1. /\ IsFiniteSet(Resting(a)) /\ IsFiniteSet(Flight(a))
          /\ Cardinality(Resting(a)) \in Nat /\ Cardinality(Flight(a)) \in Nat
      BY Finite DEF LimitInv
    <2>2. /\ Cardinality(Resting(a)) + Cardinality(Flight(a)) =< count[a].open
          /\ count[a].open =< MaxOpen /\ count[a].open \in Nat
      BY DEF LimitInv, Counted, Counts, Base, Typed
    <2>3. CASE a = b
      <3>1. Resting(a)' \in SUBSET (Resting(a) \cup {i}) /\ i \notin Resting(a)
        BY <1>1 DEF Resting
      <3>2. Flight(a)' = Flight(a) \ {t} /\ t \in Flight(a)
        BY <1>1, <2>3 DEF Flight, OnTheWay
      <3>3. IsFiniteSet(Resting(a) \cup {i})
            /\ Cardinality(Resting(a) \cup {i}) = Cardinality(Resting(a)) + 1
        BY <2>1, <3>1, FS_AddElement
      <3>4. Cardinality(Resting(a)') =< Cardinality(Resting(a)) + 1 /\ Cardinality(Resting(a)') \in Nat
        BY <3>1, <3>3, FS_Subset, FS_CardinalityType
      <3>5. Cardinality(Flight(a)') = Cardinality(Flight(a)) - 1
        BY <2>1, <3>2, FS_RemoveElement
      <3> QED
        BY <2>1, <2>2, <3>4, <3>5
    <2>4. CASE a # b
      <3>1. Resting(a)' = Resting(a) /\ Flight(a)' = Flight(a)
        BY <1>1, <2>4 DEF Resting, Flight, OnTheWay
      <3> QED
        BY <2>2, <3>1
    <2> QED
      BY <2>3, <2>4
  <1>6. IsFiniteSet(DOMAIN orders')
    BY <1>1, FS_AddElement DEF LimitInv, Counted
  <1>7. Counted'
    BY <1>1, <1>2, <1>5, <1>6 DEF LimitInv, Counted
  <1> QED
    BY <1>4, <1>7 DEF LimitInv

\* A post goes on or ends, or begins with an agent of the table.
LEMMA LimitPost ==
    ASSUME Base, LimitInv, NEW t \in Threads,
           \/ Submit(t) \/ Number(t) \/ Answer(t)
           \/ \E a \in Agents, k \in AnyKey : Lookup(t, a, k)
    PROVE  LimitInv'
  <1>1. UNCHANGED <<members, gone, count, orders>>
    BY DEF Submit, Number, Answer, Lookup, table, rest
  <1>2. /\ \A u \in Threads : u # t => req'[u] = req[u]
        /\ Posting(t)' => req'[t].agent \in members \cup gone
        /\ req'[t].at \in OnTheWay => req[t].at \in OnTheWay /\ req'[t].agent = req[t].agent
    <2>1. CASE Submit(t)
      <3>1. Posting(t) /\ req[t].at = "submit" /\ Goes(t, "number")
        BY <2>1 DEF Submit, Posting
      <3> QED
        BY <3>1, Going DEF Base, LimitInv, Seen, OnTheWay
    <2>2. CASE Number(t)
      <3>1. req[t].at = "number" /\ req' = [req EXCEPT ![t].at = "store", ![t].id = nextId]
        BY <2>2 DEF Number
      <3>2. req[t] \in Posts /\ req[t].agent \in members \cup gone
        BY <3>1, Shapes DEF Base, Typed, Posting, LimitInv, Seen
      <3>3. req'[t].agent = req[t].agent /\ \A u \in Threads : u # t => req'[u] = req[u]
        BY <3>1, <3>2 DEF Base, Typed, Posts
      <3> QED
        BY <3>1, <3>2, <3>3 DEF OnTheWay
    <2>3. CASE Answer(t)
      BY <2>3, Answered DEF Posting, OnTheWay
    <2>4. CASE \E a \in Agents, k \in AnyKey : Lookup(t, a, k)
      <3>1. PICK a \in Agents, k \in AnyKey : Lookup(t, a, k)
        BY <2>4
      <3>2. a \in members /\ req' = [req EXCEPT ![t] = PostAt(a, k, "count", 0)]
        BY <3>1 DEF Lookup, Authenticated
      <3> QED
        BY <3>2 DEF Base, Typed, PostAt, OnTheWay
    <2> QED
      BY <2>1, <2>2, <2>3, <2>4
  <1>3. \A u \in Threads : Posting(u)' => req'[u].agent \in members \cup gone
    BY <1>2 DEF LimitInv, Seen, Posting
  <1>4. \A u \in Threads : req'[u].at \in OnTheWay =>
            req[u].at \in OnTheWay /\ req'[u].agent = req[u].agent
    BY <1>2
  <1>5. count' \in [Agents -> Counts] /\ \A a \in members : count'[a].open = count[a].open
    BY <1>1 DEF LimitInv, Counted
  <1> QED
    BY <1>1, <1>3, <1>4, <1>5, LimitAside

\* Decisions and the end of a step change other counts.
LEMMA OtherCounts ==
    ASSUME Base, LimitInv, NEW t \in Threads, OtherStep(t)
    PROVE  /\ UNCHANGED <<members, gone>> /\ count' \in [Agents -> Counts]
           /\ \A a \in Agents : count'[a].open = count[a].open
  <1>1. UNCHANGED <<members, gone>>
    BY DEF OtherStep, Decide, DecisionSubmits, StepBegins, Publish, CountersReset, CancelReads,
           CancelWrites, table
  <1>2. count \in [Agents -> Counts]
    BY DEF LimitInv, Counted
  <1>3. CASE \E b \in Agents : Decide(t, b)
    <2>1. PICK b \in Agents : Decide(t, b)
      BY <1>3
    <2>2. count[b] \in Counts /\ count' = [count EXCEPT ![b].decision = @ + 1]
      BY <1>2, <2>1 DEF Decide
    <2>3. /\ [count[b] EXCEPT !.decision = @ + 1] \in Counts
          /\ [count[b] EXCEPT !.decision = @ + 1].open = count[b].open
      BY <2>2 DEF Counts
    <2> QED
      BY <1>1, <1>2, <2>2, <2>3
  <1>4. CASE CountersReset(t)
    <2> DEFINE b == Min(req[t].todo)
    <2>1. ASSUME ~UNCHANGED count
          PROVE  b \in members /\ count' = [count EXCEPT ![b].order = 0, ![b].decision = 0]
      <3>1. ~(Ends(t) /\ UNCHANGED count)
        BY <2>1
      <3>2. b \in members
        BY <1>4, <3>1 DEF CountersReset
      <3>3. count' = [count EXCEPT ![b].order = 0, ![b].decision = 0]
        BY <1>4, <3>1 DEF CountersReset
      <3> QED
        BY <3>2, <3>3
    <2>2. CASE b \in members /\ count' = [count EXCEPT ![b].order = 0, ![b].decision = 0]
      <3>1. count[b] \in Counts
        BY <1>2, <2>2 DEF Base, Typed
      <3>2. /\ [count[b] EXCEPT !.order = 0, !.decision = 0] \in Counts
            /\ [count[b] EXCEPT !.order = 0, !.decision = 0].open = count[b].open
        BY <3>1 DEF Counts
      <3> QED
        BY <1>1, <1>2, <2>2, <3>2
    <2> QED
      BY <1>1, <1>2, <2>1, <2>2
  <1>5. CASE UNCHANGED count
    BY <1>1, <1>2, <1>5
  <1> QED
    BY <1>3, <1>4, <1>5 DEF OtherStep, DecisionSubmits, StepBegins, Publish, CancelReads,
        CancelWrites, table

LEMMA LimitOther ==
    ASSUME Base, LimitInv, NEW t \in Threads, OtherStep(t)
    PROVE  LimitInv'
  <1>1. /\ ~Posting(t)' /\ \A u \in Threads : u # t => req'[u] = req[u]
        /\ DOMAIN orders' = DOMAIN orders
        /\ \A i \in DOMAIN orders : orders'[i].agent = orders[i].agent
    BY OtherMoves
  <1>2. \A i \in DOMAIN orders : orders'[i].status = "resting" => orders[i].status = "resting"
    <2>1. CASE CancelWrites(t)
      BY <2>1, Cancelled
    <2>2. CASE UNCHANGED orders
      BY <2>2
    <2> QED
      BY <2>1, <2>2 DEF OtherStep, Decide, DecisionSubmits, StepBegins, Publish, CountersReset,
          CancelReads, rest
  <1>3. /\ UNCHANGED <<members, gone>> /\ count' \in [Agents -> Counts]
        /\ \A a \in Agents : count'[a].open = count[a].open
    BY OtherCounts
  <1>4. \A a \in members : count'[a].open = count[a].open
    BY <1>3 DEF Base, Typed
  <1>5. \A u \in Threads : Posting(u)' => req'[u].agent \in members \cup gone
    BY <1>1 DEF LimitInv, Seen, Posting
  <1>6. \A u \in Threads : req'[u].at \in OnTheWay =>
            req[u].at \in OnTheWay /\ req'[u].agent = req[u].agent
    BY <1>1 DEF Posting, OnTheWay
  <1> QED
    BY <1>1, <1>2, <1>3, <1>4, <1>5, <1>6, LimitAside

LEMMA LimitReset ==
    ASSUME ResetsAlone, Base, LimitInv, Reset
    PROVE  LimitInv'
  <1>1. \A t \in Threads : req[t].at = "idle"
    <2>1. \A t \in Threads : req[t] = Idle
      BY DEF Reset
    <2> QED
      BY <2>1 DEF Idle
  <1>2. /\ DOMAIN orders' = {} /\ IsFiniteSet({}) /\ Cardinality({}) = 0
        /\ UNCHANGED <<members, gone, req>>
    <2>1. orders' = << >> /\ UNCHANGED <<members, gone, req>>
      BY DEF Reset
    <2> QED
      BY <2>1, FS_EmptySet
  <1>3. count \in [Agents -> Counts]
    BY DEF LimitInv, Counted
  <1>4. ASSUME NEW a \in Agents
        PROVE  /\ [count[a] EXCEPT !.order = 0, !.decision = 0] \in Counts
               /\ [count[a] EXCEPT !.order = 0, !.decision = 0].open = count[a].open
    <2>1. count[a] \in Counts
      BY <1>3
    <2> QED
      BY <2>1 DEF Counts
  <1>5. count' \in [Agents -> Counts] /\ \A a \in Agents : count'[a].open = count[a].open
    <2>1. count' = [a \in Agents |-> IF a \in members
                                     THEN [count[a] EXCEPT !.order = 0, !.decision = 0]
                                     ELSE count[a]]
      BY DEF Reset
    <2> QED
      BY <1>3, <1>4, <2>1
  <1>6. Seen'
    BY <1>1, <1>2 DEF Seen, Posting
  <1>7. ASSUME NEW a \in members
        PROVE  /\ Cardinality(Resting(a)') + Cardinality(Flight(a)') =< count'[a].open
               /\ count'[a].open =< MaxOpen
    <2>1. Resting(a)' = {} /\ Flight(a)' = {}
      BY <1>1, <1>2 DEF Resting, Flight, OnTheWay
    <2>2. a \in Agents /\ count[a].open =< MaxOpen /\ count[a].open \in Nat
      BY <1>3 DEF Base, Typed, LimitInv, Counted, Counts
    <2>3. count'[a].open = count[a].open
      BY <1>5, <2>2
    <2> QED
      BY <1>2, <2>1, <2>2, <2>3
  <1>8. Counted'
    BY <1>1, <1>2, <1>5, <1>7 DEF Counted
  <1> QED
    BY <1>6, <1>8 DEF LimitInv

\* Who leaves takes no order along, and who joins was never seen before.
LEMMA LimitTable ==
    ASSUME ~MayRejoin, Base, LimitInv, NEW b \in Agents, Leave(b) \/ Join(b)
    PROVE  LimitInv'
  <1>1. UNCHANGED <<orders, req>>
    BY DEF Leave, Join, rest
  <1>2. \A a : Resting(a)' = Resting(a) /\ Flight(a)' = Flight(a)
    BY <1>1 DEF Resting, Flight
  <1>3. /\ members \cup gone \subseteq members' \cup gone'
        /\ (members' = members \ {b} /\ count' = count) \/ Join(b)
    BY DEF Leave, Join
  <1>4. Seen'
    BY <1>1, <1>3 DEF LimitInv, Seen, Posting
  <1>5. CASE members' = members \ {b} /\ count' = count
    <2>1. Counted'
      BY <1>1, <1>2, <1>5 DEF LimitInv, Counted
    <2> QED
      BY <1>4, <2>1 DEF LimitInv
  <1>6. CASE Join(b)
    <2>1. b \notin members \cup gone /\ members' = members \cup {b}
          /\ count' = [count EXCEPT ![b] = Zero]
      BY <1>6 DEF Join
    <2>2. Zero \in Counts /\ Zero.open = 0
      BY DEF Zero, Counts
    <2>3. /\ count' \in [Agents -> Counts] /\ count'[b].open = 0
          /\ \A a \in members : count'[a] = count[a]
      BY <2>1, <2>2 DEF LimitInv, Counted, Base, Typed
    <2>4. Resting(b) = {}
      BY <2>1 DEF Resting, LimitInv, Seen
    <2>5. Flight(b) = {}
      BY <2>1 DEF Flight, OnTheWay, LimitInv, Seen, Posting
    <2>6. Cardinality({}) = 0 /\ MaxOpen \in Nat
      BY FS_EmptySet, GatewayAssumption
    <2>7. ASSUME NEW a \in members'
          PROVE  /\ Cardinality(Resting(a)') + Cardinality(Flight(a)') =< count'[a].open
                 /\ count'[a].open =< MaxOpen
      <3>1. CASE a = b
        BY <1>2, <2>3, <2>4, <2>5, <2>6, <3>1
      <3>2. CASE a # b
        BY <1>2, <2>1, <2>3, <2>7, <3>2 DEF LimitInv, Counted
      <3> QED
        BY <3>1, <3>2
    <2>8. Counted'
      BY <1>1, <2>3, <2>7 DEF LimitInv, Counted
    <2> QED
      BY <1>4, <2>8 DEF LimitInv
  <1> QED
    BY <1>3, <1>5, <1>6

LEMMA LimitStart == Init => LimitInv
  <1> SUFFICES ASSUME Init PROVE LimitInv
    OBVIOUS
  <1>1. DOMAIN orders = {} /\ members = {} /\ \A t \in Threads : req[t].at = "idle"
    BY DEF Init, Idle
  <1>2. Zero \in Counts /\ IsFiniteSet({})
    BY FS_EmptySet DEF Zero, Counts
  <1>3. count \in [Agents -> Counts]
    BY <1>2 DEF Init
  <1> QED
    BY <1>1, <1>2, <1>3 DEF LimitInv, Seen, Counted, Posting

LEMMA LimitStep == ~MayRejoin /\ ResetsAlone /\ Base /\ LimitInv /\ [Next]_vars => LimitInv'
  <1> SUFFICES ASSUME ~MayRejoin, ResetsAlone, Base, LimitInv, [Next]_vars PROVE LimitInv'
    OBVIOUS
  <1>1. ASSUME NEW t \in Threads,
               \/ Submit(t) \/ Number(t) \/ Answer(t)
               \/ \E a \in Agents, k \in AnyKey : Lookup(t, a, k)
        PROVE  LimitInv'
    BY <1>1, LimitPost
  <1>2. ASSUME NEW t \in Threads, Count(t) PROVE LimitInv'
    BY <1>2, LimitCount
  <1>3. ASSUME NEW t \in Threads, Store(t) PROVE LimitInv'
    BY <1>3, LimitStore
  <1>4. ASSUME NEW t \in Threads, OtherStep(t) PROVE LimitInv'
    BY <1>4, LimitOther
  <1>5. CASE Reset
    BY <1>5, LimitReset
  <1>6. ASSUME NEW a \in Agents, Leave(a) \/ Join(a) PROVE LimitInv'
    BY <1>6, LimitTable
  <1>7. CASE UNCHANGED vars
    <2>1. UNCHANGED <<members, gone, count, orders, req>>
      BY <1>7 DEF vars
    <2>2. Seen'
      BY <2>1 DEF LimitInv, Seen, Posting
    <2>3. Counted'
      BY <2>1 DEF LimitInv, Counted, Resting, Flight
    <2> QED
      BY <2>2, <2>3 DEF LimitInv
  <1> QED
    BY <1>1, <1>2, <1>3, <1>4, <1>5, <1>6, <1>7 DEF Next, Request, OtherStep, AnyKey

-----------------------------------------------------------------------------
(* What a tick takes from an agent, and the types.  A thread that has        *)
(* emptied the inbox sets the agent's counts back once, and then empties the *)
(* inbox before it does so again.                                            *)

\* Orders that are counted and not yet submitted; threads that still set the
\* counts back; what may be counted before one of them does.
Waiting(a) == {t \in Threads : req[t].at = "submit" /\ req[t].agent = a}
Holding(a) == {t \in Threads : req[t].at = "counters" /\ a \in req[t].todo}
Share(a) == IF Holding(a) = Threads THEN 0 ELSE OrdersPerTick - count[a].order
Taken(a) == inbox[a] + Cardinality(Waiting(a)) + OrdersPerTick * Cardinality(Holding(a))
                + Share(a) =< OrdersPerTick * Cardinality(Threads) + 1

Tally ==
    /\ inbox \in [Agents -> Nat]
    /\ \A a \in Agents : /\ count[a].order =< OrdersPerTick
                         /\ count[a].decision =< DecisionsPerTick
                         /\ Taken(a)
                         /\ a \notin members \cup gone => count[a] = Zero

\* Threads whose order has no number yet.
Unnumbered == {t \in Threads : req[t].at \in {"count", "submit", "number"}}
Bounds ==
    /\ tick \in 0 .. MaxTick /\ resets \in 0 .. MaxResets /\ gone \subseteq Agents
    /\ nextId >= 1 /\ nextId + Cardinality(Unnumbered) =< MaxId + 1
    /\ \A id \in DOMAIN orders : id >= 1
    /\ DOMAIN idem \subseteq Agents \X Keys
    /\ \A t \in Threads : /\ req[t].at = "store" => req[t].id >= 1
                          /\ req[t].at = "answer" => req[t].key \in Keys

LEMMA ThreadsFinite ==
    ASSUME NEW S \in SUBSET Threads
    PROVE  /\ IsFiniteSet(S) /\ Cardinality(S) \in Nat /\ Cardinality(Threads) \in Nat \ {0}
           /\ Cardinality(S) =< Cardinality(Threads)
           /\ S # Threads => Cardinality(S) =< Cardinality(Threads) - 1
  <1>1. /\ IsFiniteSet(S) /\ Cardinality(S) =< Cardinality(Threads)
        /\ Cardinality(S) = Cardinality(Threads) => S = Threads
    BY FS_Subset, GatewayAssumption
  <1>2. Cardinality(S) \in Nat /\ Cardinality(Threads) \in Nat
    BY <1>1, FS_CardinalityType, GatewayAssumption
  <1>3. Cardinality(Threads) # 0
    BY FS_EmptySet, GatewayAssumption
  <1> QED
    BY <1>1, <1>2, <1>3

LEMMA MinIsIn ==
    ASSUME NEW S, S \subseteq Nat, S # {}
    PROVE  Min(S) \in S
  <1> DEFINE R == OpToRel(<, Nat)
  <1>1. IsWellFoundedOn(R, Nat)
    BY NatLessThanWellFounded
  <1>2. PICK x \in S : \A y \in S : ~(<<y, x>> \in R)
    <2> HIDE DEF R
    <2> QED BY <1>1, WFMin
  <1>3. ASSUME NEW y \in S PROVE x =< y
    <2>1. ~(<<y, x>> \in R) /\ x \in Nat /\ y \in Nat
      BY <1>2
    <2>2. ASSUME y < x PROVE FALSE
      <3>1. <<y, x>> \in R
        BY <2>1, <2>2 DEF OpToRel
      <3> HIDE DEF R
      <3> QED BY <2>1, <3>1
    <2> HIDE DEF R
    <2> QED BY <2>1, <2>2
  <1>4. \E z \in S : \A y \in S : z =< y
    BY <1>3
  <1> QED BY <1>4 DEF Min

\* One more or one fewer thread, and what is left when as many threads hold a limit.
LEMMA Limits ==
    ASSUME NEW k \in Nat \ {0}, NEW h \in Nat, NEW d \in Nat
    PROVE  /\ k * h \in Nat /\ k * (h + 1) = k * h + k /\ k * (h + d) = k * h + k * d
           /\ d # 0 => d + k =< k * d + 1
  <1>1. k * h \in Nat /\ k * (h + 1) = k * h + k /\ k * (h + d) = k * h + k * d
    OBVIOUS
  <1>2. ASSUME d # 0 PROVE d + k =< k * d + 1
    <2>1. k - 1 \in Nat /\ d - 1 \in Nat
      BY <1>2
    <2>2. (k - 1) * (d - 1) >= 0
      BY <2>1
    <2>3. (k - 1) * (d - 1) = k * d - k - d + 1
      OBVIOUS
    <2> QED
      BY <2>2, <2>3
  <1> QED
    BY <1>1, <1>2

\* An inbox just emptied: the threads with an order on its way hold no limit.
LEMMA Emptied ==
    ASSUME NEW W \in SUBSET Threads, NEW H \in SUBSET Threads, W \cap H = {},
           NEW s \in 0 .. OrdersPerTick, H = Threads => s = 0
    PROVE  Cardinality(W) + OrdersPerTick * Cardinality(H) + s
               =< OrdersPerTick * Cardinality(Threads) + 1
  <1> DEFINE n == Cardinality(Threads)
             w == Cardinality(W)
             h == Cardinality(H)
             rest_ == Cardinality(Threads \ H)
  <1>1. /\ IsFiniteSet(Threads) /\ IsFiniteSet(H) /\ OrdersPerTick \in Nat \ {0}
        /\ n \in Nat \ {0} /\ w \in Nat /\ h \in Nat /\ rest_ \in Nat
    BY ThreadsFinite, GatewayAssumption
  <1>2. w =< rest_
    <2>1. W \in SUBSET (Threads \ H) /\ IsFiniteSet(Threads \ H)
      BY <1>1, FS_Difference
    <2> QED BY <2>1, FS_Subset
  <1>3. n = h + rest_
    <2>1. Threads = H \cup (Threads \ H) /\ H \cap (Threads \ H) = {}
      OBVIOUS
    <2>2. IsFiniteSet(Threads \ H)
      BY <1>1, FS_Difference
    <2>3. Cardinality(Threads) = h + rest_ - Cardinality(H \cap (Threads \ H))
      BY <1>1, <2>1, <2>2, FS_Union
    <2>4. Cardinality(H \cap (Threads \ H)) = 0
      BY <2>1, FS_EmptySet
    <2> QED BY <1>1, <2>3, <2>4
  <1> HIDE DEF n, w, h, rest_
  <1>4. OrdersPerTick * n = OrdersPerTick * h + OrdersPerTick * rest_ /\ OrdersPerTick * h \in Nat
    BY <1>1, <1>3, Limits
  <1>5. CASE H = Threads
    <2>1. Threads \ H = {} /\ s = 0
      BY <1>5
    <2>2. rest_ = 0
      BY <2>1, FS_EmptySet DEF rest_
    <2>3. OrdersPerTick * rest_ = 0
      BY <1>1, <2>2
    <2> QED
      BY <1>1, <1>2, <1>4, <2>1, <2>2, <2>3 DEF n, w, h
  <1>6. CASE H # Threads
    <2>1. rest_ # 0
      <3>1. Threads \ H # {} /\ IsFiniteSet(Threads \ H)
        BY <1>1, <1>6, FS_Difference
      <3> QED BY <3>1, FS_EmptySet DEF rest_
    <2>2. rest_ + OrdersPerTick =< OrdersPerTick * rest_ + 1
      BY <1>1, <2>1, Limits
    <2>3. OrdersPerTick * rest_ \in Nat /\ s \in Nat /\ s =< OrdersPerTick
      BY <1>1, Limits
    <2> QED
      BY <1>1, <1>2, <1>4, <2>2, <2>3 DEF n, w, h
  <1> QED
    BY <1>5, <1>6

\* What the tally needs to know of numbers.
LEMMA TallyFacts ==
    ASSUME Base, LimitInv, Tally, NEW a \in Agents
    PROVE  /\ count[a] \in Counts /\ count[a].order \in Nat /\ count[a].decision \in Nat
           /\ inbox[a] \in Nat /\ Cardinality(Waiting(a)) \in Nat /\ IsFiniteSet(Waiting(a))
           /\ Cardinality(Holding(a)) \in Nat /\ IsFiniteSet(Holding(a))
           /\ OrdersPerTick * Cardinality(Holding(a)) \in Nat
           /\ OrdersPerTick * Cardinality(Threads) \in Nat
           /\ Cardinality(Threads) \in Nat \ {0}
           /\ Share(a) \in 0 .. OrdersPerTick /\ OrdersPerTick \in Nat \ {0}
  <1>1. /\ count[a] \in Counts /\ inbox[a] \in Nat /\ count[a].order =< OrdersPerTick
        /\ OrdersPerTick \in Nat \ {0}
    BY GatewayAssumption DEF LimitInv, Counted, Tally
  <1>2. Waiting(a) \in SUBSET Threads /\ Holding(a) \in SUBSET Threads
    BY DEF Waiting, Holding
  <1>3. /\ IsFiniteSet(Waiting(a)) /\ Cardinality(Waiting(a)) \in Nat
        /\ IsFiniteSet(Holding(a)) /\ Cardinality(Holding(a)) \in Nat
        /\ Cardinality(Threads) \in Nat \ {0}
    BY <1>2, ThreadsFinite
  <1>4. count[a].order \in Nat /\ count[a].decision \in Nat
    BY <1>1 DEF Counts
  <1>5. Share(a) \in 0 .. OrdersPerTick
    BY <1>1, <1>4 DEF Share
  <1>6. /\ OrdersPerTick * Cardinality(Holding(a)) \in Nat
        /\ OrdersPerTick * Cardinality(Threads) \in Nat
    BY <1>1, <1>3, Limits
  <1> QED
    BY <1>1, <1>3, <1>4, <1>5, <1>6

\* One thread goes on, and neither submits nor sets counts back.
LEMMA TallyAside ==
    ASSUME Base, LimitInv, Tally, NEW t \in Threads,
           \A u \in Threads : u # t => req'[u] = req[u],
           UNCHANGED <<members, gone, inbox>>,
           req[t].at \notin {"submit", "counters"}, req'[t].at \notin {"submit", "counters"},
           \A a \in Agents : /\ count'[a].order = count[a].order
                             /\ count'[a].decision =< DecisionsPerTick
                             /\ count'[a] = count[a] \/ a \in members
    PROVE  Tally'
  <1>1. ASSUME NEW a \in Agents
        PROVE  /\ count'[a].order =< OrdersPerTick /\ count'[a].decision =< DecisionsPerTick
               /\ Taken(a)'
               /\ a \notin members \cup gone => count'[a] = Zero
    <2>1. Waiting(a)' = Waiting(a)
      BY DEF Waiting
    <2>2. Holding(a)' = Holding(a)
      BY DEF Holding
    <2>3. Taken(a)
      BY DEF Tally
    <2>4. Taken(a)'
      BY <2>1, <2>2, <2>3 DEF Taken, Share
    <2> QED
      BY <2>4 DEF Tally
  <1> QED
    BY <1>1 DEF Tally

LEMMA TallyCount ==
    ASSUME Base, LimitInv, Tally, NEW t \in Threads, Count(t)
    PROVE  Tally'
  <1> DEFINE b == req[t].agent
  <1>1. Posting(t) /\ req[t].at = "count" /\ UNCHANGED <<members, gone, inbox>>
    BY DEF Count, Posting, world
  <1>2. b \in Agents
    BY <1>1, Shapes DEF Base, Typed
  <1>3. CASE Ends(t) /\ UNCHANGED count
    <2>1. req'[t].at = "idle" /\ \A u \in Threads : u # t => req'[u] = req[u]
      BY <1>3, Ending DEF Base
    <2>2. \A a \in Agents : count[a].decision =< DecisionsPerTick
      BY DEF Tally
    <2> QED
      BY <1>1, <1>3, <2>1, <2>2, TallyAside
  <1>4. CASE ~(Ends(t) /\ UNCHANGED count)
    <2>1. /\ Authenticated(b) /\ ~(count[b].order >= OrdersPerTick) /\ Goes(t, "submit")
          /\ count' = [count EXCEPT ![b].order = @ + 1, ![b].open = @ + 1]
      BY <1>4 DEF Count
    <2>2. /\ req'[t].at = "submit" /\ req'[t].agent = b
          /\ \A u \in Threads : u # t => req'[u] = req[u]
      BY <1>1, <2>1, Going DEF Base
    <2>3. /\ count[b] \in Counts /\ count[b].order \in Nat /\ inbox[b] \in Nat
          /\ Cardinality(Waiting(b)) \in Nat /\ IsFiniteSet(Waiting(b))
          /\ OrdersPerTick * Cardinality(Holding(b)) \in Nat
          /\ OrdersPerTick * Cardinality(Threads) \in Nat /\ OrdersPerTick \in Nat
      BY <1>2, TallyFacts
    <2>4. /\ [count[b] EXCEPT !.order = @ + 1, !.open = @ + 1].order = count[b].order + 1
          /\ [count[b] EXCEPT !.order = @ + 1, !.open = @ + 1].decision = count[b].decision
      BY <2>3 DEF Counts
    <2>5. /\ count'[b].order = count[b].order + 1 /\ count'[b].decision = count[b].decision
          /\ \A a \in Agents : a # b => count'[a] = count[a]
      BY <1>2, <2>1, <2>4 DEF LimitInv, Counted
    <2>7. ASSUME NEW a \in Agents
          PROVE  /\ count'[a].order =< OrdersPerTick /\ count'[a].decision =< DecisionsPerTick
                 /\ Taken(a)'
                 /\ a \notin members \cup gone => count'[a] = Zero
      <3>1. Taken(a)
        BY DEF Tally
      <3>2. Holding(a)' = Holding(a) /\ Holding(a) # Threads
        <4>1. t \notin Holding(a)
          BY <1>1 DEF Holding
        <4>2. Holding(a)' = Holding(a)
          BY <1>1, <2>2 DEF Holding
        <4> QED BY <4>1, <4>2
      <3>3. CASE a = b
        <4>1. Waiting(a)' = Waiting(a) \cup {t} /\ t \notin Waiting(a)
          BY <1>1, <2>2, <3>3 DEF Waiting
        <4>2. Cardinality(Waiting(a)') = Cardinality(Waiting(a)) + 1
          BY <2>3, <3>3, <4>1, FS_AddElement
        <4>3. Taken(a)'
          BY <1>1, <2>3, <2>5, <3>1, <3>2, <3>3, <4>2 DEF Taken, Share
        <4>4. count[b].order + 1 =< OrdersPerTick
          BY <2>1, <2>3
        <4> QED
          BY <2>1, <2>5, <3>3, <4>3, <4>4 DEF Tally, Authenticated
      <3>4. CASE a # b
        <4>1. Waiting(a)' = Waiting(a)
          BY <1>1, <2>2, <3>4 DEF Waiting
        <4>2. Taken(a)'
          BY <1>1, <2>5, <3>1, <3>2, <3>4, <4>1 DEF Taken, Share
        <4> QED
          BY <2>5, <3>4, <4>2 DEF Tally
      <3> QED
        BY <3>3, <3>4
    <2> QED
      BY <1>1, <2>7 DEF Tally
  <1> QED
    BY <1>3, <1>4

LEMMA TallySubmit ==
    ASSUME Base, LimitInv, Tally, NEW t \in Threads, Submit(t)
    PROVE  Tally'
  <1> DEFINE b == req[t].agent
  <1>1. /\ Posting(t) /\ req[t].at = "submit" /\ UNCHANGED <<members, gone, count>>
        /\ inbox' = [inbox EXCEPT ![b] = @ + 1] /\ Goes(t, "number")
    BY DEF Submit, Posting, table
  <1>2. b \in Agents
    BY <1>1, Shapes DEF Base, Typed
  <1>3. req'[t].at = "number" /\ \A u \in Threads : u # t => req'[u] = req[u]
    BY <1>1, Going DEF Base
  <1>4. /\ inbox' \in [Agents -> Nat] /\ inbox'[b] = inbox[b] + 1
        /\ \A a \in Agents : a # b => inbox'[a] = inbox[a]
    BY <1>1, <1>2 DEF Tally
  <1>6. ASSUME NEW a \in Agents PROVE Taken(a)'
    <2>1. Taken(a)
      BY DEF Tally
    <2>2. Holding(a)' = Holding(a) /\ Share(a)' = Share(a)
      <3>1. Holding(a)' = Holding(a)
        BY <1>1, <1>3 DEF Holding
      <3> QED BY <1>1, <3>1 DEF Share
    <2>3. /\ inbox[a] \in Nat /\ Cardinality(Waiting(a)) \in Nat /\ IsFiniteSet(Waiting(a))
          /\ OrdersPerTick * Cardinality(Holding(a)) \in Nat
          /\ OrdersPerTick * Cardinality(Threads) \in Nat
          /\ Share(a) \in 0 .. OrdersPerTick /\ OrdersPerTick \in Nat
      BY TallyFacts
    <2>4. CASE a = b
      <3>1. Waiting(a)' = Waiting(a) \ {t} /\ t \in Waiting(a)
        BY <1>1, <1>3, <2>4 DEF Waiting
      <3>2. Cardinality(Waiting(a)') = Cardinality(Waiting(a)) - 1
        BY <2>3, <3>1, FS_RemoveElement
      <3> QED
        BY <1>1, <1>4, <2>1, <2>2, <2>3, <2>4, <3>2 DEF Taken
    <2>5. CASE a # b
      <3>1. Waiting(a)' = Waiting(a)
        BY <1>1, <1>3, <2>5 DEF Waiting
      <3> QED
        BY <1>1, <1>4, <2>1, <2>2, <2>5, <3>1 DEF Taken
    <2> QED
      BY <2>4, <2>5
  <1> QED
    BY <1>1, <1>4, <1>6 DEF Tally

\* PUBLISH empties the inbox; what other threads have counted is still to come.
LEMMA TallyPublish ==
    ASSUME Base, LimitInv, Tally, NEW t \in Threads, Publish(t)
    PROVE  Tally'
  <1>1. inbox' = [a \in Agents |-> 0] /\ UNCHANGED <<members, gone, count>>
    BY DEF Publish, table
  <1>2. ASSUME NEW a \in Agents PROVE Taken(a)'
    <2>1. /\ Waiting(a)' \in SUBSET Threads /\ Holding(a)' \in SUBSET Threads
          /\ Waiting(a)' \cap Holding(a)' = {}
      BY DEF Waiting, Holding
    <2>2. inbox'[a] = 0 /\ count'[a].order \in 0 .. OrdersPerTick
      BY <1>1, TallyFacts DEF Tally
    <2>3. Share(a)' \in 0 .. OrdersPerTick /\ (Holding(a)' = Threads => Share(a)' = 0)
      BY <2>2, GatewayAssumption DEF Share
    <2>4. /\ Cardinality(Waiting(a)') \in Nat /\ Cardinality(Holding(a)') \in Nat
          /\ OrdersPerTick \in Nat \ {0}
      BY <2>1, ThreadsFinite, GatewayAssumption
    <2>5. OrdersPerTick * Cardinality(Holding(a)') \in Nat
      BY <2>4, Limits
    <2>6. Cardinality(Waiting(a)') + OrdersPerTick * Cardinality(Holding(a)') + Share(a)'
              =< OrdersPerTick * Cardinality(Threads) + 1
      BY <2>1, <2>3, Emptied
    <2> QED
      BY <2>2, <2>3, <2>4, <2>5, <2>6 DEF Taken
  <1> QED
    BY <1>1, <1>2 DEF Tally

\* A thread that no longer holds a limit has given it, at most.
LEMMA Given ==
    ASSUME Base, LimitInv, Tally, NEW t \in Threads, NEW a \in Agents,
           Waiting(a)' = Waiting(a), Holding(a)' = Holding(a) \ {t}, t \in Holding(a),
           inbox' = inbox, count'[a].order \in Nat
    PROVE  Taken(a)'
  <1>1. /\ inbox[a] \in Nat /\ Cardinality(Waiting(a)) \in Nat
        /\ Cardinality(Holding(a)) \in Nat /\ IsFiniteSet(Holding(a))
        /\ OrdersPerTick * Cardinality(Threads) \in Nat
        /\ Share(a) \in 0 .. OrdersPerTick /\ OrdersPerTick \in Nat \ {0}
    BY TallyFacts
  <1>2. Cardinality(Holding(a)') = Cardinality(Holding(a)) - 1 /\ Cardinality(Holding(a)') \in Nat
    <2>1. IsFiniteSet(Holding(a)')
      BY <1>1, FS_Subset
    <2> QED BY <1>1, <2>1, FS_RemoveElement, FS_CardinalityType
  <1>3. /\ OrdersPerTick * Cardinality(Holding(a))
              = OrdersPerTick * Cardinality(Holding(a)') + OrdersPerTick
        /\ OrdersPerTick * Cardinality(Holding(a)') \in Nat
    <2>1. Cardinality(Holding(a)) = Cardinality(Holding(a)') + 1
      BY <1>1, <1>2
    <2> QED BY <1>1, <1>2, <2>1, Limits
  <1>4. Share(a)' =< OrdersPerTick /\ Share(a)' \in Int
    BY <1>1 DEF Share
  <1>5. Taken(a)
    BY DEF Tally
  <1> QED
    BY <1>1, <1>3, <1>4, <1>5 DEF Taken

\* The counts of one agent are set back, or the request ends.
LEMMA TallyCounters ==
    ASSUME Base, LimitInv, Tally, NEW t \in Threads, CountersReset(t)
    PROVE  Tally'
  <1> DEFINE b == Min(req[t].todo)
  <1>1. req[t].at = "counters" /\ UNCHANGED <<members, gone, inbox>>
    BY DEF CountersReset, world
  <1>2. req[t] \in [at : {"counters"}, todo : SUBSET Agents]
    BY <1>1 DEF Base, Typed, Requests, Posts, Cancels, Others
  <1>4. CASE Ends(t) /\ UNCHANGED count
    <2>1. req'[t].at = "idle" /\ \A u \in Threads : u # t => req'[u] = req[u]
      BY <1>4, Ending DEF Base
    <2>2. ASSUME NEW a \in Agents PROVE Taken(a)'
      <3>1. Waiting(a)' = Waiting(a)
        BY <1>1, <2>1 DEF Waiting
      <3>2. Holding(a)' = Holding(a) \ {t}
        BY <1>1, <2>1 DEF Holding
      <3>3. CASE t \in Holding(a)
        <4>1. count'[a].order \in Nat
          BY <1>4, TallyFacts
        <4> QED BY <1>1, <3>1, <3>2, <3>3, <4>1, Given
      <3>4. CASE t \notin Holding(a)
        <4>1. Holding(a)' = Holding(a) /\ Taken(a)
          BY <3>2, <3>4 DEF Tally
        <4> QED BY <1>1, <1>4, <3>1, <4>1 DEF Taken, Share
      <3> QED
        BY <3>3, <3>4
    <2> QED
      BY <1>1, <1>4, <2>2 DEF Tally
  <1>5. CASE ~(Ends(t) /\ UNCHANGED count)
    <2>1. /\ req[t].todo # {} /\ b \in members
          /\ count' = [count EXCEPT ![b].order = 0, ![b].decision = 0]
          /\ req' = [req EXCEPT ![t].todo = @ \ {b}]
      BY <1>5 DEF CountersReset
    <2>2. req[t].todo \subseteq Agents /\ Agents \subseteq Nat
      BY <1>2, GatewayAssumption
    <2>3. b \in req[t].todo /\ b \in Agents
      <3>1. req[t].todo \subseteq Nat
        BY <2>2
      <3> QED BY <2>1, <2>2, <3>1, MinIsIn
    <2> HIDE DEF b
    <2>4. /\ req'[t].at = "counters" /\ req'[t].todo = req[t].todo \ {b}
          /\ \A u \in Threads : u # t => req'[u] = req[u]
      BY <1>2, <2>1 DEF Base, Typed
    <2>5. count[b] \in Counts
      BY <2>3, TallyFacts
    <2>6. /\ [count[b] EXCEPT !.order = 0, !.decision = 0].order = 0
          /\ [count[b] EXCEPT !.order = 0, !.decision = 0].decision = 0
      BY <2>5 DEF Counts
    <2>7. /\ count'[b].order = 0 /\ count'[b].decision = 0
          /\ \A a \in Agents : a # b => count'[a] = count[a]
      BY <2>1, <2>3, <2>6 DEF LimitInv, Counted
    <2>9. ASSUME NEW a \in Agents
          PROVE  /\ count'[a].order =< OrdersPerTick /\ count'[a].decision =< DecisionsPerTick
                 /\ Taken(a)'
                 /\ a \notin members \cup gone => count'[a] = Zero
      <3>1. Waiting(a)' = Waiting(a)
        BY <1>1, <2>4 DEF Waiting
      <3>2. Taken(a)
        BY DEF Tally
      <3>3. CASE a = b
        <4>1. Holding(a)' = Holding(a) \ {t} /\ t \in Holding(a)
          BY <1>1, <2>3, <2>4, <3>3 DEF Holding
        <4>2. count'[a].order \in Nat
          BY <2>7, <3>3
        <4>3. Taken(a)'
          BY <1>1, <3>1, <4>1, <4>2, Given
        <4> QED
          BY <2>1, <2>7, <3>3, <4>3, GatewayAssumption
      <3>4. CASE a # b
        <4>1. Holding(a)' = Holding(a)
          BY <1>1, <2>4, <3>4 DEF Holding
        <4>2. Taken(a)'
          BY <1>1, <2>7, <3>1, <3>2, <3>4, <4>1 DEF Taken, Share
        <4> QED
          BY <2>7, <3>4, <4>2 DEF Tally
      <3> QED
        BY <3>3, <3>4
    <2> QED
      BY <1>1, <2>9 DEF Tally
  <1> QED
    BY <1>4, <1>5

LEMMA TallyReset ==
    ASSUME ResetsAlone, Base, LimitInv, Tally, Reset
    PROVE  Tally'
  <1>1. /\ \A t \in Threads : req[t] = Idle
        /\ inbox' = [a \in Agents |-> 0] /\ UNCHANGED <<members, gone, req>>
        /\ count' = [a \in Agents |-> IF a \in members
                                      THEN [count[a] EXCEPT !.order = 0, !.decision = 0]
                                      ELSE count[a]]
    BY DEF Reset
  <1>3. ASSUME NEW a \in Agents
        PROVE  /\ count'[a].order =< OrdersPerTick /\ count'[a].decision =< DecisionsPerTick
               /\ Taken(a)'
               /\ a \notin members \cup gone => count'[a] = Zero
    <2>1. /\ count[a] \in Counts /\ count[a].order \in 0 .. OrdersPerTick
          /\ OrdersPerTick \in Nat \ {0}
      BY TallyFacts DEF Tally
    <2>2. /\ [count[a] EXCEPT !.order = 0, !.decision = 0].order = 0
          /\ [count[a] EXCEPT !.order = 0, !.decision = 0].decision = 0
      BY <2>1 DEF Counts
    <2>3. Waiting(a)' = {} /\ Holding(a)' = {}
      <3>1. Idle.at = "idle" /\ \A t \in Threads : req'[t] = Idle
        <4>1. req' = req
          BY <1>1
        <4> QED BY <1>1, <4>1 DEF Idle
      <3> QED BY <3>1 DEF Waiting, Holding
    <2>4. count'[a].order \in 0 .. OrdersPerTick /\ inbox'[a] = 0
      <3>1. count'[a] \in {count[a], [count[a] EXCEPT !.order = 0, !.decision = 0]}
        BY <1>1
      <3>2. inbox'[a] = 0
        BY <1>1
      <3>3. CASE count'[a] = count[a]
        BY <2>1, <3>2, <3>3
      <3>4. CASE count'[a] = [count[a] EXCEPT !.order = 0, !.decision = 0]
        BY <2>1, <2>2, <3>2, <3>4
      <3> QED BY <3>1, <3>3, <3>4
    <2>5. Share(a)' \in 0 .. OrdersPerTick /\ (Holding(a)' = Threads => Share(a)' = 0)
      BY <2>1, <2>4 DEF Share
    <2>6. Taken(a)'
      <3>1. Cardinality({}) + OrdersPerTick * Cardinality({}) + Share(a)'
                =< OrdersPerTick * Cardinality(Threads) + 1
        BY <2>3, <2>5, Emptied
      <3>2. Cardinality({}) = 0 /\ OrdersPerTick * Cardinality({}) = 0
        BY <2>1, FS_EmptySet
      <3> QED
        BY <2>3, <2>4, <2>5, <3>1, <3>2 DEF Taken
    <2>7. CASE a \in members
      <3>1. count'[a].order = 0 /\ count'[a].decision = 0
        BY <1>1, <2>2, <2>7
      <3> QED
        BY <2>6, <2>7, <3>1, GatewayAssumption
    <2>8. CASE a \notin members
      <3>1. count'[a] = count[a]
        BY <1>1, <2>8
      <3> QED
        BY <2>6, <3>1 DEF Tally
    <2> QED
      BY <2>7, <2>8
  <1> QED
    BY <1>1, <1>3 DEF Tally

\* Whoever joins for the first time has counts that are zero already.
LEMMA TallyTable ==
    ASSUME ~MayRejoin, Base, LimitInv, Tally, NEW b \in Agents, Leave(b) \/ Join(b)
    PROVE  Tally'
  <1>1. UNCHANGED <<inbox, req>> /\ members \cup gone \subseteq members' \cup gone'
    BY DEF Leave, Join, world
  <1>2. \A a \in Agents : count'[a] = count[a]
    <2>1. CASE Leave(b)
      BY <2>1 DEF Leave
    <2>2. CASE Join(b)
      <3>1. b \notin members \cup gone /\ count' = [count EXCEPT ![b] = Zero]
        BY <2>2 DEF Join
      <3>2. count[b] = Zero
        BY <3>1 DEF Tally
      <3> QED
        BY <3>1, <3>2 DEF LimitInv, Counted
    <2> QED
      BY <2>1, <2>2
  <1>3. \A a \in Agents : Taken(a)'
    BY <1>1, <1>2 DEF Tally, Taken, Share, Holding, Waiting
  <1> QED
    BY <1>1, <1>2, <1>3 DEF Tally

\* An order sets out only when there is room for its number.
LEMMA RoomForOne ==
    ASSUME Bounds, NEW t \in Threads, Room, req[t].at = "idle", nextId \in Nat,
           \A u \in Threads : u # t => req'[u] = req[u], nextId' = nextId
    PROVE  nextId' + Cardinality(Unnumbered') =< MaxId + 1
  <1> DEFINE P == {u \in Threads : Posting(u)}
  <1>1. Unnumbered \in SUBSET Threads /\ Unnumbered' \in SUBSET Threads /\ P \in SUBSET Threads
    BY DEF Unnumbered
  <1>2. /\ IsFiniteSet(Unnumbered') /\ IsFiniteSet(P)
        /\ Cardinality(P) \in Nat /\ Cardinality(Unnumbered') \in Nat
    BY <1>1, ThreadsFinite
  <1>3. t \notin P /\ Unnumbered' \in SUBSET (P \cup {t})
    BY DEF Unnumbered, Posting
  <1>4. nextId + Cardinality(P) =< MaxId
    BY DEF Room
  <1> HIDE DEF P
  <1>5. IsFiniteSet(P \cup {t}) /\ Cardinality(P \cup {t}) = Cardinality(P) + 1
    BY <1>2, <1>3, FS_AddElement
  <1>6. Cardinality(Unnumbered') =< Cardinality(P \cup {t})
    BY <1>3, <1>5, FS_Subset
  <1> QED
    BY <1>2, <1>4, <1>5, <1>6, GatewayAssumption

\* Until an order has its number, its place is kept.
LEMMA PlacesKept ==
    ASSUME Bounds, nextId \in Nat, nextId' = nextId,
           \A u \in Threads : req'[u].at \in {"count", "submit", "number"} =>
               req[u].at \in {"count", "submit", "number"}
    PROVE  nextId' + Cardinality(Unnumbered') =< MaxId + 1
  <1>1. Unnumbered' \in SUBSET Unnumbered /\ Unnumbered \in SUBSET Threads
        /\ Unnumbered' \in SUBSET Threads
    BY DEF Unnumbered
  <1>2. /\ IsFiniteSet(Unnumbered) /\ Cardinality(Unnumbered) \in Nat
        /\ Cardinality(Unnumbered') \in Nat
    BY <1>1, ThreadsFinite
  <1>3. Cardinality(Unnumbered') =< Cardinality(Unnumbered)
    BY <1>1, <1>2, FS_Subset
  <1>4. nextId + Cardinality(Unnumbered) =< MaxId + 1
    BY DEF Bounds
  <1> QED
    BY <1>2, <1>3, <1>4, GatewayAssumption

LEMMA ClockKept ==
    ASSUME Base, Bounds, Next
    PROVE  tick' \in 0 .. MaxTick /\ resets' \in 0 .. MaxResets /\ gone' \subseteq Agents
  <1>1. /\ tick \in 0 .. MaxTick /\ resets \in 0 .. MaxResets /\ gone \subseteq Agents
        /\ MaxTick \in Nat /\ MaxResets \in Nat
    BY GatewayAssumption DEF Bounds
  <1>2. ASSUME NEW t \in Threads, StepBegins(t) \/ Publish(t)
        PROVE  /\ \/ tick' = tick
                  \/ tick' = tick + 1 /\ tick < MaxTick
               /\ resets' = resets /\ gone' = gone
    BY <1>2 DEF StepBegins, Publish, table
  <1>3. ASSUME NEW t \in Threads, Request(t), ~StepBegins(t), ~Publish(t)
        PROVE  UNCHANGED <<tick, resets, gone>>
    BY <1>3 DEF Request, Lookup, Count, Submit, Number, Store, Answer, CancelReads, CancelWrites,
        Decide, DecisionSubmits, CountersReset, world, table
  <1>4. ASSUME Reset
        PROVE  tick' = 0 /\ resets' = resets + 1 /\ resets < MaxResets /\ gone' = gone
    BY <1>4 DEF Reset
  <1>5. ASSUME NEW a \in Agents, Leave(a) \/ Join(a)
        PROVE  UNCHANGED <<tick, resets>> /\ gone' \in {gone, gone \cup {a}}
    BY <1>5 DEF Leave, Join, world
  <1> QED
    BY <1>1, <1>2, <1>3, <1>4, <1>5 DEF Next

\* A thread that goes on without a stored order or an answer of its own.
LEMMA BoundsAside ==
    ASSUME Base, Bounds, Next, NEW t \in Threads,
           \A u \in Threads : u # t => req'[u] = req[u], req'[t].at \notin {"store", "answer"},
           UNCHANGED <<nextId, idem>>, DOMAIN orders' = DOMAIN orders,
           nextId' + Cardinality(Unnumbered') =< MaxId + 1
    PROVE  Bounds'
  <1>1. tick' \in 0 .. MaxTick /\ resets' \in 0 .. MaxResets /\ gone' \subseteq Agents
    BY ClockKept
  <1> QED
    BY <1>1 DEF Bounds

LEMMA BoundsRequest ==
    ASSUME Base, Bounds, Next, NEW t \in Threads, Request(t)
    PROVE  Bounds'
  <1>1. nextId \in Nat
    BY DEF Base, Typed
  <1>2. CASE \E a \in Agents, k \in AnyKey : Lookup(t, a, k)
    <2>1. PICK a \in Agents, k \in AnyKey : Lookup(t, a, k)
      BY <1>2
    <2>2. /\ \A u \in Threads : u # t => req'[u] = req[u]
          /\ req'[t].at \notin {"store", "answer", "cancel"}
          /\ UNCHANGED <<orders, nextId, idem>>
      BY <1>2, AsideMoves DEF Base, AsideStep
    <2>3. Room /\ req[t].at = "idle"
      BY <2>1 DEF Lookup, Idle
    <2>4. nextId' + Cardinality(Unnumbered') =< MaxId + 1
      BY <1>1, <2>2, <2>3, RoomForOne
    <2> QED
      BY <2>2, <2>4, BoundsAside
  <1>3. CASE Number(t)
    <2>1. /\ req[t].at = "number" /\ nextId' = nextId + 1
          /\ req' = [req EXCEPT ![t].at = "store", ![t].id = nextId]
          /\ UNCHANGED <<orders, idem>>
      BY <1>3 DEF Number
    <2>2. req[t] \in Posts
      BY <2>1, Shapes DEF Base, Typed
    <2>3. /\ req'[t].at = "store" /\ req'[t].id = nextId
          /\ \A u \in Threads : u # t => req'[u] = req[u]
      BY <2>1, <2>2 DEF Base, Typed, Posts
    <2>4. Unnumbered' = Unnumbered \ {t} /\ t \in Unnumbered /\ Unnumbered \in SUBSET Threads
      BY <2>1, <2>3 DEF Unnumbered
    <2>5. /\ IsFiniteSet(Unnumbered) /\ Cardinality(Unnumbered) \in Nat
          /\ Cardinality(Unnumbered') = Cardinality(Unnumbered) - 1
      BY <2>4, ThreadsFinite, FS_RemoveElement
    <2>6. nextId' + Cardinality(Unnumbered') =< MaxId + 1 /\ nextId' >= 1
      BY <1>1, <2>1, <2>5, GatewayAssumption DEF Bounds
    <2>7. tick' \in 0 .. MaxTick /\ resets' \in 0 .. MaxResets /\ gone' \subseteq Agents
      BY ClockKept
    <2> QED
      BY <1>1, <2>1, <2>3, <2>6, <2>7 DEF Bounds
  <1>4. CASE Store(t)
    <2>1. /\ req[t].at = "store" /\ DOMAIN orders' = DOMAIN orders \cup {req[t].id}
          /\ \A u \in Threads : u # t => req'[u] = req[u]
          /\ \/ req'[t].at = "idle"
             \/ req'[t].at = "answer" /\ req'[t].key = req[t].key
          /\ UNCHANGED <<nextId, idem>>
      BY <1>4, Stored
    <2>2. req[t].id >= 1 /\ \A u \in Threads : req[u].at = "answer" => req[u].key \in Keys
      BY <2>1 DEF Bounds
    <2>3. req'[t].at = "answer" => req'[t].key \in Keys
      <3>1. req[t].key \in AnyKey
        BY <2>1, Shapes DEF Base, Typed
      <3>2. req[t].key = NoKey => req'[t].at = "idle"
        BY <1>4, Ending DEF Store, Base
      <3> QED
        BY <2>1, <3>1, <3>2 DEF AnyKey
    <2>4. nextId' + Cardinality(Unnumbered') =< MaxId + 1
      BY <1>1, <2>1, PlacesKept
    <2>5. tick' \in 0 .. MaxTick /\ resets' \in 0 .. MaxResets /\ gone' \subseteq Agents
      BY ClockKept
    <2>6. \A u \in Threads : req'[u].at = "store" => req'[u].id >= 1
      BY <2>1 DEF Bounds
    <2>7. \A i \in DOMAIN orders' : i >= 1
      BY <2>1, <2>2 DEF Bounds
    <2>8. \A u \in Threads : req'[u].at = "answer" => req'[u].key \in Keys
      BY <2>1, <2>2, <2>3
    <2> QED
      BY <2>1, <2>4, <2>5, <2>6, <2>7, <2>8 DEF Bounds
  <1>5. CASE Answer(t)
    <2>1. /\ req[t].at = "answer" /\ req'[t].at = "idle"
          /\ DOMAIN idem' = DOMAIN idem \cup {<<req[t].agent, req[t].key>>}
          /\ \A u \in Threads : u # t => req'[u] = req[u]
          /\ UNCHANGED <<orders, nextId>>
      BY <1>5, Answered
    <2>2. req[t].agent \in Agents /\ req[t].key \in Keys
      BY <2>1, Shapes DEF Base, Typed, Bounds
    <2>3. nextId' + Cardinality(Unnumbered') =< MaxId + 1
      BY <1>1, <2>1, PlacesKept
    <2>4. tick' \in 0 .. MaxTick /\ resets' \in 0 .. MaxResets /\ gone' \subseteq Agents
      BY ClockKept
    <2> QED
      BY <2>1, <2>2, <2>3, <2>4 DEF Bounds
  <1>6. CASE Count(t) \/ Submit(t)
    <2>1. /\ \A u \in Threads : u # t => req'[u] = req[u]
          /\ req'[t].at \notin {"store", "answer", "cancel"}
          /\ UNCHANGED <<orders, nextId, idem>>
      BY <1>6, AsideMoves DEF Base, AsideStep
    <2>2. req[t].at \in {"count", "submit", "number"}
      BY <1>6 DEF Count, Submit
    <2>3. nextId' + Cardinality(Unnumbered') =< MaxId + 1
      BY <1>1, <2>1, <2>2, PlacesKept
    <2> QED
      BY <2>1, <2>3, BoundsAside
  <1>7. CASE OtherStep(t)
    <2>1. /\ idem' = idem /\ ~Posting(t)' /\ \A u \in Threads : u # t => req'[u] = req[u]
          /\ DOMAIN orders' = DOMAIN orders
      BY <1>7, OtherMoves
    <2>2. nextId' = nextId
      BY <1>7 DEF OtherStep, Decide, DecisionSubmits, StepBegins, Publish, CountersReset,
          CancelReads, CancelWrites, rest
    <2>3. nextId' + Cardinality(Unnumbered') =< MaxId + 1
      BY <1>1, <2>1, <2>2, PlacesKept DEF Posting
    <2> QED
      BY <2>1, <2>2, <2>3, BoundsAside DEF Posting
  <1> QED
    BY <1>2, <1>3, <1>4, <1>5, <1>6, <1>7 DEF Request, OtherStep, AnyKey

LEMMA BoundsStep == ResetsAlone /\ Base /\ Bounds /\ [Next]_vars => Bounds'
  <1> SUFFICES ASSUME ResetsAlone, Base, Bounds, [Next]_vars PROVE Bounds'
    OBVIOUS
  <1>1. ASSUME NEW t \in Threads, Request(t) PROVE Bounds'
    <2>1. Next
      BY <1>1 DEF Next
    <2> QED BY <1>1, <2>1, BoundsRequest
  <1>2. CASE Reset
    <2>0. orders' = << >> /\ idem' = << >>
      BY <1>2 DEF Reset
    <2>a. nextId' = 1 /\ req' = req /\ \A t \in Threads : req[t] = Idle
      BY <1>2 DEF Reset
    <2>b. DOMAIN orders' = {} /\ DOMAIN idem' = {}
      BY <2>0
    <2>1. /\ nextId' = 1 /\ DOMAIN orders' = {} /\ DOMAIN idem' = {} /\ req' = req
          /\ \A t \in Threads : req[t] = Idle
      BY <2>a, <2>b
    <2>2. Idle.at = "idle"
      BY DEF Idle
    <2>3. Unnumbered' = {}
      BY <2>1, <2>2 DEF Unnumbered
    <2>4. Cardinality(Unnumbered') = 0
      BY <2>3, FS_EmptySet
    <2>5. Next
      BY <1>2 DEF Next
    <2>6. tick' \in 0 .. MaxTick /\ resets' \in 0 .. MaxResets /\ gone' \subseteq Agents
      BY <2>5, ClockKept
    <2> QED
      BY <2>1, <2>2, <2>4, <2>6, GatewayAssumption DEF Bounds
  <1>3. ASSUME NEW a \in Agents, Leave(a) \/ Join(a) PROVE Bounds'
    <2>1. UNCHANGED <<req, orders, nextId, idem>>
      BY <1>3 DEF Leave, Join, rest
    <2>2. Next
      BY <1>3 DEF Next
    <2>3. tick' \in 0 .. MaxTick /\ resets' \in 0 .. MaxResets /\ gone' \subseteq Agents
      BY <2>2, ClockKept
    <2>4. Unnumbered' = Unnumbered
      BY <2>1 DEF Unnumbered
    <2> QED
      BY <2>1, <2>3, <2>4 DEF Bounds
  <1>4. CASE UNCHANGED vars
    <2>1. UNCHANGED <<tick, resets, gone, req, orders, nextId, idem>>
      BY <1>4 DEF vars
    <2>2. Unnumbered' = Unnumbered
      BY <2>1 DEF Unnumbered
    <2> QED
      BY <2>1, <2>2 DEF Bounds
  <1> QED
    BY <1>1, <1>2, <1>3, <1>4 DEF Next

LEMMA TallyStep ==
    ~MayRejoin /\ ResetsAlone /\ Base /\ LimitInv /\ Tally /\ [Next]_vars => Tally'
  <1> SUFFICES ASSUME ~MayRejoin, ResetsAlone, Base, LimitInv, Tally, [Next]_vars PROVE Tally'
    OBVIOUS
  <1>1. \A a \in Agents : count[a].decision =< DecisionsPerTick
    BY DEF Tally
  <1>2. ASSUME NEW t \in Threads,
               \/ Number(t) \/ Store(t) \/ Answer(t)
               \/ \E a \in Agents, k \in AnyKey : Lookup(t, a, k)
        PROVE  Tally'
    <2>1. UNCHANGED <<members, gone, inbox, count>>
      BY <1>2 DEF Number, Store, Answer, Lookup, world, table
    <2>2. /\ \A u \in Threads : u # t => req'[u] = req[u]
          /\ req[t].at \in {"idle", "number", "store", "answer"}
          /\ req'[t].at \in {"count", "store", "answer", "idle"}
      <3>1. CASE Number(t)
        <4>1. req[t].at = "number" /\ req' = [req EXCEPT ![t].at = "store", ![t].id = nextId]
          BY <3>1 DEF Number
        <4>2. req[t] \in Posts
          BY <4>1, Shapes DEF Base, Typed
        <4> QED
          BY <4>1, <4>2 DEF Base, Typed, Posts
      <3>2. CASE Store(t)
        BY <3>2, Stored
      <3>3. CASE Answer(t)
        BY <3>3, Answered
      <3>4. CASE \E a \in Agents, k \in AnyKey : Lookup(t, a, k)
        <4>1. PICK a \in Agents, k \in AnyKey : Lookup(t, a, k)
          BY <3>4
        <4>2. req[t] = Idle /\ req' = [req EXCEPT ![t] = PostAt(a, k, "count", 0)]
          BY <4>1 DEF Lookup
        <4> QED
          BY <4>2 DEF Base, Typed, PostAt, Idle
      <3> QED
        BY <1>2, <3>1, <3>2, <3>3, <3>4
    <2> QED
      BY <1>1, <2>1, <2>2, TallyAside
  <1>3. ASSUME NEW t \in Threads, CancelWrites(t) \/ DecisionSubmits(t) PROVE Tally'
    <2>1. UNCHANGED <<members, gone, inbox, count>> /\ Ends(t)
          /\ req[t].at \in {"cancel", "decision"}
      BY <1>3 DEF CancelWrites, DecisionSubmits, world, table
    <2>2. req'[t].at = "idle" /\ \A u \in Threads : u # t => req'[u] = req[u]
      BY <2>1, Ending DEF Base
    <2> QED
      BY <1>1, <2>1, <2>2, TallyAside
  <1>4. ASSUME NEW t \in Threads, NEW id \in DOMAIN orders, CancelReads(t, id) PROVE Tally'
    <2>1. /\ UNCHANGED <<members, gone, inbox, count>> /\ req[t].at = "idle"
          /\ req' = [req EXCEPT ![t] = [at |-> "cancel", id |-> id, order |-> orders[id]]]
      BY <1>4 DEF CancelReads, world, table, Idle
    <2>2. req'[t].at = "cancel" /\ \A u \in Threads : u # t => req'[u] = req[u]
      BY <2>1 DEF Base, Typed
    <2> QED
      BY <1>1, <2>1, <2>2, TallyAside
  <1>5. ASSUME NEW t \in Threads, StepBegins(t) PROVE Tally'
    <2>1. /\ UNCHANGED <<members, gone, inbox, count>> /\ req[t].at = "idle"
          /\ req' = [req EXCEPT ![t] = [at |-> "ingested"]]
      BY <1>5 DEF StepBegins, table, Idle
    <2>2. req'[t].at = "ingested" /\ \A u \in Threads : u # t => req'[u] = req[u]
      BY <2>1 DEF Base, Typed
    <2> QED
      BY <1>1, <2>1, <2>2, TallyAside
  <1>6. ASSUME NEW t \in Threads, NEW b \in Agents, Decide(t, b) PROVE Tally'
    <2>1. /\ UNCHANGED <<members, gone, inbox>> /\ req[t].at = "idle"
          /\ req' = [req EXCEPT ![t] = [at |-> "decision", agent |-> b]]
          /\ b \in members /\ count[b].decision < DecisionsPerTick
          /\ count' = [count EXCEPT ![b].decision = @ + 1]
      BY <1>6 DEF Decide, world, Idle, Authenticated
    <2>2. req'[t].at = "decision" /\ \A u \in Threads : u # t => req'[u] = req[u]
      BY <2>1 DEF Base, Typed
    <2>4. count[b] \in Counts /\ count[b].decision \in Nat
      BY TallyFacts
    <2>5. /\ [count[b] EXCEPT !.decision = @ + 1].order = count[b].order
          /\ [count[b] EXCEPT !.decision = @ + 1].decision = count[b].decision + 1
      BY <2>4 DEF Counts
    <2>6. /\ count'[b].order = count[b].order /\ count'[b].decision = count[b].decision + 1
          /\ \A a \in Agents : a # b => count'[a] = count[a]
      BY <2>1, <2>5 DEF LimitInv, Counted
    <2>7. count'[b].decision =< DecisionsPerTick
      BY <2>1, <2>4, <2>6, GatewayAssumption
    <2>8. \A a \in Agents : /\ count'[a].order = count[a].order
                            /\ count'[a].decision =< DecisionsPerTick
                            /\ count'[a] = count[a] \/ a \in members
      BY <1>1, <2>1, <2>6, <2>7
    <2> QED
      BY <2>1, <2>2, <2>8, TallyAside
  <1>7. ASSUME NEW t \in Threads, Count(t) PROVE Tally'
    BY <1>7, TallyCount
  <1>8. ASSUME NEW t \in Threads, Submit(t) PROVE Tally'
    BY <1>8, TallySubmit
  <1>9. ASSUME NEW t \in Threads, Publish(t) PROVE Tally'
    BY <1>9, TallyPublish
  <1>10. ASSUME NEW t \in Threads, CountersReset(t) PROVE Tally'
    BY <1>10, TallyCounters
  <1>11. CASE Reset
    BY <1>11, TallyReset
  <1>12. ASSUME NEW a \in Agents, Leave(a) \/ Join(a) PROVE Tally'
    BY <1>12, TallyTable
  <1>13. CASE UNCHANGED vars
    BY <1>13 DEF vars, Tally, Taken, Share, Holding, Waiting
  <1> QED
    BY <1>2, <1>3, <1>4, <1>5, <1>6, <1>7, <1>8, <1>9, <1>10, <1>11, <1>12, <1>13
    DEF Next, Request, AnyKey

LEMMA TallyStart == Init => Tally /\ Bounds
  <1> SUFFICES ASSUME Init PROVE Tally /\ Bounds
    OBVIOUS
  <1>1. /\ tick = 0 /\ resets = 0 /\ gone = {} /\ DOMAIN orders = {} /\ DOMAIN idem = {}
        /\ nextId = 1 /\ \A a \in Agents : count[a] = Zero /\ inbox[a] = 0
        /\ inbox \in [Agents -> Nat]
    BY DEF Init
  <1>2. \A t \in Threads : req[t].at = "idle"
    BY DEF Init, Idle
  <1>3. Unnumbered = {} /\ Cardinality({}) = 0
    BY <1>2, FS_EmptySet DEF Unnumbered
  <1>4. Bounds
    BY <1>1, <1>2, <1>3, GatewayAssumption DEF Bounds
  <1>5. Zero.order = 0 /\ Zero.decision = 0
    BY DEF Zero
  <1>6. ASSUME NEW a \in Agents PROVE Taken(a)
    <2>1. Waiting(a) = {} /\ Holding(a) = {}
      BY <1>2 DEF Waiting, Holding
    <2>2. OrdersPerTick \in Nat \ {0} /\ count[a].order = 0 /\ inbox[a] = 0
      BY <1>1, <1>5, GatewayAssumption
    <2>3. Share(a) \in 0 .. OrdersPerTick /\ (Holding(a) = Threads => Share(a) = 0)
      BY <2>2 DEF Share
    <2>4. Cardinality({}) + OrdersPerTick * Cardinality({}) + Share(a)
              =< OrdersPerTick * Cardinality(Threads) + 1
      BY <2>1, <2>3, Emptied
    <2>5. Cardinality({}) = 0 /\ OrdersPerTick * Cardinality({}) = 0
      BY <2>2, FS_EmptySet
    <2> QED
      BY <2>1, <2>2, <2>3, <2>4, <2>5 DEF Taken
  <1>8. Tally
    BY <1>1, <1>5, <1>6, GatewayAssumption DEF Tally
  <1> QED
    BY <1>4, <1>8

LEMMA TypesHold == ASSUME Base, LimitInv, Tally, Bounds PROVE TypeOK
  <1>1. count \in [Agents -> [order : Nat, decision : 0 .. DecisionsPerTick, open : Nat]]
    <2>1. ASSUME NEW a \in Agents
          PROVE  count[a] \in [order : Nat, decision : 0 .. DecisionsPerTick, open : Nat]
      <3>1. /\ count[a] \in Counts /\ count[a].decision =< DecisionsPerTick
            /\ DecisionsPerTick \in Nat
        BY GatewayAssumption DEF LimitInv, Counted, Tally
      <3> QED
        BY <3>1 DEF Counts
    <2> QED
      BY <2>1 DEF LimitInv, Counted
  <1>2. nextId \in 1 .. MaxId + 1
    <2>1. Unnumbered \in SUBSET Threads
      BY DEF Unnumbered
    <2>2. Cardinality(Unnumbered) \in Nat
      BY <2>1, ThreadsFinite
    <2> QED
      BY <2>2, GatewayAssumption DEF Bounds, Base, Typed
  <1>3. DOMAIN orders \subseteq 1 .. MaxId
    <2> SUFFICES ASSUME NEW id \in DOMAIN orders PROVE id \in 1 .. MaxId
      OBVIOUS
    <2>1. id \in Nat /\ id < nextId /\ id >= 1
      BY DEF Base, Typed, Bounds
    <2> QED
      BY <1>2, <2>1, GatewayAssumption
  <1>4. \A ak \in DOMAIN idem : idem[ak] \in 1 .. MaxId
    BY <1>3 DEF Base, AnswerIsOwnOrder
  <1> QED
    BY <1>1, <1>2, <1>3, <1>4 DEF TypeOK, Bounds, Base, Typed, Tally

LEMMA BurstsBounded == ASSUME Base, LimitInv, Tally PROVE BurstBounded
  <1> SUFFICES ASSUME NEW a \in Agents
               PROVE  inbox[a] =< Cardinality(Threads) * OrdersPerTick + 1
    BY DEF BurstBounded
  <1>1. Taken(a)
    BY DEF Tally
  <1>2. /\ inbox[a] \in Nat /\ Cardinality(Waiting(a)) \in Nat
        /\ OrdersPerTick * Cardinality(Holding(a)) \in Nat
        /\ Cardinality(Threads) \in Nat \ {0} /\ Share(a) \in 0 .. OrdersPerTick
        /\ OrdersPerTick \in Nat
    BY TallyFacts
  <1>3. OrdersPerTick * Cardinality(Threads) = Cardinality(Threads) * OrdersPerTick
    BY <1>2
  <1> QED
    BY <1>1, <1>2, <1>3 DEF Taken

LEMMA RestsWithinLimit == ASSUME Base, LimitInv PROVE RestingWithinLimit
  <1> SUFFICES ASSUME NEW a \in members
               PROVE  Cardinality(Resting(a)) + Cardinality(Flight(a)) =< MaxOpen
    BY DEF RestingWithinLimit, Flight, OnTheWay
  <1>1. /\ Cardinality(Resting(a)) + Cardinality(Flight(a)) =< count[a].open
        /\ count[a].open =< MaxOpen /\ count[a].open \in Nat
    BY DEF LimitInv, Counted, Counts, Base, Typed
  <1>2. Cardinality(Resting(a)) \in Nat /\ Cardinality(Flight(a)) \in Nat
    BY Finite DEF LimitInv
  <1> QED
    BY <1>1, <1>2, GatewayAssumption

-----------------------------------------------------------------------------
(* Theorems *)

\* Whatever clients and threads do, when the operator resets alone: an answer that is kept
\* is of an order of its agent and key, and a number is given to one order until the next
\* reset (rest.py:887-929).
THEOREM AnswersAndNumbers == ResetsAlone /\ Spec => []AnswerIsOwnOrder /\ NumbersGivenOnce
  <1> SUFFICES ASSUME ResetsAlone PROVE Spec => []AnswerIsOwnOrder /\ NumbersGivenOnce
    OBVIOUS
  <1>1. Init => Base
    BY Start
  <1>2. Base /\ [Next]_vars => Base'
    BY BaseStep
  <1>3. Base /\ [Next]_vars => [Kept]_vars
    BY BaseStep
  <1>4. Base => AnswerIsOwnOrder
    BY DEF Base
  <1>5. [Kept]_vars <=> [resets' = resets => \A id \in DOMAIN orders :
          /\ id \in DOMAIN orders'
          /\ orders'[id].agent = orders[id].agent /\ orders'[id].key = orders[id].key
          /\ orders[id].status = "cancelled" => orders'[id].status = "cancelled"]_vars
    BY DEF Kept
  <1> QED
    BY <1>1, <1>2, <1>3, <1>4, <1>5, PTL DEF Spec, NumbersGivenOnce

\* With clients that wait for an answer before they repeat a key, a key is one order
\* as well, for any number of threads, agents and limits (post_order).
THEOREM OrdersAnsweredOnceCorrect == Patient /\ ResetsAlone /\ Spec => OrdersAnsweredOnce
  <1> SUFFICES ASSUME Patient, ResetsAlone PROVE Spec => OrdersAnsweredOnce
    OBVIOUS
  <1>1. Init => Base /\ KeyInv
    BY Start
  <1>2. Base /\ KeyInv /\ [Next]_vars => (Base /\ KeyInv)'
    BY BaseStep, KeyStep
  <1>3. Base /\ KeyInv => AnswerIsOwnOrder /\ OneOrderPerKey
    BY DEF Base, KeyInv
  <1>4. Spec => [](AnswerIsOwnOrder /\ OneOrderPerKey)
    BY <1>1, <1>2, <1>3, PTL DEF Spec
  <1>5. Spec => NumbersGivenOnce
    BY AnswersAndNumbers
  <1> QED
    BY <1>4, <1>5 DEF OrdersAnsweredOnce

\* When nobody registers twice, an agent never has more orders resting or on their way
\* than max_open_orders, whatever threads, cancels, steps and resets do (submit_order,
\* sessions.py:220-234).
THEOREM RestingWithinLimitCorrect == ~MayRejoin /\ ResetsAlone /\ Spec => []RestingWithinLimit
  <1> SUFFICES ASSUME ~MayRejoin, ResetsAlone PROVE Spec => []RestingWithinLimit
    OBVIOUS
  <1>1. Init => Base /\ LimitInv
    BY Start, LimitStart
  <1>2. Base /\ LimitInv /\ [Next]_vars => (Base /\ LimitInv)'
    BY BaseStep, LimitStep
  <1>3. Base /\ LimitInv => RestingWithinLimit
    BY RestsWithinLimit
  <1> QED
    BY <1>1, <1>2, <1>3, PTL DEF Spec

\* When nobody registers twice: types, the limit of open orders, and what one tick takes
\* from an agent, which may be a limit for each thread that steps the world beside the
\* others and one order on its way (submit_order, sessions.py:220-234; step_world, rest.py).
THEOREM LimitsHoldCorrect == ~MayRejoin /\ ResetsAlone /\ Spec => []LimitsHold
  <1> SUFFICES ASSUME ~MayRejoin, ResetsAlone PROVE Spec => []LimitsHold
    OBVIOUS
  <1> DEFINE All == Base /\ LimitInv /\ Tally /\ Bounds
  <1>1. Init => All
    BY Start, LimitStart, TallyStart
  <1>2. All /\ [Next]_vars => All'
    BY BaseStep, LimitStep, TallyStep, BoundsStep
  <1>3. All => LimitsHold
    BY TypesHold, RestsWithinLimit, BurstsBounded DEF LimitsHold
  <1> QED
    BY <1>1, <1>2, <1>3, PTL DEF Spec

-----------------------------------------------------------------------------
(* Surveillance: the flags of what is kept are those of the whole tape. *)

\* A set that has 0, and n + 1 with n, has every natural number.
LEMMA Induction ==
    ASSUME NEW S, 0 \in S, \A n \in Nat : n \in S => n + 1 \in S
    PROVE  Nat \subseteq S
<1> DEFINE R == OpToRel(<, Nat)
           T == Nat \ S
<1> SUFFICES ASSUME T # {} PROVE FALSE
  OBVIOUS
<1>1. IsWellFoundedOn(R, Nat)
  BY NatLessThanWellFounded
<1>2. PICK x \in T : \A y \in T : ~(<<y, x>> \in R)
  <2>1. T \subseteq Nat
    OBVIOUS
  <2> HIDE DEF R, T
  <2> QED BY <1>1, <2>1, WFMin
<1>3. x \in Nat \ {0} /\ x - 1 \in Nat /\ x - 1 < x
  OBVIOUS
<1>4. x - 1 \in T
  BY <1>3
<1>5. <<x - 1, x>> \in R
  BY <1>3 DEF OpToRel
<1> QED BY <1>2, <1>4, <1>5

\* What is remembered is what the tape has within the longest window.
ScanTypes ==
    /\ clock \in Int
    /\ \A p \in DOMAIN tape : p.tick \in Int
    /\ DOMAIN prices \subseteq Int
ScanInv ==
    /\ ScanTypes
    /\ prints = KeptPrints(tape, clock)
    /\ px = KeptMarks(prices, clock)
    /\ FlagsOfTheTape

LEMMA WindowsFit ==
    /\ WashWindow \in Nat /\ CircularN \in Nat /\ PumpWindow \in Nat /\ Horizon \in Nat
    /\ WashWindow =< Horizon /\ CircularN =< Horizon /\ PumpWindow =< Horizon
<1>1. WashWindow \in Nat /\ CircularN \in Nat /\ PumpWindow \in Nat
  BY SurveillanceAssumption
<1>2. PICK m \in {WashWindow, CircularN, PumpWindow} : \A y \in {WashWindow, CircularN, PumpWindow} : m >= y
  BY <1>1
<1>3. /\ Horizon \in {WashWindow, CircularN, PumpWindow}
      /\ \A y \in {WashWindow, CircularN, PumpWindow} : Horizon >= y
  BY <1>2 DEF Horizon, Max
<1> QED BY <1>1, <1>3

\* A fill joins a bag: the others keep their number.
LEMMA JoinPrint ==
    ASSUME NEW rows, NEW batch, batch # << >>
    PROVE  /\ DOMAIN Recorded(rows, batch) = DOMAIN rows \cup {PrintOf(batch[1])}
           /\ \A p \in DOMAIN rows \cup {PrintOf(batch[1])} :
                 Recorded(rows, batch)[p] = (IF p \in DOMAIN rows THEN rows[p] ELSE 0)
                                            + (IF p = PrintOf(batch[1]) THEN 1 ELSE 0)
BY DEF Recorded, SetToBag, (+)

\* A window that is not longer than the longest sees the same in what is kept.
LEMMA WindowOfKept ==
    ASSUME NEW rows, NEW now \in Int, NEW width \in Nat, width =< Horizon,
           \A p \in DOMAIN rows : p.tick \in Int
    PROVE  InWindow(KeptPrints(rows, now), now, width) = InWindow(rows, now, width)
<1> DEFINE K == {p \in DOMAIN rows : p.tick >= now - Horizon + 1}
           W == {p \in DOMAIN rows : now - width + 1 <= p.tick /\ p.tick <= now}
           k == [x \in K |-> rows[x]]
<1>1. KeptPrints(rows, now) = k /\ DOMAIN k = K
  BY DEF KeptPrints, Restrict
<1>2. {p \in K : now - width + 1 <= p.tick /\ p.tick <= now} = W
  BY WindowsFit
<1>3. InWindow(k, now, width) = [x \in W |-> k[x]]
  BY <1>1, <1>2 DEF InWindow, Restrict
<1>4. W \subseteq K
  BY <1>2
<1>5. [x \in W |-> k[x]] = [x \in W |-> rows[x]]
  BY <1>4
<1> QED BY <1>1, <1>3, <1>5 DEF InWindow, Restrict

\* What was forgotten before is forgotten now, so a fill may as well join the whole tape.
LEMMA KeptOfRecorded ==
    ASSUME NEW rows, NEW batch, NEW before \in Int, NEW now \in Int, before =< now,
           \A p \in DOMAIN rows : p.tick \in Int
    PROVE  KeptPrints(Recorded(KeptPrints(rows, before), batch), now) = KeptPrints(Recorded(rows, batch), now)
<1> DEFINE K == {p \in DOMAIN rows : p.tick >= before - Horizon + 1}
           k == [x \in K |-> rows[x]]
           Late(f) == {p \in DOMAIN f : p.tick >= now - Horizon + 1}
           e == PrintOf(batch[1])
<1>1. KeptPrints(rows, before) = k /\ DOMAIN k = K /\ \A x \in K : k[x] = rows[x]
  BY DEF KeptPrints, Restrict
<1>2. \A p \in DOMAIN rows : p.tick >= now - Horizon + 1 => p \in K
  BY WindowsFit
<1>3. K \subseteq DOMAIN rows
  OBVIOUS
<1> HIDE DEF K, k
<1>4. CASE batch = << >>
  <2>1. Recorded(k, batch) = k /\ Recorded(rows, batch) = rows
    BY <1>4 DEF Recorded
  <2>2. Late(k) = Late(rows)
    BY <1>1, <1>2, <1>3
  <2>3. [x \in Late(k) |-> k[x]] = [x \in Late(rows) |-> rows[x]]
    BY <1>1, <2>2
  <2> QED BY <1>1, <2>1, <2>3 DEF KeptPrints, Restrict
<1>5. CASE batch # << >>
  <2> DEFINE a == Recorded(k, batch)
             b == Recorded(rows, batch)
  <2>1. /\ DOMAIN a = K \cup {e}
        /\ \A p \in K \cup {e} : a[p] = (IF p \in K THEN k[p] ELSE 0) + (IF p = e THEN 1 ELSE 0)
    <3>1. /\ DOMAIN a = DOMAIN k \cup {e}
          /\ \A p \in DOMAIN k \cup {e} : a[p] = (IF p \in DOMAIN k THEN k[p] ELSE 0) + (IF p = e THEN 1 ELSE 0)
      BY <1>5, JoinPrint
    <3> HIDE DEF a, e
    <3> QED BY <1>1, <3>1
  <2>2. /\ DOMAIN b = DOMAIN rows \cup {e}
        /\ \A p \in DOMAIN rows \cup {e} :
              b[p] = (IF p \in DOMAIN rows THEN rows[p] ELSE 0) + (IF p = e THEN 1 ELSE 0)
    BY <1>5, JoinPrint
  <2> HIDE DEF a, b, e
  <2>3. Late(a) = Late(b)
    BY <1>2, <1>3, <2>1, <2>2
  <2>4. ASSUME NEW p \in Late(b) PROVE a[p] = b[p]
    <3>1. p \in K \cup {e} /\ (p \in DOMAIN rows => p \in K)
      BY <1>2, <2>1, <2>2, <2>3, <2>4
    <3>2. p \in K => k[p] = rows[p]
      BY <1>1
    <3>3. (IF p \in K THEN k[p] ELSE 0) = (IF p \in DOMAIN rows THEN rows[p] ELSE 0)
      BY <1>3, <3>1, <3>2
    <3>4. a[p] = (IF p \in K THEN k[p] ELSE 0) + (IF p = e THEN 1 ELSE 0)
      BY <2>1, <3>1
    <3>5. b[p] = (IF p \in DOMAIN rows THEN rows[p] ELSE 0) + (IF p = e THEN 1 ELSE 0)
      BY <2>2, <2>4
    <3> QED BY <3>3, <3>4, <3>5
  <2>5. [x \in Late(a) |-> a[x]] = [x \in Late(b) |-> b[x]]
    BY <2>3, <2>4
  <2> QED BY <1>1, <2>5 DEF KeptPrints, Restrict, a, b
<1> QED BY <1>4, <1>5

\* The same of the marks.
LEMMA KeptOfMarked ==
    ASSUME NEW series, NEW batch, NEW mark, NEW before \in Int, NEW now \in Int, before =< now,
           DOMAIN series \subseteq Int
    PROVE  KeptMarks(Marked(KeptMarks(series, before), batch, mark, now), now)
               = KeptMarks(Marked(series, batch, mark, now), now)
<1> DEFINE K == {t \in DOMAIN series : t >= before - Horizon + 1}
           k == [x \in K |-> series[x]]
           told == {batch[i].tick : i \in DOMAIN batch}
           closed == IF mark = None THEN {} ELSE {now}
           At(f, t) == IF t \in closed THEN mark ELSE IF t \in told THEN batch[1].price ELSE f[t]
           Late(S) == {t \in S : t >= now - Horizon + 1}
           a == Marked(k, batch, mark, now)
           b == Marked(series, batch, mark, now)
<1>1. KeptMarks(series, before) = k /\ DOMAIN k = K /\ \A x \in K : k[x] = series[x]
  BY DEF KeptMarks, Restrict
<1>2. \A t \in DOMAIN series : t >= now - Horizon + 1 => t \in K
  BY WindowsFit
<1>3. K \subseteq DOMAIN series
  OBVIOUS
<1> HIDE DEF K, k
<1>4. a = [t \in K \cup told \cup closed |-> At(k, t)]
  BY <1>1 DEF Marked
<1>5. b = [t \in DOMAIN series \cup told \cup closed |-> At(series, t)]
  BY DEF Marked
<1> HIDE DEF told, closed, a, b
<1>6. Late(K \cup told \cup closed) = Late(DOMAIN series \cup told \cup closed)
  BY <1>2, <1>3
<1>7. ASSUME NEW t \in Late(DOMAIN series \cup told \cup closed) PROVE a[t] = b[t]
  <2>1. t \in K \cup told \cup closed
    BY <1>6, <1>7
  <2>2. a[t] = At(k, t) /\ b[t] = At(series, t)
    BY <1>4, <1>5, <1>7, <2>1
  <2> QED BY <1>1, <2>1, <2>2
<1>8. DOMAIN a = K \cup told \cup closed /\ DOMAIN b = DOMAIN series \cup told \cup closed
  BY <1>4, <1>5
<1>9. [t \in Late(DOMAIN a) |-> a[t]] = [t \in Late(DOMAIN b) |-> b[t]]
  BY <1>6, <1>7, <1>8
<1> QED BY <1>1, <1>9 DEF KeptMarks, Restrict, a, b

\* A set of whole numbers with a bound has a least and a greatest one.
LEMMA FirstAndLast ==
    ASSUME NEW T, NEW lo \in Int, NEW hi \in Int, T \subseteq lo .. hi, T # {}
    PROVE  Min(T) \in T /\ Max(T) \in T
<1> DEFINE H == {n \in Nat : \A U : U # {} /\ U \subseteq lo .. lo + n =>
                    /\ \E m \in U : \A x \in U : m =< x
                    /\ \E m \in U : \A x \in U : m >= x}
<1>1. 0 \in H
  <2>1. lo .. lo + 0 = {lo}
    OBVIOUS
  <2>2. lo =< lo
    OBVIOUS
  <2> QED BY <2>1, <2>2
<1>2. ASSUME NEW n \in Nat, n \in H PROVE n + 1 \in H
  <2>1. ASSUME NEW U, U # {}, U \subseteq lo .. lo + (n + 1)
        PROVE  (\E m \in U : \A x \in U : m =< x) /\ (\E m \in U : \A x \in U : m >= x)
    <3> DEFINE W == U \ {lo + n + 1}
    <3>1. W \subseteq lo .. lo + n
      BY <2>1
    <3>2. \A x \in U : x \in Int /\ x =< lo + n + 1
      BY <2>1
    <3>3. CASE W = {}
      <4>1. U = {lo + n + 1}
        BY <2>1, <3>3
      <4>2. lo + n + 1 \in Int
        OBVIOUS
      <4> QED BY <4>1, <4>2
    <3>4. CASE W # {}
      <4>1. PICK low \in W, high \in W : \A x \in W : low =< x /\ high >= x
        <5> HIDE DEF W
        <5> QED BY <1>2, <3>1, <3>4
      <4>2. low \in U /\ \A x \in U : low =< x
        BY <3>2, <4>1
      <4>3. CASE lo + n + 1 \in U
        BY <3>2, <4>2, <4>3
      <4>4. CASE lo + n + 1 \notin U
        BY <4>1, <4>2, <4>4
      <4> QED BY <4>3, <4>4
    <3> QED BY <3>3, <3>4
  <2> QED BY <2>1
<1>3. Nat \subseteq H
  <2> HIDE DEF H
  <2> QED BY <1>1, <1>2, Induction
<1>4. hi - lo \in Nat /\ T \subseteq lo .. lo + (hi - lo)
  <2>1. lo =< hi
    <3>1. PICK x : x \in T
      OBVIOUS
    <3>2. x \in lo .. hi
      BY <3>1
    <3> QED BY <3>2
  <2>2. lo + (hi - lo) = hi
    OBVIOUS
  <2> QED BY <2>1, <2>2
<1>5. (\E m \in T : \A x \in T : m =< x) /\ (\E m \in T : \A x \in T : m >= x)
  BY <1>3, <1>4
<1> QED BY <1>5 DEF Min, Max

\* A price runs up in what is kept when it does in the whole series.
LEMMA RunsUpInKept ==
    ASSUME NEW series, NEW now \in Int, DOMAIN series \subseteq Int
    PROVE  RunsUp(KeptMarks(series, now), now) <=> RunsUp(series, now)
<1> DEFINE K == {t \in DOMAIN series : t >= now - Horizon + 1}
           T == {t \in DOMAIN series : now - PumpWindow + 1 <= t /\ t <= now}
<1>0. PICK k : k = KeptMarks(series, now)
  OBVIOUS
<1>1. DOMAIN k = K /\ \A t \in K : k[t] = series[t]
  BY <1>0 DEF KeptMarks, Restrict
<1>2. {t \in DOMAIN k : now - PumpWindow + 1 <= t /\ t <= now} = T
  BY <1>1, WindowsFit
<1>3. T \subseteq K
  BY WindowsFit
<1> HIDE DEF K
<1>4. RunsUp(k, now) <=> /\ Cardinality(T) >= 2
                         /\ k[Min(T)] > 0
                         /\ 100 * k[Max(T)] > (100 + PumpRunup) * k[Min(T)]
  BY <1>2 DEF RunsUp
<1>5. RunsUp(series, now) <=> /\ Cardinality(T) >= 2
                              /\ series[Min(T)] > 0
                              /\ 100 * series[Max(T)] > (100 + PumpRunup) * series[Min(T)]
  BY DEF RunsUp
<1>6. CASE T = {}
  <2>1. Cardinality(T) = 0
    BY <1>6, FS_EmptySet
  <2> HIDE DEF T
  <2> QED BY <1>0, <1>4, <1>5, <2>1
<1>7. CASE T # {}
  <2>1. PICK lo \in Int : lo = now - PumpWindow + 1
    BY WindowsFit
  <2>2. T \subseteq lo .. now
    BY <2>1
  <2>3. Min(T) \in T /\ Max(T) \in T
    <3> HIDE DEF T
    <3> QED BY <1>7, <2>2, FirstAndLast
  <2>4. k[Min(T)] = series[Min(T)] /\ k[Max(T)] = series[Max(T)]
    <3> HIDE DEF T
    <3> QED BY <1>1, <1>3, <2>3
  <2> HIDE DEF T
  <2> QED BY <1>0, <1>4, <1>5, <2>4
<1> QED BY <1>0, <1>6, <1>7

\* The scanner finds in what it kept what it would find in everything.
LEMMA DetectInKept ==
    ASSUME NEW rows, NEW series, NEW now \in Int,
           \A p \in DOMAIN rows : p.tick \in Int, DOMAIN series \subseteq Int
    PROVE  Detect(KeptPrints(rows, now), KeptMarks(series, now), now) = Detect(rows, series, now)
<1>1. /\ InWindow(KeptPrints(rows, now), now, WashWindow) = InWindow(rows, now, WashWindow)
      /\ InWindow(KeptPrints(rows, now), now, CircularN) = InWindow(rows, now, CircularN)
      /\ InWindow(KeptPrints(rows, now), now, PumpWindow) = InWindow(rows, now, PumpWindow)
  BY WindowOfKept, WindowsFit
<1>2. \A r : Pump(r, KeptMarks(series, now), now) = Pump(r, series, now)
  BY RunsUpInKept DEF Pump
<1> QED BY <1>1, <1>2 DEF Detect

LEMMA ScannerStarts == ScannerInit => ScanInv
<1> SUFFICES ASSUME ScannerInit PROVE ScanInv
  OBVIOUS
<1>1. clock \in Int /\ DOMAIN prints = {} /\ DOMAIN tape = {} /\ DOMAIN px = {} /\ DOMAIN prices = {} /\ flags = None
  BY DEF ScannerInit, EmptyBag, SetToBag
<1>2. prints = [x \in {} |-> 1] /\ px = [x \in {} |-> 0] /\ tape = prints /\ prices = px
  BY DEF ScannerInit, EmptyBag, SetToBag
<1>3. \A f : [x \in {} |-> f[x]] = [x \in {} |-> 1] /\ [x \in {} |-> f[x]] = [x \in {} |-> 0]
  OBVIOUS
<1>4. {p \in DOMAIN tape : p.tick >= clock - Horizon + 1} = {} /\ {t \in DOMAIN prices : t >= clock - Horizon + 1} = {}
  BY <1>1
<1>5. KeptPrints(tape, clock) = [x \in {} |-> tape[x]] /\ KeptMarks(prices, clock) = [x \in {} |-> prices[x]]
  BY <1>4 DEF KeptPrints, KeptMarks, Restrict
<1>6. prints = KeptPrints(tape, clock) /\ px = KeptMarks(prices, clock)
  BY <1>2, <1>3, <1>5
<1> QED BY <1>1, <1>6 DEF ScanInv, ScanTypes, FlagsOfTheTape

LEMMA ScannerSteps == ScanInv /\ [ScannerNext]_scanner_vars => ScanInv'
<1> SUFFICES ASSUME ScanInv, [ScannerNext]_scanner_vars PROVE ScanInv'
  OBVIOUS
<1>1. CASE Step
  <2>1. PICK now \in clock .. MaxClock, mark \in Marks \cup {None} : \E batch \in Batches(now) :
            /\ clock' = now
            /\ prints' = KeptPrints(Recorded(prints, batch), now)
            /\ px' = KeptMarks(Marked(px, batch, mark, now), now)
            /\ flags' = Detect(prints', px', now)
            /\ tape' = Recorded(tape, batch)
            /\ prices' = Marked(prices, batch, mark, now)
    BY <1>1 DEF Step
  <2>2. PICK batch \in Batches(now) :
            /\ clock' = now
            /\ prints' = KeptPrints(Recorded(prints, batch), now)
            /\ px' = KeptMarks(Marked(px, batch, mark, now), now)
            /\ flags' = Detect(prints', px', now)
            /\ tape' = Recorded(tape, batch)
            /\ prices' = Marked(prices, batch, mark, now)
    BY <2>1
  <2>3. clock \in Int /\ now \in Int /\ clock =< now
    BY DEF ScanInv, ScanTypes
  <2>4. batch # << >> => DOMAIN batch = {1} /\ batch[1].tick \in Int /\ PrintOf(batch[1]).tick = batch[1].tick
    BY <2>3 DEF Batches, PrintOf
  <2>5. \A p \in DOMAIN tape' : p.tick \in Int
    <3>1. CASE batch = << >>
      BY <2>2, <3>1 DEF Recorded, ScanInv, ScanTypes
    <3>2. CASE batch # << >>
      <4>1. DOMAIN tape' = DOMAIN tape \cup {PrintOf(batch[1])}
        BY <2>2, <3>2, JoinPrint
      <4> QED BY <2>4, <3>2, <4>1 DEF ScanInv, ScanTypes
    <3> QED BY <3>1, <3>2
  <2>6. DOMAIN prices' \subseteq Int
    <3> DEFINE told == {batch[i].tick : i \in DOMAIN batch}
               closed == IF mark = None THEN {} ELSE {now}
    <3>1. DOMAIN prices' = DOMAIN prices \cup told \cup closed
      BY <2>2 DEF Marked
    <3>2. told \subseteq Int
      BY <2>4
    <3> QED BY <2>3, <3>1, <3>2 DEF ScanInv, ScanTypes
  <2>7. prints' = KeptPrints(tape', clock')
    BY <2>2, <2>3, KeptOfRecorded DEF ScanInv, ScanTypes
  <2>8. px' = KeptMarks(prices', clock')
    BY <2>2, <2>3, KeptOfMarked DEF ScanInv, ScanTypes
  <2>9. flags' = Detect(tape', prices', clock')
    BY <2>2, <2>3, <2>5, <2>6, <2>7, <2>8, DetectInKept
  <2> QED BY <2>2, <2>3, <2>5, <2>6, <2>7, <2>8, <2>9 DEF ScanInv, ScanTypes, FlagsOfTheTape
<1>2. CASE Restart
  BY <1>2 DEF Restart, ScanInv, ScanTypes, FlagsOfTheTape
<1>3. CASE UNCHANGED scanner_vars
  BY <1>3 DEF scanner_vars, ScanInv, ScanTypes, FlagsOfTheTape
<1> QED BY <1>1, <1>2, <1>3 DEF ScannerNext

\* Nothing a window still needs is forgotten, and nothing forgotten counts: the flags of a step
\* are those of the whole tape, whichever of the three windows is the longest.
THEOREM FlagsOfTheTapeCorrect == ScannerSpec => []FlagsOfTheTape
<1>1. ScanInv => FlagsOfTheTape
  BY DEF ScanInv
<1> QED BY <1>1, ScannerStarts, ScannerSteps, PTL DEF ScannerSpec
=============================================================================
