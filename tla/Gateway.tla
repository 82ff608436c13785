------------------------------ MODULE Gateway ------------------------------
(***************************************************************************)
(* The order and decision endpoints of one world (api/rest.py) over its    *)
(* session table (api/sessions.py) and its inbox (world.py).               *)
(*                                                                         *)
(* The endpoints run in a pool of threads and take no lock.  A thread may  *)
(* lose the processor at a call and at the end of a loop body, nowhere     *)
(* else, so a step of the model is the code between two such places.       *)
(* What the endpoints rely on and nothing enforces is a constant: Patient  *)
(* clients do not repeat a key while a request with it is under way, an    *)
(* operator who ResetsAlone resets with no request under way, an agent     *)
(* that MayRejoin registers again after it has left.                       *)
(***************************************************************************)
EXTENDS Integers, FiniteSets, FiniteSetsExt, TLC

CONSTANTS
    Agents,                 \* agent ids, numbered in their sorted order
    Keys,                   \* idempotency keys
    Threads,
    OrdersPerTick, DecisionsPerTick, MaxOpen,   \* AgentLimits
    Patient, ResetsAlone, MayRejoin,
    MaxTick, MaxId, MaxResets                   \* bounds of the model

ASSUME GatewayAssumption ==
    /\ Agents \subseteq Nat /\ IsFiniteSet(Threads) /\ Threads # {}
    /\ OrdersPerTick \in Nat \ {0} /\ DecisionsPerTick \in Nat /\ MaxOpen \in Nat
    /\ MaxTick \in Nat /\ MaxId \in Nat /\ MaxResets \in Nat
    /\ \A b \in {Patient, ResetsAlone, MayRejoin} : b \in BOOLEAN

VARIABLES
    tick, resets,           \* clock.tick, and how often the world was reset
    members, gone,          \* the agent table; who has left it
    count,                  \* orders and decisions of the tick, open_orders
    inbox,                  \* how many orders of each agent it holds
    orders, nextId,         \* orders and next_order_id of _WorldRest
    idem,                   \* idempotency: (agent, key) to the number acked
    req                     \* what each thread is doing

vars == <<tick, resets, members, gone, count, inbox, orders, nextId, idem, req>>
world == <<tick, resets, inbox>>
table == <<members, gone, count>>
rest == <<orders, nextId, idem>>

NoKey == 0
Zero == [order |-> 0, decision |-> 0, open |-> 0]
Idle == [at |-> "idle"]
Order == [agent : Agents, key : Keys \cup {NoKey}, status : {"resting", "cancelled"}]
PostAt(a, k, at, id) == [at |-> at, agent |-> a, key |-> k, id |-> id]
Posting(t) == req[t].at \in {"count", "submit", "number", "store", "answer"}
\* authenticate: a token stands for an agent of the table.
Authenticated(a) == a \in members

\* Bound: the numbers that may still be needed.
Room == nextId + Cardinality({t \in Threads : Posting(t)}) =< MaxId

\* dict[key] = value
Put(dict, key, value) ==
    [x \in DOMAIN dict \cup {key} |-> IF x = key THEN value ELSE dict[x]]

Goes(t, where) == req' = [req EXCEPT ![t].at = where]
Ends(t) == req' = [req EXCEPT ![t] = Idle]

Init == /\ tick = 0 /\ resets = 0
        /\ members = {} /\ gone = {}
        /\ count = [a \in Agents |-> Zero]
        /\ inbox = [a \in Agents |-> 0]
        /\ orders = << >> /\ nextId = 1 /\ idem = << >>
        /\ req = [t \in Threads |-> Idle]

-----------------------------------------------------------------------------
(* post_order *)

\* A key that has an answer gets the same answer, and nothing else happens.
Lookup(t, a, k) ==
    /\ req[t] = Idle /\ Authenticated(a) /\ Room
    /\ Patient /\ k # NoKey => \A u \in Threads : ~(Posting(u) /\ req[u].key = k
                                                            /\ req[u].agent = a)
    /\ <<a, k>> \notin DOMAIN idem
    /\ req' = [req EXCEPT ![t] = PostAt(a, k, "count", 0)]
    /\ UNCHANGED <<world, table, rest>>

\* Faulty: the limit of the tick is not looked at.
Count_NoTick(t) ==
    /\ req[t].at = "count"
    /\ LET a == req[t].agent
       IN IF ~Authenticated(a) \/ count[a].open >= MaxOpen
          THEN Ends(t) /\ UNCHANGED count
          ELSE /\ count' = [count EXCEPT ![a].order = @ + 1, ![a].open = @ + 1]
               /\ Goes(t, "submit")
    /\ UNCHANGED <<world, members, gone, rest>>

\* submit_order authenticates and counts, or refuses at a limit.
Count(t) ==
    /\ req[t].at = "count"
    /\ LET a == req[t].agent
       IN IF \/ ~Authenticated(a)
             \/ count[a].order >= OrdersPerTick
             \/ count[a].open >= MaxOpen
          THEN Ends(t) /\ UNCHANGED count
          ELSE /\ count' = [count EXCEPT ![a].order = @ + 1, ![a].open = @ + 1]
               /\ Goes(t, "submit")
    /\ UNCHANGED <<world, members, gone, rest>>

\* world.submit: into the inbox of the tick that comes.
Submit(t) == /\ req[t].at = "submit"
             /\ inbox' = [inbox EXCEPT ![req[t].agent] = @ + 1]
             /\ Goes(t, "number")
             /\ UNCHANGED <<tick, resets, table, rest>>

\* Faulty: the number is the count of orders stored so far.
Number_FromSize(t) ==
    /\ req[t].at = "number"
    /\ req' = [req EXCEPT ![t].at = "store", ![t].id = Cardinality(DOMAIN orders) + 1]
    /\ nextId' = nextId + 1
    /\ UNCHANGED <<world, table, orders, idem>>

Number(t) == /\ req[t].at = "number"
             /\ req' = [req EXCEPT ![t].at = "store", ![t].id = nextId]
             /\ nextId' = nextId + 1
             /\ UNCHANGED <<world, table, orders, idem>>

Store(t) ==
    /\ req[t].at = "store"
    /\ orders' = Put(orders, req[t].id, [agent |-> req[t].agent, key |-> req[t].key,
                                         status |-> "resting"])
    /\ IF req[t].key = NoKey THEN Ends(t) ELSE Goes(t, "answer")
    /\ UNCHANGED <<world, table, nextId, idem>>

\* The answer is kept for its key.
Answer(t) ==
    /\ req[t].at = "answer"
    /\ idem' = Put(idem, <<req[t].agent, req[t].key>>, req[t].id)
    /\ Ends(t)
    /\ UNCHANGED <<world, table, orders, nextId>>

-----------------------------------------------------------------------------
(* cancel_order and firm_decisions *)

\* The order is looked up, and written back cancelled after its copy is made.
CancelReads(t, id) ==
    /\ req[t] = Idle /\ id \in DOMAIN orders
    /\ req' = [req EXCEPT ![t] = [at |-> "cancel", id |-> id, order |-> orders[id]]]
    /\ UNCHANGED <<world, table, rest>>
CancelWrites(t) ==
    /\ req[t].at = "cancel"
    /\ orders' = [orders EXCEPT ![req[t].id] = [req[t].order EXCEPT !.status = "cancelled"]]
    /\ Ends(t)
    /\ UNCHANGED <<world, table, nextId, idem>>

\* record_decision counts against the limit of the tick, then submits (decisions
\* in the inbox are left out).
Decide(t, a) ==
    /\ req[t] = Idle /\ Authenticated(a)
    /\ count[a].decision < DecisionsPerTick
    /\ count' = [count EXCEPT ![a].decision = @ + 1]
    /\ req' = [req EXCEPT ![t] = [at |-> "decision", agent |-> a]]
    /\ UNCHANGED <<world, members, gone, rest>>
DecisionSubmits(t) ==
    /\ req[t].at = "decision"
    /\ Ends(t)
    /\ UNCHANGED <<world, table, rest>>

-----------------------------------------------------------------------------
(* step_world, reset_world and the agent table *)

\* The clock advances and the inbox is read in INGEST.  No lock keeps a second
\* request from stepping the same world meanwhile.
StepBegins(t) == /\ req[t] = Idle /\ tick < MaxTick
                 /\ tick' = tick + 1
                 /\ req' = [req EXCEPT ![t] = [at |-> "ingested"]]
                 /\ UNCHANGED <<resets, inbox, table, rest>>

\* PUBLISH clears it.  The next of the n ticks of the request begins, or
\* sorted(handle.agents) is taken.
Publish(t) == /\ req[t].at = "ingested"
              /\ inbox' = [a \in Agents |-> 0]
              /\ \/ tick < MaxTick /\ tick' = tick + 1 /\ req' = req
                 \/ /\ req' = [req EXCEPT ![t] = [at |-> "counters", todo |-> members]]
                    /\ tick' = tick
              /\ UNCHANGED <<resets, table, rest>>

\* One body of the loop that sets the counts of the tick back.  An agent that
\* left meanwhile ends the request with an error.
CountersReset(t) ==
    /\ req[t].at = "counters"
    /\ IF req[t].todo = {} THEN Ends(t) /\ UNCHANGED count
       ELSE LET a == Min(req[t].todo)
            IN IF a \notin members THEN Ends(t) /\ UNCHANGED count
               ELSE /\ count' = [count EXCEPT ![a].order = 0, ![a].decision = 0]
                    /\ req' = [req EXCEPT ![t].todo = @ \ {a}]
    /\ UNCHANGED <<world, members, gone, rest>>

\* reset_world: the open orders of the agents are not set back.
Reset == /\ resets < MaxResets /\ (ResetsAlone => \A t \in Threads : req[t] = Idle)
         /\ resets' = resets + 1 /\ tick' = 0
         /\ inbox' = [a \in Agents |-> 0]
         /\ count' = [a \in Agents |-> IF a \in members
                                       THEN [count[a] EXCEPT !.order = 0, !.decision = 0]
                                       ELSE count[a]]
         /\ orders' = << >> /\ nextId' = 1 /\ idem' = << >>
         /\ UNCHANGED <<members, gone, req>>

\* unregister_agent and register_agent: a new record starts from zero.
Leave(a) == /\ a \in members
            /\ members' = members \ {a} /\ gone' = gone \cup {a}
            /\ UNCHANGED <<world, count, rest, req>>
Join(a) == /\ a \in Agents \ members /\ (a \in gone => MayRejoin)
           /\ members' = members \cup {a}
           /\ count' = [count EXCEPT ![a] = Zero]
           /\ UNCHANGED <<world, gone, rest, req>>

Request(t) == \/ \E a \in Agents, k \in Keys \cup {NoKey} : Lookup(t, a, k)
              \/ Count(t) \/ Submit(t) \/ Number(t) \/ Store(t) \/ Answer(t)
              \/ \E id \in DOMAIN orders : CancelReads(t, id)
              \/ CancelWrites(t)
              \/ \E a \in Agents : Decide(t, a)
              \/ DecisionSubmits(t)
              \/ StepBegins(t) \/ Publish(t) \/ CountersReset(t)

Next == \/ \E t \in Threads : Request(t)
        \/ Reset
        \/ \E a \in Agents : Leave(a) \/ Join(a)

Spec == Init /\ [][Next]_vars

-----------------------------------------------------------------------------
(* Properties *)

Resting(a) == {id \in DOMAIN orders : orders[id].agent = a /\ orders[id].status = "resting"}

\* Every variable has its type.
TypeOK == /\ tick \in 0 .. MaxTick /\ resets \in 0 .. MaxResets
          /\ members \subseteq Agents /\ gone \subseteq Agents
          /\ count \in [Agents -> [order : Nat,
                                   decision : 0 .. DecisionsPerTick, open : Nat]]
          /\ inbox \in [Agents -> Nat]
          /\ nextId \in 1 .. MaxId + 1
          /\ DOMAIN orders \subseteq 1 .. MaxId
          /\ \A id \in DOMAIN orders : orders[id] \in Order
          /\ DOMAIN idem \subseteq Agents \X Keys
          /\ \A ak \in DOMAIN idem : idem[ak] \in 1 .. MaxId
          /\ DOMAIN req = Threads

\* An agent that stays registered never has more resting orders, those on
\* their way included, than max_open_orders, whatever threads, cancels, steps
\* and resets do in between (submit_order, sessions.py:220-234).
RestingWithinLimit ==
    \A a \in members :
        Cardinality(Resting(a))
          + Cardinality({t \in Threads : req[t].at \in {"submit", "number", "store"}
                                         /\ req[t].agent = a}) =< MaxOpen

\* The limit is one of the tick, and more than that comes in: each request that
\* steps the world sets the counts back once, after it has emptied the inbox, and
\* requests step the same world side by side.  Of one agent a tick takes in no
\* more than one limit for each thread and one order that was on its way
\* (submit_order, sessions.py:220-234; step, sessions.py:247-256).
BurstBounded ==
    \A a \in Agents : inbox[a] =< Cardinality(Threads) * OrdersPerTick + 1

\* The answer kept for a key names a stored order of that agent under that
\* key, so a repeated request is told about its own order, when the operator
\* resets alone (post_order, rest.py:887-929).
AnswerIsOwnOrder ==
    \A ak \in DOMAIN idem :
        /\ idem[ak] \in DOMAIN orders
        /\ orders[idem[ak]].agent = ak[1] /\ orders[idem[ak]].key = ak[2]

\* One key of one agent stands for at most one order since the last reset,
\* when clients wait for an answer before they repeat a key.
OneOrderPerKey ==
    \A i, j \in DOMAIN orders :
        orders[i].key # NoKey /\ orders[i].agent = orders[j].agent
            /\ orders[i].key = orders[j].key => i = j

\* Until the next reset a stored order keeps its agent and its key, and a
\* cancelled one never rests again: no number is given twice (rest.py:908-910).
NumbersGivenOnce ==
    [][resets' = resets => \A id \in DOMAIN orders :
          /\ id \in DOMAIN orders'
          /\ orders'[id].agent = orders[id].agent /\ orders'[id].key = orders[id].key
          /\ orders[id].status = "cancelled" => orders'[id].status = "cancelled"]_vars

\* The limits of an agent: what rests, and what a tick takes in, with the requests
\* that a step overtook.
LimitsHold == TypeOK /\ RestingWithinLimit /\ BurstBounded

\* An answer is of the order it was asked for, a key is one order, and so is a number.
OrdersAnsweredOnce == [](AnswerIsOwnOrder /\ OneOrderPerKey) /\ NumbersGivenOnce
=============================================================================
