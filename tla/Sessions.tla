------------------------------ MODULE Sessions ------------------------------
(* The worlds of one server process: the manager that owns them and what the  *)
(* REST layer keeps beside it, agents that come and go, and a manager that    *)
(* is written out and read back by a new process (api/sessions.py, and the    *)
(* world and agent routes of api/rest.py).                                    *)
(*                                                                            *)
(* Requests run in a pool of threads.  The ledger is the deposits of the      *)
(* agents and the bank's other side of them.                                  *)
EXTENDS Integers, FiniteSets, FiniteSetsExt, Functions

CONSTANTS
    Agents, Requests,
    Capital,        \* starting_capital
    MaxWorlds, MaxTicks, MaxJoins,    \* bounds: ids handed out, days, registrations
    None

SessionsAssumption ==
    /\ Capital \in Nat \ {0} /\ None \notin Agents
    /\ MaxWorlds \in Nat /\ MaxTicks \in Nat /\ MaxJoins \in Nat

VARIABLES
    seq,      \* WorldManager._seq
    worlds,   \* WorldManager._worlds: id -> _ManagedWorld
    rest,     \* ids with a _WorldRest
    call,     \* what each request is doing
    saved,    \* to_state as last written, None before
    older,    \* ids a restart has read back
    crossed   \* <<id, agent>>: two registrations of the agent ran at a time

vars == <<seq, worlds, rest, call, saved, older, crossed>>

Ready == [step |-> "idle", world |-> None, agent |-> None]

\* joined is no field: how often a registration of the agent was completed.
NewWorld ==
    [tick |-> 0, status |-> "created", agents |-> {}, bank |-> 0,
     deposit |-> [a \in Agents |-> 0], joined |-> [a \in Agents |-> 0]]

\* A thread that holds a handle goes on with it when the world is deleted.
Update(id, w) == worlds' = IF id \in DOMAIN worlds THEN [worlds EXCEPT ![id] = w] ELSE worlds

\* _world_rest: both layers know the world.
Reachable == DOMAIN worlds \cap rest

-----------------------------------------------------------------------------
(* Worlds *)

\* create_world of the manager, then the record of the REST layer.
Create(r) ==
    /\ call[r] = Ready /\ seq < MaxWorlds
    /\ seq' = seq + 1
    /\ worlds' = [id \in DOMAIN worlds \cup {seq + 1} |-> IF id = seq + 1 THEN NewWorld ELSE worlds[id]]
    /\ call' = [call EXCEPT ![r] = [step |-> "created", world |-> seq + 1, agent |-> None]]
    /\ UNCHANGED <<rest, saved, older, crossed>>
Opened(r) ==
    /\ call[r].step = "created"
    /\ rest' = rest \cup {call[r].world}
    /\ call' = [call EXCEPT ![r] = Ready]
    /\ UNCHANGED <<seq, worlds, saved, older, crossed>>

\* delete_world: out of the manager, then out of the REST layer.
Delete(r, id) ==
    /\ call[r] = Ready /\ id \in Reachable
    /\ worlds' = Restrict(worlds, DOMAIN worlds \ {id})
    /\ call' = [call EXCEPT ![r] = [step |-> "deleted", world |-> id, agent |-> None]]
    /\ UNCHANGED <<seq, rest, saved, older, crossed>>
Closed(r) ==
    /\ call[r].step = "deleted"
    /\ rest' = rest \ {call[r].world}
    /\ call' = [call EXCEPT ![r] = Ready]
    /\ UNCHANGED <<seq, worlds, saved, older, crossed>>

Step(id) ==
    /\ id \in Reachable /\ worlds[id].tick < MaxTicks
    /\ Update(id, [worlds[id] EXCEPT !.tick = @ + 1, !.status = "running"])
    /\ UNCHANGED <<seq, rest, call, saved, older, crossed>>

\* reset_world: the clock starts over, agents and ledger stay.
ResetWorld(id) ==
    /\ id \in Reachable /\ worlds[id].tick > 0
    /\ Update(id, [worlds[id] EXCEPT !.tick = 0, !.status = "created"])
    /\ UNCHANGED <<seq, rest, call, saved, older, crossed>>

-----------------------------------------------------------------------------
(* Agents *)

\* register_agent: is the id free?
Register(r, id, a) ==
    /\ call[r] = Ready /\ id \in Reachable /\ a \notin worlds[id].agents
    /\ worlds[id].joined[a] < MaxJoins
    /\ call' = [call EXCEPT ![r] = [step |-> "free", world |-> id, agent |-> a]]
    /\ crossed' = IF \E q \in Requests : call[q].world = id /\ call[q].agent = a
                  THEN crossed \cup {<<id, a>>} ELSE crossed
    /\ UNCHANGED <<seq, worlds, rest, saved, older>>

\* The starting capital is posted: the bank owes what the agent gets.
Endow(w, a) == [w EXCEPT !.bank = @ - Capital, !.deposit[a] = @ + Capital]
Post(r) ==
    /\ call[r].step = "free"
    /\ call' = [call EXCEPT ![r].step = "posted"]
    /\ LET id == call[r].world
       IN  Update(id, Endow(worlds[id], call[r].agent))
    /\ UNCHANGED <<seq, rest, saved, older, crossed>>

\* The session is recorded and its token returned.
Enrol(w, a) == [w EXCEPT !.agents = @ \cup {a}, !.joined[a] = @ + 1]
Record(r) ==
    /\ call[r].step = "posted"
    /\ call' = [call EXCEPT ![r] = Ready]
    /\ LET id == call[r].world
       IN  Update(id, Enrol(worlds[id], call[r].agent))
    /\ UNCHANGED <<seq, rest, saved, older, crossed>>

\* unregister_agent: the session goes, the account stays.
Unregister(id, a) ==
    /\ id \in Reachable /\ a \in worlds[id].agents
    /\ Update(id, [worlds[id] EXCEPT !.agents = @ \ {a}])
    /\ UNCHANGED <<seq, rest, call, saved, older, crossed>>

-----------------------------------------------------------------------------
(* Restart *)

\* to_state, between requests; once, which is a bound.
State == [seq |-> seq, worlds |-> worlds]
Save ==
    /\ saved = None
    /\ \A r \in Requests : call[r] = Ready
    /\ saved' = State
    /\ UNCHANGED <<seq, worlds, rest, call, older, crossed>>

\* from_state in a new process: the requests are gone, and what the REST layer kept.
Restart ==
    /\ saved /= None
    /\ seq' = saved.seq /\ worlds' = saved.worlds
    /\ rest' = {} /\ call' = [r \in Requests |-> Ready]
    /\ older' = DOMAIN saved.worlds
    /\ UNCHANGED <<saved, crossed>>

-----------------------------------------------------------------------------
Init ==
    /\ seq = 0 /\ worlds = << >> /\ rest = {} /\ call = [r \in Requests |-> Ready]
    /\ saved = None /\ older = {} /\ crossed = {}

Next ==
    \/ \E r \in Requests : Create(r) \/ Opened(r) \/ Closed(r) \/ Post(r) \/ Record(r)
    \/ \E r \in Requests, id \in 1..MaxWorlds : Delete(r, id)
    \/ \E r \in Requests, id \in 1..MaxWorlds, a \in Agents : Register(r, id, a)
    \/ \E id \in 1..MaxWorlds : Step(id) \/ ResetWorld(id)
    \/ \E id \in 1..MaxWorlds, a \in Agents : Unregister(id, a)
    \/ Save \/ Restart

Spec == Init /\ [][Next]_vars

-----------------------------------------------------------------------------
TypeOK ==
    /\ seq \in 0..MaxWorlds /\ DOMAIN worlds \subseteq 1..seq /\ rest \subseteq 1..MaxWorlds
    /\ older \subseteq 1..MaxWorlds

\* In every world the bank owes what the agents hold, and an agent has been given its starting
\* capital once for each time it joined: for as long as no two registrations of it overlap,
\* through departures, resets and a restart (register_agent, to_state, from_state).  A world
\* that both layers know was created by this process, and one that was read back is not
\* reachable: its REST record went with the old process (from_state, _world_rest).
SessionsHold ==
    /\ \A id \in DOMAIN worlds :
         LET w == worlds[id]
         IN  /\ w.bank + MapThenSumSet(LAMBDA a : w.deposit[a], Agents) = 0
             /\ \A a \in Agents :
                  LET open == \E r \in Requests : call[r] = [step |-> "posted", world |-> id, agent |-> a]
                  IN  <<id, a>> \notin crossed =>
                        /\ w.deposit[a] = Capital * (w.joined[a] + IF open THEN 1 ELSE 0)
                        /\ a \in w.agents => w.joined[a] > 0
             /\ w.status = "created" <=> w.tick = 0
    /\ Reachable \cap older = {}
=============================================================================
