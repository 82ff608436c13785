------------------------------ MODULE Lockstep ------------------------------
(***************************************************************************)
(* The lockstep barrier of api/lockstep.py and the world it steps.         *)
(*                                                                         *)
(* Agents register and act in any order and at any time; an input lands on *)
(* the tick it targets, on the next one when it is late, or on the tick    *)
(* being collected when its target has passed.  Once every registered      *)
(* agent is heard, or timed out with an empty input, the inputs of the     *)
(* tick go to the world and the world steps.                               *)
(*                                                                         *)
(* An entry of _pending carries its arrival number n: the list is in the   *)
(* order of n, and the stable sort by (agent, sequence) breaks ties by n.  *)
(***************************************************************************)
EXTENDS Integers, FiniteSets

CONSTANTS
    Agents,                 \* agent identifiers
    Seqs,                   \* client sequence numbers; 0 is the timeout's
    MaxTick,                \* the world is stepped at most this often
    MaxInputs,              \* bound on the inputs that arrive
    MaxAhead,               \* how far ahead of the world an agent targets
    PerTick                 \* agents number their inputs anew for each target

ASSUME LockstepAssumption ==
    /\ Seqs \subseteq Nat \ {0}
    /\ MaxTick \in Nat /\ MaxInputs \in Nat /\ MaxAhead \in Nat
    /\ PerTick \in BOOLEAN

Ticks == 0 .. MaxTick - 1
Dests == 0 .. MaxTick + MaxAhead + 1

VARIABLES
    tick,                   \* world.clock.tick
    known,                  \* _known
    pending,                \* _pending
    timedOut,               \* _timed_out
    applied,                \* applied[t]: the inputs the world ingested at tick t
    members,                \* members[t]: the agents registered when t was stepped
    arrivals,               \* inputs that arrived so far
    saved,                  \* the state to_state wrote last
    restored                \* from_state has put an earlier state back

vars == <<tick, known, pending, timedOut, applied, members, arrivals, saved, restored>>

Barrier == [known |-> known, pending |-> pending, timedOut |-> timedOut]

\* target and late are what the sender said, came the tick it arrived in.
Entry == [n : Nat, agent : Agents, seq : Nat, empty : BOOLEAN, dest : Dests,
          target : Dests, late : BOOLEAN, came : Dests]

Present(t) == {e.agent : e \in {f \in pending : f.dest = t}}
Missing == known \ Present(tick)

\* Faulty: overdue inputs are taken along.
Due_Overdue == {e \in pending : e.dest =< tick}

Due == {e \in pending : e.dest = tick}
Arrived == pending \cup UNION {applied[t] : t \in Ticks}

-----------------------------------------------------------------------------
Init == /\ tick = 0
        /\ known = {} /\ pending = {} /\ timedOut = {}
        /\ applied = [t \in Ticks |-> {}]
        /\ members = [t \in Ticks |-> {}]
        /\ arrivals = 0
        /\ saved = Barrier
        /\ restored = FALSE

Register(a) == /\ a \notin known
               /\ known' = known \cup {a}
               /\ UNCHANGED <<tick, pending, timedOut, applied, members, arrivals,
                              saved, restored>>

\* _destination_tick
Destination(target, late) == IF target < tick THEN tick
                             ELSE IF late THEN target + 1 ELSE target

\* What the senders keep to: they use a number once in a session or, when they
\* number per tick, once for a target.
Unused(a, seq, target) ==
    ~\E e \in Arrived : /\ ~e.empty /\ e.agent = a /\ e.seq = seq
                        /\ PerTick => e.target = target

Act(a, seq, target, late) ==
    /\ a \in known
    /\ arrivals < MaxInputs
    /\ Unused(a, seq, target)
    /\ pending' = pending \cup
         {[n |-> arrivals, agent |-> a, seq |-> seq, empty |-> FALSE,
           dest |-> Destination(target, late), target |-> target, late |-> late,
           came |-> tick]}
    /\ arrivals' = arrivals + 1
    /\ UNCHANGED <<tick, known, timedOut, applied, members, saved, restored>>

EmptyAction(a, n) == [n |-> n, agent |-> a, seq |-> 0, empty |-> TRUE, dest |-> tick,
                      target |-> tick, late |-> FALSE, came |-> tick]

\* Faulty: an agent with an input for a later tick is taken for heard.
TimeoutMissing_AnyTick ==
    LET silent == known \ {e.agent : e \in pending}
    IN /\ silent # {}
       /\ pending' = pending \cup {EmptyAction(a, arrivals) : a \in silent}
       /\ timedOut' = timedOut \cup silent
       /\ arrivals' = arrivals + 1
       /\ UNCHANGED <<tick, known, applied, members, saved, restored>>

\* An empty input for every agent not heard in this tick; they share an arrival
\* number, as no two of them are of one agent.
TimeoutMissing ==
    /\ Missing # {}
    /\ pending' = pending \cup {EmptyAction(a, arrivals) : a \in Missing}
    /\ timedOut' = timedOut \cup Missing
    /\ arrivals' = arrivals + 1
    /\ UNCHANGED <<tick, known, applied, members, saved, restored>>

\* Faulty: the tick is stepped as soon as anyone is heard.
MaybeAdvance_AnyHeard ==
    /\ Present(tick) # {} \/ known = {}
    /\ tick < MaxTick
    /\ applied' = [applied EXCEPT ![tick] = Due]
    /\ members' = [members EXCEPT ![tick] = known]
    /\ pending' = pending \ Due
    /\ timedOut' = {}
    /\ tick' = tick + 1
    /\ UNCHANGED <<known, arrivals, saved, restored>>

\* Every registered agent is heard: the due inputs are submitted and the world
\* steps; what is not due stays.
MaybeAdvance ==
    /\ Missing = {}
    /\ tick < MaxTick
    /\ applied' = [applied EXCEPT ![tick] = Due]
    /\ members' = [members EXCEPT ![tick] = known]
    /\ pending' = pending \ Due
    /\ timedOut' = {}
    /\ tick' = tick + 1
    /\ UNCHANGED <<known, arrivals, saved, restored>>

\* The owner writes the barrier's state down (to_state),
Save == /\ saved # Barrier /\ ~restored
        /\ saved' = Barrier
        /\ UNCHANGED <<tick, known, pending, timedOut, applied, members, arrivals, restored>>

\* and later builds the barrier from it on the live world (from_state), once in a
\* behaviour.
Restore == /\ saved # Barrier /\ ~restored
           /\ known' = saved.known /\ pending' = saved.pending
           /\ timedOut' = saved.timedOut
           /\ restored' = TRUE
           /\ UNCHANGED <<tick, applied, members, arrivals, saved>>

Next == \/ \E a \in Agents :
             \/ Register(a)
             \/ \E seq \in Seqs, ahead \in -1 .. MaxAhead, late \in BOOLEAN :
                   tick + ahead >= 0 /\ Act(a, seq, tick + ahead, late)
        \/ TimeoutMissing \/ MaybeAdvance \/ Save \/ Restore

Spec == Init /\ [][Next]_vars

\* The game loop times out the silent and tries to advance, again and again.
FairSpec == Spec /\ WF_vars(TimeoutMissing) /\ WF_vars(MaybeAdvance)

-----------------------------------------------------------------------------
(* Properties *)

BarrierType(k, p, o) == k \subseteq Agents /\ p \subseteq Entry /\ o \subseteq Agents

\* Every variable keeps its type.
TypeOK == /\ tick \in 0 .. MaxTick
          /\ BarrierType(known, pending, timedOut)
          /\ applied \in [Ticks -> SUBSET Entry]
          /\ members \in [Ticks -> SUBSET Agents]
          /\ arrivals \in Nat
          /\ saved \in [known : SUBSET Agents, pending : SUBSET Entry,
                        timedOut : SUBSET Agents]
          /\ restored \in BOOLEAN

\* No input is applied twice, even when the barrier is restored from a state
\* written before the world stepped: what is stale then never comes due again.
AppliedAtMostOnce ==
    \A t, u \in Ticks :
        \A e \in applied[t], f \in applied[u] :
            e.n = f.n /\ e.agent = f.agent => t = u /\ e = f

\* As long as no earlier state is restored no input is lost or stranded: it was
\* applied at the tick it landed on, or waits for a tick still to come.
NoneStranded == ~restored => \A e \in pending : e.dest >= tick

\* The world never steps past an agent that was neither heard nor timed out.
EveryoneHeard == \A t \in Ticks : members[t] \subseteq {e.agent : e \in applied[t]}

\* An input is applied on the tick it targets if it came in time, on the next one
\* if it is late, and never on a tick before the one it came in.
LandsOnTime ==
    \A t \in Ticks : \A e \in applied[t] :
        /\ t >= e.target /\ t >= e.came
        /\ e.late => t > e.target
        /\ ~e.late /\ e.target >= e.came => t = e.target

\* The empty input stands for an agent that was silent: it is the agent's first
\* of the tick, and the only empty one.
EmptyForTheSilent ==
    \A t \in Ticks : \A e, f \in applied[t] :
        e.empty /\ f.agent = e.agent /\ e # f => ~f.empty /\ f.n > e.n

\* The order the world sees does not depend on the order of arrival: (agent_id,
\* sequence) alone sorts the inputs of a tick (Gate 2: "same seed + same actions ->
\* same hash regardless of submit order").
OrderIsByKey ==
    \A t \in Ticks : \A e, f \in applied[t] :
        e.agent = f.agent /\ e.seq = f.seq => e = f

\* The world keeps stepping however silent the agents are.
WorldAdvances == <>(tick = MaxTick)

\* An input is applied at most once, on the tick it is for, or on the next one if
\* it was late, and waits for no tick that has passed.
InputsOnceOnTime == TypeOK /\ AppliedAtMostOnce /\ NoneStranded /\ LandsOnTime

\* A tick has an input of everyone who was registered, an empty one of the silent
\* before what they send late, and an order that the inputs themselves give.
TicksComplete == EveryoneHeard /\ EmptyForTheSilent /\ (~PerTick => OrderIsByKey)
=============================================================================
