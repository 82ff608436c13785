------------------------------ MODULE Cascade ------------------------------
(***************************************************************************)
(* Random events and their cascades: the Events module of                  *)
(* events/scheduler.py over the event queue of core/clock.py, with the     *)
(* static check of events/chains.py and the control of the policy       *)
(* authorities.                                                            *)
(*                                                                         *)
(* A draw of the random generator is a choice of the model.  One tick of   *)
(* the world is several steps: what is due is popped, each due payload is  *)
(* handled in its place, then every event of the catalog is drawn, and the *)
(* headlines are published.                                                *)
(***************************************************************************)
EXTENDS Integers, Sequences, FiniteSets

CONSTANTS
    N,                      \* the catalog is 1 .. N, in the order of its ids
    Category, Cooldown,     \* of each event
    Followups,              \* of each event: a sequence of [to, delays]
    Lag,                    \* publication lag of its headline
    Height,                 \* longest follow-up chain below each event
    Governs,                \* the policy events each authority governs
    Controls,               \* the values its control may take
    MaxDepth, MaxConcurrent,
    Scripts,                \* events a scenario may script
    LastTick, MaxScripts    \* bounds on ticks and on scripted events

Catalog == 1 .. N
Policymakers == DOMAIN Governs

\* check_subcritical: the follow-up graph has no cycle and no chain longer than
\* max_depth.
Subcritical ==
    /\ Height \in [Catalog -> 0 .. MaxDepth]
    /\ \A e \in Catalog : \A k \in DOMAIN Followups[e] :
          Height[Followups[e][k].to] < Height[e]

\* What the constants must be.
ASSUME CascadeAssumption ==
    /\ N \in Nat /\ MaxDepth \in Nat /\ MaxConcurrent \in Nat \ {0}
    /\ LastTick \in Nat /\ MaxScripts \in Nat
    /\ Cooldown \in [Catalog -> Nat] /\ Lag \in [Catalog -> Nat]
    /\ Followups \in [Catalog -> Seq([to : Catalog, delays : SUBSET Nat])]
    /\ \A a \in Policymakers : Governs[a] \subseteq Catalog
    /\ Scripts \subseteq Catalog
    /\ "autopilot" \in Controls
    /\ Subcritical

VARIABLES
    clock,                  \* clock.tick
    queue, nextSeq,         \* EventQueue: _heap and _seq
    stage,                  \* where the tick is: "idle", "due", "draw"
    due,                    \* payloads still to handle, in order
    drawn,                  \* events of the catalog already drawn
    history,                \* CascadeNodes
    lastId, lastCat,        \* last_fire_id, last_fire_cat; -1 is never
    mode,                   \* control of each authority
    since,                  \* the tick in which each was taken over (a record of the model)
    pressure,               \* policy-pressure headlines: event and tick
    headlines, published,   \* headlines: index in history and tick
    refused,                \* due payloads that did not fire
    scripted                \* scripted events so far

cascade_vars == <<clock, queue, nextSeq, stage, due, drawn, history, lastId, lastCat, mode,
                  since, pressure, headlines, published, refused, scripted>>
fired == <<history, lastId, lastCat, headlines>>

Today == clock - 1
Payload == [kind : {"scripted", "followup"}, event : Catalog, depth : Nat,
            parent : 0 .. N, at : Nat]
QueueItem == [at : Nat, prio : {0, 1}, seq : Nat, load : Payload]

\* The order of the heap: (timestamp, priority, sequence).
Before(i, j) == \/ i.at < j.at
                \/ i.at = j.at /\ i.prio < j.prio
                \/ i.at = j.at /\ i.prio = j.prio /\ i.seq < j.seq

InOrder(S) == [k \in 1 .. Cardinality(S) |->
                 (CHOOSE i \in S : Cardinality({j \in S : Before(j, i)}) = k - 1).load]

Concurrent(t) == Cardinality({k \in DOMAIN history : history[k].tick = t})

\* Inside the cooldown of e since e, or since any event of its category, fired.
CoolsDown(e) == \/ lastId[e] >= 0 /\ Today - lastId[e] < Cooldown[e]
                \/ lastCat[Category[e]] >= 0 /\ Today - lastCat[Category[e]] < Cooldown[e]

\* Faulty: the cap is reached one firing too late.
MayFire_OneMore(e, depth, ignoreCooldown) ==
    /\ depth =< MaxDepth
    /\ Concurrent(Today) =< MaxConcurrent
    /\ ignoreCooldown \/ ~CoolsDown(e)

\* try_fire returns True
MayFire(e, depth, ignoreCooldown) ==
    /\ depth =< MaxDepth
    /\ Concurrent(Today) < MaxConcurrent
    /\ ignoreCooldown \/ ~CoolsDown(e)

Autopilot(e) == \A a \in Policymakers : e \in Governs[a] => mode[a] = "autopilot"

Fire(load) ==
    LET e == load.event
    IN /\ history' = Append(history, [tick |-> Today, load |-> load,
                                      autopilot |-> Autopilot(e)])
       /\ lastId' = [lastId EXCEPT ![e] = Today]
       /\ lastCat' = [lastCat EXCEPT ![Category[e]] = Today]
       /\ headlines' = headlines \cup {[node |-> Len(history) + 1, at |-> Today + Lag[e]]}

\* Faulty: a policymaker's authority goes on acting by itself.
Open_All(e) == DOMAIN Followups[e]

\* The follow-ups whose authority does not block them.
Open(e) == {k \in DOMAIN Followups[e] : Autopilot(Followups[e][k].to)}

\* What a follow-up carries in the queue.
FollowUp(load, k, delay) ==
    [kind |-> "followup", event |-> Followups[load.event][k].to,
     depth |-> load.depth + 1, parent |-> load.event, at |-> Today + delay]

\* max(1, round(sample))
Delay(d) == IF d < 1 THEN 1 ELSE d

\* EventQueue.schedule numbers its items as they come.
Number(sampled, k) == nextSeq + Cardinality({j \in sampled : j < k})

\* schedule_followups: the blocked ones become headlines, of the others some are
\* sampled, each with a delay of its distribution.
ScheduleFollowups(load) ==
    LET blocked == DOMAIN Followups[load.event] \ Open(load.event)
    IN /\ pressure' = pressure \cup
              {[event |-> Followups[load.event][k].to, tick |-> Today] : k \in blocked}
       /\ \E sampled \in SUBSET Open(load.event) :
          \E d \in [sampled -> UNION {Followups[load.event][k].delays : k \in sampled}] :
                /\ \A k \in sampled : d[k] \in Followups[load.event][k].delays
                /\ queue' = queue \cup
                     {[at |-> Today + Delay(d[k]), prio |-> 1, seq |-> Number(sampled, k),
                       load |-> FollowUp(load, k, Delay(d[k]))] : k \in sampled}
                /\ nextSeq' = nextSeq + Cardinality(sampled)

-----------------------------------------------------------------------------
(* Between ticks *)

Between == stage = "idle"

\* A scenario queues a scripted event.
ScriptEvent(e, at) ==
    /\ Between /\ scripted < MaxScripts
    /\ queue' = queue \cup
         {[at |-> at, prio |-> 0, seq |-> nextSeq,
           load |-> [kind |-> "scripted", event |-> e, depth |-> 0, parent |-> 0, at |-> at]]}
    /\ nextSeq' = nextSeq + 1
    /\ scripted' = scripted + 1
    /\ UNCHANGED <<clock, stage, due, drawn, fired, mode, since, pressure, published,
                   refused>>

\* A policymaker registers or leaves.
SetControl(a, c) ==
    /\ Between /\ c # mode[a]
    /\ mode' = [mode EXCEPT ![a] = c]
    /\ since' = [since EXCEPT ![a] = IF c = "autopilot" THEN 0
                                    ELSE IF mode[a] = "autopilot" THEN clock ELSE @]
    /\ UNCHANGED <<clock, queue, nextSeq, stage, due, drawn, fired, pressure, published,
                   refused, scripted>>

-----------------------------------------------------------------------------
(* A tick *)

\* Clock.advance: what is due is popped.
Advance ==
    /\ Between /\ clock < LastTick
    /\ LET now == {i \in queue : i.at =< clock}
       IN /\ due' = InOrder(now)
          /\ queue' = queue \ now
    /\ clock' = clock + 1
    /\ stage' = "due"
    /\ UNCHANGED <<nextSeq, drawn, fired, mode, since, pressure, published, refused,
                   scripted>>

\* A scripted event fires whenever it fired last.
IgnoresCooldown(load) == load.kind = "scripted"

\* The next due payload fires, or is dropped.
HandleDue ==
    /\ stage = "due" /\ due # <<>>
    /\ LET load == Head(due)
       IN IF MayFire(load.event, load.depth, IgnoresCooldown(load))
            THEN Fire(load) /\ ScheduleFollowups(load) /\ UNCHANGED refused
            ELSE /\ refused' = refused \cup {[load |-> load, tick |-> Today]}
                 /\ UNCHANGED <<fired, queue, nextSeq, pressure>>
    /\ due' = Tail(due)
    /\ UNCHANGED <<clock, stage, drawn, mode, since, published, scripted>>

BeginDraws == /\ stage = "due" /\ due = <<>>
              /\ stage' = "draw" /\ drawn' = 0
              /\ UNCHANGED <<clock, queue, nextSeq, due, fired, mode, since, pressure, published,
                             refused, scripted>>

\* The hazard of the next event of the catalog strikes, or does not.
Draw ==
    /\ stage = "draw" /\ drawn < N
    /\ drawn' = drawn + 1
    /\ LET load == [kind |-> "draw", event |-> drawn + 1, depth |-> 0, parent |-> 0,
                    at |-> Today]
       IN \/ UNCHANGED <<fired, queue, nextSeq, pressure>>
          \/ /\ MayFire(load.event, 0, FALSE)
             /\ Fire(load) /\ ScheduleFollowups(load)
    /\ UNCHANGED <<clock, stage, due, mode, since, published, refused, scripted>>

\* Phase PUBLISH: the headlines whose lag is over.
Publish ==
    /\ stage = "draw" /\ drawn = N
    /\ LET ready == {p \in headlines : p.at =< Today}
       IN /\ published' = published \cup {[node |-> p.node, tick |-> Today] : p \in ready}
          /\ headlines' = headlines \ ready
    /\ stage' = "idle"
    /\ UNCHANGED <<clock, queue, nextSeq, due, drawn, history, lastId, lastCat, mode,
                   since, pressure, refused, scripted>>

-----------------------------------------------------------------------------
CascadeInit ==
    /\ clock = 0 /\ queue = {} /\ nextSeq = 0
    /\ stage = "idle" /\ due = <<>> /\ drawn = 0
    /\ history = <<>>
    /\ lastId = [e \in Catalog |-> -1]
    /\ lastCat = [c \in {Category[e] : e \in Catalog} |-> -1]
    /\ mode = [a \in Policymakers |-> "autopilot"] /\ since = [a \in Policymakers |-> 0]
    /\ pressure = {} /\ headlines = {} /\ published = {} /\ refused = {}
    /\ scripted = 0

CascadeNext ==
    \/ \E e \in Scripts, at \in clock .. LastTick - 1 : ScriptEvent(e, at)
    \/ \E a \in Policymakers, c \in Controls : SetControl(a, c)
    \/ Advance \/ HandleDue \/ BeginDraws \/ Draw \/ Publish

CascadeSpec == CascadeInit /\ [][CascadeNext]_cascade_vars

-----------------------------------------------------------------------------
(* Properties *)

Loads == [kind : {"scripted", "followup", "draw"}, event : Catalog, depth : Nat,
          parent : 0 .. N, at : Nat]

\* Every variable keeps its type; no two items of the queue have one number.
CascadeTyped ==
    /\ clock \in 0 .. LastTick /\ scripted \in 0 .. MaxScripts
    /\ queue \subseteq QueueItem /\ nextSeq \in Nat
    /\ \A i, j \in queue : i.seq = j.seq => i = j
    /\ \A i \in queue : i.seq < nextSeq
    /\ stage \in {"idle", "due", "draw"} /\ drawn \in 0 .. N
    /\ due \in Seq(Payload)
    /\ history \in Seq([tick : Nat, load : Loads, autopilot : BOOLEAN])
    /\ \A e \in Catalog : lastId[e] \in -1 .. LastTick
    /\ \A c \in DOMAIN lastCat : lastCat[c] \in -1 .. LastTick
    /\ mode \in [Policymakers -> Controls] /\ since \in [Policymakers -> 0 .. LastTick]
    /\ pressure \subseteq [event : Catalog, tick : Nat]
    /\ headlines \subseteq [node : Nat, at : Nat]
    /\ published \subseteq [node : Nat, tick : Nat]
    /\ refused \subseteq [load : Payload, tick : Nat]

\* The cascade log is a forest: a follow-up fires on the tick it was scheduled for,
\* after an event that lists it fired one level above.
CascadeIsAForest ==
    \A j \in DOMAIN history :
        LET node == history[j]
        IN node.load.kind = "followup" =>
             /\ node.tick = node.load.at
             /\ \E i \in 1 .. j - 1 :
                   /\ history[i].tick < node.tick
                   /\ history[i].load.event = node.load.parent
                   /\ history[i].load.depth = node.load.depth - 1
                   /\ \E k \in DOMAIN Followups[node.load.parent] :
                         Followups[node.load.parent][k].to = node.load.event

\* No tick has more firings than the cap, and because the catalog is sub-critical
\* no follow-up is ever scheduled that the depth cap would drop.
CascadesAreBounded ==
    /\ \A t \in 0 .. clock : Concurrent(t) =< MaxConcurrent
    /\ \A i \in queue : i.load.depth + Height[i.load.event] =< MaxDepth
    /\ \A r \in refused : r.load.depth =< MaxDepth

\* No event that is not scripted fires within its cooldown of the same event or of
\* its category, in whatever way that one came about.
CooldownKept ==
    \A i, j \in DOMAIN history :
        LET e == history[j].load.event
        IN /\ i < j /\ history[j].load.kind # "scripted"
           /\ Category[history[i].load.event] = Category[e]
           => history[j].tick - history[i].tick >= Cooldown[e]

\* Only other scripted events can take the place of a scripted one: follow-ups and
\* draws of the same tick come after it.
ScriptedComesFirst ==
    \A r \in refused :
        r.load.kind = "scripted" =>
            Cardinality({k \in DOMAIN history : /\ history[k].tick = r.tick
                                                /\ history[k].load.kind = "scripted"})
              = MaxConcurrent

\* Between ticks the headlines out are those of the events that fired their lag ago
\* or earlier, each published once and on its day.
HeadlinesOnTheDay ==
    Between => published = {[node |-> k, tick |-> history[k].tick + Lag[history[k].load.event]] :
                            k \in {j \in DOMAIN history :
                                     history[j].tick + Lag[history[j].load.event] < clock}}

\* What is queued, or popped and not yet handled.
Waiting == {i.load : i \in queue} \cup {due[k] : k \in DOMAIN due}

\* Event i of the history listed this follow-up, and one of its delays leads to its tick.
Caused(load, i) ==
    /\ history[i].load.event = load.parent /\ history[i].load.depth = load.depth - 1
    /\ \E k \in DOMAIN Followups[load.parent] :
          /\ Followups[load.parent][k].to = load.event
          /\ \E d \in Followups[load.parent][k].delays : load.at = history[i].tick + Delay(d)

\* Event i fired before anybody took over the authorities that govern e.
BeforeTakeOver(i, e) ==
    \A a \in Policymakers :
        e \in Governs[a] /\ mode[a] # "autopilot" => history[i].tick < since[a]

\* Control is asked for when a follow-up is scheduled and never again
\* (scheduler.py:192-233): what may still act in the place of a policymaker are the
\* follow-ups of causes that fired before it took over, each no later than the delay its
\* cause drew; whatever fires while it holds the authority adds none, in whatever
\* order events, controls and ticks come.
ControlRespected ==
    \A load \in Waiting :
        load.kind = "followup" =>
            \E i \in DOMAIN history : Caused(load, i) /\ BeforeTakeOver(i, load.event)

\* What claude/plan/04-phase4-events.md says of a policy follow-up: it is not executed
\* when the authority it belongs to is not on autopilot.
FollowupsRespectControl ==
    \A k \in DOMAIN history :
        history[k].load.kind = "followup" => history[k].autopilot

\* Follow-ups form bounded cascades behind their causes, events of a kind keep
\* their distance, what a scenario asks for comes first and headlines on their day.
CascadesInOrder ==
    /\ CascadeTyped /\ CascadeIsAForest /\ CascadesAreBounded
    /\ CooldownKept /\ ScriptedComesFirst /\ HeadlinesOnTheDay
=============================================================================
