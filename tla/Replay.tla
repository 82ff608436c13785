------------------------------- MODULE Replay -------------------------------
(***************************************************************************)
(* Worlds that can be taken back: world.py with its clock and its random   *)
(* streams (core/clock.py, core/rng.py), the event-sourced log of          *)
(* scenarios/replay.py and the registry of storage/.                       *)
(*                                                                         *)
(* One live world runs and is recorded.  Beside it there may be a replica: *)
(* a world loaded from a snapshot, which then gets what the live one gets, *)
(* or a world that replays the log.  The process may crash, also between   *)
(* or within the writes of a save, and start again from the disk.          *)
(*                                                                         *)
(* The hash of a world is its state as to_state writes it (Digest).  A     *)
(* draw is the number of draws its stream had given before.  The modules   *)
(* are those that save what they have; FirmAgentModule does not.           *)
(***************************************************************************)
EXTENDS Integers, FiniteSets, SequencesExt, TLC

CONSTANTS
    Agents,                 \* the agents, numbered in the order of their ids
    Batches,                \* what may arrive for one tick: [agent, seq, what]
    Scenarios,              \* scripts: sequences of [t, event, p]
    FollowUp,               \* FollowUp[e] follows e one tick later, or e itself: none
    None, Torn,             \* no world or file; a file cut off by a crash
    MaxTick, MaxSaves, MaxCrashes

VARIABLES
    live,                   \* the world that is recorded, None after a crash
    log,                    \* its ReplayLog
    disk,                   \* the store: meta, snap[tick] and the log
    saving,                 \* how far register has come
    replica,                \* [kind, world, tick: where it started]
    saves, crashes,
    cut                     \* a crash came between a row and its snapshot

vars == <<live, log, disk, saving, replica, saves, crashes, cut>>

Ticks == 0 .. MaxTick

NoReplica == [kind |-> "none"]

-----------------------------------------------------------------------------
(* A world.                                                                *)

\* reset: a stream starts from the seed when it is first asked for.
Fresh == [tick |-> 0, queue |-> {}, qseq |-> 0, rng |-> "walk" :> 0,
          inbox |-> [a \in Agents |-> <<>>],
          walk |-> <<>>, acts |-> <<>>, fired |-> <<>>, obs |-> <<>>]

Stream(w, name) == IF name \in DOMAIN w.rng THEN w.rng[name] ELSE 0
Drawn(w, name) == [w EXCEPT !.rng = (name :> Stream(w, name) + 1) @@ @]

Schedule(w, t, kind, e, p) ==
    [w EXCEPT !.queue = @ \cup {[t |-> t, p |-> p, s |-> w.qseq, kind |-> kind, event |-> e]},
              !.qseq = @ + 1]

Sooner(x, y) == \/ x.t < y.t
                \/ x.t = y.t /\ x.p < y.p
                \/ x.t = y.t /\ x.p = y.p /\ x.s < y.s

\* pop_due at the tick that begins.
Due(w) == SetToSortSeq({i \in w.queue : i.t =< w.tick}, Sooner)

\* EVENTS: what is due fires, and is followed up.
Fired(w, i) ==
    LET seen == [Drawn(w, "events") EXCEPT !.fired = Append(@, <<i.event, Stream(w, "events")>>)]
    IN  IF FollowUp[i.event] = i.event THEN seen
        ELSE Schedule(seen, w.tick + 1, "followup", FollowUp[i.event], 0)

Left(w) == {i \in w.queue : i.t > w.tick}

Happened(w) ==
    LET after == [w EXCEPT !.queue = Left(w)]
        shaken == FoldLeft(Fired, after, Due(w))
    IN  [Drawn(shaken, "walk") EXCEPT !.walk = Append(@, Stream(w, "walk"))]

\* INGEST: the modules read the inbox agent by agent.
Ingested(w) ==
    LET of(a) == [i \in DOMAIN w.inbox[a] |-> <<w.tick, a, w.inbox[a][i]>>]
    IN  [w EXCEPT !.acts = @ \o FlattenSeq([i \in 1 .. Cardinality(Agents) |->
                                               of(SetToSortSeq(Agents, <)[i])])]

\* PUBLISH clears the inbox and shows what was ingested this tick.
Stepped(w) ==
    LET did == Ingested(Happened(w))
    IN  [did EXCEPT !.inbox = [a \in Agents |-> <<>>], !.tick = w.tick + 1,
                    !.obs = SelectSeq(did.acts, LAMBDA x : x[1] = w.tick)]

Submitted(w, inputs) ==
    FoldLeft(LAMBDA v, r : [v EXCEPT !.inbox[r.agent] = Append(@, r.what)], w, inputs)

\* What to_state writes: everything but the observations.
Digest(w) == [f \in DOMAIN w \ {"obs"} |-> w[f]]

\* create, then load_state: there is nothing to observe yet.
Loaded(state) == [f \in DOMAIN Fresh |-> IF f = "obs" THEN Fresh.obs ELSE state[f]]

-----------------------------------------------------------------------------
(* The log.                                                                *)

NoLog == [records |-> <<>>, scripted |-> <<>>, snaps |-> <<>>]

\* record_applied, called after the step: the tick the inputs were applied in.
Recorded(w, inputs) ==
    [i \in DOMAIN inputs |-> [tick |-> w.tick - 1, agent |-> inputs[i].agent,
                              seq |-> inputs[i].seq, what |-> inputs[i].what]]

Snapped(w) == [tick |-> w.tick, hash |-> Digest(w)]

InOrder(r, q) == \/ r.agent < q.agent
                 \/ r.agent = q.agent /\ r.seq < q.seq

\* Faulty: the inputs of a tick are replayed in the order of the log.
ForTick_AsLogged(l, t) == SelectSeq(l.records, LAMBDA r : r.tick = t)
ForTick(l, t) == SortSeq(SelectSeq(l.records, LAMBDA r : r.tick = t), InOrder)

Most(S) == CHOOSE n \in S : \A m \in S : m =< n

Horizon(l) ==
    Most({0} \cup {l.snaps[i].tick : i \in DOMAIN l.snaps}
             \cup {l.records[i].tick + 1 : i \in DOMAIN l.records})

Scripted(w, l) ==
    FoldLeft(LAMBDA v, e : Schedule(v, e.t, "scripted", e.event, e.p), w, l.scripted)

-----------------------------------------------------------------------------
Init ==
    /\ live = Fresh /\ log = NoLog
    /\ disk = [meta |-> None, snap |-> [t \in Ticks |-> None], log |-> None]
    /\ saving = "no" /\ replica = NoReplica /\ saves = 0 /\ crashes = 0 /\ cut = FALSE

Running == live # None /\ saving = "no"

\* A scenario's events are logged and queued before the first step.
Script(script) ==
    /\ Running /\ live = Fresh /\ replica = NoReplica
    /\ log' = [log EXCEPT !.scripted = script]
    /\ live' = FoldLeft(LAMBDA v, e : Schedule(v, e.t, "scripted", e.event, e.p), live, script)
    /\ UNCHANGED <<disk, saving, replica, saves, crashes, cut>>

\* The barrier applies a batch in the order of (agent, sequence) and steps; it
\* is recorded in that order or, input by input, as it arrived.
Advance(b, arrived) ==
    LET inputs == SortSeq(b, InOrder)
        next == Stepped(Submitted(live, inputs))
    IN  /\ Running /\ live.tick < MaxTick
        /\ live' = next
        /\ log' = [log EXCEPT !.records = @ \o Recorded(next, IF arrived THEN b ELSE inputs),
                              !.snaps = Append(@, Snapped(next))]
        /\ replica' = IF replica.kind # "twin" THEN replica
                      ELSE [replica EXCEPT !.world = Stepped(Submitted(@, inputs))]
        /\ UNCHANGED <<disk, saving, saves, crashes, cut>>

Written == [disk.snap EXCEPT ![live.tick] = Digest(live)]

\* register: the meta row, the snapshot, the log, one file after another.
Save ==
    /\ live # None /\ UNCHANGED <<live, log, replica, crashes>>
    /\ \/ /\ saving = "no" /\ saves < MaxSaves
          /\ saves' = saves + 1 /\ saving' = "meta"
          /\ disk' = [disk EXCEPT !.meta = Snapped(live)]
          /\ UNCHANGED cut
       \/ /\ saving = "meta" /\ saving' = "snap"
          /\ disk' = [disk EXCEPT !.snap = Written] /\ cut' = FALSE
          /\ UNCHANGED saves
       \/ /\ saving = "snap" /\ saving' = "no"
          /\ disk' = [disk EXCEPT !.log = log]
          /\ UNCHANGED <<saves, cut>>

\* The process ends; the file that was being written may be cut off.
Crash(torn) ==
    /\ live # None /\ crashes < MaxCrashes
    /\ live' = None /\ log' = NoLog /\ saving' = "no" /\ replica' = NoReplica
    /\ crashes' = crashes + 1 /\ cut' = (cut \/ saving = "meta")
    /\ torn => saving \in {"meta", "snap"}
    /\ disk' = IF ~torn THEN disk
               ELSE IF saving = "meta" THEN [disk EXCEPT !.snap[live.tick] = Torn]
               ELSE [disk EXCEPT !.log = Torn]
    /\ UNCHANGED saves

\* load_world at a tick whose snapshot can be read, while the live world is there.
Load(t) ==
    /\ Running /\ replica = NoReplica /\ t = live.tick
    /\ disk.snap[t] \notin {None, Torn}
    /\ Digest(live) = disk.snap[t]
    /\ replica' = [kind |-> "twin", world |-> Loaded(disk.snap[t]), at |-> t]
    /\ UNCHANGED <<live, log, disk, saving, saves, crashes, cut>>

\* After a crash a process goes on from any snapshot it can read.
Restart(t) ==
    /\ live = None /\ disk.snap[t] \notin {None, Torn}
    /\ live' = Loaded(disk.snap[t])
    /\ log' = [NoLog EXCEPT !.scripted = IF disk.log \in {None, Torn} THEN <<>> ELSE disk.log.scripted]
    /\ UNCHANGED <<disk, saving, replica, saves, crashes, cut>>

\* replay(create_world(log), log), step by step.
StartReplay ==
    /\ Running /\ replica = NoReplica /\ crashes = 0
    /\ replica' = [kind |-> "replay", world |-> Scripted(Fresh, log), log |-> log, end |-> Horizon(log)]
    /\ UNCHANGED <<live, log, disk, saving, saves, crashes, cut>>

ReplayStep ==
    /\ replica.kind = "replay" /\ replica.world.tick < replica.end
    /\ replica' = [replica EXCEPT !.world = Stepped(Submitted(@, ForTick(replica.log, replica.world.tick)))]
    /\ UNCHANGED <<live, log, disk, saving, saves, crashes, cut>>

Next ==
    \/ \E script \in Scenarios : Script(script)
    \/ \E b \in Batches, arrived \in BOOLEAN : Advance(b, arrived)
    \/ Save
    \/ \E torn \in BOOLEAN : Crash(torn)
    \/ \E t \in Ticks : Load(t) \/ Restart(t)
    \/ StartReplay \/ ReplayStep

Spec == Init /\ [][Next]_vars

-----------------------------------------------------------------------------
\* A world has had each of its ticks once: one draw and no event late.
TypeOK ==
    /\ saving \in {"no", "meta", "snap"} /\ saves \in 0 .. MaxSaves
    /\ replica.kind \in {"none", "twin", "replay"}
    /\ live # None =>
        /\ live.tick \in Ticks /\ live.walk = [i \in 1 .. live.tick |-> i - 1]
        /\ \A i \in live.queue : i.t >= live.tick /\ i.s < live.qseq

\* A loaded world hashes as the world that was saved and goes on doing so when
\* both get the same inputs; after its first step it shows the same as well.
TwinStaysEqual ==
    replica.kind = "twin" =>
        /\ Digest(replica.world) = Digest(live)
        /\ replica.world.tick > replica.at => replica.world.obs = live.obs

\* A replay reproduces the hash of every tick that was recorded, whatever
\* order the inputs of a tick stand in.
ReplayReproduces ==
    replica.kind = "replay" =>
        \A i \in DOMAIN replica.log.snaps :
            replica.log.snaps[i].tick = replica.world.tick =>
                replica.log.snaps[i].hash = Digest(replica.world)

\* A replay that has ended is where the recording was.
ReplayCovers ==
    replica.kind = "replay" /\ replica.world.tick = replica.end =>
        Len(replica.log.snaps) = replica.end

\* The registry's row is true: its tick has a snapshot, and that loads as a world of
\* its hash; but for the time between the two writes of a save, and after a crash came
\* there, until the next snapshot is written.  A crash anywhere else leaves it true,
\* whichever older snapshot the next process goes on from (register, save_snapshot).
RowIsTrue ==
    disk.meta # None /\ saving # "meta" /\ ~cut =>
        /\ disk.snap[disk.meta.tick] \notin {None, Torn}
        /\ Digest(Loaded(disk.snap[disk.meta.tick])) = disk.meta.hash

\* What is loaded is what was saved, now and whatever happens to both next; a replay
\* shows every tick of the recording as it was, to its end.
WorldsReproduce == TypeOK /\ TwinStaysEqual /\ RowIsTrue /\ ReplayReproduces /\ ReplayCovers
=============================================================================
