------------------------------- MODULE Policy -------------------------------
(***************************************************************************)
(* The policy authorities: who sits at them (api/sessions.py), which of    *)
(* several sources sets a lever and from when (real/policy/authority.py),  *)
(* the rate an event lays over a lever (events/effects.py) and the month   *)
(* that reads the levers and uses up the one-offs (real/economy.py).       *)
(*                                                                         *)
(* Requests run in a pool of threads: registering is three steps, leaving  *)
(* two.  A lever is its source and value; one nobody has set is Unset.      *)
(***************************************************************************)
EXTENDS Integers, Sequences, FiniteSets

CONSTANTS
    Agents, Authorities,
    Levers, OneOffs,        \* levers of each authority; those that fire once
    Owner, Overlaid,        \* the authority and the lever events lay a rate over
    Bound,                  \* highest value of each lever
    Decisions,              \* what may be decided: functions from levers to values
    Lags, Effects,          \* lags in months; <<value, days>> of an event
    None,
    DaysPerMonth, MaxTick, MaxMade      \* the month; bounds of days and decisions

Rank == [autopilot |-> 0, event |-> 1, scripted |-> 2, agent |-> 3]
Sources == {"autopilot", "event", "scripted", "agent"}
Ids == 1 .. MaxMade

ASSUME PolicyAssumption ==
    /\ Owner \in Authorities /\ Overlaid \in Levers[Owner] \ OneOffs
    /\ None \notin Authorities
    /\ \A f \in Decisions : \A l \in DOMAIN f : f[l] \in Int /\ Bound[l] \in Nat
    /\ Lags \subseteq Nat /\ \A e \in Effects : e[1] \in Int /\ e[2] \in Nat \ {0}
    /\ DaysPerMonth \in Nat \ {0} /\ MaxTick \in Nat /\ MaxMade \in Nat

VARIABLES
    tick, month,            \* the clock; RealEconomy.month
    control,                \* of each authority: "autopilot" (its home) or "agent"
    seat,                   \* _AgentRecord.authority of the registered policymakers
    call,                   \* what each agent's request is doing
    overlapped,             \* authorities two requests have been about at a time
    lever,                  \* effective and source_of
    pending,
    live,                   \* running effects of events, with shape "step"
    made,                   \* number of decisions
    paid,                   \* how often the one-off of a decision was used
    echo                    \* what a policymaker was last told is applied

seats == <<control, seat, call, overlapped>>
desk == <<lever, pending, live, made, paid, echo>>
vars == <<tick, month, seats, desk>>

Unset == [source |-> "autopilot", value |-> 0, due |-> 0, id |-> 0]
Idle == [step |-> "idle", at |-> None]

Now == tick \div DaysPerMonth

Elements(s) == {s[k] : k \in DOMAIN s}

\* The elements of s that are in S, in their order: a list comprehension.
Keep(s, S) ==
    LET kept[n \in 0 .. Len(s)] == IF n = 0 THEN << >>
                                   ELSE IF s[n] \in S THEN Append(kept[n - 1], s[n])
                                   ELSE kept[n - 1]
    IN kept[Len(s)]

-----------------------------------------------------------------------------
(* Seats *)

Start(a, au, step) ==
    /\ call[a] = Idle
    /\ call' = [call EXCEPT ![a] = [step |-> step, at |-> au]]
    /\ overlapped' = IF \E b \in Agents : call[b].at = au THEN overlapped \cup {au}
                     ELSE overlapped

\* register_agent: is the authority free?
Register(a, au) ==
    /\ seat[a] = None /\ \A b \in Agents : seat[b] # au
    /\ Start(a, au, "free")
    /\ UNCHANGED <<tick, month, control, seat, desk>>

\* It takes control, and only then is the agent recorded.
TakeControl(a) ==
    /\ call[a].step = "free"
    /\ control' = [control EXCEPT ![call[a].at] = "agent"]
    /\ call' = [call EXCEPT ![a].step = "controls"]
    /\ UNCHANGED <<tick, month, seat, overlapped, desk>>
Record(a) ==
    /\ call[a].step = "controls"
    /\ seat' = [seat EXCEPT ![a] = call[a].at]
    /\ call' = [call EXCEPT ![a] = Idle]
    /\ UNCHANGED <<tick, month, control, overlapped, desk>>

\* unregister_agent: the record goes, then the last to leave restores the control.
Unregister(a) ==
    /\ seat[a] # None
    /\ Start(a, seat[a], "left")
    /\ seat' = [seat EXCEPT ![a] = None]
    /\ UNCHANGED <<tick, month, control, desk>>

Restore(a) ==
    LET au == call[a].at
    IN /\ call[a].step = "left"
       /\ control' = IF \E b \in Agents : seat[b] = au THEN control
                     ELSE [control EXCEPT ![au] = "autopilot"]
       /\ call' = [call EXCEPT ![a] = Idle]
       /\ UNCHANGED <<tick, month, seat, overlapped, desk>>

-----------------------------------------------------------------------------
(* Decisions *)

\* _clip_value.
Clip(l, v) == IF v > Bound[l] THEN Bound[l] ELSE IF v < 0 THEN 0 ELSE v

\* What a decision makes of a lever it names.
Entry(d, l) == [source |-> d.source, value |-> d.fields[l], due |-> d.due, id |-> d.id]

\* Faulty: a second decision of the same source is dropped.
Arbitrate_Strict(lv, d) ==
    [l \in DOMAIN lv |->
        IF l \in DOMAIN d.fields /\ Rank[d.source] > Rank[lv[l].source]
        THEN Entry(d, l)
        ELSE lv[l]]

\* activate_due, of one decision: agent > scripted > event > autopilot.
Arbitrate(lv, d) ==
    [l \in DOMAIN lv |->
        IF l \in DOMAIN d.fields /\ Rank[d.source] >= Rank[lv[l].source]
        THEN Entry(d, l)
        ELSE lv[l]]

\* activate_due: the decisions that are due, in the order of the queue.
Activated(lv, q, m) ==
    LET done[k \in 0 .. Len(q)] == IF k = 0 THEN lv
                                   ELSE IF q[k].due =< m THEN Arbitrate(done[k - 1], q[k])
                                   ELSE done[k - 1]
    IN done[Len(q)]
Kept(q, m) == Keep(q, {d \in Elements(q) : ~(d.due =< m)})

\* PolicyAuthority.submit: clipped, queued, and active at once without a lag.
Submit(au, source, fields, lag) ==
    LET d == [id |-> made + 1, source |-> source, due |-> Now + lag,
              fields |-> [l \in DOMAIN fields |-> Clip(l, fields[l])]]
        q == Append(pending[au], d)
    IN /\ made < MaxMade /\ made' = made + 1
       /\ IF lag = 0
          THEN /\ lever' = [lever EXCEPT ![au] = Activated(@, q, Now)]
               /\ pending' = [pending EXCEPT ![au] = Kept(q, Now)]
          ELSE /\ pending' = [pending EXCEPT ![au] = q]
               /\ UNCHANGED lever
       /\ echo' = IF source # "agent" THEN echo
                  ELSE [echo EXCEPT ![au] = [l \in DOMAIN @ |->
                          IF l \in DOMAIN d.fields THEN d.fields[l] ELSE @[l]]]
       /\ UNCHANGED <<tick, month, seats, live, paid>>

\* submit_policy; a lagged decision of a script; apply_policy_levers.
Decide(a) == /\ seat[a] # None /\ call[a] = Idle
             /\ \E f \in Decisions : DOMAIN f \subseteq Levers[seat[a]]
                                       /\ Submit(seat[a], "agent", f, 0)
Script(au) == \E f \in Decisions, lag \in Lags : DOMAIN f \subseteq Levers[au]
                                                   /\ Submit(au, "scripted", f, lag)
FiscalEvent == \E f \in Decisions : DOMAIN f \subseteq Levers[Owner] \cap OneOffs
                                      /\ Submit(Owner, "event", f, 0)

-----------------------------------------------------------------------------
(* Effects of events *)

Running(effects) == Keep(effects, {e \in Elements(effects) : tick - e.start < e.days})
Sum(effects) ==
    LET sum[k \in 0 .. Len(effects)] == IF k = 0 THEN 0 ELSE sum[k - 1] + effects[k].value
    IN sum[Len(effects)]

OfEvents(effects) == [source |-> "event", value |-> Sum(effects), due |-> 0, id |-> 0]

\* _write_economy: the sum of the running effects, unless a script or a
\* policymaker holds the lever; the lever returns when they are over.
Overlay(x, effects) ==
    IF Sum(effects) # 0 /\ Rank[x.source] =< Rank["event"]
    THEN OfEvents(effects)
    ELSE IF Sum(effects) = 0 /\ x.source = "event" THEN Unset ELSE x
Overlaying(lv, effects) ==
    [lv EXCEPT ![Owner][Overlaid] = Overlay(@, Running(effects))]

\* ExtraEffects.start.
RateEvent(value, days) ==
    LET effects == Append(live, [value |-> value, start |-> tick, days |-> days])
    IN /\ made < MaxMade /\ made' = made + 1
       /\ lever' = Overlaying(lever, effects)
       /\ live' = Running(effects)
       /\ UNCHANGED <<tick, month, seats, pending, paid, echo>>

-----------------------------------------------------------------------------
(* The day: the overlay is laid again; the last day of a month activates what *)
(* is due, reads the levers and uses up the one-offs.                         *)

Used(lv) == [au \in DOMAIN lv |-> [l \in DOMAIN lv[au] |->
                IF l \in OneOffs THEN Unset ELSE lv[au][l]]]

MonthEnd(lv) ==
    LET due == [au \in Authorities |-> Activated(lv[au], pending[au], month)]
    IN /\ lever' = Used(due)
       /\ pending' = [au \in Authorities |-> Kept(pending[au], month)]
       /\ paid' = [i \in Ids |-> IF \E au \in Authorities : \E l \in Levers[au] \cap OneOffs :
                                      due[au][l].id = i /\ due[au][l].value # 0
                                 THEN paid[i] + 1 ELSE paid[i]]
       /\ echo' = [au \in Authorities |-> [l \in Levers[au] |->
                      IF l \in OneOffs THEN None ELSE echo[au][l]]]
       /\ month' = month + 1

Day ==
    LET lv == Overlaying(lever, live)
    IN /\ tick < MaxTick
       /\ tick' = tick + 1
       /\ live' = Running(live)
       /\ IF tick % DaysPerMonth = DaysPerMonth - 1
          THEN MonthEnd(lv)
          ELSE lever' = lv /\ UNCHANGED <<month, pending, paid, echo>>
       /\ UNCHANGED <<seats, made>>

-----------------------------------------------------------------------------
Init ==
    /\ tick = 0 /\ month = 0
    /\ control = [au \in Authorities |-> "autopilot"]
    /\ seat = [a \in Agents |-> None]
    /\ call = [a \in Agents |-> Idle]
    /\ overlapped = {}
    /\ lever = [au \in Authorities |-> [l \in Levers[au] |-> Unset]]
    /\ pending = [au \in Authorities |-> << >>]
    /\ live = << >> /\ made = 0
    /\ paid = [i \in Ids |-> 0]
    /\ echo = [au \in Authorities |-> [l \in Levers[au] |-> None]]

Next ==
    \/ \E a \in Agents : \/ \E au \in Authorities : Register(a, au)
                         \/ TakeControl(a) \/ Record(a)
                         \/ Unregister(a) \/ Restore(a)
                         \/ Decide(a)
    \/ \E au \in Authorities : Script(au)
    \/ FiscalEvent
    \/ \E e \in Effects : RateEvent(e[1], e[2])
    \/ Day

Spec == Init /\ [][Next]_vars

-----------------------------------------------------------------------------
(* Properties *)

\* Every variable has its type.
SeatsTyped ==
    /\ control \in [Authorities -> {"autopilot", "agent"}]
    /\ seat \in [Agents -> Authorities \cup {None}]
    /\ call \in [Agents -> [step : {"free", "controls", "left"}, at : Authorities] \cup {Idle}]
    /\ overlapped \subseteq Authorities
TypeOK ==
    /\ tick \in 0 .. MaxTick /\ month = Now /\ made \in 0 .. MaxMade
    /\ SeatsTyped
    /\ \A au \in Authorities : \A l \in Levers[au] : lever[au][l].source \in Sources
    /\ \A au \in Authorities : \A d \in Elements(pending[au]) : d.source \in Sources /\ d.id \in Ids
    /\ \A e \in Elements(live) : e.days > 0

\* As long as no two requests about an authority overlap, whatever requests
\* about the other do: it has at most one policymaker, and it is under an
\* agent's control exactly when it has one (docs/api.md:70-72, sessions.py:171).
SeatHasControl ==
    \A au \in Authorities \ overlapped :
        /\ \A a, b \in Agents : seat[a] = au /\ seat[b] = au => a = b
        /\ (\A a \in Agents : call[a].at # au)
             => (control[au] = "agent" <=> \E a \in Agents : seat[a] = au)

\* What a policymaker was told is applied stays the value of the lever, whatever
\* scripts, events and lagged decisions come due, until it decides otherwise or
\* the month uses it up (submit_policy, sessions.py:304).
PolicymakersWordStands ==
    \A au \in Authorities : \A l \in Levers[au] :
        echo[au][l] # None => lever[au][l].value = echo[au][l]

\* No decision takes effect before the month its lag puts it in, on whichever of
\* the two paths it is activated (authority.py:171-192).
NotBeforeItsMonth ==
    \A au \in Authorities : \A l \in Levers[au] : lever[au][l].due =< Now

\* The rate in effect under an event is the sum of the events that still run,
\* and once none runs the lever is back where it was (effects.py:213-232).
EventRatesExpire ==
    LET x == lever[Owner][Overlaid]
    IN /\ \A e \in Elements(live) : tick - e.start =< e.days
       /\ x.source = "event" => x.value = Sum(live) /\ Sum(live) # 0
       /\ x.source = "autopilot" => Sum(live) = 0

\* A one-off is used by one month and no more, although decisions of any source
\* queue, wait and displace one another (consume_oneoffs, fiscal.py).
OneOffsFireOnce == \A i \in Ids : paid[i] =< 1

\* A lever falls back to a lower source only when a month uses it up or the
\* event that holds it is over (activate_due, authority.py:180-197).
RankStep ==
    \A au \in Authorities : \A l \in Levers[au] :
        Rank[lever'[au][l].source] < Rank[lever[au][l].source] =>
           \/ l \in OneOffs /\ month' # month
           \/ l = Overlaid /\ lever[au][l].source = "event" /\ Sum(live') = 0

\* The parts of the promise that hold at the start and after every step.
LeversInOrder ==
    /\ TypeOK /\ SeatHasControl /\ PolicymakersWordStands
    /\ NotBeforeItsMonth /\ EventRatesExpire /\ OneOffsFireOnce

\* Who has the seat has the control, and what a policymaker has set nobody below
\* sets otherwise; a decision takes effect in its month, an event's as long as the
\* event lasts and a one-off once; and a lever falls back only when its source is
\* done with it.
LeversObeyed == [][LeversInOrder' /\ RankStep]_vars
=============================================================================
