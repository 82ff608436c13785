----------------------------- MODULE StreamHub -----------------------------
(***************************************************************************)
(* The event streams of one world (api/ws.py): the log of the hub, the     *)
(* mailbox of each connection, the coroutine that serves it and the client *)
(* that reconnects with the last seq it received.                          *)
(*                                                                         *)
(* Publishers are threads.  What one of them does under the hub's lock is  *)
(* one step, what it does after the lock is released is others; so is each *)
(* stretch of the coroutine between two awaits.  The seq of an event is    *)
(* its place in the log.                                                   *)
(***************************************************************************)
EXTENDS Integers, Sequences, SequencesExt, FiniteSets

CONSTANTS
    Clients,                \* agents that listen
    Conns,                  \* connections, each opened at most once
    Owner,                  \* the client of each connection
    Publishers,             \* threads that publish
    Batches,                \* the batches they may publish
    MaxLog                  \* bound on the length of the log

Kinds == {"tick", "fill", "news"}
Event == [kind : Kinds, seen : SUBSET Clients]

ASSUME StreamAssumption == /\ Owner \in [Conns -> Clients]
                           /\ \A b \in Batches : b # <<>> /\ b \in Seq(Event)
                           /\ MaxLog \in Nat

VARIABLES
    log,                    \* _logs: kind and audience of each event
    subs,                   \* _subs: connections whose mailbox is registered
    pub,                    \* what each publisher has still to push, and to whom
    box,                    \* the items of each mailbox
    bound, gate, waking,    \* gate of a mailbox bound, set, scheduled to be set
    pc,                     \* where the coroutine of the connection is
    out,                    \* what it is sending
    cursor,                 \* its last_seq
    link,                   \* the client is there
    got                     \* what each client received, in order

vars == <<log, subs, pub, box, bound, gate, waking, pc, out, cursor, link, got>>
wires == <<bound, gate, waking, pc, out, cursor, link, got>>

\* "lost": accept failed; "closed": the coroutine has left its finally clause.
Places == {"new", "attached", "accept", "subscribe", "replay", "live", "wait", "send",
           "lost", "closed"}

Idle == [events |-> <<>>, boxes |-> {}]
IsTick(i) == log[i].kind = "tick"

\* The elements of s that are in S, in their order: a list comprehension.  It is
\* a recursive function because the proofs reason about it.
Keep(s, S) ==
    LET kept[n \in 0 .. Len(s)] == IF n = 0 THEN <<>>
                                   ELSE IF s[n] \in S THEN Append(kept[n - 1], s[n])
                                   ELSE kept[n - 1]
    IN kept[Len(s)]

Visible(s, x) == Keep(s, {i \in DOMAIN log : x \in log[i].seen})

\* Faulty: only the last event of a burst is kept.
Coalesce_LastOnly(s) == IF s = <<>> THEN s ELSE <<Last(s)>>

\* coalesce_ticks: the latest tick of the list is kept, and everything else.
Coalesce(s) ==
    LET ticks == Keep(s, {i \in ToSet(s) : IsTick(i)})
    IN Keep(s, {i \in ToSet(s) : IsTick(i) => i = Last(ticks)})

-----------------------------------------------------------------------------
(* Publishing *)

\* publish_many under the lock: the events are logged, the mailboxes noted.
Publish(p, batch) ==
    /\ pub[p] = Idle
    /\ Len(log) + Len(batch) =< MaxLog
    /\ log' = log \o batch
    /\ pub' = [pub EXCEPT ![p] = [events |-> [k \in 1 .. Len(batch) |-> Len(log) + k],
                                  boxes |-> subs]]
    /\ UNCHANGED <<subs, box, wires>>

\* Faulty: the coroutine that waits at the gate is not woken.
Push_NoWake(p, c) ==
    /\ c \in pub[p].boxes
    /\ box' = [box EXCEPT ![c] = Coalesce(@ \o Visible(pub[p].events, Owner[c]))]
    /\ pub' = [pub EXCEPT ![p].boxes = @ \ {c}]
    /\ UNCHANGED <<log, subs, wires>>

\* After it: the visible events go to one mailbox, and a bound one is woken.
Push(p, c) ==
    /\ c \in pub[p].boxes
    /\ LET seen == Visible(pub[p].events, Owner[c])
       IN IF seen = <<>> THEN UNCHANGED <<box, waking>>
          ELSE /\ box' = [box EXCEPT ![c] = Coalesce(@ \o seen)]
               /\ waking' = IF bound[c] THEN waking \cup {c} ELSE waking
    /\ pub' = [pub EXCEPT ![p].boxes = @ \ {c}]
    /\ UNCHANGED <<log, subs, bound, gate, pc, out, cursor, link, got>>

\* publish_many returns.
PublishReturns(p) == /\ pub[p] # Idle /\ pub[p].boxes = {}
                     /\ pub' = [pub EXCEPT ![p] = Idle]
                     /\ UNCHANGED <<log, subs, box, wires>>

\* The loop runs the gate.set a push has scheduled.
Wake(c) == /\ c \in waking
           /\ waking' = waking \ {c}
           /\ gate' = [gate EXCEPT ![c] = TRUE]
           /\ UNCHANGED <<log, subs, pub, box, bound, pc, out, cursor, link, got>>

-----------------------------------------------------------------------------
(* One connection *)

LastSeq(x) == IF got[x] = <<>> THEN 0 ELSE Last(got[x])

\* The log after since, as the client may see it.
Window(x, since) == Keep([k \in DOMAIN log |-> k],
                         {i \in DOMAIN log : i > since /\ x \in log[i].seen})

\* A client with no live link opens a new stream from the last seq it received;
\* attach registers the mailbox and takes the replay window under one lock.
Attach(c) ==
    LET x == Owner[c]
    IN /\ pc[c] = "new"
       /\ \A d \in Conns : Owner[d] = x => ~link[d]
       /\ subs' = subs \cup {c}
       /\ out' = [out EXCEPT ![c] = Window(x, LastSeq(x))]
       /\ cursor' = [cursor EXCEPT ![c] = LastSeq(x)]
       /\ link' = [link EXCEPT ![c] = TRUE]
       /\ pc' = [pc EXCEPT ![c] = "attached"]
       /\ UNCHANGED <<log, pub, box, bound, gate, waking, got>>

Bind(c) == /\ pc[c] = "attached"
           /\ bound' = [bound EXCEPT ![c] = TRUE]
           /\ waking' = IF box[c] # <<>> THEN waking \cup {c} ELSE waking
           /\ pc' = [pc EXCEPT ![c] = "accept"]
           /\ UNCHANGED <<log, subs, pub, box, gate, out, cursor, link, got>>

Accept(c) == /\ pc[c] = "accept"
             /\ pc' = [pc EXCEPT ![c] = "subscribe"]
             /\ UNCHANGED <<log, subs, pub, box, bound, gate, waking, out, cursor, link, got>>

\* The confirmation, which is no event of the log, is sent.
Subscribe(c) == /\ pc[c] = "subscribe" /\ link[c]
                /\ pc' = [pc EXCEPT ![c] = "replay"]
                /\ UNCHANGED <<log, subs, pub, box, bound, gate, waking, out, cursor,
                               link, got>>

\* accept raises outside the try: the mailbox stays registered.
AcceptFails(c) == /\ pc[c] = "accept" /\ ~link[c]
                  /\ pc' = [pc EXCEPT ![c] = "lost"]
                  /\ UNCHANGED <<log, subs, pub, box, bound, gate, waking, out, cursor,
                                 link, got>>

Deliver(c) == /\ link[c] /\ out[c] # <<>>
              /\ got' = [got EXCEPT ![Owner[c]] = Append(@, Head(out[c]))]
              /\ out' = [out EXCEPT ![c] = Tail(@)]

\* One event of the replay window is sent.
SendReplay(c) == /\ pc[c] = "replay"
                 /\ Deliver(c)
                 /\ cursor' = [cursor EXCEPT ![c] = Head(out[c])]
                 /\ UNCHANGED <<log, subs, pub, box, bound, gate, waking, pc, link>>

\* What of the mailbox's events lies after the last one sent.
Fresh(batch, last) == Keep(batch, {i \in ToSet(batch) : i > last})

\* The mailbox is emptied and the gate cleared; nothing to send: wait at the gate.
Take(c) ==
    LET batch == box[c]
        fresh == Fresh(batch, cursor[c])
    IN /\ pc[c] = "live" \/ (pc[c] = "replay" /\ out[c] = <<>>)
       /\ box' = [box EXCEPT ![c] = <<>>]
       /\ gate' = [gate EXCEPT ![c] = FALSE]
       /\ IF fresh = <<>>
            THEN /\ pc' = [pc EXCEPT ![c] = IF batch = <<>> THEN "wait" ELSE "live"]
                 /\ UNCHANGED <<out, cursor>>
            ELSE /\ pc' = [pc EXCEPT ![c] = "send"]
                 /\ cursor' = [cursor EXCEPT ![c] = Max(ToSet(fresh))]
                 /\ out' = [out EXCEPT ![c] = Coalesce(fresh)]
       /\ UNCHANGED <<log, subs, pub, bound, waking, link, got>>

\* One event of the batch is sent.
Send(c) == /\ pc[c] = "send"
           /\ Deliver(c)
           /\ pc' = [pc EXCEPT ![c] = IF Len(out[c]) = 1 THEN "live" ELSE "send"]
           /\ UNCHANGED <<log, subs, pub, box, bound, gate, waking, cursor, link>>

Resume(c) == /\ pc[c] = "wait" /\ gate[c]
             /\ pc' = [pc EXCEPT ![c] = "live"]
             /\ UNCHANGED <<log, subs, pub, box, bound, gate, waking, out, cursor, link, got>>

\* The client goes away; the server notices when it next sends.
Drop(c) == /\ link[c]
           /\ link' = [link EXCEPT ![c] = FALSE]
           /\ UNCHANGED <<log, subs, pub, box, bound, gate, waking, pc, out, cursor, got>>

\* The coroutine sends to a client that has gone.
Broken(c) == /\ ~link[c]
             /\ \/ pc[c] = "subscribe"
                \/ pc[c] \in {"replay", "send"} /\ out[c] # <<>>

\* A send raises WebSocketDisconnect; the finally clause detaches the mailbox.
Detach(c) == /\ Broken(c)
             /\ pc' = [pc EXCEPT ![c] = "closed"]
             /\ subs' = subs \ {c}
             /\ UNCHANGED <<log, pub, box, bound, gate, waking, out, cursor, link, got>>

-----------------------------------------------------------------------------
Init == /\ log = <<>> /\ subs = {} /\ waking = {}
        /\ pub = [p \in Publishers |-> Idle]
        /\ box = [c \in Conns |-> <<>>] /\ out = [c \in Conns |-> <<>>]
        /\ bound = [c \in Conns |-> FALSE] /\ gate = [c \in Conns |-> FALSE]
        /\ pc = [c \in Conns |-> "new"] /\ cursor = [c \in Conns |-> 0]
        /\ link = [c \in Conns |-> FALSE]
        /\ got = [x \in Clients |-> <<>>]

\* What the threads and the loop do once a call or a stream is under way.
Server == \/ \E p \in Publishers : PublishReturns(p) \/ \E c \in Conns : Push(p, c)
          \/ \E c \in Conns : \/ Wake(c) \/ Bind(c) \/ Accept(c) \/ AcceptFails(c)
                              \/ Subscribe(c) \/ SendReplay(c) \/ Take(c) \/ Send(c) \/ Resume(c)
                              \/ Detach(c)

Next == \/ \E p \in Publishers, b \in Batches : Publish(p, b)
        \/ \E c \in Conns : Attach(c) \/ Drop(c)
        \/ Server

Spec == Init /\ [][Next]_vars

\* Threads are scheduled and the loop turns: a call that can go on does.
FairSpec == /\ Spec
            /\ \A p \in Publishers : WF_vars(PublishReturns(p))
            /\ \A p \in Publishers, c \in Conns : WF_vars(Push(p, c))
            /\ \A c \in Conns : /\ WF_vars(Wake(c)) /\ WF_vars(Bind(c))
                                /\ WF_vars(Accept(c)) /\ WF_vars(AcceptFails(c))
                                /\ WF_vars(Subscribe(c))
                                /\ WF_vars(SendReplay(c)) /\ WF_vars(Take(c))
                                /\ WF_vars(Send(c)) /\ WF_vars(Resume(c))

-----------------------------------------------------------------------------
(* Properties *)

Seqs == Seq(1 .. Len(log))

\* Every variable keeps its type; a mailbox or a window names only logged events.
TypeOK == /\ log \in Seq(Event) /\ Len(log) =< MaxLog
          /\ subs \subseteq Conns /\ waking \subseteq Conns
          /\ \A p \in Publishers : pub[p].events \in Seqs /\ pub[p].boxes \subseteq Conns
          /\ \A c \in Conns : box[c] \in Seqs /\ out[c] \in Seqs /\ cursor[c] \in 0 .. Len(log)
          /\ pc \in [Conns -> Places]
          /\ {bound, gate, link} \subseteq [Conns -> BOOLEAN]
          /\ \A x \in Clients : got[x] \in Seqs

\* With one publisher a client receives every event once and in the order of the
\* log, whatever it missed and however often it reconnects ("no gaps or
\* duplicates").
InOrderOnce ==
    \A x \in Clients : \A j, k \in DOMAIN got[x] : j < k => got[x][j] < got[x][k]

\* Only ticks are coalesced away: of what a client may see, everything else up to
\* the last event it received has reached it ("never drop fills").
NeverDropFills ==
    \A x \in Clients : \A i \in 1 .. LastSeq(x) :
        x \in log[i].seen /\ ~IsTick(i) => i \in ToSet(got[x])

\* A registered mailbox belongs to a stream that is being served, or to one whose
\* accept failed.
RegisteredIsServed == \A c \in subs : pc[c] \notin {"new", "closed"}

\* Event i is logged and no later tick has replaced it.
Latest(i) == /\ i =< Len(log)
             /\ IsTick(i) => \A j \in i + 1 .. Len(log) : ~IsTick(j)

\* A client that stays connected receives every fill and news for it, and the
\* latest tick: no wake-up of the coroutine is lost and no window between replay
\* and live delivery.
EventuallyDelivered ==
    \A c \in Conns, i \in 1 .. MaxLog :
        (link[c] /\ Latest(i) /\ Owner[c] \in log[i].seen)
        ~> (~link[c] \/ i \in ToSet(got[Owner[c]]) \/ ~Latest(i))

\* No wake-up is lost: a coroutine that waits while its mailbox holds events has
\* its gate set, or the setting is scheduled, wherever the push fell between its
\* take, the clearing of the gate and its wait (ws.py:107-130).
WokenForMail == \A c \in Conns : pc[c] = "wait" /\ box[c] # <<>> => gate[c] \/ c \in waking

\* What a client is sent is in order, nothing of it twice, and misses no fill;
\* every registered mailbox is served, and its mail wakes the coroutine.
DeliveredAsPromised == /\ TypeOK /\ InOrderOnce /\ NeverDropFills /\ RegisteredIsServed
                       /\ WokenForMail

-----------------------------------------------------------------------------
(* For the runs: every connection is one client's; a tick with the fills of  *)
(* the day, a tick alone, news for everyone, and a fill of other agents.     *)

OwnedByOne == [c \in Conns |-> CHOOSE a \in Clients : TRUE]

Ev(kind, seen) == [kind |-> kind, seen |-> seen]
DayBatches == {<<Ev("tick", Clients), Ev("fill", Clients)>>, <<Ev("tick", Clients)>>,
               <<Ev("news", Clients)>>, <<Ev("fill", {})>>}
=============================================================================
