------------------------------ MODULE Campaign ------------------------------
(* A campaign: one player who creates a world, registers and founds a firm    *)
(* through the client of the SDK, then plays day by day, keeps score and      *)
(* writes save slots (scenarios/campaign.py over sdk/client.py).              *)
(*                                                                            *)
(* The server is another process: a request may fail before it arrives or     *)
(* its reply may be lost, and either raises in the client.  What the server   *)
(* does is what the endpoints do (created, registered, stepped, recorded).    *)
EXTENDS Integers, Sequences, SequencesExt, FiniteSets

CONSTANTS
    Kinds,              \* what news a day may bring
    Accounts,           \* what the server may publish of the player: [worth, held, reports]
    FoundingCapital,
    SlotDirs,           \* whether the specification names a directory for slots
    Names,              \* the caller gives to save slots: [stem, padded, segments]
    MaxTick, MaxStarts, MaxSeen, MaxPosts,   \* bounds
    None

CampaignAssumption ==
    /\ FoundingCapital \in Nat \ {0} /\ SlotDirs \subseteq BOOLEAN
    /\ \A n \in {MaxTick, MaxStarts, MaxSeen, MaxPosts} : n \in Nat

VARIABLES
    worlds,   \* the server's worlds, in the order of their creation
    client,   \* what the client is bound to: world and bearer
    stage,    \* how far start has come
    game,     \* the campaign's own fields
    slots,    \* what is on disk
    posts,    \* orders sent by act_scripted
    lost      \* replies to a step that were lost

vars == <<worlds, client, stage, game, slots, posts, lost>>

Id == client.world
World == worlds[Id]

\* state_hash covers the clock and the inbox.
Hash(w) == [world |-> w.id, tick |-> w.tick, inbox |-> Len(w.inbox)]
Unpublished == [worth |-> 0, held |-> FALSE, reports |-> << >>]
NewWorld(n) == [id |-> n, tick |-> 0, inbox |-> << >>, news |-> << >>, account |-> Unpublished, agents |-> {}, firm |-> FALSE]

Game(g) == game' = g
NewGame(dir) == [dir |-> dir, paused |-> FALSE, scores |-> << >>, notes |-> << >>, takeovers |-> << >>,
            finished |-> FALSE, hash |-> None, played |-> 0]

-----------------------------------------------------------------------------
(* start: create_world, register_agent, bind, _found_firm *)

\* HttpClient.create_world: the client is bound to the new world as its administrator.
Create ==
    /\ stage = "new" /\ Len(worlds) < MaxStarts
    /\ LET w == NewWorld(Len(worlds) + 1)
       IN  /\ worlds' = Append(worlds, w)
           /\ client' = [world |-> w.id, bearer |-> "admin"]
           /\ Game([game EXCEPT !.hash = Hash(w)])
    /\ stage' = "created"
    /\ UNCHANGED <<slots, posts, lost>>

\* The reply is lost: the server has a world the client knows nothing of.
CreateLost ==
    /\ stage = "new" /\ Len(worlds) < MaxStarts
    /\ worlds' = Append(worlds, NewWorld(Len(worlds) + 1))
    /\ UNCHANGED <<client, stage, game, slots, posts, lost>>

Register ==
    /\ stage = "created"
    /\ worlds' = [worlds EXCEPT ![Id].agents = {"player"}]
    /\ client' = [client EXCEPT !.bearer = "player"]
    /\ stage' = "registered"
    /\ UNCHANGED <<game, slots, posts, lost>>

FoundFirm ==
    /\ stage = "registered"
    /\ worlds' = [worlds EXCEPT ![Id].firm = TRUE]
    /\ stage' = "playing"
    /\ UNCHANGED <<client, game, slots, posts, lost>>

\* A request of start fails; the caller calls it again, which creates another world.
StartFails ==
    /\ stage \in {"created", "registered"}
    /\ stage' = "new"
    /\ UNCHANGED <<worlds, client, game, slots, posts, lost>>

-----------------------------------------------------------------------------
(* Play *)

Pause  == /\ stage = "playing" /\ ~game.paused /\ Game([game EXCEPT !.paused = TRUE])
          /\ UNCHANGED <<worlds, client, stage, slots, posts, lost>>
Resume == /\ stage = "playing" /\ game.paused /\ Game([game EXCEPT !.paused = FALSE])
          /\ UNCHANGED <<worlds, client, stage, slots, posts, lost>>

\* The first of the player's own reports that tells the figure; 0 if none does.
Reported(account, figure) ==
    LET telling == SelectSeq(account.reports, LAMBDA r : r.own /\ figure \in DOMAIN r.books)
    IN IF telling = << >> THEN 0 ELSE Head(telling).books[figure]

\* score_observation: an account of no worth that holds nothing, cash or shares, is scored at
\* its founding capital.
Score(w) == [worth |-> IF w.account.worth = 0 /\ ~w.account.held THEN FoundingCapital ELSE w.account.worth,
             valuation |-> Reported(w.account, "equity"), share |-> Reported(w.account, "share"),
             at |-> w.tick, world |-> w.id]

\* What a player reads of an item, and the banner of a takeover.
Narrate(item) == [headline |-> item.kind, tick |-> item.tick]
IsTakeover(item) == item.kind = "control"
TakeoverNote(item) == [firm |-> item.about, tick |-> item.tick]

\* observe_and_score: the news of the world so far is narrated, again each time.
Observe ==
    /\ stage = "playing" /\ Len(game.scores) < MaxSeen
    /\ Game([game EXCEPT !.scores = Append(@, Score(World)),
                         !.notes = @ \o [i \in DOMAIN World.news |-> Narrate(World.news[i])],
                         !.takeovers = LET transfers == SelectSeq(World.news, IsTakeover)
                                       IN  @ \o [i \in DOMAIN transfers |-> TakeoverNote(transfers[i])]])
    /\ UNCHANGED <<worlds, client, stage, slots, posts, lost>>

\* submit_decisions, submit_orders: one request each, in this order; the first that raises is the
\* last, whether the server had taken it or not.
Taken(inbox, n) == inbox \o SubSeq(<<"decision", "order">>, 1, n)

\* act_scripted: the order has no key, so that the caller cannot send it again safely.
Act(taken) ==
    /\ stage = "playing" /\ posts < MaxPosts
    /\ posts' = posts + 1
    /\ worlds' = [worlds EXCEPT ![Id].inbox = Taken(@, taken)]
    /\ UNCHANGED <<client, stage, game, slots, lost>>

\* News of the player's firm; sample_takeover_news is one of kind "control".
NewsItem(kind, tick) == [kind |-> kind, about |-> "firm", tick |-> tick]

\* One day of the server: PUBLISH empties the inbox, news may come out.
Day(w, kind, account) ==
    [w EXCEPT !.tick = @ + 1, !.inbox = << >>, !.account = account,
              !.news = IF kind = "none" THEN @ ELSE Append(@, NewsItem(kind, w.tick + 1))]

\* step_days(1): refused while paused; played counts the days whose reply came.
StepDay(kind, account, arrives) ==
    /\ stage = "playing" /\ ~game.paused /\ World.tick < MaxTick
    /\ LET w == Day(World, kind, account)
       IN  /\ worlds' = [worlds EXCEPT ![Id] = w]
           /\ IF arrives
              THEN Game([game EXCEPT !.hash = Hash(w), !.played = @ + 1]) /\ UNCHANGED lost
              ELSE lost' = lost + 1 /\ UNCHANGED game
    /\ UNCHANGED <<client, stage, slots, posts>>

-----------------------------------------------------------------------------
(* Slots and the end *)

\* GET status hashes the world's state, which has no digest while typed inputs wait in the inbox.
StatusFails(w) == w.inbox /= << >>

NoScore == [worth |-> 0, valuation |-> 0, share |-> 0, at |-> 0, world |-> None]
LastScore(g) == IF g.scores = << >> THEN NoScore ELSE Last(g.scores)

\* Faulty: the days the campaign has counted for the days of the world.
Slot_Counted(w, g) ==
    [world |-> w.id, tick |-> g.played, hash |-> Hash(w), score |-> LastScore(g),
     notes |-> g.notes, takeovers |-> g.takeovers, finished |-> g.finished]
Slot(w, g) ==
    [world |-> w.id, tick |-> w.tick, hash |-> Hash(w), score |-> LastScore(g),
     notes |-> g.notes, takeovers |-> g.takeovers, finished |-> g.finished]

\* campaign_slot_path: spaces around a name do not count, a path is refused.
SlotOf(name) == IF name.segments = 1 /\ name.stem # "" THEN name.stem ELSE None

\* save_slot: without a directory, with a refused name or a failing status nothing is written.
SaveSlot(name) ==
    /\ stage = "playing" /\ game.dir /\ SlotOf(name) # None /\ ~StatusFails(World)
    /\ slots' = [slots EXCEPT ![SlotOf(name)] = Slot(World, game)]
    /\ UNCHANGED <<worlds, client, stage, game, posts, lost>>

\* load_slot, which leaves the live world alone.
LoadSlot(name) == IF game.dir /\ SlotOf(name) # None THEN slots[SlotOf(name)] ELSE None

\* finish: marked first, then the status; with a directory the slot "final" after one more
\* status, which may fail by itself.  It may be called again.
Marked == [game EXCEPT !.finished = TRUE]
FinishFails ==
    /\ stage = "playing"
    /\ \/ Game(Marked)
       \/ game.dir /\ ~StatusFails(World) /\ Game([Marked EXCEPT !.hash = Hash(World)])
    /\ UNCHANGED <<worlds, client, stage, slots, posts, lost>>

\* The CampaignResult it returns.
Result(w, g) ==
    [world |-> w.id, tick |-> w.tick, hash |-> Hash(w), score |-> LastScore(g), narrative |-> g.notes,
     takeovers |-> g.takeovers, slot |-> IF g.dir THEN "final" ELSE None, played |-> g.played]

Finish ==
    /\ stage = "playing" /\ ~StatusFails(World)
    /\ LET g == [Marked EXCEPT !.hash = Hash(World)]
       IN  /\ Game(g)
           /\ slots' = IF game.dir THEN [slots EXCEPT !["final"] = Slot(World, g)] ELSE slots
    /\ UNCHANGED <<worlds, client, stage, posts, lost>>

-----------------------------------------------------------------------------
Init ==
    /\ worlds = << >> /\ client = [world |-> None, bearer |-> None] /\ stage = "new"
    /\ game \in {NewGame(dir) : dir \in SlotDirs}
    /\ slots = [n \in ({"final"} \cup {SlotOf(name) : name \in Names}) \ {None} |-> None]
    /\ posts = 0 /\ lost = 0

Next ==
    \/ Create \/ CreateLost \/ Register \/ FoundFirm \/ StartFails
    \/ Pause \/ Resume \/ Observe
    \/ \E taken \in 0..2 : Act(taken)
    \/ \E kind \in Kinds, account \in Accounts, arrives \in BOOLEAN :
          StepDay(kind, account, arrives)
    \/ \E name \in Names : SaveSlot(name)
    \/ Finish \/ FinishFails

Spec == Init /\ [][Next]_vars

-----------------------------------------------------------------------------
TypeOK ==
    /\ stage \in {"new", "created", "registered", "playing"}
    /\ client.world \in {None} \cup DOMAIN worlds /\ client.bearer \in {None, "admin", "player"}
    /\ posts \in 0..MaxPosts /\ lost \in Nat /\ game.played \in 0..MaxTick

\* The card a slot or result shows is that of an observation of its own world at its tick or
\* before; what it tells of takeovers has been published in it by that tick; a card of its very
\* tick goes with all the takeovers published until then, however often they are told.
Tells(w, s) ==
    LET told == {i.tick : i \in Range(s.takeovers)}
        out  == {i.tick : i \in {n \in Range(w.news) : n.kind = "control"}}
    IN  /\ s.tick <= w.tick /\ s.hash.tick = s.tick /\ s.hash.inbox = 0
        /\ told \subseteq {t \in out : t <= s.tick}
        /\ s.score.world /= None =>
             /\ s.score.world = s.world /\ s.score.at <= s.tick
             /\ {t \in out : t <= s.score.at} = told

\* Slots and the result of a finish are true of the world that is played, whatever failed or was lost before
\* (save_slot, finish); the player is in the world the client is bound to, and the campaign has
\* counted every day of it but those whose reply was lost (start, step_days).
SlotsTellTheGame ==
    /\ stage = "playing" =>
         /\ client.bearer = "player" /\ "player" \in World.agents /\ World.firm
         /\ game.played + lost = World.tick
         /\ \A n \in Names : LoadSlot(n) /= None =>
                LoadSlot(n).world = Id /\ Tells(World, LoadSlot(n))
         /\ ~StatusFails(World) => Tells(World, Result(World, Marked))
=============================================================================
