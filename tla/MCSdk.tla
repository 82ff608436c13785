------------------------------- MODULE MCSdk --------------------------------
(* Two workers through three calls, one of them raising or taken away at any  *)
(* point; or, in behaviours of their own, two agents through two episodes and *)
(* an evaluated year; or a recorded world that is saved twice, loaded beside  *)
(* itself, replayed, crashed and started again; or a campaign, a learner at a *)
(* policy authority, the worlds of a server, the cells of an economy, a       *)
(* reader who asks for explanations, the mispricing of a share.               *)
EXTENDS VectorEnv

CONSTANTS None, Torn

VARIABLES part, day, row, agents, view, applied, acted, total, seen, resets, year
episode_vars == <<day, row, agents, view, applied, acted, total, seen, resets, year>>

Row(c, w, s, p, e, d, b) ==
    [cash |-> c, worth |-> w, shares |-> s, price |-> p, equity |-> e, dividend |-> d, broke |-> b,
     news |-> IF e > 0 THEN <<2, 0, 3>> ELSE <<1>>, releases |-> <<0, p>>,
     told |-> <<[own |-> FALSE, share |-> 9], [own |-> TRUE, share |-> s]>>]
FewRows ==
    {Row(3, 3, 0, 1, 5, 0, FALSE), Row(1, 5, 2, 2, 0, 1, FALSE), Row(0, 1, 4, 1, 7, 2, FALSE),
     Row(0, -2, 1, 1, 0, 0, FALSE), Row(2, 2, 0, 1, 3, 0, TRUE)}

E == INSTANCE Episodes WITH
        Agents <- {1, 2}, Rows <- FewRows, NewsSlots <- 2,
        Acts <- {[side |-> "none", pct |-> 0], [side |-> "buy", pct |-> 100], [side |-> "sell", pct |-> 50]},
        Horizon <- 3, MaxDays <- 5, MaxResets <- 2, tick <- day

VARIABLES live, log, disk, saving, replica, saves, crashes, cut
replay_vars == <<live, log, disk, saving, replica, saves, crashes, cut>>

In(a, s, x) == [agent |-> a, seq |-> s, what |-> x]
At(t, e, p) == [t |-> t, event |-> e, p |-> p]

R == INSTANCE Replay WITH
        Agents <- {1, 2},
        Batches <- {<<In(2, 1, "x"), In(1, 2, "x"), In(1, 1, "y")>>, <<In(1, 1, "x")>>},
        Scenarios <- {<<At(1, "tax", 1), At(1, "quake", 0), At(2, "tax", 0)>>, <<At(0, "quake", 1)>>},
        FollowUp <- [quake |-> "shock", shock |-> "shock", tax |-> "tax"],
        MaxTick <- 3, MaxSaves <- 2, MaxCrashes <- 1

VARIABLES factors, change, parts, asset, quote, gained, positive, asked
explain_vars == <<factors, change, parts, asset, quote, gained, positive, asked>>

Asset(e, m, r, x) ==
    [ee |-> e, pe0 |-> m, rho |-> r, g |-> 1 - r, impact |-> x, sentiment |-> 1 - x, noise |-> x]
X == INSTANCE Explain WITH
        CellKeys <- {"baseline", "income"}, ShareKeys <- {"own_price"}, Rationing <- "rationing",
        DemandLevels <- {0, 1, 2},
        Assets <- {Asset(e, m, r, x) : e \in {0, 1, 2}, m \in {1, 2}, r \in {0, 1}, x \in {0, 1}},
        Start <- Asset(1, 2, 1, 0), Duration <- 2, MaxAsked <- 2

VARIABLES served, client, stage, game, saves_made, posts, lost
campaign_vars == <<served, client, stage, game, saves_made, posts, lost>>
ReportOf(own, books) == [own |-> own, books |-> books]
C == INSTANCE Campaign WITH
        Kinds <- {"merger", "control"}, FoundingCapital <- 5, SlotDirs <- BOOLEAN,
        Accounts <- {[worth |-> 3, held |-> TRUE,
                      reports |-> <<ReportOf(FALSE, [equity |-> 9]), ReportOf(TRUE, [equity |-> 4])>>]},
        Names <- {[stem |-> "final", padded |-> TRUE, segments |-> 1],
                  [stem |-> "mid", padded |-> FALSE, segments |-> 2]}, MaxTick <- 2, MaxStarts <- 2, MaxSeen <- 2, MaxPosts <- 1,
        worlds <- served, slots <- saves_made

VARIABLES date, effective, agg, answer, said, months, renewals
policy_vars == <<date, effective, agg, answer, said, months, renewals>>
L == INSTANCE PolicyEnv WITH
        Lowest <- [purchases_level |-> 0, transfer_oneoff |-> 0, debt_target |-> 0],
        Highest <- [purchases_level |-> 4, transfer_oneoff |-> 2, debt_target |-> 6],
        Home <- [purchases_level |-> 1, transfer_oneoff |-> 0, debt_target |-> 2],
        Actions <- UNION {[m -> {-1, 1}] : m \in {{}, {"purchases_level"}, {"transfer_oneoff"},
                                                  {"purchases_level", "debt_target"}}},
        PiStar <- 1, DaysPerMonth <- 2, Horizon <- 3, MaxDays <- 4, MaxResets <- 1,
        tick <- date, resets <- renewals

VARIABLES seq, worlds, rest, request, saved, older, crossed
session_vars == <<seq, worlds, rest, request, saved, older, crossed>>
W == INSTANCE Sessions WITH
        Agents <- {1}, Requests <- {1, 2}, Capital <- 5, MaxWorlds <- 2, MaxTicks <- 1,
        MaxJoins <- 2, call <- request

VARIABLES plants, employees, posted, share, history, fresh, moves, served_months
cell_vars == <<plants, employees, posted, share, history, fresh, moves, served_months>>
Mass(k, n, p, s) == [capacity |-> k, output |-> k, employment |-> n, price |-> p, sales |-> s]
K == INSTANCE Cells WITH
        Firms <- {1, 2}, CellNames <- {"mixed", "bare"},
        Npc <- [mixed |-> Mass(2, 3, 2, 1), bare |-> Mass(0, 0, 1, 0)],
        Capacities <- {1, 2}, Heads <- {3}, Prices <- {1, 3}, Demands <- {0, 2, 5},
        MaxMoves <- 4, MaxMonths <- 2, months <- served_months

VARIABLES impact, sentiment, noise, capital, returns, ret_i, n_ret, path, loads
gap_vars == <<impact, sentiment, noise, capital, returns, ret_i, n_ret, path, loads>>
NoisesOfADay == {-1, 1}
NewsOfADay == {-1, 0}
G == INSTANCE Mispricing WITH
        Impacts <- {0, 1}, News <- NewsOfADay, Risks <- {0}, Noises <- NoisesOfADay,
        Fast <- 1, Slow <- 3, Base <- 3, Floor <- 1, Ceiling <- 5, MaxDays <- 5, MaxLoads <- 1,
        s <- sentiment, n <- noise, ret <- returns

ASSUME E!EpisodesAssumption
ASSUME X!LevelsAssumption /\ C!CampaignAssumption /\ L!PolicyEnvAssumption
ASSUME W!SessionsAssumption /\ K!CellsAssumption /\ G!MispricingAssumption

first_vars == <<vars, episode_vars, replay_vars>>
late_vars == <<explain_vars, campaign_vars, policy_vars, session_vars, cell_vars, gap_vars>>

MCInit ==
    /\ Init /\ E!Init /\ R!Init /\ X!Init /\ C!Init /\ L!Init /\ W!Init /\ K!Init /\ G!Init
    /\ part \in {"vector", "episodes", "replay", "explain", "campaign", "policy", "sessions", "cells",
                 "mispricing"}
    /\ game.dir => part = "campaign"
Early == \/ part = "vector" /\ Next /\ UNCHANGED <<episode_vars, replay_vars>>
         \/ part = "episodes" /\ E!Next /\ UNCHANGED <<vars, replay_vars>>
         \/ part = "replay" /\ R!Next /\ UNCHANGED <<vars, episode_vars>>
Late == \/ part = "explain" /\ X!Next /\ UNCHANGED <<campaign_vars, policy_vars, session_vars, cell_vars, gap_vars>>
        \/ part = "campaign" /\ C!Next /\ UNCHANGED <<explain_vars, policy_vars, session_vars, cell_vars, gap_vars>>
        \/ part = "policy" /\ L!Next /\ UNCHANGED <<explain_vars, campaign_vars, session_vars, cell_vars, gap_vars>>
        \/ part = "sessions" /\ W!Next /\ UNCHANGED <<explain_vars, campaign_vars, policy_vars, cell_vars, gap_vars>>
        \/ part = "cells" /\ K!Next /\ UNCHANGED <<explain_vars, campaign_vars, policy_vars, session_vars, gap_vars>>
        \/ part = "mispricing" /\ G!Next /\ UNCHANGED <<explain_vars, campaign_vars, policy_vars, session_vars, cell_vars>>
MCNext == /\ UNCHANGED part
          /\ \/ Early /\ UNCHANGED late_vars
             \/ Late /\ UNCHANGED first_vars

\* The fairness of FairSpec; none of it is enabled in the other parts.
MCSpec ==
    /\ MCInit /\ [][MCNext]_<<part, first_vars, late_vars>>
    /\ WF_vars(Issue \/ Return \/ Raise)
    /\ \A w \in Workers : WF_vars(Work(w))

\* What an episode and a year are scored by (Episodes).
ScoresFollowTheRecord == part = "episodes" => E!ScoresFollowTheRecord
\* One decision a day until bankruptcy (Episodes).
WhoIsInDecides == [][E!DecidesOnce]_episode_vars
\* A loaded world is the saved one, and a replay the recording (Replay).
WorldsReproduce == part = "replay" => R!WorldsReproduce
\* What a player, a learner, a reader and a server are told adds up (Campaign, PolicyEnv,
\* Explain, Sessions, Cells), and a share is mispriced as it moved (Mispricing).
PlayIsAccounted ==
    CASE part = "campaign" -> C!TypeOK /\ C!SlotsTellTheGame
      [] part = "policy" -> L!TypeOK /\ L!LearnerSeesItsMonths
      [] part = "explain" -> X!TypeOK /\ X!ExplanationsAddUp
      [] part = "sessions" -> W!TypeOK /\ W!SessionsHold
      [] part = "cells" -> K!TypeOK /\ K!CellsSumUp
      [] part = "mispricing" -> G!TypeOK /\ G!MispricingFollows
      [] OTHER -> TRUE
=============================================================================
