------------------------------ MODULE MCEvents ------------------------------
(* Both authorities, a rate and a one-off each at most, months of two days; or, *)
(* in behaviours of their own, a catalog of three events and scripted ones: a   *)
(* crunch is followed by a run on the banks and by a stimulus of the            *)
(* government, and the run by a stimulus as well. Or the figures of seven       *)
(* months of three days; or shocks and effects in two months of two days, with  *)
(* a world that is saved and loaded once.                                       *)
EXTENDS Policy, Cascade, TLC

CONSTANT Parts

LeversOf == [GOVT |-> {"vat", "transfer_oneoff"}, CENBANK |-> {"lolr"}]
Bounds == [vat |-> 2, transfer_oneoff |-> 9, lolr |-> 1]
DecisionSet == {[vat |-> 3, transfer_oneoff |-> 2], "vat" :> 1, "transfer_oneoff" :> 1}
RateEvents == {<<2, 1>>, <<-1, 3>>}
Symmetry == Permutations(Agents)

VARIABLE part

Chain == << <<[to |-> 2, delays |-> {0}], [to |-> 3, delays |-> {1, 2}]>>,
            <<[to |-> 3, delays |-> {0, 1}]>>,
            <<>> >>
Kinds == <<"credit", "credit", "policy">>
Cooldowns == <<2, 1, 1>>
HeadlineLags == <<0, 1, 0>>
ChainsBelow == <<2, 1, 0>>
PolicyEvents == [govt |-> {3}]

VARIABLES rtick, closed, truths, noise, acc, prints, vintages, observed
releases_vars == <<rtick, closed, truths, noise, acc, prints, vintages, observed>>

Figure(n) == [cpi |-> n, unemployment |-> n + 2, output |-> n + 4, gdp |-> n,
              trade |-> n + 1, govt |-> n + 3, rate |-> n + 5]
R == INSTANCE Releases WITH
        DaysPerMonth <- 3, CpiDay <- 2, UnemploymentDay <- 1, OutputDay <- 2, ReleaseDay <- 3,
        Revisions <- 2, Truths <- {Figure(1), Figure(3)}, Noises <- {0, 4}, MaxMonths <- 7,
        tick <- rtick, stage <- closed, pending <- prints

ASSUME ReleasesAssumed == R!ReleasesAssumption

VARIABLES stick, first, economy, copy, today, shocks, copies, injected, rhos, used, settled
shocks_vars == <<stick, first, economy, copy, today, shocks, copies, injected, rhos, used, settled>>

Prim(kind, size, q) == [kind |-> kind, size |-> size, q |-> q]
Extra(stem, shape, size, days) == [stem |-> stem, shape |-> shape, size |-> size, duration |-> days]
Brings(comp, extras) == [comp |-> comp, extras |-> extras]
S == INSTANCE Shocks WITH
        MaxTick <- 4, MaxShocks <- 3, MaxCopies <- 1,
        Fires <- {Brings(<<Prim("risk_appetite", 8, "short"), Prim("cost_push", 8, "long")>>, <<>>),
                  Brings(<<Prim("catastrophe", 50, None)>>,
                         <<Extra("labour_supply", "ramp", -50, 2), Extra("bank_equity", "pulse", 50, 1)>>),
                  Brings(<<>>, <<Extra("collateral_value", "decay", -50, 3),
                                 Extra("world_demand", "step", 4, 2)>>),
                  Brings(<<Prim("want", 50, "long")>>,
                         <<Extra("import_price", "pulse", 4, 0), Extra("want_shift", "step", 50, 3)>>)},
        Calls <- {Prim("row", 8, None), Prim("demand", -8, "long"), Prim("want", -50, None)},
        Readings <- {[gate |-> 100, value |-> 100], [gate |-> 50, value |-> 80]},
        Enabled <- TRUE, Rho <- [short |-> 0, long |-> 1], DefaultRho <- 1,
        tick <- stick, live <- economy, log <- injected

ASSUME ShocksAssumed == S!ShocksAssumption

MCInit == /\ Init /\ CascadeInit /\ S!Init /\ part \in Parts /\ (part # "shocks" => first = "events")
          /\ IF part = "releases" THEN R!Init ELSE R!InitAt(-1)
MCNext == \/ part = "policy" /\ Next /\ UNCHANGED <<part, cascade_vars, releases_vars, shocks_vars>>
          \/ part = "cascade" /\ CascadeNext /\ UNCHANGED <<part, vars, releases_vars, shocks_vars>>
          \/ part = "releases" /\ R!Next /\ UNCHANGED <<part, vars, cascade_vars, shocks_vars>>
          \/ part = "shocks" /\ S!Next /\ UNCHANGED <<part, vars, cascade_vars, releases_vars>>
MCSpec == MCInit /\ [][MCNext]_<<part, vars, cascade_vars, releases_vars, shocks_vars>>

\* Figures are public when they are due (Releases).
FiguresAsReleased == part = "releases" => R!FiguresAsReleased
\* A shock arrives once and for its share of the month, and a loaded world goes on as
\* the saved one but for what the save leaves out (Shocks).
ShocksArrive == part = "shocks" => S!ShocksArrive /\ S!SavedMonthsContinue
=============================================================================
