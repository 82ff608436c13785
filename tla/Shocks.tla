------------------------------- MODULE Shocks -------------------------------
(* How an event reaches the real economy: ShockBus, ExtraEffects, CreditBlock *)
(* and the month of RealEconomy that reads them (real/shocks.py,              *)
(* events/compose.py, events/effects.py, real/credit.py, real/economy.py),    *)
(* with a copy of the world that was saved and loaded beside it.              *)
EXTENDS Integers, SequencesExt

CONSTANTS DaysPerMonth,     \* days of a month
          MaxTick,          \* bound: days
          MaxShocks,        \* bound: events that fire and injections of callers
          MaxCopies,        \* bound: times the world is saved and loaded
          Fires,            \* what an event brings: [comp, extras]
          Calls,            \* what a caller injects
          Readings,         \* what the month finds in banks and property: [gate, value]
          Enabled,          \* dynamics.credit.gate_enabled
          Rho,              \* persistence -> what a month leaves of a shock, in halves
          DefaultRho,       \* the same, for a shock that names no persistence
          None

ShocksAssumption == /\ DaysPerMonth \in Nat \ {0} /\ Enabled \in BOOLEAN
                           /\ DefaultRho \in 0 .. 2 /\ \A q \in DOMAIN Rho : Rho[q] \in 0 .. 2

VARIABLES tick,     \* the day to come
          first,    \* the module that is called first in REAL
          live,     \* the economy with its bus, credit and live effects
          copy,     \* the one loaded from its save, or None
          today,    \* events that have fired today
          shocks, copies,
          log,      \* what was injected: [key, size, month]
          rhos,     \* per month, what it left of each primitive
          used,     \* per month, what it read
          settled   \* collateral and loan spreads were at rest when the copy was made
vars == <<tick, first, live, copy, today, shocks, copies, log, rhos, used, settled>>

Keys == {"dem", "cost", "risk", "row", "imp"}
KeyOf == [demand |-> "dem", cost_push |-> "cost", risk_appetite |-> "risk", row |-> "row", imp |-> "imp"]
S0 == 0                                   \* the spread above the baseline's

Rest == [z |-> [k \in Keys |-> 0], rho |-> [k \in Keys |-> DefaultRho], ds |-> 0,
         want |-> 100, wantRho |-> DefaultRho, recon |-> 0, claims |-> 0, k |-> 8, inv |-> 8,
         equity |-> 8, debt |-> 8, fx |-> <<>>, base |-> None, lf |-> 100, coll |-> 100,
         smooth |-> 100, lam |-> 100, edge |-> 100, spread |-> S0, loan |-> S0]

-----------------------------------------------------------------------------
(* ShockBus *)

Times(x, rho) == (x * rho) \div 2
Percent(x, p) == (x * p) \div 100

\* What is left of the month on day d of it.
Weighted(x, d) == IF d >= DaysPerMonth THEN 0 ELSE (x * (DaysPerMonth - d)) \div DaysPerMonth

Synced(w) == [w EXCEPT !.ds = w.z.risk \div 2]

\* Half the insured value is gone and is claimed; the builders get it as orders.
Destroyed(w, kappa) ==
    LET lost == Percent(w.k, kappa) + Percent(w.inv, kappa)
    IN  [w EXCEPT !.k = @ - Percent(@, kappa), !.inv = @ - Percent(@, kappa),
                  !.claims = @ + lost, !.recon = @ + lost]

Lasting(w, s) == IF s.q = None THEN DefaultRho ELSE Rho[s.q]

\* One primitive moves; a push of costs moves the import prices with it.
Moved(w, s, x) ==
    LET keys == {KeyOf[s.kind]} \union (IF s.kind = "cost_push" THEN {"imp"} ELSE {})
    IN  Synced([w EXCEPT !.z = [k \in Keys |-> IF k \in keys THEN @[k] + x ELSE @[k]],
                         !.rho = [k \in Keys |-> IF k \in keys THEN Lasting(w, s) ELSE @[k]]])

Injected(w, s, d) ==
    CASE s.kind = "catastrophe" -> Destroyed(w, s.size)
      [] s.kind = "want" -> [w EXCEPT !.want = Percent(@, 100 + Weighted(s.size, d)),
                                      !.wantRho = IF s.q = None THEN @ ELSE Rho[s.q]]
      [] OTHER -> Moved(w, s, Weighted(s.size, d))

Decayed(w) == Synced([w EXCEPT !.z = [k \in Keys |-> Times(@[k], w.rho[k])],
                               !.want = 100 + Times(@ - 100, w.wantRho)])

\* What an injection leaves in the log.
Logged(l, s, d, m) ==
    IF s.kind \notin DOMAIN KeyOf THEN l
    ELSE l \o [i \in 1 .. (IF s.kind = "cost_push" THEN 2 ELSE 1) |->
               [key |-> IF i = 1 THEN KeyOf[s.kind] ELSE "imp", size |-> Weighted(s.size, d),
                month |-> m]]

-----------------------------------------------------------------------------
(* ExtraEffects *)

\* A decaying effect loses half of itself a day, in place of the exponential.
Shape(e, t) ==
    LET age == t - e.start
    IN  CASE age < 0 \/ (e.duration > 0 /\ age >= e.duration) \/ (e.duration = 0 /\ age > 0) -> 0
          [] e.shape = "ramp" /\ e.duration > 0 -> (e.size * (age + 1)) \div e.duration
          [] e.shape = "decay" /\ e.duration > 0 -> e.size \div 2^age
          [] OTHER -> e.size

Over(e, t) == t - e.start >= (IF e.duration > 1 THEN e.duration ELSE 1)

Added(fx, stem, t) ==
    FoldLeft(LAMBDA a, e : a + (IF e.stem = stem THEN Shape(e, t) ELSE 0), 0, fx)
Scaled(fx, stem, t) ==
    FoldLeft(LAMBDA a, e : IF e.stem = stem THEN Percent(a, 100 + Shape(e, t)) ELSE a, 100, fx)

\* Faulty: the base is read again every time.
BaseOf_Fresh(w) == [lf |-> w.lf, row |-> w.z.row, imp |-> w.z.imp]
BaseOf(w) == IF w.base = None THEN [lf |-> w.lf, row |-> w.z.row, imp |-> w.z.imp] ELSE w.base

\* Effects that are over drop out; the others are written over the economy, on the
\* base found there the first time.
Applied(w, t) ==
    LET fx == SelectSeq(w.fx, LAMBDA e : ~Over(e, t))
        base == BaseOf(w)
    IN  [w EXCEPT !.fx = fx, !.base = base,
                  !.lf = Percent(base.lf, Scaled(fx, "labour_supply", t)),
                  !.coll = Scaled(fx, "collateral_value", t),
                  !.z.row = base.row + Added(fx, "world_demand", t),
                  !.z.imp = base.imp + Added(fx, "import_price", t),
                  !.want = 100 + Added(fx, "want_shift", t)]

\* A loss of the banks is written off the loans at once.
Lost(w, e) ==
    IF e.stem # "bank_equity" THEN w
    ELSE LET amt == Percent(IF w.equity > 0 THEN w.equity ELSE 0, e.size)
         IN  IF w.debt > 0 THEN [w EXCEPT !.equity = @ - amt, !.debt = @ - amt] ELSE w

Started(w, extras, t) ==
    LET posted == FoldLeft(Lost, w, extras)
        begun == [i \in DOMAIN extras |->
                  [stem |-> extras[i].stem, shape |-> extras[i].shape, size |-> extras[i].size,
                   duration |-> extras[i].duration, start |-> t]]
    IN  IF extras = <<>> THEN w ELSE Applied([posted EXCEPT !.fx = @ \o begun], t)

-----------------------------------------------------------------------------
(* CreditBlock and the month *)

Toward(s, x) == (s + x) \div 2            \* an Erlang smoother of one stage

Priced(w, g) ==
    IF ~Enabled THEN [w EXCEPT !.lam = 100, !.spread = S0, !.edge = Toward(@, 100)]
    ELSE LET smooth == Toward(w.smooth, Percent(g.value, w.coll))
             lam == Percent(g.gate, smooth)
             spread == S0 + (100 - g.gate)
             tight == lam # 100 \/ spread # S0
         IN  [w EXCEPT !.smooth = smooth, !.lam = lam, !.edge = Toward(@, lam), !.spread = spread,
                       !.loan = IF tight THEN spread ELSE @,
                       !.ds = IF tight THEN spread - S0 ELSE @]

\* Starts, consumption and residential building are rationed by the edge, but only
\* while credit as a whole is.
Rationed(w) == IF ~Enabled \/ w.lam = 100 THEN 100 ELSE w.edge

Reads(w) == [z |-> w.z, ds |-> w.ds, recon |-> w.recon, credit |-> Rationed(w),
             loan |-> w.loan, lf |-> w.lf, lam |-> w.lam]

\* The month reads the shocks, uses up what is to be rebuilt and lets them fade.
StepMonth(w, g) == Decayed([Priced(w, g) EXCEPT !.recon = 0])

-----------------------------------------------------------------------------
(* The days *)

Month == tick \div DaysPerMonth
DayOfMonth == tick % DaysPerMonth
IsMonthEnd == DayOfMonth = DaysPerMonth - 1

Init == /\ tick = 0 /\ first \in {"events", "economy"} /\ live = Rest /\ copy = None
        /\ today = 0 /\ shocks = 0 /\ copies = 0 /\ log = <<>> /\ rhos = <<>> /\ used = <<>>
        /\ settled = TRUE

\* What an event does to a world: its primitives are injected, then its extras start.
Composed(w, comp) == FoldLeft(LAMBDA v, s : Injected(v, s, DayOfMonth), w, comp)
Brought(w, ev) == Started(Composed(w, ev.comp), ev.extras, tick)

\* EVENTS: an event fires.
Fire(ev) ==
    /\ tick < MaxTick /\ shocks < MaxShocks
    /\ live' = Brought(live, ev) /\ copy' = IF copy = None THEN None ELSE Brought(copy, ev)
    /\ log' = FoldLeft(LAMBDA l, s : Logged(l, s, DayOfMonth, Month), log, ev.comp)
    /\ shocks' = shocks + 1 /\ today' = today + 1
    /\ UNCHANGED <<tick, first, copies, rhos, used, settled>>

\* A caller injects between two days.
Inject(s) ==
    /\ today = 0 /\ tick < MaxTick /\ shocks < MaxShocks
    /\ live' = Injected(live, s, 0) /\ copy' = IF copy = None THEN None ELSE Injected(copy, s, 0)
    /\ log' = Logged(log, s, 0, Month)
    /\ shocks' = shocks + 1
    /\ UNCHANGED <<tick, first, today, copies, rhos, used, settled>>

\* REAL: the live effects are written, and on its last day the month is stepped.
Worked(w, g) ==
    CASE ~IsMonthEnd -> Applied(w, tick)
      [] IsMonthEnd /\ first = "events" -> StepMonth(Applied(w, tick), g)
      [] OTHER -> Applied(StepMonth(w, g), tick)

Day(g) ==
    /\ tick < MaxTick
    /\ live' = Worked(live, g) /\ copy' = IF copy = None THEN None ELSE Worked(copy, g)
    /\ tick' = tick + 1 /\ today' = 0
    /\ LET read == Priced(IF first = "events" THEN Applied(live, tick) ELSE live, g)
       IN  IF IsMonthEnd THEN /\ used' = Append(used, Reads(read))
                              /\ rhos' = Append(rhos, read.rho)
           ELSE UNCHANGED <<used, rhos>>
    /\ UNCHANGED <<first, shocks, copies, log, settled>>

\* What a save holds, loaded into a world that was just built: the base of the
\* effects, the collateral they move and the spread of the loans are not in it.
Loaded(w) == Synced([w EXCEPT !.base = Rest.base, !.coll = Rest.coll, !.loan = Rest.loan])

Reload ==
    /\ today = 0 /\ copies < MaxCopies
    /\ copy' = Loaded(live)
    /\ settled' = (live.coll = Rest.coll /\ live.loan = Rest.loan)
    /\ copies' = copies + 1
    /\ UNCHANGED <<tick, first, live, today, shocks, log, rhos, used>>

Next == \/ \E ev \in Fires : Fire(ev)
        \/ \E s \in Calls : Inject(s)
        \/ \E g \in Readings : Day(g)
        \/ Reload

Spec == Init /\ [][Next]_vars

-----------------------------------------------------------------------------
(* Properties *)

\* What the months from the one it fell in up to m have left of an entry.
Faded(e, m) == FoldLeft(LAMBDA x, n : Times(x, rhos[n][e.key]), e.size,
                        [i \in 1 .. m - 1 - e.month |-> e.month + i])

\* The sum of what is left of every shock to k when month m (from 1) is stepped.
Owed(k, m) ==
    FoldLeft(LAMBDA a, e : a + (IF e.key = k /\ e.month < m THEN Faded(e, m) ELSE 0), 0, log)

\* A shock enters the next month end for the share of its month that is left, on top
\* of those before it, and each month end leaves of all of them what the last one to
\* come said (ShockBus.inject and decay, apply_composition).
ShocksAddUp == \A m \in DOMAIN used : \A k \in {"dem", "cost", "risk"} : used[m].z[k] = Owed(k, m)

\* What was destroyed is paid by the insurer and ordered from the builders once, in
\* one month (_catastrophe, consume_recon).
RebuiltOnce ==
    /\ FoldLeft(LAMBDA a, u : a + u.recon, live.recon, used) = live.claims
    /\ live.k + live.inv + live.claims = Rest.k + Rest.inv

\* Effects that are over have left nothing behind (ExtraEffects.apply, shape_factor).
EffectsRevert ==
    (today = 0 /\ live.fx = <<>> /\ live.base # None) => live.lf = Rest.lf /\ live.coll = Rest.coll

\* The three above.
ShocksArrive == ShocksAddUp /\ RebuiltOnce /\ EffectsRevert

\* A world that was saved and loaded goes through the same months: it can differ only
\* in what the effects write, when it found another base for them, and in what credit
\* costs, when collateral or loan spreads were off their rest (to_state, from_state of
\* RealEconomy, ShockBus, CreditBlock and ExtraEffects).
SavedMonthsContinue ==
    copy # None =>
        /\ \A f \in {"rho", "ds", "want", "wantRho", "recon", "claims", "k", "inv", "equity", "debt", "fx"} :
               live[f] = copy[f]
        /\ \A k \in {"dem", "cost", "risk"} : live.z[k] = copy.z[k]
        /\ copy.base # None /\ copy.base = live.base => live.lf = copy.lf /\ live.z = copy.z
        /\ settled => \A f \in {"smooth", "lam", "edge", "spread", "loan"} : live[f] = copy[f]
=============================================================================
