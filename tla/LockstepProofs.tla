--------------------------- MODULE LockstepProofs ---------------------------
(***************************************************************************)
(* Theorems about Lockstep for any agents, sequence numbers and bounds.    *)
(* They follow from one invariant over every entry that can still reach    *)
(* the world or did: those pending, those saved and those applied.         *)
(***************************************************************************)
EXTENDS Lockstep, TLAPS

Everything == Arrived \cup saved.pending

\* Where an input lands fits what its sender said and when it came.
Landed(e) == /\ e.dest >= e.target /\ e.dest >= e.came
             /\ e.late => e.dest > e.target
             /\ ~e.late /\ e.target >= e.came => e.dest = e.target
             /\ e.empty <=> e.seq = 0

Sound    == \A e \in Everything : e.n < arrivals /\ Landed(e)
Distinct == \A e, f \in Everything : e.n = f.n /\ e.agent = f.agent => e = f

\* In one buffer an agent has one empty input at most for a tick, before the others.
SilentFirst(S) ==
    \A e, f \in S : e.empty /\ f.agent = e.agent /\ f.dest = e.dest /\ e # f
                       => ~f.empty /\ f.n > e.n

\* What the world ingested at t had landed there, and heard everyone; from the
\* tick on that is collected now, it ingested nothing.
Consumed ==
    \A t \in Ticks : /\ t >= tick => applied[t] = {} /\ members[t] = {}
                     /\ \A e \in applied[t] : e.dest = t
                     /\ members[t] \subseteq {e.agent : e \in applied[t]}
                     /\ SilentFirst(applied[t])

\* A client that numbers by session uses a number once.
KeysUnique ==
    ~PerTick => \A e, f \in Arrived :
                   ~e.empty /\ ~f.empty /\ e.agent = f.agent /\ e.seq = f.seq => e = f

Kept == ~restored => saved.pending \subseteq Arrived

Ledger == /\ Sound /\ Distinct
          /\ SilentFirst(pending) /\ SilentFirst(saved.pending)
          /\ Consumed /\ NoneStranded
Inv == TypeOK /\ Ledger /\ KeysUnique /\ Kept

-----------------------------------------------------------------------------
(* What each action adds *)

\* The entry an agent's input becomes.
Input(a, seq, target, late) ==
    [n |-> arrivals, agent |-> a, seq |-> seq, empty |-> FALSE,
     dest |-> Destination(target, late), target |-> target, late |-> late,
     came |-> tick]

\* An input never lands behind the tick being collected, and lands as it should.
LEMMA InputLands ==
    ASSUME TypeOK, NEW a \in Agents, NEW seq \in Seqs, NEW ahead \in -1 .. MaxAhead,
           NEW late \in BOOLEAN, tick + ahead >= 0
    PROVE  LET e == Input(a, seq, tick + ahead, late)
           IN e \in Entry /\ Landed(e) /\ e.dest >= tick
<1> DEFINE target == tick + ahead
           d == Destination(target, late)
<1>1. /\ tick \in 0 .. MaxTick /\ MaxTick \in Nat /\ MaxAhead \in Nat
      /\ arrivals \in Nat /\ seq \in Nat \ {0} /\ ahead \in Int
      /\ -1 =< ahead /\ ahead =< MaxAhead
  BY LockstepAssumption DEF TypeOK
<1>2. /\ d \in Int /\ d >= tick /\ d >= target /\ d =< MaxTick + MaxAhead + 1
      /\ late => d > target
      /\ ~late /\ target >= tick => d = target
  <2>1. CASE target < tick  BY <1>1, <2>1 DEF Destination
  <2>2. CASE target >= tick  BY <1>1, <2>2 DEF Destination
  <2> QED  BY <1>1, <2>1, <2>2
<1>3. d \in Dests /\ target \in Dests /\ tick \in Dests
  BY <1>1, <1>2 DEF Dests
<1> HIDE DEF d, target
<1>4. Input(a, seq, target, late) =
        [n |-> arrivals, agent |-> a, seq |-> seq, empty |-> FALSE, dest |-> d,
         target |-> target, late |-> late, came |-> tick]
  BY DEF Input, d
<1>5. Input(a, seq, target, late) \in Entry  BY <1>1, <1>3, <1>4 DEF Entry
<1>6. Landed(Input(a, seq, target, late))  BY <1>1, <1>2, <1>4 DEF Landed
<1>7. Input(a, seq, target, late).dest >= tick  BY <1>2, <1>4
<1> QED  BY <1>5, <1>6, <1>7 DEF target

\* So does an empty input.
LEMMA EmptyLands == ASSUME TypeOK, NEW a \in Agents
                    PROVE  LET e == EmptyAction(a, arrivals)
                           IN e \in Entry /\ Landed(e) /\ e.dest = tick
<1>1. tick \in Dests /\ tick \in Nat /\ arrivals \in Nat
  BY LockstepAssumption DEF TypeOK, Dests
<1> QED  BY <1>1 DEF EmptyAction, Entry, Landed

\* Every variable keeps its type in every step.
LEMMA TypeStep == ASSUME TypeOK, [Next]_vars
                  PROVE  TypeOK'
<1> USE DEF TypeOK, BarrierType
<1>1. ASSUME NEW a \in Agents, Register(a)
      PROVE  TypeOK'
  BY <1>1 DEF Register
<1>2. ASSUME NEW a \in Agents, NEW seq \in Seqs, NEW ahead \in -1 .. MaxAhead,
             NEW late \in BOOLEAN, tick + ahead >= 0, Act(a, seq, tick + ahead, late)
      PROVE  TypeOK'
  <2>1. pending' = pending \cup {Input(a, seq, tick + ahead, late)}
    BY <1>2 DEF Act, Input
  <2>2. Input(a, seq, tick + ahead, late) \in Entry  BY <1>2, InputLands
  <2> QED  BY <1>2, <2>1, <2>2 DEF Act
<1>3. CASE TimeoutMissing
  <2>1. \A a \in Missing : a \in Agents  BY DEF Missing
  <2>2. \A a \in Missing : EmptyAction(a, arrivals) \in Entry  BY <2>1, EmptyLands
  <2>3. pending' \subseteq Entry  BY <1>3, <2>2 DEF TimeoutMissing
  <2>4. timedOut' \subseteq Agents  BY <1>3, <2>1 DEF TimeoutMissing
  <2> QED  BY <1>3, <2>3, <2>4 DEF TimeoutMissing
<1>4. CASE MaybeAdvance
  <2>1. tick' \in 0 .. MaxTick  BY <1>4, LockstepAssumption DEF MaybeAdvance
  <2>2. Due \subseteq Entry  BY DEF Due
  <2> QED  BY <1>4, <2>1, <2>2 DEF MaybeAdvance
<1>5. CASE Save  BY <1>5 DEF Save, Barrier
<1>6. CASE Restore  BY <1>6 DEF Restore
<1>7. CASE UNCHANGED vars  BY <1>7 DEF vars
<1> QED  BY <1>1, <1>2, <1>3, <1>4, <1>5, <1>6, <1>7 DEF Next

-----------------------------------------------------------------------------
(* The invariant *)

\* Fewer entries, the same arrivals: what holds of each pair of entries stays.
LEMMA FewerEntries ==
    ASSUME TypeOK, Ledger, Everything' \subseteq Everything, arrivals' = arrivals
    PROVE  Sound' /\ Distinct'
BY DEF Ledger, Sound, Distinct, Landed

\* New entries with the next arrival number, of agents that differ.
LEMMA MoreEntries ==
    ASSUME TypeOK, Ledger, arrivals' = arrivals + 1,
           NEW S \in SUBSET Entry, Everything' \subseteq Everything \cup S,
           \A e \in S : e.n = arrivals /\ Landed(e),
           \A e, f \in S : e.agent = f.agent => e = f
    PROVE  Sound' /\ Distinct'
<1>1. arrivals \in Nat  BY DEF TypeOK
<1>2. Sound /\ Distinct  BY DEF Ledger
<1>3. \A e \in Everything : e \in Entry
  BY DEF Everything, Arrived, TypeOK, BarrierType
<1>4. \A e \in Everything : e.n \in Nat /\ e.n < arrivals
  BY <1>2, <1>3 DEF Sound, Entry
<1>5. Sound'
  <2>1. \A e \in Everything' : e.n < arrivals + 1 /\ Landed(e)
    BY <1>1, <1>2, <1>4 DEF Sound
  <2> QED  BY <2>1 DEF Sound, Landed
<1>6. Distinct'
  <2> SUFFICES ASSUME NEW e \in Everything', NEW f \in Everything',
                      e.n = f.n, e.agent = f.agent
               PROVE  e = f
    BY DEF Distinct
  <2>1. CASE e \in Everything /\ f \in Everything  BY <1>2, <2>1 DEF Distinct
  <2>2. CASE e \in S /\ f \in S  BY <2>2
  <2>3. CASE e \in Everything /\ f \in S  BY <1>1, <1>4, <2>3
  <2>4. CASE e \in S /\ f \in Everything  BY <1>1, <1>4, <2>4
  <2> QED  BY <2>1, <2>2, <2>3, <2>4
<1> QED  BY <1>5, <1>6

LEMMA LedgerStep == ASSUME TypeOK, Ledger, [Next]_vars
                    PROVE  Ledger'
<1>0. /\ tick \in Nat /\ arrivals \in Nat /\ pending \subseteq Entry
      /\ saved.pending \subseteq Entry
      /\ applied \in [Ticks -> SUBSET Entry] /\ members \in [Ticks -> SUBSET Agents]
  BY LockstepAssumption DEF TypeOK, BarrierType
<1>1. /\ Sound /\ Distinct /\ Consumed /\ NoneStranded
      /\ SilentFirst(pending) /\ SilentFirst(saved.pending)
  BY DEF Ledger
<1>2. \A e \in pending : e \in Everything /\ e.n \in Nat /\ e.n < arrivals
  BY <1>0, <1>1 DEF Sound, Everything, Arrived, Entry
<1>3. ASSUME UNCHANGED <<tick, applied, members>>
      PROVE  Consumed'
  BY <1>1, <1>3 DEF Consumed, SilentFirst
<1>4. ASSUME NEW a \in Agents, Register(a)
      PROVE  Ledger'
  <2>1. UNCHANGED <<tick, pending, applied, members, arrivals, saved, restored>>
    BY <1>4 DEF Register
  <2> QED
    BY <1>1, <1>3, <2>1, FewerEntries
       DEF Ledger, Everything, Arrived, NoneStranded, SilentFirst
<1>5. ASSUME NEW a \in Agents, NEW seq \in Seqs, NEW ahead \in -1 .. MaxAhead,
             NEW late \in BOOLEAN, tick + ahead >= 0, Act(a, seq, tick + ahead, late)
      PROVE  Ledger'
  <2> DEFINE i == Input(a, seq, tick + ahead, late)
  <2>1. /\ pending' = pending \cup {i} /\ arrivals' = arrivals + 1
        /\ UNCHANGED <<tick, applied, members, saved, restored>>
    BY <1>5 DEF Act, Input
  <2>2. i \in Entry /\ Landed(i) /\ i.dest >= tick  BY <1>5, InputLands
  <2>3. i.n = arrivals /\ i.empty = FALSE  BY DEF Input
  <2> HIDE DEF i
  <2>4. Sound' /\ Distinct'
    <3>1. Everything' \subseteq Everything \cup {i}
      BY <2>1 DEF Everything, Arrived
    <3>2. {i} \in SUBSET Entry  BY <2>2
    <3>3. \A e \in {i} : e.n = arrivals /\ Landed(e)  BY <2>2, <2>3
    <3>4. \A e, f \in {i} : e.agent = f.agent => e = f  OBVIOUS
    <3> QED  BY <2>1, <3>1, <3>2, <3>3, <3>4, MoreEntries
  <2>5. SilentFirst(pending)'
    BY <1>0, <1>1, <1>2, <2>1, <2>3 DEF SilentFirst
  <2>6. NoneStranded'  BY <1>1, <2>1, <2>2 DEF NoneStranded
  <2>7. SilentFirst(saved.pending)'  BY <1>1, <2>1 DEF SilentFirst
  <2> QED  BY <1>3, <2>1, <2>4, <2>5, <2>6, <2>7 DEF Ledger
<1>6. CASE TimeoutMissing
  <2> DEFINE S == {EmptyAction(a, arrivals) : a \in Missing}
  <2>1. /\ pending' = pending \cup S /\ arrivals' = arrivals + 1
        /\ UNCHANGED <<tick, applied, members, saved, restored>>
    BY <1>6 DEF TimeoutMissing
  <2>2. \A e \in S : /\ e \in Entry /\ Landed(e) /\ e.dest = tick
                     /\ e.n = arrivals /\ e.agent \in Missing /\ e.empty
    <3> SUFFICES ASSUME NEW a \in Missing
                 PROVE  LET e == EmptyAction(a, arrivals)
                        IN /\ e \in Entry /\ Landed(e) /\ e.dest = tick
                           /\ e.n = arrivals /\ e.agent \in Missing /\ e.empty
      OBVIOUS
    <3>1. a \in Agents  BY DEF Missing, TypeOK, BarrierType
    <3>2. LET e == EmptyAction(a, arrivals) IN e \in Entry /\ Landed(e) /\ e.dest = tick
      BY <3>1, EmptyLands
    <3>3. LET e == EmptyAction(a, arrivals)
          IN e.n = arrivals /\ e.agent = a /\ e.empty
      BY DEF EmptyAction
    <3> QED  BY <3>2, <3>3
  <2>3. \A e, f \in S : e.agent = f.agent => e = f
    <3>1. \A a \in Missing : EmptyAction(a, arrivals).agent = a  BY DEF EmptyAction
    <3> QED  BY <3>1
  <2> HIDE DEF S
  <2>4. Sound' /\ Distinct'
    <3>1. Everything' \subseteq Everything \cup S  BY <2>1 DEF Everything, Arrived
    <3>2. S \in SUBSET Entry  BY <2>2
    <3> QED  BY <2>1, <2>2, <2>3, <3>1, <3>2, MoreEntries
  <2>5. \A e \in S, f \in pending : f.agent = e.agent => f.dest # e.dest
    BY <2>2 DEF Missing, Present
  <2>6. SilentFirst(pending)'
    <3> SUFFICES ASSUME NEW e \in pending \cup S, NEW f \in pending \cup S,
                        e.empty, f.agent = e.agent, f.dest = e.dest, e # f
                 PROVE  ~f.empty /\ f.n > e.n
      BY <2>1 DEF SilentFirst
    <3>1. CASE e \in pending /\ f \in pending  BY <1>1, <3>1 DEF SilentFirst
    <3>2. CASE e \in S \/ f \in S  BY <2>3, <2>5, <3>2
    <3> QED  BY <3>1, <3>2
  <2>7. NoneStranded'  BY <1>0, <1>1, <2>1, <2>2 DEF NoneStranded
  <2>8. SilentFirst(saved.pending)'  BY <1>1, <2>1 DEF SilentFirst
  <2> QED  BY <1>3, <2>1, <2>4, <2>6, <2>7, <2>8 DEF Ledger
<1>7. CASE MaybeAdvance
  <2>1. /\ Missing = {} /\ tick < MaxTick /\ pending' = pending \ Due
        /\ applied' = [applied EXCEPT ![tick] = Due]
        /\ members' = [members EXCEPT ![tick] = known]
        /\ tick' = tick + 1 /\ UNCHANGED <<arrivals, saved, restored>>
    BY <1>7 DEF MaybeAdvance
  <2>2. tick \in Ticks  BY <1>0, <2>1, LockstepAssumption DEF Ticks
  <2>3. Due \subseteq pending /\ \A e \in Due : e.dest = tick  BY DEF Due
  <2>4. \A t \in Ticks : /\ applied'[t] = IF t = tick THEN Due ELSE applied[t]
                         /\ members'[t] = IF t = tick THEN known ELSE members[t]
    BY <1>0, <2>1
  <2>5. Sound' /\ Distinct'
    <3>1. Everything' \subseteq Everything
      BY <2>1, <2>3, <2>4 DEF Everything, Arrived
    <3> QED  BY <2>1, <3>1, FewerEntries
  <2>6. SilentFirst(pending)' /\ SilentFirst(saved.pending)' /\ SilentFirst(Due)
    BY <1>1, <2>1, <2>3 DEF SilentFirst
  <2>7. known \subseteq {e.agent : e \in Due}
    BY <2>1 DEF Missing, Present, Due
  <2>8. Consumed'
    <3> SUFFICES ASSUME NEW t \in Ticks
                 PROVE  /\ t >= tick' => applied'[t] = {} /\ members'[t] = {}
                        /\ \A e \in applied'[t] : e.dest = t
                        /\ members'[t] \subseteq {e.agent : e \in applied'[t]}
                        /\ SilentFirst(applied'[t])
      BY DEF Consumed, SilentFirst
    <3>1. CASE t = tick
      <4>1. applied'[t] = Due /\ members'[t] = known  BY <2>4, <3>1
      <4> QED  BY <1>0, <2>1, <2>3, <2>6, <2>7, <3>1, <4>1
    <3>2. CASE t # tick
      <4>1. applied'[t] = applied[t] /\ members'[t] = members[t]  BY <2>4, <3>2
      <4>2. t \in Int /\ (t >= tick' => t >= tick)  BY <1>0, <2>1 DEF Ticks
      <4> QED  BY <1>1, <4>1, <4>2 DEF Consumed
    <3> QED  BY <3>1, <3>2
  <2>9. NoneStranded'
    <3>1. \A e \in pending' : e \in pending /\ e.dest # tick /\ e.dest \in Int
      BY <1>0, <2>1 DEF Due, Entry, Dests
    <3> QED  BY <1>0, <1>1, <2>1, <3>1 DEF NoneStranded
  <2> QED  BY <2>5, <2>6, <2>8, <2>9 DEF Ledger
<1>8. CASE Save
  <2>1. /\ saved' = Barrier
        /\ UNCHANGED <<tick, known, pending, applied, members, arrivals, restored>>
    BY <1>8 DEF Save
  <2>2. saved'.pending = pending  BY <2>1 DEF Barrier
  <2>3. Everything' \subseteq Everything  BY <2>1, <2>2 DEF Everything, Arrived
  <2> QED
    BY <1>1, <1>3, <2>1, <2>2, <2>3, FewerEntries DEF Ledger, NoneStranded, SilentFirst
<1>9. CASE Restore
  <2>1. /\ pending' = saved.pending /\ restored' = TRUE
        /\ UNCHANGED <<tick, applied, members, arrivals, saved>>
    BY <1>9 DEF Restore
  <2>2. Everything' \subseteq Everything  BY <2>1 DEF Everything, Arrived
  <2> QED
    BY <1>1, <1>3, <2>1, <2>2, FewerEntries DEF Ledger, NoneStranded, SilentFirst
<1>10. CASE UNCHANGED vars
  BY <1>1, <1>3, <1>10, FewerEntries
     DEF vars, Ledger, Everything, Arrived, NoneStranded, SilentFirst
<1> QED  BY <1>4, <1>5, <1>6, <1>7, <1>8, <1>9, <1>10 DEF Next

LEMMA KeysStep == ASSUME TypeOK, Consumed, KeysUnique, Kept, [Next]_vars
                  PROVE  KeysUnique' /\ Kept'
<1>0. pending \subseteq Entry /\ applied \in [Ticks -> SUBSET Entry]
  BY DEF TypeOK, BarrierType
<1>1. ASSUME UNCHANGED <<pending, applied, saved, restored>>
      PROVE  KeysUnique' /\ Kept'
  BY <1>1 DEF KeysUnique, Kept, Arrived
<1>2. ASSUME Arrived' \subseteq Arrived
      PROVE  KeysUnique'
  BY <1>2 DEF KeysUnique
<1>3. ASSUME NEW a \in Agents, NEW seq \in Seqs, NEW ahead \in -1 .. MaxAhead,
             NEW late \in BOOLEAN, Act(a, seq, tick + ahead, late)
      PROVE  KeysUnique' /\ Kept'
  <2> DEFINE i == Input(a, seq, tick + ahead, late)
  <2>1. /\ pending' = pending \cup {i} /\ Unused(a, seq, tick + ahead)
        /\ UNCHANGED <<applied, saved, restored>>
    BY <1>3 DEF Act, Input
  <2>2. i.agent = a /\ i.seq = seq /\ ~i.empty  BY DEF Input
  <2> HIDE DEF i
  <2>3. Arrived' = Arrived \cup {i}  BY <2>1 DEF Arrived
  <2>4. ~PerTick => ~\E e \in Arrived : ~e.empty /\ e.agent = a /\ e.seq = seq
    BY <2>1 DEF Unused
  <2>5. KeysUnique'  BY <2>2, <2>3, <2>4 DEF KeysUnique
  <2> QED  BY <2>1, <2>3, <2>5 DEF Kept
<1>4. CASE TimeoutMissing
  <2> DEFINE S == {EmptyAction(a, arrivals) : a \in Missing}
  <2>1. pending' = pending \cup S /\ UNCHANGED <<applied, saved, restored>>
    BY <1>4 DEF TimeoutMissing
  <2>2. \A e \in S : e.empty  BY DEF EmptyAction
  <2> HIDE DEF S
  <2>3. Arrived' = Arrived \cup S  BY <2>1 DEF Arrived
  <2>4. KeysUnique'  BY <2>2, <2>3 DEF KeysUnique
  <2> QED  BY <2>1, <2>3, <2>4 DEF Kept
<1>5. CASE MaybeAdvance
  <2>1. /\ pending' = pending \ Due /\ applied' = [applied EXCEPT ![tick] = Due]
        /\ tick < MaxTick /\ tick \in 0 .. MaxTick /\ UNCHANGED <<saved, restored>>
    BY <1>5 DEF MaybeAdvance, TypeOK
  <2>2. tick \in Ticks  BY <2>1, LockstepAssumption DEF Ticks
  <2>3. \A t \in Ticks : applied'[t] = IF t = tick THEN Due ELSE applied[t]
    BY <1>0, <2>1
  <2>4. Due \subseteq pending  BY DEF Due
  <2>5. applied[tick] = {}  BY <2>1, <2>2 DEF Consumed
  <2>6. Arrived' = Arrived
    <3>1. Arrived' \subseteq Arrived  BY <2>1, <2>3, <2>4 DEF Arrived
    <3>2. \A t \in Ticks : applied[t] \subseteq applied'[t]  BY <2>3, <2>5
    <3>3. Due \subseteq applied'[tick]  BY <2>2, <2>3
    <3>4. Arrived \subseteq Arrived'  BY <2>1, <2>2, <3>2, <3>3 DEF Arrived
    <3> QED  BY <3>1, <3>4
  <2> QED  BY <1>2, <2>1, <2>6 DEF Kept
<1>6. CASE Save
  <2>1. saved'.pending = pending /\ UNCHANGED <<pending, applied>>
    BY <1>6 DEF Save, Barrier
  <2>2. Arrived' = Arrived /\ pending \subseteq Arrived  BY <2>1 DEF Arrived
  <2> QED  BY <1>2, <2>1, <2>2 DEF Kept
<1>7. CASE Restore
  <2>1. /\ pending' = saved.pending /\ restored' = TRUE /\ applied' = applied
        /\ ~restored
    BY <1>7 DEF Restore
  <2>2. Arrived' \subseteq Arrived  BY <2>1 DEF Arrived, Kept
  <2> QED  BY <1>2, <2>1, <2>2 DEF Kept
<1>8. ASSUME NEW a \in Agents, Register(a)
      PROVE  KeysUnique' /\ Kept'
  BY <1>1, <1>8 DEF Register
<1>9. CASE UNCHANGED vars  BY <1>1, <1>9 DEF vars
<1> QED  BY <1>3, <1>4, <1>5, <1>6, <1>7, <1>8, <1>9 DEF Next

LEMMA InvCorrect == Spec => []Inv
<1>1. Init => Inv
  <2> SUFFICES ASSUME Init PROVE Inv  OBVIOUS
  <2>1. TypeOK
    <3>1. tick \in 0 .. MaxTick /\ arrivals \in Nat  BY LockstepAssumption DEF Init
    <3>2. /\ applied \in [Ticks -> SUBSET Entry]
          /\ members \in [Ticks -> SUBSET Agents]
      BY DEF Init
    <3>3. saved \in [known : SUBSET Agents, pending : SUBSET Entry,
                     timedOut : SUBSET Agents]
      BY DEF Init, Barrier
    <3> QED  BY <3>1, <3>2, <3>3 DEF Init, TypeOK, BarrierType
  <2>2. Everything = {} /\ Arrived = {} /\ saved.pending = {} /\ pending = {}
    BY DEF Init, Everything, Arrived, Barrier
  <2>3. Ledger
    BY <2>2 DEF Init, Ledger, Sound, Distinct, SilentFirst, Consumed, NoneStranded
  <2> QED  BY <2>1, <2>2, <2>3 DEF Inv, KeysUnique, Kept
<1>2. Inv /\ [Next]_vars => Inv'
  <2> SUFFICES ASSUME Inv, [Next]_vars PROVE Inv'  OBVIOUS
  <2>1. TypeOK /\ Ledger /\ Consumed /\ KeysUnique /\ Kept  BY DEF Inv, Ledger
  <2> QED  BY <2>1, TypeStep, LedgerStep, KeysStep DEF Inv
<1> QED  BY <1>1, <1>2, PTL DEF Spec

-----------------------------------------------------------------------------
(* The theorems *)

\* Every variable of the barrier and its world keeps its type.
THEOREM TypeCorrect == Spec => []TypeOK
<1>1. Inv => TypeOK  BY DEF Inv
<1> QED  BY <1>1, InvCorrect, PTL

\* No input reaches the world twice, whenever the barrier is saved and restored.
THEOREM AppliedAtMostOnceCorrect == Spec => []AppliedAtMostOnce
<1>1. ASSUME Inv  PROVE AppliedAtMostOnce
  <2> SUFFICES ASSUME NEW t \in Ticks, NEW u \in Ticks, NEW e \in applied[t],
                      NEW f \in applied[u], e.n = f.n, e.agent = f.agent
               PROVE  t = u /\ e = f
    BY DEF AppliedAtMostOnce
  <2>1. e \in Everything /\ f \in Everything  BY DEF Everything, Arrived
  <2>2. e = f  BY <1>1, <2>1 DEF Inv, Ledger, Distinct
  <2>3. e.dest = t /\ f.dest = u  BY <1>1 DEF Inv, Ledger, Consumed
  <2> QED  BY <2>2, <2>3
<1> QED  BY <1>1, InvCorrect, PTL

\* Without a restore no input is stranded on a tick that has passed.
THEOREM NoneStrandedCorrect == Spec => []NoneStranded
<1>1. Inv => NoneStranded  BY DEF Inv, Ledger
<1> QED  BY <1>1, InvCorrect, PTL

\* The world never steps past an agent that was neither heard nor timed out.
THEOREM EveryoneHeardCorrect == Spec => []EveryoneHeard
<1>1. Inv => EveryoneHeard  BY DEF Inv, Ledger, Consumed, EveryoneHeard
<1> QED  BY <1>1, InvCorrect, PTL

\* Inputs in time land on their target, late ones on the next tick, none before
\* the tick they came in.
THEOREM LandsOnTimeCorrect == Spec => []LandsOnTime
<1>1. ASSUME Inv  PROVE LandsOnTime
  <2> SUFFICES ASSUME NEW t \in Ticks, NEW e \in applied[t]
               PROVE  /\ t >= e.target /\ t >= e.came
                      /\ e.late => t > e.target
                      /\ ~e.late /\ e.target >= e.came => t = e.target
    BY DEF LandsOnTime
  <2>1. e \in Everything  BY DEF Everything, Arrived
  <2>2. Landed(e)  BY <1>1, <2>1 DEF Inv, Ledger, Sound
  <2>3. e.dest = t  BY <1>1 DEF Inv, Ledger, Consumed
  <2> QED  BY <2>2, <2>3 DEF Landed
<1> QED  BY <1>1, InvCorrect, PTL

\* An empty input is the first of its agent on its tick, and the only empty one.
THEOREM EmptyForTheSilentCorrect == Spec => []EmptyForTheSilent
<1>1. ASSUME Inv  PROVE EmptyForTheSilent
  <2> SUFFICES ASSUME NEW t \in Ticks, NEW e \in applied[t], NEW f \in applied[t],
                      e.empty, f.agent = e.agent, e # f
               PROVE  ~f.empty /\ f.n > e.n
    BY DEF EmptyForTheSilent
  <2>1. e.dest = f.dest /\ SilentFirst(applied[t])
    BY <1>1 DEF Inv, Ledger, Consumed
  <2> QED  BY <2>1 DEF SilentFirst
<1> QED  BY <1>1, InvCorrect, PTL

\* With sequence numbers used once by a session, the order in which the world sees
\* the inputs of a tick is a function of the inputs, not of their arrival.
THEOREM OrderIsByKeyCorrect == Spec => [](~PerTick => OrderIsByKey)
<1>1. ASSUME Inv, ~PerTick  PROVE OrderIsByKey
  <2> SUFFICES ASSUME NEW t \in Ticks, NEW e \in applied[t], NEW f \in applied[t],
                      e.agent = f.agent, e.seq = f.seq
               PROVE  e = f
    BY DEF OrderIsByKey
  <2>1. e \in Arrived /\ f \in Arrived /\ e \in Everything /\ f \in Everything
    BY DEF Everything, Arrived
  <2>2. e.empty <=> f.empty  BY <1>1, <2>1 DEF Inv, Ledger, Sound, Landed
  <2>3. CASE e.empty
    <3>1. e.dest = f.dest /\ SilentFirst(applied[t])
      BY <1>1 DEF Inv, Ledger, Consumed
    <3> QED  BY <2>2, <2>3, <3>1 DEF SilentFirst
  <2>4. CASE ~e.empty  BY <1>1, <2>1, <2>2, <2>4 DEF Inv, KeysUnique
  <2> QED  BY <2>3, <2>4
<1>2. Inv => (~PerTick => OrderIsByKey)  BY <1>1
<1> QED  BY <1>2, InvCorrect, PTL

\* An input is applied at most once, on its tick or, late, on the next one.
THEOREM InputsOnceOnTimeCorrect == Spec => []InputsOnceOnTime
<1>1. TypeOK /\ AppliedAtMostOnce /\ NoneStranded /\ LandsOnTime => InputsOnceOnTime
  BY DEF InputsOnceOnTime
<1> QED  BY <1>1, TypeCorrect, AppliedAtMostOnceCorrect, NoneStrandedCorrect, LandsOnTimeCorrect, PTL

\* A tick the world has stepped past is complete, and its order is a function of
\* the inputs.
THEOREM TicksCompleteCorrect == Spec => []TicksComplete
<1>1. EveryoneHeard /\ EmptyForTheSilent /\ (~PerTick => OrderIsByKey) => TicksComplete
  BY DEF TicksComplete
<1> QED  BY <1>1, EveryoneHeardCorrect, EmptyForTheSilentCorrect, OrderIsByKeyCorrect, PTL
=============================================================================
