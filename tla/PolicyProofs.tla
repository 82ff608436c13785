---------------------------- MODULE PolicyProofs ----------------------------
(***************************************************************************)
(* Proofs about the policy authorities (module Policy) and the cascades of *)
(* random events that ask for their control (module Cascade).              *)
(*                                                                         *)
(* Who has the seat has the control, what a policymaker has set nobody     *)
(* below sets otherwise, a decision waits for its month, an event's rate   *)
(* ends with the event, and a one-off is used once.  Follow-ups form       *)
(* bounded cascades behind their causes, events keep their cooldown, a     *)
(* headline comes out on its day, and what waits to act for an authority   *)
(* somebody holds was scheduled before it was taken over.                  *)
(***************************************************************************)
EXTENDS Policy, Cascade, SequenceTheorems, FiniteSetTheorems, WellFoundedInduction, TLAPS

-----------------------------------------------------------------------------
(* Induction, and the functions it defines. *)

\* A set that has 0, and n + 1 with n, has every natural number.
LEMMA Induction ==
    ASSUME NEW S, 0 \in S, \A n \in Nat : n \in S => n + 1 \in S
    PROVE  Nat \subseteq S
<1> DEFINE R == OpToRel(<, Nat)
           T == Nat \ S
<1> SUFFICES ASSUME T # {} PROVE FALSE
  OBVIOUS
<1>1. IsWellFoundedOn(R, Nat)
  BY NatLessThanWellFounded
<1>2. PICK x \in T : \A y \in T : ~(<<y, x>> \in R)
  <2>1. T \subseteq Nat
    OBVIOUS
  <2> HIDE DEF R, T
  <2> QED BY <1>1, <2>1, WFMin
<1>3. x \in Nat \ {0} /\ x - 1 \in Nat /\ x - 1 < x
  OBVIOUS
<1>4. x - 1 \in T
  BY <1>3
<1>5. <<x - 1, x>> \in R
  BY <1>3 DEF OpToRel
<1> QED BY <1>2, <1>4, <1>5

\* From b, step after step: f[k] is what k steps have made of b.
Iterates(f, n, b, Step) == f[0] = b /\ \A k \in 1 .. n : f[k] = Step[k][f[k - 1]]

LEMMA IterationExists ==
    ASSUME NEW T, NEW b \in T, NEW Size \in Nat, NEW Step \in [1 .. Size -> [T -> T]]
    PROVE  \E f \in [0 .. Size -> T] : Iterates(f, Size, b, Step)
<1> DEFINE Good == {n \in Nat : n =< Size => \E f \in [0 .. n -> T] : Iterates(f, n, b, Step)}
<1>1. 0 \in Good
  <2> DEFINE f == [k \in 0 .. 0 |-> b]
  <2>1. f \in [0 .. 0 -> T] /\ f[0] = b /\ 1 .. 0 = {}
    OBVIOUS
  <2> HIDE DEF f
  <2>2. Iterates(f, 0, b, Step)
    BY <2>1 DEF Iterates
  <2> QED BY <2>1, <2>2
<1>2. ASSUME NEW n \in Nat, n \in Good
      PROVE  n + 1 \in Good
  <2> SUFFICES ASSUME n + 1 =< Size
               PROVE  \E g \in [0 .. n + 1 -> T] : Iterates(g, n + 1, b, Step)
    OBVIOUS
  <2>1. PICK f \in [0 .. n -> T] : Iterates(f, n, b, Step)
    BY <1>2
  <2> DEFINE last == Step[n + 1][f[n]]
             g == [k \in 0 .. n + 1 |-> IF k = n + 1 THEN last ELSE f[k]]
  <2>2. n + 1 \in 1 .. Size /\ f[n] \in T
    OBVIOUS
  <2>3. last \in T
    BY <2>2
  <2>4. g \in [0 .. n + 1 -> T]
    <3> HIDE DEF last
    <3> QED BY <2>3
  <2>5. g[n + 1] = last /\ \A k \in 0 .. n : g[k] = f[k]
    OBVIOUS
  <2>6. ASSUME NEW k \in 1 .. n + 1 PROVE g[k] = Step[k][g[k - 1]]
    <3> HIDE DEF g
    <3>1. k - 1 \in 0 .. n /\ g[k - 1] = f[k - 1]
      BY <2>5
    <3>2. CASE k = n + 1
      BY <2>5, <3>1, <3>2
    <3>3. CASE k \in 1 .. n
      BY <2>1, <2>5, <3>1, <3>3 DEF Iterates
    <3> QED BY <3>2, <3>3
  <2>7. g[0] = b
    <3> HIDE DEF g
    <3> QED BY <2>1, <2>5 DEF Iterates
  <2>8. Iterates(g, n + 1, b, Step)
    <3> HIDE DEF g
    <3> QED BY <2>6, <2>7 DEF Iterates
  <2> HIDE DEF g
  <2> QED BY <2>4, <2>8
<1> HIDE DEF Good
<1>3. Nat \subseteq Good
  BY <1>1, <1>2, Induction
<1> QED BY <1>3 DEF Good

\* Whatever satisfies the equations of the steps has their type.
LEMMA IterationTyped ==
    ASSUME NEW T, NEW b \in T, NEW Size \in Nat, NEW Step \in [1 .. Size -> [T -> T]],
           NEW f, f[0] = b, \A k \in 1 .. Size : f[k - 1] \in T => f[k] = Step[k][f[k - 1]]
    PROVE  \A k \in 0 .. Size : f[k] \in T
<1> DEFINE Good == {n \in Nat : n =< Size => f[n] \in T}
<1>1. 0 \in Good
  OBVIOUS
<1>2. ASSUME NEW n \in Nat, n \in Good
      PROVE  n + 1 \in Good
  <2> SUFFICES ASSUME n + 1 =< Size PROVE f[n + 1] \in T
    OBVIOUS
  <2>1. f[n] \in T /\ n + 1 \in 1 .. Size /\ n + 1 - 1 = n
    BY <1>2
  <2>2. f[n + 1] = Step[n + 1][f[n]]
    BY <2>1
  <2>3. Step[n + 1][f[n]] \in T
    BY <2>1
  <2> QED BY <2>2, <2>3
<1> HIDE DEF Good
<1>3. Nat \subseteq Good
  BY <1>1, <1>2, Induction
<1> QED BY <1>3 DEF Good

-----------------------------------------------------------------------------
(* The calendar, the ranks, what is kept of a queue. *)

\* The day after the last of a month is in the next, any other in the same.
LEMMA Months ==
    ASSUME NEW t \in Nat, NEW D \in Nat \ {0}
    PROVE  /\ t \div D \in Nat
           /\ t % D = D - 1 => (t + 1) \div D = t \div D + 1
           /\ t % D # D - 1 => (t + 1) \div D = t \div D
<1> DEFINE q == t \div D
           r == t % D
<1>1. q \in Nat /\ r \in 0 .. D - 1 /\ t = D * q + r
  OBVIOUS
<1> QED BY <1>1

\* The order of the sources.
LEMMA Ranks ==
    /\ Rank["autopilot"] = 0 /\ Rank["event"] = 1 /\ Rank["scripted"] = 2 /\ Rank["agent"] = 3
    /\ \A s \in Sources : Rank[s] \in 0 .. 3
BY DEF Rank, Sources

LEMMA AppendFacts ==
    ASSUME NEW T, NEW s \in Seq(T), NEW e \in T
    PROVE  /\ Append(s, e) \in Seq(T) /\ Len(Append(s, e)) = Len(s) + 1
           /\ \A k \in 1 .. Len(s) : Append(s, e)[k] = s[k]
           /\ Append(s, e)[Len(s) + 1] = e
OBVIOUS

LEMMA ElementsAppend ==
    ASSUME NEW T, NEW s \in Seq(T), NEW e \in T
    PROVE  Elements(Append(s, e)) = Elements(s) \cup {e}
<1>1. /\ Append(s, e) \in Seq(T) /\ Len(Append(s, e)) = Len(s) + 1
      /\ \A k \in 1 .. Len(s) : Append(s, e)[k] = s[k]
      /\ Append(s, e)[Len(s) + 1] = e
  BY AppendFacts
<1>2. DOMAIN s = 1 .. Len(s) /\ DOMAIN Append(s, e) = 1 .. Len(s) + 1 /\ Len(s) \in Nat
  BY <1>1
<1> HIDE <1>1
<1> QED BY <1>1, <1>2 DEF Elements

LEMMA ElementsTyped ==
    ASSUME NEW T, NEW s \in Seq(T)
    PROVE  Elements(s) \subseteq T
BY DEF Elements

Keeping(f, s, S) ==
    f = [n \in 0 .. Len(s) |-> IF n = 0 THEN << >>
                               ELSE IF s[n] \in S THEN Append(f[n - 1], s[n])
                               ELSE f[n - 1]]

\* What is kept is a sequence of elements of the old one that are in the set.
LEMMA KeepFacts ==
    ASSUME NEW T, NEW s \in Seq(T), NEW S
    PROVE  Keep(s, S) \in Seq(T) /\ Elements(Keep(s, S)) \subseteq Elements(s) \cap S
<1> DEFINE Size == Len(s)
           E == Elements(s) \cap S
           Step == [k \in 1 .. Size |-> [x \in Seq(E) |-> IF s[k] \in S THEN Append(x, s[k]) ELSE x]]
           c == CHOOSE f : Keeping(f, s, S)
<1>0. \A k \in 1 .. Size : s[k] \in S => s[k] \in E
  BY DEF Elements
<1>1. Size \in Nat /\ << >> \in Seq(E) /\ Step \in [1 .. Size -> [Seq(E) -> Seq(E)]]
  <2>1. \A k \in 1 .. Size, x \in Seq(E) : (IF s[k] \in S THEN Append(x, s[k]) ELSE x) \in Seq(E)
    <3> HIDE DEF E
    <3> QED BY <1>0
  <2> HIDE DEF E
  <2> QED BY <2>1
<1>2. \A k \in 1 .. Size, x \in Seq(E) : Step[k][x] = IF s[k] \in S THEN Append(x, s[k]) ELSE x
  OBVIOUS
<1> HIDE DEF Step, E
<1>3. PICK f \in [0 .. Size -> Seq(E)] : Iterates(f, Size, << >>, Step)
  <2> HIDE DEF Size
  <2> QED BY <1>1, IterationExists
<1>4. Keeping(f, s, S)
  <2> DEFINE g == [n \in 0 .. Size |-> IF n = 0 THEN << >>
                                    ELSE IF s[n] \in S THEN Append(f[n - 1], s[n])
                                    ELSE f[n - 1]]
  <2>1. f[0] = << >>
        /\ \A n \in 1 .. Size : f[n] = IF s[n] \in S THEN Append(f[n - 1], s[n]) ELSE f[n - 1]
    <3>1. f[0] = << >>
      BY <1>3 DEF Iterates
    <3>2. ASSUME NEW n \in 1 .. Size
          PROVE  f[n] = IF s[n] \in S THEN Append(f[n - 1], s[n]) ELSE f[n - 1]
      <4>1. f[n] = Step[n][f[n - 1]] /\ f[n - 1] \in Seq(E)
        BY <1>3 DEF Iterates
      <4> QED BY <1>2, <4>1
    <3> QED BY <3>1, <3>2
  <2>2. g[0] = << >>
        /\ \A n \in 1 .. Size : g[n] = IF s[n] \in S THEN Append(f[n - 1], s[n]) ELSE f[n - 1]
    OBVIOUS
  <2>3. g = [n \in 0 .. Size |-> g[n]] /\ f = [n \in 0 .. Size |-> f[n]]
    OBVIOUS
  <2> HIDE DEF g
  <2>4. \A n \in 0 .. Size : f[n] = g[n]
    BY <2>1, <2>2
  <2>5. f = g
    BY <2>3, <2>4
  <2> QED BY <2>5 DEF g, Keeping
<1>5. Keeping(c, s, S) /\ Keep(s, S) = c[Size]
  BY <1>4, Zenon DEF Keep, Keeping
<1> HIDE DEF c
<1>6. c[0] = << >>
      /\ \A n \in 1 .. Size : c[n] = IF s[n] \in S THEN Append(c[n - 1], s[n]) ELSE c[n - 1]
  <2> DEFINE h == [n \in 0 .. Size |-> IF n = 0 THEN << >>
                                    ELSE IF s[n] \in S THEN Append(c[n - 1], s[n])
                                    ELSE c[n - 1]]
  <2>1. c = h
    BY <1>5 DEF Keeping
  <2>2. h[0] = << >>
        /\ \A n \in 1 .. Size : h[n] = IF s[n] \in S THEN Append(c[n - 1], s[n]) ELSE c[n - 1]
    OBVIOUS
  <2> HIDE DEF h
  <2> QED BY <2>1, <2>2
<1>7. \A k \in 0 .. Size : c[k] \in Seq(E)
  <2>1. c[0] = << >> /\ \A k \in 1 .. Size : c[k - 1] \in Seq(E) => c[k] = Step[k][c[k - 1]]
    BY <1>2, <1>6
  <2> HIDE DEF Size
  <2> QED BY <1>1, <2>1, IterationTyped
<1>8. Keep(s, S) \in Seq(E) /\ E \subseteq T
  BY <1>1, <1>5, <1>7, ElementsTyped DEF E
<1>9. Elements(Keep(s, S)) \subseteq E
  BY <1>8, ElementsTyped
<1> QED BY <1>8, <1>9 DEF E

-----------------------------------------------------------------------------
(* What the variables hold. *)

Held == [source : Sources, value : Int, due : Int, id : Nat]
Choices == {[l \in DOMAIN f |-> Clip(l, f[l])] : f \in Decisions}
Decided == [id : Ids, source : Sources, due : Int, fields : Choices]
Queued == {d \in Decided : d.source = "scripted"}
Effect == [value : Int, start : Int, days : Nat \ {0}]

LEMMA ChoicesAreNumbers == ASSUME NEW f \in Choices, NEW l \in DOMAIN f PROVE f[l] \in Int
<1>1. PICK g \in Decisions : f = [x \in DOMAIN g |-> Clip(x, g[x])]
  BY DEF Choices
<1>2. l \in DOMAIN g /\ f[l] = Clip(l, g[l])
  BY <1>1
<1>3. g[l] \in Int /\ Bound[l] \in Nat
  BY <1>2, PolicyAssumption
<1> QED BY <1>2, <1>3 DEF Clip

LEMMA EntryFacts ==
    ASSUME NEW d \in Decided, NEW l \in DOMAIN d.fields
    PROVE  /\ Entry(d, l) \in Held
           /\ Entry(d, l).source = d.source /\ Entry(d, l).value = d.fields[l]
           /\ Entry(d, l).due = d.due /\ Entry(d, l).id = d.id
<1>1. d.source \in Sources /\ d.due \in Int /\ d.id \in Nat /\ d.fields \in Choices
  BY PolicyAssumption DEF Decided, Ids
<1>2. d.fields[l] \in Int
  BY <1>1, ChoicesAreNumbers
<1> QED BY <1>1, <1>2 DEF Entry, Held

LEMMA UnsetFacts ==
    /\ Unset \in Held /\ Unset.source = "autopilot" /\ Unset.value = 0 /\ Unset.due = 0 /\ Unset.id = 0
<1>1. /\ Unset.source = "autopilot" /\ Unset.value = 0 /\ Unset.due = 0 /\ Unset.id = 0
      /\ Unset = [source |-> "autopilot", value |-> 0, due |-> 0, id |-> 0]
  BY DEF Unset
<1>2. "autopilot" \in Sources
  BY DEF Sources
<1> QED BY <1>1, <1>2 DEF Held

-----------------------------------------------------------------------------
(* What activating a queue makes of the levers. *)

\* The lever l is x where it was y: as it was, or set by a decision that is due,
\* names it and does not rank below who held it.
From(x, y, q, m, l) ==
    \/ x = y
    \/ \E d \in Elements(q) : /\ d.due =< m /\ l \in DOMAIN d.fields /\ x = Entry(d, l)
                              /\ Rank[d.source] >= Rank[y.source]

LEMMA ArbitrateStep ==
    ASSUME NEW L, NEW lv \in [L -> Held], NEW q \in Seq(Decided), NEW m \in Int,
           NEW x \in [L -> Held], \A l \in L : From(x[l], lv[l], q, m, l),
           NEW d \in Elements(q), d.due =< m
    PROVE  /\ Arbitrate(x, d) \in [L -> Held]
           /\ \A l \in L : From(Arbitrate(x, d)[l], lv[l], q, m, l)
<1>1. d \in Decided
  BY ElementsTyped
<1>2. \A l \in L : Arbitrate(x, d)[l] = IF l \in DOMAIN d.fields /\ Rank[d.source] >= Rank[x[l].source]
                                        THEN Entry(d, l) ELSE x[l]
  BY DEF Arbitrate
<1>3. \A l \in L : l \in DOMAIN d.fields => Entry(d, l) \in Held
  BY <1>1, EntryFacts
<1>4. Arbitrate(x, d) \in [L -> Held]
  BY <1>3 DEF Arbitrate
<1>5. ASSUME NEW l \in L PROVE From(Arbitrate(x, d)[l], lv[l], q, m, l)
  <2>1. CASE l \in DOMAIN d.fields /\ Rank[d.source] >= Rank[x[l].source]
    <3>1. Arbitrate(x, d)[l] = Entry(d, l)
      BY <1>2, <2>1
    <3>2. Rank[x[l].source] >= Rank[lv[l].source]
      <4>1. CASE x[l] = lv[l]
        <5>1. Rank[lv[l].source] \in 0 .. 3
          BY Ranks DEF Held
        <5> QED BY <4>1, <5>1
      <4>2. CASE \E e \in Elements(q) : /\ e.due =< m /\ l \in DOMAIN e.fields /\ x[l] = Entry(e, l)
                                        /\ Rank[e.source] >= Rank[lv[l].source]
        <5>1. PICK e \in Elements(q) : /\ l \in DOMAIN e.fields /\ x[l] = Entry(e, l)
                                       /\ Rank[e.source] >= Rank[lv[l].source]
          BY <4>2
        <5>2. e \in Decided
          BY ElementsTyped
        <5>3. x[l].source = e.source
          BY <5>1, <5>2, EntryFacts
        <5> QED BY <5>1, <5>3
      <4> QED BY <4>1, <4>2 DEF From
    <3>3. Rank[d.source] \in 0 .. 3 /\ Rank[x[l].source] \in 0 .. 3 /\ Rank[lv[l].source] \in 0 .. 3
      BY <1>1, Ranks DEF Held, Decided
    <3>4. Rank[d.source] >= Rank[lv[l].source]
      BY <2>1, <3>2, <3>3
    <3> QED BY <2>1, <3>1, <3>4 DEF From
  <2>2. CASE ~(l \in DOMAIN d.fields /\ Rank[d.source] >= Rank[x[l].source])
    <3>1. Arbitrate(x, d)[l] = x[l]
      BY <1>2, <2>2
    <3> QED BY <3>1
  <2> QED BY <2>1, <2>2
<1> QED BY <1>4, <1>5

Activating(f, lv, q, m) ==
    f = [k \in 0 .. Len(q) |-> IF k = 0 THEN lv
                               ELSE IF q[k].due =< m THEN Arbitrate(f[k - 1], q[k])
                               ELSE f[k - 1]]

Unfolds(c, L, lv, q, m) ==
    /\ \A k \in 0 .. Len(q) : c[k] \in [L -> Held] /\ \A l \in L : From(c[k][l], lv[l], q, m, l)
    /\ \A k \in 1 .. Len(q) : c[k] = IF q[k].due =< m THEN Arbitrate(c[k - 1], q[k]) ELSE c[k - 1]

\* Every step of an activation leaves each lever as it was or set by who may set it.
LEMMA ActivatingFacts ==
    ASSUME NEW L, NEW lv \in [L -> Held], NEW q \in Seq(Decided), NEW m \in Int
    PROVE  \E c : Activated(lv, q, m) = c[Len(q)] /\ Unfolds(c, L, lv, q, m)
<1> DEFINE Size == Len(q)
           T == {x \in [L -> Held] : \A l \in L : From(x[l], lv[l], q, m, l)}
           Step == [k \in 1 .. Size |-> [x \in T |-> IF q[k].due =< m THEN Arbitrate(x, q[k]) ELSE x]]
           c == CHOOSE f : Activating(f, lv, q, m)
<1>1. Size \in Nat /\ lv \in T
  BY DEF From
<1>2. Step \in [1 .. Size -> [T -> T]]
  <2>1. ASSUME NEW k \in 1 .. Size, NEW x \in T, q[k].due =< m PROVE Arbitrate(x, q[k]) \in T
    <3>1. q[k] \in Elements(q)
      BY DEF Elements
    <3>2. x \in [L -> Held] /\ \A l \in L : From(x[l], lv[l], q, m, l)
      OBVIOUS
    <3>3. /\ Arbitrate(x, q[k]) \in [L -> Held]
          /\ \A l \in L : From(Arbitrate(x, q[k])[l], lv[l], q, m, l)
      BY <2>1, <3>1, <3>2, ArbitrateStep
    <3> QED BY <3>3
  <2> HIDE DEF T
  <2> QED BY <2>1
<1>3. \A k \in 1 .. Size, x \in T : Step[k][x] = IF q[k].due =< m THEN Arbitrate(x, q[k]) ELSE x
  BY Zenon
<1> HIDE DEF Step, T
<1>4. PICK f \in [0 .. Size -> T] : Iterates(f, Size, lv, Step)
  <2> HIDE DEF Size
  <2> QED BY <1>1, <1>2, IterationExists
<1>5. Activating(f, lv, q, m)
  <2> DEFINE g == [k \in 0 .. Size |-> IF k = 0 THEN lv
                                    ELSE IF q[k].due =< m THEN Arbitrate(f[k - 1], q[k])
                                    ELSE f[k - 1]]
  <2>1. f[0] = lv
        /\ \A k \in 1 .. Size : f[k] = IF q[k].due =< m THEN Arbitrate(f[k - 1], q[k]) ELSE f[k - 1]
    <3>1. f[0] = lv
      BY <1>4 DEF Iterates
    <3>2. ASSUME NEW k \in 1 .. Size
          PROVE  f[k] = IF q[k].due =< m THEN Arbitrate(f[k - 1], q[k]) ELSE f[k - 1]
      <4>1. f[k] = Step[k][f[k - 1]] /\ f[k - 1] \in T
        BY <1>4 DEF Iterates
      <4> QED BY <1>3, <4>1
    <3> QED BY <3>1, <3>2
  <2>2. g[0] = lv
        /\ \A k \in 1 .. Size : g[k] = IF q[k].due =< m THEN Arbitrate(f[k - 1], q[k]) ELSE f[k - 1]
    OBVIOUS
  <2>3. g = [k \in 0 .. Size |-> g[k]] /\ f = [k \in 0 .. Size |-> f[k]]
    OBVIOUS
  <2> HIDE DEF g
  <2>4. \A k \in 0 .. Size : f[k] = g[k]
    BY <2>1, <2>2
  <2>5. f = g
    BY <2>3, <2>4
  <2> QED BY <2>5 DEF g, Activating
<1>6. Activating(c, lv, q, m) /\ Activated(lv, q, m) = c[Size]
  BY <1>5, Zenon DEF Activated, Activating
<1> HIDE DEF c
<1>7. c[0] = lv
      /\ \A k \in 1 .. Size : c[k] = IF q[k].due =< m THEN Arbitrate(c[k - 1], q[k]) ELSE c[k - 1]
  <2> DEFINE h == [k \in 0 .. Size |-> IF k = 0 THEN lv
                                    ELSE IF q[k].due =< m THEN Arbitrate(c[k - 1], q[k])
                                    ELSE c[k - 1]]
  <2>1. c = h
    BY <1>6 DEF Activating
  <2>2. h[0] = lv
        /\ \A k \in 1 .. Size : h[k] = IF q[k].due =< m THEN Arbitrate(c[k - 1], q[k]) ELSE c[k - 1]
    OBVIOUS
  <2> HIDE DEF h
  <2> QED BY <2>1, <2>2
<1>8. \A k \in 0 .. Size : c[k] \in T
  <2>1. c[0] = lv /\ \A k \in 1 .. Size : c[k - 1] \in T => c[k] = Step[k][c[k - 1]]
    BY <1>3, <1>7
  <2> HIDE DEF Size
  <2> QED BY <1>1, <1>2, <2>1, IterationTyped
<1>9. \A k \in 0 .. Size : c[k] \in [L -> Held] /\ \A l \in L : From(c[k][l], lv[l], q, m, l)
  BY <1>8 DEF T
<1>10. Unfolds(c, L, lv, q, m)
  BY <1>7, <1>9, Zenon DEF Unfolds
<1> QED BY <1>6, <1>10

LEMMA ActivatedFacts ==
    ASSUME NEW L, NEW lv \in [L -> Held], NEW q \in Seq(Decided), NEW m \in Int
    PROVE  /\ Activated(lv, q, m) \in [L -> Held]
           /\ \A l \in L : From(Activated(lv, q, m)[l], lv[l], q, m, l)
<1>1. Len(q) \in 0 .. Len(q)
  OBVIOUS
<1>2. PICK c : Activated(lv, q, m) = c[Len(q)] /\ Unfolds(c, L, lv, q, m)
  BY ActivatingFacts
<1> QED BY <1>1, <1>2 DEF Unfolds

\* A policymaker's decision, the last of the queue and due, sets what it names.
LEMMA LastWordSets ==
    ASSUME NEW L, NEW lv \in [L -> Held], NEW p \in Seq(Decided), NEW d \in Decided, NEW m \in Int,
           d.source = "agent", d.due =< m, NEW l \in L, l \in DOMAIN d.fields
    PROVE  Activated(lv, Append(p, d), m)[l] = Entry(d, l)
<1> DEFINE q == Append(p, d)
           Size == Len(q)
<1>1. q \in Seq(Decided) /\ q[Size] = d /\ Size \in 1 .. Size /\ Size - 1 \in 0 .. Size
  BY AppendFacts
<1> HIDE DEF q
<1>2. PICK c : Activated(lv, q, m) = c[Len(q)] /\ Unfolds(c, L, lv, q, m)
  BY <1>1, ActivatingFacts
<1>3. c[Size] = Arbitrate(c[Size - 1], d) /\ c[Size - 1] \in [L -> Held]
  BY <1>1, <1>2 DEF Unfolds
<1>4. Rank[d.source] = 3 /\ Rank[c[Size - 1][l].source] \in 0 .. 3
  BY <1>3, Ranks DEF Held
<1>5. Arbitrate(c[Size - 1], d)[l] = Entry(d, l)
  BY <1>3, <1>4 DEF Arbitrate
<1> QED BY <1>2, <1>3, <1>5 DEF q

Summing(f, effects) ==
    f = [k \in 0 .. Len(effects) |-> IF k = 0 THEN 0 ELSE f[k - 1] + effects[k].value]

LEMMA SumTyped == ASSUME NEW effects \in Seq(Effect) PROVE Sum(effects) \in Int
<1> DEFINE Size == Len(effects)
           Step == [k \in 1 .. Size |-> [x \in Int |-> x + effects[k].value]]
           c == CHOOSE f : Summing(f, effects)
<1>1. Size \in Nat /\ Step \in [1 .. Size -> [Int -> Int]]
  <2>1. \A k \in 1 .. Size : effects[k].value \in Int
    <3>1. \A k \in 1 .. Size : effects[k] \in Effect
      OBVIOUS
    <3>2. \A e \in Effect : e.value \in Int
      BY DEF Effect
    <3> QED BY <3>1, <3>2
  <2>2. \A k \in 1 .. Size, x \in Int : x + effects[k].value \in Int
    BY <2>1
  <2>3. Size \in Nat
    OBVIOUS
  <2> QED BY <2>2, <2>3, Zenon
<1>2. \A k \in 1 .. Size, x \in Int : Step[k][x] = x + effects[k].value
  OBVIOUS
<1> HIDE DEF Step
<1>3. PICK f \in [0 .. Size -> Int] : Iterates(f, Size, 0, Step)
  <2> HIDE DEF Size
  <2> QED BY <1>1, IterationExists, 0 \in Int
<1>4. Summing(f, effects)
  <2> DEFINE g == [k \in 0 .. Size |-> IF k = 0 THEN 0 ELSE f[k - 1] + effects[k].value]
  <2>1. \A k \in 0 .. Size : f[k] = IF k = 0 THEN 0 ELSE f[k - 1] + effects[k].value
    <3> SUFFICES ASSUME NEW k \in 1 .. Size PROVE f[k] = f[k - 1] + effects[k].value
      BY <1>3 DEF Iterates
    <3>1. f[k] = Step[k][f[k - 1]] /\ f[k - 1] \in Int
      BY <1>3 DEF Iterates
    <3> QED BY <1>2, <3>1
  <2>2. \A k \in 0 .. Size : g[k] = IF k = 0 THEN 0 ELSE f[k - 1] + effects[k].value
    OBVIOUS
  <2>3. g = [k \in 0 .. Size |-> g[k]] /\ f = [k \in 0 .. Size |-> f[k]]
    OBVIOUS
  <2> HIDE DEF g
  <2>4. f = g
    BY <2>1, <2>2, <2>3
  <2> QED BY <2>4 DEF g, Summing
<1>5. Summing(c, effects) /\ Sum(effects) = c[Size]
  BY <1>4, Zenon DEF Sum, Summing
<1> HIDE DEF c
<1>6. c[0] = 0 /\ \A k \in 1 .. Size : c[k] = c[k - 1] + effects[k].value
  BY <1>5 DEF Summing
<1>7. \A k \in 0 .. Size : c[k] \in Int
  <2>1. c[0] = 0 /\ \A k \in 1 .. Size : c[k - 1] \in Int => c[k] = Step[k][c[k - 1]]
    BY <1>2, <1>6
  <2> HIDE DEF Size
  <2> QED BY <1>1, <2>1, IterationTyped, 0 \in Int, Zenon
<1> QED BY <1>1, <1>5, <1>7

-----------------------------------------------------------------------------
(* The inductive invariant. *)

LeversTyped(lv) == DOMAIN lv = Authorities /\ \A au \in Authorities : lv[au] \in [Levers[au] -> Held]
QueuesTyped(q) == DOMAIN q = Authorities /\ \A au \in Authorities : q[au] \in Seq(Queued)
EchoTyped(ech) == DOMAIN ech = Authorities /\ \A au \in Authorities : DOMAIN ech[au] = Levers[au]

\* Who asks for an authority nobody else asks for finds it as he left it.
SeatInv ==
    /\ \A a \in Agents : call[a] # Idle => seat[a] = None
    /\ \A au \in Authorities \ overlapped :
        /\ \A a, b \in Agents : call[a].at = au /\ call[b].at = au => a = b
        /\ \A a, b \in Agents : seat[a] = au /\ seat[b] = au => a = b
        /\ \A a, b \in Agents : call[a].at = au => seat[b] # au
        /\ \A a \in Agents : call[a].at = au /\ call[a].step = "controls" => control[au] = "agent"
        /\ (\A a \in Agents : call[a].at # au)
             => (control[au] = "agent" <=> \E a \in Agents : seat[a] = au)

Timely(lv, m) == \A au \in Authorities : \A l \in Levers[au] : lv[au][l].due =< m

\* What a policymaker was told is what it holds itself.
Word(lv, ech) ==
    \A au \in Authorities : \A l \in Levers[au] :
        ech[au][l] # None => lv[au][l].source = "agent" /\ lv[au][l].value = ech[au][l]

Rate(lv, effects) ==
    LET x == lv[Owner][Overlaid]
    IN /\ x.source = "event" => x.value = Sum(effects) /\ Sum(effects) # 0
       /\ x.source = "autopilot" => Sum(effects) = 0

Ends == \A e \in Elements(live) : tick - e.start =< e.days

\* A decision is in one queue or in effect, and is in neither once it was paid for.
Once(lv, q, pd, n) ==
    /\ \A au \in Authorities : \A d \in Elements(q[au]) : d.id =< n
    /\ \A au \in Authorities : \A l \in Levers[au] : lv[au][l].id =< n
    /\ \A au, bu \in Authorities : \A d \in Elements(q[au]) : \A e \in Elements(q[bu]) :
          d.id = e.id => au = bu /\ d = e
    /\ \A au, bu \in Authorities : \A l \in Levers[au] \cap OneOffs : \A d \in Elements(q[bu]) :
          lv[au][l].id # d.id
    /\ \A i \in Ids : pd[i] # 0 =>
          /\ i =< n
          /\ \A au \in Authorities : \A d \in Elements(q[au]) : d.id # i
          /\ \A au \in Authorities : \A l \in Levers[au] \cap OneOffs : lv[au][l].id # i

DeskInv ==
    /\ tick \in 0 .. MaxTick /\ month = Now /\ made \in 0 .. MaxMade
    /\ LeversTyped(lever) /\ QueuesTyped(pending) /\ EchoTyped(echo)
    /\ live \in Seq(Effect) /\ paid \in [Ids -> {0, 1}]
    /\ Timely(lever, Now) /\ Word(lever, echo) /\ Rate(lever, live) /\ Ends
    /\ Once(lever, pending, paid, made)

Inv == SeatsTyped /\ SeatInv /\ DeskInv

\* It says all that the authorities promise.
LEMMA InvSays == Inv => LeversInOrder
<1> SUFFICES ASSUME Inv PROVE LeversInOrder
  OBVIOUS
<1>1. TypeOK
  <2>1. \A au \in Authorities : \A l \in Levers[au] : lever[au][l].source \in Sources
    <3>1. \A x \in Held : x.source \in Sources
      BY DEF Held
    <3> QED BY <3>1 DEF Inv, DeskInv, LeversTyped
  <2>2. \A au \in Authorities : \A d \in Elements(pending[au]) : d.source \in Sources /\ d.id \in Ids
    <3>1. \A d \in Queued : d.source \in Sources /\ d.id \in Ids
      BY DEF Queued, Decided
    <3> QED BY <3>1, ElementsTyped DEF Inv, DeskInv, QueuesTyped
  <2>3. \A e \in Elements(live) : e.days > 0
    <3>1. \A e \in Effect : e.days > 0
      BY DEF Effect
    <3> QED BY <3>1, ElementsTyped DEF Inv, DeskInv
  <2> QED BY <2>1, <2>2, <2>3 DEF Inv, DeskInv, TypeOK
<1>2. SeatHasControl
  BY DEF Inv, SeatInv, SeatHasControl
<1>3. PolicymakersWordStands /\ NotBeforeItsMonth
  BY DEF Inv, DeskInv, Word, Timely, PolicymakersWordStands, NotBeforeItsMonth
<1>4. EventRatesExpire
  BY Zenon DEF Inv, DeskInv, Rate, Ends, EventRatesExpire
<1>5. OneOffsFireOnce
  BY DEF Inv, DeskInv, OneOffsFireOnce
<1> QED BY <1>1, <1>2, <1>3, <1>4, <1>5 DEF LeversInOrder

LEMMA InvInit == Init => Inv
<1> SUFFICES ASSUME Init PROVE Inv
  OBVIOUS
<1>1. SeatsTyped
  BY DEF Init, SeatsTyped
<1>2. \A a \in Agents : call[a].at = None /\ seat[a] = None
  BY DEF Init, Idle
<1>3. SeatInv
  BY <1>2, PolicyAssumption DEF Init, SeatInv
<1>4. \A au \in Authorities : Elements(pending[au]) = {} /\ Elements(live) = {}
  BY DEF Init, Elements
<1>5. Now = 0 /\ tick \in 0 .. MaxTick /\ month = Now /\ made \in 0 .. MaxMade
  <2>1. \A D \in Nat \ {0} : 0 \div D = 0
    OBVIOUS
  <2> QED BY <2>1, PolicyAssumption DEF Init, Now
<1>6. \A au \in Authorities : \A l \in Levers[au] : lever[au][l] = Unset /\ echo[au][l] = None
  BY DEF Init
<1>7. LeversTyped(lever) /\ QueuesTyped(pending) /\ EchoTyped(echo)
  BY UnsetFacts DEF Init, LeversTyped, QueuesTyped, EchoTyped
<1>8. live \in Seq(Effect) /\ paid \in [Ids -> {0, 1}]
  BY DEF Init
<1>9. Timely(lever, Now) /\ Word(lever, echo) /\ Ends
  BY <1>4, <1>5, <1>6, UnsetFacts, PolicyAssumption DEF Timely, Word, Ends
<1>10. Rate(lever, live)
  <2>1. Owner \in Authorities /\ Overlaid \in Levers[Owner]
    BY PolicyAssumption
  <2>2. Sum(live) = 0
    <3> DEFINE c == CHOOSE f : Summing(f, << >>)
    <3>1. \E f : Summing(f, << >>)
      <4> DEFINE g == [k \in 0 .. 0 |-> 0]
      <4>1. g = [k \in 0 .. 0 |-> IF k = 0 THEN 0 ELSE g[k - 1] + << >>[k].value]
        OBVIOUS
      <4> QED BY <4>1 DEF Summing
    <3>2. Summing(c, << >>) /\ Sum(<< >>) = c[Len(<< >>)]
      BY <3>1, Zenon DEF Sum, Summing
    <3> HIDE DEF c
    <3>3. c[0] = 0
      BY <3>2 DEF Summing
    <3> QED BY <3>2, <3>3 DEF Init
  <2>3. lever[Owner][Overlaid].source = "autopilot"
    BY <1>6, <2>1, UnsetFacts
  <2> QED BY <2>2, <2>3 DEF Rate
<1>11. Once(lever, pending, paid, made)
  BY <1>4, <1>6, UnsetFacts DEF Init, Once
<1> QED BY <1>1, <1>3, <1>5, <1>7, <1>8, <1>9, <1>10, <1>11 DEF Inv, DeskInv

-----------------------------------------------------------------------------
(* The seats. *)

\* What the seats leave alone.
LEMMA DeskAside ==
    ASSUME DeskInv, UNCHANGED <<tick, month, desk>>
    PROVE  DeskInv' /\ RankStep
<1>1. UNCHANGED <<tick, month, lever, pending, live, made, paid, echo>>
  BY DEF desk
<1>2. Now' = Now
  BY <1>1 DEF Now
<1>3. DeskInv'
  BY <1>1, <1>2 DEF DeskInv, Ends
<1>4. \A au \in Authorities : \A l \in Levers[au] : Rank[lever[au][l].source] \in 0 .. 3
  BY Ranks DEF DeskInv, LeversTyped, Held
<1>5. RankStep
  <2> SUFFICES ASSUME NEW au \in Authorities, NEW l \in Levers[au]
               PROVE  ~(Rank[lever'[au][l].source] < Rank[lever[au][l].source])
    BY DEF RankStep
  <2> QED BY <1>1, <1>4
<1> QED BY <1>3, <1>5

LEMMA CallFacts ==
    ASSUME SeatsTyped, NEW a \in Agents
    PROVE  /\ call[a].at \in Authorities \cup {None}
           /\ call[a].at = None <=> call[a] = Idle
           /\ call[a].step = "idle" <=> call[a] = Idle
           /\ call[a] # Idle => call[a] \in [step : {"free", "controls", "left"}, at : Authorities]
           /\ DOMAIN call = Agents /\ DOMAIN seat = Agents /\ DOMAIN control = Authorities
           /\ seat[a] \in Authorities \cup {None}
           /\ Idle.at = None /\ Idle.step = "idle" /\ None \notin Authorities
<1>1. Idle.at = None /\ Idle.step = "idle" /\ None \notin Authorities
  BY PolicyAssumption DEF Idle
<1>2. /\ call[a] \in [step : {"free", "controls", "left"}, at : Authorities] \cup {Idle}
      /\ DOMAIN call = Agents /\ DOMAIN seat = Agents /\ DOMAIN control = Authorities
      /\ seat[a] \in Authorities \cup {None}
  BY DEF SeatsTyped
<1>3. ASSUME call[a] \in [step : {"free", "controls", "left"}, at : Authorities]
      PROVE  call[a].at \in Authorities /\ call[a].step # "idle"
  BY <1>3
<1> QED BY <1>1, <1>2, <1>3

LEMMA RegisterStep ==
    ASSUME Inv, NEW a \in Agents, NEW au \in Authorities, Register(a, au)
    PROVE  Inv' /\ RankStep
<1>1. /\ seat[a] = None /\ \A b \in Agents : seat[b] # au
      /\ call[a] = Idle /\ call' = [call EXCEPT ![a] = [step |-> "free", at |-> au]]
      /\ overlapped' = IF \E b \in Agents : call[b].at = au THEN overlapped \cup {au} ELSE overlapped
      /\ UNCHANGED <<tick, month, control, seat, desk>>
  BY DEF Register, Start
<1>2. SeatsTyped
  BY DEF Inv
<1>3. \A b \in Agents : call'[b] = IF b = a THEN [step |-> "free", at |-> au] ELSE call[b]
  BY <1>1, <1>2 DEF SeatsTyped
<1>4. SeatsTyped'
  BY <1>1, <1>2 DEF SeatsTyped
<1>5. [step |-> "free", at |-> au].at = au /\ [step |-> "free", at |-> au].step = "free"
  OBVIOUS
<1>6. \A b \in Agents : /\ call'[b].at = IF b = a THEN au ELSE call[b].at
                        /\ call'[b].step = IF b = a THEN "free" ELSE call[b].step
  BY <1>3, <1>5
<1>7. call[a].at = None /\ None \notin Authorities
  BY <1>1, <1>2, CallFacts
<1>8. SeatInv'
  BY <1>1, <1>3, <1>6, <1>7 DEF Inv, SeatInv
<1> QED BY <1>1, <1>4, <1>8, DeskAside DEF Inv

LEMMA TakeControlStep ==
    ASSUME Inv, NEW a \in Agents, TakeControl(a)
    PROVE  Inv' /\ RankStep
<1> DEFINE au == call[a].at
<1>1. /\ call[a].step = "free"
      /\ control' = [control EXCEPT ![au] = "agent"]
      /\ call' = [call EXCEPT ![a].step = "controls"]
      /\ UNCHANGED <<tick, month, seat, overlapped, desk>>
  BY DEF TakeControl
<1>2. SeatsTyped
  BY DEF Inv
<1>3. /\ call[a] \in [step : {"free", "controls", "left"}, at : Authorities] /\ call[a] # Idle
      /\ au \in Authorities /\ DOMAIN call = Agents /\ DOMAIN control = Authorities
  BY <1>1, <1>2, CallFacts
<1>4. \A b \in Agents : /\ call'[b].at = call[b].at
                        /\ call'[b].step = IF b = a THEN "controls" ELSE call[b].step
                        /\ call'[b] # Idle => call[b] # Idle
  BY <1>1, <1>3
<1>5. \A x \in Authorities : control'[x] = IF x = au THEN "agent" ELSE control[x]
  BY <1>1, <1>3
<1>6. SeatsTyped'
  <2>1. \A b \in Agents : call'[b] \in [step : {"free", "controls", "left"}, at : Authorities] \cup {Idle}
    <3> SUFFICES ASSUME NEW b \in Agents
                 PROVE  call'[b] \in [step : {"free", "controls", "left"}, at : Authorities] \cup {Idle}
      OBVIOUS
    <3>1. CASE b = a
      <4>1. call'[a] = [call[a] EXCEPT !.step = "controls"]
        BY <1>1, <1>3
      <4> QED BY <1>3, <3>1, <4>1
    <3>2. CASE b # a
      BY <1>1, <1>2, <1>3, <3>2 DEF SeatsTyped
    <3> QED BY <3>1, <3>2
  <2>2. call' \in [Agents -> [step : {"free", "controls", "left"}, at : Authorities] \cup {Idle}]
    BY <1>1, <1>3, <2>1
  <2>3. control' \in [Authorities -> {"autopilot", "agent"}]
    BY <1>1, <1>2 DEF SeatsTyped
  <2> QED BY <1>1, <1>2, <2>2, <2>3 DEF SeatsTyped
<1>7. SeatInv'
  <2>1. \A b \in Agents : call'[b] # Idle => seat'[b] = None
    BY <1>1, <1>4 DEF Inv, SeatInv
  <2>2. ASSUME NEW x \in Authorities \ overlapped
        PROVE  /\ \A b, c \in Agents : call[b].at = x /\ call[c].at = x => b = c
               /\ \A b, c \in Agents : seat[b] = x /\ seat[c] = x => b = c
               /\ \A b, c \in Agents : call[b].at = x => seat[c] # x
               /\ \A b \in Agents : call[b].at = x /\ call'[b].step = "controls" => control'[x] = "agent"
               /\ (\A b \in Agents : call[b].at # x)
                    => (control'[x] = "agent" <=> \E b \in Agents : seat[b] = x)
    <3>1. CASE x = au
      <4>1. control'[x] = "agent" /\ call[a].at = x
        BY <1>5, <3>1
      <4> HIDE DEF au
      <4> QED BY <4>1 DEF Inv, SeatInv
    <3>2. CASE x # au
      <4>1. call[a].at # x /\ control'[x] = control[x]
        BY <1>5, <3>2
      <4> HIDE DEF au
      <4> QED BY <1>4, <4>1 DEF Inv, SeatInv
    <3> QED BY <3>1, <3>2
  <2> HIDE DEF au
  <2> QED BY <1>1, <1>4, <2>1, <2>2 DEF SeatInv
<1> QED BY <1>1, <1>6, <1>7, DeskAside DEF Inv

LEMMA RecordStep ==
    ASSUME Inv, NEW a \in Agents, Record(a)
    PROVE  Inv' /\ RankStep
<1> DEFINE au == call[a].at
<1>1. /\ call[a].step = "controls"
      /\ seat' = [seat EXCEPT ![a] = au]
      /\ call' = [call EXCEPT ![a] = Idle]
      /\ UNCHANGED <<tick, month, control, overlapped, desk>>
  BY DEF Record
<1>2. SeatsTyped
  BY DEF Inv
<1>3. /\ call[a] # Idle /\ au \in Authorities /\ DOMAIN call = Agents /\ DOMAIN seat = Agents
      /\ Idle.at = None /\ Idle.step = "idle" /\ None \notin Authorities
  BY <1>1, <1>2, CallFacts
<1>4. \A b \in Agents : /\ call'[b] = IF b = a THEN Idle ELSE call[b]
                        /\ seat'[b] = IF b = a THEN au ELSE seat[b]
  BY <1>1, <1>3
<1>5. SeatsTyped'
  BY <1>1, <1>2, <1>3 DEF SeatsTyped
<1>6. seat[a] = None
  BY <1>3 DEF Inv, SeatInv
<1>7. SeatInv'
  <2>1. \A b \in Agents : call'[b] # Idle => seat'[b] = None
    BY <1>4 DEF Inv, SeatInv
  <2>2. ASSUME NEW x \in Authorities \ overlapped
        PROVE  /\ \A b, c \in Agents : call'[b].at = x /\ call'[c].at = x => b = c
               /\ \A b, c \in Agents : seat'[b] = x /\ seat'[c] = x => b = c
               /\ \A b, c \in Agents : call'[b].at = x => seat'[c] # x
               /\ \A b \in Agents : call'[b].at = x /\ call'[b].step = "controls" => control'[x] = "agent"
               /\ (\A b \in Agents : call'[b].at # x)
                    => (control'[x] = "agent" <=> \E b \in Agents : seat'[b] = x)
    <3>1. CASE x = au
      <4>1. /\ \A b \in Agents : seat[b] # x
            /\ \A b \in Agents : b # a => call[b].at # x
            /\ control[x] = "agent"
        BY <1>1, <3>1 DEF Inv, SeatInv
      <4> HIDE DEF au
      <4> QED BY <1>1, <1>3, <1>4, <3>1, <4>1
    <3>2. CASE x # au
      <4>1. call[a].at # x
        BY <3>2
      <4> HIDE DEF au
      <4> QED BY <1>1, <1>3, <1>4, <1>6, <3>2, <4>1 DEF Inv, SeatInv
    <3> QED BY <3>1, <3>2
  <2> HIDE DEF au
  <2> QED BY <1>1, <2>1, <2>2 DEF SeatInv
<1> QED BY <1>1, <1>5, <1>7, DeskAside DEF Inv

LEMMA UnregisterStep ==
    ASSUME Inv, NEW a \in Agents, Unregister(a)
    PROVE  Inv' /\ RankStep
<1> DEFINE au == seat[a]
<1>1. /\ seat[a] # None
      /\ call[a] = Idle /\ call' = [call EXCEPT ![a] = [step |-> "left", at |-> au]]
      /\ overlapped' = IF \E b \in Agents : call[b].at = au THEN overlapped \cup {au} ELSE overlapped
      /\ seat' = [seat EXCEPT ![a] = None]
      /\ UNCHANGED <<tick, month, control, desk>>
  BY DEF Unregister, Start
<1>2. SeatsTyped
  BY DEF Inv
<1>3. /\ au \in Authorities /\ DOMAIN call = Agents /\ DOMAIN seat = Agents
      /\ None \notin Authorities /\ call[a].at = None
  BY <1>1, <1>2, CallFacts
<1>4. [step |-> "left", at |-> au].at = au /\ [step |-> "left", at |-> au].step = "left"
  OBVIOUS
<1>5. \A b \in Agents : /\ call'[b].at = IF b = a THEN au ELSE call[b].at
                        /\ call'[b].step = IF b = a THEN "left" ELSE call[b].step
                        /\ call'[b] = IF b = a THEN [step |-> "left", at |-> au] ELSE call[b]
                        /\ seat'[b] = IF b = a THEN None ELSE seat[b]
  BY <1>1, <1>3, <1>4
<1>6. SeatsTyped'
  BY <1>1, <1>2, <1>3 DEF SeatsTyped
<1>7. SeatInv'
  <2>1. \A b \in Agents : call'[b] # Idle => seat'[b] = None
    BY <1>5 DEF Inv, SeatInv
  <2>2. ASSUME NEW x \in Authorities \ overlapped'
        PROVE  /\ \A b, c \in Agents : call'[b].at = x /\ call'[c].at = x => b = c
               /\ \A b, c \in Agents : seat'[b] = x /\ seat'[c] = x => b = c
               /\ \A b, c \in Agents : call'[b].at = x => seat'[c] # x
               /\ \A b \in Agents : call'[b].at = x /\ call'[b].step = "controls" => control'[x] = "agent"
               /\ (\A b \in Agents : call'[b].at # x)
                    => (control'[x] = "agent" <=> \E b \in Agents : seat'[b] = x)
    <3>1. x \in Authorities \ overlapped
      BY <1>1
    <3>2. CASE x = au
      <4>1. \A b \in Agents : call[b].at # x
        BY <1>1, <3>2
      <4>2. \A b \in Agents : b # a => seat[b] # x
        BY <3>1, <3>2 DEF Inv, SeatInv
      <4> HIDE DEF au
      <4> QED BY <1>1, <1>3, <1>5, <3>2, <4>1, <4>2
    <3>3. CASE x # au
      <4>1. seat[a] # x
        BY <3>3
      <4> HIDE DEF au
      <4> QED BY <1>1, <1>3, <1>5, <3>1, <3>3, <4>1 DEF Inv, SeatInv
    <3> QED BY <3>2, <3>3
  <2> QED BY <2>1, <2>2 DEF SeatInv
<1> QED BY <1>1, <1>6, <1>7, DeskAside DEF Inv

LEMMA RestoreStep ==
    ASSUME Inv, NEW a \in Agents, Restore(a)
    PROVE  Inv' /\ RankStep
<1> DEFINE au == call[a].at
<1>1. /\ call[a].step = "left"
      /\ control' = IF \E b \in Agents : seat[b] = au THEN control
                    ELSE [control EXCEPT ![au] = "autopilot"]
      /\ call' = [call EXCEPT ![a] = Idle]
      /\ UNCHANGED <<tick, month, seat, overlapped, desk>>
  BY DEF Restore
<1>2. SeatsTyped
  BY DEF Inv
<1>3. /\ call[a] # Idle /\ au \in Authorities /\ DOMAIN call = Agents /\ DOMAIN control = Authorities
      /\ Idle.at = None /\ Idle.step = "idle" /\ None \notin Authorities
  BY <1>1, <1>2, CallFacts
<1>4. /\ \A b \in Agents : call'[b] = IF b = a THEN Idle ELSE call[b]
      /\ \A x \in Authorities : x # au => control'[x] = control[x]
      /\ (\A b \in Agents : seat[b] # au) => control'[au] = "autopilot"
  BY <1>1, <1>3
<1>5. SeatsTyped'
  BY <1>1, <1>2, <1>3 DEF SeatsTyped
<1>6. SeatInv'
  <2>1. \A b \in Agents : call'[b] # Idle => seat'[b] = None
    BY <1>1, <1>4 DEF Inv, SeatInv
  <2>2. ASSUME NEW x \in Authorities \ overlapped
        PROVE  /\ \A b, c \in Agents : call'[b].at = x /\ call'[c].at = x => b = c
               /\ \A b, c \in Agents : seat[b] = x /\ seat[c] = x => b = c
               /\ \A b, c \in Agents : call'[b].at = x => seat[c] # x
               /\ \A b \in Agents : call'[b].at = x /\ call'[b].step = "controls" => control'[x] = "agent"
               /\ (\A b \in Agents : call'[b].at # x)
                    => (control'[x] = "agent" <=> \E b \in Agents : seat[b] = x)
    <3>1. CASE x = au
      <4>1. /\ \A b \in Agents : seat[b] # x
            /\ \A b \in Agents : b # a => call[b].at # x
        BY <3>1 DEF Inv, SeatInv
      <4> HIDE DEF au
      <4> QED BY <1>3, <1>4, <3>1, <4>1
    <3>2. CASE x # au
      <4>1. call[a].at # x
        BY <3>2
      <4> HIDE DEF au
      <4> QED BY <1>3, <1>4, <3>2, <4>1 DEF Inv, SeatInv
    <3> QED BY <3>1, <3>2
  <2> HIDE DEF au
  <2> QED BY <1>1, <2>1, <2>2 DEF SeatInv
<1> QED BY <1>1, <1>5, <1>6, DeskAside DEF Inv

-----------------------------------------------------------------------------
(* The levers, when queues are activated. *)

\* The lever l is x after y: of the same rank or above, due as well, from the queue if
\* it is not y, and y if that is a policymaker's and no policymaker names it.
Succeeds(x, y, q, m, l) ==
    /\ Rank[x.source] >= Rank[y.source]
    /\ y.due =< m => x.due =< m
    /\ \/ x = y
       \/ \E d \in Elements(q) : /\ d.due =< m /\ l \in DOMAIN d.fields
                                 /\ x.id = d.id /\ x.source = d.source
    /\ (\A d \in Elements(q) : l \in DOMAIN d.fields => d.source # "agent") /\ y.source = "agent"
         => x = y

LEMMA FromFacts ==
    ASSUME NEW q \in Seq(Decided), NEW m \in Int, NEW x \in Held, NEW y \in Held, NEW l,
           From(x, y, q, m, l)
    PROVE  Succeeds(x, y, q, m, l)
<1>1. Rank[x.source] \in 0 .. 3 /\ Rank[y.source] \in 0 .. 3
  BY Ranks DEF Held
<1>2. CASE x = y
  BY <1>1, <1>2 DEF Succeeds
<1>3. CASE x # y
  <2>1. PICK d \in Elements(q) : /\ d.due =< m /\ l \in DOMAIN d.fields /\ x = Entry(d, l)
                                 /\ Rank[d.source] >= Rank[y.source]
    BY <1>3 DEF From
  <2>2. d \in Decided
    BY ElementsTyped
  <2>3. x.source = d.source /\ x.due = d.due /\ x.id = d.id
    BY <2>1, <2>2, EntryFacts
  <2>4. y.source = "agent" => d.source = "agent"
    <3>1. d.source \in {"autopilot", "event", "scripted", "agent"}
      BY <2>2 DEF Decided, Sources
    <3> QED BY <2>1, <3>1, Ranks
  <2> QED BY <2>1, <2>3, <2>4 DEF Succeeds
<1> QED BY <1>2, <1>3

\* Of the authorities in A what is due has been activated, of the others nothing.
Activates(lv2, q2, lv, q, A, m) ==
    /\ DOMAIN lv2 = Authorities /\ DOMAIN q2 = Authorities
    /\ \A au \in Authorities :
          IF au \in A THEN lv2[au] = Activated(lv[au], q[au], m) /\ q2[au] = Kept(q[au], m)
          ELSE lv2[au] = lv[au] /\ q2[au] = q[au]

LEMMA KeptFacts ==
    ASSUME NEW T, NEW q \in Seq(T), NEW m
    PROVE  /\ Kept(q, m) \in Seq(T) /\ Elements(Kept(q, m)) \subseteq Elements(q)
           /\ \A d \in Elements(Kept(q, m)) : ~(d.due =< m)
BY KeepFacts DEF Kept

\* What that comes to, lever by lever.
Activation(lv2, q2, lv, q, A, m) ==
    /\ LeversTyped(lv2)
    /\ \A au \in Authorities : /\ q2[au] \in Seq(Decided)
                               /\ Elements(q2[au]) \subseteq Elements(q[au])
                               /\ au \in A => \A d \in Elements(q2[au]) : ~(d.due =< m)
    /\ \A au \in Authorities : \A l \in Levers[au] :
          /\ From(lv2[au][l], lv[au][l], q[au], m, l)
          /\ au \notin A => lv2[au][l] = lv[au][l]

LEMMA ActivatesFacts ==
    ASSUME NEW lv, LeversTyped(lv), NEW q, \A au \in Authorities : q[au] \in Seq(Decided),
           NEW A \in SUBSET Authorities, NEW m \in Int, NEW lv2, NEW q2,
           Activates(lv2, q2, lv, q, A, m)
    PROVE  Activation(lv2, q2, lv, q, A, m)
<1>1. ASSUME NEW au \in Authorities
      PROVE  /\ lv2[au] \in [Levers[au] -> Held]
             /\ \A l \in Levers[au] : /\ From(lv2[au][l], lv[au][l], q[au], m, l)
                                      /\ au \notin A => lv2[au][l] = lv[au][l]
             /\ q2[au] \in Seq(Decided) /\ Elements(q2[au]) \subseteq Elements(q[au])
             /\ au \in A => \A d \in Elements(q2[au]) : ~(d.due =< m)
  <2>1. lv[au] \in [Levers[au] -> Held] /\ q[au] \in Seq(Decided)
    BY DEF LeversTyped
  <2>2. CASE au \in A
    <3>1. lv2[au] = Activated(lv[au], q[au], m) /\ q2[au] = Kept(q[au], m)
      BY <2>2 DEF Activates
    <3>2. /\ Activated(lv[au], q[au], m) \in [Levers[au] -> Held]
          /\ \A l \in Levers[au] : From(Activated(lv[au], q[au], m)[l], lv[au][l], q[au], m, l)
      BY <2>1, ActivatedFacts
    <3>3. /\ Kept(q[au], m) \in Seq(Decided) /\ Elements(Kept(q[au], m)) \subseteq Elements(q[au])
          /\ \A d \in Elements(Kept(q[au], m)) : ~(d.due =< m)
      BY <2>1, KeptFacts
    <3> QED BY <2>2, <3>1, <3>2, <3>3
  <2>3. CASE au \notin A
    <3>1. lv2[au] = lv[au] /\ q2[au] = q[au]
      BY <2>3 DEF Activates
    <3> QED BY <2>1, <2>3, <3>1 DEF From
  <2> QED BY <2>2, <2>3
<1>2. LeversTyped(lv2)
  BY <1>1 DEF LeversTyped, Activates
<1> QED BY <1>1, <1>2 DEF Activation

\* Activation brings nothing forward and nothing back.
LEMMA OnceActivated ==
    ASSUME NEW lv, LeversTyped(lv), NEW q, \A au \in Authorities : q[au] \in Seq(Decided),
           NEW A \in SUBSET Authorities, NEW m \in Int, NEW lv2, NEW q2,
           Activates(lv2, q2, lv, q, A, m),
           NEW pd, NEW n \in Nat, Once(lv, q, pd, n)
    PROVE  Once(lv2, q2, pd, n)
<1>1. Activation(lv2, q2, lv, q, A, m)
  BY ActivatesFacts
<1>2. ASSUME NEW au \in Authorities, NEW l \in Levers[au]
      PROVE  \/ lv2[au][l] = lv[au][l]
             \/ au \in A /\ \E d \in Elements(q[au]) : d.due =< m /\ lv2[au][l].id = d.id
  <2>1. lv2[au][l] \in Held /\ lv[au][l] \in Held /\ q[au] \in Seq(Decided)
    BY <1>1 DEF Activation, LeversTyped
  <2>2. From(lv2[au][l], lv[au][l], q[au], m, l) /\ (au \notin A => lv2[au][l] = lv[au][l])
    BY <1>1 DEF Activation
  <2>3. Succeeds(lv2[au][l], lv[au][l], q[au], m, l)
    BY <2>1, <2>2, FromFacts
  <2> QED BY <2>2, <2>3 DEF Succeeds
<1>3. \A au \in Authorities : Elements(q2[au]) \subseteq Elements(q[au])
  BY <1>1 DEF Activation
<1>4. \A au \in A : \A d \in Elements(q2[au]) : ~(d.due =< m)
  BY <1>1 DEF Activation
<1>5. \A au \in Authorities : \A d \in Elements(q2[au]) : d.id =< n
  BY <1>3 DEF Once
<1>6. \A au \in Authorities : \A l \in Levers[au] : lv2[au][l].id =< n
  BY <1>2 DEF Once
<1>7. \A au, bu \in Authorities : \A d \in Elements(q2[au]) : \A e \in Elements(q2[bu]) :
          d.id = e.id => au = bu /\ d = e
  BY <1>3 DEF Once
<1>8. ASSUME NEW au \in Authorities, NEW bu \in Authorities, NEW l \in Levers[au] \cap OneOffs,
             NEW e \in Elements(q2[bu])
      PROVE  lv2[au][l].id # e.id
  <2>1. e \in Elements(q[bu])
    BY <1>3
  <2>2. CASE lv2[au][l] = lv[au][l]
    BY <2>1, <2>2 DEF Once
  <2>3. CASE au \in A /\ \E d \in Elements(q[au]) : d.due =< m /\ lv2[au][l].id = d.id
    <3>1. PICK d \in Elements(q[au]) : d.due =< m /\ lv2[au][l].id = d.id
      BY <2>3
    <3>2. d.id = e.id => au = bu /\ d = e
      BY <2>1 DEF Once
    <3> QED BY <1>4, <2>3, <3>1, <3>2
  <2> QED BY <1>2, <2>2, <2>3
<1>9. ASSUME NEW i \in Ids, pd[i] # 0
      PROVE  /\ i =< n
             /\ \A au \in Authorities : \A d \in Elements(q2[au]) : d.id # i
             /\ \A au \in Authorities : \A l \in Levers[au] \cap OneOffs : lv2[au][l].id # i
  <2>1. /\ i =< n
        /\ \A au \in Authorities : \A d \in Elements(q[au]) : d.id # i
        /\ \A au \in Authorities : \A l \in Levers[au] \cap OneOffs : lv[au][l].id # i
    BY <1>9 DEF Once
  <2> QED BY <1>2, <1>3, <2>1
<1> QED BY <1>5, <1>6, <1>7, <1>8, <1>9 DEF Once

-----------------------------------------------------------------------------
(* Decisions. *)

LEMMA NowIsNat == ASSUME DeskInv PROVE Now \in Nat /\ tick \in Nat /\ made \in Nat
<1>1. tick \in Nat /\ made \in Nat /\ DaysPerMonth \in Nat \ {0}
  BY PolicyAssumption DEF DeskInv
<1> QED BY <1>1, Months DEF Now

LEMMA ScriptedQueue ==
    ASSUME NEW s \in Seq(Decided), \A d \in Elements(s) : d.source = "scripted"
    PROVE  s \in Seq(Queued)
<1>1. \A k \in 1 .. Len(s) : s[k] \in Queued
  <2>1. \A k \in 1 .. Len(s) : s[k] \in Decided /\ s[k] \in Elements(s)
    BY DEF Elements
  <2> QED BY <2>1 DEF Queued
<1> QED BY <1>1

LEMMA QueuedFacts ==
    ASSUME NEW q, QueuesTyped(q), NEW au \in Authorities
    PROVE  q[au] \in Seq(Decided) /\ \A d \in Elements(q[au]) : d \in Decided /\ d.source = "scripted"
<1>1. q[au] \in Seq(Queued)
  BY DEF QueuesTyped
<1>2. \A d \in Queued : d \in Decided /\ d.source = "scripted"
  BY DEF Queued
<1>3. q[au] \in Seq(Decided)
  <2> HIDE DEF Queued, Decided
  <2> QED BY <1>1, <1>2
<1> QED BY <1>1, <1>2, <1>3, ElementsTyped

\* Who may submit what: a policymaker and an event at once, an event not the rate.
Allowed(source, f, lag) ==
    \/ source = "agent" /\ lag = 0
    \/ source = "scripted"
    \/ source = "event" /\ lag = 0 /\ Overlaid \notin DOMAIN f

Item(source, f, lag) ==
    [id |-> made + 1, source |-> source, due |-> Now + lag,
     fields |-> [l \in DOMAIN f |-> Clip(l, f[l])]]
Lengthened(au, d) == [pending EXCEPT ![au] = Append(@, d)]

\* What submitting d, which makes of the queues q, comes to.
Submitted(au, source, f, lag, d, q) ==
    /\ d \in Decided /\ d.id = made + 1 /\ d.source = source /\ d.due = Now + lag
    /\ DOMAIN d.fields = DOMAIN f
    /\ q[au] = Append(pending[au], d)
    /\ \A b \in Authorities : /\ q[b] \in Seq(Decided)
                              /\ b # au => q[b] = pending[b]
                              /\ Elements(q[b]) = IF b = au THEN Elements(pending[b]) \cup {d}
                                                  ELSE Elements(pending[b])
    /\ Activates(lever', pending', lever, q, IF lag = 0 THEN {au} ELSE {}, Now)
    /\ made < MaxMade /\ made' = made + 1
    /\ EchoTyped(echo')
    /\ \A b \in Authorities : \A l \in Levers[b] :
         echo'[b][l] = IF source = "agent" /\ b = au /\ l \in DOMAIN d.fields
                       THEN d.fields[l] ELSE echo[b][l]
    /\ UNCHANGED <<tick, month, seats, live, paid>>

LEMMA SubmitSays ==
    ASSUME DeskInv, NEW au \in Authorities, NEW source \in Sources, NEW f \in Decisions, NEW lag \in Nat,
           Submit(au, source, f, lag), NEW d, d = Item(source, f, lag), NEW q, q = Lengthened(au, d)
    PROVE  Submitted(au, source, f, lag, d, q)
<1>1. Now \in Nat /\ made \in Nat /\ MaxMade \in Nat
  BY NowIsNat, PolicyAssumption
<1>2. /\ made < MaxMade /\ made' = made + 1
      /\ UNCHANGED <<tick, month, seats, live, paid>>
      /\ IF lag = 0
         THEN /\ lever' = [lever EXCEPT ![au] = Activated(@, Append(pending[au], d), Now)]
              /\ pending' = [pending EXCEPT ![au] = Kept(Append(pending[au], d), Now)]
         ELSE /\ pending' = [pending EXCEPT ![au] = Append(pending[au], d)]
              /\ UNCHANGED lever
      /\ echo' = IF source # "agent" THEN echo
                 ELSE [echo EXCEPT ![au] = [l \in DOMAIN @ |->
                         IF l \in DOMAIN d.fields THEN d.fields[l] ELSE @[l]]]
  BY Zenon DEF Submit, Item
<1>3. /\ d = [id |-> made + 1, source |-> source, due |-> Now + lag,
              fields |-> [l \in DOMAIN f |-> Clip(l, f[l])]]
      /\ [l \in DOMAIN f |-> Clip(l, f[l])] \in Choices
  BY DEF Item, Choices
<1>4. d.id = made + 1 /\ d.source = source /\ d.due = Now + lag /\ DOMAIN d.fields = DOMAIN f
  BY <1>3
<1>5. d \in Decided
  <2>1. made + 1 \in Ids /\ Now + lag \in Int
    BY <1>1, <1>2 DEF Ids
  <2> HIDE DEF Item
  <2> QED BY <1>3, <2>1 DEF Decided
<1> HIDE DEF Item
<1>6. /\ DOMAIN pending = Authorities /\ DOMAIN lever = Authorities /\ EchoTyped(echo)
      /\ QueuesTyped(pending)
  BY DEF DeskInv, QueuesTyped, LeversTyped
<1>7. \A b \in Authorities : q[b] = IF b = au THEN Append(pending[b], d) ELSE pending[b]
  BY <1>6 DEF Lengthened
<1>8. ASSUME NEW b \in Authorities
      PROVE  /\ q[b] \in Seq(Decided)
             /\ Elements(q[b]) = IF b = au THEN Elements(pending[b]) \cup {d} ELSE Elements(pending[b])
  <2>1. pending[b] \in Seq(Decided)
    BY <1>6, QueuedFacts
  <2>2. /\ Append(pending[b], d) \in Seq(Decided)
        /\ Elements(Append(pending[b], d)) = Elements(pending[b]) \cup {d}
    BY <1>5, <2>1, AppendFacts, ElementsAppend
  <2> QED BY <1>7, <2>1, <2>2
<1>9. Activates(lever', pending', lever, q, IF lag = 0 THEN {au} ELSE {}, Now)
  <2>1. CASE lag = 0
    <3>1. \A b \in Authorities :
            /\ lever'[b] = IF b = au THEN Activated(lever[b], q[b], Now) ELSE lever[b]
            /\ pending'[b] = IF b = au THEN Kept(q[b], Now) ELSE q[b]
      BY <1>2, <1>6, <1>7, <2>1
    <3>2. DOMAIN lever' = Authorities /\ DOMAIN pending' = Authorities
      BY <1>2, <1>6, <2>1
    <3> QED BY <2>1, <3>1, <3>2 DEF Activates
  <2>2. CASE lag # 0
    <3>1. \A b \in Authorities : lever'[b] = lever[b] /\ pending'[b] = q[b]
      BY <1>2, <1>6, <1>7, <2>2
    <3>2. DOMAIN lever' = Authorities /\ DOMAIN pending' = Authorities
      BY <1>2, <1>6, <2>2
    <3> QED BY <2>2, <3>1, <3>2 DEF Activates
  <2> QED BY <2>1, <2>2
<1>10. EchoTyped(echo')
       /\ \A b \in Authorities : \A l \in Levers[b] :
            echo'[b][l] = IF source = "agent" /\ b = au /\ l \in DOMAIN d.fields
                          THEN d.fields[l] ELSE echo[b][l]
  <2>1. CASE source # "agent"
    BY <1>2, <1>6, <2>1
  <2>2. CASE source = "agent"
    <3> DEFINE new == [l \in DOMAIN echo[au] |-> IF l \in DOMAIN d.fields THEN d.fields[l] ELSE echo[au][l]]
    <3>1. echo' = [echo EXCEPT ![au] = new]
      BY <1>2, <2>2
    <3>2. DOMAIN new = DOMAIN echo[au]
          /\ \A l \in DOMAIN echo[au] : new[l] = IF l \in DOMAIN d.fields THEN d.fields[l] ELSE echo[au][l]
      OBVIOUS
    <3> HIDE DEF new
    <3> QED BY <1>6, <2>2, <3>1, <3>2 DEF EchoTyped
  <2> QED BY <2>1, <2>2
<1> QED BY <1>2, <1>4, <1>5, <1>7, <1>8, <1>9, <1>10 DEF Submitted

\* The number of a new decision is new.
LEMMA OnceLengthened ==
    ASSUME NEW lv, NEW q, NEW q2, NEW pd, NEW n \in Nat, NEW au \in Authorities, NEW d,
           Once(lv, q, pd, n), d.id = n + 1,
           \A b \in Authorities : \A l \in Levers[b] : lv[b][l].id \in Nat,
           \A b \in Authorities : \A e \in Elements(q[b]) : e.id \in Nat,
           \A b \in Authorities :
              Elements(q2[b]) = IF b = au THEN Elements(q[b]) \cup {d} ELSE Elements(q[b])
    PROVE  Once(lv, q2, pd, n + 1)
<1>1. \A b \in Authorities : \A e \in Elements(q2[b]) : e \in Elements(q[b]) \/ (b = au /\ e = d)
  OBVIOUS
<1>2. \A b \in Authorities : \A e \in Elements(q[b]) : e.id =< n /\ e.id # d.id
  BY DEF Once
<1>3. \A b \in Authorities : \A l \in Levers[b] : lv[b][l].id =< n /\ lv[b][l].id # d.id
  BY DEF Once
<1>4. \A b \in Authorities : \A e \in Elements(q2[b]) : e.id =< n + 1
  BY <1>1, <1>2
<1>5. \A b \in Authorities : \A l \in Levers[b] : lv[b][l].id =< n + 1
  BY <1>3
<1>6. \A b, c \in Authorities : \A e \in Elements(q2[b]) : \A g \in Elements(q2[c]) :
          e.id = g.id => b = c /\ e = g
  BY <1>1, <1>2 DEF Once
<1>7. \A b, c \in Authorities : \A l \in Levers[b] \cap OneOffs : \A e \in Elements(q2[c]) :
          lv[b][l].id # e.id
  BY <1>1, <1>3 DEF Once
<1>8. ASSUME NEW i \in Ids, pd[i] # 0
      PROVE  /\ i =< n + 1
             /\ \A b \in Authorities : \A e \in Elements(q2[b]) : e.id # i
             /\ \A b \in Authorities : \A l \in Levers[b] \cap OneOffs : lv[b][l].id # i
  <2>1. /\ i =< n /\ i \in Int
        /\ \A b \in Authorities : \A e \in Elements(q[b]) : e.id # i
        /\ \A b \in Authorities : \A l \in Levers[b] \cap OneOffs : lv[b][l].id # i
    BY <1>8 DEF Once, Ids
  <2> QED BY <1>1, <2>1
<1> QED BY <1>4, <1>5, <1>6, <1>7, <1>8 DEF Once
\* A submitted decision leaves nobody's word, no rate and no one-off amiss.
LEMMA SubmitStep ==
    ASSUME DeskInv, NEW au \in Authorities, NEW source \in Sources, NEW f \in Decisions, NEW lag \in Nat,
           Submit(au, source, f, lag), Allowed(source, f, lag)
    PROVE  DeskInv' /\ RankStep /\ UNCHANGED seats
<1> DEFINE d == Item(source, f, lag)
           q == Lengthened(au, d)
           A == IF lag = 0 THEN {au} ELSE {}
<1>1. /\ d \in Decided /\ d.id = made + 1 /\ d.source = source /\ d.due = Now + lag
      /\ DOMAIN d.fields = DOMAIN f
      /\ q[au] = Append(pending[au], d)
      /\ \A b \in Authorities : /\ q[b] \in Seq(Decided)
                                /\ b # au => q[b] = pending[b]
                                /\ Elements(q[b]) = IF b = au THEN Elements(pending[b]) \cup {d}
                                                    ELSE Elements(pending[b])
      /\ Activates(lever', pending', lever, q, A, Now)
      /\ made < MaxMade /\ made' = made + 1
      /\ EchoTyped(echo')
      /\ \A b \in Authorities : \A l \in Levers[b] :
           echo'[b][l] = IF source = "agent" /\ b = au /\ l \in DOMAIN d.fields
                         THEN d.fields[l] ELSE echo[b][l]
      /\ UNCHANGED <<tick, month, seats, live, paid>>
  <2>1. d = Item(source, f, lag) /\ q = Lengthened(au, d)
    OBVIOUS
  <2> HIDE DEF d, q
  <2>2. Submitted(au, source, f, lag, d, q)
    BY <2>1, SubmitSays
  <2> HIDE DEF A
  <2> QED BY <2>2, Zenon DEF Submitted, A
<1> HIDE DEF d, q
<1>2. Now \in Nat /\ tick \in Nat /\ made \in Nat /\ MaxMade \in Nat
  BY NowIsNat, PolicyAssumption
<1>3. LeversTyped(lever) /\ QueuesTyped(pending) /\ A \in SUBSET Authorities
  BY DEF DeskInv
<1>4. Activation(lever', pending', lever, q, A, Now)
  <2>1. \A b \in Authorities : q[b] \in Seq(Decided)
    BY <1>1
  <2>2. Activates(lever', pending', lever, q, A, Now) /\ Now \in Int
    BY <1>1, <1>2
  <2> HIDE DEF A
  <2> QED BY <1>3, <2>1, <2>2, ActivatesFacts
<1>5. Now' = Now /\ UNCHANGED <<tick, month, seats, live, paid>>
  BY <1>1 DEF Now
\* The only decision a queue holds that is not of a script is the new one.
<1>6. \A b \in Authorities : \A e \in Elements(q[b]) :
         e \in Decided /\ (e.source = "scripted" \/ (b = au /\ e = d))
  <2> SUFFICES ASSUME NEW b \in Authorities, NEW e \in Elements(q[b])
               PROVE  e \in Decided /\ (e.source = "scripted" \/ (b = au /\ e = d))
    OBVIOUS
  <2>1. \A x \in Elements(pending[b]) : x \in Decided /\ x.source = "scripted"
    BY <1>3, QueuedFacts
  <2>2. e \in Elements(pending[b]) \/ (b = au /\ e = d)
    BY <1>1
  <2> QED BY <1>1, <2>1, <2>2
<1>7. ASSUME NEW b \in Authorities, NEW l \in Levers[b]
      PROVE  /\ lever'[b][l] \in Held /\ lever[b][l] \in Held
             /\ Rank[lever'[b][l].source] >= Rank[lever[b][l].source]
             /\ lever'[b][l].due =< Now
             /\ \/ lever'[b][l] = lever[b][l]
                \/ \E e \in Elements(q[b]) : /\ l \in DOMAIN e.fields
                                             /\ lever'[b][l].source = e.source
             /\ (\A e \in Elements(q[b]) : l \in DOMAIN e.fields => e.source # "agent")
                  /\ lever[b][l].source = "agent" => lever'[b][l] = lever[b][l]
  <2>1. lever'[b] \in [Levers[b] -> Held] /\ lever[b] \in [Levers[b] -> Held]
    <3>1. LeversTyped(lever') /\ LeversTyped(lever)
      BY <1>3, <1>4, Zenon DEF Activation
    <3> QED BY <3>1 DEF LeversTyped
  <2>2. lever'[b][l] \in Held /\ lever[b][l] \in Held
    BY <2>1
  <2>3. q[b] \in Seq(Decided) /\ Now \in Int
    <3>1. q[b] \in Seq(Decided)
      BY <1>1, Zenon
    <3> QED BY <1>2, <3>1
  <2>4. From(lever'[b][l], lever[b][l], q[b], Now, l)
    BY <1>4 DEF Activation
  <2>5. lever[b][l].due =< Now
    BY DEF DeskInv, Timely
  <2>6. Succeeds(lever'[b][l], lever[b][l], q[b], Now, l)
    BY <2>2, <2>3, <2>4, FromFacts
  <2> QED BY <2>2, <2>5, <2>6 DEF Succeeds
<1>8. tick' \in 0 .. MaxTick /\ month' = Now' /\ made' \in 0 .. MaxMade
  BY <1>1, <1>2, <1>5 DEF DeskInv
<1>9. LeversTyped(lever') /\ EchoTyped(echo')
  BY <1>1, <1>4 DEF Activation
<1>10. QueuesTyped(pending')
  <2>1. ASSUME NEW b \in Authorities PROVE pending'[b] \in Seq(Queued)
    <3>1. pending'[b] \in Seq(Decided)
      BY <1>4 DEF Activation
    <3>2. ASSUME NEW e \in Elements(pending'[b]) PROVE e.source = "scripted"
      <4>1. e \in Elements(q[b]) /\ (b \in A => ~(e.due =< Now))
        BY <1>4 DEF Activation
      <4>2. CASE b = au /\ e = d
        <5>1. lag = 0 => b \in A /\ e.due =< Now
          BY <1>1, <1>2, <4>2
        <5> QED BY <1>1, <4>1, <4>2, <5>1 DEF Allowed
      <4> QED BY <1>6, <4>1, <4>2
    <3> QED BY <3>1, <3>2, ScriptedQueue
  <2>2. DOMAIN pending' = Authorities
    BY <1>1 DEF Activates
  <2> QED BY <2>1, <2>2 DEF QueuesTyped
<1>11. Timely(lever', Now') /\ RankStep
  <2>1. Timely(lever', Now')
    BY <1>5, <1>7 DEF Timely
  <2>2. \A b \in Authorities : \A l \in Levers[b] :
          /\ Rank[lever'[b][l].source] >= Rank[lever[b][l].source]
          /\ Rank[lever'[b][l].source] \in 0 .. 3 /\ Rank[lever[b][l].source] \in 0 .. 3
    BY <1>7, Ranks DEF Held
  <2>3. \A b \in Authorities : \A l \in Levers[b] :
          ~(Rank[lever'[b][l].source] < Rank[lever[b][l].source])
    BY <2>2
  <2> QED BY <2>1, <2>3 DEF RankStep
<1>12. Word(lever', echo')
  <2> SUFFICES ASSUME NEW b \in Authorities, NEW l \in Levers[b], echo'[b][l] # None
               PROVE  lever'[b][l].source = "agent" /\ lever'[b][l].value = echo'[b][l]
    BY DEF Word
  <2>1. CASE source = "agent" /\ b = au /\ l \in DOMAIN d.fields
    <3>1. echo'[b][l] = d.fields[l] /\ lag = 0 /\ lever'[b] = Activated(lever[b], Append(pending[b], d), Now)
      BY <1>1, <2>1 DEF Allowed, Activates
    <3>2. lever[b] \in [Levers[b] -> Held] /\ pending[b] \in Seq(Decided)
      BY <1>3, QueuedFacts DEF LeversTyped
    <3>3. d \in Decided /\ Now \in Int /\ d.source = "agent" /\ d.due =< Now
      BY <1>1, <1>2, <2>1, <3>1
    <3>4. lever'[b][l] = Entry(d, l)
      BY <2>1, <3>1, <3>2, <3>3, LastWordSets
    <3> QED BY <2>1, <3>1, <3>3, <3>4, EntryFacts
  <2>2. CASE ~(source = "agent" /\ b = au /\ l \in DOMAIN d.fields)
    <3>1. echo'[b][l] = echo[b][l]
      BY <1>1, <2>2
    <3>2. lever[b][l].source = "agent" /\ lever[b][l].value = echo[b][l]
      BY <3>1 DEF DeskInv, Word
    <3>3. \A e \in Elements(q[b]) : l \in DOMAIN e.fields => e.source # "agent"
      BY <1>1, <1>6, <2>2
    <3>4. lever'[b][l] = lever[b][l]
      BY <1>7, <3>2, <3>3
    <3> QED BY <3>1, <3>2, <3>4
  <2> QED BY <2>1, <2>2
<1>13. Rate(lever', live')
  <2> DEFINE x == lever'[Owner][Overlaid]
  <2>1. Owner \in Authorities /\ Overlaid \in Levers[Owner]
    BY PolicyAssumption
  <2>2. \/ x = lever[Owner][Overlaid]
        \/ \E e \in Elements(q[Owner]) : Overlaid \in DOMAIN e.fields /\ x.source = e.source
    BY <1>7, <2>1
  <2>3. x = lever[Owner][Overlaid] \/ x.source \in {"scripted", "agent"}
    BY <1>1, <1>6, <2>1, <2>2 DEF Allowed
  <2>4. Rate(lever, live)
    BY DEF DeskInv
  <2> QED BY <1>5, <2>3, <2>4 DEF Rate
<1>14. live' \in Seq(Effect) /\ paid' \in [Ids -> {0, 1}] /\ Ends'
  BY <1>5 DEF DeskInv, Ends
<1>15. Once(lever', pending', paid', made')
  <2>1. Once(lever, q, paid, made + 1)
    <3>1. \A b \in Authorities : \A l \in Levers[b] : lever[b][l].id \in Nat
      BY <1>7 DEF Held
    <3>2. \A b \in Authorities : \A e \in Elements(pending[b]) : e.id \in Nat
      <4>1. \A e \in Decided : e.id \in Nat
        BY DEF Decided, Ids
      <4> QED BY <1>3, <4>1, QueuedFacts
    <3>3. Once(lever, pending, paid, made)
      BY DEF DeskInv
    <3>4. \A b \in Authorities : Elements(q[b]) = IF b = au THEN Elements(pending[b]) \cup {d}
                                                  ELSE Elements(pending[b])
      BY <1>1
    <3>5. d.id = made + 1
      BY <1>1
    <3> QED BY <1>2, <3>1, <3>2, <3>3, <3>4, <3>5, OnceLengthened
  <2>2. \A b \in Authorities : q[b] \in Seq(Decided)
    BY <1>1
  <2>3. Now \in Int /\ made + 1 \in Nat
    BY <1>2
  <2>4. Once(lever', pending', paid, made + 1)
    <3>1. Activates(lever', pending', lever, q, A, Now)
      BY <1>1
    <3> HIDE DEF A
    <3> QED BY <1>3, <2>1, <2>2, <2>3, <3>1, OnceActivated
  <2> QED BY <1>1, <1>5, <2>4
<1> QED BY <1>5, <1>8, <1>9, <1>10, <1>11, <1>12, <1>13, <1>14, <1>15 DEF DeskInv

-----------------------------------------------------------------------------
(* The rate of events. *)

LEMMA RunningFacts ==
    ASSUME NEW effects \in Seq(Effect)
    PROVE  /\ Running(effects) \in Seq(Effect)
           /\ \A e \in Elements(Running(effects)) : tick - e.start < e.days
BY KeepFacts DEF Running

\* The overlay returns the lever, sets it, or leaves it to who ranks higher.
LEMMA OverlayFacts ==
    ASSUME NEW x \in Held, NEW r \in Seq(Effect)
    PROVE  /\ Overlay(x, r) \in Held
           /\ \/ /\ Overlay(x, r) = x
                 /\ Sum(r) = 0 => x.source # "event"
                 /\ Sum(r) # 0 => x.source \in {"scripted", "agent"}
              \/ /\ Overlay(x, r).source = "event" /\ Overlay(x, r).value = Sum(r)
                 /\ Overlay(x, r).due = 0 /\ Overlay(x, r).id = 0
                 /\ Sum(r) # 0 /\ x.source \in {"autopilot", "event"}
              \/ Overlay(x, r) = Unset /\ Sum(r) = 0 /\ x.source = "event"
<1> DEFINE set == OfEvents(r)
<1>1. /\ set = [source |-> "event", value |-> Sum(r), due |-> 0, id |-> 0]
      /\ set.source = "event" /\ set.value = Sum(r) /\ set.due = 0 /\ set.id = 0
  BY DEF OfEvents
<1>2. set \in Held
  <2>1. Sum(r) \in Int /\ "event" \in Sources
    BY SumTyped DEF Sources
  <2> HIDE DEF set
  <2> QED BY <1>1, <2>1 DEF Held
<1>3. x.source \in {"autopilot", "event", "scripted", "agent"}
  BY DEF Held, Sources
<1>4. Rank[x.source] =< Rank["event"] <=> x.source \in {"autopilot", "event"}
  BY <1>3, Ranks
<1>5. Overlay(x, r) = IF Sum(r) # 0 /\ Rank[x.source] =< Rank["event"] THEN set
                      ELSE IF Sum(r) = 0 /\ x.source = "event" THEN Unset ELSE x
  BY DEF Overlay
<1> HIDE DEF set
<1>6. CASE Sum(r) # 0 /\ Rank[x.source] =< Rank["event"]
  BY <1>1, <1>2, <1>4, <1>5, <1>6
<1>7. CASE Sum(r) = 0 /\ x.source = "event"
  BY <1>5, <1>7, UnsetFacts
<1>8. CASE ~(Sum(r) # 0 /\ Rank[x.source] =< Rank["event"]) /\ ~(Sum(r) = 0 /\ x.source = "event")
  <2>1. Overlay(x, r) = x
    BY <1>5, <1>8
  <2> QED BY <1>3, <1>4, <1>8, <2>1
<1> QED BY <1>6, <1>7, <1>8

\* Where an overlay has been laid by the running effects r, everything else stands.
Laid(lv2, lv, r) ==
    /\ LeversTyped(lv2)
    /\ \A au \in Authorities : \A l \in Levers[au] :
          (au # Owner \/ l # Overlaid) => lv2[au][l] = lv[au][l]
    /\ Rate(lv2, r)
    /\ \A au \in Authorities : \A l \in Levers[au] :
          \/ lv2[au][l] = lv[au][l]
          \/ /\ l = Overlaid /\ lv2[au][l].due = 0 /\ lv2[au][l].id = 0
             /\ lv[au][l].source \in {"autopilot", "event"}
             /\ Rank[lv2[au][l].source] < Rank[lv[au][l].source] =>
                  lv[au][l].source = "event" /\ Sum(r) = 0

LEMMA OverlayingFacts ==
    ASSUME NEW lv, LeversTyped(lv), NEW effects \in Seq(Effect)
    PROVE  Laid(Overlaying(lv, effects), lv, Running(effects))
<1> DEFINE r == Running(effects)
           x == lv[Owner][Overlaid]
           y == Overlay(x, r)
           lv2 == Overlaying(lv, effects)
<1>1. Owner \in Authorities /\ Overlaid \in Levers[Owner]
  BY PolicyAssumption
<1>2. \A au \in Authorities : lv[au] \in [Levers[au] -> Held]
  BY DEF LeversTyped
<1>3. x \in Held /\ r \in Seq(Effect)
  BY <1>1, <1>2, RunningFacts
<1>4. /\ y \in Held
      /\ \/ /\ y = x
            /\ Sum(r) = 0 => x.source # "event"
            /\ Sum(r) # 0 => x.source \in {"scripted", "agent"}
         \/ /\ y.source = "event" /\ y.value = Sum(r) /\ y.due = 0 /\ y.id = 0
            /\ Sum(r) # 0 /\ x.source \in {"autopilot", "event"}
         \/ y = Unset /\ Sum(r) = 0 /\ x.source = "event"
  <2> HIDE DEF x, r
  <2> QED BY <1>3, OverlayFacts
<1>5. lv2 = [lv EXCEPT ![Owner] = [lv[Owner] EXCEPT ![Overlaid] = y]]
  BY DEF Overlaying
<1> HIDE DEF lv2, y
<1>6. \A au \in Authorities : lv2[au] = IF au = Owner THEN [lv[Owner] EXCEPT ![Overlaid] = y] ELSE lv[au]
  BY <1>5 DEF LeversTyped
<1>7. LeversTyped(lv2)
  <2>1. [lv[Owner] EXCEPT ![Overlaid] = y] \in [Levers[Owner] -> Held]
    BY <1>1, <1>2, <1>4
  <2>2. DOMAIN lv2 = Authorities
    BY <1>5 DEF LeversTyped
  <2> QED BY <1>2, <1>6, <2>1, <2>2 DEF LeversTyped
<1>8. /\ \A au \in Authorities : \A l \in Levers[au] :
           (au # Owner \/ l # Overlaid) => lv2[au][l] = lv[au][l]
      /\ lv2[Owner][Overlaid] = y
  BY <1>1, <1>2, <1>6
<1> HIDE DEF x
<1>9. Rate(lv2, r)
  BY <1>4, <1>8, UnsetFacts DEF Rate
<1>10. ASSUME NEW au \in Authorities, NEW l \in Levers[au]
       PROVE  \/ lv2[au][l] = lv[au][l]
              \/ /\ l = Overlaid /\ lv2[au][l].due = 0 /\ lv2[au][l].id = 0
                 /\ lv[au][l].source \in {"autopilot", "event"}
                 /\ Rank[lv2[au][l].source] < Rank[lv[au][l].source] =>
                      lv[au][l].source = "event" /\ Sum(r) = 0
  <2>1. CASE au = Owner /\ l = Overlaid
    <3>1. lv2[au][l] = y /\ lv[au][l] = x
      BY <1>8, <2>1 DEF x
    <3>2. Rank["event"] = 1 /\ Rank["autopilot"] = 0
      BY Ranks
    <3> QED BY <1>4, <2>1, <3>1, <3>2, UnsetFacts
  <2>2. CASE au # Owner \/ l # Overlaid
    BY <1>8, <2>2
  <2> QED BY <2>1, <2>2
<1> QED BY <1>7, <1>8, <1>9, <1>10 DEF Laid, lv2

\* Nobody's word, no month and no number is touched by it.
LEMMA LaidKeeps ==
    ASSUME NEW lv, NEW lv2, NEW r, Laid(lv2, lv, r), NEW m \in Nat, NEW ech, NEW q, NEW pd, NEW n \in Nat,
           Timely(lv, m), Word(lv, ech), Once(lv, q, pd, n)
    PROVE  Timely(lv2, m) /\ Word(lv2, ech) /\ Once(lv2, q, pd, n)
<1>1. Overlaid \notin OneOffs
  BY PolicyAssumption
<1>2. \A au \in Authorities : \A l \in Levers[au] :
          \/ lv2[au][l] = lv[au][l]
          \/ /\ l = Overlaid /\ lv2[au][l].due = 0 /\ lv2[au][l].id = 0
             /\ lv[au][l].source \in {"autopilot", "event"}
  BY DEF Laid
<1>3. Timely(lv2, m)
  BY <1>2 DEF Timely
<1>4. Word(lv2, ech)
  BY <1>2 DEF Word
<1>5. \A au \in Authorities : \A l \in Levers[au] \cap OneOffs : lv2[au][l] = lv[au][l]
  BY <1>1, <1>2
<1>6. \A au \in Authorities : \A l \in Levers[au] : lv2[au][l].id =< n
  BY <1>2 DEF Once
<1>7. Once(lv2, q, pd, n)
  BY <1>5, <1>6 DEF Once
<1> QED BY <1>3, <1>4, <1>7

LEMMA RateEventStep ==
    ASSUME DeskInv, NEW e \in Effects, RateEvent(e[1], e[2])
    PROVE  DeskInv' /\ RankStep /\ UNCHANGED seats
<1> DEFINE new == [value |-> e[1], start |-> tick, days |-> e[2]]
           effects == Append(live, new)
<1>1. /\ made < MaxMade /\ made' = made + 1
      /\ lever' = Overlaying(lever, effects)
      /\ live' = Running(effects)
      /\ UNCHANGED <<tick, month, seats, pending, paid, echo>>
  BY DEF RateEvent
<1>2. Now \in Nat /\ tick \in Nat /\ made \in Nat /\ MaxMade \in Nat /\ Now' = Now
  BY <1>1, NowIsNat, PolicyAssumption DEF Now
<1>3. effects \in Seq(Effect)
  <2>1. new \in Effect
    BY <1>2, PolicyAssumption DEF Effect
  <2> HIDE DEF new
  <2> QED BY <2>1 DEF DeskInv
<1> HIDE DEF effects, new
<1>4. Laid(lever', lever, live')
  BY <1>1, <1>3, OverlayingFacts DEF DeskInv
<1>5. live' \in Seq(Effect) /\ \A x \in Elements(live') : tick - x.start < x.days
  BY <1>1, <1>3, RunningFacts
<1>6. Timely(lever', Now) /\ Word(lever', echo) /\ Once(lever', pending, paid, made)
  BY <1>2, <1>4, LaidKeeps DEF DeskInv
<1>7. Ends'
  <2>1. \A x \in Elements(live') : x.start \in Int /\ x.days \in Nat
    <3>1. \A x \in Effect : x.start \in Int /\ x.days \in Nat
      BY DEF Effect
    <3> QED BY <1>5, <3>1, ElementsTyped
  <2> QED BY <1>1, <1>2, <1>5, <2>1 DEF Ends
<1>8. Once(lever', pending, paid, made + 1)
  <2>1. \A au \in Authorities : \A l \in Levers[au] : lever'[au][l].id \in Nat
    BY <1>4 DEF Laid, LeversTyped, Held
  <2>2. \A au \in Authorities : \A d \in Elements(pending[au]) : d.id \in Nat
    <3>1. \A d \in Decided : d.id \in Nat
      BY DEF Decided, Ids
    <3> QED BY <3>1, QueuedFacts DEF DeskInv
  <2>3. \A i \in Ids : i \in Nat
    BY DEF Ids
  <2> QED BY <1>2, <1>6, <2>1, <2>2, <2>3 DEF Once
<1>9. RankStep
  <2> SUFFICES ASSUME NEW au \in Authorities, NEW l \in Levers[au],
                      Rank[lever'[au][l].source] < Rank[lever[au][l].source]
               PROVE  l = Overlaid /\ lever[au][l].source = "event" /\ Sum(live') = 0
    BY DEF RankStep
  <2>1. Rank[lever[au][l].source] \in 0 .. 3
    BY Ranks DEF DeskInv, LeversTyped, Held
  <2> QED BY <1>4, <2>1 DEF Laid
<1>10. LeversTyped(lever') /\ Rate(lever', live')
  BY <1>4 DEF Laid
<1>11. /\ tick' \in 0 .. MaxTick /\ month' = Now' /\ made' \in 0 .. MaxMade
       /\ QueuesTyped(pending') /\ EchoTyped(echo') /\ paid' \in [Ids -> {0, 1}]
  BY <1>1, <1>2 DEF DeskInv
<1> QED BY <1>1, <1>2, <1>5, <1>6, <1>7, <1>8, <1>9, <1>10, <1>11 DEF DeskInv

-----------------------------------------------------------------------------
(* The day. *)

\* The levers once the day's overlay is laid.
LEMMA DayLays ==
    ASSUME DeskInv, Day, NEW lv, lv = Overlaying(lever, live)
    PROVE  /\ Laid(lv, lever, live')
           /\ live' \in Seq(Effect) /\ Ends'
           /\ Timely(lv, Now) /\ Word(lv, echo) /\ Once(lv, pending, paid, made)
           /\ tick' \in 0 .. MaxTick /\ tick' = tick + 1
           /\ UNCHANGED <<seats, made>>
<1>1. /\ tick < MaxTick /\ tick' = tick + 1
      /\ live' = Running(live)
      /\ UNCHANGED <<seats, made>>
  BY DEF Day
<1>2. Now \in Nat /\ tick \in Nat /\ made \in Nat /\ MaxTick \in Nat
  BY NowIsNat, PolicyAssumption
<1>3. LeversTyped(lever) /\ live \in Seq(Effect)
  BY DEF DeskInv
<1>4. Laid(lv, lever, live')
  BY <1>1, <1>3, OverlayingFacts
<1>5. live' \in Seq(Effect) /\ \A x \in Elements(live') : tick - x.start < x.days
  BY <1>1, <1>3, RunningFacts
<1>6. Ends'
  <2>1. \A x \in Elements(live') : x.start \in Int /\ x.days \in Nat
    <3>1. \A x \in Effect : x.start \in Int /\ x.days \in Nat
      BY DEF Effect
    <3> QED BY <1>5, <3>1, ElementsTyped
  <2> QED BY <1>1, <1>2, <1>5, <2>1 DEF Ends
<1>7. Timely(lv, Now) /\ Word(lv, echo) /\ Once(lv, pending, paid, made)
  BY <1>2, <1>4, LaidKeeps DEF DeskInv
<1> QED BY <1>1, <1>2, <1>4, <1>5, <1>6, <1>7

\* What a lever falls back from over a day, before a month is over.
LEMMA LaidRanks ==
    ASSUME DeskInv, NEW lv, Laid(lv, lever, live'), NEW au \in Authorities, NEW l \in Levers[au],
           Rank[lv[au][l].source] < Rank[lever[au][l].source]
    PROVE  l = Overlaid /\ lever[au][l].source = "event" /\ Sum(live') = 0
<1>1. Rank[lever[au][l].source] \in 0 .. 3
  BY Ranks DEF DeskInv, LeversTyped, Held
<1> QED BY <1>1 DEF Laid

LEMMA PlainDayStep ==
    ASSUME DeskInv, Day, tick % DaysPerMonth # DaysPerMonth - 1
    PROVE  DeskInv' /\ RankStep /\ UNCHANGED seats
<1> DEFINE lv == Overlaying(lever, live)
<1>1. lever' = lv /\ UNCHANGED <<month, pending, paid, echo>>
  BY DEF Day
<1>2. /\ Laid(lv, lever, live')
      /\ live' \in Seq(Effect) /\ Ends'
      /\ Timely(lv, Now) /\ Word(lv, echo) /\ Once(lv, pending, paid, made)
      /\ tick' \in 0 .. MaxTick /\ tick' = tick + 1
      /\ UNCHANGED <<seats, made>>
  <2> HIDE DEF lv
  <2> QED BY DayLays DEF lv
<1> HIDE DEF lv
<1>3. Now' = Now
  <2>1. tick \in Nat /\ DaysPerMonth \in Nat \ {0}
    BY NowIsNat, PolicyAssumption
  <2>2. (tick + 1) \div DaysPerMonth = tick \div DaysPerMonth
    BY <2>1, Months
  <2> QED BY <1>2, <2>2 DEF Now
<1>4. /\ LeversTyped(lever') /\ Rate(lever', live') /\ Timely(lever', Now') /\ Word(lever', echo')
      /\ Once(lever', pending', paid', made')
  BY <1>1, <1>2, <1>3 DEF Laid
<1>5. RankStep
  BY <1>1, <1>2, LaidRanks DEF RankStep
<1>6. /\ month' = Now' /\ made' \in 0 .. MaxMade /\ paid' \in [Ids -> {0, 1}]
      /\ QueuesTyped(pending') /\ EchoTyped(echo')
  BY <1>1, <1>2, <1>3 DEF DeskInv
<1> QED BY <1>2, <1>4, <1>5, <1>6 DEF DeskInv

\* A month reads what is due and uses up what fires once.
LEMMA MonthDayStep ==
    ASSUME DeskInv, Day, tick % DaysPerMonth = DaysPerMonth - 1
    PROVE  DeskInv' /\ RankStep /\ UNCHANGED seats
<1> DEFINE lv == Overlaying(lever, live)
           read == [au \in Authorities |-> Activated(lv[au], pending[au], month)]
<1>1. /\ lever' = Used(read)
      /\ pending' = [au \in Authorities |-> Kept(pending[au], month)]
      /\ paid' = [i \in Ids |-> IF \E au \in Authorities : \E l \in Levers[au] \cap OneOffs :
                                     read[au][l].id = i /\ read[au][l].value # 0
                                THEN paid[i] + 1 ELSE paid[i]]
      /\ echo' = [au \in Authorities |-> [l \in Levers[au] |->
                     IF l \in OneOffs THEN None ELSE echo[au][l]]]
      /\ month' = month + 1
  BY Zenon DEF Day, MonthEnd
<1>2. /\ Laid(lv, lever, live')
      /\ live' \in Seq(Effect) /\ Ends'
      /\ Timely(lv, Now) /\ Word(lv, echo) /\ Once(lv, pending, paid, made)
      /\ tick' \in 0 .. MaxTick /\ tick' = tick + 1
      /\ UNCHANGED <<seats, made>>
  <2> HIDE DEF lv, read
  <2> QED BY DayLays DEF lv
<1> HIDE DEF lv
<1>3. Now \in Nat /\ tick \in Nat /\ made \in Nat /\ month = Now /\ month \in Int
  BY NowIsNat DEF DeskInv
<1>4. Now' = Now + 1
  <2>1. DaysPerMonth \in Nat \ {0}
    BY PolicyAssumption
  <2>2. (tick + 1) \div DaysPerMonth = tick \div DaysPerMonth + 1
    BY <1>3, <2>1, Months
  <2> QED BY <1>2, <2>2 DEF Now
<1>5. LeversTyped(lv) /\ QueuesTyped(pending)
  BY <1>2 DEF Laid, DeskInv
<1>6. Activates(read, pending', lv, pending, Authorities, month)
  <2>1. /\ \A au \in Authorities : read[au] = Activated(lv[au], pending[au], month)
        /\ \A au \in Authorities : pending'[au] = Kept(pending[au], month)
        /\ DOMAIN read = Authorities /\ DOMAIN pending' = Authorities
    BY <1>1
  <2> HIDE DEF read
  <2> QED BY <2>1 DEF Activates
<1> HIDE DEF read
<1>7. \A au \in Authorities : pending[au] \in Seq(Decided)
  BY <1>5, QueuedFacts
<1>8. Activation(read, pending', lv, pending, Authorities, month)
  <2>1. Authorities \in SUBSET Authorities
    OBVIOUS
  <2> QED BY <1>3, <1>5, <1>6, <1>7, <2>1, ActivatesFacts
<1>9. Once(read, pending', paid, made)
  <2>1. Authorities \in SUBSET Authorities
    OBVIOUS
  <2> QED BY <1>2, <1>3, <1>5, <1>6, <1>7, <2>1, OnceActivated
<1>10. LeversTyped(read)
  BY <1>8 DEF Activation
<1>11. /\ LeversTyped(lever')
       /\ \A au \in Authorities : \A l \in Levers[au] :
            lever'[au][l] = IF l \in OneOffs THEN Unset ELSE read[au][l]
  <2>1. DOMAIN read = Authorities /\ \A au \in Authorities : read[au] \in [Levers[au] -> Held]
    BY <1>10 DEF LeversTyped
  <2>2. DOMAIN lever' = Authorities
        /\ \A au \in Authorities : lever'[au] = [l \in Levers[au] |->
              IF l \in OneOffs THEN Unset ELSE read[au][l]]
    <3>1. lever' = [au \in DOMAIN read |-> [l \in DOMAIN read[au] |->
                       IF l \in OneOffs THEN Unset ELSE read[au][l]]]
      BY <1>1, Zenon DEF Used
    <3>2. \A au \in Authorities : DOMAIN read[au] = Levers[au]
      BY <2>1
    <3>3. DOMAIN lever' = Authorities
          /\ \A au \in Authorities : lever'[au] = [l \in DOMAIN read[au] |->
                IF l \in OneOffs THEN Unset ELSE read[au][l]]
      BY <2>1, <3>1, Zenon
    <3> QED BY <3>2, <3>3
  <2>3. \A au \in Authorities : lever'[au] \in [Levers[au] -> Held]
    BY <2>1, <2>2, UnsetFacts
  <2> QED BY <2>2, <2>3 DEF LeversTyped
<1>12. /\ EchoTyped(echo')
       /\ \A au \in Authorities : \A l \in Levers[au] :
            echo'[au][l] = IF l \in OneOffs THEN None ELSE echo[au][l]
  BY <1>1 DEF EchoTyped
\* What activation makes of a lever after the overlay.
<1>13. ASSUME NEW au \in Authorities, NEW l \in Levers[au]
       PROVE  /\ read[au][l] \in Held /\ lv[au][l] \in Held
              /\ Rank[read[au][l].source] >= Rank[lv[au][l].source]
              /\ read[au][l].due =< Now
              /\ read[au][l] = lv[au][l] \/ read[au][l].source = "scripted"
              /\ lv[au][l].source = "agent" => read[au][l] = lv[au][l]
  <2>1. read[au] \in [Levers[au] -> Held] /\ lv[au] \in [Levers[au] -> Held]
    BY <1>5, <1>10 DEF LeversTyped
  <2>2. read[au][l] \in Held /\ lv[au][l] \in Held
    BY <2>1
  <2>3. pending[au] \in Seq(Decided) /\ month \in Int
    BY <1>3, <1>7
  <2>4. From(read[au][l], lv[au][l], pending[au], month, l)
    BY <1>8 DEF Activation
  <2>5. Succeeds(read[au][l], lv[au][l], pending[au], month, l)
    BY <2>2, <2>3, <2>4, FromFacts
  <2>6. \A e \in Elements(pending[au]) : e.source = "scripted"
    BY <1>5, QueuedFacts
  <2>7. lv[au][l].due =< month
    BY <1>2, <1>3 DEF Timely
  <2> QED BY <1>3, <2>2, <2>5, <2>6, <2>7 DEF Succeeds
<1>14. QueuesTyped(pending')
  <2>1. ASSUME NEW au \in Authorities PROVE pending'[au] \in Seq(Queued)
    <3>1. pending[au] \in Seq(Queued)
      BY <1>5 DEF QueuesTyped
    <3>2. Kept(pending[au], month) \in Seq(Queued)
      BY <3>1, KeptFacts
    <3> QED BY <1>1, <3>2
  <2>2. DOMAIN pending' = Authorities
    BY <1>1
  <2> QED BY <2>1, <2>2 DEF QueuesTyped
<1>15. Timely(lever', Now')
  <2>1. \A au \in Authorities : \A l \in Levers[au] : read[au][l].due \in Int /\ read[au][l].due =< Now
    BY <1>13 DEF Held
  <2> QED BY <1>3, <1>4, <1>11, <2>1, UnsetFacts DEF Timely
<1>16. Word(lever', echo')
  <2> SUFFICES ASSUME NEW au \in Authorities, NEW l \in Levers[au], echo'[au][l] # None
               PROVE  lever'[au][l].source = "agent" /\ lever'[au][l].value = echo'[au][l]
    BY DEF Word
  <2>1. l \notin OneOffs /\ echo'[au][l] = echo[au][l] /\ lever'[au][l] = read[au][l]
    BY <1>11, <1>12
  <2>2. lv[au][l].source = "agent" /\ lv[au][l].value = echo[au][l]
    BY <1>2, <2>1 DEF Word
  <2> QED BY <1>13, <2>1, <2>2
<1>17. Rate(lever', live')
  <2>1. Owner \in Authorities /\ Overlaid \in Levers[Owner] /\ Overlaid \notin OneOffs
    BY PolicyAssumption
  <2>2. lever'[Owner][Overlaid] = read[Owner][Overlaid]
    BY <1>11, <2>1
  <2>3. \/ read[Owner][Overlaid] = lv[Owner][Overlaid]
        \/ read[Owner][Overlaid].source = "scripted"
    BY <1>13, <2>1
  <2>4. Rate(lv, live')
    BY <1>2 DEF Laid
  <2> QED BY <2>2, <2>3, <2>4 DEF Rate
\* Whoever is paid for now was in effect, and has not been paid for.
<1>18. ASSUME NEW i \in Ids
       PROVE  /\ paid'[i] \in {0, 1}
              /\ paid'[i] # 0 =>
                   /\ i =< made
                   /\ \A au \in Authorities : \A d \in Elements(pending'[au]) : d.id # i
  <2>1. paid[i] \in {0, 1}
    BY DEF DeskInv
  <2>2. CASE \E au \in Authorities : \E l \in Levers[au] \cap OneOffs :
                read[au][l].id = i /\ read[au][l].value # 0
    <3>1. PICK au \in Authorities : \E l \in Levers[au] \cap OneOffs : read[au][l].id = i
      BY <2>2
    <3>2. paid[i] = 0
      BY <1>9, <2>1, <3>1 DEF Once
    <3>3. paid'[i] = 1
      BY <1>1, <2>2, <3>2
    <3>4. i =< made /\ \A b \in Authorities : \A d \in Elements(pending'[b]) : d.id # i
      BY <1>9, <3>1 DEF Once
    <3> QED BY <3>3, <3>4
  <2>3. CASE ~(\E au \in Authorities : \E l \in Levers[au] \cap OneOffs :
                  read[au][l].id = i /\ read[au][l].value # 0)
    <3>1. paid'[i] = paid[i]
      BY <1>1, <2>3
    <3> QED BY <1>9, <2>1, <3>1 DEF Once
  <2> QED BY <2>2, <2>3
<1>19. paid' \in [Ids -> {0, 1}]
  BY <1>1, <1>18
<1>20. Once(lever', pending', paid', made')
  <2>1. made' = made
    BY <1>2
  <2>2. /\ \A au \in Authorities : \A d \in Elements(pending'[au]) : d.id =< made
        /\ \A au, bu \in Authorities : \A d \in Elements(pending'[au]) : \A e \in Elements(pending'[bu]) :
             d.id = e.id => au = bu /\ d = e
    BY <1>9 DEF Once
  <2>3. \A au \in Authorities : \A l \in Levers[au] : lever'[au][l].id =< made
    BY <1>3, <1>9, <1>11, UnsetFacts DEF Once
  <2>4. \A au \in Authorities : \A l \in Levers[au] \cap OneOffs : lever'[au][l].id = 0
    BY <1>11, UnsetFacts
  <2>5. \A i \in Ids : i # 0
    BY DEF Ids
  <2>6. \A au \in Authorities : \A d \in Elements(pending'[au]) : d.id # 0
    <3>1. \A d \in Decided : d.id # 0
      BY DEF Decided, Ids
    <3> QED BY <1>14, <3>1, QueuedFacts
  <2>7. \A au, bu \in Authorities : \A l \in Levers[au] \cap OneOffs : \A d \in Elements(pending'[bu]) :
           lever'[au][l].id # d.id
    BY <2>4, <2>6
  <2>8. \A i \in Ids : paid'[i] # 0 =>
           /\ i =< made
           /\ \A au \in Authorities : \A d \in Elements(pending'[au]) : d.id # i
           /\ \A au \in Authorities : \A l \in Levers[au] \cap OneOffs : lever'[au][l].id # i
    BY <1>18, <2>4, <2>5
  <2> QED BY <2>1, <2>2, <2>3, <2>7, <2>8 DEF Once
<1>21. RankStep
  <2> SUFFICES ASSUME NEW au \in Authorities, NEW l \in Levers[au], l \notin OneOffs,
                      Rank[lever'[au][l].source] < Rank[lever[au][l].source]
               PROVE  l = Overlaid /\ lever[au][l].source = "event" /\ Sum(live') = 0
    <3>1. month' # month
      BY <1>1, <1>3
    <3> QED BY <3>1 DEF RankStep
  <2>1. Rank[read[au][l].source] >= Rank[lv[au][l].source] /\ lever'[au][l] = read[au][l]
    BY <1>11, <1>13
  <2>2. /\ Rank[read[au][l].source] \in 0 .. 3 /\ Rank[lv[au][l].source] \in 0 .. 3
        /\ Rank[lever[au][l].source] \in 0 .. 3
    BY <1>13, Ranks DEF DeskInv, LeversTyped, Held
  <2>3. Rank[lv[au][l].source] < Rank[lever[au][l].source]
    BY <2>1, <2>2
  <2> QED BY <1>2, <2>3, LaidRanks
<1>22. month' = Now' /\ made' \in 0 .. MaxMade
  BY <1>1, <1>2, <1>3, <1>4 DEF DeskInv
<1> QED BY <1>2, <1>11, <1>12, <1>14, <1>15, <1>16, <1>17, <1>19, <1>20, <1>21, <1>22 DEF DeskInv

-----------------------------------------------------------------------------
(* Every step. *)

\* What the desk does leaves the seats alone.
LEMMA SeatsAside ==
    ASSUME SeatsTyped, SeatInv, UNCHANGED seats
    PROVE  SeatsTyped' /\ SeatInv'
BY DEF seats, SeatsTyped, SeatInv

LEMMA InvStep ==
    ASSUME Inv, [Next]_vars
    PROVE  Inv' /\ (Next => RankStep)
<1>1. ASSUME NEW a \in Agents, NEW au \in Authorities, Register(a, au) PROVE Inv' /\ RankStep
  BY <1>1, RegisterStep
<1>2. ASSUME NEW a \in Agents, TakeControl(a) \/ Record(a) \/ Unregister(a) \/ Restore(a)
      PROVE  Inv' /\ RankStep
  BY <1>2, TakeControlStep, RecordStep, UnregisterStep, RestoreStep
<1>3. ASSUME DeskInv' /\ RankStep /\ UNCHANGED seats PROVE Inv' /\ RankStep
  BY <1>3, SeatsAside DEF Inv
<1>4. DeskInv
  BY DEF Inv
<1>5. ASSUME NEW a \in Agents, Decide(a) PROVE Inv' /\ RankStep
  <2>1. PICK f \in Decisions : Submit(seat[a], "agent", f, 0)
    BY <1>5 DEF Decide
  <2>2. seat[a] \in Authorities
    BY <1>5, CallFacts DEF Decide, Inv
  <2>3. Allowed("agent", f, 0) /\ "agent" \in Sources /\ 0 \in Nat
    BY DEF Allowed, Sources
  <2> QED BY <1>3, <1>4, <2>1, <2>2, <2>3, SubmitStep
<1>6. ASSUME NEW au \in Authorities, Script(au) PROVE Inv' /\ RankStep
  <2>1. PICK f \in Decisions, lag \in Lags : Submit(au, "scripted", f, lag)
    BY <1>6 DEF Script
  <2>2. Allowed("scripted", f, lag) /\ "scripted" \in Sources /\ lag \in Nat
    BY PolicyAssumption DEF Allowed, Sources
  <2> QED BY <1>3, <1>4, <2>1, <2>2, SubmitStep
<1>7. ASSUME FiscalEvent PROVE Inv' /\ RankStep
  <2>1. PICK f \in Decisions : DOMAIN f \subseteq Levers[Owner] \cap OneOffs /\ Submit(Owner, "event", f, 0)
    BY <1>7 DEF FiscalEvent
  <2>2. Allowed("event", f, 0) /\ "event" \in Sources /\ 0 \in Nat /\ Owner \in Authorities
    BY <2>1, PolicyAssumption DEF Allowed, Sources
  <2> QED BY <1>3, <1>4, <2>1, <2>2, SubmitStep
<1>8. ASSUME NEW e \in Effects, RateEvent(e[1], e[2]) PROVE Inv' /\ RankStep
  BY <1>3, <1>4, <1>8, RateEventStep
<1>9. ASSUME Day PROVE Inv' /\ RankStep
  BY <1>3, <1>4, <1>9, PlainDayStep, MonthDayStep
<1>10. ASSUME Next PROVE Inv' /\ RankStep
  BY <1>1, <1>2, <1>5, <1>6, <1>7, <1>8, <1>9, <1>10 DEF Next
<1>11. ASSUME UNCHANGED vars PROVE Inv'
  <2>1. UNCHANGED seats /\ UNCHANGED <<tick, month, desk>>
    BY <1>11 DEF vars
  <2> QED BY <1>4, <2>1, SeatsAside, DeskAside DEF Inv
<1> QED BY <1>10, <1>11

\* A lever falls back to a lower source only when a month uses up a one-off or the
\* event that holds the overlaid lever is over: no script and no event takes a
\* lever from who ranks above it (activate_due, authority.py:180-197).
THEOREM RankStepCorrect == Spec => [][RankStep]_vars
<1>1. Init => Inv
  BY InvInit
<1>2. Inv /\ [Next]_vars => Inv'
  BY InvStep
<1>3. Inv /\ [Next]_vars => [RankStep]_vars
  BY InvStep
<1> QED BY <1>1, <1>2, <1>3, PTL DEF Spec

\* Who has the seat has the control, unless two requests about the authority
\* overlapped; what a policymaker was told is applied stays so; no decision takes
\* effect before its month; an event's rate is the sum of the running effects and
\* is gone with them; no one-off is used by two months; and a lever falls back only
\* when its source is done with it (sessions.py:154-302, authority.py:171-197,
\* effects.py:214-231, fiscal.py).
THEOREM LeversObeyedCorrect == Spec => []LeversInOrder /\ LeversObeyed
<1>1. Init => Inv
  BY InvInit
<1>2. Inv /\ [Next]_vars => Inv'
  BY InvStep
<1>3. Inv => LeversInOrder
  BY InvSays
<1>4. Spec => []LeversInOrder
  BY <1>1, <1>2, <1>3, PTL DEF Spec
<1>5. []LeversInOrder /\ [][RankStep]_vars => LeversObeyed
  <2>1. LeversInOrder' /\ [RankStep]_vars => [LeversInOrder' /\ RankStep]_vars
    OBVIOUS
  <2> QED BY <2>1, PTL DEF LeversObeyed
<1> QED BY <1>4, <1>5, RankStepCorrect, PTL

-----------------------------------------------------------------------------
(* Cascades.  What is queued or due has its cause in the history and room below   *)
(* it; what is due is sorted; the history ends before today's end.                *)

HasCause(load) ==
    \E i \in DOMAIN history :
        /\ history[i].tick < load.at
        /\ history[i].load.event = load.parent
        /\ history[i].load.depth = load.depth - 1
        /\ \E k \in DOMAIN Followups[load.parent] : Followups[load.parent][k].to = load.event
Fits(load) ==
    /\ load.depth + Height[load.event] =< MaxDepth
    /\ load.kind = "followup" => HasCause(load)

QueueInv ==
    /\ queue \subseteq QueueItem /\ IsFiniteSet(queue) /\ nextSeq \in Nat
    /\ \A i, j \in queue : i.seq = j.seq => i = j
    /\ \A i \in queue : /\ i.seq < nextSeq /\ i.at >= clock /\ i.load.at = i.at
                        /\ i.prio = 0 <=> i.load.kind = "scripted"
                        /\ Fits(i.load)
DueInv ==
    /\ due \in Seq(Payload)
    /\ stage # "due" => due = <<>>
    /\ \A k \in DOMAIN due : due[k].at = Today /\ Fits(due[k])
    /\ \A k, l \in DOMAIN due : k < l /\ due[l].kind = "scripted" => due[k].kind = "scripted"
    /\ \A k \in DOMAIN due, h \in DOMAIN history :
          due[k].kind = "scripted" /\ history[h].tick = Today => history[h].load.kind = "scripted"

Nodes == [tick : Nat, load : Loads, autopilot : BOOLEAN]
Kinds0 == {Category[e] : e \in Catalog}
HistoryTyped ==
    /\ history \in Seq(Nodes)
    /\ lastId \in [Catalog -> -1 .. LastTick] /\ lastCat \in [Kinds0 -> -1 .. LastTick]
    /\ \A h \in DOMAIN history : /\ history[h].tick < clock
                                 /\ history[h].tick =< lastCat[Category[history[h].load.event]]

OutAt(k) == history[k].tick + Lag[history[k].load.event]
Horizon == IF stage = "idle" THEN clock ELSE Today
HeadlinesSplit ==
    /\ published = {[node |-> k, tick |-> OutAt(k)] : k \in {j \in DOMAIN history : OutAt(j) < Horizon}}
    /\ headlines = {[node |-> k, at |-> OutAt(k)] : k \in {j \in DOMAIN history : OutAt(j) >= Horizon}}

RefusedInv ==
    /\ refused \subseteq [load : Payload, tick : Nat]
    /\ \A r \in refused : r.tick < clock /\ r.load.depth =< MaxDepth
    /\ ScriptedComesFirst

Firings(t) == {k \in DOMAIN history : history[k].tick = t}
NeverMore == \A t \in Nat : Cardinality(Firings(t)) =< MaxConcurrent

RestTyped ==
    /\ clock \in 0 .. LastTick /\ scripted \in 0 .. MaxScripts
    /\ stage \in {"idle", "due", "draw"} /\ (stage # "idle" => clock >= 1) /\ drawn \in 0 .. N
    /\ mode \in [Policymakers -> Controls] /\ since \in [Policymakers -> 0 .. LastTick]
    /\ pressure \subseteq [event : Catalog, tick : Nat]

CascadeInv ==
    /\ RestTyped /\ QueueInv /\ DueInv /\ HistoryTyped
    /\ CascadeIsAForest /\ NeverMore /\ CooldownKept /\ RefusedInv /\ HeadlinesSplit

LEMMA FiringsFinite ==
    ASSUME HistoryTyped, NEW t PROVE IsFiniteSet(Firings(t)) /\ Firings(t) = {k \in 1 .. Len(history) : history[k].tick = t}
<1>1. DOMAIN history = 1 .. Len(history) /\ Len(history) \in Nat
  BY DEF HistoryTyped
<1>2. IsFiniteSet(1 .. Len(history))
  BY <1>1, FS_Interval
<1>3. Firings(t) \in SUBSET (1 .. Len(history))
  BY <1>1 DEF Firings
<1> QED BY <1>1, <1>2, <1>3, FS_Subset DEF Firings

LEMMA OutTyped ==
    ASSUME HistoryTyped, NEW h \in DOMAIN history
    PROVE  /\ OutAt(h) \in Nat /\ h \in Nat /\ history[h] \in Nodes /\ h \in 1 .. Len(history)
           /\ history[h].tick \in Nat /\ history[h].load \in Loads /\ history[h].load.event \in Catalog
<1>1. history[h] \in Nodes /\ h \in 1 .. Len(history) /\ h \in Nat
  BY DEF HistoryTyped
<1>2. history[h].tick \in Nat /\ history[h].load \in Loads
  BY <1>1 DEF Nodes
<1>3. history[h].load.event \in Catalog
  BY <1>2 DEF Loads
<1>4. Lag[history[h].load.event] \in Nat
  BY <1>3, CascadeAssumption
<1> QED BY <1>1, <1>2, <1>3, <1>4 DEF OutAt

LEMMA CascadeInvSays == CascadeInv => CascadesInOrder
<1> SUFFICES ASSUME CascadeInv PROVE CascadesInOrder
  OBVIOUS
<1>1. CascadeTyped
  <2>1. \A h \in DOMAIN history : OutAt(h) \in Nat /\ h \in Nat
    BY OutTyped DEF CascadeInv
  <2>2. headlines \subseteq [node : Nat, at : Nat] /\ published \subseteq [node : Nat, tick : Nat]
    BY <2>1 DEF CascadeInv, HeadlinesSplit
  <2> QED BY <2>2 DEF CascadeInv, RestTyped, QueueInv, DueInv, HistoryTyped, RefusedInv, CascadeTyped, Kinds0, Nodes
<1>2. CascadesAreBounded
  BY DEF CascadesAreBounded, CascadeInv, NeverMore, Concurrent, Firings, RefusedInv, QueueInv, Fits, RestTyped
<1>3. HeadlinesOnTheDay
  BY DEF HeadlinesOnTheDay, CascadeInv, HeadlinesSplit, Horizon, Between, OutAt
<1> QED BY <1>1, <1>2, <1>3 DEF CascadesInOrder, CascadeInv, RefusedInv

LEMMA HeightTyped == MaxDepth \in Nat /\ \A e \in Catalog : Height[e] \in Nat /\ Height[e] =< MaxDepth
BY CascadeAssumption DEF Subcritical

LEMMA ClockTyped ==
    ASSUME CascadeInv
    PROVE  /\ clock \in Nat /\ clock =< LastTick /\ LastTick \in Nat /\ Today \in Int /\ clock = Today + 1
           /\ stage # "idle" => Today \in Nat
<1>1. LastTick \in Nat
  BY CascadeAssumption
<1>2. clock \in 0 .. LastTick /\ (stage # "idle" => clock >= 1)
  BY DEF CascadeInv, RestTyped
<1>3. Today = clock - 1
  BY DEF Today
<1> QED BY ONLY <1>1, <1>2, <1>3

LEMMA CascadeInvInit == CascadeInit => CascadeInv
<1> SUFFICES ASSUME CascadeInit PROVE CascadeInv
  OBVIOUS
<1> USE DEF CascadeInit
<1>1. RestTyped
  BY CascadeAssumption DEF RestTyped
<1>2. QueueInv
  BY FS_EmptySet DEF QueueInv
<1>3. DueInv /\ HistoryTyped /\ CascadeIsAForest /\ CooldownKept /\ HeadlinesSplit
  <2>1. DOMAIN history = {} /\ DOMAIN due = {} /\ history \in Seq(Nodes) /\ due \in Seq(Payload)
    OBVIOUS
  <2>2. -1 \in -1 .. LastTick
    BY CascadeAssumption
  <2> QED BY <2>1, <2>2 DEF DueInv, HistoryTyped, CascadeIsAForest, CooldownKept, HeadlinesSplit, Kinds0
<1>4. NeverMore
  <2>1. \A t : Firings(t) = {}
    BY DEF Firings
  <2>2. Cardinality({}) = 0 /\ MaxConcurrent \in Nat
    BY FS_EmptySet, CascadeAssumption
  <2>3. \A t : Cardinality(Firings(t)) = 0
    BY <2>1, <2>2
  <2> QED BY ONLY <2>2, <2>3 DEF NeverMore
<1>5. RefusedInv
  BY DEF RefusedInv, ScriptedComesFirst
<1> QED BY <1>1, <1>2, <1>3, <1>4, <1>5 DEF CascadeInv

-----------------------------------------------------------------------------
(* A firing. *)

\* The history with one firing more.
LEMMA FireAppends ==
    ASSUME CascadeInv, NEW load \in Loads, stage # "idle", Fire(load), clock' = clock
    PROVE  LET n == Len(history)
           IN /\ n \in Nat /\ Today \in Nat /\ load.event \in Catalog
              /\ history' \in Seq(Nodes) /\ Len(history') = n + 1 /\ DOMAIN history' = 1 .. n + 1
              /\ \A i \in 1 .. n : history'[i] = history[i]
              /\ history'[n + 1].tick = Today /\ history'[n + 1].load = load
              /\ DOMAIN history = 1 .. n
<1>1. Today \in Nat
  BY ClockTyped
<1>2. load.event \in Catalog
  BY DEF Loads
<1> DEFINE x == [tick |-> Today, load |-> load, autopilot |-> Autopilot(load.event)]
<1>3. x \in Nodes
  <2>1. Autopilot(load.event) \in BOOLEAN
    BY DEF Autopilot
  <2> QED BY <1>1, <2>1 DEF Nodes
<1>4. history' = Append(history, x)
  BY DEF Fire
<1>5. history \in Seq(Nodes)
  BY DEF CascadeInv, HistoryTyped
<1>6. x.tick = Today /\ x.load = load
  OBVIOUS
<1> HIDE DEF x
<1> QED BY <1>1, <1>2, <1>3, <1>4, <1>5, <1>6

\* What has a cause has one in a longer history.
LEMMA CausesStay ==
    ASSUME DOMAIN history \subseteq DOMAIN history', \A i \in DOMAIN history : history'[i] = history[i],
           NEW load, Fits(load)
    PROVE  Fits(load)'
BY DEF Fits, HasCause

LEMMA FireCounts ==
    ASSUME CascadeInv, NEW load \in Loads, stage # "idle", Fire(load), clock' = clock,
           Cardinality(Firings(Today)) < MaxConcurrent
    PROVE  NeverMore'
<1> SUFFICES ASSUME NEW t \in Nat PROVE Cardinality(Firings(t)') =< MaxConcurrent
  BY DEF NeverMore
<1> DEFINE n == Len(history)
<1>1. /\ n \in Nat /\ DOMAIN history' = 1 .. n + 1 /\ DOMAIN history = 1 .. n /\ Today \in Nat
      /\ \A i \in 1 .. n : history'[i] = history[i]
      /\ history'[n + 1].tick = Today
  BY FireAppends
<1>2. IsFiniteSet(Firings(t)) /\ Cardinality(Firings(t)) =< MaxConcurrent /\ Cardinality(Firings(t)) \in Nat
      /\ MaxConcurrent \in Nat
  <2>1. IsFiniteSet(Firings(t))
    BY FiringsFinite DEF CascadeInv
  <2> QED BY <2>1, FS_CardinalityType, CascadeAssumption DEF CascadeInv, NeverMore
<1>3. CASE t = Today
  <2>1. Firings(t)' = Firings(t) \cup {n + 1}
    BY <1>1, <1>3 DEF Firings
  <2>2. /\ IsFiniteSet(Firings(t) \cup {n + 1})
        /\ Cardinality(Firings(t) \cup {n + 1}) = IF n + 1 \in Firings(t) THEN Cardinality(Firings(t))
                                                  ELSE Cardinality(Firings(t)) + 1
    <3> HIDE DEF n
    <3> QED BY <1>2, FS_AddElement
  <2>3. Cardinality(Firings(t) \cup {n + 1}) \in Nat
    BY <2>2, FS_CardinalityType
  <2>4. Cardinality(Firings(t)) < MaxConcurrent
    BY <1>3
  <2>5. Cardinality(Firings(t) \cup {n + 1}) =< MaxConcurrent
    BY ONLY <1>2, <2>2, <2>3, <2>4
  <2> QED BY <2>1, <2>5
<1>4. CASE t # Today
  <2>1. Firings(t)' = Firings(t)
    BY <1>1, <1>4 DEF Firings
  <2> QED BY <1>2, <2>1
<1> QED BY <1>3, <1>4

\* The new firing keeps its distance, has its cause, and its headline is to come.
LEMMA FireRecorded ==
    ASSUME CascadeInv, NEW load \in Loads, stage # "idle", stage' # "idle", Fire(load), clock' = clock,
           published' = published, Fits(load), load.at = Today,
           load.kind # "scripted" => ~CoolsDown(load.event)
    PROVE  HistoryTyped' /\ CascadeIsAForest' /\ CooldownKept' /\ HeadlinesSplit'
<1>0. PICK n \in Nat : n = Len(history)
  BY FireAppends
<1>1. /\ n \in Nat /\ DOMAIN history' = 1 .. n + 1 /\ DOMAIN history = 1 .. n /\ Today \in Nat
      /\ \A i \in 1 .. n : history'[i] = history[i]
      /\ history'[n + 1].tick = Today /\ history'[n + 1].load = load /\ load.event \in Catalog
      /\ history' \in Seq(Nodes)
  BY <1>0, FireAppends
<1>2. \A h \in 1 .. n : /\ OutAt(h) \in Nat /\ history[h].tick \in Nat /\ history[h].load.event \in Catalog
                         /\ history[h].load.kind \in {"scripted", "followup", "draw"}
  BY <1>1, OutTyped DEF CascadeInv, Loads
<1>3. /\ Today \in -1 .. LastTick /\ clock \in Nat /\ Today = clock - 1
  BY ClockTyped
<1>4. /\ lastId' \in [Catalog -> -1 .. LastTick] /\ lastCat' \in [Kinds0 -> -1 .. LastTick]
      /\ \A c \in Kinds0 : lastCat'[c] = IF c = Category[load.event] THEN Today ELSE lastCat[c]
  BY <1>1, <1>3 DEF Fire, CascadeInv, HistoryTyped, Kinds0
<1>5. \A h \in 1 .. n : history[h].tick =< Today /\ history[h].tick =< lastCat[Category[history[h].load.event]]
                         /\ Category[history[h].load.event] \in Kinds0
  <2> SUFFICES ASSUME NEW h \in 1 .. n
               PROVE  history[h].tick =< Today /\ history[h].tick =< lastCat[Category[history[h].load.event]]
                      /\ Category[history[h].load.event] \in Kinds0
    OBVIOUS
  <2>1. history[h].tick < clock /\ history[h].tick =< lastCat[Category[history[h].load.event]]
    BY <1>1 DEF CascadeInv, HistoryTyped
  <2>2. history[h].tick =< Today
    BY <1>2, <1>3, <2>1
  <2> QED BY <1>2, <2>1, <2>2 DEF Kinds0
<1>6. HistoryTyped'
  <2>1. ASSUME NEW h \in 1 .. n + 1
        PROVE  history'[h].tick < clock' /\ history'[h].tick =< lastCat'[Category[history'[h].load.event]]
    <3>1. CASE h = n + 1
      <4>1. history'[h].tick = Today /\ history'[h].load = load /\ Category[load.event] \in Kinds0
        BY <1>1, <3>1 DEF Kinds0
      <4>2. lastCat'[Category[load.event]] = Today
        BY <1>4, <4>1
      <4>3. Today < clock' /\ Today =< Today
        BY <1>1, <1>3
      <4> QED BY <4>1, <4>2, <4>3
    <3>2. CASE h \in 1 .. n
      <4>1. PICK c \in Kinds0 : c = Category[history[h].load.event]
        BY <1>5, <3>2
      <4>2. history'[h] = history[h] /\ history[h].tick \in Nat /\ history[h].tick =< Today
            /\ history[h].tick =< lastCat[c]
        BY <1>1, <1>2, <1>5, <3>2, <4>1
      <4>3. history[h].tick =< lastCat'[c]
        BY <1>4, <4>2
      <4>4. history[h].tick < clock'
        BY <1>1, <1>3, <4>2
      <4> QED BY <4>1, <4>2, <4>3, <4>4
    <3> QED BY <1>1, <3>1, <3>2
  <2> QED BY <1>1, <1>4, <2>1 DEF HistoryTyped, Kinds0
<1>7. CascadeIsAForest'
  <2>1. ASSUME NEW j \in 1 .. n + 1, history'[j].load.kind = "followup"
        PROVE  /\ history'[j].tick = history'[j].load.at
               /\ \E i \in 1 .. j - 1 :
                     /\ history'[i].tick < history'[j].tick
                     /\ history'[i].load.event = history'[j].load.parent
                     /\ history'[i].load.depth = history'[j].load.depth - 1
                     /\ \E k \in DOMAIN Followups[history'[j].load.parent] :
                           Followups[history'[j].load.parent][k].to = history'[j].load.event
    <3>1. CASE j = n + 1
      <4>1. HasCause(load)
        BY <1>1, <2>1, <3>1 DEF Fits
      <4> QED BY <1>1, <3>1, <4>1 DEF HasCause
    <3>2. CASE j \in 1 .. n
      <4>1. history'[j] = history[j] /\ \A i \in 1 .. j - 1 : i \in 1 .. n /\ history'[i] = history[i]
        BY <1>1, <3>2
      <4> QED BY <1>1, <2>1, <3>2, <4>1 DEF CascadeInv, CascadeIsAForest
    <3> QED BY <1>1, <3>1, <3>2
  <2> QED BY <1>1, <2>1 DEF CascadeIsAForest
<1>8. CooldownKept'
  <2>1. ASSUME NEW i \in 1 .. n + 1, NEW j \in 1 .. n + 1, i < j, history'[j].load.kind # "scripted",
               Category[history'[i].load.event] = Category[history'[j].load.event]
        PROVE  history'[j].tick - history'[i].tick >= Cooldown[history'[j].load.event]
    <3>1. i \in 1 .. n /\ history'[i] = history[i]
      BY <1>1, <2>1
    <3>2. CASE j = n + 1
      <4>1. ~CoolsDown(load.event)
        BY <1>1, <2>1, <3>2
      <4>2. lastCat[Category[load.event]] >= history[i].tick /\ history[i].tick \in Nat
            /\ lastCat[Category[load.event]] \in Int
        <5>1. Category[history[i].load.event] = Category[load.event]
          BY <1>1, <2>1, <3>1, <3>2
        <5>2. Category[load.event] \in Kinds0
          BY <1>1 DEF Kinds0
        <5>3. lastCat[Category[load.event]] \in Int
          BY <5>2, CascadeAssumption DEF CascadeInv, HistoryTyped
        <5> QED BY <1>2, <1>5, <3>1, <5>1, <5>3
      <4>3. ~(Today - lastCat[Category[load.event]] < Cooldown[load.event])
        BY <4>1, <4>2 DEF CoolsDown
      <4>4. Cooldown[load.event] \in Nat
        BY <1>1, CascadeAssumption
      <4>5. Today - history[i].tick >= Cooldown[load.event]
        BY ONLY <1>1, <4>2, <4>3, <4>4
      <4> QED BY <1>1, <3>1, <3>2, <4>5
    <3>3. CASE j \in 1 .. n
      BY <1>1, <2>1, <3>1, <3>3 DEF CascadeInv, CooldownKept
    <3> QED BY <1>1, <3>2, <3>3
  <2> QED BY <1>1, <2>1 DEF CooldownKept
<1>9. HeadlinesSplit'
  <2>1. Horizon' = Today /\ Horizon = Today
    BY DEF Horizon, Today
  <2> DEFINE new(k) == history'[k].tick + Lag[history'[k].load.event]
  <2>2. new(n + 1) = Today + Lag[load.event] /\ new(n + 1) >= Today /\ ~(new(n + 1) < Today)
    <3>1. Lag[load.event] \in Nat
      BY <1>1, CascadeAssumption
    <3>2. new(n + 1) = Today + Lag[load.event]
      BY <1>1
    <3> QED BY <1>1, <3>1, <3>2
  <2>3. \A k \in 1 .. n : new(k) = OutAt(k)
    BY <1>1 DEF OutAt
  <2>5. headlines' = headlines \cup {[node |-> n + 1, at |-> new(n + 1)]}
    BY <1>0, <2>2 DEF Fire
  <2>10. 1 .. n + 1 = (1 .. n) \cup {n + 1}
    BY <1>0
  <2>11. published' = {[node |-> k, tick |-> OutAt(k)] : k \in {j \in 1 .. n : OutAt(j) < Today}}
         /\ headlines = {[node |-> k, at |-> OutAt(k)] : k \in {j \in 1 .. n : OutAt(j) >= Today}}
    BY <1>1, <2>1 DEF CascadeInv, HeadlinesSplit
  <2>12. published' = {[node |-> k, tick |-> new(k)] : k \in {j \in 1 .. n + 1 : new(j) < Today}}
    <3> HIDE DEF new
    <3>1. {j \in 1 .. n + 1 : new(j) < Today} = {j \in 1 .. n : OutAt(j) < Today}
      BY <2>2, <2>3, <2>10
    <3> QED BY <2>3, <2>11, <3>1
  <2>13. headlines' = {[node |-> k, at |-> new(k)] : k \in {j \in 1 .. n + 1 : new(j) >= Today}}
    <3> HIDE DEF new
    <3>1. {j \in 1 .. n + 1 : new(j) >= Today} = {j \in 1 .. n : OutAt(j) >= Today} \cup {n + 1}
      BY <2>2, <2>3, <2>10
    <3> DEFINE S == {j \in 1 .. n : OutAt(j) >= Today}
    <3>2. headlines = {[node |-> k, at |-> new(k)] : k \in S}
      BY <2>3, <2>11
    <3>3. headlines' = {[node |-> k, at |-> new(k)] : k \in S \cup {n + 1}}
      <4> HIDE DEF S
      <4> QED BY <2>5, <3>2
    <3> QED BY <3>1, <3>3
  <2>14. \A k : OutAt(k)' = new(k)
    BY DEF OutAt
  <2> QED
    <3> HIDE DEF new
    <3> QED BY <1>1, <2>1, <2>12, <2>13, <2>14 DEF HeadlinesSplit
<1> QED BY <1>6, <1>7, <1>8, <1>9

ScriptedAt(t) == {k \in DOMAIN history : history[k].tick = t /\ history[k].load.kind = "scripted"}

\* Nothing fires any more on a tick that had no room for a scripted event.
LEMMA FireRefused ==
    ASSUME CascadeInv, NEW load \in Loads, stage # "idle", Fire(load), clock' = clock, refused' = refused,
           Cardinality(Firings(Today)) < MaxConcurrent
    PROVE  RefusedInv'
<1>0. PICK n \in Nat : n = Len(history)
  BY FireAppends
<1>1. /\ DOMAIN history' = 1 .. n + 1 /\ DOMAIN history = 1 .. n
      /\ \A i \in 1 .. n : history'[i] = history[i]
      /\ history'[n + 1].tick = Today
  BY <1>0, FireAppends
<1>2. ASSUME NEW r \in refused, r.load.kind = "scripted"
      PROVE  Cardinality(ScriptedAt(r.tick)') = MaxConcurrent
  <2>1. Cardinality(ScriptedAt(r.tick)) = MaxConcurrent
    BY <1>2 DEF CascadeInv, RefusedInv, ScriptedComesFirst, ScriptedAt
  <2>2. r.tick # Today
    <3> SUFFICES ASSUME r.tick = Today PROVE FALSE
      OBVIOUS
    <3>1. ScriptedAt(r.tick) \in SUBSET Firings(Today)
      BY DEF ScriptedAt, Firings
    <3>2. IsFiniteSet(Firings(Today))
      BY FiringsFinite DEF CascadeInv
    <3>3. Cardinality(ScriptedAt(r.tick)) =< Cardinality(Firings(Today)) /\ Cardinality(Firings(Today)) \in Nat
      BY <3>1, <3>2, FS_Subset, FS_CardinalityType
    <3>4. MaxConcurrent \in Nat
      BY CascadeAssumption
    <3> QED BY <2>1, <3>3, <3>4
  <2>3. ScriptedAt(r.tick)' = ScriptedAt(r.tick)
    BY <1>0, <1>1, <2>2 DEF ScriptedAt
  <2> QED BY <2>1, <2>3
<1>3. ScriptedComesFirst'
  BY <1>2 DEF ScriptedComesFirst, ScriptedAt
<1> QED BY <1>3 DEF CascadeInv, RefusedInv

\* A due event that is refused although it ignores its cooldown finds the tick full, and
\* full of its like.
LEMMA RefusalKeeps ==
    ASSUME CascadeInv, stage = "due", NEW load, due # <<>>, load = Head(due),
           ~MayFire(load.event, load.depth, IgnoresCooldown(load)),
           refused' = refused \cup {[load |-> load, tick |-> Today]}, UNCHANGED <<clock, history>>
    PROVE  RefusedInv'
<1>1. load = due[1] /\ 1 \in DOMAIN due /\ load \in Payload
  BY DEF CascadeInv, DueInv
<1>2. Today \in Nat /\ Today < clock
  BY ClockTyped
<1>3. load.depth =< MaxDepth
  <2>1. load.depth + Height[load.event] =< MaxDepth
    BY <1>1 DEF CascadeInv, DueInv, Fits
  <2>2. load.depth \in Nat /\ load.event \in Catalog
    BY <1>1 DEF Payload
  <2>3. Height[load.event] \in Nat /\ MaxDepth \in Nat
    BY <2>2, HeightTyped
  <2> QED BY <2>1, <2>2, <2>3
<1>4. ASSUME load.kind = "scripted" PROVE Cardinality(ScriptedAt(Today)) = MaxConcurrent
  <2>1. ~(Concurrent(Today) < MaxConcurrent)
    BY <1>3, <1>4 DEF MayFire, IgnoresCooldown
  <2>2. ScriptedAt(Today) = Firings(Today)
    BY <1>1, <1>4 DEF CascadeInv, DueInv, ScriptedAt, Firings
  <2>3. Concurrent(Today) = Cardinality(Firings(Today)) /\ Cardinality(Firings(Today)) =< MaxConcurrent
    BY <1>2 DEF Concurrent, Firings, CascadeInv, NeverMore
  <2>4. Cardinality(Firings(Today)) \in Nat /\ MaxConcurrent \in Nat
    BY FiringsFinite, FS_CardinalityType, CascadeAssumption DEF CascadeInv
  <2> QED BY <2>1, <2>2, <2>3, <2>4
<1>5. ScriptedComesFirst'
  <2>1. ASSUME NEW r \in refused', r.load.kind = "scripted"
        PROVE  Cardinality(ScriptedAt(r.tick)) = MaxConcurrent
    <3>1. CASE r \in refused
      BY <2>1, <3>1 DEF CascadeInv, RefusedInv, ScriptedComesFirst, ScriptedAt
    <3>2. CASE r = [load |-> load, tick |-> Today]
      BY <1>4, <2>1, <3>2
    <3> QED BY <3>1, <3>2
  <2> QED BY <2>1 DEF ScriptedComesFirst, ScriptedAt
<1> QED BY <1>1, <1>2, <1>3, <1>5 DEF CascadeInv, RefusedInv

-----------------------------------------------------------------------------
(* The queue. *)

\* Numbers given to a set in the order of its members are all different.
LEMMA NumbersDiffer ==
    ASSUME NEW T, T \subseteq Int, IsFiniteSet(T), NEW k \in T
    PROVE  /\ Cardinality({j \in T : j < k}) \in Nat /\ Cardinality({j \in T : j < k}) < Cardinality(T)
           /\ Cardinality(T) \in Nat
           /\ \A l \in T : l < k => Cardinality({j \in T : j < l}) < Cardinality({j \in T : j < k})
<1> DEFINE L(x) == {j \in T : j < x}
<1>1. \A x \in T : IsFiniteSet(L(x)) /\ Cardinality(L(x)) \in Nat
  BY FS_Subset, FS_CardinalityType
<1>2. Cardinality(T) \in Nat
  BY FS_CardinalityType
<1>3. ASSUME NEW x \in T, NEW U, IsFiniteSet(U), L(x) \subseteq U, x \in U
      PROVE  Cardinality(L(x)) < Cardinality(U)
  <2>1. x \notin L(x) /\ L(x) \cup {x} \in SUBSET U
    BY <1>3
  <2> HIDE DEF L
  <2>2. Cardinality(L(x) \cup {x}) = Cardinality(L(x)) + 1
    BY <1>1, <2>1, FS_AddElement
  <2>3. Cardinality(L(x) \cup {x}) =< Cardinality(U) /\ Cardinality(U) \in Nat
    BY <1>3, <2>1, FS_Subset, FS_CardinalityType
  <2> QED BY <1>1, <2>2, <2>3
<1>4. Cardinality(L(k)) < Cardinality(T)
  BY <1>3
<1>5. ASSUME NEW l \in T, l < k PROVE Cardinality(L(l)) < Cardinality(L(k))
  <2>1. \A j \in T : j < l => j < k
    <3>1. k \in Int /\ l \in Int /\ \A j \in T : j \in Int
      OBVIOUS
    <3> QED BY <1>5, <3>1
  <2>2. L(l) \subseteq L(k) /\ l \in L(k)
    BY <1>5, <2>1
  <2>3. IsFiniteSet(L(k))
    BY <1>1
  <2> HIDE DEF L
  <2> QED BY <1>3, <2>2, <2>3
<1> QED BY <1>1, <1>2, <1>4, <1>5

\* What a firing schedules is queued for a later tick, behind its cause and with room below.
LEMMA SchedulingKeeps ==
    ASSUME CascadeInv, NEW load \in Loads, stage # "idle", Fire(load), clock' = clock,
           ScheduleFollowups(load), Fits(load)
    PROVE  QueueInv' /\ pressure' \subseteq [event : Catalog, tick : Nat]
<1>0. PICK n \in Nat : n = Len(history)
  BY FireAppends
<1>1. /\ DOMAIN history' = 1 .. n + 1 /\ DOMAIN history = 1 .. n
      /\ \A i \in 1 .. n : history'[i] = history[i]
      /\ history'[n + 1].tick = Today /\ history'[n + 1].load = load
      /\ Today \in Nat /\ load.event \in Catalog
  BY <1>0, FireAppends
<1>2. /\ load.depth \in Nat /\ clock = Today + 1 /\ nextSeq \in Nat /\ IsFiniteSet(queue)
      /\ load.depth + Height[load.event] =< MaxDepth
  <2>1. clock = Today + 1
    BY ClockTyped
  <2>2. load.depth \in Nat
    BY DEF Loads
  <2> QED BY <2>1, <2>2 DEF CascadeInv, QueueInv, Fits
<1> DEFINE F == Followups[load.event]
<1>3. /\ F \in Seq([to : Catalog, delays : SUBSET Nat]) /\ DOMAIN F = 1 .. Len(F) /\ Len(F) \in Nat
      /\ \A k \in DOMAIN F : F[k].to \in Catalog /\ F[k].delays \subseteq Nat
  <2>1. F \in Seq([to : Catalog, delays : SUBSET Nat])
    BY <1>1, CascadeAssumption
  <2> DEFINE Ty == [to : Catalog, delays : SUBSET Nat]
  <2> HIDE DEF F
  <2>2. DOMAIN F = 1 .. Len(F) /\ Len(F) \in Nat
    BY <2>1
  <2>3. \A k \in DOMAIN F : F[k] \in Ty
    <3>1. F \in Seq(Ty)
      BY <2>1
    <3> HIDE DEF Ty
    <3> QED BY <3>1
  <2> QED BY <2>1, <2>2, <2>3
<1>4. pressure' \subseteq [event : Catalog, tick : Nat]
  BY <1>1, <1>3 DEF ScheduleFollowups, CascadeInv, RestTyped
<1>5. PICK T \in SUBSET Open(load.event) :
          \E d \in [T -> UNION {F[k].delays : k \in T}] :
             /\ \A k \in T : d[k] \in F[k].delays
             /\ queue' = queue \cup
                  {[at |-> Today + Delay(d[k]), prio |-> 1, seq |-> Number(T, k),
                    load |-> FollowUp(load, k, Delay(d[k]))] : k \in T}
             /\ nextSeq' = nextSeq + Cardinality(T)
  BY DEF ScheduleFollowups
<1>6. PICK d \in [T -> UNION {F[k].delays : k \in T}] :
             /\ \A k \in T : d[k] \in F[k].delays
             /\ queue' = queue \cup
                  {[at |-> Today + Delay(d[k]), prio |-> 1, seq |-> Number(T, k),
                    load |-> FollowUp(load, k, Delay(d[k]))] : k \in T}
             /\ nextSeq' = nextSeq + Cardinality(T)
  BY <1>5
<1>7. T \in SUBSET (1 .. Len(F)) /\ T \subseteq Int /\ IsFiniteSet(T)
  <2>1. T \in SUBSET (1 .. Len(F))
    BY <1>3 DEF Open
  <2> HIDE DEF F
  <2>2. IsFiniteSet(1 .. Len(F))
    BY <1>3, FS_Interval
  <2> QED BY <1>3, <2>1, <2>2, FS_Subset
<1> DEFINE item(k) == [at |-> Today + Delay(d[k]), prio |-> 1, seq |-> Number(T, k),
                       load |-> FollowUp(load, k, Delay(d[k]))]
           Items == {item(k) : k \in T}
<1>8. queue' = queue \cup Items
  BY <1>6
<1>9. ASSUME NEW k \in T
      PROVE  /\ Delay(d[k]) \in Nat /\ Delay(d[k]) >= 1
             /\ Number(T, k) \in Nat /\ nextSeq =< Number(T, k) /\ Number(T, k) < nextSeq'
             /\ \A l \in T : l < k => Number(T, l) < Number(T, k)
  <2>1. d[k] \in Nat
    BY <1>3, <1>6, <1>7
  <2>2. Delay(d[k]) \in Nat /\ Delay(d[k]) >= 1
    BY <2>1 DEF Delay
  <2>3. /\ Cardinality({j \in T : j < k}) \in Nat /\ Cardinality({j \in T : j < k}) < Cardinality(T)
        /\ Cardinality(T) \in Nat
        /\ \A l \in T : l < k => Cardinality({j \in T : j < l}) < Cardinality({j \in T : j < k})
    <3> HIDE DEF F
    <3> QED BY <1>7, NumbersDiffer
  <2>4. \A l \in T : Cardinality({j \in T : j < l}) \in Nat
    <3> HIDE DEF F
    <3> QED BY <1>7, NumbersDiffer
  <2>5. \A l \in T : Number(T, l) = nextSeq + Cardinality({j \in T : j < l})
    BY DEF Number
  <2>6. nextSeq \in Nat /\ nextSeq' = nextSeq + Cardinality(T)
    BY <1>2, <1>6
  <2> DEFINE c(l) == Cardinality({j \in T : j < l})
  <2>7. k \in T /\ c(k) \in Nat /\ c(k) < Cardinality(T) /\ Cardinality(T) \in Nat
        /\ \A l \in T : (l < k => c(l) < c(k)) /\ c(l) \in Nat /\ Number(T, l) = nextSeq + c(l)
    BY <2>3, <2>4, <2>5
  <2> HIDE DEF c
  <2> QED BY ONLY <2>2, <2>6, <2>7
<1>10. ASSUME NEW k \in T
       PROVE  /\ item(k) \in QueueItem /\ item(k).seq \in Nat /\ nextSeq =< item(k).seq /\ item(k).seq < nextSeq'
              /\ item(k).at >= clock' /\ item(k).load.at = item(k).at
              /\ item(k).prio # 0 /\ item(k).load.kind = "followup"
              /\ \A x : x = item(k).load => Fits(x)'
  <2>0. Delay(d[k]) \in Nat /\ Delay(d[k]) >= 1
    BY <1>9
  <2>1. k \in DOMAIN F
    BY <1>3, <1>7
  <2>2. FollowUp(load, k, Delay(d[k])) \in Payload
    <3>1. load.event \in 0 .. N
      BY <1>1, CascadeAssumption DEF Catalog
    <3>2. Today + Delay(d[k]) \in Nat /\ load.depth + 1 \in Nat
      BY ONLY <1>1, <1>2, <2>0
    <3> QED BY <1>3, <2>1, <3>1, <3>2 DEF FollowUp, Payload
  <2>3. item(k) \in QueueItem
    BY <1>1, <1>9, <2>2 DEF QueueItem
  <2>4. Today + Delay(d[k]) >= clock' /\ Today < Today + Delay(d[k])
    BY <1>1, <1>2, <2>0
  <2>5. /\ item(k).load.kind = "followup" /\ item(k).load.event = F[k].to
        /\ item(k).load.depth = load.depth + 1 /\ item(k).load.parent = load.event
        /\ item(k).load.at = Today + Delay(d[k])
    BY DEF FollowUp
  <2>8. ASSUME NEW up, up = item(k).load PROVE Fits(up)'
    <3> HIDE DEF item, F
    <3>5. /\ up.kind = "followup" /\ up.event = F[k].to /\ up.depth = load.depth + 1 /\ up.parent = load.event
          /\ up.at = Today + Delay(d[k])
      BY <2>5, <2>8
    <3>6. HasCause(up)'
      <4>1. n + 1 \in DOMAIN history'
        BY <1>0, <1>1
      <4>2. /\ history'[n + 1].tick < up.at /\ history'[n + 1].load.event = up.parent
            /\ history'[n + 1].load.depth = up.depth - 1
        BY <1>1, <1>2, <2>4, <3>5
      <4>3. k \in DOMAIN Followups[up.parent] /\ Followups[up.parent][k].to = up.event
        BY <2>1, <3>5 DEF F
      <4> QED BY <4>1, <4>2, <4>3 DEF HasCause
    <3>7. up.depth + Height[up.event] =< MaxDepth
      <4>1. Height[F[k].to] < Height[load.event]
        BY <1>1, <2>1, CascadeAssumption DEF Subcritical, F
      <4>2. Height[F[k].to] \in Nat /\ Height[load.event] \in Nat /\ MaxDepth \in Nat
        BY <1>1, <1>3, <2>1, HeightTyped
      <4> QED BY <1>2, <3>5, <4>1, <4>2
    <3> QED BY <3>6, <3>7 DEF Fits
  <2> QED BY <1>9, <2>3, <2>4, <2>5, <2>8
<1>11. \A i \in queue : Fits(i.load)' /\ i.seq < nextSeq /\ i.seq \in Nat
  <2>1. \A i \in queue : Fits(i.load) /\ i.seq < nextSeq /\ i \in QueueItem
    BY DEF CascadeInv, QueueInv
  <2>2. DOMAIN history \subseteq DOMAIN history' /\ \A i \in DOMAIN history : history'[i] = history[i]
    BY <1>1
  <2>3. \A i \in queue : Fits(i.load)'
    BY <2>1, <2>2, CausesStay
  <2> QED BY <2>1, <2>3 DEF QueueItem
<1>12. nextSeq' \in Nat /\ nextSeq =< nextSeq'
  <2>1. Cardinality(T) \in Nat
    BY <1>7, FS_CardinalityType
  <2> QED BY <1>2, <1>6, <2>1
<1>13. IsFiniteSet(Items)
  <2> HIDE DEF item
  <2> DEFINE f == [k \in T |-> item(k)]
  <2>1. f \in Surjection(T, Items)
    BY DEF Surjection
  <2> HIDE DEF f, Items
  <2> QED BY <1>7, <2>1, FS_Surjection
<1>14. IsFiniteSet(queue')
  <2> HIDE DEF Items
  <2> QED BY <1>2, <1>8, <1>13, FS_Union
<1>15. ASSUME NEW i \in queue', NEW j \in queue', i.seq = j.seq PROVE i = j
  <2> HIDE DEF item
  <2>1. CASE i \in queue /\ j \in queue
    BY <1>15, <2>1 DEF CascadeInv, QueueInv
  <2>2. CASE i \in queue /\ j \in Items
    <3>1. PICK k \in T : j = item(k)
      BY <2>2
    <3> QED BY <1>2, <1>10, <1>11, <1>15, <2>2, <3>1
  <2>3. CASE i \in Items /\ j \in queue
    <3>1. PICK k \in T : i = item(k)
      BY <2>3
    <3> QED BY <1>2, <1>10, <1>11, <1>15, <2>3, <3>1
  <2>4. CASE i \in Items /\ j \in Items
    <3>1. PICK k \in T, l \in T : i = item(k) /\ j = item(l)
      BY <2>4
    <3>2. item(k).seq = Number(T, k) /\ item(l).seq = Number(T, l)
      BY DEF item
    <3>3. ~(k < l) /\ ~(l < k)
      BY <1>9, <1>15, <3>1, <3>2
    <3>4. k = l
      BY <1>7, <3>3
    <3> QED BY <3>1, <3>4
  <2> QED BY <1>8, <2>1, <2>2, <2>3, <2>4
<1>16. ASSUME NEW i \in queue'
       PROVE  /\ i \in QueueItem /\ i.seq < nextSeq' /\ i.at >= clock' /\ i.load.at = i.at
              /\ i.prio = 0 <=> i.load.kind = "scripted"
              /\ Fits(i.load)'
  <2> HIDE DEF item
  <2>1. CASE i \in queue
    <3>1. /\ i \in QueueItem /\ i.seq < nextSeq /\ i.at >= clock /\ i.load.at = i.at
          /\ i.prio = 0 <=> i.load.kind = "scripted"
      BY <2>1 DEF CascadeInv, QueueInv
    <3>2. i.seq \in Nat /\ Fits(i.load)'
      BY <1>11, <2>1
    <3> QED BY <1>2, <1>12, <3>1, <3>2
  <2>2. CASE i \in Items
    <3>1. PICK k \in T : i = item(k)
      BY <2>2
    <3>2. i.load.kind # "scripted" /\ i.prio # 0
      BY <1>10, <3>1
    <3>3. Fits(i.load)'
      BY <1>10, <3>1
    <3> QED BY <1>10, <3>1, <3>2, <3>3
  <2> QED BY <1>8, <2>1, <2>2
<1>17. QueueInv'
  BY <1>12, <1>14, <1>15, <1>16 DEF QueueInv
<1> QED BY <1>4, <1>17

\* What is popped is all that is due, in the order of the heap.
LEMMA PoppedInOrder ==
    ASSUME NEW S, S \subseteq QueueItem, IsFiniteSet(S), \A i, j \in S : i.seq = j.seq => i = j
    PROVE  /\ Cardinality(S) \in Nat
           /\ \E f \in [1 .. Cardinality(S) -> S] :
                 /\ InOrder(S) = [k \in 1 .. Cardinality(S) |-> f[k].load]
                 /\ \A k, l \in 1 .. Cardinality(S) : k < l => Before(f[k], f[l])
<1> DEFINE R(i) == {j \in S : Before(j, i)}
           rank(i) == Cardinality(R(i))
<1>1. \A i \in S : i.at \in Int /\ i.prio \in Int /\ i.seq \in Int
  BY DEF QueueItem
<1>2. /\ \A i \in S : ~Before(i, i)
      /\ \A i, j, k \in S : Before(i, j) /\ Before(j, k) => Before(i, k)
      /\ \A i, j \in S : i # j => Before(i, j) \/ Before(j, i)
  BY <1>1 DEF Before
<1>3. PICK n \in Nat : n = Cardinality(S)
  BY FS_CardinalityType
<1>4. \A i \in S : IsFiniteSet(R(i)) /\ rank(i) \in Nat
  BY FS_Subset, FS_CardinalityType
<1>5. ASSUME NEW i \in S, NEW U, IsFiniteSet(U), R(i) \subseteq U, i \in U
      PROVE  rank(i) < Cardinality(U)
  <2>1. i \notin R(i) /\ R(i) \cup {i} \in SUBSET U
    BY <1>2, <1>5
  <2> HIDE DEF R
  <2>2. Cardinality(R(i) \cup {i}) = Cardinality(R(i)) + 1
    BY <1>4, <2>1, FS_AddElement
  <2>3. Cardinality(R(i) \cup {i}) =< Cardinality(U) /\ Cardinality(U) \in Nat
    BY <1>5, <2>1, FS_Subset, FS_CardinalityType
  <2> QED BY <1>4, <2>2, <2>3
<1>6. \A i \in S : rank(i) < n
  <2>1. \A i \in S : R(i) \subseteq S
    OBVIOUS
  <2> HIDE DEF R, rank
  <2> QED BY <1>3, <1>5, <2>1
<1>7. ASSUME NEW i \in S, NEW j \in S, Before(i, j) PROVE rank(i) < rank(j)
  <2>1. R(i) \subseteq R(j) /\ i \in R(j)
    BY <1>2, <1>7
  <2>2. IsFiniteSet(R(j))
    BY <1>4
  <2>3. rank(i) < Cardinality(R(j))
    <3> HIDE DEF R, rank
    <3> QED BY <1>5, <2>1, <2>2
  <2> QED BY <2>3
<1>8. ASSUME NEW m \in 0 .. n - 1 PROVE \E i \in S : rank(i) = m
  <2> SUFFICES ASSUME \A i \in S : rank(i) # m PROVE FALSE
    OBVIOUS
  <2> DEFINE T == (0 .. n - 1) \ {m}
             g == [i \in S |-> rank(i)]
  <2>1. IsFiniteSet(0 .. n - 1) /\ Cardinality(0 .. n - 1) = n
    <3>1. PICK a \in Int, b \in Int : a = 0 /\ b = n - 1
      BY <1>3
    <3>2. IsFiniteSet(a .. b) /\ Cardinality(a .. b) = IF a > b THEN 0 ELSE b - a + 1
      BY ONLY FS_Interval
    <3>3. Cardinality(a .. b) = n
      BY ONLY <1>3, <3>1, <3>2
    <3> QED BY <3>1, <3>2, <3>3
  <2>2. IsFiniteSet(T) /\ Cardinality(T) < Cardinality(S)
    <3> DEFINE A == 0 .. n - 1
    <3>1. m \in A /\ IsFiniteSet(A) /\ Cardinality(A) = n
      BY <1>8, <2>1
    <3> HIDE DEF A
    <3>2. IsFiniteSet(A \ {m}) /\ Cardinality(A \ {m}) = n - 1
      BY <3>1, FS_RemoveElement
    <3>3. IsFiniteSet(T) /\ Cardinality(T) = n - 1
      BY <3>2 DEF A
    <3> HIDE DEF T
    <3> QED BY <1>3, <3>3
  <2>3. g \in [S -> T]
    <3> HIDE DEF rank
    <3>1. \A i \in S : rank(i) \in 0 .. n - 1 /\ rank(i) # m
      <4> TAKE i \in S
      <4>1. rank(i) \in Nat /\ rank(i) < n
        BY <1>4, <1>6
      <4> QED BY ONLY <1>3, <4>1, \A j \in S : rank(j) # m
    <3> QED BY <3>1
  <2>4. PICK x \in S, y \in S : x # y /\ g[x] = g[y]
    <3> HIDE DEF T, g
    <3> QED BY <2>2, <2>3, FS_PigeonHole
  <2> HIDE DEF rank
  <2>5. rank(x) < rank(y) \/ rank(y) < rank(x)
    BY <1>2, <1>7, <2>4
  <2>6. rank(x) = rank(y)
    BY <2>4
  <2>7. rank(x) \in Nat /\ rank(y) \in Nat
    BY <1>4
  <2> QED BY ONLY <2>5, <2>6, <2>7
<1> DEFINE f == [k \in 1 .. n |-> CHOOSE i \in S : rank(i) = k - 1]
<1>9. ASSUME NEW k \in 1 .. n PROVE f[k] \in S /\ rank(f[k]) = k - 1
  <2>1. k - 1 \in 0 .. n - 1
    BY <1>3
  <2> HIDE DEF rank
  <2> QED BY <1>8, <2>1
<1>10. f \in [1 .. n -> S]
  <2> HIDE DEF rank
  <2> QED BY <1>9
<1>11. InOrder(S) = [k \in 1 .. n |-> f[k].load]
  BY <1>3 DEF InOrder
<1>12. ASSUME NEW k \in 1 .. n, NEW l \in 1 .. n, k < l PROVE Before(f[k], f[l])
  <2> HIDE DEF f, rank
  <2>1. rank(f[k]) = k - 1 /\ rank(f[l]) = l - 1 /\ f[k] \in S /\ f[l] \in S
    BY <1>9
  <2>2. rank(f[k]) < rank(f[l]) /\ rank(f[k]) \in Nat /\ rank(f[l]) \in Nat
    BY <1>4, <1>12, <2>1
  <2>3. f[k] # f[l] /\ ~Before(f[l], f[k])
    BY <1>7, <2>1, <2>2
  <2> QED BY <1>2, <2>1, <2>3
<1> HIDE DEF f
<1> QED BY <1>3, <1>10, <1>11, <1>12

-----------------------------------------------------------------------------
(* The steps. *)

\* A step that records no firing keeps what is true of the history.
LEMMA HistoryStays ==
    ASSUME CascadeInv, UNCHANGED <<history, lastId, lastCat>>, clock' \in Nat, clock' >= clock
    PROVE  HistoryTyped' /\ CascadeIsAForest' /\ NeverMore' /\ CooldownKept'
<1>1. \A h \in DOMAIN history : history[h].tick \in Nat /\ history[h].tick < clock
                                /\ history[h].tick =< lastCat[Category[history[h].load.event]]
  BY OutTyped DEF CascadeInv, HistoryTyped
<1>2. clock \in Nat
  BY ClockTyped
<1>3. \A h \in DOMAIN history : history[h].tick < clock' /\ history[h].tick =< lastCat[Category[history[h].load.event]]
  BY <1>1, <1>2
<1>4. HistoryTyped'
  BY <1>3 DEF CascadeInv, HistoryTyped
<1>5. CascadeIsAForest'
  BY DEF CascadeInv, CascadeIsAForest
<1>6. NeverMore'
  BY DEF CascadeInv, NeverMore, Firings
<1>7. CooldownKept'
  BY DEF CascadeInv, CooldownKept
<1> QED BY <1>4, <1>5, <1>6, <1>7

\* One that also leaves alone what waits, what was refused or the headlines keeps that.
LEMMA OthersStay ==
    ASSUME CascadeInv, UNCHANGED <<history, clock>>
    PROVE  /\ UNCHANGED <<queue, nextSeq>> => QueueInv'
           /\ UNCHANGED <<due, stage>> => DueInv'
           /\ UNCHANGED refused => RefusedInv'
           /\ UNCHANGED <<headlines, published>> /\ Horizon' = Horizon => HeadlinesSplit'
<1>1. ASSUME UNCHANGED <<queue, nextSeq>> PROVE QueueInv'
  BY <1>1 DEF CascadeInv, QueueInv, Fits, HasCause
<1>2. ASSUME UNCHANGED <<due, stage>> PROVE DueInv'
  BY <1>2 DEF CascadeInv, DueInv, Fits, HasCause, Today
<1>3. ASSUME UNCHANGED refused PROVE RefusedInv'
  BY <1>3 DEF CascadeInv, RefusedInv, ScriptedComesFirst
<1>4. ASSUME UNCHANGED <<headlines, published>>, Horizon' = Horizon PROVE HeadlinesSplit'
  BY <1>4 DEF CascadeInv, HeadlinesSplit, OutAt
<1> QED BY <1>1, <1>2, <1>3, <1>4

\* A scripted event is queued among the others, under a number of its own.
LEMMA ScriptKeeps ==
    ASSUME CascadeInv, NEW e \in Scripts, NEW at \in clock .. LastTick - 1, ScriptEvent(e, at)
    PROVE  CascadeInv'
<1> DEFINE load == [kind |-> "scripted", event |-> e, depth |-> 0, parent |-> 0, at |-> at]
           x == [at |-> at, prio |-> 0, seq |-> nextSeq, load |-> load]
<1>1. clock \in Nat /\ at \in Nat /\ at >= clock /\ nextSeq \in Nat /\ e \in Catalog /\ 0 \in 0 .. N
  <2>1. clock \in Nat /\ LastTick \in Nat
    BY ClockTyped
  <2>2. at \in Nat /\ at >= clock
    BY ONLY <2>1, at \in clock .. LastTick - 1
  <2>3. N \in Nat /\ e \in Catalog
    BY CascadeAssumption
  <2>4. nextSeq \in Nat
    BY DEF CascadeInv, QueueInv
  <2> QED BY <2>1, <2>2, <2>3, <2>4
<1>2. x \in QueueItem /\ x.seq = nextSeq /\ x.at = at /\ x.load.at = at /\ x.prio = 0
      /\ x.load.kind = "scripted" /\ x.load.depth = 0 /\ x.load.event = e
  BY <1>1 DEF QueueItem, Payload
<1>3. queue' = queue \cup {x} /\ nextSeq' = nextSeq + 1 /\ UNCHANGED <<clock, history>>
  BY DEF ScriptEvent, fired
<1>4. Fits(x.load)
  BY <1>1, <1>2, HeightTyped DEF Fits
<1>5. \A i \in queue : i.seq < nextSeq /\ i.seq \in Nat
  BY DEF CascadeInv, QueueInv, QueueItem
<1>6. QueueInv'
  <2> HIDE DEF x
  <2>1. IsFiniteSet(queue') /\ nextSeq' \in Nat /\ queue' \subseteq QueueItem
    BY <1>1, <1>2, <1>3, FS_AddElement DEF CascadeInv, QueueInv
  <2>2. \A i, j \in queue' : i.seq = j.seq => i = j
    BY <1>1, <1>2, <1>3, <1>5 DEF CascadeInv, QueueInv
  <2>3. \A y : Fits(y)' <=> Fits(y)
    BY <1>3 DEF Fits, HasCause
  <2>4. \A i \in queue' : /\ i.seq < nextSeq' /\ i.at >= clock' /\ i.load.at = i.at
                          /\ i.prio = 0 <=> i.load.kind = "scripted"
                          /\ Fits(i.load)'
    BY <1>1, <1>2, <1>3, <1>4, <1>5, <2>3 DEF CascadeInv, QueueInv
  <2> QED BY <2>1, <2>2, <2>4 DEF QueueInv
<1>7. RestTyped' /\ DueInv' /\ HistoryTyped' /\ CascadeIsAForest' /\ NeverMore' /\ CooldownKept'
      /\ RefusedInv' /\ HeadlinesSplit'
  <2>1. RestTyped'
    BY CascadeAssumption DEF CascadeInv, ScriptEvent, RestTyped, Between
  <2>2. UNCHANGED <<clock, stage, due, drawn, history, lastId, lastCat, headlines, published, refused>>
    BY DEF ScriptEvent, fired
  <2>3. clock' \in Nat /\ clock' >= clock
    BY <1>1, <2>2
  <2>4. HistoryTyped' /\ CascadeIsAForest' /\ NeverMore' /\ CooldownKept'
    BY <2>2, <2>3, HistoryStays
  <2>5. Horizon' = Horizon
    BY <2>2 DEF Horizon, Today
  <2> QED BY <2>1, <2>2, <2>4, <2>5, OthersStay
<1> QED BY <1>6, <1>7 DEF CascadeInv

LEMMA SetControlKeeps ==
    ASSUME CascadeInv, NEW a \in Policymakers, NEW c \in Controls, SetControl(a, c)
    PROVE  CascadeInv'
<1>1. RestTyped'
  <2>1. /\ mode' = [mode EXCEPT ![a] = c]
        /\ \E t \in {0, clock, since[a]} : since' = [since EXCEPT ![a] = t]
        /\ UNCHANGED <<clock, stage, drawn, scripted, pressure>>
    BY DEF SetControl
  <2>2. clock \in 0 .. LastTick /\ 0 \in 0 .. LastTick /\ since[a] \in 0 .. LastTick
    BY CascadeAssumption DEF CascadeInv, RestTyped
  <2>3. mode' \in [Policymakers -> Controls] /\ since' \in [Policymakers -> 0 .. LastTick]
    BY <2>1, <2>2 DEF CascadeInv, RestTyped
  <2> QED BY <2>1, <2>3 DEF CascadeInv, RestTyped
<1>2. UNCHANGED <<clock, queue, nextSeq, stage, due, drawn, history, lastId, lastCat, headlines, published, refused>>
  BY DEF SetControl, fired
<1>3. clock' \in Nat /\ clock' >= clock
  BY <1>2, ClockTyped
<1>4. HistoryTyped' /\ CascadeIsAForest' /\ NeverMore' /\ CooldownKept'
  BY <1>2, <1>3, HistoryStays
<1>5. Horizon' = Horizon
  BY <1>2 DEF Horizon, Today
<1>6. QueueInv' /\ DueInv' /\ RefusedInv' /\ HeadlinesSplit'
  BY <1>2, <1>5, OthersStay
<1> QED BY <1>1, <1>4, <1>6 DEF CascadeInv

\* What makes the list of what is due what it should be after a step.
LEMMA DueMade ==
    ASSUME NEW n \in Nat, due' \in Seq(Payload), DOMAIN due' = 1 .. n, stage' = "due",
           \A k \in 1 .. n : due'[k].at = Today',
           \A k \in 1 .. n : \A x : x = due'[k] => Fits(x)',
           \A k \in 1 .. n, l \in 1 .. n : k < l /\ due'[l].kind = "scripted" => due'[k].kind = "scripted",
           \A k \in 1 .. n, h \in DOMAIN history' :
              due'[k].kind = "scripted" /\ history'[h].tick = Today' => history'[h].load.kind = "scripted"
    PROVE  DueInv'
<1>1. ASSUME NEW k \in DOMAIN due' PROVE Fits(due[k])'
  <2>1. PICK x : x = due'[k]
    OBVIOUS
  <2>2. Fits(x)'
    BY <2>1
  <2> QED BY <2>1, <2>2 DEF Fits, HasCause
<1> QED BY <1>1 DEF DueInv

\* What is popped is due today and sorted, scripted events first; nothing has fired today.
LEMMA AdvanceKeeps ==
    ASSUME CascadeInv, Advance
    PROVE  CascadeInv'
<1> DEFINE now == {i \in queue : i.at =< clock}
<1>1. /\ due' = InOrder(now) /\ queue' = queue \ now /\ clock' = clock + 1 /\ stage = "idle" /\ stage' = "due"
      /\ UNCHANGED <<nextSeq, drawn, history, lastId, lastCat, headlines, mode, since, pressure, published, refused, scripted>>
      /\ clock < LastTick
  BY DEF Advance, fired, Between
<1>2. clock \in Nat /\ Today' = clock /\ clock' \in 0 .. LastTick /\ clock' >= 1
  <2>1. Today' = clock' - 1 /\ clock' = clock + 1 /\ clock < LastTick
    BY <1>1 DEF Today
  <2>2. clock \in Nat /\ LastTick \in Nat
    BY ClockTyped
  <2> QED BY ONLY <2>1, <2>2
<1>3. RestTyped'
  BY <1>1, <1>2 DEF CascadeInv, RestTyped
<1>4. \A y : Fits(y)' <=> Fits(y)
  BY <1>1 DEF Fits, HasCause
<1>5. \A i \in queue : i \in QueueItem /\ i.at \in Nat /\ i.at >= clock /\ i.load.at = i.at /\ i.load \in Payload
                      /\ (i.prio = 0 <=> i.load.kind = "scripted") /\ i.prio \in {0, 1} /\ Fits(i.load)
                      /\ i.seq \in Nat
  <2>1. \A i \in queue : i \in QueueItem /\ i.at >= clock /\ i.load.at = i.at
                      /\ (i.prio = 0 <=> i.load.kind = "scripted") /\ Fits(i.load)
    BY DEF CascadeInv, QueueInv
  <2> QED BY <2>1 DEF QueueItem
<1>6. QueueInv'
  <2>1. IsFiniteSet(queue') /\ queue' \subseteq queue
    BY <1>1, FS_Subset DEF CascadeInv, QueueInv
  <2>2. \A i \in queue' : i.at >= clock'
    BY <1>1, <1>2, <1>5
  <2> QED BY <1>1, <1>4, <2>1, <2>2 DEF CascadeInv, QueueInv
<1>7. now \subseteq QueueItem /\ IsFiniteSet(now) /\ \A i, j \in now : i.seq = j.seq => i = j
  BY FS_Subset DEF CascadeInv, QueueInv
<1>8. PICK n \in Nat : n = Cardinality(now)
  <2> HIDE DEF now
  <2> QED BY <1>7, FS_CardinalityType
<1>9. PICK f \in [1 .. n -> now] :
          /\ InOrder(now) = [k \in 1 .. n |-> f[k].load]
          /\ \A k, l \in 1 .. n : k < l => Before(f[k], f[l])
  <2> HIDE DEF now
  <2> QED BY <1>7, <1>8, PoppedInOrder
<1>10. ASSUME NEW k \in 1 .. n
       PROVE  /\ f[k] \in queue /\ f[k].at = clock /\ due'[k] = f[k].load
  <2>1. f[k] \in queue /\ f[k].at =< clock
    BY <1>9
  <2>2. f[k].at = clock
    BY <1>2, <1>5, <2>1
  <2> QED BY <1>1, <1>9, <2>1, <2>2
<1>11. due' = [k \in 1 .. n |-> f[k].load] /\ DOMAIN due' = 1 .. n
  BY <1>1, <1>9
<1>12. due' \in Seq(Payload)
  BY <1>5, <1>8, <1>10, <1>11
<1>13. ASSUME NEW k \in 1 .. n, NEW l \in 1 .. n, k < l, due'[l].kind = "scripted"
       PROVE  due'[k].kind = "scripted"
  <2>1. Before(f[k], f[l])
    BY <1>9, <1>13
  <2>2. f[l].prio = 0 /\ f[k].prio \in {0, 1} /\ f[k].at = clock /\ f[l].at = clock
    BY <1>5, <1>10, <1>13
  <2>3. f[k].prio = 0
    BY <1>2, <2>1, <2>2 DEF Before
  <2> QED BY <1>5, <1>10, <2>3
<1>14. \A h \in DOMAIN history : history[h].tick < clock
  BY DEF CascadeInv, HistoryTyped
<1>15. \A h \in DOMAIN history : history[h].tick \in Nat
  BY OutTyped DEF CascadeInv
<1>16. DueInv'
  <2>1. \A k \in 1 .. n : due'[k].at = Today'
    <3> TAKE k \in 1 .. n
    <3>1. f[k].load.at = clock
      BY <1>5, <1>10
    <3> QED BY <1>2, <1>10, <3>1
  <2>2. \A k \in 1 .. n : \A x : x = due'[k] => Fits(x)'
    <3> TAKE k \in 1 .. n
    <3> SUFFICES ASSUME NEW x, x = due'[k] PROVE Fits(x)'
      OBVIOUS
    <3>1. Fits(x)
      BY <1>5, <1>10
    <3> QED BY <1>4, <3>1
  <2>3. \A h \in DOMAIN history' : history'[h].tick # Today'
    <3>1. history' = history /\ Today' = clock
      BY <1>1, <1>2
    <3>2. \A h \in DOMAIN history : history[h].tick # clock
      BY <1>2, <1>14, <1>15
    <3> QED BY ONLY <3>1, <3>2
  <2>4. stage' = "due"
    BY <1>1
  <2>5. \A k \in 1 .. n, l \in 1 .. n : k < l /\ due'[l].kind = "scripted" => due'[k].kind = "scripted"
    BY <1>13
  <2>6. \A k \in 1 .. n, h \in DOMAIN history' :
              due'[k].kind = "scripted" /\ history'[h].tick = Today' => history'[h].load.kind = "scripted"
    BY ONLY <2>3
  <2>7. DOMAIN due' = 1 .. n
    BY <1>11
  <2> HIDE DEF now
  <2> QED BY ONLY n \in Nat, <1>12, <2>1, <2>2, <2>4, <2>5, <2>6, <2>7, DueMade
<1>17. UNCHANGED <<history, lastId, lastCat>> /\ clock' \in Nat /\ clock' >= clock
  BY <1>1, <1>2
<1>18. HistoryTyped' /\ CascadeIsAForest' /\ NeverMore' /\ CooldownKept'
  BY <1>17, HistoryStays
<1>19. RefusedInv'
  <2>1. \A r \in refused : r.tick < clock'
    BY <1>1, <1>2 DEF CascadeInv, RefusedInv
  <2> QED BY <1>1, <2>1 DEF CascadeInv, RefusedInv, ScriptedComesFirst
<1>20. HeadlinesSplit'
  <2>1. Horizon' = clock /\ Horizon = clock
    BY <1>1, <1>2 DEF Horizon
  <2> QED BY <1>1, <2>1 DEF CascadeInv, HeadlinesSplit, OutAt
<1> QED BY <1>3, <1>6, <1>16, <1>18, <1>19, <1>20 DEF CascadeInv

\* A due payload or a draw that fires.
LEMMA FiringKeeps ==
    ASSUME CascadeInv, NEW load \in Loads, stage # "idle", stage' = stage, clock' = clock, Fits(load), load.at = Today,
           NEW ignore \in BOOLEAN, MayFire(load.event, load.depth, ignore), ignore => load.kind = "scripted",
           Fire(load), ScheduleFollowups(load), UNCHANGED <<published, refused>>
    PROVE  /\ HistoryTyped' /\ CascadeIsAForest' /\ CooldownKept' /\ HeadlinesSplit' /\ NeverMore'
           /\ RefusedInv' /\ QueueInv' /\ pressure' \subseteq [event : Catalog, tick : Nat]
<1>1. Cardinality(Firings(Today)) < MaxConcurrent
  BY DEF MayFire, Concurrent, Firings
<1>2. load.kind # "scripted" => ~CoolsDown(load.event)
  BY DEF MayFire
<1>3. HistoryTyped' /\ CascadeIsAForest' /\ CooldownKept' /\ HeadlinesSplit'
  BY <1>2, FireRecorded
<1>4. NeverMore'
  BY <1>1, FireCounts
<1>5. RefusedInv'
  BY <1>1, FireRefused
<1>6. QueueInv' /\ pressure' \subseteq [event : Catalog, tick : Nat]
  BY SchedulingKeeps
<1> QED BY <1>3, <1>4, <1>5, <1>6

LEMMA HandleDueKeeps ==
    ASSUME CascadeInv, HandleDue
    PROVE  CascadeInv'
<1>1. PICK load : load = Head(due)
  OBVIOUS
<1>2. /\ stage = "due" /\ due # <<>> /\ due' = Tail(due)
      /\ UNCHANGED <<clock, stage, drawn, mode, since, published, scripted>>
  BY DEF HandleDue
<1>3. due \in Seq(Payload) /\ Len(due) \in Nat /\ Len(due) >= 1 /\ DOMAIN due = 1 .. Len(due)
  BY <1>2 DEF CascadeInv, DueInv
<1>4. load = due[1] /\ load \in Payload /\ load \in Loads
  <2>1. load = due[1] /\ load \in Payload
    BY <1>1, <1>2, <1>3
  <2> QED BY <2>1 DEF Payload, Loads
<1>5. due' \in Seq(Payload) /\ Len(due') = Len(due) - 1 /\ DOMAIN due' = 1 .. Len(due) - 1
      /\ \A k \in 1 .. Len(due) - 1 : due'[k] = due[k + 1] /\ k + 1 \in 1 .. Len(due)
  BY <1>2, <1>3
<1>6. Fits(load) /\ load.at = Today
  BY <1>3, <1>4 DEF CascadeInv, DueInv
<1>7. ASSUME NEW k \in 1 .. Len(due) - 1, due'[k].kind = "scripted" PROVE load.kind = "scripted"
  <2>1. 1 \in DOMAIN due /\ k + 1 \in DOMAIN due /\ 1 < k + 1
    BY <1>3
  <2> QED BY <1>4, <1>5, <1>7, <2>1 DEF CascadeInv, DueInv
<1>8. ASSUME NEW k \in 1 .. Len(due) - 1, NEW l \in 1 .. Len(due) - 1, k < l, due'[l].kind = "scripted"
      PROVE  due'[k].kind = "scripted"
  <2>1. k + 1 \in DOMAIN due /\ l + 1 \in DOMAIN due /\ k + 1 < l + 1
    BY <1>3, <1>8
  <2> QED BY <1>5, <1>8, <2>1 DEF CascadeInv, DueInv
<1>11. \A k \in DOMAIN due : due[k].at = Today
  BY DEF CascadeInv, DueInv
<1>12. \A k \in DOMAIN due, g \in DOMAIN history :
          due[k].kind = "scripted" /\ history[g].tick = Today => history[g].load.kind = "scripted"
  BY DEF CascadeInv, DueInv
<1>13. PICK m \in Nat : m = Len(due) - 1
  <2>1. Len(due) - 1 \in Nat
    BY ONLY <1>3
  <2> QED BY ONLY <2>1
<1>14. /\ due' \in Seq(Payload) /\ DOMAIN due' = 1 .. m
       /\ \A k \in 1 .. m, l \in 1 .. m : k < l /\ due'[l].kind = "scripted" => due'[k].kind = "scripted"
  BY <1>5, <1>8, <1>13
<1>9. CASE MayFire(load.event, load.depth, IgnoresCooldown(load))
  <2>1. Fire(load) /\ ScheduleFollowups(load) /\ UNCHANGED refused
    BY <1>1, <1>9 DEF HandleDue
  <2>2. /\ HistoryTyped' /\ CascadeIsAForest' /\ CooldownKept' /\ HeadlinesSplit' /\ NeverMore'
        /\ RefusedInv' /\ QueueInv' /\ pressure' \subseteq [event : Catalog, tick : Nat]
    <3>1. PICK ignore \in BOOLEAN : ignore <=> load.kind = "scripted"
      OBVIOUS
    <3>2. MayFire(load.event, load.depth, ignore)
      BY <1>9, <3>1 DEF MayFire, IgnoresCooldown
    <3> QED BY <1>2, <1>4, <1>6, <2>1, <3>1, <3>2, FiringKeeps
  <2>3. PICK n \in Nat : n = Len(history)
    BY <1>2, <1>4, <2>1, FireAppends
  <2>4. /\ DOMAIN history' = 1 .. n + 1 /\ DOMAIN history = 1 .. n
        /\ \A i \in 1 .. n : history'[i] = history[i]
        /\ history'[n + 1].load = load
    BY <1>2, <1>4, <2>1, <2>3, FireAppends
  <2>5. \A k \in 1 .. Len(due) - 1 : \A x : x = due'[k] => Fits(x)'
    <3> TAKE k \in 1 .. Len(due) - 1
    <3> SUFFICES ASSUME NEW x, x = due'[k] PROVE Fits(x)'
      OBVIOUS
    <3>1. DOMAIN history \subseteq DOMAIN history' /\ \A i \in DOMAIN history : history'[i] = history[i]
      BY <2>4
    <3>2. x = due[k + 1] /\ k + 1 \in DOMAIN due
      BY <1>3, <1>5
    <3>3. Fits(x)
      BY <3>2 DEF CascadeInv, DueInv
    <3> QED BY <3>1, <3>3, CausesStay
  <2>6. Today' = Today /\ stage' = "due"
    BY <1>2 DEF Today
  <2>7. \A k \in 1 .. Len(due) - 1 : due'[k].at = Today'
    BY <1>3, <1>5, <1>11, <2>6
  <2>8. ASSUME NEW k \in 1 .. Len(due) - 1, NEW g \in 1 .. n + 1, due'[k].kind = "scripted", history'[g].tick = Today'
        PROVE  history'[g].load.kind = "scripted"
    <3>1. CASE g = n + 1
      BY <1>7, <2>4, <2>8, <3>1
    <3>2. CASE g \in 1 .. n
      <4>1. history'[g] = history[g] /\ g \in DOMAIN history /\ history[g].tick = Today
        BY <2>4, <2>6, <2>8, <3>2
      <4>2. k + 1 \in DOMAIN due /\ due[k + 1].kind = "scripted"
        BY <1>3, <1>5, <2>8
      <4> QED BY <1>12, <4>1, <4>2
    <3> QED BY <2>3, <3>1, <3>2
  <2>9. DueInv'
    <3>1. \A k \in 1 .. m, g \in DOMAIN history' :
              due'[k].kind = "scripted" /\ history'[g].tick = Today' => history'[g].load.kind = "scripted"
      BY <1>13, <2>4, <2>8
    <3>2. \A k \in 1 .. m : due'[k].at = Today'
      BY <1>13, <2>7
    <3>3. \A k \in 1 .. m : \A x : x = due'[k] => Fits(x)'
      BY <1>13, <2>5
    <3>4. stage' = "due"
      BY <2>6
    <3> QED BY ONLY m \in Nat, <1>14, <3>1, <3>2, <3>3, <3>4, DueMade
  <2>10. RestTyped'
    BY <1>2, <2>2 DEF CascadeInv, RestTyped
  <2> QED BY <2>2, <2>9, <2>10 DEF CascadeInv
<1>10. CASE ~MayFire(load.event, load.depth, IgnoresCooldown(load))
  <2>1. /\ refused' = refused \cup {[load |-> load, tick |-> Today]}
        /\ UNCHANGED <<history, lastId, lastCat, headlines, queue, nextSeq, pressure>>
    BY <1>1, <1>10 DEF HandleDue, fired
  <2>2. RefusedInv'
    BY <1>1, <1>2, <1>10, <2>1, RefusalKeeps
  <2>3. \A y : Fits(y)' <=> Fits(y)
    BY <2>1 DEF Fits, HasCause
  <2>3a. QueueInv'
    BY <1>2, <2>1, <2>3 DEF CascadeInv, QueueInv
  <2>3b. UNCHANGED <<history, lastId, lastCat>> /\ clock' \in Nat /\ clock' >= clock
    BY <1>2, <2>1, ClockTyped
  <2>3c. HistoryTyped' /\ CascadeIsAForest' /\ NeverMore' /\ CooldownKept'
    BY <2>3b, HistoryStays
  <2>4. HeadlinesSplit' /\ RestTyped'
    <3>1. HeadlinesSplit'
      <4>1. Horizon' = Horizon
        BY <1>2 DEF Horizon, Today
      <4> QED BY <1>2, <2>1, <4>1, OthersStay
    <3>2. RestTyped'
      BY <1>2, <2>1 DEF CascadeInv, RestTyped
    <3> QED BY <3>1, <3>2
  <2>5. Today' = Today /\ stage' = "due" /\ history' = history
    BY <1>2, <2>1 DEF Today
  <2>6. \A k \in 1 .. m : due'[k].at = Today'
    BY <1>3, <1>5, <1>11, <1>13, <2>5
  <2>7. \A k \in 1 .. m : \A x : x = due'[k] => Fits(x)'
    <3> TAKE k \in 1 .. m
    <3> SUFFICES ASSUME NEW x, x = due'[k] PROVE Fits(x)'
      OBVIOUS
    <3>1. x = due[k + 1] /\ k + 1 \in DOMAIN due
      BY <1>3, <1>5, <1>13
    <3>2. Fits(x)
      BY <3>1 DEF CascadeInv, DueInv
    <3> QED BY <2>3, <3>2
  <2>8. DueInv'
    <3>1. \A k \in 1 .. m, g \in DOMAIN history' :
              due'[k].kind = "scripted" /\ history'[g].tick = Today' => history'[g].load.kind = "scripted"
      BY <1>3, <1>5, <1>12, <1>13, <2>5
    <3>2. stage' = "due"
      BY <2>5
    <3> QED BY ONLY m \in Nat, <1>14, <2>6, <2>7, <3>1, <3>2, DueMade
  <2> QED BY <2>2, <2>3a, <2>3c, <2>4, <2>8 DEF CascadeInv
<1> QED BY <1>9, <1>10

LEMMA BeginDrawsKeeps ==
    ASSUME CascadeInv, BeginDraws
    PROVE  CascadeInv'
<1>1. UNCHANGED <<clock, queue, nextSeq, due, history, lastId, lastCat, headlines, mode, since, pressure, published, refused,
                  scripted>> /\ stage = "due" /\ stage' = "draw" /\ due = <<>> /\ drawn' = 0
  BY DEF BeginDraws, fired
<1>2. RestTyped'
  BY <1>1, CascadeAssumption DEF CascadeInv, RestTyped
<1>3. DueInv'
  BY <1>1 DEF CascadeInv, DueInv
<1>4. clock' \in Nat /\ clock' >= clock
  BY <1>1, ClockTyped
<1>5. HistoryTyped' /\ CascadeIsAForest' /\ NeverMore' /\ CooldownKept'
  BY <1>1, <1>4, HistoryStays
<1>6. Horizon' = Horizon
  BY <1>1 DEF Horizon, Today
<1>7. QueueInv' /\ RefusedInv' /\ HeadlinesSplit'
  BY <1>1, <1>6, OthersStay
<1> QED BY <1>2, <1>3, <1>5, <1>7 DEF CascadeInv

LEMMA DrawKeeps ==
    ASSUME CascadeInv, Draw
    PROVE  CascadeInv'
<1> DEFINE load == [kind |-> "draw", event |-> drawn + 1, depth |-> 0, parent |-> 0, at |-> Today]
<1>1. /\ stage = "draw" /\ drawn < N /\ drawn' = drawn + 1
      /\ UNCHANGED <<clock, stage, due, mode, since, published, refused, scripted>>
  BY DEF Draw
<1>2. due = <<>> /\ DOMAIN due' = {} /\ due' \in Seq(Payload)
  BY <1>1 DEF CascadeInv, DueInv
<1>3. DueInv'
  BY <1>1, <1>2 DEF DueInv
<1>4. drawn' \in 0 .. N /\ drawn + 1 \in Catalog /\ 0 \in 0 .. N /\ Today \in Nat
  <2>1. N \in Nat /\ drawn \in 0 .. N
    BY CascadeAssumption DEF CascadeInv, RestTyped
  <2>2. Today \in Nat
    BY <1>1, ClockTyped
  <2> QED BY <1>1, <2>1, <2>2 DEF Catalog
<1>5. CASE UNCHANGED <<fired, queue, nextSeq, pressure>>
  <2>1. UNCHANGED <<history, lastId, lastCat, headlines, queue, nextSeq, pressure>>
    BY <1>5 DEF fired
  <2>2. RestTyped'
    BY <1>1, <1>4, <2>1 DEF CascadeInv, RestTyped
  <2>3. clock' \in Nat /\ clock' >= clock
    BY <1>1, ClockTyped
  <2>4. HistoryTyped' /\ CascadeIsAForest' /\ NeverMore' /\ CooldownKept'
    BY <2>1, <2>3, HistoryStays
  <2>5. Horizon' = Horizon
    BY <1>1 DEF Horizon, Today
  <2>6. QueueInv' /\ RefusedInv' /\ HeadlinesSplit'
    BY <1>1, <2>1, <2>5, OthersStay
  <2> QED BY <1>3, <2>2, <2>4, <2>6 DEF CascadeInv
<1>6. CASE MayFire(load.event, 0, FALSE) /\ Fire(load) /\ ScheduleFollowups(load)
  <2>1. load \in Loads /\ load.at = Today /\ load.depth = 0 /\ load.kind = "draw" /\ load.event \in Catalog
    BY <1>4 DEF Loads
  <2>2. Fits(load)
    <3> HIDE DEF load
    <3> QED BY <2>1, HeightTyped DEF Fits
  <2>3. /\ HistoryTyped' /\ CascadeIsAForest' /\ CooldownKept' /\ HeadlinesSplit' /\ NeverMore'
        /\ RefusedInv' /\ QueueInv' /\ pressure' \subseteq [event : Catalog, tick : Nat]
    <3> HIDE DEF load
    <3>1. MayFire(load.event, load.depth, FALSE) /\ Fire(load) /\ ScheduleFollowups(load)
      BY <1>6, <2>1
    <3> QED BY <1>1, <2>1, <2>2, <3>1, FiringKeeps
  <2>4. RestTyped'
    BY <1>1, <1>4, <2>3 DEF CascadeInv, RestTyped
  <2> QED BY <1>3, <2>3, <2>4 DEF CascadeInv
<1> QED BY <1>5, <1>6 DEF Draw

\* The headlines whose day it is move to those that are out.
LEMMA PublishKeeps ==
    ASSUME CascadeInv, Publish
    PROVE  CascadeInv'
<1>1. /\ stage = "draw" /\ stage' = "idle"
      /\ published' = published \cup {[node |-> p.node, tick |-> Today] : p \in {q \in headlines : q.at =< Today}}
      /\ headlines' = headlines \ {q \in headlines : q.at =< Today}
      /\ UNCHANGED <<clock, queue, nextSeq, due, drawn, history, lastId, lastCat, mode, since, pressure, refused, scripted>>
  BY DEF Publish
<1>2. clock \in Nat /\ Today \in Nat /\ clock = Today + 1
  BY <1>1, ClockTyped
<1>3. Horizon = Today /\ Horizon' = clock
  BY <1>1 DEF Horizon
<1>4. \A k \in DOMAIN history : OutAt(k) \in Nat /\ OutAt(k)' = OutAt(k)
  BY <1>1, OutTyped DEF CascadeInv, OutAt
<1>5. /\ published = {[node |-> k, tick |-> OutAt(k)] : k \in {j \in DOMAIN history : OutAt(j) < Today}}
      /\ headlines = {[node |-> k, at |-> OutAt(k)] : k \in {j \in DOMAIN history : OutAt(j) >= Today}}
  BY <1>3 DEF CascadeInv, HeadlinesSplit
<1>6. \A k \in DOMAIN history : /\ OutAt(k) >= Today /\ OutAt(k) =< Today <=> OutAt(k) = Today
                                /\ OutAt(k) < clock <=> OutAt(k) < Today \/ OutAt(k) = Today
                                /\ OutAt(k) >= clock <=> OutAt(k) >= Today /\ OutAt(k) # Today
  BY <1>2, <1>4
<1>7. published' = {[node |-> k, tick |-> OutAt(k)] : k \in {j \in DOMAIN history : OutAt(j) < clock}}
  <2>1. {[node |-> p.node, tick |-> Today] : p \in {q \in headlines : q.at =< Today}}
           = {[node |-> k, tick |-> OutAt(k)] : k \in {j \in DOMAIN history : OutAt(j) = Today}}
    <3>1. ASSUME NEW q \in headlines, q.at =< Today
          PROVE  \E k \in DOMAIN history : OutAt(k) = Today /\ [node |-> q.node, tick |-> Today] = [node |-> k, tick |-> OutAt(k)]
      <4>1. PICK k \in DOMAIN history : OutAt(k) >= Today /\ q = [node |-> k, at |-> OutAt(k)]
        BY <1>5
      <4>2. q.at = OutAt(k) /\ q.node = k
        BY ONLY <4>1
      <4>3. OutAt(k) = Today
        BY <1>6, <3>1, <4>1, <4>2
      <4> QED BY <4>1, <4>2, <4>3
    <3>2. ASSUME NEW k \in DOMAIN history, OutAt(k) = Today
          PROVE  \E q \in headlines : q.at =< Today /\ [node |-> q.node, tick |-> Today] = [node |-> k, tick |-> OutAt(k)]
      <4> DEFINE q == [node |-> k, at |-> OutAt(k)]
      <4>1. q \in headlines
        BY <1>2, <1>5, <3>2
      <4>2. q.at = Today /\ q.node = k /\ q.at =< Today
        BY <1>2, <3>2
      <4> HIDE DEF q
      <4> QED BY <3>2, <4>1, <4>2
    <3> QED BY ONLY <3>1, <3>2
  <2>2. {j \in DOMAIN history : OutAt(j) < clock}
           = {j \in DOMAIN history : OutAt(j) < Today} \cup {j \in DOMAIN history : OutAt(j) = Today}
    BY ONLY <1>6
  <2>3. published' = {[node |-> k, tick |-> OutAt(k)] : k \in {j \in DOMAIN history : OutAt(j) < Today}}
                       \cup {[node |-> k, tick |-> OutAt(k)] : k \in {j \in DOMAIN history : OutAt(j) = Today}}
    BY ONLY <1>1, <1>5, <2>1
  <2> QED BY ONLY <2>2, <2>3
<1>8. headlines' = {[node |-> k, at |-> OutAt(k)] : k \in {j \in DOMAIN history : OutAt(j) >= clock}}
  BY <1>1, <1>5, <1>6
<1>9. HeadlinesSplit'
  BY <1>1, <1>3, <1>4, <1>7, <1>8 DEF HeadlinesSplit
<1>10. RestTyped' /\ DueInv'
  BY <1>1 DEF CascadeInv, RestTyped, DueInv
<1>11. clock' \in Nat /\ clock' >= clock
  BY <1>1, <1>2
<1>12. HistoryTyped' /\ CascadeIsAForest' /\ NeverMore' /\ CooldownKept'
  BY <1>1, <1>11, HistoryStays
<1>13. QueueInv' /\ RefusedInv'
  BY <1>1, OthersStay
<1> QED BY <1>9, <1>10, <1>12, <1>13 DEF CascadeInv

LEMMA CascadeStep == CascadeInv /\ [CascadeNext]_cascade_vars => CascadeInv'
<1> SUFFICES ASSUME CascadeInv, [CascadeNext]_cascade_vars PROVE CascadeInv'
  OBVIOUS
<1>1. ASSUME NEW e \in Scripts, NEW at \in clock .. LastTick - 1, ScriptEvent(e, at) PROVE CascadeInv'
  BY <1>1, ScriptKeeps
<1>2. ASSUME NEW a \in Policymakers, NEW c \in Controls, SetControl(a, c) PROVE CascadeInv'
  BY <1>2, SetControlKeeps
<1>3. CASE Advance
  BY <1>3, AdvanceKeeps
<1>4. CASE HandleDue
  BY <1>4, HandleDueKeeps
<1>5. CASE BeginDraws
  BY <1>5, BeginDrawsKeeps
<1>6. CASE Draw
  BY <1>6, DrawKeeps
<1>7. CASE Publish
  BY <1>7, PublishKeeps
<1>8. CASE UNCHANGED cascade_vars
  <2>1. UNCHANGED <<clock, queue, nextSeq, stage, due, drawn, history, lastId, lastCat, mode, since, pressure, headlines,
                    published, refused, scripted>>
    BY <1>8 DEF cascade_vars
  <2>2. RestTyped'
    BY <2>1 DEF CascadeInv, RestTyped
  <2>3. clock' \in Nat /\ clock' >= clock
    BY <2>1, ClockTyped
  <2>4. HistoryTyped' /\ CascadeIsAForest' /\ NeverMore' /\ CooldownKept'
    BY <2>1, <2>3, HistoryStays
  <2>5. Horizon' = Horizon
    BY <2>1 DEF Horizon, Today
  <2>6. QueueInv' /\ DueInv' /\ RefusedInv' /\ HeadlinesSplit'
    BY <2>1, <2>5, OthersStay
  <2> QED BY <2>2, <2>4, <2>6 DEF CascadeInv
<1> QED BY <1>1, <1>2, <1>3, <1>4, <1>5, <1>6, <1>7, <1>8 DEF CascadeNext

\* Random events (events/scheduler.py, core/clock.py): whatever the draws, the scripts
\* and the controls, follow-ups form bounded cascades behind their causes, every event
\* keeps its cooldown, only scripted events displace scripted ones, and each headline
\* comes out once, on its day.
THEOREM CascadesInOrderCorrect == CascadeSpec => []CascadesInOrder
<1>1. CascadeInit => CascadeInv
  BY CascadeInvInit
<1>2. CascadeInv /\ [CascadeNext]_cascade_vars => CascadeInv'
  BY CascadeStep
<1>3. CascadeInv => CascadesInOrder
  BY CascadeInvSays
<1> QED BY <1>1, <1>2, <1>3, PTL DEF CascadeSpec

-----------------------------------------------------------------------------
(* What may act for an authority that is held. *)

Warranted(load) == \E i \in DOMAIN history : Caused(load, i) /\ BeforeTakeOver(i, load.event)

\* A longer history warrants what it did, as long as nobody takes over.
LEMMA WarrantsStay ==
    ASSUME DOMAIN history \subseteq DOMAIN history', \A i \in DOMAIN history : history'[i] = history[i],
           UNCHANGED <<mode, since>>, NEW load, Warranted(load)
    PROVE  Warranted(load)'
BY DEF Warranted, Caused, BeforeTakeOver

\* Whoever takes over does so after all that has fired.
LEMMA ControlAfter ==
    ASSUME CascadeInv, NEW a \in Policymakers, NEW c \in Controls, SetControl(a, c),
           NEW load, Warranted(load)
    PROVE  Warranted(load)'
<1>1. PICK i \in DOMAIN history : Caused(load, i) /\ BeforeTakeOver(i, load.event)
  BY DEF Warranted
<1>2. /\ history' = history /\ mode' = [mode EXCEPT ![a] = c]
      /\ since' = [since EXCEPT ![a] = IF c = "autopilot" THEN 0
                                      ELSE IF mode[a] = "autopilot" THEN clock ELSE @]
  BY DEF SetControl, fired
<1>3. mode \in [Policymakers -> Controls] /\ since \in [Policymakers -> 0 .. LastTick]
  BY DEF CascadeInv, RestTyped
<1>4. history[i].tick < clock
  BY DEF CascadeInv, HistoryTyped
<1>5. ASSUME NEW b \in Policymakers, load.event \in Governs[b], mode'[b] # "autopilot"
      PROVE  history[i].tick < since'[b]
  <2>1. CASE b # a
    BY <1>1, <1>2, <1>3, <1>5, <2>1 DEF BeforeTakeOver
  <2>2. CASE b = a /\ mode[a] = "autopilot"
    BY <1>2, <1>3, <1>4, <1>5, <2>2
  <2>3. CASE b = a /\ mode[a] # "autopilot"
    BY <1>1, <1>2, <1>3, <1>5, <2>3 DEF BeforeTakeOver
  <2> QED BY <2>1, <2>2, <2>3
<1>6. Caused(load, i)'
  BY <1>1, <1>2 DEF Caused
<1>7. BeforeTakeOver(i, load.event)'
  BY <1>2, <1>5 DEF BeforeTakeOver
<1> QED BY <1>2, <1>6, <1>7 DEF Warranted

\* What a firing adds to the queue is caused by it, and its authorities are on autopilot.
LEMMA FiringWarrants ==
    ASSUME CascadeInv, NEW load \in Loads, stage # "idle", Fire(load), clock' = clock,
           UNCHANGED <<mode, since>>, ScheduleFollowups(load), NEW i \in queue', i \notin queue
    PROVE  Warranted(i.load)'
<1>0. PICK n \in Nat : n = Len(history)
  BY FireAppends
<1>1. /\ DOMAIN history' = 1 .. n + 1 /\ n + 1 \in DOMAIN history' /\ Today \in Nat
      /\ history'[n + 1].tick = Today /\ history'[n + 1].load = load
  BY <1>0, FireAppends
<1>2. load.depth \in Nat
  BY DEF Loads
<1> DEFINE F == Followups[load.event]
<1>3. PICK sampled \in SUBSET Open(load.event) :
      \E d \in [sampled -> UNION {F[k].delays : k \in sampled}] :
         /\ \A k \in sampled : d[k] \in F[k].delays
         /\ queue' = queue \cup
               {[at |-> Today + Delay(d[k]), prio |-> 1, seq |-> Number(sampled, k),
                 load |-> FollowUp(load, k, Delay(d[k]))] : k \in sampled}
  BY DEF ScheduleFollowups
<1>4. PICK d : /\ \A k \in sampled : d[k] \in F[k].delays
               /\ queue' = queue \cup
                     {[at |-> Today + Delay(d[k]), prio |-> 1, seq |-> Number(sampled, k),
                       load |-> FollowUp(load, k, Delay(d[k]))] : k \in sampled}
  BY <1>3
<1>5. PICK k \in sampled : i.load = FollowUp(load, k, Delay(d[k]))
  BY <1>4
<1>6. PICK up : up = i.load
  OBVIOUS
<1>7. /\ up.event = F[k].to /\ up.depth = load.depth + 1 /\ up.parent = load.event
      /\ up.at = Today + Delay(d[k])
  BY <1>5, <1>6 DEF FollowUp
<1>8. k \in DOMAIN F /\ Autopilot(F[k].to) /\ d[k] \in F[k].delays
  BY <1>3, <1>4 DEF Open
<1>9. Caused(up, n + 1)'
  <2>1. history'[n + 1].load.event = up.parent /\ history'[n + 1].load.depth = up.depth - 1
    BY <1>1, <1>2, <1>7
  <2>2. k \in DOMAIN Followups[up.parent] /\ Followups[up.parent][k].to = up.event
        /\ d[k] \in Followups[up.parent][k].delays /\ up.at = history'[n + 1].tick + Delay(d[k])
    BY <1>1, <1>7, <1>8
  <2> QED BY <2>1, <2>2 DEF Caused
<1>10. BeforeTakeOver(n + 1, up.event)'
  BY <1>7, <1>8 DEF BeforeTakeOver, Autopilot
<1> HIDE DEF F
<1> QED BY <1>1, <1>6, <1>9, <1>10 DEF Warranted

LEMMA ControlInit == CascadeInit => ControlRespected
BY DEF CascadeInit, ControlRespected, Waiting

LEMMA ControlStep == CascadeInv /\ ControlRespected /\ [CascadeNext]_cascade_vars => ControlRespected'
<1> SUFFICES ASSUME CascadeInv, ControlRespected, [CascadeNext]_cascade_vars
             PROVE  ControlRespected'
  OBVIOUS
<1>0. \A load \in Waiting : load.kind = "followup" => Warranted(load)
  BY DEF ControlRespected, Warranted
<1> SUFFICES ASSUME NEW load \in Waiting', load.kind = "followup" PROVE Warranted(load)'
  BY DEF ControlRespected, Warranted
\* Nothing new waits, and nobody takes over.
<1>1. ASSUME Waiting' \subseteq Waiting, UNCHANGED <<history, mode, since>> PROVE Warranted(load)'
  BY <1>0, <1>1, WarrantsStay
<1>2. ASSUME NEW e \in Scripts, NEW at \in clock .. LastTick - 1, ScriptEvent(e, at)
      PROVE  Warranted(load)'
  <2>1. load \in Waiting /\ UNCHANGED <<history, mode, since>>
    BY <1>2 DEF ScriptEvent, Waiting, fired
  <2> QED BY <1>0, <2>1, WarrantsStay
<1>3. ASSUME NEW a \in Policymakers, NEW c \in Controls, SetControl(a, c) PROVE Warranted(load)'
  <2>1. load \in Waiting
    BY <1>3 DEF SetControl, Waiting
  <2> QED BY <1>0, <1>3, <2>1, ControlAfter
<1>4. CASE Advance
  <2> DEFINE now == {i \in queue : i.at =< clock}
  <2>1. due' = InOrder(now) /\ queue' = queue \ now /\ UNCHANGED <<history, mode, since>>
    BY <1>4 DEF Advance, fired
  <2>2. now \subseteq QueueItem /\ IsFiniteSet(now) /\ \A i, j \in now : i.seq = j.seq => i = j
    BY FS_Subset DEF CascadeInv, QueueInv
  <2>a. PICK n \in Nat : n = Cardinality(now)
    <3> HIDE DEF now
    <3> QED BY <2>2, PoppedInOrder
  <2>3. PICK f \in [1 .. n -> now] : InOrder(now) = [k \in 1 .. n |-> f[k].load]
    <3> HIDE DEF now
    <3> QED BY <2>2, <2>a, PoppedInOrder
  <2>4. \A k \in DOMAIN due' : \E i \in queue : due'[k] = i.load
    BY <2>1, <2>3
  <2>5. Waiting' \subseteq Waiting
    BY <2>1, <2>4 DEF Waiting
  <2> QED BY <1>1, <2>1, <2>5
<1>5. CASE HandleDue
  <2> DEFINE head == Head(due)
  <2>1. /\ stage = "due" /\ due # <<>> /\ due' = Tail(due) /\ clock' = clock
        /\ UNCHANGED <<mode, since>>
    BY <1>5 DEF HandleDue
  <2>2. due \in Seq(Payload)
    BY DEF CascadeInv, DueInv
  <2>3. head \in Payload /\ \A k \in DOMAIN due' : \E l \in DOMAIN due : due'[k] = due[l]
    <3>1. head = due[1] /\ 1 \in DOMAIN due /\ Len(due) \in Nat
      BY <2>1, <2>2
    <3>2. \A k \in DOMAIN due' : k + 1 \in DOMAIN due /\ due'[k] = due[k + 1]
      BY <2>1, <2>2
    <3> QED BY <2>2, <3>1, <3>2
  <2> HIDE DEF head
  <2>4. CASE Fire(head) /\ ScheduleFollowups(head)
    <3>1. head \in Loads
      BY <2>3 DEF Payload, Loads
    <3>2. DOMAIN history \subseteq DOMAIN history' /\ \A i \in DOMAIN history : history'[i] = history[i]
      <4>1. PICK n \in Nat : n = Len(history)
        BY <2>1, <2>4, <3>1, FireAppends
      <4> QED BY <2>1, <2>4, <3>1, <4>1, FireAppends
    <3>3. CASE load \in Waiting
      BY <1>0, <2>1, <3>2, <3>3, WarrantsStay
    <3>4. CASE load \notin Waiting
      <4>1. PICK i \in queue' : load = i.load /\ i \notin queue
        BY <2>3, <3>4 DEF Waiting
      <4> QED BY <2>1, <2>4, <3>1, <4>1, FiringWarrants
    <3> QED BY <3>3, <3>4
  <2>5. CASE UNCHANGED <<fired, queue>>
    <3>1. Waiting' \subseteq Waiting
      BY <2>3, <2>5 DEF Waiting
    <3> QED BY <1>1, <2>1, <2>5, <3>1 DEF fired
  <2> QED BY <1>5, <2>4, <2>5 DEF HandleDue, head
<1>6. CASE BeginDraws
  <2>1. UNCHANGED <<queue, due, history, mode, since>>
    BY <1>6 DEF BeginDraws, fired
  <2> QED BY <1>1, <2>1 DEF Waiting
<1>7. CASE Draw
  <2> DEFINE drawing == [kind |-> "draw", event |-> drawn + 1, depth |-> 0, parent |-> 0, at |-> Today]
  <2>1. stage = "draw" /\ drawn < N /\ UNCHANGED <<clock, due, mode, since>>
    BY <1>7 DEF Draw
  <2>2. drawing \in Loads
    <3>1. N \in Nat /\ drawn \in 0 .. N /\ Today \in Nat
      BY <2>1, ClockTyped, CascadeAssumption DEF CascadeInv, RestTyped
    <3>2. drawn + 1 \in Catalog /\ 0 \in 0 .. N
      BY <2>1, <3>1 DEF Catalog
    <3> QED BY <3>1, <3>2 DEF Loads
  <2> HIDE DEF drawing
  <2>3. CASE Fire(drawing) /\ ScheduleFollowups(drawing)
    <3>1. DOMAIN history \subseteq DOMAIN history' /\ \A i \in DOMAIN history : history'[i] = history[i]
      <4>1. PICK n \in Nat : n = Len(history)
        BY <2>1, <2>2, <2>3, FireAppends
      <4> QED BY <2>1, <2>2, <2>3, <4>1, FireAppends
    <3>2. CASE load \in Waiting
      BY <1>0, <2>1, <3>1, <3>2, WarrantsStay
    <3>3. CASE load \notin Waiting
      <4>1. PICK i \in queue' : load = i.load /\ i \notin queue
        BY <2>1, <3>3 DEF Waiting
      <4> QED BY <2>1, <2>2, <2>3, <4>1, FiringWarrants
    <3> QED BY <3>2, <3>3
  <2>4. CASE UNCHANGED <<fired, queue>>
    BY <1>1, <2>1, <2>4 DEF Waiting, fired
  <2> QED BY <1>7, <2>3, <2>4 DEF Draw, drawing
<1>8. CASE Publish
  <2>1. UNCHANGED <<queue, due, history, mode, since>>
    BY <1>8 DEF Publish
  <2> QED BY <1>1, <2>1 DEF Waiting
<1>9. CASE UNCHANGED cascade_vars
  <2>1. UNCHANGED <<queue, due, history, mode, since>>
    BY <1>9 DEF cascade_vars
  <2> QED BY <1>1, <2>1 DEF Waiting
<1> QED BY <1>2, <1>3, <1>4, <1>5, <1>6, <1>7, <1>8, <1>9 DEF CascadeNext

\* Events.schedule_followups asks for control when it schedules, and the queue outlives
\* the answer: what may act for an authority somebody holds are follow-ups of causes that
\* fired before it was taken over, no later than their delays.
THEOREM ControlRespectedCorrect == CascadeSpec => []ControlRespected
<1>1. CascadeInit => CascadeInv /\ ControlRespected
  BY CascadeInvInit, ControlInit
<1>2. CascadeInv /\ ControlRespected /\ [CascadeNext]_cascade_vars => CascadeInv' /\ ControlRespected'
  BY CascadeStep, ControlStep
<1> QED BY <1>1, <1>2, PTL DEF CascadeSpec

=============================================================================
