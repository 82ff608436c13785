-------------------------- MODULE StreamHubProofs --------------------------
(***************************************************************************)
(* Proofs about the event streams (module StreamHub): what the list         *)
(* comprehensions of api/ws.py keep, the types, and, for one publisher,    *)
(* that a client receives its events in order, once and without a gap.     *)
(***************************************************************************)
EXTENDS StreamHub, SequenceTheorems, WellFoundedInduction, TLAPS

-----------------------------------------------------------------------------
(* What Keep keeps, by induction on the prefixes of the sequence. *)

\* A set that has 0, and n + 1 with n, has every natural number.
LEMMA Induction ==
    ASSUME NEW S, 0 \in S, \A n \in Nat : n \in S => n + 1 \in S
    PROVE  Nat \subseteq S
<1> DEFINE R == OpToRel(<, Nat)
           T == Nat \ S
<1> SUFFICES ASSUME T # {} PROVE FALSE
  OBVIOUS
<1>1. IsWellFoundedOn(R, Nat)
  BY NatLessThanWellFounded
<1>2. PICK x \in T : \A y \in T : ~(<<y, x>> \in R)
  <2>1. T \subseteq Nat
    OBVIOUS
  <2> HIDE DEF R, T
  <2> QED BY <1>1, <2>1, WFMin
<1>3. x \in Nat \ {0} /\ x - 1 \in Nat /\ x - 1 < x
  OBVIOUS
<1>4. x - 1 \in T
  BY <1>3
<1>5. <<x - 1, x>> \in R
  BY <1>3 DEF OpToRel
<1> QED BY <1>2, <1>4, <1>5

\* What is kept of one more element, and f[k]: what is kept of the first k.
Kept(x, e, S) == IF e \in S THEN Append(x, e) ELSE x
KeptFrom(f, s, S, n) ==
    f = [k \in 0 .. n |-> IF k = 0 THEN <<>> ELSE Kept(f[k - 1], s[k], S)]

LEMMA PrefixesExist ==
    ASSUME NEW s, NEW S
    PROVE  \A n \in Nat : \E f : KeptFrom(f, s, S, n)
<1> DEFINE Good == {n \in Nat : \E f : KeptFrom(f, s, S, n)}
<1>1. 0 \in Good
  <2> DEFINE f == [k \in 0 .. 0 |-> <<>>]
  <2>1. f = [k \in 0 .. 0 |-> IF k = 0 THEN <<>> ELSE Kept(f[k - 1], s[k], S)]
    OBVIOUS
  <2> HIDE DEF f
  <2> QED BY <2>1 DEF KeptFrom
<1>2. ASSUME NEW n \in Nat, n \in Good
      PROVE  n + 1 \in Good
  <2>1. PICK f : KeptFrom(f, s, S, n)
    BY <1>2
  <2> DEFINE g == [k \in 0 .. n + 1 |-> IF k = 0 THEN <<>> ELSE Kept(f[k - 1], s[k], S)]
  <2>2. \A k \in 0 .. n : g[k] = f[k]
    BY <2>1 DEF KeptFrom
  <2>3. \A k \in 1 .. n + 1 : g[k - 1] = f[k - 1]
    BY <2>2
  <2>4. \A k \in 1 .. n + 1 : Kept(f[k - 1], s[k], S) = Kept(g[k - 1], s[k], S)
    <3> HIDE DEF g
    <3> QED BY <2>3
  <2>5. g = [k \in 0 .. n + 1 |-> IF k = 0 THEN <<>> ELSE Kept(g[k - 1], s[k], S)]
    <3> DEFINE h == [k \in 0 .. n + 1 |-> IF k = 0 THEN <<>> ELSE Kept(g[k - 1], s[k], S)]
    <3>1. \A k \in 0 .. n + 1 : h[k] = IF k = 0 THEN <<>> ELSE Kept(g[k - 1], s[k], S)
      OBVIOUS
    <3>2. \A k \in 0 .. n + 1 : g[k] = IF k = 0 THEN <<>> ELSE Kept(f[k - 1], s[k], S)
      OBVIOUS
    <3>3. g = [k \in 0 .. n + 1 |-> g[k]] /\ h = [k \in 0 .. n + 1 |-> h[k]]
      OBVIOUS
    <3> HIDE DEF g, h
    <3>4. \A k \in 0 .. n + 1 : g[k] = h[k]
      BY <2>4, <3>1, <3>2
    <3>5. g = h
      BY <3>3, <3>4
    <3> QED BY <3>5 DEF h
  <2> HIDE DEF g
  <2> QED BY <2>5 DEF KeptFrom
<1> HIDE DEF Good
<1>3. Nat \subseteq Good
  BY <1>1, <1>2, Induction
<1> QED BY <1>3 DEF Good

\* Keep is the last of them.
LEMMA KeepPrefixes ==
    ASSUME NEW s, Len(s) \in Nat, NEW S
    PROVE  \E f : /\ f[0] = <<>>
                  /\ \A n \in 1 .. Len(s) : f[n] = Kept(f[n - 1], s[n], S)
                  /\ Keep(s, S) = f[Len(s)]
<1> DEFINE kept == CHOOSE f : KeptFrom(f, s, S, Len(s))
<1>1. KeptFrom(kept, s, S, Len(s))
  BY PrefixesExist
<1>2. Keep(s, S) = kept[Len(s)]
  BY Zenon DEF Keep, KeptFrom, Kept
<1> HIDE DEF kept
<1>3. /\ kept[0] = <<>>
      /\ \A n \in 1 .. Len(s) : kept[n] = Kept(kept[n - 1], s[n], S)
  BY <1>1 DEF KeptFrom
<1> QED BY <1>2, <1>3

Increasing(s) == \A j, k \in DOMAIN s : j < k => s[j] < s[k]

LEMMA AppendFacts ==
    ASSUME NEW T, NEW x \in Seq(T), NEW e \in T
    PROVE  /\ Append(x, e) \in Seq(T) /\ Len(Append(x, e)) = Len(x) + 1
           /\ \A k \in 1 .. Len(x) : Append(x, e)[k] = x[k]
           /\ Append(x, e)[Len(x) + 1] = e
OBVIOUS

LEMMA ToSetAppend ==
    ASSUME NEW T, NEW x \in Seq(T), NEW e \in T
    PROVE  ToSet(Append(x, e)) = ToSet(x) \cup {e}
<1>1. /\ Append(x, e) \in Seq(T) /\ Len(Append(x, e)) = Len(x) + 1
      /\ \A k \in 1 .. Len(x) : Append(x, e)[k] = x[k]
      /\ Append(x, e)[Len(x) + 1] = e
  BY AppendFacts
<1>2. DOMAIN x = 1 .. Len(x) /\ DOMAIN Append(x, e) = 1 .. Len(x) + 1
  BY <1>1
<1> HIDE <1>1
<1> QED BY <1>1, <1>2 DEF ToSet

LEMMA IncreasingAppend ==
    ASSUME NEW x \in Seq(Nat), NEW e \in Nat, Increasing(x),
           \A j \in 1 .. Len(x) : x[j] < e
    PROVE  Increasing(Append(x, e))
<1>1. /\ Append(x, e) \in Seq(Nat) /\ Len(Append(x, e)) = Len(x) + 1
      /\ \A k \in 1 .. Len(x) : Append(x, e)[k] = x[k]
      /\ Append(x, e)[Len(x) + 1] = e
  BY AppendFacts
<1>2. DOMAIN x = 1 .. Len(x) /\ DOMAIN Append(x, e) = 1 .. Len(x) + 1
  BY <1>1
<1>3. ASSUME NEW j \in 1 .. Len(x) + 1, NEW k \in 1 .. Len(x) + 1, j < k
      PROVE  Append(x, e)[j] < Append(x, e)[k]
  <2>1. j \in 1 .. Len(x)
    BY <1>3
  <2>2. CASE k = Len(x) + 1
    BY <1>1, <2>1, <2>2
  <2>3. CASE k \in 1 .. Len(x)
    <3>1. x[j] < x[k]
      BY <2>1, <2>3, <1>3, <1>2 DEF Increasing
    <3> QED BY <1>1, <2>1, <2>3, <3>1
  <2> QED BY <2>2, <2>3
<1> QED BY <1>2, <1>3 DEF Increasing

\* What Keep returns has the type of s and the elements of s that are in S; it is
\* in the order of s.
LEMMA KeepKeeps ==
    ASSUME NEW T, NEW s \in Seq(T), NEW S
    PROVE  /\ Keep(s, S) \in Seq(T)
           /\ ToSet(Keep(s, S)) = ToSet(s) \cap S
<1>1. PICK f : /\ f[0] = <<>>
               /\ \A n \in 1 .. Len(s) : f[n] = Kept(f[n - 1], s[n], S)
               /\ Keep(s, S) = f[Len(s)]
  <2>1. Len(s) \in Nat
    OBVIOUS
  <2> QED BY <2>1, KeepPrefixes
<1> DEFINE Holds(n) == /\ f[n] \in Seq(T)
                       /\ ToSet(f[n]) = {s[k] : k \in 1 .. n} \cap S
           Good == {n \in Nat : n =< Len(s) => Holds(n)}
<1>3. 0 \in Good
  <2>1. f[0] = <<>> /\ <<>> \in Seq(T) /\ ToSet(<<>>) = {} /\ 1 .. 0 = {}
    BY <1>1 DEF ToSet
  <2>2. Holds(0)
    BY <2>1
  <2> QED BY <2>2
<1>4. ASSUME NEW n \in Nat, n \in Good
      PROVE  n + 1 \in Good
  <2> SUFFICES ASSUME n + 1 =< Len(s) PROVE Holds(n + 1)
    OBVIOUS
  <2>1. Holds(n) /\ s[n + 1] \in T
    BY <1>4
  <2>2. f[n + 1] = Kept(f[n], s[n + 1], S)
    <3>1. n + 1 \in 1 .. Len(s) /\ n + 1 - 1 = n
      OBVIOUS
    <3> QED BY <1>1, <3>1
  <2>3. {s[k] : k \in 1 .. n + 1} = {s[k] : k \in 1 .. n} \cup {s[n + 1]}
    OBVIOUS
  <2>4. CASE s[n + 1] \in S
    <3>1. ToSet(Append(f[n], s[n + 1])) = ToSet(f[n]) \cup {s[n + 1]}
      BY <2>1, ToSetAppend
    <3> QED BY <2>1, <2>2, <2>3, <2>4, <3>1 DEF Kept
  <2>5. CASE s[n + 1] \notin S
    BY <2>1, <2>2, <2>3, <2>5 DEF Kept
  <2> QED BY <2>4, <2>5
<1> HIDE DEF Good
<1>5. Nat \subseteq Good
  BY <1>3, <1>4, Induction
<1>6. Holds(Len(s))
  <2>1. Len(s) \in Nat
    OBVIOUS
  <2> HIDE DEF Holds
  <2> QED BY <1>5, <2>1 DEF Good
<1>7. ToSet(s) = {s[k] : k \in 1 .. Len(s)}
  BY DEF ToSet
<1> QED BY <1>1, <1>6, <1>7

LEMMA KeepInOrder ==
    ASSUME NEW s \in Seq(Nat), Increasing(s), NEW S
    PROVE  Increasing(Keep(s, S))
<1>1. PICK f : /\ f[0] = <<>>
               /\ \A n \in 1 .. Len(s) : f[n] = Kept(f[n - 1], s[n], S)
               /\ Keep(s, S) = f[Len(s)]
  <2>1. Len(s) \in Nat
    OBVIOUS
  <2> QED BY <2>1, KeepPrefixes
<1> DEFINE Holds(n) == /\ f[n] \in Seq(Nat) /\ Increasing(f[n])
                       /\ \A j \in 1 .. Len(f[n]), k \in n + 1 .. Len(s) : f[n][j] < s[k]
           Good == {n \in Nat : n =< Len(s) => Holds(n)}
<1>3. 0 \in Good
  <2>1. f[0] = <<>> /\ <<>> \in Seq(Nat) /\ Increasing(<<>>) /\ Len(<<>>) = 0
    BY <1>1 DEF Increasing
  <2>2. Holds(0)
    BY <2>1
  <2> QED BY <2>2
<1>4. ASSUME NEW n \in Nat, n \in Good
      PROVE  n + 1 \in Good
  <2> SUFFICES ASSUME n + 1 =< Len(s) PROVE Holds(n + 1)
    OBVIOUS
  <2>1. Holds(n) /\ s[n + 1] \in Nat
    BY <1>4
  <2>2. f[n + 1] = Kept(f[n], s[n + 1], S)
    <3>1. n + 1 \in 1 .. Len(s) /\ n + 1 - 1 = n
      OBVIOUS
    <3> QED BY <1>1, <3>1
  <2>3. \A k \in n + 2 .. Len(s) : s[n + 1] < s[k]
    BY DEF Increasing
  <2>4. CASE s[n + 1] \in S
    <3> DEFINE g == Append(f[n], s[n + 1])
    <3>1. /\ g \in Seq(Nat) /\ Len(g) = Len(f[n]) + 1
          /\ \A j \in 1 .. Len(f[n]) : g[j] = f[n][j]
          /\ g[Len(f[n]) + 1] = s[n + 1]
      BY <2>1, AppendFacts
    <3>2. \A j \in 1 .. Len(f[n]) : f[n][j] < s[n + 1]
      <4>1. n + 1 \in n + 1 .. Len(s)
        OBVIOUS
      <4>2. \A j \in 1 .. Len(f[n]), k \in n + 1 .. Len(s) : f[n][j] < s[k]
        BY <2>1
      <4> QED BY <4>1, <4>2
    <3>3. Increasing(g)
      BY <2>1, <3>2, IncreasingAppend
    <3>4. \A j \in 1 .. Len(g), k \in n + 2 .. Len(s) : g[j] < s[k]
      <4> SUFFICES ASSUME NEW j \in 1 .. Len(g), NEW k \in n + 2 .. Len(s) PROVE g[j] < s[k]
        OBVIOUS
      <4>1. CASE j \in 1 .. Len(f[n])
        <5>1. k \in n + 1 .. Len(s)
          OBVIOUS
        <5> QED BY <2>1, <3>1, <4>1, <5>1
      <4>2. CASE j = Len(f[n]) + 1
        BY <2>3, <3>1, <4>2
      <4>3. j \in 1 .. Len(f[n]) + 1 /\ Len(f[n]) \in Nat
        BY <2>1, <3>1
      <4> QED BY <4>1, <4>2, <4>3
    <3>5. f[n + 1] = g
      BY <2>2, <2>4 DEF Kept
    <3>6. \A j \in 1 .. Len(g), k \in n + 1 + 1 .. Len(s) : g[j] < s[k]
      <4>1. n + 1 + 1 = n + 2
        OBVIOUS
      <4> QED BY <3>4, <4>1
    <3> HIDE DEF g
    <3> QED BY <3>1, <3>3, <3>5, <3>6, Zenon
  <2>5. CASE s[n + 1] \notin S
    BY <2>1, <2>2, <2>5 DEF Kept
  <2> QED BY <2>4, <2>5
<1> HIDE DEF Good
<1>5. Nat \subseteq Good
  BY <1>3, <1>4, Induction
<1>6. Holds(Len(s))
  <2>1. Len(s) \in Nat
    OBVIOUS
  <2> HIDE DEF Holds
  <2> QED BY <1>5, <2>1 DEF Good
<1> QED BY <1>1, <1>6
-----------------------------------------------------------------------------
(* The comprehensions of api/ws.py. *)

LEMMA Wider ==
    ASSUME NEW m \in Nat, NEW n \in Nat, m =< n
    PROVE  Seq(1 .. m) \subseteq Seq(1 .. n)
OBVIOUS

\* coalesce_ticks keeps what is no tick.
LEMMA CoalesceKeeps ==
    ASSUME NEW n \in Nat, NEW s \in Seq(1 .. n)
    PROVE  /\ Coalesce(s) \in Seq(1 .. n)
           /\ ToSet(Coalesce(s)) \subseteq ToSet(s)
           /\ \A i \in ToSet(s) : ~IsTick(i) => i \in ToSet(Coalesce(s))
           /\ Increasing(s) => Increasing(Coalesce(s))
<1> DEFINE ticks == Keep(s, {i \in ToSet(s) : IsTick(i)})
           kept == {i \in ToSet(s) : IsTick(i) => i = Last(ticks)}
<1>1. Coalesce(s) = Keep(s, kept)
  BY DEF Coalesce
<1>2. \A i \in ToSet(s) : ~IsTick(i) => i \in kept
  OBVIOUS
<1> HIDE DEF kept
<1>3. Keep(s, kept) \in Seq(1 .. n) /\ ToSet(Keep(s, kept)) = ToSet(s) \cap kept
  BY KeepKeeps
<1>4. s \in Seq(Nat)
  OBVIOUS
<1>5. Increasing(s) => Increasing(Keep(s, kept))
  BY <1>4, KeepInOrder
<1> QED BY <1>1, <1>2, <1>3, <1>5

LEMMA ToSetConcat ==
    ASSUME NEW T, NEW s \in Seq(T), NEW t \in Seq(T)
    PROVE  s \o t \in Seq(T) /\ ToSet(s \o t) = ToSet(s) \cup ToSet(t)
<1>1. /\ s \o t \in Seq(T) /\ Len(s \o t) = Len(s) + Len(t)
      /\ \A k \in 1 .. Len(s) : (s \o t)[k] = s[k]
      /\ \A k \in 1 .. Len(t) : (s \o t)[Len(s) + k] = t[k]
  BY ConcatProperties
<1>2. \A k \in 1 .. Len(s) + Len(t) :
          k \in 1 .. Len(s) \/ \E j \in 1 .. Len(t) : k = Len(s) + j
  <2> TAKE k \in 1 .. Len(s) + Len(t)
  <2>1. CASE k > Len(s)
    <3>1. k - Len(s) \in 1 .. Len(t) /\ k = Len(s) + (k - Len(s))
      BY <2>1
    <3> QED BY <3>1
  <2> QED BY <2>1
<1>3. /\ ToSet(s) = {s[k] : k \in 1 .. Len(s)} /\ ToSet(t) = {t[k] : k \in 1 .. Len(t)}
      /\ ToSet(s \o t) = {(s \o t)[k] : k \in 1 .. Len(s) + Len(t)}
  BY <1>1 DEF ToSet
<1>4. ToSet(s \o t) \subseteq ToSet(s) \cup ToSet(t)
  BY <1>1, <1>2, <1>3
<1>5. ToSet(s) \subseteq ToSet(s \o t)
  BY <1>1, <1>3
<1>6. ToSet(t) \subseteq ToSet(s \o t)
  <2>1. \A k \in 1 .. Len(t) : Len(s) + k \in 1 .. Len(s) + Len(t)
    OBVIOUS
  <2> QED BY <1>1, <1>3, <2>1
<1> QED BY <1>1, <1>4, <1>5, <1>6

LEMMA IncreasingConcat ==
    ASSUME NEW s \in Seq(Nat), NEW t \in Seq(Nat), Increasing(s), Increasing(t),
           \A i \in ToSet(s), j \in ToSet(t) : i < j
    PROVE  Increasing(s \o t)
<1>1. /\ s \o t \in Seq(Nat) /\ Len(s \o t) = Len(s) + Len(t)
      /\ \A k \in 1 .. Len(s) : (s \o t)[k] = s[k] /\ s[k] \in ToSet(s)
      /\ \A k \in 1 .. Len(t) : (s \o t)[Len(s) + k] = t[k] /\ t[k] \in ToSet(t)
  BY ConcatProperties DEF ToSet
<1> SUFFICES ASSUME NEW j \in 1 .. Len(s) + Len(t), NEW k \in 1 .. Len(s) + Len(t), j < k
             PROVE  (s \o t)[j] < (s \o t)[k]
  BY <1>1 DEF Increasing
<1>2. CASE k =< Len(s)
  <2>1. j \in 1 .. Len(s) /\ k \in 1 .. Len(s)
    BY <1>2
  <2>2. s[j] < s[k]
    BY <2>1 DEF Increasing
  <2> QED BY <1>1, <2>1, <2>2
<1>3. CASE j =< Len(s) /\ k > Len(s)
  <2>1. j \in 1 .. Len(s) /\ k - Len(s) \in 1 .. Len(t) /\ Len(s) + (k - Len(s)) = k
    BY <1>3
  <2>2. (s \o t)[j] \in ToSet(s) /\ (s \o t)[k] \in ToSet(t)
    BY <1>1, <2>1
  <2> QED BY <2>2
<1>4. CASE j > Len(s)
  <2>1. /\ j - Len(s) \in 1 .. Len(t) /\ Len(s) + (j - Len(s)) = j
        /\ k - Len(s) \in 1 .. Len(t) /\ Len(s) + (k - Len(s)) = k
        /\ j - Len(s) < k - Len(s)
    BY <1>4
  <2>2. t[j - Len(s)] < t[k - Len(s)]
    BY <2>1 DEF Increasing
  <2>3. (s \o t)[j] = t[j - Len(s)] /\ (s \o t)[k] = t[k - Len(s)]
    BY <1>1, <2>1
  <2> QED BY <2>2, <2>3
<1> QED BY <1>2, <1>3, <1>4

\* The greatest element of what is fresh.
LEMMA MaxOfSeq ==
    ASSUME NEW s \in Seq(Nat), s # <<>>
    PROVE  Max(ToSet(s)) \in ToSet(s) /\ \A i \in ToSet(s) : i =< Max(ToSet(s))
<1> DEFINE Greatest(n) == \E m \in 1 .. n : \A k \in 1 .. n : s[k] =< s[m]
           Good == {n \in Nat : n >= 1 /\ n =< Len(s) => Greatest(n)}
<1>1. 0 \in Good
  OBVIOUS
<1>2. ASSUME NEW n \in Nat, n \in Good
      PROVE  n + 1 \in Good
  <2> SUFFICES ASSUME n + 1 =< Len(s) PROVE Greatest(n + 1)
    OBVIOUS
  <2>1. CASE n = 0
    <3>1. 1 \in 1 .. n + 1 /\ \A k \in 1 .. n + 1 : k = 1
      BY <2>1
    <3>2. s[1] =< s[1]
      OBVIOUS
    <3>3. \A k \in 1 .. n + 1 : s[k] =< s[1]
      BY <3>1, <3>2
    <3> QED BY <3>1, <3>3
  <2>2. CASE n >= 1
    <3>1. PICK m \in 1 .. n : \A k \in 1 .. n : s[k] =< s[m]
      BY <1>2, <2>2
    <3>2. \A k \in 1 .. n + 1 : k \in 1 .. n \/ k = n + 1
      OBVIOUS
    <3>3. s[m] \in Nat /\ s[n + 1] \in Nat /\ \A k \in 1 .. n : s[k] \in Nat
      OBVIOUS
    <3>4. CASE s[m] >= s[n + 1]
      <4>1. m \in 1 .. n + 1
        OBVIOUS
      <4>2. \A k \in 1 .. n + 1 : s[k] =< s[m]
        BY <3>1, <3>2, <3>3, <3>4
      <4> QED BY <4>1, <4>2
    <3>5. CASE s[m] < s[n + 1]
      <4>1. n + 1 \in 1 .. n + 1
        OBVIOUS
      <4>2. ASSUME NEW k \in 1 .. n + 1 PROVE s[k] =< s[n + 1]
        <5>1. CASE k \in 1 .. n
          <6>1. s[k] =< s[m] /\ s[k] \in Nat
            BY <3>1, <3>3, <5>1
          <6> QED BY <3>3, <3>5, <6>1
        <5>2. CASE k = n + 1
          BY <3>3, <5>2
        <5> QED BY <3>2, <5>1, <5>2
      <4> DEFINE q == n + 1
      <4>3. q \in 1 .. q /\ \A k \in 1 .. q : s[k] =< s[q]
        BY <4>1, <4>2
      <4> HIDE DEF q
      <4>4. Greatest(q)
        BY <4>3
      <4> QED BY <4>4 DEF q
    <3> HIDE DEF Greatest
    <3> QED BY <3>3, <3>4, <3>5
  <2> QED BY <2>1, <2>2
<1> HIDE DEF Good
<1>3. Nat \subseteq Good
  BY <1>1, <1>2, Induction
<1>4. Greatest(Len(s))
  <2>1. Len(s) \in Nat /\ Len(s) >= 1
    OBVIOUS
  <2> HIDE DEF Greatest
  <2> QED BY <1>3, <2>1 DEF Good
<1>5. PICK m \in 1 .. Len(s) : \A k \in 1 .. Len(s) : s[k] =< s[m]
  BY <1>4
<1>6. \E x \in ToSet(s) : \A y \in ToSet(s) : x >= y
  <2>1. s[m] \in ToSet(s) /\ \A y \in ToSet(s) : s[m] >= y
    BY <1>5 DEF ToSet
  <2> QED BY <2>1
<1>7. ToSet(s) \subseteq Nat
  BY DEF ToSet
<1> QED BY <1>6, <1>7 DEF Max

-----------------------------------------------------------------------------
(* The invariants *)

Names(n) == Seq(1 .. n)

\* TypeOK, with the domains of the functions.
Typed ==
    /\ log \in Seq(Event) /\ Len(log) =< MaxLog
    /\ subs \subseteq Conns /\ waking \subseteq Conns
    /\ pub \in [Publishers -> [events : Names(Len(log)), boxes : SUBSET Conns]]
    /\ box \in [Conns -> Names(Len(log))] /\ out \in [Conns -> Names(Len(log))]
    /\ cursor \in [Conns -> 0 .. Len(log)]
    /\ pc \in [Conns -> Places]
    /\ bound \in [Conns -> BOOLEAN] /\ gate \in [Conns -> BOOLEAN]
    /\ link \in [Conns -> BOOLEAN]
    /\ got \in [Clients -> Names(Len(log))]

\* A mailbox that no stream has opened is not registered and gets nothing.
Unopened(c) == c \notin subs /\ box[c] = <<>> /\ \A p \in Publishers : c \notin pub[p].boxes
\* A client that is there has a registered stream, and only one.
Linked == /\ \A c \in Conns : link[c] => c \in subs /\ pc[c] \notin {"new", "lost", "closed"}
          /\ \A c, d \in Conns : link[c] /\ link[d] /\ Owner[c] = Owner[d] => c = d
Streams == /\ \A c \in Conns : pc[c] = "new" => Unopened(c)
           /\ \A c \in Conns : pc[c] \notin {"new", "attached"} => bound[c]
           /\ WokenForMail /\ RegisteredIsServed /\ Linked

\* Event i comes after all that the client of c was sent and is being sent.
Beyond(c, i) == /\ LastSeq(Owner[c]) < i /\ cursor[c] < i
                /\ \A j \in ToSet(out[c]) : j < i
Pending(c, i) == \E p \in Publishers : c \in pub[p].boxes /\ i \in ToSet(pub[p].events)

\* What was received, what is being sent, what is in the mailbox and what is still
\* to be pushed follow one another.
Queued(c) ==
    /\ Increasing(out[c]) /\ Increasing(box[c])
    /\ \A i \in ToSet(out[c]) : LastSeq(Owner[c]) < i
    /\ \A i \in ToSet(box[c]) : Beyond(c, i)
    /\ \A i \in DOMAIN log : Pending(c, i) => Beyond(c, i) /\ \A j \in ToSet(box[c]) : j < i
    /\ pc[c] \in {"live", "wait"} => out[c] = <<>>

\* A fill is in one of these places.
Held(c, i) == \/ i \in ToSet(got[Owner[c]]) \/ i \in ToSet(out[c])
              \/ i \in ToSet(box[c]) \/ Pending(c, i)
NoneMissing(c) ==
    \A i \in DOMAIN log : Owner[c] \in log[i].seen /\ ~IsTick(i) => Held(c, i)

Posted == \A p \in Publishers : Increasing(pub[p].events)
InPlace == /\ Posted /\ InOrderOnce /\ NeverDropFills
           /\ \A c \in Conns : link[c] => Queued(c) /\ NoneMissing(c)
-----------------------------------------------------------------------------
(* Types *)

LEMMA TypedInit == Init => Typed
<1> SUFFICES ASSUME Init PROVE Typed
  OBVIOUS
<1>1. <<>> \in Names(Len(log)) /\ log \in Seq(Event) /\ Len(log) = 0
  BY DEF Init, Names
<1>2. Idle \in [events : Names(Len(log)), boxes : SUBSET Conns]
  BY <1>1 DEF Idle
<1>3. pub \in [Publishers -> [events : Names(Len(log)), boxes : SUBSET Conns]]
  BY <1>2 DEF Init
<1>4. got \in [Clients -> Names(Len(log))]
  BY <1>1 DEF Init
<1>5. box \in [Conns -> Names(Len(log))] /\ out \in [Conns -> Names(Len(log))]
  BY <1>1 DEF Init
<1> QED BY <1>1, <1>3, <1>4, <1>5, StreamAssumption DEF Init, Typed, Places

LEMMA WindowKeeps ==
    ASSUME Typed, NEW x, NEW since
    PROVE  /\ Window(x, since) \in Names(Len(log))
           /\ ToSet(Window(x, since)) = {i \in DOMAIN log : i > since /\ x \in log[i].seen}
           /\ Increasing(Window(x, since))
<1> DEFINE ids == [k \in DOMAIN log |-> k]
           S == {i \in DOMAIN log : i > since /\ x \in log[i].seen}
<1>1. DOMAIN log = 1 .. Len(log) /\ Len(log) \in Nat
  BY DEF Typed
<1>2. ids \in Seq(1 .. Len(log)) /\ ids \in Seq(Nat) /\ Increasing(ids)
  BY <1>1 DEF Increasing
<1>3. ToSet(ids) = DOMAIN log
  BY DEF ToSet
<1>4. Window(x, since) = Keep(ids, S)
  BY DEF Window
<1>5. S \subseteq DOMAIN log
  OBVIOUS
<1> HIDE DEF ids, S
<1>6. Keep(ids, S) \in Seq(1 .. Len(log)) /\ ToSet(Keep(ids, S)) = ToSet(ids) \cap S
  BY <1>2, KeepKeeps
<1>7. Increasing(Keep(ids, S))
  BY <1>2, KeepInOrder
<1> QED BY <1>3, <1>4, <1>5, <1>6, <1>7 DEF Names, S

LEMMA VisibleKeeps ==
    ASSUME NEW n \in Nat, NEW s \in Seq(1 .. n), NEW x
    PROVE  /\ Visible(s, x) \in Seq(1 .. n)
           /\ ToSet(Visible(s, x)) = {i \in ToSet(s) : i \in DOMAIN log /\ x \in log[i].seen}
           /\ Increasing(s) => Increasing(Visible(s, x))
<1> DEFINE S == {i \in DOMAIN log : x \in log[i].seen}
<1>1. Visible(s, x) = Keep(s, S)
  BY DEF Visible
<1>2. s \in Seq(Nat)
  OBVIOUS
<1>3. {i \in ToSet(s) : i \in DOMAIN log /\ x \in log[i].seen} = ToSet(s) \cap S
  OBVIOUS
<1> HIDE DEF S
<1> QED BY <1>1, <1>2, <1>3, KeepKeeps, KeepInOrder

LEMMA FreshKeeps ==
    ASSUME NEW n \in Nat, NEW s \in Seq(1 .. n), NEW last
    PROVE  /\ Fresh(s, last) \in Seq(1 .. n)
           /\ ToSet(Fresh(s, last)) = {i \in ToSet(s) : i > last}
           /\ Increasing(s) => Increasing(Fresh(s, last))
<1> DEFINE S == {i \in ToSet(s) : i > last}
<1>1. Fresh(s, last) = Keep(s, S)
  BY DEF Fresh
<1>2. s \in Seq(Nat)
  OBVIOUS
<1>3. S = ToSet(s) \cap S
  OBVIOUS
<1> HIDE DEF S
<1>4. Keep(s, S) \in Seq(1 .. n) /\ ToSet(Keep(s, S)) = ToSet(s) \cap S
  BY KeepKeeps
<1>5. Increasing(s) => Increasing(Keep(s, S))
  BY <1>2, KeepInOrder
<1> QED BY <1>1, <1>3, <1>4, <1>5 DEF S
\* What Publish posts: the places of the batch in the log.
LEMMA PublishTyped ==
    ASSUME Typed, NEW p \in Publishers, NEW b \in Batches, Publish(p, b)
    PROVE  Typed'
<1> DEFINE n == Len(log)
           m == Len(log')
           posted == [k \in 1 .. Len(b) |-> n + k]
<1>1. b \in Seq(Event) /\ log \in Seq(Event) /\ log' = log \o b
  BY StreamAssumption DEF Typed, Publish
<1>2. log' \in Seq(Event) /\ m = n + Len(b) /\ m =< MaxLog /\ n \in Nat /\ Len(b) \in Nat
  BY <1>1, ConcatProperties DEF Publish
<1>3. posted \in Seq(1 .. m)
  <2> HIDE <1>1
  <2>1. \A k \in 1 .. Len(b) : n + k \in 1 .. m
    BY <1>2
  <2> HIDE DEF n, m
  <2>2. posted \in [1 .. Len(b) -> 1 .. m]
    BY <2>1
  <2> QED BY <1>2, <2>2
<1>4. Seq(1 .. n) \subseteq Seq(1 .. m) /\ 0 .. n \subseteq 0 .. m
  <2>1. n \in Nat /\ m \in Nat /\ n =< m
    BY <1>2
  <2> HIDE DEF n, m
  <2> QED BY <2>1, Wider
<1>5. pub' = [pub EXCEPT ![p] = [events |-> posted, boxes |-> subs]]
  BY DEF Publish
<1> HIDE DEF n, m, posted
<1>6. pub \in [Publishers -> [events : Seq(1 .. m), boxes : SUBSET Conns]]
  <2>1. pub \in [Publishers -> [events : Seq(1 .. n), boxes : SUBSET Conns]]
    BY DEF Typed, Names, n
  <2> QED BY <1>4, <2>1
<1>7. pub' \in [Publishers -> [events : Seq(1 .. m), boxes : SUBSET Conns]]
  <2>1. [events |-> posted, boxes |-> subs] \in [events : Seq(1 .. m), boxes : SUBSET Conns]
    BY <1>3 DEF Typed
  <2> QED BY <1>5, <1>6, <2>1
<1>8. UNCHANGED <<subs, box, bound, gate, waking, pc, out, cursor, link, got>>
  BY DEF Publish, wires
<1>9. /\ box' \in [Conns -> Seq(1 .. m)] /\ out' \in [Conns -> Seq(1 .. m)]
      /\ cursor' \in [Conns -> 0 .. m] /\ got' \in [Clients -> Seq(1 .. m)]
  BY <1>4, <1>8 DEF Typed, Names, n
<1> QED BY <1>2, <1>7, <1>8, <1>9 DEF Typed, Names, m

\* What a step does that leaves the log, the mailboxes and what was received alone.
Data == <<log, pub, box, out, cursor, got>>
Moves(c, places) == \E q \in places : pc' = [pc EXCEPT ![c] = q]

LEMMA PushTyped ==
    ASSUME Typed, NEW p \in Publishers, NEW c \in Conns, Push(p, c)
    PROVE  Typed'
<1> DEFINE seen == Visible(pub[p].events, Owner[c])
<1>1. pub[p] \in [events : Seq(1 .. Len(log)), boxes : SUBSET Conns]
  BY DEF Typed, Names
<1>2. pub[p].events \in Seq(1 .. Len(log)) /\ Len(log) \in Nat
  BY <1>1 DEF Typed
<1>3. seen \in Seq(1 .. Len(log))
  BY <1>2, VisibleKeeps
<1>4. box[c] \o seen \in Seq(1 .. Len(log))
  <2>1. box[c] \in Seq(1 .. Len(log))
    BY DEF Typed, Names
  <2> QED BY <1>3, <2>1, ToSetConcat
<1>5. Coalesce(box[c] \o seen) \in Seq(1 .. Len(log))
  BY <1>2, <1>4, CoalesceKeeps
<1>6. box' = box \/ box' = [box EXCEPT ![c] = Coalesce(box[c] \o seen)]
  BY DEF Push
<1>7. waking' \subseteq Conns
  BY DEF Push, Typed
<1>8. pub' = [pub EXCEPT ![p].boxes = @ \ {c}]
  BY DEF Push
<1>9. UNCHANGED <<log, subs, bound, gate, pc, out, cursor, link, got>>
  BY DEF Push
<1> HIDE DEF seen
<1>10. box' \in [Conns -> Seq(1 .. Len(log))]
  BY <1>5, <1>6 DEF Typed, Names
<1>11. pub' \in [Publishers -> [events : Seq(1 .. Len(log)), boxes : SUBSET Conns]]
  BY <1>8 DEF Typed, Names
<1> QED BY <1>7, <1>9, <1>10, <1>11 DEF Typed, Names

LEMMA DeliverTyped ==
    ASSUME Typed, NEW c \in Conns, Deliver(c), log' = log
    PROVE  /\ Head(out[c]) \in 1 .. Len(log)
           /\ got' \in [Clients -> Names(Len(log))] /\ out' \in [Conns -> Names(Len(log))]
<1>1. out[c] \in Seq(1 .. Len(log)) /\ out[c] # <<>> /\ Owner[c] \in Clients
  BY StreamAssumption DEF Typed, Names, Deliver
<1>2. Head(out[c]) \in 1 .. Len(log) /\ Tail(out[c]) \in Seq(1 .. Len(log))
  BY <1>1, HeadTailProperties
<1>3. got[Owner[c]] \in Seq(1 .. Len(log))
  BY <1>1 DEF Typed, Names
<1>4. Append(got[Owner[c]], Head(out[c])) \in Seq(1 .. Len(log))
  BY <1>2, <1>3
<1>5. got' = [got EXCEPT ![Owner[c]] = Append(got[Owner[c]], Head(out[c]))]
  BY DEF Deliver
<1>6. out' = [out EXCEPT ![c] = Tail(out[c])]
  BY DEF Deliver
<1>7. got' \in [Clients -> Seq(1 .. Len(log))]
  BY <1>1, <1>4, <1>5 DEF Typed, Names
<1>8. out' \in [Conns -> Seq(1 .. Len(log))]
  BY <1>2, <1>6 DEF Typed, Names
<1> QED BY <1>2, <1>7, <1>8 DEF Names

LEMMA TakeTyped ==
    ASSUME Typed, NEW c \in Conns, Take(c)
    PROVE  Typed'
<1> DEFINE fresh == Fresh(box[c], cursor[c])
<1>1. box[c] \in Seq(1 .. Len(log)) /\ Len(log) \in Nat
  BY DEF Typed, Names
<1>2. fresh \in Seq(1 .. Len(log))
  BY <1>1, FreshKeeps
<1>3. Coalesce(fresh) \in Seq(1 .. Len(log))
  BY <1>1, <1>2, CoalesceKeeps
<1>4. fresh # <<>> => Max(ToSet(fresh)) \in 1 .. Len(log)
  <2>1. fresh \in Seq(Nat) /\ ToSet(fresh) \subseteq 1 .. Len(log)
    BY <1>2 DEF ToSet
  <2> QED BY <2>1, MaxOfSeq
<1>5. \/ fresh = <<>> /\ UNCHANGED <<out, cursor>>
         /\ pc' = [pc EXCEPT ![c] = IF box[c] = <<>> THEN "wait" ELSE "live"]
      \/ /\ fresh # <<>> /\ pc' = [pc EXCEPT ![c] = "send"]
         /\ cursor' = [cursor EXCEPT ![c] = Max(ToSet(fresh))]
         /\ out' = [out EXCEPT ![c] = Coalesce(fresh)]
  BY DEF Take
<1>6. /\ UNCHANGED <<log, subs, pub, bound, waking, link, got>>
      /\ box' = [box EXCEPT ![c] = <<>>] /\ gate' = [gate EXCEPT ![c] = FALSE]
  BY DEF Take
<1> HIDE DEF fresh
<1>7. pc' \in [Conns -> Places]
  BY <1>5 DEF Typed, Places
<1>8. cursor' \in [Conns -> 0 .. Len(log)] /\ out' \in [Conns -> Seq(1 .. Len(log))]
  <2>1. cursor \in [Conns -> 0 .. Len(log)] /\ out \in [Conns -> Seq(1 .. Len(log))]
    BY DEF Typed, Names
  <2>2. fresh # <<>> => Max(ToSet(fresh)) \in 0 .. Len(log)
    BY <1>1, <1>4
  <2>3. CASE UNCHANGED <<out, cursor>>
    BY <2>1, <2>3
  <2>4. CASE /\ fresh # <<>> /\ cursor' = [cursor EXCEPT ![c] = Max(ToSet(fresh))]
             /\ out' = [out EXCEPT ![c] = Coalesce(fresh)]
    BY <1>3, <2>1, <2>2, <2>4
  <2> QED BY <1>5, <2>3, <2>4
<1>9. box' \in [Conns -> Seq(1 .. Len(log))] /\ gate' \in [Conns -> BOOLEAN]
  <2>1. <<>> \in Seq(1 .. Len(log))
    OBVIOUS
  <2> QED BY <1>6, <2>1 DEF Typed, Names
<1> QED BY <1>6, <1>7, <1>8, <1>9 DEF Typed, Names
\* All steps of a connection that are no push, delivery or take.
LEMMA TypedStep == Typed /\ [Next]_vars => Typed'
<1> SUFFICES ASSUME Typed, [Next]_vars PROVE Typed'
  OBVIOUS
<1>1. ASSUME NEW p \in Publishers, NEW b \in Batches, Publish(p, b) PROVE Typed'
  BY <1>1, PublishTyped
<1>2. ASSUME NEW p \in Publishers, NEW c \in Conns, Push(p, c) PROVE Typed'
  BY <1>2, PushTyped
<1>3. ASSUME NEW p \in Publishers, PublishReturns(p) PROVE Typed'
  <2>1. Idle \in [events : Seq(1 .. Len(log)), boxes : SUBSET Conns]
    BY DEF Idle
  <2>2. pub' = [pub EXCEPT ![p] = Idle] /\ UNCHANGED <<log, subs, box, wires>>
    BY <1>3 DEF PublishReturns
  <2>3. pub' \in [Publishers -> [events : Seq(1 .. Len(log)), boxes : SUBSET Conns]]
    BY <2>1, <2>2 DEF Typed, Names
  <2> QED BY <2>2, <2>3 DEF Typed, Names, wires
<1>4. ASSUME NEW c \in Conns, Wake(c) PROVE Typed'
  BY <1>4 DEF Wake, Typed
<1>5. ASSUME NEW c \in Conns, Bind(c) PROVE Typed'
  <2>1. waking' \subseteq Conns /\ bound' \in [Conns -> BOOLEAN] /\ pc' \in [Conns -> Places]
    BY <1>5 DEF Bind, Typed, Places
  <2> QED BY <1>5, <2>1 DEF Bind, Typed
<1>6. ASSUME NEW c \in Conns,
             Accept(c) \/ Subscribe(c) \/ AcceptFails(c) \/ Resume(c) \/ Detach(c)
      PROVE  Typed'
  <2>1. pc' \in [Conns -> Places] /\ subs' \subseteq Conns
    BY <1>6 DEF Accept, Subscribe, AcceptFails, Resume, Detach, Typed, Places
  <2>2. UNCHANGED <<log, pub, box, bound, gate, waking, out, cursor, link, got>>
    BY <1>6 DEF Accept, Subscribe, AcceptFails, Resume, Detach
  <2> QED BY <2>1, <2>2 DEF Typed
<1>7. ASSUME NEW c \in Conns, SendReplay(c) PROVE Typed'
  <2>1. /\ cursor' = [cursor EXCEPT ![c] = Head(out[c])] /\ Deliver(c)
        /\ UNCHANGED <<log, subs, pub, box, bound, gate, waking, pc, link>>
    BY <1>7 DEF SendReplay
  <2>2. /\ Head(out[c]) \in 1 .. Len(log)
        /\ got' \in [Clients -> Names(Len(log))] /\ out' \in [Conns -> Names(Len(log))]
    BY <2>1, DeliverTyped
  <2>3. cursor' \in [Conns -> 0 .. Len(log)]
    <3>1. Head(out[c]) \in 0 .. Len(log)
      BY <2>2 DEF Typed
    <3> QED BY <2>1, <3>1 DEF Typed
  <2> QED BY <2>1, <2>2, <2>3 DEF Typed
<1>8. ASSUME NEW c \in Conns, Send(c) PROVE Typed'
  <2>1. Deliver(c) /\ UNCHANGED <<log, subs, pub, box, bound, gate, waking, cursor, link>>
    BY <1>8 DEF Send
  <2>2. /\ got' \in [Clients -> Names(Len(log))] /\ out' \in [Conns -> Names(Len(log))]
    BY <2>1, DeliverTyped
  <2>3. pc' \in [Conns -> Places]
    BY <1>8 DEF Send, Typed, Places
  <2> QED BY <2>1, <2>2, <2>3 DEF Typed
<1>9. ASSUME NEW c \in Conns, Take(c) PROVE Typed'
  BY <1>9, TakeTyped
<1>10. ASSUME NEW c \in Conns, Drop(c) PROVE Typed'
  BY <1>10 DEF Drop, Typed
<1>11. ASSUME NEW c \in Conns, Attach(c) PROVE Typed'
  <2> DEFINE x == Owner[c]
  <2>1. /\ subs' = subs \cup {c} /\ out' = [out EXCEPT ![c] = Window(x, LastSeq(x))]
        /\ cursor' = [cursor EXCEPT ![c] = LastSeq(x)] /\ link' = [link EXCEPT ![c] = TRUE]
        /\ pc' = [pc EXCEPT ![c] = "attached"]
        /\ UNCHANGED <<log, pub, box, bound, gate, waking, got>>
    BY <1>11 DEF Attach
  <2>2. LastSeq(x) \in 0 .. Len(log)
    <3>1. got[x] \in Seq(1 .. Len(log)) /\ Len(log) \in Nat
      BY StreamAssumption DEF Typed, Names
    <3> QED BY <3>1 DEF LastSeq, Last
  <2>3. Window(x, LastSeq(x)) \in Names(Len(log))
    BY WindowKeeps
  <2>4. out' \in [Conns -> Names(Len(log))] /\ cursor' \in [Conns -> 0 .. Len(log)]
    BY <2>1, <2>2, <2>3 DEF Typed
  <2>5. pc' \in [Conns -> Places] /\ link' \in [Conns -> BOOLEAN]
    BY <2>1 DEF Typed, Places
  <2> QED BY <2>1, <2>4, <2>5 DEF Typed
<1>12. ASSUME UNCHANGED vars PROVE Typed'
  BY <1>12 DEF vars, Typed
<1> QED BY <1>1, <1>2, <1>3, <1>4, <1>5, <1>6, <1>7, <1>8, <1>9, <1>10, <1>11, <1>12
        DEF Next, Server

LEMMA TypedIsTypeOK == Typed => TypeOK
BY DEF Typed, TypeOK, Names, Seqs

\* Every variable keeps its type, whatever threads publish and clients do.
THEOREM TypeCorrect == Spec => []TypeOK
<1>1. Spec => []Typed
  BY TypedInit, TypedStep, PTL DEF Spec
<1> QED BY <1>1, TypedIsTypeOK, PTL
-----------------------------------------------------------------------------
(* Streams: who is registered, and who is woken. *)

LEMMA StreamsInit == Init => Streams
BY DEF Init, Streams, Unopened, Linked, WokenForMail, RegisteredIsServed, Idle

\* A step of the coroutine of c that does not touch the mailbox.
LEMMA StreamsMove ==
    ASSUME Typed, Streams, NEW c \in Conns, NEW q \in Places \ {"new", "wait"},
           pc[c] # "new", pc' = [pc EXCEPT ![c] = q], UNCHANGED <<pub, box, link>>,
           pc[c] = "attached" => bound'[c], \A d \in Conns : bound[d] => bound'[d],
           \A d \in Conns : gate[d] \/ d \in waking => gate'[d] \/ d \in waking',
           subs' = subs \/ (subs' = subs \ {c} /\ ~link[c]),
           q = "closed" => c \notin subs', q = "lost" => ~link[c]
    PROVE  Streams'
<1>1. \A d \in Conns : pc'[d] = IF d = c THEN q ELSE pc[d]
  BY DEF Typed
<1>2. subs' \subseteq subs
  OBVIOUS
<1>3. \A d \in Conns : pc'[d] = "new" => Unopened(d)'
  <2> TAKE d \in Conns
  <2>1. pc'[d] = "new" => pc[d] = "new"
    BY <1>1
  <2> QED BY <1>2, <2>1 DEF Streams, Unopened
<1>4. \A d \in Conns : pc'[d] \notin {"new", "attached"} => bound'[d]
  BY <1>1 DEF Streams
<1>5. WokenForMail'
  BY <1>1 DEF Streams, WokenForMail
<1>6. RegisteredIsServed'
  BY <1>1, <1>2 DEF Streams, RegisteredIsServed, Typed
<1>7. Linked'
  <2>1. ASSUME NEW d \in Conns, link'[d] PROVE d \in subs' /\ pc'[d] \notin {"new", "lost", "closed"}
    <3>1. d \in subs /\ pc[d] \notin {"new", "lost", "closed"} /\ link[d]
      BY <2>1 DEF Streams, Linked
    <3>2. d \in subs'
      BY <3>1
    <3>3. q # "closed" \/ d # c
      BY <3>2
    <3> QED BY <1>1, <3>1, <3>2, <3>3
  <2> QED BY <2>1 DEF Streams, Linked
<1> QED BY <1>3, <1>4, <1>5, <1>6, <1>7 DEF Streams

LEMMA StreamsStep == Typed /\ Streams /\ [Next]_vars => Streams'
<1> SUFFICES ASSUME Typed, Streams, [Next]_vars PROVE Streams'
  OBVIOUS
<1>1. ASSUME NEW p \in Publishers, NEW b \in Batches, Publish(p, b) PROVE Streams'
  <2>1. pub' = [pub EXCEPT ![p] = [events |-> [k \in 1 .. Len(b) |-> Len(log) + k],
                                   boxes |-> subs]]
    BY <1>1 DEF Publish
  <2>2. UNCHANGED <<subs, box, bound, gate, waking, pc, out, cursor, link, got>>
    BY <1>1 DEF Publish, wires
  <2>3. \A q \in Publishers : pub'[q].boxes = pub[q].boxes \/ pub'[q].boxes = subs
    BY <2>1 DEF Typed
  <2>4. \A c \in Conns : Unopened(c) => Unopened(c)'
    BY <2>2, <2>3 DEF Unopened
  <2> QED BY <2>2, <2>4 DEF Streams, Linked, WokenForMail, RegisteredIsServed
<1>2. ASSUME NEW p \in Publishers, NEW c \in Conns, Push(p, c) PROVE Streams'
  <2>1. /\ c \in pub[p].boxes /\ pub' = [pub EXCEPT ![p].boxes = @ \ {c}]
        /\ UNCHANGED <<log, subs, bound, gate, pc, out, cursor, link, got>>
    BY <1>2 DEF Push
  <2>2. \/ UNCHANGED <<box, waking>>
        \/ /\ \E mail : box' = [box EXCEPT ![c] = mail]
           /\ waking' = IF bound[c] THEN waking \cup {c} ELSE waking
    BY <1>2, Zenon DEF Push
  <2>3. \A q \in Publishers : pub'[q].boxes \subseteq pub[q].boxes
    BY <2>1 DEF Typed
  <2>4. pc[c] # "new"
    BY <2>1 DEF Streams, Unopened
  <2>5. \A d \in Conns : d # c => box'[d] = box[d]
    BY <2>2 DEF Typed
  <2>6. \A d \in Conns : pc'[d] = "new" => Unopened(d)'
    BY <2>1, <2>3, <2>4, <2>5 DEF Streams, Unopened
  <2>7. waking \subseteq waking' /\ (c \in waking' \/ ~bound[c] \/ box'[c] = box[c])
    BY <2>2
  <2>8. WokenForMail'
    <3> SUFFICES ASSUME NEW d \in Conns, pc'[d] = "wait", box'[d] # <<>>
                 PROVE  gate'[d] \/ d \in waking'
      BY DEF WokenForMail
    <3>1. pc[d] = "wait" /\ bound[d] /\ gate'[d] = gate[d]
      BY <2>1 DEF Streams
    <3>2. CASE d = c /\ c \in waking'
      BY <3>2
    <3>3. CASE box'[d] = box[d]
      BY <2>7, <3>1, <3>3 DEF Streams, WokenForMail
    <3> QED BY <2>5, <2>7, <3>1, <3>2, <3>3
  <2> QED BY <2>1, <2>6, <2>8 DEF Streams, Linked, RegisteredIsServed
<1>3. ASSUME NEW p \in Publishers, PublishReturns(p) PROVE Streams'
  <2>1. pub' = [pub EXCEPT ![p] = Idle] /\ Idle.boxes = {}
        /\ UNCHANGED <<subs, box, bound, gate, waking, pc, out, cursor, link, got>>
    BY <1>3 DEF PublishReturns, wires, Idle
  <2>2. \A q \in Publishers : pub'[q].boxes = pub[q].boxes \/ pub'[q].boxes = {}
    BY <2>1 DEF Typed
  <2>3. \A c \in Conns : Unopened(c) => Unopened(c)'
    BY <2>1, <2>2 DEF Unopened
  <2> QED BY <2>1, <2>3 DEF Streams, Linked, WokenForMail, RegisteredIsServed
<1>4. ASSUME NEW c \in Conns, Wake(c) PROVE Streams'
  <2>1. /\ waking' = waking \ {c} /\ gate' = [gate EXCEPT ![c] = TRUE]
        /\ UNCHANGED <<log, subs, pub, box, bound, pc, out, cursor, link, got>>
    BY <1>4 DEF Wake
  <2>2. \A d \in Conns : gate[d] \/ d \in waking => gate'[d] \/ d \in waking'
    BY <2>1, Zenon DEF Typed
  <2> QED BY <2>1, <2>2 DEF Streams, Unopened, Linked, WokenForMail, RegisteredIsServed
<1>5. ASSUME NEW c \in Conns, Bind(c) PROVE Streams'
  <2>1. /\ pc[c] = "attached" /\ bound' = [bound EXCEPT ![c] = TRUE]
        /\ pc' = [pc EXCEPT ![c] = "accept"] /\ waking \subseteq waking'
        /\ UNCHANGED <<log, subs, pub, box, gate, out, cursor, link, got>>
    BY <1>5 DEF Bind
  <2>2. bound'[c] /\ \A d \in Conns : bound[d] => bound'[d]
    BY <2>1 DEF Typed
  <2>3. "accept" \in Places \ {"new", "wait"}
    BY DEF Places
  <2> QED BY <2>1, <2>2, <2>3, StreamsMove
<1>6. ASSUME NEW c \in Conns, Accept(c) \/ Subscribe(c) \/ Resume(c) PROVE Streams'
  <2>1. PICK q \in {"subscribe", "replay", "live"} : pc' = [pc EXCEPT ![c] = q]
    BY <1>6, Zenon DEF Accept, Subscribe, Resume
  <2>2. /\ pc[c] \notin {"new", "attached"}
        /\ UNCHANGED <<log, subs, pub, box, bound, gate, waking, out, cursor, link, got>>
    BY <1>6 DEF Accept, Subscribe, Resume
  <2>3. q \in Places \ {"new", "wait"} /\ q # "closed" /\ q # "lost"
    BY DEF Places
  <2> QED BY <2>1, <2>2, <2>3, StreamsMove
<1>7. ASSUME NEW c \in Conns, AcceptFails(c) PROVE Streams'
  <2>1. "lost" \in Places \ {"new", "wait"}
    BY DEF Places
  <2> QED BY <1>7, <2>1, StreamsMove DEF AcceptFails
<1>8. ASSUME NEW c \in Conns, Detach(c) PROVE Streams'
  <2>1. "closed" \in Places \ {"new", "wait"}
    BY DEF Places
  <2>2. pc[c] \notin {"new", "attached"} /\ ~link[c]
    BY <1>8 DEF Detach, Broken
  <2> QED BY <1>8, <2>1, <2>2, StreamsMove DEF Detach
<1>9. ASSUME NEW c \in Conns, SendReplay(c) \/ Send(c) PROVE Streams'
  <2>1. PICK q \in {"replay", "live", "send"} : pc' = [pc EXCEPT ![c] = q]
    <3>1. CASE SendReplay(c)
      <4>1. pc' = pc /\ pc[c] = "replay"
        BY <3>1 DEF SendReplay
      <4>2. pc' = [pc EXCEPT ![c] = "replay"]
        BY <4>1 DEF Typed
      <4> QED BY <4>2
    <3>2. CASE Send(c)
      BY <3>2 DEF Send
    <3> QED BY <1>9, <3>1, <3>2
  <2>2. /\ pc[c] \notin {"new", "attached"}
        /\ UNCHANGED <<log, subs, pub, box, bound, gate, waking, link>>
    BY <1>9 DEF SendReplay, Send
  <2>3. q \in Places \ {"new", "wait"} /\ q # "closed" /\ q # "lost"
    BY DEF Places
  <2> QED BY <2>1, <2>2, <2>3, StreamsMove
<1>10. ASSUME NEW c \in Conns, Take(c) PROVE Streams'
  <2>1. /\ pc[c] \in {"live", "replay"}
        /\ \E q \in {"wait", "live", "send"} : pc' = [pc EXCEPT ![c] = q]
        /\ box' = [box EXCEPT ![c] = <<>>] /\ gate' = [gate EXCEPT ![c] = FALSE]
        /\ UNCHANGED <<log, subs, pub, bound, waking, link, got>>
    BY <1>10 DEF Take
  <2>2. PICK q \in {"wait", "live", "send"} : pc' = [pc EXCEPT ![c] = q]
    BY <2>1
  <2>3. \A d \in Conns : /\ pc'[d] = IF d = c THEN q ELSE pc[d]
                         /\ box'[d] = IF d = c THEN <<>> ELSE box[d]
                         /\ d # c => gate'[d] = gate[d]
    BY <2>1, <2>2 DEF Typed
  <2>4. \A d \in Conns : pc'[d] = "new" => Unopened(d)'
    BY <2>1, <2>3 DEF Streams, Unopened
  <2>5. WokenForMail'
    BY <2>1, <2>3 DEF Streams, WokenForMail
  <2>6. Linked' /\ RegisteredIsServed'
    BY <2>1, <2>3 DEF Streams, Linked, RegisteredIsServed, Typed
  <2>7. \A d \in Conns : pc'[d] \notin {"new", "attached"} => bound'[d]
    BY <2>1, <2>3 DEF Streams
  <2> QED BY <2>4, <2>5, <2>6, <2>7 DEF Streams
<1>11. ASSUME NEW c \in Conns, Drop(c) PROVE Streams'
  <2>1. /\ link' = [link EXCEPT ![c] = FALSE]
        /\ UNCHANGED <<log, subs, pub, box, bound, gate, waking, pc, out, cursor, got>>
    BY <1>11 DEF Drop
  <2>2. \A d \in Conns : link'[d] => link[d]
    BY <2>1, Zenon DEF Typed
  <2>3. Linked'
    BY <2>1, <2>2 DEF Streams, Linked
  <2> QED BY <2>1, <2>3 DEF Streams, Unopened, WokenForMail, RegisteredIsServed
<1>12. ASSUME NEW c \in Conns, Attach(c) PROVE Streams'
  <2>1. /\ pc[c] = "new" /\ \A d \in Conns : Owner[d] = Owner[c] => ~link[d]
        /\ subs' = subs \cup {c} /\ link' = [link EXCEPT ![c] = TRUE]
        /\ pc' = [pc EXCEPT ![c] = "attached"]
        /\ UNCHANGED <<log, pub, box, bound, gate, waking, got>>
    BY <1>12 DEF Attach
  <2>2. \A d \in Conns : pc'[d] = IF d = c THEN "attached" ELSE pc[d]
    BY <2>1 DEF Typed
  <2>3. \A d \in Conns : d # c => link'[d] = link[d]
    BY <2>1 DEF Typed
  <2>4. \A d \in Conns : pc'[d] = "new" => Unopened(d)'
    BY <2>1, <2>2 DEF Streams, Unopened
  <2>5. WokenForMail' /\ RegisteredIsServed'
    BY <2>1, <2>2 DEF Streams, WokenForMail, RegisteredIsServed, Typed
  <2>6. \A d \in Conns : pc'[d] \notin {"new", "attached"} => bound'[d]
    BY <2>1, <2>2 DEF Streams
  <2>7. Linked'
    <3>1. \A d \in Conns : link'[d] => d \in subs' /\ pc'[d] \notin {"new", "lost", "closed"}
      BY <2>1, <2>2, <2>3 DEF Streams, Linked
    <3>2. \A d \in Conns : link'[d] /\ Owner[d] = Owner[c] => d = c
      BY <2>1, <2>3
    <3> QED BY <2>3, <3>1, <3>2 DEF Streams, Linked
  <2> QED BY <2>4, <2>5, <2>6, <2>7 DEF Streams
<1>13. ASSUME UNCHANGED vars PROVE Streams'
  BY <1>13 DEF vars, Streams, Unopened, Linked, WokenForMail, RegisteredIsServed
<1> QED BY <1>1, <1>2, <1>3, <1>4, <1>5, <1>6, <1>7, <1>8, <1>9, <1>10, <1>11, <1>12, <1>13
        DEF Next, Server

\* For any number of publishers: a registered mailbox is served, and a coroutine
\* that waits with events in its mailbox has its gate set or about to be.
THEOREM WokenCorrect == Spec => [](WokenForMail /\ RegisteredIsServed)
<1>1. Init => Typed /\ Streams
  BY TypedInit, StreamsInit
<1>2. Typed /\ Streams /\ [Next]_vars => (Typed /\ Streams)'
  BY TypedStep, StreamsStep
<1>3. Typed /\ Streams => WokenForMail /\ RegisteredIsServed
  BY DEF Streams
<1> QED BY <1>1, <1>2, <1>3, PTL DEF Spec
-----------------------------------------------------------------------------
(* One publisher: everything is in its place. *)

OnePublisher == \A p, q \in Publishers : p = q

LEMMA InPlaceInit == Init => InPlace
BY DEF Init, InPlace, Posted, InOrderOnce, NeverDropFills, Increasing, LastSeq, Idle

\* Of d nothing is moved.
LEMMA QueuedSame ==
    ASSUME NEW d \in Conns, log' = log, out'[d] = out[d], box'[d] = box[d],
           cursor'[d] = cursor[d], got'[Owner[d]] = got[Owner[d]],
           \A i \in DOMAIN log : Pending(d, i)' <=> Pending(d, i),
           pc'[d] \in {"live", "wait"} => pc[d] \in {"live", "wait"},
           Queued(d), NoneMissing(d)
    PROVE  Queued(d)' /\ NoneMissing(d)'
<1>1. LastSeq(Owner[d])' = LastSeq(Owner[d])
  BY DEF LastSeq
<1>2. \A i : Beyond(d, i)' <=> Beyond(d, i)
  BY <1>1 DEF Beyond
<1>3. Queued(d)'
  BY <1>1, <1>2 DEF Queued
<1>4. \A i \in DOMAIN log : Held(d, i)' <=> Held(d, i)
  BY DEF Held
<1>5. NoneMissing(d)'
  BY <1>4 DEF NoneMissing, IsTick
<1> QED BY <1>3, <1>5

LEMMA ReceivedSame ==
    ASSUME InPlace, UNCHANGED <<log, got>>
    PROVE  InOrderOnce' /\ NeverDropFills'
<1>1. \A x : LastSeq(x)' = LastSeq(x)
  BY DEF LastSeq
<1> QED BY <1>1 DEF InPlace, InOrderOnce, NeverDropFills, IsTick

\* A step that leaves the log, the mailboxes and what was received alone.
LEMMA InPlaceAside ==
    ASSUME InPlace, UNCHANGED <<log, pub, box, out, cursor, got>>,
           \A d \in Conns : link'[d] => link[d],
           \A d \in Conns : pc'[d] \in {"live", "wait"} => pc[d] \in {"live", "wait"}
    PROVE  InPlace'
<1>1. InOrderOnce' /\ NeverDropFills'
  BY ReceivedSame
<1>2. Posted'
  BY DEF InPlace, Posted, Increasing
<1>3. \A d \in Conns : link'[d] => Queued(d)' /\ NoneMissing(d)'
  <2> SUFFICES ASSUME NEW d \in Conns, link'[d] PROVE Queued(d)' /\ NoneMissing(d)'
    OBVIOUS
  <2>1. Queued(d) /\ NoneMissing(d)
    BY DEF InPlace
  <2>2. \A i \in DOMAIN log : Pending(d, i)' <=> Pending(d, i)
    BY DEF Pending
  <2> QED BY <2>1, <2>2, QueuedSame
<1> QED BY <1>1, <1>2, <1>3 DEF InPlace

LEMMA InPlaceReturns ==
    ASSUME Typed, InPlace, NEW p \in Publishers, PublishReturns(p)
    PROVE  InPlace'
<1>1. /\ pub[p].boxes = {} /\ pub' = [pub EXCEPT ![p] = Idle]
      /\ UNCHANGED <<log, subs, box, wires>>
  BY DEF PublishReturns
<1>2. Idle.boxes = {} /\ Idle.events = <<>>
  BY DEF Idle
<1>3. \A q \in Publishers : pub'[q] = IF q = p THEN Idle ELSE pub[q]
  BY <1>1 DEF Typed
<1>4. InOrderOnce' /\ NeverDropFills'
  BY <1>1, ReceivedSame DEF wires
<1>5. Posted'
  BY <1>2, <1>3 DEF InPlace, Posted, Increasing
<1>6. \A d \in Conns : link'[d] => Queued(d)' /\ NoneMissing(d)'
  <2> SUFFICES ASSUME NEW d \in Conns, link'[d] PROVE Queued(d)' /\ NoneMissing(d)'
    OBVIOUS
  <2>1. Queued(d) /\ NoneMissing(d)
    BY <1>1 DEF InPlace, wires
  <2>2. \A i \in DOMAIN log : Pending(d, i)' <=> Pending(d, i)
    BY <1>1, <1>2, <1>3 DEF Pending
  <2> QED BY <1>1, <2>1, <2>2, QueuedSame DEF wires
<1> QED BY <1>4, <1>5, <1>6 DEF InPlace

\* The last event received is one of those received, and none is after it.
LEMMA LastIsLast ==
    ASSUME Typed, InOrderOnce, NEW x \in Clients
    PROVE  /\ LastSeq(x) \in 0 .. Len(log)
           /\ \A i \in ToSet(got[x]) : i =< LastSeq(x)
<1>1. got[x] \in Seq(1 .. Len(log)) /\ Len(log) \in Nat
  BY DEF Typed, Names
<1>2. CASE got[x] = <<>>
  BY <1>1, <1>2 DEF LastSeq, ToSet
<1>3. CASE got[x] # <<>>
  <2>1. LastSeq(x) = got[x][Len(got[x])] /\ Len(got[x]) \in 1 .. Len(got[x])
    BY <1>1, <1>3 DEF LastSeq, Last
  <2>2. \A k \in 1 .. Len(got[x]) : got[x][k] =< got[x][Len(got[x])]
    <3> TAKE k \in 1 .. Len(got[x])
    <3>1. got[x][k] \in 1 .. Len(log) /\ got[x][Len(got[x])] \in 1 .. Len(log)
      BY <1>1, <2>1
    <3>2. k < Len(got[x]) \/ k = Len(got[x])
      BY <1>1
    <3>3. k < Len(got[x]) => got[x][k] < got[x][Len(got[x])]
      BY <1>1, <2>1 DEF InOrderOnce
    <3> QED BY <3>1, <3>2, <3>3
  <2>3. got[x][Len(got[x])] \in 1 .. Len(log)
    BY <1>1, <2>1
  <2> QED BY <1>1, <2>1, <2>2, <2>3 DEF ToSet
<1> QED BY <1>2, <1>3

\* What a batch posts is after all that has been.
LEMMA InPlacePublish ==
    ASSUME OnePublisher, Typed, Typed', Streams, InPlace,
           NEW p \in Publishers, NEW b \in Batches, Publish(p, b)
    PROVE  InPlace'
<1> DEFINE n == Len(log)
           posted == [k \in 1 .. Len(b) |-> n + k]
<1>1. /\ pub[p] = Idle /\ log' = log \o b
      /\ pub' = [pub EXCEPT ![p] = [events |-> posted, boxes |-> subs]]
      /\ UNCHANGED <<subs, box, bound, gate, waking, pc, out, cursor, link, got>>
  BY DEF Publish, wires
<1>2. /\ b \in Seq(Event) /\ log \in Seq(Event) /\ n \in Nat /\ Len(b) \in Nat
      /\ DOMAIN log = 1 .. n
  BY StreamAssumption DEF Typed
<1>3. /\ log' \in Seq(Event) /\ Len(log') = n + Len(b) /\ DOMAIN log' = 1 .. n + Len(b)
      /\ \A i \in 1 .. n : log'[i] = log[i]
  BY <1>1, <1>2, ConcatProperties
<1>4. /\ \A q \in Publishers : q = p
      /\ pub'[p].events = posted /\ pub'[p].boxes = subs
  BY <1>1 DEF OnePublisher, Typed
<1>5. \A d \in Conns : \A i : ~Pending(d, i)
  BY <1>1, <1>4 DEF Pending, Idle
<1>6. ToSet(posted) = n + 1 .. n + Len(b)
  <2>1. \A i \in n + 1 .. n + Len(b) : i - n \in 1 .. Len(b) /\ posted[i - n] = i
    BY <1>2
  <2>2. DOMAIN posted = 1 .. Len(b) /\ \A k \in 1 .. Len(b) : posted[k] \in n + 1 .. n + Len(b)
    BY <1>2
  <2> HIDE DEF posted, n
  <2>3. ToSet(posted) \subseteq n + 1 .. n + Len(b)
    BY <2>2 DEF ToSet
  <2>4. n + 1 .. n + Len(b) \subseteq ToSet(posted)
    BY <2>1, <2>2 DEF ToSet
  <2> QED BY <2>3, <2>4
<1>7. Increasing(posted)
  BY <1>2 DEF Increasing
<1>8. \A x \in Clients : LastSeq(x) \in 0 .. n /\ LastSeq(x)' = LastSeq(x)
  BY <1>1, LastIsLast DEF InPlace, LastSeq
<1> HIDE DEF posted, n
<1>9. InOrderOnce'
  BY <1>1 DEF InPlace, InOrderOnce
<1>10. NeverDropFills'
  <2> SUFFICES ASSUME NEW x \in Clients, NEW i \in 1 .. LastSeq(x)',
                      x \in log'[i].seen, ~IsTick(i)'
               PROVE  i \in ToSet(got'[x])
    BY DEF NeverDropFills
  <2>1. i \in 1 .. LastSeq(x) /\ i \in 1 .. n
    BY <1>2, <1>8
  <2>2. x \in log[i].seen /\ ~IsTick(i)
    BY <1>3, <2>1 DEF IsTick
  <2> QED BY <1>1, <2>1, <2>2 DEF InPlace, NeverDropFills
<1>11. Posted'
  BY <1>4, <1>7 DEF Posted
<1>12. ASSUME NEW d \in Conns, link'[d] PROVE Queued(d)' /\ NoneMissing(d)'
  <2>1. Queued(d) /\ NoneMissing(d) /\ d \in subs /\ Owner[d] \in Clients
    BY <1>1, <1>12, StreamAssumption DEF InPlace, Streams, Linked
  <2>2. \A i : Pending(d, i)' <=> i \in n + 1 .. n + Len(b)
    BY <1>4, <1>6, <2>1 DEF Pending
  <2>3. \A i : Beyond(d, i)' <=> Beyond(d, i)
    BY <1>1, <1>8, <2>1 DEF Beyond
  <2>4. /\ \A i \in ToSet(out[d]) : i \in 1 .. n
        /\ \A i \in ToSet(box[d]) : i \in 1 .. n
        /\ cursor[d] \in 0 .. n
    BY DEF Typed, Names, ToSet, n
  <2>5. \A i \in n + 1 .. n + Len(b) : Beyond(d, i) /\ \A j \in ToSet(box[d]) : j < i
    BY <1>2, <1>8, <2>1, <2>4 DEF Beyond
  <2>6. Queued(d)'
    BY <1>1, <1>8, <2>1, <2>2, <2>3, <2>5 DEF Queued
  <2>7. NoneMissing(d)'
    <3> SUFFICES ASSUME NEW i \in DOMAIN log', Owner[d] \in log'[i].seen, ~IsTick(i)'
                 PROVE  Held(d, i)'
      BY DEF NoneMissing
    <3>1. CASE i \in 1 .. n
      <4>1. Held(d, i)
        BY <1>2, <1>3, <2>1, <3>1 DEF NoneMissing, IsTick
      <4> QED BY <1>1, <1>5, <4>1 DEF Held
    <3>2. CASE i \in n + 1 .. n + Len(b)
      BY <2>2, <3>2 DEF Held
    <3> QED BY <1>2, <1>3, <3>1, <3>2
  <2> QED BY <2>6, <2>7
<1> QED BY <1>9, <1>10, <1>11, <1>12 DEF InPlace
LEMMA InPlacePush ==
    ASSUME OnePublisher, Typed, InPlace,
           NEW p \in Publishers, NEW c \in Conns, Push(p, c)
    PROVE  InPlace'
<1> DEFINE n == Len(log)
           events == pub[p].events
           seen == Visible(events, Owner[c])
           mail == box[c] \o seen
<1>1. /\ c \in pub[p].boxes /\ pub' = [pub EXCEPT ![p].boxes = @ \ {c}]
      /\ UNCHANGED <<log, subs, bound, gate, pc, out, cursor, link, got>>
      /\ \/ seen = <<>> /\ box' = box
         \/ seen # <<>> /\ box' = [box EXCEPT ![c] = Coalesce(mail)]
  BY DEF Push
<1>2. /\ \A q \in Publishers : q = p
      /\ pub'[p].events = events /\ pub'[p].boxes = pub[p].boxes \ {c}
  BY <1>1 DEF OnePublisher, Typed
<1>3. /\ n \in Nat /\ box[c] \in Seq(1 .. n) /\ events \in Seq(1 .. n) /\ Increasing(events)
      /\ DOMAIN log = 1 .. n
  BY DEF Typed, Names, InPlace, Posted
<1>4. /\ seen \in Seq(1 .. n) /\ Increasing(seen)
      /\ ToSet(seen) = {i \in ToSet(events) : i \in DOMAIN log /\ Owner[c] \in log[i].seen}
  <2> HIDE DEF events, n
  <2> QED BY <1>3, VisibleKeeps
<1>5. \A i : Pending(c, i) <=> i \in ToSet(events)
  BY <1>1, <1>2 DEF Pending
<1>6. \A i : ~Pending(c, i)'
  BY <1>2 DEF Pending
<1>7. \A d \in Conns : d # c => \A i : Pending(d, i)' <=> Pending(d, i)
  BY <1>2 DEF Pending
<1> HIDE DEF events, n
<1>8. mail \in Seq(1 .. n) /\ ToSet(mail) = ToSet(box[c]) \cup ToSet(seen)
  BY <1>3, <1>4, ToSetConcat
<1>9. ASSUME NEW d \in Conns, d # c, link'[d] PROVE Queued(d)' /\ NoneMissing(d)'
  <2>1. Queued(d) /\ NoneMissing(d)
    BY <1>1, <1>9 DEF InPlace
  <2>2. box'[d] = box[d]
    BY <1>1, <1>9 DEF Typed
  <2> QED BY <1>1, <1>7, <1>9, <2>1, <2>2, QueuedSame
<1>10. ASSUME link'[c] PROVE Queued(c)' /\ NoneMissing(c)'
  <2>1. Queued(c) /\ NoneMissing(c)
    BY <1>1, <1>10 DEF InPlace
  <2>2. \A i \in ToSet(events) : /\ i \in DOMAIN log /\ Beyond(c, i)
                                  /\ \A j \in ToSet(box[c]) : j < i
    <3>1. ToSet(events) \subseteq DOMAIN log
      BY <1>3 DEF ToSet
    <3> QED BY <1>5, <2>1, <3>1 DEF Queued
  <2>3. Increasing(mail)
    <3>1. \A i \in ToSet(box[c]), j \in ToSet(seen) : i < j
      BY <1>4, <2>2
    <3>2. box[c] \in Seq(Nat) /\ seen \in Seq(Nat) /\ Increasing(box[c])
      BY <1>3, <1>4, <2>1 DEF Queued
    <3> QED BY <1>4, <3>1, <3>2, IncreasingConcat
  <2> HIDE DEF mail, seen
  <2>4. /\ ToSet(Coalesce(mail)) \subseteq ToSet(mail) /\ Increasing(Coalesce(mail))
        /\ \A i \in ToSet(mail) : ~IsTick(i) => i \in ToSet(Coalesce(mail))
    BY <1>3, <1>8, <2>3, CoalesceKeeps
  <2>5. /\ Increasing(box'[c]) /\ ToSet(box'[c]) \subseteq ToSet(box[c]) \cup ToSet(seen)
        /\ \A i \in ToSet(box[c]) \cup ToSet(seen) : ~IsTick(i) => i \in ToSet(box'[c])
    <3>1. CASE seen = <<>> /\ box' = box
      <4>1. ToSet(seen) = {}
        BY <3>1 DEF ToSet
      <4> QED BY <2>1, <3>1, <4>1 DEF Queued
    <3>2. CASE box' = [box EXCEPT ![c] = Coalesce(mail)]
      <4>1. box'[c] = Coalesce(mail)
        BY <3>2 DEF Typed
      <4> QED BY <1>8, <2>4, <4>1
    <3> QED BY <1>1, <3>1, <3>2
  <2>6. /\ \A i : Beyond(c, i)' <=> Beyond(c, i)
        /\ LastSeq(Owner[c])' = LastSeq(Owner[c])
    BY <1>1 DEF Beyond, LastSeq
  <2>7. \A i \in ToSet(box'[c]) : Beyond(c, i)
    BY <1>4, <2>1, <2>2, <2>5 DEF Queued
  <2>8. Queued(c)'
    BY <1>1, <1>6, <2>1, <2>5, <2>6, <2>7 DEF Queued
  <2>9. NoneMissing(c)'
    <3> SUFFICES ASSUME NEW i \in DOMAIN log, Owner[c] \in log[i].seen, ~IsTick(i)
                 PROVE  Held(c, i)'
      BY <1>1 DEF NoneMissing, IsTick
    <3>1. Held(c, i)
      BY <2>1 DEF NoneMissing
    <3>2. Pending(c, i) => i \in ToSet(seen)
      BY <1>4, <1>5
    <3>3. i \in ToSet(got[Owner[c]]) \/ i \in ToSet(out[c]) \/ i \in ToSet(box[c]) \/ i \in ToSet(seen)
      BY <3>1, <3>2 DEF Held
    <3> QED BY <1>1, <2>5, <3>3 DEF Held
  <2> QED BY <2>8, <2>9
<1>11. InOrderOnce' /\ NeverDropFills'
  BY <1>1, ReceivedSame
<1>12. Posted'
  BY <1>2, <1>3 DEF Posted
<1>13. \A d \in Conns : link'[d] => Queued(d)' /\ NoneMissing(d)'
  BY <1>9, <1>10
<1> QED BY <1>11, <1>12, <1>13 DEF InPlace

\* The first of a sequence and the others.
LEMMA HeadFirst ==
    ASSUME NEW n \in Nat, NEW s \in Seq(1 .. n), s # <<>>, Increasing(s)
    PROVE  /\ Head(s) \in 1 .. n /\ Tail(s) \in Seq(1 .. n) /\ Increasing(Tail(s))
           /\ ToSet(s) = {Head(s)} \cup ToSet(Tail(s))
           /\ \A i \in ToSet(Tail(s)) : Head(s) < i
           /\ Len(s) = 1 => Tail(s) = <<>>
<1>1. /\ Head(s) = s[1] /\ Tail(s) \in Seq(1 .. n) /\ Len(Tail(s)) = Len(s) - 1
      /\ \A k \in 1 .. Len(s) - 1 : Tail(s)[k] = s[k + 1]
      /\ Len(s) \in Nat \ {0}
  <2>1. /\ Tail(s) \in Seq(1 .. n) /\ Len(Tail(s)) = Len(s) - 1
        /\ \A k \in 1 .. Len(Tail(s)) : Tail(s)[k] = s[k + 1]
    BY HeadTailProperties
  <2>2. Len(s) \in Nat \ {0} /\ Head(s) = s[1]
    OBVIOUS
  <2> QED BY <2>1, <2>2
<1>2. /\ ToSet(s) = {s[k] : k \in 1 .. Len(s)}
      /\ ToSet(Tail(s)) = {Tail(s)[k] : k \in 1 .. Len(s) - 1}
      /\ DOMAIN Tail(s) = 1 .. Len(s) - 1 /\ DOMAIN s = 1 .. Len(s)
  <2>1. DOMAIN Tail(s) = 1 .. Len(s) - 1 /\ DOMAIN s = 1 .. Len(s)
    <3>1. DOMAIN Tail(s) = 1 .. Len(Tail(s))
      BY <1>1, LenProperties
    <3> QED BY <1>1, <3>1
  <2> QED BY <2>1 DEF ToSet
<1>3. \A k \in 1 .. Len(s) : k = 1 \/ \E j \in 1 .. Len(s) - 1 : k = j + 1
  <2> TAKE k \in 1 .. Len(s)
  <2>1. CASE k # 1
    <3>1. k - 1 \in 1 .. Len(s) - 1 /\ k = (k - 1) + 1
      BY <2>1
    <3> QED BY <3>1
  <2> QED BY <2>1
<1>4. 1 \in 1 .. Len(s) /\ \A j \in 1 .. Len(s) - 1 : j + 1 \in 1 .. Len(s) /\ 1 < j + 1
  BY <1>1
<1>5. ToSet(s) \subseteq {Head(s)} \cup ToSet(Tail(s))
  BY <1>1, <1>2, <1>3
<1>6. {Head(s)} \cup ToSet(Tail(s)) \subseteq ToSet(s)
  BY <1>1, <1>2, <1>4
<1>7. \A i \in ToSet(Tail(s)) : Head(s) < i
  BY <1>1, <1>2, <1>4 DEF Increasing
<1>8. Increasing(Tail(s))
  <2> SUFFICES ASSUME NEW j \in 1 .. Len(s) - 1, NEW k \in 1 .. Len(s) - 1, j < k
               PROVE  Tail(s)[j] < Tail(s)[k]
    BY <1>2 DEF Increasing
  <2>1. j + 1 \in DOMAIN s /\ k + 1 \in DOMAIN s /\ j + 1 < k + 1
    BY <1>1, <1>2
  <2>2. s[j + 1] < s[k + 1]
    BY <2>1 DEF Increasing
  <2> QED BY <1>1, <2>2
<1>9. Head(s) \in 1 .. n
  BY <1>1, <1>4
<1>10. Len(s) = 1 => Tail(s) = <<>>
  <2>1. Len(s) = 1 => Len(Tail(s)) = 0
    BY <1>1
  <2>2. Len(Tail(s)) = 0 => Tail(s) = <<>>
    BY <1>1, EmptySeq
  <2> QED BY <2>1, <2>2
<1> QED BY <1>1, <1>5, <1>6, <1>7, <1>8, <1>9, <1>10
\* The first of what is being sent is received: by SendReplay and by Send.
LEMMA InPlaceDeliver ==
    ASSUME Typed, Streams, InPlace, NEW c \in Conns, Deliver(c),
           UNCHANGED <<log, subs, pub, box, link>>,
           cursor' = cursor \/ cursor' = [cursor EXCEPT ![c] = Head(out[c])],
           \A d \in Conns : d # c => pc'[d] = pc[d],
           pc'[c] \in {"live", "wait"} => Len(out[c]) = 1
    PROVE  InPlace'
<1> DEFINE n == Len(log)
           x == Owner[c]
           h == Head(out[c])
<1>1. /\ link[c] /\ out[c] # <<>> /\ got' = [got EXCEPT ![x] = Append(got[x], h)]
      /\ out' = [out EXCEPT ![c] = Tail(out[c])]
  BY DEF Deliver
<1>2. /\ n \in Nat /\ DOMAIN log = 1 .. n /\ x \in Clients
      /\ out[c] \in Seq(1 .. n) /\ got[x] \in Seq(1 .. n)
  BY StreamAssumption DEF Typed, Names
<1>3. Queued(c) /\ NoneMissing(c)
  BY <1>1 DEF InPlace
<1>4. /\ h \in 1 .. n /\ Tail(out[c]) \in Seq(1 .. n) /\ Increasing(Tail(out[c]))
      /\ ToSet(out[c]) = {h} \cup ToSet(Tail(out[c]))
      /\ \A i \in ToSet(Tail(out[c])) : h < i
      /\ Len(out[c]) = 1 => Tail(out[c]) = <<>>
  <2> HIDE DEF n
  <2> QED BY <1>1, <1>2, <1>3, HeadFirst DEF Queued
<1>5. /\ got'[x] = Append(got[x], h) /\ out'[c] = Tail(out[c])
      /\ \A y \in Clients : y # x => got'[y] = got[y]
      /\ \A d \in Conns : d # c => out'[d] = out[d] /\ cursor'[d] = cursor[d]
      /\ cursor'[c] = cursor[c] \/ cursor'[c] = h
  BY <1>1, <1>2 DEF Typed
<1>6. /\ LastSeq(x) < h /\ LastSeq(x) \in 0 .. n
      /\ \A i \in ToSet(got[x]) : i =< LastSeq(x)
  BY <1>2, <1>3, <1>4, LastIsLast DEF Queued, InPlace
<1> HIDE DEF n, h
<1>7. /\ got'[x] \in Seq(1 .. n) /\ Len(got'[x]) = Len(got[x]) + 1
      /\ \A k \in 1 .. Len(got[x]) : got'[x][k] = got[x][k]
      /\ got'[x][Len(got[x]) + 1] = h /\ ToSet(got'[x]) = ToSet(got[x]) \cup {h}
  <2>1. got[x] \in Seq(1 .. n) /\ h \in 1 .. n
    BY <1>2, <1>4
  <2> HIDE DEF x
  <2>2. ToSet(Append(got[x], h)) = ToSet(got[x]) \cup {h}
    <3>1. \A s \in Seq(1 .. n), e \in 1 .. n : ToSet(Append(s, e)) = ToSet(s) \cup {e}
      BY ToSetAppend
    <3> QED BY <2>1, <3>1, Zenon
  <2>3. /\ Append(got[x], h) \in Seq(1 .. n) /\ Len(Append(got[x], h)) = Len(got[x]) + 1
        /\ \A k \in 1 .. Len(got[x]) : Append(got[x], h)[k] = got[x][k]
        /\ Append(got[x], h)[Len(got[x]) + 1] = h
    BY <2>1, AppendFacts
  <2> QED BY <1>5, <2>2, <2>3
<1>8. LastSeq(x)' = h
  <2>1. got'[x] # <<>> /\ Len(got'[x]) = Len(got[x]) + 1
    BY <1>2, <1>7
  <2> QED BY <1>7, <2>1 DEF LastSeq, Last
<1>9. \A y \in Clients : y # x => LastSeq(y)' = LastSeq(y)
  BY <1>5 DEF LastSeq
<1>10. InOrderOnce'
  <2>1. Increasing(got'[x])
    <3>1. got[x] \in Seq(Nat) /\ h \in Nat /\ Increasing(got[x])
      BY <1>2, <1>4 DEF InPlace, InOrderOnce, Increasing
    <3>2. \A j \in 1 .. Len(got[x]) : got[x][j] < h
      <4>1. \A j \in 1 .. Len(got[x]) : got[x][j] \in ToSet(got[x]) /\ got[x][j] \in 1 .. n
        BY <1>2 DEF ToSet
      <4> QED BY <1>2, <1>4, <1>6, <4>1
    <3> QED BY <1>5, <3>1, <3>2, IncreasingAppend
  <2>2. \A y \in Clients : y # x => Increasing(got'[y])
    BY <1>5 DEF InPlace, InOrderOnce, Increasing
  <2> HIDE DEF x
  <2> QED BY <2>1, <2>2 DEF InOrderOnce, Increasing
<1>11. NeverDropFills'
  <2> SUFFICES ASSUME NEW y \in Clients, NEW i \in 1 .. LastSeq(y)',
                      y \in log[i].seen, ~IsTick(i)
               PROVE  i \in ToSet(got'[y])
    BY DEF NeverDropFills, IsTick
  <2>1. CASE y # x
    BY <1>5, <1>9, <2>1 DEF InPlace, NeverDropFills
  <2>2. CASE y = x
    <3>1. i \in 1 .. n /\ i =< h
      BY <1>2, <1>4, <1>8, <2>2
    <3>2. Held(c, i)
      BY <1>2, <1>3, <2>2, <3>1 DEF NoneMissing
    <3>3. h \in ToSet(out[c])
      BY <1>4
    <3>4. i \notin ToSet(box[c])
      BY <1>3, <1>4, <3>1, <3>3 DEF Queued, Beyond
    <3>5. ~Pending(c, i)
      <4> SUFFICES ASSUME Pending(c, i) PROVE FALSE
        OBVIOUS
      <4>1. Beyond(c, i)
        BY <1>2, <1>3, <3>1 DEF Queued
      <4> QED BY <1>2, <1>4, <3>1, <3>3, <4>1 DEF Beyond
    <3>6. i \in ToSet(out[c]) => i = h
      BY <1>4, <3>1
    <3> QED BY <1>7, <2>2, <3>2, <3>4, <3>5, <3>6 DEF Held
  <2> QED BY <2>1, <2>2
<1>12. ASSUME NEW d \in Conns, d # c, link'[d] PROVE Queued(d)' /\ NoneMissing(d)'
  <2>1. link[d] /\ Queued(d) /\ NoneMissing(d) /\ Owner[d] \in Clients
    BY <1>12, StreamAssumption DEF InPlace
  <2>2. Owner[d] # x
    BY <1>1, <1>12, <2>1 DEF Streams, Linked
  <2>3. got'[Owner[d]] = got[Owner[d]] /\ out'[d] = out[d] /\ cursor'[d] = cursor[d]
    BY <1>5, <1>12, <2>1, <2>2
  <2>4. \A i \in DOMAIN log : Pending(d, i)' <=> Pending(d, i)
    BY DEF Pending
  <2> QED BY <1>12, <2>1, <2>3, <2>4, QueuedSame
<1>13. Queued(c)' /\ NoneMissing(c)'
  <2>1. \A i : Pending(c, i)' <=> Pending(c, i)
    BY DEF Pending
  <2>2. ToSet(out'[c]) \subseteq ToSet(out[c]) /\ h \in ToSet(out[c]) /\ h \notin ToSet(out'[c])
    BY <1>4, <1>5
  <2>3. \A i : Beyond(c, i) => Beyond(c, i)'
    BY <1>5, <1>8, <2>2 DEF Beyond
  <2>4. Queued(c)'
    <3>1. Increasing(out'[c]) /\ Increasing(box'[c])
      BY <1>3, <1>4, <1>5 DEF Queued
    <3>2. \A i \in ToSet(out'[c]) : LastSeq(x)' < i
      BY <1>4, <1>5, <1>8
    <3>3. pc'[c] \in {"live", "wait"} => out'[c] = <<>>
      BY <1>4, <1>5
    <3> QED BY <1>3, <2>1, <2>3, <3>1, <3>2, <3>3 DEF Queued
  <2>5. \A i : Held(c, i) => Held(c, i)'
    BY <1>4, <1>5, <1>7, <2>1 DEF Held
  <2>6. NoneMissing(c)'
    BY <1>3, <2>5 DEF NoneMissing, IsTick
  <2> QED BY <2>4, <2>6
<1>14. Posted'
  BY DEF InPlace, Posted
<1>15. \A d \in Conns : link'[d] => Queued(d)' /\ NoneMissing(d)'
  BY <1>12, <1>13
<1> QED BY <1>10, <1>11, <1>14, <1>15 DEF InPlace

LEMMA InPlaceTake ==
    ASSUME Typed, InPlace, NEW c \in Conns, Take(c)
    PROVE  InPlace'
<1> DEFINE n == Len(log)
           fresh == Fresh(box[c], cursor[c])
<1>1. \/ fresh = <<>> /\ UNCHANGED <<out, cursor>>
      \/ /\ fresh # <<>> /\ pc' = [pc EXCEPT ![c] = "send"]
         /\ cursor' = [cursor EXCEPT ![c] = Max(ToSet(fresh))]
         /\ out' = [out EXCEPT ![c] = Coalesce(fresh)]
  BY DEF Take
<1>2. /\ pc[c] = "live" \/ (pc[c] = "replay" /\ out[c] = <<>>)
      /\ UNCHANGED <<log, subs, pub, bound, waking, link, got>>
      /\ box' = [box EXCEPT ![c] = <<>>]
      /\ \E q : pc' = [pc EXCEPT ![c] = q]
  BY Zenon DEF Take
<1>3. n \in Nat /\ DOMAIN log = 1 .. n /\ box[c] \in Seq(1 .. n)
  BY DEF Typed, Names
<1> HIDE DEF n
<1>4. /\ fresh \in Seq(1 .. n) /\ ToSet(fresh) = {i \in ToSet(box[c]) : i > cursor[c]}
      /\ Increasing(box[c]) => Increasing(fresh)
  BY <1>3, FreshKeeps
<1> HIDE DEF fresh
<1>5. /\ box'[c] = <<>> /\ ToSet(box'[c]) = {} /\ Increasing(box'[c])
      /\ \A d \in Conns : d # c => /\ box'[d] = box[d] /\ out'[d] = out[d]
                                 /\ cursor'[d] = cursor[d] /\ pc'[d] = pc[d]
  BY <1>1, <1>2 DEF Typed, ToSet, Increasing
<1>6. \A d \in Conns : \A i : Pending(d, i)' <=> Pending(d, i)
  BY <1>2 DEF Pending
<1>7. ASSUME NEW d \in Conns, d # c, link'[d] PROVE Queued(d)' /\ NoneMissing(d)'
  <2>1. Queued(d) /\ NoneMissing(d)
    BY <1>2, <1>7 DEF InPlace
  <2> QED BY <1>2, <1>5, <1>6, <1>7, <2>1, QueuedSame
<1>8. ASSUME link'[c] PROVE Queued(c)' /\ NoneMissing(c)'
  <2>1. Queued(c) /\ NoneMissing(c) /\ out[c] = <<>> /\ ToSet(out[c]) = {}
    BY <1>2, <1>8 DEF InPlace, Queued, ToSet
  <2>2. ToSet(fresh) = ToSet(box[c]) /\ Increasing(fresh)
    BY <1>4, <2>1 DEF Queued, Beyond
  <2>3. /\ ToSet(Coalesce(fresh)) \subseteq ToSet(box[c]) /\ Increasing(Coalesce(fresh))
        /\ \A i \in ToSet(box[c]) : ~IsTick(i) => i \in ToSet(Coalesce(fresh))
    BY <1>3, <1>4, <2>2, CoalesceKeeps
  <2>4. LastSeq(Owner[c])' = LastSeq(Owner[c])
    BY <1>2 DEF LastSeq
  <2>5. CASE fresh = <<>> /\ UNCHANGED <<out, cursor>>
    <3>1. ToSet(box[c]) = {}
      BY <2>2, <2>5 DEF ToSet
    <3>2. \A i : Beyond(c, i)' <=> Beyond(c, i)
      BY <2>4, <2>5 DEF Beyond
    <3>3. Queued(c)'
      BY <1>2, <1>5, <1>6, <2>1, <2>4, <2>5, <3>2 DEF Queued
    <3>4. NoneMissing(c)'
      BY <1>2, <1>6, <2>1, <2>5, <3>1 DEF NoneMissing, Held, IsTick
    <3> QED BY <3>3, <3>4
  <2>6. CASE /\ fresh # <<>> /\ pc' = [pc EXCEPT ![c] = "send"]
             /\ cursor' = [cursor EXCEPT ![c] = Max(ToSet(fresh))]
             /\ out' = [out EXCEPT ![c] = Coalesce(fresh)]
    <3>1. out'[c] = Coalesce(fresh) /\ cursor'[c] = Max(ToSet(fresh)) /\ pc'[c] = "send"
      BY <2>6 DEF Typed
    <3>2. Max(ToSet(fresh)) \in ToSet(box[c])
      <4>1. fresh \in Seq(Nat)
        <5>1. 1 .. n \subseteq Nat
          BY <1>3
        <5> QED BY <1>4, <5>1, SeqMonotonic
      <4> QED BY <2>2, <2>6, <4>1, MaxOfSeq
    <3>3. \A i \in ToSet(out'[c]) : LastSeq(Owner[c])' < i
      BY <2>1, <2>3, <2>4, <3>1 DEF Queued, Beyond
    <3>4. \A i \in DOMAIN log : Pending(c, i)' => Beyond(c, i)'
      <4> SUFFICES ASSUME NEW i \in DOMAIN log, Pending(c, i) PROVE Beyond(c, i)'
        BY <1>2, <1>6
      <4>1. Beyond(c, i) /\ \A j \in ToSet(box[c]) : j < i
        BY <2>1 DEF Queued
      <4> QED BY <2>3, <2>4, <3>1, <3>2, <4>1 DEF Beyond
    <3>5. Queued(c)'
      BY <1>2, <1>5, <2>3, <3>1, <3>3, <3>4 DEF Queued
    <3>6. \A i \in DOMAIN log : ~IsTick(i) /\ Held(c, i) => Held(c, i)'
      BY <1>2, <1>6, <2>1, <2>3, <3>1 DEF Held
    <3>7. NoneMissing(c)'
      BY <1>2, <2>1, <3>6 DEF NoneMissing, IsTick
    <3> QED BY <3>5, <3>7
  <2> QED BY <1>1, <2>5, <2>6
<1>9. InOrderOnce' /\ NeverDropFills' /\ Posted'
  BY <1>2, ReceivedSame DEF InPlace, Posted
<1>10. \A d \in Conns : link'[d] => Queued(d)' /\ NoneMissing(d)'
  BY <1>7, <1>8
<1> QED BY <1>9, <1>10 DEF InPlace

LEMMA InPlaceAttach ==
    ASSUME Typed, Streams, InPlace, NEW c \in Conns, Attach(c)
    PROVE  InPlace'
<1> DEFINE x == Owner[c]
<1>1. /\ pc[c] = "new" /\ \A d \in Conns : Owner[d] = x => ~link[d]
      /\ out' = [out EXCEPT ![c] = Window(x, LastSeq(x))]
      /\ cursor' = [cursor EXCEPT ![c] = LastSeq(x)] /\ link' = [link EXCEPT ![c] = TRUE]
      /\ pc' = [pc EXCEPT ![c] = "attached"]
      /\ UNCHANGED <<log, pub, box, bound, gate, waking, got>>
  BY DEF Attach
<1>2. /\ box[c] = <<>> /\ ToSet(box[c]) = {} /\ Increasing(box[c])
      /\ \A i : ~Pending(c, i)
  BY <1>1 DEF Streams, Unopened, Pending, ToSet, Increasing
<1>3. \A d \in Conns : \A i : Pending(d, i)' <=> Pending(d, i)
  BY <1>1 DEF Pending
<1>4. \A y : LastSeq(y)' = LastSeq(y)
  BY <1>1 DEF LastSeq
<1>5. /\ ToSet(Window(x, LastSeq(x))) = {i \in DOMAIN log : i > LastSeq(x) /\ x \in log[i].seen}
      /\ Increasing(Window(x, LastSeq(x)))
  BY WindowKeeps
<1>6. /\ out'[c] = Window(x, LastSeq(x)) /\ pc'[c] = "attached"
      /\ \A d \in Conns : d # c => /\ out'[d] = out[d] /\ cursor'[d] = cursor[d]
                                 /\ pc'[d] = pc[d] /\ link'[d] = link[d]
  BY <1>1 DEF Typed
<1>7. ASSUME NEW d \in Conns, d # c, link'[d] PROVE Queued(d)' /\ NoneMissing(d)'
  <2>1. Queued(d) /\ NoneMissing(d)
    BY <1>6, <1>7 DEF InPlace
  <2> QED BY <1>1, <1>3, <1>6, <1>7, <2>1, QueuedSame
<1>8. Queued(c)'
  <2>1. \A i \in ToSet(out'[c]) : LastSeq(x)' < i
    <3>1. LastSeq(x) \in 0 .. Len(log) /\ DOMAIN log = 1 .. Len(log) /\ Len(log) \in Nat
      BY LastIsLast, StreamAssumption DEF InPlace, Typed
    <3> QED BY <1>4, <1>5, <1>6, <3>1
  <2> QED BY <1>1, <1>2, <1>3, <1>5, <1>6, <2>1 DEF Queued
<1>9. NoneMissing(c)'
  <2> SUFFICES ASSUME NEW i \in DOMAIN log, x \in log[i].seen, ~IsTick(i)
               PROVE  Held(c, i)'
    BY <1>1 DEF NoneMissing, IsTick
  <2>1. x \in Clients /\ LastSeq(x) \in 0 .. Len(log) /\ DOMAIN log = 1 .. Len(log)
    BY LastIsLast, StreamAssumption DEF InPlace, Typed
  <2>2. CASE i =< LastSeq(x)
    <3>1. i \in ToSet(got[x])
      BY <2>1, <2>2 DEF InPlace, NeverDropFills
    <3> QED BY <1>1, <3>1 DEF Held
  <2>3. CASE i > LastSeq(x)
    BY <1>5, <1>6, <2>3 DEF Held
  <2>4. i \in Nat /\ LastSeq(x) \in Nat
    BY <2>1 DEF Typed
  <2> QED BY <2>2, <2>3, <2>4
<1>10. InOrderOnce' /\ NeverDropFills' /\ Posted'
  BY <1>1, ReceivedSame DEF InPlace, Posted
<1>11. \A d \in Conns : link'[d] => Queued(d)' /\ NoneMissing(d)'
  BY <1>7, <1>8, <1>9
<1> QED BY <1>10, <1>11 DEF InPlace

LEMMA InPlaceStep ==
    OnePublisher /\ Typed /\ Typed' /\ Streams /\ InPlace /\ [Next]_vars => InPlace'
<1> SUFFICES ASSUME OnePublisher, Typed, Typed', Streams, InPlace, [Next]_vars PROVE InPlace'
  OBVIOUS
<1>1. ASSUME NEW p \in Publishers, NEW b \in Batches, Publish(p, b) PROVE InPlace'
  BY <1>1, InPlacePublish
<1>2. ASSUME NEW p \in Publishers, NEW c \in Conns, Push(p, c) PROVE InPlace'
  BY <1>2, InPlacePush
<1>3. ASSUME NEW p \in Publishers, PublishReturns(p) PROVE InPlace'
  BY <1>3, InPlaceReturns
<1>4. ASSUME NEW c \in Conns,
             Bind(c) \/ Accept(c) \/ Subscribe(c) \/ AcceptFails(c) \/ Resume(c) \/ Detach(c)
      PROVE  InPlace'
  <2>1. PICK q \in {"accept", "subscribe", "replay", "lost", "live", "closed"} :
            pc' = [pc EXCEPT ![c] = q] /\ (q = "live" => pc[c] = "wait")
    BY <1>4, Zenon DEF Bind, Accept, Subscribe, AcceptFails, Resume, Detach
  <2>2. UNCHANGED <<log, pub, box, out, cursor, got, link>>
    BY <1>4 DEF Bind, Accept, Subscribe, AcceptFails, Resume, Detach
  <2>3. \A d \in Conns : pc'[d] \in {"live", "wait"} => pc[d] \in {"live", "wait"}
    BY <2>1 DEF Typed
  <2> QED BY <2>2, <2>3, InPlaceAside
<1>5. ASSUME NEW c \in Conns, Wake(c) PROVE InPlace'
  BY <1>5, InPlaceAside DEF Wake
<1>6. ASSUME NEW c \in Conns, Drop(c) PROVE InPlace'
  <2>1. \A d \in Conns : link'[d] => link[d]
    BY <1>6, Zenon DEF Drop, Typed
  <2> QED BY <1>6, <2>1, InPlaceAside DEF Drop
<1>7. ASSUME NEW c \in Conns, SendReplay(c) PROVE InPlace'
  BY <1>7, InPlaceDeliver DEF SendReplay
<1>8. ASSUME NEW c \in Conns, Send(c) PROVE InPlace'
  <2>1. /\ pc'[c] = "live" => Len(out[c]) = 1
        /\ pc'[c] # "wait" /\ \A d \in Conns : d # c => pc'[d] = pc[d]
    BY <1>8 DEF Send, Typed
  <2> QED BY <1>8, <2>1, InPlaceDeliver DEF Send
<1>9. ASSUME NEW c \in Conns, Take(c) PROVE InPlace'
  BY <1>9, InPlaceTake
<1>10. ASSUME NEW c \in Conns, Attach(c) PROVE InPlace'
  BY <1>10, InPlaceAttach
<1>11. ASSUME UNCHANGED vars PROVE InPlace'
  <2>1. UNCHANGED <<log, pub, box, out, cursor, got, link, pc>>
    BY <1>11 DEF vars
  <2> QED BY <2>1, InPlaceAside
<1> QED BY <1>1, <1>2, <1>3, <1>4, <1>5, <1>6, <1>7, <1>8, <1>9, <1>10, <1>11
        DEF Next, Server

\* When one thread publishes, a client receives the events it may see in the order
\* of the log, none twice and no fill or news left out up to the last it received,
\* however often it drops and resumes, and whatever is pushed while the window is
\* replayed; for any clients, connections and batches.
THEOREM DeliveredAsPromisedCorrect == OnePublisher => (Spec => []DeliveredAsPromised)
<1> SUFFICES ASSUME OnePublisher PROVE Spec => []DeliveredAsPromised
  OBVIOUS
<1>1. Init => Typed /\ Streams /\ InPlace
  BY TypedInit, StreamsInit, InPlaceInit
<1>2. Typed /\ Streams /\ InPlace /\ [Next]_vars => (Typed /\ Streams /\ InPlace)'
  BY TypedStep, StreamsStep, InPlaceStep
<1>3. Typed /\ Streams /\ InPlace => DeliveredAsPromised
  BY TypedIsTypeOK DEF Streams, InPlace, DeliveredAsPromised
<1> QED BY <1>1, <1>2, <1>3, PTL DEF Spec

=============================================================================
