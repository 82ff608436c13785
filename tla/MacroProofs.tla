----------------------------- MODULE MacroProofs -----------------------------
(***************************************************************************)
(* Proofs about the government's bonds (module Bonds): an auction places   *)
(* its whole size at one yield, nobody is ever short of a bond, and what   *)
(* is outstanding was issued and not redeemed, whatever the bids, the      *)
(* steps and the resets; about the money side of a month (module           *)
(* Settlement): what the economy goes by is what the ledger says; and on   *)
(* the secondary market (module BondMarket): every unit is in one book.    *)
(***************************************************************************)
EXTENDS Bonds, Settlement, BondMarket, SequenceTheorems, FiniteSetTheorems, WellFoundedInduction, TLAPS

-----------------------------------------------------------------------------
(* Induction over numbers and over the subsets of a finite set. *)

\* A set that has 0, and n + 1 with n, has every natural number.
LEMMA Induction ==
    ASSUME NEW S, 0 \in S, \A n \in Nat : n \in S => n + 1 \in S
    PROVE  Nat \subseteq S
<1> DEFINE R == OpToRel(<, Nat)
           T == Nat \ S
<1> SUFFICES ASSUME T # {} PROVE FALSE
  OBVIOUS
<1>1. IsWellFoundedOn(R, Nat)
  BY NatLessThanWellFounded
<1>2. PICK x \in T : \A y \in T : ~(<<y, x>> \in R)
  <2>1. T \subseteq Nat
    OBVIOUS
  <2> HIDE DEF R, T
  <2> QED BY <1>1, <2>1, WFMin
<1>3. x \in Nat \ {0} /\ x - 1 \in Nat /\ x - 1 < x
  OBVIOUS
<1>4. x - 1 \in T
  BY <1>3
<1>5. <<x - 1, x>> \in R
  BY <1>3 DEF OpToRel
<1> QED BY <1>2, <1>4, <1>5

\* A set of numbers that is not empty has a least one.
LEMMA LeastExists ==
    ASSUME NEW S, S \subseteq Nat, S # {}
    PROVE  \E m \in S : \A n \in S : m =< n
<1> SUFFICES ASSUME \A m \in S : \E n \in S : n < m PROVE FALSE
  OBVIOUS
<1> DEFINE G == {n \in Nat : \A m \in 0 .. n : m \notin S}
<1>1. 0 \in G
  OBVIOUS
<1>2. ASSUME NEW n \in Nat, n \in G PROVE n + 1 \in G
  <2>1. n + 1 \notin S
    <3> SUFFICES ASSUME n + 1 \in S PROVE FALSE
      OBVIOUS
    <3>1. PICK m \in S : m < n + 1
      OBVIOUS
    <3>2. m \in 0 .. n
      BY <3>1
    <3> QED BY <1>2, <3>2
  <2>2. \A m \in 0 .. n + 1 : m = n + 1 \/ m \in 0 .. n
    OBVIOUS
  <2> QED BY <1>2, <2>1, <2>2
<1> HIDE DEF G
<1>3. Nat \subseteq G
  BY <1>1, <1>2, Induction
<1>4. \A m \in S : m \in G
  BY <1>3
<1>5. \A m \in S : m \notin S
  BY <1>4 DEF G
<1> QED BY <1>5

\* From b, step after step: f[k] is what k steps have made of b.
Iterates(f, n, b, Turn) == f[0] = b /\ \A k \in 1 .. n : f[k] = Turn[k][f[k - 1]]

LEMMA IterationExists ==
    ASSUME NEW T, NEW b \in T, NEW N \in Nat, NEW Turn \in [1 .. N -> [T -> T]]
    PROVE  \E f \in [0 .. N -> T] : Iterates(f, N, b, Turn)
<1> DEFINE Good == {n \in Nat : n =< N => \E f \in [0 .. n -> T] : Iterates(f, n, b, Turn)}
<1>1. 0 \in Good
  <2> DEFINE f == [k \in 0 .. 0 |-> b]
  <2>1. f \in [0 .. 0 -> T] /\ f[0] = b /\ 1 .. 0 = {}
    OBVIOUS
  <2> HIDE DEF f
  <2>2. Iterates(f, 0, b, Turn)
    BY <2>1 DEF Iterates
  <2> QED BY <2>1, <2>2
<1>2. ASSUME NEW n \in Nat, n \in Good
      PROVE  n + 1 \in Good
  <2> SUFFICES ASSUME n + 1 =< N
               PROVE  \E g \in [0 .. n + 1 -> T] : Iterates(g, n + 1, b, Turn)
    OBVIOUS
  <2>1. PICK f \in [0 .. n -> T] : Iterates(f, n, b, Turn)
    BY <1>2
  <2> DEFINE last == Turn[n + 1][f[n]]
             g == [k \in 0 .. n + 1 |-> IF k = n + 1 THEN last ELSE f[k]]
  <2>2. n + 1 \in 1 .. N /\ f[n] \in T
    OBVIOUS
  <2>3. last \in T
    BY <2>2
  <2>4. g \in [0 .. n + 1 -> T]
    <3> HIDE DEF last
    <3> QED BY <2>3
  <2>5. g[n + 1] = last /\ \A k \in 0 .. n : g[k] = f[k]
    OBVIOUS
  <2>6. ASSUME NEW k \in 1 .. n + 1 PROVE g[k] = Turn[k][g[k - 1]]
    <3> HIDE DEF g
    <3>1. k - 1 \in 0 .. n /\ g[k - 1] = f[k - 1]
      BY <2>5
    <3>2. CASE k = n + 1
      BY <2>5, <3>1, <3>2
    <3>3. CASE k \in 1 .. n
      BY <2>1, <2>5, <3>1, <3>3 DEF Iterates
    <3> QED BY <3>2, <3>3
  <2>7. g[0] = b
    <3> HIDE DEF g
    <3> QED BY <2>1, <2>5 DEF Iterates
  <2>8. Iterates(g, n + 1, b, Turn)
    <3> HIDE DEF g
    <3> QED BY <2>6, <2>7 DEF Iterates
  <2> HIDE DEF g
  <2> QED BY <2>4, <2>8
<1> HIDE DEF Good
<1>3. Nat \subseteq Good
  BY <1>1, <1>2, Induction
<1> QED BY <1>3 DEF Good

Picked(E) == CHOOSE e \in E : TRUE

LEMMA Smaller ==
    ASSUME NEW E, IsFiniteSet(E), E # {}
    PROVE  /\ Picked(E) \in E /\ IsFiniteSet(E \ {Picked(E)})
           /\ Cardinality(E) \in Nat /\ Cardinality(E \ {Picked(E)}) = Cardinality(E) - 1
<1>1. Picked(E) \in E
  BY DEF Picked
<1> QED BY <1>1, FS_RemoveElement, FS_CardinalityType

\* What holds of the empty set, and of a set when it holds of those that have one
\* member less, holds of every subset.
LEMMA SetInduction ==
    ASSUME NEW D, IsFiniteSet(D), NEW G, {} \in G,
           \A E \in SUBSET D : (E # {} /\ \A e \in E : E \ {e} \in G) => E \in G
    PROVE  SUBSET D \subseteq G
<1> DEFINE Good == {n \in Nat : \A E \in SUBSET D : Cardinality(E) =< n => E \in G}
<1>f. \A E \in SUBSET D : IsFiniteSet(E) /\ Cardinality(E) \in Nat
  BY FS_Subset, FS_CardinalityType
<1>1. 0 \in Good
  <2>1. \A E \in SUBSET D : Cardinality(E) =< 0 => E = {}
    BY <1>f, FS_EmptySet
  <2> QED BY <2>1
<1>2. ASSUME NEW n \in Nat, n \in Good PROVE n + 1 \in Good
  <2> SUFFICES ASSUME NEW E \in SUBSET D, Cardinality(E) =< n + 1 PROVE E \in G
    OBVIOUS
  <2>1. ASSUME NEW e \in E PROVE E \ {e} \in G
    <3>1. IsFiniteSet(E) /\ Cardinality(E) \in Nat
      BY <1>f
    <3>2. Cardinality(E \ {e}) = Cardinality(E) - 1
      BY <3>1, FS_RemoveElement
    <3>3. Cardinality(E \ {e}) =< n /\ E \ {e} \in SUBSET D
      BY <3>1, <3>2
    <3> QED BY <1>2, <3>3
  <2> QED BY <2>1
<1> HIDE DEF Good
<1>3. Nat \subseteq Good
  BY <1>1, <1>2, Induction
<1> QED BY <1>3, <1>f DEF Good

-----------------------------------------------------------------------------
(* Sums over sets. *)

SumsUpTo(s, f, n) ==
    \A E \in SUBSET DOMAIN f :
        Cardinality(E) =< n =>
            s[E] = IF E = {} THEN 0 ELSE f[Picked(E)] + s[E \ {Picked(E)}]

LEMMA SumsExist ==
    ASSUME NEW f, IsFiniteSet(DOMAIN f)
    PROVE  SumsUpTo(SumsOf(f), f, Cardinality(DOMAIN f))
<1> DEFINE D == DOMAIN f
           Good == {n \in Nat : \E s : SumsUpTo(s, f, n)}
<1>f. \A E \in SUBSET D : IsFiniteSet(E) /\ Cardinality(E) \in Nat /\ Cardinality(E) =< Cardinality(D)
  BY FS_Subset, FS_CardinalityType
<1>1. ASSUME NEW n \in Int, NEW s, SumsUpTo(s, f, n)
      PROVE  \E g : SumsUpTo(g, f, n + 1)
  <2> DEFINE g == [E \in SUBSET D |-> IF E = {} THEN 0
                                      ELSE f[Picked(E)] + s[E \ {Picked(E)}]]
  <2>1. ASSUME NEW E \in SUBSET D, E # {}, Cardinality(E) =< n + 1
        PROVE  g[E] = f[Picked(E)] + g[E \ {Picked(E)}]
    <3> DEFINE F == E \ {Picked(E)}
    <3>1. F \in SUBSET D /\ Cardinality(F) =< n
      BY <1>f, <2>1, Smaller
    <3>2. g[F] = s[F]
      BY <1>1, <3>1 DEF SumsUpTo
    <3>3. g[E] = f[Picked(E)] + s[F]
      BY <2>1
    <3> HIDE DEF g
    <3> QED BY <3>2, <3>3
  <2>2. g[{}] = 0
    OBVIOUS
  <2> HIDE DEF g
  <2>3. SumsUpTo(g, f, n + 1)
    BY <2>1, <2>2 DEF SumsUpTo
  <2> QED BY <2>3
<1>2. 0 \in Good
  <2>1. SumsUpTo(0, f, -1)
    BY <1>f DEF SumsUpTo
  <2>2. \E g : SumsUpTo(g, f, -1 + 1)
    BY <1>1, <2>1
  <2> QED BY <2>2
<1>3. ASSUME NEW n \in Nat, n \in Good
      PROVE  n + 1 \in Good
  BY <1>1, <1>3
<1> HIDE DEF Good
<1>4. Nat \subseteq Good
  BY <1>2, <1>3, Induction
<1>5. PICK s : SumsUpTo(s, f, Cardinality(D))
  <2>1. Cardinality(D) \in Nat
    BY <1>f
  <2> QED BY <1>4, <2>1 DEF Good
<1> DEFINE IsSum(h) == h = [E \in SUBSET DOMAIN f |->
                            IF E = {} THEN 0
                            ELSE LET e == CHOOSE e \in E : TRUE IN f[e] + h[E \ {e}]]
           g == [E \in SUBSET D |-> s[E]]
<1>6. \A E \in SUBSET D : g[E] = IF E = {} THEN 0 ELSE f[Picked(E)] + g[E \ {Picked(E)}]
  <2> SUFFICES ASSUME NEW E \in SUBSET D
               PROVE  g[E] = IF E = {} THEN 0 ELSE f[Picked(E)] + g[E \ {Picked(E)}]
    OBVIOUS
  <2>1. s[E] = IF E = {} THEN 0 ELSE f[Picked(E)] + s[E \ {Picked(E)}]
    BY <1>f, <1>5 DEF SumsUpTo
  <2>2. g[E] = s[E] /\ g[E \ {Picked(E)}] = s[E \ {Picked(E)}]
    OBVIOUS
  <2> QED BY <2>1, <2>2, Zenon
<1>7. IsSum(g)
  <2> DEFINE h == [E \in SUBSET DOMAIN f |->
                     IF E = {} THEN 0
                     ELSE LET e == CHOOSE e \in E : TRUE IN f[e] + g[E \ {e}]]
  <2>1. \A E \in SUBSET D : h[E] = IF E = {} THEN 0 ELSE f[Picked(E)] + g[E \ {Picked(E)}]
    BY Zenon DEF Picked
  <2>2. h = [E \in SUBSET D |-> h[E]] /\ g = [E \in SUBSET D |-> g[E]]
    OBVIOUS
  <2> HIDE DEF h, g
  <2>3. \A E \in SUBSET D : g[E] = h[E]
    BY <1>6, <2>1
  <2>4. g = h
    BY <2>2, <2>3
  <2> QED BY <2>4 DEF h
<1>8. SumsOf(f) = CHOOSE h : IsSum(h)
  BY Zenon DEF SumsOf
<1> HIDE DEF g
<1> DEFINE S == SumsOf(f)
<1>9. IsSum(S)
  <2> HIDE DEF IsSum
  <2> QED BY <1>7, <1>8
<1>10. \A E \in SUBSET D : S[E] = IF E = {} THEN 0 ELSE f[Picked(E)] + S[E \ {Picked(E)}]
  <2> DEFINE h == [E \in SUBSET DOMAIN f |->
                     IF E = {} THEN 0
                     ELSE LET e == CHOOSE e \in E : TRUE IN f[e] + S[E \ {e}]]
  <2>1. \A E \in SUBSET D : h[E] = IF E = {} THEN 0 ELSE f[Picked(E)] + S[E \ {Picked(E)}]
    BY Zenon DEF Picked
  <2>2. S = h
    BY <1>9, Zenon
  <2> HIDE DEF h, S
  <2> QED BY <2>1, <2>2
<1> HIDE DEF S
<1>11. SumsUpTo(S, f, Cardinality(D))
  BY <1>10 DEF SumsUpTo
<1> QED BY <1>11 DEF S

Summable(f) == IsFiniteSet(DOMAIN f) /\ \A d \in DOMAIN f : f[d] \in Int

\* A sum takes its members in any order.
LEMMA SumFacts ==
    ASSUME NEW f, Summable(f)
    PROVE  /\ SumOver(f, {}) = 0
           /\ \A E \in SUBSET DOMAIN f : SumOver(f, E) \in Int
           /\ \A E \in SUBSET DOMAIN f : \A e \in E : SumOver(f, E) = f[e] + SumOver(f, E \ {e})
<1> DEFINE S(E) == SumOver(f, E)
           D == DOMAIN f
           G == {E \in SUBSET D : S(E) \in Int /\ \A e \in E : S(E) = f[e] + S(E \ {e})}
<1>0. IsFiniteSet(D) /\ \A E \in SUBSET D : IsFiniteSet(E)
  BY FS_Subset DEF Summable
<1>1. \A E \in SUBSET D : S(E) = IF E = {} THEN 0 ELSE f[Picked(E)] + S(E \ {Picked(E)})
  <2>1. SumsUpTo(SumsOf(f), f, Cardinality(D))
    BY <1>0, SumsExist
  <2>2. \A E \in SUBSET D : Cardinality(E) =< Cardinality(D)
    BY <1>0, FS_Subset
  <2> QED BY <2>1, <2>2 DEF SumsUpTo, SumOver
<1> HIDE DEF S
<1>2. S({}) = 0
  <2>1. {} \in SUBSET D
    OBVIOUS
  <2> HIDE DEF D
  <2> QED BY <1>1, <2>1
<1>t. \A E \in SUBSET D : S(E) \in Int
  <2> DEFINE H == {E \in SUBSET D : S(E) \in Int}
  <2>1. {} \in H
    BY <1>2
  <2>2. ASSUME NEW E \in SUBSET D, E # {}, \A e \in E : E \ {e} \in H PROVE E \in H
    <3>1. Picked(E) \in E
      BY <1>0, <2>2, Smaller
    <3>2. S(E) = f[Picked(E)] + S(E \ {Picked(E)})
      BY <1>1, <2>2
    <3> QED BY <2>2, <3>1, <3>2 DEF Summable
  <2> HIDE DEF H
  <2>3. SUBSET D \subseteq H
    BY <1>0, <2>1, <2>2, SetInduction
  <2> QED BY <2>3 DEF H
<1>3. {} \in G
  BY <1>2
<1>4. ASSUME NEW E \in SUBSET D, E # {}, \A e \in E : E \ {e} \in G
      PROVE  E \in G
  <2> DEFINE c == Picked(E)
  <2>1. c \in E
    BY <1>0, <1>4, Smaller
  <2>2. S(E) = f[c] + S(E \ {c}) /\ S(E \ {c}) \in Int /\ f[c] \in Int
    BY <1>1, <1>4, <1>t, <2>1 DEF Summable
  <2>3. ASSUME NEW e \in E PROVE S(E) = f[e] + S(E \ {e})
    <3>1. CASE e = c
      BY <2>2, <3>1
    <3>2. CASE e # c
      <4> DEFINE F == (E \ {c}) \ {e}
      <4>1. F = (E \ {e}) \ {c} /\ F \in SUBSET D /\ e \in E \ {c} /\ c \in E \ {e}
        BY <2>1, <3>2
      <4>2. S(E \ {c}) = f[e] + S(F)
        BY <1>4, <2>1, <4>1
      <4>3. S(E \ {e}) = f[c] + S(F)
        BY <1>4, <4>1
      <4>4. S(E \ {e}) \in Int /\ f[e] \in Int
        BY <1>4 DEF Summable
      <4>5. S(F) \in Int /\ S(E) \in Int
        BY <1>t, <4>1
      <4> HIDE DEF c, F
      <4> QED BY <2>2, <4>2, <4>3, <4>4, <4>5
    <3> QED BY <3>1, <3>2
  <2>4. S(E) \in Int
    BY <1>t
  <2> HIDE DEF c
  <2> QED BY <2>3, <2>4
<1> HIDE DEF G
<1>5. SUBSET D \subseteq G
  BY <1>0, <1>3, <1>4, SetInduction
<1>6. \A E \in SUBSET D : S(E) \in Int /\ \A e \in E : S(E) = f[e] + S(E \ {e})
  BY <1>5 DEF G
<1> QED BY <1>2, <1>6 DEF S

\* A sum depends on what it adds up only.
LEMMA SumSame ==
    ASSUME NEW f, NEW g, Summable(f), Summable(g), NEW K, K \subseteq DOMAIN f, K \subseteq DOMAIN g,
           \A k \in K : f[k] = g[k]
    PROVE  SumOver(f, K) = SumOver(g, K)
<1> DEFINE G == {E \in SUBSET K : SumOver(f, E) = SumOver(g, E)}
<1>0. IsFiniteSet(K)
  BY FS_Subset DEF Summable
<1>1. {} \in G
  BY SumFacts
<1>2. ASSUME NEW E \in SUBSET K, E # {}, \A e \in E : E \ {e} \in G
      PROVE  E \in G
  <2>1. PICK e \in E : TRUE
    BY <1>2
  <2>2. E \in SUBSET DOMAIN f /\ E \in SUBSET DOMAIN g
    OBVIOUS
  <2>3. SumOver(f, E) = f[e] + SumOver(f, E \ {e}) /\ SumOver(g, E) = g[e] + SumOver(g, E \ {e})
    BY <2>1, <2>2, SumFacts
  <2> QED BY <1>2, <2>1, <2>3
<1> HIDE DEF G
<1>3. SUBSET K \subseteq G
  BY <1>0, <1>1, <1>2, SetInduction
<1> QED BY <1>3, K \in SUBSET K DEF G

\* The sums of what is itself a sum.
LEMMA SumAdds ==
    ASSUME NEW f, NEW g, NEW h, Summable(f), Summable(g), Summable(h),
           NEW K, K \subseteq DOMAIN f, K \subseteq DOMAIN g, K \subseteq DOMAIN h,
           \A k \in K : h[k] = f[k] + g[k]
    PROVE  SumOver(h, K) = SumOver(f, K) + SumOver(g, K)
<1> DEFINE G == {E \in SUBSET K : SumOver(h, E) = SumOver(f, E) + SumOver(g, E)}
<1>0. IsFiniteSet(K)
  BY FS_Subset DEF Summable
<1>1. {} \in G
  BY SumFacts
<1>2. ASSUME NEW E \in SUBSET K, E # {}, \A e \in E : E \ {e} \in G
      PROVE  E \in G
  <2>1. PICK e \in E : TRUE
    BY <1>2
  <2>2. /\ E \in SUBSET DOMAIN f /\ E \in SUBSET DOMAIN g /\ E \in SUBSET DOMAIN h
        /\ E \ {e} \in SUBSET DOMAIN f /\ E \ {e} \in SUBSET DOMAIN g
    OBVIOUS
  <2>3. /\ SumOver(f, E) = f[e] + SumOver(f, E \ {e}) /\ SumOver(g, E) = g[e] + SumOver(g, E \ {e})
        /\ SumOver(h, E) = h[e] + SumOver(h, E \ {e})
    BY <2>1, <2>2, SumFacts
  <2>4. SumOver(f, E \ {e}) \in Int /\ SumOver(g, E \ {e}) \in Int
    BY <2>2, SumFacts
  <2>5. f[e] \in Int /\ g[e] \in Int /\ h[e] = f[e] + g[e]
    BY <2>1, <2>2 DEF Summable
  <2>6. SumOver(h, E \ {e}) = SumOver(f, E \ {e}) + SumOver(g, E \ {e})
    BY <1>2, <2>1
  <2> QED BY <2>3, <2>4, <2>5, <2>6
<1> HIDE DEF G
<1>3. SUBSET K \subseteq G
  BY <1>0, <1>1, <1>2, SetInduction
<1> QED BY <1>3, K \in SUBSET K DEF G

\* A sum of what is less is less.
LEMMA SumLess ==
    ASSUME NEW f, NEW g, Summable(f), Summable(g), NEW K, K \subseteq DOMAIN f, K \subseteq DOMAIN g,
           \A k \in K : f[k] =< g[k]
    PROVE  SumOver(f, K) =< SumOver(g, K)
<1> DEFINE G == {E \in SUBSET K : SumOver(f, E) =< SumOver(g, E)}
<1>0. IsFiniteSet(K)
  BY FS_Subset DEF Summable
<1>1. {} \in G
  BY SumFacts
<1>2. ASSUME NEW E \in SUBSET K, E # {}, \A e \in E : E \ {e} \in G
      PROVE  E \in G
  <2>1. PICK e \in E : TRUE
    BY <1>2
  <2>2. /\ E \in SUBSET DOMAIN f /\ E \in SUBSET DOMAIN g
        /\ E \ {e} \in SUBSET DOMAIN f /\ E \ {e} \in SUBSET DOMAIN g
    OBVIOUS
  <2>3. SumOver(f, E) = f[e] + SumOver(f, E \ {e}) /\ SumOver(g, E) = g[e] + SumOver(g, E \ {e})
    BY <2>1, <2>2, SumFacts
  <2>4. SumOver(f, E \ {e}) \in Int /\ SumOver(g, E \ {e}) \in Int
    BY <2>2, SumFacts
  <2>5. f[e] \in Int /\ g[e] \in Int /\ f[e] =< g[e]
    BY <2>1, <2>2 DEF Summable
  <2>6. SumOver(f, E \ {e}) =< SumOver(g, E \ {e})
    BY <1>2, <2>1
  <2> QED BY <2>3, <2>4, <2>5, <2>6
<1> HIDE DEF G
<1>3. SUBSET K \subseteq G
  BY <1>0, <1>1, <1>2, SetInduction
<1> QED BY <1>3, K \in SUBSET K DEF G

\* As many times the same.
LEMMA SumConstant ==
    ASSUME NEW f, Summable(f), NEW K, K \subseteq DOMAIN f, NEW c \in Int, \A k \in K : f[k] = c
    PROVE  SumOver(f, K) = c * Cardinality(K)
<1> DEFINE G == {E \in SUBSET K : SumOver(f, E) = c * Cardinality(E)}
<1>0. IsFiniteSet(K) /\ \A E \in SUBSET K : IsFiniteSet(E) /\ Cardinality(E) \in Nat
  BY FS_Subset, FS_CardinalityType DEF Summable
<1>1. {} \in G
  BY SumFacts, FS_EmptySet
<1>2. ASSUME NEW E \in SUBSET K, E # {}, \A e \in E : E \ {e} \in G
      PROVE  E \in G
  <2>1. PICK e \in E : TRUE
    BY <1>2
  <2>2. SumOver(f, E) = f[e] + SumOver(f, E \ {e}) /\ f[e] = c
    BY <2>1, SumFacts
  <2>3. SumOver(f, E \ {e}) = c * Cardinality(E \ {e})
    BY <1>2, <2>1
  <2>4. Cardinality(E \ {e}) = Cardinality(E) - 1 /\ Cardinality(E) \in Nat
    BY <1>0, <2>1, FS_RemoveElement
  <2>5. \A n \in Nat : c + c * (n - 1) = c * n
    OBVIOUS
  <2> QED BY <2>2, <2>3, <2>4, <2>5
<1> HIDE DEF G
<1>3. SUBSET K \subseteq G
  BY <1>0, <1>1, <1>2, SetInduction
<1> QED BY <1>3, K \in SUBSET K DEF G

\* The sum over two sets that have nothing in common.
LEMMA SumDisjoint ==
    ASSUME NEW f, Summable(f), NEW A, NEW B, A \subseteq DOMAIN f, B \subseteq DOMAIN f, A \cap B = {}
    PROVE  SumOver(f, A \cup B) = SumOver(f, A) + SumOver(f, B)
<1> DEFINE G == {E \in SUBSET B : SumOver(f, A \cup E) = SumOver(f, A) + SumOver(f, E)}
<1>0. IsFiniteSet(B)
  BY FS_Subset DEF Summable
<1>1. {} \in G
  <2>1. SumOver(f, {}) = 0 /\ SumOver(f, A) \in Int /\ A \cup {} = A
    BY SumFacts
  <2> QED BY <2>1
<1>2. ASSUME NEW E \in SUBSET B, E # {}, \A e \in E : E \ {e} \in G
      PROVE  E \in G
  <2>1. PICK e \in E : TRUE
    BY <1>2
  <2>2. /\ E \in SUBSET DOMAIN f /\ A \cup E \in SUBSET DOMAIN f /\ E \ {e} \in SUBSET DOMAIN f
        /\ (A \cup E) \ {e} = A \cup (E \ {e}) /\ e \in A \cup E
    BY <2>1
  <2>3. /\ SumOver(f, E) = f[e] + SumOver(f, E \ {e})
        /\ SumOver(f, A \cup E) = f[e] + SumOver(f, A \cup (E \ {e}))
    BY <2>1, <2>2, SumFacts
  <2>4. SumOver(f, E \ {e}) \in Int /\ SumOver(f, A) \in Int /\ f[e] \in Int
    BY <2>1, <2>2, SumFacts DEF Summable
  <2>5. SumOver(f, A \cup (E \ {e})) = SumOver(f, A) + SumOver(f, E \ {e})
    BY <1>2, <2>1
  <2> QED BY <2>3, <2>4, <2>5
<1> HIDE DEF G
<1>3. SUBSET B \subseteq G
  BY <1>0, <1>1, <1>2, SetInduction
<1> QED BY <1>3, B \in SUBSET B DEF G

\* Numbers add up to a number, and to more over more.
LEMMA SumNat ==
    ASSUME NEW f, Summable(f), NEW K, K \subseteq DOMAIN f, \A k \in K : f[k] >= 0
    PROVE  /\ SumOver(f, K) \in Nat
           /\ \A E \in SUBSET K : SumOver(f, E) =< SumOver(f, K)
<1>1. ASSUME NEW E \in SUBSET K PROVE SumOver(f, E) >= 0
  <2> DEFINE zero == [k \in DOMAIN f |-> 0]
  <2>1. Summable(zero) /\ DOMAIN zero = DOMAIN f /\ \A k \in DOMAIN f : zero[k] = 0
    BY DEF Summable
  <2> HIDE DEF zero
  <2>2. SumOver(zero, E) = 0 * Cardinality(E)
    BY <2>1, SumConstant
  <2>3. Cardinality(E) \in Nat
    BY FS_Subset, FS_CardinalityType DEF Summable
  <2>4. SumOver(zero, E) =< SumOver(f, E)
    BY <2>1, SumLess
  <2>5. SumOver(f, E) \in Int
    BY SumFacts
  <2> QED BY <2>2, <2>3, <2>4, <2>5
<1>2. ASSUME NEW E \in SUBSET K PROVE SumOver(f, E) =< SumOver(f, K)
  <2>1. E \cup (K \ E) = K /\ E \cap (K \ E) = {} /\ K \ E \in SUBSET K
    OBVIOUS
  <2>2. SumOver(f, E \cup (K \ E)) = SumOver(f, E) + SumOver(f, K \ E)
    BY <2>1, SumDisjoint
  <2>3. SumOver(f, K \ E) >= 0
    BY <1>1, <2>1
  <2>4. SumOver(f, E) \in Int /\ SumOver(f, K \ E) \in Int
    BY <2>1, SumFacts
  <2>5. SumOver(f, K) = SumOver(f, E) + SumOver(f, K \ E)
    BY <2>1, <2>2, Zenon
  <2> QED BY <2>3, <2>4, <2>5
<1>3. SumOver(f, K) \in Int
  BY SumFacts
<1> QED BY <1>1, <1>2, <1>3

\* The sum of the sums over the parts that a key divides a set into.
LEMMA SumParts ==
    ASSUME NEW f, Summable(f), NEW K, K \subseteq DOMAIN f, NEW h, NEW A, IsFiniteSet(A),
           \A k \in K : h[k] \in A
    PROVE  SumOver([a \in A |-> SumOver(f, {k \in K : h[k] = a})], A) = SumOver(f, K)
<1> DEFINE of(a) == {k \in K : h[k] = a}
           in(E) == {k \in K : h[k] \in E}
           parts == [a \in A |-> SumOver(f, of(a))]
           G == {E \in SUBSET A : SumOver(parts, E) = SumOver(f, in(E))}
<1>p. DOMAIN parts = A /\ \A a \in A : parts[a] = SumOver(f, of(a))
  OBVIOUS
<1>0. Summable(parts)
  <2>1. \A a \in A : SumOver(f, of(a)) \in Int
    BY SumFacts
  <2> QED BY <1>p, <2>1 DEF Summable
<1> HIDE DEF parts
<1>1. {} \in G
  <2>1. in({}) = {}
    OBVIOUS
  <2> QED BY <1>0, <2>1, SumFacts
<1>2. ASSUME NEW E \in SUBSET A, E # {}, \A e \in E : E \ {e} \in G
      PROVE  E \in G
  <2>1. PICK e \in E : TRUE
    BY <1>2
  <2>2. SumOver(parts, E) = parts[e] + SumOver(parts, E \ {e})
    BY <1>0, <1>p, <2>1, SumFacts
  <2>3. in(E \ {e}) \cup of(e) = in(E) /\ in(E \ {e}) \cap of(e) = {}
    BY <2>1
  <2>4. in(E \ {e}) \subseteq DOMAIN f /\ of(e) \subseteq DOMAIN f
    OBVIOUS
  <2>5. SumOver(f, in(E \ {e})) \in Int /\ SumOver(f, of(e)) \in Int
    BY <2>4, SumFacts
  <2>6. SumOver(parts, E \ {e}) = SumOver(f, in(E \ {e})) /\ parts[e] = SumOver(f, of(e))
    BY <1>2, <1>p, <2>1
  <2>7. SumOver(f, in(E)) = SumOver(f, in(E \ {e})) + SumOver(f, of(e))
    <3> HIDE DEF in, of
    <3>1. SumOver(f, in(E \ {e}) \cup of(e)) = SumOver(f, in(E \ {e})) + SumOver(f, of(e))
      BY <2>3, <2>4, SumDisjoint
    <3> QED BY <2>3, <3>1
  <2>8. SumOver(parts, E) = SumOver(f, in(E))
    <3> HIDE DEF in, of
    <3> QED BY <2>2, <2>5, <2>6, <2>7
  <2> QED BY <2>8
<1> HIDE DEF G
<1>3. SUBSET A \subseteq G
  BY <1>1, <1>2, SetInduction
<1>4. in(A) = K
  OBVIOUS
<1>5. SumOver(parts, A) = SumOver(f, in(A))
  BY <1>3, A \in SUBSET A DEF G
<1> QED BY <1>4, <1>5 DEF parts

\* The sums of a table, by rows and by columns.
Rows(T, A, B) == [a \in A |-> SumOver(T[a], B)]
Columns(T, A, B) == [b \in B |-> SumOver([a \in A |-> T[a][b]], A)]

\* A table adds up to the same by its rows and by its columns.
LEMMA SumSwap ==
    ASSUME NEW A, IsFiniteSet(A), NEW B, IsFiniteSet(B), NEW T \in [A -> [B -> Int]]
    PROVE  /\ SumOver(Rows(T, A, B), A) = SumOver(Columns(T, A, B), B)
           /\ Rows(T, A, B) \in [A -> Int] /\ Columns(T, A, B) \in [B -> Int]
           /\ Summable(Rows(T, A, B)) /\ Summable(Columns(T, A, B))
<1> DEFINE row == [a \in A |-> SumOver(T[a], B)]
           col(b) == [a \in A |-> T[a][b]]
           upTo(E) == [b \in B |-> SumOver(col(b), E)]
           G == {E \in SUBSET A : SumOver(row, E) = SumOver(upTo(E), B)}
<1>1. ASSUME NEW a \in A PROVE Summable(T[a]) /\ DOMAIN T[a] = B /\ SumOver(T[a], B) \in Int
  <2>1. Summable(T[a]) /\ DOMAIN T[a] = B
    BY DEF Summable
  <2> QED BY <2>1, SumFacts
<1>2. ASSUME NEW b \in B PROVE Summable(col(b)) /\ DOMAIN col(b) = A /\ \A a \in A : col(b)[a] = T[a][b]
  BY DEF Summable
<1>3. Summable(row) /\ DOMAIN row = A /\ \A a \in A : row[a] = SumOver(T[a], B)
  BY <1>1 DEF Summable
<1> HIDE DEF row, col
<1>4. ASSUME NEW E \in SUBSET A
      PROVE  /\ Summable(upTo(E)) /\ DOMAIN upTo(E) = B
             /\ \A b \in B : upTo(E)[b] = SumOver(col(b), E) /\ SumOver(col(b), E) \in Int
  <2>1. \A b \in B : SumOver(col(b), E) \in Int
    BY <1>2, SumFacts
  <2> QED BY <2>1 DEF Summable
<1> HIDE DEF upTo
<1>5. {} \in G
  <2>1. SumOver(row, {}) = 0
    BY <1>3, SumFacts
  <2>2. \A b \in B : upTo({})[b] = 0
    BY <1>2, <1>4, SumFacts
  <2>3. SumOver(upTo({}), B) = 0 * Cardinality(B)
    BY <1>4, <2>2, SumConstant
  <2>4. Cardinality(B) \in Nat
    BY FS_CardinalityType
  <2> QED BY <2>1, <2>3, <2>4
<1>6. ASSUME NEW E \in SUBSET A, E # {}, \A e \in E : E \ {e} \in G
      PROVE  E \in G
  <2>1. PICK e \in E : TRUE
    BY <1>6
  <2>2. SumOver(row, E) = SumOver(T[e], B) + SumOver(row, E \ {e})
    BY <1>3, <2>1, SumFacts
  <2>3. SumOver(row, E \ {e}) = SumOver(upTo(E \ {e}), B)
    BY <1>6, <2>1
  <2>4. ASSUME NEW b \in B PROVE upTo(E)[b] = T[e][b] + upTo(E \ {e})[b]
    <3>1. SumOver(col(b), E) = col(b)[e] + SumOver(col(b), E \ {e})
      BY <1>2, <2>1, SumFacts
    <3> QED BY <1>2, <1>4, <2>1, <3>1
  <2>5. SumOver(upTo(E), B) = SumOver(T[e], B) + SumOver(upTo(E \ {e}), B)
    <3>1. Summable(T[e]) /\ DOMAIN T[e] = B
      BY <1>1
    <3>2. Summable(upTo(E)) /\ Summable(upTo(E \ {e})) /\ DOMAIN upTo(E) = B /\ DOMAIN upTo(E \ {e}) = B
      BY <1>4
    <3> DEFINE f == T[e]
               g == upTo(E \ {e})
               h == upTo(E)
    <3>3. Summable(f) /\ Summable(g) /\ Summable(h) /\ DOMAIN f = B /\ DOMAIN g = B /\ DOMAIN h = B
          /\ \A b \in B : h[b] = f[b] + g[b]
      BY <2>4, <3>1, <3>2
    <3> HIDE DEF f, g, h
    <3>4. SumOver(h, B) = SumOver(f, B) + SumOver(g, B)
      BY <3>3, SumAdds
    <3> QED BY <3>4 DEF f, g, h
  <2>6. SumOver(row, E) = SumOver(upTo(E), B)
    BY <2>2, <2>3, <2>5
  <2> QED BY <2>6
<1> HIDE DEF G
<1>7. SUBSET A \subseteq G
  BY <1>5, <1>6, SetInduction
<1>8. SumOver(row, A) = SumOver(upTo(A), B)
  BY <1>7, A \in SUBSET A DEF G
<1>9. row = Rows(T, A, B) /\ upTo(A) = Columns(T, A, B)
  BY DEF row, upTo, col, Rows, Columns
<1>10. row \in [A -> Int] /\ upTo(A) \in [B -> Int]
  BY <1>1, <1>4 DEF row, upTo
<1> QED BY <1>3, <1>4, <1>8, <1>9, <1>10

\* A sum of multiples.
LEMMA SumTimes ==
    ASSUME NEW f, NEW g, Summable(f), Summable(g), NEW K, K \subseteq DOMAIN f, K \subseteq DOMAIN g,
           NEW c \in Int, \A k \in K : g[k] = c * f[k]
    PROVE  SumOver(g, K) = c * SumOver(f, K)
<1> DEFINE G == {E \in SUBSET K : SumOver(g, E) = c * SumOver(f, E)}
<1>0. IsFiniteSet(K)
  BY FS_Subset DEF Summable
<1>1. {} \in G
  BY SumFacts
<1>2. ASSUME NEW E \in SUBSET K, E # {}, \A e \in E : E \ {e} \in G
      PROVE  E \in G
  <2>1. PICK e \in E : TRUE
    BY <1>2
  <2>2. E \in SUBSET DOMAIN f /\ E \in SUBSET DOMAIN g /\ E \ {e} \in SUBSET DOMAIN f
    OBVIOUS
  <2>3. SumOver(f, E) = f[e] + SumOver(f, E \ {e}) /\ SumOver(g, E) = g[e] + SumOver(g, E \ {e})
    BY <2>1, <2>2, SumFacts
  <2>4. SumOver(f, E \ {e}) \in Int /\ f[e] \in Int /\ g[e] = c * f[e]
    BY <2>1, <2>2, SumFacts DEF Summable
  <2>5. SumOver(g, E \ {e}) = c * SumOver(f, E \ {e})
    BY <1>2, <2>1
  <2>6. \A x, y \in Int : c * x + c * y = c * (x + y)
    OBVIOUS
  <2>7. SumOver(g, E) = c * SumOver(f, E)
    BY <2>3, <2>4, <2>5, <2>6
  <2> QED BY <2>7
<1> HIDE DEF G
<1>3. SUBSET K \subseteq G
  BY <1>0, <1>1, <1>2, SetInduction
<1> QED BY <1>3, K \in SUBSET K DEF G

-----------------------------------------------------------------------------
(* The auction: what clear_uniform fills. *)

BidType == [who : Agents, y : Yields, face : Nat \ {0}]

\* The face of some bids.
LEMMA FaceFacts ==
    ASSUME NEW bs \in Seq(BidType)
    PROVE  /\ IsFiniteSet(DOMAIN bs) /\ Cardinality(DOMAIN bs) = Len(bs)
           /\ \A k \in DOMAIN bs : bs[k] \in BidType
           /\ Summable([k \in DOMAIN bs |-> bs[k].face])
           /\ \A K \in SUBSET DOMAIN bs :
                 FaceOf(bs, K) \in Nat /\ \A E \in SUBSET K : FaceOf(bs, E) =< FaceOf(bs, K)
           /\ \A A, B \in SUBSET DOMAIN bs :
                 A \cap B = {} => FaceOf(bs, A \cup B) = FaceOf(bs, A) + FaceOf(bs, B)
<1> DEFINE f == [k \in DOMAIN bs |-> bs[k].face]
<1>1. DOMAIN bs = 1 .. Len(bs) /\ Len(bs) \in Nat /\ \A k \in DOMAIN bs : bs[k] \in BidType
  OBVIOUS
<1>2. IsFiniteSet(DOMAIN bs) /\ Cardinality(DOMAIN bs) = Len(bs)
  BY <1>1, FS_Interval
<1>3. Summable(f) /\ DOMAIN f = DOMAIN bs /\ \A k \in DOMAIN f : f[k] >= 0
  BY <1>1, <1>2 DEF Summable, BidType
<1>4. \A K \in SUBSET DOMAIN bs : FaceOf(bs, K) = SumOver(f, K)
  BY DEF FaceOf
<1> HIDE DEF f
<1>5. ASSUME NEW K \in SUBSET DOMAIN bs
      PROVE  FaceOf(bs, K) \in Nat /\ \A E \in SUBSET K : FaceOf(bs, E) =< FaceOf(bs, K)
  BY <1>3, <1>4, SumNat
<1>6. ASSUME NEW A \in SUBSET DOMAIN bs, NEW B \in SUBSET DOMAIN bs, A \cap B = {}
      PROVE  FaceOf(bs, A \cup B) = FaceOf(bs, A) + FaceOf(bs, B)
  <2>1. SumOver(f, A \cup B) = SumOver(f, A) + SumOver(f, B)
    BY <1>3, <1>6, SumDisjoint
  <2> QED BY <1>4, <2>1
<1> QED BY <1>1, <1>2, <1>3, <1>5, <1>6 DEF f

\* There is a yield at which the NPC takes it all, and so a stop-out.
LEMMA StopOutFacts ==
    ASSUME NEW bs \in Seq(BidType)
    PROVE  LET stop == StopOut(bs)
           IN /\ Candidates(bs) \subseteq DOMAIN NpcAt /\ stop \in Candidates(bs)
              /\ TotalAt(bs, stop) >= Size
              /\ \A z \in Candidates(bs) : z < stop => TotalAt(bs, z) < Size
<1> DEFINE C == Candidates(bs)
           Enough(y) == NpcAt[y] >= Size
           Sells(y) == TotalAt(bs, y) >= Size
<1>1. TakesAll \in DOMAIN NpcAt /\ Enough(TakesAll)
  <2>1. {y \in DOMAIN NpcAt : Enough(y)} # {} /\ {y \in DOMAIN NpcAt : Enough(y)} \subseteq Nat
    BY BondsAssumption
  <2>2. PICK m \in {y \in DOMAIN NpcAt : Enough(y)} : \A n \in {y \in DOMAIN NpcAt : Enough(y)} : m =< n
    <3> DEFINE S == {y \in DOMAIN NpcAt : Enough(y)}
    <3> HIDE DEF S
    <3>1. \E m \in S : \A n \in S : m =< n
      BY <2>1, LeastExists DEF S
    <3> QED BY <3>1 DEF S
  <2>3. \A z \in DOMAIN NpcAt : z < m => NpcAt[z] < Size
    BY <2>2, BondsAssumption
  <2>4. \E y \in DOMAIN NpcAt : NpcAt[y] >= Size /\ \A z \in DOMAIN NpcAt : z < y => NpcAt[z] < Size
    BY <2>2, <2>3
  <2> QED BY <2>4 DEF TakesAll
<1>2. C \subseteq DOMAIN NpcAt /\ DOMAIN NpcAt \subseteq Nat /\ TakesAll \in C
  <2>1. \A k \in DOMAIN bs : bs[k].y \in DOMAIN NpcAt
    BY BondsAssumption, FaceFacts DEF BidType
  <2> QED BY <1>1, <2>1, BondsAssumption DEF Candidates
<1>3. \A y \in C : TotalAt(bs, y) \in Int /\ TotalAt(bs, y) >= NpcAt[y]
  <2> SUFFICES ASSUME NEW y \in C PROVE TotalAt(bs, y) \in Int /\ TotalAt(bs, y) >= NpcAt[y]
    OBVIOUS
  <2>1. {k \in DOMAIN bs : bs[k].y =< y} \in SUBSET DOMAIN bs
    OBVIOUS
  <2>2. FaceOf(bs, {k \in DOMAIN bs : bs[k].y =< y}) \in Nat
    BY <2>1, FaceFacts
  <2>3. NpcAt[y] \in Nat
    BY <1>2, BondsAssumption
  <2> QED BY <2>2, <2>3 DEF TotalAt
<1>4. Sells(TakesAll)
  BY <1>1, <1>2, <1>3, BondsAssumption
<1>5. PICK m \in {y \in C : Sells(y)} : \A n \in {y \in C : Sells(y)} : m =< n
  <2> DEFINE S == {y \in C : Sells(y)}
  <2>1. S # {} /\ S \subseteq Nat
    BY <1>2, <1>4
  <2> HIDE DEF S
  <2>2. \E m \in S : \A n \in S : m =< n
    BY <2>1, LeastExists
  <2> QED BY <2>2 DEF S
<1>6. \A z \in C : z < m => TotalAt(bs, z) < Size
  BY <1>2, <1>3, <1>5, BondsAssumption
<1>7. \E y \in C : TotalAt(bs, y) >= Size /\ \A z \in C : z < y => TotalAt(bs, z) < Size
  BY <1>5, <1>6
<1>8. /\ StopOut(bs) \in C /\ TotalAt(bs, StopOut(bs)) >= Size
      /\ \A z \in C : z < StopOut(bs) => TotalAt(bs, z) < Size
  BY <1>7 DEF StopOut
<1> QED BY <1>2, <1>8

\* Those below, at, beyond a yield.
BidBelow(bs, y) == {k \in DOMAIN bs : bs[k].y < y}
BidAt(bs, y) == {k \in DOMAIN bs : bs[k].y = y}
BidUpTo(bs, y) == {k \in DOMAIN bs : bs[k].y =< y}

\* The bids below the stop-out do not take the whole size.
LEMMA BelowTheStop ==
    ASSUME NEW bs \in Seq(BidType)
    PROVE  /\ FaceOf(bs, BidBelow(bs, StopOut(bs))) < Size
           /\ \A k \in BidBelow(bs, StopOut(bs)) : FaceOf(bs, BidUpTo(bs, bs[k].y)) < Size
<1> DEFINE stop == StopOut(bs)
           K == BidBelow(bs, stop)
<1>1. /\ stop \in Nat /\ Size \in Nat /\ 0 < Size
      /\ \A k \in DOMAIN bs : bs[k].y \in Nat /\ bs[k].y \in Candidates(bs)
  <2>1. stop \in DOMAIN NpcAt /\ DOMAIN NpcAt \subseteq Nat /\ Candidates(bs) \subseteq DOMAIN NpcAt
    BY StopOutFacts, BondsAssumption
  <2>2. \A k \in DOMAIN bs : bs[k].y \in Candidates(bs)
    BY DEF Candidates
  <2> QED BY <2>1, <2>2, BondsAssumption
<1>2. ASSUME NEW k \in K
      PROVE  FaceOf(bs, BidUpTo(bs, bs[k].y)) < Size
  <2>1. k \in DOMAIN bs /\ bs[k].y < stop
    BY DEF BidBelow
  <2>2. TotalAt(bs, bs[k].y) < Size
    BY <1>1, <2>1, StopOutFacts
  <2>3. TotalAt(bs, bs[k].y) = FaceOf(bs, BidUpTo(bs, bs[k].y)) + NpcAt[bs[k].y]
    BY DEF TotalAt, BidUpTo
  <2>4. NpcAt[bs[k].y] \in Nat
    BY <1>1, <2>1, StopOutFacts, BondsAssumption
  <2>5. FaceOf(bs, BidUpTo(bs, bs[k].y)) \in Nat
    BY FaceFacts DEF BidUpTo
  <2> QED BY <1>1, <2>2, <2>3, <2>4, <2>5
<1>3. FaceOf(bs, K) < Size
  <2>1. CASE K = {}
    <3>1. FaceOf(bs, {}) = 0
      <4>1. Summable([k \in DOMAIN bs |-> bs[k].face])
        BY FaceFacts
      <4> QED BY <4>1, SumFacts DEF FaceOf
    <3> QED BY <1>1, <2>1, <3>1
  <2>2. CASE K # {}
    <3> DEFINE away == {stop - bs[k].y : k \in K}
    <3>1. away # {} /\ away \subseteq Nat
      BY <1>1, <2>2 DEF BidBelow
    <3>2. PICK m \in away : \A n \in away : m =< n
      <4> HIDE DEF away
      <4> QED BY <3>1, LeastExists
    <3>3. PICK k \in K : m = stop - bs[k].y
      BY <3>2
    <3>4. \A j \in K : bs[j].y =< bs[k].y
      <4> SUFFICES ASSUME NEW j \in K PROVE bs[j].y =< bs[k].y
        OBVIOUS
      <4>1. stop - bs[k].y =< stop - bs[j].y
        BY <3>2, <3>3
      <4>2. bs[j].y \in Nat /\ bs[k].y \in Nat
        BY <1>1 DEF BidBelow
      <4> QED BY <1>1, <4>1, <4>2
    <3>5. K \in SUBSET BidUpTo(bs, bs[k].y)
      BY <3>4 DEF BidBelow, BidUpTo
    <3>6. FaceOf(bs, K) =< FaceOf(bs, BidUpTo(bs, bs[k].y))
      <4>1. BidUpTo(bs, bs[k].y) \in SUBSET DOMAIN bs
        BY DEF BidUpTo
      <4> QED BY <3>5, <4>1, FaceFacts
    <3>7. FaceOf(bs, K) \in Nat /\ FaceOf(bs, BidUpTo(bs, bs[k].y)) \in Nat
      BY FaceFacts DEF BidUpTo, BidBelow
    <3> QED BY <1>1, <1>2, <3>6, <3>7
  <2> QED BY <2>1, <2>2
<1> QED BY <1>2, <1>3

LEMMA Multiples ==
    ASSUME NEW g \in Nat \ {0}
    PROVE  \A a, b \in Nat : g * a =< b * g => a =< b
<1> SUFFICES ASSUME NEW a \in Nat, NEW b \in Nat, a > b PROVE g * a > b * g
  OBVIOUS
<1>1. a = b + (a - b) /\ a - b \in Nat /\ a - b >= 1
  OBVIOUS
<1>2. g * a = b * g + g * (a - b)
  OBVIOUS
<1>3. g * (a - b) >= g
  BY <1>1
<1>4. g * (a - b) \in Int /\ b * g \in Int
  OBVIOUS
<1> QED BY <1>2, <1>3, <1>4

\* A part r of g of a whole f, rounded down.
LEMMA ProRata ==
    ASSUME NEW f \in Nat, NEW r \in Nat, NEW g \in Nat \ {0}
    PROVE  LET q == (f * r) \div g
           IN /\ q \in Nat /\ g * q =< f * r /\ f * r < g * (q + 1)
              /\ r =< g => q =< f
<1> DEFINE x == f * r
           q == x \div g
<1>1. x \in Nat
  OBVIOUS
<1> HIDE DEF x
<1>2. q \in Nat /\ g * q =< x /\ x < g * (q + 1)
  BY <1>1
<1>3. ASSUME r =< g PROVE q =< f
  <2>1. x =< f * g
    BY <1>3 DEF x
  <2>2. \A a, b \in Nat : g * a =< b * g => a =< b
    BY Multiples
  <2>3. g * q =< f * g
    <3> HIDE DEF q
    <3>1. g * q \in Int /\ f * g \in Int
      BY <1>2
    <3> QED BY <1>1, <1>2, <2>1, <3>1
  <2> HIDE DEF q
  <2> QED BY <1>2, <2>2, <2>3
<1> QED BY <1>2, <1>3 DEF x

Left(bs) == Size - FaceOf(bs, BidBelow(bs, StopOut(bs)))
AtStop(bs) == FaceOf(bs, BidAt(bs, StopOut(bs)))

\* Below the stop-out a bid is filled whole, at it pro rata, beyond it not at all.
LEMMA FillFacts ==
    ASSUME NEW bs \in Seq(BidType), NEW k \in DOMAIN bs
    PROVE  LET stop == StopOut(bs)
               fill == Fill(bs, stop, k)
           IN /\ bs[k].face \in Nat /\ bs[k].y \in Nat /\ stop \in Nat
              /\ Left(bs) \in Nat \ {0} /\ AtStop(bs) \in Nat
              /\ fill \in 0 .. bs[k].face
              /\ bs[k].y < stop => fill = bs[k].face
              /\ bs[k].y > stop => fill = 0
              /\ bs[k].y = stop =>
                    fill = IF AtStop(bs) =< Left(bs) THEN bs[k].face
                           ELSE (bs[k].face * Left(bs)) \div AtStop(bs)
<1> DEFINE stop == StopOut(bs)
           y == bs[k].y
           fill == Fill(bs, stop, k)
           before == FaceOf(bs, BidBelow(bs, y))
           group == FaceOf(bs, BidAt(bs, y))
<1>1. y \in Nat /\ stop \in Nat /\ bs[k].face \in Nat /\ Size \in Nat
  <2>1. y \in Nat /\ bs[k].face \in Nat
    BY FaceFacts, BondsAssumption DEF BidType
  <2> QED BY <2>1, StopOutFacts, BondsAssumption
<1>2. before \in Nat /\ group \in Nat /\ FaceOf(bs, BidBelow(bs, stop)) \in Nat /\ AtStop(bs) \in Nat
  BY FaceFacts DEF BidBelow, BidAt, AtStop
<1>3. Left(bs) \in Nat \ {0}
  BY <1>1, <1>2, BelowTheStop DEF Left
<1>4. fill = IF y > stop THEN 0
             ELSE IF group =< AtLeast0(Size - before) THEN bs[k].face
             ELSE (bs[k].face * AtLeast0(Size - before)) \div group
  BY DEF Fill, BidBelow, BidAt
<1>5. CASE y < stop
  <2>1. k \in BidBelow(bs, stop)
    BY <1>5 DEF BidBelow
  <2>2. FaceOf(bs, BidUpTo(bs, y)) < Size
    BY <2>1, BelowTheStop
  <2>3. FaceOf(bs, BidUpTo(bs, y)) = before + group
    <3>1. BidBelow(bs, y) \cup BidAt(bs, y) = BidUpTo(bs, y) /\ BidBelow(bs, y) \cap BidAt(bs, y) = {}
      <4>1. \A j \in DOMAIN bs : bs[j].y \in Nat
        BY FaceFacts, BondsAssumption DEF BidType
      <4> QED BY <1>1, <4>1 DEF BidBelow, BidAt, BidUpTo
    <3>2. BidBelow(bs, y) \in SUBSET DOMAIN bs /\ BidAt(bs, y) \in SUBSET DOMAIN bs
      BY DEF BidBelow, BidAt
    <3>3. FaceOf(bs, BidBelow(bs, y) \cup BidAt(bs, y)) = before + group
      BY <3>1, <3>2, FaceFacts
    <3> QED BY <3>1, <3>3
  <2> HIDE DEF y, stop, fill, before, group
  <2>4. group =< AtLeast0(Size - before)
    BY <1>1, <1>2, <2>2, <2>3 DEF AtLeast0
  <2>5. fill = bs[k].face
    BY <1>1, <1>4, <1>5, <2>4
  <2> QED BY <1>1, <1>2, <1>3, <1>5, <2>5 DEF y, stop, fill
<1>6. CASE y = stop
  <2>1. AtLeast0(Size - before) = Left(bs) /\ group = AtStop(bs)
    BY <1>1, <1>2, <1>3, <1>6 DEF AtLeast0, Left, AtStop
  <2>2. fill = IF AtStop(bs) =< Left(bs) THEN bs[k].face
               ELSE (bs[k].face * Left(bs)) \div AtStop(bs)
    <3> HIDE DEF fill, y, stop, before, group
    <3> QED BY <1>1, <1>4, <1>6, <2>1
  <2>3. fill \in 0 .. bs[k].face
    <3> HIDE DEF fill
    <3>1. CASE AtStop(bs) =< Left(bs)
      BY <1>1, <2>2, <3>1
    <3>2. CASE ~(AtStop(bs) =< Left(bs))
      <4> DEFINE q == (bs[k].face * Left(bs)) \div AtStop(bs)
      <4>1. AtStop(bs) \in Nat \ {0} /\ Left(bs) =< AtStop(bs) /\ Left(bs) \in Nat
        BY <1>2, <1>3, <3>2
      <4>2. q \in Nat /\ q =< bs[k].face
        BY <1>1, <4>1, ProRata
      <4>3. fill = q
        BY <2>2, <3>2
      <4> HIDE DEF q
      <4> QED BY <1>1, <4>2, <4>3
    <3> QED BY <3>1, <3>2
  <2> HIDE DEF fill, y, stop
  <2> QED BY <1>1, <1>2, <1>3, <1>6, <2>2, <2>3 DEF fill, y, stop
<1>7. CASE y > stop
  <2> HIDE DEF y, stop, fill, before, group
  <2>1. fill = 0
    BY <1>4, <1>7
  <2> QED BY <1>1, <1>2, <1>3, <1>7, <2>1 DEF y, stop, fill
<1> HIDE DEF y, stop
<1>8. y < stop \/ y = stop \/ y > stop
  BY <1>1
<1> QED BY <1>5, <1>6, <1>7, <1>8

FilledOf(bs) == [k \in DOMAIN bs |-> Fill(bs, StopOut(bs), k)]

LEMMA FilledFacts ==
    ASSUME NEW bs \in Seq(BidType)
    PROVE  /\ Summable(FilledOf(bs)) /\ DOMAIN FilledOf(bs) = DOMAIN bs
           /\ \A k \in DOMAIN bs : FilledOf(bs)[k] = Fill(bs, StopOut(bs), k)
                                   /\ FilledOf(bs)[k] \in Nat
<1>1. \A k \in DOMAIN bs : FilledOf(bs)[k] = Fill(bs, StopOut(bs), k) /\ FilledOf(bs)[k] \in Nat
  <2>1. \A k \in DOMAIN bs : FilledOf(bs)[k] = Fill(bs, StopOut(bs), k)
    BY DEF FilledOf
  <2>2. ASSUME NEW k \in DOMAIN bs PROVE Fill(bs, StopOut(bs), k) \in Nat
    <3>1. Fill(bs, StopOut(bs), k) \in 0 .. bs[k].face /\ bs[k].face \in Nat
      BY FillFacts
    <3> QED BY <3>1
  <2> QED BY <2>1, <2>2
<1>2. IsFiniteSet(DOMAIN bs) /\ DOMAIN FilledOf(bs) = DOMAIN bs
  BY FaceFacts DEF FilledOf
<1> QED BY <1>1, <1>2 DEF Summable

\* Those at the stop-out share what is left, less than one unit each unplaced.
LEMMA FilledAtStop ==
    ASSUME NEW bs \in Seq(BidType)
    PROVE  LET some == SumOver(FilledOf(bs), BidAt(bs, StopOut(bs)))
           IN /\ some \in Nat
              /\ AtStop(bs) =< Left(bs) => some = AtStop(bs)
              /\ AtStop(bs) > Left(bs) => some =< Left(bs) /\ Left(bs) =< some + Len(bs)
<1> DEFINE G == BidAt(bs, StopOut(bs))
           F == FilledOf(bs)
           face == [k \in DOMAIN bs |-> bs[k].face]
           g == AtStop(bs)
           r == Left(bs)
<1>1. /\ Summable(F) /\ DOMAIN F = DOMAIN bs /\ G \subseteq DOMAIN bs
      /\ Summable(face) /\ DOMAIN face = DOMAIN bs /\ \A k \in DOMAIN bs : face[k] = bs[k].face
      /\ IsFiniteSet(DOMAIN bs) /\ Cardinality(DOMAIN bs) = Len(bs)
      /\ g = SumOver(face, G)
      /\ \A k \in G : F[k] \in Nat /\ face[k] \in Nat
                      /\ F[k] = IF g =< r THEN face[k] ELSE (face[k] * r) \div g
  <2>1. \A k \in G : k \in DOMAIN bs /\ bs[k].y = StopOut(bs)
    BY DEF BidAt
  <2>2. /\ Summable(F) /\ DOMAIN F = DOMAIN bs
        /\ \A k \in DOMAIN bs : F[k] = Fill(bs, StopOut(bs), k) /\ F[k] \in Nat
    BY FilledFacts
  <2>3. g = SumOver(face, G)
    BY DEF AtStop, FaceOf
  <2>4. /\ IsFiniteSet(DOMAIN bs) /\ Cardinality(DOMAIN bs) = Len(bs) /\ Summable(face)
    BY FaceFacts
  <2>5. \A k \in G : /\ bs[k].face \in Nat
                     /\ Fill(bs, StopOut(bs), k) = IF g =< r THEN bs[k].face ELSE (bs[k].face * r) \div g
    BY <2>1, FillFacts
  <2>6. DOMAIN face = DOMAIN bs /\ \A k \in DOMAIN bs : face[k] = bs[k].face
    OBVIOUS
  <2> HIDE DEF F, face, G, g, r
  <2> QED BY <2>1, <2>2, <2>3, <2>4, <2>5, <2>6
<1>2. G # {} => g \in Nat /\ r \in Nat
  <2>1. \A k \in G : k \in DOMAIN bs
    BY DEF BidAt
  <2> QED BY <2>1, FillFacts
<1>2a. g \in Nat /\ r \in Int
  <2>1. FaceOf(bs, BidBelow(bs, StopOut(bs))) \in Nat /\ AtStop(bs) \in Nat
    BY FaceFacts DEF BidBelow, BidAt, AtStop
  <2> QED BY <2>1, BondsAssumption DEF Left
<1>2b. r \in Nat
  <2>1. FaceOf(bs, BidBelow(bs, StopOut(bs))) \in Nat
    BY FaceFacts DEF BidBelow
  <2> QED BY <2>1, BelowTheStop, BondsAssumption DEF Left
<1> HIDE DEF F, face, G, g, r
<1>3. SumOver(F, G) \in Nat
  BY <1>1, SumNat
<1>4. ASSUME g =< r PROVE SumOver(F, G) = g
  <2>1. \A k \in G : F[k] = face[k]
    BY <1>1, <1>4
  <2> QED BY <1>1, <2>1, SumSame
<1>5. ASSUME g > r PROVE SumOver(F, G) =< r /\ r =< SumOver(F, G) + Len(bs)
  <2> DEFINE low == [k \in G |-> g * F[k]]
             mid == [k \in G |-> r * face[k]]
             more == [k \in G |-> F[k] + 1]
             high == [k \in G |-> g * more[k]]
             one == [k \in G |-> 1]
             S == SumOver(F, G)
             n == Cardinality(G)
  <2>0. IsFiniteSet(G) /\ n \in Nat /\ n =< Len(bs)
    BY <1>1, FS_Subset, FS_CardinalityType
  <2>1. g \in Nat \ {0} /\ r \in Nat
    BY <1>2a, <1>2b, <1>5
  <2>2. ASSUME NEW k \in G
        PROVE  low[k] \in Int /\ mid[k] \in Int /\ high[k] \in Int /\ low[k] =< mid[k] /\ mid[k] =< high[k]
    <3> DEFINE q == (face[k] * r) \div g
    <3>1. face[k] \in Nat /\ F[k] = q
      BY <1>1, <1>5, <2>1
    <3>2. q \in Nat /\ g * q =< face[k] * r /\ face[k] * r < g * (q + 1)
      BY <2>1, <3>1, ProRata
    <3>3. low[k] = g * F[k] /\ mid[k] = r * face[k] /\ high[k] = g * (F[k] + 1)
      OBVIOUS
    <3> HIDE DEF q, low, mid, high
    <3>4. r * face[k] = face[k] * r /\ r * face[k] \in Int /\ g * F[k] \in Int /\ g * (F[k] + 1) \in Int
      BY <2>1, <3>1, <3>2
    <3> QED BY <3>1, <3>2, <3>3, <3>4
  <2>3. /\ Summable(low) /\ Summable(mid) /\ Summable(high) /\ Summable(more) /\ Summable(one)
        /\ DOMAIN low = G /\ DOMAIN mid = G /\ DOMAIN high = G /\ DOMAIN more = G /\ DOMAIN one = G
    <3>1. DOMAIN low = G /\ DOMAIN mid = G /\ DOMAIN high = G /\ DOMAIN more = G /\ DOMAIN one = G
      OBVIOUS
    <3>2. \A k \in G : more[k] \in Int /\ one[k] \in Int
      BY <1>1
    <3> HIDE DEF low, mid, high, more, one
    <3> QED BY <2>0, <2>2, <3>1, <3>2 DEF Summable
  <2>4. \A k \in G : /\ low[k] = g * F[k] /\ mid[k] = r * face[k] /\ more[k] = F[k] + one[k]
                     /\ high[k] = g * more[k] /\ one[k] = 1
    OBVIOUS
  <2> HIDE DEF low, mid, high, more, one
  <2>5. SumOver(low, G) = g * S /\ SumOver(mid, G) = r * g
    BY <1>1, <2>1, <2>3, <2>4, SumTimes
  <2>6. SumOver(more, G) = S + n
    <3>1. SumOver(one, G) = 1 * n
      BY <2>3, <2>4, SumConstant
    <3>2. /\ Summable(F) /\ Summable(one) /\ Summable(more)
          /\ G \subseteq DOMAIN F /\ G \subseteq DOMAIN one /\ G \subseteq DOMAIN more
          /\ \A k \in G : more[k] = F[k] + one[k]
      BY <1>1, <2>3, <2>4
    <3>3. SumOver(more, G) = SumOver(F, G) + SumOver(one, G)
      BY <3>2, SumAdds
    <3> QED BY <2>0, <3>1, <3>3
  <2>7. SumOver(high, G) = g * (S + n)
    BY <2>1, <2>3, <2>4, <2>6, SumTimes
  <2>8. SumOver(low, G) =< SumOver(mid, G) /\ SumOver(mid, G) =< SumOver(high, G)
    BY <2>2, <2>3, SumLess
  <2>9. g * S =< r * g /\ r * g =< g * (S + n) /\ S \in Nat
    BY <1>3, <2>5, <2>7, <2>8
  <2>10. \A a, b \in Nat : g * a =< b * g => a =< b
    BY <2>1, Multiples
  <2>11. S =< r /\ r =< S + n
    <3> HIDE DEF S, n
    <3>1. g * r = r * g /\ (S + n) * g = g * (S + n) /\ S + n \in Nat
      BY <2>0, <2>1, <2>9
    <3> QED BY <2>1, <2>9, <2>10, <3>1
  <2> QED BY <1>3, <2>0, <2>1, <2>11
<1> QED BY <1>2a, <1>2b, <1>3, <1>4, <1>5 DEF F, G, g, r

\* What all bids are filled with: no more than the size, and all of it but what the
\* NPC offers at the stop-out and what rounding has left.
LEMMA FilledInAll ==
    ASSUME NEW bs \in Seq(BidType)
    PROVE  LET all == SumOver(FilledOf(bs), DOMAIN bs)
           IN /\ all \in 0 .. Size
              /\ Size - all =< NpcAt[StopOut(bs)] + Len(bs)
<1> DEFINE stop == StopOut(bs)
           F == FilledOf(bs)
           face == [k \in DOMAIN bs |-> bs[k].face]
           B == BidBelow(bs, stop)
           G == BidAt(bs, stop)
           A == DOMAIN bs \ (B \cup G)
           all == SumOver(F, DOMAIN bs)
           some == SumOver(F, G)
           below == FaceOf(bs, B)
<1>1. /\ Summable(F) /\ DOMAIN F = DOMAIN bs /\ \A k \in DOMAIN bs : F[k] = Fill(bs, stop, k)
      /\ Summable(face) /\ DOMAIN face = DOMAIN bs /\ \A k \in DOMAIN bs : face[k] = bs[k].face
  <2>1. DOMAIN face = DOMAIN bs /\ \A k \in DOMAIN bs : face[k] = bs[k].face
    OBVIOUS
  <2>2. Summable(face)
    BY FaceFacts
  <2> HIDE DEF face
  <2> QED BY <2>1, <2>2, FilledFacts
<1>2. \A k \in DOMAIN bs : bs[k].y \in Nat
  BY FaceFacts, BondsAssumption DEF BidType
<1>3. stop \in Nat /\ Size \in Nat /\ NpcAt[stop] \in Nat /\ Len(bs) \in Nat
  BY StopOutFacts, BondsAssumption
<1>4. /\ B \subseteq DOMAIN bs /\ G \subseteq DOMAIN bs /\ A \subseteq DOMAIN bs
      /\ B \cap G = {} /\ (B \cup G) \cap A = {} /\ (B \cup G) \cup A = DOMAIN bs
      /\ BidUpTo(bs, stop) = B \cup G
      /\ \A k \in A : bs[k].y > stop
  <2>1. B \subseteq DOMAIN bs /\ G \subseteq DOMAIN bs /\ A \subseteq DOMAIN bs
    BY DEF BidBelow, BidAt
  <2>2. B \cap G = {} /\ BidUpTo(bs, stop) = B \cup G
    BY <1>2, <1>3 DEF BidBelow, BidAt, BidUpTo
  <2>3. \A k \in A : bs[k].y > stop
    BY <1>2, <1>3 DEF BidBelow, BidAt
  <2> HIDE DEF B, G
  <2>4. (B \cup G) \cap A = {} /\ (B \cup G) \cup A = DOMAIN bs
    BY <2>1
  <2> HIDE DEF A
  <2> QED BY <2>1, <2>2, <2>3, <2>4
<1>5. SumOver(F, B) = below
  <2>1. \A k \in B : F[k] = face[k]
    <3> SUFFICES ASSUME NEW k \in B PROVE F[k] = face[k]
      OBVIOUS
    <3>1. k \in DOMAIN bs /\ bs[k].y < stop
      BY DEF BidBelow
    <3> HIDE DEF F, face
    <3> QED BY <1>1, <3>1, FillFacts
  <2>2. below = SumOver(face, B)
    BY DEF FaceOf
  <2> HIDE DEF F, face, B
  <2> QED BY <1>1, <1>4, <2>1, <2>2, SumSame
<1>6. SumOver(F, A) = 0
  <2>1. \A k \in A : F[k] = 0
    <3> SUFFICES ASSUME NEW k \in A PROVE F[k] = 0
      OBVIOUS
    <3>1. k \in DOMAIN bs /\ bs[k].y > stop
      BY <1>4
    <3> HIDE DEF F
    <3> QED BY <1>1, <3>1, FillFacts
  <2> HIDE DEF F, A
  <2>2. SumOver(F, A) = 0 * Cardinality(A)
    BY <1>1, <1>4, <2>1, SumConstant
  <2>3. Cardinality(A) \in Nat
    BY <1>1, <1>4, FS_Subset, FS_CardinalityType DEF Summable
  <2> QED BY <2>2, <2>3
<1>7. /\ some \in Nat
      /\ AtStop(bs) =< Left(bs) => some = AtStop(bs)
      /\ AtStop(bs) > Left(bs) => some =< Left(bs) /\ Left(bs) =< some + Len(bs)
  BY FilledAtStop
<1>8. below \in Nat /\ AtStop(bs) \in Nat /\ Left(bs) = Size - below
  BY <1>4, FaceFacts DEF Left, AtStop
<1>9. below + AtStop(bs) + NpcAt[stop] >= Size /\ below < Size
  <2>1. TotalAt(bs, stop) >= Size
    BY StopOutFacts
  <2>2. TotalAt(bs, stop) = FaceOf(bs, BidUpTo(bs, stop)) + NpcAt[stop]
    BY DEF TotalAt, BidUpTo
  <2>3. FaceOf(bs, B \cup G) = below + AtStop(bs)
    <3>1. FaceOf(bs, B \cup G) = FaceOf(bs, B) + FaceOf(bs, G)
      <4> HIDE DEF B, G
      <4> QED BY <1>4, FaceFacts
    <3> QED BY <3>1 DEF AtStop
  <2>4. below < Size
    BY BelowTheStop
  <2>5. TotalAt(bs, stop) = below + AtStop(bs) + NpcAt[stop]
    BY <1>4, <2>2, <2>3
  <2> HIDE DEF stop, below
  <2> QED BY <2>1, <2>4, <2>5
<1>10. all = below + some
  <2> HIDE DEF F, B, G, A, below
  <2>1. SumOver(F, (B \cup G) \cup A) = SumOver(F, B \cup G) + SumOver(F, A)
    BY <1>1, <1>4, SumDisjoint
  <2>2. SumOver(F, B \cup G) = SumOver(F, B) + SumOver(F, G)
    BY <1>1, <1>4, SumDisjoint
  <2>3. all = SumOver(F, B \cup G) + SumOver(F, A)
    BY <1>4, <2>1
  <2>4. SumOver(F, B \cup G) = below + some
    BY <1>5, <2>2
  <2> QED BY <1>6, <1>7, <1>8, <2>3, <2>4
<1> HIDE DEF all, some, below, stop
<1> QED BY <1>3, <1>7, <1>8, <1>9, <1>10 DEF all, stop

\* The results that an auction may have.
ResultType == [slot : Slots, stop : DOMAIN NpcAt, fill : [Agents -> Nat], npc : 0 .. Size]

\* What one result promises of the bids it came from (Bonds.ClearsAtOneYield).
Fair1(bs, r) ==
    /\ r.npc + SumOver(r.fill, Agents) = Size
    /\ \A a \in Agents : r.fill[a] \in Below(bs, a, r.stop) .. UpTo(bs, a, r.stop)
    /\ r.npc =< NpcAt[r.stop] + Len(bs)

LEMMA ClearedFacts ==
    ASSUME NEW bs \in Seq(BidType), NEW s \in Slots
    PROVE  Cleared(s, bs) \in ResultType /\ Cleared(s, bs).slot = s /\ Fair1(bs, Cleared(s, bs))
<1> DEFINE stop == StopOut(bs)
           F == FilledOf(bs)
           face == [k \in DOMAIN bs |-> bs[k].face]
           mine(a) == {k \in DOMAIN bs : bs[k].who = a}
           fills == [a \in Agents |-> SumOver(F, mine(a))]
           all == SumOver(F, DOMAIN bs)
           npc == AtLeast0(Size - SumOver(fills, Agents))
           r == Cleared(s, bs)
<1>1. /\ Summable(F) /\ DOMAIN F = DOMAIN bs
      /\ \A k \in DOMAIN bs : F[k] = Fill(bs, stop, k) /\ F[k] \in Nat
      /\ Summable(face) /\ DOMAIN face = DOMAIN bs /\ \A k \in DOMAIN bs : face[k] = bs[k].face
      /\ \A k \in DOMAIN bs : bs[k].who \in Agents /\ bs[k].y \in Nat /\ bs[k].face \in Nat
  <2>1. DOMAIN face = DOMAIN bs /\ \A k \in DOMAIN bs : face[k] = bs[k].face
    OBVIOUS
  <2>2. Summable(face)
    BY FaceFacts
  <2>3. \A k \in DOMAIN bs : bs[k].who \in Agents /\ bs[k].y \in Nat /\ bs[k].face \in Nat
    BY FaceFacts, BondsAssumption DEF BidType
  <2> HIDE DEF face
  <2> QED BY <2>1, <2>2, <2>3, FilledFacts
<1>2. r = [slot |-> s, stop |-> stop, fill |-> fills, npc |-> npc]
  BY DEF Cleared, FilledOf
<1>3. stop \in DOMAIN NpcAt /\ stop \in Nat /\ Size \in Nat /\ NpcAt[stop] \in Nat /\ Len(bs) \in Nat
  BY StopOutFacts, BondsAssumption
<1>4. \A a \in Agents : fills[a] = SumOver(F, mine(a)) /\ fills[a] \in Nat
  <2> SUFFICES ASSUME NEW a \in Agents PROVE fills[a] = SumOver(F, mine(a)) /\ fills[a] \in Nat
    OBVIOUS
  <2>1. mine(a) \subseteq DOMAIN bs
    OBVIOUS
  <2>2. SumOver(F, mine(a)) \in Nat
    <3> HIDE DEF mine, F
    <3> QED BY <1>1, <2>1, SumNat
  <2> QED BY <2>2
<1>5. fills \in [Agents -> Nat]
  <2>1. fills = [a \in Agents |-> fills[a]]
    OBVIOUS
  <2> HIDE DEF fills
  <2> QED BY <1>4, <2>1
<1>6. SumOver(fills, Agents) = all
  <2> DEFINE h == [k \in DOMAIN bs |-> bs[k].who]
  <2>1. \A k \in DOMAIN bs : h[k] \in Agents /\ h[k] = bs[k].who
    BY <1>1
  <2> HIDE DEF h
  <2>2. SumOver([a \in Agents |-> SumOver(F, {k \in DOMAIN bs : h[k] = a})], Agents)
          = SumOver(F, DOMAIN bs)
    <3> DEFINE K == DOMAIN bs
    <3>1. Summable(F) /\ K \subseteq DOMAIN F /\ IsFiniteSet(Agents) /\ \A k \in K : h[k] \in Agents
      BY <1>1, <2>1, BondsAssumption
    <3> HIDE DEF F, K
    <3>2. SumOver([a \in Agents |-> SumOver(F, {k \in K : h[k] = a})], Agents) = SumOver(F, K)
      BY <3>1, SumParts
    <3> QED BY <3>2 DEF K
  <2>3. \A a \in Agents : {k \in DOMAIN bs : h[k] = a} = mine(a)
    BY <2>1
  <2>4. [a \in Agents |-> SumOver(F, {k \in DOMAIN bs : h[k] = a})] = [a \in Agents |-> SumOver(F, mine(a))]
    <3> HIDE DEF F, mine
    <3> QED BY <2>3
  <2> HIDE DEF F, mine, h
  <2> QED BY <2>2, <2>4
<1>7. all \in 0 .. Size /\ Size - all =< NpcAt[stop] + Len(bs)
  BY FilledInAll
<1>8. npc = Size - all /\ npc \in 0 .. Size
  <2> HIDE DEF all, fills
  <2> QED BY <1>3, <1>6, <1>7 DEF AtLeast0
<1>9. ASSUME NEW a \in Agents
      PROVE  fills[a] \in Below(bs, a, stop) .. UpTo(bs, a, stop)
  <2> DEFINE low == {k \in DOMAIN bs : bs[k].who = a /\ bs[k].y < stop}
             upto == {k \in DOMAIN bs : bs[k].who = a /\ bs[k].y =< stop}
             rest == {k \in DOMAIN bs : bs[k].who = a /\ bs[k].y > stop}
  <2>1. Below(bs, a, stop) = SumOver(face, low) /\ UpTo(bs, a, stop) = SumOver(face, upto)
    BY DEF Below, UpTo, FaceOf
  <2>2. /\ low \subseteq mine(a) /\ low \subseteq DOMAIN bs /\ upto \subseteq DOMAIN bs
        /\ rest \subseteq DOMAIN bs /\ mine(a) \subseteq DOMAIN bs
        /\ upto \cup rest = mine(a) /\ upto \cap rest = {}
    <3> HIDE DEF stop
    <3> QED BY <1>1, <1>3
  <2>3. \A k \in low : F[k] = face[k]
    <3> SUFFICES ASSUME NEW k \in DOMAIN bs, bs[k].y < stop PROVE F[k] = face[k]
      OBVIOUS
    <3> HIDE DEF F, face
    <3> QED BY <1>1, FillFacts
  <2>4. \A k \in upto : F[k] =< face[k]
    <3> SUFFICES ASSUME NEW k \in DOMAIN bs PROVE F[k] =< face[k]
      OBVIOUS
    <3>1. Fill(bs, stop, k) \in 0 .. bs[k].face
      BY FillFacts
    <3> HIDE DEF F, face
    <3> QED BY <1>1, <3>1
  <2>5. \A k \in rest : F[k] = 0
    <3> SUFFICES ASSUME NEW k \in DOMAIN bs, bs[k].y > stop PROVE F[k] = 0
      OBVIOUS
    <3> HIDE DEF F
    <3> QED BY <1>1, FillFacts
  <2> HIDE DEF F, face, low, upto, rest, stop
  <2>6. SumOver(F, low) = SumOver(face, low)
    BY <1>1, <2>2, <2>3, SumSame
  <2>7. SumOver(F, upto) =< SumOver(face, upto)
    BY <1>1, <2>2, <2>4, SumLess
  <2>8. SumOver(F, rest) = 0
    <3>1. SumOver(F, rest) = 0 * Cardinality(rest)
      BY <1>1, <2>2, <2>5, SumConstant
    <3>2. Cardinality(rest) \in Nat
      BY <1>1, <2>2, FS_Subset, FS_CardinalityType DEF Summable
    <3> QED BY <3>1, <3>2
  <2>9. SumOver(F, mine(a)) = SumOver(F, upto) + SumOver(F, rest)
    <3>1. SumOver(F, upto \cup rest) = SumOver(F, upto) + SumOver(F, rest)
      BY <1>1, <2>2, SumDisjoint
    <3> QED BY <2>2, <3>1
  <2>10. SumOver(F, low) =< SumOver(F, mine(a))
    <3>1. \A k \in mine(a) : F[k] >= 0
      BY <1>1
    <3> HIDE DEF mine
    <3> QED BY <1>1, <2>2, <3>1, SumNat
  <2>11. /\ SumOver(F, low) \in Int /\ SumOver(F, upto) \in Int /\ SumOver(F, mine(a)) \in Int
         /\ SumOver(face, low) \in Int /\ SumOver(face, upto) \in Int
    <3> HIDE DEF mine
    <3> QED BY <1>1, <2>2, SumFacts
  <2>12. fills[a] = SumOver(F, mine(a))
    BY <1>4
  <2> HIDE DEF fills, mine
  <2> QED BY <2>1, <2>6, <2>7, <2>8, <2>9, <2>10, <2>11, <2>12
<1>10. SumOver(fills, Agents) + npc = Size /\ npc + SumOver(fills, Agents) = Size
  <2> HIDE DEF fills, all, npc
  <2> QED BY <1>3, <1>6, <1>7, <1>8
<1>11. npc =< NpcAt[stop] + Len(bs)
  <2> HIDE DEF npc, all, stop
  <2> QED BY <1>7, <1>8
<1> HIDE DEF stop, fills, npc
<1>12. r.slot = s /\ r.stop = stop /\ r.fill = fills /\ r.npc = npc
  BY <1>2
<1>13. r \in ResultType
  BY <1>2, <1>3, <1>5, <1>8 DEF ResultType
<1> HIDE DEF r
<1>14. Fair1(bs, r)
  BY <1>9, <1>10, <1>11, <1>12 DEF Fair1
<1> QED BY <1>12, <1>13, <1>14 DEF r

-----------------------------------------------------------------------------
(* The books: what explains them, and that a settlement and a month keep it. *)

Instruments == Insts \cup {Cash}
Books == [Entities -> [Instruments -> Int]]
Column(p, i) == [e \in Entities |-> p[e][i]]
Debt(p) == [i \in Insts |-> -p[Govt][i]]

\* The books and histories that n units of face issued explain.
Explained(n, acc) ==
    /\ acc.p \in Books /\ acc.c \in Int /\ acc.r \in Int
    /\ \A e \in Holders, i \in Insts : acc.p[e][i] >= 0
    /\ SumOver(Debt(acc.p), Insts) = n - acc.r
    /\ acc.p[Govt][Cash] = n - acc.r - acc.c
    /\ \A i \in Instruments : SumOver(Column(acc.p, i), Entities) = 0

LEMMA Sets ==
    /\ IsFiniteSet(Agents) /\ IsFiniteSet(Insts) /\ IsFiniteSet(Holders) /\ IsFiniteSet(Entities)
    /\ Govt \in Entities /\ MM \in Holders /\ Agents \subseteq Holders /\ Holders = Entities \ {Govt}
    /\ Holders \ {MM} = Agents /\ Govt \notin Agents /\ MM \notin Agents /\ MM # Govt
    /\ Cash \notin Insts /\ Insts \subseteq Instruments /\ Cash \in Instruments
    /\ Size \in Nat \ {0}
<1>1. /\ IsFiniteSet(Agents) /\ IsFiniteSet(Insts) /\ Govt \notin Agents /\ MM \notin Agents
      /\ Cash \notin Insts /\ Size \in Nat \ {0}
  BY BondsAssumption
<1>2. MM # Govt
  BY DEF MM, Govt
<1>3. IsFiniteSet(Agents \cup {MM}) /\ IsFiniteSet((Agents \cup {MM}) \cup {Govt})
  BY <1>1, FS_AddElement
<1>4. Holders = Agents \cup {MM} /\ Entities = (Agents \cup {MM}) \cup {Govt}
  BY <1>1, <1>2 DEF Holders, Entities
<1> QED BY <1>1, <1>2, <1>3, <1>4 DEF Holders, Instruments

\* The treasury and the others.
LEMMA EntitySum ==
    ASSUME NEW f \in [Entities -> Int]
    PROVE  /\ Summable(f) /\ SumOver(f, Holders) \in Int
           /\ SumOver(f, Entities) = f[Govt] + SumOver(f, Holders)
<1>1. Summable(f) /\ DOMAIN f = Entities
  BY Sets DEF Summable
<1> QED BY <1>1, Sets, SumFacts

LEMMA ColumnFacts ==
    ASSUME NEW p \in Books
    PROVE  /\ \A i \in Instruments : /\ Column(p, i) \in [Entities -> Int]
                                     /\ \A e \in Entities : Column(p, i)[e] = p[e][i]
           /\ Summable(Debt(p)) /\ DOMAIN Debt(p) = Insts
           /\ \A i \in Insts : Debt(p)[i] = -p[Govt][i]
<1>1. \A e \in Entities, i \in Instruments : p[e][i] \in Int
  BY DEF Books
<1>2. \A i \in Insts : -p[Govt][i] \in Int
  BY <1>1, Sets
<1> QED BY <1>1, <1>2, Sets DEF Column, Debt, Summable

\* What an amount's coupon and redemption are.
LEMMA RateFacts ==
    ASSUME NEW x \in Nat
    PROVE  Coupon(x) \in Nat /\ Redemption(x) \in 0 .. x
<1>1. CouponRate \in Nat /\ DecayRate \in 0 .. 100
  BY BondsAssumption
<1>2. x * CouponRate \in Nat /\ x * DecayRate \in Nat /\ x * DecayRate =< x * 100
  BY <1>1
<1> DEFINE a == x * CouponRate
           b == x * DecayRate
<1>3. a \in Nat /\ b \in Nat /\ b =< x * 100
  BY <1>2
<1> HIDE DEF a, b
<1>4. a \div 100 \in Nat /\ b \div 100 \in 0 .. x
  BY <1>3
<1> QED BY <1>4 DEF Coupon, Redemption, a, b

\* What a month pays: a table of holders and buckets, and its sums.
LEMMA MonthTables ==
    ASSUME NEW p \in Books, \A e \in Holders, i \in Insts : p[e][i] >= 0
    PROVE  /\ Coupons(p) \in [Holders -> [Insts -> Int]]
           /\ Redemptions(p) \in [Holders -> [Insts -> Int]]
           /\ \A e \in Holders, i \in Insts : Redemptions(p)[e][i] \in 0 .. p[e][i]
<1>1. \A e \in Holders, i \in Insts : p[e][i] \in Nat /\ AtLeast0(p[e][i]) = p[e][i]
  BY Sets DEF Books, AtLeast0
<1>2. \A e \in Holders, i \in Insts : /\ Coupon(AtLeast0(p[e][i])) \in Int
                                      /\ Redemption(AtLeast0(p[e][i])) \in 0 .. p[e][i]
  <2> SUFFICES ASSUME NEW e \in Holders, NEW i \in Insts
               PROVE  /\ Coupon(AtLeast0(p[e][i])) \in Int
                      /\ Redemption(AtLeast0(p[e][i])) \in 0 .. p[e][i]
    OBVIOUS
  <2>1. p[e][i] \in Nat /\ AtLeast0(p[e][i]) = p[e][i]
    BY <1>1
  <2> QED BY <2>1, RateFacts
<1>3. \A e \in Holders, i \in Insts : Redemption(AtLeast0(p[e][i])) \in Int
  BY <1>1, <1>2
<1> QED BY <1>2, <1>3 DEF Coupons, Redemptions

\* The sums of a table, by holder and by bucket.
RowSums(m) == Rows(m, Holders, Insts)
ColumnSums(m) == Columns(m, Holders, Insts)

LEMMA TableSums ==
    ASSUME NEW m \in [Holders -> [Insts -> Int]]
    PROVE  /\ RowSums(m) \in [Holders -> Int] /\ ColumnSums(m) \in [Insts -> Int]
           /\ Summable(RowSums(m)) /\ Summable(ColumnSums(m))
           /\ Everyones(m) \in Int
           /\ Everyones(m) = SumOver(RowSums(m), Holders)
           /\ Everyones(m) = SumOver(ColumnSums(m), Insts)
           /\ \A e \in Holders : RowSums(m)[e] = SumOver(m[e], Insts)
           /\ \A i \in Insts : ColumnSums(m)[i] = SumOver([e \in Holders |-> m[e][i]], Holders)
<1>1. /\ SumOver(RowSums(m), Holders) = SumOver(ColumnSums(m), Insts)
      /\ RowSums(m) \in [Holders -> Int] /\ ColumnSums(m) \in [Insts -> Int]
      /\ Summable(RowSums(m)) /\ Summable(ColumnSums(m))
  <2>1. IsFiniteSet(Holders) /\ IsFiniteSet(Insts)
    BY Sets
  <2>2. /\ SumOver(Rows(m, Holders, Insts), Holders) = SumOver(Columns(m, Holders, Insts), Insts)
        /\ Rows(m, Holders, Insts) \in [Holders -> Int] /\ Columns(m, Holders, Insts) \in [Insts -> Int]
        /\ Summable(Rows(m, Holders, Insts)) /\ Summable(Columns(m, Holders, Insts))
    BY <2>1, SumSwap
  <2> QED BY <2>2 DEF RowSums, ColumnSums
<1>2. RowSums(m) \in [Holders -> Int] /\ ColumnSums(m) \in [Insts -> Int]
  BY <1>1
<1>3. Summable(RowSums(m)) /\ DOMAIN RowSums(m) = Holders /\ Summable(ColumnSums(m))
  BY <1>1
<1>4. /\ Everyones(m) = SumOver(RowSums(m), Holders)
      /\ Everyones(m) = SumOver(ColumnSums(m), Insts)
  <2>1. Everyones(m) = SumOver(RowSums(m), Holders)
    BY DEF Everyones, RowSums, Rows
  <2> QED BY <1>1, <2>1
<1>5. Everyones(m) \in Int
  <2>1. \A E \in SUBSET DOMAIN RowSums(m) : SumOver(RowSums(m), E) \in Int
    BY <1>3, SumFacts
  <2> QED BY <1>3, <1>4, <2>1
<1>6. /\ \A e \in Holders : RowSums(m)[e] = SumOver(m[e], Insts)
      /\ \A i \in Insts : ColumnSums(m)[i] = SumOver([e \in Holders |-> m[e][i]], Holders)
  BY DEF RowSums, ColumnSums, Rows, Columns
<1> QED BY <1>2, <1>3, <1>4, <1>5, <1>6

\* What PayMonth makes of every entry.
LEMMA PayMonthFacts ==
    ASSUME NEW p \in Books, \A e \in Holders, i \in Insts : p[e][i] >= 0
    PROVE  LET q == PayMonth(p)
               cs == Coupons(p)
               rs == Redemptions(p)
           IN /\ q \in Books
              /\ \A e \in Holders, i \in Insts : q[e][i] = p[e][i] - rs[e][i]
              /\ \A i \in Insts : q[Govt][i] = p[Govt][i] + ColumnSums(rs)[i]
              /\ \A e \in Holders : q[e][Cash] = p[e][Cash] + RowSums(cs)[e] + RowSums(rs)[e]
              /\ q[Govt][Cash] = p[Govt][Cash] - Everyones(cs) - Everyones(rs)
<1> DEFINE q == PayMonth(p)
           cs == Coupons(p)
           rs == Redemptions(p)
           New(e, i) ==
               IF i = Cash
               THEN p[e][i] + (IF e = Govt THEN -(Everyones(cs) + Everyones(rs))
                               ELSE SumOver(cs[e], Insts) + SumOver(rs[e], Insts))
               ELSE p[e][i] + (IF e = Govt THEN SumOver([h \in Holders |-> rs[h][i]], Holders)
                               ELSE -rs[e][i])
<1>1. q = [e \in Entities |-> [i \in Instruments |-> New(e, i)]]
  BY DEF PayMonth, Instruments
<1>2. /\ cs \in [Holders -> [Insts -> Int]] /\ rs \in [Holders -> [Insts -> Int]]
  BY MonthTables
<1>3. /\ RowSums(cs) \in [Holders -> Int] /\ RowSums(rs) \in [Holders -> Int]
      /\ ColumnSums(rs) \in [Insts -> Int]
      /\ Everyones(cs) \in Int /\ Everyones(rs) \in Int
      /\ \A e \in Holders : /\ RowSums(cs)[e] = SumOver(cs[e], Insts)
                            /\ RowSums(rs)[e] = SumOver(rs[e], Insts)
      /\ \A i \in Insts : ColumnSums(rs)[i] = SumOver([h \in Holders |-> rs[h][i]], Holders)
  <2> HIDE DEF cs, rs
  <2> QED BY <1>2, TableSums
<1> HIDE DEF cs, rs
<1>4. \A e \in Entities, i \in Instruments : p[e][i] \in Int
  BY DEF Books
<1>5. \A e \in Holders, i \in Insts : New(e, i) = p[e][i] - rs[e][i]
  BY <1>2, <1>4, Sets
<1>6. \A i \in Insts : New(Govt, i) = p[Govt][i] + ColumnSums(rs)[i]
  BY <1>3, Sets
<1>7. \A e \in Holders : New(e, Cash) = p[e][Cash] + RowSums(cs)[e] + RowSums(rs)[e]
  BY <1>3, <1>4, Sets
<1>8. New(Govt, Cash) = p[Govt][Cash] - Everyones(cs) - Everyones(rs)
  BY <1>3, <1>4, Sets
<1> HIDE DEF New
<1>9. \A e \in Entities, i \in Instruments : New(e, i) \in Int
  <2> SUFFICES ASSUME NEW e \in Entities, NEW i \in Instruments PROVE New(e, i) \in Int
    OBVIOUS
  <2>0. p[e][i] \in Int
    BY <1>4
  <2>1. CASE e = Govt /\ i = Cash
    BY <1>3, <1>8, <2>0, <2>1
  <2>2. CASE e = Govt /\ i \in Insts
    <3>1. ColumnSums(rs)[i] \in Int
      BY <1>3, <2>2
    <3> QED BY <1>6, <2>0, <2>2, <3>1
  <2>3. CASE e \in Holders /\ i = Cash
    <3>1. RowSums(cs)[e] \in Int /\ RowSums(rs)[e] \in Int
      BY <1>3, <2>3
    <3> QED BY <1>7, <2>0, <2>3, <3>1
  <2>4. CASE e \in Holders /\ i \in Insts
    <3>1. rs[e][i] \in Int
      BY <1>2, <2>4
    <3> QED BY <1>5, <2>0, <2>4, <3>1
  <2> QED BY <2>1, <2>2, <2>3, <2>4, Sets DEF Instruments
<1>10. q \in Books /\ \A e \in Entities, i \in Instruments : q[e][i] = New(e, i)
  <2> HIDE DEF q
  <2> QED BY <1>1, <1>9 DEF Books
<1> HIDE DEF q
<1>11. /\ \A e \in Holders, i \in Insts : q[e][i] = p[e][i] - rs[e][i]
       /\ \A i \in Insts : q[Govt][i] = p[Govt][i] + ColumnSums(rs)[i]
       /\ \A e \in Holders : q[e][Cash] = p[e][Cash] + RowSums(cs)[e] + RowSums(rs)[e]
       /\ q[Govt][Cash] = p[Govt][Cash] - Everyones(cs) - Everyones(rs)
  BY <1>5, <1>6, <1>7, <1>8, <1>10, Sets
<1> QED BY <1>10, <1>11 DEF q, cs, rs

\* A month keeps the books explained: the treasury pays what the others get, and
\* takes back from everyone a part of what it has.
LEMMA MonthKeeps ==
    ASSUME NEW n \in Int, NEW acc, Explained(n, acc)
    PROVE  Explained(n, MonthOn(acc))
<1> DEFINE p == acc.p
           q == PayMonth(p)
           cs == Coupons(p)
           rs == Redemptions(p)
           new == MonthOn(acc)
<1>1. p \in Books /\ acc.c \in Int /\ acc.r \in Int /\ \A e \in Holders, i \in Insts : p[e][i] >= 0
  BY DEF Explained
<1>2. /\ cs \in [Holders -> [Insts -> Int]] /\ rs \in [Holders -> [Insts -> Int]]
      /\ \A e \in Holders, i \in Insts : rs[e][i] \in 0 .. p[e][i]
  <2> HIDE DEF p
  <2> QED BY <1>1, MonthTables
<1>3. /\ q \in Books
      /\ \A e \in Holders, i \in Insts : q[e][i] = p[e][i] - rs[e][i]
      /\ \A i \in Insts : q[Govt][i] = p[Govt][i] + ColumnSums(rs)[i]
      /\ \A e \in Holders : q[e][Cash] = p[e][Cash] + RowSums(cs)[e] + RowSums(rs)[e]
      /\ q[Govt][Cash] = p[Govt][Cash] - Everyones(cs) - Everyones(rs)
  <2> HIDE DEF p
  <2> QED BY <1>1, PayMonthFacts
<1>4. new.p = q /\ new.c = acc.c + Everyones(cs) /\ new.r = acc.r + Everyones(rs)
  BY DEF MonthOn
<1>5. /\ SumOver(Debt(p), Insts) = n - acc.r
      /\ p[Govt][Cash] = n - acc.r - acc.c
      /\ \A i \in Instruments : SumOver(Column(p, i), Entities) = 0
  BY DEF Explained
<1>6. /\ \A e \in Entities, i \in Instruments : p[e][i] \in Int /\ q[e][i] \in Int
  BY <1>1, <1>3 DEF Books
<1> HIDE DEF p, q, cs, rs, new
<1>7. /\ RowSums(cs) \in [Holders -> Int] /\ RowSums(rs) \in [Holders -> Int]
      /\ Summable(RowSums(cs)) /\ Summable(RowSums(rs)) /\ Summable(ColumnSums(rs))
      /\ ColumnSums(rs) \in [Insts -> Int] /\ Everyones(cs) \in Int /\ Everyones(rs) \in Int
      /\ Everyones(cs) = SumOver(RowSums(cs), Holders) /\ Everyones(rs) = SumOver(RowSums(rs), Holders)
      /\ Everyones(rs) = SumOver(ColumnSums(rs), Insts)
      /\ \A i \in Insts : ColumnSums(rs)[i] = SumOver([e \in Holders |-> rs[e][i]], Holders)
  BY <1>2, TableSums
<1>8. \A e \in Holders, i \in Insts : q[e][i] >= 0
  <2> SUFFICES ASSUME NEW e \in Holders, NEW i \in Insts PROVE q[e][i] >= 0
    OBVIOUS
  <2>1. p[e][i] \in Int /\ rs[e][i] \in 0 .. p[e][i] /\ q[e][i] = p[e][i] - rs[e][i]
    BY <1>2, <1>3, <1>6, Sets
  <2> QED BY <2>1
<1>9. SumOver(Debt(q), Insts) = n - acc.r - Everyones(rs)
  <2> DEFINE cols == ColumnSums(rs)
             dp == Debt(p)
             dq == Debt(q)
  <2>1. /\ Summable(dp) /\ Summable(dq) /\ DOMAIN dp = Insts /\ DOMAIN dq = Insts
        /\ \A i \in Insts : dp[i] = -p[Govt][i] /\ dq[i] = -q[Govt][i]
    BY <1>1, <1>3, ColumnFacts
  <2>2. Summable(cols) /\ DOMAIN cols = Insts
    BY <1>7
  <2>3. \A i \in Insts : dp[i] = dq[i] + cols[i]
    <3> SUFFICES ASSUME NEW i \in Insts PROVE dp[i] = dq[i] + cols[i]
      OBVIOUS
    <3>1. p[Govt][i] \in Int /\ q[Govt][i] = p[Govt][i] + cols[i] /\ cols[i] \in Int
      BY <1>3, <1>6, <1>7, Sets
    <3> HIDE DEF cols, dp, dq
    <3> QED BY <2>1, <3>1
  <2> HIDE DEF cols, dp, dq
  <2>4. SumOver(dp, Insts) = SumOver(dq, Insts) + SumOver(cols, Insts)
    BY <2>1, <2>2, <2>3, SumAdds
  <2>5. SumOver(dq, Insts) \in Int
    BY <2>1, SumFacts
  <2>6. SumOver(dp, Insts) = n - acc.r /\ SumOver(cols, Insts) = Everyones(rs)
    BY <1>5, <1>7 DEF dp, cols
  <2>7. SumOver(dq, Insts) = n - acc.r - Everyones(rs)
    BY <1>1, <1>7, <2>4, <2>5, <2>6
  <2> QED BY <2>7 DEF dq
<1>10. ASSUME NEW i \in Insts
       PROVE  SumOver(Column(q, i), Entities) = 0
  <2> DEFINE cp == Column(p, i)
             cq == Column(q, i)
             back == [e \in Holders |-> rs[e][i]]
  <2>1. /\ cp \in [Entities -> Int] /\ cq \in [Entities -> Int]
        /\ \A e \in Entities : cp[e] = p[e][i] /\ cq[e] = q[e][i]
    BY <1>1, <1>3, ColumnFacts, Sets
  <2>2. Summable(back) /\ DOMAIN back = Holders /\ \A e \in Holders : back[e] = rs[e][i] /\ back[e] \in Int
    <3>1. \A e \in Holders : rs[e][i] \in Int
      BY <1>2
    <3> QED BY <3>1, Sets DEF Summable
  <2>3. SumOver(back, Holders) = ColumnSums(rs)[i]
    BY <1>7
  <2> HIDE DEF cp, cq, back
  <2>4. \A e \in Holders : cp[e] = cq[e] + back[e]
    <3> SUFFICES ASSUME NEW e \in Holders PROVE cp[e] = cq[e] + back[e]
      OBVIOUS
    <3>1. p[e][i] \in Int /\ q[e][i] = p[e][i] - rs[e][i] /\ rs[e][i] \in Int
      BY <1>2, <1>3, <1>6, Sets
    <3> QED BY <2>1, <2>2, <3>1, Sets
  <2>5. SumOver(cp, Holders) = SumOver(cq, Holders) + SumOver(back, Holders)
    <3>1. Holders \subseteq Entities /\ DOMAIN cp = Entities /\ DOMAIN cq = Entities
      BY <2>1, Sets
    <3>2. Summable(cp) /\ Summable(cq)
      BY <2>1, EntitySum
    <3> QED BY <2>2, <2>4, <3>1, <3>2, SumAdds
  <2>6. /\ SumOver(cp, Entities) = cp[Govt] + SumOver(cp, Holders) /\ SumOver(cp, Holders) \in Int
        /\ SumOver(cq, Entities) = cq[Govt] + SumOver(cq, Holders) /\ SumOver(cq, Holders) \in Int
    BY <2>1, EntitySum
  <2>7. cq[Govt] = cp[Govt] + SumOver(back, Holders) /\ cp[Govt] \in Int
    BY <1>3, <2>1, <2>3, Sets
  <2>8. SumOver(cp, Entities) = 0
    BY <1>5, Sets DEF cp
  <2>9. SumOver(back, Holders) \in Int
    BY <2>2, SumFacts
  <2>10. SumOver(cq, Entities) = 0
    BY <2>5, <2>6, <2>7, <2>8, <2>9
  <2> QED BY <2>10 DEF cq
<1>11. SumOver(Column(q, Cash), Entities) = 0
  <2> DEFINE cp == Column(p, Cash)
             cq == Column(q, Cash)
             one == RowSums(cs)
             two == RowSums(rs)
             both == [e \in Holders |-> one[e] + two[e]]
  <2>1. /\ cp \in [Entities -> Int] /\ cq \in [Entities -> Int]
        /\ \A e \in Entities : cp[e] = p[e][Cash] /\ cq[e] = q[e][Cash]
    BY <1>1, <1>3, ColumnFacts, Sets
  <2>2. /\ Summable(one) /\ Summable(two) /\ DOMAIN one = Holders /\ DOMAIN two = Holders
        /\ \A e \in Holders : one[e] \in Int /\ two[e] \in Int
    BY <1>7
  <2> HIDE DEF one, two
  <2>3. Summable(both) /\ DOMAIN both = Holders /\ \A e \in Holders : both[e] = one[e] + two[e]
    BY <2>2, Sets DEF Summable
  <2> HIDE DEF cp, cq, both
  <2>4. \A e \in Holders : cq[e] = cp[e] + both[e]
    <3> SUFFICES ASSUME NEW e \in Holders PROVE cq[e] = cp[e] + both[e]
      OBVIOUS
    <3>1. q[e][Cash] = p[e][Cash] + one[e] + two[e] /\ p[e][Cash] \in Int
      BY <1>3, <1>6, Sets DEF one, two
    <3> QED BY <2>1, <2>2, <2>3, <3>1, Sets
  <2>5. SumOver(cq, Holders) = SumOver(cp, Holders) + SumOver(both, Holders)
    <3>1. Holders \subseteq Entities /\ DOMAIN cp = Entities /\ DOMAIN cq = Entities
      BY <2>1, Sets
    <3>2. Summable(cp) /\ Summable(cq)
      BY <2>1, EntitySum
    <3> QED BY <2>3, <2>4, <3>1, <3>2, SumAdds
  <2>6. SumOver(both, Holders) = SumOver(one, Holders) + SumOver(two, Holders)
    BY <2>2, <2>3, SumAdds
  <2>7. SumOver(one, Holders) = Everyones(cs) /\ SumOver(two, Holders) = Everyones(rs)
    BY <1>7 DEF one, two
  <2>8. /\ SumOver(cp, Entities) = cp[Govt] + SumOver(cp, Holders) /\ SumOver(cp, Holders) \in Int
        /\ SumOver(cq, Entities) = cq[Govt] + SumOver(cq, Holders) /\ SumOver(cq, Holders) \in Int
    BY <2>1, EntitySum
  <2>9. cq[Govt] = cp[Govt] - Everyones(cs) - Everyones(rs) /\ cp[Govt] \in Int
    BY <1>3, <2>1, Sets
  <2>10. SumOver(cp, Entities) = 0
    BY <1>5, Sets DEF cp
  <2>11. SumOver(cq, Entities) = 0
    BY <1>7, <2>5, <2>6, <2>7, <2>8, <2>9, <2>10
  <2> QED BY <2>11 DEF cq
<1>12. \A i \in Instruments : SumOver(Column(q, i), Entities) = 0
  BY <1>10, <1>11 DEF Instruments
<1>13. q[Govt][Cash] = n - (acc.r + Everyones(rs)) - (acc.c + Everyones(cs))
       /\ SumOver(Debt(q), Insts) = n - (acc.r + Everyones(rs))
  BY <1>1, <1>3, <1>5, <1>7, <1>9
<1>14. new.c \in Int /\ new.r \in Int
  BY <1>1, <1>4, <1>7
<1>15. Explained(n, new)
  BY <1>3, <1>4, <1>8, <1>12, <1>13, <1>14 DEF Explained
<1> QED BY <1>15 DEF new

Accounts(n) == {acc \in [p : Books, c : Int, r : Int] : Explained(n, acc)}

\* And so does any number of months.
LEMMA MonthsKeep ==
    ASSUME NEW n \in Int, NEW acc \in Accounts(n), NEW N \in Nat
    PROVE  AfterMonths(acc, N) \in Accounts(n)
<1> DEFINE T == Accounts(n)
           on == [x \in T |-> MonthOn(x)]
           steps == [k \in 1 .. N |-> on]
           IsAfter(h) == h = [m \in 0 .. N |-> IF m = 0 THEN acc ELSE MonthOn(h[m - 1])]
           after == CHOOSE h : IsAfter(h)
<1>1. ASSUME NEW x \in T PROVE MonthOn(x) \in T
  <2>1. Explained(n, x)
    BY DEF Accounts
  <2>2. Explained(n, MonthOn(x))
    BY <2>1, MonthKeeps
  <2>3. MonthOn(x) \in [p : Books, c : Int, r : Int]
    <3> DEFINE y == MonthOn(x)
               q == PayMonth(x.p)
               c == x.c + Everyones(Coupons(x.p))
               r == x.r + Everyones(Redemptions(x.p))
    <3>1. y = [p |-> q, c |-> c, r |-> r]
      BY DEF MonthOn
    <3> HIDE DEF q, c, r
    <3>2. y.p = q /\ y.c = c /\ y.r = r
      BY <3>1
    <3> HIDE DEF y
    <3>3. q \in Books /\ c \in Int /\ r \in Int
      BY <2>2, <3>2 DEF Explained, y
    <3>4. y \in [p : Books, c : Int, r : Int]
      BY <3>1, <3>3
    <3> QED BY <3>4 DEF y
  <2> QED BY <2>2, <2>3 DEF Accounts
<1>2. on \in [T -> T] /\ \A x \in T : on[x] = MonthOn(x)
  <2> HIDE DEF T
  <2> QED BY <1>1
<1> HIDE DEF on
<1>3. steps \in [1 .. N -> [T -> T]] /\ \A k \in 1 .. N : steps[k] = on
  <2> HIDE DEF T
  <2> QED BY <1>2
<1> HIDE DEF steps, T
<1>4. PICK f \in [0 .. N -> T] : Iterates(f, N, acc, steps)
  <2>1. acc \in T
    BY DEF T
  <2> QED BY <1>3, <2>1, IterationExists
<1>5. \A m \in 0 .. N : f[m] = IF m = 0 THEN acc ELSE MonthOn(f[m - 1])
  <2> SUFFICES ASSUME NEW m \in 0 .. N PROVE f[m] = IF m = 0 THEN acc ELSE MonthOn(f[m - 1])
    OBVIOUS
  <2>1. CASE m = 0
    BY <1>4, <2>1 DEF Iterates
  <2>2. CASE m # 0
    <3>1. m \in 1 .. N /\ m - 1 \in 0 .. N
      BY <2>2
    <3>2. f[m] = on[f[m - 1]] /\ f[m - 1] \in T
      BY <1>3, <1>4, <3>1 DEF Iterates
    <3> QED BY <1>2, <2>2, <3>2
  <2> QED BY <2>1, <2>2
<1>6. IsAfter(f)
  <2> DEFINE h == [m \in 0 .. N |-> IF m = 0 THEN acc ELSE MonthOn(f[m - 1])]
  <2>1. \A m \in 0 .. N : h[m] = IF m = 0 THEN acc ELSE MonthOn(f[m - 1])
    OBVIOUS
  <2>2. h = [m \in 0 .. N |-> h[m]] /\ f = [m \in 0 .. N |-> f[m]]
    BY <1>4
  <2> HIDE DEF h
  <2>3. f = h
    BY <1>5, <2>1, <2>2
  <2> QED BY <2>3 DEF h
<1>7. AfterMonths(acc, N) = after[N]
  BY Zenon DEF AfterMonths
<1>8. IsAfter(after)
  <2> HIDE DEF IsAfter
  <2> QED BY <1>6
<1>9. \A m \in 0 .. N : after[m] = IF m = 0 THEN acc ELSE MonthOn(after[m - 1])
  <2> DEFINE h == [m \in 0 .. N |-> IF m = 0 THEN acc ELSE MonthOn(after[m - 1])]
  <2>1. \A m \in 0 .. N : h[m] = IF m = 0 THEN acc ELSE MonthOn(after[m - 1])
    OBVIOUS
  <2>2. after = h
    BY <1>8, Zenon
  <2> HIDE DEF h, after
  <2> QED BY <2>1, <2>2
<1> HIDE DEF after
<1> DEFINE Good == {m \in Nat : m =< N => after[m] \in T}
<1>10. 0 \in Good
  <2>1. after[0] = acc /\ acc \in T
    BY <1>9 DEF T
  <2> QED BY <2>1
<1>11. ASSUME NEW m \in Nat, m \in Good PROVE m + 1 \in Good
  <2> SUFFICES ASSUME m + 1 =< N PROVE after[m + 1] \in T
    OBVIOUS
  <2>1. after[m] \in T /\ m + 1 \in 0 .. N /\ m + 1 # 0 /\ (m + 1) - 1 = m
    BY <1>11
  <2>2. after[m + 1] = MonthOn(after[m])
    BY <1>9, <2>1
  <2> QED BY <1>1, <2>1, <2>2
<1> HIDE DEF Good
<1>12. Nat \subseteq Good
  BY <1>10, <1>11, Induction
<1> QED BY <1>7, <1>12 DEF Good, T

\* What a result that places its size gives: the treasury owes it, the others have it.
LEMMA TakesFacts ==
    ASSUME NEW r \in ResultType, r.npc + SumOver(r.fill, Agents) = Size
    PROVE  /\ Takes(r) \in [Entities -> Int] /\ Takes(r)[Govt] = -Size
           /\ \A e \in Holders : Takes(r)[e] >= 0
           /\ SumOver(Takes(r), Entities) = 0
<1> DEFINE f == Takes(r)
           fill == r.fill
<1>1. fill \in [Agents -> Nat] /\ r.npc \in Nat
  BY Sets DEF ResultType
<1>2. Summable(fill) /\ DOMAIN fill = Agents
  BY <1>1, Sets DEF Summable
<1>3. SumOver(fill, Agents) \in Int
  <2> HIDE DEF fill
  <2> QED BY <1>2, SumFacts
<1>4. /\ DOMAIN f = Entities /\ f[MM] = r.npc /\ f[Govt] = -(r.npc + SumOver(fill, Agents))
      /\ \A a \in Agents : f[a] = fill[a]
  <2>1. \A e \in Entities : f[e] = IF e = MM THEN r.npc ELSE IF e = Govt THEN -(r.npc + SumOver(fill, Agents))
                                   ELSE fill[e]
    BY DEF Takes
  <2>2. DOMAIN f = Entities
    BY DEF Takes
  <2> HIDE DEF f, fill
  <2> QED BY <2>1, <2>2, Sets
<1>5. f = [e \in Entities |-> f[e]]
  BY DEF Takes
<1> HIDE DEF f, fill
<1>6. f[Govt] = -Size
  BY <1>4 DEF fill
<1>7. \A e \in Holders : f[e] \in Nat
  BY <1>1, <1>4, Sets
<1>8. f \in [Entities -> Int]
  <2>1. \A e \in Entities : f[e] \in Int
    BY <1>6, <1>7, Sets
  <2> QED BY <1>5, <2>1
<1>9. SumOver(f, Entities) = f[Govt] + SumOver(f, Holders) /\ Summable(f)
  BY <1>8, EntitySum
<1>10. SumOver(f, Holders) = f[MM] + SumOver(f, Agents)
  BY <1>4, <1>9, Sets, SumFacts
<1>11. SumOver(f, Agents) = SumOver(fill, Agents)
  <2>1. Agents \subseteq DOMAIN f /\ Agents \subseteq DOMAIN fill
    BY <1>2, <1>4, Sets
  <2> QED BY <1>2, <1>4, <1>9, <2>1, SumSame
<1>12. SumOver(f, Entities) = 0
  BY <1>1, <1>3, <1>4, <1>9, <1>10, <1>11
<1> QED BY <1>6, <1>7, <1>8, <1>12 DEF f

Taken(R) == [e \in Entities |-> [r \in R |-> Takes(r)[e]]]
Placed(R, K) == [e \in Entities |-> SumOver(Taken(R)[e], K)]

\* What some of the results place, in all.
LEMMA PlacedFacts ==
    ASSUME NEW R \in SUBSET ResultType, IsFiniteSet(R), NEW K \in SUBSET R,
           \A r \in R : r.npc + SumOver(r.fill, Agents) = Size
    PROVE  /\ \A e \in Entities : /\ Summable(Taken(R)[e]) /\ DOMAIN Taken(R)[e] = R
                                  /\ Placed(R, K)[e] = SumOver(Taken(R)[e], K)
           /\ Placed(R, K) \in [Entities -> Int]
           /\ Placed(R, K)[Govt] = -Size * Cardinality(K)
           /\ \A e \in Holders : Placed(R, K)[e] >= 0
           /\ SumOver(Placed(R, K), Entities) = 0
<1> DEFINE T == Taken(R)
           U == [e \in Entities |-> [r \in K |-> Takes(r)[e]]]
           f == Placed(R, K)
           rows == Rows(U, Entities, K)
           cols == Columns(U, Entities, K)
<1>1. \A r \in R : /\ Takes(r) \in [Entities -> Int] /\ Takes(r)[Govt] = -Size
                   /\ \A e \in Holders : Takes(r)[e] >= 0
                   /\ SumOver(Takes(r), Entities) = 0
  BY TakesFacts
<1>2. IsFiniteSet(K) /\ Cardinality(K) \in Nat
  BY FS_Subset, FS_CardinalityType
<1>3. \A e \in Entities : /\ DOMAIN T[e] = R /\ \A r \in R : T[e][r] = Takes(r)[e]
                          /\ DOMAIN U[e] = K /\ \A r \in K : U[e][r] = Takes(r)[e]
  BY DEF Taken
<1>4. U \in [Entities -> [K -> Int]]
  <2>1. \A e \in Entities : \A r \in K : Takes(r)[e] \in Int
    BY <1>1
  <2> QED BY <2>1
<1>5. \A e \in Entities : f[e] = SumOver(T[e], K)
  BY DEF Placed
<1>6. f = [e \in Entities |-> f[e]]
  BY DEF Placed
<1>7. /\ \A e \in Entities : rows[e] = SumOver(U[e], K)
      /\ \A r \in K : cols[r] = SumOver([e \in Entities |-> U[e][r]], Entities)
  BY DEF Rows, Columns
<1>8. \A r \in K : [e \in Entities |-> U[e][r]] = Takes(r)
  <2> SUFFICES ASSUME NEW r \in K PROVE [e \in Entities |-> U[e][r]] = Takes(r)
    OBVIOUS
  <2>1. Takes(r) = [e \in Entities |-> Takes(r)[e]]
    BY <1>1
  <2>2. \A e \in Entities : U[e][r] = Takes(r)[e]
    BY <1>3
  <2> HIDE DEF U
  <2> QED BY <2>1, <2>2
<1> HIDE DEF T, U, f, rows, cols
<1>9. \A e \in Entities : Summable(T[e])
  BY <1>1, <1>3 DEF Summable
<1>10. ASSUME NEW e \in Entities PROVE f[e] = rows[e]
  <2>1. Summable(U[e])
    BY <1>1, <1>2, <1>3 DEF Summable
  <2>2. SumOver(T[e], K) = SumOver(U[e], K)
    BY <1>3, <1>9, <2>1, SumSame
  <2> QED BY <1>5, <1>7, <2>2
<1>11. /\ SumOver(rows, Entities) = SumOver(cols, K) /\ rows \in [Entities -> Int]
       /\ Summable(rows) /\ Summable(cols) /\ cols \in [K -> Int]
  BY <1>2, <1>4, Sets, SumSwap DEF rows, cols
<1>12. f \in [Entities -> Int]
  BY <1>6, <1>10, <1>11
<1>13. SumOver(f, Entities) = 0
  <2>1. \A r \in K : cols[r] = 0
    BY <1>1, <1>7, <1>8
  <2>2. SumOver(cols, K) = 0 * Cardinality(K)
    BY <1>11, <2>1, SumConstant
  <2>3. Summable(f) /\ DOMAIN f = Entities /\ DOMAIN rows = Entities
    BY <1>11, <1>12, EntitySum
  <2>4. SumOver(f, Entities) = SumOver(rows, Entities)
    BY <1>10, <1>11, <2>3, SumSame
  <2> QED BY <1>2, <1>11, <2>2, <2>4
<1>14. f[Govt] = -Size * Cardinality(K)
  <2>1. \A r \in K : T[Govt][r] = -Size
    BY <1>1, <1>3, Sets
  <2>2. Summable(T[Govt]) /\ DOMAIN T[Govt] = R /\ -Size \in Int
    BY <1>3, <1>9, Sets
  <2>3. SumOver(T[Govt], K) = (-Size) * Cardinality(K)
    BY <2>1, <2>2, SumConstant
  <2> QED BY <1>2, <1>5, <2>3, Sets
<1>15. ASSUME NEW e \in Holders PROVE f[e] >= 0
  <2>1. e \in Entities /\ Summable(T[e]) /\ DOMAIN T[e] = R /\ \A r \in K : T[e][r] >= 0
    BY <1>1, <1>3, <1>9, Sets
  <2>2. SumOver(T[e], K) \in Nat
    BY <2>1, SumNat
  <2> QED BY <1>5, <2>1, <2>2
<1> QED BY <1>3, <1>5, <1>9, <1>12, <1>13, <1>14, <1>15 DEF f, T

\* The results of one bucket.
OfBucket(R, i) == {r \in R : r.slot[2] = i}

\* What settling some results does to the books.
LEMMA SettledFacts ==
    ASSUME NEW p \in Books, NEW R \in SUBSET ResultType, IsFiniteSet(R),
           \A r \in R : r.npc + SumOver(r.fill, Agents) = Size
    PROVE  LET q == Settled(p, R)
           IN /\ q \in Books
              /\ \A e \in Entities : q[e][Cash] = p[e][Cash] - Placed(R, R)[e]
              /\ \A e \in Entities, i \in Insts : q[e][i] = p[e][i] + Placed(R, OfBucket(R, i))[e]
<1> DEFINE q == Settled(p, R)
           T == Taken(R)
           New(e, i) == IF i = Cash THEN p[e][i] - SumOver(T[e], R) ELSE p[e][i] + SumOver(T[e], OfBucket(R, i))
<1>1. \A e \in Entities : T[e] = [r \in R |-> Takes(r)[e]]
  BY DEF Taken
<1>2. q = [e \in Entities |-> [i \in Instruments |-> New(e, i)]]
  <2> DEFINE Old(e, i) ==
                 IF i = Cash THEN p[e][i] - SumOver([r \in R |-> Takes(r)[e]], R)
                 ELSE p[e][i] + SumOver([r \in R |-> Takes(r)[e]], {r \in R : r.slot[2] = i})
  <2>1. q = [e \in Entities |-> [i \in Instruments |-> Old(e, i)]]
    BY DEF Settled, Instruments
  <2>2. \A e \in Entities, i \in Instruments : Old(e, i) = New(e, i)
    BY <1>1 DEF OfBucket
  <2> HIDE DEF q, Old, New
  <2> QED BY <2>1, <2>2
<1>3. /\ R \in SUBSET R /\ \A i \in Insts : OfBucket(R, i) \in SUBSET R
  BY DEF OfBucket
<1>4. \A K \in SUBSET R : /\ Placed(R, K) \in [Entities -> Int]
                          /\ \A e \in Entities : Placed(R, K)[e] = SumOver(T[e], K)
  <2> HIDE DEF T
  <2> QED BY PlacedFacts DEF T
<1> HIDE DEF T
<1>5. \A e \in Entities, i \in Instruments : p[e][i] \in Int
  BY DEF Books
<1>6. ASSUME NEW e \in Entities
      PROVE  New(e, Cash) = p[e][Cash] - Placed(R, R)[e] /\ New(e, Cash) \in Int
  <2>1. Placed(R, R)[e] \in Int /\ Placed(R, R)[e] = SumOver(T[e], R)
    BY <1>3, <1>4
  <2> QED BY <1>5, <2>1, Sets
<1>7. ASSUME NEW e \in Entities, NEW i \in Insts
      PROVE  New(e, i) = p[e][i] + Placed(R, OfBucket(R, i))[e] /\ New(e, i) \in Int
  <2>1. Placed(R, OfBucket(R, i))[e] \in Int /\ Placed(R, OfBucket(R, i))[e] = SumOver(T[e], OfBucket(R, i))
    BY <1>3, <1>4
  <2> QED BY <1>5, <2>1, Sets
<1> HIDE DEF New
<1>8. \A e \in Entities, i \in Instruments : New(e, i) \in Int
  BY <1>6, <1>7 DEF Instruments
<1>9. q \in Books /\ \A e \in Entities, i \in Instruments : q[e][i] = New(e, i)
  <2> HIDE DEF q
  <2> QED BY <1>2, <1>8 DEF Books
<1> HIDE DEF q
<1>10. /\ \A e \in Entities : q[e][Cash] = p[e][Cash] - Placed(R, R)[e]
       /\ \A e \in Entities, i \in Insts : q[e][i] = p[e][i] + Placed(R, OfBucket(R, i))[e]
  BY <1>6, <1>7, <1>9, Sets
<1> QED BY <1>9, <1>10 DEF q

\* A settlement keeps the books explained: every result adds its size to the debt.
LEMMA SettlementKeeps ==
    ASSUME NEW n \in Int, NEW acc \in Accounts(n), NEW R \in SUBSET ResultType, IsFiniteSet(R),
           \A r \in R : r.npc + SumOver(r.fill, Agents) = Size
    PROVE  [p |-> Settled(acc.p, R), c |-> acc.c, r |-> acc.r] \in Accounts(n + Size * Cardinality(R))
<1> DEFINE p == acc.p
           q == Settled(p, R)
           new == [p |-> q, c |-> acc.c, r |-> acc.r]
           more == Size * Cardinality(R)
           B(i) == OfBucket(R, i)
<1>1. /\ p \in Books /\ acc.c \in Int /\ acc.r \in Int
      /\ \A e \in Holders, i \in Insts : p[e][i] >= 0
      /\ SumOver(Debt(p), Insts) = n - acc.r
      /\ p[Govt][Cash] = n - acc.r - acc.c
      /\ \A i \in Instruments : SumOver(Column(p, i), Entities) = 0
  BY DEF Accounts, Explained
<1>2. Cardinality(R) \in Nat /\ more \in Nat
  <2>1. Cardinality(R) \in Nat
    BY FS_CardinalityType
  <2> QED BY <2>1, Sets
<1> HIDE DEF p
<1>3. /\ q \in Books
      /\ \A e \in Entities : q[e][Cash] = p[e][Cash] - Placed(R, R)[e]
      /\ \A e \in Entities, i \in Insts : q[e][i] = p[e][i] + Placed(R, B(i))[e]
  BY <1>1, SettledFacts
<1>4. R \in SUBSET R /\ \A i \in Insts : B(i) \in SUBSET R
  BY DEF OfBucket
<1>5. \A K \in SUBSET R : /\ Placed(R, K) \in [Entities -> Int] /\ Placed(R, K)[Govt] = -Size * Cardinality(K)
                          /\ \A e \in Holders : Placed(R, K)[e] >= 0
                          /\ SumOver(Placed(R, K), Entities) = 0
  BY PlacedFacts
<1>6. \A e \in Entities, i \in Instruments : p[e][i] \in Int /\ q[e][i] \in Int
  <2> HIDE DEF q
  <2> QED BY <1>1, <1>3 DEF Books
<1>7. new.p = q /\ new.c = acc.c /\ new.r = acc.r
  OBVIOUS
<1> HIDE DEF q, new, B
<1>8. \A e \in Holders, i \in Insts : q[e][i] >= 0
  <2> SUFFICES ASSUME NEW e \in Holders, NEW i \in Insts PROVE q[e][i] >= 0
    OBVIOUS
  <2>1. Placed(R, B(i))[e] >= 0 /\ Placed(R, B(i))[e] \in Int
    BY <1>4, <1>5, Sets
  <2>2. q[e][i] = p[e][i] + Placed(R, B(i))[e] /\ p[e][i] >= 0 /\ p[e][i] \in Int
    BY <1>1, <1>3, <1>6, Sets
  <2> QED BY <2>1, <2>2
<1>9. q[Govt][Cash] = (n + more) - acc.r - acc.c
  <2>1. Placed(R, R)[Govt] = -Size * Cardinality(R)
    BY <1>4, <1>5
  <2>2. q[Govt][Cash] = p[Govt][Cash] - Placed(R, R)[Govt]
    BY <1>3, Sets
  <2>3. -Size * Cardinality(R) = -more
    BY <1>2, Sets
  <2> HIDE DEF more
  <2>4. q[Govt][Cash] = p[Govt][Cash] + more
    BY <1>2, <1>6, <2>1, <2>2, <2>3, Sets
  <2> QED BY <1>1, <1>2, <2>4
<1>10. ASSUME NEW i \in Insts
       PROVE  SumOver(Column(q, i), Entities) = 0
  <2> DEFINE cp == Column(p, i)
             cq == Column(q, i)
             d == Placed(R, B(i))
  <2>1. /\ cp \in [Entities -> Int] /\ cq \in [Entities -> Int]
        /\ \A e \in Entities : cp[e] = p[e][i] /\ cq[e] = q[e][i]
    BY <1>1, <1>3, ColumnFacts, Sets
  <2>2. d \in [Entities -> Int] /\ SumOver(d, Entities) = 0
    BY <1>4, <1>5
  <2>3. SumOver(cp, Entities) = 0
    BY <1>1, Sets
  <2>4. \A e \in Entities : cq[e] = cp[e] + d[e]
    BY <1>3, <2>1
  <2> HIDE DEF cp, cq, d
  <2>5. /\ Summable(cp) /\ Summable(cq) /\ Summable(d)
        /\ DOMAIN cp = Entities /\ DOMAIN cq = Entities /\ DOMAIN d = Entities
    BY <2>1, <2>2, EntitySum
  <2>6. SumOver(cq, Entities) = SumOver(cp, Entities) + SumOver(d, Entities)
    BY <2>4, <2>5, SumAdds
  <2>7. SumOver(cq, Entities) = 0
    BY <2>2, <2>3, <2>6
  <2> QED BY <2>7 DEF cq
<1>11. SumOver(Column(q, Cash), Entities) = 0
  <2> DEFINE cp == Column(p, Cash)
             cq == Column(q, Cash)
             d == Placed(R, R)
  <2>1. /\ cp \in [Entities -> Int] /\ cq \in [Entities -> Int]
        /\ \A e \in Entities : cp[e] = p[e][Cash] /\ cq[e] = q[e][Cash]
    BY <1>1, <1>3, ColumnFacts, Sets
  <2>2. d \in [Entities -> Int] /\ SumOver(d, Entities) = 0
    BY <1>4, <1>5
  <2>3. SumOver(cp, Entities) = 0
    BY <1>1, Sets
  <2>4. \A e \in Entities : cq[e] = cp[e] - d[e]
    BY <1>3, <2>1
  <2> HIDE DEF cp, cq, d
  <2>5. /\ Summable(cp) /\ Summable(cq) /\ Summable(d)
        /\ DOMAIN cp = Entities /\ DOMAIN cq = Entities /\ DOMAIN d = Entities
    BY <2>1, <2>2, EntitySum
  <2>6. \A e \in Entities : cp[e] = cq[e] + d[e]
    BY <2>1, <2>2, <2>4
  <2>7. SumOver(cp, Entities) = SumOver(cq, Entities) + SumOver(d, Entities)
    BY <2>5, <2>6, SumAdds
  <2>8. SumOver(cq, Entities) \in Int
    BY <2>5, SumFacts
  <2>9. SumOver(cq, Entities) = 0
    BY <2>2, <2>3, <2>7, <2>8
  <2> QED BY <2>9 DEF cq
<1>12. \A i \in Instruments : SumOver(Column(q, i), Entities) = 0
  BY <1>10, <1>11 DEF Instruments
<1>13. SumOver(Debt(q), Insts) = (n + more) - acc.r
  <2> DEFINE f == Taken(R)[Govt]
             parts == [i \in Insts |-> SumOver(f, B(i))]
             bucket == [r \in R |-> r.slot[2]]
             dp == Debt(p)
             dq == Debt(q)
  <2>1. /\ Summable(f) /\ DOMAIN f = R /\ SumOver(f, R) = -Size * Cardinality(R)
        /\ \A i \in Insts : Placed(R, B(i))[Govt] = SumOver(f, B(i))
    <3>1. \A K \in SUBSET R : Summable(f) /\ DOMAIN f = R /\ Placed(R, K)[Govt] = SumOver(f, K)
      <4>1. Govt \in Entities
        BY Sets
      <4> QED BY <4>1, PlacedFacts
    <3> HIDE DEF f
    <3>2. Placed(R, R)[Govt] = SumOver(f, R) /\ \A i \in Insts : Placed(R, B(i))[Govt] = SumOver(f, B(i))
      BY <1>4, <3>1
    <3> QED BY <1>4, <1>5, <3>1, <3>2
  <2>2. \A r \in R : bucket[r] \in Insts
    BY DEF ResultType, Slots
  <2>3. parts = [i \in Insts |-> SumOver(f, {r \in R : bucket[r] = i})]
    <3>1. \A i \in Insts : B(i) = {r \in R : bucket[r] = i}
      BY DEF B, OfBucket
    <3> HIDE DEF bucket, f
    <3> QED BY <3>1
  <2> HIDE DEF f, bucket
  <2>4. SumOver(parts, Insts) = SumOver(f, R)
    <3>1. SumOver([i \in Insts |-> SumOver(f, {r \in R : bucket[r] = i})], Insts) = SumOver(f, R)
      <4> DEFINE h == bucket
      <4>1. \A r \in R : h[r] \in Insts
        BY <2>2
      <4>2. IsFiniteSet(Insts) /\ R \subseteq DOMAIN f
        BY <2>1, Sets
      <4> HIDE DEF h
      <4>3. SumOver([i \in Insts |-> SumOver(f, {r \in R : h[r] = i})], Insts) = SumOver(f, R)
        BY <2>1, <4>1, <4>2, SumParts
      <4> QED BY <4>3 DEF h
    <3> QED BY <2>3, <3>1
  <2>5. Summable(parts) /\ DOMAIN parts = Insts /\ \A i \in Insts : parts[i] = Placed(R, B(i))[Govt]
    <3>1. \A i \in Insts : parts[i] = Placed(R, B(i))[Govt] /\ parts[i] \in Int
      BY <1>4, <1>5, <2>1, Sets
    <3>2. DOMAIN parts = Insts
      OBVIOUS
    <3> HIDE DEF parts
    <3> QED BY <3>1, <3>2, Sets DEF Summable
  <2>6. /\ Summable(dp) /\ Summable(dq) /\ DOMAIN dp = Insts /\ DOMAIN dq = Insts
        /\ \A i \in Insts : dp[i] = -p[Govt][i] /\ dq[i] = -q[Govt][i]
    BY <1>1, <1>3, ColumnFacts
  <2> HIDE DEF parts, dp, dq
  <2>7. \A i \in Insts : dp[i] = dq[i] + parts[i]
    <3> SUFFICES ASSUME NEW i \in Insts PROVE dp[i] = dq[i] + parts[i]
      OBVIOUS
    <3>1. p[Govt][i] \in Int /\ q[Govt][i] = p[Govt][i] + parts[i] /\ parts[i] \in Int
      BY <1>3, <1>6, <2>5, Sets DEF Summable
    <3> QED BY <2>6, <3>1
  <2>8. SumOver(dp, Insts) = SumOver(dq, Insts) + SumOver(parts, Insts) /\ SumOver(dq, Insts) \in Int
    BY <2>5, <2>6, <2>7, SumAdds, SumFacts
  <2>9. SumOver(parts, Insts) = -more
    BY <1>2, <2>1, <2>4, Sets
  <2>10. SumOver(dp, Insts) = n - acc.r
    BY <1>1 DEF dp
  <2> HIDE DEF more
  <2>11. SumOver(dq, Insts) = (n + more) - acc.r
    BY <1>1, <1>2, <2>8, <2>9, <2>10
  <2> QED BY <2>11 DEF dq
<1>14. Explained(n + more, new)
  BY <1>1, <1>3, <1>7, <1>8, <1>9, <1>12, <1>13 DEF Explained
<1>15. new \in [p : Books, c : Int, r : Int]
  <2> HIDE DEF more
  <2>1. q \in Books /\ acc.c \in Int /\ acc.r \in Int
    BY <1>1, <1>3
  <2> QED BY <2>1 DEF new
<1> HIDE DEF more
<1>16. new \in Accounts(n + more)
  BY <1>14, <1>15 DEF Accounts
<1> QED BY <1>16 DEF new, q, p, more

-----------------------------------------------------------------------------
(* The desk: its results follow from the bids and the time, its books from   *)
(* what was issued.                                                          *)

ClearedBy(t, bs) == [s \in Slots |-> IF t > AuctionTick(s) THEN Cleared(s, bs[s]) ELSE None]
TheBooks == [p |-> pos, c |-> coupons, r |-> redeemed]

\* The inductive invariant.
DeskInv ==
    /\ tick \in 0 .. MaxTick /\ resets \in 0 .. MaxResets
    /\ bids \in [Slots -> Seq(BidType)]
    /\ result = ClearedBy(tick, bids)
    /\ paid = tick \div DaysPerMonth
    /\ issued \in Int
    /\ TheBooks \in Accounts(issued)

LEMMA SlotFacts ==
    /\ IsFiniteSet(Slots)
    /\ \A s \in Slots : AuctionTick(s) \in Nat
    /\ DaysPerMonth \in Nat \ {0} /\ MaxTick \in Nat /\ MaxResets \in Nat /\ Faces \subseteq Nat
    /\ Strides \subseteq Nat
<1>1. DaysPerMonth \in Nat \ {0} /\ AuctionDay \in Nat \ {0} /\ Months \in Nat
      /\ MaxTick \in Nat /\ MaxResets \in Nat /\ Faces \subseteq Nat /\ Strides \subseteq Nat
  BY BondsAssumption
<1>2. IsFiniteSet(0 .. Months - 1)
  BY <1>1, FS_Interval
<1>3. IsFiniteSet(Slots)
  BY <1>2, Sets, FS_Product DEF Slots
<1>4. ASSUME NEW s \in Slots PROVE AuctionTick(s) \in Nat
  <2>1. s[1] \in Nat
    BY <1>1 DEF Slots
  <2>2. s[1] * DaysPerMonth \in Nat
    BY <1>1, <2>1
  <2> QED BY <1>1, <2>2 DEF AuctionTick
<1> QED BY <1>1, <1>3, <1>4

\* A slot is cleared, or it is not.
LEMMA NotNone ==
    ASSUME NEW s, NEW bs
    PROVE  Cleared(s, bs) # None
<1> DEFINE c == Cleared(s, bs)
<1>1. "slot" \in DOMAIN c
  BY DEF Cleared
<1> HIDE DEF c
<1>2. c # None
  BY <1>1 DEF None
<1> QED BY <1>2 DEF c

LEMMA ClearedByFacts ==
    ASSUME NEW t \in Int, NEW bs \in [Slots -> Seq(BidType)], NEW s \in Slots
    PROVE  /\ ClearedBy(t, bs)[s] # None <=> t > AuctionTick(s)
           /\ t > AuctionTick(s) => ClearedBy(t, bs)[s] = Cleared(s, bs[s])
BY NotNone, Zenon DEF ClearedBy

\* A number of days has as many months whichever way they are counted.
LEMMA MonthsPassed ==
    ASSUME NEW t \in Nat, NEW n \in Nat, NEW D \in Nat \ {0}
    PROVE  t \div D \in Nat /\ (t + n) \div D \in Nat /\ t \div D =< (t + n) \div D
<1> DEFINE a == t \div D
           b == (t + n) \div D
<1>1. a \in Nat /\ b \in Nat /\ D * a =< t /\ t + n < D * b + D
  OBVIOUS
<1> HIDE DEF a, b
<1>2. a =< b
  <2> SUFFICES ASSUME a > b PROVE FALSE
    BY <1>1
  <2>1. D * (b + 1) =< D * a
    BY <1>1
  <2> QED BY <1>1, <2>1
<1> QED BY <1>1, <1>2 DEF a, b

LEMMA DeskInit == Init => DeskInv
<1> SUFFICES ASSUME Init PROVE DeskInv
  OBVIOUS
<1>1. tick = 0 /\ resets = 0 /\ paid = 0 /\ issued = 0 /\ coupons = 0 /\ redeemed = 0
      /\ bids = [s \in Slots |-> << >>] /\ result = [s \in Slots |-> None]
      /\ pos = [e \in Entities |-> [i \in Instruments |-> 0]]
  BY DEF Init, EmptyBooks, Instruments
<1>2. tick \in 0 .. MaxTick /\ resets \in 0 .. MaxResets /\ paid = tick \div DaysPerMonth
  BY <1>1, SlotFacts
<1>3. bids \in [Slots -> Seq(BidType)]
  BY <1>1
<1>4. result = ClearedBy(tick, bids)
  <2>1. \A s \in Slots : ~ (tick > AuctionTick(s))
    BY <1>1, SlotFacts
  <2> QED BY <1>1, <2>1 DEF ClearedBy
<1>5. pos \in Books /\ \A e \in Entities, i \in Instruments : pos[e][i] = 0
  BY <1>1 DEF Books
<1>6. SumOver(Debt(pos), Insts) = 0
  <2> DEFINE d == Debt(pos)
  <2>1. Summable(d) /\ DOMAIN d = Insts /\ \A i \in Insts : d[i] = 0
    BY <1>5, ColumnFacts, Sets
  <2> HIDE DEF d
  <2>2. SumOver(d, Insts) = 0 * Cardinality(Insts)
    BY <2>1, SumConstant
  <2>3. SumOver(d, Insts) = 0
    BY <2>2, Sets, FS_CardinalityType
  <2> QED BY <2>3 DEF d
<1>7. ASSUME NEW i \in Instruments PROVE SumOver(Column(pos, i), Entities) = 0
  <2> DEFINE c == Column(pos, i)
  <2>1. c \in [Entities -> Int] /\ \A e \in Entities : c[e] = 0
    BY <1>5, ColumnFacts
  <2> HIDE DEF c
  <2>2. Summable(c) /\ DOMAIN c = Entities
    BY <2>1, EntitySum
  <2>3. SumOver(c, Entities) = 0 * Cardinality(Entities)
    BY <2>1, <2>2, SumConstant
  <2>4. SumOver(c, Entities) = 0
    BY <2>3, Sets, FS_CardinalityType
  <2> QED BY <2>4 DEF c
<1>8. TheBooks \in Accounts(issued)
  <2> DEFINE acc == TheBooks
  <2>1. acc.p = pos /\ acc.c = 0 /\ acc.r = 0 /\ acc \in [p : Books, c : Int, r : Int]
    BY <1>1, <1>5 DEF TheBooks
  <2>2. \A e \in Holders, i \in Insts : pos[e][i] >= 0
    BY <1>5, Sets
  <2>3. pos[Govt][Cash] = 0
    BY <1>5, Sets
  <2> HIDE DEF acc
  <2>4. Explained(issued, acc)
    BY <1>1, <1>5, <1>6, <1>7, <2>1, <2>2, <2>3 DEF Explained
  <2>5. acc \in Accounts(issued)
    BY <2>1, <2>4 DEF Accounts
  <2> QED BY <2>5 DEF acc
<1>9. issued \in Int
  BY <1>1
<1> QED BY <1>2, <1>3, <1>4, <1>8, <1>9 DEF DeskInv

\* A step of the world.
LEMMA DeskStep ==
    ASSUME DeskInv, NEW n \in Strides, Step(n)
    PROVE  DeskInv'
<1> DEFINE t == tick + n
           due == {s \in Slots : Due(s, t)}
           R == {Cleared(s, bids[s]) : s \in due}
           months == AtLeast0(MonthsDone(t) - paid)
           acc == [p |-> Settled(pos, R), c |-> coupons, r |-> redeemed]
           end == AfterMonths(acc, months)
           N == issued + Size * Cardinality(R)
<1>1. /\ t =< MaxTick /\ tick' = t
      /\ result' = [s \in Slots |-> IF s \in due THEN Cleared(s, bids[s]) ELSE result[s]]
      /\ pos' = end.p /\ coupons' = end.c /\ redeemed' = end.r
      /\ paid' = paid + months /\ issued' = N
      /\ bids' = bids /\ resets' = resets
  BY DEF Step
<1>2. /\ tick \in 0 .. MaxTick /\ resets \in 0 .. MaxResets /\ bids \in [Slots -> Seq(BidType)]
      /\ result = ClearedBy(tick, bids) /\ paid = tick \div DaysPerMonth /\ issued \in Int
      /\ TheBooks \in Accounts(issued)
  BY DEF DeskInv
<1>3. n \in Nat /\ tick \in Nat /\ t \in Nat /\ tick =< t
  BY <1>2, SlotFacts
<1>4. t \in 0 .. MaxTick
  BY <1>1, <1>3
<1> HIDE DEF t
<1>5. ASSUME NEW s \in Slots
      PROVE  /\ result[s] # None <=> tick > AuctionTick(s)
             /\ tick > AuctionTick(s) => result[s] = Cleared(s, bids[s])
             /\ s \in due <=> t > AuctionTick(s) /\ ~ (tick > AuctionTick(s))
  <2>1. /\ result[s] # None <=> tick > AuctionTick(s)
        /\ tick > AuctionTick(s) => result[s] = Cleared(s, bids[s])
    BY <1>2, ClearedByFacts
  <2>2. s \in due <=> result[s] = None /\ t > AuctionTick(s)
    BY DEF Due
  <2> QED BY <2>1, <2>2
<1>6. result' = ClearedBy(t, bids)
  <2> DEFINE old == [s \in Slots |-> IF s \in due THEN Cleared(s, bids[s]) ELSE result[s]]
  <2>1. \A s \in Slots : AuctionTick(s) \in Nat
    BY SlotFacts
  <2>2. ASSUME NEW s \in Slots
        PROVE  (IF s \in due THEN Cleared(s, bids[s]) ELSE result[s])
               = (IF t > AuctionTick(s) THEN Cleared(s, bids[s]) ELSE None)
    <3> DEFINE c == Cleared(s, bids[s])
               a == AuctionTick(s)
    <3> HIDE DEF c, a, due
    <3>1. a \in Nat
      BY <2>1 DEF a
    <3>2. (result[s] # None <=> tick > a) /\ (tick > a => result[s] = c) /\ (s \in due <=> t > a /\ ~ (tick > a))
      BY <1>5 DEF a, c
    <3>3. (IF s \in due THEN c ELSE result[s]) = (IF t > a THEN c ELSE None)
      BY <1>3, <3>1, <3>2
    <3> QED BY <3>3 DEF c, a
  <2>3. old = [s \in Slots |-> IF t > AuctionTick(s) THEN Cleared(s, bids[s]) ELSE None]
    <3> HIDE DEF due
    <3> QED BY <2>2
  <2> QED BY <1>1, <2>3 DEF ClearedBy
<1>7. due \in SUBSET Slots /\ IsFiniteSet(due)
  BY SlotFacts, FS_Subset
<1> HIDE DEF due
<1>8. IsFiniteSet(R)
  <2> DEFINE f == [s \in due |-> Cleared(s, bids[s])]
  <2>1. f \in Surjection(due, R)
    BY DEF Surjection
  <2> HIDE DEF f, R
  <2> QED BY <1>7, <2>1, FS_Surjection
<1>9. R \in SUBSET ResultType /\ \A r \in R : r.npc + SumOver(r.fill, Agents) = Size
  <2> SUFFICES ASSUME NEW s \in due
               PROVE  /\ Cleared(s, bids[s]) \in ResultType
                      /\ Cleared(s, bids[s]).npc + SumOver(Cleared(s, bids[s]).fill, Agents) = Size
    OBVIOUS
  <2>1. s \in Slots /\ bids[s] \in Seq(BidType)
    BY <1>2, <1>7
  <2> QED BY <2>1, ClearedFacts DEF Fair1
<1> HIDE DEF R
<1>10. N \in Int
  <2>1. Cardinality(R) \in Nat
    BY <1>8, FS_CardinalityType
  <2> QED BY <1>2, <2>1, Sets
<1>11. acc \in Accounts(N)
  <2> DEFINE b == TheBooks
  <2>1. b.p = pos /\ b.c = coupons /\ b.r = redeemed /\ b \in Accounts(issued)
    BY <1>2 DEF TheBooks
  <2> HIDE DEF b
  <2>2. [p |-> Settled(b.p, R), c |-> b.c, r |-> b.r] \in Accounts(N)
    BY <1>2, <1>8, <1>9, <2>1, SettlementKeeps
  <2> QED BY <2>1, <2>2
<1>12. months \in Nat /\ paid + months = t \div DaysPerMonth
  <2> DEFINE was == tick \div DaysPerMonth
             is == t \div DaysPerMonth
  <2>1. was \in Nat /\ is \in Nat /\ was =< is
    BY <1>3, SlotFacts, MonthsPassed DEF t
  <2>2. months = AtLeast0(is - was) /\ paid = was
    BY <1>2 DEF MonthsDone
  <2> HIDE DEF was, is, months
  <2>3. months \in Nat /\ paid + months = is
    BY <2>1, <2>2 DEF AtLeast0
  <2> QED BY <2>3 DEF is
<1> HIDE DEF acc, months, N
<1>13. end \in Accounts(N)
  BY <1>10, <1>11, <1>12, MonthsKeep
<1> HIDE DEF end
<1>14. TheBooks' \in Accounts(N)
  <2>1. end \in [p : Books, c : Int, r : Int]
    BY <1>13 DEF Accounts
  <2>2. end = [p |-> end.p, c |-> end.c, r |-> end.r]
    BY <2>1
  <2>3. TheBooks' = [p |-> pos', c |-> coupons', r |-> redeemed']
    BY DEF TheBooks
  <2>4. TheBooks' = end
    BY <1>1, <2>2, <2>3
  <2> QED BY <1>13, <2>4
<1>15. /\ tick' \in 0 .. MaxTick /\ resets' \in 0 .. MaxResets /\ bids' \in [Slots -> Seq(BidType)]
       /\ paid' = tick' \div DaysPerMonth /\ issued' \in Int
  BY <1>1, <1>2, <1>4, <1>10, <1>12
<1>16. result' = ClearedBy(tick', bids')
  BY <1>1, <1>6
<1>17. TheBooks' \in Accounts(issued')
  BY <1>1, <1>14
<1>18. Accounts(issued)' = Accounts(issued') /\ ClearedBy(tick, bids)' = ClearedBy(tick', bids')
  BY DEF Accounts, Explained, ClearedBy
<1> QED BY <1>15, <1>16, <1>17, <1>18 DEF DeskInv

\* A bid on an auction that is not cleared, a new desk, and no step.
LEMMA DeskBid ==
    ASSUME DeskInv, NEW s \in Slots, NEW a \in Agents, NEW y \in Yields, NEW f \in Faces, Bid(s, a, y, f)
    PROVE  DeskInv'
<1> DEFINE b == [who |-> a, y |-> y, face |-> f]
<1>1. /\ bids' = [bids EXCEPT ![s] = Append(@, b)] /\ result[s] = None /\ f > 0
      /\ tick' = tick /\ result' = result /\ paid' = paid /\ pos' = pos /\ issued' = issued
      /\ redeemed' = redeemed /\ coupons' = coupons /\ resets' = resets
  BY DEF Bid, Accepts
<1>2. /\ tick \in 0 .. MaxTick /\ bids \in [Slots -> Seq(BidType)] /\ result = ClearedBy(tick, bids)
      /\ resets \in 0 .. MaxResets /\ paid = tick \div DaysPerMonth /\ issued \in Int
      /\ TheBooks \in Accounts(issued)
  BY DEF DeskInv
<1>3. b \in BidType
  BY <1>1, SlotFacts DEF BidType
<1> HIDE DEF b
<1>4. bids' \in [Slots -> Seq(BidType)]
  BY <1>1, <1>2, <1>3
<1>5. ~ (tick > AuctionTick(s))
  BY <1>1, <1>2, ClearedByFacts
<1>6. \A x \in Slots : tick > AuctionTick(x) => bids'[x] = bids[x]
  BY <1>1, <1>2, <1>5
<1>7. ClearedBy(tick, bids') = ClearedBy(tick, bids)
  <2>1. \A x \in Slots : (IF tick > AuctionTick(x) THEN Cleared(x, bids'[x]) ELSE None)
                         = (IF tick > AuctionTick(x) THEN Cleared(x, bids[x]) ELSE None)
    BY <1>6
  <2> QED BY <2>1 DEF ClearedBy
<1>8. TheBooks' = TheBooks /\ Accounts(issued)' = Accounts(issued)
  BY <1>1 DEF TheBooks, Accounts, Explained
<1>9. ClearedBy(tick, bids)' = ClearedBy(tick', bids')
  BY DEF ClearedBy
<1>10. /\ tick' \in 0 .. MaxTick /\ resets' \in 0 .. MaxResets /\ paid' = tick' \div DaysPerMonth
       /\ issued' \in Int /\ result' = ClearedBy(tick, bids)'
  BY <1>1, <1>2, <1>7, <1>9
<1>11. (TheBooks \in Accounts(issued))'
  BY <1>2, <1>8
<1> QED BY <1>4, <1>10, <1>11 DEF DeskInv

LEMMA DeskReset ==
    ASSUME DeskInv, Reset
    PROVE  DeskInv'
<1>1. /\ resets < MaxResets /\ resets' = resets + 1 /\ tick' = 0 /\ paid' = 0
      /\ bids' = [s \in Slots |-> << >>] /\ result' = [s \in Slots |-> None]
      /\ pos' = pos /\ issued' = issued /\ redeemed' = redeemed /\ coupons' = coupons
  BY DEF Reset, NewDesk
<1>2. resets \in 0 .. MaxResets /\ issued \in Int /\ TheBooks \in Accounts(issued)
  BY DEF DeskInv
<1>3. tick' \in 0 .. MaxTick /\ resets' \in 0 .. MaxResets /\ paid' = tick' \div DaysPerMonth
  BY <1>1, <1>2, SlotFacts
<1>4. bids' \in [Slots -> Seq(BidType)]
  BY <1>1
<1>5. result' = ClearedBy(tick', bids')
  <2>1. \A s \in Slots : ~ (tick' > AuctionTick(s))
    BY <1>1, SlotFacts
  <2> QED BY <1>1, <2>1 DEF ClearedBy
<1>6. ClearedBy(tick, bids)' = ClearedBy(tick', bids')
  BY DEF ClearedBy
<1>7. TheBooks' = TheBooks /\ Accounts(issued)' = Accounts(issued)
  BY <1>1 DEF TheBooks, Accounts, Explained
<1>8. (TheBooks \in Accounts(issued))'
  BY <1>2, <1>7
<1> QED BY <1>1, <1>2, <1>3, <1>4, <1>5, <1>6, <1>8 DEF DeskInv

LEMMA DeskStutter ==
    ASSUME DeskInv, UNCHANGED vars
    PROVE  DeskInv'
<1>1. /\ tick' = tick /\ bids' = bids /\ result' = result /\ paid' = paid /\ pos' = pos
      /\ issued' = issued /\ redeemed' = redeemed /\ coupons' = coupons /\ resets' = resets
  BY DEF vars
<1>2. TheBooks' = TheBooks /\ Accounts(issued)' = Accounts(issued)
      /\ ClearedBy(tick, bids)' = ClearedBy(tick, bids)
  BY <1>1 DEF TheBooks, Accounts, Explained, ClearedBy
<1> QED BY <1>1, <1>2 DEF DeskInv

LEMMA DeskInductive == DeskInv /\ [Next]_vars => DeskInv'
<1> SUFFICES ASSUME DeskInv, [Next]_vars PROVE DeskInv'
  OBVIOUS
<1>1. CASE \E n \in Strides : Step(n)
  BY <1>1, DeskStep
<1>2. CASE \E s \in Slots, a \in Agents, y \in Yields, f \in Faces : Bid(s, a, y, f)
  BY <1>2, DeskBid
<1>3. CASE Reset
  BY <1>3, DeskReset
<1>4. CASE UNCHANGED vars
  BY <1>4, DeskStutter
<1> QED BY <1>1, <1>2, <1>3, <1>4 DEF Next

\* What the invariant says of the desk.
LEMMA DeskImplies == DeskInv => AuctionsAndCoupons
<1> SUFFICES ASSUME DeskInv PROVE AuctionsAndCoupons
  OBVIOUS
<1>1. /\ tick \in 0 .. MaxTick /\ resets \in 0 .. MaxResets /\ bids \in [Slots -> Seq(BidType)]
      /\ result = ClearedBy(tick, bids) /\ paid = tick \div DaysPerMonth /\ issued \in Int
      /\ TheBooks \in Accounts(issued)
  BY DEF DeskInv
<1>2. /\ pos \in Books /\ coupons \in Int /\ redeemed \in Int
      /\ \A e \in Holders, i \in Insts : pos[e][i] >= 0
      /\ SumOver(Debt(pos), Insts) = issued - redeemed
      /\ pos[Govt][Cash] = issued - redeemed - coupons
      /\ \A i \in Instruments : SumOver(Column(pos, i), Entities) = 0
  <2> DEFINE acc == TheBooks
  <2>1. acc.p = pos /\ acc.c = coupons /\ acc.r = redeemed
    BY DEF TheBooks
  <2> HIDE DEF acc
  <2>2. Explained(issued, acc)
    BY <1>1 DEF Accounts, acc
  <2> QED BY <2>1, <2>2 DEF Explained
<1>3. ASSUME NEW s \in Slots
      PROVE  /\ result[s] # None <=> tick > AuctionTick(s)
             /\ result[s] # None => result[s] \in ResultType /\ Fair1(bids[s], result[s])
  <2>1. bids[s] \in Seq(BidType)
    BY <1>1
  <2>2. /\ result[s] # None <=> tick > AuctionTick(s)
        /\ tick > AuctionTick(s) => result[s] = Cleared(s, bids[s])
    BY <1>1, ClearedByFacts
  <2>3. Cleared(s, bids[s]) \in ResultType /\ Fair1(bids[s], Cleared(s, bids[s]))
    BY <2>1, ClearedFacts
  <2> QED BY <2>2, <2>3
<1>4. TypeOK
  <2>1. paid \in Nat
    BY <1>1, SlotFacts, MonthsPassed
  <2>2. \A e \in Holders, i \in Insts : pos[e][i] \in Nat
    <3>1. \A e \in Holders, i \in Insts : pos[e][i] \in Int
      BY <1>2, Sets DEF Books
    <3> QED BY <1>2, <3>1
  <2>3. \A s \in Slots : result[s] # None => result[s].npc \in 0 .. Size
    BY <1>3 DEF ResultType
  <2> QED BY <1>1, <2>1, <2>2, <2>3 DEF TypeOK
<1>5. DebtExplained
  <2>1. Debt(pos) = [i \in Insts |-> -pos[Govt][i]]
    BY DEF Debt
  <2>2. Consistent(pos, Insts \cup {Cash})
    <3> SUFFICES ASSUME NEW i \in Instruments PROVE Total(pos, i) = 0
      BY DEF Consistent, Instruments
    <3>1. DOMAIN pos = Entities
      BY <1>2 DEF Books
    <3>2. Total(pos, i) = SumOver([e \in DOMAIN pos |-> pos[e][i]], DOMAIN pos)
      BY DEF Total, Sums, SumOver
    <3>3. [e \in DOMAIN pos |-> pos[e][i]] = Column(pos, i)
      BY <3>1 DEF Column
    <3>4. Total(pos, i) = SumOver(Column(pos, i), Entities)
      BY <3>1, <3>2, <3>3, Zenon
    <3> QED BY <1>2, <3>4
  <2> QED BY <1>2, <2>1, <2>2 DEF DebtExplained
<1>6. ClearsAtOneYield
  BY <1>3 DEF ClearsAtOneYield, Fair1
<1>7. CaughtUp
  BY <1>1, <1>3 DEF CaughtUp
<1> QED BY <1>4, <1>5, <1>6, <1>7 DEF AuctionsAndCoupons

\* However bids, steps of several ticks and resets follow one another, the books
\* of the world explain the debt, every auction that was due is cleared and placed
\* its whole size at one yield, and every month that is over is paid.
THEOREM AuctionsAndCouponsCorrect == Spec => []AuctionsAndCoupons
<1>1. Init => DeskInv
  BY DeskInit
<1>2. DeskInv /\ [Next]_vars => DeskInv'
  BY DeskInductive
<1>3. DeskInv => AuctionsAndCoupons
  BY DeskImplies
<1> QED BY <1>1, <1>2, <1>3, PTL DEF Spec

-----------------------------------------------------------------------------
(* The money side (Settlement). *)

Balances == [Parties -> [Claims -> Int]]
InAll(p, i) == p["HH"][i] + p["FIRM"][i] + p["GOVT"][i] + p["BANKSYS"][i] + p["CB"][i]

\* q is p after moves: a ledger, no instrument with more or less of it in all.
Moved(p, q) == q \in Balances /\ \A i \in Claims : InAll(q, i) = InAll(p, i)

\* Only cash has changed hands.
CashMoved(p, q) == Moved(p, q) /\ \A e \in Parties : \A i \in Claims \ {Cash} : q[e][i] = p[e][i]

\* A move between two parties.
LEMMA MoveFacts ==
    ASSUME NEW p \in Balances, NEW a \in Parties, NEW c \in Parties, a # c,
           NEW i \in Claims, NEW x \in Int
    PROVE  LET q == Move(p, a, c, i, x)
           IN /\ Moved(p, q)
              /\ q[a][i] = p[a][i] - x /\ q[c][i] = p[c][i] + x
              /\ \A e \in Parties : \A j \in Claims : (j # i \/ (e # a /\ e # c)) => q[e][j] = p[e][j]
<1> DEFINE q == Move(p, a, c, i, x)
           by(e) == IF e = a THEN 0 - x ELSE IF e = c THEN x ELSE 0
<1>1. /\ q \in Balances
      /\ \A e \in Parties : \A j \in Claims : q[e][j] = IF j = i THEN p[e][j] + by(e) ELSE p[e][j]
  <2> DEFINE p1 == [p EXCEPT ![a][i] = @ - x]
  <2>1. q = [p1 EXCEPT ![c][i] = @ + x]
    BY DEF Move
  <2>2. /\ p1 \in Balances /\ p1[a][i] = p[a][i] - x
        /\ \A e \in Parties : \A j \in Claims : (e # a \/ j # i) => p1[e][j] = p[e][j]
    BY DEF Balances
  <2> HIDE DEF p1
  <2>3. /\ q \in Balances /\ q[c][i] = p1[c][i] + x
        /\ \A e \in Parties : \A j \in Claims : (e # c \/ j # i) => q[e][j] = p1[e][j]
    BY <2>1, <2>2 DEF Balances
  <2>4. \A e \in Parties : \A j \in Claims : p[e][j] \in Int
    BY DEF Balances
  <2> HIDE DEF q
  <2> QED BY <2>2, <2>3, <2>4
<1>2. \A e \in Parties : \A j \in Claims : p[e][j] \in Int /\ by(e) \in Int
  BY DEF Balances
<1>3. by("HH") + by("FIRM") + by("GOVT") + by("BANKSYS") + by("CB") = 0
  BY DEF Parties
<1>4. {"HH", "FIRM", "GOVT", "BANKSYS", "CB"} \subseteq Parties
  BY DEF Parties
<1> HIDE DEF q, by
<1>5. \A j \in Claims : InAll(q, j) = InAll(p, j)
  BY <1>1, <1>2, <1>3, <1>4 DEF InAll
<1>6. by(a) = 0 - x /\ by(c) = x /\ \A e \in Parties : e # a /\ e # c => by(e) = 0
  BY DEF by
<1>7. q[a][i] = p[a][i] - x /\ q[c][i] = p[c][i] + x
  BY <1>1, <1>2, <1>6
<1>8. \A e \in Parties : \A j \in Claims : (j # i \/ (e # a /\ e # c)) => q[e][j] = p[e][j]
  BY <1>1, <1>2, <1>6
<1> QED BY <1>1, <1>5, <1>7, <1>8 DEF Moved, q

\* The sum of a column is that of its five cells.
LEMMA FiveCells ==
    ASSUME NEW p \in Balances
    PROVE  \A i \in Claims : Total(p, i) = InAll(p, i)
<1> SUFFICES ASSUME NEW i \in Claims PROVE Total(p, i) = InAll(p, i)
  OBVIOUS
<1> DEFINE f == [e \in DOMAIN p |-> p[e][i]]
<1>1. /\ f \in [Parties -> Int] /\ DOMAIN f = Parties /\ DOMAIN p = Parties
      /\ \A e \in Parties : f[e] = p[e][i]
  BY DEF Balances
<1>2. IsFiniteSet(Parties)
  <2>1. IsFiniteSet({"HH"})
    BY FS_Singleton
  <2>2. IsFiniteSet({"HH"} \cup {"FIRM"})
    BY <2>1, FS_AddElement
  <2>3. IsFiniteSet({"HH", "FIRM"} \cup {"GOVT"})
    BY <2>2, FS_AddElement, {"HH"} \cup {"FIRM"} = {"HH", "FIRM"}
  <2>4. IsFiniteSet({"HH", "FIRM", "GOVT"} \cup {"BANKSYS"})
    BY <2>3, FS_AddElement, {"HH", "FIRM"} \cup {"GOVT"} = {"HH", "FIRM", "GOVT"}
  <2>5. IsFiniteSet({"HH", "FIRM", "GOVT", "BANKSYS"} \cup {"CB"})
    BY <2>4, FS_AddElement, {"HH", "FIRM", "GOVT"} \cup {"BANKSYS"} = {"HH", "FIRM", "GOVT", "BANKSYS"}
  <2> QED BY <2>5, {"HH", "FIRM", "GOVT", "BANKSYS"} \cup {"CB"} = Parties DEF Parties
<1>3. Total(p, i) = SumOver(f, Parties)
  BY <1>1 DEF Total, Sums, SumOver
<1>4. Summable(f)
  BY <1>1, <1>2 DEF Summable
<1> HIDE DEF f
<1> DEFINE E1 == Parties \ {"HH"}
           E2 == E1 \ {"FIRM"}
           E3 == E2 \ {"GOVT"}
           E4 == E3 \ {"BANKSYS"}
           E5 == E4 \ {"CB"}
<1>5a. \A E \in SUBSET Parties : \A e \in E : SumOver(f, E) = f[e] + SumOver(f, E \ {e})
  BY <1>1, <1>4, SumFacts
<1>5b. /\ E1 \in SUBSET Parties /\ E2 \in SUBSET Parties /\ E3 \in SUBSET Parties /\ E4 \in SUBSET Parties
       /\ "HH" \in Parties /\ "FIRM" \in E1 /\ "GOVT" \in E2 /\ "BANKSYS" \in E3 /\ "CB" \in E4
       /\ E5 = {}
  BY DEF Parties
<1>5. SumOver(f, Parties) = f["HH"] + SumOver(f, E1)
  BY <1>5a, <1>5b
<1>6. SumOver(f, E1) = f["FIRM"] + SumOver(f, E2)
  BY <1>5a, <1>5b
<1>7. SumOver(f, E2) = f["GOVT"] + SumOver(f, E3)
  BY <1>5a, <1>5b
<1>8. SumOver(f, E3) = f["BANKSYS"] + SumOver(f, E4)
  BY <1>5a, <1>5b
<1>9. SumOver(f, E4) = f["CB"] + SumOver(f, E5)
  BY <1>5a, <1>5b
<1>10. SumOver(f, E5) = 0
  BY <1>4, <1>5b, SumFacts
<1>11. {"HH", "FIRM", "GOVT", "BANKSYS", "CB"} \subseteq Parties
  BY DEF Parties
<1>12. \A E \in SUBSET Parties : SumOver(f, E) \in Int
  BY <1>1, <1>4, SumFacts
<1>13. \A e \in Parties : f[e] \in Int
  BY <1>1
<1> HIDE DEF E1, E2, E3, E4, E5
<1>14. SumOver(f, Parties) = f["HH"] + (f["FIRM"] + (f["GOVT"] + (f["BANKSYS"] + (f["CB"] + 0))))
  BY <1>5, <1>6, <1>7, <1>8, <1>9, <1>10
<1>15. SumOver(f, Parties) = f["HH"] + f["FIRM"] + f["GOVT"] + f["BANKSYS"] + f["CB"]
  BY <1>14, <1>13, <1>11
<1> QED BY <1>3, <1>15, <1>1, <1>11 DEF InAll

-----------------------------------------------------------------------------

\* A payment, whatever its sign.
LEMMA PayFacts ==
    ASSUME NEW p \in Balances, NEW a \in Parties, NEW c \in Parties, a # c, NEW x \in Int
    PROVE  LET q == Pay(p, a, c, x)
           IN /\ CashMoved(p, q)
              /\ q[a][Cash] = p[a][Cash] - x /\ q[c][Cash] = p[c][Cash] + x
              /\ \A e \in Parties : e # a /\ e # c => q[e][Cash] = p[e][Cash]
<1>1. Cash \in Claims
  BY DEF Claims
<1> QED BY <1>1, MoveFacts DEF Pay, CashMoved

\* Government bonds sold to a party.
LEMMA IssueFacts ==
    ASSUME NEW p \in Balances, NEW a \in Parties, a # "GOVT", NEW x \in Int
    PROVE  LET q == Issue(p, a, x)
           IN /\ Moved(p, q)
              /\ q["GOVT"][Bond] = p["GOVT"][Bond] - x /\ q[a][Bond] = p[a][Bond] + x
              /\ q["GOVT"][Cash] = p["GOVT"][Cash] + x
              /\ \A e \in Parties : e # a /\ e # "GOVT" => \A i \in Claims : q[e][i] = p[e][i]
              /\ \A e \in Parties : \A i \in {Loan, Res} : q[e][i] = p[e][i]
<1> DEFINE p1 == Move(p, "GOVT", a, Bond, x)
           q == Issue(p, a, x)
<1>0. Cash \in Claims /\ Bond \in Claims /\ Loan \in Claims /\ Res \in Claims /\ "GOVT" \in Parties
      /\ Cash # Bond /\ Loan # Cash /\ Loan # Bond /\ Res # Cash /\ Res # Bond
  BY DEF Claims, Parties, Cash, Bond, Loan, Res
<1>1. q = Move(p1, a, "GOVT", Cash, x)
  BY DEF Issue, Swap
<1>2. /\ Moved(p, p1) /\ p1["GOVT"][Bond] = p["GOVT"][Bond] - x /\ p1[a][Bond] = p[a][Bond] + x
      /\ \A e \in Parties : \A j \in Claims : (j # Bond \/ (e # a /\ e # "GOVT")) => p1[e][j] = p[e][j]
  BY MoveFacts, <1>0
<1> HIDE DEF p1
<1>3. p1 \in Balances
  BY <1>2 DEF Moved
<1>4. LET q1 == Move(p1, a, "GOVT", Cash, x)
      IN /\ Moved(p1, q1) /\ q1["GOVT"][Cash] = p1["GOVT"][Cash] + x
         /\ \A e \in Parties : \A j \in Claims : (j # Cash \/ (e # a /\ e # "GOVT")) => q1[e][j] = p1[e][j]
  BY MoveFacts, <1>0, <1>3
<1>5. /\ Moved(p1, q) /\ q["GOVT"][Cash] = p1["GOVT"][Cash] + x
      /\ \A e \in Parties : \A j \in Claims : (j # Cash \/ (e # a /\ e # "GOVT")) => q[e][j] = p1[e][j]
  BY <1>1, <1>4
<1> HIDE DEF q
<1>6. Moved(p, q)
  BY <1>2, <1>5 DEF Moved
<1>7. q["GOVT"][Bond] = p["GOVT"][Bond] - x /\ q[a][Bond] = p[a][Bond] + x
      /\ q["GOVT"][Cash] = p["GOVT"][Cash] + x
  BY <1>0, <1>2, <1>5
<1>8. \A e \in Parties : e # a /\ e # "GOVT" => \A i \in Claims : q[e][i] = p[e][i]
  BY <1>2, <1>5
<1>9. \A e \in Parties : \A i \in {Loan, Res} : q[e][i] = p[e][i]
  BY <1>0, <1>2, <1>5
<1> QED BY <1>6, <1>7, <1>8, <1>9 DEF q

-----------------------------------------------------------------------------

\* The amounts are whole numbers; what was counted for a gap is not negative.
Amounts ==
    /\ full \in BOOLEAN /\ month \in 0 .. MaxMonth /\ ops \in 0 .. MaxOps
    /\ books \in Balances
    /\ debt \in Int /\ govtDebt \in Int
    /\ deposits \in Int /\ reserves \in Int /\ bankGB \in Int /\ cbGB \in Int /\ hhGB \in Int
    /\ equity \in Int /\ rescue \in Int /\ lolr \in Nat
    /\ seized \in Int /\ credited \in Nat /\ uncounted \in Nat /\ lent \in Nat

\* What ties the copies to the ledger, and the parties' cells to each other.
Mirrors ==
    /\ \A i \in Claims : InAll(books, i) = 0
    /\ DebtMirrored /\ BondsMirrored /\ BankSheetIsTheLedgers
    /\ full => hhGB = books["HH"][Bond]
    /\ books["FIRM"][Bond] = 0
    /\ \A e \in {"HH", "FIRM", "GOVT"} : books[e][Res] = 0
    /\ books["CB"][Cash] = 0 /\ books["CB"][Loan] = lent /\ books["CB"][Bond] + books["CB"][Res] = -lent

MoneyInv == Amounts /\ Mirrors /\ DeficitFundsTheMonth /\ GovernmentNotOverdrawn

LEMMA TheParties ==
    /\ "HH" \in Parties /\ "FIRM" \in Parties /\ "GOVT" \in Parties /\ "BANKSYS" \in Parties
    /\ "CB" \in Parties /\ Lender \in {"HH", "BANKSYS"}
    /\ Cash \in Claims /\ Loan \in Claims /\ Bond \in Claims /\ Res \in Claims
    /\ Cash # Loan /\ Cash # Bond /\ Cash # Res /\ Loan # Bond /\ Loan # Res /\ Bond # Res
BY DEF Parties, Claims, Cash, Loan, Bond, Res, Lender

LEMMA FlowTypes ==
    ASSUME NEW m \in Flows
    PROVE  m.buy \in Int /\ m.tax \in Int /\ m.spend \in Int /\ m.borrow \in Int /\ m.loss \in Nat /\ m.r \in Int
BY SettlementAssumption DEF Flows

\* What is written off has the sign of the debt, and is at most all of it.
LEMMA WriteOffFacts ==
    ASSUME Amounts, NEW m \in Flows
    PROVE  /\ WriteOff(m) \in Int /\ Written(m) \in Nat /\ Most(-WriteOff(m), 0) \in Nat
           /\ Written(m) - Most(-WriteOff(m), 0) = WriteOff(m)
<1>1. m.loss \in Nat /\ debt \in Int
  BY FlowTypes DEF Amounts
<1>2. WriteOff(m) \in Int
  BY <1>1 DEF WriteOff, AtMost
<1> QED BY <1>2 DEF Written, Most

\* The interest costs the government what its bonds bear, on the copies, and the
\* central bank receives its part.
LEMMA InterestFacts ==
    ASSUME Amounts, NEW p \in Balances, NEW r \in Int
    PROVE  LET q == Interest(p, r)
           IN /\ CashMoved(p, q)
              /\ full => /\ q["GOVT"][Cash] = p["GOVT"][Cash] - r * hhGB - r * bankGB - r * cbGB
                         /\ q["CB"][Cash] = p["CB"][Cash] + r * cbGB
              /\ ~full => /\ q["GOVT"][Cash] = p["GOVT"][Cash] - r * govtDebt
                          /\ q["CB"][Cash] = p["CB"][Cash]
<1> DEFINE d == r * debt
           h == r * hhGB
           b == r * bankGB
           c == r * cbGB
           g == r * govtDebt
           p1 == Pay(p, "FIRM", Lender, d)
           p2 == Pay(p1, "GOVT", "HH", h)
           p3 == Pay(p2, "GOVT", "BANKSYS", b)
           p4 == Pay(p3, "GOVT", "CB", c)
           p5 == Pay(p1, "GOVT", "HH", g)
<1>0. d \in Int /\ h \in Int /\ b \in Int /\ c \in Int /\ g \in Int
  BY DEF Amounts
<1>1. Interest(p, r) = IF full THEN p4 ELSE p5
  BY DEF Interest
<1> HIDE DEF d, h, b, c, g
<1>2. /\ CashMoved(p, p1) /\ p1["GOVT"][Cash] = p["GOVT"][Cash] /\ p1["CB"][Cash] = p["CB"][Cash]
  <2>1. Lender \in Parties /\ Lender # "FIRM" /\ Lender # "GOVT" /\ Lender # "CB"
    BY TheParties
  <2> HIDE DEF p1
  <2> QED BY <2>1, <1>0, PayFacts, TheParties DEF p1
<1> HIDE DEF p1
<1>3. p1 \in Balances
  BY <1>2 DEF CashMoved, Moved
<1>4. /\ CashMoved(p1, p2) /\ p2["GOVT"][Cash] = p1["GOVT"][Cash] - h /\ p2["CB"][Cash] = p1["CB"][Cash]
      /\ CashMoved(p1, p5) /\ p5["GOVT"][Cash] = p1["GOVT"][Cash] - g /\ p5["CB"][Cash] = p1["CB"][Cash]
  BY <1>0, <1>3, PayFacts, TheParties
<1> HIDE DEF p2, p5
<1>5. p2 \in Balances
  BY <1>4 DEF CashMoved, Moved
<1>6. /\ CashMoved(p2, p3) /\ p3["GOVT"][Cash] = p2["GOVT"][Cash] - b /\ p3["CB"][Cash] = p2["CB"][Cash]
  BY <1>0, <1>5, PayFacts, TheParties
<1> HIDE DEF p3
<1>7. p3 \in Balances
  BY <1>6 DEF CashMoved, Moved
<1>8. /\ CashMoved(p3, p4) /\ p4["GOVT"][Cash] = p3["GOVT"][Cash] - c /\ p4["CB"][Cash] = p3["CB"][Cash] + c
  BY <1>0, <1>7, PayFacts, TheParties
<1> HIDE DEF p4
<1>9. CashMoved(p, p4) /\ CashMoved(p, p5)
  BY <1>2, <1>4, <1>6, <1>8 DEF CashMoved, Moved
<1>10. /\ p4["GOVT"][Cash] = p["GOVT"][Cash] - h - b - c /\ p4["CB"][Cash] = p["CB"][Cash] + c
       /\ p5["GOVT"][Cash] = p["GOVT"][Cash] - g /\ p5["CB"][Cash] = p["CB"][Cash]
  BY <1>2, <1>4, <1>6, <1>8
<1>11. /\ CashMoved(p, Interest(p, r))
       /\ full => /\ Interest(p, r)["GOVT"][Cash] = p["GOVT"][Cash] - h - b - c
                  /\ Interest(p, r)["CB"][Cash] = p["CB"][Cash] + c
       /\ ~full => /\ Interest(p, r)["GOVT"][Cash] = p["GOVT"][Cash] - g
                   /\ Interest(p, r)["CB"][Cash] = p["CB"][Cash]
  BY <1>1, <1>9, <1>10
<1> QED BY <1>11 DEF h, b, c, g

\* With a bank: losses come off the firms' loans; what the central bank earns
\* beyond what it pays for the reserves reaches the government.
LEMMA BankingFacts ==
    ASSUME Amounts, NEW p \in Balances, NEW m \in Flows
    PROVE  LET q == Banking(p, m)
           IN /\ ~full => q = p
              /\ full =>
                   /\ Moved(p, q)
                   /\ q["GOVT"][Cash] = p["GOVT"][Cash] + m.r * cbGB - m.r * reserves
                   /\ q["CB"][Cash] = p["CB"][Cash] - m.r * cbGB
                   /\ q["FIRM"][Loan] = p["FIRM"][Loan] + Written(m) /\ q["CB"][Loan] = p["CB"][Loan]
                   /\ \A e \in Parties : q[e][Bond] = p[e][Bond] /\ q[e][Res] = p[e][Res]
<1> DEFINE d == DepositInterest(m) + Dividend(m)
           c == m.r * cbGB
           v == m.r * reserves
           u == c - v
           x == Written(m)
           p1 == Move(p, "BANKSYS", "FIRM", Loan, x)
           p2 == Pay(p1, "BANKSYS", "HH", d)
           p3 == Pay(p2, "CB", "BANKSYS", v)
           p4 == Pay(p3, "CB", "GOVT", u)
<1>0. c \in Int /\ v \in Int /\ x \in Int
  BY FlowTypes, WriteOffFacts DEF Amounts
<1>0a. u \in Int
  BY <1>0
<1>0b. d \in Int
  <2>1. DepositInterest(m) \in Int
    <3> DEFINE z == m.r * deposits
    <3>1. z \in Int
      BY FlowTypes DEF Amounts
    <3> HIDE DEF z
    <3>2. z \div 2 \in Int
      BY <3>1
    <3> QED BY <3>2 DEF DepositInterest, z
  <2>2. Profit(m) \in Int
    <3> DEFINE z == m.r * (debt + reserves + bankGB)
    <3>1. z \in Int /\ WriteOff(m) \in Int
      BY FlowTypes, WriteOffFacts DEF Amounts
    <3> HIDE DEF z
    <3>2. z - DepositInterest(m) - WriteOff(m) \in Int
      BY <3>1, <2>1
    <3> QED BY <3>2 DEF Profit, z
  <2>3. Most(Profit(m), 0) \in Int
    BY <2>2 DEF Most
  <2>4. Most(Profit(m) \div 2, 0) \in Int
    BY <2>2 DEF Most
  <2>5. Dividend(m) \in Int
    BY <2>3, <2>4 DEF Dividend
  <2> QED BY <2>1, <2>5
<1>1. Banking(p, m) = IF ~full THEN p ELSE p4
  BY DEF Banking, Remit
<1> HIDE DEF c, v, d, x
<1>2. /\ Moved(p, p1)
      /\ p1["FIRM"][Loan] = p["FIRM"][Loan] + x /\ p1["CB"][Loan] = p["CB"][Loan]
      /\ \A e \in Parties : p1[e][Bond] = p[e][Bond] /\ p1[e][Res] = p[e][Res] /\ p1[e][Cash] = p[e][Cash]
  <2>1. LET q == Move(p, "BANKSYS", "FIRM", Loan, x)
        IN /\ Moved(p, q) /\ q["FIRM"][Loan] = p["FIRM"][Loan] + x
           /\ \A e \in Parties : \A j \in Claims :
                 (j # Loan \/ (e # "BANKSYS" /\ e # "FIRM")) => q[e][j] = p[e][j]
    BY <1>0, MoveFacts, TheParties
  <2> QED BY <2>1, TheParties
<1> HIDE DEF p1
<1>3. p1 \in Balances
  BY <1>2 DEF Moved
<1>4. CashMoved(p1, p2) /\ p2["GOVT"][Cash] = p1["GOVT"][Cash] /\ p2["CB"][Cash] = p1["CB"][Cash]
  BY <1>0b, <1>3, PayFacts, TheParties
<1> HIDE DEF p2
<1>5. p2 \in Balances
  BY <1>4 DEF CashMoved, Moved
<1>6. CashMoved(p2, p3) /\ p3["GOVT"][Cash] = p2["GOVT"][Cash] /\ p3["CB"][Cash] = p2["CB"][Cash] - v
  BY <1>0, <1>5, PayFacts, TheParties
<1> HIDE DEF p3
<1>7. p3 \in Balances
  BY <1>6 DEF CashMoved, Moved
<1> HIDE DEF u
<1>8. CashMoved(p3, p4) /\ p4["GOVT"][Cash] = p3["GOVT"][Cash] + u /\ p4["CB"][Cash] = p3["CB"][Cash] - u
  BY <1>0a, <1>7, PayFacts, TheParties
<1> HIDE DEF p4
<1>9. /\ Moved(p, p4)
      /\ p4["GOVT"][Cash] = p["GOVT"][Cash] + u /\ p4["CB"][Cash] = p["CB"][Cash] - v - u
  BY <1>2, <1>4, <1>6, <1>8, TheParties DEF CashMoved, Moved
<1>10. /\ p4["FIRM"][Loan] = p["FIRM"][Loan] + x /\ p4["CB"][Loan] = p["CB"][Loan]
       /\ \A e \in Parties : p4[e][Bond] = p[e][Bond] /\ p4[e][Res] = p[e][Res]
  <2>1. \A e \in Parties : \A i \in Claims \ {Cash} : p4[e][i] = p1[e][i]
    BY <1>4, <1>6, <1>8 DEF CashMoved
  <2> QED BY <1>2, <2>1, TheParties
<1>11. p["GOVT"][Cash] \in Int /\ p["CB"][Cash] \in Int
  BY TheParties DEF Balances
<1>12. p4["GOVT"][Cash] = p["GOVT"][Cash] + c - v /\ p4["CB"][Cash] = p["CB"][Cash] - c
  BY <1>0, <1>9, <1>11 DEF u
<1> QED BY <1>1, <1>9, <1>10, <1>12 DEF c, v, x

\* New loans and repayments.
LEMMA BorrowedFacts ==
    ASSUME Amounts, NEW p \in Balances, NEW x \in Int
    PROVE  LET q == Borrowed(p, x)
           IN /\ Moved(p, q)
              /\ q["FIRM"][Loan] = p["FIRM"][Loan] - x /\ q["CB"][Loan] = p["CB"][Loan]
              /\ q["GOVT"][Cash] = p["GOVT"][Cash] /\ q["CB"][Cash] = p["CB"][Cash]
              /\ \A e \in Parties : q[e][Bond] = p[e][Bond] /\ q[e][Res] = p[e][Res]
<1> DEFINE to == IF full THEN "BANKSYS" ELSE "HH"
           p1 == Move(p, "FIRM", to, Loan, x)
           p2 == Move(p1, "BANKSYS", "FIRM", Cash, x)
<1>1. /\ full => Borrowed(p, x) = p2
      /\ ~full => Borrowed(p, x) = p1
  BY DEF Borrowed, Lend
<1>2. to \in Parties /\ to # "FIRM" /\ to # "CB"
  BY TheParties
<1> HIDE DEF to
<1>3. /\ Moved(p, p1) /\ p1["FIRM"][Loan] = p["FIRM"][Loan] - x /\ p1["CB"][Loan] = p["CB"][Loan]
      /\ \A e \in Parties : p1[e][Bond] = p[e][Bond] /\ p1[e][Res] = p[e][Res] /\ p1[e][Cash] = p[e][Cash]
  <2>1. LET q == Move(p, "FIRM", to, Loan, x)
        IN /\ Moved(p, q) /\ q["FIRM"][Loan] = p["FIRM"][Loan] - x
           /\ \A e \in Parties : \A j \in Claims : (j # Loan \/ (e # "FIRM" /\ e # to)) => q[e][j] = p[e][j]
    BY <1>2, MoveFacts, TheParties
  <2> QED BY <2>1, <1>2, TheParties
<1> HIDE DEF p1
<1>4. p1 \in Balances
  BY <1>3 DEF Moved
<1>5. CashMoved(p1, p2) /\ p2["GOVT"][Cash] = p1["GOVT"][Cash] /\ p2["CB"][Cash] = p1["CB"][Cash]
  <2>1. p2 = Pay(p1, "BANKSYS", "FIRM", x)
    BY DEF Pay
  <2> HIDE DEF p2
  <2> QED BY <2>1, <1>4, PayFacts, TheParties
<1> HIDE DEF p2
<1>6. /\ Moved(p, p2)
      /\ p2["FIRM"][Loan] = p["FIRM"][Loan] - x /\ p2["CB"][Loan] = p["CB"][Loan]
      /\ p2["GOVT"][Cash] = p["GOVT"][Cash] /\ p2["CB"][Cash] = p["CB"][Cash]
      /\ \A e \in Parties : p2[e][Bond] = p[e][Bond] /\ p2[e][Res] = p[e][Res]
  <2>1. \A e \in Parties : \A i \in Claims \ {Cash} : p2[e][i] = p1[e][i]
    BY <1>5 DEF CashMoved
  <2>2. Moved(p, p2)
    BY <1>3, <1>5 DEF CashMoved, Moved
  <2> QED BY <1>3, <1>5, <2>1, <2>2, TheParties
<1> QED BY <1>1, <1>3, <1>6, TheParties

\* The deficit reaches the government as cash, whoever takes the bonds.
LEMMA FinancedFacts ==
    ASSUME Amounts, NEW p \in Balances, NEW d \in Int
    PROVE  LET q == Financed(p, d)
           IN /\ Moved(p, q)
              /\ q["GOVT"][Cash] = p["GOVT"][Cash] + d /\ q["GOVT"][Bond] = p["GOVT"][Bond] - d
              /\ q["CB"][Cash] = p["CB"][Cash]
              /\ q["CB"][Bond] + q["CB"][Res] = p["CB"][Bond] + p["CB"][Res]
              /\ q["FIRM"][Bond] = p["FIRM"][Bond]
              /\ \A e \in Parties : q[e][Loan] = p[e][Loan]
              /\ \A e \in {"HH", "FIRM", "GOVT"} : q[e][Res] = p[e][Res]
<1>1. CASE ~full \/ govtDebt =< 0
  <2>1. Financed(p, d) = Issue(p, "HH", d)
    BY <1>1 DEF Financed
  <2>2. LET q == Issue(p, "HH", d)
        IN /\ Moved(p, q)
           /\ q["GOVT"][Bond] = p["GOVT"][Bond] - d /\ q["HH"][Bond] = p["HH"][Bond] + d
           /\ q["GOVT"][Cash] = p["GOVT"][Cash] + d
           /\ \A e \in Parties : e # "HH" /\ e # "GOVT" => \A i \in Claims : q[e][i] = p[e][i]
           /\ \A e \in Parties : \A i \in {Loan, Res} : q[e][i] = p[e][i]
    BY IssueFacts, TheParties
  <2> QED BY <2>1, <2>2, TheParties
<1>2. CASE full /\ govtDebt > 0
  <2> DEFINE x == d * bankGB
             y == d * cbGB
             b == x \div govtDebt
             c == y \div govtDebt
             h == d - b - c
             p1 == Issue(p, "HH", h)
             p2 == Issue(p1, "BANKSYS", b)
             p3 == Move(p2, "GOVT", "CB", Bond, c)
             p4 == Move(p3, "CB", "BANKSYS", Res, c)
             p5 == Pay(p4, "BANKSYS", "GOVT", c)
  <2>0. x \in Int /\ y \in Int /\ govtDebt \in Int /\ govtDebt > 0
    BY <1>2 DEF Amounts
  <2>1. ~(~full \/ govtDebt =< 0)
    BY <1>2, <2>0
  <2>2. Financed(p, d) = p5
    BY <2>1 DEF Financed
  <2> HIDE DEF x, y
  <2>3. b \in Int /\ c \in Int
    BY <2>0
  <2> HIDE DEF b, c
  <2>4. h \in Int /\ h + b + c = d
    BY <2>3
  <2> HIDE DEF h
  <2>5. /\ Moved(p, p1) /\ p1["GOVT"][Bond] = p["GOVT"][Bond] - h /\ p1["GOVT"][Cash] = p["GOVT"][Cash] + h
        /\ \A e \in Parties : e # "HH" /\ e # "GOVT" => \A i \in Claims : p1[e][i] = p[e][i]
        /\ \A e \in Parties : \A i \in {Loan, Res} : p1[e][i] = p[e][i]
    BY <2>4, IssueFacts, TheParties
  <2> HIDE DEF p1
  <2>6. p1 \in Balances
    BY <2>5 DEF Moved
  <2>7. /\ Moved(p1, p2) /\ p2["GOVT"][Bond] = p1["GOVT"][Bond] - b /\ p2["GOVT"][Cash] = p1["GOVT"][Cash] + b
        /\ \A e \in Parties : e # "BANKSYS" /\ e # "GOVT" => \A i \in Claims : p2[e][i] = p1[e][i]
        /\ \A e \in Parties : \A i \in {Loan, Res} : p2[e][i] = p1[e][i]
    BY <2>3, <2>6, IssueFacts, TheParties
  <2> HIDE DEF p2
  <2>8. p2 \in Balances
    BY <2>7 DEF Moved
  <2>9. /\ Moved(p2, p3) /\ p3["GOVT"][Bond] = p2["GOVT"][Bond] - c /\ p3["CB"][Bond] = p2["CB"][Bond] + c
        /\ \A e \in Parties : \A j \in Claims : (j # Bond \/ (e # "GOVT" /\ e # "CB")) => p3[e][j] = p2[e][j]
    BY <2>3, <2>8, MoveFacts, TheParties
  <2> HIDE DEF p3
  <2>10. p3 \in Balances
    BY <2>9 DEF Moved
  <2>11. /\ Moved(p3, p4) /\ p4["CB"][Res] = p3["CB"][Res] - c
         /\ \A e \in Parties : \A j \in Claims : (j # Res \/ (e # "CB" /\ e # "BANKSYS")) => p4[e][j] = p3[e][j]
    BY <2>3, <2>10, MoveFacts, TheParties
  <2> HIDE DEF p4
  <2>12. p4 \in Balances
    BY <2>11 DEF Moved
  <2>13. CashMoved(p4, p5) /\ p5["GOVT"][Cash] = p4["GOVT"][Cash] + c /\ p5["CB"][Cash] = p4["CB"][Cash]
    BY <2>3, <2>12, PayFacts, TheParties
  <2> HIDE DEF p5
  <2>14. Moved(p, p5)
    BY <2>5, <2>7, <2>9, <2>11, <2>13 DEF CashMoved, Moved
  <2>15. \A e \in Parties : \A i \in Claims \ {Cash} : p5[e][i] = p4[e][i]
    BY <2>13 DEF CashMoved
  <2>16. \A e \in Parties : p5[e][Loan] = p[e][Loan]
    BY <2>5, <2>7, <2>9, <2>11, <2>15, TheParties
  <2>17. \A e \in {"HH", "FIRM", "GOVT"} : p5[e][Res] = p[e][Res]
    BY <2>5, <2>7, <2>9, <2>11, <2>15, TheParties
  <2>18. p5["FIRM"][Bond] = p["FIRM"][Bond]
    BY <2>5, <2>7, <2>9, <2>11, <2>15, TheParties
  <2>19. p5["CB"][Cash] = p["CB"][Cash]
    BY <2>5, <2>7, <2>9, <2>11, <2>13, TheParties
  <2>20. p5["GOVT"][Cash] = p["GOVT"][Cash] + h + b + c /\ p5["GOVT"][Bond] = p["GOVT"][Bond] - h - b - c
    BY <2>5, <2>7, <2>9, <2>11, <2>13, <2>15, TheParties
  <2>21. p["GOVT"][Cash] \in Int /\ p["GOVT"][Bond] \in Int
         /\ p["CB"][Bond] \in Int /\ p["CB"][Res] \in Int
    BY TheParties DEF Balances
  <2>22. p5["GOVT"][Cash] = p["GOVT"][Cash] + d /\ p5["GOVT"][Bond] = p["GOVT"][Bond] - d
    BY <2>3, <2>4, <2>20, <2>21
  <2>23. p5["CB"][Bond] = p["CB"][Bond] + c /\ p5["CB"][Res] = p["CB"][Res] - c
    BY <2>5, <2>7, <2>9, <2>11, <2>15, TheParties
  <2>24. p5["CB"][Bond] + p5["CB"][Res] = p["CB"][Bond] + p["CB"][Res]
    BY <2>3, <2>21, <2>23
  <2> QED BY <2>2, <2>14, <2>16, <2>17, <2>18, <2>19, <2>22, <2>24
<1> QED BY <1>1, <1>2 DEF Amounts

\* Reserves lent to the bank.
LEMMA LastResortFacts ==
    ASSUME NEW p \in Balances, NEW x \in Int
    PROVE  LET q == LastResort(p, x)
           IN /\ Moved(p, q)
              /\ q["CB"][Res] = p["CB"][Res] - x /\ q["CB"][Loan] = p["CB"][Loan] + x
              /\ q["FIRM"] = p["FIRM"] /\ q["GOVT"] = p["GOVT"] /\ q["HH"] = p["HH"]
              /\ \A e \in Parties : q[e][Cash] = p[e][Cash] /\ q[e][Bond] = p[e][Bond]
<1> DEFINE p1 == Move(p, "CB", "BANKSYS", Res, x)
           p2 == Move(p1, "BANKSYS", "CB", Loan, x)
<1>1. /\ Moved(p, p1) /\ p1["CB"][Res] = p["CB"][Res] - x
      /\ \A e \in Parties : \A j \in Claims : (j # Res \/ (e # "CB" /\ e # "BANKSYS")) => p1[e][j] = p[e][j]
  BY MoveFacts, TheParties
<1>2. p1["FIRM"] = p["FIRM"] /\ p1["GOVT"] = p["GOVT"] /\ p1["HH"] = p["HH"]
  BY TheParties DEF Move, Balances
<1> HIDE DEF p1
<1>3. p1 \in Balances
  BY <1>1 DEF Moved
<1>4. /\ Moved(p1, p2) /\ p2["CB"][Loan] = p1["CB"][Loan] + x
      /\ \A e \in Parties : \A j \in Claims : (j # Loan \/ (e # "CB" /\ e # "BANKSYS")) => p2[e][j] = p1[e][j]
  BY <1>3, MoveFacts, TheParties
<1>5. p2["FIRM"] = p1["FIRM"] /\ p2["GOVT"] = p1["GOVT"] /\ p2["HH"] = p1["HH"]
  BY <1>3, TheParties DEF Move, Balances
<1>6. LastResort(p, x) = p2
  BY DEF LastResort, p1
<1> HIDE DEF p2
<1>7. Moved(p, p2)
  BY <1>1, <1>4 DEF Moved
<1> QED BY <1>1, <1>2, <1>4, <1>5, <1>6, <1>7, TheParties

\* A month before its shortfall: the government's bonds grow by its deficit, and
\* its account is left with what it had but for the interest its books know not of.
LEMMA BeforeTheShortfall ==
    ASSUME Amounts, NEW m \in Flows
    PROVE  LET q == SettledMonth(books, m)
               loss == IF full THEN Written(m) ELSE 0
           IN /\ Deficit(m) \in Int
              /\ Moved(books, q)
              /\ q["FIRM"][Loan] = books["FIRM"][Loan] + loss - m.borrow
              /\ q["CB"][Loan] = books["CB"][Loan] /\ q["CB"][Cash] = books["CB"][Cash]
              /\ q["CB"][Bond] + q["CB"][Res] = books["CB"][Bond] + books["CB"][Res]
              /\ q["GOVT"][Bond] = books["GOVT"][Bond] - Deficit(m)
              /\ q["FIRM"][Bond] = books["FIRM"][Bond]
              /\ \A e \in {"HH", "FIRM", "GOVT"} : q[e][Res] = books[e][Res]
              /\ full => q["GOVT"][Cash] = books["GOVT"][Cash] + m.r * govtDebt
                             - m.r * hhGB - m.r * bankGB - m.r * reserves
              /\ ~full => q["GOVT"][Cash] = books["GOVT"][Cash]
<1> DEFINE a1 == Pay(books, "GOVT", "FIRM", m.buy)
           a2 == Pay(a1, "HH", "GOVT", m.tax)
           a3 == Pay(a2, "HH", "FIRM", m.spend)
           a4 == Pay(a3, "GOVT", "BANKSYS", rescue)
           a5 == Interest(a4, m.r)
           a6 == Banking(a5, m)
           a7 == Borrowed(a6, m.borrow)
           q == Financed(a7, Deficit(m))
           loss == IF full THEN Written(m) ELSE 0
           g == m.r * govtDebt
           h == m.r * hhGB
           b == m.r * bankGB
           c == m.r * cbGB
           v == m.r * reserves
           d == Deficit(m)
<1>0. /\ g \in Int /\ h \in Int /\ b \in Int /\ c \in Int /\ v \in Int /\ rescue \in Int
      /\ full \in BOOLEAN /\ books \in Balances
  BY FlowTypes DEF Amounts
<1>1. SettledMonth(books, m) = q
  BY DEF SettledMonth, Posted
<1>2. d = m.buy + g + rescue - m.tax
  BY DEF Deficit
<1> HIDE DEF g, h, b, c, v
<1>3. d \in Int
  BY <1>0, <1>2, FlowTypes
<1>4. loss \in Int
  BY WriteOffFacts
<1> HIDE DEF d
<1>5. /\ CashMoved(books, a1) /\ a1["GOVT"][Cash] = books["GOVT"][Cash] - m.buy
      /\ a1["CB"][Cash] = books["CB"][Cash]
  BY <1>0, FlowTypes, PayFacts, TheParties
<1> HIDE DEF a1
<1>6. a1 \in Balances
  BY <1>5 DEF CashMoved, Moved
<1>7. CashMoved(a1, a2) /\ a2["GOVT"][Cash] = a1["GOVT"][Cash] + m.tax /\ a2["CB"][Cash] = a1["CB"][Cash]
  BY <1>6, FlowTypes, PayFacts, TheParties
<1> HIDE DEF a2
<1>8. a2 \in Balances
  BY <1>7 DEF CashMoved, Moved
<1>9. CashMoved(a2, a3) /\ a3["GOVT"][Cash] = a2["GOVT"][Cash] /\ a3["CB"][Cash] = a2["CB"][Cash]
  BY <1>8, FlowTypes, PayFacts, TheParties
<1> HIDE DEF a3
<1>10. a3 \in Balances
  BY <1>9 DEF CashMoved, Moved
<1>11. CashMoved(a3, a4) /\ a4["GOVT"][Cash] = a3["GOVT"][Cash] - rescue /\ a4["CB"][Cash] = a3["CB"][Cash]
  BY <1>0, <1>10, PayFacts, TheParties
<1> HIDE DEF a4
<1>12. a4 \in Balances
  BY <1>11 DEF CashMoved, Moved
<1>13. /\ CashMoved(a4, a5)
       /\ full => a5["GOVT"][Cash] = a4["GOVT"][Cash] - h - b - c /\ a5["CB"][Cash] = a4["CB"][Cash] + c
       /\ ~full => a5["GOVT"][Cash] = a4["GOVT"][Cash] - g /\ a5["CB"][Cash] = a4["CB"][Cash]
  BY <1>12, FlowTypes, InterestFacts DEF g, h, b, c
<1> HIDE DEF a5
<1>14. a5 \in Balances
  BY <1>13 DEF CashMoved, Moved
<1>15. /\ Moved(a5, a6)
       /\ full => a6["GOVT"][Cash] = a5["GOVT"][Cash] + c - v /\ a6["CB"][Cash] = a5["CB"][Cash] - c
       /\ ~full => a6["GOVT"][Cash] = a5["GOVT"][Cash] /\ a6["CB"][Cash] = a5["CB"][Cash]
       /\ a6["FIRM"][Loan] = a5["FIRM"][Loan] + loss /\ a6["CB"][Loan] = a5["CB"][Loan]
       /\ \A e \in Parties : a6[e][Bond] = a5[e][Bond] /\ a6[e][Res] = a5[e][Res]
  <2>1. CASE full
    <3>1. /\ Moved(a5, a6)
          /\ a6["GOVT"][Cash] = a5["GOVT"][Cash] + m.r * cbGB - m.r * reserves
          /\ a6["CB"][Cash] = a5["CB"][Cash] - m.r * cbGB
          /\ a6["FIRM"][Loan] = a5["FIRM"][Loan] + Written(m) /\ a6["CB"][Loan] = a5["CB"][Loan]
          /\ \A e \in Parties : a6[e][Bond] = a5[e][Bond] /\ a6[e][Res] = a5[e][Res]
      BY <1>14, <2>1, BankingFacts
    <3> HIDE DEF a6
    <3> QED BY <2>1, <3>1 DEF c, v
  <2>2. CASE ~full
    <3>1. a6 = a5
      BY <1>14, <2>2, BankingFacts
    <3>2. a5["FIRM"][Loan] \in Int
      BY <1>14, TheParties DEF Balances
    <3>3. loss = 0
      BY <2>2
    <3> HIDE DEF a6, loss
    <3> QED BY <1>14, <2>2, <3>1, <3>2, <3>3 DEF Moved
  <2> QED BY <1>0, <2>1, <2>2
<1> HIDE DEF a6
<1>16. a6 \in Balances
  BY <1>15 DEF Moved
<1>17. /\ Moved(a6, a7)
       /\ a7["FIRM"][Loan] = a6["FIRM"][Loan] - m.borrow /\ a7["CB"][Loan] = a6["CB"][Loan]
       /\ a7["GOVT"][Cash] = a6["GOVT"][Cash] /\ a7["CB"][Cash] = a6["CB"][Cash]
       /\ \A e \in Parties : a7[e][Bond] = a6[e][Bond] /\ a7[e][Res] = a6[e][Res]
  BY <1>16, FlowTypes, BorrowedFacts
<1> HIDE DEF a7
<1>18. a7 \in Balances
  BY <1>17 DEF Moved
<1>19. /\ Moved(a7, q)
       /\ q["GOVT"][Cash] = a7["GOVT"][Cash] + d /\ q["GOVT"][Bond] = a7["GOVT"][Bond] - d
       /\ q["CB"][Cash] = a7["CB"][Cash]
       /\ q["CB"][Bond] + q["CB"][Res] = a7["CB"][Bond] + a7["CB"][Res]
       /\ q["FIRM"][Bond] = a7["FIRM"][Bond]
       /\ \A e \in Parties : q[e][Loan] = a7[e][Loan]
       /\ \A e \in {"HH", "FIRM", "GOVT"} : q[e][Res] = a7[e][Res]
  BY <1>3, <1>18, FinancedFacts DEF d
<1> HIDE DEF q
<1>20. Moved(books, q)
  BY <1>5, <1>7, <1>9, <1>11, <1>13, <1>15, <1>17, <1>19 DEF CashMoved, Moved
<1>20a. /\ \A e \in Parties : \A i \in Claims : books[e][i] \in Int /\ a2[e][i] \in Int /\ a4[e][i] \in Int
        /\ \A e \in Parties : \A i \in Claims : a5[e][i] \in Int /\ a6[e][i] \in Int /\ q[e][i] \in Int
  BY <1>0, <1>8, <1>12, <1>14, <1>16, <1>20 DEF Balances, Moved
<1>21. \A e \in Parties : \A i \in {Loan, Bond, Res} : a5[e][i] = books[e][i]
  <2>1. \A e \in Parties : \A i \in Claims \ {Cash} : a5[e][i] = books[e][i]
    BY <1>5, <1>7, <1>9, <1>11, <1>13 DEF CashMoved
  <2> QED BY <2>1, TheParties
<1>22. /\ q["FIRM"][Loan] = books["FIRM"][Loan] + loss - m.borrow
       /\ q["CB"][Loan] = books["CB"][Loan]
       /\ q["CB"][Bond] + q["CB"][Res] = books["CB"][Bond] + books["CB"][Res]
       /\ q["GOVT"][Bond] = books["GOVT"][Bond] - d
       /\ q["FIRM"][Bond] = books["FIRM"][Bond]
       /\ \A e \in {"HH", "FIRM", "GOVT"} : q[e][Res] = books[e][Res]
  <2> HIDE DEF loss
  <2>1. /\ q["FIRM"][Loan] = a6["FIRM"][Loan] - m.borrow /\ q["CB"][Loan] = a6["CB"][Loan]
        /\ q["CB"][Bond] + q["CB"][Res] = a6["CB"][Bond] + a6["CB"][Res]
        /\ q["GOVT"][Bond] = a6["GOVT"][Bond] - d /\ q["FIRM"][Bond] = a6["FIRM"][Bond]
        /\ \A e \in {"HH", "FIRM", "GOVT"} : q[e][Res] = a6[e][Res]
    BY <1>17, <1>19, TheParties
  <2>2. /\ a6["FIRM"][Loan] = books["FIRM"][Loan] + loss /\ a6["CB"][Loan] = books["CB"][Loan]
        /\ \A e \in Parties : a6[e][Bond] = books[e][Bond] /\ a6[e][Res] = books[e][Res]
    BY <1>15, <1>21, TheParties
  <2> QED BY <2>1, <2>2, <1>3, <1>4, <1>20a, FlowTypes, TheParties
<1>23. books["GOVT"][Cash] \in Int /\ books["CB"][Cash] \in Int
  BY <1>0, TheParties DEF Balances
<1>24. /\ q["CB"][Cash] = books["CB"][Cash]
       /\ full => q["GOVT"][Cash] = books["GOVT"][Cash] + g - h - b - v
       /\ ~full => q["GOVT"][Cash] = books["GOVT"][Cash]
  <2>1. /\ a4["GOVT"][Cash] = books["GOVT"][Cash] - m.buy + m.tax - rescue
        /\ a4["CB"][Cash] = books["CB"][Cash]
    <3>1. a4["GOVT"][Cash] = a2["GOVT"][Cash] - rescue /\ a4["CB"][Cash] = a2["CB"][Cash]
      BY <1>9, <1>11
    <3>2. a2["GOVT"][Cash] = books["GOVT"][Cash] - m.buy + m.tax /\ a2["CB"][Cash] = books["CB"][Cash]
      BY <1>5, <1>7
    <3> QED BY <3>1, <3>2, <1>0, <1>20a, FlowTypes, TheParties
  <2>2. CASE full
    <3>1. a6["GOVT"][Cash] = a4["GOVT"][Cash] - h - b - c + c - v /\ a6["CB"][Cash] = a4["CB"][Cash] + c - c
      BY <1>13, <1>15, <2>2, <1>0, <1>20a, FlowTypes, TheParties
    <3>2. q["GOVT"][Cash] = a6["GOVT"][Cash] + d /\ q["CB"][Cash] = a6["CB"][Cash]
      BY <1>17, <1>19
    <3>3. q["GOVT"][Cash] = a4["GOVT"][Cash] - h - b - c + c - v + d
          /\ q["CB"][Cash] = a4["CB"][Cash] + c - c
      BY <3>1, <3>2
    <3> QED BY <3>3, <2>1, <2>2, <1>0, <1>2, <1>23, FlowTypes
  <2>3. CASE ~full
    <3>1. q["GOVT"][Cash] = a4["GOVT"][Cash] - g + d /\ q["CB"][Cash] = a4["CB"][Cash]
      BY <1>13, <1>15, <1>17, <1>19, <2>3
    <3> QED BY <3>1, <2>1, <2>3, <1>0, <1>2, <1>23, FlowTypes
  <2> QED BY <1>0, <2>2, <2>3
<1> QED BY <1>1, <1>3, <1>20, <1>22, <1>24 DEF d, g, h, b, v

LEMMA CellTypes ==
    ASSUME NEW p \in Balances
    PROVE  /\ \A e \in Parties : \A i \in Claims : p[e][i] \in Int
           /\ \A i \in Claims : /\ p["HH"][i] \in Int /\ p["FIRM"][i] \in Int /\ p["GOVT"][i] \in Int
                                /\ p["BANKSYS"][i] \in Int /\ p["CB"][i] \in Int
           /\ \A e \in Parties : NFA(p, e) \in Int
<1>1. \A e \in Parties : \A i \in Claims : p[e][i] \in Int
  BY DEF Balances
<1> QED BY <1>1, TheParties DEF NFA

\* Without reserves the central bank was not paid for in bonds, the bonds counted
\* are the bonds out and the reserves are the central bank's: a month leaves the
\* government what it had.
LEMMA NoShortfall ==
    ASSUME MoneyInv, NEW m \in Flows, lent = 0
    PROVE  SettledMonth(books, m)["GOVT"][Cash] = books["GOVT"][Cash]
<1> DEFINE q == SettledMonth(books, m)
           B == [e \in Parties |-> books[e][Bond]]
           R == [e \in Parties |-> books[e][Res]]
<1>1. /\ full => q["GOVT"][Cash] = books["GOVT"][Cash] + m.r * govtDebt
                     - m.r * hhGB - m.r * bankGB - m.r * reserves
      /\ ~full => q["GOVT"][Cash] = books["GOVT"][Cash]
  BY BeforeTheShortfall DEF MoneyInv
<1> HIDE DEF q
<1>2. full \in BOOLEAN /\ books \in Balances /\ uncounted = 0
  BY DEF MoneyInv, Amounts, DeficitFundsTheMonth
<1>3. /\ \A e \in Parties : books[e][Bond] \in Int /\ books[e][Res] \in Int
      /\ books["GOVT"][Cash] \in Int
  BY <1>2, CellTypes, TheParties
<1>4. CASE full
  <2>1. /\ hhGB = books["HH"][Bond] /\ bankGB = books["BANKSYS"][Bond] /\ reserves = books["BANKSYS"][Res]
    BY <1>4 DEF MoneyInv, Mirrors, BankSheetIsTheLedgers
  <2>2. /\ books["HH"][Bond] + books["GOVT"][Bond] + books["BANKSYS"][Bond] + books["CB"][Bond] = 0
        /\ books["BANKSYS"][Res] + books["CB"][Res] = 0
    <3>1. InAll(books, Bond) = 0 /\ InAll(books, Res) = 0
      BY TheParties DEF MoneyInv, Mirrors
    <3>2. /\ books["FIRM"][Bond] = 0 /\ books["FIRM"][Res] = 0 /\ books["GOVT"][Res] = 0
          /\ books["HH"][Res] = 0
      BY DEF MoneyInv, Mirrors
    <3> QED BY <3>1, <3>2, <1>3, TheParties DEF InAll
  <2>3. -books["GOVT"][Bond] = govtDebt + uncounted /\ books["CB"][Bond] + books["CB"][Res] = -lent
    BY DEF MoneyInv, Mirrors, BondsMirrored
  <2>4. govtDebt \in Int /\ hhGB \in Int /\ bankGB \in Int /\ reserves \in Int /\ m.r \in Int
    BY FlowTypes DEF MoneyInv, Amounts
  <2>5. govtDebt = hhGB + bankGB + reserves
    <3>1. -books["GOVT"][Bond] = govtDebt /\ books["CB"][Bond] + books["CB"][Res] = 0
      BY <2>3, <2>4, <1>2
    <3>2. /\ books["GOVT"][Bond] \in Int /\ books["CB"][Bond] \in Int /\ books["CB"][Res] \in Int
          /\ books["HH"][Bond] \in Int /\ books["BANKSYS"][Bond] \in Int /\ books["BANKSYS"][Res] \in Int
      BY <1>3, TheParties
    <3> DEFINE hb == books["HH"][Bond]
               gb == books["GOVT"][Bond]
               bb == books["BANKSYS"][Bond]
               cb == books["CB"][Bond]
               br == books["BANKSYS"][Res]
               cr == books["CB"][Res]
    <3>3. hb + gb + bb + cb = 0 /\ br + cr = 0 /\ -gb = govtDebt /\ cb + cr = 0
      BY <2>2, <3>1
    <3>4. hhGB = hb /\ bankGB = bb /\ reserves = br
      BY <2>1
    <3>5. {hb, gb, bb, cb, br, cr} \subseteq Int
      BY <3>2
    <3> HIDE DEF hb, gb, bb, cb, br, cr
    <3> QED BY <3>3, <3>4, <3>5, <2>4
  <2>6. m.r * govtDebt = m.r * hhGB + m.r * bankGB + m.r * reserves
    <3>1. \A r, x, y, z \in Int : r * (x + y + z) = r * x + r * y + r * z
      OBVIOUS
    <3> QED BY <3>1, <2>4, <2>5
  <2> DEFINE g == m.r * govtDebt
             h == m.r * hhGB
             b == m.r * bankGB
             v == m.r * reserves
  <2>7. g \in Int /\ h \in Int /\ b \in Int /\ v \in Int
    BY <2>4
  <2>8. g = h + b + v /\ q["GOVT"][Cash] = books["GOVT"][Cash] + g - h - b - v
    BY <1>1, <1>4, <2>6
  <2> HIDE DEF g, h, b, v
  <2> QED BY <1>3, <2>7, <2>8 DEF q
<1>5. CASE ~full
  BY <1>1, <1>5 DEF q
<1> QED BY <1>2, <1>4, <1>5

\* step_month.
LEMMA SettlingKeeps ==
    ASSUME MoneyInv, NEW m \in Flows, Month(m)
    PROVE  MoneyInv'
<1> DEFINE q == SettledMonth(books, m)
           loss == IF full THEN WriteOff(m) ELSE 0
           out == IF full THEN Written(m) ELSE 0
           back == Most(-loss, 0)
           x == Shortfall(q)
           p5 == Issue(q, "HH", x)
           p6 == LastResort(p5, lolr)
           d == Deficit(m)
<1>1. /\ month < MaxMonth /\ month' = month + 1 /\ credited' = credited + back
      /\ books' = p6 /\ debt' = debt - loss + m.borrow /\ govtDebt' = govtDebt + d
      /\ Refreshed(p6)
      /\ uncounted' = uncounted + x /\ lent' = lent + lolr
      /\ rescue' = 0 /\ lolr' = 0
      /\ UNCHANGED <<full, ops, seized>>
  BY DEF Month
<1>2. Amounts /\ Mirrors /\ DeficitFundsTheMonth /\ GovernmentNotOverdrawn
  BY DEF MoneyInv
<1>3. /\ d \in Int /\ Moved(books, q)
      /\ q["FIRM"][Loan] = books["FIRM"][Loan] + out - m.borrow
      /\ q["CB"][Loan] = books["CB"][Loan] /\ q["CB"][Cash] = books["CB"][Cash]
      /\ q["CB"][Bond] + q["CB"][Res] = books["CB"][Bond] + books["CB"][Res]
      /\ q["GOVT"][Bond] = books["GOVT"][Bond] - d
      /\ q["FIRM"][Bond] = books["FIRM"][Bond]
      /\ \A e \in {"HH", "FIRM", "GOVT"} : q[e][Res] = books[e][Res]
  BY <1>2, BeforeTheShortfall
<1>4. lent = 0 => q["GOVT"][Cash] = books["GOVT"][Cash]
  BY NoShortfall
<1>5. /\ loss \in Int /\ m.borrow \in Int /\ out \in Nat /\ back \in Nat
      /\ out - back = loss
  BY <1>2, FlowTypes, WriteOffFacts DEF Most
<1> HIDE DEF q, d, loss, out, back
<1>6. q \in Balances
  BY <1>3 DEF Moved
<1>7. q["GOVT"][Cash] \in Int
  BY <1>6, CellTypes, TheParties
<1>8. x \in Nat /\ q["GOVT"][Cash] + x >= 0 /\ (q["GOVT"][Cash] >= 0 => x = 0)
  BY <1>7 DEF Shortfall, Most
<1> HIDE DEF x
<1>9. x \in Int
  BY <1>8
<1>10. /\ Moved(q, p5)
       /\ p5["GOVT"][Bond] = q["GOVT"][Bond] - x /\ p5["GOVT"][Cash] = q["GOVT"][Cash] + x
       /\ \A e \in Parties : e # "HH" /\ e # "GOVT" => \A i \in Claims : p5[e][i] = q[e][i]
       /\ \A e \in Parties : \A i \in {Loan, Res} : p5[e][i] = q[e][i]
  BY <1>6, <1>9, IssueFacts, TheParties
<1> HIDE DEF p5
<1>11. p5 \in Balances
  BY <1>10 DEF Moved
<1>12. lolr \in Nat /\ lent \in Nat /\ uncounted \in Nat /\ full \in BOOLEAN
  BY <1>2 DEF Amounts
<1>13. /\ Moved(p5, p6)
       /\ p6["CB"][Res] = p5["CB"][Res] - lolr /\ p6["CB"][Loan] = p5["CB"][Loan] + lolr
       /\ p6["FIRM"] = p5["FIRM"] /\ p6["GOVT"] = p5["GOVT"] /\ p6["HH"] = p5["HH"]
       /\ \A e \in Parties : p6[e][Cash] = p5[e][Cash] /\ p6[e][Bond] = p5[e][Bond]
  <2>1. lolr \in Int
    BY <1>12
  <2> QED BY <1>11, <2>1, LastResortFacts
<1> HIDE DEF p6
<1>14. p6 \in Balances /\ books \in Balances
  BY <1>2, <1>13 DEF Moved, Amounts
<1>15. /\ \A e \in Parties : \A i \in Claims : q[e][i] \in Int /\ p5[e][i] \in Int
       /\ \A e \in Parties : \A i \in Claims : p6[e][i] \in Int /\ books[e][i] \in Int
       /\ \A e \in Parties : NFA(p6, e) \in Int
  BY <1>6, <1>11, <1>14, CellTypes
<1>16. Amounts'
  <2>1. month' \in 0 .. MaxMonth /\ ops' \in 0 .. MaxOps /\ full' \in BOOLEAN /\ books' \in Balances
    <3>1. month \in 0 .. MaxMonth /\ ops \in 0 .. MaxOps
      BY <1>2 DEF Amounts
    <3>2. MaxMonth \in Nat
      BY SettlementAssumption
    <3> QED BY <3>1, <3>2, <1>1, <1>12, <1>14 DEF Balances
  <2>2. debt' \in Int /\ govtDebt' \in Int
    <3>1. debt \in Int /\ govtDebt \in Int
      BY <1>2 DEF Amounts
    <3> QED BY <3>1, <1>1, <1>3, <1>5
  <2>3. /\ deposits' \in Int /\ reserves' \in Int /\ bankGB' \in Int /\ cbGB' \in Int
        /\ hhGB' \in Int /\ equity' \in Int
    <3>1. CASE full
      BY <1>1, <1>15, <3>1, TheParties DEF Refreshed
    <3>2. CASE ~full
      <4>1. UNCHANGED sheet
        BY <1>1, <3>2 DEF Refreshed
      <4> QED BY <4>1, <1>2 DEF sheet, Amounts
    <3> QED BY <1>12, <3>1, <3>2
  <2>4. /\ rescue' \in Int /\ lolr' \in Nat /\ seized' \in Int /\ uncounted' \in Nat /\ lent' \in Nat
        /\ credited' \in Nat
    <3>1. seized \in Int /\ credited \in Nat
      BY <1>2 DEF Amounts
    <3> QED BY <3>1, <1>1, <1>5, <1>8, <1>12
  <2> QED BY <2>1, <2>2, <2>3, <2>4 DEF Amounts, Balances
<1>17. Mirrors'
  <2>1. \A i \in Claims : InAll(books', i) = 0
    <3>1. \A i \in Claims : InAll(books, i) = 0
      BY <1>2 DEF Mirrors
    <3> QED BY <3>1, <1>1, <1>3, <1>10, <1>13 DEF Moved
  <2>2. DebtMirrored'
    <3>1. /\ debt = seized + credited - books["FIRM"][Loan]
          /\ debt \in Int /\ seized \in Int /\ credited \in Nat
      BY <1>2 DEF Mirrors, DebtMirrored, Amounts
    <3>2. p6["FIRM"][Loan] = q["FIRM"][Loan]
      BY <1>10, <1>13, TheParties
    <3>3. p6["FIRM"][Loan] = books["FIRM"][Loan] + out - m.borrow
      BY <1>3, <3>2
    <3>4. debt - loss + m.borrow = seized + (credited + back) - p6["FIRM"][Loan]
      BY <3>1, <3>3, <1>5, <1>15, TheParties
    <3> QED BY <3>4, <1>1 DEF DebtMirrored
  <2>3. BondsMirrored'
    <3>1. -books["GOVT"][Bond] = govtDebt + uncounted /\ govtDebt \in Int
      BY <1>2 DEF Mirrors, BondsMirrored, Amounts
    <3>2. p6["GOVT"][Bond] = books["GOVT"][Bond] - d - x
      BY <1>3, <1>10, <1>13
    <3>3. -p6["GOVT"][Bond] = govtDebt + d + (uncounted + x)
      <4>1. /\ p6["GOVT"][Bond] \in Int /\ books["GOVT"][Bond] \in Int
            /\ d \in Int /\ x \in Int /\ uncounted \in Int
        BY <1>3, <1>9, <1>12, <1>15, TheParties
      <4>2. \A a, b, g, u, dd, xx \in Int : a = b - dd - xx /\ -b = g + u => -a = g + dd + (u + xx)
        OBVIOUS
      <4> QED BY <3>1, <3>2, <4>1, <4>2
    <3> QED BY <3>3, <1>1 DEF BondsMirrored
  <2>4. BankSheetIsTheLedgers'
    BY <1>1 DEF BankSheetIsTheLedgers, Refreshed
  <2>5. full' => hhGB' = books'["HH"][Bond]
    BY <1>1 DEF Refreshed
  <2>6. books'["FIRM"][Bond] = 0
    BY <1>1, <1>2, <1>3, <1>10, <1>13, TheParties DEF Mirrors
  <2>7. \A e \in {"HH", "FIRM", "GOVT"} : books'[e][Res] = 0
    BY <1>1, <1>2, <1>3, <1>10, <1>13, TheParties DEF Mirrors
  <2>8. books'["CB"][Cash] = 0 /\ books'["CB"][Loan] = lent'
    BY <1>1, <1>2, <1>3, <1>10, <1>13, TheParties DEF Mirrors
  <2>9. books'["CB"][Bond] + books'["CB"][Res] = -lent'
    <3>1. q["CB"][Bond] + q["CB"][Res] = -lent
      BY <1>2, <1>3 DEF Mirrors
    <3>2. p6["CB"][Bond] = q["CB"][Bond] /\ p6["CB"][Res] = q["CB"][Res] - lolr
      BY <1>10, <1>13, TheParties
    <3>3. p6["CB"][Bond] + p6["CB"][Res] = -(lent + lolr)
      <4>1. /\ p6["CB"][Bond] \in Int /\ p6["CB"][Res] \in Int
            /\ q["CB"][Bond] \in Int /\ q["CB"][Res] \in Int /\ lent \in Int /\ lolr \in Int
        BY <1>12, <1>15, TheParties
      <4>2. \A a, b, c, l, n \in Int : a + b = -l => a + (b - n) = -(l + n)
        OBVIOUS
      <4>3. q["CB"][Bond] + (q["CB"][Res] - lolr) = -(lent + lolr)
        BY <3>1, <4>1, <4>2
      <4> QED BY <3>2, <4>3
    <3> QED BY <3>3, <1>1
  <2> QED BY <2>1, <2>2, <2>3, <2>4, <2>5, <2>6, <2>7, <2>8, <2>9 DEF Mirrors
<1>18. GovernmentNotOverdrawn'
  <2>1. p6["GOVT"][Cash] = q["GOVT"][Cash] + x
    BY <1>10, <1>13
  <2> QED BY <2>1, <1>1, <1>8 DEF GovernmentNotOverdrawn
<1>19. DeficitFundsTheMonth'
  <2>1. ASSUME lent' = 0 PROVE uncounted' = 0
    <3>1. lent = 0
      BY <2>1, <1>1, <1>12
    <3>2. uncounted = 0 /\ q["GOVT"][Cash] = books["GOVT"][Cash] /\ books["GOVT"][Cash] >= 0
      BY <3>1, <1>2, <1>4 DEF DeficitFundsTheMonth, GovernmentNotOverdrawn
    <3>3. x = 0
      BY <3>2, <1>8
    <3> QED BY <3>2, <3>3, <1>1
  <2> QED BY <2>1 DEF DeficitFundsTheMonth
<1> QED BY <1>16, <1>17, <1>18, <1>19 DEF MoneyInv

\* The levers of the policymaker.
LEMMA LeversKeep ==
    ASSUME MoneyInv, NEW x, (x \in Rescues /\ SetRescue(x)) \/ (x \in Lolrs /\ SetLolr(x))
    PROVE  MoneyInv'
<1>1. x \in Rescues => x \in Int
  BY SettlementAssumption
<1>2. x \in Lolrs => x \in Nat
  BY SettlementAssumption
<1>3. MaxOps \in Nat
  BY SettlementAssumption
<1>4. /\ UNCHANGED <<full, month, books, debt, govtDebt, sheet, seized, credited, uncounted, lent>>
      /\ ops < MaxOps /\ ops' = ops + 1
      /\ (x \in Rescues /\ rescue' = x /\ lolr' = lolr) \/ (x \in Lolrs /\ lolr' = x /\ rescue' = rescue)
  BY DEF SetRescue, SetLolr
<1>5. Amounts'
  <2>1. Amounts
    BY DEF MoneyInv
  <2> QED BY <1>1, <1>2, <1>3, <1>4, <2>1 DEF Amounts, sheet, Balances
<1>6. Mirrors' /\ DeficitFundsTheMonth' /\ GovernmentNotOverdrawn'
  BY <1>4 DEF MoneyInv, Mirrors, DeficitFundsTheMonth, GovernmentNotOverdrawn, sheet, InAll,
              DebtMirrored, BondsMirrored, BankSheetIsTheLedgers, NFA
<1> QED BY <1>5, <1>6 DEF MoneyInv

\* An event's loss is off the loans and off the equity.
LEMMA LossKeeps ==
    ASSUME MoneyInv, BankLoss
    PROVE  MoneyInv'
<1> DEFINE n == NFA(books, "BANKSYS")
           x == Most(0, n \div 2)
           p == Move(books, "BANKSYS", "FIRM", Loan, x)
<1>1. /\ ops < MaxOps /\ ops' = ops + 1 /\ full
      /\ books' = p /\ equity' = NFA(p, "BANKSYS") /\ seized' = seized + x
      /\ UNCHANGED <<full, month, debt, govtDebt, deposits, reserves, bankGB, cbGB, hhGB, rescue, lolr,
                     credited, uncounted, lent>>
  BY DEF BankLoss
<1>2. Amounts /\ Mirrors /\ DeficitFundsTheMonth /\ GovernmentNotOverdrawn
  BY DEF MoneyInv
<1>3. books \in Balances
  BY <1>2 DEF Amounts
<1>4. n \in Int
  BY <1>3, CellTypes, TheParties
<1> HIDE DEF n
<1>5. x \in Int
  BY <1>4 DEF Most
<1> HIDE DEF x
<1>6. /\ Moved(books, p) /\ p["FIRM"][Loan] = books["FIRM"][Loan] + x
      /\ \A e \in Parties : \A j \in Claims : (j # Loan \/ (e # "BANKSYS" /\ e # "FIRM")) => p[e][j] = books[e][j]
  BY <1>3, <1>5, MoveFacts, TheParties
<1> HIDE DEF p
<1>7. p \in Balances
  BY <1>6 DEF Moved
<1>8. /\ \A e \in Parties : \A i \in Claims : p[e][i] \in Int /\ books[e][i] \in Int
      /\ NFA(p, "BANKSYS") \in Int
  BY <1>3, <1>7, CellTypes, TheParties
<1>9. Amounts'
  <2>1. MaxOps \in Nat
    BY SettlementAssumption
  <2>2. ops' \in 0 .. MaxOps /\ seized' \in Int
    BY <1>1, <1>2, <1>5, <2>1 DEF Amounts
  <2> QED BY <1>1, <1>2, <1>7, <1>8, <2>2 DEF Amounts, Balances
<1>10. DebtMirrored'
  <2>1. /\ debt = seized + credited - books["FIRM"][Loan]
        /\ debt \in Int /\ seized \in Int /\ credited \in Nat
    BY <1>2 DEF Mirrors, DebtMirrored, Amounts
  <2>2. books["FIRM"][Loan] \in Int
    BY <1>8, TheParties
  <2>3. debt = (seized + x) + credited - (books["FIRM"][Loan] + x)
    BY <2>1, <2>2, <1>5
  <2>4. debt = (seized + x) + credited - p["FIRM"][Loan]
    BY <1>6, <2>3
  <2>5. /\ debt' = debt /\ seized' = seized + x /\ credited' = credited
        /\ books'["FIRM"][Loan] = p["FIRM"][Loan]
    BY <1>1
  <2>6. debt' = seized' + credited' - books'["FIRM"][Loan]
    BY <2>4, <2>5
  <2> QED BY <2>6 DEF DebtMirrored
<1>11. Mirrors'
  <2>1. \A i \in Claims : InAll(books', i) = 0
    BY <1>1, <1>2, <1>6 DEF Mirrors, Moved
  <2>2. BondsMirrored' /\ (full' => hhGB' = books'["HH"][Bond])
    BY <1>1, <1>2, <1>6, TheParties DEF Mirrors, BondsMirrored
  <2>3. BankSheetIsTheLedgers'
    BY <1>1, <1>2, <1>6, TheParties DEF Mirrors, BankSheetIsTheLedgers
  <2>4. /\ books'["FIRM"][Bond] = 0
        /\ \A e \in {"HH", "FIRM", "GOVT"} : books'[e][Res] = 0
        /\ books'["CB"][Cash] = 0 /\ books'["CB"][Loan] = lent'
        /\ books'["CB"][Bond] + books'["CB"][Res] = -lent'
    BY <1>1, <1>2, <1>6, TheParties DEF Mirrors
  <2> QED BY <1>10, <2>1, <2>2, <2>3, <2>4 DEF Mirrors
<1>12. DeficitFundsTheMonth' /\ GovernmentNotOverdrawn'
  BY <1>1, <1>2, <1>6, TheParties DEF DeficitFundsTheMonth, GovernmentNotOverdrawn
<1> QED BY <1>9, <1>11, <1>12 DEF MoneyInv

\* open_passthrough_books and open_full_books.
LEMMA OpeningKeeps ==
    ASSUME MoneyInit
    PROVE  MoneyInv
<1> DEFINE none == EmptyBooks(Parties, Claims)
           a1 == Move(none, "FIRM", "HH", Loan, Debt0)
           a2 == Move(a1, "GOVT", "HH", Bond, Bonds0)
           b1 == Move(none, "FIRM", "BANKSYS", Loan, Debt0)
           b2 == Move(b1, "BANKSYS", "HH", Cash, Deposits0)
           b3 == Move(b2, "CB", "BANKSYS", Res, Reserves0)
           b4 == Move(b3, "GOVT", "BANKSYS", Bond, BankBonds0)
           b5 == Move(b4, "GOVT", "CB", Bond, Reserves0)
           rest == Bonds0 - BankBonds0 - Reserves0
           b6 == Move(b5, "GOVT", "HH", Bond, rest)
<1>1. /\ Debt0 \in Nat /\ Bonds0 \in Int /\ BankBonds0 \in Int /\ Reserves0 \in Int /\ Deposits0 \in Int
      /\ MaxMonth \in Nat /\ MaxOps \in Nat
  BY SettlementAssumption
<1>0. Debt0 \in Int /\ "FIRM" # "BANKSYS" /\ "FIRM" # "HH"
  BY <1>1
<1>2. rest \in Int
  BY <1>1
<1>3. Opening = IF ~full THEN a2 ELSE b6
  BY DEF Opening
<1>4. none \in Balances /\ \A e \in Parties : \A i \in Claims : none[e][i] = 0
  BY DEF EmptyBooks, Balances
<1>5. \A i \in Claims : InAll(none, i) = 0
  BY <1>4, TheParties DEF InAll
<1> HIDE DEF none
<1>6. /\ Moved(none, a1) /\ a1["FIRM"][Loan] = 0 - Debt0
      /\ \A e \in Parties : \A j \in Claims : (j # Loan \/ (e # "FIRM" /\ e # "HH")) => a1[e][j] = 0
  <2>1. LET q == Move(none, "FIRM", "HH", Loan, Debt0)
        IN /\ Moved(none, q) /\ q["FIRM"][Loan] = none["FIRM"][Loan] - Debt0
           /\ \A e \in Parties : \A j \in Claims : (j # Loan \/ (e # "FIRM" /\ e # "HH")) => q[e][j] = none[e][j]
    BY <1>0, <1>4, MoveFacts, TheParties
  <2> QED BY <2>1, <1>4, TheParties
<1> HIDE DEF a1
<1>7. a1 \in Balances
  BY <1>6 DEF Moved
<1>8. /\ Moved(a1, a2) /\ a2["GOVT"][Bond] = a1["GOVT"][Bond] - Bonds0
      /\ \A e \in Parties : \A j \in Claims : (j # Bond \/ (e # "GOVT" /\ e # "HH")) => a2[e][j] = a1[e][j]
  BY <1>1, <1>7, MoveFacts, TheParties
<1> HIDE DEF a2
<1>9. /\ Moved(none, b1) /\ b1["FIRM"][Loan] = 0 - Debt0
      /\ \A e \in Parties : \A j \in Claims : (j # Loan \/ (e # "FIRM" /\ e # "BANKSYS")) => b1[e][j] = 0
  <2>1. LET q == Move(none, "FIRM", "BANKSYS", Loan, Debt0)
        IN /\ Moved(none, q) /\ q["FIRM"][Loan] = none["FIRM"][Loan] - Debt0
           /\ \A e \in Parties : \A j \in Claims :
                 (j # Loan \/ (e # "FIRM" /\ e # "BANKSYS")) => q[e][j] = none[e][j]
    BY <1>0, <1>4, MoveFacts, TheParties
  <2> QED BY <2>1, <1>4, TheParties
<1> HIDE DEF b1
<1>10. b1 \in Balances
  BY <1>9 DEF Moved
<1>11. /\ Moved(b1, b2) /\ b2["BANKSYS"][Cash] = b1["BANKSYS"][Cash] - Deposits0
       /\ \A e \in Parties : \A j \in Claims : (j # Cash \/ (e # "BANKSYS" /\ e # "HH")) => b2[e][j] = b1[e][j]
  BY <1>1, <1>10, MoveFacts, TheParties
<1> HIDE DEF b2
<1>12. b2 \in Balances
  BY <1>11 DEF Moved
<1>13. /\ Moved(b2, b3) /\ b3["CB"][Res] = b2["CB"][Res] - Reserves0
       /\ b3["BANKSYS"][Res] = b2["BANKSYS"][Res] + Reserves0
       /\ \A e \in Parties : \A j \in Claims : (j # Res \/ (e # "CB" /\ e # "BANKSYS")) => b3[e][j] = b2[e][j]
  BY <1>1, <1>12, MoveFacts, TheParties
<1> HIDE DEF b3
<1>14. b3 \in Balances
  BY <1>13 DEF Moved
<1>15. /\ Moved(b3, b4) /\ b4["GOVT"][Bond] = b3["GOVT"][Bond] - BankBonds0
       /\ b4["BANKSYS"][Bond] = b3["BANKSYS"][Bond] + BankBonds0
       /\ \A e \in Parties : \A j \in Claims :
             (j # Bond \/ (e # "GOVT" /\ e # "BANKSYS")) => b4[e][j] = b3[e][j]
  BY <1>1, <1>14, MoveFacts, TheParties
<1> HIDE DEF b4
<1>16. b4 \in Balances
  BY <1>15 DEF Moved
<1>17. /\ Moved(b4, b5) /\ b5["GOVT"][Bond] = b4["GOVT"][Bond] - Reserves0
       /\ b5["CB"][Bond] = b4["CB"][Bond] + Reserves0
       /\ \A e \in Parties : \A j \in Claims : (j # Bond \/ (e # "GOVT" /\ e # "CB")) => b5[e][j] = b4[e][j]
  BY <1>1, <1>16, MoveFacts, TheParties
<1> HIDE DEF b5
<1>18. b5 \in Balances
  BY <1>17 DEF Moved
<1>19. /\ Moved(b5, b6) /\ b6["GOVT"][Bond] = b5["GOVT"][Bond] - rest
       /\ b6["HH"][Bond] = b5["HH"][Bond] + rest
       /\ \A e \in Parties : \A j \in Claims : (j # Bond \/ (e # "GOVT" /\ e # "HH")) => b6[e][j] = b5[e][j]
  BY <1>2, <1>18, MoveFacts, TheParties
<1> HIDE DEF b6
<1>20. a2 \in Balances /\ b6 \in Balances
  BY <1>8, <1>19 DEF Moved
<1>21. \A i \in Claims : InAll(a2, i) = 0 /\ InAll(b6, i) = 0
  BY <1>5, <1>6, <1>8, <1>9, <1>11, <1>13, <1>15, <1>17, <1>19 DEF Moved
<1>22. /\ a2["GOVT"][Bond] = 0 - Bonds0 /\ a2["FIRM"][Loan] = 0 - Debt0 /\ a2["FIRM"][Bond] = 0
       /\ a2["GOVT"][Cash] = 0
       /\ \A i \in Claims : a2["CB"][i] = 0
       /\ \A e \in Parties : a2[e][Res] = 0
  BY <1>1, <1>6, <1>8, TheParties
<1>23. /\ b6["FIRM"][Loan] = 0 - Debt0 /\ b6["FIRM"][Bond] = 0
       /\ b6["CB"][Cash] = 0 /\ b6["CB"][Loan] = 0
       /\ \A e \in {"HH", "FIRM", "GOVT"} : b6[e][Res] = 0
  BY <1>1, <1>9, <1>11, <1>13, <1>15, <1>17, <1>19, TheParties
<1>24. b6["GOVT"][Bond] = ((0 - BankBonds0) - Reserves0) - rest /\ b6["GOVT"][Cash] = 0
  BY <1>1, <1>9, <1>11, <1>13, <1>15, <1>17, <1>19, TheParties
<1>25. /\ b6["HH"][Bond] = rest /\ b6["CB"][Bond] = Reserves0 /\ b6["CB"][Res] = 0 - Reserves0
       /\ b6["BANKSYS"][Bond] = BankBonds0 /\ b6["BANKSYS"][Res] = Reserves0
       /\ b6["BANKSYS"][Cash] = 0 - Deposits0
  BY <1>1, <1>2, <1>9, <1>11, <1>13, <1>15, <1>17, <1>19, TheParties
<1>26. b6["GOVT"][Bond] = 0 - Bonds0
  BY <1>1, <1>24
<1>27. /\ full \in BOOLEAN /\ month = 0 /\ ops = 0 /\ books = Opening /\ debt = Debt0 /\ govtDebt = Bonds0
       /\ rescue = 0 /\ lolr = 0 /\ seized = 0 /\ credited = 0 /\ uncounted = 0 /\ lent = 0
       /\ full => /\ deposits = Deposits0 /\ reserves = Reserves0 /\ bankGB = BankBonds0
                  /\ cbGB = Reserves0 /\ hhGB = rest /\ equity = NFA(Opening, "BANKSYS")
       /\ ~full => /\ deposits = 0 /\ reserves = 0 /\ bankGB = 0 /\ cbGB = 0 /\ hhGB = Bonds0 /\ equity = 0
  BY DEF MoneyInit
<1>28. books \in Balances /\ NFA(books, "BANKSYS") \in Int
  BY <1>3, <1>20, <1>27, CellTypes, TheParties
<1>29. Amounts
  <2>1. /\ deposits \in Int /\ reserves \in Int /\ bankGB \in Int /\ cbGB \in Int /\ hhGB \in Int /\ equity \in Int
    BY <1>1, <1>2, <1>27, <1>28
  <2> QED BY <1>1, <1>27, <1>28, <2>1 DEF Amounts
<1>30. Mirrors /\ books["GOVT"][Cash] = 0
  <2> HIDE DEF rest
  <2>1. CASE full
    <3>1. books = b6
      BY <1>3, <1>27, <2>1
    <3>2. DebtMirrored /\ BondsMirrored
      BY <1>1, <1>23, <1>26, <1>27, <3>1 DEF DebtMirrored, BondsMirrored
    <3>3. BankSheetIsTheLedgers
      BY <1>1, <1>25, <1>27, <3>1 DEF BankSheetIsTheLedgers
    <3>4. books["CB"][Bond] + books["CB"][Res] = -lent
      BY <1>1, <1>25, <1>27, <3>1
    <3> QED BY <1>21, <1>23, <1>24, <1>25, <1>27, <2>1, <3>1, <3>2, <3>3, <3>4 DEF Mirrors
  <2>2. CASE ~full
    <3>1. books = a2
      BY <1>3, <1>27, <2>2
    <3>2. DebtMirrored /\ BondsMirrored
      BY <1>1, <1>22, <1>27, <3>1 DEF DebtMirrored, BondsMirrored
    <3>3. BankSheetIsTheLedgers
      BY <2>2 DEF BankSheetIsTheLedgers
    <3>4. books["CB"][Bond] + books["CB"][Res] = -lent
      BY <1>22, <1>27, <3>1, TheParties
    <3> QED BY <1>21, <1>22, <1>27, <2>2, <3>1, <3>2, <3>3, <3>4, TheParties DEF Mirrors
  <2> QED BY <1>27, <2>1, <2>2
<1>31. DeficitFundsTheMonth /\ GovernmentNotOverdrawn
  BY <1>27, <1>30 DEF DeficitFundsTheMonth, GovernmentNotOverdrawn
<1> QED BY <1>29, <1>30, <1>31 DEF MoneyInv

\* The invariant gives the property.
LEMMA MoneyInvGives ==
    ASSUME MoneyInv
    PROVE  MoneyAccounted
<1>1. Amounts /\ Mirrors
  BY DEF MoneyInv
<1>2. books \in Balances
  BY <1>1 DEF Amounts
<1>3. MoneyTyped
  <2>1. Consistent(books, Claims)
    BY <1>1, <1>2, FiveCells DEF Consistent, Mirrors
  <2> QED BY <1>1, <2>1 DEF MoneyTyped, Amounts
<1>4. CentralBankKeepsNothing
  <2>1. /\ books["CB"][Cash] = 0 /\ books["CB"][Loan] = lent /\ lent \in Nat
        /\ books["CB"][Bond] + books["CB"][Res] = -lent
    BY <1>1 DEF Mirrors, Amounts
  <2>2. books["CB"][Bond] \in Int /\ books["CB"][Res] \in Int
    BY <1>2, CellTypes, TheParties
  <2> QED BY <2>1, <2>2 DEF CentralBankKeepsNothing, NFA
<1> QED BY <1>1, <1>3, <1>4 DEF MoneyAccounted, MoneyInv, Mirrors

\* The economy's copies of its debts and balances are the ledger's after every month,
\* lever and loss, the ledger balances, and the government and the central bank end
\* every month as their rules say (step_month, settle_month, _refresh_bank_sheet).
THEOREM MoneyAccountedCorrect == MoneySpec => []MoneyAccounted
<1>1. MoneyInit => MoneyInv
  BY OpeningKeeps
<1>2. MoneyInv /\ [MoneyNext]_money_vars => MoneyInv'
  <2> SUFFICES ASSUME MoneyInv, [MoneyNext]_money_vars PROVE MoneyInv'
    OBVIOUS
  <2>1. CASE \E m \in Flows : Month(m)
    BY <2>1, SettlingKeeps
  <2>2. CASE \E x \in Rescues : SetRescue(x)
    BY <2>2, LeversKeep
  <2>3. CASE \E x \in Lolrs : SetLolr(x)
    BY <2>3, LeversKeep
  <2>4. CASE BankLoss
    BY <2>4, LossKeeps
  <2>5. CASE UNCHANGED money_vars
    <3>1. Amounts'
      BY <2>5 DEF MoneyInv, Amounts, money_vars, Balances
    <3>2. Mirrors' /\ DeficitFundsTheMonth' /\ GovernmentNotOverdrawn'
      BY <2>5 DEF MoneyInv, Mirrors, DeficitFundsTheMonth, GovernmentNotOverdrawn, money_vars, InAll,
                  DebtMirrored, BondsMirrored, BankSheetIsTheLedgers, NFA
    <3> QED BY <3>1, <3>2 DEF MoneyInv
  <2> QED BY <2>1, <2>2, <2>3, <2>4, <2>5 DEF MoneyNext
<1>3. MoneyInv => MoneyAccounted
  BY MoneyInvGives
<1> QED BY <1>1, <1>2, <1>3, PTL DEF MoneySpec

-----------------------------------------------------------------------------
(* The secondary market (BondMarket): sums over its holders, and moves. *)

\* A move in any books with two owners and a paper.
LEMMA CellsMoved ==
    ASSUME NEW E, NEW I, NEW p \in [E -> [I -> Int]], NEW a \in E, NEW c \in E, a # c,
           NEW i \in I, NEW x \in Int
    PROVE  LET q == Move(p, a, c, i, x)
           IN /\ q \in [E -> [I -> Int]]
              /\ q[a][i] = p[a][i] - x /\ q[c][i] = p[c][i] + x
              /\ \A e \in E : \A j \in I : (j # i \/ (e # a /\ e # c)) => q[e][j] = p[e][j]
<1> DEFINE q == Move(p, a, c, i, x)
           p1 == [p EXCEPT ![a][i] = @ - x]
<1>1. q = [p1 EXCEPT ![c][i] = @ + x]
  BY DEF Move
<1>2. /\ p1 \in [E -> [I -> Int]] /\ p1[a][i] = p[a][i] - x
      /\ \A e \in E : \A j \in I : (e # a \/ j # i) => p1[e][j] = p[e][j]
  OBVIOUS
<1> HIDE DEF p1
<1>3. /\ q \in [E -> [I -> Int]] /\ q[c][i] = p1[c][i] + x
      /\ \A e \in E : \A j \in I : (e # c \/ j # i) => q[e][j] = p1[e][j]
  BY <1>1, <1>2
<1> HIDE DEF q
<1>4. /\ q[a][i] = p[a][i] - x /\ q[c][i] = p[c][i] + x
      /\ \A e \in E : \A j \in I : (j # i \/ (e # a /\ e # c)) => q[e][j] = p[e][j]
  BY <1>2, <1>3
<1> QED BY <1>3, <1>4 DEF q

\* The sum of five terms, and of the last four of them.
LEMMA FiveTerms ==
    ASSUME NEW a, NEW b, NEW c, NEW d, NEW e,
           a # b, a # c, a # d, a # e, b # c, b # d, b # e, c # d, c # e, d # e,
           NEW f \in [{a, b, c, d, e} -> Int]
    PROVE  /\ SumOver(f, {a, b, c, d, e}) = f[a] + f[b] + f[c] + f[d] + f[e]
           /\ SumOver(f, {a, b, c, d, e} \ {a}) = f[b] + f[c] + f[d] + f[e]
<1> DEFINE S == {a, b, c, d, e}
           E1 == S \ {a}
           E2 == E1 \ {b}
           E3 == E2 \ {c}
           E4 == E3 \ {d}
           E5 == E4 \ {e}
<1>1. IsFiniteSet(S)
  <2>1. IsFiniteSet({a})
    BY FS_Singleton
  <2>2. IsFiniteSet({a} \cup {b})
    BY <2>1, FS_AddElement
  <2>3. IsFiniteSet({a, b} \cup {c})
    BY <2>2, FS_AddElement, {a} \cup {b} = {a, b}
  <2>4. IsFiniteSet({a, b, c} \cup {d})
    BY <2>3, FS_AddElement, {a, b} \cup {c} = {a, b, c}
  <2>5. IsFiniteSet({a, b, c, d} \cup {e})
    BY <2>4, FS_AddElement, {a, b, c} \cup {d} = {a, b, c, d}
  <2> QED BY <2>5, {a, b, c, d} \cup {e} = S
<1>2. Summable(f) /\ DOMAIN f = S
  BY <1>1 DEF Summable
<1>3. /\ \A E \in SUBSET S : \A k \in E : SumOver(f, E) = f[k] + SumOver(f, E \ {k})
      /\ \A E \in SUBSET S : SumOver(f, E) \in Int
      /\ SumOver(f, {}) = 0
  BY <1>2, SumFacts
<1>4. /\ E1 \in SUBSET S /\ E2 \in SUBSET S /\ E3 \in SUBSET S /\ E4 \in SUBSET S
      /\ a \in S /\ b \in E1 /\ c \in E2 /\ d \in E3 /\ e \in E4 /\ E5 = {} /\ S \in SUBSET S
  OBVIOUS
<1>5. f[a] \in Int /\ f[b] \in Int /\ f[c] \in Int /\ f[d] \in Int /\ f[e] \in Int
  OBVIOUS
<1>6. /\ SumOver(f, S) = f[a] + SumOver(f, E1)
      /\ SumOver(f, E1) = f[b] + SumOver(f, E2) /\ SumOver(f, E2) = f[c] + SumOver(f, E3)
      /\ SumOver(f, E3) = f[d] + SumOver(f, E4) /\ SumOver(f, E4) = f[e] + SumOver(f, E5)
  BY <1>3, <1>4
<1>7. SumOver(f, E5) = 0
  BY <1>3, <1>4
<1> HIDE DEF E1, E2, E3, E4, E5
<1>8. SumOver(f, E1) = f[b] + (f[c] + (f[d] + (f[e] + 0)))
  BY <1>6, <1>7
<1>9. SumOver(f, E1) = f[b] + f[c] + f[d] + f[e]
  BY <1>5, <1>8
<1>10. SumOver(f, S) = f[a] + f[b] + f[c] + f[d] + f[e]
  BY <1>5, <1>6, <1>9
<1> QED BY <1>9, <1>10 DEF E1

-----------------------------------------------------------------------------

HeldBooks == [Bookholders -> [All -> Int]]
Ledgers == [Owners -> [Papers -> Int]]
InBooks(h, b) == h[Dealer][b] + h[CB][b] + h[Row][b] + h[Agent][b] + h[Insurer][b]

LEMMA TheHolders ==
    /\ Dealer \in Bookholders /\ CB \in Bookholders /\ Row \in Bookholders
    /\ Agent \in Bookholders /\ Insurer \in Bookholders
    /\ Dealer # CB /\ Dealer # Row /\ Dealer # Agent /\ Dealer # Insurer /\ CB # Row /\ CB # Agent
    /\ CB # Insurer /\ Row # Agent /\ Row # Insurer /\ Agent # Insurer
    /\ Bookholders = {Dealer, CB, Row, Agent, Insurer}
<1>1. Agent # Insurer /\ {Agent, Insurer} \cap {"MM", "CB", "BANKSYS", "GOVT", "ROW", "CORPPOOL", "FIRM"} = {}
  BY BondMarketAssumption
<1> QED BY <1>1 DEF Bookholders, Dealer, CB, Row

LEMMA TheOwners ==
    /\ Dealer \in Owners /\ CB \in Owners /\ Bank \in Owners /\ Treasury \in Owners
    /\ Pool \in Owners /\ Borrower \in Owners
    /\ Dealer # CB /\ Dealer # Bank /\ Dealer # Pool /\ CB # Bank /\ CB # Treasury /\ CB # Pool
    /\ Bank # Pool /\ Bank # Treasury /\ Bank # Borrower /\ Pool # Treasury /\ Pool # Borrower /\ CB # Borrower
    /\ Cash \in Papers /\ Reserve \in Papers /\ CLoan \in Papers /\ All \subseteq Papers /\ PoolBucket \in All
    /\ Cash \notin All /\ Reserve \notin All /\ CLoan \notin All
    /\ Cash # Reserve /\ Cash # CLoan /\ Reserve # CLoan
<1>1. (Buckets \cup {PoolBucket}) \cap {Cash, "RES", "CLOAN"} = {}
  BY BondMarketAssumption
<1> QED BY <1>1 DEF Owners, Bookholders, Dealer, CB, Row, Bank, Treasury, Pool, Borrower, Papers, All,
                    Cash, Reserve, CLoan

LEMMA HeldSums ==
    ASSUME NEW h \in HeldBooks, NEW b \in All
    PROVE  LET col == [x \in Bookholders |-> h[x][b]]
           IN /\ SumOver(col, Bookholders) = InBooks(h, b)
              /\ SumOver(col, Bookholders \ {Dealer}) = h[CB][b] + h[Row][b] + h[Agent][b] + h[Insurer][b]
              /\ \A x \in Bookholders : h[x][b] \in Int
<1> DEFINE col == [x \in Bookholders |-> h[x][b]]
<1>1. /\ col \in [Bookholders -> Int] /\ \A x \in Bookholders : col[x] = h[x][b] /\ h[x][b] \in Int
  BY DEF HeldBooks
<1> HIDE DEF col
<1>2. Bookholders = {Dealer, CB, Row, Agent, Insurer}
  BY TheHolders
<1>3. col \in [{Dealer, CB, Row, Agent, Insurer} -> Int]
  BY <1>1, <1>2
<1>4. /\ SumOver(col, {Dealer, CB, Row, Agent, Insurer})
           = col[Dealer] + col[CB] + col[Row] + col[Agent] + col[Insurer]
      /\ SumOver(col, {Dealer, CB, Row, Agent, Insurer} \ {Dealer})
           = col[CB] + col[Row] + col[Agent] + col[Insurer]
  BY <1>3, TheHolders, FiveTerms
<1>5. /\ col[Dealer] = h[Dealer][b] /\ col[CB] = h[CB][b] /\ col[Row] = h[Row][b]
      /\ col[Agent] = h[Agent][b] /\ col[Insurer] = h[Insurer][b]
  BY <1>1, TheHolders
<1>6. /\ SumOver(col, Bookholders) = InBooks(h, b)
      /\ SumOver(col, Bookholders \ {Dealer}) = h[CB][b] + h[Row][b] + h[Agent][b] + h[Insurer][b]
  BY <1>2, <1>4, <1>5 DEF InBooks
<1> QED BY <1>1, <1>6 DEF col

\* What passes from one holder to another stays in the books.
LEMMA PassFacts ==
    ASSUME NEW h \in HeldBooks, NEW x \in Bookholders, NEW y \in Bookholders, x # y,
           NEW b \in All, NEW q \in Int
    PROVE  LET n == Pass(h, x, y, b, q)
           IN /\ n \in HeldBooks
              /\ n[x][b] = h[x][b] - q /\ n[y][b] = h[y][b] + q
              /\ \A z \in Bookholders : \A c \in All : (c # b \/ (z # x /\ z # y)) => n[z][c] = h[z][c]
              /\ \A c \in All : InBooks(n, c) = InBooks(h, c)
<1> DEFINE n == Pass(h, x, y, b, q)
           by(z) == IF z = x THEN 0 - q ELSE IF z = y THEN q ELSE 0
<1>1. n = Move(h, x, y, b, q)
  BY DEF Pass, Move
<1>2. h \in [Bookholders -> [All -> Int]]
  BY DEF HeldBooks
<1>3. LET m == Move(h, x, y, b, q)
      IN /\ m \in [Bookholders -> [All -> Int]]
         /\ m[x][b] = h[x][b] - q /\ m[y][b] = h[y][b] + q
         /\ \A e \in Bookholders : \A j \in All : (j # b \/ (e # x /\ e # y)) => m[e][j] = h[e][j]
  BY <1>2, CellsMoved
<1> HIDE DEF n
<1>4. /\ n \in HeldBooks /\ n[x][b] = h[x][b] - q /\ n[y][b] = h[y][b] + q
      /\ \A z \in Bookholders : \A c \in All : (c # b \/ (z # x /\ z # y)) => n[z][c] = h[z][c]
  BY <1>1, <1>3 DEF HeldBooks
<1>5. \A z \in Bookholders : \A c \in All : h[z][c] \in Int /\ by(z) \in Int
  BY <1>2
<1>6. \A z \in Bookholders : n[z][b] = h[z][b] + by(z)
  BY <1>4, <1>5
<1>7. by(Dealer) + by(CB) + by(Row) + by(Agent) + by(Insurer) = 0
  BY TheHolders
<1> HIDE DEF by
<1>8. ASSUME NEW c \in All PROVE InBooks(n, c) = InBooks(h, c)
  <2>1. CASE c = b
    BY <1>5, <1>6, <1>7, <2>1, TheHolders DEF InBooks
  <2>2. CASE c # b
    BY <1>4, <2>2, TheHolders DEF InBooks
  <2> QED BY <2>1, <2>2
<1> QED BY <1>4, <1>8 DEF n

\* The market maker's book is what the others leave of the face.
LEMMA ResidualFacts ==
    ASSUME NEW h \in HeldBooks, NEW f \in [All -> Int]
    PROVE  LET n == Residual(h, f)
           IN /\ n \in HeldBooks
              /\ \A z \in Bookholders \ {Dealer} : n[z] = h[z]
              /\ \A b \in All : InBooks(n, b) = f[b]
<1> DEFINE others(b) == SumOver([x \in Bookholders |-> h[x][b]], Bookholders \ {Dealer})
           row == [b \in All |-> f[b] - others(b)]
           n == [h EXCEPT ![Dealer] = row]
<1>1. Residual(h, f) = n
  BY DEF Residual
<1>2. \A b \in All : others(b) = h[CB][b] + h[Row][b] + h[Agent][b] + h[Insurer][b] /\ others(b) \in Int
  <2> SUFFICES ASSUME NEW b \in All
               PROVE  others(b) = h[CB][b] + h[Row][b] + h[Agent][b] + h[Insurer][b] /\ others(b) \in Int
    OBVIOUS
  <2>1. /\ others(b) = h[CB][b] + h[Row][b] + h[Agent][b] + h[Insurer][b]
        /\ \A x \in Bookholders : h[x][b] \in Int
    BY HeldSums
  <2> HIDE DEF others
  <2>2. h[CB][b] \in Int /\ h[Row][b] \in Int /\ h[Agent][b] \in Int /\ h[Insurer][b] \in Int
    BY <2>1, TheHolders
  <2> QED BY <2>1, <2>2
<1> HIDE DEF others
<1>3. row \in [All -> Int] /\ \A b \in All : row[b] = f[b] - others(b)
  BY <1>2
<1> HIDE DEF row
<1>4. n \in HeldBooks /\ n[Dealer] = row /\ \A z \in Bookholders \ {Dealer} : n[z] = h[z]
  BY <1>3, TheHolders DEF HeldBooks
<1> HIDE DEF n
<1>5. ASSUME NEW b \in All PROVE InBooks(n, b) = f[b]
  <2>1. /\ h[CB][b] \in Int /\ h[Row][b] \in Int /\ h[Agent][b] \in Int /\ h[Insurer][b] \in Int
        /\ f[b] \in Int
    BY HeldSums, TheHolders
  <2>2. n[Dealer][b] = f[b] - (h[CB][b] + h[Row][b] + h[Agent][b] + h[Insurer][b])
    BY <1>2, <1>3, <1>4
  <2>3. n[CB] = h[CB] /\ n[Row] = h[Row] /\ n[Agent] = h[Agent] /\ n[Insurer] = h[Insurer]
    BY <1>4, TheHolders
  <2> QED BY <2>1, <2>2, <2>3 DEF InBooks
<1> QED BY <1>1, <1>4, <1>5

\* What one holder gains the market maker gives, bucket by bucket.
LEMMA ShiftKeeps ==
    ASSUME NEW h \in HeldBooks, NEW n \in HeldBooks, NEW x \in Bookholders \ {Dealer}, NEW m \in [All -> Int],
           \A b \in All : n[x][b] = h[x][b] + m[b] /\ n[Dealer][b] = h[Dealer][b] - m[b],
           \A z \in Bookholders \ {Dealer, x} : n[z] = h[z]
    PROVE  \A b \in All : InBooks(n, b) = InBooks(h, b)
<1> SUFFICES ASSUME NEW b \in All PROVE InBooks(n, b) = InBooks(h, b)
  OBVIOUS
<1>1. /\ h[Dealer][b] \in Int /\ h[CB][b] \in Int /\ h[Row][b] \in Int /\ h[Agent][b] \in Int
      /\ h[Insurer][b] \in Int /\ m[b] \in Int
  BY TheHolders DEF HeldBooks
<1>2. n[x][b] = h[x][b] + m[b] /\ n[Dealer][b] = h[Dealer][b] - m[b]
  OBVIOUS
<1>3. \A z \in Bookholders \ {Dealer, x} : n[z][b] = h[z][b]
  OBVIOUS
<1>4. x = CB \/ x = Row \/ x = Agent \/ x = Insurer
  BY TheHolders
<1>5. CASE x = CB
  <2>1. n[Row][b] = h[Row][b] /\ n[Agent][b] = h[Agent][b] /\ n[Insurer][b] = h[Insurer][b]
    BY <1>3, <1>5, TheHolders
  <2> QED BY <1>1, <1>2, <1>5, <2>1 DEF InBooks
<1>6. CASE x = Row
  <2>1. n[CB][b] = h[CB][b] /\ n[Agent][b] = h[Agent][b] /\ n[Insurer][b] = h[Insurer][b]
    BY <1>3, <1>6, TheHolders
  <2> QED BY <1>1, <1>2, <1>6, <2>1 DEF InBooks
<1>7. CASE x = Agent
  <2>1. n[CB][b] = h[CB][b] /\ n[Row][b] = h[Row][b] /\ n[Insurer][b] = h[Insurer][b]
    BY <1>3, <1>7, TheHolders
  <2> QED BY <1>1, <1>2, <1>7, <2>1 DEF InBooks
<1>8. CASE x = Insurer
  <2>1. n[CB][b] = h[CB][b] /\ n[Row][b] = h[Row][b] /\ n[Agent][b] = h[Agent][b]
    BY <1>3, <1>8, TheHolders
  <2> QED BY <1>1, <1>2, <1>8, <2>1 DEF InBooks
<1> QED BY <1>4, <1>5, <1>6, <1>7, <1>8

\* A move in the ledger, in a form that leaves the books to be chosen.
LEMMA LedgerMoves ==
    \A p \in Ledgers, a \in Owners, c \in Owners, i \in Papers, x \in Int : a # c =>
        /\ Move(p, a, c, i, x) \in Ledgers
        /\ Move(p, a, c, i, x)[a][i] = p[a][i] - x /\ Move(p, a, c, i, x)[c][i] = p[c][i] + x
        /\ \A e \in Owners : \A j \in Papers :
              (j # i \/ (e # a /\ e # c)) => Move(p, a, c, i, x)[e][j] = p[e][j]
<1> SUFFICES ASSUME NEW o \in Ledgers, NEW f \in Owners, NEW g \in Owners, NEW k \in Papers,
                    NEW y \in Int, f # g
             PROVE  /\ Move(o, f, g, k, y) \in Ledgers
                    /\ Move(o, f, g, k, y)[f][k] = o[f][k] - y /\ Move(o, f, g, k, y)[g][k] = o[g][k] + y
                    /\ \A e \in Owners : \A j \in Papers :
                          (j # k \/ (e # f /\ e # g)) => Move(o, f, g, k, y)[e][j] = o[e][j]
  OBVIOUS
<1> DEFINE r == Move(o, f, g, k, y)
           r1 == [o EXCEPT ![f][k] = @ - y]
<1>1. o \in [Owners -> [Papers -> Int]]
  BY DEF Ledgers
<1>2. r = [r1 EXCEPT ![g][k] = @ + y]
  BY DEF Move
<1>3. /\ r1 \in [Owners -> [Papers -> Int]] /\ r1[f][k] = o[f][k] - y
      /\ \A e \in Owners : \A j \in Papers : (e # f \/ j # k) => r1[e][j] = o[e][j]
  BY <1>1
<1> HIDE DEF r1
<1>4. /\ r \in [Owners -> [Papers -> Int]] /\ r[g][k] = r1[g][k] + y
      /\ \A e \in Owners : \A j \in Papers : (e # g \/ j # k) => r[e][j] = r1[e][j]
  BY <1>2, <1>3
<1> HIDE DEF r
<1>5. /\ r[f][k] = o[f][k] - y /\ r[g][k] = o[g][k] + y
      /\ \A e \in Owners : \A j \in Papers : (j # k \/ (e # f /\ e # g)) => r[e][j] = o[e][j]
  BY <1>3, <1>4
<1> QED BY <1>4, <1>5 DEF r, Ledgers

\* What a purchase of the central bank, or a sale, does to the ledger.
LEMMA PurchaseFacts ==
    ASSUME NEW p \in Ledgers, NEW b \in All, NEW q \in Int, NEW x \in Int
    PROVE  LET n == Purchase(p, b, q, x)
           IN /\ n \in Ledgers
              /\ n[CB][b] = p[CB][b] + q /\ \A c \in All : c # b => n[CB][c] = p[CB][c]
              /\ n[Bank][Reserve] = p[Bank][Reserve] + x /\ n[Bank][Cash] = p[Bank][Cash] - x
              /\ \A i \in Papers : n[Pool][i] = p[Pool][i]
<1> DEFINE m1 == Move(p, Dealer, CB, b, q)
           m2 == Move(m1, CB, Bank, Reserve, x)
           m3 == Move(m2, Bank, Dealer, Cash, x)
<1>0. b \in Papers
  BY TheOwners
<1>a. /\ Dealer \in Owners /\ CB \in Owners /\ Bank \in Owners
      /\ Dealer # CB /\ CB # Bank /\ Bank # Dealer
      /\ Cash \in Papers /\ Reserve \in Papers
  BY TheOwners
<1>1. /\ m1 \in Ledgers /\ m1[CB][b] = p[CB][b] + q
      /\ \A e \in Owners : \A j \in Papers : (j # b \/ (e # Dealer /\ e # CB)) => m1[e][j] = p[e][j]
  <2>1. p \in Ledgers /\ q \in Int
    OBVIOUS
  <2> QED BY ONLY <1>0, <1>a, <2>1, LedgerMoves DEF m1
<1> HIDE DEF m1
<1>2. /\ m2 \in Ledgers /\ m2[Bank][Reserve] = m1[Bank][Reserve] + x
      /\ \A e \in Owners : \A j \in Papers : (j # Reserve \/ (e # CB /\ e # Bank)) => m2[e][j] = m1[e][j]
  <2>1. m1 \in Ledgers /\ x \in Int
    BY <1>1
  <2> QED BY ONLY <1>a, <2>1, LedgerMoves DEF m2
<1> HIDE DEF m2
<1>3. /\ m3 \in Ledgers /\ m3[Bank][Cash] = m2[Bank][Cash] - x
      /\ \A e \in Owners : \A j \in Papers : (j # Cash \/ (e # Bank /\ e # Dealer)) => m3[e][j] = m2[e][j]
  <2>1. m2 \in Ledgers /\ x \in Int
    BY <1>2
  <2> QED BY ONLY <1>a, <2>1, LedgerMoves, SMTT(40) DEF m3
<1>4. Purchase(p, b, q, x) = m3
  BY DEF Purchase, m1, m2
<1> HIDE DEF m3
<1>5. \A c \in All : c \in Papers /\ c # Reserve /\ c # Cash
  BY TheOwners
<1>6. \A c \in All : m3[CB][c] = m1[CB][c]
  BY <1>2, <1>3, <1>5, TheOwners
<1>7. m3[CB][b] = p[CB][b] + q /\ \A c \in All : c # b => m3[CB][c] = p[CB][c]
  BY <1>1, <1>5, <1>6, TheOwners
<1>8. m3[Bank][Reserve] = p[Bank][Reserve] + x /\ m3[Bank][Cash] = p[Bank][Cash] - x
  BY <1>1, <1>2, <1>3, TheOwners
<1>9. \A i \in Papers : m3[Pool][i] = p[Pool][i]
  BY <1>1, <1>2, <1>3, TheOwners
<1> QED BY <1>3, <1>4, <1>7, <1>8, <1>9

\* The last days of a sequence of marks.
Latest(s) == SubSeq(s, Positive(Len(s) - Window) + 1, Len(s))

\* The window is no longer than it may be.
LEMMA WindowBound ==
    ASSUME NEW S, NEW s \in Seq(S)
    PROVE  Len(Latest(s)) =< Window
<1> DEFINE k == Positive(Len(s) - Window)
<1>1. Window \in Nat /\ Len(s) \in Nat
  BY BondMarketAssumption
<1>2. k \in Nat /\ Len(s) - k =< Window /\ k =< Len(s)
  BY <1>1 DEF Positive
<1> HIDE DEF k
<1>3. \A i \in (k + 1) .. Len(s) : s[i] \in S
  BY <1>1, <1>2, ElementOfSeq
<1>4. Len(SubSeq(s, k + 1, Len(s))) = IF k + 1 <= Len(s) THEN Len(s) - (k + 1) + 1 ELSE 0
  BY <1>1, <1>2, <1>3, SubSeqProperties
<1>5. Len(SubSeq(s, k + 1, Len(s))) =< Window
  BY <1>1, <1>2, <1>4
<1> QED BY <1>5 DEF Latest, k

\* Adding a day to the window and cutting it is the window of all the days.
LEMMA WindowFacts ==
    ASSUME NEW S, NEW s \in Seq(S), NEW d \in S
    PROVE  /\ Latest(s) \in Seq(S) /\ Len(Latest(s)) =< Window
           /\ Windowed(Append(Latest(s), d)) = Latest(Append(s, d))
<1> DEFINE k == Positive(Len(s) - Window)
           L == SubSeq(s, k + 1, Len(s))
           t == Append(s, d)
           j == Positive(Len(t) - Window)
           A == Append(L, d)
           R == SubSeq(t, j + 1, Len(t))
<1>w. Window \in Nat /\ Len(s) \in Nat
  BY BondMarketAssumption
<1>1. /\ t \in Seq(S) /\ Len(t) = Len(s) + 1 /\ t[Len(s) + 1] = d
      /\ \A i \in 1 .. Len(s) : t[i] = s[i] /\ s[i] \in S
      /\ \A i \in 1 .. Len(t) : t[i] \in S
  BY AppendProperties, ElementOfSeq
<1> HIDE DEF t
<1>2. /\ k \in Nat /\ k =< Len(s) /\ Len(s) - k =< Window
      /\ k = 0 \/ Len(s) - k = Window
      /\ j \in Nat /\ j =< Len(s) + 1
      /\ (Len(s) - k = Window => j = k + 1) /\ (Len(s) - k # Window => j = 0 /\ k = 0)
  BY <1>w, <1>1 DEF Positive
<1> HIDE DEF k, j
<1>3. /\ L \in Seq(S) /\ Len(L) = Len(s) - k
      /\ \A i \in 1 .. Len(s) - k : L[i] = s[k + i]
  <2>1. \A i \in (k + 1) .. Len(s) : s[i] \in S
    BY <1>w, <1>1, <1>2
  <2>2. /\ SubSeq(s, k + 1, Len(s)) \in Seq(S)
        /\ Len(SubSeq(s, k + 1, Len(s))) = IF k + 1 <= Len(s) THEN Len(s) - (k + 1) + 1 ELSE 0
        /\ \A i \in 1 .. Len(s) - (k + 1) + 1 : SubSeq(s, k + 1, Len(s))[i] = s[(k + 1) + i - 1]
    BY <1>w, <1>2, <2>1, SubSeqProperties
  <2> HIDE DEF L
  <2>3. L = SubSeq(s, k + 1, Len(s))
    BY DEF L
  <2>4. \A i \in Int : (k + 1) + i - 1 = k + i
    BY <1>2
  <2>5. Len(s) - (k + 1) + 1 = Len(s) - k
    BY <1>w, <1>2
  <2>6. Len(L) = Len(s) - k
    BY <1>w, <1>1, <1>2, <2>2, <2>3
  <2>7. ASSUME NEW i \in 1 .. Len(s) - k PROVE L[i] = s[k + i]
    <3>1. i \in 1 .. Len(s) - (k + 1) + 1 /\ (k + 1) + i - 1 = k + i
      BY <2>4, <2>5
    <3>2. SubSeq(s, k + 1, Len(s))[i] = s[(k + 1) + i - 1]
      BY <2>2, <3>1
    <3> QED BY <2>3, <3>1, <3>2
  <2> QED BY <2>2, <2>3, <2>6, <2>7
<1>4. /\ R \in Seq(S) /\ Len(R) = Len(s) + 1 - j
      /\ \A i \in 1 .. Len(s) + 1 - j : R[i] = t[j + i]
  <2>1. \A i \in (j + 1) .. Len(t) : t[i] \in S
    BY <1>w, <1>1, <1>2
  <2>2. /\ SubSeq(t, j + 1, Len(t)) \in Seq(S)
        /\ Len(SubSeq(t, j + 1, Len(t))) = IF j + 1 <= Len(t) THEN Len(t) - (j + 1) + 1 ELSE 0
        /\ \A i \in 1 .. Len(t) - (j + 1) + 1 : SubSeq(t, j + 1, Len(t))[i] = t[(j + 1) + i - 1]
    BY <1>w, <1>1, <1>2, <2>1, SubSeqProperties
  <2> HIDE DEF R
  <2>3. R = SubSeq(t, j + 1, Len(t))
    BY DEF R
  <2>4. \A i \in Int : (j + 1) + i - 1 = j + i
    BY <1>2
  <2>5. Len(t) - (j + 1) + 1 = Len(s) + 1 - j
    BY <1>w, <1>1, <1>2
  <2>6. Len(R) = Len(s) + 1 - j
    BY <1>w, <1>1, <1>2, <2>2, <2>3
  <2>7. ASSUME NEW i \in 1 .. Len(s) + 1 - j PROVE R[i] = t[j + i]
    <3>1. i \in 1 .. Len(t) - (j + 1) + 1 /\ (j + 1) + i - 1 = j + i
      BY <2>4, <2>5
    <3>2. SubSeq(t, j + 1, Len(t))[i] = t[(j + 1) + i - 1]
      BY <2>2, <3>1
    <3> QED BY <2>3, <3>1, <3>2
  <2> QED BY <2>2, <2>3, <2>6, <2>7
<1> HIDE DEF L, R
<1>5. /\ A \in Seq(S) /\ A # << >> /\ Len(A) = Len(s) - k + 1
      /\ \A i \in 1 .. Len(s) - k + 1 : A[i] = t[k + i]
  <2>1. /\ A \in Seq(S) /\ A # << >> /\ Len(A) = Len(L) + 1
        /\ \A i \in 1 .. Len(L) : A[i] = L[i]
        /\ A[Len(L) + 1] = d
    BY <1>3, AppendProperties
  <2> HIDE DEF A
  <2>2. ASSUME NEW i \in 1 .. Len(s) - k + 1 PROVE A[i] = t[k + i]
    <3>1. CASE i =< Len(s) - k
      <4>1. i \in 1 .. Len(L) /\ k + i \in 1 .. Len(s)
        BY <1>w, <1>2, <1>3, <3>1
      <4> QED BY <1>1, <1>3, <2>1, <4>1
    <3>2. CASE i = Len(s) - k + 1
      <4>1. i = Len(L) + 1 /\ k + i = Len(s) + 1
        BY <1>w, <1>2, <1>3, <3>2
      <4> QED BY <1>1, <2>1, <4>1
    <3> QED BY <1>w, <1>2, <3>1, <3>2
  <2> QED BY <1>3, <2>1, <2>2
<1> HIDE DEF A
<1>6. Windowed(A) = R
  <2>1. CASE Len(s) - k = Window
    <3>1. Windowed(A) = Tail(A)
      BY <1>w, <1>2, <1>5, <2>1 DEF Windowed
    <3>2. /\ Tail(A) \in Seq(S) /\ Len(Tail(A)) = Len(s) - k
          /\ \A i \in 1 .. Len(s) - k : Tail(A)[i] = A[i + 1]
      <4>1. /\ Tail(A) \in Seq(S) /\ Len(Tail(A)) = Len(A) - 1
            /\ \A i \in 1 .. Len(Tail(A)) : Tail(A)[i] = A[i + 1]
        BY <1>5, HeadTailProperties
      <4>2. Len(A) - 1 = Len(s) - k
        BY <1>w, <1>2, <1>5
      <4> QED BY <4>1, <4>2
    <3>3. j = k + 1 /\ Len(R) = Len(Tail(A))
      <4>1. j = k + 1
        BY <1>2, <2>1
      <4>2. Len(R) = Len(s) - k
        BY <1>w, <1>2, <1>4, <4>1
      <4> QED BY <3>2, <4>1, <4>2
    <3>4. ASSUME NEW i \in 1 .. Len(Tail(A)) PROVE Tail(A)[i] = R[i]
      <4>1. /\ i + 1 \in 1 .. Len(s) - k + 1 /\ i \in 1 .. Len(s) + 1 - j /\ k + (i + 1) = j + i
            /\ i \in 1 .. Len(s) - k
        BY <1>w, <1>2, <3>2, <3>3
      <4> QED BY <1>4, <1>5, <3>2, <4>1
    <3>5. Tail(A) = R
      BY <1>4, <3>2, <3>3, <3>4, SeqEqual
    <3> QED BY <3>1, <3>5
  <2>2. CASE Len(s) - k # Window
    <3>1. Windowed(A) = A
      BY <1>w, <1>2, <1>5, <2>2 DEF Windowed
    <3>2. j = 0 /\ k = 0 /\ Len(R) = Len(A)
      BY <1>w, <1>2, <1>4, <1>5, <2>2
    <3>3. ASSUME NEW i \in 1 .. Len(A) PROVE A[i] = R[i]
      <4>1. i \in 1 .. Len(s) - k + 1 /\ i \in 1 .. Len(s) + 1 - j /\ k + i = j + i
        BY <1>w, <1>2, <1>5, <3>2
      <4> QED BY <1>4, <1>5, <4>1
    <3>4. A = R
      BY <1>4, <1>5, <3>2, <3>3, SeqEqual
    <3> QED BY <3>1, <3>4
  <2> QED BY <2>1, <2>2
<1>7. Latest(s) = L /\ Latest(Append(s, d)) = R
  BY DEF Latest, L, R, k, j, t
<1>8. Len(L) =< Window
  BY <1>2, <1>3
<1> QED BY <1>3, <1>6, <1>7, <1>8 DEF A

-----------------------------------------------------------------------------
(* The invariant *)

\* Types of the market's state.
MarketShape ==
    /\ outstanding \in [All -> Int] /\ held \in HeldBooks /\ ledger \in Ledgers
    /\ price \in [All -> Prices] /\ marks \in Seq(Devs) /\ lost \in Int

\* The face is in the books.
FaceSplit == \A b \in All : outstanding[b] = InBooks(held, b)

MarketInv ==
    /\ trades \in 0 .. MaxTrades /\ MarketShape /\ FaceSplit
    /\ BankBookOnLedger /\ HoldersStayLong /\ PoolPassesThrough
    /\ devs = Latest(marks)

\* The market's promise from its invariant.
LEMMA MarketPromise == MarketInv => HoldingsAccounted
<1> SUFFICES ASSUME MarketInv PROVE HoldingsAccounted
  OBVIOUS
<1>1. MarketTyped
  <2>1. Len(devs) =< Window
    BY WindowBound DEF MarketInv, MarketShape
  <2>2. \A h \in Bookholders, b \in All : held[h][b] \in Int
    BY DEF MarketInv, MarketShape, HeldBooks
  <2> QED BY <2>1, <2>2 DEF MarketTyped, MarketInv, MarketShape
<1>2. FaceConserved
  <2> SUFFICES ASSUME NEW b \in All
               PROVE  outstanding[b] = SumOver([h \in Bookholders |-> held[h][b]], Bookholders)
    BY DEF FaceConserved
  <2>1. held \in HeldBooks /\ outstanding[b] = InBooks(held, b)
    BY DEF MarketInv, MarketShape, FaceSplit
  <2> QED BY <2>1, HeldSums
<1>3. MeanOfTheLast
  BY DEF MarketInv, MeanOfTheLast, Latest
<1> QED BY <1>1, <1>2, <1>3 DEF HoldingsAccounted, MarketInv

LEMMA MarketStarts == MarketInit => MarketInv
<1> SUFFICES ASSUME MarketInit PROVE MarketInv
  OBVIOUS
<1> DEFINE opening == [h \in Bookholders |-> [b \in All |-> IF h \in {Insurer, Row} THEN Held0 ELSE 0]]
<1>a. Face0 \in Int /\ Held0 \in Nat /\ 1 \in Prices /\ MaxTrades \in Nat /\ Window \in Nat
  BY BondMarketAssumption
<1>1. opening \in HeldBooks
  BY <1>a DEF HeldBooks
<1>2. /\ \A b \in All : opening[CB][b] = 0
      /\ \A h \in {Insurer, Row} : \A b \in All : opening[h][b] = Held0
  BY TheHolders
<1> HIDE DEF opening
<1>3. outstanding \in [All -> Int] /\ held = Residual(opening, outstanding)
  BY <1>a DEF MarketInit, opening
<1>4. /\ held \in HeldBooks /\ \A z \in Bookholders \ {Dealer} : held[z] = opening[z]
      /\ \A b \in All : InBooks(held, b) = outstanding[b]
  BY <1>1, <1>3, ResidualFacts
<1>5. /\ ledger \in Ledgers
      /\ \A e \in Owners : \A i \in Papers : ledger[e][i] = 0
  BY DEF MarketInit, EmptyBooks, Ledgers
<1>6. BankBookOnLedger
  <2>1. \A b \in All : held[CB][b] = 0
    BY <1>2, <1>4, TheHolders
  <2> QED BY <1>5, <2>1, TheOwners DEF BankBookOnLedger
<1>7. HoldersStayLong
  BY <1>a, <1>2, <1>4, TheHolders DEF HoldersStayLong
<1>8. PoolPassesThrough
  <2>1. /\ ledger[Pool][Cash] = 0 /\ ledger[Pool][CLoan] = 0 /\ ledger[Pool][PoolBucket] = 0 /\ lost = 0
    BY <1>5, TheOwners DEF MarketInit
  <2> QED BY <2>1 DEF PoolPassesThrough
<1>9. devs = Latest(marks) /\ marks \in Seq(Devs)
  <2>1. marks = << >> /\ devs = << >> /\ Len(marks) = 0
    BY DEF MarketInit
  <2>2. Positive(0 - Window) + 1 = 1
    BY <1>a DEF Positive
  <2>3. SubSeq(marks, 1, 0) = << >>
    BY SubSeqEmpty
  <2>4. Latest(marks) = SubSeq(marks, Positive(0 - Window) + 1, 0)
    BY <2>1 DEF Latest
  <2>5. marks \in Seq(Devs)
    BY <2>1, EmptySeq
  <2> QED BY <2>1, <2>2, <2>3, <2>4, <2>5
<1>10. price \in [All -> Prices] /\ lost \in Int /\ trades \in 0 .. MaxTrades
  BY <1>a DEF MarketInit
<1> QED BY <1>3, <1>4, <1>5, <1>6, <1>7, <1>8, <1>9, <1>10 DEF MarketInv, MarketShape, FaceSplit

\* A step of the market alone, that leaves the central bank's book, the NPC
\* holders long and the face in the books.
LEMMA BooksMove ==
    ASSUME MarketInv, Operate,
           held' \in HeldBooks, outstanding' \in [All -> Int], price' \in [All -> Prices],
           \A b \in All : outstanding'[b] = InBooks(held', b),
           \A b \in All : held'[CB][b] = held[CB][b],
           \A b \in All : held'[Insurer][b] >= 0 /\ held'[Row][b] >= 0,
           UNCHANGED <<ledger, devs, marks, lost>>
    PROVE  MarketInv'
<1>1. trades' \in 0 .. MaxTrades
  <2>1. MaxTrades \in Nat
    BY BondMarketAssumption
  <2> QED BY <2>1 DEF MarketInv, Operate
<1>2. MarketShape'
  BY DEF MarketInv, MarketShape
<1>3. FaceSplit'
  BY DEF FaceSplit
<1>4. BankBookOnLedger'
  BY DEF MarketInv, BankBookOnLedger
<1>5. HoldersStayLong'
  BY DEF HoldersStayLong
<1>6. PoolPassesThrough'
  BY DEF MarketInv, PoolPassesThrough
<1>7. (devs = Latest(marks))'
  BY DEF MarketInv, Latest
<1> QED BY <1>1, <1>2, <1>3, <1>4, <1>5, <1>6, <1>7 DEF MarketInv

\* The books of the central bank and of the NPC holders, as the invariant has them.
LEMMA OfTheInvariant ==
    ASSUME MarketInv
    PROVE  /\ held \in HeldBooks /\ outstanding \in [All -> Int] /\ price \in [All -> Prices]
           /\ \A b \in All : outstanding[b] = InBooks(held, b)
           /\ \A b \in All : held[Insurer][b] >= 0 /\ held[Row][b] >= 0 /\ held[CB][b] >= 0
           /\ \A z \in Bookholders : \A b \in All : held[z][b] \in Int
<1>1. held \in HeldBooks /\ outstanding \in [All -> Int] /\ price \in [All -> Prices]
  BY DEF MarketInv, MarketShape
<1>2. \A b \in All : held[Insurer][b] >= 0 /\ held[Row][b] >= 0 /\ held[CB][b] >= 0
  BY DEF MarketInv, HoldersStayLong, BankBookOnLedger
<1> QED BY <1>1, <1>2 DEF MarketInv, FaceSplit, HeldBooks

\* A fill of the trader.
LEMMA FillsKeep ==
    ASSUME MarketInv, NEW side \in BOOLEAN, NEW b \in All, NEW q \in Lots, FillTick(side, b, q)
    PROVE  MarketInv'
<1> DEFINE from == IF side THEN Dealer ELSE Agent
           to == IF side THEN Agent ELSE Dealer
<1>1. from \in Bookholders /\ to \in Bookholders /\ from # to
      /\ from \in {Dealer, Agent} /\ to \in {Dealer, Agent}
  BY TheHolders
<1>2. held' = Pass(held, from, to, b, q)
  BY DEF FillTick, Traded
<1> HIDE DEF from, to
<1>3. q \in Int
  BY BondMarketAssumption
<1>4. /\ held' \in HeldBooks
      /\ \A z \in Bookholders : \A c \in All : (c # b \/ (z # from /\ z # to)) => held'[z][c] = held[z][c]
      /\ \A c \in All : InBooks(held', c) = InBooks(held, c)
  BY <1>1, <1>2, <1>3, OfTheInvariant, PassFacts
<1>5. \A z \in {CB, Row, Insurer} : \A c \in All : held'[z][c] = held[z][c]
  BY <1>1, <1>4, TheHolders
<1>6. UNCHANGED <<outstanding, ledger, devs, marks, lost>> /\ price' \in [All -> Prices] /\ Operate
  BY DEF FillTick, Remark
<1> QED BY <1>4, <1>5, <1>6, OfTheInvariant, BooksMove

\* What an NPC holder wants is never more than it has to sell: no more than the
\* whole gap to a target that is not negative.
LEMMA WantsWhatItHas ==
    ASSUME NEW g \in 0 .. 100, NEW w \in Nat, NEW t \in Nat, NEW o \in Nat, NEW c \in Nat
    PROVE  LET m == Capped((g * ((w * t) \div 100 - o)) \div 100, c)
           IN m \in Int /\ o + m >= 0
<1> DEFINE a == w * t
           d == a \div 100 - o
           e == g * d
           k == e \div 100
<1>1. a \in Nat
  OBVIOUS
<1> HIDE DEF a
<1>2. d \in Int /\ d >= 0 - o
  BY <1>1
<1> HIDE DEF d
<1>3. e \in Int /\ e >= 0 - 100 * o
  <2>1. CASE d >= 0
    <3>1. e \in Int /\ e >= 0
      BY <1>2, <2>1
    <3> QED BY <3>1
  <2>2. CASE d < 0
    <3>1. (100 - g) * (0 - d) >= 0
      BY <1>2, <2>2
    <3>2. (100 - g) * (0 - d) = g * d - 100 * d /\ g * d \in Int
      BY <1>2
    <3>3. e >= 100 * d
      BY <1>2, <3>1, <3>2
    <3> QED BY <1>2, <3>2, <3>3
  <2> QED BY <1>2, <2>1, <2>2
<1> HIDE DEF e
<1>4. k \in Int /\ k >= 0 - o
  BY <1>3
<1> HIDE DEF k
<1>5. Capped(k, c) \in Int /\ o + Capped(k, c) >= 0
  BY <1>4 DEF Capped
<1> QED BY <1>5 DEF k, e, d, a

\* Rebalancing.
LEMMA RebalancingKeeps ==
    ASSUME MarketInv, Rebalance PROVE MarketInv'
<1> DEFINE move(b) == IF TotalOf(Insurer) =< 0 THEN 0 ELSE Capped(Wanted(Insurer, b), TradeCap)
           m == [b \in All |-> move(b)]
<1>a. /\ Gain \in 0 .. 100 /\ TradeCap \in Nat /\ IsFiniteSet(Buckets)
      /\ \A b \in All : Targets[b] \in Nat
  BY BondMarketAssumption DEF All
<1>b. TotalOf(Insurer) \in Int
  <2>1. Summable(held[Insurer]) /\ DOMAIN held[Insurer] = All
    <3>1. held[Insurer] \in [All -> Int]
      BY OfTheInvariant, TheHolders DEF HeldBooks
    <3>2. IsFiniteSet(All)
      BY <1>a, FS_AddElement DEF All
    <3> QED BY <3>1, <3>2 DEF Summable
  <2>2. \A E \in SUBSET DOMAIN held[Insurer] : SumOver(held[Insurer], E) \in Int
    BY <2>1, SumFacts
  <2> QED BY <2>1, <2>2 DEF TotalOf
<1>1. \A b \in All : move(b) \in Int /\ held[Insurer][b] + move(b) >= 0
  <2> SUFFICES ASSUME NEW b \in All PROVE move(b) \in Int /\ held[Insurer][b] + move(b) >= 0
    OBVIOUS
  <2>1. held[Insurer][b] \in Nat
    BY OfTheInvariant, TheHolders
  <2>2. CASE TotalOf(Insurer) =< 0
    BY <2>1, <2>2
  <2>3. CASE ~ TotalOf(Insurer) =< 0
    <3>1. TotalOf(Insurer) \in Nat
      BY <1>b, <2>3
    <3>2. LET n == Capped((Gain * ((Targets[b] * TotalOf(Insurer)) \div 100 - held[Insurer][b])) \div 100, TradeCap)
          IN n \in Int /\ held[Insurer][b] + n >= 0
      BY <1>a, <2>1, <3>1, WantsWhatItHas
    <3>3. move(b) = Capped((Gain * ((Targets[b] * TotalOf(Insurer)) \div 100 - held[Insurer][b])) \div 100, TradeCap)
      BY <2>3 DEF Wanted
    <3> HIDE DEF move
    <3> QED BY <3>2, <3>3
  <2> QED BY <2>2, <2>3
<1>2. held' = [held EXCEPT ![Insurer] = [b \in All |-> @[b] + move(b)],
                           ![Dealer] = [b \in All |-> @[b] - move(b)]]
  BY DEF Rebalance
<1> HIDE DEF move
<1>3. m \in [All -> Int] /\ \A b \in All : m[b] = move(b)
  BY <1>1
<1>4. held \in [Bookholders -> [All -> Int]] /\ Insurer \in Bookholders /\ Dealer \in Bookholders
      /\ Insurer # Dealer
  BY OfTheInvariant, TheHolders DEF HeldBooks
<1>5. /\ held' \in HeldBooks
      /\ \A b \in All : held'[Insurer][b] = held[Insurer][b] + m[b]
      /\ \A b \in All : held'[Dealer][b] = held[Dealer][b] - m[b]
      /\ \A z \in Bookholders \ {Dealer, Insurer} : held'[z] = held[z]
  BY <1>1, <1>2, <1>3, <1>4 DEF HeldBooks
<1>6. \A b \in All : InBooks(held', b) = InBooks(held, b)
  <2> HIDE DEF m
  <2>1. /\ held \in HeldBooks /\ held' \in HeldBooks /\ m \in [All -> Int]
        /\ Insurer \in Bookholders \ {Dealer}
    BY <1>3, <1>4, <1>5, OfTheInvariant
  <2>2. \A b \in All : held'[Insurer][b] = held[Insurer][b] + m[b] /\ held'[Dealer][b] = held[Dealer][b] - m[b]
    BY <1>5
  <2>3. \A z \in Bookholders \ {Dealer, Insurer} : held'[z] = held[z]
    BY <1>5
  <2> QED BY ONLY <2>1, <2>2, <2>3, ShiftKeeps
<1>7. \A b \in All : held'[CB][b] = held[CB][b] /\ held'[Row][b] = held[Row][b]
  BY <1>5, TheHolders
<1>8. \A b \in All : held'[Insurer][b] >= 0
  BY <1>1, <1>3, <1>5
<1>9. UNCHANGED <<outstanding, ledger, devs, marks, lost>> /\ price' \in [All -> Prices] /\ Operate
  BY DEF Rebalance, Remark
<1> QED BY <1>5, <1>6, <1>7, <1>8, <1>9, OfTheInvariant, BooksMove

\* A sell-off of the rest of the world.
LEMMA SelloffKeeps ==
    ASSUME MarketInv, NEW share \in {50, 100}, RowSelloff(share) PROVE MarketInv'
<1> DEFINE sold(b) == IF b \in Buckets THEN (share * held[Row][b]) \div 100 ELSE 0
           m == [b \in All |-> 0 - sold(b)]
<1>1. \A b \in All : sold(b) \in Int /\ held[Row][b] - sold(b) >= 0
  <2> SUFFICES ASSUME NEW b \in All PROVE sold(b) \in Int /\ held[Row][b] - sold(b) >= 0
    OBVIOUS
  <2>1. held[Row][b] \in Nat
    BY OfTheInvariant, TheHolders
  <2>2. CASE share = 50
    BY <2>1, <2>2
  <2>3. CASE share = 100
    BY <2>1, <2>3
  <2> QED BY <2>2, <2>3
<1>2. held' = [held EXCEPT ![Row] = [b \in All |-> @[b] - sold(b)],
                           ![Dealer] = [b \in All |-> @[b] + sold(b)]]
  BY DEF RowSelloff
<1> HIDE DEF sold
<1>3. m \in [All -> Int] /\ \A b \in All : m[b] = 0 - sold(b)
  BY <1>1
<1>4. held \in [Bookholders -> [All -> Int]] /\ Row \in Bookholders /\ Dealer \in Bookholders
      /\ Row # Dealer
  BY OfTheInvariant, TheHolders DEF HeldBooks
<1>5. /\ held' \in HeldBooks
      /\ \A b \in All : held'[Row][b] = held[Row][b] - sold(b)
      /\ \A b \in All : held'[Dealer][b] = held[Dealer][b] + sold(b)
      /\ \A z \in Bookholders \ {Dealer, Row} : held'[z] = held[z]
  BY <1>1, <1>2, <1>4 DEF HeldBooks
<1>6. \A b \in All : held'[Row][b] = held[Row][b] + m[b] /\ held'[Dealer][b] = held[Dealer][b] - m[b]
  BY <1>1, <1>3, <1>4, <1>5
<1>7. \A b \in All : InBooks(held', b) = InBooks(held, b)
  <2> HIDE DEF m
  <2>1. /\ held \in HeldBooks /\ held' \in HeldBooks /\ m \in [All -> Int]
        /\ Row \in Bookholders \ {Dealer}
    BY <1>3, <1>4, <1>5, OfTheInvariant
  <2>2. \A z \in Bookholders \ {Dealer, Row} : held'[z] = held[z]
    BY <1>5
  <2> QED BY ONLY <1>6, <2>1, <2>2, ShiftKeeps
<1>8. \A b \in All : held'[CB][b] = held[CB][b] /\ held'[Insurer][b] = held[Insurer][b]
  BY <1>5, TheHolders
<1>9. \A b \in All : held'[Row][b] >= 0
  BY <1>1, <1>5
<1>10. UNCHANGED <<outstanding, ledger, devs, marks, lost>> /\ price' \in [All -> Prices] /\ Operate
  BY DEF RowSelloff, Remark
<1> QED BY <1>5, <1>7, <1>8, <1>9, <1>10, OfTheInvariant, BooksMove

\* The market maker's book set to what the others leave: an issue, or a restore.
LEMMA ResidualsKeep ==
    ASSUME MarketInv, Operate, outstanding' \in [All -> Int], held' = Residual(held, outstanding'),
           UNCHANGED <<price, ledger, devs, marks, lost>>
    PROVE  MarketInv'
<1>1. /\ held' \in HeldBooks /\ \A z \in Bookholders \ {Dealer} : held'[z] = held[z]
      /\ \A b \in All : InBooks(held', b) = outstanding'[b]
  BY OfTheInvariant, ResidualFacts
<1>2. \A z \in {CB, Row, Insurer} : held'[z] = held[z]
  BY <1>1, TheHolders
<1>3. price' \in [All -> Prices]
  BY OfTheInvariant
<1> QED BY <1>1, <1>2, <1>3, OfTheInvariant, BooksMove

\* A day more in the pool's window.
LEMMA DaysMarked ==
    ASSUME MarketInv, NEW d \in Devs, MarkDay(d)
    PROVE  marks' \in Seq(Devs) /\ devs' = Latest(marks')
<1>1. marks \in Seq(Devs) /\ devs = Latest(marks)
  BY DEF MarketInv, MarketShape
<1>2. devs' = Windowed(Append(Latest(marks), d)) /\ marks' = Append(marks, d)
  BY <1>1 DEF MarkDay
<1>3. Windowed(Append(Latest(marks), d)) = Latest(Append(marks, d))
  BY <1>1, WindowFacts
<1>4. Append(marks, d) \in Seq(Devs)
  BY <1>1, AppendProperties
<1> QED BY <1>2, <1>3, <1>4

\* A trade of the central bank, in a bucket of the government or in the pool.
LEMMA TradesKeep ==
    ASSUME MarketInv, NEW buying \in BOOLEAN, NEW b \in All, NEW q \in Int, Trade(buying, b, q)
    PROVE  MarketInv'
<1> DEFINE src == IF buying THEN Dealer ELSE CB
           dst == IF buying THEN CB ELSE Dealer
           sign == IF buying THEN 1 ELSE -1
           x == sign * q * price[b]
<1>1. /\ src \in Bookholders /\ dst \in Bookholders /\ src # dst
      /\ src \in {Dealer, CB} /\ dst \in {Dealer, CB}
  BY TheHolders
<1>2. price[b] \in Int
  BY OfTheInvariant, BondMarketAssumption
<1>3. sign * q \in Int /\ x \in Int
  <2>1. sign \in Int
    OBVIOUS
  <2> HIDE DEF sign
  <2>2. sign * q \in Int
    BY <2>1
  <2>3. \A u \in Int : u * price[b] \in Int
    BY <1>2
  <2> QED BY <2>2, <2>3
<1>4. /\ held' = Pass(held, src, dst, b, q) /\ ledger' = Purchase(ledger, b, sign * q, x)
      /\ held[src][b] >= q /\ q > 0
  BY DEF Trade, Covered
<1>5. /\ held' \in HeldBooks
      /\ held'[src][b] = held[src][b] - q /\ held'[dst][b] = held[dst][b] + q
      /\ \A z \in Bookholders : \A c \in All : (c # b \/ (z # src /\ z # dst)) => held'[z][c] = held[z][c]
      /\ \A c \in All : InBooks(held', c) = InBooks(held, c)
  <2> HIDE DEF src, dst
  <2>1. held \in HeldBooks
    BY OfTheInvariant
  <2>2. src \in Bookholders /\ dst \in Bookholders /\ src # dst /\ q \in Int /\ b \in All
    BY <1>1
  <2>3. LET n == Pass(held, src, dst, b, q)
        IN /\ n \in HeldBooks
           /\ n[src][b] = held[src][b] - q /\ n[dst][b] = held[dst][b] + q
           /\ \A z \in Bookholders : \A c \in All : (c # b \/ (z # src /\ z # dst)) => n[z][c] = held[z][c]
           /\ \A c \in All : InBooks(n, c) = InBooks(held, c)
    BY ONLY <2>1, <2>2, PassFacts
  <2>4. held' = Pass(held, src, dst, b, q)
    BY <1>4
  <2> QED BY <2>3, <2>4
<1>6. /\ ledger' \in Ledgers
      /\ ledger'[CB][b] = ledger[CB][b] + sign * q /\ \A c \in All : c # b => ledger'[CB][c] = ledger[CB][c]
      /\ ledger'[Bank][Reserve] = ledger[Bank][Reserve] + x /\ ledger'[Bank][Cash] = ledger[Bank][Cash] - x
      /\ \A i \in Papers : ledger'[Pool][i] = ledger[Pool][i]
  <2>1. ledger \in Ledgers
    BY DEF MarketInv, MarketShape
  <2> HIDE DEF sign, x
  <2> QED BY <1>3, <1>4, <2>1, PurchaseFacts
<1>7. held'[CB][b] = held[CB][b] + sign * q /\ held'[CB][b] >= 0
  <2>1. held[CB][b] \in Int /\ held[CB][b] >= 0
    BY OfTheInvariant, TheHolders
  <2>2. CASE buying
    BY <1>4, <1>5, <2>1, <2>2
  <2>3. CASE ~ buying
    BY <1>4, <1>5, <2>1, <2>3
  <2> QED BY <2>2, <2>3
<1> HIDE DEF sign, x
<1>8. BankBookOnLedger'
  <2>1. \A c \in All : ledger[CB][c] = held[CB][c] /\ held[CB][c] >= 0
    BY DEF MarketInv, BankBookOnLedger
  <2>2. ASSUME NEW c \in All PROVE ledger'[CB][c] = held'[CB][c] /\ held'[CB][c] >= 0
    <3>1. CASE c = b
      BY <1>6, <1>7, <2>1, <3>1
    <3>2. CASE c # b
      BY <1>5, <1>6, <2>1, <3>2, TheHolders
    <3> QED BY <3>1, <3>2
  <2>3. ledger'[Bank][Reserve] + ledger'[Bank][Cash] = 0
    <3>1. ledger[Bank][Reserve] + ledger[Bank][Cash] = 0
      BY DEF MarketInv, BankBookOnLedger
    <3>2. ledger[Bank][Reserve] \in Int /\ ledger[Bank][Cash] \in Int
      BY TheOwners DEF MarketInv, MarketShape, Ledgers
    <3> QED BY <1>3, <1>6, <3>1, <3>2
  <2> QED BY <2>2, <2>3 DEF BankBookOnLedger
<1>9. HoldersStayLong'
  <2>1. \A h \in {Insurer, Row}, c \in All : held'[h][c] = held[h][c] /\ held[h][c] >= 0
    BY <1>1, <1>5, OfTheInvariant, TheHolders
  <2> QED BY <2>1 DEF HoldersStayLong
<1>10. PoolPassesThrough'
  <2>1. /\ ledger'[Pool][Cash] = ledger[Pool][Cash] /\ ledger'[Pool][CLoan] = ledger[Pool][CLoan]
        /\ ledger'[Pool][PoolBucket] = ledger[Pool][PoolBucket]
    BY <1>6, TheOwners
  <2>2. lost' = lost
    BY DEF Trade
  <2> QED BY <2>1, <2>2 DEF MarketInv, PoolPassesThrough
<1>11. marks' \in Seq(Devs) /\ devs' = Latest(marks')
  <2>1. CASE b = PoolBucket
    <3>1. PICK d \in Devs : MarkDay(d)
      BY <2>1 DEF Trade
    <3> QED BY <3>1, DaysMarked
  <2>2. CASE b # PoolBucket
    BY <2>2 DEF Trade, MarketInv, MarketShape, Latest
  <2> QED BY <2>1, <2>2
<1>12. /\ outstanding' = outstanding /\ lost' = lost /\ price' \in [All -> Prices]
       /\ trades' \in 0 .. MaxTrades
  <2>1. MaxTrades \in Nat
    BY BondMarketAssumption
  <2> QED BY <2>1 DEF Trade, Remark, Operate, MarketInv
<1>13. MarketShape'
  BY <1>5, <1>6, <1>11, <1>12 DEF MarketInv, MarketShape
<1>14. FaceSplit'
  BY <1>5, <1>12 DEF MarketInv, FaceSplit
<1> QED BY <1>8, <1>9, <1>10, <1>11, <1>12, <1>13, <1>14 DEF MarketInv

\* A step that posts on the ledger alone, on neither the central bank's bonds nor
\* the banks: the pool passes through what it does.
LEMMA PostingsKeep ==
    ASSUME MarketInv, Operate, ledger' \in Ledgers, lost' \in Int,
           \A b \in All : ledger'[CB][b] = ledger[CB][b],
           \A i \in Papers : ledger'[Bank][i] = ledger[Bank][i],
           PoolPassesThrough', UNCHANGED <<outstanding, held, price, devs, marks>>
    PROVE  MarketInv'
<1>1. trades' \in 0 .. MaxTrades
  <2>1. MaxTrades \in Nat
    BY BondMarketAssumption
  <2> QED BY <2>1 DEF MarketInv, Operate
<1>2. MarketShape' /\ FaceSplit' /\ HoldersStayLong' /\ (devs = Latest(marks))'
  BY DEF MarketInv, MarketShape, FaceSplit, HoldersStayLong, Latest
<1>3. BankBookOnLedger'
  <2>1. ledger'[Bank][Reserve] = ledger[Bank][Reserve] /\ ledger'[Bank][Cash] = ledger[Bank][Cash]
    BY TheOwners
  <2> QED BY <2>1 DEF MarketInv, BankBookOnLedger
<1> QED BY <1>1, <1>2, <1>3 DEF MarketInv

\* The coupons of the central bank's book, back to the treasury.
LEMMA CouponsKeep ==
    ASSUME MarketInv, RemitCoupons PROVE MarketInv'
<1> DEFINE due == [b \in All |-> (Positive(held[CB][b]) * MarketCoupon) \div 100]
           x == SumOver(due, All)
<1>1. x \in Int
  <2>1. due \in [All -> Int]
    <3>1. MarketCoupon \in Int
      BY BondMarketAssumption
    <3>2. ASSUME NEW b \in All PROVE (Positive(held[CB][b]) * MarketCoupon) \div 100 \in Int
      <4>1. Positive(held[CB][b]) \in Int
        BY OfTheInvariant, TheHolders DEF Positive
      <4>2. Positive(held[CB][b]) * MarketCoupon \in Int
        BY <3>1, <4>1
      <4> QED BY <4>2
    <3> QED BY <3>2
  <2> HIDE DEF due
  <2>2. Summable(due) /\ DOMAIN due = All
    <3>1. IsFiniteSet(All)
      BY BondMarketAssumption, FS_AddElement DEF All
    <3> QED BY <2>1, <3>1 DEF Summable
  <2>3. \A E \in SUBSET DOMAIN due : SumOver(due, E) \in Int
    BY <2>2, SumFacts
  <2> QED BY <2>2, <2>3
<1>2. ledger' = Move(ledger, CB, Treasury, Cash, x)
  BY DEF RemitCoupons
<1> HIDE DEF x
<1>3. ledger \in Ledgers
  BY DEF MarketInv, MarketShape
<1>4. /\ ledger' \in Ledgers
      /\ \A e \in Owners : \A j \in Papers : (j # Cash \/ (e # CB /\ e # Treasury)) => ledger'[e][j] = ledger[e][j]
  <2>1. CB \in Owners /\ Treasury \in Owners /\ CB # Treasury /\ Cash \in Papers
    BY TheOwners
  <2> QED BY <1>1, <1>2, <1>3, <2>1, LedgerMoves
<1>5. /\ \A b \in All : ledger'[CB][b] = ledger[CB][b]
      /\ \A i \in Papers : ledger'[Bank][i] = ledger[Bank][i] /\ ledger'[Pool][i] = ledger[Pool][i]
  BY <1>4, TheOwners
<1>6. Operate /\ UNCHANGED <<outstanding, held, price, devs, marks, lost>> /\ lost' \in Int
  BY DEF RemitCoupons, MarketInv, MarketShape
<1>7. PoolPassesThrough'
  <2>1. /\ ledger'[Pool][Cash] = ledger[Pool][Cash] /\ ledger'[Pool][CLoan] = ledger[Pool][CLoan]
        /\ ledger'[Pool][PoolBucket] = ledger[Pool][PoolBucket]
    BY <1>5, TheOwners
  <2> QED BY <1>6, <2>1 DEF MarketInv, PoolPassesThrough
<1> QED BY <1>4, <1>5, <1>6, <1>7, PostingsKeep

\* What the pool raises it lends on at the same price.
LEMMA TapKeeps ==
    ASSUME MarketInv, NEW q \in Int, NEW p \in Int, Tap(q, p) PROVE MarketInv'
<1> DEFINE x == q * p
           m1 == Move(ledger, Pool, Dealer, PoolBucket, q)
           m2 == Move(m1, Dealer, Pool, Cash, x)
           m3 == Move(m2, Borrower, Pool, CLoan, q)
           m4 == Move(m3, Pool, Borrower, Cash, x)
<1>a. /\ Dealer \in Owners /\ Pool \in Owners /\ Borrower \in Owners /\ CB \in Owners /\ Bank \in Owners
      /\ Pool # Dealer /\ Pool # Borrower /\ CB # Pool /\ Bank # Pool /\ Bank # Dealer /\ CB # Dealer
      /\ Bank # Borrower /\ CB # Borrower
      /\ Cash \in Papers /\ CLoan \in Papers /\ PoolBucket \in Papers
      /\ Cash # CLoan /\ Cash # PoolBucket /\ CLoan # PoolBucket
      /\ \A b \in All : b \in Papers /\ b # Cash /\ b # CLoan
  BY TheOwners
<1>b. Dealer # Borrower
  BY DEF Dealer, Borrower
<1>0. ledger \in Ledgers /\ x \in Int
  BY DEF MarketInv, MarketShape
<1>1. ledger' = m4
  BY DEF Tap, Lent, Swap
<1> HIDE DEF x
<1>2. /\ m1 \in Ledgers /\ m1[Pool][PoolBucket] = ledger[Pool][PoolBucket] - q
      /\ \A e \in Owners : \A j \in Papers :
            (j # PoolBucket \/ (e # Pool /\ e # Dealer)) => m1[e][j] = ledger[e][j]
  <2>1. Pool \in Owners /\ Dealer \in Owners /\ Pool # Dealer /\ PoolBucket \in Papers /\ q \in Int
    BY <1>a
  <2> QED BY ONLY <1>0, <2>1, LedgerMoves DEF m1
<1> HIDE DEF m1
<1>3. /\ m2 \in Ledgers /\ m2[Pool][Cash] = m1[Pool][Cash] + x
      /\ \A e \in Owners : \A j \in Papers :
            (j # Cash \/ (e # Dealer /\ e # Pool)) => m2[e][j] = m1[e][j]
  <2>1. Pool \in Owners /\ Dealer \in Owners /\ Pool # Dealer /\ Cash \in Papers
    BY <1>a
  <2>2. m1 \in Ledgers /\ x \in Int
    BY <1>0, <1>2
  <2> QED BY ONLY <2>1, <2>2, LedgerMoves, SMTT(40) DEF m2
<1> HIDE DEF m2
<1>4. /\ m3 \in Ledgers /\ m3[Pool][CLoan] = m2[Pool][CLoan] + q
      /\ \A e \in Owners : \A j \in Papers :
            (j # CLoan \/ (e # Borrower /\ e # Pool)) => m3[e][j] = m2[e][j]
  <2>1. Borrower \in Owners /\ Pool \in Owners /\ Borrower # Pool /\ CLoan \in Papers /\ q \in Int
    BY <1>a
  <2>2. m2 \in Ledgers
    BY <1>3
  <2> QED BY ONLY <2>1, <2>2, LedgerMoves DEF m3
<1> HIDE DEF m3
<1>5. /\ m4 \in Ledgers /\ m4[Pool][Cash] = m3[Pool][Cash] - x
      /\ \A e \in Owners : \A j \in Papers :
            (j # Cash \/ (e # Pool /\ e # Borrower)) => m4[e][j] = m3[e][j]
  <2>1. Pool \in Owners /\ Borrower \in Owners /\ Pool # Borrower /\ Cash \in Papers
    BY <1>a
  <2>2. m3 \in Ledgers /\ x \in Int
    BY <1>0, <1>4
  <2> QED BY ONLY <2>1, <2>2, LedgerMoves DEF m4
<1> HIDE DEF m4
<1>6. /\ \A b \in All : m4[CB][b] = ledger[CB][b]
      /\ \A i \in Papers : m4[Bank][i] = ledger[Bank][i]
  <2>1. \A i \in Papers : m4[CB][i] = ledger[CB][i]
    BY <1>a, <1>2, <1>3, <1>4, <1>5
  <2>2. \A i \in Papers : m4[Bank][i] = ledger[Bank][i]
    BY <1>a, <1>2, <1>3, <1>4, <1>5
  <2> QED BY <1>a, <2>1, <2>2
<1>7. /\ m4[Pool][PoolBucket] = ledger[Pool][PoolBucket] - q
      /\ m4[Pool][CLoan] = ledger[Pool][CLoan] + q
      /\ m4[Pool][Cash] = (ledger[Pool][Cash] + x) - x
  <2>1. m4[Pool][PoolBucket] = ledger[Pool][PoolBucket] - q
    BY <1>a, <1>2, <1>3, <1>4, <1>5
  <2>2. m4[Pool][CLoan] = ledger[Pool][CLoan] + q
    BY <1>a, <1>2, <1>3, <1>4, <1>5
  <2>3. m4[Pool][Cash] = (ledger[Pool][Cash] + x) - x
    BY <1>a, <1>2, <1>3, <1>4, <1>5
  <2> QED BY <2>1, <2>2, <2>3
<1>8. UNCHANGED <<outstanding, held, price, devs, marks, lost>> /\ Operate
  BY DEF Tap
<1>9. PoolPassesThrough'
  <2>1. /\ ledger[Pool][PoolBucket] \in Int /\ ledger[Pool][CLoan] \in Int /\ ledger[Pool][Cash] \in Int
        /\ lost \in Int
    BY <1>a, <1>0 DEF Ledgers, MarketInv, MarketShape
  <2>2. ledger[Pool][Cash] = 0 /\ ledger[Pool][CLoan] = -ledger[Pool][PoolBucket] - lost
    BY DEF MarketInv, PoolPassesThrough
  <2>3. \A u, v, w, n \in Int : v = -u - w => v + n = -(u - n) - w
    OBVIOUS
  <2>4. ledger[Pool][CLoan] + q = -(ledger[Pool][PoolBucket] - q) - lost
    BY <2>1, <2>2, <2>3
  <2>5. ledger'[Pool][Cash] = 0
    BY <1>0, <1>1, <1>7, <2>1, <2>2
  <2> QED BY <1>1, <1>7, <1>8, <2>4, <2>5 DEF PoolPassesThrough
<1>10. lost' \in Int
  BY <1>8 DEF MarketInv, MarketShape
<1> QED BY <1>1, <1>5, <1>6, <1>8, <1>9, <1>10, PostingsKeep

\* A write-down of the pool's loans.
LEMMA WriteDownKeeps ==
    ASSUME MarketInv, NEW q \in Int, WriteDown(q) PROVE MarketInv'
<1>a. /\ Pool \in Owners /\ Borrower \in Owners /\ CB \in Owners /\ Bank \in Owners
      /\ Pool # Borrower /\ CB # Pool /\ Bank # Pool /\ Bank # Borrower /\ CB # Borrower
      /\ Cash \in Papers /\ CLoan \in Papers /\ PoolBucket \in Papers
      /\ Cash # CLoan /\ CLoan # PoolBucket
      /\ \A b \in All : b \in Papers
  BY TheOwners
<1>0. ledger \in Ledgers /\ lost \in Int
  BY DEF MarketInv, MarketShape
<1>1. ledger' = Move(ledger, Pool, Borrower, CLoan, q) /\ lost' = lost + q /\ Operate
      /\ UNCHANGED <<outstanding, held, price, devs, marks>>
  BY DEF WriteDown
<1>2. /\ ledger' \in Ledgers /\ ledger'[Pool][CLoan] = ledger[Pool][CLoan] - q
      /\ \A e \in Owners : \A j \in Papers :
            (j # CLoan \/ (e # Pool /\ e # Borrower)) => ledger'[e][j] = ledger[e][j]
  <2>1. Pool \in Owners /\ Borrower \in Owners /\ Pool # Borrower /\ CLoan \in Papers
    BY <1>a
  <2> QED BY <1>0, <1>1, <2>1, LedgerMoves
<1>3. /\ \A b \in All : ledger'[CB][b] = ledger[CB][b]
      /\ \A i \in Papers : ledger'[Bank][i] = ledger[Bank][i]
      /\ ledger'[Pool][Cash] = ledger[Pool][Cash]
      /\ ledger'[Pool][PoolBucket] = ledger[Pool][PoolBucket]
  BY <1>a, <1>2
<1>4. PoolPassesThrough'
  <2>1. ledger[Pool][PoolBucket] \in Int /\ ledger[Pool][CLoan] \in Int
    BY <1>a, <1>0 DEF Ledgers
  <2>2. ledger[Pool][Cash] = 0 /\ ledger[Pool][CLoan] = -ledger[Pool][PoolBucket] - lost
    BY DEF MarketInv, PoolPassesThrough
  <2>3. \A u, v, w, n \in Int : v = -u - w => v - n = -u - (w + n)
    OBVIOUS
  <2>4. ledger[Pool][CLoan] - q = -ledger[Pool][PoolBucket] - (lost + q)
    BY <1>0, <2>1, <2>2, <2>3
  <2> QED BY <1>1, <1>2, <1>3, <2>2, <2>4 DEF PoolPassesThrough
<1> QED BY <1>0, <1>1, <1>2, <1>3, <1>4, PostingsKeep

\* A mark of the pool's spread.
LEMMA MarkKeeps ==
    ASSUME MarketInv, NEW d \in Devs, Mark(d) PROVE MarketInv'
<1>1. marks' \in Seq(Devs) /\ devs' = Latest(marks')
  BY DaysMarked DEF Mark
<1>2. UNCHANGED <<outstanding, held, price, ledger, lost>> /\ trades' \in 0 .. MaxTrades
  <2>1. MaxTrades \in Nat
    BY BondMarketAssumption
  <2> QED BY <2>1 DEF Mark, Operate, MarketInv
<1>3. MarketShape' /\ FaceSplit' /\ BankBookOnLedger' /\ HoldersStayLong' /\ PoolPassesThrough'
  BY <1>1, <1>2 DEF MarketInv, MarketShape, FaceSplit, BankBookOnLedger, HoldersStayLong, PoolPassesThrough
<1> QED BY <1>1, <1>2, <1>3 DEF MarketInv

LEMMA MarketStepKeeps ==
    ASSUME MarketInv, [MarketNext]_market_vars PROVE MarketInv'
<1>a. Lots \subseteq Int /\ Prices \subseteq Int
  BY BondMarketAssumption
<1>1. CASE Rebalance
  BY <1>1, RebalancingKeeps
<1>2. CASE Restore
  <2>1. /\ Operate /\ outstanding' = outstanding /\ held' = Residual(held, outstanding)
        /\ UNCHANGED <<price, ledger, devs, marks, lost>>
    BY <1>2 DEF Restore
  <2> QED BY <2>1, OfTheInvariant, ResidualsKeep
<1>3. CASE RemitCoupons
  BY <1>3, CouponsKeep
<1>4. ASSUME NEW share \in {50, 100}, RowSelloff(share) PROVE MarketInv'
  BY <1>4, SelloffKeeps
<1>5. ASSUME NEW b \in All, NEW q \in Lots, NEW side \in BOOLEAN, FillTick(side, b, q) PROVE MarketInv'
  BY <1>5, FillsKeep
<1>6. ASSUME NEW b \in All, NEW q \in Lots, NEW side \in BOOLEAN, Trade(side, b, q) PROVE MarketInv'
  BY <1>a, <1>6, TradesKeep
<1>7. ASSUME NEW b \in All, Unwind(b) PROVE MarketInv'
  <2>1. held[CB][b] \in Int /\ FALSE \in BOOLEAN
    BY OfTheInvariant, TheHolders
  <2> QED BY <1>7, <2>1, TradesKeep DEF Unwind
<1>8. ASSUME NEW b \in All, NEW q \in Lots, SetFace(b, outstanding[b] + q) PROVE MarketInv'
  <2>1. outstanding \in [All -> Int] /\ outstanding[b] + q \in Int
    BY <1>a, OfTheInvariant
  <2>2. /\ Operate /\ outstanding' = [outstanding EXCEPT ![b] = outstanding[b] + q]
        /\ held' = Residual(held, outstanding') /\ UNCHANGED <<price, ledger, devs, marks, lost>>
    BY <1>8 DEF SetFace
  <2>3. outstanding' \in [All -> Int]
    BY <2>1, <2>2
  <2> QED BY <2>2, <2>3, ResidualsKeep
<1>9. ASSUME NEW q \in Lots, NEW p \in Prices, Tap(q, p) PROVE MarketInv'
  BY <1>a, <1>9, TapKeeps
<1>10. ASSUME NEW q \in Lots, WriteDown(q) PROVE MarketInv'
  BY <1>a, <1>10, WriteDownKeeps
<1>11. ASSUME NEW d \in Devs, Mark(d) PROVE MarketInv'
  BY <1>11, MarkKeeps
<1>12. CASE UNCHANGED market_vars
  BY <1>12 DEF market_vars, MarketInv, MarketShape, FaceSplit, BankBookOnLedger, HoldersStayLong,
               PoolPassesThrough, Latest
<1> QED BY <1>1, <1>2, <1>3, <1>4, <1>5, <1>6, <1>7, <1>8, <1>9, <1>10, <1>11, <1>12 DEF MarketNext

\* In every behaviour of the secondary market each unit that is outstanding is in
\* one book, the central bank's book is its bonds on the ledger and what it paid is
\* reserves and deposits alike, no NPC holder is short, the pool has lent what it
\* raised, and the spread is the mean of the last days: the purchases and sales of
\* CBOperations, the fills, rebalancing, sell-offs, issues and restores of
\* BondSecondaryMarket and the taps, losses and marks of CorpPool, in any order.
THEOREM HoldingsAccountedCorrect == MarketSpec => []HoldingsAccounted
<1>1. MarketInit => MarketInv
  BY MarketStarts
<1>2. MarketInv /\ [MarketNext]_market_vars => MarketInv'
  BY MarketStepKeeps
<1>3. MarketInv => HoldingsAccounted
  BY MarketPromise
<1> QED BY <1>1, <1>2, <1>3, PTL DEF MarketSpec
=============================================================================
