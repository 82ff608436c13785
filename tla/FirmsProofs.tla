----------------------------- MODULE FirmsProofs -----------------------------
(***************************************************************************)
(* Proofs about the life of a firm (module Firms), the ledger under it     *)
(* (module Ledger) and the desk of its operator (module FirmDesk): every   *)
(* posting has its other side, the hard budget, what explains a firm's     *)
(* capacity, its debt, its books and its bankruptcy; and what a decision   *)
(* grants, how a firm is rated, what is taxed and who may trade.          *)
(***************************************************************************)
EXTENDS Firms, FirmDesk, SequenceTheorems, FiniteSetTheorems, WellFoundedInduction, TLAPS

-----------------------------------------------------------------------------
(* Induction, and the functions it defines. *)

\* A set that has 0, and n + 1 with n, has every natural number.
LEMMA Induction ==
    ASSUME NEW S, 0 \in S, \A n \in Nat : n \in S => n + 1 \in S
    PROVE  Nat \subseteq S
<1> DEFINE R == OpToRel(<, Nat)
           T == Nat \ S
<1> SUFFICES ASSUME T # {} PROVE FALSE
  OBVIOUS
<1>1. IsWellFoundedOn(R, Nat)
  BY NatLessThanWellFounded
<1>2. PICK x \in T : \A y \in T : ~(<<y, x>> \in R)
  <2>1. T \subseteq Nat
    OBVIOUS
  <2> HIDE DEF R, T
  <2> QED BY <1>1, <2>1, WFMin
<1>3. x \in Nat \ {0} /\ x - 1 \in Nat /\ x - 1 < x
  OBVIOUS
<1>4. x - 1 \in T
  BY <1>3
<1>5. <<x - 1, x>> \in R
  BY <1>3 DEF OpToRel
<1> QED BY <1>2, <1>4, <1>5

\* From b, step after step: f[k] is what k steps have made of b.
Iterates(f, n, b, Step) == f[0] = b /\ \A k \in 1 .. n : f[k] = Step[k][f[k - 1]]

LEMMA IterationExists ==
    ASSUME NEW T, NEW b \in T, NEW N \in Nat, NEW Step \in [1 .. N -> [T -> T]]
    PROVE  \E f \in [0 .. N -> T] : Iterates(f, N, b, Step)
<1> DEFINE Good == {n \in Nat : n =< N => \E f \in [0 .. n -> T] : Iterates(f, n, b, Step)}
<1>1. 0 \in Good
  <2> DEFINE f == [k \in 0 .. 0 |-> b]
  <2>1. f \in [0 .. 0 -> T] /\ f[0] = b /\ 1 .. 0 = {}
    OBVIOUS
  <2> HIDE DEF f
  <2>2. Iterates(f, 0, b, Step)
    BY <2>1 DEF Iterates
  <2> QED BY <2>1, <2>2
<1>2. ASSUME NEW n \in Nat, n \in Good
      PROVE  n + 1 \in Good
  <2> SUFFICES ASSUME n + 1 =< N
               PROVE  \E g \in [0 .. n + 1 -> T] : Iterates(g, n + 1, b, Step)
    OBVIOUS
  <2>1. PICK f \in [0 .. n -> T] : Iterates(f, n, b, Step)
    BY <1>2
  <2> DEFINE last == Step[n + 1][f[n]]
             g == [k \in 0 .. n + 1 |-> IF k = n + 1 THEN last ELSE f[k]]
  <2>2. n + 1 \in 1 .. N /\ f[n] \in T
    OBVIOUS
  <2>3. last \in T
    BY <2>2
  <2>4. g \in [0 .. n + 1 -> T]
    <3> HIDE DEF last
    <3> QED BY <2>3
  <2>5. g[n + 1] = last /\ \A k \in 0 .. n : g[k] = f[k]
    OBVIOUS
  <2>6. ASSUME NEW k \in 1 .. n + 1 PROVE g[k] = Step[k][g[k - 1]]
    <3> HIDE DEF g
    <3>1. k - 1 \in 0 .. n /\ g[k - 1] = f[k - 1]
      BY <2>5
    <3>2. CASE k = n + 1
      BY <2>5, <3>1, <3>2
    <3>3. CASE k \in 1 .. n
      BY <2>1, <2>5, <3>1, <3>3 DEF Iterates
    <3> QED BY <3>2, <3>3
  <2>7. g[0] = b
    <3> HIDE DEF g
    <3> QED BY <2>1, <2>5 DEF Iterates
  <2>8. Iterates(g, n + 1, b, Step)
    <3> HIDE DEF g
    <3> QED BY <2>6, <2>7 DEF Iterates
  <2> HIDE DEF g
  <2> QED BY <2>4, <2>8
<1> HIDE DEF Good
<1>3. Nat \subseteq Good
  BY <1>1, <1>2, Induction
<1> QED BY <1>3 DEF Good

\* Whatever satisfies the equations of the steps has their type.
LEMMA IterationTyped ==
    ASSUME NEW T, NEW b \in T, NEW N \in Nat, NEW Step \in [1 .. N -> [T -> T]],
           NEW f, f[0] = b, \A k \in 1 .. N : f[k - 1] \in T => f[k] = Step[k][f[k - 1]]
    PROVE  \A k \in 0 .. N : f[k] \in T
<1> DEFINE Good == {n \in Nat : n =< N => f[n] \in T}
<1>1. 0 \in Good
  OBVIOUS
<1>2. ASSUME NEW n \in Nat, n \in Good
      PROVE  n + 1 \in Good
  <2> SUFFICES ASSUME n + 1 =< N PROVE f[n + 1] \in T
    OBVIOUS
  <2>1. f[n] \in T /\ n + 1 \in 1 .. N /\ n + 1 - 1 = n
    BY <1>2
  <2>2. f[n + 1] = Step[n + 1][f[n]]
    BY <2>1
  <2>3. Step[n + 1][f[n]] \in T
    BY <2>1
  <2> QED BY <2>2, <2>3
<1> HIDE DEF Good
<1>3. Nat \subseteq Good
  BY <1>1, <1>2, Induction
<1> QED BY <1>3 DEF Good

-----------------------------------------------------------------------------
(* The sum over a set of entities: it exists, and a posting moves nothing in *)
(* or out of it.                                                             *)

Picked(E) == CHOOSE e \in E : TRUE

LEMMA Smaller ==
    ASSUME NEW E, IsFiniteSet(E), E # {}
    PROVE  /\ Picked(E) \in E /\ IsFiniteSet(E \ {Picked(E)})
           /\ Cardinality(E) \in Nat /\ Cardinality(E \ {Picked(E)}) = Cardinality(E) - 1
<1>1. Picked(E) \in E
  BY DEF Picked
<1> QED BY <1>1, FS_RemoveElement, FS_CardinalityType

SumsUpTo(s, f, n) ==
    \A E \in SUBSET DOMAIN f :
        Cardinality(E) =< n =>
            s[E] = IF E = {} THEN 0 ELSE f[Picked(E)] + s[E \ {Picked(E)}]

LEMMA SumsExist ==
    ASSUME NEW f, IsFiniteSet(DOMAIN f)
    PROVE  SumsUpTo(SumsOf(f), f, Cardinality(DOMAIN f))
<1> DEFINE D == DOMAIN f
           Good == {n \in Nat : \E s : SumsUpTo(s, f, n)}
<1>f. \A E \in SUBSET D : IsFiniteSet(E) /\ Cardinality(E) \in Nat /\ Cardinality(E) =< Cardinality(D)
  BY FS_Subset, FS_CardinalityType
<1>1. ASSUME NEW n \in Int, NEW s, SumsUpTo(s, f, n)
      PROVE  \E g : SumsUpTo(g, f, n + 1)
  <2> DEFINE g == [E \in SUBSET D |-> IF E = {} THEN 0
                                      ELSE f[Picked(E)] + s[E \ {Picked(E)}]]
  <2>1. ASSUME NEW E \in SUBSET D, E # {}, Cardinality(E) =< n + 1
        PROVE  g[E] = f[Picked(E)] + g[E \ {Picked(E)}]
    <3> DEFINE F == E \ {Picked(E)}
    <3>1. F \in SUBSET D /\ Cardinality(F) =< n
      BY <1>f, <2>1, Smaller
    <3>2. g[F] = s[F]
      BY <1>1, <3>1 DEF SumsUpTo
    <3>3. g[E] = f[Picked(E)] + s[F]
      BY <2>1
    <3> HIDE DEF g
    <3> QED BY <3>2, <3>3
  <2>2. g[{}] = 0
    OBVIOUS
  <2> HIDE DEF g
  <2>3. SumsUpTo(g, f, n + 1)
    BY <2>1, <2>2 DEF SumsUpTo
  <2> QED BY <2>3
<1>2. 0 \in Good
  <2>1. SumsUpTo(0, f, -1)
    BY <1>f DEF SumsUpTo
  <2>2. \E g : SumsUpTo(g, f, -1 + 1)
    BY <1>1, <2>1
  <2> QED BY <2>2
<1>3. ASSUME NEW n \in Nat, n \in Good
      PROVE  n + 1 \in Good
  BY <1>1, <1>3
<1> HIDE DEF Good
<1>4. Nat \subseteq Good
  BY <1>2, <1>3, Induction
<1>5. PICK s : SumsUpTo(s, f, Cardinality(D))
  <2>1. Cardinality(D) \in Nat
    BY <1>f
  <2> QED BY <1>4, <2>1 DEF Good
<1> DEFINE IsSum(h) == h = [E \in SUBSET DOMAIN f |->
                            IF E = {} THEN 0
                            ELSE LET e == CHOOSE e \in E : TRUE IN f[e] + h[E \ {e}]]
           g == [E \in SUBSET D |-> s[E]]
<1>6. \A E \in SUBSET D : g[E] = IF E = {} THEN 0 ELSE f[Picked(E)] + g[E \ {Picked(E)}]
  <2> SUFFICES ASSUME NEW E \in SUBSET D
               PROVE  g[E] = IF E = {} THEN 0 ELSE f[Picked(E)] + g[E \ {Picked(E)}]
    OBVIOUS
  <2>1. s[E] = IF E = {} THEN 0 ELSE f[Picked(E)] + s[E \ {Picked(E)}]
    BY <1>f, <1>5 DEF SumsUpTo
  <2>2. g[E] = s[E] /\ g[E \ {Picked(E)}] = s[E \ {Picked(E)}]
    OBVIOUS
  <2> QED BY <2>1, <2>2, Zenon
<1>7. IsSum(g)
  <2> DEFINE h == [E \in SUBSET DOMAIN f |->
                     IF E = {} THEN 0
                     ELSE LET e == CHOOSE e \in E : TRUE IN f[e] + g[E \ {e}]]
  <2>1. \A E \in SUBSET D : h[E] = IF E = {} THEN 0 ELSE f[Picked(E)] + g[E \ {Picked(E)}]
    BY Zenon DEF Picked
  <2>2. h = [E \in SUBSET D |-> h[E]] /\ g = [E \in SUBSET D |-> g[E]]
    OBVIOUS
  <2> HIDE DEF h, g
  <2>3. \A E \in SUBSET D : g[E] = h[E]
    BY <1>6, <2>1
  <2>4. g = h
    BY <2>2, <2>3
  <2> QED BY <2>4 DEF h
<1>8. SumsOf(f) = CHOOSE h : IsSum(h)
  BY Zenon DEF SumsOf
<1> HIDE DEF g
<1> DEFINE S == SumsOf(f)
<1>9. IsSum(S)
  <2> HIDE DEF IsSum
  <2> QED BY <1>7, <1>8
<1>10. \A E \in SUBSET D : S[E] = IF E = {} THEN 0 ELSE f[Picked(E)] + S[E \ {Picked(E)}]
  <2> DEFINE h == [E \in SUBSET DOMAIN f |->
                     IF E = {} THEN 0
                     ELSE LET e == CHOOSE e \in E : TRUE IN f[e] + S[E \ {e}]]
  <2>1. \A E \in SUBSET D : h[E] = IF E = {} THEN 0 ELSE f[Picked(E)] + S[E \ {Picked(E)}]
    BY Zenon DEF Picked
  <2>2. S = h
    BY <1>9, Zenon
  <2> HIDE DEF h, S
  <2> QED BY <2>1, <2>2
<1> HIDE DEF S
<1>11. SumsUpTo(S, f, Cardinality(D))
  BY <1>10 DEF SumsUpTo
<1> QED BY <1>11 DEF S

\* The sums of the books: of an instrument, over any set of those who hold it.
BookSumsUpTo(f, p, i, n) ==
    \A E \in SUBSET DOMAIN p :
        Cardinality(E) =< n =>
            f[E] = IF E = {} THEN 0 ELSE p[Picked(E)][i] + f[E \ {Picked(E)}]

LEMMA BookSumsExist ==
    ASSUME NEW p, IsFiniteSet(DOMAIN p), NEW i
    PROVE  BookSumsUpTo(Sums(p, i), p, i, Cardinality(DOMAIN p))
<1> DEFINE f == [e \in DOMAIN p |-> p[e][i]]
<1>1. DOMAIN f = DOMAIN p /\ \A e \in DOMAIN p : f[e] = p[e][i]
  OBVIOUS
<1>2. Sums(p, i) = SumsOf(f)
  BY DEF Sums
<1> HIDE DEF f
<1>3. SumsUpTo(SumsOf(f), f, Cardinality(DOMAIN f))
  BY <1>1, SumsExist
<1>4. ASSUME NEW E \in SUBSET DOMAIN p, Cardinality(E) =< Cardinality(DOMAIN p)
      PROVE  Sums(p, i)[E] = IF E = {} THEN 0 ELSE p[Picked(E)][i] + Sums(p, i)[E \ {Picked(E)}]
  <2>1. E # {} => Picked(E) \in DOMAIN p
    BY <1>1 DEF Picked
  <2> QED BY <1>1, <1>2, <1>3, <1>4, <2>1 DEF SumsUpTo
<1> QED BY <1>4 DEF BookSumsUpTo

\* The books of Entities and Instruments.
Books == [Entities -> [Instruments -> Int]]

LEMMA EntitiesFinite ==
    IsFiniteSet(Entities) /\ \A E \in SUBSET Entities : IsFiniteSet(E)
<1>1. IsFiniteSet({Owner}) /\ IsFiniteSet({Owner, Npc}) /\ IsFiniteSet({Owner, Npc, Bank})
      /\ IsFiniteSet({Owner, Npc, Bank, Govt}) /\ IsFiniteSet(Entities)
  <2>1. IsFiniteSet({})
    BY FS_EmptySet
  <2>2. IsFiniteSet({} \cup {Owner})
    BY <2>1, FS_AddElement
  <2>3. IsFiniteSet({Owner} \cup {Npc})
    BY <2>2, FS_AddElement
  <2>4. IsFiniteSet({Owner, Npc} \cup {Bank})
    BY <2>3, FS_AddElement
  <2>5. IsFiniteSet({Owner, Npc, Bank} \cup {Govt})
    BY <2>4, FS_AddElement
  <2>6. IsFiniteSet({Owner, Npc, Bank, Govt} \cup {Firm})
    BY <2>5, FS_AddElement
  <2>7. {Owner, Npc, Bank, Govt} \cup {Firm} = Entities
    BY DEF Entities
  <2> QED BY <2>2, <2>3, <2>4, <2>5, <2>6, <2>7
<1> QED BY <1>1, FS_Subset

\* A sum whose entry of e grows by x grows by x where e is summed.
LEMMA SumShifts ==
    ASSUME NEW p \in Books, NEW q \in Books, NEW i \in Instruments, NEW e \in Entities,
           NEW x \in Int, q[e][i] = p[e][i] + x,
           \A d \in Entities \ {e} : q[d][i] = p[d][i]
    PROVE  \A E \in SUBSET Entities :
              /\ Sums(p, i)[E] \in Int
              /\ Sums(q, i)[E] = Sums(p, i)[E] + IF e \in E THEN x ELSE 0
<1> DEFINE P == Sums(p, i)
           Q == Sums(q, i)
           Holds(E) == P[E] \in Int /\ Q[E] = P[E] + IF e \in E THEN x ELSE 0
           Good == {n \in Nat : \A E \in SUBSET Entities : Cardinality(E) =< n => Holds(E)}
<1>c. \A E \in SUBSET Entities : Cardinality(E) \in Nat /\ Cardinality(E) =< Cardinality(Entities)
  BY EntitiesFinite, FS_Subset, FS_CardinalityType
<1>d. DOMAIN p = Entities /\ DOMAIN q = Entities
  BY DEF Books
<1>e. \A E \in SUBSET Entities :
         /\ P[E] = IF E = {} THEN 0 ELSE p[Picked(E)][i] + P[E \ {Picked(E)}]
         /\ Q[E] = IF E = {} THEN 0 ELSE q[Picked(E)][i] + Q[E \ {Picked(E)}]
  <2>1. /\ BookSumsUpTo(P, p, i, Cardinality(Entities))
        /\ BookSumsUpTo(Q, q, i, Cardinality(Entities))
    BY <1>d, EntitiesFinite, BookSumsExist
  <2> HIDE DEF P, Q
  <2> QED BY <1>c, <1>d, <2>1 DEF BookSumsUpTo
<1> HIDE DEF P, Q
<1>1. ASSUME NEW E \in SUBSET Entities, E # {}, Holds(E \ {Picked(E)})
      PROVE  Holds(E)
  <2> DEFINE c == Picked(E)
             F == E \ {c}
  <2>1. c \in E
    BY <1>1, EntitiesFinite, Smaller
  <2>2. P[E] = p[c][i] + P[F] /\ Q[E] = q[c][i] + Q[F]
    BY <1>1, <1>e
  <2>3. p[c][i] \in Int /\ q[c][i] \in Int
    BY <2>1 DEF Books
  <2>4. P[F] \in Int /\ Q[F] = P[F] + IF e \in F THEN x ELSE 0
    BY <1>1
  <2>5. CASE c = e
    <3>1. e \in E /\ e \notin F
      BY <2>1, <2>5
    <3>2. q[c][i] = p[c][i] + x
      BY <2>5
    <3> HIDE DEF c, F
    <3> QED BY <2>2, <2>3, <2>4, <3>1, <3>2
  <2>6. CASE c # e
    <3>1. e \in E <=> e \in F
      BY <2>6
    <3>2. q[c][i] = p[c][i]
      BY <2>1, <2>6
    <3> HIDE DEF c, F
    <3> QED BY <2>2, <2>3, <2>4, <3>1, <3>2
  <2> QED BY <2>5, <2>6
<1>2. Holds({})
  <2>1. P[{}] = 0 /\ Q[{}] = 0
    BY <1>e, {} \in SUBSET Entities
  <2>2. e \notin {}
    OBVIOUS
  <2> QED BY <2>1, <2>2
<1> HIDE DEF Holds
<1>3. 0 \in Good
  <2>1. \A E \in SUBSET Entities : Cardinality(E) =< 0 => E = {}
    BY <1>c, EntitiesFinite, FS_EmptySet
  <2> QED BY <1>2, <2>1
<1>4. ASSUME NEW n \in Nat, n \in Good
      PROVE  n + 1 \in Good
  <2> SUFFICES ASSUME NEW E \in SUBSET Entities, Cardinality(E) =< n + 1 PROVE Holds(E)
    OBVIOUS
  <2>1. CASE E = {}
    BY <1>2, <2>1
  <2>2. CASE E # {}
    <3>1. Cardinality(E \ {Picked(E)}) =< n
      <4>1. Cardinality(E) \in Nat /\ Cardinality(E \ {Picked(E)}) = Cardinality(E) - 1
        BY <2>2, EntitiesFinite, Smaller
      <4> QED BY <4>1
    <3>2. Holds(E \ {Picked(E)})
      BY <1>4, <3>1
    <3> QED BY <1>1, <2>2, <3>2
  <2> QED BY <2>1, <2>2
<1> HIDE DEF Good
<1>5. Nat \subseteq Good
  BY <1>3, <1>4, Induction
<1>6. \A E \in SUBSET Entities : Holds(E)
  BY <1>5, <1>c, EntitiesFinite, FS_CardinalityType DEF Good
<1> QED BY <1>6 DEF Holds, P, Q

\* What a posting does to the books: the two entries move, and no total.
LEMMA MoveFacts ==
    ASSUME NEW p \in Books, NEW a \in Entities, NEW b \in Entities, a # b,
           NEW i \in Instruments, NEW x \in Int
    PROVE  /\ Move(p, a, b, i, x) \in Books
           /\ Move(p, a, b, i, x)[a][i] = p[a][i] - x
           /\ Move(p, a, b, i, x)[b][i] = p[b][i] + x
           /\ \A d \in Entities, j \in Instruments :
                 (j # i \/ d \notin {a, b}) => Move(p, a, b, i, x)[d][j] = p[d][j]
<1> DEFINE r == [p EXCEPT ![a][i] = p[a][i] - x]
           q == [r EXCEPT ![b][i] = r[b][i] + x]
<1>1. /\ r \in Books /\ r[a][i] = p[a][i] - x /\ r[b] = p[b]
      /\ \A d \in Entities, j \in Instruments : (j # i \/ d # a) => r[d][j] = p[d][j]
  BY DEF Books
<1>2. Move(p, a, b, i, x) = q
  BY DEF Move
<1> HIDE DEF r
<1>3. /\ q \in Books /\ q[b][i] = r[b][i] + x /\ q[a] = r[a]
      /\ \A d \in Entities, j \in Instruments : (j # i \/ d # b) => q[d][j] = r[d][j]
  BY <1>1 DEF Books
<1> HIDE DEF q
<1> QED BY <1>1, <1>2, <1>3

LEMMA MoveBalances ==
    ASSUME NEW p \in Books, NEW a \in Entities, NEW b \in Entities, a # b,
           NEW i \in Instruments, NEW x \in Int, NEW j \in Instruments
    PROVE  Total(Move(p, a, b, i, x), j) = Total(p, j)
<1> DEFINE r == [p EXCEPT ![a][i] = p[a][i] - x]
           q == Move(p, a, b, i, x)
<1>0. /\ q \in Books /\ q[a][i] = p[a][i] - x /\ q[b][i] = p[b][i] + x
      /\ \A d \in Entities, k \in Instruments : (k # i \/ d \notin {a, b}) => q[d][k] = p[d][k]
  <2> HIDE DEF q
  <2> QED BY MoveFacts DEF q
<1>1. /\ r \in Books
      /\ r[a][i] = p[a][i] + (-x) /\ \A d \in Entities \ {a} : r[d][i] = p[d][i]
  BY DEF Books
<1>2. /\ q[b][i] = r[b][i] + x /\ \A d \in Entities \ {b} : q[d][i] = r[d][i]
      /\ j # i => \A d \in Entities : q[d][j] = p[d][j]
  <2> HIDE DEF r, q
  <2>1. r[b][i] = p[b][i]
    BY <1>1
  <2>2. ASSUME NEW d \in Entities \ {b} PROVE q[d][i] = r[d][i]
    <3>1. CASE d = a
      BY <1>0, <1>1, <3>1 DEF Books
    <3>2. CASE d # a
      BY <1>0, <1>1, <3>2
    <3> QED BY <3>1, <3>2
  <2> QED BY <1>0, <2>1, <2>2
<1>3. DOMAIN p = Entities /\ DOMAIN q = Entities
  BY <1>0 DEF Books
<1> HIDE DEF r, q
<1>4. CASE j = i
  <2>1. \A E \in SUBSET Entities :
          /\ Sums(p, i)[E] \in Int
          /\ Sums(r, i)[E] = Sums(p, i)[E] + IF a \in E THEN -x ELSE 0
    BY <1>1, SumShifts, -x \in Int
  <2>2. \A E \in SUBSET Entities :
          /\ Sums(r, i)[E] \in Int
          /\ Sums(q, i)[E] = Sums(r, i)[E] + IF b \in E THEN x ELSE 0
    BY <1>0, <1>1, <1>2, SumShifts
  <2>3. Sums(q, i)[Entities] = Sums(p, i)[Entities]
    BY <2>1, <2>2
  <2> QED BY <1>3, <1>4, <2>3 DEF Total, q
<1>5. CASE j # i
  <2>1. \A d \in Entities \ {a} : q[d][j] = p[d][j]
    BY <1>2, <1>5
  <2>2. q[a][j] = p[a][j] + 0
    BY <1>2, <1>5 DEF Books
  <2>3. \A E \in SUBSET Entities :
          /\ Sums(p, j)[E] \in Int
          /\ Sums(q, j)[E] = Sums(p, j)[E] + IF a \in E THEN 0 ELSE 0
    BY <1>0, <2>1, <2>2, SumShifts
  <2>4. Sums(q, j)[Entities] = Sums(p, j)[Entities]
    BY <2>3
  <2> QED BY <1>3, <2>4 DEF Total, q
<1> QED BY <1>4, <1>5

LEMMA EmptyBalances ==
    ASSUME NEW j \in Instruments
    PROVE  /\ EmptyBooks(Entities, Instruments) \in Books
           /\ Total(EmptyBooks(Entities, Instruments), j) = 0
<1> DEFINE p == EmptyBooks(Entities, Instruments)
           Good == {n \in Nat : \A E \in SUBSET Entities : Cardinality(E) =< n => Sums(p, j)[E] = 0}
<1>1. p \in Books /\ DOMAIN p = Entities /\ \A e \in Entities : p[e][j] = 0
  BY DEF EmptyBooks, Books
<1> HIDE DEF p
<1>2. BookSumsUpTo(Sums(p, j), p, j, Cardinality(Entities))
  BY <1>1, EntitiesFinite, BookSumsExist
<1>c. \A E \in SUBSET Entities : Cardinality(E) \in Nat /\ Cardinality(E) =< Cardinality(Entities)
  BY EntitiesFinite, FS_Subset, FS_CardinalityType
<1>3. \A E \in SUBSET Entities :
         Sums(p, j)[E] = IF E = {} THEN 0 ELSE p[Picked(E)][j] + Sums(p, j)[E \ {Picked(E)}]
  BY <1>1, <1>2, <1>c DEF BookSumsUpTo
<1>4. 0 \in Good
  <2>1. \A E \in SUBSET Entities : Cardinality(E) =< 0 => E = {}
    BY <1>c, EntitiesFinite, FS_EmptySet
  <2> QED BY <1>3, <2>1
<1>5. ASSUME NEW n \in Nat, n \in Good
      PROVE  n + 1 \in Good
  <2> SUFFICES ASSUME NEW E \in SUBSET Entities, Cardinality(E) =< n + 1
               PROVE  Sums(p, j)[E] = 0
    OBVIOUS
  <2>1. CASE E = {}
    BY <1>3, <2>1
  <2>2. CASE E # {}
    <3>1. Picked(E) \in E /\ Cardinality(E \ {Picked(E)}) =< n
      <4>1. /\ Picked(E) \in E /\ Cardinality(E) \in Nat
            /\ Cardinality(E \ {Picked(E)}) = Cardinality(E) - 1
        BY <2>2, EntitiesFinite, Smaller
      <4> QED BY <4>1
    <3>2. Sums(p, j)[E \ {Picked(E)}] = 0
      BY <1>5, <3>1
    <3> QED BY <1>1, <1>3, <2>2, <3>1, <3>2
  <2> QED BY <2>1, <2>2
<1> HIDE DEF Good
<1>6. Nat \subseteq Good
  BY <1>4, <1>5, Induction
<1>7. Sums(p, j)[Entities] = 0
  BY <1>6, <1>c, EntitiesFinite, FS_CardinalityType DEF Good
<1> QED BY <1>1, <1>7 DEF Total, p

\* What q has of p after postings: every total is what it was.
Posted(p, q) == q \in Books /\ \A j \in Instruments : Total(q, j) = Total(p, j)

LEMMA InTheBooks ==
    /\ Firm \in Entities /\ Owner \in Entities /\ Npc \in Entities
    /\ Bank \in Entities /\ Govt \in Entities
    /\ Cash \in Instruments /\ Loan \in Instruments
    /\ "EQ" \in Instruments /\ "CAPITAL" \in Instruments
    /\ Firm # Owner /\ Firm # Npc /\ Firm # Bank /\ Firm # Govt /\ Bank # Npc
    /\ Cash # Loan /\ Cash # "EQ" /\ Cash # "CAPITAL" /\ Loan # "EQ" /\ Loan # "CAPITAL"
BY DEF Entities, Instruments, Firm, Owner, Npc, Bank, Govt, Cash, Loan

\* A posting of two moves between a and b: of x, back, and of y, forth.
LEMMA ExchangeFacts ==
    ASSUME NEW p \in Books, NEW a \in Entities, NEW b \in Entities, a # b,
           NEW i \in Instruments, NEW j \in Instruments, i # j, NEW x \in Int, NEW y \in Int,
           NEW q, q = Move(Move(p, b, a, i, x), a, b, j, y)
    PROVE  /\ Posted(p, q)
           /\ q[a][i] = p[a][i] + x /\ q[a][j] = p[a][j] - y
           /\ q[b][i] = p[b][i] - x /\ q[b][j] = p[b][j] + y
           /\ \A d \in Entities, k \in Instruments :
                 (k \notin {i, j} \/ d \notin {a, b}) => q[d][k] = p[d][k]
<1> DEFINE r == Move(p, b, a, i, x)
<1>1. /\ r \in Books /\ r[b][i] = p[b][i] - x /\ r[a][i] = p[a][i] + x
      /\ \A d \in Entities, k \in Instruments : (k # i \/ d \notin {a, b}) => r[d][k] = p[d][k]
  BY MoveFacts
<1>2. \A k \in Instruments : Total(r, k) = Total(p, k)
  BY MoveBalances
<1> HIDE DEF r
<1>3. q = Move(r, a, b, j, y)
  BY DEF r
<1>4. /\ q \in Books /\ q[a][j] = r[a][j] - y /\ q[b][j] = r[b][j] + y
      /\ \A d \in Entities, k \in Instruments : (k # j \/ d \notin {a, b}) => q[d][k] = r[d][k]
  BY <1>1, <1>3, MoveFacts
<1>5. \A k \in Instruments : Total(q, k) = Total(r, k)
  BY <1>1, <1>3, MoveBalances
<1> QED BY <1>1, <1>2, <1>4, <1>5 DEF Posted

\* The same of the swaps, the loans and the single moves of module Ledger.
LEMMA SwapFacts ==
    ASSUME NEW p \in Books, NEW a \in Entities, NEW b \in Entities, a # b,
           NEW i \in Instruments, i # Cash, NEW x \in Int, NEW y \in Int
    PROVE  /\ Posted(p, Swap(p, a, b, i, x, y))
           /\ Swap(p, a, b, i, x, y)[a][i] = p[a][i] + x
           /\ Swap(p, a, b, i, x, y)[a][Cash] = p[a][Cash] - y
           /\ Swap(p, a, b, i, x, y)[b][i] = p[b][i] - x
           /\ Swap(p, a, b, i, x, y)[b][Cash] = p[b][Cash] + y
           /\ \A d \in Entities, k \in Instruments :
                 (k \notin {i, Cash} \/ d \notin {a, b}) => Swap(p, a, b, i, x, y)[d][k] = p[d][k]
<1>1. Cash \in Instruments
  BY InTheBooks
<1>2. Swap(p, a, b, i, x, y) = Move(Move(p, b, a, i, x), a, b, Cash, y)
  BY DEF Swap
<1> QED BY <1>1, <1>2, ExchangeFacts

LEMMA LendFacts ==
    ASSUME NEW p \in Books, NEW a \in Entities, NEW b \in Entities, a # b, NEW x \in Int
    PROVE  /\ Posted(p, Lend(p, a, b, x))
           /\ Lend(p, a, b, x)[a][Loan] = p[a][Loan] + x
           /\ Lend(p, a, b, x)[a][Cash] = p[a][Cash] - x
           /\ Lend(p, a, b, x)[b][Loan] = p[b][Loan] - x
           /\ Lend(p, a, b, x)[b][Cash] = p[b][Cash] + x
           /\ \A d \in Entities, k \in Instruments :
                 (k \notin {Loan, Cash} \/ d \notin {a, b}) => Lend(p, a, b, x)[d][k] = p[d][k]
<1>1. Cash \in Instruments /\ Loan \in Instruments /\ Loan # Cash
  BY InTheBooks
<1>2. Lend(p, a, b, x) = Move(Move(p, b, a, Loan, x), a, b, Cash, x)
  BY DEF Lend
<1> QED BY <1>1, <1>2, ExchangeFacts

LEMMA MovePosted ==
    ASSUME NEW p \in Books, NEW a \in Entities, NEW b \in Entities, a # b,
           NEW i \in Instruments, NEW x \in Int
    PROVE  Posted(p, Move(p, a, b, i, x))
BY MoveFacts, MoveBalances DEF Posted

LEMMA PostedTwice ==
    ASSUME NEW p, NEW q, NEW r, Posted(p, q), Posted(q, r)
    PROVE  Posted(p, r)
BY DEF Posted

LEMMA Ordered == ASSUME NEW n \in Nat, NEW q \in Nat, NEW c \in Nat, q =< c PROVE n * q =< n * c
OBVIOUS
LEMMA Quotient ==
    ASSUME NEW m \in Nat, NEW c \in Nat, c > 0
    PROVE  m \div c \in Nat /\ c * (m \div c) =< m
OBVIOUS
LEMMA Divided ==
    ASSUME NEW n \in Nat, NEW c \in Nat, c > 0, NEW k \in Nat, c * k =< n * c
    PROVE  k =< n
OBVIOUS
LEMMA Product == ASSUME NEW n \in Nat, NEW q \in Nat PROVE n * q \in Nat
OBVIOUS
-----------------------------------------------------------------------------
(* The invariant. *)

Plants == [months : Nat \ {0}, size : Nat]

Typed ==
    /\ TypeOK /\ pos \in Books
    /\ cash \in Int /\ income \in Int /\ financed \in Int /\ lines \in Nat
    /\ pipeline \in Seq(Plants)

Balanced == \A j \in Instruments : Total(pos, j) = 0

\* Until it is resolved, the firm owes its term loan and its lines, and the gap
\* of its balance sheet is the income of the open month less what it borrowed and
\* paid out.
Explained ==
    status # "liquidated" =>
        /\ -pos[Firm][Loan] = loan.face + lines
        /\ pos[Firm][Cash] + pos[Firm]["CAPITAL"] + pos[Firm][Loan] + pos[Firm]["EQ"]
             = income - financed

\* Once it is, both are off by what the bankruptcy paid out and wrote off, which is no
\* more than there was; and no month was refused but for what was financed.
Resolved ==
    /\ status # "liquidated" => resolution = << >>
    /\ status = "liquidated" =>
          /\ resolution # << >> /\ Lost \in Nat /\ PaidOut \in Int
          /\ Lost =< loan.face + lines /\ CashlessBounded
          /\ -pos[Firm][Loan] = loan.face + lines - Lost
          /\ pos[Firm][Cash] + pos[Firm]["CAPITAL"] + pos[Firm][Loan] + pos[Firm]["EQ"]
               = income - financed - PaidOut + Lost
    /\ goods =< Inventory /\ RefusedWhenFinanced

Inv == /\ Typed /\ Balanced /\ CapacityConserved /\ Explained /\ Resolved
       /\ DrawnWithinCapacity /\ SeniorityKept

\* The invariant says what the books promise.
LEMMA InvExplains == Inv => BooksExplained
<1> SUFFICES ASSUME Inv PROVE BooksExplained
  OBVIOUS
<1>1. LedgerConsistent
  BY InTheBooks DEF Inv, Balanced, LedgerConsistent, Consistent
<1>2. /\ pos[Firm][Loan] \in Int /\ pos[Firm][Cash] \in Int
      /\ pos[Firm]["CAPITAL"] \in Int /\ pos[Firm]["EQ"] \in Int
  BY InTheBooks DEF Inv, Typed, Books
<1>3. /\ loan.face \in Nat /\ lines \in Nat /\ income \in Int /\ financed \in Int
      /\ Inventory \in Nat /\ StockRecovery \in Nat
  BY FirmsAssumption DEF Inv, Typed, TypeOK
<1>4. /\ Lost \in Nat /\ PaidOut \in Int /\ Lost =< loan.face + lines /\ CashlessBounded
      /\ -pos[Firm][Loan] = loan.face + lines - Lost
      /\ pos[Firm][Cash] + pos[Firm]["CAPITAL"] + pos[Firm][Loan] + pos[Firm]["EQ"]
           = income - financed - PaidOut + Lost
  <2>1. CASE status = "liquidated"
    BY <2>1 DEF Inv, Resolved
  <2>2. CASE status # "liquidated"
    <3>1. Lost = 0 /\ PaidOut = 0
      BY <2>2 DEF Inv, Resolved, Lost, PaidOut
    <3>2. /\ -pos[Firm][Loan] = loan.face + lines
          /\ pos[Firm][Cash] + pos[Firm]["CAPITAL"] + pos[Firm][Loan] + pos[Firm]["EQ"]
               = income - financed
      BY <2>2 DEF Inv, Explained
    <3>3. 0 =< (Inventory * StockRecovery) \div 100
      <4>1. Inventory * StockRecovery \in Nat
        BY <1>3, Product
      <4> QED BY <4>1, Quotient
    <3> QED BY <1>2, <1>3, <3>1, <3>2, <3>3 DEF CashlessBounded
  <2> QED BY <2>1, <2>2
<1>5. GapExplained
  <2>1. Debt = -pos[Firm][Loan]
    BY <1>2, <1>3, <1>4 DEF Debt, AtLeast0
  <2>2. Assets = pos[Firm][Cash] + pos[Firm]["CAPITAL"] /\ Book = -pos[Firm]["EQ"]
    BY DEF Assets, Book
  <2> QED BY <1>2, <1>3, <1>4, <2>1, <2>2 DEF GapExplained
<1> QED BY <1>1, <1>4, <1>5 DEF Inv, Resolved, Typed, BooksExplained, LoanExplained

LEMMA InvInit == Init => Inv
<1> SUFFICES ASSUME Init PROVE Inv
  OBVIOUS
<1> USE FirmsAssumption
<1>1. pos \in Books /\ Balanced
  BY EmptyBalances, InTheBooks DEF Init, Balanced
<1>2. \A j \in Instruments : pos[Firm][j] = 0
  BY InTheBooks DEF Init, EmptyBooks
<1>3. Typed
  BY <1>1 DEF Init, Typed, TypeOK, NoLoan
<1>4. Explained
  BY <1>2, InTheBooks DEF Init, Explained, NoLoan
<1>5. CapacityConserved /\ DrawnWithinCapacity /\ SeniorityKept
  BY DEF Init, CapacityConserved, DrawnWithinCapacity, SeniorityKept
<1>6. Resolved
  BY DEF Init, Resolved, RefusedWhenFinanced
<1> QED BY <1>1, <1>3, <1>4, <1>5, <1>6 DEF Inv

\* What every operation needs of the invariant.
LEMMA Facts ==
    ASSUME Inv
    PROVE  /\ pos \in Books /\ Balanced /\ \A j \in Instruments : pos[Firm][j] \in Int
           /\ month \in Nat /\ ops \in Nat /\ capacity \in Nat /\ staff \in Nat /\ goods \in Nat
           /\ cell.capacity \in Nat /\ cell.stock \in Nat
           /\ loan.face \in Nat /\ loan.remaining \in 0 .. Tenor /\ built \in Nat
           /\ cash \in Int /\ income \in Int /\ financed \in Int /\ lines \in Nat
           /\ pipeline \in Seq(Plants)
<1>1. Typed /\ Balanced
  BY DEF Inv
<1>2. month \in Nat /\ ops \in Nat
  BY <1>1, FirmsAssumption DEF Typed, TypeOK
<1>3. \A j \in Instruments : pos[Firm][j] \in Int
  BY <1>1, InTheBooks DEF Typed, Books
<1> QED BY <1>1, <1>2, <1>3 DEF Typed, TypeOK

\* Books to which only postings are made stay balanced.
LEMMA StayBalanced ==
    ASSUME Inv, Posted(pos, pos')
    PROVE  Balanced'
BY DEF Inv, Balanced, Posted

\* An operation counts, in its month.
LEMMA OperateStep ==
    ASSUME Inv, Operate
    PROVE  ops' \in 0 .. MaxOps /\ month' \in 0 .. MaxMonth
BY FirmsAssumption DEF Inv, Typed, TypeOK, Operate

\* An operation of a firm that is not bankrupt, and does not close its books.
LEMMA StaysOpen ==
    ASSUME Inv, status # "liquidated", status' # "liquidated",
           UNCHANGED <<closing, resolution>>, goods' =< Inventory
    PROVE  Resolved'
BY DEF Inv, Resolved, RefusedWhenFinanced

\* Books of which the row of the firm is moved by what it gained, borrowed and paid.
LEMMA RowExplains ==
    ASSUME Inv, pos' \in Books, status' # "liquidated" => status # "liquidated",
           NEW gained \in Int, NEW funded \in Int, NEW owed \in Int, NEW bought \in Int,
           NEW retained \in Int,
           income' = income + gained, financed' = financed + funded,
           loan'.face + lines' = loan.face + lines + owed,
           pos'[Firm][Loan] = pos[Firm][Loan] - owed,
           pos'[Firm]["CAPITAL"] = pos[Firm]["CAPITAL"] + bought,
           pos'[Firm]["EQ"] = pos[Firm]["EQ"] - retained,
           pos'[Firm][Cash] = pos[Firm][Cash] + gained - funded + owed - bought + retained
    PROVE  Explained'
<1> SUFFICES ASSUME status' # "liquidated"
             PROVE  /\ -pos'[Firm][Loan] = loan'.face + lines'
                    /\ pos'[Firm][Cash] + pos'[Firm]["CAPITAL"] + pos'[Firm][Loan]
                         + pos'[Firm]["EQ"] = income' - financed'
  BY DEF Explained
<1>1. /\ -pos[Firm][Loan] = loan.face + lines
      /\ pos[Firm][Cash] + pos[Firm]["CAPITAL"] + pos[Firm][Loan] + pos[Firm]["EQ"]
           = income - financed
  BY DEF Inv, Explained
<1>2. /\ pos[Firm][Loan] \in Int /\ pos[Firm][Cash] \in Int
      /\ pos[Firm]["CAPITAL"] \in Int /\ pos[Firm]["EQ"] \in Int
      /\ loan.face \in Int /\ lines \in Int /\ income \in Int /\ financed \in Int
  BY Facts, InTheBooks
<1> QED BY <1>1, <1>2

\* An operation that posts to the deposits of the firm what is income or financed.
LEMMA FlowStep ==
    ASSUME Inv, Operate, Active, NEW a \in Entities, NEW b \in Entities, a # b, NEW x \in Nat,
           pos' = Move(pos, a, b, Cash, x), NEW gained \in Int, NEW funded \in Int,
           \/ a = Firm /\ gained - funded = -x
           \/ b = Firm /\ gained - funded = x,
           income' = income + gained, financed' = financed + funded,
           pipeline' \in Seq(Plants), cash' \in Int,
           UNCHANGED <<status, staff, goods, capacity, cell, loan, service,
                       closing, resolution, proceeds, built, lines>>
    PROVE  Inv'
<1>1. pos \in Books /\ Cash \in Instruments /\ Firm \in Entities
  BY Facts, InTheBooks
<1>2. Posted(pos, pos')
  BY <1>1, MovePosted
<1>3. /\ pos'[a][Cash] = pos[a][Cash] - x /\ pos'[b][Cash] = pos[b][Cash] + x
      /\ \A d \in Entities, j \in Instruments :
            (j # Cash \/ d \notin {a, b}) => pos'[d][j] = pos[d][j]
  BY <1>1, MoveFacts
<1>4. pos' \in Books
  BY <1>2 DEF Posted
<1>5. Typed'
  <2>1. income' \in Int /\ financed' \in Int
    <3>1. income \in Int /\ financed \in Int
      BY Facts
    <3> QED BY <3>1
  <2> QED BY <1>4, <2>1, OperateStep DEF Typed, TypeOK, Inv
<1>6. Explained'
  <2>1. /\ pos'[Firm]["EQ"] = pos[Firm]["EQ"] /\ pos[Firm]["EQ"] \in Int
        /\ pos'[Firm]["CAPITAL"] = pos[Firm]["CAPITAL"] /\ pos[Firm]["CAPITAL"] \in Int
        /\ pos'[Firm][Loan] = pos[Firm][Loan] /\ pos[Firm][Loan] \in Int
    BY <1>1, <1>3, InTheBooks, Facts
  <2>2. pos[Firm][Cash] \in Int /\ loan.face \in Int /\ lines \in Int
    BY InTheBooks, Facts
  <2>3. pos'[Firm][Cash] = pos[Firm][Cash] + gained - funded
    BY <1>3, <2>2
  <2>4. /\ loan'.face + lines' = loan.face + lines + 0
        /\ pos'[Firm][Loan] = pos[Firm][Loan] - 0
        /\ pos'[Firm]["CAPITAL"] = pos[Firm]["CAPITAL"] + 0
        /\ pos'[Firm]["EQ"] = pos[Firm]["EQ"] - 0
        /\ pos'[Firm][Cash] = pos[Firm][Cash] + gained - funded + 0 - 0 + 0
    <3>1. loan' = loan /\ lines' = lines /\ gained \in Int /\ funded \in Int
      OBVIOUS
    <3>2. \A i \in Int : i + 0 = i /\ i - 0 = i /\ i + 0 - 0 + 0 = i
      OBVIOUS
    <3>3. loan.face + lines \in Int /\ pos[Firm][Cash] + gained - funded \in Int
      BY <2>2, <3>1
    <3>4. pos'[Firm][Cash] = pos[Firm][Cash] + gained - funded + 0 - 0 + 0
      BY <2>3, <3>2, <3>3, Zenon
    <3> QED BY <2>1, <3>1, <3>2, <3>3, <3>4, Zenon
  <2> QED BY <1>4, <2>4, RowExplains, 0 \in Int
<1>7. Resolved'
  BY StaysOpen DEF Active, Inv, Resolved
<1> QED BY <1>2, <1>5, <1>6, <1>7, StayBalanced
        DEF Inv, CapacityConserved, DrawnWithinCapacity, SeniorityKept

LEMMA FoundStep == ASSUME Inv, Found PROVE Inv'
<1> DEFINE q == Swap(pos, Owner, Firm, "EQ", Capital, Capital)
<1>1. /\ pos' = q /\ pos \in Books /\ Owner \in Entities /\ Firm \in Entities /\ Owner # Firm
      /\ "EQ" \in Instruments /\ "EQ" # Cash /\ Capital \in Int
  BY Facts, InTheBooks, FirmsAssumption DEF Found
<1> HIDE DEF q
<1>2. /\ Posted(pos, q)
      /\ q[Firm]["EQ"] = pos[Firm]["EQ"] - Capital /\ q[Firm][Cash] = pos[Firm][Cash] + Capital
      /\ \A d \in Entities, k \in Instruments :
            (k \notin {"EQ", Cash} \/ d \notin {Owner, Firm}) => q[d][k] = pos[d][k]
  BY <1>1, SwapFacts DEF q
<1>3. pos' \in Books
  BY <1>1, <1>2 DEF Posted
<1>4. /\ status = "none" /\ status' = "active"
      /\ Operate /\ cash' \in Int /\ staff' \in Nat /\ goods' \in Nat /\ goods' =< Inventory
      /\ UNCHANGED <<capacity, pipeline, cell, loan, income, service, closing, resolution, proceeds,
                     built, lines, financed>>
  BY FirmsAssumption DEF Found
<1>5. Typed'
  BY <1>3, <1>4, OperateStep DEF Typed, TypeOK, Inv
<1>6. Explained'
  <2>1. /\ pos[Firm][Loan] \in Int /\ pos[Firm][Cash] \in Int
        /\ pos[Firm]["CAPITAL"] \in Int /\ pos[Firm]["EQ"] \in Int
        /\ loan.face \in Int /\ lines \in Int /\ income \in Int /\ financed \in Int
    BY Facts, InTheBooks
  <2>2. pos'[Firm][Loan] = pos[Firm][Loan] /\ pos'[Firm]["CAPITAL"] = pos[Firm]["CAPITAL"]
    BY <1>1, <1>2, InTheBooks
  <2>3. /\ loan'.face + lines' = loan.face + lines + 0
        /\ income' = income + 0 /\ financed' = financed + 0
        /\ pos'[Firm][Loan] = pos[Firm][Loan] - 0
        /\ pos'[Firm]["CAPITAL"] = pos[Firm]["CAPITAL"] + 0
        /\ pos'[Firm]["EQ"] = pos[Firm]["EQ"] - Capital
        /\ pos'[Firm][Cash] = pos[Firm][Cash] + 0 - 0 + 0 - 0 + Capital
    BY <1>1, <1>2, <1>4, <2>1, <2>2
  <2> QED BY <1>1, <1>3, <1>4, <2>3, RowExplains, 0 \in Int
<1>7. Resolved'
  BY <1>4, StaysOpen
<1> QED BY <1>1, <1>2, <1>4, <1>5, <1>6, <1>7, StayBalanced
        DEF Inv, CapacityConserved, DrawnWithinCapacity, SeniorityKept

\* A share of what is there is there: the price of a part of a plant.
LEMMA PartOf ==
    ASSUME NEW n \in Nat, NEW q \in Nat, NEW c \in Nat, q =< c, c > 0
    PROVE  (n * q) \div c \in 0 .. n
<1> DEFINE m == n * q
           k == m \div c
<1>1. m \in Nat /\ n * c \in Nat /\ m =< n * c
  BY Ordered, Product
<1> HIDE DEF m
<1>2. k \in Nat /\ c * k =< m
  BY <1>1, Quotient
<1> HIDE DEF k
<1>3. c * k \in Nat
  BY <1>2, Product
<1>4. c * k =< n * c
  BY <1>1, <1>2, <1>3
<1>5. k =< n
  BY <1>2, <1>4, Divided
<1> QED BY <1>2, <1>5 DEF m, k

LEMMA BuyStep == ASSUME Inv, NEW q \in Sizes, BuyFromNpc(q) PROVE Inv'
<1> DEFINE paid == (cell.stock * q) \div cell.capacity
           r == Swap(pos, Firm, Npc, "CAPITAL", paid, paid)
<1>1. /\ pos' = r /\ pos \in Books /\ Npc \in Entities /\ Firm \in Entities /\ Npc # Firm
      /\ "CAPITAL" \in Instruments /\ "CAPITAL" # Cash
  BY Facts, InTheBooks DEF BuyFromNpc
<1>2. /\ cell'.capacity = cell.capacity - q /\ cell'.stock = cell.stock - paid
      /\ capacity' = capacity + q /\ cash' = cash - paid /\ q =< cell.capacity
      /\ UNCHANGED <<status, staff, goods, pipeline, loan, income, service, closing, resolution, proceeds,
                     built, lines, financed>>
      /\ Operate /\ Active
  BY DEF BuyFromNpc
<1>3. q \in Nat \ {0} /\ cell.capacity \in Nat /\ cell.stock \in Nat /\ capacity \in Nat /\ cash \in Int
  BY Facts, FirmsAssumption
<1>4. paid \in 0 .. cell.stock
  <2>1. cell.capacity > 0
    BY <1>2, <1>3
  <2> QED BY <1>2, <1>3, <2>1, PartOf
<1> HIDE DEF r, paid
<1>5. /\ Posted(pos, r)
      /\ r[Firm]["CAPITAL"] = pos[Firm]["CAPITAL"] + paid /\ r[Firm][Cash] = pos[Firm][Cash] - paid
      /\ \A d \in Entities, k \in Instruments :
            (k \notin {"CAPITAL", Cash} \/ d \notin {Firm, Npc}) => r[d][k] = pos[d][k]
  <2>1. paid \in Int
    BY <1>3, <1>4
  <2> QED BY <1>1, <2>1, SwapFacts DEF r
<1>6. /\ pos' \in Books /\ paid \in Int /\ cash' \in Int
      /\ cell'.capacity \in Nat /\ cell'.stock \in Nat /\ capacity' \in Nat
  BY <1>1, <1>2, <1>3, <1>4, <1>5 DEF Posted
<1>7. Typed'
  BY <1>2, <1>6, OperateStep DEF Typed, TypeOK, Inv
<1>8. Explained'
  <2>1. /\ pos[Firm][Loan] \in Int /\ pos[Firm][Cash] \in Int
        /\ pos[Firm]["CAPITAL"] \in Int /\ pos[Firm]["EQ"] \in Int
        /\ loan.face \in Int /\ lines \in Int /\ income \in Int /\ financed \in Int
    BY Facts, InTheBooks
  <2>2. pos'[Firm][Loan] = pos[Firm][Loan] /\ pos'[Firm]["EQ"] = pos[Firm]["EQ"]
    BY <1>1, <1>5, InTheBooks
  <2>3. /\ loan'.face + lines' = loan.face + lines + 0
        /\ income' = income + 0 /\ financed' = financed + 0
        /\ pos'[Firm][Loan] = pos[Firm][Loan] - 0
        /\ pos'[Firm]["CAPITAL"] = pos[Firm]["CAPITAL"] + paid
        /\ pos'[Firm]["EQ"] = pos[Firm]["EQ"] - 0
        /\ pos'[Firm][Cash] = pos[Firm][Cash] + 0 - 0 + 0 - paid + 0
    BY <1>1, <1>2, <1>5, <1>6, <2>1, <2>2
  <2> QED BY <1>2, <1>6, <2>3, RowExplains, 0 \in Int
<1>9. CapacityConserved'
  BY <1>2, <1>3 DEF CapacityConserved, Inv
<1>10. Resolved'
  BY <1>2, StaysOpen DEF Active, Inv, Resolved
<1> QED BY <1>1, <1>2, <1>5, <1>7, <1>8, <1>9, <1>10, StayBalanced
        DEF Inv, DrawnWithinCapacity, SeniorityKept

LEMMA GreenfieldStep == ASSUME Inv, NEW q \in Sizes, StartGreenfield(q) PROVE Inv'
<1> DEFINE x == UnitCost * q
           factory == [months |-> BuildLag, size |-> q]
<1>1. /\ pos' = Move(pos, Firm, Npc, Cash, x) /\ cash' = cash - x /\ income' = income - x
      /\ Operate /\ Active /\ financed' = financed /\ pipeline' = Append(pipeline, factory)
      /\ UNCHANGED <<status, staff, goods, capacity, cell, loan, service, closing, resolution, proceeds,
                     built, lines>>
  BY DEF StartGreenfield
<1>2. x \in Nat /\ factory \in Plants
  <2>1. UnitCost \in Nat /\ q \in Nat /\ BuildLag \in Nat \ {0}
    BY FirmsAssumption
  <2> QED BY <2>1, Product DEF Plants
<1> HIDE DEF x, factory
<1>3. pipeline' \in Seq(Plants)
  <2>1. pipeline \in Seq(Plants)
    BY Facts
  <2> QED BY <1>1, <1>2, <2>1
<1>4. /\ cash' \in Int /\ -x \in Int /\ -x - 0 = -x
      /\ income' = income + (-x) /\ financed' = financed + 0
  <2>1. cash \in Int /\ income \in Int /\ financed \in Int
    BY Facts
  <2> QED BY <1>1, <1>2, <2>1
<1>5. Firm \in Entities /\ Npc \in Entities /\ Firm # Npc /\ 0 \in Int
  BY InTheBooks
<1> QED BY <1>1, <1>2, <1>3, <1>4, <1>5, FlowStep

LEMMA TradeStep == ASSUME Inv, Trade PROVE Inv'
<1>1. /\ Operate /\ Active /\ financed' = financed /\ pipeline' = pipeline /\ cash' = cash
      /\ UNCHANGED <<status, staff, goods, capacity, cell, loan, service, closing, resolution, proceeds,
                     built, lines>>
  BY DEF Trade
<1>2. /\ cash' \in Int /\ income \in Int /\ financed \in Int /\ pipeline' \in Seq(Plants)
      /\ financed' = financed + 0
  <2>1. cash \in Int /\ income \in Int /\ financed \in Int /\ pipeline \in Seq(Plants)
    BY Facts
  <2> QED BY <1>1, <2>1
<1>3. CASE \E x \in Sales : Earn(x)
  <2>1. PICK x \in Sales : Earn(x)
    BY <1>3
  <2>2. x \in Nat /\ Owner \in Entities /\ Firm \in Entities /\ Owner # Firm
    BY FirmsAssumption, InTheBooks
  <2>3. pos' = Move(pos, Owner, Firm, Cash, x) /\ income' = income + x /\ x - 0 = x
        /\ x \in Int /\ 0 \in Int
    BY <2>1, <2>2 DEF Earn, Flow
  <2> QED BY <1>1, <1>2, <2>2, <2>3, FlowStep
<1>4. ASSUME NEW to \in Entities, to # Firm, NEW x \in Nat, Pay(to, x)
      PROVE  Inv'
  <2>1. pos' = Move(pos, Firm, to, Cash, x) /\ income' = income + (-x) /\ -x \in Int
        /\ -x - 0 = -x /\ 0 \in Int /\ Firm \in Entities
    BY <1>4, InTheBooks DEF Pay, Flow
  <2> QED BY <1>1, <1>2, <1>4, <2>1, FlowStep
<1>5. CASE \E x \in Wages : Pay(Owner, x)
  BY <1>4, <1>5, InTheBooks, FirmsAssumption
<1>6. CASE \E x \in Fines : Pay(Govt, x)
  BY <1>4, <1>6, InTheBooks, FirmsAssumption
<1> QED BY <1>3, <1>5, <1>6 DEF Trade

LEMMA DividendStep == ASSUME Inv, NEW x \in Dividends, PayDividend(x) PROVE Inv'
<1>1. /\ pos' = Move(pos, Firm, Owner, Cash, x) /\ financed' = financed + x
      /\ Operate /\ Active /\ income' = income /\ pipeline' = pipeline /\ cash' = cash
      /\ UNCHANGED <<status, staff, goods, capacity, cell, loan, service, closing, resolution, proceeds,
                     built, lines>>
  BY DEF PayDividend
<1>2. x \in Nat /\ Owner \in Entities /\ Firm \in Entities /\ Owner # Firm
  BY FirmsAssumption, InTheBooks
<1>3. /\ cash' \in Int /\ income' = income + 0 /\ pipeline' \in Seq(Plants)
      /\ 0 - x = -x /\ x \in Int /\ 0 \in Int
  <2>1. cash \in Int /\ income \in Int /\ pipeline \in Seq(Plants)
    BY Facts
  <2> QED BY <1>1, <1>2, <2>1
<1> QED BY <1>1, <1>2, <1>3, FlowStep

LEMMA CloseStep == ASSUME Inv, CloseMonth PROVE Inv'
<1>1. /\ pos' = Move(pos, Firm, Owner, "EQ", income) /\ income' = 0
      /\ Operate /\ Active
      /\ closing'.financed = financed
      /\ closing'.outcome = IF Identity' THEN "kept" ELSE "refused"
      /\ UNCHANGED <<status, cash, staff, goods, capacity, pipeline, cell, loan, service,
                     resolution, proceeds, built, lines, financed>>
  BY DEF CloseMonth
<1>2. /\ pos[Firm][Loan] \in Int /\ pos[Firm][Cash] \in Int
      /\ pos[Firm]["CAPITAL"] \in Int /\ pos[Firm]["EQ"] \in Int
      /\ loan.face \in Int /\ lines \in Int /\ income \in Int /\ financed \in Int
      /\ pos \in Books
  BY Facts, InTheBooks
<1>3. Posted(pos, pos')
  BY <1>1, <1>2, InTheBooks, MovePosted
<1>4. /\ pos'[Firm]["EQ"] = pos[Firm]["EQ"] - income
      /\ \A d \in Entities, k \in Instruments : k # "EQ" => pos'[d][k] = pos[d][k]
  <2>1. Owner \in Entities /\ Firm \in Entities /\ Firm # Owner /\ "EQ" \in Instruments
    BY InTheBooks
  <2>2. /\ Move(pos, Firm, Owner, "EQ", income)[Firm]["EQ"] = pos[Firm]["EQ"] - income
        /\ \A d \in Entities, k \in Instruments :
              (k # "EQ" \/ d \notin {Firm, Owner})
                => Move(pos, Firm, Owner, "EQ", income)[d][k] = pos[d][k]
    BY <1>2, <2>1, MoveFacts
  <2> QED BY <1>1, <2>2
<1>5. pos' \in Books
  BY <1>3 DEF Posted
<1>6. Typed'
  <2>1. TypeOK'
    BY <1>1, OperateStep DEF Typed, TypeOK, Inv
  <2> QED BY <1>1, <1>5, <2>1 DEF Typed, Inv
<1>7. Explained'
  <2>1. /\ pos'[Firm][Loan] = pos[Firm][Loan] /\ pos'[Firm][Cash] = pos[Firm][Cash]
        /\ pos'[Firm]["CAPITAL"] = pos[Firm]["CAPITAL"]
    BY <1>4, InTheBooks
  <2>2. /\ loan'.face + lines' = loan.face + lines + 0
        /\ income' = income + (-income) /\ financed' = financed + 0
        /\ pos'[Firm][Loan] = pos[Firm][Loan] - 0
        /\ pos'[Firm]["CAPITAL"] = pos[Firm]["CAPITAL"] + 0
        /\ pos'[Firm][Cash] = pos[Firm][Cash] + (-income) - 0 + 0 - 0 + income
        /\ -income \in Int
    BY <1>1, <1>2, <2>1
  <2> QED BY <1>1, <1>2, <1>4, <1>5, <2>2, RowExplains, 0 \in Int
<1>8. Identity' <=> financed = 0
  <2>1. /\ -pos'[Firm][Loan] = loan'.face + lines'
        /\ pos'[Firm][Cash] + pos'[Firm]["CAPITAL"] + pos'[Firm][Loan] + pos'[Firm]["EQ"]
             = income' - financed'
    BY <1>1, <1>7 DEF Explained, Active
  <2>2. /\ pos'[Firm][Loan] \in Int /\ pos'[Firm][Cash] \in Int
        /\ pos'[Firm]["CAPITAL"] \in Int /\ pos'[Firm]["EQ"] \in Int
        /\ loan'.face \in Nat /\ lines' \in Nat
    BY <1>5, <1>6, InTheBooks DEF Books, Typed, TypeOK
  <2> DEFINE m == pos'[Firm][Cash]
             k == pos'[Firm]["CAPITAL"]
             l == pos'[Firm][Loan]
             e == pos'[Firm]["EQ"]
  <2>3. Debt' = -pos'[Firm][Loan]
    BY <2>1, <2>2 DEF Debt, AtLeast0
  <2>4. Assets' = pos'[Firm][Cash] + pos'[Firm]["CAPITAL"] /\ Book' = -pos'[Firm]["EQ"]
    BY DEF Assets, Book
  <2>5. Identity' <=> m + k = -l - e
    BY <2>3, <2>4 DEF Identity
  <2>6. m + k + l + e = 0 - financed /\ income' = 0
    BY <1>1, <1>2, <2>1
  <2>7. m \in Int /\ k \in Int /\ l \in Int /\ e \in Int /\ financed \in Int
    BY <1>2, <2>2
  <2> HIDE DEF m, k, l, e
  <2> QED BY <2>5, <2>6, <2>7
<1>9. Resolved'
  <2>1. RefusedWhenFinanced'
    BY <1>1, <1>8 DEF RefusedWhenFinanced
  <2> QED BY <1>1, <2>1 DEF Active, Inv, Resolved
<1> QED BY <1>1, <1>3, <1>6, <1>7, <1>9, StayBalanced
        DEF Inv, CapacityConserved, DrawnWithinCapacity, SeniorityKept

LEMMA DrawKeeps == ASSUME Inv, DrawTerm PROVE Inv'
<1> DEFINE q == Lend(pos, Bank, Firm, Face)
<1>1. /\ pos' = q /\ income' = income + Face /\ financed' = financed + Face
      /\ Operate /\ Active
      /\ loan.face = 0 /\ loan'.face = Face /\ loan'.remaining = Tenor
      /\ UNCHANGED <<status, cash, staff, goods, capacity, pipeline, cell, service, closing, resolution, proceeds,
                     built, lines>>
  BY DEF DrawTerm
<1>2. /\ pos[Firm][Loan] \in Int /\ pos[Firm][Cash] \in Int
      /\ pos[Firm]["CAPITAL"] \in Int /\ pos[Firm]["EQ"] \in Int
      /\ loan.face \in Int /\ lines \in Int /\ income \in Int /\ financed \in Int
      /\ pos \in Books /\ Face \in Nat /\ Tenor \in 0 .. Tenor
  BY Facts, InTheBooks, FirmsAssumption
<1> HIDE DEF q
<1>3. /\ Posted(pos, q)
      /\ q[Firm][Loan] = pos[Firm][Loan] - Face /\ q[Firm][Cash] = pos[Firm][Cash] + Face
      /\ \A d \in Entities, k \in Instruments :
            (k \notin {Loan, Cash} \/ d \notin {Bank, Firm}) => q[d][k] = pos[d][k]
  <2>1. Bank \in Entities /\ Firm \in Entities /\ Bank # Firm /\ Face \in Int
    BY <1>2, InTheBooks
  <2> QED BY <1>2, <2>1, LendFacts DEF q
<1>4. pos' \in Books /\ income' \in Int /\ financed' \in Int
  BY <1>1, <1>2, <1>3 DEF Posted
<1>5. Typed'
  <2>1. TypeOK'
    BY <1>1, <1>2, OperateStep DEF Typed, TypeOK, Inv
  <2> QED BY <1>1, <1>4, <2>1 DEF Typed, Inv
<1>6. Explained'
  <2>1. pos'[Firm]["EQ"] = pos[Firm]["EQ"] /\ pos'[Firm]["CAPITAL"] = pos[Firm]["CAPITAL"]
    BY <1>1, <1>3, InTheBooks
  <2>2. /\ loan'.face + lines' = loan.face + lines + Face
        /\ pos'[Firm][Loan] = pos[Firm][Loan] - Face
        /\ pos'[Firm]["CAPITAL"] = pos[Firm]["CAPITAL"] + 0
        /\ pos'[Firm]["EQ"] = pos[Firm]["EQ"] - 0
        /\ pos'[Firm][Cash] = pos[Firm][Cash] + Face - Face + Face - 0 + 0
    BY <1>1, <1>2, <1>3, <2>1
  <2> QED BY <1>1, <1>2, <1>4, <2>2, RowExplains, 0 \in Int
<1>7. Resolved'
  BY <1>1, StaysOpen DEF Active, Inv, Resolved
<1> QED BY <1>1, <1>3, <1>5, <1>6, <1>7, StayBalanced
        DEF Inv, CapacityConserved, DrawnWithinCapacity, SeniorityKept

-----------------------------------------------------------------------------
(* A month of the plants. *)

Building(f, s) ==
    f = [k \in 0 .. Len(s) |-> IF k = 0 THEN << >> ELSE Aged(f[k - 1], s[k])]
Counting(f, s) ==
    f = [k \in 0 .. Len(s) |-> IF k = 0 THEN 0 ELSE f[k - 1] + Finished(s[k])]

LEMMA AgedTyped ==
    ASSUME NEW r \in Seq(Plants), NEW x \in Plants
    PROVE  Aged(r, x) \in Seq(Plants)
<1>1. x.months > 1 => [months |-> x.months - 1, size |-> x.size] \in Plants
  BY DEF Plants
<1> QED BY <1>1 DEF Aged

\* What is still being built has the type of what was.
LEMMA RestTyped ==
    ASSUME NEW s \in Seq(Plants)
    PROVE  (CHOOSE f : Building(f, s))[Len(s)] \in Seq(Plants)
<1> DEFINE N == Len(s)
           Step == [k \in 1 .. N |-> [r \in Seq(Plants) |-> Aged(r, s[k])]]
           c == CHOOSE f : Building(f, s)
<1>1. N \in Nat /\ << >> \in Seq(Plants) /\ Step \in [1 .. N -> [Seq(Plants) -> Seq(Plants)]]
  <2>1. \A k \in 1 .. N : s[k] \in Plants
    OBVIOUS
  <2>2. \A k \in 1 .. N, r \in Seq(Plants) : Aged(r, s[k]) \in Seq(Plants)
    BY <2>1, AgedTyped
  <2> QED BY <2>2
<1>2. \A k \in 1 .. N, r \in Seq(Plants) : Step[k][r] = Aged(r, s[k])
  OBVIOUS
<1> HIDE DEF Step
<1>3. PICK f \in [0 .. N -> Seq(Plants)] : Iterates(f, N, << >>, Step)
  <2> HIDE DEF N
  <2> QED BY <1>1, IterationExists
<1>4. Building(f, s)
  <2> DEFINE g == [k \in 0 .. N |-> IF k = 0 THEN << >> ELSE Aged(f[k - 1], s[k])]
  <2>1. \A k \in 0 .. N : f[k] = IF k = 0 THEN << >> ELSE Aged(f[k - 1], s[k])
    <3>0. f[0] = << >> /\ \A k \in 0 .. N : k = 0 \/ k \in 1 .. N
      BY <1>3 DEF Iterates
    <3> SUFFICES ASSUME NEW k \in 1 .. N PROVE f[k] = Aged(f[k - 1], s[k])
      BY <3>0
    <3>1. f[k] = Step[k][f[k - 1]] /\ f[k - 1] \in Seq(Plants)
      BY <1>3 DEF Iterates
    <3> QED BY <1>2, <3>1
  <2>2. \A k \in 0 .. N : g[k] = IF k = 0 THEN << >> ELSE Aged(f[k - 1], s[k])
    OBVIOUS
  <2>3. g = [k \in 0 .. N |-> g[k]] /\ f = [k \in 0 .. N |-> f[k]]
    OBVIOUS
  <2> HIDE DEF g
  <2>4. f = g
    BY <2>1, <2>2, <2>3
  <2> QED BY <2>4 DEF g, Building
<1>5. Building(c, s)
  BY <1>4
<1> HIDE DEF c
<1>6. c[0] = << >> /\ \A k \in 1 .. N : c[k] = Aged(c[k - 1], s[k])
  BY <1>5 DEF Building
<1>7. \A k \in 0 .. N : c[k] \in Seq(Plants)
  <2>1. c[0] = << >> /\ \A k \in 1 .. N : c[k - 1] \in Seq(Plants) => c[k] = Step[k][c[k - 1]]
    BY <1>2, <1>6
  <2> HIDE DEF N
  <2> QED BY <1>1, <2>1, IterationTyped
<1> QED BY <1>1, <1>7 DEF c

\* The capacity that is finished is a number.
LEMMA DoneTyped ==
    ASSUME NEW s \in Seq(Plants)
    PROVE  (CHOOSE f : Counting(f, s))[Len(s)] \in Nat
<1> DEFINE N == Len(s)
           Step == [k \in 1 .. N |-> [r \in Nat |-> r + Finished(s[k])]]
           c == CHOOSE f : Counting(f, s)
<1>1. N \in Nat /\ Step \in [1 .. N -> [Nat -> Nat]]
  <2>1. \A x \in Plants : Finished(x) \in Nat
    BY DEF Finished, Plants
  <2>2. \A k \in 1 .. N : s[k] \in Plants
    OBVIOUS
  <2>3. \A k \in 1 .. N : Finished(s[k]) \in Nat
    BY <2>1, <2>2
  <2> QED BY <2>3
<1>2. \A k \in 1 .. N, r \in Nat : Step[k][r] = r + Finished(s[k])
  OBVIOUS
<1> HIDE DEF Step
<1>3. PICK f \in [0 .. N -> Nat] : Iterates(f, N, 0, Step)
  <2> HIDE DEF N
  <2> QED BY <1>1, IterationExists
<1>4. Counting(f, s)
  <2> DEFINE g == [k \in 0 .. N |-> IF k = 0 THEN 0 ELSE f[k - 1] + Finished(s[k])]
  <2>1. \A k \in 0 .. N : f[k] = IF k = 0 THEN 0 ELSE f[k - 1] + Finished(s[k])
    <3> SUFFICES ASSUME NEW k \in 1 .. N PROVE f[k] = f[k - 1] + Finished(s[k])
      BY <1>3 DEF Iterates
    <3>1. f[k] = Step[k][f[k - 1]] /\ f[k - 1] \in Nat
      BY <1>3 DEF Iterates
    <3> QED BY <1>2, <3>1
  <2>2. \A k \in 0 .. N : g[k] = IF k = 0 THEN 0 ELSE f[k - 1] + Finished(s[k])
    OBVIOUS
  <2>3. g = [k \in 0 .. N |-> g[k]] /\ f = [k \in 0 .. N |-> f[k]]
    OBVIOUS
  <2> HIDE DEF g
  <2>4. f = g
    BY <2>1, <2>2, <2>3
  <2> QED BY <2>4 DEF g, Counting
<1>5. Counting(c, s)
  BY <1>4
<1> HIDE DEF c
<1>6. c[0] = 0 /\ \A k \in 1 .. N : c[k] = c[k - 1] + Finished(s[k])
  BY <1>5 DEF Counting
<1>7. \A k \in 0 .. N : c[k] \in Nat
  <2>1. c[0] = 0 /\ \A k \in 1 .. N : c[k - 1] \in Nat => c[k] = Step[k][c[k - 1]]
    BY <1>2, <1>6
  <2> HIDE DEF N
  <2> QED BY <1>1, <2>1, IterationTyped, 0 \in Nat, Zenon
<1> QED BY <1>1, <1>7 DEF c

LEMMA MonthStep == ASSUME Inv, NextMonth PROVE Inv'
<1> DEFINE rest == CHOOSE f : Building(f, pipeline)
           done == CHOOSE f : Counting(f, pipeline)
           sum == done[Len(pipeline)]
<1>1. /\ pipeline' = rest[Len(pipeline)]
      /\ capacity' = capacity + sum /\ built' = built + sum
  BY Zenon DEF NextMonth, Building, Counting
<1>2. /\ month < MaxMonth /\ month' = month + 1
      /\ UNCHANGED <<ops, pos, status, cash, staff, goods, cell, loan, income, service,
                     closing, resolution, proceeds, lines, financed>>
  BY DEF NextMonth
<1>3. pipeline' \in Seq(Plants) /\ sum \in Nat
  <2>1. pipeline \in Seq(Plants)
    BY Facts
  <2> QED BY <1>1, <2>1, RestTyped, DoneTyped
<1> HIDE DEF rest, sum
<1>4. /\ capacity \in Nat /\ built \in Nat /\ cell.capacity \in Nat /\ month \in Nat
      /\ Cell0.capacity \in Nat /\ MaxMonth \in Nat
  BY Facts, FirmsAssumption
<1>5. TypeOK'
  BY <1>1, <1>2, <1>3, <1>4 DEF Inv, Typed, TypeOK
<1>6. Typed'
  BY <1>2, <1>3, <1>5 DEF Inv, Typed
<1>7. CapacityConserved'
  <2>1. cell.capacity + capacity = Cell0.capacity + built
    BY DEF Inv, CapacityConserved
  <2>2. cell'.capacity + capacity' = Cell0.capacity + built'
    BY <1>1, <1>2, <1>3, <1>4, <2>1
  <2> QED BY <2>2 DEF CapacityConserved
<1>8. Resolved'
  BY <1>2 DEF Inv, Resolved, Lost, PaidOut, CashlessBounded, RefusedWhenFinanced
<1> QED BY <1>2, <1>6, <1>7, <1>8
        DEF Inv, Balanced, Explained, DrawnWithinCapacity, SeniorityKept

-----------------------------------------------------------------------------
(* The budget. *)

Paying(f, money, line, bills) ==
    f = [k \in 0 .. Len(bills) |->
            IF k = 0 THEN money + line ELSE f[k - 1] - Least(AtLeast0(bills[k]), f[k - 1])]

\* The pocket, bill by bill.
LEMMA ScaleFacts ==
    ASSUME NEW money \in Int, NEW line \in Int, NEW bills \in Seq(Int)
    PROVE  \E f \in [0 .. Len(bills) -> Int] :
              /\ f[0] = money + line
              /\ \A k \in 1 .. Len(bills) :
                    /\ f[k] = f[k - 1] - Least(AtLeast0(bills[k]), f[k - 1])
                    /\ ScalePayments(money, line, bills).paid[k]
                         = Least(AtLeast0(bills[k]), f[k - 1])
              /\ ScalePayments(money, line, bills).cash = f[Len(bills)] - line
<1> DEFINE N == Len(bills)
           b == money + line
           Step == [k \in 1 .. N |-> [r \in Int |-> r - Least(AtLeast0(bills[k]), r)]]
           c == CHOOSE f : Paying(f, money, line, bills)
<1>1. N \in Nat /\ b \in Int /\ Step \in [1 .. N -> [Int -> Int]]
  <2>1. \A x \in Int, r \in Int : r - Least(AtLeast0(x), r) \in Int
    BY DEF Least, AtLeast0
  <2>2. \A k \in 1 .. N : bills[k] \in Int
    OBVIOUS
  <2>3. \A k \in 1 .. N, r \in Int : r - Least(AtLeast0(bills[k]), r) \in Int
    BY <2>1, <2>2
  <2>4. N \in Nat /\ b \in Int
    OBVIOUS
  <2>5. Step \in [1 .. N -> [Int -> Int]]
    <3> HIDE DEF N
    <3> QED BY <2>3, Zenon
  <2> QED BY <2>4, <2>5
<1>2. \A k \in 1 .. N, r \in Int : Step[k][r] = r - Least(AtLeast0(bills[k]), r)
  OBVIOUS
<1> HIDE DEF Step
<1>3. PICK f \in [0 .. N -> Int] : Iterates(f, N, b, Step)
  <2> HIDE DEF N, b
  <2> QED BY <1>1, IterationExists
<1>4. Paying(f, money, line, bills)
  <2> DEFINE g == [k \in 0 .. N |->
                     IF k = 0 THEN b ELSE f[k - 1] - Least(AtLeast0(bills[k]), f[k - 1])]
  <2>1. \A k \in 0 .. N :
          f[k] = IF k = 0 THEN b ELSE f[k - 1] - Least(AtLeast0(bills[k]), f[k - 1])
    <3> SUFFICES ASSUME NEW k \in 1 .. N
                 PROVE  f[k] = f[k - 1] - Least(AtLeast0(bills[k]), f[k - 1])
      BY <1>3 DEF Iterates
    <3>1. f[k] = Step[k][f[k - 1]] /\ f[k - 1] \in Int
      BY <1>3 DEF Iterates
    <3> QED BY <1>2, <3>1
  <2>2. \A k \in 0 .. N :
          g[k] = IF k = 0 THEN b ELSE f[k - 1] - Least(AtLeast0(bills[k]), f[k - 1])
    OBVIOUS
  <2>3. g = [k \in 0 .. N |-> g[k]] /\ f = [k \in 0 .. N |-> f[k]]
    OBVIOUS
  <2> HIDE DEF g
  <2>4. f = g
    BY <2>1, <2>2, <2>3
  <2> QED BY <2>4 DEF g, Paying
<1>5. Paying(c, money, line, bills)
  BY <1>4
<1>6. ScalePayments(money, line, bills)
        = [paid |-> [k \in DOMAIN bills |-> Least(AtLeast0(bills[k]), c[k - 1])],
           cash |-> c[N] - line]
  BY Zenon DEF ScalePayments, Paying
<1> HIDE DEF c
<1>7. /\ c[0] = b /\ DOMAIN c = 0 .. N /\ c = [k \in 0 .. N |-> c[k]]
      /\ \A k \in 1 .. N : c[k] = c[k - 1] - Least(AtLeast0(bills[k]), c[k - 1])
  <2> DEFINE h == [k \in 0 .. N |->
                     IF k = 0 THEN b ELSE c[k - 1] - Least(AtLeast0(bills[k]), c[k - 1])]
  <2>1. c = h
    BY <1>5 DEF Paying
  <2>2. /\ DOMAIN h = 0 .. N /\ h = [k \in 0 .. N |-> h[k]] /\ h[0] = b
        /\ \A k \in 1 .. N : h[k] = c[k - 1] - Least(AtLeast0(bills[k]), c[k - 1])
    OBVIOUS
  <2> HIDE DEF h
  <2> QED BY <2>1, <2>2
<1>8. \A k \in 0 .. N : c[k] \in Int
  <2>1. c[0] = b /\ \A k \in 1 .. N : c[k - 1] \in Int => c[k] = Step[k][c[k - 1]]
    BY <1>2, <1>7
  <2> HIDE DEF N, b
  <2> QED BY <1>1, <2>1, IterationTyped, Zenon
<1>9. c \in [0 .. N -> Int]
  BY <1>7, <1>8
<1>10. \A k \in 1 .. N :
          ScalePayments(money, line, bills).paid[k] = Least(AtLeast0(bills[k]), c[k - 1])
  BY <1>6
<1>11. ScalePayments(money, line, bills).cash = c[N] - line
  BY <1>6
<1> QED BY <1>7, <1>9, <1>10, <1>11

\* However many bills there are, paying them does not take the cash below the line
\* (fuzz_never_below_line, financing.py:127): not even a pocket that is overdrawn.
THEOREM NeverBelowLine ==
    ASSUME NEW money \in Int, NEW line \in Nat, NEW bills \in Seq(Int), bills # << >>
    PROVE  ScalePayments(money, line, bills).cash >= -line
<1>1. PICK f \in [0 .. Len(bills) -> Int] :
        /\ f[0] = money + line
        /\ \A k \in 1 .. Len(bills) :
              /\ f[k] = f[k - 1] - Least(AtLeast0(bills[k]), f[k - 1])
              /\ ScalePayments(money, line, bills).paid[k]
                   = Least(AtLeast0(bills[k]), f[k - 1])
        /\ ScalePayments(money, line, bills).cash = f[Len(bills)] - line
  <2>1. line \in Int /\ bills \in Seq(Int) /\ money \in Int
    OBVIOUS
  <2> QED BY <2>1, ScaleFacts, Zenon
<1>2. Len(bills) \in Nat \ {0} /\ Len(bills) \in 1 .. Len(bills)
  OBVIOUS
<1>3. bills[Len(bills)] \in Int /\ f[Len(bills) - 1] \in Int
  BY <1>2
<1>4. f[Len(bills)] >= 0
  <2>1. f[Len(bills)] = f[Len(bills) - 1] - Least(AtLeast0(bills[Len(bills)]), f[Len(bills) - 1])
    BY <1>1, <1>2
  <2> QED BY <1>3, <2>1 DEF Least, AtLeast0
<1> QED BY <1>1, <1>2, <1>4

\* The arithmetic of a service: one bill or two, i and f, out of the money and the rest
\* of the lines.
LEMMA ServiceArithmetic ==
    \A money \in Int, rest \in Nat, i \in Nat, f \in Nat : \A paid1, paid2, drawn :
        /\ paid1 = Least(AtLeast0(i), money + rest)
        /\ paid2 \in {0, Least(AtLeast0(f), money + rest - paid1)}
        /\ drawn = Least(AtLeast0(AtLeast0(-(money - paid1 - paid2)) - AtLeast0(-money)), rest)
        => /\ drawn \in 0 .. rest /\ AtLeast0(paid1) \in Nat /\ AtLeast0(paid2) \in 0 .. f
           /\ money + drawn - AtLeast0(paid2) - AtLeast0(paid1) >= Least(money, 0)
<1> TAKE money \in Int, rest \in Nat, i \in Nat, f \in Nat
<1> TAKE paid1, paid2, drawn
<1> HAVE /\ paid1 = Least(AtLeast0(i), money + rest)
         /\ paid2 \in {0, Least(AtLeast0(f), money + rest - paid1)}
         /\ drawn = Least(AtLeast0(AtLeast0(-(money - paid1 - paid2)) - AtLeast0(-money)), rest)
<1>1. CASE money + rest < 0
  <2>1. paid1 = money + rest /\ paid2 = 0
    BY <1>1 DEF Least, AtLeast0
  <2>2. drawn = 0
    BY <1>1, <2>1 DEF Least, AtLeast0
  <2> QED BY <1>1, <2>1, <2>2 DEF Least, AtLeast0
<1>2. CASE money + rest >= 0
  <2>1. paid1 \in 0 .. i /\ money + rest - paid1 \in Nat
    BY <1>2 DEF Least, AtLeast0
  <2>2. paid2 \in 0 .. f /\ money + rest - paid1 - paid2 \in Nat
    BY <2>1 DEF Least, AtLeast0
  <2>3. AtLeast0(paid1) = paid1 /\ AtLeast0(paid2) = paid2
    BY <2>1, <2>2 DEF AtLeast0
  <2>4. CASE money >= 0
    <3>1. drawn = AtLeast0(paid1 + paid2 - money)
      BY <2>1, <2>2, <2>4 DEF Least, AtLeast0
    <3>2. paid1 + paid2 - money =< rest
      BY <2>1, <2>2
    <3> QED BY <2>1, <2>2, <2>3, <2>4, <3>1, <3>2 DEF Least, AtLeast0
  <2>5. CASE money < 0
    <3>1. drawn = paid1 + paid2
      BY <2>1, <2>2, <2>5 DEF Least, AtLeast0
    <3> QED BY <2>1, <2>2, <2>3, <2>5, <3>1 DEF Least
  <2> QED BY <2>4, <2>5
<1> QED BY <1>1, <1>2

\* What the deposits of the firm may not do, in one step.
KeepsBudget == service' # service => pos'[Firm][Cash] >= Least(pos[Firm][Cash], 0)

LEMMA ServiceStep ==
    ASSUME Inv, NEW u \in Committed, NEW v \in Uncommitted, NEW breach \in BOOLEAN,
           Service(u, v, breach)
    PROVE  Inv' /\ KeepsBudget
<1> DEFINE total == IF breach THEN 0 ELSE u + v
           left == AtLeast0(loan.remaining - 1)
           matured == left = 0
           rolls == matured /\ total >= loan.face
           rest == Leftover(total, rolls)
           bills == <<Interest(loan)>> \o (IF matured /\ ~rolls THEN <<loan.face>> ELSE << >>)
           money == pos[Firm][Cash]
           budget == ScalePayments(money, rest, bills)
           over == AtLeast0(-budget.cash) - AtLeast0(-money)
           drawn == Least(AtLeast0(over), rest)
           interest == AtLeast0(budget.paid[1])
           principal == IF Len(bills) = 2 THEN AtLeast0(budget.paid[2]) ELSE 0
           q1 == Lend(pos, Bank, Firm, drawn)
           q2 == Refund(q1, Firm, Bank, principal)
<1>1. /\ Operate /\ Active /\ pos' = Move(q2, Firm, Bank, Cash, interest)
      /\ loan'.face = loan.face - principal
      /\ loan'.remaining = IF rolls THEN Tenor ELSE left
      /\ income' = income + drawn - principal - interest
      /\ financed' = financed + drawn - principal
      /\ lines' = lines + drawn
      /\ service'.drawn = drawn + (IF rolls THEN loan.face ELSE 0)
      /\ service'.limit = total
      /\ UNCHANGED <<status, cash, staff, goods, capacity, pipeline, cell,
                     closing, resolution, proceeds, built>>
  BY DEF Service, FaceLeft
<1>2. /\ pos \in Books /\ money \in Int /\ loan.face \in Nat /\ loan.remaining \in 0 .. Tenor
      /\ lines \in Nat /\ income \in Int /\ financed \in Int
      /\ pos[Firm][Loan] \in Int /\ pos[Firm]["EQ"] \in Int /\ pos[Firm]["CAPITAL"] \in Int
  BY Facts, InTheBooks
<1>3. total \in Nat /\ Tenor \in Nat \ {0}
  BY FirmsAssumption
<1> HIDE DEF total
<1>4. left \in 0 .. Tenor
  BY <1>2, <1>3 DEF AtLeast0
<1> HIDE DEF left
<1>5. /\ rest \in Nat
      /\ rest + (IF rolls THEN loan.face ELSE 0) =< total
  BY <1>2, <1>3 DEF Leftover, AtLeast0
<1>6. Interest(loan) \in Nat
  <2>1. loan.face * Rate \in Nat
    BY <1>2, Product, FirmsAssumption
  <2> QED BY <2>1, Quotient DEF Interest
<1>7. /\ bills \in Seq(Int) /\ bills[1] = Interest(loan)
      /\ \/ Len(bills) = 2 /\ bills[2] = loan.face
         \/ Len(bills) = 1
  BY <1>2, <1>6
<1> HIDE DEF matured, rolls, rest, bills
<1>8. PICK f \in [0 .. Len(bills) -> Int] :
        /\ f[0] = money + rest
        /\ \A k \in 1 .. Len(bills) :
              /\ f[k] = f[k - 1] - Least(AtLeast0(bills[k]), f[k - 1])
              /\ budget.paid[k] = Least(AtLeast0(bills[k]), f[k - 1])
        /\ budget.cash = f[Len(bills)] - rest
  <2> HIDE DEF money
  <2>1. rest \in Int
    BY <1>5
  <2>2. money \in Int /\ bills \in Seq(Int)
    BY <1>2, <1>7
  <2> QED BY <2>1, <2>2, ScaleFacts, Zenon
<1> DEFINE i == Interest(loan)
           paid1 == budget.paid[1]
           paid2 == IF Len(bills) = 2 THEN budget.paid[2] ELSE 0
<1>9. /\ paid1 = Least(AtLeast0(i), money + rest)
      /\ paid2 \in {0, Least(AtLeast0(loan.face), money + rest - paid1)}
      /\ budget.cash = money - paid1 - paid2
  <2>0. f[0] = money + rest /\ bills[1] = i /\ f[0] \in Int /\ rest \in Int /\ money \in Int
    BY <1>2, <1>5, <1>7, <1>8 DEF i
  <2> HIDE DEF money, i, budget
  <2>p. \A x \in Int, y \in Int : Least(AtLeast0(x), y) \in Int
    BY DEF Least, AtLeast0
  <2>1. /\ f[1] = f[0] - Least(AtLeast0(bills[1]), f[0])
        /\ budget.paid[1] = Least(AtLeast0(bills[1]), f[0])
    <3>1. 1 \in 1 .. Len(bills) /\ 1 - 1 = 0
      BY <1>7
    <3> QED BY <1>8, <3>1
  <2>2. budget.paid[1] = Least(AtLeast0(i), money + rest) /\ budget.paid[1] \in Int
    <3>1. bills[1] \in Int
      BY <1>7
    <3> QED BY <2>0, <2>1, <2>p, <3>1
  <2>3. f[1] = money + rest - budget.paid[1] /\ f[1] \in Int
    BY <2>0, <2>1, <2>2
  <2>4. CASE Len(bills) = 2 /\ bills[2] = loan.face
    <3>1. 2 \in 1 .. Len(bills) /\ 2 - 1 = 1
      BY <2>4
    <3>2. /\ f[2] = f[1] - Least(AtLeast0(bills[2]), f[1])
          /\ budget.paid[2] = Least(AtLeast0(bills[2]), f[1])
      BY <1>8, <3>1
    <3>3. /\ budget.paid[2] = Least(AtLeast0(loan.face), money + rest - budget.paid[1])
          /\ f[2] = f[1] - budget.paid[2] /\ budget.paid[2] \in Int
      <4>1. budget.paid[2] = Least(AtLeast0(loan.face), f[1])
        BY <2>4, <3>2, Zenon
      <4>2. loan.face \in Int
        BY <1>2
      <4> QED BY <2>3, <2>p, <3>2, <4>1, <4>2
    <3>4. paid2 = budget.paid[2] /\ budget.cash = f[2] - rest
      BY <1>8, <2>4
    <3> HIDE DEF paid2
    <3> QED BY <2>0, <2>2, <2>3, <3>3, <3>4
  <2>5. CASE Len(bills) = 1
    <3>1. paid2 = 0 /\ budget.cash = f[1] - rest
      BY <1>8, <2>5
    <3> HIDE DEF paid2
    <3> QED BY <2>0, <2>2, <2>3, <3>1
  <2> QED BY <1>7, <2>4, <2>5
<1>10. drawn = Least(AtLeast0(AtLeast0(-(money - paid1 - paid2)) - AtLeast0(-money)), rest)
  BY <1>9
<1>11. principal = AtLeast0(paid2) /\ interest = AtLeast0(paid1)
  BY DEF AtLeast0
<1> HIDE DEF money, budget, drawn, paid1, paid2, i, rest, interest, principal
<1>12. /\ drawn \in 0 .. rest /\ interest \in Nat /\ principal \in 0 .. loan.face
       /\ money + drawn - principal - interest >= Least(money, 0)
  <2>1. i \in Nat /\ money \in Int /\ rest \in Nat /\ loan.face \in Nat
    BY <1>2, <1>5, <1>6 DEF i
  <2>3. /\ drawn \in 0 .. rest /\ AtLeast0(paid1) \in Nat /\ AtLeast0(paid2) \in 0 .. loan.face
        /\ money + drawn - AtLeast0(paid2) - AtLeast0(paid1) >= Least(money, 0)
    BY <1>9, <1>10, <2>1, ServiceArithmetic, Zenon
  <2> QED BY <1>11, <2>3, Zenon
<1> HIDE DEF q1, q2
<1>13. /\ drawn \in Nat /\ interest \in Int /\ principal \in Int /\ principal =< loan.face
  BY <1>2, <1>5, <1>12
<1>14. Bank \in Entities /\ Firm \in Entities /\ Bank # Firm
       /\ Cash \in Instruments /\ Loan \in Instruments
  BY InTheBooks
<1>15. /\ Posted(pos, q1)
       /\ q1[Firm][Loan] = pos[Firm][Loan] - drawn /\ q1[Firm][Cash] = pos[Firm][Cash] + drawn
       /\ \A d \in Entities, k \in Instruments :
             (k \notin {Loan, Cash} \/ d \notin {Bank, Firm}) => q1[d][k] = pos[d][k]
  <2>1. drawn \in Int /\ pos \in Books /\ Bank \in Entities /\ Firm \in Entities /\ Bank # Firm
    BY <1>2, <1>13, <1>14
  <2> QED BY <2>1, LendFacts DEF q1
<1>16. /\ Posted(q1, q2)
       /\ q2[Firm][Loan] = q1[Firm][Loan] + principal /\ q2[Firm][Cash] = q1[Firm][Cash] - principal
       /\ \A d \in Entities, k \in Instruments :
             (k \notin {Loan, Cash} \/ d \notin {Firm, Bank}) => q2[d][k] = q1[d][k]
  <2>1. q1 \in Books /\ q2 = Lend(q1, Firm, Bank, principal)
    BY <1>15 DEF Posted, q2, Refund
  <2> QED BY <1>13, <1>14, <2>1, LendFacts
<1>17. /\ Posted(q2, pos') /\ pos'[Firm][Cash] = q2[Firm][Cash] - interest
       /\ \A d \in Entities, k \in Instruments :
             (k # Cash \/ d \notin {Firm, Bank}) => pos'[d][k] = q2[d][k]
  <2>1. q2 \in Books
    BY <1>16 DEF Posted
  <2>2. Posted(q2, Move(q2, Firm, Bank, Cash, interest))
    BY <1>13, <1>14, <2>1, MovePosted
  <2>3. /\ Move(q2, Firm, Bank, Cash, interest)[Firm][Cash] = q2[Firm][Cash] - interest
        /\ \A d \in Entities, k \in Instruments :
              (k # Cash \/ d \notin {Firm, Bank})
                 => Move(q2, Firm, Bank, Cash, interest)[d][k] = q2[d][k]
    BY <1>13, <1>14, <2>1, MoveFacts
  <2> QED BY <1>1, <2>2, <2>3
<1>18. Posted(pos, pos') /\ pos' \in Books
  <2>1. Posted(pos, q2)
    BY <1>15, <1>16, PostedTwice
  <2>2. Posted(pos, pos')
    BY <1>17, <2>1, PostedTwice
  <2> QED BY <2>2 DEF Posted
<1>19. /\ pos'[Firm][Cash] = money + drawn - principal - interest
       /\ pos'[Firm][Loan] = pos[Firm][Loan] - (drawn - principal)
       /\ pos'[Firm]["EQ"] = pos[Firm]["EQ"] /\ pos'[Firm]["CAPITAL"] = pos[Firm]["CAPITAL"]
  <2>1. /\ pos'[Firm][Loan] = q2[Firm][Loan]
        /\ pos'[Firm]["EQ"] = q2[Firm]["EQ"] /\ pos'[Firm]["CAPITAL"] = q2[Firm]["CAPITAL"]
    BY <1>17, InTheBooks
  <2>2. q2[Firm]["EQ"] = q1[Firm]["EQ"] /\ q2[Firm]["CAPITAL"] = q1[Firm]["CAPITAL"]
    BY <1>16, InTheBooks
  <2>3. q1[Firm]["EQ"] = pos[Firm]["EQ"] /\ q1[Firm]["CAPITAL"] = pos[Firm]["CAPITAL"]
    BY <1>15, InTheBooks
  <2>4. q1[Firm][Cash] = money + drawn
    BY <1>15 DEF money
  <2>5. pos'[Firm][Cash] = money + drawn - principal - interest
    BY <1>2, <1>13, <1>16, <1>17, <2>4
  <2>6. pos'[Firm][Loan] = pos[Firm][Loan] - (drawn - principal)
    BY <1>2, <1>13, <1>15, <1>16, <2>1
  <2> QED BY <2>1, <2>2, <2>3, <2>5, <2>6
<1>20. KeepsBudget
  BY <1>12, <1>19 DEF KeepsBudget, money
<1>21. Typed'
  <2>1. /\ loan'.face \in Nat /\ loan'.remaining \in 0 .. Tenor
        /\ lines' \in Nat /\ income' \in Int /\ financed' \in Int
    BY <1>1, <1>2, <1>3, <1>4, <1>13, <1>12
  <2>2. TypeOK'
    BY <1>1, <2>1, OperateStep DEF Typed, TypeOK, Inv
  <2> QED BY <1>1, <1>18, <2>1, <2>2 DEF Typed, Inv
<1>22. Explained'
  <2> SUFFICES ASSUME status' # "liquidated"
               PROVE  /\ -pos'[Firm][Loan] = loan'.face + lines'
                      /\ pos'[Firm][Cash] + pos'[Firm]["CAPITAL"] + pos'[Firm][Loan]
                           + pos'[Firm]["EQ"] = income' - financed'
    BY DEF Explained
  <2>1. /\ -pos[Firm][Loan] = loan.face + lines
        /\ money + pos[Firm]["CAPITAL"] + pos[Firm][Loan] + pos[Firm]["EQ"]
             = income - financed
    BY <1>1 DEF Inv, Explained, money
  <2>2. /\ money \in Int /\ interest \in Int /\ drawn \in Int /\ principal \in Int
        /\ loan.face \in Int /\ lines \in Int /\ income \in Int /\ financed \in Int
        /\ pos[Firm][Loan] \in Int /\ pos[Firm]["EQ"] \in Int /\ pos[Firm]["CAPITAL"] \in Int
    BY <1>2, <1>13
  <2>3. /\ loan'.face = loan.face - principal /\ lines' = lines + drawn
        /\ income' = income + drawn - principal - interest
        /\ financed' = financed + drawn - principal
    BY <1>1
  <2>4. -pos'[Firm][Loan] = loan'.face + lines'
    <3>2. -(pos[Firm][Loan] - (drawn - principal)) = (loan.face - principal) + (lines + drawn)
      <4>1. PICK a \in Int, b \in Int, c \in Int, d \in Int, e \in Int :
                a = pos[Firm][Loan] /\ b = loan.face /\ c = lines /\ d = drawn /\ e = principal
        BY <2>2
      <4>2. -a = b + c
        BY <2>1, <4>1
      <4>3. -(a - (d - e)) = (b - e) + (c + d)
        BY <4>2
      <4> QED BY <4>1, <4>3
    <3> QED BY <1>19, <2>3, <3>2
  <2>5. income' - financed' = income - financed - interest
    BY <2>2, <2>3
  <2>6. pos'[Firm][Cash] + pos'[Firm]["CAPITAL"] + pos'[Firm][Loan] + pos'[Firm]["EQ"]
          = income' - financed'
    <3>1. /\ pos'[Firm][Cash] = money + drawn - principal - interest
          /\ pos'[Firm][Loan] = pos[Firm][Loan] - (drawn - principal)
          /\ pos'[Firm]["EQ"] = pos[Firm]["EQ"] /\ pos'[Firm]["CAPITAL"] = pos[Firm]["CAPITAL"]
      BY <1>19
    <3>2. (money + drawn - principal - interest) + pos[Firm]["CAPITAL"]
             + (pos[Firm][Loan] - (drawn - principal)) + pos[Firm]["EQ"]
            = income - financed - interest
      BY <2>1, <2>2, SMTT(60)
    <3> QED BY <2>5, <3>1, <3>2
  <2> QED BY <2>4, <2>6
<1>23. DrawnWithinCapacity'
  <2>1. drawn + (IF rolls THEN loan.face ELSE 0) =< total
    BY <1>2, <1>3, <1>5, <1>12
  <2> QED BY <1>1, <2>1 DEF DrawnWithinCapacity
<1>24. Resolved'
  BY <1>1, StaysOpen DEF Active, Inv, Resolved
<1> QED BY <1>1, <1>18, <1>20, <1>21, <1>22, <1>23, <1>24, StayBalanced
        DEF Inv, CapacityConserved, SeniorityKept

-----------------------------------------------------------------------------
(* Bankruptcy. *)

Falling(f, pot) ==
    f = [k \in 0 .. 4 |-> IF k = 0 THEN pot ELSE f[k - 1] - Least(Claims[k], f[k - 1])]

\* The waterfall pays what there is, and nobody before those ahead of him are paid.
LEMMA WaterfallPays ==
    ASSUME NEW pot \in Nat, \A k \in 1 .. 4 : Claims[k] \in Nat
    PROVE  /\ DOMAIN Waterfall(pot) = 1 .. 4
           /\ \A k \in 1 .. 4 : /\ Waterfall(pot)[k].paid \in Nat
                                /\ Waterfall(pot)[k].lost \in 0 .. Claims[k]
           /\ Waterfall(pot)[1].paid + Waterfall(pot)[2].paid + Waterfall(pot)[3].paid
                + Waterfall(pot)[4].paid =< pot
           /\ \A j, k \in 1 .. 4 :
                 (j < k /\ Waterfall(pot)[k].paid > 0) => Waterfall(pot)[j].lost = 0
<1> DEFINE Step == [k \in 1 .. 4 |-> [r \in Nat |-> r - Least(Claims[k], r)]]
           c == CHOOSE f : Falling(f, pot)
<1>0. \A x \in Nat, r \in Nat :
         /\ Least(x, r) \in Nat /\ Least(x, r) =< r /\ Least(x, r) =< x /\ r - Least(x, r) \in Nat
         /\ x - Least(x, r) > 0 => r - Least(x, r) = 0
         /\ Least(x, 0) = 0
  BY DEF Least
<1>1. Step \in [1 .. 4 -> [Nat -> Nat]]
  <2>1. \A k \in 1 .. 4, r \in Nat : r - Least(Claims[k], r) \in Nat
    BY <1>0
  <2> QED BY <2>1, Zenon
<1>2. \A k \in 1 .. 4, r \in Nat : Step[k][r] = r - Least(Claims[k], r)
  BY Zenon
<1> HIDE DEF Step
<1>3. PICK f \in [0 .. 4 -> Nat] : Iterates(f, 4, pot, Step)
  <2>1. 4 \in Nat
    OBVIOUS
  <2> QED BY <1>1, <2>1, IterationExists
<1>4. Falling(f, pot)
  <2> DEFINE g == [k \in 0 .. 4 |->
                     IF k = 0 THEN pot ELSE f[k - 1] - Least(Claims[k], f[k - 1])]
  <2>1. \A k \in 0 .. 4 :
          f[k] = IF k = 0 THEN pot ELSE f[k - 1] - Least(Claims[k], f[k - 1])
    <3> SUFFICES ASSUME NEW k \in 1 .. 4
                 PROVE  f[k] = f[k - 1] - Least(Claims[k], f[k - 1])
      BY <1>3 DEF Iterates
    <3>1. f[k] = Step[k][f[k - 1]] /\ f[k - 1] \in Nat
      BY <1>3 DEF Iterates
    <3> QED BY <1>2, <3>1
  <2>2. \A k \in 0 .. 4 :
          g[k] = IF k = 0 THEN pot ELSE f[k - 1] - Least(Claims[k], f[k - 1])
    BY Zenon
  <2>3. g = [k \in 0 .. 4 |-> g[k]] /\ f = [k \in 0 .. 4 |-> f[k]]
    BY Zenon
  <2> HIDE DEF g
  <2>4. f = g
    BY <2>1, <2>2, <2>3
  <2> QED BY <2>4 DEF g, Falling
<1>5. Falling(c, pot)
  BY <1>4
<1>6. Waterfall(pot) = [k \in 1 .. 4 |-> [paid |-> Least(Claims[k], c[k - 1]),
                                          lost |-> Claims[k] - Least(Claims[k], c[k - 1])]]
  BY Zenon DEF Waterfall, Falling
<1> HIDE DEF c
<1>7. c[0] = pot /\ \A k \in 1 .. 4 : c[k] = c[k - 1] - Least(Claims[k], c[k - 1])
  <2> DEFINE h == [k \in 0 .. 4 |->
                     IF k = 0 THEN pot ELSE c[k - 1] - Least(Claims[k], c[k - 1])]
  <2>1. c = h
    BY <1>5 DEF Falling
  <2>2. h[0] = pot /\ \A k \in 1 .. 4 : h[k] = c[k - 1] - Least(Claims[k], c[k - 1])
    OBVIOUS
  <2> HIDE DEF h
  <2> QED BY <2>1, <2>2
<1>8. \A k \in 0 .. 4 : c[k] \in Nat
  <2>1. c[0] = pot /\ \A k \in 1 .. 4 : c[k - 1] \in Nat => c[k] = Step[k][c[k - 1]]
    BY <1>2, <1>7
  <2>2. 4 \in Nat
    OBVIOUS
  <2> QED BY <1>1, <2>1, <2>2, IterationTyped, Zenon
<1>9. \A k \in 1 .. 4 : /\ Waterfall(pot)[k].paid = Least(Claims[k], c[k - 1])
                        /\ Waterfall(pot)[k].lost = Claims[k] - Least(Claims[k], c[k - 1])
  <2> SUFFICES ASSUME NEW k \in 1 .. 4
               PROVE  /\ Waterfall(pot)[k].paid = Least(Claims[k], c[k - 1])
                      /\ Waterfall(pot)[k].lost = Claims[k] - Least(Claims[k], c[k - 1])
    OBVIOUS
  <2> DEFINE take == Least(Claims[k], c[k - 1])
             rest == Claims[k] - take
             row == Waterfall(pot)[k]
  <2>1. row = [paid |-> take, lost |-> rest]
    BY <1>6, Zenon
  <2> HIDE DEF take, rest, row
  <2>2. row.paid = take /\ row.lost = rest
    BY <2>1
  <2> QED BY <2>2 DEF take, rest, row
<1>10. ASSUME NEW k \in 1 .. 4
       PROVE  /\ c[k - 1] \in Nat /\ c[k] \in Nat
              /\ Waterfall(pot)[k].paid \in Nat /\ Waterfall(pot)[k].lost \in 0 .. Claims[k]
              /\ c[k] = c[k - 1] - Waterfall(pot)[k].paid
              /\ Waterfall(pot)[k].lost > 0 => c[k] = 0
              /\ c[k - 1] = 0 => c[k] = 0 /\ Waterfall(pot)[k].paid = 0
  <2>1. k - 1 \in 0 .. 4 /\ k \in 0 .. 4
    OBVIOUS
  <2>2. c[k - 1] \in Nat /\ c[k] \in Nat /\ Claims[k] \in Nat
    BY <1>8, <2>1
  <2> DEFINE x == Claims[k]
             r == c[k - 1]
  <2>3. /\ Least(x, r) \in Nat /\ Least(x, r) =< r /\ Least(x, r) =< x
        /\ x - Least(x, r) > 0 => r - Least(x, r) = 0
        /\ Least(x, 0) = 0
    BY <1>0, <2>2
  <2>4. /\ Waterfall(pot)[k].paid = Least(x, r) /\ Waterfall(pot)[k].lost = x - Least(x, r)
        /\ c[k] = r - Least(x, r) /\ x \in Nat /\ r \in Nat
    BY <1>7, <1>9, <2>2
  <2>5. Least(x, r) \in Nat /\ x - Least(x, r) \in 0 .. x /\ r - Least(x, r) \in Nat
    <3> HIDE DEF x, r
    <3> QED BY <2>3, <2>4
  <2> QED BY <2>2, <2>3, <2>4, <2>5
<1>11. ASSUME NEW j \in 1 .. 4, NEW k \in 1 .. 4, j < k, Waterfall(pot)[k].paid > 0
       PROVE  Waterfall(pot)[j].lost = 0
  <2>1. c[k - 1] # 0
    BY <1>10, <1>11
  <2>2. /\ c[1] = 0 => c[2] = 0
        /\ c[2] = 0 => c[3] = 0
    <3>1. 2 \in 1 .. 4 /\ 3 \in 1 .. 4 /\ 2 - 1 = 1 /\ 3 - 1 = 2
      OBVIOUS
    <3> QED BY <1>10, <3>1
  <2>3. /\ j \in {1, 2, 3} /\ k \in {2, 3, 4} /\ k - 1 \in {1, 2, 3} /\ k - 1 >= j
    BY <1>11
  <2>4. c[j] # 0
    BY <2>1, <2>2, <2>3
  <2> QED BY <1>10, <2>4
<1>12. DOMAIN Waterfall(pot) = 1 .. 4
  BY <1>6, Zenon
<1>13. Waterfall(pot)[1].paid + Waterfall(pot)[2].paid + Waterfall(pot)[3].paid
         + Waterfall(pot)[4].paid =< pot
  <2>1. /\ 1 \in 1 .. 4 /\ 2 \in 1 .. 4 /\ 3 \in 1 .. 4 /\ 4 \in 1 .. 4
        /\ 1 - 1 = 0 /\ 2 - 1 = 1 /\ 3 - 1 = 2 /\ 4 - 1 = 3
    OBVIOUS
  <2>2. /\ c[1] = c[0] - Waterfall(pot)[1].paid /\ c[2] = c[1] - Waterfall(pot)[2].paid
        /\ c[3] = c[2] - Waterfall(pot)[3].paid /\ c[4] = c[3] - Waterfall(pot)[4].paid
        /\ Waterfall(pot)[1].paid \in Nat /\ Waterfall(pot)[2].paid \in Nat
        /\ Waterfall(pot)[3].paid \in Nat /\ Waterfall(pot)[4].paid \in Nat
        /\ c[0] \in Nat /\ c[4] \in Nat
    BY <1>10, <2>1
  <2> QED BY <1>7, <2>2
<1> QED BY <1>10, <1>11, <1>12, <1>13

Settling(f, sold, rows) ==
    f = [k \in 0 .. 4 |->
            IF k = 0 THEN sold ELSE Move(f[k - 1], Firm, Creditor[k], Cash, rows[k].paid)]

\* What the firm pays leaves its cash, and nothing else of its books.
LEMMA FirmPays ==
    ASSUME NEW p \in Books, NEW to \in Entities, to # Firm, NEW x \in Int
    PROVE  /\ Move(p, Firm, to, Cash, x)[Firm][Cash] = p[Firm][Cash] - x
           /\ \A j \in Instruments : j # Cash => Move(p, Firm, to, Cash, x)[Firm][j] = p[Firm][j]
<1>1. Firm \in Entities /\ Cash \in Instruments
  BY InTheBooks
<1>2. Move(p, Firm, to, Cash, x)[Firm][Cash] = p[Firm][Cash] - x
  BY <1>1, MoveFacts
<1>3. \A d \in Entities, j \in Instruments :
         (j # Cash \/ d \notin {Firm, to}) => Move(p, Firm, to, Cash, x)[d][j] = p[d][j]
  BY <1>1, MoveFacts
<1> QED BY <1>1, <1>2, <1>3

\* The payments of the waterfall are postings.
LEMMA SettlingPosts ==
    ASSUME NEW sold \in Books, NEW rows, \A k \in 1 .. 4 : rows[k].paid \in Nat
    PROVE  /\ Posted(sold, (CHOOSE f : Settling(f, sold, rows))[4])
           /\ (CHOOSE f : Settling(f, sold, rows))[4][Firm][Cash]
                = sold[Firm][Cash] - (rows[1].paid + rows[2].paid + rows[3].paid + rows[4].paid)
           /\ \A j \in Instruments \ {Cash} :
                 (CHOOSE f : Settling(f, sold, rows))[4][Firm][j] = sold[Firm][j]
<1> DEFINE T == {p \in Books : Posted(sold, p)}
           Step == [k \in 1 .. 4 |-> [p \in T |->
                      Move(p, Firm, Creditor[k], Cash, rows[k].paid)]]
           c == CHOOSE f : Settling(f, sold, rows)
<1>1. sold \in T
  BY DEF Posted
<1>2. \A k \in 1 .. 4, p \in T : Move(p, Firm, Creditor[k], Cash, rows[k].paid) \in T
  <2> SUFFICES ASSUME NEW k \in 1 .. 4, NEW p \in T
               PROVE  Posted(sold, Move(p, Firm, Creditor[k], Cash, rows[k].paid))
    BY DEF Posted
  <2>1. Creditor[k] \in Entities /\ Creditor[k] # Firm
    BY InTheBooks DEF Creditor
  <2>2. Posted(p, Move(p, Firm, Creditor[k], Cash, rows[k].paid))
    <3>1. rows[k].paid \in Int /\ Cash \in Instruments /\ Firm \in Entities
      BY InTheBooks
    <3> QED BY <2>1, <3>1, MovePosted
  <2> QED BY <2>2, PostedTwice
<1>3. Step \in [1 .. 4 -> [T -> T]] /\ 4 \in Nat
  <2> HIDE DEF T
  <2> QED BY <1>2
<1>4. \A k \in 1 .. 4, p \in T : Step[k][p] = Move(p, Firm, Creditor[k], Cash, rows[k].paid)
  BY Zenon
<1> HIDE DEF Step, T
<1>5. PICK f \in [0 .. 4 -> T] : Iterates(f, 4, sold, Step)
  BY <1>1, <1>3, IterationExists
<1>6. Settling(f, sold, rows)
  <2> DEFINE g == [k \in 0 .. 4 |->
                     IF k = 0 THEN sold ELSE Move(f[k - 1], Firm, Creditor[k], Cash, rows[k].paid)]
  <2>1. \A k \in 0 .. 4 :
          f[k] = IF k = 0 THEN sold ELSE Move(f[k - 1], Firm, Creditor[k], Cash, rows[k].paid)
    <3> SUFFICES ASSUME NEW k \in 1 .. 4
                 PROVE  f[k] = Move(f[k - 1], Firm, Creditor[k], Cash, rows[k].paid)
      BY <1>5 DEF Iterates
    <3>1. f[k] = Step[k][f[k - 1]] /\ f[k - 1] \in T
      BY <1>5 DEF Iterates
    <3> QED BY <1>4, <3>1
  <2>2. \A k \in 0 .. 4 :
          g[k] = IF k = 0 THEN sold ELSE Move(f[k - 1], Firm, Creditor[k], Cash, rows[k].paid)
    BY Zenon
  <2>3. g = [k \in 0 .. 4 |-> g[k]] /\ f = [k \in 0 .. 4 |-> f[k]]
    BY Zenon
  <2> HIDE DEF g
  <2>4. f = g
    BY <2>1, <2>2, <2>3
  <2> QED BY <2>4 DEF g, Settling
<1>7. Settling(c, sold, rows)
  BY <1>6
<1> HIDE DEF c
<1>8. c[0] = sold /\ \A k \in 1 .. 4 :
                        c[k] = Move(c[k - 1], Firm, Creditor[k], Cash, rows[k].paid)
  <2> DEFINE h == [k \in 0 .. 4 |->
                     IF k = 0 THEN sold ELSE Move(c[k - 1], Firm, Creditor[k], Cash, rows[k].paid)]
  <2>1. c = h
    BY <1>7 DEF Settling
  <2>2. h[0] = sold /\ \A k \in 1 .. 4 :
                          h[k] = Move(c[k - 1], Firm, Creditor[k], Cash, rows[k].paid)
    OBVIOUS
  <2> HIDE DEF h
  <2> QED BY <2>1, <2>2
<1>9. \A k \in 0 .. 4 : c[k] \in T
  <2>1. c[0] = sold /\ \A k \in 1 .. 4 : c[k - 1] \in T => c[k] = Step[k][c[k - 1]]
    BY <1>4, <1>8
  <2> QED BY <1>1, <1>3, <2>1, IterationTyped, Zenon
<1>10. ASSUME NEW k \in 1 .. 4
       PROVE  /\ c[k][Firm][Cash] = c[k - 1][Firm][Cash] - rows[k].paid
              /\ c[k][Firm][Cash] \in Int
              /\ \A j \in Instruments \ {Cash} : c[k][Firm][j] = c[k - 1][Firm][j]
  <2>1. k - 1 \in 0 .. 4 /\ k \in 0 .. 4
    OBVIOUS
  <2>2. c[k - 1] \in Books /\ c[k] \in Books
    BY <1>9, <2>1 DEF T
  <2>3. Creditor[k] \in Entities /\ Creditor[k] # Firm /\ Firm \in Entities /\ Cash \in Instruments
    BY InTheBooks DEF Creditor
  <2>4. rows[k].paid \in Int
    OBVIOUS
  <2>5. c[k] = Move(c[k - 1], Firm, Creditor[k], Cash, rows[k].paid)
    BY <1>8
  <2>6. /\ c[k][Firm][Cash] = c[k - 1][Firm][Cash] - rows[k].paid
        /\ \A j \in Instruments : j # Cash => c[k][Firm][j] = c[k - 1][Firm][j]
    BY <2>2, <2>3, <2>4, <2>5, FirmPays
  <2> QED BY <2>2, <2>3, <2>6 DEF Books
<1>11. c[4][Firm][Cash] = sold[Firm][Cash] - (rows[1].paid + rows[2].paid + rows[3].paid + rows[4].paid)
       /\ \A j \in Instruments \ {Cash} : c[4][Firm][j] = sold[Firm][j]
  <2>1. /\ 1 \in 1 .. 4 /\ 2 \in 1 .. 4 /\ 3 \in 1 .. 4 /\ 4 \in 1 .. 4
        /\ 1 - 1 = 0 /\ 2 - 1 = 1 /\ 3 - 1 = 2 /\ 4 - 1 = 3
    OBVIOUS
  <2>2. /\ c[1][Firm][Cash] = sold[Firm][Cash] - rows[1].paid
        /\ c[2][Firm][Cash] = c[1][Firm][Cash] - rows[2].paid
        /\ c[3][Firm][Cash] = c[2][Firm][Cash] - rows[3].paid
        /\ c[4][Firm][Cash] = c[3][Firm][Cash] - rows[4].paid
        /\ \A j \in Instruments \ {Cash} :
              /\ c[1][Firm][j] = sold[Firm][j] /\ c[2][Firm][j] = c[1][Firm][j]
              /\ c[3][Firm][j] = c[2][Firm][j] /\ c[4][Firm][j] = c[3][Firm][j]
    BY <1>8, <1>10, <2>1
  <2>3. sold[Firm][Cash] \in Int
    BY InTheBooks DEF Books
  <2>4. rows[1].paid \in Int /\ rows[2].paid \in Int /\ rows[3].paid \in Int /\ rows[4].paid \in Int
    BY <2>1
  <2> QED BY <2>2, <2>3, <2>4
<1> QED BY <1>9, <1>11 DEF c, T

LEMMA ResolveStep ==
    ASSUME Inv, NEW due, NEW red, NEW line, Resolve(due, red, line)
    PROVE  Inv'
<1> DEFINE plants == IF cell.capacity = 0 THEN 0
                       ELSE (capacity * cell.stock * PlantRecovery) \div (cell.capacity * 100)
           pot == plants + (goods * StockRecovery) \div 100
           rows == Waterfall(pot)
           lent == Lend(pos, Bank, Npc, plants)
           sold == Move(lent, Npc, Firm, Cash, plants)
           paid == CHOOSE f : Settling(f, sold, rows)
<1>1. /\ pos' = Move(paid[4], Bank, Firm, Loan, rows[BankClaim].lost)
      /\ resolution' = rows /\ proceeds' = plants /\ status = "active"
  BY Zenon DEF Resolve, Settling, Active
<1>2. /\ cell'.capacity = cell.capacity + capacity /\ cell'.stock = cell.stock + plants
      /\ capacity' = 0 /\ staff' = 0 /\ goods' = 0 /\ status' = "liquidated" /\ Operate
      /\ UNCHANGED <<cash, pipeline, loan, income, service, closing, built, lines, financed>>
  BY DEF Resolve
<1>3. /\ pos \in Books /\ capacity \in Nat /\ goods \in Nat
      /\ cell.capacity \in Nat /\ cell.stock \in Nat /\ pos[Firm][Loan] \in Int
      /\ PlantRecovery \in Nat /\ StockRecovery \in Nat /\ built \in Nat
      /\ Obligations[1] \in Nat /\ Obligations[2] \in Nat /\ Obligations[3] \in Nat
  <2>1. Obligations[1] \in Nat /\ Obligations[2] \in Nat /\ Obligations[3] \in Nat
    BY FirmsAssumption
  <2>2. PlantRecovery \in Nat /\ StockRecovery \in Nat
    BY FirmsAssumption
  <2>3. pos \in Books /\ pos[Firm][Loan] \in Int
    BY Facts, InTheBooks
  <2>4. capacity \in Nat /\ goods \in Nat /\ cell.capacity \in Nat /\ cell.stock \in Nat
    BY Facts
  <2>5. built \in Nat
    BY Facts
  <2> QED BY <2>1, <2>2, <2>3, <2>4, <2>5
<1>4. plants \in Nat
  <2>1. CASE cell.capacity > 0
    <3>1. cell.capacity * 100 \in Nat /\ cell.capacity * 100 > 0
      BY <1>3, <2>1
    <3>2. capacity * cell.stock * PlantRecovery \in Nat
      BY <1>3, Product
    <3> QED BY <2>1, <3>1, <3>2, Quotient
  <2>2. CASE cell.capacity = 0
    BY <2>2
  <2> QED BY <1>3, <2>1, <2>2
<1>5. pot \in Nat
  <2>1. goods * StockRecovery \in Nat
    BY <1>3, Product
  <2>2. (goods * StockRecovery) \div 100 \in Nat
    BY <2>1, Quotient
  <2> HIDE DEF plants
  <2> QED BY <1>4, <2>2
<1> HIDE DEF plants, pot
<1>6. \A k \in 1 .. 4 : Claims[k] \in Nat
  <2>1. Debt \in Nat
    BY <1>3 DEF Debt, AtLeast0
  <2> QED BY <1>3, <2>1 DEF Claims
<1>7. /\ DOMAIN rows = 1 .. 4
      /\ \A k \in 1 .. 4 : rows[k].paid \in Nat /\ rows[k].lost \in 0 .. Claims[k]
      /\ rows[1].paid + rows[2].paid + rows[3].paid + rows[4].paid =< pot
      /\ \A j, k \in 1 .. 4 : (j < k /\ rows[k].paid > 0) => rows[j].lost = 0
  BY <1>5, <1>6, WaterfallPays
<1> HIDE DEF rows, lent, sold, paid
<1>8. Posted(pos, lent)
  <2>1. plants \in Int /\ Bank \in Entities /\ Npc \in Entities /\ Bank # Npc
    BY <1>4, InTheBooks
  <2> QED BY <1>3, <2>1, LendFacts DEF lent
<1>9. Posted(lent, sold)
  <2>1. /\ plants \in Int /\ lent \in Books /\ Npc \in Entities /\ Firm \in Entities
        /\ Npc # Firm /\ Cash \in Instruments
    BY <1>4, <1>8, InTheBooks DEF Posted
  <2> QED BY <2>1, MovePosted DEF sold
<1>10. Posted(sold, paid[4])
  <2>1. sold \in Books /\ \A k \in 1 .. 4 : rows[k].paid \in Nat
    BY <1>7, <1>9 DEF Posted
  <2> QED BY <2>1, SettlingPosts DEF paid
<1>11. Posted(paid[4], pos')
  <2>1. /\ rows[BankClaim].lost \in Int /\ paid[4] \in Books /\ Bank \in Entities
        /\ Firm \in Entities /\ Bank # Firm /\ Loan \in Instruments
    BY <1>7, <1>10, InTheBooks DEF Posted, BankClaim
  <2> QED BY <1>1, <2>1, MovePosted
<1>12. Posted(pos, pos') /\ pos' \in Books
  <2>1. Posted(pos, sold)
    BY <1>8, <1>9, PostedTwice
  <2>2. Posted(pos, paid[4])
    BY <1>10, <2>1, PostedTwice
  <2>3. Posted(pos, pos')
    BY <1>11, <2>2, PostedTwice
  <2> QED BY <2>3 DEF Posted
<1>13. Typed'
  <2>1. cell'.capacity \in Nat /\ cell'.stock \in Nat
    BY <1>2, <1>3, <1>4
  <2>2. TypeOK'
    BY <1>2, <2>1, OperateStep DEF Typed, TypeOK, Inv
  <2> QED BY <1>2, <1>12, <2>2 DEF Typed, Inv
<1>14. CapacityConserved'
  <2>1. cell.capacity + capacity = Cell0.capacity + built
    BY DEF Inv, CapacityConserved
  <2>2. cell'.capacity + capacity' = Cell0.capacity + built'
    BY <1>2, <1>3, <2>1
  <2> QED BY <2>2 DEF CapacityConserved
<1>15. SeniorityKept'
  <2> HIDE DEF rows
  <2> QED BY <1>1, <1>7 DEF SeniorityKept
<1>16. Explained' /\ DrawnWithinCapacity'
  BY <1>2 DEF Explained, DrawnWithinCapacity, Inv
<1> DEFINE total == rows[1].paid + rows[2].paid + rows[3].paid + rows[4].paid
           loss == rows[BankClaim].lost
<1>17. /\ total \in Nat /\ total =< pot /\ loss \in Nat /\ loss =< Debt
  <2>1. 1 \in 1 .. 4 /\ 2 \in 1 .. 4 /\ 3 \in 1 .. 4 /\ 4 \in 1 .. 4 /\ BankClaim = 3
    BY DEF BankClaim
  <2>2. Claims[3] = Debt /\ Claims[3] \in Nat
    BY <1>6, <2>1 DEF Claims
  <2> QED BY <1>7, <2>1, <2>2
<1>18. /\ Lost' = loss /\ PaidOut' = total - plants /\ resolution' # << >>
  <2> HIDE DEF rows
  <2>1. rows # << >>
    <3>1. 1 \in DOMAIN rows /\ DOMAIN << >> = {}
      BY <1>7
    <3> QED BY <3>1, Zenon
  <2>2. resolution' = rows /\ proceeds' = plants
    BY <1>1
  <2>3. Lost' = loss
    BY <2>1, <2>2, Zenon DEF Lost
  <2>4. PaidOut' = total - plants
    <3>1. PaidOut' = resolution'[1].paid + resolution'[2].paid + resolution'[3].paid
                     + resolution'[4].paid - proceeds'
      BY <2>1, <2>2 DEF PaidOut
    <3>2. /\ resolution'[1].paid = rows[1].paid /\ resolution'[2].paid = rows[2].paid
          /\ resolution'[3].paid = rows[3].paid /\ resolution'[4].paid = rows[4].paid
      BY <2>2
    <3>3. /\ rows[1].paid \in Int /\ rows[2].paid \in Int /\ rows[3].paid \in Int
          /\ rows[4].paid \in Int /\ plants \in Int
      BY <1>4, <1>7
    <3> QED BY <2>2, <3>1, <3>2, <3>3
  <2> QED BY <2>1, <2>2, <2>3, <2>4
<1>19. /\ lent[Firm][Cash] = pos[Firm][Cash] /\ lent[Firm][Loan] = pos[Firm][Loan]
       /\ lent[Firm]["EQ"] = pos[Firm]["EQ"] /\ lent[Firm]["CAPITAL"] = pos[Firm]["CAPITAL"]
  <2>1. plants \in Int /\ Bank \in Entities /\ Npc \in Entities /\ Bank # Npc
    BY <1>4, InTheBooks
  <2>2. \A d \in Entities, k \in Instruments :
           (k \notin {Loan, Cash} \/ d \notin {Bank, Npc}) => lent[d][k] = pos[d][k]
    BY <1>3, <2>1, LendFacts DEF lent
  <2> QED BY <2>2, InTheBooks
<1>20. /\ sold[Firm][Cash] = lent[Firm][Cash] + plants /\ sold[Firm][Loan] = lent[Firm][Loan]
       /\ sold[Firm]["EQ"] = lent[Firm]["EQ"] /\ sold[Firm]["CAPITAL"] = lent[Firm]["CAPITAL"]
  <2>1. /\ plants \in Int /\ lent \in Books /\ Npc \in Entities /\ Firm \in Entities
        /\ Npc # Firm /\ Cash \in Instruments
    BY <1>4, <1>8, InTheBooks DEF Posted
  <2>2. /\ sold[Firm][Cash] = lent[Firm][Cash] + plants
        /\ \A d \in Entities, k \in Instruments :
              (k # Cash \/ d \notin {Npc, Firm}) => sold[d][k] = lent[d][k]
    BY <2>1, MoveFacts DEF sold
  <2> QED BY <2>2, InTheBooks
<1>21. /\ paid[4][Firm][Cash] = sold[Firm][Cash] - total /\ paid[4][Firm][Loan] = sold[Firm][Loan]
       /\ paid[4][Firm]["EQ"] = sold[Firm]["EQ"] /\ paid[4][Firm]["CAPITAL"] = sold[Firm]["CAPITAL"]
  <2>1. sold \in Books /\ \A k \in 1 .. 4 : rows[k].paid \in Nat
    BY <1>7, <1>9 DEF Posted
  <2>2. /\ paid[4][Firm][Cash] = sold[Firm][Cash] - total
        /\ \A j \in Instruments \ {Cash} : paid[4][Firm][j] = sold[Firm][j]
    BY <2>1, SettlingPosts DEF paid
  <2> QED BY <2>2, InTheBooks
<1>22. /\ pos'[Firm][Loan] = paid[4][Firm][Loan] + loss /\ pos'[Firm][Cash] = paid[4][Firm][Cash]
       /\ pos'[Firm]["EQ"] = paid[4][Firm]["EQ"] /\ pos'[Firm]["CAPITAL"] = paid[4][Firm]["CAPITAL"]
  <2>1. /\ loss \in Int /\ paid[4] \in Books /\ Bank \in Entities /\ Firm \in Entities
        /\ Bank # Firm /\ Loan \in Instruments
    BY <1>10, <1>17, InTheBooks DEF Posted
  <2>2. /\ pos'[Firm][Loan] = paid[4][Firm][Loan] + loss
        /\ \A d \in Entities, k \in Instruments :
              (k # Loan \/ d \notin {Bank, Firm}) => pos'[d][k] = paid[4][d][k]
    <3> HIDE DEF loss
    <3>1. pos' = Move(paid[4], Bank, Firm, Loan, loss)
      BY <1>1 DEF loss
    <3> QED BY <2>1, <3>1, MoveFacts
  <2> QED BY <2>2, InTheBooks
<1> HIDE DEF total, loss
<1>23. /\ pos[Firm][Loan] \in Int /\ pos[Firm][Cash] \in Int
       /\ pos[Firm]["CAPITAL"] \in Int /\ pos[Firm]["EQ"] \in Int
       /\ loan.face \in Nat /\ lines \in Nat /\ income \in Int /\ financed \in Int
  BY Facts, InTheBooks
<1>24. /\ -pos[Firm][Loan] = loan.face + lines
       /\ pos[Firm][Cash] + pos[Firm]["CAPITAL"] + pos[Firm][Loan] + pos[Firm]["EQ"]
            = income - financed
  BY <1>1 DEF Inv, Explained
<1>25. Debt = loan.face + lines
  BY <1>23, <1>24 DEF Debt, AtLeast0
<1>26. -pos'[Firm][Loan] = loan'.face + lines' - loss
  BY <1>2, <1>17, <1>19, <1>20, <1>21, <1>22, <1>23, <1>24
<1>27. pos'[Firm][Cash] + pos'[Firm]["CAPITAL"] + pos'[Firm][Loan] + pos'[Firm]["EQ"]
         = income' - financed' - (total - plants) + loss
  BY <1>2, <1>4, <1>17, <1>19, <1>20, <1>21, <1>22, <1>23, <1>24
<1>28. total - plants =< (Inventory * StockRecovery) \div 100
  <2>1. goods =< Inventory /\ Inventory \in Nat
    BY FirmsAssumption DEF Inv, Resolved
  <2>2. goods * StockRecovery =< Inventory * StockRecovery
    BY <1>3, <2>1, Ordered, Product
  <2>3. goods * StockRecovery \in Nat /\ Inventory * StockRecovery \in Nat
    BY <1>3, <2>1, Product
  <2>4. (goods * StockRecovery) \div 100 =< (Inventory * StockRecovery) \div 100
    <3>1. \A x, y \in Nat : x =< y => x \div 100 =< y \div 100
      OBVIOUS
    <3> QED BY <2>2, <2>3, <3>1
  <2> QED BY <1>4, <1>17, <2>3, <2>4 DEF pot
<1>29. Resolved'
  <2>1. CashlessBounded'
    BY <1>18, <1>28 DEF CashlessBounded
  <2>2. Lost' \in Nat /\ PaidOut' \in Int /\ Lost' =< loan'.face + lines'
    BY <1>2, <1>4, <1>17, <1>18, <1>25
  <2>3. RefusedWhenFinanced' /\ goods' =< Inventory
    BY <1>2, FirmsAssumption DEF Inv, Resolved, RefusedWhenFinanced
  <2> QED BY <1>2, <1>18, <1>26, <1>27, <2>1, <2>2, <2>3 DEF Resolved
<1> QED BY <1>12, <1>13, <1>14, <1>15, <1>16, <1>29, StayBalanced DEF Inv

-----------------------------------------------------------------------------
(* The theorems. *)

LEMMA InvStep == Inv /\ [Next]_vars => Inv' /\ (KeepsBudget \/ UNCHANGED vars)
<1> SUFFICES ASSUME Inv, Next PROVE Inv' /\ KeepsBudget
  <2>1. ASSUME Inv, UNCHANGED vars PROVE Inv'
    BY <2>1 DEF vars, Inv, Typed, TypeOK, Balanced, CapacityConserved, Explained,
                Resolved, Lost, PaidOut, CashlessBounded, RefusedWhenFinanced,
                DrawnWithinCapacity, SeniorityKept
  <2> QED BY <2>1
<1>1. CASE Found
  <2>1. service' = service
    BY <1>1 DEF Found
  <2> QED BY <1>1, <2>1, FoundStep DEF KeepsBudget
<1>2. CASE NextMonth
  <2>1. service' = service
    BY <1>2 DEF NextMonth
  <2> QED BY <1>2, <2>1, MonthStep DEF KeepsBudget
<1>3. CASE Trade
  <2>1. service' = service
    BY <1>3 DEF Trade
  <2> QED BY <1>3, <2>1, TradeStep DEF KeepsBudget
<1>4. CASE CloseMonth
  <2>1. service' = service
    BY <1>4 DEF CloseMonth
  <2> QED BY <1>4, <2>1, CloseStep DEF KeepsBudget
<1>5. CASE DrawTerm
  <2>1. service' = service
    BY <1>5 DEF DrawTerm
  <2> QED BY <1>5, <2>1, DrawKeeps DEF KeepsBudget
<1>6. ASSUME NEW q \in Sizes, BuyFromNpc(q) PROVE Inv' /\ KeepsBudget
  <2>1. service' = service
    BY <1>6 DEF BuyFromNpc
  <2> QED BY <1>6, <2>1, BuyStep DEF KeepsBudget
<1>7. ASSUME NEW q \in Sizes, StartGreenfield(q) PROVE Inv' /\ KeepsBudget
  <2>1. service' = service
    BY <1>7 DEF StartGreenfield
  <2> QED BY <1>7, <2>1, GreenfieldStep DEF KeepsBudget
<1>8. ASSUME NEW x \in Dividends, PayDividend(x) PROVE Inv' /\ KeepsBudget
  <2>1. service' = service
    BY <1>8 DEF PayDividend
  <2> QED BY <1>8, <2>1, DividendStep DEF KeepsBudget
<1>9. ASSUME NEW c \in Committed, NEW u \in Uncommitted, NEW breach \in BOOLEAN,
             Service(c, u, breach)
      PROVE  Inv' /\ KeepsBudget
  BY <1>9, ServiceStep
<1>10. ASSUME NEW due, NEW red, NEW line, Resolve(due, red, line) PROVE Inv' /\ KeepsBudget
  <2>1. service' = service
    BY <1>10 DEF Resolve
  <2> QED BY <1>10, <2>1, ResolveStep DEF KeepsBudget
<1> QED BY <1>1, <1>2, <1>3, <1>4, <1>5, <1>6, <1>7, <1>8, <1>9, <1>10 DEF Next

\* In every behaviour, what a firm has, owes and may draw is explained by what has
\* happened to it, and every posting has its other side (accounts.py, financing.py).
THEOREM BooksExplainedCorrect == Spec => []BooksExplained
<1>1. Inv /\ [Next]_vars => Inv'
  BY InvStep
<1> QED BY InvInit, <1>1, InvExplains, PTL DEF Spec

\* No service leaves the firm deeper in the red than it was, whatever its lines, its
\* bills and its cash (service_term_loan, financing.py:494).
THEOREM ServiceKeepsBudgetCorrect == Spec => ServiceKeepsBudget
<1>1. Inv /\ [Next]_vars => Inv'
  BY InvStep
<1>2. Inv /\ [Next]_vars
        => [service' # service => pos'[Firm][Cash] >= Least(pos[Firm][Cash], 0)]_vars
  BY InvStep DEF KeepsBudget
<1> QED BY InvInit, <1>1, <1>2, PTL DEF Spec, ServiceKeepsBudget

-----------------------------------------------------------------------------
(* The desk of a firm: what is granted, what is reported, what is taxed and who *)
(* may trade (module FirmDesk). *)

\* What the books of the desk hold.
DeskTypes ==
    /\ tick \in Nat /\ carry \in Nat /\ taxed \in Int /\ earned \in Int
    /\ sheets \in Seq(Nat) /\ quarterEnd \in Nat \cup {None}
\* An answer is of some request, to a firm as a call may find it; a rating of some firm.
Answered ==
    \/ answer \in {NoAnswer, Refused}
    \/ \E request \in Requests, firm \in Standings, ref \in References, u \in Unemployed :
          answer = [verdict |-> "validated", firm |-> firm, ref |-> ref, unemployed |-> u,
                    of |-> Validated(request, firm, ref, u)]
Ratings == [of : Conditions, letter : 1 .. 7, drawable : Nat]
Rated ==
    /\ rated \in Seq(Ratings)
    /\ \A i \in DOMAIN rated : /\ rated[i].letter = Rating(rated[i].of)
                               /\ rated[i].drawable = Drawable(rated[i].of)
\* A sheet a month, the oldest first, and that of the last quarter among them.
SheetsInOrder ==
    /\ \A i, j \in DOMAIN sheets : i < j => sheets[i] < sheets[j]
    /\ \A i \in DOMAIN sheets : sheets[i] <= tick
    /\ quarterEnd # None => \E i \in DOMAIN sheets : sheets[i] = quarterEnd
DeskInv == DeskTypes /\ Answered /\ Rated /\ TaxedOnce /\ SheetsInOrder

\* A value that is cut lies between the limits, if these are in order; is the higher one if
\* they are not; and is not cut again.
LEMMA ClipWithin ==
    ASSUME NEW lo \in Int, NEW hi \in Int, NEW x \in Int
    PROVE  /\ Clip(lo, hi, x) \in Int /\ Clip(lo, hi, x) =< hi
           /\ lo =< Clip(lo, hi, x) \/ Clip(lo, hi, x) = hi
           /\ lo =< hi => lo =< Clip(lo, hi, x)
           /\ Clip(lo, hi, Clip(lo, hi, x)) = Clip(lo, hi, x)
BY DEF Clip, Lesser, Greater

\* The fields of a request, and what may be asked of them.
LEMMA RequestTyped ==
    ASSUME NEW request \in Requests
    PROVE  DOMAIN request \subseteq Fields /\ \A f \in DOMAIN request : request[f] \in Int
<1>1. PICK fs \in {{f} : f \in Fields} \cup {{"borrow", "repay"}} : request \in [fs -> Asked]
  BY DEF Requests
<1>2. fs \subseteq Fields
  BY DEF Fields, LeverOf
<1>3. Asked \subseteq Int
  BY FirmDeskAssumption
<1> QED BY <1>1, <1>2, <1>3

\* The constants, one by one.
LEMMA DeskConstants ==
    /\ PriceStep \in Nat /\ PriceFloor \in Nat /\ GrowthCap \in Nat /\ Hard \in Nat /\ Line \in Nat
    /\ Overtime \in Nat /\ HireShare \in Nat /\ CoverMax \in Nat /\ OrderCap \in Nat
    /\ PremiumMax \in Nat /\ Soft \in Nat
    /\ Multiplier \in [1 .. 7 -> Nat] /\ \A k, l \in 1 .. 7 : k =< l => Multiplier[l] =< Multiplier[k]
    /\ References \subseteq Int /\ Unemployed \subseteq Int /\ Ebts \subseteq Int
    /\ MonthlyLag \in Nat /\ QuarterlyLag \in Nat /\ MonthlyLag =< QuarterlyLag /\ None \notin Nat
BY FirmDeskAssumption

LEMMA FirmTyped ==
    ASSUME NEW firm \in Standings
    PROVE  /\ firm.price \in Int /\ firm.plant \in Nat /\ firm.employees \in Nat
           /\ firm.limit \in Int /\ firm.drawn \in Nat
<1>1. firm \in [price : Int, plant : Nat, employees : Nat, limit : Int, drawn : Nat]
  BY FirmDeskAssumption
<1> QED BY <1>1

\* The limits of a field, and how they depend on what is asked: not at all, as far as it is
\* asked, as far as it is not negative, or there are none.
LEMMA LimitsTyped ==
    ASSUME NEW f \in Fields, NEW x \in Int, NEW y \in Int, NEW firm \in Standings,
           NEW ref \in Int, NEW u \in Int
    PROVE  \/ \E lo, hi \in Int : Limits(f, x, firm, ref, u) = <<lo, hi>>
                                  /\ Limits(f, y, firm, ref, u) = <<lo, hi>>
           \/ Limits(f, x, firm, ref, u) = <<0, x>> /\ Limits(f, y, firm, ref, u) = <<0, y>>
           \/ /\ Limits(f, x, firm, ref, u) = <<0, OrZero(x)>>
              /\ Limits(f, y, firm, ref, u) = <<0, OrZero(y)>>
           \/ Limits(f, x, firm, ref, u) = <<x, x>> /\ Limits(f, y, firm, ref, u) = <<y, y>>
<1>1. /\ firm.price \in Int /\ firm.plant \in Nat /\ firm.employees \in Nat
      /\ firm.limit \in Int /\ firm.drawn \in Nat
  BY FirmTyped
<1> DEFINE L(z) == Limits(f, z, firm, ref, u)
<1>2. CASE f = "posted_price"
  <2>1. PICK lo, hi : lo = Greater(ref - PriceFloor, firm.price - PriceStep) /\ hi = firm.price + PriceStep
    OBVIOUS
  <2>2. L(x) = <<lo, hi>> /\ L(y) = <<lo, hi>>
    BY <1>2, <2>1 DEF Limits
  <2>3. lo \in Int /\ hi \in Int
    BY <1>1, <2>1, DeskConstants DEF Greater
  <2> QED BY <2>2, <2>3
<1>3. CASE f = "target_output"
  <2>1. PICK hi : hi = (firm.plant * Overtime) \div 100
    OBVIOUS
  <2>2. L(x) = <<0, hi>> /\ L(y) = <<0, hi>>
    BY <1>3, <2>1 DEF Limits
  <2>3. firm.plant * Overtime \in Nat
    BY <1>1, DeskConstants, Product
  <2>4. hi \in Int
    BY <2>1, <2>3
  <2> QED BY <2>2, <2>4
<1>4. CASE f = "vacancies"
  <2>1. CASE HireShare * u > 0
    <3>1. PICK hi : hi = HireCap(u)
      OBVIOUS
    <3>2. L(x) = <<0, hi>> /\ L(y) = <<0, hi>>
      BY <1>4, <2>1, <3>1 DEF Limits
    <3>3. HireShare * u \in Int
      BY DeskConstants
    <3>4. hi \in Int
      BY <3>1, <3>3 DEF HireCap
    <3> QED BY <3>2, <3>4
  <2>2. CASE ~(HireShare * u > 0)
    <3>1. L(x) = <<0, x>> /\ L(y) = <<0, y>>
      BY <1>4, <2>2 DEF Limits
    <3> QED BY <3>1
  <2> QED BY <2>1, <2>2
<1>5. CASE f = "layoffs"
  <2>1. L(x) = <<0, firm.employees>> /\ L(y) = <<0, firm.employees>>
    BY <1>5 DEF Limits
  <2> QED BY <1>1, <2>1
<1>6. CASE f = "input_cover_m"
  <2>1. L(x) = <<0, CoverMax>> /\ L(y) = <<0, CoverMax>>
    BY <1>6 DEF Limits
  <2> QED BY <2>1, DeskConstants
<1>7. CASE f = "order_mult"
  <2>1. L(x) = <<0, OrderCap>> /\ L(y) = <<0, OrderCap>>
    BY <1>7 DEF Limits
  <2> QED BY <2>1, DeskConstants
<1>8. CASE f = "shortage_premium"
  <2>1. L(x) = <<0, PremiumMax>> /\ L(y) = <<0, PremiumMax>>
    BY <1>8 DEF Limits
  <2> QED BY <2>1, DeskConstants
<1>9. CASE f = "expand_capacity"
  <2>1. CASE GrowthCap * firm.plant > 0
    <3>1. PICK hi : hi = (GrowthCap * firm.plant) \div 100
      OBVIOUS
    <3>2. L(x) = <<0, hi>> /\ L(y) = <<0, hi>>
      BY <1>9, <2>1, <3>1 DEF Limits
    <3>3. GrowthCap * firm.plant \in Nat
      BY <1>1, DeskConstants, Product
    <3>4. hi \in Int
      BY <3>1, <3>3
    <3> QED BY <3>2, <3>4
  <2>2. CASE ~(GrowthCap * firm.plant > 0)
    <3>1. L(x) = <<0, x>> /\ L(y) = <<0, y>>
      BY <1>9, <2>2 DEF Limits
    <3> QED BY <3>1
  <2> QED BY <2>1, <2>2
<1>10. CASE f = "borrow"
  <2>1. PICK hi : hi = OrZero(firm.limit - firm.drawn)
    OBVIOUS
  <2>2. L(x) = <<0, hi>> /\ L(y) = <<0, hi>>
    BY <1>10, <2>1 DEF Limits
  <2>3. hi \in Int
    BY <1>1, <2>1 DEF OrZero
  <2> QED BY <2>2, <2>3
<1>11. CASE f = "repay"
  <2>1. L(x) = <<0, firm.drawn>> /\ L(y) = <<0, firm.drawn>>
    BY <1>11 DEF Limits
  <2> QED BY <1>1, <2>1
<1>12. CASE f \in {"wage_offer", "rnd_spend", "dividend"}
  <2>1. L(x) = <<0, OrZero(x)>> /\ L(y) = <<0, OrZero(y)>>
    BY <1>12 DEF Limits
  <2> QED BY <2>1
<1>13. CASE f \in {"new_plant", "treasury_enabled", "liquidate"}
  <2>1. L(x) = <<x, x>> /\ L(y) = <<y, y>>
    BY <1>13 DEF Limits
  <2> QED BY <2>1
<1> QED BY <1>2, <1>3, <1>4, <1>5, <1>6, <1>7, <1>8, <1>9, <1>10, <1>11, <1>12, <1>13
        DEF Fields, LeverOf

\* What is granted of one field, asked for again, is granted.
LEMMA GrantStands ==
    ASSUME NEW f \in Fields, NEW x \in Int, NEW y, NEW firm \in Standings,
           NEW ref \in Int, NEW u \in Int,
           y = Clip(Limits(f, x, firm, ref, u)[1], Limits(f, x, firm, ref, u)[2], x)
    PROVE  Clip(Limits(f, y, firm, ref, u)[1], Limits(f, y, firm, ref, u)[2], y) = y
<1>1. y \in Int
  <2>1. PICK lo, hi \in Int : Limits(f, x, firm, ref, u) = <<lo, hi>>
    BY LimitsTyped DEF OrZero
  <2> QED BY <2>1, ClipWithin
<1>2. CASE \E lo, hi \in Int : Limits(f, x, firm, ref, u) = <<lo, hi>> /\ Limits(f, y, firm, ref, u) = <<lo, hi>>
  BY <1>2, ClipWithin
<1>3. CASE Limits(f, x, firm, ref, u) = <<0, x>> /\ Limits(f, y, firm, ref, u) = <<0, y>>
  BY <1>1, <1>3 DEF Clip, Lesser, Greater
<1>4. CASE Limits(f, x, firm, ref, u) = <<0, OrZero(x)>> /\ Limits(f, y, firm, ref, u) = <<0, OrZero(y)>>
  BY <1>1, <1>4 DEF Clip, Lesser, Greater, OrZero
<1>5. CASE Limits(f, x, firm, ref, u) = <<x, x>> /\ Limits(f, y, firm, ref, u) = <<y, y>>
  BY <1>1, <1>5 DEF Clip, Lesser, Greater
<1> QED BY <1>1, <1>2, <1>3, <1>4, <1>5, LimitsTyped

\* What is granted of one field, that is asked for or not.
LEMMA GrantedOf ==
    ASSUME NEW request, NEW firm, NEW ref, NEW u, NEW f \in DOMAIN request, NEW otherwise,
           request[f] \in Int, NEW lo \in Int, NEW hi \in Int,
           Limits(f, request[f], firm, ref, u) = <<lo, hi>>
    PROVE  /\ Granted(Validated(request, firm, ref, u), f, otherwise) = Clip(lo, hi, request[f])
           /\ Granted(Validated(request, firm, ref, u), f, otherwise) \in Int
<1>1. Granted(Validated(request, firm, ref, u), f, otherwise) = Clip(lo, hi, request[f])
  BY DEF Granted, Validated
<1> QED BY <1>1, ClipWithin

LEMMA NotGranted ==
    ASSUME NEW request, NEW firm, NEW ref, NEW u, NEW f, f \notin DOMAIN request, NEW otherwise
    PROVE  /\ Granted(Validated(request, firm, ref, u), f, otherwise) = otherwise
           /\ f \notin DOMAIN Validated(request, firm, ref, u).granted
BY DEF Granted, Validated

\* Of a field with limits in order, if it is asked for, what is granted lies between them.
LEMMA GrantedBetween ==
    ASSUME NEW request, NEW firm, NEW ref, NEW u, NEW f, NEW hi \in Nat,
           f \in DOMAIN request => request[f] \in Int /\ Limits(f, request[f], firm, ref, u) = <<0, hi>>
    PROVE  Granted(Validated(request, firm, ref, u), f, 0) \in 0 .. hi
<1>1. CASE f \in DOMAIN request
  <2>1. Granted(Validated(request, firm, ref, u), f, 0) = Clip(0, hi, request[f])
    BY <1>1, GrantedOf
  <2>2. PICK x \in Int : x = request[f]
    BY <1>1
  <2>3. Clip(0, hi, x) \in 0 .. hi
    BY <2>2 DEF Clip, Lesser, Greater
  <2> QED BY <2>1, <2>2, <2>3
<1>2. CASE f \notin DOMAIN request
  <2>1. Granted(Validated(request, firm, ref, u), f, 0) = 0
    BY <1>2 DEF Granted, Validated
  <2>2. 0 \in 0 .. hi
    OBVIOUS
  <2> QED BY <2>1, <2>2
<1> QED BY <1>1, <1>2

\* Whatever is asked, and whatever firm a call finds, what is granted can be carried out.
LEMMA GrantedWithin ==
    ASSUME NEW request \in Requests, NEW firm \in Standings, NEW ref \in References, NEW u \in Unemployed,
           answer = [verdict |-> "validated", firm |-> firm, ref |-> ref, unemployed |-> u,
                     of |-> Validated(request, firm, ref, u)]
    PROVE  GrantsWithinMeans
<1> DEFINE v == Validated(request, firm, ref, u)
           after == firm.drawn + Granted(v, "borrow", 0) - Granted(v, "repay", 0)
           price == Granted(v, "posted_price", firm.price)
<1>0. /\ firm.price \in Int /\ firm.employees \in Nat /\ firm.limit \in Int /\ firm.drawn \in Nat
      /\ ref \in Int /\ \A f \in DOMAIN request : request[f] \in Int
      /\ PriceStep \in Nat /\ PriceFloor \in Nat
  BY FirmTyped, RequestTyped, DeskConstants
<1>1. Granted(v, "layoffs", 0) \in 0 .. firm.employees
  <2>1. Limits("layoffs", request["layoffs"], firm, ref, u) = <<0, firm.employees>>
    BY DEF Limits
  <2> QED BY <1>0, <2>1, GrantedBetween
<1>2. Granted(v, "repay", 0) \in 0 .. firm.drawn
  <2>1. Limits("repay", request["repay"], firm, ref, u) = <<0, firm.drawn>>
    BY DEF Limits
  <2> QED BY <1>0, <2>1, GrantedBetween
<1>3. Granted(v, "borrow", 0) \in 0 .. OrZero(firm.limit - firm.drawn)
  <2>1. PICK hi : hi = OrZero(firm.limit - firm.drawn)
    OBVIOUS
  <2>2. hi \in Nat
    BY <1>0, <2>1 DEF OrZero
  <2>3. Limits("borrow", request["borrow"], firm, ref, u) = <<0, hi>>
    BY <2>1 DEF Limits
  <2> QED BY <1>0, <2>1, <2>2, <2>3, GrantedBetween
<1>4. after >= 0 /\ after =< Greater(firm.limit, firm.drawn)
  <2> DEFINE b == Granted(v, "borrow", 0)
             r == Granted(v, "repay", 0)
  <2> HIDE DEF b, r
  <2>1. firm.drawn + b - r >= 0 /\ firm.drawn + b - r =< Greater(firm.limit, firm.drawn)
    BY <1>0, <1>2, <1>3 DEF b, r, OrZero, Greater
  <2> QED BY <2>1 DEF b, r
<1>5. /\ firm.price - PriceStep =< price /\ price =< firm.price + PriceStep
      /\ "posted_price" \in DOMAIN v.granted /\ price < ref - PriceFloor => price = firm.price + PriceStep
  <2>1. CASE "posted_price" \in DOMAIN request
    <3>1. PICK lo, hi : lo = Greater(ref - PriceFloor, firm.price - PriceStep) /\ hi = firm.price + PriceStep
      OBVIOUS
    <3>2. Limits("posted_price", request["posted_price"], firm, ref, u) = <<lo, hi>>
      BY <3>1 DEF Limits
    <3>3. lo \in Int /\ hi \in Int /\ firm.price - PriceStep =< lo /\ ref - PriceFloor =< lo
      BY <1>0, <3>1 DEF Greater
    <3>4. PICK x \in Int : x = request["posted_price"]
      BY <1>0, <2>1
    <3>5. price = Clip(lo, hi, x) /\ price \in Int
      BY <1>0, <2>1, <3>2, <3>3, <3>4, GrantedOf
    <3>6. Clip(lo, hi, x) =< hi /\ (lo =< Clip(lo, hi, x) \/ Clip(lo, hi, x) = hi)
      BY <3>3, <3>4, ClipWithin
    <3> HIDE DEF price
    <3> QED BY <1>0, <3>1, <3>3, <3>5, <3>6
  <2>2. CASE "posted_price" \notin DOMAIN request
    <3>1. price = firm.price /\ "posted_price" \notin DOMAIN v.granted
      BY <2>2, NotGranted
    <3> HIDE DEF price, v
    <3> QED BY <1>0, <3>1
  <2> QED BY <2>1, <2>2
<1>6. answer.of = v /\ answer.firm = firm /\ answer.ref = ref
  OBVIOUS
<1> HIDE DEF v
<1> QED BY <1>1, <1>4, <1>5, <1>6 DEF GrantsWithinMeans

LEMMA StandsAsGranted ==
    ASSUME NEW request \in Requests, NEW firm \in Standings, NEW ref \in References, NEW u \in Unemployed,
           answer = [verdict |-> "validated", firm |-> firm, ref |-> ref, unemployed |-> u,
                     of |-> Validated(request, firm, ref, u)]
    PROVE  GrantedAsItStands
<1> DEFINE B(f, x) == Limits(f, x, firm, ref, u)
           g == [f \in DOMAIN request |-> Clip(B(f, request[f])[1], B(f, request[f])[2], request[f])]
           again == Validated(g, firm, ref, u)
<1>1. Validated(request, firm, ref, u).granted = g
  BY DEF Validated
<1>2. ASSUME NEW f \in DOMAIN request
      PROVE  Clip(B(f, g[f])[1], B(f, g[f])[2], g[f]) = g[f]
  <2>1. g[f] = Clip(B(f, request[f])[1], B(f, request[f])[2], request[f])
    OBVIOUS
  <2>2. f \in Fields /\ request[f] \in Int /\ ref \in Int /\ u \in Int
    BY RequestTyped, DeskConstants
  <2> HIDE DEF g
  <2> QED BY <2>1, <2>2, GrantStands
<1>3. DOMAIN g = DOMAIN request
  OBVIOUS
<1>4. again.granted = [f \in DOMAIN g |-> Clip(B(f, g[f])[1], B(f, g[f])[2], g[f])]
  BY DEF Validated
<1>5. again.granted = g
  <2>1. g = [f \in DOMAIN request |-> g[f]]
    OBVIOUS
  <2> HIDE DEF g, again, B
  <2> QED BY <1>2, <1>3, <1>4, <2>1
<1>6. again.adjusted = {}
  <2>1. again.adjusted = {f \in DOMAIN g \cap Reported : again.granted[f] # g[f]}
    BY DEF Validated
  <2> HIDE DEF g, again, B
  <2> QED BY <1>5, <2>1
<1>7. /\ answer.of.granted = g /\ answer.firm = firm /\ answer.ref = ref /\ answer.unemployed = u
  BY <1>1
<1> HIDE DEF g, B
<1> QED BY <1>5, <1>6, <1>7 DEF GrantedAsItStands

LEMMA AnswersSound == Answered => GrantsWithinMeans /\ GrantedAsItStands
<1>1. CASE answer \in {NoAnswer, Refused}
  BY <1>1 DEF GrantsWithinMeans, GrantedAsItStands, NoAnswer, Refused
<1>2. CASE \E request \in Requests, firm \in Standings, ref \in References, u \in Unemployed :
              answer = [verdict |-> "validated", firm |-> firm, ref |-> ref, unemployed |-> u,
                        of |-> Validated(request, firm, ref, u)]
  BY <1>2, GrantedWithin, StandsAsGranted
<1> QED BY <1>1, <1>2 DEF Answered

-----------------------------------------------------------------------------
(* Ratings. *)

LEMMA ConditionTyped ==
    ASSUME NEW c \in Conditions
    PROVE  /\ c.nd \in Int /\ c.icr \in Int /\ c.size \in Int /\ c.vol \in Int
           /\ c.ebitda \in Int /\ c.plant \in Int /\ c.gate \in Int
<1>1. c \in [nd : Int, icr : Int, size : Int, vol : Int, ebitda : Int, plant : Int, gate : Int]
  BY FirmDeskAssumption
<1> QED BY <1>1

\* A rating is one of seven.
LEMMA LetterTyped == ASSUME NEW nd \in Int PROVE Letter(nd) \in 1 .. 7
<1>1. PICK n \in Int : n = -((-nd) \div 100)
  OBVIOUS
<1> QED BY <1>1 DEF Letter, Lesser, Greater

LEMMA RatingTyped == ASSUME NEW c \in Conditions PROVE Rating(c) \in 1 .. 7
<1>1. Letter(c.nd) \in 1 .. 7
  BY ConditionTyped, LetterTyped
<1>2. Worse(c) \in Nat
  BY ConditionTyped DEF Worse
<1> QED BY <1>1, <1>2 DEF Rating, Lesser

LEMMA OrderedProduct ==
    ASSUME NEW a \in Nat, NEW b \in Nat, NEW m \in Nat, NEW n \in Nat, a =< b, m =< n
    PROVE  a * m =< b * n
<1>1. a * m =< a * n
  BY Ordered
<1>2. n * a =< n * b
  BY Ordered
<1>3. n * a = a * n /\ n * b = b * n /\ a * m \in Nat /\ a * n \in Nat /\ b * n \in Nat
  BY Product
<1> QED BY <1>1, <1>2, <1>3

\* No worse firm, no worse rating.
LEMMA RatingOrdered ==
    ASSUME NEW c \in Conditions, NEW d \in Conditions, NoBetter(d, c)
    PROVE  Rating(c) =< Rating(d)
<1>1. /\ c.nd \in Int /\ c.icr \in Int /\ c.size \in Int /\ c.vol \in Int
      /\ d.nd \in Int /\ d.icr \in Int /\ d.size \in Int /\ d.vol \in Int
      /\ c.nd =< d.nd /\ d.icr =< c.icr /\ d.size =< c.size /\ c.vol =< d.vol
  BY ConditionTyped DEF NoBetter
<1>2. Letter(c.nd) =< Letter(d.nd)
  <2>1. PICK m \in Int : m = -((-c.nd) \div 100)
    BY <1>1
  <2>2. PICK n \in Int : n = -((-d.nd) \div 100)
    BY <1>1
  <2>3. m =< n
    BY <1>1, <2>1, <2>2
  <2>4. Letter(c.nd) = Lesser(7, Greater(1, m)) /\ Letter(d.nd) = Lesser(7, Greater(1, n))
    BY <2>1, <2>2 DEF Letter
  <2> QED BY ONLY <2>3, <2>4 DEF Lesser, Greater
<1>3. Worse(c) \in Nat /\ Worse(d) \in Nat /\ Worse(c) =< Worse(d)
  BY <1>1 DEF Worse
<1>4. Letter(c.nd) \in 1 .. 7 /\ Letter(d.nd) \in 1 .. 7
  BY <1>1, LetterTyped
<1> QED BY <1>2, <1>3, <1>4 DEF Rating, Lesser

\* Nor a larger line for a worse one.
LEMMA LineOrdered ==
    ASSUME NEW c \in Conditions, NEW d \in Conditions, NoBetter(d, c)
    PROVE  /\ CreditLimit(c) \in Nat /\ CreditLimit(d) \in Nat
           /\ CreditLimit(d) =< CreditLimit(c)
<1> DEFINE e(x) == Hard * 100 * OrZero(x.ebitda)
           p(x) == Line * OrZero(x.plant)
           g(x) == OrZero(x.gate)
           m(x) == Multiplier[Rating(x)]
<1>1. /\ OrZero(c.ebitda) \in Nat /\ OrZero(d.ebitda) \in Nat /\ OrZero(d.ebitda) =< OrZero(c.ebitda)
      /\ OrZero(c.plant) \in Nat /\ OrZero(d.plant) \in Nat /\ OrZero(d.plant) =< OrZero(c.plant)
      /\ g(c) \in Nat /\ g(d) \in Nat /\ g(d) =< g(c)
  BY ConditionTyped DEF NoBetter, OrZero
<1>2. e(c) \in Nat /\ e(d) \in Nat /\ e(d) =< e(c)
  <2>1. Hard * 100 \in Nat
    BY DeskConstants
  <2> QED BY <1>1, <2>1, Ordered, Product
<1>3. p(c) \in Nat /\ p(d) \in Nat /\ p(d) =< p(c)
  BY <1>1, DeskConstants, Ordered, Product
<1>4. m(c) \in Nat /\ m(d) \in Nat /\ m(d) =< m(c)
  <2>1. Rating(c) \in 1 .. 7 /\ Rating(d) \in 1 .. 7 /\ Rating(c) =< Rating(d)
    BY RatingTyped, RatingOrdered
  <2> QED BY <2>1, DeskConstants
<1>5. /\ CreditLimit(c) = Lesser(e(c), p(c)) * (g(c) * m(c))
      /\ CreditLimit(d) = Lesser(e(d), p(d)) * (g(d) * m(d))
  BY DEF CreditLimit
<1> HIDE DEF e, p, g, m
<1>6. /\ Lesser(e(c), p(c)) \in Nat /\ Lesser(e(d), p(d)) \in Nat
      /\ Lesser(e(d), p(d)) =< Lesser(e(c), p(c))
  BY <1>2, <1>3 DEF Lesser
<1>7. g(c) * m(c) \in Nat /\ g(d) * m(d) \in Nat /\ g(d) * m(d) =< g(c) * m(c)
  BY <1>1, <1>4, Product, OrderedProduct
<1> QED BY <1>5, <1>6, <1>7, Product, OrderedProduct

LEMMA DrawableOrdered ==
    ASSUME NEW c \in Conditions, NEW d \in Conditions, NoBetter(d, c)
    PROVE  Drawable(c) \in Nat /\ Drawable(d) \in Nat /\ Drawable(d) =< Drawable(c)
<1>1. Breach(c) => Breach(d)
  <2>1. 100 * Soft \in Int
    BY DeskConstants
  <2> QED BY <2>1, ConditionTyped DEF NoBetter, Breach
<1> QED BY <1>1, LineOrdered DEF Drawable

LEMMA DrawableTyped == ASSUME NEW c \in Conditions PROVE Drawable(c) \in Nat
<1>1. NoBetter(c, c)
  BY ConditionTyped DEF NoBetter
<1> QED BY <1>1, DrawableOrdered

LEMMA RatingsSound == Rated => RatedInOrder
<1> SUFFICES ASSUME Rated, NEW i \in DOMAIN rated, NEW j \in DOMAIN rated,
                    NoBetter(rated[j].of, rated[i].of)
             PROVE  rated[i].letter =< rated[j].letter /\ rated[j].drawable =< rated[i].drawable
  BY DEF RatedInOrder
<1>1. rated[i] \in Ratings /\ rated[j] \in Ratings
  BY DEF Rated
<1>2. rated[i].of \in Conditions /\ rated[j].of \in Conditions
  BY <1>1 DEF Ratings
<1> QED BY <1>2, RatingOrdered, DrawableOrdered DEF Rated

-----------------------------------------------------------------------------
LEMMA DeskStarts == DeskInit => DeskInv
BY DeskConstants DEF DeskInit, DeskInv, DeskTypes, Answered, Rated, TaxedOnce, SheetsInOrder

LEMMA DecideKeeps ==
    ASSUME DeskInv, NEW who, NEW request \in Requests, NEW firm \in Standings, NEW ref \in References,
           NEW u \in Unemployed, Decide(who, request, firm, ref, u)
    PROVE  DeskInv'
<1>1. UNCHANGED <<tick, operator, rated, carry, taxed, earned, sheets, quarterEnd>>
  BY DEF Decide
<1>2. DeskTypes' /\ Rated' /\ TaxedOnce' /\ SheetsInOrder'
  BY <1>1 DEF DeskInv, DeskTypes, Rated, TaxedOnce, SheetsInOrder
<1>3. Answered'
  <2>1. CASE who # operator
    BY <2>1 DEF Decide, Answered
  <2>2. CASE who = operator
    BY <2>2 DEF Decide, Answered
  <2> QED BY <2>1, <2>2
<1> QED BY <1>2, <1>3 DEF DeskInv

LEMMA ScoreKeeps ==
    ASSUME DeskInv, NEW c \in Conditions, Score(c)
    PROVE  DeskInv'
<1>1. UNCHANGED <<tick, operator, answer, carry, taxed, earned, sheets, quarterEnd>>
  BY DEF Score
<1>2. DeskTypes' /\ Answered' /\ TaxedOnce' /\ SheetsInOrder'
  BY <1>1 DEF DeskInv, DeskTypes, Answered, TaxedOnce, SheetsInOrder
<1>3. PICK r : r = [of |-> c, letter |-> Rating(c), drawable |-> Drawable(c)] /\ rated' = Append(rated, r)
  BY DEF Score
<1>4. r \in Ratings /\ r.letter = Rating(r.of) /\ r.drawable = Drawable(r.of)
  BY <1>3, RatingTyped, DrawableTyped DEF Ratings
<1>5. rated \in Seq(Ratings)
  BY DEF DeskInv, Rated
<1>6. /\ rated' \in Seq(Ratings) /\ DOMAIN rated' = DOMAIN rated \cup {Len(rated) + 1}
      /\ rated'[Len(rated) + 1] = r /\ \A i \in DOMAIN rated : rated'[i] = rated[i]
  BY <1>3, <1>4, <1>5
<1>7. Rated'
  <2>1. ASSUME NEW i \in DOMAIN rated'
        PROVE  rated'[i].letter = Rating(rated'[i].of) /\ rated'[i].drawable = Drawable(rated'[i].of)
    <3>1. CASE i = Len(rated) + 1
      BY <1>4, <1>6, <3>1
    <3>2. CASE i \in DOMAIN rated
      BY <1>6, <3>2 DEF DeskInv, Rated
    <3> QED BY <1>6, <3>1, <3>2
  <2> QED BY <1>6, <2>1 DEF Rated
<1> QED BY <1>2, <1>7 DEF DeskInv

LEMMA CloseBooksKeeps ==
    ASSUME DeskInv, NEW ebt \in Ebts, CloseBooks(ebt)
    PROVE  DeskInv'
<1> USE DEF DeskInv
<1>1. ebt \in Int
  BY DeskConstants
<1>2. UNCHANGED <<tick, operator, answer, rated, decisions>>
  BY DEF CloseBooks
<1>3. Answered' /\ Rated'
  BY <1>2 DEF Answered, Rated
<1>4. carry' \in Nat /\ taxed' \in Int /\ earned' \in Int /\ TaxedOnce'
  BY <1>1 DEF CloseBooks, Tax, Lesser, TaxedOnce, DeskTypes
<1>5. sheets' = Append(sheets, tick) /\ quarterEnd' \in {tick, quarterEnd} /\ tick \notin Range(sheets)
  BY DEF CloseBooks
<1>6. sheets' \in Seq(Nat) /\ Len(sheets') = Len(sheets) + 1 /\ sheets'[Len(sheets) + 1] = tick
      /\ \A i \in 1 .. Len(sheets) : sheets'[i] = sheets[i]
  BY <1>5 DEF DeskTypes
<1>7. \A i \in 1 .. Len(sheets) : sheets[i] \in Nat /\ sheets[i] < tick
  BY <1>5 DEF DeskTypes, SheetsInOrder, Range
<1>8. DeskTypes'
  BY <1>2, <1>4, <1>5, <1>6 DEF DeskTypes
<1>9. SheetsInOrder'
  <2>1. ASSUME NEW i \in 1 .. Len(sheets'), NEW j \in 1 .. Len(sheets'), i < j
        PROVE  sheets'[i] < sheets'[j]
    <3>1. i \in 1 .. Len(sheets)
      BY <1>6, <2>1 DEF DeskTypes
    <3>2. sheets'[i] = sheets[i]
      BY <1>6, <3>1
    <3>3. CASE j = Len(sheets) + 1
      BY <1>6, <1>7, <3>1, <3>2, <3>3
    <3>4. CASE j # Len(sheets) + 1
      <4>1. j \in 1 .. Len(sheets) /\ sheets'[j] = sheets[j]
        BY <1>6, <3>4 DEF DeskTypes
      <4>2. \A k, l \in 1 .. Len(sheets) : k < l => sheets[k] < sheets[l]
        BY DEF SheetsInOrder, DeskTypes
      <4> QED BY <2>1, <3>1, <3>2, <4>1, <4>2
    <3> QED BY <3>3, <3>4
  <2>2. ASSUME NEW i \in 1 .. Len(sheets') PROVE sheets'[i] =< tick'
    BY <1>2, <1>6, <1>7 DEF DeskTypes
  <2>3. ASSUME quarterEnd' # None PROVE \E i \in 1 .. Len(sheets') : sheets'[i] = quarterEnd'
    <3>1. CASE quarterEnd' = tick
      BY <1>6, <3>1 DEF DeskTypes
    <3>2. CASE quarterEnd' = quarterEnd
      <4>1. PICK i \in 1 .. Len(sheets) : sheets[i] = quarterEnd
        BY <2>3, <3>2 DEF DeskTypes, SheetsInOrder
      <4> QED BY <1>6, <3>2, <4>1 DEF DeskTypes
    <3> QED BY <1>5, <3>1, <3>2
  <2>4. DOMAIN sheets' = 1 .. Len(sheets')
    BY <1>6
  <2> QED BY <2>1, <2>2, <2>3, <2>4 DEF SheetsInOrder
<1> QED BY <1>3, <1>4, <1>8, <1>9

LEMMA DeskSteps == DeskInv /\ [DeskNext]_desk_vars => DeskInv'
<1> SUFFICES ASSUME DeskInv, [DeskNext]_desk_vars PROVE DeskInv'
  OBVIOUS
<1>1. CASE \E who \in Operators, request \in Requests, firm \in Standings, ref \in References, u \in Unemployed :
              Decide(who, request, firm, ref, u)
  BY <1>1, DecideKeeps
<1>2. CASE \E c \in Conditions : Score(c)
  BY <1>2, ScoreKeeps
<1>3. CASE \E ebt \in Ebts : CloseBooks(ebt)
  BY <1>3, CloseBooksKeeps
<1>4. CASE Day
  BY <1>4 DEF Day, DeskInv, DeskTypes, Answered, Rated, TaxedOnce, SheetsInOrder
<1>5. CASE \E to \in Operators : HandOver(to)
  BY <1>5 DEF HandOver, DeskInv, DeskTypes, Answered, Rated, TaxedOnce, SheetsInOrder
<1>6. CASE UNCHANGED desk_vars
  BY <1>6 DEF desk_vars, DeskInv, DeskTypes, Answered, Rated, TaxedOnce, SheetsInOrder
<1> QED BY <1>1, <1>2, <1>3, <1>4, <1>5, <1>6 DEF DeskNext

\* A bounded set of indices has a last one.
LEMMA LastIndex ==
    ASSUME NEW n \in Nat, NEW S, S \subseteq 1 .. n, S # {}
    PROVE  Max(S) \in S /\ \A i \in S : i =< Max(S)
<1> DEFINE T == {k \in Nat : \A U \in SUBSET (1 .. k) : U # {} => \E m \in U : \A i \in U : i =< m}
<1>1. 0 \in T
  <2>1. 1 .. 0 = {}
    OBVIOUS
  <2> QED BY <2>1
<1>2. ASSUME NEW k \in Nat, k \in T PROVE k + 1 \in T
  <2>1. ASSUME NEW U \in SUBSET (1 .. k + 1), U # {} PROVE \E m \in U : \A i \in U : i =< m
    <3>1. CASE k + 1 \in U
      BY <3>1
    <3>2. CASE k + 1 \notin U
      <4>1. U \in SUBSET (1 .. k)
        BY <3>2
      <4> QED BY <1>2, <2>1, <4>1
    <3> QED BY <3>1, <3>2
  <2> QED BY <2>1
<1>3. n \in T
  <2> HIDE DEF T
  <2> QED BY <1>1, <1>2, Induction
<1>4. PICK m \in S : \A i \in S : i =< m
  BY <1>3
<1>5. \E m2 \in S : \A i \in S : m2 >= i
  BY <1>4
<1> QED BY <1>5 DEF Max

\* Who may trade waits until the sheet of the quarter is old enough for everybody.
LEMMA WhoTradesKnowsNoMore == DeskInv => InsidersWait
<1> SUFFICES ASSUME DeskInv, CanTrade(tick), Professional, quarterEnd # None,
                    NEW v \in Operators \ {operator}
             PROVE  Shown(v, tick) # None /\ Shown(v, tick) >= quarterEnd
  BY DEF InsidersWait
<1> USE DEF DeskInv, DeskTypes
<1>1. quarterEnd \in Nat /\ tick >= quarterEnd + QuarterlyLag
  BY DEF CanTrade
<1>2. PICK q \in 1 .. Len(sheets) : sheets[q] = quarterEnd
  BY DEF SheetsInOrder
<1> DEFINE old == {i \in DOMAIN sheets : tick - sheets[i] >= MonthlyLag}
<1>3. q \in old
  <2>1. q \in DOMAIN sheets
    BY <1>2
  <2>2. MonthlyLag \in Int /\ QuarterlyLag \in Int /\ MonthlyLag =< QuarterlyLag
    BY ONLY DeskConstants
  <2>3. tick - sheets[q] >= MonthlyLag
    <3>1. tick \in Int
      OBVIOUS
    <3> QED BY ONLY <1>1, <1>2, <2>2, <3>1
  <2> QED BY ONLY <2>1, <2>3 DEF old
<1>4. old \subseteq 1 .. Len(sheets) /\ Len(sheets) \in Nat
  OBVIOUS
<1>5. Shown(v, tick) = sheets[Max(old)]
  BY <1>3 DEF Shown
<1>6. Max(old) \in old /\ q =< Max(old)
  <2> HIDE DEF old
  <2> QED BY <1>3, <1>4, LastIndex
<1>7. Max(old) \in 1 .. Len(sheets) /\ sheets[Max(old)] \in Nat
  <2> HIDE DEF old
  <2>1. Max(old) \in 1 .. Len(sheets)
    BY <1>4, <1>6
  <2>2. \A i \in 1 .. Len(sheets) : sheets[i] \in Nat
    OBVIOUS
  <2> QED BY <2>1, <2>2
<1>8. sheets[q] =< sheets[Max(old)]
  <2>1. \A i, j \in 1 .. Len(sheets) : i < j => sheets[i] < sheets[j]
    BY DEF SheetsInOrder
  <2>2. sheets[q] \in Nat
    BY <1>1, <1>2
  <2> HIDE DEF old
  <2>3. PICK m \in 1 .. Len(sheets) : m = Max(old)
    BY <1>7
  <2>4. CASE q = m
    BY <2>2, <2>3, <2>4
  <2>5. CASE q < m
    <3>1. sheets[q] < sheets[m] /\ sheets[m] \in Nat
      BY <1>2, <1>7, <2>1, <2>3, <2>5
    <3> QED BY <2>2, <2>3, <3>1
  <2> QED BY <1>4, <1>6, <2>3, <2>4, <2>5
<1> HIDE DEF old
<1> QED BY <1>1, <1>2, <1>5, <1>7, <1>8, DeskConstants

\* Whatever is asked of whatever firm a call finds, what is granted can be carried out and stands
\* when it is asked for again; a worse firm is rated no better; what is not taxed is carried
\* forward; and who trades knows no more than others.
THEOREM DecisionsCheckedCorrect == DeskSpec => []DecisionsChecked
<1>1. DeskInv => DecisionsChecked
  BY AnswersSound, RatingsSound, WhoTradesKnowsNoMore DEF DeskInv, DecisionsChecked
<1> QED BY <1>1, DeskStarts, DeskSteps, PTL DEF DeskSpec
=============================================================================
