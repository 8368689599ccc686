------------------------------ MODULE SumLemmas ------------------------------
(* What SumFunction does when one value of a function over a finite set      *)
(* changes.  The sum is a fold, a recursive function over the subsets of the *)
(* set: the lemmas show that such a function exists, and then compare two of *)
(* them.  Every induction is a minimal counterexample (WFMin), because the   *)
(* induction theorems of the library take an operator as a parameter.        *)
EXTENDS FiniteSetTheorems, TLAPS

\* The element the fold takes out of a set next.
Picked(s) == CHOOSE x \in s : TRUE

\* h sums f over every subset of U, taking elements out in that order.
Sums(h, f, U) ==
    h = [s \in SUBSET U |-> IF s = {} THEN 0 ELSE f[Picked(s)] + h[s \ {Picked(s)}]]

\* What such a function is at a set, and at the set less one element.
Unfolds(h, f, U) ==
    /\ h[{}] = 0
    /\ \A s \in SUBSET U : s # {} => h[s] = f[Picked(s)] + h[s \ {Picked(s)}]

\* The function a fold of f over S denotes.
SumOver(f, S) == CHOOSE h : Sums(h, f, S)

\* A non-empty set of subsets of a finite set has a minimal element.
LEMMA MinimalSubset ==
    ASSUME NEW S, IsFiniteSet(S), NEW B, B \subseteq SUBSET S, B # {}
    PROVE  \E m \in B : \A y \in B : y \subseteq m => y = m
<1>1. IsWellFoundedOn(StrictSubsetOrdering(S), SUBSET S)
    BY FS_StrictSubsetOrderingWellFounded, FS_FiniteSubsetsOfFinite
<1>2. PICK m \in B : \A y \in B : ~(<<y, m>> \in StrictSubsetOrdering(S))
    BY <1>1, WFMin
<1>3. ASSUME NEW y \in B, y \subseteq m PROVE y = m
    BY <1>2, <1>3 DEF StrictSubsetOrdering
<1> QED
    BY <1>3

\* The picked element is one of the set.
LEMMA PickedIn == ASSUME NEW s, s # {} PROVE Picked(s) \in s
BY DEF Picked

\* The defining equation of such a function, set by set.
LEMMA SumsUnfold ==
    ASSUME NEW f, NEW U, NEW h, Sums(h, f, U)
    PROVE  Unfolds(h, f, U)
<1> DEFINE body(s) == IF s = {} THEN 0 ELSE f[Picked(s)] + h[s \ {Picked(s)}]
<1>1. h = [s \in SUBSET U |-> body(s)]
    BY DEF Sums
<1> HIDE DEF body
<1>2. \A s \in SUBSET U : h[s] = body(s)
    BY <1>1
<1> QED
    BY <1>2 DEF body, Unfolds

\* There is at most one such function.
LEMMA SumsUnique ==
    ASSUME NEW f, NEW U, IsFiniteSet(U), NEW g, NEW h, Sums(g, f, U), Sums(h, f, U)
    PROVE  g = h
<1>0. /\ \A s \in SUBSET U : s # {} => g[s] = f[Picked(s)] + g[s \ {Picked(s)}]
      /\ \A s \in SUBSET U : s # {} => h[s] = f[Picked(s)] + h[s \ {Picked(s)}]
      /\ g[{}] = 0 /\ h[{}] = 0
    BY SumsUnfold DEF Unfolds
<1> DEFINE B == {s \in SUBSET U : g[s] # h[s]}
<1>1. B = {}
    <2> SUFFICES ASSUME B # {} PROVE FALSE
        OBVIOUS
    <2>0. B \subseteq SUBSET U
        OBVIOUS
    <2> HIDE DEF B
    <2>1. PICK m \in B : \A y \in B : y \subseteq m => y = m
        BY <2>0, MinimalSubset
    <2> USE DEF B
    <2>2. m # {}
        BY <1>0
    <2>3. Picked(m) \in m
        BY <2>2, PickedIn
    <2>4. m \ {Picked(m)} \notin B /\ m \ {Picked(m)} \in SUBSET U
        BY <2>1, <2>3
    <2>5. g[m \ {Picked(m)}] = h[m \ {Picked(m)}]
        BY <2>4
    <2>6. m \in SUBSET U
        OBVIOUS
    <2>7. g[m] = f[Picked(m)] + g[m \ {Picked(m)}]
        BY <1>0, <2>2, <2>6
    <2>8. h[m] = f[Picked(m)] + h[m \ {Picked(m)}]
        BY <1>0, <2>2, <2>6
    <2> QED
        BY <2>5, <2>7, <2>8
<1>2. \A s \in SUBSET U : g[s] = h[s]
    BY <1>1
<1>3. g = [s \in SUBSET U |-> g[s]] /\ h = [s \in SUBSET U |-> h[s]]
    BY DEF Sums
<1> QED
    BY <1>2, <1>3

\* Such a function, restricted to fewer subsets, is still one.
LEMMA SumsRestrict ==
    ASSUME NEW f, NEW U, NEW h, Sums(h, f, U)
    PROVE  \A V \in SUBSET U : Sums([s \in SUBSET V |-> h[s]], f, V)
<1>0. /\ h[{}] = 0
      /\ \A s \in SUBSET U : s # {} => h[s] = f[Picked(s)] + h[s \ {Picked(s)}]
    BY SumsUnfold DEF Unfolds
<1> TAKE V \in SUBSET U
<1> DEFINE r == [s \in SUBSET V |-> h[s]]
           body(s) == IF s = {} THEN 0 ELSE f[Picked(s)] + r[s \ {Picked(s)}]
<1>1. ASSUME NEW s \in SUBSET V PROVE r[s] = body(s)
    <2>1. CASE s = {}
        BY <1>0, <2>1
    <2>2. CASE s # {}
        <3>1. s \in SUBSET U /\ s \ {Picked(s)} \in SUBSET V
            OBVIOUS
        <3> HIDE DEF r
        <3>3. h[s] = f[Picked(s)] + h[s \ {Picked(s)}]
            BY <1>0, <2>2, <3>1
        <3>4. r[s] = h[s] /\ r[s \ {Picked(s)}] = h[s \ {Picked(s)}]
            BY <3>1 DEF r
        <3> QED
            BY <2>2, <3>3, <3>4
    <2> QED
        BY <2>1, <2>2
<1> HIDE DEF body
<1>2. r = [s \in SUBSET V |-> body(s)]
    BY <1>1
<1> QED
    BY <1>2 DEF Sums, body

\* There is such a function for every finite set.
LEMMA SumsExists ==
    ASSUME NEW f, NEW S, IsFiniteSet(S)
    PROVE  \E h : Sums(h, f, S)
<1> DEFINE B == {U \in SUBSET S : ~ \E h : Sums(h, f, U)}
<1>1. B = {}
    <2> SUFFICES ASSUME B # {} PROVE FALSE
        OBVIOUS
    <2>0. B \subseteq SUBSET S
        OBVIOUS
    <2> HIDE DEF B
    <2>1. PICK T \in B : \A y \in B : y \subseteq T => y = T
        BY <2>0, MinimalSubset
    <2> USE DEF B
    <2> DEFINE H == [s \in SUBSET T |->
                        IF s = {} THEN 0
                        ELSE f[Picked(s)] + SumOver(f, s \ {Picked(s)})[s \ {Picked(s)}]]
    <2>2. ASSUME NEW V \in SUBSET T, V # T PROVE Sums(SumOver(f, V), f, V) /\ IsFiniteSet(V)
        <3>1. V \notin B /\ V \in SUBSET S
            BY <2>1, <2>2
        <3>2. \E h : Sums(h, f, V)
            BY <3>1
        <3>3. Sums(SumOver(f, V), f, V)
            BY <3>2 DEF SumOver
        <3> QED
            BY <3>1, <3>3, FS_Subset
    <2>3. ASSUME NEW V \in SUBSET T, V # T PROVE SumOver(f, V)[V] = H[V]
        <3>1. Sums(SumOver(f, V), f, V) /\ IsFiniteSet(V)
            BY <2>2, <2>3
        <3>2. CASE V = {}
            <4>1. H[V] = 0
                BY <3>2
            <4>2. SumOver(f, V)[{}] = 0
                BY <3>1, SumsUnfold DEF Unfolds
            <4> QED
                BY <3>2, <4>1, <4>2
        <3>3. CASE V # {}
            <4> DEFINE W == V \ {Picked(V)}
            <4>1. Picked(V) \in V
                BY <3>3, PickedIn
            <4>2. W \in SUBSET V /\ W \in SUBSET T /\ W # T
                BY <2>3, <4>1
            <4>3. Sums(SumOver(f, W), f, W) /\ IsFiniteSet(W)
                BY <2>2, <4>2
            <4>4. SumOver(f, V)[V] = f[Picked(V)] + SumOver(f, V)[W]
                BY <3>1, <3>3, SumsUnfold DEF Unfolds
            <4>5. H[V] = f[Picked(V)] + SumOver(f, W)[W]
                BY <3>3
            <4> DEFINE r == [s \in SUBSET W |-> SumOver(f, V)[s]]
            <4>6. Sums(r, f, W)
                BY <3>1, <4>2, SumsRestrict
            <4>7. r = SumOver(f, W)
                BY <4>3, <4>6, SumsUnique
            <4>8. r[W] = SumOver(f, V)[W]
                OBVIOUS
            <4> QED
                BY <4>4, <4>5, <4>7, <4>8
        <3> QED
            BY <3>2, <3>3
    <2>4. ASSUME NEW s \in SUBSET T
          PROVE  H[s] = IF s = {} THEN 0 ELSE f[Picked(s)] + H[s \ {Picked(s)}]
        <3>1. CASE s = {}
            BY <3>1
        <3>2. CASE s # {}
            <4> DEFINE W == s \ {Picked(s)}
            <4>1. Picked(s) \in s
                BY <3>2, PickedIn
            <4>2. W \in SUBSET T /\ W # T
                BY <4>1
            <4>3. SumOver(f, W)[W] = H[W]
                BY <2>3, <4>2
            <4>4. H[s] = f[Picked(s)] + SumOver(f, W)[W]
                BY <3>2
            <4> QED
                BY <3>2, <4>3, <4>4
        <3> QED
            BY <3>1, <3>2
    <2> DEFINE body(s) == IF s = {} THEN 0 ELSE f[Picked(s)] + H[s \ {Picked(s)}]
    <2>5. H = [s \in SUBSET T |-> H[s]]
        OBVIOUS
    <2> HIDE DEF H
    <2>6. \A s \in SUBSET T : H[s] = body(s)
        BY <2>4
    <2> HIDE DEF body
    <2>7. H = [s \in SUBSET T |-> body(s)]
        BY <2>5, <2>6
    <2>8. Sums(H, f, T)
        BY <2>7 DEF Sums, body
    <2> QED
        BY <2>1, <2>8
<1>2. S \in SUBSET S
    OBVIOUS
<1> QED
    BY <1>1, <1>2

\* The function a fold denotes; it takes integers where f does.
LEMMA SumOverUnfold ==
    ASSUME NEW f, NEW S, IsFiniteSet(S)
    PROVE  Unfolds(SumOver(f, S), f, S)
<1>1. Sums(SumOver(f, S), f, S)
    BY SumsExists DEF SumOver
<1> QED
    BY <1>1, SumsUnfold

\* The sum of every subset is an integer.
LEMMA SumOverType ==
    ASSUME NEW f, NEW S, IsFiniteSet(S), \A x \in S : f[x] \in Int, NEW h, Unfolds(h, f, S)
    PROVE  \A s \in SUBSET S : h[s] \in Int
<1> DEFINE B == {s \in SUBSET S : h[s] \notin Int}
<1>1. B \subseteq SUBSET S
    OBVIOUS
<1> SUFFICES ASSUME B # {} PROVE FALSE
    OBVIOUS
<1> HIDE DEF B
<1>2. PICK m \in B : \A y \in B : y \subseteq m => y = m
    BY <1>1, MinimalSubset
<1> USE DEF B
<1>3. {} \notin B
    BY DEF Unfolds
<1>4. m # {} /\ m \in SUBSET S
    BY <1>3
<1>5. Picked(m) \in m
    BY <1>4, PickedIn
<1>6. m \ {Picked(m)} \notin B /\ m \ {Picked(m)} \in SUBSET S
    BY <1>2, <1>5
<1>7. h[m \ {Picked(m)}] \in Int /\ f[Picked(m)] \in Int
    BY <1>4, <1>5, <1>6
<1>8. h[m] = f[Picked(m)] + h[m \ {Picked(m)}]
    BY <1>4 DEF Unfolds
<1> QED
    BY <1>7, <1>8

\* The sum changes as much as the one value that changes.
LEMMA UnfoldsUpdate ==
    ASSUME NEW S, IsFiniteSet(S), NEW f, NEW g, \A x \in S : f[x] \in Int /\ g[x] \in Int,
           NEW a, a \in S, \A x \in S : x # a => g[x] = f[x],
           NEW F, NEW G, Unfolds(F, f, S), Unfolds(G, g, S)
    PROVE  F[S] \in Int /\ G[S] \in Int /\ G[S] = F[S] + g[a] - f[a]
<1>1. \A s \in SUBSET S : F[s] \in Int /\ G[s] \in Int
    BY SumOverType
<1> DEFINE change(s) == IF a \in s THEN g[a] - f[a] ELSE 0
           B == {s \in SUBSET S : G[s] # F[s] + change(s)}
<1>2. B \subseteq SUBSET S
    OBVIOUS
<1>3. B = {}
    <2> SUFFICES ASSUME B # {} PROVE FALSE
        OBVIOUS
    <2> HIDE DEF B
    <2>1. PICK m \in B : \A y \in B : y \subseteq m => y = m
        BY <1>2, MinimalSubset
    <2> USE DEF B
    <2>2. {} \notin B
        BY DEF Unfolds
    <2>3. m # {} /\ m \in SUBSET S
        BY <2>2
    <2> DEFINE x == Picked(m)
               w == m \ {x}
    <2>4. x \in m /\ x \in S
        BY <2>3, PickedIn
    <2>5. w \notin B /\ w \in SUBSET S
        BY <2>1, <2>4
    <2>6. G[w] = F[w] + change(w) /\ F[w] \in Int /\ G[w] \in Int
        BY <1>1, <2>5
    <2>7. F[m] = f[x] + F[w] /\ G[m] = g[x] + G[w]
        BY <2>3 DEF Unfolds
    <2>8. f[x] \in Int /\ g[x] \in Int /\ f[a] \in Int /\ g[a] \in Int
        BY <2>4
    <2> HIDE DEF x
    <2>9. CASE x = a
        <3>1. change(w) = 0 /\ change(m) = g[a] - f[a]
            BY <2>4, <2>9
        <3>2. G[m] = F[m] + change(m)
            BY <2>6, <2>7, <2>8, <2>9, <3>1
        <3> QED
            BY <3>2
    <2>10. CASE x # a
        <3>1. change(w) = change(m) /\ g[x] = f[x] /\ change(m) \in Int
            BY <2>4, <2>8, <2>10
        <3>2. G[m] = F[m] + change(m)
            BY <2>6, <2>7, <2>8, <3>1
        <3> QED
            BY <3>2
    <2> QED
        BY <2>9, <2>10
<1>4. S \in SUBSET S
    OBVIOUS
<1>5. G[S] = F[S] + change(S)
    BY <1>3, <1>4
<1> QED
    BY <1>1, <1>4, <1>5

------------------------------------------------------------------------------
(* The three facts the other modules cite.                                   *)

\* SumFunction is the sum over the whole domain.
LEMMA SumFunctionDef ==
    ASSUME NEW S, NEW f, f = [x \in S |-> f[x]]
    PROVE  SumFunction(f) = SumOver(f, S)[S]
<1>1. DOMAIN f = S
    OBVIOUS
<1> QED
    BY <1>1 DEF SumFunction, SumFunctionOnSet, FoldFunctionOnSet, MapThenFoldSet, SumOver, Sums, Picked

\* The sum of an integer function over a finite set is an integer.
LEMMA SumType ==
    ASSUME NEW S, IsFiniteSet(S), NEW f \in [S -> Int]
    PROVE  SumFunction(f) \in Int
<1>1. Unfolds(SumOver(f, S), f, S) /\ \A x \in S : f[x] \in Int
    BY SumOverUnfold
<1>2. \A s \in SUBSET S : SumOver(f, S)[s] \in Int
    BY <1>1, SumOverType
<1> QED
    BY <1>2, SumFunctionDef

\* Two functions that differ in one place have sums that differ by that place.
LEMMA SumUpdate ==
    ASSUME NEW S, IsFiniteSet(S), NEW f \in [S -> Int], NEW g \in [S -> Int],
           NEW a \in S, \A x \in S : x # a => g[x] = f[x]
    PROVE  SumFunction(g) = SumFunction(f) + g[a] - f[a]
<1> DEFINE F == SumOver(f, S)
           G == SumOver(g, S)
<1>1. Unfolds(F, f, S) /\ Unfolds(G, g, S) /\ \A x \in S : f[x] \in Int /\ g[x] \in Int
    BY SumOverUnfold
<1>2. SumFunction(f) = F[S] /\ SumFunction(g) = G[S]
    BY SumFunctionDef
<1> HIDE DEF F, G
<1>3. G[S] = F[S] + g[a] - f[a]
    BY <1>1, UnfoldsUpdate
<1> QED
    BY <1>2, <1>3

\* The sum of zeroes is zero.
LEMMA SumZero ==
    ASSUME NEW S, IsFiniteSet(S), NEW f, f = [x \in S |-> 0]
    PROVE  SumFunction(f) = 0
<1> DEFINE F == SumOver(f, S)
<1>0. SumFunction(f) = F[S] /\ Unfolds(F, f, S)
    BY SumFunctionDef, SumOverUnfold
<1> HIDE DEF F
<1> DEFINE B == {s \in SUBSET S : F[s] # 0}
<1>1. B \subseteq SUBSET S
    OBVIOUS
<1>2. B = {}
    <2> SUFFICES ASSUME B # {} PROVE FALSE
        OBVIOUS
    <2> HIDE DEF B
    <2>1. PICK m \in B : \A y \in B : y \subseteq m => y = m
        BY <1>1, MinimalSubset
    <2> USE DEF B
    <2>2. m # {} /\ m \in SUBSET S
        BY <1>0 DEF Unfolds
    <2>3. Picked(m) \in m
        BY <2>2, PickedIn
    <2>4. m \ {Picked(m)} \notin B /\ m \ {Picked(m)} \in SUBSET S
        BY <2>1, <2>3
    <2>5. F[m \ {Picked(m)}] = 0 /\ f[Picked(m)] = 0
        BY <2>2, <2>3, <2>4
    <2>6. F[m] = f[Picked(m)] + F[m \ {Picked(m)}]
        BY <1>0, <2>2 DEF Unfolds
    <2> QED
        BY <2>5, <2>6
<1>3. S \in SUBSET S
    OBVIOUS
<1> QED
    BY <1>0, <1>2, <1>3
=============================================================================
