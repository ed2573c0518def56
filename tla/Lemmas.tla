------------------------------- MODULE Lemmas -------------------------------
(***************************************************************************)
(* Facts that proofs of several components need.                            *)
(*                                                                          *)
(* Sums, for the proofs that money is conserved: SumFunction is a fold,     *)
(* that is a recursive function on the subsets of its domain.  The          *)
(* induction over those subsets is made by hand: a set of counterexamples   *)
(* has a least one, because the strict subset ordering of a finite set is   *)
(* well founded.                                                            *)
(*                                                                          *)
(* Queues, for the proofs that a follower catches up: the states it is to   *)
(* go through are a function on the positions of the queue, so that no      *)
(* induction over the queue is needed.                                      *)
(***************************************************************************)
EXTENDS Integers, Sequences, Functions, FiniteSetTheorems, SequenceTheorems, TLAPS

\* The element that the fold takes out of a set.
Pick(s) == CHOOSE x \in s : TRUE

\* g gives every subset of D the sum of f over it, as the fold computes it.
Adds(g, f, D) ==
    g = [s \in SUBSET D |-> IF s = {} THEN 0 ELSE f[Pick(s)] + g[s \ {Pick(s)}]]

\* The sum of a function is the value of the fold at the whole domain.
LEMMA SumIsFold ==
    ASSUME NEW f
    PROVE  SumFunction(f) = (CHOOSE g : Adds(g, f, DOMAIN f))[DOMAIN f]
BY DEF SumFunction, SumFunctionOnSet, FoldFunctionOnSet, MapThenFoldSet, Adds, Pick

\* Every non-empty set of subsets of a finite set has a minimal member.
LEMMA Least ==
    ASSUME NEW D, IsFiniteSet(D), NEW T, T \subseteq SUBSET D, T # {}
    PROVE  \E s \in T : \A u \in T : u \subseteq s => u = s
<1>1. FiniteSubsetsOf(D) = SUBSET D
  BY FS_FiniteSubsetsOfFinite
<1>2. \E s \in T : \A u \in T : ~(<<u, s>> \in StrictSubsetOrdering(D))
  BY <1>1, FS_StrictSubsetOrderingWellFounded, WFMin
<1> QED BY <1>2 DEF StrictSubsetOrdering

\* The equation of the fold, case by case.
LEMMA AddsStep ==
    ASSUME NEW f, NEW D, NEW g, Adds(g, f, D), NEW s \in SUBSET D
    PROVE  /\ s = {} => g[s] = 0
           /\ s # {} => /\ Pick(s) \in s
                        /\ s \ {Pick(s)} \in SUBSET D
                        /\ g[s] = f[Pick(s)] + g[s \ {Pick(s)}]
<1>1. s # {} => Pick(s) \in s
  BY DEF Pick
<1>2. g[s] = IF s = {} THEN 0 ELSE f[Pick(s)] + g[s \ {Pick(s)}]
  BY DEF Adds
<1> QED BY <1>1, <1>2

\* The empty sum.
LEMMA AddsEmpty ==
    ASSUME NEW f, NEW D, NEW g, Adds(g, f, D)
    PROVE  g[{}] = 0
BY {} \in SUBSET D DEF Adds

\* Two functions that agree on a set have the same sum over it, whatever the
\* domains their sums are computed on.
LEMMA SameSums ==
    ASSUME NEW D, NEW E, NEW U, IsFiniteSet(U), U \subseteq D, U \subseteq E,
           NEW f, NEW e, \A x \in U : f[x] = e[x],
           NEW g, Adds(g, f, D), NEW h, Adds(h, e, E)
    PROVE  \A s \in SUBSET U : g[s] = h[s]
<1> DEFINE T == {s \in SUBSET U : g[s] # h[s]}
<1> SUFFICES ASSUME T # {} PROVE FALSE
  OBVIOUS
<1>1. PICK s \in T : \A u \in T : u \subseteq s => u = s
  <2>1. T \subseteq SUBSET U
    OBVIOUS
  <2> HIDE DEF T
  <2> QED BY <2>1, Least
<1>2. s \in SUBSET D /\ s \in SUBSET E
  OBVIOUS
<1>3. s # {}
  <2>1. g[{}] = 0 /\ h[{}] = 0
    BY AddsEmpty
  <2> QED BY <2>1
<1>4. /\ Pick(s) \in s
      /\ g[s] = f[Pick(s)] + g[s \ {Pick(s)}]
      /\ h[s] = e[Pick(s)] + h[s \ {Pick(s)}]
  BY <1>2, <1>3, AddsStep
<1>5. g[s \ {Pick(s)}] = h[s \ {Pick(s)}]
  BY <1>1, <1>4
<1> QED BY <1>4, <1>5

\* In particular, the sum over a set does not depend on the domain around it.
LEMMA SameSum ==
    ASSUME NEW D, NEW U, IsFiniteSet(U), U \subseteq D, NEW f,
           NEW g, Adds(g, f, D), NEW h, Adds(h, f, U)
    PROVE  h[U] = g[U]
<1>1. \A s \in SUBSET U : h[s] = g[s]
  <2>1. U \subseteq U /\ \A x \in U : f[x] = f[x]
    OBVIOUS
  <2> QED BY <2>1, SameSums
<1> QED BY <1>1

\* The fold is defined: some function satisfies its equation.
LEMMA FoldExists ==
    ASSUME NEW D, IsFiniteSet(D), NEW f
    PROVE  \E g : Adds(g, f, D)
<1> DEFINE Part(E) == CHOOSE g : Adds(g, f, E)
           T == {E \in SUBSET D : ~ \E g : Adds(g, f, E)}
<1> SUFFICES ASSUME T # {} PROVE FALSE
  OBVIOUS
<1>1. PICK E \in T : \A u \in T : u \subseteq E => u = E
  <2>1. T \subseteq SUBSET D
    OBVIOUS
  <2> HIDE DEF T
  <2> QED BY <2>1, Least
<1>2. ASSUME NEW u \in SUBSET E, u # E PROVE Adds(Part(u), f, u)
  <2>1. u \notin T
    BY <1>1, <1>2
  <2> QED BY <2>1, <1>2
<1>3. ASSUME NEW u \in SUBSET E, u # E, NEW w \in SUBSET u
      PROVE  Part(w)[w] = Part(u)[w]
  <2>1. Adds(Part(u), f, u) /\ Adds(Part(w), f, w)
    BY <1>2, <1>3
  <2>2. IsFiniteSet(w)
    BY FS_Subset
  <2> HIDE DEF Part
  <2>3. w \subseteq u
    OBVIOUS
  <2> QED BY <2>1, <2>2, <2>3, SameSum
<1> DEFINE g == [s \in SUBSET E |->
                  IF s = {} THEN 0
                  ELSE f[Pick(s)] + Part(s \ {Pick(s)})[s \ {Pick(s)}]]
<1> HIDE DEF Part
<1>4. ASSUME NEW u \in SUBSET E, u # E PROVE g[u] = Part(u)[u]
  <2>1. Adds(Part(u), f, u)
    BY <1>2, <1>4
  <2>2. CASE u = {}
    BY <2>1, <2>2, AddsStep
  <2>3. CASE u # {}
    <3>1. Pick(u) \in u /\ Part(u)[u] = f[Pick(u)] + Part(u)[u \ {Pick(u)}]
      BY <2>1, <2>3, AddsStep
    <3>2. Part(u)[u \ {Pick(u)}] = Part(u \ {Pick(u)})[u \ {Pick(u)}]
      BY <1>3, <1>4
    <3>3. g[u] = f[Pick(u)] + Part(u \ {Pick(u)})[u \ {Pick(u)}]
      BY <2>3
    <3> QED BY <3>1, <3>2, <3>3
  <2> QED BY <2>2, <2>3
<1>5. ASSUME NEW s \in SUBSET E, s # {}
      PROVE  g[s \ {Pick(s)}] = Part(s \ {Pick(s)})[s \ {Pick(s)}]
  <2>1. Pick(s) \in s
    BY <1>5 DEF Pick
  <2>2. s \ {Pick(s)} \in SUBSET E /\ s \ {Pick(s)} # E
    BY <2>1
  <2> HIDE DEF g
  <2> QED BY <1>4, <2>2
<1>6. g = [s \in SUBSET E |-> IF s = {} THEN 0 ELSE f[Pick(s)] + g[s \ {Pick(s)}]]
  BY <1>5
<1> QED BY <1>6 DEF Adds

\* The sum of f is the value, at its domain, of a function that adds it up.
LEMMA SumAdds ==
    ASSUME NEW D, IsFiniteSet(D), NEW f, DOMAIN f = D
    PROVE  \E g : Adds(g, f, D) /\ SumFunction(f) = g[D]
BY FoldExists, SumIsFold

\* Sums of integers are integers, and the elements may be added in any order.
LEMMA AnyOrder ==
    ASSUME NEW D, IsFiniteSet(D), NEW f, \A x \in D : f[x] \in Int,
           NEW g, Adds(g, f, D)
    PROVE  \A s \in SUBSET D :
              g[s] \in Int /\ \A x \in s : g[s] = f[x] + g[s \ {x}]
<1> DEFINE Ok(s) == g[s] \in Int /\ \A x \in s : g[s] = f[x] + g[s \ {x}]
           T == {s \in SUBSET D : ~Ok(s)}
<1> SUFFICES ASSUME T # {} PROVE FALSE
  OBVIOUS
<1>1. PICK s \in T : \A u \in T : u \subseteq s => u = s
  <2>1. T \subseteq SUBSET D
    OBVIOUS
  <2> HIDE DEF T
  <2> QED BY <2>1, Least
<1>2. \A u \in SUBSET s : u # s => Ok(u)
  BY <1>1
<1>3. s # {}
  <2>1. g[{}] = 0
    BY AddsEmpty
  <2> QED BY <2>1
<1> DEFINE p == Pick(s)
<1>4. p \in s /\ g[s] = f[p] + g[s \ {p}]
  BY <1>3, AddsStep
<1>5. g[s \ {p}] \in Int /\ f[p] \in Int
  BY <1>2, <1>4
<1>6. ASSUME NEW x \in s PROVE g[s] = f[x] + g[s \ {x}]
  <2>1. CASE x = p
    BY <1>4, <2>1
  <2>2. CASE x # p
    <3>1. g[s \ {p}] = f[x] + g[(s \ {p}) \ {x}]
      BY <1>2, <1>4, <2>2
    <3>2. g[s \ {x}] = f[p] + g[(s \ {x}) \ {p}]
      BY <1>2, <1>4, <2>2
    <3>3. (s \ {p}) \ {x} = (s \ {x}) \ {p}
      OBVIOUS
    <3>4. g[(s \ {x}) \ {p}] \in Int /\ f[x] \in Int
      BY <1>2, <1>4
    <3> QED BY <1>4, <1>5, <3>1, <3>2, <3>3, <3>4
  <2> QED BY <2>1, <2>2
<1>7. g[s] \in Int
  BY <1>4, <1>5
<1> QED BY <1>6, <1>7

-----------------------------------------------------------------------------
(***************************************************************************)
(* What other modules use of sums.  A change of one entry has a name, so    *)
(* that the facts about it are cited for a term of the step at hand.             *)
(***************************************************************************)
Put(f, a, v) == [f EXCEPT ![a] = v]
Plus(f, a, v) == [f EXCEPT ![a] = f[a] + v]
Minus(f, a, v) == [f EXCEPT ![a] = f[a] - v]

\* The sum of integers is an integer.
THEOREM SumType ==
    ASSUME NEW D, IsFiniteSet(D), NEW f \in [D -> Int]
    PROVE  SumFunction(f) \in Int
BY SumAdds, AnyOrder

\* The sum of nothing but zeros is zero.
THEOREM SumZero ==
    ASSUME NEW D, IsFiniteSet(D), NEW f \in [D -> {0}]
    PROVE  SumFunction(f) = 0
<1>1. PICK g : Adds(g, f, D) /\ SumFunction(f) = g[D]
  BY SumAdds
<1> DEFINE T == {s \in SUBSET D : g[s] # 0}
<1>2. T = {}
  <2> SUFFICES ASSUME T # {} PROVE FALSE
    OBVIOUS
  <2>1. PICK s \in T : \A u \in T : u \subseteq s => u = s
    <3>1. T \subseteq SUBSET D
      OBVIOUS
    <3> HIDE DEF T
    <3> QED BY <3>1, Least
  <2>2. s # {} /\ Pick(s) \in s /\ g[s] = f[Pick(s)] + g[s \ {Pick(s)}]
    BY <1>1, AddsStep
  <2>3. g[s \ {Pick(s)}] = 0 /\ f[Pick(s)] = 0
    BY <2>1, <2>2
  <2> QED BY <2>2, <2>3
<1> QED BY <1>1, <1>2

\* The sum of naturals is a natural, and no less than any of them.
THEOREM SumNat ==
    ASSUME NEW D, IsFiniteSet(D), NEW f \in [D -> Nat]
    PROVE  SumFunction(f) \in Nat /\ \A a \in D : f[a] <= SumFunction(f)
<1>1. PICK g : Adds(g, f, D) /\ SumFunction(f) = g[D]
  BY SumAdds
<1>2. ASSUME NEW s \in SUBSET D, NEW x \in s
      PROVE  g[s \ {x}] \in Int /\ g[s] = f[x] + g[s \ {x}]
  <2>1. \A y \in D : f[y] \in Int
    OBVIOUS
  <2>2. Adds(g, f, D)
    BY <1>1
  <2> QED BY <2>1, <2>2, AnyOrder
<1> DEFINE T == {s \in SUBSET D : g[s] \notin Nat}
<1>3. T = {}
  <2> SUFFICES ASSUME T # {} PROVE FALSE
    OBVIOUS
  <2>1. PICK s \in T : \A u \in T : u \subseteq s => u = s
    <3>1. T \subseteq SUBSET D
      OBVIOUS
    <3> HIDE DEF T
    <3> QED BY <3>1, Least
  <2>2. s # {}
    BY <1>1, AddsStep
  <2>3. PICK x \in s : TRUE
    BY <2>2
  <2>4. g[s] = f[x] + g[s \ {x}] /\ g[s \ {x}] \in Nat
    BY <1>2, <2>1
  <2> QED BY <2>4
<1>4. ASSUME NEW a \in D PROVE f[a] <= SumFunction(f)
  <2>1. g[D] = f[a] + g[D \ {a}] /\ g[D \ {a}] \in Nat
    BY <1>2, <1>3
  <2> QED BY <1>1, <2>1
<1> QED BY <1>1, <1>3, <1>4

\* Changing one value changes the sum by the difference.
LEMMA SumExcept ==
    ASSUME NEW D, IsFiniteSet(D), NEW f \in [D -> Int], NEW a \in D, NEW v \in Int
    PROVE  SumFunction([f EXCEPT ![a] = v]) = SumFunction(f) - f[a] + v
<1> DEFINE e == [f EXCEPT ![a] = v]
<1>1. e \in [D -> Int] /\ e[a] = v /\ \A x \in D \ {a} : f[x] = e[x]
  OBVIOUS
<1> HIDE DEF e
<1>2. PICK g : Adds(g, f, D) /\ SumFunction(f) = g[D]
  BY SumAdds
<1>3. PICK h : Adds(h, e, D) /\ SumFunction(e) = h[D]
  BY <1>1, SumAdds
<1>4. g[D] = f[a] + g[D \ {a}] /\ g[D \ {a}] \in Int
  <2>1. \A x \in D : f[x] \in Int
    OBVIOUS
  <2>2. \A s \in SUBSET D : g[s] \in Int /\ \A x \in s : g[s] = f[x] + g[s \ {x}]
    BY <1>2, <2>1, AnyOrder
  <2> QED BY <2>2
<1>5. h[D] = v + h[D \ {a}]
  <2>1. \A x \in D : e[x] \in Int
    BY <1>1
  <2>2. \A s \in SUBSET D : h[s] \in Int /\ \A x \in s : h[s] = e[x] + h[s \ {x}]
    BY <1>3, <2>1, AnyOrder
  <2> QED BY <1>1, <2>2
<1>6. g[D \ {a}] = h[D \ {a}]
  <2>1. IsFiniteSet(D \ {a})
    BY FS_RemoveElement
  <2> QED BY <1>1, <1>2, <1>3, <2>1, SameSums
<1>7. SumFunction(e) = SumFunction(f) - f[a] + v
  BY <1>2, <1>3, <1>4, <1>5, <1>6
<1> QED BY <1>7 DEF e

\* The same for a change by name.
THEOREM SumPut ==
    ASSUME NEW D, IsFiniteSet(D), NEW f \in [D -> Int], NEW a \in D, NEW v \in Int
    PROVE  SumFunction(Put(f, a, v)) = SumFunction(f) - f[a] + v
BY SumExcept DEF Put

\* Adding to one entry of a ledger adds as much to its sum.
THEOREM SumPlus ==
    ASSUME NEW D, IsFiniteSet(D), NEW f \in [D -> Int], NEW a \in D, NEW v \in Int
    PROVE  SumFunction(Plus(f, a, v)) = SumFunction(f) + v
<1>1. f[a] \in Int /\ f[a] + v \in Int /\ SumFunction(f) \in Int
  BY SumType
<1>2. SumFunction([f EXCEPT ![a] = f[a] + v]) = SumFunction(f) - f[a] + (f[a] + v)
  BY <1>1, SumExcept
<1> QED BY <1>1, <1>2 DEF Plus

\* And taking from one takes as much from the sum.
THEOREM SumMinus ==
    ASSUME NEW D, IsFiniteSet(D), NEW f \in [D -> Int], NEW a \in D, NEW v \in Int
    PROVE  SumFunction(Minus(f, a, v)) = SumFunction(f) - v
<1>1. f[a] \in Int /\ f[a] - v \in Int /\ SumFunction(f) \in Int
  BY SumType
<1>2. SumFunction([f EXCEPT ![a] = f[a] - v]) = SumFunction(f) - f[a] + (f[a] - v)
  BY <1>1, SumExcept
<1> QED BY <1>1, <1>2 DEF Minus
-----------------------------------------------------------------------------
(***************************************************************************)
(* Queues.  Handling the entries of q one after the other, f[s][e] being    *)
(* the state after e is handled in state s, leads from x to y.              *)
(***************************************************************************)
Leads(S, f, q, x, y) ==
    \E h \in [0 .. Len(q) -> S] :
        /\ h[0] = x /\ h[Len(q)] = y
        /\ \A i \in 1 .. Len(q) : h[i] = f[h[i - 1]][q[i]]

\* With nothing to handle, nothing changes.
THEOREM LeadsNowhere ==
    ASSUME NEW S, NEW f, NEW x \in S
    PROVE  /\ Leads(S, f, << >>, x, x)
           /\ \A y : Leads(S, f, << >>, x, y) => x = y
<1>1. Leads(S, f, << >>, x, x)
  <2> DEFINE h == [i \in 0 .. 0 |-> x]
  <2>1. Len(<< >>) = 0 /\ 0 \in 0 .. 0 /\ ~ \E i \in 1 .. 0 : TRUE
    OBVIOUS
  <2>2. h \in [0 .. 0 -> S] /\ h[0] = x
    BY <2>1
  <2> HIDE DEF h
  <2> QED BY <2>1, <2>2 DEF Leads
<1>2. ASSUME NEW y, Leads(S, f, << >>, x, y) PROVE x = y
  BY <1>2 DEF Leads
<1> QED BY <1>1, <1>2

\* One entry.
THEOREM LeadsOne ==
    ASSUME NEW S, NEW f, NEW x \in S, NEW e, f[x][e] \in S
    PROVE  Leads(S, f, <<e>>, x, f[x][e])
<1> DEFINE h == [i \in 0 .. 1 |-> IF i = 0 THEN x ELSE f[x][e]]
<1>1. Len(<<e>>) = 1 /\ <<e>>[1] = e /\ 0 \in 0 .. 1 /\ 1 \in 0 .. 1
  OBVIOUS
<1>2. h \in [0 .. 1 -> S]
  OBVIOUS
<1>3. h[0] = x /\ h[1] = f[x][e]
  BY <1>1
<1>4. \A i \in 1 .. 1 : i = 1 /\ i - 1 = 0
  OBVIOUS
<1> HIDE DEF h
<1> QED BY <1>1, <1>2, <1>3, <1>4 DEF Leads

\* More entries are handled from where the first ones led.
THEOREM LeadsOn ==
    ASSUME NEW S, NEW f, NEW E, NEW q \in Seq(E), NEW r \in Seq(E),
           NEW x, NEW y, NEW z, Leads(S, f, q, x, y), Leads(S, f, r, y, z)
    PROVE  Leads(S, f, q \o r, x, z)
<1>1. PICK h \in [0 .. Len(q) -> S] :
          /\ h[0] = x /\ h[Len(q)] = y
          /\ \A i \in 1 .. Len(q) : h[i] = f[h[i - 1]][q[i]]
  BY DEF Leads
<1>2. PICK g \in [0 .. Len(r) -> S] :
          /\ g[0] = y /\ g[Len(r)] = z
          /\ \A i \in 1 .. Len(r) : g[i] = f[g[i - 1]][r[i]]
  BY DEF Leads
<1> DEFINE n == Len(q)
           m == Len(r)
           k == [i \in 0 .. n + m |-> IF i <= n THEN h[i] ELSE g[i - n]]
<1>3. n \in Nat /\ m \in Nat /\ Len(q \o r) = n + m
  OBVIOUS
<1>4. k \in [0 .. n + m -> S]
  BY <1>3
<1>5. k[0] = x
  BY <1>1, <1>3
<1>6. k[n + m] = z
  <2>1. n + m \in 0 .. n + m /\ (n + m) - n = m /\ (n + m <= n => m = 0 /\ n + m = n)
    BY <1>3
  <2>2. k[n + m] = IF n + m <= n THEN h[n + m] ELSE g[(n + m) - n]
    BY <2>1
  <2> QED BY <1>1, <1>2, <2>1, <2>2
<1>7. ASSUME NEW i \in 1 .. n + m PROVE k[i] = f[k[i - 1]][(q \o r)[i]]
  <2>1. CASE i <= n
    BY <1>1, <1>3, <2>1
  <2>2. CASE i > n
    <3>1. i - n \in 1 .. m /\ (q \o r)[i] = r[i - n] /\ (i - n) - 1 = (i - 1) - n
      BY <1>3, <2>2
    <3>2. g[i - n] = f[g[(i - 1) - n]][r[i - n]]
      BY <1>2, <3>1
    <3>3. k[i - 1] = g[(i - 1) - n]
      BY <1>1, <1>2, <1>3, <2>2
    <3>4. k[i] = g[i - n]
      BY <1>3, <2>2
    <3> QED BY <3>1, <3>2, <3>3, <3>4
  <2> QED BY <1>3, <2>1, <2>2
<1>8. /\ k \in [0 .. Len(q \o r) -> S] /\ k[0] = x /\ k[Len(q \o r)] = z
      /\ \A i \in 1 .. Len(q \o r) : k[i] = f[k[i - 1]][(q \o r)[i]]
  BY <1>3, <1>4, <1>5, <1>6, <1>7
<1> HIDE DEF k, n, m
<1> QED BY <1>8 DEF Leads

\* The first entry handled, the rest leads to the same state.
THEOREM LeadsTail ==
    ASSUME NEW S, NEW f, NEW E, NEW q \in Seq(E), q # << >>,
           NEW x, NEW y, Leads(S, f, q, x, y)
    PROVE  Leads(S, f, Tail(q), f[x][Head(q)], y) /\ x \in S /\ f[x][Head(q)] \in S
<1>1. PICK h \in [0 .. Len(q) -> S] :
          /\ h[0] = x /\ h[Len(q)] = y
          /\ \A i \in 1 .. Len(q) : h[i] = f[h[i - 1]][q[i]]
  BY DEF Leads
<1> DEFINE n == Len(q) - 1
           k == [i \in 0 .. n |-> h[i + 1]]
<1>2. n \in Nat /\ Len(Tail(q)) = n /\ Head(q) = q[1]
  OBVIOUS
<1>3. k \in [0 .. n -> S]
  BY <1>2
<1>4. k[0] = f[x][Head(q)] /\ k[n] = y
  BY <1>1, <1>2
<1>5. ASSUME NEW i \in 1 .. n PROVE k[i] = f[k[i - 1]][Tail(q)[i]]
  <2>1. Tail(q)[i] = q[i + 1] /\ i + 1 \in 1 .. Len(q) /\ (i + 1) - 1 = (i - 1) + 1
    BY <1>2
  <2>2. k[i] = h[i + 1] /\ k[i - 1] = h[(i - 1) + 1]
    BY <1>2
  <2> QED BY <1>1, <2>1, <2>2
<1>6. x \in S /\ f[x][Head(q)] \in S
  BY <1>1, <1>2, <1>3, <1>4
<1> HIDE DEF k, n
<1> QED BY <1>2, <1>3, <1>4, <1>5, <1>6 DEF Leads

\* Two one-element queues make a two-element queue.
LEMMA ConcatPair ==
    ASSUME NEW E, NEW d \in E, NEW e \in E
    PROVE  <<d>> \o <<e>> = <<d, e>>
<1> DEFINE s == <<d>> \o <<e>>
           t == <<d, e>>
<1>1. s \in Seq(E) /\ t \in Seq(E)
  <2>1. <<d>> \in Seq(E) /\ <<e>> \in Seq(E)
    OBVIOUS
  <2>2. \A a \in Seq(E), b \in Seq(E) : a \o b \in Seq(E)
    OBVIOUS
  <2> QED BY <2>1, <2>2
<1>2. Len(s) = 2 /\ Len(t) = 2 /\ s[1] = t[1] /\ s[2] = t[2]
  OBVIOUS
<1> HIDE DEF s, t
<1>3. \A i \in 1 .. Len(s) : s[i] = t[i]
  BY <1>2
<1>4. s = t
  BY <1>1, <1>2, <1>3, SeqEqual
<1> QED BY <1>4 DEF s, t

=============================================================================
