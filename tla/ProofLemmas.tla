----------------------------- MODULE ProofLemmas -----------------------------
(***************************************************************************)
(* Lemmas that the proofs of several components rest on: finite sets, sums, *)
(* and the slots of requests.  They hold for every request table, whatever  *)
(* the handlers are.                                                       *)
(***************************************************************************)
EXTENDS Integers, Sequences, Functions, RequestSlots, FiniteSetTheorems, WellFoundedInduction, TLAPS

-----------------------------------------------------------------------------
(* Sums.  SumFunction is a recursive function over the subsets of a domain; a     *)
(* smallest counterexample stands for induction.                                *)

\* SumFunction adds the values of a set's elements in the order of Chosen.
Chosen(s) == CHOOSE x \in s : TRUE

\* The recursive function behind a sum over a set, as the library defines it.
IsSum(f, S, g) ==
  g = [s \in SUBSET S |-> IF s = {} THEN 0 ELSE f[Chosen(s)] + g[s \ {Chosen(s)}]]

\* A sum over a set is what that function gives for the whole set.
LEMMA SumIs ==
  ASSUME NEW f, NEW S
  PROVE  SumFunctionOnSet(f, S) = (CHOOSE g : IsSum(f, S, g))[S]
BY DEF SumFunctionOnSet, FoldFunctionOnSet, MapThenFoldSet, IsSum, Chosen

\* A set without its chosen element is another set.
LEMMA AnySmaller == ASSUME NEW s, s # {} PROVE Chosen(s) \in s /\ s \ {Chosen(s)} # s
BY DEF Chosen

\* A set of subsets of a finite set that is not empty has a smallest element.
LEMMA Smallest ==
  ASSUME NEW S, IsFiniteSet(S), NEW T \in SUBSET SUBSET S, T # {}
  PROVE  \E s \in T : \A t \in T : t \subseteq s => t = s
<1>1. IsWellFoundedOn(StrictSubsetOrdering(S), SUBSET S)
  BY FS_StrictSubsetOrderingWellFounded, FS_FiniteSubsetsOfFinite
<1>2. \E s \in T : \A t \in T : <<t, s>> \notin StrictSubsetOrdering(S)
  BY <1>1, WFMin
<1> QED BY <1>2 DEF StrictSubsetOrdering

\* The function gives naturals for naturals: a smallest set where it did not
\* would have a smaller one.
LEMMA SumInNatFrom ==
  ASSUME NEW S, IsFiniteSet(S), NEW f, \A i \in S : f[i] \in Nat, NEW g, IsSum(f, S, g)
  PROVE  \A s \in SUBSET S : g[s] \in Nat
<1> DEFINE T == {s \in SUBSET S : g[s] \notin Nat}
<1> SUFFICES ASSUME T # {} PROVE FALSE
  OBVIOUS
<1>1. PICK s \in T : \A t \in T : t \subseteq s => t = s
  <2>1. T \in SUBSET SUBSET S
    OBVIOUS
  <2> HIDE DEF T
  <2> QED BY <2>1, Smallest
<1>2. g[s] = IF s = {} THEN 0 ELSE f[Chosen(s)] + g[s \ {Chosen(s)}]
  BY DEF IsSum
<1>3. s # {}
  BY <1>2
<1>4. Chosen(s) \in s /\ s \ {Chosen(s)} \in SUBSET S /\ s \ {Chosen(s)} \notin T
  BY <1>1, <1>3, AnySmaller
<1> QED BY <1>2, <1>3, <1>4

\* The functions for a set and for a part of it agree on the part.
LEMMA SumsAgree ==
  ASSUME NEW S, IsFiniteSet(S), NEW U \in SUBSET S, NEW f, NEW g, NEW h,
         IsSum(f, S, g), IsSum(f, U, h)
  PROVE  \A s \in SUBSET U : g[s] = h[s]
<1> DEFINE T == {s \in SUBSET U : g[s] # h[s]}
<1> SUFFICES ASSUME T # {} PROVE FALSE
  OBVIOUS
<1>0. IsFiniteSet(U)
  BY FS_Subset
<1>1. PICK s \in T : \A t \in T : t \subseteq s => t = s
  <2>1. T \in SUBSET SUBSET U
    OBVIOUS
  <2> HIDE DEF T
  <2> QED BY <1>0, <2>1, Smallest
<1>2. /\ g[s] = IF s = {} THEN 0 ELSE f[Chosen(s)] + g[s \ {Chosen(s)}]
      /\ h[s] = IF s = {} THEN 0 ELSE f[Chosen(s)] + h[s \ {Chosen(s)}]
  BY DEF IsSum
<1>3. s # {}
  BY <1>2
<1>4. s \ {Chosen(s)} \in SUBSET U /\ s \ {Chosen(s)} \notin T
  BY <1>1, <1>3, AnySmaller
<1> QED BY <1>2, <1>3, <1>4

\* There is such a function for a finite set.
LEMMA SumExists ==
  ASSUME NEW S, IsFiniteSet(S), NEW f
  PROVE  \E g : IsSum(f, S, g)
<1> DEFINE T == {s \in SUBSET S : ~ \E g : IsSum(f, s, g)}
<1> SUFFICES ASSUME T # {} PROVE FALSE
  OBVIOUS
<1>1. PICK s \in T : \A t \in T : t \subseteq s => t = s
  <2>1. T \in SUBSET SUBSET S
    OBVIOUS
  <2> HIDE DEF T
  <2> QED BY <2>1, Smallest
<1> DEFINE G(t) == CHOOSE g : IsSum(f, t, g)
           g == [t \in SUBSET s |-> IF t = {} THEN 0
                                    ELSE f[Chosen(t)] + G(t \ {Chosen(t)})[t \ {Chosen(t)}]]
<1>2. \A t \in SUBSET s : t # s => IsSum(f, t, G(t))
  BY <1>1
<1> HIDE DEF G
<1>3. ASSUME NEW t \in SUBSET s, t # s PROVE g[t] = G(t)[t]
  <2>1. IsSum(f, t, G(t))
    BY <1>2, <1>3
  <2>2. G(t)[t] = IF t = {} THEN 0 ELSE f[Chosen(t)] + G(t)[t \ {Chosen(t)}]
    BY <2>1 DEF IsSum
  <2>3. CASE t = {}
    BY <2>2, <2>3
  <2>4. CASE t # {}
    <3> DEFINE u == t \ {Chosen(t)}
    <3>1. u \in SUBSET t /\ u \in SUBSET s /\ u # s /\ IsFiniteSet(t)
      BY <1>3, <2>4, AnySmaller, FS_Subset
    <3>2. IsSum(f, u, G(u)) /\ u \in SUBSET u
      BY <1>2, <3>1
    <3> HIDE DEF u
    <3>3. G(t)[u] = G(u)[u]
      BY <2>1, <3>1, <3>2, SumsAgree
    <3> QED BY <2>2, <2>4, <3>3 DEF u
  <2> QED BY <2>3, <2>4
<1>4. IsSum(f, s, g)
  <2>1. ASSUME NEW t \in SUBSET s, t # {} PROVE g[t] = f[Chosen(t)] + g[t \ {Chosen(t)}]
    <3>1. t \ {Chosen(t)} \in SUBSET s /\ t \ {Chosen(t)} # s
      BY <2>1, AnySmaller
    <3> QED BY <1>3, <2>1, <3>1
  <2>2. g[{}] = 0
    OBVIOUS
  <2>3. g = [t \in SUBSET s |-> g[t]]
    OBVIOUS
  <2> HIDE DEF g
  <2> QED BY <2>1, <2>2, <2>3 DEF IsSum
<1> QED BY <1>4

\* The values of a function on a finite set have a sum.
LEMMA SumInNat ==
  ASSUME NEW f, IsFiniteSet(DOMAIN f), \A i \in DOMAIN f : f[i] \in Nat
  PROVE  SumFunction(f) \in Nat
<1>1. IsSum(f, DOMAIN f, CHOOSE g : IsSum(f, DOMAIN f, g))
  BY SumExists
<1>2. DOMAIN f \in SUBSET DOMAIN f
  OBVIOUS
<1> QED BY <1>1, <1>2, SumInNatFrom, SumIs DEF SumFunction

\* The sum over a set that is not empty, from the sum over a smaller one.
LEMMA SumOf ==
  ASSUME NEW f, IsFiniteSet(DOMAIN f)
  PROVE  \E g : /\ SumFunction(f) = g[DOMAIN f] /\ g[{}] = 0
                /\ \A s \in SUBSET DOMAIN f : s # {} => g[s] = f[Chosen(s)] + g[s \ {Chosen(s)}]
<1> DEFINE G == CHOOSE g : IsSum(f, DOMAIN f, g)
<1>1. IsSum(f, DOMAIN f, G)
  BY SumExists
<1>2. SumFunction(f) = G[DOMAIN f]
  BY SumIs DEF SumFunction
<1> HIDE DEF G
<1>3. G[{}] = 0 /\ \A s \in SUBSET DOMAIN f : s # {} => G[s] = f[Chosen(s)] + G[s \ {Chosen(s)}]
  BY <1>1 DEF IsSum
<1> QED BY <1>2, <1>3

\* A sum of values up to a bound is no more than the bound for each of them.
LEMMA SumBounded ==
  ASSUME NEW f, IsFiniteSet(DOMAIN f), NEW B \in Nat, \A i \in DOMAIN f : f[i] \in 0..B
  PROVE  SumFunction(f) \in Nat /\ SumFunction(f) <= Cardinality(DOMAIN f) * B
<1>1. PICK g : /\ SumFunction(f) = g[DOMAIN f] /\ g[{}] = 0
               /\ \A s \in SUBSET DOMAIN f : s # {} => g[s] = f[Chosen(s)] + g[s \ {Chosen(s)}]
  BY SumOf
<1> DEFINE T == {s \in SUBSET DOMAIN f : ~(g[s] \in Nat /\ g[s] <= Cardinality(s) * B)}
<1>2. T = {}
  <2> SUFFICES ASSUME T # {} PROVE FALSE
    OBVIOUS
  <2>1. PICK s \in T : \A t \in T : t \subseteq s => t = s
    <3>1. T \in SUBSET SUBSET (DOMAIN f)
      OBVIOUS
    <3> HIDE DEF T
    <3> QED BY <3>1, Smallest
  <2>2. s # {}
    <3>1. 0 * B = 0 /\ Cardinality({}) = 0 /\ g[{}] = 0
      BY <1>1, FS_EmptySet
    <3> QED BY <3>1
  <2> DEFINE u == s \ {Chosen(s)}  c == Cardinality(u)
  <2>3. Chosen(s) \in s /\ u \in SUBSET DOMAIN f /\ u \notin T /\ IsFiniteSet(s)
    BY <2>1, <2>2, AnySmaller, FS_Subset
  <2>4. c \in Nat /\ Cardinality(s) = c + 1
    <3>1. IsFiniteSet(u)
      BY <2>3, FS_Subset
    <3>2. c = Cardinality(s) - 1 /\ Cardinality(s) \in Nat /\ c \in Nat
      BY <2>3, <3>1, FS_RemoveElement, FS_CardinalityType
    <3> QED BY <3>2
  <2>5. g[u] \in Nat /\ g[u] <= c * B /\ f[Chosen(s)] \in 0..B /\ g[s] = f[Chosen(s)] + g[u]
    BY <1>1, <2>2, <2>3
  <2> HIDE DEF u, c
  <2>6. (c + 1) * B = c * B + B /\ c * B \in Nat
    BY <2>4
  <2> QED BY <2>4, <2>5, <2>6
<1> HIDE DEF T
<1>3. DOMAIN f \notin T
  BY <1>2
<1> QED BY <1>1, <1>3 DEF T

\* A finite set of numbers has a greatest one.
LEMMA Greatest ==
  ASSUME NEW S, S \subseteq Nat, IsFiniteSet(S), S # {}
  PROVE  \E m \in S : \A n \in S : n <= m
<1> DEFINE T == {s \in SUBSET S : s # {} /\ ~ \E m \in s : \A n \in s : n <= m}
<1>a. SUFFICES ASSUME T # {} PROVE FALSE
  OBVIOUS
<1>1. PICK s \in T : \A t \in T : t \subseteq s => t = s
  <2>1. T \in SUBSET SUBSET S /\ IsFiniteSet(S)
    OBVIOUS
  <2> HIDE DEF T
  <2> QED BY ONLY <1>a, <2>1, Smallest
<1>2. PICK x \in s : TRUE
  OBVIOUS
<1>3. CASE s \ {x} = {}
  BY <1>2, <1>3
<1>4. CASE s \ {x} # {}
  <2>1. s \ {x} \notin T
    BY <1>1, <1>2
  <2>2. PICK m \in s \ {x} : \A n \in s \ {x} : n <= m
    BY <1>4, <2>1
  <2>3. m \in Nat /\ x \in Nat
    OBVIOUS
  <2> QED BY <1>2, <2>2, <2>3
<1> QED BY <1>3, <1>4

\* A set of numbers has a least one.
LEMMA Least ==
  ASSUME NEW S, S \subseteq Nat, S # {}
  PROVE  \E m \in S : \A n \in S : m <= n
<1>1. PICK m \in S : \A n \in S : <<n, m>> \notin OpToRel(<, Nat)
  BY NatLessThanWellFounded, WFMin
<1>2. \A n \in S : m \in Nat /\ n \in Nat /\ ~(n < m)
  BY <1>1 DEF OpToRel
<1> QED BY <1>2

-----------------------------------------------------------------------------
(* Rows in order of insertion.                                               *)

\* A row inserted.
LEMMA RowAppended ==
  ASSUME NEW S, NEW s \in Seq(S), NEW e \in S
  PROVE  /\ Append(s, e) \in Seq(S) /\ Len(s) \in Nat /\ DOMAIN s = 1..Len(s)
         /\ Len(Append(s, e)) = Len(s) + 1
         /\ DOMAIN Append(s, e) = DOMAIN s \cup {Len(s) + 1} /\ Len(s) + 1 \notin DOMAIN s
         /\ Append(s, e)[Len(s) + 1] = e /\ \A i \in DOMAIN s : Append(s, e)[i] = s[i]
OBVIOUS

\* Rows changed in place.
LEMMA RowsChanged ==
  ASSUME NEW S, NEW s \in Seq(S), NEW t, t = [i \in DOMAIN s |-> t[i]],
         \A i \in DOMAIN s : t[i] \in S
  PROVE  t \in Seq(S) /\ DOMAIN t = DOMAIN s /\ Len(t) = Len(s)
<1>1. DOMAIN s = 1..Len(s) /\ Len(s) \in Nat
  OBVIOUS
<1> QED BY <1>1

-----------------------------------------------------------------------------
(* Slots.  A slot says where its request is; a handler's step changes its own. *)

\* Every slot of req has a label.
Slots == DOMAIN req = Requests /\ \A r \in Requests : "at" \in DOMAIN req[r]

\* Only slot r changes, from one of the labels or idle to one of them or idle.
OnlySlot(r, labels) ==
  /\ Slots'
  /\ \A p \in Requests \ {r} : req'[p] = req[p]
  /\ req[r].at \in labels \cup {"idle"} /\ req'[r].at \in labels \cup {"idle"}

\* A table is a function of its rows' keys.
IsTable(rows) == rows = [i \in DOMAIN rows |-> rows[i]]

\* Only the empty table has no keys.
LEMMA EmptyTable ==
  ASSUME NEW rows, IsTable(rows), rows # << >>
  PROVE  DOMAIN rows # {}
<1> SUFFICES ASSUME DOMAIN rows = {} PROVE FALSE
  OBVIOUS
<1>1. rows = [i \in {} |-> rows[i]]
  BY DEF IsTable
<1>2. [i \in {} |-> rows[i]] = << >>
  OBVIOUS
<1> QED BY <1>1, <1>2

\* With one request at a time the other slots are not used, before and after a step.
LEMMA OneSlot ==
  ASSUME NEW r \in Requests, NEW labels, OnlySlot(r, labels), "unused" \notin labels, OneAtATime'
  PROVE  OneAtATime /\ \A p \in Requests \ {r} : req[p] = Unused /\ req'[p] = Unused
BY DEF OnlySlot, OneAtATime, Unused
=============================================================================
