----------------------- MODULE FilterConfigModalProofs -----------------------
(***************************************************************************)
(* What FilterConfig's operators compute, for every number of filters, and   *)
(* the part of the inductive invariant that the modal keeps.                 *)
(*                                                                           *)
(* What the recursions (Only, Circular) compute is proved by taking a least  *)
(* counterexample.  The invariant says what the page and the server have     *)
(* (InvPage), which filters a save may be the first to tell of (InvSaves),   *)
(* and what the modal knows (ModalOK, InvModal).                             *)
(***************************************************************************)
EXTENDS FilterConfig, FiniteSetTheorems, SequenceTheorems, TLAPS

------------------------------------------------------------------------------
(* Sequences.                                                              *)

\* Every set of numbers has a least one.
LEMMA LeastNumber ==
    ASSUME NEW T, T \subseteq Nat, T # {}
    PROVE  \E m \in T : \A k \in T : m <= k
<1> DEFINE R == OpToRel(<, Nat)
<1>1. IsWellFoundedOn(R, Nat)
  BY NatLessThanWellFounded
<1>2. \A k, m \in Nat : k < m => <<k, m>> \in R
  BY DEF OpToRel
<1> HIDE DEF R
<1>3. PICK m \in T : \A k \in T : ~(<<k, m>> \in R)
  BY <1>1, WFMin
<1>4. \A k \in T : m <= k
  <2> TAKE k \in T
  <2>1. k \in Nat /\ m \in Nat OBVIOUS
  <2>2. ~(k < m) BY <1>2, <1>3, <2>1
  <2> QED BY <2>1, <2>2
<1> QED
  BY <1>4

\* The recursion of Only is a definition of its results.
LEMMA OnlyRecursion ==
    ASSUME NEW E, NEW s \in Seq(E), NEW S
    PROVE  \E g : /\ \A i \in 0 .. Len(s) :
                        g[i] = IF i = 0 THEN <<>>
                               ELSE IF s[i] \in S THEN Append(g[i - 1], s[i]) ELSE g[i - 1]
                  /\ Only(s, S) = g[Len(s)]
<1> DEFINE step(g, i) == IF i = 0 THEN <<>>
                         ELSE IF s[i] \in S THEN Append(g[i - 1], s[i]) ELSE g[i - 1]
           good(n) == \E g : g = [i \in 0 .. n |-> step(g, i)]
           bad == {n \in 0 .. Len(s) : ~good(n)}
<1>1. bad = {}
  <2> SUFFICES ASSUME bad # {} PROVE FALSE OBVIOUS
  <2>1. PICK m \in bad : \A k \in bad : m <= k
    <3> HIDE DEF good
    <3>1. bad \subseteq Nat OBVIOUS
    <3> HIDE DEF bad
    <3> QED BY <3>1, LeastNumber
  <2>2. m \in 0 .. Len(s) /\ ~good(m) OBVIOUS
  <2>3. CASE m = 0
    <3> DEFINE g == [i \in 0 .. 0 |-> <<>>]
    <3>1. g = [i \in 0 .. 0 |-> step(g, i)] OBVIOUS
    <3> QED BY <2>2, <2>3, <3>1
  <2>4. CASE m # 0
    <3>1. m - 1 \in 0 .. Len(s) /\ m - 1 \notin bad
      <4> HIDE DEF bad
      <4> QED BY <2>1, <2>2, <2>4
    <3>2. good(m - 1) BY <3>1
    <3>3. PICK g : g = [i \in 0 .. m - 1 |-> step(g, i)] BY <3>2
    <3> DEFINE h == [i \in 0 .. m |-> IF i = m THEN step(g, m) ELSE g[i]]
    <3>4. \A i \in 0 .. m : h[i] = step(h, i)
      <4> TAKE i \in 0 .. m
      <4>1. CASE i = m
        <5>1. h[m - 1] = g[m - 1] BY <2>2, <2>4
        <5> QED BY <4>1, <5>1
      <4>2. CASE i # m
        <5>0. i \in 0 .. m - 1 /\ m \in Nat BY <2>2, <4>2
        <5>1. h[i] = step(g, i) BY <3>3, <4>2, <5>0
        <5>2. i # 0 => h[i - 1] = g[i - 1] BY <5>0
        <5> QED BY <5>1, <5>2
      <4> QED BY <4>1, <4>2
    <3>5. h = [i \in 0 .. m |-> step(h, i)]
      <4> HIDE DEF step
      <4>1. h = [i \in 0 .. m |-> h[i]] OBVIOUS
      <4> QED BY <3>4, <4>1
    <3> QED BY <2>2, <3>5
  <2> QED BY <2>3, <2>4
<1>2. good(Len(s))
  <2>1. Len(s) \in 0 .. Len(s) OBVIOUS
  <2> HIDE DEF good
  <2> QED BY <1>1, <2>1
<1> DEFINE kept == CHOOSE g : g = [i \in 0 .. Len(s) |-> step(g, i)]
<1>3. kept = [i \in 0 .. Len(s) |-> step(kept, i)]
  BY <1>2, Zenon
<1>4. Only(s, S) = kept[Len(s)]
  BY Zenon DEF Only
<1>5. \A i \in 0 .. Len(s) : kept[i] = step(kept, i)
  <2> HIDE DEF kept, step
  <2> QED BY <1>3
<1> HIDE DEF kept
<1> QED BY <1>4, <1>5, Zenon

\* The elements of a sequence to which one is appended.
LEMMA AppendSet ==
    ASSUME NEW E, NEW t \in Seq(E), NEW e \in E
    PROVE  /\ ToSet(Append(t, e)) = ToSet(t) \cup {e}
           /\ IsInjective(t) /\ e \notin ToSet(t) => IsInjective(Append(t, e))
<1>1. DOMAIN Append(t, e) = 1 .. Len(t) + 1 /\ DOMAIN t = 1 .. Len(t) /\ Len(t) \in Nat
  OBVIOUS
<1>2. \A i \in 1 .. Len(t) : Append(t, e)[i] = t[i]
  OBVIOUS
<1>3. Append(t, e)[Len(t) + 1] = e
  OBVIOUS
<1>4. ToSet(Append(t, e)) = ToSet(t) \cup {e}
  <2>1. \A i \in 1 .. Len(t) + 1 : i \in 1 .. Len(t) \/ i = Len(t) + 1 BY <1>1
  <2>2. 1 .. Len(t) \subseteq 1 .. Len(t) + 1 /\ Len(t) + 1 \in 1 .. Len(t) + 1 BY <1>1
  <2> QED BY <1>1, <1>2, <1>3, <2>1, <2>2 DEF ToSet
<1>5. ASSUME IsInjective(t), e \notin ToSet(t) PROVE IsInjective(Append(t, e))
  BY <1>1, <1>2, <1>3, <1>5 DEF IsInjective, ToSet
<1> QED BY <1>4, <1>5

\* What Only returns: a sequence of the elements that are in the set, without
\* repetitions if there were none.
LEMMA OnlyProperties ==
    ASSUME NEW E, NEW s \in Seq(E), NEW S
    PROVE  /\ Only(s, S) \in Seq(E)
           /\ ToSet(Only(s, S)) = ToSet(s) \cap S
           /\ IsInjective(s) => IsInjective(Only(s, S))
<1>1. PICK g : /\ \A i \in 0 .. Len(s) :
                     g[i] = IF i = 0 THEN <<>>
                            ELSE IF s[i] \in S THEN Append(g[i - 1], s[i]) ELSE g[i - 1]
               /\ Only(s, S) = g[Len(s)]
  BY OnlyRecursion
<1> DEFINE part(i) == {s[j] : j \in {k \in 1 .. i : s[k] \in S}}
           good(i) == /\ g[i] \in Seq(E)
                      /\ ToSet(g[i]) = part(i)
                      /\ IsInjective(s) => IsInjective(g[i])
           bad == {i \in 0 .. Len(s) : ~good(i)}
<1>2. bad = {}
  <2> SUFFICES ASSUME bad # {} PROVE FALSE OBVIOUS
  <2>1. PICK m \in bad : \A k \in bad : m <= k
    <3> HIDE DEF good
    <3>1. bad \subseteq Nat OBVIOUS
    <3> HIDE DEF bad
    <3> QED BY <3>1, LeastNumber
  <2>2. m \in 0 .. Len(s) /\ ~good(m) OBVIOUS
  <2>3. CASE m = 0
    <3>1. g[0] = <<>> BY <1>1
    <3>2. ToSet(<<>>) = {} /\ IsInjective(<<>>) BY DEF ToSet, IsInjective
    <3>3. part(0) = {} OBVIOUS
    <3> QED BY <2>2, <2>3, <3>1, <3>2, <3>3
  <2>4. CASE m # 0
    <3>1. m \in 1 .. Len(s) /\ m - 1 \in 0 .. Len(s) BY <2>2, <2>4
    <3>2. m - 1 \notin bad
      <4> HIDE DEF bad
      <4> QED BY <2>1, <3>1
    <3>3. good(m - 1) BY <3>1, <3>2
    <3>4. g[m] = IF s[m] \in S THEN Append(g[m - 1], s[m]) ELSE g[m - 1]
      BY <1>1, <3>1
    <3>5. s[m] \in E BY <3>1
    <3>6. CASE s[m] \notin S
      <4>1. part(m) = part(m - 1)
        <5>1. {k \in 1 .. m : s[k] \in S} = {k \in 1 .. m - 1 : s[k] \in S}
          BY <3>1, <3>6
        <5> QED BY <5>1
      <4>2. g[m] = g[m - 1] BY <3>4, <3>6
      <4> HIDE DEF part
      <4>3. good(m) BY <3>3, <4>1, <4>2
      <4> QED BY <2>2, <4>3
    <3>7. CASE s[m] \in S
      <4> DEFINE t == g[m - 1]
      <4>1. g[m] = Append(t, s[m]) /\ t \in Seq(E) BY <3>3, <3>4, <3>7
      <4>2. part(m) = part(m - 1) \cup {s[m]}
        <5>1. {k \in 1 .. m : s[k] \in S} = {k \in 1 .. m - 1 : s[k] \in S} \cup {m}
          BY <3>1, <3>7
        <5> QED BY <5>1
      <4>3. ToSet(t) = part(m - 1) /\ (IsInjective(s) => IsInjective(t)) BY <3>3
      <4> HIDE DEF t
      <4>4. ToSet(Append(t, s[m])) = ToSet(t) \cup {s[m]}
        BY <3>5, <4>1, AppendSet
      <4>5. ASSUME IsInjective(s) PROVE IsInjective(Append(t, s[m]))
        <5>1. s[m] \notin part(m - 1)
          BY <3>1, <4>5 DEF IsInjective
        <5> QED BY <3>5, <4>1, <4>3, <4>5, <5>1, AppendSet
      <4>6. Append(t, s[m]) \in Seq(E) BY <3>5, <4>1
      <4> QED BY <2>2, <4>1, <4>2, <4>3, <4>4, <4>5, <4>6
    <3> QED BY <3>6, <3>7
  <2> QED BY <2>3, <2>4
<1>3. good(Len(s))
  <2>1. Len(s) \in 0 .. Len(s) OBVIOUS
  <2> HIDE DEF good
  <2> QED BY <1>2, <2>1
<1>4. part(Len(s)) = ToSet(s) \cap S
  BY DEF ToSet
<1> QED BY <1>1, <1>3, <1>4

------------------------------------------------------------------------------
(* The search for circles.                                                 *)

\* There are finitely many filters.
LEMMA FiniteIds == IsFiniteSet(Ids)
BY FS_Interval, FilterConfigAssumption DEF Ids

\* What the recursion says of the results of hasCircularDependency.
Unfolds(D, deps) ==
    \A f \in Ids, T \in SUBSET Ids :
        Circular(deps)[<<f, T>>] <=>
            (f \in T \/ (f \in D /\ \E g \in deps[f] : Circular(deps)[<<g, T \cup {f}>>]))

\* The recursion of hasCircularDependency defines what it returns: one such function is
\* "there is a set of filters each of which is in the trace or depends on one of them".
LEMMA CircularRecursion ==
    ASSUME NEW D \in SUBSET Ids, NEW deps \in [D -> SUBSET Ids]
    PROVE  Unfolds(D, deps)
<1> DEFINE body(c, x) == \/ x[1] \in x[2]
                         \/ /\ x[1] \in DOMAIN deps
                            /\ \E g \in deps[x[1]] : c[<<g, x[2] \cup {x[1]}>>]
           trap(C, T) == \A y \in C : y \in T \/ (y \in D /\ deps[y] \cap C # {})
           h == [x \in Ids \X SUBSET Ids |-> \E C \in SUBSET Ids : x[1] \in C /\ trap(C, x[2])]
           c == CHOOSE c : c = [x \in Ids \X SUBSET Ids |-> body(c, x)]
<1>0. DOMAIN deps = D
  OBVIOUS
<1>1. \A x \in Ids \X SUBSET Ids : h[x] = body(h, x)
  <2> SUFFICES ASSUME NEW f \in Ids, NEW T \in SUBSET Ids
               PROVE  h[<<f, T>>] = body(h, <<f, T>>)
    <3> HIDE DEF h, body
    <3>1. \A x \in Ids \X SUBSET Ids : \E f \in Ids, T \in SUBSET Ids : x = <<f, T>>
      OBVIOUS
    <3> QED BY <3>1, ZenonT(60)
  <2>1. h[<<f, T>>] = \E C \in SUBSET Ids : f \in C /\ trap(C, T)
    OBVIOUS
  <2>2. \A g \in Ids : h[<<g, T \cup {f}>>] = \E C \in SUBSET Ids : g \in C /\ trap(C, T \cup {f})
    OBVIOUS
  <2>3. body(h, <<f, T>>) = (f \in T \/ (f \in D /\ \E g \in deps[f] : h[<<g, T \cup {f}>>]))
    BY <1>0, Zenon
  <2> HIDE DEF h, body
  <2>4. ASSUME f \in T PROVE \E C \in SUBSET Ids : f \in C /\ trap(C, T)
    <3>1. {f} \in SUBSET Ids /\ f \in {f} /\ trap({f}, T) BY <2>4
    <3> QED BY <3>1
  <2>5. ASSUME f \in D, NEW g \in deps[f], NEW C \in SUBSET Ids, g \in C, trap(C, T \cup {f})
        PROVE  \E B \in SUBSET Ids : f \in B /\ trap(B, T)
    <3>1. C \cup {f} \in SUBSET Ids /\ f \in C \cup {f} OBVIOUS
    <3>2. trap(C \cup {f}, T) BY <2>5
    <3> QED BY <3>1, <3>2
  <2>6. ASSUME NEW C \in SUBSET Ids, f \in C, trap(C, T), f \notin T
        PROVE  f \in D /\ \E g \in deps[f] : \E B \in SUBSET Ids : g \in B /\ trap(B, T \cup {f})
    <3>1. f \in D /\ deps[f] \cap C # {} BY <2>6
    <3>2. trap(C, T \cup {f}) BY <2>6
    <3> QED BY <3>1, <3>2
  <2>7. \A g \in deps[f] : f \in D => g \in Ids OBVIOUS
  <2> HIDE DEF trap
  <2> QED BY <2>1, <2>2, <2>3, <2>4, <2>5, <2>6, <2>7
<1>2. h = [x \in Ids \X SUBSET Ids |-> body(h, x)]
  <2>1. h = [x \in Ids \X SUBSET Ids |-> h[x]] OBVIOUS
  <2> HIDE DEF h, body
  <2> QED BY <1>1, <2>1
<1>3. c = [x \in Ids \X SUBSET Ids |-> body(c, x)]
  <2> HIDE DEF h, body
  <2> QED BY <1>2, Zenon
<1>4. Circular(deps) = c
  BY Zenon DEF Circular
<1>5. \A x \in Ids \X SUBSET Ids : c[x] = body(c, x)
  <2> HIDE DEF body, c
  <2> QED BY <1>3
<1> HIDE DEF c
<1>6. \A f \in Ids, T \in SUBSET Ids : c[<<f, T>>] = body(c, <<f, T>>)
  <2> HIDE DEF body
  <2> QED BY <1>5
<1> QED
  BY <1>0, <1>4, <1>6, Zenon DEF Unfolds

\* hasCircularDependency finds every circle: it holds of each filter of a set in which
\* every filter depends on one of the set.
LEMMA CircleFound ==
    ASSUME NEW D \in SUBSET Ids, NEW deps \in [D -> SUBSET Ids],
           NEW C \in SUBSET D, \A f \in C : deps[f] \cap C # {},
           NEW e \in C
    PROVE  hasCircularDependency(deps, e)
<1>0. Unfolds(D, deps)
  BY CircularRecursion
<1> DEFINE c == Circular(deps)
           bad == {T \in SUBSET Ids : \E g \in C : ~c[<<g, T>>]}
           left == {Ids \ T : T \in bad}
<1>1. \A g \in C, T \in SUBSET Ids :
        c[<<g, T>>] <=> (g \in T \/ \E k \in deps[g] : c[<<k, T \cup {g}>>])
  <2> TAKE g \in C, T \in SUBSET Ids
  <2>1. g \in Ids /\ g \in D OBVIOUS
  <2>2. c[<<g, T>>] <=> (g \in T \/ (g \in D /\ \E k \in deps[g] : c[<<k, T \cup {g}>>]))
    BY <1>0, <2>1, Zenon DEF Unfolds
  <2> QED BY <2>1, <2>2, Zenon
<1> HIDE DEF c
<1>2. bad = {}
  <2> SUFFICES ASSUME bad # {} PROVE FALSE OBVIOUS
  <2>1. left # {} /\ left \subseteq SUBSET Ids OBVIOUS
  <2>2. IsWellFoundedOn(StrictSubsetOrdering(Ids), SUBSET Ids)
    BY FiniteIds, FS_FiniteSubsetsOfFinite, FS_StrictSubsetOrderingWellFounded
  <2>3. PICK U \in left : \A V \in left : ~(<<V, U>> \in StrictSubsetOrdering(Ids))
    <3> HIDE DEF left
    <3> QED BY <2>1, <2>2, WFMin
  <2>4. PICK T \in bad : U = Ids \ T OBVIOUS
  <2>5. PICK g \in C : ~c[<<g, T>>] OBVIOUS
  <2>6. T \in SUBSET Ids /\ g \notin T /\ ~\E k \in deps[g] : c[<<k, T \cup {g}>>]
    BY <1>1, <2>4, <2>5
  <2>7. PICK k \in deps[g] \cap C : ~c[<<k, T \cup {g}>>] BY <2>5, <2>6
  <2>8. T \cup {g} \in bad BY <2>6, <2>7
  <2>9. Ids \ (T \cup {g}) \in left BY <2>8
  <2>10. <<Ids \ (T \cup {g}), Ids \ T>> \in StrictSubsetOrdering(Ids)
    BY <2>6 DEF StrictSubsetOrdering
  <2> QED BY <2>3, <2>4, <2>9, <2>10
<1>3. c[<<e, {}>>]
  <2>1. {} \in SUBSET Ids OBVIOUS
  <2> QED BY <1>2, <2>1
<1> QED
  BY <1>3 DEF hasCircularDependency, c

\* The filters that some changes modify or add.
ModIds(c) == {y.id : y \in c.modified}

\* No two filters of a set or of a configuration have the same id.
Unique(X) == \A x, y \in X : x.id = y.id => x = y
Distinct(conf) == IsInjective([i \in DOMAIN conf |-> conf[i].id])

\* What handleSave may send.
Changes == [deleted : SUBSET Ids, modified : SUBSET Filter, reordered : Seq(Ids)]

\* The elements of a concatenation.
LEMMA ConcatSet ==
    ASSUME NEW E, NEW s \in Seq(E), NEW t \in Seq(E)
    PROVE  /\ s \o t \in Seq(E)
           /\ ToSet(s \o t) = ToSet(s) \cup ToSet(t)
           /\ IsInjective(s) /\ IsInjective(t) /\ ToSet(s) \cap ToSet(t) = {}
                => IsInjective(s \o t)
<1> DEFINE m == Len(s)
           n == Len(t)
           r == s \o t
<1>1. /\ r \in Seq(E) /\ DOMAIN r = 1 .. m + n /\ m \in Nat /\ n \in Nat
      /\ DOMAIN s = 1 .. m /\ DOMAIN t = 1 .. n
  OBVIOUS
<1>2. \A i \in 1 .. m : r[i] = s[i]
  OBVIOUS
<1>3. \A i \in 1 .. n : r[m + i] = t[i]
  OBVIOUS
<1>4. \A i \in 1 .. m + n : i \in 1 .. m \/ \E k \in 1 .. n : i = m + k
  <2> TAKE i \in 1 .. m + n
  <2>1. CASE i <= m BY <1>1, <2>1
  <2>2. CASE i > m
    <3>1. i - m \in 1 .. n /\ i = m + (i - m) BY <1>1, <2>2
    <3> QED BY <3>1
  <2> QED BY <1>1, <2>1, <2>2
<1>5. \A i \in 1 .. n : m + i \in 1 .. m + n
  BY <1>1
<1>6. 1 .. m \subseteq 1 .. m + n
  BY <1>1
<1> HIDE DEF m, n, r
<1>7. ToSet(r) = ToSet(s) \cup ToSet(t)
  <2>1. ASSUME NEW i \in 1 .. m + n PROVE r[i] \in ToSet(s) \cup ToSet(t)
    BY <1>1, <1>2, <1>3, <1>4 DEF ToSet
  <2>2. \A i \in 1 .. m : s[i] \in ToSet(r)
    BY <1>1, <1>2, <1>6 DEF ToSet
  <2>3. \A i \in 1 .. n : t[i] \in ToSet(r)
    <3> TAKE i \in 1 .. n
    <3>1. t[i] = r[m + i] /\ m + i \in DOMAIN r BY <1>1, <1>3, <1>5
    <3> QED BY <3>1 DEF ToSet
  <2>4. ToSet(r) \subseteq ToSet(s) \cup ToSet(t)
    BY <1>1, <2>1 DEF ToSet
  <2>5. ToSet(s) \cup ToSet(t) \subseteq ToSet(r)
    <3>1. ToSet(s) \subseteq ToSet(r) BY <1>1, <2>2 DEF ToSet
    <3>2. ToSet(t) \subseteq ToSet(r) BY <1>1, <2>3 DEF ToSet
    <3> QED BY <3>1, <3>2
  <2> QED BY <2>4, <2>5
<1>8. ASSUME IsInjective(s), IsInjective(t), ToSet(s) \cap ToSet(t) = {}
      PROVE  IsInjective(r)
  <2> SUFFICES ASSUME NEW a \in 1 .. m + n, NEW b \in 1 .. m + n, r[a] = r[b] PROVE a = b
    BY <1>1 DEF IsInjective
  <2>1. \A x \in 1 .. m, y \in 1 .. n : s[x] # t[y] BY <1>1, <1>8 DEF ToSet
  <2>2. \A x, y \in 1 .. m : s[x] = s[y] => x = y BY <1>1, <1>8 DEF IsInjective
  <2>3. \A x, y \in 1 .. n : t[x] = t[y] => x = y BY <1>1, <1>8 DEF IsInjective
  <2> QED BY <1>2, <1>3, <1>4, <2>1, <2>2, <2>3
<1> QED
  BY <1>1, <1>7, <1>8 DEF r

\* SetToSeq lists a finite set without repetitions.
LEMMA SetToSeqProperties ==
    ASSUME NEW E, NEW S \in SUBSET E, IsFiniteSet(S)
    PROVE  SetToSeq(S) \in Seq(E) /\ ToSet(SetToSeq(S)) = S /\ IsInjective(SetToSeq(S))
<1> DEFINE n == Cardinality(S)
           r == SetToSeq(S)
<1>1. n \in Nat BY FS_CardinalityType
<1>2. ExistsBijection(1 .. n, S) BY FS_CardinalityType
<1>3. \E f \in [1 .. n -> S] : IsInjective(f)
  BY <1>2 DEF ExistsBijection, Bijection, Injection
<1>4. r \in [1 .. n -> S] /\ IsInjective(r)
  BY <1>3 DEF SetToSeq
<1>5. \A y \in S : \E i \in 1 .. n : r[i] = y
  <2>1. r \in Injection(1 .. n, S) BY <1>4 DEF Injection
  <2> DEFINE img == {r[i] : i \in 1 .. n}
  <2>2. IsFiniteSet(1 .. n) /\ Cardinality(1 .. n) = n
    BY <1>1, FS_Interval
  <2>3. img \subseteq S BY <1>4
  <2>4. r \in Bijection(1 .. n, img) BY <1>4 DEF Bijection, Injection, Surjection, IsInjective
  <2>5. Cardinality(img) = n
    <3> HIDE DEF img
    <3>1. ExistsBijection(1 .. n, img) BY <2>4 DEF ExistsBijection
    <3>2. IsFiniteSet(img) BY <2>3, FS_Subset
    <3> QED BY <2>2, <3>1, <3>2, FS_Bijection
  <2>6. img = S
    <3> HIDE DEF img
    <3> QED BY <2>3, <2>5, FS_Subset
  <2> QED BY <2>6
<1>6. DOMAIN r = 1 .. n BY <1>4
<1>7. r \in Seq(E) BY <1>1, <1>4
<1> HIDE DEF r
<1>8. ToSet(r) = S BY <1>4, <1>5, <1>6 DEF ToSet
<1> QED BY <1>4, <1>7, <1>8 DEF r

\* Moving an element of a sequence leaves its elements the same.
LEMMA Rearranged ==
    ASSUME NEW E, NEW s \in Seq(E), NEW i \in 1 .. Len(s), NEW j \in 1 .. Len(s)
    PROVE  LET r == InsertAt(RemoveAt(s, i), j, s[i]) IN
           /\ r \in Seq(E) /\ ToSet(r) = ToSet(s)
           /\ IsInjective(s) => IsInjective(r)
<1> DEFINE n == Len(s)
           t == RemoveAt(s, i)
           r == InsertAt(t, j, s[i])
           from(k) == IF k = j THEN i
                      ELSE LET l == IF k < j THEN k ELSE k - 1
                           IN IF l < i THEN l ELSE l + 1
           to(k) == IF k = i THEN j
                    ELSE LET l == IF k < i THEN k ELSE k - 1
                         IN IF l < j THEN l ELSE l + 1
<1>1. n \in Nat /\ DOMAIN s = 1 .. n /\ i \in 1 .. n /\ j \in 1 .. n
  OBVIOUS
<1> DEFINE a == SubSeq(s, 1, i - 1)
           b == SubSeq(s, i + 1, n)
<1>a. /\ a \in Seq(E) /\ Len(a) = i - 1
      /\ \A k \in 1 .. i - 1 : a[k] = s[k]
  <2>1. \A k \in 1 .. i - 1 : s[k] \in E BY <1>1
  <2>2. /\ a \in Seq(E) /\ Len(a) = IF 1 <= i - 1 THEN i - 1 - 1 + 1 ELSE 0
        /\ \A k \in 1 .. i - 1 - 1 + 1 : a[k] = s[1 + k - 1]
    BY <1>1, <2>1, SubSeqProperties
  <2> HIDE DEF a
  <2> QED BY <1>1, <2>2
<1>b. /\ b \in Seq(E) /\ Len(b) = n - i
      /\ \A k \in 1 .. n - i : b[k] = s[i + k]
  <2>1. \A k \in i + 1 .. n : s[k] \in E BY <1>1
  <2>2. /\ b \in Seq(E) /\ Len(b) = IF i + 1 <= n THEN n - (i + 1) + 1 ELSE 0
        /\ \A k \in 1 .. n - (i + 1) + 1 : b[k] = s[i + 1 + k - 1]
    BY <1>1, <2>1, SubSeqProperties
  <2> HIDE DEF b, n
  <2>3. Len(b) = n - i
    <3>1. CASE i + 1 <= n BY <1>1, <2>2, <3>1
    <3>2. CASE ~(i + 1 <= n)
      <4>1. Len(b) = 0 BY <2>2, <3>2
      <4>2. i = n BY <1>1, <3>2
      <4> QED BY <1>1, <4>1, <4>2
    <3> QED BY <3>1, <3>2
  <2>4. \A k \in 1 .. n - i : k \in 1 .. n - (i + 1) + 1 /\ i + 1 + k - 1 = i + k
    BY <1>1
  <2>5. \A k \in 1 .. n - i : b[k] = s[i + k] BY <2>2, <2>4
  <2> QED BY <2>2, <2>3, <2>5
<1>c. t = a \o b BY Zenon DEF RemoveAt
<1> HIDE DEF a, b
<1>d. /\ a \o b \in Seq(E) /\ Len(a \o b) = Len(a) + Len(b)
      /\ \A k \in 1 .. Len(a) + Len(b) :
            (a \o b)[k] = IF k <= Len(a) THEN a[k] ELSE b[k - Len(a)]
  BY <1>a, <1>b, ConcatProperties
<1>2. t \in Seq(E) /\ Len(t) = n - 1
  BY <1>1, <1>a, <1>b, <1>c, <1>d
<1>3. \A k \in 1 .. n - 1 : t[k] = IF k < i THEN s[k] ELSE s[k + 1]
  BY <1>1, <1>a, <1>b, <1>c, <1>d
<1>4. s[i] \in E OBVIOUS
<1> HIDE DEF t, n
<1>5. r \in Seq(E) /\ Len(r) = n
  BY <1>1, <1>2, <1>4 DEF InsertAt
<1>6. \A k \in 1 .. n : r[k] = IF k < j THEN t[k] ELSE IF k = j THEN s[i] ELSE t[k - 1]
  BY <1>1, <1>2, <1>4 DEF InsertAt
<1>7. DOMAIN r = 1 .. n BY <1>5
<1> HIDE DEF r
<1>8. \A k \in 1 .. n : from(k) \in 1 .. n /\ to(k) \in 1 .. n /\ from(to(k)) = k /\ to(from(k)) = k
  BY <1>1
<1>9. \A k \in 1 .. n : r[k] = s[from(k)]
  <2> TAKE k \in 1 .. n
  <2>1. CASE k < j
    <3>1. r[k] = t[k] /\ k \in 1 .. n - 1 BY <1>1, <1>6, <2>1
    <3> QED BY <1>1, <1>3, <2>1, <3>1
  <2>2. CASE k = j
    BY <1>1, <1>6, <2>2
  <2>3. CASE k > j
    <3>1. r[k] = t[k - 1] /\ k - 1 \in 1 .. n - 1 BY <1>1, <1>6, <2>3
    <3> QED BY <1>1, <1>3, <2>3, <3>1
  <2> QED BY <1>1, <2>1, <2>2, <2>3
<1> HIDE DEF from, to
<1>10. ToSet(r) = ToSet(s)
  <2>1. \A k \in 1 .. n : r[k] \in ToSet(s) BY <1>1, <1>8, <1>9 DEF ToSet
  <2>2. \A k \in 1 .. n : s[k] \in ToSet(r)
    <3> TAKE k \in 1 .. n
    <3>1. to(k) \in 1 .. n /\ r[to(k)] = s[k] BY <1>8, <1>9
    <3> QED BY <1>7, <3>1 DEF ToSet
  <2>3. ToSet(r) \subseteq ToSet(s) BY <1>7, <2>1 DEF ToSet
  <2>4. ToSet(s) \subseteq ToSet(r) BY <1>1, <2>2 DEF ToSet
  <2> QED BY <2>3, <2>4
<1>11. IsInjective(s) => IsInjective(r)
  BY <1>1, <1>7, <1>8, <1>9, SMTT(30) DEF IsInjective
<1> QED
  BY <1>5, <1>10, <1>11 DEF r, t

------------------------------------------------------------------------------
(* What the server does with a configuration.                              *)

\* There are finitely many configurations of one filter.
LEMMA FiniteFilter == IsFiniteSet(Filter)
<1> DEFINE P == Ids \X SUBSET Ids
           g == [x \in P |-> [id |-> x[1], deps |-> x[2]]]
<1>1. IsFiniteSet(P)
  BY FiniteIds, FS_SUBSET, FS_Product
<1>2. g \in Surjection(P, Filter)
  <2>1. g \in [P -> Filter] BY DEF Filter
  <2>2. \A y \in Filter : \E x \in P : g[x] = y
    <3> TAKE y \in Filter
    <3>1. <<y.id, y.deps>> \in P /\ g[<<y.id, y.deps>>] = y BY DEF Filter
    <3> QED BY <3>1
  <2> HIDE DEF g
  <2> QED BY <2>1, <2>2 DEF Surjection
<1> HIDE DEF P, g
<1> QED BY <1>1, <1>2, FS_Surjection

\* A configuration has no id twice when it has no filter twice and its filters have
\* different ids.
LEMMA DistinctIsUnique ==
    ASSUME NEW conf \in Seq(Filter)
    PROVE  Distinct(conf) <=> IsInjective(conf) /\ Unique(ToSet(conf))
BY DEF Distinct, IsInjective, Unique, ToSet

\* The ids of a configuration are those of its filters.
LEMMA IdsOfSet ==
    ASSUME NEW conf
    PROVE  IdsOf(conf) = {x.id : x \in ToSet(conf)}
BY DEF IdsOf, ToSet

\* A configuration is made of filters.
LEMMA IdsInIds ==
    ASSUME NEW conf \in Seq(Filter)
    PROVE  IdsOf(conf) \subseteq Ids /\ ToSet(conf) \subseteq Filter
<1>1. ToSet(conf) \subseteq Filter BY DEF ToSet
<1> QED BY <1>1 DEF IdsOf, Filter, ToSet

\* Get finds the filter with an id.
LEMMA GetProperties ==
    ASSUME NEW conf, NEW f \in IdsOf(conf)
    PROVE  Get(conf, f) \in ToSet(conf) /\ Get(conf, f).id = f
<1>1. \E x \in ToSet(conf) : x.id = f BY DEF IdsOf, ToSet
<1> QED BY <1>1 DEF Get

\* _apply_filter_updates: the filters that are neither deleted nor modified stay, and
\* the modified and the new ones are there, each once.
LEMMA ApplyProperties ==
    ASSUME NEW conf \in Seq(Filter), Distinct(conf),
           NEW c \in Changes, Unique(c.modified)
    PROVE  /\ ApplyFilterUpdates(conf, c) \in Seq(Filter)
           /\ Distinct(ApplyFilterUpdates(conf, c))
           /\ ToSet(ApplyFilterUpdates(conf, c)) =
                {x \in ToSet(conf) : x.id \notin c.deleted \cup ModIds(c)} \cup c.modified
<1> DEFINE K == {x \in Filter : x.id \notin c.deleted}
           kept == Only(conf, K)
           with(f) == {y \in c.modified : y.id = f}
           updated == [i \in DOMAIN kept |->
                          IF with(kept[i].id) = {} THEN kept[i]
                          ELSE CHOOSE y \in with(kept[i].id) : TRUE]
           rest_ == {y \in c.modified : y.id \notin IdsOf(updated)}
           added == SetToSeq(rest_)
<1>0. c.modified \in SUBSET Filter /\ c.deleted \in SUBSET Ids BY DEF Changes
<1>1. /\ kept \in Seq(Filter) /\ IsInjective(kept)
      /\ ToSet(kept) = {x \in ToSet(conf) : x.id \notin c.deleted}
  <2>1. IsInjective(conf) BY DistinctIsUnique
  <2>2. ToSet(conf) \subseteq Filter BY IdsInIds
  <2>3. kept \in Seq(Filter) /\ ToSet(kept) = ToSet(conf) \cap K /\ IsInjective(kept)
    BY <2>1, OnlyProperties
  <2> HIDE DEF kept
  <2> QED BY <2>2, <2>3
<1>2. ApplyFilterUpdates(conf, c) = updated \o added
  BY Zenon DEF ApplyFilterUpdates
<1> HIDE DEF kept
<1>3. \A i \in DOMAIN kept : kept[i] \in Filter /\ kept[i] \in ToSet(kept)
  BY <1>1 DEF ToSet
<1>4. Distinct(kept)
  <2>1. Unique(ToSet(conf)) BY DistinctIsUnique
  <2>2. Unique(ToSet(kept)) BY <1>1, <2>1 DEF Unique
  <2> QED BY <1>1, <2>2, DistinctIsUnique
<1>5. \A i \in DOMAIN kept :
        /\ updated[i].id = kept[i].id
        /\ with(kept[i].id) = {} => updated[i] = kept[i]
        /\ with(kept[i].id) # {} => updated[i] \in c.modified
        /\ updated[i] \in Filter
  <2> TAKE i \in DOMAIN kept
  <2>1. CASE with(kept[i].id) = {}
    <3>1. updated[i] = kept[i] BY <2>1
    <3> QED BY <1>3, <2>1, <3>1
  <2>2. CASE with(kept[i].id) # {}
    <3>1. updated[i] = CHOOSE y \in with(kept[i].id) : TRUE BY <2>2
    <3>2. updated[i] \in with(kept[i].id) BY <2>2, <3>1
    <3> HIDE DEF updated
    <3> QED BY <1>0, <2>2, <3>2
  <2> QED BY <2>1, <2>2
<1>6. DOMAIN updated = DOMAIN kept OBVIOUS
<1>7. updated \in Seq(Filter)
  <2>1. DOMAIN kept = 1 .. Len(kept) /\ Len(kept) \in Nat BY <1>1
  <2>2. updated \in [1 .. Len(kept) -> Filter] BY <1>5, <2>1
  <2> QED BY <2>1, <2>2
<1> HIDE DEF updated
<1>8. Distinct(updated)
  BY <1>4, <1>5, <1>6 DEF Distinct, IsInjective
<1>9. /\ added \in Seq(Filter) /\ IsInjective(added) /\ ToSet(added) = rest_
  <2>1. rest_ \in SUBSET Filter BY <1>0
  <2>2. IsFiniteSet(rest_) BY <2>1, FiniteFilter, FS_Subset
  <2> QED BY <2>1, <2>2, SetToSeqProperties
<1> HIDE DEF added
<1>10. \A x \in ToSet(updated) : x.id \in IdsOf(updated) BY IdsOfSet
<1>11. /\ updated \o added \in Seq(Filter) /\ IsInjective(updated \o added)
       /\ ToSet(updated \o added) = ToSet(updated) \cup rest_
  <2>1. ToSet(updated) \cap ToSet(added) = {} BY <1>9, <1>10
  <2>2. IsInjective(updated) BY <1>7, <1>8, DistinctIsUnique
  <2> QED BY <1>7, <1>9, <2>1, <2>2, ConcatSet
<1>12. Unique(ToSet(updated) \cup rest_)
  <2>1. Unique(ToSet(updated)) BY <1>7, <1>8, DistinctIsUnique
  <2> QED BY <1>10, <2>1 DEF Unique
<1>13. ToSet(updated) \cup rest_ =
         {x \in ToSet(conf) : x.id \notin c.deleted \cup ModIds(c)} \cup c.modified
  <2>1. \A x \in ToSet(kept) : \E i \in DOMAIN kept : x = kept[i] BY DEF ToSet
  <2>2. \A x \in ToSet(updated) : \E i \in DOMAIN kept : x = updated[i] BY <1>6 DEF ToSet
  <2>3. \A i \in DOMAIN kept : updated[i] \in ToSet(updated) BY <1>6 DEF ToSet
  <2>4. \A f : with(f) = {} <=> f \notin ModIds(c) BY DEF ModIds
  <2>5. ASSUME NEW x \in ToSet(updated), x \notin c.modified
        PROVE  x \in ToSet(conf) /\ x.id \notin c.deleted \cup ModIds(c)
    <3>1. PICK i \in DOMAIN kept : x = updated[i] BY <2>2
    <3>2. with(kept[i].id) = {} /\ x = kept[i] BY <1>5, <2>5, <3>1
    <3>3. x \in ToSet(conf) /\ x.id \notin c.deleted BY <1>1, <1>3, <3>2
    <3>4. x.id \notin ModIds(c) BY <2>4, <3>2
    <3> QED BY <3>3, <3>4
  <2>6. ASSUME NEW x \in ToSet(conf), x.id \notin c.deleted \cup ModIds(c)
        PROVE  x \in ToSet(updated)
    <3>1. PICK i \in DOMAIN kept : x = kept[i] BY <1>1, <2>1, <2>6
    <3>2. with(kept[i].id) = {} BY <2>4, <2>6, <3>1
    <3> QED BY <1>5, <2>3, <3>1, <3>2
  <2>7. ASSUME NEW y \in c.modified, y \notin rest_ PROVE y \in ToSet(updated)
    <3>1. PICK x \in ToSet(updated) : x.id = y.id BY <2>7, IdsOfSet
    <3>2. PICK i \in DOMAIN kept : x = updated[i] BY <2>2
    <3>3. kept[i].id = y.id BY <1>5, <3>1, <3>2
    <3>4. y \in with(kept[i].id) BY <3>3
    <3>5. x \in c.modified BY <1>5, <3>2, <3>4
    <3> QED BY <3>1, <3>5 DEF Unique
  <2> HIDE DEF with
  <2> QED BY <2>5, <2>6, <2>7
<1> QED
  BY <1>2, <1>11, <1>12, <1>13, DistinctIsUnique

\* A filter stays if there is no order, if it is in the order, or if it is new.
Stays(conf, c, x) ==
    c.reordered = <<>> \/ x.id \in ToSet(c.reordered) \/ x.id \notin IdsOf(conf)

\* _reorder_and_clean_filters keeps the filters that stay, each once.
LEMMA ReorderProperties ==
    ASSUME NEW conf \in Seq(Filter), NEW u \in Seq(Filter), Distinct(u),
           NEW c \in Changes, IsInjective(c.reordered)
    PROVE  /\ Reorder(conf, u, c) \in Seq(Filter)
           /\ Distinct(Reorder(conf, u, c))
           /\ ToSet(Reorder(conf, u, c)) = {x \in ToSet(u) : Stays(conf, c, x)}
<1>1. CASE c.reordered = <<>>
  BY <1>1 DEF Reorder, Stays
<1>2. CASE c.reordered # <<>>
  <2> DEFINE K == {x \in Filter : x.id \notin IdsOf(conf) \cup ToSet(c.reordered)}
             new == Only(u, K)
             order == Only(c.reordered, IdsOf(u))
             front == [i \in DOMAIN order |-> Get(u, order[i])]
  <2>1. Reorder(conf, u, c) = front \o new
    BY <1>2, Zenon DEF Reorder
  <2>0. c.reordered \in Seq(Ids) BY DEF Changes
  <2>2. /\ order \in Seq(Ids) /\ IsInjective(order)
        /\ ToSet(order) = ToSet(c.reordered) \cap IdsOf(u)
    BY <2>0, OnlyProperties
  <2>3. IsInjective(u) /\ Unique(ToSet(u)) /\ ToSet(u) \subseteq Filter
    BY DistinctIsUnique, IdsInIds
  <2>4. /\ new \in Seq(Filter) /\ IsInjective(new)
        /\ ToSet(new) = {x \in ToSet(u) : x.id \notin IdsOf(conf) \cup ToSet(c.reordered)}
    <3>1. new \in Seq(Filter) /\ ToSet(new) = ToSet(u) \cap K /\ IsInjective(new)
      BY <2>3, OnlyProperties
    <3> HIDE DEF new
    <3> QED BY <2>3, <3>1
  <2> HIDE DEF new, order
  <2>5. \A i \in DOMAIN order : order[i] \in ToSet(order) BY DEF ToSet
  <2>6. \A i \in DOMAIN order : Get(u, order[i]) \in ToSet(u) /\ Get(u, order[i]).id = order[i]
    BY <2>2, <2>5, GetProperties
  <2>7. \A i \in DOMAIN order : front[i] \in ToSet(u) /\ front[i].id = order[i]
    BY <2>6
  <2>8. DOMAIN front = DOMAIN order OBVIOUS
  <2>9. front \in Seq(Filter)
    <3>1. DOMAIN order = 1 .. Len(order) /\ Len(order) \in Nat BY <2>2
    <3>2. front \in [1 .. Len(order) -> Filter] BY <2>3, <2>7, <3>1
    <3> QED BY <3>1, <3>2
  <2> HIDE DEF front
  <2>10. IsInjective(front) BY <2>2, <2>7, <2>8 DEF IsInjective
  <2>11. ToSet(front) = {x \in ToSet(u) : x.id \in ToSet(c.reordered)}
    <3>1. ASSUME NEW x \in ToSet(front)
          PROVE  x \in ToSet(u) /\ x.id \in ToSet(c.reordered)
      <4>1. PICK i \in DOMAIN order : x = front[i] BY <2>8 DEF ToSet
      <4> QED BY <2>2, <2>5, <2>7, <4>1
    <3>2. ASSUME NEW x \in ToSet(u), x.id \in ToSet(c.reordered)
          PROVE  x \in ToSet(front)
      <4>1. x.id \in IdsOf(u) BY IdsOfSet
      <4>2. x.id \in ToSet(order) BY <2>2, <3>2, <4>1
      <4>3. PICK i \in DOMAIN order : x.id = order[i] BY <4>2 DEF ToSet
      <4>4. x = front[i] BY <2>3, <2>7, <4>3 DEF Unique
      <4> QED BY <2>8, <4>3, <4>4 DEF ToSet
    <3> QED BY <3>1, <3>2
  <2>12. /\ front \o new \in Seq(Filter) /\ IsInjective(front \o new)
         /\ ToSet(front \o new) = ToSet(front) \cup ToSet(new)
    <3>1. ToSet(front) \cap ToSet(new) = {} BY <2>4, <2>11
    <3> QED BY <2>4, <2>9, <2>10, <3>1, ConcatSet
  <2>13. Unique(ToSet(front) \cup ToSet(new)) BY <2>3, <2>4, <2>11 DEF Unique
  <2>14. ToSet(front) \cup ToSet(new) =
           {x \in ToSet(u) : Stays(conf, c, x)}
    BY <1>2, <2>4, <2>11 DEF Stays
  <2> QED
    BY <1>2, <2>1, <2>12, <2>13, <2>14, DistinctIsUnique
<1> QED BY <1>1, <1>2

------------------------------------------------------------------------------
(* The inductive invariant.                                                *)

\* The saves.
Saves == [no : Nat, at : {"sent", "read", "stored"}, old : SUBSET Ids,
          changes : Changes, conf : Seq(Filter)]

\* The filters that a save is the first to tell the page of.
Fresh(s) == ModIds(s.changes) \ filters

\* What the page and the server have: ids are given out in order, and the page knows of
\* every filter of its configuration.
InvPage ==
    /\ server \in Seq(Filter) /\ Distinct(server)
    /\ meta \in Seq(Filter) /\ Distinct(meta)
    /\ filters \subseteq Ids /\ mask \subseteq filters
    /\ IdsOf(meta) \subseteq filters
    /\ created \in 0 .. N /\ opens \in 0 .. MaxOpens
    /\ slips \subseteq {"unopened", "overlap", "lost"}
    /\ filters \cup IdsOf(server) \subseteq 1 .. created

\* A save: the filters it is the first to tell of are nowhere until they are stored.
SaveOK(s) ==
    /\ s \in Saves
    /\ Unique(s.changes.modified) /\ Distinct(s.conf)
    /\ IsInjective(s.changes.reordered)
    /\ s.old \subseteq filters
    /\ ModIds(s.changes) \cup IdsOf(s.conf) \subseteq 1 .. created
    /\ s.at = "stored" => Fresh(s) \subseteq IdsOf(s.conf)
    /\ s.at # "stored" => Fresh(s) \cap (IdsOf(server) \cup IdsOf(s.conf)) = {}

\* No other save tells of them.
Apart(s, t) ==
    s.at # "stored" => Fresh(s) \cap (ModIds(t.changes) \cup IdsOf(t.conf)) = {}

\* All the saves.
InvSaves ==
    \A s \in saves : SaveOK(s) /\ \A t \in saves \ {s} : Apart(s, t)

\* The form and the modal.
Forms == UNION {[D -> SUBSET Ids] : D \in SUBSET Ids}

Modals == [open : BOOLEAN, modified : SUBSET Ids, deleted : SUBSET Ids,
           reordered : Seq(Ids), ordered : Seq(Ids), new : SUBSET Ids,
           pending : SUBSET Ids, timers : SUBSET Ids, gone : SUBSET Ids, current : Ids \cup {0},
           form : Forms]

\* What the modal knows of, whatever happens in the page meanwhile; the form of the
\* filters X is about to be rendered, and n filters have been created.
ModalOK(m, n, X) ==
    /\ m \in Modals
    /\ IsInjective(m.ordered) /\ IsInjective(m.reordered)
    /\ m.deleted = Removed(m) /\ m.pending \cap m.gone = {} /\ m.timers = m.pending
    /\ m.pending \subseteq ToSet(m.ordered)
    /\ m.current # 0 => m.current \in DOMAIN m.form
    /\ m.new \subseteq m.modified /\ m.modified \subseteq DOMAIN m.form \cup X
    /\ DOMAIN m.form \cup ToSet(m.ordered) \subseteq filters \cup m.new
    /\ m.new \subseteq 1 .. n
    /\ m.new \cap (filters \cup IdsOf(server)) = {}
    /\ \A s \in saves : m.new \cap (ModIds(s.changes) \cup IdsOf(s.conf)) = {}

\* What holds however saves overlap and fail.
InvTypes == InvPage /\ InvSaves /\ ModalOK(modal, created, {})

\* No endless chain of dependencies in the form but between removed filters.
Settled(m) ==
    \A C \in SUBSET DOMAIN m.form :
        (C # {} /\ \A f \in C : m.form[f] \cap C # {}) => C \subseteq Removed(m)

\* What the modal knows of, while meta is the configuration it was opened with.
ModalKnows(m) ==
    /\ ToSet(m.ordered) = (IdsOf(meta) \cup m.new) \ m.gone
    /\ m.reordered # <<>> => IdsOf(meta) \ m.gone \subseteq ToSet(m.reordered)
    /\ Removed(m) \subseteq IdsOf(meta) \cup m.new
    /\ DOMAIN m.form \subseteq IdsOf(meta) \cup m.new
    /\ \A f \in DOMAIN m.form \ m.modified : m.form[f] = Item(f)

\* The open modal; without an overlap it is closed during a save.
InvModal ==
    /\ modal.open => Settled(modal)
    /\ "overlap" \notin slips =>
        /\ modal.open => saves = {} /\ ModalKnows(modal)
        /\ \A s, t \in saves : s = t

\* A form maps some filters to what they depend on.
LEMMA FormShape ==
    ASSUME NEW F
    PROVE  /\ F \in Forms => DOMAIN F \subseteq Ids /\ F \in [DOMAIN F -> SUBSET Ids]
           /\ \A D \in SUBSET Ids : F \in [D -> SUBSET Ids] => F \in Forms
BY DEF Forms

\* What the effect of DependencyList changes: dependencies go, and filters that lose
\* one are modified.
LEMMA CleanedShape ==
    ASSUME NEW m \in Modals
    PROVE  LET k == Cleaned(m) IN
           /\ k \in Modals
           /\ k.open = m.open /\ k.deleted = m.deleted /\ k.reordered = m.reordered
           /\ k.ordered = m.ordered /\ k.new = m.new /\ k.pending = m.pending
           /\ k.timers = m.timers /\ k.gone = m.gone /\ k.current = m.current
           /\ DOMAIN k.form = DOMAIN m.form
           /\ \A f \in DOMAIN m.form : k.form[f] \subseteq m.form[f]
           /\ \A f \in DOMAIN m.form \ Removed(m) : k.form[f] = m.form[f] \cap Available(m, f)
           /\ k.modified = m.modified \cup {f \in DOMAIN m.form : k.form[f] # m.form[f]}
<1> DEFINE F == m.form
           G == [f \in DOMAIN F |-> IF f \in Removed(m) THEN F[f] ELSE F[f] \cap Available(m, f)]
           mod == m.modified \cup {f \in DOMAIN G : G[f] # F[f]}
           k == [m EXCEPT !.form = G, !.modified = mod]
<1>1. Cleaned(m) = k
  BY Zenon DEF Cleaned
<1>2. F \in Forms /\ m.modified \in SUBSET Ids
  BY DEF Modals
<1>3. DOMAIN F \subseteq Ids /\ F \in [DOMAIN F -> SUBSET Ids]
  BY <1>2, FormShape
<1>4. /\ DOMAIN G = DOMAIN F /\ \A f \in DOMAIN F : G[f] \subseteq F[f]
      /\ \A f \in DOMAIN F \ Removed(m) : G[f] = F[f] \cap Available(m, f)
  OBVIOUS
<1>5. G \in Forms
  <2>1. G \in [DOMAIN F -> SUBSET Ids] BY <1>3
  <2> HIDE DEF G, F
  <2> QED BY <1>3, <2>1, FormShape
<1>6. mod \in SUBSET Ids /\ mod = m.modified \cup {f \in DOMAIN F : G[f] # F[f]}
  <2> HIDE DEF G, F
  <2> QED BY <1>2, <1>3, <1>4
<1> HIDE DEF G, mod
<1>7. /\ k \in Modals /\ k.form = G /\ k.modified = mod
      /\ k.open = m.open /\ k.deleted = m.deleted /\ k.reordered = m.reordered
      /\ k.ordered = m.ordered /\ k.new = m.new /\ k.pending = m.pending
      /\ k.timers = m.timers /\ k.gone = m.gone /\ k.current = m.current
  BY <1>5, <1>6 DEF Modals
<1> HIDE DEF k
<1> QED
  BY <1>1, <1>4, <1>6, <1>7

\* The form has no circle when the effect of DependencyList has run, but between
\* removed filters.
LEMMA CleanedSettled ==
    ASSUME NEW m \in Modals
    PROVE  Settled(Cleaned(m))
<1> DEFINE k == Cleaned(m)
           F == m.form
<1>1. F \in Forms BY DEF Modals
<1>2. DOMAIN F \subseteq Ids /\ F \in [DOMAIN F -> SUBSET Ids] BY <1>1, FormShape
<1>3. /\ DOMAIN k.form = DOMAIN F /\ Removed(k) = Removed(m)
      /\ \A f \in DOMAIN F : k.form[f] \subseteq F[f]
      /\ \A f \in DOMAIN F \ Removed(m) : k.form[f] = F[f] \cap Available(m, f)
  BY CleanedShape DEF Removed
<1> HIDE DEF k
<1>4. ASSUME NEW C \in SUBSET DOMAIN F, \A f \in C : k.form[f] \cap C # {},
             NEW f \in C, f \notin Removed(m)
      PROVE  FALSE
  <2>1. PICK g \in C : g \in F[f] /\ g \in Available(m, f) BY <1>3, <1>4
  <2> DEFINE deps == [F EXCEPT ![f] = @ \cup {g}]
  <2>2. deps \in [DOMAIN F -> SUBSET Ids] /\ \A h \in C : F[h] \subseteq deps[h]
    BY <1>2
  <2>3. ~hasCircularDependency(deps, f) BY <2>1 DEF Available
  <2> HIDE DEF deps
  <2>4. \A h \in C : deps[h] \cap C # {}
    <3> TAKE h \in C
    <3>1. k.form[h] \subseteq deps[h] BY <1>3, <2>2
    <3> QED BY <1>4, <3>1
  <2>5. hasCircularDependency(deps, f)
    <3>1. DOMAIN F \in SUBSET Ids BY <1>2
    <3> HIDE DEF F
    <3> QED BY <2>2, <2>4, <3>1, CircleFound
  <2> QED BY <2>3, <2>5
<1> QED
  BY <1>3, <1>4 DEF Settled, k

\* What is cleaned stays consistent.
LEMMA CleanedOK ==
    ASSUME NEW m, NEW n, ModalOK(m, n, {})
    PROVE  /\ ModalOK(Cleaned(m), n, {})
           /\ ModalKnows(m) => ModalKnows(Cleaned(m))
<1> DEFINE k == Cleaned(m)
<1>0. m \in Modals BY DEF ModalOK
<1>1. /\ k \in Modals
      /\ k.open = m.open /\ k.deleted = m.deleted /\ k.reordered = m.reordered
      /\ k.ordered = m.ordered /\ k.new = m.new /\ k.pending = m.pending
      /\ k.timers = m.timers /\ k.gone = m.gone /\ k.current = m.current
      /\ DOMAIN k.form = DOMAIN m.form
      /\ k.modified = m.modified \cup {f \in DOMAIN m.form : k.form[f] # m.form[f]}
  BY <1>0, CleanedShape
<1> HIDE DEF k
<1>2. Removed(k) = Removed(m) BY <1>1 DEF Removed
<1>3. k.modified \subseteq DOMAIN k.form /\ m.modified \subseteq k.modified
  BY <1>1 DEF ModalOK
<1>4. ModalOK(k, n, {})
  BY <1>1, <1>2, <1>3 DEF ModalOK
<1>5. ASSUME ModalKnows(m) PROVE ModalKnows(k)
  <2>1. \A f \in DOMAIN k.form \ k.modified : k.form[f] = Item(f)
    BY <1>1, <1>5 DEF ModalKnows
  <2> QED BY <1>1, <1>2, <1>5, <2>1 DEF ModalKnows
<1> QED BY <1>4, <1>5 DEF k

\* A filter whose form is rendered starts with the dependencies it is stored with.
LEMMA ShownOK ==
    ASSUME InvPage, NEW m, NEW n, NEW f \in Ids, ModalOK(m, n, {f}), f \in filters \cup m.new
    PROVE  /\ ModalOK(Shown(m, f), n, {})
           /\ Shown(m, f).open = m.open
           /\ ModalKnows(m) /\ f \in IdsOf(meta) \cup m.new => ModalKnows(Shown(m, f))
<1> DEFINE F == m.form
           D == DOMAIN F \cup {f}
           G == [g \in D |-> IF g \in DOMAIN F THEN F[g] ELSE Item(f)]
           k == [m EXCEPT !.current = f, !.form = G]
<1>0. m \in Modals BY DEF ModalOK
<1>1. Shown(m, f) = k
  BY Zenon DEF Shown
<1>2. F \in Forms BY <1>0 DEF Modals
<1>3. DOMAIN F \subseteq Ids /\ F \in [DOMAIN F -> SUBSET Ids] BY <1>2, FormShape
<1>4. Item(f) \in SUBSET Ids
  <2>1. CASE f \in IdsOf(meta)
    <3>1. Get(meta, f) \in ToSet(meta) BY <2>1, GetProperties
    <3>2. Get(meta, f) \in Filter BY <3>1, IdsInIds DEF InvPage
    <3> QED BY <2>1, <3>2 DEF Item, Filter
  <2>2. CASE f \notin IdsOf(meta) BY <2>2 DEF Item
  <2> QED BY <2>1, <2>2
<1>5. /\ DOMAIN G = D /\ \A g \in DOMAIN F : G[g] = F[g]
      /\ f \notin DOMAIN F => G[f] = Item(f)
  OBVIOUS
<1>6. G \in Forms
  <2>1. G \in [D -> SUBSET Ids] /\ D \in SUBSET Ids BY <1>3, <1>4
  <2> HIDE DEF G, D
  <2> QED BY <2>1, FormShape
<1> HIDE DEF G
<1>7. /\ k \in Modals /\ k.form = G /\ k.current = f
      /\ k.open = m.open /\ k.deleted = m.deleted /\ k.reordered = m.reordered
      /\ k.ordered = m.ordered /\ k.new = m.new /\ k.pending = m.pending
      /\ k.timers = m.timers /\ k.gone = m.gone /\ k.modified = m.modified
  BY <1>0, <1>6 DEF Modals
<1> HIDE DEF k
<1>8. Removed(k) = Removed(m) BY <1>7 DEF Removed
<1>9. ModalOK(k, n, {})
  BY <1>5, <1>7, <1>8 DEF ModalOK
<1>10. ASSUME ModalKnows(m), f \in IdsOf(meta) \cup m.new PROVE ModalKnows(k)
  <2>1. \A g \in DOMAIN G \ m.modified : G[g] = Item(g)
    BY <1>5, <1>10 DEF ModalKnows
  <2> QED BY <1>5, <1>7, <1>8, <1>10, <2>1 DEF ModalKnows
<1> QED BY <1>1, <1>7, <1>9, <1>10

------------------------------------------------------------------------------
(* The steps of the modal.                                                 *)

\* A closed modal knows nothing.
LEMMA ClosedOK == ASSUME NEW n PROVE ModalOK(Closed, n, {})
<1> DEFINE F == [f \in {} |-> {}]
<1>1. F \in Forms
  <2>1. F \in [{} -> SUBSET Ids] OBVIOUS
  <2> HIDE DEF F
  <2> QED BY <2>1, FormShape
<1>2. DOMAIN F = {} OBVIOUS
<1> HIDE DEF F
<1>3. Closed = [open |-> FALSE, modified |-> {}, deleted |-> {}, reordered |-> <<>>,
                ordered |-> <<>>, new |-> {}, pending |-> {}, timers |-> {}, gone |-> {},
                current |-> 0, form |-> F]
  BY Zenon DEF Closed, F
<1>4. ToSet(<<>>) = {} /\ IsInjective(<<>>) BY DEF ToSet, IsInjective
<1>5. Closed \in Modals
  BY <1>1, <1>3, SMTT(30) DEF Modals
<1> QED
  BY <1>2, <1>3, <1>4, <1>5 DEF ModalOK, Removed

\* What the page knows of a filter is a matter of its configuration.
LEMMA SameItems ==
    ASSUME meta' = meta
    PROVE  IdsOf(meta)' = IdsOf(meta) /\ \A f : Item(f)' = Item(f)
<1>1. IdsOf(meta)' = IdsOf(meta) OBVIOUS
<1>2. ASSUME NEW f PROVE Item(f)' = Item(f)
  BY <1>1, Zenon DEF Item
<1> QED BY <1>1, <1>2

\* An edit of the open modal.
LEMMA EditStep ==
    ASSUME InvModal, modal.open,
           NEW m, ModalOK(m, created', {}), m.open, ModalKnows(modal) => ModalKnows(m),
           UNCHANGED rest, UNCHANGED slips, SetModal(m)
    PROVE  ModalOK(modal, created, {})' /\ InvModal'
<1> DEFINE k == Cleaned(m)
<1>1. m \in Modals BY DEF ModalOK
<1>2. ModalOK(k, created', {}) /\ (ModalKnows(m) => ModalKnows(k)) BY CleanedOK
<1>3. Settled(k) /\ k.open BY <1>1, CleanedSettled, CleanedShape
<1>4. modal' = k BY DEF SetModal
<1> HIDE DEF k
<1>5. ModalOK(modal, created, {})' BY <1>2, <1>4, SMTT(30) DEF ModalOK, Removed, rest, IdsOf
<1>6. ModalKnows(k) => ModalKnows(modal)'
  BY <1>4, SameItems DEF ModalKnows, Removed, rest
<1>7. Settled(modal)' BY <1>3, <1>4 DEF Settled, Removed
<1>8. "overlap" \notin slips => saves' = {} /\ ModalKnows(modal)' /\ \A s, t \in saves' : s = t
  BY <1>2, <1>6 DEF InvModal, rest
<1> QED BY <1>5, <1>7, <1>8 DEF InvModal

\* handleTabChange.
LEMMA TabStep ==
    ASSUME InvTypes, InvModal, NEW f \in Ids, handleTabChange(f)
    PROVE  ModalOK(modal, created, {})' /\ InvModal'
<1>1. modal.open /\ f \in ToSet(modal.ordered) /\ SetModal(Shown(modal, f)) /\ UNCHANGED rest
      /\ created' = created /\ slips' = slips
  BY DEF handleTabChange
<1>2. ModalOK(modal, created, {}) BY DEF InvTypes
<1>3. ModalOK(modal, created, {f}) BY <1>2 DEF ModalOK
<1>4. f \in filters \cup modal.new BY <1>1, <1>2 DEF ModalOK
<1>5. ModalKnows(modal) => f \in IdsOf(meta) \cup modal.new BY <1>1 DEF ModalKnows
<1>6. /\ ModalOK(Shown(modal, f), created, {}) /\ Shown(modal, f).open
      /\ ModalKnows(modal) => ModalKnows(Shown(modal, f))
  BY <1>1, <1>3, <1>4, <1>5, ShownOK DEF InvTypes
<1> QED BY <1>1, <1>6, EditStep

\* addFilter: its number is known to nobody.
LEMMA AddStep ==
    ASSUME InvTypes, InvModal, addFilter
    PROVE  ModalOK(modal, created, {})' /\ InvModal'
<1> DEFINE f == created + 1
           order == Append(modal.ordered, f)
           m == [modal EXCEPT !.new = @ \cup {f}, !.modified = @ \cup {f}, !.ordered = order]
<1>1. modal.open /\ created < N /\ created' = f /\ SetModal(Shown(m, f)) /\ UNCHANGED rest
      /\ slips' = slips
  BY DEF addFilter
<1>2. ModalOK(modal, created, {}) /\ InvPage /\ InvSaves BY DEF InvTypes
<1>3. created \in Nat /\ f \in Ids /\ f \notin 1 .. created /\ 1 .. created \subseteq 1 .. f
      /\ f \in 1 .. f
  BY <1>1, <1>2, FilterConfigAssumption DEF InvPage, Ids
<1> HIDE DEF f
<1>4. modal \in Modals /\ modal.ordered \in Seq(Ids) BY <1>2 DEF ModalOK, Modals
<1>5. f \notin filters \cup IdsOf(server) \cup modal.new
  BY <1>2, <1>3 DEF InvPage, ModalOK
<1>6. f \notin ToSet(modal.ordered) BY <1>2, <1>5 DEF ModalOK
<1>7. /\ order \in Seq(Ids) /\ ToSet(order) = ToSet(modal.ordered) \cup {f}
      /\ IsInjective(order)
  <2>1. order \in Seq(Ids) BY <1>3, <1>4
  <2>2. IsInjective(modal.ordered) BY <1>2 DEF ModalOK
  <2> QED BY <1>3, <1>4, <1>6, <2>1, <2>2, AppendSet
<1> HIDE DEF order
<1>8. /\ m \in Modals /\ m.new = modal.new \cup {f} /\ m.modified = modal.modified \cup {f}
      /\ m.ordered = order /\ m.open /\ m.deleted = modal.deleted
      /\ m.reordered = modal.reordered /\ m.pending = modal.pending /\ m.gone = modal.gone
      /\ m.timers = modal.timers
      /\ m.current = modal.current /\ m.form = modal.form
  BY <1>1, <1>3, <1>4, <1>7 DEF Modals
<1> HIDE DEF m
<1>9. \A s \in saves : f \notin ModIds(s.changes) \cup IdsOf(s.conf)
  BY <1>2, <1>3 DEF InvSaves, SaveOK
<1>10. ModalOK(m, f, {f})
  <2>1. m.deleted = Removed(m) /\ m.pending \cap m.gone = {} /\ m.timers = m.pending
    BY <1>2, <1>8 DEF ModalOK, Removed
  <2>2. /\ DOMAIN m.form \cup ToSet(m.ordered) \subseteq filters \cup m.new
        /\ m.pending \subseteq ToSet(m.ordered)
    BY <1>2, <1>7, <1>8 DEF ModalOK
  <2>3. m.new \subseteq 1 .. f /\ m.new \cap (filters \cup IdsOf(server)) = {}
    BY <1>2, <1>3, <1>5, <1>8 DEF ModalOK
  <2>4. \A s \in saves : m.new \cap (ModIds(s.changes) \cup IdsOf(s.conf)) = {}
    BY <1>2, <1>8, <1>9 DEF ModalOK
  <2> QED BY <1>2, <1>7, <1>8, <2>1, <2>2, <2>3, <2>4, SMTT(30) DEF ModalOK
<1>11. ASSUME ModalKnows(modal) PROVE ModalKnows(m)
  <2>1. f \notin modal.gone /\ f \notin DOMAIN modal.form
    <3>1. IdsOf(meta) \subseteq filters BY <1>2 DEF InvPage
    <3> QED BY <1>5, <1>11, <3>1 DEF ModalKnows, Removed
  <2> QED BY <1>7, <1>8, <1>11, <2>1 DEF ModalKnows, Removed
<1>12. f \in m.new BY <1>8
<1>13. /\ ModalOK(Shown(m, f), f, {}) /\ Shown(m, f).open
       /\ ModalKnows(m) => ModalKnows(Shown(m, f))
  BY <1>2, <1>3, <1>8, <1>10, <1>12, ShownOK
<1> QED BY <1>1, <1>11, <1>13, EditStep

\* A dependency is added or dropped in the form of the current filter.
LEMMA DependencyStep ==
    ASSUME InvTypes, InvModal, NEW g \in Ids, AddDependency(g) \/ DropDependency(g)
    PROVE  ModalOK(modal, created, {})' /\ InvModal'
<1> DEFINE c == modal.current
           F == modal.form
<1>1. PICK d \in {F[c] \cup {g}, F[c] \ {g}} :
        SetModal([modal EXCEPT !.form[c] = d, !.modified = @ \cup {c}])
  BY DEF AddDependency, DropDependency
<1>2. modal.open /\ c \in DOMAIN F /\ UNCHANGED rest /\ created' = created /\ slips' = slips
  BY DEF AddDependency, DropDependency
<1>3. ModalOK(modal, created, {}) BY DEF InvTypes
<1>4. modal \in Modals /\ F \in Forms BY <1>3 DEF ModalOK, Modals
<1>5. DOMAIN F \subseteq Ids /\ F \in [DOMAIN F -> SUBSET Ids] BY <1>4, FormShape
<1> DEFINE G == [F EXCEPT ![c] = d]
           m == [modal EXCEPT !.form = G, !.modified = @ \cup {c}]
<1>6. [modal EXCEPT !.form[c] = d, !.modified = @ \cup {c}] = m
  BY <1>4 DEF Modals
<1>7. d \in SUBSET Ids BY <1>1, <1>2, <1>5
<1>8. G \in [DOMAIN F -> SUBSET Ids] /\ DOMAIN G = DOMAIN F /\ \A f \in DOMAIN F \ {c} : G[f] = F[f]
  BY <1>5, <1>7
<1> HIDE DEF G
<1>9. G \in Forms
  <2> HIDE DEF F
  <2> QED BY <1>5, <1>8, FormShape
<1>10. c \in Ids BY <1>2, <1>5
<1>11. /\ m \in Modals /\ m.form = G /\ m.modified = modal.modified \cup {c}
       /\ m.ordered = modal.ordered /\ m.open /\ m.deleted = modal.deleted
       /\ m.reordered = modal.reordered /\ m.pending = modal.pending /\ m.gone = modal.gone
       /\ m.timers = modal.timers
       /\ m.current = modal.current /\ m.new = modal.new
  BY <1>2, <1>4, <1>9, <1>10 DEF Modals
<1> HIDE DEF m
<1>12. ModalOK(m, created, {})
  BY <1>2, <1>3, <1>8, <1>11 DEF ModalOK, Removed
<1>13. ModalKnows(modal) => ModalKnows(m)
  BY <1>8, <1>11 DEF ModalKnows, Removed
<1> QED BY <1>1, <1>2, <1>6, <1>11, <1>12, <1>13, EditStep

\* handleRemoveItem and restoreFilter keep the list of the deleted filters in step.
LEMMA RemoveStep ==
    ASSUME InvTypes, InvModal, NEW f \in Ids, handleRemoveItem(f) \/ restoreFilter(f)
    PROVE  ModalOK(modal, created, {})' /\ InvModal'
<1>1. modal.open /\ UNCHANGED rest /\ created' = created /\ slips' = slips
  BY DEF handleRemoveItem, restoreFilter
<1>2. ModalOK(modal, created, {}) BY DEF InvTypes
<1>3. modal \in Modals BY <1>2 DEF ModalOK
<1>0. /\ modal.deleted = Removed(modal) /\ modal.pending \cap modal.gone = {}
      /\ modal.timers = modal.pending /\ modal.pending \subseteq ToSet(modal.ordered)
  BY <1>2 DEF ModalOK
<1>4. CASE handleRemoveItem(f)
  <2> DEFINE m == [modal EXCEPT !.pending = @ \cup {f}, !.timers = @ \cup {f},
                                !.deleted = @ \cup {f}]
  <2>1. SetModal(m) /\ f \in ToSet(modal.ordered) \ Removed(modal) BY <1>4 DEF handleRemoveItem
  <2>2. /\ m \in Modals /\ m.pending = modal.pending \cup {f} /\ m.deleted = modal.deleted \cup {f}
        /\ m.timers = modal.timers \cup {f}
        /\ m.ordered = modal.ordered /\ m.open /\ m.modified = modal.modified
        /\ m.reordered = modal.reordered /\ m.gone = modal.gone
        /\ m.current = modal.current /\ m.new = modal.new /\ m.form = modal.form
    BY <1>1, <1>3 DEF Modals
  <2> HIDE DEF m
  <2>3. ModalOK(m, created, {})
    <3>1. /\ m.deleted = Removed(m) /\ m.pending \cap m.gone = {}
          /\ m.timers = m.pending /\ m.pending \subseteq ToSet(m.ordered)
      BY <1>0, <2>1, <2>2 DEF Removed
    <3> QED BY <1>2, <2>2, <3>1, SMTT(30) DEF ModalOK
  <2>4. ModalKnows(modal) => ModalKnows(m) BY <2>1, <2>2 DEF ModalKnows, Removed
  <2> QED BY <1>1, <2>1, <2>2, <2>3, <2>4, EditStep
<1>5. CASE restoreFilter(f)
  <2> DEFINE m == [modal EXCEPT !.timers = @ \ {f}, !.pending = @ \ {f}, !.deleted = @ \ {f}]
  <2>1. SetModal(Shown(m, f)) /\ f \in modal.pending BY <1>5, Zenon DEF restoreFilter
  <2>2. /\ m \in Modals /\ m.pending = modal.pending \ {f} /\ m.deleted = modal.deleted \ {f}
        /\ m.timers = modal.timers \ {f}
        /\ m.ordered = modal.ordered /\ m.open /\ m.modified = modal.modified
        /\ m.reordered = modal.reordered /\ m.gone = modal.gone
        /\ m.current = modal.current /\ m.new = modal.new /\ m.form = modal.form
    BY <1>1, <1>3 DEF Modals
  <2> HIDE DEF m
  <2>3. ModalOK(m, created, {})
    <3>1. /\ m.deleted = Removed(m) /\ m.pending \cap m.gone = {}
          /\ m.timers = m.pending /\ m.pending \subseteq ToSet(m.ordered)
      BY <1>0, <2>1, <2>2 DEF Removed
    <3> QED BY <1>2, <2>2, <3>1, SMTT(30) DEF ModalOK
  <2>4. ModalKnows(modal) => ModalKnows(m) BY <2>1, <2>2 DEF ModalKnows, Removed
  <2>5. f \in filters \cup m.new BY <1>2, <2>1, <2>2 DEF ModalOK
  <2>6. ModalOK(m, created, {f}) BY <2>3 DEF ModalOK
  <2>7. ModalKnows(modal) => f \in IdsOf(meta) \cup m.new
    BY <2>1, <2>2 DEF ModalKnows, Removed
  <2>8. /\ ModalOK(Shown(m, f), created, {}) /\ Shown(m, f).open
        /\ ModalKnows(modal) => ModalKnows(Shown(m, f))
    BY <2>2, <2>4, <2>5, <2>6, <2>7, ShownOK DEF InvTypes
  <2> QED BY <1>1, <2>1, <2>8, EditStep
<1> QED BY <1>4, <1>5

\* completeFilterRemoval: the filter leaves the list, and another may be shown.
LEMMA RemovalStep ==
    ASSUME InvTypes, InvModal, NEW f \in Ids, completeFilterRemoval(f)
    PROVE  ModalOK(modal, created, {})' /\ InvModal'
<1> DEFINE order == Only(modal.ordered, Ids \ {f})
           m == [modal EXCEPT !.timers = @ \ {f}, !.pending = @ \ {f}, !.gone = @ \cup {f},
                              !.ordered = order]
           others == Only(m.ordered, Ids \ Removed(m))
           shows == m.current \in m.gone /\ others # <<>>
<1>1. modal.open /\ UNCHANGED rest /\ created' = created /\ slips' = slips /\ f \in modal.timers
  BY DEF completeFilterRemoval
<1>2. SetModal(IF shows THEN Shown(m, others[1]) ELSE m)
  BY Zenon DEF completeFilterRemoval, useRemoveCurrentFilter
<1>3. ModalOK(modal, created, {}) BY DEF InvTypes
<1>4. modal \in Modals /\ modal.ordered \in Seq(Ids) BY <1>3 DEF ModalOK, Modals
<1>5. order \in Seq(Ids) /\ ToSet(order) = ToSet(modal.ordered) \ {f} /\ IsInjective(order)
  <2>1. ToSet(modal.ordered) \subseteq Ids BY <1>4 DEF ToSet
  <2>2. order \in Seq(Ids) /\ ToSet(order) = ToSet(modal.ordered) \cap (Ids \ {f})
        /\ IsInjective(order)
    BY <1>3, <1>4, OnlyProperties, SMTT(30) DEF ModalOK
  <2> QED BY <2>1, <2>2
<1> HIDE DEF order
<1>6. /\ m \in Modals /\ m.pending = modal.pending \ {f} /\ m.deleted = modal.deleted
      /\ m.timers = modal.timers \ {f}
      /\ m.ordered = order /\ m.open /\ m.modified = modal.modified
      /\ m.reordered = modal.reordered /\ m.gone = modal.gone \cup {f}
      /\ m.current = modal.current /\ m.new = modal.new /\ m.form = modal.form
  BY <1>1, <1>4, <1>5 DEF Modals
<1> HIDE DEF m
<1>7. ModalOK(m, created, {})
  <2>1. m.deleted = Removed(m) /\ m.pending \cap m.gone = {} /\ m.timers = m.pending
    <3>1. /\ modal.deleted = Removed(modal) /\ modal.pending \cap modal.gone = {}
          /\ modal.timers = modal.pending
      BY <1>3 DEF ModalOK
    <3> QED BY <1>1, <1>6, <3>1 DEF Removed
  <2>2. IsInjective(m.ordered) /\ IsInjective(m.reordered)
    BY <1>3, <1>5, <1>6 DEF ModalOK
  <2>3. /\ DOMAIN m.form \cup ToSet(m.ordered) \subseteq filters \cup m.new
        /\ m.pending \subseteq ToSet(m.ordered)
    BY <1>3, <1>5, <1>6 DEF ModalOK
  <2>4. /\ m.current # 0 => m.current \in DOMAIN m.form
        /\ m.new \subseteq m.modified /\ m.modified \subseteq DOMAIN m.form
        /\ m.new \subseteq 1 .. created /\ m.new \cap (filters \cup IdsOf(server)) = {}
    BY <1>3, <1>6 DEF ModalOK
  <2>5. \A s \in saves : m.new \cap (ModIds(s.changes) \cup IdsOf(s.conf)) = {}
    BY <1>3, <1>6 DEF ModalOK
  <2> QED BY <1>6, <2>1, <2>2, <2>3, <2>4, <2>5 DEF ModalOK
<1>8. ModalKnows(modal) => ModalKnows(m)
  <2>1. f \in modal.pending BY <1>1, <1>3 DEF ModalOK
  <2> QED BY <1>5, <1>6, <2>1 DEF ModalKnows, Removed
<1>9. CASE ~shows
  BY <1>1, <1>2, <1>6, <1>7, <1>8, <1>9, EditStep
<1>10. CASE shows
  <2> DEFINE g == others[1]
  <2>1. others \in Seq(Ids) /\ ToSet(others) \subseteq ToSet(order)
    BY <1>5, <1>6, OnlyProperties, SMTT(30)
  <2> HIDE DEF others
  <2>2. 1 \in DOMAIN others BY <1>10, <2>1
  <2>3. g \in Ids /\ g \in ToSet(order) BY <2>1, <2>2 DEF ToSet
  <2>4. SetModal(Shown(m, g)) BY <1>2, <1>10
  <2> HIDE DEF g
  <2>5. g \in filters \cup m.new BY <1>6, <1>7, <2>3 DEF ModalOK
  <2>6. ModalOK(m, created, {g}) BY <1>7 DEF ModalOK
  <2>7. ModalKnows(m) => g \in IdsOf(meta) \cup m.new BY <1>6, <2>3 DEF ModalKnows
  <2>8. /\ ModalOK(Shown(m, g), created, {}) /\ Shown(m, g).open
        /\ ModalKnows(m) => ModalKnows(Shown(m, g))
    BY <1>6, <2>3, <2>5, <2>6, <2>7, ShownOK DEF InvTypes
  <2> QED BY <1>1, <1>8, <2>4, <2>8, EditStep
<1> QED BY <1>9, <1>10

\* handleRearrange: the order that will be sent has every filter of the list.
LEMMA RearrangeStep ==
    ASSUME InvTypes, InvModal, NEW i \in 1 .. N, NEW j \in 1 .. N, handleRearrange(i, j)
    PROVE  ModalOK(modal, created, {})' /\ InvModal'
<1> DEFINE order == InsertAt(RemoveAt(modal.ordered, i), j, modal.ordered[i])
           m == [modal EXCEPT !.ordered = order, !.reordered = order]
<1>1. modal.open /\ UNCHANGED rest /\ created' = created /\ slips' = slips
      /\ {i, j} \subseteq DOMAIN modal.ordered /\ SetModal(m)
  BY DEF handleRearrange
<1>2. ModalOK(modal, created, {}) BY DEF InvTypes
<1>3. modal \in Modals /\ modal.ordered \in Seq(Ids) BY <1>2 DEF ModalOK, Modals
<1>4. order \in Seq(Ids) /\ ToSet(order) = ToSet(modal.ordered) /\ IsInjective(order)
  <2>1. i \in 1 .. Len(modal.ordered) /\ j \in 1 .. Len(modal.ordered) BY <1>1, <1>3
  <2> QED BY <1>2, <1>3, <2>1, Rearranged DEF ModalOK
<1> HIDE DEF order
<1>5. /\ m \in Modals /\ m.ordered = order /\ m.reordered = order
      /\ m.pending = modal.pending /\ m.timers = modal.timers /\ m.deleted = modal.deleted
      /\ m.open /\ m.modified = modal.modified /\ m.gone = modal.gone
      /\ m.current = modal.current /\ m.new = modal.new /\ m.form = modal.form
  BY <1>1, <1>3, <1>4 DEF Modals
<1> HIDE DEF m
<1>6. ModalOK(m, created, {}) BY <1>2, <1>4, <1>5 DEF ModalOK, Removed
<1>7. ModalKnows(modal) => ModalKnows(m) BY <1>4, <1>5 DEF ModalKnows, Removed
<1> QED BY <1>1, <1>5, <1>6, <1>7, EditStep

\* The modal opens with what the page knows.
LEMMA OpenStep ==
    ASSUME InvTypes, InvModal, Open
    PROVE  ModalOK(modal, created, {})' /\ InvModal'
<1> DEFINE order == [i \in DOMAIN meta |-> meta[i].id]
           m == [Closed EXCEPT !.open = TRUE, !.ordered = order]
<1>1. /\ UNCHANGED rest /\ created' = created
      /\ slips' = IF saves = {} THEN slips ELSE slips \cup {"overlap"}
      /\ IF order = <<>> THEN SetModal(m) ELSE \E f \in ToSet(order) : SetModal(Shown(m, f))
  BY Zenon DEF Open
<1>2. ModalOK(Closed, created, {}) /\ InvPage BY ClosedOK DEF InvTypes
<1>3. order \in Seq(Ids) /\ ToSet(order) = IdsOf(meta) /\ IsInjective(order)
  <2>1. meta \in Seq(Filter) BY <1>2 DEF InvPage
  <2>2. order \in Seq(Ids)
    <3>1. DOMAIN meta = 1 .. Len(meta) /\ Len(meta) \in Nat BY <2>1
    <3>2. \A i \in DOMAIN meta : meta[i].id \in Ids
      <4>1. \A i \in DOMAIN meta : meta[i] \in Filter BY <2>1
      <4> QED BY <4>1 DEF Filter
    <3>3. order \in [1 .. Len(meta) -> Ids] BY <3>1, <3>2
    <3> QED BY <3>1, <3>3
  <2>3. ToSet(order) = IdsOf(meta) BY DEF ToSet, IdsOf
  <2> QED BY <1>2, <2>2, <2>3 DEF InvPage, Distinct
<1> HIDE DEF order
<1>4. /\ m \in Modals /\ m.ordered = order /\ m.reordered = <<>>
      /\ m.pending = {} /\ m.timers = {} /\ m.deleted = {} /\ m.open /\ m.modified = {} /\ m.gone = {}
      /\ m.current = 0 /\ m.new = {} /\ DOMAIN m.form = {}
  <2>1. Closed \in Modals BY <1>2 DEF ModalOK
  <2> QED BY <1>3, <2>1 DEF Modals, Closed
<1> HIDE DEF m
<1>5. ModalOK(m, created, {})
  <2>1. IsInjective(<<>>) BY DEF IsInjective
  <2> QED BY <1>2, <1>3, <1>4, <2>1 DEF ModalOK, Removed, InvPage
<1>6. ModalKnows(m) BY <1>3, <1>4 DEF ModalKnows, Removed
<1>7. ASSUME NEW k, ModalOK(k, created, {}), ModalKnows(k), k.open, SetModal(k)
      PROVE  ModalOK(modal, created, {})' /\ InvModal'
  <2> DEFINE l == Cleaned(k)
  <2>1. k \in Modals BY <1>7 DEF ModalOK
  <2>2. ModalOK(l, created, {}) /\ ModalKnows(l) BY <1>7, CleanedOK
  <2>3. Settled(l) /\ l.open BY <1>7, <2>1, CleanedSettled, CleanedShape
  <2>4. modal' = l BY <1>7 DEF SetModal
  <2> HIDE DEF l
  <2>5. ModalOK(modal, created, {})' BY <1>1, <2>2, <2>4, SMTT(30) DEF ModalOK, Removed, rest, IdsOf
  <2>6. ModalKnows(modal)'
    BY <1>1, <2>2, <2>4, SameItems DEF ModalKnows, Removed, rest
  <2>7. Settled(modal)' BY <2>3, <2>4 DEF Settled, Removed
  <2>8. "overlap" \notin slips' => saves' = {} BY <1>1 DEF rest
  <2> QED BY <2>5, <2>6, <2>7, <2>8 DEF InvModal
<1>8. CASE order = <<>> BY <1>1, <1>4, <1>5, <1>6, <1>7, <1>8
<1>9. CASE order # <<>>
  <2>1. PICK f \in ToSet(order) : SetModal(Shown(m, f)) BY <1>1, <1>9
  <2>2. f \in IdsOf(meta) /\ f \in filters /\ f \in Ids
    BY <1>2, <1>3 DEF InvPage
  <2>3. ModalOK(m, created, {f}) BY <1>5 DEF ModalOK
  <2>4. ModalOK(Shown(m, f), created, {}) /\ Shown(m, f).open /\ ModalKnows(Shown(m, f))
    BY <1>2, <1>4, <1>6, <2>2, <2>3, ShownOK
  <2> QED BY <1>7, <2>1, <2>4
<1> QED BY <1>8, <1>9
=============================================================================
