------------------------- MODULE CompositionProofs -------------------------
(***************************************************************************)
(* What the composition of a stack and its preview (StackComposition)      *)
(* compute for any layers: the preview lists an overlap exactly where two  *)
(* parts of the recipe declare differently, and the order of the layers    *)
(* changes nothing the preview is quiet about.  A merge goes through the   *)
(* parts one at a time: that its accumulator is a function at all is shown *)
(* by extending it step by step (Iterates), and what it holds after i      *)
(* parts by the least i for which it would not (UpTo).                     *)
(***************************************************************************)
EXTENDS StackComposition, FiniteSetTheorems, SequenceTheorems, WellFoundedInduction, TLAPS

\* A set of natural numbers has a least one.
LEMMA HasMin ==
    ASSUME NEW T \in SUBSET Nat, T # {}
    PROVE  Min(T) \in T /\ \A k \in T : Min(T) <= k
<1> DEFINE R == OpToRel(<, Nat)
<1>1. \A x, y \in Nat : <<x, y>> \in R <=> x < y
  BY DEF OpToRel
<1>2. IsWellFoundedOn(R, Nat)
  BY NatLessThanWellFounded
<1> HIDE DEF R
<1>3. PICK m \in T : \A k \in T : ~(<<k, m>> \in R)
  BY <1>2, WFMin
<1>4. \A k \in T : k \in Nat /\ m \in Nat /\ ~(k < m)
  BY <1>1, <1>3
<1>5. \A k \in T : m <= k
  BY <1>4
<1>6. QED
  BY <1>5, Zenon DEF Min

\* Induction up to n, over a set.
LEMMA UpTo ==
    ASSUME NEW n \in Nat, NEW T, 0 \in T, \A k \in 0..n : k # n /\ k \in T => k + 1 \in T
    PROVE  0..n \subseteq T
<1> DEFINE Out == {k \in 0..n : k \notin T}
<1>1. SUFFICES ASSUME Out # {} PROVE FALSE
  OBVIOUS
<1>2. Out \in SUBSET Nat
  OBVIOUS
<1>3. PICK m \in Out : \A k \in Out : m <= k
  BY <1>1, <1>2, HasMin
<1>4. m \in 0..n /\ m \notin T /\ m # 0
  BY <1>3
<1>5. m - 1 \in 0..n /\ m - 1 # n /\ m - 1 \notin Out /\ (m - 1) + 1 = m
  BY <1>3, <1>4
<1>6. QED
  BY <1>4, <1>5

\* A value in S can be computed from 0 up to n, one step at a time.
Computes(f, S, start, n, Step) ==
    f \in [0..n -> S] /\ f[0] = start /\ \A i \in 1..n : f[i] = Step[<<f[i - 1], i>>]

\* A step that stays in S can be repeated n times.
LEMMA Iterates ==
    ASSUME NEW S, NEW start \in S, NEW n \in Nat, NEW Step,
           \A s \in S : \A i \in 1..n : Step[<<s, i>>] \in S
    PROVE  \E f : Computes(f, S, start, n, Step)
<1> USE DEF Computes
<1> DEFINE T == {k \in 0..n : \E f : Computes(f, S, start, k, Step)}
<1>1. 0 \in T
  <2> DEFINE f == [i \in 0..0 |-> start]
  <2>1. f \in [0..0 -> S] /\ f[0] = start /\ 1..0 = {} /\ 0 \in 0..n
    OBVIOUS
  <2> HIDE DEF f
  <2>2. QED
    BY <2>1
<1>2. ASSUME NEW k \in 0..n, k # n, k \in T
      PROVE  k + 1 \in T
  <2>1. PICK f : Computes(f, S, start, k, Step)
    BY <1>2
  <2>2. k \in Nat /\ k + 1 \in 1..n /\ k + 1 \in 0..n
    BY <1>2
  <2> DEFINE g == [i \in 0..(k + 1) |-> IF i = k + 1 THEN Step[<<f[k], k + 1>>] ELSE f[i]]
  <2>3. Step[<<f[k], k + 1>>] \in S
    BY <2>1, <2>2
  <2>4. g \in [0..(k + 1) -> S] /\ g[0] = start
    BY <2>1, <2>2, <2>3
  <2>5. ASSUME NEW i \in 1..(k + 1)
        PROVE  g[i] = Step[<<g[i - 1], i>>]
    <3>1. CASE i = k + 1
      <4>1. g[i] = Step[<<f[k], k + 1>>] /\ g[i - 1] = f[k]
        BY <2>2, <3>1
      <4>2. QED
        BY <3>1, <4>1
    <3>2. CASE i # k + 1
      <4>1. i \in 1..k /\ g[i] = f[i] /\ g[i - 1] = f[i - 1]
        BY <2>2, <2>5, <3>2
      <4>2. QED
        BY <2>1, <4>1
    <3>3. QED
      BY <3>1, <3>2
  <2>6. QED
    BY <2>2, <2>4, <2>5
<1>3. 0..n \subseteq T
  <2> HIDE DEF T
  <2>1. QED
    BY <1>1, <1>2, UpTo
<1>4. QED
  BY <1>3

\* A concatenation has the elements of its parts.
LEMMA RangeOfConcat ==
    ASSUME NEW S, NEW a \in Seq(S), NEW b \in Seq(S)
    PROVE  a \o b \in Seq(S) /\ Range(a \o b) = Range(a) \union Range(b)
BY ConcatProperties, RangeConcatenation

\* Flattening keeps the elements of the sequences, and no others.
LEMMA Flattens ==
    ASSUME NEW S, NEW seqs \in Seq(Seq(S)), seqs # <<>>
    PROVE  /\ FlattenSeq(seqs) \in Seq(S)
           /\ Range(FlattenSeq(seqs)) = UNION {Range(seqs[i]) : i \in DOMAIN seqs}
<1> DEFINE n == Len(seqs)
           Flat(F) == [i \in 1..n |-> IF i = 1 THEN seqs[i] ELSE F[i - 1] \o seqs[i]]
           flat == CHOOSE F : F = Flat(F)
<1>1. n \in Nat /\ n # 0 /\ n - 1 \in Nat /\ DOMAIN seqs = 1..n /\ \A i \in 1..n : seqs[i] \in Seq(S)
  BY EmptySeq, LenProperties
<1>2. FlattenSeq(seqs) = flat[n]
  BY <1>1, Zenon DEF FlattenSeq
<1> HIDE DEF n
<1>3. \E F : F = Flat(F)
  <2> DEFINE Step == [x \in Seq(S) \X (1..(n - 1)) |-> x[1] \o seqs[x[2] + 1]]
  <2>2. \A s \in Seq(S) : \A i \in 1..(n - 1) : Step[<<s, i>>] = s \o seqs[i + 1]
    OBVIOUS
  <2> HIDE DEF Step
  <2>1. ASSUME NEW s \in Seq(S), NEW i \in 1..(n - 1)
        PROVE  Step[<<s, i>>] \in Seq(S)
    <3>1. i + 1 \in 1..n
      BY <1>1
    <3>2. QED
      BY <1>1, <2>2, <3>1, RangeOfConcat
  <2>3. PICK f : Computes(f, Seq(S), seqs[1], n - 1, Step)
    <3>1. seqs[1] \in Seq(S) /\ n - 1 \in Nat
      BY <1>1
    <3>2. QED
      BY <2>1, <3>1, Iterates, Zenon
  <2> DEFINE g == [i \in 1..n |-> f[i - 1]]
  <2>4. ASSUME NEW i \in 1..n
        PROVE  g[i] = IF i = 1 THEN seqs[i] ELSE g[i - 1] \o seqs[i]
    <3>1. CASE i = 1
      BY <1>1, <2>3, <3>1 DEF Computes
    <3>2. CASE i # 1
      <4>1. i - 1 \in 1..(n - 1) /\ (i - 1) + 1 = i /\ (i - 1) - 1 \in 0..(n - 1) /\ i - 1 \in 1..n
        BY <1>1, <3>2
      <4>2. f[i - 1] = f[(i - 1) - 1] \o seqs[i]
        BY <2>2, <2>3, <4>1 DEF Computes
      <4>3. QED
        BY <3>2, <4>1, <4>2
    <3>3. QED
      BY <3>1, <3>2
  <2>5. g = Flat(g)
    BY <2>4
  <2>6. QED
    BY <2>5
<1>4. \A i \in 1..n : flat[i] = IF i = 1 THEN seqs[i] ELSE flat[i - 1] \o seqs[i]
  <2>1. flat = Flat(flat)
    BY <1>3, Zenon
  <2> HIDE DEF flat
  <2>2. QED
    BY <2>1, Zenon
<1> HIDE DEF flat
<1> DEFINE T == {k \in 0..n : k = 0 \/ (/\ flat[k] \in Seq(S)
                                       /\ Range(flat[k]) = UNION {Range(seqs[i]) : i \in 1..k})}
<1>5. 0 \in T
  BY <1>1
<1>6. ASSUME NEW k \in 0..n, k # n, k \in T
      PROVE  k + 1 \in T
  <2>1. k + 1 \in 0..n /\ k + 1 \in 1..n /\ (k + 1) - 1 = k
    BY <1>1, <1>6
  <2>2. flat[k + 1] = IF k = 0 THEN seqs[k + 1] ELSE flat[k] \o seqs[k + 1]
    BY <1>4, <2>1
  <2>3. \A i : i \in 1..(k + 1) <=> i \in 1..k \/ i = k + 1
    BY <2>1
  <2>4. UNION {Range(seqs[i]) : i \in 1..(k + 1)} = (UNION {Range(seqs[i]) : i \in 1..k}) \union Range(seqs[k + 1])
    BY <2>3
  <2>5. CASE k = 0
    <3>1. 1..k = {} /\ flat[k + 1] = seqs[k + 1]
      BY <2>2, <2>5
    <3>2. UNION {Range(seqs[i]) : i \in 1..k} = {}
      BY <3>1
    <3>3. QED
      BY <1>1, <2>1, <2>4, <3>1, <3>2
  <2>6. CASE k # 0
    <3>1. flat[k] \in Seq(S) /\ Range(flat[k]) = UNION {Range(seqs[i]) : i \in 1..k}
      BY <1>6, <2>6
    <3>2. flat[k + 1] \in Seq(S) /\ Range(flat[k + 1]) = Range(flat[k]) \union Range(seqs[k + 1])
      BY <1>1, <2>1, <2>2, <2>6, <3>1, RangeOfConcat
    <3>3. QED
      BY <2>1, <2>4, <3>1, <3>2
  <2>7. QED
    BY <2>5, <2>6
<1>7. n \in T
  <2> HIDE DEF T
  <2>1. 0..n \subseteq T
    BY <1>1, <1>5, <1>6, UpTo
  <2>2. QED
    BY <1>1, <2>1
<1>8. QED
  BY <1>1, <1>2, <1>7

-----------------------------------------------------------------------------
(***************************************************************************)
(* Merging.  C is the set of pairs of places whose versions clash.         *)
(***************************************************************************)
IsDeps(deps, names) == deps \in Seq(Range(deps)) /\ \A d \in Range(deps) : d.name \in names

\* The last mention of name m in the first i dependencies is at j.
LastAt(deps, i, m, j) ==
    j \in 1..i /\ deps[j].name = m /\ \A k \in (j + 1)..i : deps[k].name # m

Accumulators(deps, names) ==
    [chosen : [names -> {Unset} \union {[version |-> deps[j].version] : j \in DOMAIN deps}],
     clash  : BOOLEAN]

Initially(names) == [chosen |-> [m \in names |-> Unset], clash |-> FALSE]

\* What consuming dependency i does, when it clashes and when it does not.
Consumed(acc, d, clashes) ==
    IF acc.clash \/ clashes
    THEN [acc EXCEPT !.clash = TRUE]
    ELSE [acc EXCEPT !.chosen[d.name] = [version |-> d.version]]

\* The accumulator after i dependencies: a clash if two consecutive mentions
\* clash, else the last mention of every name.
Accumulated(acc, deps, names, C, i) ==
    /\ acc \in Accumulators(deps, names)
    /\ acc.clash <=> \E p \in Consecutive(deps) : p \in C /\ p[2] <= i
    /\ ~acc.clash => \A m \in names :
          \/ acc.chosen[m] = Unset /\ \A j \in 1..i : deps[j].name # m
          \/ \E j : LastAt(deps, i, m, j) /\ acc.chosen[m] = [version |-> deps[j].version]

\* A chosen version is told from none.
LEMMA AVersionIsSet == \A v : [version |-> v] # Unset /\ [version |-> v].version = v
<1>1. ASSUME NEW v PROVE [version |-> v] # Unset
  <2>1. DOMAIN [version |-> v] = {"version"} /\ DOMAIN Unset = {"none"}
    BY DEF Unset
  <2>2. "version" # "none"
    OBVIOUS
  <2>3. QED
    BY <2>1, <2>2
<1>2. QED
  BY <1>1

\* Consuming a dependency keeps to the accumulators.
LEMMA ConsumedType ==
    ASSUME NEW names, NEW deps, IsDeps(deps, names), NEW acc \in Accumulators(deps, names),
           NEW i \in 1..Len(deps), NEW clashes
    PROVE  Consumed(acc, deps[i], clashes) \in Accumulators(deps, names)
<1>1. i \in DOMAIN deps /\ deps[i].name \in names
  BY LenProperties DEF IsDeps, Range
<1>2. [version |-> deps[i].version] \in {[version |-> deps[j].version] : j \in DOMAIN deps}
  BY <1>1
<1> DEFINE V == {Unset} \union {[version |-> deps[j].version] : j \in DOMAIN deps}
           new == [version |-> deps[i].version]
<1>3. acc \in [chosen : [names -> V], clash : BOOLEAN] /\ new \in V
  BY <1>2 DEF Accumulators
<1> HIDE DEF V, new
<1>4. [acc EXCEPT !.clash = TRUE] \in [chosen : [names -> V], clash : BOOLEAN]
  BY <1>3
<1>5. [acc EXCEPT !.chosen[deps[i].name] = new] \in [chosen : [names -> V], clash : BOOLEAN]
  BY <1>1, <1>3
<1>6. QED
  BY <1>4, <1>5 DEF Consumed, Accumulators, V, new

\* Before any dependency ...
LEMMA AccumulatesAtFirst ==
    ASSUME NEW names, NEW deps, IsDeps(deps, names), NEW C
    PROVE  Initially(names) \in Accumulators(deps, names) /\ Accumulated(Initially(names), deps, names, C, 0)
<1>1. Initially(names) \in Accumulators(deps, names)
  <2> DEFINE V == {Unset} \union {[version |-> deps[j].version] : j \in DOMAIN deps}
  <2>1. Unset \in V
    OBVIOUS
  <2> HIDE DEF V
  <2>2. [chosen |-> [m \in names |-> Unset], clash |-> FALSE] \in [chosen : [names -> V], clash : BOOLEAN]
    BY <2>1
  <2>3. QED
    BY <2>2 DEF Initially, Accumulators, V
<1>2. DOMAIN deps \subseteq Nat \ {0}
  BY LenProperties DEF IsDeps
<1>3. \A p \in Consecutive(deps) : ~(p[2] <= 0)
  BY <1>2 DEF Consecutive
<1>4. 1..0 = {}
  OBVIOUS
<1>5. ~Initially(names).clash /\ \A m \in names : Initially(names).chosen[m] = Unset
  BY DEF Initially
<1>6. QED
  BY <1>1, <1>3, <1>4, <1>5 DEF Accumulated

\* ... with one more, which clashes when it does with the last mention ...
LEMMA AccumulatesOne ==
    ASSUME NEW names, NEW deps, IsDeps(deps, names), NEW C, NEW acc, NEW i \in 1..Len(deps),
           Accumulated(acc, deps, names, C, i - 1),
           NEW clashes \in BOOLEAN,
           ~acc.clash => (clashes <=> \E j : LastAt(deps, i - 1, deps[i].name, j) /\ <<j, i>> \in C)
    PROVE  Accumulated(Consumed(acc, deps[i], clashes), deps, names, C, i)
<1> DEFINE after == Consumed(acc, deps[i], clashes)
           d == deps[i]
<1>1. /\ i \in DOMAIN deps /\ d.name \in names /\ DOMAIN deps = 1..Len(deps) /\ Len(deps) \in Nat
      /\ i \in Nat /\ i # 0
  BY LenProperties DEF IsDeps, Range
<1>2. after \in Accumulators(deps, names)
  BY ConsumedType DEF Accumulated
<1>3. after.clash <=> acc.clash \/ clashes
  BY DEF Consumed, Accumulated, Accumulators
<1>4. ASSUME NEW p \in Consecutive(deps)
      PROVE  p[2] <= i <=> p[2] <= i - 1 \/ p[2] = i
  BY <1>1 DEF Consecutive
<1>5. ASSUME NEW j
      PROVE  LastAt(deps, i - 1, d.name, j) <=> <<j, i>> \in Consecutive(deps)
  BY <1>1 DEF LastAt, Consecutive
<1>6. \A p \in Consecutive(deps) : p[2] = i => p = <<p[1], i>>
  BY DEF Consecutive
<1>7. after.clash <=> \E p \in Consecutive(deps) : p \in C /\ p[2] <= i
  <2>1. acc.clash <=> \E p \in Consecutive(deps) : p \in C /\ p[2] <= i - 1
    BY DEF Accumulated
  <2>2. (\E j : LastAt(deps, i - 1, d.name, j) /\ <<j, i>> \in C) <=>
        \E p \in Consecutive(deps) : p \in C /\ p[2] = i
    BY <1>5, <1>6
  <2>3. QED
    BY <1>3, <1>4, <2>1, <2>2
<1>8. ASSUME ~after.clash, NEW m \in names
      PROVE  \/ after.chosen[m] = Unset /\ \A j \in 1..i : deps[j].name # m
             \/ \E j : LastAt(deps, i, m, j) /\ after.chosen[m] = [version |-> deps[j].version]
  <2>1. ~acc.clash /\ ~clashes
    BY <1>3, <1>8
  <2> DEFINE new == [version |-> d.version]
  <2>2. after.chosen[m] = IF m = d.name THEN new ELSE acc.chosen[m]
    <3>1. after = [acc EXCEPT !.chosen[d.name] = new]
      BY <2>1 DEF Consumed
    <3>2. acc \in [chosen : [names -> {Unset} \union {[version |-> deps[j].version] : j \in DOMAIN deps}],
                   clash : BOOLEAN]
      BY DEF Accumulated, Accumulators
    <3>3. DOMAIN acc.chosen = names /\ "chosen" \in DOMAIN acc
      BY <3>2
    <3> HIDE DEF new, after, d
    <3>4. QED
      BY <1>1, <3>1, <3>3
  <2>3. \A j \in 1..i : j = i \/ j \in 1..(i - 1)
    BY <1>1
  <2>4. CASE m = d.name
    <3>1. LastAt(deps, i, m, i)
      BY <1>1, <2>4 DEF LastAt
    <3>2. QED
      BY <2>2, <2>4, <3>1
  <2>5. CASE m # d.name
    <3>1. \/ acc.chosen[m] = Unset /\ \A j \in 1..(i - 1) : deps[j].name # m
          \/ \E j : LastAt(deps, i - 1, m, j) /\ acc.chosen[m] = [version |-> deps[j].version]
      BY <2>1 DEF Accumulated
    <3>2. \A j : LastAt(deps, i - 1, m, j) => LastAt(deps, i, m, j)
      <4> SUFFICES ASSUME NEW j, LastAt(deps, i - 1, m, j) PROVE LastAt(deps, i, m, j)
        OBVIOUS
      <4>1. j \in 1..i /\ \A k \in (j + 1)..i : k = i \/ k \in (j + 1)..(i - 1)
        BY <1>1 DEF LastAt
      <4>2. QED
        BY <2>5, <4>1 DEF LastAt
    <3>3. QED
      BY <2>2, <2>3, <2>5, <3>1, <3>2
  <2>6. QED
    BY <2>4, <2>5
<1>9. QED
  BY <1>2, <1>7, <1>8 DEF Accumulated

\* What merging yields: a clash if two consecutive mentions clash, else the
\* last mention of every name.
Merges(acc, deps, names, C) ==
    /\ acc.clash <=> \E p \in Consecutive(deps) : p \in C
    /\ ~acc.clash => \A m \in names :
          \/ acc.chosen[m] = Unset /\ \A j \in DOMAIN deps : deps[j].name # m
          \/ \E j \in DOMAIN deps : deps[j].name = m /\ acc.chosen[m] = [version |-> deps[j].version]
    /\ acc.chosen = [m \in names |-> acc.chosen[m]]

\* ... and so after all of them, when each is compared with what is kept.
LEMMA AccumulatesAll ==
    ASSUME NEW names, NEW deps, IsDeps(deps, names), NEW C, NEW after, NEW clashing,
           after[0] = Initially(names),
           \A i \in 1..Len(deps) :
              LET kept == after[i - 1].chosen[deps[i].name]
              IN  /\ clashing[i] \in BOOLEAN
                  /\ after[i] = Consumed(after[i - 1], deps[i], clashing[i])
                  /\ kept = Unset => ~clashing[i]
                  /\ \A j \in DOMAIN deps : kept = [version |-> deps[j].version] =>
                                                (clashing[i] <=> <<j, i>> \in C)
    PROVE  Merges(after[Len(deps)], deps, names, C)
<1> DEFINE n == Len(deps)
           T == {k \in 0..n : Accumulated(after[k], deps, names, C, k)}
<1>1. n \in Nat /\ DOMAIN deps = 1..n
  BY LenProperties DEF IsDeps
<1> HIDE DEF n
<1>2. 0 \in T
  <2>1. 0 \in 0..n /\ Accumulated(after[0], deps, names, C, 0)
    BY <1>1, AccumulatesAtFirst
  <2>2. QED
    BY <2>1
<1>3. ASSUME NEW k \in 0..n, k # n, k \in T
      PROVE  k + 1 \in T
  <2> DEFINE i == k + 1
             acc == after[k]
             m == deps[i].name
  <2>1. i \in 1..n /\ i \in 0..n /\ i - 1 = k /\ i \in DOMAIN deps
    BY <1>1, <1>3
  <2>2. Accumulated(acc, deps, names, C, i - 1)
    BY <1>3, <2>1
  <2>3. /\ clashing[i] \in BOOLEAN
        /\ after[i] = Consumed(acc, deps[i], clashing[i])
        /\ acc.chosen[m] = Unset => ~clashing[i]
        /\ \A j \in DOMAIN deps : acc.chosen[m] = [version |-> deps[j].version] =>
                                      (clashing[i] <=> <<j, i>> \in C)
    BY <2>1 DEF n
  <2>4. m \in names
    BY <2>1 DEF IsDeps, Range
  <2>5. ASSUME ~acc.clash
        PROVE  clashing[i] <=> \E j : LastAt(deps, i - 1, m, j) /\ <<j, i>> \in C
    <3>1. \/ acc.chosen[m] = Unset /\ \A j \in 1..(i - 1) : deps[j].name # m
          \/ \E j : LastAt(deps, i - 1, m, j) /\ acc.chosen[m] = [version |-> deps[j].version]
      BY <2>2, <2>4, <2>5 DEF Accumulated
    <3>2. CASE acc.chosen[m] = Unset /\ \A j \in 1..(i - 1) : deps[j].name # m
      BY <2>3, <3>2 DEF LastAt
    <3>3. ASSUME NEW j, LastAt(deps, i - 1, m, j), acc.chosen[m] = [version |-> deps[j].version]
          PROVE  clashing[i] <=> \E l : LastAt(deps, i - 1, m, l) /\ <<l, i>> \in C
      <4>1. clashing[i] <=> <<j, i>> \in C
        <5>1. j \in DOMAIN deps
          BY <1>1, <2>1, <3>3 DEF LastAt
        <5>2. QED
          BY <2>3, <3>3, <5>1
      <4>2. \A l : LastAt(deps, i - 1, m, l) => l = j
        <5> SUFFICES ASSUME NEW l, LastAt(deps, i - 1, m, l), l # j PROVE FALSE
          OBVIOUS
        <5>1. l \in (j + 1)..(i - 1) \/ j \in (l + 1)..(i - 1)
          BY <2>1, <3>3 DEF LastAt
        <5>2. QED
          BY <3>3, <5>1 DEF LastAt
      <4>3. QED
        BY <3>3, <4>1, <4>2
    <3>4. QED
      BY <3>1, <3>2, <3>3
  <2> HIDE DEF acc
  <2>6. Accumulated(Consumed(acc, deps[i], clashing[i]), deps, names, C, i)
    BY <2>1, <2>2, <2>3, <2>5, AccumulatesOne DEF n
  <2>7. QED
    BY <2>1, <2>3, <2>6
<1>4. n \in T
  <2> HIDE DEF T
  <2>1. 0..n \subseteq T
    BY <1>1, <1>2, <1>3, UpTo
  <2>2. QED
    BY <1>1, <2>1
<1> DEFINE acc == after[n]
<1>5. Accumulated(acc, deps, names, C, n)
  BY <1>4
<1> HIDE DEF acc
<1>6. \A p \in Consecutive(deps) : p[2] <= n
  BY <1>1 DEF Consecutive
<1>7. acc.clash <=> \E p \in Consecutive(deps) : p \in C
  BY <1>5, <1>6 DEF Accumulated
<1>8. acc.chosen = [m \in names |-> acc.chosen[m]]
  BY <1>5 DEF Accumulated, Accumulators
<1>9. ~acc.clash => \A m \in names :
          \/ acc.chosen[m] = Unset /\ \A j \in DOMAIN deps : deps[j].name # m
          \/ \E j \in DOMAIN deps : deps[j].name = m /\ acc.chosen[m] = [version |-> deps[j].version]
  BY <1>1, <1>5 DEF Accumulated, LastAt
<1>10. QED
  BY <1>7, <1>8, <1>9 DEF Merges, acc, n

\* The pip dependencies are merged so, with the conflicts of the preview.
LEMMA PipMerges ==
    ASSUME NEW deps, IsDeps(deps, Packages)
    PROVE  Merges(MergePip(deps), deps, Packages, PipConflicts(deps))
<1> DEFINE n == Len(deps)
           Clashing(acc, i) == /\ acc.chosen[deps[i].name] # Unset
                               /\ PipIncompatible(acc.chosen[deps[i].name].version, deps[i].version)
           After(F) == [i \in 0..n |-> IF i = 0 THEN Initially(Packages)
                                      ELSE Consumed(F[i - 1], deps[i], Clashing(F[i - 1], i))]
           after == CHOOSE F : F = After(F)
           C == {p \in (DOMAIN deps) \X (DOMAIN deps) :
                    PipIncompatible(deps[p[1]].version, deps[p[2]].version)}
<1>1. n \in Nat /\ DOMAIN deps = 1..n
  BY LenProperties DEF IsDeps
<1>2. MergePip(deps) = after[n]
  BY Zenon DEF MergePip, Merged, Initially, Consumed
<1>3. PipConflicts(deps) = {p \in Consecutive(deps) : p \in C}
  BY Zenon DEF PipConflicts, Consecutive, PipIncompatible
<1>4. \A acc, i : Clashing(acc, i) \in BOOLEAN
  BY Zenon DEF PipIncompatible, ConstraintsCompatible
<1>5. \A acc, i : acc.chosen[deps[i].name] = Unset => ~Clashing(acc, i)
  BY Zenon
<1>6. ASSUME NEW acc, NEW i \in DOMAIN deps, NEW j \in DOMAIN deps,
             acc.chosen[deps[i].name] = [version |-> deps[j].version]
      PROVE  Clashing(acc, i) <=> <<j, i>> \in C
  <2>1. Clashing(acc, i) <=> PipIncompatible(deps[j].version, deps[i].version)
    BY <1>6, AVersionIsSet
  <2>2. QED
    BY <2>1
<1> HIDE DEF n, C, Clashing
<1>7. \E F : F = After(F)
  <2> DEFINE S == Accumulators(deps, Packages)
             Step == [x \in S \X (1..n) |-> Consumed(x[1], deps[x[2]], Clashing(x[1], x[2]))]
  <2>1. \A acc \in S : \A i \in 1..n : Step[<<acc, i>>] = Consumed(acc, deps[i], Clashing(acc, i))
    <3> HIDE DEF S
    <3>1. QED
      OBVIOUS
  <2> HIDE DEF Step
  <2>2. ASSUME NEW acc \in S, NEW i \in 1..n
        PROVE  Step[<<acc, i>>] \in S
    BY <2>1, ConsumedType DEF n
  <2>3. Initially(Packages) \in S
    BY AccumulatesAtFirst
  <2> HIDE DEF S
  <2>4. PICK f : Computes(f, S, Initially(Packages), n, Step)
    BY <1>1, <2>2, <2>3, Iterates, Zenon
  <2>5. ASSUME NEW i \in 0..n
        PROVE  f[i] = IF i = 0 THEN Initially(Packages)
                      ELSE Consumed(f[i - 1], deps[i], Clashing(f[i - 1], i))
    <3>1. CASE i = 0
      BY <2>4, <3>1 DEF Computes
    <3>2. CASE i # 0
      <4>1. i \in 1..n /\ i - 1 \in 0..n
        BY <1>1, <3>2
      <4>2. f[i - 1] \in S /\ f[i] = Step[<<f[i - 1], i>>]
        BY <2>4, <4>1 DEF Computes
      <4>3. QED
        BY <2>1, <3>2, <4>1, <4>2
    <3>3. QED
      BY <3>1, <3>2
  <2>6. f = After(f)
    <3>1. f = [i \in 0..n |-> f[i]]
      BY <2>4 DEF Computes
    <3>2. QED
      BY <2>5, <3>1
  <2>7. QED
    BY <2>6
<1>8. \A i \in 0..n : after[i] = IF i = 0 THEN Initially(Packages)
                                ELSE Consumed(after[i - 1], deps[i], Clashing(after[i - 1], i))
  <2>1. after = After(after)
    BY <1>7, Zenon
  <2> HIDE DEF after
  <2>2. QED
    BY <2>1, Zenon
<1> HIDE DEF after
<1> DEFINE clashing == [i \in 1..n |-> Clashing(after[i - 1], i)]
<1>9. after[0] = Initially(Packages)
  BY <1>1, <1>8
<1>10. ASSUME NEW i \in 1..n
       PROVE  LET kept == after[i - 1].chosen[deps[i].name]
              IN  /\ clashing[i] \in BOOLEAN
                  /\ after[i] = Consumed(after[i - 1], deps[i], clashing[i])
                  /\ kept = Unset => ~clashing[i]
                  /\ \A j \in DOMAIN deps : kept = [version |-> deps[j].version] =>
                                                (clashing[i] <=> <<j, i>> \in C)
  <2>1. i \in 0..n /\ i # 0 /\ i \in DOMAIN deps /\ clashing[i] = Clashing(after[i - 1], i)
    BY <1>1
  <2>2. after[i] = Consumed(after[i - 1], deps[i], clashing[i])
    BY <1>8, <2>1
  <2> HIDE DEF clashing
  <2>3. QED
    BY <1>4, <1>5, <1>6, <2>1, <2>2
<1> HIDE DEF clashing
<1>11. Merges(after[n], deps, Packages, C)
  BY <1>9, <1>10, AccumulatesAll DEF n
<1>12. QED
  BY <1>2, <1>3, <1>11 DEF Merges

\* The same for npm.
LEMMA NpmMerges ==
    ASSUME NEW deps, IsDeps(deps, NpmKeys)
    PROVE  Merges(MergeNpm(deps), deps, NpmKeys, NpmConflicts(deps))
<1> DEFINE n == Len(deps)
           Clashing(acc, i) == /\ acc.chosen[deps[i].name] # Unset
                               /\ NpmClash(acc.chosen[deps[i].name].version, deps[i].version)
           After(F) == [i \in 0..n |-> IF i = 0 THEN Initially(NpmKeys)
                                      ELSE Consumed(F[i - 1], deps[i], Clashing(F[i - 1], i))]
           after == CHOOSE F : F = After(F)
           C == {p \in (DOMAIN deps) \X (DOMAIN deps) :
                    NpmClash(deps[p[1]].version, deps[p[2]].version)}
<1>1. n \in Nat /\ DOMAIN deps = 1..n
  BY LenProperties DEF IsDeps
<1>2. MergeNpm(deps) = after[n]
  BY Zenon DEF MergeNpm, Merged, Initially, Consumed
<1>3. NpmConflicts(deps) = {p \in Consecutive(deps) : p \in C}
  BY Zenon DEF NpmConflicts, Consecutive
<1>4. \A acc, i : Clashing(acc, i) \in BOOLEAN
  BY Zenon DEF NpmClash
<1>5. \A acc, i : acc.chosen[deps[i].name] = Unset => ~Clashing(acc, i)
  BY Zenon
<1>6. ASSUME NEW acc, NEW i \in DOMAIN deps, NEW j \in DOMAIN deps,
             acc.chosen[deps[i].name] = [version |-> deps[j].version]
      PROVE  Clashing(acc, i) <=> <<j, i>> \in C
  <2>1. Clashing(acc, i) <=> NpmClash(deps[j].version, deps[i].version)
    BY <1>6, AVersionIsSet
  <2>2. QED
    BY <2>1
<1> HIDE DEF n, C, Clashing
<1>7. \E F : F = After(F)
  <2> DEFINE S == Accumulators(deps, NpmKeys)
             Step == [x \in S \X (1..n) |-> Consumed(x[1], deps[x[2]], Clashing(x[1], x[2]))]
  <2>1. \A acc \in S : \A i \in 1..n : Step[<<acc, i>>] = Consumed(acc, deps[i], Clashing(acc, i))
    <3> HIDE DEF S
    <3>1. QED
      OBVIOUS
  <2> HIDE DEF Step
  <2>2. ASSUME NEW acc \in S, NEW i \in 1..n
        PROVE  Step[<<acc, i>>] \in S
    BY <2>1, ConsumedType DEF n
  <2>3. Initially(NpmKeys) \in S
    BY AccumulatesAtFirst
  <2> HIDE DEF S
  <2>4. PICK f : Computes(f, S, Initially(NpmKeys), n, Step)
    BY <1>1, <2>2, <2>3, Iterates, Zenon
  <2>5. ASSUME NEW i \in 0..n
        PROVE  f[i] = IF i = 0 THEN Initially(NpmKeys)
                      ELSE Consumed(f[i - 1], deps[i], Clashing(f[i - 1], i))
    <3>1. CASE i = 0
      BY <2>4, <3>1 DEF Computes
    <3>2. CASE i # 0
      <4>1. i \in 1..n /\ i - 1 \in 0..n
        BY <1>1, <3>2
      <4>2. f[i - 1] \in S /\ f[i] = Step[<<f[i - 1], i>>]
        BY <2>4, <4>1 DEF Computes
      <4>3. QED
        BY <2>1, <3>2, <4>1, <4>2
    <3>3. QED
      BY <3>1, <3>2
  <2>6. f = After(f)
    <3>1. f = [i \in 0..n |-> f[i]]
      BY <2>4 DEF Computes
    <3>2. QED
      BY <2>5, <3>1
  <2>7. QED
    BY <2>6
<1>8. \A i \in 0..n : after[i] = IF i = 0 THEN Initially(NpmKeys)
                                ELSE Consumed(after[i - 1], deps[i], Clashing(after[i - 1], i))
  <2>1. after = After(after)
    BY <1>7, Zenon
  <2> HIDE DEF after
  <2>2. QED
    BY <2>1, Zenon
<1> HIDE DEF after
<1> DEFINE clashing == [i \in 1..n |-> Clashing(after[i - 1], i)]
<1>9. after[0] = Initially(NpmKeys)
  BY <1>1, <1>8
<1>10. ASSUME NEW i \in 1..n
       PROVE  LET kept == after[i - 1].chosen[deps[i].name]
              IN  /\ clashing[i] \in BOOLEAN
                  /\ after[i] = Consumed(after[i - 1], deps[i], clashing[i])
                  /\ kept = Unset => ~clashing[i]
                  /\ \A j \in DOMAIN deps : kept = [version |-> deps[j].version] =>
                                                (clashing[i] <=> <<j, i>> \in C)
  <2>1. i \in 0..n /\ i # 0 /\ i \in DOMAIN deps /\ clashing[i] = Clashing(after[i - 1], i)
    BY <1>1
  <2>2. after[i] = Consumed(after[i - 1], deps[i], clashing[i])
    BY <1>8, <2>1
  <2> HIDE DEF clashing
  <2>3. QED
    BY <1>4, <1>5, <1>6, <2>1, <2>2
<1> HIDE DEF clashing
<1>11. Merges(after[n], deps, NpmKeys, C)
  BY <1>9, <1>10, AccumulatesAll DEF n
<1>12. QED
  BY <1>2, <1>3, <1>11 DEF Merges

-----------------------------------------------------------------------------
\* Every layer of the recipe is known.
AllKnown(r) == \A i \in DOMAIN r.layers : r.layers[i] \in DOMAIN LayerOf
AreParts(parts) == parts \in Seq(Range(parts)) /\ parts # <<>> /\ \A p \in Range(parts) : IsPart(p)

\* The parts that are composed: the layers of the recipe, and the recipe.
LEMMA PartsOfRecipe ==
    ASSUME NEW r, IsRecipe(r), AllKnown(r)
    PROVE  AreParts(Parts(r)) /\ Range(Parts(r)) = {LayerOf[l] : l \in Range(r.layers)} \union {r}
<1> DEFINE n == Len(r.layers)
           ls == [i \in DOMAIN r.layers |-> LayerOf[r.layers[i]]]
           S == {LayerOf[l] : l \in Range(r.layers)} \union {r}
<1>1. n \in Nat /\ DOMAIN r.layers = 1..n
  BY LenProperties DEF IsRecipe
<1>2. ls \in Seq(S) /\ Len(ls) = n /\ \A i \in 1..n : ls[i] = LayerOf[r.layers[i]]
  <2>1. ls \in [1..n -> S]
    BY <1>1 DEF Range
  <2> HIDE DEF S, n
  <2>2. QED
    BY <1>1, <2>1
<1>3. r \in S
  OBVIOUS
<1> DEFINE parts == Parts(r)
<1>4. /\ parts \in Seq(S) /\ parts # <<>> /\ Len(parts) = n + 1
      /\ \A i \in 1..n : parts[i] = LayerOf[r.layers[i]]
      /\ parts[n + 1] = r
  <2> HIDE DEF S, ls, n
  <2>1. parts = Append(ls, r)
    BY DEF Parts, ls
  <2> HIDE DEF parts
  <2>2. QED
    BY <1>1, <1>2, <1>3, <2>1, AppendProperties
<1> HIDE DEF parts, n
<1>5. DOMAIN parts = 1..(n + 1) /\ \A i \in 1..(n + 1) : i \in 1..n \/ i = n + 1
  BY <1>1, <1>4, LenProperties
<1>6. Range(parts) = S
  <2>1. Range(parts) \subseteq S
    BY <1>1, <1>4, <1>5 DEF Range
  <2>2. \A i \in 1..n : i \in 1..(n + 1)
    BY <1>1
  <2>3. S \subseteq Range(parts)
    <3>1. \A i \in 1..n : LayerOf[r.layers[i]] \in Range(parts)
      BY <1>4, <1>5, <2>2 DEF Range
    <3>2. r \in Range(parts)
      BY <1>1, <1>4, <1>5 DEF Range
    <3>3. QED
      BY <1>1, <3>1, <3>2 DEF Range
  <2>4. QED
    BY <2>1, <2>3
<1>7. \A p \in S : IsPart(p)
  <2>1. \A l \in Range(r.layers) : l \in DOMAIN LayerOf
    BY DEF AllKnown, Range
  <2>2. QED
    BY <2>1, LayersAssumption DEF IsRecipe
<1> HIDE DEF S
<1>8. QED
  BY <1>4, <1>6, <1>7 DEF AreParts, parts, S

\* With no unknown layer the analyzers look at the parts that are composed.
LEMMA AllPartsKnown ==
    ASSUME NEW r, IsRecipe(r), AllKnown(r)
    PROVE  KnownParts(r) = Parts(r)
<1> DEFINE n == Len(r.layers)
           known == {i \in DOMAIN r.layers : r.layers[i] \in DOMAIN LayerOf}
           Place(k) == CHOOSE i \in known : Cardinality({j \in known : j <= i}) = k
<1>1. n \in Nat /\ DOMAIN r.layers = 1..n /\ known = 1..n
  BY LenProperties DEF IsRecipe, AllKnown
<1>2. Cardinality(known) = n
  <2>1. 1 \in Int /\ n \in Int /\ (1 > n => n = 0) /\ n - 1 + 1 = n
    BY <1>1
  <2> HIDE DEF known, n
  <2>2. Cardinality(1..n) = IF 1 > n THEN 0 ELSE n - 1 + 1
    BY <2>1, FS_Interval
  <2>3. QED
    BY <1>1, <2>1, <2>2
<1>3. ASSUME NEW i \in 1..n
      PROVE  Cardinality({j \in known : j <= i}) = i
  <2>1. {j \in known : j <= i} = 1..i /\ i \in Int /\ 1 \in Int /\ ~(1 > i) /\ i - 1 + 1 = i
    BY <1>1
  <2>2. QED
    BY <2>1, FS_Interval
<1> HIDE DEF known, n
<1>4. \A k \in 1..n : Place(k) = k
  BY <1>1, <1>3, Zenon
<1>5. [k \in 1..Cardinality(known) |-> LayerOf[r.layers[Place(k)]]] =
      [i \in DOMAIN r.layers |-> LayerOf[r.layers[i]]]
  <2> HIDE DEF Place
  <2>1. QED
    BY <1>1, <1>2, <1>4
<1>6. QED
  BY <1>5, Zenon DEF KnownParts, Parts, known

\* The lists of the parts, one after the other.
LEMMA Lists ==
    ASSUME NEW parts, AreParts(parts), NEW f \in {"pip", "npm"} \union KeyedFields
    PROVE  LET list == FlattenSeq(Field(parts, f))
           IN  list \in Seq(Range(list)) /\ Range(list) = UNION {Range(p[f]) : p \in Range(parts)}
<1> DEFINE S == UNION {Range(p[f]) : p \in Range(parts)}
           seqs == Field(parts, f)
<1>1. \A p \in Range(parts) : p[f] \in Seq(Range(p[f]))
  BY DEF AreParts, IsPart, KeyedFields
<1>2. \A p \in Range(parts) : p[f] \in Seq(S)
  <2> SUFFICES ASSUME NEW p \in Range(parts) PROVE p[f] \in Seq(S)
    OBVIOUS
  <2>1. Range(p[f]) \subseteq S
    OBVIOUS
  <2> HIDE DEF S
  <2>2. QED
    BY <1>1, <2>1, SeqMonotonic
<1>3. /\ DOMAIN parts = 1..Len(parts) /\ Len(parts) \in Nat /\ Len(parts) # 0
      /\ \A i \in DOMAIN parts : parts[i] \in Range(parts)
  BY LenProperties, EmptySeq DEF AreParts, Range
<1> HIDE DEF S
<1>4. seqs \in Seq(Seq(S)) /\ seqs # <<>> /\ DOMAIN seqs = DOMAIN parts
  <2>1. seqs = [i \in 1..Len(parts) |-> parts[i][f]]
    BY <1>3 DEF Field
  <2>2. \A i \in 1..Len(parts) : parts[i][f] \in Seq(S)
    BY <1>2, <1>3
  <2> HIDE DEF seqs
  <2>3. seqs \in [1..Len(parts) -> Seq(S)]
    BY <2>1, <2>2
  <2>4. QED
    BY <1>3, <2>3
<1>5. {Range(seqs[i]) : i \in DOMAIN seqs} = {Range(p[f]) : p \in Range(parts)}
  <2>1. \A i \in DOMAIN parts : seqs[i] = parts[i][f]
    BY DEF Field
  <2> HIDE DEF seqs
  <2>2. \A p \in Range(parts) : \E i \in DOMAIN parts : p = parts[i]
    BY DEF Range
  <2>3. QED
    BY <1>3, <1>4, <2>1, <2>2
<1> HIDE DEF seqs
<1>6. FlattenSeq(seqs) \in Seq(S) /\ Range(FlattenSeq(seqs)) = S
  BY <1>4, <1>5, Flattens DEF S
<1>7. QED
  BY <1>6 DEF seqs, S

\* The dependencies of the parts of a recipe name packages.
LEMMA DepsOfParts ==
    ASSUME NEW parts, AreParts(parts)
    PROVE  IsDeps(PipDeps(parts), Packages) /\ IsDeps(NpmDeps(parts), NpmKeys)
<1>1. PipDeps(parts) \in Seq(Range(PipDeps(parts))) /\ Range(PipDeps(parts)) = UNION {Range(p["pip"]) : p \in Range(parts)}
  BY Lists, Zenon DEF PipDeps
<1>2. NpmDeps(parts) \in Seq(Range(NpmDeps(parts))) /\ Range(NpmDeps(parts)) = UNION {Range(p["npm"]) : p \in Range(parts)}
  BY Lists, Zenon DEF NpmDeps
<1>3. \A p \in Range(parts) : /\ \A d \in Range(p["pip"]) : d.name \in Packages
                              /\ \A d \in Range(p["npm"]) : d.name \in NpmKeys
  BY DEF AreParts, IsPart
<1>4. QED
  BY <1>1, <1>2, <1>3 DEF IsDeps

(***************************************************************************)
(* The preview tells whether composing a recipe with known layers raises a *)
(* dependency conflict: its errors that are not about wheelhouses do.      *)
(***************************************************************************)
THEOREM PreviewForetells ==
    ASSUME NEW r, IsRecipe(r), ComposeError(r) \notin {"duplicate", "unknown"}
    PROVE  ComposeError(r) = "dependency" <=> \E conflict \in Preview(r).errors : conflict[1] # "wheelhouse"
<1> DEFINE parts == Parts(r)
           clash == MergePip(PipDeps(parts)).clash \/ MergeNpm(NpmDeps(parts)).clash
<1>1. AllKnown(r)
  BY Zenon DEF ComposeError, AllKnown
<1>2. ComposeError(r) = "dependency" <=> clash
  <2>1. "invalid" # "dependency" /\ "" # "dependency"
    BY Zenon
  <2>2. QED
    BY <2>1, Zenon DEF ComposeError
<1> DEFINE wheels == WheelhouseConflicts(parts)
           pip == PipConflicts(PipDeps(parts))
           npm == NpmConflicts(NpmDeps(parts))
<1>3. Preview(r).errors = OfType("pip", pip) \union OfType("npm", npm) \union OfType("wheelhouse", wheels)
  <2>1. KnownParts(r) = parts
    BY <1>1, AllPartsKnown
  <2>2. QED
    BY <2>1, Zenon DEF Preview
<1>4. IsDeps(PipDeps(parts), Packages) /\ IsDeps(NpmDeps(parts), NpmKeys)
  BY <1>1, PartsOfRecipe, DepsOfParts
<1>5. /\ MergePip(PipDeps(parts)).clash <=> PipConflicts(PipDeps(parts)) # {}
      /\ MergeNpm(NpmDeps(parts)).clash <=> NpmConflicts(NpmDeps(parts)) # {}
  <2>1. PipConflicts(PipDeps(parts)) \subseteq Consecutive(PipDeps(parts)) /\ NpmConflicts(NpmDeps(parts)) \subseteq Consecutive(NpmDeps(parts))
    BY Zenon DEF PipConflicts, NpmConflicts
  <2> HIDE DEF parts
  <2>2. QED
    BY <1>4, <2>1, PipMerges, NpmMerges DEF Merges
<1>6. (\E conflict \in Preview(r).errors : conflict[1] # "wheelhouse") <=> pip # {} \/ npm # {}
  <2> HIDE DEF wheels, pip, npm
  <2>1. \A conflict \in OfType("wheelhouse", wheels) : conflict[1] = "wheelhouse"
    BY DEF OfType
  <2>2. \A conflict \in OfType("pip", pip) \union OfType("npm", npm) : conflict[1] # "wheelhouse"
    BY DEF OfType
  <2>3. OfType("pip", pip) \union OfType("npm", npm) # {} <=> pip # {} \/ npm # {}
    BY DEF OfType
  <2>4. QED
    BY <1>3, <2>1, <2>2, <2>3
<1> HIDE DEF parts
<1>7. QED
  BY <1>2, <1>5, <1>6

-----------------------------------------------------------------------------
(***************************************************************************)
(* The order of the layers.                                                *)
(***************************************************************************)
OneVersion(deps) ==
    \A d, e \in Range(deps) : d.name = e.name => d.version = e.version

\* When consecutive mentions agree, all mentions of a name do.
LEMMA NoOverlaps ==
    ASSUME NEW deps, deps \in Seq(Range(deps)), Overlaps(deps) = {}
    PROVE  OneVersion(deps)
<1> DEFINE n == Len(deps)
           Apart(d) == \E i \in 1..n : /\ i + d \in 1..n /\ deps[i].name = deps[i + d].name
                                      /\ deps[i].version # deps[i + d].version
           Ds == {d \in 1..n : Apart(d)}
<1>1. n \in Nat /\ DOMAIN deps = 1..n
  BY LenProperties
<1> HIDE DEF n
<1>2. ASSUME Ds # {} PROVE FALSE
  <2>1. Ds \in SUBSET Nat
    BY <1>1
  <2> DEFINE d == Min(Ds)
  <2>2. d \in Ds /\ \A e \in Ds : d <= e
    BY <1>2, <2>1, HasMin
  <2> HIDE DEF d
  <2>3. PICK i \in 1..n : /\ i + d \in 1..n /\ deps[i].name = deps[i + d].name
                          /\ deps[i].version # deps[i + d].version
    BY <2>2
  <2>4. d \in 1..n /\ i < i + d
    BY <1>1, <2>2
  <2>5. <<i, i + d>> \notin Consecutive(deps)
    BY <2>3, <1>1 DEF Overlaps
  <2>6. PICK k \in (i + 1)..((i + d) - 1) : deps[k].name = deps[i].name
    BY <1>1, <2>3, <2>4, <2>5 DEF Consecutive
  <2>7. /\ k \in 1..n /\ k - i \in 1..n /\ (i + d) - k \in 1..n
        /\ i + (k - i) = k /\ k + ((i + d) - k) = i + d /\ k - i < d /\ (i + d) - k < d
    BY <1>1, <2>3, <2>4, <2>6
  <2>8. k - i \notin Ds /\ (i + d) - k \notin Ds
    <3>1. \A e \in Ds : ~(e < d)
      BY <2>1, <2>2
    <3> HIDE DEF Ds
    <3>2. QED
      BY <2>7, <3>1
  <2>9. deps[i].version = deps[k].version /\ deps[k].version = deps[i + d].version
    BY <2>3, <2>6, <2>7, <2>8
  <2>10. QED
    BY <2>3, <2>9
<1>3. ASSUME NEW i \in 1..n, NEW j \in 1..n, deps[i].name = deps[j].name
      PROVE  deps[i].version = deps[j].version
  <2>1. ASSUME NEW k \in 1..n, NEW l \in 1..n, k < l, deps[k].name = deps[l].name
        PROVE  deps[k].version = deps[l].version
    <3>1. l - k \in 1..n /\ k + (l - k) = l
      BY <1>1, <2>1
    <3>2. l - k \notin Ds
      BY <1>2
    <3>3. QED
      BY <2>1, <3>1, <3>2
  <2>2. i < j \/ j < i \/ i = j
    BY <1>1
  <2> HIDE DEF Ds
  <2>3. QED
    BY <1>3, <2>1, <2>2
<1>4. QED
  BY <1>1, <1>3 DEF OneVersion, Range

\* Of such dependencies it only matters which there are.
LEMMA SameChosen ==
    ASSUME NEW names, NEW a, NEW b, Range(a) = Range(b), OneVersion(a), NEW x, NEW y, NEW C, NEW D,
           Merges(x, a, names, C), ~x.clash, Merges(y, b, names, D), ~y.clash
    PROVE  x.chosen = y.chosen
<1>1. ASSUME NEW m \in names
      PROVE  x.chosen[m] = y.chosen[m]
  <2>1. \/ x.chosen[m] = Unset /\ \A d \in Range(a) : d.name # m
        \/ \E d \in Range(a) : d.name = m /\ x.chosen[m] = [version |-> d.version]
    <3>1. \A d : d \in Range(a) <=> \E j \in DOMAIN a : d = a[j]
      BY DEF Range
    <3>2. QED
      BY <3>1 DEF Merges
  <2>2. \/ y.chosen[m] = Unset /\ \A d \in Range(b) : d.name # m
        \/ \E d \in Range(b) : d.name = m /\ y.chosen[m] = [version |-> d.version]
    <3>1. \A d : d \in Range(b) <=> \E j \in DOMAIN b : d = b[j]
      BY DEF Range
    <3>2. QED
      BY <3>1 DEF Merges
  <2>3. QED
    BY <2>1, <2>2 DEF OneVersion
<1>2. x.chosen = [m \in names |-> x.chosen[m]] /\ y.chosen = [m \in names |-> y.chosen[m]]
  BY DEF Merges
<1>3. QED
  BY <1>1, <1>2

\* One version of each package: the order of mentions decides nothing, of pip ...
LEMMA SamePipChosen ==
    ASSUME NEW a, NEW b, IsDeps(a, Packages), IsDeps(b, Packages), Range(a) = Range(b), OneVersion(a)
    PROVE  MergePip(a).chosen = MergePip(b).chosen
<1>1. ASSUME NEW deps, IsDeps(deps, Packages), OneVersion(deps)
      PROVE  ~MergePip(deps).clash
  <2>1. \A v : ConstraintsCompatible(v, v)
    BY DEF ConstraintsCompatible
  <2>2. \A p \in Consecutive(deps) : deps[p[1]].version = deps[p[2]].version
    BY <1>1 DEF Consecutive, OneVersion, Range
  <2>3. PipConflicts(deps) = {}
    BY <2>1, <2>2 DEF PipConflicts
  <2>4. QED
    BY <1>1, <2>3, PipMerges DEF Merges
<1>2. OneVersion(b)
  BY DEF OneVersion
<1>3. QED
  BY <1>1, <1>2, PipMerges, SameChosen

\* ... and of npm.
LEMMA SameNpmChosen ==
    ASSUME NEW a, NEW b, IsDeps(a, NpmKeys), IsDeps(b, NpmKeys), Range(a) = Range(b), OneVersion(a)
    PROVE  MergeNpm(a).chosen = MergeNpm(b).chosen
<1>1. ASSUME NEW deps, IsDeps(deps, NpmKeys), OneVersion(deps)
      PROVE  ~MergeNpm(deps).clash
  <2>1. \A v : ~NpmClash(v, v)
    BY Zenon DEF NpmClash
  <2>2. \A p \in Consecutive(deps) : deps[p[1]].version = deps[p[2]].version
    BY <1>1 DEF Consecutive, OneVersion, Range
  <2>3. NpmConflicts(deps) = {}
    BY <2>1, <2>2 DEF NpmConflicts
  <2>4. QED
    BY <1>1, <2>3, NpmMerges DEF Merges
<1>2. OneVersion(b)
  BY DEF OneVersion
<1>3. QED
  BY <1>1, <1>2, NpmMerges, SameChosen

\* LastDeclared and Overridden, for any value that stands for none.
LastBut(values, none, default) ==
    LET declared == {i \in DOMAIN values : values[i] # none}
    IN  IF declared = {} THEN default ELSE values[Max(declared)]

TwoBut(values, none) ==
    \E i, j \in DOMAIN values : values[i] # none /\ values[j] # none /\ values[i] # values[j]

\* A bounded set of indices has a greatest one.
LEMMA HasMax ==
    ASSUME NEW n \in Nat, NEW T \in SUBSET (1..n), T # {}
    PROVE  Max(T) \in T
<1> DEFINE D == {n - k : k \in T}
<1>1. D \in SUBSET Nat /\ D # {}
  <2>1. \A k \in T : k \in 1..n
    OBVIOUS
  <2>2. \A k \in 1..n : n - k \in Nat
    OBVIOUS
  <2>3. \A k \in T : n - k \in Nat
    BY <2>1, <2>2
  <2>4. QED
    BY <2>3
<1>2. PICK d \in D : \A e \in D : d <= e
  BY <1>1, HasMin
<1>3. PICK m \in T : d = n - m
  BY <1>2
<1>4. \A k \in T : n - k \in D /\ k \in Int
  OBVIOUS
<1>5. \A k \in T : m >= k
  BY <1>2, <1>3, <1>4
<1> HIDE DEF D
<1>6. QED
  BY <1>5, Zenon DEF Max

\* Of values that do not differ it only matters which there are.
LEMMA SameLast ==
    ASSUME NEW n \in Nat, NEW m \in Nat, NEW a, NEW b, DOMAIN a = 1..n, DOMAIN b = 1..m,
           Range(a) = Range(b), NEW none, NEW default, ~TwoBut(a, none)
    PROVE  LastBut(a, none, default) = LastBut(b, none, default)
<1> DEFINE As == {i \in DOMAIN a : a[i] # none}
           Bs == {i \in DOMAIN b : b[i] # none}
<1>1. As = {} <=> Bs = {}
  BY DEF Range
<1>2. CASE As = {}
  BY <1>1, <1>2, Zenon DEF LastBut
<1>3. CASE As # {}
  <2>1. Max(As) \in As
    BY <1>3, HasMax
  <2>2. Max(Bs) \in Bs
    BY <1>1, <1>3, HasMax
  <2>3. PICK j \in DOMAIN a : a[j] = b[Max(Bs)]
    BY <2>2 DEF Range
  <2>4. a[Max(As)] = b[Max(Bs)]
    <3> DEFINE i == Max(As)
               k == Max(Bs)
    <3>1. i \in As /\ k \in Bs /\ a[j] = b[k]
      BY <2>1, <2>2, <2>3
    <3> HIDE DEF i, k
    <3>2. a[i] = b[k]
      BY <3>1, <2>3 DEF TwoBut
    <3>3. QED
      BY <3>2 DEF i, k
  <2>5. QED
    BY <1>1, <1>3, <2>4, Zenon DEF LastBut
<1>4. QED
  BY <1>2, <1>3

\* Parts that bring the same, in whatever order.
SameBrought(a, b) == \A f \in ContentFields : {p[f] : p \in Range(a)} = {p[f] : p \in Range(b)}

\* Their lists have the same elements.
LEMMA SameLists ==
    ASSUME NEW a, NEW b, AreParts(a), AreParts(b), SameBrought(a, b), NEW f \in {"pip", "npm"} \union KeyedFields
    PROVE  LET la == FlattenSeq(Field(a, f))
               lb == FlattenSeq(Field(b, f))
           IN  la \in Seq(Range(la)) /\ lb \in Seq(Range(lb)) /\ Range(la) = Range(lb)
<1> DEFINE la == FlattenSeq(Field(a, f))
           lb == FlattenSeq(Field(b, f))
<1>1. la \in Seq(Range(la)) /\ Range(la) = UNION {Range(p[f]) : p \in Range(a)}
  BY Lists
<1>2. lb \in Seq(Range(lb)) /\ Range(lb) = UNION {Range(p[f]) : p \in Range(b)}
  BY Lists
<1>3. {p[f] : p \in Range(a)} = {p[f] : p \in Range(b)}
  <2>1. f \in ContentFields
    BY DEF ContentFields, KeyedFields
  <2>2. QED
    BY <2>1 DEF SameBrought
<1>4. \A x \in Range(a) : \E y \in Range(b) : x[f] = y[f]
  BY <1>3
<1>5. \A y \in Range(b) : \E x \in Range(a) : x[f] = y[f]
  BY <1>3
<1>6. {Range(p[f]) : p \in Range(a)} = {Range(p[f]) : p \in Range(b)}
  BY <1>4, <1>5
<1> HIDE DEF la, lb
<1>7. QED
  BY <1>1, <1>2, <1>6 DEF la, lb

\* Their sets have the same union.
LEMMA SameUnion ==
    ASSUME NEW a, NEW b, SameBrought(a, b), NEW f \in ContentFields
    PROVE  UnionOf(a, f) = UnionOf(b, f)
<1>1. \A s : UnionOf(s, f) = UNION {p[f] : p \in Range(s)}
  BY DEF UnionOf, Range
<1>2. {p[f] : p \in Range(a)} = {p[f] : p \in Range(b)}
  BY DEF SameBrought
<1>3. QED
  BY <1>1, <1>2

\* What is declared once, in effect, is the same.
LEMMA SameDeclared ==
    ASSUME NEW a, NEW b, AreParts(a), AreParts(b), SameBrought(a, b), NEW f \in ContentFields,
           ~Overridden(Field(a, f)), NEW default
    PROVE  LastDeclared(Field(a, f), default) = LastDeclared(Field(b, f), default)
<1>1. ~TwoBut(Field(a, f), "")
  BY Zenon DEF Overridden, TwoBut
<1>2. /\ LastDeclared(Field(a, f), default) = LastBut(Field(a, f), "", default)
      /\ LastDeclared(Field(b, f), default) = LastBut(Field(b, f), "", default)
  BY Zenon DEF LastDeclared, LastBut
<1>3. \A s : Range(Field(s, f)) = {p[f] : p \in Range(s)} /\ DOMAIN Field(s, f) = DOMAIN s
  BY DEF Field, Range
<1>4. Range(Field(a, f)) = Range(Field(b, f))
  BY <1>3 DEF SameBrought
<1>5. /\ Len(a) \in Nat /\ DOMAIN Field(a, f) = 1..Len(a)
      /\ Len(b) \in Nat /\ DOMAIN Field(b, f) = 1..Len(b)
  BY <1>3, LenProperties DEF AreParts
<1>6. \A none : ~TwoBut(Field(a, f), none) =>
                 LastBut(Field(a, f), none, default) = LastBut(Field(b, f), none, default)
  BY <1>4, <1>5, SameLast
<1>7. QED
  BY <1>1, <1>2, <1>6, Zenon

\* What the last entry of every key says, when none disagree.
LEMMA SameKeyed ==
    ASSUME NEW a, NEW b, AreParts(a), AreParts(b), SameBrought(a, b), NEW f \in KeyedFields,
           Disagree(a, f) = {}
    PROVE  LastByKey(a, f) = LastByKey(b, f)
<1> DEFINE la == Entries(a, f)
           lb == Entries(b, f)
           Of(list, k) == {i \in DOMAIN list : list[i].key = k}
           Ks(list) == {e.key : e \in Range(list)}
<1>1. la \in Seq(Range(la)) /\ lb \in Seq(Range(lb)) /\ Range(la) = Range(lb)
  BY SameLists DEF Entries
<1>2. ASSUME NEW i \in DOMAIN la, NEW j \in DOMAIN la, la[i].key = la[j].key
      PROVE  la[i].value = la[j].value
  BY <1>2, Zenon DEF Disagree
<1>3. /\ LastByKey(a, f) = [k \in Ks(la) |-> la[Max(Of(la, k))].value]
      /\ LastByKey(b, f) = [k \in Ks(lb) |-> lb[Max(Of(lb, k))].value]
  BY Zenon DEF LastByKey
<1> HIDE DEF la, lb
<1>4. Ks(la) = Ks(lb)
  BY <1>1
<1>5. ASSUME NEW list, list \in Seq(Range(list)), NEW k \in Ks(list)
      PROVE  Max(Of(list, k)) \in Of(list, k)
  <2>1. Of(list, k) # {}
    BY <1>5 DEF Range
  <2>2. Len(list) \in Nat /\ DOMAIN list = 1..Len(list)
    BY <1>5, LenProperties
  <2>3. Of(list, k) \in SUBSET (1..Len(list))
    BY <2>2
  <2> HIDE DEF Of
  <2>4. QED
    BY <2>1, <2>2, <2>3, HasMax
<1>6. ASSUME NEW k \in Ks(la)
      PROVE  la[Max(Of(la, k))].value = lb[Max(Of(lb, k))].value
  <2> DEFINE i == Max(Of(la, k))
             m == Max(Of(lb, k))
  <2>1. i \in Of(la, k) /\ m \in Of(lb, k)
    <3> HIDE DEF Of, Ks
    <3>1. k \in Ks(la) /\ k \in Ks(lb)
      BY <1>4
    <3>2. QED
      BY <1>1, <1>5, <3>1
  <2> HIDE DEF i, m
  <2>2. PICK j \in DOMAIN la : la[j] = lb[m]
    BY <1>1, <2>1 DEF Range
  <2>3. la[i].value = la[j].value
    BY <1>2, <2>1, <2>2
  <2>4. QED
    BY <2>2, <2>3 DEF i, m
<1>7. QED
  BY <1>3, <1>4, <1>6, Zenon

(***************************************************************************)
(* When the preview reports nothing and the layers agree on what it does   *)
(* not look at, they compose to the same contents in every order.          *)
(***************************************************************************)
THEOREM QuietOrderIsFree ==
    ASSUME NEW r, IsRecipe(r), AllKnown(r),
           Preview(r).overlaps = {}, Preview(r).runtime = {}, Unwatched(Parts(r)) = {},
           NEW order \in [DOMAIN r.layers -> Range(r.layers)], Range(order) = Range(r.layers)
    PROVE  \A f \in ContentFields : MergedStack([r EXCEPT !.layers = order])[f] = MergedStack(r)[f]
<1> DEFINE r2 == [r EXCEPT !.layers = order]
           a == Parts(r)
           b == Parts(r2)
<1>2. r2.layers = order /\ \A f \in ContentFields : r2[f] = r[f]
  BY DEF IsRecipe, IsPart, ContentFields, KeyedFields
<1>3. IsRecipe(r2) /\ AllKnown(r2)
  <2>1. DOMAIN r2 = DOMAIN r
    OBVIOUS
  <2>2. /\ r2.pip = r.pip /\ r2.npm = r.npm /\ \A f \in KeyedFields : r2[f] = r[f]
    BY <1>2 DEF ContentFields
  <2>3. order \in Seq(Range(order))
    <3>1. DOMAIN order = 1..Len(r.layers) /\ Len(r.layers) \in Nat
      BY LenProperties DEF IsRecipe
    <3> DEFINE n == Len(r.layers)
               R == Range(order)
    <3>2. order \in [1..n -> R]
      BY <3>1 DEF Range
    <3>3. n \in Nat
      BY <3>1
    <3> HIDE DEF n, R, r2, a, b
    <3>4. order \in Seq(R)
      BY <3>2, <3>3
    <3>5. QED
      BY <3>4 DEF R
  <2> HIDE DEF r2
  <2>4. IsRecipe(r2)
    BY <1>2, <2>1, <2>2, <2>3 DEF IsRecipe, IsPart
  <2>5. \A l \in Range(order) : l \in DOMAIN LayerOf
    BY DEF AllKnown, Range
  <2>6. QED
    BY <1>2, <2>4, <2>5 DEF AllKnown, Range
<1> HIDE DEF r2
<1>4. /\ AreParts(a) /\ Range(a) = {LayerOf[l] : l \in Range(r.layers)} \union {r}
      /\ AreParts(b) /\ Range(b) = {LayerOf[l] : l \in Range(r.layers)} \union {r2}
  BY <1>2, <1>3, PartsOfRecipe
<1>5. SameBrought(a, b)
  <2> DEFINE L == {LayerOf[l] : l \in Range(r.layers)}
  <2> HIDE DEF L, a, b
  <2>1. Range(a) = L \union {r} /\ Range(b) = L \union {r2}
    BY <1>4 DEF L
  <2>2. QED
    BY <1>2, <2>1 DEF SameBrought
<1>6. KnownParts(r) = a
  BY AllPartsKnown
<1>7. /\ Overlaps(PipDeps(a)) = {} /\ Overlaps(NpmDeps(a)) = {}
      /\ RuntimeConflicts(a) = {} /\ Unwatched(a) = {}
  <2> DEFINE pip == Overlaps(PipDeps(KnownParts(r)))
             npm == Overlaps(NpmDeps(KnownParts(r)))
  <2>1. /\ OfType("pip", pip) \subseteq Preview(r).overlaps /\ OfType("npm", npm) \subseteq Preview(r).overlaps
        /\ Preview(r).runtime = RuntimeConflicts(KnownParts(r))
    BY Zenon DEF Preview
  <2> HIDE DEF pip, npm
  <2>2. pip = {} /\ npm = {}
    BY <2>1 DEF OfType
  <2>3. QED
    BY <1>6, <2>1, <2>2 DEF pip, npm
<1> HIDE DEF a, b
<1>8. MergePip(PipDeps(a)).chosen = MergePip(PipDeps(b)).chosen
  <2>1. Range(PipDeps(a)) = Range(PipDeps(b))
    BY <1>4, <1>5, SameLists DEF PipDeps
  <2>2. IsDeps(PipDeps(a), Packages) /\ IsDeps(PipDeps(b), Packages)
    BY <1>4, DepsOfParts
  <2>3. OneVersion(PipDeps(a))
    BY <1>7, <2>2, NoOverlaps DEF IsDeps
  <2>4. QED
    BY <2>1, <2>2, <2>3, SamePipChosen
<1>9. MergeNpm(NpmDeps(a)).chosen = MergeNpm(NpmDeps(b)).chosen
  <2>1. Range(NpmDeps(a)) = Range(NpmDeps(b))
    BY <1>4, <1>5, SameLists DEF NpmDeps
  <2>2. IsDeps(NpmDeps(a), NpmKeys) /\ IsDeps(NpmDeps(b), NpmKeys)
    BY <1>4, DepsOfParts
  <2>3. OneVersion(NpmDeps(a))
    BY <1>7, <2>2, NoOverlaps DEF IsDeps
  <2>4. QED
    BY <2>1, <2>2, <2>3, SameNpmChosen
<1>10. /\ ~Overridden(Field(a, "baseRole")) /\ ~Overridden(Field(a, "entrypoint"))
       /\ ~Overridden(Field(a, "strategy"))
       /\ Disagree(a, "env") = {} /\ Disagree(a, "aptPins") = {} /\ Disagree(a, "variants") = {}
  BY <1>7, Zenon DEF RuntimeConflicts, Unwatched
<1>11. /\ LastDeclared(Field(a, "baseRole"), "python") = LastDeclared(Field(b, "baseRole"), "python")
       /\ LastDeclared(Field(a, "strategy"), "overlay") = LastDeclared(Field(b, "strategy"), "overlay")
       /\ LastDeclared(Field(a, "entrypoint"), "sleep") = LastDeclared(Field(b, "entrypoint"), "sleep")
  <2>1. "baseRole" \in ContentFields /\ "strategy" \in ContentFields /\ "entrypoint" \in ContentFields
    BY DEF ContentFields
  <2>2. AreParts(a) /\ AreParts(b)
    BY <1>4
  <2>3. \A f \in ContentFields : ~Overridden(Field(a, f)) =>
            \A default : LastDeclared(Field(a, f), default) = LastDeclared(Field(b, f), default)
    BY <1>5, <2>2, SameDeclared
  <2>4. QED
    BY <1>10, <2>1, <2>3, Zenon
<1>12. /\ UnionOf(a, "apt") = UnionOf(b, "apt") /\ UnionOf(a, "copies") = UnionOf(b, "copies")
       /\ UnionOf(a, "ports") = UnionOf(b, "ports")
  BY <1>5, SameUnion DEF ContentFields
<1>13. \A f \in KeyedFields : LastByKey(a, f) = LastByKey(b, f)
  <2>1. \A f \in KeyedFields : Disagree(a, f) = {}
    BY <1>10 DEF KeyedFields
  <2>2. QED
    BY <1>4, <1>5, <2>1, SameKeyed
<1> DEFINE s == MergedStack(r)
           t == MergedStack(r2)
<1>14. /\ s["pip"] = MergePip(PipDeps(a)).chosen /\ t["pip"] = MergePip(PipDeps(b)).chosen
       /\ s["npm"] = MergeNpm(NpmDeps(a)).chosen /\ t["npm"] = MergeNpm(NpmDeps(b)).chosen
       /\ s["apt"] = UnionOf(a, "apt") /\ t["apt"] = UnionOf(b, "apt")
  BY Zenon DEF MergedStack, a, b
<1>15. /\ s["copies"] = UnionOf(a, "copies") /\ t["copies"] = UnionOf(b, "copies")
       /\ s["ports"] = UnionOf(a, "ports") /\ t["ports"] = UnionOf(b, "ports")
       /\ s["env"] = LastByKey(a, "env") /\ t["env"] = LastByKey(b, "env")
       /\ s["aptPins"] = LastByKey(a, "aptPins") /\ t["aptPins"] = LastByKey(b, "aptPins")
       /\ s["variants"] = LastByKey(a, "variants") /\ t["variants"] = LastByKey(b, "variants")
  BY Zenon DEF MergedStack, a, b
<1>16. /\ s["baseRole"] = LastDeclared(Field(a, "baseRole"), "python")
       /\ t["baseRole"] = LastDeclared(Field(b, "baseRole"), "python")
       /\ s["strategy"] = LastDeclared(Field(a, "strategy"), "overlay")
       /\ t["strategy"] = LastDeclared(Field(b, "strategy"), "overlay")
       /\ s["entrypoint"] = LastDeclared(Field(a, "entrypoint"), "sleep")
       /\ t["entrypoint"] = LastDeclared(Field(b, "entrypoint"), "sleep")
  BY Zenon DEF MergedStack, a, b
<1> HIDE DEF s, t
<1>17. \A f \in ContentFields : t[f] = s[f]
  BY <1>8, <1>9, <1>11, <1>12, <1>13, <1>14, <1>15, <1>16 DEF ContentFields, KeyedFields
<1>18. QED
  BY <1>17, Zenon DEF s, t, r2

====
