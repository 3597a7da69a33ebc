------------------------ MODULE CommandSession_proofs ------------------------
(***************************************************************************)
(* What a device executes, for a registry of any size, with any names,     *)
(* marks and patterns, any options and any sequence of commands.  What a   *)
(* cycle counts and runs rests on doctest's numbering of the tests that    *)
(* pass, a bijection onto 1 .. their number (NumberBijection); that the    *)
(* options arrive, on an induction over them (OptionsRead, OptionsSent);   *)
(* and that the count follows the same filters as doctest, on a filter     *)
(* with one value being its own last one (LastOfOne).                      *)
(***************************************************************************)
EXTENDS CommandSession, FiniteSetTheorems, SequenceTheorems, TLAPS

(* Sets of numbers.                                                        *)

\* A set of numbers that is not empty has a least element.
LEMMA Least ==
  ASSUME NEW S, S \subseteq Nat, S # {}
  PROVE  \E m \in S : \A k \in S : m <= k
<1>1. PICK m \in S : \A k \in S : <<k, m>> \notin OpToRel(<, Nat)
  BY NatLessThanWellFounded, WFMin, Zenon
<1>2. \A k \in S : ~(k < m)
  BY <1>1 DEF OpToRel
<1> QED
  BY <1>2

UpTo(S, t) == {u \in S : u <= t}
Number(S)  == [t \in S |-> Cardinality(UpTo(S, t))]

\* The members of a finite set up to t are no more than the set has.
LEMMA UpToFinite ==
  ASSUME NEW S, S \subseteq Nat, IsFiniteSet(S), NEW t
  PROVE  /\ IsFiniteSet(UpTo(S, t)) /\ Cardinality(UpTo(S, t)) \in Nat
         /\ Cardinality(UpTo(S, t)) <= Cardinality(S)
         /\ Cardinality(S) \in Nat
<1>1. UpTo(S, t) \in SUBSET S
  BY DEF UpTo
<1> QED
  BY <1>1, FS_Subset, FS_CardinalityType

\* The smaller of two members has the smaller number.
LEMMA NumberGrows ==
  ASSUME NEW S, S \subseteq Nat, IsFiniteSet(S), NEW t \in S, NEW u \in S, t < u
  PROVE  Cardinality(UpTo(S, t)) < Cardinality(UpTo(S, u))
<1>1. UpTo(S, t) \in SUBSET UpTo(S, u) /\ u \in UpTo(S, u) /\ u \notin UpTo(S, t)
  <2>1. \A x \in S : x \in Nat
    OBVIOUS
  <2>2. \A x \in S : x <= t => x <= u
    BY <2>1
  <2>3. u <= u /\ ~(u <= t)
    BY <2>1
  <2> QED
    BY <2>2, <2>3 DEF UpTo
<1>2. UpTo(S, t) # UpTo(S, u)
  BY <1>1
<1>3. IsFiniteSet(UpTo(S, u))
  BY UpToFinite
<1>4. /\ Cardinality(UpTo(S, t)) <= Cardinality(UpTo(S, u))
      /\ Cardinality(UpTo(S, t)) # Cardinality(UpTo(S, u))
  BY <1>1, <1>2, <1>3, FS_Subset
<1>5. Cardinality(UpTo(S, t)) \in Nat /\ Cardinality(UpTo(S, u)) \in Nat
  BY UpToFinite
<1> QED
  BY <1>4, <1>5

\* The members of a set are numbered from 1 on without a gap.
LEMMA NumberBijection ==
  ASSUME NEW S, S \subseteq Nat, IsFiniteSet(S)
  PROVE  Number(S) \in Bijection(S, 1..Cardinality(S))
<1> DEFINE f == Number(S)
           n == Cardinality(S)
<1>1. n \in Nat /\ IsFiniteSet(1..n) /\ Cardinality(1..n) = n
  <2>1. n \in Nat
    BY FS_CardinalityType
  <2>2. IsFiniteSet(1..n) /\ Cardinality(1..n) = IF 1 > n THEN 0 ELSE n - 1 + 1
    <3> HIDE DEF n
    <3> QED BY <2>1, FS_Interval
  <2> HIDE DEF n
  <2> QED
    BY <2>1, <2>2
<1>2. \A t \in S : f[t] \in 1..n
  <2> TAKE t \in S
  <2>1. t \in UpTo(S, t)
    <3>1. t <= t
      OBVIOUS
    <3> QED
      BY <3>1 DEF UpTo
  <2>2. Cardinality(UpTo(S, t)) # 0
    BY <2>1, UpToFinite, FS_EmptySet
  <2>3. f[t] = Cardinality(UpTo(S, t))
    BY DEF Number
  <2>4. /\ Cardinality(UpTo(S, t)) \in Nat /\ Cardinality(UpTo(S, t)) <= n
    BY UpToFinite
  <2> QED
    BY <1>1, <2>2, <2>3, <2>4
<1>3. f \in [S -> 1..n]
  BY <1>2 DEF Number
<1>4. ASSUME NEW t \in S, NEW u \in S, f[t] = f[u] PROVE t = u
  <2>1. Cardinality(UpTo(S, t)) = Cardinality(UpTo(S, u))
    BY <1>4 DEF Number
  <2>2. Cardinality(UpTo(S, t)) \in Nat /\ Cardinality(UpTo(S, u)) \in Nat
    BY UpToFinite
  <2>3. ASSUME t < u PROVE FALSE
    <3>1. Cardinality(UpTo(S, t)) < Cardinality(UpTo(S, u))
      BY <2>3, NumberGrows, Zenon
    <3> QED
      BY <2>1, <2>2, <3>1
  <2>4. ASSUME u < t PROVE FALSE
    <3>1. Cardinality(UpTo(S, u)) < Cardinality(UpTo(S, t))
      BY <2>4, NumberGrows, Zenon
    <3> QED
      BY <2>1, <2>2, <3>1
  <2>5. t \in Nat /\ u \in Nat
    OBVIOUS
  <2> QED
    BY <2>3, <2>4, <2>5
<1>5. f \in Injection(S, 1..n)
  BY <1>3, <1>4 DEF Injection, IsInjective
<1>6. f \in Surjection(S, 1..n)
  <2> HIDE DEF f, n
  <2>1. Cardinality(S) = Cardinality(1..n)
    BY <1>1 DEF n
  <2> QED
    BY <1>1, <1>5, <2>1, FS_Injection
<1> QED
  BY <1>5, <1>6 DEF Bijection

\* Without the first n members, the others are left.
LEMMA BehindFirst ==
  ASSUME NEW S, S \subseteq Nat, IsFiniteSet(S), NEW n \in Nat, n <= Cardinality(S)
  PROVE  Cardinality({t \in S : Cardinality(UpTo(S, t)) > n}) = Cardinality(S) - n
<1> DEFINE f     == Number(S)
           early == {t \in S : f[t] <= n}
           g     == [t \in early |-> f[t]]
<1>1. f \in Bijection(S, 1..Cardinality(S)) /\ Cardinality(S) \in Nat
  BY NumberBijection, FS_CardinalityType
<1>2. /\ f \in [S -> 1..Cardinality(S)]
      /\ \A t, u \in S : f[t] = f[u] => t = u
      /\ \A k \in 1..Cardinality(S) : \E t \in S : f[t] = k
  BY <1>1 DEF Bijection, Injection, Surjection, IsInjective
<1>3. g \in Bijection(early, 1..n)
  <2> HIDE DEF f
  <2>1. g \in [early -> 1..n]
    <3>1. \A t \in early : f[t] \in 1..n
      BY <1>1, <1>2
    <3> QED
      BY <3>1
  <2>2. \A t, u \in early : g[t] = g[u] => t = u
    BY <1>2
  <2>3. \A k \in 1..n : \E t \in early : g[t] = k
    BY <1>1, <1>2
  <2> QED
    BY <2>1, <2>2, <2>3 DEF Bijection, Injection, Surjection, IsInjective
<1>4. IsFiniteSet(early) /\ early \cap S = early /\ S \cap early = early
  BY FS_Subset
<1>5. Cardinality(early) = n
  <2>1. Cardinality(1..n) = Cardinality(early)
    BY <1>3, <1>4, FS_Bijection DEF ExistsBijection
  <2>2. Cardinality(1..n) = IF 1 > n THEN 0 ELSE n - 1 + 1
    BY FS_Interval
  <2> QED
    BY <2>1, <2>2
<1>6. {t \in S : Cardinality(UpTo(S, t)) > n} = S \ early
  <2>1. \A t \in S : Cardinality(UpTo(S, t)) = f[t] /\ f[t] \in Nat
    BY UpToFinite DEF Number
  <2> HIDE DEF f
  <2>2. \A t \in S : Cardinality(UpTo(S, t)) > n <=> ~(f[t] <= n)
    BY <2>1
  <2> QED
    BY <2>2
<1>7. Cardinality(S \ early) = Cardinality(S) - Cardinality(S \cap early)
  BY FS_Difference
<1> QED
  BY <1>4, <1>5, <1>6, <1>7, Zenon
-----------------------------------------------------------------------------
(* One cycle: a registry in which some tests are barred, and a command.    *)

RegistryOf(barred) == [name |-> NameOf, skip |-> barred, match |-> Registered]

\* The tests that pass the filters are finitely many registered tests.
LEMMA PassingFinite ==
  ASSUME NEW b, NEW c
  PROVE  /\ Passing(RegistryOf(b), c) \subseteq Registered
         /\ Passing(RegistryOf(b), c) \subseteq Nat
         /\ IsFiniteSet(Passing(RegistryOf(b), c))
         /\ Cardinality(Passing(RegistryOf(b), c)) \in Nat
<1> DEFINE S == Passing(RegistryOf(b), c)
<1>1. S \subseteq Registered
  BY SessionAssumption DEF Passing, Tests, RegistryOf
<1>2. NTests \in Nat /\ IsFiniteSet(Registered) /\ Registered \subseteq Nat
  <2>1. NTests \in Int /\ 1 \in Int /\ NTests \in Nat
    BY SessionAssumption
  <2>2. IsFiniteSet(1..NTests)
    BY <2>1, FS_Interval, Zenon
  <2> QED
    BY <2>1, <2>2 DEF Registered
<1> HIDE DEF S
<1>3. IsFiniteSet(S)
  BY <1>1, <1>2, FS_Subset
<1> QED
  BY <1>1, <1>2, <1>3, FS_CardinalityType DEF S

\* apply_resume_after finds a registered test, or takes none for 0.
LEMMA ResumeIndexType ==
  ASSUME NEW b, NEW c
  PROVE  ResumeIndex(RegistryOf(b), c) \in 0..NTests
<1> DEFINE same == {t \in Tests(RegistryOf(b)) : RegistryOf(b).name[t] = c.name}
<1>1. NTests \in Nat /\ same \subseteq Registered
  BY SessionAssumption DEF Tests, RegistryOf
<1>2. CASE c.tag # "RESUME_AFTER" \/ same = {}
  BY <1>1, <1>2 DEF ResumeIndex
<1>3. CASE c.tag = "RESUME_AFTER" /\ same # {}
  <2>1. \E t \in same : \A u \in same : t <= u
    <3>1. same \subseteq Nat
      BY <1>1 DEF Registered
    <3> HIDE DEF same
    <3> QED
      BY <1>3, <3>1, Least
  <2>2. ResumeIndex(RegistryOf(b), c) = CHOOSE t \in same : \A u \in same : t <= u
    BY <1>3 DEF ResumeIndex
  <2>3. ResumeIndex(RegistryOf(b), c) \in same
    <3> HIDE DEF same
    <3> QED
      BY <2>1, <2>2
  <2> QED
    BY <1>1, <2>3 DEF Registered
<1> QED
  BY <1>2, <1>3

\* doctest runs the tests whose number among the passing ones exceeds first.
LEMMA SelectedNumbers ==
  ASSUME NEW b, NEW c
  PROVE  Selected(RegistryOf(b), c) =
           {t \in Passing(RegistryOf(b), c) :
              Cardinality(UpTo(Passing(RegistryOf(b), c), t)) > ResumeIndex(RegistryOf(b), c)}
BY DEF Selected, Rank, UpTo

\* The number in ETST:COUNTS is that of the tests that run; where none does, that
\* of the passing ones.
LEMMA CountIsTold ==
  ASSUME NEW b, NEW c
  PROVE  CountedRun(RegistryOf(b), c) =
           IF Selected(RegistryOf(b), c) = {} THEN Cardinality(Passing(RegistryOf(b), c))
           ELSE Cardinality(Selected(RegistryOf(b), c))
<1> DEFINE S   == Passing(RegistryOf(b), c)
           n   == Cardinality(S)
           at  == ResumeIndex(RegistryOf(b), c)
           ran == Selected(RegistryOf(b), c)
<1>1. S \subseteq Nat /\ IsFiniteSet(S) /\ n \in Nat /\ at \in Nat
  <2>1. at \in 0..NTests /\ NTests \in Nat
    BY ResumeIndexType, SessionAssumption
  <2> HIDE DEF at
  <2> QED
    BY <2>1, PassingFinite
<1>2. ran = {t \in S : Cardinality(UpTo(S, t)) > at}
  BY SelectedNumbers
<1>3. CountedRun(RegistryOf(b), c) = IF at > 0 /\ n > at THEN n - at ELSE n
  BY DEF CountedRun
<1> HIDE DEF S, at, ran
<1>4. n > at => ran # {} /\ Cardinality(ran) = n - at
  <2> SUFFICES ASSUME n > at PROVE ran # {} /\ Cardinality(ran) = n - at
    OBVIOUS
  <2>1. at <= Cardinality(S)
    BY <1>1
  <2>2. Cardinality(ran) = Cardinality(S) - at
    BY <1>1, <1>2, <2>1, BehindFirst, Zenon
  <2>3. Cardinality(ran) # 0
    BY <1>1, <2>2
  <2> QED
    BY <2>2, <2>3, FS_EmptySet
<1>5. ~(n > at) => ran = {}
  <2> SUFFICES ASSUME NEW t \in S, Cardinality(UpTo(S, t)) > at PROVE n > at
    BY <1>2
  <2>1. Cardinality(UpTo(S, t)) \in Nat /\ Cardinality(UpTo(S, t)) <= n
    BY <1>1, UpToFinite, Zenon
  <2> QED
    BY <1>1, <2>1
<1>6. CountedRun(RegistryOf(b), c) = IF ran = {} THEN n ELSE Cardinality(ran)
  <2> HIDE DEF n
  <2>1. CASE n > at
    BY <1>1, <1>3, <1>4, <2>1
  <2>2. CASE ~(n > at)
    BY <1>3, <1>5, <2>2
  <2> QED
    BY <2>1, <2>2
<1> QED
  BY <1>6 DEF S, ran

\* doctest's first counts the tests that pass: where none up to the resumed
\* one is barred, the ones behind it are those with a larger number.
LEMMA RestRuns ==
  ASSUME NEW b, NEW c, c.tag = "RESUME_AFTER",
         b \cap 1..ResumeIndex(RegistryOf(b), c) = {}
  PROVE  Selected(RegistryOf(b), c) =
           {t \in Registered \ b : t > ResumeIndex(RegistryOf(b), c)}
<1> DEFINE S  == Passing(RegistryOf(b), c)
           at == ResumeIndex(RegistryOf(b), c)
<1>1. /\ S \subseteq Nat /\ IsFiniteSet(S) /\ at \in Nat /\ at <= NTests /\ NTests \in Nat
  <2>1. at \in 0..NTests /\ NTests \in Nat
    BY ResumeIndexType, SessionAssumption
  <2> HIDE DEF at
  <2> QED
    BY <2>1, PassingFinite
<1>2. S = Registered \ b
  BY SessionAssumption DEF Passing, Tests, RegistryOf, TakesArgs
<1>3. Selected(RegistryOf(b), c) = {t \in S : Cardinality(UpTo(S, t)) > at}
  BY SelectedNumbers
<1>4. 1..at \subseteq S
  <2>1. b \cap 1..at = {}
    OBVIOUS
  <2> HIDE DEF at, S
  <2> QED
    BY <1>1, <1>2, <2>1 DEF Registered
<1> HIDE DEF S, at
<1>5. IsFiniteSet(1..at) /\ Cardinality(1..at) = at
  <2>1. IsFiniteSet(1..at) /\ Cardinality(1..at) = IF 1 > at THEN 0 ELSE at - 1 + 1
    BY <1>1, FS_Interval
  <2> QED
    BY <1>1, <2>1
<1>6. ASSUME NEW t \in S PROVE Cardinality(UpTo(S, t)) > at <=> t > at
  <2>1. IsFiniteSet(UpTo(S, t)) /\ Cardinality(UpTo(S, t)) \in Nat /\ t \in Nat
    BY <1>1, UpToFinite, Zenon
  <2>2. CASE t > at
    <3>1. 1..at \subseteq UpTo(S, t) /\ t \in UpTo(S, t) /\ t \notin 1..at
      BY <1>1, <1>4, <2>1, <2>2 DEF UpTo
    <3>2. 1..at \in SUBSET UpTo(S, t) /\ UpTo(S, t) # 1..at
      BY <3>1
    <3>3. /\ Cardinality(1..at) <= Cardinality(UpTo(S, t))
          /\ Cardinality(UpTo(S, t)) # Cardinality(1..at)
      BY <2>1, <3>2, FS_Subset, Zenon
    <3>4. at <= Cardinality(UpTo(S, t)) /\ at # Cardinality(UpTo(S, t))
      BY <1>5, <3>3
    <3> QED
      BY <1>1, <2>1, <2>2, <3>4
  <2>3. CASE ~(t > at)
    <3>1. UpTo(S, t) \in SUBSET (1..at)
      <4>1. \A u \in S : u \in Nat /\ u >= 1
        BY <1>1, <1>2 DEF Registered
      <4>2. \A u \in S : u <= t => u \in 1..at
        BY <1>1, <2>1, <2>3, <4>1
      <4> QED
        BY <4>2 DEF UpTo
    <3>2. Cardinality(UpTo(S, t)) <= at
      BY <1>5, <3>1, FS_Subset
    <3> QED
      BY <1>1, <2>1, <2>3, <3>2
  <2> QED
    BY <2>2, <2>3
<1> QED
  BY <1>2, <1>3, <1>6 DEF at
-----------------------------------------------------------------------------
(* Sequences, as lists of pieces.                                          *)

\* Induction over the numbers, for a set of them.
LEMMA EveryNumber ==
  ASSUME NEW P, 0 \in P, \A n \in Nat : n \in P => n + 1 \in P
  PROVE  \A n \in Nat : n \in P
<1> DEFINE K == {n \in Nat : n \notin P}
<1>1. SUFFICES ASSUME K # {} PROVE FALSE
  OBVIOUS
<1>2. PICK m \in K : \A k \in K : m <= k
  BY <1>1, Least
<1>3. m \in Nat /\ m # 0 /\ m \notin P
  OBVIOUS
<1>4. m - 1 \in Nat /\ (m - 1) + 1 = m /\ ~(m <= m - 1)
  BY <1>3
<1>5. m - 1 \in P
  BY <1>2, <1>4
<1> QED BY <1>3, <1>4, <1>5

\* Induction over sequences that grow at their end.
LEMMA EverySeq ==
  ASSUME NEW E, NEW P, <<>> \in P,
         \A s \in Seq(E), e \in E : s \in P => Append(s, e) \in P
  PROVE  \A s \in Seq(E) : s \in P
<1> DEFINE N == {n \in Nat : \A s \in Seq(E) : Len(s) = n => s \in P}
<1>1. 0 \in N
  BY EmptySeq
<1>2. ASSUME NEW n \in Nat, n \in N PROVE n + 1 \in N
  <2>1. ASSUME NEW s \in Seq(E), Len(s) = n + 1 PROVE s \in P
    <3>1. PICK t \in Seq(E), e \in E : s = Append(t, e)
      BY <2>1, SequenceEmptyOrAppend
    <3>2. Len(t) = n
      BY <2>1, <3>1, AppendProperties
    <3> QED BY <1>2, <3>1, <3>2
  <2> QED BY <2>1
<1> HIDE DEF N
<1>3. \A n \in Nat : n \in N
  BY <1>1, <1>2, EveryNumber
<1> QED BY <1>3, LenProperties DEF N

-----------------------------------------------------------------------------
(* FlattenSeq.                                                             *)

Step(s, g, i) == IF i = 1 THEN s[i] ELSE g[i-1] \o s[i]
Flat(s) == CHOOSE g : g = [i \in 1..Len(s) |-> Step(s, g, i)]

\* FlattenSeq is the recursive function of its own definition.
LEMMA FlattenIsRecursive ==
  ASSUME NEW s
  PROVE  FlattenSeq(s) = IF Len(s) = 0 THEN s ELSE Flat(s)[Len(s)]
BY DEF FlattenSeq, Flat, Step

FlatUpTo(E, s, n) ==
  {g \in [1..Len(s) -> Seq(E)] : \A i \in 1..Len(s) : i <= n => g[i] = Step(s, g, i)}

\* The recursion of FlattenSeq has a solution, of sequences.
LEMMA FlatExists ==
  ASSUME NEW E, NEW s \in Seq(Seq(E))
  PROVE  \A n \in Nat : FlatUpTo(E, s, n) # {}
<1> DEFINE P == {n \in Nat : FlatUpTo(E, s, n) # {}}
<1>1. 0 \in P
  <2> DEFINE g == [i \in 1..Len(s) |-> s[i]]
  <2>1. g \in FlatUpTo(E, s, 0)
    BY ElementOfSeq DEF FlatUpTo
  <2> QED BY <2>1
<1>2. ASSUME NEW n \in Nat, n \in P PROVE n + 1 \in P
  <2>1. PICK g : g \in FlatUpTo(E, s, n)
    BY <1>2
  <2>2. g \in [1..Len(s) -> Seq(E)] /\ Len(s) \in Nat
    BY <2>1, LenProperties DEF FlatUpTo
  <2> DEFINE h == [i \in 1..Len(s) |-> IF i <= n THEN g[i] ELSE Step(s, g, i)]
  <2>3. ASSUME NEW i \in 1..Len(s) PROVE Step(s, g, i) \in Seq(E)
    <3>1. s[i] \in Seq(E)
      BY ElementOfSeq
    <3>2. CASE i = 1
      BY <3>1, <3>2 DEF Step
    <3>3. CASE i # 1
      <4>1. i - 1 \in 1..Len(s)
        BY <2>2, <3>3
      <4> QED BY <2>2, <3>1, <3>3, <4>1, ConcatProperties DEF Step
    <3> QED BY <3>2, <3>3
  <2>4. h \in [1..Len(s) -> Seq(E)]
    BY <2>2, <2>3
  <2>5. ASSUME NEW i \in 1..Len(s), i <= n + 1 PROVE h[i] = Step(s, h, i)
    <3>1. h[i] = Step(s, g, i)
      BY <2>1 DEF FlatUpTo
    <3>2. i # 1 => i - 1 \in 1..Len(s) /\ i - 1 <= n
      BY <2>2, <2>5
    <3> QED BY <3>1, <3>2 DEF Step
  <2>6. h \in FlatUpTo(E, s, n + 1)
    BY <2>4, <2>5 DEF FlatUpTo
  <2> QED BY <2>6
<1> HIDE DEF P
<1>3. \A n \in Nat : n \in P
  BY <1>1, <1>2, EveryNumber
<1> QED BY <1>3 DEF P

\* FlattenSeq satisfies its recursion.
LEMMA FlatEquation ==
  ASSUME NEW E, NEW s \in Seq(Seq(E))
  PROVE  /\ DOMAIN Flat(s) = 1..Len(s)
         /\ \A i \in 1..Len(s) : Flat(s)[i] = Step(s, Flat(s), i)
<1>1. Len(s) \in Nat
  BY LenProperties
<1>2. PICK g : g \in FlatUpTo(E, s, Len(s))
  BY <1>1, FlatExists
<1>3. g = [i \in 1..Len(s) |-> Step(s, g, i)]
  BY <1>1, <1>2 DEF FlatUpTo
<1>4. Flat(s) = [i \in 1..Len(s) |-> Step(s, Flat(s), i)]
  BY <1>3 DEF Flat
<1>5. ASSUME NEW h, h = [i \in 1..Len(s) |-> Step(s, Flat(s), i)]
      PROVE  DOMAIN h = 1..Len(s) /\ \A i \in 1..Len(s) : h[i] = Step(s, Flat(s), i)
  BY <1>5
<1> QED BY <1>4, <1>5

\* What the flattening of a sequence and of the one a list longer are.
LEMMA FlattenEmpty == FlattenSeq(<<>>) = <<>>
BY FlattenIsRecursive

\* What is appended to a list of sequences comes behind what it flattens to.
LEMMA FlattenAppend ==
  ASSUME NEW E, NEW s \in Seq(Seq(E)), NEW b \in Seq(E)
  PROVE  FlattenSeq(Append(s, b)) = FlattenSeq(s) \o b
<1> DEFINE t == Append(s, b)
<1>1. /\ t \in Seq(Seq(E)) /\ Len(t) = Len(s) + 1 /\ Len(s) \in Nat /\ t[Len(s) + 1] = b
      /\ \A i \in 1..Len(s) : t[i] = s[i]
  BY AppendProperties, LenProperties
<1> HIDE DEF t
<1>2. FlattenSeq(t) = Flat(t)[Len(s) + 1]
  BY <1>1, FlattenIsRecursive
<1>3. Flat(t)[Len(s) + 1] = Step(t, Flat(t), Len(s) + 1)
  BY <1>1, FlatEquation
<1>4. CASE Len(s) = 0
  <2>1. s = <<>>
    BY <1>4, EmptySeq
  <2>2. Flat(t)[Len(s) + 1] = b
    BY <1>1, <1>3, <1>4 DEF Step
  <2> QED BY <1>2, <2>1, <2>2, FlattenEmpty, ConcatEmptySeq DEF t
<1>5. CASE Len(s) # 0
  <2> DEFINE P == {n \in Nat : n \in 1..Len(s) => Flat(t)[n] = Flat(s)[n]}
  <2>1. 0 \in P
    OBVIOUS
  <2>2. ASSUME NEW n \in Nat, n \in P PROVE n + 1 \in P
    <3>1. SUFFICES ASSUME n + 1 \in 1..Len(s) PROVE Flat(t)[n + 1] = Flat(s)[n + 1]
      OBVIOUS
    <3>2. Flat(t)[n + 1] = Step(t, Flat(t), n + 1) /\ Flat(s)[n + 1] = Step(s, Flat(s), n + 1)
      BY <1>1, <3>1, FlatEquation, SMTT(30)
    <3>3. t[n + 1] = s[n + 1] /\ (n + 1) - 1 = n
      BY <1>1, <3>1
    <3>4. CASE n = 0
      BY <3>2, <3>3, <3>4 DEF Step
    <3>5. CASE n # 0
      <4>1. Flat(t)[n] = Flat(s)[n]
        BY <1>1, <2>2, <3>1, <3>5
      <4> QED BY <3>2, <3>3, <3>5, <4>1 DEF Step
    <3> QED BY <3>4, <3>5
  <2> HIDE DEF P
  <2>3. Len(s) \in P
    BY <1>1, <2>1, <2>2, EveryNumber
  <2>4. Flat(t)[Len(s)] = Flat(s)[Len(s)]
    BY <1>1, <1>5, <2>3 DEF P
  <2>5. Flat(t)[Len(s) + 1] = Flat(t)[Len(s)] \o b
    BY <1>1, <1>3, <1>5 DEF Step
  <2>6. FlattenSeq(s) = Flat(s)[Len(s)]
    BY <1>5, FlattenIsRecursive
  <2> QED BY <1>2, <2>4, <2>5, <2>6 DEF t
<1> QED BY <1>4, <1>5

\* Sequences flatten to a sequence.
LEMMA FlattenType ==
  ASSUME NEW E, NEW s \in Seq(Seq(E))
  PROVE  FlattenSeq(s) \in Seq(E)
<1> DEFINE P == {t \in Seq(Seq(E)) : FlattenSeq(t) \in Seq(E)}
<1>1. <<>> \in P
  BY FlattenEmpty, EmptySeq
<1>2. ASSUME NEW t \in Seq(Seq(E)), NEW b \in Seq(E), t \in P PROVE Append(t, b) \in P
  <2>1. FlattenSeq(Append(t, b)) = FlattenSeq(t) \o b
    BY FlattenAppend
  <2> QED BY <1>2, <2>1, AppendProperties, ConcatProperties
<1> HIDE DEF P
<1>3. \A t \in Seq(Seq(E)) : t \in P
  BY <1>1, <1>2, EverySeq
<1> QED BY <1>3 DEF P

\* A list given element by element that goes on from another one, by one
\* element or by two.
LEMMA FlattenOne ==
  ASSUME NEW E, NEW t \in Seq(Seq(E)), NEW u, DOMAIN u = 1..(Len(t) + 1),
         u = [i \in DOMAIN u |-> u[i]],
         \A i \in 1..Len(t) : u[i] = t[i], u[Len(t) + 1] \in Seq(E)
  PROVE  /\ u = Append(t, u[Len(t) + 1]) /\ u \in Seq(Seq(E))
         /\ FlattenSeq(u) = FlattenSeq(t) \o u[Len(t) + 1]
<1> DEFINE n == Len(t)
           b == u[Len(t) + 1]
           a == Append(t, b)
<1>1. /\ a \in Seq(Seq(E)) /\ Len(a) = n + 1 /\ n \in Nat /\ a[n + 1] = b
      /\ \A i \in 1..n : a[i] = t[i]
  BY AppendProperties, LenProperties
<1>2. DOMAIN a = 1..(n + 1) /\ a = [i \in DOMAIN a |-> a[i]]
  BY <1>1, LenProperties
<1>3. \A i \in 1..(n + 1) : i \in 1..n \/ i = n + 1
  BY <1>1
<1>4. \A i \in 1..(n + 1) : a[i] = u[i]
  BY <1>1, <1>3
<1> HIDE DEF a
<1>5. a = u
  BY <1>2, <1>4
<1>6. FlattenSeq(a) = FlattenSeq(t) \o b
  BY FlattenAppend DEF a
<1> QED BY <1>1, <1>5, <1>6 DEF a

\* Two more sequences add what they hold.
LEMMA FlattenTwo ==
  ASSUME NEW E, NEW t \in Seq(Seq(E)), NEW u, DOMAIN u = 1..(Len(t) + 2),
         u = [i \in DOMAIN u |-> u[i]], \A i \in 1..Len(t) : u[i] = t[i],
         u[Len(t) + 1] \in Seq(E), u[Len(t) + 2] \in Seq(E)
  PROVE  /\ u \in Seq(Seq(E))
         /\ FlattenSeq(u) = (FlattenSeq(t) \o u[Len(t) + 1]) \o u[Len(t) + 2]
<1> DEFINE n == Len(t)
           w == [i \in 1..(n + 1) |-> u[i]]
<1>1. n \in Nat
  BY LenProperties
<1>2. n + 1 \in 1..(n + 1) /\ 1..n \subseteq 1..(n + 1)
  BY <1>1
<1>3. /\ DOMAIN w = 1..(n + 1) /\ w = [i \in DOMAIN w |-> w[i]] /\ w[n + 1] = u[n + 1]
      /\ \A i \in 1..n : w[i] = t[i]
  BY <1>2
<1> HIDE DEF w
<1>4. /\ w = Append(t, w[n + 1]) /\ w \in Seq(Seq(E))
      /\ FlattenSeq(w) = FlattenSeq(t) \o w[n + 1]
  <2>1. /\ DOMAIN w = 1..(Len(t) + 1) /\ w = [i \in DOMAIN w |-> w[i]]
        /\ \A i \in 1..Len(t) : w[i] = t[i]
    BY <1>3
  <2>2. w[Len(t) + 1] \in Seq(E)
    BY <1>3
  <2> QED BY <2>1, <2>2, FlattenOne, Zenon
<1>5. Len(w) = n + 1
  BY <1>3, <1>4, AppendProperties
<1>6. Len(w) + 1 = n + 2 /\ \A i \in 1..Len(w) : u[i] = w[i]
  BY <1>1, <1>5 DEF w
<1>7. u \in Seq(Seq(E)) /\ FlattenSeq(u) = FlattenSeq(w) \o u[Len(w) + 1]
  <2>1. DOMAIN u = 1..(Len(w) + 1) /\ u[Len(w) + 1] \in Seq(E)
    BY <1>6
  <2>2. w \in Seq(Seq(E))
    BY <1>4
  <2>3. u = [i \in DOMAIN u |-> u[i]] /\ \A i \in 1..Len(w) : u[i] = w[i]
    BY <1>6
  <2> HIDE DEF n, w
  <2> QED BY <2>1, <2>2, <2>3, FlattenOne, Zenon
<1> QED BY <1>3, <1>4, <1>6, <1>7

\* A set of positions that is not empty has a last one.
LEMMA LastPosition ==
  ASSUME NEW n \in Nat, NEW S \in SUBSET (1..n), S # {}
  PROVE  Max(S) \in S /\ \A x \in S : Max(S) >= x
<1> DEFINE P == {m \in Nat : \A R \in SUBSET (1..m) : R # {} => \E y \in R : \A x \in R : y >= x}
<1>1. 0 \in P
  <2>1. 1..0 = {}
    OBVIOUS
  <2> QED BY <2>1
<1>2. ASSUME NEW m \in Nat, m \in P PROVE m + 1 \in P
  <2>1. ASSUME NEW R \in SUBSET (1..(m + 1)), R # {} PROVE \E y \in R : \A x \in R : y >= x
    <3>1. CASE m + 1 \in R
      <4>1. \A x \in R : m + 1 >= x
        OBVIOUS
      <4> QED BY <3>1, <4>1
    <3>2. CASE m + 1 \notin R
      <4>1. R \in SUBSET (1..m)
        BY <3>2
      <4> QED BY <1>2, <2>1, <4>1
    <3> QED BY <3>1, <3>2
  <2> QED BY <2>1
<1> HIDE DEF P
<1>3. n \in P
  BY <1>1, <1>2, EveryNumber
<1>4. \E y \in S : \A x \in S : y >= x
  BY <1>3 DEF P
<1> QED BY <1>4 DEF Max
-----------------------------------------------------------------------------
(* A list of what each element of a sequence contributes.                  *)

Spread(F, s) == FlattenSeq([i \in 1..Len(s) |-> F[s[i]]])

\* F gives a list of elements of E for each member of A.
Gives(F, A, E) == F \in [A -> Seq(E)]

\* A list of one.
LEMMA OneSeq ==
  ASSUME NEW E, NEW a \in E
  PROVE  <<a>> \in Seq(E)
OBVIOUS

\* A list of two.
LEMMA PairSeq ==
  ASSUME NEW E, NEW a \in E, NEW b \in E
  PROVE  <<a, b>> \in Seq(E)
OBVIOUS

\* Two lists make one.
LEMMA Concatenated ==
  ASSUME NEW E, NEW s \in Seq(E), NEW t \in Seq(E)
  PROVE  s \o t \in Seq(E)
BY ConcatProperties

\* A list of one is appended.
LEMMA ConcatOne ==
  ASSUME NEW E, NEW s \in Seq(E), NEW a \in E
  PROVE  s \o <<a>> = Append(s, a)
BY AppendIsConcat

\* A pair is a list of one and another.
LEMMA PairConcat ==
  ASSUME NEW E, NEW a \in E, NEW b \in E
  PROVE  <<a, b>> = <<a>> \o <<b>>
<1>1. <<a>> \in Seq(E) /\ <<b>> \in Seq(E) /\ <<a, b>> \in Seq(E)
  OBVIOUS
<1>2. Len(<<a>>) = 1 /\ Len(<<b>>) = 1 /\ Len(<<a, b>>) = 2
  OBVIOUS
<1>3. /\ <<a>> \o <<b>> \in Seq(E) /\ Len(<<a>> \o <<b>>) = 2
      /\ (<<a>> \o <<b>>)[1] = a /\ (<<a>> \o <<b>>)[2] = b
  BY <1>1, <1>2, ConcatProperties
<1>4. <<a, b>>[1] = a /\ <<a, b>>[2] = b /\ \A i \in 1..2 : i = 1 \/ i = 2
  OBVIOUS
<1>5. \A i \in 1..2 : <<a, b>>[i] = (<<a>> \o <<b>>)[i]
  BY <1>3, <1>4
<1> QED BY <1>1, <1>2, <1>3, <1>5, SeqEqual

\* A pair is appended one by one.
LEMMA ConcatTwo ==
  ASSUME NEW E, NEW s \in Seq(E), NEW a \in E, NEW b \in E
  PROVE  s \o <<a, b>> = Append(Append(s, a), b)
<1>1. <<a, b>> = <<a>> \o <<b>>
  BY PairConcat
<1>2. <<a>> \in Seq(E) /\ <<b>> \in Seq(E)
  OBVIOUS
<1>3. s \o (<<a>> \o <<b>>) = (s \o <<a>>) \o <<b>>
  BY <1>2, ConcatAssociative
<1>4. s \o <<a>> = Append(s, a) /\ Append(s, a) \in Seq(E)
  BY ConcatOne, AppendProperties
<1>5. Append(s, a) \o <<b>> = Append(Append(s, a), b)
  BY <1>4, ConcatOne
<1> QED BY <1>1, <1>3, <1>4, <1>5

\* Nothing stands for nothing.
LEMMA SpreadEmpty == ASSUME NEW F PROVE Spread(F, <<>>) = <<>>
<1>1. [i \in 1..Len(<<>>) |-> F[<<>>[i]]] = <<>>
  BY EmptySeq
<1> QED BY <1>1, FlattenEmpty DEF Spread

\* One element more adds what it stands for.
LEMMA SpreadGrow ==
  ASSUME NEW A, NEW E, NEW F, Gives(F, A, E), NEW s \in Seq(A), NEW a \in A
  PROVE  Spread(F, Append(s, a)) = Spread(F, s) \o F[a]
<1> DEFINE q == Append(s, a)
           t == [i \in 1..Len(s) |-> F[s[i]]]
           u == [i \in 1..Len(q) |-> F[q[i]]]
<1>1. /\ Len(q) = Len(s) + 1 /\ Len(s) \in Nat /\ q[Len(s) + 1] = a
      /\ \A i \in 1..Len(s) : q[i] = s[i] /\ s[i] \in A
  BY AppendProperties, LenProperties, ElementOfSeq
<1>2. Spread(F, q) = FlattenSeq(u) /\ Spread(F, s) = FlattenSeq(t)
  BY DEF Spread
<1> HIDE DEF q
<1>3. t \in Seq(Seq(E)) /\ Len(t) = Len(s)
  <2>1. \A i \in 1..Len(s) : F[s[i]] \in Seq(E)
    BY <1>1 DEF Gives
  <2> QED BY <1>1, <2>1, IsASeq
<1>4. /\ DOMAIN u = 1..(Len(t) + 1) /\ u[Len(t) + 1] = F[a]
      /\ \A i \in 1..Len(t) : u[i] = t[i]
  BY <1>1, <1>3
<1>5. F[a] \in Seq(E) /\ u = [i \in DOMAIN u |-> u[i]]
  BY DEF Gives
<1> HIDE DEF t, u
<1>6. FlattenSeq(u) = FlattenSeq(t) \o F[a]
  <2>1. u[Len(t) + 1] \in Seq(E)
    BY <1>4, <1>5
  <2>2. FlattenSeq(u) = FlattenSeq(t) \o u[Len(t) + 1]
    BY <1>3, <1>4, <1>5, <2>1, FlattenOne, Zenon
  <2> QED BY <1>4, <2>2
<1> QED BY <1>2, <1>6 DEF q

\* What a sequence stands for is a sequence.
LEMMA SpreadType ==
  ASSUME NEW A, NEW E, NEW F, Gives(F, A, E)
  PROVE  \A s \in Seq(A) : Spread(F, s) \in Seq(E)
<1> DEFINE P == {s \in Seq(A) : Spread(F, s) \in Seq(E)}
<1>1. <<>> \in P
  BY SpreadEmpty, EmptySeq
<1>2. ASSUME NEW s \in Seq(A), NEW a \in A, s \in P PROVE Append(s, a) \in P
  <2>1. Spread(F, Append(s, a)) = Spread(F, s) \o F[a]
    BY SpreadGrow
  <2>2. Spread(F, s) \in Seq(E) /\ F[a] \in Seq(E)
    BY <1>2 DEF Gives
  <2>3. Spread(F, s) \o F[a] \in Seq(E)
    BY <2>2, ConcatProperties
  <2> QED BY <2>1, <2>3, AppendProperties
<1> HIDE DEF P
<1>3. \A s \in Seq(A) : s \in P
  BY <1>1, <1>2, EverySeq
<1> QED BY <1>3 DEF P

\* Appending to the second of two is appending to both.
LEMMA ConcatAppend ==
  ASSUME NEW E, NEW s \in Seq(E), NEW t \in Seq(E), NEW a \in E
  PROVE  s \o Append(t, a) = Append(s \o t, a)
<1>1. Append(t, a) = t \o <<a>> /\ <<a>> \in Seq(E) /\ s \o t \in Seq(E)
  BY ConcatOne, OneSeq, ConcatProperties
<1>2. s \o (t \o <<a>>) = (s \o t) \o <<a>>
  BY <1>1, ConcatAssociative
<1>3. (s \o t) \o <<a>> = Append(s \o t, a)
  BY <1>1, ConcatOne
<1> QED BY <1>1, <1>2, <1>3

\* Two sequences stand for what each of them stands for.
LEMMA SpreadConcat ==
  ASSUME NEW A, NEW E, NEW F, Gives(F, A, E), NEW s \in Seq(A), NEW r \in Seq(A)
  PROVE  Spread(F, s \o r) = Spread(F, s) \o Spread(F, r)
<1> DEFINE P == {t \in Seq(A) : Spread(F, s \o t) = Spread(F, s) \o Spread(F, t)}
<1>1. <<>> \in P
  <2>1. s \o <<>> = s /\ Spread(F, s) \o <<>> = Spread(F, s)
    BY SpreadType, ConcatEmptySeq
  <2> QED BY <2>1, SpreadEmpty, EmptySeq
<1>2. ASSUME NEW t \in Seq(A), NEW a \in A, t \in P PROVE Append(t, a) \in P
  <2>1. Spread(F, s \o t) = Spread(F, s) \o Spread(F, t)
    BY <1>2
  <2> HIDE DEF P
  <2>2. s \o Append(t, a) = Append(s \o t, a) /\ s \o t \in Seq(A)
    BY ConcatAppend, ConcatProperties
  <2>3. Spread(F, Append(s \o t, a)) = Spread(F, s \o t) \o F[a]
    <3> DEFINE v == s \o t
    <3>1. v \in Seq(A)
      BY <2>2
    <3> HIDE DEF v
    <3>2. Spread(F, Append(v, a)) = Spread(F, v) \o F[a]
      BY <3>1, SpreadGrow
    <3> QED BY <3>2 DEF v
  <2>4. Spread(F, Append(t, a)) = Spread(F, t) \o F[a]
    BY SpreadGrow
  <2>5. Spread(F, s) \in Seq(E) /\ Spread(F, t) \in Seq(E)
    BY SpreadType
  <2>6. F[a] \in Seq(E)
    BY DEF Gives
  <2>7. (Spread(F, s) \o Spread(F, t)) \o F[a] = Spread(F, s) \o (Spread(F, t) \o F[a])
    <3> DEFINE x == Spread(F, s)
               y == Spread(F, t)
               z == F[a]
    <3>1. x \in Seq(E) /\ y \in Seq(E) /\ z \in Seq(E)
      BY <2>5, <2>6
    <3> HIDE DEF x, y, z
    <3>2. (x \o y) \o z = x \o (y \o z)
      BY <3>1, ConcatAssociative, SMTT(20)
    <3> QED BY <3>2 DEF x, y, z
  <2> QED BY <2>1, <2>2, <2>3, <2>4, <2>7, AppendProperties DEF P
<1> HIDE DEF P
<1>3. \A t \in Seq(A) : t \in P
  BY <1>1, <1>2, EverySeq
<1> QED BY <1>3 DEF P

\* A list of one stands for what its element stands for.
LEMMA SpreadOne ==
  ASSUME NEW A, NEW E, NEW F, Gives(F, A, E), NEW a \in A
  PROVE  Spread(F, <<a>>) = F[a]
<1>1. <<a>> = Append(<<>>, a) /\ <<>> \in Seq(A)
  BY EmptySeq
<1>2. Spread(F, Append(<<>>, a)) = Spread(F, <<>>) \o F[a]
  BY <1>1, SpreadGrow
<1>3. F[a] \in Seq(E)
  BY DEF Gives
<1>4. <<>> \o F[a] = F[a]
  BY <1>3, ConcatEmptySeq
<1> QED BY <1>1, <1>2, <1>4, SpreadEmpty
-----------------------------------------------------------------------------
(* Options as arguments.                                                   *)

\* A value does not begin with a flag; that of --env is one word KEY=VALUE
\* with a known key.

\* An option has a flag, and a value unless it is --no-skip; an --env sets a key.
LEMMA OptionFacts ==
  ASSUME NEW W, NEW o \in Option(W)
  PROVE  /\ o.flag \in Flags /\ o.value \in Seq(W)
         /\ o.value = <<>> <=> o.flag = "--no-skip"
         /\ o.value # <<>> => Head(o.value) \notin Flags /\ Len(o.value) > 0
         /\ o.flag = "--env" =>
              o.value \in Setting(W) /\ Len(o.value) = 1 /\ Head(o.value) \in DOMAIN KeyOf
<1>1. CASE o \in [flag : ValueFlags, value : Value(W)]
  <2>1. o.flag \in ValueFlags /\ o.value \in Value(W)
    BY <1>1
  <2>2. o.value \in Seq(W) /\ o.value # <<>> /\ Head(o.value) \notin Flags
    BY <2>1 DEF Value
  <2>3. Len(o.value) > 0
    BY <2>2, EmptySeq, LenProperties
  <2> QED BY <2>1, <2>2, <2>3 DEF ValueFlags, SkipFlags, Flags
<1>2. CASE o \in [flag : {"--env"}, value : Setting(W)]
  <2>1. o.flag = "--env" /\ o.value \in Setting(W)
    BY <1>2
  <2>2. /\ o.value \in Seq(W) /\ o.value # <<>> /\ Head(o.value) \notin Flags
        /\ Len(o.value) = 1 /\ Head(o.value) \in DOMAIN KeyOf
    BY <2>1 DEF Value, Setting
  <2> QED BY <2>1, <2>2 DEF Flags
<1>3. CASE o \in [flag : {"--no-skip"}, value : {<<>>}]
  <2>1. o.flag = "--no-skip" /\ o.value = <<>>
    BY <1>3
  <2> QED BY <2>1, EmptySeq DEF Flags
<1> QED BY <1>1, <1>2, <1>3 DEF Option

\* The arguments T, then those of option o.
More(T, o) ==
  IF o.value = <<>> THEN Append(T, <<o.flag>>)
  ELSE Append(Append(T, <<o.flag>>), o.value)

\* The tokens of one option more: its flag, and its value when it has one.
LEMMA MoreFacts ==
  ASSUME NEW W, Flags \subseteq W, NEW T \in Seq(Seq(W)), NEW o \in Option(W)
  PROVE  /\ More(T, o) \in Seq(Seq(W)) /\ Len(T) \in Nat
         /\ \A i \in 1..Len(T) : More(T, o)[i] = T[i]
         /\ More(T, o)[Len(T) + 1] = <<o.flag>>
         /\ o.value = <<>> => Len(More(T, o)) = Len(T) + 1
         /\ o.value # <<>> => /\ Len(More(T, o)) = Len(T) + 2
                              /\ More(T, o)[Len(T) + 2] = o.value
<1>1. o.flag \in W /\ o.value \in Seq(W)
  BY OptionFacts
<1>2. <<o.flag>> \in Seq(W)
  BY <1>1
<1> DEFINE A == Append(T, <<o.flag>>)
<1>3. /\ A \in Seq(Seq(W)) /\ Len(A) = Len(T) + 1 /\ Len(T) \in Nat
      /\ \A i \in 1..Len(T) : A[i] = T[i]
      /\ A[Len(T) + 1] = <<o.flag>>
  BY <1>2, AppendProperties, LenProperties
<1>4. CASE o.value = <<>>
  BY <1>3, <1>4 DEF More
<1>5. CASE o.value # <<>>
  <2> DEFINE B == Append(A, o.value)
  <2> HIDE DEF A
  <2>1. /\ B \in Seq(Seq(W)) /\ Len(B) = Len(A) + 1
        /\ \A i \in 1..Len(A) : B[i] = A[i]
        /\ B[Len(A) + 1] = o.value
    BY <1>1, <1>3, AppendProperties, LenProperties
  <2>2. More(T, o) = B
    BY <1>5 DEF More, A
  <2> HIDE DEF B
  <2>3. Len(B) = Len(T) + 2 /\ Len(A) + 1 = Len(T) + 2 /\ Len(T) + 1 \in 1..Len(A)
    BY <1>3, <2>1
  <2>4. \A i \in 1..Len(T) : i \in 1..Len(A)
    BY <1>3
  <2> QED BY <1>3, <1>5, <2>1, <2>2, <2>3, <2>4
<1> QED BY <1>4, <1>5

\* The arguments of a list of options, as a list of lists to flatten.
ArgsOf(o, whole) ==
  IF whole \/ o.value = <<>> THEN <<<<o.flag>> \o o.value>> ELSE <<<<o.flag>>, o.value>>

\* No options, no program arguments.
LEMMA ProgramArgsEmpty == ASSUME NEW whole PROVE ProgramArgs(<<>>, whole) = <<>>
<1>1. [i \in 1..Len(<<>>) |-> ArgsOf(<<>>[i], whole)] = <<>>
  BY EmptySeq
<1> QED BY <1>1, FlattenEmpty DEF ProgramArgs, Pieces, ArgsOf

\* An option's program arguments are sequences of words.
LEMMA ArgsOfType ==
  ASSUME NEW W, Flags \subseteq W, NEW o \in Option(W), NEW whole
  PROVE  ArgsOf(o, whole) \in Seq(Seq(W))
<1>1. o.flag \in W /\ o.value \in Seq(W)
  BY OptionFacts
<1>2. <<o.flag>> \in Seq(W)
  BY <1>1
<1>3. <<o.flag>> \o o.value \in Seq(W)
  BY <1>1, <1>2, ConcatProperties
<1> QED BY <1>1, <1>2, <1>3 DEF ArgsOf

ArgsMap(W, whole) == [o \in Option(W) |-> ArgsOf(o, whole)]

\* Program arguments are built option by option.
LEMMA ProgramArgsSpread ==
  ASSUME NEW W, Flags \subseteq W, NEW whole
  PROVE  /\ Gives(ArgsMap(W, whole), Option(W), Seq(W))
         /\ \A p \in Seq(Option(W)) : ProgramArgs(p, whole) = Spread(ArgsMap(W, whole), p)
<1>1. \A o \in Option(W) : ArgsOf(o, whole) \in Seq(Seq(W))
  BY ArgsOfType
<1>2. ASSUME NEW p \in Seq(Option(W))
      PROVE  ProgramArgs(p, whole) = Spread(ArgsMap(W, whole), p)
  <2>1. \A i \in 1..Len(p) : p[i] \in Option(W)
    BY ElementOfSeq
  <2>2. [i \in 1..Len(p) |-> ArgsOf(p[i], whole)] = [i \in 1..Len(p) |-> ArgsMap(W, whole)[p[i]]]
    BY <2>1 DEF ArgsMap
  <2> QED BY <2>2 DEF ProgramArgs, Pieces, ArgsOf, Spread
<1> QED BY <1>1, <1>2 DEF ArgsMap, Gives

\* One option more, by itself.
LEMMA ProgramArgsGrow ==
  ASSUME NEW W, Flags \subseteq W, NEW p \in Seq(Option(W)), NEW o \in Option(W), NEW whole
  PROVE  ProgramArgs(Append(p, o), whole) = ProgramArgs(p, whole) \o ArgsOf(o, whole)
<1>1. Append(p, o) \in Seq(Option(W)) /\ ArgsMap(W, whole)[o] = ArgsOf(o, whole)
  BY AppendProperties DEF ArgsMap
<1>2. Spread(ArgsMap(W, whole), Append(p, o))
        = Spread(ArgsMap(W, whole), p) \o ArgsMap(W, whole)[o]
  BY ProgramArgsSpread, SpreadGrow
<1> QED BY <1>1, <1>2, ProgramArgsSpread

\* Program arguments are sequences of words.
LEMMA ProgramArgsType ==
  ASSUME NEW W, Flags \subseteq W, NEW p \in Seq(Option(W)), NEW whole
  PROVE  ProgramArgs(p, whole) \in Seq(Seq(W))
<1>1. Gives(ArgsMap(W, whole), Option(W), Seq(W))
  BY ProgramArgsSpread
<1>2. Spread(ArgsMap(W, whole), p) \in Seq(Seq(W))
  BY <1>1, SpreadType
<1> QED BY <1>2, ProgramArgsSpread

\* Options given in two parts are given one after the other.
LEMMA ProgramArgsConcat ==
  ASSUME NEW W, Flags \subseteq W, NEW p \in Seq(Option(W)), NEW q \in Seq(Option(W)), NEW whole
  PROVE  ProgramArgs(p \o q, whole) = ProgramArgs(p, whole) \o ProgramArgs(q, whole)
<1>1. p \o q \in Seq(Option(W))
  BY ConcatProperties
<1>2. Gives(ArgsMap(W, whole), Option(W), Seq(W))
  BY ProgramArgsSpread
<1>3. Spread(ArgsMap(W, whole), p \o q)
        = Spread(ArgsMap(W, whole), p) \o Spread(ArgsMap(W, whole), q)
  BY <1>2, SpreadConcat
<1> QED BY <1>1, <1>3, ProgramArgsSpread

\* Given flag and value apart, an option adds its flag and its value, if any.
LEMMA ProgramArgsMore ==
  ASSUME NEW W, Flags \subseteq W, NEW p \in Seq(Option(W)), NEW o \in Option(W)
  PROVE  /\ ProgramArgs(p, FALSE) \in Seq(Seq(W))
         /\ ProgramArgs(Append(p, o), FALSE) = More(ProgramArgs(p, FALSE), o)
<1> DEFINE T == ProgramArgs(p, FALSE)
<1>1. T \in Seq(Seq(W))
  BY ProgramArgsType
<1>2. ProgramArgs(Append(p, o), FALSE) = T \o ArgsOf(o, FALSE)
  BY ProgramArgsGrow
<1>3. o.flag \in W /\ o.value \in Seq(W) /\ <<o.flag>> \in Seq(W)
  <2>1. o.flag \in W /\ o.value \in Seq(W)
    BY OptionFacts
  <2> QED BY <2>1
<1> HIDE DEF T
<1>4. CASE o.value = <<>>
  <2>1. <<o.flag>> \o o.value = <<o.flag>>
    BY <1>3, <1>4, ConcatEmptySeq
  <2>2. T \o ArgsOf(o, FALSE) = Append(T, <<o.flag>>)
    BY <1>1, <1>3, <1>4, <2>1, ConcatOne DEF ArgsOf
  <2> QED BY <1>1, <1>2, <1>4, <2>2 DEF More, T
<1>5. CASE o.value # <<>>
  <2>1. T \o ArgsOf(o, FALSE) = Append(Append(T, <<o.flag>>), o.value)
    BY <1>1, <1>3, <1>5, ConcatTwo DEF ArgsOf
  <2> QED BY <1>1, <1>2, <1>5, <2>1 DEF More, T
<1> QED BY <1>4, <1>5
-----------------------------------------------------------------------------
(* The device, token by token.                                             *)

\* The last token does not wait for a value.
Closed(T) == Len(T) > 0 => T[Len(T)] \notin {<<f>> : f \in SkipFlags \cup {"--env"}}

\* Which tokens take the next one is decided option by option.
LEMMA TakesMore ==
  ASSUME NEW W, Flags \subseteq W, NEW T \in Seq(Seq(W)), NEW o \in Option(W), Closed(T)
  PROVE  /\ \A i \in 1..Len(T) : /\ TakesNext(More(T, o), i) <=> TakesNext(T, i)
                                 /\ IsEnv(More(T, o), i) <=> IsEnv(T, i)
         /\ ~TakesNext(More(T, o), Len(T)) /\ ~IsEnv(More(T, o), Len(T))
         /\ TakesNext(More(T, o), Len(T) + 1) <=> o.flag \in SkipFlags \cup {"--env"}
         /\ IsEnv(More(T, o), Len(T) + 1) <=> o.flag = "--env"
         /\ ~TakesNext(More(T, o), Len(T) + 2) /\ ~IsEnv(More(T, o), Len(T) + 2)
         /\ Closed(More(T, o))
<1> DEFINE U == More(T, o)
           n == Len(T)
           S == {<<f>> : f \in SkipFlags \cup {"--env"}}
<1>1. /\ n \in Nat /\ \A i \in 1..n : U[i] = T[i]
      /\ U[n + 1] = <<o.flag>>
      /\ o.value = <<>> => Len(U) = n + 1
      /\ o.value # <<>> => Len(U) = n + 2 /\ U[n + 2] = o.value
  BY MoreFacts
<1>2. /\ o.value = <<>> <=> o.flag = "--no-skip"
      /\ o.value # <<>> => Head(o.value) \notin Flags
  BY OptionFacts
<1>3. "--no-skip" \notin SkipFlags \cup {"--env"} /\ SkipFlags \cup {"--env"} \subseteq Flags
  BY DEF SkipFlags, Flags, ValueFlags
<1>4. \A f : <<f>> \in S <=> f \in SkipFlags \cup {"--env"}
  OBVIOUS
<1>5. \A f : Head(<<f>>) = f
  OBVIOUS
<1>6. <<"--env">> \in S
  OBVIOUS
<1>7. \A v : Head(v) \notin Flags => v \notin S
  <2>1. \A v \in S : Head(v) \in Flags
    BY <1>3, <1>5
  <2> QED BY <2>1
<1>8. \A i : /\ TakesNext(U, i) <=> i \in 1..(Len(U) - 1) /\ U[i] \in S
             /\ TakesNext(T, i) <=> i \in 1..(n - 1) /\ T[i] \in S
             /\ IsEnv(U, i) <=> i \in 1..(Len(U) - 1) /\ U[i] = <<"--env">>
             /\ IsEnv(T, i) <=> i \in 1..(n - 1) /\ T[i] = <<"--env">>
  BY DEF TakesNext, IsEnv
<1>9. n > 0 => T[n] \notin S
  BY DEF Closed
<1>10. Closed(U) <=> (Len(U) > 0 => U[Len(U)] \notin S)
  BY DEF Closed
<1>11. \A v : v \notin S => v # <<"--env">>
  BY <1>6
<1>12. n \in 1..n => T[n] \notin S /\ T[n] # <<"--env">>
  <2> HIDE DEF S, U, n
  <2>1. n \in 1..n => n > 0
    BY <1>1
  <2> QED BY <1>9, <1>11, <2>1
<1> HIDE DEF U, n, S
<1>13. Closed(U)
  <2>1. CASE o.value = <<>>
    BY <1>1, <1>2, <1>3, <1>4, <1>10, <2>1
  <2>2. CASE o.value # <<>>
    BY <1>1, <1>2, <1>7, <1>10, <2>2
  <2> QED BY <2>1, <2>2
<1>14. ASSUME NEW i \in 1..n
       PROVE  (TakesNext(U, i) <=> TakesNext(T, i)) /\ (IsEnv(U, i) <=> IsEnv(T, i))
  <2>1. U[i] = T[i] /\ i \in 1..(Len(U) - 1)
    BY <1>1
  <2>2. CASE i = n
    <3>1. T[i] \notin S /\ T[i] # <<"--env">>
      BY <1>12, <2>2
    <3> QED BY <1>8, <2>1, <3>1
  <2>3. CASE i # n
    <3>1. i \in 1..(n - 1)
      BY <1>1, <2>3
    <3> QED BY <1>8, <2>1, <3>1
  <2> QED BY <2>2, <2>3
<1>15. ~TakesNext(U, n) /\ ~IsEnv(U, n)
  <2>1. n \in 1..n => T[n] \notin S /\ T[n] # <<"--env">> /\ U[n] = T[n]
    BY <1>1, <1>12
  <2>2. n \notin 1..n => n \notin 1..(Len(U) - 1)
    BY <1>1
  <2> QED BY <1>8, <2>1, <2>2
<1>16. /\ TakesNext(U, n + 1) <=> o.flag \in SkipFlags \cup {"--env"}
       /\ IsEnv(U, n + 1) <=> o.flag = "--env"
  <2>1. CASE o.value = <<>>
    <3>1. n + 1 \notin 1..(Len(U) - 1)
      BY <1>1, <2>1
    <3> QED BY <1>2, <1>3, <1>8, <2>1, <3>1
  <2>2. CASE o.value # <<>>
    <3>1. n + 1 \in 1..(Len(U) - 1)
      BY <1>1, <2>2
    <3>2. <<o.flag>> = <<"--env">> <=> o.flag = "--env"
      OBVIOUS
    <3> QED BY <1>1, <1>4, <1>8, <3>1, <3>2
  <2> QED BY <2>1, <2>2
<1>17. ~TakesNext(U, n + 2) /\ ~IsEnv(U, n + 2)
  <2>1. n + 2 \notin 1..(Len(U) - 1)
    BY <1>1
  <2> QED BY <1>8, <2>1
<1> QED BY <1>13, <1>14, <1>15, <1>16, <1>17 DEF U, n

\* The same of the flags doctest reads with a value: an option begins with a
\* flag, so what stands before it takes nothing.
LEMMA HasValueMore ==
  ASSUME NEW W, Flags \subseteq W, NEW T \in Seq(Seq(W)), NEW o \in Option(W)
  PROVE  /\ \A i \in 1..Len(T) : HasValue(More(T, o), i) <=> HasValue(T, i)
         /\ ~HasValue(More(T, o), Len(T))
         /\ HasValue(More(T, o), Len(T) + 1) <=> o.value # <<>>
         /\ ~HasValue(More(T, o), Len(T) + 2)
<1> DEFINE U == More(T, o)
           n == Len(T)
<1>1. /\ n \in Nat /\ \A i \in 1..n : U[i] = T[i]
      /\ U[n + 1] = <<o.flag>>
      /\ o.value = <<>> => Len(U) = n + 1
      /\ o.value # <<>> => Len(U) = n + 2 /\ U[n + 2] = o.value
  BY MoreFacts
<1>2. o.flag \in Flags /\ (o.value # <<>> => Head(o.value) \notin Flags)
  BY OptionFacts
<1>3. \A i : /\ HasValue(U, i) <=> i \in 1..(Len(U) - 1) /\ Flag(U[i]) /\ ~Flag(U[i + 1])
             /\ HasValue(T, i) <=> i \in 1..(n - 1) /\ Flag(T[i]) /\ ~Flag(T[i + 1])
  BY DEF HasValue
<1>4. Flag(<<o.flag>>) /\ (o.value # <<>> => ~Flag(o.value))
  <2>1. Head(<<o.flag>>) = o.flag
    OBVIOUS
  <2> QED BY <1>2, <2>1 DEF Flag
<1> HIDE DEF U, n
<1>5. ~HasValue(U, n)
  BY <1>1, <1>3, <1>4
<1>6. ASSUME NEW i \in 1..n PROVE HasValue(U, i) <=> HasValue(T, i)
  <2>1. CASE i = n
    <3>1. i \notin 1..(n - 1)
      BY <1>1, <2>1
    <3> QED BY <1>3, <1>5, <2>1, <3>1
  <2>2. CASE i # n
    <3>1. i \in 1..(n - 1) /\ i \in 1..(Len(U) - 1) /\ i + 1 \in 1..n
      BY <1>1, <2>2
    <3>2. U[i] = T[i] /\ U[i + 1] = T[i + 1]
      BY <1>1, <3>1
    <3> QED BY <1>3, <3>1, <3>2
  <2> QED BY <2>1, <2>2
<1>7. HasValue(U, n + 1) <=> o.value # <<>>
  <2>1. CASE o.value = <<>>
    <3>1. n + 1 \notin 1..(Len(U) - 1)
      BY <1>1, <2>1
    <3> QED BY <1>3, <2>1, <3>1
  <2>2. CASE o.value # <<>>
    <3>1. n + 1 \in 1..(Len(U) - 1) /\ (n + 1) + 1 = n + 2
      BY <1>1, <2>2
    <3> QED BY <1>1, <1>3, <1>4, <2>2, <3>1
  <2> QED BY <2>1, <2>2
<1>8. ~HasValue(U, n + 2)
  <2>1. n + 2 \notin 1..(Len(U) - 1)
    BY <1>1
  <2> QED BY <1>3, <2>1
<1> QED BY <1>5, <1>6, <1>7, <1>8 DEF U, n

\* A list made from the tokens one by one, when an option comes to them.
Joined(x, y, T, o) ==
  FlattenSeq(y) = IF o.value = <<>> THEN FlattenSeq(x) \o y[Len(T) + 1]
                  ELSE (FlattenSeq(x) \o y[Len(T) + 1]) \o y[Len(T) + 2]

\* A list built token by token gains the pieces of the option's own tokens.
LEMMA PerToken ==
  ASSUME NEW W, Flags \subseteq W, NEW T \in Seq(Seq(W)), NEW o \in Option(W), NEW E,
         NEW x \in [1..Len(T) -> Seq(E)], NEW y \in [1..Len(More(T, o)) -> Seq(E)],
         \A i \in 1..Len(T) : y[i] = x[i]
  PROVE  Joined(x, y, T, o)
<1>1. /\ o.value = <<>> => Len(More(T, o)) = Len(T) + 1
      /\ o.value # <<>> => Len(More(T, o)) = Len(T) + 2
      /\ Len(T) \in Nat
  BY MoreFacts
<1>2. x \in Seq(Seq(E)) /\ Len(x) = Len(T)
  <2>1. x = [i \in 1..Len(T) |-> x[i]] /\ \A i \in 1..Len(T) : x[i] \in Seq(E)
    OBVIOUS
  <2> QED BY <1>1, <2>1, IsASeq
<1>3. DOMAIN y = 1..Len(More(T, o)) /\ y = [i \in DOMAIN y |-> y[i]]
  OBVIOUS
<1>4. \A i \in 1..Len(x) : y[i] = x[i]
  BY <1>2
<1>5. CASE o.value = <<>>
  <2>1. DOMAIN y = 1..(Len(x) + 1) /\ y[Len(x) + 1] \in Seq(E)
    BY <1>1, <1>2, <1>5
  <2>2. FlattenSeq(y) = FlattenSeq(x) \o y[Len(x) + 1]
    BY <1>2, <1>3, <1>4, <2>1, FlattenOne, Zenon
  <2> QED BY <1>2, <1>5, <2>2 DEF Joined
<1>6. CASE o.value # <<>>
  <2>1. /\ DOMAIN y = 1..(Len(x) + 2) /\ y[Len(x) + 1] \in Seq(E)
        /\ y[Len(x) + 2] \in Seq(E)
    BY <1>1, <1>2, <1>6
  <2>2. FlattenSeq(y) = (FlattenSeq(x) \o y[Len(x) + 1]) \o y[Len(x) + 2]
    BY <1>2, <1>3, <1>4, <2>1, FlattenTwo, Zenon
  <2> QED BY <1>2, <1>6, <2>2 DEF Joined
<1> QED BY <1>5, <1>6

\* What extract_etst_flags leaves for doctest, and the skip flags it applies,
\* of tokens without a malformed --env.
LeftAt(T, i) == IF TakesNext(T, i) \/ TakesNext(T, i - 1) THEN <<>> ELSE <<T[i]>>
LeftOf(T)    == FlattenSeq([i \in 1..Len(T) |-> LeftAt(T, i)])
FlagAt(T, i) ==
  IF TakesNext(T, i) /\ Head(T[i]) \in SkipFlags THEN <<<<Head(T[i]), T[i + 1]>>>> ELSE <<>>
FlagsOf(T)   == FlattenSeq([i \in 1..Len(T) |-> FlagAt(T, i)])

\* What is left for doctest are tokens.
LEMMA LeftOfType ==
  ASSUME NEW W, NEW T \in Seq(Seq(W))
  PROVE  /\ [i \in 1..Len(T) |-> LeftAt(T, i)] \in [1..Len(T) -> Seq(Seq(W))]
         /\ LeftOf(T) \in Seq(Seq(W))
<1> DEFINE x == [i \in 1..Len(T) |-> LeftAt(T, i)]
<1>1. Len(T) \in Nat /\ \A i \in 1..Len(T) : T[i] \in Seq(W)
  BY LenProperties, ElementOfSeq
<1>2. \A i \in 1..Len(T) : LeftAt(T, i) \in Seq(Seq(W))
  BY <1>1, EmptySeq DEF LeftAt
<1>3. x \in Seq(Seq(Seq(W)))
  BY <1>1, <1>2, IsASeq
<1>4. x \in [1..Len(T) -> Seq(Seq(W))]
  BY <1>2
<1> HIDE DEF x
<1>5. FlattenSeq(x) \in Seq(Seq(W))
  BY <1>3, FlattenType
<1> QED BY <1>4, <1>5 DEF x, LeftOf

\* The skip flags of tokens are pairs of a flag and a value.
LEMMA FlagsOfType ==
  ASSUME NEW W, NEW T \in Seq(Seq(W))
  PROVE  /\ [i \in 1..Len(T) |-> FlagAt(T, i)] \in [1..Len(T) -> Seq(SkipFlags \X Seq(W))]
         /\ FlagsOf(T) \in Seq(SkipFlags \X Seq(W))
<1> DEFINE E == SkipFlags \X Seq(W)
           x == [i \in 1..Len(T) |-> FlagAt(T, i)]
<1>1. Len(T) \in Nat /\ \A i \in 1..Len(T) : T[i] \in Seq(W)
  BY LenProperties, ElementOfSeq
<1>2. ASSUME NEW i \in 1..Len(T) PROVE FlagAt(T, i) \in Seq(E)
  <2>1. CASE TakesNext(T, i) /\ Head(T[i]) \in SkipFlags
    <3>1. T[i + 1] \in Seq(W)
      BY <1>1, <2>1 DEF TakesNext
    <3>2. <<Head(T[i]), T[i + 1]>> \in E
      BY <2>1, <3>1
    <3> HIDE DEF E
    <3> QED BY <2>1, <3>2 DEF FlagAt
  <2>2. CASE ~(TakesNext(T, i) /\ Head(T[i]) \in SkipFlags)
    BY <2>2, EmptySeq DEF FlagAt
  <2> QED BY <2>1, <2>2
<1> HIDE DEF E
<1>3. x \in Seq(Seq(E))
  BY <1>1, <1>2, IsASeq
<1>4. x \in [1..Len(T) -> Seq(E)]
  BY <1>2
<1> HIDE DEF x
<1>5. FlattenSeq(x) \in Seq(E)
  BY <1>3, FlattenType
<1> QED BY <1>4, <1>5 DEF x, E, FlagsOf

\* Skip flags and --env go, what else is given stays.
LEMMA LeftMore ==
  ASSUME NEW W, Flags \subseteq W, NEW T \in Seq(Seq(W)), NEW o \in Option(W), Closed(T)
  PROVE  LeftOf(More(T, o)) = IF o.flag \in SkipFlags \cup {"--env"} THEN LeftOf(T)
                              ELSE More(LeftOf(T), o)
<1> DEFINE U == More(T, o)
           n == Len(T)
           x == [i \in 1..Len(T) |-> LeftAt(T, i)]
           y == [i \in 1..Len(U) |-> LeftAt(U, i)]
<1>1. /\ n \in Nat /\ U \in Seq(Seq(W)) /\ \A i \in 1..n : U[i] = T[i]
      /\ U[n + 1] = <<o.flag>>
      /\ o.value = <<>> => Len(U) = n + 1
      /\ o.value # <<>> => Len(U) = n + 2 /\ U[n + 2] = o.value
  BY MoreFacts
<1>2. /\ \A i \in 1..n : TakesNext(U, i) <=> TakesNext(T, i)
      /\ ~TakesNext(U, n) /\ ~TakesNext(U, n + 2)
      /\ TakesNext(U, n + 1) <=> o.flag \in SkipFlags \cup {"--env"}
  BY TakesMore
<1>3. ~TakesNext(U, 0) /\ ~TakesNext(T, 0)
  BY DEF TakesNext
<1>4. /\ x \in [1..Len(T) -> Seq(Seq(W))] /\ y \in [1..Len(More(T, o)) -> Seq(Seq(W))]
      /\ LeftOf(T) \in Seq(Seq(W))
      /\ LeftOf(T) = FlattenSeq(x) /\ LeftOf(U) = FlattenSeq(y)
  BY <1>1, LeftOfType DEF LeftOf
<1> HIDE DEF U
<1>5. ASSUME NEW i \in 1..n PROVE LeftAt(U, i) = LeftAt(T, i)
  <2>1. i = 1 \/ i - 1 \in 1..n
    BY <1>1
  <2>2. TakesNext(U, i - 1) <=> TakesNext(T, i - 1)
    BY <1>2, <1>3, <2>1
  <2> QED BY <1>1, <1>2, <2>2 DEF LeftAt
<1>6. (n + 1) - 1 = n /\ (n + 2) - 1 = n + 1
  BY <1>1
<1>7. LeftAt(U, n + 1) = IF o.flag \in SkipFlags \cup {"--env"} THEN <<>> ELSE <<<<o.flag>>>>
  BY <1>1, <1>2, <1>6 DEF LeftAt
<1>8. o.value # <<>> =>
        LeftAt(U, n + 2) = IF o.flag \in SkipFlags \cup {"--env"} THEN <<>> ELSE <<o.value>>
  BY <1>1, <1>2, <1>6 DEF LeftAt
<1>9. /\ \A i \in 1..Len(T) : y[i] = x[i]
      /\ y[n + 1] = LeftAt(U, n + 1)
      /\ o.value # <<>> => y[n + 2] = LeftAt(U, n + 2)
  BY <1>1, <1>5
<1> HIDE DEF x, y
<1>10. Joined(x, y, T, o)
  <2>1. /\ x \in [1..Len(T) -> Seq(Seq(W))] /\ y \in [1..Len(More(T, o)) -> Seq(Seq(W))]
        /\ \A i \in 1..Len(T) : y[i] = x[i]
    BY <1>4, <1>9
  <2> QED BY <2>1, PerToken
<1> DEFINE R == LeftOf(T)
<1>11. LeftOf(U) = IF o.value = <<>> THEN R \o LeftAt(U, n + 1)
                   ELSE (R \o LeftAt(U, n + 1)) \o LeftAt(U, n + 2)
  BY <1>4, <1>9, <1>10 DEF Joined
<1>12. R \in Seq(Seq(W))
  BY <1>4
<1>13. <<o.flag>> \in Seq(W) /\ o.value \in Seq(W)
       /\ (o.value = <<>> => o.flag \notin SkipFlags \cup {"--env"})
  <2>1. o.flag \in W /\ o.value \in Seq(W)
    BY OptionFacts
  <2> QED BY <2>1, OptionFacts DEF SkipFlags
<1> HIDE DEF R, n
<1>14. CASE o.flag \in SkipFlags \cup {"--env"}
  <2>1. LeftOf(U) = (R \o <<>>) \o <<>>
    BY <1>7, <1>8, <1>11, <1>13, <1>14
  <2>2. R \o <<>> = R
    BY <1>12, ConcatEmptySeq
  <2> QED BY <1>14, <2>1, <2>2 DEF U, R
<1>15. CASE o.flag \notin SkipFlags \cup {"--env"}
  <2>1. R \o <<<<o.flag>>>> = Append(R, <<o.flag>>) /\ Append(R, <<o.flag>>) \in Seq(Seq(W))
    BY <1>12, <1>13, ConcatOne, AppendProperties
  <2>2. CASE o.value = <<>>
    BY <1>7, <1>11, <1>15, <2>1, <2>2 DEF More, U, R
  <2>3. CASE o.value # <<>>
    <3>1. LeftOf(U) = Append(R, <<o.flag>>) \o <<o.value>>
      BY <1>7, <1>8, <1>11, <1>15, <2>1, <2>3
    <3>2. Append(R, <<o.flag>>) \o <<o.value>> = Append(Append(R, <<o.flag>>), o.value)
      BY <1>13, <2>1, ConcatOne
    <3> QED BY <1>15, <2>3, <3>1, <3>2 DEF More, U, R
  <2> QED BY <2>2, <2>3
<1> QED BY <1>14, <1>15 DEF U

\* A skip flag joins those applied, behind them.
SkipOf(o) == IF o.flag \in SkipFlags THEN <<<<o.flag, o.value>>>> ELSE <<>>

\* The skip flags of an option are at most one pair.
LEMMA SkipOfType ==
  ASSUME NEW W, NEW o \in Option(W)
  PROVE  SkipOf(o) \in Seq(SkipFlags \X Seq(W))
<1> DEFINE E == SkipFlags \X Seq(W)
<1>1. CASE o.flag \in SkipFlags
  <2>1. <<o.flag, o.value>> \in E
    BY <1>1, OptionFacts
  <2> HIDE DEF E
  <2> QED BY <1>1, <2>1 DEF SkipOf, E
<1>2. CASE o.flag \notin SkipFlags
  BY <1>2, EmptySeq DEF SkipOf
<1> QED BY <1>1, <1>2

\* One option more adds its skip flag, if it is one.
LEMMA FlagsMore ==
  ASSUME NEW W, Flags \subseteq W, NEW T \in Seq(Seq(W)), NEW o \in Option(W), Closed(T)
  PROVE  FlagsOf(More(T, o)) = FlagsOf(T) \o SkipOf(o)
<1> DEFINE U == More(T, o)
           n == Len(T)
           E == SkipFlags \X Seq(W)
           x == [i \in 1..Len(T) |-> FlagAt(T, i)]
           y == [i \in 1..Len(U) |-> FlagAt(U, i)]
<1>1. /\ n \in Nat /\ U \in Seq(Seq(W)) /\ \A i \in 1..n : U[i] = T[i]
      /\ U[n + 1] = <<o.flag>>
      /\ o.value = <<>> => Len(U) = n + 1
      /\ o.value # <<>> => Len(U) = n + 2 /\ U[n + 2] = o.value
  BY MoreFacts
<1>2. /\ \A i \in 1..n : TakesNext(U, i) <=> TakesNext(T, i)
      /\ ~TakesNext(U, n + 2)
      /\ TakesNext(U, n + 1) <=> o.flag \in SkipFlags \cup {"--env"}
  BY TakesMore
<1>3. o.flag \in SkipFlags => o.value # <<>>
  BY OptionFacts DEF SkipFlags
<1>4. /\ x \in [1..Len(T) -> Seq(E)] /\ y \in [1..Len(More(T, o)) -> Seq(E)]
      /\ FlagsOf(T) \in Seq(E)
      /\ FlagsOf(T) = FlattenSeq(x) /\ FlagsOf(U) = FlattenSeq(y)
  BY <1>1, FlagsOfType DEF FlagsOf
<1> HIDE DEF U
<1>5. ASSUME NEW i \in 1..n PROVE FlagAt(U, i) = FlagAt(T, i)
  <2>1. TakesNext(T, i) => i + 1 \in 1..n
    BY <1>1 DEF TakesNext
  <2>2. TakesNext(T, i) => U[i + 1] = T[i + 1]
    BY <1>1, <2>1
  <2> QED BY <1>1, <1>2, <2>2 DEF FlagAt
<1>6. (n + 1) + 1 = n + 2 /\ Head(<<o.flag>>) = o.flag
  BY <1>1
<1>7. FlagAt(U, n + 1) = SkipOf(o)
  BY <1>1, <1>2, <1>3, <1>6 DEF FlagAt, SkipOf
<1>8. FlagAt(U, n + 2) = <<>>
  BY <1>2 DEF FlagAt
<1>9. /\ \A i \in 1..Len(T) : y[i] = x[i]
      /\ y[n + 1] = FlagAt(U, n + 1)
      /\ o.value # <<>> => y[n + 2] = FlagAt(U, n + 2)
  BY <1>1, <1>5
<1> HIDE DEF x, y, E
<1>10. Joined(x, y, T, o)
  <2>1. /\ x \in [1..Len(T) -> Seq(E)] /\ y \in [1..Len(More(T, o)) -> Seq(E)]
        /\ \A i \in 1..Len(T) : y[i] = x[i]
    BY <1>4, <1>9
  <2> QED BY <2>1, PerToken
<1>11. FlagsOf(U) = IF o.value = <<>> THEN FlagsOf(T) \o SkipOf(o)
                    ELSE (FlagsOf(T) \o SkipOf(o)) \o <<>>
  BY <1>4, <1>7, <1>8, <1>9, <1>10 DEF Joined
<1>12. FlagsOf(T) \o SkipOf(o) \in Seq(E)
  <2>1. SkipOf(o) \in Seq(E)
    BY SkipOfType DEF E
  <2> QED BY <1>4, <2>1, ConcatProperties
<1>13. (FlagsOf(T) \o SkipOf(o)) \o <<>> = FlagsOf(T) \o SkipOf(o)
  BY <1>12, ConcatEmptySeq
<1> QED BY <1>11, <1>13 DEF U

\* The last --env of key k gives its value.
EnvsAt(T, k)   == {i \in DOMAIN T : IsEnv(T, i) /\ KeyOf[Head(T[i + 1])] = k}
EnvAt(T, k, e) == IF EnvsAt(T, k) = {} THEN e ELSE T[Max(EnvsAt(T, k)) + 1]
SetsKey(o, k)  == o.flag = "--env" /\ KeyOf[Head(o.value)] = k

\* One option more sets its key, if it is an --env, over what set it before.
LEMMA EnvMore ==
  ASSUME NEW W, Flags \subseteq W, NEW T \in Seq(Seq(W)), NEW o \in Option(W), Closed(T),
         NEW k, NEW e
  PROVE  EnvAt(More(T, o), k, e) = IF SetsKey(o, k) THEN o.value ELSE EnvAt(T, k, e)
<1> DEFINE U == More(T, o)
           n == Len(T)
<1>1. /\ n \in Nat /\ U \in Seq(Seq(W)) /\ \A i \in 1..n : U[i] = T[i]
      /\ U[n + 1] = <<o.flag>>
      /\ o.value = <<>> => Len(U) = n + 1
      /\ o.value # <<>> => Len(U) = n + 2 /\ U[n + 2] = o.value
  BY MoreFacts
<1>2. /\ \A i \in 1..n : IsEnv(U, i) <=> IsEnv(T, i)
      /\ ~IsEnv(U, n + 2) /\ (IsEnv(U, n + 1) <=> o.flag = "--env")
  BY TakesMore
<1>3. o.flag = "--env" => o.value # <<>>
  BY OptionFacts
<1> HIDE DEF U
<1>4. DOMAIN T = 1..n /\ DOMAIN U = 1..Len(U)
  BY <1>1, LenProperties
<1>5. n + 1 \in 1..Len(U) /\ \A i \in 1..n : i \in 1..Len(U)
  <2>1. Len(U) = n + 1 \/ Len(U) = n + 2
    BY <1>1
  <2> QED BY <1>1, <2>1
<1>6. ASSUME NEW i \in 1..n, IsEnv(T, i) PROVE i + 1 \in 1..n /\ U[i + 1] = T[i + 1]
  BY <1>1, <1>6 DEF IsEnv
<1>7. \A i \in 1..n : i \in EnvsAt(U, k) <=> i \in EnvsAt(T, k)
  <2> TAKE i \in 1..n
  <2>1. i \in DOMAIN U /\ i \in DOMAIN T
    BY <1>4, <1>5, Zenon
  <2> QED BY <1>2, <1>6, <2>1 DEF EnvsAt
<1>8. n + 1 \in EnvsAt(U, k) <=> SetsKey(o, k)
  <2>1. n + 1 \in DOMAIN U
    BY <1>4, <1>5, Zenon
  <2>2. (n + 1) + 1 = n + 2
    BY <1>1
  <2> QED BY <1>1, <1>2, <1>3, <2>1, <2>2 DEF EnvsAt, SetsKey
<1>9. n + 2 \notin EnvsAt(U, k)
  BY <1>2 DEF EnvsAt
<1>10. EnvsAt(T, k) \subseteq 1..n /\ EnvsAt(U, k) \subseteq 1..Len(U)
  BY <1>4 DEF EnvsAt
<1>11. \A i \in 1..Len(U) : i \in 1..n \/ i = n + 1 \/ i = n + 2
  BY <1>1
<1>12. Len(U) \in Nat
  BY <1>1, LenProperties
<1> HIDE DEF n
<1>13. CASE SetsKey(o, k)
  <2>1. o.value # <<>> /\ n + 1 \in EnvsAt(U, k)
    BY <1>3, <1>8, <1>13 DEF SetsKey
  <2>2. Max(EnvsAt(U, k)) \in EnvsAt(U, k) /\ \A x \in EnvsAt(U, k) : Max(EnvsAt(U, k)) >= x
    BY <1>10, <1>12, <2>1, LastPosition
  <2>3. Max(EnvsAt(U, k)) >= n + 1
    BY <2>1, <2>2
  <2>4. Max(EnvsAt(U, k)) = n + 1
    <3>1. Max(EnvsAt(U, k)) \in 1..n => ~(Max(EnvsAt(U, k)) >= n + 1)
      BY <1>1
    <3> QED BY <1>9, <1>10, <1>11, <2>2, <2>3, <3>1
  <2>5. (n + 1) + 1 = n + 2
    BY <1>1
  <2> QED BY <1>1, <1>13, <2>1, <2>4, <2>5 DEF EnvAt, U
<1>14. CASE ~SetsKey(o, k)
  <2>1. EnvsAt(U, k) = EnvsAt(T, k)
    BY <1>7, <1>8, <1>9, <1>10, <1>11, <1>14
  <2>2. CASE EnvsAt(T, k) = {}
    BY <1>14, <2>1, <2>2 DEF EnvAt, U
  <2>3. CASE EnvsAt(T, k) # {}
    <3>1. Max(EnvsAt(T, k)) \in EnvsAt(T, k)
      BY <1>1, <1>10, <2>3, LastPosition
    <3>2. U[Max(EnvsAt(T, k)) + 1] = T[Max(EnvsAt(T, k)) + 1]
      BY <1>6, <1>10, <3>1 DEF EnvsAt
    <3> QED BY <1>14, <2>1, <2>3, <3>2 DEF EnvAt, U
  <2> QED BY <2>2, <2>3
<1> QED BY <1>13, <1>14

\* The values of a filter add up.
Gained(o, f) == IF o.flag = f /\ o.value # <<>> THEN {o.value} ELSE {}

\* One option more adds its value to the patterns of its flag.
LEMMA PatternsMore ==
  ASSUME NEW W, Flags \subseteq W, NEW T \in Seq(Seq(W)), NEW o \in Option(W), NEW f
  PROVE  Patterns(More(T, o), f) = Patterns(T, f) \cup Gained(o, f)
<1> DEFINE U == More(T, o)
           n == Len(T)
           at(t) == {j \in DOMAIN t : HasValue(t, j) /\ t[j] = <<f>>}
<1>1. /\ n \in Nat /\ U \in Seq(Seq(W)) /\ \A i \in 1..n : U[i] = T[i]
      /\ U[n + 1] = <<o.flag>>
      /\ o.value = <<>> => Len(U) = n + 1
      /\ o.value # <<>> => Len(U) = n + 2 /\ U[n + 2] = o.value
  BY MoreFacts
<1>2. /\ \A i \in 1..n : HasValue(U, i) <=> HasValue(T, i)
      /\ (HasValue(U, n + 1) <=> o.value # <<>>) /\ ~HasValue(U, n + 2)
  BY HasValueMore
<1>3. /\ Patterns(U, f) = {U[i + 1] : i \in at(U)}
      /\ Patterns(T, f) = {T[i + 1] : i \in at(T)}
  BY DEF Patterns
<1> HIDE DEF U
<1>4. DOMAIN T = 1..n /\ DOMAIN U = 1..Len(U)
  BY <1>1, LenProperties
<1>5. n + 1 \in 1..Len(U) /\ \A i \in 1..n : i \in 1..Len(U)
  <2>1. Len(U) = n + 1 \/ Len(U) = n + 2
    BY <1>1
  <2> QED BY <1>1, <2>1
<1>6. \A i \in 1..Len(U) : i \in 1..n \/ i = n + 1 \/ i = n + 2
  BY <1>1
<1>7. ASSUME NEW i \in 1..n PROVE i \in at(U) <=> i \in at(T)
  BY <1>1, <1>2, <1>4, <1>5, Zenon
<1>8. n + 1 \in at(U) <=> o.flag = f /\ o.value # <<>>
  <2>1. U[n + 1] = <<f>> <=> o.flag = f
    BY <1>1
  <2> QED BY <1>2, <1>4, <1>5, <2>1, Zenon
<1>9. n + 2 \notin at(U)
  BY <1>2
<1>10. \A i \in at(U) : i \in 1..Len(U)
  BY <1>4, Zenon
<1>11. \A i \in at(T) : i \in 1..n /\ HasValue(T, i)
  BY <1>4, Zenon
<1> HIDE DEF at
<1>12. \A i \in at(T) : i + 1 \in 1..n /\ U[i + 1] = T[i + 1] /\ i \in at(U)
  <2> TAKE i \in at(T)
  <2>1. i \in 1..n /\ i \in 1..(n - 1)
    BY <1>11 DEF HasValue
  <2>2. i + 1 \in 1..n
    <3>1. \A m \in Nat : \A j \in 1..(m - 1) : j + 1 \in 1..m
      OBVIOUS
    <3> HIDE DEF n
    <3> QED BY <1>1, <2>1, <3>1
  <2> QED BY <1>1, <1>7, <2>1, <2>2
<1>13. \A i \in at(U) : i \in at(T) \/ i = n + 1
  BY <1>6, <1>7, <1>9, <1>10
<1>14. (n + 1) + 1 = n + 2
  BY <1>1
<1> HIDE DEF n
<1>15. \A v \in Patterns(U, f) :
         v \in Patterns(T, f) \/ (o.flag = f /\ o.value # <<>> /\ v = o.value)
  <2> TAKE v \in Patterns(U, f)
  <2>1. PICK i \in at(U) : v = U[i + 1]
    BY <1>3
  <2>2. CASE i \in at(T)
    BY <1>3, <1>12, <2>1, <2>2
  <2>3. CASE i = n + 1
    BY <1>1, <1>8, <1>14, <2>1, <2>3
  <2> QED BY <1>13, <2>1, <2>2, <2>3
<1>16. \A v \in Patterns(T, f) : v \in Patterns(U, f)
  BY <1>3, <1>12
<1>17. o.flag = f /\ o.value # <<>> => o.value \in Patterns(U, f)
  BY <1>1, <1>3, <1>8, <1>14
<1> QED BY <1>15, <1>16, <1>17 DEF U, Gained

NoSkipIn(T) == \E i \in DOMAIN T : T[i] = <<"--no-skip">> /\ ~HasValue(T, i)

\* One option more is a --no-skip, or it does not matter to it.
LEMMA NoSkipMore ==
  ASSUME NEW W, Flags \subseteq W, NEW T \in Seq(Seq(W)), NEW o \in Option(W)
  PROVE  NoSkipIn(More(T, o)) <=> NoSkipIn(T) \/ o.flag = "--no-skip"
<1> DEFINE U == More(T, o)
           n == Len(T)
<1>1. /\ n \in Nat /\ U \in Seq(Seq(W)) /\ \A i \in 1..n : U[i] = T[i]
      /\ U[n + 1] = <<o.flag>>
      /\ o.value = <<>> => Len(U) = n + 1
      /\ o.value # <<>> => Len(U) = n + 2 /\ U[n + 2] = o.value
  BY MoreFacts
<1>2. /\ \A i \in 1..n : HasValue(U, i) <=> HasValue(T, i)
      /\ HasValue(U, n + 1) <=> o.value # <<>>
  BY HasValueMore
<1>3. /\ o.value = <<>> <=> o.flag = "--no-skip"
      /\ o.value # <<>> => Head(o.value) \notin Flags
  BY OptionFacts
<1> HIDE DEF U
<1>4. DOMAIN T = 1..n /\ DOMAIN U = 1..Len(U)
  BY <1>1, LenProperties
<1>5. n + 1 \in 1..Len(U) /\ \A i \in 1..n : i \in 1..Len(U)
  <2>1. Len(U) = n + 1 \/ Len(U) = n + 2
    BY <1>1
  <2> QED BY <1>1, <2>1
<1>6. \A i \in 1..Len(U) : i \in 1..n \/ i = n + 1 \/ (i = n + 2 /\ o.value # <<>>)
  BY <1>1
<1>7. o.value # <<>> => o.value # <<"--no-skip">>
  <2>1. Head(<<"--no-skip">>) \in Flags
    BY DEF Flags
  <2> QED BY <1>3, <2>1
<1>8. \A f : <<f>> = <<"--no-skip">> <=> f = "--no-skip"
  OBVIOUS
<1> HIDE DEF n
<1>9. ASSUME NoSkipIn(U) PROVE NoSkipIn(T) \/ o.flag = "--no-skip"
  <2>1. PICK i \in 1..Len(U) : U[i] = <<"--no-skip">> /\ ~HasValue(U, i)
    BY <1>4, <1>9 DEF NoSkipIn
  <2>2. CASE i \in 1..n
    BY <1>1, <1>2, <1>4, <2>1, <2>2 DEF NoSkipIn
  <2>3. CASE i = n + 1
    BY <1>1, <1>8, <2>1, <2>3
  <2>4. CASE i = n + 2 /\ o.value # <<>>
    BY <1>1, <1>7, <2>1, <2>4
  <2> QED BY <1>6, <2>1, <2>2, <2>3, <2>4
<1>10. ASSUME NoSkipIn(T) PROVE NoSkipIn(U)
  BY <1>1, <1>2, <1>4, <1>5, <1>10 DEF NoSkipIn
<1>11. ASSUME o.flag = "--no-skip" PROVE NoSkipIn(U)
  BY <1>1, <1>2, <1>3, <1>4, <1>5, <1>11 DEF NoSkipIn
<1> QED BY <1>9, <1>10, <1>11 DEF U

\* No --env is malformed, and a flag comes first.
LEMMA SoundMore ==
  ASSUME NEW W, Flags \subseteq W, NEW T \in Seq(Seq(W)), NEW o \in Option(W), Closed(T),
         Malformed(T) = {}, T # <<>> => Flag(T[1])
  PROVE  Malformed(More(T, o)) = {} /\ Flag(More(T, o)[1])
<1> DEFINE U == More(T, o)
           n == Len(T)
<1>1. /\ n \in Nat /\ U \in Seq(Seq(W)) /\ \A i \in 1..n : U[i] = T[i]
      /\ U[n + 1] = <<o.flag>>
      /\ o.value = <<>> => Len(U) = n + 1
      /\ o.value # <<>> => Len(U) = n + 2 /\ U[n + 2] = o.value
  BY MoreFacts
<1>2. /\ \A i \in 1..n : IsEnv(U, i) <=> IsEnv(T, i)
      /\ ~IsEnv(U, n + 2) /\ (IsEnv(U, n + 1) <=> o.flag = "--env")
  BY TakesMore
<1>3. o.flag = "--env" => o.value # <<>> /\ Head(o.value) \in DOMAIN KeyOf
  BY OptionFacts
<1> HIDE DEF U
<1>4. DOMAIN T = 1..n /\ DOMAIN U = 1..Len(U)
  BY <1>1, LenProperties
<1>5. \A i \in 1..Len(U) : i \in 1..n \/ i = n + 1 \/ i = n + 2
  BY <1>1
<1>6. ASSUME NEW i \in 1..n, IsEnv(T, i)
      PROVE  i \in DOMAIN T /\ U[i + 1] = T[i + 1]
  <2>1. i + 1 \in 1..n
    BY <1>1, <1>6 DEF IsEnv
  <2> QED BY <1>1, <1>4, <2>1
<1>7. (n + 1) + 1 = n + 2
  BY <1>1
<1>8. Flag(U[1])
  <2>1. CASE T = <<>>
    <3>1. n = 0
      BY <2>1, EmptySeq
    <3>2. U[1] = <<o.flag>> /\ Head(<<o.flag>>) = o.flag
      BY <1>1, <3>1
    <3> QED BY <3>2, OptionFacts DEF Flag
  <2>2. CASE T # <<>>
    <3>1. n # 0
      BY <2>2, EmptySeq
    <3>2. U[1] = T[1]
      BY <1>1, <3>1
    <3> QED BY <2>2, <3>2
  <2> QED BY <2>1, <2>2
<1> HIDE DEF n
<1>9. ASSUME NEW i \in Malformed(U) PROVE FALSE
  <2>1. i \in 1..Len(U) /\ IsEnv(U, i) /\ Head(U[i + 1]) \notin DOMAIN KeyOf
    BY <1>4 DEF Malformed
  <2>2. CASE i \in 1..n
    <3>1. i \in Malformed(T)
      BY <1>2, <1>6, <2>1, <2>2 DEF Malformed
    <3> QED BY <3>1
  <2>3. CASE i = n + 1
    BY <1>1, <1>2, <1>3, <1>7, <2>1, <2>3
  <2>4. CASE i = n + 2
    BY <1>2, <2>1, <2>4
  <2> QED BY <1>5, <2>1, <2>2, <2>3, <2>4
<1> QED BY <1>8, <1>9 DEF U
-----------------------------------------------------------------------------
(* What a list of options stands for.                                      *)

ValuesOf(p, f) == {p[i].value : i \in {j \in DOMAIN p : p[j].flag = f}}
SkipsOf(p)     == FlattenSeq([i \in 1..Len(p) |-> SkipOf(p[i])])
SetsOf(p, k)   == {i \in DOMAIN p : p[i].flag = "--env" /\ KeyOf[Head(p[i].value)] = k}
EnvOf(p, k, e) == IF SetsOf(p, k) = {} THEN e ELSE p[Max(SetsOf(p, k))].value

\* No options ask for nothing.
LEMMA NoOptions ==
  /\ \A f : ValuesOf(<<>>, f) = {}
  /\ SkipsOf(<<>>) = <<>>
  /\ \A k, e : EnvOf(<<>>, k, e) = e
<1>1. DOMAIN <<>> = {}
  OBVIOUS
<1>2. [i \in 1..Len(<<>>) |-> SkipOf(<<>>[i])] = <<>>
  BY EmptySeq
<1> QED BY <1>1, <1>2, FlattenEmpty DEF ValuesOf, SkipsOf, SetsOf, EnvOf

SkipMap(W) == [o \in Option(W) |-> SkipOf(o)]

\* The skip flags of options are listed option by option.
LEMMA SkipsSpread ==
  ASSUME NEW W
  PROVE  /\ Gives(SkipMap(W), Option(W), SkipFlags \X Seq(W))
         /\ \A p \in Seq(Option(W)) : SkipsOf(p) = Spread(SkipMap(W), p)
<1>1. \A o \in Option(W) : SkipOf(o) \in Seq(SkipFlags \X Seq(W))
  BY SkipOfType
<1>2. ASSUME NEW p \in Seq(Option(W)) PROVE SkipsOf(p) = Spread(SkipMap(W), p)
  <2>1. \A i \in 1..Len(p) : p[i] \in Option(W)
    BY ElementOfSeq
  <2>2. [i \in 1..Len(p) |-> SkipOf(p[i])] = [i \in 1..Len(p) |-> SkipMap(W)[p[i]]]
    BY <2>1 DEF SkipMap
  <2> QED BY <2>2 DEF SkipsOf, Spread
<1> QED BY <1>1, <1>2 DEF SkipMap, Gives

\* One option more, by itself.
LEMMA SkipsGrow ==
  ASSUME NEW W, NEW p \in Seq(Option(W)), NEW o \in Option(W)
  PROVE  SkipsOf(Append(p, o)) = SkipsOf(p) \o SkipOf(o)
<1>1. Append(p, o) \in Seq(Option(W)) /\ SkipMap(W)[o] = SkipOf(o)
  BY AppendProperties DEF SkipMap
<1>2. Spread(SkipMap(W), Append(p, o)) = Spread(SkipMap(W), p) \o SkipMap(W)[o]
  <2>1. Gives(SkipMap(W), Option(W), SkipFlags \X Seq(W))
    BY SkipsSpread
  <2> QED BY <2>1, SpreadGrow
<1> QED BY <1>1, <1>2, SkipsSpread

\* The skip flags of options in two parts are listed one after the other.
LEMMA SkipsConcat ==
  ASSUME NEW W, NEW p \in Seq(Option(W)), NEW q \in Seq(Option(W))
  PROVE  SkipsOf(p \o q) = SkipsOf(p) \o SkipsOf(q) /\ SkipsOf(p) \in Seq(SkipFlags \X Seq(W))
<1>1. p \o q \in Seq(Option(W))
  BY ConcatProperties
<1>2. Gives(SkipMap(W), Option(W), SkipFlags \X Seq(W))
  BY SkipsSpread
<1>3. Spread(SkipMap(W), p \o q) = Spread(SkipMap(W), p) \o Spread(SkipMap(W), q)
  BY <1>2, SpreadConcat
<1>4. Spread(SkipMap(W), p) \in Seq(SkipFlags \X Seq(W))
  BY <1>2, SpreadType
<1> QED BY <1>1, <1>3, <1>4, SkipsSpread

\* One option more adds its value to those of its flag.
LEMMA ValuesGrow ==
  ASSUME NEW S, NEW p \in Seq(S), NEW o \in S, NEW f
  PROVE  ValuesOf(Append(p, o), f) = ValuesOf(p, f) \cup (IF o.flag = f THEN {o.value} ELSE {})
<1> DEFINE q == Append(p, o)
<1>1. /\ Len(q) = Len(p) + 1 /\ Len(p) \in Nat /\ q[Len(p) + 1] = o /\ q \in Seq(S)
      /\ \A i \in 1..Len(p) : q[i] = p[i]
  BY AppendProperties, LenProperties
<1> HIDE DEF q
<1>2. DOMAIN q = 1..(Len(p) + 1) /\ DOMAIN p = 1..Len(p)
  BY <1>1, LenProperties
<1>3. \A i : i \in DOMAIN q <=> i \in DOMAIN p \/ i = Len(p) + 1
  BY <1>1, <1>2
<1>4. \A i \in DOMAIN p : q[i] = p[i]
  BY <1>1, <1>2
<1>5. \A v : v \in ValuesOf(q, f) <=> \E i \in DOMAIN q : q[i].flag = f /\ v = q[i].value
  BY DEF ValuesOf
<1>6. \A v : v \in ValuesOf(p, f) <=> \E i \in DOMAIN p : p[i].flag = f /\ v = p[i].value
  BY DEF ValuesOf
<1>7. \A v : v \in ValuesOf(q, f) <=> v \in ValuesOf(p, f) \/ (o.flag = f /\ v = o.value)
  BY <1>1, <1>3, <1>4, <1>5, <1>6
<1> QED BY <1>7 DEF q

\* One option more sets its key, if it is an --env.
LEMMA EnvGrow ==
  ASSUME NEW S, NEW p \in Seq(S), NEW o \in S, NEW k, NEW e
  PROVE  EnvOf(Append(p, o), k, e) = IF SetsKey(o, k) THEN o.value ELSE EnvOf(p, k, e)
<1> DEFINE q == Append(p, o)
           n == Len(p)
<1>1. /\ Len(q) = n + 1 /\ n \in Nat /\ q[n + 1] = o /\ q \in Seq(S)
      /\ \A i \in 1..n : q[i] = p[i]
  BY AppendProperties, LenProperties
<1> HIDE DEF q
<1>2. DOMAIN q = 1..(n + 1) /\ DOMAIN p = 1..n
  BY <1>1, LenProperties
<1>3. \A i \in 1..(n + 1) : i \in 1..n \/ i = n + 1
  BY <1>1
<1>4. n + 1 \in 1..(n + 1) /\ \A i \in 1..n : i \in 1..(n + 1)
  BY <1>1
<1>5. SetsOf(p, k) \subseteq 1..n /\ SetsOf(q, k) \subseteq 1..(n + 1)
  BY <1>2 DEF SetsOf
<1>6. \A i \in 1..n : i \in SetsOf(q, k) <=> i \in SetsOf(p, k)
  <2> TAKE i \in 1..n
  <2>1. i \in DOMAIN q /\ i \in DOMAIN p /\ q[i] = p[i]
    BY <1>1, <1>2, <1>4, Zenon
  <2> QED BY <2>1 DEF SetsOf
<1>7. n + 1 \in SetsOf(q, k) <=> SetsKey(o, k)
  <2>1. n + 1 \in DOMAIN q
    BY <1>2, <1>4, Zenon
  <2> QED BY <1>1, <2>1 DEF SetsOf, SetsKey
<1> HIDE DEF n
<1>8. CASE SetsKey(o, k)
  <2>1. n + 1 \in SetsOf(q, k)
    BY <1>7, <1>8
  <2>2. n + 1 \in Nat
    BY <1>1
  <2>3. Max(SetsOf(q, k)) \in SetsOf(q, k) /\ \A x \in SetsOf(q, k) : Max(SetsOf(q, k)) >= x
    BY <1>5, <2>1, <2>2, LastPosition
  <2>4. Max(SetsOf(q, k)) >= n + 1
    BY <2>1, <2>3
  <2>5. Max(SetsOf(q, k)) \in 1..(n + 1)
    BY <1>5, <2>3
  <2>6. Max(SetsOf(q, k)) = n + 1
    BY <1>1, <2>4, <2>5
  <2> QED BY <1>1, <1>8, <2>1, <2>6 DEF EnvOf, q
<1>9. CASE ~SetsKey(o, k)
  <2>1. SetsOf(q, k) = SetsOf(p, k)
    BY <1>3, <1>5, <1>6, <1>7, <1>9
  <2>2. CASE SetsOf(p, k) = {}
    BY <1>9, <2>1, <2>2 DEF EnvOf, q
  <2>3. CASE SetsOf(p, k) # {}
    <3>1. Max(SetsOf(p, k)) \in SetsOf(p, k)
      BY <1>1, <1>5, <2>3, LastPosition
    <3>2. q[Max(SetsOf(p, k))] = p[Max(SetsOf(p, k))]
      BY <1>1, <1>5, <3>1
    <3> QED BY <1>9, <2>1, <2>3, <3>2 DEF EnvOf, q
  <2> QED BY <2>2, <2>3
<1> QED BY <1>8, <1>9

\* The device takes the tokens T for the options p.
ReadAs(T, p) ==
  /\ Closed(T) /\ Malformed(T) = {} /\ (T # <<>> => Flag(T[1]))
  /\ FlagsOf(T) = SkipsOf(p)
  /\ \A k, e : EnvAt(T, k, e) = EnvOf(p, k, e)
  /\ \A f \in {"--tc", "--tce"} : Patterns(LeftOf(T), f) = ValuesOf(p, f)
  /\ NoSkipIn(LeftOf(T)) <=> ValuesOf(p, "--no-skip") # {}

\* No tokens are read as no options.
LEMMA ReadNothing == ReadAs(<<>>, <<>>)
<1>1. Len(<<>>) = 0 /\ DOMAIN <<>> = {}
  BY EmptySeq
<1>2. FlagsOf(<<>>) = <<>> /\ LeftOf(<<>>) = <<>>
  <2>1. [i \in 1..Len(<<>>) |-> FlagAt(<<>>, i)] = <<>>
    BY <1>1
  <2>2. [i \in 1..Len(<<>>) |-> LeftAt(<<>>, i)] = <<>>
    BY <1>1
  <2> QED BY <2>1, <2>2, FlattenEmpty DEF FlagsOf, LeftOf
<1>3. Closed(<<>>) /\ Malformed(<<>>) = {}
  BY <1>1 DEF Closed, Malformed
<1>4. \A k, e : EnvAt(<<>>, k, e) = EnvOf(<<>>, k, e)
  BY <1>1, NoOptions DEF EnvAt, EnvsAt
<1>5. \A f : Patterns(<<>>, f) = {}
  BY <1>1 DEF Patterns
<1>6. ~NoSkipIn(<<>>)
  BY <1>1 DEF NoSkipIn
<1> QED BY <1>2, <1>3, <1>4, <1>5, <1>6, NoOptions DEF ReadAs

\* Tokens that are read as options are, with one option more, read as those.
LEMMA ReadMore ==
  ASSUME NEW W, Flags \subseteq W, NEW T \in Seq(Seq(W)), NEW p \in Seq(Option(W)),
         NEW o \in Option(W), ReadAs(T, p)
  PROVE  ReadAs(More(T, o), Append(p, o))
<1> DEFINE U == More(T, o)
           q == Append(p, o)
           R == LeftOf(T)
<1>1. Closed(T)
  BY DEF ReadAs
<1>2. Closed(U)
  BY <1>1, TakesMore
<1>3. Malformed(U) = {} /\ Flag(U[1])
  <2>1. Malformed(T) = {} /\ (T # <<>> => Flag(T[1]))
    BY DEF ReadAs
  <2> QED BY <1>1, <2>1, SoundMore
<1>4. FlagsOf(U) = SkipsOf(q)
  <2>1. FlagsOf(U) = FlagsOf(T) \o SkipOf(o) /\ SkipsOf(q) = SkipsOf(p) \o SkipOf(o)
    BY <1>1, FlagsMore, SkipsGrow
  <2> QED BY <2>1 DEF ReadAs
<1>5. \A k, e : EnvAt(U, k, e) = EnvOf(q, k, e)
  <2> TAKE k, e
  <2>1. EnvAt(U, k, e) = IF SetsKey(o, k) THEN o.value ELSE EnvAt(T, k, e)
    BY <1>1, EnvMore
  <2>2. EnvOf(q, k, e) = IF SetsKey(o, k) THEN o.value ELSE EnvOf(p, k, e)
    BY EnvGrow
  <2> QED BY <2>1, <2>2 DEF ReadAs
<1>6. R \in Seq(Seq(W)) /\ R = LeftOf(T)
  BY LeftOfType
<1>7. LeftOf(U) = IF o.flag \in SkipFlags \cup {"--env"} THEN R ELSE More(R, o)
  BY <1>1, LeftMore
<1>8. \A f : ValuesOf(q, f) = ValuesOf(p, f) \cup (IF o.flag = f THEN {o.value} ELSE {})
  BY ValuesGrow
<1> HIDE DEF U, q, R
<1>9. ASSUME NEW f \in {"--tc", "--tce"} PROVE Patterns(LeftOf(U), f) = ValuesOf(q, f)
  <2>1. Patterns(R, f) = ValuesOf(p, f)
    BY <1>6 DEF ReadAs
  <2>2. o.flag = f => o.flag \notin SkipFlags \cup {"--env"} /\ o.value # <<>>
    BY OptionFacts DEF SkipFlags
  <2>3. CASE o.flag \in SkipFlags \cup {"--env"}
    BY <1>7, <1>8, <2>1, <2>2, <2>3
  <2>4. CASE o.flag \notin SkipFlags \cup {"--env"}
    <3>1. Patterns(More(R, o), f) = Patterns(R, f) \cup Gained(o, f)
      BY <1>6, PatternsMore
    <3> QED BY <1>7, <1>8, <2>1, <2>2, <2>4, <3>1 DEF Gained
  <2> QED BY <2>3, <2>4
<1>10. NoSkipIn(LeftOf(U)) <=> ValuesOf(q, "--no-skip") # {}
  <2>1. NoSkipIn(R) <=> ValuesOf(p, "--no-skip") # {}
    BY <1>6 DEF ReadAs
  <2>2. o.flag = "--no-skip" => o.flag \notin SkipFlags \cup {"--env"}
    BY DEF SkipFlags
  <2>3. ValuesOf(q, "--no-skip") # {} <=> ValuesOf(p, "--no-skip") # {} \/ o.flag = "--no-skip"
    BY <1>8
  <2>4. CASE o.flag \in SkipFlags \cup {"--env"}
    BY <1>7, <2>1, <2>2, <2>3, <2>4
  <2>5. CASE o.flag \notin SkipFlags \cup {"--env"}
    <3>1. NoSkipIn(More(R, o)) <=> NoSkipIn(R) \/ o.flag = "--no-skip"
      BY <1>6, NoSkipMore
    <3> QED BY <1>7, <2>1, <2>3, <2>5, <3>1
  <2> QED BY <2>4, <2>5
<1> QED BY <1>2, <1>3, <1>4, <1>5, <1>9, <1>10 DEF ReadAs, U, q

\* What is built from a list of options, flag and value apart, is read as it.
LEMMA OptionsRead ==
  ASSUME NEW W, Flags \subseteq W
  PROVE  \A p \in Seq(Option(W)) :
           ProgramArgs(p, FALSE) \in Seq(Seq(W)) /\ ReadAs(ProgramArgs(p, FALSE), p)
<1> DEFINE P == {p \in Seq(Option(W)) : ReadAs(ProgramArgs(p, FALSE), p)}
<1>1. <<>> \in P
  BY EmptySeq, ProgramArgsEmpty, ReadNothing
<1>2. ASSUME NEW p \in Seq(Option(W)), NEW o \in Option(W), p \in P
      PROVE  Append(p, o) \in P
  <2>1. /\ ProgramArgs(p, FALSE) \in Seq(Seq(W))
        /\ ProgramArgs(Append(p, o), FALSE) = More(ProgramArgs(p, FALSE), o)
    BY ProgramArgsMore
  <2>2. ReadAs(ProgramArgs(p, FALSE), p)
    BY <1>2
  <2>3. ReadAs(More(ProgramArgs(p, FALSE), o), Append(p, o))
    BY <2>1, <2>2, ReadMore
  <2>4. Append(p, o) \in Seq(Option(W))
    BY AppendProperties
  <2> QED BY <2>1, <2>3, <2>4
<1> HIDE DEF P
<1>3. \A p \in Seq(Option(W)) : p \in P
  BY <1>1, <1>2, EverySeq
<1>4. \A p \in Seq(Option(W)) : ReadAs(ProgramArgs(p, FALSE), p)
  BY <1>3 DEF P
<1>5. \A p \in Seq(Option(W)) : ProgramArgs(p, FALSE) \in Seq(Seq(W))
  BY ProgramArgsType
<1> QED BY <1>4, <1>5

\* The settings options stand for, with environment e behind them.
Meant(p, e) ==
  [tc     |-> ValuesOf(p, "--tc"),
   tce    |-> ValuesOf(p, "--tce"),
   flags  |-> SkipsOf(p),
   noskip |-> ValuesOf(p, "--no-skip") # {},
   env    |-> [k \in DOMAIN e |-> EnvOf(p, k, e[k])]]

\* The settings of tokens without a malformed --env, the first one a flag.
Read(T, keys) ==
  [tc     |-> Patterns(LeftOf(T), "--tc"),
   tce    |-> Patterns(LeftOf(T), "--tce"),
   flags  |-> FlagsOf(T),
   noskip |-> NoSkipIn(LeftOf(T)),
   env    |-> [k \in keys |-> EnvAt(T, k, <<>>)]]

\* The last value of a filter that is given no other.
LEMMA LastOfOne ==
  ASSUME NEW W, NEW T \in Seq(Seq(W)), NEW f, \A v, w \in Patterns(T, f) : v = w
  PROVE  LastPattern(T, f) = Patterns(T, f)
<1> DEFINE at == {i \in DOMAIN T : HasValue(T, i) /\ T[i] = <<f>>}
<1>1. Patterns(T, f) = {T[i + 1] : i \in at}
  BY DEF Patterns
<1>2. LastPattern(T, f) = IF at = {} THEN {} ELSE {T[Max(at) + 1]}
  BY DEF LastPattern
<1>3. Len(T) \in Nat /\ at \in SUBSET (1..Len(T))
  BY LenProperties
<1> HIDE DEF at
<1>4. CASE at = {}
  BY <1>1, <1>2, <1>4
<1>5. CASE at # {}
  <2>1. Max(at) \in at
    BY <1>3, <1>5, LastPosition
  <2>2. T[Max(at) + 1] \in Patterns(T, f)
    BY <1>1, <2>1
  <2>3. Patterns(T, f) = {T[Max(at) + 1]}
    BY <2>2
  <2> QED BY <1>2, <1>5, <2>3
<1> QED BY <1>4, <1>5

\* doctest goes by the filters that were captured.
Followed(text, s) ==
  Once(s) => ApplyCommandLine(text).tc = s.tc /\ ApplyCommandLine(text).tce = s.tce

\* A text whose tokens are the arguments of options is applied as these mean it.
LEMMA DeviceReads ==
  ASSUME NEW W, Flags \subseteq W, NEW p \in Seq(Option(W)), NEW text, NEW keys,
         TokenizeArgs(text) = ProgramArgs(p, FALSE)
  PROVE  /\ ApplyRunFilters(text, keys) = Meant(p, [k \in keys |-> <<>>])
         /\ Followed(text, ApplyRunFilters(text, keys))
<1> DEFINE T == TokenizeArgs(text)
<1>1. T \in Seq(Seq(W)) /\ ReadAs(T, p)
  BY OptionsRead
<1>2. Malformed(T) = {} /\ ~(Len(T) = 1 /\ ~Flag(T[1]))
  <2> HIDE DEF T
  <2>1. Len(T) = 1 => T # <<>>
    BY <1>1, EmptySeq
  <2> QED BY <1>1, <2>1 DEF ReadAs
<1>3. Applied(T) = T /\ Rest(T) = LeftOf(T)
  BY <1>2 DEF Applied, Rest, LeftOf, LeftAt, Pieces
<1>4. ApplyRunFilters(text, keys) =
        IF Len(T) = 1 /\ ~Flag(T[1]) THEN [NoSettings(keys) EXCEPT !.tc = {T[1]}]
        ELSE [tc     |-> Patterns(Rest(T), "--tc"),
              tce    |-> Patterns(Rest(T), "--tce"),
              flags  |-> FlagsOf(Applied(T)),
              noskip |-> NoSkipIn(Rest(T)),
              env    |-> [k \in keys |-> EnvAt(Applied(T), k, <<>>)]]
  BY DEF ApplyRunFilters, FlagsOf, FlagAt, NoSkipIn, EnvAt, EnvsAt, Pieces
<1>5. ApplyRunFilters(text, keys) = Read(T, keys)
  BY <1>2, <1>3, <1>4 DEF Read
<1>10. ApplyCommandLine(text) =
         [tc |-> LastPattern(LeftOf(T), "--tc"), tce |-> LastPattern(LeftOf(T), "--tce")]
  BY <1>2, <1>3 DEF ApplyCommandLine
<1>11. LeftOf(T) \in Seq(Seq(W))
  BY <1>1, LeftOfType
<1> HIDE DEF T
<1>12. Followed(text, Read(T, keys))
  <2> SUFFICES ASSUME Once(Read(T, keys))
               PROVE  /\ ApplyCommandLine(text).tc = Read(T, keys).tc
                      /\ ApplyCommandLine(text).tce = Read(T, keys).tce
    BY DEF Followed
  <2> DEFINE L == LeftOf(T)
  <2>1. Read(T, keys).tc = Patterns(L, "--tc") /\ Read(T, keys).tce = Patterns(L, "--tce")
    BY DEF Read
  <2>2. /\ \A v, w \in Patterns(L, "--tc") : v = w
        /\ \A v, w \in Patterns(L, "--tce") : v = w
    BY <2>1 DEF Once
  <2>3. ApplyCommandLine(text).tc = LastPattern(L, "--tc")
        /\ ApplyCommandLine(text).tce = LastPattern(L, "--tce")
    BY <1>10
  <2>4. L \in Seq(Seq(W))
    BY <1>11
  <2> HIDE DEF L
  <2>5. LastPattern(L, "--tc") = Patterns(L, "--tc")
    BY <2>2, <2>4, LastOfOne
  <2>6. LastPattern(L, "--tce") = Patterns(L, "--tce")
    BY <2>2, <2>4, LastOfOne
  <2> QED BY <2>1, <2>3, <2>5, <2>6
<1>6. NoSkipIn(LeftOf(T)) = (ValuesOf(p, "--no-skip") # {})
  BY <1>1, Zenon DEF ReadAs, NoSkipIn
<1>7. [k \in keys |-> EnvAt(T, k, <<>>)]
        = [k \in DOMAIN [j \in keys |-> <<>>] |-> EnvOf(p, k, [j \in keys |-> <<>>][k])]
  BY <1>1 DEF ReadAs
<1>8. /\ Patterns(LeftOf(T), "--tc") = ValuesOf(p, "--tc")
      /\ Patterns(LeftOf(T), "--tce") = ValuesOf(p, "--tce")
      /\ FlagsOf(T) = SkipsOf(p)
  BY <1>1 DEF ReadAs
<1>9. Read(T, keys) = Meant(p, [k \in keys |-> <<>>])
  BY <1>6, <1>7, <1>8, Zenon DEF Read, Meant
<1> QED BY <1>5, <1>9, <1>12
-----------------------------------------------------------------------------
(* The tokens of a text.                                                   *)

Piece(W)    == [words : Seq(W), quoted : BOOLEAN]
TokensOf(t) == IF t.quoted THEN <<t.words>> ELSE [j \in DOMAIN t.words |-> <<t.words[j]>>]
TokensMap(W) == [t \in Piece(W) |-> TokensOf(t)]

\* A text is split piece by piece.
LEMMA TokensSpread ==
  ASSUME NEW W
  PROVE  /\ Gives(TokensMap(W), Piece(W), Seq(W))
         /\ \A x \in Seq(Piece(W)) : TokenizeArgs(x) = Spread(TokensMap(W), x)
<1>1. ASSUME NEW t \in Piece(W) PROVE TokensOf(t) \in Seq(Seq(W))
  <2>1. t.words \in Seq(W)
    BY DEF Piece
  <2>2. CASE t.quoted
    BY <2>1, <2>2 DEF TokensOf
  <2>3. CASE ~t.quoted
    <3>1. DOMAIN t.words = 1..Len(t.words) /\ Len(t.words) \in Nat
      BY <2>1, LenProperties
    <3>2. \A j \in 1..Len(t.words) : <<t.words[j]>> \in Seq(W)
      BY <2>1, ElementOfSeq
    <3>3. [j \in 1..Len(t.words) |-> <<t.words[j]>>] \in Seq(Seq(W))
      BY <3>1, <3>2, IsASeq
    <3> QED BY <2>3, <3>1, <3>3 DEF TokensOf
  <2> QED BY <2>2, <2>3
<1>2. ASSUME NEW x \in Seq(Piece(W)) PROVE TokenizeArgs(x) = Spread(TokensMap(W), x)
  <2>1. \A i \in 1..Len(x) : x[i] \in Piece(W)
    BY ElementOfSeq
  <2>2. [i \in 1..Len(x) |-> TokensOf(x[i])] = [i \in 1..Len(x) |-> TokensMap(W)[x[i]]]
    BY <2>1 DEF TokensMap
  <2> QED BY <2>2 DEF TokenizeArgs, Pieces, TokensOf, Spread
<1> QED BY <1>1, <1>2 DEF TokensMap, Gives

\* A text in two parts is split into the tokens of each.
LEMMA TokensConcat ==
  ASSUME NEW W, NEW x \in Seq(Piece(W)), NEW y \in Seq(Piece(W))
  PROVE  x \o y \in Seq(Piece(W)) /\ TokenizeArgs(x \o y) = TokenizeArgs(x) \o TokenizeArgs(y)
<1>1. x \o y \in Seq(Piece(W))
  BY ConcatProperties
<1>2. Gives(TokensMap(W), Piece(W), Seq(W))
  BY TokensSpread
<1>3. Spread(TokensMap(W), x \o y) = Spread(TokensMap(W), x) \o Spread(TokensMap(W), y)
  BY <1>2, SpreadConcat
<1> QED BY <1>1, <1>3, TokensSpread

\* A word splits into itself.
LEMMA TokensOfWord ==
  ASSUME NEW W, NEW v \in Seq(W), Len(v) = 1
  PROVE  Bare(v) \in Piece(W) /\ TokensOf(Bare(v)) = <<v>>
<1>1. DOMAIN v = 1..1 /\ v = <<v[1]>>
  BY LenProperties
<1>2. [j \in 1..1 |-> <<v[j]>>] = <<<<v[1]>>>>
  OBVIOUS
<1>3. Bare(v) = [words |-> v, quoted |-> FALSE] /\ Bare(v).words = v /\ ~Bare(v).quoted
  BY DEF Bare
<1>4. Bare(v) \in Piece(W)
  BY <1>3 DEF Piece
<1>5. TokensOf(Bare(v)) = [j \in DOMAIN v |-> <<v[j]>>]
  BY <1>3 DEF TokensOf
<1> QED BY <1>1, <1>2, <1>4, <1>5

\* A value, quoted when it has blanks, is one token.
LEMMA TokensOfValue ==
  ASSUME NEW W, NEW v \in Seq(W), v # <<>>
  PROVE  Formatted(v) \in Piece(W) /\ TokensOf(Formatted(v)) = <<v>>
<1>1. Len(v) \in Nat /\ Len(v) # 0
  BY LenProperties, EmptySeq
<1>2. CASE Len(v) = 1
  <2>1. Formatted(v) = Bare(v)
    <3>1. (Len(v) > 1) = FALSE
      BY <1>2
    <3> QED BY <3>1, Zenon DEF Formatted, Bare
  <2> QED BY <1>2, <2>1, TokensOfWord
<1>3. CASE Len(v) > 1
  <2>1. Formatted(v) = [words |-> v, quoted |-> TRUE]
    <3>1. (Len(v) > 1) = TRUE
      BY <1>3
    <3> QED BY <3>1, Zenon DEF Formatted
  <2>2. [words |-> v, quoted |-> TRUE] \in Piece(W)
    BY DEF Piece
  <2>3. TokensOf([words |-> v, quoted |-> TRUE]) = <<v>>
    BY DEF TokensOf
  <2> QED BY <2>1, <2>2, <2>3
<1>4. Len(v) = 1 \/ Len(v) > 1
  BY <1>1
<1> QED BY <1>2, <1>3, <1>4

\* A flag is one token.
LEMMA TokensOfFlag ==
  ASSUME NEW W, NEW f \in W
  PROVE  Bare(<<f>>) \in Piece(W) /\ TokensOf(Bare(<<f>>)) = <<<<f>>>>
<1>1. <<f>> \in Seq(W) /\ Len(<<f>>) = 1
  OBVIOUS
<1> QED BY <1>1, TokensOfWord

\* The text of an option, as the host writes it.
TextOf(o) ==
  IF o.value = <<>> THEN <<Bare(<<o.flag>>)>> ELSE <<Bare(<<o.flag>>), Formatted(o.value)>>

\* The text of an option splits into its program arguments.
LEMMA TokensOfText ==
  ASSUME NEW W, Flags \subseteq W, NEW o \in Option(W)
  PROVE  /\ TextOf(o) \in Seq(Piece(W))
         /\ TokenizeArgs(TextOf(o)) = ArgsOf(o, FALSE)
<1> DEFINE a == Bare(<<o.flag>>)
           b == Formatted(o.value)
           F == TokensMap(W)
<1>1. o.flag \in W /\ o.value \in Seq(W)
  BY OptionFacts
<1>2. a \in Piece(W) /\ TokensOf(a) = <<<<o.flag>>>>
  BY <1>1, TokensOfFlag
<1>3. F[a] = <<<<o.flag>>>>
  BY <1>2 DEF TokensMap
<1>4. Gives(F, Piece(W), Seq(W)) /\ \A x \in Seq(Piece(W)) : TokenizeArgs(x) = Spread(F, x)
  BY TokensSpread
<1>5. CASE o.value = <<>>
  <2>1. TextOf(o) = <<a>>
    BY <1>5 DEF TextOf
  <2>2. ArgsOf(o, FALSE) = <<<<o.flag>>>>
    <3>1. <<o.flag>> \in Seq(W)
      BY <1>1
    <3>2. <<o.flag>> \o <<>> = <<o.flag>>
      BY <3>1, ConcatEmptySeq
    <3> QED BY <1>5, <3>2 DEF ArgsOf
  <2> HIDE DEF a, F
  <2>3. <<a>> \in Seq(Piece(W)) /\ Spread(F, <<a>>) = F[a]
    BY <1>2, <1>4, OneSeq, SpreadOne
  <2> QED BY <1>3, <1>4, <2>1, <2>2, <2>3
<1>6. CASE o.value # <<>>
  <2>1. b \in Piece(W) /\ TokensOf(b) = <<o.value>>
    BY <1>1, <1>6, TokensOfValue
  <2>2. F[b] = <<o.value>>
    BY <2>1 DEF TokensMap
  <2>3. TextOf(o) = <<a, b>> /\ ArgsOf(o, FALSE) = <<<<o.flag>>, o.value>>
    BY <1>6 DEF TextOf, ArgsOf
  <2> HIDE DEF a, b, F
  <2>4. <<a, b>> \in Seq(Piece(W))
    BY <1>2, <2>1, PairSeq
  <2>5. Spread(F, <<a, b>>) = F[a] \o F[b]
    <3> DEFINE A == Piece(W)
               E == Seq(W)
               x == <<a>>
               y == <<b>>
    <3>1. a \in A /\ b \in A /\ Gives(F, A, E)
      BY <1>2, <1>4, <2>1
    <3> HIDE DEF A, E
    <3>2. x \in Seq(A) /\ y \in Seq(A)
      BY <3>1, OneSeq
    <3>3. <<a, b>> = x \o y
      BY <3>1, PairConcat
    <3>4. Spread(F, x) = F[a] /\ Spread(F, y) = F[b]
      BY <3>1, SpreadOne
    <3> HIDE DEF x, y
    <3>5. Spread(F, x \o y) = Spread(F, x) \o Spread(F, y)
      BY <3>1, <3>2, SpreadConcat
    <3> QED BY <3>3, <3>4, <3>5
  <2>6. <<<<o.flag>>>> \o <<o.value>> = <<<<o.flag>>, o.value>>
    <3>1. <<o.flag>> \in Seq(W)
      BY <1>1
    <3> QED BY <1>1, <3>1, PairConcat
  <2> QED BY <1>3, <1>4, <2>2, <2>3, <2>4, <2>5, <2>6
<1> QED BY <1>5, <1>6
-----------------------------------------------------------------------------
(* The host, argument by argument.                                         *)

PartAt(T, i) ==
  IF IsEnv(T, i) \/ IsEnv(T, i - 1) THEN <<>>
  ELSE IF HasValue(T, i - 1) THEN <<Formatted(T[i])>> ELSE <<Bare(T[i])>>

\* An --env begins with a flag, so it is no value and the cases are disjoint.
LEMMA PartsAreOf ==
  ASSUME NEW T
  PROVE  FilterParts(T) = FlattenSeq([i \in 1..Len(T) |-> PartAt(T, i)])
<1>1. ASSUME NEW i \in 1..Len(T)
      PROVE  (CASE IsEnv(T, i) \/ IsEnv(T, i - 1) -> <<>>
                [] ~IsEnv(T, i - 1) /\ HasValue(T, i - 1) -> <<Formatted(T[i])>>
                [] OTHER -> <<Bare(T[i])>>) = PartAt(T, i)
  <2>1. IsEnv(T, i) => ~HasValue(T, i - 1)
    <3>1. SUFFICES ASSUME IsEnv(T, i), HasValue(T, i - 1) PROVE FALSE
      OBVIOUS
    <3>2. T[i] = <<"--env">> /\ i \in Int
      BY <3>1 DEF IsEnv
    <3>3. Head(T[i]) \in Flags
      BY <3>2 DEF Flags
    <3>4. (i - 1) + 1 = i
      BY <3>2
    <3> QED BY <3>1, <3>3, <3>4 DEF HasValue, Flag
  <2> QED BY <2>1 DEF PartAt
<1> QED BY <1>1 DEF FilterParts, Pieces

\* Filter parts are pieces of text.
LEMMA PartsType ==
  ASSUME NEW W, NEW T \in Seq(Seq(W))
  PROVE  /\ [i \in 1..Len(T) |-> PartAt(T, i)] \in [1..Len(T) -> Seq(Piece(W))]
         /\ FilterParts(T) \in Seq(Piece(W))
<1> DEFINE x == [i \in 1..Len(T) |-> PartAt(T, i)]
<1>1. Len(T) \in Nat /\ \A i \in 1..Len(T) : T[i] \in Seq(W)
  BY LenProperties, ElementOfSeq
<1>2. ASSUME NEW i \in 1..Len(T) PROVE PartAt(T, i) \in Seq(Piece(W))
  <2>1. Bare(T[i]) \in Piece(W)
    BY <1>1 DEF Bare, Piece
  <2>2. Formatted(T[i]) \in Piece(W)
    <3>1. (Len(T[i]) > 1) \in BOOLEAN
      OBVIOUS
    <3>2. T[i] \in Seq(W)
      BY <1>1
    <3> QED BY <3>1, <3>2, Zenon DEF Formatted, Piece
  <2> HIDE DEF x
  <2> QED BY <2>1, <2>2, OneSeq, EmptySeq DEF PartAt
<1>3. x \in Seq(Seq(Piece(W)))
  BY <1>1, <1>2, IsASeq
<1>4. x \in [1..Len(T) -> Seq(Piece(W))]
  BY <1>2
<1> HIDE DEF x
<1>5. FlattenSeq(x) \in Seq(Piece(W))
  BY <1>3, FlattenType
<1> QED BY <1>4, <1>5, PartsAreOf DEF x

\* The --env pairs go, every other option is written behind the rest.
KeptText(o) == IF o.flag = "--env" THEN <<>> ELSE TextOf(o)

\* One option more adds its text, unless it is an --env.
LEMMA PartsMore ==
  ASSUME NEW W, Flags \subseteq W, NEW T \in Seq(Seq(W)), NEW o \in Option(W), Closed(T)
  PROVE  FilterParts(More(T, o)) = FilterParts(T) \o KeptText(o)
<1> DEFINE U == More(T, o)
           n == Len(T)
           E == Piece(W)
           x == [i \in 1..Len(T) |-> PartAt(T, i)]
           y == [i \in 1..Len(U) |-> PartAt(U, i)]
           R == FilterParts(T)
<1>1. /\ n \in Nat /\ U \in Seq(Seq(W)) /\ \A i \in 1..n : U[i] = T[i]
      /\ U[n + 1] = <<o.flag>>
      /\ o.value = <<>> => Len(U) = n + 1
      /\ o.value # <<>> => Len(U) = n + 2 /\ U[n + 2] = o.value
  BY MoreFacts
<1>2. /\ \A i \in 1..n : IsEnv(U, i) <=> IsEnv(T, i)
      /\ ~IsEnv(U, n) /\ ~IsEnv(U, n + 2)
      /\ IsEnv(U, n + 1) <=> o.flag = "--env"
  BY TakesMore
<1>3. /\ \A i \in 1..n : HasValue(U, i) <=> HasValue(T, i)
      /\ ~HasValue(U, n) /\ (HasValue(U, n + 1) <=> o.value # <<>>)
  BY HasValueMore
<1>4. ~IsEnv(U, 0) /\ ~IsEnv(T, 0) /\ ~HasValue(U, 0) /\ ~HasValue(T, 0)
  BY DEF IsEnv, HasValue
<1>5. /\ x \in [1..Len(T) -> Seq(E)] /\ y \in [1..Len(More(T, o)) -> Seq(E)]
      /\ R \in Seq(E)
      /\ R = FlattenSeq(x) /\ FilterParts(U) = FlattenSeq(y)
  BY <1>1, PartsType, PartsAreOf
<1> HIDE DEF U
<1>6. ASSUME NEW i \in 1..n PROVE PartAt(U, i) = PartAt(T, i)
  <2>1. i = 1 \/ i - 1 \in 1..n
    BY <1>1
  <2>2. /\ IsEnv(U, i - 1) <=> IsEnv(T, i - 1)
        /\ HasValue(U, i - 1) <=> HasValue(T, i - 1)
    BY <1>2, <1>3, <1>4, <2>1
  <2> QED BY <1>1, <1>2, <2>2 DEF PartAt
<1>7. (n + 1) - 1 = n /\ (n + 2) - 1 = n + 1
  BY <1>1
<1>8. PartAt(U, n + 1) = IF o.flag = "--env" THEN <<>> ELSE <<Bare(<<o.flag>>)>>
  BY <1>1, <1>2, <1>3, <1>7 DEF PartAt
<1>9. o.value # <<>> =>
        PartAt(U, n + 2) = IF o.flag = "--env" THEN <<>> ELSE <<Formatted(o.value)>>
  BY <1>1, <1>2, <1>3, <1>7 DEF PartAt
<1>10. /\ \A i \in 1..Len(T) : y[i] = x[i]
       /\ y[n + 1] = PartAt(U, n + 1)
       /\ o.value # <<>> => y[n + 2] = PartAt(U, n + 2)
  BY <1>1, <1>6
<1> HIDE DEF x, y, E
<1>11. Joined(x, y, T, o)
  <2>1. /\ x \in [1..Len(T) -> Seq(E)] /\ y \in [1..Len(More(T, o)) -> Seq(E)]
        /\ \A i \in 1..Len(T) : y[i] = x[i]
    BY <1>5, <1>10
  <2> QED BY <2>1, PerToken
<1>12. FilterParts(U) = IF o.value = <<>> THEN R \o PartAt(U, n + 1)
                        ELSE (R \o PartAt(U, n + 1)) \o PartAt(U, n + 2)
  BY <1>5, <1>10, <1>11 DEF Joined
<1>13. o.flag = "--env" => o.value # <<>>
  BY OptionFacts
<1> HIDE DEF R, n
<1>14. CASE o.flag = "--env"
  <2>1. FilterParts(U) = (R \o <<>>) \o <<>>
    BY <1>8, <1>9, <1>12, <1>13, <1>14
  <2>2. R \o <<>> = R
    BY <1>5, ConcatEmptySeq
  <2> QED BY <1>14, <2>1, <2>2 DEF U, R, KeptText
<1>15. CASE o.flag # "--env" /\ o.value = <<>>
  BY <1>8, <1>12, <1>15 DEF U, R, KeptText, TextOf
<1>16. CASE o.flag # "--env" /\ o.value # <<>>
  <2> DEFINE a == Bare(<<o.flag>>)
             b == Formatted(o.value)
  <2>1. o.flag \in W /\ o.value \in Seq(W)
    BY OptionFacts
  <2>2. a \in E /\ b \in E
    BY <1>16, <2>1, TokensOfFlag, TokensOfValue DEF E
  <2>3. FilterParts(U) = (R \o <<a>>) \o <<b>>
    BY <1>8, <1>9, <1>12, <1>16
  <2>4. KeptText(o) = <<a, b>>
    BY <1>16 DEF KeptText, TextOf
  <2> HIDE DEF a, b
  <2>5. R \o <<a, b>> = Append(Append(R, a), b)
    BY <1>5, <2>2, ConcatTwo
  <2>6. R \o <<a>> = Append(R, a) /\ Append(R, a) \in Seq(E)
    BY <1>5, <2>2, ConcatOne, AppendProperties
  <2>7. Append(R, a) \o <<b>> = Append(Append(R, a), b)
    BY <2>2, <2>6, ConcatOne
  <2> QED BY <2>3, <2>4, <2>5, <2>6, <2>7 DEF U, R
<1> QED BY <1>14, <1>15, <1>16

\* The host writes the options r for p: all but the --env pairs.
Sent(p, r) ==
  /\ TokenizeArgs(FilterParts(ProgramArgs(p, FALSE))) = ProgramArgs(r, FALSE)
  /\ SkipsOf(r) = SkipsOf(p)
  /\ \A f \in {"--tc", "--tce", "--no-skip"} : ValuesOf(r, f) = ValuesOf(p, f)
  /\ \A k, e : EnvOf(r, k, e) = e

\* No options are sent as none.
LEMMA SentNothing == Sent(<<>>, <<>>)
<1>1. FilterParts(<<>>) = <<>>
  <2>1. [i \in 1..Len(<<>>) |-> PartAt(<<>>, i)] = <<>>
    BY EmptySeq
  <2> QED BY <2>1, PartsAreOf, FlattenEmpty
<1>2. TokenizeArgs(<<>>) = <<>>
  <2>1. TokenizeArgs(<<>>) = Spread(TokensMap({}), <<>>)
    BY TokensSpread, EmptySeq
  <2> QED BY <2>1, SpreadEmpty
<1>3. ProgramArgs(<<>>, FALSE) = <<>>
  BY ProgramArgsEmpty
<1> QED BY <1>1, <1>2, <1>3, NoOptions DEF Sent

\* Options that are sent are, with one option more, sent.
LEMMA SentMore ==
  ASSUME NEW W, Flags \subseteq W, NEW p \in Seq(Option(W)), NEW r \in Seq(Option(W)),
         NEW o \in Option(W), Sent(p, r)
  PROVE  \E s \in Seq(Option(W)) : Sent(Append(p, o), s)
<1> DEFINE T == ProgramArgs(p, FALSE)
           q == Append(p, o)
           X == FilterParts(T)
<1>1. T \in Seq(Seq(W)) /\ Closed(T) /\ ProgramArgs(q, FALSE) = More(T, o)
  BY OptionsRead, ProgramArgsMore DEF ReadAs
<1>2. FilterParts(ProgramArgs(q, FALSE)) = X \o KeptText(o) /\ X \in Seq(Piece(W))
  <2> HIDE DEF T
  <2> QED BY <1>1, PartsMore, PartsType
<1>3. TokenizeArgs(X) = ProgramArgs(r, FALSE)
  BY DEF Sent
<1>4. /\ SkipsOf(q) = SkipsOf(p) \o SkipOf(o)
      /\ SkipsOf(p) \in Seq(SkipFlags \X Seq(W)) /\ SkipsOf(r) = SkipsOf(p)
  BY SkipsGrow, SkipsConcat DEF Sent
<1>5. \A f : ValuesOf(q, f) = ValuesOf(p, f) \cup (IF o.flag = f THEN {o.value} ELSE {})
  BY ValuesGrow
<1>6. \A f \in {"--tc", "--tce", "--no-skip"} : ValuesOf(r, f) = ValuesOf(p, f)
  BY DEF Sent
<1>7. \A k, e : EnvOf(r, k, e) = e
  BY DEF Sent
<1> HIDE DEF T, X
<1>8. CASE o.flag = "--env"
  <2>1. FilterParts(ProgramArgs(q, FALSE)) = X
    <3>1. X \o <<>> = X
      BY <1>2, ConcatEmptySeq
    <3> QED BY <1>2, <1>8, <3>1 DEF KeptText
  <2>2. SkipsOf(q) = SkipsOf(r)
    <3>1. SkipOf(o) = <<>>
      BY <1>8 DEF SkipOf, SkipFlags
    <3>2. SkipsOf(p) \o <<>> = SkipsOf(p)
      BY <1>4, ConcatEmptySeq
    <3> QED BY <1>4, <3>1, <3>2
  <2>3. \A f \in {"--tc", "--tce", "--no-skip"} : ValuesOf(r, f) = ValuesOf(q, f)
    <3> TAKE f \in {"--tc", "--tce", "--no-skip"}
    <3>1. o.flag # f
      BY <1>8
    <3>2. ValuesOf(q, f) = ValuesOf(p, f)
      BY <1>5, <3>1
    <3> QED BY <1>6, <3>2
  <2>4. Sent(q, r)
    BY <1>3, <1>7, <2>1, <2>2, <2>3 DEF Sent
  <2> QED BY <2>4
<1>9. CASE o.flag # "--env"
  <2> DEFINE s == Append(r, o)
  <2>1. s \in Seq(Option(W))
    BY AppendProperties
  <2>2. TokenizeArgs(FilterParts(ProgramArgs(q, FALSE))) = ProgramArgs(s, FALSE)
    <3>1. FilterParts(ProgramArgs(q, FALSE)) = X \o TextOf(o)
      BY <1>2, <1>9 DEF KeptText
    <3>2. TextOf(o) \in Seq(Piece(W)) /\ TokenizeArgs(TextOf(o)) = ArgsOf(o, FALSE)
      BY TokensOfText
    <3>3. TokenizeArgs(X \o TextOf(o)) = TokenizeArgs(X) \o TokenizeArgs(TextOf(o))
      BY <1>2, <3>2, TokensConcat
    <3>4. ProgramArgs(s, FALSE) = ProgramArgs(r, FALSE) \o ArgsOf(o, FALSE)
      BY ProgramArgsGrow
    <3> QED BY <1>3, <3>1, <3>2, <3>3, <3>4
  <2>3. SkipsOf(s) = SkipsOf(q)
    BY <1>4, SkipsGrow
  <2>4. \A f : ValuesOf(s, f) = ValuesOf(r, f) \cup (IF o.flag = f THEN {o.value} ELSE {})
    BY ValuesGrow
  <2>5. \A k, e : EnvOf(s, k, e) = e
    <3> TAKE k, e
    <3>1. EnvOf(s, k, e) = IF SetsKey(o, k) THEN o.value ELSE EnvOf(r, k, e)
      BY EnvGrow
    <3> QED BY <1>7, <1>9, <3>1 DEF SetsKey
  <2> HIDE DEF s, q
  <2>6. \A f \in {"--tc", "--tce", "--no-skip"} : ValuesOf(s, f) = ValuesOf(q, f)
    BY <1>5, <1>6, <2>4
  <2>7. Sent(q, s)
    BY <2>2, <2>3, <2>5, <2>6 DEF Sent
  <2> QED BY <2>1, <2>7 DEF q
<1> QED BY <1>8, <1>9

\* Given apart, every option but the --env pairs is sent as it is.
LEMMA OptionsSent ==
  ASSUME NEW W, Flags \subseteq W
  PROVE  \A p \in Seq(Option(W)) : \E r \in Seq(Option(W)) : Sent(p, r)
<1> DEFINE P == {p \in Seq(Option(W)) : \E r \in Seq(Option(W)) : Sent(p, r)}
<1>1. <<>> \in P
  BY EmptySeq, SentNothing
<1>2. ASSUME NEW p \in Seq(Option(W)), NEW o \in Option(W), p \in P
      PROVE  Append(p, o) \in P
  <2>1. PICK r \in Seq(Option(W)) : Sent(p, r)
    BY <1>2
  <2>2. \E s \in Seq(Option(W)) : Sent(Append(p, o), s)
    BY <2>1, SentMore
  <2> QED BY <2>2, AppendProperties
<1> HIDE DEF P
<1>3. \A p \in Seq(Option(W)) : p \in P
  BY <1>1, <1>2, EverySeq
<1> QED BY <1>3 DEF P

\* Given whole, every program argument begins with a flag and none is --env
\* alone: the host finds neither variables nor values in them.
Marked(T)  == \A i \in 1..Len(T) : Flag(T[i]) /\ T[i] # <<"--env">>
BareMap(W) == [a \in Seq(W) |-> <<Bare(a)>>]

\* Arguments that all begin with a flag, none a bare --env, are sent as they are.
LEMMA MarkedParts ==
  ASSUME NEW W, NEW T \in Seq(Seq(W)), Marked(T)
  PROVE  /\ FilterParts(T) = Spread(BareMap(W), T)
         /\ Gives(BareMap(W), Seq(W), Piece(W))
         /\ \A k, e : EnvAt(T, k, e) = e
<1>1. Len(T) \in Nat /\ \A i \in 1..Len(T) : T[i] \in Seq(W)
  BY LenProperties, ElementOfSeq
<1>2. \A i : ~IsEnv(T, i)
  <2>1. SUFFICES ASSUME NEW i, IsEnv(T, i) PROVE FALSE
    OBVIOUS
  <2>2. i \in 1..Len(T) /\ T[i] = <<"--env">>
    BY <1>1, <2>1 DEF IsEnv
  <2> QED BY <2>2 DEF Marked
<1>3. ASSUME NEW i \in 1..Len(T) PROVE PartAt(T, i) = BareMap(W)[T[i]]
  <2>1. (i - 1) + 1 = i
    BY <1>1
  <2>2. ~HasValue(T, i - 1)
    BY <2>1 DEF HasValue, Marked
  <2> QED BY <1>1, <1>2, <2>2 DEF PartAt, BareMap
<1>4. FilterParts(T) = Spread(BareMap(W), T)
  BY <1>3, PartsAreOf DEF Spread
<1>5. Gives(BareMap(W), Seq(W), Piece(W))
  BY DEF Gives, BareMap, Bare, Piece
<1>6. \A k, e : EnvAt(T, k, e) = e
  BY <1>2 DEF EnvAt, EnvsAt
<1> QED BY <1>4, <1>5, <1>6

Whole(o) == <<o.flag>> \o o.value

\* An option of one argument: a flag and at most one more word.
LEMMA WholeFacts ==
  ASSUME NEW W, Flags \subseteq W, NEW o \in Short(W)
  PROVE  /\ Whole(o) \in Seq(W) /\ Flag(Whole(o)) /\ Whole(o) # <<"--env">>
         /\ Bare(Whole(o)) \in Piece(W)
         /\ TokensOf(Bare(Whole(o))) = ArgsOf(o, FALSE)
<1>1. o \in Option(W) /\ Len(o.value) < 2
  BY DEF Short
<1>2. o.flag \in W /\ o.flag \in Flags /\ o.value \in Seq(W)
  BY <1>1, OptionFacts
<1>3. o.value = <<>> <=> o.flag = "--no-skip"
  BY <1>1, OptionFacts
<1>4. <<o.flag>> \in Seq(W) /\ Head(<<o.flag>>) = o.flag
  BY <1>2
<1>5. CASE o.value = <<>>
  <2>1. Whole(o) = <<o.flag>>
    BY <1>4, <1>5, ConcatEmptySeq DEF Whole
  <2>2. <<o.flag>> # <<"--env">>
    BY <1>3, <1>5
  <2>3. ArgsOf(o, FALSE) = <<<<o.flag>>>>
    BY <1>5, <2>1 DEF ArgsOf, Whole
  <2> QED BY <1>2, <1>4, <2>1, <2>2, <2>3, TokensOfFlag DEF Flag
<1>6. CASE o.value # <<>>
  <2> DEFINE w == o.value[1]
  <2>1. Len(o.value) = 1
    <3> DEFINE v == o.value
    <3>1. v \in Seq(W) /\ v # <<>> /\ Len(v) < 2
      BY <1>1, <1>2, <1>6
    <3> HIDE DEF v
    <3>2. Len(v) \in Nat /\ Len(v) # 0
      BY <3>1, LenProperties, EmptySeq
    <3>3. \A n \in Nat : n # 0 /\ n < 2 => n = 1
      OBVIOUS
    <3>4. Len(v) = 1
      BY <3>1, <3>2, <3>3, Zenon
    <3> QED BY <3>4 DEF v
  <2>2. o.value = <<w>> /\ w \in W
    BY <1>2, <2>1, LenProperties, ElementOfSeq
  <2> HIDE DEF w
  <2>3. Whole(o) = <<o.flag, w>>
    BY <1>2, <2>2, PairConcat DEF Whole
  <2>4. <<o.flag, w>> \in Seq(W) /\ Head(<<o.flag, w>>) = o.flag /\ <<o.flag, w>> # <<"--env">>
    BY <1>2, <2>2
  <2>5. ArgsOf(o, FALSE) = <<<<o.flag>>, <<w>>>>
    BY <1>6, <2>2 DEF ArgsOf
  <2>6. /\ Bare(<<o.flag, w>>) = [words |-> <<o.flag, w>>, quoted |-> FALSE]
        /\ Bare(<<o.flag, w>>) \in Piece(W)
    BY <2>4 DEF Bare, Piece
  <2>7. TokensOf(Bare(<<o.flag, w>>)) = [j \in DOMAIN <<o.flag, w>> |-> <<<<o.flag, w>>[j]>>]
    BY <2>6 DEF TokensOf
  <2>8. [j \in DOMAIN <<o.flag, w>> |-> <<<<o.flag, w>>[j]>>] = <<<<o.flag>>, <<w>>>>
    OBVIOUS
  <2> QED BY <1>2, <2>3, <2>4, <2>5, <2>6, <2>7, <2>8 DEF Flag
<1> QED BY <1>5, <1>6

\* The host writes p as it is.
SentWhole(p) ==
  /\ Marked(ProgramArgs(p, TRUE))
  /\ TokenizeArgs(FilterParts(ProgramArgs(p, TRUE))) = ProgramArgs(p, FALSE)

\* Options given whole are, with one option more, sent as options given apart.
LEMMA WholeMore ==
  ASSUME NEW W, Flags \subseteq W, NEW p \in Seq(Option(W)), NEW o \in Short(W), SentWhole(p)
  PROVE  SentWhole(Append(p, o))
<1> DEFINE T == ProgramArgs(p, TRUE)
           a == Whole(o)
           U == Append(T, a)
           B == BareMap(W)
<1>1. o \in Option(W)
  BY DEF Short
<1>2. T \in Seq(Seq(W)) /\ Marked(T) /\ TokenizeArgs(FilterParts(T)) = ProgramArgs(p, FALSE)
  BY ProgramArgsType DEF SentWhole
<1>3. /\ a \in Seq(W) /\ Flag(a) /\ a # <<"--env">> /\ Bare(a) \in Piece(W)
      /\ TokensOf(Bare(a)) = ArgsOf(o, FALSE)
  BY WholeFacts
<1>4. ProgramArgs(Append(p, o), TRUE) = U
  <2>1. ProgramArgs(Append(p, o), TRUE) = T \o ArgsOf(o, TRUE)
    BY <1>1, ProgramArgsGrow
  <2>2. ArgsOf(o, TRUE) = <<a>>
    BY DEF ArgsOf, Whole
  <2> HIDE DEF T, a
  <2> QED BY <1>2, <1>3, <2>1, <2>2, ConcatOne
<1> HIDE DEF T, a
<1>5. /\ U \in Seq(Seq(W)) /\ Len(U) = Len(T) + 1 /\ Len(T) \in Nat /\ U[Len(T) + 1] = a
      /\ \A i \in 1..Len(T) : U[i] = T[i]
  BY <1>2, <1>3, AppendProperties, LenProperties
<1>6. Marked(U)
  <2> SUFFICES ASSUME NEW i \in 1..Len(U) PROVE Flag(U[i]) /\ U[i] # <<"--env">>
    BY DEF Marked
  <2> HIDE DEF U
  <2>1. i \in 1..Len(T) \/ i = Len(T) + 1
    BY <1>5
  <2> QED BY <1>2, <1>3, <1>5, <2>1 DEF Marked
<1>7. FilterParts(U) = FilterParts(T) \o <<Bare(a)>>
  <2>1. FilterParts(U) = Spread(B, U) /\ FilterParts(T) = Spread(B, T)
        /\ Gives(B, Seq(W), Piece(W))
    BY <1>2, <1>5, <1>6, MarkedParts
  <2>2. B[a] = <<Bare(a)>>
    BY <1>3 DEF BareMap
  <2> HIDE DEF B
  <2>3. Spread(B, Append(T, a)) = Spread(B, T) \o B[a]
    <3> DEFINE A == Seq(W)
               E == Piece(W)
    <3>1. T \in Seq(A) /\ a \in A /\ Gives(B, A, E)
      BY <1>2, <1>3, <2>1
    <3> HIDE DEF A, E
    <3> QED BY <3>1, SpreadGrow
  <2> QED BY <2>1, <2>2, <2>3
<1>8. TokenizeArgs(<<Bare(a)>>) = ArgsOf(o, FALSE) /\ <<Bare(a)>> \in Seq(Piece(W))
  <2> DEFINE b == Bare(a)
             F == TokensMap(W)
  <2>1. F[b] = ArgsOf(o, FALSE) /\ b \in Piece(W)
    BY <1>3 DEF TokensMap
  <2> HIDE DEF b, F
  <2>2. <<b>> \in Seq(Piece(W))
    BY <2>1, OneSeq
  <2>3. Gives(F, Piece(W), Seq(W)) /\ TokenizeArgs(<<b>>) = Spread(F, <<b>>)
    BY <2>2, TokensSpread DEF F
  <2>4. Spread(F, <<b>>) = F[b]
    <3> DEFINE A == Piece(W)
               E == Seq(W)
    <3>1. b \in A /\ Gives(F, A, E)
      BY <2>1, <2>3
    <3> HIDE DEF A, E
    <3> QED BY <3>1, SpreadOne
  <2> QED BY <2>1, <2>2, <2>3, <2>4 DEF b
<1>9. TokenizeArgs(FilterParts(T) \o <<Bare(a)>>)
        = TokenizeArgs(FilterParts(T)) \o TokenizeArgs(<<Bare(a)>>)
  <2>1. FilterParts(T) \in Seq(Piece(W))
    BY <1>2, PartsType
  <2> QED BY <1>8, <2>1, TokensConcat
<1>10. ProgramArgs(Append(p, o), FALSE) = ProgramArgs(p, FALSE) \o ArgsOf(o, FALSE)
  BY <1>1, ProgramArgsGrow
<1> HIDE DEF U
<1> QED BY <1>2, <1>4, <1>6, <1>7, <1>8, <1>9, <1>10 DEF SentWhole

\* Options given whole, of values without blanks, are sent as options given apart.
LEMMA WholeSent ==
  ASSUME NEW W, Flags \subseteq W
  PROVE  \A p \in Seq(Short(W)) : p \in Seq(Option(W)) /\ SentWhole(p)
<1> DEFINE P == {p \in Seq(Short(W)) : p \in Seq(Option(W)) /\ SentWhole(p)}
<1>1. <<>> \in P
  <2>1. ProgramArgs(<<>>, TRUE) = <<>> /\ ProgramArgs(<<>>, FALSE) = <<>>
    BY ProgramArgsEmpty
  <2>2. TokenizeArgs(FilterParts(<<>>)) = <<>>
    BY <2>1, SentNothing DEF Sent
  <2>3. Marked(<<>>)
    BY EmptySeq DEF Marked
  <2> QED BY <2>1, <2>2, <2>3, EmptySeq DEF SentWhole
<1>2. ASSUME NEW p \in Seq(Short(W)), NEW o \in Short(W), p \in P
      PROVE  Append(p, o) \in P
  <2>1. p \in Seq(Option(W)) /\ SentWhole(p)
    BY <1>2
  <2> HIDE DEF P
  <2>2. SentWhole(Append(p, o))
    BY <2>1, WholeMore
  <2>3. o \in Option(W)
    BY DEF Short
  <2>4. Append(p, o) \in Seq(Option(W)) /\ Append(p, o) \in Seq(Short(W))
    BY <2>1, <2>3, AppendProperties
  <2> QED BY <2>2, <2>4 DEF P
<1> HIDE DEF P
<1>3. \A p \in Seq(Short(W)) : p \in P
  BY <1>1, <1>2, EverySeq
<1> QED BY <1>3 DEF P
-----------------------------------------------------------------------------
(* The ETST_* variables, as options behind the others.                     *)

Slots == 1..5

\* The variables of env_map, in its order.
LEMMA EnvMapFacts ==
  /\ Len(EnvMap) = 5
  /\ EnvMap[1] = "--tc" /\ EnvMap[2] = "--tce" /\ EnvMap[3] = "--unskip-tc"
  /\ EnvMap[4] = "--skip-tc" /\ EnvMap[5] = "--no-skip"
  /\ \A i \in Slots : EnvMap[i] \in ValueFlags \cup {"--no-skip"} /\ EnvMap[i] # "--env"
<1>1. /\ Len(EnvMap) = 5
      /\ EnvMap[1] = "--tc" /\ EnvMap[2] = "--tce" /\ EnvMap[3] = "--unskip-tc"
      /\ EnvMap[4] = "--skip-tc" /\ EnvMap[5] = "--no-skip"
  BY DEF EnvMap
<1>2. \A i \in Slots : i = 1 \/ i = 2 \/ i = 3 \/ i = 4 \/ i = 5
  BY DEF Slots
<1> QED BY <1>1, <1>2 DEF ValueFlags, SkipFlags

\* The option of variable i, when it is set.
VarOption(vars, i) ==
  [flag |-> EnvMap[i], value |-> IF EnvMap[i] = "--no-skip" THEN <<>> ELSE vars[EnvMap[i]]]
VarOptions(vars) ==
  [i \in Slots |-> IF vars[EnvMap[i]] = <<>> THEN <<>> ELSE <<VarOption(vars, i)>>]
VarTexts(vars) ==
  [i \in Slots |-> IF vars[EnvMap[i]] = <<>> THEN <<>> ELSE TextOf(VarOption(vars, i))]
VarSkips(vars) ==
  [i \in Slots |-> IF vars[EnvMap[i]] = <<>> THEN <<>> ELSE SkipOf(VarOption(vars, i))]

\* Each variable that is set is the text of an option.
LEMMA VarMaps ==
  ASSUME NEW W, Flags \subseteq W, NEW vars, VarsFit(vars, W)
  PROVE  /\ \A i \in Slots : vars[EnvMap[i]] # <<>> => VarOption(vars, i) \in Option(W)
         /\ Gives(VarOptions(vars), Slots, Option(W))
         /\ Gives(VarTexts(vars), Slots, Piece(W))
         /\ Gives(VarSkips(vars), Slots, SkipFlags \X Seq(W))
<1>1. ASSUME NEW i \in Slots, vars[EnvMap[i]] # <<>> PROVE VarOption(vars, i) \in Option(W)
  <2>1. vars[EnvMap[i]] \in Value(W)
    BY <1>1, EnvMapFacts DEF VarsFit, Slots
  <2>2. CASE EnvMap[i] = "--no-skip"
    BY <2>2 DEF VarOption, Option
  <2>3. CASE EnvMap[i] # "--no-skip"
    <3>1. EnvMap[i] \in ValueFlags
      BY <2>3, EnvMapFacts
    <3> QED BY <2>1, <2>3, <3>1 DEF VarOption, Option
  <2> QED BY <2>2, <2>3
<1>2. Gives(VarOptions(vars), Slots, Option(W))
  BY <1>1, OneSeq, EmptySeq DEF Gives, VarOptions
<1>3. Gives(VarTexts(vars), Slots, Piece(W))
  <2>1. \A i \in Slots : vars[EnvMap[i]] # <<>> => TextOf(VarOption(vars, i)) \in Seq(Piece(W))
    BY <1>1, TokensOfText
  <2> QED BY <2>1, EmptySeq DEF Gives, VarTexts
<1>4. Gives(VarSkips(vars), Slots, SkipFlags \X Seq(W))
  <2>1. \A i \in Slots :
          vars[EnvMap[i]] # <<>> => SkipOf(VarOption(vars, i)) \in Seq(SkipFlags \X Seq(W))
    BY <1>1, SkipOfType
  <2> QED BY <2>1, EmptySeq DEF Gives, VarSkips
<1> QED BY <1>1, <1>2, <1>3, <1>4

Covers(s, f) == \E j \in 1..Len(s) : EnvMap[s[j]] = f

\* One slot more covers its own flag.
LEMMA CoversMore ==
  ASSUME NEW s \in Seq(Slots), NEW i \in Slots, NEW f
  PROVE  Covers(Append(s, i), f) <=> Covers(s, f) \/ EnvMap[i] = f
<1> DEFINE q == Append(s, i)
<1>1. /\ Len(q) = Len(s) + 1 /\ Len(s) \in Nat /\ q[Len(s) + 1] = i
      /\ \A j \in 1..Len(s) : q[j] = s[j]
  BY AppendProperties, LenProperties
<1> HIDE DEF q
<1>2. \A j : j \in 1..Len(q) <=> j \in 1..Len(s) \/ j = Len(s) + 1
  BY <1>1
<1> QED BY <1>1, <1>2 DEF Covers, q

\* The variables s (their positions) are sent as the options v.
VarsSent(vars, s, v) ==
  /\ TokenizeArgs(Spread(VarTexts(vars), s)) = ProgramArgs(v, FALSE)
  /\ SkipsOf(v) = Spread(VarSkips(vars), s)
  /\ \A k, e : EnvOf(v, k, e) = e
  /\ \A f \in {"--tc", "--tce"} :
       \A w : w \in ValuesOf(v, f) <=> w = vars[f] /\ w # <<>> /\ Covers(s, f)
  /\ ValuesOf(v, "--no-skip") # {} <=> vars["--no-skip"] # <<>> /\ Covers(s, "--no-skip")

\* No slots, no options.
LEMMA VarsSentNothing == ASSUME NEW vars PROVE VarsSent(vars, <<>>, <<>>)
<1>1. TokenizeArgs(<<>>) = <<>> /\ ProgramArgs(<<>>, FALSE) = <<>>
  <2>1. ProgramArgs(<<>>, FALSE) = <<>>
    BY ProgramArgsEmpty
  <2>2. TokenizeArgs(<<>>) = Spread(TokensMap({}), <<>>)
    BY TokensSpread, EmptySeq
  <2> QED BY <2>1, <2>2, SpreadEmpty
<1>2. \A f : ~Covers(<<>>, f)
  BY EmptySeq DEF Covers
<1> QED BY <1>1, <1>2, SpreadEmpty, NoOptions DEF VarsSent

\* One slot more sends its variable, if it is set.
LEMMA VarsSentMore ==
  ASSUME NEW W, Flags \subseteq W, NEW vars, VarsFit(vars, W), NEW s \in Seq(Slots),
         NEW i \in Slots, NEW v \in Seq(Option(W)), VarsSent(vars, s, v)
  PROVE  \E u \in Seq(Option(W)) : VarsSent(vars, Append(s, i), u)
<1> DEFINE q == Append(s, i)
           x == Spread(VarTexts(vars), s)
           y == Spread(VarSkips(vars), s)
           o == VarOption(vars, i)
<1>1. Spread(VarTexts(vars), q) = x \o VarTexts(vars)[i] /\ x \in Seq(Piece(W))
  <2>1. Gives(VarTexts(vars), Slots, Piece(W))
    BY VarMaps
  <2> QED BY <2>1, SpreadGrow, SpreadType
<1>2. Spread(VarSkips(vars), q) = y \o VarSkips(vars)[i] /\ y \in Seq(SkipFlags \X Seq(W))
  <2>1. Gives(VarSkips(vars), Slots, SkipFlags \X Seq(W))
    BY VarMaps
  <2> QED BY <2>1, SpreadGrow, SpreadType
<1>3. TokenizeArgs(x) = ProgramArgs(v, FALSE) /\ SkipsOf(v) = y
  BY DEF VarsSent
<1>4. \A f : Covers(q, f) <=> Covers(s, f) \/ EnvMap[i] = f
  BY CoversMore
<1>5. \A k, e : EnvOf(v, k, e) = e
  BY DEF VarsSent
<1>6. \A f \in {"--tc", "--tce"} :
        \A w : w \in ValuesOf(v, f) <=> w = vars[f] /\ w # <<>> /\ Covers(s, f)
  BY DEF VarsSent
<1>7. ValuesOf(v, "--no-skip") # {} <=> vars["--no-skip"] # <<>> /\ Covers(s, "--no-skip")
  BY DEF VarsSent
<1> HIDE DEF q, x, y
<1>8. CASE vars[EnvMap[i]] = <<>>
  <2>1. VarTexts(vars)[i] = <<>> /\ VarSkips(vars)[i] = <<>>
    BY <1>8 DEF VarTexts, VarSkips
  <2>2. x \o <<>> = x
    BY <1>1, ConcatEmptySeq
  <2>3. y \o <<>> = y
    BY <1>2, ConcatEmptySeq
  <2>4. \A f : vars[f] # <<>> => (Covers(q, f) <=> Covers(s, f))
    BY <1>4, <1>8
  <2>5. \A f \in {"--tc", "--tce"} :
          \A w : w \in ValuesOf(v, f) <=> w = vars[f] /\ w # <<>> /\ Covers(q, f)
    BY <1>6, <2>4
  <2>6. ValuesOf(v, "--no-skip") # {} <=> vars["--no-skip"] # <<>> /\ Covers(q, "--no-skip")
    BY <1>7, <2>4
  <2>7. Spread(VarTexts(vars), q) = x /\ Spread(VarSkips(vars), q) = y
    BY <1>1, <1>2, <2>1, <2>2, <2>3
  <2>8. VarsSent(vars, q, v)
    BY <1>3, <1>5, <2>5, <2>6, <2>7 DEF VarsSent
  <2> QED BY <2>8 DEF q
<1>9. CASE vars[EnvMap[i]] # <<>>
  <2> DEFINE u == Append(v, o)
  <2>1. o \in Option(W)
    BY <1>9, VarMaps
  <2>2. o.flag = EnvMap[i] /\ (o.flag # "--no-skip" => o.value = vars[EnvMap[i]])
    BY DEF VarOption
  <2>3. VarTexts(vars)[i] = TextOf(o) /\ VarSkips(vars)[i] = SkipOf(o)
    BY <1>9 DEF VarTexts, VarSkips
  <2> HIDE DEF o
  <2>4. u \in Seq(Option(W)) /\ SkipsOf(u) = SkipsOf(v) \o SkipOf(o)
    BY <2>1, AppendProperties, SkipsGrow
  <2>5. TokenizeArgs(Spread(VarTexts(vars), q)) = ProgramArgs(u, FALSE)
    <3>1. TextOf(o) \in Seq(Piece(W)) /\ TokenizeArgs(TextOf(o)) = ArgsOf(o, FALSE)
      BY <2>1, TokensOfText
    <3>2. TokenizeArgs(x \o TextOf(o)) = TokenizeArgs(x) \o TokenizeArgs(TextOf(o))
      BY <1>1, <3>1, TokensConcat
    <3>3. ProgramArgs(u, FALSE) = ProgramArgs(v, FALSE) \o ArgsOf(o, FALSE)
      BY <2>1, ProgramArgsGrow
    <3> QED BY <1>1, <1>3, <2>3, <3>1, <3>2, <3>3
  <2>6. SkipsOf(u) = Spread(VarSkips(vars), q)
    BY <1>2, <1>3, <2>3, <2>4
  <2>7. \A k, e : EnvOf(u, k, e) = e
    <3> TAKE k, e
    <3>1. EnvOf(u, k, e) = IF SetsKey(o, k) THEN o.value ELSE EnvOf(v, k, e)
      BY <2>1, EnvGrow
    <3>2. ~SetsKey(o, k)
      BY <2>2, EnvMapFacts DEF SetsKey
    <3> QED BY <1>5, <3>1, <3>2
  <2>8. \A f : ValuesOf(u, f) = ValuesOf(v, f) \cup (IF o.flag = f THEN {o.value} ELSE {})
    BY <2>1, ValuesGrow
  <2> HIDE DEF u
  <2>9. ASSUME NEW f \in {"--tc", "--tce"}, NEW w
        PROVE  w \in ValuesOf(u, f) <=> w = vars[f] /\ w # <<>> /\ Covers(q, f)
    <3>1. w \in ValuesOf(u, f) <=> w \in ValuesOf(v, f) \/ (EnvMap[i] = f /\ w = o.value)
      BY <2>2, <2>8
    <3>2. EnvMap[i] = f => o.value = vars[f] /\ o.value # <<>>
      BY <1>9, <2>2
    <3>3. w \in ValuesOf(v, f) <=> w = vars[f] /\ w # <<>> /\ Covers(s, f)
      BY <1>6
    <3>4. Covers(q, f) <=> Covers(s, f) \/ EnvMap[i] = f
      BY <1>4
    <3> QED BY <3>1, <3>2, <3>3, <3>4
  <2>10. ValuesOf(u, "--no-skip") # {} <=> vars["--no-skip"] # <<>> /\ Covers(q, "--no-skip")
    <3>1. ValuesOf(u, "--no-skip") # {}
            <=> ValuesOf(v, "--no-skip") # {} \/ EnvMap[i] = "--no-skip"
      BY <2>2, <2>8
    <3> QED BY <1>4, <1>7, <1>9, <3>1
  <2>11. VarsSent(vars, q, u)
    BY <2>5, <2>6, <2>7, <2>9, <2>10 DEF VarsSent
  <2> QED BY <2>4, <2>11 DEF q
<1> QED BY <1>8, <1>9

\* The variables are sent as options behind those of the command line.
LEMMA VariablesSent ==
  ASSUME NEW W, Flags \subseteq W, NEW vars, VarsFit(vars, W)
  PROVE  \E v \in Seq(Option(W)) :
           /\ TokenizeArgs(VarParts(vars)) = ProgramArgs(v, FALSE)
           /\ SkipsOf(v) = FlattenSeq([i \in Slots |-> VarSkips(vars)[i]])
           /\ \A k, e : EnvOf(v, k, e) = e
           /\ \A f \in {"--tc", "--tce"} : ValuesOf(v, f) = {vars[f]} \ {<<>>}
           /\ ValuesOf(v, "--no-skip") # {} <=> vars["--no-skip"] # <<>>
           /\ VarParts(vars) \in Seq(Piece(W))
<1> DEFINE P == {s \in Seq(Slots) : \E v \in Seq(Option(W)) : VarsSent(vars, s, v)}
           all == <<1, 2, 3, 4, 5>>
<1>1. <<>> \in P
  BY VarsSentNothing, EmptySeq
<1>2. ASSUME NEW s \in Seq(Slots), NEW i \in Slots, s \in P PROVE Append(s, i) \in P
  <2>1. PICK v \in Seq(Option(W)) : VarsSent(vars, s, v)
    BY <1>2
  <2>2. \E u \in Seq(Option(W)) : VarsSent(vars, Append(s, i), u)
    BY <2>1, VarsSentMore
  <2> QED BY <2>2, AppendProperties
<1> HIDE DEF P
<1>3. \A s \in Seq(Slots) : s \in P
  BY <1>1, <1>2, EverySeq
<1>4. all \in Seq(Slots) /\ Len(all) = 5 /\ \A i \in Slots : all[i] = i
  BY DEF Slots
<1>5. PICK v \in Seq(Option(W)) : VarsSent(vars, all, v)
  BY <1>3, <1>4 DEF P
<1> HIDE DEF all
<1>6. /\ Covers(all, "--tc") /\ Covers(all, "--tce") /\ Covers(all, "--no-skip")
  BY <1>4, EnvMapFacts DEF Covers, Slots
<1>7. VarParts(vars) = Spread(VarTexts(vars), all)
  <2>1. \A i \in Slots :
          (CASE vars[EnvMap[i]] = <<>>    -> <<>>
             [] vars[EnvMap[i]] # <<>> /\ EnvMap[i] = "--no-skip" -> <<Bare(<<EnvMap[i]>>)>>
             [] OTHER -> <<Bare(<<EnvMap[i]>>), Formatted(vars[EnvMap[i]])>>)
            = VarTexts(vars)[i]
    BY DEF VarTexts, TextOf, VarOption
  <2>2. [i \in 1..Len(all) |-> VarTexts(vars)[all[i]]] = [i \in Slots |-> VarTexts(vars)[i]]
    BY <1>4 DEF Slots
  <2> QED BY <2>1, <2>2, EnvMapFacts DEF VarParts, Pieces, Spread, Slots
<1>8. Spread(VarSkips(vars), all) = FlattenSeq([i \in Slots |-> VarSkips(vars)[i]])
  <2>1. [i \in 1..Len(all) |-> VarSkips(vars)[all[i]]] = [i \in Slots |-> VarSkips(vars)[i]]
    BY <1>4 DEF Slots
  <2> QED BY <2>1 DEF Spread
<1>9. VarParts(vars) \in Seq(Piece(W))
  <2>1. Gives(VarTexts(vars), Slots, Piece(W))
    BY VarMaps
  <2> QED BY <1>4, <1>7, <2>1, SpreadType
<1>10. \A f \in {"--tc", "--tce"} : ValuesOf(v, f) = {vars[f]} \ {<<>>}
  BY <1>5, <1>6 DEF VarsSent
<1> QED BY <1>5, <1>6, <1>7, <1>8, <1>9, <1>10 DEF VarsSent
-----------------------------------------------------------------------------
(* The environment, as options before the others.                          *)

\* The keys of the lines: each once.
LEMMA KeysInOrder ==
  ASSUME NEW S, IsFiniteSet(S)
  PROVE  /\ SetToSeq(S) \in Seq(S)
         /\ \A i, j \in 1..Len(SetToSeq(S)) : SetToSeq(S)[i] = SetToSeq(S)[j] => i = j
         /\ \A k \in S : \E i \in 1..Len(SetToSeq(S)) : SetToSeq(S)[i] = k
<1> DEFINE n == Cardinality(S)
           g == SetToSeq(S)
<1>1. n \in Nat /\ Bijection(1..n, S) # {}
  BY FS_CardinalityType DEF ExistsBijection
<1>2. \E f \in [1..n -> S] : IsInjective(f)
  BY <1>1 DEF Bijection, Injection
<1>3. g \in [1..n -> S] /\ IsInjective(g)
  BY <1>2 DEF SetToSeq
<1>4. g \in Injection(1..n, S)
  BY <1>3 DEF Injection
<1>5. Cardinality(1..n) = n
  BY <1>1, FS_Interval
<1> HIDE DEF n
<1>6. g \in Surjection(1..n, S)
  <2>1. Cardinality(1..n) = Cardinality(S)
    BY <1>5 DEF n
  <2> QED BY <1>4, <2>1, FS_Injection
<1>7. g \in Seq(S) /\ Len(g) = n
  <2>1. g = [i \in 1..n |-> g[i]] /\ \A i \in 1..n : g[i] \in S
    BY <1>3
  <2> HIDE DEF g
  <2> QED BY <1>1, <2>1, IsASeq
<1>8. DOMAIN g = 1..n
  BY <1>3
<1> HIDE DEF g
<1>9. \A i, j \in 1..n : g[i] = g[j] => i = j
  BY <1>3, <1>8 DEF IsInjective
<1>10. \A k \in S : \E i \in 1..n : g[i] = k
  BY <1>6 DEF Surjection
<1> QED BY <1>7, <1>9, <1>10 DEF g

TextMap(W) == [o \in Option(W) |-> TextOf(o)]

\* The texts of options split into their program arguments.
LEMMA TextsSent ==
  ASSUME NEW W, Flags \subseteq W
  PROVE  /\ Gives(TextMap(W), Option(W), Piece(W))
         /\ \A p \in Seq(Option(W)) :
              TokenizeArgs(Spread(TextMap(W), p)) = ProgramArgs(p, FALSE)
<1> DEFINE P == {p \in Seq(Option(W)) :
                   TokenizeArgs(Spread(TextMap(W), p)) = ProgramArgs(p, FALSE)}
           F == TextMap(W)
<1>1. Gives(F, Option(W), Piece(W))
  BY TokensOfText DEF Gives, TextMap
<1>2. <<>> \in P
  BY SpreadEmpty, EmptySeq, SentNothing, VarsSentNothing, ProgramArgsEmpty DEF VarsSent
<1>3. ASSUME NEW p \in Seq(Option(W)), NEW o \in Option(W), p \in P
      PROVE  Append(p, o) \in P
  <2>1. TokenizeArgs(Spread(F, p)) = ProgramArgs(p, FALSE)
    BY <1>3
  <2>2. F[o] = TextOf(o)
    BY DEF TextMap
  <2>3. TextOf(o) \in Seq(Piece(W)) /\ TokenizeArgs(TextOf(o)) = ArgsOf(o, FALSE)
    BY TokensOfText
  <2>4. ProgramArgs(Append(p, o), FALSE) = ProgramArgs(p, FALSE) \o ArgsOf(o, FALSE)
    BY ProgramArgsGrow
  <2>5. Append(p, o) \in Seq(Option(W))
    BY AppendProperties
  <2> HIDE DEF P, F
  <2>6. Spread(F, Append(p, o)) = Spread(F, p) \o F[o] /\ Spread(F, p) \in Seq(Piece(W))
    BY <1>1, SpreadGrow, SpreadType
  <2>7. TokenizeArgs(Spread(F, p) \o TextOf(o))
          = TokenizeArgs(Spread(F, p)) \o TokenizeArgs(TextOf(o))
    BY <2>3, <2>6, TokensConcat
  <2>8. TokenizeArgs(Spread(F, Append(p, o))) = ProgramArgs(Append(p, o), FALSE)
    BY <2>1, <2>2, <2>3, <2>4, <2>6, <2>7
  <2> QED BY <2>5, <2>8 DEF P, F
<1> HIDE DEF P
<1>4. \A p \in Seq(Option(W)) : p \in P
  BY <1>2, <1>3, EverySeq
<1> QED BY <1>1, <1>4 DEF P

\* Options one list behind the other.
LEMMA ValuesConcat ==
  ASSUME NEW S, NEW p \in Seq(S), NEW q \in Seq(S), NEW f
  PROVE  ValuesOf(p \o q, f) = ValuesOf(p, f) \cup ValuesOf(q, f)
<1> DEFINE P == {t \in Seq(S) : ValuesOf(p \o t, f) = ValuesOf(p, f) \cup ValuesOf(t, f)}
<1>1. <<>> \in P
  <2>1. p \o <<>> = p
    BY ConcatEmptySeq
  <2> QED BY <2>1, NoOptions, EmptySeq
<1>2. ASSUME NEW t \in Seq(S), NEW o \in S, t \in P PROVE Append(t, o) \in P
  <2>1. ValuesOf(p \o t, f) = ValuesOf(p, f) \cup ValuesOf(t, f)
    BY <1>2
  <2> HIDE DEF P
  <2> DEFINE u == p \o t
  <2>2. p \o Append(t, o) = Append(u, o) /\ u \in Seq(S)
    BY ConcatAppend, ConcatProperties
  <2> HIDE DEF u
  <2>3. ValuesOf(Append(u, o), f) = ValuesOf(u, f) \cup (IF o.flag = f THEN {o.value} ELSE {})
    BY <2>2, ValuesGrow
  <2>4. ValuesOf(Append(t, o), f) = ValuesOf(t, f) \cup (IF o.flag = f THEN {o.value} ELSE {})
    BY ValuesGrow
  <2>5. ValuesOf(p \o Append(t, o), f) = ValuesOf(p, f) \cup ValuesOf(Append(t, o), f)
    BY <2>1, <2>2, <2>3, <2>4 DEF u
  <2> QED BY <2>5, AppendProperties DEF P
<1> HIDE DEF P
<1>3. \A t \in Seq(S) : t \in P
  BY <1>1, <1>2, EverySeq
<1> QED BY <1>3 DEF P

\* The options of the second part set a key over those of the first.
LEMMA EnvConcat ==
  ASSUME NEW S, NEW p \in Seq(S), NEW q \in Seq(S), NEW k, NEW e
  PROVE  EnvOf(p \o q, k, e) = EnvOf(q, k, EnvOf(p, k, e))
<1> DEFINE P == {t \in Seq(S) : EnvOf(p \o t, k, e) = EnvOf(t, k, EnvOf(p, k, e))}
           d == EnvOf(p, k, e)
<1>1. <<>> \in P
  <2>1. p \o <<>> = p
    BY ConcatEmptySeq
  <2> QED BY <2>1, NoOptions, EmptySeq
<1>2. ASSUME NEW t \in Seq(S), NEW o \in S, t \in P PROVE Append(t, o) \in P
  <2>1. EnvOf(p \o t, k, e) = EnvOf(t, k, d)
    BY <1>2
  <2> HIDE DEF P, d
  <2> DEFINE u == p \o t
  <2>2. p \o Append(t, o) = Append(u, o) /\ u \in Seq(S)
    BY ConcatAppend, ConcatProperties
  <2> HIDE DEF u
  <2>3. EnvOf(Append(u, o), k, e) = IF SetsKey(o, k) THEN o.value ELSE EnvOf(u, k, e)
    BY <2>2, EnvGrow
  <2>4. EnvOf(Append(t, o), k, d) = IF SetsKey(o, k) THEN o.value ELSE EnvOf(t, k, d)
    BY EnvGrow
  <2>5. EnvOf(p \o Append(t, o), k, e) = EnvOf(Append(t, o), k, d)
    BY <2>1, <2>2, <2>3, <2>4 DEF u
  <2> QED BY <2>5, AppendProperties DEF P, d
<1> HIDE DEF P
<1>3. \A t \in Seq(S) : t \in P
  BY <1>1, <1>2, EverySeq
<1> QED BY <1>3 DEF P

SetKeys(env)     == {k \in DOMAIN env : env[k] # <<>>}
EnvOptions(env)  ==
  [i \in 1..Len(SetToSeq(SetKeys(env))) |->
     [flag |-> "--env", value |-> env[SetToSeq(SetKeys(env))[i]]]]
EnvLines(env)    ==
  [i \in 1..Len(SetToSeq(SetKeys(env))) |->
     <<Bare(<<"--env">>), Bare(env[SetToSeq(SetKeys(env))[i]])>>]

\* Options that are all --env have no skip flags and no patterns.
LEMMA NoSkipsInEnv ==
  ASSUME NEW W
  PROVE  \A p \in Seq({o \in Option(W) : o.flag = "--env"}) :
           /\ p \in Seq(Option(W)) /\ SkipsOf(p) = <<>>
           /\ \A f : f # "--env" => ValuesOf(p, f) = {}
<1> DEFINE E == {o \in Option(W) : o.flag = "--env"}
           P == {p \in Seq(E) : /\ p \in Seq(Option(W)) /\ SkipsOf(p) = <<>>
                                /\ \A f : f # "--env" => ValuesOf(p, f) = {}}
<1>1. <<>> \in P
  BY NoOptions, EmptySeq
<1>2. ASSUME NEW p \in Seq(E), NEW o \in E, p \in P PROVE Append(p, o) \in P
  <2>1. /\ p \in Seq(Option(W)) /\ SkipsOf(p) = <<>>
        /\ \A f : f # "--env" => ValuesOf(p, f) = {}
    BY <1>2
  <2>2. o \in Option(W) /\ o.flag = "--env"
    OBVIOUS
  <2> HIDE DEF P, E
  <2>3. SkipsOf(Append(p, o)) = SkipsOf(p) \o SkipOf(o)
    BY <2>1, <2>2, SkipsGrow
  <2>4. SkipOf(o) = <<>>
    BY <2>2 DEF SkipOf, SkipFlags
  <2>5. <<>> \o <<>> = <<>>
    OBVIOUS
  <2>6. \A f : f # "--env" => ValuesOf(Append(p, o), f) = {}
    <3> TAKE f
    <3>1. ValuesOf(Append(p, o), f)
            = ValuesOf(p, f) \cup (IF o.flag = f THEN {o.value} ELSE {})
      BY <2>1, <2>2, ValuesGrow
    <3> QED BY <2>1, <2>2, <3>1
  <2>7. Append(p, o) \in Seq(Option(W)) /\ Append(p, o) \in Seq(E)
    BY <2>1, <2>2, AppendProperties
  <2> QED BY <2>1, <2>3, <2>4, <2>5, <2>6, <2>7 DEF P
<1> HIDE DEF P, E
<1>3. \A p \in Seq(E) : p \in P
  BY <1>1, <1>2, EverySeq
<1> QED BY <1>3 DEF P, E

\* The environment's lines are the text of one --env option for every key that is
\* set, and read from nothing these give the environment.
LEMMA EnvOptionsFacts ==
  ASSUME NEW W, Flags \subseteq W, NEW env, IsFiniteSet(DOMAIN env), EnvFits(env, W)
  PROVE  /\ EnvOptions(env) \in Seq(Option(W)) /\ SkipsOf(EnvOptions(env)) = <<>>
         /\ \A f : f # "--env" => ValuesOf(EnvOptions(env), f) = {}
         /\ \A k \in DOMAIN env : EnvOf(EnvOptions(env), k, <<>>) = env[k]
         /\ EnvLines(env) \in Seq(Seq(Piece(W)))
         /\ FlattenSeq(EnvLines(env)) = Spread(TextMap(W), EnvOptions(env))
<1> DEFINE S == SetKeys(env)
           keys == SetToSeq(S)
           n == Len(keys)
           w == EnvOptions(env)
           E == {o \in Option(W) : o.flag = "--env"}
<1>1. IsFiniteSet(S)
  BY FS_Subset DEF SetKeys
<1>2. keys \in Seq(S) /\ \A k \in S : \E i \in 1..n : keys[i] = k
  BY <1>1, KeysInOrder
<1>3. n \in Nat /\ \A i \in 1..n : keys[i] \in S
  BY <1>2, LenProperties, ElementOfSeq
<1>4. \A k \in S : k \in DOMAIN env /\ env[k] \in Setting(W) /\ KeyOf[Head(env[k])] = k
  BY DEF SetKeys, EnvFits
<1>5. w = [i \in 1..n |-> [flag |-> "--env", value |-> env[keys[i]]]]
  BY DEF EnvOptions
<1>6. EnvLines(env) = [i \in 1..n |-> <<Bare(<<"--env">>), Bare(env[keys[i]])>>]
  BY DEF EnvLines
<1> HIDE DEF w, n, keys, S
<1>7. \A i \in 1..n : w[i] = [flag |-> "--env", value |-> env[keys[i]]]
  BY <1>5
<1>8. \A i \in 1..n : w[i] \in E
  <2> TAKE i \in 1..n
  <2> DEFINE v == env[keys[i]]
  <2>1. v \in Setting(W) /\ w[i] = [flag |-> "--env", value |-> v]
    BY <1>3, <1>4, <1>7
  <2> HIDE DEF v
  <2>2. [flag |-> "--env", value |-> v] \in [flag : {"--env"}, value : Setting(W)]
    BY <2>1
  <2> QED BY <2>1, <2>2 DEF Option
<1>9. w \in Seq(E) /\ Len(w) = n /\ DOMAIN w = 1..n
  <2>1. w = [i \in 1..n |-> w[i]] /\ DOMAIN w = 1..n
    BY <1>5
  <2> HIDE DEF E
  <2> QED BY <1>3, <1>8, <2>1, IsASeq
<1>10. /\ w \in Seq(Option(W)) /\ SkipsOf(w) = <<>>
       /\ \A f : f # "--env" => ValuesOf(w, f) = {}
  BY <1>9, NoSkipsInEnv
<1>11. \A i \in 1..n : /\ w[i].flag = "--env" /\ w[i].value = env[keys[i]]
                       /\ KeyOf[Head(w[i].value)] = keys[i]
  <2> TAKE i \in 1..n
  <2>1. keys[i] \in S
    BY <1>3
  <2>2. KeyOf[Head(env[keys[i]])] = keys[i]
    BY <1>4, <2>1
  <2> DEFINE v == env[keys[i]]
  <2>3. w[i] = [flag |-> "--env", value |-> v]
    BY <1>7
  <2> HIDE DEF v
  <2>4. w[i].flag = "--env" /\ w[i].value = v
    BY <2>3
  <2> QED BY <2>2, <2>4 DEF v
<1>12. ASSUME NEW k \in DOMAIN env PROVE EnvOf(w, k, <<>>) = env[k]
  <2>1. \A i : i \in SetsOf(w, k) <=> i \in 1..n /\ keys[i] = k
    BY <1>9, <1>11 DEF SetsOf
  <2>2. CASE k \in S
    <3>1. SetsOf(w, k) # {} /\ SetsOf(w, k) \in SUBSET (1..n)
      BY <1>2, <2>1, <2>2
    <3>2. Max(SetsOf(w, k)) \in SetsOf(w, k)
      BY <1>3, <3>1, LastPosition
    <3>3. w[Max(SetsOf(w, k))].value = env[k]
      BY <1>11, <2>1, <3>2
    <3> QED BY <3>1, <3>3 DEF EnvOf
  <2>3. CASE k \notin S
    <3>1. SetsOf(w, k) = {}
      BY <1>3, <2>1, <2>3
    <3>2. env[k] = <<>>
      BY <2>3 DEF S, SetKeys
    <3> QED BY <3>1, <3>2 DEF EnvOf
  <2> QED BY <2>2, <2>3
<1>13. \A i \in 1..n : TextOf(w[i]) = <<Bare(<<"--env">>), Bare(env[keys[i]])>>
  <2> TAKE i \in 1..n
  <2>1. w[i].value \in Setting(W) /\ w[i].value = env[keys[i]] /\ w[i].flag = "--env"
    BY <1>3, <1>4, <1>11
  <2>2. w[i].value # <<>> /\ Len(w[i].value) = 1
    BY <2>1 DEF Setting, Value
  <2>3. Formatted(w[i].value) = Bare(w[i].value)
    <3>1. (Len(w[i].value) > 1) = FALSE
      BY <2>2
    <3> QED BY <3>1, Zenon DEF Formatted, Bare
  <2> QED BY <2>1, <2>2, <2>3 DEF TextOf
<1>14. EnvLines(env) = [i \in 1..n |-> TextMap(W)[w[i]]]
  <2>1. \A i \in 1..n : TextMap(W)[w[i]] = TextOf(w[i])
    BY <1>8 DEF TextMap
  <2> QED BY <1>6, <1>13, <2>1
<1>15. FlattenSeq(EnvLines(env)) = Spread(TextMap(W), w)
  BY <1>9, <1>14 DEF Spread
<1>16. EnvLines(env) \in Seq(Seq(Piece(W)))
  <2>1. \A i \in 1..n : TextMap(W)[w[i]] \in Seq(Piece(W))
    BY <1>8, TextsSent DEF Gives
  <2> QED BY <1>3, <1>14, <2>1, IsASeq
<1> QED BY <1>10, <1>12, <1>15, <1>16 DEF w
-----------------------------------------------------------------------------
(* The options of a run, as the device reads them from its command.        *)

Carried(p, T, h, env, r) ==
  /\ TokenizeArgs(FilterParts(T)) = ProgramArgs(r, FALSE)
  /\ SkipsOf(r) = SkipsOf(p)
  /\ \A f \in {"--tc", "--tce", "--no-skip"} : ValuesOf(r, f) = ValuesOf(p, f)
  /\ \A k \in DOMAIN h : EnvOf(r, k, env[k]) = EnvOf(p, k, h[k])

\* Where the host's environment holds settings, the options leave settings there.
LEMMA EnvSettled ==
  ASSUME NEW W, NEW p \in Seq(Option(W)), NEW h, EnvFits(h, W), NEW k \in DOMAIN h
  PROVE  LET e == EnvOf(p, k, h[k])
         IN  e = <<>> \/ (e \in Setting(W) /\ KeyOf[Head(e)] = k)
<1>1. CASE SetsOf(p, k) = {}
  BY <1>1 DEF EnvOf, EnvFits
<1>2. CASE SetsOf(p, k) # {}
  <2> DEFINE m == Max(SetsOf(p, k))
  <2>1. SetsOf(p, k) \in SUBSET (1..Len(p)) /\ Len(p) \in Nat
    BY LenProperties DEF SetsOf
  <2>2. m \in SetsOf(p, k)
    BY <1>2, <2>1, LastPosition
  <2> HIDE DEF m
  <2>3. m \in 1..Len(p) /\ p[m].flag = "--env" /\ KeyOf[Head(p[m].value)] = k
    BY <2>1, <2>2 DEF SetsOf
  <2>4. p[m] \in Option(W)
    BY <2>3, ElementOfSeq
  <2>5. p[m].value \in Setting(W)
    BY <2>3, <2>4, OptionFacts
  <2>6. EnvOf(p, k, h[k]) = p[m].value
    BY <1>2 DEF EnvOf, m
  <2> QED BY <2>3, <2>5, <2>6
<1> QED BY <1>1, <1>2

\* _collect_env_vars looks up the last --env of each key.
LEMMA HostEnv ==
  ASSUME NEW T, NEW h
  PROVE  /\ DOMAIN CollectEnvVars(T, h) = DOMAIN h
         /\ \A k \in DOMAIN h : CollectEnvVars(T, h)[k] = EnvAt(T, k, h[k])
BY DEF CollectEnvVars, EnvAt, EnvsAt

\* The program arguments of options whose values are single words when whole
\* is set leave the host as a filter text and an environment that together
\* read as the options do.
LEMMA HostOptions ==
  ASSUME NEW W, Flags \subseteq W, NEW p \in Seq(Option(W)), NEW whole \in BOOLEAN,
         whole => p \in Seq(Short(W)), NEW h, EnvFits(h, W)
  PROVE  LET T == ProgramArgs(p, whole)
         IN  /\ FilterParts(T) \in Seq(Piece(W))
             /\ EnvFits(CollectEnvVars(T, h), W)
             /\ \E r \in Seq(Option(W)) : Carried(p, T, h, CollectEnvVars(T, h), r)
<1> DEFINE T == ProgramArgs(p, whole)
           env == CollectEnvVars(T, h)
<1>1. T \in Seq(Seq(W))
  BY ProgramArgsType
<1>2. DOMAIN env = DOMAIN h /\ \A k \in DOMAIN h : env[k] = EnvAt(T, k, h[k])
  BY HostEnv
<1> HIDE DEF env
<1>3. CASE whole
  <2>1. p \in Seq(Short(W)) /\ T = ProgramArgs(p, TRUE)
    BY <1>3
  <2>2. Marked(T) /\ TokenizeArgs(FilterParts(T)) = ProgramArgs(p, FALSE)
    BY <2>1, WholeSent DEF SentWhole
  <2> HIDE DEF T
  <2>3. \A k, e : EnvAt(T, k, e) = e
    BY <1>1, <2>2, MarkedParts
  <2>4. \A k \in DOMAIN h : env[k] = h[k]
    BY <1>2, <2>3
  <2>5. EnvFits(env, W)
    BY <1>2, <2>4 DEF EnvFits
  <2>6. Carried(p, T, h, env, p)
    BY <2>2, <2>4 DEF Carried
  <2>7. FilterParts(T) \in Seq(Piece(W))
    BY <1>1, PartsType
  <2> QED BY <2>5, <2>6, <2>7 DEF T, env
<1>4. CASE ~whole
  <2>1. T = ProgramArgs(p, FALSE)
    BY <1>4
  <2>2. PICK r \in Seq(Option(W)) : Sent(p, r)
    BY OptionsSent
  <2>3. ReadAs(T, p)
    BY <2>1, OptionsRead
  <2>4. TokenizeArgs(FilterParts(T)) = ProgramArgs(r, FALSE)
    BY <2>1, <2>2 DEF Sent
  <2> HIDE DEF T
  <2>5. \A k, e : EnvAt(T, k, e) = EnvOf(p, k, e)
    BY <2>3 DEF ReadAs
  <2>6. \A k \in DOMAIN h : env[k] = EnvOf(p, k, h[k])
    BY <1>2, <2>5
  <2>7. EnvFits(env, W)
    <3> SUFFICES ASSUME NEW k \in DOMAIN h
                 PROVE  env[k] = <<>> \/ (env[k] \in Setting(W) /\ KeyOf[Head(env[k])] = k)
      BY <1>2 DEF EnvFits
    <3>1. env[k] = EnvOf(p, k, h[k])
      BY <2>6
    <3> QED BY <3>1, EnvSettled
  <2>8. Carried(p, T, h, env, r)
    BY <2>2, <2>4, <2>6 DEF Carried, Sent
  <2>9. FilterParts(T) \in Seq(Piece(W))
    BY <1>1, PartsType
  <2> QED BY <2>7, <2>8, <2>9 DEF T, env
<1> QED BY <1>3, <1>4

\* What options q have to say for them to stand for p, vars and the host's
\* environment h, once the device has env.
StandsFor(q, p, vars, h, env) ==
  /\ \A f \in {"--tc", "--tce"} : ValuesOf(q, f) = ValuesOf(p, f) \cup ({vars[f]} \ {<<>>})
  /\ ValuesOf(q, "--no-skip") # {}
       <=> ValuesOf(p, "--no-skip") \cup ({vars["--no-skip"]} \ {<<>>}) # {}
  /\ SkipsOf(q) = SkipsOf(p) \o FlattenSeq([i \in Slots |-> VarSkips(vars)[i]])
  /\ \A k \in DOMAIN h : EnvOf(q, k, env[k]) = EnvOf(p, k, h[k])

\* The filter parts of a command are the text of options that stand for those
\* of the run.
LEMMA FiltersSent ==
  ASSUME NEW W, Flags \subseteq W, NEW p \in Seq(Option(W)), NEW whole \in BOOLEAN,
         whole => p \in Seq(Short(W)), NEW h, EnvFits(h, W), NEW vars, VarsFit(vars, W)
  PROVE  LET T     == ProgramArgs(p, whole)
             parts == FilterParts(T) \o VarParts(vars)
         IN  /\ parts \in Seq(Piece(W))
             /\ EnvFits(CollectEnvVars(T, h), W)
             /\ \E q \in Seq(Option(W)) :
                  /\ TokenizeArgs(parts) = ProgramArgs(q, FALSE)
                  /\ StandsFor(q, p, vars, h, CollectEnvVars(T, h))
<1> DEFINE T == ProgramArgs(p, whole)
           env == CollectEnvVars(T, h)
           x == FilterParts(T)
           y == VarParts(vars)
           skips == FlattenSeq([i \in Slots |-> VarSkips(vars)[i]])
<1>1. x \in Seq(Piece(W)) /\ EnvFits(env, W)
  BY HostOptions
<1>2. PICK r \in Seq(Option(W)) : Carried(p, T, h, env, r)
  BY HostOptions
<1>3. PICK v \in Seq(Option(W)) :
           /\ TokenizeArgs(y) = ProgramArgs(v, FALSE) /\ SkipsOf(v) = skips
           /\ \A k, e : EnvOf(v, k, e) = e
           /\ \A f \in {"--tc", "--tce"} : ValuesOf(v, f) = {vars[f]} \ {<<>>}
           /\ ValuesOf(v, "--no-skip") # {} <=> vars["--no-skip"] # <<>>
           /\ y \in Seq(Piece(W))
  BY VariablesSent
<1>4. TokenizeArgs(x) = ProgramArgs(r, FALSE)
  BY <1>2 DEF Carried
<1> DEFINE q == r \o v
<1>5. q \in Seq(Option(W))
  <2> DEFINE S == Option(W)
  <2>1. r \in Seq(S) /\ v \in Seq(S)
    OBVIOUS
  <2> HIDE DEF S
  <2>2. r \o v \in Seq(S)
    BY <2>1, Concatenated
  <2> QED BY <2>2 DEF S
<1> HIDE DEF T, env, x, y, skips, q
<1>6. x \o y \in Seq(Piece(W)) /\ TokenizeArgs(x \o y) = TokenizeArgs(x) \o TokenizeArgs(y)
  <2>1. x \in Seq(Piece(W)) /\ y \in Seq(Piece(W))
    BY <1>1, <1>3
  <2> QED BY <2>1, TokensConcat, Zenon
<1>7. TokenizeArgs(x \o y) = ProgramArgs(q, FALSE)
  <2>1. ProgramArgs(r \o v, FALSE) = ProgramArgs(r, FALSE) \o ProgramArgs(v, FALSE)
    <3> DEFINE apart == FALSE
    <3>1. /\ ProgramArgs(r \o v, FALSE) = ProgramArgs(r \o v, apart)
          /\ ProgramArgs(r, FALSE) = ProgramArgs(r, apart)
          /\ ProgramArgs(v, FALSE) = ProgramArgs(v, apart)
      OBVIOUS
    <3> HIDE DEF apart
    <3>2. ProgramArgs(r \o v, apart) = ProgramArgs(r, apart) \o ProgramArgs(v, apart)
      BY ProgramArgsConcat
    <3> QED BY <3>1, <3>2
  <2> QED BY <1>3, <1>4, <1>6, <2>1 DEF q
<1>8. \A f \in {"--tc", "--tce"} : ValuesOf(q, f) = ValuesOf(p, f) \cup ({vars[f]} \ {<<>>})
  <2> TAKE f \in {"--tc", "--tce"}
  <2>1. ValuesOf(q, f) = ValuesOf(r, f) \cup ValuesOf(v, f)
    BY ValuesConcat DEF q
  <2>2. ValuesOf(r, f) = ValuesOf(p, f)
    BY <1>2 DEF Carried
  <2> QED BY <1>3, <2>1, <2>2
<1>9. ValuesOf(q, "--no-skip") # {}
        <=> ValuesOf(p, "--no-skip") \cup ({vars["--no-skip"]} \ {<<>>}) # {}
  <2>1. ValuesOf(q, "--no-skip") = ValuesOf(r, "--no-skip") \cup ValuesOf(v, "--no-skip")
    BY ValuesConcat DEF q
  <2>2. ValuesOf(r, "--no-skip") = ValuesOf(p, "--no-skip")
    BY <1>2 DEF Carried
  <2>3. ValuesOf(v, "--no-skip") # {} <=> {vars["--no-skip"]} \ {<<>>} # {}
    BY <1>3
  <2> QED BY <2>1, <2>2, <2>3
<1>10. SkipsOf(q) = SkipsOf(p) \o skips
  <2>1. SkipsOf(r \o v) = SkipsOf(r) \o SkipsOf(v)
    BY SkipsConcat
  <2>2. SkipsOf(r) = SkipsOf(p)
    BY <1>2 DEF Carried
  <2> QED BY <1>3, <2>1, <2>2 DEF q
<1>11. \A k \in DOMAIN h : EnvOf(q, k, env[k]) = EnvOf(p, k, h[k])
  <2> TAKE k \in DOMAIN h
  <2>1. EnvOf(q, k, env[k]) = EnvOf(v, k, EnvOf(r, k, env[k]))
    BY EnvConcat DEF q
  <2>2. EnvOf(r, k, env[k]) = EnvOf(p, k, h[k])
    BY <1>2 DEF Carried
  <2> QED BY <1>3, <2>1, <2>2
<1>12. StandsFor(q, p, vars, h, env)
  BY <1>8, <1>9, <1>10, <1>11 DEF StandsFor, skips
<1> QED BY <1>1, <1>5, <1>6, <1>7, <1>12 DEF T, env, x, y

\* What is asked for, in the terms above.
LEMMA AskedFacts ==
  ASSUME NEW p, NEW vars, NEW h
  PROVE  Asked(p, vars, h) =
           [tc     |-> ValuesOf(p, "--tc") \cup ({vars["--tc"]} \ {<<>>}),
            tce    |-> ValuesOf(p, "--tce") \cup ({vars["--tce"]} \ {<<>>}),
            flags  |-> SkipsOf(p) \o FlattenSeq([i \in Slots |-> VarSkips(vars)[i]]),
            noskip |-> ValuesOf(p, "--no-skip") \cup ({vars["--no-skip"]} \ {<<>>}) # {},
            env    |-> [k \in DOMAIN h |-> EnvOf(p, k, h[k])]]
<1> DEFINE var(i) == IF EnvMap[i] \in SkipFlags /\ vars[EnvMap[i]] # <<>>
                     THEN <<<<EnvMap[i], vars[EnvMap[i]]>>>> ELSE <<>>
<1>1. ASSUME NEW i \in Slots PROVE var(i) = VarSkips(vars)[i]
  <2>1. VarSkips(vars)[i] = IF vars[EnvMap[i]] = <<>> THEN <<>> ELSE SkipOf(VarOption(vars, i))
    BY DEF VarSkips
  <2>2. EnvMap[i] \in SkipFlags => EnvMap[i] # "--no-skip"
    BY DEF SkipFlags
  <2> DEFINE w == vars[EnvMap[i]]
             f == EnvMap[i]
             u == IF f = "--no-skip" THEN <<>> ELSE w
  <2>3. VarOption(vars, i) = [flag |-> f, value |-> u]
    BY DEF VarOption
  <2>4. f \in SkipFlags => u = w
    BY <2>2
  <2> HIDE DEF u, w, f
  <2>5. SkipOf(VarOption(vars, i)) = IF f \in SkipFlags THEN <<<<f, u>>>> ELSE <<>>
    BY <2>3 DEF SkipOf
  <2> QED BY <2>1, <2>4, <2>5 DEF w, f
<1>2. Pieces(Len(EnvMap), var) = FlattenSeq([i \in 1..5 |-> var(i)])
  BY EnvMapFacts DEF Pieces
<1>3. [i \in 1..5 |-> var(i)] = [i \in Slots |-> VarSkips(vars)[i]]
  BY <1>1 DEF Slots
<1>4. Pieces(Len(EnvMap), var) = FlattenSeq([i \in Slots |-> VarSkips(vars)[i]])
  BY <1>2, <1>3
<1> HIDE DEF var
<1>5. Asked(p, vars, h) =
        [tc     |-> ValuesOf(p, "--tc") \cup ({vars["--tc"]} \ {<<>>}),
         tce    |-> ValuesOf(p, "--tce") \cup ({vars["--tce"]} \ {<<>>}),
         flags  |-> SkipsOf(p) \o Pieces(Len(EnvMap), var),
         noskip |-> ValuesOf(p, "--no-skip") \cup ({vars["--no-skip"]} \ {<<>>}) # {},
         env    |-> [k \in DOMAIN h |-> EnvOf(p, k, h[k])]]
  BY Zenon DEF Asked, ValuesOf, SkipsOf, SkipOf, SetsOf, EnvOf, Pieces, var
<1> QED BY <1>4, <1>5, Zenon

\* The device's reading of options that stand for those of the run.
LEMMA MeantAsAsked ==
  ASSUME NEW p, NEW vars, NEW h, NEW env, NEW q, StandsFor(q, p, vars, h, env)
  PROVE  LET e == [k \in DOMAIN h |-> env[k]]
         IN  Meant(q, e) = Asked(p, vars, h)
<1> DEFINE e == [k \in DOMAIN h |-> env[k]]
           tc   == ValuesOf(p, "--tc") \cup ({vars["--tc"]} \ {<<>>})
           tce  == ValuesOf(p, "--tce") \cup ({vars["--tce"]} \ {<<>>})
           asks == ValuesOf(p, "--no-skip") \cup ({vars["--no-skip"]} \ {<<>>})
           skips == SkipsOf(p) \o FlattenSeq([i \in Slots |-> VarSkips(vars)[i]])
           map  == [k \in DOMAIN h |-> EnvOf(p, k, h[k])]
<1>1. ValuesOf(q, "--tc") = tc /\ ValuesOf(q, "--tce") = tce /\ SkipsOf(q) = skips
  BY DEF StandsFor
<1>2. (ValuesOf(q, "--no-skip") # {}) = (asks # {})
  <2>1. ValuesOf(q, "--no-skip") # {} <=> asks # {}
    BY DEF StandsFor
  <2> HIDE DEF asks
  <2> QED BY <2>1, Zenon
<1>3. DOMAIN e = DOMAIN h /\ [k \in DOMAIN h |-> EnvOf(q, k, e[k])] = map
  <2>1. \A k \in DOMAIN h : e[k] = env[k]
    OBVIOUS
  <2>2. \A k \in DOMAIN h : EnvOf(q, k, e[k]) = EnvOf(p, k, h[k])
    BY <2>1 DEF StandsFor
  <2>3. DOMAIN e = DOMAIN h
    OBVIOUS
  <2> HIDE DEF e
  <2> QED BY <2>2, <2>3
<1>4. Asked(p, vars, h)
        = [tc |-> tc, tce |-> tce, flags |-> skips, noskip |-> asks # {}, env |-> map]
  BY AskedFacts
<1> HIDE DEF e, tc, tce, asks, skips, map
<1>5. Meant(q, e)
        = [tc |-> tc, tce |-> tce, flags |-> skips, noskip |-> asks # {},
           env |-> [k \in DOMAIN e |-> EnvOf(q, k, e[k])]]
  BY <1>1, <1>2, Zenon DEF Meant
<1>6. [k \in DOMAIN e |-> EnvOf(q, k, e[k])] = map
  BY <1>3
<1> QED BY <1>4, <1>5, <1>6 DEF e

Lines(x, parts) == x \o (IF parts = <<>> THEN <<>> ELSE <<parts>>)

\* The body of RUN is the environment's lines and the filter parts.
LEMMA RunBody ==
  ASSUME NEW W, NEW x \in Seq(Seq(Piece(W))), NEW parts \in Seq(Piece(W))
  PROVE  FlattenSeq(Lines(x, parts)) = FlattenSeq(x) \o parts
<1> DEFINE E == Piece(W)
<1>1. FlattenSeq(x) \in Seq(E)
  BY FlattenType
<1> HIDE DEF E
<1>2. CASE parts = <<>>
  <2>1. x \o <<>> = x /\ FlattenSeq(x) \o <<>> = FlattenSeq(x)
    BY <1>1, ConcatEmptySeq
  <2> QED BY <1>2, <2>1 DEF Lines
<1>3. CASE parts # <<>>
  <2>1. x \o <<parts>> = Append(x, parts)
    BY ConcatOne
  <2>2. FlattenSeq(Append(x, parts)) = FlattenSeq(x) \o parts
    BY FlattenAppend
  <2> QED BY <1>3, <2>1, <2>2 DEF Lines
<1> QED BY <1>2, <1>3

\* The options of one `pio test`, as _build_args_and_run reads them.
Given(args, vars, h, resume) == [args |-> args, vars |-> vars, hostEnv |-> h, resume |-> resume]
PartsOf(args, vars)          == FilterParts(args) \o VarParts(vars)

\* What _build_args_and_run sends: RUN behind the lines of the environment and of
\* the filters, or RESUME_AFTER with the filters as its own text.
LEMMA Built ==
  ASSUME NEW args, NEW vars, NEW h, NEW resume, IsFiniteSet(DOMAIN h)
  PROVE  LET c     == BuildArgsAndRun(Given(args, vars, h, resume))
             parts == PartsOf(args, vars)
             env   == CollectEnvVars(args, h)
         IN  /\ resume = <<>> =>
                  /\ c.tag = "RUN"
                  /\ Body(c) = FlattenSeq(Lines(EnvLines(env), parts))
             /\ resume # <<>> => c.tag = "RESUME_AFTER" /\ Body(c) = parts
<1> DEFINE o     == Given(args, vars, h, resume)
           c     == BuildArgsAndRun(o)
           parts == PartsOf(args, vars)
           env   == CollectEnvVars(args, h)
           keys  == SetToSeq(SetKeys(env))
           x     == [i \in DOMAIN keys |-> <<Bare(<<"--env">>), Bare(env[keys[i]])>>]
<1>1. o.args = args /\ o.vars = vars /\ o.hostEnv = h /\ o.resume = resume
  BY DEF Given
<1> HIDE DEF o
<1>2. c = [lines |-> Lines(x, parts),
           tag   |-> IF resume # <<>> THEN "RESUME_AFTER" ELSE "RUN",
           text  |-> IF resume # <<>> THEN parts ELSE <<>>]
  BY <1>1 DEF BuildArgsAndRun, SetKeys, PartsOf, Lines
<1>3. keys \in Seq(SetKeys(env))
  <2>1. DOMAIN env = DOMAIN h
    BY HostEnv
  <2>2. IsFiniteSet(SetKeys(env))
    BY <2>1, FS_Subset DEF SetKeys
  <2> QED BY <2>2, KeysInOrder
<1>4. x = EnvLines(env)
  BY <1>3 DEF EnvLines
<1> HIDE DEF c, x, parts, env, keys
<1>5. c.lines = Lines(EnvLines(env), parts)
  BY <1>2, <1>4
<1>6. resume = <<>> => c.tag = "RUN" /\ Body(c) = FlattenSeq(c.lines)
  BY <1>2 DEF Body
<1>7. resume # <<>> => c.tag = "RESUME_AFTER" /\ Body(c) = parts
  BY <1>2 DEF Body
<1> QED BY <1>5, <1>6, <1>7 DEF o, c, parts, env

\* Where no filter is given two values, doctest runs by what is counted.
LEMMA OnceInForce ==
  ASSUME NEW o, NEW q, NEW e, Delivered(o) = Meant(q, e),
         Followed(Body(BuildArgsAndRun(o)), Delivered(o))
  PROVE  Once(Delivered(o)) => InForce(o) = Delivered(o)
<1> DEFINE d == Delivered(o)
           filters == ApplyCommandLine(Body(BuildArgsAndRun(o)))
           tc == ValuesOf(q, "--tc")
           tce == ValuesOf(q, "--tce")
           skips == SkipsOf(q)
           noskip == ValuesOf(q, "--no-skip") # {}
           env == [k \in DOMAIN e |-> EnvOf(q, k, e[k])]
<1>1. d = [tc |-> tc, tce |-> tce, flags |-> skips, noskip |-> noskip, env |-> env]
  BY DEF Meant
<1>2. InForce(o) = [d EXCEPT !.tc = filters.tc, !.tce = filters.tce]
  BY DEF InForce
<1>3. Once(d) => filters.tc = d.tc /\ filters.tce = d.tce
  BY DEF Followed
<1> HIDE DEF d, filters, tc, tce, skips, noskip, env
<1>4. [d EXCEPT !.tc = d.tc, !.tce = d.tce] = d
  BY <1>1
<1>5. Once(d) => InForce(o) = d
  BY <1>2, <1>3, <1>4
<1> QED BY <1>5 DEF d

\* A command without the environment leaves the rest of what is asked for.
LEMMA ResumeDelivers ==
  ASSUME NEW W, Flags \subseteq W, NEW p, NEW whole, NEW vars, NEW h, NEW resume,
         Expressible(p, whole, vars, h, W), resume # <<>>
  PROVE  LET d == Delivered(Given(ProgramArgs(p, whole), vars, h, resume))
             a == Asked(p, vars, h)
         IN  /\ [d EXCEPT !.env = a.env] = a
             /\ Once(a) => InForce(Given(ProgramArgs(p, whole), vars, h, resume)) = d
<1> DEFINE T     == ProgramArgs(p, whole)
           o     == Given(T, vars, h, resume)
           d     == Delivered(o)
           parts == PartsOf(T, vars)
           env   == CollectEnvVars(T, h)
           none  == [k \in DOMAIN h |-> <<>>]
<1>1. /\ p \in Seq(Option(W)) /\ whole \in BOOLEAN /\ (whole => p \in Seq(Short(W)))
      /\ VarsFit(vars, W) /\ EnvFits(h, W) /\ IsFiniteSet(DOMAIN h)
  BY DEF Expressible
<1>2. PICK q \in Seq(Option(W)) :
           TokenizeArgs(parts) = ProgramArgs(q, FALSE) /\ StandsFor(q, p, vars, h, env)
  BY <1>1, FiltersSent DEF PartsOf
<1>3. Body(BuildArgsAndRun(o)) = parts
  <2> HIDE DEF T
  <2>1. IsFiniteSet(DOMAIN h)
    BY <1>1
  <2>2. resume # <<>> => Body(BuildArgsAndRun(o)) = parts
    BY <2>1, Built
  <2> QED BY <2>2
<1>4. o.hostEnv = h
  BY DEF Given
<1> HIDE DEF o, parts, env
<1>5. d = ApplyRunFilters(parts, DOMAIN h)
  BY <1>3, <1>4 DEF Delivered
<1>6. d = Meant(q, none) /\ Followed(parts, d)
  <2>1. /\ ApplyRunFilters(parts, DOMAIN h) = Meant(q, none)
        /\ Followed(parts, ApplyRunFilters(parts, DOMAIN h))
    BY <1>2, DeviceReads
  <2> QED BY <1>5, <2>1, Zenon
<1> DEFINE e == [k \in DOMAIN h |-> env[k]]
<1>7. Meant(q, e) = Asked(p, vars, h)
  BY <1>2, MeantAsAsked
<1> HIDE DEF d, none, e
<1>8. [Meant(q, none) EXCEPT !.env = Meant(q, e).env] = Meant(q, e)
  <2> DEFINE tc == ValuesOf(q, "--tc")
             tce == ValuesOf(q, "--tce")
             skips == SkipsOf(q)
             noskip == ValuesOf(q, "--no-skip") # {}
             x == [k \in DOMAIN none |-> EnvOf(q, k, none[k])]
             y == [k \in DOMAIN e |-> EnvOf(q, k, e[k])]
  <2>1. Meant(q, none) = [tc |-> tc, tce |-> tce, flags |-> skips, noskip |-> noskip, env |-> x]
    BY DEF Meant
  <2>2. Meant(q, e) = [tc |-> tc, tce |-> tce, flags |-> skips, noskip |-> noskip, env |-> y]
    BY DEF Meant
  <2> HIDE DEF tc, tce, skips, noskip, x, y
  <2>3. Meant(q, e).env = y
    BY <2>2
  <2>4. [Meant(q, none) EXCEPT !.env = y]
          = [tc |-> tc, tce |-> tce, flags |-> skips, noskip |-> noskip, env |-> y]
    BY <2>1
  <2> QED BY <2>2, <2>3, <2>4
<1>9. Once(Asked(p, vars, h)) => InForce(o) = d
  <2>1. Once(d) => InForce(o) = d
    BY <1>3, <1>6, OnceInForce DEF d
  <2>2. /\ Meant(q, none).tc = Meant(q, e).tc
        /\ Meant(q, none).tce = Meant(q, e).tce
    BY DEF Meant
  <2>3. Once(Asked(p, vars, h)) => Once(d)
    BY <1>6, <1>7, <2>2 DEF Once
  <2> QED BY <2>1, <2>3
<1> QED BY <1>6, <1>7, <1>8, <1>9 DEF d, o, T

\* RUN leaves exactly what is asked for: the environment's lines first, so that
\* the filters' options and those of the variables come behind them.
LEMMA RunDelivers ==
  ASSUME NEW W, Flags \subseteq W, NEW p, NEW whole, NEW vars, NEW h, NEW resume,
         Expressible(p, whole, vars, h, W), resume = <<>>
  PROVE  LET o == Given(ProgramArgs(p, whole), vars, h, resume)
             a == Asked(p, vars, h)
         IN  Delivered(o) = a /\ (Once(a) => InForce(o) = Delivered(o))
<1> DEFINE T     == ProgramArgs(p, whole)
           o     == Given(T, vars, h, resume)
           parts == PartsOf(T, vars)
           env   == CollectEnvVars(T, h)
           x     == EnvLines(env)
           w     == EnvOptions(env)
           none  == [k \in DOMAIN h |-> <<>>]
           e     == [k \in DOMAIN h |-> env[k]]
<1>1. /\ p \in Seq(Option(W)) /\ whole \in BOOLEAN /\ (whole => p \in Seq(Short(W)))
      /\ VarsFit(vars, W) /\ EnvFits(h, W) /\ IsFiniteSet(DOMAIN h)
  BY DEF Expressible
<1>2. parts \in Seq(Piece(W)) /\ EnvFits(env, W)
  BY <1>1, FiltersSent DEF PartsOf
<1>3. PICK q \in Seq(Option(W)) :
           TokenizeArgs(parts) = ProgramArgs(q, FALSE) /\ StandsFor(q, p, vars, h, env)
  BY <1>1, FiltersSent DEF PartsOf
<1>4. Body(BuildArgsAndRun(o))
        = FlattenSeq(Lines(x, parts))
  BY <1>1, Built
<1>5. o.hostEnv = h /\ DOMAIN env = DOMAIN h
  BY HostEnv DEF Given
<1> HIDE DEF o, parts, env, T
<1>6. /\ w \in Seq(Option(W)) /\ SkipsOf(w) = <<>>
      /\ \A f : f # "--env" => ValuesOf(w, f) = {}
      /\ \A k \in DOMAIN h : EnvOf(w, k, <<>>) = env[k]
      /\ x \in Seq(Seq(Piece(W))) /\ FlattenSeq(x) = Spread(TextMap(W), w)
  BY <1>1, <1>2, <1>5, EnvOptionsFacts
<1> DEFINE text == FlattenSeq(x)
<1>7. text \in Seq(Piece(W))
  <2> DEFINE E == Piece(W)
  <2>1. x \in Seq(Seq(E))
    BY <1>6
  <2> HIDE DEF E, x
  <2>2. FlattenSeq(x) \in Seq(E)
    BY <2>1, FlattenType
  <2> QED BY <2>2 DEF E
<1>8. TokenizeArgs(text) = ProgramArgs(w, FALSE)
  BY <1>6, TextsSent
<1> HIDE DEF x, w
<1>9. Body(BuildArgsAndRun(o)) = text \o parts
  BY <1>2, <1>4, <1>6, RunBody
<1> HIDE DEF text
<1> DEFINE r == w \o q
<1>10. r \in Seq(Option(W))
  BY <1>6, ConcatProperties
<1>11. TokenizeArgs(text \o parts) = ProgramArgs(r, FALSE)
  <2>1. TokenizeArgs(text \o parts) = TokenizeArgs(text) \o TokenizeArgs(parts)
    BY <1>2, <1>7, TokensConcat
  <2> DEFINE apart == FALSE
  <2>2. /\ ProgramArgs(w \o q, FALSE) = ProgramArgs(w \o q, apart)
        /\ ProgramArgs(w, FALSE) = ProgramArgs(w, apart)
        /\ ProgramArgs(q, FALSE) = ProgramArgs(q, apart)
    OBVIOUS
  <2> HIDE DEF apart
  <2>3. ProgramArgs(w \o q, apart) = ProgramArgs(w, apart) \o ProgramArgs(q, apart)
    BY <1>6, ProgramArgsConcat
  <2> QED BY <1>3, <1>8, <2>1, <2>2, <2>3
<1>12. \A f : f # "--env" => ValuesOf(r, f) = ValuesOf(q, f)
  <2> SUFFICES ASSUME NEW f, f # "--env" PROVE ValuesOf(r, f) = ValuesOf(q, f)
    OBVIOUS
  <2>1. ValuesOf(r, f) = ValuesOf(w, f) \cup ValuesOf(q, f)
    BY <1>6, ValuesConcat
  <2> QED BY <1>6, <2>1
<1>13. SkipsOf(r) = SkipsOf(q)
  <2> DEFINE S == SkipFlags \X Seq(W)
  <2>1. SkipsOf(r) = SkipsOf(w) \o SkipsOf(q)
    BY <1>6, SkipsConcat
  <2>2. SkipsOf(q) \in Seq(S)
    BY SkipsConcat
  <2> HIDE DEF S
  <2>3. <<>> \o SkipsOf(q) = SkipsOf(q)
    BY <2>2, ConcatEmptySeq
  <2> QED BY <1>6, <2>1, <2>3
<1>14. \A k \in DOMAIN h : EnvOf(r, k, <<>>) = EnvOf(q, k, env[k])
  <2> TAKE k \in DOMAIN h
  <2>1. EnvOf(r, k, <<>>) = EnvOf(q, k, EnvOf(w, k, <<>>))
    BY <1>6, EnvConcat
  <2> QED BY <1>6, <2>1
<1> HIDE DEF r
<1>15. Delivered(o) = Meant(r, none) /\ Followed(Body(BuildArgsAndRun(o)), Delivered(o))
  <2>1. Delivered(o) = ApplyRunFilters(text \o parts, DOMAIN h)
    BY <1>5, <1>9 DEF Delivered
  <2> DEFINE t == text \o parts
  <2>2. TokenizeArgs(t) = ProgramArgs(r, FALSE)
    BY <1>11
  <2> HIDE DEF t
  <2>3. /\ ApplyRunFilters(t, DOMAIN h) = Meant(r, none)
        /\ Followed(t, ApplyRunFilters(t, DOMAIN h))
    BY <1>10, <2>2, DeviceReads
  <2> QED BY <1>9, <2>1, <2>3, Zenon DEF t
<1>16. Meant(r, none) = Meant(q, e)
  <2>1. [k \in DOMAIN none |-> EnvOf(r, k, none[k])] = [k \in DOMAIN e |-> EnvOf(q, k, e[k])]
    BY <1>14
  <2>2. /\ ValuesOf(r, "--tc") = ValuesOf(q, "--tc") /\ ValuesOf(r, "--tce") = ValuesOf(q, "--tce")
        /\ ValuesOf(r, "--no-skip") = ValuesOf(q, "--no-skip")
    BY <1>12
  <2> HIDE DEF none, e
  <2> QED BY <1>13, <2>1, <2>2, Zenon DEF Meant
<1>17. Meant(q, e) = Asked(p, vars, h)
  BY <1>3, MeantAsAsked
<1>18. Once(Delivered(o)) => InForce(o) = Delivered(o)
  BY <1>15, OnceInForce
<1> QED BY <1>15, <1>16, <1>17, <1>18 DEF o, T
-----------------------------------------------------------------------------
(* What arrives in a session.                                              *)

\* Of a command, what arrives is read by its tag, in these two settings.
Arrived(tag, got, asked) ==
  /\ tag = "RUN" => got = asked
  /\ tag = "RESUME_AFTER" => [got EXCEPT !.env = asked.env] = asked

\* Each request is delivered as its command promises.
LEMMA RequestArrives ==
  ASSUME NEW q \in Requests
  PROVE  LET o == Given(ProgramArgs(q.options, q.whole), q.vars, q.hostEnv, q.resume)
             a == Asked(q.options, q.vars, q.hostEnv)
         IN  /\ Arrived(BuildArgsAndRun(o).tag, Delivered(o), a)
             /\ Once(a) => InForce(o) = Delivered(o)
<1> DEFINE p == q.options
           whole == q.whole
           vars == q.vars
           h == q.hostEnv
           resume == q.resume
           T == ProgramArgs(p, whole)
           o == Given(T, vars, h, resume)
<1>1. Flags \subseteq Words /\ Expressible(p, whole, vars, h, Words)
  BY RequestsAssumption
<1>2. IsFiniteSet(DOMAIN h)
  BY <1>1 DEF Expressible
<1> HIDE DEF p, whole, vars, h, resume
<1>3. CASE resume = <<>>
  <2>1. BuildArgsAndRun(o).tag = "RUN"
    BY <1>2, <1>3, Built
  <2>2. /\ Delivered(o) = Asked(p, vars, h)
        /\ Once(Asked(p, vars, h)) => InForce(o) = Delivered(o)
    BY <1>1, <1>3, RunDelivers
  <2> HIDE DEF o
  <2>3. Arrived(BuildArgsAndRun(o).tag, Delivered(o), Asked(p, vars, h))
    BY <2>1, <2>2 DEF Arrived
  <2> QED BY <2>2, <2>3 DEF o, p, whole, vars, h, resume
<1>4. CASE resume # <<>>
  <2>1. BuildArgsAndRun(o).tag = "RESUME_AFTER"
    BY <1>2, <1>4, Built
  <2>2. /\ [Delivered(o) EXCEPT !.env = Asked(p, vars, h).env] = Asked(p, vars, h)
        /\ Once(Asked(p, vars, h)) => InForce(o) = Delivered(o)
    BY <1>1, <1>4, ResumeDelivers
  <2> HIDE DEF o
  <2>3. Arrived(BuildArgsAndRun(o).tag, Delivered(o), Asked(p, vars, h))
    BY <2>1, <2>2 DEF Arrived
  <2> QED BY <2>2, <2>3 DEF o, p, whole, vars, h, resume
<1> QED BY <1>3, <1>4

\* No cycle, nothing to arrive.
LEMMA ArriveInit == Init => OptionsArrive
BY DEF Init, NoCycle, OptionsArrive

\* A cycle applies what its own command delivers.
LEMMA ArriveNext == OptionsArrive /\ [Next]_sessionVars => OptionsArrive'
<1> SUFFICES ASSUME OptionsArrive, [Next]_sessionVars PROVE OptionsArrive'
  OBVIOUS
<1>1. CASE Cycle
  <2>1. PICK q \in Requests :
          LET o == [args |-> ProgramArgs(q.options, q.whole), vars |-> q.vars,
                    hostEnv |-> q.hostEnv, resume |-> q.resume]
              s == InForce(o)
              c == [tag  |-> BuildArgsAndRun(o).tag,
                    name |-> IF q.resume = <<>> THEN NoName ELSE Head(q.resume)]
              r == RegistryFor(MarksFor(skip, s), s)
              counted == CountedRun(RegistryFor(MarksFor(skip, s), Delivered(o)), c)
          IN  cycle' = [tag |-> c.tag, name |-> c.name,
                        asked |-> Asked(q.options, q.vars, q.hostEnv), got |-> s,
                        barred |-> r.skip, ran |-> Selected(r, c), counted |-> counted]
    BY <1>1 DEF Cycle
  <2> DEFINE o == Given(ProgramArgs(q.options, q.whole), q.vars, q.hostEnv, q.resume)
             s == InForce(o)
             d == Delivered(o)
             tag == BuildArgsAndRun(o).tag
             name == IF q.resume = <<>> THEN NoName ELSE Head(q.resume)
             c == [tag |-> tag, name |-> name]
             r == RegistryFor(MarksFor(skip, s), s)
             a == Asked(q.options, q.vars, q.hostEnv)
             counted == CountedRun(RegistryFor(MarksFor(skip, s), d), c)
  <2>2. cycle' = [tag |-> c.tag, name |-> c.name, asked |-> a, got |-> s,
                  barred |-> r.skip, ran |-> Selected(r, c), counted |-> counted]
    BY <2>1 DEF Given
  <2>3. Arrived(tag, d, a) /\ (Once(a) => s = d)
    BY RequestArrives
  <2> HIDE DEF o, s, d, tag, name, r, a, counted
  <2>4. c.tag = tag
    OBVIOUS
  <2> HIDE DEF c
  <2>5. cycle'.tag = tag /\ cycle'.asked = a /\ cycle'.got = s
    BY <2>2, <2>4
  <2> QED BY <2>3, <2>5 DEF Arrived, OptionsArrive
<1>2. CASE Idle \/ Reboot
  BY <1>2 DEF Idle, Reboot, NoCycle, OptionsArrive
<1>3. CASE UNCHANGED sessionVars
  BY <1>3 DEF sessionVars, OptionsArrive
<1> QED
  BY <1>1, <1>2, <1>3 DEF Next

\* The options and variables of any run, of any number and length, are what
\* doctest runs by if no filter is given two values: what _build_args_and_run
\* quotes and orders is what tokenize_args, extract_etst_flags and
\* apply_run_filters take apart.
THEOREM OptionsAlwaysArrive == Spec => []OptionsArrive
BY ArriveInit, ArriveNext, PTL DEF Spec
-----------------------------------------------------------------------------
(* The session.                                                            *)

\* The last cycle ran what its command and the marks of its registry say, and
\* announced it, if no filter was given two values.
Executed ==
  IF cycle.tag = "none" THEN cycle.ran = {}
  ELSE /\ cycle.ran = Selected(RegistryOf(cycle.barred), cycle)
       /\ cycle.tag = "RUN" => cycle.name = NoName
       /\ Once(cycle.asked) => cycle.counted = CountedRun(RegistryOf(cycle.barred), cycle)

\* A command is read by its tag and name only.
LEMMA SameCommand ==
  ASSUME NEW r, NEW c, NEW d, c.tag = d.tag, c.name = d.name
  PROVE  /\ Selected(r, c) = Selected(r, d)
         /\ CountedRun(r, c) = CountedRun(r, d)
<1>1. Passing(r, c) = Passing(r, d)
  BY DEF Passing, TakesArgs
<1>2. ResumeIndex(r, c) = ResumeIndex(r, d)
  BY DEF ResumeIndex
<1>3. \A t : Rank(r, c, t) = Rank(r, d, t)
  BY <1>1 DEF Rank
<1> QED
  BY <1>1, <1>2, <1>3 DEF Selected, CountedRun

\* No cycle yet, nothing executed.
LEMMA ExecutedInit == Init => Executed
BY DEF Init, NoCycle, Executed

\* A cycle executes and announces what its own command asks for.
LEMMA ExecutedNext == Executed /\ [Next]_sessionVars => Executed'
<1> SUFFICES ASSUME Executed, [Next]_sessionVars PROVE Executed'
  OBVIOUS
<1>1. CASE Cycle
  <2>1. PICK q \in Requests :
          LET o == [args |-> ProgramArgs(q.options, q.whole), vars |-> q.vars,
                    hostEnv |-> q.hostEnv, resume |-> q.resume]
              s == InForce(o)
              c == [tag  |-> BuildArgsAndRun(o).tag,
                    name |-> IF q.resume = <<>> THEN NoName ELSE Head(q.resume)]
              r == RegistryFor(MarksFor(skip, s), s)
              counted == CountedRun(RegistryFor(MarksFor(skip, s), Delivered(o)), c)
          IN  cycle' = [tag |-> c.tag, name |-> c.name,
                        asked |-> Asked(q.options, q.vars, q.hostEnv), got |-> s,
                        barred |-> r.skip, ran |-> Selected(r, c), counted |-> counted]
    BY <1>1 DEF Cycle
  <2> DEFINE o == Given(ProgramArgs(q.options, q.whole), q.vars, q.hostEnv, q.resume)
             s == InForce(o)
             d == Delivered(o)
             c == [tag  |-> BuildArgsAndRun(o).tag,
                   name |-> IF q.resume = <<>> THEN NoName ELSE Head(q.resume)]
             r == RegistryFor(MarksFor(skip, s), s)
             a == Asked(q.options, q.vars, q.hostEnv)
             counted == CountedRun(RegistryFor(MarksFor(skip, s), d), c)
  <2>2. cycle' = [tag |-> c.tag, name |-> c.name, asked |-> a, got |-> s,
                  barred |-> r.skip, ran |-> Selected(r, c), counted |-> counted]
    BY <2>1 DEF Given
  <2>3. r = RegistryOf(r.skip)
    BY DEF RegistryFor, RegistryOf
  <2>4. c.tag # "none" /\ (c.tag = "RUN" => c.name = NoName)
    BY DEF BuildArgsAndRun, Given
  <2>5. Once(a) => counted = CountedRun(r, c)
    <3>1. Once(a) => s = d
      BY RequestArrives
    <3> HIDE DEF o, s, d, a, c
    <3> QED BY <3>1
  <2> HIDE DEF o, s, d, c, r, a, counted
  <2>6. /\ cycle'.tag = c.tag /\ cycle'.name = c.name /\ cycle'.barred = r.skip
        /\ cycle'.ran = Selected(r, c) /\ cycle'.counted = counted /\ cycle'.asked = a
    BY <2>2
  <2>7. /\ Selected(r, c) = Selected(r, cycle') /\ CountedRun(r, c) = CountedRun(r, cycle')
    BY <2>6, SameCommand, Zenon
  <2> QED
    BY <2>3, <2>4, <2>5, <2>6, <2>7 DEF Executed
<1>2. CASE Idle \/ Reboot
  BY <1>2 DEF Idle, Reboot, NoCycle, Executed
<1>3. CASE UNCHANGED sessionVars
  BY <1>3 DEF sessionVars, Executed
<1> QED
  BY <1>1, <1>2, <1>3 DEF Next

\* The invariant of a session.
LEMMA AlwaysExecuted == Spec => []Executed
BY ExecutedInit, ExecutedNext, PTL DEF Spec

\* What ETST:COUNTS announces, for any registry and any session, as long as no
\* filter is given two values: the tests that the cycle executes (what run_cycle
\* counts with its own reading of the filters, less the tests resumed over, is
\* what doctest executes); and where none is left behind the resume point, the
\* tests that pass.
THEOREM CountsAreTold == Spec => []CountsTold
<1>1. Executed => CountsTold
  <2> SUFFICES ASSUME Executed, cycle.tag # "none", Once(cycle.asked)
               PROVE  cycle.counted = IF cycle.ran = {}
                                      THEN Cardinality(Registered \ cycle.barred)
                                      ELSE Cardinality(cycle.ran)
    BY DEF CountsTold
  <2>1. Passing(RegistryOf(cycle.barred), cycle) = Registered \ cycle.barred
    <3>1. cycle.tag = "RUN" => cycle.name = NoName
      BY DEF Executed
    <3> QED BY <3>1, SessionAssumption DEF Passing, Tests, RegistryOf, TakesArgs
  <2>2. cycle.counted = CountedRun(RegistryOf(cycle.barred), cycle)
        /\ cycle.ran = Selected(RegistryOf(cycle.barred), cycle)
    BY DEF Executed
  <2> QED BY <2>1, <2>2, CountIsTold
<1> QED
  BY <1>1, AlwaysExecuted, PTL

\* RESUME_AFTER runs exactly the tests behind the named one, whatever names
\* repeat, unless a test up to it is barred (apply_resume_after sets doctest's
\* first, which counts only the tests that pass).
THEOREM ResumeIsExact == Spec => []ResumeRunsTheRest
<1>1. Executed => ResumeRunsTheRest
  <2> SUFFICES ASSUME Executed, cycle.tag = "RESUME_AFTER",
                      cycle.barred \cap 1..ResumeIndex([name |-> NameOf], cycle) = {}
               PROVE  cycle.ran = {t \in Registered \ cycle.barred :
                                     t > ResumeIndex([name |-> NameOf], cycle)}
    BY DEF ResumeRunsTheRest
  <2>1. ResumeIndex([name |-> NameOf], cycle) = ResumeIndex(RegistryOf(cycle.barred), cycle)
    BY DEF ResumeIndex, RegistryOf, Tests
  <2> QED
    BY <2>1, RestRuns DEF Executed
<1> QED
  BY <1>1, AlwaysExecuted, PTL
==============================================================================
