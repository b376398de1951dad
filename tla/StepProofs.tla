----------------------------- MODULE StepProofs -----------------------------
(***************************************************************************)
(* Further proofs about ClusterBuild: what each step of a build writes.    *)
(* RKE2's configuration on a machine is the mark by which the preflight    *)
(* knows the machine for its own.  A write fits when it takes no mark      *)
(* away, and puts what a machine could be taken for somebody's by -        *)
(* RKE2's process, Cilium's values - only where the mark is.  Every step   *)
(* of every phase is shown to fit, for every document.                     *)
(***************************************************************************)
EXTENDS BuildProofs, FiniteSetTheorems

-----------------------------------------------------------------------------
(* Functions and sequences.                                                *)

\* A merge has what its first part has, and what the second has elsewhere.
LEMMA MergeIs ==
    ASSUME NEW f, NEW g
    PROVE  f ++ g = [l \in DOMAIN f \cup DOMAIN g |-> IF l \in DOMAIN f THEN f[l] ELSE g[l]]
<1> DEFINE M(a, b) == [l \in DOMAIN a \cup DOMAIN b |-> IF l \in DOMAIN a THEN a[l] ELSE b[l]]
<1>1. \A h : h \in {M(a, b) : a \in {f}, b \in {g}} <=> h = M(f, g)
  <2> HIDE DEF M
  <2> QED
    OBVIOUS
<1>2. f ++ g = CHOOSE h \in {M(a, b) : a \in {f}, b \in {g}} : TRUE
  BY DEF ++
<1>3. f ++ g = M(f, g)
  <2> HIDE DEF M
  <2> QED
    BY <1>1, <1>2
<1> QED
  BY <1>3

\* The same, part by part.
LEMMA MergeHas ==
    ASSUME NEW f, NEW g
    PROVE  /\ DOMAIN (f ++ g) = DOMAIN f \cup DOMAIN g
           /\ \A l \in DOMAIN f : (f ++ g)[l] = f[l]
           /\ \A l \in DOMAIN g \ DOMAIN f : (f ++ g)[l] = g[l]
  BY MergeIs

\* What comes of the writes is had by putting one upon the other.
LEMMA ThroughGoesOn ==
    ASSUME NEW w, NEW writes, Len(writes) \in Nat
    PROVE  \E f : /\ f[0] = w
                  /\ \A n \in 1..Len(writes) : f[n] = Write(f[n - 1], writes[n])
                  /\ Through(w, writes) = f[Len(writes)]
<1> DEFINE N == Len(writes)
           IsTo(f, M) == f = [n \in 0..M |-> IF n = 0 THEN w ELSE Write(f[n - 1], writes[n])]
           S == {M \in Nat : \E f : IsTo(f, M)}
<1>1. 0 \in S
  <2>1. IsTo([n \in 0..0 |-> w], 0)
    OBVIOUS
  <2> QED
    BY <2>1
<1>2. ASSUME NEW M \in Nat, M \in S PROVE M + 1 \in S
  <2>1. PICK f : IsTo(f, M)
    BY <1>2
  <2> DEFINE g == [n \in 0..(M + 1) |-> IF n = M + 1 THEN Write(f[M], writes[n]) ELSE f[n]]
  <2>2. ASSUME NEW n \in 0..(M + 1)
        PROVE  g[n] = IF n = 0 THEN w ELSE Write(g[n - 1], writes[n])
    <3>1. CASE n = M + 1
      BY <3>1
    <3>2. CASE n = 0
      BY <3>2, <2>1
    <3>3. CASE n # 0 /\ n # M + 1
      <4>1. n \in 0..M /\ n - 1 \in 0..M
        BY <3>3
      <4>2. f[n] = Write(f[n - 1], writes[n])
        BY <2>1, <4>1, <3>3
      <4>3. g[n] = f[n] /\ g[n - 1] = f[n - 1]
        BY <4>1
      <4> QED
        BY <3>3, <4>2, <4>3
    <3> QED
      BY <3>1, <3>2, <3>3
  <2>3. IsTo(g, M + 1)
    <3>1. g = [n \in 0..(M + 1) |-> g[n]]
      OBVIOUS
    <3> HIDE DEF g
    <3> QED
      BY <3>1, <2>2
  <2> HIDE DEF IsTo, g
  <2>4. \E h : IsTo(h, M + 1)
    BY <2>3
  <2> QED
    BY <2>4
<1>3. N \in S
  <2> HIDE DEF S
  <2> QED
    BY <1>1, <1>2, Induction
<1>4. \E f : IsTo(f, N)
  BY <1>3
<1>5. Through(w, writes) = (CHOOSE f : IsTo(f, N))[N]
  BY DEF Through
<1> DEFINE F == CHOOSE f : IsTo(f, N)
<1>6. IsTo(F, N)
  <2> HIDE DEF IsTo
  <2> QED
    BY <1>4
<1>7. F = [n \in 0..N |-> IF n = 0 THEN w ELSE Write(F[n - 1], writes[n])]
  BY <1>6
<1> HIDE DEF F, IsTo, S
<1>8. F[0] = w
  BY <1>7
<1>9. \A n \in 1..N : F[n] = Write(F[n - 1], writes[n])
  BY <1>7
<1>10. Through(w, writes) = F[N]
  BY <1>5 DEF F
<1> QED
  BY <1>8, <1>9, <1>10

\* Sequences laid end to end are of a kind that holds the empty one and whatever two
\* of its sequences come to, one after the other.
LEMMA FlattenCloses ==
    ASSUME NEW Q, <<>> \in Q, \A x, y \in Q : x \o y \in Q, NEW seqs, seqs \in Seq(Q)
    PROVE  FlattenSeq(seqs) \in Q
<1> DEFINE N == Len(seqs)
           IsTo(f, M) == f = [i \in 1..M |-> IF i = 1 THEN seqs[i] ELSE f[i - 1] \o seqs[i]]
           T == {M \in Nat : M \in 1..N => \E f \in [1..M -> Q] : IsTo(f, M)}
<1>1. CASE N = 0
  BY <1>1 DEF FlattenSeq
<1>2. CASE N # 0
  <2>1. ASSUME NEW M \in Nat, M \in T PROVE M + 1 \in T
    <3>1. CASE M = 0
      <4> DEFINE g == [i \in 1..(M + 1) |-> seqs[i]]
      <4>1. g \in [1..(M + 1) -> Q]
        BY <1>2, <3>1
      <4>2. IsTo(g, M + 1)
        BY <3>1
      <4> HIDE DEF IsTo, g
      <4> QED
        BY <4>1, <4>2
    <3>2. CASE M # 0 /\ M + 1 \in 1..N
      <4>0. M \in 1..N
        BY <3>2
      <4> HIDE DEF IsTo
      <4>1. PICK f \in [1..M -> Q] : IsTo(f, M)
        BY <2>1, <4>0
      <4> DEFINE g == [i \in 1..(M + 1) |-> IF i = M + 1 THEN f[M] \o seqs[i] ELSE f[i]]
      <4>2. f[M] \o seqs[M + 1] \in Q
        <5>1. f[M] \in Q /\ seqs[M + 1] \in Q
          BY <3>2
        <5> QED
          BY <5>1
      <4>3. g \in [1..(M + 1) -> Q]
        BY <4>2
      <4>4. ASSUME NEW i \in 1..(M + 1)
            PROVE  g[i] = IF i = 1 THEN seqs[i] ELSE g[i - 1] \o seqs[i]
        <5>1. CASE i = M + 1
          <6>1. i # 1 /\ i - 1 = M /\ M \in 1..(M + 1) /\ M # M + 1
            BY <5>1, <3>2
          <6>2. g[i] = f[M] \o seqs[i] /\ g[i - 1] = f[M]
            BY <5>1, <6>1
          <6> QED
            BY <6>1, <6>2
        <5>2. CASE i # M + 1
          <6>1. i \in 1..M /\ g[i] = f[i]
            BY <5>2
          <6>2. f[i] = IF i = 1 THEN seqs[i] ELSE f[i - 1] \o seqs[i]
            BY <4>1, <6>1 DEF IsTo
          <6>3. i # 1 => g[i - 1] = f[i - 1]
            BY <6>1
          <6> QED
            BY <6>1, <6>2, <6>3
        <5> QED
          BY <5>1, <5>2
      <4>5. IsTo(g, M + 1)
        <5>1. g = [i \in 1..(M + 1) |-> g[i]]
          OBVIOUS
        <5> HIDE DEF g
        <5> QED
          BY <5>1, <4>4 DEF IsTo
      <4> HIDE DEF g
      <4> QED
        BY <4>3, <4>5
    <3>3. CASE M + 1 \notin 1..N
      <4> HIDE DEF IsTo
      <4> QED
        BY <3>3
    <3> QED
      BY <3>1, <3>2, <3>3
  <2>2. N \in Nat /\ N \in 1..N
    BY <1>2
  <2>3. N \in T
    <3>1. 0 \in T
      OBVIOUS
    <3> HIDE DEF T
    <3> QED
      BY <2>1, <2>2, <3>1, Induction
  <2> DEFINE F == CHOOSE f : IsTo(f, N)
  <2>4. \E f \in [1..N -> Q] : IsTo(f, N)
    BY <2>2, <2>3
  <2>5. IsTo(F, N)
    <3> HIDE DEF IsTo
    <3> QED
      BY <2>4
  <2>6. FlattenSeq(seqs) = F[N]
    BY <1>2 DEF FlattenSeq
  <2>7. \A i \in 1..N : F[i] = IF i = 1 THEN seqs[i] ELSE F[i - 1] \o seqs[i]
    BY <2>5
  <2> DEFINE U == {M \in Nat : M \in 1..N => F[M] \in Q}
  <2> HIDE DEF F, IsTo, T
  <2>8. ASSUME NEW M \in Nat, M \in U PROVE M + 1 \in U
    <3> SUFFICES ASSUME M + 1 \in 1..N PROVE F[M + 1] \in Q
      OBVIOUS
    <3>1. seqs[M + 1] \in Q
      OBVIOUS
    <3>2. CASE M = 0
      BY <2>7, <3>1, <3>2
    <3>3. CASE M # 0
      <4>1. M \in 1..N /\ M + 1 # 1 /\ M + 1 - 1 = M
        BY <3>3
      <4>2. \A i \in 1..N : i # 1 => F[i] = F[i - 1] \o seqs[i]
        BY <2>7
      <4>3. F[M] \in Q
        BY <2>8, <4>1
      <4>4. F[M] \o seqs[M + 1] \in Q
        BY <3>1, <4>3
      <4>5. PICK i \in 1..N : i = M + 1 /\ i - 1 = M
        OBVIOUS
      <4>6. F[i] = F[M] \o seqs[i]
        BY <4>1, <4>2, <4>5, Zenon
      <4> QED
        BY <4>4, <4>5, <4>6, Zenon
    <3> QED
      BY <3>2, <3>3
  <2>9. N \in U
    <3>1. 0 \in U
      OBVIOUS
    <3> HIDE DEF U
    <3> QED
      BY <2>2, <2>8, <3>1, Induction
  <2> QED
    BY <2>2, <2>6, <2>9
<1> QED
  BY <1>1, <1>2

\* Sequences laid end to end hold what they held.
LEMMA FlattenHolds ==
    ASSUME NEW S, NEW seqs, seqs \in Seq(Seq(S))
    PROVE  FlattenSeq(seqs) \in Seq(S)
<1>1. <<>> \in Seq(S) /\ \A x, y \in Seq(S) : x \o y \in Seq(S)
  OBVIOUS
<1> QED
  BY <1>1, FlattenCloses

-----------------------------------------------------------------------------
(* What a write leaves.                                                    *)

\* The machines that have RKE2's configuration, which bears this program's mark.
Configured(w) == {h \in Machines : <<h, "config.yaml">> \in DOMAIN w}

\* What else would have a machine taken for somebody's is there with the mark.
Marked(w) ==
    \A h \in Machines :
        {<<h, "process.config">>, <<h, "cilium-values">>} \cap DOMAIN w # {} => h \in Configured(w)

\* The locations a write puts something at.
Touched(x) == DOMAIN x.put \cup DOMAIN x.read \cup DOMAIN x.keep

\* A write that leaves the machines marked, when those in C are.
Fit(x, C) ==
    \A h \in Machines :
        /\ <<h, "config.yaml">> \notin x.drop
        /\ <<h, "process.config">> \notin DOMAIN x.put \cup DOMAIN x.keep
        /\ <<h, "process.config">> \in DOMAIN x.read =>
              x.read[<<h, "process.config">>] = <<h, "config.yaml">>
        /\ <<h, "cilium-values">> \in Touched(x) => h \in C

\* Where something is after a write (Write, the one change a command makes).
LEMMA WriteDomain ==
    ASSUME NEW w, NEW x
    PROVE  DOMAIN Write(w, x) =
              DOMAIN x.put \cup {k \in DOMAIN x.read : x.read[k] \in DOMAIN w}
              \cup (DOMAIN x.keep \ DOMAIN w) \cup (DOMAIN w \ x.drop)
<1> DEFINE reads == [l \in {k \in DOMAIN x.read : x.read[k] \in DOMAIN w} |-> w[x.read[l]]]
           keeps == [l \in DOMAIN x.keep \ DOMAIN w |-> x.keep[l]]
           rest == IF x.drop = {} THEN w ELSE [l \in DOMAIN w \ x.drop |-> w[l]]
<1>1. DOMAIN rest = DOMAIN w \ x.drop
  OBVIOUS
<1>2. DOMAIN reads = {k \in DOMAIN x.read : x.read[k] \in DOMAIN w} /\ DOMAIN keeps = DOMAIN x.keep \ DOMAIN w
  OBVIOUS
<1>3. Write(w, x) = x.put ++ reads ++ keeps ++ rest
  BY DEF Write
<1> HIDE DEF reads, keeps, rest
<1>4. DOMAIN (x.put ++ reads ++ keeps ++ rest) =
         DOMAIN x.put \cup DOMAIN reads \cup DOMAIN keeps \cup DOMAIN rest
  <2>1. ASSUME NEW f, NEW g PROVE DOMAIN (f ++ g) = DOMAIN f \cup DOMAIN g
    BY MergeHas
  <2>2. DOMAIN (x.put ++ reads ++ keeps ++ rest) = DOMAIN (x.put ++ reads ++ keeps) \cup DOMAIN rest
    BY <2>1
  <2>3. DOMAIN (x.put ++ reads ++ keeps) = DOMAIN (x.put ++ reads) \cup DOMAIN keeps
    BY <2>1
  <2>4. DOMAIN (x.put ++ reads) = DOMAIN x.put \cup DOMAIN reads
    BY <2>1
  <2> QED
    BY <2>2, <2>3, <2>4
<1> QED
  BY <1>1, <1>2, <1>3, <1>4

\* A write that fits leaves every machine with the marks it had, and the marked ones
\* marked.
LEMMA WriteMarks ==
    ASSUME NEW w, NEW x, NEW C, C \subseteq Configured(w), Marked(w), Fit(x, C)
    PROVE  /\ Marked(Write(w, x))
           /\ Configured(w) \subseteq Configured(Write(w, x))
<1>1. \A h \in Configured(w) : <<h, "config.yaml">> \in DOMAIN Write(w, x)
  BY WriteDomain DEF Configured, Fit
<1>2. Configured(w) \subseteq Configured(Write(w, x))
  BY <1>1 DEF Configured
<1>3. ASSUME NEW h \in Machines,
             <<h, "process.config">> \in DOMAIN Write(w, x) \/ <<h, "cilium-values">> \in DOMAIN Write(w, x)
      PROVE  h \in Configured(w)
  <2>1. CASE <<h, "process.config">> \in DOMAIN w \/ <<h, "cilium-values">> \in DOMAIN w
    BY <2>1 DEF Marked
  <2>2. CASE <<h, "cilium-values">> \in Touched(x)
    BY <2>2 DEF Fit
  <2>3. CASE <<h, "process.config">> \in DOMAIN x.read /\ x.read[<<h, "process.config">>] \in DOMAIN w
    BY <2>3 DEF Fit, Configured
  <2> QED
    BY <1>3, <2>1, <2>2, <2>3, WriteDomain DEF Fit, Touched
<1> QED
  BY <1>2, <1>3 DEF Marked

\* Each of the writes does.
FitWrites(ws, C) == IsSequence(ws) /\ \A x \in ToSet(ws) : Fit(x, C)

\* So does any number of them, one after the other (ShellStep.Apply runs its commands
\* in order).
THEOREM ThroughMarks ==
    ASSUME NEW w, NEW ws, NEW C, C \subseteq Configured(w), Marked(w), FitWrites(ws, C)
    PROVE  /\ Marked(Through(w, ws))
           /\ Configured(w) \subseteq Configured(Through(w, ws))
<1>1. PICK S : ws \in Seq(S)
  BY DEF FitWrites, IsSequence
<1>2. \A n \in 1..Len(ws) : Fit(ws[n], C)
  BY <1>1 DEF FitWrites, ToSet
<1>3. PICK f : /\ f[0] = w
               /\ \A n \in 1..Len(ws) : f[n] = Write(f[n - 1], ws[n])
               /\ Through(w, ws) = f[Len(ws)]
  BY <1>1, ThroughGoesOn
<1> DEFINE T == {n \in Nat : n \in 0..Len(ws) => Marked(f[n]) /\ Configured(w) \subseteq Configured(f[n])}
<1>4. 0 \in T
  BY <1>3
<1>5. ASSUME NEW n \in Nat, n \in T PROVE n + 1 \in T
  <2> SUFFICES ASSUME n + 1 \in 0..Len(ws)
               PROVE  Marked(f[n + 1]) /\ Configured(w) \subseteq Configured(f[n + 1])
    OBVIOUS
  <2>1. Marked(f[n]) /\ Configured(w) \subseteq Configured(f[n])
    BY <1>1, <1>5
  <2>2. n + 1 \in 1..Len(ws) /\ (n + 1) - 1 = n
    BY <1>1
  <2>3. f[n + 1] = Write(f[n], ws[n + 1])
    BY <1>3, <2>2
  <2>4. Fit(ws[n + 1], C)
    BY <1>2, <2>2
  <2>5. C \subseteq Configured(f[n])
    BY <2>1
  <2> QED
    BY <2>1, <2>3, <2>4, <2>5, WriteMarks
<1>6. Len(ws) \in T
  <2> HIDE DEF T
  <2> QED
    BY <1>1, <1>4, <1>5, Induction
<1> QED
  BY <1>1, <1>3, <1>6

\* What no write has to do with is where it was.
LEMMA ThroughLeaves ==
    ASSUME NEW w, NEW ws, IsSequence(ws), NEW l, \A x \in ToSet(ws) : l \notin Touched(x) \cup x.drop
    PROVE  l \in DOMAIN Through(w, ws) <=> l \in DOMAIN w
<1>1. PICK S : ws \in Seq(S)
  BY DEF IsSequence
<1>2. \A n \in 1..Len(ws) : l \notin Touched(ws[n]) \cup ws[n].drop
  BY <1>1 DEF ToSet
<1>3. PICK f : /\ f[0] = w
               /\ \A n \in 1..Len(ws) : f[n] = Write(f[n - 1], ws[n])
               /\ Through(w, ws) = f[Len(ws)]
  BY <1>1, ThroughGoesOn
<1> DEFINE T == {n \in Nat : n \in 0..Len(ws) => (l \in DOMAIN f[n] <=> l \in DOMAIN w)}
<1>4. 0 \in T
  BY <1>3
<1>5. ASSUME NEW n \in Nat, n \in T PROVE n + 1 \in T
  <2> SUFFICES ASSUME n + 1 \in 0..Len(ws) PROVE l \in DOMAIN f[n + 1] <=> l \in DOMAIN w
    OBVIOUS
  <2>1. l \in DOMAIN f[n] <=> l \in DOMAIN w
    BY <1>1, <1>5
  <2>2. n + 1 \in 1..Len(ws) /\ (n + 1) - 1 = n
    BY <1>1
  <2>3. f[n + 1] = Write(f[n], ws[n + 1])
    BY <1>3, <2>2
  <2>4. l \in DOMAIN Write(f[n], ws[n + 1]) <=> l \in DOMAIN f[n]
    BY <1>2, <2>2, WriteDomain DEF Touched
  <2> QED
    BY <2>1, <2>3, <2>4
<1>6. Len(ws) \in T
  <2> HIDE DEF T
  <2> QED
    BY <1>1, <1>4, <1>5, Induction
<1> QED
  BY <1>1, <1>3, <1>6

-----------------------------------------------------------------------------
(* What fits together.                                                     *)

\* Two sequences one after the other hold what both held.
LEMMA ConcatHolds ==
    ASSUME NEW x, NEW y, IsSequence(x), IsSequence(y)
    PROVE  IsSequence(x \o y) /\ ToSet(x \o y) = ToSet(x) \cup ToSet(y)
<1>1. PICK S : x \in Seq(S)
  BY DEF IsSequence
<1>2. PICK T : y \in Seq(T)
  BY DEF IsSequence
<1>3. x \in Seq(S \cup T) /\ y \in Seq(S \cup T)
  BY <1>1, <1>2
<1>4. \A i \in DOMAIN (x \o y) : (x \o y)[i] \in ToSet(x) \cup ToSet(y)
  <2> TAKE i \in DOMAIN (x \o y)
  <2>1. CASE i \in DOMAIN x
    BY <1>3, <2>1 DEF ToSet
  <2>2. CASE i \notin DOMAIN x
    <3>1. i - Len(x) \in DOMAIN y /\ (x \o y)[i] = y[i - Len(x)]
      BY <1>3, <2>2
    <3> QED
      BY <3>1 DEF ToSet
  <2> QED
    BY <2>1, <2>2
<1>5. \A i \in DOMAIN x : i \in DOMAIN (x \o y) /\ (x \o y)[i] = x[i]
  BY <1>3
<1>6. \A j \in DOMAIN y : Len(x) + j \in DOMAIN (x \o y) /\ (x \o y)[Len(x) + j] = y[j]
  BY <1>3
<1>7. ToSet(x \o y) \subseteq ToSet(x) \cup ToSet(y)
  BY <1>4 DEF ToSet
<1>8. ToSet(x) \subseteq ToSet(x \o y)
  BY <1>5 DEF ToSet
<1>9. ToSet(y) \subseteq ToSet(x \o y)
  BY <1>6 DEF ToSet
<1> QED
  BY <1>7, <1>8, <1>9, SequencesConcatenate

\* A sequence is one of the elements it holds.
LEMMA SequenceOfItsOwn ==
    ASSUME NEW x, IsSequence(x)
    PROVE  x \in Seq(ToSet(x))
<1>1. PICK S : x \in Seq(S)
  BY DEF IsSequence
<1> QED
  BY <1>1 DEF ToSet

\* What is in sequences laid end to end was in one of them.
LEMMA FlattenedHolds ==
    ASSUME NEW seqs, IsSequence(seqs), \A q \in ToSet(seqs) : IsSequence(q)
    PROVE  /\ IsSequence(FlattenSeq(seqs))
           /\ \A e \in ToSet(FlattenSeq(seqs)) : \E q \in ToSet(seqs) : e \in ToSet(q)
<1> DEFINE S == UNION {ToSet(q) : q \in ToSet(seqs)}
<1>1. \A q \in ToSet(seqs) : q \in Seq(S)
  <2> TAKE q \in ToSet(seqs)
  <2>1. q \in Seq(ToSet(q))
    BY SequenceOfItsOwn
  <2>2. ToSet(q) \subseteq S
    OBVIOUS
  <2> HIDE DEF S
  <2> QED
    BY <2>1, <2>2
<1>2. seqs \in Seq(Seq(S))
  <2>1. seqs \in Seq(ToSet(seqs))
    BY SequenceOfItsOwn
  <2> HIDE DEF S
  <2> QED
    BY <1>1, <2>1
<1>3. FlattenSeq(seqs) \in Seq(S)
  BY <1>2, FlattenHolds
<1>4. ToSet(FlattenSeq(seqs)) \subseteq S
  <2> HIDE DEF S
  <2> QED
    BY <1>3 DEF ToSet
<1> QED
  BY <1>3, <1>4 DEF IsSequence

\* A finite set put in some order holds nothing else.
LEMMA SetToSeqHolds ==
    ASSUME NEW S, IsFiniteSet(S)
    PROVE  IsSequence(SetToSeq(S)) /\ ToSet(SetToSeq(S)) \subseteq S
<1> DEFINE n == Cardinality(S)
<1>1. n \in Nat /\ ExistsBijection(1..n, S)
  BY FS_CardinalityType
<1> HIDE DEF n
<1>2. \E f \in [1..n -> S] : IsInjective(f)
  BY <1>1 DEF ExistsBijection, Bijection, Injection
<1>3. SetToSeq(S) \in [1..n -> S]
  BY <1>2 DEF SetToSeq, n
<1>4. SetToSeq(S) \in Seq(S)
  BY <1>1, <1>3
<1> QED
  BY <1>4 DEF IsSequence, ToSet

\* The writes of a step, and those of steps.
FitStep(step, C) == FitWrites(step.writes, C)
FitSteps(steps, C) == IsSequence(steps) /\ \A step \in ToSet(steps) : FitStep(step, C)

\* What is in a sequence that is written out.
LEMMA TupleHolds ==
    /\ IsSequence(<<>>) /\ ToSet(<<>>) = {}
    /\ \A a : IsSequence(<<a>>) /\ ToSet(<<a>>) = {a}
    /\ \A a, b : IsSequence(<<a, b>>) /\ ToSet(<<a, b>>) = {a, b}
    /\ \A a, b, c : IsSequence(<<a, b, c>>) /\ ToSet(<<a, b, c>>) = {a, b, c}
    /\ \A a, b, c, d : IsSequence(<<a, b, c, d>>) /\ ToSet(<<a, b, c, d>>) = {a, b, c, d}
<1>1. IsSequence(<<>>) /\ ToSet(<<>>) = {}
  <2>1. <<>> \in Seq({})
    OBVIOUS
  <2> QED
    BY <2>1 DEF IsSequence, ToSet
<1>2. ASSUME NEW a PROVE IsSequence(<<a>>) /\ ToSet(<<a>>) = {a}
  <2>1. <<a>> \in Seq({a})
    OBVIOUS
  <2>2. DOMAIN <<a>> = 1..1
    OBVIOUS
  <2>3. <<a>>[1] = a
    OBVIOUS
  <2>4. \A i \in 1..1 : i = 1
    OBVIOUS
  <2>5. 1 \in 1..1
    OBVIOUS
  <2> DEFINE q == <<a>>
  <2>6. ToSet(q) = {a}
    <3> HIDE DEF q
    <3>1. DOMAIN q = 1..1
      BY <2>2 DEF q
    <3>2. q[1] = a
      BY <2>3 DEF q
    <3> QED
      BY <3>1, <3>2, <2>4, <2>5 DEF ToSet
  <2>7. IsSequence(q)
    BY <2>1 DEF IsSequence
  <2> QED
    BY <2>6, <2>7
<1>3. ASSUME NEW a, NEW b PROVE IsSequence(<<a, b>>) /\ ToSet(<<a, b>>) = {a, b}
  <2>1. <<a, b>> \in Seq({a, b})
    OBVIOUS
  <2>2. DOMAIN <<a, b>> = 1..2
    OBVIOUS
  <2>3. <<a, b>>[1] = a /\ <<a, b>>[2] = b
    OBVIOUS
  <2>4. \A i \in 1..2 : i = 1 \/ i = 2
    OBVIOUS
  <2>5. 1 \in 1..2 /\ 2 \in 1..2
    OBVIOUS
  <2> DEFINE q == <<a, b>>
  <2>6. ToSet(q) = {a, b}
    <3> HIDE DEF q
    <3>1. DOMAIN q = 1..2
      BY <2>2 DEF q
    <3>2. q[1] = a /\ q[2] = b
      BY <2>3 DEF q
    <3> QED
      BY <3>1, <3>2, <2>4, <2>5 DEF ToSet
  <2>7. IsSequence(q)
    BY <2>1 DEF IsSequence
  <2> QED
    BY <2>6, <2>7
<1>4. ASSUME NEW a, NEW b, NEW c PROVE IsSequence(<<a, b, c>>) /\ ToSet(<<a, b, c>>) = {a, b, c}
  <2>1. <<a, b, c>> \in Seq({a, b, c})
    OBVIOUS
  <2>2. DOMAIN <<a, b, c>> = 1..3
    OBVIOUS
  <2>3. <<a, b, c>>[1] = a /\ <<a, b, c>>[2] = b /\ <<a, b, c>>[3] = c
    OBVIOUS
  <2>4. \A i \in 1..3 : i = 1 \/ i = 2 \/ i = 3
    OBVIOUS
  <2>5. 1 \in 1..3 /\ 2 \in 1..3 /\ 3 \in 1..3
    OBVIOUS
  <2> DEFINE q == <<a, b, c>>
  <2>6. ToSet(q) = {a, b, c}
    <3> HIDE DEF q
    <3>1. DOMAIN q = 1..3
      BY <2>2 DEF q
    <3>2. q[1] = a /\ q[2] = b /\ q[3] = c
      BY <2>3 DEF q
    <3> QED
      BY <3>1, <3>2, <2>4, <2>5 DEF ToSet
  <2>7. IsSequence(q)
    BY <2>1 DEF IsSequence
  <2> QED
    BY <2>6, <2>7
<1>5. ASSUME NEW a, NEW b, NEW c, NEW d
      PROVE  IsSequence(<<a, b, c, d>>) /\ ToSet(<<a, b, c, d>>) = {a, b, c, d}
  <2>1. <<a, b, c, d>> \in Seq({a, b, c, d})
    OBVIOUS
  <2>2. DOMAIN <<a, b, c, d>> = 1..4
    OBVIOUS
  <2>3. <<a, b, c, d>>[1] = a /\ <<a, b, c, d>>[2] = b /\ <<a, b, c, d>>[3] = c /\ <<a, b, c, d>>[4] = d
    OBVIOUS
  <2>4. \A i \in 1..4 : i = 1 \/ i = 2 \/ i = 3 \/ i = 4
    OBVIOUS
  <2>5. 1 \in 1..4 /\ 2 \in 1..4 /\ 3 \in 1..4 /\ 4 \in 1..4
    OBVIOUS
  <2> DEFINE q == <<a, b, c, d>>
  <2>6. ToSet(q) = {a, b, c, d}
    <3> HIDE DEF q
    <3>1. DOMAIN q = 1..4
      BY <2>2 DEF q
    <3>2. q[1] = a /\ q[2] = b /\ q[3] = c /\ q[4] = d
      BY <2>3 DEF q
    <3> QED
      BY <3>1, <3>2, <2>4, <2>5 DEF ToSet
  <2>7. IsSequence(q)
    BY <2>1 DEF IsSequence
  <2> QED
    BY <2>6, <2>7
<1> QED
  BY <1>1, <1>2, <1>3, <1>4, <1>5

\* How what fits is put together.
LEMMA FitTogether ==
    ASSUME NEW C
    PROVE  /\ FitSteps(<<>>, C)
           /\ \A a : FitStep(a, C) => FitSteps(<<a>>, C)
           /\ \A a, b : FitStep(a, C) /\ FitStep(b, C) => FitSteps(<<a, b>>, C)
           /\ \A a, b, c : FitStep(a, C) /\ FitStep(b, C) /\ FitStep(c, C) => FitSteps(<<a, b, c>>, C)
           /\ \A a, b, c, d : FitStep(a, C) /\ FitStep(b, C) /\ FitStep(c, C) /\ FitStep(d, C)
                              => FitSteps(<<a, b, c, d>>, C)
           /\ \A x, y : FitSteps(x, C) /\ FitSteps(y, C) => FitSteps(x \o y, C)
           /\ \A x, c : (c => FitSteps(x, C)) => FitSteps(When(c, x), C)
<1>1. \A x, y : FitSteps(x, C) /\ FitSteps(y, C) => FitSteps(x \o y, C)
  BY ConcatHolds DEF FitSteps
<1>2. /\ FitSteps(<<>>, C)
      /\ \A a : FitStep(a, C) => FitSteps(<<a>>, C)
      /\ \A a, b : FitStep(a, C) /\ FitStep(b, C) => FitSteps(<<a, b>>, C)
  BY TupleHolds DEF FitSteps
<1>3. \A a, b, c : FitStep(a, C) /\ FitStep(b, C) /\ FitStep(c, C) => FitSteps(<<a, b, c>>, C)
  BY TupleHolds DEF FitSteps
<1>4. \A a, b, c, d : FitStep(a, C) /\ FitStep(b, C) /\ FitStep(c, C) /\ FitStep(d, C)
                              => FitSteps(<<a, b, c, d>>, C)
  BY TupleHolds DEF FitSteps
<1>5. \A x, c : (c => FitSteps(x, C)) => FitSteps(When(c, x), C)
  BY <1>2 DEF When
<1> QED
  BY <1>1, <1>2, <1>3, <1>4, <1>5

\* Steps that fit, node after node.
LEMMA FlattenFits ==
    ASSUME NEW C, NEW seqs, IsSequence(seqs), \A q \in ToSet(seqs) : FitSteps(q, C)
    PROVE  FitSteps(FlattenSeq(seqs), C)
  BY FlattenedHolds DEF FitSteps

-----------------------------------------------------------------------------
(* The kinds of write.                                                     *)

\* A location that is neither of those a machine is taken for somebody's by.
Apart(l) == l[1] = "cluster" \/ l[2] \notin {"process.config", "cilium-values"}

\* A write that has to do with no other, and takes nothing away.
Harmless(x) == x.drop = {} /\ \A l \in Touched(x) : Apart(l)

\* A harmless write fits, whichever machines are marked.
LEMMA HarmlessFits ==
    ASSUME NEW x, NEW C, Harmless(x)
    PROVE  Fit(x, C)
<1>1. \A h \in Machines : ~Apart(<<h, "process.config">>) /\ ~Apart(<<h, "cilium-values">>)
  BY NamesAssumption DEF Apart
<1> QED
  BY <1>1 DEF Harmless, Fit, Touched

\* What is said of one location.
LEMMA JustHas ==
    ASSUME NEW loc, NEW value
    PROVE  DOMAIN Just(loc, value) = {loc} /\ Just(loc, value)[loc] = value
  BY DEF Just

\* The writes that steps are written with: each is harmless where its locations are
\* apart.
LEMMA HarmlessWrites ==
    /\ Harmless(NoWrite)
    /\ \A f : (\A l \in DOMAIN f : Apart(l)) => Harmless(PutAll(f)) /\ Harmless(ReadAll(f))
    /\ \A l, v : Apart(l) => Harmless(Put(l, v)) /\ Harmless(Copy(l, v)) /\ Harmless(Keep(l, v))
<1>0. /\ NoWrite.put = <<>> /\ NoWrite.read = <<>> /\ NoWrite.keep = <<>> /\ NoWrite.drop = {}
      /\ DOMAIN <<>> = {}
  BY DEF NoWrite
<1>1. Harmless(NoWrite)
  BY <1>0 DEF Harmless, Touched
<1>2. ASSUME NEW f, \A l \in DOMAIN f : Apart(l)
      PROVE  Harmless(PutAll(f)) /\ Harmless(ReadAll(f))
  <2>1. /\ PutAll(f).put = f /\ PutAll(f).read = <<>> /\ PutAll(f).keep = <<>>
        /\ PutAll(f).drop = {}
    BY DEF PutAll, NoWrite
  <2>2. /\ ReadAll(f).put = <<>> /\ ReadAll(f).read = f /\ ReadAll(f).keep = <<>>
        /\ ReadAll(f).drop = {}
    BY DEF ReadAll, NoWrite
  <2> QED
    BY <1>0, <1>2, <2>1, <2>2 DEF Harmless, Touched
<1>3. ASSUME NEW l, NEW v, Apart(l)
      PROVE  Harmless(Put(l, v)) /\ Harmless(Copy(l, v)) /\ Harmless(Keep(l, v))
  <2>0. DOMAIN Just(l, v) = {l}
    BY JustHas
  <2>1. \A k \in DOMAIN Just(l, v) : Apart(k)
    BY <1>3, <2>0
  <2>2. /\ Keep(l, v).put = <<>> /\ Keep(l, v).read = <<>> /\ Keep(l, v).keep = Just(l, v)
        /\ Keep(l, v).drop = {}
    BY DEF Keep, NoWrite
  <2>3. Harmless(PutAll(Just(l, v))) /\ Harmless(ReadAll(Just(l, v)))
    BY <1>2, <2>1
  <2>4. Harmless(Keep(l, v))
    BY <1>0, <2>1, <2>2 DEF Harmless, Touched
  <2> QED
    BY <2>3, <2>4 DEF Put, Copy
<1> QED
  BY <1>1, <1>2, <1>3

\* A write that does what two do touches what they touch.
LEMMA TogetherTouches ==
    ASSUME NEW x, NEW y
    PROVE  /\ Together(x, y).drop = x.drop \cup y.drop
           /\ DOMAIN Together(x, y).put = DOMAIN x.put \cup DOMAIN y.put
           /\ DOMAIN Together(x, y).read = DOMAIN x.read \cup DOMAIN y.read
           /\ DOMAIN Together(x, y).keep = DOMAIN x.keep \cup DOMAIN y.keep
           /\ \A l \in DOMAIN x.read : Together(x, y).read[l] = x.read[l]
<1> DEFINE t == Together(x, y)
<1>1. /\ t.put = x.put ++ y.put /\ t.read = x.read ++ y.read /\ t.keep = x.keep ++ y.keep
      /\ t.drop = x.drop \cup y.drop
  BY DEF Together
<1>2. ASSUME NEW f, NEW g PROVE DOMAIN (f ++ g) = DOMAIN f \cup DOMAIN g
  BY MergeHas
<1>3. DOMAIN (x.put ++ y.put) = DOMAIN x.put \cup DOMAIN y.put
  BY <1>2
<1>4. /\ DOMAIN (x.read ++ y.read) = DOMAIN x.read \cup DOMAIN y.read
      /\ \A l \in DOMAIN x.read : (x.read ++ y.read)[l] = x.read[l]
  <2> DEFINE f == x.read
             g == y.read
  <2> HIDE DEF f, g
  <2>1. /\ DOMAIN (f ++ g) = DOMAIN f \cup DOMAIN g
        /\ \A l \in DOMAIN f : (f ++ g)[l] = f[l]
    BY MergeHas
  <2> QED
    BY <2>1 DEF f, g
<1>5. DOMAIN (x.keep ++ y.keep) = DOMAIN x.keep \cup DOMAIN y.keep
  BY <1>2
<1> QED
  BY <1>1, <1>3, <1>4, <1>5 DEF t

\* A harmless write changes nothing of what it is done together with.
LEMMA HarmlessTogether ==
    ASSUME NEW x, NEW y, Harmless(y)
    PROVE  /\ Harmless(x) => Harmless(Together(x, y))
           /\ \A C : Fit(x, C) => Fit(Together(x, y), C)
<1>1. Harmless(x) => Harmless(Together(x, y))
  BY TogetherTouches DEF Harmless, Touched
<1>2. \A h \in Machines : ~Apart(<<h, "process.config">>) /\ ~Apart(<<h, "cilium-values">>)
  BY NamesAssumption DEF Apart
<1>3. ASSUME NEW C, Fit(x, C) PROVE Fit(Together(x, y), C)
  <2> SUFFICES ASSUME NEW h \in Machines
      PROVE  LET t == Together(x, y) IN
             /\ <<h, "config.yaml">> \notin t.drop
             /\ <<h, "process.config">> \notin DOMAIN t.put \cup DOMAIN t.keep
             /\ <<h, "process.config">> \in DOMAIN t.read =>
                   t.read[<<h, "process.config">>] = <<h, "config.yaml">>
             /\ <<h, "cilium-values">> \in Touched(t) => h \in C
    BY DEF Fit
  <2>1. <<h, "process.config">> \notin Touched(y) /\ <<h, "cilium-values">> \notin Touched(y)
    BY <1>2 DEF Harmless
  <2> QED
    BY <1>3, <2>1, TogetherTouches DEF Fit, Touched, Harmless
<1> QED
  BY <1>1, <1>3

\* The writes of one step.
LEMMA NoWritesFit ==
    ASSUME NEW C
    PROVE  FitWrites(<<>>, C)
  BY TupleHolds DEF FitWrites

\* One write that fits,
LEMMA OneWriteFits ==
    ASSUME NEW C, NEW a, Fit(a, C)
    PROVE  FitWrites(<<a>>, C)
  BY TupleHolds DEF FitWrites

\* two of them,
LEMMA TwoWritesFit ==
    ASSUME NEW C, NEW a, NEW b, Fit(a, C), Fit(b, C)
    PROVE  FitWrites(<<a, b>>, C)
  BY TupleHolds DEF FitWrites

\* three of them,
LEMMA ThreeWritesFit ==
    ASSUME NEW C, NEW a, NEW b, NEW c, Fit(a, C), Fit(b, C), Fit(c, C)
    PROVE  FitWrites(<<a, b, c>>, C)
  BY TupleHolds DEF FitWrites

\* and as many as two sequences have.
LEMMA WritesFitTogether ==
    ASSUME NEW C, NEW x, NEW y, FitWrites(x, C), FitWrites(y, C)
    PROVE  FitWrites(x \o y, C)
  BY ConcatHolds DEF FitWrites

\* What is put on a host under another name, or in the cluster, fits.
Named(name) == name # "process.config" /\ name # "cilium-values"

\* A file of any other name.
LEMMA HostPutFits ==
    ASSUME NEW C, NEW h, NEW name, NEW v, Named(name)
    PROVE  Fit(Put(<<h, name>>, v), C)
<1>1. Apart(<<h, name>>)
  BY DEF Apart, Named
<1> QED
  BY <1>1, HarmlessWrites, HarmlessFits

\* An object of the cluster.
LEMMA ClusterPutFits ==
    ASSUME NEW C, NEW name, NEW v
    PROVE  Fit(Put(Object(name), v), C) /\ Fit(Copy(Object(name), v), C)
<1>1. Apart(Object(name))
  BY DEF Apart, Object
<1> QED
  BY <1>1, HarmlessWrites, HarmlessFits

\* What fits still fits when more machines are marked.
LEMMA FitMore ==
    ASSUME NEW C, NEW D, C \subseteq D
    PROVE  /\ \A x : Fit(x, C) => Fit(x, D)
           /\ \A ws : FitWrites(ws, C) => FitWrites(ws, D)
           /\ \A step : FitStep(step, C) => FitStep(step, D)
           /\ \A steps : FitSteps(steps, C) => FitSteps(steps, D)
<1>1. \A x : Fit(x, C) => Fit(x, D)
  BY DEF Fit
<1>2. \A ws : FitWrites(ws, C) => FitWrites(ws, D)
  BY <1>1 DEF FitWrites
<1> QED
  BY <1>1, <1>2 DEF FitStep, FitSteps

-----------------------------------------------------------------------------
(* The kinds of step, and the preparation of a node.                       *)

\* The kinds of step that several phases are made of.
LEMMA NoStepFits ==
    ASSUME NEW C, NEW id, NEW h
    PROVE  FitStep(Step(id, h), C) /\ FitStep(FailedStep(id, h), C)
<1>1. Step(id, h).writes = <<>> /\ FailedStep(id, h).writes = <<>>
  BY DEF Step, FailedStep
<1> QED
  BY <1>1, NoWritesFit DEF FitStep

\* A file that is put on a host (FileStep), and one in RKE2's directory.
LEMMA FileFits ==
    ASSUME NEW C, NEW id, NEW h, NEW body, NEW name, Named(name)
    PROVE  /\ FitStep(FileStep(id, h, name, body), C)
           /\ FitStep(ConfigDirFile(FileStep(id, h, name, body)), C)
<1> DEFINE step == FileStep(id, h, name, body)
           file == Put(<<h, name>>, body)
           dir == Put(<<h, "/etc/rancher/rke2">>, "made")
<1>1. step.writes = <<file>>
  BY DEF FileStep, Step
<1>2. ConfigDirFile(step).writes = <<dir>> \o <<file>>
  BY <1>1 DEF ConfigDirFile, FileStep, Step
<1>3. Fit(file, C)
  BY HostPutFits
<1>4. Fit(dir, C)
  <2>1. Named("/etc/rancher/rke2")
    BY DEF Named
  <2> QED
    BY <2>1, HostPutFits
<1> HIDE DEF file, dir, step
<1>5. FitWrites(<<file>>, C)
  BY <1>3, OneWriteFits
<1>6. FitWrites(<<dir>>, C)
  BY <1>4, OneWriteFits
<1>7. FitWrites(<<dir>> \o <<file>>, C)
  BY <1>5, <1>6, WritesFitTogether
<1>8. FitStep(step, C) /\ FitStep(ConfigDirFile(step), C)
  BY <1>1, <1>2, <1>5, <1>7 DEF FitStep
<1> QED
  BY <1>8 DEF step

\* A wait for what somebody else does (WaitStep).
LEMMA WaitFits ==
    ASSUME NEW C, NEW id, NEW h, NEW needs, NEW loc, Apart(loc)
    PROVE  FitStep(WaitStep(id, h, loc, needs), C)
<1>1. WaitStep(id, h, loc, needs).writes = <<Put(loc, "ready")>>
  BY DEF WaitStep, Step
<1>2. Fit(Put(loc, "ready"), C)
  BY HarmlessWrites, HarmlessFits
<1>3. FitWrites(<<Put(loc, "ready")>>, C)
  BY <1>2, OneWriteFits
<1> QED
  BY <1>1, <1>3 DEF FitStep

\* Objects of the cluster fit, kept in a file of any other name.
LEMMA ManifestsFit ==
    ASSUME NEW C, NEW id, Named(id), NEW h, NEW body,
           NEW resource, NEW objects, \A o \in objects : o[1] = "cluster"
    PROVE  FitStep(ManifestsStep(id, h, body, resource, objects), C)
<1> DEFINE file == Put(<<h, id>>, body)
           all == PutAll([o \in objects |-> "applied"])
<1>1. ManifestsStep(id, h, body, resource, objects).writes = <<Together(file, all)>>
  BY DEF ManifestsStep, Step
<1>2. Fit(file, C)
  BY HostPutFits
<1>3. Harmless(all)
  <2>1. \A l \in DOMAIN [o \in objects |-> "applied"] : Apart(l)
    BY DEF Apart
  <2> QED
    BY <2>1, HarmlessWrites
<1> HIDE DEF file, all
<1>4. Fit(Together(file, all), C)
  BY <1>2, <1>3, HarmlessTogether
<1>5. FitWrites(<<Together(file, all)>>, C)
  BY <1>4, OneWriteFits
<1> QED
  BY <1>1, <1>5 DEF FitStep

\* One object kept in a file (ManifestStep).
LEMMA ManifestFits ==
    ASSUME NEW C, NEW id, Named(id), NEW h, NEW body, NEW object, object[1] = "cluster"
    PROVE  FitStep(ManifestStep(id, h, body, object), C)
<1>1. \A o \in {object} : o[1] = "cluster"
  OBVIOUS
<1> QED
  BY <1>1, ManifestsFit DEF ManifestStep

\* The preparation of a node (nodeprep).
LEMMA NodePrepFits ==
    ASSUME NEW C, NEW h, NEW s, NEW t
    PROVE  FitSteps(NodePrepSteps(h, s, t), C)
<1>0. \A v, name : Named(name) => Fit(Put(<<h, name>>, v), C)
  BY HostPutFits
<1>1. FitStep(ModulesStep(h), C)
  <2>1. ModulesStep(h).writes = <<Put(<<h, "modules-load.d">>, modules), Put(<<h, "modules">>, modules)>>
    BY DEF ModulesStep, Step
  <2>2. Named("modules-load.d") /\ Named("modules")
    BY DEF Named
  <2> QED
    BY <1>0, <2>1, <2>2, TwoWritesFit DEF FitStep
<1>2. FitStep(SysctlStep(h), C)
  <2>1. SysctlStep(h).writes =
           <<Put(<<h, "sysctl.d">>, sysctls), Put(<<h, "sysctls">>, checkedSysctls),
             Put(<<h, "bridge-sysctls">>, sysctls \ checkedSysctls)>>
    BY DEF SysctlStep, Step
  <2>2. Named("sysctl.d") /\ Named("sysctls") /\ Named("bridge-sysctls")
    BY DEF Named
  <2> QED
    BY <1>0, <2>1, <2>2, ThreeWritesFit DEF FitStep
<1>3. FitStep(SwapStep(h), C)
  <2>1. SwapStep(h).writes = <<Put(<<h, "swap">>, "off"), Put(<<h, "fstab">>, "off")>>
    BY DEF SwapStep, Step
  <2>2. Named("swap") /\ Named("fstab")
    BY DEF Named
  <2> QED
    BY <1>0, <2>1, <2>2, TwoWritesFit DEF FitStep
<1>4. FitStep(DataDirStep(h), C)
  <2>1. DataDirStep(h).writes = <<Put(<<h, "/var/lib/rancher">>, "made")>>
    BY DEF DataDirStep, Step
  <2>2. Named("/var/lib/rancher")
    BY DEF Named
  <2> QED
    BY <1>0, <2>1, <2>2, OneWriteFits DEF FitStep
<1>5. FitStep(TrustStep(h, t), C)
  <2>1. TrustStep(h, t).writes = <<Put(<<h, "ca-file">>, t.ca), Put(<<h, "ca-store">>, t.ca)>>
    BY DEF TrustStep, Step
  <2>2. Named("ca-file") /\ Named("ca-store")
    BY DEF Named
  <2> QED
    BY <1>0, <2>1, <2>2, TwoWritesFit DEF FitStep
<1>6. FitStep(RegistriesStep(h, s, t), C)
  <2>1. Named("registries.yaml")
    BY DEF Named
  <2> QED
    BY <2>1, FileFits DEF RegistriesStep
<1>7. /\ FitSteps(<<ModulesStep(h), SysctlStep(h)>>, C)
      /\ FitSteps(<<SwapStep(h)>>, C) /\ FitSteps(<<DataDirStep(h)>>, C)
      /\ FitSteps(<<TrustStep(h, t)>>, C) /\ FitSteps(<<RegistriesStep(h, s, t)>>, C)
  BY <1>1, <1>2, <1>3, <1>4, <1>5, <1>6, FitTogether
<1>8. \A x, c : FitSteps(x, C) => FitSteps(When(c, x), C)
  BY FitTogether
<1>9. \A x, y : FitSteps(x, C) /\ FitSteps(y, C) => FitSteps(x \o y, C)
  BY FitTogether
<1> QED
  BY <1>7, <1>8, <1>9, Zenon DEF NodePrepSteps

-----------------------------------------------------------------------------
(* RKE2: what a start does.                                                *)

\* A start reads the configuration where it reads it at all.
LEMMA StartFits ==
    ASSUME NEW C, NEW h
    PROVE  /\ Fit(StartWrites(h), C)
           /\ StartWrites(h).drop = {}
           /\ \A l \in Touched(StartWrites(h)) :
                 l \in {<<h, "process.config">>, <<h, "process.registries">>, <<h, "process.rke2">>}
<1> DEFINE a == Just(<<h, "process.config">>, <<h, "config.yaml">>)
           b == Just(<<h, "process.registries">>, <<h, "registries.yaml">>)
           c == Just(<<h, "process.rke2">>, <<h, "rke2">>)
<1>1. /\ DOMAIN a = {<<h, "process.config">>} /\ a[<<h, "process.config">>] = <<h, "config.yaml">>
      /\ DOMAIN b = {<<h, "process.registries">>} /\ DOMAIN c = {<<h, "process.rke2">>}
  BY JustHas
<1>2. /\ StartWrites(h).read = a ++ b ++ c
      /\ StartWrites(h).put = <<>> /\ StartWrites(h).keep = <<>> /\ StartWrites(h).drop = {}
      /\ DOMAIN <<>> = {}
  BY DEF StartWrites, ReadAll, NoWrite
<1> HIDE DEF a, b, c
<1>3. DOMAIN (a ++ b) = DOMAIN a \cup DOMAIN b /\ \A l \in DOMAIN a : (a ++ b)[l] = a[l]
  BY MergeHas
<1> DEFINE ab == a ++ b
<1> HIDE DEF ab
<1>4. DOMAIN (ab ++ c) = DOMAIN ab \cup DOMAIN c /\ \A l \in DOMAIN ab : (ab ++ c)[l] = ab[l]
  BY MergeHas
<1>5. /\ DOMAIN StartWrites(h).read =
            {<<h, "process.config">>, <<h, "process.registries">>, <<h, "process.rke2">>}
      /\ StartWrites(h).read[<<h, "process.config">>] = <<h, "config.yaml">>
  BY <1>1, <1>2, <1>3, <1>4 DEF ab
<1>6. \A l \in Touched(StartWrites(h)) :
         l \in {<<h, "process.config">>, <<h, "process.registries">>, <<h, "process.rke2">>}
  BY <1>2, <1>5 DEF Touched
<1>7. Fit(StartWrites(h), C)
  <2> SUFFICES ASSUME NEW g \in Machines
      PROVE  LET x == StartWrites(h) IN
             /\ <<g, "config.yaml">> \notin x.drop
             /\ <<g, "process.config">> \notin DOMAIN x.put \cup DOMAIN x.keep
             /\ <<g, "process.config">> \in DOMAIN x.read =>
                   x.read[<<g, "process.config">>] = <<g, "config.yaml">>
             /\ <<g, "cilium-values">> \in Touched(x) => g \in C
    BY DEF Fit
  <2>1. <<g, "process.config">> \in DOMAIN StartWrites(h).read => g = h
    BY <1>5
  <2>2. <<g, "cilium-values">> \notin Touched(StartWrites(h))
    BY <1>6
  <2> QED
    BY <1>2, <1>5, <2>1, <2>2
<1> QED
  BY <1>2, <1>6, <1>7

\* What RKE2 deploys by itself when it starts is in the cluster.
LEMMA BundledHarmless ==
    ASSUME NEW h, NEW s
    PROVE  Harmless(Bundled(h, s))
<1>0. \A name : Apart(Object(name))
  BY DEF Apart, Object
<1> DEFINE a == Just(Object("cilium-config"), <<h, "cilium-values">>)
           b == Just(Object("cilium-pods"), <<h, "cilium-values">>)
<1>1. Harmless(ReadAll(a ++ b))
  <2>1. DOMAIN a = {Object("cilium-config")} /\ DOMAIN b = {Object("cilium-pods")}
    BY JustHas
  <2> HIDE DEF a, b
  <2>2. DOMAIN (a ++ b) = DOMAIN a \cup DOMAIN b
    BY MergeHas
  <2>3. \A l \in DOMAIN (a ++ b) : Apart(l)
    BY <1>0, <2>1, <2>2
  <2> QED
    BY <2>3, HarmlessWrites
<1> DEFINE c == Just(<<h, "token">>, "token")
           d == Just(API, "up")
           e == Just(Object("node"), "Ready")
           f == Just(Object("rke2-coredns"), "applied")
           g == Just(Object(CNI(s)), "ready")
<1>2. Harmless(PutAll(c ++ d ++ e ++ f ++ g))
  <2>1. /\ DOMAIN c = {<<h, "token">>} /\ DOMAIN d = {API} /\ DOMAIN e = {Object("node")}
        /\ DOMAIN f = {Object("rke2-coredns")} /\ DOMAIN g = {Object(CNI(s))}
    BY JustHas
  <2>2. Apart(<<h, "token">>) /\ Apart(API)
    BY DEF Apart, API
  <2> HIDE DEF c, d, e, f, g
  <2>3. ASSUME NEW x, NEW y PROVE DOMAIN (x ++ y) = DOMAIN x \cup DOMAIN y
    BY MergeHas
  <2>4. DOMAIN (c ++ d) = DOMAIN c \cup DOMAIN d
    BY <2>3
  <2>5. DOMAIN (c ++ d ++ e) = DOMAIN (c ++ d) \cup DOMAIN e
    BY <2>3
  <2>6. DOMAIN (c ++ d ++ e ++ f) = DOMAIN (c ++ d ++ e) \cup DOMAIN f
    BY <2>3
  <2>7. DOMAIN (c ++ d ++ e ++ f ++ g) = DOMAIN (c ++ d ++ e ++ f) \cup DOMAIN g
    BY <2>3
  <2>8. \A l \in DOMAIN (c ++ d ++ e ++ f ++ g) : Apart(l)
    BY <1>0, <2>1, <2>2, <2>4, <2>5, <2>6, <2>7
  <2> QED
    BY <2>8, HarmlessWrites
<1>3. Harmless(NoWrite)
  BY HarmlessWrites
<1> DEFINE reads == IF CNI(s) # "cilium" THEN NoWrite ELSE ReadAll(a ++ b)
           puts == PutAll(c ++ d ++ e ++ f ++ g)
<1>4. Harmless(reads)
  BY <1>1, <1>3
<1>5. Bundled(h, s) = Together(reads, puts)
  BY DEF Bundled
<1> HIDE DEF reads, puts
<1>6. Harmless(puts)
  BY <1>2 DEF puts
<1> QED
  BY <1>4, <1>5, <1>6, HarmlessTogether

\* A start makes a server a member under its address.
LEMMA MemberFits ==
    ASSUME NEW C, NEW step, NEW n, {"id", "writes"} \subseteq DOMAIN step, Fit(step.writes[1], C)
    PROVE  /\ FitStep(AsMember(step, n), C)
           /\ AsMember(step, n).id = step.id
<1> DEFINE keep == Keep(Member(n)[1], Member(n)[2])
           put == Put(<<n.host, "rke2.yaml">>, n.host)
           y == Together(keep, put)
           x == step.writes[1]
<1>1. AsMember(step, n).id = step.id
  BY DEF AsMember
<1>2. AsMember(step, n).writes = <<Together(x, y)>>
  BY DEF AsMember
<1>3. Apart(Member(n)[1]) /\ Apart(<<n.host, "rke2.yaml">>)
  BY DEF Apart, Member
<1>4. Harmless(keep) /\ Harmless(put)
  BY <1>3, HarmlessWrites
<1> HIDE DEF keep, put
<1>5. Harmless(y)
  BY <1>4, HarmlessTogether
<1> HIDE DEF x, y
<1>6. Fit(x, C)
  BY DEF x
<1>7. Fit(Together(x, y), C)
  BY <1>5, <1>6, HarmlessTogether
<1>8. FitWrites(<<Together(x, y)>>, C)
  BY <1>7, OneWriteFits
<1> QED
  BY <1>1, <1>2, <1>8 DEF FitStep

-----------------------------------------------------------------------------
(* The first server and the nodes that join.                               *)

\* RKE2's service, on the first server and on those that join (bootstrap.go, join.go).
LEMMA RunningFits ==
    ASSUME NEW C, NEW h, NEW s, NEW n
    PROVE  /\ FitStep(AsMember(ServiceStep(h, s), n), C)
           /\ FitStep(AsMember(UnitStep(h), n), C)
           /\ FitStep(UnitStep(h), C)
           /\ AsMember(ServiceStep(h, s), n).id = "service"
<1>1. /\ {"id", "writes"} \subseteq DOMAIN ServiceStep(h, s) /\ ServiceStep(h, s).id = "service"
      /\ ServiceStep(h, s).writes = <<Together(StartWrites(h), Bundled(h, s))>>
  BY DEF ServiceStep, Step
<1>2. /\ {"id", "writes"} \subseteq DOMAIN UnitStep(h)
      /\ UnitStep(h).writes = <<StartWrites(h)>>
  BY DEF UnitStep, Step
<1>3. Fit(StartWrites(h), C)
  BY StartFits
<1>4. Fit(Together(StartWrites(h), Bundled(h, s)), C)
  BY <1>3, BundledHarmless, HarmlessTogether
<1>5. Fit(ServiceStep(h, s).writes[1], C) /\ Fit(UnitStep(h).writes[1], C)
  BY <1>1, <1>2, <1>3, <1>4
<1>6. FitStep(UnitStep(h), C)
  BY <1>2, <1>3, OneWriteFits DEF FitStep
<1> QED
  BY <1>1, <1>2, <1>5, <1>6, MemberFits

\* RKE2's installation (install.go).
LEMMA InstallFits ==
    ASSUME NEW C, NEW h, NEW s
    PROVE  FitStep(InstallStep(h, s), C) /\ InstallStep(h, s).id = "install"
<1>1. /\ InstallStep(h, s).writes = <<Put(<<h, "rke2">>, s.kubernetes.version)>>
      /\ InstallStep(h, s).id = "install"
  BY DEF InstallStep, Step
<1>2. Named("rke2")
  BY DEF Named
<1> QED
  BY <1>1, <1>2, HostPutFits, OneWriteFits DEF FitStep

\* RKE2's configuration is what its step looks at and what it writes: the mark itself.
LEMMA ConfigFits ==
    ASSUME NEW C, NEW h, NEW body
    PROVE  /\ FitStep(ConfigStep(h, body), C)
           /\ ConfigStep(h, body).id = "config" /\ ConfigStep(h, body).host = h
           /\ <<<<h, "config.yaml">>, body>> \in ConfigStep(h, body).finds
<1>1. /\ ConfigStep(h, body).id = "config" /\ ConfigStep(h, body).host = h
      /\ ConfigStep(h, body).finds = {<<<<h, "config.yaml">>, body>>}
  BY DEF ConfigStep, ConfigDirFile, FileStep, Step
<1>2. Named("config.yaml")
  BY DEF Named
<1> QED
  BY <1>1, <1>2, FileFits DEF ConfigStep

\* The operator's copy of the credentials (bootstrap.go).
LEMMA KubeconfigFits ==
    ASSUME NEW C, NEW n, NEW s
    PROVE  FitStep(KubeconfigStep(n, s), C) /\ KubeconfigStep(n, s).id = "kubeconfig"
<1> DEFINE body == IF OperatorServer(s) = "" THEN "127.0.0.1" ELSE OperatorServer(s)
           file == FileStep("kubeconfig", n.host, "kubeconfig", body)
           copy == [file EXCEPT !.needs = {<<n.host, "rke2.yaml">>}]
<1>1. Named("kubeconfig")
  BY DEF Named
<1>2. FitStep(file, C) /\ FitStep(Step("kubeconfig", n.host), C)
  BY <1>1, FileFits, NoStepFits
<1>3. copy.writes = file.writes /\ copy.id = "kubeconfig"
  BY DEF FileStep, Step
<1>4. Step("kubeconfig", n.host).id = "kubeconfig"
  BY DEF Step
<1>5. KubeconfigStep(n, s) = IF n.user = "root" THEN Step("kubeconfig", n.host) ELSE copy
  BY DEF KubeconfigStep
<1> HIDE DEF file, copy
<1>6. FitStep(copy, C)
  BY <1>2, <1>3 DEF FitStep
<1> QED
  BY <1>2, <1>3, <1>4, <1>5, <1>6

\* The operator's tools (opstools.go).
LEMMA OpsToolsFit ==
    ASSUME NEW C, NEW h, NEW online
    PROVE  FitStep(OpsToolsStep(h, online), C) /\ OpsToolsStep(h, online).id = "operator-tools"
<1> DEFINE tools == IF online THEN <<"kubectl", "k9s", "helm">> ELSE <<"kubectl">>
<1>1. /\ OpsToolsStep(h, online).writes = [i \in DOMAIN tools |-> Put(<<h, tools[i]>>, "installed")]
      /\ OpsToolsStep(h, online).id = "operator-tools"
  BY DEF OpsToolsStep, Step
<1>2. tools \in Seq({"kubectl", "k9s", "helm"})
  <2>1. <<"kubectl", "k9s", "helm">> \in Seq({"kubectl", "k9s", "helm"})
    OBVIOUS
  <2>2. <<"kubectl">> \in Seq({"kubectl", "k9s", "helm"})
    OBVIOUS
  <2> QED
    BY <2>1, <2>2
<1>3. \A t \in {"kubectl", "k9s", "helm"} : Named(t)
  BY DEF Named
<1> DEFINE Of(i) == Put(<<h, tools[i]>>, "installed")
           ws == [i \in DOMAIN tools |-> Of(i)]
<1> HIDE DEF tools
<1>4. \A i \in DOMAIN tools : Fit(Of(i), C)
  <2> TAKE i \in DOMAIN tools
  <2>1. tools[i] \in {"kubectl", "k9s", "helm"}
    BY <1>2
  <2> QED
    BY <1>3, <2>1, HostPutFits
<1> HIDE DEF Of
<1>5. ws \in Seq({Of(i) : i \in DOMAIN tools})
  BY <1>2
<1>6. \A x \in ToSet(ws) : Fit(x, C)
  BY <1>4 DEF ToSet
<1> HIDE DEF ws
<1>7. FitWrites(ws, C)
  BY <1>5, <1>6 DEF FitWrites, IsSequence
<1> QED
  BY <1>1, <1>7 DEF FitStep, ws, Of

\* The wait for a node that joined to register (join.go).
LEMMA RegisteredFits ==
    ASSUME NEW C, NEW n, NEW s
    PROVE  FitStep(RegisteredStep(n, s), C)
<1> DEFINE wait == WaitStep("registered", n.host, <<"cluster", "node", n.host>>, {<<n.host, "process.config">>})
<1>1. RegisteredStep(n, s).writes = wait.writes
  BY DEF RegisteredStep, WaitStep, Step
<1>2. Apart(<<"cluster", "node", n.host>>)
  BY DEF Apart
<1>3. FitStep(wait, C)
  BY <1>2, WaitFits
<1> HIDE DEF wait
<1> QED
  BY <1>1, <1>3 DEF FitStep

\* A node that joins (join.go).
LEMMA JoinFits ==
    ASSUME NEW C, NEW n, NEW s, NEW server \in BOOLEAN, NEW token
    PROVE  FitSteps(JoinSteps(n, s, server, token), C)
<1> DEFINE body == IF server THEN JoiningConfig(n, s, token) ELSE AgentConfig(n, s, token)
           unit == IF server THEN AsMember(UnitStep(n.host), n) ELSE UnitStep(n.host)
<1>1. FitStep(InstallStep(n.host, s), C)
  BY InstallFits
<1>2. FitStep(ConfigStep(n.host, body), C)
  BY ConfigFits
<1>3. FitStep(unit, C)
  BY RunningFits
<1>4. FitStep(RegisteredStep(n, s), C)
  BY RegisteredFits
<1> HIDE DEF body, unit
<1>5. FitSteps(<<InstallStep(n.host, s), ConfigStep(n.host, body), unit, RegisteredStep(n, s)>>, C)
  BY <1>1, <1>2, <1>3, <1>4, FitTogether
<1>6. FitSteps(<<KubeconfigStep(n, s)>>, C)
  BY KubeconfigFits, FitTogether
<1>7. FitSteps(When(server, <<KubeconfigStep(n, s)>>), C)
  BY <1>6, FitTogether
<1>8. FitSteps(<<InstallStep(n.host, s), ConfigStep(n.host, body), unit, RegisteredStep(n, s)>>
               \o When(server, <<KubeconfigStep(n, s)>>), C)
  BY <1>5, <1>7, FitTogether
<1> QED
  BY <1>8 DEF JoinSteps, body, unit

\* The nodes that join, one after the other, each with the token it reads first.
LEMMA JoinPhaseFits ==
    ASSUME NEW C, NEW first, NEW nodes, IsSequence(nodes), NEW s, NEW server \in BOOLEAN
    PROVE  FitSteps(FlattenSeq([i \in DOMAIN nodes |->
              <<tokenStep(first, nodes[i].host)>> \o JoinSteps(nodes[i], s, server, "token")]), C)
<1> DEFINE Of(i) == <<tokenStep(first, nodes[i].host)>> \o JoinSteps(nodes[i], s, server, "token")
           seqs == [i \in DOMAIN nodes |-> Of(i)]
<1>1. ASSUME NEW i PROVE FitSteps(Of(i), C)
  <2>1. tokenStep(first, nodes[i].host).writes = <<>>
    BY DEF tokenStep, Step
  <2>2. FitStep(tokenStep(first, nodes[i].host), C)
    BY <2>1, NoWritesFit DEF FitStep
  <2>3. FitSteps(<<tokenStep(first, nodes[i].host)>>, C)
    BY <2>2, FitTogether
  <2> QED
    BY <2>3, JoinFits, FitTogether
<1>2. PICK S : nodes \in Seq(S)
  BY DEF IsSequence
<1> HIDE DEF Of
<1>3. seqs \in Seq({Of(i) : i \in DOMAIN nodes})
  BY <1>2
<1>4. \A q \in ToSet(seqs) : FitSteps(q, C)
  BY <1>1 DEF ToSet
<1> HIDE DEF seqs
<1>5. FitSteps(FlattenSeq(seqs), C)
  BY <1>3, <1>4, FlattenFits DEF IsSequence
<1> QED
  BY <1>5 DEF seqs, Of

\* The address of the control plane (kubevip.go).
LEMMA VIPFits ==
    ASSUME NEW C, NEW h, NEW s
    PROVE  /\ FitSteps(vipSteps(h, s), C)
           /\ \A step \in ToSet(vipSteps(h, s)) : step.id # "config"
<1>1. ASSUME NEW iface
      PROVE  /\ FitSteps(VIPSteps(h, s, iface), C)
             /\ \A step \in ToSet(VIPSteps(h, s, iface)) : step.id # "config"
  <2>1. FitStep(KubeVIPStep(h, s, iface), C) /\ KubeVIPStep(h, s, iface).id # "config"
    <3>1. Named("kube-vip-manifest")
      BY DEF Named
    <3>2. KubeVIPStep(h, s, iface).id = "kube-vip-manifest"
      BY DEF KubeVIPStep, FileStep, Step
    <3> QED
      BY <3>1, <3>2, FileFits DEF KubeVIPStep
  <2>2. FitStep(VIPAnswersStep(h, s), C) /\ VIPAnswersStep(h, s).id # "config"
    <3>1. Apart(Address(VIPAddress(s)))
      BY DEF Apart, Address
    <3>2. VIPAnswersStep(h, s).id = "vip"
      BY DEF VIPAnswersStep, WaitStep, Step
    <3> QED
      BY <3>1, <3>2, WaitFits DEF VIPAnswersStep
  <2>3. FitSteps(<<KubeVIPStep(h, s, iface), VIPAnswersStep(h, s)>>, C) /\ FitSteps(<<>>, C)
    BY <2>1, <2>2, FitTogether
  <2>4. /\ ToSet(<<KubeVIPStep(h, s, iface), VIPAnswersStep(h, s)>>)
              = {KubeVIPStep(h, s, iface), VIPAnswersStep(h, s)}
        /\ ToSet(<<>>) = {}
    BY TupleHolds
  <2> QED
    BY <2>1, <2>2, <2>3, <2>4, Zenon DEF VIPSteps
<1>2. FitStep(vipFailure(h), C) /\ vipFailure(h).id # "config"
  <2>1. vipFailure(h).id = "vip-interface"
    BY DEF vipFailure, FailedStep, Step
  <2> QED
    BY <2>1, NoStepFits DEF vipFailure
<1>3. /\ FitSteps(<<vipFailure(h)>>, C) /\ FitSteps(<<>>, C)
      /\ ToSet(<<vipFailure(h)>>) = {vipFailure(h)} /\ ToSet(<<>>) = {}
  BY <1>2, FitTogether, TupleHolds
<1> QED
  BY <1>1, <1>2, <1>3, Zenon DEF vipSteps

-----------------------------------------------------------------------------
(* The dataplane and the add-ons.                                          *)

\* A step whose waits or objects are of the cluster.
LEMMA ObjectFits ==
    ASSUME NEW C, NEW h, NEW name
    PROVE  /\ \A id, needs : FitStep(WaitStep(id, h, Object(name), needs), C)
           /\ \A id, body : Named(id) => FitStep(ManifestStep(id, h, body, Object(name)), C)
           /\ \A id, chart, values : Named(id) => FitStep(ChartStep(id, h, chart, values), C)
           /\ \A id, needs : FitStep(AcceptsStep(id, h, name, needs), C)
<1>1. \A n : Apart(Object(n)) /\ Object(n)[1] = "cluster"
  BY DEF Apart, Object
<1>2. \A id, needs : FitStep(WaitStep(id, h, Object(name), needs), C)
  BY <1>1, WaitFits
<1>3. \A id, body : Named(id) => FitStep(ManifestStep(id, h, body, Object(name)), C)
  BY <1>1, ManifestFits
<1>4. \A id, chart, values : Named(id) => FitStep(ChartStep(id, h, chart, values), C)
  <2>1. \A id : HelmChart(id)[1] = "cluster"
    BY DEF HelmChart
  <2> QED
    BY <2>1, ManifestFits DEF ChartStep
<1>5. \A id, needs : FitStep(AcceptsStep(id, h, name, needs), C)
  BY <1>2 DEF AcceptsStep
<1> QED
  BY <1>2, <1>3, <1>4, <1>5

\* A step with the writes of another.
LEMMA SameWrites ==
    ASSUME NEW C, NEW a, NEW b, a.writes = b.writes, FitStep(b, C)
    PROVE  FitStep(a, C)
  BY DEF FitStep

\* The values Cilium is installed with are put beside a configuration that is there.
LEMMA CiliumValuesFit ==
    ASSUME NEW C, NEW h \in C, NEW id, NEW body
    PROVE  /\ FitStep(PrestageStep(h, "cilium-values", body), C)
           /\ PrestageStep(h, "cilium-values", body).id = "cilium-values"
           /\ FitStep(ManifestStep("cilium-values", h, body, Object("helmchartconfig")), C)
<1> DEFINE file == Put(<<h, "cilium-values">>, body)
           all == PutAll([o \in {Object("helmchartconfig")} |-> "applied"])
           step == PrestageStep(h, "cilium-values", body)
           manifest == ManifestStep("cilium-values", h, body, Object("helmchartconfig"))
<1>1. step.writes = <<file>> /\ step.id = "cilium-values"
  BY DEF PrestageStep, FileStep, Step
<1>2. manifest.writes = <<Together(file, all)>>
  BY DEF ManifestStep, ManifestsStep, Step
<1>3. Fit(file, C)
  <2>1. /\ file.put = Just(<<h, "cilium-values">>, body) /\ file.read = <<>> /\ file.keep = <<>>
        /\ file.drop = {} /\ DOMAIN <<>> = {}
    BY DEF Put, PutAll, NoWrite
  <2>2. DOMAIN file.put = {<<h, "cilium-values">>}
    BY <2>1, JustHas
  <2> HIDE DEF file
  <2> QED
    BY <2>1, <2>2 DEF Fit, Touched
<1>4. Harmless(all)
  <2>1. \A l \in DOMAIN [o \in {Object("helmchartconfig")} |-> "applied"] : Apart(l)
    BY DEF Apart, Object
  <2> QED
    BY <2>1, HarmlessWrites
<1> HIDE DEF file, all, step, manifest
<1>5. Fit(Together(file, all), C)
  BY <1>3, <1>4, HarmlessTogether
<1>6. FitStep(step, C) /\ FitStep(manifest, C)
  BY <1>1, <1>2, <1>3, <1>5, OneWriteFits DEF FitStep
<1> QED
  BY <1>1, <1>6 DEF step, manifest

\* The cluster network (dataplane.go), with the values in their place.
LEMMA DataplaneFits ==
    ASSUME NEW C, NEW h \in C, NEW s
    PROVE  FitSteps(DataplaneSteps(h, s), C)
<1>0. \A name, v : Fit(Put(Object(name), v), C) /\ Fit(Copy(Object(name), v), C)
  BY ClusterPutFits
<1>1. FitStep(BundledDataplaneStep(h), C)
  <2> DEFINE wait == WaitStep("bundled-dataplane", h, Object("coredns"), {Object("canal"), Object("rke2-coredns")})
  <2>1. BundledDataplaneStep(h).writes = wait.writes
    BY DEF BundledDataplaneStep, WaitStep, Step
  <2>2. FitStep(wait, C)
    BY ObjectFits
  <2> HIDE DEF wait
  <2> QED
    BY <2>1, <2>2, SameWrites
<1>2. FitStep(GatewayCRDStep(h, s), C)
  <2>1. GatewayCRDStep(h, s).writes =
           <<Put(Object("gateway-api-channel"), gatewayAPIChannel(s)),
             Put(Object("gateway-api"), GatewayAPIVersion)>>
    BY DEF GatewayCRDStep, Step
  <2> QED
    BY <1>0, <2>1, TwoWritesFit DEF FitStep
<1>3. FitStep(CiliumValuesStep(h, s), C)
  BY CiliumValuesFit DEF CiliumValuesStep
<1>4. FitStep(CiliumAppliedStep(h, s), C)
  <2>1. CiliumAppliedStep(h, s).writes = <<Copy(Object("cilium-config"), <<h, "cilium-values">>)>>
    BY DEF CiliumAppliedStep, Step, Rerun
  <2> QED
    BY <1>0, <2>1, OneWriteFits DEF FitStep
<1>5. FitStep(CiliumCurrentStep(h), C)
  <2>1. CiliumCurrentStep(h).writes =
           <<Copy(Object("operator"), Object("gateway-api")),
             Copy(Object("cilium-pods"), Object("cilium-config"))>>
    BY DEF CiliumCurrentStep, Step
  <2> QED
    BY <1>0, <2>1, TwoWritesFit DEF FitStep
<1>6. FitStep(CoreDNSStep(h), C)
  BY ObjectFits DEF CoreDNSStep
<1>7. FitStep(GatewayClassStep(h), C)
  <2> DEFINE wait == WaitStep("gatewayclass", h, Object("gatewayclass"), {Object("gateway-api"), Object("cilium")})
             copy == <<Copy(Object("operator"), Object("gateway-api"))>>
  <2>1. GatewayClassStep(h).writes = copy \o wait.writes
    BY DEF GatewayClassStep, WaitStep, Step
  <2>2. FitStep(wait, C)
    BY ObjectFits
  <2>3. FitWrites(copy, C)
    BY <1>0, OneWriteFits
  <2> HIDE DEF wait, copy
  <2> QED
    BY <2>1, <2>2, <2>3, WritesFitTogether DEF FitStep
<1>8. /\ FitStep(ManifestStep("lb-pool", h, LoadBalancerPool(s), Object("lb-pool")), C)
      /\ FitStep(ManifestStep("l2-announcement", h, "control-plane", Object("l2-policy")), C)
  <2>1. Named("lb-pool") /\ Named("l2-announcement")
    BY DEF Named
  <2> QED
    BY <2>1, ObjectFits
<1>9. /\ FitSteps(<<BundledDataplaneStep(h)>>, C) /\ FitSteps(<<GatewayCRDStep(h, s)>>, C)
      /\ FitSteps(<<GatewayClassStep(h)>>, C)
      /\ FitSteps(<<ManifestStep("lb-pool", h, LoadBalancerPool(s), Object("lb-pool"))>>, C)
      /\ FitSteps(<<ManifestStep("l2-announcement", h, "control-plane", Object("l2-policy"))>>, C)
  BY <1>1, <1>2, <1>7, <1>8, FitTogether
<1>10. /\ FitSteps(<<CiliumValuesStep(h, s), CiliumAppliedStep(h, s)>>, C)
       /\ FitSteps(<<CiliumCurrentStep(h), CoreDNSStep(h)>>, C)
  BY <1>3, <1>4, <1>5, <1>6, FitTogether
<1>11. \A x, c : FitSteps(x, C) => FitSteps(When(c, x), C)
  BY FitTogether
<1>12. \A x, y : FitSteps(x, C) /\ FitSteps(y, C) => FitSteps(x \o y, C)
  BY FitTogether
<1> QED
  BY <1>9, <1>10, <1>11, <1>12, Zenon DEF DataplaneSteps

-----------------------------------------------------------------------------

\* The default storage class (storage.go).
LEMMA StorageFits ==
    ASSUME NEW C, NEW h, NEW s
    PROVE  FitSteps(StorageSteps(h, s), C)
<1>1. FitStep(ProvisionerStep(h, s), C)
  <2> DEFINE step == ManifestStep("provisioner", h, StorageManifest(s), Object("local-path-provisioner"))
             class == Put(Object("storageclass"), IsDefaultClass(s))
             file == Put(<<h, "provisioner">>, StorageManifest(s))
             all == PutAll([o \in {Object("local-path-provisioner")} |-> "applied"])
             one == Together(file, all)
  <2>1. ProvisionerStep(h, s).writes = <<Together(one, class)>>
    BY DEF ProvisionerStep, ManifestStep, ManifestsStep, Step
  <2>2. Apart(Object("storageclass")) /\ Apart(Object("local-path-provisioner")) /\ Apart(<<h, "provisioner">>)
    BY DEF Apart, Object
  <2>3. Harmless(class) /\ Harmless(file)
    BY <2>2, HarmlessWrites
  <2>4. Harmless(all)
    BY <2>2, HarmlessWrites
  <2> HIDE DEF class, file, all
  <2>5. Harmless(one)
    BY <2>3, <2>4, HarmlessTogether
  <2> HIDE DEF one
  <2>6. Fit(Together(one, class), C)
    BY <2>3, <2>5, HarmlessTogether, HarmlessFits
  <2> QED
    BY <2>1, <2>6, OneWriteFits DEF FitStep
<1>2. FitStep(StorageReadyStep(h, s), C)
  <2> DEFINE wait == WaitStep("storage-ready", h, Object("provisioner-ready"), {Object("local-path-provisioner")})
  <2>1. StorageReadyStep(h, s).writes = wait.writes
    BY DEF StorageReadyStep, WaitStep, Step
  <2>2. FitStep(wait, C)
    BY ObjectFits
  <2> HIDE DEF wait
  <2> QED
    BY <2>1, <2>2, SameWrites
<1>3. FitStep(ByoStep(h), C)
  <2>1. ByoStep(h).writes = <<>>
    BY DEF ByoStep, Step
  <2> QED
    BY <2>1, NoWritesFit DEF FitStep
<1>4. FitStep(UnimplementedStep(h, s), C)
  BY NoStepFits DEF UnimplementedStep
<1>5. /\ FitSteps(<<>>, C) /\ FitSteps(<<ProvisionerStep(h, s), StorageReadyStep(h, s)>>, C)
      /\ FitSteps(<<ByoStep(h)>>, C) /\ FitSteps(<<UnimplementedStep(h, s)>>, C)
  BY <1>1, <1>2, <1>3, <1>4, FitTogether
<1> QED
  BY <1>5 DEF StorageSteps

\* The issuers and the bundle of trust (pki.go).
LEMMA PkiFits ==
    ASSUME NEW C, NEW h, NEW s, NEW m, NEW charts
    PROVE  FitSteps(PkiSteps(h, s, m, charts), C)
<1>0. /\ Named("cert-manager") /\ Named("trust-manager") /\ Named("issuer") /\ Named("trust-bundle")
  BY DEF Named
<1>1. /\ FitStep(CertManagerStep(h, s, charts), C) /\ FitStep(TrustManagerStep(h, s, charts), C)
  BY <1>0, ObjectFits DEF CertManagerStep, TrustManagerStep
<1>2. \A id, name, needs : FitStep(AcceptsStep(id, h, name, needs), C)
  BY ObjectFits
<1>3. /\ FitStep(ManifestStep("issuer", h, IssuerManifest(s), Object("issuer")), C)
      /\ FitStep(ManifestStep("trust-bundle", h, TrustBundle, Object("trust-bundle")), C)
      /\ FitStep(IssuerReadyStep(h, s, m), C)
  BY <1>0, ObjectFits DEF IssuerReadyStep
<1>4. FitStep(CASecretStep(h, m), C)
  <2> DEFINE a == Just(Object("ca-secret"), <<m.cert, m.key>>)
             b == Just(Object("ca-fingerprint"), m.cert)
  <2>1. CASecretStep(h, m).writes = <<PutAll(a ++ b)>>
    BY DEF CASecretStep, Step
  <2>2. DOMAIN a = {Object("ca-secret")} /\ DOMAIN b = {Object("ca-fingerprint")}
    BY JustHas
  <2> HIDE DEF a, b
  <2>3. DOMAIN (a ++ b) = DOMAIN a \cup DOMAIN b
    BY MergeHas
  <2>4. \A l \in DOMAIN (a ++ b) : Apart(l)
    BY <2>2, <2>3 DEF Apart, Object
  <2>5. Fit(PutAll(a ++ b), C)
    BY <2>4, HarmlessWrites, HarmlessFits
  <2> QED
    BY <2>1, <2>5, OneWriteFits DEF FitStep
<1>5. FitStep(ACMETokenStep(h, s, m), C)
  <2>1. ACMETokenStep(h, s, m).writes = <<Put(acmeSecretName(s), m.acme)>>
    BY DEF ACMETokenStep, Step
  <2>2. Apart(acmeSecretName(s))
    BY DEF Apart, acmeSecretName
  <2>3. Fit(Put(acmeSecretName(s), m.acme), C)
    BY <2>2, HarmlessWrites, HarmlessFits
  <2> QED
    BY <2>1, <2>3, OneWriteFits DEF FitStep
<1>6. FitStep(FailedStep("material", h), C)
  BY NoStepFits
<1> DEFINE certReady == AcceptsStep("cert-manager-ready", h, "cert-manager",
                                    ServingNeeds(s, charts, "cert-manager", "cert-manager"))
           trustReady == AcceptsStep("trust-manager-ready", h, "trust-manager",
                                     ServingNeeds(s, charts, "trust-manager", "trust-manager"))
           chart == <<CertManagerStep(h, s, charts), certReady>>
           issuer == <<ManifestStep("issuer", h, IssuerManifest(s), Object("issuer")),
                       IssuerReadyStep(h, s, m)>>
           bundle == <<TrustManagerStep(h, s, charts), trustReady,
                       ManifestStep("trust-bundle", h, TrustBundle, Object("trust-bundle"))>>
<1>7. FitStep(certReady, C) /\ FitStep(trustReady, C)
  BY <1>2
<1>8. FitSteps(chart, C) /\ FitSteps(issuer, C) /\ FitSteps(bundle, C)
  <2> HIDE DEF certReady, trustReady
  <2> QED
    BY <1>1, <1>3, <1>7, FitTogether
<1>9. FitSteps(chart \o <<FailedStep("material", h)>>, C)
  BY <1>6, <1>8, FitTogether
<1>10. Append(chart, FailedStep("material", h)) = chart \o <<FailedStep("material", h)>>
  <2> DEFINE a == CertManagerStep(h, s, charts)
             f == FailedStep("material", h)
  <2> HIDE DEF a, certReady, f
  <2>1. Append(<<a, certReady>>, f) = <<a, certReady>> \o <<f>>
    OBVIOUS
  <2> QED
    BY <2>1 DEF a, f
<1>11. FitSteps(<<CASecretStep(h, m)>>, C) /\ FitSteps(<<ACMETokenStep(h, s, m)>>, C) /\ FitSteps(<<>>, C)
  BY <1>4, <1>5, FitTogether
<1>12. \A x, c : FitSteps(x, C) => FitSteps(When(c, x), C)
  BY FitTogether
<1>13. \A x, y : FitSteps(x, C) /\ FitSteps(y, C) => FitSteps(x \o y, C)
  BY FitTogether
<1>14. FitSteps(chart \o When(s.pki.mode = "private-ca", <<CASecretStep(h, m)>>)
                \o When(s.pki.mode = "acme-dns01" /\ m.acme # "", <<ACMETokenStep(h, s, m)>>)
                \o issuer \o When(WantsTrustBundle(s), bundle), C)
  <2> HIDE DEF chart, issuer, bundle
  <2> QED
    BY <1>8, <1>11, <1>12, <1>13, Zenon
<1>15. FitSteps(Append(chart, FailedStep("material", h)), C)
  BY <1>9, <1>10
<1> QED
  BY <1>11, <1>14, <1>15 DEF PkiSteps

\* The metrics (observability.go).
LEMMA ObservabilityFits ==
    ASSUME NEW C, NEW h, NEW s, NEW charts
    PROVE  FitSteps(ObservabilitySteps(h, s, charts), C)
<1>1. FitStep(FailedStep("stack", h), C)
  BY NoStepFits
<1> DEFINE chart == ChartStep("metrics-stack", h, Chart(s, charts, "victoria-metrics-k8s-stack"), StackChart(s))
<1>2. FitStep(chart, C)
  <2>1. Named("metrics-stack")
    BY DEF Named
  <2> QED
    BY <2>1, ObjectFits
<1>3. FitStep(DatabaseReadyStep(h, s, charts), C)
  BY ObjectFits DEF DatabaseReadyStep
<1> HIDE DEF chart
<1>4. /\ FitSteps(<<>>, C) /\ FitSteps(<<FailedStep("stack", h)>>, C)
      /\ FitSteps(<<chart, DatabaseReadyStep(h, s, charts)>>, C)
  BY <1>1, <1>2, <1>3, FitTogether
<1> QED
  BY <1>4 DEF ObservabilitySteps, chart

\* Argo CD and the applications it starts from (platform.go).
LEMMA PlatformFits ==
    ASSUME NEW C, NEW h, NEW s, NEW t, NEW charts
    PROVE  FitSteps(PlatformSteps(h, s, t, charts), C)
<1>0. Named("argocd") /\ Named("bootstrap-apps")
  BY DEF Named
<1> DEFINE chart == ChartStep("argocd", h, Chart(s, charts, "argo-cd"), SystemRegistry(s))
           accepts == AcceptsStep("argocd-ready", h, "argocd", ServingNeeds(s, charts, "argocd", "argo-cd"))
           apps == ManifestStep("bootstrap-apps", h, Applications(s), Object("applications"))
<1>1. FitStep(FailedStep("bootstrap-apps", h), C)
  BY NoStepFits
<1>2. FitStep(chart, C) /\ FitStep(accepts, C) /\ FitStep(apps, C)
  BY <1>0, ObjectFits
<1>3. FitStep(AvailableStep(h), C) /\ FitStep(SyncedStep(h, s), C)
  BY ObjectFits DEF AvailableStep, SyncedStep
<1>4. FitStep(RepoSecretStep(h, s, t), C)
  <2> DEFINE a == Just(Object("repository"), repoURL(s))
             b == Just(Object("repository-credential"), credentialsFor(repoURL(s), t))
  <2>1. RepoSecretStep(h, s, t).writes = <<PutAll(a ++ b)>>
    BY DEF RepoSecretStep, Step
  <2>2. DOMAIN a = {Object("repository")} /\ DOMAIN b = {Object("repository-credential")}
    BY JustHas
  <2> HIDE DEF a, b
  <2>3. DOMAIN (a ++ b) = DOMAIN a \cup DOMAIN b
    BY MergeHas
  <2>4. \A l \in DOMAIN (a ++ b) : Apart(l)
    BY <2>2, <2>3 DEF Apart, Object
  <2>5. Fit(PutAll(a ++ b), C)
    BY <2>4, HarmlessWrites, HarmlessFits
  <2> QED
    BY <2>1, <2>5, OneWriteFits DEF FitStep
<1> HIDE DEF chart, accepts, apps
<1>5. /\ FitSteps(<<>>, C) /\ FitSteps(<<FailedStep("bootstrap-apps", h)>>, C)
      /\ FitSteps(<<chart, accepts, AvailableStep(h)>>, C)
  BY <1>1, <1>2, <1>3, FitTogether
<1>6. /\ FitSteps(<<RepoSecretStep(h, s, t)>>, C) /\ FitSteps(<<apps, SyncedStep(h, s)>>, C)
  BY <1>2, <1>3, <1>4, FitTogether
<1>7. \A x, c : FitSteps(x, C) => FitSteps(When(c, x), C)
  BY FitTogether
<1>8. \A x, y : FitSteps(x, C) /\ FitSteps(y, C) => FitSteps(x \o y, C)
  BY FitTogether
<1>9. FitSteps(<<chart, accepts, AvailableStep(h)>>
               \o When(repoURL(s) # "", <<RepoSecretStep(h, s, t)>>)
               \o When(Applications(s) # {}, <<apps, SyncedStep(h, s)>>), C)
  BY <1>5, <1>6, <1>7, <1>8, Zenon
<1> QED
  BY <1>5, <1>9 DEF PlatformSteps, chart, accepts, apps

-----------------------------------------------------------------------------
(* The gateways.                                                           *)

\* A function has no more values than arguments.
LEMMA FiniteImage ==
    ASSUME NEW S, IsFiniteSet(S), NEW f
    PROVE  IsFiniteSet({f[x] : x \in S})
<1> DEFINE T == {f[x] : x \in S}
           g == [x \in S |-> f[x]]
<1>1. g \in [S -> T] /\ \A t \in T : \E x \in S : g[x] = t
  OBVIOUS
<1>2. g \in Surjection(S, T)
  BY <1>1 DEF Surjection
<1> HIDE DEF g, T
<1>3. IsFiniteSet(T)
  BY <1>2, FS_Surjection
<1> QED
  BY <1>3 DEF T

\* A sequence holds finitely many elements.
LEMMA FiniteHeld ==
    ASSUME NEW S, NEW x \in Seq(S)
    PROVE  IsFiniteSet(ToSet(x))
<1>1. DOMAIN x = 1..Len(x) /\ Len(x) \in Int /\ 1 \in Int
  OBVIOUS
<1>2. IsFiniteSet(DOMAIN x)
  <2>1. IsFiniteSet(1..Len(x))
    BY <1>1, FS_Interval
  <2> QED
    BY <1>1, <2>1
<1>3. IsFiniteSet({x[i] : i \in DOMAIN x})
  BY <1>2, FiniteImage
<1> QED
  BY <1>3 DEF ToSet

\* A document has so many listeners, and so many secrets for them.
LEMMA FiniteListeners ==
    ASSUME NEW s, s.gateway.gateways \in Seq(Gateway)
    PROVE  /\ IsFiniteSet(Pairs(s))
           /\ IsFiniteSet(GatewaySecretRefs(s))
           /\ IsFiniteSet(IssuedListeners(s))
<1>1. IsFiniteSet(GatewaysOf(s)) /\ GatewaysOf(s) \subseteq Gateway
  <2>1. IsFiniteSet(ToSet(s.gateway.gateways))
    BY FiniteHeld
  <2>2. ToSet(s.gateway.gateways) \subseteq Gateway
    BY DEF ToSet
  <2> QED
    BY <2>1, <2>2 DEF GatewaysOf
<1>2. ASSUME NEW gw \in GatewaysOf(s) PROVE IsFiniteSet({<<gw, l>> : l \in ListenersOf(gw)})
  <2>1. gw.listeners \in Seq(ListenerSpec)
    BY <1>1 DEF Gateway
  <2>2. IsFiniteSet(ListenersOf(gw))
    BY <2>1, FiniteHeld DEF ListenersOf
  <2> DEFINE f == [l \in ListenersOf(gw) |-> <<gw, l>>]
  <2>3. IsFiniteSet({f[l] : l \in ListenersOf(gw)})
    BY <2>2, FiniteImage
  <2>4. {f[l] : l \in ListenersOf(gw)} = {<<gw, l>> : l \in ListenersOf(gw)}
    OBVIOUS
  <2> QED
    BY <2>3, <2>4
<1>3. IsFiniteSet(Pairs(s))
  <2> DEFINE Of(gw) == {<<gw, l>> : l \in ListenersOf(gw)}
             f == [gw \in GatewaysOf(s) |-> Of(gw)]
  <2>1. \A gw \in GatewaysOf(s) : IsFiniteSet(Of(gw))
    BY <1>2
  <2>2. Pairs(s) = UNION {Of(gw) : gw \in GatewaysOf(s)}
    BY DEF Pairs
  <2> HIDE DEF Of
  <2>3. IsFiniteSet({f[gw] : gw \in GatewaysOf(s)})
    BY <1>1, FiniteImage
  <2>4. {f[gw] : gw \in GatewaysOf(s)} = {Of(gw) : gw \in GatewaysOf(s)}
    OBVIOUS
  <2>5. IsFiniteSet(UNION {Of(gw) : gw \in GatewaysOf(s)})
    BY <2>1, <2>3, <2>4, FS_UNION
  <2> QED
    BY <2>2, <2>5
<1>4. ASSUME NEW S, S \in SUBSET Pairs(s) PROVE IsFiniteSet(S)
  BY <1>3, <1>4, FS_Subset
<1>5. IsFiniteSet(GatewaySecretRefs(s))
  <2> DEFINE S == {q \in Pairs(s) : q[2].protocol = "HTTPS"}
             Of(p) == ListenerSecret(p[1], p[2])
             f == [p \in S |-> Of(p)]
  <2>1. IsFiniteSet(S)
    BY <1>4
  <2>2. GatewaySecretRefs(s) = {Of(p) : p \in S}
    BY DEF GatewaySecretRefs
  <2> HIDE DEF S, Of
  <2>3. IsFiniteSet({f[p] : p \in S})
    BY <2>1, FiniteImage
  <2>4. {f[p] : p \in S} = {Of(p) : p \in S}
    OBVIOUS
  <2> QED
    BY <2>2, <2>3, <2>4
<1>6. IsFiniteSet(IssuedListeners(s))
  <2> DEFINE S == {q \in Pairs(s) : q[2].protocol = "HTTPS"
                             /\ \A t \in q[2].tls : t.source \notin {"secret", "byo"}}
             Of(p) == [secret |-> ListenerSecret(p[1], p[2]), namespace |-> namespaceOfGateway(p[1]),
                       host |-> Or(p[2].hostname, s.gateway.domainSuffix)]
             f == [p \in S |-> Of(p)]
  <2>1. IsFiniteSet(S)
    BY <1>4
  <2>2. IssuedListeners(s) = {Of(p) : p \in S}
    BY DEF IssuedListeners
  <2> HIDE DEF S, Of
  <2>3. IsFiniteSet({f[p] : p \in S})
    BY <2>1, FiniteImage
  <2>4. {f[p] : p \in S} = {Of(p) : p \in S}
    OBVIOUS
  <2> QED
    BY <2>2, <2>3, <2>4
<1> QED
  BY <1>3, <1>5, <1>6

\* A secret with the bundle that was brought (gateway.go).
LEMMA SecretFits ==
    ASSUME NEW C, NEW h, NEW ns, NEW ref, NEW bundle
    PROVE  FitStep(SecretStep(h, ns, ref, bundle), C)
<1> DEFINE a == Just(TLSSecret(ns, ref), bundle)
           b == Just(<<"cluster", "fingerprint", ns, ref>>, bundle.fingerprint)
<1>1. SecretStep(h, ns, ref, bundle).writes = <<Put(Namespace(ns), "applied"), PutAll(a ++ b)>>
  BY DEF SecretStep, Step
<1>2. DOMAIN a = {TLSSecret(ns, ref)} /\ DOMAIN b = {<<"cluster", "fingerprint", ns, ref>>}
  BY JustHas
<1> HIDE DEF a, b
<1>3. DOMAIN (a ++ b) = DOMAIN a \cup DOMAIN b
  BY MergeHas
<1>4. Apart(TLSSecret(ns, ref)) /\ Apart(<<"cluster", "fingerprint", ns, ref>>) /\ Apart(Namespace(ns))
  BY DEF Apart, TLSSecret, Namespace
<1>5. \A l \in DOMAIN (a ++ b) : Apart(l)
  BY <1>2, <1>3, <1>4
<1>6. Fit(PutAll(a ++ b), C)
  BY <1>5, HarmlessWrites, HarmlessFits
<1>7. Fit(Put(Namespace(ns), "applied"), C)
  BY <1>4, HarmlessWrites, HarmlessFits
<1> QED
  BY <1>1, <1>6, <1>7, TwoWritesFit DEF FitStep

\* What an issuer signs is put one after the other.
LEMMA ReadyFits ==
    ASSUME NEW C, NEW h, NEW s, s.gateway.gateways \in Seq(Gateway)
    PROVE  FitStep(ListenerCertsReadyStep(h, s), C)
<1> DEFINE all == {IssuerWrites(s, c) : c \in IssuedListeners(s)}
<1>1. ListenerCertsReadyStep(h, s).writes = SetToSeq(all)
  BY DEF ListenerCertsReadyStep, Step
<1>2. IsFiniteSet(all)
  <2> DEFINE f == [c \in IssuedListeners(s) |-> IssuerWrites(s, c)]
  <2>1. IsFiniteSet({f[c] : c \in IssuedListeners(s)})
    BY FiniteListeners, FiniteImage
  <2>2. {f[c] : c \in IssuedListeners(s)} = all
    OBVIOUS
  <2> QED
    BY <2>1, <2>2
<1>3. \A x \in all : Fit(x, C)
  <2> SUFFICES ASSUME NEW c \in IssuedListeners(s) PROVE Fit(IssuerWrites(s, c), C)
    OBVIOUS
  <2> DEFINE l == TLSSecret(c.namespace, c.secret)
             v == IssuedBundle(c.host, c.secret, SigningChain(s))
  <2>1. Apart(l)
    BY DEF Apart, TLSSecret
  <2> HIDE DEF l, v
  <2>2. Fit(Put(l, v), C)
    BY <2>1, HarmlessWrites, HarmlessFits
  <2> QED
    BY <2>2 DEF IssuerWrites, l, v
<1> HIDE DEF all
<1>4. FitWrites(SetToSeq(all), C)
  BY <1>2, <1>3, SetToSeqHolds DEF FitWrites
<1> QED
  BY <1>1, <1>4 DEF FitStep

\* The namespaces, the certificates asked for, the gateways and the contract (gateway.go).
LEMMA GatewayStepsFit ==
    ASSUME NEW C, NEW h, NEW s
    PROVE  /\ FitStep(NamespacesStep(h, s), C)
           /\ \A issuer : FitStep(ListenerCertsStep(h, s, issuer), C)
           /\ FitStep(GatewaysStep(h, s), C)
           /\ FitStep(ContractStep(h, s), C)
           /\ FitStep(NodeLabelStep(h, s), C)
           /\ \A gw : FitStep(AnswersStep(h, s, gw), C) /\ FitStep(ProgrammedStep(h, s, gw), C)
<1>1. FitStep(NamespacesStep(h, s), C)
  <2>1. Named("namespaces") /\ \A o \in {Namespace(ns) : ns \in NamespaceManifest(s)} : o[1] = "cluster"
    BY DEF Named, Namespace
  <2> QED
    BY <2>1, ManifestsFit DEF NamespacesStep
<1>2. ASSUME NEW issuer PROVE FitStep(ListenerCertsStep(h, s, issuer), C)
  <2> DEFINE certs == ListenerCertificates(s, issuer)
             first == CHOOSE c \in certs : TRUE
             objects == {CertificateObject(c) : c \in certs}
             step == ManifestsStep("listener-certs", h, certs, CertificateObject(first), objects)
  <2>1. Named("listener-certs") /\ \A o \in objects : o[1] = "cluster"
    BY DEF Named, CertificateObject
  <2>2. ListenerCertsStep(h, s, issuer).writes = step.writes
    BY DEF ListenerCertsStep, ManifestsStep, Step
  <2> HIDE DEF certs, first, objects
  <2>3. FitStep(step, C)
    BY <2>1, ManifestsFit
  <2> HIDE DEF step
  <2> QED
    BY <2>2, <2>3, SameWrites
<1>3. FitStep(GatewaysStep(h, s), C)
  <2> DEFINE objects == {GatewayObject(namespaceOfGateway(gw), gw.name) : gw \in GatewaysOf(s)}
             resource == GatewayObject(namespaceOf(s), s.gateway.gateways[1].name)
             step == ManifestsStep("gateways", h, GatewayManifest(s), resource, objects)
  <2>1. Named("gateways") /\ \A o \in objects : o[1] = "cluster"
    BY DEF Named, GatewayObject
  <2>2. GatewaysStep(h, s).writes = step.writes
    BY DEF GatewaysStep, ManifestsStep, Step
  <2> HIDE DEF objects, resource
  <2>3. FitStep(step, C)
    BY <2>1, ManifestsFit
  <2> HIDE DEF step
  <2> QED
    BY <2>2, <2>3, SameWrites
<1>4. FitStep(ContractStep(h, s), C)
  <2> DEFINE object == <<"cluster", "configmap", namespaceOf(s), contractName(s)>>
  <2>1. Named("contract") /\ object[1] = "cluster"
    BY DEF Named
  <2> HIDE DEF object
  <2>2. FitStep(ManifestStep("contract", h, ContractManifest(s), object), C)
    BY <2>1, ManifestFits
  <2> QED
    BY <2>2 DEF ContractStep, object
<1>5. FitStep(NodeLabelStep(h, s), C)
  <2> DEFINE chosen == UNION {gw.nodeIPs : gw \in {g \in GatewaysOf(s) : g.exposure = "node-ips"}}
  <2>1. NodeLabelStep(h, s).writes = <<Put(Object("gateway-nodes"), chosen)>>
    BY DEF NodeLabelStep, FileStep, Step
  <2> HIDE DEF chosen
  <2> QED
    BY <2>1, ClusterPutFits, OneWriteFits DEF FitStep
<1>6. ASSUME NEW gw PROVE FitStep(AnswersStep(h, s, gw), C) /\ FitStep(ProgrammedStep(h, s, gw), C)
  <2>1. Apart(Programmed(namespaceOfGateway(gw), gw.name))
    BY DEF Apart, Programmed
  <2> QED
    BY <2>1, WaitFits DEF AnswersStep, ProgrammedStep
<1> QED
  BY <1>1, <1>2, <1>3, <1>4, <1>5, <1>6

\* The certificates, the gateways and their record (gateway.go).
LEMMA GatewayFits ==
    ASSUME NEW C, NEW h, NEW s, s.gateway.gateways \in Seq(Gateway),
           NEW bundles, IsFiniteSet(DOMAIN bundles), NEW issuer
    PROVE  FitSteps(GatewaySteps(h, s, bundles, issuer), C)
<1> DEFINE gws == s.gateway.gateways
           Labelled(i) == When(/\ gws[i].nodeIPs # {}
                               /\ \A j \in 1..(i - 1) : ~(gws[j].exposure = "node-ips" /\ gws[j].nodeIPs # {}),
                               <<NodeLabelStep(h, s)>>)
           Waits(i) == IF gws[i].exposure = "node-ips"
                       THEN Labelled(i) \o <<AnswersStep(h, s, gws[i])>>
                       ELSE <<ProgrammedStep(h, s, gws[i])>>
           waits == [i \in DOMAIN gws |-> Waits(i)]
           secrets == {SecretStep(h, namespaceOf(s), ref, bundles[ref]) : ref \in DOMAIN bundles}
           certs == <<ListenerCertsStep(h, s, issuer), ListenerCertsReadyStep(h, s)>>
<1>1. FitSteps(SetToSeq(secrets), C)
  <2> DEFINE f == [ref \in DOMAIN bundles |-> SecretStep(h, namespaceOf(s), ref, bundles[ref])]
  <2>1. IsFiniteSet({f[ref] : ref \in DOMAIN bundles})
    BY FiniteImage
  <2>2. {f[ref] : ref \in DOMAIN bundles} = secrets
    OBVIOUS
  <2>3. \A step \in secrets : FitStep(step, C)
    BY SecretFits
  <2> HIDE DEF f, secrets
  <2> QED
    BY <2>1, <2>2, <2>3, SetToSeqHolds DEF FitSteps
<1>2. FitSteps(FlattenSeq(waits), C)
  <2>1. ASSUME NEW i PROVE FitSteps(Waits(i), C)
    <3>1. FitSteps(<<NodeLabelStep(h, s)>>, C)
      BY GatewayStepsFit, FitTogether
    <3>2. FitSteps(Labelled(i), C)
      BY <3>1, FitTogether
    <3>3. FitSteps(<<AnswersStep(h, s, gws[i])>>, C) /\ FitSteps(<<ProgrammedStep(h, s, gws[i])>>, C)
      BY GatewayStepsFit, FitTogether
    <3> HIDE DEF Labelled
    <3>4. FitSteps(Labelled(i) \o <<AnswersStep(h, s, gws[i])>>, C)
      BY <3>2, <3>3, FitTogether
    <3> QED
      BY <3>3, <3>4
  <2> HIDE DEF Waits
  <2>2. waits \in Seq({Waits(i) : i \in DOMAIN gws})
    OBVIOUS
  <2>3. \A q \in ToSet(waits) : FitSteps(q, C)
    BY <2>1 DEF ToSet
  <2> HIDE DEF waits
  <2> QED
    BY <2>2, <2>3, FlattenFits DEF IsSequence
<1>3. FitSteps(<<NamespacesStep(h, s)>>, C)
  BY GatewayStepsFit, FitTogether
<1>4. FitSteps(certs, C)
  BY GatewayStepsFit, ReadyFits, FitTogether
<1>5. FitSteps(When(ListenerCertificates(s, issuer) # {}, certs), C)
  BY <1>4, FitTogether
<1>6. FitSteps(<<GatewaysStep(h, s), ContractStep(h, s)>>, C) /\ FitSteps(<<>>, C)
  BY GatewayStepsFit, FitTogether
<1>7. \A x, y : FitSteps(x, C) /\ FitSteps(y, C) => FitSteps(x \o y, C)
  BY FitTogether
<1>8. FitSteps(SetToSeq(secrets) \o <<NamespacesStep(h, s)>>
               \o When(ListenerCertificates(s, issuer) # {}, certs)
               \o <<GatewaysStep(h, s), ContractStep(h, s)>> \o FlattenSeq(waits), C)
  <2> HIDE DEF secrets, waits, certs
  <2> QED
    BY <1>1, <1>2, <1>3, <1>5, <1>6, <1>7, Zenon
<1>9. GatewaySteps(h, s, bundles, issuer) =
         IF gws = <<>> THEN <<>>
         ELSE SetToSeq(secrets) \o <<NamespacesStep(h, s)>>
               \o When(ListenerCertificates(s, issuer) # {}, certs)
               \o <<GatewaysStep(h, s), ContractStep(h, s)>> \o FlattenSeq(waits)
  BY DEF GatewaySteps
<1> HIDE DEF secrets, waits, certs, gws
<1> QED
  BY <1>6, <1>8, <1>9

=============================================================================
