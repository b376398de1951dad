-------------------------- MODULE CertificateProofs --------------------------
(***************************************************************************)
(* What the gate of the certificates promises the verifier: theorems about *)
(* Certificates.  The library's induction theorems take an operator; here  *)
(* induction is the existence of a least number in a set of numbers.       *)
(***************************************************************************)
EXTENDS Certificates, SequenceTheorems, WellFoundedInduction, TLAPS

-----------------------------------------------------------------------------
(* Numbers.                                                                *)

LEMMA Least ==
    ASSUME NEW S, S \subseteq Nat, S # {}
    PROVE  \E x \in S : \A y \in S : x <= y
<1> DEFINE R == {ss \in Nat \X Nat : ss[1] < ss[2]}
<1>1. IsWellFoundedOn(R, Nat)
  BY NatLessThanWellFounded, Zenon DEF OpToRel
<1> HIDE DEF R
<1>2. \E x \in S : \A y \in S : ~(<<y, x>> \in R)
  BY <1>1, WFMin, Zenon
<1>3. PICK x \in S : \A y \in S : ~(<<y, x>> \in R)
  BY <1>2
<1>4. \A y \in S : ~(y < x)
  BY <1>3 DEF R
<1> QED
  BY <1>4

LEMMA Induction ==
    ASSUME NEW S, 0 \in S, \A n \in Nat : n \in S => n + 1 \in S
    PROVE  Nat \subseteq S
<1> SUFFICES ASSUME Nat \ S # {} PROVE FALSE
  OBVIOUS
<1>1. PICK x \in Nat \ S : \A y \in Nat \ S : x <= y
  BY Least
<1>2. x # 0 /\ x - 1 \in Nat /\ x - 1 < x
  BY <1>1
<1>3. x - 1 \in S
  BY <1>1, <1>2
<1> QED
  BY <1>1, <1>2, <1>3

\* What is had from x0 by going on with G, up to N times, is a function.
From(x0, G, N, f) == f[0] = x0 /\ \A n \in 1..N : f[n] = G[f[n - 1]]

LEMMA Recursion ==
    ASSUME NEW X, NEW x0 \in X, NEW G \in [X -> X], NEW N \in Nat
    PROVE  \E f \in [0..N -> X] : From(x0, G, N, f)
<1> DEFINE S == {M \in Nat : \E f \in [0..M -> X] : From(x0, G, M, f)}
<1>1. 0 \in S
  <2> DEFINE f == [n \in 0..0 |-> x0]
  <2>1. f \in [0..0 -> X] /\ From(x0, G, 0, f)
    BY DEF From
  <2> QED
    BY <2>1, Zenon
<1>2. ASSUME NEW M \in Nat, M \in S PROVE M + 1 \in S
  <2>1. PICK f \in [0..M -> X] : From(x0, G, M, f)
    BY <1>2
  <2> DEFINE g == [n \in 0..(M + 1) |-> IF n = M + 1 THEN G[f[M]] ELSE f[n]]
  <2>2. g \in [0..(M + 1) -> X]
    OBVIOUS
  <2>3. g[0] = x0
    BY <2>1 DEF From
  <2>4. ASSUME NEW n \in 1..(M + 1) PROVE g[n] = G[g[n - 1]]
    <3>1. n - 1 \in 0..M /\ g[n - 1] = f[n - 1]
      OBVIOUS
    <3> QED
      BY <2>1, <3>1 DEF From
  <2>5. From(x0, G, M + 1, g)
    BY <2>3, <2>4 DEF From
  <2> HIDE DEF g
  <2>6. \E h \in [0..(M + 1) -> X] : From(x0, G, M + 1, h)
    BY <2>2, <2>5, Zenon
  <2> QED
    BY <2>6
<1> HIDE DEF S
<1>3. Nat \subseteq S
  BY <1>1, <1>2, Induction
<1> QED
  BY <1>3, Zenon DEF S

-----------------------------------------------------------------------------
(* Rules.                                                                  *)

\* A rule that is among the rules and finds something is among the broken ones.
LEMMA Reported ==
    ASSUME NEW R, NEW name, NEW b \in BOOLEAN, <<name, b>> \in R, name \notin Broken(R)
    PROVE  ~b
<1> SUFFICES ASSUME b PROVE FALSE
  OBVIOUS
<1> DEFINE r == <<name, b>>
<1>1. r \in {q \in R : q[2]}
  OBVIOUS
<1>2. r[1] \in Broken(R)
  BY <1>1 DEF Broken
<1> QED
  BY <1>2

\* Where no rule finds anything, none is broken.
LEMMA NoneReported ==
    ASSUME NEW R, \A q \in R : ~q[2]
    PROVE  Broken(R) = {}
  BY DEF Broken

-----------------------------------------------------------------------------
(* The chain.                                                              *)

\* What was read, and in which order.
IsMaterial(m) == m.order \in Seq(Block) /\ Certs(m) \subseteq ToSet(m.order)

LEMMA ScanIsMaterial ==
    ASSUME NEW blocks \in Seq(Block), NEW phrase
    PROVE  IsMaterial(Scan(blocks, phrase))
  BY DEF IsMaterial, Scan, Certs, ToSet

LEMMA ForemostIsOne ==
    ASSUME NEW m, IsMaterial(m), NEW certs, certs # {}, certs \subseteq Certs(m)
    PROVE  Foremost(certs, m) \in certs
<1> DEFINE P == {i \in DOMAIN m.order : m.order[i] \in certs}
<1>1. P # {} /\ P \subseteq Nat
  BY DEF IsMaterial, ToSet
<1>2. \E x \in P : \A y \in P : x <= y
  BY <1>1, Least
<1>3. Min(P) \in P
  BY <1>2 DEF Min
<1> QED
  BY <1>3 DEF Foremost

LEMMA IssuerSigned ==
    ASSUME NEW m, IsMaterial(m), NEW path
    PROVE  \/ findIssuer(path, m) = <<>>
           \/ \E c \in Certs(m) : findIssuer(path, m) = <<c>> /\ Signed(c, Last(path))
<1> DEFINE signed == {c \in Certs(m) \ ToSet(path) : Signed(c, Last(path))}
           nearer == signed \cap m.intermediates
           chosen == IF nearer # {} THEN nearer ELSE signed
<1>1. findIssuer(path, m) = IF signed = {} THEN <<>> ELSE <<Foremost(chosen, m)>>
  BY DEF findIssuer
<1>2. CASE signed = {}
  BY <1>1, <1>2
<1>3. CASE signed # {}
  <2>1. chosen # {} /\ chosen \subseteq signed /\ signed \subseteq Certs(m)
    BY <1>3
  <2>2. Foremost(chosen, m) \in signed
    BY <2>1, ForemostIsOne
  <2>3. Foremost(chosen, m) \in Certs(m) /\ Signed(Foremost(chosen, m), Last(path))
    BY <2>2
  <2> HIDE DEF signed, chosen
  <2> QED
    BY <2>3, <1>1, <1>3
<1> QED
  BY <1>2, <1>3

\* A way up from the leaf, each certificate signed by the next.
Linked(path, leaf, m) ==
    /\ path \in Seq({leaf} \cup Certs(m)) \ {<<>>}
    /\ path[1] = leaf
    /\ \A i \in 1..(Len(path) - 1) : Signed(path[i + 1], path[i])

\* One step of the walk.
LEMMA GoesOn ==
    ASSUME NEW m, IsMaterial(m), NEW leaf, NEW path, Linked(path, leaf, m)
    PROVE  Linked(Longer(path, m), leaf, m)
<1> DEFINE C == {leaf} \cup Certs(m)
<1>1. CASE Ended(path, m)
  BY <1>1 DEF Longer
<1>2. CASE ~Ended(path, m)
  <2>1. PICK c \in Certs(m) : findIssuer(path, m) = <<c>> /\ Signed(c, Last(path))
    BY <1>2, IssuerSigned DEF Ended
  <2>2. path \in Seq(C) /\ Len(path) \in Nat /\ Len(path) > 0 /\ c \in C
    BY DEF Linked
  <2> DEFINE longer == path \o <<c>>
  <2> HIDE DEF C
  <2>3. /\ longer \in Seq(C) /\ longer # <<>>
        /\ Len(longer) = Len(path) + 1
        /\ longer[Len(path) + 1] = c
        /\ \A i \in 1..Len(path) : longer[i] = path[i]
    BY <2>2
  <2>4. Signed(longer[Len(path) + 1], longer[Len(path)])
    BY <2>1, <2>2, <2>3 DEF Last
  <2>5. \A i \in 1..(Len(path) - 1) : Signed(longer[i + 1], longer[i])
    BY <2>2, <2>3 DEF Linked
  <2>6. \A i \in 1..(Len(longer) - 1) : Signed(longer[i + 1], longer[i])
    BY <2>2, <2>3, <2>4, <2>5
  <2>7. longer[1] = leaf
    BY <2>2, <2>3 DEF Linked
  <2>8. Linked(longer, leaf, m)
    BY <2>3, <2>6, <2>7 DEF Linked, C
  <2> QED
    BY <2>8, <2>1, <1>2 DEF Longer
<1> QED
  BY <1>1, <1>2

\* What is in X to begin with, and stays there from each to the next, is in X.
LEMMA StaysIn ==
    ASSUME NEW X, NEW N \in Nat, NEW W, W[0] \in X,
           \A n \in 1..N : W[n - 1] \in X => W[n] \in X
    PROVE  \A n \in 0..N : W[n] \in X
<1> DEFINE S == {n \in Nat : n \in 0..N => W[n] \in X}
<1>1. 0 \in S
  OBVIOUS
<1>2. ASSUME NEW n \in Nat, n \in S PROVE n + 1 \in S
  <2> SUFFICES ASSUME n + 1 \in 0..N PROVE W[n + 1] \in X
    OBVIOUS
  <2>1. n \in 0..N /\ n + 1 \in 1..N /\ (n + 1) - 1 = n
    OBVIOUS
  <2>2. W[n] \in X
    BY <2>1, <1>2
  <2> QED
    BY <2>1, <2>2
<1> HIDE DEF S
<1>3. Nat \subseteq S
  BY <1>1, <1>2, Induction
<1> QED
  BY <1>3 DEF S

\* The walk is the function that its equation describes.
LEMMA WalkGoesOn ==
    ASSUME NEW m, IsMaterial(m), NEW leaf
    PROVE  /\ Walk(leaf, m)[0] = <<leaf>>
           /\ \A n \in 1..Len(m.order) : Walk(leaf, m)[n] = Longer(Walk(leaf, m)[n - 1], m)
<1> DEFINE N == Len(m.order)
           Ways == {path \in Seq({leaf} \cup Certs(m)) : Linked(path, leaf, m)}
           Go == [path \in Ways |-> Longer(path, m)]
           Is(w) == w = [n \in 0..N |-> IF n = 0 THEN <<leaf>> ELSE Longer(w[n - 1], m)]
<1>1. N \in Nat
  BY DEF IsMaterial
<1>2. <<leaf>> \in Ways
  BY DEF Linked
<1>3. ASSUME NEW path \in Ways PROVE Longer(path, m) \in Ways
  <2>1. Linked(path, leaf, m)
    OBVIOUS
  <2>2. Linked(Longer(path, m), leaf, m)
    BY <2>1, GoesOn
  <2> QED
    BY <2>2 DEF Linked
<1>4. Go \in [Ways -> Ways] /\ \A path \in Ways : Go[path] = Longer(path, m)
  BY <1>3
<1> HIDE DEF N, Ways, Go
<1>5. PICK f \in [0..N -> Ways] : From(<<leaf>>, Go, N, f)
  BY <1>1, <1>2, <1>4, Recursion, Zenon
<1>6. ASSUME NEW n \in 0..N
      PROVE  f[n] = IF n = 0 THEN <<leaf>> ELSE Longer(f[n - 1], m)
  <2>1. CASE n = 0
    BY <2>1, <1>5 DEF From
  <2>2. CASE n # 0
    <3>1. n \in 1..N /\ n - 1 \in 0..N
      BY <1>1, <2>2
    <3>2. f[n - 1] \in Ways
      BY <3>1
    <3> QED
      BY <3>1, <3>2, <1>4, <1>5, <2>2 DEF From
  <2> QED
    BY <2>1, <2>2
<1>10. Is(f)
  BY <1>6
<1>11. Walk(leaf, m) = CHOOSE w : Is(w)
  BY DEF Walk, N
<1> HIDE DEF Is
<1>12. Is(Walk(leaf, m))
  BY <1>10, <1>11
<1> DEFINE W == Walk(leaf, m)
<1> HIDE DEF W
<1>13. W = [n \in 0..N |-> IF n = 0 THEN <<leaf>> ELSE Longer(W[n - 1], m)]
  BY <1>12 DEF Is, W
<1>14. W[0] = <<leaf>>
  BY <1>1, <1>13
<1>15. ASSUME NEW n \in 1..N PROVE W[n] = Longer(W[n - 1], m)
  <2>1. n \in 0..N /\ n # 0
    BY <1>1
  <2> QED
    BY <1>13, <2>1
<1> QED
  BY <1>14, <1>15 DEF W, N

\* The walk keeps to linked ways.
LEMMA WalkLinked ==
    ASSUME NEW m, IsMaterial(m), NEW leaf
    PROVE  \A n \in 0..Len(m.order) : Linked(Walk(leaf, m)[n], leaf, m)
<1> DEFINE N == Len(m.order)
           W == Walk(leaf, m)
           X == {path \in Seq({leaf} \cup Certs(m)) : Linked(path, leaf, m)}
<1>1. N \in Nat
  BY DEF IsMaterial
<1>2. \A path : path \in X <=> Linked(path, leaf, m)
  BY DEF Linked
<1>3. W[0] = <<leaf>> /\ \A n \in 1..N : W[n] = Longer(W[n - 1], m)
  BY WalkGoesOn
<1>4. W[0] \in X
  BY <1>3 DEF Linked
<1> HIDE DEF W, X, N
<1>5. ASSUME NEW n \in 1..N, W[n - 1] \in X PROVE W[n] \in X
  <2>1. Linked(W[n - 1], leaf, m)
    BY <1>2, <1>5
  <2>2. Linked(Longer(W[n - 1], m), leaf, m)
    BY <2>1, GoesOn
  <2> QED
    BY <2>2, <1>2, <1>3
<1>6. \A n \in 0..N : W[n] \in X
  BY <1>1, <1>4, <1>5, StaysIn
<1> QED
  BY <1>2, <1>6 DEF W, N

\* Every certificate of a linked way is in what holds the first and is closed
\* under going on.
LEMMA WayIsFollowed ==
    ASSUME NEW m, NEW leaf, NEW path, Linked(path, leaf, m), NEW valid, NEW reached,
           leaf \in reached,
           \A i \in 1..Len(path) : path[i] \in valid,
           \A c \in reached, i \in valid : Signed(i, c) => i \in reached
    PROVE  \A i \in 1..Len(path) : path[i] \in reached
<1> DEFINE N == Len(path) - 1
           W == [n \in 0..N |-> path[n + 1]]
<1>1. Len(path) \in Nat /\ N \in Nat /\ path[1] = leaf
  BY DEF Linked
<1>2. W[0] \in reached
  BY <1>1
<1>3. ASSUME NEW n \in 1..N, W[n - 1] \in reached PROVE W[n] \in reached
  <2>1. n - 1 \in 0..N /\ n \in 0..N /\ (n - 1) + 1 = n /\ n + 1 \in 1..Len(path)
    BY <1>1
  <2>2. W[n - 1] = path[n] /\ W[n] = path[n + 1]
    BY <2>1
  <2>3. Signed(path[n + 1], path[n])
    BY DEF Linked
  <2> QED
    BY <2>1, <2>2, <2>3, <1>3
<1> HIDE DEF W
<1>4. \A n \in 0..N : W[n] \in reached
  BY <1>1, <1>2, <1>3, StaysIn
<1>5. ASSUME NEW i \in 1..Len(path) PROVE path[i] \in reached
  <2>1. i - 1 \in 0..N /\ (i - 1) + 1 = i
    BY <1>1
  <2>2. W[i - 1] = path[i]
    BY <2>1 DEF W
  <2> QED
    BY <2>1, <2>2, <1>4
<1> QED
  BY <1>5

\* The chain of a certificate that is no root starts with it, and with its
\* root it is a linked way.
LEMMA BuildLinked ==
    ASSUME NEW m, IsMaterial(m), NEW leaf, classify(leaf) # "root",
           Build(leaf, m).root # {}
    PROVE  \E path : /\ Linked(path, leaf, m)
                     /\ Build(leaf, m).root = {path[Len(path)]}
                     /\ Build(leaf, m).certs \in Seq({leaf} \cup Certs(m)) \ {<<>>}
                     /\ Head(Build(leaf, m).certs) = leaf
                     /\ Build(leaf, m).certs[1] = leaf
                     /\ \A i \in 1..(Len(path) - 1) : path[i] \in ToSet(Build(leaf, m).certs)
<1> DEFINE path == Walk(leaf, m)[Len(m.order)]
           C == {leaf} \cup Certs(m)
<1>1. Linked(path, leaf, m)
  BY WalkLinked DEF IsMaterial
<1>2. /\ classify(Last(path)) = "root"
      /\ Build(leaf, m).root = {Last(path)}
      /\ Build(leaf, m).certs = Front(path)
  BY DEF Build, ChainOf
<1> HIDE DEF path, C
<1>3. path \in Seq(C) /\ Len(path) \in Nat \ {0} /\ path[1] = leaf
  BY <1>1 DEF Linked, C
<1>4. Len(path) # 1
  BY <1>2, <1>3 DEF Last
<1>5. /\ Front(path) \in Seq(C)
      /\ Len(Front(path)) = Len(path) - 1
      /\ \A i \in 1..(Len(path) - 1) : Front(path)[i] = path[i]
  <2> DEFINE n == Len(path) - 1
  <2>1. n \in Int /\ 1 \in Int /\ (1 <= n) /\ n - 1 + 1 = n
    <3>1. Len(path) \in Nat /\ Len(path) # 0 /\ Len(path) # 1
      BY <1>3, <1>4
    <3> DEFINE k == Len(path)
    <3>2. k \in Nat /\ k # 0 /\ k # 1
      BY <3>1
    <3> HIDE DEF k
    <3>3. k - 1 \in Int /\ 1 <= k - 1 /\ (k - 1) - 1 + 1 = k - 1
      BY <3>2
    <3> QED
      BY <3>3 DEF k
  <2>2. \A i \in 1..n : path[i] \in C
    BY <1>3
  <2>3. \A i \in 1..n : 1 + i - 1 = i
    OBVIOUS
  <2> HIDE DEF n
  <2>4. /\ SubSeq(path, 1, n) \in Seq(C)
        /\ Len(SubSeq(path, 1, n)) = n
        /\ \A i \in 1..n : SubSeq(path, 1, n)[i] = path[i]
    BY <2>1, <2>2, <2>3, SubSeqProperties
  <2>5. Front(path) = SubSeq(path, 1, n)
    BY DEF Front, n
  <2> QED
    BY <2>4, <2>5 DEF n
<1>6. Front(path) # <<>> /\ Head(Front(path)) = leaf /\ Front(path)[1] = leaf
  <2>1. Len(Front(path)) > 0 /\ 1 \in 1..(Len(path) - 1)
    BY <1>3, <1>4, <1>5
  <2>2. Front(path) # <<>> /\ Front(path)[1] = leaf
    BY <2>1, <1>3, <1>5
  <2>3. Head(Front(path)) = Front(path)[1]
    BY <2>2, <1>5
  <2> QED
    BY <2>2, <2>3
<1>7. \A i \in 1..(Len(path) - 1) : path[i] \in ToSet(Front(path))
  BY <1>3, <1>5 DEF ToSet
<1> QED
  BY <1>1, <1>2, <1>5, <1>6, <1>7 DEF Last, C

LEMMA BuildStarts ==
    ASSUME NEW m, IsMaterial(m), NEW leaf, classify(leaf) # "root",
           Build(leaf, m).root # {}
    PROVE  Build(leaf, m).certs[1] = leaf /\ \E r : Build(leaf, m).root = {r}
<1>1. PICK path : /\ Linked(path, leaf, m)
                  /\ Build(leaf, m).root = {path[Len(path)]}
                  /\ Build(leaf, m).certs \in Seq({leaf} \cup Certs(m)) \ {<<>>}
                  /\ Head(Build(leaf, m).certs) = leaf
                  /\ Build(leaf, m).certs[1] = leaf
                  /\ \A i \in 1..(Len(path) - 1) : path[i] \in ToSet(Build(leaf, m).certs)
  BY BuildLinked
<1> QED
  BY <1>1, Zenon

\* A chain that ends in a root is trusted, as it is sent, by whoever trusts
\* that root, while each of its certificates is in its time: the walk takes
\* the first candidate and never goes back, the client may take any.
THEOREM ChainIsTrusted ==
    ASSUME NEW m, IsMaterial(m), NEW leaf, classify(leaf) # "root",
           NEW roots, NEW time,
           Build(leaf, m).root # {}, Build(leaf, m).root \subseteq roots,
           \A c \in ToSet(Build(leaf, m).certs) \cup Build(leaf, m).root :
              c.from <= time /\ time <= c.to
    PROVE  Trusted(Build(leaf, m).certs, roots, time)
<1> DEFINE certs == Build(leaf, m).certs
           root == Build(leaf, m).root
           valid == {c \in ToSet(certs) \cup roots : c.from <= time /\ time <= c.to}
<1>1. PICK path : /\ Linked(path, leaf, m)
                  /\ root = {path[Len(path)]}
                  /\ certs \in Seq({leaf} \cup Certs(m)) \ {<<>>}
                  /\ Head(certs) = leaf
                  /\ \A i \in 1..(Len(path) - 1) : path[i] \in ToSet(certs)
  BY BuildLinked
<1> HIDE DEF certs, root
<1>2. Len(path) \in Nat \ {0}
  BY <1>1 DEF Linked
<1>3. \A c \in ToSet(certs) \cup root : c \in valid
  BY DEF certs, root
<1>4. ASSUME NEW i \in 1..Len(path) PROVE path[i] \in valid
  <2>1. i \in 1..(Len(path) - 1) \/ i = Len(path)
    BY <1>2
  <2> QED
    BY <2>1, <1>1, <1>3
<1>5. leaf \in valid
  <2>1. path[1] = leaf /\ 1 \in 1..Len(path)
    BY <1>1, <1>2 DEF Linked
  <2> QED
    BY <2>1, <1>4
<1>6. ASSUME NEW reached \in SUBSET valid, leaf \in reached,
             \A c \in reached, i \in valid : Signed(i, c) => i \in reached
      PROVE  reached \cap roots # {}
  <2> HIDE DEF valid
  <2>3. Linked(path, leaf, m)
    BY <1>1
  <2>4. \A i \in 1..Len(path) : path[i] \in reached
    BY <2>3, <1>4, <1>6, WayIsFollowed, Zenon
  <2>1. path[Len(path)] \in reached
    BY <2>4, <1>2
  <2>2. path[Len(path)] \in roots
    BY <1>1 DEF root
  <2> QED
    BY <2>1, <2>2
<1> QED
  BY <1>1, <1>5, <1>6 DEF Trusted, certs

-----------------------------------------------------------------------------
(* The names.                                                              *)

LEMMA ReadIsOne ==
    ASSUME NEW blocks \in Seq(Block), NEW phrase, NEW leaf \in Scan(blocks, phrase).leaves
    PROVE  classify(leaf) = "leaf" /\ leaf.from \in Int /\ leaf.to \in Int
<1>1. leaf \in ToSet(blocks) /\ leaf.block = "cert" /\ classify(leaf) = "leaf"
  BY DEF Scan
<1>2. leaf \in Block
  BY <1>1 DEF ToSet
<1>3. leaf.from \in Int /\ leaf.to \in Int
  BY <1>1, <1>2 DEF Block
<1> QED
  BY <1>1, <1>3

\* A certificate that covers a hostname names what a client would ask the
\* listener of that hostname for.
LEMMA CoveredIsNamed ==
    ASSUME NEW leaf, NEW host \in DOMAIN Labels \ IPs, Covers(leaf, host)
    PROVE  NamedBy(leaf, exampleFor(host))
<1>1. Labels[host] \in Seq(STRING) /\ Labels[host] # <<>>
  BY LabelsAssumption
<1>2. Tail(Labels[host]) \in Seq(STRING)
  BY <1>1
<1>3. Tail(<<"malmok-verify">> \o Tail(Labels[host])) = Tail(Labels[host])
  BY <1>2
<1>4. Tail(exampleFor(host)) = Tail(Labels[host])
  BY <1>3 DEF exampleFor
<1>5. PICK san \in leaf.names \ IPs : matchName(san, host)
  BY DEF Covers
<1>6. CASE san = host
  <2>1. Head(Labels[host]) = "*" \/ exampleFor(host) = Labels[host]
    BY DEF exampleFor
  <2> QED
    BY <2>1, <1>4, <1>5, <1>6 DEF NamedBy
<1>7. CASE san # host
  BY <1>4, <1>5, <1>7 DEF NamedBy, matchName
<1> QED
  BY <1>6, <1>7

-----------------------------------------------------------------------------
(* The gate.                                                               *)

\* What passes the gate is in its time and covers what it is for.
LEMMA GatePassed ==
    ASSUME NEW in, in.blocks \in Seq(Block), NEW b \in Assemble(in)
    PROVE  LET m == Scan(in.blocks, in.passphrase) IN
           /\ IsMaterial(m)
           /\ b.leaf \in m.leaves
           /\ classify(b.leaf) # "root"
           /\ b.leaf.from <= Now /\ Now <= b.leaf.to
           /\ \A host \in in.hostnames : Covers(b.leaf, host)
           /\ b.certs = Build(b.leaf, m).certs
           /\ b.ca = {r \in Build(b.leaf, m).root : isPrivateRoot(r)}
<1> DEFINE m == Scan(in.blocks, in.passphrase)
<1>1. gate(in, m) = {}
  BY DEF Assemble
<1>2. PICK l \in selectLeaf(in, m) :
        b = [leaf |-> l, certs |-> Build(l, m).certs, key |-> l.key,
             ca |-> {r \in Build(l, m).root : isPrivateRoot(r)}, fingerprint |-> l]
  BY <1>1 DEF Assemble, BundleOf
<1>3. b.leaf = l /\ b.certs = Build(l, m).certs /\ b.ca = {r \in Build(l, m).root : isPrivateRoot(r)}
  BY <1>2
<1>4. l \in m.leaves /\ \A host \in in.hostnames : Covers(l, host)
  BY DEF selectLeaf
<1>5. IsMaterial(m)
  BY ScanIsMaterial
<1>6. classify(l) = "leaf" /\ l.from \in Int /\ l.to \in Int
  BY <1>4, ReadIsOne
<1> DEFINE rules == {
    <<"PF-910", \E k \in m.keys, r \in m.roots : k.key = r.key>>,
    <<"PF-906", m.locked # {}>>,
    <<"PF-912", \E k, x \in m.leaves : k # x /\ (k.names \cap x.names) \ IPs # {}>>,
    <<"PF-903", selectLeaf(in, m) = {}>>,
    <<"PF-901", \E x \in selectLeaf(in, m) : Matching(x, m) = {}>>,
    <<"PF-902", \E x \in selectLeaf(in, m) : ~Presentable(Build(x, m))>>,
    <<"PF-911", \E x \in selectLeaf(in, m) : x.from > Now>>,
    <<"PF-904", \E x \in selectLeaf(in, m) : x.to < Now>>,
    <<"PF-905", \E x \in selectLeaf(in, m) : ~Supported(x.key)>>}
<1> HIDE DEF m
<1>10. Broken(rules) = {}
  BY <1>1, Zenon DEF gate
<1>7. ~(l.from > Now)
  <2> DEFINE early == \E x \in selectLeaf(in, m) : x.from > Now
  <2>1. <<"PF-911", early>> \in rules
    OBVIOUS
  <2> HIDE DEF rules
  <2>2. ~early
    BY <2>1, <1>10, Reported
  <2> QED
    BY <2>2
<1>8. ~(l.to < Now)
  <2> DEFINE ended == \E x \in selectLeaf(in, m) : x.to < Now
  <2>1. <<"PF-904", ended>> \in rules
    OBVIOUS
  <2> HIDE DEF rules
  <2>2. ~ended
    BY <2>1, <1>10, Reported
  <2> QED
    BY <2>2
<1>9. l.from <= Now /\ Now <= l.to
  BY <1>6, <1>7, <1>8, NowAssumption
<1> QED
  BY <1>3, <1>4, <1>5, <1>6, <1>9 DEF m

\* A bundle the gate lets through, and whose root is a private one, is
\* accepted as it is served by a client that trusts that root, under every
\* hostname it was asked to cover, while what the gate does not look at holds:
\* the certificates above the leaf are in their time too.
THEOREM AssembledVerifies ==
    ASSUME NEW in, in.blocks \in Seq(Block), NEW b \in Assemble(in), b.ca # {},
           NEW roots, b.ca \subseteq roots,
           \A c \in (ToSet(b.certs) \cup b.ca) \ {b.leaf} : c.from <= Now /\ Now <= c.to,
           NEW host \in {""} \cup (in.hostnames \cap (DOMAIN Labels \ IPs))
    PROVE  Verify(TRUE, b.certs, host, roots) = {}
<1> DEFINE m == Scan(in.blocks, in.passphrase)
           name == IF host = "" THEN <<>> ELSE exampleFor(host)
<1>1. /\ IsMaterial(m)
      /\ classify(b.leaf) # "root"
      /\ b.leaf.from <= Now /\ Now <= b.leaf.to
      /\ \A h \in in.hostnames : Covers(b.leaf, h)
      /\ b.certs = Build(b.leaf, m).certs
      /\ b.ca = {r \in Build(b.leaf, m).root : isPrivateRoot(r)}
  BY GatePassed
<1> HIDE DEF m
<1>2. Build(b.leaf, m).root # {} /\ Build(b.leaf, m).root = b.ca
  <2>1. PICK r : Build(b.leaf, m).root = {r}
    BY <1>1, BuildStarts
  <2> QED
    BY <2>1, <1>1
<1>3. \A c \in ToSet(b.certs) \cup b.ca : c.from <= Now /\ Now <= c.to
  BY <1>1
<1>4. Trusted(b.certs, roots, Now)
  BY <1>1, <1>2, <1>3, ChainIsTrusted
<1>6. b.certs[1] = b.leaf
  <2>1. Build(b.leaf, m).certs[1] = b.leaf
    BY <1>1, <1>2, BuildStarts
  <2> QED
    BY <2>1, <1>1
<1>7. name # <<>> => NamedBy(b.certs[1], name)
  BY <1>1, <1>6, CoveredIsNamed
<1>8. \A c \in ToSet(b.certs) : c.to >= Now
  BY <1>3
<1>9. selfSufficient(b.certs, name, roots) /\ notExpired(b.certs) /\ perHostname(b.certs, name)
  BY <1>4, <1>7, <1>8 DEF selfSufficient, notExpired, perHostname
<1> HIDE DEF name
<1> DEFINE rules == {<<"PV-002", ~selfSufficient(b.certs, name, roots)>>,
                     <<"PV-003", ~notExpired(b.certs)>>,
                     <<"PV-007", ~perHostname(b.certs, name)>>}
<1>10. \A q \in rules : ~q[2]
  <2>1. /\ (~selfSufficient(b.certs, name, roots)) = FALSE
        /\ (~notExpired(b.certs)) = FALSE
        /\ (~perHostname(b.certs, name)) = FALSE
    BY <1>9
  <2>2. rules = {<<"PV-002", FALSE>>, <<"PV-003", FALSE>>, <<"PV-007", FALSE>>}
    BY <2>1, Zenon
  <2> HIDE DEF rules
  <2>4. \A label : ~(<<label, FALSE>>[2])
    OBVIOUS
  <2>3. \A q \in rules : \E label : q = <<label, FALSE>>
    BY <2>2, Zenon
  <2> QED
    BY <2>3, <2>4, Zenon
<1> HIDE DEF rules
<1>11. Broken(rules) = {}
  BY <1>10, NoneReported
<1> QED
  BY <1>11 DEF Verify, name, rules

=============================================================================
