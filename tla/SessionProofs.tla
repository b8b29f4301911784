---------------------------- MODULE SessionProofs ----------------------------
(***************************************************************************)
(* Theorems about TestSession for spec files of any number, breadth and    *)
(* depth, whichever hooks throw and whenever a transaction is mined.       *)
(*                                                                         *)
(* The parts, in order: what FlattenSeq and the paths of a tree are, each  *)
(* by an induction over a set that has a least element; that Mocha's       *)
(* schedule of a suite is Ordered (its tests one after the other, a test's *)
(* hooks around it, the after hook of a suite behind all of it), by        *)
(* induction over the tree of suites; what a queue keeps of that order     *)
(* when its head leaves it or throws; and the invariant SessionInv, with   *)
(* one lemma per action.                                                   *)
(*                                                                         *)
(* SuitesAssumption says that the suites are trees, HelpersAssumption how  *)
(* the spec files place the two helpers.  SandboxFirst is a hypothesis of  *)
(* the last theorem alone.                                                 *)
(***************************************************************************)
EXTENDS TestSession, SequenceTheorems, FiniteSetTheorems,
        WellFoundedInduction, TLAPS

-----------------------------------------------------------------------------
\* Induction, as a statement about the set of numbers of which something holds.
LEMMA NaturalsFromZero ==
  ASSUME NEW N \in SUBSET Nat, 0 \in N, \A n \in N : n + 1 \in N
  PROVE  N = Nat
<1> DEFINE R == OpToRel(<, Nat)
           T == Nat \ N
<1>1. \A x, y \in Nat : x < y => <<x, y>> \in R  BY DEF OpToRel
<1>2. IsWellFoundedOn(R, Nat)  BY NatLessThanWellFounded
<1> HIDE DEF R
<1>3. SUFFICES ASSUME T # {} PROVE FALSE  OBVIOUS
<1>4. T \subseteq Nat  OBVIOUS
<1>5. PICK m \in T : \A y \in T : ~ (<<y, m>> \in R)
  <2> HIDE DEF T
  <2>1. QED  BY <1>2, <1>3, <1>4, WFMin
<1>6. m \in Nat /\ m # 0 /\ m - 1 \in Nat /\ m - 1 < m  OBVIOUS
<1>7. <<m - 1, m>> \in R  BY <1>1, <1>6
<1>8. m - 1 \in N  BY <1>5, <1>6, <1>7
<1>9. (m - 1) + 1 = m  BY <1>6
<1>10. m \in N  BY <1>8, <1>9
<1>11. QED  BY <1>10

-----------------------------------------------------------------------------
\* FlattenSeq: F is the first n sequences of ss one after the other, where
\* element k of F is element x[k] of sequence b[k].
Enumerates(F, ss, n, b, x) ==
  /\ \A k \in 1 .. Len(F) : /\ b[k] \in 1 .. n
                            /\ x[k] \in 1 .. Len(ss[b[k]])
                            /\ F[k] = ss[b[k]][x[k]]
  /\ \A k, l \in 1 .. Len(F) :
       k < l => b[k] < b[l] \/ (b[k] = b[l] /\ x[k] < x[l])
  /\ \A i \in 1 .. n : \A j \in 1 .. Len(ss[i]) :
       \E k \in 1 .. Len(F) : b[k] = i /\ x[k] = j

\* What FlattenSeq recurs over.
Flattens(ss, n, g) ==
  g = [i \in 1 .. n |-> IF i = 1 THEN ss[i] ELSE g[i - 1] \o ss[i]]

LEMMA FlattenExists ==
  ASSUME NEW ss
  PROVE  \A n \in Nat : \E g : Flattens(ss, n, g)
<1> DEFINE N == {n \in Nat : \E g : Flattens(ss, n, g)}
<1>1. 0 \in N
  <2>1. Flattens(ss, 0, [i \in 1 .. 0 |-> ss[i]])  BY DEF Flattens
  <2>2. QED  BY <2>1
<1>2. ASSUME NEW n \in N PROVE n + 1 \in N
  <2>1. PICK g : Flattens(ss, n, g)  OBVIOUS
  <2>2. n \in Nat  OBVIOUS
  <2> DEFINE h == [i \in 1 .. n + 1 |-> IF i = 1 THEN ss[i] ELSE g[i - 1] \o ss[i]]
  <2>3. \A i \in 1 .. n : h[i] = g[i]
    <3>1. \A i \in 1 .. n : g[i] = IF i = 1 THEN ss[i] ELSE g[i - 1] \o ss[i]
      BY <2>1 DEF Flattens
    <3>2. \A i \in 1 .. n : i \in 1 .. n + 1  BY <2>2
    <3>3. QED  BY <3>1, <3>2
  <2>4. \A i \in 1 .. n + 1 : i # 1 => i - 1 \in 1 .. n  BY <2>2
  <2>5. \A i \in 1 .. n + 1 :
          h[i] = IF i = 1 THEN ss[i] ELSE h[i - 1] \o ss[i]
    BY <2>2, <2>3, <2>4
  <2>6. Flattens(ss, n + 1, h)  BY <2>5 DEF Flattens
  <2>7. QED  BY <2>2, <2>6
<1>3. N = Nat
  <2> HIDE DEF N
  <2>1. N \in SUBSET Nat  BY DEF N
  <2>2. QED  BY <1>1, <1>2, <2>1, NaturalsFromZero
<1>4. QED  BY <1>3

\* One more sequence.
LEMMA FlattenStep ==
  ASSUME NEW X, NEW n \in Nat, NEW ss, NEW F \in Seq(X), NEW b, NEW x,
         ss[n + 1] \in Seq(X), Enumerates(F, ss, n, b, x)
  PROVE  /\ F \o ss[n + 1] \in Seq(X)
         /\ \E c, y : Enumerates(F \o ss[n + 1], ss, n + 1, c, y)
<1> DEFINE s == ss[n + 1]
           G == F \o s
           c == [k \in 1 .. Len(G) |-> IF k <= Len(F) THEN b[k] ELSE n + 1]
           y == [k \in 1 .. Len(G) |-> IF k <= Len(F) THEN x[k] ELSE k - Len(F)]
<1>1. /\ G \in Seq(X) /\ Len(G) = Len(F) + Len(s)
      /\ \A k \in 1 .. Len(F) + Len(s) :
           G[k] = IF k <= Len(F) THEN F[k] ELSE s[k - Len(F)]
      /\ Len(F) \in Nat /\ Len(s) \in Nat
  BY ConcatProperties
<1> HIDE DEF G
<1>2. \A k \in 1 .. Len(G) : /\ c[k] \in 1 .. n + 1
                             /\ y[k] \in 1 .. Len(ss[c[k]])
                             /\ G[k] = ss[c[k]][y[k]]
  <2> SUFFICES ASSUME NEW k \in 1 .. Len(G)
               PROVE  /\ c[k] \in 1 .. n + 1
                      /\ y[k] \in 1 .. Len(ss[c[k]])
                      /\ G[k] = ss[c[k]][y[k]]
    OBVIOUS
  <2>1. CASE k <= Len(F)
    <3>1. k \in 1 .. Len(F)  BY <1>1, <2>1
    <3>2. c[k] = b[k] /\ y[k] = x[k]  BY <2>1
    <3>3. QED  BY <1>1, <2>1, <3>1, <3>2 DEF Enumerates
  <2>2. CASE ~ (k <= Len(F))
    <3>1. c[k] = n + 1 /\ y[k] = k - Len(F)  BY <2>2
    <3>2. k - Len(F) \in 1 .. Len(s)  BY <1>1, <2>2
    <3>3. G[k] = s[k - Len(F)]  BY <1>1, <2>2
    <3>4. QED  BY <3>1, <3>2, <3>3
  <2>3. QED  BY <2>1, <2>2
<1>3. \A k, l \in 1 .. Len(G) :
        k < l => c[k] < c[l] \/ (c[k] = c[l] /\ y[k] < y[l])
  <2> SUFFICES ASSUME NEW k \in 1 .. Len(G), NEW l \in 1 .. Len(G), k < l
               PROVE  c[k] < c[l] \/ (c[k] = c[l] /\ y[k] < y[l])
    OBVIOUS
  <2>1. CASE l <= Len(F)
    <3>1. k \in 1 .. Len(F) /\ l \in 1 .. Len(F)  BY <1>1, <2>1
    <3>2. c[k] = b[k] /\ y[k] = x[k] /\ c[l] = b[l] /\ y[l] = x[l]  BY <3>1
    <3>3. QED  BY <3>1, <3>2 DEF Enumerates
  <2>2. CASE k <= Len(F) /\ ~ (l <= Len(F))
    <3>1. k \in 1 .. Len(F)  BY <1>1, <2>2
    <3>2. c[k] = b[k] /\ c[l] = n + 1  BY <2>2
    <3>3. b[k] \in 1 .. n  BY <3>1 DEF Enumerates
    <3>4. QED  BY <3>2, <3>3
  <2>3. CASE ~ (k <= Len(F)) /\ ~ (l <= Len(F))
    <3>1. c[k] = n + 1 /\ c[l] = n + 1 /\ y[k] = k - Len(F) /\ y[l] = l - Len(F)
      BY <2>3
    <3>2. QED  BY <1>1, <3>1
  <2>4. QED  BY <1>1, <2>1, <2>2, <2>3
<1>4. \A i \in 1 .. n + 1 : \A j \in 1 .. Len(ss[i]) :
        \E k \in 1 .. Len(G) : c[k] = i /\ y[k] = j
  <2> SUFFICES ASSUME NEW i \in 1 .. n + 1, NEW j \in 1 .. Len(ss[i])
               PROVE  \E k \in 1 .. Len(G) : c[k] = i /\ y[k] = j
    OBVIOUS
  <2>1. CASE i \in 1 .. n
    <3>1. PICK k \in 1 .. Len(F) : b[k] = i /\ x[k] = j  BY <2>1 DEF Enumerates
    <3>2. k \in 1 .. Len(G) /\ k <= Len(F)  BY <1>1
    <3>3. c[k] = b[k] /\ y[k] = x[k]  BY <3>2
    <3>4. QED  BY <3>1, <3>2, <3>3
  <2>2. CASE i = n + 1
    <3> DEFINE k == Len(F) + j
    <3>1. k \in 1 .. Len(G) /\ ~ (k <= Len(F)) /\ k - Len(F) = j  BY <1>1, <2>2
    <3> HIDE DEF k
    <3>2. c[k] = n + 1 /\ y[k] = k - Len(F)  BY <3>1
    <3>3. QED  BY <2>2, <3>1, <3>2
  <2>3. QED  BY <2>1, <2>2
<1> HIDE DEF c, y
<1>5. Enumerates(G, ss, n + 1, c, y)
  BY <1>2, <1>3, <1>4 DEF Enumerates
<1>6. QED  BY <1>1, <1>5 DEF G

\* FlattenSeq puts its sequences one after the other.
LEMMA FlattenOrder ==
  ASSUME NEW X, NEW n \in Nat, NEW ss, Len(ss) = n,
         n = 0 => ss = << >>,
         \A i \in 1 .. n : ss[i] \in Seq(X)
  PROVE  /\ FlattenSeq(ss) \in Seq(X)
         /\ \E b, x : Enumerates(FlattenSeq(ss), ss, n, b, x)
<1>1. CASE n = 0
  <2>1. FlattenSeq(ss) = << >>  BY <1>1 DEF FlattenSeq
  <2>2. Len(<< >>) = 0  OBVIOUS
  <2>3. Enumerates(<< >>, ss, 0, << >>, << >>)  BY <2>2 DEF Enumerates
  <2>4. << >> \in Seq(X)  OBVIOUS
  <2>5. QED  BY <1>1, <2>1, <2>3, <2>4
<1>2. CASE n # 0
  <2> DEFINE g == CHOOSE h : Flattens(ss, n, h)
  <2>1. Flattens(ss, n, g)  BY FlattenExists
  <2>2. FlattenSeq(ss) = g[n]  BY <1>2 DEF FlattenSeq, Flattens
  <2> HIDE DEF g
  <2> DEFINE M == {m \in Nat : m + 1 <= n =>
                     /\ g[m + 1] \in Seq(X)
                     /\ \E b, x : Enumerates(g[m + 1], ss, m + 1, b, x)}
  <2>3. \A i \in 1 .. n : g[i] = IF i = 1 THEN ss[i] ELSE g[i - 1] \o ss[i]
    BY <2>1 DEF Flattens
  <2>4. 0 \in M
    <3>1. 1 \in 1 .. n  BY <1>2
    <3>2. g[1] = ss[1] /\ ss[1] \in Seq(X)  BY <2>3, <3>1
    <3> DEFINE b == [k \in 1 .. Len(ss[1]) |-> 1]
               x == [k \in 1 .. Len(ss[1]) |-> k]
    <3>3. Enumerates(ss[1], ss, 1, b, x)  BY <3>2 DEF Enumerates
    <3> HIDE DEF b, x
    <3>4. QED  BY <3>2, <3>3
  <2>5. ASSUME NEW m \in M PROVE m + 1 \in M
    <3>1. m \in Nat  OBVIOUS
    <3>2. SUFFICES ASSUME (m + 1) + 1 <= n
                   PROVE  /\ g[(m + 1) + 1] \in Seq(X)
                          /\ \E b, x : Enumerates(g[(m + 1) + 1], ss, (m + 1) + 1, b, x)
      BY <3>1
    <3> DEFINE p == m + 1
    <3>3. p \in Nat /\ p <= n /\ p + 1 \in 1 .. n /\ p + 1 # 1 /\ (p + 1) - 1 = p
      BY <3>1, <3>2
    <3>4. g[p] \in Seq(X) /\ \E b, x : Enumerates(g[p], ss, p, b, x)
      BY <3>3
    <3> HIDE DEF p
    <3>5. PICK b, x : Enumerates(g[p], ss, p, b, x)  BY <3>4
    <3>6. g[p + 1] = g[p] \o ss[p + 1] /\ ss[p + 1] \in Seq(X)  BY <2>3, <3>3
    <3>7. /\ g[p] \o ss[p + 1] \in Seq(X)
          /\ \E c, y : Enumerates(g[p] \o ss[p + 1], ss, p + 1, c, y)
      BY <3>3, <3>4, <3>5, <3>6, FlattenStep
    <3>8. QED  BY <3>6, <3>7 DEF p
  <2>6. M = Nat
    <3> HIDE DEF M
    <3>1. M \in SUBSET Nat  BY DEF M
    <3>2. QED  BY <2>4, <2>5, <3>1, NaturalsFromZero
  <2>7. n - 1 \in M /\ (n - 1) + 1 = n
    <3> HIDE DEF M
    <3>1. QED  BY <1>2, <2>6
  <2>8. g[n] \in Seq(X) /\ \E b, x : Enumerates(g[n], ss, n, b, x)  BY <2>7
  <2>9. QED  BY <2>2, <2>8
<1>3. QED  BY <1>1, <1>2

-----------------------------------------------------------------------------
\* The tree of suites, and the recursion over it.
Paths == Seq(Suite) \ {<< >>}

\* Induction from the leaves.
LEMMA TreeInduction ==
  ASSUME NEW A \in SUBSET Suite,
         \A s \in Suite : childrenOf(s) \subseteq A => s \in A
  PROVE  A = Suite
<1> DEFINE T == Suite \ A
<1>1. SUFFICES ASSUME T # {} PROVE FALSE  OBVIOUS
<1>2. T \in (SUBSET Suite) \ {{}}  BY <1>1
<1>3. PICK s \in T : childrenOf(s) \cap T = {}
  BY <1>2, SuitesAssumption
<1>4. childrenOf(s) \subseteq Suite
  BY SuitesAssumption DEF childrenOf, ToSet
<1>5. childrenOf(s) \subseteq A  BY <1>3, <1>4
<1>6. QED  BY <1>3, <1>5

\* One level of scheduleOf.
expand(f, path) ==
  LET suite == suites[Last(path)] IN
  itemsOf("before", path, <<path, 0>>, {"before"})
  \o FlattenSeq([t \in 1..suite.tests |-> scheduleOfTest(<<path, t>>)])
  \o FlattenSeq([c \in DOMAIN suite.children |->
                   f[Append(path, suite.children[c])]])
  \o itemsOf("after", path, <<path, 0>>, {"cache"})

Into(A) == {p \in Paths : Last(p) \in A}
Closed(A) == A \in SUBSET Suite /\ \A s \in A : childrenOf(s) \subseteq A
Follows(A, f) == Closed(A) /\ f = [p \in Into(A) |-> expand(f, p)]

LEMMA PathProperties ==
  ASSUME NEW p \in Paths
  PROVE  /\ Len(p) \in Nat /\ Len(p) >= 1
         /\ Last(p) \in Suite
         /\ suites[Last(p)].children \in Seq(Suite)
         /\ \A s \in Suite : /\ Append(p, s) \in Paths
                             /\ Last(Append(p, s)) = s
<1>1. p \in Seq(Suite) /\ Len(p) \in Nat /\ Len(p) >= 1  BY DEF Paths
<1>2. Last(p) \in Suite  BY <1>1 DEF Last
<1>3. \A s \in Suite : Append(p, s) \in Paths /\ Last(Append(p, s)) = s
  BY <1>1 DEF Paths, Last
<1>4. QED  BY <1>1, <1>2, <1>3, SuitesAssumption

LEMMA ExpandDepends ==
  ASSUME NEW p \in Paths, NEW f, NEW g,
         \A c \in childrenOf(Last(p)) : f[Append(p, c)] = g[Append(p, c)]
  PROVE  expand(f, p) = expand(g, p)
<1> DEFINE children == suites[Last(p)].children
<1>1. [c \in DOMAIN children |-> f[Append(p, children[c])]]
        = [c \in DOMAIN children |-> g[Append(p, children[c])]]
  BY DEF childrenOf, ToSet
<1>2. QED  BY <1>1 DEF expand

LEMMA FollowersAgree ==
  ASSUME NEW A, NEW f, Follows(A, f), NEW B, NEW g, Follows(B, g)
  PROVE  \A p \in Into(A) \cap Into(B) : f[p] = g[p]
<1> DEFINE S == {s \in Suite : \A p \in Paths :
                   Last(p) = s /\ s \in A /\ s \in B => f[p] = g[p]}
<1>1. ASSUME NEW s \in Suite, childrenOf(s) \subseteq S
      PROVE  s \in S
  <2>1. SUFFICES ASSUME NEW p \in Paths, Last(p) = s, s \in A, s \in B
                 PROVE  f[p] = g[p]
    OBVIOUS
  <2>2. \A c \in childrenOf(Last(p)) : f[Append(p, c)] = g[Append(p, c)]
    <3> SUFFICES ASSUME NEW c \in childrenOf(s)
                 PROVE  f[Append(p, c)] = g[Append(p, c)]
      BY <2>1
    <3>1. c \in S /\ c \in Suite /\ c \in A /\ c \in B
      BY <1>1, <2>1 DEF Follows, Closed
    <3>2. Append(p, c) \in Paths /\ Last(Append(p, c)) = c
      BY <3>1, PathProperties
    <3>3. QED  BY <3>1, <3>2
  <2>3. expand(f, p) = expand(g, p)  BY <2>2, ExpandDepends
  <2>4. p \in Into(A) /\ p \in Into(B)  BY <2>1 DEF Into
  <2>5. f[p] = expand(f, p) /\ g[p] = expand(g, p)  BY <2>4 DEF Follows
  <2>6. QED  BY <2>3, <2>5
<1>2. S = Suite
  <2> HIDE DEF S
  <2>1. S \in SUBSET Suite  BY DEF S
  <2>2. QED  BY <1>1, <2>1, TreeInduction
<1>3. QED  BY <1>2, PathProperties DEF Into

\* Every suite has a schedule: those that have one are closed under children,
\* and one more suite whose children have one has one.
LEMMA FollowerExists == \E f : Follows(Suite, f)
<1> DEFINE Some(A) == \E f : Follows(A, f)
           U == {s \in Suite : \E A \in SUBSET Suite : s \in A /\ Some(A)}
           pickSet(s) == CHOOSE A \in SUBSET Suite : s \in A /\ Some(A)
           pickOf(s) == CHOOSE f : Follows(pickSet(s), f)
           u == [p \in Into(U) |-> pickOf(Last(p))[p]]
<1>1. \A s \in U : s \in pickSet(s) /\ Follows(pickSet(s), pickOf(s))
  <2> SUFFICES ASSUME NEW s \in U
               PROVE  s \in pickSet(s) /\ Follows(pickSet(s), pickOf(s))
    OBVIOUS
  <2>1. s \in pickSet(s) /\ Some(pickSet(s))  OBVIOUS
  <2>2. QED  BY <2>1
<1>2. Closed(U)
  <2> SUFFICES ASSUME NEW s \in U, NEW c \in childrenOf(s) PROVE c \in U
    BY DEF Closed
  <2>1. c \in pickSet(s) /\ c \in Suite /\ pickSet(s) \in SUBSET Suite
    BY <1>1 DEF Follows, Closed
  <2>2. QED  BY <1>1, <2>1
<1>3. ASSUME NEW A \in SUBSET Suite, NEW f, Follows(A, f), NEW p \in Into(A)
      PROVE  p \in Into(U) /\ u[p] = f[p]
  <2>1. Last(p) \in U /\ p \in Into(U)  BY <1>3 DEF Into
  <2>2. Follows(pickSet(Last(p)), pickOf(Last(p))) /\ Last(p) \in pickSet(Last(p))
    BY <1>1, <2>1
  <2>3. p \in Into(pickSet(Last(p)))  BY <2>2 DEF Into
  <2>4. pickOf(Last(p))[p] = f[p]
    <3> HIDE DEF pickSet, pickOf
    <3>1. QED  BY <1>3, <2>2, <2>3, FollowersAgree
  <2>5. QED  BY <2>1, <2>4
<1> HIDE DEF u
<1>4. \A p \in Into(U) : u[p] = expand(u, p)
  <2> SUFFICES ASSUME NEW p \in Into(U) PROVE u[p] = expand(u, p)
    OBVIOUS
  <2> DEFINE A == pickSet(Last(p))
             f == pickOf(Last(p))
  <2>1. p \in Paths /\ Last(p) \in U  BY DEF Into
  <2>2. Last(p) \in A /\ Follows(A, f)  BY <1>1, <2>1
  <2>3. A \in SUBSET Suite /\ p \in Into(A)  BY <2>1, <2>2 DEF Follows, Closed, Into
  <2> HIDE DEF A, f
  <2>4. u[p] = f[p] /\ f[p] = expand(f, p)  BY <1>3, <2>2, <2>3 DEF Follows
  <2>5. \A c \in childrenOf(Last(p)) : f[Append(p, c)] = u[Append(p, c)]
    <3> SUFFICES ASSUME NEW c \in childrenOf(Last(p))
                 PROVE  f[Append(p, c)] = u[Append(p, c)]
      OBVIOUS
    <3>1. c \in A /\ c \in Suite  BY <2>2, <2>3 DEF Follows, Closed
    <3>2. Append(p, c) \in Into(A)  BY <2>1, <3>1, PathProperties DEF Into
    <3>3. QED  BY <1>3, <2>2, <2>3, <3>2
  <2>6. expand(f, p) = expand(u, p)  BY <2>1, <2>5, ExpandDepends
  <2>7. QED  BY <2>4, <2>6
<1>5. U \in SUBSET Suite  OBVIOUS
<1> HIDE DEF U
<1>6. ASSUME NEW s \in Suite, childrenOf(s) \subseteq U PROVE s \in U
  <2> DEFINE B == U \cup {s}
             h == [p \in Into(B) |-> expand(u, p)]
  <2>1. Closed(B) /\ B \in SUBSET Suite  BY <1>2, <1>5, <1>6 DEF Closed
  <2>2. \A p \in Into(U) : p \in Into(B) /\ h[p] = u[p]  BY <1>4 DEF Into
  <2>3. ASSUME NEW p \in Into(B) PROVE expand(u, p) = expand(h, p)
    <3>1. p \in Paths /\ Last(p) \in B  BY DEF Into
    <3>2. childrenOf(Last(p)) \subseteq U  BY <1>2, <1>6, <3>1 DEF Closed
    <3>3. \A c \in childrenOf(Last(p)) : u[Append(p, c)] = h[Append(p, c)]
      <4> SUFFICES ASSUME NEW c \in childrenOf(Last(p))
                   PROVE  u[Append(p, c)] = h[Append(p, c)]
        OBVIOUS
      <4>1. c \in U /\ c \in Suite  BY <1>5, <3>2
      <4>2. Append(p, c) \in Into(U)  BY <3>1, <4>1, PathProperties DEF Into
      <4>3. QED  BY <2>2, <4>2
    <3> HIDE DEF h
    <3>4. QED  BY <3>1, <3>3, ExpandDepends
  <2>4. h = [p \in Into(B) |-> expand(h, p)]  BY <2>3
  <2> HIDE DEF h
  <2>5. Follows(B, h)  BY <2>1, <2>4 DEF Follows
  <2>6. s \in B  OBVIOUS
  <2> HIDE DEF B
  <2>7. QED  BY <2>1, <2>5, <2>6 DEF U
<1>7. U = Suite  BY <1>5, <1>6, TreeInduction
<1>8. u = [p \in Into(U) |-> expand(u, p)]
  <2>1. u = [p \in Into(U) |-> u[p]]  BY DEF u
  <2>2. QED  BY <1>4, <2>1
<1>9. Follows(U, u)  BY <1>2, <1>8 DEF Follows
<1>10. QED  BY <1>7, <1>9

LEMMA ScheduleUnfolds ==
  ASSUME NEW p \in Paths
  PROVE  scheduleOf[p] = expand(scheduleOf, p)
<1>1. Into(Suite) = Paths  BY PathProperties DEF Into
<1>2. PICK f : f = [q \in Paths |-> expand(f, q)]
  BY <1>1, FollowerExists DEF Follows
<1>3. scheduleOf = CHOOSE g : g = [q \in Paths |-> expand(g, q)]
  BY DEF scheduleOf, expand, Paths
<1>4. scheduleOf = [q \in Paths |-> expand(scheduleOf, q)]  BY <1>2, <1>3
<1>5. QED  BY <1>4

-----------------------------------------------------------------------------
\* Prefixes of paths.
LEMMA PrefixElements ==
  ASSUME NEW p \in Paths, NEW q \in Paths
  PROVE  IsPrefix(p, q) <=> /\ Len(p) <= Len(q)
                            /\ \A i \in 1 .. Len(p) : p[i] = q[i]
<1>1. /\ p \in Seq(Suite) /\ q \in Seq(Suite)
      /\ Len(p) \in Nat /\ Len(q) \in Nat /\ Len(p) >= 1 /\ Len(q) >= 1
  BY DEF Paths
<1>2. ASSUME Len(p) <= Len(q)
      PROVE  SubSeq(p, 1, Len(p)) = SubSeq(q, 1, Len(p))
               <=> \A i \in 1 .. Len(p) : p[i] = q[i]
  <2>1. /\ SubSeq(p, 1, Len(p)) \in Seq(Suite) /\ Len(SubSeq(p, 1, Len(p))) = Len(p)
        /\ \A i \in 1 .. Len(p) : SubSeq(p, 1, Len(p))[i] = p[i]
    BY <1>1
  <2>2. /\ SubSeq(q, 1, Len(p)) \in Seq(Suite) /\ Len(SubSeq(q, 1, Len(p))) = Len(p)
        /\ \A i \in 1 .. Len(p) : SubSeq(q, 1, Len(p))[i] = q[i]
    BY <1>1, <1>2
  <2>3. QED  BY <2>1, <2>2, SeqEqual
<1>3. QED  BY <1>2 DEF IsPrefix

LEMMA PrefixOrder ==
  ASSUME NEW p \in Paths, NEW q \in Paths, NEW r \in Paths
  PROVE  /\ IsPrefix(p, p)
         /\ IsPrefix(p, q) /\ IsPrefix(q, r) => IsPrefix(p, r)
         /\ IsPrefix(p, r) /\ IsPrefix(q, r) /\ Len(p) <= Len(q) => IsPrefix(p, q)
         /\ IsPrefix(p, q) => Len(p) <= Len(q)
         /\ IsPrefix(p, q) /\ Len(p) = Len(q) => p = q
<1>1. Len(p) \in Nat /\ Len(q) \in Nat /\ Len(r) \in Nat
      /\ p \in Seq(Suite) /\ q \in Seq(Suite)
  BY DEF Paths
<1>2. IsPrefix(p, p)  BY <1>1, PrefixElements
<1>3. IsPrefix(p, q) /\ IsPrefix(q, r) => IsPrefix(p, r)
  <2> SUFFICES ASSUME IsPrefix(p, q), IsPrefix(q, r) PROVE IsPrefix(p, r)
    OBVIOUS
  <2>1. /\ Len(p) <= Len(q) /\ \A i \in 1 .. Len(p) : p[i] = q[i]
        /\ Len(q) <= Len(r) /\ \A i \in 1 .. Len(q) : q[i] = r[i]
    BY PrefixElements
  <2>2. Len(p) <= Len(r) /\ \A i \in 1 .. Len(p) : p[i] = r[i]  BY <1>1, <2>1
  <2>3. QED  BY <2>2, PrefixElements
<1>4. IsPrefix(p, r) /\ IsPrefix(q, r) /\ Len(p) <= Len(q) => IsPrefix(p, q)
  <2> SUFFICES ASSUME IsPrefix(p, r), IsPrefix(q, r), Len(p) <= Len(q)
               PROVE  IsPrefix(p, q)
    OBVIOUS
  <2>1. /\ \A i \in 1 .. Len(p) : p[i] = r[i]
        /\ \A i \in 1 .. Len(q) : q[i] = r[i]
    BY PrefixElements
  <2>2. \A i \in 1 .. Len(p) : p[i] = q[i]  BY <1>1, <2>1
  <2>3. QED  BY <2>2, PrefixElements
<1>5. IsPrefix(p, q) => Len(p) <= Len(q)  BY PrefixElements
<1>6. IsPrefix(p, q) /\ Len(p) = Len(q) => p = q
  <2> SUFFICES ASSUME IsPrefix(p, q), Len(p) = Len(q) PROVE p = q
    OBVIOUS
  <2>1. \A i \in 1 .. Len(p) : p[i] = q[i]  BY PrefixElements
  <2>2. QED  BY <1>1, <2>1, SeqEqual
<1>7. QED  BY <1>2, <1>3, <1>4, <1>5, <1>6

\* A path that continues p goes on with one suite.
LEMMA PrefixOfChild ==
  ASSUME NEW p \in Paths, NEW c \in Suite, NEW q \in Paths
  PROVE  /\ Append(p, c) \in Paths /\ Len(Append(p, c)) = Len(p) + 1
         /\ Last(Append(p, c)) = c
         /\ IsPrefix(p, Append(p, c))
         /\ IsPrefix(Append(p, c), q) => IsPrefix(p, q) /\ q[Len(p) + 1] = c
<1>1. /\ p \in Seq(Suite) /\ Len(p) \in Nat
      /\ Append(p, c) \in Paths /\ Len(Append(p, c)) = Len(p) + 1
      /\ Append(p, c)[Len(p) + 1] = c
      /\ \A i \in 1 .. Len(p) : Append(p, c)[i] = p[i]
  BY DEF Paths
<1>2. IsPrefix(p, Append(p, c))
  <2>1. Len(p) <= Len(Append(p, c)) /\ \A i \in 1 .. Len(p) : p[i] = Append(p, c)[i]
    BY <1>1
  <2>2. QED  BY <1>1, <2>1, PrefixElements
<1>3. IsPrefix(Append(p, c), q) => IsPrefix(p, q)  BY <1>1, <1>2, PrefixOrder
<1>4. IsPrefix(Append(p, c), q) => q[Len(p) + 1] = c
  <2> SUFFICES ASSUME IsPrefix(Append(p, c), q) PROVE q[Len(p) + 1] = c
    OBVIOUS
  <2>1. \A i \in 1 .. Len(p) + 1 : Append(p, c)[i] = q[i]  BY <1>1, PrefixElements
  <2>2. Len(p) + 1 \in 1 .. Len(p) + 1  BY <1>1
  <2>3. QED  BY <1>1, <2>1, <2>2
<1>5. QED  BY <1>1, <1>2, <1>3, <1>4 DEF Last

\* The suites from the file down to p.
LEMMA PrefixesOfPath ==
  ASSUME NEW p \in Paths, NEW d \in 1 .. Len(p)
  PROVE  /\ upTo(p)[d] \in Paths /\ Len(upTo(p)[d]) = d
         /\ Last(upTo(p)[d]) = p[d] /\ p[d] \in Suite
         /\ IsPrefix(upTo(p)[d], p)
         /\ Reverse(upTo(p))[Len(p) - d + 1] = upTo(p)[d]
         /\ Len(upTo(p)) = Len(p)
<1>1. p \in Seq(Suite) /\ Len(p) \in Nat  BY DEF Paths
<1>2. upTo(p) = [e \in 1 .. Len(p) |-> SubSeq(p, 1, e)]  BY DEF upTo
<1>3. upTo(p)[d] = SubSeq(p, 1, d) /\ Len(upTo(p)) = Len(p)  BY <1>1, <1>2
<1>4. /\ SubSeq(p, 1, d) \in Seq(Suite) /\ Len(SubSeq(p, 1, d)) = d
      /\ \A i \in 1 .. d : SubSeq(p, 1, d)[i] = p[i]
  BY <1>1
<1>5. SubSeq(p, 1, d) \in Paths  BY <1>4 DEF Paths
<1>6. IsPrefix(SubSeq(p, 1, d), p)
  <2> DEFINE u == SubSeq(p, 1, d)
  <2>1. u \in Paths /\ Len(u) <= Len(p) /\ \A i \in 1 .. Len(u) : u[i] = p[i]
    BY <1>1, <1>4, <1>5
  <2> HIDE DEF u
  <2>2. IsPrefix(u, p)  BY <2>1, PrefixElements
  <2>3. QED  BY <2>2 DEF u
<1>7. SubSeq(p, 1, d)[d] = p[d] /\ p[d] \in Suite  BY <1>1, <1>4
<1>8. Reverse(upTo(p))[Len(p) - d + 1] = upTo(p)[d]
  <2>1. /\ Len(p) - d + 1 \in 1 .. Len(p)
        /\ (Len(p) - (Len(p) - d + 1)) + 1 = d
    BY <1>1
  <2>2. QED  BY <1>3, <2>1 DEF Reverse
<1>9. QED  BY <1>3, <1>4, <1>5, <1>6, <1>7, <1>8 DEF Last

-----------------------------------------------------------------------------
\* The items of a schedule.
hooksOf(path) == suites[Last(path)].hooks

hookItem(run, path, h, test) ==
  [run |-> run, path |-> path, hook |-> h, test |-> test]

Item == [run : {"before", "beforeEach", "test", "afterEach", "after"},
         path : Paths, hook : Nat, test : Paths \X Nat]

kindsFor ==
  [before |-> {"before"}, beforeEach |-> {"cache", "sandbox", "each"},
   test |-> {}, afterEach |-> {"sandbox"}, after |-> {"cache"}]

\* before and after hooks belong to a suite, the others to a test of it or of
\* one nested in it.
WellFormed(x) ==
  /\ x \in Item
  /\ IsPrefix(x.path, x.test[1])
  /\ x.run = "test" => x.path = x.test[1]
  /\ x.run # "test" => /\ x.hook \in DOMAIN hooksOf(x.path)
                       /\ hooksOf(x.path)[x.hook].kind \in kindsFor[x.run]
  /\ IF x.run \in {"before", "after"} THEN x.test = <<x.path, 0>>
                                      ELSE x.test[2] # 0

LEMMA HooksType ==
  ASSUME NEW p \in Paths
  PROVE  /\ hooksOf(p) \in Seq(Hook)
         /\ DOMAIN hooksOf(p) = 1 .. Len(hooksOf(p)) /\ Len(hooksOf(p)) \in Nat
         /\ \A h \in DOMAIN hooksOf(p) : hooksOf(p)[h] \in Hook
<1>1. hooksOf(p) \in Seq(Hook)
  BY PathProperties, SuitesAssumption DEF hooksOf
<1>2. QED  BY <1>1

\* A selection: F is y at the indices in S, in their order.
Selects(F, S, y) ==
  \E b : /\ \A k \in 1 .. Len(F) : b[k] \in S /\ F[k] = y[b[k]]
         /\ \A k, l \in 1 .. Len(F) : k < l => b[k] < b[l]
         /\ \A i \in S : \E k \in 1 .. Len(F) : b[k] = i

LEMMA WhenOrder ==
  ASSUME NEW n \in Nat, NEW S \in SUBSET (1 .. n), NEW y, NEW X,
         \A i \in S : y[i] \in X,
         NEW ss \in [1 .. n -> Seq(X)],
         \A i \in 1 .. n : ss[i] = when(i \in S, y[i])
  PROVE  /\ FlattenSeq(ss) \in Seq(X)
         /\ Selects(FlattenSeq(ss), S, y)
<1> DEFINE F == FlattenSeq(ss)
<1>1. \A i \in 1 .. n : i \in S => ss[i] = <<y[i]>> /\ y[i] \in X  BY DEF when
<1>2. \A i \in 1 .. n : i \notin S => ss[i] = << >>  BY DEF when
<1>3. \A i \in 1 .. n : ss[i] \in Seq(X)  OBVIOUS
<1>4. Len(ss) = n /\ (n = 0 => ss = << >>)
  <2>1. ss \in Seq(Seq(X)) /\ DOMAIN ss = 1 .. n  BY SeqDef
  <2>2. QED  BY <2>1
<1>5. F \in Seq(X) /\ \E b, x : Enumerates(F, ss, n, b, x)
  BY <1>3, <1>4, FlattenOrder
<1>6. PICK b, x : Enumerates(F, ss, n, b, x)  BY <1>5
<1> HIDE DEF F
<1>7. \A k \in 1 .. Len(F) : b[k] \in S /\ x[k] = 1 /\ F[k] = y[b[k]]
  <2> SUFFICES ASSUME NEW k \in 1 .. Len(F)
               PROVE  b[k] \in S /\ x[k] = 1 /\ F[k] = y[b[k]]
    OBVIOUS
  <2>1. b[k] \in 1 .. n /\ x[k] \in 1 .. Len(ss[b[k]]) /\ F[k] = ss[b[k]][x[k]]
    BY <1>6 DEF Enumerates
  <2>2. CASE b[k] \in S
    <3>1. ss[b[k]] = <<y[b[k]]>>  BY <1>1, <2>1, <2>2
    <3>2. QED  BY <2>1, <2>2, <3>1
  <2>3. CASE b[k] \notin S
    <3>1. ss[b[k]] = << >>  BY <1>2, <2>1, <2>3
    <3>2. QED  BY <2>1, <3>1
  <2>4. QED  BY <2>2, <2>3
<1>8. \A k, l \in 1 .. Len(F) : k < l => b[k] < b[l]
  <2> SUFFICES ASSUME NEW k \in 1 .. Len(F), NEW l \in 1 .. Len(F), k < l
               PROVE  b[k] < b[l]
    OBVIOUS
  <2>1. b[k] < b[l] \/ (b[k] = b[l] /\ x[k] < x[l])  BY <1>6 DEF Enumerates
  <2>2. x[k] = 1 /\ x[l] = 1  BY <1>7
  <2>3. QED  BY <2>1, <2>2
<1>9. \A i \in S : \E k \in 1 .. Len(F) : b[k] = i
  <2> SUFFICES ASSUME NEW i \in S PROVE \E k \in 1 .. Len(F) : b[k] = i
    OBVIOUS
  <2>1. i \in 1 .. n /\ ss[i] = <<y[i]>>  BY <1>1
  <2>2. 1 \in 1 .. Len(ss[i])  BY <2>1
  <2>3. QED  BY <1>6, <2>1, <2>2 DEF Enumerates
<1>10. Selects(F, S, y)  BY <1>7, <1>8, <1>9 DEF Selects
<1>11. QED  BY <1>5, <1>10 DEF F

LEMMA WhenType ==
  ASSUME NEW S, NEW i, NEW x, NEW X, i \in S => x \in X
  PROVE  when(i \in S, x) \in Seq(X)
<1>1. CASE i \in S  BY <1>1 DEF when
<1>2. CASE i \notin S  BY <1>2 DEF when
<1>3. QED  BY <1>1, <1>2

\* The hooks of a suite are in their order, each once.
someOf(p, kinds) == {h \in DOMAIN hooksOf(p) : hooksOf(p)[h].kind \in kinds}

InOrder(q, run, p, test, kinds) ==
  /\ q \in Seq({hookItem(run, p, h, test) : h \in someOf(p, kinds)})
  /\ \A k, l \in 1 .. Len(q) : k < l => q[k].hook < q[l].hook
  /\ \A h \in someOf(p, kinds) :
       \E k \in 1 .. Len(q) : q[k] = hookItem(run, p, h, test)

LEMMA ItemsInOrder ==
  ASSUME NEW p \in Paths, NEW run, NEW test, NEW kinds
  PROVE  InOrder(itemsOf(run, p, test, kinds), run, p, test, kinds)
<1> DEFINE hooks == hooksOf(p)
           some == {h \in DOMAIN hooks : hooks[h].kind \in kinds}
           X == {hookItem(run, p, h, test) : h \in some}
           n == Len(hooks)
           y == [h \in 1 .. n |-> hookItem(run, p, h, test)]
           ss == [h \in 1 .. n |-> when(h \in some, y[h])]
           q == itemsOf(run, p, test, kinds)
<1>1. n \in Nat /\ DOMAIN hooks = 1 .. n  BY HooksType
<1>2. ss = [h \in DOMAIN hooks |-> when(hooks[h].kind \in kinds,
                                        hookItem(run, p, h, test))]
  BY <1>1
<1>3. q = FlattenSeq(ss)  BY <1>2 DEF itemsOf, hooksOf, hookItem
<1>4. some \in SUBSET (1 .. n)  BY <1>1
<1>5. \A h \in some : y[h] = hookItem(run, p, h, test) /\ y[h] \in X  BY <1>4
<1> HIDE DEF y, X, n, some
<1>12. ss \in [1 .. n -> Seq(X)] /\ \A h \in 1 .. n : ss[h] = when(h \in some, y[h])
  BY <1>5, WhenType
<1> HIDE DEF ss, q
<1>6. q \in Seq(X) /\ Selects(q, some, y)
  BY <1>1, <1>3, <1>4, <1>5, <1>12, WhenOrder
<1>7. PICK b : /\ \A k \in 1 .. Len(q) : b[k] \in some /\ q[k] = y[b[k]]
               /\ \A k, l \in 1 .. Len(q) : k < l => b[k] < b[l]
               /\ \A i \in some : \E k \in 1 .. Len(q) : b[k] = i
  BY <1>6 DEF Selects
<1>8. \A k \in 1 .. Len(q) : q[k].hook = b[k]
  <2> SUFFICES ASSUME NEW k \in 1 .. Len(q) PROVE q[k].hook = b[k]
    OBVIOUS
  <2>1. q[k] = hookItem(run, p, b[k], test)  BY <1>5, <1>7
  <2>2. QED  BY <2>1 DEF hookItem
<1>9. \A k, l \in 1 .. Len(q) : k < l => q[k].hook < q[l].hook
  BY <1>7, <1>8
<1>10. \A h \in some : \E k \in 1 .. Len(q) : q[k] = hookItem(run, p, h, test)
  BY <1>5, <1>7
<1>11. QED  BY <1>6, <1>9, <1>10 DEF q, X, some, InOrder, someOf

\* What is left when a hook throws: the items that survive, in their order.
surviving(left, thrower) == {i \in 1 .. Len(left) : survives(left[i], thrower)}

LEMMA SurvivorsInOrder ==
  ASSUME NEW X, NEW left \in Seq(X), NEW thrower
  PROVE  /\ survivors(left, thrower) \in Seq(X)
         /\ Selects(survivors(left, thrower), surviving(left, thrower), left)
<1> DEFINE n == Len(left)
           S == surviving(left, thrower)
           ss == [i \in 1 .. n |-> when(i \in S, left[i])]
           q == survivors(left, thrower)
<1>1. n \in Nat /\ DOMAIN left = 1 .. n /\ \A i \in 1 .. n : left[i] \in X
  OBVIOUS
<1>2. ss = [i \in DOMAIN left |-> when(survives(left[i], thrower), left[i])]
  <2>1. \A i \in 1 .. n : i \in S <=> survives(left[i], thrower)  BY DEF surviving
  <2>2. \A i \in 1 .. n : when(i \in S, left[i]) = when(survives(left[i], thrower), left[i])
    BY <2>1 DEF when
  <2>3. QED  BY <1>1, <2>2
<1>3. q = FlattenSeq(ss)  BY <1>2 DEF survivors
<1>4. S \in SUBSET (1 .. n) /\ \A i \in S : left[i] \in X
  BY <1>1 DEF surviving
<1> HIDE DEF S, n
<1>8. ss \in [1 .. n -> Seq(X)] /\ \A i \in 1 .. n : ss[i] = when(i \in S, left[i])
  BY <1>4, WhenType
<1> HIDE DEF ss, q
<1>6. q \in Seq(X) /\ Selects(q, S, left)
  BY <1>1, <1>3, <1>4, <1>8, WhenOrder
<1>7. QED  BY <1>6 DEF q, S

-----------------------------------------------------------------------------
\* What a schedule keeps to, and what is left of it while it runs.

\* A path goes down from a file, a child at a time.
Rooted(p) ==
  /\ p \in Paths
  /\ \A s \in Suite : p[1] \notin childrenOf(s)
  /\ \A i \in 1 .. Len(p) - 1 : p[i + 1] \in childrenOf(p[i])

\* u comes before v: what is after the after hooks of a suite is outside it, a
\* test's beforeEach hooks are those of the outer suites first, and of the two
\* afterEach hooks at most one is of a test.
Precedes(u, v) ==
  /\ u.run = "after" => ~ IsPrefix(u.path, v.test[1])
  /\ u.run = "beforeEach" /\ v.run = "beforeEach" /\ u.test = v.test =>
       /\ IsPrefix(u.path, v.path)
       /\ u.path = v.path => u.hook < v.hook
  /\ u.run = "afterEach" /\ v.run = "afterEach" => u.test # v.test

\* w is between u and v: a suite and a test go on without interruption.
Between(u, w, v) ==
  /\ \A r \in Paths :
       IsPrefix(r, u.test[1]) /\ IsPrefix(r, v.test[1]) => IsPrefix(r, w.test[1])
  /\ u.test = v.test /\ u.test[2] # 0 => w.test = u.test

Ordered(q) ==
  /\ \A k \in 1 .. Len(q) : WellFormed(q[k]) /\ Rooted(q[k].test[1])
  /\ \A k, l \in 1 .. Len(q) : k < l => Precedes(q[k], q[l])
  /\ \A k, m, l \in 1 .. Len(q) : k < m /\ m < l => Between(q[k], q[m], q[l])

\* The after hook of a cacheBeforeEach is to come.
afterOf(x) == hookItem("after", x.path, x.hook, <<x.path, 0>>)

AfterComes(q, k) ==
  q[k].run = "beforeEach" /\ hookOf(q[k]).kind = "cache" =>
    \E l \in 1 .. Len(q) : k < l /\ q[l] = afterOf(q[k])

\* The beforeEach hook of a sandbox whose afterEach hook is q[l] is to come.
saverOf(x) == hookItem("beforeEach", x.path, x.hook, x.test)

SaverComes(q, l) == \E k \in 1 .. Len(q) : k < l /\ q[k] = saverOf(q[l])

\* The afterEach hook of a sandbox whose beforeEach hook is q[k] is to come.
restorerOf(x) == hookItem("afterEach", x.path, x.hook, x.test)

RestorerComes(q, k) ==
  q[k].run = "beforeEach" /\ hookOf(q[k]).kind = "sandbox" =>
    \E l \in 1 .. Len(q) : k < l /\ q[l] = restorerOf(q[k])

\* Sequences one after the other, each of them ordered.
Enumerated(F, ss, n) == \E b, x : Enumerates(F, ss, n, b, x)

Blocks(ss, n) ==
  /\ \A i \in 1 .. n : Ordered(ss[i])
  /\ \A i, j \in 1 .. n : i < j =>
       \A a \in 1 .. Len(ss[i]), c \in 1 .. Len(ss[j]) :
         /\ Precedes(ss[i][a], ss[j][c])
         /\ \A m \in 1 .. n : \A e \in 1 .. Len(ss[m]) :
              Between(ss[i][a], ss[m][e], ss[j][c])

LEMMA OrderedBlocks ==
  ASSUME NEW q, Len(q) \in Nat, NEW n \in Nat, NEW ss,
         Enumerated(q, ss, n), Blocks(ss, n)
  PROVE  Ordered(q)
<1> PICK b, x : Enumerates(q, ss, n, b, x)  BY DEF Enumerated
<1>11. \A i \in 1 .. n : Ordered(ss[i])  BY DEF Blocks
<1>12. \A i, j \in 1 .. n : i < j =>
        \A a \in 1 .. Len(ss[i]), c \in 1 .. Len(ss[j]) :
          Precedes(ss[i][a], ss[j][c])
  BY DEF Blocks
<1>13. \A i, j, m \in 1 .. n : i < j =>
        \A a \in 1 .. Len(ss[i]), c \in 1 .. Len(ss[j]), e \in 1 .. Len(ss[m]) :
          Between(ss[i][a], ss[m][e], ss[j][c])
  BY DEF Blocks
<1>1. \A k \in 1 .. Len(q) : WellFormed(q[k]) /\ Rooted(q[k].test[1])
  <2> SUFFICES ASSUME NEW k \in 1 .. Len(q)
               PROVE  WellFormed(q[k]) /\ Rooted(q[k].test[1])
    OBVIOUS
  <2>1. b[k] \in 1 .. n /\ x[k] \in 1 .. Len(ss[b[k]]) /\ q[k] = ss[b[k]][x[k]]
    BY DEF Enumerates
  <2>2. QED  BY <1>11, <2>1 DEF Ordered
<1>2. \A k, l \in 1 .. Len(q) : k < l => Precedes(q[k], q[l])
  <2> SUFFICES ASSUME NEW k \in 1 .. Len(q), NEW l \in 1 .. Len(q), k < l
               PROVE  Precedes(q[k], q[l])
    OBVIOUS
  <2>1. /\ b[k] \in 1 .. n /\ x[k] \in 1 .. Len(ss[b[k]]) /\ q[k] = ss[b[k]][x[k]]
        /\ b[l] \in 1 .. n /\ x[l] \in 1 .. Len(ss[b[l]]) /\ q[l] = ss[b[l]][x[l]]
        /\ (b[k] < b[l] \/ (b[k] = b[l] /\ x[k] < x[l]))
    BY DEF Enumerates
  <2>2. CASE b[k] < b[l]  BY <1>12, <2>1, <2>2
  <2>3. CASE b[k] = b[l] /\ x[k] < x[l]  BY <1>11, <2>1, <2>3 DEF Ordered
  <2>4. QED  BY <2>1, <2>2, <2>3
<1>3. \A k, m, l \in 1 .. Len(q) : k < m /\ m < l => Between(q[k], q[m], q[l])
  <2> SUFFICES ASSUME NEW k \in 1 .. Len(q), NEW m \in 1 .. Len(q),
                      NEW l \in 1 .. Len(q), k < m, m < l
               PROVE  Between(q[k], q[m], q[l])
    OBVIOUS
  <2>1. /\ b[k] \in 1 .. n /\ x[k] \in 1 .. Len(ss[b[k]]) /\ q[k] = ss[b[k]][x[k]]
        /\ b[m] \in 1 .. n /\ x[m] \in 1 .. Len(ss[b[m]]) /\ q[m] = ss[b[m]][x[m]]
        /\ b[l] \in 1 .. n /\ x[l] \in 1 .. Len(ss[b[l]]) /\ q[l] = ss[b[l]][x[l]]
    BY DEF Enumerates
  <2>2. /\ b[k] < b[m] \/ (b[k] = b[m] /\ x[k] < x[m])
        /\ b[m] < b[l] \/ (b[m] = b[l] /\ x[m] < x[l])
    BY DEF Enumerates
  <2>3. CASE b[k] < b[l]  BY <1>13, <2>1, <2>3
  <2>4. CASE ~ (b[k] < b[l])
    <3>1. b[k] = b[m] /\ b[m] = b[l] /\ x[k] < x[m] /\ x[m] < x[l]
      BY <2>1, <2>2, <2>4
    <3>2. QED  BY <1>11, <2>1, <3>1 DEF Ordered
  <2>5. QED  BY <2>3, <2>4
<1>4. QED  BY <1>1, <1>2, <1>3 DEF Ordered

-----------------------------------------------------------------------------
\* Where a suite is in its file.
LEMMA RootedPrefix ==
  ASSUME NEW p, Rooted(p), NEW r \in Paths, IsPrefix(r, p)
  PROVE  Rooted(r)
<1>1. /\ p \in Paths /\ Len(p) \in Nat /\ Len(r) \in Nat /\ Len(r) >= 1
      /\ Len(r) <= Len(p) /\ \A i \in 1 .. Len(r) : r[i] = p[i]
  BY PrefixElements, PathProperties DEF Rooted
<1>2. r[1] = p[1]  BY <1>1
<1>3. \A i \in 1 .. Len(r) - 1 : r[i + 1] \in childrenOf(r[i])
  <2> SUFFICES ASSUME NEW i \in 1 .. Len(r) - 1
               PROVE  r[i + 1] \in childrenOf(r[i])
    OBVIOUS
  <2>1. r[i] = p[i] /\ r[i + 1] = p[i + 1] /\ i \in 1 .. Len(p) - 1  BY <1>1
  <2>2. QED  BY <2>1 DEF Rooted
<1>4. QED  BY <1>2, <1>3 DEF Rooted

LEMMA RootedChild ==
  ASSUME NEW p, Rooted(p), NEW c \in childrenOf(Last(p)), c \in Suite
  PROVE  Rooted(Append(p, c))
<1> DEFINE q == Append(p, c)
<1>1. /\ p \in Paths /\ p \in Seq(Suite) /\ Len(p) \in Nat /\ Len(p) >= 1
  BY PathProperties DEF Rooted, Paths
<1>2. /\ q \in Paths /\ Len(q) = Len(p) + 1 /\ q[Len(p) + 1] = c
      /\ \A i \in 1 .. Len(p) : q[i] = p[i]
  BY <1>1 DEF Paths
<1> HIDE DEF q
<1>3. q[1] = p[1]  BY <1>1, <1>2
<1>4. \A i \in 1 .. Len(q) - 1 : q[i + 1] \in childrenOf(q[i])
  <2> SUFFICES ASSUME NEW i \in 1 .. Len(q) - 1
               PROVE  q[i + 1] \in childrenOf(q[i])
    OBVIOUS
  <2>1. CASE i = Len(p)
    <3>1. q[i] = Last(p) /\ q[i + 1] = c  BY <1>1, <1>2, <2>1 DEF Last
    <3>2. QED  BY <3>1
  <2>2. CASE i # Len(p)
    <3>1. i \in 1 .. Len(p) - 1 /\ i + 1 \in 1 .. Len(p)  BY <1>1, <1>2, <2>2
    <3>2. q[i] = p[i] /\ q[i + 1] = p[i + 1]  BY <1>1, <1>2, <3>1
    <3>3. QED  BY <3>1, <3>2 DEF Rooted
  <2>3. QED  BY <2>1, <2>2
<1>5. QED  BY <1>2, <1>3, <1>4 DEF Rooted, q

\* A suite has one parent, so one path leads to it.
LEMMA OneWay ==
  ASSUME NEW p, Rooted(p), NEW q, Rooted(q),
         NEW i \in 1 .. Len(p), NEW j \in 1 .. Len(q), p[i] = q[j]
  PROVE  i = j /\ \A k \in 1 .. i : p[k] = q[k]
<1> DEFINE N == {n \in Nat : \A d \in 1 .. Len(p), e \in 1 .. Len(q) :
                    d <= n /\ p[d] = q[e] => d = e /\ \A k \in 1 .. d : p[k] = q[k]}
<1>1. /\ Len(p) \in Nat /\ Len(q) \in Nat
      /\ \A d \in 1 .. Len(p) : p[d] \in Suite
      /\ \A e \in 1 .. Len(q) : q[e] \in Suite
  BY DEF Rooted, Paths
<1>2. 0 \in N  OBVIOUS
<1>3. ASSUME NEW n \in N PROVE n + 1 \in N
  <2>1. n \in Nat  OBVIOUS
  <2>2. SUFFICES ASSUME NEW d \in 1 .. Len(p), NEW e \in 1 .. Len(q),
                        d <= n + 1, p[d] = q[e]
                 PROVE  d = e /\ \A k \in 1 .. d : p[k] = q[k]
    BY <2>1
  <2>3. CASE d = 1
    <3>1. e = 1
      <4>1. SUFFICES ASSUME e # 1 PROVE FALSE  OBVIOUS
      <4>2. e - 1 \in 1 .. Len(q) - 1 /\ (e - 1) + 1 = e /\ e - 1 \in 1 .. Len(q)
        BY <1>1, <4>1
      <4>3. q[e] \in childrenOf(q[e - 1]) /\ q[e - 1] \in Suite  BY <1>1, <4>2 DEF Rooted
      <4>4. QED  BY <2>2, <2>3, <4>3 DEF Rooted
    <3>2. \A k \in 1 .. d : k = 1  BY <2>3
    <3>3. QED  BY <2>2, <2>3, <3>1, <3>2
  <2>4. CASE d # 1
    <3>1. d - 1 \in 1 .. Len(p) - 1 /\ (d - 1) + 1 = d /\ d - 1 \in 1 .. Len(p)
          /\ d - 1 <= n
      BY <1>1, <2>1, <2>2, <2>4
    <3>2. p[d] \in childrenOf(p[d - 1]) /\ p[d - 1] \in Suite
      BY <1>1, <3>1 DEF Rooted
    <3>3. e # 1  BY <2>2, <3>2 DEF Rooted
    <3>4. e - 1 \in 1 .. Len(q) - 1 /\ (e - 1) + 1 = e /\ e - 1 \in 1 .. Len(q)
      BY <1>1, <3>3
    <3>5. q[e] \in childrenOf(q[e - 1]) /\ q[e - 1] \in Suite
      BY <1>1, <3>4 DEF Rooted
    <3>6. p[d - 1] = q[e - 1]
      <4>1. childrenOf(p[d - 1]) \cap childrenOf(q[e - 1]) # {}
        BY <2>2, <3>2, <3>5
      <4>2. QED  BY <3>2, <3>5, <4>1, SuitesAssumption
    <3>7. d - 1 = e - 1 /\ \A k \in 1 .. d - 1 : p[k] = q[k]
      BY <3>1, <3>4, <3>6
    <3>8. d = e  BY <3>1, <3>4, <3>7
    <3>9. \A k \in 1 .. d : k \in 1 .. d - 1 \/ k = d  BY <3>1
    <3>10. QED  BY <2>2, <3>7, <3>8, <3>9
  <2>5. QED  BY <2>3, <2>4
<1>4. N = Nat
  <2> HIDE DEF N
  <2>1. N \in SUBSET Nat  BY DEF N
  <2>2. QED  BY <1>2, <1>3, <2>1, NaturalsFromZero
<1>5. i \in N
  <2> HIDE DEF N
  <2>1. QED  BY <1>1, <1>4
<1>6. i <= i  BY <1>1
<1>7. QED  BY <1>5, <1>6

LEMMA SuiteOnPath ==
  ASSUME NEW p, Rooted(p), NEW q, Rooted(q)
  PROVE  Last(p) \in ToSet(q) <=> IsPrefix(p, q)
<1>1. /\ p \in Paths /\ q \in Paths /\ p \in Seq(Suite) /\ q \in Seq(Suite)
      /\ Len(p) \in 1 .. Len(p) /\ Len(p) \in Nat /\ Len(q) \in Nat
      /\ DOMAIN q = 1 .. Len(q) /\ Last(p) = p[Len(p)]
  BY PathProperties DEF Rooted, Paths, Last
<1>2. ASSUME Last(p) \in ToSet(q) PROVE IsPrefix(p, q)
  <2>1. PICK j \in 1 .. Len(q) : p[Len(p)] = q[j]  BY <1>1, <1>2 DEF ToSet
  <2>2. Len(p) = j /\ \A k \in 1 .. Len(p) : p[k] = q[k]
    BY <1>1, <2>1, OneWay
  <2>3. Len(p) <= Len(q)  BY <1>1, <2>2
  <2>4. QED  BY <1>1, <2>2, <2>3, PrefixElements
<1>3. ASSUME IsPrefix(p, q) PROVE Last(p) \in ToSet(q)
  <2>1. Len(p) <= Len(q) /\ \A k \in 1 .. Len(p) : p[k] = q[k]
    BY <1>1, <1>3, PrefixElements
  <2>2. Len(p) \in 1 .. Len(q) /\ p[Len(p)] = q[Len(p)]  BY <1>1, <2>1
  <2>3. QED  BY <1>1, <2>2 DEF ToSet
<1>4. QED  BY <1>2, <1>3

\* In a sandbox and what is nested in it is no cache and no other sandbox.
LEMMA SandboxBranch ==
  ASSUME NEW p, Rooted(p), NEW i \in 1 .. Len(p), NEW j \in 1 .. Len(p),
         "sandbox" \in kindsIn(p[i]), i <= j
  PROVE  /\ "cache" \notin kindsIn(p[j])
         /\ "sandbox" \in kindsIn(p[j]) => i = j
<1>1. PICK sandboxed \in SUBSET Suite :
         /\ {suite \in Suite : "sandbox" \in kindsIn(suite)} \subseteq sandboxed
         /\ \A suite \in sandboxed :
              /\ "cache" \notin kindsIn(suite)
              /\ \A child \in childrenOf(suite) :
                   child \in sandboxed /\ "sandbox" \notin kindsIn(child)
  BY HelpersAssumption
<1>2. Len(p) \in Nat /\ \A d \in 1 .. Len(p) : p[d] \in Suite
  BY DEF Rooted, Paths
<1>3. p[i] \in sandboxed  BY <1>1, <1>2
<1> DEFINE N == {n \in Nat : i + n <= Len(p) =>
                    /\ p[i + n] \in sandboxed
                    /\ n # 0 => "sandbox" \notin kindsIn(p[i + n])}
<1>4. 0 \in N  BY <1>3
<1>5. ASSUME NEW n \in N PROVE n + 1 \in N
  <2>1. n \in Nat /\ i + (n + 1) = (i + n) + 1  OBVIOUS
  <2>2. SUFFICES ASSUME i + (n + 1) <= Len(p)
                 PROVE  /\ p[(i + n) + 1] \in sandboxed
                        /\ "sandbox" \notin kindsIn(p[(i + n) + 1])
    BY <2>1
  <2>3. p[i + n] \in sandboxed /\ i + n \in 1 .. Len(p) - 1  BY <1>2, <2>1, <2>2
  <2>4. p[(i + n) + 1] \in childrenOf(p[i + n])  BY <2>3 DEF Rooted
  <2>5. QED  BY <1>1, <2>3, <2>4
<1>6. N = Nat
  <2> HIDE DEF N
  <2>1. N \in SUBSET Nat  BY DEF N
  <2>2. QED  BY <1>4, <1>5, <2>1, NaturalsFromZero
<1>7. j - i \in N /\ i + (j - i) = j /\ i + (j - i) <= Len(p)
  <2> HIDE DEF N
  <2>1. QED  BY <1>2, <1>6
<1>8. p[j] \in sandboxed /\ (j - i # 0 => "sandbox" \notin kindsIn(p[j]))  BY <1>7
<1>9. QED  BY <1>1, <1>8

LEMMA SandboxItems ==
  ASSUME NEW p, Rooted(p), NEW r \in Paths, NEW s \in Paths,
         IsPrefix(r, p), IsPrefix(s, p), "sandbox" \in kindsIn(Last(r))
  PROVE  /\ IsPrefix(r, s) => "cache" \notin kindsIn(Last(s))
         /\ "sandbox" \in kindsIn(Last(s)) => r = s
<1>1. /\ p \in Paths /\ Len(p) \in Nat
      /\ Len(r) \in 1 .. Len(p) /\ Len(s) \in 1 .. Len(p)
      /\ Last(r) = p[Len(r)] /\ Last(s) = p[Len(s)]
  BY PathProperties, PrefixElements DEF Rooted, Last
<1>2. CASE Len(r) <= Len(s)
  <2>1. /\ "cache" \notin kindsIn(p[Len(s)])
        /\ "sandbox" \in kindsIn(p[Len(s)]) => Len(r) = Len(s)
    BY <1>1, <1>2, SandboxBranch
  <2>2. IsPrefix(r, s)  BY <1>1, <1>2, PrefixOrder
  <2>3. QED  BY <1>1, <2>1, <2>2, PrefixOrder
<1>3. CASE Len(s) <= Len(r)
  <2>1. "sandbox" \in kindsIn(p[Len(s)]) => Len(s) = Len(r)
    BY <1>1, <1>3, SandboxBranch
  <2>2. IsPrefix(s, r)  BY <1>1, <1>3, PrefixOrder
  <2>3. "sandbox" \in kindsIn(Last(s)) => r = s
    BY <1>1, <2>1, <2>2, PrefixOrder
  <2>4. IsPrefix(r, s) => Len(r) = Len(s)  BY <1>1, <1>3, PrefixOrder
  <2>5. IsPrefix(r, s) => "cache" \notin kindsIn(Last(s))
    BY <1>1, <1>2, <2>4
  <2>6. QED  BY <2>3, <2>5
<1>4. QED  BY <1>1, <1>2, <1>3

\* At most one cacheBeforeEach and one sandbox are of a suite.
LEMMA OneHelper ==
  ASSUME NEW p \in Paths, NEW g \in DOMAIN hooksOf(p), NEW h \in DOMAIN hooksOf(p),
         hooksOf(p)[g].kind \in {"cache", "sandbox"},
         hooksOf(p)[h].kind = hooksOf(p)[g].kind
  PROVE  g = h
BY PathProperties, HelpersAssumption DEF hooksOf

LEMMA KindOfHook ==
  ASSUME NEW p \in Paths, NEW h \in DOMAIN hooksOf(p)
  PROVE  hooksOf(p)[h].kind \in kindsIn(Last(p))
<1>1. hooksOf(p)[h] \in ToSet(suites[Last(p)].hooks)  BY DEF hooksOf, ToSet
<1>2. QED  BY <1>1 DEF kindsIn

-----------------------------------------------------------------------------
\* A schedule is ordered, from its smallest part up.
HooksOrdered(q, run, p, test, kinds) ==
  /\ q \in Seq(Item) /\ Ordered(q)
  /\ \A k \in 1 .. Len(q) :
       /\ q[k].run = run /\ q[k].path = p /\ q[k].test = test
       /\ q[k].hook \in someOf(p, kinds)
  /\ \A h \in someOf(p, kinds) :
       \E k \in 1 .. Len(q) : q[k] = hookItem(run, p, h, test)

LEMMA ItemsOrdered ==
  ASSUME NEW p \in Paths,
         NEW run \in {"before", "beforeEach", "afterEach", "after"},
         NEW kinds, kinds = kindsFor[run],
         NEW test \in Paths \X Nat, Rooted(test[1]), IsPrefix(p, test[1]),
         IF run \in {"before", "after"} THEN test = <<p, 0>> ELSE test[2] # 0
  PROVE  HooksOrdered(itemsOf(run, p, test, kinds), run, p, test, kinds)
<1> DEFINE q == itemsOf(run, p, test, kinds)
           some == someOf(p, kinds)
           X == {hookItem(run, p, h, test) : h \in some}
<1>1. /\ q \in Seq(X)
      /\ \A k, l \in 1 .. Len(q) : k < l => q[k].hook < q[l].hook
      /\ \A h \in some : \E k \in 1 .. Len(q) : q[k] = hookItem(run, p, h, test)
  <2>1. InOrder(q, run, p, test, kinds)  BY ItemsInOrder
  <2> HIDE DEF q
  <2>2. QED  BY <2>1 DEF InOrder
<1> HIDE DEF q
<1>2. \A k \in 1 .. Len(q) : q[k] \in X  BY <1>1
<1>3. /\ some \subseteq Nat /\ some \subseteq DOMAIN hooksOf(p)
      /\ \A h \in some : hooksOf(p)[h].kind \in kinds
  BY HooksType DEF someOf
<1> HIDE DEF some
<1>4. \A y \in X : /\ y.run = run /\ y.path = p /\ y.test = test
                   /\ y.hook \in some /\ y \in Item
  BY <1>3 DEF hookItem, Item
<1>5. \A y \in X : WellFormed(y) /\ Rooted(y.test[1])
  BY <1>3, <1>4 DEF WellFormed
<1> HIDE DEF X
<1>6. \A k \in 1 .. Len(q) :
        /\ q[k].run = run /\ q[k].path = p /\ q[k].test = test
        /\ q[k].hook \in some /\ q[k] \in Item
        /\ WellFormed(q[k]) /\ Rooted(q[k].test[1])
  BY <1>2, <1>4, <1>5
<1>7. q \in Seq(Item)
  <2>1. \A y \in X : y \in Item  BY <1>4
  <2>2. QED  BY <1>1, <2>1
<1>8. \A k, l \in 1 .. Len(q) : k < l => Precedes(q[k], q[l])
  <2> SUFFICES ASSUME NEW k \in 1 .. Len(q), NEW l \in 1 .. Len(q), k < l
               PROVE  Precedes(q[k], q[l])
    OBVIOUS
  <2>1. /\ q[k].run = run /\ q[k].path = p /\ q[k].test = test /\ q[k].hook \in some
        /\ q[l].run = run /\ q[l].path = p /\ q[l].test = test /\ q[l].hook \in some
    BY <1>6
  <2>2. q[k].hook < q[l].hook /\ q[k].hook \in Nat /\ q[l].hook \in Nat
    BY <1>1, <1>3, <2>1
  <2>3. run \notin {"after", "afterEach"}
    <3>1. SUFFICES ASSUME run \in {"after", "afterEach"} PROVE FALSE  OBVIOUS
    <3>2. kinds = {"cache"} \/ kinds = {"sandbox"}  BY <3>1 DEF kindsFor
    <3>3. hooksOf(p)[q[k].hook].kind \in kinds /\ hooksOf(p)[q[l].hook].kind \in kinds
      BY <1>3, <2>1
    <3>4. q[k].hook = q[l].hook  BY <1>3, <2>1, <3>2, <3>3, OneHelper
    <3>5. QED  BY <2>2, <3>4
  <2>4. IsPrefix(p, p)  BY PrefixOrder
  <2>5. QED  BY <2>1, <2>2, <2>3, <2>4 DEF Precedes
<1>9. \A k, m, l \in 1 .. Len(q) : k < m /\ m < l => Between(q[k], q[m], q[l])
  BY <1>6 DEF Between
<1>10. Ordered(q)  BY <1>6, <1>8, <1>9 DEF Ordered
<1>11. QED  BY <1>1, <1>6, <1>7, <1>10 DEF q, HooksOrdered, some

LEMMA FlattenBlocks ==
  ASSUME NEW X, NEW n \in Nat, NEW ss \in [1 .. n -> Seq(X)]
  PROVE  FlattenSeq(ss) \in Seq(X) /\ Enumerated(FlattenSeq(ss), ss, n)
<1>1. Len(ss) = n /\ (n = 0 => ss = << >>)
  <2>1. ss \in Seq(Seq(X)) /\ DOMAIN ss = 1 .. n  BY SeqDef
  <2>2. QED  BY <2>1
<1>2. \A i \in 1 .. n : ss[i] \in Seq(X)  OBVIOUS
<1>3. FlattenSeq(ss) \in Seq(X) /\ \E b, x : Enumerates(FlattenSeq(ss), ss, n, b, x)
  BY <1>1, <1>2, FlattenOrder
<1>4. QED  BY <1>3 DEF Enumerated

LEMMA OneBlock ==
  ASSUME NEW X, NEW ss, ss[1] \in Seq(X)
  PROVE  Enumerated(ss[1], ss, 1)
<1> DEFINE b == [k \in 1 .. Len(ss[1]) |-> 1]
           x == [k \in 1 .. Len(ss[1]) |-> k]
<1>1. Enumerates(ss[1], ss, 1, b, x)  BY DEF Enumerates
<1> HIDE DEF b, x
<1>2. QED  BY <1>1 DEF Enumerated

LEMMA OneMoreBlock ==
  ASSUME NEW X, NEW n \in Nat, NEW ss, NEW F \in Seq(X),
         ss[n + 1] \in Seq(X), Enumerated(F, ss, n)
  PROVE  F \o ss[n + 1] \in Seq(X) /\ Enumerated(F \o ss[n + 1], ss, n + 1)
<1>1. PICK b, x : Enumerates(F, ss, n, b, x)  BY DEF Enumerated
<1>2. /\ F \o ss[n + 1] \in Seq(X)
      /\ \E c, y : Enumerates(F \o ss[n + 1], ss, n + 1, c, y)
  BY <1>1, FlattenStep
<1>3. QED  BY <1>2 DEF Enumerated

\* What is in the whole is in a block, and the other way round.
LEMMA BlockOfItem ==
  ASSUME NEW F, NEW ss, NEW n, Enumerated(F, ss, n), NEW k \in 1 .. Len(F)
  PROVE  \E i \in 1 .. n : \E a \in 1 .. Len(ss[i]) : F[k] = ss[i][a]
<1>1. PICK b, x : Enumerates(F, ss, n, b, x)  BY DEF Enumerated
<1>2. b[k] \in 1 .. n /\ x[k] \in 1 .. Len(ss[b[k]]) /\ F[k] = ss[b[k]][x[k]]
  BY <1>1 DEF Enumerates
<1>3. QED  BY <1>2

LEMMA ItemOfBlock ==
  ASSUME NEW F, NEW ss, NEW n, Enumerated(F, ss, n),
         NEW i \in 1 .. n, NEW a \in 1 .. Len(ss[i])
  PROVE  \E k \in 1 .. Len(F) : F[k] = ss[i][a]
<1>1. PICK b, x : Enumerates(F, ss, n, b, x)  BY DEF Enumerated
<1>2. PICK k \in 1 .. Len(F) : b[k] = i /\ x[k] = a  BY <1>1 DEF Enumerates
<1>3. F[k] = ss[b[k]][x[k]]  BY <1>1 DEF Enumerates
<1>4. QED  BY <1>2, <1>3

\* What is at place k of the whole is at place a of block i.
AtPlace(F, ss, n, k, i, a) ==
  /\ F[k] = ss[i][a]
  /\ \A j \in 1 .. n : \A c \in 1 .. Len(ss[j]) :
       /\ i < j \/ (i = j /\ a < c) =>
            \E l \in 1 .. Len(F) : k < l /\ F[l] = ss[j][c]
       /\ j < i \/ (i = j /\ c < a) =>
            \E l \in 1 .. Len(F) : l < k /\ F[l] = ss[j][c]

LEMMA BlockOrder ==
  ASSUME NEW F, NEW ss, NEW n, Enumerated(F, ss, n), Len(F) \in Nat,
         n \in Nat, \A i \in 1 .. n : Len(ss[i]) \in Nat,
         NEW k \in 1 .. Len(F)
  PROVE  \E i \in 1 .. n : \E a \in 1 .. Len(ss[i]) : AtPlace(F, ss, n, k, i, a)
<1>1. PICK b, x : Enumerates(F, ss, n, b, x)  BY DEF Enumerated
<1> DEFINE i == b[k]
           a == x[k]
<1>2. i \in 1 .. n /\ a \in 1 .. Len(ss[i]) /\ F[k] = ss[i][a]
  BY <1>1 DEF Enumerates
<1>3. ASSUME NEW j \in 1 .. n, NEW c \in 1 .. Len(ss[j])
      PROVE  /\ i < j \/ (i = j /\ a < c) =>
                  \E l \in 1 .. Len(F) : k < l /\ F[l] = ss[j][c]
             /\ j < i \/ (i = j /\ c < a) =>
                  \E l \in 1 .. Len(F) : l < k /\ F[l] = ss[j][c]
  <2>1. PICK l \in 1 .. Len(F) : b[l] = j /\ x[l] = c  BY <1>1 DEF Enumerates
  <2>2. F[l] = ss[j][c]  BY <1>1, <2>1 DEF Enumerates
  <2>3. /\ k < l => i < j \/ (i = j /\ a < c)
        /\ l < k => j < i \/ (i = j /\ c < a)
    BY <1>1, <2>1 DEF Enumerates
  <2>4. k = l => i = j /\ a = c  BY <2>1
  <2>5. k < l \/ l < k \/ k = l  OBVIOUS
  <2>6. c \in Nat /\ a \in Nat /\ i \in Nat /\ j \in Nat  BY <1>2
  <2> HIDE DEF i, a
  <2>7. i < j \/ (i = j /\ a < c) => k < l  BY <2>3, <2>4, <2>5, <2>6
  <2>8. j < i \/ (i = j /\ c < a) => l < k  BY <2>3, <2>4, <2>5, <2>6
  <2>9. QED  BY <2>2, <2>7, <2>8
<1> HIDE DEF i, a
<1>4. AtPlace(F, ss, n, k, i, a)  BY <1>2, <1>3 DEF AtPlace
<1>5. QED  BY <1>2, <1>4

\* The beforeEach or the afterEach hooks of a test, suite by suite.
EachOrderedly(F, run, kinds, test, r, n) ==
  /\ F \in Seq(Item) /\ Ordered(F)
  /\ \A k \in 1 .. Len(F) : F[k].run = run /\ F[k].test = test
  /\ \A d \in 1 .. n : \A h \in someOf(r[d], kinds) :
       \E k \in 1 .. Len(F) : F[k] = hookItem(run, r[d], h, test)

LEMMA EachBlocksOrdered ==
  ASSUME NEW p, Rooted(p), NEW test \in Paths \X Nat, test[1] = p, test[2] # 0,
         NEW run \in {"beforeEach", "afterEach"},
         NEW kinds, kinds = kindsFor[run],
         NEW r, \A d \in 1 .. Len(p) : r[d] \in Paths /\ IsPrefix(r[d], p),
         \A d, e \in 1 .. Len(p) : d < e =>
           r[d] # r[e] /\ (run = "beforeEach" => IsPrefix(r[d], r[e])),
         NEW ss \in [1 .. Len(p) -> Seq(Item)],
         \A d \in 1 .. Len(p) : HooksOrdered(ss[d], run, r[d], test, kinds)
  PROVE  EachOrderedly(FlattenSeq(ss), run, kinds, test, r, Len(p))
<1> DEFINE n == Len(p)
           F == FlattenSeq(ss)
<1>1. p \in Paths /\ n \in Nat  BY PathProperties DEF Rooted
<1>3. \A d \in 1 .. n : HooksOrdered(ss[d], run, r[d], test, kinds)  OBVIOUS
<1>4. \A d \in 1 .. n : ss[d] \in Seq(Item) /\ Ordered(ss[d])
  BY <1>3 DEF HooksOrdered
<1>5. \A d \in 1 .. n : \A a \in 1 .. Len(ss[d]) :
        /\ ss[d][a].run = run /\ ss[d][a].path = r[d] /\ ss[d][a].test = test
        /\ ss[d][a].hook \in someOf(r[d], kinds)
  BY <1>3 DEF HooksOrdered
<1>6. \A d \in 1 .. n : \A h \in someOf(r[d], kinds) :
        \E a \in 1 .. Len(ss[d]) : ss[d][a] = hookItem(run, r[d], h, test)
  BY <1>3 DEF HooksOrdered
<1>7. ss \in [1 .. n -> Seq(Item)]  OBVIOUS
<1>8. F \in Seq(Item) /\ Enumerated(F, ss, n)  BY <1>1, <1>7, FlattenBlocks
<1> HIDE DEF F, n
<1>9. \A k \in 1 .. Len(F) : F[k].run = run /\ F[k].test = test
  <2> SUFFICES ASSUME NEW k \in 1 .. Len(F)
               PROVE  F[k].run = run /\ F[k].test = test
    OBVIOUS
  <2>1. PICK d \in 1 .. n : \E a \in 1 .. Len(ss[d]) : F[k] = ss[d][a]
    BY <1>8, BlockOfItem
  <2>2. PICK a \in 1 .. Len(ss[d]) : F[k] = ss[d][a]  BY <2>1
  <2>3. QED  BY <1>5, <2>2
<1>10. \A d \in 1 .. n : \A h \in someOf(r[d], kinds) :
         \E k \in 1 .. Len(F) : F[k] = hookItem(run, r[d], h, test)
  <2> SUFFICES ASSUME NEW d \in 1 .. n, NEW h \in someOf(r[d], kinds)
               PROVE  \E k \in 1 .. Len(F) : F[k] = hookItem(run, r[d], h, test)
    OBVIOUS
  <2>1. PICK a \in 1 .. Len(ss[d]) : ss[d][a] = hookItem(run, r[d], h, test)
    BY <1>6
  <2>2. PICK k \in 1 .. Len(F) : F[k] = ss[d][a]  BY <1>8, ItemOfBlock
  <2>3. QED  BY <2>1, <2>2
<1>11. \A d, e \in 1 .. n : d < e =>
         \A a \in 1 .. Len(ss[d]), c \in 1 .. Len(ss[e]) :
           Precedes(ss[d][a], ss[e][c])
  <2> SUFFICES ASSUME NEW d \in 1 .. n, NEW e \in 1 .. n, d < e,
                      NEW a \in 1 .. Len(ss[d]), NEW c \in 1 .. Len(ss[e])
               PROVE  Precedes(ss[d][a], ss[e][c])
    OBVIOUS
  <2>1. /\ ss[d][a].run = run /\ ss[d][a].path = r[d]
        /\ ss[e][c].run = run /\ ss[e][c].path = r[e]
        /\ ss[d][a].hook \in someOf(r[d], kinds)
        /\ ss[e][c].hook \in someOf(r[e], kinds)
    BY <1>5
  <2>2. /\ r[d] # r[e] /\ (run = "beforeEach" => IsPrefix(r[d], r[e]))
        /\ r[d] \in Paths /\ IsPrefix(r[d], p)
        /\ r[e] \in Paths /\ IsPrefix(r[e], p)
    BY DEF n
  <2>3. run # "afterEach"
    <3>1. SUFFICES ASSUME run = "afterEach" PROVE FALSE  OBVIOUS
    <3>2. kinds = {"sandbox"}  BY <3>1 DEF kindsFor
    <3>3. ASSUME NEW s \in Paths, NEW h \in someOf(s, kinds)
          PROVE  "sandbox" \in kindsIn(Last(s))
      <4>1. h \in DOMAIN hooksOf(s) /\ hooksOf(s)[h].kind = "sandbox"
        BY <3>2, <3>3 DEF someOf
      <4>2. QED  BY <4>1, KindOfHook
    <3>4. "sandbox" \in kindsIn(Last(r[d])) /\ "sandbox" \in kindsIn(Last(r[e]))
      BY <2>1, <2>2, <3>3
    <3>5. QED  BY <2>2, <3>4, SandboxItems
  <2>4. QED  BY <2>1, <2>2, <2>3 DEF Precedes
<1>12. \A u, w, v : u.test = w.test /\ v.test = w.test => Between(u, w, v)
  BY DEF Between
<1>13. \A d, e \in 1 .. n : \A a \in 1 .. Len(ss[d]), c \in 1 .. Len(ss[e]) :
         \A m \in 1 .. n : \A f \in 1 .. Len(ss[m]) :
           Between(ss[d][a], ss[m][f], ss[e][c])
  <2> SUFFICES ASSUME NEW d \in 1 .. n, NEW e \in 1 .. n, NEW m \in 1 .. n,
                      NEW a \in 1 .. Len(ss[d]), NEW c \in 1 .. Len(ss[e]),
                      NEW f \in 1 .. Len(ss[m])
               PROVE  Between(ss[d][a], ss[m][f], ss[e][c])
    OBVIOUS
  <2>1. ss[d][a].test = test /\ ss[m][f].test = test /\ ss[e][c].test = test
    BY <1>5
  <2>2. QED  BY <1>12, <2>1
<1>14. Len(F) \in Nat  BY <1>8
<1>15. \A d \in 1 .. n : Ordered(ss[d])  BY <1>4
<1>18. Blocks(ss, n)  BY <1>11, <1>13, <1>15 DEF Blocks
<1>16. Ordered(F)  BY <1>1, <1>8, <1>14, <1>18, OrderedBlocks
<1>17. QED  BY <1>8, <1>9, <1>10, <1>16 DEF EachOrderedly, F, n

LEMMA EachOrdered ==
  ASSUME NEW p, Rooted(p), NEW test \in Paths \X Nat, test[1] = p, test[2] # 0,
         NEW run \in {"beforeEach", "afterEach"},
         NEW kinds, kinds = kindsFor[run],
         NEW r, \A d \in 1 .. Len(p) : r[d] \in Paths /\ IsPrefix(r[d], p),
         \A d, e \in 1 .. Len(p) : d < e =>
           r[d] # r[e] /\ (run = "beforeEach" => IsPrefix(r[d], r[e])),
         NEW ss, ss = [d \in 1 .. Len(p) |-> itemsOf(run, r[d], test, kinds)]
  PROVE  EachOrderedly(FlattenSeq(ss), run, kinds, test, r, Len(p))
<1>1. \A d \in 1 .. Len(p) : HooksOrdered(itemsOf(run, r[d], test, kinds), run, r[d], test, kinds)
  <2> SUFFICES ASSUME NEW d \in 1 .. Len(p)
               PROVE  HooksOrdered(itemsOf(run, r[d], test, kinds), run, r[d], test, kinds)
    OBVIOUS
  <2>1. run \in {"before", "beforeEach", "afterEach", "after"}
        /\ run \notin {"before", "after"}
    OBVIOUS
  <2>2. IF run \in {"before", "after"} THEN test = <<r[d], 0>> ELSE test[2] # 0
    BY <2>1
  <2>3. QED  BY <2>1, <2>2, ItemsOrdered
<1>2. \A d \in 1 .. Len(p) : HooksOrdered(ss[d], run, r[d], test, kinds)
  BY <1>1
<1>3. \A d \in 1 .. Len(p) : itemsOf(run, r[d], test, kinds) \in Seq(Item)
  BY <1>1 DEF HooksOrdered
<1>4. ss \in [1 .. Len(p) -> Seq(Item)]  BY <1>3
<1>5. QED  BY <1>2, <1>4, EachBlocksOrdered

\* The schedule of a test: its hooks around it, each sandbox saved in it before
\* it is restored.
TestSchedule(q, test) ==
  /\ q \in Seq(Item) /\ Ordered(q)
  /\ \A k \in 1 .. Len(q) :
       /\ q[k].test = test /\ q[k].run \in {"beforeEach", "test", "afterEach"}
       /\ q[k].run = "afterEach" => SaverComes(q, k)
       /\ RestorerComes(q, k)

LEMMA TestOrdered ==
  ASSUME NEW p, Rooted(p), NEW t \in Nat, t # 0
  PROVE  TestSchedule(scheduleOfTest(<<p, t>>), <<p, t>>)
<1> DEFINE test == <<p, t>>
           n == Len(p)
           K == {"cache", "sandbox", "each"}
           S == {"sandbox"}
           up == upTo(p)
           down == Reverse(upTo(p))
           before == [d \in 1 .. Len(p) |-> itemsOf("beforeEach", up[d], test, K)]
           after == [d \in 1 .. Len(p) |-> itemsOf("afterEach", down[d], test, S)]
           it == [run |-> "test", path |-> p, hook |-> 0, test |-> test]
           s1 == FlattenSeq(before)
           s2 == <<it>>
           s3 == FlattenSeq(after)
           ss == <<s1, s2, s3>>
           q == scheduleOfTest(test)
<1>1. /\ p \in Paths /\ n \in Nat /\ n >= 1
      /\ test \in Paths \X Nat /\ test[1] = p /\ test[2] = t
  BY PathProperties DEF Rooted
<1>2. q = (s1 \o s2) \o s3  BY <1>1 DEF scheduleOfTest
<1>3. K = kindsFor["beforeEach"] /\ S = kindsFor["afterEach"]  BY DEF kindsFor
<1>4. \A d \in 1 .. Len(p) :
        /\ up[d] \in Paths /\ IsPrefix(up[d], p) /\ Len(up[d]) = d
        /\ down[(Len(p) - d) + 1] = up[d]
  BY <1>1, PrefixesOfPath
<1>5. \A d \in 1 .. Len(p) : down[d] = up[(Len(p) - d) + 1] /\ (Len(p) - d) + 1 \in 1 .. Len(p)
  <2> SUFFICES ASSUME NEW d \in 1 .. Len(p)
               PROVE  down[d] = up[(Len(p) - d) + 1] /\ (Len(p) - d) + 1 \in 1 .. Len(p)
    OBVIOUS
  <2>1. /\ (Len(p) - d) + 1 \in 1 .. Len(p)
        /\ (Len(p) - ((Len(p) - d) + 1)) + 1 = d
    BY <1>1
  <2> HIDE DEF up, down
  <2>2. QED  BY <1>4, <2>1
<1> HIDE DEF up, down
<1>6. \A d, e \in 1 .. Len(p) : d < e => up[d] # up[e] /\ IsPrefix(up[d], up[e])
  <2> SUFFICES ASSUME NEW d \in 1 .. Len(p), NEW e \in 1 .. Len(p), d < e
               PROVE  up[d] # up[e] /\ IsPrefix(up[d], up[e])
    OBVIOUS
  <2>1. Len(up[d]) = d /\ Len(up[e]) = e /\ d <= e  BY <1>4
  <2>2. QED  BY <1>1, <1>4, <2>1, PrefixOrder
<1>7. \A d \in 1 .. Len(p) : down[d] \in Paths /\ IsPrefix(down[d], p)
  BY <1>4, <1>5
<1>8. \A d, e \in 1 .. Len(p) : d < e => down[d] # down[e]
  <2> SUFFICES ASSUME NEW d \in 1 .. Len(p), NEW e \in 1 .. Len(p), d < e
               PROVE  down[d] # down[e]
    OBVIOUS
  <2>1. Len(down[d]) = (Len(p) - d) + 1 /\ Len(down[e]) = (Len(p) - e) + 1
    BY <1>4, <1>5
  <2>2. (Len(p) - d) + 1 # (Len(p) - e) + 1  BY <1>1
  <2>3. QED  BY <2>1, <2>2
<1> HIDE DEF K, S, test
<1>9. test[1] = p /\ test[2] # 0  BY <1>1
<1>10. EachOrderedly(s1, "beforeEach", K, test, up, n)
  <2>1. \A d, e \in 1 .. Len(p) : d < e =>
          up[d] # up[e] /\ ("beforeEach" = "beforeEach" => IsPrefix(up[d], up[e]))
    BY <1>6
  <2>2. \A d \in 1 .. Len(p) : up[d] \in Paths /\ IsPrefix(up[d], p)  BY <1>4
  <2>3. QED  BY <1>1, <1>3, <1>9, <2>1, <2>2, EachOrdered
<1>11. EachOrderedly(s3, "afterEach", S, test, down, n)
  <2>1. \A d, e \in 1 .. Len(p) : d < e =>
          down[d] # down[e] /\ ("afterEach" = "beforeEach" => IsPrefix(down[d], down[e]))
    BY <1>8
  <2>2. QED  BY <1>1, <1>3, <1>7, <1>9, <2>1, EachOrdered
<1>12. /\ it \in Item /\ it.run = "test" /\ it.test = test
       /\ WellFormed(it) /\ Rooted(it.test[1])
  BY <1>1, <1>9, PrefixOrder DEF Item, WellFormed
<1> HIDE DEF s1, s3, it, n
<1>13. s2 \in Seq(Item) /\ Len(s2) = 1 /\ s2[1] = it /\ Ordered(s2)
  <2>1. s2 \in Seq(Item) /\ Len(s2) = 1 /\ s2[1] = it  BY <1>12
  <2>2. \A k \in 1 .. Len(s2) : s2[k] = it /\ k = 1  BY <2>1
  <2>3. QED  BY <1>12, <2>1, <2>2 DEF Ordered
<1>14. s1 \in Seq(Item) /\ s3 \in Seq(Item) /\ Ordered(s1) /\ Ordered(s3)
  BY <1>10, <1>11 DEF EachOrderedly
<1>15. ss[1] = s1 /\ ss[2] = s2 /\ ss[3] = s3  OBVIOUS
<1> HIDE DEF s2, ss
<1>16. \A a \in 1 .. Len(ss[1]) : ss[1][a].run = "beforeEach" /\ ss[1][a].test = test
  BY <1>10, <1>15 DEF EachOrderedly
<1>17. \A a \in 1 .. Len(ss[2]) : ss[2][a].run = "test" /\ ss[2][a].test = test
  <2>1. \A a \in 1 .. Len(s2) : s2[a] = it  BY <1>13
  <2>2. QED  BY <1>12, <1>15, <2>1
<1>18. \A a \in 1 .. Len(ss[3]) : ss[3][a].run = "afterEach" /\ ss[3][a].test = test
  BY <1>11, <1>15 DEF EachOrderedly
<1>19. q \in Seq(Item) /\ Enumerated(q, ss, 3)
  <2>1. Enumerated(s1, ss, 1)  BY <1>14, <1>15, OneBlock
  <2>2. s1 \o s2 \in Seq(Item) /\ Enumerated(s1 \o s2, ss, 2)
    <3>1. 1 \in Nat /\ ss[1 + 1] = s2  BY <1>15
    <3>2. s1 \o ss[1 + 1] \in Seq(Item) /\ Enumerated(s1 \o ss[1 + 1], ss, 1 + 1)
      BY <1>13, <1>14, <2>1, <3>1, OneMoreBlock
    <3>3. QED  BY <3>1, <3>2
  <2>3. 2 \in Nat /\ ss[2 + 1] = s3  BY <1>15
  <2> DEFINE F == s1 \o s2
  <2> HIDE DEF F
  <2>4. F \o ss[2 + 1] \in Seq(Item) /\ Enumerated(F \o ss[2 + 1], ss, 2 + 1)
    BY <1>14, <2>2, <2>3, OneMoreBlock DEF F
  <2>5. q = F \o ss[2 + 1]  BY <1>2, <2>3 DEF F
  <2>6. QED  BY <2>4, <2>5
<1> HIDE DEF q
<1>20. Blocks(ss, 3)
  <2>1. \A i \in 1 .. 3 : Ordered(ss[i])  BY <1>13, <1>14, <1>15
  <2>2. \A u, w, v : u.test = w.test /\ v.test = w.test => Between(u, w, v)
    BY DEF Between
  <2>3. \A i \in 1 .. 3 : \A a \in 1 .. Len(ss[i]) : ss[i][a].test = test
    BY <1>16, <1>17, <1>18
  <2>4. ASSUME NEW i \in 1 .. 3, NEW j \in 1 .. 3, i < j,
               NEW a \in 1 .. Len(ss[i]), NEW c \in 1 .. Len(ss[j])
        PROVE  Precedes(ss[i][a], ss[j][c])
    <3>1. CASE i = 1
      <4>1. ss[j][c].run \in {"test", "afterEach"}  BY <1>17, <1>18, <2>4, <3>1
      <4>2. ss[i][a].run = "beforeEach"  BY <1>16, <3>1
      <4>3. QED  BY <4>1, <4>2 DEF Precedes
    <3>2. CASE i = 2
      <4>1. ss[i][a].run = "test"  BY <1>17, <3>2
      <4>2. QED  BY <4>1 DEF Precedes
    <3>3. QED  BY <2>4, <3>1, <3>2
  <2>5. ASSUME NEW i \in 1 .. 3, NEW j \in 1 .. 3, NEW m \in 1 .. 3,
               NEW a \in 1 .. Len(ss[i]), NEW c \in 1 .. Len(ss[j]),
               NEW e \in 1 .. Len(ss[m])
        PROVE  Between(ss[i][a], ss[m][e], ss[j][c])
    BY <2>2, <2>3
  <2>6. QED  BY <2>1, <2>4, <2>5 DEF Blocks
<1>21. Len(q) \in Nat  BY <1>19
<1>22. Ordered(q)  BY <1>19, <1>20, <1>21, OrderedBlocks
<1>23. \A k \in 1 .. Len(q) :
         /\ q[k].test = test /\ q[k].run \in {"beforeEach", "test", "afterEach"}
         /\ q[k].run = "afterEach" => SaverComes(q, k)
         /\ RestorerComes(q, k)
  <2> SUFFICES ASSUME NEW k \in 1 .. Len(q)
               PROVE  /\ q[k].test = test
                      /\ q[k].run \in {"beforeEach", "test", "afterEach"}
                      /\ q[k].run = "afterEach" => SaverComes(q, k)
                      /\ RestorerComes(q, k)
    OBVIOUS
  <2>1. \A i \in 1 .. 3 : Len(ss[i]) \in Nat  BY <1>13, <1>14, <1>15
  <2>2. PICK i \in 1 .. 3 : \E a \in 1 .. Len(ss[i]) : AtPlace(q, ss, 3, k, i, a)
    BY <1>19, <1>21, <2>1, BlockOrder
  <2>3. PICK a \in 1 .. Len(ss[i]) :
           /\ q[k] = ss[i][a]
           /\ \A j \in 1 .. 3 : \A c \in 1 .. Len(ss[j]) :
                /\ j < i => \E l \in 1 .. Len(q) : l < k /\ q[l] = ss[j][c]
                /\ i < j => \E l \in 1 .. Len(q) : k < l /\ q[l] = ss[j][c]
    BY <2>2 DEF AtPlace
  <2>4. /\ q[k].test = test
        /\ i = 1 => q[k].run = "beforeEach"
        /\ i = 2 => q[k].run = "test"
        /\ i = 3 => q[k].run = "afterEach"
    BY <1>16, <1>17, <1>18, <2>3
  <2>5. ASSUME q[k].run = "afterEach" PROVE SaverComes(q, k)
    <3>1. i = 3  BY <2>4, <2>5
    <3>2. WellFormed(q[k])  BY <1>22 DEF Ordered
    <3>3. /\ q[k].path \in Paths /\ IsPrefix(q[k].path, p)
          /\ q[k].hook \in DOMAIN hooksOf(q[k].path)
          /\ hooksOf(q[k].path)[q[k].hook].kind = "sandbox"
      BY <1>9, <2>4, <2>5, <3>2 DEF WellFormed, kindsFor, Item
    <3> DEFINE d == Len(q[k].path)
    <3>4. d \in 1 .. Len(p) /\ up[d] = q[k].path
      <4>1. d \in 1 .. Len(p)  BY <1>1, <3>3, PathProperties, PrefixElements
      <4>2. IsPrefix(up[d], p) /\ Len(up[d]) = d /\ up[d] \in Paths  BY <1>4, <4>1
      <4>3. QED  BY <1>1, <3>3, <4>1, <4>2, PrefixOrder
    <3>5. q[k].hook \in someOf(up[d], K)  BY <3>3, <3>4 DEF someOf, K
    <3>6. PICK c \in 1 .. Len(s1) : s1[c] = hookItem("beforeEach", up[d], q[k].hook, test)
      BY <1>10, <3>4, <3>5 DEF EachOrderedly, n
    <3>7. PICK l \in 1 .. Len(q) : l < k /\ q[l] = s1[c]
      <4>1. c \in 1 .. Len(ss[1]) /\ 1 < i /\ 1 \in 1 .. 3  BY <1>15, <3>1, <3>6
      <4>2. \E l \in 1 .. Len(q) : l < k /\ q[l] = ss[1][c]  BY <2>3, <4>1
      <4>3. QED  BY <1>15, <4>2
    <3>8. q[l] = saverOf(q[k])  BY <2>4, <3>4, <3>6, <3>7 DEF saverOf
    <3>9. QED  BY <3>7, <3>8 DEF SaverComes
  <2>6. ASSUME q[k].run = "beforeEach", hookOf(q[k]).kind = "sandbox"
        PROVE  \E l \in 1 .. Len(q) : k < l /\ q[l] = restorerOf(q[k])
    <3>1. i = 1  BY <2>4, <2>6
    <3>2. WellFormed(q[k])  BY <1>22 DEF Ordered
    <3>3. /\ q[k].path \in Paths /\ IsPrefix(q[k].path, p)
          /\ q[k].hook \in DOMAIN hooksOf(q[k].path)
          /\ hooksOf(q[k].path)[q[k].hook].kind = "sandbox"
      BY <1>9, <2>4, <2>6, <3>2 DEF WellFormed, Item, hookOf, hooksOf
    <3> DEFINE d == Len(q[k].path)
               e == (Len(p) - d) + 1
    <3>4. d \in 1 .. Len(p) /\ up[d] = q[k].path
      <4>1. d \in 1 .. Len(p)  BY <1>1, <3>3, PathProperties, PrefixElements
      <4>2. IsPrefix(up[d], p) /\ Len(up[d]) = d /\ up[d] \in Paths  BY <1>4, <4>1
      <4>3. QED  BY <1>1, <3>3, <4>1, <4>2, PrefixOrder
    <3>5. e \in 1 .. Len(p) /\ down[e] = q[k].path
      <4>1. down[(Len(p) - d) + 1] = up[d]  BY <1>4, <3>4
      <4>2. e \in 1 .. Len(p)  BY <1>1, <3>4
      <4>3. QED  BY <3>4, <4>1, <4>2
    <3> HIDE DEF d, e
    <3>6. q[k].hook \in someOf(down[e], S)  BY <3>3, <3>5 DEF someOf, S
    <3>7. PICK c \in 1 .. Len(s3) : s3[c] = hookItem("afterEach", down[e], q[k].hook, test)
      BY <1>11, <3>5, <3>6 DEF EachOrderedly, n
    <3>8. PICK l \in 1 .. Len(q) : k < l /\ q[l] = s3[c]
      <4>1. c \in 1 .. Len(ss[3]) /\ i < 3 /\ 3 \in 1 .. 3  BY <1>15, <3>1, <3>7
      <4>2. \E l \in 1 .. Len(q) : k < l /\ q[l] = ss[3][c]  BY <2>3, <4>1
      <4>3. QED  BY <1>15, <4>2
    <3>9. q[l] = restorerOf(q[k])  BY <2>4, <3>5, <3>7, <3>8 DEF restorerOf
    <3>10. QED  BY <3>8, <3>9
  <2>7. RestorerComes(q, k)  BY <2>6 DEF RestorerComes
  <2>8. QED  BY <2>4, <2>5, <2>7
<1>24. QED  BY <1>19, <1>22, <1>23 DEF TestSchedule, q, test

\* A hook that comes in a block comes in the whole.
LEMMA SaverInBlock ==
  ASSUME NEW F, NEW ss, NEW n, NEW k, NEW i \in 1 .. n, NEW a \in 1 .. Len(ss[i]),
         AtPlace(F, ss, n, k, i, a), SaverComes(ss[i], a)
  PROVE  SaverComes(F, k)
<1>1. PICK c \in 1 .. Len(ss[i]) : c < a /\ ss[i][c] = saverOf(ss[i][a])
  BY DEF SaverComes
<1>2. F[k] = ss[i][a]  BY DEF AtPlace
<1>3. \E l \in 1 .. Len(F) : l < k /\ F[l] = ss[i][c]  BY <1>1 DEF AtPlace
<1>4. QED  BY <1>1, <1>2, <1>3 DEF SaverComes

LEMMA RestorerInBlock ==
  ASSUME NEW F, NEW ss, NEW n, NEW k, NEW i \in 1 .. n, NEW a \in 1 .. Len(ss[i]),
         AtPlace(F, ss, n, k, i, a), RestorerComes(ss[i], a)
  PROVE  RestorerComes(F, k)
<1>1. F[k] = ss[i][a]  BY DEF AtPlace
<1>2. SUFFICES ASSUME F[k].run = "beforeEach", hookOf(F[k]).kind = "sandbox"
               PROVE  \E l \in 1 .. Len(F) : k < l /\ F[l] = restorerOf(F[k])
  BY DEF RestorerComes
<1>3. PICK c \in 1 .. Len(ss[i]) : a < c /\ ss[i][c] = restorerOf(ss[i][a])
  BY <1>1, <1>2 DEF RestorerComes
<1>4. \E l \in 1 .. Len(F) : k < l /\ F[l] = ss[i][c]  BY <1>3 DEF AtPlace
<1>5. QED  BY <1>1, <1>3, <1>4

LEMMA AfterInBlock ==
  ASSUME NEW F, NEW ss, NEW n, NEW k, NEW i \in 1 .. n, NEW a \in 1 .. Len(ss[i]),
         AtPlace(F, ss, n, k, i, a), AfterComes(ss[i], a)
  PROVE  AfterComes(F, k)
<1>1. F[k] = ss[i][a]  BY DEF AtPlace
<1>2. SUFFICES ASSUME F[k].run = "beforeEach", hookOf(F[k]).kind = "cache"
               PROVE  \E l \in 1 .. Len(F) : k < l /\ F[l] = afterOf(F[k])
  BY DEF AfterComes
<1>3. PICK c \in 1 .. Len(ss[i]) : a < c /\ ss[i][c] = afterOf(ss[i][a])
  BY <1>1, <1>2 DEF AfterComes
<1>4. \E l \in 1 .. Len(F) : k < l /\ F[l] = ss[i][c]  BY <1>3 DEF AtPlace
<1>5. QED  BY <1>1, <1>3, <1>4

\* The tests of a suite.
TestsSchedule(q, p) ==
  /\ q \in Seq(Item) /\ Ordered(q)
  /\ \A k \in 1 .. Len(q) :
       /\ q[k].test[1] = p /\ q[k].test[2] # 0
       /\ q[k].run \in {"beforeEach", "test", "afterEach"}
       /\ q[k].run = "afterEach" => SaverComes(q, k)
       /\ RestorerComes(q, k)

LEMMA TestBlocksOrdered ==
  ASSUME NEW p \in Paths, NEW n \in Nat, NEW ss \in [1 .. n -> Seq(Item)],
         \A t \in 1 .. n : TestSchedule(ss[t], <<p, t>>)
  PROVE  TestsSchedule(FlattenSeq(ss), p)
<1> DEFINE q == FlattenSeq(ss)
<1>1. q \in Seq(Item) /\ Enumerated(q, ss, n)  BY FlattenBlocks
<1> HIDE DEF q
<1>2. \A t \in 1 .. n :
        /\ ss[t] \in Seq(Item) /\ Ordered(ss[t])
        /\ \A a \in 1 .. Len(ss[t]) :
             /\ ss[t][a].test = <<p, t>>
             /\ ss[t][a].run \in {"beforeEach", "test", "afterEach"}
             /\ ss[t][a].run = "afterEach" => SaverComes(ss[t], a)
             /\ RestorerComes(ss[t], a)
  BY DEF TestSchedule
<1>3. Blocks(ss, n)
  <2> SUFFICES ASSUME NEW i \in 1 .. n, NEW j \in 1 .. n, i < j,
                      NEW a \in 1 .. Len(ss[i]), NEW c \in 1 .. Len(ss[j])
               PROVE  /\ Precedes(ss[i][a], ss[j][c])
                      /\ \A m \in 1 .. n : \A e \in 1 .. Len(ss[m]) :
                           Between(ss[i][a], ss[m][e], ss[j][c])
    BY <1>2 DEF Blocks
  <2>1. /\ ss[i][a].test = <<p, i>> /\ ss[j][c].test = <<p, j>>
        /\ ss[i][a].run # "after" /\ i # j
    <3>1. ss[i][a].run \in {"beforeEach", "test", "afterEach"}  BY <1>2
    <3>2. i # j  OBVIOUS
    <3>3. QED  BY <1>2, <3>1, <3>2
  <2>2. ss[i][a].test # ss[j][c].test  BY <2>1
  <2>3. Precedes(ss[i][a], ss[j][c])  BY <2>1, <2>2 DEF Precedes
  <2>4. ASSUME NEW m \in 1 .. n, NEW e \in 1 .. Len(ss[m])
        PROVE  Between(ss[i][a], ss[m][e], ss[j][c])
    <3>1. ss[m][e].test = <<p, m>>  BY <1>2
    <3>2. ss[m][e].test[1] = p /\ ss[i][a].test[1] = p  BY <2>1, <3>1
    <3>3. QED  BY <2>2, <3>2 DEF Between
  <2>5. QED  BY <2>3, <2>4
<1>4. Len(q) \in Nat  BY <1>1
<1>5. Ordered(q)  BY <1>1, <1>3, <1>4, OrderedBlocks
<1>6. ASSUME NEW k \in 1 .. Len(q)
      PROVE  /\ q[k].test[1] = p /\ q[k].test[2] # 0
             /\ q[k].run \in {"beforeEach", "test", "afterEach"}
             /\ q[k].run = "afterEach" => SaverComes(q, k)
             /\ RestorerComes(q, k)
  <2>1. \A t \in 1 .. n : Len(ss[t]) \in Nat  BY <1>2
  <2>2. PICK t \in 1 .. n : \E a \in 1 .. Len(ss[t]) : AtPlace(q, ss, n, k, t, a)
    BY <1>1, <1>4, <2>1, BlockOrder
  <2>3. PICK a \in 1 .. Len(ss[t]) : AtPlace(q, ss, n, k, t, a)  BY <2>2
  <2>4. q[k] = ss[t][a]  BY <2>3 DEF AtPlace
  <2>5. q[k].run = "afterEach" => SaverComes(q, k)
    <3>1. q[k].run = "afterEach" => SaverComes(ss[t], a)  BY <1>2, <2>4
    <3>2. QED  BY <2>3, <3>1, SaverInBlock
  <2>6. q[k].test = <<p, t>> /\ q[k].run \in {"beforeEach", "test", "afterEach"}
    BY <1>2, <2>4
  <2>7. RestorerComes(q, k)
    <3>1. RestorerComes(ss[t], a)  BY <1>2
    <3>2. QED  BY <2>3, <3>1, RestorerInBlock
  <2>8. QED  BY <2>5, <2>6, <2>7
<1>7. QED  BY <1>1, <1>5, <1>6 DEF TestsSchedule, q

\* A suite with what is nested in it.
SuiteSchedule(q, p) ==
  /\ q \in Seq(Item) /\ Ordered(q)
  /\ \A k \in 1 .. Len(q) :
       /\ IsPrefix(p, q[k].test[1])
       /\ q[k].run = "afterEach" => SaverComes(q, k)
       /\ RestorerComes(q, k)
       /\ IsPrefix(p, q[k].path) => AfterComes(q, k)

ChildrenSchedule(q, p) ==
  /\ q \in Seq(Item) /\ Ordered(q)
  /\ \A k \in 1 .. Len(q) :
       /\ IsPrefix(p, q[k].test[1]) /\ q[k].test[1] # p
       /\ q[k].run = "afterEach" => SaverComes(q, k)
       /\ RestorerComes(q, k)
       /\ IsPrefix(p, q[k].path) /\ q[k].path # p => AfterComes(q, k)

LEMMA ChildBlocksOrdered ==
  ASSUME NEW p \in Paths, NEW children \in Seq(Suite), IsInjective(children),
         NEW ss \in [DOMAIN children -> Seq(Item)],
         \A c \in DOMAIN children : SuiteSchedule(ss[c], Append(p, children[c]))
  PROVE  ChildrenSchedule(FlattenSeq(ss), p)
<1> DEFINE q == FlattenSeq(ss)
           n == Len(children)
           P == [c \in 1 .. n |-> Append(p, children[c])]
<1>1. n \in Nat /\ DOMAIN children = 1 .. n /\ \A c \in 1 .. n : children[c] \in Suite
  OBVIOUS
<1>2. q \in Seq(Item) /\ Enumerated(q, ss, n)  BY <1>1, FlattenBlocks
<1> HIDE DEF q
<1>3. \A c \in 1 .. n :
        /\ P[c] \in Paths /\ Len(P[c]) = Len(p) + 1 /\ IsPrefix(p, P[c])
        /\ Last(P[c]) = children[c]
  BY <1>1, PrefixOfChild
<1>4. \A c \in 1 .. n : SuiteSchedule(ss[c], P[c])  BY <1>1
<1>5. \A c, d \in 1 .. n : P[c] = P[d] => c = d
  BY <1>1, <1>3 DEF IsInjective
<1> HIDE DEF P, n
<1>6. \A c \in 1 .. n :
        /\ ss[c] \in Seq(Item) /\ Ordered(ss[c])
        /\ \A a \in 1 .. Len(ss[c]) :
             /\ WellFormed(ss[c][a]) /\ Rooted(ss[c][a].test[1])
             /\ IsPrefix(P[c], ss[c][a].test[1])
             /\ ss[c][a].run = "afterEach" => SaverComes(ss[c], a)
             /\ RestorerComes(ss[c], a)
             /\ IsPrefix(P[c], ss[c][a].path) => AfterComes(ss[c], a)
  BY <1>4 DEF SuiteSchedule, Ordered
<1>7. Len(p) \in Nat  BY PathProperties
<1>8. Blocks(ss, n)
  <2> SUFFICES ASSUME NEW i \in 1 .. n, NEW j \in 1 .. n, i < j,
                      NEW a \in 1 .. Len(ss[i]), NEW c \in 1 .. Len(ss[j])
               PROVE  /\ Precedes(ss[i][a], ss[j][c])
                      /\ \A m \in 1 .. n : \A e \in 1 .. Len(ss[m]) :
                           Between(ss[i][a], ss[m][e], ss[j][c])
    BY <1>6 DEF Blocks
  <2> DEFINE u == ss[i][a]
             v == ss[j][c]
  <2>1. /\ WellFormed(u) /\ u.test[1] \in Paths /\ IsPrefix(P[i], u.test[1])
        /\ v.test[1] \in Paths /\ IsPrefix(P[j], v.test[1])
    BY <1>6 DEF Rooted
  <2> HIDE DEF u, v
  <2>2. \A r \in Paths : IsPrefix(P[i], r) => ~ IsPrefix(r, v.test[1])
    <3> SUFFICES ASSUME NEW r \in Paths, IsPrefix(P[i], r), IsPrefix(r, v.test[1])
                 PROVE  FALSE
      OBVIOUS
    <3>1. P[i] \in Paths /\ P[j] \in Paths /\ Len(P[i]) = Len(P[j])  BY <1>3
    <3>2. IsPrefix(P[i], v.test[1])  BY <2>1, <3>1, PrefixOrder
    <3>3. Len(P[i]) <= Len(P[j])  BY <1>3, <1>7
    <3>4. IsPrefix(P[i], P[j])  BY <2>1, <3>1, <3>2, <3>3, PrefixOrder
    <3>5. P[i] = P[j]  BY <3>1, <3>4, PrefixOrder
    <3>6. QED  BY <1>5, <3>5
  <2>3. u.test[1] # v.test[1]  BY <2>1, <2>2, PrefixOrder
  <2>4. u.run = "after" => ~ IsPrefix(u.path, v.test[1])
    <3>1. u.run = "after" => u.test[1] = u.path  BY <2>1 DEF WellFormed
    <3>2. QED  BY <2>1, <2>2, <3>1
  <2>5. Precedes(u, v)
    <3>1. u.test # v.test  BY <2>3
    <3>2. QED  BY <2>4, <3>1 DEF Precedes
  <2>6. ASSUME NEW m \in 1 .. n, NEW e \in 1 .. Len(ss[m])
        PROVE  Between(u, ss[m][e], v)
    <3>1. ASSUME NEW r \in Paths, IsPrefix(r, u.test[1]), IsPrefix(r, v.test[1])
          PROVE  IsPrefix(r, ss[m][e].test[1])
      <4>1. ~ IsPrefix(P[i], r)  BY <2>2, <3>1
      <4>2. P[i] \in Paths /\ Len(P[i]) = Len(p) + 1 /\ IsPrefix(p, P[i])
            /\ Len(r) \in Nat
        BY <1>3, PathProperties
      <4>3. ~ (Len(P[i]) <= Len(r))  BY <2>1, <3>1, <4>1, <4>2, PrefixOrder
      <4>4. Len(r) <= Len(p)  BY <1>7, <4>2, <4>3
      <4>5. IsPrefix(p, u.test[1])  BY <2>1, <4>2, PrefixOrder
      <4>6. IsPrefix(r, p)  BY <2>1, <3>1, <4>4, <4>5, PrefixOrder
      <4>7. /\ IsPrefix(P[m], ss[m][e].test[1]) /\ ss[m][e].test[1] \in Paths
            /\ P[m] \in Paths /\ IsPrefix(p, P[m])
        BY <1>3, <1>6 DEF Rooted
      <4>8. IsPrefix(p, ss[m][e].test[1])  BY <4>7, PrefixOrder
      <4>9. QED  BY <4>6, <4>7, <4>8, PrefixOrder
    <3>2. u.test # v.test  BY <2>3
    <3>3. QED  BY <3>1, <3>2 DEF Between
  <2>7. QED  BY <2>5, <2>6 DEF u, v
<1>9. Len(q) \in Nat  BY <1>2
<1>10. n \in Nat  BY <1>1
<1>11. Ordered(q)  BY <1>2, <1>8, <1>9, <1>10, OrderedBlocks
<1>12. ASSUME NEW k \in 1 .. Len(q)
       PROVE  /\ IsPrefix(p, q[k].test[1]) /\ q[k].test[1] # p
              /\ q[k].run = "afterEach" => SaverComes(q, k)
              /\ RestorerComes(q, k)
              /\ IsPrefix(p, q[k].path) /\ q[k].path # p => AfterComes(q, k)
  <2>1. \A c \in 1 .. n : Len(ss[c]) \in Nat  BY <1>6
  <2>2. PICK c \in 1 .. n : \E a \in 1 .. Len(ss[c]) : AtPlace(q, ss, n, k, c, a)
    BY <1>2, <1>9, <1>10, <2>1, BlockOrder
  <2>3. PICK a \in 1 .. Len(ss[c]) : AtPlace(q, ss, n, k, c, a)  BY <2>2
  <2>4. q[k] = ss[c][a]  BY <2>3 DEF AtPlace
  <2>5. /\ WellFormed(q[k]) /\ q[k].test[1] \in Paths
        /\ IsPrefix(P[c], q[k].test[1])
        /\ P[c] \in Paths /\ Len(P[c]) = Len(p) + 1 /\ IsPrefix(p, P[c])
    <3>1. WellFormed(q[k]) /\ Rooted(q[k].test[1]) /\ IsPrefix(P[c], q[k].test[1])
      BY <1>6, <2>4
    <3>2. q[k].test[1] \in Paths  BY <3>1 DEF Rooted
    <3>3. QED  BY <1>3, <3>1, <3>2
  <2>6. IsPrefix(p, q[k].test[1])  BY <2>5, PrefixOrder
  <2>7. q[k].test[1] # p
    <3>1. Len(P[c]) <= Len(q[k].test[1])  BY <2>5, PrefixOrder
    <3>2. QED  BY <1>7, <2>5, <3>1
  <2>8. q[k].run = "afterEach" => SaverComes(q, k)
    <3>1. q[k].run = "afterEach" => SaverComes(ss[c], a)  BY <1>6, <2>4
    <3>2. QED  BY <2>3, <3>1, SaverInBlock
  <2>9. ASSUME IsPrefix(p, q[k].path), q[k].path # p PROVE AfterComes(q, k)
    <3>1. q[k].path \in Paths /\ IsPrefix(q[k].path, q[k].test[1])
      BY <2>5 DEF WellFormed, Item
    <3>2. Len(q[k].path) \in Nat /\ Len(p) <= Len(q[k].path) /\ Len(p) # Len(q[k].path)
      BY <2>9, <3>1, PathProperties, PrefixOrder
    <3>3. Len(P[c]) <= Len(q[k].path)  BY <1>7, <2>5, <3>2
    <3>4. IsPrefix(P[c], q[k].path)  BY <2>5, <3>1, <3>3, PrefixOrder
    <3>5. AfterComes(ss[c], a)  BY <1>6, <2>4, <3>4
    <3>6. QED  BY <2>3, <3>5, AfterInBlock
  <2>10. RestorerComes(q, k)
    <3>1. RestorerComes(ss[c], a)  BY <1>6
    <3>2. QED  BY <2>3, <3>1, RestorerInBlock
  <2>11. QED  BY <2>6, <2>7, <2>8, <2>9, <2>10
<1>13. QED  BY <1>2, <1>11, <1>12 DEF ChildrenSchedule, q

LEMMA SuiteOrdered ==
  ASSUME NEW p, Rooted(p),
         \A c \in childrenOf(Last(p)) :
           SuiteSchedule(scheduleOf[Append(p, c)], Append(p, c))
  PROVE  SuiteSchedule(scheduleOf[p], p)
<1> DEFINE suite == suites[Last(p)]
           test == <<p, 0>>
           tests == [t \in 1 .. suite.tests |-> scheduleOfTest(<<p, t>>)]
           nested == [c \in DOMAIN suite.children |->
                        scheduleOf[Append(p, suite.children[c])]]
           s1 == itemsOf("before", p, test, {"before"})
           s2 == FlattenSeq(tests)
           s3 == FlattenSeq(nested)
           s4 == itemsOf("after", p, test, {"cache"})
           ss == <<s1, s2, s3, s4>>
           q == scheduleOf[p]
<1>1. /\ p \in Paths /\ Len(p) \in Nat /\ Last(p) \in Suite
      /\ suite.tests \in Nat /\ suite.children \in Seq(Suite)
      /\ IsInjective(suite.children)
  BY PathProperties, SuitesAssumption DEF Rooted
<1>2. q = ((s1 \o s2) \o s3) \o s4  BY <1>1, ScheduleUnfolds DEF expand
<1>3. test \in Paths \X Nat /\ test[1] = p /\ IsPrefix(p, p)
  BY <1>1, PrefixOrder
<1>4. HooksOrdered(s1, "before", p, test, {"before"})
  <2>1. {"before"} = kindsFor["before"]  BY DEF kindsFor
  <2>2. IF "before" \in {"before", "after"} THEN test = <<p, 0>> ELSE test[2] # 0
    OBVIOUS
  <2> HIDE DEF test
  <2>3. QED  BY <1>1, <1>3, <2>1, <2>2, ItemsOrdered
<1>5. HooksOrdered(s4, "after", p, test, {"cache"})
  <2>1. {"cache"} = kindsFor["after"]  BY DEF kindsFor
  <2>2. IF "after" \in {"before", "after"} THEN test = <<p, 0>> ELSE test[2] # 0
    OBVIOUS
  <2> HIDE DEF test
  <2>3. QED  BY <1>1, <1>3, <2>1, <2>2, ItemsOrdered
<1>6. TestsSchedule(s2, p)
  <2>1. \A t \in 1 .. suite.tests : TestSchedule(tests[t], <<p, t>>)
    <3> SUFFICES ASSUME NEW t \in 1 .. suite.tests
                 PROVE  TestSchedule(scheduleOfTest(<<p, t>>), <<p, t>>)
      OBVIOUS
    <3>1. t \in Nat /\ t # 0  BY <1>1
    <3>2. QED  BY <3>1, TestOrdered
  <2>2. \A t \in 1 .. suite.tests : tests[t] \in Seq(Item)
    BY <2>1 DEF TestSchedule
  <2>3. tests \in [1 .. suite.tests -> Seq(Item)]  BY <2>2
  <2> HIDE DEF tests
  <2>4. QED  BY <1>1, <2>1, <2>3, TestBlocksOrdered
<1>7. ChildrenSchedule(s3, p)
  <2>1. \A c \in DOMAIN suite.children :
          SuiteSchedule(nested[c], Append(p, suite.children[c]))
    BY DEF childrenOf, ToSet
  <2>2. \A c \in DOMAIN suite.children : nested[c] \in Seq(Item)
    BY <2>1 DEF SuiteSchedule
  <2>3. nested \in [DOMAIN suite.children -> Seq(Item)]  BY <2>2
  <2> HIDE DEF nested
  <2>4. QED  BY <1>1, <2>1, <2>3, ChildBlocksOrdered
<1> HIDE DEF s1, s2, s3, s4, q, tests, nested
<1>8. /\ s1 \in Seq(Item) /\ s2 \in Seq(Item) /\ s3 \in Seq(Item) /\ s4 \in Seq(Item)
      /\ Ordered(s1) /\ Ordered(s2) /\ Ordered(s3) /\ Ordered(s4)
  BY <1>4, <1>5, <1>6, <1>7 DEF HooksOrdered, TestsSchedule, ChildrenSchedule
<1>9. ss[1] = s1 /\ ss[2] = s2 /\ ss[3] = s3 /\ ss[4] = s4  OBVIOUS
<1> HIDE DEF ss
<1>10. \A i \in 1 .. 4 : ss[i] \in Seq(Item) /\ Len(ss[i]) \in Nat /\ Ordered(ss[i])
  <2> SUFFICES ASSUME NEW i \in 1 .. 4
               PROVE  ss[i] \in Seq(Item) /\ Len(ss[i]) \in Nat /\ Ordered(ss[i])
    OBVIOUS
  <2>1. i = 1 \/ i = 2 \/ i = 3 \/ i = 4  OBVIOUS
  <2>2. ss[i] \in Seq(Item) /\ Ordered(ss[i])  BY <1>8, <1>9, <2>1
  <2>3. QED  BY <2>2
<1>11. q \in Seq(Item) /\ Enumerated(q, ss, 4)
  <2>1. Enumerated(s1, ss, 1)  BY <1>8, <1>9, OneBlock
  <2> DEFINE F2 == s1 \o s2
             F3 == F2 \o s3
  <2>2. F2 \in Seq(Item) /\ Enumerated(F2, ss, 2)
    <3>1. 1 \in Nat /\ ss[1 + 1] = s2 /\ 1 + 1 = 2  BY <1>9
    <3>2. s1 \o ss[1 + 1] \in Seq(Item) /\ Enumerated(s1 \o ss[1 + 1], ss, 1 + 1)
      BY <1>8, <2>1, <3>1, OneMoreBlock
    <3>3. QED  BY <3>1, <3>2
  <2> HIDE DEF F2
  <2>3. F3 \in Seq(Item) /\ Enumerated(F3, ss, 3)
    <3>1. 2 \in Nat /\ ss[2 + 1] = s3 /\ 2 + 1 = 3  BY <1>9
    <3>2. F2 \o ss[2 + 1] \in Seq(Item) /\ Enumerated(F2 \o ss[2 + 1], ss, 2 + 1)
      BY <1>8, <2>2, <3>1, OneMoreBlock
    <3>3. QED  BY <3>1, <3>2
  <2> HIDE DEF F3
  <2>4. F3 \o s4 \in Seq(Item) /\ Enumerated(F3 \o s4, ss, 4)
    <3>1. 3 \in Nat /\ ss[3 + 1] = s4 /\ 3 + 1 = 4  BY <1>9
    <3>2. F3 \o ss[3 + 1] \in Seq(Item) /\ Enumerated(F3 \o ss[3 + 1], ss, 3 + 1)
      BY <1>8, <2>3, <3>1, OneMoreBlock
    <3>3. QED  BY <3>1, <3>2
  <2>5. q = F3 \o s4  BY <1>2 DEF F2, F3
  <2>6. QED  BY <2>4, <2>5
<1>12. \A a \in 1 .. Len(s1) :
         /\ s1[a].run = "before" /\ s1[a].test = test /\ s1[a].path = p
  BY <1>4 DEF HooksOrdered
<1>13. \A a \in 1 .. Len(s2) :
         /\ s2[a].test[1] = p /\ s2[a].test[2] # 0
         /\ s2[a].run \in {"beforeEach", "test", "afterEach"}
         /\ s2[a].run = "afterEach" => SaverComes(s2, a)
         /\ RestorerComes(s2, a)
  BY <1>6 DEF TestsSchedule
<1>14. \A a \in 1 .. Len(s3) :
         /\ IsPrefix(p, s3[a].test[1]) /\ s3[a].test[1] # p
         /\ s3[a].run = "afterEach" => SaverComes(s3, a)
         /\ RestorerComes(s3, a)
         /\ IsPrefix(p, s3[a].path) /\ s3[a].path # p => AfterComes(s3, a)
  BY <1>7 DEF ChildrenSchedule
<1>15. \A a \in 1 .. Len(s4) :
         /\ s4[a].run = "after" /\ s4[a].test = test /\ s4[a].path = p
  BY <1>5 DEF HooksOrdered
<1>16. \A i \in 1 .. 4 : \A a \in 1 .. Len(ss[i]) : IsPrefix(p, ss[i][a].test[1])
  <2> SUFFICES ASSUME NEW i \in 1 .. 4, NEW a \in 1 .. Len(ss[i])
               PROVE  IsPrefix(p, ss[i][a].test[1])
    OBVIOUS
  <2>1. CASE i = 1  BY <1>3, <1>9, <1>12, <2>1
  <2>2. CASE i = 2  BY <1>3, <1>9, <1>13, <2>2
  <2>3. CASE i = 3  BY <1>9, <1>14, <2>3
  <2>4. CASE i = 4  BY <1>3, <1>9, <1>15, <2>4
  <2>5. QED  BY <2>1, <2>2, <2>3, <2>4
<1>17. Blocks(ss, 4)
  <2> SUFFICES ASSUME NEW i \in 1 .. 4, NEW j \in 1 .. 4, i < j,
                      NEW a \in 1 .. Len(ss[i]), NEW c \in 1 .. Len(ss[j])
               PROVE  /\ Precedes(ss[i][a], ss[j][c])
                      /\ \A m \in 1 .. 4 : \A e \in 1 .. Len(ss[m]) :
                           Between(ss[i][a], ss[m][e], ss[j][c])
    BY <1>10 DEF Blocks
  <2> DEFINE u == ss[i][a]
             v == ss[j][c]
  <2>1. /\ i = 1 => u.run = "before" /\ u.test = test
        /\ i = 2 => /\ u.test[1] = p /\ u.test[2] # 0
                    /\ u.run \in {"beforeEach", "test", "afterEach"}
        /\ i = 3 => IsPrefix(p, u.test[1]) /\ u.test[1] # p
    BY <1>9, <1>12, <1>13, <1>14
  <2>2. /\ j = 2 => /\ v.test[1] = p /\ v.test[2] # 0
                    /\ v.run \in {"beforeEach", "test", "afterEach"}
        /\ j = 3 => IsPrefix(p, v.test[1]) /\ v.test[1] # p
        /\ j = 4 => v.run = "after" /\ v.test = test
    BY <1>9, <1>13, <1>14, <1>15
  <2>3. WellFormed(u) /\ u.test[1] \in Paths /\ v.test[1] \in Paths
    BY <1>10 DEF Ordered, Rooted
  <2> HIDE DEF u, v
  <2>4. (i = 1 \/ i = 2 \/ i = 3) /\ (j = 2 \/ j = 3 \/ j = 4)  OBVIOUS
  <2>5. Precedes(u, v)
    <3>1. CASE i = 1  BY <2>1, <3>1 DEF Precedes
    <3>2. CASE i = 2
      <4>1. j = 3 \/ j = 4  BY <2>4, <3>2
      <4>2. u.run # "after"  BY <2>1, <3>2
      <4>3. j = 3 => u.test # v.test  BY <2>1, <2>2, <3>2
      <4>4. j = 4 => v.run = "after"  BY <2>2
      <4>5. QED  BY <4>1, <4>2, <4>3, <4>4 DEF Precedes
    <3>3. CASE i = 3
      <4>1. j = 4  BY <2>4, <3>3
      <4>2. v.run = "after" /\ v.test[1] = p  BY <1>3, <2>2, <4>1
      <4>3. u.run = "after" => ~ IsPrefix(u.path, p)
        <5>1. SUFFICES ASSUME u.run = "after", IsPrefix(u.path, p) PROVE FALSE
          OBVIOUS
        <5>2. u.test[1] = u.path  BY <2>3, <5>1 DEF WellFormed
        <5>3. IsPrefix(u.test[1], p) /\ IsPrefix(p, u.test[1])
          BY <2>1, <3>3, <5>1, <5>2
        <5>4. Len(u.test[1]) <= Len(p) /\ Len(p) <= Len(u.test[1])
          BY <1>1, <2>3, <5>3, PrefixOrder
        <5>5. Len(u.test[1]) = Len(p)  BY <1>1, <2>3, <5>4, PathProperties
        <5>6. u.test[1] = p  BY <1>1, <2>3, <5>3, <5>5, PrefixOrder
        <5>7. QED  BY <2>1, <3>3, <5>6
      <4>4. QED  BY <4>2, <4>3 DEF Precedes
    <3>4. QED  BY <2>4, <3>1, <3>2, <3>3
  <2>6. ASSUME NEW m \in 1 .. 4, NEW e \in 1 .. Len(ss[m])
        PROVE  Between(u, ss[m][e], v)
    <3>1. ASSUME NEW r \in Paths, IsPrefix(r, u.test[1]), IsPrefix(r, v.test[1])
          PROVE  IsPrefix(r, ss[m][e].test[1])
      <4>1. u.test[1] = p \/ v.test[1] = p
        BY <1>3, <2>1, <2>2, <2>4
      <4>2. IsPrefix(r, p)  BY <3>1, <4>1
      <4>3. IsPrefix(p, ss[m][e].test[1]) /\ ss[m][e].test[1] \in Paths
        BY <1>10, <1>16 DEF Ordered, Rooted
      <4>4. QED  BY <1>1, <4>2, <4>3, PrefixOrder
    <3>2. u.test[2] # 0 => u.test # v.test
      <4>1. SUFFICES ASSUME u.test[2] # 0, u.test = v.test PROVE FALSE  OBVIOUS
      <4>2. test[2] = 0  OBVIOUS
      <4>3. i # 1 /\ j # 4  BY <2>1, <2>2, <4>1, <4>2
      <4>4. i = 2 /\ j = 3  BY <2>4, <4>3
      <4>5. QED  BY <2>1, <2>2, <4>1, <4>4
    <3>3. QED  BY <3>1, <3>2 DEF Between
  <2>7. QED  BY <2>5, <2>6 DEF u, v
<1>18. Len(q) \in Nat  BY <1>11
<1>19. Ordered(q)  BY <1>11, <1>17, <1>18, OrderedBlocks
<1>20. ASSUME NEW k \in 1 .. Len(q)
       PROVE  /\ IsPrefix(p, q[k].test[1])
              /\ q[k].run = "afterEach" => SaverComes(q, k)
              /\ RestorerComes(q, k)
              /\ IsPrefix(p, q[k].path) => AfterComes(q, k)
  <2>1. \A i \in 1 .. 4 : Len(ss[i]) \in Nat  BY <1>10
  <2>2. PICK i \in 1 .. 4 : \E a \in 1 .. Len(ss[i]) : AtPlace(q, ss, 4, k, i, a)
    BY <1>11, <1>18, <2>1, BlockOrder
  <2>3. PICK a \in 1 .. Len(ss[i]) : AtPlace(q, ss, 4, k, i, a)  BY <2>2
  <2>4. q[k] = ss[i][a]  BY <2>3 DEF AtPlace
  <2>5. IsPrefix(p, q[k].test[1])  BY <1>16, <2>4
  <2>6. i = 1 \/ i = 2 \/ i = 3 \/ i = 4  OBVIOUS
  <2>7. q[k].run = "afterEach" => SaverComes(q, k)
    <3>1. q[k].run = "afterEach" => SaverComes(ss[i], a)
      BY <1>9, <1>12, <1>13, <1>14, <1>15, <2>4, <2>6
    <3>2. QED  BY <2>3, <3>1, SaverInBlock
  <2>8. ASSUME IsPrefix(p, q[k].path) PROVE AfterComes(q, k)
    <3>1. CASE i = 3 /\ q[k].path # p
      <4>1. AfterComes(ss[i], a)  BY <1>9, <1>14, <2>4, <2>8, <3>1
      <4>2. QED  BY <2>3, <4>1, AfterInBlock
    <3>2. CASE i = 1 \/ i = 4
      <4>1. q[k].run # "beforeEach"  BY <1>9, <1>12, <1>15, <2>4, <3>2
      <4>2. QED  BY <4>1 DEF AfterComes
    <3>3. CASE i = 2 \/ (i = 3 /\ q[k].path = p)
      <4>1. SUFFICES ASSUME q[k].run = "beforeEach", hookOf(q[k]).kind = "cache"
                     PROVE  \E l \in 1 .. Len(q) : k < l /\ q[l] = afterOf(q[k])
        BY DEF AfterComes
      <4>2. WellFormed(q[k])  BY <1>19 DEF Ordered
      <4>3. q[k].path = p
        <5>1. CASE i = 2
          <6>1. q[k].test[1] = p  BY <1>9, <1>13, <2>4, <5>1
          <6>2. IsPrefix(q[k].path, p) /\ q[k].path \in Paths
            BY <4>2, <6>1 DEF WellFormed, Item
          <6>3. Len(q[k].path) <= Len(p) /\ Len(p) <= Len(q[k].path)
            BY <1>1, <2>8, <6>2, PrefixOrder
          <6>4. Len(q[k].path) = Len(p)  BY <1>1, <6>2, <6>3, PathProperties
          <6>5. QED  BY <1>1, <2>8, <6>2, <6>4, PrefixOrder
        <5>2. QED  BY <3>3, <5>1
      <4>4. q[k].hook \in DOMAIN hooksOf(p) /\ hooksOf(p)[q[k].hook].kind = "cache"
        BY <4>1, <4>2, <4>3 DEF WellFormed, hookOf, hooksOf
      <4>5. q[k].hook \in someOf(p, {"cache"})  BY <4>4 DEF someOf
      <4>6. PICK c \in 1 .. Len(s4) : s4[c] = hookItem("after", p, q[k].hook, test)
        BY <1>5, <4>5 DEF HooksOrdered
      <4>7. i < 4 /\ 4 \in 1 .. 4  BY <3>3
      <4>8. \E l \in 1 .. Len(q) : k < l /\ q[l] = ss[4][c]
        BY <1>9, <2>3, <4>7 DEF AtPlace
      <4>9. afterOf(q[k]) = s4[c]  BY <4>3, <4>6 DEF afterOf
      <4>10. QED  BY <1>9, <4>8, <4>9
    <3>4. QED  BY <2>6, <3>1, <3>2, <3>3
  <2>9. RestorerComes(q, k)
    <3>1. RestorerComes(ss[i], a)
      <4>1. CASE i = 1 \/ i = 4
        <5>1. ss[i][a].run # "beforeEach"  BY <1>9, <1>12, <1>15, <4>1
        <5>2. QED  BY <5>1 DEF RestorerComes
      <4>2. CASE i = 2 \/ i = 3  BY <1>9, <1>13, <1>14, <4>2
      <4>3. QED  BY <2>6, <4>1, <4>2
    <3>2. QED  BY <2>3, <3>1, RestorerInBlock
  <2>10. QED  BY <2>5, <2>7, <2>8, <2>9
<1>21. QED  BY <1>11, <1>19, <1>20 DEF SuiteSchedule, q

\* Every file's schedule is ordered, whatever its tree.
LEMMA ScheduleOrdered ==
  ASSUME NEW p, Rooted(p)
  PROVE  SuiteSchedule(scheduleOf[p], p)
<1> DEFINE A == {s \in Suite : \A r \in Paths : Rooted(r) /\ Last(r) = s =>
                                  SuiteSchedule(scheduleOf[r], r)}
<1>1. ASSUME NEW s \in Suite, childrenOf(s) \subseteq A PROVE s \in A
  <2> SUFFICES ASSUME NEW r \in Paths, Rooted(r), Last(r) = s
               PROVE  SuiteSchedule(scheduleOf[r], r)
    OBVIOUS
  <2>1. ASSUME NEW c \in childrenOf(Last(r))
        PROVE  SuiteSchedule(scheduleOf[Append(r, c)], Append(r, c))
    <3>1. c \in A /\ c \in Suite  BY <1>1, <2>1
    <3>2. Rooted(Append(r, c))  BY <3>1, RootedChild
    <3>3. Append(r, c) \in Paths /\ Last(Append(r, c)) = c
      BY <3>1, PathProperties
    <3>4. QED  BY <3>1, <3>2, <3>3
  <2>2. QED  BY <2>1, SuiteOrdered
<1>2. A = Suite
  <2> HIDE DEF A
  <2>1. A \in SUBSET Suite  BY DEF A
  <2>2. QED  BY <1>1, <2>1, TreeInduction
<1>3. p \in Paths /\ Last(p) \in A  BY <1>2, PathProperties DEF Rooted
<1>4. QED  BY <1>3

-----------------------------------------------------------------------------
\* The queue as it runs.
idOf(x) == <<Last(x.path), x.hook>>

\* The suite of a cacheBeforeEach is open: its after hook is to come.
EndsAt(q, id, l) ==
  q[l].run = "after" /\ idOf(q[l]) = id /\ IsPrefix(q[l].path, q[1].test[1])

Open(q, id) == \E l \in 1 .. Len(q) : EndsAt(q, id, l)
Gone(q, id) == \A l \in 1 .. Len(q) : id[1] \notin ToSet(q[l].test[1])

\* What runs is the test of the afterEach hook q[l], inside its sandbox.
Inside(q, l) ==
  \A k \in 1 .. l - 1 :
    /\ q[k].test = q[l].test
    /\ q[k].run = "beforeEach" => IsPrefix(q[l].path, q[k].path)

QueueOK(q) ==
  /\ q \in Seq(Item) /\ Ordered(q)
  /\ \A k \in 1 .. Len(q) : AfterComes(q, k) /\ RestorerComes(q, k)

\* Some of the items after the first, in their order.
Rest(p, q, b) ==
  /\ \A k \in 1 .. Len(p) : b[k] \in 2 .. Len(q) /\ p[k] = q[b[k]]
  /\ \A k, l \in 1 .. Len(p) : k < l => b[k] < b[l]

\* What is left after a hook that threw keeps these items.
Keeps(p, q, b, l) == \E k \in 1 .. Len(p) : b[k] = l

LEMMA ItemFacts ==
  ASSUME NEW q, q \in Seq(Item), Ordered(q), NEW k \in 1 .. Len(q)
  PROVE  /\ q[k] \in Item /\ WellFormed(q[k]) /\ Rooted(q[k].test[1])
         /\ q[k].path \in Paths /\ q[k].test[1] \in Paths
         /\ IsPrefix(q[k].path, q[k].test[1]) /\ Rooted(q[k].path)
         /\ q[k].run \in {"before", "after"} => q[k].test = <<q[k].path, 0>>
         /\ q[k].run \notin {"before", "after"} => q[k].test[2] # 0
         /\ Len(q) \in Nat
<1>1. q[k] \in Item /\ WellFormed(q[k]) /\ Rooted(q[k].test[1]) /\ Len(q) \in Nat
  BY DEF Ordered
<1>2. q[k].path \in Paths /\ q[k].test[1] \in Paths  BY <1>1 DEF Item, Rooted
<1>3. IsPrefix(q[k].path, q[k].test[1])  BY <1>1 DEF WellFormed
<1>4. Rooted(q[k].path)  BY <1>1, <1>2, <1>3, RootedPrefix
<1>5. /\ q[k].run \in {"before", "after"} => q[k].test = <<q[k].path, 0>>
      /\ q[k].run \notin {"before", "after"} => q[k].test[2] # 0
  BY <1>1 DEF WellFormed
<1>6. QED  BY <1>1, <1>2, <1>3, <1>4, <1>5

LEMMA TailRest ==
  ASSUME NEW q, q \in Seq(Item), q # << >>
  PROVE  /\ Tail(q) \in Seq(Item) /\ Len(Tail(q)) = Len(q) - 1
         /\ Head(q) = q[1] /\ 1 \in 1 .. Len(q) /\ Len(q) \in Nat
         /\ \A k \in 1 .. Len(Tail(q)) : k + 1 \in 2 .. Len(q) /\ Tail(q)[k] = q[k + 1]
         /\ \A l \in 2 .. Len(q) : l - 1 \in 1 .. Len(Tail(q)) /\ Tail(q)[l - 1] = q[l]
         /\ \E b : Rest(Tail(q), q, b) /\ \A l \in 2 .. Len(q) : Keeps(Tail(q), q, b, l)
<1>1. /\ Tail(q) \in Seq(Item) /\ Len(Tail(q)) = Len(q) - 1 /\ Head(q) = q[1]
      /\ Len(q) \in Nat /\ Len(q) >= 1 /\ 1 \in 1 .. Len(q)
      /\ \A k \in 1 .. Len(Tail(q)) : Tail(q)[k] = q[k + 1]
  BY HeadTailProperties
<1>2. \A k \in 1 .. Len(Tail(q)) : k + 1 \in 2 .. Len(q) /\ Tail(q)[k] = q[k + 1]
  BY <1>1
<1>3. \A l \in 2 .. Len(q) : l - 1 \in 1 .. Len(Tail(q)) /\ (l - 1) + 1 = l
  BY <1>1
<1>4. \A l \in 2 .. Len(q) : Tail(q)[l - 1] = q[l]
  <2> SUFFICES ASSUME NEW l \in 2 .. Len(q) PROVE Tail(q)[l - 1] = q[l]
    OBVIOUS
  <2>1. Tail(q)[l - 1] = q[(l - 1) + 1]  BY <1>2, <1>3
  <2>2. QED  BY <1>3, <2>1
<1> DEFINE b == [k \in 1 .. Len(Tail(q)) |-> k + 1]
<1>5. Rest(Tail(q), q, b)  BY <1>2 DEF Rest
<1>6. \A l \in 2 .. Len(q) : Keeps(Tail(q), q, b, l)  BY <1>3 DEF Keeps
<1> HIDE DEF b
<1>7. QED  BY <1>1, <1>2, <1>3, <1>4, <1>5, <1>6

LEMMA SurvivorsRest ==
  ASSUME NEW q, q \in Seq(Item), q # << >>
  PROVE  LET p == survivors(Tail(q), q[1])
         IN  /\ p \in Seq(Item)
             /\ \E b : /\ Rest(p, q, b)
                       /\ \A k \in 1 .. Len(p) : survives(p[k], q[1])
                       /\ \A l \in 2 .. Len(q) : survives(q[l], q[1]) => Keeps(p, q, b, l)
<1> DEFINE left == Tail(q)
           p == survivors(left, q[1])
<1>1. /\ left \in Seq(Item) /\ Len(q) \in Nat
      /\ \A k \in 1 .. Len(left) : k + 1 \in 2 .. Len(q) /\ left[k] = q[k + 1]
      /\ \A l \in 2 .. Len(q) : l - 1 \in 1 .. Len(left) /\ left[l - 1] = q[l]
  BY TailRest
<1> HIDE DEF left
<1>2. p \in Seq(Item)  BY <1>1, SurvivorsInOrder
<1>3. PICK c : /\ \A k \in 1 .. Len(p) : /\ c[k] \in 1 .. Len(left)
                                         /\ p[k] = left[c[k]]
                                         /\ survives(p[k], q[1])
               /\ \A k, l \in 1 .. Len(p) : k < l => c[k] < c[l]
               /\ \A i \in 1 .. Len(left) : survives(left[i], q[1]) =>
                    \E k \in 1 .. Len(p) : c[k] = i
  <2>1. Selects(p, surviving(left, q[1]), left)  BY <1>1, SurvivorsInOrder
  <2> HIDE DEF p
  <2>2. PICK c : /\ \A k \in 1 .. Len(p) : c[k] \in surviving(left, q[1]) /\ p[k] = left[c[k]]
                 /\ \A k, l \in 1 .. Len(p) : k < l => c[k] < c[l]
                 /\ \A i \in surviving(left, q[1]) : \E k \in 1 .. Len(p) : c[k] = i
    BY <2>1 DEF Selects
  <2>3. QED  BY <2>2 DEF surviving
<1> HIDE DEF p
<1> DEFINE b == [k \in 1 .. Len(p) |-> c[k] + 1]
<1>4. Rest(p, q, b)
  <2>1. ASSUME NEW k \in 1 .. Len(p) PROVE b[k] \in 2 .. Len(q) /\ p[k] = q[b[k]]
    <3>1. c[k] \in 1 .. Len(left) /\ p[k] = left[c[k]] /\ b[k] = c[k] + 1  BY <1>3
    <3>2. QED  BY <1>1, <3>1
  <2>2. ASSUME NEW k \in 1 .. Len(p), NEW l \in 1 .. Len(p), k < l PROVE b[k] < b[l]
    <3>1. c[k] < c[l] /\ c[k] \in 1 .. Len(left) /\ c[l] \in 1 .. Len(left)  BY <1>3, <2>2
    <3>2. QED  BY <1>1, <3>1
  <2>3. QED  BY <2>1, <2>2 DEF Rest
<1>5. \A l \in 2 .. Len(q) : survives(q[l], q[1]) => Keeps(p, q, b, l)
  <2> SUFFICES ASSUME NEW l \in 2 .. Len(q), survives(q[l], q[1])
               PROVE  Keeps(p, q, b, l)
    OBVIOUS
  <2>1. l - 1 \in 1 .. Len(left) /\ survives(left[l - 1], q[1])  BY <1>1
  <2>2. PICK k \in 1 .. Len(p) : c[k] = l - 1  BY <1>3, <2>1
  <2>3. b[k] = l  BY <1>1, <2>2
  <2>4. QED  BY <2>3 DEF Keeps
<1> HIDE DEF b
<1>6. QED  BY <1>2, <1>3, <1>4, <1>5 DEF p, left

LEMMA RestOrdered ==
  ASSUME NEW q, q \in Seq(Item), Ordered(q), NEW p, p \in Seq(Item), NEW b, Rest(p, q, b)
  PROVE  Ordered(p)
<1>1. /\ \A k \in 1 .. Len(p) : b[k] \in 1 .. Len(q) /\ p[k] = q[b[k]]
      /\ \A k, l \in 1 .. Len(p) : k < l => b[k] < b[l]
  BY DEF Rest
<1>2. \A k \in 1 .. Len(p) : WellFormed(p[k]) /\ Rooted(p[k].test[1])
  BY <1>1 DEF Ordered
<1>3. \A k, l \in 1 .. Len(p) : k < l => Precedes(p[k], p[l])
  <2> SUFFICES ASSUME NEW k \in 1 .. Len(p), NEW l \in 1 .. Len(p), k < l
               PROVE  Precedes(p[k], p[l])
    OBVIOUS
  <2>1. b[k] < b[l]  BY <1>1
  <2>2. QED  BY <1>1, <2>1 DEF Ordered
<1>4. \A k, m, l \in 1 .. Len(p) : k < m /\ m < l => Between(p[k], p[m], p[l])
  <2> SUFFICES ASSUME NEW k \in 1 .. Len(p), NEW m \in 1 .. Len(p),
                      NEW l \in 1 .. Len(p), k < m, m < l
               PROVE  Between(p[k], p[m], p[l])
    OBVIOUS
  <2>1. b[k] < b[m] /\ b[m] < b[l]  BY <1>1
  <2>2. QED  BY <1>1, <2>1 DEF Ordered
<1>5. QED  BY <1>2, <1>3, <1>4 DEF Ordered

LEMMA GoneStays ==
  ASSUME NEW q, NEW p, NEW b, Rest(p, q, b), NEW id, Gone(q, id)
  PROVE  Gone(p, id)
BY DEF Gone, Rest

\* A suite stays open until its after hook ran.
LEMMA OpenStays ==
  ASSUME NEW q, q \in Seq(Item), Ordered(q), NEW p, p \in Seq(Item),
         NEW b, Rest(p, q, b), NEW id, NEW l \in 2 .. Len(q), EndsAt(q, id, l),
         Keeps(p, q, b, l)
  PROVE  Open(p, id)
<1>1. PICK k \in 1 .. Len(p) : b[k] = l  BY DEF Keeps
<1>2. /\ p[k] = q[l] /\ 1 \in 1 .. Len(p) /\ 1 \in 1 .. Len(q) /\ l \in 1 .. Len(q)
      /\ b[1] \in 2 .. Len(q) /\ p[1] = q[b[1]] /\ (1 = k \/ b[1] < l)
  BY <1>1 DEF Rest
<1>3. /\ q[l].path \in Paths /\ q[l].test[1] = q[l].path
      /\ IsPrefix(q[l].path, q[l].test[1]) /\ IsPrefix(q[l].path, q[1].test[1])
  BY <1>2, ItemFacts DEF EndsAt
<1>4. IsPrefix(q[l].path, p[1].test[1])
  <2>1. CASE k = 1  BY <1>2, <1>3, <2>1
  <2>2. CASE b[1] < l
    <3>1. Between(q[1], q[b[1]], q[l])  BY <1>2, <2>2 DEF Ordered
    <3>2. QED  BY <1>2, <1>3, <3>1 DEF Between
  <2>3. QED  BY <1>2, <2>1, <2>2
<1>5. EndsAt(p, id, k)  BY <1>2, <1>4 DEF EndsAt
<1>6. QED  BY <1>5 DEF Open

LEMMA OpenSurvives ==
  ASSUME NEW q, NEW id, NEW l, EndsAt(q, id, l)
  PROVE  survives(q[l], q[1])
BY DEF EndsAt, survives

LEMMA OpenNotGone ==
  ASSUME NEW q, q \in Seq(Item), Ordered(q), NEW id, Open(q, id)
  PROVE  /\ q # << >> /\ id[1] \in ToSet(q[1].test[1])
         /\ ~ Gone(q, id)
<1>1. PICK l \in 1 .. Len(q) : EndsAt(q, id, l)  BY DEF Open
<1>2. 1 \in 1 .. Len(q) /\ q # << >>  OBVIOUS
<1>3. Rooted(q[l].path) /\ Rooted(q[1].test[1]) /\ IsPrefix(q[l].path, q[1].test[1])
  BY <1>1, <1>2, ItemFacts DEF EndsAt
<1>4. Last(q[l].path) \in ToSet(q[1].test[1])  BY <1>3, SuiteOnPath
<1>5. id[1] = Last(q[l].path)  BY <1>1 DEF EndsAt, idOf
<1>6. QED  BY <1>2, <1>4, <1>5 DEF Gone

\* The after hook ends its suite for good.
LEMMA AfterEnds ==
  ASSUME NEW q, q \in Seq(Item), Ordered(q), q # << >>, q[1].run = "after"
  PROVE  Gone(Tail(q), idOf(q[1])) /\ Open(q, idOf(q[1]))
<1>1. /\ 1 \in 1 .. Len(q) /\ Len(q) \in Nat
      /\ \A k \in 1 .. Len(Tail(q)) : k + 1 \in 2 .. Len(q) /\ Tail(q)[k] = q[k + 1]
  BY TailRest
<1>2. Rooted(q[1].path) /\ IsPrefix(q[1].path, q[1].test[1])  BY <1>1, ItemFacts
<1>3. idOf(q[1])[1] = Last(q[1].path)  BY DEF idOf
<1>4. ASSUME NEW k \in 1 .. Len(Tail(q))
      PROVE  idOf(q[1])[1] \notin ToSet(Tail(q)[k].test[1])
  <2>1. k + 1 \in 2 .. Len(q) /\ k + 1 \in 1 .. Len(q) /\ 1 < k + 1
        /\ Tail(q)[k] = q[k + 1]
    BY <1>1
  <2>2. Precedes(q[1], q[k + 1])  BY <1>1, <2>1 DEF Ordered
  <2>3. Rooted(q[k + 1].test[1])  BY <2>1, ItemFacts
  <2>4. ~ IsPrefix(q[1].path, q[k + 1].test[1])  BY <2>2 DEF Precedes
  <2>5. QED  BY <1>2, <1>3, <2>1, <2>3, <2>4, SuiteOnPath
<1>5. EndsAt(q, idOf(q[1]), 1)  BY <1>2 DEF EndsAt
<1>6. QED  BY <1>1, <1>4, <1>5 DEF Gone, Open

\* What a done item leaves.
LEMMA TailOK ==
  ASSUME NEW q, QueueOK(q), q # << >>
  PROVE  QueueOK(Tail(q))
<1>1. PICK b : Rest(Tail(q), q, b)  BY TailRest DEF QueueOK
<1>2. Tail(q) \in Seq(Item) /\ Ordered(Tail(q))
  BY <1>1, TailRest, RestOrdered DEF QueueOK
<1>3. ASSUME NEW k \in 1 .. Len(Tail(q)) PROVE AfterComes(Tail(q), k)
  <2>1. /\ k + 1 \in 2 .. Len(q) /\ k + 1 \in 1 .. Len(q) /\ Tail(q)[k] = q[k + 1]
        /\ \A l \in 2 .. Len(q) : l - 1 \in 1 .. Len(Tail(q)) /\ Tail(q)[l - 1] = q[l]
        /\ Len(q) \in Nat
    BY TailRest DEF QueueOK
  <2>2. AfterComes(q, k + 1)  BY <2>1 DEF QueueOK
  <2>3. SUFFICES ASSUME q[k + 1].run = "beforeEach", hookOf(q[k + 1]).kind = "cache"
                 PROVE  \E l \in 1 .. Len(Tail(q)) : k < l /\ Tail(q)[l] = afterOf(q[k + 1])
    BY <2>1 DEF AfterComes
  <2>4. PICK l \in 1 .. Len(q) : k + 1 < l /\ q[l] = afterOf(q[k + 1])
    BY <2>2, <2>3 DEF AfterComes
  <2>5. l \in 2 .. Len(q) /\ k < l - 1  BY <2>1, <2>4
  <2>6. QED  BY <2>1, <2>4, <2>5
<1>4. ASSUME NEW k \in 1 .. Len(Tail(q)) PROVE RestorerComes(Tail(q), k)
  <2>1. /\ k + 1 \in 2 .. Len(q) /\ k + 1 \in 1 .. Len(q) /\ Tail(q)[k] = q[k + 1]
        /\ \A l \in 2 .. Len(q) : l - 1 \in 1 .. Len(Tail(q)) /\ Tail(q)[l - 1] = q[l]
        /\ Len(q) \in Nat
    BY TailRest DEF QueueOK
  <2>2. RestorerComes(q, k + 1)  BY <2>1 DEF QueueOK
  <2>3. SUFFICES ASSUME q[k + 1].run = "beforeEach", hookOf(q[k + 1]).kind = "sandbox"
                 PROVE  \E l \in 1 .. Len(Tail(q)) :
                          k < l /\ Tail(q)[l] = restorerOf(q[k + 1])
    BY <2>1 DEF RestorerComes
  <2>4. PICK l \in 1 .. Len(q) : k + 1 < l /\ q[l] = restorerOf(q[k + 1])
    BY <2>2, <2>3 DEF RestorerComes
  <2>5. l \in 2 .. Len(q) /\ k < l - 1  BY <2>1, <2>4
  <2>6. QED  BY <2>1, <2>4, <2>5
<1>5. QED  BY <1>2, <1>3, <1>4 DEF QueueOK

\* What a hook that threw leaves.
LEMMA SurvivorsOK ==
  ASSUME NEW q, QueueOK(q), q # << >>, q[1].run \in {"before", "beforeEach"}
  PROVE  QueueOK(survivors(Tail(q), q[1]))
<1> DEFINE p == survivors(Tail(q), q[1])
<1>1. q \in Seq(Item) /\ Ordered(q) /\ 1 \in 1 .. Len(q) /\ Len(q) \in Nat
  BY TailRest DEF QueueOK
<1>2. p \in Seq(Item)  BY <1>1, SurvivorsRest
<1>3. PICK b : /\ Rest(p, q, b)
               /\ \A k \in 1 .. Len(p) : survives(p[k], q[1])
               /\ \A l \in 2 .. Len(q) : survives(q[l], q[1]) => Keeps(p, q, b, l)
  BY <1>1, SurvivorsRest
<1> HIDE DEF p
<1>4. Ordered(p)  BY <1>1, <1>2, <1>3, RestOrdered
<1>5. ASSUME NEW k \in 1 .. Len(p) PROVE AfterComes(p, k)
  <2>1. SUFFICES ASSUME p[k].run = "beforeEach", hookOf(p[k]).kind = "cache"
                 PROVE  \E l \in 1 .. Len(p) : k < l /\ p[l] = afterOf(p[k])
    BY DEF AfterComes
  <2>2. b[k] \in 2 .. Len(q) /\ b[k] \in 1 .. Len(q) /\ p[k] = q[b[k]]
    BY <1>3 DEF Rest
  <2>3. AfterComes(q, b[k])  BY <2>2 DEF QueueOK
  <2>4. PICK l \in 1 .. Len(q) : b[k] < l /\ q[l] = afterOf(p[k])
    BY <2>1, <2>2, <2>3 DEF AfterComes
  <2>5. l \in 2 .. Len(q)  BY <1>1, <2>2, <2>4
  <2>6. survives(q[l], q[1])
    <3>1. survives(p[k], q[1])  BY <1>3
    <3>2. ~ IsPrefix(q[1].path, p[k].test[1])
      BY <2>1, <3>1 DEF survives
    <3>3. p[k].path \in Paths /\ p[k].test[1] \in Paths /\ q[1].path \in Paths
          /\ IsPrefix(p[k].path, p[k].test[1])
      BY <1>1, <1>2, <1>4, ItemFacts
    <3>4. ~ IsPrefix(q[1].path, p[k].path)  BY <3>2, <3>3, PrefixOrder
    <3>5. q[l].test[1] = p[k].path  BY <2>4 DEF afterOf, hookItem
    <3>6. QED  BY <3>4, <3>5 DEF survives
  <2>7. PICK m \in 1 .. Len(p) : b[m] = l  BY <1>3, <2>5, <2>6 DEF Keeps
  <2>8. p[m] = q[l]  BY <1>3, <2>7 DEF Rest
  <2>9. k < m
    <3>1. SUFFICES ASSUME ~ (k < m) PROVE FALSE  OBVIOUS
    <3>2. m = k \/ m < k  BY <1>2, <3>1
    <3>3. b[m] = b[k] \/ b[m] < b[k]  BY <1>3, <3>2 DEF Rest
    <3>4. QED  BY <1>1, <2>2, <2>4, <2>7, <3>3
  <2>10. QED  BY <2>4, <2>8, <2>9
<1>6. ASSUME NEW k \in 1 .. Len(p) PROVE RestorerComes(p, k)
  <2>1. SUFFICES ASSUME p[k].run = "beforeEach", hookOf(p[k]).kind = "sandbox"
                 PROVE  \E l \in 1 .. Len(p) : k < l /\ p[l] = restorerOf(p[k])
    BY DEF RestorerComes
  <2>2. b[k] \in 2 .. Len(q) /\ b[k] \in 1 .. Len(q) /\ p[k] = q[b[k]]
    BY <1>3 DEF Rest
  <2>3. RestorerComes(q, b[k])  BY <2>2 DEF QueueOK
  <2>4. PICK l \in 1 .. Len(q) : b[k] < l /\ q[l] = restorerOf(p[k])
    BY <2>1, <2>2, <2>3 DEF RestorerComes
  <2>5. l \in 2 .. Len(q)  BY <1>1, <2>2, <2>4
  <2>6. survives(q[l], q[1])
    <3>1. survives(p[k], q[1])  BY <1>3
    <3>2. ~ IsPrefix(q[1].path, p[k].test[1])  BY <2>1, <3>1 DEF survives
    <3>3. q[l].test = p[k].test  BY <2>4 DEF restorerOf, hookItem
    <3>4. QED  BY <3>2, <3>3 DEF survives
  <2>7. PICK m \in 1 .. Len(p) : b[m] = l  BY <1>3, <2>5, <2>6 DEF Keeps
  <2>8. p[m] = q[l]  BY <1>3, <2>7 DEF Rest
  <2>9. k < m
    <3>1. SUFFICES ASSUME ~ (k < m) PROVE FALSE  OBVIOUS
    <3>2. m = k \/ m < k  BY <1>2, <3>1
    <3>3. b[m] = b[k] \/ b[m] < b[k]  BY <1>3, <3>2 DEF Rest
    <3>4. QED  BY <1>1, <2>2, <2>4, <2>7, <3>3
  <2>10. QED  BY <2>4, <2>8, <2>9
<1>7. QED  BY <1>2, <1>4, <1>5, <1>6 DEF QueueOK, p

\* The open suites among some hooks.
openAmong(q, ids) == {id \in ids : Open(q, id)}
OpenOrGone(q, ids) == \A id \in ids : Open(q, id) \/ Gone(q, id)

LEMMA OpenAmongSame ==
  ASSUME NEW q, q \in Seq(Item), Ordered(q), NEW p, p \in Seq(Item), Ordered(p),
         NEW ids, OpenOrGone(q, ids),
         \A id \in ids : (Open(q, id) => Open(p, id)) /\ (Gone(q, id) => Gone(p, id))
  PROVE  openAmong(p, ids) = openAmong(q, ids) /\ OpenOrGone(p, ids)
<1>1. ASSUME NEW id \in ids PROVE Open(q, id) <=> Open(p, id)
  <2>1. Open(p, id) => ~ Gone(p, id)  BY OpenNotGone
  <2>2. QED  BY <2>1 DEF OpenOrGone
<1>2. QED  BY <1>1 DEF openAmong, OpenOrGone

LEMMA TailOpen ==
  ASSUME NEW q, QueueOK(q), q # << >>, NEW id
  PROVE  /\ Gone(q, id) => Gone(Tail(q), id)
         /\ Open(q, id) /\ ~ (q[1].run = "after" /\ idOf(q[1]) = id) =>
              Open(Tail(q), id)
<1>1. q \in Seq(Item) /\ Ordered(q)  BY DEF QueueOK
<1>2. Tail(q) \in Seq(Item)  BY <1>1, TailRest
<1>3. PICK b : Rest(Tail(q), q, b) /\ \A l \in 2 .. Len(q) : Keeps(Tail(q), q, b, l)
  BY <1>1, TailRest
<1>4. Gone(q, id) => Gone(Tail(q), id)  BY <1>3, GoneStays
<1>5. ASSUME Open(q, id), ~ (q[1].run = "after" /\ idOf(q[1]) = id)
      PROVE  Open(Tail(q), id)
  <2>1. PICK l \in 1 .. Len(q) : EndsAt(q, id, l)  BY <1>5 DEF Open
  <2>2. l # 1  BY <1>5, <2>1 DEF EndsAt
  <2>3. l \in 2 .. Len(q)  BY <1>1, <2>2
  <2>4. QED  BY <1>1, <1>2, <1>3, <2>1, <2>3, OpenStays
<1>6. QED  BY <1>4, <1>5

LEMMA SurvivorsOpen ==
  ASSUME NEW q, QueueOK(q), q # << >>, q[1].run \in {"before", "beforeEach"}, NEW id
  PROVE  /\ Gone(q, id) => Gone(survivors(Tail(q), q[1]), id)
         /\ Open(q, id) => Open(survivors(Tail(q), q[1]), id)
<1> DEFINE p == survivors(Tail(q), q[1])
<1>1. q \in Seq(Item) /\ Ordered(q)  BY DEF QueueOK
<1>2. p \in Seq(Item)  BY <1>1, SurvivorsRest
<1>3. PICK b : /\ Rest(p, q, b)
               /\ \A l \in 2 .. Len(q) : survives(q[l], q[1]) => Keeps(p, q, b, l)
  BY <1>1, SurvivorsRest
<1> HIDE DEF p
<1>4. Gone(q, id) => Gone(p, id)  BY <1>3, GoneStays
<1>5. ASSUME Open(q, id) PROVE Open(p, id)
  <2>1. PICK l \in 1 .. Len(q) : EndsAt(q, id, l)  BY <1>5 DEF Open
  <2>2. l # 1  BY <2>1 DEF EndsAt
  <2>3. l \in 2 .. Len(q)  BY <1>1, <2>2
  <2>4. Keeps(p, q, b, l)  BY <1>3, <2>1, <2>3, OpenSurvives
  <2>5. QED  BY <1>1, <1>2, <1>3, <2>1, <2>3, <2>4, OpenStays
<1>6. QED  BY <1>4, <1>5 DEF p

-----------------------------------------------------------------------------
\* The sandboxes of the queue.
LEMMA SandboxHook ==
  ASSUME NEW q, QueueOK(q), NEW l \in 1 .. Len(q), q[l].run = "afterEach"
  PROVE  /\ "sandbox" \in kindsIn(Last(q[l].path))
         /\ hookOf(q[l]).kind = "sandbox" /\ q[l].hook \in DOMAIN hooksOf(q[l].path)
         /\ q[l].test[2] # 0
         /\ saverOf(q[l]).path = q[l].path /\ saverOf(q[l]).hook = q[l].hook
         /\ saverOf(q[l]).test = q[l].test /\ saverOf(q[l]).run = "beforeEach"
         /\ hookOf(saverOf(q[l])).kind = "sandbox" /\ idOf(saverOf(q[l])) = idOf(q[l])
<1>1. WellFormed(q[l]) /\ q[l].path \in Paths /\ q[l].test[2] # 0
  BY ItemFacts DEF QueueOK
<1>2. q[l].hook \in DOMAIN hooksOf(q[l].path)
      /\ hooksOf(q[l].path)[q[l].hook].kind = "sandbox"
  BY <1>1 DEF WellFormed, kindsFor
<1>3. "sandbox" \in kindsIn(Last(q[l].path))  BY <1>1, <1>2, KindOfHook
<1>4. QED  BY <1>1, <1>2, <1>3 DEF hookOf, hooksOf, saverOf, hookItem, idOf

\* In a sandbox that saved and is to restore runs no cacheBeforeEach ...
LEMMA NoCacheInside ==
  ASSUME NEW q, QueueOK(q), NEW l \in 1 .. Len(q), q[l].run = "afterEach",
         q[1].run = "beforeEach", hookOf(q[1]).kind = "cache"
  PROVE  ~ Inside(q, l)
<1>1. SUFFICES ASSUME Inside(q, l) PROVE FALSE  OBVIOUS
<1>2. q \in Seq(Item) /\ Ordered(q)  BY DEF QueueOK
<1>3. 1 \in 1 .. Len(q) /\ l # 1 /\ 1 \in 1 .. l - 1  BY <1>2
<1>4. q[1].test = q[l].test /\ IsPrefix(q[l].path, q[1].path)  BY <1>1, <1>3 DEF Inside
<1>5. /\ q[1].path \in Paths /\ q[l].path \in Paths /\ Rooted(q[1].test[1])
      /\ IsPrefix(q[1].path, q[1].test[1]) /\ IsPrefix(q[l].path, q[1].test[1])
      /\ WellFormed(q[1])
  BY <1>2, <1>3, <1>4, ItemFacts
<1>6. "sandbox" \in kindsIn(Last(q[l].path))  BY SandboxHook
<1>7. "cache" \notin kindsIn(Last(q[1].path))  BY <1>4, <1>5, <1>6, SandboxItems
<1>8. q[1].hook \in DOMAIN hooksOf(q[1].path) /\ hooksOf(q[1].path)[q[1].hook].kind = "cache"
  BY <1>5 DEF WellFormed, hookOf, hooksOf
<1>9. "cache" \in kindsIn(Last(q[1].path))  BY <1>5, <1>8, KindOfHook
<1>10. QED  BY <1>7, <1>9

\* ... and it is the only one.
LEMMA OneInside ==
  ASSUME NEW q, QueueOK(q), NEW l \in 2 .. Len(q), q[l].run = "afterEach",
         q[1].run = "afterEach"
  PROVE  ~ Inside(q, l)
<1>1. 1 \in 1 .. Len(q) /\ l \in 1 .. Len(q) /\ 1 < l /\ 1 \in 1 .. l - 1
  BY DEF QueueOK
<1>2. Precedes(q[1], q[l])  BY <1>1 DEF QueueOK, Ordered
<1>3. q[1].test # q[l].test  BY <1>2 DEF Precedes
<1>4. QED  BY <1>1, <1>3 DEF Inside

LEMMA SaverStays ==
  ASSUME NEW q, QueueOK(q), NEW l \in 2 .. Len(q),
         SaverComes(q, l), q[1] # saverOf(q[l])
  PROVE  SaverComes(Tail(q), l - 1)
<1>1. PICK k \in 1 .. Len(q) : k < l /\ q[k] = saverOf(q[l])  BY DEF SaverComes
<1>2. q \in Seq(Item) /\ q # << >>  BY DEF QueueOK
<1>3. k # 1  BY <1>1
<1>4. /\ k \in 2 .. Len(q) /\ k - 1 \in 1 .. Len(Tail(q)) /\ Tail(q)[k - 1] = q[k]
      /\ l - 1 \in 1 .. Len(Tail(q)) /\ Tail(q)[l - 1] = q[l] /\ k - 1 < l - 1
  BY <1>1, <1>2, <1>3, TailRest
<1>5. QED  BY <1>1, <1>4 DEF SaverComes

LEMMA InsideStays ==
  ASSUME NEW q, QueueOK(q), NEW l \in 2 .. Len(q), Inside(q, l)
  PROVE  Inside(Tail(q), l - 1)
<1>1. q \in Seq(Item) /\ q # << >>  BY DEF QueueOK
<1>2. ASSUME NEW k \in 1 .. (l - 1) - 1
      PROVE  /\ Tail(q)[k].test = Tail(q)[l - 1].test
             /\ Tail(q)[k].run = "beforeEach" => IsPrefix(Tail(q)[l - 1].path, Tail(q)[k].path)
  <2>1. Len(q) \in Nat /\ k + 1 \in 2 .. Len(q) /\ k + 1 \in 1 .. l - 1
        /\ (k + 1) - 1 = k
    BY <1>1
  <2>2. Tail(q)[k] = q[k + 1] /\ Tail(q)[l - 1] = q[l]
    BY <1>1, <2>1, TailRest
  <2>3. QED  BY <2>1, <2>2 DEF Inside
<1>3. QED  BY <1>2 DEF Inside

\* Once a sandbox has saved, its test runs inside it.
LEMMA SaverRuns ==
  ASSUME NEW q, QueueOK(q), NEW l \in 2 .. Len(q), q[l].run = "afterEach",
         q[1] = saverOf(q[l])
  PROVE  Inside(Tail(q), l - 1)
<1>1. q \in Seq(Item) /\ q # << >> /\ Ordered(q)  BY DEF QueueOK
<1>2. ASSUME NEW k \in 1 .. (l - 1) - 1
      PROVE  /\ Tail(q)[k].test = Tail(q)[l - 1].test
             /\ Tail(q)[k].run = "beforeEach" => IsPrefix(Tail(q)[l - 1].path, Tail(q)[k].path)
  <2>1. /\ Len(q) \in Nat /\ k + 1 \in 2 .. Len(q) /\ k + 1 \in 1 .. l - 1
        /\ (k + 1) - 1 = k /\ 1 < k + 1 /\ k + 1 < l
        /\ 1 \in 1 .. Len(q) /\ k + 1 \in 1 .. Len(q) /\ l \in 1 .. Len(q)
    BY <1>1
  <2>2. Tail(q)[k] = q[k + 1] /\ Tail(q)[l - 1] = q[l]
    BY <1>1, <2>1, TailRest
  <2>3. Between(q[1], q[k + 1], q[l]) /\ Precedes(q[1], q[k + 1])
    BY <1>1, <2>1 DEF Ordered
  <2>4. /\ q[1].test = q[l].test /\ q[1].path = q[l].path /\ q[1].run = "beforeEach"
        /\ q[1].test[2] # 0
    BY <2>1, SandboxHook
  <2>5. q[k + 1].test = q[l].test  BY <2>3, <2>4 DEF Between
  <2>6. q[k + 1].run = "beforeEach" => IsPrefix(q[l].path, q[k + 1].path)
    BY <2>3, <2>4, <2>5 DEF Precedes
  <2>7. QED  BY <2>2, <2>5, <2>6
<1>3. QED  BY <1>2 DEF Inside

LEMMA InsideSurvives ==
  ASSUME NEW q, QueueOK(q), NEW p, p \in Seq(Item), NEW b, Rest(p, q, b),
         NEW k \in 1 .. Len(p), Inside(q, b[k])
  PROVE  Inside(p, k)
<1>1. Len(q) \in Nat /\ Len(p) \in Nat  BY DEF QueueOK
<1>2. b[k] \in 2 .. Len(q) /\ p[k] = q[b[k]]  BY DEF Rest
<1>3. ASSUME NEW m \in 1 .. k - 1
      PROVE  /\ p[m].test = p[k].test
             /\ p[m].run = "beforeEach" => IsPrefix(p[k].path, p[m].path)
  <2>1. m \in 1 .. Len(p) /\ m < k  BY <1>1
  <2>2. b[m] \in 2 .. Len(q) /\ p[m] = q[b[m]] /\ b[m] < b[k]  BY <2>1 DEF Rest
  <2>3. b[m] \in 1 .. b[k] - 1  BY <1>1, <1>2, <2>2
  <2>4. QED  BY <1>2, <2>2, <2>3 DEF Inside
<1>4. QED  BY <1>3 DEF Inside

-----------------------------------------------------------------------------
\* The sandbox id is saved and not restored yet: its test runs.
InTest(q, id) ==
  \E l \in 1 .. Len(q) : q[l].run = "afterEach" /\ idOf(q[l]) = id /\ Inside(q, l)

LEMMA InTestTail ==
  ASSUME NEW q, QueueOK(q), q # << >>, q[1].run # "afterEach", NEW id, InTest(q, id)
  PROVE  InTest(Tail(q), id)
<1>1. q \in Seq(Item)  BY DEF QueueOK
<1>2. PICK l \in 1 .. Len(q) : q[l].run = "afterEach" /\ idOf(q[l]) = id /\ Inside(q, l)
  BY DEF InTest
<1>3. l \in 2 .. Len(q)  BY <1>1, <1>2
<1>4. Inside(Tail(q), l - 1)  BY <1>2, <1>3, InsideStays
<1>5. l - 1 \in 1 .. Len(Tail(q)) /\ Tail(q)[l - 1] = q[l]  BY <1>1, <1>3, TailRest
<1>6. QED  BY <1>2, <1>4, <1>5 DEF InTest

LEMMA InTestSurvives ==
  ASSUME NEW q, QueueOK(q), q # << >>, q[1].run \in {"before", "beforeEach"},
         NEW id, InTest(q, id)
  PROVE  InTest(survivors(Tail(q), q[1]), id)
<1> DEFINE p == survivors(Tail(q), q[1])
<1>1. q \in Seq(Item) /\ Ordered(q)  BY DEF QueueOK
<1>2. p \in Seq(Item)  BY <1>1, SurvivorsRest
<1>3. PICK b : /\ Rest(p, q, b)
               /\ \A l \in 2 .. Len(q) : survives(q[l], q[1]) => Keeps(p, q, b, l)
  BY <1>1, SurvivorsRest
<1> HIDE DEF p
<1>4. PICK l \in 1 .. Len(q) : q[l].run = "afterEach" /\ idOf(q[l]) = id /\ Inside(q, l)
  BY DEF InTest
<1>5. l \in 2 .. Len(q) /\ 1 \in 1 .. l - 1 /\ 1 \in 1 .. Len(q)  BY <1>1, <1>4
<1>6. /\ q[1].test = q[l].test
      /\ q[1].run = "beforeEach" => IsPrefix(q[l].path, q[1].path)
  BY <1>4, <1>5 DEF Inside
<1>7. q[1].run = "beforeEach"
  <2>1. SUFFICES ASSUME q[1].run = "before" PROVE FALSE  OBVIOUS
  <2>2. q[1].test = <<q[1].path, 0>>  BY <1>1, <1>5, <2>1, ItemFacts
  <2>3. q[l].test[2] # 0  BY <1>4, SandboxHook
  <2>4. QED  BY <1>6, <2>2, <2>3
<1>8. survives(q[l], q[1])  BY <1>4, <1>6, <1>7 DEF survives
<1>9. PICK k \in 1 .. Len(p) : b[k] = l  BY <1>3, <1>5, <1>8 DEF Keeps
<1>10. p[k] = q[l]  BY <1>3, <1>9 DEF Rest
<1>11. Inside(p, k)  BY <1>2, <1>3, <1>4, <1>9, InsideSurvives
<1>12. QED  BY <1>4, <1>10, <1>11 DEF InTest, p

LEMMA InTestSaved ==
  ASSUME NEW q, QueueOK(q), q # << >>,
         q[1].run = "beforeEach", hookOf(q[1]).kind = "sandbox"
  PROVE  InTest(Tail(q), idOf(q[1]))
<1>1. q \in Seq(Item) /\ Ordered(q) /\ 1 \in 1 .. Len(q)  BY TailRest DEF QueueOK
<1>2. RestorerComes(q, 1)  BY <1>1 DEF QueueOK
<1>3. PICK l \in 1 .. Len(q) : 1 < l /\ q[l] = restorerOf(q[1])
  BY <1>2 DEF RestorerComes
<1>4. l \in 2 .. Len(q)  BY <1>1, <1>3
<1>5. /\ q[l].run = "afterEach" /\ q[l].path = q[1].path /\ q[l].hook = q[1].hook
      /\ q[l].test = q[1].test
  BY <1>3 DEF restorerOf, hookItem
<1>6. q[1] = saverOf(q[l])
  <2>1. q[1] \in Item  BY <1>1
  <2>2. q[1] = [run |-> q[1].run, path |-> q[1].path, hook |-> q[1].hook,
                test |-> q[1].test]
    BY <2>1 DEF Item
  <2>3. QED  BY <1>5, <2>2 DEF saverOf, hookItem
<1>7. Inside(Tail(q), l - 1)  BY <1>4, <1>5, <1>6, SaverRuns
<1>8. l - 1 \in 1 .. Len(Tail(q)) /\ Tail(q)[l - 1] = q[l]  BY <1>1, <1>4, TailRest
<1>9. idOf(q[l]) = idOf(q[1])  BY <1>5 DEF idOf
<1>10. QED  BY <1>5, <1>7, <1>8, <1>9 DEF InTest

LEMMA InTestRestored ==
  ASSUME NEW q, QueueOK(q), q # << >>, q[1].run = "afterEach", NEW id, InTest(q, id)
  PROVE  id = idOf(q[1])
<1>1. PICK l \in 1 .. Len(q) : q[l].run = "afterEach" /\ idOf(q[l]) = id /\ Inside(q, l)
  BY DEF InTest
<1>2. l \notin 2 .. Len(q)  BY <1>1, OneInside
<1>3. l = 1  BY <1>2 DEF QueueOK
<1>4. QED  BY <1>1, <1>3

LEMMA InTestCache ==
  ASSUME NEW q, QueueOK(q), q[1].run = "beforeEach", hookOf(q[1]).kind = "cache", NEW id
  PROVE  ~ InTest(q, id)
BY NoCacheInside DEF InTest

\* Of the snapshots the sandboxes saved the node only has those whose test runs,
\* and they are above the whole stack.
Above(x, stack) == \A i \in 1 .. Len(stack) : stack[i] < x

Live(q, saved, ids, stack) ==
  \A id \in DOMAIN saved :
    saved[id] \in ids => InTest(q, id) /\ Above(saved[id], stack)

Given(saved, last) == \A id \in DOMAIN saved : saved[id] \in Nat /\ saved[id] <= last

Assigns(g, f, x, value) ==
  /\ DOMAIN g = {x} \cup DOMAIN f /\ g[x] = value
  /\ \A y \in DOMAIN f : y # x => g[y] = f[y]

LEMMA Assigned ==
  ASSUME NEW f, NEW x, NEW value
  PROVE  Assigns(assign(f, x, value), f, x, value)
BY DEF assign, Assigns

-----------------------------------------------------------------------------
\* Where every sandbox comes first, each has saved when it is to restore.
Kept(q, saved, ids) ==
  \A l \in 1 .. Len(q) : q[l].run = "afterEach" =>
    \/ SaverComes(q, l)
    \/ Inside(q, l) /\ idOf(q[l]) \in DOMAIN saved /\ saved[idOf(q[l])] \in ids

\* In every suite a sandbox is before the hooks that throw for each test.
SandboxFirst ==
  \A suite \in Suite : \A g, h \in DOMAIN suites[suite].hooks :
    g < h /\ suites[suite].hooks[h].kind = "sandbox" =>
      suites[suite].hooks[g].kind = "before"

\* A hook that throws leaves no sandbox to restore that has not saved.
LEMMA SurvivorsInside ==
  ASSUME SandboxFirst, NEW q, QueueOK(q), q # << >>,
         q[1].run \in {"before", "beforeEach"}, hookOf(q[1]).kind # "sandbox",
         NEW p, p \in Seq(Item), NEW b, Rest(p, q, b),
         \A l \in 2 .. Len(q) : survives(q[l], q[1]) => Keeps(p, q, b, l),
         NEW k \in 1 .. Len(p), survives(p[k], q[1]), p[k].run = "afterEach"
  PROVE  /\ b[k] \in 2 .. Len(q) /\ p[k] = q[b[k]]
         /\ SaverComes(q, b[k]) => SaverComes(p, k)
         /\ Inside(q, b[k]) => Inside(p, k)
<1>1. /\ q \in Seq(Item) /\ Ordered(q) /\ 1 \in 1 .. Len(q) /\ Len(q) \in Nat
      /\ Len(p) \in Nat
  BY TailRest DEF QueueOK
<1>2. b[k] \in 2 .. Len(q) /\ b[k] \in 1 .. Len(q) /\ p[k] = q[b[k]]
  BY DEF Rest
<1> DEFINE l == b[k]
<1>3. ASSUME SaverComes(q, l) PROVE SaverComes(p, k)
  <2>1. PICK j \in 1 .. Len(q) : j < l /\ q[j] = saverOf(q[l])  BY <1>3 DEF SaverComes
  <2>2. /\ q[j].path = q[l].path /\ q[j].hook = q[l].hook /\ q[j].test = q[l].test
        /\ q[j].run = "beforeEach" /\ hookOf(q[j]).kind = "sandbox"
        /\ q[l].test[2] # 0
        /\ q[j].hook \in DOMAIN hooksOf(q[j].path)
    BY <1>2, <2>1, SandboxHook
  <2>3. j # 1  BY <2>2
  <2>4. j \in 2 .. Len(q) /\ 1 < j  BY <1>1, <2>1, <2>3
  <2>5. survives(q[j], q[1])
    <3>1. CASE ~ IsPrefix(q[1].path, p[k].test[1])
      BY <1>2, <2>2, <3>1 DEF survives
    <3>2. CASE p[k].test = q[1].test /\ IsPrefix(p[k].path, q[1].path)
      <4>1. q[1].run # "before"
        <5>1. SUFFICES ASSUME q[1].run = "before" PROVE FALSE  OBVIOUS
        <5>2. q[1].test = <<q[1].path, 0>>  BY <1>1, <5>1, ItemFacts
        <5>3. q[1].test[2] = 0  BY <5>2
        <5>4. QED  BY <1>2, <2>2, <3>2, <5>3
      <4>2. q[1].run = "beforeEach"  BY <4>1
      <4>3. Precedes(q[1], q[j])  BY <1>1, <2>4 DEF Ordered
      <4>4. IsPrefix(q[1].path, q[j].path) /\ (q[1].path = q[j].path => q[1].hook < q[j].hook)
        BY <1>2, <2>2, <3>2, <4>2, <4>3 DEF Precedes
      <4>5. q[1].path \in Paths /\ q[j].path \in Paths /\ WellFormed(q[1])
        BY <1>1, ItemFacts
      <4>6. IsPrefix(q[j].path, q[1].path)  BY <1>2, <2>2, <3>2
      <4>7. q[1].path = q[j].path
        <5>1. Len(q[1].path) <= Len(q[j].path) /\ Len(q[j].path) <= Len(q[1].path)
          BY <4>4, <4>5, <4>6, PrefixOrder
        <5>2. Len(q[1].path) = Len(q[j].path)  BY <4>5, <5>1, PathProperties
        <5>3. QED  BY <4>4, <4>5, <5>2, PrefixOrder
      <4>8. q[1].hook < q[j].hook  BY <4>4, <4>7
      <4>9. /\ q[1].hook \in DOMAIN hooksOf(q[1].path)
            /\ hooksOf(q[1].path)[q[1].hook].kind \in {"cache", "sandbox", "each"}
        BY <4>2, <4>5 DEF WellFormed, kindsFor
      <4>10. hooksOf(q[1].path)[q[j].hook].kind = "sandbox"
        BY <2>2, <4>7 DEF hookOf, hooksOf
      <4>11. Last(q[1].path) \in Suite  BY <4>5, PathProperties
      <4>12. hooksOf(q[1].path)[q[1].hook].kind = "before"
        BY <2>2, <4>7, <4>8, <4>9, <4>10, <4>11 DEF SandboxFirst, hooksOf
      <4>13. QED  BY <4>9, <4>12
    <3>3. QED  BY <3>1, <3>2 DEF survives
  <2>6. PICK m \in 1 .. Len(p) : b[m] = j  BY <2>4, <2>5 DEF Keeps
  <2>7. p[m] = saverOf(p[k])  BY <1>2, <2>1, <2>6 DEF Rest
  <2>8. m < k
    <3>1. SUFFICES ASSUME ~ (m < k) PROVE FALSE  OBVIOUS
    <3>2. m = k \/ k < m  BY <1>1, <3>1
    <3>3. b[m] = b[k] \/ b[k] < b[m]  BY <3>2 DEF Rest
    <3>4. QED  BY <1>1, <1>2, <2>1, <2>6, <3>3
  <2>9. QED  BY <2>7, <2>8 DEF SaverComes
<1>4. Inside(q, l) => Inside(p, k)  BY InsideSurvives
<1>5. QED  BY <1>2, <1>3, <1>4

LEMMA TailKept ==
  ASSUME NEW q, QueueOK(q), q # << >>, NEW saved, NEW ids, Kept(q, saved, ids),
         q[1].run = "beforeEach" => hookOf(q[1]).kind # "sandbox"
  PROVE  Kept(Tail(q), saved, ids)
<1>1. q \in Seq(Item)  BY DEF QueueOK
<1>2. ASSUME NEW k \in 1 .. Len(Tail(q)), Tail(q)[k].run = "afterEach"
      PROVE  \/ SaverComes(Tail(q), k)
             \/ /\ Inside(Tail(q), k) /\ idOf(Tail(q)[k]) \in DOMAIN saved
                /\ saved[idOf(Tail(q)[k])] \in ids
  <2> DEFINE l == k + 1
  <2>1. /\ l \in 2 .. Len(q) /\ l \in 1 .. Len(q) /\ Tail(q)[k] = q[l] /\ l - 1 = k
    BY <1>1, TailRest
  <2> HIDE DEF l
  <2>2. q[1] # saverOf(q[l])  BY <1>2, <2>1, SandboxHook
  <2>3. \/ SaverComes(q, l)
        \/ Inside(q, l) /\ idOf(q[l]) \in DOMAIN saved /\ saved[idOf(q[l])] \in ids
    BY <1>2, <2>1 DEF Kept
  <2>4. SaverComes(q, l) => SaverComes(Tail(q), k)  BY <2>1, <2>2, SaverStays
  <2>5. Inside(q, l) => Inside(Tail(q), k)  BY <2>1, InsideStays
  <2>6. QED  BY <2>1, <2>3, <2>4, <2>5
<1>3. QED  BY <1>2 DEF Kept

\* While a cacheBeforeEach runs, no sandbox is kept.
LEMMA CacheKept ==
  ASSUME NEW q, QueueOK(q), NEW saved, NEW ids, Kept(q, saved, ids),
         q[1].run = "beforeEach", hookOf(q[1]).kind = "cache", NEW idsNow
  PROVE  Kept(q, saved, idsNow)
BY NoCacheInside DEF Kept

\* When a sandbox has restored, none is kept.
LEMMA RestoredKept ==
  ASSUME NEW q, QueueOK(q), q # << >>, NEW saved, NEW ids, Kept(q, saved, ids),
         q[1].run = "afterEach", NEW idsNow
  PROVE  /\ Kept(Tail(q), saved, idsNow)
         /\ idOf(q[1]) \in DOMAIN saved /\ saved[idOf(q[1])] \in ids
<1>1. q \in Seq(Item) /\ 1 \in 1 .. Len(q)  BY TailRest DEF QueueOK
<1>2. ASSUME NEW k \in 1 .. Len(Tail(q)), Tail(q)[k].run = "afterEach"
      PROVE  SaverComes(Tail(q), k)
  <2> DEFINE l == k + 1
  <2>1. /\ l \in 2 .. Len(q) /\ l \in 1 .. Len(q) /\ Tail(q)[k] = q[l] /\ l - 1 = k
    BY <1>1, TailRest
  <2> HIDE DEF l
  <2>2. q[1] # saverOf(q[l])  BY <1>2, <2>1, SandboxHook
  <2>3. ~ Inside(q, l)  BY <1>2, <2>1, OneInside
  <2>4. SaverComes(q, l)  BY <1>2, <2>1, <2>3 DEF Kept
  <2>5. QED  BY <2>1, <2>2, <2>4, SaverStays
<1>3. ~ SaverComes(q, 1)  BY DEF SaverComes
<1>4. idOf(q[1]) \in DOMAIN saved /\ saved[idOf(q[1])] \in ids  BY <1>1, <1>3 DEF Kept
<1>5. QED  BY <1>2, <1>4 DEF Kept

\* A sandbox saves.
LEMMA SavedKept ==
  ASSUME NEW q, QueueOK(q), q # << >>, NEW saved, NEW ids, Kept(q, saved, ids),
         q[1].run = "beforeEach", hookOf(q[1]).kind = "sandbox",
         NEW x, NEW idsNow, ids \subseteq idsNow, x \in idsNow
  PROVE  Kept(Tail(q), assign(saved, idOf(q[1]), x), idsNow)
<1> DEFINE now == assign(saved, idOf(q[1]), x)
           id0 == idOf(q[1])
<1>1. q \in Seq(Item) /\ Assigns(now, saved, id0, x)  BY Assigned DEF QueueOK
<1> HIDE DEF now, id0
<1>2. id0 \in DOMAIN now /\ now[id0] \in idsNow  BY <1>1 DEF Assigns
<1>3. \A id \in DOMAIN saved : saved[id] \in ids => id \in DOMAIN now /\ now[id] \in idsNow
  <2> SUFFICES ASSUME NEW id \in DOMAIN saved, saved[id] \in ids
               PROVE  id \in DOMAIN now /\ now[id] \in idsNow
    OBVIOUS
  <2>1. CASE id = id0  BY <1>2, <2>1
  <2>2. CASE id # id0  BY <1>1, <2>2 DEF Assigns
  <2>3. QED  BY <2>1, <2>2
<1>4. ASSUME NEW k \in 1 .. Len(Tail(q)), Tail(q)[k].run = "afterEach"
      PROVE  \/ SaverComes(Tail(q), k)
             \/ /\ Inside(Tail(q), k) /\ idOf(Tail(q)[k]) \in DOMAIN now
                /\ now[idOf(Tail(q)[k])] \in idsNow
  <2> DEFINE l == k + 1
  <2>1. /\ l \in 2 .. Len(q) /\ l \in 1 .. Len(q) /\ Tail(q)[k] = q[l] /\ l - 1 = k
    BY <1>1, TailRest
  <2> HIDE DEF l
  <2>2. CASE q[1] = saverOf(q[l])
    <3>1. Inside(Tail(q), k)  BY <1>4, <2>1, <2>2, SaverRuns
    <3>2. idOf(q[l]) = id0  BY <1>4, <2>1, <2>2, SandboxHook DEF id0
    <3>3. QED  BY <1>2, <2>1, <3>1, <3>2
  <2>3. CASE q[1] # saverOf(q[l])
    <3>1. \/ SaverComes(q, l)
          \/ Inside(q, l) /\ idOf(q[l]) \in DOMAIN saved /\ saved[idOf(q[l])] \in ids
      BY <1>4, <2>1 DEF Kept
    <3>2. SaverComes(q, l) => SaverComes(Tail(q), k)  BY <2>1, <2>3, SaverStays
    <3>3. Inside(q, l) => Inside(Tail(q), k)  BY <2>1, InsideStays
    <3>4. QED  BY <1>3, <2>1, <3>1, <3>2, <3>3
  <2>4. QED  BY <2>2, <2>3
<1>5. QED  BY <1>4 DEF Kept, now

LEMMA SurvivorsKept ==
  ASSUME SandboxFirst, NEW q, QueueOK(q), q # << >>,
         q[1].run \in {"before", "beforeEach"}, hookOf(q[1]).kind # "sandbox",
         NEW saved, NEW ids, Kept(q, saved, ids)
  PROVE  Kept(survivors(Tail(q), q[1]), saved, ids)
<1> DEFINE p == survivors(Tail(q), q[1])
<1>1. q \in Seq(Item)  BY DEF QueueOK
<1>2. p \in Seq(Item)  BY <1>1, SurvivorsRest
<1>3. PICK b : /\ Rest(p, q, b)
               /\ \A k \in 1 .. Len(p) : survives(p[k], q[1])
               /\ \A l \in 2 .. Len(q) : survives(q[l], q[1]) => Keeps(p, q, b, l)
  BY <1>1, SurvivorsRest
<1> HIDE DEF p
<1>4. ASSUME NEW k \in 1 .. Len(p), p[k].run = "afterEach"
      PROVE  \/ SaverComes(p, k)
             \/ /\ Inside(p, k) /\ idOf(p[k]) \in DOMAIN saved
                /\ saved[idOf(p[k])] \in ids
  <2>1. /\ b[k] \in 2 .. Len(q) /\ p[k] = q[b[k]]
        /\ SaverComes(q, b[k]) => SaverComes(p, k)
        /\ Inside(q, b[k]) => Inside(p, k)
    BY <1>2, <1>3, <1>4, SurvivorsInside
  <2>2. b[k] \in 1 .. Len(q)  BY <1>1, <2>1
  <2>3. \/ SaverComes(q, b[k])
        \/ /\ Inside(q, b[k]) /\ idOf(q[b[k]]) \in DOMAIN saved
           /\ saved[idOf(q[b[k]])] \in ids
    BY <1>4, <2>2, <2>1 DEF Kept
  <2>4. QED  BY <2>1, <2>3
<1>5. QED  BY <1>4 DEF Kept, p

-----------------------------------------------------------------------------
\* What holds all through a session.
RunnerInv ==
  /\ files \in Seq(Suite)
  /\ \A i \in 1 .. Len(files) : \A suite \in Suite : files[i] \notin childrenOf(suite)
  /\ QueueOK(queue)
  /\ step \in Nat \ {0} /\ (queue = << >> => step = 1)

InitializedInv == IsFiniteSet(initialized) /\ OpenOrGone(queue, initialized)

\* The node has the snapshots of the stack, which go up.
StackOK(stack, ids) ==
  /\ stack \in Seq(Nat)
  /\ \A i \in 1 .. Len(stack) : stack[i] \in ids
  /\ \A i, j \in 1 .. Len(stack) : i < j => stack[i] < stack[j]

StackInv ==
  /\ lastId \in Nat
  /\ \A id \in DOMAIN snapshots : id \in Nat \ {0} /\ id <= lastId
  /\ StackOK(SNAPSHOTS, DOMAIN snapshots)

LengthInv ==
  Len(SNAPSHOTS) =
    Cardinality(openAmong(queue, initialized)) - (IF restoring THEN 1 ELSE 0)

LiveInv ==
  /\ Given(_snapshotId, lastId)
  /\ Live(queue, _snapshotId, DOMAIN snapshots, SNAPSHOTS)

SessionInv == RunnerInv /\ InitializedInv /\ StackInv /\ LengthInv /\ LiveInv

\* What holds as well where every sandbox comes first.
SandboxInv == Kept(queue, _snapshotId, DOMAIN snapshots)

LEMMA ItemRuns ==
  ASSUME RunnerInv, running
  PROVE  /\ QueueOK(queue) /\ queue # << >> /\ queue \in Seq(Item) /\ Ordered(queue)
         /\ item = queue[1] /\ hookId = idOf(queue[1])
         /\ item \in Item /\ WellFormed(item)
<1>1. QueueOK(queue) /\ queue # << >>  BY DEF RunnerInv, running
<1>2. queue \in Seq(Item) /\ Ordered(queue)  BY <1>1 DEF QueueOK
<1>3. item = queue[1] /\ 1 \in 1 .. Len(queue)  BY <1>1, <1>2, TailRest DEF item
<1>4. item \in Item /\ WellFormed(item)  BY <1>2, <1>3, ItemFacts
<1>5. hookId = idOf(queue[1])  BY <1>3 DEF hookId, idOf
<1>6. QED  BY <1>1, <1>2, <1>3, <1>4, <1>5

LEMMA OpenFinite ==
  ASSUME InitializedInv
  PROVE  /\ IsFiniteSet(openAmong(queue, initialized))
         /\ Cardinality(openAmong(queue, initialized)) \in Nat
<1>1. openAmong(queue, initialized) \subseteq initialized  BY DEF openAmong
<1>2. QED  BY <1>1, FS_Subset, FS_CardinalityType DEF InitializedInv

\* A step of a script leaves queue and helpers alone, and no hook is between
\* restoring and saving then.
LEMMA InScript ==
  ASSUME RunnerInv, inScript
  PROVE  /\ running /\ ~ restoring
         /\ item.run \in {"test", "before", "beforeEach"}
         /\ item.run # "test" => hookOf(item).kind # "sandbox"
         /\ item.run = "beforeEach" /\ hookOf(item).kind = "cache" =>
              hookId \notin initialized
<1>1. running /\ step <= Len(script) /\ step \in Nat \ {0}  BY DEF inScript, RunnerInv
<1>2. item \in Item /\ WellFormed(item)  BY <1>1, ItemRuns
<1>3. script # << >>
  <2>1. SUFFICES ASSUME script = << >> PROVE FALSE  OBVIOUS
  <2>2. Len(script) = 0  BY <2>1
  <2>3. QED  BY <1>1, <2>2
<1>4. item.run \in {"before", "beforeEach", "test", "afterEach", "after"}
  BY <1>2 DEF Item
<1>5. item.run # "test" => hookOf(item).kind \in kindsFor[item.run]
  BY <1>2 DEF WellFormed, hookOf, hooksOf
<1>6. item.run # "test" => hookOf(item).kind # "sandbox"  BY <1>3 DEF script
<1>7. item.run # "test" /\ hookOf(item).kind = "cache" =>
        item.run = "beforeEach" /\ hookId \notin initialized
  BY <1>3 DEF script
<1>8. item.run # "afterEach"  BY <1>5, <1>6 DEF kindsFor
<1>9. item.run # "after"  BY <1>5, <1>7 DEF kindsFor
<1>10. ~ restoring  BY <1>7 DEF restoring, runs, initializing
<1>11. QED  BY <1>1, <1>4, <1>6, <1>7, <1>8, <1>9, <1>10

\* The requests of a script and the transactions mined meanwhile.
LEMMA SameKeeps ==
  ASSUME SessionInv, UNCHANGED <<files, queue, helperVars, snapshots, lastId>>,
         step' \in Nat \ {0}, queue = << >> => step' = 1, restoring' = restoring
  PROVE  SessionInv' /\ (SandboxInv => SandboxInv')
<1>1. /\ files' = files /\ queue' = queue /\ initialized' = initialized
      /\ SNAPSHOTS' = SNAPSHOTS /\ _snapshotId' = _snapshotId
      /\ snapshots' = snapshots /\ lastId' = lastId
  BY DEF helperVars
<1>2. RunnerInv'  BY <1>1 DEF SessionInv, RunnerInv
<1>3. InitializedInv'  BY <1>1 DEF SessionInv, InitializedInv
<1>4. StackInv'  BY <1>1 DEF SessionInv, StackInv
<1>5. LengthInv'  BY <1>1 DEF SessionInv, LengthInv
<1>6. LiveInv'  BY <1>1 DEF SessionInv, LiveInv
<1>7. SandboxInv => SandboxInv'  BY <1>1 DEF SandboxInv
<1>8. QED  BY <1>2, <1>3, <1>4, <1>5, <1>6, <1>7 DEF SessionInv

LEMMA ScriptKeeps ==
  ASSUME SessionInv, inScript, goOn, UNCHANGED <<helperVars, snapshots, lastId>>
  PROVE  SessionInv' /\ (SandboxInv => SandboxInv')
<1>1. RunnerInv  BY DEF SessionInv
<1>2. /\ running /\ ~ restoring
      /\ item.run = "beforeEach" /\ hookOf(item).kind = "cache" =>
           hookId \notin initialized
  BY <1>1, InScript
<1>3. step' \in Nat \ {0} /\ files' = files /\ queue' = queue /\ initialized' = initialized
  BY <1>1 DEF RunnerInv, goOn, helperVars
<1>4. item' = item /\ hookId' = hookId /\ running' = running
  BY <1>3 DEF item, hookId, running
<1>5. ~ restoring'
  <2>1. SUFFICES ASSUME restoring' PROVE FALSE  OBVIOUS
  <2>2. item'.run = "beforeEach" /\ hookOf(item').kind = "cache" /\ hookId' \in initialized'
    BY <2>1 DEF restoring, runs, initializing
  <2>3. QED  BY <1>2, <1>3, <1>4, <2>2
<1>6. queue # << >>  BY <1>2 DEF running
<1>7. restoring' = restoring
  <2>1. restoring \in BOOLEAN /\ restoring' \in BOOLEAN  BY DEF restoring, runs, running
  <2>2. QED  BY <1>2, <1>5, <2>1
<1>8. QED  BY <1>3, <1>6, <1>7, SameKeeps

-----------------------------------------------------------------------------
\* The end of an item.
LEMMA DoneRuns ==
  ASSUME RunnerInv, running, done
  PROVE  /\ RunnerInv' /\ ~ restoring' /\ queue' = Tail(queue)
         /\ Tail(queue) \in Seq(Item) /\ Ordered(Tail(queue))
<1>1. queue' = Tail(queue) /\ step' = 1 /\ files' = files  BY DEF done, advance
<1>2. QueueOK(queue) /\ queue # << >>  BY ItemRuns
<1>3. QueueOK(Tail(queue))  BY <1>2, TailOK
<1>4. RunnerInv'  BY <1>1, <1>3 DEF RunnerInv
<1>5. ~ restoring'  BY <1>1 DEF restoring
<1>6. QED  BY <1>1, <1>3, <1>4, <1>5 DEF QueueOK

LEMMA DoneOpen ==
  ASSUME RunnerInv, InitializedInv, running,
         item.run = "after" => hookId \notin initialized
  PROVE  /\ openAmong(Tail(queue), initialized) = openAmong(queue, initialized)
         /\ OpenOrGone(Tail(queue), initialized)
<1>1. /\ QueueOK(queue) /\ queue # << >> /\ queue \in Seq(Item) /\ Ordered(queue)
      /\ item = queue[1] /\ hookId = idOf(queue[1])
  BY ItemRuns
<1>2. QueueOK(Tail(queue))  BY <1>1, TailOK
<1>3. Tail(queue) \in Seq(Item) /\ Ordered(Tail(queue))  BY <1>2 DEF QueueOK
<1>4. \A id \in initialized : /\ Open(queue, id) => Open(Tail(queue), id)
                              /\ Gone(queue, id) => Gone(Tail(queue), id)
  BY <1>1, TailOpen
<1>5. OpenOrGone(queue, initialized)  BY DEF InitializedInv
<1>6. QED  BY <1>1, <1>3, <1>4, <1>5, OpenAmongSame

\* A test, a before or a beforeEach hook that ends.
LEMMA DoneKeeps ==
  ASSUME SessionInv, running, done, ~ restoring,
         item.run = "beforeEach" => hookOf(item).kind # "sandbox",
         item.run = "after" => hookId \notin initialized,
         item.run # "afterEach", UNCHANGED <<helperVars, snapshots, lastId>>
  PROVE  SessionInv' /\ (SandboxInv => SandboxInv')
<1>1. RunnerInv /\ InitializedInv /\ StackInv /\ LengthInv /\ LiveInv
  BY DEF SessionInv
<1>2. RunnerInv' /\ ~ restoring' /\ queue' = Tail(queue)  BY <1>1, DoneRuns
<1>3. /\ initialized' = initialized /\ SNAPSHOTS' = SNAPSHOTS
      /\ _snapshotId' = _snapshotId /\ snapshots' = snapshots /\ lastId' = lastId
  BY DEF helperVars
<1>4. /\ openAmong(Tail(queue), initialized) = openAmong(queue, initialized)
      /\ OpenOrGone(Tail(queue), initialized)
  BY <1>1, DoneOpen
<1>5. InitializedInv'  BY <1>1, <1>2, <1>3, <1>4 DEF InitializedInv
<1>6. StackInv'  BY <1>1, <1>3 DEF StackInv
<1>7. LengthInv'  BY <1>1, <1>2, <1>3, <1>4 DEF LengthInv
<1>8. QueueOK(queue) /\ queue # << >> /\ item = queue[1]  BY <1>1, ItemRuns
<1>9. Live(Tail(queue), _snapshotId, DOMAIN snapshots, SNAPSHOTS)
  BY <1>1, <1>8, InTestTail DEF LiveInv, Live
<1>10. LiveInv'  BY <1>1, <1>2, <1>3, <1>9 DEF LiveInv
<1>11. ASSUME SandboxInv PROVE SandboxInv'
  <2>1. Kept(queue, _snapshotId, DOMAIN snapshots)  BY <1>11 DEF SandboxInv
  <2>2. Kept(Tail(queue), _snapshotId, DOMAIN snapshots)  BY <1>8, <2>1, TailKept
  <2>3. QED  BY <1>2, <1>3, <2>2 DEF SandboxInv
<1>12. QED  BY <1>2, <1>5, <1>6, <1>7, <1>10, <1>11 DEF SessionInv

\* The node's new snapshot is above all others.
LEMMA SavedAbove ==
  ASSUME StackInv, saveSnapshotAsync
  PROVE  /\ lastId' = lastId + 1 /\ lastId \in Nat /\ lastId' \in Nat
         /\ DOMAIN snapshots' = DOMAIN snapshots \cup {lastId + 1}
         /\ \A id \in DOMAIN snapshots' : id \in Nat \ {0} /\ id <= lastId'
         /\ SNAPSHOTS \in Seq(Nat)
         /\ \A i \in 1 .. Len(SNAPSHOTS) : SNAPSHOTS[i] <= lastId
         /\ StackOK(SNAPSHOTS, DOMAIN snapshots')
         /\ StackOK(Append(SNAPSHOTS, lastId + 1), DOMAIN snapshots')
<1>1. /\ lastId' = lastId + 1
      /\ snapshots' = [y \in {lastId + 1} \cup DOMAIN snapshots |->
                         IF y = lastId + 1 THEN Len(chain) ELSE snapshots[y]]
  BY DEF saveSnapshotAsync, savedId, assign
<1>2. DOMAIN snapshots' = DOMAIN snapshots \cup {lastId + 1}  BY <1>1
<1>3. /\ lastId \in Nat
      /\ \A id \in DOMAIN snapshots : id \in Nat \ {0} /\ id <= lastId
      /\ SNAPSHOTS \in Seq(Nat)
      /\ \A i \in 1 .. Len(SNAPSHOTS) : SNAPSHOTS[i] \in DOMAIN snapshots
      /\ \A i, j \in 1 .. Len(SNAPSHOTS) : i < j => SNAPSHOTS[i] < SNAPSHOTS[j]
  BY DEF StackInv, StackOK
<1>4. lastId' \in Nat /\ \A id \in DOMAIN snapshots' : id \in Nat \ {0} /\ id <= lastId'
  BY <1>1, <1>2, <1>3
<1>5. \A i \in 1 .. Len(SNAPSHOTS) : SNAPSHOTS[i] <= lastId  BY <1>3
<1>6. StackOK(SNAPSHOTS, DOMAIN snapshots')  BY <1>2, <1>3 DEF StackOK
<1>7. StackOK(Append(SNAPSHOTS, lastId + 1), DOMAIN snapshots')
  <2> DEFINE stack == Append(SNAPSHOTS, lastId + 1)
             n     == Len(SNAPSHOTS)
  <2>1. /\ stack \in Seq(Nat) /\ n \in Nat /\ Len(stack) = n + 1
        /\ stack[n + 1] = lastId + 1
        /\ \A i \in 1 .. n : stack[i] = SNAPSHOTS[i]
    BY <1>3
  <2> HIDE DEF stack
  <2>2. \A i \in 1 .. Len(stack) : i \in 1 .. n \/ i = n + 1  BY <2>1
  <2>3. \A i \in 1 .. Len(stack) : stack[i] \in DOMAIN snapshots'
    BY <1>2, <1>3, <2>1, <2>2
  <2>4. ASSUME NEW i \in 1 .. Len(stack), NEW j \in 1 .. Len(stack), i < j
        PROVE  stack[i] < stack[j]
    <3>1. i \in 1 .. n  BY <2>1, <2>4
    <3>2. CASE j \in 1 .. n  BY <1>3, <2>1, <2>4, <3>1, <3>2
    <3>3. CASE j = n + 1
      <4>1. SNAPSHOTS[i] \in Nat /\ SNAPSHOTS[i] <= lastId  BY <1>3, <3>1
      <4>2. QED  BY <1>3, <2>1, <3>1, <3>3, <4>1
    <3>4. QED  BY <2>2, <3>2, <3>3
  <2>5. QED  BY <2>1, <2>3, <2>4 DEF StackOK, stack
<1>8. QED  BY <1>1, <1>2, <1>3, <1>4, <1>5, <1>6, <1>7

\* A sandbox saves.
LEMMA SandboxSaveKeeps ==
  ASSUME SessionInv, SandboxSave
  PROVE  SessionInv' /\ (SandboxInv => SandboxInv')
<1>1. RunnerInv /\ InitializedInv /\ StackInv /\ LengthInv /\ LiveInv
  BY DEF SessionInv
<1>2. /\ running /\ item.run = "beforeEach" /\ hookOf(item).kind = "sandbox" /\ done
      /\ saveSnapshotAsync /\ initialized' = initialized /\ SNAPSHOTS' = SNAPSHOTS
      /\ _snapshotId' = assign(_snapshotId, hookId, lastId + 1)
  BY DEF SandboxSave, runs, savedId
<1>3. RunnerInv' /\ ~ restoring' /\ queue' = Tail(queue)  BY <1>1, <1>2, DoneRuns
<1>4. /\ openAmong(Tail(queue), initialized) = openAmong(queue, initialized)
      /\ OpenOrGone(Tail(queue), initialized)
  BY <1>1, <1>2, DoneOpen
<1>5. InitializedInv'  BY <1>1, <1>2, <1>3, <1>4 DEF InitializedInv
<1>6. /\ lastId \in Nat /\ lastId' \in Nat
      /\ DOMAIN snapshots' = DOMAIN snapshots \cup {lastId + 1}
      /\ \A id \in DOMAIN snapshots' : id \in Nat \ {0} /\ id <= lastId'
      /\ SNAPSHOTS \in Seq(Nat)
      /\ \A i \in 1 .. Len(SNAPSHOTS) : SNAPSHOTS[i] <= lastId
      /\ StackOK(SNAPSHOTS, DOMAIN snapshots')
  BY <1>1, <1>2, SavedAbove
<1>7. StackInv'  BY <1>2, <1>6 DEF StackInv
<1>8. ~ restoring  BY <1>2 DEF restoring, runs
<1>9. LengthInv'  BY <1>1, <1>2, <1>3, <1>4, <1>8 DEF LengthInv
<1>10. QueueOK(queue) /\ queue # << >> /\ item = queue[1] /\ hookId = idOf(queue[1])
  BY <1>1, <1>2, ItemRuns
<1>11. queue[1].run = "beforeEach" /\ hookOf(queue[1]).kind = "sandbox"
  BY <1>2, <1>10
<1>12. /\ DOMAIN _snapshotId' = {hookId} \cup DOMAIN _snapshotId
       /\ _snapshotId'[hookId] = lastId + 1
       /\ \A id \in DOMAIN _snapshotId : id # hookId => _snapshotId'[id] = _snapshotId[id]
  <2>1. Assigns(_snapshotId', _snapshotId, hookId, lastId + 1)  BY <1>2, Assigned
  <2>2. QED  BY <2>1 DEF Assigns
<1>13. /\ \A id \in DOMAIN _snapshotId : _snapshotId[id] \in Nat /\ _snapshotId[id] <= lastId
       /\ \A id \in DOMAIN _snapshotId : _snapshotId[id] \in DOMAIN snapshots =>
            InTest(queue, id) /\ Above(_snapshotId[id], SNAPSHOTS)
  BY <1>1 DEF LiveInv, Given, Live
<1>14. Given(_snapshotId', lastId')
  <2>1. lastId' = lastId + 1  BY <1>1, <1>2, SavedAbove
  <2>2. QED  BY <1>6, <1>12, <1>13, <2>1 DEF Given
<1>15. Live(Tail(queue), _snapshotId', DOMAIN snapshots', SNAPSHOTS)
  <2> SUFFICES ASSUME NEW id \in DOMAIN _snapshotId', _snapshotId'[id] \in DOMAIN snapshots'
               PROVE  InTest(Tail(queue), id) /\ Above(_snapshotId'[id], SNAPSHOTS)
    BY DEF Live
  <2>1. CASE id = hookId
    <3>1. InTest(Tail(queue), id)  BY <1>10, <1>11, <2>1, InTestSaved
    <3>2. Above(lastId + 1, SNAPSHOTS)  BY <1>6 DEF Above
    <3>3. QED  BY <1>12, <2>1, <3>1, <3>2
  <2>2. CASE id # hookId
    <3>1. id \in DOMAIN _snapshotId /\ _snapshotId'[id] = _snapshotId[id]
      BY <1>12, <2>2
    <3>2. _snapshotId[id] # lastId + 1
      <4>1. _snapshotId[id] \in Nat /\ _snapshotId[id] <= lastId  BY <1>13, <3>1
      <4>2. QED  BY <1>6, <4>1
    <3>3. _snapshotId[id] \in DOMAIN snapshots  BY <1>6, <3>1, <3>2
    <3>4. InTest(queue, id) /\ Above(_snapshotId[id], SNAPSHOTS)  BY <1>13, <3>1, <3>3
    <3>5. InTest(Tail(queue), id)  BY <1>10, <1>11, <3>4, InTestTail
    <3>6. QED  BY <3>1, <3>4, <3>5
  <2>3. QED  BY <2>1, <2>2
<1>16. LiveInv'  BY <1>2, <1>3, <1>14, <1>15 DEF LiveInv
<1>17. ASSUME SandboxInv PROVE SandboxInv'
  <2>1. Kept(queue, _snapshotId, DOMAIN snapshots)  BY <1>17 DEF SandboxInv
  <2>2. DOMAIN snapshots \subseteq DOMAIN snapshots' /\ lastId + 1 \in DOMAIN snapshots'
    BY <1>6
  <2>3. _snapshotId' = assign(_snapshotId, idOf(queue[1]), lastId + 1)  BY <1>2, <1>10
  <2>4. Kept(Tail(queue), _snapshotId', DOMAIN snapshots')
    BY <1>10, <1>11, <2>1, <2>2, <2>3, SavedKept
  <2>5. QED  BY <1>3, <2>4 DEF SandboxInv
<1>18. QED  BY <1>3, <1>5, <1>7, <1>9, <1>16, <1>17 DEF SessionInv

\* A revert to a snapshot above a stack keeps the stack's.
LEMMA RevertedBelow ==
  ASSUME StackInv, NEW id, id \in DOMAIN snapshots, revertByIdAsync(id),
         NEW stack, StackOK(stack, DOMAIN snapshots),
         \A i \in 1 .. Len(stack) : stack[i] < id
  PROVE  /\ lastId' = lastId
         /\ \A x \in DOMAIN snapshots' : x \in Nat \ {0} /\ x <= lastId
         /\ StackOK(stack, DOMAIN snapshots')
<1>1. lastId' = lastId /\ DOMAIN snapshots' = {j \in DOMAIN snapshots : j < id}
  BY DEF revertByIdAsync
<1>2. QED  BY <1>1 DEF StackInv, StackOK

\* What a sandbox restores is above the whole stack, or gone.
LEMMA SandboxRestoreKeeps ==
  ASSUME SessionInv, SandboxRestore
  PROVE  SessionInv' /\ (SandboxInv => SandboxInv')
<1>1. RunnerInv /\ InitializedInv /\ StackInv /\ LengthInv /\ LiveInv
  BY DEF SessionInv
<1>2. /\ running /\ item.run = "afterEach" /\ done /\ revertByIdAsync(sandboxId)
      /\ initialized' = initialized /\ SNAPSHOTS' = SNAPSHOTS
      /\ _snapshotId' = _snapshotId
  BY DEF SandboxRestore, runs, helperVars
<1>3. RunnerInv' /\ ~ restoring' /\ queue' = Tail(queue)  BY <1>1, <1>2, DoneRuns
<1>4. /\ openAmong(Tail(queue), initialized) = openAmong(queue, initialized)
      /\ OpenOrGone(Tail(queue), initialized)
  BY <1>1, <1>2, DoneOpen
<1>5. InitializedInv'  BY <1>1, <1>2, <1>3, <1>4 DEF InitializedInv
<1>6. /\ QueueOK(queue) /\ queue # << >> /\ queue[1].run = "afterEach"
      /\ hookId = idOf(queue[1])
  BY <1>1, <1>2, ItemRuns
<1>7. StackOK(SNAPSHOTS, DOMAIN snapshots) /\ 0 \notin DOMAIN snapshots
  BY <1>1 DEF StackInv
<1>8. /\ \A id \in DOMAIN _snapshotId : _snapshotId[id] \in Nat /\ _snapshotId[id] <= lastId
      /\ \A id \in DOMAIN _snapshotId : _snapshotId[id] \in DOMAIN snapshots =>
           InTest(queue, id) /\ Above(_snapshotId[id], SNAPSHOTS)
  BY <1>1 DEF LiveInv, Given, Live
<1>9. sandboxId \in DOMAIN snapshots =>
        hookId \in DOMAIN _snapshotId /\ Above(sandboxId, SNAPSHOTS)
  BY <1>7, <1>8 DEF sandboxId
<1>10. /\ lastId' = lastId /\ \A x \in DOMAIN snapshots' : x \in Nat \ {0} /\ x <= lastId
       /\ StackOK(SNAPSHOTS, DOMAIN snapshots')
  <2>1. CASE sandboxId \in DOMAIN snapshots
    <3>1. \A i \in 1 .. Len(SNAPSHOTS) : SNAPSHOTS[i] < sandboxId
      BY <1>9, <2>1 DEF Above
    <3>2. QED  BY <1>1, <1>2, <1>7, <2>1, <3>1, RevertedBelow
  <2>2. CASE sandboxId \notin DOMAIN snapshots
    <3>1. snapshots' = snapshots /\ lastId' = lastId
      BY <1>2, <2>2 DEF revertByIdAsync
    <3>2. QED  BY <1>1, <3>1 DEF StackInv
  <2>3. QED  BY <2>1, <2>2
<1>11. StackInv'  BY <1>1, <1>2, <1>10 DEF StackInv
<1>12. ~ restoring  BY <1>2 DEF restoring, runs
<1>13. LengthInv'  BY <1>1, <1>2, <1>3, <1>4, <1>12 DEF LengthInv
<1>14. sandboxId \notin DOMAIN snapshots' /\ DOMAIN snapshots' \subseteq DOMAIN snapshots
  <2>1. CASE sandboxId \in DOMAIN snapshots
    <3>1. DOMAIN snapshots' = {j \in DOMAIN snapshots : j < sandboxId}
      BY <1>2, <2>1 DEF revertByIdAsync
    <3>2. sandboxId \in Nat  BY <1>1, <2>1 DEF StackInv
    <3>3. QED  BY <3>1, <3>2
  <2>2. CASE sandboxId \notin DOMAIN snapshots
    BY <1>2, <2>2 DEF revertByIdAsync
  <2>3. QED  BY <2>1, <2>2
<1>15. ASSUME NEW id \in DOMAIN _snapshotId PROVE _snapshotId[id] \notin DOMAIN snapshots'
  <2>1. SUFFICES ASSUME _snapshotId[id] \in DOMAIN snapshots' PROVE FALSE  OBVIOUS
  <2>2. InTest(queue, id)  BY <1>8, <1>14, <2>1
  <2>3. id = hookId  BY <1>6, <2>2, InTestRestored
  <2>4. sandboxId = _snapshotId[id]  BY <2>3 DEF sandboxId
  <2>5. QED  BY <1>14, <2>1, <2>4
<1>16. LiveInv'  BY <1>2, <1>3, <1>8, <1>10, <1>15 DEF LiveInv, Given, Live
<1>17. ASSUME SandboxInv PROVE SandboxInv'
  <2>1. Kept(queue, _snapshotId, DOMAIN snapshots)  BY <1>17 DEF SandboxInv
  <2>2. Kept(Tail(queue), _snapshotId, DOMAIN snapshots')  BY <1>6, <2>1, RestoredKept
  <2>3. QED  BY <1>2, <1>3, <2>2 DEF SandboxInv
<1>18. QED  BY <1>3, <1>5, <1>11, <1>13, <1>16, <1>17 DEF SessionInv

\* A cacheBeforeEach that runs is open.
LEMMA CacheOpen ==
  ASSUME RunnerInv, runs("beforeEach", {"cache"})
  PROVE  Open(queue, hookId) /\ Open(Tail(queue), hookId)
<1>1. running /\ item.run = "beforeEach" /\ hookOf(item).kind = "cache"  BY DEF runs
<1>2. /\ QueueOK(queue) /\ queue # << >> /\ queue \in Seq(Item) /\ Ordered(queue)
      /\ item = queue[1] /\ hookId = idOf(queue[1])
  BY <1>1, ItemRuns
<1>3. 1 \in 1 .. Len(queue)  BY <1>2, TailRest
<1>4. AfterComes(queue, 1)  BY <1>2, <1>3 DEF QueueOK
<1>5. PICK l \in 1 .. Len(queue) : queue[l] = afterOf(queue[1])
  BY <1>1, <1>2, <1>4 DEF AfterComes
<1>6. IsPrefix(queue[1].path, queue[1].test[1])  BY <1>2, <1>3, ItemFacts
<1>7. /\ queue[l].run = "after" /\ queue[l].path = queue[1].path
      /\ queue[l].hook = queue[1].hook
  BY <1>5 DEF afterOf, hookItem
<1>8. EndsAt(queue, hookId, l)  BY <1>2, <1>6, <1>7 DEF EndsAt, idOf
<1>9. Open(queue, hookId)  BY <1>8 DEF Open
<1>10. queue[1].run # "after"  BY <1>1, <1>2
<1>11. QED  BY <1>2, <1>9, <1>10, TailOpen

LEMMA CacheSaveKeeps ==
  ASSUME SessionInv, CacheSave
  PROVE  SessionInv' /\ (SandboxInv => SandboxInv')
<1>1. RunnerInv /\ InitializedInv /\ StackInv /\ LengthInv /\ LiveInv
  BY DEF SessionInv
<1>2. /\ running /\ item.run = "beforeEach" /\ hookOf(item).kind = "cache" /\ done
      /\ runs("beforeEach", {"cache"}) /\ saveSnapshotAsync
      /\ ~ initializing => step = 2
      /\ initialized' = initialized \cup {hookId}
      /\ SNAPSHOTS' = Append(SNAPSHOTS, lastId + 1)
      /\ _snapshotId' = _snapshotId
  BY DEF CacheSave, runs, savedId, cachePushed
<1>3. /\ RunnerInv' /\ ~ restoring' /\ queue' = Tail(queue)
      /\ Tail(queue) \in Seq(Item) /\ Ordered(Tail(queue))
  BY <1>1, <1>2, DoneRuns
<1>4. /\ openAmong(Tail(queue), initialized) = openAmong(queue, initialized)
      /\ OpenOrGone(Tail(queue), initialized)
  BY <1>1, <1>2, DoneOpen
<1>5. Open(queue, hookId) /\ Open(Tail(queue), hookId)  BY <1>1, <1>2, CacheOpen
<1>6. IsFiniteSet(initialized')
  BY <1>1, <1>2, FS_AddElement DEF InitializedInv
<1>7. OpenOrGone(Tail(queue), initialized')  BY <1>2, <1>4, <1>5 DEF OpenOrGone
<1>8. InitializedInv'  BY <1>3, <1>6, <1>7 DEF InitializedInv
<1>9. /\ lastId \in Nat /\ lastId' \in Nat
      /\ \A id \in DOMAIN snapshots' : id \in Nat \ {0} /\ id <= lastId'
      /\ SNAPSHOTS \in Seq(Nat)
      /\ StackOK(Append(SNAPSHOTS, lastId + 1), DOMAIN snapshots')
  BY <1>1, <1>2, SavedAbove
<1>10. StackInv'  BY <1>2, <1>9 DEF StackInv
<1>11. LengthInv'
  <2> DEFINE opened == openAmong(queue, initialized)
             now    == openAmong(Tail(queue), initialized')
  <2>1. IsFiniteSet(opened) /\ Cardinality(opened) \in Nat  BY <1>1, OpenFinite
  <2>2. now = opened \cup {hookId}  BY <1>2, <1>4, <1>5 DEF openAmong
  <2>3. Len(SNAPSHOTS') = Len(SNAPSHOTS) + 1 /\ Len(SNAPSHOTS) \in Nat  BY <1>2, <1>9
  <2>4. hookId \in opened <=> ~ initializing  BY <1>5 DEF openAmong, initializing
  <2>5. restoring <=> ~ initializing  BY <1>2 DEF restoring
  <2>6. Len(SNAPSHOTS) = Cardinality(opened) - (IF restoring THEN 1 ELSE 0)
    BY <1>1 DEF LengthInv
  <2>7. Len(SNAPSHOTS') = Cardinality(now)
    <3> HIDE DEF opened, now
    <3>1. CASE initializing
      <4>1. Cardinality(now) = Cardinality(opened) + 1
        BY <2>1, <2>2, <2>4, <3>1, FS_AddElement
      <4>2. QED  BY <2>1, <2>3, <2>5, <2>6, <3>1, <4>1
    <3>2. CASE ~ initializing
      <4>1. now = opened  BY <2>2, <2>4, <3>2
      <4>2. QED  BY <2>1, <2>3, <2>5, <2>6, <3>2, <4>1
    <3>3. QED  BY <3>1, <3>2
  <2>8. QED  BY <1>3, <2>7 DEF LengthInv
<1>12. QueueOK(queue) /\ queue # << >> /\ item = queue[1]  BY <1>1, <1>2, ItemRuns
<1>13. queue[1].run = "beforeEach" /\ hookOf(queue[1]).kind = "cache"
  BY <1>2, <1>12
<1>14. LiveInv'
  <2>1. /\ \A id \in DOMAIN _snapshotId : _snapshotId[id] \in Nat /\ _snapshotId[id] <= lastId
        /\ \A id \in DOMAIN _snapshotId : _snapshotId[id] \in DOMAIN snapshots =>
             InTest(queue, id)
    BY <1>1 DEF LiveInv, Given, Live
  <2>2. lastId' = lastId + 1 /\ DOMAIN snapshots' = DOMAIN snapshots \cup {lastId + 1}
    BY <1>1, <1>2, SavedAbove
  <2>3. Given(_snapshotId, lastId')  BY <1>9, <2>1, <2>2 DEF Given
  <2>4. ASSUME NEW id \in DOMAIN _snapshotId PROVE _snapshotId[id] \notin DOMAIN snapshots'
    <3>1. ~ InTest(queue, id)  BY <1>12, <1>13, InTestCache
    <3>2. _snapshotId[id] \notin DOMAIN snapshots  BY <2>1, <3>1
    <3>3. _snapshotId[id] \in Nat /\ _snapshotId[id] <= lastId  BY <2>1
    <3>4. _snapshotId[id] # lastId + 1  BY <1>9, <3>3
    <3>5. QED  BY <2>2, <3>2, <3>4
  <2>5. QED  BY <1>2, <2>3, <2>4 DEF LiveInv, Live
<1>15. ASSUME SandboxInv PROVE SandboxInv'
  <2>1. Kept(queue, _snapshotId, DOMAIN snapshots)  BY <1>15 DEF SandboxInv
  <2>2. Kept(queue, _snapshotId, DOMAIN snapshots')  BY <1>12, <1>13, <2>1, CacheKept
  <2>3. Kept(Tail(queue), _snapshotId, DOMAIN snapshots')
    BY <1>12, <1>13, <2>2, TailKept
  <2>4. QED  BY <1>2, <1>3, <2>3 DEF SandboxInv
<1>16. QED  BY <1>3, <1>8, <1>10, <1>11, <1>14, <1>15 DEF SessionInv

LEMMA FrontOK ==
  ASSUME StackInv, SNAPSHOTS # << >>
  PROVE  /\ Front(SNAPSHOTS) \in Seq(Nat) /\ SNAPSHOTS \in Seq(Nat)
         /\ Len(Front(SNAPSHOTS)) = Len(SNAPSHOTS) - 1 /\ Len(SNAPSHOTS) \in Nat
         /\ \A i \in 1 .. Len(Front(SNAPSHOTS)) :
              /\ i \in 1 .. Len(SNAPSHOTS) /\ Front(SNAPSHOTS)[i] = SNAPSHOTS[i]
              /\ SNAPSHOTS[i] < Last(SNAPSHOTS)
         /\ Last(SNAPSHOTS) \in DOMAIN snapshots
         /\ StackOK(Front(SNAPSHOTS), DOMAIN snapshots)
<1> DEFINE n == Len(SNAPSHOTS)
           f == Front(SNAPSHOTS)
<1>1. StackOK(SNAPSHOTS, DOMAIN snapshots)  BY DEF StackInv
<1>2. SNAPSHOTS \in Seq(Nat) /\ n \in Nat \ {0}  BY <1>1 DEF StackOK
<1>3. f = SubSeq(SNAPSHOTS, 1, n - 1) /\ Last(SNAPSHOTS) = SNAPSHOTS[n]
  BY DEF Front, Last
<1>4. f \in Seq(Nat) /\ Len(f) = n - 1 /\ \A i \in 1 .. n - 1 : f[i] = SNAPSHOTS[i]
  <2> DEFINE last == n - 1
  <2>1. last \in Nat /\ 1 .. last \subseteq 1 .. Len(SNAPSHOTS)  BY <1>2
  <2> HIDE DEF last, n
  <2>2. \A s \in Seq(Nat), m \in Nat : 1 .. m \subseteq 1 .. Len(s) =>
          /\ SubSeq(s, 1, m) \in Seq(Nat) /\ Len(SubSeq(s, 1, m)) = m
          /\ \A i \in 1 .. m : SubSeq(s, 1, m)[i] = s[i]
    OBVIOUS
  <2>3. /\ SubSeq(SNAPSHOTS, 1, last) \in Seq(Nat) /\ Len(SubSeq(SNAPSHOTS, 1, last)) = last
        /\ \A i \in 1 .. last : SubSeq(SNAPSHOTS, 1, last)[i] = SNAPSHOTS[i]
    BY <1>2, <2>1, <2>2
  <2>4. f = SubSeq(SNAPSHOTS, 1, last)  BY <1>3 DEF last
  <2>5. QED  BY <2>3, <2>4 DEF last
<1> HIDE DEF f
<1>5. \A i \in 1 .. Len(f) : i \in 1 .. n /\ i < n  BY <1>2, <1>4
<1>6. n \in 1 .. n  BY <1>2
<1>7. \A i \in 1 .. Len(f) : SNAPSHOTS[i] < Last(SNAPSHOTS)
  BY <1>1, <1>3, <1>5, <1>6 DEF StackOK
<1>8. Last(SNAPSHOTS) \in DOMAIN snapshots  BY <1>1, <1>3, <1>6 DEF StackOK
<1>9. StackOK(f, DOMAIN snapshots)  BY <1>1, <1>4, <1>5 DEF StackOK
<1>10. QED  BY <1>2, <1>4, <1>5, <1>7, <1>8, <1>9 DEF f

LEMMA CacheRestoreKeeps ==
  ASSUME SessionInv, CacheRestore
  PROVE  SessionInv' /\ (SandboxInv => SandboxInv')
<1>1. RunnerInv /\ InitializedInv /\ StackInv /\ LengthInv /\ LiveInv
  BY DEF SessionInv
<1>2. /\ running /\ item.run = "beforeEach" /\ hookOf(item).kind = "cache"
      /\ ~ initializing /\ step = 1 /\ SNAPSHOTS # << >>
      /\ revertByIdAsync(Last(SNAPSHOTS)) /\ SNAPSHOTS' = Front(SNAPSHOTS)
      /\ step' = step + 1 /\ files' = files /\ queue' = queue
      /\ initialized' = initialized /\ _snapshotId' = _snapshotId
  BY DEF CacheRestore, runs, goOn
<1>3. queue # << >>  BY <1>2 DEF running
<1>4. step' = 2  BY <1>2
<1>5. RunnerInv'  BY <1>1, <1>2, <1>3, <1>4 DEF RunnerInv
<1>6. InitializedInv'  BY <1>1, <1>2 DEF InitializedInv
<1>7. /\ Len(Front(SNAPSHOTS)) = Len(SNAPSHOTS) - 1 /\ Len(SNAPSHOTS) \in Nat
      /\ \A i \in 1 .. Len(Front(SNAPSHOTS)) :
           Front(SNAPSHOTS)[i] = SNAPSHOTS[i] /\ SNAPSHOTS[i] < Last(SNAPSHOTS)
      /\ Last(SNAPSHOTS) \in DOMAIN snapshots
      /\ StackOK(Front(SNAPSHOTS), DOMAIN snapshots)
  BY <1>1, <1>2, FrontOK
<1>8. \A i \in 1 .. Len(Front(SNAPSHOTS)) : Front(SNAPSHOTS)[i] < Last(SNAPSHOTS)
  BY <1>7
<1>9. /\ lastId' = lastId /\ \A x \in DOMAIN snapshots' : x \in Nat \ {0} /\ x <= lastId
      /\ StackOK(Front(SNAPSHOTS), DOMAIN snapshots')
  BY <1>1, <1>2, <1>7, <1>8, RevertedBelow
<1>10. StackInv'  BY <1>1, <1>2, <1>9 DEF StackInv
<1>11. ~ restoring  BY <1>2 DEF restoring
<1>12. restoring'
  <2>1. item' = item /\ hookId' = hookId /\ running'
    BY <1>2 DEF item, hookId, running
  <2>2. hookId' \in initialized'  BY <1>2, <2>1 DEF initializing
  <2>3. QED  BY <1>2, <1>4, <2>1, <2>2 DEF restoring, runs, initializing
<1>13. LengthInv'
  BY <1>1, <1>2, <1>7, <1>11, <1>12, OpenFinite DEF LengthInv
<1>14. QueueOK(queue) /\ item = queue[1]  BY <1>1, <1>2, ItemRuns
<1>15. queue[1].run = "beforeEach" /\ hookOf(queue[1]).kind = "cache"
  BY <1>2, <1>14
<1>16. LiveInv'
  <2>1. /\ Given(_snapshotId, lastId)
        /\ \A id \in DOMAIN _snapshotId : _snapshotId[id] \in DOMAIN snapshots =>
             InTest(queue, id)
    BY <1>1 DEF LiveInv, Live
  <2>2. DOMAIN snapshots' \subseteq DOMAIN snapshots  BY <1>2, <1>7 DEF revertByIdAsync
  <2>3. ASSUME NEW id \in DOMAIN _snapshotId PROVE _snapshotId[id] \notin DOMAIN snapshots'
    BY <1>14, <1>15, <2>1, <2>2, InTestCache
  <2>4. QED  BY <1>2, <1>9, <2>1, <2>3 DEF LiveInv, Live
<1>17. ASSUME SandboxInv PROVE SandboxInv'
  <2>1. Kept(queue, _snapshotId, DOMAIN snapshots)  BY <1>17 DEF SandboxInv
  <2>2. Kept(queue, _snapshotId, DOMAIN snapshots')  BY <1>14, <1>15, <2>1, CacheKept
  <2>3. QED  BY <1>2, <2>2 DEF SandboxInv
<1>18. QED  BY <1>5, <1>6, <1>10, <1>13, <1>16, <1>17 DEF SessionInv

\* The after hook of an initialized cacheBeforeEach takes its own snapshot off.
LEMMA LeaveKeeps ==
  ASSUME SessionInv, CacheLeave, ~ initializing
  PROVE  SessionInv' /\ (SandboxInv => SandboxInv')
<1>1. RunnerInv /\ InitializedInv /\ StackInv /\ LengthInv /\ LiveInv
  BY DEF SessionInv
<1>2. /\ running /\ item.run = "after" /\ done /\ hookId \in initialized
      /\ initialized' = initialized /\ _snapshotId' = _snapshotId
      /\ snapshots' = snapshots /\ lastId' = lastId
      /\ SNAPSHOTS' = stackAfterSuite
  BY DEF CacheLeave, runs, initializing, chainVars
<1>3. /\ RunnerInv' /\ ~ restoring' /\ queue' = Tail(queue)
      /\ Tail(queue) \in Seq(Item) /\ Ordered(Tail(queue))
  BY <1>1, <1>2, DoneRuns
<1>4. /\ QueueOK(queue) /\ queue # << >> /\ queue \in Seq(Item) /\ Ordered(queue)
      /\ queue[1].run = "after" /\ hookId = idOf(queue[1])
  BY <1>1, <1>2, ItemRuns
<1>5. Gone(Tail(queue), hookId) /\ Open(queue, hookId)  BY <1>4, AfterEnds
<1> DEFINE opened == openAmong(queue, initialized)
           now    == openAmong(Tail(queue), initialized)
<1>6. ~ Open(Tail(queue), hookId)  BY <1>3, <1>5, OpenNotGone
<1>7. \A id \in initialized : id # hookId =>
        /\ Open(queue, id) => Open(Tail(queue), id)
        /\ Gone(queue, id) => Gone(Tail(queue), id)
  BY <1>4, TailOpen
<1>8. \A id \in initialized : Open(queue, id) \/ Gone(queue, id)
  BY <1>1 DEF InitializedInv, OpenOrGone
<1>9. OpenOrGone(Tail(queue), initialized)  BY <1>5, <1>7, <1>8 DEF OpenOrGone
<1>10. now = opened \ {hookId} /\ hookId \in opened
  <2>1. ASSUME NEW id \in now PROVE id \in opened
    <3>1. id \in initialized /\ Open(Tail(queue), id)  BY <2>1 DEF openAmong
    <3>2. ~ Gone(Tail(queue), id)  BY <1>3, <3>1, OpenNotGone
    <3>3. id # hookId  BY <1>5, <3>2
    <3>4. Open(queue, id)  BY <1>7, <1>8, <3>1, <3>2, <3>3
    <3>5. QED  BY <3>1, <3>4 DEF openAmong
  <2>2. \A id \in opened : id # hookId => id \in now  BY <1>7 DEF openAmong
  <2>3. hookId \notin now  BY <1>6 DEF openAmong
  <2>4. hookId \in opened  BY <1>2, <1>5 DEF openAmong
  <2> HIDE DEF opened, now
  <2>5. QED  BY <2>1, <2>2, <2>3, <2>4
<1>11. IsFiniteSet(opened) /\ Cardinality(opened) \in Nat  BY <1>1, OpenFinite
<1>12. Cardinality(now) = Cardinality(opened) - 1
  <2> HIDE DEF opened, now
  <2>1. QED  BY <1>10, <1>11, FS_RemoveElement
<1>13. Cardinality(opened) # 0
  <2> HIDE DEF opened, now
  <2>1. QED  BY <1>10, <1>11, FS_EmptySet
<1>14. ~ restoring  BY <1>2 DEF restoring, runs
<1>15. Len(SNAPSHOTS) = Cardinality(opened)  BY <1>1, <1>11, <1>14 DEF LengthInv
<1>16. SNAPSHOTS # << >>
  <2>1. SUFFICES ASSUME SNAPSHOTS = << >> PROVE FALSE  OBVIOUS
  <2>2. Len(SNAPSHOTS) = 0  BY <2>1
  <2>3. QED  BY <1>13, <1>15, <2>2
<1>17. SNAPSHOTS' = Front(SNAPSHOTS)
  BY <1>2, <1>16 DEF stackAfterSuite, initializing
<1>18. /\ Len(Front(SNAPSHOTS)) = Len(SNAPSHOTS) - 1
       /\ \A i \in 1 .. Len(Front(SNAPSHOTS)) :
            i \in 1 .. Len(SNAPSHOTS) /\ Front(SNAPSHOTS)[i] = SNAPSHOTS[i]
       /\ StackOK(Front(SNAPSHOTS), DOMAIN snapshots)
  BY <1>1, <1>16, FrontOK
<1>19. InitializedInv'  BY <1>1, <1>2, <1>3, <1>9 DEF InitializedInv
<1>20. StackInv'  BY <1>1, <1>2, <1>17, <1>18 DEF StackInv
<1>21. LengthInv'
  <2>1. Len(SNAPSHOTS') = Cardinality(now)  BY <1>12, <1>15, <1>17, <1>18
  <2> HIDE DEF opened
  <2>2. QED  BY <1>2, <1>3, <1>11, <1>12, <2>1 DEF LengthInv
<1>22. LiveInv'
  <2>1. /\ Given(_snapshotId, lastId)
        /\ \A id \in DOMAIN _snapshotId : _snapshotId[id] \in DOMAIN snapshots =>
             InTest(queue, id) /\ Above(_snapshotId[id], SNAPSHOTS)
    BY <1>1 DEF LiveInv, Live
  <2>2. \A x : Above(x, SNAPSHOTS) => Above(x, Front(SNAPSHOTS))
    BY <1>18 DEF Above
  <2>3. \A id : InTest(queue, id) => InTest(Tail(queue), id)  BY <1>4, InTestTail
  <2>4. QED  BY <1>2, <1>3, <1>17, <2>1, <2>2, <2>3 DEF LiveInv, Live
<1>23. ASSUME SandboxInv PROVE SandboxInv'
  <2>1. Kept(queue, _snapshotId, DOMAIN snapshots)  BY <1>23 DEF SandboxInv
  <2>2. Kept(Tail(queue), _snapshotId, DOMAIN snapshots)  BY <1>4, <2>1, TailKept
  <2>3. QED  BY <1>2, <1>3, <2>2 DEF SandboxInv
<1>24. QED  BY <1>3, <1>19, <1>20, <1>21, <1>22, <1>23 DEF SessionInv

LEMMA CacheLeaveKeeps ==
  ASSUME SessionInv, CacheLeave
  PROVE  SessionInv' /\ (SandboxInv => SandboxInv')
<1>1. CASE initializing
  <2>1. /\ running /\ item.run = "after" /\ done /\ hookId \notin initialized
        /\ SNAPSHOTS' = SNAPSHOTS
        /\ UNCHANGED <<initialized, _snapshotId, snapshots, lastId>>
    BY <1>1 DEF CacheLeave, runs, initializing, stackAfterSuite, chainVars
  <2>2. UNCHANGED <<helperVars, snapshots, lastId>>  BY <2>1 DEF helperVars
  <2>3. ~ restoring  BY <2>1 DEF restoring, runs
  <2>4. QED  BY <2>1, <2>2, <2>3, DoneKeeps
<1>2. CASE ~ initializing  BY <1>2, LeaveKeeps
<1>3. QED  BY <1>1, <1>2

LEMMA EndTestKeeps ==
  ASSUME SessionInv, EndTest
  PROVE  SessionInv' /\ (SandboxInv => SandboxInv')
<1>1. /\ running /\ item.run = "test" /\ done
      /\ UNCHANGED <<helperVars, snapshots, lastId>>
  BY DEF EndTest, chainVars
<1>2. ~ restoring  BY <1>1 DEF restoring, runs
<1>3. QED  BY <1>1, <1>2, DoneKeeps

LEMMA EndHookKeeps ==
  ASSUME SessionInv, EndHook
  PROVE  SessionInv' /\ (SandboxInv => SandboxInv')
<1>1. /\ running /\ item.run \in {"before", "beforeEach"} /\ done
      /\ hookOf(item).kind \in {"before", "each"}
      /\ UNCHANGED <<helperVars, snapshots, lastId>>
  BY DEF EndHook, runs, chainVars
<1>2. ~ restoring  BY <1>1 DEF restoring, runs
<1>3. QED  BY <1>1, <1>2, DoneKeeps

\* A cacheBeforeEach that comes back finds its snapshot on the stack.
LEMMA StackNotEmpty ==
  ASSUME SessionInv
  PROVE  ~ nothingToRestore
<1> SUFFICES ASSUME nothingToRestore PROVE FALSE
  OBVIOUS
<1>1. RunnerInv /\ InitializedInv /\ LengthInv  BY DEF SessionInv
<1>2. /\ runs("beforeEach", {"cache"}) /\ hookId \in initialized /\ step = 1
      /\ SNAPSHOTS = << >>
  BY DEF nothingToRestore
<1>3. Open(queue, hookId)  BY <1>1, <1>2, CacheOpen
<1> DEFINE opened == openAmong(queue, initialized)
<1>4. hookId \in opened  BY <1>2, <1>3 DEF openAmong
<1>5. IsFiniteSet(opened) /\ Cardinality(opened) \in Nat  BY <1>1, OpenFinite
<1>6. ~ restoring  BY <1>2 DEF restoring
<1>7. Len(SNAPSHOTS) = Cardinality(opened) - 0  BY <1>1, <1>6 DEF LengthInv
<1>8. Len(SNAPSHOTS) = 0  BY <1>2
<1> HIDE DEF opened
<1>9. Cardinality(opened) = 0  BY <1>5, <1>7, <1>8
<1>10. QED  BY <1>4, <1>5, <1>9, FS_EmptySet

LEMMA ThrowKeeps ==
  ASSUME SessionInv, Throw
  PROVE  SessionInv' /\ (SandboxFirst /\ SandboxInv => SandboxInv')
<1>1. RunnerInv /\ InitializedInv /\ StackInv /\ LengthInv /\ LiveInv
  BY DEF SessionInv
<1>2. inScript /\ item.run # "test"  BY StackNotEmpty DEF Throw
<1>3. /\ queue' = survivors(Tail(queue), item) /\ step' = 1 /\ files' = files
      /\ initialized' = initialized /\ SNAPSHOTS' = SNAPSHOTS
      /\ _snapshotId' = _snapshotId /\ snapshots' = snapshots /\ lastId' = lastId
  BY DEF Throw, advance, helperVars, chainVars
<1>4. /\ running /\ ~ restoring /\ item.run \in {"before", "beforeEach"}
      /\ hookOf(item).kind # "sandbox"
  BY <1>1, <1>2, InScript
<1>5. /\ QueueOK(queue) /\ queue # << >> /\ queue \in Seq(Item) /\ Ordered(queue)
      /\ item = queue[1]
  BY <1>1, <1>4, ItemRuns
<1> DEFINE left == survivors(Tail(queue), queue[1])
<1>6. queue' = left  BY <1>3, <1>5
<1>7. QueueOK(left)  BY <1>4, <1>5, SurvivorsOK
<1>8. \A id \in initialized : /\ Open(queue, id) => Open(left, id)
                              /\ Gone(queue, id) => Gone(left, id)
  BY <1>4, <1>5, SurvivorsOpen
<1>9. \A id : InTest(queue, id) => InTest(left, id)  BY <1>4, <1>5, InTestSurvives
<1>10. ASSUME SandboxFirst, SandboxInv
       PROVE  Kept(left, _snapshotId, DOMAIN snapshots)
  <2>1. Kept(queue, _snapshotId, DOMAIN snapshots)  BY <1>10 DEF SandboxInv
  <2>2. QED  BY <1>4, <1>5, <1>10, <2>1, SurvivorsKept
<1> HIDE DEF left
<1>11. left \in Seq(Item) /\ Ordered(left)  BY <1>7 DEF QueueOK
<1>12. OpenOrGone(queue, initialized)  BY <1>1 DEF InitializedInv
<1>13. /\ openAmong(left, initialized) = openAmong(queue, initialized)
       /\ OpenOrGone(left, initialized)
  BY <1>5, <1>8, <1>11, <1>12, OpenAmongSame
<1>14. RunnerInv'  BY <1>1, <1>3, <1>6, <1>7 DEF RunnerInv
<1>15. ~ restoring'  BY <1>3 DEF restoring
<1>16. InitializedInv'  BY <1>1, <1>3, <1>6, <1>13 DEF InitializedInv
<1>17. StackInv'  BY <1>1, <1>3 DEF StackInv
<1>18. LengthInv'  BY <1>1, <1>3, <1>4, <1>6, <1>13, <1>15 DEF LengthInv
<1>19. LiveInv'
  <2>1. Live(left, _snapshotId, DOMAIN snapshots, SNAPSHOTS)
    BY <1>1, <1>9 DEF LiveInv, Live
  <2>2. QED  BY <1>1, <1>3, <1>6, <2>1 DEF LiveInv
<1>20. SandboxFirst /\ SandboxInv => SandboxInv'
  BY <1>3, <1>6, <1>10 DEF SandboxInv
<1>21. QED  BY <1>14, <1>16, <1>17, <1>18, <1>19, <1>20 DEF SessionInv

LEMMA NothingOpen == \A ids : openAmong(<< >>, ids) = {}
BY DEF openAmong, Open

\* A file's schedule, with its own hooks and no snapshot of theirs.
LEMMA LoadFileKeeps ==
  ASSUME SessionInv, LoadFile
  PROVE  SessionInv' /\ SandboxInv'
<1>1. RunnerInv /\ InitializedInv /\ StackInv /\ LengthInv /\ LiveInv
  BY DEF SessionInv
<1> DEFINE file == Head(files)
           path == <<file>>
           left == scheduleOf[path]
<1>2. /\ queue = << >> /\ files # << >> /\ files' = Tail(files) /\ queue' = left
      /\ initialized' = {} /\ _snapshotId' = << >> /\ step' = step
      /\ SNAPSHOTS' = SNAPSHOTS /\ snapshots' = snapshots /\ lastId' = lastId
  BY DEF LoadFile, running, chainVars
<1>3. /\ files \in Seq(Suite)
      /\ \A i \in 1 .. Len(files) : \A suite \in Suite : files[i] \notin childrenOf(suite)
  BY <1>1 DEF RunnerInv
<1>4. /\ file \in Suite /\ file = files[1] /\ 1 \in 1 .. Len(files)
      /\ Tail(files) \in Seq(Suite)
      /\ \A i \in 1 .. Len(Tail(files)) :
           i + 1 \in 1 .. Len(files) /\ Tail(files)[i] = files[i + 1]
  BY <1>2, <1>3
<1>5. \A suite \in Suite : file \notin childrenOf(suite)  BY <1>3, <1>4
<1> HIDE DEF file
<1>6. path \in Paths /\ path[1] = file /\ Len(path) = 1  BY <1>4 DEF Paths
<1>7. Rooted(path)  BY <1>5, <1>6 DEF Rooted
<1>8. SuiteSchedule(left, path)  BY <1>7, ScheduleOrdered
<1> HIDE DEF path, left
<1>9. /\ left \in Seq(Item) /\ Ordered(left)
      /\ \A k \in 1 .. Len(left) :
           /\ IsPrefix(path, left[k].test[1])
           /\ left[k].run = "afterEach" => SaverComes(left, k)
           /\ RestorerComes(left, k)
           /\ IsPrefix(path, left[k].path) => AfterComes(left, k)
  BY <1>8 DEF SuiteSchedule
<1>10. ASSUME NEW k \in 1 .. Len(left) PROVE AfterComes(left, k)
  <2>1. /\ left[k].path \in Paths /\ left[k].test[1] \in Paths
        /\ IsPrefix(left[k].path, left[k].test[1])
    BY <1>9, ItemFacts
  <2>2. Len(path) <= Len(left[k].path)  BY <1>6, <2>1, PathProperties
  <2>3. IsPrefix(path, left[k].test[1])  BY <1>9
  <2>4. IsPrefix(path, left[k].path)
    <3> DEFINE p == left[k].path
               r == left[k].test[1]
    <3>1. p \in Paths /\ r \in Paths /\ path \in Paths /\ Len(path) <= Len(p)
          /\ IsPrefix(path, r) /\ IsPrefix(p, r)
      BY <1>6, <2>1, <2>2, <2>3
    <3> HIDE DEF p, r
    <3>2. IsPrefix(path, p)  BY <3>1, PrefixOrder
    <3>3. QED  BY <3>2 DEF p
  <2>5. QED  BY <1>9, <2>4
<1>11. QueueOK(left)  BY <1>9, <1>10 DEF QueueOK
<1>12. Kept(left, << >>, DOMAIN snapshots)  BY <1>9 DEF Kept
<1>13. step = 1  BY <1>1, <1>2 DEF RunnerInv
<1>14. RunnerInv'  BY <1>2, <1>3, <1>4, <1>11, <1>13 DEF RunnerInv
<1>15. IsFiniteSet({}) /\ Cardinality({}) = 0  BY FS_EmptySet
<1>16. InitializedInv'  BY <1>2, <1>15 DEF InitializedInv, OpenOrGone
<1>17. StackInv'  BY <1>1, <1>2 DEF StackInv
<1>18. ~ restoring /\ ~ restoring'  BY <1>2, <1>13 DEF restoring, runs, running
<1>19. openAmong(queue, initialized) = {}  BY <1>2, NothingOpen
<1>20. Len(SNAPSHOTS) = 0  BY <1>1, <1>15, <1>18, <1>19 DEF LengthInv
<1>21. openAmong(left, {}) = {}  BY DEF openAmong
<1>22. LengthInv'
  <2>1. SNAPSHOTS' = SNAPSHOTS /\ openAmong(queue, initialized)' = {}  BY <1>2, <1>21
  <2>2. QED  BY <1>15, <1>18, <1>20, <2>1 DEF LengthInv
<1>23. LiveInv'
  <2>1. DOMAIN _snapshotId' = {}  BY <1>2
  <2>2. QED  BY <2>1 DEF LiveInv, Given, Live
<1>24. SandboxInv'  BY <1>2, <1>12 DEF SandboxInv
<1>25. QED  BY <1>14, <1>16, <1>17, <1>22, <1>23, <1>24 DEF SessionInv

LEMMA SessionEstablished == Init => SessionInv /\ SandboxInv
<1> SUFFICES ASSUME Init PROVE SessionInv /\ SandboxInv
  OBVIOUS
<1>1. /\ files \in Sessions /\ queue = << >> /\ step = 1 /\ initialized = {}
      /\ SNAPSHOTS = << >> /\ _snapshotId = << >> /\ snapshots = << >> /\ lastId = 0
  BY DEF Init, ChainInit
<1>2. files \in Seq(Suite) /\ \A suite \in Suite : childrenOf(suite) \cap ToSet(files) = {}
  BY <1>1, SuitesAssumption
<1>3. \A i \in 1 .. Len(files) : \A suite \in Suite : files[i] \notin childrenOf(suite)
  BY <1>2 DEF ToSet
<1>4. QueueOK(<< >>)
  <2>1. << >> \in Seq(Item) /\ Len(<< >>) = 0  OBVIOUS
  <2>2. \A k \in 1 .. Len(<< >>) : FALSE  BY <2>1
  <2>3. QED  BY <2>1, <2>2 DEF QueueOK, Ordered
<1>5. RunnerInv  BY <1>1, <1>2, <1>3, <1>4 DEF RunnerInv
<1>6. IsFiniteSet({}) /\ Cardinality({}) = 0  BY FS_EmptySet
<1>7. InitializedInv  BY <1>1, <1>6 DEF InitializedInv, OpenOrGone
<1>8. StackInv
  <2>1. DOMAIN snapshots = {}  BY <1>1
  <2>2. SNAPSHOTS \in Seq(Nat) /\ Len(SNAPSHOTS) = 0  BY <1>1
  <2>3. QED  BY <1>1, <2>1, <2>2 DEF StackInv, StackOK
<1>9. ~ restoring  BY <1>1 DEF restoring, runs, running
<1>10. LengthInv  BY <1>1, <1>6, <1>9, NothingOpen DEF LengthInv
<1>11. LiveInv
  <2>1. DOMAIN _snapshotId = {}  BY <1>1
  <2>2. QED  BY <2>1 DEF LiveInv, Given, Live
<1>12. SandboxInv  BY <1>1 DEF SandboxInv, Kept
<1>13. QED  BY <1>5, <1>7, <1>8, <1>10, <1>11, <1>12 DEF SessionInv

LEMMA SessionKept ==
  ASSUME SessionInv, [Next]_vars
  PROVE  SessionInv' /\ (SandboxFirst /\ SandboxInv => SandboxInv')
<1>1. RunnerInv /\ \A tx : mine(tx) => UNCHANGED <<snapshots, lastId>>
  BY DEF SessionInv, mine
<1>2. CASE LoadFile  BY <1>2, LoadFileKeeps
<1>3. CASE Transact
  <2>1. inScript /\ goOn /\ UNCHANGED <<helperVars, snapshots, lastId>>
    BY <1>1, <1>3 DEF Transact
  <2>2. QED  BY <2>1, ScriptKeeps
<1>4. CASE Send
  <2>1. inScript /\ goOn /\ UNCHANGED <<helperVars, snapshots, lastId>>
    BY <1>4 DEF Send, chainVars
  <2>2. QED  BY <2>1, ScriptKeeps
<1>5. CASE GetLogs
  <2>1. inScript /\ goOn /\ UNCHANGED <<helperVars, snapshots, lastId>>
    BY <1>5 DEF GetLogs, chainVars
  <2>2. QED  BY <2>1, ScriptKeeps
<1>6. CASE Throw  BY <1>6, ThrowKeeps
<1>7. CASE EndTest  BY <1>7, EndTestKeeps
<1>8. CASE EndHook  BY <1>8, EndHookKeeps
<1>9. CASE SandboxSave  BY <1>9, SandboxSaveKeeps
<1>10. CASE SandboxRestore  BY <1>10, SandboxRestoreKeeps
<1>11. CASE CacheSave  BY <1>11, CacheSaveKeeps
<1>12. CASE CacheRestore  BY <1>12, CacheRestoreKeeps
<1>13. CASE CacheLeave  BY <1>13, CacheLeaveKeeps
<1>14. ASSUME UNCHANGED <<files, queue, step, helperVars, snapshots, lastId>>
       PROVE  SessionInv' /\ (SandboxInv => SandboxInv')
  <2>1. /\ step' \in Nat \ {0} /\ (queue = << >> => step' = 1)
        /\ UNCHANGED <<files, queue, helperVars, snapshots, lastId>>
    BY <1>1, <1>14 DEF RunnerInv
  <2>2. restoring' = restoring
    BY <1>14 DEF restoring, runs, running, item, initializing, hookId, helperVars
  <2>3. QED  BY <2>1, <2>2, SameKeeps
<1>15. CASE Mine
  <2>1. UNCHANGED <<files, queue, step, helperVars, snapshots, lastId>>
    BY <1>1, <1>15 DEF Mine, runnerVars
  <2>2. QED  BY <1>14, <2>1
<1>16. CASE UNCHANGED vars
  <2>1. UNCHANGED <<files, queue, step, helperVars, snapshots, lastId>>
    BY <1>16 DEF vars, runnerVars, chainVars
  <2>2. QED  BY <1>14, <2>1
<1>17. QED
  BY <1>2, <1>3, <1>4, <1>5, <1>6, <1>7, <1>8, <1>9, <1>10, <1>11, <1>12, <1>13,
     <1>15, <1>16 DEF Next, Run

LEMMA StackMatches == SessionInv => StackMatchesSuites
<1> SUFFICES ASSUME SessionInv PROVE StackMatchesSuites
  OBVIOUS
<1>1. RunnerInv /\ InitializedInv /\ StackInv /\ LengthInv
  BY DEF SessionInv
<1>2. ASSUME NEW i \in DOMAIN SNAPSHOTS
      PROVE  /\ SNAPSHOTS[i] \in DOMAIN snapshots
             /\ i > 1 => SNAPSHOTS[i - 1] < SNAPSHOTS[i]
  <2>1. /\ SNAPSHOTS \in Seq(Nat)
        /\ \A j \in 1 .. Len(SNAPSHOTS) : SNAPSHOTS[j] \in DOMAIN snapshots
        /\ \A j, k \in 1 .. Len(SNAPSHOTS) : j < k => SNAPSHOTS[j] < SNAPSHOTS[k]
    BY <1>1 DEF StackInv, StackOK
  <2>2. i \in 1 .. Len(SNAPSHOTS) /\ Len(SNAPSHOTS) \in Nat  BY <2>1
  <2>3. i > 1 => i - 1 \in 1 .. Len(SNAPSHOTS) /\ i - 1 < i  BY <2>2
  <2>4. QED  BY <2>1, <2>2, <2>3
<1>3. openAndInitialized = openAmong(queue, initialized)
  <2>1. CASE ~ running
    <3>1. queue = << >>  BY <2>1 DEF running
    <3>2. QED  BY <2>1, <3>1, NothingOpen DEF openAndInitialized
  <2>2. CASE running
    <3>1. /\ queue \in Seq(Item) /\ Ordered(queue) /\ queue # << >> /\ item = queue[1]
      BY <1>1, <2>2, ItemRuns
    <3>2. 1 \in 1 .. Len(queue)  BY <3>1, TailRest
    <3>3. ASSUME NEW id \in initialized
          PROVE  id[1] \in ToSet(item.test[1]) <=> Open(queue, id)
      <4>1. Open(queue, id) \/ Gone(queue, id)
        BY <1>1, <3>3 DEF InitializedInv, OpenOrGone
      <4>2. Gone(queue, id) => id[1] \notin ToSet(item.test[1])  BY <3>1, <3>2 DEF Gone
      <4>3. Open(queue, id) => id[1] \in ToSet(item.test[1])  BY <3>1, OpenNotGone
      <4>4. QED  BY <4>1, <4>2, <4>3
    <3>4. QED  BY <2>2, <3>3 DEF openAndInitialized, openAmong
  <2>3. QED  BY <2>1, <2>2
<1>4. Len(SNAPSHOTS) = Cardinality(openAndInitialized) - (IF restoring THEN 1 ELSE 0)
  BY <1>1, <1>3 DEF LengthInv
<1>5. QED  BY <1>2, <1>4 DEF StackMatchesSuites

LEMMA SnapshotsMatch == SessionInv /\ SandboxInv => SnapshotsMatchSuites
<1> SUFFICES ASSUME SessionInv, SandboxInv PROVE SnapshotsMatchSuites
  OBVIOUS
<1>1. RunnerInv  BY DEF SessionInv
<1>2. ASSUME runs("afterEach", {"sandbox"}) PROVE sandboxId \in DOMAIN snapshots
  <2>1. running /\ item.run = "afterEach"  BY <1>2 DEF runs
  <2>2. /\ QueueOK(queue) /\ queue # << >> /\ queue[1].run = "afterEach"
        /\ hookId = idOf(queue[1])
    BY <1>1, <2>1, ItemRuns
  <2>3. Kept(queue, _snapshotId, DOMAIN snapshots)  BY DEF SandboxInv
  <2>4. hookId \in DOMAIN _snapshotId /\ _snapshotId[hookId] \in DOMAIN snapshots
    BY <2>2, <2>3, RestoredKept
  <2>5. QED  BY <2>4 DEF sandboxId
<1>3. StackMatchesSuites  BY StackMatches
<1>4. QED  BY <1>2, <1>3 DEF SnapshotsMatchSuites

-----------------------------------------------------------------------------
\* What TestSession keeps through any session, of any spec files and whichever
\* hooks throw: the queue is what Mocha's order leaves of a file, the stack has
\* the snapshots of the open suites, and of what the sandboxes saved the node
\* only has what the test that runs is to restore.
THEOREM SessionInvariant == Spec => []SessionInv
<1>1. Init => SessionInv  BY SessionEstablished
<1>2. SessionInv /\ [Next]_vars => SessionInv'  BY SessionKept
<1>3. QED  BY <1>1, <1>2, PTL DEF Spec

\* The stack that all cacheBeforeEach hooks share (SNAPSHOTS in testingUtils.ts)
\* holds the snapshot of each initialized hook of an open suite, the innermost
\* on top, and nothing else, and the node still has every one of them.
THEOREM StackCorrect == Spec => []StackMatchesSuites
<1>1. SessionInv => StackMatchesSuites  BY StackMatches
<1>2. QED  BY <1>1, SessionInvariant, PTL

\* The pop in the beforeEach of cacheBeforeEach never finds the stack empty.
THEOREM CacheFindsSnapshot == Spec => []~ nothingToRestore
<1>1. SessionInv => ~ nothingToRestore  BY StackNotEmpty
<1>2. QED  BY <1>1, SessionInvariant, PTL

\* Where no hook that throws for each test comes before a sandbox in its suite,
\* a sandbox also finds the snapshot it restores: neither helper then reverts
\* to a snapshot that was used up.
THEOREM SnapshotsCorrect == SandboxFirst => (Spec => []SnapshotsMatchSuites)
<1> SUFFICES ASSUME SandboxFirst PROVE Spec => []SnapshotsMatchSuites
  OBVIOUS
<1>1. Init => SessionInv /\ SandboxInv  BY SessionEstablished
<1>2. (SessionInv /\ SandboxInv) /\ [Next]_vars => (SessionInv /\ SandboxInv)'
  BY SessionKept
<1>3. SessionInv /\ SandboxInv => SnapshotsMatchSuites  BY SnapshotsMatch
<1>4. QED  BY <1>1, <1>2, <1>3, PTL DEF Spec
==============================================================================
