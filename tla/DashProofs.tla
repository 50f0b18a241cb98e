------------------------------ MODULE DashProofs ------------------------------
(***************************************************************************)
(* Proofs about Dash, for any names whose characters come after the         *)
(* separator and any finite trees: the merge reports what it should.        *)
(*                                                                         *)
(* The merge is right because the order of the walk, directory by           *)
(* directory, is the order of the paths as strings; so a list is sorted by  *)
(* what the merge compares.  The first part proves that; the second that    *)
(* the merge, which is then one of sorted lists, has told apart all entries *)
(* behind the ones it is at; the third that the hashes show what the list   *)
(* shows.                                                                   *)
(***************************************************************************)
EXTENDS Dash, FiniteSetTheorems, WellFoundedInduction, TLAPS

(* A non-empty set of natural numbers has a least element.                  *)
LEMMA LeastNat ==
  ASSUME NEW T, T \subseteq Nat, T # {}
  PROVE  \E n \in T : \A m \in T : n <= m
<1>1. PICK R : R = OpToRel(<, Nat)
  OBVIOUS
<1>2. IsWellFoundedOn(R, Nat)
  BY <1>1, NatLessThanWellFounded
<1>3. \A y, z \in Nat : y < z => <<y, z>> \in R
  BY <1>1 DEF OpToRel
<1>4. PICK n \in T : \A m \in T : ~ (<<m, n>> \in R)
  BY <1>2, WFMin
<1>5. ASSUME NEW m \in T
      PROVE  n <= m
  <2>1. ~ (m < n)
    BY <1>3, <1>4
  <2> QED BY <2>1
<1> QED BY <1>5

(* Induction: a set that holds 0 and the successors of its members holds    *)
(* every natural number.                                                    *)
LEMMA NatSetInduction ==
  ASSUME NEW T, 0 \in T, \A n \in Nat : n \in T => n + 1 \in T
  PROVE  Nat \subseteq T
<1> SUFFICES ASSUME Nat \ T # {}
             PROVE  FALSE
  OBVIOUS
<1>1. PICK n \in Nat \ T : \A m \in Nat \ T : n <= m
  BY LeastNat
<1>2. n # 0 /\ n - 1 \in Nat
  BY <1>1
<1>3. n - 1 \in T
  BY <1>1, <1>2
<1> QED BY <1>1, <1>2, <1>3

(***************************************************************************)
(* Orders of sequences.                                                     *)
(***************************************************************************)
(* R is a strict total order of S.                                          *)
IsOrder(R, S) ==
  /\ \A a \in S : <<a, a>> \notin R
  /\ \A a, b, c \in S : <<a, b>> \in R /\ <<b, c>> \in R => <<a, c>> \in R
  /\ \A a, b \in S : a # b => <<a, b>> \in R \/ <<b, a>> \in R

(* s comes before t in the order of dictionaries, and does so at k.         *)
BeforeAt(R, s, t, k) ==
  /\ k <= Len(s) + 1 /\ \A j \in 1 .. k - 1 : s[j] = t[j]
  /\ k <= Len(s) => <<s[k], t[k]>> \in R

Before(R, s, t) == \E k \in DOMAIN t : BeforeAt(R, s, t, k)

(* No sequence comes before itself.                                         *)
LEMMA BeforeIrreflexive ==
  ASSUME NEW S, NEW R, IsOrder(R, S), NEW s \in Seq(S)
  PROVE  ~ Before(R, s, s)
<1>1. ASSUME NEW k \in DOMAIN s
      PROVE  ~ BeforeAt(R, s, s, k)
  <2>1. k <= Len(s) /\ s[k] \in S
    OBVIOUS
  <2> QED BY <2>1 DEF BeforeAt, IsOrder
<1> QED BY <1>1 DEF Before

(* Before is transitive.                                                    *)
LEMMA BeforeTransitive ==
  ASSUME NEW S, NEW R, IsOrder(R, S),
         NEW s \in Seq(S), NEW t \in Seq(S), NEW u \in Seq(S),
         Before(R, s, t), Before(R, t, u)
  PROVE  Before(R, s, u)
<1>1. PICK k \in 1 .. Len(t) : BeforeAt(R, s, t, k)
  BY DEF Before
<1>2. PICK l \in 1 .. Len(u) : BeforeAt(R, t, u, l)
  BY DEF Before
<1>3. CASE k < l
  <2>1. k \in 1 .. Len(u) /\ t[k] = u[k]
    BY <1>1, <1>2, <1>3 DEF BeforeAt
  <2>2. BeforeAt(R, s, u, k)
    BY <1>1, <1>2, <1>3, <2>1 DEF BeforeAt
  <2> QED BY <2>1, <2>2 DEF Before
<1>4. CASE l < k
  <2>1. l <= Len(t) /\ l <= Len(s) /\ s[l] = t[l]
    BY <1>1, <1>2, <1>4 DEF BeforeAt
  <2>2. BeforeAt(R, s, u, l)
    BY <1>1, <1>2, <1>4, <2>1 DEF BeforeAt
  <2> QED BY <2>2 DEF Before
<1>5. CASE k = l
  <2>1. <<t[l], u[l]>> \in R
    BY <1>1, <1>2, <1>5 DEF BeforeAt
  <2>2. k <= Len(s) => <<s[l], u[l]>> \in R
    <3> SUFFICES ASSUME k <= Len(s)
                 PROVE  <<s[l], u[l]>> \in R
      OBVIOUS
    <3>1. s[l] \in S /\ t[l] \in S /\ u[l] \in S
      BY <1>1, <1>2, <1>5
    <3>2. <<s[l], t[l]>> \in R
      BY <1>1, <1>5 DEF BeforeAt
    <3> QED BY <2>1, <3>1, <3>2 DEF IsOrder
  <2>3. BeforeAt(R, s, u, l)
    BY <1>1, <1>2, <1>5, <2>2 DEF BeforeAt
  <2> QED BY <2>3 DEF Before
<1> QED BY <1>3, <1>4, <1>5

(* Of two sequences one comes before the other.                             *)
LEMMA BeforeTotal ==
  ASSUME NEW S, NEW R, IsOrder(R, S), NEW s \in Seq(S), NEW t \in Seq(S), s # t
  PROVE  Before(R, s, t) \/ Before(R, t, s)
<1> DEFINE T == {k \in Nat \ {0} : \/ k <= Len(s) /\ k > Len(t)
                                   \/ k > Len(s) /\ k <= Len(t)
                                   \/ k <= Len(s) /\ k <= Len(t) /\ s[k] # t[k]}
<1>1. T # {}
  <2> SUFFICES ASSUME T = {}
               PROVE  s = t
    OBVIOUS
  <2>1. Len(s) = Len(t)
    <3>1. Len(s) \in Nat /\ Len(t) \in Nat
      OBVIOUS
    <3>2. ~ (Len(s) < Len(t))
      <4>1. Len(t) \in Nat \ {0} /\ Len(t) > Len(s) => Len(t) \in T
        BY <3>1
      <4> QED BY <3>1, <4>1
    <3>3. ~ (Len(t) < Len(s))
      <4>1. Len(s) \in Nat \ {0} /\ Len(s) > Len(t) => Len(s) \in T
        BY <3>1
      <4> QED BY <3>1, <4>1
    <3> QED BY <3>1, <3>2, <3>3
  <2>2. \A k \in 1 .. Len(s) : s[k] = t[k]
    BY <2>1
  <2> QED BY <2>1, <2>2
<1>2. T \subseteq Nat
  OBVIOUS
<1>3. PICK k \in T : \A j \in T : k <= j
  <2> HIDE DEF T
  <2> QED BY <1>1, <1>2, LeastNat
<1>4. k \in Nat \ {0} /\ \A j \in 1 .. k - 1 : j \notin T
  BY <1>3
<1>5. \A j \in 1 .. k - 1 : j <= Len(s) /\ j <= Len(t) /\ s[j] = t[j]
  <2> SUFFICES ASSUME NEW j \in 1 .. k - 1
               PROVE  j <= Len(s) /\ j <= Len(t) /\ s[j] = t[j]
    OBVIOUS
  <2>1. j \notin T /\ j \in Nat \ {0}
    BY <1>4
  <2>2. j <= k - 1 /\ (k <= Len(s) \/ k <= Len(t))
    BY <1>3, <1>4
  <2> QED BY <1>4, <2>1, <2>2
<1>6. k <= Len(s) + 1 /\ k <= Len(t) + 1
  <2>1. k = 1 \/ k - 1 \in 1 .. k - 1
    BY <1>4
  <2> QED BY <1>4, <1>5, <2>1
<1>7. CASE k > Len(s)
  <2>1. k \in 1 .. Len(t)
    BY <1>3, <1>4, <1>7
  <2>2. BeforeAt(R, s, t, k)
    BY <1>4, <1>5, <1>6, <1>7 DEF BeforeAt
  <2> QED BY <2>1, <2>2 DEF Before
<1>8. CASE k > Len(t)
  <2>1. k \in 1 .. Len(s)
    BY <1>3, <1>4, <1>8
  <2>2. BeforeAt(R, t, s, k)
    BY <1>4, <1>5, <1>6, <1>8 DEF BeforeAt
  <2> QED BY <2>1, <2>2 DEF Before
<1>9. CASE k <= Len(s) /\ k <= Len(t)
  <2>1. k \in 1 .. Len(s) /\ k \in 1 .. Len(t) /\ s[k] # t[k]
    BY <1>3, <1>4, <1>9
  <2>2. s[k] \in S /\ t[k] \in S
    BY <2>1
  <2>3. <<s[k], t[k]>> \in R \/ <<t[k], s[k]>> \in R
    BY <2>1, <2>2 DEF IsOrder
  <2>4. BeforeAt(R, s, t, k) \/ BeforeAt(R, t, s, k)
    BY <1>5, <1>6, <2>3 DEF BeforeAt
  <2> QED BY <2>1, <2>4 DEF Before
<1> QED BY <1>4, <1>7, <1>8, <1>9

Strings == Seq(Nat)

NumberOrder == {pair \in Nat \X Nat : pair[1] < pair[2]}
StringOrder == {pair \in Strings \X Strings : Less(pair[1], pair[2])}

LEMMA NumbersOrdered == IsOrder(NumberOrder, Nat)
BY DEF IsOrder, NumberOrder

(* The order of strings is that of their characters.                        *)
LEMMA LessIsBefore ==
  ASSUME NEW s \in Strings, NEW t \in Strings
  PROVE  Less(s, t) <=> Before(NumberOrder, s, t)
<1>1. ASSUME NEW k \in DOMAIN t, k <= Len(s)
      PROVE  s[k] < t[k] <=> <<s[k], t[k]>> \in NumberOrder
  <2>1. s[k] \in Nat /\ t[k] \in Nat
    BY <1>1 DEF Strings
  <2> QED BY <2>1 DEF NumberOrder
<1> QED BY <1>1 DEF Less, Before, BeforeAt

(* It is a strict total order.                                              *)
LEMMA StringsOrdered == IsOrder(StringOrder, Strings)
<1>1. \A s, t \in Strings : <<s, t>> \in StringOrder <=> Before(NumberOrder, s, t)
  BY LessIsBefore DEF StringOrder
<1>2. \A s \in Strings : ~ Before(NumberOrder, s, s)
  BY NumbersOrdered, BeforeIrreflexive DEF Strings
<1>3. \A s, t, u \in Strings :
        Before(NumberOrder, s, t) /\ Before(NumberOrder, t, u) => Before(NumberOrder, s, u)
  BY NumbersOrdered, BeforeTransitive DEF Strings
<1>4. \A s, t \in Strings : s # t => Before(NumberOrder, s, t) \/ Before(NumberOrder, t, s)
  BY NumbersOrdered, BeforeTotal DEF Strings
<1> QED BY <1>1, <1>2, <1>3, <1>4 DEF IsOrder

LEMMA LessOrders ==
  /\ \A s \in Strings : ~ Less(s, s)
  /\ \A s, t, u \in Strings : Less(s, t) /\ Less(t, u) => Less(s, u)
  /\ \A s, t \in Strings : s # t => Less(s, t) \/ Less(t, s)
<1>1. \A s, t \in Strings : <<s, t>> \in StringOrder <=> Less(s, t)
  BY DEF StringOrder
<1> QED BY <1>1, StringsOrdered DEF IsOrder

(* The order of the walk is that of the names.                              *)
LEMMA WalkedBeforeIsBefore ==
  ASSUME NEW p \in Seq(Strings), NEW q \in Seq(Strings)
  PROVE  WalkedBefore(p, q) <=> Before(StringOrder, p, q)
<1>1. ASSUME NEW k \in DOMAIN q, k <= Len(p)
      PROVE  Less(p[k], q[k]) <=> <<p[k], q[k]>> \in StringOrder
  <2>1. p[k] \in Strings /\ q[k] \in Strings
    BY <1>1
  <2> QED BY <2>1 DEF StringOrder
<1> QED BY <1>1 DEF WalkedBefore, Before, BeforeAt

(* It is a strict total order.                                              *)
LEMMA WalkOrders ==
  /\ \A p \in Seq(Strings) : ~ WalkedBefore(p, p)
  /\ \A p, q, r \in Seq(Strings) :
       WalkedBefore(p, q) /\ WalkedBefore(q, r) => WalkedBefore(p, r)
  /\ \A p, q \in Seq(Strings) : p # q => WalkedBefore(p, q) \/ WalkedBefore(q, p)
<1>1. \A p \in Seq(Strings) : ~ Before(StringOrder, p, p)
  BY StringsOrdered, BeforeIrreflexive
<1>2. \A p, q, r \in Seq(Strings) :
        Before(StringOrder, p, q) /\ Before(StringOrder, q, r) => Before(StringOrder, p, r)
  BY StringsOrdered, BeforeTransitive
<1>3. \A p, q \in Seq(Strings) :
        p # q => Before(StringOrder, p, q) \/ Before(StringOrder, q, p)
  BY StringsOrdered, BeforeTotal
<1> QED BY <1>1, <1>2, <1>3, WalkedBeforeIsBefore
(***************************************************************************)
(* A path as a string.                                                      *)
(***************************************************************************)
(* Functions on 0 .. N by recursion on a natural number.                    *)
IsRecursion(f, a, G, S, N) ==
  f \in [0 .. N -> S] /\ f[0] = a /\ \A n \in 1 .. N : f[n] = G[<<n, f[n - 1]>>]

LEMMA RecursionUpTo ==
  ASSUME NEW S, NEW a \in S, NEW N \in Nat, NEW G \in [(1 .. N) \X S -> S]
  PROVE  \E f : IsRecursion(f, a, G, S, N)
<1> DEFINE IsUpTo(f, k) == IsRecursion(f, a, G, S, k)
           T == {k \in Nat : k <= N => \E f : IsUpTo(f, k)}
<1>1. 0 \in T
  <2>1. IsUpTo([n \in 0 .. 0 |-> a], 0)
    BY DEF IsRecursion
  <2> QED BY <2>1
<1>2. ASSUME NEW k \in Nat, k \in T
      PROVE  k + 1 \in T
  <2> SUFFICES ASSUME k + 1 <= N
               PROVE  \E f : IsUpTo(f, k + 1)
    OBVIOUS
  <2>1. PICK f : IsUpTo(f, k)
    BY <1>2
  <2>2. PICK y : y = G[<<k + 1, f[k]>>]
    OBVIOUS
  <2>3. f[k] \in S /\ k + 1 \in 1 .. N
    BY <2>1 DEF IsRecursion
  <2>4. y \in S
    BY <2>2, <2>3
  <2>5. PICK h : h = [n \in 0 .. k + 1 |-> IF n = k + 1 THEN y ELSE f[n]]
    OBVIOUS
  <2>6. h \in [0 .. k + 1 -> S] /\ h[0] = a /\ h[k + 1] = y
    BY <2>1, <2>4, <2>5 DEF IsRecursion
  <2>7. \A n \in 0 .. k : h[n] = f[n]
    BY <2>5
  <2>8. ASSUME NEW n \in 1 .. k + 1
        PROVE  h[n] = G[<<n, h[n - 1]>>]
    <3>1. CASE n = k + 1
      <4>1. h[n - 1] = f[k]
        BY <3>1, <2>7
      <4> QED BY <3>1, <4>1, <2>2, <2>6
    <3>2. CASE n \in 1 .. k
      <4>1. h[n] = f[n] /\ h[n - 1] = f[n - 1]
        BY <3>2, <2>7
      <4>2. f[n] = G[<<n, f[n - 1]>>]
        BY <2>1, <3>2 DEF IsRecursion
      <4> QED BY <4>1, <4>2
    <3> QED BY <3>1, <3>2
  <2> QED BY <2>6, <2>8 DEF IsRecursion
<1> HIDE DEF T, IsUpTo
<1>3. Nat \subseteq T
  BY <1>1, <1>2, NatSetInduction
<1> QED BY <1>3 DEF T, IsUpTo

FileNames == Seq(Characters) \ {<<>>}
Paths == Seq(FileNames)

(* Names are strings.                                                       *)
LEMMA NamesAreStrings ==
  /\ FileNames \subseteq Strings /\ Paths \subseteq Seq(Strings) /\ Slash \in Nat
  /\ \A path \in Paths : \A n \in 1 .. Len(path) :
       /\ path[n] \in Strings /\ Len(path[n]) > 0
       /\ \A i \in 1 .. Len(path[n]) : path[n][i] \in Nat /\ Slash < path[n][i]
<1>1. FileNames \subseteq Strings /\ Slash \in Nat
  <2>1. ASSUME NEW name \in Seq(Characters)
        PROVE  name \in Seq(Nat)
    <3>1. name \in [1 .. Len(name) -> Characters] /\ Len(name) \in Nat
      OBVIOUS
    <3>2. name \in [1 .. Len(name) -> Nat]
      BY <3>1, DigitsFollowSlash
    <3> QED BY <3>1, <3>2
  <2> QED BY <2>1, DigitsFollowSlash DEF FileNames, Strings
<1>2. Paths \subseteq Seq(Strings)
  BY <1>1 DEF Paths
<1>3. ASSUME NEW path \in Paths, NEW n \in 1 .. Len(path)
      PROVE  /\ path[n] \in Strings /\ Len(path[n]) > 0
             /\ \A i \in 1 .. Len(path[n]) : path[n][i] \in Nat /\ Slash < path[n][i]
  <2>1. PICK name : name = path[n]
    OBVIOUS
  <2>2. name \in FileNames
    BY <2>1 DEF Paths
  <2>3. name \in Seq(Characters) /\ name # <<>> /\ name \in Strings
    BY <1>1, <2>2 DEF FileNames
  <2>4. Len(name) > 0
    BY <2>3
  <2>5. \A i \in 1 .. Len(name) : name[i] \in Characters
    BY <2>3
  <2> QED BY <2>1, <2>3, <2>4, <2>5, DigitsFollowSlash
<1> QED BY <1>1, <1>2, <1>3

(* The string of the first n names of a path, by what is before its last.   *)
NextString(s, n, path) == IF n = 1 THEN path[n] ELSE s \o <<Slash>> \o path[n]

IsStringOf(f, path) ==
  /\ f \in [0 .. Len(path) -> Strings] /\ f[0] = <<>>
  /\ \A n \in 1 .. Len(path) : f[n] = NextString(f[n - 1], n, path)

LEMMA RelPathIsString ==
  ASSUME NEW path \in Paths
  PROVE  \E f : IsStringOf(f, path) /\ RelPath(path) = f[Len(path)]
<1> DEFINE Recurs(f) ==
             f = [n \in 0 .. Len(path) |->
                   CASE n = 0 -> <<>>
                     [] n = 1 -> path[n]
                     [] OTHER -> f[n - 1] \o <<Slash>> \o path[n]]
<1>1. PICK N \in Nat : N = Len(path)
  BY DEF Paths
<1>2. PICK G : G = [p \in (1 .. N) \X Strings |-> NextString(p[2], p[1], path)]
  OBVIOUS
<1>3. ASSUME NEW n \in 1 .. N, NEW s \in Strings
      PROVE  G[<<n, s>>] = NextString(s, n, path) /\ NextString(s, n, path) \in Strings
  <2>1. path[n] \in Strings /\ Slash \in Nat
    BY <1>1, NamesAreStrings
  <2>2. <<Slash>> \in Seq(Nat)
    BY <2>1
  <2>3. s \o <<Slash>> \o path[n] \in Strings
    BY <2>1, <2>2 DEF Strings
  <2> QED BY <1>2, <2>1, <2>3 DEF NextString
<1>4. G \in [(1 .. N) \X Strings -> Strings]
  BY <1>2, <1>3
<1>5. <<>> \in Strings
  BY DEF Strings
<1>6. PICK g \in [0 .. N -> Strings] :
        g[0] = <<>> /\ \A n \in 1 .. N : g[n] = G[<<n, g[n - 1]>>]
  <2>1. PICK S, a : S = Strings /\ a = <<>>
    OBVIOUS
  <2>2. a \in S /\ G \in [(1 .. N) \X S -> S]
    BY <1>4, <1>5, <2>1
  <2>3. \E g : IsRecursion(g, a, G, S, N)
    BY <2>2, RecursionUpTo
  <2> QED BY <2>1, <2>3 DEF IsRecursion
<1>7. \A n \in 1 .. N : g[n] = NextString(g[n - 1], n, path)
  <2> SUFFICES ASSUME NEW n \in 1 .. N
               PROVE  g[n] = NextString(g[n - 1], n, path)
    OBVIOUS
  <2>1. g[n - 1] \in Strings
    BY <1>6
  <2> QED BY <1>3, <1>6, <2>1
<1>8. Recurs(g)
  <2>1. \A n \in 0 .. N : g[n] = CASE n = 0 -> <<>>
                                   [] n = 1 -> path[n]
                                   [] OTHER -> g[n - 1] \o <<Slash>> \o path[n]
    <3> SUFFICES ASSUME NEW n \in 0 .. N
                 PROVE  g[n] = CASE n = 0 -> <<>>
                                 [] n = 1 -> path[n]
                                 [] OTHER -> g[n - 1] \o <<Slash>> \o path[n]
      OBVIOUS
    <3>1. CASE n = 0
      BY <3>1, <1>6
    <3>2. CASE n = 1
      BY <3>2, <1>7 DEF NextString
    <3>3. CASE n # 0 /\ n # 1
      <4>1. n \in 1 .. N
        BY <3>3
      <4>2. g[n] = NextString(g[n - 1], n, path)
        BY <4>1, <1>7
      <4>3. g[n] = g[n - 1] \o <<Slash>> \o path[n]
        BY <3>3, <4>2 DEF NextString
      <4> QED BY <3>3, <4>3
    <3> QED BY <3>1, <3>2, <3>3
  <2> QED BY <1>1, <1>6, <2>1
<1>9. PICK r : r = CHOOSE f : Recurs(f)
  OBVIOUS
<1>10. RelPath(path) = r[Len(path)]
  BY <1>9 DEF RelPath
<1>11. Recurs(r)
  <2> HIDE DEF Recurs
  <2> QED BY <1>8, <1>9
<1>12. r = g
  <2> DEFINE T == {k \in Nat : k <= N => r[k] = g[k]}
  <2>1. \A n \in 0 .. N : r[n] = CASE n = 0 -> <<>>
                                   [] n = 1 -> path[n]
                                   [] OTHER -> r[n - 1] \o <<Slash>> \o path[n]
    BY <1>1, <1>11
  <2>2. 0 \in T
    BY <1>6, <2>1
  <2>3. ASSUME NEW k \in Nat, k \in T
        PROVE  k + 1 \in T
    <3> SUFFICES ASSUME k + 1 <= N
                 PROVE  r[k + 1] = g[k + 1]
      OBVIOUS
    <3>1. r[k] = g[k]
      BY <2>3
    <3>2. PICK m : m = k + 1
      OBVIOUS
    <3>3. m \in 0 .. N /\ m \in 1 .. N /\ m # 0 /\ m - 1 = k
      BY <3>2
    <3>4. r[m] = NextString(r[k], m, path)
      BY <2>1, <3>3 DEF NextString
    <3>5. g[m] = NextString(g[k], m, path)
      BY <1>7, <3>3
    <3> QED BY <3>1, <3>2, <3>4, <3>5
  <2> HIDE DEF T
  <2>4. Nat \subseteq T
    BY <2>2, <2>3, NatSetInduction
  <2>5. \A k \in 0 .. N : r[k] = g[k]
    BY <2>4 DEF T
  <2>6. r = [k \in 0 .. N |-> r[k]]
    BY <1>1, <1>11
  <2> QED BY <1>6, <2>5, <2>6
<1>13. IsStringOf(g, path)
  BY <1>1, <1>6, <1>7 DEF IsStringOf
<1> QED BY <1>10, <1>12, <1>13
(* t begins with s.                                                         *)
Starts(s, t) == Len(s) <= Len(t) /\ \A i \in 1 .. Len(s) : s[i] = t[i]

(* The characters of two strings one after the other.                       *)
LEMMA Concatenation ==
  ASSUME NEW s \in Strings, NEW t \in Strings, NEW u, u = s \o t
  PROVE  /\ u \in Strings /\ Len(u) = Len(s) + Len(t) /\ Starts(s, u)
         /\ \A i \in 1 .. Len(t) : u[Len(s) + i] = t[i]
<1>1. u \in Strings /\ Len(u) = Len(s) + Len(t)
  BY DEF Strings
<1>2. Starts(s, u)
  BY DEF Strings, Starts
<1>3. \A i \in 1 .. Len(t) : u[Len(s) + i] = t[i]
  <2> SUFFICES ASSUME NEW i \in 1 .. Len(t)
               PROVE  u[Len(s) + i] = t[i]
    OBVIOUS
  <2>1. PICK n \in Nat : n = Len(s)
    BY DEF Strings
  <2> QED BY <2>1 DEF Strings
<1> QED BY <1>1, <1>2, <1>3

(* What is before the k-th name in the string of a path.                    *)
Stem(f, k) == IF k = 1 THEN <<>> ELSE f[k - 1] \o <<Slash>>

(* It is followed by that name.                                             *)
LEMMA NameFollowsStem ==
  ASSUME NEW path \in Paths, NEW f, IsStringOf(f, path), NEW k \in 1 .. Len(path)
  PROVE  /\ Stem(f, k) \in Strings /\ f[k] \in Strings /\ f[k - 1] \in Strings
         /\ Starts(f[k - 1], Stem(f, k)) /\ Starts(Stem(f, k), f[k])
         /\ Len(f[k]) = Len(Stem(f, k)) + Len(path[k])
         /\ \A i \in 1 .. Len(path[k]) : f[k][Len(Stem(f, k)) + i] = path[k][i]
<1>1. PICK N \in Nat : N = Len(path)
  BY DEF Paths
<1>2. k \in 0 .. N /\ k - 1 \in 0 .. N
  BY <1>1
<1>3. f[k] \in Strings /\ f[k - 1] \in Strings /\ path[k] \in Strings /\ f[0] = <<>>
  BY <1>1, <1>2, NamesAreStrings DEF IsStringOf
<1>4. <<Slash>> \in Strings /\ <<>> \in Strings
  <2>1. Slash \in Nat
    BY NamesAreStrings
  <2> QED BY <2>1 DEF Strings
<1>5. PICK stem : stem = Stem(f, k)
  OBVIOUS
<1>6. stem \in Strings /\ Starts(f[k - 1], stem)
  <2>1. CASE k = 1
    <3>1. stem = <<>> /\ f[k - 1] = <<>>
      BY <1>3, <1>5, <2>1 DEF Stem
    <3> QED BY <3>1, <1>4 DEF Starts
  <2>2. CASE k # 1
    <3>1. stem = f[k - 1] \o <<Slash>>
      BY <1>5, <2>2 DEF Stem
    <3> QED BY <3>1, <1>3, <1>4, Concatenation
  <2> QED BY <2>1, <2>2
<1>7. f[k] = stem \o path[k]
  <2>1. f[k] = NextString(f[k - 1], k, path)
    BY DEF IsStringOf
  <2>2. CASE k = 1
    <3>1. f[k] = path[k] /\ stem = <<>>
      BY <1>5, <2>1, <2>2 DEF NextString, Stem
    <3>2. <<>> \o path[k] = path[k]
      BY <1>3 DEF Strings
    <3> QED BY <3>1, <3>2
  <2>3. CASE k # 1
    BY <1>5, <2>1, <2>3 DEF NextString, Stem
  <2> QED BY <2>2, <2>3
<1>8. PICK name : name = path[k]
  OBVIOUS
<1>9. name \in Strings /\ f[k] = stem \o name
  BY <1>3, <1>7, <1>8
<1>10. /\ Len(f[k]) = Len(stem) + Len(name) /\ Starts(stem, f[k])
       /\ \A i \in 1 .. Len(name) : f[k][Len(stem) + i] = name[i]
  <2>1. PICK u : u = f[k]
    OBVIOUS
  <2>2. u = stem \o name
    BY <1>9, <2>1
  <2>3. /\ Len(u) = Len(stem) + Len(name) /\ Starts(stem, u)
        /\ \A i \in 1 .. Len(name) : u[Len(stem) + i] = name[i]
    BY <1>6, <1>9, <2>2, Concatenation
  <2> QED BY <2>1, <2>3
<1> QED BY <1>3, <1>5, <1>6, <1>8, <1>10

LEMMA StartsTransitive ==
  ASSUME NEW s \in Strings, NEW t \in Strings, NEW u \in Strings, Starts(s, t), Starts(t, u)
  PROVE  Starts(s, u)
<1>1. Len(s) \in Nat /\ Len(t) \in Nat /\ Len(u) \in Nat
  BY DEF Strings
<1>2. Len(s) <= Len(t) /\ Len(t) <= Len(u)
  BY DEF Starts
<1>3. ASSUME NEW i \in 1 .. Len(s)
      PROVE  s[i] = u[i]
  <2>1. i \in 1 .. Len(t)
    BY <1>1, <1>2
  <2> QED BY <2>1 DEF Starts
<1> QED BY <1>1, <1>2, <1>3 DEF Starts

(* The string of the first n names begins that of more.                     *)
LEMMA StringsGrow ==
  ASSUME NEW path \in Paths, NEW f, IsStringOf(f, path),
         NEW n \in 0 .. Len(path), NEW m \in n .. Len(path)
  PROVE  Starts(f[n], f[m])
<1>1. PICK N \in Nat : N = Len(path)
  BY DEF Paths
<1> DEFINE T == {k \in Nat : n + k <= N => Starts(f[n], f[n + k])}
<1>2. \A k \in 0 .. N : f[k] \in Strings
  BY <1>1 DEF IsStringOf
<1>3. 0 \in T
  BY <1>1, <1>2 DEF Starts, Strings
<1>4. ASSUME NEW k \in Nat, k \in T
      PROVE  k + 1 \in T
  <2> SUFFICES ASSUME n + (k + 1) <= N
               PROVE  Starts(f[n], f[n + (k + 1)])
    OBVIOUS
  <2>1. Starts(f[n], f[n + k])
    BY <1>1, <1>4
  <2>2. PICK l : l = n + (k + 1)
    OBVIOUS
  <2>3. l \in 1 .. N /\ l - 1 = n + k /\ l - 1 \in 0 .. N /\ l \in 0 .. N
    BY <1>1, <2>2
  <2>4. /\ Starts(f[l - 1], Stem(f, l)) /\ Starts(Stem(f, l), f[l])
        /\ Stem(f, l) \in Strings
    BY <1>1, <2>3, NameFollowsStem
  <2>5. Starts(f[l - 1], f[l])
    BY <1>2, <2>3, <2>4, StartsTransitive
  <2>6. f[n] \in Strings
    BY <1>1, <1>2
  <2>7. Starts(f[n], f[l])
    BY <1>2, <2>1, <2>3, <2>5, <2>6, StartsTransitive
  <2> QED BY <2>2, <2>7
<1> HIDE DEF T
<1>5. Nat \subseteq T
  BY <1>3, <1>4, NatSetInduction
<1>6. m - n \in T /\ n + (m - n) = m /\ m <= N
  BY <1>1, <1>5
<1> QED BY <1>6 DEF T

(* After a name that is not the last comes the separator.                   *)
LEMMA SlashFollowsName ==
  ASSUME NEW path \in Paths, NEW f, IsStringOf(f, path), NEW k \in 1 .. Len(path) - 1,
         NEW s, s = f[Len(path)]
  PROVE  Len(s) > Len(f[k]) /\ s[Len(f[k]) + 1] = Slash
<1>1. PICK N \in Nat : N = Len(path)
  BY DEF Paths
<1>2. PICK l : l = k + 1
  OBVIOUS
<1>3. /\ l \in 1 .. Len(path) /\ l \in 0 .. Len(path) /\ l - 1 = k /\ l # 1
      /\ Len(path) \in l .. Len(path)
  BY <1>1, <1>2
<1>4. /\ Stem(f, l) \in Strings /\ Starts(Stem(f, l), f[l]) /\ f[l] \in Strings
      /\ f[k] \in Strings
  BY <1>3, NameFollowsStem
<1>5. Starts(f[l], s)
  BY <1>3, StringsGrow
<1>6. s \in Strings
  BY <1>1 DEF IsStringOf
<1>7. Starts(Stem(f, l), s)
  BY <1>4, <1>5, <1>6, StartsTransitive
<1>8. PICK stem, string, slash : stem = Stem(f, l) /\ string = f[k] /\ slash = <<Slash>>
  OBVIOUS
<1>9. stem = string \o slash
  BY <1>3, <1>8 DEF Stem
<1>10. string \in Strings /\ slash \in Strings /\ Len(slash) = 1 /\ slash[1] = Slash
  <2>1. Slash \in Nat
    BY NamesAreStrings
  <2> QED BY <2>1, <1>4, <1>8 DEF Strings
<1>11. Len(stem) = Len(string) + 1 /\ stem[Len(string) + 1] = Slash
  <2>1. Len(stem) = Len(string) + Len(slash)
    BY <1>9, <1>10, Concatenation
  <2>2. \A i \in 1 .. Len(slash) : stem[Len(string) + i] = slash[i]
    BY <1>9, <1>10, Concatenation
  <2>3. 1 \in 1 .. Len(slash)
    BY <1>10
  <2> QED BY <1>10, <2>1, <2>2, <2>3
<1>12. Len(string) \in Nat /\ Len(s) \in Nat
  BY <1>6, <1>10 DEF Strings
<1>13. PICK n : n = Len(string) + 1
  OBVIOUS
<1>14. Len(stem) = n /\ n \in 1 .. n /\ stem[n] = Slash
  BY <1>11, <1>12, <1>13
<1>15. n <= Len(s) /\ s[n] = stem[n]
  BY <1>7, <1>8, <1>14 DEF Starts
<1> QED BY <1>8, <1>12, <1>13, <1>14, <1>15

(* Paths with the same first names have the same first string.              *)
LEMMA SameStrings ==
  ASSUME NEW p \in Paths, NEW q \in Paths, NEW f, NEW g, IsStringOf(f, p), IsStringOf(g, q),
         NEW n \in Nat, n <= Len(p), n <= Len(q), \A j \in 1 .. n : p[j] = q[j]
  PROVE  f[n] = g[n]
<1>1. Len(p) \in Nat /\ Len(q) \in Nat
  BY DEF Paths
<1> DEFINE T == {k \in Nat : k <= n => f[k] = g[k]}
<1>2. 0 \in T
  BY DEF IsStringOf
<1>3. ASSUME NEW k \in Nat, k \in T
      PROVE  k + 1 \in T
  <2> SUFFICES ASSUME k + 1 <= n
               PROVE  f[k + 1] = g[k + 1]
    OBVIOUS
  <2>1. PICK l : l = k + 1
    OBVIOUS
  <2>2. l \in 1 .. Len(p) /\ l \in 1 .. Len(q) /\ l \in 1 .. n /\ l - 1 = k
    BY <1>1, <2>1
  <2>3. f[k] = g[k] /\ p[l] = q[l]
    BY <1>3, <2>2
  <2>4. f[l] = NextString(f[k], l, p) /\ g[l] = NextString(g[k], l, q)
    BY <2>2 DEF IsStringOf
  <2> QED BY <2>1, <2>3, <2>4 DEF NextString
<1> HIDE DEF T
<1>4. Nat \subseteq T
  BY <1>2, <1>3, NatSetInduction
<1> QED BY <1>4 DEF T
(* In string s, the k-th name follows the stem.                             *)
NameAfter(s, f, k, stem, name) ==
  /\ stem \in Strings /\ name \in Strings /\ s \in Strings
  /\ Starts(stem, s) /\ Starts(f[k - 1], s) /\ Starts(f[k - 1], stem)
  /\ Len(f[k]) = Len(stem) + Len(name) /\ Len(f[k]) <= Len(s)
  /\ \A i \in 1 .. Len(name) : s[Len(stem) + i] = name[i]

(* Where the k-th name is in the string of a path.                          *)
LEMMA NameInString ==
  ASSUME NEW path \in Paths, NEW f, IsStringOf(f, path), NEW k \in 1 .. Len(path),
         NEW s, s = f[Len(path)], NEW stem, stem = Stem(f, k), NEW name, name = path[k]
  PROVE  NameAfter(s, f, k, stem, name)
<1>1. PICK N \in Nat : N = Len(path)
  BY DEF Paths
<1>2. k \in 0 .. N /\ Len(path) \in k .. Len(path) /\ k \in 0 .. Len(path)
  BY <1>1
<1>3. name \in Strings /\ s \in Strings
  BY <1>1, NamesAreStrings DEF IsStringOf
<1>4. PICK u : u = f[k]
  OBVIOUS
<1>5. /\ stem \in Strings /\ u \in Strings /\ f[k - 1] \in Strings
      /\ Starts(f[k - 1], stem) /\ Starts(stem, u) /\ Len(u) = Len(stem) + Len(name)
      /\ \A i \in 1 .. Len(name) : u[Len(stem) + i] = name[i]
  BY <1>4, NameFollowsStem
<1>6. Starts(u, s)
  BY <1>2, <1>4, StringsGrow
<1>7. Starts(stem, s)
  BY <1>3, <1>5, <1>6, StartsTransitive
<1>8. Starts(f[k - 1], s)
  BY <1>3, <1>5, <1>7, StartsTransitive
<1>9. Len(stem) \in Nat /\ Len(name) \in Nat /\ Len(u) <= Len(s)
  BY <1>3, <1>5, <1>6 DEF Strings, Starts
<1>10. ASSUME NEW i \in 1 .. Len(name)
       PROVE  s[Len(stem) + i] = name[i]
  <2>1. PICK l : l = Len(stem) + i
    OBVIOUS
  <2>2. l \in 1 .. Len(u)
    BY <1>5, <1>9, <2>1
  <2>3. s[l] = u[l]
    BY <1>6, <2>2 DEF Starts
  <2> QED BY <1>5, <2>1, <2>3
<1> QED BY <1>3, <1>4, <1>5, <1>7, <1>8, <1>9, <1>10 DEF NameAfter

(* The order of the walk is the order of the paths as strings, because the  *)
(* separator comes before every character of a name.                        *)
LEMMA StringsFollowWalk ==
  ASSUME NEW p \in Paths, NEW q \in Paths, WalkedBefore(p, q),
         NEW s, s = RelPath(p), NEW t, t = RelPath(q)
  PROVE  Less(s, t)
<1>1. PICK f : IsStringOf(f, p) /\ s = f[Len(p)]
  BY RelPathIsString
<1>2. PICK g : IsStringOf(g, q) /\ t = g[Len(q)]
  BY RelPathIsString
<1>3. Len(p) \in Nat /\ Len(q) \in Nat
  BY DEF Paths
<1>4. PICK k \in 1 .. Len(q) : /\ k <= Len(p) + 1 /\ \A j \in 1 .. k - 1 : p[j] = q[j]
                               /\ k <= Len(p) => Less(p[k], q[k])
  BY DEF WalkedBefore, Paths
<1>5. f[k - 1] = g[k - 1]
  <2>1. k - 1 \in Nat /\ k - 1 <= Len(p) /\ k - 1 <= Len(q)
    BY <1>3, <1>4
  <2> QED BY <1>1, <1>2, <1>4, <2>1, SameStrings
<1>6. PICK stem, b : stem = Stem(g, k) /\ b = q[k]
  OBVIOUS
<1>7. stem = Stem(f, k)
  BY <1>5, <1>6 DEF Stem
<1>8. /\ stem \in Strings /\ b \in Strings /\ t \in Strings
      /\ Starts(stem, t) /\ Starts(g[k - 1], t) /\ Starts(g[k - 1], stem)
      /\ Len(g[k]) = Len(stem) + Len(b) /\ Len(g[k]) <= Len(t)
      /\ \A i \in 1 .. Len(b) : t[Len(stem) + i] = b[i]
  <2>1. NameAfter(t, g, k, stem, b)
    BY <1>2, <1>6, NameInString
  <2> QED BY <2>1 DEF NameAfter
<1>9. Len(b) > 0 /\ \A i \in 1 .. Len(b) : Slash < b[i]
  BY <1>6, NamesAreStrings
<1>10. s \in Strings
  BY <1>1, <1>3 DEF IsStringOf
<1>11. /\ Len(stem) \in Nat /\ Len(b) \in Nat /\ Len(t) \in Nat /\ Len(s) \in Nat
       /\ DOMAIN b = 1 .. Len(b) /\ DOMAIN t = 1 .. Len(t)
  <2>1. \A u \in Strings : Len(u) \in Nat /\ DOMAIN u = 1 .. Len(u)
    BY DEF Strings
  <2> QED BY <2>1, <1>8, <1>10
<1>12. CASE k = Len(p) + 1
  <2>1. s = g[k - 1]
    BY <1>1, <1>3, <1>5, <1>12
  <2>2. Starts(s, t) /\ Len(s) <= Len(stem)
    BY <1>8, <2>1 DEF Starts
  <2>3. PICK l : l = Len(s) + 1
    OBVIOUS
  <2>4. l \in DOMAIN t /\ l <= Len(s) + 1 /\ ~ (l <= Len(s))
    BY <1>8, <1>9, <1>11, <2>2, <2>3 DEF Strings
  <2>5. \A i \in 1 .. l - 1 : s[i] = t[i]
    BY <1>11, <2>2, <2>3 DEF Starts
  <2> QED BY <2>4, <2>5 DEF Less
<1>13. CASE k <= Len(p)
  <2>1. k \in 1 .. Len(p)
    BY <1>13
  <2>2. PICK a : a = p[k]
    OBVIOUS
  <2>3. /\ a \in Strings /\ Starts(stem, s)
        /\ Len(f[k]) = Len(stem) + Len(a) /\ Len(f[k]) <= Len(s)
        /\ \A i \in 1 .. Len(a) : s[Len(stem) + i] = a[i]
    <3>1. NameAfter(s, f, k, stem, a)
      BY <1>1, <1>7, <2>1, <2>2, NameInString
    <3> QED BY <3>1 DEF NameAfter
  <2>4. PICK j \in DOMAIN b : /\ j <= Len(a) + 1 /\ \A i \in 1 .. j - 1 : a[i] = b[i]
                              /\ j <= Len(a) => a[j] < b[j]
    <3>1. Less(a, b)
      BY <1>4, <1>6, <1>13, <2>2
    <3> QED BY <3>1 DEF Less
  <2>5. Len(a) \in Nat /\ j \in 1 .. Len(b)
    <3>1. Len(a) \in Nat
      BY <2>3 DEF Strings
    <3> QED BY <1>11, <3>1
  <2>6. PICK l : l = Len(stem) + j
    OBVIOUS
  <2>7. l \in DOMAIN t /\ t[l] = b[j] /\ l <= Len(s) + 1
    <3>1. t[l] = b[j]
      BY <1>8, <2>5, <2>6
    <3>2. l \in 1 .. Len(t) /\ l <= Len(s) + 1
      <4>1. Len(stem) + Len(b) <= Len(t) /\ Len(stem) + Len(a) <= Len(s)
        BY <1>8, <2>3
      <4>2. j <= Len(b) /\ j <= Len(a) + 1 /\ 1 <= j /\ j \in Nat
        BY <2>4, <2>5
      <4> QED BY <1>11, <2>5, <2>6, <4>1, <4>2
    <3> QED BY <1>11, <3>1, <3>2
  <2>8. ASSUME NEW i \in 1 .. l - 1
        PROVE  s[i] = t[i]
    <3>1. CASE i <= Len(stem)
      <4>1. i \in 1 .. Len(stem)
        BY <1>11, <2>5, <2>6, <3>1
      <4> QED BY <1>8, <2>3, <4>1 DEF Starts
    <3>2. CASE ~ (i <= Len(stem))
      <4>1. PICK m : m = i - Len(stem)
        OBVIOUS
      <4>2. /\ m \in 1 .. j - 1 /\ m \in 1 .. Len(a) /\ m \in 1 .. Len(b)
            /\ i = Len(stem) + m
        BY <1>11, <2>4, <2>5, <2>6, <3>2, <4>1
      <4>3. s[i] = a[m] /\ t[i] = b[m]
        BY <1>8, <2>3, <4>2
      <4> QED BY <2>4, <4>2, <4>3
    <3> QED BY <3>1, <3>2
  <2>9. ASSUME l <= Len(s)
        PROVE  s[l] < t[l]
    <3>1. CASE j <= Len(a)
      <4>1. s[l] = a[j]
        BY <2>3, <2>5, <2>6, <3>1
      <4> QED BY <2>4, <2>7, <3>1, <4>1
    <3>2. CASE ~ (j <= Len(a))
      <4>1. l = Len(f[k]) + 1
        BY <1>11, <2>3, <2>4, <2>5, <2>6, <3>2
      <4>2. k # Len(p)
        <5> SUFFICES ASSUME k = Len(p)
                     PROVE  FALSE
          OBVIOUS
        <5>1. l = Len(s) + 1
          BY <1>1, <4>1
        <5> QED BY <1>11, <2>9, <5>1
      <4>3. k \in 1 .. Len(p) - 1
        BY <1>3, <2>1, <4>2
      <4>4. s[Len(f[k]) + 1] = Slash
        BY <1>1, <4>3, SlashFollowsName
      <4> QED BY <1>9, <2>5, <2>7, <4>1, <4>4
    <3> QED BY <3>1, <3>2
  <2> QED BY <2>7, <2>8, <2>9 DEF Less
<1> QED BY <1>3, <1>4, <1>12, <1>13

(* So paths are equal when their strings are.                               *)
LEMMA RelPathInjective ==
  ASSUME NEW p \in Paths, NEW q \in Paths
  PROVE  /\ RelPath(p) \in Strings
         /\ RelPath(p) = RelPath(q) => p = q
<1>1. RelPath(p) \in Strings
  <2>1. PICK f : IsStringOf(f, p) /\ RelPath(p) = f[Len(p)]
    BY RelPathIsString
  <2>2. Len(p) \in 0 .. Len(p)
    BY DEF Paths
  <2> QED BY <2>1, <2>2 DEF IsStringOf
<1>2. ASSUME p # q
      PROVE  RelPath(p) # RelPath(q)
  <2>1. p \in Seq(Strings) /\ q \in Seq(Strings)
    BY NamesAreStrings
  <2>2. WalkedBefore(p, q) \/ WalkedBefore(q, p)
    BY <1>2, <2>1, WalkOrders
  <2>3. Less(RelPath(p), RelPath(q)) \/ Less(RelPath(q), RelPath(p))
    BY <2>2, StringsFollowWalk
  <2> QED BY <1>1, <2>3, LessOrders
<1> QED BY <1>1, <1>2

LEMMA RelPathOfRoot == Root \in Paths /\ RelPath(Root) = <<>>
<1>1. Root \in Paths /\ Len(Root) = 0
  BY DEF Root, Paths
<1>2. PICK f : IsStringOf(f, Root) /\ RelPath(Root) = f[Len(Root)]
  BY <1>1, RelPathIsString
<1> QED BY <1>1, <1>2 DEF IsStringOf
(***************************************************************************)
(* The listing of a walk is sorted.                                         *)
(***************************************************************************)
(* How many entries of D the walk meets before p.                           *)
Predecessors(D, p) == {q \in D : WalkedBefore(q, p)}
Place(D, p) == Cardinality(Predecessors(D, p))

(* That many are distinct for distinct entries, and fewer than there are.   *)
LEMMA PlacesFollowWalk ==
  ASSUME NEW D, IsFiniteSet(D), D \subseteq Paths, NEW n, n = Cardinality(D)
  PROVE  /\ n \in Nat
         /\ \A p \in D : Place(D, p) \in 0 .. n - 1
         /\ \A p, q \in D : WalkedBefore(p, q) => Place(D, p) < Place(D, q)
<1>1. D \subseteq Seq(Strings)
  BY NamesAreStrings
<1>2. n \in Nat
  BY FS_CardinalityType
<1>3. ASSUME NEW p \in D
      PROVE  IsFiniteSet(Predecessors(D, p)) /\ Place(D, p) \in 0 .. n - 1
  <2>1. PICK P : P = Predecessors(D, p)
    OBVIOUS
  <2>2. P \in SUBSET D
    BY <2>1 DEF Predecessors
  <2>3. IsFiniteSet(P) /\ Cardinality(P) <= n /\ (n = Cardinality(P) => D = P)
    BY <2>2, FS_Subset
  <2>4. p \notin P
    BY <1>1, <2>1, WalkOrders DEF Predecessors
  <2>5. Cardinality(P) \in Nat /\ Cardinality(P) # n
    BY <2>3, <2>4, FS_CardinalityType
  <2> QED BY <1>2, <2>1, <2>3, <2>5 DEF Place
<1>4. ASSUME NEW p \in D, NEW q \in D, WalkedBefore(p, q)
      PROVE  Place(D, p) < Place(D, q)
  <2>1. PICK P, Q : P = Predecessors(D, p) /\ Q = Predecessors(D, q)
    OBVIOUS
  <2>2. P \in SUBSET Q
    <3>1. ASSUME NEW r \in P
          PROVE  r \in Q
      <4>1. r \in D /\ WalkedBefore(r, p)
        BY <2>1 DEF Predecessors
      <4>2. WalkedBefore(r, q)
        BY <1>1, <1>4, <4>1, WalkOrders
      <4> QED BY <2>1, <4>1, <4>2 DEF Predecessors
    <3> QED BY <3>1
  <2>3. p \in Q /\ p \notin P
    BY <1>1, <1>4, <2>1, WalkOrders DEF Predecessors
  <2>4. IsFiniteSet(Q)
    BY <1>3, <2>1
  <2>5. Cardinality(P) <= Cardinality(Q) /\ (Cardinality(Q) = Cardinality(P) => Q = P)
    BY <2>2, <2>4, FS_Subset
  <2>6. Cardinality(P) \in Nat /\ Cardinality(Q) \in Nat
    BY <1>3, <2>1, FS_CardinalityType
  <2> QED BY <2>1, <2>3, <2>5, <2>6 DEF Place
<1> QED BY <1>2, <1>3, <1>4

(* And an entry of D has each place.                                        *)
LEMMA PlacesAreTaken ==
  ASSUME NEW D, IsFiniteSet(D), D \subseteq Paths, NEW n, n = Cardinality(D)
  PROVE  /\ \A p, q \in D : Place(D, p) = Place(D, q) => p = q
         /\ \A i \in 0 .. n - 1 : \E p \in D : Place(D, p) = i
<1>1. D \subseteq Seq(Strings)
  BY NamesAreStrings
<1>2. /\ n \in Nat /\ \A p \in D : Place(D, p) \in 0 .. n - 1
      /\ \A p, q \in D : WalkedBefore(p, q) => Place(D, p) < Place(D, q)
  BY PlacesFollowWalk
<1>3. ASSUME NEW p \in D, NEW q \in D, p # q
      PROVE  Place(D, p) # Place(D, q)
  <2>1. WalkedBefore(p, q) \/ WalkedBefore(q, p)
    BY <1>1, <1>3, WalkOrders
  <2>2. Place(D, p) < Place(D, q) \/ Place(D, q) < Place(D, p)
    BY <1>2, <2>1
  <2>3. Place(D, p) \in Nat /\ Place(D, q) \in Nat
    BY <1>2
  <2> QED BY <2>2, <2>3
<1>4. PICK f, I : f = [p \in D |-> Place(D, p)] /\ I = 0 .. n - 1
  OBVIOUS
<1>5. f \in [D -> I] /\ \A p, q \in D : f[p] = f[q] => p = q
  BY <1>2, <1>3, <1>4
<1>6. f \in Injection(D, I)
  BY <1>5 DEF Injection, IsInjective
<1>7. IsFiniteSet(I) /\ Cardinality(I) = n
  <2>1. PICK a, b \in Int : a = 0 /\ b = n - 1
    BY <1>2
  <2>2. IsFiniteSet(a .. b) /\ Cardinality(a .. b) = IF a > b THEN 0 ELSE b - a + 1
    BY FS_Interval
  <2> QED BY <1>2, <1>4, <2>1, <2>2
<1>8. f \in Surjection(D, I)
  BY <1>6, <1>7, FS_Injection
<1>9. \A i \in I : \E p \in D : f[p] = i
  BY <1>8 DEF Surjection
<1> QED BY <1>3, <1>4, <1>9

(* A list of entries, the first the root, sorted by their paths as strings. *)
IsListing(list) ==
  /\ Len(list) \in Nat \ {0} /\ DOMAIN list = 1 .. Len(list)
  /\ list = [i \in 1 .. Len(list) |-> list[i]]
  /\ \A i \in 1 .. Len(list) : list[i].path \in Paths /\ list[i].rel_path = RelPath(list[i].path)
  /\ list[1].path = Root
  /\ \A j \in 1 .. Len(list) : \A i \in 1 .. j - 1 : Less(list[i].rel_path, list[j].rel_path)

(* What a walk of a tree lists.                                             *)
LEMMA WalkIsSorted ==
  ASSUME NEW found, IsFiniteSet(DOMAIN found), DOMAIN found \subseteq Paths,
         Root \in DOMAIN found
  PROVE  IsListing(Walk(found))
<1>1. PICK D, n : D = DOMAIN found /\ n = Cardinality(D)
  OBVIOUS
<1>2. /\ n \in Nat /\ \A p \in D : Place(D, p) \in 0 .. n - 1
      /\ \A p, q \in D : WalkedBefore(p, q) => Place(D, p) < Place(D, q)
  BY <1>1, PlacesFollowWalk
<1>3. /\ \A p, q \in D : Place(D, p) = Place(D, q) => p = q
      /\ \A i \in 0 .. n - 1 : \E p \in D : Place(D, p) = i
  BY <1>1, PlacesAreTaken
<1>4. n # 0
  <2>1. Place(D, Root) \in 0 .. n - 1
    BY <1>1, <1>2
  <2> QED BY <1>2, <2>1
<1>5. PICK list : list = Walk(found)
  OBVIOUS
<1> DEFINE at(i) == CHOOSE p \in D : Place(D, p) = i - 1
<1>6. list = [i \in 1 .. n |-> FileInfo(found, at(i))]
  BY <1>1, <1>5 DEF Walk, Place, Predecessors
<1>7. ASSUME NEW i \in 1 .. n
      PROVE  at(i) \in D /\ Place(D, at(i)) = i - 1
  <2>1. i - 1 \in 0 .. n - 1
    BY <1>2
  <2> QED BY <1>3, <2>1
<1> HIDE DEF at
<1>8. Len(list) = n /\ DOMAIN list = 1 .. n /\ list = [i \in 1 .. n |-> list[i]]
  BY <1>2, <1>6
<1>9. \A i \in 1 .. n : /\ list[i].path = at(i) /\ list[i].path \in Paths
                        /\ list[i].rel_path = RelPath(list[i].path)
  BY <1>1, <1>6, <1>7 DEF FileInfo
<1>10. at(1) = Root
  <2>1. Predecessors(D, Root) = {}
    <3>1. DOMAIN Root = {}
      BY DEF Root
    <3> QED BY <3>1 DEF Predecessors, WalkedBefore
  <2>2. Place(D, Root) = 0
    BY <2>1, FS_EmptySet DEF Place
  <2>3. 1 \in 1 .. n
    BY <1>2, <1>4
  <2> QED BY <1>1, <1>3, <1>7, <2>2, <2>3
<1>11. ASSUME NEW j \in 1 .. n, NEW i \in 1 .. j - 1
       PROVE  Less(list[i].rel_path, list[j].rel_path)
  <2>1. i \in 1 .. n /\ i < j
    BY <1>2
  <2>2. at(i) \in D /\ at(j) \in D /\ Place(D, at(i)) < Place(D, at(j))
    BY <1>2, <1>7, <2>1
  <2>3. ~ WalkedBefore(at(j), at(i)) /\ at(i) # at(j)
    BY <1>2, <2>2
  <2>4. at(i) \in Seq(Strings) /\ at(j) \in Seq(Strings) /\ at(i) \in Paths /\ at(j) \in Paths
    BY <1>1, <2>2, NamesAreStrings
  <2>5. WalkedBefore(at(i), at(j))
    BY <2>3, <2>4, WalkOrders
  <2>6. Less(RelPath(at(i)), RelPath(at(j)))
    BY <2>4, <2>5, StringsFollowWalk
  <2> QED BY <1>9, <2>1, <2>6
<1>12. 1 \in 1 .. n
  BY <1>2, <1>4
<1>13. IsListing(list)
  BY <1>2, <1>4, <1>8, <1>9, <1>10, <1>11, <1>12 DEF IsListing
<1> QED BY <1>5, <1>13
(***************************************************************************)
(* The hashes of listings.                                                  *)
(***************************************************************************)
LEMMA PrefixStarts ==
  ASSUME NEW s \in Strings, NEW t \in Strings
  PROVE  Seqs!IsPrefix(s, t) <=> Starts(s, t)
<1>1. PICK n, m \in Nat : n = Len(s) /\ m = Len(t)
  BY DEF Strings
<1>2. CASE n <= m
  <2>1. SubSeq(s, 1, n) \in Strings /\ Len(SubSeq(s, 1, n)) = n
        /\ \A i \in 1 .. n : SubSeq(s, 1, n)[i] = s[i]
    BY <1>1 DEF Strings
  <2>2. SubSeq(t, 1, n) \in Strings /\ Len(SubSeq(t, 1, n)) = n
        /\ \A i \in 1 .. n : SubSeq(t, 1, n)[i] = t[i]
    BY <1>1, <1>2 DEF Strings
  <2>3. PICK a, b : a = SubSeq(s, 1, n) /\ b = SubSeq(t, 1, n)
    OBVIOUS
  <2>4. a = b <=> \A i \in 1 .. n : a[i] = b[i]
    BY <2>1, <2>2, <2>3 DEF Strings
  <2> QED BY <1>1, <1>2, <2>1, <2>2, <2>3, <2>4 DEF Seqs!IsPrefix, Starts
<1>3. CASE ~ (n <= m)
  BY <1>1, <1>3 DEF Seqs!IsPrefix, Starts
<1> QED BY <1>2, <1>3

(* A string does not come before one that it begins with.                   *)
LEMMA PrefixNotAfter ==
  ASSUME NEW s \in Strings, NEW t \in Strings, Starts(t, s)
  PROVE  ~ Less(s, t)
<1> SUFFICES ASSUME Less(s, t)
             PROVE  FALSE
  OBVIOUS
<1>1. PICK k \in 1 .. Len(t) : k <= Len(s) => s[k] < t[k]
  BY DEF Less, Strings
<1>2. Len(s) \in Nat /\ Len(t) \in Nat /\ s[k] = t[k] /\ k <= Len(s)
  BY <1>1 DEF Strings, Starts
<1>3. t[k] \in Nat
  BY <1>1 DEF Strings
<1> QED BY <1>1, <1>2, <1>3

(* The hash after n entries, from what it is after one entry less.          *)
NextHash(s, n, list, rel_path) ==
  IF Seqs!IsPrefix(rel_path, list[n].rel_path) THEN Append(s, AddToHasher(list[n])) ELSE s

Hashes(list) == Seq({AddToHasher(list[i]) : i \in 1 .. Len(list)})

IsHasher(h, list, rel_path) ==
  /\ h \in [0 .. Len(list) -> Hashes(list)] /\ h[0] = <<>>
  /\ \A n \in 1 .. Len(list) : h[n] = NextHash(h[n - 1], n, list, rel_path)

LEMMA HashIsHasher ==
  ASSUME NEW list, Len(list) \in Nat, NEW rel_path
  PROVE  \E h : IsHasher(h, list, rel_path) /\ CalcFileinfoHash(list, rel_path) = h[Len(list)]
<1> DEFINE Recurs(f) ==
             f = [n \in 0 .. Len(list) |->
                   CASE n = 0 -> <<>>
                     [] n > 0 /\ Seqs!IsPrefix(rel_path, list[n].rel_path) ->
                          Append(f[n - 1], AddToHasher(list[n]))
                     [] OTHER -> f[n - 1]]
<1>1. PICK N \in Nat : N = Len(list)
  OBVIOUS
<1>2. PICK S, a : S = Hashes(list) /\ a = <<>>
  OBVIOUS
<1>3. PICK G : G = [p \in (1 .. N) \X S |-> NextHash(p[2], p[1], list, rel_path)]
  OBVIOUS
<1>4. ASSUME NEW n \in 1 .. N, NEW s \in S
      PROVE  G[<<n, s>>] = NextHash(s, n, list, rel_path) /\ NextHash(s, n, list, rel_path) \in S
  <2>1. PICK E, e : E = {AddToHasher(list[i]) : i \in 1 .. Len(list)} /\ e = AddToHasher(list[n])
    OBVIOUS
  <2>2. e \in E /\ S = Seq(E)
    BY <1>1, <1>2, <2>1 DEF Hashes
  <2>3. Append(s, e) \in S
    BY <2>2
  <2> QED BY <1>3, <2>1, <2>3 DEF NextHash
<1>5. a \in S /\ G \in [(1 .. N) \X S -> S]
  <2>1. a \in S
    BY <1>2 DEF Hashes
  <2>2. ASSUME NEW p \in (1 .. N) \X S
        PROVE  G[p] \in S
    <3>1. PICK n \in 1 .. N, s \in S : p = <<n, s>>
      OBVIOUS
    <3> QED BY <1>4, <3>1
  <2>3. DOMAIN G = (1 .. N) \X S /\ G = [p \in (1 .. N) \X S |-> G[p]]
    BY <1>3
  <2> QED BY <2>1, <2>2, <2>3
<1>6. PICK g : IsRecursion(g, a, G, S, N)
  <2> HIDE DEF Recurs
  <2> QED BY <1>5, RecursionUpTo
<1>7. g \in [0 .. N -> S] /\ g[0] = <<>>
  BY <1>2, <1>6 DEF IsRecursion
<1>8. \A n \in 1 .. N : g[n] = NextHash(g[n - 1], n, list, rel_path)
  <2> SUFFICES ASSUME NEW n \in 1 .. N
               PROVE  g[n] = NextHash(g[n - 1], n, list, rel_path)
    OBVIOUS
  <2>1. g[n - 1] \in S /\ g[n] = G[<<n, g[n - 1]>>]
    BY <1>6, <1>7 DEF IsRecursion
  <2> QED BY <1>4, <2>1
<1> DEFINE Value(f, n) ==
             CASE n = 0 -> <<>>
               [] n > 0 /\ Seqs!IsPrefix(rel_path, list[n].rel_path) ->
                    Append(f[n - 1], AddToHasher(list[n]))
               [] OTHER -> f[n - 1]
<1>9. \A f : \A n \in 1 .. N : Value(f, n) = NextHash(f[n - 1], n, list, rel_path)
  <2> SUFFICES ASSUME NEW f, NEW n \in 1 .. N
               PROVE  Value(f, n) = NextHash(f[n - 1], n, list, rel_path)
    OBVIOUS
  <2>1. n > 0 /\ n # 0
    OBVIOUS
  <2>2. CASE Seqs!IsPrefix(rel_path, list[n].rel_path)
    BY <2>1, <2>2 DEF NextHash
  <2>3. CASE ~ Seqs!IsPrefix(rel_path, list[n].rel_path)
    BY <2>1, <2>3 DEF NextHash
  <2> QED BY <2>2, <2>3
<1>10. \A f : Value(f, 0) = <<>>
  OBVIOUS
<1>11. \A f : Recurs(f) <=> f = [n \in 0 .. N |-> Value(f, n)]
  BY <1>1
<1> HIDE DEF Value
<1>12. Recurs(g)
  <2>1. \A n \in 0 .. N : g[n] = Value(g, n)
    BY <1>7, <1>8, <1>9, <1>10
  <2>2. g = [n \in 0 .. N |-> Value(g, n)]
    BY <1>7, <2>1
  <2> QED BY <1>11, <2>2
<1>13. PICK r : r = CHOOSE f : Recurs(f)
  OBVIOUS
<1>14. CalcFileinfoHash(list, rel_path) = r[Len(list)]
  BY <1>13 DEF CalcFileinfoHash
<1> HIDE DEF Recurs
<1>15. r = [n \in 0 .. N |-> Value(r, n)]
  BY <1>11, <1>12, <1>13
<1>16. r = g
  <2> DEFINE T == {k \in Nat : k <= N => r[k] = g[k]}
  <2>1. 0 \in T
    BY <1>7, <1>10, <1>15
  <2>2. ASSUME NEW k \in Nat, k \in T
        PROVE  k + 1 \in T
    <3> SUFFICES ASSUME k + 1 <= N
                 PROVE  r[k + 1] = g[k + 1]
      OBVIOUS
    <3>1. PICK m : m = k + 1
      OBVIOUS
    <3>2. m \in 0 .. N /\ m \in 1 .. N /\ m - 1 = k /\ r[k] = g[k]
      BY <2>2, <3>1
    <3>3. r[m] = NextHash(r[k], m, list, rel_path)
      BY <1>9, <1>15, <3>2
    <3>4. g[m] = NextHash(g[k], m, list, rel_path)
      BY <1>8, <3>2
    <3> QED BY <3>1, <3>2, <3>3, <3>4
  <2> HIDE DEF T
  <2>3. Nat \subseteq T
    BY <2>1, <2>2, NatSetInduction
  <2>4. \A k \in 0 .. N : r[k] = g[k]
    BY <2>3 DEF T
  <2>5. r = [k \in 0 .. N |-> r[k]]
    BY <1>15
  <2> QED BY <1>7, <2>4, <2>5
<1>17. IsHasher(g, list, rel_path)
  BY <1>1, <1>2, <1>7, <1>8 DEF IsHasher
<1> QED BY <1>14, <1>16, <1>17
(* What two listings with the same hash have in common.                     *)
LEMMA SameHash ==
  ASSUME NEW a, NEW b, IsListing(a), IsListing(b), DirHash(a) = DirHash(b)
  PROVE  /\ Len(a) = Len(b)
         /\ \A i \in 1 .. Len(a) : /\ AddToHasher(a[i]) = AddToHasher(b[i])
                                   /\ a[i].rel_path = b[i].rel_path /\ a[i].path = b[i].path
<1>1. PICK n, m \in Nat : /\ n = Len(a) /\ m = Len(b) /\ n # 0 /\ m # 0
                          /\ DOMAIN a = 1 .. n /\ DOMAIN b = 1 .. m
  BY DEF IsListing
<1>2. n = m
  <2>1. DOMAIN DirHash(a) = 1 .. n /\ DOMAIN DirHash(b) = 1 .. m
    BY <1>1 DEF DirHash
  <2> QED BY <1>1, <2>1
<1>3. ASSUME NEW i \in 1 .. n
      PROVE  /\ AddToHasher(a[i]) = AddToHasher(b[i])
             /\ a[i].rel_path = b[i].rel_path /\ a[i].path = b[i].path
  <2>1. DirHash(a)[i] = AddToHasher(a[i]) /\ DirHash(b)[i] = AddToHasher(b[i])
    BY <1>1, <1>2 DEF DirHash
  <2>2. AddToHasher(a[i]) = AddToHasher(b[i])
    BY <2>1
  <2>3. a[i].rel_path = b[i].rel_path
    BY <2>2 DEF AddToHasher
  <2>4. /\ a[i].path \in Paths /\ a[i].rel_path = RelPath(a[i].path)
        /\ b[i].path \in Paths /\ b[i].rel_path = RelPath(b[i].path)
    BY <1>1, <1>2 DEF IsListing
  <2> QED BY <2>2, <2>3, <2>4, RelPathInjective
<1> QED BY <1>1, <1>2, <1>3

(* Then every entry has the same hash on both sides.                        *)
LEMMA SameHashesBelow ==
  ASSUME NEW a, NEW b, IsListing(a), IsListing(b), DirHash(a) = DirHash(b), NEW rel_path
  PROVE  CalcFileinfoHash(a, rel_path) = CalcFileinfoHash(b, rel_path)
<1>1. PICK n \in Nat : n = Len(a)
  BY DEF IsListing
<1>2. n = Len(b)
  BY <1>1, SameHash
<1>3. PICK f : IsHasher(f, a, rel_path) /\ CalcFileinfoHash(a, rel_path) = f[n]
  BY <1>1, HashIsHasher
<1>4. PICK g : IsHasher(g, b, rel_path) /\ CalcFileinfoHash(b, rel_path) = g[n]
  BY <1>2, HashIsHasher
<1> DEFINE T == {k \in Nat : k <= n => f[k] = g[k]}
<1>5. 0 \in T
  BY <1>3, <1>4 DEF IsHasher
<1>6. ASSUME NEW k \in Nat, k \in T
      PROVE  k + 1 \in T
  <2> SUFFICES ASSUME k + 1 <= n
               PROVE  f[k + 1] = g[k + 1]
    OBVIOUS
  <2>1. PICK l : l = k + 1
    OBVIOUS
  <2>2. l \in 1 .. n /\ l - 1 = k /\ f[k] = g[k]
    BY <1>6, <2>1
  <2>3. AddToHasher(a[l]) = AddToHasher(b[l]) /\ a[l].rel_path = b[l].rel_path
    BY <1>1, <2>2, SameHash
  <2>4. f[l] = NextHash(f[k], l, a, rel_path) /\ g[l] = NextHash(g[k], l, b, rel_path)
    BY <1>1, <1>2, <1>3, <1>4, <2>2 DEF IsHasher
  <2>5. f[l] = g[l]
    BY <2>2, <2>3, <2>4 DEF NextHash
  <2> QED BY <2>1, <2>5
<1> HIDE DEF T
<1>7. Nat \subseteq T
  BY <1>5, <1>6, NatSetInduction
<1>8. f[n] = g[n]
  BY <1>7 DEF T
<1> QED BY <1>3, <1>4, <1>8

LEMMA ListedPaths ==
  ASSUME NEW list, IsListing(list), NEW i \in 1 .. Len(list)
  PROVE  list[i].rel_path \in Strings
BY RelPathInjective DEF IsListing

(* The hash of the root is that of the whole list.                          *)
LEMMA RootHash ==
  ASSUME NEW list, IsListing(list)
  PROVE  CalcFileinfoHash(list, <<>>) = DirHash(list)
<1>1. PICK n \in Nat : n = Len(list)
  BY DEF IsListing
<1>2. PICK root : root = <<>>
  OBVIOUS
<1>3. PICK f : IsHasher(f, list, root) /\ CalcFileinfoHash(list, root) = f[n]
  BY <1>1, HashIsHasher
<1>4. PICK E : E = {AddToHasher(list[i]) : i \in 1 .. Len(list)}
  OBVIOUS
<1>5. f \in [0 .. n -> Seq(E)] /\ f[0] = <<>>
  BY <1>1, <1>3, <1>4 DEF IsHasher, Hashes
<1>6. ASSUME NEW i \in 1 .. n
      PROVE  Seqs!IsPrefix(root, list[i].rel_path)
  <2>1. root \in Strings /\ Len(root) = 0
    BY <1>2 DEF Strings
  <2>2. list[i].rel_path \in Strings
    BY <1>1, ListedPaths
  <2>3. Starts(root, list[i].rel_path)
    BY <2>1, <2>2 DEF Starts, Strings
  <2> QED BY <2>1, <2>2, <2>3, PrefixStarts
<1> DEFINE Holds(k) == Len(f[k]) = k /\ \A i \in 1 .. k : f[k][i] = AddToHasher(list[i])
           T == {k \in Nat : k <= n => Holds(k)}
<1>7. 0 \in T
  BY <1>5
<1>8. ASSUME NEW k \in Nat, k \in T
      PROVE  k + 1 \in T
  <2> SUFFICES ASSUME k + 1 <= n
               PROVE  Holds(k + 1)
    OBVIOUS
  <2>1. PICK l, s, t, e : l = k + 1 /\ s = f[k] /\ t = f[l] /\ e = AddToHasher(list[l])
    OBVIOUS
  <2>2. l \in 1 .. n /\ l - 1 = k /\ k \in 0 .. n
    BY <2>1
  <2>3. s \in Seq(E) /\ Len(s) = k /\ \A i \in 1 .. k : s[i] = AddToHasher(list[i])
    BY <1>5, <1>8, <2>1, <2>2
  <2>4. t = Append(s, e)
    <3>1. t = NextHash(s, l, list, root)
      BY <1>1, <1>3, <2>1, <2>2 DEF IsHasher
    <3> QED BY <1>6, <2>1, <2>2, <3>1 DEF NextHash
  <2>5. e \in E
    BY <1>1, <1>4, <2>1, <2>2
  <2>6. Len(t) = l /\ t[l] = e /\ \A i \in 1 .. k : t[i] = s[i]
    BY <2>1, <2>3, <2>4, <2>5
  <2>7. \A i \in 1 .. l : t[i] = AddToHasher(list[i])
    BY <2>1, <2>2, <2>3, <2>6
  <2> QED BY <2>1, <2>6, <2>7
<1> HIDE DEF T
<1>9. Nat \subseteq T
  BY <1>7, <1>8, NatSetInduction
<1>10. Holds(n)
  BY <1>9 DEF T
<1>11. DirHash(list) = [i \in 1 .. n |-> AddToHasher(list[i])]
  BY <1>1 DEF DirHash, IsListing
<1>12. f[n] = [i \in 1 .. n |-> AddToHasher(list[i])]
  <2>1. f[n] \in Seq(E)
    BY <1>5
  <2>2. f[n] = [i \in 1 .. n |-> f[n][i]]
    BY <1>10, <2>1
  <2> QED BY <1>10, <2>2
<1> QED BY <1>2, <1>3, <1>11, <1>12

(* The hash of an entry begins with what is hashed of that entry itself.    *)
LEMMA OwnEntryIsHashed ==
  ASSUME NEW list, IsListing(list), NEW i \in 1 .. Len(list), NEW own, own = list[i].rel_path
  PROVE  CalcFileinfoHash(list, own)[1] = AddToHasher(list[i])
<1>1. PICK n \in Nat : n = Len(list)
  BY DEF IsListing
<1>2. PICK f : IsHasher(f, list, own) /\ CalcFileinfoHash(list, own) = f[n]
  BY <1>1, HashIsHasher
<1>3. PICK E : E = {AddToHasher(list[j]) : j \in 1 .. Len(list)}
  OBVIOUS
<1>4. f \in [0 .. n -> Seq(E)] /\ f[0] = <<>>
  BY <1>1, <1>2, <1>3 DEF IsHasher, Hashes
<1>5. own \in Strings
  BY ListedPaths
<1>6. Seqs!IsPrefix(own, own)
  <2>1. Starts(own, own)
    BY <1>5 DEF Starts, Strings
  <2> QED BY <1>5, <2>1, PrefixStarts
<1>7. ASSUME NEW j \in 1 .. i - 1
      PROVE  ~ Seqs!IsPrefix(own, list[j].rel_path)
  <2>1. j \in 1 .. n
    BY <1>1
  <2>2. list[j].rel_path \in Strings
    BY <1>1, <2>1, ListedPaths
  <2>3. Less(list[j].rel_path, own)
    BY DEF IsListing
  <2>4. ~ Starts(own, list[j].rel_path)
    BY <1>5, <2>2, <2>3, PrefixNotAfter
  <2> QED BY <1>5, <2>2, <2>4, PrefixStarts
<1>8. \A l \in 1 .. n : f[l] = NextHash(f[l - 1], l, list, own) /\ AddToHasher(list[l]) \in E
  BY <1>1, <1>2, <1>3 DEF IsHasher
<1> DEFINE Holds(k) == IF k < i THEN f[k] = <<>>
                       ELSE Len(f[k]) > 0 /\ f[k][1] = AddToHasher(list[i])
           T == {k \in Nat : k <= n => Holds(k)}
<1>9. 0 \in T
  BY <1>4
<1>10. ASSUME NEW k \in Nat, k \in T
       PROVE  k + 1 \in T
  <2> SUFFICES ASSUME k + 1 <= n
               PROVE  Holds(k + 1)
    OBVIOUS
  <2>1. PICK l, s, t, e : l = k + 1 /\ s = f[k] /\ t = f[l] /\ e = AddToHasher(list[l])
    OBVIOUS
  <2>2. l \in 1 .. n /\ l - 1 = k /\ k \in 0 .. n /\ Holds(k)
    BY <1>10, <2>1
  <2>3. s \in Seq(E) /\ e \in E /\ t = NextHash(s, l, list, own)
    BY <1>4, <1>8, <2>1, <2>2
  <2>4. CASE l < i
    <3>1. ~ Seqs!IsPrefix(own, list[l].rel_path)
      BY <1>7, <2>2, <2>4
    <3>2. t = s /\ s = <<>>
      BY <2>1, <2>2, <2>3, <2>4, <3>1 DEF NextHash
    <3> QED BY <2>1, <2>4, <3>2
  <2>5. CASE l = i
    <3>1. s = <<>> /\ t = Append(s, e)
      BY <1>6, <2>1, <2>2, <2>3, <2>5 DEF NextHash
    <3>2. Len(t) > 0 /\ t[1] = e
      BY <2>3, <3>1
    <3> QED BY <2>1, <2>5, <3>2
  <2>6. CASE l > i
    <3>1. Len(s) > 0 /\ s[1] = AddToHasher(list[i])
      BY <2>1, <2>2, <2>6
    <3>2. t = s \/ t = Append(s, e)
      BY <2>1, <2>3 DEF NextHash
    <3>3. Len(t) > 0 /\ t[1] = s[1]
      BY <2>3, <3>1, <3>2
    <3> QED BY <2>1, <2>6, <3>1, <3>3
  <2> QED BY <2>2, <2>4, <2>5, <2>6
<1> HIDE DEF T
<1>11. Nat \subseteq T
  BY <1>9, <1>10, NatSetInduction
<1>12. Holds(n) /\ i <= n
  BY <1>1, <1>11 DEF T
<1> QED BY <1>1, <1>2, <1>12
(***************************************************************************)
(* The merge.  An entry is taken when the merge is past it.                 *)
(***************************************************************************)
Other(s) == IF s = "fst" THEN "snd" ELSE "fst"

Left(s) == IF merging THEN index[s] ELSE 0
Taken(s) == {i \in 1 .. Len(vec[s]) : i > Left(s)}

(* The other side has no entry like this one.                               *)
OneSided(s, i) ==
  \A j \in 1 .. Len(vec[Other(s)]) : vec[Other(s)][j].path # vec[s][i].path

Differences ==
  {FileIsDifferent(path) : path \in Paths}
    \cup {OnlyOneExists(s, path) : s \in Sides, path \in Paths}

Listed == \A s \in Sides : IsListing(vec[s])

Positions ==
  /\ index \in [Sides -> Nat] /\ merging \in BOOLEAN
  /\ merging => \A s \in Sides : index[s] \in 1 .. Len(vec[s])
  /\ ~ merging => (\A s \in Sides : index[s] = 1) \/ (\A s \in Sides : index[s] = 0)

(* What is taken of a side comes after all that is left of the other.       *)
LeftBeforeTaken ==
  merging =>
    \A s \in Sides : \A i \in Taken(s) : \A j \in 1 .. index[Other(s)] :
      Less(vec[Other(s)][j].rel_path, vec[s][i].rel_path)

(* What is reported is so.                                                  *)
IsTrue(d) ==
  \/ \E s \in Sides : \E i \in Taken(s) :
       OneSided(s, i) /\ d = OnlyOneExists(s, vec[s][i].path)
  \/ d.kind = "FileIsDifferent" /\ \E i \in 1 .. Len(vec["fst"]) : HashesDiffer(vec["fst"][i].rel_path)

ReportsAreTrue == res \in Seq(Differences) /\ \A k \in 1 .. Len(res) : IsTrue(res[k])

(* What is taken and has no match has been reported, and only once.         *)
OneSidedReported ==
  \A s \in Sides : \A i \in Taken(s) :
    OneSided(s, i) => \E k \in 1 .. Len(res) : res[k] = OnlyOneExists(s, vec[s][i].path)

NoReportTwice ==
  \A l \in 1 .. Len(res) : \A k \in 1 .. l - 1 :
    res[k].kind = "OnlyOneExists" => res[k] # res[l]

(* What is taken of both sides and has other hashes has been reported.      *)
ChangedReported ==
  \A i \in Taken("fst") : \A j \in Taken("snd") :
    /\ vec["fst"][i].rel_path = vec["snd"][j].rel_path
    /\ HashesDiffer(vec["fst"][i].rel_path)
    => \E k \in 1 .. Len(res) : res[k] = FileIsDifferent(vec["fst"][i].path)

Inv == /\ Listed /\ Positions /\ LeftBeforeTaken
       /\ ReportsAreTrue /\ OneSidedReported /\ NoReportTwice /\ ChangedReported
(* Entries of listings are the same when their strings are.                 *)
LEMMA SameEntry ==
  ASSUME Listed, NEW s \in Sides, NEW t \in Sides,
         NEW i \in 1 .. Len(vec[s]), NEW j \in 1 .. Len(vec[t])
  PROVE  /\ vec[s][i].rel_path \in Strings /\ vec[t][j].rel_path \in Strings
         /\ vec[s][i].path \in Paths
         /\ vec[s][i].rel_path = vec[t][j].rel_path <=> vec[s][i].path = vec[t][j].path
<1>1. IsListing(vec[s]) /\ IsListing(vec[t])
  BY DEF Listed
<1>2. PICK p, q : p = vec[s][i].path /\ q = vec[t][j].path
  OBVIOUS
<1>3. p \in Paths /\ q \in Paths /\ vec[s][i].rel_path = RelPath(p) /\ vec[t][j].rel_path = RelPath(q)
  BY <1>1, <1>2 DEF IsListing
<1> QED BY <1>2, <1>3, RelPathInjective

LEMMA SidesAre ==
  /\ Sides = {"fst", "snd"} /\ "fst" # "snd"
  /\ \A s \in Sides : Other(s) \in Sides /\ Other(Other(s)) = s /\ Other(s) # s
  /\ Other("fst") = "snd" /\ Other("snd") = "fst"
BY DEF Sides, Other

(* The first entry of a list is the root, the others have a longer string.  *)
LEMMA RootIsFirst ==
  ASSUME Listed, NEW s \in Sides, NEW i \in 1 .. Len(vec[s])
  PROVE  /\ i = 1 <=> vec[s][i].rel_path = <<>>
         /\ \A string : ~ Less(string, <<>>)
<1>1. IsListing(vec[s])
  BY DEF Listed
<1>2. vec[s][1].rel_path = <<>>
  BY <1>1, RelPathOfRoot DEF IsListing
<1>3. \A string : ~ Less(string, <<>>)
  <2>1. DOMAIN <<>> = {}
    OBVIOUS
  <2> QED BY <2>1 DEF Less
<1>4. ASSUME i # 1
      PROVE  vec[s][i].rel_path # <<>>
  <2>1. 1 \in 1 .. i - 1
    BY <1>1, <1>4 DEF IsListing
  <2>2. Less(vec[s][1].rel_path, vec[s][i].rel_path)
    BY <1>1, <2>1 DEF IsListing
  <2> QED BY <1>3, <2>2
<1> QED BY <1>2, <1>3, <1>4

(* Nothing is taken before the merge begins.                                *)
LEMMA InitInv == Init => Inv
<1> SUFFICES ASSUME Init
             PROVE  Inv
  OBVIOUS
<1>1. PICK found \in Listings : vec = [s \in Sides |-> Walk(found[s])]
  BY DEF Init
<1>2. Listed
  <2> SUFFICES ASSUME NEW s \in Sides
               PROVE  IsListing(vec[s])
    BY DEF Listed
  <2>1. PICK tree : tree = found[s]
    OBVIOUS
  <2>2. /\ IsFiniteSet(DOMAIN tree) /\ Root \in DOMAIN tree
        /\ \A path \in DOMAIN tree \ {Root} : path \in Seq(Seq(Characters) \ {<<>>})
    BY <2>1, ListingsAssumption DEF Sides
  <2>3. DOMAIN tree \subseteq Paths
    BY <2>2, RelPathOfRoot DEF Paths, FileNames
  <2>4. IsListing(Walk(tree))
    BY <2>2, <2>3, WalkIsSorted
  <2> QED BY <1>1, <2>1, <2>4
<1>3. \A s \in Sides : Len(vec[s]) \in Nat \ {0}
  BY <1>2 DEF Listed, IsListing
<1>4. merging = TRUE /\ index = [s \in Sides |-> Len(vec[s])] /\ res = <<>>
  BY DEF Init
<1>5. Positions
  BY <1>3, <1>4 DEF Positions
<1>6. \A s \in Sides : Taken(s) = {}
  BY <1>3, <1>4 DEF Taken, Left
<1>7. res \in Seq(Differences) /\ Len(res) = 0
  BY <1>4
<1>8. ReportsAreTrue
  BY <1>7 DEF ReportsAreTrue
<1>9. NoReportTwice
  BY <1>7 DEF NoReportTwice
<1> QED BY <1>2, <1>5, <1>6, <1>8, <1>9, SidesAre
        DEF Inv, LeftBeforeTaken, OneSidedReported, ChangedReported

(* What is reported stays so when more is taken, and what is true is added. *)
LEMMA ReportsStayTrue ==
  ASSUME ReportsAreTrue, vec' = vec, \A s \in Sides : Taken(s) \subseteq Taken(s)',
         \/ res' = res
         \/ \E d \in Differences : IsTrue(d)' /\ res' = Append(res, d)
  PROVE  /\ ReportsAreTrue'
         /\ \A k \in 1 .. Len(res) : k \in 1 .. Len(res') /\ res'[k] = res[k]
<1>1. PICK old, r : old = res /\ r = res'
  OBVIOUS
<1>2. old \in Seq(Differences) /\ \A k \in 1 .. Len(old) : IsTrue(old[k])
  BY <1>1 DEF ReportsAreTrue
<1>3. ASSUME NEW d, IsTrue(d)
      PROVE  IsTrue(d)'
  BY <1>3 DEF IsTrue, OneSided, HashesDiffer
<1>4. \A k \in 1 .. Len(old) : IsTrue(old[k])'
  BY <1>2, <1>3
<1>5. CASE r = old
  <2>1. \A k \in 1 .. Len(r) : IsTrue(r[k])'
    BY <1>4, <1>5
  <2>2. ReportsAreTrue'
    BY <1>1, <1>2, <1>5, <2>1 DEF ReportsAreTrue, IsTrue
  <2> QED BY <1>1, <1>5, <2>2
<1>6. CASE r # old
  <2>1. PICK d \in Differences : IsTrue(d)' /\ r = Append(old, d)
    BY <1>1, <1>6
  <2>2. /\ r \in Seq(Differences) /\ Len(r) = Len(old) + 1 /\ r[Len(r)] = d
        /\ \A k \in 1 .. Len(old) : k \in 1 .. Len(r) /\ r[k] = old[k]
    BY <1>2, <2>1
  <2>3. ASSUME NEW k \in 1 .. Len(r)
        PROVE  IsTrue(r[k])'
    <3>1. k \in 1 .. Len(old) \/ k = Len(r)
      BY <1>2, <2>2
    <3>2. CASE k \in 1 .. Len(old)
      <4>1. PICK e : e = old[k]
        OBVIOUS
      <4>2. IsTrue(e)' /\ r[k] = e
        BY <1>4, <2>2, <3>2, <4>1
      <4> QED BY <4>2
    <3>3. CASE k = Len(r)
      BY <2>1, <2>2, <3>3
    <3> QED BY <3>1, <3>2, <3>3
  <2>4. ReportsAreTrue'
    BY <1>1, <2>2, <2>3 DEF ReportsAreTrue, IsTrue
  <2> QED BY <1>1, <2>2, <2>4
<1> QED BY <1>5, <1>6
(* The side whose entry comes last goes on: the other has none like it.     *)
LEMMA AfterInv ==
  ASSUME Inv, NEW s \in Sides, NEW t, t = Other(s), After(s, t)
  PROVE  Inv'
<1>1. t \in Sides /\ Other(t) = s /\ t # s /\ \A x \in Sides : x = s \/ x = t
  BY SidesAre
<1>2. Listed /\ Positions /\ merging /\ vec' = vec
  BY DEF Inv, After
<1>3. PICK n, m : n = index[s] /\ m = index[t]
  OBVIOUS
<1>4. PICK a, b : a = vec[s] /\ b = vec[t]
  OBVIOUS
<1>5. /\ n \in 1 .. Len(a) /\ m \in 1 .. Len(b) /\ Len(a) \in Nat /\ Len(b) \in Nat
      /\ index \in [Sides -> Nat]
  BY <1>1, <1>2, <1>3, <1>4 DEF Positions, Listed, IsListing
<1>6. Less(b[m].rel_path, a[n].rel_path)
  BY <1>3, <1>4 DEF After, Entry
<1>7. n # 1
  BY <1>2, <1>4, <1>5, <1>6, RootIsFirst
<1>8. merging' = merging /\ index' = [x \in Sides |-> IF x \in {s} THEN index[x] - 1 ELSE index[x]]
  BY <1>3, <1>7 DEF After, Advance
<1>9. index'[s] = n - 1 /\ index'[t] = m
  BY <1>1, <1>3, <1>8
<1>10. Listed'
  BY <1>2 DEF Listed
<1>11. Positions'
  <2>1. index' \in [Sides -> Nat]
    BY <1>3, <1>5, <1>8
  <2>2. \A x \in Sides : index'[x] \in 1 .. Len(vec'[x])
    <3>1. n - 1 \in 1 .. Len(a)
      BY <1>5, <1>7
    <3> QED BY <1>1, <1>2, <1>4, <1>5, <1>9, <3>1
  <2> QED BY <1>2, <1>8, <2>1, <2>2 DEF Positions
<1>12. /\ \A i : i \in Taken(s) <=> i \in 1 .. Len(a) /\ i > n
       /\ \A j : j \in Taken(t) <=> j \in 1 .. Len(b) /\ j > m
  BY <1>2, <1>3, <1>4 DEF Taken, Left
<1>13. Taken(s)' = Taken(s) \cup {n} /\ Taken(t)' = Taken(t)
  <2>1. Taken(s)' = {i \in 1 .. Len(a) : i > n - 1}
    BY <1>2, <1>4, <1>8, <1>9 DEF Taken, Left
  <2>2. Taken(t)' = {i \in 1 .. Len(b) : i > m}
    BY <1>2, <1>4, <1>8, <1>9 DEF Taken, Left
  <2>3. \A i \in 1 .. Len(a) : i > n - 1 <=> i > n \/ i = n
    BY <1>5
  <2> QED BY <1>5, <1>12, <2>1, <2>2, <2>3
<1>14. \A x \in Sides : Taken(x) \subseteq Taken(x)'
  BY <1>1, <1>13
<1>15. \A i \in 1 .. Len(a) : \A j \in 1 .. Len(b) :
         /\ a[i].rel_path \in Strings /\ b[j].rel_path \in Strings /\ a[i].path \in Paths
         /\ a[i].rel_path = b[j].rel_path <=> a[i].path = b[j].path
  BY <1>1, <1>2, <1>4, SameEntry
<1>16. \A j \in 1 .. m : Less(b[j].rel_path, a[n].rel_path)
  <2> SUFFICES ASSUME NEW j \in 1 .. m
               PROVE  Less(b[j].rel_path, a[n].rel_path)
    OBVIOUS
  <2>1. CASE j = m
    BY <1>6, <2>1
  <2>2. CASE j # m
    <3>1. j \in 1 .. m - 1 /\ j \in 1 .. Len(b)
      BY <1>5, <2>2
    <3>2. Less(b[j].rel_path, b[m].rel_path)
      BY <1>1, <1>2, <1>4, <1>5, <3>1 DEF Listed, IsListing
    <3> QED BY <1>5, <1>6, <1>15, <3>1, <3>2, LessOrders
  <2> QED BY <2>1, <2>2
<1>17. /\ \A i \in Taken(s) : \A j \in 1 .. m : Less(b[j].rel_path, a[i].rel_path)
       /\ \A j \in Taken(t) : \A i \in 1 .. n : Less(a[i].rel_path, b[j].rel_path)
  BY <1>1, <1>2, <1>3, <1>4 DEF Inv, LeftBeforeTaken
<1>18. \A j \in 1 .. Len(b) : b[j].rel_path # a[n].rel_path
  <2> SUFFICES ASSUME NEW j \in 1 .. Len(b)
               PROVE  Less(b[j].rel_path, a[n].rel_path) \/ Less(a[n].rel_path, b[j].rel_path)
    BY <1>5, <1>15, LessOrders
  <2>1. j \in 1 .. m \/ j \in Taken(t)
    BY <1>5, <1>12
  <2> QED BY <1>5, <1>16, <1>17, <2>1
<1>19. OneSided(s, n)
  BY <1>4, <1>5, <1>15, <1>18 DEF OneSided
<1>20. PICK d : d = OnlyOneExists(s, a[n].path)
  OBVIOUS
<1>21. d \in Differences /\ res' = Append(res, d)
  <2>1. a[n].path \in Paths
    BY <1>5, <1>15
  <2>2. res' = Append(res, OnlyOneExists(s, Entry(s).path))
    BY DEF After
  <2> QED BY <1>3, <1>4, <1>20, <2>1, <2>2 DEF Differences, Entry
<1>22. IsTrue(d)'
  <2>1. n \in Taken(s)'
    BY <1>13
  <2>2. OneSided(s, n)'
    BY <1>2, <1>19 DEF OneSided
  <2>3. d = OnlyOneExists(s, vec'[s][n].path)
    BY <1>2, <1>4, <1>20
  <2> QED BY <2>1, <2>2, <2>3 DEF IsTrue
<1>23. ReportsAreTrue
  BY DEF Inv
<1>24. /\ ReportsAreTrue'
       /\ \A k \in 1 .. Len(res) : k \in 1 .. Len(res') /\ res'[k] = res[k]
  BY <1>2, <1>14, <1>21, <1>22, <1>23, ReportsStayTrue
<1>25. res \in Seq(Differences) /\ Len(res') = Len(res) + 1 /\ res'[Len(res')] = d
       /\ Len(res) \in Nat
  BY <1>21, <1>23 DEF ReportsAreTrue
<1>26. LeftBeforeTaken'
  <2>1. \A i \in Taken(s)' : \A j \in 1 .. index'[t] : Less(b[j].rel_path, a[i].rel_path)
    BY <1>9, <1>13, <1>16, <1>17
  <2>2. \A j \in Taken(t)' : \A i \in 1 .. index'[s] : Less(a[i].rel_path, b[j].rel_path)
    BY <1>5, <1>9, <1>13, <1>17
  <2>3. \A x \in Sides : \A i \in Taken(x)' : \A j \in 1 .. index'[Other(x)] :
          Less(vec'[Other(x)][j].rel_path, vec'[x][i].rel_path)
    BY <1>1, <1>2, <1>4, <2>1, <2>2
  <2> QED BY <2>3 DEF LeftBeforeTaken
<1>27. OneSidedReported'
  <2> SUFFICES ASSUME NEW x \in Sides, NEW i \in Taken(x)', OneSided(x, i)'
               PROVE  \E k \in 1 .. Len(res') : res'[k] = OnlyOneExists(x, vec'[x][i].path)
    BY DEF OneSidedReported
  <2>1. CASE i \in Taken(x)
    <3>1. OneSided(x, i)
      BY <1>2 DEF OneSided
    <3>2. PICK k \in 1 .. Len(res) : res[k] = OnlyOneExists(x, vec[x][i].path)
      BY <2>1, <3>1 DEF Inv, OneSidedReported
    <3> QED BY <1>2, <1>24, <3>2
  <2>2. CASE i \notin Taken(x)
    <3>1. x = s /\ i = n
      BY <1>1, <1>13, <2>2
    <3>2. Len(res') \in 1 .. Len(res')
      BY <1>25
    <3> QED BY <1>2, <1>4, <1>20, <1>25, <3>1, <3>2
  <2> QED BY <2>1, <2>2
<1>28. \A k \in 1 .. Len(res) : res[k] # d
  <2> SUFFICES ASSUME NEW k \in 1 .. Len(res), res[k] = d
               PROVE  FALSE
    OBVIOUS
  <2>1. IsTrue(d)
    BY <1>23 DEF ReportsAreTrue
  <2>2. d.kind # "FileIsDifferent"
    BY <1>20 DEF OnlyOneExists
  <2>3. PICK x \in Sides : \E i \in Taken(x) : d = OnlyOneExists(x, vec[x][i].path)
    BY <2>1, <2>2 DEF IsTrue
  <2>4. PICK i \in Taken(x) : d = OnlyOneExists(x, vec[x][i].path)
    BY <2>3
  <2>5. x = s /\ vec[x][i].path = a[n].path
    BY <1>20, <2>4 DEF OnlyOneExists
  <2>6. i \in 1 .. Len(a) /\ i > n /\ a[i].path = a[n].path
    BY <1>4, <1>12, <2>5
  <2>7. a[i].rel_path = a[n].rel_path
    BY <1>2, <1>4, <1>5, <2>6, SameEntry
  <2>8. Less(a[n].rel_path, a[i].rel_path)
    <3>1. n \in 1 .. i - 1
      BY <1>5, <2>6
    <3> QED BY <1>2, <1>4, <2>6, <3>1 DEF Listed, IsListing
  <2> QED BY <1>5, <1>15, <2>7, <2>8, LessOrders
<1>29. NoReportTwice'
  <2> SUFFICES ASSUME NEW l \in 1 .. Len(res'), NEW k \in 1 .. l - 1,
                      res'[k].kind = "OnlyOneExists"
               PROVE  res'[k] # res'[l]
    BY DEF NoReportTwice
  <2>1. k \in 1 .. Len(res) /\ res'[k] = res[k]
    BY <1>24, <1>25
  <2>2. CASE l \in 1 .. Len(res)
    BY <1>24, <2>1, <2>2 DEF Inv, NoReportTwice
  <2>3. CASE l = Len(res')
    BY <1>25, <1>28, <2>1, <2>3
  <2> QED BY <1>25, <2>2, <2>3
<1>30. ChangedReported'
  <2> SUFFICES ASSUME NEW i \in Taken("fst")', NEW j \in Taken("snd")',
                      vec'["fst"][i].rel_path = vec'["snd"][j].rel_path,
                      HashesDiffer(vec["fst"][i].rel_path)'
               PROVE  \E k \in 1 .. Len(res') : res'[k] = FileIsDifferent(vec'["fst"][i].path)
    BY DEF ChangedReported
  <2>1. i \in Taken("fst") /\ j \in Taken("snd")
    <3>1. CASE s = "fst"
      <4>1. t = "snd" /\ j \in 1 .. Len(b)
        BY <1>12, <1>13, <3>1, SidesAre
      <4>2. i # n
        BY <1>2, <1>4, <1>18, <3>1, <4>1
      <4> QED BY <1>13, <3>1, <4>1, <4>2
    <3>2. CASE s = "snd"
      <4>1. t = "fst" /\ i \in 1 .. Len(b)
        BY <1>12, <1>13, <3>2, SidesAre
      <4>2. j # n
        BY <1>2, <1>4, <1>18, <3>2, <4>1
      <4> QED BY <1>13, <3>2, <4>1, <4>2
    <3> QED BY <3>1, <3>2, SidesAre
  <2>2. /\ vec["fst"][i].rel_path = vec["snd"][j].rel_path
        /\ HashesDiffer(vec["fst"][i].rel_path)
    BY <1>2 DEF HashesDiffer
  <2>3. PICK k \in 1 .. Len(res) : res[k] = FileIsDifferent(vec["fst"][i].path)
    BY <2>1, <2>2 DEF Inv, ChangedReported
  <2> QED BY <1>2, <1>24, <2>3
<1> QED BY <1>10, <1>11, <1>24, <1>26, <1>27, <1>29, <1>30 DEF Inv
(* Both sides are taken: at their first entry they are so together, and the *)
(* merge ends.                                                              *)
LEMMA EqualInv ==
  ASSUME Inv, Equal
  PROVE  Inv'
<1>1. Listed /\ Positions /\ merging /\ vec' = vec
  BY DEF Inv, Equal
<1>2. PICK a, b, n, m : a = vec["fst"] /\ b = vec["snd"] /\ n = index["fst"] /\ m = index["snd"]
  OBVIOUS
<1>3. /\ n \in 1 .. Len(a) /\ m \in 1 .. Len(b) /\ Len(a) \in Nat /\ Len(b) \in Nat
      /\ index \in [Sides -> Nat]
  BY <1>1, <1>2, SidesAre DEF Positions, Listed, IsListing
<1>4. a[n].rel_path = b[m].rel_path
  BY <1>2 DEF Equal, Entry
<1>5. n = 1 <=> m = 1
  <2>1. n = 1 <=> a[n].rel_path = <<>>
    BY <1>1, <1>2, <1>3, RootIsFirst, SidesAre
  <2>2. m = 1 <=> b[m].rel_path = <<>>
    BY <1>1, <1>2, <1>3, RootIsFirst, SidesAre
  <2> QED BY <1>4, <2>1, <2>2
<1>6. \/ merging' = FALSE /\ index' = index /\ n = 1 /\ m = 1
      \/ /\ merging' = merging /\ n # 1 /\ m # 1
         /\ index' = [x \in Sides |-> IF x \in Sides THEN index[x] - 1 ELSE index[x]]
  <2>1. (\E x \in Sides : index[x] = 1) <=> n = 1
    BY <1>2, <1>5, SidesAre
  <2> QED BY <1>5, <2>1 DEF Equal, Advance
<1>7. /\ Left("fst")' = n - 1 /\ Left("snd")' = m - 1
      /\ merging' => index'["fst"] = n - 1 /\ index'["snd"] = m - 1
  <2>1. CASE n = 1
    <3>1. merging' = FALSE /\ m = 1
      BY <1>6, <2>1
    <3> QED BY <2>1, <3>1 DEF Left
  <2>2. CASE n # 1
    <3>1. merging' = TRUE /\ index' = [x \in Sides |-> index[x] - 1]
      BY <1>1, <1>6, <2>2 DEF Positions
    <3>2. index'["fst"] = n - 1 /\ index'["snd"] = m - 1
      BY <1>2, <3>1, SidesAre
    <3> QED BY <3>1, <3>2 DEF Left
  <2> QED BY <2>1, <2>2
<1>8. Listed'
  BY <1>1 DEF Listed
<1>9. Positions'
  <2>1. index' \in [Sides -> Nat] /\ merging' \in BOOLEAN
    <3>1. CASE n = 1
      BY <1>1, <1>3, <1>6, <3>1
    <3>2. CASE n # 1
      <4>1. \A x \in Sides : index[x] - 1 \in Nat
        BY <1>1 DEF Positions
      <4> QED BY <1>1, <1>6, <3>2, <4>1
    <3> QED BY <3>1, <3>2
  <2>2. merging' => \A x \in Sides : index'[x] \in 1 .. Len(vec'[x])
    <3> SUFFICES ASSUME merging'
                 PROVE  \A x \in Sides : index'[x] \in 1 .. Len(vec'[x])
      OBVIOUS
    <3>1. n - 1 \in 1 .. Len(a) /\ m - 1 \in 1 .. Len(b)
      BY <1>3, <1>6
    <3> QED BY <1>1, <1>2, <1>7, <3>1, SidesAre
  <2>3. ~ merging' => \A x \in Sides : index'[x] = 1
    BY <1>1, <1>2, <1>6, SidesAre
  <2> QED BY <2>1, <2>2, <2>3 DEF Positions
<1>10. /\ \A i : i \in Taken("fst") <=> i \in 1 .. Len(a) /\ i > n
       /\ \A j : j \in Taken("snd") <=> j \in 1 .. Len(b) /\ j > m
  BY <1>1, <1>2 DEF Taken, Left
<1>11. Taken("fst")' = Taken("fst") \cup {n} /\ Taken("snd")' = Taken("snd") \cup {m}
  <2>1. /\ Taken("fst")' = {i \in 1 .. Len(a) : i > n - 1}
        /\ Taken("snd")' = {i \in 1 .. Len(b) : i > m - 1}
    BY <1>1, <1>2, <1>7 DEF Taken
  <2>2. /\ \A i \in 1 .. Len(a) : i > n - 1 <=> i > n \/ i = n
        /\ \A i \in 1 .. Len(b) : i > m - 1 <=> i > m \/ i = m
    BY <1>3
  <2> QED BY <1>3, <1>10, <2>1, <2>2
<1>12. \A x \in Sides : Taken(x) \subseteq Taken(x)'
  BY <1>11, SidesAre
<1>13. \A i \in 1 .. Len(a) : \A j \in 1 .. Len(b) :
         /\ a[i].rel_path \in Strings /\ b[j].rel_path \in Strings
         /\ a[i].path \in Paths /\ b[j].path \in Paths
         /\ a[i].rel_path = b[j].rel_path <=> a[i].path = b[j].path
  BY <1>1, <1>2, SameEntry, SidesAre
<1>14. /\ \A i \in Taken("fst") : \A j \in 1 .. m : Less(b[j].rel_path, a[i].rel_path)
       /\ \A j \in Taken("snd") : \A i \in 1 .. n : Less(a[i].rel_path, b[j].rel_path)
  BY <1>1, <1>2, SidesAre DEF Inv, LeftBeforeTaken
<1>15. LeftBeforeTaken'
  <2> SUFFICES ASSUME merging'
               PROVE  LeftBeforeTaken'
    BY DEF LeftBeforeTaken
  <2>1. \A j \in 1 .. m - 1 : Less(b[j].rel_path, b[m].rel_path) /\ j \in 1 .. m
    BY <1>1, <1>2, <1>3, SidesAre DEF Listed, IsListing
  <2>2. \A i \in 1 .. n - 1 : Less(a[i].rel_path, a[n].rel_path) /\ i \in 1 .. n
    BY <1>1, <1>2, <1>3, SidesAre DEF Listed, IsListing
  <2>3. \A i \in Taken("fst")' : \A j \in 1 .. index'["snd"] : Less(b[j].rel_path, a[i].rel_path)
    BY <1>4, <1>7, <1>11, <1>14, <2>1
  <2>4. \A j \in Taken("snd")' : \A i \in 1 .. index'["fst"] : Less(a[i].rel_path, b[j].rel_path)
    BY <1>4, <1>7, <1>11, <1>14, <2>2
  <2>5. \A x \in Sides : \A i \in Taken(x)' : \A j \in 1 .. index'[Other(x)] :
          Less(vec'[Other(x)][j].rel_path, vec'[x][i].rel_path)
    BY <1>1, <1>2, <2>3, <2>4, SidesAre
  <2> QED BY <2>5 DEF LeftBeforeTaken
<1>16. PICK d : d = FileIsDifferent(a[n].path)
  OBVIOUS
<1>17. PICK differ \in BOOLEAN : differ = HashesDiffer(a[n].rel_path)
  BY DEF HashesDiffer
<1>18. res' = IF differ THEN Append(res, d) ELSE res
  BY <1>2, <1>16, <1>17 DEF Equal, Entry
<1>19. d \in Differences /\ d.kind = "FileIsDifferent"
  <2>1. a[n].path \in Paths
    BY <1>3, <1>13
  <2> QED BY <1>16, <2>1 DEF Differences, FileIsDifferent
<1>20. differ => IsTrue(d)'
  <2> SUFFICES ASSUME differ
               PROVE  IsTrue(d)'
    OBVIOUS
  <2>1. n \in 1 .. Len(vec'["fst"]) /\ HashesDiffer(vec["fst"][n].rel_path)'
    BY <1>1, <1>2, <1>3, <1>17 DEF HashesDiffer
  <2> QED BY <1>19, <2>1 DEF IsTrue
<1>21. ReportsAreTrue
  BY DEF Inv
<1>22. /\ ReportsAreTrue'
       /\ \A k \in 1 .. Len(res) : k \in 1 .. Len(res') /\ res'[k] = res[k]
  BY <1>1, <1>12, <1>18, <1>19, <1>20, <1>21, ReportsStayTrue
<1>23. /\ res \in Seq(Differences) /\ Len(res) \in Nat
       /\ differ => Len(res') = Len(res) + 1 /\ res'[Len(res')] = d
  BY <1>18, <1>19, <1>21 DEF ReportsAreTrue
<1>24. OneSidedReported'
  <2> SUFFICES ASSUME NEW x \in Sides, NEW i \in Taken(x)', OneSided(x, i)'
               PROVE  \E k \in 1 .. Len(res') : res'[k] = OnlyOneExists(x, vec'[x][i].path)
    BY DEF OneSidedReported
  <2>1. OneSided(x, i)
    BY <1>1 DEF OneSided
  <2>2. i \in Taken(x)
    <3>1. CASE x = "fst"
      <4>1. ~ OneSided("fst", n)
        BY <1>2, <1>3, <1>4, <1>13, SidesAre DEF OneSided
      <4> QED BY <1>11, <2>1, <3>1, <4>1
    <3>2. CASE x = "snd"
      <4>1. ~ OneSided("snd", m)
        BY <1>2, <1>3, <1>4, <1>13, SidesAre DEF OneSided
      <4> QED BY <1>11, <2>1, <3>2, <4>1
    <3> QED BY <3>1, <3>2, SidesAre
  <2>3. PICK k \in 1 .. Len(res) : res[k] = OnlyOneExists(x, vec[x][i].path)
    BY <2>1, <2>2 DEF Inv, OneSidedReported
  <2> QED BY <1>1, <1>22, <2>3
<1>25. NoReportTwice'
  <2> SUFFICES ASSUME NEW l \in 1 .. Len(res'), NEW k \in 1 .. l - 1,
                      res'[k].kind = "OnlyOneExists"
               PROVE  res'[k] # res'[l]
    BY DEF NoReportTwice
  <2>1. CASE l \in 1 .. Len(res)
    <3>1. k \in 1 .. Len(res)
      BY <1>23, <2>1
    <3> QED BY <1>22, <2>1, <3>1 DEF Inv, NoReportTwice
  <2>2. CASE l \notin 1 .. Len(res)
    <3>1. differ /\ res'[l] = d
      BY <1>18, <1>23, <2>2
    <3> QED BY <1>19, <3>1
  <2> QED BY <2>1, <2>2
<1>26. ChangedReported'
  <2> SUFFICES ASSUME NEW i \in Taken("fst")', NEW j \in Taken("snd")',
                      vec'["fst"][i].rel_path = vec'["snd"][j].rel_path,
                      HashesDiffer(vec["fst"][i].rel_path)'
               PROVE  \E k \in 1 .. Len(res') : res'[k] = FileIsDifferent(vec'["fst"][i].path)
    BY DEF ChangedReported
  <2>1. /\ a[i].rel_path = b[j].rel_path /\ HashesDiffer(a[i].rel_path)
        /\ i \in 1 .. Len(a) /\ j \in 1 .. Len(b)
    BY <1>1, <1>2, <1>3, <1>10, <1>11 DEF HashesDiffer
  <2>2. a[i].rel_path \in Strings
    BY <1>13, <2>1
  <2>3. CASE i = n
    <3>1. differ
      BY <1>17, <2>1, <2>3
    <3>2. Len(res') \in 1 .. Len(res')
      BY <1>23, <3>1
    <3> QED BY <1>1, <1>2, <1>16, <1>23, <2>3, <3>1, <3>2
  <2>4. CASE i \in Taken("fst") /\ j \in Taken("snd")
    <3>1. PICK k \in 1 .. Len(res) : res[k] = FileIsDifferent(vec["fst"][i].path)
      BY <1>2, <2>1, <2>4 DEF Inv, ChangedReported
    <3> QED BY <1>1, <1>22, <3>1
  <2>5. CASE i \in Taken("fst") /\ j = m
    <3>1. Less(b[m].rel_path, a[i].rel_path)
      BY <1>3, <1>14, <2>5
    <3> QED BY <2>1, <2>2, <2>5, <3>1, LessOrders
  <2> QED BY <1>11, <2>3, <2>4, <2>5
<1> QED BY <1>8, <1>9, <1>15, <1>22, <1>24, <1>25, <1>26 DEF Inv

(* After the merge nothing is left but the roots, which are not reported.   *)
LEMMA HandleLastDiffInv ==
  ASSUME Inv, HandleLastDiff
  PROVE  Inv'
<1>1. Listed /\ Positions /\ ~ merging /\ vec' = vec /\ merging' = merging /\ ReportsAreTrue
  BY DEF Inv, HandleLastDiff
<1>2. index' = [s \in Sides |-> 0]
  BY DEF HandleLastDiff
<1>3. \A s \in Sides : index[s] = 1
  BY <1>1 DEF Positions, HandleLastDiff, Done
<1>4. res' = res
  <2>1. Rest("fst") = <<>> /\ Rest("snd") = <<>>
    BY <1>3, SidesAre DEF Rest
  <2>2. PICK old, D : old = res /\ D = Differences
    OBVIOUS
  <2>3. old \in Seq(D)
    BY <1>1, <2>2 DEF ReportsAreTrue
  <2>4. (old \o <<>>) \o <<>> = old
    BY <2>3
  <2> QED BY <2>1, <2>2, <2>4 DEF HandleLastDiff
<1>5. \A s \in Sides : Taken(s)' = Taken(s)
  BY <1>1 DEF Taken, Left
<1>6. Listed'
  BY <1>1 DEF Listed
<1>7. Positions'
  BY <1>1, <1>2 DEF Positions
<1>8. LeftBeforeTaken'
  BY <1>1 DEF LeftBeforeTaken
<1>9. ReportsAreTrue'
  BY <1>1, <1>4, <1>5, ReportsStayTrue
<1>10. OneSidedReported'
  BY <1>1, <1>4, <1>5 DEF Inv, OneSidedReported, OneSided
<1>11. NoReportTwice'
  BY <1>4 DEF Inv, NoReportTwice
<1>12. ChangedReported'
  BY <1>1, <1>4, <1>5, SidesAre DEF Inv, ChangedReported, HashesDiffer
<1> QED BY <1>6, <1>7, <1>8, <1>9, <1>10, <1>11, <1>12 DEF Inv

(* Nothing changes.                                                         *)
LEMMA StutterInv ==
  ASSUME Inv, UNCHANGED vars
  PROVE  Inv'
BY DEF vars, Inv, Listed, Positions, LeftBeforeTaken, Taken, Left, ReportsAreTrue, IsTrue,
       OneSided, HashesDiffer, OneSidedReported, NoReportTwice, ChangedReported

(* The merge of two walks is at all times one of sorted lists.  The walk    *)
(* sorts each directory by name, the merge compares whole paths; the two    *)
(* agree because the separator comes before every character of a name.      *)
THEOREM MergesSortedLists == Spec => []Inv
<1>1. Init => Inv
  BY InitInv
<1>2. Inv /\ [Next]_vars => Inv'
  <2> SUFFICES ASSUME Inv, [Next]_vars
               PROVE  Inv'
    OBVIOUS
  <2>1. CASE Equal
    BY <2>1, EqualInv
  <2>2. CASE After("fst", "snd")
    BY <2>2, AfterInv, SidesAre
  <2>3. CASE After("snd", "fst")
    BY <2>3, AfterInv, SidesAre
  <2>4. CASE HandleLastDiff
    BY <2>4, HandleLastDiffInv
  <2>5. CASE UNCHANGED vars
    BY <2>5, StutterInv
  <2> QED BY <2>1, <2>2, <2>3, <2>4, <2>5 DEF Next, Finished
<1> QED BY <1>1, <1>2, PTL DEF Spec
(* When the merge is done, everything is taken.                             *)
LEMMA AllTaken ==
  ASSUME Inv, Done, NEW s \in Sides
  PROVE  /\ Taken(s) = 1 .. Len(vec[s]) /\ DOMAIN vec[s] = 1 .. Len(vec[s])
         /\ Len(vec[s]) \in Nat \ {0} /\ IsListing(vec[s])
<1>1. IsListing(vec[s]) /\ Left(s) = 0
  BY DEF Inv, Listed, Done, Left
<1> QED BY <1>1 DEF Taken, IsListing

LEMMA InvChanged == Inv => ChangedEntriesAreReported
<1> SUFFICES ASSUME Inv, Done,
                    NEW i \in DOMAIN vec["fst"], NEW j \in DOMAIN vec["snd"],
                    vec["fst"][i].path = vec["snd"][j].path,
                    vec["fst"][i].data # vec["snd"][j].data
             PROVE  \E k \in DOMAIN res : res[k] = FileIsDifferent(vec["fst"][i].path)
  BY DEF ChangedEntriesAreReported
<1>1. PICK a, b : a = vec["fst"] /\ b = vec["snd"]
  OBVIOUS
<1>2. /\ i \in 1 .. Len(a) /\ i \in Taken("fst") /\ IsListing(a)
      /\ j \in 1 .. Len(b) /\ j \in Taken("snd") /\ IsListing(b)
  BY <1>1, AllTaken, SidesAre
<1>3. PICK own : own = a[i].rel_path
  OBVIOUS
<1>4. own = b[j].rel_path
  BY <1>1, <1>2, <1>3, SameEntry, SidesAre DEF Inv
<1>5. /\ CalcFileinfoHash(a, own)[1] = AddToHasher(a[i])
      /\ CalcFileinfoHash(b, own)[1] = AddToHasher(b[j])
  BY <1>2, <1>3, <1>4, OwnEntryIsHashed
<1>6. AddToHasher(a[i]) # AddToHasher(b[j])
  BY <1>1 DEF AddToHasher
<1>7. HashesDiffer(own)
  BY <1>1, <1>5, <1>6 DEF HashesDiffer
<1>8. PICK k \in 1 .. Len(res) : res[k] = FileIsDifferent(vec["fst"][i].path)
  BY <1>1, <1>2, <1>3, <1>4, <1>7 DEF Inv, ChangedReported
<1>9. k \in DOMAIN res
  BY <1>8 DEF Inv, ReportsAreTrue
<1> QED BY <1>8, <1>9

LEMMA InvAgrees == Inv => ListAgreesWithHashes
<1> SUFFICES ASSUME Inv, Done
             PROVE  res = <<>> <=> DirHash(vec["fst"]) = DirHash(vec["snd"])
  BY DEF ListAgreesWithHashes
<1>1. PICK a, b : a = vec["fst"] /\ b = vec["snd"]
  OBVIOUS
<1>2. /\ IsListing(a) /\ Len(a) \in Nat \ {0} /\ Taken("fst") = 1 .. Len(a)
      /\ IsListing(b) /\ Len(b) \in Nat \ {0} /\ Taken("snd") = 1 .. Len(b)
  BY <1>1, AllTaken, SidesAre
<1>3. res \in Seq(Differences) /\ \A k \in 1 .. Len(res) : IsTrue(res[k])
  BY DEF Inv, ReportsAreTrue
<1>4. ASSUME DirHash(a) # DirHash(b)
      PROVE  res # <<>>
  <2>1. HashesDiffer(<<>>)
    BY <1>1, <1>2, <1>4, RootHash DEF HashesDiffer
  <2>2. 1 \in 1 .. Len(a) /\ 1 \in 1 .. Len(b)
    BY <1>2
  <2>3. a[1].rel_path = <<>> /\ b[1].rel_path = <<>>
    BY <1>1, <2>2, RootIsFirst, SidesAre DEF Inv
  <2>4. \E k \in 1 .. Len(res) : res[k] = FileIsDifferent(vec["fst"][1].path)
    BY <1>1, <1>2, <2>1, <2>2, <2>3 DEF Inv, ChangedReported
  <2> QED BY <2>4
<1>5. ASSUME DirHash(a) = DirHash(b)
      PROVE  res = <<>>
  <2>1. Len(a) = Len(b) /\ \A i \in 1 .. Len(a) : a[i].path = b[i].path
    BY <1>2, <1>5, SameHash
  <2>2. \A d : ~ IsTrue(d)
    <3> SUFFICES ASSUME NEW d, IsTrue(d)
                 PROVE  FALSE
      OBVIOUS
    <3>1. \A string : ~ HashesDiffer(string)
      BY <1>1, <1>2, <1>5, SameHashesBelow DEF HashesDiffer
    <3>2. PICK s \in Sides : \E i \in Taken(s) : OneSided(s, i)
      BY <3>1 DEF IsTrue
    <3>3. PICK i \in Taken(s) : OneSided(s, i)
      BY <3>2
    <3> QED BY <1>1, <1>2, <2>1, <3>3, SidesAre DEF OneSided
  <2>3. Len(res) = 0
    <3>1. 1 \notin 1 .. Len(res)
      BY <1>3, <2>2
    <3> QED BY <1>3, <3>1
  <2> QED BY <1>3, <2>3
<1> QED BY <1>1, <1>4, <1>5
(* Where an entry is reported to exist on one side only.                    *)
ReportsOf(s, path) == {k \in DOMAIN res : res[k] = OnlyOneExists(s, path)}
OneSidedReports(s) == {k \in DOMAIN res : \E path \in Paths : res[k] = OnlyOneExists(s, path)}

(* Those of the entries the other side has not, and each of these once.     *)
LEMMA OnceEach ==
  ASSUME Inv, Done, NEW s \in Sides
  PROVE  /\ \A k \in OneSidedReports(s) :
              \E path \in PathsOf(s) \ PathsOf(Other(s)) : res[k] = OnlyOneExists(s, path)
         /\ \A path \in PathsOf(s) \ PathsOf(Other(s)) :
              \E k \in DOMAIN res : ReportsOf(s, path) = {k}
         /\ \A path \in PathsOf(s) \cap PathsOf(Other(s)) : ReportsOf(s, path) = {}
<1>1. Other(s) \in Sides /\ Listed
  BY SidesAre DEF Inv
<1>2. PICK a, b, t : a = vec[s] /\ b = vec[t] /\ t = Other(s)
  OBVIOUS
<1>3. Taken(s) = 1 .. Len(a) /\ DOMAIN a = 1 .. Len(a) /\ DOMAIN b = 1 .. Len(b)
  BY <1>1, <1>2, AllTaken
<1>4. /\ \A path : path \in PathsOf(s) <=> \E i \in 1 .. Len(a) : path = a[i].path
      /\ \A path : path \in PathsOf(t) <=> \E i \in 1 .. Len(b) : path = b[i].path
  BY <1>2, <1>3 DEF PathsOf
<1>5. \A i \in 1 .. Len(a) : OneSided(s, i) <=> a[i].path \notin PathsOf(t)
  BY <1>2, <1>4 DEF OneSided
<1>6. /\ DOMAIN res = 1 .. Len(res) /\ Len(res) \in Nat
      /\ \A k \in 1 .. Len(res) : IsTrue(res[k])
  BY DEF Inv, ReportsAreTrue
<1>7. ASSUME NEW k \in DOMAIN res, NEW path, res[k] = OnlyOneExists(s, path)
      PROVE  path \in PathsOf(s) \ PathsOf(t)
  <2>1. IsTrue(res[k]) /\ res[k].kind # "FileIsDifferent"
    BY <1>6, <1>7 DEF OnlyOneExists
  <2>2. PICK x \in Sides : \E i \in Taken(x) : OneSided(x, i) /\ res[k] = OnlyOneExists(x, vec[x][i].path)
    BY <2>1 DEF IsTrue
  <2>3. PICK i \in Taken(x) : OneSided(x, i) /\ res[k] = OnlyOneExists(x, vec[x][i].path)
    BY <2>2
  <2>4. x = s /\ path = vec[x][i].path
    BY <1>7, <2>3 DEF OnlyOneExists
  <2> QED BY <1>2, <1>3, <1>4, <1>5, <2>3, <2>4
<1>8. ASSUME NEW path \in PathsOf(s) \ PathsOf(t)
      PROVE  \E k \in DOMAIN res : ReportsOf(s, path) = {k}
  <2>1. PICK i \in 1 .. Len(a) : path = a[i].path /\ OneSided(s, i)
    BY <1>4, <1>5
  <2>2. PICK k \in 1 .. Len(res) : res[k] = OnlyOneExists(s, path)
    BY <1>2, <1>3, <2>1 DEF Inv, OneSidedReported
  <2>3. ASSUME NEW l \in 1 .. Len(res), res[l] = OnlyOneExists(s, path)
        PROVE  l = k
    <3>1. res[l].kind = "OnlyOneExists" /\ res[k].kind = "OnlyOneExists" /\ res[l] = res[k]
      BY <2>2, <2>3 DEF OnlyOneExists
    <3>2. ~ (l \in 1 .. k - 1)
      BY <3>1, <2>2 DEF Inv, NoReportTwice
    <3>3. ~ (k \in 1 .. l - 1)
      BY <3>1, <2>3 DEF Inv, NoReportTwice
    <3> QED BY <1>6, <3>2, <3>3
  <2>4. ReportsOf(s, path) = {k}
    BY <1>6, <2>2, <2>3 DEF ReportsOf
  <2> QED BY <1>6, <2>4
<1>9. \A k \in OneSidedReports(s) :
        \E path \in PathsOf(s) \ PathsOf(t) : res[k] = OnlyOneExists(s, path)
  BY <1>7 DEF OneSidedReports
<1>10. \A path \in PathsOf(s) \cap PathsOf(t) : ReportsOf(s, path) = {}
  BY <1>7 DEF ReportsOf
<1> QED BY <1>2, <1>8, <1>9, <1>10

(* There are as many such reports as entries.                               *)
LEMMA AsManyReports ==
  ASSUME Inv, Done, NEW s \in Sides
  PROVE  /\ ReportedOnce(s) = PathsOf(s) \ PathsOf(Other(s))
         /\ IsFiniteSet(OneSidedReports(s))
         /\ Cardinality(OneSidedReports(s)) = Cardinality(ReportedOnce(s))
<1>1. PICK once : once = PathsOf(s) \ PathsOf(Other(s))
  OBVIOUS
<1>2. \A path \in PathsOf(s) : Cardinality(ReportsOf(s, path)) = 1 <=> path \in once
  <2> SUFFICES ASSUME NEW path \in PathsOf(s)
               PROVE  Cardinality(ReportsOf(s, path)) = 1 <=> path \in once
    OBVIOUS
  <2>1. CASE path \in once
    <3>1. PICK k \in DOMAIN res : ReportsOf(s, path) = {k}
      BY <1>1, <2>1, OnceEach
    <3> QED BY <2>1, <3>1, FS_Singleton
  <2>2. CASE path \notin once
    <3>1. ReportsOf(s, path) = {}
      BY <1>1, <2>2, OnceEach
    <3> QED BY <2>2, <3>1, FS_EmptySet
  <2> QED BY <2>1, <2>2
<1>3. ReportedOnce(s) = once
  BY <1>1, <1>2 DEF ReportedOnce, ReportsOf
<1>4. PICK S : S = OneSidedReports(s)
  OBVIOUS
<1>5. IsFiniteSet(S)
  <2>1. PICK n \in Nat : n = Len(res) /\ DOMAIN res = 1 .. n
    BY DEF Inv, ReportsAreTrue
  <2>2. PICK I : I = 1 .. n
    OBVIOUS
  <2>3. IsFiniteSet(I)
    <3>1. PICK one, last \in Int : one = 1 /\ last = n
      OBVIOUS
    <3>2. IsFiniteSet(one .. last)
      BY FS_Interval
    <3> QED BY <2>2, <3>1, <3>2
  <2>4. S \in SUBSET I
    BY <1>4, <2>1, <2>2 DEF OneSidedReports
  <2> QED BY <2>3, <2>4, FS_Subset
<1>6. PICK f : f = [k \in S |-> res[k].path]
  OBVIOUS
<1>7. ASSUME NEW k \in S
      PROVE  /\ f[k] \in once /\ res[k] = OnlyOneExists(s, f[k])
             /\ k \in DOMAIN res
  <2>1. PICK path \in once : res[k] = OnlyOneExists(s, path)
    BY <1>1, <1>4, OnceEach
  <2>2. res[k].path = path
    BY <2>1 DEF OnlyOneExists
  <2> QED BY <1>4, <1>6, <2>1, <2>2 DEF OneSidedReports
<1>8. f \in [S -> once]
  BY <1>6, <1>7
<1>9. ASSUME NEW k \in S, NEW l \in S, f[k] = f[l]
      PROVE  k = l
  <2>1. k \in ReportsOf(s, f[k]) /\ l \in ReportsOf(s, f[k])
    BY <1>7, <1>9 DEF ReportsOf
  <2>2. \E m \in DOMAIN res : ReportsOf(s, f[k]) = {m}
    BY <1>1, <1>7, OnceEach
  <2> QED BY <2>1, <2>2
<1>10. ASSUME NEW path \in once
       PROVE  \E k \in S : f[k] = path
  <2>1. PICK k \in DOMAIN res : ReportsOf(s, path) = {k}
    BY <1>1, OnceEach
  <2>2. res[k] = OnlyOneExists(s, path)
    BY <2>1 DEF ReportsOf
  <2>3. path \in Paths
    <3>1. PICK i \in DOMAIN vec[s] : path = vec[s][i].path
      BY <1>1 DEF PathsOf
    <3>2. i \in 1 .. Len(vec[s]) /\ IsListing(vec[s])
      BY <3>1, AllTaken
    <3> QED BY <3>1, <3>2 DEF IsListing
  <2>4. k \in S
    BY <1>4, <2>2, <2>3 DEF OneSidedReports
  <2> QED BY <1>6, <2>2, <2>4 DEF OnlyOneExists
<1>11. f \in Bijection(S, once)
  BY <1>8, <1>9, <1>10 DEF Bijection, Injection, Surjection, IsInjective
<1>12. Cardinality(once) = Cardinality(S)
  <2>1. ExistsBijection(S, once)
    BY <1>11 DEF ExistsBijection
  <2> QED BY <1>5, <2>1, FS_Bijection
<1> QED BY <1>1, <1>3, <1>4, <1>5, <1>12

LEMMA InvOneSided == Inv => OneSidedEntriesAreReported
<1> SUFFICES ASSUME Inv, Done
             PROVE  OneSidedEntriesAreReported
  BY DEF OneSidedEntriesAreReported
<1>1. PICK S, T : S = OneSidedReports("fst") /\ T = OneSidedReports("snd")
  OBVIOUS
<1>2. /\ ReportedOnce("fst") = PathsOf("fst") \ PathsOf("snd")
      /\ IsFiniteSet(S) /\ Cardinality(S) = Cardinality(ReportedOnce("fst"))
      /\ ReportedOnce("snd") = PathsOf("snd") \ PathsOf("fst")
      /\ IsFiniteSet(T) /\ Cardinality(T) = Cardinality(ReportedOnce("snd"))
  BY <1>1, AsManyReports, SidesAre
<1>3. S \cap T = {}
  <2> SUFFICES ASSUME NEW k \in S, k \in T
               PROVE  FALSE
    OBVIOUS
  <2>1. PICK p : res[k] = OnlyOneExists("fst", p)
    BY <1>1 DEF OneSidedReports
  <2>2. PICK q : res[k] = OnlyOneExists("snd", q)
    BY <1>1 DEF OneSidedReports
  <2>3. res[k].side = "fst" /\ res[k].side = "snd"
    BY <2>1, <2>2 DEF OnlyOneExists
  <2> QED BY <2>3
<1>4. {k \in DOMAIN res : res[k].kind = "OnlyOneExists"} = S \cup T
  <2>1. ASSUME NEW k \in DOMAIN res
        PROVE  res[k].kind = "OnlyOneExists" <=> k \in S \/ k \in T
    <3>1. res[k] \in Differences
      BY DEF Inv, ReportsAreTrue
    <3>2. CASE \E path \in Paths : res[k] = FileIsDifferent(path)
      BY <1>1, <3>2 DEF OneSidedReports, OnlyOneExists, FileIsDifferent
    <3>3. CASE \E s \in Sides, path \in Paths : res[k] = OnlyOneExists(s, path)
      BY <1>1, <3>3, SidesAre DEF OneSidedReports, OnlyOneExists
    <3> QED BY <3>1, <3>2, <3>3 DEF Differences
  <2>2. \A k : k \in S \/ k \in T => k \in DOMAIN res
    BY <1>1 DEF OneSidedReports
  <2> QED BY <2>1, <2>2
<1>5. Cardinality(S \cup T) = Cardinality(S) + Cardinality(T)
  <2>1. Cardinality(S \cup T) = Cardinality(S) + Cardinality(T) - Cardinality(S \cap T)
    BY <1>2, FS_Union
  <2>2. Cardinality(S \cap T) = 0
    BY <1>3, FS_EmptySet
  <2>3. Cardinality(S) \in Nat /\ Cardinality(T) \in Nat
    BY <1>2, FS_CardinalityType
  <2> QED BY <2>1, <2>2, <2>3
<1> QED BY <1>2, <1>4, <1>5 DEF OneSidedEntriesAreReported

(***************************************************************************)
(* The theorems.                                                            *)
(***************************************************************************)

(* An entry is reported to exist on one side only when it does, and once:   *)
(* the merge by comparisons of whole paths (lib.rs:161) never loses step,   *)
(* whatever either side has that the other has not.                         *)
THEOREM OneSidedReportsAreRight == Spec => []OneSidedEntriesAreReported
<1>1. Inv => OneSidedEntriesAreReported
  BY InvOneSided
<1> QED BY <1>1, MergesSortedLists, PTL

(* The list of differences is empty just when the hashes of the whole file  *)
(* systems agree: the merge always ends at both roots, whose hash is that   *)
(* of the whole list, so a test whose hashes differ is never dropped for    *)
(* want of a difference (runner.rs:293-302).                                *)
THEOREM ListsAgreeWithHashes == Spec => []ListAgreesWithHashes
<1>1. Inv => ListAgreesWithHashes
  BY InvAgrees
<1> QED BY <1>1, MergesSortedLists, PTL

(* An entry that both sides have with other data is reported as different:  *)
(* the hash of an entry covers others whose paths begin with the same       *)
(* string (lib.rs:126), but it begins with the entry itself.                *)
THEOREM ChangesAreReported == Spec => []ChangedEntriesAreReported
<1>1. Inv => ChangedEntriesAreReported
  BY InvChanged
<1> QED BY <1>1, MergesSortedLists, PTL

=============================================================================
