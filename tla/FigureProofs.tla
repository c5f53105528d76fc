---------------------------- MODULE FigureProofs ----------------------------
(***************************************************************************)
(* Theorems about figures that are sums: GPU time over the clients a       *)
(* process holds.  Sums of what is there at the two ends of a window are   *)
(* compared term by term, with the lemmas this module starts with.         *)
(***************************************************************************)
EXTENDS CollectorProofs, FiniteSetTheorems, WellFoundedInduction

(***************************************************************************)
(* A sum over a finite set does not depend on the order its elements are   *)
(* taken in, and it is additive.  SumFunctionOnSet recurses over sets, so  *)
(* each lemma is proved by induction on their size, which is done with     *)
(* sets: of a set of naturals that is not all of them, the least missing.  *)
(***************************************************************************)
LEMMA NaturalsFrom0 ==
  ASSUME NEW U, 0 \in U, \A n \in Nat : n \in U => n + 1 \in U
  PROVE  Nat \subseteq U
  <1>1. SUFFICES ASSUME Nat \ U # {} PROVE FALSE OBVIOUS
  <1>2. PICK m \in Nat \ U : \A k \in Nat \ U : ~(<<k, m>> \in OpToRel(<, Nat))
    BY <1>1, NatLessThanWellFounded, WFMin, Zenon
  <1>3. m # 0 /\ m - 1 \in Nat /\ m - 1 < m OBVIOUS
  <1>4. m - 1 \in U BY <1>2, <1>3 DEF OpToRel
  <1>5. (m - 1) + 1 = m OBVIOUS
  <1>. QED BY <1>3, <1>4, <1>5

\* What holds of a set when it holds of it with an element less, holds of every subset
\* of a finite set.
LEMMA SubsetsFromEmpty ==
  ASSUME NEW D, IsFiniteSet(D), NEW U,
         \A s \in SUBSET D : (\A x \in s : s \ {x} \in U) => s \in U
  PROVE  SUBSET D \subseteq U
  <1>. DEFINE V == {n \in Nat : \A s \in SUBSET D : Cardinality(s) = n => s \in U}
  <1>1. \A s \in SUBSET D : IsFiniteSet(s) /\ Cardinality(s) \in Nat BY FS_Subset, FS_CardinalityType
  <1>2. 0 \in V
    <2>1. \A s \in SUBSET D : Cardinality(s) = 0 => s = {} BY <1>1, FS_EmptySet
    <2>. QED BY <2>1
  <1>3. ASSUME NEW n \in Nat, n \in V PROVE n + 1 \in V
    <2>1. SUFFICES ASSUME NEW s \in SUBSET D, Cardinality(s) = n + 1 PROVE s \in U OBVIOUS
    <2>2. ASSUME NEW x \in s PROVE s \ {x} \in U
      <3>1. Cardinality(s \ {x}) = (n + 1) - 1 BY <1>1, <2>1, FS_RemoveElement
      <3>2. (n + 1) - 1 = n /\ s \ {x} \in SUBSET D OBVIOUS
      <3>. QED BY <1>3, <3>1, <3>2
    <2>. QED BY <2>2
  <1>. HIDE DEF V
  <1>4. Nat \subseteq V BY <1>2, <1>3, NaturalsFrom0
  <1>. QED BY <1>1, <1>4 DEF V

(***************************************************************************)
(* The recursion has a solution, and one only.                             *)
(***************************************************************************)
Pick(s) == CHOOSE x \in s : TRUE

Folds(h, f, sets) ==
  \A s \in sets : h[s] = IF s = {} THEN 0 ELSE f[Pick(s)] + h[s \ {Pick(s)}]

LEMMA PickIn == \A s : s # {} => Pick(s) \in s
  BY DEF Pick

Smaller(D, n) == {s \in SUBSET D : Cardinality(s) <= n}

LEMMA FoldExists ==
  ASSUME NEW D, IsFiniteSet(D), NEW f, \A x \in D : f[x] \in Int
  PROVE  \E h \in [SUBSET D -> Int] : Folds(h, f, SUBSET D)
  <1>. DEFINE V == {n \in Nat : \E h \in [Smaller(D, n) -> Int] : Folds(h, f, Smaller(D, n))}
  <1>1. \A s \in SUBSET D : IsFiniteSet(s) /\ Cardinality(s) \in Nat BY FS_Subset, FS_CardinalityType
  <1>2. ASSUME NEW n \in Nat, NEW s \in Smaller(D, n), s # {}
        PROVE  /\ s \ {Pick(s)} \in Smaller(D, n) /\ n # 0
               /\ s \ {Pick(s)} \in Smaller(D, n - 1)
               /\ Pick(s) \in D
    <2>1. s \in SUBSET D /\ Cardinality(s) <= n /\ Pick(s) \in s BY <1>2, PickIn DEF Smaller
    <2>2. Cardinality(s \ {Pick(s)}) = Cardinality(s) - 1 BY <1>1, <2>1, FS_RemoveElement
    <2>3. s \ {Pick(s)} \in SUBSET D BY <2>1
    <2>. QED BY <1>1, <2>1, <2>2, <2>3 DEF Smaller
  <1>3. 0 \in V
    <2>. DEFINE h == [s \in Smaller(D, 0) |-> 0]
    <2>1. \A s \in Smaller(D, 0) : s = {} BY <1>2
    <2>2. h \in [Smaller(D, 0) -> Int] /\ Folds(h, f, Smaller(D, 0)) BY <2>1 DEF Folds
    <2>. QED BY <2>2
  <1>4. ASSUME NEW n \in Nat, n \in V PROVE n + 1 \in V
    <2>1. PICK h \in [Smaller(D, n) -> Int] : Folds(h, f, Smaller(D, n)) BY <1>4
    <2>. DEFINE A == Smaller(D, n)
                B == Smaller(D, n + 1)
                g == [s \in B |-> IF s = {} THEN 0 ELSE f[Pick(s)] + h[s \ {Pick(s)}]]
    <2>2. A \subseteq B BY <1>1 DEF Smaller
    <2>3. \A s \in B : s # {} => s \ {Pick(s)} \in A /\ Pick(s) \in D
      <3>1. (n + 1) - 1 = n /\ n + 1 \in Nat OBVIOUS
      <3>. QED BY <1>2, <3>1
    <2>4. \A s \in A : g[s] = h[s] BY <2>1, <2>2 DEF Folds
    <2>5. g \in [B -> Int] BY <2>1, <2>3
    <2>6. Folds(g, f, B) BY <2>2, <2>3, <2>4 DEF Folds
    <2>7. n + 1 \in Nat OBVIOUS
    <2>. HIDE DEF g
    <2>. QED BY <2>5, <2>6, <2>7
  <1>5. Nat \subseteq V
    <2>. HIDE DEF V
    <2>. QED BY <1>3, <1>4, NaturalsFrom0
  <1>6. Cardinality(D) \in Nat BY FS_CardinalityType
  <1>7. Smaller(D, Cardinality(D)) = SUBSET D BY FS_Subset DEF Smaller
  <1>. QED BY <1>5, <1>6, <1>7

Iter(f, S) == CHOOSE g : g = [s \in SUBSET S |-> IF s = {} THEN 0 ELSE f[Pick(s)] + g[s \ {Pick(s)}]]

LEMMA SumIsFold ==
  ASSUME NEW D, IsFiniteSet(D), NEW f, NEW h, Folds(h, f, SUBSET D), NEW S \in SUBSET D
  PROVE  SumFunctionOnSet(f, S) = h[S]
  <1>1. SumFunctionOnSet(f, S) = Iter(f, S)[S]
    BY DEF SumFunctionOnSet, FoldFunctionOnSet, MapThenFoldSet, Iter, Pick
  <1>. DEFINE Eq(g) == g = [s \in SUBSET S |-> IF s = {} THEN 0 ELSE f[Pick(s)] + g[s \ {Pick(s)}]]
              r == [s \in SUBSET S |-> h[s]]
              g == Iter(f, S)
  <1>2. \A s \in SUBSET S : s # {} => s \ {Pick(s)} \in SUBSET S /\ Pick(s) \in s BY PickIn
  <1>3. Eq(r)
    <2>1. \A s \in SUBSET S : r[s] = IF s = {} THEN 0 ELSE f[Pick(s)] + r[s \ {Pick(s)}]
      BY <1>2 DEF Folds
    <2>. QED BY <2>1
  <1>4. Eq(g) BY <1>3 DEF Iter
  <1>. DEFINE U == {s \in SUBSET S : g[s] = h[s]}
  <1>5. \A s \in SUBSET S : g[s] = IF s = {} THEN 0 ELSE f[Pick(s)] + g[s \ {Pick(s)}]
    <2>. HIDE DEF g
    <2>. QED BY <1>4
  <1>. HIDE DEF g
  <1>6. \A s \in SUBSET S : (\A x \in s : s \ {x} \in U) => s \in U
    BY <1>2, <1>5 DEF Folds
  <1>7. IsFiniteSet(S) BY FS_Subset
  <1>8. S \in U
    <2>. HIDE DEF U
    <2>1. SUBSET S \subseteq U BY <1>6, <1>7, SubsetsFromEmpty
    <2>. QED BY <2>1
  <1>. QED BY <1>1, <1>8 DEF g

(***************************************************************************)
(* What a sum is.                                                          *)
(***************************************************************************)

\* The element taken first does not matter.
LEMMA SumRemove ==
  ASSUME NEW S, IsFiniteSet(S), NEW f, \A x \in S : f[x] \in Int, NEW x \in S
  PROVE  /\ SumFunctionOnSet(f, S) \in Int
         /\ SumFunctionOnSet(f, S \ {x}) \in Int
         /\ SumFunctionOnSet(f, S) = f[x] + SumFunctionOnSet(f, S \ {x})
  <1>1. PICK h : h \in [SUBSET S -> Int] /\ Folds(h, f, SUBSET S) BY FoldExists
  <1>. DEFINE U == {s \in SUBSET S : \A y \in s : h[s] = f[y] + h[s \ {y}]}
  <1>2. \A s \in SUBSET S : (\A y \in s : s \ {y} \in U) => s \in U
    <2>1. SUFFICES ASSUME NEW s \in SUBSET S, \A y \in s : s \ {y} \in U, NEW y \in s
                   PROVE  h[s] = f[y] + h[s \ {y}]
      OBVIOUS
    <2>. DEFINE p == Pick(s)
    <2>2. p \in s BY PickIn
    <2>3. h[s] = f[p] + h[s \ {p}] BY <1>1, <2>2 DEF Folds
    <2>. HIDE DEF p
    <2>4. CASE y = p BY <2>3, <2>4
    <2>5. CASE y # p
      <3>1. h[s \ {p}] = f[y] + h[(s \ {p}) \ {y}] BY <2>1, <2>2, <2>5
      <3>2. h[s \ {y}] = f[p] + h[(s \ {y}) \ {p}] BY <2>1, <2>2, <2>5
      <3>3. (s \ {p}) \ {y} = (s \ {y}) \ {p} OBVIOUS
      <3>4. f[y] \in Int /\ f[p] \in Int /\ h[(s \ {y}) \ {p}] \in Int BY <1>1, <2>2
      <3>5. h[s] = f[p] + (f[y] + h[(s \ {y}) \ {p}]) BY <2>3, <3>1, <3>3
      <3>. QED BY <3>2, <3>4, <3>5
    <2>. QED BY <2>4, <2>5
  <1>3. S \in U
    <2>. HIDE DEF U
    <2>1. SUBSET S \subseteq U BY <1>2, SubsetsFromEmpty
    <2>. QED BY <2>1
  <1>4. h[S] = f[x] + h[S \ {x}] BY <1>3
  <1>5. SumFunctionOnSet(f, S) = h[S] BY <1>1, SumIsFold
  <1>6. SumFunctionOnSet(f, S \ {x}) = h[S \ {x}]
    <2>1. S \ {x} \in SUBSET S OBVIOUS
    <2>. QED BY <1>1, <2>1, SumIsFold
  <1>7. h[S] \in Int /\ h[S \ {x}] \in Int BY <1>1
  <1>. QED BY <1>4, <1>5, <1>6, <1>7

LEMMA SumEmpty == \A f : SumFunctionOnSet(f, {}) = 0
  <1>. SUFFICES ASSUME NEW f PROVE SumFunctionOnSet(f, {}) = 0 OBVIOUS
  <1>1. IsFiniteSet({}) BY FS_EmptySet
  <1>. DEFINE h == [s \in SUBSET {} |-> 0]
  <1>2. Folds(h, f, SUBSET {}) BY DEF Folds
  <1>3. {} \in SUBSET {} /\ h[{}] = 0 OBVIOUS
  <1>. HIDE DEF h
  <1>. QED BY <1>1, <1>2, <1>3, SumIsFold

LEMMA SumType ==
  ASSUME NEW S, IsFiniteSet(S), NEW f, \A x \in S : f[x] \in Int
  PROVE  SumFunctionOnSet(f, S) \in Int
  <1>1. CASE S = {} BY <1>1, SumEmpty
  <1>2. CASE S # {}
    <2>1. PICK x \in S : TRUE BY <1>2
    <2>. QED BY <2>1, SumRemove
  <1>. QED BY <1>1, <1>2

\* Of two functions that differ by a third, the sums do.
LEMMA SumMinus ==
  ASSUME NEW S, IsFiniteSet(S), NEW f, NEW g, NEW d,
         \A x \in S : f[x] \in Int /\ g[x] \in Int /\ d[x] = g[x] - f[x]
  PROVE  SumFunctionOnSet(d, S) = SumFunctionOnSet(g, S) - SumFunctionOnSet(f, S)
  <1>. DEFINE U == {s \in SUBSET S : SumFunctionOnSet(d, s) = SumFunctionOnSet(g, s) - SumFunctionOnSet(f, s)}
  <1>1. \A s \in SUBSET S : (\A y \in s : s \ {y} \in U) => s \in U
    <2>1. SUFFICES ASSUME NEW s \in SUBSET S, \A y \in s : s \ {y} \in U PROVE s \in U OBVIOUS
    <2>2. CASE s = {} BY <2>2, SumEmpty
    <2>3. CASE s # {}
      <3>1. PICK x \in s : TRUE BY <2>3
      <3>2. IsFiniteSet(s) BY FS_Subset
      <3>3. \A y \in s : f[y] \in Int /\ g[y] \in Int /\ d[y] \in Int /\ d[y] = g[y] - f[y] OBVIOUS
      <3>. DEFINE F(h) == SumFunctionOnSet(h, s)
                  R(h) == SumFunctionOnSet(h, s \ {x})
      <3>4. R(f) \in Int /\ F(f) = f[x] + R(f) BY <3>2, <3>3, SumRemove
      <3>5. R(g) \in Int /\ F(g) = g[x] + R(g) BY <3>2, <3>3, SumRemove
      <3>6. R(d) \in Int /\ F(d) = d[x] + R(d) BY <3>2, <3>3, SumRemove
      <3>7. R(d) = R(g) - R(f) BY <2>1
      <3>. HIDE DEF F, R
      <3>8. F(d) = F(g) - F(f) BY <3>3, <3>4, <3>5, <3>6, <3>7
      <3>. QED BY <3>8 DEF F
    <2>. QED BY <2>2, <2>3
  <1>. HIDE DEF U
  <1>2. SUBSET S \subseteq U BY <1>1, SubsetsFromEmpty
  <1>. QED BY <1>2 DEF U

\* What grows everywhere grows in sum.
LEMMA SumMonotone ==
  ASSUME NEW S, IsFiniteSet(S), NEW f, NEW g,
         \A x \in S : f[x] \in Int /\ g[x] \in Int /\ f[x] <= g[x]
  PROVE  SumFunctionOnSet(f, S) <= SumFunctionOnSet(g, S)
  <1>. DEFINE U == {s \in SUBSET S : SumFunctionOnSet(f, s) <= SumFunctionOnSet(g, s)}
  <1>1. \A s \in SUBSET S : (\A y \in s : s \ {y} \in U) => s \in U
    <2>1. SUFFICES ASSUME NEW s \in SUBSET S, \A y \in s : s \ {y} \in U PROVE s \in U OBVIOUS
    <2>2. CASE s = {} BY <2>2, SumEmpty
    <2>3. CASE s # {}
      <3>1. PICK x \in s : TRUE BY <2>3
      <3>2. IsFiniteSet(s) BY FS_Subset
      <3>3. \A y \in s : f[y] \in Int /\ g[y] \in Int /\ f[y] <= g[y] OBVIOUS
      <3>. DEFINE F(h) == SumFunctionOnSet(h, s)
                  R(h) == SumFunctionOnSet(h, s \ {x})
      <3>4. R(f) \in Int /\ F(f) = f[x] + R(f) BY <3>2, <3>3, SumRemove
      <3>5. R(g) \in Int /\ F(g) = g[x] + R(g) BY <3>2, <3>3, SumRemove
      <3>6. R(f) <= R(g) BY <2>1
      <3>. HIDE DEF F, R
      <3>7. F(f) <= F(g) BY <3>3, <3>4, <3>5, <3>6
      <3>. QED BY <3>7 DEF F
    <2>. QED BY <2>2, <2>3
  <1>. HIDE DEF U
  <1>2. SUBSET S \subseteq U BY <1>1, SubsetsFromEmpty
  <1>. QED BY <1>2 DEF U

\* Functions that agree have the same sum.
LEMMA SumSame ==
  ASSUME NEW S, IsFiniteSet(S), NEW f, NEW g, \A x \in S : f[x] \in Int /\ f[x] = g[x]
  PROVE  SumFunctionOnSet(f, S) = SumFunctionOnSet(g, S)
  <1>1. \A x \in S : f[x] \in Int /\ g[x] \in Int /\ f[x] <= g[x] /\ g[x] <= f[x] OBVIOUS
  <1>2. SumFunctionOnSet(f, S) <= SumFunctionOnSet(g, S) BY <1>1, SumMonotone
  <1>3. SumFunctionOnSet(g, S) <= SumFunctionOnSet(f, S) BY <1>1, SumMonotone
  <1>4. SumFunctionOnSet(f, S) \in Int /\ SumFunctionOnSet(g, S) \in Int BY <1>1, SumType
  <1>. QED BY <1>2, <1>3, <1>4

\* What is zero may be left out.
LEMMA SumWithoutZeros ==
  ASSUME NEW S, IsFiniteSet(S), NEW f, \A x \in S : f[x] \in Int, NEW T \in SUBSET S,
         \A x \in S \ T : f[x] = 0
  PROVE  SumFunctionOnSet(f, S) = SumFunctionOnSet(f, T)
  <1>. DEFINE U == {s \in SUBSET S : SumFunctionOnSet(f, s) = SumFunctionOnSet(f, s \cap T)}
  <1>1. \A s \in SUBSET S : (\A y \in s : s \ {y} \in U) => s \in U
    <2>1. SUFFICES ASSUME NEW s \in SUBSET S, \A y \in s : s \ {y} \in U PROVE s \in U OBVIOUS
    <2>2. CASE s \subseteq T
      <3>1. s \cap T = s BY <2>2
      <3>. QED BY <3>1
    <2>3. CASE ~(s \subseteq T)
      <3>1. PICK x \in s : x \notin T BY <2>3
      <3>2. IsFiniteSet(s) BY FS_Subset
      <3>3. \A y \in s : f[y] \in Int OBVIOUS
      <3>4. /\ SumFunctionOnSet(f, s \ {x}) \in Int
            /\ SumFunctionOnSet(f, s) = f[x] + SumFunctionOnSet(f, s \ {x})
        BY <3>2, <3>3, SumRemove
      <3>5. f[x] = 0 BY <3>1
      <3>6. SumFunctionOnSet(f, s) = SumFunctionOnSet(f, s \ {x}) BY <3>4, <3>5
      <3>7. (s \ {x}) \cap T = s \cap T BY <3>1
      <3>8. SumFunctionOnSet(f, s \ {x}) = SumFunctionOnSet(f, (s \ {x}) \cap T) BY <2>1
      <3>. QED BY <3>6, <3>7, <3>8
    <2>. QED BY <2>2, <2>3
  <1>. HIDE DEF U
  <1>2. SUBSET S \subseteq U BY <1>1, SubsetsFromEmpty
  <1>3. S \cap T = T OBVIOUS
  <1>. QED BY <1>2, <1>3 DEF U

\* A smaller set of naturals has the smaller sum.
LEMMA SumSubset ==
  ASSUME NEW S, IsFiniteSet(S), NEW f, \A x \in S : f[x] \in Nat, NEW T \in SUBSET S
  PROVE  SumFunctionOnSet(f, T) <= SumFunctionOnSet(f, S)
  <1>. DEFINE g == [x \in S |-> IF x \in T THEN f[x] ELSE 0]
  <1>1. \A x \in S : g[x] \in Int /\ f[x] \in Int /\ g[x] <= f[x] OBVIOUS
  <1>2. \A x \in S \ T : g[x] = 0 OBVIOUS
  <1>3. \A x \in T : f[x] \in Int /\ f[x] = g[x] OBVIOUS
  <1>. HIDE DEF g
  <1>4. SumFunctionOnSet(g, S) <= SumFunctionOnSet(f, S) BY <1>1, SumMonotone
  <1>5. SumFunctionOnSet(g, S) = SumFunctionOnSet(g, T) BY <1>1, <1>2, SumWithoutZeros
  <1>6. SumFunctionOnSet(f, T) = SumFunctionOnSet(g, T) BY <1>3, FS_Subset, SumSame
  <1>. QED BY <1>4, <1>5, <1>6

(***************************************************************************)
(* The inductive invariant.                                                *)
(***************************************************************************)
OfEngine(cs, e) == {c \in cs : ClientInfo[c].engine = e}

\* Where the first scan of p went through, it added up the clients p then had, if p's
\* process still runs.
ScannedForOwn(p, a) ==
  /\ a.err \in {"", "vanished", "permission_denied"}
  /\ a.err = "" /\ Start(p) \in alive =>
       LET cs == window.gpu.c[Start(p)] IN
       /\ a.busy = BusySum(cs, window.gpu.b)
       /\ \A e \in Engines : a.engine[e] = BusySum(OfEngine(cs, e), window.gpu.b)

\* The rows have no GPU time before the collector's last step, and its window opened with
\* scans of what the processes held.
GpuOK ==
  /\ clients \in [Starts -> SUBSET Clients] /\ busy \in [Clients -> Nat]
  /\ "gpu" \in todo => \A p \in Procs : "gpu" \notin DOMAIN snap.rows[p].metric
  /\ window.on /\ Running("gpu") =>
       /\ window.gpu.c \in [Starts -> SUBSET Clients] /\ window.gpu.b \in [Clients -> Nat]
       /\ \A c \in Clients : window.gpu.b[c] <= busy[c]
       /\ DOMAIN window.first \subseteq Procs
       /\ \A p \in DOMAIN window.first : ScannedForOwn(p, window.first[p])

(***************************************************************************)
(* Busy time, added up.                                                    *)
(***************************************************************************)
\* With an id the driver names its clients by, the sum of two readings grows by what the
\* clients that report anything grew by.
LEMMA BusyGrows ==
  ASSUME NEW cs \in SUBSET Clients, \A c \in cs : ClientInfo[c].id,
         NEW b1 \in [Clients -> Nat], NEW b2 \in [Clients -> Nat], \A c \in Clients : b1[c] <= b2[c],
         NEW d, \A c \in cs : d[c] = b2[c] - b1[c]
  PROVE  /\ BusySum(cs, b1) \in Int /\ BusySum(cs, b2) \in Int /\ BusySum(cs, b1) <= BusySum(cs, b2)
         /\ BusySum(cs, b2) - BusySum(cs, b1) = SumFunctionOnSet(d, {c \in cs : ClientInfo[c].reports # {}})
  <1>. DEFINE term(b) == [c \in cs |-> Copies(c) * BusyNs(c, b)]
              own(b)  == [c \in cs |-> BusyNs(c, b)]
              diff    == [c \in cs |-> BusyNs(c, b2) - BusyNs(c, b1)]
              told    == {c \in cs : ClientInfo[c].reports # {}}
  <1>1. IsFiniteSet(cs) /\ IsFiniteSet(told) BY WindowsAssumption, FS_Subset
  <1>2. \A b \in {b1, b2} : \A c \in cs : BusyNs(c, b) \in Nat /\ Copies(c) = 1 BY DEF BusyNs, Copies
  <1>3. \A b \in {b1, b2} : \A c \in cs : term(b)[c] = own(b)[c] /\ own(b)[c] \in Nat /\ term(b)[c] \in Nat
    BY <1>2
  <1>4. \A c \in cs : own(b1)[c] <= own(b2)[c] BY DEF BusyNs
  <1>5. \A c \in cs : term(b1)[c] \in Int /\ term(b2)[c] \in Int /\ term(b1)[c] <= term(b2)[c] BY <1>3, <1>4
  <1>6. \A c \in cs : diff[c] = term(b2)[c] - term(b1)[c] /\ diff[c] \in Int BY <1>3
  <1>7. \A c \in told : diff[c] \in Int /\ diff[c] = d[c] BY DEF BusyNs
  <1>8. \A c \in cs \ told : diff[c] = 0 BY DEF BusyNs
  <1>9. told \in SUBSET cs OBVIOUS
  <1>10. BusySum(cs, b1) = SumFunctionOnSet(term(b1), cs) /\ BusySum(cs, b2) = SumFunctionOnSet(term(b2), cs)
    BY DEF BusySum
  <1>. HIDE DEF term, own, diff, told
  <1>11. SumFunctionOnSet(term(b1), cs) \in Int /\ SumFunctionOnSet(term(b2), cs) \in Int BY <1>1, <1>5, SumType
  <1>12. SumFunctionOnSet(term(b1), cs) <= SumFunctionOnSet(term(b2), cs) BY <1>1, <1>5, SumMonotone
  <1>13. SumFunctionOnSet(diff, cs) = SumFunctionOnSet(term(b2), cs) - SumFunctionOnSet(term(b1), cs)
    BY <1>1, <1>5, <1>6, SumMinus
  <1>14. SumFunctionOnSet(diff, cs) = SumFunctionOnSet(diff, told) BY <1>1, <1>6, <1>8, <1>9, SumWithoutZeros
  <1>15. SumFunctionOnSet(diff, told) = SumFunctionOnSet(d, told) BY <1>1, <1>7, SumSame
  <1>16. BusySum(cs, b2) - BusySum(cs, b1) = SumFunctionOnSet(d, told) BY <1>10, <1>13, <1>14, <1>15
  <1>. QED BY <1>10, <1>11, <1>12, <1>16 DEF told

(***************************************************************************)
(* The kernel and the pass.                                                *)
(***************************************************************************)
\* What may become of the clients: none is busy backwards.
ClientsMove ==
  /\ clients' \in [Starts -> SUBSET Clients] /\ busy' \in [Clients -> Nat]
  /\ \A c \in Clients : busy[c] <= busy'[c]

LEMMA StillClients ==
  ASSUME GpuOK, UNCHANGED <<clients, busy>>
  PROVE  ClientsMove
  <1>1. \A c \in Clients : busy[c] \in Nat BY DEF GpuOK
  <1>. QED BY <1>1 DEF GpuOK, ClientsMove

LEMMA WorldMovesClients ==
  ASSUME GpuOK, World
  PROVE  ClientsMove
  <1>1. CASE UNCHANGED <<clients, busy>> BY <1>1, StillClients
  <1>2. ASSUME NEW s \in alive, NEW c \in Clients, ClientOpens(s, c) \/ ClientCloses(s, c) \/ ClientWorks(s, c)
        PROVE  ClientsMove
    <2>1. clients \in [Starts -> SUBSET Clients] /\ busy \in [Clients -> Nat] BY DEF GpuOK
    <2>2. CASE ClientOpens(s, c) \/ ClientCloses(s, c)
      <3>1. busy' = busy /\ (clients' = [clients EXCEPT ![s] = @ \cup {c}] \/ clients' = [clients EXCEPT ![s] = @ \ {c}])
        BY <2>2 DEF ClientOpens, ClientCloses
      <3>2. DOMAIN clients' = Starts
            /\ \A t \in Starts : clients'[t] \in {clients[t], clients[t] \cup {c}, clients[t] \ {c}}
        BY <2>1, <3>1
      <3>3. \A t \in Starts : clients'[t] \in SUBSET Clients BY <1>2, <2>1, <3>2
      <3>4. clients' = [t \in Starts |-> clients'[t]]
        <4>1. CASE clients' = [clients EXCEPT ![s] = @ \cup {c}] BY <2>1, <4>1
        <4>2. CASE clients' = [clients EXCEPT ![s] = @ \ {c}] BY <2>1, <4>2
        <4>. QED BY <3>1, <4>1, <4>2
      <3>5. clients' \in [Starts -> SUBSET Clients] BY <3>3, <3>4
      <3>. QED BY <2>1, <3>1, <3>5 DEF ClientsMove
    <2>3. CASE ClientWorks(s, c)
      <3>1. clients' = clients /\ busy' = [busy EXCEPT ![c] = @ + 1] BY <2>3 DEF ClientWorks
      <3>. QED BY <2>1, <3>1 DEF ClientsMove
    <2>. QED BY <1>2, <2>2, <2>3
  <1>3. UNCHANGED <<clients, busy>> \/ Gpu
    BY DEF World, Life, Busy, Threads, Execs, Clock, Descriptors, Signal, Machine, gpu
  <1>4. Gpu => \E s \in alive, c \in Clients : ClientOpens(s, c) \/ ClientCloses(s, c) \/ ClientWorks(s, c)
    BY DEF Gpu
  <1>. QED BY <1>1, <1>2, <1>3, <1>4

\* The rows and the window rest.
LEMMA GpuKept ==
  ASSUME KernelOK, RowsOK, KernelMoves, ClientsMove, UNCHANGED <<snap, todo, window>>, GpuOK
  PROVE  GpuOK'
  <1>1. /\ Procs' = Procs /\ (\A c : Running(c)' = Running(c))
        /\ \A p \in Procs : Start(p)' = Start(p) /\ (Start(p) \in alive' => Start(p) \in alive)
    BY AliveBefore DEF Procs, Running, Start, RowsOK
  <1>2. \A b, cs : BusySum(cs, b)' = BusySum(cs, b) BY DEF BusySum, Copies, BusyNs
  <1>3. \A p \in Procs : \A a : ScannedForOwn(p, a) => ScannedForOwn(p, a)'
    BY <1>1, <1>2 DEF ScannedForOwn, OfEngine
  <1>4. ASSUME window.on, Running("gpu")
        PROVE  /\ window.gpu.c \in [Starts -> SUBSET Clients] /\ window.gpu.b \in [Clients -> Nat]
               /\ \A c \in Clients : window.gpu.b[c] <= busy'[c]
               /\ DOMAIN window.first \subseteq Procs
               /\ \A p \in DOMAIN window.first : ScannedForOwn(p, window.first[p])'
    <2>1. /\ window.gpu.c \in [Starts -> SUBSET Clients] /\ window.gpu.b \in [Clients -> Nat]
          /\ \A c \in Clients : window.gpu.b[c] <= busy[c]
          /\ DOMAIN window.first \subseteq Procs
          /\ \A p \in DOMAIN window.first : ScannedForOwn(p, window.first[p])
      BY <1>4 DEF GpuOK
    <2>2. \A c \in Clients : window.gpu.b[c] \in Nat /\ busy[c] \in Nat /\ busy'[c] \in Nat /\ busy[c] <= busy'[c]
      BY <2>1 DEF GpuOK, ClientsMove
    <2>3. \A c \in Clients : window.gpu.b[c] <= busy'[c] BY <2>1, <2>2
    <2>. QED BY <1>3, <2>1, <2>3
  <1>5. window' = window /\ todo' = todo /\ snap' = snap OBVIOUS
  <1>6. "gpu" \in todo' => \A p \in Procs' : "gpu" \notin DOMAIN snap'.rows[p].metric
    BY <1>1, <1>5 DEF GpuOK
  <1>7. window'.on /\ Running("gpu")' =>
          /\ window'.gpu.c \in [Starts -> SUBSET Clients] /\ window'.gpu.b \in [Clients -> Nat]
          /\ \A c \in Clients : window'.gpu.b[c] <= busy'[c]
          /\ DOMAIN window'.first \subseteq Procs'
          /\ \A p \in DOMAIN window'.first : ScannedForOwn(p, window.first[p])'
    BY <1>1, <1>4, <1>5
  <1>. QED BY <1>6, <1>7 DEF GpuOK, ClientsMove

\* The rows of a new listing have the metrics the sampler computes, and no others.
LEMMA GpuSampled ==
  ASSUME KernelOK, ListingOK, TurnOK, GpuOK, Sampled
  PROVE  GpuOK'
  <1>1. phase = "list" /\ SampleDone(query) /\ UNCHANGED <<clients, busy, window>>
    BY DEF Sampled, gpu
  <1>2. ~window.on BY <1>1 DEF TurnOK, Running
  <1>3. /\ DOMAIN snap'.rows = {st.pid : st \in Stats(query)}
        /\ \A st \in Stats(query) : snap'.rows[st.pid] = Row(st, Secs)
    BY <1>1, SampleIs
  <1>4. \A st : "gpu" \notin DOMAIN Row(st, Secs).metric BY DEF Row, Rates
  <1>5. \A p \in Procs' : "gpu" \notin DOMAIN snap'.rows[p].metric BY <1>3, <1>4 DEF Procs
  <1>. QED BY <1>1, <1>2, <1>5 DEF GpuOK

(***************************************************************************)
(* The collectors.                                                         *)
(***************************************************************************)
\* The others leave GPU time alone.
LEMMA OthersSpareGpu ==
  ASSUME SnapshotOK, TurnOK, Measure \/ Scan, ~Running("gpu")
  PROVE  Spares({"gpu"})
  <1>1. ASSUME NEW ids, "gpu" \notin ids, NEW vals, Measures(vals, ids), Collected(vals) PROVE Spares({"gpu"})
    <2>1. ids \cap {"gpu"} = {} BY <1>1
    <2>. QED BY <1>1, <2>1, CollectedSpares
  <1>2. CASE UNCHANGED snap BY <1>2, StillSpares
  <1>3. CASE SchedstatFirst \/ SchedstatSecond BY <1>1, <1>2, <1>3, SchedstatMeasures
  <1>4. CASE EbpfFirst \/ EbpfSecond \/ SchedFirst \/ SchedSecond BY <1>1, <1>2, <1>4, WakeupsMeasure
  <1>5. CASE PerfOpen \/ PerfRead
    <2>1. "gpu" \notin PerfMetrics BY DEF PerfMetrics
    <2>. QED BY <1>1, <1>5, <2>1, PerfMeasures
  <1>6. CASE PerfBegins \/ PerfEnds BY <1>2, <1>6 DEF PerfBegins, PerfEnds
  <1>7. CASE Scan
    <2>1. "gpu" \notin FdMetrics /\ "gpu" \notin SockMetrics BY DEF FdMetrics, SockMetrics
    <2>. QED BY <1>1, <1>2, <1>7, <2>1, ScansMeasure DEF Scan
  <1>8. ~(GpuFirst \/ GpuSecond) BY DEF GpuFirst, GpuSecond
  <1>. QED BY <1>3, <1>4, <1>5, <1>6, <1>7, <1>8 DEF Measure, Collector

\* Another collector's step.
LEMMA OtherTurn ==
  ASSUME SnapshotOK, TurnOK, GpuOK, NEW c, c # "gpu", Turn(c), Measure \/ Scan
  PROVE  GpuOK'
  <1>1. Running(c) /\ ~Running("gpu") BY OneRuns DEF Turn, TurnOK
  <1>2. Spares({"gpu"}) BY <1>1, OthersSpareGpu
  <1>3. "gpu" \in todo' => "gpu" \in todo BY DEF Turn, Finished
  <1>4. ~(window'.on /\ Running("gpu")')
    <2>1. CASE todo' = todo BY <1>1, <2>1 DEF Running
    <2>2. CASE todo' # todo BY <2>2 DEF Turn
    <2>. QED BY <2>1, <2>2
  <1>5. UNCHANGED <<clients, busy>> /\ Procs' = Procs BY TurnRests DEF Turn, Beside, gpu
  <1>6. "gpu" \in todo' => \A p \in Procs' : "gpu" \notin DOMAIN snap'.rows[p].metric
    BY <1>2, <1>3, <1>5 DEF GpuOK, Spares, Procs
  <1>. QED BY <1>4, <1>5, <1>6 DEF GpuOK

LEMMA ScanFields ==
  ASSUME NEW e, NEW d, NEW b, NEW g, NEW a, a = [err |-> e, drm |-> d, busy |-> b, engine |-> g]
  PROVE  a.err = e /\ a.busy = b /\ a.engine = g
  OBVIOUS

\* The scan of a process finds the clients of who has the pid.
LEMMA ScanIsOwn ==
  ASSUME KernelOK, RowsOK, NEW p \in Procs, NEW a, a = ScanOne(p)
  PROVE  /\ a.err \in {"", "vanished", "permission_denied"}
         /\ a.err = "" /\ Start(p) \in alive =>
              /\ a.busy = BusySum(clients[Start(p)], busy)
              /\ \A e \in Engines : a.engine[e] = BusySum(OfEngine(clients[Start(p)], e), busy)
  <1>. DEFINE h    == Holder(p)
              sums == [e \in Engines |-> BusySum({c \in clients[h] : ClientInfo[c].engine = e}, busy)]
              all  == BusySum(clients[h], busy)
              held == clients[h] # {}
              none == [e \in Engines |-> 0]
  <1>1. a = CASE h = Free     -> [err |-> "vanished", drm |-> FALSE, busy |-> 0, engine |-> none]
              [] h \in denied -> [err |-> "permission_denied", drm |-> FALSE, busy |-> 0, engine |-> none]
              [] OTHER        -> [err |-> "", drm |-> held, busy |-> all, engine |-> sums]
    BY DEF ScanOne
  <1>2. \A e \in Engines : sums[e] = BusySum(OfEngine(clients[h], e), busy) BY DEF OfEngine
  <1>3. Start(p) \in alive => h = Start(p) /\ h # Free BY OwnHolder
  <1>. HIDE DEF h, sums, all, held, none
  <1>4. CASE h = Free \/ h \in denied
    <2>1. \/ a = [err |-> "vanished", drm |-> FALSE, busy |-> 0, engine |-> none]
          \/ a = [err |-> "permission_denied", drm |-> FALSE, busy |-> 0, engine |-> none]
      BY <1>1, <1>4, Zenon
    <2>2. a.err = "vanished" \/ a.err = "permission_denied"
      <3>1. CASE a = [err |-> "vanished", drm |-> FALSE, busy |-> 0, engine |-> none] BY <3>1
      <3>2. CASE a = [err |-> "permission_denied", drm |-> FALSE, busy |-> 0, engine |-> none] BY <3>2
      <3>. QED BY <2>1, <3>1, <3>2
    <2>. QED BY <2>2
  <1>5. CASE h # Free /\ h \notin denied
    <2>1. a = [err |-> "", drm |-> held, busy |-> all, engine |-> sums] BY <1>1, <1>5, Zenon
    <2>2. a.err = "" /\ a.busy = all /\ a.engine = sums
      BY ONLY <2>1, ScanFields
    <2>. QED BY <1>2, <1>3, <2>2 DEF all
  <1>. QED BY <1>4, <1>5

LEMMA GpuTurn ==
  ASSUME IInv, CollectorsOK, GpuOK, Measure, GpuFirst \/ GpuSecond
  PROVE  GpuOK'
  <1>0. KernelOK /\ SnapshotOK /\ RowsOK /\ TurnOK BY DEF IInv, CollectorsOK
  <1>1. Running("gpu") BY DEF GpuFirst, GpuSecond
  <1>2. UNCHANGED <<clients, busy>> /\ alive' = alive BY DEF Measure, Beside, gpu, kernel
  <1>3. CASE Finished
    <2>1. "gpu" \notin todo' /\ ~window'.on BY <1>1, <1>3 DEF Finished, NoWindow
    <2>. QED BY <1>2, <2>1 DEF GpuOK
  <1>4. ASSUME NEW ps \in SUBSET Procs, Opens([p \in ps |-> ScanOne(p)]), UNCHANGED <<snap, todo>> PROVE GpuOK'
    <2>. DEFINE first == [p \in ps |-> ScanOne(p)]
    <2>1. window'.first = first /\ window'.gpu = [c |-> clients, b |-> busy] BY <1>4 DEF Opens
    <2>2. Procs' = Procs /\ \A p \in Procs : Start(p)' = Start(p) BY <1>4 DEF Procs, Start
    <2>3. \A b, cs : BusySum(cs, b)' = BusySum(cs, b) BY DEF BusySum, Copies, BusyNs
    <2>4. ASSUME NEW p \in ps, NEW a, a = ScanOne(p) PROVE ScannedForOwn(p, a)'
      <3>1. p \in Procs OBVIOUS
      <3>. DEFINE s == Start(p)
      <3>2. /\ a.err \in {"", "vanished", "permission_denied"}
            /\ a.err = "" /\ s \in alive =>
                 /\ a.busy = BusySum(clients[s], busy)
                 /\ \A e \in Engines : a.engine[e] = BusySum(OfEngine(clients[s], e), busy)
        BY <1>0, <2>4, <3>1, ScanIsOwn
      <3>3. Start(p)' = s BY <2>2, <3>1
      <3>4. window'.gpu.c = clients /\ window'.gpu.b = busy BY <2>1
      <3>. HIDE DEF s
      <3>5. /\ a.err \in {"", "vanished", "permission_denied"}
            /\ a.err = "" /\ s \in alive' =>
                 /\ a.busy = BusySum(window'.gpu.c[s], window'.gpu.b)
                 /\ \A e \in Engines : a.engine[e] = BusySum(OfEngine(window'.gpu.c[s], e), window'.gpu.b)
        BY <1>2, <3>2, <3>4
      <3>. QED BY <2>3, <3>3, <3>5 DEF ScannedForOwn, OfEngine
    <2>5. DOMAIN first = ps /\ \A p \in ps : first[p] = ScanOne(p) OBVIOUS
    <2>. HIDE DEF first
    <2>6. clients \in [Starts -> SUBSET Clients] /\ busy \in [Clients -> Nat] /\ \A c \in Clients : busy[c] <= busy[c]
      BY DEF GpuOK
    <2>7. window'.gpu.c = clients /\ window'.gpu.b = busy BY <2>1
    <2>8. "gpu" \in todo' => \A p \in Procs' : "gpu" \notin DOMAIN snap'.rows[p].metric
      BY <1>4, <2>2 DEF GpuOK
    <2>9. \A p \in DOMAIN window'.first : ScannedForOwn(p, window.first[p])' BY <2>1, <2>4, <2>5
    <2>10. DOMAIN window'.first \subseteq Procs' BY <1>4, <2>1, <2>2, <2>5
    <2>. QED BY <1>2, <2>6, <2>7, <2>8, <2>9, <2>10 DEF GpuOK
  <1>5. Finished \/ \E ps \in SUBSET Procs : Opens([p \in ps |-> ScanOne(p)]) /\ UNCHANGED <<snap, todo>>
    <2>1. CASE GpuSecond BY <2>1 DEF GpuSecond
    <2>2. CASE GpuFirst
      <3>1. \A ps \in Launched(Procs) : ps \in SUBSET Procs BY DEF Launched
      <3>. QED BY <2>2, <3>1 DEF GpuFirst
    <2>. QED BY <2>1, <2>2
  <1>. QED BY <1>3, <1>4, <1>5

LEMMA GpuStep ==
  ASSUME IInv, CollectorsOK, GpuOK, [Next]_vars
  PROVE  GpuOK'
  <1>0. KernelOK /\ SnapshotOK /\ ListingOK /\ RowsOK /\ TurnOK BY DEF IInv, CollectorsOK
  <1>1. ASSUME KernelMoves, ClientsMove, UNCHANGED <<snap, todo, window>> PROVE GpuOK'
    BY <1>0, <1>1, GpuKept
  <1>2. CASE World
    <2>1. KernelMoves BY <1>0, <1>2, WorldQuiet DEF IInv, PassOK, SamplerRests
    <2>2. UNCHANGED <<snap, todo, window>>
      BY <1>2 DEF World, Life, Busy, Threads, Execs, Clock, Gpu, Descriptors, Signal, Machine, Rest, sampler, collectors
    <2>. QED BY <1>1, <1>2, <2>1, <2>2, WorldMovesClients
  <1>3. CASE PassBegins \/ WarmUp \/ SampleFails \/ CollectHost \/ Emit \/ EmitFails \/ NextPass \/ Interrupted
    <2>1. KernelMoves
      <3>1. CASE WarmUp
        <4>1. TimePasses BY <3>1 DEF WarmUp
        <4>. QED BY <1>0, <4>1, TimeMoves
      <3>2. CASE ~WarmUp
        <4>1. UNCHANGED kernel
          BY <1>3, <3>2 DEF PassBegins, ListBegins, SampleFails, ListFails, CollectHost, Emit, EmitFails, NextPass, Interrupted, Aside
        <4>. QED BY <1>0, <4>1, StillKernel
      <3>. QED BY <3>1, <3>2
    <2>2. UNCHANGED <<snap, todo, window, clients, busy>>
      BY <1>3 DEF PassBegins, ListBegins, WarmUp, SampleFails, ListFails, CollectHost, Emit, EmitFails, NextPass, Interrupted,
                  Aside, sampler, collectors, gpu
    <2>. QED BY <1>1, <2>1, <2>2, StillClients
  <1>4. CASE Sampled BY <1>0, <1>4, GpuSampled
  <1>5. CASE Scan
    <2>1. PICK c \in Scanning : Turn(c) BY <1>0, <1>5, ScanTurn
    <2>2. c # "gpu" BY DEF Scanning
    <2>. QED BY <1>0, <1>5, <2>1, <2>2, OtherTurn
  <1>6. CASE Measure
    <2>1. CASE GpuFirst \/ GpuSecond BY <1>6, <2>1, GpuTurn
    <2>2. CASE ~(GpuFirst \/ GpuSecond)
      <3>1. \E c \in {"schedstat", "ebpf", "sched", "perf"} : Windowed(c)
        BY <1>6, <2>2, SchedstatKeeps, EbpfKeeps, SchedKeeps, PerfKeeps DEF Measure, Collector
      <3>2. PICK c : c # "gpu" /\ Turn(c) BY <3>1 DEF Windowed
      <3>. QED BY <1>0, <1>6, <3>2, OtherTurn
    <2>. QED BY <2>1, <2>2
  <1>7. CASE UNCHANGED vars
    <2>1. UNCHANGED <<kernel, snap, todo, window, clients, busy>> BY <1>7 DEF vars, sampler, collectors, gpu
    <2>2. KernelMoves BY <1>0, <2>1, StillKernel
    <2>. QED BY <1>1, <2>1, <2>2, StillClients
  <1>. QED BY <1>2, <1>3, <1>4, <1>5, <1>6, <1>7 DEF Next, Program

LEMMA GpuInit == Init => GpuOK
  <1>. SUFFICES ASSUME Init PROVE GpuOK OBVIOUS
  <1>1. todo = {} /\ window = NoWindow /\ clients = [s \in Starts |-> {}] /\ busy = [c \in Clients |-> 0]
    BY DEF Init, WindowsInit
  <1>. QED BY <1>1 DEF GpuOK, NoWindow

\* The GPU collector's turns, the clients that come, go and work meanwhile, and the other
\* collectors keep the first scans of its window those of the processes they are for
\* (internal/procfs/gpu.go).
THEOREM GpuInvariant == Spec => [](IInv /\ CollectorsOK /\ GpuOK)
  <1>1. Init => IInv /\ CollectorsOK /\ GpuOK BY IInvInit, CollectorsInit, GpuInit
  <1>2. IInv /\ CollectorsOK /\ GpuOK /\ [Next]_vars => (IInv /\ CollectorsOK /\ GpuOK)'
    BY IInvStep, CollectorsStep, GpuStep
  <1>. QED BY <1>1, <1>2, PTL DEF Spec

(***************************************************************************)
(* What the GPU's window measures.                                         *)
(***************************************************************************)
\* The clients' growth in the window, of the engines es.
Grown(cs, es) ==
  SumFunctionOnSet([c \in cs |-> busy[c] - window.gpu.b[c]],
                   {c \in cs : ClientInfo[c].engine \in es /\ ClientInfo[c].reports # {}})
AllEngines == {ClientInfo[c].engine : c \in Clients}

\* The two scans of a process that keeps its clients, when the second went through.
LEMMA TwoScans ==
  ASSUME GpuOK, window.on, Running("gpu"), NEW cs \in SUBSET Clients, \A c \in cs : ClientInfo[c].id
  PROVE  LET b1 == window.gpu.b IN
         /\ BusySum(cs, b1) \in Int /\ BusySum(cs, busy) \in Int /\ BusySum(cs, b1) <= BusySum(cs, busy)
         /\ BusySum(cs, busy) - BusySum(cs, b1) = Grown(cs, AllEngines)
         /\ \A e \in Engines :
              LET ce == OfEngine(cs, e) IN
              /\ BusySum(ce, b1) \in Int /\ BusySum(ce, busy) \in Int /\ BusySum(ce, b1) <= BusySum(ce, busy)
              /\ BusySum(ce, busy) - BusySum(ce, b1) = Grown(cs, {e})
  <1>. DEFINE b1 == window.gpu.b
              d  == [c \in cs |-> busy[c] - b1[c]]
  <1>1. b1 \in [Clients -> Nat] /\ busy \in [Clients -> Nat] /\ \A c \in Clients : b1[c] <= busy[c]
    BY DEF GpuOK
  <1>2. \A c \in cs : d[c] = busy[c] - b1[c] OBVIOUS
  <1>3. \A es : Grown(cs, es) = SumFunctionOnSet(d, {c \in cs : ClientInfo[c].engine \in es /\ ClientInfo[c].reports # {}})
    BY DEF Grown
  <1>. HIDE DEF b1, d
  <1>4. ASSUME NEW part \in SUBSET cs, NEW es,
               \A c \in cs : c \in part <=> ClientInfo[c].engine \in es
        PROVE  /\ BusySum(part, b1) \in Int /\ BusySum(part, busy) \in Int /\ BusySum(part, b1) <= BusySum(part, busy)
               /\ BusySum(part, busy) - BusySum(part, b1) = Grown(cs, es)
    <2>1. part \in SUBSET Clients /\ \A c \in part : ClientInfo[c].id /\ d[c] = busy[c] - b1[c] BY <1>2
    <2>2. /\ BusySum(part, b1) \in Int /\ BusySum(part, busy) \in Int /\ BusySum(part, b1) <= BusySum(part, busy)
          /\ BusySum(part, busy) - BusySum(part, b1) = SumFunctionOnSet(d, {c \in part : ClientInfo[c].reports # {}})
      BY <1>1, <2>1, BusyGrows
    <2>3. {c \in part : ClientInfo[c].reports # {}} = {c \in cs : ClientInfo[c].engine \in es /\ ClientInfo[c].reports # {}}
      BY <1>4
    <2>. QED BY <1>3, <2>2, <2>3
  <1>5. \A c \in cs : c \in cs <=> ClientInfo[c].engine \in AllEngines BY DEF AllEngines
  <1>6. \A e \in Engines : OfEngine(cs, e) \in SUBSET cs
                           /\ \A c \in cs : c \in OfEngine(cs, e) <=> ClientInfo[c].engine \in {e}
    BY DEF OfEngine
  <1>7. /\ BusySum(cs, b1) \in Int /\ BusySum(cs, busy) \in Int /\ BusySum(cs, b1) <= BusySum(cs, busy)
        /\ BusySum(cs, busy) - BusySum(cs, b1) = Grown(cs, AllEngines)
    BY <1>4, <1>5
  <1>8. ASSUME NEW e \in Engines
        PROVE  LET ce == OfEngine(cs, e) IN
               /\ BusySum(ce, b1) \in Int /\ BusySum(ce, busy) \in Int /\ BusySum(ce, b1) <= BusySum(ce, busy)
               /\ BusySum(ce, busy) - BusySum(ce, b1) = Grown(cs, {e})
    BY <1>4, <1>6
  <1>. QED BY <1>7, <1>8 DEF b1

\* What the collector's last step shows of a process that lived through its window with its
\* clients.
OwnBusy(p) ==
  LET cs  == clients[Start(p)]
      new == snap'.rows[p].metric IN
  Start(p) \in alive /\ cs = window.gpu.c[Start(p)] /\ "gpu" \in DOMAIN new /\ Present(new["gpu"])
  /\ (\A c \in cs : ClientInfo[c].id)
    => new["gpu"].val = Grown(cs, AllEngines) /\ \A e \in Engines : new[e].val = Grown(cs, {e})

LEMMA GpuShown ==
  ASSUME IInv, CollectorsOK, GpuOK, GpuSecond, NEW p \in Procs
  PROVE  OwnBusy(p)
  <1>0. KernelOK /\ SnapshotOK /\ RowsOK BY DEF IInv, CollectorsOK
  <1>. DEFINE cs  == clients[Start(p)]
              new == snap'.rows[p].metric
              old == snap.rows[p].metric
              a1  == window.first[p]
              a2  == ScanOne(p)
  <1>1. SUFFICES ASSUME Start(p) \in alive, cs = window.gpu.c[Start(p)], "gpu" \in DOMAIN new, Present(new["gpu"]),
                        \A c \in cs : ClientInfo[c].id
                 PROVE  new["gpu"].val = Grown(cs, AllEngines) /\ \A e \in Engines : new[e].val = Grown(cs, {e})
    BY DEF OwnBusy
  <1>2. PICK refused, timed :
          /\ DOMAIN refused = {q \in DOMAIN window.first : window.first[q].err # ""}
          /\ \A q \in DOMAIN refused : refused[q] = window.first[q]
          /\ timed \subseteq DOMAIN window.first
          /\ Collected(Over(Refused(refused), [q \in timed |-> ApplyWindow(q)]))
    BY DEF GpuSecond, Only
  <1>. DEFINE ref == Refused(refused)
              app == [q \in timed |-> ApplyWindow(q)]
              vals == Over(ref, app)
  <1>3. /\ DOMAIN vals = DOMAIN refused \cup timed
        /\ p \in DOMAIN refused => vals[p] = All(GpuMetrics, Unavailable(refused[p].err, "gpu"))
        /\ p \in timed /\ p \notin DOMAIN refused => vals[p] = ApplyWindow(p)
    BY DEF Over, Refused
  <1>4. new = IF p \in DOMAIN vals THEN Over(vals[p], old) ELSE old
    <2>. HIDE DEF vals
    <2>. QED BY <1>0, <1>2, CollectedIs DEF Procs, vals
  <1>. HIDE DEF vals
  <1>5. window.on /\ Running("gpu") BY DEF GpuSecond
  <1>6. "gpu" \notin DOMAIN old BY <1>5 DEF GpuOK, Running
  <1>7. p \in DOMAIN vals BY <1>1, <1>4, <1>6
  <1>8. ScannedForOwn(p, a1) BY <1>2, <1>3, <1>5, <1>7 DEF GpuOK
  <1>9. "gpu" \in GpuMetrics /\ \A e \in Engines : e \in GpuMetrics /\ e # "gpu"
    BY WindowsAssumption DEF GpuMetrics
  <1>10. p \notin DOMAIN refused
    <2>1. SUFFICES ASSUME p \in DOMAIN refused PROVE FALSE OBVIOUS
    <2>2. a1.err \in {"vanished", "permission_denied"} /\ refused[p] = a1 BY <1>2, <1>8, <2>1 DEF ScannedForOwn
    <2>3. new["gpu"] = Unavailable(a1.err, "gpu") BY <1>3, <1>4, <1>7, <1>9, <2>1, <2>2 DEF Over, All
    <2>. QED BY <1>1, <2>2, <2>3 DEF Present, Unavailable
  <1>11. a1.err = "" BY <1>2, <1>3, <1>7, <1>10
  <1>12. DOMAIN ApplyWindow(p) = GpuMetrics BY DEF ApplyWindow, All
  <1>13. \A m \in GpuMetrics : new[m] = ApplyWindow(p)[m] BY <1>3, <1>4, <1>7, <1>10, <1>12 DEF Over
  <1>14. /\ a2.err \in {"", "vanished", "permission_denied"}
         /\ a2.err = "" => /\ a2.busy = BusySum(cs, busy)
                           /\ \A e \in Engines : a2.engine[e] = BusySum(OfEngine(cs, e), busy)
    BY <1>0, <1>1, ScanIsOwn
  <1>15. /\ a1.busy = BusySum(cs, window.gpu.b)
         /\ \A e \in Engines : a1.engine[e] = BusySum(OfEngine(cs, e), window.gpu.b)
    BY <1>1, <1>8, <1>11 DEF ScannedForOwn
  <1>16. \A c \in cs : c \in Clients
    <2>1. Start(p) \in Starts BY <1>0, <1>1, StartsAreLive
    <2>. QED BY <2>1 DEF GpuOK
  <1>17. /\ BusySum(cs, window.gpu.b) \in Int /\ BusySum(cs, busy) \in Int /\ BusySum(cs, window.gpu.b) <= BusySum(cs, busy)
         /\ BusySum(cs, busy) - BusySum(cs, window.gpu.b) = Grown(cs, AllEngines)
         /\ \A e \in Engines :
              /\ BusySum(OfEngine(cs, e), window.gpu.b) \in Int /\ BusySum(OfEngine(cs, e), busy) \in Int
              /\ BusySum(OfEngine(cs, e), window.gpu.b) <= BusySum(OfEngine(cs, e), busy)
              /\ BusySum(OfEngine(cs, e), busy) - BusySum(OfEngine(cs, e), window.gpu.b) = Grown(cs, {e})
    <2>1. cs \in SUBSET Clients BY <1>16
    <2>. HIDE DEF cs
    <2>. QED BY <1>1, <1>5, <2>1, TwoScans
  <1>18. a2.err # "" => ApplyWindow(p) = All(GpuMetrics, Unavailable(a2.err, "gpu")) BY DEF ApplyWindow
  <1>19. a2.err = "" /\ ~(a2.busy < a1.busy) =>
           ApplyWindow(p) = [m \in GpuMetrics |-> IF m = "gpu" THEN BusyPct(a1.busy, a2.busy)
                                                              ELSE BusyPct(a1.engine[m], a2.engine[m])]
    BY DEF ApplyWindow
  <1>. DEFINE b1 == window.gpu.b
              all1 == BusySum(cs, b1)
              all2 == BusySum(cs, busy)
              of1(e) == BusySum(OfEngine(cs, e), b1)
              of2(e) == BusySum(OfEngine(cs, e), busy)
  <1>20. Present(new["gpu"]) BY <1>1
  <1>. HIDE DEF new, cs, a1, a2, all1, all2, of1, of2
  <1>21. a2.err = ""
    <2>1. SUFFICES ASSUME a2.err # "" PROVE FALSE OBVIOUS
    <2>2. new["gpu"] = Unavailable(a2.err, "gpu") BY <1>9, <1>13, <1>18, <2>1 DEF All
    <2>3. new["gpu"].avail = a2.err BY <2>2 DEF Unavailable
    <2>. QED BY <1>14, <1>20, <2>1, <2>3 DEF Present
  <1>22. a1.busy = all1 /\ a2.busy = all2 /\ \A e \in Engines : a1.engine[e] = of1(e) /\ a2.engine[e] = of2(e)
    BY <1>14, <1>15, <1>21 DEF all1, all2, of1, of2
  <1>23. /\ all1 \in Int /\ all2 \in Int /\ all1 <= all2 /\ all2 - all1 = Grown(cs, AllEngines)
         /\ \A e \in Engines : /\ of1(e) \in Int /\ of2(e) \in Int /\ of1(e) <= of2(e)
                               /\ of2(e) - of1(e) = Grown(cs, {e})
    BY <1>17 DEF all1, all2, of1, of2
  <1>24. ~(all2 < all1) /\ \A e \in Engines : ~(of2(e) < of1(e))
    <2>1. \A x, y \in Int : x <= y => ~(y < x) OBVIOUS
    <2>. QED BY <1>23, <2>1, Zenon
  <1>25. new["gpu"] = BusyPct(all1, all2) /\ \A e \in Engines : new[e] = BusyPct(of1(e), of2(e))
    BY <1>9, <1>13, <1>19, <1>21, <1>22, <1>24
  <1>26. \A n1, n2 : ~(n2 < n1) => BusyPct(n1, n2).val = n2 - n1 BY DEF BusyPct, Value
  <1>. QED BY <1>23, <1>24, <1>25, <1>26

LEMMA GpuCloses ==
  ASSUME IInv, CollectorsOK, GpuOK, Next, Running("gpu"), window.on, ~window'.on
  PROVE  \A p \in Procs : OwnBusy(p)
  <1>0. SnapshotOK /\ TurnOK BY DEF IInv, CollectorsOK
  <1>1. window' # window OBVIOUS
  <1>2. ~World
    BY <1>1 DEF World, Life, Busy, Threads, Execs, Clock, Gpu, Descriptors, Signal, Machine, Rest, collectors
  <1>3. ~(PassBegins \/ Sampled \/ WarmUp \/ SampleFails \/ CollectHost \/ Emit \/ EmitFails \/ NextPass \/ Interrupted)
    BY <1>1 DEF PassBegins, Sampled, WarmUp, SampleFails, CollectHost, Emit, EmitFails, NextPass, Interrupted, collectors
  <1>4. ~Scan BY <1>0, ScanTurn
  <1>5. Collector BY <1>2, <1>3, <1>4 DEF Next, Program, Measure
  <1>6. ~Running("schedstat") /\ ~Running("ebpf") /\ ~Running("sched") /\ ~Running("perf")
    <2>1. \A c : Running(c) => c = "gpu" BY <1>0, OneRuns DEF TurnOK
    <2>. QED BY <2>1
  <1>7. GpuSecond
    BY <1>5, <1>6 DEF Collector, SchedstatFirst, SchedstatSecond, EbpfFirst, EbpfSecond, SchedFirst, SchedSecond, GpuFirst,
                      PerfBegins, PerfOpen, PerfRead, PerfEnds
  <1>. QED BY <1>7, GpuShown

\* Whichever collector sleeps, a process that lives through its window is shown with what
\* it did itself: its run delay, wakeups and counts, and the time its own GPU clients were
\* busy, every client once (internal/procfs/gpu.go, schedstat.go, sched_wakeups.go,
\* ebpf_linux.go, perf_linux.go).
THEOREM CollectorsMeasureOwn == Spec => WindowMeasuresOwn
  <1>. DEFINE A == Running("gpu") /\ window.on /\ ~window'.on =>
                     \A p \in Procs :
                       LET s  == snap.rows[p].start
                           cs == clients[s]
                           grown(es) == SumFunctionOnSet([c \in cs |-> busy[c] - window.gpu.b[c]],
                                          {c \in cs : ClientInfo[c].engine \in es /\ ClientInfo[c].reports # {}})
                           new == snap'.rows[p].metric IN
                       s \in alive /\ cs = window.gpu.c[s] /\ "gpu" \in DOMAIN new /\ Present(new["gpu"])
                       /\ (\A c \in cs : ClientInfo[c].id)
                         => /\ new["gpu"].val = grown({ClientInfo[c].engine : c \in Clients})
                            /\ \A e \in Engines : new[e].val = grown({e})
  <1>1. IInv /\ CollectorsOK /\ GpuOK /\ Next => A
    BY GpuCloses DEF OwnBusy, Grown, AllEngines, Start
  <1>. HIDE DEF A
  <1>2. IInv /\ CollectorsOK /\ GpuOK /\ [Next]_vars => [A]_vars BY <1>1
  <1>3. Spec => [][A]_vars BY <1>2, GpuInvariant, PTL DEF Spec
  <1>4. Spec => GpuIsOwnBusy BY <1>3 DEF A, GpuIsOwnBusy
  <1>. QED BY <1>4, WindowsMeasureOwn DEF WindowMeasuresOwn

(***************************************************************************)
(* The readings of the whole machine.                                      *)
(***************************************************************************)
\* The first reading is of the processors that exposed their idle states then, and of what
\* they had idled.
CstateOpen ==
  /\ measuring.machine.idle \in [Cpus -> Nat] /\ measuring.machine.online \in SUBSET Cpus
  /\ measuring.sum = SumFunctionOnSet(measuring.machine.idle, measuring.machine.online)

\* The first readings are those of the sources that answered, of the machine as it was.
PowerOpen ==
  /\ measuring.machine.energy \in [Zones -> Nat]
  /\ DOMAIN measuring.zones = Answering(sources.ids, measuring.machine)
  /\ \A b \in DOMAIN measuring.zones : measuring.zones[b] = Read(b, measuring.machine)

HostOK ==
  /\ idle \in [Cpus -> Nat] /\ online \in SUBSET Cpus
  /\ energy \in [Zones -> Nat] /\ present \in SUBSET Zones
  /\ sources.ids \in SUBSET DOMAIN Backends
  /\ measuring = [on |-> measuring.on, sum |-> measuring.sum, cpus |-> measuring.cpus, zones |-> measuring.zones,
                  machine |-> measuring.machine, after |-> measuring.after]
  /\ measuring.on = "cstate" => CstateOpen
  /\ measuring.on = "power" => PowerOpen
  /\ HostFiguresMeasured

\* What processors had idled by the end less what they had by the beginning is what they
\* idled between the two; of those left at the end it is no more.
LEMMA IdleGrowth ==
  ASSUME NEW cs \in SUBSET Cpus, NEW ds \in SUBSET cs, NEW i1 \in [Cpus -> Nat], NEW i2 \in [Cpus -> Nat]
  PROVE  LET g == [c \in Cpus |-> i2[c] - i1[c]] IN
         /\ SumFunctionOnSet(i2, cs) - SumFunctionOnSet(i1, cs) = SumFunctionOnSet(g, cs)
         /\ SumFunctionOnSet(i2, ds) - SumFunctionOnSet(i1, cs) <= SumFunctionOnSet(g, ds)
  <1>. DEFINE g == [c \in Cpus |-> i2[c] - i1[c]]
  <1>1. IsFiniteSet(cs) /\ IsFiniteSet(ds) BY FS_Subset, HostAssumption
  <1>2. \A c \in cs : i1[c] \in Int /\ i1[c] \in Nat /\ i2[c] \in Int /\ g[c] = i2[c] - i1[c] OBVIOUS
  <1>3. \A c \in ds : i1[c] \in Int /\ i2[c] \in Int /\ g[c] = i2[c] - i1[c] OBVIOUS
  <1>. HIDE DEF g
  <1>4. SumFunctionOnSet(g, cs) = SumFunctionOnSet(i2, cs) - SumFunctionOnSet(i1, cs) BY <1>1, <1>2, SumMinus
  <1>5. SumFunctionOnSet(g, ds) = SumFunctionOnSet(i2, ds) - SumFunctionOnSet(i1, ds) BY <1>1, <1>3, SumMinus
  <1>6. SumFunctionOnSet(i1, ds) <= SumFunctionOnSet(i1, cs) BY <1>1, <1>2, SumSubset
  <1>7. SumFunctionOnSet(i1, cs) \in Int /\ SumFunctionOnSet(i1, ds) \in Int /\ SumFunctionOnSet(i2, ds) \in Int
    BY <1>1, <1>2, <1>3, SumType
  <1>8. SumFunctionOnSet(i2, ds) - SumFunctionOnSet(i1, cs) <= SumFunctionOnSet(g, ds) BY <1>5, <1>6, <1>7
  <1>. QED BY <1>4, <1>8 DEF g

\* Whatever is not about the host leaves its readings and the machine as they are.
LEMMA OthersSpareHost ==
  ASSUME Next
  PROVE  \/ CollectHost \/ Emit \/ Machine
         \/ UNCHANGED <<machine, hosts, query>>
  <1>1. CASE PassBegins BY <1>1 DEF PassBegins, hosts, machine
  <1>2. CASE Sampled BY <1>2 DEF Sampled, hosts, machine
  <1>3. CASE WarmUp BY <1>3 DEF WarmUp, hosts, machine
  <1>4. CASE SampleFails BY <1>4 DEF SampleFails, hosts, machine
  <1>5. CASE Measure BY <1>5 DEF Measure, Beside, hosts, machine
  <1>6. CASE Scan BY <1>6 DEF Scan, Beside, hosts, machine
  <1>7. CASE EmitFails BY <1>7 DEF EmitFails, Aside, hosts, machine
  <1>8. CASE NextPass BY <1>8 DEF NextPass, Aside, hosts, machine
  <1>9. CASE Interrupted BY <1>9 DEF Interrupted, Aside, hosts, machine
  <1>10. CASE Life BY <1>10 DEF Life, Rest, command, hosts, machine
  <1>11. CASE Busy BY <1>11 DEF Busy, Rest, command, hosts, machine
  <1>12. CASE Threads BY <1>12 DEF Threads, Rest, command, hosts, machine
  <1>13. CASE Execs BY <1>13 DEF Execs, Rest, command, hosts, machine
  <1>14. CASE Clock BY <1>14 DEF Clock, Rest, command, hosts, machine
  <1>15. CASE Gpu BY <1>15 DEF Gpu, Rest, command, hosts, machine
  <1>16. CASE Descriptors BY <1>16 DEF Descriptors, Rest, command, hosts, machine
  <1>17. CASE Signal BY <1>17 DEF Signal, Rest, command, hosts, machine
  <1>. QED BY <1>1, <1>2, <1>3, <1>4, <1>5, <1>6, <1>7, <1>8, <1>9, <1>10, <1>11, <1>12, <1>13, <1>14,
              <1>15, <1>16, <1>17 DEF Next, Program, World

\* The names of the parts of the property, for the states at both ends of a step.
HostKept ==
  /\ present' = present /\ supply' = supply /\ sources' = sources /\ query' = query
  /\ measuring' = measuring /\ host' = host

LEMMA FiguresKept ==
  ASSUME HostFiguresMeasured, HostKept
  PROVE  HostFiguresMeasured'
  <1>1. PowerIsWhatWasUsed'
    <2>1. \A d : DomainUsed(present', sources'.ids, measuring'.machine, measuring'.after, d, host'[d])
                 = DomainUsed(present, sources.ids, measuring.machine, measuring.after, d, host[d])
      BY DEF HostKept
    <2>2. Domains' = Domains BY DEF Domains
    <2>. QED BY <2>1, <2>2 DEF HostKept, HostFiguresMeasured, PowerIsWhatWasUsed
  <1>2. BatteryFiguresWhole' BY DEF HostKept, HostFiguresMeasured, BatteryFiguresWhole, Installed, Statuses
  <1>3. IdleIsOfTheWindow' BY DEF HostKept, HostFiguresMeasured, IdleIsOfTheWindow, IdledIn
  <1>. QED BY <1>1, <1>2, <1>3 DEF HostKept, HostFiguresMeasured

\* What the machine does between two readings leaves the first as it was.
LEMMA MachineKeepsHost ==
  ASSUME HostOK, Machine
  PROVE  HostOK'
  <1>1. HostKept BY DEF Machine, Rest, hosts, command, HostKept, Hotplug, Idles, Chmod, Used
  <1>2. HostFiguresMeasured' BY <1>1, FiguresKept DEF HostOK
  <1>3. idle' \in [Cpus -> Nat] /\ online' \in SUBSET Cpus
    <2>1. CASE UNCHANGED <<idle, online>> BY <2>1 DEF HostOK
    <2>2. CASE \E c \in Cpus : Hotplug(c) BY <2>2 DEF HostOK, Hotplug
    <2>3. CASE \E c \in Cpus : Idles(c) BY <2>3 DEF HostOK, Idles
    <2>. QED BY <2>1, <2>2, <2>3 DEF Machine, Chmod, Used
  <1>4. energy' \in [Zones -> Nat]
    <2>1. ASSUME NEW z \in present, Used(z) PROVE energy' \in [Zones -> Nat]
      <3>1. MaxEnergy + 1 \in Nat /\ MaxEnergy + 1 > 0 BY HostAssumption
      <3>2. z \in Zones /\ energy[z] + 1 \in Nat BY DEF HostOK
      <3>3. (energy[z] + 1) % (MaxEnergy + 1) \in Nat BY <3>1, <3>2
      <3>. QED BY <2>1, <3>2, <3>3 DEF Used, HostOK
    <2>. QED BY <2>1 DEF Machine, Hotplug, Idles, Chmod, HostOK
  <1>5. measuring.on = "cstate" => CstateOpen' BY <1>1 DEF HostOK, HostKept, CstateOpen
  <1>6. measuring.on = "power" => PowerOpen'
    <2>1. ASSUME NEW b, NEW now PROVE Read(b, now)' = Read(b, now)
      BY <1>1 DEF HostKept, Read, ZonesOf
    <2>. QED BY <1>1, <2>1 DEF HostOK, HostKept, PowerOpen, Answering
  <1>. QED BY <1>1, <1>2, <1>3, <1>4, <1>5, <1>6 DEF HostOK, HostKept

(***************************************************************************)
(* Power.                                                                  *)
(***************************************************************************)
LEMMA FirstIn ==
  ASSUME NEW bs \in SUBSET DOMAIN Backends, bs # {}
  PROVE  First(bs) \in bs
  <1>1. DOMAIN Backends = {"powercap", "hwmon", "battery"} BY DEF Backends
  <1>2. /\ Backends["powercap"] = 1 /\ Backends["hwmon"] = 2 /\ Backends["battery"] = 3 BY DEF Backends
  <1>3. \E b \in bs : \A c \in bs : Backends[b] <= Backends[c]
    <2>1. CASE "powercap" \in bs BY <1>1, <1>2, <2>1
    <2>2. CASE "powercap" \notin bs /\ "hwmon" \in bs BY <1>1, <1>2, <2>2
    <2>3. CASE "powercap" \notin bs /\ "hwmon" \notin bs BY <1>1, <1>2, <2>3
    <2>. QED BY <2>1, <2>2, <2>3
  <1>. QED BY <1>3 DEF First

\* What a backend reports as read are its zones that are not locked, with their values.
LEMMA ReadIsOpen ==
  ASSUME NEW b, NEW now
  PROVE  LET r == Read(b, now) IN
         /\ \A z : z \in DOMAIN r /\ Shown(r[z]) <=> z \in ZonesOf(b) \ now.locked
         /\ \A z \in ZonesOf(b) \ now.locked : r[z].val = now.energy[z]
  <1>. DEFINE reason == IF b = "powercap" THEN "permission_denied" ELSE "warming_up"
              zs == IF b = "hwmon" THEN ZonesOf(b) \ now.locked ELSE ZonesOf(b)
              r == [z \in zs |-> IF z \in now.locked THEN Gone(reason) ELSE Val(now.energy[z])]
  <1>1. Read(b, now) = r BY DEF Read
  <1>2. ~Shown(Gone(reason)) BY DEF Shown, Gone
  <1>3. \A v : Shown(Val(v)) /\ Val(v).val = v BY DEF Shown, Val
  <1>4. \A z \in zs : /\ z \in now.locked => r[z] = Gone(reason)
                      /\ z \notin now.locked => r[z] = Val(now.energy[z])
    OBVIOUS
  <1>5. \A z : z \in zs /\ z \notin now.locked <=> z \in ZonesOf(b) \ now.locked OBVIOUS
  <1>6. DOMAIN r = zs OBVIOUS
  <1>. HIDE DEF r, zs, reason
  <1>. QED BY <1>1, <1>2, <1>3, <1>4, <1>5, <1>6

\* One backend and one domain it has zones of: while nothing wraps and no mode changes, it
\* has a value when it can read one of them, and that is what was used.
LEMMA WattsAreUsed ==
  ASSUME present \in SUBSET Zones, NEW b, NEW d, NEW m1, NEW m2,
         m1.energy \in [Zones -> Nat], m2.energy \in [Zones -> Nat],
         m1.locked = m2.locked, \A z \in present : m1.energy[z] <= m2.energy[z],
         NEW r1, r1 = Read(b, m1), NEW r2, r2 = IF HasEnergy(r1) THEN Read(b, m2) ELSE <<>>,
         \E z \in DOMAIN r1 : ZoneInfo[z].domain = d
  PROVE  LET open == Open(present \ m1.locked, b, d) IN
         IF open # {} THEN Watts(r1, r2, d) = Val(ZonesUsed(open, m1, m2)) ELSE ~Shown(Watts(r1, r2, d))
  <1>. DEFINE open == Open(present \ m1.locked, b, d)
              counted == {z \in open : IsEnergy(z)}
  <1>1. open = {z \in ZonesOf(b) \ m1.locked : ZoneInfo[z].domain = d} BY DEF Open, ZonesOf
  <1>2. /\ Readable(r1, d, TRUE) = counted
        /\ Readable(r1, d, FALSE) = open \ counted
    BY <1>1, ReadIsOpen, \A z : IsEnergy(z) \in BOOLEAN DEF Readable, IsEnergy
  <1>3. counted # {} => Readable(r2, d, TRUE) = counted
    <2>1. SUFFICES ASSUME counted # {} PROVE Readable(r2, d, TRUE) = counted OBVIOUS
    <2>2. HasEnergy(r1) BY <1>2, <2>1 DEF HasEnergy, Readable
    <2>3. r2 = Read(b, m2) BY <2>2
    <2>4. \A z : z \in DOMAIN r2 /\ Shown(r2[z]) <=> z \in ZonesOf(b) \ m1.locked BY <2>3, ReadIsOpen
    <2>. QED BY <1>1, <2>4 DEF Readable, IsEnergy
  <1>4. counted \in SUBSET Zones /\ open \in SUBSET Zones /\ IsFiniteSet(counted) /\ counted \subseteq open
        /\ \A z \in open : z \in ZonesOf(b) \ m1.locked /\ z \in present
    BY <1>1, HostAssumption, FS_Subset DEF ZonesOf
  <1>. HIDE DEF open, counted
  <1>5. CASE counted # {}
    <2>. DEFINE f == [z \in counted |-> r1[z].val]
                g == [z \in counted |-> r2[z].val]
                u == [z \in open |-> m2.energy[z] - m1.energy[z]]
    <2>1. r2 = Read(b, m2)
      BY <1>2, <1>5 DEF HasEnergy, Readable
    <2>2. \A z \in counted : r1[z].val = m1.energy[z] /\ r2[z].val = m2.energy[z]
      BY <1>4, <2>1, ReadIsOpen
    <2>3. \A z \in counted : m1.energy[z] \in Nat /\ m2.energy[z] \in Nat /\ m1.energy[z] <= m2.energy[z]
      BY <1>4
    <2>4. \A z \in counted : f[z] \in Int /\ g[z] \in Int /\ f[z] <= g[z] /\ u[z] = g[z] - f[z]
      BY <1>4, <2>2, <2>3
    <2>5. Total(r1, counted) = SumFunctionOnSet(f, counted) /\ Total(r2, counted) = SumFunctionOnSet(g, counted)
      BY DEF Total
    <2>6. ZonesUsed(open, m1, m2) = SumFunctionOnSet(u, counted) BY <1>5 DEF ZonesUsed, counted
    <2>. HIDE DEF f, g, u
    <2>7. SumFunctionOnSet(f, counted) <= SumFunctionOnSet(g, counted) BY <1>4, <2>4, SumMonotone
    <2>8. SumFunctionOnSet(u, counted) = SumFunctionOnSet(g, counted) - SumFunctionOnSet(f, counted)
      BY <1>4, <2>4, SumMinus
    <2>9. SumFunctionOnSet(f, counted) \in Int /\ SumFunctionOnSet(g, counted) \in Int BY <1>4, <2>4, SumType
    <2>10. ~(Total(r2, counted) < Total(r1, counted)) BY <2>5, <2>7, <2>9
    <2>11. Watts(r1, r2, d) = Val(Total(r2, counted) - Total(r1, counted))
      BY <1>2, <1>3, <1>5, <2>10 DEF Watts
    <2>12. open # {} BY <1>4, <1>5
    <2>. QED BY <2>5, <2>6, <2>8, <2>11, <2>12 DEF open
  <1>6. CASE counted = {} /\ open # {}
    <2>1. [z \in open |-> r1[z].val] = [z \in open |-> m1.energy[z]] BY <1>4, ReadIsOpen
    <2>2. Watts(r1, r2, d) = Val(Total(r1, open)) BY <1>2, <1>6 DEF Watts
    <2>3. Total(r1, open) = SumFunctionOnSet([z \in open |-> m1.energy[z]], open) BY <2>1 DEF Total
    <2>4. ZonesUsed(open, m1, m2) = SumFunctionOnSet([z \in open |-> m1.energy[z]], open)
      BY <1>6 DEF ZonesUsed, counted
    <2>. QED BY <1>6, <2>2, <2>3, <2>4 DEF open
  <1>7. CASE open = {}
    <2>1. Readable(r1, d, TRUE) = {} /\ Readable(r1, d, FALSE) = {} BY <1>2, <1>4, <1>7
    <2>2. PICK z \in DOMAIN r1 : ZoneInfo[z].domain = d /\ Watts(r1, r2, d) = r1[z] BY <2>1 DEF Watts
    <2>3. z \notin open => ~Shown(r1[z]) BY <1>1, <2>2, ReadIsOpen DEF open
    <2>. QED BY <1>7, <2>2, <2>3 DEF open
  <1>. QED BY <1>5, <1>6, <1>7

\* What is shown of a domain comes from the first source that could read some of it.
LEMMA MergedIsUsed ==
  ASSUME HostOK, measuring.on = "power", NEW d, NEW m1, m1 = measuring.machine,
         m1.locked = locked, \A z \in present : m1.energy[z] <= energy[z], NEW v,
         v = Merge([b \in Knowing(measuring.zones, d) |->
                      Watts(measuring.zones[b], Second(measuring.zones, b), d)])
  PROVE  DomainUsed(present, sources.ids, m1, Marks, d, v)
  <1>. DEFINE r1 == measuring.zones
              knowing == Knowing(r1, d)
              vs == [b \in knowing |-> Watts(r1[b], Second(r1, b), d)]
              open(b) == Open(present \ m1.locked, b, d)
              can == {b \in sources.ids : open(b) # {}}
              having == {b \in DOMAIN vs : Shown(vs[b])}
  <1>1. /\ m1.energy \in [Zones -> Nat] /\ Marks.energy \in [Zones -> Nat]
        /\ m1.locked = Marks.locked /\ \A z \in present : m1.energy[z] <= Marks.energy[z]
        /\ present \in SUBSET Zones /\ sources.ids \in SUBSET DOMAIN Backends
        /\ DOMAIN r1 = Answering(sources.ids, m1) /\ \A b \in DOMAIN r1 : r1[b] = Read(b, m1)
    BY DEF HostOK, PowerOpen, Marks
  <1>2. knowing \subseteq DOMAIN r1 /\ DOMAIN r1 \subseteq sources.ids /\ DOMAIN vs = knowing
    BY <1>1 DEF Knowing, Answering
  <1>3. ASSUME NEW b \in knowing
        PROVE  IF open(b) # {} THEN vs[b] = Val(ZonesUsed(open(b), m1, Marks)) ELSE ~Shown(vs[b])
    <2>1. vs[b] = Watts(r1[b], Second(r1, b), d) BY <1>3
    <2>2. \E z \in DOMAIN r1[b] : ZoneInfo[z].domain = d BY <1>3 DEF Knowing
    <2>3. b \in DOMAIN r1 BY <1>2, <1>3
    <2>. HIDE DEF vs, r1, knowing
    <2>4. r1[b] = Read(b, m1) BY <1>1, <2>3
    <2>5. Second(r1, b) = IF HasEnergy(r1[b]) THEN Read(b, Marks) ELSE <<>> BY DEF Second
    <2>6. /\ m1.energy \in [Zones -> Nat] /\ Marks.energy \in [Zones -> Nat]
          /\ m1.locked = Marks.locked /\ \A z \in present : m1.energy[z] <= Marks.energy[z]
          /\ present \in SUBSET Zones
      BY <1>1
    <2>7. IF open(b) # {} THEN Watts(r1[b], Second(r1, b), d) = Val(ZonesUsed(open(b), m1, Marks))
                          ELSE ~Shown(Watts(r1[b], Second(r1, b), d))
      BY <2>2, <2>4, <2>5, <2>6, WattsAreUsed, ZenonT(60)
    <2>. HIDE DEF open
    <2>. QED BY <2>1, <2>7
  <1>4. ASSUME NEW b \in can PROVE b \in knowing
    <2>1. PICK z \in present \ m1.locked : ZoneInfo[z].backend = b /\ ZoneInfo[z].domain = d BY <1>4 DEF Open
    <2>2. z \in DOMAIN Read(b, m1) BY <2>1, ReadIsOpen DEF ZonesOf
    <2>3. b \in DOMAIN r1 BY <1>1, <1>4, <2>2 DEF Answering
    <2>. QED BY <1>1, <2>1, <2>2, <2>3 DEF Knowing
  <1>. HIDE DEF vs, r1, knowing, open
  <1>5. having = can
    <2>1. \A x : Shown(Val(x)) BY DEF Shown, Val
    <2>. QED BY <1>2, <1>3, <1>4, <2>1
  <1>6. v = Merge(vs) BY DEF vs, r1, knowing
  <1>7. CASE can # {}
    <2>1. First(can) \in can BY <1>1, <1>7, FirstIn
    <2>2. First(can) \in knowing BY <1>4, <2>1
    <2>3. v = vs[First(can)]
      <3>1. having # {} /\ DOMAIN vs # {} BY <1>2, <1>5, <1>7, <2>2
      <3>2. v = IF DOMAIN vs = {} THEN Gone("unsupported")
                ELSE vs[First(IF having # {} THEN having ELSE DOMAIN vs)]
        BY <1>6 DEF Merge
      <3>. QED BY <1>5, <3>1, <3>2
    <2>4. v = Val(ZonesUsed(open(First(can)), m1, Marks)) BY <1>3, <2>1, <2>2, <2>3
    <2>. QED BY <1>7, <2>4 DEF DomainUsed, open
  <1>8. CASE can = {}
    <2>1. ~Shown(v)
      <3>1. CASE DOMAIN vs = {}
        <4>1. v = Gone("unsupported") BY <1>6, <3>1 DEF Merge
        <4>. QED BY <4>1 DEF Shown, Gone
      <3>2. CASE DOMAIN vs # {}
        <4>1. having = {} BY <1>5, <1>8
        <4>2. v = vs[First(DOMAIN vs)]
          <5>1. v = vs[First(IF having # {} THEN having ELSE DOMAIN vs)] BY <1>6, <3>2 DEF Merge
          <5>. QED BY <4>1, <5>1
        <4>3. First(DOMAIN vs) \in DOMAIN vs BY <1>1, <1>2, <3>2, FirstIn
        <4>. QED BY <4>1, <4>2, <4>3
      <3>. QED BY <3>1, <3>2
    <2>. QED BY <1>8, <2>1 DEF DomainUsed, open
  <1>. QED BY <1>7, <1>8

LEMMA PowerTurn ==
  ASSUME HostOK, query' = query, query.host = "power", PowerFirst \/ PowerSecond
  PROVE  HostOK'
  <1>1. machine' = machine /\ measuring' = [on |-> measuring'.on, sum |-> measuring'.sum, cpus |-> measuring'.cpus,
           zones |-> measuring'.zones, machine |-> measuring'.machine, after |-> measuring'.after]
    BY DEF HostOK, PowerFirst, PowerSecond, Quiet
  <1>2. /\ idle' = idle /\ online' = online /\ energy' = energy /\ present' = present /\ locked' = locked
    BY <1>1 DEF machine
  <1>3. \A b, now : Read(b, now)' = Read(b, now) BY <1>2 DEF Read, ZonesOf
  <1>4. CASE PowerFirst
    <2>1. Discovered.ids \in SUBSET DOMAIN Backends BY DEF Discovered, Answering, HostOK
    <2>2. CASE Discovered.ids = {}
      <3>1. sources'.ids = {} /\ host' = [d \in Domains |-> Gone("unsupported")] /\ measuring'.on = "done"
        BY <1>4, <2>2 DEF PowerFirst, Quiet
      <3>2. \A d \in Domains : ~Shown(host'[d]) BY <3>1 DEF Shown, Gone
      <3>3. Domains' = Domains BY DEF Domains
      <3>4. HostFiguresMeasured'
        BY <3>1, <3>2, <3>3
        DEF HostFiguresMeasured, PowerIsWhatWasUsed, BatteryFiguresWhole, IdleIsOfTheWindow, DomainUsed
      <3>. QED BY <1>1, <1>2, <3>1, <3>4 DEF HostOK
    <2>3. CASE Discovered.ids # {}
      <3>1. /\ sources' = Discovered /\ measuring'.on = "power" /\ measuring'.machine = Marks
            /\ measuring'.zones = [b \in Answering(Discovered.ids, Marks) |-> Read(b, Marks)]
        BY <1>4, <2>3 DEF PowerFirst, Quiet
      <3>2. PowerOpen' BY <1>2, <1>3, <3>1 DEF PowerOpen, HostOK, Marks, Answering
      <3>3. HostFiguresMeasured'
        BY <3>1 DEF HostFiguresMeasured, PowerIsWhatWasUsed, BatteryFiguresWhole, IdleIsOfTheWindow
      <3>. QED BY <1>1, <1>2, <2>1, <3>1, <3>2, <3>3 DEF HostOK
    <2>. QED BY <2>2, <2>3
  <1>5. CASE PowerSecond
    <2>1. /\ measuring'.on = "done" /\ measuring'.machine = measuring.machine /\ measuring'.after = Marks
          /\ sources' = sources /\ measuring.on = "power"
          /\ host' = [d \in Domains |-> Merge([b \in Knowing(measuring.zones, d) |->
                                          Watts(measuring.zones[b], Second(measuring.zones, b), d)])]
      BY <1>5 DEF PowerSecond, HostOK
    <2>2. Marks.locked = locked /\ Marks.energy = energy BY DEF Marks
    <2>3. ASSUME measuring.machine.locked = locked, \A z \in present : measuring.machine.energy[z] <= energy[z],
                 NEW d \in Domains
          PROVE  DomainUsed(present, sources.ids, measuring.machine, Marks, d, host'[d])
      BY <2>1, <2>3, MergedIsUsed
    <2>5. PowerIsWhatWasUsed' BY <1>2, <2>1, <2>2, <2>3 DEF PowerIsWhatWasUsed, Domains
    <2>6. HostFiguresMeasured' BY <2>1, <2>5 DEF HostFiguresMeasured, BatteryFiguresWhole, IdleIsOfTheWindow
    <2>. QED BY <1>1, <1>2, <2>1, <2>6 DEF HostOK
  <1>. QED BY <1>4, <1>5

(***************************************************************************)
(* Idle states and batteries.                                              *)
(***************************************************************************)
LEMMA CstateTurn ==
  ASSUME HostOK, query' = query, query.host = "cstate", CstateFirst \/ CstateSecond
  PROVE  HostOK'
  <1>1. /\ measuring' = [on |-> measuring'.on, sum |-> measuring'.sum, cpus |-> measuring'.cpus,
              zones |-> measuring'.zones, machine |-> measuring'.machine, after |-> measuring'.after]
        /\ machine' = machine /\ sources' = sources
    BY DEF HostOK, CstateFirst, CstateSecond, Quiet
  <1>2. idle' = idle /\ online' = online /\ energy' = energy /\ present' = present BY <1>1 DEF machine
  <1>3. PowerIsWhatWasUsed' /\ BatteryFiguresWhole' BY DEF PowerIsWhatWasUsed, BatteryFiguresWhole
  <1>4. CASE CstateFirst /\ ~DeepOK
    <2>1. measuring'.on = "done" /\ ~Shown(host'.cstate) BY <1>4 DEF CstateFirst, Quiet, Shown, Gone
    <2>2. IdleIsOfTheWindow' BY <2>1 DEF IdleIsOfTheWindow
    <2>. QED BY <1>1, <1>2, <1>3, <2>1, <2>2 DEF HostOK, HostFiguresMeasured
  <1>5. CASE CstateFirst /\ DeepOK
    <2>1. /\ measuring'.on = "cstate" /\ measuring'.machine = Marks
          /\ measuring'.sum = DeepSum /\ measuring'.cpus = Cardinality(online)
      BY <1>5 DEF CstateFirst, Quiet
    <2>2. CstateOpen' BY <1>2, <2>1 DEF CstateOpen, HostOK, Marks, DeepSum
    <2>3. IdleIsOfTheWindow' BY <2>1 DEF IdleIsOfTheWindow
    <2>. QED BY <1>1, <1>2, <1>3, <2>1, <2>2, <2>3 DEF HostOK, HostFiguresMeasured
  <1>6. CASE CstateSecond
    <2>1. /\ CstateOpen /\ measuring'.on = "done" /\ measuring'.machine = measuring.machine
          /\ measuring'.after.online = online /\ measuring'.after.idle = idle
          /\ host'.cstate = IF ~DeepOK \/ DeepSum < measuring.sum THEN Gone("warming_up")
                            ELSE Val(DeepSum - measuring.sum)
      BY <1>6 DEF CstateSecond, HostOK, Marks
    <2>. DEFINE m == measuring.machine
                g == [c \in Cpus |-> idle[c] - m.idle[c]]
    <2>2. Shown(host'.cstate) => host'.cstate.val = SumFunctionOnSet(idle, online) - SumFunctionOnSet(m.idle, m.online)
      BY <2>1 DEF Shown, Gone, Val, CstateOpen, DeepSum
    <2>3. m.idle \in [Cpus -> Nat] /\ m.online \in SUBSET Cpus /\ idle \in [Cpus -> Nat] BY <2>1 DEF CstateOpen, HostOK
    <2>4. online = m.online => SumFunctionOnSet(idle, online) - SumFunctionOnSet(m.idle, m.online)
                               = SumFunctionOnSet(g, m.online)
      BY <2>3, IdleGrowth
    <2>5. online \subseteq m.online => SumFunctionOnSet(idle, online) - SumFunctionOnSet(m.idle, m.online)
                                       <= SumFunctionOnSet(g, online)
      BY <2>3, IdleGrowth
    <2>6. \A cs : IdledIn(cs, measuring'.machine, measuring'.after) = SumFunctionOnSet(g, cs) BY <2>1 DEF IdledIn
    <2>. HIDE DEF g, m
    <2>7. measuring'.machine.online = m.online /\ measuring'.after.online = online BY <2>1 DEF m
    <2>8. IdleIsOfTheWindow' BY <2>2, <2>4, <2>5, <2>6, <2>7 DEF IdleIsOfTheWindow, IdledIn
    <2>. QED BY <1>1, <1>2, <1>3, <2>1, <2>8 DEF HostOK, HostFiguresMeasured
  <1>. QED BY <1>4, <1>5, <1>6

\* A field every battery reports is reported by each of them.
LEMMA EveryReports ==
  ASSUME NEW f, Every(f)
  PROVE  \A b \in Installed : f \in DOMAIN supply[b].has
  BY DEF Every, Reporting

LEMMA LevelOfAll ==
  ASSUME Shown(BatteryLevel)
  PROVE  Every("charge") \/ Every("energy") \/ Every("capacity")
  <1>1. \A r \in {"unsupported", "warming_up"} : ~Shown(Gone(r)) BY DEF Shown, Gone
  <1>2. CASE \E i \in 1..2 : Both(Fields[i]) BY <1>2 DEF Both, Fields
  <1>3. CASE ~\E i \in 1..2 : Both(Fields[i]) BY <1>1, <1>3 DEF BatteryLevel
  <1>. QED BY <1>2, <1>3

LEMMA TimeOfAll ==
  ASSUME Shown(TimeLeft)
  PROVE  /\ {"Charging", "Discharging"} \cap Statuses = {BatteryState}
         /\ Every("current") \/ Every("power")
  <1>1. \A r \in {"unsupported", "warming_up"} : ~Shown(Gone(r)) BY DEF Shown, Gone
  <1>2. /\ Doing("Charging") \/ Doing("Discharging")
        /\ ~(Doing("Charging") /\ Doing("Discharging"))
        /\ \E i \in 1..2 : Every(Fields[i].rate)
    BY <1>1 DEF TimeLeft
  <1>3. Every("current") \/ Every("power") BY <1>2 DEF Fields
  <1>4. (CHOOSE st \in Statuses : TRUE) \in Statuses BY <1>2 DEF Doing
  <1>5. CASE Doing("Charging")
    <2>1. BatteryState = "Charging" BY <1>2, <1>4, <1>5 DEF BatteryState, Doing
    <2>. QED BY <1>2, <1>3, <1>5, <2>1 DEF Doing
  <1>6. CASE Doing("Discharging")
    <2>1. BatteryState = "Discharging" BY <1>2, <1>4, <1>6 DEF BatteryState, Doing
    <2>. QED BY <1>2, <1>3, <1>6, <2>1 DEF Doing
  <1>. QED BY <1>2, <1>5, <1>6

LEMMA BatteryTurn ==
  ASSUME HostOK, query' = query, query.host = "battery", BatteryHost
  PROVE  HostOK'
  <1>1. /\ measuring' = [Quiet EXCEPT !.on = "done"] /\ machine' = machine /\ sources' = sources
    BY DEF BatteryHost
  <1>2. /\ idle' = idle /\ online' = online /\ energy' = energy /\ present' = present /\ supply' = supply
    BY <1>1 DEF machine
  <1>3. \A r \in {"unsupported", "warming_up"} : ~Shown(Gone(r)) BY DEF Shown, Gone
  <1>4. CASE Installed = {}
    <2>1. ~Shown(host'.charge) /\ ~Shown(host'.energy) /\ ~Shown(host'.level) /\ ~Shown(host'.left)
      BY <1>3, <1>4 DEF BatteryHost
    <2>. QED BY <1>1, <1>2, <2>1
         DEF HostOK, HostFiguresMeasured, PowerIsWhatWasUsed, BatteryFiguresWhole, IdleIsOfTheWindow, Quiet
  <1>5. CASE Installed # {}
    <2>1. /\ host'.state = Val(BatteryState) /\ host'.level = BatteryLevel /\ host'.left = TimeLeft
          /\ host'.charge = IF Both(Fields[1]) THEN Val(AddUp("charge")) ELSE Gone("unsupported")
          /\ host'.energy = IF Both(Fields[2]) THEN Val(AddUp("energy")) ELSE Gone("unsupported")
      BY <1>5 DEF BatteryHost
    <2>2. Shown(host'.charge) => Every("charge") /\ Every("charge_full") BY <1>3, <2>1 DEF Both, Fields
    <2>3. Shown(host'.energy) => Every("energy") /\ Every("energy_full") BY <1>3, <2>1 DEF Both, Fields
    <2>4. Shown(host'.level) => Every("charge") \/ Every("energy") \/ Every("capacity") BY <2>1, LevelOfAll
    <2>5. host'.state.val = BatteryState BY <2>1 DEF Val
    <2>6. Shown(host'.left) => /\ {"Charging", "Discharging"} \cap Statuses = {host'.state.val}
                               /\ Every("current") \/ Every("power")
      BY <2>1, <2>5, TimeOfAll
    <2>7. Installed' = Installed /\ Statuses' = Statuses BY <1>2 DEF Installed, Statuses
    <2>8. BatteryFiguresWhole'
      BY <1>2, <2>2, <2>3, <2>4, <2>6, <2>7, EveryReports DEF BatteryFiguresWhole
    <2>. QED BY <1>1, <1>2, <2>8 DEF HostOK, HostFiguresMeasured, PowerIsWhatWasUsed, IdleIsOfTheWindow, Quiet
  <1>. QED BY <1>4, <1>5

(***************************************************************************)
(* Every step.                                                             *)
(***************************************************************************)
LEMMA HostStep ==
  ASSUME HostOK, [Next]_vars
  PROVE  HostOK'
  <1>1. CASE CollectHost
    <2>1. query' = query BY <1>1 DEF CollectHost, command
    <2>. QED BY <1>1, <2>1, CstateTurn, PowerTurn, BatteryTurn DEF CollectHost
  <1>2. CASE Emit
    <2>1. measuring' = Quiet /\ machine' = machine /\ sources' = sources BY <1>2 DEF Emit, Aside
    <2>. QED BY <2>1
         DEF HostOK, HostFiguresMeasured, PowerIsWhatWasUsed, BatteryFiguresWhole, IdleIsOfTheWindow, Quiet, machine
  <1>3. CASE Machine BY <1>3, MachineKeepsHost
  <1>4. CASE UNCHANGED <<machine, hosts, query>>
    <2>1. HostKept /\ idle' = idle /\ online' = online /\ energy' = energy
      BY <1>4 DEF HostKept, machine, hosts
    <2>2. HostFiguresMeasured' BY <2>1, FiguresKept DEF HostOK
    <2>3. \A b, now : Read(b, now)' = Read(b, now) BY <2>1 DEF HostKept, Read, ZonesOf
    <2>4. CstateOpen => CstateOpen' BY <2>1 DEF HostKept, CstateOpen
    <2>5. PowerOpen => PowerOpen' BY <2>1, <2>3 DEF HostKept, PowerOpen, Answering
    <2>. QED BY <2>1, <2>2, <2>4, <2>5 DEF HostOK, HostKept
  <1>5. CASE UNCHANGED vars
    <2>1. UNCHANGED <<machine, hosts, query>> BY <1>5 DEF vars, command
    <2>. QED BY <1>4, <2>1
  <1>. QED BY <1>1, <1>2, <1>3, <1>4, <1>5, OthersSpareHost

LEMMA HostBegins == Init => HostOK
  <1>. SUFFICES ASSUME Init PROVE HostOK OBVIOUS
  <1>1. HostInit BY DEF Init
  <1>2. idle \in [Cpus -> Nat] /\ energy \in [Zones -> Nat] /\ present \in SUBSET Zones
    BY <1>1, HostAssumption DEF HostInit
  <1>. QED BY <1>1, <1>2
       DEF HostInit, HostOK, Quiet, HostFiguresMeasured, PowerIsWhatWasUsed, BatteryFiguresWhole, IdleIsOfTheWindow

\* While a window of the host is open, its first readings are those of the machine as it
\* was then; and what was shown of the machine was measured of it (internal/procfs/cstate.go,
\* power_collect.go, battery.go).
THEOREM HostInvariant == Spec => []HostOK
  <1>1. Init => HostOK BY HostBegins
  <1>2. HostOK /\ [Next]_vars => HostOK' BY HostStep
  <1>. QED BY <1>1, <1>2, PTL DEF Spec

\* A domain's power is what the first source that could read some of its zones measured of
\* those it could read, a combined battery figure has every battery in it, and the deep idle
\* time shown is what the processors idled in the window, of those left at its end at most
\* (internal/procfs/power_collect.go, battery.go, cstate.go).
THEOREM HostFigures == Spec => []HostFiguresMeasured
  <1>1. HostOK => HostFiguresMeasured BY DEF HostOK
  <1>. QED BY <1>1, HostInvariant, PTL
=============================================================================
