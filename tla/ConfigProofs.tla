----------------------------- MODULE ConfigProofs -----------------------------
(***************************************************************************)
(* Theorems about Config, for every registry, every file the decoders let  *)
(* pass and every order its presets are visited in, every precedence and   *)
(* every setting.                                                          *)
(***************************************************************************)
EXTENDS Config, FiniteSetTheorems, WellFoundedInduction, TLAPS

(***************************************************************************)
(* Recursion.  A function that is defined by its value at a smaller        *)
(* argument exists: there is one on the arguments smaller than n, for n = 0 *)
(* and so on.                                                              *)
(***************************************************************************)
LEMMA EveryNatural ==
  ASSUME NEW U, 0 \in U, \A n \in Nat : n \in U => n + 1 \in U
  PROVE  Nat \subseteq U
  <1>1. SUFFICES ASSUME Nat \ U # {} PROVE FALSE OBVIOUS
  <1>2. PICK m \in Nat \ U : \A k \in Nat \ U : ~(<<k, m>> \in OpToRel(<, Nat))
    BY <1>1, NatLessThanWellFounded, WFMin, Zenon
  <1>3. m # 0 /\ m - 1 \in Nat /\ m - 1 < m OBVIOUS
  <1>4. m - 1 \in U BY <1>2, <1>3 DEF OpToRel
  <1>5. (m - 1) + 1 = m OBVIOUS
  <1>. QED BY <1>3, <1>4, <1>5

Recursed(f, D, stops, first, next, wrap) ==
  f = [d \in D |-> IF d \in stops THEN first[d] ELSE wrap[<<d, f[next[d]]>>]]

LEMMA ChainRecursion ==
  ASSUME NEW D, NEW V, NEW stops, NEW first, NEW next, NEW wrap, NEW size, NEW max \in Nat,
         \A d \in D : size[d] \in Nat /\ size[d] < max,
         \A d \in D : d \in stops => first[d] \in V,
         \A d \in D : d \notin stops => /\ next[d] \in D /\ size[next[d]] < size[d]
                                        /\ \A v \in V : wrap[<<d, v>>] \in V
  PROVE  \E f \in [D -> V] : Recursed(f, D, stops, first, next, wrap)
  <1>. DEFINE Below(n) == {d \in D : size[d] < n}
              U == {n \in Nat : \E f \in [Below(n) -> V] : Recursed(f, Below(n), stops, first, next, wrap)}
  <1>1. 0 \in U
    <2>. DEFINE f == [d \in {} |-> d]
    <2>1. Below(0) = {} OBVIOUS
    <2>2. f \in [Below(0) -> V] /\ Recursed(f, Below(0), stops, first, next, wrap) BY <2>1 DEF Recursed
    <2>. QED BY <2>2
  <1>2. ASSUME NEW n \in Nat, n \in U PROVE n + 1 \in U
    <2>1. PICK f \in [Below(n) -> V] : Recursed(f, Below(n), stops, first, next, wrap) BY <1>2
    <2>. DEFINE A == Below(n)
                B == Below(n + 1)
                g == [d \in B |-> IF d \in stops THEN first[d] ELSE wrap[<<d, f[next[d]]>>]]
    <2>2. A \subseteq B OBVIOUS
    <2>3. \A d \in B : d \notin stops => next[d] \in A OBVIOUS
    <2>4. \A d \in A : f[d] = IF d \in stops THEN first[d] ELSE wrap[<<d, f[next[d]]>>]
      BY <2>1 DEF Recursed
    <2>5. \A d \in A : g[d] = f[d] BY <2>2, <2>4
    <2>6. g \in [B -> V]
      <3>1. \A d \in B : (IF d \in stops THEN first[d] ELSE wrap[<<d, f[next[d]]>>]) \in V
        <4>1. \A e \in A : f[e] \in V BY <2>1
        <4>2. \A d \in B : d \in D OBVIOUS
        <4>. HIDE DEF A, B
        <4>. QED BY <2>3, <4>1, <4>2
      <3>. QED BY <3>1
    <2>7. Recursed(g, B, stops, first, next, wrap)
      <3>1. \A d \in B : d \notin stops => g[next[d]] = f[next[d]] BY <2>3, <2>5
      <3>2. \A d \in B : g[d] = IF d \in stops THEN first[d] ELSE wrap[<<d, g[next[d]]>>] BY <3>1
      <3>. QED BY <3>2 DEF Recursed
    <2>8. n + 1 \in Nat OBVIOUS
    <2>. HIDE DEF g
    <2>. QED BY <2>6, <2>7, <2>8
  <1>3. max \in U
    <2>. HIDE DEF U
    <2>. QED BY <1>1, <1>2, EveryNatural
  <1>4. Below(max) = D OBVIOUS
  <1>. QED BY <1>3, <1>4

(***************************************************************************)
(* The search of the preset graph, one visit.                              *)
(***************************************************************************)
Colorings(ps) == [DOMAIN ps -> Colors]
States(ps) == [at : DOMAIN ps, color : Colorings(ps)]
Verdicts(ps) == [ok : BOOLEAN, color : Colorings(ps)]

Opened(s) == [s.color EXCEPT ![s.at] = "gray"]
Closed(s) == [ok |-> TRUE, color |-> [Opened(s) EXCEPT ![s.at] = "black"]]
Refusal(s) == [ok |-> FALSE, color |-> s.color]
Returned(s, up) == IF up.ok THEN [up EXCEPT !.color[s.at] = "black"] ELSE Refusal(s)
Parent(ps, s) == ps[s.at].extends
\* The visit goes on to the parent when nothing is known of it yet.
GoesOn(ps, s) == /\ Parent(ps, s) # ""
                 /\ Parent(ps, s) \in DOMAIN ps
                 /\ Opened(s)[Parent(ps, s)] = "white"
Above(ps, s) == [at |-> Parent(ps, s), color |-> Opened(s)]
Outcome(ps, s) ==
  IF Parent(ps, s) = "" THEN Closed(s)
  ELSE IF Parent(ps, s) \notin DOMAIN ps \/ Opened(s)[Parent(ps, s)] = "gray" THEN Refusal(s)
  ELSE Closed(s)
Others(ps, s) == {n \in DOMAIN ps \ {s.at} : s.color[n] = "white"}

LEMMA StateTypes ==
  ASSUME NEW ps, NEW s \in States(ps)
  PROVE  /\ s.at \in DOMAIN ps /\ s.color \in Colorings(ps)
         /\ Opened(s) \in Colorings(ps)
         /\ Outcome(ps, s) \in Verdicts(ps) /\ Refusal(s) \in Verdicts(ps)
         /\ \A up \in Verdicts(ps) : Returned(s, up) \in Verdicts(ps)
         /\ GoesOn(ps, s) => Above(ps, s) \in States(ps)
  <1>1. s.at \in DOMAIN ps /\ s.color \in Colorings(ps) BY DEF States
  <1>2. Opened(s) \in Colorings(ps) BY <1>1 DEF Opened, Colorings, Colors
  <1>3. [Opened(s) EXCEPT ![s.at] = "black"] \in Colorings(ps) BY <1>1, <1>2 DEF Colorings, Colors
  <1>4. Closed(s) \in Verdicts(ps) /\ Refusal(s) \in Verdicts(ps)
    BY <1>1, <1>3 DEF Closed, Refusal, Verdicts
  <1>5. ASSUME NEW up \in Verdicts(ps) PROVE Returned(s, up) \in Verdicts(ps)
    <2>1. up.color \in Colorings(ps) /\ up = [ok |-> up.ok, color |-> up.color] BY DEF Verdicts
    <2>2. [up.color EXCEPT ![s.at] = "black"] \in Colorings(ps) BY <2>1 DEF Colorings, Colors
    <2>3. [up EXCEPT !.color[s.at] = "black"] = [ok |-> up.ok, color |-> [up.color EXCEPT ![s.at] = "black"]]
      BY <2>1
    <2>. QED BY <1>4, <2>2, <2>3 DEF Returned, Verdicts
  <1>6. GoesOn(ps, s) => Above(ps, s) \in States(ps) BY <1>2 DEF GoesOn, Above, States
  <1>. QED BY <1>1, <1>2, <1>4, <1>5, <1>6 DEF Outcome

LEMMA OthersShrink ==
  ASSUME NEW ps, IsFiniteSet(DOMAIN ps), NEW s \in States(ps)
  PROVE  /\ Cardinality(Others(ps, s)) \in Nat
         /\ Cardinality(Others(ps, s)) < Cardinality(DOMAIN ps) + 1
         /\ GoesOn(ps, s) => Cardinality(Others(ps, Above(ps, s))) < Cardinality(Others(ps, s))
  <1>1. Others(ps, s) \subseteq DOMAIN ps BY DEF Others
  <1>2. IsFiniteSet(Others(ps, s)) /\ Cardinality(Others(ps, s)) <= Cardinality(DOMAIN ps)
    BY <1>1, FS_Subset
  <1>3. Cardinality(Others(ps, s)) \in Nat /\ Cardinality(DOMAIN ps) \in Nat
    BY <1>2, FS_CardinalityType
  <1>4. ASSUME GoesOn(ps, s) PROVE Cardinality(Others(ps, Above(ps, s))) < Cardinality(Others(ps, s))
    <2>. DEFINE up == Parent(ps, s)
    <2>1. up \in Others(ps, s)
      <3>1. up \in DOMAIN ps /\ Opened(s)[up] = "white" BY <1>4 DEF GoesOn
      <3>2. up # s.at /\ s.color[up] = "white"
        BY <3>1, StateTypes DEF Opened, Colorings
      <3>. QED BY <3>1, <3>2 DEF Others
    <2>2. Others(ps, Above(ps, s)) \subseteq Others(ps, s) \ {up}
      <3>1. SUFFICES ASSUME NEW n \in Others(ps, Above(ps, s)) PROVE n \in Others(ps, s) \ {up} OBVIOUS
      <3>2. n \in DOMAIN ps /\ n # up /\ Opened(s)[n] = "white" BY DEF Others, Above
      <3>3. n # s.at /\ s.color[n] = "white" BY <3>2, StateTypes DEF Opened, Colorings
      <3>. QED BY <3>2, <3>3 DEF Others
    <2>3. IsFiniteSet(Others(ps, s) \ {up}) /\ Cardinality(Others(ps, s) \ {up}) = Cardinality(Others(ps, s)) - 1
      BY <1>2, <2>1, FS_RemoveElement
    <2>. HIDE DEF up
    <2>4. /\ IsFiniteSet(Others(ps, Above(ps, s)))
          /\ Cardinality(Others(ps, Above(ps, s))) <= Cardinality(Others(ps, s) \ {up})
      BY <2>2, <2>3, FS_Subset
    <2>5. Cardinality(Others(ps, Above(ps, s))) \in Nat BY <2>4, FS_CardinalityType
    <2>. QED BY <1>3, <2>3, <2>4, <2>5
  <1>. QED BY <1>2, <1>3, <1>4

\* What holds of a visit when it holds of the one it goes on to, holds of all.
LEMMA VisitInduction ==
  ASSUME NEW ps, IsFiniteSet(DOMAIN ps), NEW P,
         \A s \in States(ps) : (GoesOn(ps, s) => Above(ps, s) \in P) => s \in P
  PROVE  States(ps) \subseteq P
  <1>. DEFINE size(s) == Cardinality(Others(ps, s))
              U == {n \in Nat : \A s \in States(ps) : size(s) < n => s \in P}
  <1>1. \A s \in States(ps) : size(s) \in Nat BY OthersShrink
  <1>2. 0 \in U BY <1>1
  <1>3. ASSUME NEW n \in Nat, n \in U PROVE n + 1 \in U
    <2>1. SUFFICES ASSUME NEW s \in States(ps), size(s) < n + 1 PROVE s \in P OBVIOUS
    <2>2. ASSUME GoesOn(ps, s) PROVE Above(ps, s) \in P
      <3>1. Above(ps, s) \in States(ps) BY <2>2, StateTypes
      <3>2. size(Above(ps, s)) < size(s) BY <2>2, OthersShrink
      <3>3. size(s) \in Nat /\ size(Above(ps, s)) \in Nat BY <1>1, <3>1
      <3>. HIDE DEF size
      <3>. QED BY <1>3, <2>1, <3>1, <3>2, <3>3
    <2>. QED BY <2>2
  <1>4. Nat \subseteq U
    <2>. HIDE DEF U
    <2>. QED BY <1>2, <1>3, EveryNatural
  <1>5. Cardinality(DOMAIN ps) + 1 \in Nat BY FS_CardinalityType
  <1>6. \A s \in States(ps) : size(s) < Cardinality(DOMAIN ps) + 1 BY OthersShrink
  <1>. HIDE DEF size
  <1>. QED BY <1>4, <1>5, <1>6

VisitBody(ps, visit) ==
  [s \in States(ps) |-> IF GoesOn(ps, s) THEN Returned(s, visit[Above(ps, s)]) ELSE Outcome(ps, s)]

LEMMA VisitUnfolds ==
  ASSUME NEW ps PROVE Visit(ps) = CHOOSE visit : visit = VisitBody(ps, visit)
  <1>. DEFINE Body(visit) ==
         [s \in [at : DOMAIN ps, color : [DOMAIN ps -> Colors]] |->
           LET parent == ps[s.at].extends
               open == [s.color EXCEPT ![s.at] = "gray"]
               closed == [ok |-> TRUE, color |-> [open EXCEPT ![s.at] = "black"]]
               refused == [ok |-> FALSE, color |-> s.color]
           IN  IF parent = "" THEN closed
               ELSE IF parent \notin DOMAIN ps \/ open[parent] = "gray" THEN refused
               ELSE IF open[parent] = "black" THEN closed
               ELSE LET up == visit[[at |-> parent, color |-> open]]
                    IN  IF up.ok THEN [up EXCEPT !.color[s.at] = "black"] ELSE refused]
  <1>1. Visit(ps) = CHOOSE visit : visit = Body(visit) BY DEF Visit
  <1>2. ASSUME NEW visit PROVE Body(visit) = VisitBody(ps, visit)
    <2>1. ASSUME NEW s \in States(ps) PROVE Body(visit)[s] = VisitBody(ps, visit)[s]
      <3>1. Parent(ps, s) \in DOMAIN ps => Opened(s)[Parent(ps, s)] \in Colors
        BY StateTypes DEF Colorings
      <3>. QED BY <3>1 DEF VisitBody, GoesOn, Outcome, Returned, Above, Closed, Refusal, Parent, Opened, States, Colorings, Colors
    <2>. QED BY <2>1 DEF VisitBody, States, Colorings
  <1>. HIDE DEF Body
  <1>. QED BY <1>1, <1>2

LEMMA VisitIs ==
  ASSUME NEW ps, IsFiniteSet(DOMAIN ps)
  PROVE  \A s \in States(ps) :
           /\ Visit(ps)[s] \in Verdicts(ps)
           /\ Visit(ps)[s] = IF GoesOn(ps, s) THEN Returned(s, Visit(ps)[Above(ps, s)]) ELSE Outcome(ps, s)
  <1>. DEFINE D == States(ps)
              V == Verdicts(ps)
              stops == {s \in D : ~GoesOn(ps, s)}
              first == [s \in D |-> Outcome(ps, s)]
              next == [s \in D |-> Above(ps, s)]
              wrap == [p \in D \X V |-> Returned(p[1], p[2])]
              size == [s \in D |-> Cardinality(Others(ps, s))]
              max == Cardinality(DOMAIN ps) + 1
  <1>1. max \in Nat BY FS_CardinalityType
  <1>2. \A s \in D : size[s] \in Nat /\ size[s] < max BY OthersShrink
  <1>3. \A s \in D : s \in stops => first[s] \in V BY StateTypes
  <1>4. \A s \in D : s \notin stops => /\ next[s] \in D /\ size[next[s]] < size[s]
                                       /\ \A v \in V : wrap[<<s, v>>] \in V
    <2>1. SUFFICES ASSUME NEW s \in D, GoesOn(ps, s)
                   PROVE  /\ next[s] \in D /\ size[next[s]] < size[s]
                          /\ \A v \in V : wrap[<<s, v>>] \in V
      OBVIOUS
    <2>2. next[s] \in D /\ next[s] = Above(ps, s) BY <2>1, StateTypes
    <2>3. size[next[s]] < size[s] BY <2>1, <2>2, OthersShrink
    <2>4. \A v \in V : wrap[<<s, v>>] \in V BY StateTypes
    <2>. QED BY <2>2, <2>3, <2>4
  <1>5. PICK f \in [D -> V] : Recursed(f, D, stops, first, next, wrap)
    <2>. HIDE DEF D, V, stops, first, next, wrap, size, max
    <2>. QED BY <1>1, <1>2, <1>3, <1>4, ChainRecursion
  <1>6. f = VisitBody(ps, f)
    <2>1. ASSUME NEW s \in D
          PROVE  (IF s \in stops THEN first[s] ELSE wrap[<<s, f[next[s]]>>])
                   = IF GoesOn(ps, s) THEN Returned(s, f[Above(ps, s)]) ELSE Outcome(ps, s)
      <3>1. CASE ~GoesOn(ps, s) BY <3>1
      <3>2. CASE GoesOn(ps, s)
        <4>1. next[s] = Above(ps, s) /\ Above(ps, s) \in D BY <3>2, StateTypes
        <4>2. f[next[s]] \in V BY <4>1
        <4>3. wrap[<<s, f[next[s]]>>] = Returned(s, f[Above(ps, s)]) BY <4>1, <4>2
        <4>. QED BY <3>2, <4>3
      <3>. QED BY <3>1, <3>2
    <2>2. f = [s \in D |-> IF s \in stops THEN first[s] ELSE wrap[<<s, f[next[s]]>>]] BY <1>5 DEF Recursed
    <2>. HIDE DEF stops, first, next, wrap
    <2>. QED BY <2>1, <2>2 DEF VisitBody
  <1>7. Visit(ps) = VisitBody(ps, Visit(ps)) BY <1>6, VisitUnfolds
  <1>. DEFINE v == Visit(ps)
  <1>8. \A s \in D : v[s] = IF GoesOn(ps, s) THEN Returned(s, v[Above(ps, s)]) ELSE Outcome(ps, s)
    <2>. HIDE DEF v
    <2>1. v = VisitBody(ps, v) BY <1>7 DEF v
    <2>. QED BY <2>1 DEF VisitBody
  <1>9. \A s \in D : v[s] \in V
    <2>. DEFINE P == {s \in D : v[s] \in V}
    <2>1. \A s \in D : (GoesOn(ps, s) => Above(ps, s) \in P) => s \in P BY <1>8, StateTypes
    <2>2. D \subseteq P
      <3>. HIDE DEF P
      <3>. QED BY <2>1, VisitInduction
    <2>. QED BY <2>2
  <1>. QED BY <1>8, <1>9

(***************************************************************************)
(* What a visit finds.  Presets that are black are right: they and their   *)
(* parents exist, and no chain among them comes back.                      *)
(***************************************************************************)
Parents(ps, n) == {ps[n].extends} \ {""}
\* Every set of presets of `names' has one without a parent in the set.
Rooted(ps, names) == \A round \in (SUBSET names) \ {{}} : \E n \in round : Parents(ps, n) \cap round = {}
Sound(ps, names) == (\A n \in names : Parents(ps, n) \subseteq names) /\ Rooted(ps, names)
Colored(c, color) == {n \in DOMAIN c : c[n] = color}

LEMMA SoundGrows ==
  ASSUME NEW ps, NEW names, Sound(ps, names), NEW at, at \notin names, Parents(ps, at) \subseteq names
  PROVE  Sound(ps, names \cup {at})
  <1>1. SUFFICES ASSUME NEW round \in SUBSET (names \cup {at}), round # {}
                 PROVE  \E n \in round : Parents(ps, n) \cap round = {}
    BY DEF Sound, Rooted
  <1>2. CASE round \cap names = {}
    <2>1. round = {at} BY <1>1, <1>2
    <2>. QED BY <2>1
  <1>3. CASE round \cap names # {}
    <2>1. PICK n \in round \cap names : Parents(ps, n) \cap (round \cap names) = {}
      BY <1>3 DEF Sound, Rooted
    <2>2. Parents(ps, n) \subseteq names BY <2>1 DEF Sound
    <2>. QED BY <2>1, <2>2
  <1>. QED BY <1>2, <1>3

\* A visit that ends well from sound marks leaves sound marks, its own preset among
\* them, and no other preset open that was not.
Finds(ps, s) ==
  LET c == Visit(ps)[s].color
  IN  s.color[s.at] = "white" /\ Sound(ps, Colored(s.color, "black")) /\ Visit(ps)[s].ok =>
        /\ Sound(ps, Colored(c, "black"))
        /\ c[s.at] = "black"
        /\ \A n \in DOMAIN ps \ {s.at} : /\ s.color[n] = "black" => c[n] = "black"
                                         /\ s.color[n] = "gray" <=> c[n] = "gray"

LEMMA ClosedFinds ==
  ASSUME NEW ps, NEW s \in States(ps), s.color[s.at] = "white", NEW up \in Colorings(ps),
         Sound(ps, Colored(up, "black")), up[s.at] = "gray", Parents(ps, s.at) \subseteq Colored(up, "black")
  PROVE  Sound(ps, Colored([up EXCEPT ![s.at] = "black"], "black"))
  <1>1. s.at \in DOMAIN ps BY StateTypes
  <1>2. Colored([up EXCEPT ![s.at] = "black"], "black") = Colored(up, "black") \cup {s.at}
    BY <1>1 DEF Colored, Colorings
  <1>3. s.at \notin Colored(up, "black") BY DEF Colored
  <1>4. Sound(ps, Colored(up, "black") \cup {s.at}) BY <1>3, SoundGrows
  <1>. QED BY <1>2, <1>4

LEMMA VisitFinds ==
  ASSUME NEW ps, IsFiniteSet(DOMAIN ps)
  PROVE  \A s \in States(ps) : Finds(ps, s)
  <1>. DEFINE P == {s \in States(ps) : Finds(ps, s)}
              v == Visit(ps)
  <1>1. ASSUME NEW s \in States(ps), GoesOn(ps, s) => Above(ps, s) \in P PROVE s \in P
    <2>1. SUFFICES ASSUME s.color[s.at] = "white", Sound(ps, Colored(s.color, "black")), v[s].ok
                   PROVE  LET c == v[s].color
                          IN  /\ Sound(ps, Colored(c, "black"))
                              /\ c[s.at] = "black"
                              /\ \A n \in DOMAIN ps \ {s.at} : /\ s.color[n] = "black" => c[n] = "black"
                                                               /\ s.color[n] = "gray" <=> c[n] = "gray"
      BY DEF Finds
    <2>. DEFINE open == Opened(s)
    <2>2. /\ s.at \in DOMAIN ps /\ s.color \in Colorings(ps) /\ open \in Colorings(ps)
          /\ open[s.at] = "gray" /\ \A n \in DOMAIN ps \ {s.at} : open[n] = s.color[n]
      BY StateTypes DEF Opened, Colorings
    <2>3. Colored(open, "black") = Colored(s.color, "black") BY <2>1, <2>2 DEF Colored, Colorings
    <2>4. CASE ~GoesOn(ps, s)
      <3>1. v[s] = Outcome(ps, s) BY <2>4, VisitIs
      <3>2. \/ Parent(ps, s) = ""
            \/ Parent(ps, s) \in DOMAIN ps /\ open[Parent(ps, s)] = "black"
        <4>1. Outcome(ps, s) # Refusal(s) BY <2>1, <3>1 DEF Refusal
        <4>2. Parent(ps, s) # "" => Parent(ps, s) \in DOMAIN ps /\ open[Parent(ps, s)] # "gray"
          BY <4>1 DEF Outcome
        <4>3. Parent(ps, s) # "" => open[Parent(ps, s)] \in Colors BY <2>2, <4>2 DEF Colorings
        <4>. QED BY <2>4, <4>2, <4>3 DEF GoesOn, Colors
      <3>3. v[s] = Closed(s) BY <3>1, <3>2 DEF Outcome
      <3>4. v[s].color = [open EXCEPT ![s.at] = "black"] BY <3>3 DEF Closed
      <3>5. Parents(ps, s.at) \subseteq Colored(open, "black")
        BY <2>2, <3>2 DEF Parents, Parent, Colored, Colorings
      <3>6. Sound(ps, Colored(v[s].color, "black")) BY <2>1, <2>2, <2>3, <3>4, <3>5, ClosedFinds
      <3>7. DOMAIN open = DOMAIN ps BY <2>2 DEF Colorings
      <3>. HIDE DEF open, v
      <3>. QED BY <2>2, <3>4, <3>6, <3>7
    <2>5. CASE GoesOn(ps, s)
      <3>. DEFINE a == Above(ps, s)
                  up == v[a]
      <3>1. a \in States(ps) /\ a.at = Parent(ps, s) /\ a.color = open /\ a \in P
        BY <1>1, <2>5, StateTypes DEF Above
      <3>2. up \in Verdicts(ps) /\ v[s] = Returned(s, up) BY <2>5, <3>1, VisitIs
      <3>3. up.ok /\ v[s] = [up EXCEPT !.color[s.at] = "black"] BY <2>1, <3>2 DEF Returned, Refusal
      <3>4. a.color[a.at] = "white" BY <2>5, <3>1 DEF GoesOn
      <3>5. Finds(ps, a) BY <3>1
      <3>6. /\ Sound(ps, Colored(up.color, "black"))
            /\ up.color[a.at] = "black"
            /\ \A n \in DOMAIN ps \ {a.at} : /\ open[n] = "black" => up.color[n] = "black"
                                             /\ open[n] = "gray" <=> up.color[n] = "gray"
        BY <2>1, <2>3, <3>1, <3>3, <3>4, <3>5 DEF Finds
      <3>7. up.color \in Colorings(ps) /\ v[s].color = [up.color EXCEPT ![s.at] = "black"]
        BY <3>2, <3>3 DEF Verdicts
      <3>8. a.at # s.at /\ a.at \in DOMAIN ps BY <2>2, <3>1, <3>4, StateTypes
      <3>9. up.color[s.at] = "gray" BY <2>2, <3>6, <3>8
      <3>10. Parents(ps, s.at) \subseteq Colored(up.color, "black")
        BY <3>1, <3>6, <3>7, <3>8 DEF Parents, Parent, Colored, Colorings
      <3>11. Sound(ps, Colored(v[s].color, "black")) BY <2>1, <3>6, <3>7, <3>9, <3>10, ClosedFinds
      <3>12. DOMAIN up.color = DOMAIN ps BY <3>7 DEF Colorings
      <3>13. open[a.at] = "white" BY <3>1, <3>4
      <3>. HIDE DEF open, v, a, up
      <3>. QED BY <2>2, <3>6, <3>7, <3>8, <3>11, <3>12, <3>13
    <2>. QED BY <2>4, <2>5
  <1>2. States(ps) \subseteq P
    <2>. HIDE DEF P
    <2>. QED BY <1>1, VisitInduction
  <1>. QED BY <1>2

\* While presets are open each has a parent that is open or being visited, so over
\* presets that are right no visit is refused.
Chained(ps, s) ==
  \A n \in Colored(s.color, "gray") :
    Parents(ps, n) # {} /\ Parents(ps, n) \subseteq Colored(s.color, "gray") \cup {s.at}
Passes(ps, s) ==
  s.color[s.at] = "white" /\ Sound(ps, DOMAIN ps) /\ Chained(ps, s) => Visit(ps)[s].ok

LEMMA VisitPasses ==
  ASSUME NEW ps, IsFiniteSet(DOMAIN ps)
  PROVE  \A s \in States(ps) : Passes(ps, s)
  <1>. DEFINE P == {s \in States(ps) : Passes(ps, s)}
  <1>1. ASSUME NEW s \in States(ps), GoesOn(ps, s) => Above(ps, s) \in P PROVE s \in P
    <2>1. SUFFICES ASSUME s.color[s.at] = "white", Sound(ps, DOMAIN ps), Chained(ps, s)
                   PROVE  Visit(ps)[s].ok
      BY DEF Passes
    <2>2. /\ s.at \in DOMAIN ps /\ s.color \in Colorings(ps) /\ Opened(s) \in Colorings(ps)
          /\ Colored(Opened(s), "gray") = Colored(s.color, "gray") \cup {s.at}
      <3>1. s.at \in DOMAIN ps /\ s.color \in Colorings(ps) /\ Opened(s) \in Colorings(ps) BY StateTypes
      <3>2. DOMAIN s.color = DOMAIN ps /\ DOMAIN Opened(s) = DOMAIN ps BY <3>1 DEF Colorings
      <3>3. \A n \in DOMAIN ps : Opened(s)[n] = IF n = s.at THEN "gray" ELSE s.color[n]
        BY <3>1, <3>2 DEF Opened
      <3>. QED BY <3>1, <3>2, <3>3 DEF Colored
    <2>3. Parent(ps, s) # "" => Parents(ps, s.at) = {Parent(ps, s)} BY DEF Parents, Parent
    <2>4. CASE ~GoesOn(ps, s)
      <3>1. Visit(ps)[s] = Outcome(ps, s) BY <2>4, VisitIs
      <3>2. ASSUME Parent(ps, s) # "" PROVE Parent(ps, s) \in DOMAIN ps
        BY <2>1, <2>2, <2>3, <3>2 DEF Sound
      <3>3. ASSUME Parent(ps, s) # "", Opened(s)[Parent(ps, s)] = "gray" PROVE FALSE
        <4>. DEFINE round == Colored(Opened(s), "gray")
        <4>1. round \in (SUBSET DOMAIN ps) \ {{}} BY <2>2 DEF Colored, Colorings
        <4>2. PICK n \in round : Parents(ps, n) \cap round = {} BY <2>1, <4>1 DEF Sound, Rooted
        <4>3. CASE n = s.at
          <5>1. Parent(ps, s) \in round BY <2>2, <3>2, <3>3 DEF Colored, Colorings
          <5>. QED BY <2>3, <3>3, <4>2, <4>3, <5>1
        <4>4. CASE n # s.at
          <5>1. n \in Colored(s.color, "gray") BY <2>2, <4>4
          <5>. QED BY <2>1, <2>2, <4>2, <5>1 DEF Chained
        <4>. QED BY <4>3, <4>4
      <3>4. Outcome(ps, s) = Closed(s) BY <3>2, <3>3 DEF Outcome
      <3>. QED BY <3>1, <3>4 DEF Closed
    <2>5. CASE GoesOn(ps, s)
      <3>. DEFINE a == Above(ps, s)
      <3>1. a \in States(ps) /\ a.at = Parent(ps, s) /\ a.color = Opened(s) /\ Passes(ps, a)
        BY <1>1, <2>5, StateTypes DEF Above
      <3>2. a.color[a.at] = "white" /\ Parent(ps, s) # "" BY <2>5, <3>1 DEF GoesOn
      <3>3. ASSUME NEW n \in Colored(a.color, "gray")
            PROVE  Parents(ps, n) # {} /\ Parents(ps, n) \subseteq Colored(a.color, "gray") \cup {a.at}
        <4>1. CASE n = s.at BY <2>3, <3>1, <3>2, <4>1
        <4>2. CASE n # s.at BY <2>1, <2>2, <3>1, <3>3, <4>2 DEF Chained
        <4>. QED BY <4>1, <4>2
      <3>4. Visit(ps)[a].ok BY <2>1, <3>1, <3>2, <3>3 DEF Passes, Chained
      <3>5. Visit(ps)[s] = [Visit(ps)[a] EXCEPT !.color[s.at] = "black"]
        BY <2>5, <3>4, VisitIs DEF Returned
      <3>6. Visit(ps)[a] = [ok |-> Visit(ps)[a].ok, color |-> Visit(ps)[a].color]
        BY <3>1, VisitIs DEF Verdicts
      <3>. QED BY <3>4, <3>5, <3>6
    <2>. QED BY <2>4, <2>5
  <1>2. States(ps) \subseteq P
    <2>. HIDE DEF P
    <2>. QED BY <1>1, VisitInduction
  <1>. QED BY <1>2

(***************************************************************************)
(* Folding a list: FoldLeft takes the elements of a set of positions away, *)
(* the last one first, so its value for the first i of them follows from   *)
(* the value for the first i - 1.                                          *)
(***************************************************************************)
Last(s) == CHOOSE x \in s : \A y \in s : x >= y
Folds(f, n, base, step) ==
  f = [s \in SUBSET (1..n) |-> IF s = {} THEN base ELSE step[<<Last(s), f[s \ {Last(s)}]>>]]

LEMMA LastOfFirst ==
  ASSUME NEW i \in Nat, i # 0
  PROVE  Last(1..i) = i /\ (1..i) \ {i} = 1..(i - 1)
  <1>1. i \in 1..i /\ \A y \in 1..i : i >= y OBVIOUS
  <1>2. Last(1..i) \in 1..i /\ \A y \in 1..i : Last(1..i) >= y BY <1>1 DEF Last
  <1>3. Last(1..i) >= i BY <1>1, <1>2
  <1>. QED BY <1>2, <1>3

LEMMA LastIn ==
  ASSUME NEW n \in Nat, NEW s \in SUBSET (1..n), s # {}
  PROVE  Last(s) \in s
  <1>. DEFINE U == {k \in Nat : \A t \in SUBSET (1..k) : t # {} => \E x \in t : \A y \in t : x >= y}
  <1>1. 0 \in U
    <2>1. 1..0 = {} OBVIOUS
    <2>. QED BY <2>1
  <1>2. ASSUME NEW k \in Nat, k \in U PROVE k + 1 \in U
    <2>1. SUFFICES ASSUME NEW t \in SUBSET (1..(k + 1)), t # {} PROVE \E x \in t : \A y \in t : x >= y
      OBVIOUS
    <2>2. CASE k + 1 \in t
      <3>1. \A y \in t : k + 1 >= y OBVIOUS
      <3>. QED BY <2>2, <3>1
    <2>3. CASE k + 1 \notin t
      <3>1. t \in SUBSET (1..k) BY <2>3
      <3>. QED BY <1>2, <2>1, <3>1
    <2>. QED BY <2>2, <2>3
  <1>3. n \in U
    <2>. HIDE DEF U
    <2>. QED BY <1>1, <1>2, EveryNatural
  <1>. QED BY <1>3 DEF Last

LEMMA FoldExists ==
  ASSUME NEW n \in Nat, NEW V, NEW base \in V, NEW step, \A i \in 1..n, v \in V : step[<<i, v>>] \in V
  PROVE  \E f \in [SUBSET (1..n) -> V] : Folds(f, n, base, step)
  <1>. DEFINE D == SUBSET (1..n)
              stops == {{}}
              first == [s \in D |-> base]
              next == [s \in D |-> s \ {Last(s)}]
              wrap == [p \in D \X V |-> step[<<Last(p[1]), p[2]>>]]
              size == [s \in D |-> Cardinality(s)]
  <1>1. IsFiniteSet(1..n) /\ Cardinality(1..n) = n BY FS_Interval
  <1>2. \A s \in D : size[s] \in Nat /\ size[s] < n + 1
    <2>1. SUFFICES ASSUME NEW s \in D PROVE Cardinality(s) \in Nat /\ Cardinality(s) < n + 1 OBVIOUS
    <2>2. IsFiniteSet(s) /\ Cardinality(s) <= n BY <1>1, FS_Subset
    <2>. QED BY <2>2, FS_CardinalityType
  <1>3. \A s \in D : s \notin stops => /\ next[s] \in D /\ size[next[s]] < size[s]
                                       /\ \A v \in V : wrap[<<s, v>>] \in V
    <2>1. SUFFICES ASSUME NEW s \in D, s # {}
                   PROVE  /\ next[s] \in D /\ size[next[s]] < size[s]
                          /\ \A v \in V : wrap[<<s, v>>] \in V
      OBVIOUS
    <2>2. Last(s) \in s BY <2>1, LastIn
    <2>3. next[s] \in D /\ next[s] = s \ {Last(s)} OBVIOUS
    <2>4. size[next[s]] < size[s]
      <3>1. Cardinality(s \ {Last(s)}) = Cardinality(s) - 1 BY <1>1, <2>2, FS_Subset, FS_RemoveElement
      <3>2. Cardinality(s) \in Nat BY <1>2
      <3>. QED BY <2>3, <3>1, <3>2
    <2>5. \A v \in V : wrap[<<s, v>>] \in V BY <2>2
    <2>. QED BY <2>3, <2>4, <2>5
  <1>4. \A s \in D : s \in stops => first[s] \in V OBVIOUS
  <1>5. n + 1 \in Nat OBVIOUS
  <1>6. PICK f \in [D -> V] : Recursed(f, D, stops, first, next, wrap)
    <2>. HIDE DEF D, stops, first, next, wrap, size
    <2>. QED BY <1>2, <1>3, <1>4, <1>5, ChainRecursion
  <1>7. ASSUME NEW s \in D
        PROVE  (IF s \in stops THEN first[s] ELSE wrap[<<s, f[next[s]]>>])
                 = IF s = {} THEN base ELSE step[<<Last(s), f[s \ {Last(s)}]>>]
    <2>1. CASE s = {} BY <2>1
    <2>2. CASE s # {}
      <3>1. next[s] = s \ {Last(s)} /\ next[s] \in D OBVIOUS
      <3>2. f[next[s]] \in V BY <3>1
      <3>3. wrap[<<s, f[next[s]]>>] = step[<<Last(s), f[s \ {Last(s)}]>>] BY <3>1, <3>2
      <3>. QED BY <2>2, <3>3
    <2>. QED BY <2>1, <2>2
  <1>8. f = [s \in D |-> IF s \in stops THEN first[s] ELSE wrap[<<s, f[next[s]]>>]] BY <1>6 DEF Recursed
  <1>9. Folds(f, n, base, step)
    <2>. HIDE DEF stops, first, next, wrap
    <2>. QED BY <1>7, <1>8 DEF Folds
  <1>. QED BY <1>9

\* What holds at 0, and at i when at i - 1, holds at n.
LEMMA UpTo ==
  ASSUME NEW n \in Nat, NEW P, 0 \in P, \A i \in 1..n : i - 1 \in P => i \in P
  PROVE  n \in P
  <1>. DEFINE U == {k \in Nat : k <= n => k \in P}
  <1>1. 0 \in U OBVIOUS
  <1>2. ASSUME NEW k \in Nat, k \in U PROVE k + 1 \in U
    <2>1. SUFFICES ASSUME k + 1 <= n PROVE k + 1 \in P OBVIOUS
    <2>2. k + 1 \in 1..n /\ (k + 1) - 1 = k /\ k \in P BY <1>2, <2>1
    <2>. QED BY <2>2
  <1>3. n \in U
    <2>. HIDE DEF U
    <2>. QED BY <1>1, <1>2, EveryNatural
  <1>. QED BY <1>3

(***************************************************************************)
(* The search of the preset graph, from every preset.                      *)
(***************************************************************************)
Start(ps) == [ok |-> TRUE, color |-> Unseen(ps)]
Searched(ps, n, v) ==
  IF v.ok /\ v.color[n] = "white" THEN Visit(ps)[[at |-> n, color |-> v.color]] ELSE v

LEMMA SearchTypes ==
  ASSUME NEW ps, IsFiniteSet(DOMAIN ps)
  PROVE  /\ Start(ps) \in Verdicts(ps)
         /\ \A n \in DOMAIN ps, v \in Verdicts(ps) : Searched(ps, n, v) \in Verdicts(ps)
  <1>1. Start(ps) \in Verdicts(ps) BY DEF Start, Unseen, Verdicts, Colorings, Colors
  <1>2. ASSUME NEW n \in DOMAIN ps, NEW v \in Verdicts(ps)
        PROVE  Searched(ps, n, v) \in Verdicts(ps)
    <2>1. [at |-> n, color |-> v.color] \in States(ps) BY DEF Verdicts, States
    <2>. QED BY <2>1, VisitIs DEF Searched
  <1>. QED BY <1>1, <1>2

LEMMA SearchRuns ==
  ASSUME NEW ps, IsFiniteSet(DOMAIN ps), NEW order \in Seq(DOMAIN ps)
  PROVE  \E r : /\ r[0] = Start(ps)
                /\ \A i \in 1..Len(order) : r[i] = Searched(ps, order[i], r[i - 1])
                /\ PresetGraphOK(ps, order) = r[Len(order)].ok
  <1>. DEFINE n == Len(order)
              V == Verdicts(ps)
              Body(g) == [s \in SUBSET (1..n) |->
                            IF s = {} THEN Start(ps) ELSE Searched(ps, order[Last(s)], g[s \ {Last(s)}])]
              G == CHOOSE g : g = Body(g)
              step == [p \in (1..n) \X V |-> Searched(ps, order[p[1]], p[2])]
              r == [i \in 0..n |-> G[1..i]]
  <1>1. n \in Nat /\ DOMAIN order = 1..n /\ \A i \in 1..n : order[i] \in DOMAIN ps OBVIOUS
  <1>2. PresetGraphOK(ps, order) = G[1..n].ok
    BY <1>1 DEF PresetGraphOK, Start, Searched, Last, S!FoldLeft, S!MapThenFoldSet, S!Max
  <1>3. Start(ps) \in V /\ \A i \in 1..n, v \in V : step[<<i, v>>] = Searched(ps, order[i], v) /\ step[<<i, v>>] \in V
    BY <1>1, SearchTypes
  <1>4. PICK f \in [SUBSET (1..n) -> V] : Folds(f, n, Start(ps), step)
    <2>. HIDE DEF n, V, step
    <2>. QED BY <1>1, <1>3, FoldExists
  <1>5. f = Body(f)
    <2>1. ASSUME NEW s \in SUBSET (1..n), s # {}
          PROVE  step[<<Last(s), f[s \ {Last(s)}]>>] = Searched(ps, order[Last(s)], f[s \ {Last(s)}])
      <3>1. Last(s) \in 1..n BY <1>1, <2>1, LastIn
      <3>2. f[s \ {Last(s)}] \in V BY <1>4
      <3>. HIDE DEF step, V
      <3>. QED BY <1>3, <3>1, <3>2
    <2>2. f = [s \in SUBSET (1..n) |-> IF s = {} THEN Start(ps) ELSE step[<<Last(s), f[s \ {Last(s)}]>>]]
      BY <1>4 DEF Folds
    <2>. HIDE DEF step, n
    <2>. QED BY <2>1, <2>2
  <1>6. G = Body(G)
    <2>. HIDE DEF Body
    <2>. QED BY <1>5
  <1>7. \A s \in SUBSET (1..n) :
          G[s] = IF s = {} THEN Start(ps) ELSE Searched(ps, order[Last(s)], G[s \ {Last(s)}])
    <2>. HIDE DEF G
    <2>. QED BY <1>6
  <1>. HIDE DEF G, n
  <1>8. G[{}] = Start(ps) /\ 1..0 = {}
    <2>1. {} \in SUBSET (1..n) OBVIOUS
    <2>2. 1..0 = {} OBVIOUS
    <2>. QED BY <1>7, <2>1, <2>2
  <1>9. \A i \in 1..n : G[1..i] = Searched(ps, order[i], G[1..(i - 1)])
    <2>1. SUFFICES ASSUME NEW i \in 1..n PROVE G[1..i] = Searched(ps, order[i], G[1..(i - 1)]) OBVIOUS
    <2>2. Last(1..i) = i /\ (1..i) \ {i} = 1..(i - 1) BY <1>1, LastOfFirst
    <2>3. i \in Nat /\ 1 <= i /\ i <= n BY <1>1
    <2>4. 1 \in 1..i /\ \A j \in 1..i : j \in 1..n BY <1>1, <2>3
    <2>. QED BY <1>7, <2>2, <2>4
  <1>10. r[0] = Start(ps) BY <1>1, <1>8
  <1>11. \A i \in 1..n : r[i] = Searched(ps, order[i], r[i - 1]) BY <1>1, <1>9
  <1>12. r[n] = G[1..n] BY <1>1
  <1>. HIDE DEF r
  <1>. QED BY <1>2, <1>10, <1>11, <1>12 DEF n

\* After a start that ended well nothing is open, and the preset is black.
Judged(ps, v, seen) ==
  /\ v \in Verdicts(ps)
  /\ v.ok => /\ Colored(v.color, "gray") = {}
             /\ Sound(ps, Colored(v.color, "black"))
             /\ \A n \in seen : v.color[n] = "black"
  /\ Sound(ps, DOMAIN ps) => v.ok

LEMMA SearchedJudged ==
  ASSUME NEW ps, IsFiniteSet(DOMAIN ps), NEW v, NEW seen, Judged(ps, v, seen), seen \subseteq DOMAIN ps,
         NEW n \in DOMAIN ps
  PROVE  Judged(ps, Searched(ps, n, v), seen \cup {n})
  <1>1. v \in Verdicts(ps) /\ v.color \in Colorings(ps) BY DEF Judged, Verdicts
  <1>2. Searched(ps, n, v) \in Verdicts(ps) BY <1>1, SearchTypes
  <1>3. CASE ~v.ok BY <1>2, <1>3 DEF Judged, Searched
  <1>4. CASE v.ok /\ v.color[n] # "white"
    <2>1. v.color[n] = "black" BY <1>1, <1>4 DEF Judged, Colored, Colorings, Colors
    <2>. QED BY <1>2, <1>4, <2>1 DEF Judged, Searched
  <1>5. CASE v.ok /\ v.color[n] = "white"
    <2>. DEFINE s == [at |-> n, color |-> v.color]
                w == Visit(ps)[s]
    <2>1. s \in States(ps) /\ s.at = n /\ s.color = v.color BY <1>1 DEF States
    <2>2. w = Searched(ps, n, v) BY <1>5 DEF Searched
    <2>3. ASSUME Sound(ps, DOMAIN ps) PROVE w.ok
      <3>1. Passes(ps, s) BY <2>1, VisitPasses
      <3>2. Chained(ps, s) BY <1>5, <2>1 DEF Judged, Chained
      <3>. QED BY <1>5, <2>1, <2>3, <3>1, <3>2 DEF Passes
    <2>4. ASSUME w.ok
          PROVE  /\ Colored(w.color, "gray") = {}
                 /\ Sound(ps, Colored(w.color, "black"))
                 /\ \A m \in seen \cup {n} : w.color[m] = "black"
      <3>1. Finds(ps, s) BY <2>1, VisitFinds
      <3>2. Sound(ps, Colored(s.color, "black")) BY <1>5, <2>1 DEF Judged
      <3>3. /\ Sound(ps, Colored(w.color, "black")) /\ w.color[n] = "black"
            /\ \A m \in DOMAIN ps \ {n} : /\ v.color[m] = "black" => w.color[m] = "black"
                                          /\ v.color[m] = "gray" <=> w.color[m] = "gray"
        BY <1>5, <2>1, <2>4, <3>1, <3>2 DEF Finds
      <3>4. w.color \in Colorings(ps) BY <1>2, <2>2 DEF Verdicts
      <3>5. DOMAIN w.color = DOMAIN ps /\ DOMAIN v.color = DOMAIN ps BY <1>1, <3>4 DEF Colorings
      <3>6. \A m \in DOMAIN ps : v.color[m] # "gray" BY <1>5, <3>5 DEF Judged, Colored
      <3>7. Colored(w.color, "gray") = {} BY <3>3, <3>5, <3>6 DEF Colored
      <3>8. \A m \in seen : v.color[m] = "black" BY <1>5 DEF Judged
      <3>9. \A m \in seen \cup {n} : w.color[m] = "black" BY <3>3, <3>8
      <3>. QED BY <3>3, <3>7, <3>9
    <2>. HIDE DEF w
    <2>. QED BY <1>2, <2>2, <2>3, <2>4 DEF Judged
  <1>. QED BY <1>3, <1>4, <1>5

LEMMA GraphDecided ==
  ASSUME NEW ps, IsFiniteSet(DOMAIN ps), NEW order \in Seq(DOMAIN ps), Elems(order) = DOMAIN ps
  PROVE  PresetGraphOK(ps, order) <=> Sound(ps, DOMAIN ps)
  <1>. DEFINE n == Len(order)
              seen(i) == {order[j] : j \in 1..i}
  <1>1. n \in Nat /\ \A i \in 1..n : order[i] \in DOMAIN ps OBVIOUS
  <1>2. PICK r : /\ r[0] = Start(ps)
                 /\ \A i \in 1..n : r[i] = Searched(ps, order[i], r[i - 1])
                 /\ PresetGraphOK(ps, order) = r[n].ok
    BY SearchRuns
  <1>. DEFINE P == {i \in 0..n : Judged(ps, r[i], seen(i))}
  <1>3. 0 \in P
    <2>1. Colored(Unseen(ps), "gray") = {} /\ Colored(Unseen(ps), "black") = {} BY DEF Colored, Unseen
    <2>2. Sound(ps, {}) BY DEF Sound, Rooted
    <2>3. seen(0) = {} OBVIOUS
    <2>4. Judged(ps, Start(ps), {}) BY <2>1, <2>2, SearchTypes DEF Judged, Start
    <2>5. 0 \in 0..n BY <1>1
    <2>. HIDE DEF seen, n
    <2>. QED BY <1>2, <2>3, <2>4, <2>5
  <1>4. ASSUME NEW i \in 1..n, i - 1 \in P PROVE i \in P
    <2>1. seen(i) = seen(i - 1) \cup {order[i]}
      <3>1. 1..i = (1..(i - 1)) \cup {i} BY <1>1
      <3>. QED BY <3>1
    <2>2. seen(i - 1) \subseteq DOMAIN ps BY <1>1
    <2>3. Judged(ps, r[i - 1], seen(i - 1)) BY <1>4
    <2>. HIDE DEF seen, n
    <2>4. Judged(ps, Searched(ps, order[i], r[i - 1]), seen(i - 1) \cup {order[i]})
      BY <1>1, <2>2, <2>3, SearchedJudged
    <2>5. i \in 0..n BY <1>1
    <2>. QED BY <1>2, <2>1, <2>4, <2>5
  <1>5. n \in P
    <2>. HIDE DEF P, n
    <2>. QED BY <1>1, <1>3, <1>4, UpTo
  <1>6. Judged(ps, r[n], DOMAIN ps) BY <1>5 DEF Elems
  <1>7. ASSUME r[n].ok PROVE Sound(ps, DOMAIN ps)
    <2>1. r[n].color \in Colorings(ps) BY <1>6 DEF Judged, Verdicts
    <2>2. Colored(r[n].color, "black") = DOMAIN ps BY <1>6, <1>7, <2>1 DEF Judged, Colored, Colorings
    <2>. QED BY <1>6, <1>7, <2>2 DEF Judged
  <1>. QED BY <1>2, <1>6, <1>7 DEF Judged

(***************************************************************************)
(* What is written out and read back, block by block.  A key is left out   *)
(* only where reading fills the same value in.                             *)
(***************************************************************************)
LEMMA SortReloads ==
  ASSUME NEW keys, Listed(keys)
  PROVE  /\ NormalizeSort(NormalizeSort(keys)) = NormalizeSort(keys)
         /\ NormalizeSort(<< >>) = << >>
  <1>1. Len(keys) \in Nat BY DEF Listed
  <1>2. NormalizeSort(<< >>) = << >> BY DEF NormalizeSort
  <1>. DEFINE ns == NormalizeSort(keys)
  <1>3. /\ DOMAIN ns = 1..Len(keys) /\ Len(ns) = Len(keys)
        /\ ns = [i \in 1..Len(keys) |-> ns[i]]
        /\ \A i \in 1..Len(keys) :
             ns[i] = [field |-> keys[i].field, dir |-> IF keys[i].dir = "" THEN "asc" ELSE keys[i].dir]
    BY <1>1 DEF NormalizeSort
  <1>4. ASSUME NEW i \in 1..Len(keys)
        PROVE  ns[i].dir # "" /\ ns[i] = [field |-> ns[i].field, dir |-> ns[i].dir]
    <2>. DEFINE field == keys[i].field
                dir == IF keys[i].dir = "" THEN "asc" ELSE keys[i].dir
    <2>1. ns[i] = [field |-> field, dir |-> dir] BY <1>3
    <2>2. dir # "" OBVIOUS
    <2>. HIDE DEF ns, field, dir
    <2>3. PICK r : r = ns[i] OBVIOUS
    <2>4. r = [field |-> field, dir |-> dir] BY <2>1, <2>3
    <2>5. r.dir # "" /\ r = [field |-> r.field, dir |-> r.dir] BY <2>2, <2>4
    <2>. QED BY <2>3, <2>5
  <1>5. NormalizeSort(ns) = [i \in 1..Len(keys) |-> ns[i]]
    <2>. HIDE DEF ns
    <2>. QED BY <1>3, <1>4 DEF NormalizeSort
  <1>. QED BY <1>2, <1>3, <1>5

LEMMA MetricsReload ==
  ASSUME NEW raw
  PROVE  LET m == NormalizeMetrics(raw)
         IN  NormalizeMetrics(IF EncodeMetrics(m) THEN m ELSE NoRaw) = m
  BY DEF NormalizeMetrics, EncodeMetrics, Get, NoRaw

LEMMA PresetReloads ==
  ASSUME NEW raw, OptDuration(raw), Listed(Get(raw, "sort", << >>))
  PROVE  LET p == NormalizePreset(raw)
         IN  OptDuration(EncodePreset(p)) /\ NormalizePreset(EncodePreset(p)) = p
  <1>. DEFINE p == NormalizePreset(raw)
              out == EncodePreset(p)
              given == Given(p, {"extends", "leaf"}, {"group", "columns", "sort"}, {"interval"})
                         \cup (IF p.having = NoExpr THEN {} ELSE {"having"})
                         \cup (IF EncodeMetrics(p.metrics) THEN {"metrics"} ELSE {})
  <1>1. DOMAIN out = given /\ \A k \in given : out[k] = p[k] BY DEF EncodePreset, Encoded
  <1>2. /\ p.metrics = NormalizeMetrics(Get(raw, "metrics", NoRaw))
        /\ p.sort = NormalizeSort(Get(raw, "sort", << >>))
        /\ p.interval = Get(raw, "interval", 0)
        /\ p = [extends |-> p.extends, interval |-> p.interval, group |-> p.group, leaf |-> p.leaf,
                columns |-> p.columns, having |-> p.having, metrics |-> p.metrics, sort |-> p.sort]
    BY DEF NormalizePreset
  <1>. HIDE DEF p, out
  <1>3. /\ "extends" \in given <=> p.extends # ""
        /\ "leaf" \in given <=> p.leaf # ""
        /\ "group" \in given <=> p.group # << >>
        /\ "columns" \in given <=> p.columns # << >>
        /\ "sort" \in given <=> p.sort # << >>
        /\ "interval" \in given <=> p.interval # 0
        /\ "having" \in given <=> p.having # NoExpr
        /\ "metrics" \in given <=> EncodeMetrics(p.metrics)
    BY DEF Given
  <1>. HIDE DEF given
  <1>4. /\ Get(out, "extends", "") = p.extends /\ Get(out, "leaf", "") = p.leaf
        /\ Get(out, "group", << >>) = p.group /\ Get(out, "columns", << >>) = p.columns
        /\ Get(out, "sort", << >>) = p.sort /\ Get(out, "interval", 0) = p.interval
        /\ Get(out, "having", NoExpr) = p.having
        /\ Get(out, "metrics", NoRaw) = IF EncodeMetrics(p.metrics) THEN p.metrics ELSE NoRaw
    BY <1>1, <1>3 DEF Get
  <1>5. NormalizeMetrics(Get(out, "metrics", NoRaw)) = p.metrics BY <1>2, <1>4, MetricsReload
  <1>6. NormalizeSort(Get(out, "sort", << >>)) = p.sort BY <1>2, <1>4, SortReloads
  <1>7. NormalizePreset(out) = p BY <1>2, <1>4, <1>5, <1>6 DEF NormalizePreset
  <1>8. OptDuration(out)
    <2>1. SUFFICES ASSUME "interval" \in DOMAIN out PROVE out.interval >= 0 BY DEF OptDuration
    <2>2. out.interval = p.interval /\ p.interval # 0 BY <1>1, <1>3, <2>1
    <2>. QED BY <1>2, <2>2 DEF OptDuration, Get
  <1>. QED BY <1>7, <1>8 DEF p, out

LEMMA RuleReloads ==
  ASSUME NEW raw
  PROVE  LET m == NormalizeManaged(raw)
         IN  NormalizeManaged(EncodeManaged(m)) =
               WritableRule(m)
  <1>. DEFINE m == NormalizeManaged(raw)
              out == EncodeManaged(m)
              given == {"name", "selector"} \cup (IF m.drift = "" THEN {} ELSE {"drift"})
                         \cup (IF m.hasControl THEN {"control"} ELSE {})
  <1>1. DOMAIN out = given /\ \A k \in given : out[k] = m[k] BY DEF EncodeManaged, Encoded
  <1>. DEFINE whole == [name |-> m.name, selector |-> m.selector, drift |-> m.drift, view |-> m.view,
                        hasControl |-> m.hasControl, control |-> m.control]
              back == [name |-> m.name, selector |-> m.selector,
                       drift |-> IF m.drift = "" THEN "report" ELSE m.drift, view |-> NoRaw,
                       hasControl |-> m.hasControl, control |-> m.control]
  <1>2. /\ m.hasControl = ("control" \in DOMAIN raw)
        /\ m.control = Get(raw, "control", NoRaw)
    BY Zenon DEF NormalizeManaged
  <1>9. ~m.hasControl => m.control = NoRaw BY <1>2, Zenon DEF Get
  <1>6. m = whole BY Zenon DEF NormalizeManaged
  <1>. HIDE DEF m, out, whole
  <1>3. /\ "name" \in given /\ "selector" \in given /\ "view" \notin given
        /\ "drift" \in given <=> m.drift # ""
        /\ "control" \in given <=> m.hasControl
    OBVIOUS
  <1>. HIDE DEF given
  <1>4. /\ out.name = m.name /\ out.selector = m.selector
        /\ Get(out, "drift", "report") = IF m.drift = "" THEN "report" ELSE m.drift
        /\ Get(out, "view", NoRaw) = NoRaw
        /\ Get(out, "control", NoRaw) = m.control
    BY <1>1, <1>9, <1>3 DEF Get
  <1>8. ("control" \in DOMAIN out) = m.hasControl
    <2>1. "control" \in DOMAIN out <=> m.hasControl BY <1>1, <1>3
    <2>2. ("control" \in DOMAIN out) \in BOOLEAN /\ m.hasControl \in BOOLEAN BY <1>2
    <2>. QED BY <2>1, <2>2, Zenon
  <1>. DEFINE drift == IF m.drift = "" THEN "report" ELSE m.drift
  <1>7. WritableRule(m) = back
    <2>1. m = [name |-> m.name, selector |-> m.selector, drift |-> m.drift, view |-> m.view,
               hasControl |-> m.hasControl, control |-> m.control] BY <1>6 DEF whole
    <2>2. back = [name |-> m.name, selector |-> m.selector, drift |-> drift, view |-> NoRaw,
                  hasControl |-> m.hasControl, control |-> m.control] OBVIOUS
    <2>. HIDE DEF drift, back
    <2>. DEFINE unseen == [m EXCEPT !.view = NoRaw]
    <2>3. unseen = [name |-> m.name, selector |-> m.selector, drift |-> m.drift, view |-> NoRaw,
                    hasControl |-> m.hasControl, control |-> m.control] BY <2>1
    <2>4. [m EXCEPT !.view = NoRaw, !.drift = drift] = [unseen EXCEPT !.drift = drift] BY <2>1
    <2>. HIDE DEF unseen
    <2>5. [unseen EXCEPT !.drift = drift] = back BY <2>2, <2>3
    <2>6. [m EXCEPT !.view = NoRaw, !.drift = drift] = back BY <2>4, <2>5
    <2>. QED BY <2>6 DEF drift, WritableRule
  <1>5. NormalizeManaged(out) = back BY <1>4, <1>8 DEF NormalizeManaged
  <1>. HIDE DEF back
  <1>10. NormalizeManaged(out) = WritableRule(m) BY <1>5, <1>7
  <1>. QED BY <1>10 DEF m, out

Fields == {"version", "interval", "group", "leaf", "columns", "intervals", "metrics", "sort", "dir", "history",
           "use", "socket", "presets", "managed", "width", "collapse", "override"}

LEMMA NormalizeIs ==
  ASSUME NEW raw
  PROVE  LET c == Normalize(raw)
             presets == Get(raw, "presets", NoRaw)
             managed == Get(raw, "managed", << >>)
         IN  /\ c.version = Get(raw, "version", 1) /\ c.interval = Get(raw, "interval", 0)
             /\ c.group = Get(raw, "group", << >>) /\ c.leaf = Get(raw, "leaf", "process")
             /\ c.columns = Get(raw, "columns", << >>) /\ c.intervals = Get(raw, "intervals", NoRaw)
             /\ c.metrics = NormalizeMetrics(Get(raw, "metrics", NoRaw))
             /\ c.sort = NormalizeSort(Get(raw, "sort", << >>)) /\ c.dir = Get(raw, "dir", "")
             /\ c.history = Get(raw, "history", FALSE) /\ c.use = Get(raw, "use", "auto")
             /\ c.socket = Get(raw, "socket", "")
             /\ c.presets = [n \in DOMAIN presets |-> NormalizePreset(presets[n])]
             /\ c.managed = [i \in 1..Len(managed) |-> NormalizeManaged(managed[i])]
             /\ c.width = Get(raw, "width", 0) /\ c.collapse = Get(raw, "collapse", FALSE)
             /\ c.override = Get(raw, "override", FALSE)
  BY Zenon DEF Normalize

\* Some of them on their own, for a raw file whose values are known.
LEMMA NormalizedLists ==
  ASSUME NEW raw
  PROVE  /\ \A x : Get(raw, "presets", NoRaw) = x
                    => Normalize(raw).presets = [n \in DOMAIN x |-> NormalizePreset(x[n])]
         /\ \A x : Get(raw, "managed", << >>) = x
                    => Normalize(raw).managed = [i \in 1..Len(x) |-> NormalizeManaged(x[i])]
         /\ Normalize(raw).intervals = Get(raw, "intervals", NoRaw)
  <1>. DEFINE presets == Get(raw, "presets", NoRaw)
              managed == Get(raw, "managed", << >>)
  <1>1. Normalize(raw).presets = [n \in DOMAIN presets |-> NormalizePreset(presets[n])]
    BY NormalizeIs, Zenon
  <1>2. Normalize(raw).managed = [i \in 1..Len(managed) |-> NormalizeManaged(managed[i])]
    BY NormalizeIs, Zenon
  <1>3. Normalize(raw).intervals = Get(raw, "intervals", NoRaw) BY NormalizeIs, Zenon
  <1>. QED BY <1>1, <1>2, <1>3, Zenon

LEMMA NormalizeFields == ASSUME NEW raw PROVE Normalize(raw) = [k \in Fields |-> Normalize(raw)[k]]
  BY DEF Normalize, Fields

\* The types of a decoded file.
Decoded(raw) ==
  LET presets == Get(raw, "presets", NoRaw)
      intervals == Get(raw, "intervals", NoRaw)
  IN  /\ Listed(Get(raw, "sort", << >>)) /\ Listed(Get(raw, "managed", << >>))
      /\ intervals \in [DOMAIN intervals -> Int] /\ Get(raw, "collapse", FALSE) \in BOOLEAN
      /\ \A n \in DOMAIN presets : Listed(Get(presets[n], "sort", << >>))

\* What the file that is written out says of every key.
LEMMA WrittenKeys ==
  ASSUME NEW c, c.leaf # "", c.use # "", c.collapse \in BOOLEAN
  PROVE  LET out == ToOut(c)
         IN  /\ Get(out, "version", 1) = c.version /\ Get(out, "interval", 0) = c.interval
             /\ Get(out, "group", << >>) = c.group /\ Get(out, "leaf", "process") = c.leaf
             /\ Get(out, "columns", << >>) = c.columns
             /\ Get(out, "intervals", NoRaw) = IF DOMAIN c.intervals = {} THEN NoRaw ELSE c.intervals
             /\ Get(out, "metrics", NoRaw) = IF EncodeMetrics(c.metrics) THEN c.metrics ELSE NoRaw
             /\ Get(out, "sort", << >>) = c.sort /\ Get(out, "dir", "") = c.dir
             /\ Get(out, "history", FALSE) = c.history /\ Get(out, "use", "auto") = c.use
             /\ Get(out, "socket", "") = c.socket /\ Get(out, "width", 0) = c.width
             /\ Get(out, "collapse", FALSE) = c.collapse /\ Get(out, "override", FALSE) = FALSE
             /\ Get(out, "presets", NoRaw) =
                  IF DOMAIN c.presets = {} THEN NoRaw ELSE [n \in DOMAIN c.presets |-> EncodePreset(c.presets[n])]
             /\ Get(out, "managed", << >>) =
                  IF c.managed = << >> THEN << >> ELSE [i \in 1..Len(c.managed) |-> EncodeManaged(c.managed[i])]
             /\ "interval" \in DOMAIN out <=> c.interval # 0
  <1>. DEFINE out == ToOut(c)
              whole == {"version", "history"}
              given == whole
                       \cup Given(c, {"leaf", "dir", "use", "socket"}, {"group", "columns", "sort"}, {"interval", "width"})
                       \cup (IF EncodeMetrics(c.metrics) THEN {"metrics"} ELSE {})
                       \cup (IF DOMAIN c.intervals = {} THEN {} ELSE {"intervals"})
                       \cup (IF DOMAIN c.presets = {} THEN {} ELSE {"presets"})
                       \cup (IF c.managed = << >> THEN {} ELSE {"managed"})
                       \cup (IF c.collapse THEN {"collapse"} ELSE {})
              presets == [n \in DOMAIN c.presets |-> EncodePreset(c.presets[n])]
              managed == [i \in 1..Len(c.managed) |-> EncodeManaged(c.managed[i])]
  <1>1. out = [k \in given |-> CASE k = "presets" -> presets [] k = "managed" -> managed [] OTHER -> c[k]]
    BY DEF ToOut
  <1>. HIDE DEF out, presets, managed
  <1>2. /\ "version" \in given /\ "history" \in given /\ "leaf" \in given /\ "use" \in given
        /\ "override" \notin given
        /\ "dir" \in given <=> c.dir # ""
        /\ "socket" \in given <=> c.socket # ""
        /\ "group" \in given <=> c.group # << >>
        /\ "columns" \in given <=> c.columns # << >>
        /\ "sort" \in given <=> c.sort # << >>
        /\ "interval" \in given <=> c.interval # 0
        /\ "width" \in given <=> c.width # 0
        /\ "metrics" \in given <=> EncodeMetrics(c.metrics)
        /\ "intervals" \in given <=> DOMAIN c.intervals # {}
        /\ "presets" \in given <=> DOMAIN c.presets # {}
        /\ "managed" \in given <=> c.managed # << >>
        /\ "collapse" \in given <=> c.collapse
    BY DEF Given
  <1>. HIDE DEF given
  <1>3. /\ DOMAIN out = given
        /\ \A k \in given \ {"presets", "managed"} : out[k] = c[k]
        /\ "presets" \in given => out["presets"] = presets
        /\ "managed" \in given => out["managed"] = managed
    BY <1>1
  <1>4. /\ Get(out, "version", 1) = c.version /\ Get(out, "interval", 0) = c.interval
        /\ Get(out, "group", << >>) = c.group /\ Get(out, "leaf", "process") = c.leaf
        /\ Get(out, "columns", << >>) = c.columns
        /\ Get(out, "sort", << >>) = c.sort /\ Get(out, "dir", "") = c.dir
        /\ Get(out, "history", FALSE) = c.history /\ Get(out, "use", "auto") = c.use
        /\ Get(out, "socket", "") = c.socket /\ Get(out, "width", 0) = c.width
    BY <1>2, <1>3 DEF Get
  <1>5. Get(out, "intervals", NoRaw) = IF DOMAIN c.intervals = {} THEN NoRaw ELSE c.intervals
    BY <1>2, <1>3 DEF Get
  <1>6. Get(out, "metrics", NoRaw) = IF EncodeMetrics(c.metrics) THEN c.metrics ELSE NoRaw
    BY <1>2, <1>3 DEF Get
  <1>7. Get(out, "presets", NoRaw) = IF DOMAIN c.presets = {} THEN NoRaw ELSE presets
    BY <1>2, <1>3 DEF Get
  <1>8. Get(out, "managed", << >>) = IF c.managed = << >> THEN << >> ELSE managed
    BY <1>2, <1>3 DEF Get
  <1>9. Get(out, "override", FALSE) = FALSE
    BY <1>2, <1>3 DEF Get
  <1>10. Get(out, "collapse", FALSE) = c.collapse
    <2>1. CASE c.collapse
      <3>1. "collapse" \in DOMAIN out /\ out["collapse"] = c.collapse BY <1>2, <1>3, <2>1
      <3>. QED BY <3>1, Zenon DEF Get
    <2>2. CASE ~c.collapse
      <3>1. "collapse" \notin DOMAIN out BY <1>2, <1>3, <2>2
      <3>2. c.collapse = FALSE BY <2>2, Zenon
      <3>. QED BY <3>1, <3>2, Zenon DEF Get
    <2>. QED BY <2>1, <2>2
  <1>11. "interval" \in DOMAIN out <=> c.interval # 0 BY <1>2, <1>3
  <1>. QED BY <1>4, <1>5, <1>6, <1>7, <1>8, <1>9, <1>10, <1>11, Zenon DEF out, presets, managed

LEMMA PresetsReload ==
  ASSUME NEW raw, Decoded(raw), DurationsOK(raw)
  PROVE  LET ps == Normalize(raw).presets
             again == IF DOMAIN ps = {} THEN NoRaw ELSE [n \in DOMAIN ps |-> EncodePreset(ps[n])]
         IN  /\ [n \in DOMAIN again |-> NormalizePreset(again[n])] = ps
             /\ \A n \in DOMAIN again : OptDuration(again[n])
  <1>. DEFINE presets == Get(raw, "presets", NoRaw)
              ps == Normalize(raw).presets
              written == [n \in DOMAIN ps |-> EncodePreset(ps[n])]
              again == IF DOMAIN ps = {} THEN NoRaw ELSE written
  <1>1. ps = [n \in DOMAIN presets |-> NormalizePreset(presets[n])] BY NormalizeIs
  <1>2. \A n \in DOMAIN presets : OptDuration(presets[n]) /\ Listed(Get(presets[n], "sort", << >>))
    BY DEF Decoded, DurationsOK
  <1>. HIDE DEF ps
  <1>3. DOMAIN again = DOMAIN ps /\ \A n \in DOMAIN ps : again[n] = EncodePreset(ps[n]) BY DEF NoRaw
  <1>. HIDE DEF again
  <1>. DEFINE back == [n \in DOMAIN again |-> NormalizePreset(again[n])]
  <1>4. ASSUME NEW n \in DOMAIN ps
        PROVE  NormalizePreset(again[n]) = ps[n] /\ OptDuration(again[n])
    <2>1. ps[n] = NormalizePreset(presets[n]) /\ n \in DOMAIN presets BY <1>1
    <2>. QED BY <1>2, <1>3, <2>1, PresetReloads
  <1>5. back = [n \in DOMAIN ps |-> ps[n]] BY <1>3, <1>4
  <1>6. ps = [n \in DOMAIN ps |-> ps[n]] BY <1>1
  <1>. QED BY <1>3, <1>4, <1>5, <1>6 DEF ps, again

LEMMA RulesReload ==
  ASSUME NEW raw, Decoded(raw)
  PROVE  LET rules == Normalize(raw).managed
             again == IF rules = << >> THEN << >> ELSE [i \in 1..Len(rules) |-> EncodeManaged(rules[i])]
         IN  [i \in 1..Len(again) |-> NormalizeManaged(again[i])] = [i \in 1..Len(rules) |-> WritableRule(rules[i])]
  <1>. DEFINE managed == Get(raw, "managed", << >>)
              rules == Normalize(raw).managed
              written == [i \in 1..Len(rules) |-> EncodeManaged(rules[i])]
              again == IF rules = << >> THEN << >> ELSE written
  <1>1. Len(managed) \in Nat BY DEF Decoded, Listed
  <1>2. rules = [i \in 1..Len(managed) |-> NormalizeManaged(managed[i])] BY NormalizeIs
  <1>. HIDE DEF rules
  <1>3. Len(rules) = Len(managed) BY <1>1, <1>2
  <1>4. Len(again) = Len(rules) /\ \A i \in 1..Len(rules) : again[i] = EncodeManaged(rules[i])
    BY <1>1, <1>3
  <1>. HIDE DEF again
  <1>5. ASSUME NEW i \in 1..Len(rules)
        PROVE  NormalizeManaged(again[i]) = WritableRule(rules[i])
    <2>1. rules[i] = NormalizeManaged(managed[i]) BY <1>2, <1>3
    <2>. QED BY <1>4, <2>1, RuleReloads
  <1>. QED BY <1>4, <1>5 DEF rules, again

\* A configuration that loads, written out and read back.
LEMMA ConfigReads ==
  ASSUME NEW raw, Decoded(raw), NEW order, Loads(raw, order)
  PROVE  LET c == Normalize(raw) IN Normalize(ToOut(c)) = Writable(c)
  <1>. DEFINE c == Normalize(raw)
              out == ToOut(c)
              back == Normalize(out)
  <1>1. /\ c.leaf # "" /\ c.use # "" BY DEF Loads, ValidConfig, ValidLeaf, ValidUse
  <1>2. c.collapse \in BOOLEAN /\ c.intervals \in [DOMAIN c.intervals -> Int] BY NormalizeIs DEF Decoded
  <1>3. c.metrics = NormalizeMetrics(Get(raw, "metrics", NoRaw)) /\ c.sort = NormalizeSort(Get(raw, "sort", << >>))
    BY NormalizeIs
  <1>4. DurationsOK(raw) /\ Listed(Get(raw, "sort", << >>)) BY DEF Loads, Decoded
  <1>5. back.metrics = c.metrics
    <2>1. Get(out, "metrics", NoRaw) = IF EncodeMetrics(c.metrics) THEN c.metrics ELSE NoRaw
      BY <1>1, <1>2, WrittenKeys
    <2>2. NormalizeMetrics(IF EncodeMetrics(c.metrics) THEN c.metrics ELSE NoRaw) = c.metrics
      BY <1>3, MetricsReload
    <2>. HIDE DEF out, c
    <2>3. back.metrics = NormalizeMetrics(Get(out, "metrics", NoRaw)) BY NormalizeIs
    <2>. QED BY <2>1, <2>2, <2>3
  <1>6. back.sort = c.sort
    <2>1. Get(out, "sort", << >>) = c.sort BY <1>1, <1>2, WrittenKeys
    <2>2. NormalizeSort(c.sort) = c.sort BY <1>3, <1>4, SortReloads
    <2>. HIDE DEF out, c
    <2>3. back.sort = NormalizeSort(Get(out, "sort", << >>)) BY NormalizeIs
    <2>. QED BY <2>1, <2>2, <2>3
  <1>7. back.presets = c.presets
    <2>. DEFINE again == IF DOMAIN c.presets = {} THEN NoRaw ELSE [n \in DOMAIN c.presets |-> EncodePreset(c.presets[n])]
    <2>1. Get(out, "presets", NoRaw) = again BY <1>1, <1>2, WrittenKeys
    <2>2. [n \in DOMAIN again |-> NormalizePreset(again[n])] = c.presets BY <1>4, PresetsReload
    <2>. HIDE DEF again, out, c
    <2>3. back.presets = [n \in DOMAIN again |-> NormalizePreset(again[n])] BY <2>1, NormalizedLists
    <2>. QED BY <2>2, <2>3
  <1>8. back.managed = [i \in 1..Len(c.managed) |-> WritableRule(c.managed[i])]
    <2>. DEFINE again == IF c.managed = << >> THEN << >> ELSE [i \in 1..Len(c.managed) |-> EncodeManaged(c.managed[i])]
    <2>1. Get(out, "managed", << >>) = again BY <1>1, <1>2, WrittenKeys
    <2>2. [i \in 1..Len(again) |-> NormalizeManaged(again[i])] = [i \in 1..Len(c.managed) |-> WritableRule(c.managed[i])]
      BY RulesReload
    <2>. HIDE DEF again, out, c
    <2>3. back.managed = [i \in 1..Len(again) |-> NormalizeManaged(again[i])] BY <2>1, NormalizedLists
    <2>. QED BY <2>2, <2>3
  <1>9. back.intervals = c.intervals
    <2>1. Get(out, "intervals", NoRaw) = IF DOMAIN c.intervals = {} THEN NoRaw ELSE c.intervals
      BY <1>1, <1>2, WrittenKeys
    <2>2. DOMAIN c.intervals = {} => c.intervals = NoRaw BY <1>2 DEF NoRaw
    <2>. HIDE DEF out, c
    <2>3. back.intervals = Get(out, "intervals", NoRaw) BY NormalizedLists
    <2>. QED BY <2>1, <2>2, <2>3
  <1>10. /\ back.version = c.version /\ back.interval = c.interval /\ back.group = c.group /\ back.leaf = c.leaf
         /\ back.columns = c.columns /\ back.dir = c.dir /\ back.history = c.history /\ back.use = c.use
         /\ back.socket = c.socket /\ back.width = c.width
    <2>1. /\ Get(out, "version", 1) = c.version /\ Get(out, "interval", 0) = c.interval
          /\ Get(out, "group", << >>) = c.group /\ Get(out, "leaf", "process") = c.leaf
          /\ Get(out, "columns", << >>) = c.columns /\ Get(out, "dir", "") = c.dir
          /\ Get(out, "history", FALSE) = c.history /\ Get(out, "use", "auto") = c.use
          /\ Get(out, "socket", "") = c.socket /\ Get(out, "width", 0) = c.width
      BY <1>1, <1>2, WrittenKeys
    <2>. HIDE DEF out, c
    <2>. QED BY <2>1, NormalizeIs, ZenonT(60)
  <1>11. back.collapse = c.collapse
    <2>1. Get(out, "collapse", FALSE) = c.collapse BY <1>1, <1>2, WrittenKeys
    <2>2. back.collapse = Get(out, "collapse", FALSE) BY NormalizeIs, Zenon
    <2>. QED BY <2>1, <2>2, Zenon
  <1>12. back.override = FALSE
    <2>1. Get(out, "override", FALSE) = FALSE BY <1>1, <1>2, WrittenKeys
    <2>2. back.override = Get(out, "override", FALSE) BY NormalizeIs, Zenon
    <2>. QED BY <2>1, <2>2, Zenon
  <1>13. back = [k \in Fields |-> back[k]] /\ DOMAIN c = Fields BY NormalizeFields
  <1>. DEFINE w == Writable(c)
              rules == [i \in 1..Len(c.managed) |-> WritableRule(c.managed[i])]
  <1>14. w = [k \in Fields |-> CASE k = "override" -> FALSE [] k = "managed" -> rules [] OTHER -> c[k]]
    BY <1>13 DEF Writable
  <1>. HIDE DEF back, c, w, rules
  <1>15. w.override = FALSE /\ w.managed = rules /\ \A k \in Fields \ {"override", "managed"} : w[k] = c[k]
    BY <1>14 DEF Fields
  <1>16. \A k \in Fields \ {"override", "managed"} : back[k] = c[k]
    BY <1>5, <1>6, <1>7, <1>9, <1>10, <1>11 DEF Fields
  <1>17. back.override = w.override BY <1>12, <1>15, Zenon
  <1>18. back.managed = w.managed BY <1>8, <1>15, Zenon DEF rules
  <1>19. \A k \in Fields : back[k] = w[k]
    <2>. TAKE k \in Fields
    <2>1. CASE k = "override" BY <1>17, <2>1, Zenon
    <2>2. CASE k = "managed" BY <1>18, <2>2, Zenon
    <2>3. CASE k \notin {"override", "managed"} BY <1>15, <1>16, <2>3, Zenon
    <2>. QED BY <2>1, <2>2, <2>3
  <1>20. w = [k \in Fields |-> w[k]]
    <2>1. DOMAIN w = Fields BY <1>14
    <2>. QED BY <1>14, <2>1
  <1>21. back = w BY <1>13, <1>19, <1>20
  <1>. QED BY <1>21 DEF back, c, w

LEMMA WritableValid ==
  ASSUME NEW raw, Decoded(raw), NEW order, Loads(raw, order)
  PROVE  LET c == Normalize(raw) IN ValidConfig(Writable(c), order)
  <1>. DEFINE c == Normalize(raw)
              w == Writable(c)
              managed == Get(raw, "managed", << >>)
              rules == [i \in 1..Len(c.managed) |-> WritableRule(c.managed[i])]
  <1>1. DOMAIN c = Fields BY NormalizeFields
  <1>2. w.managed = rules /\ \A k \in Fields \ {"override", "managed"} : w[k] = c[k]
    BY <1>1 DEF Writable, Fields
  <1>3. ValidConfig(c, order) BY DEF Loads
  <1>4. /\ Len(managed) \in Nat
        /\ c.managed = [i \in 1..Len(managed) |-> NormalizeManaged(managed[i])]
    <2>1. Listed(managed) BY DEF Decoded
    <2>. HIDE DEF managed
    <2>2. Len(managed) \in Nat BY <2>1 DEF Listed
    <2>. QED BY <2>2, NormalizeIs DEF managed
  <1>. HIDE DEF c, w
  <1>5. /\ Len(c.managed) = Len(managed) /\ DOMAIN c.managed = 1..Len(managed)
        /\ Len(rules) = Len(c.managed) /\ DOMAIN rules = 1..Len(managed)
    BY <1>4
  <1>6. ASSUME NEW i \in 1..Len(managed)
        PROVE  /\ rules[i].name = c.managed[i].name /\ rules[i].selector = c.managed[i].selector
               /\ rules[i].drift = "report" \/ rules[i].drift = c.managed[i].drift
    <2>1. rules[i] = WritableRule(c.managed[i]) BY <1>5
    <2>2. c.managed[i] = NormalizeManaged(managed[i]) BY <1>4
    <2>3. PICK m : m = c.managed[i] OBVIOUS
    <2>4. DOMAIN m = {"name", "selector", "drift", "view", "hasControl", "control"}
      BY <2>2, <2>3 DEF NormalizeManaged
    <2>5. PICK r : r = WritableRule(m) OBVIOUS
    <2>6. r.name = m.name /\ r.selector = m.selector /\ (r.drift = "report" \/ r.drift = m.drift)
      BY <2>4, <2>5 DEF WritableRule
    <2>. QED BY <2>1, <2>3, <2>5, <2>6
  <1>7. ValidManaged(rules)
    <2>. HIDE DEF rules
    <2>1. ValidManaged(c.managed) BY <1>3 DEF ValidConfig
    <2>2. \A i, j \in 1..Len(rules) : rules[i].name = rules[j].name => i = j
      BY <1>5, <1>6, <2>1 DEF ValidManaged
    <2>3. ASSUME NEW r \in Elems(rules)
          PROVE  r.name # "" /\ r.drift \in ValidDrift \cup {""} /\ ValidSelector(r.selector)
      <3>1. PICK i \in 1..Len(managed) : r = rules[i] BY <1>5 DEF Elems
      <3>2. c.managed[i] \in Elems(c.managed) BY <1>5 DEF Elems
      <3>3. /\ c.managed[i].name # "" /\ c.managed[i].drift \in ValidDrift \cup {""}
            /\ ValidSelector(c.managed[i].selector)
        BY <2>1, <3>2 DEF ValidManaged
      <3>4. r.drift \in ValidDrift \cup {""} BY <1>6, <3>1, <3>3 DEF ValidDrift
      <3>. QED BY <1>6, <3>1, <3>3, <3>4
    <2>. QED BY <2>2, <2>3 DEF ValidManaged
  <1>. HIDE DEF rules
  <1>8. /\ w.version = c.version /\ w.leaf = c.leaf /\ w.width = c.width /\ w.use = c.use /\ w.group = c.group
        /\ w.metrics = c.metrics /\ w.sort = c.sort /\ w.presets = c.presets /\ w.managed = rules
    BY <1>2 DEF Fields
  <1>9. ValidConfig(w, order) BY <1>3, <1>7, <1>8 DEF ValidConfig
  <1>. QED BY <1>9 DEF w, c

LEMMA DurationsKept ==
  ASSUME NEW raw, Decoded(raw), NEW order, Loads(raw, order)
  PROVE  DurationsOK(ToOut(Normalize(raw)))
  <1>. DEFINE c == Normalize(raw)
              out == ToOut(c)
              again == IF DOMAIN c.presets = {} THEN NoRaw ELSE [n \in DOMAIN c.presets |-> EncodePreset(c.presets[n])]
  <1>1. /\ c.leaf # "" /\ c.use # "" BY DEF Loads, ValidConfig, ValidLeaf, ValidUse
  <1>2. /\ c.collapse \in BOOLEAN /\ c.interval = Get(raw, "interval", 0)
        /\ c.intervals = Get(raw, "intervals", NoRaw)
    BY NormalizeIs DEF Decoded
  <1>3. DurationsOK(raw) BY DEF Loads
  <1>4. /\ Get(out, "interval", 0) = c.interval
        /\ Get(out, "intervals", NoRaw) = IF DOMAIN c.intervals = {} THEN NoRaw ELSE c.intervals
        /\ Get(out, "presets", NoRaw) = again
        /\ "interval" \in DOMAIN out <=> c.interval # 0
    BY <1>1, <1>2, WrittenKeys
  <1>5. \A n \in DOMAIN again : OptDuration(again[n]) BY <1>3, PresetsReload
  <1>. HIDE DEF c, out, again
  <1>6. OptDuration(out)
    <2>1. "interval" \in DOMAIN out => out.interval = c.interval BY <1>4 DEF Get
    <2>2. c.interval # 0 => c.interval >= 0 BY <1>2, <1>3 DEF DurationsOK, OptDuration, Get
    <2>. QED BY <1>4, <2>1, <2>2 DEF OptDuration
  <1>7. \A n \in DOMAIN Get(out, "intervals", NoRaw) : Get(out, "intervals", NoRaw)[n] >= 0
    BY <1>2, <1>3, <1>4 DEF DurationsOK, NoRaw
  <1>8. \A n \in DOMAIN Get(out, "presets", NoRaw) : OptDuration(Get(out, "presets", NoRaw)[n])
    BY <1>4, <1>5
  <1>9. DurationsOK(out) BY <1>6, <1>7, <1>8 DEF DurationsOK
  <1>. QED BY <1>9 DEF c, out

LEMMA Reloads ==
  ASSUME NEW raw, Decoded(raw), NEW order, Loads(raw, order)
  PROVE  LET c == Normalize(raw) IN Loads(ToOut(c), order) /\ Normalize(ToOut(c)) = Writable(c)
  BY ConfigReads, WritableValid, DurationsKept DEF Loads

(***************************************************************************)
(* The order of the layers.  The default is below them and never in it.    *)
(***************************************************************************)
LayerNames == {"config", "env", "args"}
Ranked(out, t) == IF t = "default" THEN out ELSE AddOnce(out, t)

LEMMA RankedTypes ==
  ASSUME NEW out \in Seq(LayerNames), NEW t \in {"default"} \cup LayerNames
  PROVE  Ranked(out, t) \in Seq(LayerNames)
  BY DEF Ranked, AddOnce

LEMMA PrecedenceTypes ==
  ASSUME NEW tokens \in Seq({"default", "config", "env", "args"})
  PROVE  Precedence(tokens) \in Seq(LayerNames)
  <1>. DEFINE n == Len(tokens)
              V == Seq(LayerNames)
              Body(g) == [s \in SUBSET (1..n) |->
                            IF s = {} THEN << >> ELSE Ranked(g[s \ {Last(s)}], tokens[Last(s)])]
              G == CHOOSE g : g = Body(g)
              step == [p \in (1..n) \X V |-> Ranked(p[2], tokens[p[1]])]
  <1>1. CASE tokens = << >> BY <1>1, ConfigAssumption DEF ConfigAssumption, Precedence, LayerNames
  <1>2. CASE tokens # << >>
    <2>1. n \in Nat /\ DOMAIN tokens = 1..n /\ \A i \in 1..n : tokens[i] \in {"default"} \cup LayerNames
      BY DEF LayerNames
    <2>2. Precedence(tokens) = G[1..n]
      BY <1>2, <2>1 DEF Precedence, Ranked, Last, S!FoldLeft, S!MapThenFoldSet, S!Max
    <2>3. << >> \in V /\ \A i \in 1..n, v \in V : step[<<i, v>>] = Ranked(v, tokens[i]) /\ step[<<i, v>>] \in V
      BY <2>1, RankedTypes
    <2>4. PICK f \in [SUBSET (1..n) -> V] : Folds(f, n, << >>, step)
      <3>. HIDE DEF n, V, step
      <3>. QED BY <2>1, <2>3, FoldExists
    <2>5. f = Body(f)
      <3>1. ASSUME NEW s \in SUBSET (1..n), s # {}
            PROVE  step[<<Last(s), f[s \ {Last(s)}]>>] = Ranked(f[s \ {Last(s)}], tokens[Last(s)])
        <4>1. Last(s) \in 1..n BY <2>1, <3>1, LastIn
        <4>2. f[s \ {Last(s)}] \in V BY <2>4
        <4>. HIDE DEF step, V
        <4>. QED BY <2>3, <4>1, <4>2
      <3>2. f = [s \in SUBSET (1..n) |-> IF s = {} THEN << >> ELSE step[<<Last(s), f[s \ {Last(s)}]>>]]
        BY <2>4 DEF Folds
      <3>. HIDE DEF step, n
      <3>. QED BY <3>1, <3>2
    <2>6. G = Body(G)
      <3>. HIDE DEF Body
      <3>. QED BY <2>5
    <2>7. \A s \in SUBSET (1..n) : G[s] = IF s = {} THEN << >> ELSE Ranked(G[s \ {Last(s)}], tokens[Last(s)])
      <3>. HIDE DEF G
      <3>. QED BY <2>6
    <2>. HIDE DEF G, n, V
    <2>. DEFINE P == {i \in 0..n : G[1..i] \in V}
    <2>8. 0 \in P
      <3>1. {} \in SUBSET (1..n) /\ 1..0 = {} /\ 0 \in 0..n BY <2>1
      <3>. QED BY <2>3, <2>7, <3>1
    <2>9. ASSUME NEW i \in 1..n, i - 1 \in P PROVE i \in P
      <3>1. Last(1..i) = i /\ (1..i) \ {i} = 1..(i - 1) BY <2>1, LastOfFirst
      <3>2. i \in 0..n /\ 1..i \in SUBSET (1..n) /\ 1..i # {}
        <4>1. i \in Nat /\ 1 <= i /\ i <= n BY <2>1
        <4>2. 1 \in 1..i /\ \A j \in 1..i : j \in 1..n BY <2>1, <4>1
        <4>3. 1..i \subseteq 1..n BY <4>2, Zenon
        <4>4. 1..i # {} BY <4>2, Zenon
        <4>5. i \in 0..n BY <2>1, <4>1
        <4>. QED BY <4>3, <4>4, <4>5, Zenon
      <3>3. G[1..i] = Ranked(G[1..(i - 1)], tokens[i]) BY <2>7, <3>1, <3>2
      <3>. QED BY <2>1, <2>9, <3>2, <3>3, RankedTypes DEF V
    <2>10. n \in P
      <3>. HIDE DEF P
      <3>. QED BY <2>1, <2>8, <2>9, UpTo
    <2>. QED BY <2>2, <2>10 DEF V
  <1>. QED BY <1>1, <1>2

\* A file that does not mention a setting gives no value for it, whatever normalisation
\* fills in.
LEMMA SilentGivesNone ==
  ASSUME NEW raw, NEW setting, setting # "leaf", ~Mentions(raw, setting)
  PROVE  ~FromConfig(setting, Normalize(raw)).given
  <1>. DEFINE c == Normalize(raw)
              m == Get(raw, "metrics", NoRaw)
  <1>1. /\ c.group = Get(raw, "group", << >>) /\ c.columns = Get(raw, "columns", << >>)
        /\ c.sort = NormalizeSort(Get(raw, "sort", << >>)) /\ c.metrics = NormalizeMetrics(m)
        /\ c.width = Get(raw, "width", 0) /\ c.collapse = Get(raw, "collapse", FALSE)
    BY NormalizeIs
  <1>. HIDE DEF c, m
  <1>2. NormalizeSort(<< >>) = << >> BY DEF NormalizeSort
  <1>3. c.metrics.profile = Get(m, "profile", "")
    <2>1. NormalizeMetrics(m).profile = Get(m, "profile", "") BY DEF NormalizeMetrics
    <2>. QED BY <1>1, <2>1
  <1>4. CASE setting = "group-by"
    <2>1. c.group = << >> BY <1>1, <1>4 DEF Mentions, Get
    <2>. QED BY <1>4, <2>1 DEF FromConfig, c
  <1>5. CASE setting = "columns"
    <2>1. c.columns = << >> BY <1>1, <1>5 DEF Mentions, Get
    <2>. QED BY <1>5, <2>1 DEF FromConfig, c
  <1>6. CASE setting = "sort"
    <2>1. c.sort = << >> BY <1>1, <1>2, <1>6 DEF Mentions, Get
    <2>. QED BY <1>6, <2>1 DEF FromConfig, c
  <1>7. CASE setting = "width"
    <2>1. ~(c.width > 0) BY <1>1, <1>7 DEF Mentions, Get
    <2>. QED BY <1>7, <2>1 DEF FromConfig, c
  <1>8. CASE setting = "collapse"
    <2>1. ~c.collapse BY <1>1, <1>8 DEF Mentions, Get
    <2>. QED BY <1>8, <2>1 DEF FromConfig, c
  <1>9. CASE setting = "profile"
    <2>1. c.metrics.profile = "" BY <1>3, <1>9 DEF Mentions, Get, m
    <2>. QED BY <1>9, <2>1 DEF FromConfig, c
  <1>10. CASE setting \notin {"group-by", "columns", "sort", "width", "collapse", "profile"}
    BY <1>10 DEF FromConfig
  <1>. QED BY <1>4, <1>5, <1>6, <1>7, <1>8, <1>9, <1>10

\* Two readings of the layers that differ in a file that gives nothing come to the same.
LEMMA SilentLayer ==
  ASSUME NEW l1, NEW l2, NEW order \in Seq(LayerNames), NEW parses, ~l1["config"].given, ~l2["config"].given,
         \A l \in {"default", "env", "args"} : l1[l] = l2[l]
  PROVE  Winner(l1, order) = Winner(l2, order) /\ Effective(l1, order, parses) = Effective(l2, order, parses)
  <1>. DEFINE givers(ls) == {i \in 1..Len(order) : ls[order[i]].given}
              g == givers(l1)
              w == Winner(l1, order)
  <1>1. \A i \in 1..Len(order) : order[i] \in LayerNames OBVIOUS
  <1>2. \A i \in 1..Len(order) : l1[order[i]].given <=> l2[order[i]].given BY <1>1 DEF LayerNames
  <1>3. givers(l2) = g BY <1>2
  <1>4. w = IF g = {} THEN "default" ELSE order[FS!Max(g)] BY DEF Winner
  <1>5. Winner(l2, order) = IF g = {} THEN "default" ELSE order[FS!Max(g)] BY <1>3 DEF Winner
  <1>6. w # "config"
    <2>1. CASE g = {} BY <1>4, <2>1
    <2>2. CASE g # {}
      <3>1. Len(order) \in Nat /\ g \in SUBSET (1..Len(order)) OBVIOUS
      <3>2. \A i \in g : order[i] # "config" OBVIOUS
      <3>. HIDE DEF g
      <3>3. Last(g) \in g BY <2>2, <3>1, LastIn
      <3>. QED BY <1>4, <2>2, <3>2, <3>3 DEF Last, FS!Max
    <2>. QED BY <2>1, <2>2
  <1>7. w = Winner(l2, order) BY <1>4, <1>5
  <1>. HIDE DEF w
  <1>8. Effective(l1, order, parses) = Effective(l2, order, parses) BY <1>6, <1>7 DEF Effective, w
  <1>. QED BY <1>7, <1>8 DEF w

(***************************************************************************)
(* A task is answered by what the code computes for it.                    *)
(***************************************************************************)
ConfigInv ==
  /\ Read
  /\ \/ answer = Pending
     \/ task.kind = "config" /\ answer = Done(Loads(task.args.raw, task.args.order))
     \/ task.kind = "setting" /\ answer = Done(Resolved(task.args))
     \/ task.kind = "lookup"

LEMMA ConfigInvariant == Configured => []ConfigInv
  <1>1. Read /\ answer = Pending => ConfigInv BY DEF ConfigInv
  <1>2. ConfigInv /\ [Load \/ Settle \/ Locate]_<<task, answer>> => ConfigInv'
    <2>. SUFFICES ASSUME ConfigInv, [Load \/ Settle \/ Locate]_<<task, answer>> PROVE ConfigInv'
      OBVIOUS
    <2>1. CASE Load BY <2>1 DEF Load, Answers, ConfigInv, Read
    <2>2. CASE Settle BY <2>2 DEF Settle, Answers, ConfigInv, Read
    <2>3. CASE Locate BY <2>3 DEF Locate, Answers, ConfigInv, Read
    <2>4. CASE UNCHANGED <<task, answer>> BY <2>4 DEF ConfigInv, Read
    <2>. QED BY <2>1, <2>2, <2>3, <2>4
  <1>. QED BY <1>1, <1>2, PTL DEF Configured

LEMMA ConfigTask ==
  ASSUME ConfigInv, Answered("config")
  PROVE  /\ \E x \in Raws : x = task.args
         /\ answer.is = Loads(task.args.raw, task.args.order)
         /\ Decoded(task.args.raw)
         /\ Listed(task.args.order) /\ Elems(task.args.order) = DOMAIN Get(task.args.raw, "presets", NoRaw)
  <1>1. task.kind = "config" /\ answer # Pending BY DEF Answered, Pending
  <1>2. PICK x \in Raws : task = Task("config", x) BY <1>1 DEF ConfigInv, Read, Task
  <1>3. task.args = x BY <1>2 DEF Task
  <1>4. answer = Done(Loads(task.args.raw, task.args.order)) BY <1>1 DEF ConfigInv
  <1>5. answer.is = Loads(task.args.raw, task.args.order) BY <1>4, Zenon DEF Done
  <1>6. Decoded(x.raw) /\ Listed(x.order) /\ Elems(x.order) = DOMAIN Get(x.raw, "presets", NoRaw)
    BY ConfigAssumption DEF ConfigAssumption, Decoded
  <1>. QED BY <1>3, <1>5, <1>6

(* Whatever the registry knows and whatever the file holds, a configuration *)
(* that loads can be written out: convert and config dump write a file that *)
(* loads, and to the same values but for what the format has no place for   *)
(* (config/normalize.go, config/encode.go).                                 *)
THEOREM ConfigReloads == Configured => []ConvertReloads
  <1>1. ConfigInv => ConvertReloads
    <2>. SUFFICES ASSUME ConfigInv, Answered("config"), answer.is
                  PROVE  LET c == Normalize(task.args.raw)
                         IN  Loads(ToOut(c), task.args.order) /\ Normalize(ToOut(c)) = Writable(c)
      BY DEF ConvertReloads
    <2>. QED BY ConfigTask, Reloads
  <1>. QED BY <1>1, ConfigInvariant, PTL

(* The depth-first search of the preset graph (config/validate.go) refuses  *)
(* exactly the files with a missing parent or a chain of parents that comes *)
(* back, in whatever order the map yields the presets, and however many     *)
(* there are: what it has closed is known to be sound, and what it has open *)
(* is the chain it came down.                                               *)
THEOREM PresetsSearched == Configured => []PresetCyclesRefused
  <1>1. ConfigInv => PresetCyclesRefused
    <2>. DEFINE presets == Normalize(task.args.raw).presets
                order == task.args.order
    <2>. SUFFICES ASSUME ConfigInv, Answered("config")
                  PROVE  PresetGraphOK(presets, order) <=> Sound(presets, DOMAIN presets)
      BY DEF PresetCyclesRefused, Sound, Rooted, Parents
    <2>1. Listed(order) /\ Elems(order) = DOMAIN Get(task.args.raw, "presets", NoRaw) BY ConfigTask
    <2>2. DOMAIN presets = Elems(order)
      <3>. DEFINE raws == Get(task.args.raw, "presets", NoRaw)
      <3>1. presets = [n \in DOMAIN raws |-> NormalizePreset(raws[n])] BY NormalizeIs
      <3>. HIDE DEF presets, raws
      <3>2. DOMAIN presets = DOMAIN raws BY <3>1
      <3>. QED BY <2>1, <3>2 DEF raws
    <2>3. order \in Seq(DOMAIN presets) BY <2>1, <2>2 DEF Listed
    <2>. HIDE DEF presets, order
    <2>4. IsFiniteSet(DOMAIN presets)
      <3>1. Len(order) \in Nat BY <2>3
      <3>2. IsFiniteSet(1..Len(order)) BY <3>1, FS_Interval
      <3>3. order \in Surjection(1..Len(order), DOMAIN presets) BY <2>2, <2>3 DEF Surjection, Elems
      <3>. QED BY <3>2, <3>3, FS_Surjection
    <2>. QED BY <2>2, <2>3, <2>4, GraphDecided
  <1>. QED BY <1>1, ConfigInvariant, PTL

(* Whatever the precedence and whatever the other layers say, a file that   *)
(* is silent about a setting leaves its value and the source --show-config  *)
(* names as they are without a file, though normalisation fills in what is  *)
(* absent; the leaf is left out (config/normalize.go, app/settings.go).     *)
THEOREM SilentFiles == Configured => []SilentFileUnheard
  <1>1. ConfigInv => SilentFileUnheard
    <2>. DEFINE x == task.args
                y == [x EXCEPT !.file = FALSE]
    <2>. SUFFICES ASSUME ConfigInv, Answered("setting"), x.setting # "leaf", ~Mentions(x.raw, x.setting)
                  PROVE  answer.is = Resolved(y)
      BY DEF SilentFileUnheard
    <2>1. task.kind = "setting" /\ answer # Pending BY DEF Answered, Pending
    <2>2. x \in Settings BY <2>1 DEF ConfigInv, Read, Task
    <2>3. answer = Done(Resolved(x)) BY <2>1 DEF ConfigInv
    <2>4. answer.is = Resolved(x) BY <2>3, Zenon DEF Done
    <2>5. /\ DOMAIN x = {"setting", "file", "raw", "env", "args", "default", "tokens", "parses"}
          /\ x.tokens \in Seq({"default", "config", "env", "args"})
      BY <2>2, ConfigAssumption DEF ConfigAssumption
    <2>6. /\ y.setting = x.setting /\ y.raw = x.raw /\ y.env = x.env /\ y.args = x.args /\ y.default = x.default
          /\ y.tokens = x.tokens /\ y.parses = x.parses /\ ~y.file
      BY <2>5
    <2>. HIDE DEF x, y
    <2>. DEFINE order == Precedence(x.tokens)
                l1 == LayersOf(x)
                l2 == LayersOf(y)
    <2>7. order \in Seq(LayerNames) BY <2>5, PrecedenceTypes
    <2>8. \A l \in {"default", "env", "args"} : l1[l] = l2[l]
      <3>1. /\ l1["default"] = [given |-> TRUE, value |-> x.default] /\ l1["env"] = x.env /\ l1["args"] = x.args
            /\ l2["default"] = [given |-> TRUE, value |-> y.default] /\ l2["env"] = y.env /\ l2["args"] = y.args
        BY DEF LayersOf
      <3>. HIDE DEF l1, l2
      <3>. QED BY <2>6, <3>1
    <2>9. ~l1["config"].given
      <3>1. ~FromConfig(x.setting, Normalize(x.raw)).given BY SilentGivesNone
      <3>2. ~Unsaid.given BY DEF Unsaid
      <3>. QED BY <3>1, <3>2 DEF LayersOf
    <2>10. ~l2["config"].given BY <2>6 DEF LayersOf, Unsaid
    <2>11. Resolved(x) = [source |-> Winner(l1, order), value |-> Effective(l1, order, x.parses)] BY DEF Resolved
    <2>12. Resolved(y) = [source |-> Winner(l2, order), value |-> Effective(l2, order, x.parses)]
      <3>1. Resolved(y) = [source |-> Winner(l2, Precedence(y.tokens)),
                           value |-> Effective(l2, Precedence(y.tokens), y.parses)]
        BY DEF Resolved
      <3>2. Precedence(y.tokens) = order /\ y.parses = x.parses BY <2>6
      <3>. HIDE DEF order, l2
      <3>. QED BY <3>1, <3>2
    <2>. HIDE DEF order, l1, l2
    <2>13. Winner(l1, order) = Winner(l2, order) /\ Effective(l1, order, x.parses) = Effective(l2, order, x.parses)
      BY <2>7, <2>8, <2>9, <2>10, SilentLayer
    <2>. QED BY <2>4, <2>11, <2>12, <2>13
  <1>. QED BY <1>1, ConfigInvariant, PTL
==============================================================================
