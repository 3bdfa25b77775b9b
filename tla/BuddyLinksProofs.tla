-------------------------- MODULE BuddyLinksProofs --------------------------
(***************************************************************************)
(* Proofs about the linked free lists: whatever callers write into the     *)
(* pages they hold, the lists stay lists, and they implement Buddy's sets, *)
(* so that Buddy's theorems hold of the words in memory.                   *)
(***************************************************************************)
EXTENDS BuddyLinks, NumberLemmas, FiniteSetTheorems, TLAPS

BP == INSTANCE BuddyProofs WITH free_list <- free_list

-----------------------------------------------------------------------------
\* f meets the equation by which Listed walks along the links nx.
Walks(nx, f) ==
  f = [n \in 0 .. Top |->
         [a \in Addrs |-> IF n = 0 \/ a = nullptr THEN {} ELSE {a} \cup f[n - 1][nx[a]]]]

\* What Listed's walk finds from each page.
From(nx) == CHOOSE f : Walks(nx, f)

\* It is what Listed takes it for.
LEMMA ListedFrom == \A k \in Orders : Listed(k) = From(next)[Top][head[k]]
  BY DEF Listed, From, Walks

\* Step by step.
Steps(nx, f) ==
  \A n \in 0 .. Top, a \in Addrs :
    f[n][a] = IF n = 0 \/ a = nullptr THEN {} ELSE {a} \cup f[n - 1][nx[a]]

LEMMA WalkSteps ==
  ASSUME NEW nx, NEW f, Walks(nx, f)
  PROVE  Steps(nx, f)
<1>1. ASSUME NEW n \in 0 .. Top, NEW a \in Addrs
      PROVE  f[n][a] = IF n = 0 \/ a = nullptr THEN {} ELSE {a} \cup f[n - 1][nx[a]]
  <2> DEFINE F(d) == [x \in Addrs |-> IF d = 0 \/ x = nullptr THEN {} ELSE {x} \cup f[d - 1][nx[x]]]
  <2>1. f = [d \in 0 .. Top |-> F(d)]
    BY DEF Walks
  <2> HIDE DEF F
  <2>2. f[n] = F(n)
    BY <2>1
  <2> QED BY <2>2 DEF F
<1> QED BY <1>1 DEF Steps

\* The same up to m steps.
UpTo(nx, f, m) ==
  f = [n \in 0 .. m |->
         [a \in Addrs |-> IF n = 0 \/ a = nullptr THEN {} ELSE {a} \cup f[n - 1][nx[a]]]]

\* A walk of m steps can take another one.
LEMMA WalkOn ==
  ASSUME NEW nx \in [Addrs -> Addrs], NEW m \in Nat, NEW g, UpTo(nx, g, m)
  PROVE  \E f : UpTo(nx, f, m + 1)
<1> DEFINE E(h, n, a) == IF n = 0 \/ a = nullptr THEN {} ELSE {a} \cup h[n - 1][nx[a]]
           f == [n \in 0 .. m + 1 |-> [a \in Addrs |-> E(g, n, a)]]
<1>1. \A n \in 0 .. m : f[n] = g[n]
  <2> TAKE n \in 0 .. m
  <2>1. g[n] = [a \in Addrs |-> E(g, n, a)]
    BY DEF UpTo
  <2>2. f[n] = [a \in Addrs |-> E(g, n, a)]
    OBVIOUS
  <2> QED BY <2>1, <2>2
<1>2. ASSUME NEW n \in 0 .. m + 1, NEW a \in Addrs
      PROVE  E(g, n, a) = E(f, n, a)
  <2>1. CASE n = 0 \/ a = nullptr
    BY <2>1
  <2>2. CASE ~ (n = 0 \/ a = nullptr)
    <3>1. n - 1 \in 0 .. m
      BY <2>2
    <3>2. f[n - 1] = g[n - 1]
      BY <3>1, <1>1
    <3> QED BY <2>2, <3>2
  <2> QED BY <2>1, <2>2
<1>3. ASSUME NEW n \in 0 .. m + 1
      PROVE  [a \in Addrs |-> E(g, n, a)] = [a \in Addrs |-> E(f, n, a)]
  <2> HIDE DEF E, f
  <2> QED BY <1>2
<1> DEFINE h == [n \in 0 .. m + 1 |-> [a \in Addrs |-> E(f, n, a)]]
<1>4. f = h
  <2> DEFINE F(n) == [a \in Addrs |-> E(g, n, a)]
             G(n) == [a \in Addrs |-> E(f, n, a)]
  <2>1. \A n \in 0 .. m + 1 : F(n) = G(n)
    BY <1>3
  <2>2. f = [n \in 0 .. m + 1 |-> F(n)] /\ h = [n \in 0 .. m + 1 |-> G(n)]
    OBVIOUS
  <2> HIDE DEF F, G, f, h
  <2> QED BY <2>1, <2>2
<1>5. UpTo(nx, f, m + 1)
  BY <1>4 DEF UpTo
<1> QED BY <1>5

\* So there is a walk of Top steps.
LEMMA WalkExists ==
  ASSUME NEW nx \in [Addrs -> Addrs]
  PROVE  Walks(nx, From(nx))
<1> USE TopAssumption
<1> DEFINE T == {m \in Nat : ~ \E f : UpTo(nx, f, m)}
<1>1. T = {}
  <2> SUFFICES ASSUME T # {} PROVE FALSE
    OBVIOUS
  <2>1. PICK m \in T : \A l \in T : m <= l
    BY LeastNatural
  <2>2. CASE m = 0
    <3> DEFINE f == [n \in 0 .. 0 |-> [a \in Addrs |-> {}]]
    <3>1. f = [n \in 0 .. 0 |->
                 [a \in Addrs |-> IF n = 0 \/ a = nullptr THEN {} ELSE {a} \cup f[n - 1][nx[a]]]]
      OBVIOUS
    <3> QED BY <2>1, <2>2, <3>1 DEF UpTo
  <2>3. CASE m # 0
    <3>1. m - 1 \in Nat /\ m - 1 + 1 = m /\ m - 1 \notin T
      BY <2>1, <2>3
    <3>2. PICK g : UpTo(nx, g, m - 1)
      BY <3>1
    <3>3. \E f : UpTo(nx, f, m - 1 + 1)
      BY <3>1, <3>2, WalkOn
    <3> QED BY <2>1, <3>1, <3>3
  <2> QED BY <2>2, <2>3
<1>2. \E f : Walks(nx, f)
  BY <1>1 DEF UpTo, Walks
<1> QED BY <1>2 DEF From

\* Step by step.
LEMMA FromStep ==
  ASSUME NEW nx \in [Addrs -> Addrs]
  PROVE  Steps(nx, From(nx))
  BY WalkExists, WalkSteps

-----------------------------------------------------------------------------
Frames == Addrs \ {nullptr}

\* The page at place n of a chain of m.
At(m, s, n) == IF n \in 1 .. m THEN s[n] ELSE nullptr

\* From h, the links nx lead through the pages s[1], ..., s[m], no page twice.
Chain(h, nx, m, s) ==
  /\ \A x, y \in 1 .. m : s[x] = s[y] => x = y
  /\ h = At(m, s, 1)
  /\ \A n \in 1 .. m : nx[s[n]] = At(m, s, n + 1)

\* A list that starts at h and is made up of the pages S.
Names(h, nx, S) ==
  \E m \in Nat : \E s \in [1 .. m -> Frames] :
    Chain(h, nx, m, s) /\ S = {s[n] : n \in 1 .. m}

\* No list is longer than memory.
LEMMA ChainBound ==
  ASSUME NEW m \in Nat, NEW s \in [1 .. m -> Frames], \A x, y \in 1 .. m : s[x] = s[y] => x = y
  PROVE  m <= Top
<1> USE TopAssumption
<1> SUFFICES ASSUME Top < m PROVE FALSE
  OBVIOUS
<1> DEFINE S == 1 .. m
           T == 0 .. Top - 1
<1>1. IsFiniteSet(S) /\ Cardinality(S) = m
  BY FS_Interval
<1>2. IsFiniteSet(T) /\ Cardinality(T) = Top
  BY FS_Interval
<1>3. s \in [S -> T] /\ Cardinality(T) < Cardinality(S)
  BY <1>1, <1>2 DEF Frames, Addrs
<1> HIDE DEF S, T
<1>4. \E x, y \in S : x # y /\ s[x] = s[y]
  BY <1>1, <1>2, <1>3, FS_PigeonHole
<1> QED BY <1>4 DEF S

\* Listed's walk meets exactly the pages of the list.
LEMMA NamesListed ==
  ASSUME NEW nx \in [Addrs -> Addrs], NEW h, NEW S, Names(h, nx, S)
  PROVE  From(nx)[Top][h] = S
<1> USE TopAssumption
<1>1. PICK m \in Nat : \E s \in [1 .. m -> Frames] :
        Chain(h, nx, m, s) /\ S = {s[n] : n \in 1 .. m}
  BY DEF Names
<1>2. PICK s \in [1 .. m -> Frames] : Chain(h, nx, m, s) /\ S = {s[n] : n \in 1 .. m}
  BY <1>1
<1> DEFINE f == From(nx)
           Rest(x) == {s[n] : n \in x .. m}
           Meets(r) == \A n \in 0 .. Top : r <= n => f[n][At(m, s, m + 1 - r)] = Rest(m + 1 - r)
           T == {r \in 0 .. m : ~ Meets(r)}
<1>3. \A n \in 0 .. Top, a \in Addrs :
         f[n][a] = IF n = 0 \/ a = nullptr THEN {} ELSE {a} \cup f[n - 1][nx[a]]
  BY FromStep DEF Steps
<1> HIDE DEF f
<1>4. m <= Top
  BY <1>2, ChainBound DEF Chain
<1>5. T = {}
  <2> SUFFICES ASSUME T # {} PROVE FALSE
    OBVIOUS
  <2>1. T \in SUBSET Nat
    OBVIOUS
  <2>2. PICK r \in T : \A q \in T : r <= q
    BY <2>1, LeastNatural
  <2>3. r \in 0 .. m /\ ~ Meets(r)
    OBVIOUS
  <2>4. CASE r = 0
    <3>1. At(m, s, m + 1) = nullptr /\ Rest(m + 1) = {} /\ nullptr \in Addrs
      BY DEF At, nullptr, Addrs
    <3>2. \A n \in 0 .. Top : f[n][nullptr] = {}
      BY <1>3, <3>1
    <3>3. m + 1 - r = m + 1
      BY <2>4
    <3> HIDE DEF Rest
    <3> QED BY <2>3, <3>1, <3>2, <3>3
  <2>5. CASE r # 0
    <3> DEFINE x == m + 1 - r
    <3>1. x \in 1 .. m /\ r - 1 \in 0 .. m /\ m + 1 - (r - 1) = x + 1
      BY <2>3, <2>5
    <3>2. Meets(r - 1)
      <4>1. r - 1 \notin T
        <5> HIDE DEF T
        <5> SUFFICES ASSUME r - 1 \in T PROVE FALSE
          OBVIOUS
        <5>1. r <= r - 1
          BY <2>2
        <5> QED BY <2>3, <5>1
      <4> QED BY <3>1, <4>1
    <3>3. At(m, s, x) = s[x] /\ s[x] \in Frames
      BY <3>1 DEF At
    <3>4. nx[s[x]] = At(m, s, x + 1)
      BY <1>2, <3>1 DEF Chain
    <3>5. Rest(x) = {s[x]} \cup Rest(x + 1)
      <4> HIDE DEF x
      <4>1. \A n \in x .. m : n = x \/ n \in x + 1 .. m
        BY <3>1
      <4>2. x \in x .. m /\ \A n \in x + 1 .. m : n \in x .. m
        BY <3>1
      <4> QED BY <4>1, <4>2
    <3> HIDE DEF x
    <3>6. ASSUME NEW n \in 0 .. Top, r <= n PROVE f[n][At(m, s, x)] = Rest(x)
      <4>1. n - 1 \in 0 .. Top /\ r - 1 <= n - 1 /\ n # 0
        BY <2>3, <2>5, <3>6
      <4>4. s[x] \in Addrs /\ s[x] # nullptr
        BY <3>3 DEF Frames
      <4>5. f[n][s[x]] = IF n = 0 \/ s[x] = nullptr THEN {} ELSE {s[x]} \cup f[n - 1][nx[s[x]]]
        BY <1>3, <4>4
      <4>2. f[n][s[x]] = {s[x]} \cup f[n - 1][nx[s[x]]]
        BY <4>1, <4>4, <4>5
      <4>3. f[n - 1][At(m, s, x + 1)] = Rest(x + 1)
        BY <3>1, <3>2, <4>1
      <4> HIDE DEF Rest
      <4> QED BY <3>3, <3>4, <3>5, <4>2, <4>3
    <3> QED BY <2>3, <3>6 DEF x
  <2> QED BY <2>4, <2>5
<1>6. Meets(m)
  BY <1>5
<1>7. f[Top][At(m, s, m + 1 - m)] = Rest(m + 1 - m)
  BY <1>4, <1>6
<1>8. m + 1 - m = 1
  OBVIOUS
<1>9. f[Top][At(m, s, 1)] = Rest(1)
  BY <1>7, <1>8
<1> QED BY <1>2, <1>9 DEF Chain, f

\* The empty list, and when a list is empty.
LEMMA NamesNone ==
  /\ \A nx : Names(nullptr, nx, {})
  /\ \A h, nx, S : Names(h, nx, S) => S \subseteq Frames /\ (S = {} <=> h = nullptr)
<1>1. ASSUME NEW nx PROVE Names(nullptr, nx, {})
  <2> DEFINE s == [n \in 1 .. 0 |-> nullptr]
  <2>1. s \in [1 .. 0 -> Frames] /\ Chain(nullptr, nx, 0, s) /\ {} = {s[n] : n \in 1 .. 0}
    BY DEF Chain, At
  <2> QED BY <2>1 DEF Names
<1>2. ASSUME NEW h, NEW nx, NEW S, Names(h, nx, S)
      PROVE  S \subseteq Frames /\ (S = {} <=> h = nullptr)
  <2>1. PICK m \in Nat : \E s \in [1 .. m -> Frames] :
          Chain(h, nx, m, s) /\ S = {s[n] : n \in 1 .. m}
    BY <1>2 DEF Names
  <2>2. PICK s \in [1 .. m -> Frames] : Chain(h, nx, m, s) /\ S = {s[n] : n \in 1 .. m}
    BY <2>1
  <2>3. CASE m = 0
    BY <2>2, <2>3 DEF Chain, At
  <2>4. CASE m # 0
    <3>1. 1 \in 1 .. m /\ s[1] \in S /\ s[1] # nullptr /\ h = s[1]
      BY <2>2, <2>4 DEF Chain, At, Frames
    <3> QED BY <2>2, <3>1
  <2> QED BY <2>3, <2>4
<1> QED BY <1>1, <1>2

\* A page pushed onto a list it is not on: block->next = free_list[k] and so on.
LEMMA NamesPush ==
  ASSUME NEW nx \in [Addrs -> Addrs], NEW h \in Addrs, NEW S, Names(h, nx, S),
         NEW a \in Frames, a \notin S
  PROVE  Names(a, [nx EXCEPT ![a] = h], S \cup {a})
<1>1. PICK m \in Nat : \E s \in [1 .. m -> Frames] :
        Chain(h, nx, m, s) /\ S = {s[n] : n \in 1 .. m}
  BY DEF Names
<1>2. PICK s \in [1 .. m -> Frames] : Chain(h, nx, m, s) /\ S = {s[n] : n \in 1 .. m}
  BY <1>1
<1> DEFINE t == [n \in 1 .. m + 1 |-> IF n = 1 THEN a ELSE s[n - 1]]
           ny == [nx EXCEPT ![a] = h]
<1>3. /\ \A n \in 1 .. m + 1 : n = 1 \/ n - 1 \in 1 .. m
      /\ \A n \in 1 .. m : n + 1 \in 1 .. m + 1 /\ n + 1 # 1 /\ (n + 1) - 1 = n
      /\ 1 \in 1 .. m + 1
  OBVIOUS
<1>4. /\ t \in [1 .. m + 1 -> Frames] /\ t[1] = a
      /\ \A n \in 1 .. m : t[n + 1] = s[n]
      /\ \A n \in 1 .. m + 1 : n # 1 => t[n] = s[n - 1]
  BY <1>3
<1>5. \A n \in 1 .. m : s[n] \in S /\ s[n] # a
  BY <1>2
<1>6. /\ ny[a] = h
      /\ \A n \in 1 .. m : ny[s[n]] = nx[s[n]]
  BY <1>5 DEF Frames
<1> HIDE DEF t, ny
<1>7. ASSUME NEW x \in 1 .. m + 1, NEW y \in 1 .. m + 1, t[x] = t[y] PROVE x = y
  <2>1. CASE x = 1 /\ y = 1
    BY <2>1
  <2>2. CASE x # 1 /\ y = 1
    BY <1>3, <1>4, <1>5, <1>7, <2>2
  <2>3. CASE x = 1 /\ y # 1
    BY <1>3, <1>4, <1>5, <1>7, <2>3
  <2>4. CASE x # 1 /\ y # 1
    <3>1. x - 1 \in 1 .. m /\ y - 1 \in 1 .. m /\ s[x - 1] = s[y - 1]
      BY <1>3, <1>4, <1>7, <2>4
    <3>2. x - 1 = y - 1
      BY <1>2, <3>1 DEF Chain
    <3> QED BY <3>2
  <2> QED BY <2>1, <2>2, <2>3, <2>4
<1>8. ASSUME NEW n \in 1 .. m + 1 PROVE ny[t[n]] = At(m + 1, t, n + 1)
  <2>1. CASE n = 1
    <3>1. h = At(m, s, 1) /\ ny[t[n]] = h
      BY <1>2, <1>4, <1>6, <2>1 DEF Chain
    <3>2. CASE m = 0
      BY <3>1, <3>2, <2>1 DEF At
    <3>3. CASE m # 0
      <4>1. 1 \in 1 .. m /\ 2 \in 1 .. m + 1 /\ t[1 + 1] = s[1]
        BY <1>4, <3>3
      <4> QED BY <2>1, <3>1, <4>1 DEF At
    <3> QED BY <3>2, <3>3
  <2>2. CASE n # 1
    <3>1. n - 1 \in 1 .. m /\ t[n] = s[n - 1] /\ (n - 1) + 1 = n
      BY <1>3, <1>4, <2>2
    <3>2. ny[t[n]] = At(m, s, n)
      BY <1>2, <1>6, <3>1 DEF Chain
    <3>3. CASE n \in 1 .. m
      <4>1. n + 1 \in 1 .. m + 1 /\ t[n + 1] = s[n]
        BY <1>4, <3>3
      <4> QED BY <3>2, <3>3, <4>1 DEF At
    <3>4. CASE n \notin 1 .. m
      <4>1. n + 1 \notin 1 .. m + 1
        BY <3>4
      <4> QED BY <3>2, <3>4, <4>1 DEF At
    <3> QED BY <3>3, <3>4
  <2> QED BY <2>1, <2>2
<1>9. S \cup {a} = {t[n] : n \in 1 .. m + 1}
  <2>1. \A n \in 1 .. m + 1 : t[n] \in S \cup {a}
    BY <1>3, <1>4, <1>5
  <2>2. \A b \in S : \E n \in 1 .. m + 1 : b = t[n]
    BY <1>2, <1>3, <1>4
  <2> QED BY <1>3, <1>4, <2>1, <2>2
<1>10. a = At(m + 1, t, 1) /\ m + 1 \in Nat
  BY <1>3, <1>4 DEF At
<1>11. Chain(a, ny, m + 1, t)
  BY <1>7, <1>8, <1>10 DEF Chain
<1> QED BY <1>4, <1>9, <1>10, <1>11 DEF Names, ny

\* Links elsewhere may change.
LEMMA NamesFrame ==
  ASSUME NEW nx, NEW ny, NEW h, NEW S, Names(h, nx, S), \A a \in S : ny[a] = nx[a]
  PROVE  Names(h, ny, S)
<1>1. PICK m \in Nat : \E s \in [1 .. m -> Frames] :
        Chain(h, nx, m, s) /\ S = {s[n] : n \in 1 .. m}
  BY DEF Names
<1>2. PICK s \in [1 .. m -> Frames] : Chain(h, nx, m, s) /\ S = {s[n] : n \in 1 .. m}
  BY <1>1
<1>3. \A n \in 1 .. m : ny[s[n]] = nx[s[n]]
  BY <1>2
<1>4. Chain(h, ny, m, s)
  BY <1>2, <1>3 DEF Chain
<1> QED BY <1>2, <1>4 DEF Names

\* A list without its first page: free_list[k] = block->next.
LEMMA NamesPop ==
  ASSUME NEW nx, NEW h, NEW S, Names(h, nx, S), h # nullptr
  PROVE  h \in S /\ Names(nx[h], nx, S \ {h})
<1>1. PICK m \in Nat : \E s \in [1 .. m -> Frames] :
        Chain(h, nx, m, s) /\ S = {s[n] : n \in 1 .. m}
  BY DEF Names
<1>2. PICK s \in [1 .. m -> Frames] : Chain(h, nx, m, s) /\ S = {s[n] : n \in 1 .. m}
  BY <1>1
<1>3. 1 \in 1 .. m /\ h = s[1] /\ m - 1 \in Nat /\ h \in S
  BY <1>2 DEF Chain, At
<1> DEFINE t == [n \in 1 .. m - 1 |-> s[n + 1]]
<1>4. /\ \A n \in 1 .. m - 1 : n + 1 \in 1 .. m /\ n + 1 # 1
      /\ \A n \in 1 .. m : n = 1 \/ (n - 1 \in 1 .. m - 1 /\ (n - 1) + 1 = n)
  BY <1>3
<1>5. t \in [1 .. m - 1 -> Frames] /\ \A n \in 1 .. m - 1 : t[n] = s[n + 1]
  BY <1>4
<1> HIDE DEF t
<1>6. ASSUME NEW x \in 1 .. m - 1, NEW y \in 1 .. m - 1, t[x] = t[y] PROVE x = y
  <2>1. s[x + 1] = s[y + 1] /\ x + 1 \in 1 .. m /\ y + 1 \in 1 .. m
    BY <1>4, <1>5, <1>6
  <2>2. x + 1 = y + 1
    BY <1>2, <2>1 DEF Chain
  <2> QED BY <2>2
<1>7. ASSUME NEW n \in 1 .. m, n + 1 \in 1 .. m \/ n = m
      PROVE  At(m, s, n + 1) = At(m - 1, t, n)
  <2>1. CASE n = m
    <3>1. n + 1 \notin 1 .. m /\ n \notin 1 .. m - 1
      BY <2>1, <1>3
    <3> QED BY <3>1 DEF At
  <2>2. CASE n # m
    <3>1. n + 1 \in 1 .. m /\ n \in 1 .. m - 1
      BY <2>2, <1>3
    <3> QED BY <3>1, <1>5 DEF At
  <2> QED BY <2>1, <2>2
<1>8. nx[h] = At(m - 1, t, 1)
  <2>1. nx[s[1]] = At(m, s, 1 + 1)
    BY <1>2, <1>3 DEF Chain
  <2>2. 1 + 1 \in 1 .. m \/ 1 = m
    BY <1>3
  <2> QED BY <1>3, <1>7, <2>1, <2>2
<1>9. ASSUME NEW n \in 1 .. m - 1 PROVE nx[t[n]] = At(m - 1, t, n + 1)
  <2>1. n + 1 \in 1 .. m /\ t[n] = s[n + 1]
    BY <1>4, <1>5
  <2>2. nx[s[n + 1]] = At(m, s, (n + 1) + 1)
    BY <1>2, <2>1 DEF Chain
  <2>3. (n + 1) + 1 \in 1 .. m \/ n + 1 = m
    BY <1>3
  <2> QED BY <1>7, <2>1, <2>2, <2>3
<1>10. S \ {h} = {t[n] : n \in 1 .. m - 1}
  <2>1. ASSUME NEW b \in S, b # h PROVE \E n \in 1 .. m - 1 : b = t[n]
    <3>1. PICK x \in 1 .. m : b = s[x]
      BY <1>2
    <3>2. x # 1
      BY <1>3, <2>1, <3>1
    <3> QED BY <1>4, <1>5, <3>1, <3>2
  <2>2. ASSUME NEW n \in 1 .. m - 1 PROVE t[n] \in S /\ t[n] # h
    <3>1. n + 1 \in 1 .. m /\ n + 1 # 1 /\ t[n] = s[n + 1]
      BY <1>4, <1>5
    <3>2. s[n + 1] # s[1]
      BY <1>2, <1>3, <3>1 DEF Chain
    <3> QED BY <1>2, <1>3, <3>1, <3>2
  <2> QED BY <2>1, <2>2
<1>11. Chain(nx[h], nx, m - 1, t)
  BY <1>6, <1>8, <1>9 DEF Chain
<1> QED BY <1>3, <1>5, <1>10, <1>11 DEF Names

\* A list without the page behind p: *cur = (*cur)->next.
LEMMA NamesUnlink ==
  ASSUME NEW nx \in [Addrs -> Addrs], NEW h, NEW S, Names(h, nx, S),
         NEW p \in S, nx[p] # nullptr
  PROVE  /\ nx[p] \in S
         /\ Names(h, [nx EXCEPT ![p] = nx[nx[p]]], S \ {nx[p]})
<1>1. PICK m \in Nat : \E s \in [1 .. m -> Frames] :
        Chain(h, nx, m, s) /\ S = {s[n] : n \in 1 .. m}
  BY DEF Names
<1>2. PICK s \in [1 .. m -> Frames] : Chain(h, nx, m, s) /\ S = {s[n] : n \in 1 .. m}
  BY <1>1
<1>3. PICK j \in 1 .. m : p = s[j]
  BY <1>2
<1>4. j + 1 \in 1 .. m /\ nx[p] = s[j + 1] /\ m - 1 \in Nat /\ j \in 1 .. m - 1
  <2>1. nx[s[j]] = At(m, s, j + 1)
    BY <1>2 DEF Chain
  <2>2. j + 1 \in 1 .. m
    BY <1>3, <2>1 DEF At
  <2> QED BY <1>3, <2>1, <2>2 DEF At
<1> DEFINE t == [n \in 1 .. m - 1 |-> IF n <= j THEN s[n] ELSE s[n + 1]]
           ny == [nx EXCEPT ![p] = nx[nx[p]]]
<1>5. /\ \A n \in 1 .. m - 1 : n \in 1 .. m /\ n + 1 \in 1 .. m
      /\ \A n \in 1 .. m : n <= j => n \in 1 .. m - 1
      /\ \A n \in 1 .. m : n > j + 1 => n - 1 \in 1 .. m - 1 /\ ~ (n - 1 <= j) /\ (n - 1) + 1 = n
  BY <1>4
<1>6. /\ t \in [1 .. m - 1 -> Frames]
      /\ \A n \in 1 .. m - 1 : n <= j => t[n] = s[n]
      /\ \A n \in 1 .. m - 1 : ~ (n <= j) => t[n] = s[n + 1]
  BY <1>5
<1>7. /\ ny[s[j]] = nx[s[j + 1]]
      /\ \A n \in 1 .. m : n # j => ny[s[n]] = nx[s[n]]
  <2>1. \A n \in 1 .. m : n # j => s[n] # p
    BY <1>2, <1>3 DEF Chain
  <2>2. \A n \in 1 .. m : s[n] \in Addrs
    BY DEF Frames
  <2> QED BY <1>3, <1>4, <2>1, <2>2
<1> HIDE DEF t, ny
<1>8. ASSUME NEW x \in 1 .. m - 1, NEW y \in 1 .. m - 1, t[x] = t[y] PROVE x = y
  <2>1. \A v, w \in 1 .. m : s[v] = s[w] => v = w
    BY <1>2 DEF Chain
  <2>2. CASE x <= j /\ y <= j
    BY <1>5, <1>6, <1>8, <2>1, <2>2
  <2>3. CASE x <= j /\ ~ (y <= j)
    <3>1. s[x] = s[y + 1] /\ y + 1 \in 1 .. m /\ x \in 1 .. m
      BY <1>5, <1>6, <1>8, <2>3
    <3>2. x = y + 1
      BY <2>1, <3>1
    <3> QED BY <2>3, <3>2
  <2>4. CASE ~ (x <= j) /\ y <= j
    <3>1. s[x + 1] = s[y] /\ x + 1 \in 1 .. m /\ y \in 1 .. m
      BY <1>5, <1>6, <1>8, <2>4
    <3>2. x + 1 = y
      BY <2>1, <3>1
    <3> QED BY <2>4, <3>2
  <2>5. CASE ~ (x <= j) /\ ~ (y <= j)
    <3>1. s[x + 1] = s[y + 1] /\ x + 1 \in 1 .. m /\ y + 1 \in 1 .. m
      BY <1>5, <1>6, <1>8, <2>5
    <3>2. x + 1 = y + 1
      BY <2>1, <3>1
    <3> QED BY <3>2
  <2> QED BY <2>2, <2>3, <2>4, <2>5
<1>9. ASSUME NEW n \in 1 .. m, n > j + 1 \/ n = m + 1 PROVE At(m, s, n) = At(m - 1, t, n - 1)
  BY <1>4, <1>5, <1>6, <1>9 DEF At
<1>10. ASSUME NEW n \in 1 .. m - 1 PROVE ny[t[n]] = At(m - 1, t, n + 1)
  <2>1. CASE n < j
    <3>1. n + 1 \in 1 .. m - 1 /\ n + 1 <= j /\ n + 1 \in 1 .. m /\ n <= j /\ n # j
      BY <1>4, <2>1
    <3>2. ny[t[n]] = nx[s[n]] /\ t[n + 1] = s[n + 1]
      BY <1>5, <1>6, <1>7, <3>1
    <3>3. nx[s[n]] = At(m, s, n + 1)
      BY <1>2, <1>5 DEF Chain
    <3> QED BY <3>1, <3>2, <3>3 DEF At
  <2>2. CASE n >= j
    <3> DEFINE v == n + 1
    <3>1. v \in 1 .. m /\ v > j
      BY <1>4, <1>5, <2>2
    <3>2. ny[t[n]] = nx[s[v]]
      <4>1. CASE n = j
        BY <1>4, <1>5, <1>6, <1>7, <4>1
      <4>2. CASE n # j
        <5>1. ~ (n <= j) /\ v # j
          BY <2>2, <4>2
        <5> QED BY <1>6, <1>7, <3>1, <5>1
      <4> QED BY <4>1, <4>2
    <3>3. nx[s[v]] = At(m, s, v + 1)
      BY <1>2, <3>1 DEF Chain
    <3>4. At(m, s, v + 1) = At(m - 1, t, v)
      <4>1. CASE v = m
        <5>1. v + 1 \notin 1 .. m /\ v \notin 1 .. m - 1
          BY <4>1, <3>1
        <5> QED BY <5>1 DEF At
      <4>2. CASE v # m
        <5>1. v + 1 \in 1 .. m /\ v \in 1 .. m - 1 /\ ~ (v <= j)
          BY <4>2, <3>1
        <5>2. t[v] = s[v + 1]
          BY <1>6, <5>1
        <5> QED BY <5>1, <5>2 DEF At
      <4> QED BY <4>1, <4>2
    <3> QED BY <3>2, <3>3, <3>4
  <2> QED BY <1>4, <2>1, <2>2
<1>11. S \ {nx[p]} = {t[n] : n \in 1 .. m - 1}
  <2>1. ASSUME NEW b \in S, b # nx[p] PROVE \E n \in 1 .. m - 1 : b = t[n]
    <3>1. PICK x \in 1 .. m : b = s[x]
      BY <1>2
    <3>2. x # j + 1
      BY <1>4, <2>1, <3>1
    <3>3. CASE x <= j
      BY <1>5, <1>6, <3>1, <3>3
    <3>4. CASE ~ (x <= j)
      <4>1. x > j + 1
        BY <1>4, <3>2, <3>4
      <4>2. x - 1 \in 1 .. m - 1 /\ t[x - 1] = s[x]
        BY <1>5, <1>6, <4>1
      <4> QED BY <3>1, <4>2
    <3> QED BY <3>3, <3>4
  <2>2. ASSUME NEW n \in 1 .. m - 1 PROVE t[n] \in S /\ t[n] # nx[p]
    <3>1. \E x \in 1 .. m : t[n] = s[x] /\ x # j + 1
      <4>1. CASE n <= j
        BY <1>5, <1>6, <4>1, <1>4
      <4>2. CASE ~ (n <= j)
        <5>1. n + 1 \in 1 .. m /\ n + 1 # j + 1 /\ t[n] = s[n + 1]
          BY <1>4, <1>5, <1>6, <4>2
        <5> QED BY <5>1
      <4> QED BY <4>1, <4>2
    <3>2. PICK x \in 1 .. m : t[n] = s[x] /\ x # j + 1
      BY <3>1
    <3>3. s[x] # s[j + 1]
      BY <1>2, <1>4, <3>2 DEF Chain
    <3> QED BY <1>2, <1>4, <3>2, <3>3
  <2> QED BY <2>1, <2>2
<1>12. h = At(m - 1, t, 1)
  <2>1. 1 \in 1 .. m /\ 1 \in 1 .. m - 1 /\ 1 <= j
    BY <1>4
  <2>2. t[1] = s[1]
    BY <1>6, <2>1
  <2> QED BY <1>2, <2>1, <2>2 DEF Chain, At
<1>13. Chain(h, ny, m - 1, t)
  BY <1>8, <1>10, <1>12 DEF Chain
<1>14. nx[p] \in S
  BY <1>2, <1>4
<1> QED BY <1>4, <1>6, <1>11, <1>13, <1>14 DEF Names, ny

\* A list ends, and no page of it has two before it.
LEMMA NamesShape ==
  ASSUME NEW nx, NEW h, NEW S, Names(h, nx, S)
  PROVE  /\ S # {} => \E a \in S : nx[a] = nullptr
         /\ \A a, b \in S : a # b /\ nx[a] # nullptr => nx[a] # nx[b]
         /\ \A a \in S : nx[a] # h
<1>1. PICK m \in Nat : \E s \in [1 .. m -> Frames] :
        Chain(h, nx, m, s) /\ S = {s[n] : n \in 1 .. m}
  BY DEF Names
<1>2. PICK s \in [1 .. m -> Frames] : Chain(h, nx, m, s) /\ S = {s[n] : n \in 1 .. m}
  BY <1>1
<1>3. /\ \A x, y \in 1 .. m : s[x] = s[y] => x = y
      /\ \A n \in 1 .. m : nx[s[n]] = At(m, s, n + 1)
      /\ \A n \in 1 .. m : s[n] # nullptr
      /\ h = At(m, s, 1)
  BY <1>2 DEF Chain, Frames
<1>4. ASSUME S # {} PROVE \E a \in S : nx[a] = nullptr
  <2>1. m \in 1 .. m /\ m + 1 \notin 1 .. m
    BY <1>2, <1>4
  <2> QED BY <1>2, <1>3, <2>1 DEF At
<1>5. ASSUME NEW a \in S, NEW b \in S, a # b, nx[a] # nullptr PROVE nx[a] # nx[b]
  <2>1. PICK x \in 1 .. m : a = s[x]
    BY <1>2
  <2>2. PICK y \in 1 .. m : b = s[y]
    BY <1>2
  <2>3. x # y /\ x + 1 # y + 1
    BY <1>5, <2>1, <2>2
  <2>4. nx[a] = s[x + 1] /\ x + 1 \in 1 .. m
    BY <1>3, <1>5, <2>1 DEF At
  <2>5. CASE y + 1 \in 1 .. m
    <3>1. nx[b] = s[y + 1]
      BY <1>3, <2>2, <2>5 DEF At
    <3> QED BY <1>3, <2>3, <2>4, <2>5, <3>1
  <2>6. CASE y + 1 \notin 1 .. m
    <3>1. nx[b] = nullptr
      BY <1>3, <2>2, <2>6 DEF At
    <3> QED BY <1>5, <3>1
  <2> QED BY <2>5, <2>6
<1>6. ASSUME NEW a \in S PROVE nx[a] # h
  <2>1. PICK x \in 1 .. m : a = s[x]
    BY <1>2
  <2>2. h = s[1] /\ 1 \in 1 .. m /\ h # nullptr
    BY <1>3, <2>1 DEF At
  <2>3. CASE x + 1 \in 1 .. m
    <3>1. nx[a] = s[x + 1] /\ x + 1 # 1
      BY <1>3, <2>1, <2>3 DEF At
    <3> QED BY <1>3, <2>2, <2>3, <3>1
  <2>4. CASE x + 1 \notin 1 .. m
    <3>1. nx[a] = nullptr
      BY <1>3, <2>1, <2>4 DEF At
    <3> QED BY <2>2, <3>1
  <2> QED BY <2>3, <2>4
<1> QED BY <1>4, <1>5, <1>6

-----------------------------------------------------------------------------
\* The types of the lists' words and of the call's locals.
LinkTypes ==
  /\ head \in [Orders -> Addrs] /\ next \in [Addrs -> Addrs]
  /\ cur \in [kind : {"head", "next"}, page : Addrs]
  /\ block \in Addrs

\* Each free list is one, of the pages that Listed finds.
Lists == \A k \in Orders : Names(head[k], next, Listed(k))

\* Where lists are known, so is what Listed finds.
LEMMA ListedIs ==
  next \in [Addrs -> Addrs] =>
    \A k \in Orders : \A S : Names(head[k], next, S) => Listed(k) = S
  BY ListedFrom, NamesListed

\* The same after a step.
LEMMA ListedThen ==
  next' \in [Addrs -> Addrs] =>
    \A k \in Orders : \A S : Names(head'[k], next', S) => Listed(k)' = S
<1>1. (next \in [Addrs -> Addrs] =>
         \A k \in Orders : \A S : Names(head[k], next, S) => Listed(k) = S)'
  BY ListedIs, PTL
<1> QED BY <1>1

\* A step that leaves the lists' words alone.
LEMMA ListsKept ==
  ASSUME LinkTypes, Lists, head' = head, next' \in [Addrs -> Addrs],
         \A k \in Orders : \A a \in Listed(k) : next'[a] = next[a]
  PROVE  Lists' /\ \A k \in Orders : Listed(k)' = Listed(k)
<1>1. ASSUME NEW k \in Orders
      PROVE  Names(head'[k], next', Listed(k)) /\ Listed(k)' = Listed(k)
  <2>1. Names(head[k], next, Listed(k)) /\ \A a \in Listed(k) : next'[a] = next[a]
    BY DEF Lists
  <2>2. Names(head[k], next', Listed(k))
    BY <2>1, NamesFrame
  <2> QED BY <2>2, ListedThen
<1> QED BY <1>1 DEF Lists

\* A step that empties all lists.
LEMMA ListsEmptied ==
  ASSUME head' = [k \in Orders |-> nullptr], next' \in [Addrs -> Addrs]
  PROVE  Lists' /\ \A k \in Orders : Listed(k)' = {}
<1>1. ASSUME NEW k \in Orders PROVE Names(head'[k], next', {}) /\ Listed(k)' = {}
  <2>1. Names(head'[k], next', {})
    BY NamesNone
  <2> QED BY <2>1, ListedThen
<1> QED BY <1>1 DEF Lists

\* A page that is on no list goes onto one.
LEMMA ListsPushed ==
  ASSUME LinkTypes, Lists, NEW l \in Orders, NEW a \in Frames,
         \A k \in Orders : a \notin Listed(k), Push(a, l)
  PROVE  /\ Lists' /\ head' \in [Orders -> Addrs] /\ next' \in [Addrs -> Addrs]
         /\ Listed(l)' = Listed(l) \cup {a}
         /\ \A k \in Orders : k # l => Listed(k)' = Listed(k)
<1>1. /\ next' = [next EXCEPT ![a] = head[l]] /\ head' = [head EXCEPT ![l] = a]
      /\ head[l] \in Addrs /\ a \in Addrs
  BY DEF Push, LinkTypes, Frames
<1>2. head' \in [Orders -> Addrs] /\ next' \in [Addrs -> Addrs]
  BY <1>1 DEF LinkTypes
<1>3. Names(a, next', Listed(l) \cup {a})
  <2>1. Names(head[l], next, Listed(l)) /\ a \notin Listed(l) /\ next \in [Addrs -> Addrs]
    BY DEF Lists, LinkTypes
  <2> QED BY <1>1, <2>1, NamesPush
<1>4. Names(head'[l], next', Listed(l) \cup {a})
  BY <1>1, <1>3 DEF LinkTypes
<1>5. Listed(l)' = Listed(l) \cup {a}
  BY <1>2, <1>4, ListedThen
<1>6. ASSUME NEW k \in Orders, k # l
      PROVE  Names(head'[k], next', Listed(k)) /\ Listed(k)' = Listed(k)
  <2>1. Names(head[k], next, Listed(k)) /\ Listed(k) \subseteq Addrs
    BY NamesNone DEF Lists, Frames
  <2>2. \A b \in Listed(k) : next'[b] = next[b]
    BY <1>1, <2>1 DEF LinkTypes
  <2>3. Names(head[k], next', Listed(k))
    BY <2>1, <2>2, NamesFrame
  <2>4. head'[k] = head[k]
    BY <1>1, <1>6 DEF LinkTypes
  <2> QED BY <1>2, <2>3, <2>4, ListedThen
<1>7. Lists'
  <2>1. \A k \in Orders : Names(head'[k], next', Listed(k)')
    BY <1>4, <1>5, <1>6
  <2> QED BY <2>1 DEF Lists
<1> QED BY <1>2, <1>5, <1>6, <1>7

\* The first page of a list is taken off.
LEMMA ListsPopped ==
  ASSUME LinkTypes, Lists, NEW l \in Orders, head[l] # nullptr,
         head' = [head EXCEPT ![l] = next[head[l]]], next' = next
  PROVE  /\ Lists' /\ head' \in [Orders -> Addrs]
         /\ head[l] \in Listed(l) /\ Listed(l)' = Listed(l) \ {head[l]}
         /\ \A k \in Orders : k # l => Listed(k)' = Listed(k)
<1>1. head[l] \in Addrs /\ next[head[l]] \in Addrs /\ next' \in [Addrs -> Addrs]
  BY DEF LinkTypes
<1>2. head' \in [Orders -> Addrs] /\ head'[l] = next[head[l]]
  BY <1>1 DEF LinkTypes
<1>3. head[l] \in Listed(l) /\ Names(next[head[l]], next, Listed(l) \ {head[l]})
  <2>1. Names(head[l], next, Listed(l))
    BY DEF Lists
  <2> QED BY <2>1, NamesPop
<1>4. Listed(l)' = Listed(l) \ {head[l]}
  BY <1>1, <1>2, <1>3, ListedThen
<1>5. ASSUME NEW k \in Orders, k # l
      PROVE  Names(head'[k], next', Listed(k)) /\ Listed(k)' = Listed(k)
  <2>1. head'[k] = head[k] /\ Names(head[k], next, Listed(k))
    BY <1>5 DEF LinkTypes, Lists
  <2> QED BY <1>1, <2>1, ListedThen
<1>6. Lists'
  <2>1. \A k \in Orders : Names(head'[k], next', Listed(k)')
    BY <1>2, <1>3, <1>4, <1>5
  <2> QED BY <2>1 DEF Lists
<1> QED BY <1>2, <1>3, <1>4, <1>5, <1>6

\* A page is cut out behind another one.
LEMMA ListsUnlinked ==
  ASSUME LinkTypes, Lists, NEW l \in Orders, NEW p \in Listed(l), next[p] # nullptr,
         \A k \in Orders : k # l => p \notin Listed(k),
         next' = [next EXCEPT ![p] = next[next[p]]], head' = head
  PROVE  /\ Lists' /\ next' \in [Addrs -> Addrs]
         /\ next[p] \in Listed(l) /\ Listed(l)' = Listed(l) \ {next[p]}
         /\ \A k \in Orders : k # l => Listed(k)' = Listed(k)
<1>1. \A k \in Orders : Names(head[k], next, Listed(k)) /\ Listed(k) \subseteq Addrs
  BY NamesNone DEF Lists, Frames
<1>2. next \in [Addrs -> Addrs] /\ p \in Addrs /\ next[p] \in Addrs /\ next[next[p]] \in Addrs
  BY <1>1 DEF LinkTypes
<1>3. next' \in [Addrs -> Addrs]
  BY <1>2
<1>4. next[p] \in Listed(l) /\ Names(head'[l], next', Listed(l) \ {next[p]})
  <2>1. Names(head[l], next, Listed(l))
    BY <1>1
  <2> QED BY <1>2, <2>1, NamesUnlink
<1>5. Listed(l)' = Listed(l) \ {next[p]}
  BY <1>3, <1>4, ListedThen
<1>6. ASSUME NEW k \in Orders, k # l
      PROVE  Names(head'[k], next', Listed(k)) /\ Listed(k)' = Listed(k)
  <2>1. \A b \in Listed(k) : next'[b] = next[b]
    BY <1>1, <1>2, <1>6
  <2>2. Names(head[k], next', Listed(k))
    BY <1>1, <2>1, NamesFrame
  <2> QED BY <1>3, <2>2, ListedThen
<1>7. Lists'
  <2>1. \A k \in Orders : Names(head'[k], next', Listed(k)')
    BY <1>4, <1>5, <1>6
  <2> QED BY <2>1 DEF Lists
<1> QED BY <1>3, <1>4, <1>5, <1>6, <1>7

-----------------------------------------------------------------------------
\* What is taken from the proofs about Buddy.
BuddyOK == BP!CallInv /\ BP!OverlapInv

Apart(a, m, b, n) == a + m <= b \/ b + n <= a

\* The operators the two modules share are the same.
LEMMA SameOperators ==
  /\ BP!Orders = Orders
  /\ \A n : BP!GetOrder(n) = GetOrder(n)
  /\ \A a, k : BP!GetBuddy(a, k) = GetBuddy(a, k)
  /\ \A a, b : BP!Lower(a, b) = Lower(a, b)
  /\ BP!CarveOrder = CarveOrder
  /\ \A a, m, b, n : BP!Apart(a, m, b, n) <=> Apart(a, m, b, n)
<1>1. BP!Orders = Orders
  BY DEF BP!Orders, Orders
<1>2. \A n : BP!GetOrder(n) = GetOrder(n)
  BY DEF BP!GetOrder, GetOrder, BP!Orders, Orders
<1>3. \A a, k : BP!GetBuddy(a, k) = GetBuddy(a, k)
  BY DEF BP!GetBuddy, GetBuddy
<1>4. \A a, b : BP!Lower(a, b) = Lower(a, b)
  BY DEF BP!Lower, Lower
<1>5. BP!CarveOrder = CarveOrder
  BY DEF BP!CarveOrder, CarveOrder, BP!Orders, Orders, BP!Fits, Fits
<1>6. \A a, m, b, n : BP!Apart(a, m, b, n) <=> Apart(a, m, b, n)
  BY DEF BP!Apart, Apart
<1> QED BY <1>1, <1>2, <1>3, <1>4, <1>5, <1>6

\* Buddy's assumptions hold here.
LEMMA BuddyAssumptions ==
  /\ MaxOrder \in Nat
  /\ SizeForOrder \in [BP!Orders -> Nat \ {0}]
  /\ SizeForOrder[0] = 1
  /\ \A k \in BP!Orders : k + 1 \in BP!Orders => SizeForOrder[k + 1] = 2 * SizeForOrder[k]
  /\ \A m \in MemoryMaps : BP!ValidMap(m)
  /\ Requests \subseteq Nat
<1>1. \A m \in MemoryMaps : BP!ValidMap(m)
  BY MapAssumption DEF B!ValidMap, BP!ValidMap, B!Usable, BP!Usable
<1> QED BY <1>1, SameOperators, MaxOrderAssumption, SizeAssumption, RequestAssumption

\* The types that Buddy gives.
LEMMA BuddyTypes ==
  ASSUME BuddyOK
  PROVE  /\ mmap \in MemoryMaps
         /\ pc \in {"count", "region", "carve", "idle", "search", "split", "merge"}
         /\ i \in Nat \ {0} /\ current \in Nat /\ remaining \in Nat
         /\ size \in Nat /\ block \in Nat /\ order \in 0 .. (MaxOrder + 1)
         /\ \A h \in held : h \in [addr : Nat, size : Nat] /\ GetOrder(h.size) \in Orders
         /\ pc \in {"split", "merge"} => order \in Orders
         /\ pc \in {"search", "split"} => GetOrder(size) <= order
         /\ pc = "carve" => i \in DOMAIN mmap
<1>1. BP!TypeOK /\ BP!CallOK
  BY DEF BuddyOK, BP!CallInv
<1>2. \A h \in held : h \in [addr : Nat, size : Nat] /\ GetOrder(h.size) \in Orders
  <2>1. held \subseteq [addr : Nat, size : {n \in Requests : BP!GetOrder(n) \in BP!Orders}]
    BY <1>1 DEF BP!TypeOK, BP!Blocks
  <2>2. held \subseteq [addr : Nat, size : {n \in Requests : GetOrder(n) \in Orders}]
    BY <2>1, SameOperators
  <2> QED BY <2>2, RequestAssumption
<1>3. /\ pc \in {"split", "merge"} => order \in Orders
      /\ pc \in {"search", "split"} => GetOrder(size) <= order
      /\ pc = "carve" => i \in DOMAIN mmap
  BY <1>1, SameOperators DEF BP!CallOK, BP!InHand, BP!UsableEntries
<1> QED BY <1>1, <1>2, <1>3 DEF BP!TypeOK

\* The blocks that Buddy keeps apart.
LEMMA BuddyApart ==
  ASSUME BuddyOK
  PROVE  /\ \A k, l \in Orders : \A a \in Listed(k), b \in Listed(l) :
              (k = l /\ a = b) \/ Apart(a, SizeForOrder[k], b, SizeForOrder[l])
         /\ \A k \in Orders : \A a \in Listed(k), h \in held :
              Apart(a, SizeForOrder[k], h.addr, SizeForOrder[GetOrder(h.size)])
         /\ pc \in {"split", "merge"} => \A k \in Orders : \A a \in Listed(k) :
              Apart(a, SizeForOrder[k], block, SizeForOrder[order])
         /\ pc = "carve" => \A k \in Orders : \A a \in Listed(k) :
              Apart(a, SizeForOrder[k], current, remaining)
         /\ pc = "count" => \A k \in Orders : Listed(k) = {}
<1>1. \A k \in Orders : free_list[k] = Listed(k)
  BY DEF free_list
<1>2. BP!FreeApart /\ BP!FreeHeldApart /\ BP!HandApart /\ BP!CarveApart
  BY DEF BuddyOK, BP!OverlapInv, BP!NoOverlap
<1>3. \A k, l \in Orders : \A a \in Listed(k), b \in Listed(l) :
        (k = l /\ a = b) \/ Apart(a, SizeForOrder[k], b, SizeForOrder[l])
  <2>1. \A k, l \in Orders : \A a \in free_list[k], b \in free_list[l] :
          (k = l /\ a = b) \/ BP!Apart(a, SizeForOrder[k], b, SizeForOrder[l])
    BY <1>2, SameOperators DEF BP!FreeApart
  <2> QED BY <1>1, <2>1, SameOperators
<1>4. \A k \in Orders : \A a \in Listed(k), h \in held :
        Apart(a, SizeForOrder[k], h.addr, SizeForOrder[GetOrder(h.size)])
  <2>1. \A k \in Orders : \A a \in free_list[k], h \in held :
          BP!Apart(a, SizeForOrder[k], h.addr, SizeForOrder[BP!GetOrder(h.size)])
    BY <1>2, SameOperators DEF BP!FreeHeldApart, BP!BlockLength
  <2> QED BY <1>1, <2>1, SameOperators
<1>5. ASSUME pc \in {"split", "merge"}, NEW k \in Orders, NEW a \in Listed(k)
      PROVE  Apart(a, SizeForOrder[k], block, SizeForOrder[order])
  BY <1>1, <1>2, <1>5, SameOperators DEF BP!HandApart, BP!InHand
<1>6. ASSUME pc = "carve", NEW k \in Orders, NEW a \in Listed(k)
      PROVE  Apart(a, SizeForOrder[k], current, remaining)
  BY <1>1, <1>2, <1>6, SameOperators DEF BP!CarveApart, BP!Booting
<1>7. ASSUME pc = "count", NEW k \in Orders PROVE Listed(k) = {}
  BY <1>1, <1>2, <1>7, SameOperators DEF BP!CarveApart, BP!Booting
<1> QED BY <1>3, <1>4, <1>5, <1>6, <1>7

\* No block is longer than one of the largest order.
LEMMA LargestSize ==
  \A k \in Orders : SizeForOrder[k] \in Nat \ {0} /\ SizeForOrder[k] <= SizeForOrder[MaxOrder]
<1> TAKE k \in Orders
<1>1. k \in BP!Orders /\ MaxOrder \in BP!Orders /\ k <= MaxOrder /\ MaxOrder \in Orders
  BY MaxOrderAssumption, SameOperators DEF Orders
<1>2. \E c \in Nat \ {0} : SizeForOrder[MaxOrder] = c * SizeForOrder[k]
  BY <1>1, BuddyAssumptions, BP!SizesNest
<1>3. PICK c \in Nat \ {0} : SizeForOrder[MaxOrder] = c * SizeForOrder[k]
  BY <1>2
<1>4. SizeForOrder[k] \in Nat \ {0}
  BY SizeAssumption
<1>5. 1 * SizeForOrder[k] <= c * SizeForOrder[k]
  BY <1>4, Larger
<1> QED BY <1>3, <1>4, <1>5

-----------------------------------------------------------------------------
\* A block within the memory there is, and above its own buddy: so that no address
\* in use, and no buddy of one, is nullptr.
Fit(a, n) == SizeForOrder[MaxOrder] < a /\ a + n <= Top

Placed ==
  /\ \A k \in Orders : \A a \in Listed(k) : Fit(a, SizeForOrder[k])
  /\ \A h \in held : Fit(h.addr, SizeForOrder[GetOrder(h.size)])
  /\ pc \in {"split", "merge"} => Fit(block, SizeForOrder[order])
  /\ pc = "carve" => Fit(current, remaining)

\* buddy_free's walk stands on its list, and has the buddy before it, if the buddy
\* is there at all.
WalkOK ==
  pc = "merge" =>
    /\ cur.kind = "next" => cur.page \in free_list[order]
    /\ \E R : /\ Names(Target, next, R)
              /\ GetBuddy(block, order) \in free_list[order] => GetBuddy(block, order) \in R

\* What is known of the words in memory between two steps.
LinkInv == LinkTypes /\ Lists /\ WalkOK /\ Placed

\* Such a block's address is a page's.
LEMMA FitsFrame ==
  ASSUME NEW a \in Int, NEW n \in Nat \ {0}, Fit(a, n)
  PROVE  a \in Frames
<1>1. SizeForOrder[MaxOrder] \in Nat /\ Top \in Nat
  BY SizeAssumption, MaxOrderAssumption, TopAssumption DEF Orders
<1> QED BY <1>1 DEF Fit, Frames, Addrs, nullptr

\* A step that changes no list, nor anything a list is about.
LEMMA LinksRest ==
  ASSUME LinkInv, head' = head, next' = next, block' \in Addrs,
         cur' \in [kind : {"head", "next"}, page : Addrs]
  PROVE  /\ LinkTypes' /\ Lists' /\ free_list' = free_list
         /\ \A k \in Orders : Listed(k)' = Listed(k)
<1>1. next' \in [Addrs -> Addrs] /\ LinkTypes'
  BY DEF LinkInv, LinkTypes
<1>2. Lists' /\ \A k \in Orders : Listed(k)' = Listed(k)
  BY <1>1, ListsKept DEF LinkInv
<1>3. free_list' = free_list
  BY <1>2 DEF free_list
<1> QED BY <1>1, <1>2, <1>3

\* buddy_init's passes over the map, outside of carving.
LEMMA InitStep ==
  ASSUME LinkInv, BuddyOK, CountEntry \/ SkipEntry \/ StartEntry \/ EndEntry \/ InitDone
  PROVE  /\ LinkInv'
         /\ BP!CountEntry \/ BP!SkipEntry \/ BP!StartEntry \/ BP!EndEntry \/ BP!InitDone
<1> USE DEF counters, initvars, BP!counters, BP!initvars, BP!callvars
<1>1. /\ head' = head /\ next' = next /\ cur' = cur /\ block' = block /\ held' = held
      /\ order' = order /\ size' = size /\ pc' \notin {"split", "merge"}
  BY DEF CountEntry, SkipEntry, StartEntry, EndEntry, InitDone
<1>2. /\ LinkTypes' /\ Lists' /\ free_list' = free_list
      /\ \A k \in Orders : Listed(k)' = Listed(k)
  BY <1>1, LinksRest DEF LinkInv, LinkTypes
<1>3. WalkOK'
  BY <1>1 DEF WalkOK
<1>4. pc' = "carve" => Fit(current, remaining)'
  <2>1. CASE StartEntry
    <3>1. i \in 1 .. Len(mmap) /\ mmap[i].type = Usable
      <4>1. i \in Nat \ {0} /\ mmap \in MemoryMaps
        BY BuddyTypes
      <4>2. Len(mmap) \in Nat
        <5>1. BP!ValidMap(mmap)
          BY <4>1, BuddyAssumptions
        <5> QED BY <5>1 DEF BP!ValidMap
      <4> QED BY <2>1, <4>1, <4>2 DEF StartEntry
    <3>2. i \in DOMAIN mmap /\ mmap \in MemoryMaps
      <4>1. BP!ValidMap(mmap) /\ mmap \in MemoryMaps
        BY BuddyTypes, BuddyAssumptions
      <4> QED BY <3>1, <4>1 DEF BP!ValidMap
    <3>3. mmap[i].base + mmap[i].length <= Top /\ mmap[i].base > SizeForOrder[MaxOrder]
      BY <3>1, <3>2, FitsMemory
    <3>4. mmap[i].base \in Nat /\ SizeForOrder[MaxOrder] \in Nat
      <4>1. BP!TypeOK
        BY DEF BuddyOK, BP!CallInv
      <4>2. mmap[i].base \in Nat
        BY <3>2, <4>1, BuddyAssumptions, BP!MapType
      <4> QED BY <4>2, MaxOrderAssumption, SizeAssumption DEF Orders
    <3> QED BY <2>1, <3>3, <3>4 DEF StartEntry, Fit
  <2>2. CASE ~ StartEntry
    BY <2>2 DEF CountEntry, SkipEntry, EndEntry, InitDone
  <2> QED BY <2>1, <2>2
<1>5. Placed'
  BY <1>1, <1>2, <1>4 DEF LinkInv, Placed, Fit
<1>6. BP!CountEntry \/ BP!SkipEntry \/ BP!StartEntry \/ BP!EndEntry \/ BP!InitDone
  BY <1>2 DEF CountEntry, SkipEntry, StartEntry, EndEntry, InitDone, Usable, BP!Usable,
       BP!CountEntry, BP!SkipEntry, BP!StartEntry, BP!EndEntry, BP!InitDone
<1> QED BY <1>2, <1>3, <1>5, <1>6 DEF LinkInv

\* The lists are emptied before the second pass.
LEMMA CountDoneStep ==
  ASSUME LinkInv, BuddyOK, CountDone
  PROVE  LinkInv' /\ BP!CountDone
<1> USE DEF counters, BP!counters, BP!callvars
<1>1. /\ head' = [k \in Orders |-> nullptr] /\ next' = next /\ cur' = cur /\ block' = block
      /\ held' = held /\ pc' = "region"
  BY DEF CountDone
<1>2. next' \in [Addrs -> Addrs] /\ nullptr \in Addrs
  BY <1>1, TopAssumption DEF LinkInv, LinkTypes, nullptr, Addrs
<1>3. Lists' /\ \A k \in Orders : Listed(k)' = {}
  BY <1>1, <1>2, ListsEmptied
<1>4. free_list' = [k \in Orders |-> {}]
  BY <1>3 DEF free_list
<1>5. LinkTypes'
  BY <1>1, <1>2 DEF LinkInv, LinkTypes
<1>6. WalkOK' /\ Placed'
  BY <1>1, <1>3 DEF LinkInv, WalkOK, Placed, Fit
<1>7. BP!CountDone
  BY <1>4, SameOperators DEF CountDone, BP!CountDone
<1> QED BY <1>3, <1>5, <1>6, <1>7 DEF LinkInv

\* buddy_init pushes a block it has carved.
LEMMA CarveStep ==
  ASSUME LinkInv, BuddyOK, CarveBlock
  PROVE  LinkInv' /\ BP!CarveBlock
<1> USE DEF initvars, BP!callvars
<1>0. current \in Nat /\ remaining \in Nat /\ CarveOrder \in Orders /\ Fits(CarveOrder)
  <2>1. current \in Nat /\ remaining \in Nat /\ remaining >= 1
    BY BuddyTypes DEF CarveBlock
  <2>2. BP!CarveOrder \in BP!Orders /\ BP!Fits(BP!CarveOrder)
    BY <2>1, BuddyAssumptions, BP!CarveOrderType
  <2> QED BY <2>1, <2>2, SameOperators DEF BP!Fits, Fits
<1>1. PICK l \in Orders, a \in Nat, n \in Nat, r \in Nat :
        l = CarveOrder /\ a = current /\ n = SizeForOrder[l] /\ r = remaining
  BY <1>0, SizeAssumption
<1>2. /\ pc = "carve" /\ pc' = pc /\ r >= 1 /\ Push(a, l)
      /\ current' = a + n /\ remaining' = r - n
      /\ cur' = cur /\ block' = block /\ held' = held
      /\ n <= r /\ n # 0
  BY <1>0, <1>1, SizeAssumption DEF CarveBlock, Fits
<1>3. Fit(a, r) /\ SizeForOrder[MaxOrder] \in Nat /\ Top \in Nat
  BY <1>1, <1>2, MaxOrderAssumption, SizeAssumption, TopAssumption DEF LinkInv, Placed, Orders
<1>4. a \in Frames
  BY <1>2, <1>3, FitsFrame
<1>5. \A k \in Orders : a \notin Listed(k)
  <2> SUFFICES ASSUME NEW k \in Orders, a \in Listed(k) PROVE FALSE
    OBVIOUS
  <2>1. Apart(a, SizeForOrder[k], a, r)
    BY <1>1, <1>2, BuddyApart
  <2> QED BY <1>2, <2>1, SizeAssumption DEF Apart
<1>6. /\ Lists' /\ head' \in [Orders -> Addrs] /\ next' \in [Addrs -> Addrs]
      /\ Listed(l)' = Listed(l) \cup {a}
      /\ \A k \in Orders : k # l => Listed(k)' = Listed(k)
  BY <1>2, <1>4, <1>5, ListsPushed DEF LinkInv
<1>7. free_list' = [free_list EXCEPT ![l] = @ \cup {a}]
  BY <1>6 DEF free_list
<1>8. Fit(a, n) /\ Fit(a + n, r - n)
  BY <1>2, <1>3 DEF Fit
<1>9. Placed'
  <2>1. \A k \in Orders : \A b \in Listed(k)' : Fit(b, SizeForOrder[k])
    BY <1>1, <1>6, <1>8 DEF LinkInv, Placed
  <2>2. \A h \in held' : Fit(h.addr, SizeForOrder[GetOrder(h.size)])
    BY <1>2 DEF LinkInv, Placed
  <2>3. Fit(current', remaining')
    BY <1>2, <1>8
  <2> QED BY <1>2, <2>1, <2>2, <2>3 DEF Placed, Fit
<1>10. WalkOK' /\ LinkTypes'
  BY <1>2, <1>6 DEF LinkInv, WalkOK, LinkTypes
<1>11. BP!CarveBlock
  BY <1>1, <1>7, SameOperators DEF CarveBlock, BP!CarveBlock
<1> QED BY <1>6, <1>9, <1>10, <1>11 DEF LinkInv

\* The list head a call starts from.
LEMMA HeadLinkType == HeadLink \in [kind : {"head", "next"}, page : Addrs] /\ nullptr \in Addrs
  BY TopAssumption DEF HeadLink, Addrs, nullptr

\* buddy_alloc outside of taking and splitting.
LEMMA SearchStep ==
  ASSUME LinkInv, BuddyOK, SearchNext \/ AllocFail \/ AllocReturn
  PROVE  LinkInv' /\ (BP!SearchNext \/ BP!AllocFail \/ BP!AllocReturn)
<1> USE DEF counters, initvars, BP!counters, BP!initvars, Return, BP!Return
<1>1. head' = head /\ next' = next /\ cur' \in {cur, HeadLink} /\ block' \in {block, nullptr}
  BY DEF SearchNext, AllocFail, AllocReturn
<1>2. cur' \in [kind : {"head", "next"}, page : Addrs] /\ block' \in Addrs
  BY <1>1, HeadLinkType DEF LinkInv, LinkTypes
<1>3. /\ LinkTypes' /\ Lists' /\ free_list' = free_list
      /\ \A k \in Orders : Listed(k)' = Listed(k)
  BY <1>1, <1>2, LinksRest
<1>4. pc' \in {"search", "idle"}
  BY DEF SearchNext, AllocFail, AllocReturn
<1>5. WalkOK'
  BY <1>4 DEF WalkOK
<1>6. \A h \in held' : Fit(h.addr, SizeForOrder[GetOrder(h.size)])
  <2>1. CASE AllocReturn
    <3>1. held' = held \cup {[addr |-> block, size |-> size]} /\ Fit(block, SizeForOrder[GetOrder(size)])
      BY <2>1 DEF AllocReturn, LinkInv, Placed
    <3> QED BY <3>1 DEF LinkInv, Placed
  <2>2. CASE ~ AllocReturn
    BY <2>2 DEF SearchNext, AllocFail, LinkInv, Placed
  <2> QED BY <2>1, <2>2
<1>7. Placed'
  BY <1>3, <1>4, <1>6 DEF LinkInv, Placed, Fit
<1>8. CASE SearchNext
  <2>1. order \in Orders
    BY <1>8, BuddyTypes DEF SearchNext, Orders
  <2>2. Listed(order) = {}
    BY <1>8, <2>1, NamesNone DEF SearchNext, LinkInv, Lists
  <2>3. free_list[order] = {}
    BY <2>1, <2>2 DEF free_list
  <2>4. BP!SearchNext
    BY <1>3, <1>8, <2>3 DEF SearchNext, BP!SearchNext
  <2> QED BY <1>3, <1>5, <1>7, <2>4 DEF LinkInv
<1>9. CASE AllocFail
  <2>1. BP!AllocFail
    BY <1>3, <1>9 DEF AllocFail, BP!AllocFail, nullptr
  <2> QED BY <1>3, <1>5, <1>7, <2>1 DEF LinkInv
<1>10. CASE AllocReturn
  <2>1. BP!AllocReturn
    BY <1>3, <1>10, SameOperators DEF AllocReturn, BP!AllocReturn, nullptr
  <2> QED BY <1>3, <1>5, <1>7, <2>1 DEF LinkInv
<1> QED BY <1>8, <1>9, <1>10

\* buddy_alloc is called.
LEMMA AllocEnterStep ==
  ASSUME LinkInv, BuddyOK, NEW n \in Requests, AllocEnter(n)
  PROVE  LinkInv' /\ BP!AllocEnter(n)
<1> USE DEF counters, initvars, BP!counters, BP!initvars
<1>1. /\ head' = head /\ next' = next /\ cur' = cur /\ block' = block /\ held' = held
      /\ pc' = "search"
  BY DEF AllocEnter
<1>2. /\ LinkTypes' /\ Lists' /\ free_list' = free_list
      /\ \A k \in Orders : Listed(k)' = Listed(k)
  BY <1>1, LinksRest DEF LinkInv, LinkTypes
<1>3. WalkOK' /\ Placed'
  BY <1>1, <1>2 DEF LinkInv, WalkOK, Placed, Fit
<1>4. BP!AllocEnter(n)
  BY <1>2, SameOperators DEF AllocEnter, BP!AllocEnter
<1> QED BY <1>2, <1>3, <1>4 DEF LinkInv

\* buddy_alloc takes the first block of a list.
LEMMA TakeStep ==
  ASSUME LinkInv, BuddyOK, TakeBlock
  PROVE  LinkInv' /\ BP!TakeBlock
<1> USE DEF counters, initvars, BP!counters, BP!initvars
<1>0. order \in Orders /\ head[order] \in Addrs
  BY BuddyTypes DEF TakeBlock, Orders, LinkInv, LinkTypes
<1>1. PICK l \in Orders, a \in Addrs : l = order /\ a = head[l]
  BY <1>0
<1>2. /\ a # nullptr /\ head' = [head EXCEPT ![l] = next[a]] /\ next' = next
      /\ block' = a /\ order' = l /\ cur' = cur /\ held' = held /\ pc' = "split"
  BY <1>1 DEF TakeBlock
<1>3. /\ Lists' /\ head' \in [Orders -> Addrs]
      /\ a \in Listed(l) /\ Listed(l)' = Listed(l) \ {a}
      /\ \A k \in Orders : k # l => Listed(k)' = Listed(k)
  BY <1>1, <1>2, ListsPopped DEF LinkInv
<1>4. free_list' = [free_list EXCEPT ![l] = @ \ {a}] /\ a \in free_list[l]
  BY <1>3 DEF free_list
<1>5. WalkOK' /\ LinkTypes'
  BY <1>2, <1>3 DEF LinkInv, WalkOK, LinkTypes
<1>6. Placed'
  <2>1. \A k \in Orders : \A b \in Listed(k)' : Fit(b, SizeForOrder[k])
    BY <1>3 DEF LinkInv, Placed
  <2>2. Fit(block', SizeForOrder[order'])
    BY <1>2, <1>3 DEF LinkInv, Placed
  <2>3. \A h \in held' : Fit(h.addr, SizeForOrder[GetOrder(h.size)])
    BY <1>2 DEF LinkInv, Placed
  <2> QED BY <1>2, <2>1, <2>2, <2>3 DEF Placed, Fit
<1>7. BP!TakeBlock
  BY <1>1, <1>2, <1>4 DEF TakeBlock, BP!TakeBlock
<1> QED BY <1>3, <1>5, <1>6, <1>7 DEF LinkInv

\* buddy_alloc pushes the upper half of a block.
LEMMA SplitStep ==
  ASSUME LinkInv, BuddyOK, SplitBlock
  PROVE  LinkInv' /\ BP!SplitBlock
<1> USE DEF counters, initvars, BP!counters, BP!initvars
<1>0. order \in Orders /\ order - 1 \in Orders /\ block \in Nat
  <2>1. order \in Orders /\ block \in Nat /\ size \in Nat
    BY BuddyTypes DEF SplitBlock
  <2>2. BP!GetOrder(size) \in 0 .. (MaxOrder + 1)
    BY <2>1, BuddyAssumptions, BP!GetOrderType
  <2>3. GetOrder(size) \in Nat
    BY <2>2, SameOperators, MaxOrderAssumption
  <2> QED BY <2>1, <2>3, MaxOrderAssumption DEF SplitBlock, Orders
<1>1. PICK l \in Orders, a \in Nat, n \in Nat \ {0} :
        l = order - 1 /\ n = SizeForOrder[l] /\ a = block + n
  BY <1>0, SizeAssumption
<1>2. /\ Push(a, l) /\ order' = l /\ block' = block /\ cur' = cur /\ held' = held
      /\ pc = "split" /\ pc' = "split"
  BY <1>1 DEF SplitBlock
<1>3. /\ SizeForOrder[order] = 2 * n /\ SizeForOrder[MaxOrder] \in Nat /\ Top \in Nat
      /\ Fit(block, 2 * n)
  <2>1. l + 1 = order /\ l + 1 \in Orders
    BY <1>0, <1>1 DEF Orders
  <2> QED BY <1>1, <1>2, <2>1, MaxOrderAssumption, SizeAssumption, TopAssumption
          DEF LinkInv, Placed, Orders
<1>4. Fit(a, n) /\ Fit(block, n) /\ a \in Frames
  <2>1. Fit(a, n) /\ Fit(block, n)
    BY <1>0, <1>1, <1>3 DEF Fit
  <2> QED BY <1>1, <2>1, FitsFrame
<1>5. \A k \in Orders : a \notin Listed(k)
  <2> SUFFICES ASSUME NEW k \in Orders, a \in Listed(k) PROVE FALSE
    OBVIOUS
  <2>1. Apart(a, SizeForOrder[k], block, 2 * n)
    BY <1>2, <1>3, BuddyApart
  <2> QED BY <1>0, <1>1, <2>1, SizeAssumption DEF Apart
<1>6. /\ Lists' /\ head' \in [Orders -> Addrs] /\ next' \in [Addrs -> Addrs]
      /\ Listed(l)' = Listed(l) \cup {a}
      /\ \A k \in Orders : k # l => Listed(k)' = Listed(k)
  BY <1>2, <1>4, <1>5, ListsPushed DEF LinkInv
<1>7. free_list' = [free_list EXCEPT ![l] = @ \cup {a}]
  BY <1>6 DEF free_list
<1>8. WalkOK' /\ LinkTypes'
  BY <1>2, <1>6 DEF LinkInv, WalkOK, LinkTypes
<1>9. Placed'
  <2>1. \A k \in Orders : \A b \in Listed(k)' : Fit(b, SizeForOrder[k])
    BY <1>1, <1>4, <1>6 DEF LinkInv, Placed
  <2>2. Fit(block', SizeForOrder[order'])
    BY <1>1, <1>2, <1>4
  <2>3. \A h \in held' : Fit(h.addr, SizeForOrder[GetOrder(h.size)])
    BY <1>2 DEF LinkInv, Placed
  <2> QED BY <1>2, <2>1, <2>2, <2>3 DEF Placed, Fit
<1>10. BP!SplitBlock
  BY <1>1, <1>7, SameOperators DEF SplitBlock, BP!SplitBlock
<1> QED BY <1>6, <1>8, <1>9, <1>10 DEF LinkInv

\* A caller overwrites the words of its own pages, and no link.
LEMMA CallerStep ==
  ASSUME LinkInv, BuddyOK, NEW h \in held, NEW g \in Garbage, CallerWrites(h, g)
  PROVE  LinkInv' /\ UNCHANGED BP!vars
<1> USE DEF counters, initvars, BP!counters, BP!initvars, BP!callvars
<1>1. /\ next' = [a \in Addrs |->
                    IF a \in h.addr .. (h.addr + SizeForOrder[GetOrder(h.size)] - 1)
                      THEN g ELSE next[a]]
      /\ head' = head /\ cur' = cur /\ block' = block /\ held' = held /\ pc' = "idle"
      /\ order' = order /\ current' = current /\ remaining' = remaining
  BY DEF CallerWrites
<1>2. next' \in [Addrs -> Addrs]
  BY <1>1, TopAssumption DEF LinkInv, LinkTypes
<1>3. ASSUME NEW k \in Orders, NEW a \in Listed(k) PROVE next'[a] = next[a]
  <2>1. Apart(a, SizeForOrder[k], h.addr, SizeForOrder[GetOrder(h.size)])
    BY BuddyApart
  <2>2. a \in Addrs /\ a \in Nat
    BY NamesNone, TopAssumption DEF LinkInv, Lists, Frames, Addrs
  <2>3. h.addr \in Nat /\ SizeForOrder[GetOrder(h.size)] \in Nat /\ SizeForOrder[k] \in Nat \ {0}
    BY BuddyTypes, SizeAssumption
  <2>4. a \notin h.addr .. (h.addr + SizeForOrder[GetOrder(h.size)] - 1)
    BY <2>1, <2>2, <2>3 DEF Apart
  <2> QED BY <1>1, <2>2, <2>4
<1>4. Lists' /\ \A k \in Orders : Listed(k)' = Listed(k)
  BY <1>1, <1>2, <1>3, ListsKept DEF LinkInv
<1>5. free_list' = free_list
  BY <1>4 DEF free_list
<1>6. LinkTypes' /\ WalkOK' /\ Placed'
  BY <1>1, <1>2, <1>4 DEF LinkInv, LinkTypes, WalkOK, Placed, Fit
<1>7. UNCHANGED BP!vars
  BY <1>5 DEF CallerWrites, BP!vars
<1> QED BY <1>4, <1>6, <1>7 DEF LinkInv

\* buddy_free is called: its walk starts at the head of the block's own list.
LEMMA FreeEnterStep ==
  ASSUME LinkInv, BuddyOK, NEW h \in held, FreeEnter(h)
  PROVE  LinkInv' /\ BP!FreeEnter(h)
<1> USE DEF counters, initvars, BP!counters, BP!initvars
<1>0. GetOrder(h.size) \in Orders /\ h.addr \in Nat /\ Fit(h.addr, SizeForOrder[GetOrder(h.size)])
  BY BuddyTypes DEF LinkInv, Placed
<1>1. PICK l \in Orders : l = GetOrder(h.size)
  BY <1>0
<1>2. /\ head' = head /\ next' = next /\ cur' = HeadLink /\ block' = h.addr /\ order' = l
      /\ held' = held \ {h} /\ pc' = "merge"
  BY <1>1 DEF FreeEnter
<1>3. h.addr \in Frames
  BY <1>0, <1>1, FitsFrame, SizeAssumption
<1>4. /\ LinkTypes' /\ Lists' /\ free_list' = free_list
      /\ \A k \in Orders : Listed(k)' = Listed(k)
  BY <1>2, <1>3, HeadLinkType, LinksRest DEF Frames
<1>5. WalkOK'
  <2>1. Names(head[l], next, Listed(l)) /\ free_list[l] = Listed(l)
    BY DEF LinkInv, Lists, free_list
  <2> QED BY <1>2, <1>4, <2>1 DEF WalkOK, Target, HeadLink
<1>6. Placed'
  <2>1. \A k \in Orders : \A b \in Listed(k)' : Fit(b, SizeForOrder[k])
    BY <1>4 DEF LinkInv, Placed
  <2>2. \A g \in held' : Fit(g.addr, SizeForOrder[GetOrder(g.size)])
    BY <1>2 DEF LinkInv, Placed
  <2>3. Fit(block', SizeForOrder[order'])
    BY <1>0, <1>1, <1>2
  <2> QED BY <1>2, <2>1, <2>2, <2>3 DEF Placed, Fit
<1>7. BP!FreeEnter(h)
  BY <1>4, SameOperators DEF FreeEnter, BP!FreeEnter
<1> QED BY <1>4, <1>5, <1>6, <1>7 DEF LinkInv

\* What the walk looks at, if it is anything, is a block of its list.
LEMMA TargetListed ==
  ASSUME LinkInv, BuddyOK, pc = "merge", Target # nullptr
  PROVE  Target \in free_list[order] /\ Target \in Frames
<1>0. order \in Orders
  BY BuddyTypes
<1>1. PICK l \in Orders : l = order
  BY <1>0
<1>2. Names(head[l], next, Listed(l)) /\ free_list[l] = Listed(l) /\ next \in [Addrs -> Addrs]
  BY DEF LinkInv, Lists, LinkTypes, free_list
<1>3. Listed(l) \subseteq Frames
  BY <1>2, NamesNone
<1>4. CASE cur.kind = "head"
  <2>1. Target = head[l]
    BY <1>1, <1>4 DEF Target
  <2>2. head[l] \in Listed(l)
    BY <1>2, <2>1, NamesPop
  <2> QED BY <1>1, <1>2, <1>3, <2>1, <2>2
<1>5. CASE cur.kind # "head"
  <2>1. cur.kind = "next" /\ Target = next[cur.page]
    BY <1>5 DEF LinkInv, LinkTypes, Target
  <2>2. cur.page \in Listed(l)
    BY <1>1, <1>2, <2>1 DEF LinkInv, WalkOK
  <2>3. PICK p \in Listed(l) : p = cur.page
    BY <2>2
  <2>4. next[p] # nullptr
    BY <2>1, <2>3
  <2>5. next[p] \in Listed(l)
    BY <1>2, <2>4, NamesUnlink
  <2> QED BY <1>1, <1>2, <1>3, <2>1, <2>3, <2>5
<1> QED BY <1>4, <1>5

\* One step of buddy_free's walk.
LEMMA WalkStep ==
  ASSUME LinkInv, BuddyOK, Walk
  PROVE  LinkInv' /\ UNCHANGED BP!vars
<1> USE DEF counters, initvars, BP!counters, BP!initvars, BP!callvars
<1>0. order \in Orders /\ Target \in free_list[order] /\ Target \in Frames
  BY BuddyTypes, TargetListed DEF Walk
<1>1. PICK l \in Orders, t \in Frames : l = order /\ t = Target
  BY <1>0
<1>2. /\ head' = head /\ next' = next /\ cur' = NextLink(t) /\ block' = block /\ order' = order
      /\ held' = held /\ pc = "merge" /\ pc' = "merge"
      /\ t # nullptr /\ t # GetBuddy(block, order) /\ t \in free_list[l]
  BY <1>0, <1>1 DEF Walk
<1>3. cur' \in [kind : {"head", "next"}, page : Addrs] /\ block' \in Addrs
  BY <1>2 DEF NextLink, LinkInv, LinkTypes, Frames
<1>4. /\ LinkTypes' /\ Lists' /\ free_list' = free_list
      /\ \A k \in Orders : Listed(k)' = Listed(k)
  BY <1>2, <1>3, LinksRest
<1>5. WalkOK'
  <2>1. PICK R : /\ Names(Target, next, R)
                 /\ GetBuddy(block, order) \in free_list[order] => GetBuddy(block, order) \in R
    BY <1>2 DEF LinkInv, WalkOK
  <2>2. Names(t, next, R)
    BY <1>1, <2>1
  <2>3. Names(next[t], next, R \ {t})
    BY <1>2, <2>2, NamesPop
  <2>4. PICK b : b = GetBuddy(block, order)
    OBVIOUS
  <2>5. b \in free_list[l] => b \in R \ {t}
    BY <1>1, <1>2, <2>1, <2>4
  <2>6. Target' = next[t] /\ GetBuddy(block, order)' = b
    BY <1>2, <2>4 DEF Target, NextLink, GetBuddy
  <2>7. cur'.page \in free_list'[order']
    BY <1>1, <1>2, <1>4 DEF NextLink
  <2>8. \E S : Names(Target', next', S) /\ (b \in free_list'[order'] => b \in S)
    BY <1>1, <1>2, <1>4, <2>3, <2>5, <2>6
  <2> QED BY <2>6, <2>7, <2>8 DEF WalkOK
<1>6. Placed'
  BY <1>2, <1>4 DEF LinkInv, Placed, Fit
<1>7. UNCHANGED BP!vars
  BY <1>4 DEF Walk, BP!vars
<1> QED BY <1>4, <1>5, <1>6, <1>7 DEF LinkInv

\* buddy_free takes its block's buddy off the list and goes up an order.
LEMMA MergeStep ==
  ASSUME LinkInv, BuddyOK, MergeBuddy
  PROVE  LinkInv' /\ BP!MergeBuddy
<1> USE DEF counters, initvars, BP!counters, BP!initvars
<1>0. order \in Orders /\ order + 1 \in Orders /\ block \in Nat
  BY BuddyTypes, MaxOrderAssumption DEF MergeBuddy, Orders
<1>1. PICK l \in Orders, m \in Orders, a \in Nat, n \in Nat \ {0}, b \in Int :
        l = order /\ m = l + 1 /\ a = block /\ n = SizeForOrder[l] /\ b = GetBuddy(block, order)
  <2>1. SizeForOrder[order] \in Nat \ {0}
    BY <1>0, SizeAssumption
  <2>2. GetBuddy(block, order) \in Int
    BY <1>0, <2>1 DEF GetBuddy
  <2> QED BY <1>0, <2>1, <2>2
<1>2. /\ Target = b /\ SetTarget(next[b]) /\ block' = Lower(a, b) /\ order' = m
      /\ cur' = HeadLink /\ held' = held /\ pc = "merge" /\ pc' = "merge"
  BY <1>1 DEF MergeBuddy
<1>3. b = a + n \/ b = a - n
  BY <1>1 DEF GetBuddy
<1>4. /\ SizeForOrder[m] = 2 * n /\ SizeForOrder[MaxOrder] \in Nat /\ n <= SizeForOrder[MaxOrder]
      /\ Top \in Nat /\ Fit(a, n)
  BY <1>1, <1>2, LargestSize, SizeAssumption, MaxOrderAssumption, TopAssumption
  DEF LinkInv, Placed, Orders
<1>5. b # nullptr
  BY <1>3, <1>4 DEF Fit, nullptr
<1>6. b \in Listed(l) /\ b \in Frames
  BY <1>1, <1>2, <1>5, TargetListed DEF free_list
<1>7. Fit(b, n)
  BY <1>1, <1>6 DEF LinkInv, Placed
<1>8. Fit(Lower(a, b), 2 * n) /\ Lower(a, b) \in Addrs
  <2>1. Fit(Lower(a, b), 2 * n)
    BY <1>3, <1>4, <1>7 DEF Fit, Lower
  <2>2. Lower(a, b) \in Int /\ 2 * n \in Nat \ {0}
    BY DEF Lower
  <2> QED BY <2>1, <2>2, FitsFrame DEF Frames
<1>9. /\ Lists' /\ head' \in [Orders -> Addrs] /\ next' \in [Addrs -> Addrs]
      /\ Listed(l)' = Listed(l) \ {b}
      /\ \A k \in Orders : k # l => Listed(k)' = Listed(k)
  <2>1. CASE cur.kind = "head"
    <3>1. b = head[l] /\ head' = [head EXCEPT ![l] = next[head[l]]] /\ next' = next
      BY <1>1, <1>2, <2>1 DEF Target, SetTarget
    <3>2. next' \in [Addrs -> Addrs]
      BY <3>1 DEF LinkInv, LinkTypes
    <3> QED BY <1>5, <3>1, <3>2, ListsPopped DEF LinkInv
  <2>2. CASE cur.kind # "head"
    <3>1. cur.kind = "next" /\ b = next[cur.page]
      BY <1>2, <2>2 DEF LinkInv, LinkTypes, Target
    <3>2. cur.page \in Listed(l)
      BY <1>1, <1>2, <3>1 DEF LinkInv, WalkOK, free_list
    <3>3. PICK p \in Listed(l) : p = cur.page
      BY <3>2
    <3>4. b = next[p] /\ next' = [next EXCEPT ![p] = next[next[p]]] /\ head' = head
      BY <1>2, <2>2, <3>1, <3>3 DEF SetTarget
    <3>5. ASSUME NEW k \in Orders, k # l, p \in Listed(k) PROVE FALSE
      <4>1. Apart(p, SizeForOrder[k], p, SizeForOrder[l])
        BY <3>5, BuddyApart
      <4>2. p \in Nat
        BY NamesNone, TopAssumption DEF LinkInv, Lists, Frames, Addrs
      <4> QED BY <4>1, <4>2, SizeAssumption DEF Apart
    <3>6. head' \in [Orders -> Addrs]
      BY <3>4 DEF LinkInv, LinkTypes
    <3> QED BY <1>5, <3>4, <3>5, <3>6, ListsUnlinked DEF LinkInv
  <2> QED BY <2>1, <2>2
<1>10. LinkTypes'
  BY <1>2, <1>8, <1>9, HeadLinkType DEF LinkTypes
<1>11. WalkOK'
  <2>1. Names(head'[m], next', Listed(m)') /\ free_list'[m] = Listed(m)'
    BY <1>9 DEF Lists, free_list
  <2> QED BY <1>2, <2>1 DEF WalkOK, Target, HeadLink
<1>12. Placed'
  <2>1. \A k \in Orders : \A c \in Listed(k)' : Fit(c, SizeForOrder[k])
    BY <1>9 DEF LinkInv, Placed
  <2>2. \A h \in held' : Fit(h.addr, SizeForOrder[GetOrder(h.size)])
    BY <1>2 DEF LinkInv, Placed
  <2>3. Fit(block', SizeForOrder[order'])
    BY <1>2, <1>4, <1>8
  <2> QED BY <1>2, <2>1, <2>2, <2>3 DEF Placed, Fit
<1>13. free_list' = [free_list EXCEPT ![l] = @ \ {b}] /\ b \in free_list[l]
  BY <1>6, <1>9 DEF free_list
<1>14. BP!MergeBuddy
  BY <1>1, <1>13, SameOperators DEF MergeBuddy, BP!MergeBuddy
<1> QED BY <1>9, <1>10, <1>11, <1>12, <1>14 DEF LinkInv

\* buddy_free pushes the block it is left with.
LEMMA InsertStep ==
  ASSUME LinkInv, BuddyOK, InsertBlock
  PROVE  LinkInv' /\ BP!InsertBlock
<1> USE DEF counters, initvars, BP!counters, BP!initvars
<1>0. order \in Orders /\ block \in Nat
  BY BuddyTypes DEF InsertBlock
<1>1. PICK l \in Orders, a \in Nat, n \in Nat \ {0} :
        l = order /\ a = block /\ n = SizeForOrder[l]
  BY <1>0, SizeAssumption
<1>2. /\ Push(a, l) /\ block' = nullptr /\ cur' = HeadLink /\ held' = held
      /\ pc = "merge" /\ pc' = "idle" /\ (order = MaxOrder \/ Target = nullptr)
  BY <1>1 DEF InsertBlock, Return
<1>3. Fit(a, n)
  BY <1>1, <1>2 DEF LinkInv, Placed
<1>4. a \in Frames
  BY <1>3, FitsFrame
<1>5. \A k \in Orders : a \notin Listed(k)
  <2> SUFFICES ASSUME NEW k \in Orders, a \in Listed(k) PROVE FALSE
    OBVIOUS
  <2>1. Apart(a, SizeForOrder[k], a, n)
    BY <1>1, <1>2, BuddyApart
  <2> QED BY <2>1, SizeAssumption DEF Apart
<1>6. /\ Lists' /\ head' \in [Orders -> Addrs] /\ next' \in [Addrs -> Addrs]
      /\ Listed(l)' = Listed(l) \cup {a}
      /\ \A k \in Orders : k # l => Listed(k)' = Listed(k)
  BY <1>2, <1>4, <1>5, ListsPushed DEF LinkInv
<1>7. free_list' = [free_list EXCEPT ![l] = @ \cup {a}]
  BY <1>6 DEF free_list
<1>8. WalkOK' /\ LinkTypes'
  BY <1>2, <1>6, HeadLinkType DEF WalkOK, LinkTypes
<1>9. Placed'
  <2>1. \A k \in Orders : \A b \in Listed(k)' : Fit(b, SizeForOrder[k])
    BY <1>1, <1>3, <1>6 DEF LinkInv, Placed
  <2>2. \A h \in held' : Fit(h.addr, SizeForOrder[GetOrder(h.size)])
    BY <1>2 DEF LinkInv, Placed
  <2> QED BY <1>2, <2>1, <2>2 DEF Placed, Fit
<1>10. order = MaxOrder \/ GetBuddy(block, order) \notin free_list[order]
  <2>1. PICK R : /\ Names(Target, next, R)
                 /\ GetBuddy(block, order) \in free_list[order] => GetBuddy(block, order) \in R
    BY <1>2 DEF LinkInv, WalkOK
  <2>2. Target = nullptr => R = {}
    BY <2>1, NamesNone
  <2> QED BY <1>2, <2>1, <2>2
<1>11. BP!InsertBlock
  BY <1>1, <1>7, <1>10, SameOperators DEF InsertBlock, BP!InsertBlock, Return, BP!Return, nullptr
<1> QED BY <1>6, <1>8, <1>9, <1>11 DEF LinkInv

\* Every step keeps the words in memory in order, and is one of Buddy's or none.
LEMMA LinkStep ==
  ASSUME LinkInv, BuddyOK, [Next]_vars
  PROVE  LinkInv' /\ [BP!Next]_(BP!vars)
<1> USE DEF BP!Next, BP!Advance, BP!BuddyInit
<1>1. CASE CountEntry \/ SkipEntry \/ StartEntry \/ EndEntry \/ InitDone
  BY <1>1, InitStep
<1>2. CASE CountDone
  BY <1>2, CountDoneStep
<1>3. CASE CarveBlock
  BY <1>3, CarveStep
<1>4. CASE SearchNext \/ AllocFail \/ AllocReturn
  BY <1>4, SearchStep
<1>5. CASE TakeBlock
  BY <1>5, TakeStep
<1>6. CASE SplitBlock
  BY <1>6, SplitStep
<1>7. CASE Walk
  BY <1>7, WalkStep
<1>8. CASE MergeBuddy
  BY <1>8, MergeStep
<1>9. CASE InsertBlock
  BY <1>9, InsertStep
<1>10. ASSUME NEW n \in Requests, AllocEnter(n) PROVE LinkInv' /\ [BP!Next]_(BP!vars)
  BY <1>10, AllocEnterStep
<1>11. ASSUME NEW h \in held, FreeEnter(h) PROVE LinkInv' /\ [BP!Next]_(BP!vars)
  BY <1>11, FreeEnterStep
<1>12. ASSUME NEW h \in held, NEW g \in Garbage, CallerWrites(h, g)
       PROVE  LinkInv' /\ [BP!Next]_(BP!vars)
  BY <1>12, CallerStep
<1>13. CASE UNCHANGED vars
  <2>1. /\ UNCHANGED <<mmap, head, next, total_physical_pages, buddy_used_pages,
                       buddy_total_managed_pages, pc, i, current, remaining, size, block,
                       order, cur, held>>
    BY <1>13 DEF vars, counters, initvars
  <2>2. /\ LinkTypes' /\ Lists' /\ free_list' = free_list
        /\ \A k \in Orders : Listed(k)' = Listed(k)
    BY <2>1, LinksRest DEF LinkInv, LinkTypes
  <2>3. WalkOK'
    BY <2>1, <2>2 DEF LinkInv, WalkOK, Target, GetBuddy
  <2>4. Placed'
    BY <2>1, <2>2 DEF LinkInv, Placed, Fit
  <2>5. UNCHANGED BP!vars
    BY <2>1, <2>2 DEF BP!vars, BP!counters, BP!initvars, BP!callvars
  <2> QED BY <2>2, <2>3, <2>4, <2>5 DEF LinkInv
<1> QED
  BY <1>1, <1>2, <1>3, <1>4, <1>5, <1>6, <1>7, <1>8, <1>9, <1>10, <1>11, <1>12, <1>13
  DEF Next, Advance

\* Buddy's invariants go on with it.
LEMMA LinkedStep ==
  ASSUME LinkInv, BuddyOK, [Next]_vars
  PROVE  LinkInv' /\ BuddyOK' /\ [BP!Next]_(BP!vars)
<1>1. LinkInv' /\ [BP!Next]_(BP!vars)
  BY LinkStep
<1>2. BP!CallInv /\ BP!OverlapInv
  BY DEF BuddyOK
<1>3. BP!CallInv'
  BY <1>1, <1>2, BuddyAssumptions, BP!CallInvStep
<1>4. BP!OverlapInv'
  BY <1>1, <1>2, <1>3, BuddyAssumptions, BP!OverlapStep
<1> QED BY <1>1, <1>3, <1>4 DEF BuddyOK

\* Before buddy_init there are only empty lists.
LEMMA LinkedInit == Init => LinkInv /\ BuddyOK /\ BP!Init
<1> SUFFICES ASSUME Init PROVE LinkInv /\ BuddyOK /\ BP!Init
  OBVIOUS
<1>1. LinkTypes
  <2>1. next \in [Addrs -> Addrs]
    BY TopAssumption DEF Init
  <2> QED BY <2>1, HeadLinkType DEF Init, LinkTypes
<1>2. \A k \in Orders : Names(head[k], next, {}) /\ Listed(k) = {}
  BY <1>1, NamesNone, ListedIs DEF Init, LinkTypes
<1>3. Lists
  BY <1>2 DEF Lists
<1>4. WalkOK /\ Placed
  BY <1>2 DEF Init, WalkOK, Placed
<1>5. BP!Init
  <2>1. free_list = [k \in BP!Orders |-> {}]
    BY <1>2, SameOperators DEF free_list
  <2> QED BY <2>1 DEF Init, BP!Init, nullptr
<1>6. BP!CallInv
  BY <1>5, BuddyAssumptions, BP!CallInvInit
<1>7. BP!OverlapInv
  BY <1>5, BuddyAssumptions, BP!OverlapInit
<1> QED BY <1>1, <1>3, <1>4, <1>5, <1>6, <1>7 DEF LinkInv, BuddyOK

\* The lists implement Buddy's sets, and so have what is proved of those.
LEMMA LinkedHolds == Spec => [](LinkInv /\ BuddyOK) /\ BP!Spec
  BY LinkedInit, LinkedStep, PTL DEF Spec, BP!Spec

-----------------------------------------------------------------------------
\* Buddy as the refinement names it, and as its proofs do.
LEMMA SameBuddy == (BP!Init => B!Init) /\ ([BP!Next]_(BP!vars) => [B!Next]_(B!vars))
<1> USE DEF B!counters, BP!counters, B!initvars, BP!initvars, B!callvars, BP!callvars,
            B!Return, BP!Return, B!Usable, BP!Usable, B!Orders, BP!Orders, B!GetOrder, BP!GetOrder,
            B!GetBuddy, BP!GetBuddy, B!Lower, BP!Lower
<1>1. BP!Init => B!Init
  BY DEF BP!Init, B!Init
<1>2. BP!BuddyInit => B!BuddyInit
  <2>1. BP!CarveBlock => B!CarveBlock
    BY DEF BP!CarveBlock, B!CarveBlock, BP!CarveOrder, B!CarveOrder, BP!Fits, B!Fits
  <2> QED BY <2>1 DEF BP!BuddyInit, B!BuddyInit, BP!CountEntry, B!CountEntry, BP!CountDone,
               B!CountDone, BP!SkipEntry, B!SkipEntry, BP!StartEntry, B!StartEntry,
               BP!EndEntry, B!EndEntry, BP!InitDone, B!InitDone
<1>3. BP!Advance => B!Advance
  BY <1>2 DEF BP!Advance, B!Advance, BP!SearchNext, B!SearchNext, BP!TakeBlock, B!TakeBlock,
       BP!AllocFail, B!AllocFail, BP!SplitBlock, B!SplitBlock, BP!AllocReturn, B!AllocReturn,
       BP!MergeBuddy, B!MergeBuddy, BP!InsertBlock, B!InsertBlock
<1>4. BP!Next => B!Next
  BY <1>3 DEF BP!Next, B!Next, BP!AllocEnter, B!AllocEnter, BP!FreeEnter, B!FreeEnter
<1>5. UNCHANGED BP!vars => UNCHANGED B!vars
  BY DEF BP!vars, B!vars
<1> QED BY <1>1, <1>4, <1>5

\* Whatever callers write into the pages they hold, the linked lists of the code
\* implement Buddy's sets of free blocks: every step of init, alloc and free on
\* the words in memory is Buddy's step on the sets, or, when the walk goes on or a
\* caller writes, none.
THEOREM LinksRefineBuddy == Spec => RefinesBuddy
  BY LinkedInit, LinkedStep, SameBuddy, PTL DEF Spec, RefinesBuddy, B!Spec

\* Every free list is a chain of distinct blocks that ends in nullptr, no block is
\* on two lists, and the walk of buddy_free stands on one of its own list's.
THEOREM ListsIntactHolds == Spec => []ListsIntact
<1>1. ASSUME LinkInv, BuddyOK, BP!CountersInv PROVE ListsIntact
  <2>1. TypeOK
    <3>1. buddy_used_pages \in Nat
      BY <1>1, BuddyAssumptions, BP!UsedNotNegative
    <3> QED BY <1>1, <3>1, BuddyTypes DEF LinkInv, LinkTypes, TypeOK
  <2>2. ASSUME pc = "merge", cur.kind = "next" PROVE cur.page \in Listed(order)
    BY <1>1, <2>2, BuddyTypes DEF LinkInv, WalkOK, free_list
  <2>3. ASSUME NEW k \in Orders
        PROVE  /\ Listed(k) # {} => \E a \in Listed(k) : next[a] = nullptr
               /\ \A a, b \in Listed(k) : (a # b /\ next[a] # nullptr) => next[a] # next[b]
               /\ \A a \in Listed(k) : next[a] # head[k]
    <3>1. Names(head[k], next, Listed(k))
      BY <1>1 DEF LinkInv, Lists
    <3> QED BY <3>1, NamesShape
  <2>4. ASSUME NEW k \in Orders, NEW l \in Orders \ {k} PROVE Listed(k) \cap Listed(l) = {}
    <3> SUFFICES ASSUME NEW a \in Listed(k), a \in Listed(l) PROVE FALSE
      OBVIOUS
    <3>1. Apart(a, SizeForOrder[k], a, SizeForOrder[l])
      BY <1>1, BuddyApart
    <3>2. a \in Nat
      BY <1>1, NamesNone, TopAssumption DEF LinkInv, Lists, Frames, Addrs
    <3> QED BY <3>1, <3>2, SizeAssumption DEF Apart
  <2> QED BY <2>1, <2>2, <2>3, <2>4 DEF ListsIntact
<1>2. Spec => []BP!CountersInv
  BY LinkedHolds, BuddyAssumptions, BP!CountersInvHolds, PTL
<1> QED BY <1>1, <1>2, LinkedHolds, PTL
=============================================================================
