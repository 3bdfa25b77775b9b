----------------------------- MODULE BootProofs -----------------------------
(***************************************************************************)
(* Proofs about the memory the boot loader hands to the kernel, the kernel *)
(* it puts there, and the files it reads: of the memory map, for every map *)
(* the firmware may return, every kernel and every set of modules, that    *)
(* what was taken is never offered again, that the map the kernel gets is  *)
(* in order, and that no page is lost on the way; of the kernel's image,   *)
(* for every kernel a linker may make and every slide, that it is what its *)
(* file says; of a file, that what is read of it is what is on the disk.   *)
(*                                                                         *)
(* For the map the loops come first (folds, the cut of an entry, a turn,   *)
(* all turns, the sort, the merge), then sanitise_entries as a whole, then *)
(* memmap_alloc_range, then the steps of the boot. The image comes next,   *)
(* and the reads are last.                                                 *)
(***************************************************************************)
EXTENDS BootMemory, ElfImage, FileReads, NumberLemmas, SequenceTheorems, TLAPS

-----------------------------------------------------------------------------
\* The loops of sanitise_entries are folds.  A fold is a function of the sets
\* of places, which exists for every length; its values on 1 .. n are what the
\* loop has made after n steps.

\* The bodies of the four loops, so that what holds of a fold is said once.
Body(loop, a, x) ==
  CASE loop = "clip" -> Clip(a, x)
    [] loop = "turn" -> Turn(a, x)
    [] loop = "swap" -> Swapped(a, x)
    [] loop = "merge" -> Merge(a, x)

\* g is the fold of a loop's body over the first n elements of s, from b.
Folding(loop, b, s, n, g) ==
  g = [S \in SUBSET (1 .. n) |-> IF S = {} THEN b ELSE Body(loop, g[S \ {Max(S)}], s[Max(S)])]

\* The last of some places.
LEMMA LastPlace ==
  ASSUME NEW n \in Nat, NEW S \in SUBSET (1 .. n), S # {}
  PROVE  Max(S) \in S /\ \A p \in S : p <= Max(S)
<1> DEFINE T == {n - p : p \in S}
<1>1. \A p \in S : n - p \in Nat
  OBVIOUS
<1>2. T \in SUBSET Nat /\ T # {}
  BY <1>1
<1> HIDE DEF T
<1>3. PICK x \in T : \A y \in T : x <= y
  BY <1>2, LeastNatural
<1> USE DEF T
<1>4. PICK p \in S : x = n - p
  BY <1>3
<1>5. \A q \in S : n - p <= n - q
  BY <1>3, <1>4
<1>6. \A q \in S : p >= q
  BY <1>5
<1>7. \E z \in S : \A q \in S : z >= q
  BY <1>6
<1>8. Max(S) \in S /\ \A q \in S : Max(S) >= q
  BY <1>7 DEF Max
<1> QED BY <1>8

\* The first of some places.
LEMMA FirstPlace ==
  ASSUME NEW S \in SUBSET Nat, S # {}
  PROVE  Min(S) \in S /\ \A p \in S : Min(S) <= p
<1>1. \E z \in S : \A q \in S : z <= q
  BY LeastNatural
<1> QED BY <1>1 DEF Min

\* A loop can make one more step.
LEMMA FoldingOn ==
  ASSUME NEW loop, NEW b, NEW s, NEW m \in Nat, NEW g, Folding(loop, b, s, m, g)
  PROVE  \E f : Folding(loop, b, s, m + 1, f)
<1> DEFINE E(h, S) == IF S = {} THEN b ELSE Body(loop, h[S \ {Max(S)}], s[Max(S)])
           f == [S \in SUBSET (1 .. m + 1) |-> E(g, S)]
           h == [S \in SUBSET (1 .. m + 1) |-> E(f, S)]
<1>1. ASSUME NEW S \in SUBSET (1 .. m) PROVE f[S] = g[S]
  <2>1. g[S] = E(g, S)
    BY DEF Folding
  <2>2. S \in SUBSET (1 .. m + 1)
    OBVIOUS
  <2>3. f[S] = E(g, S)
    BY <2>2
  <2> QED BY <2>1, <2>3
<1>2. ASSUME NEW S \in SUBSET (1 .. m + 1) PROVE E(g, S) = E(f, S)
  <2>1. CASE S = {}
    BY <2>1
  <2>2. CASE S # {}
    <3>1. Max(S) \in S /\ \A p \in S : p <= Max(S)
      <4> HIDE DEF E, f, h
      <4>1. m + 1 \in Nat
        OBVIOUS
      <4> QED BY <2>2, <4>1, LastPlace
    <3>2. S \ {Max(S)} \in SUBSET (1 .. m)
      <4> HIDE DEF E, f, h
      <4>1. ASSUME NEW p \in S, p # Max(S) PROVE p \in 1 .. m
        <5>1. p \in 1 .. m + 1 /\ Max(S) \in 1 .. m + 1
          BY <3>1
        <5>2. p <= Max(S)
          BY <3>1
        <5> QED BY <4>1, <5>1, <5>2
      <4> QED BY <4>1
    <3>3. f[S \ {Max(S)}] = g[S \ {Max(S)}]
      BY <3>2, <1>1
    <3> HIDE DEF f
    <3> QED BY <2>2, <3>3
  <2> QED BY <2>1, <2>2
<1>3. f = h
  <2> DEFINE F(S) == E(g, S)
             G(S) == E(f, S)
  <2>1. \A S \in SUBSET (1 .. m + 1) : F(S) = G(S)
    BY <1>2
  <2>2. f = [S \in SUBSET (1 .. m + 1) |-> F(S)] /\ h = [S \in SUBSET (1 .. m + 1) |-> G(S)]
    OBVIOUS
  <2> HIDE DEF F, G, f, h
  <2> QED BY <2>1, <2>2
<1>4. Folding(loop, b, s, m + 1, f)
  BY <1>3 DEF Folding
<1> QED BY <1>4

\* A loop can make any number of steps.
LEMMA FoldingExists ==
  ASSUME NEW loop, NEW b, NEW s, NEW n \in Nat
  PROVE  \E g : Folding(loop, b, s, n, g)
<1> DEFINE T == {m \in Nat : ~ \E f : Folding(loop, b, s, m, f)}
<1> SUFFICES T = {}
  OBVIOUS
<1> SUFFICES ASSUME T # {} PROVE FALSE
  OBVIOUS
<1>1. T \in SUBSET Nat
  OBVIOUS
<1> HIDE DEF T
<1>2. PICK m \in T : \A l \in T : m <= l
  BY <1>1, LeastNatural
<1> USE DEF T
<1>3. CASE m = 0
  <2> DEFINE f == [S \in SUBSET (1 .. 0) |-> b]
  <2>1. \A S \in SUBSET (1 .. 0) : S = {}
    OBVIOUS
  <2>2. f = [S \in SUBSET (1 .. 0) |-> IF S = {} THEN b ELSE Body(loop, f[S \ {Max(S)}], s[Max(S)])]
    BY <2>1
  <2> QED BY <1>2, <1>3, <2>2 DEF Folding
<1>4. CASE m # 0
  <2>1. m - 1 \in Nat /\ m - 1 + 1 = m /\ m - 1 \notin T
    BY <1>2, <1>4
  <2>2. PICK g : Folding(loop, b, s, m - 1, g)
    BY <2>1
  <2>3. \E f : Folding(loop, b, s, m - 1 + 1, f)
    BY <2>1, <2>2, FoldingOn
  <2> QED BY <1>2, <2>1, <2>3
<1> QED BY <1>3, <1>4

\* What a loop goes through, from b, with the elements of s, to the outcome z.
Loops(loop, b, s, z, h) ==
  /\ h[0] = b /\ h[Len(s)] = z
  /\ \A n \in 1 .. Len(s) : h[n] = Body(loop, h[n - 1], s[n])

\* A fold makes one step after the other.
LEMMA FoldSteps ==
  ASSUME NEW loop, NEW b, NEW s, NEW N \in Nat, Len(s) = N, NEW g, Folding(loop, b, s, N, g)
  PROVE  \E h : Loops(loop, b, s, g[1 .. N], h)
<1> DEFINE h == [n \in 0 .. N |-> g[1 .. n]]
<1>4. \A Q \in SUBSET (1 .. N) : g[Q] = IF Q = {} THEN b ELSE Body(loop, g[Q \ {Max(Q)}], s[Max(Q)])
  BY DEF Folding
<1>5. g[1 .. 0] = b
  <2>1. 1 .. 0 = {}
    OBVIOUS
  <2> QED BY <1>4, <2>1
<1>6. ASSUME NEW n \in 1 .. N PROVE h[n] = Body(loop, h[n - 1], s[n])
  <2>1. 1 .. n \in SUBSET (1 .. N) /\ 1 .. n # {}
    OBVIOUS
  <2>2. Max(1 .. n) = n
    <3>1. Max(1 .. n) \in 1 .. n /\ \A p \in 1 .. n : p <= Max(1 .. n)
      <4>1. n \in Nat /\ 1 .. n \in SUBSET (1 .. n)
        OBVIOUS
      <4> HIDE DEF h
      <4> QED BY <2>1, <4>1, LastPlace
    <3>2. n \in 1 .. n /\ Max(1 .. n) \in Int /\ n <= Max(1 .. n) /\ Max(1 .. n) <= n
      BY <3>1
    <3> QED BY <3>2
  <2>3. (1 .. n) \ {n} = 1 .. (n - 1)
    OBVIOUS
  <2>4. g[1 .. n] = Body(loop, g[(1 .. n) \ {n}], s[n])
    BY <1>4, <2>1, <2>2
  <2>5. n \in 0 .. N /\ n - 1 \in 0 .. N
    OBVIOUS
  <2> QED BY <2>3, <2>4, <2>5
<1>7. h[0] = b /\ h[N] = g[1 .. N]
  BY <1>5
<1> HIDE DEF h
<1> QED BY <1>6, <1>7 DEF Loops

\* The loop over the other entries.
LEMMA ClipLoops ==
  ASSUME NEW b, NEW S, NEW s \in Seq(S)
  PROVE  \E h : Loops("clip", b, s, FoldLeft(Clip, b, s), h)
<1> DEFINE N == Len(s)
           Is(f) == f = [Q \in SUBSET (1 .. N) |-> IF Q = {} THEN b ELSE Clip(f[Q \ {Max(Q)}], s[Max(Q)])]
<1>1. \A f : Is(f) <=> Folding("clip", b, s, N, f)
  BY DEF Folding, Body
<1>2. N \in Nat /\ DOMAIN s = 1 .. N
  OBVIOUS
<1>3. \E f : Is(f)
  BY <1>1, <1>2, FoldingExists
<1>4. FoldLeft(Clip, b, s) = (CHOOSE f : Is(f))[1 .. N]
  BY <1>2 DEF FoldLeft, MapThenFoldSet
<1>5. Is(CHOOSE f : Is(f))
  BY <1>3
<1> DEFINE g == CHOOSE f : Is(f)
<1>6. Folding("clip", b, s, N, g)
  BY <1>1, <1>5
<1> HIDE DEF g, Is, N
<1> QED BY <1>2, <1>4, <1>6, FoldSteps DEF g, N

\* The loop over the entries.
LEMMA TurnLoops ==
  ASSUME NEW b, NEW S, NEW s \in Seq(S)
  PROVE  \E h : Loops("turn", b, s, FoldLeft(Turn, b, s), h)
<1> DEFINE N == Len(s)
           Is(f) == f = [Q \in SUBSET (1 .. N) |-> IF Q = {} THEN b ELSE Turn(f[Q \ {Max(Q)}], s[Max(Q)])]
<1>1. \A f : Is(f) <=> Folding("turn", b, s, N, f)
  BY DEF Folding, Body
<1>2. N \in Nat /\ DOMAIN s = 1 .. N
  OBVIOUS
<1>3. \E f : Is(f)
  BY <1>1, <1>2, FoldingExists
<1>4. FoldLeft(Turn, b, s) = (CHOOSE f : Is(f))[1 .. N]
  BY <1>2 DEF FoldLeft, MapThenFoldSet
<1>5. Is(CHOOSE f : Is(f))
  BY <1>3
<1> DEFINE g == CHOOSE f : Is(f)
<1>6. Folding("turn", b, s, N, g)
  BY <1>1, <1>5
<1> HIDE DEF g, Is, N
<1> QED BY <1>2, <1>4, <1>6, FoldSteps DEF g, N

\* The outer loop of the sort.
LEMMA SwapLoops ==
  ASSUME NEW b, NEW S, NEW s \in Seq(S)
  PROVE  \E h : Loops("swap", b, s, FoldLeft(Swapped, b, s), h)
<1> DEFINE N == Len(s)
           Is(f) == f = [Q \in SUBSET (1 .. N) |-> IF Q = {} THEN b ELSE Swapped(f[Q \ {Max(Q)}], s[Max(Q)])]
<1>1. \A f : Is(f) <=> Folding("swap", b, s, N, f)
  BY DEF Folding, Body
<1>2. N \in Nat /\ DOMAIN s = 1 .. N
  OBVIOUS
<1>3. \E f : Is(f)
  BY <1>1, <1>2, FoldingExists
<1>4. FoldLeft(Swapped, b, s) = (CHOOSE f : Is(f))[1 .. N]
  BY <1>2 DEF FoldLeft, MapThenFoldSet
<1>5. Is(CHOOSE f : Is(f))
  BY <1>3
<1> DEFINE g == CHOOSE f : Is(f)
<1>6. Folding("swap", b, s, N, g)
  BY <1>1, <1>5
<1> HIDE DEF g, Is, N
<1> QED BY <1>2, <1>4, <1>6, FoldSteps DEF g, N

\* The loop that merges.
LEMMA MergeLoops ==
  ASSUME NEW b, NEW S, NEW s \in Seq(S)
  PROVE  \E h : Loops("merge", b, s, FoldLeft(Merge, b, s), h)
<1> DEFINE N == Len(s)
           Is(f) == f = [Q \in SUBSET (1 .. N) |-> IF Q = {} THEN b ELSE Merge(f[Q \ {Max(Q)}], s[Max(Q)])]
<1>1. \A f : Is(f) <=> Folding("merge", b, s, N, f)
  BY DEF Folding, Body
<1>2. N \in Nat /\ DOMAIN s = 1 .. N
  OBVIOUS
<1>3. \E f : Is(f)
  BY <1>1, <1>2, FoldingExists
<1>4. FoldLeft(Merge, b, s) = (CHOOSE f : Is(f))[1 .. N]
  BY <1>2 DEF FoldLeft, MapThenFoldSet
<1>5. Is(CHOOSE f : Is(f))
  BY <1>3
<1> DEFINE g == CHOOSE f : Is(f)
<1>6. Folding("merge", b, s, N, g)
  BY <1>1, <1>5
<1> HIDE DEF g, Is, N
<1> QED BY <1>2, <1>4, <1>6, FoldSteps DEF g, N

\* The places of a map, which the outer loops count through.
LEMMA PlacesOf ==
  ASSUME NEW S, NEW map \in Seq(S)
  PROVE  /\ [i \in DOMAIN map |-> i] \in Seq(Nat)
         /\ Len([i \in DOMAIN map |-> i]) = Len(map)
         /\ \A n \in 1 .. Len(map) : [i \in DOMAIN map |-> i][n] = n
         /\ DOMAIN map = 1 .. Len(map) /\ Len(map) \in Nat
  OBVIOUS

-----------------------------------------------------------------------------
\* What is true of the map all along.

Entries ==
  {e \in [base: Nat, top: Nat, type: {"usable", "reserved", "kernel", "reclaimable", "panic"}] :
     e.base <= e.top}

\* No address is in two usable entries.
UsablesApart(map) ==
  \A i, j \in DOMAIN map : i # j /\ map[i].type = "usable" /\ map[j].type = "usable" =>
    \A x \in Addresses(map[i]) : x \notin Addresses(map[j])

\* Only what the firmware reserved may overlap, and only itself.
OnlyReservedOverlap(map) ==
  \A i, j \in DOMAIN map : i # j /\ map[i].type # "reserved" =>
    \A x \in Addresses(map[i]) : x \notin Addresses(map[j])

Ascending(map) == \A i, j \in DOMAIN map : i < j => map[i].base <= map[j].base

\* A usable entry as the kernel may have it.
Whole(e) == e.type = "usable" => e.base >= MiB /\ e.base % Page = 0 /\ e.top % Page = 0

\* Nothing but one usable entry has the page.
Alone(map, page) ==
  \A x \in page : \A i, j \in DOMAIN map :
    x \in Addresses(map[i]) /\ x \in Addresses(map[j]) => i = j
Holds(map, page) ==
  \E i \in DOMAIN map : map[i].type = "usable" /\ page \subseteq Addresses(map[i])
Keeps(map, page) == Alone(map, page) /\ Holds(map, page)

\* The loader did not write to any of these addresses.
Untouched(page, taken) == \A u \in taken : \A x \in page : ~ (u[1] <= x /\ x < u[2])

\* The page of a usable entry of the firmware that nothing else claims.
Due(i, lo) ==
  /\ firmware[i].type = "usable"
  /\ lo >= MiB
  /\ PageAt(lo) \subseteq Addresses(firmware[i])
  /\ \A j \in DOMAIN firmware \ {i} : PageAt(lo) \intersect Addresses(firmware[j]) = {}

Types ==
  /\ firmware \in Firmware
  /\ memmap \in Seq(Entries)
  /\ todo \in [segments : Seq(Nat \X (Nat \ {0})), modules : Seq(Nat), tables : Nat]
  /\ top_used \in Nat
  /\ used \subseteq Nat \X Nat
  /\ pc \in {"firmware", "elf", "pagemap", "kernel", "panic"}

\* The addresses the loader, and then the kernel, may be given.
Offered(map) == UNION {Addresses(map[i]) : i \in {k \in DOMAIN map : map[k].type = "usable"}}

\* The ranges that were taken: none is offered, none was given out twice.
TakenClear(map, taken) ==
  \A u \in taken : \A x \in u[1] .. (u[2] - 1) : x \notin Offered(map)
TakenApart(taken) ==
  \A u, v \in taken : u # v => \A x \in u[1] .. (u[2] - 1) : x \notin v[1] .. (v[2] - 1)

\* From the first call of sanitise_entries on.
MapSound ==
  /\ pc = "firmware" => used = {} /\ memmap = firmware
  /\ pc # "firmware" => UsablesApart(memmap)
  /\ pc # "firmware" /\ OwnParts => OnlyReservedOverlap(memmap)
  /\ pc = "kernel" => Ascending(memmap) /\ \A i \in DOMAIN memmap : Whole(memmap[i])

\* What is due is still there, but for what was taken.
PagesKept(map, taken) ==
  \A i \in DOMAIN firmware : \A n \in 0 .. (firmware[i].top \div Page) :
    Due(i, n * Page) /\ Untouched(PageAt(n * Page), taken) => Keeps(map, PageAt(n * Page))

\* The inductive invariant. A boot that stopped promises nothing.
BootInv ==
  /\ Types
  /\ pc # "panic" => /\ ~ Panics(memmap)
                     /\ MapSound
                     /\ TakenClear(memmap, used) /\ TakenApart(used)
                     /\ PagesKept(memmap, used)

-----------------------------------------------------------------------------
\* Rounding.

\* Multiples of a page lie a page apart.
LEMMA PagesApart ==
  ASSUME NEW a \in Nat, NEW b \in Nat, a % Page = 0, b % Page = 0, a < b
  PROVE  a + Page <= b
<1>1. Page \in Nat \ {0}
  BY MemoryAssumption
<1> DEFINE p == a \div Page
           q == b \div Page
<1>2. p \in Nat /\ q \in Nat /\ a = p * Page /\ b = q * Page
  BY <1>1, Quotient
<1> HIDE DEF p, q
<1>3. p < q
  BY <1>1, <1>2, Smaller
<1>4. (p + 1) * Page <= q * Page
  BY <1>1, <1>2, <1>3, Larger
<1>5. (p + 1) * Page = p * Page + Page
  BY <1>1, <1>2
<1> QED BY <1>1, <1>2, <1>4, <1>5

\* The multiples of a page.
LEMMA PageTimes ==
  ASSUME NEW n \in Nat
  PROVE  n * Page \in Nat /\ (n * Page) % Page = 0
<1>1. Page \in Nat \ {0}
  BY MemoryAssumption
<1>2. n * Page \in Nat /\ n * Page = n * Page + 0
  BY <1>1
<1> QED BY <1>1, <1>2, RemainderIs

\* Rounding down to a page.
LEMMA Down ==
  ASSUME NEW x \in Nat
  PROVE  /\ AlignDown(x, Page) \in Nat /\ AlignDown(x, Page) % Page = 0
         /\ AlignDown(x, Page) <= x /\ x < AlignDown(x, Page) + Page
<1>1. Page \in Nat \ {0}
  BY MemoryAssumption
<1>2. x \div Page \in Nat /\ x % Page \in Nat /\ x % Page < Page /\ x = (x \div Page) * Page + (x % Page)
  BY <1>1, Divided
<1>3. (x \div Page) * Page \in Nat /\ ((x \div Page) * Page) % Page = 0
  BY <1>2, PageTimes
<1> QED BY <1>1, <1>2, <1>3 DEF AlignDown

\* Rounding up to a page.
LEMMA Up ==
  ASSUME NEW x \in Nat
  PROVE  /\ AlignUp(x, Page) \in Nat /\ AlignUp(x, Page) % Page = 0
         /\ x <= AlignUp(x, Page) /\ AlignUp(x, Page) < x + Page
<1>1. Page \in Nat \ {0}
  BY MemoryAssumption
<1> DEFINE y == x + Page - 1
<1>2. y \in Nat
  BY <1>1
<1>3. AlignUp(x, Page) = AlignDown(y, Page)
  BY DEF AlignUp, AlignDown
<1> HIDE DEF y
<1>4. /\ AlignDown(y, Page) \in Nat /\ AlignDown(y, Page) % Page = 0
      /\ AlignDown(y, Page) <= y /\ y < AlignDown(y, Page) + Page
  BY <1>2, Down
<1> USE DEF y
<1> QED BY <1>1, <1>3, <1>4

\* A multiple of a page off the ground moves what rounding gives.
LEMMA DownFrom ==
  ASSUME NEW b \in Nat, NEW x \in Nat, b % Page = 0, b <= x
  PROVE  b + AlignDown(x - b, Page) = AlignDown(x, Page)
<1>1. Page \in Nat \ {0}
  BY MemoryAssumption
<1> DEFINE p == b \div Page
           q == (x - b) \div Page
           r == (x - b) % Page
<1>2. p \in Nat /\ b = p * Page
  BY <1>1, Quotient
<1>3. x - b \in Nat /\ q \in Nat /\ r \in Nat /\ r < Page /\ x - b = q * Page + r
  BY <1>1
<1>4. AlignDown(x - b, Page) = q * Page /\ AlignDown(x, Page) = (x \div Page) * Page
  BY DEF AlignDown
<1> HIDE DEF p, q, r
<1>5. (p + q) * Page = p * Page + q * Page /\ p * Page \in Nat /\ q * Page \in Nat
  BY <1>1, <1>2, <1>3
<1>6. x = (p + q) * Page + r
  BY <1>2, <1>3, <1>5
<1>7. p + q \in Int
  BY <1>2, <1>3
<1>8. x \div Page = p + q
  BY <1>1, <1>3, <1>6, <1>7, RemainderIs
<1> QED BY <1>2, <1>4, <1>5, <1>8

\* Nothing moves outward in these two.
Within(e, f) == f.base <= e.base /\ e.top <= f.top

\* align_entry leaves whole pages above the first MiB, and all of those.
LEMMA AlignedIs ==
  ASSUME NEW e \in Entries, ~ Rejected(e)
  PROVE  /\ Aligned(e) \in Entries /\ Aligned(e).type = e.type /\ Within(Aligned(e), e)
         /\ Whole(Aligned(e))
         /\ \A lo \in Nat : lo % Page = 0 /\ lo >= MiB /\ e.base <= lo /\ lo + Page <= e.top =>
              Aligned(e).base <= lo /\ lo + Page <= Aligned(e).top
<1>0. Page \in Nat \ {0} /\ MiB \in Nat /\ MiB % Page = 0
  BY MemoryAssumption
<1> DEFINE b == AlignUp(e.base, Page)
           t == AlignDown(e.top, Page)
<1>1. /\ e.base \in Nat /\ e.top \in Nat /\ e.base <= e.top
      /\ e.type \in {"usable", "reserved", "kernel", "reclaimable", "panic"}
  BY DEF Entries
<1>2. b \in Nat /\ b % Page = 0 /\ e.base <= b /\ b < e.base + Page
  BY <1>1, Up
<1>3. t \in Nat /\ t % Page = 0 /\ t <= e.top /\ e.top < t + Page
  BY <1>1, Down
<1>4. e.top - e.base >= Page /\ ~ (b < MiB /\ t <= MiB)
  <2>1. ~ (e.top - e.base < Page)
    BY DEF Rejected
  <2>2. ~ (b < MiB /\ t <= MiB)
    BY DEF Rejected
  <2> QED BY <1>0, <1>1, <2>1, <2>2
<1>5. b <= e.top
  BY <1>0, <1>1, <1>2, <1>4
<1>6. b + AlignDown(e.top - b, Page) = t
  BY <1>1, <1>2, <1>5, DownFrom
<1>7. Aligned(e) = Entry(IF b < MiB THEN MiB ELSE b, t, e.type)
  BY <1>6 DEF Aligned
<1> HIDE DEF b, t
<1>8. b <= t
  <2> SUFFICES ASSUME t < b PROVE FALSE
    BY <1>2, <1>3
  <2>1. t + Page <= b
    BY <1>2, <1>3, PagesApart
  <2> QED BY <1>0, <1>1, <1>2, <1>3, <1>4, <1>5, <2>1
<1>9. /\ Aligned(e).base = IF b < MiB THEN MiB ELSE b
      /\ Aligned(e).top = t /\ Aligned(e).type = e.type
      /\ Aligned(e) = [base |-> Aligned(e).base, top |-> t, type |-> e.type]
  BY <1>7 DEF Entry
<1>10. Aligned(e).base \in Nat /\ Aligned(e).base <= t /\ e.base <= Aligned(e).base
  BY <1>0, <1>1, <1>2, <1>3, <1>4, <1>8, <1>9
<1>11. Aligned(e) \in Entries
  BY <1>1, <1>3, <1>9, <1>10 DEF Entries
<1>12. Within(Aligned(e), e)
  BY <1>3, <1>9, <1>10 DEF Within
<1>13. Whole(Aligned(e))
  BY <1>0, <1>2, <1>3, <1>9 DEF Whole
<1>14. ASSUME NEW lo \in Nat, lo % Page = 0, lo >= MiB, e.base <= lo, lo + Page <= e.top
       PROVE  Aligned(e).base <= lo /\ lo + Page <= Aligned(e).top
  <2>1. b <= lo
    <3> SUFFICES ASSUME lo < b PROVE FALSE
      BY <1>2
    <3>1. lo + Page <= b
      BY <1>2, <1>14, PagesApart
    <3> QED BY <1>0, <1>1, <1>2, <1>14, <3>1
  <2>2. lo + Page <= t
    <3> SUFFICES ASSUME t < lo + Page PROVE FALSE
      BY <1>0, <1>3
    <3>1. lo < t
      BY <1>0, <1>1, <1>3, <1>14
    <3>2. lo + Page <= t
      BY <1>3, <1>14, <3>1, PagesApart
    <3> QED BY <1>0, <1>3, <3>2
  <2> QED BY <1>0, <1>9, <1>14, <2>1, <2>2
<1> QED BY <1>9, <1>11, <1>12, <1>13, <1>14

\* An entry that holds a page above the first MiB is kept.
LEMMA PageStays ==
  ASSUME NEW e \in Entries, NEW lo \in Nat, lo % Page = 0, lo >= MiB, e.base <= lo, lo + Page <= e.top
  PROVE  ~ Rejected(e)
<1>0. Page \in Nat \ {0} /\ MiB \in Nat
  BY MemoryAssumption
<1> DEFINE t == AlignDown(e.top, Page)
<1>1. e.base \in Nat /\ e.top \in Nat
  BY DEF Entries
<1>2. t \in Nat /\ t % Page = 0 /\ t <= e.top /\ e.top < t + Page
  BY <1>1, Down
<1> HIDE DEF t
<1>3. lo < t
  BY <1>0, <1>1, <1>2
<1>4. MiB < t /\ e.top - e.base >= Page
  BY <1>0, <1>1, <1>2, <1>3
<1>5. ~ (t <= MiB) /\ ~ (e.top - e.base < Page)
  BY <1>0, <1>1, <1>2, <1>4
<1> QED BY <1>5 DEF Rejected, t

-----------------------------------------------------------------------------
\* The loop over the other entries cuts a usable entry at its ends.

\* No address in common, whatever is empty.
Apart(e, f) == e.top <= f.base \/ f.top <= e.base

\* What the loop cannot cut off: f claims all of e, and memory below it.
Under(e, f) == f.base < e.base /\ e.top <= f.top

\* The two are what the loop leaves of an entry and another one.
Beside(e, f) == Apart(e, f) \/ Under(e, f)

\* The loop leaves f of e, between the others.
CutOf(f, e, others) ==
  /\ f \in Entries /\ f.type = e.type /\ Within(f, e)
  /\ \A l \in DOMAIN others : Beside(f, others[l])
  /\ \/ f.base = e.base
     \/ \E l \in DOMAIN others : f.base = others[l].top /\ others[l].base < others[l].top
  /\ \A x \in Addresses(e) : (\A l \in DOMAIN others : x \notin Addresses(others[l])) => x \in Addresses(f)

\* One turn, unless the boot stops: apart from r or under it, and only what r
\* claims is cut off.
LEMMA ClipOne ==
  ASSUME NEW e \in Entries, NEW r \in Entries
  PROVE  /\ Clip(e, r) \in Entries
         /\ e.type = "panic" => Clip(e, r).type = "panic"
         /\ Clip(e, r).type # "panic" =>
              /\ Clip(e, r).type = e.type /\ Within(Clip(e, r), e)
              /\ Beside(Clip(e, r), r)
              /\ Clip(e, r).base = e.base \/ (Clip(e, r).base = r.top /\ r.base < r.top)
              /\ \A x \in Addresses(e) : x \notin Addresses(r) => x \in Addresses(Clip(e, r))
<1>1. /\ e.base \in Nat /\ e.top \in Nat /\ e.base <= e.top /\ r.base \in Nat /\ r.top \in Nat /\ r.base <= r.top
      /\ e.type \in {"usable", "reserved", "kernel", "reclaimable", "panic"}
      /\ e = [base |-> e.base, top |-> e.top, type |-> e.type]
  BY DEF Entries
<1> DEFINE top == IF r.base >= e.base /\ r.base < e.top THEN r.base ELSE e.top
           base == IF e.base <= r.top /\ r.top < top THEN r.top ELSE e.base
<1>2. CASE e.type = "panic" \/ (Inside(r.base, e) /\ Inside(r.top, e))
  <2>1. Clip(e, r) = [e EXCEPT !.type = "panic"]
    BY <1>2 DEF Clip
  <2>2. Clip(e, r) = [base |-> e.base, top |-> e.top, type |-> "panic"]
    BY <1>1, <2>1
  <2> QED BY <1>1, <2>2 DEF Entries
<1>3. CASE ~ (e.type = "panic" \/ (Inside(r.base, e) /\ Inside(r.top, e)))
  <2>1. Clip(e, r) = [base |-> base, top |-> top, type |-> e.type]
    BY <1>1, <1>3 DEF Clip, Entry, Inside
  <2>2. ~ (r.base >= e.base /\ r.base < e.top /\ r.top >= e.base /\ r.top < e.top)
    BY <1>1, <1>3 DEF Inside
  <2>3. base \in Nat /\ top \in Nat /\ base <= top /\ e.base <= base /\ top <= e.top
    BY <1>1, <2>2
  <2>4. base = e.base \/ (base = r.top /\ r.base < r.top)
    BY <1>1, <2>2
  <2>5. (top <= r.base \/ r.top <= base) \/ (r.base < base /\ top <= r.top)
    BY <1>1, <2>2
  <2>6. \A x \in Int : e.base <= x /\ x <= e.top - 1 /\ ~ (r.base <= x /\ x <= r.top - 1) =>
          base <= x /\ x <= top - 1
    BY <1>1, <2>2
  <2> HIDE DEF base, top
  <2>7. Clip(e, r).base = base /\ Clip(e, r).top = top /\ Clip(e, r).type = e.type
    BY <2>1
  <2>8. Clip(e, r) \in Entries
    BY <1>1, <2>1, <2>3 DEF Entries
  <2>9. Beside(Clip(e, r), r) /\ Within(Clip(e, r), e)
    BY <2>3, <2>5, <2>7 DEF Beside, Apart, Under, Within
  <2>10. ASSUME NEW x \in Addresses(e), x \notin Addresses(r) PROVE x \in Addresses(Clip(e, r))
    <3>1. x \in Int /\ e.base <= x /\ x <= e.top - 1
      BY <1>1, <2>10 DEF Addresses
    <3>2. ~ (r.base <= x /\ x <= r.top - 1)
      BY <1>1, <2>10, <3>1 DEF Addresses
    <3>3. base <= x /\ x <= top - 1
      BY <2>6, <3>1, <3>2
    <3> QED BY <2>3, <2>7, <3>1, <3>3 DEF Addresses
  <2> QED BY <1>3, <2>4, <2>7, <2>8, <2>9, <2>10
<1> QED BY <1>2, <1>3

\* What is cut further stays apart from or under the others.
LEMMA BesideWithin ==
  ASSUME NEW e \in Entries, NEW f \in Entries, NEW r \in Entries, Within(f, e), Beside(e, r)
  PROVE  Beside(f, r)
BY DEF Entries, Within, Beside, Apart, Under

\* So does what they are cut to, when it was apart.
LEMMA ApartWithin ==
  ASSUME NEW e \in Entries, NEW f \in Entries, NEW r \in Entries, Within(f, e),
         Apart(e, r) \/ Apart(r, e)
  PROVE  Apart(f, r) /\ Apart(r, f)
BY DEF Entries, Within, Apart

\* Addresses of an entry that was cut.
LEMMA FewerAddresses ==
  ASSUME NEW e \in Entries, NEW f \in Entries, Within(f, e)
  PROVE  \A x \in Addresses(f) : x \in Addresses(e)
BY DEF Entries, Within, Addresses

\* All turns.
LEMMA ClipAll ==
  ASSUME NEW e \in Entries, NEW others \in Seq(Entries)
  PROVE  /\ FoldLeft(Clip, e, others) \in Entries
         /\ FoldLeft(Clip, e, others).type # "panic" => CutOf(FoldLeft(Clip, e, others), e, others)
<1> DEFINE z == FoldLeft(Clip, e, others)
           N == Len(others)
           First(n) == SubSeq(others, 1, n)
<1>1. PICK h : Loops("clip", e, others, z, h)
  BY ClipLoops
<1> DEFINE C(n) ==
             /\ h[n] \in Entries
             /\ h[n].type # "panic" =>
                  /\ h[n].type = e.type /\ Within(h[n], e)
                  /\ \A l \in 1 .. n : Beside(h[n], others[l])
                  /\ h[n].base = e.base
                     \/ \E l \in 1 .. n : h[n].base = others[l].top /\ others[l].base < others[l].top
                  /\ \A x \in Addresses(e) :
                       (\A l \in 1 .. n : x \notin Addresses(others[l])) => x \in Addresses(h[n])
<1>2. N \in Nat /\ DOMAIN others = 1 .. N /\ \A l \in 1 .. N : others[l] \in Entries
  OBVIOUS
<1>3. h[0] = e /\ h[N] = z
  BY <1>1 DEF Loops
<1>4. ASSUME NEW n \in 1 .. N PROVE h[n] = Clip(h[n - 1], others[n])
  BY <1>1 DEF Loops, Body
<1> HIDE DEF z, N
<1>5. C(0)
  <2>1. Within(e, e)
    BY DEF Within, Entries
  <2> QED BY <1>3, <2>1
<1>6. ASSUME NEW n \in Nat, n < N, C(n) PROVE C(n + 1)
  <2>1. n + 1 \in 1 .. N /\ n + 1 - 1 = n
    BY <1>2, <1>6
  <2> DEFINE a == h[n]
             r == others[n + 1]
             c == h[n + 1]
  <2>2. c = Clip(a, r) /\ r \in Entries /\ a \in Entries
    BY <1>2, <1>4, <1>6, <2>1
  <2>3. C(n)
    BY <1>6
  <2> HIDE DEF a, r, c
  <2>4. /\ c \in Entries
        /\ a.type = "panic" => c.type = "panic"
        /\ c.type # "panic" =>
              /\ c.type = a.type /\ Within(c, a)
              /\ Beside(c, r)
              /\ c.base = a.base \/ (c.base = r.top /\ r.base < r.top)
              /\ \A x \in Addresses(a) : x \notin Addresses(r) => x \in Addresses(c)
    BY <2>2, ClipOne
  <2>5. CASE c.type = "panic"
    BY <2>4, <2>5 DEF c
  <2>6. CASE c.type # "panic"
    <3>1. /\ a.type # "panic" /\ a.type = e.type /\ Within(a, e)
          /\ \A l \in 1 .. n : Beside(a, others[l])
          /\ a.base = e.base
             \/ \E l \in 1 .. n : a.base = others[l].top /\ others[l].base < others[l].top
          /\ \A x \in Addresses(e) :
               (\A l \in 1 .. n : x \notin Addresses(others[l])) => x \in Addresses(a)
      BY <2>3, <2>4, <2>6 DEF a
    <3>2. c.type = e.type
      BY <2>4, <2>6, <3>1
    <3>3. Within(c, e)
      BY <2>2, <2>4, <2>6, <3>1 DEF Within, Entries
    <3>4. ASSUME NEW l \in 1 .. n + 1 PROVE Beside(c, others[l])
      <4>1. CASE l = n + 1
        BY <2>4, <2>6, <4>1 DEF r
      <4>2. CASE l # n + 1
        <5>1. l \in 1 .. n /\ l \in 1 .. N
          BY <1>2, <1>6, <4>2
        <5>2. Beside(a, others[l]) /\ others[l] \in Entries
          BY <1>2, <3>1, <5>1
        <5> QED BY <2>2, <2>4, <2>6, <5>2, BesideWithin
      <4> QED BY <4>1, <4>2
    <3>5. c.base = e.base
          \/ \E l \in 1 .. n + 1 : c.base = others[l].top /\ others[l].base < others[l].top
      <4>1. CASE c.base = a.base
        <5>1. \A l \in 1 .. n : l \in 1 .. n + 1
          BY <1>6
        <5> QED BY <3>1, <4>1, <5>1
      <4>2. CASE c.base = r.top /\ r.base < r.top
        <5>1. n + 1 \in 1 .. n + 1
          BY <1>6
        <5> QED BY <4>2, <5>1 DEF r
      <4> QED BY <2>4, <2>6, <4>1, <4>2
    <3>6. ASSUME NEW x \in Addresses(e), \A l \in 1 .. n + 1 : x \notin Addresses(others[l])
          PROVE  x \in Addresses(c)
      <4>1. \A l \in 1 .. n : l \in 1 .. n + 1
        BY <1>6
      <4>2. x \in Addresses(a)
        BY <3>1, <3>6, <4>1
      <4>3. n + 1 \in 1 .. n + 1
        BY <1>6
      <4>4. x \notin Addresses(r)
        BY <3>6, <4>3 DEF r
      <4> QED BY <2>4, <2>6, <4>2, <4>4
    <3> QED BY <2>4, <3>2, <3>3, <3>4, <3>5, <3>6 DEF c
  <2> QED BY <2>5, <2>6
<1> HIDE DEF C
<1>7. ASSUME NEW n \in 0 .. N PROVE C(n)
  <2> DEFINE T == {k \in Nat : k <= N /\ ~ C(k)}
  <2> SUFFICES ASSUME T # {} PROVE FALSE
    BY <1>2
  <2>1. T \in SUBSET Nat
    OBVIOUS
  <2>2. PICK k \in T : \A m \in T : k <= m
    BY <2>1, LeastNatural
  <2>3. k # 0
    BY <1>5, <2>2
  <2>4. k \in Nat /\ k - 1 \in Nat /\ k - 1 < N /\ k - 1 <= N /\ ~ (k <= k - 1) /\ k - 1 + 1 = k
    BY <1>2, <2>2, <2>3
  <2>5. C(k - 1)
    BY <2>2, <2>4
  <2>6. C(k - 1 + 1)
    BY <1>6, <2>4, <2>5
  <2> QED BY <2>2, <2>4, <2>6
<1>8. C(N)
  BY <1>2, <1>7
<1> QED BY <1>2, <1>3, <1>8 DEF C, CutOf, z

-----------------------------------------------------------------------------
\* One turn of the loop over the entries.

\* Where the entries after an erased one have come from, and where they go.
Skip(p, k) == IF k < p THEN k ELSE k + 1
Unskip(p, k) == IF k < p THEN k ELSE k - 1

\* In o the entries after the one at p have moved up.
MovedUp(o, map, p) ==
  /\ Len(o) = Len(map) - 1
  /\ \A k \in 1 .. (Len(map) - 1) :
       o[k] = map[Skip(p, k)] /\ Skip(p, k) \in (1 .. Len(map)) \ {p} /\ Unskip(p, Skip(p, k)) = k
  /\ \A j \in (1 .. Len(map)) \ {p} :
       Unskip(p, j) \in 1 .. (Len(map) - 1) /\ Skip(p, Unskip(p, j)) = j

\* Erasing an entry moves up the ones after it.
LEMMA Erased ==
  ASSUME NEW S, NEW map \in Seq(S), NEW p \in 1 .. Len(map)
  PROVE  RemoveAt(map, p) \in Seq(S) /\ MovedUp(RemoveAt(map, p), map, p)
<1> DEFINE a == SubSeq(map, 1, p - 1)
           b == SubSeq(map, p + 1, Len(map))
           n == Len(map)
<1>1. n \in Nat /\ p \in 1 .. n /\ p \in Nat /\ DOMAIN map = 1 .. n
  OBVIOUS
<1>2. a \in Seq(S) /\ Len(a) = p - 1 /\ \A k \in 1 .. (p - 1) : a[k] = map[k]
  OBVIOUS
<1>3. b \in Seq(S) /\ Len(b) = n - p /\ \A k \in 1 .. (n - p) : b[k] = map[p + k]
  <2>1. \A i \in p + 1 .. n : map[i] \in S
    BY <1>1
  <2>2. p + 1 \in Int /\ n \in Int /\ n - (p + 1) + 1 = n - p /\ (p + 1 <= n \/ n - p = 0)
    <3> HIDE DEF n, b, a
    <3> QED BY <1>1
  <2>3. \A k \in 1 .. (n - p) : (p + 1) + k - 1 = p + k
    BY <1>1
  <2>4. b = SubSeq(map, p + 1, n)
    OBVIOUS
  <2> HIDE DEF n, b
  <2>5. /\ b \in Seq(S) /\ Len(b) = IF p + 1 <= n THEN n - (p + 1) + 1 ELSE 0
        /\ \A k \in 1 .. n - (p + 1) + 1 : b[k] = map[(p + 1) + k - 1]
    BY <2>1, <2>2, <2>4, SubSeqProperties
  <2>6. Len(b) = n - p
    BY <1>1, <2>2, <2>5
  <2> QED BY <2>2, <2>3, <2>5, <2>6
<1>4. RemoveAt(map, p) = a \o b
  BY DEF RemoveAt
<1> HIDE DEF a, b, n
<1>5. a \o b \in Seq(S) /\ Len(a \o b) = n - 1
  <2>1. Len(a \o b) = Len(a) + Len(b) /\ a \o b \in Seq(S)
    BY <1>2, <1>3, ConcatProperties
  <2> QED BY <1>1, <1>2, <1>3, <2>1
<1>6. ASSUME NEW k \in 1 .. (n - 1) PROVE (a \o b)[k] = map[Skip(p, k)]
  <2>1. k \in 1 .. (Len(a) + Len(b))
    BY <1>1, <1>2, <1>3
  <2>2. (a \o b)[k] = IF k <= Len(a) THEN a[k] ELSE b[k - Len(a)]
    BY <1>2, <1>3, <2>1, ConcatProperties
  <2>3. CASE k < p
    BY <1>1, <1>2, <2>2, <2>3 DEF Skip
  <2>4. CASE ~ (k < p)
    <3>1. k - Len(a) \in 1 .. (n - p) /\ ~ (k <= Len(a)) /\ p + (k - Len(a)) = k + 1
      BY <1>1, <1>2, <2>4
    <3> QED BY <1>3, <2>2, <2>4, <3>1 DEF Skip
  <2> QED BY <2>3, <2>4
<1>7. \A k \in 1 .. (n - 1) : Skip(p, k) \in (1 .. n) \ {p} /\ Unskip(p, Skip(p, k)) = k
  BY <1>1 DEF Skip, Unskip
<1>8. \A j \in (1 .. n) \ {p} : Unskip(p, j) \in 1 .. (n - 1) /\ Skip(p, Unskip(p, j)) = j
  BY <1>1 DEF Skip, Unskip
<1> QED BY <1>4, <1>5, <1>6, <1>7, <1>8 DEF n, MovedUp

\* The loop leaves f of the entry at p.
CutAt(f, map, p) ==
  /\ f \in Entries /\ f.type = map[p].type /\ Within(f, map[p])
  /\ \A q \in DOMAIN map \ {p} : Beside(f, map[q])
  /\ \/ f.base = map[p].base
     \/ \E q \in DOMAIN map \ {p} : f.base = map[q].top /\ map[q].base < map[q].top
  /\ \A x \in Addresses(map[p]) :
       (\A q \in DOMAIN map \ {p} : x \notin Addresses(map[q])) => x \in Addresses(f)

\* The other entries, by their places in the map.
LEMMA CutOthers ==
  ASSUME NEW map \in Seq(Entries), NEW p \in DOMAIN map, NEW f, CutOf(f, map[p], RemoveAt(map, p))
  PROVE  CutAt(f, map, p)
<1> DEFINE o == RemoveAt(map, p)
           n == Len(map)
<1>1. p \in 1 .. n /\ DOMAIN map = 1 .. n /\ n \in Nat
  OBVIOUS
<1>2. /\ o \in Seq(Entries) /\ Len(o) = n - 1
      /\ \A k \in 1 .. (n - 1) : o[k] = map[Skip(p, k)] /\ Skip(p, k) \in (1 .. n) \ {p}
      /\ \A j \in (1 .. n) \ {p} : Unskip(p, j) \in 1 .. (n - 1) /\ Skip(p, Unskip(p, j)) = j
  <2>1. RemoveAt(map, p) \in Seq(Entries) /\ MovedUp(RemoveAt(map, p), map, p)
    BY <1>1, Erased
  <2> QED BY <2>1 DEF MovedUp
<1> HIDE DEF o, n
<1>3. DOMAIN o = 1 .. (n - 1)
  BY <1>2
<1>4. \A j \in (1 .. n) \ {p} : Unskip(p, j) \in DOMAIN o /\ o[Unskip(p, j)] = map[j]
  BY <1>2, <1>3
<1>5. /\ f \in Entries /\ f.type = map[p].type /\ Within(f, map[p])
      /\ \A l \in DOMAIN o : Beside(f, o[l])
      /\ \/ f.base = map[p].base
         \/ \E l \in DOMAIN o : f.base = o[l].top /\ o[l].base < o[l].top
      /\ \A x \in Addresses(map[p]) : (\A l \in DOMAIN o : x \notin Addresses(o[l])) => x \in Addresses(f)
  BY DEF CutOf, o
<1>6. \A q \in DOMAIN map \ {p} : Beside(f, map[q])
  BY <1>1, <1>4, <1>5
<1>7. ASSUME NEW l \in DOMAIN o PROVE \E q \in DOMAIN map \ {p} : o[l] = map[q]
  BY <1>1, <1>2, <1>3
<1>8. \/ f.base = map[p].base
      \/ \E q \in DOMAIN map \ {p} : f.base = map[q].top /\ map[q].base < map[q].top
  BY <1>5, <1>7
<1>9. ASSUME NEW x \in Addresses(map[p]), \A q \in DOMAIN map \ {p} : x \notin Addresses(map[q])
      PROVE  x \in Addresses(f)
  BY <1>5, <1>7, <1>9
<1> QED BY <1>5, <1>6, <1>8, <1>9 DEF CutAt

\* The entry that stays is passed by, stops the boot, is erased or is cut.
Passes(s, t) == s.map[s.next].type # "usable" /\ t = [map |-> s.map, next |-> s.next + 1]
Stops(s, t) ==
  /\ s.map[s.next].type = "usable"
  /\ \E f \in Entries : /\ f.type = "panic"
                        /\ t = [map |-> [s.map EXCEPT ![s.next] = f], next |-> s.next + 1]
Erases(s, t) ==
  /\ s.map[s.next].type = "usable"
  /\ \E f : CutAt(f, s.map, s.next) /\ Rejected(f)
  /\ t = [map |-> RemoveAt(s.map, s.next), next |-> s.next]
Cuts(s, t) ==
  /\ s.map[s.next].type = "usable"
  /\ \E f : /\ CutAt(f, s.map, s.next) /\ ~ Rejected(f)
            /\ t = [map |-> [s.map EXCEPT ![s.next] = Aligned(f)], next |-> s.next + 1]

\* What a turn does.
LEMMA TurnOne ==
  ASSUME NEW map \in Seq(Entries), NEW p \in DOMAIN map, NEW s, s = [map |-> map, next |-> p], NEW n
  PROVE  Passes(s, Turn(s, n)) \/ Stops(s, Turn(s, n)) \/ Erases(s, Turn(s, n)) \/ Cuts(s, Turn(s, n))
<1> DEFINE o == RemoveAt(map, p)
           e == FoldLeft(Clip, map[p], o)
<1>1. s.map = map /\ s.next = p
  OBVIOUS
<1>2. o \in Seq(Entries) /\ map[p] \in Entries
  <2>1. p \in 1 .. Len(map)
    OBVIOUS
  <2> QED BY <2>1, Erased
<1>3. e \in Entries /\ (e.type # "panic" => CutOf(e, map[p], o))
  <2> HIDE DEF o
  <2> QED BY <1>2, ClipAll
<1>4. e.type # "panic" => CutAt(e, map, p)
  BY <1>3, CutOthers
<1>5. e = FoldLeft(Clip, s.map[s.next], RemoveAt(s.map, s.next))
  BY <1>1
<1>6. CASE s.map[s.next].type # "usable"
  <2>1. Turn(s, n) = [s EXCEPT !.next = @ + 1]
    BY <1>6 DEF Turn
  <2> QED BY <1>6, <2>1 DEF Passes
<1>7. CASE s.map[s.next].type = "usable" /\ e.type = "panic"
  <2>1. Turn(s, n) = [map |-> [s.map EXCEPT ![s.next] = e], next |-> s.next + 1]
    BY <1>5, <1>7 DEF Turn
  <2> QED BY <1>3, <1>7, <2>1 DEF Stops
<1>8. CASE s.map[s.next].type = "usable" /\ e.type # "panic" /\ Rejected(e)
  <2>1. Turn(s, n) = [s EXCEPT !.map = RemoveAt(@, s.next)]
    BY <1>5, <1>8 DEF Turn
  <2>2. Turn(s, n) = [map |-> RemoveAt(s.map, s.next), next |-> s.next]
    BY <2>1
  <2> QED BY <1>1, <1>4, <1>8, <2>2 DEF Erases
<1>9. CASE s.map[s.next].type = "usable" /\ e.type # "panic" /\ ~ Rejected(e)
  <2>1. Turn(s, n) = [map |-> [s.map EXCEPT ![s.next] = Aligned(e)], next |-> s.next + 1]
    BY <1>5, <1>9 DEF Turn
  <2> QED BY <1>1, <1>4, <1>9, <2>1 DEF Cuts
<1> QED BY <1>6, <1>7, <1>8, <1>9

-----------------------------------------------------------------------------
\* The loop over the entries: what it has passed is settled.

\* Every entry of the new map is made of entries of its kind of the old one, and
\* no two of the same.
From(new, old) ==
  \E g \in [DOMAIN new -> SUBSET DOMAIN old] :
    /\ \A i, j \in DOMAIN new : i # j => g[i] \intersect g[j] = {}
    /\ \A i \in DOMAIN new : \A x \in Addresses(new[i]) : \E k \in g[i] : x \in Addresses(old[k])
    /\ \A i \in DOMAIN new : \A k \in g[i] : old[k].type = new[i].type

\* A map is made of itself.
LEMMA FromItself ==
  ASSUME NEW map
  PROVE  From(map, map)
<1> DEFINE g == [i \in DOMAIN map |-> {i}]
<1>1. g \in [DOMAIN map -> SUBSET DOMAIN map]
  OBVIOUS
<1>2. \A i \in DOMAIN map : g[i] = {i}
  OBVIOUS
<1> HIDE DEF g
<1> QED BY <1>1, <1>2 DEF From

\* What is made of a map that was made of another is made of that one.
LEMMA FromFrom ==
  ASSUME NEW new, NEW mid, NEW old, From(new, mid), From(mid, old)
  PROVE  From(new, old)
<1>1. PICK g \in [DOMAIN new -> SUBSET DOMAIN mid] :
        /\ \A i, j \in DOMAIN new : i # j => g[i] \intersect g[j] = {}
        /\ \A i \in DOMAIN new : \A x \in Addresses(new[i]) : \E k \in g[i] : x \in Addresses(mid[k])
        /\ \A i \in DOMAIN new : \A k \in g[i] : mid[k].type = new[i].type
  BY DEF From
<1>2. PICK h \in [DOMAIN mid -> SUBSET DOMAIN old] :
        /\ \A i, j \in DOMAIN mid : i # j => h[i] \intersect h[j] = {}
        /\ \A i \in DOMAIN mid : \A x \in Addresses(mid[i]) : \E k \in h[i] : x \in Addresses(old[k])
        /\ \A i \in DOMAIN mid : \A k \in h[i] : old[k].type = mid[i].type
  BY DEF From
<1> DEFINE f == [i \in DOMAIN new |-> UNION {h[k] : k \in g[i]}]
<1>3. \A i \in DOMAIN new : \A k \in g[i] : k \in DOMAIN mid /\ h[k] \in SUBSET DOMAIN old
  BY <1>1, <1>2
<1>4. f \in [DOMAIN new -> SUBSET DOMAIN old]
  BY <1>3
<1>5. \A i \in DOMAIN new : \A y : y \in f[i] <=> \E k \in g[i] : y \in h[k]
  OBVIOUS
<1> HIDE DEF f
<1>6. ASSUME NEW i \in DOMAIN new, NEW j \in DOMAIN new, i # j PROVE f[i] \intersect f[j] = {}
  <2> SUFFICES ASSUME NEW y \in f[i], y \in f[j] PROVE FALSE
    OBVIOUS
  <2>1. PICK k \in g[i] : y \in h[k]
    BY <1>5
  <2>2. PICK l \in g[j] : y \in h[l]
    BY <1>5
  <2>3. k # l /\ k \in DOMAIN mid /\ l \in DOMAIN mid
    BY <1>1, <1>3, <1>6
  <2> QED BY <1>2, <2>1, <2>2, <2>3
<1>7. ASSUME NEW i \in DOMAIN new, NEW x \in Addresses(new[i])
      PROVE  \E y \in f[i] : x \in Addresses(old[y])
  <2>1. PICK k \in g[i] : x \in Addresses(mid[k])
    BY <1>1
  <2>2. PICK y \in h[k] : x \in Addresses(old[y])
    BY <1>2, <1>3, <2>1
  <2> QED BY <1>5, <2>1, <2>2
<1>8. ASSUME NEW i \in DOMAIN new, NEW y \in f[i] PROVE old[y].type = new[i].type
  <2>1. PICK k \in g[i] : y \in h[k]
    BY <1>5
  <2> QED BY <1>1, <1>2, <1>3, <2>1
<1> QED BY <1>4, <1>6, <1>7, <1>8 DEF From

\* Entries of the map in one place each, none of them grown.
LEMMA FromPlaces ==
  ASSUME NEW new, NEW old, NEW f \in [DOMAIN new -> DOMAIN old],
         \A i, j \in DOMAIN new : i # j => f[i] # f[j],
         \A i \in DOMAIN new : /\ old[f[i]].type = new[i].type
                               /\ \A x \in Addresses(new[i]) : x \in Addresses(old[f[i]])
  PROVE  From(new, old)
<1> DEFINE g == [i \in DOMAIN new |-> {f[i]}]
<1>1. g \in [DOMAIN new -> SUBSET DOMAIN old]
  OBVIOUS
<1>2. \A i \in DOMAIN new : g[i] = {f[i]}
  OBVIOUS
<1> HIDE DEF g
<1>3. \A i, j \in DOMAIN new : i # j => g[i] \intersect g[j] = {}
  BY <1>2
<1>4. \A i \in DOMAIN new : \A x \in Addresses(new[i]) : \E k \in g[i] : x \in Addresses(old[k])
  BY <1>2
<1>5. \A i \in DOMAIN new : \A k \in g[i] : old[k].type = new[i].type
  BY <1>2
<1> QED BY <1>1, <1>3, <1>4, <1>5 DEF From

\* One entry replaced.
LEMMA Changed ==
  ASSUME NEW S, NEW map \in Seq(S), NEW p \in DOMAIN map, NEW g \in S
  PROVE  /\ [map EXCEPT ![p] = g] \in Seq(S) /\ Len([map EXCEPT ![p] = g]) = Len(map)
         /\ DOMAIN [map EXCEPT ![p] = g] = DOMAIN map
         /\ [map EXCEPT ![p] = g][p] = g
         /\ \A q \in DOMAIN map \ {p} : [map EXCEPT ![p] = g][q] = map[q]
  OBVIOUS

\* The shape of the loop's state, and what it does not lose.
TurnFrame(s, t) ==
  /\ t = [map |-> t.map, next |-> t.next] /\ t.map \in Seq(Entries)
  /\ t.next \in Nat \ {0} /\ t.next + Len(s.map) = s.next + Len(t.map) + 1
  /\ Panics(s.map) => Panics(t.map)
  /\ ~ Panics(t.map) => From(t.map, s.map)

\* Every turn keeps the shape, and makes entries of the entries that were there.
LEMMA TurnFrames ==
  ASSUME NEW map \in Seq(Entries), NEW p \in DOMAIN map, NEW s, s = [map |-> map, next |-> p], NEW n
  PROVE  TurnFrame(s, Turn(s, n))
<1> DEFINE t == Turn(s, n)
           N == Len(map)
<1> SUFFICES TurnFrame(s, t)
  OBVIOUS
<1>1. s.map = map /\ s.next = p
  OBVIOUS
<1>2. N \in Nat /\ DOMAIN map = 1 .. N /\ p \in 1 .. N /\ p \in Nat \ {0} /\ \A i \in 1 .. N : map[i] \in Entries
  OBVIOUS
<1>3. Passes(s, t) \/ Stops(s, t) \/ Erases(s, t) \/ Cuts(s, t)
  BY TurnOne
<1> HIDE DEF t, N
<1>4. CASE Passes(s, t)
  <2>1. t = [map |-> map, next |-> p + 1]
    BY <1>1, <1>4 DEF Passes
  <2>2. t.map = map /\ t.next = p + 1
    BY <2>1
  <2>3. From(map, map)
    BY FromItself
  <2>4. Len(map) = N
    BY DEF N
  <2> QED BY <1>1, <1>2, <2>1, <2>2, <2>3, <2>4 DEF TurnFrame
<1>5. CASE Stops(s, t)
  <2>1. PICK f \in Entries : f.type = "panic" /\ t = [map |-> [map EXCEPT ![p] = f], next |-> p + 1]
    BY <1>1, <1>5 DEF Stops
  <2> DEFINE c == [map EXCEPT ![p] = f]
  <2>2. c \in Seq(Entries) /\ Len(c) = Len(map) /\ DOMAIN c = DOMAIN map /\ c[p] = f
    BY Changed
  <2>3. t.map = c /\ t.next = p + 1 /\ t = [map |-> c, next |-> p + 1]
    BY <2>1
  <2> HIDE DEF c
  <2>4. Panics(c)
    BY <2>1, <2>2 DEF Panics
  <2>5. Len(map) = N
    BY DEF N
  <2> QED BY <1>1, <1>2, <2>2, <2>3, <2>4, <2>5 DEF TurnFrame
<1>6. CASE Erases(s, t)
  <2> DEFINE c == RemoveAt(map, p)
  <2>1. map[p].type = "usable" /\ t = [map |-> c, next |-> p]
    BY <1>1, <1>6 DEF Erases
  <2>2. c \in Seq(Entries) /\ MovedUp(c, map, p)
    BY <1>2, Erased DEF N
  <2>3. t.map = c /\ t.next = p
    BY <2>1
  <2> HIDE DEF c
  <2>4. DOMAIN c = 1 .. (N - 1) /\ Len(c) = N - 1
    BY <2>2 DEF MovedUp, N
  <2>5. Panics(map) => Panics(c)
    <3> SUFFICES ASSUME NEW i \in 1 .. N, map[i].type = "panic" PROVE Panics(c)
      BY <1>2 DEF Panics
    <3>1. i # p
      BY <2>1
    <3>2. Unskip(p, i) \in 1 .. (N - 1) /\ Skip(p, Unskip(p, i)) = i
      BY <2>2, <3>1 DEF MovedUp, N
    <3>3. c[Unskip(p, i)] = map[i]
      BY <2>2, <3>2 DEF MovedUp, N
    <3> QED BY <2>4, <3>2, <3>3 DEF Panics
  <2>6. From(c, map)
    <3> DEFINE f == [k \in 1 .. (N - 1) |-> Skip(p, k)]
    <3>1. \A k \in 1 .. (N - 1) : Skip(p, k) \in 1 .. N /\ c[k] = map[Skip(p, k)] /\ Unskip(p, Skip(p, k)) = k
      BY <2>2 DEF MovedUp, N
    <3>2. f \in [1 .. (N - 1) -> 1 .. N] /\ \A k \in 1 .. (N - 1) : f[k] = Skip(p, k)
      BY <3>1
    <3> HIDE DEF f
    <3>3. \A i, j \in 1 .. (N - 1) : i # j => f[i] # f[j]
      BY <3>1, <3>2
    <3>4. \A i \in 1 .. (N - 1) : map[f[i]] = c[i]
      BY <3>1, <3>2
    <3> QED BY <1>2, <2>4, <3>2, <3>3, <3>4, FromPlaces
  <2>7. Len(map) = N
    BY DEF N
  <2> QED BY <1>1, <1>2, <2>1, <2>2, <2>3, <2>4, <2>5, <2>6, <2>7 DEF TurnFrame
<1>7. CASE Cuts(s, t)
  <2>1. PICK f : CutAt(f, map, p) /\ ~ Rejected(f) /\ t = [map |-> [map EXCEPT ![p] = Aligned(f)], next |-> p + 1]
    BY <1>1, <1>7 DEF Cuts
  <2> DEFINE g == Aligned(f)
             c == [map EXCEPT ![p] = g]
  <2>2. f \in Entries /\ f.type = map[p].type /\ Within(f, map[p])
    BY <2>1 DEF CutAt
  <2>3. g \in Entries /\ g.type = f.type /\ Within(g, f)
    BY <2>1, <2>2, AlignedIs
  <2>4. map[p].type = "usable"
    BY <1>1, <1>7 DEF Cuts
  <2> HIDE DEF g
  <2>5. /\ c \in Seq(Entries) /\ Len(c) = Len(map) /\ DOMAIN c = DOMAIN map /\ c[p] = g
        /\ \A q \in DOMAIN map \ {p} : c[q] = map[q]
    BY <2>3, Changed
  <2>6. t.map = c /\ t.next = p + 1 /\ t = [map |-> c, next |-> p + 1]
    BY <2>1 DEF g
  <2> HIDE DEF c
  <2>7. Panics(map) => Panics(c)
    <3> SUFFICES ASSUME NEW i \in DOMAIN map, map[i].type = "panic" PROVE Panics(c)
      BY DEF Panics
    <3> QED BY <2>4, <2>5 DEF Panics
  <2>8. From(c, map)
    <3> DEFINE h == [k \in DOMAIN c |-> k]
    <3>1. h \in [DOMAIN c -> DOMAIN map] /\ \A k \in DOMAIN c : h[k] = k
      BY <2>5
    <3>2. \A x \in Addresses(g) : x \in Addresses(map[p])
      <4>1. \A x \in Addresses(g) : x \in Addresses(f)
        BY <2>2, <2>3, FewerAddresses
      <4>2. \A x \in Addresses(f) : x \in Addresses(map[p])
        BY <1>2, <2>2, FewerAddresses
      <4> QED BY <4>1, <4>2
    <3> HIDE DEF h
    <3>3. \A i \in DOMAIN c : /\ map[h[i]].type = c[i].type
                              /\ \A x \in Addresses(c[i]) : x \in Addresses(map[h[i]])
      BY <2>2, <2>3, <2>5, <3>1, <3>2
    <3> QED BY <3>1, <3>3, FromPlaces
  <2>9. Len(map) = N
    BY DEF N
  <2> QED BY <1>1, <1>2, <2>5, <2>6, <2>7, <2>8, <2>9 DEF TurnFrame
<1> QED BY <1>3, <1>4, <1>5, <1>6, <1>7

\* The usable entries before p are whole, are apart from each other, and were
\* cut against every other one.
Settled(map, p) ==
  \A a \in DOMAIN map : a < p /\ map[a].type = "usable" =>
    /\ Whole(map[a])
    /\ \A b \in DOMAIN map \ {a} :
         /\ Beside(map[a], map[b])
         /\ b < p /\ map[b].type = "usable" => Apart(map[a], map[b])

\* An entry that ends up under a usable one that was cut before it, and against
\* it, would have to start where it started or where a third one ends, and both
\* would have cut the earlier one.
LEMMA NotUnder ==
  ASSUME NEW map \in Seq(Entries), NEW p \in DOMAIN map, Settled(map, p),
         NEW f, CutAt(f, map, p), f.base < f.top,
         NEW a \in DOMAIN map, a < p, map[a].type = "usable"
  PROVE  Apart(f, map[a])
<1>1. \A q \in DOMAIN map : map[q] \in Entries
  OBVIOUS
<1>2. /\ f \in Entries /\ Within(f, map[p]) /\ Beside(f, map[a])
      /\ \/ f.base = map[p].base
         \/ \E q \in DOMAIN map \ {p} : f.base = map[q].top /\ map[q].base < map[q].top
  <2>1. a \in DOMAIN map \ {p}
    OBVIOUS
  <2> QED BY <2>1 DEF CutAt
<1>3. /\ \A q \in DOMAIN map : map[q].base \in Nat /\ map[q].top \in Nat /\ map[q].base <= map[q].top
      /\ f.base \in Nat /\ f.top \in Nat
  BY <1>1, <1>2 DEF Entries
<1>4. \A b \in DOMAIN map \ {a} : Beside(map[a], map[b])
  BY DEF Settled
<1> SUFFICES ASSUME Under(f, map[a]) PROVE FALSE
  BY <1>2 DEF Beside
<1>5. map[a].base < f.base /\ f.top <= map[a].top
  BY DEF Under
<1>6. CASE f.base = map[p].base
  <2>1. p \in DOMAIN map \ {a}
    OBVIOUS
  <2>2. Beside(map[a], map[p]) /\ f.top <= map[p].top
    BY <1>2, <1>4, <2>1 DEF Within
  <2> QED BY <1>3, <1>5, <1>6, <2>2 DEF Beside, Apart, Under
<1>7. CASE \E q \in DOMAIN map \ {p} : f.base = map[q].top /\ map[q].base < map[q].top
  <2>1. PICK q \in DOMAIN map \ {p} : f.base = map[q].top /\ map[q].base < map[q].top
    BY <1>7
  <2>2. q # a
    BY <1>3, <1>5, <2>1
  <2>3. Beside(map[a], map[q])
    BY <1>4, <2>2
  <2> QED BY <1>3, <1>5, <2>1, <2>3 DEF Beside, Apart, Under
<1> QED BY <1>2, <1>6, <1>7

\* A turn settles the entry it is at.
LEMMA TurnSettles ==
  ASSUME NEW map \in Seq(Entries), NEW p \in DOMAIN map, NEW s, s = [map |-> map, next |-> p], NEW n,
         Settled(map, p), ~ Panics(Turn(s, n).map)
  PROVE  Settled(Turn(s, n).map, Turn(s, n).next)
<1> DEFINE t == Turn(s, n)
           N == Len(map)
<1> SUFFICES Settled(t.map, t.next)
  OBVIOUS
<1>1. s.map = map /\ s.next = p
  OBVIOUS
<1>2. N \in Nat /\ DOMAIN map = 1 .. N /\ p \in 1 .. N /\ p \in Nat \ {0} /\ \A i \in 1 .. N : map[i] \in Entries
  OBVIOUS
<1>3. Passes(s, t) \/ Stops(s, t) \/ Erases(s, t) \/ Cuts(s, t)
  BY TurnOne
<1>0. ~ Panics(t.map)
  OBVIOUS
<1>8. Page \in Nat \ {0}
  BY MemoryAssumption
<1> HIDE DEF t, N
<1>4. CASE Passes(s, t)
  <2>1. t.map = map /\ t.next = p + 1 /\ map[p].type # "usable"
    BY <1>1, <1>4 DEF Passes
  <2>2. \A a \in DOMAIN map : a < p + 1 /\ map[a].type = "usable" => a < p
    BY <1>2, <2>1
  <2> QED BY <2>1, <2>2 DEF Settled
<1>5. CASE Stops(s, t)
  <2>1. PICK f \in Entries : f.type = "panic" /\ t = [map |-> [map EXCEPT ![p] = f], next |-> p + 1]
    BY <1>1, <1>5 DEF Stops
  <2>2. t.map = [map EXCEPT ![p] = f]
    BY <2>1
  <2>3. t.map[p] = f /\ DOMAIN t.map = DOMAIN map
    BY <2>2
  <2> QED BY <1>0, <2>1, <2>3 DEF Panics
<1>6. CASE Erases(s, t)
  <2> DEFINE c == RemoveAt(map, p)
  <2>1. c \in Seq(Entries) /\ MovedUp(c, map, p)
    BY <1>2, Erased DEF N
  <2>2. t.map = c /\ t.next = p
    BY <1>1, <1>6 DEF Erases
  <2> HIDE DEF c
  <2>3. DOMAIN c = 1 .. (N - 1)
    BY <2>1 DEF MovedUp, N
  <2>4. \A k \in 1 .. (N - 1) : Skip(p, k) \in 1 .. N /\ c[k] = map[Skip(p, k)] /\ Unskip(p, Skip(p, k)) = k
    BY <2>1 DEF MovedUp, N
  <2>5. ASSUME NEW a \in DOMAIN c, a < p, c[a].type = "usable"
        PROVE  Whole(c[a]) /\ \A b \in DOMAIN c \ {a} :
                 /\ Beside(c[a], c[b])
                 /\ b < p /\ c[b].type = "usable" => Apart(c[a], c[b])
    <3>1. Skip(p, a) = a /\ a \in 1 .. N /\ c[a] = map[a]
      BY <2>3, <2>4, <2>5 DEF Skip
    <3>2. Whole(map[a]) /\ \A b \in 1 .. N : b # a =>
            /\ Beside(map[a], map[b])
            /\ b < p /\ map[b].type = "usable" => Apart(map[a], map[b])
      BY <1>2, <2>5, <3>1 DEF Settled
    <3>3. ASSUME NEW b \in DOMAIN c \ {a}
          PROVE  /\ Beside(c[a], c[b])
                 /\ b < p /\ c[b].type = "usable" => Apart(c[a], c[b])
      <4>1. Skip(p, b) \in 1 .. N /\ c[b] = map[Skip(p, b)] /\ Skip(p, b) # a
        BY <2>3, <2>4, <3>1
      <4>2. b < p => Skip(p, b) = b
        BY DEF Skip
      <4> QED BY <3>1, <3>2, <4>1, <4>2
    <3> QED BY <3>1, <3>2, <3>3
  <2> QED BY <2>2, <2>5 DEF Settled
<1>7. CASE Cuts(s, t)
  <2>1. PICK f : CutAt(f, map, p) /\ ~ Rejected(f) /\ t = [map |-> [map EXCEPT ![p] = Aligned(f)], next |-> p + 1]
    BY <1>1, <1>7 DEF Cuts
  <2> DEFINE g == Aligned(f)
             c == [map EXCEPT ![p] = g]
  <2>2. f \in Entries /\ f.type = map[p].type /\ \A q \in 1 .. N : q # p => Beside(f, map[q])
    BY <1>2, <2>1 DEF CutAt
  <2>3. g \in Entries /\ g.type = f.type /\ Within(g, f) /\ Whole(g)
    BY <2>1, <2>2, AlignedIs
  <2>4. f.base < f.top
    BY <1>8, <2>1, <2>2 DEF Rejected, Entries
  <2> HIDE DEF g
  <2>5. /\ c \in Seq(Entries) /\ Len(c) = Len(map) /\ DOMAIN c = DOMAIN map /\ c[p] = g
        /\ \A q \in DOMAIN map \ {p} : c[q] = map[q]
    BY <2>3, Changed
  <2>6. t.map = c /\ t.next = p + 1
    BY <2>1 DEF g
  <2>7. DOMAIN c = 1 .. N /\ \A q \in 1 .. N : q # p => c[q] = map[q]
    BY <1>2, <2>5
  <2> HIDE DEF c
  <2>8. \A q \in 1 .. N : q # p => Beside(g, map[q])
    BY <1>2, <2>2, <2>3, BesideWithin
  <2>9. ASSUME NEW q \in 1 .. N, q < p, map[q].type = "usable"
        PROVE  Apart(g, map[q]) /\ Apart(map[q], g)
    <3>1. Apart(f, map[q])
      BY <1>2, <2>1, <2>4, <2>9, NotUnder
    <3> QED BY <1>2, <2>2, <2>3, <3>1, ApartWithin
  <2>10. ASSUME NEW a \in DOMAIN c, a < p + 1, c[a].type = "usable"
        PROVE  Whole(c[a]) /\ \A b \in DOMAIN c \ {a} :
                 /\ Beside(c[a], c[b])
                 /\ b < p + 1 /\ c[b].type = "usable" => Apart(c[a], c[b])
    <3>1. CASE a = p
      <4>1. c[a] = g /\ Whole(g)
        BY <2>3, <2>5, <3>1
      <4>2. ASSUME NEW b \in DOMAIN c \ {a}
            PROVE  /\ Beside(c[a], c[b])
                   /\ b < p + 1 /\ c[b].type = "usable" => Apart(c[a], c[b])
        <5>1. b \in 1 .. N /\ b # p /\ c[b] = map[b] /\ (b < p + 1 => b < p)
          BY <1>2, <2>7, <3>1
        <5> QED BY <2>8, <2>9, <4>1, <5>1
      <4> QED BY <4>1, <4>2
    <3>2. CASE a # p
      <4>1. a \in 1 .. N /\ a < p /\ c[a] = map[a] /\ map[a].type = "usable"
        BY <1>2, <2>7, <2>10, <3>2
      <4>2. Whole(map[a]) /\ \A b \in 1 .. N : b # a =>
              /\ Beside(map[a], map[b])
              /\ b < p /\ map[b].type = "usable" => Apart(map[a], map[b])
        BY <1>2, <4>1 DEF Settled
      <4>3. ASSUME NEW b \in DOMAIN c \ {a}
            PROVE  /\ Beside(c[a], c[b])
                   /\ b < p + 1 /\ c[b].type = "usable" => Apart(c[a], c[b])
        <5>1. CASE b = p
          <6>1. Apart(map[a], g) /\ c[b] = g
            BY <2>5, <2>9, <4>1, <5>1
          <6> QED BY <4>1, <6>1 DEF Beside
        <5>2. CASE b # p
          <6>1. b \in 1 .. N /\ c[b] = map[b] /\ (b < p + 1 => b < p)
            BY <1>2, <2>7, <5>2
          <6> QED BY <4>1, <4>2, <6>1
        <5> QED BY <5>1, <5>2
      <4> QED BY <4>1, <4>2, <4>3
    <3> QED BY <3>1, <3>2
  <2> QED BY <2>6, <2>10 DEF Settled
<1> QED BY <1>3, <1>4, <1>5, <1>6, <1>7

\* The usable entries before p are apart from all the others; those from p on
\* have an address to themselves.
Owned(map, p) ==
  \A a \in DOMAIN map : map[a].type = "usable" =>
    /\ a < p => \A b \in DOMAIN map \ {a} : Apart(map[a], map[b])
    /\ a >= p => \E x \in Addresses(map[a]) : \A b \in DOMAIN map \ {a} : x \notin Addresses(map[b])

\* What has an address to itself is under nothing.
LEMMA OwnApart ==
  ASSUME NEW map \in Seq(Entries), NEW p \in DOMAIN map, NEW f, CutAt(f, map, p),
         NEW x \in Addresses(map[p]), \A b \in DOMAIN map \ {p} : x \notin Addresses(map[b])
  PROVE  \A b \in DOMAIN map \ {p} : Apart(f, map[b])
<1>1. f \in Entries /\ x \in Addresses(f) /\ \A b \in DOMAIN map \ {p} : Beside(f, map[b])
  BY DEF CutAt
<1> SUFFICES ASSUME NEW b \in DOMAIN map \ {p}, Under(f, map[b]) PROVE FALSE
  BY <1>1 DEF Beside
<1>2. map[b] \in Entries
  OBVIOUS
<1>3. x \in Addresses(map[b])
  BY <1>1, <1>2 DEF Under, Addresses, Entries
<1> QED BY <1>3

\* Such an entry is apart from the others after its turn.
LEMMA TurnOwns ==
  ASSUME NEW map \in Seq(Entries), NEW p \in DOMAIN map, NEW s, s = [map |-> map, next |-> p], NEW n,
         Owned(map, p), ~ Panics(Turn(s, n).map)
  PROVE  Owned(Turn(s, n).map, Turn(s, n).next)
<1> DEFINE t == Turn(s, n)
           N == Len(map)
<1> SUFFICES Owned(t.map, t.next)
  OBVIOUS
<1>1. s.map = map /\ s.next = p
  OBVIOUS
<1>2. N \in Nat /\ DOMAIN map = 1 .. N /\ p \in 1 .. N /\ p \in Nat \ {0} /\ \A i \in 1 .. N : map[i] \in Entries
  OBVIOUS
<1>3. Passes(s, t) \/ Stops(s, t) \/ Erases(s, t) \/ Cuts(s, t)
  BY TurnOne
<1>0. ~ Panics(t.map)
  OBVIOUS
<1> HIDE DEF t, N
<1>4. CASE Passes(s, t)
  <2>1. t.map = map /\ t.next = p + 1 /\ map[p].type # "usable"
    BY <1>1, <1>4 DEF Passes
  <2>2. \A a \in DOMAIN map : map[a].type = "usable" => (a < p + 1 <=> a < p) /\ (a >= p + 1 => a >= p)
    BY <1>2, <2>1
  <2> QED BY <2>1, <2>2 DEF Owned
<1>5. CASE Stops(s, t)
  <2>1. PICK f \in Entries : f.type = "panic" /\ t = [map |-> [map EXCEPT ![p] = f], next |-> p + 1]
    BY <1>1, <1>5 DEF Stops
  <2>2. t.map = [map EXCEPT ![p] = f]
    BY <2>1
  <2>3. t.map[p] = f /\ DOMAIN t.map = DOMAIN map
    BY <2>2
  <2> QED BY <1>0, <2>1, <2>3 DEF Panics
<1>6. CASE Erases(s, t)
  <2> DEFINE c == RemoveAt(map, p)
  <2>1. c \in Seq(Entries) /\ MovedUp(c, map, p)
    BY <1>2, Erased DEF N
  <2>2. t.map = c /\ t.next = p
    BY <1>1, <1>6 DEF Erases
  <2> HIDE DEF c
  <2>3. DOMAIN c = 1 .. (N - 1)
    BY <2>1 DEF MovedUp, N
  <2>4. \A k \in 1 .. (N - 1) : Skip(p, k) \in 1 .. N /\ c[k] = map[Skip(p, k)] /\ Unskip(p, Skip(p, k)) = k
    BY <2>1 DEF MovedUp, N
  <2>5. ASSUME NEW a \in DOMAIN c, c[a].type = "usable"
        PROVE  /\ a < p => \A b \in DOMAIN c \ {a} : Apart(c[a], c[b])
               /\ a >= p => \E x \in Addresses(c[a]) : \A b \in DOMAIN c \ {a} : x \notin Addresses(c[b])
    <3>1. /\ Skip(p, a) \in DOMAIN map /\ c[a] = map[Skip(p, a)]
          /\ (a < p => Skip(p, a) < p) /\ (a >= p => Skip(p, a) >= p)
      BY <1>2, <2>3, <2>4 DEF Skip
    <3>2. \A b \in DOMAIN c \ {a} : c[b] = map[Skip(p, b)] /\ Skip(p, b) \in DOMAIN map \ {Skip(p, a)}
      BY <1>2, <2>3, <2>4
    <3>3. CASE a < p
      <4>1. \A b \in DOMAIN map \ {Skip(p, a)} : Apart(map[Skip(p, a)], map[b])
        BY <2>5, <3>1, <3>3 DEF Owned
      <4>2. ~ (a >= p)
        BY <1>2, <2>3, <3>3
      <4> QED BY <3>1, <3>2, <4>1, <4>2
    <3>4. CASE a >= p
      <4>1. PICK x \in Addresses(map[Skip(p, a)]) : \A b \in DOMAIN map \ {Skip(p, a)} : x \notin Addresses(map[b])
        BY <2>5, <3>1, <3>4 DEF Owned
      <4>2. ~ (a < p)
        BY <1>2, <2>3, <3>4
      <4> QED BY <3>1, <3>2, <4>1, <4>2
    <3> QED BY <3>3, <3>4, <1>2, <2>3
  <2> QED BY <2>2, <2>5 DEF Owned
<1>7. CASE Cuts(s, t)
  <2>1. PICK f : CutAt(f, map, p) /\ ~ Rejected(f) /\ t = [map |-> [map EXCEPT ![p] = Aligned(f)], next |-> p + 1]
    BY <1>1, <1>7 DEF Cuts
  <2> DEFINE g == Aligned(f)
             c == [map EXCEPT ![p] = g]
  <2>2. f \in Entries /\ f.type = map[p].type /\ Within(f, map[p])
    BY <1>2, <2>1 DEF CutAt
  <2>3. g \in Entries /\ g.type = f.type /\ Within(g, f)
    BY <2>1, <2>2, AlignedIs
  <2> HIDE DEF g
  <2>4. Within(g, map[p])
    BY <1>2, <2>2, <2>3 DEF Within, Entries
  <2>5. /\ c \in Seq(Entries) /\ Len(c) = Len(map) /\ DOMAIN c = DOMAIN map /\ c[p] = g
        /\ \A q \in DOMAIN map \ {p} : c[q] = map[q]
    BY <2>3, Changed
  <2>6. t.map = c /\ t.next = p + 1
    BY <2>1 DEF g
  <2>7. DOMAIN c = 1 .. N /\ \A q \in 1 .. N : q # p => c[q] = map[q]
    BY <1>2, <2>5
  <2>8. map[p].type = "usable"
    BY <1>1, <1>7 DEF Cuts
  <2> HIDE DEF c
  <2>9. \A b \in 1 .. N : b # p => Apart(g, map[b])
    <3>1. p >= p /\ p \in DOMAIN map
      BY <1>2
    <3>2. PICK x \in Addresses(map[p]) : \A b \in DOMAIN map \ {p} : x \notin Addresses(map[b])
      BY <2>8, <3>1 DEF Owned
    <3>3. \A b \in DOMAIN map \ {p} : Apart(f, map[b])
      BY <2>1, <3>2, OwnApart
    <3>4. \A b \in 1 .. N : b # p => Apart(f, map[b])
      BY <1>2, <3>3
    <3> QED BY <1>2, <2>2, <2>3, <3>4, ApartWithin
  <2>10. ASSUME NEW a \in DOMAIN c, c[a].type = "usable"
        PROVE  /\ a < p + 1 => \A b \in DOMAIN c \ {a} : Apart(c[a], c[b])
               /\ a >= p + 1 => \E x \in Addresses(c[a]) : \A b \in DOMAIN c \ {a} : x \notin Addresses(c[b])
    <3>1. CASE a = p
      <4>1. \A b \in DOMAIN c \ {a} : Apart(c[a], c[b])
        BY <2>5, <2>7, <2>9, <3>1
      <4> QED BY <1>2, <3>1, <4>1
    <3>2. CASE a # p
      <4>1. a \in 1 .. N /\ a \in DOMAIN map /\ c[a] = map[a] /\ map[a].type = "usable" /\ p \in DOMAIN map \ {a}
        BY <1>2, <2>7, <2>10, <3>2
      <4>2. CASE a < p
        <5>1. \A b \in 1 .. N : b # a => Apart(map[a], map[b])
          BY <1>2, <4>1, <4>2 DEF Owned
        <5>2. Apart(map[a], map[p]) /\ map[a] \in Entries /\ map[p] \in Entries
          BY <1>2, <4>1, <4>2, <5>1
        <5>3. Apart(map[a], g)
          BY <2>3, <2>4, <5>2, ApartWithin
        <5>4. \A b \in DOMAIN c \ {a} : Apart(c[a], c[b])
          BY <2>5, <2>7, <4>1, <5>1, <5>3
        <5>5. ~ (a >= p + 1)
          BY <1>2, <4>1, <4>2
        <5> QED BY <5>4, <5>5
      <4>3. CASE a >= p
        <5>1. PICK x \in Addresses(map[a]) : \A b \in DOMAIN map \ {a} : x \notin Addresses(map[b])
          BY <4>1, <4>3 DEF Owned
        <5>2. x \notin Addresses(g)
          <6>1. x \notin Addresses(map[p])
            BY <4>1, <5>1
          <6>2. \A y \in Addresses(g) : y \in Addresses(map[p])
            BY <1>2, <2>3, <2>4, FewerAddresses
          <6> QED BY <6>1, <6>2
        <5>3. \A b \in DOMAIN c \ {a} : x \notin Addresses(c[b])
          BY <1>2, <2>5, <2>7, <5>1, <5>2
        <5>4. ~ (a < p + 1)
          BY <1>2, <3>2, <4>1, <4>3
        <5> QED BY <4>1, <5>1, <5>3, <5>4
      <4> QED BY <1>2, <4>1, <4>2, <4>3
    <3> QED BY <3>1, <3>2
  <2> QED BY <2>6, <2>10 DEF Owned
<1> QED BY <1>3, <1>4, <1>5, <1>6, <1>7

\* The addresses of a page.
LEMMA PageIn ==
  ASSUME NEW lo \in Nat, NEW e \in Entries
  PROVE  /\ (PageAt(lo) \subseteq Addresses(e)) <=> (e.base <= lo /\ lo + Page <= e.top)
         /\ \A x \in PageAt(lo) : x \in Nat /\ lo <= x /\ x < lo + Page
<1>1. Page \in Nat \ {0} /\ e.base \in Nat /\ e.top \in Nat
  BY MemoryAssumption DEF Entries
<1>2. ASSUME PageAt(lo) \subseteq Addresses(e) PROVE e.base <= lo /\ lo + Page <= e.top
  <2>1. lo \in PageAt(lo) /\ lo + Page - 1 \in PageAt(lo)
    BY <1>1 DEF PageAt
  <2>2. lo \in Addresses(e) /\ lo + Page - 1 \in Addresses(e)
    BY <1>2, <2>1
  <2> QED BY <1>1, <2>2 DEF Addresses
<1>3. ASSUME e.base <= lo, lo + Page <= e.top PROVE PageAt(lo) \subseteq Addresses(e)
  BY <1>1, <1>3 DEF PageAt, Addresses
<1>4. \A x \in PageAt(lo) : x \in Nat /\ lo <= x /\ x < lo + Page
  BY <1>1 DEF PageAt
<1> QED BY <1>2, <1>3, <1>4

\* A page that only one usable entry has stays in one.
LEMMA TurnHolds ==
  ASSUME NEW map \in Seq(Entries), NEW p \in DOMAIN map, NEW s, s = [map |-> map, next |-> p], NEW n,
         NEW lo \in Nat, lo % Page = 0, lo >= MiB,
         Keeps(map, PageAt(lo)), ~ Panics(Turn(s, n).map)
  PROVE  Holds(Turn(s, n).map, PageAt(lo))
<1> DEFINE t == Turn(s, n)
           N == Len(map)
           page == PageAt(lo)
<1> SUFFICES Holds(t.map, page)
  OBVIOUS
<1>1. s.map = map /\ s.next = p
  OBVIOUS
<1>2. N \in Nat /\ DOMAIN map = 1 .. N /\ p \in 1 .. N /\ p \in Nat \ {0} /\ \A i \in 1 .. N : map[i] \in Entries
  OBVIOUS
<1>3. Passes(s, t) \/ Stops(s, t) \/ Erases(s, t) \/ Cuts(s, t)
  BY TurnOne
<1>0. ~ Panics(t.map) /\ Alone(map, page) /\ Holds(map, page)
  BY DEF Keeps
<1>8. \A e \in Entries : (page \subseteq Addresses(e)) <=> (e.base <= lo /\ lo + Page <= e.top)
  BY PageIn
<1> HIDE DEF t, N, page
<1>9. PICK i \in DOMAIN map : map[i].type = "usable" /\ page \subseteq Addresses(map[i])
  BY <1>0 DEF Holds
<1>10. ASSUME NEW f, CutAt(f, map, p), i = p PROVE f.base <= lo /\ lo + Page <= f.top /\ f \in Entries
  <2>1. f \in Entries /\ \A x \in Addresses(map[p]) :
          (\A q \in DOMAIN map \ {p} : x \notin Addresses(map[q])) => x \in Addresses(f)
    BY <1>10 DEF CutAt
  <2>2. ASSUME NEW x \in page PROVE x \in Addresses(f)
    <3>1. x \in Addresses(map[p])
      BY <1>9, <1>10
    <3>2. \A q \in DOMAIN map \ {p} : x \notin Addresses(map[q])
      BY <1>0, <3>1 DEF Alone
    <3> QED BY <2>1, <3>1, <3>2
  <2> QED BY <1>8, <2>1, <2>2
<1>4. CASE Passes(s, t)
  <2>1. t.map = map
    BY <1>1, <1>4 DEF Passes
  <2> QED BY <1>0, <2>1
<1>5. CASE Stops(s, t)
  <2>1. PICK f \in Entries : f.type = "panic" /\ t = [map |-> [map EXCEPT ![p] = f], next |-> p + 1]
    BY <1>1, <1>5 DEF Stops
  <2>2. t.map = [map EXCEPT ![p] = f]
    BY <2>1
  <2>3. t.map[p] = f /\ DOMAIN t.map = DOMAIN map
    BY <2>2
  <2> QED BY <1>0, <2>1, <2>3 DEF Panics
<1>6. CASE Erases(s, t)
  <2> DEFINE c == RemoveAt(map, p)
  <2>1. c \in Seq(Entries) /\ MovedUp(c, map, p)
    BY <1>2, Erased DEF N
  <2>2. t.map = c
    BY <1>1, <1>6 DEF Erases
  <2> HIDE DEF c
  <2>3. DOMAIN c = 1 .. (N - 1)
    BY <2>1 DEF MovedUp, N
  <2>4. i # p
    <3> SUFFICES ASSUME i = p PROVE FALSE
      OBVIOUS
    <3>1. PICK f : CutAt(f, map, p) /\ Rejected(f)
      BY <1>1, <1>6 DEF Erases
    <3>2. f.base <= lo /\ lo + Page <= f.top /\ f \in Entries
      BY <1>10, <3>1
    <3> QED BY <3>1, <3>2, PageStays
  <2>5. Unskip(p, i) \in 1 .. (N - 1) /\ c[Unskip(p, i)] = map[i]
    <3>1. Unskip(p, i) \in 1 .. (N - 1) /\ Skip(p, Unskip(p, i)) = i
      BY <1>2, <2>1, <2>4 DEF MovedUp, N
    <3> QED BY <2>1, <3>1 DEF MovedUp, N
  <2> QED BY <1>9, <2>2, <2>3, <2>5 DEF Holds
<1>7. CASE Cuts(s, t)
  <2>1. PICK f : CutAt(f, map, p) /\ ~ Rejected(f) /\ t = [map |-> [map EXCEPT ![p] = Aligned(f)], next |-> p + 1]
    BY <1>1, <1>7 DEF Cuts
  <2> DEFINE g == Aligned(f)
             c == [map EXCEPT ![p] = g]
  <2>2. f \in Entries /\ f.type = map[p].type
    BY <1>2, <2>1 DEF CutAt
  <2>3. g \in Entries /\ g.type = f.type
    BY <2>1, <2>2, AlignedIs
  <2>4. f.base <= lo /\ lo + Page <= f.top => g.base <= lo /\ lo + Page <= g.top
    BY <2>1, <2>2, AlignedIs
  <2> HIDE DEF g
  <2>5. /\ DOMAIN c = DOMAIN map /\ c[p] = g
        /\ \A q \in DOMAIN map \ {p} : c[q] = map[q]
    BY <2>3, Changed
  <2>6. t.map = c
    BY <2>1 DEF g
  <2> HIDE DEF c
  <2>7. CASE i = p
    <3>1. g.base <= lo /\ lo + Page <= g.top
      BY <1>10, <2>1, <2>4, <2>7
    <3>2. page \subseteq Addresses(g)
      BY <1>8, <2>3, <3>1
    <3> QED BY <1>9, <2>2, <2>3, <2>5, <2>6, <2>7, <3>2 DEF Holds
  <2>8. CASE i # p
    BY <1>9, <2>5, <2>6, <2>8 DEF Holds
  <2> QED BY <2>7, <2>8
<1> QED BY <1>3, <1>4, <1>5, <1>6, <1>7

\* A page that one entry has alone has not more entries in a map made of it.
LEMMA AloneFrom ==
  ASSUME NEW new, NEW old, From(new, old), NEW page, Alone(old, page)
  PROVE  Alone(new, page)
<1>1. PICK g \in [DOMAIN new -> SUBSET DOMAIN old] :
        /\ \A i, j \in DOMAIN new : i # j => g[i] \intersect g[j] = {}
        /\ \A i \in DOMAIN new : \A x \in Addresses(new[i]) : \E k \in g[i] : x \in Addresses(old[k])
  BY DEF From
<1> SUFFICES ASSUME NEW x \in page, NEW i \in DOMAIN new, NEW j \in DOMAIN new,
                    x \in Addresses(new[i]), x \in Addresses(new[j]), i # j
             PROVE  FALSE
  BY DEF Alone
<1>2. PICK k \in g[i] : x \in Addresses(old[k])
  BY <1>1
<1>3. PICK l \in g[j] : x \in Addresses(old[l])
  BY <1>1
<1>4. k \in DOMAIN old /\ l \in DOMAIN old /\ k # l
  BY <1>1
<1> QED BY <1>2, <1>3, <1>4 DEF Alone

\* The map after the first loop, if the boot goes on.
ClippedFrom(c, map) ==
  /\ From(c, map)
  /\ Settled(c, Len(c) + 1)
  /\ Owned(map, 1) => Owned(c, Len(c) + 1)
  /\ \A lo \in Nat : lo % Page = 0 /\ lo >= MiB /\ Keeps(map, PageAt(lo)) => Keeps(c, PageAt(lo))

\* All turns.
LEMMA ClippedIs ==
  ASSUME NEW map \in Seq(Entries)
  PROVE  /\ Clipped(map) \in Seq(Entries)
         /\ ~ Panics(Clipped(map)) => ClippedFrom(Clipped(map), map)
<1> DEFINE s == [i \in DOMAIN map |-> i]
           b == [map |-> map, next |-> 1]
           z == FoldLeft(Turn, b, s)
           N == Len(map)
<1>1. s \in Seq(Nat) /\ Len(s) = N /\ (\A n \in 1 .. N : s[n] = n) /\ DOMAIN map = 1 .. N /\ N \in Nat
  BY PlacesOf
<1>2. Clipped(map) = z.map
  BY DEF Clipped, FoldLeftDomain
<1>3. PICK h : Loops("turn", b, s, z, h)
  <2> HIDE DEF s, b
  <2> QED BY <1>1, TurnLoops
<1>4. h[0] = b /\ h[N] = z /\ \A n \in 1 .. N : h[n] = Turn(h[n - 1], s[n])
  BY <1>1, <1>3 DEF Loops, Body
<1> DEFINE K(c) == \A lo \in Nat : lo % Page = 0 /\ lo >= MiB /\ Keeps(map, PageAt(lo)) => Keeps(c, PageAt(lo))
           C(n) == /\ h[n] = [map |-> h[n].map, next |-> h[n].next]
                   /\ h[n].map \in Seq(Entries)
                   /\ h[n].next \in Nat \ {0} /\ h[n].next + N = Len(h[n].map) + n + 1
                   /\ ~ Panics(h[n].map) => /\ From(h[n].map, map)
                                            /\ Settled(h[n].map, h[n].next)
                                            /\ Owned(map, 1) => Owned(h[n].map, h[n].next)
                                            /\ K(h[n].map)
<1>5. C(0)
  <2>1. h[0].map = map /\ h[0].next = 1 /\ h[0] = [map |-> map, next |-> 1]
    BY <1>4
  <2>2. From(map, map)
    BY FromItself
  <2>3. Settled(map, 1)
    <3>1. \A a \in DOMAIN map : ~ (a < 1)
      BY <1>1
    <3> QED BY <3>1 DEF Settled
  <2>4. K(map)
    OBVIOUS
  <2>5. Len(map) = N
    OBVIOUS
  <2> HIDE DEF K, N, s, b, z
  <2> QED BY <1>1, <2>1, <2>2, <2>3, <2>4, <2>5
<1> HIDE DEF s, b, z, N, K
<1>6. ASSUME NEW n \in Nat, n < N, C(n) PROVE C(n + 1)
  <2>0. n + 1 \in 1 .. N /\ n + 1 - 1 = n
    BY <1>1, <1>6
  <2> DEFINE u == h[n]
             m == u.map
             p == u.next
             t == h[n + 1]
             c == t.map
  <2>1. /\ u = [map |-> m, next |-> p] /\ m \in Seq(Entries) /\ p \in Nat \ {0} /\ p + N = Len(m) + n + 1
        /\ ~ Panics(m) => From(m, map) /\ Settled(m, p) /\ (Owned(map, 1) => Owned(m, p)) /\ K(m)
    BY <1>6
  <2>2. t = Turn(u, s[n + 1])
    BY <1>4, <2>0
  <2> HIDE DEF C, u, m, p, t
  <2>3. u.map = m /\ u.next = p
    BY <2>1
  <2>4. p \in DOMAIN m
    <3>1. DOMAIN m = 1 .. Len(m) /\ Len(m) \in Nat
      BY <2>1
    <3> QED BY <1>1, <1>6, <2>1, <3>1
  <2>5. TurnFrame(u, t)
    BY <2>1, <2>2, <2>4, TurnFrames
  <2>6. /\ t = [map |-> c, next |-> t.next] /\ c \in Seq(Entries) /\ t.next \in Nat \ {0}
        /\ t.next + Len(m) = p + Len(c) + 1
        /\ Panics(m) => Panics(c)
        /\ ~ Panics(c) => From(c, m)
    BY <2>3, <2>5 DEF TurnFrame
  <2>7. t.next + N = Len(c) + (n + 1) + 1
    <3> DEFINE a == Len(m)
               d == Len(c)
               q == t.next
    <3>1. a \in Nat /\ d \in Nat
      BY <2>1, <2>6
    <3>2. q \in Nat /\ q + a = p + d + 1 /\ p + N = a + n + 1 /\ p \in Nat /\ N \in Nat
      BY <1>1, <2>1, <2>6
    <3> HIDE DEF a, d, q, c
    <3>3. q + N = d + (n + 1) + 1
      BY <1>6, <3>1, <3>2
    <3> QED BY <3>3 DEF d, q
  <2>8. ASSUME ~ Panics(c)
        PROVE  From(c, map) /\ Settled(c, t.next) /\ (Owned(map, 1) => Owned(c, t.next)) /\ K(c)
    <3>0. From(m, map) /\ Settled(m, p) /\ (Owned(map, 1) => Owned(m, p)) /\ K(m)
      BY <2>1, <2>6, <2>8
    <3>1. From(c, map)
      BY <2>6, <2>8, <3>0, FromFrom
    <3>2. Settled(c, t.next)
      BY <2>1, <2>2, <2>4, <2>8, <3>0, TurnSettles
    <3>3. Owned(map, 1) => Owned(c, t.next)
      BY <2>1, <2>2, <2>4, <2>8, <3>0, TurnOwns
    <3>4. ASSUME NEW lo \in Nat, lo % Page = 0, lo >= MiB, Keeps(map, PageAt(lo)) PROVE Keeps(c, PageAt(lo))
      <4>1. Keeps(m, PageAt(lo))
        BY <3>0, <3>4 DEF K
      <4>2. Holds(c, PageAt(lo))
        BY <2>1, <2>2, <2>4, <2>8, <3>4, <4>1, TurnHolds
      <4>3. Alone(c, PageAt(lo))
        BY <2>6, <2>8, <4>1, AloneFrom DEF Keeps
      <4> QED BY <4>2, <4>3 DEF Keeps
    <3> QED BY <3>1, <3>2, <3>3, <3>4 DEF K
  <2> QED BY <2>6, <2>7, <2>8 DEF C, t
<1> HIDE DEF C
<1>7. C(N)
  <2> DEFINE T == {k \in Nat : k <= N /\ ~ C(k)}
  <2> SUFFICES ASSUME T # {} PROVE FALSE
    BY <1>1
  <2>1. T \in SUBSET Nat
    OBVIOUS
  <2>2. PICK k \in T : \A m \in T : k <= m
    BY <2>1, LeastNatural
  <2>3. k # 0
    BY <1>5, <2>2
  <2>4. k \in Nat /\ k - 1 \in Nat /\ k - 1 < N /\ k - 1 <= N /\ ~ (k <= k - 1) /\ k - 1 + 1 = k
    BY <1>1, <2>2, <2>3
  <2>5. C(k - 1)
    BY <2>2, <2>4
  <2>6. C(k - 1 + 1)
    BY <1>6, <2>4, <2>5
  <2> QED BY <2>2, <2>4, <2>6
<1>8. /\ z.map \in Seq(Entries) /\ z.next \in Nat \ {0} /\ z.next + N = Len(z.map) + N + 1
      /\ ~ Panics(z.map) => /\ From(z.map, map) /\ Settled(z.map, z.next)
                            /\ Owned(map, 1) => Owned(z.map, z.next)
                            /\ K(z.map)
  BY <1>4, <1>7 DEF C
<1>9. z.next = Len(z.map) + 1
  <2>1. Len(z.map) \in Nat /\ z.next \in Nat /\ z.next + N = Len(z.map) + N + 1
    BY <1>8
  <2>2. N \in Nat
    BY <1>1
  <2> QED BY <2>1, <2>2
<1> QED BY <1>2, <1>8, <1>9 DEF ClippedFrom, K

-----------------------------------------------------------------------------
\* The sort.

\* The entries that sorting and merging leave alone.
Lasting(map) == {map[i] : i \in {k \in DOMAIN map : map[k].type # "reclaimable"}}

\* c has the lowest of map's entries from p on at p, for the one at p.
Exchanged(c, map, p, l) ==
  /\ c \in Seq(Entries) /\ DOMAIN c = DOMAIN map /\ Len(c) = Len(map)
  /\ l \in DOMAIN map /\ l >= p
  /\ c[p] = map[l] /\ c[l] = map[p]
  /\ \A k \in DOMAIN map \ {p, l} : c[k] = map[k]
  /\ \A j \in DOMAIN map : j >= p => map[l].base <= map[j].base

\* One turn of the sort.
LEMMA SwapOne ==
  ASSUME NEW map \in Seq(Entries), NEW p \in DOMAIN map
  PROVE  \E l : Exchanged(Swapped(map, p), map, p, l)
<1> DEFINE N == Len(map)
           L == {i \in p .. N : \A j \in p .. N : map[i].base <= map[j].base}
           B == {map[i].base : i \in p .. N}
           l == Min(L)
<1>1. /\ N \in Nat /\ DOMAIN map = 1 .. N /\ p \in 1 .. N /\ p \in Nat /\ p \in p .. N
      /\ \A i \in p .. N : i \in 1 .. N /\ i \in Nat
      /\ \A i \in 1 .. N : map[i] \in Entries /\ map[i].base \in Nat
  BY DEF Entries
<1>2. Swapped(map, p) = [map EXCEPT ![p] = map[l], ![l] = map[p]]
  BY DEF Swapped
<1>3. L # {}
  <2> HIDE DEF N, L
  <2>1. B \in SUBSET Nat /\ B # {}
    BY <1>1
  <2> HIDE DEF B
  <2>2. PICK x \in B : \A y \in B : x <= y
    BY <2>1, LeastNatural
  <2> USE DEF B
  <2>3. PICK i \in p .. N : x = map[i].base
    BY <2>2
  <2>4. \A j \in p .. N : map[i].base <= map[j].base
    BY <2>2, <2>3
  <2> QED BY <2>4 DEF L
<1>4. L \in SUBSET Nat
  BY <1>1
<1> HIDE DEF L
<1>5. l \in L
  BY <1>3, <1>4, FirstPlace
<1>6. l \in p .. N /\ \A j \in p .. N : map[l].base <= map[j].base
  BY <1>5 DEF L
<1> HIDE DEF l, N
<1> DEFINE c == [map EXCEPT ![p] = map[l], ![l] = map[p]]
           d == [map EXCEPT ![p] = map[l]]
<1>7. d \in Seq(Entries) /\ Len(d) = Len(map) /\ DOMAIN d = DOMAIN map /\ d[p] = map[l]
      /\ \A q \in DOMAIN map \ {p} : d[q] = map[q]
  BY <1>1, <1>6, Changed
<1>8. c = [d EXCEPT ![l] = map[p]]
  OBVIOUS
<1> HIDE DEF d
<1>9. c \in Seq(Entries) /\ Len(c) = Len(d) /\ DOMAIN c = DOMAIN d /\ c[l] = map[p]
      /\ \A q \in DOMAIN d \ {l} : c[q] = d[q]
  <2>1. l \in DOMAIN d /\ map[p] \in Entries
    BY <1>1, <1>6, <1>7
  <2> HIDE DEF c
  <2> QED BY <1>7, <1>8, <2>1, Changed
<1> HIDE DEF c
<1>10. c[p] = map[l]
  BY <1>1, <1>7, <1>9
<1>11. l \in DOMAIN map /\ l >= p
  BY <1>1, <1>6
<1>12. \A j \in DOMAIN map : j >= p => map[l].base <= map[j].base
  BY <1>1, <1>6
<1>13. Exchanged(c, map, p, l)
  BY <1>7, <1>9, <1>10, <1>11, <1>12 DEF Exchanged
<1> QED BY <1>2, <1>13 DEF c

\* A map with the same entries, in another order.
Rearranged(c, map) ==
  c \in Seq(Entries) /\ DOMAIN c = DOMAIN map /\ From(c, map) /\ Lasting(c) = Lasting(map)

\* An exchange rearranges.
LEMMA ExchangeKeeps ==
  ASSUME NEW map \in Seq(Entries), NEW p \in DOMAIN map, NEW c, NEW l, Exchanged(c, map, p, l)
  PROVE  Rearranged(c, map)
<1> DEFINE f == [k \in DOMAIN c |-> IF k = p THEN l ELSE IF k = l THEN p ELSE k]
<1>1. /\ c \in Seq(Entries) /\ DOMAIN c = DOMAIN map
      /\ l \in DOMAIN map
      /\ c[p] = map[l] /\ c[l] = map[p]
      /\ \A k \in DOMAIN map \ {p, l} : c[k] = map[k]
  BY DEF Exchanged
<1>2. f \in [DOMAIN c -> DOMAIN map]
  BY <1>1
<1>3. /\ \A k \in DOMAIN c : f[k] = IF k = p THEN l ELSE IF k = l THEN p ELSE k
  OBVIOUS
<1> HIDE DEF f
<1>4. \A i, j \in DOMAIN c : i # j => f[i] # f[j]
  BY <1>1, <1>3
<1>5. \A i \in DOMAIN c : c[i] = map[f[i]] /\ f[i] \in DOMAIN map
  BY <1>1, <1>2, <1>3
<1>6. From(c, map)
  BY <1>2, <1>4, <1>5, FromPlaces
<1>7. \A i \in DOMAIN c : f[i] \in DOMAIN c /\ map[i] = c[f[i]]
  BY <1>1, <1>2, <1>3
<1>8. Lasting(c) = Lasting(map)
  <2>1. \A x \in Lasting(c) : x \in Lasting(map)
    BY <1>5 DEF Lasting
  <2>2. ASSUME NEW x \in Lasting(map) PROVE x \in Lasting(c)
    <3>1. PICK i \in DOMAIN map : x = map[i] /\ map[i].type # "reclaimable"
      BY DEF Lasting
    <3>2. f[i] \in DOMAIN c /\ x = c[f[i]] /\ c[f[i]].type # "reclaimable"
      BY <1>1, <1>7, <3>1
    <3> QED BY <3>2 DEF Lasting
  <2> QED BY <2>1, <2>2
<1> QED BY <1>1, <1>6, <1>8 DEF Rearranged

\* The first n entries are the lowest, in order.
LowestFirst(map, n) ==
  \A i, j \in DOMAIN map : i <= n /\ i < j => map[i].base <= map[j].base

\* And then the first p.
LEMMA ExchangeSorts ==
  ASSUME NEW map \in Seq(Entries), NEW p \in DOMAIN map, LowestFirst(map, p - 1),
         NEW c, NEW l, Exchanged(c, map, p, l)
  PROVE  LowestFirst(c, p)
<1> DEFINE N == Len(map)
<1>1. N \in Nat /\ DOMAIN map = 1 .. N /\ p \in 1 .. N /\ p \in Nat
  OBVIOUS
<1>2. /\ DOMAIN c = DOMAIN map
      /\ l \in DOMAIN map /\ l >= p
      /\ c[p] = map[l] /\ c[l] = map[p]
      /\ \A k \in DOMAIN map \ {p, l} : c[k] = map[k]
      /\ \A j \in DOMAIN map : j >= p => map[l].base <= map[j].base
  BY DEF Exchanged
<1> HIDE DEF N
<1> SUFFICES ASSUME NEW i \in 1 .. N, NEW j \in 1 .. N, i <= p, i < j PROVE c[i].base <= c[j].base
  BY <1>1, <1>2 DEF LowestFirst
<1>3. \E k \in 1 .. N : c[j] = map[k] /\ (k >= p \/ k = j)
  <2>1. CASE j = p
    BY <1>1, <1>2, <2>1
  <2>2. CASE j = l
    BY <1>1, <1>2, <2>2
  <2>3. CASE j # p /\ j # l
    BY <1>1, <1>2, <2>3
  <2> QED BY <2>1, <2>2, <2>3
<1>4. PICK k \in 1 .. N : c[j] = map[k] /\ (k >= p \/ k = j)
  BY <1>3
<1>5. CASE i = p
  <2>1. k >= p
    BY <1>1, <1>4, <1>5
  <2> QED BY <1>1, <1>2, <1>4, <1>5, <2>1
<1>6. CASE i < p
  <2>1. i # p /\ i # l /\ c[i] = map[i] /\ i <= p - 1 /\ i < k
    BY <1>1, <1>2, <1>4, <1>6
  <2>2. map[i].base <= map[k].base
    BY <1>1, <2>1 DEF LowestFirst
  <2> QED BY <1>4, <2>1, <2>2
<1> QED BY <1>1, <1>5, <1>6

\* The sort puts the same entries in order.
LEMMA SortedIs ==
  ASSUME NEW map \in Seq(Entries)
  PROVE  Rearranged(Sorted(map), map) /\ Ascending(Sorted(map))
<1> DEFINE s == [i \in DOMAIN map |-> i]
           z == FoldLeft(Swapped, map, s)
           N == Len(map)
<1>1. s \in Seq(Nat) /\ Len(s) = N /\ (\A n \in 1 .. N : s[n] = n) /\ DOMAIN map = 1 .. N /\ N \in Nat
  BY PlacesOf
<1>2. Sorted(map) = z
  BY DEF Sorted, FoldLeftDomain
<1>3. PICK h : Loops("swap", map, s, z, h)
  <2> HIDE DEF s
  <2> QED BY <1>1, SwapLoops
<1>4. h[0] = map /\ h[N] = z /\ \A n \in 1 .. N : h[n] = Swapped(h[n - 1], n)
  BY <1>1, <1>3 DEF Loops, Body
<1> DEFINE C(n) == Rearranged(h[n], map) /\ LowestFirst(h[n], n)
<1> HIDE DEF s, z, N
<1>5. C(0)
  <2>1. From(map, map)
    BY FromItself
  <2>2. LowestFirst(map, 0)
    BY <1>1 DEF LowestFirst
  <2> QED BY <1>4, <2>1, <2>2 DEF Rearranged
<1>6. ASSUME NEW n \in Nat, n < N, C(n) PROVE C(n + 1)
  <2>0. n + 1 \in 1 .. N /\ n + 1 - 1 = n
    BY <1>1, <1>6
  <2> DEFINE m == h[n]
             c == h[n + 1]
             p == n + 1
  <2>1. m \in Seq(Entries) /\ DOMAIN m = 1 .. N /\ From(m, map) /\ Lasting(m) = Lasting(map) /\ LowestFirst(m, n)
    BY <1>1, <1>6 DEF Rearranged
  <2>2. c = Swapped(m, p) /\ p \in DOMAIN m /\ p - 1 = n
    BY <1>4, <2>0, <2>1
  <2> HIDE DEF m, c, p
  <2>3. PICK l : Exchanged(c, m, p, l)
    BY <2>1, <2>2, SwapOne
  <2>4. c \in Seq(Entries) /\ DOMAIN c = DOMAIN m /\ From(c, m) /\ Lasting(c) = Lasting(m)
    BY <2>1, <2>2, <2>3, ExchangeKeeps DEF Rearranged
  <2>5. LowestFirst(c, p)
    BY <2>1, <2>2, <2>3, ExchangeSorts
  <2>6. From(c, map)
    BY <2>1, <2>4, FromFrom
  <2>7. Rearranged(c, map)
    BY <1>1, <2>1, <2>4, <2>6 DEF Rearranged
  <2> QED BY <2>5, <2>7 DEF c, p
<1> HIDE DEF C
<1>7. C(N)
  <2> DEFINE T == {k \in Nat : k <= N /\ ~ C(k)}
  <2> SUFFICES ASSUME T # {} PROVE FALSE
    BY <1>1
  <2>1. T \in SUBSET Nat
    OBVIOUS
  <2>2. PICK k \in T : \A m \in T : k <= m
    BY <2>1, LeastNatural
  <2>3. k # 0
    BY <1>5, <2>2
  <2>4. k \in Nat /\ k - 1 \in Nat /\ k - 1 < N /\ k - 1 <= N /\ ~ (k <= k - 1) /\ k - 1 + 1 = k
    BY <1>1, <2>2, <2>3
  <2>5. C(k - 1)
    BY <2>2, <2>4
  <2>6. C(k - 1 + 1)
    BY <1>6, <2>4, <2>5
  <2> QED BY <2>2, <2>4, <2>6
<1>8. Rearranged(z, map) /\ LowestFirst(z, N)
  BY <1>4, <1>7 DEF C
<1>9. Ascending(z)
  <2>1. DOMAIN z = 1 .. N /\ \A i \in 1 .. N : i <= N
    BY <1>1, <1>8 DEF Rearranged
  <2> QED BY <1>8, <2>1 DEF Ascending, LowestFirst
<1> QED BY <1>2, <1>8, <1>9

-----------------------------------------------------------------------------
\* The merge.

\* The first n entries of a map.
FirstOf(s, n) == [i \in 1 .. n |-> s[i]]

\* Merging appends an entry or lets the last one grow over it.
LEMMA MergeOne ==
  ASSUME NEW m \in Seq(Entries), NEW e \in Entries
  PROVE  \/ Merge(m, e) = Append(m, e)
         \/ /\ Len(m) > 0 /\ m[Len(m)].type = "reclaimable" /\ e.type = "reclaimable"
            /\ m[Len(m)].top = e.base
            /\ Merge(m, e) = [m EXCEPT ![Len(m)] = Entry(m[Len(m)].base, e.top, "reclaimable")]
<1>1. CASE m # <<>> /\ Last(m).type = "reclaimable" /\ e.type = "reclaimable" /\ Last(m).top = e.base
  <2>1. Len(m) \in 1 .. Len(m) /\ Len(m) > 0
    BY <1>1
  <2>2. m[Len(m)] = [base |-> m[Len(m)].base, top |-> m[Len(m)].top, type |-> m[Len(m)].type]
    BY <2>1 DEF Entries
  <2>3. Merge(m, e) = [m EXCEPT ![Len(m)].top = e.top]
    BY <1>1 DEF Merge
  <2>4. Last(m) = m[Len(m)]
    BY DEF Last
  <2>5. [m[Len(m)] EXCEPT !.top = e.top] = Entry(m[Len(m)].base, e.top, "reclaimable")
    BY <1>1, <2>2, <2>4 DEF Entry
  <2> QED BY <1>1, <2>1, <2>3, <2>4, <2>5
<1>2. CASE ~ (m # <<>> /\ Last(m).type = "reclaimable" /\ e.type = "reclaimable" /\ Last(m).top = e.base)
  BY <1>2 DEF Merge
<1> QED BY <1>1, <1>2

\* The map after n entries were merged.
MergedTo(m, s, n) ==
  /\ m \in Seq(Entries)
  /\ From(m, FirstOf(s, n)) /\ Lasting(m) = Lasting(FirstOf(s, n))
  /\ \A k \in DOMAIN m : \E i \in 1 .. n : m[k].base = s[i].base
  /\ Ascending(s) => Ascending(m)

\* One entry more.
LEMMA MergeOn ==
  ASSUME NEW s \in Seq(Entries), NEW n \in Nat, n < Len(s), NEW m, MergedTo(m, s, n)
  PROVE  MergedTo(Merge(m, s[n + 1]), s, n + 1)
<1> DEFINE e == s[n + 1]
           c == Merge(m, e)
           o == FirstOf(s, n)
           w == FirstOf(s, n + 1)
           l == Len(m)
<1>1. /\ m \in Seq(Entries) /\ DOMAIN m = 1 .. l /\ l \in Nat
      /\ e \in Entries
      /\ o \in [1 .. n -> Entries] /\ w \in [1 .. n + 1 -> Entries]
      /\ w[n + 1] = e /\ \A i \in 1 .. n : w[i] = o[i] /\ w[i] = s[i]
      /\ \A i \in 1 .. n : i # n + 1
      /\ DOMAIN o = 1 .. n /\ DOMAIN w = (1 .. n) \union {n + 1}
      /\ \A k \in DOMAIN m : m[k] \in Entries
  BY DEF MergedTo, FirstOf
<1>2. PICK g \in [DOMAIN m -> SUBSET DOMAIN o] :
        /\ \A i, j \in DOMAIN m : i # j => g[i] \intersect g[j] = {}
        /\ \A i \in DOMAIN m : \A x \in Addresses(m[i]) : \E k \in g[i] : x \in Addresses(o[k])
        /\ \A i \in DOMAIN m : \A k \in g[i] : o[k].type = m[i].type
  BY DEF MergedTo, From
<1>3. /\ Lasting(m) = Lasting(o)
      /\ \A k \in 1 .. l : \E i \in 1 .. n : m[k].base = s[i].base
      /\ Ascending(s) => Ascending(m)
  BY <1>1 DEF MergedTo
<1>4. \/ c = Append(m, e)
      \/ /\ l > 0 /\ m[l].type = "reclaimable" /\ e.type = "reclaimable"
         /\ m[l].top = e.base
         /\ c = [m EXCEPT ![l] = Entry(m[l].base, e.top, "reclaimable")]
  BY <1>1, MergeOne
<1>5. Ascending(s) => \A i \in 1 .. n : s[i].base <= e.base
  <2>1. \A i \in 1 .. n : i \in DOMAIN s /\ n + 1 \in DOMAIN s /\ i < n + 1
    OBVIOUS
  <2> QED BY <2>1 DEF Ascending
<1> HIDE DEF e, c, o, w, l
<1>6. Lasting(w) = Lasting(o) \union (IF e.type # "reclaimable" THEN {e} ELSE {})
  <2>1. ASSUME NEW x PROVE x \in Lasting(w) <=> x \in Lasting(o) \/ (e.type # "reclaimable" /\ x = e)
    <3>1. x \in Lasting(w) <=> \E i \in (1 .. n) \union {n + 1} : w[i].type # "reclaimable" /\ x = w[i]
      BY <1>1 DEF Lasting
    <3>2. x \in Lasting(o) <=> \E i \in 1 .. n : o[i].type # "reclaimable" /\ x = o[i]
      BY <1>1 DEF Lasting
    <3> QED BY <1>1, <3>1, <3>2
  <2> QED BY <2>1
<1>7. CASE c = Append(m, e)
  <2>1. /\ c \in Seq(Entries) /\ DOMAIN c = (1 .. l) \union {l + 1} /\ c[l + 1] = e
        /\ \A k \in 1 .. l : c[k] = m[k] /\ k < l + 1
        /\ l + 1 \notin 1 .. l
    BY <1>1, <1>7 DEF l
  <2>2. From(c, w)
    <3> DEFINE f == [k \in DOMAIN c |-> IF k = l + 1 THEN {n + 1} ELSE g[k]]
    <3>1. f[l + 1] = {n + 1} /\ \A k \in 1 .. l : f[k] = g[k] /\ g[k] \in SUBSET (1 .. n)
      BY <1>1, <1>2, <2>1
    <3>2. f \in [DOMAIN c -> SUBSET DOMAIN w]
      BY <1>1, <1>2, <2>1
    <3> HIDE DEF f
    <3>3. ASSUME NEW i \in DOMAIN c, NEW j \in DOMAIN c, i # j PROVE f[i] \intersect f[j] = {}
      <4>1. CASE i = l + 1
        BY <1>1, <2>1, <3>1, <3>3, <4>1
      <4>2. CASE j = l + 1
        BY <1>1, <2>1, <3>1, <3>3, <4>2
      <4>3. CASE i # l + 1 /\ j # l + 1
        BY <1>1, <1>2, <2>1, <3>1, <3>3, <4>3
      <4> QED BY <4>1, <4>2, <4>3
    <3>4. ASSUME NEW i \in DOMAIN c, NEW x \in Addresses(c[i]) PROVE \E k \in f[i] : x \in Addresses(w[k])
      <4>1. CASE i = l + 1
        BY <1>1, <2>1, <3>1, <4>1
      <4>2. CASE i # l + 1
        <5>1. i \in 1 .. l /\ c[i] = m[i] /\ f[i] = g[i] /\ g[i] \in SUBSET (1 .. n)
          BY <2>1, <3>1, <4>2
        <5>2. PICK k \in g[i] : x \in Addresses(o[k])
          BY <1>1, <1>2, <5>1
        <5> QED BY <1>1, <5>1, <5>2
      <4> QED BY <4>1, <4>2
    <3>5. ASSUME NEW i \in DOMAIN c, NEW k \in f[i] PROVE w[k].type = c[i].type
      <4>1. CASE i = l + 1
        BY <1>1, <2>1, <3>1, <4>1
      <4>2. CASE i # l + 1
        BY <1>1, <1>2, <2>1, <3>1, <4>2
      <4> QED BY <4>1, <4>2
    <3> QED BY <3>2, <3>3, <3>4, <3>5 DEF From
  <2>3. Lasting(c) = Lasting(m) \union (IF e.type # "reclaimable" THEN {e} ELSE {})
    <3>1. ASSUME NEW x PROVE x \in Lasting(c) <=> x \in Lasting(m) \/ (e.type # "reclaimable" /\ x = e)
      <4>1. x \in Lasting(c) <=> \E i \in (1 .. l) \union {l + 1} : c[i].type # "reclaimable" /\ x = c[i]
        BY <2>1 DEF Lasting
      <4>2. x \in Lasting(m) <=> \E i \in 1 .. l : m[i].type # "reclaimable" /\ x = m[i]
        BY <1>1 DEF Lasting
      <4> QED BY <2>1, <4>1, <4>2
    <3> QED BY <3>1
  <2>4. \A k \in DOMAIN c : \E i \in 1 .. n + 1 : c[k].base = s[i].base
    <3>1. n + 1 \in 1 .. n + 1 /\ \A i \in 1 .. n : i \in 1 .. n + 1
      OBVIOUS
    <3>2. c[l + 1].base = s[n + 1].base
      BY <2>1 DEF e
    <3> QED BY <1>3, <2>1, <3>1, <3>2
  <2>5. ASSUME Ascending(s) PROVE Ascending(c)
    <3> SUFFICES ASSUME NEW i \in DOMAIN c, NEW j \in DOMAIN c, i < j PROVE c[i].base <= c[j].base
      BY DEF Ascending
    <3>1. i \in 1 .. l
      BY <1>1, <2>1
    <3>2. CASE j = l + 1
      <4>1. PICK k \in 1 .. n : m[i].base = s[k].base
        BY <1>3, <3>1
      <4>2. s[k].base <= e.base
        BY <1>5, <2>5
      <4> QED BY <2>1, <3>1, <3>2, <4>1, <4>2
    <3>3. CASE j # l + 1
      <4>1. j \in 1 .. l
        BY <2>1, <3>3
      <4> QED BY <1>1, <1>3, <2>1, <2>5, <3>1, <4>1 DEF Ascending
    <3> QED BY <3>2, <3>3
  <2>6. Lasting(c) = Lasting(w)
    BY <1>3, <1>6, <2>3
  <2> QED BY <2>1, <2>2, <2>4, <2>5, <2>6 DEF MergedTo, w, c, e
<1>8. CASE /\ l > 0 /\ m[l].type = "reclaimable" /\ e.type = "reclaimable"
           /\ m[l].top = e.base
           /\ c = [m EXCEPT ![l] = Entry(m[l].base, e.top, "reclaimable")]
  <2> DEFINE u == Entry(m[l].base, e.top, "reclaimable")
  <2>0. l \in 1 .. l /\ m[l] \in Entries
    BY <1>1, <1>8
  <2>1. u \in Entries /\ u.base = m[l].base /\ u.top = e.top /\ u.type = "reclaimable"
    <3>1. m[l].base \in Nat /\ m[l].base <= m[l].top /\ e.top \in Nat /\ e.base \in Nat /\ e.base <= e.top
      BY <1>1, <2>0 DEF Entries
    <3>2. m[l].base <= e.top
      BY <1>8, <3>1
    <3> QED BY <3>1, <3>2 DEF Entries, Entry
  <2> HIDE DEF u
  <2>2. /\ c \in Seq(Entries) /\ DOMAIN c = 1 .. l /\ c[l] = u
        /\ \A k \in 1 .. l : k # l => c[k] = m[k]
    <3>1. /\ [m EXCEPT ![l] = u] \in Seq(Entries) /\ DOMAIN [m EXCEPT ![l] = u] = DOMAIN m
          /\ [m EXCEPT ![l] = u][l] = u
          /\ \A q \in DOMAIN m \ {l} : [m EXCEPT ![l] = u][q] = m[q]
      BY <1>1, <2>0, <2>1, Changed
    <3>2. c = [m EXCEPT ![l] = u]
      BY <1>8 DEF u
    <3> QED BY <1>1, <3>1, <3>2
  <2>3. \A x \in Addresses(u) : x \in Addresses(m[l]) \/ x \in Addresses(e)
    BY <1>1, <1>8, <2>0, <2>1 DEF Addresses, Entries
  <2>4. From(c, w)
    <3> DEFINE f == [k \in DOMAIN c |-> IF k = l THEN g[l] \union {n + 1} ELSE g[k]]
    <3>1. /\ f[l] = g[l] \union {n + 1} /\ \A k \in 1 .. l : k # l => f[k] = g[k]
          /\ \A k \in 1 .. l : g[k] \in SUBSET (1 .. n)
      BY <1>1, <1>2, <2>0, <2>2
    <3>2. f \in [DOMAIN c -> SUBSET DOMAIN w]
      BY <1>1, <1>2, <2>0, <2>2
    <3> HIDE DEF f
    <3>3. ASSUME NEW i \in DOMAIN c, NEW j \in DOMAIN c, i # j PROVE f[i] \intersect f[j] = {}
      <4>0. g[i] \intersect g[j] = {}
        BY <1>1, <1>2, <2>2, <3>3
      <4>1. CASE i = l
        BY <1>1, <2>2, <3>1, <3>3, <4>0, <4>1
      <4>2. CASE j = l
        BY <1>1, <2>2, <3>1, <3>3, <4>0, <4>2
      <4>3. CASE i # l /\ j # l
        BY <2>2, <3>1, <4>0, <4>3
      <4> QED BY <4>1, <4>2, <4>3
    <3>4. ASSUME NEW i \in DOMAIN c, NEW x \in Addresses(c[i]) PROVE \E k \in f[i] : x \in Addresses(w[k])
      <4>1. ASSUME x \in Addresses(m[i]) PROVE \E k \in f[i] : x \in Addresses(w[k])
        <5>1. PICK k \in g[i] : x \in Addresses(o[k])
          BY <1>1, <1>2, <2>2, <4>1
        <5>2. k \in 1 .. n /\ k \in f[i]
          BY <2>2, <3>1, <5>1
        <5> QED BY <1>1, <5>1, <5>2
      <4>2. CASE i = l /\ x \in Addresses(e)
        BY <1>1, <3>1, <4>2
      <4> QED BY <2>2, <2>3, <4>1, <4>2
    <3>5. ASSUME NEW i \in DOMAIN c, NEW k \in f[i] PROVE w[k].type = c[i].type
      <4>1. CASE k \in g[i]
        <5>1. o[k].type = m[i].type /\ k \in 1 .. n
          BY <1>1, <1>2, <2>2, <3>1, <4>1
        <5>2. m[i].type = c[i].type
          BY <1>8, <2>1, <2>2
        <5> QED BY <1>1, <5>1, <5>2
      <4>2. CASE k \notin g[i]
        <5>1. i = l /\ k = n + 1
          BY <2>2, <3>1, <4>2
        <5> QED BY <1>1, <1>8, <2>1, <2>2, <5>1
      <4> QED BY <4>1, <4>2
    <3> QED BY <3>2, <3>3, <3>4, <3>5 DEF From
  <2>5. Lasting(c) = Lasting(m)
    <3>1. ASSUME NEW x PROVE x \in Lasting(c) <=> x \in Lasting(m)
      <4>1. x \in Lasting(c) <=> \E i \in 1 .. l : c[i].type # "reclaimable" /\ x = c[i]
        BY <2>2 DEF Lasting
      <4>2. x \in Lasting(m) <=> \E i \in 1 .. l : m[i].type # "reclaimable" /\ x = m[i]
        BY <1>1 DEF Lasting
      <4> QED BY <1>8, <2>1, <2>2, <4>1, <4>2
    <3> QED BY <3>1
  <2>6. \A k \in DOMAIN c : c[k].base = m[k].base
    BY <2>1, <2>2
  <2>7. \A k \in DOMAIN c : \E i \in 1 .. n + 1 : c[k].base = s[i].base
    <3>1. \A i \in 1 .. n : i \in 1 .. n + 1
      OBVIOUS
    <3> QED BY <1>3, <2>2, <2>6, <3>1
  <2>8. ASSUME Ascending(s) PROVE Ascending(c)
    BY <1>1, <1>3, <2>2, <2>6, <2>8 DEF Ascending
  <2>9. Lasting(c) = Lasting(w)
    BY <1>3, <1>6, <1>8, <2>5
  <2> QED BY <2>2, <2>4, <2>7, <2>8, <2>9 DEF MergedTo, w, c, e
<1> QED BY <1>4, <1>7, <1>8

\* The whole map.
LEMMA MergedIs ==
  ASSUME NEW s \in Seq(Entries)
  PROVE  MergedTo(FoldLeft(Merge, <<>>, s), s, Len(s))
<1> DEFINE z == FoldLeft(Merge, <<>>, s)
           N == Len(s)
<1>1. PICK h : Loops("merge", <<>>, s, z, h)
  BY MergeLoops
<1>2. N \in Nat
  OBVIOUS
<1>3. h[0] = <<>> /\ h[N] = z /\ \A n \in 1 .. N : h[n] = Merge(h[n - 1], s[n])
  BY <1>1 DEF Loops, Body
<1> DEFINE C(n) == MergedTo(h[n], s, n)
<1> HIDE DEF z, N
<1>4. C(0)
  <2> DEFINE b == <<>>
  <2>1. b \in Seq(Entries) /\ DOMAIN b = {}
    OBVIOUS
  <2>2. FirstOf(s, 0) = [i \in {} |-> s[i]] /\ DOMAIN FirstOf(s, 0) = {}
    <3>1. 1 .. 0 = {}
      OBVIOUS
    <3> QED BY <3>1 DEF FirstOf
  <2> HIDE DEF b
  <2>3. From(b, FirstOf(s, 0))
    <3> DEFINE f == [i \in DOMAIN b |-> {}]
    <3>1. f \in [DOMAIN b -> SUBSET DOMAIN FirstOf(s, 0)]
      OBVIOUS
    <3> HIDE DEF f
    <3> QED BY <2>1, <3>1 DEF From
  <2>4. Lasting(b) = {} /\ Lasting(FirstOf(s, 0)) = {}
    BY <2>1, <2>2 DEF Lasting
  <2>5. Ascending(b)
    BY <2>1 DEF Ascending
  <2> QED BY <1>3, <2>1, <2>3, <2>4, <2>5 DEF MergedTo, b
<1>5. ASSUME NEW n \in Nat, n < N, C(n) PROVE C(n + 1)
  <2>1. n + 1 \in 1 .. N /\ n + 1 - 1 = n
    BY <1>2, <1>5
  <2>2. h[n + 1] = Merge(h[n], s[n + 1])
    BY <1>3, <2>1
  <2>3. MergedTo(h[n], s, n)
    BY <1>5
  <2>4. MergedTo(Merge(h[n], s[n + 1]), s, n + 1)
    BY <1>5, <2>3, MergeOn DEF N
  <2> QED BY <2>2, <2>4
<1> HIDE DEF C
<1>6. C(N)
  <2> DEFINE T == {k \in Nat : k <= N /\ ~ C(k)}
  <2> SUFFICES ASSUME T # {} PROVE FALSE
    BY <1>2
  <2>1. T \in SUBSET Nat
    OBVIOUS
  <2>2. PICK k \in T : \A m \in T : k <= m
    BY <2>1, LeastNatural
  <2>3. k # 0
    BY <1>4, <2>2
  <2>4. k \in Nat /\ k - 1 \in Nat /\ k - 1 < N /\ k - 1 <= N /\ ~ (k <= k - 1) /\ k - 1 + 1 = k
    BY <1>2, <2>2, <2>3
  <2>5. C(k - 1)
    BY <2>2, <2>4
  <2>6. C(k - 1 + 1)
    BY <1>5, <2>4, <2>5
  <2> QED BY <2>2, <2>4, <2>6
<1> QED BY <1>3, <1>6 DEF C, z, N

-----------------------------------------------------------------------------
\* sanitise_entries as a whole.

\* What a map keeps when the entries other than reclaimable ones stay.
LEMMA LastingKeeps ==
  ASSUME NEW new, NEW old, Lasting(new) = Lasting(old)
  PROVE  /\ Panics(new) <=> Panics(old)
         /\ (\A i \in DOMAIN old : Whole(old[i])) => \A i \in DOMAIN new : Whole(new[i])
         /\ \A page : Holds(old, page) => Holds(new, page)
<1>1. ASSUME NEW a, NEW b, Lasting(a) = Lasting(b), NEW i \in DOMAIN a, a[i].type # "reclaimable"
      PROVE  \E k \in DOMAIN b : b[k] = a[i]
  <2>1. a[i] \in Lasting(a)
    BY <1>1 DEF Lasting
  <2>2. a[i] \in Lasting(b)
    BY <1>1, <2>1
  <2> QED BY <2>2 DEF Lasting
<1>2. \A i \in DOMAIN new : new[i].type # "reclaimable" => \E k \in DOMAIN old : old[k] = new[i]
  BY <1>1
<1>3. \A i \in DOMAIN old : old[i].type # "reclaimable" => \E k \in DOMAIN new : new[k] = old[i]
  BY <1>1
<1>4. Panics(new) <=> Panics(old)
  <2>1. ASSUME Panics(new) PROVE Panics(old)
    BY <1>2, <2>1 DEF Panics
  <2>2. ASSUME Panics(old) PROVE Panics(new)
    BY <1>3, <2>2 DEF Panics
  <2> QED BY <2>1, <2>2
<1>5. ASSUME \A i \in DOMAIN old : Whole(old[i]), NEW i \in DOMAIN new PROVE Whole(new[i])
  <2>1. CASE new[i].type = "usable"
    <3>1. PICK k \in DOMAIN old : old[k] = new[i]
      BY <1>2, <2>1
    <3> QED BY <1>5, <3>1
  <2>2. CASE new[i].type # "usable"
    BY <2>2 DEF Whole
  <2> QED BY <2>1, <2>2
<1>6. ASSUME NEW page, Holds(old, page) PROVE Holds(new, page)
  <2>1. PICK i \in DOMAIN old : old[i].type = "usable" /\ page \subseteq Addresses(old[i])
    BY <1>6 DEF Holds
  <2>2. PICK k \in DOMAIN new : new[k] = old[i]
    BY <1>3, <2>1
  <2> QED BY <2>1, <2>2 DEF Holds
<1> QED BY <1>4, <1>5, <1>6

\* What does not overlap does not in a map made of it.
LEMMA OverlapFrom ==
  ASSUME NEW new, NEW old, From(new, old)
  PROVE  /\ UsablesApart(old) => UsablesApart(new)
         /\ OnlyReservedOverlap(old) => OnlyReservedOverlap(new)
<1>1. PICK g \in [DOMAIN new -> SUBSET DOMAIN old] :
        /\ \A i, j \in DOMAIN new : i # j => g[i] \intersect g[j] = {}
        /\ \A i \in DOMAIN new : \A x \in Addresses(new[i]) : \E k \in g[i] : x \in Addresses(old[k])
        /\ \A i \in DOMAIN new : \A k \in g[i] : old[k].type = new[i].type
  BY DEF From
<1>2. ASSUME NEW i \in DOMAIN new, NEW j \in DOMAIN new, i # j,
             NEW x \in Addresses(new[i]), x \in Addresses(new[j])
      PROVE  \E k, l \in DOMAIN old : /\ k # l /\ x \in Addresses(old[k]) /\ x \in Addresses(old[l])
                                      /\ old[k].type = new[i].type /\ old[l].type = new[j].type
  <2>1. PICK k \in g[i] : x \in Addresses(old[k])
    BY <1>1
  <2>2. PICK l \in g[j] : x \in Addresses(old[l])
    BY <1>1, <1>2
  <2>3. k \in DOMAIN old /\ l \in DOMAIN old /\ k # l
    BY <1>1, <1>2
  <2> QED BY <1>1, <2>1, <2>2, <2>3
<1>3. ASSUME UsablesApart(old) PROVE UsablesApart(new)
  BY <1>2, <1>3 DEF UsablesApart
<1>4. ASSUME OnlyReservedOverlap(old) PROVE OnlyReservedOverlap(new)
  BY <1>2, <1>4 DEF OnlyReservedOverlap
<1> QED BY <1>3, <1>4

\* Entries that are apart have no address in common.
LEMMA ApartAddresses ==
  ASSUME NEW e \in Entries, NEW f \in Entries, Apart(e, f)
  PROVE  \A x \in Addresses(e) : x \notin Addresses(f)
BY DEF Entries, Apart, Addresses

\* The map after sanitise_entries, if the boot goes on.
TidiedFrom(z, map) ==
  /\ From(z, map)
  /\ Ascending(z)
  /\ \A i \in DOMAIN z : Whole(z[i])
  /\ UsablesApart(z)
  /\ OnlyReservedOverlap(map) => OnlyReservedOverlap(z)
  /\ Owned(map, 1) /\ (\A i \in DOMAIN map : map[i].type \in {"usable", "reserved"}) => OnlyReservedOverlap(z)
  /\ \A lo \in Nat : lo % Page = 0 /\ lo >= MiB /\ Keeps(map, PageAt(lo)) => Keeps(z, PageAt(lo))

\* sanitise_entries puts the map in order and loses nothing that is due.
LEMMA SanitisedIs ==
  ASSUME NEW map \in Seq(Entries)
  PROVE  /\ Sanitised(map) \in Seq(Entries)
         /\ ~ Panics(Sanitised(map)) => TidiedFrom(Sanitised(map), map)
<1> DEFINE c == Clipped(map)
           d == Sorted(c)
           z == FoldLeft(Merge, <<>>, d)
<1>1. Sanitised(map) = z
  BY DEF Sanitised
<1>2. c \in Seq(Entries) /\ (~ Panics(c) => ClippedFrom(c, map))
  BY ClippedIs
<1> HIDE DEF c
<1>3. d \in Seq(Entries) /\ From(d, c) /\ Lasting(d) = Lasting(c) /\ Ascending(d)
  BY <1>2, SortedIs DEF Rearranged
<1> HIDE DEF d
<1>4. FirstOf(d, Len(d)) = d
  BY <1>3 DEF FirstOf
<1>5. z \in Seq(Entries) /\ From(z, d) /\ Lasting(z) = Lasting(d) /\ Ascending(z)
  <2>1. MergedTo(z, d, Len(d))
    BY <1>3, MergedIs
  <2> HIDE DEF z
  <2> QED BY <1>3, <1>4, <2>1 DEF MergedTo
<1> HIDE DEF z
<1>6. From(z, c) /\ Lasting(z) = Lasting(c)
  BY <1>3, <1>5, FromFrom
<1>7. ASSUME ~ Panics(z) PROVE TidiedFrom(z, map)
  <2>1. ~ Panics(c)
    BY <1>6, <1>7, LastingKeeps
  <2>2. /\ From(c, map) /\ Settled(c, Len(c) + 1) /\ (Owned(map, 1) => Owned(c, Len(c) + 1))
        /\ \A lo \in Nat : lo % Page = 0 /\ lo >= MiB /\ Keeps(map, PageAt(lo)) => Keeps(c, PageAt(lo))
    BY <1>2, <2>1 DEF ClippedFrom
  <2>3. \A a \in DOMAIN c : a < Len(c) + 1 /\ c[a] \in Entries
    BY <1>2
  <2>4. From(z, map)
    BY <1>6, <2>2, FromFrom
  <2>5. \A i \in DOMAIN z : Whole(z[i])
    <3>1. ASSUME NEW a \in DOMAIN c PROVE Whole(c[a])
      <4>1. CASE c[a].type = "usable"
        BY <2>2, <2>3, <4>1 DEF Settled
      <4>2. CASE c[a].type # "usable"
        BY <4>2 DEF Whole
      <4> QED BY <4>1, <4>2
    <3> QED BY <1>6, <3>1, LastingKeeps
  <2>6. UsablesApart(z)
    <3>1. UsablesApart(c)
      <4> SUFFICES ASSUME NEW i \in DOMAIN c, NEW j \in DOMAIN c, i # j, c[i].type = "usable", c[j].type = "usable"
                   PROVE  \A x \in Addresses(c[i]) : x \notin Addresses(c[j])
        BY DEF UsablesApart
      <4>1. Apart(c[i], c[j])
        <5>1. j \in DOMAIN c \ {i}
          OBVIOUS
        <5> QED BY <2>2, <2>3, <5>1 DEF Settled
      <4> QED BY <2>3, <4>1, ApartAddresses
    <3> QED BY <1>6, <3>1, OverlapFrom
  <2>7. OnlyReservedOverlap(map) => OnlyReservedOverlap(z)
    BY <2>4, OverlapFrom
  <2>8. ASSUME Owned(map, 1), \A i \in DOMAIN map : map[i].type \in {"usable", "reserved"}
        PROVE  OnlyReservedOverlap(z)
    <3>1. OnlyReservedOverlap(c)
      <4> SUFFICES ASSUME NEW i \in DOMAIN c, NEW j \in DOMAIN c, i # j, c[i].type # "reserved",
                          NEW x \in Addresses(c[i]), x \in Addresses(c[j])
                   PROVE  FALSE
        BY DEF OnlyReservedOverlap
      <4>1. c[i].type = "usable"
        <5>1. \E k \in DOMAIN map : map[k].type = c[i].type
          BY <2>2 DEF From
        <5> QED BY <2>8, <5>1
      <4>2. Apart(c[i], c[j])
        <5>1. j \in DOMAIN c \ {i}
          OBVIOUS
        <5> QED BY <2>2, <2>3, <2>8, <4>1, <5>1 DEF Owned
      <4> QED BY <2>3, <4>2, ApartAddresses
    <3> QED BY <1>6, <3>1, OverlapFrom
  <2>9. ASSUME NEW lo \in Nat, lo % Page = 0, lo >= MiB, Keeps(map, PageAt(lo)) PROVE Keeps(z, PageAt(lo))
    <3>1. Alone(c, PageAt(lo)) /\ Holds(c, PageAt(lo))
      BY <2>2, <2>9 DEF Keeps
    <3>2. Alone(z, PageAt(lo))
      BY <1>6, <3>1, AloneFrom
    <3>3. Holds(z, PageAt(lo))
      BY <1>6, <3>1, LastingKeeps
    <3> QED BY <3>2, <3>3 DEF Keeps
  <2> QED BY <1>5, <2>4, <2>5, <2>6, <2>7, <2>8, <2>9 DEF TidiedFrom
<1> QED BY <1>1, <1>5, <1>7

-----------------------------------------------------------------------------
\* memmap_alloc_range.

\* An entry at the end of a map.
LEMMA Joined ==
  ASSUME NEW S, NEW a \in Seq(S), NEW x \in S
  PROVE  /\ a \o <<x>> \in Seq(S) /\ Len(a \o <<x>>) = Len(a) + 1
         /\ DOMAIN (a \o <<x>>) = (1 .. Len(a)) \union {Len(a) + 1}
         /\ (a \o <<x>>)[Len(a) + 1] = x
         /\ \A k \in 1 .. Len(a) : (a \o <<x>>)[k] = a[k] /\ k # Len(a) + 1
<1> DEFINE b == <<x>>
           c == a \o b
           l == Len(a)
<1>1. b \in Seq(S) /\ Len(b) = 1 /\ b[1] = x
  OBVIOUS
<1>2. l \in Nat
  OBVIOUS
<1> HIDE DEF b
<1>3. /\ c \in Seq(S) /\ Len(c) = Len(a) + Len(b)
      /\ \A k \in 1 .. (Len(a) + Len(b)) : c[k] = IF k <= Len(a) THEN a[k] ELSE b[k - Len(a)]
  BY <1>1, ConcatProperties
<1> HIDE DEF c
<1>4. Len(c) = l + 1 /\ \A k \in 1 .. l + 1 : c[k] = IF k <= l THEN a[k] ELSE b[k - l]
  BY <1>1, <1>3
<1> HIDE DEF l
<1>5. l + 1 \in 1 .. l + 1 /\ ~ (l + 1 <= l) /\ (l + 1) - l = 1
  BY <1>2
<1>6. c[l + 1] = x
  BY <1>1, <1>4, <1>5
<1>7. \A k \in 1 .. l : c[k] = a[k] /\ k # l + 1
  BY <1>2, <1>4
<1>8. DOMAIN c = (1 .. l) \union {l + 1}
  BY <1>2, <1>3, <1>4
<1> QED BY <1>3, <1>4, <1>6, <1>7, <1>8 DEF b, c, l

\* c is map with a range carved out of the i-th entry: its entries are the others
\* and pieces of the i-th, of which the range itself is not usable any more.
CarvedOf(c, map, i, base, top, type) ==
  /\ c \in Seq(Entries)
  /\ \E g \in [DOMAIN c -> DOMAIN map] :
       /\ \A k \in DOMAIN c : Within(c[k], map[g[k]])
       /\ \A k \in DOMAIN c : c[k].type = map[g[k]].type \/ (g[k] = i /\ c[k].type = type)
       /\ \A k, l \in DOMAIN c : k # l /\ g[k] = g[l] => Apart(c[k], c[l])
       /\ \A k \in DOMAIN c : g[k] = i /\ c[k].type = "usable" => c[k].top <= base \/ top <= c[k].base
  /\ \A j \in DOMAIN map \ {i} : \E k \in DOMAIN c : c[k] = map[j]
  /\ map[i].base < base => \E k \in DOMAIN c : c[k] = Entry(map[i].base, base, "usable")
  /\ top < map[i].top => \E k \in DOMAIN c : c[k] = Entry(top, map[i].top, "usable")

\* What is left below the range.
LowOf(a, map, i, base) ==
  /\ a \in Seq(Entries)
  /\ \E g \in [DOMAIN a -> DOMAIN map] :
       /\ \A k, l \in DOMAIN a : k # l => g[k] # g[l]
       /\ \A k \in DOMAIN a : g[k] # i => a[k] = map[g[k]]
       /\ \A k \in DOMAIN a : g[k] = i => a[k] = Entry(map[i].base, base, "usable")
  /\ \A j \in DOMAIN map \ {i} : \E k \in DOMAIN a : a[k] = map[j]
  /\ map[i].base < base => \E k \in DOMAIN a : a[k] = Entry(map[i].base, base, "usable")

\* The entry is cut off at the range's base, or erased when nothing is left.
LEMMA LowIs ==
  ASSUME NEW map \in Seq(Entries), NEW i \in DOMAIN map, NEW base \in Nat,
         map[i].type = "usable", map[i].base <= base
  PROVE  LowOf(IF base = map[i].base THEN RemoveAt(map, i) ELSE [map EXCEPT ![i].top = base], map, i, base)
<1> DEFINE N == Len(map)
<1>1. /\ N \in Nat /\ DOMAIN map = 1 .. N /\ i \in 1 .. N
      /\ map[i].base \in Nat /\ map[i] \in Entries
  BY DEF Entries
<1>2. CASE base = map[i].base
  <2> DEFINE a == RemoveAt(map, i)
  <2>1. a \in Seq(Entries) /\ MovedUp(a, map, i)
    BY <1>1, Erased
  <2> HIDE DEF a, N
  <2>2. /\ Len(a) = N - 1
        /\ \A k \in 1 .. (N - 1) :
             a[k] = map[Skip(i, k)] /\ Skip(i, k) \in (1 .. N) \ {i} /\ Unskip(i, Skip(i, k)) = k
        /\ \A j \in (1 .. N) \ {i} :
             Unskip(i, j) \in 1 .. (N - 1) /\ Skip(i, Unskip(i, j)) = j
    BY <2>1 DEF MovedUp, N
  <2>3. DOMAIN a = 1 .. (N - 1)
    BY <2>1, <2>2
  <2> DEFINE g == [k \in DOMAIN a |-> Skip(i, k)]
  <2>4. g \in [DOMAIN a -> DOMAIN map] /\ \A k \in DOMAIN a : g[k] = Skip(i, k)
    BY <1>1, <2>2, <2>3
  <2> HIDE DEF g
  <2>5. \A k, l \in DOMAIN a : k # l => g[k] # g[l]
    BY <2>2, <2>3, <2>4
  <2>6. \A k \in DOMAIN a : g[k] # i /\ a[k] = map[g[k]]
    BY <2>2, <2>3, <2>4
  <2>7. \A j \in DOMAIN map \ {i} : \E k \in DOMAIN a : a[k] = map[j]
    BY <1>1, <2>2, <2>3
  <2>8. ~ (map[i].base < base)
    BY <1>1, <1>2
  <2>9. LowOf(a, map, i, base)
    BY <2>1, <2>4, <2>5, <2>6, <2>7, <2>8 DEF LowOf
  <2> QED BY <1>2, <2>9 DEF a
<1>3. CASE base # map[i].base
  <2> DEFINE u == Entry(map[i].base, base, "usable")
             a == [map EXCEPT ![i] = u]
  <2>1. [map EXCEPT ![i].top = base] = a
    <3>1. map[i] = [base |-> map[i].base, top |-> map[i].top, type |-> map[i].type]
      BY <1>1 DEF Entries
    <3>2. [map[i] EXCEPT !.top = base] = u
      BY <3>1 DEF Entry
    <3> QED BY <3>2
  <2>2. u \in Entries
    BY <1>1 DEF Entry, Entries
  <2> HIDE DEF u
  <2>3. a \in Seq(Entries) /\ DOMAIN a = DOMAIN map /\ a[i] = u /\ \A q \in DOMAIN map \ {i} : a[q] = map[q]
    BY <2>2, Changed
  <2> HIDE DEF a
  <2> DEFINE g == [k \in DOMAIN a |-> k]
  <2>4. g \in [DOMAIN a -> DOMAIN map] /\ \A k \in DOMAIN a : g[k] = k
    BY <2>3
  <2> HIDE DEF g
  <2>5. /\ \A k, l \in DOMAIN a : k # l => g[k] # g[l]
        /\ \A k \in DOMAIN a : g[k] # i => a[k] = map[g[k]]
        /\ \A k \in DOMAIN a : g[k] = i => a[k] = u
    BY <2>3, <2>4
  <2>6. LowOf(a, map, i, base)
    BY <2>3, <2>4, <2>5 DEF LowOf, u
  <2> QED BY <1>3, <2>1, <2>6
<1> QED BY <1>2, <1>3

\* The range and what is above it go to the end.
LEMMA CarvedIs ==
  ASSUME NEW map \in Seq(Entries), NEW base \in Nat, NEW top \in Nat, base <= top,
         NEW type \in {"kernel", "reclaimable"}, Holding(map, base, top) # {}
  PROVE  \E i \in Holding(map, base, top) : CarvedOf(Carved(map, base, top, type), map, i, base, top, type)
<1> DEFINE H == Holding(map, base, top)
           i == Min(H)
           a == IF base = map[i].base THEN RemoveAt(map, i) ELSE [map EXCEPT ![i].top = base]
           up == Entry(top, map[i].top, "usable")
           e == Entry(base, top, type)
           c == Carved(map, base, top, type)
<1>1. i \in H
  <2>1. H \in SUBSET Nat /\ H # {}
    BY DEF Holding
  <2> HIDE DEF H
  <2> QED BY <2>1, FirstPlace
<1>2. c = (a \o (IF map[i].top = top THEN <<>> ELSE <<up>>)) \o <<e>>
  BY DEF Carved
<1> HIDE DEF i, H
<1>3. /\ i \in DOMAIN map /\ map[i].type = "usable"
      /\ map[i].base <= base /\ base < map[i].top /\ map[i].base <= top /\ top <= map[i].top
  BY <1>1 DEF H, Holding, Inside
<1>4. map[i].base \in Nat /\ map[i].top \in Nat
  BY <1>3 DEF Entries
<1>5. LowOf(a, map, i, base)
  BY <1>3, LowIs
<1>6. up \in Entries /\ up.base = top /\ up.top = map[i].top /\ up.type = "usable"
  BY <1>3, <1>4 DEF Entry, Entries
<1>7. e \in Entries /\ e.base = base /\ e.top = top /\ e.type = type
  BY DEF Entry, Entries
<1> DEFINE d == a \o <<up>>
           L == Len(a)
<1> HIDE DEF a, up, e, c
<1>8. a \in Seq(Entries) /\ L \in Nat /\ DOMAIN a = 1 .. L
  BY <1>5 DEF LowOf
<1>9. PICK g \in [DOMAIN a -> DOMAIN map] :
        /\ \A k, l \in DOMAIN a : k # l => g[k] # g[l]
        /\ \A k \in DOMAIN a : g[k] # i => a[k] = map[g[k]]
        /\ \A k \in DOMAIN a : g[k] = i => a[k] = Entry(map[i].base, base, "usable")
  BY <1>5 DEF LowOf
<1>10. /\ \A j \in DOMAIN map \ {i} : \E k \in DOMAIN a : a[k] = map[j]
       /\ map[i].base < base => \E k \in DOMAIN a : a[k] = Entry(map[i].base, base, "usable")
  BY <1>5 DEF LowOf
<1> DEFINE w == Entry(map[i].base, base, "usable")
<1>11. w.base = map[i].base /\ w.top = base /\ w.type = "usable"
  BY DEF Entry
<1> HIDE DEF w
<1>12. \A k \in DOMAIN a : g[k] \in DOMAIN map /\ Within(a[k], map[g[k]]) /\ a[k].type = map[g[k]].type
  <2> SUFFICES ASSUME NEW k \in DOMAIN a
               PROVE  g[k] \in DOMAIN map /\ Within(a[k], map[g[k]]) /\ a[k].type = map[g[k]].type
    OBVIOUS
  <2>1. g[k] \in DOMAIN map /\ map[g[k]] \in Entries
    OBVIOUS
  <2>2. CASE g[k] = i
    <3>1. a[k] = w
      BY <1>9, <2>2 DEF w
    <3> QED BY <1>3, <1>4, <1>11, <2>1, <2>2, <3>1 DEF Within
  <2>3. CASE g[k] # i
    <3>1. a[k] = map[g[k]]
      BY <1>9, <2>3
    <3> QED BY <2>1, <3>1 DEF Within, Entries
  <2> QED BY <2>2, <2>3
<1>13. Within(up, map[i]) /\ Within(e, map[i])
  BY <1>3, <1>4, <1>6, <1>7 DEF Within
<1>14. \A k \in DOMAIN a : g[k] = i =>
         /\ Apart(a[k], e) /\ Apart(e, a[k]) /\ Apart(a[k], up) /\ Apart(up, a[k])
         /\ a[k].top <= base
  <2> SUFFICES ASSUME NEW k \in DOMAIN a, g[k] = i
               PROVE  Apart(a[k], e) /\ Apart(e, a[k]) /\ Apart(a[k], up) /\ Apart(up, a[k]) /\ a[k].top <= base
    OBVIOUS
  <2>1. a[k] = w
    BY <1>9 DEF w
  <2> QED BY <1>3, <1>4, <1>6, <1>7, <1>11, <2>1 DEF Apart
<1>15. Apart(up, e) /\ Apart(e, up)
  BY <1>6, <1>7 DEF Apart
<1>16. CASE map[i].top = top
  <2>1. c = a \o <<e>>
    <3>1. a \o <<>> = a
      BY <1>8
    <3> QED BY <1>2, <1>16, <3>1
  <2>2. /\ c \in Seq(Entries) /\ DOMAIN c = (1 .. L) \union {L + 1} /\ c[L + 1] = e
        /\ \A k \in 1 .. L : c[k] = a[k] /\ k # L + 1
    BY <1>7, <1>8, <2>1, Joined
  <2> DEFINE f == [k \in DOMAIN c |-> IF k = L + 1 THEN i ELSE g[k]]
  <2> HIDE DEF L, d
  <2>3. f \in [DOMAIN c -> DOMAIN map] /\ f[L + 1] = i /\ \A k \in 1 .. L : f[k] = g[k]
    BY <1>3, <1>8, <1>12, <2>2
  <2> HIDE DEF f
  <2>4. \A k \in DOMAIN c : Within(c[k], map[f[k]])
    BY <1>8, <1>12, <1>13, <2>2, <2>3
  <2>5. \A k \in DOMAIN c : c[k].type = map[f[k]].type \/ (f[k] = i /\ c[k].type = type)
    BY <1>7, <1>8, <1>12, <2>2, <2>3
  <2>6. ASSUME NEW k \in DOMAIN c, NEW l \in DOMAIN c, k # l, f[k] = f[l] PROVE Apart(c[k], c[l])
    <3>1. CASE k = L + 1
      BY <1>8, <1>14, <2>2, <2>3, <2>6, <3>1
    <3>2. CASE l = L + 1
      BY <1>8, <1>14, <2>2, <2>3, <2>6, <3>2
    <3>3. CASE k # L + 1 /\ l # L + 1
      BY <1>8, <1>9, <2>2, <2>3, <2>6, <3>3
    <3> QED BY <3>1, <3>2, <3>3
  <2>7. ASSUME NEW k \in DOMAIN c, f[k] = i, c[k].type = "usable" PROVE c[k].top <= base \/ top <= c[k].base
    <3>1. k # L + 1
      BY <1>7, <2>2, <2>7
    <3> QED BY <1>8, <1>14, <2>2, <2>3, <2>7, <3>1
  <2>8. \A k \in DOMAIN a : k \in DOMAIN c /\ c[k] = a[k]
    BY <1>8, <2>2
  <2>9. \A j \in DOMAIN map \ {i} : \E k \in DOMAIN c : c[k] = map[j]
    BY <1>10, <2>8
  <2>10. map[i].base < base => \E k \in DOMAIN c : c[k] = Entry(map[i].base, base, "usable")
    BY <1>10, <2>8
  <2>11. ~ (top < map[i].top)
    BY <1>4, <1>16
  <2>12. CarvedOf(c, map, i, base, top, type)
    BY <2>2, <2>3, <2>4, <2>5, <2>6, <2>7, <2>9, <2>10, <2>11 DEF CarvedOf
  <2> QED BY <1>1, <2>12 DEF c, H
<1>17. CASE map[i].top # top
  <2>1. c = d \o <<e>>
    BY <1>2, <1>17
  <2>2. /\ d \in Seq(Entries) /\ Len(d) = L + 1 /\ DOMAIN d = (1 .. L) \union {L + 1} /\ d[L + 1] = up
        /\ \A k \in 1 .. L : d[k] = a[k] /\ k # L + 1
    BY <1>6, <1>8, Joined
  <2> HIDE DEF d
  <2> DEFINE M == Len(d)
  <2>3. /\ c \in Seq(Entries) /\ DOMAIN c = (1 .. M) \union {M + 1} /\ c[M + 1] = e
        /\ \A k \in 1 .. M : c[k] = d[k] /\ k # M + 1
    BY <1>7, <2>1, <2>2, Joined
  <2>4. M = L + 1 /\ 1 .. M = (1 .. L) \union {M}
    <3>1. M = L + 1
      BY <2>2
    <3> HIDE DEF L, M
    <3> QED BY <1>8, <3>1
  <2> HIDE DEF L, M
  <2>5. /\ DOMAIN c = (1 .. L) \union {M, M + 1} /\ c[M + 1] = e /\ c[M] = up /\ M # M + 1
        /\ \A k \in 1 .. L : c[k] = a[k] /\ k # M /\ k # M + 1
    BY <1>8, <2>2, <2>3, <2>4
  <2> DEFINE f == [k \in DOMAIN c |-> IF k \in {M, M + 1} THEN i ELSE g[k]]
  <2>6. f \in [DOMAIN c -> DOMAIN map] /\ f[M] = i /\ f[M + 1] = i /\ \A k \in 1 .. L : f[k] = g[k]
    BY <1>3, <1>8, <1>12, <2>5
  <2> HIDE DEF f
  <2>7. \A k \in DOMAIN c : Within(c[k], map[f[k]])
    BY <1>8, <1>12, <1>13, <2>5, <2>6
  <2>8. \A k \in DOMAIN c : c[k].type = map[f[k]].type \/ (f[k] = i /\ c[k].type = type)
    BY <1>3, <1>6, <1>7, <1>8, <1>12, <2>5, <2>6
  <2>9. ASSUME NEW k \in DOMAIN c, NEW l \in DOMAIN c, k # l, f[k] = f[l] PROVE Apart(c[k], c[l])
    <3>1. CASE k \in 1 .. L /\ l \in 1 .. L
      BY <1>8, <1>9, <2>5, <2>6, <2>9, <3>1
    <3>2. CASE k \in 1 .. L /\ l \in {M, M + 1}
      BY <1>8, <1>14, <2>5, <2>6, <2>9, <3>2
    <3>3. CASE k \in {M, M + 1} /\ l \in 1 .. L
      BY <1>8, <1>14, <2>5, <2>6, <2>9, <3>3
    <3>4. CASE k \in {M, M + 1} /\ l \in {M, M + 1}
      BY <1>15, <2>5, <2>9, <3>4
    <3> QED BY <2>5, <3>1, <3>2, <3>3, <3>4
  <2>10. ASSUME NEW k \in DOMAIN c, f[k] = i, c[k].type = "usable" PROVE c[k].top <= base \/ top <= c[k].base
    <3>1. CASE k \in 1 .. L
      BY <1>8, <1>14, <2>5, <2>6, <2>10, <3>1
    <3>2. CASE k = M
      BY <1>6, <2>5, <3>2
    <3>3. CASE k = M + 1
      BY <1>7, <2>5, <2>10, <3>3
    <3> QED BY <2>5, <3>1, <3>2, <3>3
  <2>11. \A k \in DOMAIN a : k \in DOMAIN c /\ c[k] = a[k]
    BY <1>8, <2>5
  <2>12. \A j \in DOMAIN map \ {i} : \E k \in DOMAIN c : c[k] = map[j]
    BY <1>10, <2>11
  <2>13. map[i].base < base => \E k \in DOMAIN c : c[k] = Entry(map[i].base, base, "usable")
    BY <1>10, <2>11
  <2>14. \E k \in DOMAIN c : c[k] = Entry(top, map[i].top, "usable")
    BY <2>5 DEF up
  <2>15. CarvedOf(c, map, i, base, top, type)
    BY <2>3, <2>6, <2>7, <2>8, <2>9, <2>10, <2>12, <2>13, <2>14 DEF CarvedOf
  <2> QED BY <1>1, <2>15 DEF c, H
<1> QED BY <1>16, <1>17

-----------------------------------------------------------------------------
\* What carving leaves.

\* An address is offered by an entry.
LEMMA OfferedBy ==
  ASSUME NEW map, NEW x
  PROVE  x \in Offered(map) <=> \E i \in DOMAIN map : map[i].type = "usable" /\ x \in Addresses(map[i])
<1>1. ASSUME x \in Offered(map) PROVE \E i \in DOMAIN map : map[i].type = "usable" /\ x \in Addresses(map[i])
  BY <1>1 DEF Offered
<1>2. ASSUME NEW i \in DOMAIN map, map[i].type = "usable", x \in Addresses(map[i]) PROVE x \in Offered(map)
  BY <1>2 DEF Offered
<1> QED BY <1>1, <1>2

\* What lies in the part of an entry lies in the entry.
LEMMA WithinAddresses ==
  ASSUME NEW e \in Entries, NEW f \in Entries, Within(e, f), NEW x \in Addresses(e)
  PROVE  x \in Addresses(f)
BY DEF Within, Addresses, Entries

\* A range is carved out of usable memory, and is not usable afterwards; nothing
\* else becomes usable, and what did not overlap does not.
LEMMA CarvedClear ==
  ASSUME NEW map \in Seq(Entries), NEW i \in DOMAIN map, NEW base \in Nat, NEW top \in Nat,
         map[i].type = "usable", map[i].base <= base, top <= map[i].top,
         NEW type \in {"kernel", "reclaimable"}, NEW c, CarvedOf(c, map, i, base, top, type),
         UsablesApart(map)
  PROVE  /\ UsablesApart(c)
         /\ OnlyReservedOverlap(map) => OnlyReservedOverlap(c)
         /\ ~ Panics(map) => ~ Panics(c)
         /\ Offered(c) \subseteq Offered(map)
         /\ \A x \in Int : base <= x /\ x < top => x \in Offered(map) /\ x \notin Offered(c)
<1>1. PICK g \in [DOMAIN c -> DOMAIN map] :
        /\ \A k \in DOMAIN c : Within(c[k], map[g[k]])
        /\ \A k \in DOMAIN c : c[k].type = map[g[k]].type \/ (g[k] = i /\ c[k].type = type)
        /\ \A k, l \in DOMAIN c : k # l /\ g[k] = g[l] => Apart(c[k], c[l])
        /\ \A k \in DOMAIN c : g[k] = i /\ c[k].type = "usable" => c[k].top <= base \/ top <= c[k].base
  BY DEF CarvedOf
<1>2. c \in Seq(Entries) /\ \A k \in DOMAIN c : c[k] \in Entries
  BY DEF CarvedOf
<1>3. \A k \in DOMAIN c : g[k] \in DOMAIN map /\ map[g[k]] \in Entries
  OBVIOUS
<1>4. \A k \in DOMAIN c : \A x \in Addresses(c[k]) : x \in Addresses(map[g[k]])
  BY <1>1, <1>2, <1>3, WithinAddresses
<1>5. \A k, l \in DOMAIN c : k # l /\ g[k] = g[l] => \A x \in Addresses(c[k]) : x \notin Addresses(c[l])
  BY <1>1, <1>2, ApartAddresses
<1>6. \A k \in DOMAIN c : /\ c[k].type = "usable" => map[g[k]].type = "usable"
                          /\ c[k].type # "reserved" => map[g[k]].type # "reserved"
                          /\ c[k].type = "panic" => map[g[k]].type = "panic"
  BY <1>1
<1>7. UsablesApart(c)
  <2> SUFFICES ASSUME NEW k \in DOMAIN c, NEW l \in DOMAIN c, k # l, c[k].type = "usable", c[l].type = "usable",
                      NEW x \in Addresses(c[k]), x \in Addresses(c[l])
               PROVE  FALSE
    BY DEF UsablesApart
  <2>1. g[k] # g[l]
    BY <1>5
  <2> QED BY <1>3, <1>4, <1>6, <2>1 DEF UsablesApart
<1>8. ASSUME OnlyReservedOverlap(map) PROVE OnlyReservedOverlap(c)
  <2> SUFFICES ASSUME NEW k \in DOMAIN c, NEW l \in DOMAIN c, k # l, c[k].type # "reserved",
                      NEW x \in Addresses(c[k]), x \in Addresses(c[l])
               PROVE  FALSE
    BY DEF OnlyReservedOverlap
  <2>1. g[k] # g[l]
    BY <1>5
  <2> QED BY <1>3, <1>4, <1>6, <1>8, <2>1 DEF OnlyReservedOverlap
<1>9. ~ Panics(map) => ~ Panics(c)
  BY <1>3, <1>6 DEF Panics
<1>10. Offered(c) \subseteq Offered(map)
  BY <1>3, <1>4, <1>6, OfferedBy
<1>11. ASSUME NEW x \in Int, base <= x, x < top PROVE x \in Offered(map) /\ x \notin Offered(c)
  <2>1. x \in Addresses(map[i])
    <3>1. map[i] \in Entries
      OBVIOUS
    <3>2. map[i].base \in Nat /\ map[i].top \in Nat
      BY <3>1 DEF Entries
    <3> QED BY <1>11, <3>2 DEF Addresses
  <2>2. ASSUME NEW k \in DOMAIN c, c[k].type = "usable", x \in Addresses(c[k]) PROVE FALSE
    <3>1. x \in Addresses(map[g[k]]) /\ map[g[k]].type = "usable"
      BY <1>4, <1>6, <2>2
    <3>2. g[k] = i
      BY <1>3, <2>1, <3>1 DEF UsablesApart
    <3>3. c[k].top <= base \/ top <= c[k].base
      BY <1>1, <2>2, <3>2
    <3>4. c[k].base \in Nat /\ c[k].top \in Nat
      BY <1>2 DEF Entries
    <3> QED BY <1>11, <2>2, <3>3, <3>4 DEF Addresses
  <2> QED BY <2>1, <2>2, OfferedBy
<1> QED BY <1>7, <1>8, <1>9, <1>10, <1>11

\* A page that the range does not touch stays usable: what was carved is not
\* empty, or it starts where a page does.
LEMMA CarvedKeeps ==
  ASSUME NEW map \in Seq(Entries), NEW i \in DOMAIN map, NEW base \in Nat, NEW top \in Nat,
         base < top \/ (base = top /\ base % Page = 0),
         NEW type \in {"kernel", "reclaimable"}, NEW c, CarvedOf(c, map, i, base, top, type),
         NEW lo \in Nat, lo % Page = 0, Keeps(map, PageAt(lo)),
         \A x \in PageAt(lo) : ~ (base <= x /\ x < top)
  PROVE  Keeps(c, PageAt(lo))
<1>0. Page \in Nat \ {0}
  BY MemoryAssumption
<1>1. PICK g \in [DOMAIN c -> DOMAIN map] :
        /\ \A k \in DOMAIN c : Within(c[k], map[g[k]])
        /\ \A k, l \in DOMAIN c : k # l /\ g[k] = g[l] => Apart(c[k], c[l])
  BY DEF CarvedOf
<1>2. /\ c \in Seq(Entries) /\ \A k \in DOMAIN c : c[k] \in Entries
      /\ \A k \in DOMAIN c : g[k] \in DOMAIN map /\ map[g[k]] \in Entries
      /\ \A j \in DOMAIN map : map[j] \in Entries
  BY DEF CarvedOf
<1>3. \A k \in DOMAIN c : \A x \in Addresses(c[k]) : x \in Addresses(map[g[k]])
  BY <1>1, <1>2, WithinAddresses
<1>4. \A k, l \in DOMAIN c : k # l /\ g[k] = g[l] => \A x \in Addresses(c[k]) : x \notin Addresses(c[l])
  BY <1>1, <1>2, ApartAddresses
<1>5. Alone(c, PageAt(lo))
  <2> SUFFICES ASSUME NEW x \in PageAt(lo), NEW k \in DOMAIN c, NEW l \in DOMAIN c,
                      x \in Addresses(c[k]), x \in Addresses(c[l]), k # l
               PROVE  FALSE
    BY DEF Alone
  <2>1. g[k] # g[l]
    BY <1>4
  <2> QED BY <1>2, <1>3, <2>1 DEF Keeps, Alone
<1>6. PICK j \in DOMAIN map : map[j].type = "usable" /\ PageAt(lo) \subseteq Addresses(map[j])
  BY DEF Keeps, Holds
<1>7. map[j].base \in Nat /\ map[j].top \in Nat /\ map[j] \in Entries
  BY <1>2 DEF Entries
<1>8. map[j].base <= lo /\ lo + Page <= map[j].top
  <2>1. lo \in PageAt(lo) /\ lo + Page - 1 \in PageAt(lo)
    BY <1>0 DEF PageAt
  <2>2. lo \in Addresses(map[j]) /\ lo + Page - 1 \in Addresses(map[j])
    BY <1>6, <2>1
  <2> QED BY <1>0, <1>7, <2>2 DEF Addresses
<1>9. Holds(c, PageAt(lo))
  <2>1. CASE j # i
    <3>1. PICK k \in DOMAIN c : c[k] = map[j]
      BY <2>1 DEF CarvedOf
    <3> QED BY <1>6, <3>1 DEF Holds
  <2>2. CASE j = i
    <3>1. lo + Page <= base \/ top <= lo
      <4>1. CASE base < top
        <5>1. ASSUME base < lo + Page, lo < top PROVE FALSE
          <6>1. CASE base <= lo
            <7>1. lo \in PageAt(lo)
              BY <1>0 DEF PageAt
            <7> QED BY <5>1, <6>1, <7>1
          <6>2. CASE lo < base
            <7>1. base \in PageAt(lo)
              BY <1>0, <5>1, <6>2 DEF PageAt
            <7> QED BY <4>1, <7>1
          <6> QED BY <6>1, <6>2
        <5> QED BY <1>0, <5>1
      <4>2. CASE base = top /\ base % Page = 0
        <5>1. lo < base => lo + Page <= base
          BY <4>2, PagesApart
        <5> QED BY <4>2, <5>1
      <4> QED BY <4>1, <4>2
    <3>2. CASE lo + Page <= base
      <4>1. map[i].base < base
        BY <1>0, <1>7, <1>8, <2>2, <3>2
      <4>2. PICK k \in DOMAIN c : c[k] = Entry(map[i].base, base, "usable")
        BY <4>1 DEF CarvedOf
      <4>3. c[k].type = "usable" /\ c[k].base = map[i].base /\ c[k].top = base
        BY <4>2 DEF Entry
      <4>4. PageAt(lo) \subseteq Addresses(c[k])
        BY <1>0, <1>7, <1>8, <2>2, <3>2, <4>3 DEF PageAt, Addresses
      <4> QED BY <4>3, <4>4 DEF Holds
    <3>3. CASE top <= lo
      <4>1. top < map[i].top
        BY <1>0, <1>7, <1>8, <2>2, <3>3
      <4>2. PICK k \in DOMAIN c : c[k] = Entry(top, map[i].top, "usable")
        BY <4>1 DEF CarvedOf
      <4>3. c[k].type = "usable" /\ c[k].base = top /\ c[k].top = map[i].top
        BY <4>2 DEF Entry
      <4>4. PageAt(lo) \subseteq Addresses(c[k])
        BY <1>0, <1>7, <1>8, <2>2, <3>3, <4>3 DEF PageAt, Addresses
      <4> QED BY <4>3, <4>4 DEF Holds
    <3> QED BY <3>1, <3>2, <3>3
  <2> QED BY <2>1, <2>2
<1> QED BY <1>5, <1>9 DEF Keeps

\* A map made of another offers nothing the other does not.
LEMMA OfferedFrom ==
  ASSUME NEW new, NEW old, From(new, old)
  PROVE  Offered(new) \subseteq Offered(old)
<1>1. PICK g \in [DOMAIN new -> SUBSET DOMAIN old] :
        /\ \A i \in DOMAIN new : \A x \in Addresses(new[i]) : \E k \in g[i] : x \in Addresses(old[k])
        /\ \A i \in DOMAIN new : \A k \in g[i] : old[k].type = new[i].type
  BY DEF From
<1>2. ASSUME NEW x \in Offered(new) PROVE x \in Offered(old)
  <2>1. PICK i \in DOMAIN new : new[i].type = "usable" /\ x \in Addresses(new[i])
    BY OfferedBy
  <2>2. PICK k \in g[i] : x \in Addresses(old[k])
    BY <1>1, <2>1
  <2>3. k \in DOMAIN old /\ old[k].type = "usable"
    BY <1>1, <2>1, <2>2
  <2> QED BY <2>2, <2>3, OfferedBy
<1> QED BY <1>2

-----------------------------------------------------------------------------
\* The steps of the boot.

\* sanitise_entries keeps what was taken off the map, and what is due on it.
LEMMA Tidied ==
  ASSUME NEW map, NEW z, TidiedFrom(z, map), NEW taken
  PROVE  /\ TakenClear(map, taken) => TakenClear(z, taken)
         /\ firmware \in Firmware /\ PagesKept(map, taken) => PagesKept(z, taken)
<1>1. Offered(z) \subseteq Offered(map)
  BY OfferedFrom DEF TidiedFrom
<1>2. ASSUME TakenClear(map, taken) PROVE TakenClear(z, taken)
  BY <1>1, <1>2 DEF TakenClear
<1>3. ASSUME firmware \in Firmware, PagesKept(map, taken) PROVE PagesKept(z, taken)
  <2> SUFFICES ASSUME NEW i \in DOMAIN firmware, NEW n \in 0 .. (firmware[i].top \div Page),
                      Due(i, n * Page), Untouched(PageAt(n * Page), taken)
               PROVE  Keeps(z, PageAt(n * Page))
    BY DEF PagesKept
  <2>1. Keeps(map, PageAt(n * Page))
    BY <1>3 DEF PagesKept
  <2>2. n \in Nat
    OBVIOUS
  <2>3. n * Page \in Nat /\ (n * Page) % Page = 0
    BY <2>2, PageTimes
  <2>4. n * Page >= MiB
    BY DEF Due
  <2> QED BY <2>1, <2>3, <2>4 DEF TidiedFrom
<1> QED BY <1>2, <1>3

\* A range that was carved out is taken.
LEMMA CarvedTaken ==
  ASSUME NEW map \in Seq(Entries), NEW base \in Nat, NEW top \in Nat,
         base < top \/ (base = top /\ base % Page = 0),
         NEW type \in {"kernel", "reclaimable"}, Holding(map, base, top) # {},
         NEW taken, UsablesApart(map), TakenClear(map, taken), TakenApart(taken)
  PROVE  LET c   == Carved(map, base, top, type)
             now == taken \union {<<base, top>>}
         IN  /\ c \in Seq(Entries)
             /\ UsablesApart(c) /\ (OnlyReservedOverlap(map) => OnlyReservedOverlap(c))
             /\ ~ Panics(map) => ~ Panics(c)
             /\ TakenClear(c, now) /\ TakenApart(now)
             /\ firmware \in Firmware /\ PagesKept(map, taken) => PagesKept(c, now)
<1> DEFINE c == Carved(map, base, top, type)
           u == <<base, top>>
           now == taken \union {u}
<1>1. base <= top
  OBVIOUS
<1>2. PICK i \in Holding(map, base, top) : CarvedOf(c, map, i, base, top, type)
  BY <1>1, CarvedIs
<1>3. i \in DOMAIN map /\ map[i].type = "usable" /\ map[i].base <= base /\ top <= map[i].top
  BY DEF Holding, Inside
<1> HIDE DEF c
<1>4. c \in Seq(Entries)
  BY <1>2 DEF CarvedOf
<1>5. /\ UsablesApart(c) /\ (OnlyReservedOverlap(map) => OnlyReservedOverlap(c))
      /\ ~ Panics(map) => ~ Panics(c)
      /\ Offered(c) \subseteq Offered(map)
      /\ \A x \in Int : base <= x /\ x < top => x \in Offered(map) /\ x \notin Offered(c)
  BY <1>2, <1>3, CarvedClear
<1>6. u[1] = base /\ u[2] = top
  OBVIOUS
<1> HIDE DEF u
<1>7. \A x \in u[1] .. (u[2] - 1) : x \in Offered(map) /\ x \notin Offered(c)
  BY <1>5, <1>6
<1>8. TakenClear(c, now)
  <2>1. ASSUME NEW v \in taken, NEW x \in v[1] .. (v[2] - 1) PROVE x \notin Offered(c)
    BY <1>5 DEF TakenClear
  <2> QED BY <1>7, <2>1 DEF TakenClear
<1>9. TakenApart(now)
  <2>1. \A v \in taken : \A x \in v[1] .. (v[2] - 1) : x \notin u[1] .. (u[2] - 1)
    BY <1>7 DEF TakenClear
  <2>2. \A v \in taken : \A x \in u[1] .. (u[2] - 1) : x \notin v[1] .. (v[2] - 1)
    BY <2>1
  <2>3. \A v, w \in taken : v # w => \A x \in v[1] .. (v[2] - 1) : x \notin w[1] .. (w[2] - 1)
    BY DEF TakenApart
  <2>4. \A v \in now : v \in taken \/ v = u
    OBVIOUS
  <2> HIDE DEF now
  <2> QED BY <2>1, <2>2, <2>3, <2>4 DEF TakenApart
<1>10. ASSUME firmware \in Firmware, PagesKept(map, taken) PROVE PagesKept(c, now)
  <2> SUFFICES ASSUME NEW j \in DOMAIN firmware, NEW n \in 0 .. (firmware[j].top \div Page),
                      Due(j, n * Page), Untouched(PageAt(n * Page), now)
               PROVE  Keeps(c, PageAt(n * Page))
    BY DEF PagesKept
  <2>1. Untouched(PageAt(n * Page), taken) /\ \A x \in PageAt(n * Page) : ~ (base <= x /\ x < top)
    BY <1>6 DEF Untouched
  <2>2. Keeps(map, PageAt(n * Page))
    BY <1>10, <2>1 DEF PagesKept
  <2>3. n \in Nat
    OBVIOUS
  <2>4. n * Page \in Nat /\ (n * Page) % Page = 0
    BY <2>3, PageTimes
  <2> QED BY <1>2, <1>3, <2>1, <2>2, <2>4, CarvedKeeps
<1> QED BY <1>4, <1>5, <1>8, <1>9, <1>10 DEF c, u

\* The firmware's map is one of ours.
LEMMA FirmwareIs ==
  ASSUME firmware \in Firmware
  PROVE  /\ firmware \in Seq(Entries)
         /\ \A i \in DOMAIN firmware : firmware[i].type \in {"usable", "reserved"}
<1> DEFINE Ranges == [base : Nat, top : Nat, type : {"usable", "reserved"}]
<1>1. firmware \in Seq(Ranges) /\ \A i \in DOMAIN firmware : firmware[i].base <= firmware[i].top
  BY FirmwareAssumption
<1>2. \A i \in DOMAIN firmware : firmware[i] \in Ranges
  <2> HIDE DEF Ranges
  <2> QED BY <1>1
<1>3. \A i \in DOMAIN firmware : firmware[i] \in Entries
  BY <1>1, <1>2 DEF Entries
<1>4. firmware \in Seq(Entries)
  BY <1>1, <1>3
<1> QED BY <1>2, <1>4

\* What is due is on the firmware's map.
LEMMA FirmwareKeeps ==
  ASSUME firmware \in Firmware, NEW i \in DOMAIN firmware, NEW lo, Due(i, lo)
  PROVE  Keeps(firmware, PageAt(lo))
<1>1. Alone(firmware, PageAt(lo))
  <2> SUFFICES ASSUME NEW x \in PageAt(lo), NEW j \in DOMAIN firmware, NEW k \in DOMAIN firmware,
                      x \in Addresses(firmware[j]), x \in Addresses(firmware[k])
               PROVE  j = k
    BY DEF Alone
  <2>1. \A l \in DOMAIN firmware : x \in Addresses(firmware[l]) => l = i
    BY DEF Due
  <2> QED BY <2>1
<1>2. Holds(firmware, PageAt(lo))
  BY DEF Due, Holds
<1> QED BY <1>1, <1>2 DEF Keeps

\* A usable entry that the others do not claim whole has an address of its own.
LEMMA OwnPartsOwned ==
  ASSUME firmware \in Firmware, OwnParts
  PROVE  Owned(firmware, 1)
<1>1. ASSUME NEW a \in DOMAIN firmware, firmware[a].type = "usable"
      PROVE  \E x \in Addresses(firmware[a]) : \A b \in DOMAIN firmware \ {a} : x \notin Addresses(firmware[b])
  <2>1. ~ (Addresses(firmware[a]) \subseteq
             UNION {Addresses(firmware[j]) : j \in DOMAIN firmware \ {a}})
    BY <1>1 DEF OwnParts
  <2>2. PICK x \in Addresses(firmware[a]) : x \notin UNION {Addresses(firmware[j]) : j \in DOMAIN firmware \ {a}}
    BY <2>1
  <2> QED BY <2>2
<1>2. \A a \in DOMAIN firmware : ~ (a < 1)
  <2>1. firmware \in Seq(Entries)
    BY FirmwareIs
  <2> QED BY <2>1
<1> QED BY <1>1, <1>2 DEF Owned

\* The invariant holds when the loader starts.
LEMMA InitInv == Init => BootInv
<1> SUFFICES ASSUME Init PROVE BootInv
  OBVIOUS
<1>1. firmware \in Firmware /\ memmap = firmware /\ top_used = 0 /\ used = {} /\ pc = "firmware"
  BY DEF Init
<1>2. memmap \in Seq(Entries) /\ ~ Panics(memmap)
  BY <1>1, FirmwareIs DEF Panics
<1>3. todo \in [segments : Seq(Nat \X (Nat \ {0})), modules : Seq(Nat), tables : Nat]
  BY KernelAssumption DEF Init
<1>4. Types
  BY <1>1, <1>2, <1>3 DEF Types
<1>5. MapSound
  BY <1>1 DEF MapSound
<1>6. TakenClear(memmap, used) /\ TakenApart(used)
  BY <1>1 DEF TakenClear, TakenApart
<1>7. PagesKept(memmap, used)
  BY <1>1, FirmwareKeeps DEF PagesKept
<1> QED BY <1>2, <1>4, <1>5, <1>6, <1>7 DEF BootInv

\* What the firmware said stays, and with it what is due.
LEMMA DueStays ==
  ASSUME firmware' = firmware
  PROVE  /\ OwnParts' <=> OwnParts
         /\ PagesKept(memmap', used') => PagesKept(memmap, used)'
<1>1. OwnParts' <=> OwnParts
  BY DEF OwnParts
<1>2. PagesKept(memmap', used') => PagesKept(memmap, used)'
  BY DEF PagesKept, Due
<1> QED BY <1>1, <1>2

\* sanitise_entries at a step of the boot.
LEMMA SettleInv ==
  ASSUME BootInv, NEW from \in {"firmware", "elf", "pagemap"}, NEW to \in {"elf", "pagemap", "kernel"},
         Settle(from, to)
  PROVE  BootInv'
<1>1. /\ pc = from /\ memmap' = Sanitised(memmap)
      /\ pc' = IF Panics(memmap') THEN "panic" ELSE to
      /\ firmware' = firmware /\ todo' = todo /\ top_used' = top_used /\ used' = used
  BY DEF Settle
<1>2. Types /\ MapSound /\ TakenClear(memmap, used) /\ TakenApart(used) /\ PagesKept(memmap, used)
  BY <1>1 DEF BootInv
<1>3. memmap \in Seq(Entries) /\ firmware \in Firmware
  BY <1>2 DEF Types
<1>4. memmap' \in Seq(Entries) /\ (~ Panics(memmap') => TidiedFrom(memmap', memmap))
  BY <1>1, <1>3, SanitisedIs
<1>5. Types'
  BY <1>1, <1>2, <1>4 DEF Types
<1>6. ASSUME pc' # "panic" PROVE ~ Panics(memmap') /\ TidiedFrom(memmap', memmap) /\ pc' = to
  BY <1>1, <1>4, <1>6
<1>7. ASSUME pc' # "panic" PROVE MapSound'
  <2>1. pc' # "firmware"
    BY <1>6, <1>7
  <2>2. UsablesApart(memmap') /\ Ascending(memmap') /\ \A i \in DOMAIN memmap' : Whole(memmap'[i])
    BY <1>6, <1>7 DEF TidiedFrom
  <2>3. ASSUME OwnParts' PROVE OnlyReservedOverlap(memmap')
    <3>1. OwnParts
      BY <1>1, <2>3, DueStays
    <3>2. CASE pc = "firmware"
      <4>1. memmap = firmware
        BY <1>2, <3>2 DEF MapSound
      <4>2. Owned(memmap, 1) /\ \A i \in DOMAIN memmap : memmap[i].type \in {"usable", "reserved"}
        BY <1>3, <3>1, <4>1, OwnPartsOwned, FirmwareIs
      <4> QED BY <1>6, <1>7, <4>2 DEF TidiedFrom
    <3>3. CASE pc # "firmware"
      <4>1. OnlyReservedOverlap(memmap)
        BY <1>2, <3>1, <3>3 DEF MapSound
      <4> QED BY <1>6, <1>7, <4>1 DEF TidiedFrom
    <3> QED BY <3>2, <3>3
  <2> QED BY <2>1, <2>2, <2>3 DEF MapSound, Whole
<1>8. ASSUME pc' # "panic" PROVE TakenClear(memmap, used)' /\ TakenApart(used)' /\ PagesKept(memmap, used)'
  <2>1. TidiedFrom(memmap', memmap)
    BY <1>6, <1>8
  <2>2. TakenClear(memmap', used) /\ PagesKept(memmap', used)
    BY <1>2, <1>3, <2>1, Tidied
  <2>3. PagesKept(memmap, used)'
    BY <1>1, <2>2, DueStays
  <2>4. TakenClear(memmap, used)' /\ TakenApart(used)'
    BY <1>1, <1>2, <2>2
  <2> QED BY <2>3, <2>4
<1> QED BY <1>5, <1>6, <1>7, <1>8 DEF BootInv

\* A range taken for the kernel or for one of its modules.
LEMMA AllocRangeInv ==
  ASSUME BootInv, pc = "elf", NEW base \in Nat, NEW top \in Nat,
         base < top \/ (base = top /\ base % Page = 0), AllocRange(base, top, "kernel"),
         firmware' = firmware, top_used' \in Nat,
         todo' \in [segments : Seq(Nat \X (Nat \ {0})), modules : Seq(Nat), tables : Nat]
  PROVE  BootInv'
<1> DEFINE new == Carved(memmap, base, top, "kernel")
<1>1. /\ Types /\ MapSound /\ TakenClear(memmap, used) /\ TakenApart(used) /\ PagesKept(memmap, used)
      /\ ~ Panics(memmap)
  BY DEF BootInv
<1>2. memmap \in Seq(Entries) /\ firmware \in Firmware
  BY <1>1 DEF Types
<1>3. CASE Holding(memmap, base, top) = {} \/ Len(new) > MaxEntries
  <2>1. pc' = "panic" /\ memmap' = memmap /\ used' = used
    BY <1>3 DEF AllocRange
  <2>2. Types'
    BY <1>1, <2>1 DEF Types
  <2> QED BY <2>1, <2>2 DEF BootInv
<1>4. CASE ~ (Holding(memmap, base, top) = {} \/ Len(new) > MaxEntries)
  <2>1. memmap' = new /\ used' = used \union {<<base, top>>} /\ pc' = pc
    BY <1>4 DEF AllocRange
  <2>2. UsablesApart(memmap) /\ (OwnParts => OnlyReservedOverlap(memmap))
    BY <1>1 DEF MapSound
  <2>3. /\ memmap' \in Seq(Entries)
        /\ UsablesApart(memmap') /\ (OnlyReservedOverlap(memmap) => OnlyReservedOverlap(memmap'))
        /\ ~ Panics(memmap')
        /\ TakenClear(memmap', used') /\ TakenApart(used')
        /\ PagesKept(memmap', used')
    BY <1>1, <1>2, <1>4, <2>1, <2>2, CarvedTaken
  <2>4. Types'
    BY <1>1, <2>1, <2>3 DEF Types
  <2>5. MapSound'
    <3>1. OwnParts' => OnlyReservedOverlap(memmap')
      BY <2>2, <2>3, DueStays
    <3> QED BY <2>1, <2>3, <3>1 DEF MapSound
  <2>6. PagesKept(memmap, used)'
    BY <2>3, DueStays
  <2> QED BY <2>3, <2>4, <2>5, <2>6 DEF BootInv
<1> QED BY <1>3, <1>4

\* A segment that is loaded takes memory.
LEMMA SegmentInv ==
  ASSUME BootInv, LoadSegment
  PROVE  BootInv'
<1> DEFINE s == todo.segments
           base == Head(s)[1]
           top == base + Head(s)[2]
<1>1. Types
  BY DEF BootInv
<1>2. s \in Seq(Nat \X (Nat \ {0})) /\ s # <<>>
  BY <1>1 DEF Types, LoadSegment
<1>3. /\ pc = "elf" /\ AllocRange(base, top, "kernel") /\ firmware' = firmware
      /\ top_used' = IF top > top_used THEN top ELSE top_used
      /\ todo' = [todo EXCEPT !.segments = Tail(@)]
  BY DEF LoadSegment
<1>4. Tail(s) \in Seq(Nat \X (Nat \ {0})) /\ Head(s) \in Nat \X (Nat \ {0})
  BY <1>2
<1>5. base \in Nat /\ top \in Nat /\ base < top
  <2> DEFINE h == Head(s)
  <2>1. h[1] \in Nat /\ h[2] \in Nat \ {0}
    BY <1>4
  <2> QED BY <2>1
<1>6. todo' \in [segments : Seq(Nat \X (Nat \ {0})), modules : Seq(Nat), tables : Nat]
  <2>1. todo' = [todo EXCEPT !.segments = Tail(s)]
    BY <1>1, <1>3 DEF Types
  <2> QED BY <1>1, <1>4, <2>1 DEF Types
<1>7. top_used' \in Nat
  BY <1>1, <1>3, <1>5 DEF Types
<1> HIDE DEF base, top, s
<1> QED BY <1>3, <1>5, <1>6, <1>7, AllocRangeInv

\* A module goes to the start of a page, and may be empty.
LEMMA ModuleInv ==
  ASSUME BootInv, LoadModule
  PROVE  BootInv'
<1> DEFINE s == todo.modules
           base == AlignUp(top_used, Page)
           top == base + Head(s)
<1>1. Types
  BY DEF BootInv
<1>2. s \in Seq(Nat) /\ s # <<>>
  BY <1>1 DEF Types, LoadModule
<1>3. /\ pc = "elf" /\ AllocRange(base, top, "kernel") /\ firmware' = firmware
      /\ top_used' = top
      /\ todo' = [todo EXCEPT !.modules = Tail(@)]
  BY DEF LoadModule
<1>4. Tail(s) \in Seq(Nat) /\ Head(s) \in Nat
  BY <1>2
<1>5. base \in Nat /\ base % Page = 0
  <2>1. top_used \in Nat
    BY <1>1 DEF Types
  <2> QED BY <2>1, Up
<1>6. todo' \in [segments : Seq(Nat \X (Nat \ {0})), modules : Seq(Nat), tables : Nat]
  <2>1. todo' = [todo EXCEPT !.modules = Tail(s)]
    BY <1>1, <1>3 DEF Types
  <2> QED BY <1>1, <1>4, <2>1 DEF Types
<1> HIDE DEF base, s
<1>7. top \in Nat /\ (base < top \/ (base = top /\ base % Page = 0))
  BY <1>4, <1>5
<1> HIDE DEF top
<1> QED BY <1>3, <1>5, <1>6, <1>7, AllocRangeInv

\* A page off the top of an entry that has room for it.
LEMMA TableFits ==
  ASSUME NEW b \in Nat, NEW t \in Nat, AlignDown(t - Page, Page) >= b
  PROVE  AlignDown(t - Page, Page) \in Nat /\ AlignDown(t - Page, Page) < t
<1>0. Page \in Nat \ {0}
  BY MemoryAssumption
<1>1. CASE t >= Page
  <2>1. t - Page \in Nat
    BY <1>0, <1>1
  <2>2. AlignDown(t - Page, Page) \in Nat /\ AlignDown(t - Page, Page) <= t - Page
    BY <2>1, Down
  <2> QED BY <1>0, <2>2
<1>2. CASE t < Page
  <2> DEFINE x == t - Page
             q == x \div Page
  <2>1. x \in Int /\ x < 0
    BY <1>0, <1>2
  <2> HIDE DEF x
  <2>2. q \in Int /\ x % Page \in Nat /\ x = Page * q + (x % Page)
    BY <1>0, <2>1
  <2>3. AlignDown(x, Page) = q * Page
    BY DEF AlignDown
  <2> HIDE DEF q
  <2>4. q < 0
    BY <1>0, <2>1, <2>2
  <2>5. q * Page \in Int /\ q * Page < 0
    BY <1>0, <2>2, <2>4
  <2> DEFINE d == q * Page
  <2>6. AlignDown(t - Page, Page) = d
    BY <2>3 DEF x
  <2> HIDE DEF d
  <2>7. d \in Int /\ d < 0
    BY <2>5 DEF d
  <2> QED BY <2>6, <2>7
<1> QED BY <1>0, <1>1, <1>2

\* A table is a page off the top of an entry, and the map is put in order again.
LEMMA TableInv ==
  ASSUME BootInv, NewTable
  PROVE  BootInv'
<1>1. /\ Types /\ pc = "pagemap" /\ AllocTable /\ firmware' = firmware /\ top_used' = top_used
      /\ todo' = [todo EXCEPT !.tables = @ - 1] /\ todo.tables > 0
  BY DEF BootInv, NewTable
<1>2. /\ MapSound /\ TakenClear(memmap, used) /\ TakenApart(used) /\ PagesKept(memmap, used)
      /\ ~ Panics(memmap)
  BY <1>1 DEF BootInv
<1>3. memmap \in Seq(Entries) /\ firmware \in Firmware
  BY <1>1 DEF Types
<1>4. todo' \in [segments : Seq(Nat \X (Nat \ {0})), modules : Seq(Nat), tables : Nat]
  <2>1. todo.tables \in Nat /\ todo.tables - 1 \in Nat
    BY <1>1 DEF Types
  <2>2. todo' = [todo EXCEPT !.tables = todo.tables - 1]
    BY <1>1 DEF Types
  <2> QED BY <1>1, <2>1, <2>2 DEF Types
<1>5. CASE Roomy(Page) = {}
  <2>1. pc' = "panic" /\ memmap' = memmap /\ used' = used
    BY <1>1, <1>5 DEF AllocTable
  <2>2. Types'
    BY <1>1, <1>4, <2>1 DEF Types
  <2> QED BY <2>1, <2>2 DEF BootInv
<1>6. CASE Roomy(Page) # {}
  <2> DEFINE i == Max(Roomy(Page))
             top == memmap[i].top
             base == AlignDown(top - Page, Page)
             new == Carved(memmap, base, top, "reclaimable")
  <2>1. /\ memmap' = Sanitised(new)
        /\ used' = used \union {<<base, top>>}
        /\ pc' = IF Len(new) > MaxEntries \/ Panics(memmap') THEN "panic" ELSE pc
    BY <1>1, <1>6 DEF AllocTable
  <2>2. i \in Roomy(Page)
    <3> DEFINE R == Roomy(Page)
               l == Len(memmap)
    <3>1. R \in SUBSET (1 .. l) /\ l \in Nat /\ R # {}
      BY <1>3, <1>6 DEF Roomy
    <3> HIDE DEF R, l
    <3>2. Max(R) \in R
      BY <3>1, LastPlace
    <3> QED BY <3>2 DEF R
  <2> HIDE DEF i
  <2>3. i \in DOMAIN memmap /\ memmap[i].type = "usable" /\ base >= memmap[i].base
    BY <2>2 DEF Roomy
  <2>4. memmap[i].base \in Nat /\ top \in Nat
    BY <1>3, <2>3 DEF Entries
  <2>5. base \in Nat /\ base < top
    <3> DEFINE b == memmap[i].base
    <3> HIDE DEF b, top
    <3> QED BY <2>3, <2>4, TableFits DEF b
  <2>6. i \in Holding(memmap, base, top)
    <3> HIDE DEF base
    <3> QED BY <2>3, <2>4, <2>5 DEF Holding, Inside
  <2> HIDE DEF base, top
  <2>7. UsablesApart(memmap) /\ (OwnParts => OnlyReservedOverlap(memmap))
    BY <1>1, <1>2 DEF MapSound
  <2>8. /\ new \in Seq(Entries)
        /\ UsablesApart(new) /\ (OnlyReservedOverlap(memmap) => OnlyReservedOverlap(new))
        /\ ~ Panics(new)
        /\ TakenClear(new, used') /\ TakenApart(used')
        /\ PagesKept(new, used')
    BY <1>2, <1>3, <2>1, <2>4, <2>5, <2>6, <2>7, CarvedTaken
  <2> HIDE DEF new
  <2>9. memmap' \in Seq(Entries) /\ (~ Panics(memmap') => TidiedFrom(memmap', new))
    BY <2>1, <2>8, SanitisedIs
  <2>10. Types'
    BY <1>1, <1>4, <2>1, <2>4, <2>5, <2>9 DEF Types
  <2>11. ASSUME pc' # "panic"
         PROVE  /\ ~ Panics(memmap') /\ MapSound'
                /\ TakenClear(memmap, used)' /\ TakenApart(used)' /\ PagesKept(memmap, used)'
    <3>1. ~ Panics(memmap') /\ TidiedFrom(memmap', new) /\ pc' = "pagemap"
      BY <1>1, <2>1, <2>9, <2>11
    <3>2. TakenClear(memmap', used') /\ PagesKept(memmap', used')
      BY <1>3, <2>8, <3>1, Tidied
    <3>3. UsablesApart(memmap') /\ (OnlyReservedOverlap(new) => OnlyReservedOverlap(memmap'))
      BY <3>1 DEF TidiedFrom
    <3>4. OwnParts' => OnlyReservedOverlap(memmap')
      BY <1>1, <2>7, <2>8, <3>3, DueStays
    <3>5. MapSound'
      BY <3>1, <3>3, <3>4 DEF MapSound
    <3>6. PagesKept(memmap, used)'
      BY <1>1, <3>2, DueStays
    <3> QED BY <2>8, <3>1, <3>2, <3>5, <3>6
  <2> QED BY <2>10, <2>11 DEF BootInv
<1> QED BY <1>5, <1>6

\* Every step of the boot keeps the invariant.
LEMMA StepInv == BootInv /\ [Next]_vars => BootInv'
<1> SUFFICES ASSUME BootInv, [Next]_vars PROVE BootInv'
  OBVIOUS
<1>1. CASE InitMemmap
  BY <1>1, SettleInv DEF InitMemmap
<1>2. CASE LoadSegment
  BY <1>2, SegmentInv
<1>3. CASE LoadModule
  BY <1>3, ModuleInv
<1>4. CASE Loaded
  BY <1>4, SettleInv DEF Loaded
<1>5. CASE NewTable
  BY <1>5, TableInv
<1>6. CASE Handover
  BY <1>6, SettleInv DEF Handover
<1>7. CASE UNCHANGED vars
  <2>1. /\ memmap' = memmap /\ firmware' = firmware /\ todo' = todo
        /\ top_used' = top_used /\ used' = used /\ pc' = pc
    BY <1>7 DEF vars
  <2>2. Types' <=> Types
    BY <2>1 DEF Types
  <2>3. OwnParts' <=> OwnParts
    BY <2>1, DueStays
  <2>4. PagesKept(memmap, used) => PagesKept(memmap, used)'
    BY <2>1, DueStays
  <2>5. MapSound => MapSound'
    BY <2>1, <2>3 DEF MapSound
  <2>6. Panics(memmap)' = Panics(memmap) /\ TakenClear(memmap, used)' = TakenClear(memmap, used) /\ TakenApart(used)' = TakenApart(used)
    BY <2>1
  <2> QED BY <2>1, <2>2, <2>4, <2>5, <2>6 DEF BootInv
<1> QED BY <1>1, <1>2, <1>3, <1>4, <1>5, <1>6, <1>7 DEF Next

\* The invariant of the boot: the map, what was taken off it and what is due on it.
THEOREM BootInvHolds == Spec => []BootInv
BY InitInv, StepInv, PTL DEF Spec

-----------------------------------------------------------------------------
\* What it is for.

\* What the loader wrote to is never offered again, nor given out twice.
THEOREM InUseStaysInUseHolds == Spec => []InUseStaysInUse
<1>1. ASSUME BootInv PROVE InUseStaysInUse
  <2> SUFFICES ASSUME pc # "panic"
               PROVE  /\ UsableAddresses \intersect AddressesInUse = {}
                      /\ \A u, v \in used : u # v => (u[1] .. (u[2] - 1)) \intersect (v[1] .. (v[2] - 1)) = {}
    BY DEF InUseStaysInUse
  <2>1. TakenClear(memmap, used) /\ TakenApart(used)
    BY <1>1 DEF BootInv
  <2>2. UsableAddresses = Offered(memmap)
    BY DEF UsableAddresses, Offered
  <2>3. \A x \in AddressesInUse : x \notin UsableAddresses
    <3>1. \A x \in AddressesInUse : \E u \in used : x \in u[1] .. (u[2] - 1)
      BY DEF AddressesInUse
    <3> QED BY <2>1, <2>2, <3>1 DEF TakenClear
  <2> QED BY <2>1, <2>3 DEF TakenApart
<1> QED BY <1>1, BootInvHolds, PTL

\* The map the kernel is given is sorted, its usable entries are whole pages above
\* the first MiB, and nothing but what the firmware reserved overlaps.
THEOREM HandedMapSoundHolds == Spec => []HandedMapSound
<1>1. ASSUME BootInv PROVE HandedMapSound
  <2> SUFFICES ASSUME pc = "kernel", OwnParts
               PROVE  /\ \A i, j \in DOMAIN memmap : i < j => memmap[i].base <= memmap[j].base
                      /\ \A i \in DOMAIN memmap : memmap[i].type = "usable" =>
                           memmap[i].base >= MiB /\ memmap[i].base % Page = 0 /\ memmap[i].top % Page = 0
                      /\ \A i, j \in DOMAIN memmap : i # j /\ memmap[i].type # "reserved" =>
                           Addresses(memmap[i]) \intersect Addresses(memmap[j]) = {}
    BY DEF HandedMapSound
  <2>1. MapSound
    BY <1>1 DEF BootInv
  <2>2. Ascending(memmap) /\ \A i \in DOMAIN memmap : Whole(memmap[i])
    BY <2>1 DEF MapSound
  <2>3. OnlyReservedOverlap(memmap)
    BY <2>1 DEF MapSound
  <2> QED BY <2>2, <2>3 DEF Ascending, Whole, OnlyReservedOverlap
<1> QED BY <1>1, BootInvHolds, PTL

\* No whole page that the firmware calls usable, and nothing else claims, is lost.
THEOREM NoPageForgottenHolds == Spec => []NoPageForgotten
<1>1. ASSUME BootInv PROVE NoPageForgotten
  <2> SUFFICES ASSUME pc = "kernel", NEW i \in DOMAIN firmware, NEW n \in 0 .. (firmware[i].top \div Page),
                      firmware[i].type = "usable", n * Page >= MiB,
                      PageAt(n * Page) \subseteq Addresses(firmware[i]),
                      \A j \in DOMAIN firmware \ {i} : PageAt(n * Page) \intersect Addresses(firmware[j]) = {},
                      PageAt(n * Page) \intersect AddressesInUse = {}
               PROVE  PageAt(n * Page) \subseteq UsableAddresses
    BY DEF NoPageForgotten
  <2>1. PagesKept(memmap, used) /\ Types
    BY <1>1 DEF BootInv
  <2> DEFINE page == PageAt(n * Page)
  <2>2. Due(i, n * Page)
    BY DEF Due
  <2>3. Untouched(page, used)
    <3> SUFFICES ASSUME NEW u \in used, NEW x \in page, u[1] <= x, x < u[2] PROVE FALSE
      BY DEF Untouched
    <3>1. u[1] \in Nat /\ u[2] \in Nat
      BY <2>1 DEF Types
    <3>2. x \in Int
      BY DEF PageAt
    <3>3. x \in u[1] .. (u[2] - 1)
      BY <3>1, <3>2
    <3> HIDE DEF page
    <3>4. x \in AddressesInUse
      BY <3>3 DEF AddressesInUse
    <3> QED BY <3>4 DEF page
  <2>4. Holds(memmap, page)
    BY <2>1, <2>2, <2>3 DEF PagesKept, Keeps
  <2> HIDE DEF page
  <2>5. page \subseteq UsableAddresses
    BY <2>4 DEF Holds, UsableAddresses
  <2> QED BY <2>5 DEF page
<1> QED BY <1>1, BootInvHolds, PTL

-----------------------------------------------------------------------------
\* The kernel's image.

\* What is known of a kernel.
LEMMA ImageFields ==
    ASSUME NEW elf \in Images
    PROVE  /\ elf.bits \in {32, 64} /\ elf.type \in {"exec", "dyn"} /\ elf.entry \in Nat
           /\ elf.header.size \in Nat /\ elf.header.entry \in Nat
           /\ elf.segments \in Seq([load: BOOLEAN, vaddr: Nat, paddr: Nat, offset: Nat,
                                    filesz: Nat, memsz: Nat \ {0}])
           /\ elf.rela \in Seq([kind: {"relative", "absolute"}, addr: Nat, addend: Nat])
           /\ DOMAIN elf.segments = 1 .. Len(elf.segments) /\ Len(elf.segments) \in Nat
           /\ DOMAIN elf.rela = 1 .. Len(elf.rela) /\ Len(elf.rela) \in Nat
           /\ \A i \in DOMAIN elf.segments: elf.segments[i].filesz <= elf.segments[i].memsz
<1>1. /\ elf \in [bits: {32, 64}, type: {"exec", "dyn"}, entry: Nat,
                  header: [size: Nat, kaslr: BOOLEAN, entry: Nat],
                  segments: Seq([load: BOOLEAN, vaddr: Nat, paddr: Nat, offset: Nat,
                                 filesz: Nat, memsz: Nat \ {0}]),
                  rela: Seq([kind: {"relative", "absolute"}, addr: Nat, addend: Nat])]
      /\ \A i \in DOMAIN elf.segments: elf.segments[i].filesz <= elf.segments[i].memsz
  BY ImagesAssumption
<1>2. /\ elf.segments \in Seq([load: BOOLEAN, vaddr: Nat, paddr: Nat, offset: Nat,
                               filesz: Nat, memsz: Nat \ {0}])
      /\ elf.rela \in Seq([kind: {"relative", "absolute"}, addr: Nat, addend: Nat])
      /\ elf.header \in [size: Nat, kaslr: BOOLEAN, entry: Nat]
  BY <1>1
<1> QED BY <1>1, <1>2

\* What is known of a segment, and where it is.
LEMMA SegmentFields ==
    ASSUME image \in Images, slide \in Nat, NEW i \in DOMAIN image.segments
    PROVE  LET s == image.segments[i]
           IN  /\ s.load \in BOOLEAN /\ s.vaddr \in Nat /\ s.paddr \in Nat /\ s.offset \in Nat
               /\ s.filesz \in Nat /\ s.memsz \in Nat \ {0} /\ s.filesz <= s.memsz
               /\ LoadedAt(s) \in Nat /\ ClearedAt(s) \in Nat
<1> DEFINE s == image.segments[i]
<1>1. /\ s \in [load: BOOLEAN, vaddr: Nat, paddr: Nat, offset: Nat, filesz: Nat, memsz: Nat \ {0}]
      /\ s.filesz <= s.memsz
  <2> DEFINE S == [load: BOOLEAN, vaddr: Nat, paddr: Nat, offset: Nat, filesz: Nat, memsz: Nat \ {0}]
  <2>1. image.segments \in Seq(S) /\ image.segments[i].filesz <= image.segments[i].memsz
    BY ImageFields
  <2> HIDE DEF S
  <2>2. image.segments[i] \in S
    BY <2>1
  <2> QED BY <2>1, <2>2 DEF S
<1>2. HigherHalf \in Nat
  BY SizesAssumption
<1> HIDE DEF s
<1>3. s.vaddr \in Nat /\ s.paddr \in Nat
  BY <1>1
<1>4. Physical(s) \in Nat
  BY <1>2, <1>3 DEF Physical
<1>5. LoadedAt(s) \in Nat /\ ClearedAt(s) \in Nat
  BY <1>3, <1>4 DEF LoadedAt, ClearedAt
<1>6. s.offset \in Nat /\ s.filesz \in Nat /\ s.memsz \in Nat \ {0} /\ s.load \in BOOLEAN
  BY <1>1
<1> QED BY <1>1, <1>3, <1>5, <1>6 DEF s

\* What is known of a relocation.
LEMMA RelaFields ==
    ASSUME image \in Images, NEW k \in DOMAIN image.rela
    PROVE  image.rela[k].addr \in Nat /\ image.rela[k].addend \in Nat
<1> DEFINE R == [kind: {"relative", "absolute"}, addr: Nat, addend: Nat]
<1>1. image.rela \in Seq(R)
  BY ImageFields
<1> HIDE DEF R
<1>2. image.rela[k] \in R
  BY <1>1
<1> QED BY <1>2 DEF R

\* A pointer's bytes are bytes of its segment.
LEMMA CoversInside ==
    ASSUME image \in Images, slide \in Nat, NEW i \in DOMAIN image.segments, NEW k \in DOMAIN image.rela,
           NEW a \in Nat, Covers(image.rela[k], image.segments[i], a)
    PROVE  a \in Bytes(i)
<1> DEFINE s == image.segments[i]
           r == image.rela[k]
<1>1. s.vaddr \in Nat /\ s.memsz \in Nat /\ LoadedAt(s) \in Nat
  BY SegmentFields
<1>2. r.addr \in Nat
  BY RelaFields
<1>3. Word \in Nat
  BY SizesAssumption
<1>4. /\ s.vaddr <= r.addr /\ r.addr + Word <= s.vaddr + s.memsz
      /\ a - LoadedAt(s) + s.vaddr \in r.addr .. (r.addr + Word - 1)
  BY DEF Covers, InSegment, Span
<1> HIDE DEF s, r
<1> DEFINE v == s.vaddr
           l == LoadedAt(s)
           m == s.memsz
           d == r.addr
<1>5. /\ v \in Nat /\ l \in Nat /\ m \in Nat /\ d \in Nat
      /\ v <= d /\ d + Word <= v + m /\ a - l + v \in d .. (d + Word - 1)
  BY <1>1, <1>2, <1>4
<1> HIDE DEF v, l, m, d
<1>6. a \in l .. (l + m - 1)
  BY <1>3, <1>5
<1> QED BY <1>6 DEF Bytes, Span, s, l, m

\* A byte that did not change is as it was.
LEMMA AsLinkedStays ==
    ASSUME NEW i, NEW a, NEW n, image' = image, slide' = slide, memory'[a] = memory[a], AsLinked(i, a, n)
    PROVE  AsLinked(i, a, n)'
BY DEF AsLinked, Movable, Covers, InSegment, LoadedAt, Physical

\* Where the segments are, while the slide stays.
LEMMA PlacesStay ==
    ASSUME image' = image, slide' = slide
    PROVE  /\ ToLoad' = ToLoad /\ Movable' = Movable /\ Fits' = Fits /\ Plain' = Plain
           /\ \A i : Bytes(i)' = Bytes(i)
           /\ \A s : LoadedAt(s)' = LoadedAt(s) /\ ClearedAt(s)' = ClearedAt(s)
<1>1. ToLoad' = ToLoad /\ Movable' = Movable
  BY DEF ToLoad, Movable
<1>2. \A i : Bytes(i)' = Bytes(i)
  BY DEF Bytes, Span, LoadedAt, Physical
<1>3. \A s : LoadedAt(s)' = LoadedAt(s) /\ ClearedAt(s)' = ClearedAt(s)
  BY DEF LoadedAt, ClearedAt, Physical
<1>4. Fits' = Fits
  BY <1>1, <1>2 DEF Fits
<1>5. Plain' = Plain
  BY <1>1 DEF Plain
<1> QED BY <1>1, <1>2, <1>3, <1>4, <1>5

-----------------------------------------------------------------------------
LEMMA ImageInvInit == BeforeLoading => ImageInv
<1> SUFFICES ASSUME BeforeLoading PROVE ImageInv
  OBVIOUS
<1>1. image \in Images /\ slide = 0 /\ stage = "header" /\ next_segment = 1 /\ next_rela = 1
      /\ memory = [a \in 0 .. Top |-> Free] /\ claimed = {} /\ top_addr = 0 /\ entry_point = 0
  BY DEF BeforeLoading
<1>2. /\ Len(image.segments) \in Nat /\ Len(image.rela) \in Nat
      /\ DOMAIN image.segments = 1 .. Len(image.segments)
  BY <1>1, ImageFields
<1>3. ImageTypeOK
  BY <1>1 DEF ImageTypeOK, Stages, Free
<1>4. Reading
  BY <1>1, <1>2 DEF Reading
<1>5. Here = {}
  BY <1>1, <1>2 DEF Here, ToLoad
<1>6. OwnMemory /\ SoFar
  BY <1>1, <1>5 DEF OwnMemory, SoFar
<1> QED BY <1>1, <1>3, <1>4, <1>6 DEF ImageInv

LEMMA ReadHeaderKeeps == ImageInv /\ ReadHeader => ImageInv'
<1> SUFFICES ASSUME ImageInv, ReadHeader PROVE ImageInv'
  OBVIOUS
<1>1. /\ stage = "header" /\ image' = image /\ next_segment' = next_segment /\ next_rela' = next_rela
      /\ memory' = memory /\ claimed' = claimed /\ top_addr' = top_addr /\ entry_point' = entry_point
  BY DEF ReadHeader
<1>2. ImageTypeOK /\ Reading /\ OwnMemory /\ (Plain => SoFar) /\ next_segment = 1 /\ slide = 0 /\ next_rela = 1
  BY <1>1 DEF ImageInv, Reading
<1>3. image \in Images /\ Len(image.segments) \in Nat /\ Len(image.rela) \in Nat
      /\ DOMAIN image.segments = 1 .. Len(image.segments)
  BY <1>2, ImageFields DEF ImageTypeOK
<1>4. Here = {}
  BY <1>1, <1>2, <1>3 DEF Here, ToLoad
<1>5. claimed = {}
  BY <1>2, <1>4 DEF OwnMemory
<1>6. \/ LoadSection(image) # 0 /\ stage' = "panic" /\ slide' = slide
      \/ LoadSection(image) = 0 /\ stage' = "segments" /\ slide' \in Nat
  <2>1. Slides \subseteq Nat
    BY SizesAssumption
  <2> QED BY <2>1 DEF ReadHeader
<1>7. ImageTypeOK'
  BY <1>1, <1>2, <1>6 DEF ImageTypeOK, Stages
<1>8. Reading'
  BY <1>1, <1>2, <1>3, <1>6 DEF Reading
<1>9. (stage = "panic" => ~ Fits)'
  BY <1>1, <1>6 DEF Fits
<1>10. Here' = {}
  BY <1>1, <1>2, <1>3, <1>6 DEF Here, ToLoad
<1>11. OwnMemory'
  BY <1>1, <1>5, <1>10 DEF OwnMemory
<1>12. (Plain => SoFar)'
  <2> SUFFICES ASSUME Plain' PROVE SoFar'
    OBVIOUS
  <2>1. Plain
    BY <1>1, <1>2 DEF Plain, ToLoad
  <2>2. \A a \in (0 .. Top) \ claimed : memory[a] = Free
    BY <1>2, <2>1 DEF SoFar
  <2> QED BY <1>1, <1>10, <2>2 DEF SoFar
<1>13. (stage # "entered")'
  BY <1>6
<1> QED BY <1>7, <1>8, <1>9, <1>11, <1>12, <1>13 DEF ImageInv

LEMMA SkipSegmentKeeps == ImageInv /\ SkipSegment => ImageInv'
<1> SUFFICES ASSUME ImageInv, SkipSegment PROVE ImageInv'
  OBVIOUS
<1>1. /\ stage = "segments" /\ next_segment <= Len(image.segments) /\ ~ image.segments[next_segment].load
      /\ next_segment' = next_segment + 1 /\ image' = image /\ slide' = slide /\ stage' = stage
      /\ next_rela' = next_rela /\ memory' = memory /\ claimed' = claimed
      /\ top_addr' = top_addr /\ entry_point' = entry_point
  BY DEF SkipSegment
<1>2. ImageTypeOK /\ Reading /\ OwnMemory /\ (Plain => SoFar)
  BY <1>1 DEF ImageInv
<1>3. image \in Images /\ Len(image.segments) \in Nat /\ next_segment \in Nat \ {0}
      /\ DOMAIN image.segments = 1 .. Len(image.segments)
  BY <1>2, ImageFields DEF ImageTypeOK
<1>4. ImageTypeOK'
  BY <1>1, <1>2 DEF ImageTypeOK
<1>5. Reading'
  BY <1>1, <1>2, <1>3 DEF Reading
<1>6. Here' = Here
  BY <1>1, <1>3 DEF Here, ToLoad
<1>7. OwnMemory'
  BY <1>1, <1>2, <1>6, PlacesStay DEF OwnMemory
<1>8. (Plain => SoFar)'
  <2> SUFFICES ASSUME Plain' PROVE SoFar'
    OBVIOUS
  <2>1. SoFar
    BY <1>1, <1>2, PlacesStay
  <2>2. ASSUME NEW i \in Here, NEW a \in Bytes(i) PROVE (AsLinked(i, a, Applied(i)) /\ a < top_addr)'
    <3>1. AsLinked(i, a, Applied(i)) /\ a < top_addr
      BY <2>1 DEF SoFar
    <3>2. Applied(i)' = Applied(i)
      BY <1>1 DEF Applied
    <3>3. AsLinked(i, a, Applied(i))'
      BY <1>1, <3>1, <3>2, AsLinkedStays
    <3> QED BY <1>1, <3>1, <3>3
  <2>3. \A a \in (0 .. Top) \ claimed : memory[a] = Free
    BY <2>1 DEF SoFar
  <2> QED BY <1>1, <1>6, <2>2, <2>3, PlacesStay DEF SoFar
<1> QED BY <1>1, <1>4, <1>5, <1>7, <1>8 DEF ImageInv

LEMMA NoMemoryKeeps == ImageInv /\ NoMemory => ImageInv'
<1> SUFFICES ASSUME ImageInv, NoMemory PROVE ImageInv'
  OBVIOUS
<1>1. /\ stage = "segments" /\ next_segment <= Len(image.segments) /\ image.segments[next_segment].load
      /\ ~ Bytes(next_segment) \subseteq (0 .. Top) \ claimed
      /\ next_segment' = next_segment /\ image' = image /\ slide' = slide /\ stage' = "panic"
      /\ next_rela' = next_rela /\ memory' = memory /\ claimed' = claimed
      /\ top_addr' = top_addr /\ entry_point' = entry_point
  BY DEF NoMemory, Bytes
<1>2. ImageTypeOK /\ Reading /\ OwnMemory
  BY <1>1 DEF ImageInv
<1>3. image \in Images /\ Len(image.segments) \in Nat /\ next_segment \in Nat \ {0}
      /\ DOMAIN image.segments = 1 .. Len(image.segments)
  BY <1>2, ImageFields DEF ImageTypeOK
<1>4. ImageTypeOK'
  BY <1>1, <1>2 DEF ImageTypeOK, Stages
<1>5. Reading'
  BY <1>1, <1>2, <1>3 DEF Reading
<1>6. next_segment \in ToLoad
  BY <1>1, <1>3 DEF ToLoad
<1>7. ~ Fits
  <2>1. PICK a \in Bytes(next_segment) : a \notin 0 .. Top \/ a \in claimed
    BY <1>1
  <2>2. CASE a \notin 0 .. Top
    BY <1>6, <2>1, <2>2 DEF Fits
  <2>3. CASE a \in claimed
    <3>1. PICK i \in Here : a \in Bytes(i)
      BY <1>2, <2>3 DEF OwnMemory
    <3>2. i \in ToLoad /\ i # next_segment
      BY <1>1, <1>3, <3>1 DEF Here, ToLoad
    <3> QED BY <1>6, <2>1, <3>1, <3>2 DEF Fits
  <2> QED BY <2>1, <2>2, <2>3
<1>8. ~ Fits'
  BY <1>1, <1>7, PlacesStay
<1> QED BY <1>1, <1>4, <1>5, <1>8 DEF ImageInv

LEMMA PlaceSegmentKeeps == ImageInv /\ PlaceSegment => ImageInv'
<1> SUFFICES ASSUME ImageInv, PlaceSegment PROVE ImageInv'
  OBVIOUS
<1>0. PICK n \in Nat \ {0} : n = next_segment
  BY DEF ImageInv, ImageTypeOK
<1> DEFINE s == image.segments[n]
<1>1. /\ stage = "segments" /\ n <= Len(image.segments) /\ s.load
      /\ Bytes(n) \subseteq (0 .. Top) \ claimed /\ claimed' = claimed \union Bytes(n)
      /\ memory' = Placed(s)
      /\ top_addr' = IF ClearedAt(s) + s.memsz > top_addr THEN ClearedAt(s) + s.memsz ELSE top_addr
      /\ image' = image /\ slide' = slide /\ next_rela' = next_rela /\ entry_point' = entry_point
  BY <1>0 DEF PlaceSegment, Bytes
<1>2. \/ Movable /\ stage' = "relocations" /\ next_segment' = n
      \/ ~ Movable /\ stage' = stage /\ next_segment' = n + 1
  BY <1>0 DEF PlaceSegment
<1>3. ImageTypeOK /\ Reading /\ OwnMemory /\ (Plain => SoFar)
  BY <1>1 DEF ImageInv
<1>4. /\ image \in Images /\ slide \in Nat /\ Len(image.segments) \in Nat /\ n \in Nat \ {0}
      /\ DOMAIN image.segments = 1 .. Len(image.segments) /\ Len(image.rela) \in Nat
      /\ next_rela = 1 /\ top_addr \in Nat /\ Top \in Nat
  BY <1>0, <1>1, <1>3, ImageFields, SizesAssumption DEF ImageTypeOK, Reading
<1>5. n \in DOMAIN image.segments /\ n \in ToLoad
  BY <1>1, <1>4 DEF ToLoad
<1>6. /\ s.vaddr \in Nat /\ s.offset \in Nat /\ s.filesz \in Nat /\ s.memsz \in Nat \ {0}
      /\ s.filesz <= s.memsz /\ LoadedAt(s) \in Nat /\ ClearedAt(s) \in Nat
  BY <1>4, <1>5, SegmentFields
<1>7. Bytes(n) = LoadedAt(s) .. (LoadedAt(s) + s.memsz - 1)
  BY DEF Bytes, Span
<1>8. Here' = Here \union {n} /\ n \notin Here
  <2>1. \A i \in ToLoad : i \in Nat
    BY <1>4 DEF ToLoad
  <2>2. ToLoad' = ToLoad
    BY <1>1, PlacesStay
  <2>3. n \notin Here
    BY <1>0, <1>1, <1>4 DEF Here
  <2>4. ASSUME NEW i \in ToLoad PROVE i \in Here' <=> i \in Here \/ i = n
    <3>1. i \in Nat /\ n \in Nat
      BY <1>4, <2>1
    <3>2. i \in Here <=> i < n
      BY <1>0, <1>1 DEF Here
    <3>3. CASE stage' = "relocations" /\ next_segment' = n
      BY <1>1, <2>2, <3>1, <3>2, <3>3 DEF Here
    <3>4. CASE stage' = stage /\ next_segment' = n + 1
      <4>1. i \in Here' <=> i < n + 1
        BY <1>1, <2>2, <3>4 DEF Here
      <4> QED BY <3>1, <3>2, <4>1
    <3> QED BY <1>2, <3>3, <3>4
  <2>5. Here \subseteq ToLoad /\ Here' \subseteq ToLoad
    BY <2>2 DEF Here
  <2> QED BY <1>5, <2>3, <2>4, <2>5
<1> HIDE DEF s
<1>9. \A a \in 0 .. Top :
          memory'[a] = IF a \in (ClearedAt(s) + s.filesz) .. (ClearedAt(s) + s.memsz - 1) THEN Zero
                       ELSE IF a \in LoadedAt(s) .. (LoadedAt(s) + s.filesz - 1)
                            THEN <<"file", s.offset + (a - LoadedAt(s))>>
                       ELSE memory[a]
  BY <1>1 DEF Placed, Span
<1>10. ImageTypeOK'
  <2>1. memory' \in [0 .. Top -> {"free", "zero", "file", "pointer"} \X Nat]
    <3>1. ASSUME NEW a \in 0 .. Top PROVE Placed(s)[a] \in {"free", "zero", "file", "pointer"} \X Nat
      <4>1. memory[a] \in {"free", "zero", "file", "pointer"} \X Nat
        BY <1>3 DEF ImageTypeOK
      <4>2. Zero \in {"free", "zero", "file", "pointer"} \X Nat
        BY DEF Zero
      <4>3. a \in LoadedAt(s) .. (LoadedAt(s) + s.filesz - 1) => s.offset + (a - LoadedAt(s)) \in Nat
        BY <1>6
      <4>4. a \in LoadedAt(s) .. (LoadedAt(s) + s.filesz - 1) =>
                <<"file", s.offset + (a - LoadedAt(s))>> \in {"free", "zero", "file", "pointer"} \X Nat
        BY <4>3
      <4> QED BY <1>1, <1>9, <4>1, <4>2, <4>4
    <3>2. Placed(s) = [a \in 0 .. Top |-> Placed(s)[a]]
      BY DEF Placed
    <3> QED BY <1>1, <3>1, <3>2
  <2>2. claimed' \subseteq 0 .. Top
    BY <1>1, <1>3 DEF ImageTypeOK
  <2>3. top_addr' \in Nat /\ next_segment' \in Nat \ {0} /\ stage' \in Stages
    BY <1>0, <1>1, <1>2, <1>4, <1>6 DEF Stages
  <2> QED BY <1>1, <1>3, <2>1, <2>2, <2>3 DEF ImageTypeOK
<1>11. Reading'
  <2>1. ToLoad' = ToLoad /\ Movable' = Movable
    BY <1>1, PlacesStay
  <2> QED BY <1>0, <1>1, <1>2, <1>3, <1>4, <1>5, <2>1 DEF Reading
<1>12. \A i : Bytes(i)' = Bytes(i)
  BY <1>1, PlacesStay
<1>13. OwnMemory'
  <2>1. \A i \in Here : Bytes(i) \subseteq claimed /\ Bytes(i) \intersect Bytes(n) = {}
    BY <1>1, <1>3 DEF OwnMemory
  <2> HIDE DEF Here
  <2>2. \A i \in Here' : Bytes(i) \subseteq claimed'
    BY <1>1, <1>8, <2>1
  <2>3. \A a \in claimed' : \E i \in Here' : a \in Bytes(i)
    BY <1>1, <1>3, <1>8 DEF OwnMemory
  <2>4. \A i, k \in Here' : i # k => Bytes(i) \intersect Bytes(k) = {}
    BY <1>3, <1>8, <2>1 DEF OwnMemory
  <2> QED BY <1>12, <2>2, <2>3, <2>4 DEF OwnMemory
<1>14. (Plain => SoFar)'
  <2> SUFFICES ASSUME Plain' PROVE SoFar'
    OBVIOUS
  <2>1. Plain /\ SoFar
    BY <1>1, <1>3, PlacesStay
  <2>2. ClearedAt(s) = LoadedAt(s)
    <3>1. image.bits \in {32, 64}
      BY <1>4, ImageFields
    <3>2. image.bits = 32 => s.paddr = s.vaddr
      BY <1>5, <2>1 DEF Plain, s
    <3> QED BY <3>1, <3>2 DEF ClearedAt, LoadedAt
  <2>3. \A a \in 0 .. Top : a \notin Bytes(n) => memory'[a] = memory[a]
    <3> DEFINE l == LoadedAt(s)
               f == s.filesz
               m == s.memsz
    <3>1. l \in Nat /\ f \in Nat /\ m \in Nat /\ f <= m
      BY <1>6
    <3>2. Bytes(n) = l .. (l + m - 1)
      BY <1>7
    <3>3. \A a \in 0 .. Top : a \notin (l + f) .. (l + m - 1) /\ a \notin l .. (l + f - 1) => memory'[a] = memory[a]
      BY <1>9, <2>2
    <3> HIDE DEF l, f, m
    <3>4. (l + f) .. (l + m - 1) \subseteq l .. (l + m - 1) /\ l .. (l + f - 1) \subseteq l .. (l + m - 1)
      BY <3>1
    <3> QED BY <3>2, <3>3, <3>4
  <2>4. \A a \in Bytes(n) :
            memory'[a] = IF a < LoadedAt(s) + s.filesz THEN <<"file", s.offset + (a - LoadedAt(s))>> ELSE Zero
    <3> TAKE a \in Bytes(n)
    <3>1. a \in 0 .. Top
      BY <1>1
    <3>2. a \in Int /\ LoadedAt(s) <= a /\ a <= LoadedAt(s) + s.memsz - 1
      BY <1>6, <1>7
    <3> DEFINE l == LoadedAt(s)
               f == s.filesz
               m == s.memsz
    <3>3. l \in Nat /\ f \in Nat /\ m \in Nat /\ f <= m /\ a \in Int /\ l <= a /\ a <= l + m - 1
      BY <1>6, <3>2
    <3>4. memory'[a] = IF a \in (l + f) .. (l + m - 1) THEN Zero
                       ELSE IF a \in l .. (l + f - 1) THEN <<"file", s.offset + (a - l)>> ELSE memory[a]
      BY <1>9, <2>2, <3>1
    <3>5. memory'[a] = IF a < l + f THEN <<"file", s.offset + (a - l)>> ELSE Zero
      <4> HIDE DEF l, f, m
      <4>1. a < l + f => a \notin (l + f) .. (l + m - 1) /\ a \in l .. (l + f - 1)
        BY <3>3
      <4>2. ~ (a < l + f) => a \in (l + f) .. (l + m - 1)
        BY <3>3
      <4> QED BY <3>4, <4>1, <4>2
    <3> QED BY <3>5
  <2>5. ASSUME NEW i \in Here, NEW a \in Bytes(i) PROVE (AsLinked(i, a, Applied(i)) /\ a < top_addr)'
    <3>1. AsLinked(i, a, Applied(i)) /\ a < top_addr
      BY <2>1 DEF SoFar
    <3>2. i # n
      BY <1>8
    <3>3. Applied(i)' = Applied(i)
      BY <1>0, <1>1, <1>2, <1>4, <3>2 DEF Applied, Here, ToLoad
    <3>4. a \in claimed /\ a \in 0 .. Top /\ a \notin Bytes(n)
      BY <1>1, <1>3 DEF OwnMemory, ImageTypeOK
    <3>5. memory'[a] = memory[a]
      BY <2>3, <3>4
    <3>6. AsLinked(i, a, Applied(i))'
      BY <1>1, <3>1, <3>3, <3>5, AsLinkedStays
    <3>7. a < top_addr'
      BY <1>1, <1>4, <1>6, <3>1, <3>4
    <3> QED BY <3>6, <3>7
  <2>6. ASSUME NEW a \in Bytes(n) PROVE (AsLinked(n, a, Applied(n)) /\ a < top_addr)'
    <3>1. Movable' = Movable /\ \A t : LoadedAt(t)' = LoadedAt(t)
      BY <1>1, PlacesStay
    <3>2. \A k \in 1 .. Applied(n)' : ~ Movable
      <4>1. CASE Movable
        <5>1. Applied(n)' = 0
          BY <1>0, <1>1, <1>2, <1>4, <4>1 DEF Applied
        <5> QED BY <5>1
      <4>2. CASE ~ Movable
        BY <4>2
      <4> QED BY <4>1, <4>2
    <3>3. image'.segments[n] = s
      BY <1>1 DEF s
    <3>4. AsLinked(n, a, Applied(n))'
      <4>1. memory'[a] = IF a < LoadedAt(s) + s.filesz THEN <<"file", s.offset + (a - LoadedAt(s))>> ELSE Zero
        BY <2>4
      <4> QED BY <1>1, <3>1, <3>2, <3>3, <4>1 DEF AsLinked, LoadedAt, Physical
    <3>5. a \in Int /\ a <= LoadedAt(s) + s.memsz - 1
      BY <1>6, <1>7
    <3>6. a < top_addr'
      BY <1>1, <1>4, <1>6, <2>2, <3>5
    <3> QED BY <3>4, <3>6
  <2>7. \A a \in (0 .. Top) \ claimed' : memory'[a] = Free
    <3>1. \A a \in (0 .. Top) \ claimed : memory[a] = Free
      BY <2>1 DEF SoFar
    <3> QED BY <1>1, <2>3, <3>1
  <2>8. \A i \in Here' : \A a \in Bytes(i) : (AsLinked(i, a, Applied(i)) /\ a < top_addr)'
    <3> TAKE i \in Here'
    <3>1. CASE i \in Here
      BY <2>5, <3>1
    <3>2. CASE i = n
      BY <2>6, <3>2
    <3> QED BY <1>8, <3>1, <3>2
  <2> QED BY <1>12, <2>7, <2>8 DEF SoFar
<1>15. stage' # "panic" /\ stage' # "entered"
  BY <1>1, <1>2
<1> QED BY <1>10, <1>11, <1>13, <1>14, <1>15 DEF ImageInv

LEMMA ApplyKeeps == ImageInv /\ Apply => ImageInv'
<1> SUFFICES ASSUME ImageInv, Apply PROVE ImageInv'
  OBVIOUS
<1>0. PICK n \in Nat \ {0}, p \in Nat \ {0} : n = next_segment /\ p = next_rela
  BY DEF ImageInv, ImageTypeOK
<1> DEFINE s == image.segments[n]
           r == image.rela[p]
<1>1. /\ stage = "relocations" /\ p <= Len(image.rela) /\ next_rela' = p + 1
      /\ memory' = [a \in 0 .. Top |->
                        IF Covers(r, s, a) THEN <<"pointer", slide + r.addend>> ELSE memory[a]]
      /\ image' = image /\ slide' = slide /\ stage' = stage /\ next_segment' = next_segment
      /\ claimed' = claimed /\ top_addr' = top_addr /\ entry_point' = entry_point
  BY <1>0 DEF Apply
<1>2. ImageTypeOK /\ Reading /\ OwnMemory /\ (Plain => SoFar)
  BY <1>1 DEF ImageInv
<1>3. /\ image \in Images /\ slide \in Nat /\ Len(image.segments) \in Nat /\ Len(image.rela) \in Nat
      /\ DOMAIN image.segments = 1 .. Len(image.segments) /\ DOMAIN image.rela = 1 .. Len(image.rela)
      /\ Movable /\ n \in ToLoad /\ Top \in Nat
  BY <1>0, <1>1, <1>2, ImageFields, SizesAssumption DEF ImageTypeOK, Reading
<1>4. n \in DOMAIN image.segments /\ p \in DOMAIN image.rela /\ n \in Here
  BY <1>0, <1>1, <1>3 DEF ToLoad, Here
<1>5. r.addend \in Nat
  BY <1>3, <1>4, RelaFields
<1>6. \A a \in 0 .. Top : Covers(r, s, a) => a \in Bytes(n)
  BY <1>3, <1>4, CoversInside
<1>7. Bytes(n) \subseteq claimed /\ claimed \subseteq 0 .. Top
  BY <1>2, <1>4 DEF OwnMemory, ImageTypeOK
<1> HIDE DEF s, r
<1>8. \A a \in 0 .. Top : memory'[a] = IF Covers(r, s, a) THEN <<"pointer", slide + r.addend>> ELSE memory[a]
  BY <1>1
<1>9. ImageTypeOK'
  <2>1. <<"pointer", slide + r.addend>> \in {"free", "zero", "file", "pointer"} \X Nat
    BY <1>3, <1>5
  <2>2. memory' \in [0 .. Top -> {"free", "zero", "file", "pointer"} \X Nat]
    BY <1>1, <1>2, <2>1 DEF ImageTypeOK
  <2>3. next_rela' \in Nat \ {0}
    BY <1>1
  <2> QED BY <1>1, <1>2, <2>2, <2>3 DEF ImageTypeOK
<1>10. Reading'
  <2>1. ToLoad' = ToLoad /\ Movable' = Movable
    BY <1>1, PlacesStay
  <2> QED BY <1>1, <1>2, <1>3, <2>1 DEF Reading
<1>11. Here' = Here /\ \A i : Bytes(i)' = Bytes(i)
  BY <1>1, PlacesStay DEF Here
<1>12. OwnMemory'
  BY <1>1, <1>2, <1>11 DEF OwnMemory
<1>13. (Plain => SoFar)'
  <2> SUFFICES ASSUME Plain' PROVE SoFar'
    OBVIOUS
  <2>1. SoFar
    BY <1>1, <1>2, PlacesStay
  <2>2. ASSUME NEW i \in Here, NEW a \in Bytes(i), i # n PROVE AsLinked(i, a, Applied(i))'
    <3>1. AsLinked(i, a, Applied(i))
      BY <2>1 DEF SoFar
    <3>2. Applied(i)' = Applied(i)
      BY <1>0, <1>1, <2>2 DEF Applied
    <3>3. a \notin Bytes(n) /\ a \in 0 .. Top
      BY <1>2, <1>4, <1>7, <2>2 DEF OwnMemory
    <3>4. memory'[a] = memory[a]
      BY <1>6, <1>8, <3>3
    <3> QED BY <1>1, <3>1, <3>2, <3>4, AsLinkedStays
  <2>3. ASSUME NEW a \in Bytes(n) PROVE AsLinked(n, a, Applied(n))'
    <3>1. AsLinked(n, a, p - 1)
      <4>1. AsLinked(n, a, Applied(n)) /\ Applied(n) = p - 1
        BY <1>0, <1>1, <1>4, <2>1 DEF SoFar, Applied
      <4> QED BY <4>1
    <3>2. Applied(n)' = p
      BY <1>0, <1>1 DEF Applied
    <3>3. memory'[a] = IF Covers(r, s, a) THEN <<"pointer", slide + r.addend>> ELSE memory[a]
      BY <1>7, <1>8
    <3> DEFINE Points(k) == Movable /\ Covers(image.rela[k], s, a)
               Fresh == IF a < LoadedAt(s) + s.filesz THEN <<"file", s.offset + (a - LoadedAt(s))>> ELSE Zero
    <3>4. /\ (\A k \in 1 .. (p - 1) : ~ Points(k)) => memory[a] = Fresh
          /\ \A k \in 1 .. (p - 1) : Points(k) /\ (\A later \in (k + 1) .. (p - 1) : ~ Points(later)) =>
                 memory[a] = <<"pointer", slide + image.rela[k].addend>>
      BY <3>1 DEF AsLinked, s
    <3>5. Points(p) <=> Covers(r, s, a)
      BY <1>3 DEF r
    <3>6. p \in 1 .. p /\ 1 .. (p - 1) \subseteq 1 .. p /\ \A k \in 1 .. p : k = p \/ k \in 1 .. (p - 1)
      OBVIOUS
    <3> HIDE DEF Points, Fresh
    <3>7. (\A k \in 1 .. p : ~ Points(k)) => memory'[a] = Fresh
      BY <3>3, <3>4, <3>5, <3>6
    <3>8. ASSUME NEW k \in 1 .. p, Points(k), \A later \in (k + 1) .. p : ~ Points(later)
          PROVE  memory'[a] = <<"pointer", slide + image.rela[k].addend>>
      <4>1. CASE k = p
        BY <3>3, <3>5, <3>8, <4>1 DEF r
      <4>2. CASE k \in 1 .. (p - 1)
        <5>1. p \in (k + 1) .. p /\ (k + 1) .. (p - 1) \subseteq (k + 1) .. p
          BY <4>2
        <5>2. ~ Covers(r, s, a)
          BY <3>5, <3>8, <5>1
        <5> QED BY <3>3, <3>4, <3>8, <4>2, <5>1, <5>2
      <4> QED BY <3>6, <4>1, <4>2
    <3>9. /\ (\A k \in 1 .. p : ~ Points(k)) => memory'[a] = Fresh
          /\ \A k \in 1 .. p : Points(k) /\ (\A later \in (k + 1) .. p : ~ Points(later)) =>
                 memory'[a] = <<"pointer", slide + image.rela[k].addend>>
      BY <3>7, <3>8
    <3> QED BY <1>1, <3>2, <3>9 DEF AsLinked, Points, Fresh, s, Movable, Covers, InSegment, LoadedAt, Physical
  <2>4. ASSUME NEW i \in Here, NEW a \in Bytes(i) PROVE (AsLinked(i, a, Applied(i)) /\ a < top_addr)'
    <3>1. a < top_addr
      BY <2>1 DEF SoFar
    <3>2. AsLinked(i, a, Applied(i))'
      <4>1. CASE i = n
        BY <2>3, <4>1
      <4> QED BY <2>2, <4>1
    <3> QED BY <1>1, <3>1, <3>2
  <2>5. \A a \in (0 .. Top) \ claimed : memory'[a] = Free
    <3>1. \A a \in (0 .. Top) \ claimed : memory[a] = Free
      BY <2>1 DEF SoFar
    <3> QED BY <1>6, <1>7, <1>8, <3>1
  <2> QED BY <1>1, <1>11, <2>4, <2>5 DEF SoFar
<1> QED BY <1>1, <1>9, <1>10, <1>12, <1>13 DEF ImageInv

LEMMA EndRelocationsKeeps == ImageInv /\ EndRelocations => ImageInv'
<1> SUFFICES ASSUME ImageInv, EndRelocations PROVE ImageInv'
  OBVIOUS
<1>0. PICK n \in Nat \ {0}, p \in Nat \ {0} : n = next_segment /\ p = next_rela
  BY DEF ImageInv, ImageTypeOK
<1>1. /\ stage = "relocations" /\ p > Len(image.rela) /\ stage' = "segments"
      /\ next_segment' = n + 1 /\ next_rela' = 1 /\ image' = image /\ slide' = slide
      /\ memory' = memory /\ claimed' = claimed /\ top_addr' = top_addr /\ entry_point' = entry_point
  BY <1>0 DEF EndRelocations
<1>2. ImageTypeOK /\ Reading /\ OwnMemory /\ (Plain => SoFar)
  BY <1>1 DEF ImageInv
<1>3. /\ image \in Images /\ Len(image.segments) \in Nat /\ Len(image.rela) \in Nat
      /\ DOMAIN image.segments = 1 .. Len(image.segments)
      /\ n \in ToLoad /\ p <= Len(image.rela) + 1
  BY <1>0, <1>1, <1>2, ImageFields DEF ImageTypeOK, Reading
<1>4. ImageTypeOK'
  BY <1>1, <1>2 DEF ImageTypeOK, Stages
<1>5. n <= Len(image.segments) /\ \A i \in ToLoad : i \in Nat
  BY <1>3 DEF ToLoad
<1>6. Reading'
  BY <1>1, <1>2, <1>3, <1>5 DEF Reading
<1>7. ToLoad' = ToLoad /\ \A i : Bytes(i)' = Bytes(i)
  BY <1>1, PlacesStay
<1>8. Here' = Here
  <2>1. \A i \in ToLoad : i < n + 1 <=> i < n \/ i = n
    BY <1>5
  <2> QED BY <1>0, <1>1, <1>7, <2>1 DEF Here
<1>9. OwnMemory'
  BY <1>1, <1>2, <1>7, <1>8 DEF OwnMemory
<1>10. (Plain => SoFar)'
  <2> SUFFICES ASSUME Plain' PROVE SoFar'
    OBVIOUS
  <2>1. SoFar
    BY <1>1, <1>2, PlacesStay
  <2>2. ASSUME NEW i \in Here, NEW a \in Bytes(i) PROVE (AsLinked(i, a, Applied(i)) /\ a < top_addr)'
    <3>1. AsLinked(i, a, Applied(i)) /\ a < top_addr
      BY <2>1 DEF SoFar
    <3>2. Applied(i)' = Applied(i)
      BY <1>0, <1>1, <1>3 DEF Applied
    <3>3. AsLinked(i, a, Applied(i))'
      BY <1>1, <3>1, <3>2, AsLinkedStays
    <3> QED BY <1>1, <3>1, <3>3
  <2>3. \A a \in (0 .. Top) \ claimed : memory[a] = Free
    BY <2>1 DEF SoFar
  <2> QED BY <1>1, <1>7, <1>8, <2>2, <2>3 DEF SoFar
<1> QED BY <1>1, <1>4, <1>6, <1>9, <1>10 DEF ImageInv

LEMMA EnterKeeps == ImageInv /\ Enter => ImageInv'
<1> SUFFICES ASSUME ImageInv, Enter PROVE ImageInv'
  OBVIOUS
<1>1. /\ stage = "segments" /\ next_segment > Len(image.segments) /\ stage' = "entered"
      /\ entry_point' = (IF image.header.entry # 0 THEN image.header.entry ELSE image.entry)
                            + IF Movable THEN slide ELSE 0
      /\ next_segment' = next_segment /\ next_rela' = next_rela /\ image' = image /\ slide' = slide
      /\ memory' = memory /\ claimed' = claimed /\ top_addr' = top_addr
  BY DEF Enter
<1>2. ImageTypeOK /\ Reading /\ OwnMemory /\ (Plain => SoFar)
  BY <1>1 DEF ImageInv
<1>3. /\ image \in Images /\ slide \in Nat /\ Len(image.segments) \in Nat /\ Len(image.rela) \in Nat
      /\ next_segment \in Nat /\ image.header.entry \in Nat /\ image.entry \in Nat
  BY <1>2, ImageFields DEF ImageTypeOK
<1>4. entry_point' \in Nat
  BY <1>1, <1>3
<1>5. ImageTypeOK'
  BY <1>1, <1>2, <1>4 DEF ImageTypeOK, Stages
<1>6. Reading'
  BY <1>1, <1>2, <1>3 DEF Reading
<1>7. ToLoad' = ToLoad /\ Movable' = Movable /\ \A i : Bytes(i)' = Bytes(i)
  BY <1>1, PlacesStay
<1>8. Here' = Here
  BY <1>1, <1>7 DEF Here
<1>9. OwnMemory'
  BY <1>1, <1>2, <1>7, <1>8 DEF OwnMemory
<1>10. (Plain => SoFar)'
  <2> SUFFICES ASSUME Plain' PROVE SoFar'
    OBVIOUS
  <2>1. SoFar
    BY <1>1, <1>2, PlacesStay
  <2>2. ASSUME NEW i \in Here, NEW a \in Bytes(i) PROVE (AsLinked(i, a, Applied(i)) /\ a < top_addr)'
    <3>1. AsLinked(i, a, Applied(i)) /\ a < top_addr
      BY <2>1 DEF SoFar
    <3>2. Applied(i)' = Applied(i)
      BY <1>1 DEF Applied
    <3>3. AsLinked(i, a, Applied(i))'
      BY <1>1, <3>1, <3>2, AsLinkedStays
    <3> QED BY <1>1, <3>1, <3>3
  <2>3. \A a \in (0 .. Top) \ claimed : memory[a] = Free
    BY <2>1 DEF SoFar
  <2> QED BY <1>1, <1>7, <1>8, <2>2, <2>3 DEF SoFar
<1> QED BY <1>1, <1>5, <1>6, <1>7, <1>9, <1>10 DEF ImageInv

LEMMA ImageStutter == ImageInv /\ UNCHANGED image_vars => ImageInv'
<1> SUFFICES ASSUME ImageInv, UNCHANGED image_vars PROVE ImageInv'
  OBVIOUS
<1>1. /\ image' = image /\ slide' = slide /\ stage' = stage /\ next_segment' = next_segment
      /\ next_rela' = next_rela /\ memory' = memory /\ claimed' = claimed /\ top_addr' = top_addr
      /\ entry_point' = entry_point
  BY DEF image_vars
<1>2. ImageTypeOK' <=> ImageTypeOK
  BY <1>1 DEF ImageTypeOK
<1>3. Reading' <=> Reading
  BY <1>1, PlacesStay DEF Reading
<1>4. Here' = Here /\ \A i : Applied(i)' = Applied(i)
  BY <1>1, PlacesStay DEF Here, Applied
<1>5. OwnMemory' <=> OwnMemory
  BY <1>1, <1>4, PlacesStay DEF OwnMemory
<1>6. SoFar => SoFar'
  <2>1. ASSUME SoFar, NEW i \in Here, NEW a \in Bytes(i)
        PROVE  (AsLinked(i, a, Applied(i)) /\ a < top_addr)'
    <3>1. AsLinked(i, a, Applied(i)) /\ a < top_addr
      BY <2>1 DEF SoFar
    <3>2. AsLinked(i, a, Applied(i))'
      BY <1>1, <1>4, <3>1, AsLinkedStays
    <3> QED BY <1>1, <3>1, <3>2
  <2> QED BY <1>1, <1>4, <2>1, PlacesStay DEF SoFar
<1> QED BY <1>1, <1>2, <1>3, <1>5, <1>6, PlacesStay DEF ImageInv

\* The invariant: what is in place is the file as far as it was read.
THEOREM ImageInvHolds == LoadingSpec => []ImageInv
<1>1. ImageInv /\ [Loading]_image_vars => ImageInv'
  BY ReadHeaderKeeps, SkipSegmentKeeps, PlaceSegmentKeeps, NoMemoryKeeps, ApplyKeeps, EndRelocationsKeeps,
     EnterKeeps, ImageStutter DEF Loading
<1> QED BY ImageInvInit, <1>1, PTL DEF LoadingSpec

\* What the kernel finds when it starts is its file, for every kernel a linker may
\* make, every slide and every memory.
THEOREM ImageLoadedHolds == LoadingSpec => []ImageLoaded
<1>1. ASSUME ImageInv PROVE ImageLoaded
  <2>1. stage = "panic" => ~ Fits
    BY <1>1 DEF ImageInv
  <2> SUFFICES ASSUME stage = "entered"
               PROVE  /\ Fits
                      /\ Plain =>
                           /\ \A a \in 0 .. Top:
                                  /\ \A i \in ToLoad: a \in Bytes(i) => AsLinked(i, a, Len(image.rela))
                                  /\ (\A i \in ToLoad: a \notin Bytes(i)) => memory[a] = Free
                           /\ \A i \in ToLoad: \A a \in Bytes(i): a < top_addr
                           /\ entry_point = slide + IF image.header.entry # 0 THEN image.header.entry
                                                    ELSE image.entry
    BY <2>1 DEF ImageLoaded
  <2>2. /\ ImageTypeOK /\ Reading /\ OwnMemory /\ (Plain => SoFar)
        /\ entry_point = (IF image.header.entry # 0 THEN image.header.entry ELSE image.entry)
                             + IF Movable THEN slide ELSE 0
    BY <1>1 DEF ImageInv
  <2>3. /\ image \in Images /\ slide \in Nat /\ Len(image.segments) \in Nat
        /\ DOMAIN image.segments = 1 .. Len(image.segments)
        /\ image.header.entry \in Nat /\ image.entry \in Nat
        /\ next_segment = Len(image.segments) + 1 /\ LoadSection(image) = 0
    BY <2>2, ImageFields DEF ImageTypeOK, Reading
  <2>4. Here = ToLoad
    BY <2>3 DEF Here, ToLoad
  <2>5. Fits
    <3>1. claimed \subseteq 0 .. Top
      BY <2>2 DEF ImageTypeOK
    <3> QED BY <2>2, <2>3, <2>4, <3>1 DEF Fits, OwnMemory
  <2>6. \A i : Applied(i) = Len(image.rela)
    BY DEF Applied
  <2>7. ASSUME Plain
        PROVE  /\ \A a \in 0 .. Top:
                      /\ \A i \in ToLoad: a \in Bytes(i) => AsLinked(i, a, Len(image.rela))
                      /\ (\A i \in ToLoad: a \notin Bytes(i)) => memory[a] = Free
               /\ \A i \in ToLoad: \A a \in Bytes(i): a < top_addr
               /\ entry_point = slide + IF image.header.entry # 0 THEN image.header.entry ELSE image.entry
    <3>1. SoFar
      BY <2>2, <2>7
    <3>2. \A i \in ToLoad : \A a \in Bytes(i) : AsLinked(i, a, Len(image.rela)) /\ a < top_addr
      BY <2>4, <2>6, <3>1 DEF SoFar
    <3>3. \A a \in 0 .. Top : (\A i \in ToLoad : a \notin Bytes(i)) => memory[a] = Free
      BY <2>2, <2>4, <3>1 DEF SoFar, OwnMemory
    <3>4. entry_point = slide + IF image.header.entry # 0 THEN image.header.entry ELSE image.entry
      BY <2>2, <2>3, <2>7 DEF Plain
    <3> QED BY <3>2, <3>3, <3>4
  <2> QED BY <2>5, <2>7
<1> QED BY ImageInvHolds, <1>1, PTL

-----------------------------------------------------------------------------
\* Files are read.  Places in a file come first, then the steps.

\* What an open file is.
LEMMA FileFields ==
  ASSUME NEW f \in OpenFiles
  PROVE  f.drive \in Nat /\ f.first \in Nat /\ f.blocks \in Seq(Nat \union {Panic})
BY ReadsAssumption

\* Every byte of a file is in one of its blocks.
LEMMA InSomeBlock ==
  ASSUME NEW f \in OpenFiles, NEW n \in Nat, n < Len(f.blocks) * Block
  PROVE  n \div Block \in Nat /\ n % Block \in Nat /\ BlockOf(f, n) \in Nat \union {Panic}
<1>1. Block \in Nat \ {0} /\ f.blocks \in Seq(Nat \union {Panic}) /\ Len(f.blocks) \in Nat
  BY FileFields, ReadsAssumption
<1>2. n \div Block \in Nat /\ n % Block \in Nat /\ n = (n \div Block) * Block + (n % Block)
  BY <1>1, Divided
<1>3. (n \div Block) * Block < Len(f.blocks) * Block
  <2>1. (n \div Block) * Block \in Nat /\ Len(f.blocks) * Block \in Nat
    BY <1>1, <1>2
  <2> QED BY <1>2, <2>1
<1>4. n \div Block < Len(f.blocks)
  BY <1>1, <1>2, <1>3, Smaller
<1>5. n \div Block + 1 \in 1 .. Len(f.blocks)
  BY <1>1, <1>2, <1>4
<1> QED BY <1>1, <1>2, <1>5 DEF BlockOf

\* A byte further on, but not behind the end of the block, is in the same block, and
\* as much further on.
LEMMA SameBlock ==
  ASSUME NEW f, NEW a \in Nat, NEW n \in Nat, (a % Block) + n < Block
  PROVE  /\ BlockOf(f, a + n) = BlockOf(f, a)
         /\ (a + n) % Block = (a % Block) + n
<1>1. Block \in Nat \ {0}
  BY ReadsAssumption
<1>2. a \div Block \in Nat /\ a % Block \in Nat /\ a = (a \div Block) * Block + (a % Block)
  BY <1>1, Divided
<1>3. PICK q \in Nat, r \in Nat : q = a \div Block /\ r = a % Block
  BY <1>2
<1>4. q * Block \in Nat
  BY <1>1
<1>5. a + n = q * Block + (r + n) /\ r + n \in Nat /\ r + n < Block
  BY <1>2, <1>3, <1>4
<1>6. (a + n) % Block = r + n /\ (a + n) \div Block = q
  BY <1>1, <1>5, RemainderIs
<1> QED BY <1>3, <1>6 DEF BlockOf

\* What is known of the request while a file is read.
LEMMA RequestFields ==
  ASSUME ReadsTypeOK, doing # "nothing"
  PROVE  /\ request.file \in OpenFiles /\ request.loc \in Nat /\ request.count \in Nat
         /\ Block \in Nat \ {0} /\ CacheBlock \in Nat \ {0}
         /\ \A n \in Nat : n < request.count =>
                /\ request.loc + n \in Nat
                /\ BlockOf(request.file, request.loc + n) \in Nat \union {Panic}
<1>1. request.file \in OpenFiles /\ request.loc \in Nat /\ request.count \in Nat
  BY DEF ReadsTypeOK
<1>2. Len(request.file.blocks) \in Nat /\ Block \in Nat \ {0} /\ CacheBlock \in Nat \ {0}
  BY <1>1, FileFields, ReadsAssumption
<1>3. Len(request.file.blocks) * Block \in Nat
  BY <1>2
<1>4. request.loc + request.count <= Len(request.file.blocks) * Block
  BY DEF ReadsTypeOK
<1>5. ASSUME NEW n \in Nat, n < request.count
      PROVE  request.loc + n \in Nat /\ BlockOf(request.file, request.loc + n) \in Nat \union {Panic}
  <2>1. request.loc + n \in Nat /\ request.loc + n < Len(request.file.blocks) * Block
    BY <1>1, <1>3, <1>4, <1>5
  <2> QED BY <1>1, <2>1, InSomeBlock
<1> QED BY <1>1, <1>2, <1>5

\* Before anything is read, the invariant holds.
LEMMA ReadsInvInit == BeforeReading => ReadsInv
<1> SUFFICES ASSUME BeforeReading PROVE ReadsInv
  OBVIOUS
<1>1. ReadsTypeOK
  BY DEF BeforeReading, ReadsTypeOK
<1>2. OneDrive => CacheIsOfDrive
  BY DEF BeforeReading, CacheIsOfDrive
<1> QED BY <1>1, <1>2 DEF BeforeReading, ReadsInv

\* A new request.
LEMMA FreadKeeps == ReadsInv /\ Fread => ReadsInv'
<1> SUFFICES ASSUME ReadsInv, Fread PROVE ReadsInv'
  OBVIOUS
<1>1. PICK f \in OpenFiles, r \in Reads :
          /\ r[1] + r[2] <= Len(f.blocks) * Block
          /\ request' = [file |-> f, loc |-> r[1], count |-> r[2]]
  BY DEF Fread
<1>2. r[1] \in Nat /\ r[2] \in Nat
  BY ReadsAssumption
<1>3. ReadsTypeOK'
  BY <1>1, <1>2 DEF ReadsInv, ReadsTypeOK, Fread
<1>4. (OneDrive => CacheIsOfDrive)'
  BY DEF ReadsInv, CacheIsOfDrive, OneDrive, Fread
<1>5. doing' = "file" /\ Len(copied)' = 0 /\ progress' = 0
  BY DEF Fread
<1>6. Done' = 0 /\ AllFound' /\ copied' = <<>>
  BY <1>5 DEF Done, AllFound, Fread
<1>7. copied' = [k \in 1 .. Len(copied') |-> ByteOf(request.file, request.loc + k - 1)']
  BY <1>5, <1>6
<1>8. progress' <= request'.count
  BY <1>1, <1>2, <1>5
<1> QED BY <1>3, <1>4, <1>5, <1>6, <1>7, <1>8 DEF ReadsInv

\* What the cache holds after a block was read through it.
LEMMA CachedIs ==
  ASSUME ReadsTypeOK, OneDrive => CacheIsOfDrive, NEW drive \in Nat, NEW b \in Nat
  PROVE  /\ Cached(drive, b) \in [drive: Nat, block: Nat \union {-1}]
         /\ Cached(drive, b).block = b
         /\ (\A f \in OpenFiles : f.drive = drive) /\ OneDrive /\ OpenFiles # {} =>
                Cached(drive, b).drive = drive
<1>1. cache \in [drive: Nat, block: Nat \union {-1}]
  BY DEF ReadsTypeOK
<1>2. CASE cache.block = b
  <2>1. Cached(drive, b) = cache /\ b # -1
    BY <1>2 DEF Cached
  <2> QED BY <1>1, <1>2, <2>1 DEF CacheIsOfDrive
<1>3. CASE cache.block # b
  BY <1>3 DEF Cached
<1> QED BY <1>2, <1>3

\* Something else is read through the cache.
LEMMA ReadOtherKeeps == ReadsInv /\ ReadOther => ReadsInv'
<1> SUFFICES ASSUME ReadsInv, ReadOther PROVE ReadsInv'
  OBVIOUS
<1>1. PICK o \in Others : cache' = Cached(o[1], o[2])
  BY DEF ReadOther
<1>2. o[1] \in Nat /\ o[2] \in Nat
  BY ReadsAssumption
<1>3. cache' \in [drive: Nat, block: Nat \union {-1}]
  BY <1>1, <1>2, CachedIs DEF ReadsInv
<1>4. ASSUME OneDrive, NEW f \in OpenFiles PROVE cache'.drive = f.drive
  <2>1. \A g \in OpenFiles : g.drive = o[1]
    BY <1>4 DEF OneDrive
  <2> QED BY <1>1, <1>2, <1>4, <2>1, CachedIs DEF ReadsInv
<1>5. UNCHANGED <<doing, request, progress, transfer, copied>>
  BY DEF ReadOther
<1>6. ReadsTypeOK'
  BY <1>3, <1>5 DEF ReadsInv, ReadsTypeOK
<1>7. (OneDrive => CacheIsOfDrive)'
  BY <1>4 DEF OneDrive, CacheIsOfDrive
<1>8. Done' = Done /\ AllFound' = AllFound /\ InOneBlock' = InOneBlock /\ Unreadable' = Unreadable
  BY <1>5 DEF Done, AllFound, InOneBlock, Unreadable
<1> QED BY <1>5, <1>6, <1>7, <1>8 DEF ReadsInv, OneDrive

\* A block of the file is found, and its bytes are asked for.
LEMMA ReadBlockKeeps == ReadsInv /\ ReadBlock => ReadsInv'
<1> SUFFICES ASSUME ReadsInv, ReadBlock PROVE ReadsInv'
  OBVIOUS
<1>1. /\ doing = "file" /\ progress < request.count /\ NextBlock # Panic
      /\ doing' = "disk" /\ UNCHANGED <<cache, request, progress, copied>>
  BY DEF ReadBlock
<1>2. /\ request.file \in OpenFiles /\ request.loc \in Nat /\ request.count \in Nat
      /\ Block \in Nat \ {0} /\ progress \in Nat
  BY <1>1, RequestFields DEF ReadsInv, ReadsTypeOK
<1>3. PICK a \in Nat : a = request.loc + progress
  BY <1>2
<1>4. a % Block \in Nat /\ a % Block < Block
  BY <1>2, Divided
<1>5. PICK o \in Nat : o = a % Block
  BY <1>4
<1>6. NextBlock = BlockOf(request.file, a)
  BY <1>3 DEF NextBlock, BlockOf
<1>7. NextBlock \in Nat
  BY <1>1, <1>2, <1>3, <1>6, RequestFields DEF ReadsInv
<1>8. PICK b \in Nat : b = NextBlock
  BY <1>7
<1>9. PICK size \in Nat \ {0} : /\ size = Least(request.count - progress, Block - o)
                                /\ size <= request.count - progress /\ size <= Block - o
  <2>1. request.count - progress \in Nat \ {0} /\ Block - o \in Nat \ {0}
    BY <1>1, <1>2, <1>4, <1>5
  <2> QED BY <2>1 DEF Least
<1>10. request.file.first \in Nat /\ b * Block \in Nat
  BY <1>2, FileFields
<1>11. transfer' = [loc |-> request.file.first + b * Block + o, count |-> size, progress |-> 0]
  BY <1>3, <1>5, <1>8, <1>9 DEF ReadBlock
<1>12. transfer'.loc = request.file.first + b * Block + o /\ transfer'.count = size
       /\ transfer'.progress = 0
  BY <1>11
<1>13. ReadsTypeOK'
  <2>1. transfer' \in [loc: Nat, count: Nat \ {0}, progress: Nat]
    BY <1>10, <1>11
  <2> QED BY <1>1, <2>1 DEF ReadsInv, ReadsTypeOK
<1>14. InOneBlock'
  <2>1. ASSUME NEW n \in 0 .. size - 1
        PROVE  /\ BlockOf(request.file, a + n) # Panic
               /\ ByteOf(request.file, a + n) =
                      <<request.file.drive, request.file.first + b * Block + o + n>>
    <3>1. n \in Nat /\ (a % Block) + n < Block
      BY <1>2, <1>5, <1>9
    <3>2. BlockOf(request.file, a + n) = b /\ (a + n) % Block = o + n
      BY <1>5, <1>6, <1>8, <3>1, SameBlock
    <3>3. request.file.first + b * Block + (o + n) = request.file.first + b * Block + o + n
      BY <1>10, <3>1
    <3> QED BY <3>2, <3>3 DEF ByteOf, Panic
  <2>2. progress + size <= request.count
    BY <1>2, <1>9
  <2> QED BY <1>1, <1>3, <1>9, <1>12, <2>1, <2>2 DEF InOneBlock
<1>15. Done = progress /\ Done' = progress
  BY <1>1, <1>2, <1>12 DEF Done
<1>16. (OneDrive => CacheIsOfDrive)' /\ AllFound'
  BY <1>1 DEF ReadsInv, CacheIsOfDrive, OneDrive, AllFound
<1> QED BY <1>1, <1>13, <1>14, <1>15, <1>16 DEF ReadsInv, OneDrive

\* A block is not found.
LEMMA NoBlockKeeps == ReadsInv /\ NoBlock => ReadsInv'
<1> SUFFICES ASSUME ReadsInv, NoBlock PROVE ReadsInv'
  OBVIOUS
<1>1. /\ doing = "file" /\ progress < request.count /\ NextBlock = Panic
      /\ doing' = "panic" /\ UNCHANGED <<cache, request, progress, transfer, copied>>
  BY DEF NoBlock
<1>2. progress \in Nat /\ request.count \in Nat
  BY <1>1, RequestFields DEF ReadsInv, ReadsTypeOK
<1>3. BlockOf(request.file, request.loc + progress) = Panic
  BY <1>1 DEF NextBlock, BlockOf
<1>4. Unreadable'
  <2>1. progress \in 0 .. (request.count - 1)
    BY <1>1, <1>2
  <2> QED BY <1>1, <1>3, <2>1 DEF Unreadable
<1>5. ReadsTypeOK'
  BY <1>1 DEF ReadsInv, ReadsTypeOK
<1>6. Done' = Done /\ AllFound' = AllFound
  BY <1>1 DEF Done, AllFound
<1> QED BY <1>1, <1>4, <1>5, <1>6 DEF ReadsInv, OneDrive, CacheIsOfDrive

\* Bytes are copied out of the cache.
LEMMA ReadCacheKeeps == ReadsInv /\ ReadCache => ReadsInv'
<1> SUFFICES ASSUME ReadsInv, ReadCache PROVE ReadsInv'
  OBVIOUS
<1>1. /\ doing = "disk" /\ transfer.progress < transfer.count
      /\ UNCHANGED <<doing, request, progress>>
  BY DEF ReadCache
<1>2. /\ request.file \in OpenFiles /\ request.loc \in Nat /\ request.count \in Nat
      /\ CacheBlock \in Nat \ {0} /\ progress \in Nat /\ progress <= request.count
      /\ transfer \in [loc: Nat, count: Nat \ {0}, progress: Nat]
      /\ transfer.loc \in Nat /\ transfer.count \in Nat \ {0} /\ transfer.progress \in Nat
      /\ copied \in Seq(Nat \X Nat) /\ Len(copied) \in Nat
  BY <1>1, RequestFields DEF ReadsInv, ReadsTypeOK
<1>3. PICK at \in Nat : at = transfer.loc + transfer.progress
  BY <1>2
<1>4. PICK q \in Nat, o \in Nat : /\ q = at \div CacheBlock /\ o = at % CacheBlock
                                  /\ o < CacheBlock /\ at = q * CacheBlock + o
  BY <1>2, Divided
<1>5. PICK size \in Nat \ {0} :
          /\ size = Least(transfer.count - transfer.progress, CacheBlock - o)
          /\ size <= transfer.count - transfer.progress
  <2>1. transfer.count - transfer.progress \in Nat \ {0} /\ CacheBlock - o \in Nat \ {0}
    BY <1>1, <1>2, <1>4
  <2> QED BY <2>1 DEF Least
<1>6. PICK held : held = Cached(request.file.drive, q)
  OBVIOUS
<1>7. request.file.drive \in Nat
  BY <1>2, FileFields
<1>8. held \in [drive: Nat, block: Nat \union {-1}] /\ held.block = q
  BY <1>6, <1>7, CachedIs DEF ReadsInv
<1>9. OneDrive => held.drive = request.file.drive
  <2>1. ASSUME OneDrive PROVE \A f \in OpenFiles : f.drive = request.file.drive
    BY <1>2, <2>1 DEF OneDrive
  <2> QED BY <1>2, <1>6, <1>7, <2>1, CachedIs DEF ReadsInv
<1> DEFINE bytes == [k \in 1 .. size |-> <<held.drive, q * CacheBlock + o + k - 1>>]
<1>10. /\ cache' = held /\ copied' = copied \o bytes
       /\ transfer' = [transfer EXCEPT !.progress = @ + size]
  BY <1>3, <1>4, <1>5, <1>6, <1>8 DEF ReadCache
<1>11. /\ transfer'.loc = transfer.loc /\ transfer'.count = transfer.count
       /\ transfer'.progress = transfer.progress + size
       /\ transfer' \in [loc: Nat, count: Nat \ {0}, progress: Nat]
  <2>1. transfer.progress + size \in Nat
    BY <1>2
  <2> QED BY <1>2, <1>10, <2>1
<1>12. \A k \in 1 .. size : bytes[k] = <<held.drive, at + k - 1>> /\ bytes[k] \in Nat \X Nat
  <2>1. q * CacheBlock \in Nat
    BY <1>2
  <2> QED BY <1>4, <1>8, <2>1
<1>13. bytes \in Seq(Nat \X Nat) /\ Len(bytes) = size
  <2>1. bytes \in [1 .. size -> Nat \X Nat]
    BY <1>12
  <2> HIDE DEF bytes
  <2>2. bytes \in Seq(Nat \X Nat)
    BY <2>1
  <2>3. DOMAIN bytes = 1 .. size
    BY <2>1
  <2> QED BY <2>2, <2>3
<1> HIDE DEF bytes
<1>14. /\ copied' \in Seq(Nat \X Nat) /\ Len(copied') = Len(copied) + size
       /\ \A i \in 1 .. Len(copied) + size :
              copied'[i] = IF i <= Len(copied) THEN copied[i] ELSE bytes[i - Len(copied)]
  BY <1>2, <1>10, <1>13, ConcatProperties
<1>15. Len(copied) = progress + transfer.progress
  BY <1>1 DEF ReadsInv, Done
<1>16. ASSUME OneDrive
       PROVE  copied' = [k \in 1 .. Len(copied') |-> ByteOf(request.file, request.loc + k - 1)]
  <2>1. ASSUME NEW i \in 1 .. Len(copied')
        PROVE  copied'[i] = ByteOf(request.file, request.loc + i - 1)
    <3>1. CASE i <= Len(copied)
      <4>1. copied = [k \in 1 .. Len(copied) |-> ByteOf(request.file, request.loc + k - 1)]
        BY <1>1, <1>16 DEF ReadsInv
      <4>2. i \in 1 .. Len(copied)
        BY <1>2, <3>1
      <4>3. copied[i] = ByteOf(request.file, request.loc + i - 1)
        BY <4>1, <4>2
      <4> QED BY <1>14, <3>1, <4>3
    <3>2. CASE i > Len(copied)
      <4>1. PICK k \in 1 .. size : i = Len(copied) + k
        <5>1. i \in Nat /\ i <= Len(copied) + size /\ Len(copied) \in Nat
          BY <1>2, <1>14
        <5>2. i - Len(copied) \in 1 .. size /\ i = Len(copied) + (i - Len(copied))
          BY <3>2, <5>1
        <5> QED BY <5>2
      <4>2. copied'[i] = <<request.file.drive, at + k - 1>>
        <5>1. i - Len(copied) = k
          BY <1>2, <4>1
        <5>2. copied'[i] = bytes[k]
          <6>1. i \in 1 .. Len(copied) + size /\ ~ (i <= Len(copied))
            BY <1>2, <1>14, <3>2
          <6> QED BY <1>14, <5>1, <6>1
        <5> QED BY <1>9, <1>12, <1>16, <5>2
      <4>3. PICK n \in 0 .. (transfer.count - 1) : n = transfer.progress + (k - 1)
        <5>1. transfer.count \in Nat /\ transfer.progress \in Nat /\ k \in Nat \ {0} /\ k <= size
          BY <1>2
        <5>2. transfer.progress + (k - 1) \in 0 .. (transfer.count - 1)
          BY <1>5, <5>1
        <5> QED BY <5>2
      <4>4. ByteOf(request.file, request.loc + progress + n)
                = <<request.file.drive, transfer.loc + n>>
        BY <1>1 DEF ReadsInv, InOneBlock
      <4>5. request.loc + progress + n = request.loc + i - 1 /\ transfer.loc + n = at + k - 1
        <5>1. /\ request.loc \in Nat /\ progress \in Nat /\ transfer.loc \in Nat
              /\ transfer.progress \in Nat /\ k \in Nat
          BY <1>2
        <5>2. i = progress + transfer.progress + k
          BY <1>15, <4>1
        <5>3. request.loc + progress + (transfer.progress + (k - 1))
                  = request.loc + (progress + transfer.progress + k) - 1
          BY <5>1
        <5>4. transfer.loc + (transfer.progress + (k - 1))
                  = (transfer.loc + transfer.progress) + k - 1
          BY <5>1
        <5>5. request.loc + progress + n = request.loc + i - 1
          BY <4>3, <5>2, <5>3
        <5>6. transfer.loc + n = at + k - 1
          BY <1>3, <4>3, <5>4
        <5> QED BY <5>5, <5>6
      <4> QED BY <4>2, <4>4, <4>5
    <3> QED BY <1>2, <1>14, <3>1, <3>2
  <2> DEFINE wanted == [k \in 1 .. Len(copied') |-> ByteOf(request.file, request.loc + k - 1)]
  <2>2. DOMAIN copied' = 1 .. Len(copied') /\ copied' = [k \in DOMAIN copied' |-> copied'[k]]
    BY <1>14
  <2> QED BY <2>1, <2>2
<1>17. ReadsTypeOK'
  BY <1>1, <1>8, <1>10, <1>11, <1>14 DEF ReadsInv, ReadsTypeOK
<1>18. (OneDrive => CacheIsOfDrive)'
  <2>1. ASSUME OneDrive, NEW f \in OpenFiles PROVE held.drive = f.drive
    BY <1>2, <1>9, <2>1 DEF OneDrive
  <2> QED BY <1>10, <2>1 DEF OneDrive, CacheIsOfDrive
<1>19. InOneBlock'
  BY <1>1, <1>2, <1>5, <1>11 DEF ReadsInv, InOneBlock
<1>20. Done' = progress + (transfer.progress + size) /\ Len(copied') = Done'
  BY <1>1, <1>2, <1>5, <1>11, <1>14, <1>15 DEF Done
<1>21. AllFound'
  BY <1>1 DEF ReadsInv, AllFound
<1> QED BY <1>1, <1>2, <1>16, <1>17, <1>18, <1>19, <1>20, <1>21 DEF ReadsInv, OneDrive

\* The bytes of one block are all there.
LEMMA EndReadKeeps == ReadsInv /\ EndRead => ReadsInv'
<1> SUFFICES ASSUME ReadsInv, EndRead PROVE ReadsInv'
  OBVIOUS
<1>1. /\ doing = "disk" /\ transfer.progress >= transfer.count
      /\ doing' = "file" /\ progress' = progress + transfer.count
      /\ UNCHANGED <<cache, request, transfer, copied>>
  BY DEF EndRead
<1>2. /\ request.loc \in Nat /\ request.count \in Nat /\ progress \in Nat
      /\ transfer.count \in Nat /\ transfer.progress \in Nat
  BY <1>1, RequestFields DEF ReadsInv, ReadsTypeOK
<1>3. transfer.progress = transfer.count /\ progress + transfer.count <= request.count
  BY <1>1, <1>2 DEF ReadsInv, InOneBlock
<1>4. Len(copied) = progress + transfer.progress
  BY <1>1 DEF ReadsInv, Done
<1>5. Done' = progress + transfer.count
  BY <1>1, <1>2 DEF Done
<1>6. AllFound'
  <2>1. ASSUME NEW n \in 0 .. (progress + transfer.count - 1)
        PROVE  BlockOf(request.file, request.loc + n) # Panic
    <3>1. CASE n < progress
      BY <1>1, <1>2, <3>1 DEF ReadsInv, AllFound
    <3>2. CASE n >= progress
      <4>1. PICK m \in 0 .. (transfer.count - 1) : n = progress + m
        BY <1>2, <3>2
      <4>2. BlockOf(request.file, request.loc + progress + m) # Panic
        BY <1>1 DEF ReadsInv, InOneBlock
      <4>3. request.loc + progress + m = request.loc + n
        BY <1>2, <4>1
      <4> QED BY <4>2, <4>3
    <3> QED BY <1>2, <3>1, <3>2
  <2>2. progress' - 1 = progress + transfer.count - 1
    BY <1>1, <1>2
  <2> QED BY <1>1, <2>1, <2>2 DEF AllFound
<1>7. ReadsTypeOK'
  BY <1>1, <1>2 DEF ReadsInv, ReadsTypeOK
<1> QED BY <1>1, <1>3, <1>4, <1>5, <1>6, <1>7 DEF ReadsInv, OneDrive, CacheIsOfDrive

\* The read is over.
LEMMA EndFreadKeeps == ReadsInv /\ EndFread => ReadsInv'
<1> SUFFICES ASSUME ReadsInv, EndFread PROVE ReadsInv'
  OBVIOUS
<1>1. /\ doing = "file" /\ progress >= request.count
      /\ doing' = "done" /\ UNCHANGED <<cache, request, progress, transfer, copied>>
  BY DEF EndFread
<1>2. progress = request.count
  BY <1>1, RequestFields DEF ReadsInv, ReadsTypeOK
<1>3. ReadsTypeOK'
  BY <1>1 DEF ReadsInv, ReadsTypeOK
<1>4. Done' = Done /\ AllFound' = AllFound
  BY <1>1 DEF Done, AllFound
<1> QED BY <1>1, <1>2, <1>3, <1>4 DEF ReadsInv, OneDrive, CacheIsOfDrive

\* Nothing happens.
LEMMA ReadsStutter == ReadsInv /\ UNCHANGED read_vars => ReadsInv'
BY DEF ReadsInv, ReadsTypeOK, CacheIsOfDrive, OneDrive, Done, AllFound, InOneBlock, Unreadable,
       read_vars

\* The invariant of reading files: the cache is of the one drive, a call of read is for
\* bytes of one block, and what was copied is the bytes asked for so far. For every disk,
\* every file and every sequence of reads.
THEOREM ReadsInvHolds == ReadingSpec => []ReadsInv
<1>1. ReadsInv /\ [ReadingFiles]_read_vars => ReadsInv'
  BY FreadKeeps, ReadOtherKeeps, ReadBlockKeeps, NoBlockKeeps, ReadCacheKeeps, EndReadKeeps,
     EndFreadKeeps, ReadsStutter DEF ReadingFiles
<1> QED BY ReadsInvInit, <1>1, PTL DEF ReadingSpec

\* A file is read as it lies on the disk, however its blocks lie across the blocks of
\* the cache, and whatever was read before (fread, read and cache_block).
THEOREM FileIsReadHolds == ReadingSpec => []FileIsRead
<1>1. ReadsInv => FileIsRead
  <2> SUFFICES ASSUME ReadsInv, OneDrive, doing # "nothing"
               PROVE  /\ copied = [k \in 1 .. Len(copied) |->
                                      ByteOf(request.file, request.loc + k - 1)]
                      /\ Len(copied) <= request.count
                      /\ doing = "done" => Len(copied) = request.count /\ ~ Unreadable
                      /\ doing = "panic" => Unreadable
    BY DEF FileIsRead
  <2>1. request.count \in Nat /\ progress \in Nat /\ progress <= request.count /\ Len(copied) = Done
    BY RequestFields DEF ReadsInv, ReadsTypeOK
  <2>2. Len(copied) <= request.count
    <3>1. CASE doing = "disk"
      <4>1. transfer.progress \in Nat /\ transfer.count \in Nat
        BY <3>1 DEF ReadsInv, ReadsTypeOK
      <4>2. transfer.progress <= transfer.count /\ progress + transfer.count <= request.count
        BY <3>1 DEF ReadsInv, InOneBlock
      <4> QED BY <2>1, <3>1, <4>1, <4>2 DEF Done
    <3>2. CASE doing # "disk"
      BY <2>1, <3>2 DEF Done
    <3> QED BY <3>1, <3>2
  <2>3. ASSUME doing = "done" PROVE Len(copied) = request.count /\ ~ Unreadable
    BY <2>1, <2>3 DEF ReadsInv, Done, AllFound, Unreadable
  <2> QED BY <2>2, <2>3 DEF ReadsInv
<1> QED BY ReadsInvHolds, <1>1, PTL
=============================================================================
