--------------------------- MODULE RoutineProofs ---------------------------
(***************************************************************************)
(* Proofs about the kernel's small routines, for every memory, memory map  *)
(* and call.                                                               *)
(***************************************************************************)
EXTENDS Routines, NumberLemmas, TLAPS

-----------------------------------------------------------------------------
\* memmove is right for every memory and every call.
\* Every variable keeps its type.
THEOREM MoveTypeCorrect == MoveSpec => []MoveTypeOK
<1>1. Enter => MoveTypeOK
  BY CallsAssumption DEF Enter, MoveTypeOK
<1>2. MoveTypeOK /\ [Move]_move_vars => MoveTypeOK'
  <2> SUFFICES ASSUME MoveTypeOK, [Move]_move_vars PROVE MoveTypeOK'
    OBVIOUS
  <2>0. /\ call \in Calls /\ call.n \in Nat /\ call.src \in Int /\ i \in 0 .. call.n
        /\ \A k \in 0 .. (call.n - 1) : call.src + k \in Addresses
    BY CallsAssumption DEF MoveTypeOK
  <2>5. i > 0 => call.src + i - 1 \in Addresses
    <3>1. i > 0 => i - 1 \in 0 .. (call.n - 1)
      BY <2>0
    <3>2. call.src + i - 1 = call.src + (i - 1)
      BY <2>0
    <3> QED
      BY <2>0, <3>1, <3>2
  <2>6. i < call.n => call.src + i \in Addresses
    BY <2>0
  <2>1. CASE CopyDown
    <3>1. mem[call.src + i - 1] \in Byte
      <4>1. call.src + i - 1 \in Addresses
        BY <2>0, <2>1, <2>5 DEF CopyDown
      <4> QED
        BY <4>1 DEF MoveTypeOK
    <3>2. mem' \in [Addresses -> Byte]
      BY <2>1, <3>1 DEF CopyDown, MoveTypeOK
    <3>3. i' \in 0 .. call.n
      BY <2>0, <2>1 DEF CopyDown, MoveTypeOK
    <3> QED
      BY <2>1, <3>2, <3>3 DEF CopyDown, MoveTypeOK
  <2>2. CASE CopyUp
    <3>1. mem[call.src + i] \in Byte
      <4>1. call.src + i \in Addresses
        BY <2>0, <2>2, <2>6 DEF CopyUp
      <4> QED
        BY <4>1 DEF MoveTypeOK
    <3>2. mem' \in [Addresses -> Byte]
      BY <2>2, <3>1 DEF CopyUp, MoveTypeOK
    <3>3. i' \in 0 .. call.n
      BY <2>0, <2>2 DEF CopyUp, MoveTypeOK
    <3> QED
      BY <2>2, <3>2, <3>3 DEF CopyUp, MoveTypeOK
  <2>3. CASE Return
    BY <2>3 DEF Return, MoveTypeOK
  <2>4. CASE UNCHANGED move_vars
    BY <2>4 DEF MoveTypeOK, move_vars
  <2> QED
    BY <2>1, <2>2, <2>3, <2>4 DEF Move
<1> QED
  BY <1>1, <1>2, PTL DEF MoveSpec

\* The loop invariant holds initially, and each iteration keeps it.
LEMMA LoopInit == Enter => LoopInv
BY CallsAssumption DEF Enter, LoopInv

\* One byte copied.
LEMMA LoopStep == MoveTypeOK /\ LoopInv /\ [Move]_move_vars => LoopInv'
<1> SUFFICES ASSUME MoveTypeOK, LoopInv, [Move]_move_vars PROVE LoopInv'
  OBVIOUS
<1>0. /\ call.n \in Nat /\ call.dest \in Int /\ call.src \in Int /\ i \in 0 .. call.n
      /\ \A k \in 0 .. (call.n - 1) : call.dest + k \in Addresses /\ call.src + k \in Addresses
      /\ Addresses \subseteq Int
  BY CallsAssumption DEF MoveTypeOK
<1>1. CASE CopyDown
  <2> DEFINE d == call.dest + (i - 1)
             s == call.src + (i - 1)
  <2>1. /\ i \in 1 .. call.n /\ d \in Addresses /\ s \in Addresses
        /\ call.dest + i - 1 = d /\ call.src + i - 1 = s
    BY <1>0, <1>1 DEF CopyDown
  <2>2. mem' = [mem EXCEPT ![d] = mem[s]] /\ i' = i - 1 /\ UNCHANGED <<start, call, pc>>
    BY <1>1, <2>1 DEF CopyDown
  <2>3. mem[s] = start[s]
    <3>1. \A k \in i .. (call.n - 1) : s # call.dest + k
      BY <1>0, <1>1, <2>1 DEF LoopInv, CopyDown
    <3> QED
      BY <1>1, <2>1, <3>1 DEF LoopInv, CopyDown
  <2>4. \A k \in (i - 1) .. (call.n - 1) : mem'[call.dest + k] = start[call.src + k]
    <3> SUFFICES ASSUME NEW k \in (i - 1) .. (call.n - 1)
                 PROVE mem'[call.dest + k] = start[call.src + k]
      OBVIOUS
    <3>1. CASE k = i - 1
      BY <2>1, <2>2, <2>3, <3>1 DEF MoveTypeOK
    <3>2. CASE k # i - 1
      <4>1. k \in i .. (call.n - 1) /\ call.dest + k \in Addresses /\ call.dest + k # d
        BY <1>0, <2>1, <3>2
      <4>2. mem[call.dest + k] = start[call.src + k]
        BY <1>1, <4>1 DEF LoopInv, CopyDown
      <4> QED
        BY <2>2, <4>1, <4>2 DEF MoveTypeOK
    <3> QED
      BY <3>1, <3>2
  <2>5. \A a \in Addresses :
          (\A k \in (i - 1) .. (call.n - 1) : a # call.dest + k) => mem'[a] = start[a]
    <3> SUFFICES ASSUME NEW a \in Addresses,
                        \A k \in (i - 1) .. (call.n - 1) : a # call.dest + k
                 PROVE mem'[a] = start[a]
      OBVIOUS
    <3>1. a # d /\ \A k \in i .. (call.n - 1) : a # call.dest + k
      BY <1>0, <2>1
    <3>2. mem[a] = start[a]
      BY <1>1, <3>1 DEF LoopInv, CopyDown
    <3> QED
      BY <2>2, <3>1, <3>2 DEF MoveTypeOK
  <2> QED
    BY <1>1, <2>2, <2>4, <2>5 DEF LoopInv, CopyDown
<1>2. CASE CopyUp
  <2> DEFINE d == call.dest + i
             s == call.src + i
  <2>1. i \in 0 .. (call.n - 1) /\ d \in Addresses /\ s \in Addresses
    BY <1>0, <1>2 DEF CopyUp
  <2>2. mem' = [mem EXCEPT ![d] = mem[s]] /\ i' = i + 1 /\ UNCHANGED <<start, call, pc>>
    BY <1>2 DEF CopyUp
  <2>3. mem[s] = start[s]
    <3>1. \A k \in 0 .. (i - 1) : s # call.dest + k
      BY <1>0, <1>2, <2>1 DEF LoopInv, CopyUp
    <3> QED
      BY <1>2, <2>1, <3>1 DEF LoopInv, CopyUp
  <2>4. \A k \in 0 .. i : mem'[call.dest + k] = start[call.src + k]
    <3> SUFFICES ASSUME NEW k \in 0 .. i
                 PROVE mem'[call.dest + k] = start[call.src + k]
      OBVIOUS
    <3>1. CASE k = i
      BY <2>1, <2>2, <2>3, <3>1 DEF MoveTypeOK
    <3>2. CASE k # i
      <4>1. k \in 0 .. (i - 1) /\ call.dest + k \in Addresses /\ call.dest + k # d
        BY <1>0, <2>1, <3>2
      <4>2. mem[call.dest + k] = start[call.src + k]
        BY <1>2, <4>1 DEF LoopInv, CopyUp
      <4> QED
        BY <2>2, <4>1, <4>2 DEF MoveTypeOK
    <3> QED
      BY <3>1, <3>2
  <2>5. \A a \in Addresses : (\A k \in 0 .. i : a # call.dest + k) => mem'[a] = start[a]
    <3> SUFFICES ASSUME NEW a \in Addresses, \A k \in 0 .. i : a # call.dest + k
                 PROVE mem'[a] = start[a]
      OBVIOUS
    <3>1. a # d /\ \A k \in 0 .. (i - 1) : a # call.dest + k
      BY <1>0, <2>1
    <3>2. mem[a] = start[a]
      BY <1>2, <3>1 DEF LoopInv, CopyUp
    <3> QED
      BY <2>2, <3>1, <3>2 DEF MoveTypeOK
  <2>6. i' - 1 = i
    BY <1>0, <2>2
  <2> QED
    BY <1>2, <2>2, <2>4, <2>5, <2>6 DEF LoopInv, CopyUp
<1>3. CASE Return
  BY <1>3 DEF Return, LoopInv
<1>4. CASE UNCHANGED move_vars
  BY <1>4 DEF LoopInv, move_vars
<1> QED
  BY <1>1, <1>2, <1>3, <1>4 DEF Move

\* memmove moves: whatever the overlap, the destination ends up with what the
\* source held, and nothing else changes.
THEOREM MovedHolds == MoveSpec => []Moved
<1>1. Enter => Moved
  BY DEF Enter, Moved
<1>2. MoveTypeOK /\ LoopInv /\ Moved /\ [Move]_move_vars => Moved'
  <2> SUFFICES ASSUME MoveTypeOK, LoopInv, Moved, [Move]_move_vars PROVE Moved'
    OBVIOUS
  <2>0. call.n \in Nat
    BY CallsAssumption DEF MoveTypeOK
  <2>1. CASE CopyDown
    BY <2>1 DEF CopyDown, Moved
  <2>2. CASE CopyUp
    BY <2>2 DEF CopyUp, Moved
  <2>3. CASE Return
    <3>1. UNCHANGED <<mem, start, call>>
      BY <2>3 DEF Return
    <3>2. \A k \in 0 .. (call.n - 1) : mem[call.dest + k] = start[call.src + k]
      BY <2>0, <2>3 DEF Return, LoopInv
    <3>3. \A a \in Addresses \ Area(0, call.n) : mem[a] = start[a]
      <4> SUFFICES ASSUME NEW a \in Addresses, a \notin Area(0, call.n)
                   PROVE mem[a] = start[a]
        OBVIOUS
      <4>1. \A k \in 0 .. (call.n - 1) : a # call.dest + k
        BY DEF Area
      <4> QED
        BY <2>3, <4>1 DEF Return, LoopInv
    <3>4. Area(0, call.n)' = Area(0, call.n)
      BY <3>1 DEF Area
    <3> QED
      BY <3>1, <3>2, <3>3, <3>4 DEF Moved
  <2>4. CASE UNCHANGED move_vars
    BY <2>4 DEF move_vars, Moved, Area
  <2> QED
    BY <2>1, <2>2, <2>3, <2>4 DEF Move
<1>3. MoveSpec => []LoopInv
  BY LoopInit, LoopStep, MoveTypeCorrect, PTL DEF MoveSpec
<1> QED
  BY <1>1, <1>2, <1>3, MoveTypeCorrect, PTL DEF MoveSpec

-----------------------------------------------------------------------------
\* The bitmap allocator, for every memory map and page size.
\* The scans return one of the pages they look for, and no lower one is clear.
LEMMA LeastOf ==
  ASSUME NEW s \in SUBSET Nat, s # {}
  PROVE  Least(s) \in s /\ \A q \in s : Least(s) <= q
<1>1. \E p \in s : \A q \in s : p <= q
  BY LeastNatural
<1> QED
  BY <1>1 DEF Least

\* Where a page g found between hint l and top t lies.
LEMMA Between ==
  ASSUME NEW l \in Nat, NEW t \in Nat, NEW g \in l .. (t - 1)
  PROVE  /\ g \in Nat /\ g \in 0 .. (t - 1) /\ g + 1 \in 0 .. t
         /\ \A q \in l .. (g - 1) : q \in l .. (t - 1) /\ ~ (g <= q)
         /\ \A p \in 0 .. (g + 1 - 1) : p \in 0 .. (l - 1) \/ p \in l .. (g - 1) \/ p = g
OBVIOUS

\* What init_pmm finds out about the map.
LEMMA MapFacts ==
  ASSUME NEW m \in MemoryMaps
  PROVE  /\ Highest(m) \in Nat
         /\ Usable(m) \subseteq 1 .. (Highest(m) - 1)
<1>1. PICK top \in Ends(m) : IsHighest(m, top)
  BY MapAssumption
<1>2. Highest(m) \in Ends(m) /\ IsHighest(m, Highest(m))
  BY <1>1 DEF Highest
<1>3. \A e \in Entries(m) : e.first \in Nat \ {0} /\ e.count \in Nat \ {0}
  BY MapAssumption
<1>4. Highest(m) \in Nat
  BY <1>2, <1>3 DEF Ends
<1>5. ASSUME NEW p \in Usable(m) PROVE p \in 1 .. (Highest(m) - 1)
  <2>1. PICK e \in Entries(m) : p \in Pages(e)
    BY DEF Usable
  <2>2. e.first + e.count <= Highest(m)
    BY <1>2 DEF IsHighest, Ends
  <2> QED
    BY <1>3, <1>4, <2>1, <2>2 DEF Pages
<1> QED
  BY <1>4, <1>5

\* What the steps keep: the types and the three facts that hold them up.
BitmapInv == /\ BitmapTypeOK /\ BitsExact /\ HintSound
       /\ Usable(map) \subseteq 1 .. (total - 1)

\* After init_pmm.
LEMMA BitmapInit == InitPmm => BitmapInv
<1> SUFFICES ASSUME InitPmm PROVE BitmapInv
  OBVIOUS
<1>1. map \in MemoryMaps /\ total = Highest(map) /\ last = 0 /\ held = {} /\ got = 0
  BY DEF InitPmm
<1>2. total \in Nat /\ Usable(map) \subseteq 1 .. (total - 1)
  BY <1>1, MapFacts
<1>3. PICK e \in Entries(map) :
        home = e.first .. (e.first + BitmapPages(total) - 1)
  BY DEF InitPmm
<1>4. e.first \in Nat
  BY <1>1, MapAssumption
<1>5. /\ BitmapBytes(total) \in Nat /\ 8 * BitmapBytes(total) >= total
  BY <1>2 DEF BitmapBytes
<1>6. bits = (0 .. (8 * BitmapBytes(total) - 1) \ Usable(map)) \cup home
  BY DEF InitPmm
<1>7. home \subseteq Nat
  BY <1>3, <1>4
<1>8. bits \subseteq Nat
  <2>1. 0 .. (8 * BitmapBytes(total) - 1) \subseteq Nat
    BY <1>5
  <2> QED
    BY <1>6, <1>7, <2>1
<1>9. BitmapTypeOK
  BY <1>1, <1>2, <1>7, <1>8 DEF BitmapTypeOK
<1>10. BitsExact
  <2>1. \A p \in 0 .. (total - 1) : p \in 0 .. (8 * BitmapBytes(total) - 1)
    BY <1>2, <1>5
  <2> QED
    BY <1>1, <1>6, <2>1 DEF BitsExact
<1>11. HintSound
  BY <1>1 DEF HintSound
<1> QED
  BY <1>2, <1>9, <1>10, <1>11 DEF BitmapInv

\* pmm_alloc_page: what a call finds.  Clear pages are usable, outside the
\* bitmap and nobody's; nothing is clear below the hint.
LEMMA ClearFacts ==
  ASSUME BitmapInv
  PROVE  /\ Clear(0, last) = {}
         /\ Clear(last, total) = (Usable(map) \ home) \ held
         /\ \A p \in Clear(last, total) : p \in last .. (total - 1) /\ p \notin bits /\ p # 0
<1>1. last \in 0 .. total /\ total \in Nat
  BY DEF BitmapInv, BitmapTypeOK
<1>2. Clear(0, last) = {}
  BY DEF BitmapInv, HintSound, Clear
<1>3. ASSUME NEW p \in Clear(last, total)
      PROVE  p \in (Usable(map) \ home) \ held /\ p \in last .. (total - 1) /\ p \notin bits
  BY <1>1, <1>3 DEF Clear, BitmapInv, BitsExact
<1>4. ASSUME NEW p \in (Usable(map) \ home) \ held PROVE p \in Clear(last, total)
  <2>1. p \in 1 .. (total - 1)
    BY <1>4 DEF BitmapInv
  <2>2. p \notin bits
    BY <1>1, <1>4, <2>1 DEF BitmapInv, BitsExact
  <2>3. ~ (p \in 0 .. (last - 1))
    BY <2>2 DEF BitmapInv, HintSound
  <2> QED
    BY <1>1, <2>1, <2>2, <2>3 DEF Clear
<1>5. \A p \in Clear(last, total) : p # 0
  BY <1>1, <1>3 DEF BitmapInv
<1> QED
  BY <1>2, <1>3, <1>4, <1>5

\* The two outcomes of pmm_alloc_page.
LEMMA AllocOutcome ==
  ASSUME BitmapInv, AllocPage
  PROVE  /\ UNCHANGED <<map, total, home>>
         /\ \/ /\ got' = 0 /\ UNCHANGED <<bits, last, held>>
               /\ Usable(map) \ home \subseteq held
            \/ /\ got' \in (Usable(map) \ home) \ held
               /\ got' \in last .. (total - 1) /\ got' \notin bits /\ got' # 0
               /\ \A q \in last .. (got' - 1) : q \in bits
               /\ bits' = bits \cup {got'} /\ last' = got' + 1 /\ held' = held \cup {got'}
<1> DEFINE ahead == Clear(last, total)
<1>1. CASE ahead = {}
  BY <1>1, ClearFacts DEF AllocPage
<1>2. CASE ahead # {}
  <2>1. ahead \in SUBSET Nat
    BY DEF Clear, BitmapInv, BitmapTypeOK
  <2>2. Least(ahead) \in ahead /\ \A q \in ahead : Least(ahead) <= q
    BY <1>2, <2>1, LeastOf
  <2>3. got' = Least(ahead) /\ bits' = bits \cup {got'} /\ last' = got' + 1
        /\ held' = held \cup {got'} /\ UNCHANGED <<map, total, home>>
    BY <1>2 DEF AllocPage
  <2>4. got' \in (Usable(map) \ home) \ held /\ got' \in last .. (total - 1)
        /\ got' \notin bits /\ got' # 0
    BY <2>2, <2>3, ClearFacts
  <2>5. ASSUME NEW q \in last .. (got' - 1) PROVE q \in bits
    <3>1. last \in Nat /\ total \in Nat /\ got' \in Nat
      BY <2>1, <2>2, <2>3 DEF BitmapInv, BitmapTypeOK
    <3>4. got' \in last .. (total - 1)
      BY <2>4
    <3>2. q \in last .. (total - 1) /\ ~ (got' <= q)
      BY <3>1, <3>4, Between
    <3>3. q \notin ahead
      BY <2>2, <2>3, <3>2
    <3> QED
      BY <3>2, <3>3 DEF Clear
  <2> QED
    BY <2>3, <2>4, <2>5
<1> QED
  BY <1>1, <1>2

\* A page is handed out or given back.
LEMMA BitmapStep == BitmapInv /\ [Call]_bitmap_vars => BitmapInv'
<1> SUFFICES ASSUME BitmapInv, [Call]_bitmap_vars PROVE BitmapInv'
  OBVIOUS
<1>0. /\ map \in MemoryMaps /\ total \in Nat /\ last \in 0 .. total /\ bits \subseteq Nat
      /\ home \subseteq Nat /\ held \subseteq Nat /\ got \in Nat
      /\ Usable(map) \subseteq 1 .. (total - 1)
  BY DEF BitmapInv, BitmapTypeOK
<1>1. CASE AllocPage
  <2>0. UNCHANGED <<map, total, home>>
    BY <1>1, AllocOutcome
  <2>1. CASE got' = 0 /\ UNCHANGED <<bits, last, held>>
    BY <2>0, <2>1 DEF BitmapInv, BitmapTypeOK, BitsExact, HintSound
  <2>2. CASE /\ got' \in (Usable(map) \ home) \ held
             /\ got' \in last .. (total - 1)
             /\ \A q \in last .. (got' - 1) : q \in bits
             /\ bits' = bits \cup {got'} /\ last' = got' + 1 /\ held' = held \cup {got'}
    <3>0. /\ got' \in Nat /\ last' \in 0 .. total /\ got' \in 0 .. (total - 1)
          /\ last \in Nat /\ last' = got' + 1
      <4>1. got' \in last .. (total - 1) /\ last' = got' + 1
        BY <2>2
      <4>2. last \in Nat /\ total \in Nat
        BY <1>0
      <4> QED
        BY <4>1, <4>2, Between
    <3>1. BitmapTypeOK'
      <4>1. bits' \subseteq Nat /\ held' \subseteq Nat
        BY <1>0, <2>2, <3>0
      <4> QED
        BY <1>0, <2>0, <3>0, <4>1 DEF BitmapTypeOK
    <3>2. BitsExact'
      <4>1. held' \subseteq Usable(map) \ home
        BY <2>2 DEF BitmapInv, BitsExact
      <4>2. \A p \in 0 .. (total - 1) :
              p \in bits' <=> p \notin Usable(map) \/ p \in home \/ p \in held'
        BY <2>2 DEF BitmapInv, BitsExact
      <4> QED
        BY <2>0, <4>1, <4>2 DEF BitsExact
    <3>3. HintSound'
      <4>0. \A p \in 0 .. (last' - 1) : p \in 0 .. (last - 1) \/ p \in last .. (got' - 1) \/ p = got'
        <5>1. last \in Nat /\ total \in Nat /\ got' \in last .. (total - 1)
          BY <1>0, <2>2
        <5>2. \A p \in 0 .. (got' + 1 - 1) :
                p \in 0 .. (last - 1) \/ p \in last .. (got' - 1) \/ p = got'
          BY <5>1, Between
        <5>3. last' - 1 = got' + 1 - 1
          BY <3>0
        <5> QED
          BY <5>2, <5>3
      <4>1. \A p \in 0 .. (last - 1) : p \in bits'
        BY <2>2 DEF BitmapInv, HintSound
      <4>2. \A p \in last .. (got' - 1) : p \in bits'
        BY <2>2
      <4>3. got' \in bits'
        BY <2>2
      <4> QED
        BY <4>0, <4>1, <4>2, <4>3 DEF HintSound
    <3> QED
      BY <1>0, <2>0, <3>1, <3>2, <3>3 DEF BitmapInv
  <2> QED
    BY <1>1, <2>1, <2>2, AllocOutcome
<1>2. CASE FreePage
  <2>1. PICK p \in held : /\ held' = held \ {p} /\ bits' = bits \ {p}
                          /\ last' = IF p < last THEN p ELSE last
    BY <1>2 DEF FreePage
  <2>2. UNCHANGED <<map, total, home, got>>
    BY <1>2 DEF FreePage
  <2>3. BitmapTypeOK'
    BY <1>0, <2>1, <2>2 DEF BitmapTypeOK
  <2>4. BitsExact'
    BY <1>0, <2>1, <2>2 DEF BitmapInv, BitsExact
  <2>5. HintSound'
    <3> SUFFICES ASSUME NEW q \in 0 .. (last' - 1) PROVE q \in bits'
      BY DEF HintSound
    <3>1. q \in 0 .. (last - 1) /\ q # p
      BY <1>0, <2>1
    <3> QED
      BY <2>1, <3>1 DEF BitmapInv, HintSound
  <2> QED
    BY <1>0, <2>2, <2>3, <2>4, <2>5 DEF BitmapInv
<1>3. CASE UNCHANGED bitmap_vars
  BY <1>3 DEF bitmap_vars, BitmapInv, BitmapTypeOK, BitsExact, HintSound
<1> QED
  BY <1>1, <1>2, <1>3 DEF Call

\* The bitmap's truth, its own pages included, in every reachable state.
THEOREM BitsExactHolds == BitmapSpec => []BitsExact
<1>1. BitmapInv => BitsExact
  BY DEF BitmapInv
<1> QED
  BY <1>1, BitmapInit, BitmapStep, PTL DEF BitmapSpec

\* The second scan of pmm_alloc_page never finds a page the first one missed.
THEOREM HintSoundHolds == BitmapSpec => []HintSound
<1>1. BitmapInv => HintSound
  BY DEF BitmapInv
<1> QED
  BY <1>1, BitmapInit, BitmapStep, PTL DEF BitmapSpec

\* No page is handed out twice, and none is refused while one is free.
THEOREM AllocHonestHolds == BitmapSpec => AllocHonest
<1>1. BitmapInv /\ [Call]_bitmap_vars =>
        [AllocPage => \/ got' \notin bits /\ held' = held \cup {got'} /\ got' # 0
                      \/ got' = 0 /\ Usable(map) \ home \subseteq held]_bitmap_vars
  BY AllocOutcome
<1> QED
  BY <1>1, BitmapInit, BitmapStep, PTL DEF BitmapSpec, AllocHonest

-----------------------------------------------------------------------------
\* The ATA driver copies what was asked for, whatever the drive was doing.
\* While it reads, a drive that is there is at the very word the driver is at;
\* the IDENTIFY or the read before it was waited for before the command.
AtaBase == request.lba % LbaMod

AtaGiven ==
  [n \in 1 .. request.count * Words |->
     <<Drive!Master, AtaBase + ((n - 1) \div Words), (n - 1) % Words>>]

AtaFollows ==
  /\ drive.phase \in {"busy", "data", "failed"}
  /\ drive.word \in 0 .. Words - 1 /\ drive.left \in 1 .. request.count
  /\ Len(buffer) = (request.count - drive.left) * Words + drive.word
  /\ drive.sector = AtaBase + (request.count - drive.left)

AtaWords == Nat \X Int \X Int

AtaReads == ata_pc \in {"busy", "error", "word", "inw"}

AtaTypes ==
  /\ ata_pc \in {"init", "idle", "ready", "command", "busy", "error", "word", "inw"}
  /\ request \in [drive : Nat, lba : Nat, count : Nat]
  /\ buffer \in Seq(AtaWords)
  /\ drive \in [phase : {"absent", "idle", "busy", "data", "failed"},
                sector : Int, word : Int, left : Int]

AtaInv ==
  /\ AtaTypes
  /\ Len(buffer) <= request.count * Words
  /\ \A n \in 1 .. Len(buffer) : buffer[n] = AtaGiven[n]
  /\ result = "true" => ata_pc = "idle" /\ Len(buffer) = request.count * Words
  /\ ata_pc \in {"init", "ready", "command"} => buffer = <<>>
  /\ request.drive > Drive!Slave => ata_pc \in {"init", "idle"} /\ buffer = <<>> /\ result # "true"
  /\ ata_pc = "command" => drive.phase # "busy"
  /\ AtaReads => Len(buffer) < request.count * Words
  /\ AtaReads => drive.phase = "absent" \/ AtaFollows
  /\ ata_pc = "inw" => drive.phase = "data"

LEMMA AtaBaseType ==
  ASSUME AtaTypes
  PROVE  AtaBase \in Nat
<1>1. request.lba \in Nat /\ LbaMod \in Nat \ {0}
  BY AtaAssumption DEF AtaTypes
<1> QED BY <1>1 DEF AtaBase

LEMMA AtaBegins == Drive!Init => AtaInv
<1> SUFFICES ASSUME Drive!Init PROVE AtaInv
  OBVIOUS
<1>1. /\ ata_pc = "init" /\ request = [drive |-> Drive!Master, lba |-> 0, count |-> 0] /\ buffer = <<>>
      /\ result = "none" /\ drive.phase \in {"idle", "absent"}
  BY DEF Drive!Init
<1>2. AtaTypes
  BY AtaAssumption DEF Drive!Init, Drive!Master, AtaTypes
<1>3. Len(buffer) = 0 /\ request.count * Words = 0
  BY <1>1, AtaAssumption
<1> QED BY <1>1, <1>2, <1>3 DEF AtaInv, AtaReads

\* The driver takes the word it is at: ata_read_buffer, and the sectors' loop.
LEMMA AtaCopies == AtaInv /\ Drive!CopyWord => AtaInv'
<1> SUFFICES ASSUME AtaInv, Drive!CopyWord PROVE AtaInv'
  OBVIOUS
<1> DEFINE len == Len(buffer)
           size == request.count * Words
           q == request.count - drive.left
           p == q * Words
<1>1. /\ ata_pc = "inw" /\ buffer' = Append(buffer, <<Drive!Master, drive.sector, drive.word>>)
      /\ drive' = Drive!Taken /\ request' = request
  BY DEF Drive!CopyWord
<1>2. /\ AtaTypes /\ drive.phase = "data" /\ AtaFollows /\ len < size
      /\ \A n \in 1 .. len : buffer[n] = AtaGiven[n]
      /\ result # "true"
  BY <1>1 DEF AtaInv, AtaReads
<1>3. /\ request.count \in Nat /\ AtaBase \in Nat /\ Words \in Nat \ {0}
      /\ drive.word \in 0 .. Words - 1 /\ drive.left \in 1 .. request.count
      /\ drive.sector = AtaBase + q /\ q \in Nat /\ len \in Nat
      /\ len = p + drive.word
  BY <1>2, AtaBaseType, AtaAssumption DEF AtaTypes, AtaFollows
<1>c. ~ (request'.drive > Drive!Slave)
  BY <1>1 DEF AtaInv
<1> HIDE DEF q
<1>a. p \in Nat /\ size \in Nat /\ p = q * Words /\ p + Words = (q + 1) * Words
  BY <1>3
<1>b. q = request.count - drive.left
  BY DEF q
<1> HIDE DEF len, size, p
<1>4. /\ Len(buffer') = len + 1 /\ buffer' \in Seq(AtaWords)
      /\ \A n \in 1 .. len : buffer'[n] = buffer[n]
      /\ buffer'[len + 1] = <<Drive!Master, drive.sector, drive.word>>
  <2>1. /\ buffer \in Seq(AtaWords) /\ drive.sector \in Int /\ drive.word \in Int
    BY <1>2 DEF AtaTypes
  <2>2. <<Drive!Master, drive.sector, drive.word>> \in AtaWords
    BY <2>1 DEF AtaWords, Drive!Master
  <2> QED BY <1>1, <2>1, <2>2 DEF len
<1>5. len % Words = drive.word /\ len \div Words = q
  <2>1. len = q * Words + drive.word /\ drive.word \in Nat /\ drive.word < Words
    BY <1>3, <1>a
  <2>2. len \in Nat /\ Words \in Nat \ {0} /\ q \in Int
    BY <1>3
  <2> HIDE DEF len
  <2> QED BY <2>1, <2>2, RemainderIs
<1>6. \A n \in 1 .. Len(buffer') : buffer'[n] = AtaGiven'[n]
  <2>1. AtaGiven' = AtaGiven
    BY <1>1 DEF AtaGiven, AtaBase
  <2>2. AtaGiven[len + 1] = <<Drive!Master, drive.sector, drive.word>>
    <3>1. len + 1 \in 1 .. size /\ (len + 1) - 1 = len
      BY <1>2, <1>3, <1>a
    <3> QED BY <1>3, <1>5, <3>1 DEF AtaGiven, AtaBase, size
  <2>3. \A n \in 1 .. len + 1 : n \in 1 .. len \/ n = len + 1
    BY <1>3
  <2> QED BY <1>2, <1>4, <2>1, <2>2, <2>3 DEF len
<1>7. Drive!Taken \in [phase : {"absent", "idle", "busy", "data", "failed"},
                       sector : Int, word : Int, left : Int]
  <2>1. drive \in [phase : {"absent", "idle", "busy", "data", "failed"},
                   sector : Int, word : Int, left : Int]
    BY <1>2 DEF AtaTypes
  <2>2. drive.sector \in Int /\ drive.word \in Int /\ drive.left \in Int
    BY <2>1
  <2>3. CASE drive.word + 1 < Words
    BY <2>1, <2>2, <2>3 DEF Drive!Taken
  <2>4. CASE ~ (drive.word + 1 < Words) /\ drive.left = 1
    BY <2>1, <2>2, <2>4 DEF Drive!Taken
  <2>5. CASE ~ (drive.word + 1 < Words) /\ drive.left # 1
    <3>1. Drive!Taken = [drive EXCEPT !.phase = "busy", !.word = 0,
                                      !.sector = drive.sector + 1, !.left = drive.left - 1]
      BY <2>5 DEF Drive!Taken
    <3>2. drive.sector + 1 \in Int /\ drive.left - 1 \in Int /\ 0 \in Int
      BY <2>2
    <3> HIDE DEF Drive!Taken
    <3> QED BY <2>1, <3>1, <3>2
  <2> QED BY <2>3, <2>4, <2>5
<1>8. CASE drive.word + 1 < Words
  <2>1. drive' = [drive EXCEPT !.word = drive.word + 1]
    BY <1>1, <1>8 DEF Drive!Taken
  <2>2. (len + 1) % Words = drive.word + 1
    <3>1. len + 1 = q * Words + (drive.word + 1) /\ drive.word + 1 \in Nat
      BY <1>3, <1>a
    <3>2. drive.word + 1 < Words /\ q \in Int /\ len + 1 \in Nat
      BY <1>3, <1>8
    <3> DEFINE x == len + 1
               y == drive.word + 1
    <3> HIDE DEF x, y
    <3>3. x = q * Words + y /\ x \in Nat /\ y \in Nat /\ y < Words
      BY <3>1, <3>2 DEF x, y
    <3>4. x % Words = y
      BY <1>3, <3>2, <3>3, RemainderIs
    <3> QED BY <3>4 DEF x, y
  <2>3. size % Words = 0
    BY <1>3, MultipleIs DEF size
  <2>4. len + 1 # size /\ (len + 1) % Words # 0
    BY <1>3, <2>2, <2>3
  <2>5. ata_pc' = "word" /\ result' = result
    <3>1. Len(buffer') % Words # 0 /\ Len(buffer') # request.count * Words
      BY <1>4, <2>4 DEF size
    <3> QED BY <3>1 DEF Drive!CopyWord
  <2>6. AtaFollows'
    <3>1. /\ drive'.phase = "data" /\ drive'.word = drive.word + 1
          /\ drive'.left = drive.left /\ drive'.sector = drive.sector
      BY <1>2, <2>1 DEF AtaTypes
    <3>2. Len(buffer') = p + (drive.word + 1) /\ p = (request.count - drive.left) * Words
      <4>1. Len(buffer') = p + (drive.word + 1)
        BY <1>3, <1>4, <1>a
      <4>2. p = (request.count - drive.left) * Words
        BY <1>a, <1>b
      <4> QED BY <4>1, <4>2
    <3>3. drive.sector = AtaBase + (request.count - drive.left)
      BY <1>3, <1>b
    <3>4. drive.word + 1 \in 0 .. Words - 1
      BY <1>3, <1>8
    <3>5. AtaBase' = AtaBase
      BY <1>1 DEF AtaBase
    <3> QED BY <1>1, <1>3, <3>1, <3>2, <3>3, <3>4, <3>5 DEF AtaFollows
  <2>7. AtaTypes'
    BY <1>1, <1>2, <1>4, <1>7, <2>5 DEF AtaTypes
  <2>8. Len(buffer') < request'.count * Words
    <3>1. len + 1 < size
      BY <1>2, <1>3, <1>a, <2>4
    <3> QED BY <1>1, <1>4, <3>1 DEF size
  <2>9. Len(buffer') <= request'.count * Words
    <3>1. Len(buffer') \in Nat /\ request'.count * Words \in Nat
      BY <1>1, <1>3, <1>4, <1>a DEF size
    <3> QED BY <2>8, <3>1
  <2> QED BY <1>2, <1>c, <1>6, <2>5, <2>6, <2>7, <2>8, <2>9 DEF AtaInv, AtaReads
<1>9. CASE ~ (drive.word + 1 < Words)
  <2>1. len + 1 = (q + 1) * Words /\ q + 1 \in Nat
    <3>1. drive.word = Words - 1
      BY <1>3, <1>9
    <3> QED BY <1>3, <1>a, <3>1
  <2>2. (len + 1) % Words = 0
    <3>1. ((q + 1) * Words) % Words = 0
      BY <1>3, <2>1, MultipleIs
    <3> QED BY <2>1, <3>1
  <2>3. Len(buffer') % Words = 0
    BY <1>4, <2>2
  <2>4. CASE drive.left = 1
    <3>1. drive' = [drive EXCEPT !.phase = "idle"]
      BY <1>1, <1>9, <2>4 DEF Drive!Taken
    <3>2. Len(buffer') = request.count * Words
      BY <1>3, <1>4, <1>b, <2>1, <2>4
    <3>3. ata_pc' = "idle" /\ result' = "true"
      BY <1>3, <2>3, <3>2 DEF Drive!CopyWord, Drive!Return
    <3>4. AtaTypes'
      BY <1>1, <1>2, <1>4, <1>7, <3>3 DEF AtaTypes
    <3>5. Len(buffer') = request'.count * Words /\ Len(buffer') \in Nat
      BY <1>1, <1>3, <1>4, <3>2
    <3>6. Len(buffer') <= request'.count * Words
      BY <3>5
    <3> QED BY <1>c, <1>6, <3>3, <3>4, <3>5, <3>6 DEF AtaInv, AtaReads
  <2>5. CASE drive.left # 1
    <3>1. drive' = [drive EXCEPT !.phase = "busy", !.word = 0,
                                 !.sector = drive.sector + 1, !.left = drive.left - 1]
      BY <1>1, <1>9, <2>5 DEF Drive!Taken
    <3>2. len + 1 < size
      <4>1. q + 1 < request.count
        BY <1>3, <1>b, <2>5
      <4>2. (q + 1) * Words <= size /\ (q + 1) * Words # size
        <5>1. q + 1 \in Nat /\ request.count \in Nat /\ q + 1 <= request.count
          BY <1>3, <2>1, <4>1
        <5>2. (q + 1) * Words <= size
          BY <1>3, <5>1, Larger DEF size
        <5>3. (q + 1) * Words # size
          <6>1. ((q + 1) * Words) \div Words = q + 1 /\ size \div Words = request.count
            BY <1>3, <5>1, MultipleIs DEF size
          <6>2. q + 1 # request.count
            BY <1>3, <4>1
          <6> QED BY <6>1, <6>2
        <5> QED BY <5>2, <5>3
      <4> QED BY <1>3, <1>a, <2>1, <4>2
    <3>3. ata_pc' = "busy" /\ result' = result
      <4>1. Len(buffer') < request.count * Words /\ Len(buffer') # request.count * Words
        BY <1>3, <1>4, <1>a, <3>2 DEF size
      <4> QED BY <2>3, <4>1 DEF Drive!CopyWord
    <3>4. AtaFollows'
      <4>1. drive'.left \in 1 .. request.count /\ request.count - drive'.left = q + 1
        <5>1. drive'.left = drive.left - 1
          BY <1>2, <3>1 DEF AtaTypes
        <5> QED BY <1>3, <1>b, <2>5, <5>1
      <4>2. drive'.word = 0 /\ drive'.phase = "busy" /\ drive'.sector = drive.sector + 1
        BY <1>2, <3>1 DEF AtaTypes
      <4>3. Len(buffer') = (request'.count - drive'.left) * Words + drive'.word
        <5>1. Len(buffer') = (q + 1) * Words /\ (q + 1) * Words \in Nat
          BY <1>3, <1>4, <2>1
        <5>2. Len(buffer') = (q + 1) * Words + 0
          BY <5>1
        <5> QED BY <1>1, <4>1, <4>2, <5>2
      <4>4. drive'.word \in 0 .. Words - 1 /\ drive'.phase \in {"busy", "data", "failed"}
        BY <1>3, <4>2
      <4>5. drive'.sector = AtaBase' + (request'.count - drive'.left)
        <5>1. drive'.sector = (AtaBase + q) + 1
          BY <1>3, <4>2
        <5>2. (AtaBase + q) + 1 = AtaBase + (q + 1)
          BY <1>3
        <5>3. AtaBase' = AtaBase
          BY <1>1 DEF AtaBase
        <5> QED BY <1>1, <4>1, <5>1, <5>2, <5>3
      <4>6. drive'.left \in 1 .. request'.count
        BY <1>1, <4>1
      <4> QED BY <4>3, <4>4, <4>5, <4>6 DEF AtaFollows
    <3>5. AtaTypes'
      BY <1>1, <1>2, <1>4, <1>7, <3>3 DEF AtaTypes
    <3>6. Len(buffer') < request'.count * Words
      BY <1>1, <1>4, <3>2 DEF size
    <3>7. Len(buffer') <= request'.count * Words
      <4>1. Len(buffer') \in Nat /\ request'.count * Words \in Nat
        BY <1>1, <1>3, <1>4, <1>a DEF size
      <4> QED BY <3>6, <4>1
    <3> QED BY <1>2, <1>c, <1>6, <3>3, <3>4, <3>5, <3>6, <3>7 DEF AtaInv, AtaReads
  <2> QED BY <2>4, <2>5
<1> QED BY <1>8, <1>9

LEMMA AtaStep == AtaInv /\ [Drive!Next]_ata_vars => AtaInv'
<1> SUFFICES ASSUME AtaInv, [Drive!Next]_ata_vars PROVE AtaInv'
  OBVIOUS
<1>0. AtaTypes /\ request.count \in Nat /\ Words \in Nat \ {0} /\ Len(buffer) \in Nat
  BY AtaAssumption DEF AtaInv, AtaTypes
<1> DEFINE Still == UNCHANGED <<request, buffer>>
           Kept == UNCHANGED <<request, buffer, drive>>
<1>1. CASE Drive!AtaInit
  <2>1. /\ ata_pc = "init" /\ ata_pc' = "idle" /\ Still /\ result' = result
        /\ drive' = Drive!Commanded(Drive!Identity, 1)
    BY <1>1 DEF Drive!AtaInit
  <2>2. AtaTypes'
    BY <1>0, <2>1 DEF AtaTypes, Drive!Commanded, Drive!Identity
  <2>3. AtaGiven' = AtaGiven
    BY <2>1 DEF AtaGiven, AtaBase
  <2> QED BY <2>1, <2>2, <2>3 DEF AtaInv, AtaReads
<1>2. CASE Drive!Read
  <2>1. /\ request' \in Requests /\ buffer' = <<>> /\ drive' = drive
        /\ \/ request'.drive > Drive!Slave /\ result' = "false" /\ ata_pc' = "idle"
           \/ request'.drive <= Drive!Slave /\ result' = "none" /\ ata_pc' = "ready"
    BY <1>2 DEF Drive!Read
  <2>2. /\ request'.count \in Nat /\ 0 <= request'.count * Words /\ Len(buffer') = 0
        /\ request'.drive \in Nat
    BY <1>0, <2>1, AtaAssumption
  <2>3. AtaTypes'
    BY <1>0, <2>1, AtaAssumption DEF AtaTypes
  <2> QED BY <2>1, <2>2, <2>3 DEF AtaInv, AtaReads, Drive!Slave
<1>3. CASE Drive!Command
  <2>1. /\ ata_pc = "command" /\ buffer = <<>> /\ drive.phase # "busy" /\ Still
        /\ result # "true"
    BY <1>3 DEF Drive!Command, AtaInv
  <2>2. drive' = Drive!Commanded(request.lba % LbaMod,
                                 IF request.count = 0 THEN Full ELSE request.count)
    BY <1>3 DEF Drive!Command
  <2>3. request.lba % LbaMod = AtaBase /\ AtaBase \in Nat /\ AtaBase' = AtaBase
    BY <1>0, <2>1, AtaBaseType DEF AtaBase
  <2>4. AtaTypes'
    <3>1. ata_pc' \in {"idle", "busy"}
      BY <1>3 DEF Drive!Command, Drive!Return
    <3>2. (IF request.count = 0 THEN Full ELSE request.count) \in Int
      BY <1>0, AtaAssumption
    <3>3. drive' \in [phase : {"absent", "idle", "busy", "data", "failed"},
                      sector : Int, word : Int, left : Int]
      BY <1>0, <2>2, <2>3, <3>2 DEF AtaTypes, Drive!Commanded
    <3> QED BY <1>0, <2>1, <3>1, <3>3 DEF AtaTypes
  <2>5. Len(buffer') = 0 /\ buffer' = <<>> /\ request'.count = request.count
    BY <2>1
  <2>6. CASE request.count = 0
    <3>1. ata_pc' = "idle"
      BY <1>3, <2>6 DEF Drive!Command, Drive!Return
    <3>2. request'.count * Words = 0
      BY <1>0, <2>5, <2>6
    <3>3. ~ (request'.drive > Drive!Slave)
      BY <2>1 DEF AtaInv
    <3> QED BY <2>4, <2>5, <3>1, <3>2, <3>3 DEF AtaInv, AtaReads
  <2>7. CASE request.count # 0
    <3>1. ata_pc' = "busy" /\ result' = result
      BY <1>3, <2>7 DEF Drive!Command
    <3>2. 0 < request'.count * Words
      BY <1>0, <2>5, <2>7
    <3>3. drive.phase # "absent" => AtaFollows'
      <4> SUFFICES ASSUME drive.phase # "absent" PROVE AtaFollows'
        OBVIOUS
      <4>1. drive' = [phase |-> "busy", sector |-> AtaBase, word |-> 0,
                      left |-> request.count]
        BY <2>1, <2>2, <2>3, <2>7 DEF Drive!Commanded
      <4>2. request.count - request.count = 0 /\ 0 * Words + 0 = 0
        BY <1>0
      <4> QED BY <1>0, <2>1, <2>3, <2>5, <2>7, <4>1, <4>2 DEF AtaFollows
    <3>4. drive.phase = "absent" => drive' = drive
      BY <2>2 DEF Drive!Commanded
    <3> QED BY <2>1, <2>4, <2>5, <3>1, <3>2, <3>3, <3>4 DEF AtaInv, AtaReads
  <2> QED BY <2>6, <2>7
<1>4. CASE Drive!CopyWord
  BY <1>4, AtaCopies
<1>5. CASE /\ Kept /\ result' \in {result, "false"}
           /\ \/ ata_pc' = ata_pc /\ result' = result
              \/ ata_pc' = "idle" /\ result' = "false"
              \/ ata_pc = "ready" /\ ata_pc' = "command" /\ drive.phase # "busy"
              \/ AtaReads /\ ata_pc' \in {"busy", "error", "word"}
              \/ AtaReads /\ ata_pc' = "inw" /\ drive.phase = "data"
  <2>1. AtaTypes'
    BY <1>0, <1>5 DEF AtaTypes, AtaReads
  <2>2. AtaGiven' = AtaGiven
    BY <1>5 DEF AtaGiven, AtaBase
  <2>3. AtaFollows' = AtaFollows
    BY <1>5 DEF AtaFollows, AtaBase
  <2>4. AtaReads' => AtaReads \/ ata_pc' = ata_pc
    BY <1>5 DEF AtaReads
  <2> QED BY <1>5, <2>1, <2>2, <2>3, <2>4 DEF AtaInv, AtaReads
<1>6. CASE Drive!WaitReady
  BY <1>5, <1>6 DEF Drive!WaitReady, Drive!Poll, Drive!Return, Drive!Busy
<1>7. CASE Drive!WaitSector
  BY <1>5, <1>7 DEF Drive!WaitSector, Drive!Poll, Drive!Return, AtaReads
<1>8. CASE Drive!CheckError
  BY <1>5, <1>8 DEF Drive!CheckError, Drive!Return, AtaReads
<1>9. CASE Drive!WaitWord
  BY <1>5, <1>9 DEF Drive!WaitWord, Drive!Poll, Drive!Return, AtaReads
<1>10. CASE Drive!DriveReady
  <2>1. drive.phase = "busy" /\ UNCHANGED <<ata_pc, request, buffer, result>>
    BY <1>10 DEF Drive!DriveReady, Drive!Busy
  <2>2. PICK phase \in {"data", "failed"} : drive' = [drive EXCEPT !.phase = phase]
    BY <1>10 DEF Drive!DriveReady
  <2>3. AtaTypes' /\ drive'.phase = phase /\ UNCHANGED <<drive.sector, drive.word, drive.left>>
    BY <1>0, <2>1, <2>2 DEF AtaTypes
  <2>4. AtaFollows => AtaFollows'
    BY <2>1, <2>3 DEF AtaFollows, AtaBase
  <2>5. AtaGiven' = AtaGiven
    BY <2>1 DEF AtaGiven, AtaBase
  <2> QED BY <2>1, <2>3, <2>4, <2>5 DEF AtaInv, AtaReads
<1>11. CASE UNCHANGED ata_vars
  BY <1>5, <1>11 DEF ata_vars
<1> QED
  BY <1>1, <1>2, <1>3, <1>4, <1>6, <1>7, <1>8, <1>9, <1>10, <1>11
  DEF Drive!Next, Drive!Driver

\* The one of the routines that runs takes the steps of its own module.
LEMMA AtaAlone ==
  /\ Init => (routine = "ata" => Drive!Init)
  /\ [Next]_vars => (routine' = "ata" => routine = "ata" /\ [Drive!Next]_ata_vars)
<1>1. Init => (routine = "ata" => Drive!Init)
  BY DEF Init
<1>2. [Next]_vars => (routine' = "ata" => routine = "ata" /\ [Drive!Next]_ata_vars)
  BY DEF Next, vars, Memmoves, Allocates, Clocks, Scans, Lists, Drives, Reading, Keep,
         Drive!Next
<1> QED BY <1>1, <1>2

\* A read from the disk copies what was asked for and nothing else, and all of it
\* when it returns true: never the IDENTIFY of ata_init, nor what an earlier read
\* has left; nothing from a third drive.  The slave and sectors beyond the address
\* registers are not promised (ata.cpp:58-62).
THEOREM BufferIsAskedHolds == Spec => []BufferIsAsked
<1> DEFINE I == routine = "ata" => AtaInv
<1>1. Init => I
  BY AtaAlone, AtaBegins
<1>2. I /\ [Next]_vars => I'
  BY AtaAlone, AtaStep
<1>3. I => BufferIsAsked
  <2> SUFFICES ASSUME routine = "ata", AtaInv
               PROVE  Drive!BufferIsAsked /\ Drive!TrueMeansRead
    BY DEF BufferIsAsked
  <2>1. /\ buffer \in Seq(AtaWords) /\ Len(buffer) \in Nat
        /\ request.count * Words \in Nat /\ Len(buffer) <= request.count * Words
    BY AtaAssumption DEF AtaInv, AtaTypes
  <2> DEFINE A == AtaGiven
             N == request.count * Words
             Word(k) == <<Drive!Master, AtaBase + ((k - 1) \div Words), (k - 1) % Words>>
  <2>2. A \in Seq(AtaWords) /\ Len(A) = N
    <3>1. AtaBase \in Nat /\ Words \in Nat \ {0}
      BY AtaBaseType, AtaAssumption DEF AtaInv
    <3>2. \A k \in 1 .. N : Word(k) \in AtaWords
      BY <2>1, <3>1 DEF AtaWords, Drive!Master
    <3>3. A = [k \in 1 .. N |-> Word(k)]
      BY DEF AtaGiven
    <3> HIDE DEF A, N, Word
    <3>4. N \in Nat
      BY <2>1 DEF N
    <3>5. [k \in 1 .. N |-> Word(k)] \in Seq(AtaWords) /\ Len([k \in 1 .. N |-> Word(k)]) = N
      BY <3>2, <3>4
    <3> QED BY <3>3, <3>5
  <2>3. \A k \in 1 .. Len(buffer) : buffer[k] = A[k]
    BY DEF AtaInv
  <2>4. ASSUME Drive!Understood PROVE request.drive > Drive!Slave \/ Drive!Asked = A
    <3>1. request.drive \in Nat /\ request.lba \in Nat /\ LbaMod \in Nat \ {0} /\ request.lba < LbaMod
      BY <2>4, AtaAssumption DEF AtaInv, AtaTypes, Drive!Understood
    <3>2. AtaBase = request.lba
      <4>1. request.lba = 0 * LbaMod + request.lba
        BY <3>1
      <4> QED BY <3>1, <4>1, RemainderIs DEF AtaBase
    <3>3. request.drive > Drive!Slave \/ request.drive = Drive!Master
      BY <2>4, <3>1 DEF Drive!Understood, Drive!Slave, Drive!Master
    <3> QED BY <3>2, <3>3 DEF Drive!Asked, AtaGiven
  <2>5. request.drive > Drive!Slave => buffer = <<>> /\ result # "true"
    BY DEF AtaInv
  <2>6. ~ (request.drive > Drive!Slave) => request.drive <= Drive!Slave
    BY DEF AtaInv, AtaTypes, Drive!Slave
  <2> HIDE DEF A
  <2>7. Drive!IsPrefix(buffer, A)
    BY <2>1, <2>2, <2>3 DEF Drive!IsPrefix
  <2>8. result = "true" => buffer = A
    <3>1. result = "true" => Len(buffer) = Len(A)
      BY <2>2 DEF AtaInv
    <3>2. result = "true" => buffer = [k \in 1 .. Len(buffer) |-> buffer[k]] /\ A = [k \in 1 .. Len(A) |-> A[k]]
      BY <2>1, <2>2
    <3> QED BY <2>3, <3>1, <3>2
  <2>9. Drive!IsPrefix(<<>>, Drive!Asked)
    <3> DEFINE B == Drive!Asked
    <3>1. B = [k \in 1 .. N |-> B[k]] /\ N \in Nat
      BY <2>1 DEF Drive!Asked
    <3> HIDE DEF B
    <3>2. DOMAIN B = 1 .. N
      BY <3>1
    <3>3. Len(<<>>) = 0 /\ SubSeq(B, 1, 0) = <<>>
      OBVIOUS
    <3>4. Len(B) = N
      BY <3>1
    <3> QED BY <3>1, <3>3, <3>4 DEF Drive!IsPrefix, B
  <2> QED BY <2>4, <2>5, <2>6, <2>7, <2>8, <2>9 DEF Drive!BufferIsAsked, Drive!TrueMeansRead
<1> QED BY <1>1, <1>2, <1>3, PTL DEF Spec

-----------------------------------------------------------------------------
\* The PCI scan passes every slot but those of the last bus, each once.
Before(s, b, d, f) == s[1] < b \/ (s[1] = b /\ (s[2] < d \/ (s[2] = d /\ s[3] < f)))

Passed(s) == Before(s, bus, device, function)

\* What one lspci after the other leaves in the address port.
Empty == <<Buses - 2, Devices - 1, 0>> \notin machine.present

Words32 == [slot : Scan!Slots, field : {"id", "header", "class"}]

Finds == [slot : Scan!Slots, word : Words32]

ScanTypes ==
  /\ at \in {"device", "device_data", "header", "header_data",
             "function", "function_data", "done"}
  /\ machine.present \subseteq Scan!Slots
  /\ bus \in 0 .. Buses - 1 /\ device \in 0 .. Devices - 1 /\ function \in 0 .. Functions - 1
  /\ at = "done" => bus = Buses - 1
  /\ at # "done" => bus < Buses - 1
  /\ at \notin {"function", "function_data"} => function = 0
  /\ address \in Words32 /\ found \in Seq(Finds)
  /\ commands \in Nat

\* Each function was found where the scan has passed, and nowhere twice.
FoundBehind ==
  /\ \A n \in 1 .. Len(found) : Passed(found[n].slot)
  /\ \A m, n \in 1 .. Len(found) : found[m].slot = found[n].slot => m = n

\* While nobody else uses the ports, the scan reads what it has selected, and has
\* found what it has passed.
Undisturbed ==
  /\ \A n \in 1 .. Len(found) : found[n].slot \in Scan!Connected
  /\ \A s \in Scan!Connected : Passed(s) => \E n \in 1 .. Len(found) : found[n].slot = s
  /\ at = "device_data" => address = [slot |-> Scan!Here(0), field |-> "id"]
  /\ at = "header_data" => address = [slot |-> Scan!Here(0), field |-> "header"]
  /\ at = "function_data" => address = [slot |-> Scan!Here(function), field |-> "id"]
  /\ at \in {"header", "header_data", "function", "function_data"} =>
       Scan!Here(0) \in machine.present
  /\ at \in {"function", "function_data"} =>
       many = (<<bus, device>> \in machine.multi) /\ (function # 0 => many)

\* An lspci that ends at an empty slot leaves nothing there to be read.
Honest ==
  /\ \A n \in 1 .. Len(found) :
       /\ found[n].slot \in machine.present
       /\ found[n].word = [slot |-> found[n].slot, field |-> "id"]
  /\ at = "function_data" =>
       \/ address = [slot |-> Scan!Here(function), field |-> "id"]
       \/ address.slot \notin machine.present

ScanInv ==
  /\ ScanTypes /\ FoundBehind
  /\ commands = 0 => Undisturbed
  /\ commands = 0 \/ Empty => Honest

LEMMA ScanBegins == Scan!Init => ScanInv
<1> SUFFICES ASSUME Scan!Init PROVE ScanInv
  OBVIOUS
<1>1. /\ at = "device" /\ bus = 0 /\ device = 0 /\ function = 0 /\ found = <<>>
      /\ commands = 0 /\ machine \in Machines
      /\ address = [slot |-> <<0, 0, 0>>, field |-> "id"]
  BY DEF Scan!Init
<1>2. <<0, 0, 0>> \in Scan!Slots
  BY ScanAssumption DEF Scan!Slots
<1>3. ScanTypes
  BY <1>1, <1>2, ScanAssumption DEF ScanTypes, Words32
<1>4. Len(found) = 0 /\ \A n \in 1 .. Len(found) : FALSE
  BY <1>1
<1>5. \A s \in Scan!Slots : ~ Passed(s)
  BY <1>1, ScanAssumption DEF Scan!Slots, Before, Passed
<1>6. \A s \in Scan!Connected : ~ Passed(s)
  BY <1>1, <1>5, ScanAssumption DEF Scan!Connected
<1> QED BY <1>1, <1>3, <1>4, <1>6 DEF ScanInv, FoundBehind, Undisturbed, Honest

\* What NextDevice passes is the rest of the device.
LEMMA NextPasses ==
  ASSUME ScanTypes, Scan!NextDevice, at # "done"
  PROVE  /\ \A s \in Scan!Slots :
              Before(s, bus', device', function') <=> \/ Passed(s)
                             \/ (s[1] = bus /\ s[2] = device /\ s[3] >= function)
         /\ at' \in {"device", "done"}
         /\ bus' \in 0 .. Buses - 1 /\ device' \in 0 .. Devices - 1 /\ function' = 0
         /\ at' = "done" => bus' = Buses - 1
         /\ at' # "done" => bus' < Buses - 1
<1>1. /\ bus \in 0 .. Buses - 2 /\ device \in 0 .. Devices - 1 /\ function \in 0 .. Functions - 1
      /\ Buses \in Nat /\ Devices \in Nat /\ Functions \in Nat /\ function' = 0
  BY ScanAssumption DEF ScanTypes, Scan!NextDevice
<1>2. \A s \in Scan!Slots : s[1] \in 0 .. Buses - 1 /\ s[2] \in 0 .. Devices - 1
                              /\ s[3] \in 0 .. Functions - 1
  BY DEF Scan!Slots
<1>3. CASE device + 1 < Devices
  <2>1. device' = device + 1 /\ bus' = bus /\ at' = "device"
    BY <1>3 DEF Scan!NextDevice
  <2>2. ASSUME NEW s \in Scan!Slots
        PROVE  Before(s, bus', device', function') <=>
                 Passed(s) \/ (s[1] = bus /\ s[2] = device /\ s[3] >= function)
    <3>1. /\ s[1] \in Nat /\ s[2] \in Nat /\ s[3] \in Nat
          /\ bus \in Nat /\ device \in Nat /\ function \in Nat
      BY <1>1, <1>2
    <3>2. Before(s, bus, device + 1, 0) <=>
            Before(s, bus, device, function) \/ (s[1] = bus /\ s[2] = device /\ s[3] >= function)
      BY <3>1 DEF Before
    <3>3. bus' = bus /\ device' = device + 1 /\ function' = 0
      BY <1>1, <2>1
    <3> QED BY <3>2, <3>3 DEF Passed
  <2>3. device + 1 \in 0 .. Devices - 1 /\ bus \in 0 .. Buses - 1 /\ bus < Buses - 1
    BY <1>1, <1>3
  <2> QED BY <1>1, <2>1, <2>2, <2>3
<1>4. CASE ~ (device + 1 < Devices)
  <2>1. /\ device' = 0 /\ bus' = bus + 1 /\ device = Devices - 1
        /\ at' = IF bus + 1 < Buses - 1 THEN "device" ELSE "done"
    BY <1>1, <1>4 DEF Scan!NextDevice
  <2>2. ASSUME NEW s \in Scan!Slots
        PROVE  Before(s, bus', device', function') <=>
                 Passed(s) \/ (s[1] = bus /\ s[2] = device /\ s[3] >= function)
    <3>1. /\ s[1] \in Nat /\ s[2] \in Nat /\ s[3] \in Nat /\ s[2] <= device
          /\ bus \in Nat /\ device \in Nat /\ function \in Nat
      BY <1>1, <1>2, <2>1
    <3>2. Before(s, bus + 1, 0, 0) <=>
            Before(s, bus, device, function) \/ (s[1] = bus /\ s[2] = device /\ s[3] >= function)
      BY <3>1 DEF Before
    <3>3. bus' = bus + 1 /\ device' = 0 /\ function' = 0
      BY <1>1, <2>1
    <3> QED BY <3>2, <3>3 DEF Passed
  <2>3. /\ bus + 1 \in 0 .. Buses - 1 /\ 0 \in 0 .. Devices - 1
        /\ bus + 1 < Buses - 1 \/ bus + 1 = Buses - 1
    BY <1>1, <2>1
  <2> QED BY <1>1, <2>1, <2>2, <2>3
<1> QED BY <1>3, <1>4

\* Steps that pass nothing.
LEMMA ScanSelects ==
  ASSUME ScanInv,
         UNCHANGED <<machine, bus, device, function, found, commands>>,
         \/ Scan!SelectDevice \/ Scan!SelectHeader \/ Scan!SelectFunction
         \/ Scan!CheckHeader
         \/ (Scan!CheckDevice /\ at' = "header" /\ Scan!Data(address) # Scan!Ones)
  PROVE  ScanInv'
<1> DEFINE Same == UNCHANGED <<machine, bus, device, function, found, commands>>
<1>1. ScanTypes /\ FoundBehind /\ Same
  BY DEF ScanInv
<1>2. /\ FoundBehind'
      /\ (Scan!Connected)' = Scan!Connected
      /\ \A s : Before(s, bus', device', function') = Passed(s)
      /\ \A f : (Scan!Here(f))' = Scan!Here(f)
      /\ Empty' = Empty
  BY <1>1 DEF FoundBehind, Before, Passed, Scan!Connected, Scan!Here, Empty
<1>3. Scan!Here(0) \in Scan!Slots /\ Scan!Here(function) \in Scan!Slots
  BY <1>1, ScanAssumption DEF ScanTypes, Scan!Slots, Scan!Here
<1>4. CASE Scan!SelectDevice
  <2>1. /\ at = "device" /\ at' = "device_data"
        /\ address' = [slot |-> Scan!Here(0), field |-> "id"]
    BY <1>4 DEF Scan!SelectDevice, Scan!Select
  <2>2. ScanTypes'
    BY <1>1, <1>3, <2>1 DEF ScanTypes, Words32
  <2> QED BY <1>1, <1>2, <2>1, <2>2 DEF ScanInv, Undisturbed, Honest, Passed
<1>5. CASE Scan!SelectHeader
  <2>1. /\ at = "header" /\ at' = "header_data"
        /\ address' = [slot |-> Scan!Here(0), field |-> "header"]
    BY <1>5 DEF Scan!SelectHeader, Scan!Select
  <2>2. ScanTypes'
    BY <1>1, <1>3, <2>1 DEF ScanTypes, Words32
  <2> QED BY <1>1, <1>2, <2>1, <2>2 DEF ScanInv, Undisturbed, Honest, Passed
<1>6. CASE Scan!SelectFunction
  <2>1. /\ at = "function" /\ at' = "function_data"
        /\ address' = [slot |-> Scan!Here(function), field |-> "id"] /\ many' = many
    BY <1>6 DEF Scan!SelectFunction, Scan!Select, Scan!scan
  <2>2. ScanTypes'
    BY <1>1, <1>3, <2>1 DEF ScanTypes, Words32
  <2> QED BY <1>1, <1>2, <2>1, <2>2 DEF ScanInv, Undisturbed, Honest, Passed
<1>7. CASE Scan!CheckHeader
  <2>1. /\ at = "header_data" /\ at' = "function" /\ address' = address
        /\ many' \in Scan!SeveralBit(Scan!Data(address))
    BY <1>7 DEF Scan!CheckHeader
  <2>2. ScanTypes'
    BY <1>1, <2>1 DEF ScanTypes
  <2>3. commands = 0 => many' = (<<bus, device>> \in machine.multi) /\ function = 0
    <3> SUFFICES ASSUME commands = 0
                 PROVE  many' = (<<bus, device>> \in machine.multi) /\ function = 0
      OBVIOUS
    <3>1. /\ address = [slot |-> Scan!Here(0), field |-> "header"]
          /\ Scan!Here(0) \in machine.present
      BY <2>1 DEF ScanInv, Undisturbed
    <3>2. Scan!Data(address) = address /\ address # Scan!Ones
      BY <3>1 DEF Scan!Data, Scan!Ones
    <3>3. Scan!SeveralBit(address) = {(<<address.slot[1], address.slot[2]>> \in machine.multi)}
      BY <3>1, <3>2 DEF Scan!SeveralBit
    <3>4. address.slot[1] = bus /\ address.slot[2] = device
      BY <3>1 DEF Scan!Here
    <3>5. function = 0
      BY <1>1, <2>1 DEF ScanTypes
    <3> QED BY <2>1, <3>2, <3>3, <3>4, <3>5
  <2> QED BY <1>1, <1>2, <2>1, <2>2, <2>3 DEF ScanInv, Undisturbed, Honest, Passed
<1>8. CASE Scan!CheckDevice /\ at' = "header" /\ Scan!Data(address) # Scan!Ones
  <2>1. /\ at = "device_data" /\ at' = "header" /\ address' = address /\ many' = many
    BY <1>8 DEF Scan!CheckDevice
  <2>2. ScanTypes'
    BY <1>1, <2>1 DEF ScanTypes
  <2>3. commands = 0 => Scan!Here(0) \in machine.present
    BY <1>8, <2>1 DEF ScanInv, Undisturbed, Scan!Data
  <2> QED BY <1>1, <1>2, <2>1, <2>2, <2>3 DEF ScanInv, Undisturbed, Honest, Passed
<1> QED BY <1>4, <1>5, <1>6, <1>7, <1>8

\* pci_check_device leaves a device that has no function 0.
LEMMA ScanSkips ==
  ASSUME ScanInv, Scan!CheckDevice, Scan!Data(address) = Scan!Ones, Scan!NextDevice
  PROVE  ScanInv'
<1>1. /\ ScanTypes /\ FoundBehind /\ at = "device_data" /\ function = 0
      /\ UNCHANGED <<machine, many, address, found, commands>>
  BY DEF ScanInv, ScanTypes, Scan!CheckDevice
<1>2. /\ \A s \in Scan!Slots :
           Before(s, bus', device', function') <=>
             Passed(s) \/ (s[1] = bus /\ s[2] = device /\ s[3] >= function)
      /\ at' \in {"device", "done"}
      /\ bus' \in 0 .. Buses - 1 /\ device' \in 0 .. Devices - 1 /\ function' = 0
      /\ at' = "done" => bus' = Buses - 1
      /\ at' # "done" => bus' < Buses - 1
  BY <1>1, NextPasses
<1>3. ScanTypes'
  BY <1>1, <1>2, ScanAssumption DEF ScanTypes
<1>4. \A n \in 1 .. Len(found) : found[n].slot \in Scan!Slots
  <2>1. found \in Seq(Finds)
    BY <1>1 DEF ScanTypes
  <2>2. \A n \in 1 .. Len(found) : found[n] \in Finds
    BY <2>1
  <2> QED BY <2>2 DEF Finds
<1>5. FoundBehind'
  <2>1. \A n \in 1 .. Len(found) : Before(found[n].slot, bus', device', function')
    BY <1>1, <1>2, <1>4 DEF FoundBehind
  <2> QED BY <1>1, <2>1 DEF FoundBehind, Before, Passed
<1>6. commands' = 0 => Undisturbed'
  <2> SUFFICES ASSUME commands = 0 PROVE Undisturbed'
    BY <1>1
  <2>1. Undisturbed /\ address = [slot |-> Scan!Here(0), field |-> "id"]
    BY <1>1 DEF ScanInv, Undisturbed
  <2>2. Scan!Here(0) \notin machine.present
    BY <2>1 DEF Scan!Data, Scan!Ones
  <2>3. (Scan!Connected)' = Scan!Connected
    BY <1>1 DEF Scan!Connected
  <2>4. \A s \in Scan!Connected : Before(s, bus', device', function') => Passed(s)
    <3> SUFFICES ASSUME NEW s \in Scan!Connected, Before(s, bus', device', function'), ~ Passed(s) PROVE FALSE
      OBVIOUS
    <3>1. s \in machine.present /\ <<s[1], s[2], 0>> \in machine.present /\ s \in Scan!Slots
      BY <1>1 DEF Scan!Connected, ScanTypes
    <3>2. s[1] = bus /\ s[2] = device
      BY <1>2, <3>1
    <3> QED BY <2>2, <3>1, <3>2 DEF Scan!Here
  <2> QED BY <1>1, <1>2, <2>1, <2>3, <2>4 DEF Undisturbed, Passed
<1>7. commands' = 0 \/ Empty' => Honest'
  BY <1>1, <1>2 DEF ScanInv, Honest, Empty
<1> QED BY <1>3, <1>5, <1>6, <1>7 DEF ScanInv

\* pci_check_function passes one function, or with it the rest of the device.
LEMMA ScanFinds == ScanInv /\ Scan!CheckFunction => ScanInv'
<1> SUFFICES ASSUME ScanInv, Scan!CheckFunction PROVE ScanInv'
  OBVIOUS
<1> DEFINE here == Scan!Here(function)
           len == Len(found)
           Rest(s) == s[1] = bus /\ s[2] = device /\ s[3] >= function
<1>1. /\ ScanTypes /\ FoundBehind /\ at = "function_data"
      /\ UNCHANGED <<machine, many, address, commands>> /\ Scan!NextFunction
      /\ found' = IF Scan!Data(address) = Scan!Ones THEN found
                  ELSE Append(found, [slot |-> here, word |-> Scan!Data(address)])
  BY DEF ScanInv, Scan!CheckFunction
<1>2. here \in Scan!Slots /\ here[1] = bus /\ here[2] = device /\ here[3] = function
  BY <1>1 DEF ScanTypes, Scan!Slots, Scan!Here
<1>3. \A s \in Scan!Slots : /\ s[1] \in Nat /\ s[2] \in Nat /\ s[3] \in 0 .. Functions - 1
                              /\ s = <<s[1], s[2], s[3]>>
  BY ScanAssumption DEF Scan!Slots
<1>4. /\ at' \in {"function", "device", "done"}
      /\ bus' \in 0 .. Buses - 1 /\ device' \in 0 .. Devices - 1
      /\ function' \in 0 .. Functions - 1
      /\ at' = "done" => bus' = Buses - 1
      /\ at' # "done" => bus' < Buses - 1
      /\ at' # "function" => function' = 0
      /\ at' = "function" => bus' = bus /\ device' = device /\ many
      /\ \A s \in Scan!Slots : Passed(s) \/ s = here => Before(s, bus', device', function')
      /\ \A s \in Scan!Slots : Before(s, bus', device', function') => Passed(s) \/ Rest(s)
      /\ \A s \in Scan!Slots : Before(s, bus', device', function') /\ Rest(s) /\ s # here => ~ many
  <2>1. CASE many /\ function + 1 < Functions
    <3>1. function' = function + 1 /\ at' = "function" /\ UNCHANGED <<bus, device>>
      BY <1>1, <2>1 DEF Scan!NextFunction
    <3>2. \A s \in Scan!Slots : Before(s, bus', device', function') <=> Passed(s) \/ s = here
      <4> SUFFICES ASSUME NEW s \in Scan!Slots PROVE Before(s, bus', device', function') <=> Passed(s) \/ s = here
        OBVIOUS
      <4>1. s = here <=> s[1] = bus /\ s[2] = device /\ s[3] = function
        BY <1>3 DEF Scan!Here
      <4>2. function \in Nat /\ s[3] \in Nat
        BY <1>1, <1>3 DEF ScanTypes
      <4>3. s[3] < function + 1 <=> s[3] < function \/ s[3] = function
        BY <4>2
      <4> QED BY <3>1, <4>1, <4>3 DEF Before, Passed
    <3>3. \A s \in Scan!Slots : Passed(s) => ~ Rest(s)
      BY <1>1, <1>3, ScanAssumption DEF Before, Passed, ScanTypes
    <3>4. Rest(here)
      BY <1>1, <1>2, ScanAssumption DEF ScanTypes
    <3>5. /\ bus \in 0 .. Buses - 1 /\ device \in 0 .. Devices - 1 /\ bus < Buses - 1
          /\ function + 1 \in 0 .. Functions - 1
      BY <1>1, <2>1, ScanAssumption DEF ScanTypes
    <3> QED BY <2>1, <3>1, <3>2, <3>3, <3>4, <3>5
  <2>2. CASE ~ (many /\ function + 1 < Functions)
    <3>1. Scan!NextDevice
      BY <1>1, <2>2 DEF Scan!NextFunction
    <3>2. /\ \A s \in Scan!Slots : Before(s, bus', device', function') <=> Passed(s) \/ Rest(s)
          /\ at' \in {"device", "done"}
          /\ bus' \in 0 .. Buses - 1 /\ device' \in 0 .. Devices - 1 /\ function' = 0
          /\ at' = "done" => bus' = Buses - 1
          /\ at' # "done" => bus' < Buses - 1
      BY <1>1, <3>1, NextPasses
    <3>3. Rest(here)
      BY <1>1, <1>2, ScanAssumption DEF ScanTypes
    <3>4. \A s \in Scan!Slots : Rest(s) /\ s # here => ~ many
      <4> SUFFICES ASSUME NEW s \in Scan!Slots, Rest(s), s # here, many PROVE FALSE
        OBVIOUS
      <4>1. ~ (function + 1 < Functions)
        BY <2>2
      <4>2. s[3] = function
        BY <1>1, <1>3, <4>1, ScanAssumption DEF ScanTypes
      <4> QED BY <1>3, <4>2 DEF Scan!Here
    <3>5. 0 \in 0 .. Functions - 1
      BY ScanAssumption
    <3> QED BY <3>2, <3>3, <3>4, <3>5
  <2> QED BY <2>1, <2>2
<1> HIDE DEF Rest
<1>5. \A s \in Scan!Slots : Passed(s) => ~ (s = here)
  BY <1>1, <1>2, ScanAssumption DEF Before, Passed, ScanTypes
<1>6. Scan!Data(address) # Scan!Ones => Scan!Data(address) = address
  BY DEF Scan!Data
<1>7. /\ len \in Nat /\ found \in Seq(Finds)
      /\ \A n \in 1 .. len : found[n].slot \in Scan!Slots
  <2>1. found \in Seq(Finds)
    BY <1>1 DEF ScanTypes
  <2>2. \A n \in 1 .. len : found[n] \in Finds
    BY <2>1
  <2> QED BY <2>1, <2>2 DEF Finds
<1>8. ScanTypes'
  <2>1. found' \in Seq(Finds)
    <3>1. CASE Scan!Data(address) = Scan!Ones
      BY <1>1, <1>7, <3>1
    <3>2. CASE Scan!Data(address) # Scan!Ones
      <4>1. [slot |-> here, word |-> address] \in Finds
        BY <1>1, <1>2 DEF ScanTypes, Finds
      <4> QED BY <1>1, <1>6, <1>7, <3>2, <4>1
    <3> QED BY <3>1, <3>2
  <2> QED BY <1>1, <1>4, <2>1 DEF ScanTypes
<1> HIDE DEF here
<1>9. CASE Scan!Data(address) = Scan!Ones
  <2>1. found' = found
    BY <1>1, <1>9
  <2>2. FoundBehind'
    <3>1. \A n \in 1 .. len : Before(found[n].slot, bus', device', function')
      BY <1>1, <1>4, <1>7 DEF FoundBehind
    <3> QED BY <1>1, <2>1, <3>1 DEF FoundBehind, Before, Passed
  <2>3. commands' = 0 => Undisturbed'
    <3> SUFFICES ASSUME commands = 0 PROVE Undisturbed'
      BY <1>1
    <3>1. Undisturbed /\ address = [slot |-> here, field |-> "id"]
      BY <1>1 DEF ScanInv, Undisturbed, here
    <3>2. here \notin machine.present
      BY <1>9, <3>1 DEF Scan!Data, Scan!Ones
    <3>3. (Scan!Connected)' = Scan!Connected
      BY <1>1 DEF Scan!Connected
    <3>4. \A s \in Scan!Connected : Before(s, bus', device', function') => Passed(s)
      <4> SUFFICES ASSUME NEW s \in Scan!Connected, Before(s, bus', device', function'), ~ Passed(s) PROVE FALSE
        OBVIOUS
      <4>1. s \in machine.present /\ s \in Scan!Slots
        BY <1>1 DEF Scan!Connected, ScanTypes
      <4>2. Rest(s) /\ ~ many
        BY <1>4, <3>2, <4>1
      <4>3. s[1] = bus /\ s[2] = device /\ function = 0 /\ s[3] # function
        <5>1. function = 0
          BY <1>1, <3>1, <4>2 DEF Undisturbed
        <5> QED BY <1>3, <3>2, <4>1, <4>2, <5>1 DEF Rest, here, Scan!Here
      <4>4. <<bus, device>> \notin machine.multi
        BY <1>1, <3>1, <4>2 DEF Undisturbed
      <4> QED BY <4>3, <4>4 DEF Scan!Connected
    <3>5. at' = "function" => /\ (Scan!Here(0))' = Scan!Here(0) /\ many' = many /\ many
                              /\ <<bus', device'>> = <<bus, device>>
      BY <1>1, <1>4 DEF Scan!Here
    <3> QED BY <1>1, <1>4, <2>1, <3>1, <3>3, <3>4, <3>5 DEF Undisturbed, Passed
  <2>4. commands' = 0 \/ Empty' => Honest'
    BY <1>1, <1>4, <2>1 DEF ScanInv, Honest, Empty
  <2> QED BY <1>8, <2>2, <2>3, <2>4 DEF ScanInv
<1>10. CASE Scan!Data(address) # Scan!Ones
  <2> DEFINE entry == [slot |-> here, word |-> address]
  <2>1. found' = Append(found, entry)
    BY <1>1, <1>6, <1>10
  <2> HIDE DEF entry
  <2>2. /\ Len(found') = len + 1 /\ found'[len + 1] = entry
        /\ \A n \in 1 .. len : found'[n] = found[n]
    BY <1>7, <2>1
  <2>3. entry.slot = here /\ entry.word = address
    BY DEF entry
  <2>4. \A n \in 1 .. Len(found') : n \in 1 .. len \/ n = len + 1
    BY <1>7, <2>2
  <2>5. FoundBehind'
    <3>1. \A n \in 1 .. Len(found') : Before(found'[n].slot, bus', device', function')
      <4>1. \A n \in 1 .. len : Before(found[n].slot, bus', device', function')
        BY <1>1, <1>4, <1>7 DEF FoundBehind
      <4>2. Before(here, bus', device', function')
        BY <1>2, <1>4
      <4> QED BY <2>2, <2>3, <2>4, <4>1, <4>2 DEF Before, Passed
    <3>2. \A n \in 1 .. len : found[n].slot # here
      BY <1>1, <1>5, <1>7 DEF FoundBehind
    <3>3. \A m, n \in 1 .. Len(found') : found'[m].slot = found'[n].slot => m = n
      BY <1>1, <2>2, <2>3, <2>4, <3>2 DEF FoundBehind
    <3> QED BY <3>1, <3>3 DEF FoundBehind, Before, Passed
  <2>6. commands' = 0 => Undisturbed'
    <3> SUFFICES ASSUME commands = 0 PROVE Undisturbed'
      BY <1>1
    <3>1. Undisturbed /\ address = [slot |-> here, field |-> "id"]
      BY <1>1 DEF ScanInv, Undisturbed, here
    <3>2. here \in machine.present
      BY <1>10, <3>1 DEF Scan!Data
    <3>3. (Scan!Connected)' = Scan!Connected
      BY <1>1 DEF Scan!Connected
    <3>4. here \in Scan!Connected
      <4>1. <<here[1], here[2], 0>> \in machine.present
        BY <1>1, <1>2, <3>1 DEF Undisturbed, Scan!Here
      <4>2. here[3] # 0 => <<here[1], here[2]>> \in machine.multi
        BY <1>1, <1>2, <3>1 DEF Undisturbed
      <4> QED BY <3>2, <4>1, <4>2 DEF Scan!Connected
    <3>5. \A s \in Scan!Connected : Before(s, bus', device', function') => Passed(s) \/ s = here
      <4> SUFFICES ASSUME NEW s \in Scan!Connected, Before(s, bus', device', function'), ~ Passed(s), s # here PROVE FALSE
        OBVIOUS
      <4>1. s \in machine.present /\ s \in Scan!Slots
        BY <1>1 DEF Scan!Connected, ScanTypes
      <4>2. Rest(s) /\ ~ many
        BY <1>4, <4>1
      <4>3. s[1] = bus /\ s[2] = device /\ function = 0 /\ s[3] # function
        <5>1. function = 0
          BY <1>1, <3>1, <4>2 DEF Undisturbed
        <5> QED BY <1>3, <4>1, <4>2, <5>1 DEF Rest, here, Scan!Here
      <4>4. <<bus, device>> \notin machine.multi
        BY <1>1, <3>1, <4>2 DEF Undisturbed
      <4> QED BY <4>3, <4>4 DEF Scan!Connected
    <3>6. \A n \in 1 .. Len(found') : found'[n].slot \in Scan!Connected
      BY <2>2, <2>3, <2>4, <3>1, <3>4 DEF Undisturbed
    <3>7. \A s \in Scan!Connected : Before(s, bus', device', function') => \E n \in 1 .. Len(found') : found'[n].slot = s
      <4> SUFFICES ASSUME NEW s \in Scan!Connected, Before(s, bus', device', function')
                   PROVE  \E n \in 1 .. Len(found') : found'[n].slot = s
        OBVIOUS
      <4>1. CASE s = here
        <5>1. len + 1 \in 1 .. Len(found')
          BY <1>7, <2>2
        <5> QED BY <2>2, <2>3, <4>1, <5>1
      <4>2. CASE Passed(s)
        <5>1. PICK n \in 1 .. len : found[n].slot = s
          BY <3>1, <4>2 DEF Undisturbed
        <5>2. n \in 1 .. Len(found')
          BY <1>7, <2>2
        <5> QED BY <2>2, <5>1, <5>2
      <4> QED BY <3>5, <4>1, <4>2
    <3>8. at' = "function" => /\ (Scan!Here(0))' = Scan!Here(0) /\ many' = many /\ many
                              /\ <<bus', device'>> = <<bus, device>>
      BY <1>1, <1>4 DEF Scan!Here
    <3> QED BY <1>1, <1>4, <3>1, <3>3, <3>6, <3>7, <3>8 DEF Undisturbed, Passed
  <2>7. commands' = 0 \/ Empty' => Honest'
    <3> SUFFICES ASSUME commands = 0 \/ Empty PROVE Honest'
      BY <1>1 DEF Empty
    <3>1. Honest /\ address.slot \in machine.present
      BY <1>10 DEF ScanInv, Scan!Data
    <3>2. address = [slot |-> here, field |-> "id"]
      BY <1>1, <3>1 DEF Honest, here
    <3>3. address.slot = here
      BY <3>2
    <3> QED BY <1>1, <1>4, <2>2, <2>3, <2>4, <3>1, <3>2, <3>3 DEF Honest
  <2> QED BY <1>8, <2>5, <2>6, <2>7 DEF ScanInv
<1> QED BY <1>9, <1>10

LEMMA ScanStep == ScanInv /\ [Scan!Next]_scan_vars => ScanInv'
<1> SUFFICES ASSUME ScanInv, [Scan!Next]_scan_vars PROVE ScanInv'
  OBVIOUS
<1>1. CASE Scan!SelectDevice \/ Scan!SelectHeader \/ Scan!SelectFunction \/ Scan!CheckHeader
  <2>1. UNCHANGED <<machine, bus, device, function, found, commands>>
    BY <1>1 DEF Scan!SelectDevice, Scan!SelectHeader, Scan!SelectFunction, Scan!CheckHeader,
                Scan!Select, Scan!scan
  <2> QED BY <1>1, <2>1, ScanSelects
<1>2. CASE Scan!CheckDevice
  <2>1. CASE Scan!Data(address) = Scan!Ones /\ Scan!NextDevice
    BY <1>2, <2>1, ScanSkips
  <2>2. CASE ~ (Scan!Data(address) = Scan!Ones /\ Scan!NextDevice)
    <3>1. /\ UNCHANGED <<machine, bus, device, function, found, commands>>
          /\ at' = "header" /\ Scan!Data(address) # Scan!Ones
      BY <1>2, <2>2 DEF Scan!CheckDevice
    <3> QED BY <1>2, <3>1, ScanSelects
  <2> QED BY <2>1, <2>2
<1>3. CASE Scan!CheckFunction
  BY <1>3, ScanFinds
<1>4. CASE Scan!Lspci
  <2>1. /\ UNCHANGED <<machine, at, bus, device, function, many, found>>
        /\ address' = Scan!LastOfLspci /\ commands' = commands + 1
    BY <1>4 DEF Scan!Lspci, Scan!scan
  <2>2. \A f \in 0 .. Functions - 1 : <<Buses - 2, Devices - 1, f>> \in Scan!Slots
    BY ScanAssumption DEF Scan!Slots
  <2>3. address' \in Words32
    <3>1. 0 \in 0 .. Functions - 1 /\ Functions - 1 \in 0 .. Functions - 1
      BY ScanAssumption
    <3> QED BY <2>1, <2>2, <3>1 DEF Scan!LastOfLspci, Words32
  <2>4. ScanTypes' /\ commands' # 0
    BY <2>1, <2>3 DEF ScanInv, ScanTypes
  <2>5. FoundBehind'
    BY <2>1 DEF ScanInv, FoundBehind, Before, Passed
  <2>6. Empty => address'.slot \notin machine.present
    BY <2>1 DEF Empty, Scan!LastOfLspci
  <2>7. Empty' => Honest'
    BY <2>1, <2>6 DEF ScanInv, Honest, Empty
  <2> QED BY <2>4, <2>5, <2>7 DEF ScanInv
<1>5. CASE UNCHANGED scan_vars
  BY <1>5 DEF scan_vars, ScanInv, ScanTypes, FoundBehind, Undisturbed, Honest, Empty, Before, Passed,
              Scan!Connected, Scan!Here
<1> QED BY <1>1, <1>2, <1>3, <1>4, <1>5 DEF Scan!Next, Scan!Scan

LEMMA ScanAlone ==
  /\ Init => (routine = "scan" => Scan!Init)
  /\ [Next]_vars => (routine' = "scan" => routine = "scan" /\ [Scan!Next]_scan_vars)
<1>1. Init => (routine = "scan" => Scan!Init)
  BY DEF Init
<1>2. [Next]_vars => (routine' = "scan" => routine = "scan" /\ [Scan!Next]_scan_vars)
  BY DEF Next, vars, Memmoves, Allocates, Clocks, Scans, Lists, Drives, Reading, Keep,
         Scan!Next
<1> QED BY <1>1, <1>2

\* The scan finds every function there is, once, where no lspci comes in between
\* and nothing is on the last bus; and none that is not there, where the last
\* slot that an lspci looks at is empty.
THEOREM FindsEveryDeviceHolds == Spec => []FindsEveryDevice
<1> DEFINE I == routine = "scan" => ScanInv
<1>1. Init => I
  BY ScanAlone, ScanBegins
<1>2. I /\ [Next]_vars => I'
  BY ScanAlone, ScanStep
<1>3. I => FindsEveryDevice
  <2> SUFFICES ASSUME routine = "scan", ScanInv
               PROVE  Scan!FindsEveryDevice /\ Scan!NoPhantom
    BY DEF FindsEveryDevice
  <2>1. DOMAIN found = 1 .. Len(found)
    BY DEF ScanInv, ScanTypes
  <2>2. Scan!NoPhantom
    BY <2>1 DEF ScanInv, Honest, Empty, Scan!NoPhantom
  <2>3. Scan!FindsEveryDevice
    <3> SUFFICES ASSUME at = "done", commands = 0, \A s \in Scan!Connected : s[1] # Buses - 1
                 PROVE  Scan!Places = Scan!Connected /\ Scan!IsInjective(found)
      BY DEF Scan!FindsEveryDevice
    <3>1. \A s \in Scan!Connected : Passed(s)
      <4> SUFFICES ASSUME NEW s \in Scan!Connected PROVE Passed(s)
        OBVIOUS
      <4>1. s \in Scan!Slots /\ s[1] # Buses - 1 /\ bus = Buses - 1
        BY DEF Scan!Connected, ScanInv, ScanTypes
      <4>2. s[1] \in 0 .. Buses - 1
        BY <4>1 DEF Scan!Slots
      <4> QED BY <4>1, <4>2, ScanAssumption DEF Before, Passed
    <3>2. Undisturbed /\ FoundBehind
      BY DEF ScanInv
    <3>3. Scan!Places = Scan!Connected
      BY <2>1, <3>1, <3>2 DEF Undisturbed, Scan!Places
    <3>4. Scan!IsInjective(found)
      BY <2>1, <3>2 DEF FoundBehind, Scan!IsInjective
    <3> QED BY <3>3, <3>4
  <2> QED BY <2>2, <2>3
<1> QED BY <1>1, <1>2, <1>3, PTL DEF Spec

-----------------------------------------------------------------------------
\* The time command. rtc_get_time knows a clock that counts to 24, or one that
\* counts in binary at any hour but twelve; other hours it gets wrong.
Readable(binary, hours24, hour) == hours24 \/ (binary /\ hour % 12 # 0)

Time == [year : 2000 .. 2099, month : 1 .. 12, day : 1 .. 31,
         hour : 0 .. 23, minute : 0 .. 59, second : 0 .. 59]

SameMinute == \A t \in past : t.minute = now.minute

\* Two times of one minute.
Near(t, u) ==
  /\ t.year = u.year /\ t.month = u.month /\ t.day = u.day
  /\ t.hour = u.hour /\ t.minute = u.minute

\* While no minute ends, only seconds pass, and the registers read belong to one
\* minute.
InMinute ==
  /\ past \subseteq Time /\ raw \in Seq(Int)
  /\ Readable(chip.binary, chip.hours24, now.hour)
  /\ \A t \in past : Near(t, now)
  /\ \A n \in 1 .. Len(raw) : \E t \in past : raw[n] = Clock!Register(t, Clock!Reads[n])
  /\ shown # <<>> => \E t \in past : shown[1] = Clock!Beijing(t)

ClockInv ==
  /\ chip \in [binary : BOOLEAN, hours24 : BOOLEAN]
  /\ now \in past
  /\ SameMinute => InMinute

LEMMA ClockBegins ==
  ASSUME Clock!Init, \A c \in Chips : Readable(c.binary, c.hours24, c.start.hour)
  PROVE  ClockInv
<1>1. PICK c \in Chips : chip = [binary |-> c.binary, hours24 |-> c.hours24] /\ now = c.start
  BY DEF Clock!Init
<1>2. past = {now} /\ raw = <<>> /\ shown = <<>>
  BY DEF Clock!Init
<1>3. now \in Time /\ chip \in [binary : BOOLEAN, hours24 : BOOLEAN]
  BY <1>1, ChipAssumption DEF Time
<1>4. Readable(chip.binary, chip.hours24, now.hour)
  BY <1>1
<1>5. InMinute
  BY <1>2, <1>3, <1>4 DEF InMinute, Near
<1> QED BY <1>2, <1>3, <1>5 DEF ClockInv

\* The second after begins the next minute, or is of the same one.
LEMMA SecondPasses ==
  ASSUME NEW t \in Time, Clock!SecondAfter(t).minute = t.minute
  PROVE  /\ Clock!SecondAfter(t) = [t EXCEPT !.second = t.second + 1]
         /\ Clock!SecondAfter(t) \in Time /\ Near(Clock!SecondAfter(t), t)
<1>1. t.second < 59
  <2> SUFFICES ASSUME ~ (t.second < 59) PROVE FALSE
    OBVIOUS
  <2>1. CASE t.minute < 59
    <3>1. Clock!SecondAfter(t).minute = t.minute + 1
      BY <2>1 DEF Clock!SecondAfter, Time
    <3> QED BY <3>1 DEF Time
  <2>2. CASE ~ (t.minute < 59)
    <3>1. t.minute = 59
      BY <2>2 DEF Time
    <3>2. CASE t.hour < 23
      <4>1. Clock!SecondAfter(t).minute = 0
        BY <2>2, <3>2 DEF Clock!SecondAfter, Time
      <4> QED BY <3>1, <4>1
    <3>3. CASE ~ (t.hour < 23)
      <4> DEFINE u == [t EXCEPT !.second = 0, !.minute = 0, !.hour = 0]
                 v == [t EXCEPT !.second = 0]
                 w == [v EXCEPT !.minute = 0]
                 At(h, m, s) == [year |-> t.year, month |-> t.month, day |-> t.day,
                                 hour |-> h, minute |-> m, second |-> s]
      <4>2. u = At(0, 0, 0)
        <5>1. t = At(t.hour, t.minute, t.second)
          BY DEF Time
        <5>2. u = [w EXCEPT !.hour = 0]
          OBVIOUS
        <5>3. v = At(t.hour, t.minute, 0)
          BY <5>1
        <5> HIDE DEF v
        <5>4. w = At(t.hour, 0, 0)
          BY <5>3
        <5> HIDE DEF w
        <5>5. [w EXCEPT !.hour = 0] = At(0, 0, 0)
          BY <5>4
        <5> QED BY <5>2, <5>5
      <4>3. Clock!SecondAfter(t) = Clock!DayAfter(u)
        BY <2>2, <3>3 DEF Clock!SecondAfter
      <4> HIDE DEF u
      <4>4. Clock!DayAfter(u).minute = 0
        BY <4>2 DEF Clock!DayAfter
      <4> QED BY <3>1, <4>3, <4>4
    <3> QED BY <3>2, <3>3
  <2> QED BY <2>1, <2>2
<1>2. Clock!SecondAfter(t) = [t EXCEPT !.second = t.second + 1]
  BY <1>1 DEF Clock!SecondAfter
<1>3. t.second + 1 \in 0 .. 59
  BY <1>1 DEF Time
<1>4. [t EXCEPT !.second = t.second + 1] \in Time /\ Near([t EXCEPT !.second = t.second + 1], t)
  BY <1>3 DEF Time, Near
<1> QED BY <1>2, <1>4

\* The registers of a chip that can be read give back what it counts.
LEMMA Century ==
  ASSUME NEW y \in 2000 .. 2099
  PROVE  y % 100 = y - 2000 /\ y \div 100 = 20
<1>1. y \in Nat /\ y - 2000 \in Nat /\ y - 2000 < 100 /\ y = 20 * 100 + (y - 2000)
  OBVIOUS
<1> QED BY <1>1, RemainderIs

LEMMA DecimalDigits ==
  ASSUME NEW n \in 0 .. 99
  PROVE  Clock!bcd_to_bin((n \div 10) * 16 + (n % 10)) = n
<1> DEFINE d == n \div 10
           e == n % 10
<1>1. d \in Nat /\ e \in 0 .. 9 /\ n = d * 10 + e
  OBVIOUS
<1> HIDE DEF d, e
<1>2. (d * 16 + e) % 16 = e /\ (d * 16 + e) \div 16 = d
  BY <1>1
<1> QED BY <1>1, <1>2 DEF d, e, Clock!bcd_to_bin

LEMMA Decodes ==
  ASSUME chip \in [binary : BOOLEAN, hours24 : BOOLEAN], NEW n \in 0 .. 99
  PROVE  Clock!Decoded(Clock!Encoded(n)) = n
<1>1. CASE chip.binary
  BY <1>1 DEF Clock!Decoded, Clock!Encoded
<1>2. CASE ~ chip.binary
  <2>1. Clock!Encoded(n) = (n \div 10) * 16 + (n % 10)
    BY <1>2 DEF Clock!Encoded
  <2>2. Clock!Decoded(Clock!Encoded(n)) = Clock!bcd_to_bin((n \div 10) * 16 + (n % 10))
    BY <1>2, <2>1 DEF Clock!Decoded
  <2> QED BY <2>2, DecimalDigits
<1> QED BY <1>1, <1>2

LEMMA DecodesHour ==
  ASSUME chip \in [binary : BOOLEAN, hours24 : BOOLEAN], NEW h \in 0 .. 23,
         Readable(chip.binary, chip.hours24, h)
  PROVE  Clock!Hour(Clock!Decoded(Clock!HourRegister(h))) = h
<1>1. CASE chip.hours24
  <2>1. Clock!Decoded(Clock!HourRegister(h)) = h
    BY <1>1, Decodes DEF Clock!HourRegister
  <2> QED BY <1>1, <2>1 DEF Clock!Hour
<1>2. CASE ~ chip.hours24
  <2>1. chip.binary /\ h % 12 # 0
    BY <1>2 DEF Readable
  <2>2. Clock!HourRegister(h) = (h % 12) + (IF h >= 12 THEN 128 ELSE 0)
    BY <1>2, <2>1 DEF Clock!HourRegister, Clock!Encoded
  <2>3. Clock!Decoded(Clock!HourRegister(h)) = Clock!HourRegister(h)
    BY <2>1 DEF Clock!Decoded
  <2>4. CASE h >= 12
    <3>1. h % 12 = h - 12
      BY <2>4
    <3>2. Clock!HourRegister(h) = h + 116
      BY <2>2, <2>4, <3>1
    <3>3. ((h + 116 - 128) + 12) % 24 = h
      OBVIOUS
    <3> QED BY <1>2, <2>3, <2>4, <3>2, <3>3 DEF Clock!Hour
  <2>5. CASE ~ (h >= 12)
    <3>1. h % 12 = h
      BY <2>5
    <3>2. Clock!HourRegister(h) = h
      BY <2>2, <2>5, <3>1
    <3> QED BY <1>2, <2>3, <2>5, <3>2 DEF Clock!Hour
  <2> QED BY <2>4, <2>5
<1> QED BY <1>1, <1>2

\* The carries of cmd_time are the calendar's, in this century.
LEMMA Carries ==
  ASSUME NEW t \in Time
  PROVE  Clock!Carry(t) = Clock!Beijing(t)
<1>1. CASE t.hour + 8 < 24
  BY <1>1 DEF Clock!Carry, Clock!Beijing
<1>2. CASE ~ (t.hour + 8 < 24)
  <2> DEFINE u == [t EXCEPT !.hour = t.hour - 16]
             most == Clock!MonthLength(t.year, t.month)
  <2>1. Clock!Beijing(t) = Clock!DayAfter(u)
    BY <1>2 DEF Clock!Beijing
  <2>2. /\ u.year = t.year /\ u.month = t.month /\ u.day = t.day
        /\ u = [year |-> t.year, month |-> t.month, day |-> t.day,
                hour |-> t.hour - 16, minute |-> t.minute, second |-> t.second]
    BY DEF Time
  <2>3. Clock!days_in_month(t) = most /\ most \in Int
    <3>1. Clock!LeapYear(t.year) <=> t.year % 4 = 0
      BY DEF Clock!LeapYear, Time
    <3> QED BY <3>1 DEF Clock!days_in_month, Clock!MonthLength
  <2> HIDE DEF most
  <2> DEFINE day == [t EXCEPT !.hour = t.hour + 8 - 24, !.day = t.day + 1]
             month == [day EXCEPT !.day = 1, !.month = day.month + 1]
  <2>8. Clock!Carry(t) = IF day.day <= Clock!days_in_month(t) THEN day
                         ELSE IF month.month <= 12 THEN month
                         ELSE [month EXCEPT !.month = 1, !.year = month.year + 1]
    BY <1>2 DEF Clock!Carry
  <2> DEFINE h == t.hour + 8 - 24
             On(y, mo, d) == [year |-> y, month |-> mo, day |-> d,
                              hour |-> h, minute |-> t.minute, second |-> t.second]
  <2>9. /\ day = On(t.year, t.month, t.day + 1)
        /\ month = On(t.year, t.month + 1, 1)
        /\ [month EXCEPT !.month = 1, !.year = month.year + 1] = On(t.year + 1, 1, 1)
    <3> HIDE DEF h
    <3> DEFINE d == t.day + 1
    <3> HIDE DEF d
    <3>1. day = On(t.year, t.month, d)
      <4> DEFINE v == [t EXCEPT !.hour = h]
      <4>1. v = On(t.year, t.month, t.day)
        BY DEF Time
      <4>2. day = [v EXCEPT !.day = d]
        BY DEF h, d
      <4> HIDE DEF v
      <4>3. [v EXCEPT !.day = d] = On(t.year, t.month, d)
        BY <4>1
      <4> QED BY <4>2, <4>3
    <3> HIDE DEF day
    <3>2. day.month = t.month /\ [day EXCEPT !.day = 1] = On(t.year, t.month, 1)
      BY <3>1
    <3> DEFINE m == t.month + 1
    <3>3. month = [On(t.year, t.month, 1) EXCEPT !.month = m]
      BY <3>2
    <3> HIDE DEF m, month
    <3>4. month = On(t.year, m, 1)
      BY <3>3
    <3>5. month.year = t.year /\ [month EXCEPT !.month = 1] = On(t.year, 1, 1)
      BY <3>4
    <3> DEFINE y == t.year + 1
    <3>6. [month EXCEPT !.month = 1, !.year = month.year + 1]
            = [On(t.year, 1, 1) EXCEPT !.year = y]
      BY <3>5
    <3> HIDE DEF y
    <3>7. [On(t.year, 1, 1) EXCEPT !.year = y] = On(y, 1, 1)
      OBVIOUS
    <3> QED BY <3>1, <3>4, <3>6, <3>7 DEF d, m, y
  <2> HIDE DEF day, month
  <2>4. /\ t.hour + 8 - 24 = t.hour - 16
        /\ t.day + 1 <= most <=> t.day < most
        /\ t.month + 1 <= 12 <=> t.month < 12
    BY <2>3 DEF Time
  <2>5. CASE t.day < most
    <3>1. Clock!DayAfter(u) = [u EXCEPT !.day = t.day + 1]
      BY <2>2, <2>5 DEF Clock!DayAfter, most
    <3>2. Clock!Carry(t) = day
      BY <2>3, <2>4, <2>5, <2>8, <2>9
    <3> QED BY <2>1, <2>2, <2>4, <2>9, <3>1, <3>2
  <2>6. CASE ~ (t.day < most) /\ t.month < 12
    <3>1. Clock!DayAfter(u) = [u EXCEPT !.day = 1, !.month = t.month + 1]
      BY <2>2, <2>6 DEF Clock!DayAfter, most
    <3>2. Clock!Carry(t) = month
      BY <2>3, <2>4, <2>6, <2>8, <2>9
    <3> QED BY <2>1, <2>2, <2>4, <2>9, <3>1, <3>2
  <2>7. CASE ~ (t.day < most) /\ ~ (t.month < 12)
    <3>1. Clock!DayAfter(u) = [u EXCEPT !.day = 1, !.month = 1, !.year = t.year + 1]
      BY <2>2, <2>7 DEF Clock!DayAfter, most
    <3>2. Clock!Carry(t) = [month EXCEPT !.month = 1, !.year = month.year + 1]
      BY <2>3, <2>4, <2>7, <2>8, <2>9
    <3> QED BY <2>1, <2>2, <2>4, <2>9, <3>1, <3>2
  <2> QED BY <2>5, <2>6, <2>7
<1> QED BY <1>1, <1>2

\* The order of the reads.
LEMMA ReadsAre ==
  ASSUME chip \in [binary : BOOLEAN, hours24 : BOOLEAN]
  PROVE  /\ Len(Clock!Reads) = IF chip.binary THEN 8 ELSE 9
         /\ Clock!Reads[1] = "second" /\ Clock!Reads[2] = "minute" /\ Clock!Reads[3] = "hour"
         /\ Clock!Reads[4] = "day" /\ Clock!Reads[5] = "month" /\ Clock!Reads[6] = "year"
         /\ Clock!Reads[7] = "century" /\ Clock!Reads[8] = "year"
         /\ ~ chip.binary => Clock!Reads[9] = "century"
<1>1. CASE chip.binary
  BY <1>1 DEF Clock!Reads
<1>2. CASE ~ chip.binary
  BY <1>2 DEF Clock!Reads
<1> QED BY <1>1, <1>2

\* What was read within a minute is a time of that minute.
LEMMA ReadsTime ==
  ASSUME ClockInv, InMinute, Len(raw) = Len(Clock!Reads)
  PROVE  Clock!rtc_get_time(raw) \in past
<1>1. chip \in [binary : BOOLEAN, hours24 : BOOLEAN] /\ now \in past /\ now \in Time
  BY DEF ClockInv, InMinute
<1>0. \A n \in {1, 2, 3, 4, 5, 8} : n \in 1 .. Len(raw)
  BY <1>1, ReadsAre
<1>2. PICK t \in past : raw[1] = Clock!Register(t, Clock!Reads[1])
  BY <1>0 DEF InMinute
<1>3. t \in Time /\ Near(t, now)
  BY <1>2 DEF InMinute
<1>4. ASSUME NEW u \in past
      PROVE  /\ u.year = t.year /\ u.month = t.month /\ u.day = t.day
             /\ u.hour = t.hour /\ u.minute = t.minute
  BY <1>3 DEF InMinute, Near
<1>5. /\ raw[2] = Clock!Encoded(t.minute) /\ raw[4] = Clock!Encoded(t.day)
      /\ raw[5] = Clock!Encoded(t.month)
  <2>1. raw[2] = Clock!Encoded(t.minute)
    <3>1. PICK u \in past : raw[2] = Clock!Register(u, Clock!Reads[2])
      BY <1>0 DEF InMinute
    <3>2. raw[2] = Clock!Encoded(u.minute)
      BY <1>1, <3>1, ReadsAre DEF Clock!Register
    <3> QED BY <1>4, <3>2
  <2>2. raw[4] = Clock!Encoded(t.day)
    <3>1. PICK u \in past : raw[4] = Clock!Register(u, Clock!Reads[4])
      BY <1>0 DEF InMinute
    <3>2. raw[4] = Clock!Encoded(u.day)
      BY <1>1, <3>1, ReadsAre DEF Clock!Register
    <3> QED BY <1>4, <3>2
  <2>3. raw[5] = Clock!Encoded(t.month)
    <3>1. PICK u \in past : raw[5] = Clock!Register(u, Clock!Reads[5])
      BY <1>0 DEF InMinute
    <3>2. raw[5] = Clock!Encoded(u.month)
      BY <1>1, <3>1, ReadsAre DEF Clock!Register
    <3> QED BY <1>4, <3>2
  <2> QED BY <2>1, <2>2, <2>3
<1>6. raw[1] = Clock!Encoded(t.second)
  BY <1>1, <1>2, ReadsAre DEF Clock!Register
<1>7. raw[3] = Clock!HourRegister(t.hour)
  <2>1. PICK u \in past : raw[3] = Clock!Register(u, Clock!Reads[3])
    BY <1>0 DEF InMinute
  <2>2. raw[3] = Clock!HourRegister(u.hour)
    BY <1>1, <2>1, ReadsAre DEF Clock!Register
  <2> QED BY <1>4, <2>2
<1>8. raw[8] = Clock!Encoded(t.year % 100)
  <2>1. PICK u \in past : raw[8] = Clock!Register(u, Clock!Reads[8])
    BY <1>0 DEF InMinute
  <2>2. raw[8] = Clock!Encoded(u.year % 100)
    BY <1>1, <2>1, ReadsAre DEF Clock!Register
  <2> QED BY <1>4, <2>2
<1>9. ~ chip.binary => raw[9] = Clock!Encoded(t.year \div 100)
  <2> SUFFICES ASSUME ~ chip.binary PROVE raw[9] = Clock!Encoded(t.year \div 100)
    OBVIOUS
  <2>0. 9 \in 1 .. Len(raw)
    <3>1. Len(raw) = 9
      BY <1>1, ReadsAre
    <3> QED BY <3>1
  <2>1. PICK u \in past : raw[9] = Clock!Register(u, Clock!Reads[9])
    BY <2>0 DEF InMinute
  <2>2. raw[9] = Clock!Encoded(u.year \div 100)
    BY <1>1, <2>1, ReadsAre DEF Clock!Register
  <2> QED BY <1>4, <2>2
<1>10. Clock!Year(raw) = t.year
  <2> DEFINE y == t.year
  <2>0. y \in 2000 .. 2099
    BY <1>3 DEF Time
  <2> HIDE DEF y
  <2>1. y % 100 = y - 2000 /\ y \div 100 = 20
    BY <2>0, Century
  <2>2. CASE chip.binary
    <3>1. Clock!Year(raw) = (y % 100) + 2000
      BY <1>8, <2>2 DEF Clock!Year, Clock!Encoded, y
    <3>2. (y - 2000) + 2000 = y
      BY <2>0
    <3> QED BY <2>1, <3>1, <3>2 DEF y
  <2>3. CASE ~ chip.binary
    <3> DEFINE a == y % 100
               b == y \div 100
    <3>1. a \in 0 .. 99 /\ b \in 0 .. 99 /\ a + b * 100 = y
      BY <2>0, <2>1
    <3>2. raw[8] = (a \div 10) * 16 + (a % 10) /\ raw[9] = (b \div 10) * 16 + (b % 10)
      BY <1>8, <1>9, <2>3 DEF Clock!Encoded, y
    <3> HIDE DEF a, b
    <3>3. Clock!bcd_to_bin(raw[8]) = a /\ Clock!bcd_to_bin(raw[9]) = b
      BY <3>1, <3>2, DecimalDigits
    <3>4. Clock!Year(raw) = a + b * 100
      BY <2>3, <3>3 DEF Clock!Year
    <3> QED BY <3>1, <3>4 DEF y
  <2> QED BY <2>2, <2>3
<1>11. Clock!Hour(Clock!Decoded(raw[3])) = t.hour
  <2>1. t.hour \in 0 .. 23 /\ Readable(chip.binary, chip.hours24, t.hour)
    BY <1>1, <1>3, <1>4 DEF Time, InMinute
  <2> QED BY <1>1, <1>7, <2>1, DecodesHour
<1>12. /\ Clock!Decoded(raw[1]) = t.second /\ Clock!Decoded(raw[2]) = t.minute
       /\ Clock!Decoded(raw[4]) = t.day /\ Clock!Decoded(raw[5]) = t.month
  <2>2. /\ t.second \in 0 .. 99 /\ t.minute \in 0 .. 99 /\ t.day \in 0 .. 99
        /\ t.month \in 0 .. 99
    BY <1>3 DEF Time
  <2> QED BY <1>1, <1>5, <1>6, <2>2, Decodes
<1>13. Clock!rtc_get_time(raw)
         = [second |-> t.second, minute |-> t.minute, hour |-> t.hour,
            day |-> t.day, month |-> t.month, year |-> t.year]
  BY <1>10, <1>11, <1>12 DEF Clock!rtc_get_time
<1>14. t = [second |-> t.second, minute |-> t.minute, hour |-> t.hour,
            day |-> t.day, month |-> t.month, year |-> t.year]
  BY <1>3 DEF Time
<1> QED BY <1>2, <1>13, <1>14

LEMMA ClockStep == ClockInv /\ [Clock!Next]_clock_vars => ClockInv'
<1> SUFFICES ASSUME ClockInv, [Clock!Next]_clock_vars PROVE ClockInv'
  OBVIOUS
<1>0. chip \in [binary : BOOLEAN, hours24 : BOOLEAN] /\ now \in past
  BY DEF ClockInv
<1>1. CASE Clock!Tick
  <2>1. /\ now' = Clock!SecondAfter(now) /\ past' = past \cup {now'}
        /\ UNCHANGED <<chip, raw, shown>> /\ shown = <<>>
    BY <1>1 DEF Clock!Tick
  <2>2. SameMinute' => InMinute'
    <3> SUFFICES ASSUME SameMinute' PROVE InMinute'
      OBVIOUS
    <3>1. now.minute = now'.minute /\ SameMinute
      BY <1>0, <2>1 DEF SameMinute
    <3>2. InMinute /\ now \in Time
      BY <1>0, <3>1 DEF ClockInv, InMinute
    <3>3. now' \in Time /\ Near(now', now)
      BY <2>1, <3>1, <3>2, SecondPasses
    <3>4. past' \subseteq Time /\ \A t \in past' : Near(t, now')
      BY <2>1, <3>2, <3>3 DEF InMinute, Near
    <3>5. Readable(chip'.binary, chip'.hours24, now'.hour)
      BY <2>1, <3>2, <3>3 DEF InMinute, Near
    <3>6. \A n \in 1 .. Len(raw) : \E t \in past' : raw[n] = Clock!Register(t, Clock!Reads[n])
      BY <2>1, <3>2 DEF InMinute
    <3>7. \A n, t : (Clock!Register(t, Clock!Reads[n]))' = Clock!Register(t, Clock!Reads[n])
      BY <2>1 DEF Clock!Register, Clock!Reads, Clock!HourRegister, Clock!Encoded
    <3>8. \A n \in 1 .. Len(raw') : \E t \in past' : raw'[n] = (Clock!Register(t, Clock!Reads[n]))'
      BY <2>1, <3>6, <3>7
    <3> QED BY <2>1, <3>2, <3>4, <3>5, <3>8 DEF InMinute
  <2> QED BY <1>0, <2>1, <2>2 DEF ClockInv
<1>2. CASE Clock!ReadCmos
  <2>1. /\ raw' = Append(raw, Clock!Register(now, Clock!Reads[Len(raw) + 1]))
        /\ UNCHANGED <<chip, now, past, shown>>
    BY <1>2 DEF Clock!ReadCmos
  <2>2. SameMinute' => InMinute'
    <3> SUFFICES ASSUME SameMinute PROVE InMinute'
      BY <2>1 DEF SameMinute
    <3> DEFINE next == Clock!Register(now, Clock!Reads[Len(raw) + 1])
    <3>1. InMinute /\ now \in Time /\ raw \in Seq(Int) /\ Len(raw) \in Nat
      BY <1>0 DEF ClockInv, InMinute
    <3>2. next \in Int
      <4>1. Len(raw) + 1 \in 1 .. 9 /\ (chip.binary => Len(raw) + 1 \in 1 .. 8)
        BY <1>0, <1>2, <3>1, ReadsAre DEF Clock!ReadCmos
      <4>2. Clock!Reads[Len(raw) + 1] \in
              {"second", "minute", "hour", "day", "month", "year", "century"}
        BY <1>0, <4>1, ReadsAre
      <4>3. \A k \in Nat : Clock!Encoded(k) \in Int
        BY DEF Clock!Encoded
      <4>4. Clock!HourRegister(now.hour) \in Int
        <5>1. now.hour \in 0 .. 23
          BY <3>1 DEF Time
        <5>2. now.hour \in Nat /\ now.hour % 12 \in Nat /\ 12 \in Nat
          BY <5>1
        <5>3. /\ Clock!Encoded(now.hour) \in Int /\ Clock!Encoded(now.hour % 12) \in Int
              /\ Clock!Encoded(12) \in Int
          BY <4>3, <5>2
        <5> QED BY <5>3 DEF Clock!HourRegister
      <4>5. /\ Clock!Encoded(now.second) \in Int /\ Clock!Encoded(now.minute) \in Int
            /\ Clock!Encoded(now.day) \in Int /\ Clock!Encoded(now.month) \in Int
            /\ Clock!Encoded(now.year % 100) \in Int /\ Clock!Encoded(now.year \div 100) \in Int
        <5>1. now.second \in Nat /\ now.minute \in Nat /\ now.day \in Nat /\ now.month \in Nat
          <6>1. /\ now.second \in 0 .. 59 /\ now.minute \in 0 .. 59
                /\ now.day \in 1 .. 31 /\ now.month \in 1 .. 12
            BY <3>1 DEF Time
          <6> QED BY <6>1
        <5>3. now.year \in 2000 .. 2099
          BY <3>1 DEF Time
        <5>2. now.year % 100 \in Nat /\ now.year \div 100 \in Nat
          BY <5>3
        <5> QED BY <4>3, <5>1, <5>2
      <4> QED BY <4>2, <4>4, <4>5 DEF Clock!Register
    <3> HIDE DEF next
    <3>3. /\ raw' \in Seq(Int) /\ Len(raw') = Len(raw) + 1 /\ raw'[Len(raw) + 1] = next
          /\ \A n \in 1 .. Len(raw) : raw'[n] = raw[n]
      <4>1. raw' = Append(raw, next)
        BY <2>1 DEF next
      <4> QED BY <3>1, <3>2, <4>1
    <3>4. \A n \in 1 .. Len(raw') :
            \E t \in past : raw'[n] = Clock!Register(t, Clock!Reads[n])
      <4> SUFFICES ASSUME NEW n \in 1 .. Len(raw')
                   PROVE  \E t \in past : raw'[n] = Clock!Register(t, Clock!Reads[n])
        OBVIOUS
      <4>1. CASE n = Len(raw) + 1
        BY <1>0, <3>3, <4>1 DEF next
      <4>2. CASE n # Len(raw) + 1
        <5>1. n \in 1 .. Len(raw)
          BY <3>1, <3>3, <4>2
        <5> QED BY <3>1, <3>3, <5>1 DEF InMinute
      <4> QED BY <4>1, <4>2
    <3>5. \A n, t : (Clock!Register(t, Clock!Reads[n]))' = Clock!Register(t, Clock!Reads[n])
      BY <2>1 DEF Clock!Register, Clock!Reads, Clock!HourRegister, Clock!Encoded
    <3> QED BY <2>1, <3>1, <3>3, <3>4, <3>5 DEF InMinute
  <2> QED BY <1>0, <2>1, <2>2 DEF ClockInv
<1>3. CASE Clock!Show
  <2>1. /\ Len(raw) = Len(Clock!Reads) /\ shown' = <<Clock!Carry(Clock!rtc_get_time(raw))>>
        /\ UNCHANGED <<chip, now, past, raw>>
    BY <1>3 DEF Clock!Show
  <2>2. SameMinute' => InMinute'
    <3> SUFFICES ASSUME SameMinute PROVE InMinute'
      BY <2>1 DEF SameMinute
    <3>1. InMinute
      BY DEF ClockInv
    <3>2. Clock!rtc_get_time(raw) \in past
      BY <2>1, <3>1, ReadsTime
    <3>3. shown'[1] = Clock!Beijing(Clock!rtc_get_time(raw))
      <4>1. Clock!rtc_get_time(raw) \in Time
        BY <3>1, <3>2 DEF InMinute
      <4> QED BY <2>1, <4>1, Carries
    <3>4. \A n, t : (Clock!Register(t, Clock!Reads[n]))' = Clock!Register(t, Clock!Reads[n])
      BY <2>1 DEF Clock!Register, Clock!Reads, Clock!HourRegister, Clock!Encoded
    <3> QED BY <2>1, <3>1, <3>2, <3>3, <3>4 DEF InMinute
  <2> QED BY <1>0, <2>1, <2>2 DEF ClockInv
<1>4. CASE UNCHANGED clock_vars
  <2>1. UNCHANGED <<chip, now, past, raw, shown>>
    BY <1>4 DEF clock_vars
  <2>2. \A n, t : (Clock!Register(t, Clock!Reads[n]))' = Clock!Register(t, Clock!Reads[n])
    BY <2>1 DEF Clock!Register, Clock!Reads, Clock!HourRegister, Clock!Encoded
  <2>3. InMinute => InMinute'
    BY <2>1, <2>2 DEF InMinute
  <2> QED BY <1>0, <2>1, <2>3 DEF ClockInv, SameMinute
<1> QED BY <1>1, <1>2, <1>3, <1>4 DEF Clock!Next

LEMMA ClockAlone ==
  /\ Init => (routine = "clock" => Clock!Init)
  /\ [Next]_vars => (routine' = "clock" => routine = "clock" /\ [Clock!Next]_clock_vars)
<1>1. Init => (routine = "clock" => Clock!Init)
  BY DEF Init
<1>2. [Next]_vars => (routine' = "clock" => routine = "clock" /\ [Clock!Next]_clock_vars)
  BY DEF Next, vars, Memmoves, Allocates, Clocks, Scans, Lists, Drives, Reading, Keep
<1> QED BY <1>1, <1>2

\* The time command shows the system's time eight hours ahead, as it was while it
\* ran, if no minute ended meanwhile and the chip is one that it can read.
THEOREM ShownWasNowHolds ==
  ASSUME \A c \in Chips : Readable(c.binary, c.hours24, c.start.hour)
  PROVE  Spec => []ShownWasNow
<1> DEFINE I == routine = "clock" => ClockInv
<1>1. Init => I
  BY ClockAlone, ClockBegins
<1>2. I /\ [Next]_vars => I'
  BY ClockAlone, ClockStep
<1>3. I => ShownWasNow
  BY DEF ShownWasNow, Clock!ShownWasNow, ClockInv, SameMinute, InMinute
<1> QED BY <1>1, <1>2, <1>3, PTL DEF Spec
=============================================================================
