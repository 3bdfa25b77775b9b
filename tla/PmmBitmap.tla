----------------------------- MODULE PmmBitmap -----------------------------
(***************************************************************************)
(* The bitmap page allocator of kernel/mem/pmm.cpp: init_pmm,              *)
(* pmm_alloc_page and pmm_free_page.  kmain has moved on to the buddy      *)
(* allocator and no longer calls it, but the code is still part of the     *)
(* kernel and says how it is to be used.                                   *)
(*                                                                         *)
(* Memory is counted in pages of the memory map's usable entries, which    *)
(* the boot loader aligns to pages and keeps away from page 0.             *)
(***************************************************************************)
EXTENDS Integers, FiniteSets

CONSTANTS
  MemoryMaps,  \* the sequences of usable entries [first, count] of the map
  PageSize     \* bytes in a page, each the bits of eight pages

Entries(map) == {map[n] : n \in DOMAIN map}
Pages(e) == e.first .. (e.first + e.count - 1)
Usable(map) == UNION {Pages(e) : e \in Entries(map)}

\* Every page below the highest usable address has a bit.
Ends(map) == {e.first + e.count : e \in Entries(map)}
IsHighest(map, top) == top \in Ends(map) /\ \A t \in Ends(map) : t <= top
Highest(map) == CHOOSE top \in Ends(map) : IsHighest(map, top)

BitmapBytes(total) == (total + 7) \div 8
BitmapPages(total) == (BitmapBytes(total) + PageSize - 1) \div PageSize

\* The first entry that is as long as the bitmap.
Home(map, total, e) ==
  \E n \in DOMAIN map :
    /\ e = map[n] /\ e.count * PageSize >= BitmapBytes(total)
    /\ \A m \in DOMAIN map : m < n => map[m].count * PageSize < BitmapBytes(total)

\* The map has usable entries, and one of them can hold the bitmap.
ASSUME MapAssumption ==
  /\ PageSize \in Nat \ {0}
  /\ \A map \in MemoryMaps :
       /\ \A e \in Entries(map) : e.first \in Nat \ {0} /\ e.count \in Nat \ {0}
       /\ \E top \in Ends(map) : IsHighest(map, top) /\ \E e \in Entries(map) : Home(map, top, e)

VARIABLES
  map,      \* the map init_pmm was given
  bits,     \* the pages whose bit is set: in use
  total,    \* total_pages
  home,     \* the pages the bitmap itself lies in
  last,     \* last_checked_page
  held,     \* pages callers own
  got       \* what pmm_alloc_page last returned: the page, or 0 for nullptr

bitmap_vars == <<map, bits, total, home, last, held, got>>

\* Mutant: the bitmap's own pages stay free.
InitPmmUnreserved ==
  /\ map \in MemoryMaps
  /\ total = Highest(map)
  /\ \E e \in Entries(map) :
       /\ Home(map, total, e)
       /\ home = e.first .. (e.first + BitmapPages(total) - 1)
  /\ bits = 0 .. (8 * BitmapBytes(total) - 1) \ Usable(map)
  /\ last = 0 /\ held = {} /\ got = 0

\* init_pmm: all bits set, those of usable pages cleared, and those of the
\* bitmap's own pages set again.
InitPmm ==
  /\ map \in MemoryMaps
  /\ total = Highest(map)
  /\ \E e \in Entries(map) :
       /\ Home(map, total, e)
       /\ home = e.first .. (e.first + BitmapPages(total) - 1)
  /\ bits = (0 .. (8 * BitmapBytes(total) - 1) \ Usable(map)) \cup home
  /\ last = 0 /\ held = {} /\ got = 0

\* Clear bits from a up to b.
Clear(a, b) == {p \in a .. (b - 1) : p \notin bits}

Least(s) == CHOOSE p \in s : \A q \in s : p <= q

\* Mutant: the scan starts behind the hint, and is not repeated from 0.
AllocPageOnce ==
  /\ LET found == Clear(last + 1, total)
     IN  IF found = {}
         THEN got' = 0 /\ UNCHANGED <<bits, last, held>>
         ELSE /\ got' = Least(found) /\ bits' = bits \cup {got'}
              /\ last' = got' + 1 /\ held' = held \cup {got'}
  /\ UNCHANGED <<map, total, home>>

\* pmm_alloc_page: from the hint on, then from the beginning.
AllocPage ==
  /\ LET ahead == Clear(last, total)
         found == IF ahead # {} THEN ahead ELSE Clear(0, last)
     IN  IF found = {}
         THEN got' = 0 /\ UNCHANGED <<bits, last, held>>
         ELSE /\ got' = Least(found) /\ bits' = bits \cup {got'}
              /\ last' = got' + 1 /\ held' = held \cup {got'}
  /\ UNCHANGED <<map, total, home>>

\* pmm_free_page, called with a page the caller owns.
FreePage ==
  /\ \E p \in held :
       /\ held' = held \ {p} /\ bits' = bits \ {p}
       /\ last' = IF p < last THEN p ELSE last
  /\ UNCHANGED <<map, total, home, got>>

Call == AllocPage \/ FreePage

BitmapSpec == InitPmm /\ [][Call]_bitmap_vars

-----------------------------------------------------------------------------
\* The types of the allocator's state.
BitmapTypeOK ==
  /\ map \in MemoryMaps /\ total \in Nat /\ last \in 0 .. total
  /\ bits \subseteq Nat /\ home \subseteq Nat /\ held \subseteq Nat /\ got \in Nat

\* The bitmap tells the truth: a page below the top is marked exactly when it
\* is not usable memory, is part of the bitmap, or is held by a caller; and
\* no caller holds a page of the first two kinds (init_pmm's order of sets
\* and clears).
BitsExact ==
  /\ held \subseteq Usable(map) \ home
  /\ \A p \in 0 .. (total - 1) :
       p \in bits <=> p \notin Usable(map) \/ p \in home \/ p \in held

\* No free page lies below last_checked_page, so that the scan from the hint
\* misses none and the second scan never finds one.
HintSound == \A p \in 0 .. (last - 1) : p \in bits

\* pmm_alloc_page hands out a page nobody had, and fails only when every
\* usable page outside the bitmap is held.
AllocHonest ==
  [][AllocPage => \/ got' \notin bits /\ held' = held \cup {got'} /\ got' # 0
                  \/ got' = 0 /\ Usable(map) \ home \subseteq held]_bitmap_vars
=============================================================================
