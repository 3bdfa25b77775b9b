------------------------------- MODULE Buddy -------------------------------
(***************************************************************************)
(* The buddy allocator of kernel/mem/pmm.cpp: buddy_init, buddy_alloc and  *)
(* buddy_free, one action per iteration of their loops.                    *)
(*                                                                         *)
(* Addresses and lengths are in pages; order k here is the code's order    *)
(* MIN_ORDER + k.  A free list is the SET of its blocks: which block of a  *)
(* list is taken is left open (BuddyLinks gives the linked lists and their *)
(* order).  The memory map is what limine hands over: page-aligned usable  *)
(* entries that do not overlap, none at address 0.                         *)
(***************************************************************************)
EXTENDS Integers, FiniteSets, Sequences

CONSTANTS
  MaxOrder,      \* MAX_ORDER - MIN_ORDER
  SizeForOrder,  \* size_for_order, in pages
  MemoryMaps,    \* the memory maps the machine may boot with
  Requests       \* the sizes callers pass to buddy_alloc, in pages

Orders == 0 .. MaxOrder

Usable == 1      \* the map's type for available memory

ValidMap(m) ==
  /\ m \in Seq([base : Nat, length : Nat, type : Nat])
  /\ \A i \in DOMAIN m : m[i].type = Usable => m[i].base > 0
  /\ \A i, j \in DOMAIN m :
       (i # j /\ m[i].type = Usable /\ m[j].type = Usable)
         => \/ m[i].base + m[i].length <= m[j].base
            \/ m[j].base + m[j].length <= m[i].base

ASSUME MaxOrderAssumption == MaxOrder \in Nat
ASSUME SizeAssumption ==
  /\ SizeForOrder \in [Orders -> Nat \ {0}]
  /\ SizeForOrder[0] = 1
  /\ \A k \in Orders : k + 1 \in Orders
       => SizeForOrder[k + 1] = 2 * SizeForOrder[k]
ASSUME MapAssumption == \A m \in MemoryMaps : ValidMap(m)
ASSUME RequestAssumption == Requests \subseteq Nat

VARIABLES
  mmap,                       \* boot_info->memory_map_addr
  free_list,                  \* per order, the addresses of its free blocks
  total_physical_pages,
  buddy_used_pages,
  buddy_total_managed_pages,
  pc,                         \* where the one running call is
  i,                          \* buddy_init: the entry it is at
  current, remaining,         \* buddy_init: what is left of that entry
  size,                       \* the argument of the running call
  block,                      \* the block in the running call's hands
  order,                      \* its order, or the list being searched
  held                        \* blocks returned to callers and not yet freed

counters == <<total_physical_pages, buddy_used_pages, buddy_total_managed_pages>>
initvars == <<i, current, remaining>>
callvars == <<size, block, order>>
vars == <<mmap, free_list, counters, pc, initvars, callvars, held>>

-----------------------------------------------------------------------------
\* get_order: the least order whose block holds n pages.
GetOrder(n) ==
  IF \E k \in Orders : n <= SizeForOrder[k]
    THEN CHOOSE k \in Orders :
           /\ n <= SizeForOrder[k]
           /\ \A l \in Orders : n <= SizeForOrder[l] => k <= l
    ELSE MaxOrder + 1

\* get_buddy: flips the address bit of that order.
GetBuddy(addr, k) ==
  IF (addr \div SizeForOrder[k]) % 2 = 0
    THEN addr + SizeForOrder[k]
    ELSE addr - SizeForOrder[k]

Lower(a, b) == IF a < b THEN a ELSE b

Fits(k) == SizeForOrder[k] <= remaining /\ current % SizeForOrder[k] = 0

CarveOrder == CHOOSE k \in Orders : Fits(k) /\ \A l \in Orders : Fits(l) => l <= k

-----------------------------------------------------------------------------
Init ==
  /\ mmap \in MemoryMaps
  /\ free_list = [k \in Orders |-> {}]
  /\ total_physical_pages = 0
  /\ buddy_used_pages = 0
  /\ buddy_total_managed_pages = 0
  /\ pc = "count"
  /\ i = 1 /\ current = 0 /\ remaining = 0
  /\ size = 0 /\ block = 0 /\ order = 0
  /\ held = {}

\* buddy_init, first pass over the map.
CountEntry ==
  /\ pc = "count" /\ i <= Len(mmap)
  /\ total_physical_pages' = total_physical_pages
       + (IF mmap[i].type = Usable THEN mmap[i].length ELSE 0)
  /\ i' = i + 1
  /\ UNCHANGED <<mmap, free_list, buddy_used_pages, buddy_total_managed_pages,
                 pc, current, remaining, callvars, held>>

CountDone ==
  /\ pc = "count" /\ i > Len(mmap)
  /\ free_list' = [k \in Orders |-> {}]
  /\ i' = 1 /\ pc' = "region"
  /\ UNCHANGED <<mmap, counters, current, remaining, callvars, held>>

\* buddy_init, second pass: skip an entry, or start carving it.
SkipEntry ==
  /\ pc = "region" /\ i <= Len(mmap) /\ mmap[i].type # Usable
  /\ i' = i + 1
  /\ UNCHANGED <<mmap, free_list, counters, pc, current, remaining, callvars, held>>

StartEntry ==
  /\ pc = "region" /\ i <= Len(mmap) /\ mmap[i].type = Usable
  /\ current' = mmap[i].base
  /\ remaining' = mmap[i].length
  /\ pc' = "carve"
  /\ UNCHANGED <<mmap, free_list, counters, i, callvars, held>>

CarveBlock ==
  /\ pc = "carve" /\ remaining >= 1
  /\ free_list' = [free_list EXCEPT ![CarveOrder] = @ \cup {current}]
  /\ buddy_total_managed_pages' = buddy_total_managed_pages + SizeForOrder[CarveOrder]
  /\ current' = current + SizeForOrder[CarveOrder]
  /\ remaining' = remaining - SizeForOrder[CarveOrder]
  /\ UNCHANGED <<mmap, total_physical_pages, buddy_used_pages, pc, i, callvars, held>>

EndEntry ==
  /\ pc = "carve" /\ remaining < 1
  /\ i' = i + 1 /\ pc' = "region"
  /\ UNCHANGED <<mmap, free_list, counters, current, remaining, callvars, held>>

InitDone ==
  /\ pc = "region" /\ i > Len(mmap)
  /\ pc' = "idle"
  /\ UNCHANGED <<mmap, free_list, counters, initvars, callvars, held>>

-----------------------------------------------------------------------------
\* The running call returns: its local variables are gone.
Return == pc' = "idle" /\ size' = 0 /\ block' = 0 /\ order' = 0

\* buddy_alloc: scan the lists from the request's order upwards.
AllocEnter(n) ==
  /\ pc = "idle"
  /\ size' = n /\ order' = GetOrder(n)
  /\ pc' = "search"
  /\ UNCHANGED <<mmap, free_list, counters, initvars, block, held>>

SearchNext ==
  /\ pc = "search" /\ order <= MaxOrder
  /\ free_list[order] = {}
  /\ order' = order + 1
  /\ UNCHANGED <<mmap, free_list, counters, pc, initvars, size, block, held>>

TakeBlock ==
  /\ pc = "search" /\ order <= MaxOrder
  /\ \E b \in free_list[order] :
       /\ block' = b
       /\ free_list' = [free_list EXCEPT ![order] = @ \ {b}]
  /\ pc' = "split"
  /\ UNCHANGED <<mmap, counters, initvars, size, order, held>>

\* Mutant: the scan stops one list early (i < MAX_ORDER).
AllocFailEarly ==
  /\ pc = "search" /\ order >= MaxOrder
  /\ Return
  /\ UNCHANGED <<mmap, free_list, counters, initvars, held>>

AllocFail ==
  /\ pc = "search" /\ order > MaxOrder
  /\ Return
  /\ UNCHANGED <<mmap, free_list, counters, initvars, held>>

\* Mutant: the upper half is not put on its list.
SplitBlockLeaks ==
  /\ pc = "split" /\ order > GetOrder(size)
  /\ order' = order - 1
  /\ UNCHANGED <<mmap, free_list, counters, pc, initvars, size, block, held>>

SplitBlock ==
  /\ pc = "split" /\ order > GetOrder(size)
  /\ order' = order - 1
  /\ free_list' = [free_list EXCEPT ![order - 1] = @ \cup {block + SizeForOrder[order - 1]}]
  /\ UNCHANGED <<mmap, counters, pc, initvars, size, block, held>>

\* Mutant: counts the pages asked for, not those of the block.
AllocReturnRequested ==
  /\ pc = "split" /\ order = GetOrder(size)
  /\ buddy_used_pages' = buddy_used_pages + size
  /\ held' = held \cup {[addr |-> block, size |-> size]}
  /\ Return
  /\ UNCHANGED <<mmap, free_list, total_physical_pages, buddy_total_managed_pages,
                 initvars>>

AllocReturn ==
  /\ pc = "split" /\ order = GetOrder(size)
  /\ buddy_used_pages' = buddy_used_pages + SizeForOrder[order]
  /\ held' = held \cup {[addr |-> block, size |-> size]}
  /\ Return
  /\ UNCHANGED <<mmap, free_list, total_physical_pages, buddy_total_managed_pages,
                 initvars>>

\* buddy_free: called by the holder, with the size it asked for.
FreeEnter(h) ==
  /\ pc = "idle"
  /\ held' = held \ {h}
  /\ size' = h.size /\ block' = h.addr /\ order' = GetOrder(h.size)
  /\ buddy_used_pages' = buddy_used_pages - SizeForOrder[GetOrder(h.size)]
  /\ pc' = "merge"
  /\ UNCHANGED <<mmap, free_list, total_physical_pages, buddy_total_managed_pages,
                 initvars>>

\* Mutant: the merged buddy stays on its list.
MergeBuddyKeeps ==
  /\ pc = "merge" /\ order < MaxOrder
  /\ GetBuddy(block, order) \in free_list[order]
  /\ block' = Lower(block, GetBuddy(block, order))
  /\ order' = order + 1
  /\ UNCHANGED <<mmap, free_list, counters, pc, initvars, size, held>>

MergeBuddy ==
  /\ pc = "merge" /\ order < MaxOrder
  /\ GetBuddy(block, order) \in free_list[order]
  /\ free_list' = [free_list EXCEPT ![order] = @ \ {GetBuddy(block, order)}]
  /\ block' = Lower(block, GetBuddy(block, order))
  /\ order' = order + 1
  /\ UNCHANGED <<mmap, counters, pc, initvars, size, held>>

\* Mutant: inserts without looking for the buddy.
InsertBlockUnmerged ==
  /\ pc = "merge"
  /\ free_list' = [free_list EXCEPT ![order] = @ \cup {block}]
  /\ Return
  /\ UNCHANGED <<mmap, counters, initvars, held>>

InsertBlock ==
  /\ pc = "merge"
  /\ order = MaxOrder \/ GetBuddy(block, order) \notin free_list[order]
  /\ free_list' = [free_list EXCEPT ![order] = @ \cup {block}]
  /\ Return
  /\ UNCHANGED <<mmap, counters, initvars, held>>

-----------------------------------------------------------------------------
BuddyInit ==
  \/ CountEntry \/ CountDone \/ SkipEntry \/ StartEntry
  \/ CarveBlock \/ EndEntry \/ InitDone

Advance ==
  \/ BuddyInit
  \/ SearchNext \/ TakeBlock \/ AllocFail \/ SplitBlock \/ AllocReturn
  \/ MergeBuddy \/ InsertBlock

Next ==
  \/ Advance
  \/ \E n \in Requests : AllocEnter(n)
  \/ \E h \in held : FreeEnter(h)

Spec == Init /\ [][Next]_vars

-----------------------------------------------------------------------------
Booting == pc \in {"count", "region", "carve"}

UsableEntries == {e \in DOMAIN mmap : mmap[e].type = Usable}

Pages(addr, n) == addr .. (addr + n - 1)

Region(e) == Pages(mmap[e].base, mmap[e].length)

UsablePages == UNION {Region(e) : e \in UsableEntries}

FreePages ==
  UNION {UNION {Pages(a, SizeForOrder[k]) : a \in free_list[k]} : k \in Orders}

BlockLength(h) == SizeForOrder[GetOrder(h.size)]

HeldPages == UNION {Pages(h.addr, BlockLength(h)) : h \in held}

InHand == pc \in {"split", "merge"}

HandPages == IF InHand THEN Pages(block, SizeForOrder[order]) ELSE {}

Blocks == [addr : Nat, size : {n \in Requests : GetOrder(n) \in Orders}]

\* The types of the allocator's variables.
TypeOK ==
  /\ mmap \in MemoryMaps
  /\ free_list \in [Orders -> SUBSET Nat]
  /\ total_physical_pages \in Nat
  /\ buddy_used_pages \in Int
  /\ buddy_total_managed_pages \in Nat
  /\ pc \in {"count", "region", "carve", "idle", "search", "split", "merge"}
  /\ i \in Nat \ {0} /\ current \in Nat /\ remaining \in Nat
  /\ size \in Nat /\ block \in Nat /\ order \in 0 .. (MaxOrder + 1)
  /\ held \subseteq Blocks

Apart(a, m, b, n) == a + m <= b \/ b + n <= a

FreeApart ==
  \A k, l \in Orders : \A a \in free_list[k], b \in free_list[l] :
    (k = l /\ a = b) \/ Apart(a, SizeForOrder[k], b, SizeForOrder[l])

FreeHeldApart ==
  \A k \in Orders : \A a \in free_list[k], h \in held :
    Apart(a, SizeForOrder[k], h.addr, BlockLength(h))

HeldApart ==
  \A g, h \in held : g = h \/ Apart(g.addr, BlockLength(g), h.addr, BlockLength(h))

HandApart ==
  InHand =>
    /\ \A k \in Orders : \A a \in free_list[k] :
         Apart(a, SizeForOrder[k], block, SizeForOrder[order])
    /\ \A h \in held : Apart(h.addr, BlockLength(h), block, SizeForOrder[order])

\* No page is in two places: free blocks, blocks held by callers and the
\* block a running call is splitting or merging never overlap
\* (buddy_alloc's split, buddy_free's merge, buddy_init's carving).
NoOverlap == FreeApart /\ FreeHeldApart /\ HeldApart /\ HandApart

\* Once buddy_init is over every usable page is free, held or in the hands
\* of the running call, and no other page is: nothing leaks, and nothing
\* outside the usable entries is ever handed out.
NoPageLost ==
  ~ Booting => FreePages \cup HeldPages \cup HandPages = UsablePages

\* The counters behind the meminfo command: used is the number of pages
\* callers hold, and managed minus used the number of pages still free.
CountersExact ==
  /\ buddy_used_pages = Cardinality(HeldPages)
  /\ ~ Booting => buddy_total_managed_pages = total_physical_pages
  /\ pc = "idle" =>
       buddy_total_managed_pages - buddy_used_pages = Cardinality(FreePages)

\* Free memory is coalesced: two free buddies of the same order are never
\* left side by side, except where they belong to two entries of the map
\* (buddy_init does not merge across entries).
Coalesced ==
  \A k \in Orders \ {MaxOrder} : \A a \in free_list[k] :
    GetBuddy(a, k) \in free_list[k] =>
      ~ \E e \in UsableEntries :
          {a, GetBuddy(a, k)} \subseteq Region(e)

\* buddy_alloc and buddy_free implement the memoryless page allocator: a
\* call is refused only when no aligned run of that size is unheld.
PA == INSTANCE PageAllocator WITH
  BlockPages <- [n \in Requests |->
                   IF GetOrder(n) \in Orders THEN SizeForOrder[GetOrder(n)] ELSE 0],
  regions <- {Region(e) : e \in UsableEntries},
  asked <- IF pc \in {"search", "split"} THEN <<size>> ELSE <<>>

RefinesPageAllocator == PA!Spec
=============================================================================
