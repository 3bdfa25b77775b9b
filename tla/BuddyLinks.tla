----------------------------- MODULE BuddyLinks -----------------------------
(***************************************************************************)
(* The buddy allocator of kernel/mem/pmm.cpp as it lies in memory: a free  *)
(* list is a head pointer and the MemoryBlock.next word in the first bytes *)
(* of every free page, the very bytes a caller may overwrite as soon as it *)
(* owns the block.  One action per loop iteration, as in Buddy, plus one   *)
(* per step of buddy_free's walk; the step-by-step walk and the LIFO order *)
(* are what Buddy leaves open, and this module refines it.                 *)
(*                                                                         *)
(* Addresses are page numbers, 0 is nullptr.                               *)
(***************************************************************************)
EXTENDS Integers, FiniteSets, Sequences

CONSTANTS
  MaxOrder, SizeForOrder, MemoryMaps, Requests,   \* as in Buddy
  Top,        \* one past the highest page of physical memory
  Garbage     \* what callers (and the RAM at power-up) leave in a page

Orders == 0 .. MaxOrder
Addrs == 0 .. (Top - 1)
nullptr == 0
Usable == 1

ASSUME MaxOrderAssumption == MaxOrder \in Nat
ASSUME SizeAssumption ==
  /\ SizeForOrder \in [Orders -> Nat \ {0}]
  /\ SizeForOrder[0] = 1
  /\ \A k \in Orders : k + 1 \in Orders => SizeForOrder[k + 1] = 2 * SizeForOrder[k]
ASSUME RequestAssumption == Requests \subseteq Nat
ASSUME TopAssumption == Top \in Nat \ {0} /\ Garbage \subseteq Addrs
\* limine lists no usable memory below 1 MiB.  The code needs it: the buddy of
\* a block at 2^k is nullptr, which buddy_free's walk takes for "found".
ASSUME FitsMemory ==
  \A m \in MemoryMaps : \A e \in DOMAIN m :
    /\ m[e].base + m[e].length <= Top
    /\ m[e].type = Usable => m[e].base > SizeForOrder[MaxOrder]

VARIABLES
  mmap,
  head,        \* the array free_list
  next,        \* the word each page starts with
  total_physical_pages, buddy_used_pages, buddy_total_managed_pages,
  pc, i, current, remaining,
  size, block, order,
  cur,         \* buddy_free: the link it looks at, a list head or a page's next
  held

counters == <<total_physical_pages, buddy_used_pages, buddy_total_managed_pages>>
initvars == <<i, current, remaining>>
vars == <<mmap, head, next, counters, pc, initvars, size, block, order, cur,
          held>>

GetOrder(n) ==
  IF \E k \in Orders : n <= SizeForOrder[k]
    THEN CHOOSE k \in Orders :
           /\ n <= SizeForOrder[k]
           /\ \A l \in Orders : n <= SizeForOrder[l] => k <= l
    ELSE MaxOrder + 1

GetBuddy(addr, k) ==
  IF (addr \div SizeForOrder[k]) % 2 = 0
    THEN addr + SizeForOrder[k]
    ELSE addr - SizeForOrder[k]

Lower(a, b) == IF a < b THEN a ELSE b

Fits(k) == SizeForOrder[k] <= remaining /\ current % SizeForOrder[k] = 0

CarveOrder == CHOOSE k \in Orders : Fits(k) /\ \A l \in Orders : Fits(l) => l <= k

\* block->next = free_list[k]; free_list[k] = block
Push(a, k) ==
  /\ next' = [next EXCEPT ![a] = head[k]]
  /\ head' = [head EXCEPT ![k] = a]

HeadLink == [kind |-> "head", page |-> nullptr]
NextLink(a) == [kind |-> "next", page |-> a]

\* *cur and *cur = v, for cur = &free_list[order] or cur = &(block->next)
Target == IF cur.kind = "head" THEN head[order] ELSE next[cur.page]

SetTarget(v) ==
  IF cur.kind = "head"
    THEN head' = [head EXCEPT ![order] = v] /\ UNCHANGED next
    ELSE next' = [next EXCEPT ![cur.page] = v] /\ UNCHANGED head

-----------------------------------------------------------------------------
Init ==
  /\ mmap \in MemoryMaps
  /\ head = [k \in Orders |-> nullptr]
  /\ next \in {[a \in Addrs |-> g] : g \in Garbage}
  /\ total_physical_pages = 0
  /\ buddy_used_pages = 0
  /\ buddy_total_managed_pages = 0
  /\ pc = "count"
  /\ i = 1 /\ current = 0 /\ remaining = 0
  /\ size = 0 /\ block = nullptr /\ order = 0
  /\ cur = HeadLink
  /\ held = {}

CountEntry ==
  /\ pc = "count" /\ i <= Len(mmap)
  /\ total_physical_pages' = total_physical_pages
       + (IF mmap[i].type = Usable THEN mmap[i].length ELSE 0)
  /\ i' = i + 1
  /\ UNCHANGED <<mmap, head, next, buddy_used_pages, buddy_total_managed_pages,
                 pc, current, remaining, size, block, order, cur, held>>

CountDone ==
  /\ pc = "count" /\ i > Len(mmap)
  /\ head' = [k \in Orders |-> nullptr]
  /\ i' = 1 /\ pc' = "region"
  /\ UNCHANGED <<mmap, next, counters, current, remaining, size, block, order,
                 cur, held>>

SkipEntry ==
  /\ pc = "region" /\ i <= Len(mmap) /\ mmap[i].type # Usable
  /\ i' = i + 1
  /\ UNCHANGED <<mmap, head, next, counters, pc, current, remaining, size, block,
                 order, cur, held>>

StartEntry ==
  /\ pc = "region" /\ i <= Len(mmap) /\ mmap[i].type = Usable
  /\ current' = mmap[i].base /\ remaining' = mmap[i].length
  /\ pc' = "carve"
  /\ UNCHANGED <<mmap, head, next, counters, i, size, block, order, cur, held>>

CarveBlock ==
  /\ pc = "carve" /\ remaining >= 1
  /\ Push(current, CarveOrder)
  /\ buddy_total_managed_pages' = buddy_total_managed_pages + SizeForOrder[CarveOrder]
  /\ current' = current + SizeForOrder[CarveOrder]
  /\ remaining' = remaining - SizeForOrder[CarveOrder]
  /\ UNCHANGED <<mmap, total_physical_pages, buddy_used_pages, pc, i, size, block,
                 order, cur, held>>

EndEntry ==
  /\ pc = "carve" /\ remaining < 1
  /\ i' = i + 1 /\ pc' = "region"
  /\ UNCHANGED <<mmap, head, next, counters, current, remaining, size, block, order,
                 cur, held>>

InitDone ==
  /\ pc = "region" /\ i > Len(mmap)
  /\ pc' = "idle"
  /\ UNCHANGED <<mmap, head, next, counters, initvars, size, block, order, cur,
                 held>>

-----------------------------------------------------------------------------
Return ==
  pc' = "idle" /\ size' = 0 /\ block' = nullptr /\ order' = 0 /\ cur' = HeadLink

AllocEnter(n) ==
  /\ pc = "idle"
  /\ size' = n /\ order' = GetOrder(n)
  /\ pc' = "search"
  /\ UNCHANGED <<mmap, head, next, counters, initvars, block, cur, held>>

SearchNext ==
  /\ pc = "search" /\ order <= MaxOrder
  /\ head[order] = nullptr
  /\ order' = order + 1
  /\ UNCHANGED <<mmap, head, next, counters, pc, initvars, size, block, cur, held>>

TakeBlock ==
  /\ pc = "search" /\ order <= MaxOrder
  /\ head[order] # nullptr
  /\ block' = head[order]
  /\ head' = [head EXCEPT ![order] = next[head[order]]]
  /\ pc' = "split"
  /\ UNCHANGED <<mmap, next, counters, initvars, size, order, cur, held>>

AllocFail ==
  /\ pc = "search" /\ order > MaxOrder
  /\ Return
  /\ UNCHANGED <<mmap, head, next, counters, initvars, held>>

SplitBlock ==
  /\ pc = "split" /\ order > GetOrder(size)
  /\ order' = order - 1
  /\ Push(block + SizeForOrder[order - 1], order - 1)
  /\ UNCHANGED <<mmap, counters, pc, initvars, size, block, cur, held>>

AllocReturn ==
  /\ pc = "split" /\ order = GetOrder(size)
  /\ buddy_used_pages' = buddy_used_pages + SizeForOrder[order]
  /\ held' = held \cup {[addr |-> block, size |-> size]}
  /\ Return
  /\ UNCHANGED <<mmap, head, next, total_physical_pages, buddy_total_managed_pages,
                 initvars>>

\* A caller fills the block it owns, between its calls.
CallerWrites(h, g) ==
  /\ pc = "idle"
  /\ next' = [a \in Addrs |->
                IF a \in h.addr .. (h.addr + SizeForOrder[GetOrder(h.size)] - 1)
                  THEN g ELSE next[a]]
  /\ UNCHANGED <<mmap, head, counters, pc, initvars, size, block, order, cur,
                 held>>

FreeEnter(h) ==
  /\ pc = "idle"
  /\ held' = held \ {h}
  /\ size' = h.size /\ block' = h.addr /\ order' = GetOrder(h.size)
  /\ cur' = HeadLink
  /\ buddy_used_pages' = buddy_used_pages - SizeForOrder[GetOrder(h.size)]
  /\ pc' = "merge"
  /\ UNCHANGED <<mmap, head, next, total_physical_pages, buddy_total_managed_pages,
                 initvars>>

\* Mutant: the walk does not follow the link.
WalkStuck ==
  /\ pc = "merge" /\ order < MaxOrder
  /\ Target # nullptr /\ Target # GetBuddy(block, order)
  /\ UNCHANGED vars

\* while (*cur && *cur != buddy) cur = &((*cur)->next)
Walk ==
  /\ pc = "merge" /\ order < MaxOrder
  /\ Target # nullptr /\ Target # GetBuddy(block, order)
  /\ cur' = NextLink(Target)
  /\ UNCHANGED <<mmap, head, next, counters, pc, initvars, size, block, order,
                 held>>

\* Mutant: the buddy is unlinked by emptying the list, as if it were the head.
MergeBuddyAsHead ==
  /\ pc = "merge" /\ order < MaxOrder
  /\ Target = GetBuddy(block, order)
  /\ head' = [head EXCEPT ![order] = next[Target]]
  /\ block' = Lower(block, GetBuddy(block, order))
  /\ order' = order + 1
  /\ cur' = HeadLink
  /\ UNCHANGED <<mmap, next, counters, pc, initvars, size, held>>

MergeBuddy ==
  /\ pc = "merge" /\ order < MaxOrder
  /\ Target = GetBuddy(block, order)
  /\ SetTarget(next[Target])
  /\ block' = Lower(block, GetBuddy(block, order))
  /\ order' = order + 1
  /\ cur' = HeadLink
  /\ UNCHANGED <<mmap, counters, pc, initvars, size, held>>

\* Mutant: the freed block's old first word is taken for its link.
InsertBlockKeepsWord ==
  /\ pc = "merge"
  /\ order = MaxOrder \/ Target = nullptr
  /\ head' = [head EXCEPT ![order] = block]
  /\ Return
  /\ UNCHANGED <<mmap, next, counters, initvars, held>>

InsertBlock ==
  /\ pc = "merge"
  /\ order = MaxOrder \/ Target = nullptr
  /\ Push(block, order)
  /\ Return
  /\ UNCHANGED <<mmap, counters, initvars, held>>

-----------------------------------------------------------------------------
Advance ==
  \/ CountEntry \/ CountDone \/ SkipEntry \/ StartEntry
  \/ CarveBlock \/ EndEntry \/ InitDone
  \/ SearchNext \/ TakeBlock \/ AllocFail \/ SplitBlock \/ AllocReturn
  \/ Walk \/ MergeBuddy \/ InsertBlock

Next ==
  \/ Advance
  \/ \E n \in Requests : AllocEnter(n)
  \/ \E h \in held : FreeEnter(h)
  \/ \E h \in held, g \in Garbage : CallerWrites(h, g)

\* A call that was made keeps running; nobody is obliged to make one.
Spec == Init /\ [][Next]_vars /\ WF_vars(Advance)

-----------------------------------------------------------------------------
\* The pages a walk from a list's head meets, in at most Top steps.
Listed(k) ==
  LET from[n \in 0 .. Top] ==
        [a \in Addrs |-> IF n = 0 \/ a = nullptr THEN {} ELSE {a} \cup from[n - 1][next[a]]]
  IN  from[Top][head[k]]

\* The types of the lists and of the running call.
TypeOK ==
  /\ mmap \in MemoryMaps
  /\ head \in [Orders -> Addrs]
  /\ next \in [Addrs -> Addrs]
  /\ buddy_used_pages \in Nat
  /\ cur \in [kind : {"head", "next"}, page : Addrs]
  /\ block \in Addrs /\ order \in 0 .. (MaxOrder + 1)

\* However callers scribble over the memory they own, the state is well typed,
\* every free list stays a chain that ends in nullptr and names each of its
\* blocks once (the links lie in the free pages themselves), and buddy_free's
\* walk only follows links of blocks that are on the list.
ListsIntact ==
  /\ TypeOK
  /\ (pc = "merge" /\ cur.kind = "next") => cur.page \in Listed(order)
  /\ \A k \in Orders :
       /\ Listed(k) # {} => \E a \in Listed(k) : next[a] = nullptr
       /\ \A a, b \in Listed(k) : (a # b /\ next[a] # nullptr) => next[a] # next[b]
       /\ \A a \in Listed(k) : next[a] # head[k]
       /\ \A l \in Orders \ {k} : Listed(k) \cap Listed(l) = {}

\* Every call returns: the search, split and merge loops end, and the walk
\* along a list with them.
EveryCallReturns == (pc # "idle") ~> (pc = "idle")

\* The linked lists implement Buddy's sets of free blocks.
free_list == [k \in Orders |-> Listed(k)]
B == INSTANCE Buddy WITH free_list <- free_list
ASSUME MapAssumption == \A m \in MemoryMaps : B!ValidMap(m)
RefinesBuddy == B!Spec
=============================================================================
