--------------------------- MODULE PageAllocator ---------------------------
(***************************************************************************)
(* What buddy_alloc and buddy_free of kernel/mem/pmm.cpp promise their     *)
(* callers, with no free lists and no intermediate steps.                  *)
(*                                                                         *)
(* Memory is counted in pages.  A region is the set of pages of one usable *)
(* entry of the boot loader's memory map.  A request is rounded up to a    *)
(* block of BlockPages[size] pages (0 when no block is that large) whose   *)
(* address is a multiple of its length.  The allocator is memoryless:      *)
(* whether a request succeeds depends on what is held now, never on the    *)
(* order of the earlier calls.                                             *)
(***************************************************************************)
EXTENDS Integers

CONSTANTS
  Requests,    \* the sizes callers ask for, in pages
  BlockPages   \* how many pages a request of that size occupies

VARIABLES
  regions,     \* the sets of usable pages, one per memory map entry
  held,        \* the blocks callers own: [addr, size]
  asked        \* <<size>> while a buddy_alloc(size) runs, else <<>>

vars == <<regions, held, asked>>

Pages(addr, n) == addr .. (addr + n - 1)

HeldPages == UNION {Pages(h.addr, BlockPages[h.size]) : h \in held}

\* A block of n pages at addr is aligned and nobody holds a page of it.
Available(addr, n) ==
  /\ addr % n = 0
  /\ Pages(addr, n) \subseteq UNION regions
  /\ Pages(addr, n) \cap HeldPages = {}

\* The same, with the whole block in one region: such a block must be found.
Findable(addr, n) ==
  /\ Available(addr, n)
  /\ \E r \in regions : Pages(addr, n) \subseteq r

Init == held = {} /\ asked = <<>>

Call(size) ==
  /\ asked = <<>>
  /\ asked' = <<size>>
  /\ UNCHANGED <<regions, held>>

Alloc(size) ==
  /\ asked = <<size>> /\ asked' = <<>>
  /\ BlockPages[size] > 0
  /\ \E addr \in UNION regions :
       /\ Available(addr, BlockPages[size])
       /\ held' = held \cup {[addr |-> addr, size |-> size]}
  /\ UNCHANGED regions

Refuse(size) ==
  /\ asked = <<size>> /\ asked' = <<>>
  /\ \/ BlockPages[size] = 0
     \/ \A addr \in UNION regions : ~ Findable(addr, BlockPages[size])
  /\ UNCHANGED <<regions, held>>

Free(h) ==
  /\ asked = <<>>
  /\ held' = held \ {h}
  /\ UNCHANGED <<regions, asked>>

Next ==
  \/ \E size \in Requests : Call(size) \/ Alloc(size) \/ Refuse(size)
  \/ \E h \in held : Free(h)

Spec == Init /\ [][Next]_vars
=============================================================================
