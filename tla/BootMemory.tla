----------------------------- MODULE BootMemory -----------------------------
(***************************************************************************)
(* The memory map of the boot loader, from the firmware's list to the one  *)
(* the kernel's page allocator is built on: stage2/mm/pmm.c, and the       *)
(* allocations stivale_load makes from it, in their order (the segments of *)
(* the kernel, the modules, the page tables).                              *)
(*                                                                         *)
(* An entry is [base, top, type] for the program's base and base + length. *)
(* Addresses count in a fraction of a page, so that entries may start and  *)
(* end inside one.                                                         *)
(***************************************************************************)
EXTENDS Integers, Sequences, SequencesExt, FiniteSetsExt, TLC

CONSTANTS
    Firmware,    \* the memory maps int 15h, ax = e820h may return
    Kernels,     \* the kernel's PT_LOAD segments, as sequences of <<address, size>>
    Modules,     \* the sizes of the modules, as sequences
    Tables,      \* how many page tables the mappings of the kernel take
    Page,        \* PAGE_SIZE
    MiB,         \* MEMMAP_BASE
    FourGiB,     \* entries above are not allocated from
    MaxEntries   \* MEMMAP_MAX_ENTRIES

\* The firmware describes ranges of memory, of one of two kinds to the loader.
ASSUME FirmwareAssumption ==
    \A map \in Firmware:
        /\ map \in Seq([base: Nat, top: Nat, type: {"usable", "reserved"}])
        /\ \A i \in DOMAIN map: map[i].base <= map[i].top

\* A segment that is loaded takes memory; a module may be empty.
ASSUME KernelAssumption ==
    /\ Kernels \subseteq Seq(Nat \X (Nat \ {0}))
    /\ Modules \subseteq Seq(Nat)
    /\ Tables \in Nat

ASSUME MemoryAssumption ==
    /\ Page \in Nat \ {0} /\ MiB \in Nat /\ MiB % Page = 0
    /\ FourGiB \in Nat /\ MaxEntries \in Nat

VARIABLES
    memmap,      \* the entries
    firmware,    \* what the firmware returned: never changed
    todo,        \* what stivale_load has still to place
    top_used,    \* top_used_addr
    used,        \* the ranges that were written to: <<base, top>>
    pc           \* the step of the boot, or "panic"

vars == <<memmap, firmware, todo, top_used, used, pc>>

Entry(base, top, type) == [base |-> base, top |-> top, type |-> type]
AlignUp(x, a) == ((x + a - 1) \div a) * a
AlignDown(x, a) == (x \div a) * a
Inside(x, e) == e.base <= x /\ x < e.top

-----------------------------------------------------------------------------
(* sanitise_entries *)

\* One turn of the loop over the other entries. An entry inside makes the boot
\* stop.
Clip(e, r) ==
    IF e.type = "panic" \/ (Inside(r.base, e) /\ Inside(r.top, e))
    THEN [e EXCEPT !.type = "panic"]
    ELSE LET top  == IF Inside(r.base, e) THEN r.base ELSE e.top
             base == IF e.base <= r.top /\ r.top < top THEN r.top ELSE e.base
         IN  Entry(base, top, e.type)

\* Mutant: the base is not rounded up to a page.
AlignedTopOnly(e) ==
    Entry(IF e.base < MiB THEN MiB ELSE e.base, AlignDown(e.top, Page), e.type)

\* align_entry, which tests the address of the length for zero and not the
\* length: an entry that holds no whole page survives with length zero.
Aligned(e) ==
    LET base == AlignUp(e.base, Page)
    IN  Entry(IF base < MiB THEN MiB ELSE base,
              base + AlignDown(e.top - base, Page), e.type)

Rejected(e) ==
    \/ e.top - e.base < Page
    \/ /\ AlignUp(e.base, Page) < MiB
       /\ AlignDown(e.top, Page) <= MiB

\* A turn of the loop over the entries, s.next the one it is at: a usable one is
\* clipped, and aligned or erased. What comes after an erased one moves up.
Turn(s, n) ==
    LET e == FoldLeft(Clip, s.map[s.next], RemoveAt(s.map, s.next))
        Becomes(x) == [map |-> [s.map EXCEPT ![s.next] = x], next |-> s.next + 1]
    IN  CASE s.map[s.next].type # "usable" -> [s EXCEPT !.next = @ + 1]
          [] s.map[s.next].type = "usable" /\ e.type = "panic" -> Becomes(e)
          [] s.map[s.next].type = "usable" /\ e.type # "panic" /\ Rejected(e) ->
                 [s EXCEPT !.map = RemoveAt(@, s.next)]
          [] OTHER -> Becomes(Aligned(e))

\* Every turn leaves one entry less to look at.
Clipped(map) == FoldLeftDomain(Turn, [map |-> map, next |-> 1], map).map

\* The sort puts the first of the lowest entries from p on at p.
Swapped(map, p) ==
    LET Lowest == {i \in p .. Len(map): \A j \in p .. Len(map): map[i].base <= map[j].base}
    IN  [map EXCEPT ![p] = map[Min(Lowest)], ![Min(Lowest)] = map[p]]

Sorted(map) == FoldLeftDomain(Swapped, map, map)

\* A reclaimable entry joins one that ends where it starts.
Merge(map, e) ==
    IF /\ map # <<>>
       /\ Last(map).type = "reclaimable"
       /\ e.type = "reclaimable"
       /\ Last(map).top = e.base
    THEN [map EXCEPT ![Len(map)].top = e.top]
    ELSE Append(map, e)

Sanitised(map) == FoldLeft(Merge, <<>>, Sorted(Clipped(map)))

Panics(map) == \E i \in DOMAIN map: map[i].type = "panic"

-----------------------------------------------------------------------------
(* memmap_alloc_range and ext_mem_alloc_aligned_type *)

\* The usable entries a range fits into: the first one is taken.
Holding(map, base, top) ==
    {i \in DOMAIN map: /\ map[i].type = "usable"
                       /\ Inside(base, map[i])
                       /\ map[i].base <= top /\ top <= map[i].top}

\* Mutant: what is above the range is forgotten.
CarvedShort(map, base, top, type) ==
    LET i == Min(Holding(map, base, top))
    IN  (IF base = map[i].base THEN RemoveAt(map, i) ELSE [map EXCEPT ![i].top = base])
            \o <<Entry(base, top, type)>>

\* Mutant: what is above the range starts at it.
CarvedOver(map, base, top, type) ==
    LET i == Min(Holding(map, base, top))
    IN  (IF base = map[i].base THEN RemoveAt(map, i) ELSE [map EXCEPT ![i].top = base])
            \o (IF map[i].top = top THEN <<>> ELSE <<Entry(base, map[i].top, "usable")>>)
            \o <<Entry(base, top, type)>>

\* What is below the range stays in place, what is above and the range itself
\* go to the end.
Carved(map, base, top, type) ==
    LET i    == Min(Holding(map, base, top))
        low  == [map EXCEPT ![i].top = base]
        rest == IF map[i].top = top THEN <<>>
                ELSE <<Entry(top, map[i].top, "usable")>>
    IN  (IF base = map[i].base THEN RemoveAt(map, i) ELSE low)
            \o rest \o <<Entry(base, top, type)>>

\* memmap_alloc_range: out of memory, or out of entries, stops the boot.
AllocRange(base, top, type) ==
    LET new == Carved(memmap, base, top, type)
    IN  IF Holding(memmap, base, top) = {} \/ Len(new) > MaxEntries
        THEN pc' = "panic" /\ UNCHANGED <<memmap, used>>
        ELSE /\ memmap' = new
             /\ used' = used \union {<<base, top>>}
             /\ pc' = pc

\* The usable entries below 4 GiB with room for count bytes: the last is taken.
Roomy(count) ==
    {i \in DOMAIN memmap: /\ memmap[i].type = "usable"
                          /\ memmap[i].top < FourGiB
                          /\ AlignDown(memmap[i].top - count, Page) >= memmap[i].base}

\* ext_mem_alloc_aligned_type of a page: off the top of its entry, zeroed, and
\* the map put in order again.
AllocTable ==
    IF Roomy(Page) = {} THEN pc' = "panic" /\ UNCHANGED <<memmap, used>>
    ELSE LET top  == memmap[Max(Roomy(Page))].top
             base == AlignDown(top - Page, Page)
             new  == Carved(memmap, base, top, "reclaimable")
         IN  /\ memmap' = Sanitised(new)
             /\ used' = used \union {<<base, top>>}
             /\ pc' = IF Len(new) > MaxEntries \/ Panics(memmap') THEN "panic" ELSE pc

-----------------------------------------------------------------------------
(* The boot *)

Init ==
    /\ firmware \in Firmware
    /\ memmap = firmware
    /\ todo \in [segments: Kernels, modules: Modules, tables: {Tables}]
    /\ top_used = 0
    /\ used = {}
    /\ pc = "firmware"

\* Sanitises the map and goes on, or stops the boot.
Settle(from, to) ==
    /\ pc = from
    /\ memmap' = Sanitised(memmap)
    /\ pc' = IF Panics(memmap') THEN "panic" ELSE to
    /\ UNCHANGED <<firmware, todo, top_used, used>>

InitMemmap == Settle("firmware", "elf")

\* elf64_load: a segment is reserved where it is linked, then read and zeroed.
LoadSegment ==
    /\ pc = "elf"
    /\ todo.segments # <<>>
    /\ LET base == Head(todo.segments)[1]
           top  == base + Head(todo.segments)[2]
       IN  /\ AllocRange(base, top, "kernel")
           /\ top_used' = IF top > top_used THEN top ELSE top_used
    /\ todo' = [todo EXCEPT !.segments = Tail(@)]
    /\ UNCHANGED firmware

\* stivale_load: a module goes to the next page after what is loaded.
LoadModule ==
    /\ pc = "elf"
    /\ todo.segments = <<>>
    /\ todo.modules # <<>>
    /\ LET base == AlignUp(top_used, Page)
           top  == base + Head(todo.modules)
       IN  /\ AllocRange(base, top, "kernel")
           /\ top_used' = top
    /\ todo' = [todo EXCEPT !.modules = Tail(@)]
    /\ UNCHANGED firmware

Loaded ==
    /\ todo.segments = <<>>
    /\ todo.modules = <<>>
    /\ Settle("elf", "pagemap")

\* stivale_build_pagemap: the top level, and a table whenever map_page meets an
\* entry that is not present.
NewTable ==
    /\ pc = "pagemap"
    /\ todo.tables > 0
    /\ AllocTable
    /\ todo' = [todo EXCEPT !.tables = @ - 1]
    /\ UNCHANGED <<firmware, top_used>>

Handover ==
    /\ todo.tables = 0
    /\ Settle("pagemap", "kernel")

Next == InitMemmap \/ LoadSegment \/ LoadModule \/ Loaded \/ NewTable \/ Handover

Spec == Init /\ [][Next]_vars

-----------------------------------------------------------------------------
(* What the kernel relies on *)

Addresses(e) == e.base .. (e.top - 1)
UsableAddresses ==
    UNION {Addresses(memmap[i]): i \in {k \in DOMAIN memmap: memmap[k].type = "usable"}}
AddressesInUse == UNION {u[1] .. (u[2] - 1): u \in used}
PageAt(p) == p .. (p + Page - 1)

\* Every usable entry of the firmware has a part no other entry claims. The
\* program cuts an entry at both ends only: one that is claimed whole is kept.
OwnParts ==
    \A i \in DOMAIN firmware: firmware[i].type = "usable" =>
        ~ (Addresses(firmware[i]) \subseteq
               UNION {Addresses(firmware[j]): j \in DOMAIN firmware \ {i}})

\* The map the kernel is given is what its allocators and the protocol take it
\* for: sorted, its usable entries made of whole pages above the first MiB, and
\* neither they nor what the loader took overlapping anything else.
HandedMapSound ==
    pc = "kernel" /\ OwnParts =>
        /\ \A i, j \in DOMAIN memmap: i < j => memmap[i].base <= memmap[j].base
        /\ \A i \in DOMAIN memmap: memmap[i].type = "usable" =>
               memmap[i].base >= MiB /\ memmap[i].base % Page = 0 /\ memmap[i].top % Page = 0
        /\ \A i, j \in DOMAIN memmap: i # j /\ memmap[i].type # "reserved" =>
               Addresses(memmap[i]) \intersect Addresses(memmap[j]) = {}

\* What the loader wrote to (the kernel, its modules, the page tables the CPU is
\* using) is never offered again, to the loader itself or to the kernel: no range
\* is given out twice, and none is in a usable entry.
InUseStaysInUse ==
    pc # "panic" =>
        /\ UsableAddresses \intersect AddressesInUse = {}
        /\ \A u, v \in used: u # v => (u[1] .. (u[2] - 1)) \intersect (v[1] .. (v[2] - 1)) = {}

\* No memory is lost on the way: a whole page that the firmware calls usable and
\* that nothing else claims, above the first MiB, is usable for the kernel unless
\* the loader put something in it.
NoPageForgotten ==
    pc = "kernel" =>
        \A i \in DOMAIN firmware: \A n \in 0 .. (firmware[i].top \div Page):
            LET page == PageAt(n * Page)
            IN  /\ firmware[i].type = "usable"
                /\ n * Page >= MiB
                /\ page \subseteq Addresses(firmware[i])
                /\ \A j \in DOMAIN firmware \ {i}:
                       page \intersect Addresses(firmware[j]) = {}
                /\ page \intersect AddressesInUse = {}
                => page \subseteq UsableAddresses
=============================================================================
