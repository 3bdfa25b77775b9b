------------------------------ MODULE ElfImage ------------------------------
(***************************************************************************)
(* How the boot loader puts a kernel into memory: lib/elf.c, called by     *)
(* stivale_load, which takes the slide and the entry point from the header *)
(* of its protocol.                                                        *)
(*                                                                         *)
(* A kernel is [bits, type, entry, header, segments, rela]: header is the  *)
(* section of the boot protocol, rela the relocations of all its RELA      *)
(* sections in their order. A byte of memory is a pair: what it comes      *)
(* from, and the offset in the file or the value of the pointer.           *)
(***************************************************************************)
EXTENDS Integers, Sequences

CONSTANTS
    Images,         \* the kernels
    Slides,         \* what rand64 may return, masked
    Top,            \* the usable memory is 0 .. Top
    HigherHalf,     \* FIXED_HIGHER_HALF_OFFSET_64
    HeaderSize,     \* the size of the protocol's header
    Word            \* the width of a relocated pointer

\* What a linker makes: a segment that is loaded takes memory, for all of its bytes
\* of the file. A kernel in the higher half is linked in its last two gigabytes.
ASSUME ImagesAssumption ==
    \A elf \in Images:
        /\ elf \in [bits: {32, 64}, type: {"exec", "dyn"}, entry: Nat,
                    header: [size: Nat, kaslr: BOOLEAN, entry: Nat],
                    segments: Seq([load: BOOLEAN, vaddr: Nat, paddr: Nat, offset: Nat,
                                   filesz: Nat, memsz: Nat \ {0}]),
                    rela: Seq([kind: {"relative", "absolute"}, addr: Nat, addend: Nat])]
        /\ \A i \in DOMAIN elf.segments: elf.segments[i].filesz <= elf.segments[i].memsz

ASSUME SizesAssumption ==
    Slides \subseteq Nat /\ Top \in Nat /\ HigherHalf \in Nat /\ HeaderSize \in Nat \ {0} /\ Word \in Nat \ {0}

VARIABLES
    image,          \* the kernel: never changed
    slide,
    stage,          \* "header", "segments", "relocations", "entered" or "panic"
    next_segment,   \* the program header that is read next, or whose relocations are
    next_rela,      \* the relocation that is read next
    memory,         \* what is in memory
    claimed,        \* the addresses memmap_alloc_range took
    top_addr,       \* *top
    entry_point     \* where the kernel is entered

image_vars == <<image, slide, stage, next_segment, next_rela, memory, claimed, top_addr, entry_point>>

Span(first, size) == first .. (first + size - 1)
Free == <<"free", 0>>
Zero == <<"zero", 0>>

BeforeLoading ==
    /\ image \in Images
    /\ slide = 0 /\ stage = "header" /\ next_segment = 1 /\ next_rela = 1
    /\ memory = [a \in 0 .. Top |-> Free]
    /\ claimed = {} /\ top_addr = 0 /\ entry_point = 0

-----------------------------------------------------------------------------
(* The header *)

\* elf64_apply_relocations: a relocation of another kind is an error, also one for
\* somewhere else.
Unknown(elf) == elf.type = "dyn" /\ \E i \in DOMAIN elf.rela: elf.rela[i].kind # "relative"

\* elf64_load_section and elf32_load_section, of the protocol's header: what they
\* return
LoadSection(elf) ==
    CASE elf.header.size = 0 -> 2
      [] elf.header.size > HeaderSize -> 3
      [] elf.header.size \in 1 .. (HeaderSize - 1) -> 4
      [] OTHER -> IF elf.bits = 64 /\ Unknown(elf) THEN 1 ELSE 0

\* stivale_load: the header first, and a slide when it asks for one
ReadHeader ==
    /\ stage = "header"
    /\ IF LoadSection(image) # 0 THEN stage' = "panic" /\ UNCHANGED slide
       ELSE /\ stage' = "segments"
            /\ \E rand \in Slides:
                   slide' = IF image.bits = 64 /\ image.header.kaslr THEN rand ELSE 0
    /\ UNCHANGED <<image, next_segment, next_rela, memory, claimed, top_addr, entry_point>>

-----------------------------------------------------------------------------
(* The segments: elf64_load and elf32_load *)

\* The address a segment is loaded at
Physical(s) == (IF s.vaddr >= HigherHalf THEN s.vaddr - HigherHalf ELSE s.vaddr) + slide
LoadedAt(s) == IF image.bits = 64 THEN Physical(s) ELSE s.paddr

\* The 32-bit loader zeroes the tail, and counts the top, at the address a segment
\* is linked at.
ClearedAt(s) == IF image.bits = 64 THEN Physical(s) ELSE s.vaddr

Movable == image.bits = 64 /\ image.type = "dyn"

\* The bytes of the file, then the zeroes
Placed(s) ==
    [a \in 0 .. Top |->
        IF a \in (ClearedAt(s) + s.filesz) .. (ClearedAt(s) + s.memsz - 1) THEN Zero
        ELSE IF a \in Span(LoadedAt(s), s.filesz) THEN <<"file", s.offset + (a - LoadedAt(s))>>
        ELSE memory[a]]

SkipSegment ==
    /\ stage = "segments" /\ next_segment <= Len(image.segments)
    /\ ~ image.segments[next_segment].load
    /\ next_segment' = next_segment + 1
    /\ UNCHANGED <<image, slide, stage, next_rela, memory, claimed, top_addr, entry_point>>

\* memmap_alloc_range stops the boot when the memory is not there or was taken.
PlaceSegment ==
    /\ stage = "segments" /\ next_segment <= Len(image.segments)
    /\ LET s == image.segments[next_segment]
       IN  /\ s.load
           /\ Span(LoadedAt(s), s.memsz) \subseteq (0 .. Top) \ claimed
           /\ claimed' = claimed \union Span(LoadedAt(s), s.memsz)
           /\ memory' = Placed(s)
           /\ top_addr' = IF ClearedAt(s) + s.memsz > top_addr THEN ClearedAt(s) + s.memsz ELSE top_addr
    /\ IF Movable THEN stage' = "relocations" /\ UNCHANGED next_segment
       ELSE next_segment' = next_segment + 1 /\ UNCHANGED stage
    /\ UNCHANGED <<image, slide, next_rela, entry_point>>

NoMemory ==
    /\ stage = "segments" /\ next_segment <= Len(image.segments)
    /\ LET s == image.segments[next_segment]
       IN  s.load /\ ~ Span(LoadedAt(s), s.memsz) \subseteq (0 .. Top) \ claimed
    /\ stage' = "panic"
    /\ UNCHANGED <<image, slide, next_segment, next_rela, memory, claimed, top_addr, entry_point>>

-----------------------------------------------------------------------------
(* elf64_apply_relocations, to the segment that was just placed *)

\* A pointer that is not inside is skipped.
InSegment(r, s) == s.vaddr <= r.addr /\ r.addr + Word <= s.vaddr + s.memsz

\* Whether the byte at a, in segment s, is one of the pointer's
Covers(r, s, a) == InSegment(r, s) /\ a - LoadedAt(s) + s.vaddr \in Span(r.addr, Word)

\* Mutant: pointers stay where they were linked to.
ApplyUnslid ==
    /\ stage = "relocations" /\ next_rela <= Len(image.rela)
    /\ LET s == image.segments[next_segment]
           r == image.rela[next_rela]
       IN  memory' = [a \in 0 .. Top |-> IF Covers(r, s, a) THEN <<"pointer", r.addend>> ELSE memory[a]]
    /\ next_rela' = next_rela + 1
    /\ UNCHANGED <<image, slide, stage, next_segment, claimed, top_addr, entry_point>>

\* A relocation of another kind was found when the header was read.
Apply ==
    /\ stage = "relocations" /\ next_rela <= Len(image.rela)
    /\ LET s == image.segments[next_segment]
           r == image.rela[next_rela]
       IN  memory' = [a \in 0 .. Top |->
                         IF Covers(r, s, a) THEN <<"pointer", slide + r.addend>> ELSE memory[a]]
    /\ next_rela' = next_rela + 1
    /\ UNCHANGED <<image, slide, stage, next_segment, claimed, top_addr, entry_point>>

EndRelocations ==
    /\ stage = "relocations" /\ next_rela > Len(image.rela)
    /\ stage' = "segments" /\ next_segment' = next_segment + 1 /\ next_rela' = 1
    /\ UNCHANGED <<image, slide, memory, claimed, top_addr, entry_point>>

-----------------------------------------------------------------------------
\* It is the kernel's type that decides whether the entry point moves. The entry
\* point of the header is a pointer, for which a dynamic kernel has a relocation.
Enter ==
    /\ stage = "segments" /\ next_segment > Len(image.segments)
    /\ LET entry == IF image.header.entry # 0 THEN image.header.entry ELSE image.entry
       IN  entry_point' = entry + IF Movable THEN slide ELSE 0
    /\ stage' = "entered"
    /\ UNCHANGED <<image, slide, next_segment, next_rela, memory, claimed, top_addr>>

Loading ==
    \/ ReadHeader
    \/ SkipSegment \/ PlaceSegment \/ NoMemory
    \/ Apply \/ EndRelocations
    \/ Enter

LoadingSpec == BeforeLoading /\ [][Loading]_image_vars

-----------------------------------------------------------------------------
Stages == {"header", "segments", "relocations", "entered", "panic"}

ImageTypeOK ==
    /\ image \in Images /\ slide \in Nat /\ stage \in Stages
    /\ next_segment \in Nat \ {0} /\ next_rela \in Nat \ {0}
    /\ memory \in [0 .. Top -> {"free", "zero", "file", "pointer"} \X Nat]
    /\ claimed \subseteq 0 .. Top /\ top_addr \in Nat /\ entry_point \in Nat

\* The segments to load, and the addresses each one is to have
ToLoad == {i \in DOMAIN image.segments: image.segments[i].load}
Bytes(i) == Span(LoadedAt(image.segments[i]), image.segments[i].memsz)

\* A kernel that can be put into memory
Fits ==
    /\ LoadSection(image) = 0
    /\ \A i \in ToLoad: Bytes(i) \subseteq 0 .. Top
    /\ \A i, k \in ToLoad: i # k => Bytes(i) \intersect Bytes(k) = {}

\* A slide is for a kernel that can move, and a 32-bit one is linked where it is
\* loaded.
Plain ==
    /\ slide # 0 => Movable
    /\ image.bits = 32 => \A i \in ToLoad: image.segments[i].paddr = image.segments[i].vaddr

\* The byte at a of segment i, after n relocations: the last pointer that lies there,
\* moved by the slide, or else what the file says, or zero behind it
AsLinked(i, a, n) ==
    LET s == image.segments[i]
        Points(k) == Movable /\ Covers(image.rela[k], s, a)
    IN  /\ (\A k \in 1 .. n: ~ Points(k)) =>
               memory[a] = IF a < LoadedAt(s) + s.filesz THEN <<"file", s.offset + (a - LoadedAt(s))>>
                           ELSE Zero
        /\ \A k \in 1 .. n: Points(k) /\ (\A later \in (k + 1) .. n: ~ Points(later)) =>
               memory[a] = <<"pointer", slide + image.rela[k].addend>>

\* What the kernel finds when it starts is its file: every segment where it is
\* linked, or moved with all of its pointers and its entry point by one slide, the
\* rest of it zero, nothing else touched, and the top behind all of it, from where
\* the modules are placed. The boot stops instead exactly when the header does not
\* fit, or when segments lie outside of the memory or in each other.
ImageLoaded ==
    /\ stage = "panic" => ~ Fits
    /\ stage = "entered" => Fits
    /\ stage = "entered" /\ Plain =>
           /\ \A a \in 0 .. Top:
                  /\ \A i \in ToLoad: a \in Bytes(i) => AsLinked(i, a, Len(image.rela))
                  /\ (\A i \in ToLoad: a \notin Bytes(i)) => memory[a] = Free
           /\ \A i \in ToLoad: \A a \in Bytes(i): a < top_addr
           /\ entry_point = slide + IF image.header.entry # 0 THEN image.header.entry ELSE image.entry

-----------------------------------------------------------------------------
(* The invariant behind it, for the proofs. *)

\* The segments that are in place, and how many relocations were applied to one
Here == {i \in ToLoad: i < next_segment \/ (stage = "relocations" /\ i = next_segment)}
Applied(i) ==
    IF stage = "relocations" /\ i = next_segment THEN next_rela - 1 ELSE Len(image.rela)

\* All of the program headers were read, or one whose relocations are applied
Reading ==
    /\ next_segment <= Len(image.segments) + 1 /\ next_rela <= Len(image.rela) + 1
    /\ stage \in {"header", "segments"} => next_rela = 1
    /\ stage = "relocations" => Movable /\ next_segment \in ToLoad
    /\ stage = "entered" => next_segment = Len(image.segments) + 1
    /\ stage = "header" => next_segment = 1 /\ slide = 0
    /\ stage \in {"segments", "relocations", "entered"} => LoadSection(image) = 0

\* The segments in place are the memory that is taken, each its own part.
OwnMemory ==
    /\ \A i \in Here: Bytes(i) \subseteq claimed
    /\ \A a \in claimed: \E i \in Here: a \in Bytes(i)
    /\ \A i, k \in Here: i # k => Bytes(i) \intersect Bytes(k) = {}

\* What is there is the file, as far as it was read.
SoFar ==
    /\ \A i \in Here: \A a \in Bytes(i): AsLinked(i, a, Applied(i)) /\ a < top_addr
    /\ \A a \in (0 .. Top) \ claimed: memory[a] = Free

ImageInv ==
    /\ ImageTypeOK /\ Reading
    /\ stage = "panic" => ~ Fits
    /\ stage # "panic" => OwnMemory /\ (Plain => SoFar)
    /\ stage = "entered" =>
           entry_point = (IF image.header.entry # 0 THEN image.header.entry ELSE image.entry)
                             + IF Movable THEN slide ELSE 0
=============================================================================
