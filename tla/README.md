# A verification of OrionisOS

TLA+ models of the parts of OrionisOS, and of the boot loader in its tree, that
are hard to get right and hard to test; the TLC configurations that check them on
small instances; and proofs, for every value of the constants, of what matters
most about memory, that of the kernel and that of the boot loader, the network driver,
interrupts and the terminal.

OrionisOS is a small x86-64 kernel without processes: after booting, `kmain`
loops in `hlt` and everything happens in interrupt handlers, commands of the
shell included. What can go wrong is therefore not threads against threads but

- interrupts against the boot code, which opens lines before it is done;
- devices against the driver, which share memory and registers with it;
- long sequences of calls on data structures that nothing checks at run time.

The boot loader (Limine, whose sources the repository holds and builds) runs
alone. What is hard about it is the data: tables, chains, trees and compressed
streams that other programs wrote, and a memory map it carves while it uses it.

## 1. The system

| Part | Source | State | Operations | Module |
|---|---|---|---|---|
| Buddy allocator | `kernel/mem/pmm.cpp` 161-315 | free lists (links in the free pages), three counters | `buddy_init`, `buddy_alloc`, `buddy_free` | `Buddy`, `BuddyLinks`, abstract `PageAllocator` |
| Bitmap allocator (no longer called) | `kernel/mem/pmm.cpp` 24-139 | bitmap, search hint | `init_pmm`, `pmm_alloc_page`, `pmm_free_page` | `PmmBitmap` |
| Virtio queues | `kernel/drivers/ethernet/virtio_net.cpp` | descriptors, avail and used rings, free list, device's ISR | `virtq_add_buf`, `virtq_kick`, send, interrupt handler | `VirtioNet` |
| Virtio bring-up | the same, 223-422; `cmd_nettest_virtio` | the card's status and features, `rx_q`, `tx_q`, MAC address | `virtio_net_init`, nettest | `VirtioBringUp` |
| Interrupt delivery | `cpu/idt.cpp`, `pic.cpp`, `isr.cpp`, `isr_asm.asm`, `kmain` | gates, PIC masks, requests, lines in service, IF | boot steps, dispatch, EOI, `iretq` | `Interrupts` |
| Keyboard, shell, screen | `keyboard.cpp`, `shell.cpp`, `tty.cpp`, `command.cpp` | shift and caps flags, command buffer and index, cursor and glyphs | one action per key; what kmain and the card's handler print | `Terminal`, abstract `LineEditor` |
| C library | `lib/libc.cpp` | - | `memmove` | `Memmove` |
| Clock | `rtc.cpp`, `cmd_time` | registers read so far | `read_cmos`, `rtc_get_time`, the shift to UTC+8 | `Clock` |
| PCI scan | `cpu/pci.cpp`, `cmd_lspci` | address port, loop counters | the scan, access by access | `PciScan` |
| ATA driver | `drivers/ata/ata.cpp` | polls, what was copied; the drive's phase | `ata_init`, `ata_read_sectors` | `Ata` |
| Boot memory map | `limine/stage2/mm/pmm.c`, allocations of `protos/stivale.c` | the map's entries, what is taken | `init_memmap`, `sanitise_entries`, `memmap_alloc_range`, `ext_mem_alloc` | `BootMemory` |
| Boot disks and partitions | `drivers/disk.c`, `lib/part.c`, `main.c` | one cached block, the index of partitions | `read`, `get_part`, `part_create_index`, where the configuration is | `FileReads`, `BootDisk` |
| Boot filesystems | `fs/fat32.c`, `echfs.c`, `ext2.c`, `file.c` | the file's blocks, how far a read is | open by path, read at an offset | `BootDisk`, `FileReads` |
| Decompressor | `limine/decompressor/gzip` | bits read, bytes written | `tinf_gzip_uncompress`, `tinf_uncompress` | `Inflate`, reference `DeflateFormat` |
| Boot of a kernel | `lib/elf.c`, `protos/stivale.c` | memory, the slide | segments, relocations, header section, modules | `ElfImage` |
| Configuration and menu | `lib/config.c`, `menu.c`, `lib/blib.c` | the configuration's text, the selected entry, the edited line | `config_get_value`, `menu`, `gets`, `uri_open` | `BootMenu` |

How they interact:

- Stage 2 is decompressed, finds the configuration on a partition, shows the menu,
  opens kernel and modules through a filesystem, loads them where the memory map
  says there is room, and hands that map to the kernel. `kmain` builds its
  allocator on it.
- `kmain` sets up the IDT, the PICs and the timer, enables interrupts, builds
  the buddy lists, opens the keyboard's line, reads a sector, scans PCI. The scan
  calls `virtio_net_init` for a network card, which allocates its queues from
  the buddy allocator, and opens the card's line last.
- A key is an interrupt; its handler runs the keyboard, the shell, the command
  and the screen to the end before the EOI, with IF clear. So a command never
  meets another handler, but it may meet any step of the boot code after
  `pic_unmask_irq(1)`: `nettest` uses the card that is being set up, `lspci` the
  ports of the scan, both the allocator.
- Keys print on the same screen as the network card's handler, between two keys, and
  as `kmain`, which prints a last message (`pic_dump_masks`) behind the shell's first
  prompt and may meet keys and the card between two characters of it.
- The card reads and writes the queues in memory between any two accesses of
  the driver, and raises its (level-triggered) line through the slave PIC.
- Scrolling is `memmove` over the framebuffer.

What must hold, part by part: no page in two hands and none lost, counters that
agree with both; lists that survive callers writing to memory they own; no
descriptor offered twice, traffic carried in order, no interrupt lost; a card
reported as initialised is live; every interrupt is acknowledged on the right
chips; the shell runs what was typed and shows what it holds; `time` shows the
time; a scan finds what is there and nothing else; a read never returns another
read's data, and always returns. Of the boot loader: the memory map handed over
offers nothing that is in use and forgets nothing that is not; a path leads to
its file and a read to that file's bytes; what is decompressed is what was
compressed; the kernel in memory is the kernel in its file, moved by one slide;
what boots is the entry that was selected.

Not modelled:

- the E1000 driver (nothing calls its init), `timer.cpp` (no caller), GDT, panic
  screen and CPUID output (no state over time), PCI names, number formatting,
  fonts and colours, and the commands that only print;
- of the boot loader, stivale2, Linux, chainloading and the start of other
  processors (this kernel is booted by stivale; stivale2 is built of the same
  parts), video modes, its console, MTRRs and page-table writes (hardware set up
  in a straight line, and drawing), the boot sector and the installer;
- in parts that are modelled: scancodes with an E0 prefix, short virtqueues, the
  leak of TX buffers, `print` of `kernel.cpp`; `conv_mem_alloc` (a bump pointer),
  BIOS errors (they stop the boot), GUIDs, the signatures and superblock checks
  of filesystems, the stivale structure, themes.

## 2. The modules

Each action is one iteration of a loop, one access to something shared, or, for
code nobody can interrupt or observe half-way, one whole handler. The boot loader's
parsers and searches are pure and are written as operators; an action asks one
question and keeps the answer. Names follow the source. External parts (the
network card, the 8259s, the CMOS clock, the drive, the PCI bridge, the tools
that wrote a disk) do what their specifications allow, narrowed by named
constants. Modules contain, marked as such, mutated forms of some definitions:
small plausible slips that the properties are known to catch.

```
PageAllocator          what callers are promised: no lists, no intermediate steps
   ^ refines
Buddy                  sets of free blocks; one action per loop iteration
   ^ refines           (PA == INSTANCE PageAllocator WITH regions, asked)
BuddyLinks             head pointers and links inside the pages
                       (B == INSTANCE Buddy WITH free_list <- blocks on the chains)

LineEditor             a bounded line: type, erase, hand over whole
   ^ refines           (Editor == INSTANCE LineEditor WITH line <- buffer[1..index])
Terminal

Routines               Memmove, PmmBitmap, Clock, PciScan, Ata: one chosen, the others rest
BootFiles              BootDisk, BootMenu, Inflate | DeflateFormat: questions;
                       or FileReads or ElfImage, step by step
```

- **Buddy** leaves open which block of a list is taken; **BuddyLinks** fixes it
  (last in, first out), has the walk of `buddy_free` step by step through
  `MemoryBlock** cur`, and lets callers write anything into pages they hold.
  `PageAllocator` says more than safety of blocks: `buddy_alloc` may refuse only
  if no aligned run of that size in one entry of the map is unheld, whatever
  calls came before, so a missed merge is a violation of it.
- **VirtioNet** steps `virtq_add_buf` through descriptor, ring slot and index,
  and the handler through ISR read, both index snapshots and both loops. The
  device may take, complete (TX in any order) and signal at any moment between. A
  nettest may send between any two steps of `virtio_net_init` (`boot`), once there is
  a `tx_q`; before DRIVER_OK nobody hears its kick.
  A call of `virtio_net_send_packet` that gets no memory changes nothing and is
  no action.
- **VirtioBringUp** has the card lack capabilities, ignore or delay the reset,
  refuse the features, memory run out in any of the queues or the RX buffers,
  and a nettest between any two steps.
- **Interrupts** models the pair of PICs with priorities, cascade and the
  non-specific EOI, the keyboard as an edge and the card as a level.
- **Terminal** keeps the screen as a set of glyphs at pixel positions and reads
  it like a page. A key is `keyboard_handle_scancode` with all it calls. `KmainPrints`
  is one character of `pic_dump_masks`, `CardReports` what one interrupt of the
  network card prints. The model starts as `init_shell` has printed the first prompt
  behind a line of kmain's, with no key struck before but Shift or Caps Lock.
- **Clock, PciScan, Ata** read one register per step while the device lives on
  (`ata_read_sectors` is asked for a drive, and talks to the master whichever it is);
  **Memmove** is the byte loop, **PmmBitmap** has one action per call. The five
  share nothing, so **Routines** checks them in one run.
- **BootMemory** follows `stivale_load`: sanitise the firmware's map, place the
  kernel's segments, the modules and the page tables, sanitising again after each,
  and hand the map over. Addresses count in fractions of a page. The loops of
  `sanitise_entries` are folds of one turn each (`Turn` over the entries, with `Clip`
  over the others inside; `Swapped`, one exchange of the sort; `Merge`).
- **FileReads** names a byte by the drive and the place it comes from, so a read is
  the sequence of the places that were read. A step is one turn of the loop over the
  blocks of the file (`echfs_read` and `inode_read`, which differ in how a block is
  found) or of the loop in `read` over the blocks of the cache; between blocks other
  things may be read (`Others`: tables, directories, blocks of block numbers), which
  leave their block in the cache.
- **BootDisk** has how files and their blocks are found: the index of partitions,
  allocated anew for each drive and written on from where the last one ended
  (`IndexDrive`); paths, and FAT's 8.3 names, of which only a part is ever written
  (`Written`) and all is compared with what the stack held (`IsShortName`); FAT rows
  with the bytes read along them, echfs tables, ext2's direct, indirect and extent
  blocks. **BootFiles** lays files and directories out on a disk, in its own way, and
  asks for them; the list of blocks that echfs and ext2 find is what FileReads is
  given, whatever it is. The data of a file is laid out too, as what it says when it
  is read as a directory, for no filesystem but echfs looks whether it is one.
- **Inflate** keeps the reader's bit position, which is what `tag` and `bitcount`
  stand for, and has both alphabets, the code lengths' own, overlapping matches
  and the end-of-input flag. **DeflateFormat** is the format's definition; an
  archive written by it must come back.
- **ElfImage** reads the header, places one segment per step and applies one
  relocation per step to the segment in place, as `elf64_load` does; memory is a
  function from addresses to what is there: a byte of the file, zero, a relocated
  pointer, or nothing. `memmap_alloc_range` is here the addresses that are free and
  the ones that were taken (`claimed`); BootMemory has its entries.
- **BootMenu** has lines as key and value.
- `MC*` modules hold the instances' constants; `*Proofs` the theorems, and
  `NumberLemmas` the arithmetic they share.

## 3. The runs

| Run | Question | Bounds, and why they are enough |
|---|---|---|
| `buddy` | are blocks kept apart, none lost, counters right, free buddies merged, and is the promise kept? | four maps (holes, entries that touch inside a block, one block of the largest order, none), orders 0..3, requests of 0, odd, even and too many pages: every split, merge, and refused merge at an entry's end occurs |
| `buddy_links` | do the linked lists stay lists, does each call return, is it `Buddy`? | two maps whose lists hold several blocks, so that buddies are cut from head, middle and end; callers write a null or a stray link |
| `virtio` | one owner per descriptor, order and contents, no lost interrupt, all arrives | two descriptors, indices modulo 4, with and without EVENT_IDX, five packets and frames in any mix, packets also before, between and after the steps that bring the card up: both indices wrap, descriptors are reused, completions overtake |
| `virtio_full` | does a full queue get reported? (violated, see 6) | three packets into two descriptors |
| `bring_up` | what success means, with nettest anywhere | ten polls of the reset in place of 1000, three nettests: before, while and after the card comes alive |
| `irq` | is each interrupt served and acknowledged? | lines 9, 10, 11; four scancodes, three card interrupts: a key may be pending at every boot step from `pic_remap` on, a card interrupt from DRIVER_OK on, and both at once |
| `terminal` | is it a line editor, and is it shown? | two to four columns, two rows: a line fits its row, just not, or spans rows; buffer of three; keys and card between any two characters of kmain's message |
| `routines` | does `memmove` move; do bitmap, hint and callers agree; is it the time; does the scan find all and invent nothing; does a disk read return its data; do scan and reads end? | `memmove`: five addresses, every call of up to four bytes, three byte values. Bitmap: maps with holes, pages of one byte, so that the bitmap itself needs several. Clock: eight dates by seven hours on the sides of every carry, BCD and binary, two seconds pass. Scan: three buses (the last not scanned, as in the code), two devices, three functions, up to three of them present anywhere, two lspci. Drive: two words to a sector, two polls to a timeout, three calls, among them zero and two sectors, the slave, a third drive, and sectors at and behind the end of what the address registers hold |
| `boot_memory` | is the map handed to the kernel sound, offers it nothing in use, forgets it nothing? | half pages, 1 MiB at 4 and 4 GiB at 20; a usable and another entry in any order and overlap, a second usable one above, below or across 4 GiB or none; kernels of one and two segments ending inside a page; with and without a module; two page tables |
| `boot_files` | does each question get the answer that was put there; is the kernel in memory its file, moved by one slide? | clusters and blocks of two bytes, and of three in the cache, so that a chunk ends at either; files of four clusters in every order of five, files of eight and nine blocks in rows of one to eight, backwards, with holes and leaves; reads of one to eight bytes from any byte, of files in partitions that start with a block of the cache and inside one, any number of them with two other blocks read in between; an inode with two direct and two indirect blocks, so that all three kinds are reached, and holes among each; directories that start anywhere in a sector of three; short names of two characters and one, of one or both cases, with two things on the stack behind what is written; data of files that is zero or looks like a directory; GPT and MBR with gaps, six entries at most, on one to three disks; blocks of every coding, alone and in pairs, whole and cut; kernels of both widths, fixed and relocatable, slides 0 and 6, up to two segments, in their order in memory or not, one over the other or behind the end, in the higher half, with pointers inside a segment, outside, across its end and one over the other, and header sections that are missing, short, long or right; up to four keys; a line of three characters |
| `fat_rows` | is a FAT file read as it lies on the disk, in rows or not? (violated, see 6) | the FAT files of `boot_files` |
| `two_drives` | does a read give its own drive's bytes? (violated, see 6) | a file of one block on each of two drives, at the same place |

All constants of this kind stand in the `.cfg` files or the `MC*` modules and are
named in the modules (`MaxTraffic`, `MaxTests`, `MaxBytes`, `MaxEvents`, `MaxTicks`,
`MaxCommands`, `MaxCalls`, `Patience`, `MostParts`, `BaseLen`, `ExtLen`, `Limit`, `Top`,
`Direct`, `Pointers`).
Deadlock is checked in `buddy`, `buddy_links` and `terminal`, which can always go
on; elsewhere the bounded environment comes to rest, or a question has been
answered.

A property may speak for several: `ListsIntact` also says that the walk stands on
its list, `OneOwner` that the TX free list holds what is not in flight,
`DoneMeansLive` which cards meet a null queue, `FindsEveryDevice` of `Routines`
that nothing is invented, `BufferIsAsked` that true means read, `FileIsFound` that
partitions are found and a file's blocks (`FileIsFollowed`); `Routines` combines the ends of scan and drive in
`EveryCallEnds`.

Provisos. Some properties hold only under a condition the statement names:

- `virtio`: the user sends while a descriptor is free (`Paced`), the device
  completes RX in order and polls the RX queue; `NoLostInterrupt` and
  `FramesDelivered` hold on devices that do not offer EVENT_IDX, while the run's
  other properties are checked on devices of both kinds (QEMU's virtio-net-pci,
  which the Makefile runs, offers it unless told otherwise);
- `SentReachesWire`: packets accepted before DRIVER_OK are sent once a later nettest
  has kicked the live card, and not before;
- `NoPanic`, `KeysRead`, `CardServed`: the card is on line 11; keys come after
  `pic_remap`;
- `ShownWasNow`: no minute ends during the reads; a 12-hour chip counts in binary
  and the hour is not twelve;
- `FindsEveryDevice`: no lspci during the scan, nothing on the last bus; that it
  invents nothing also holds after an lspci whose last slot is empty;
- `LineIsShown`: a line fits its row, and `kmain` has finished printing; of prompt
  and line it is then what was printed since the last message of another, not all.
  `BackspaceTakesItsOwn`: `kmain` has finished. Not modelled: keys while `kmain` still
  prints what comes before the first prompt (they are echoed among it, and forgotten by
  `init_shell`), and an interrupt inside one call of `tty_putc` of kmain's;
- `BufferIsAsked`: a read of the slave, or of a sector whose number takes more than
  three bytes, is not promised to be what was asked (`Understood`); a drive other than
  the two must be refused;
- `HandedMapSound`: each usable entry has an address no other entry claims
  (`OwnParts`);
- `FileIsRead`: all that is read is on one drive (`OneDrive`), and no more is read
  than the file has blocks for;
- `FileIsFound`: every disk has a table the loader knows; of several, the index must
  end with the last one's partitions, and be just those when no disk before has any;
  a path goes through directories only; a long FAT name does not end with its sector
  (`Whole`), and a short one is told from others by what is sure of it
  (`Unmistaken`); a component of an ext2 path is not shorter than the one before; no
  block is asked for that is a hole among block numbers; the clusters read of a FAT
  file lie so that rows do not matter (`EasyChain`);
- `Inflated`: success is promised only without stored blocks;
- `ImageLoaded`: a slide only for a relocatable kernel, and 32-bit segments
  linked at their physical address (`Plain`);
- `SelectionBoots`: there is an entry, `DEFAULT_ENTRY` is one of them; no function
  keys while a line is edited; `ConfigIsRead`: no two carriage returns in a row, and
  the kernel is where the URI says, which is what the code does and not what
  CONFIG.md says.

Section 6 says what happens without them.

## 4. Fairness

Safety needs none. Liveness assumes, per module:

- code that was entered goes on (`WF` of the driver's, handler's or allocator's
  steps taken together): nothing preempts the kernel but its own handlers, which
  end. Nobody is obliged to call, to strike a key or to send;
- the device serves a queue it was told of (`VirtioNet`: weak fairness per
  queue; `VirtioBringUp`: of transmitting, and of the reset unless that may
  fail);
- the keyboard controller hands over the bytes it holds, the timer runs
  (`Interrupts`);
- in `Routines`, the scan and the ATA driver go on, and nothing at all about the
  drive, whose waits must end by themselves.

## 5. The proofs

Checked by TLAPS for all constants that satisfy the modules' assumptions: block
sizes double from order to order, usable entries of the memory map do not overlap;
some usable entry holds the bitmap; the firmware's entries end behind their start; both areas of a `memmove` are memory; the number
of ring indices is a multiple of the queue size and larger; sectors have words, the
address registers hold some number of sectors, and a request, of any drive and any
sector, is made of numbers; dates are of this century; a
machine's devices are on its buses; the line has room for a character; blocks have
bytes; bounds are numbers. Every run whose module has such an assumption evaluates it.

The allocator:

- `BuddyProofs!TypeCorrect`: `TypeOK` alone is not inductive. `CallInv` adds what
  the running call knows: in a split the order is at least the request's, in a
  merge at most the largest. `get_order` and the carving loop's choice have a
  lemma each, by the least-number principle (`NumberLemmas`).
- `BuddyProofs!NoOverlapHolds`: `OverlapInv` strengthens `NoOverlap` by
  `CarveApart`: what is left of the entry being carved, and the entries still to
  come, are apart from all blocks. Splitting replaces a block by two within it,
  merging two by the one they make up; both need that sizes double.
- `BuddyProofs!NoPageLostHolds`: page by page. A page is on a list, with a
  caller, in the running call's hands, in what is left of the entry being carved,
  or in an entry to come; a step moves pages between these five places, and their
  union stays the usable pages of the map (`PagesInv`). No places overlap because
  of the theorem before, but that is not needed here.
- `BuddyProofs!CountersExactHolds`: `CountersInv` counts along: the pages of the
  entries passed so far are `total` in the first pass, `managed` in the second, and
  the pages held are `used`. Blocks that are apart add up; at rest, the free pages
  are the usable ones without those held, by the two theorems above.
- `BuddyProofs!CoalescedHolds`: `Aligned` (each block at a multiple of its size) and
  `CoalescedInv`: while an entry is carved its blocks are as large as they can be
  (`CarvedLargest`), so that two buddies do not both fit; a split's upper half has
  its buddy in hand, and a block is inserted only where its buddy is not free.
- `BuddyProofs!Refinement`: each step is one of `PageAllocator`'s or none. What is
  hard is refusal: a call may fail only if no aligned run of pages is unheld. The
  pages of such a run are all on lists (`NoPageLost`); were they all in blocks
  smaller than the run, the smallest of these would have its buddy free beside it,
  which `Coalesced` excludes (`RunHasBlock`); so a list the call has searched was not
  empty (`SearchedInv`).

- `BuddyLinksProofs!LinksRefineBuddy`, `ListsIntactHolds`: the same allocator on the
  words in memory. A free list is a chain of distinct pages from its head to nullptr
  (`Names`); pushing, popping and unlinking keep chains (`NamesPush`, `NamesPop`,
  `NamesUnlink`), and so does a write to a page on none of them (`NamesFrame`). No
  write is: links lie in free blocks, and by `NoOverlap` of `Buddy` these are apart
  from what callers hold and from the block in hand. So the two levels are proved
  together: `BuddyOK`, Buddy's invariants of the sets the lists stand for, shows that a
  step keeps the lists (`LinkInv`); the lists show that it is Buddy's step on those
  sets; and Buddy's own lemmas give `BuddyOK` after it. `LinkInv` also says that
  buddy_free's walk has not passed the buddy (`WalkOK`) and that every block lies
  above the largest size (`Placed`): the buddy of a block in use is then never at
  address 0, which the walk would take for found. That comes from the assumption
  `FitsMemory`: no usable memory in the first MiB and below the largest block. The
  allocator's theorems above thereby hold of the lists in memory.

The virtio driver:

- `VirtioProofs!RingInvHolds`: the distances from the driver's used index to the
  device's, to what the device has taken, to what is offered, add up to no more
  than the number of descriptors (`QueueOK`), so that index arithmetic modulo
  2^16 never goes once round; and a snapshot the handler took lies between what it
  has looked at and what the device has given back (`SnapOK`), so that its loops,
  which compare with `#`, end on it and never pass it.
- `VirtioProofs!NoLostInterruptHolds`: with `AnnouncedOK`, whatever was given back
  and not looked at has an interrupt pending, or to come, or is in a snapshot.
  Both theorems assume `Paced`: an unpaced sender overruns the ring (`virtio_full`).
- `VirtioProofs!OneOwnerHolds`, `FaithfulHolds`: what is in the rings, on top of
  where they are. For TX, `TxOwned` says that there is a chain from `free_head` (with
  the descriptor just taken at its front, while a send runs) which with the
  offered, the held and the given-back descriptors makes up all of them, each once;
  the device may return them in any order, the list takes them back in that one.
  `TxPackets` numbers the packets along. For RX, buffers come back in the order they
  were offered, so each goes round in its own slot: `RxRings`, `RxHead` and
  `RxFilled` say which slot holds which descriptor, `RxFrames` which frame. They
  assume `Paced`, as above, and `"rx" \notin Reorders`: the driver puts an RX buffer
  back at `free_head`, which is its own descriptor only in that order (section 6).
- `DeviceProofs!DoneMeansLiveHolds`: step by step what the card has been told
  (`CardToldOK`), which queues it has (`QueuesOK`), and that a reset cannot take
  effect late, behind the driver's back (`CardResetOK`).

Interrupts, terminal and the kernel's routines:

- `DeviceProofs!NothingLeftHolds`: `ServiceOK` says that the lines in service are
  the one being handled and its cascade, which is what two non-specific EOIs
  clear. `NoPanicHolds`: with the card on line 11 (`Expected`), no other line with
  a cause is ever open, and none is taken before its gate is there.
- `TerminalProofs!LineEditing`, the refinement of `LineEditor`: the line is what
  `cmd_buffer` holds below the index (`LineInv`, no NUL in it); Enter's NUL is then the
  first one, and `CString` the line. It does not look at the screen.
- `TerminalProofs!LineIsShownHolds`, `BackspaceTakesItsOwnHolds`, `TypingKeepsTextHolds`:
  the screen for every size of framebuffer and buffer. `PrintSteps` takes `tty_print`, a fold over sets of
  places in a string, apart into the screens after each character; that the fold
  exists follows from the least length at which it would not. `Reads` turns `Reading`, which counts the
  glyphs before each, into a listing of them in order, so that drawing adds at the
  listing's end (`DrawKeeps`), scrolling cuts its front (`ScrollKeeps`) and backspace its
  end (`RuboutKeeps`). `Screen` is what every call of tty.cpp keeps: glyphs left of the
  cursor in its row or clear above it, so that nothing drawn hits anything drawn
  before. `ScreenInv` adds to it and to `LineInv` that, once kmain has finished,
  an end of prompt and line (`Rest`) stands in the cursor's row from its first column up
  to the cursor (`Row`), or nothing of them and the row is empty (`Shows`): the rest
  of them was printed before another's message, or before a wrap, which does not happen
  where a line fits its row. Every message and every command ends its last line, prints
  nothing or clears the screen (`MessageFresh`, `EffectsFresh`), so that the next
  character finds an empty row. A backspace then finds the line's last character left
  of the cursor, or the left edge (`BackspaceTakes`), which is `BackspaceTakesItsOwn`
  at every width. `TypingKeepsText` needs no line that fits. `LineIsShown` includes the module's type invariant, with every glyph inside
  the framebuffer.
- `RoutineProofs`, `memmove`: `MoveTypeOK` and `LoopInv`, which says that the loop
  runs away from what it has still to read, are inductive; `Moved` follows.
- Bitmap: `BitmapInv`, which is `BitmapTypeOK`, `BitsExact` and `HintSound`
  together, is inductive; `AllocHonest`, an action property, follows from it and
  from the hint being sound.
- Drive, `BufferIsAskedHolds`: `AtaFollows` says that a drive which is there stands
  at the very word the driver reads next; a sector ends for both at once. It is the
  master's sector at the address that was sent (`AtaBase`), whatever was asked for; a
  third drive has been refused before anything was copied, and where the request means
  what was sent (`Understood`) it is the sector that was asked for.
- Scan, `FindsEveryDeviceHolds`: `FoundBehind` says that what was found lies
  behind the scan's place, each once; `Undisturbed`, that without lspci the address port
  holds what the scan wrote and all that lies behind is found; `Honest`, that the
  port holds the scan's own address or one where nothing is.
- Clock, `ShownWasNowHolds`: while no minute has ended, each register read is the
  present one's; then BCD and time zone arithmetic, with its carries over day,
  month and year, are decoded by lemmas. Its hypothesis `Readable` is a chip that
  counts 24 hours, or counts twelve in binary and does not stand at twelve.

The boot loader's memory map, `BootProofs`, for every map the firmware may
return, however its entries lie and overlap, every list of segments and modules and
any number of page tables:

- The invariant is `BootInv`. `InUseStaysInUse` alone is not inductive: that a range
  just carved is in no other usable entry needs usable entries to be apart
  (`UsablesApart`), which the firmware does not promise and the first call of
  `sanitise_entries` has to bring about; `NoPageForgotten` has to say of every step
  what is due at the end (`PagesKept`): a page that is due is whole in one usable
  entry, and no other entry has any of it, unless the loader took some. TLC checked
  `BootInv` on the instance of `boot_memory` before it was proved.
- Loops: a fold is a function of sets of places; that it exists for every length
  (`FoldingExists`) follows from the least length at which it would not. `FoldSteps`
  then gives its values, one turn after the other, and each loop has a lemma for one
  turn and one for all of them.
- Clipping: whatever the order of the entries, one that is cut against all the others
  keeps exactly what is not theirs, at one end or both (`ClipOne`, `ClipAll`), or lies
  under one of them (`Under`), which no cut can undo. Two usable entries that are
  left are apart all the same (`TurnSettles`): an entry that ends up under a usable
  one cut before it would have cut that one. With an address of its own no entry is
  under another (`OwnApart`): that is what `OwnParts` is for, and why `HandedMapSound`
  needs it and `InUseStaysInUse` does not.
- Aligning keeps each whole page from the first MiB on (`AlignedIs`, `PageStays`); the
  sort is a rearrangement that puts the lowest first (`SortedIs`); merging changes
  reclaimable entries only (`MergedIs`). Together, `SanitisedIs`.
- Carving (`CarvedIs`): the map's other entries stay, and pieces of the one that was
  carved, apart from each other, are all that is left of it. Then one lemma per step
  of the boot.
- Assumed: of the firmware's entries, that they end behind their start and are usable
  or not (the loader knows no third kind); of the kernel, that a segment that is
  loaded takes memory. (An empty one that starts inside a page would split it in two,
  and no page of it would be found again.)

The kernel's image, `BootProofs`, for every kernel, every slide and every memory:

- The invariant is `ImageInv`: the segments in place (`Here`) are apart and are all of
  the memory that was taken (`OwnMemory`); each of their bytes is what the file and
  the relocations applied so far say, and the rest is untouched (`SoFar`).
  `ImageLoaded` speaks of the end only; that a later segment or pointer leaves the
  earlier ones alone is what `OwnMemory` adds. TLC checked `ImageInv` on the instance
  of `boot_files` before it was proved.
- A relocation writes inside its segment only (`CoversInside`); of two on one byte the
  later one holds, so nothing is assumed of where pointers lie.
- Assumed, as linkers keep to it: a segment that is loaded takes memory, at least for
  its bytes of the file (the loader takes the difference unchecked), and one in the
  higher half is linked at `FIXED_HIGHER_HALF_OFFSET_64` or above. Addresses are
  numbers: the loader's casts to 32 bits are right below 4 GiB, where `Top` stands
  for the end of the memory.

Reading files, `BootProofs`, for every list of blocks, every sequence of reads and
every size of a block and of the cache's:

- The invariant is `ReadsInv`. What `FileIsRead` lacks is why a chunk that `read` is
  asked for is right before it is there: it is for bytes of one block of the file, in
  a row (`InOneBlock`), and what the cache holds is of the one drive
  (`CacheIsOfDrive`). A chunk of the outer loop ends with its block, so quotient and
  remainder of each of its bytes are known (`SameBlock`); one of the inner loop ends
  with the block in the cache, wherever that lies in the other. TLC checked `ReadsInv`
  on files like those of `boot_files` before it was proved.
- Assumed: drives, blocks and places are numbers, and all that is read is on one drive
  (`two_drives` shows why). A block that cannot be found may be anywhere in a file.

Only model-checked:

- all liveness, which is out of the prover's reach, as is `ENABLED`;
- how the boot loader finds files and blocks (`FileIsFound`), its
  decompressor (`Inflated`) and its menu (`SelectionBoots`, `ConfigIsRead`): these are
  recursive nearly everywhere, in operators that no module with a theorem can use.

## 6. Where the code falls short of its words

Three runs are kept failing:

- `virtio_full`: `virtio_net_send_packet` has a branch "Failed to add buffer to
  virtqueue. Queue full?" (virtio_net.cpp:450), but `virtq_add_buf` never fails;
  the third packet of three takes a descriptor the device still holds.
- `fat_rows`: `fat32_read` gathers adjacent clusters "to improve read performance"
  (fat32.c:311), but after a row of several it looks up the next cluster from the
  row's first (352): the second cluster is read again, and the rest is shifted.
- `two_drives`: the block cache (disk.c:30) knows a block by its number alone, so
  the same block of another drive is answered from the first, although URIs name
  drives (blib.c:17).

The following are visible by changing one thing in a passing run's instance, and
are stated in the modules where noted:

| Change | Then fails | Why |
|---|---|---|
| `NoLostInterrupt`, `FramesDelivered` without `Announces` | themselves | the feature EVENT_IDX is accepted where it is offered (line 331), and `used_event` never written |
| `SentReachesWire` with `sent` in place of `due` | itself | a kick before DRIVER_OK is not heard, and nothing repeats it |
| `Polls = {}` in `VirtioNet.cfg` | `FramesDelivered` | RX buffers are put back without a kick, and the kick after the first ones (389) comes before DRIVER_OK |
| `Reorders` with `"rx"` | `Faithful` | a buffer is put back at `free_head`, not at its own descriptor |
| check `FrameIntact` in `BringUp.cfg` | itself, on cards with VERSION_1 | ten bytes of header where the card takes twelve |
| (none) | nettest before `virtq_alloc` dereferences a null `tx_q`, as `DoneMeansLive` allows | the MAC address it goes by is set first; without memory it stays so |
| `NoPanic` without `Expected` | itself | lines other than 10 and 11 have no gate, line 10 runs the E1000 handler with no base address |
| `EarlyKeys = TRUE` | `KeysRead` | `pic_remap` forgets an edge, and the byte stays in port 0x60 |
| check `ClockRuns` | itself | the timer's line is never opened |
| (none) | with both shift keys held, releasing either ends upper case, in the code and in `Terminal`, which has the code's one flag and no property about fingers | one flag for two keys (keyboard.cpp:57) |
| (none) | the first prompt is followed by a message, and the line by none: after `pic_dump_masks` the screen has no prompt until Enter | `kmain` prints behind `init_shell` (kernel.cpp:202-204) |
| `LineIsShown`, `BackspaceTakesItsOwn` without `todo = <<>>` | themselves | a key's echo stands among the characters kmain prints, and backspace takes kmain's |
| `LineIsShown` without `LineFitsRow` | itself | backspace stops at the left edge of a wrapped row |
| check `EchoShowsText`, buffer of 4 | itself | `echo` alone reads behind the NUL |
| `ShownWasNow` without its proviso | itself | registers read on both sides of a carry |
| `hours24 = FALSE` with BCD, or at twelve | `ShownWasNow` | the PM bit is decoded as part of the BCD number; twelve is not zero |
| `FindsEveryDevice` without `commands = 0` | itself | an lspci between the two port accesses redirects the read |
| ... without the last bus | itself | the loop ends before bus 255 |
| `NoPhantom` without its second disjunct | itself | the redirected read answers for another slot |
| `BufferIsAsked` without `Understood` | itself | the master is selected for either drive (0xE0, ata.cpp:58), and three bytes of the address are sent (60-62): true, and other sectors. The one caller asks for drive 0, sector 0 (kernel.cpp:186) |
| `HandedMapSound` without `OwnParts` | itself | an entry that others cover is clipped piece by piece and survives with nothing, or with what is not its own (pmm.c:59 tests the pointer to the length for zero, not the length; 95-106 clip against each entry once), although STIVALE.md guarantees that usable chunks do not overlap |
| `Inflated` with stored blocks | itself | the length of a stored block is read from one byte of two (tinflate.c:415), so none is accepted; main.c:10 of the decompressor ignores the result |
| `ImageLoaded` with a slide for fixed kernels | itself | the slide is added to the addresses of a kernel without relocations; the -1 of `elf64_load` is ignored (stivale.c:103) |
| ... with 32-bit `paddr` other than `vaddr` | itself | the bytes go to `paddr`, the zeroed tail to `vaddr` (elf.c:378) |
| `FileIsFound` on a disk without a table | itself | the index of partitions has no end (part.c:140) |
| ... with several disks before the last | itself | `part_index` is allocated anew for each drive and `part_index_i` goes on (part.c:182, 193): the partitions of the drives before are lost, their places are zeros or what else is there, and the last ones are written behind the allocation |
| ... with paths through a file | itself | neither `ext2_parse_dirent` (ext2.c:230-259, no look at `i_mode`) nor `fat32_open` (279, none at the attribute) asks whether it is a directory: its data is read as entries, and on ext2 zeros are an entry of length 0, for ever |
| ... without `Unmistaken` | itself | without a dot, or with a short extension, the end of the 8.3 name is what was on the stack, and all eleven characters are compared (fat32.c:126-151, 206): the file may not be found, or another one with the same beginning be taken for it |
| ... with holes among block numbers | itself | a hole is number 0, and block 0 is read for it (ext2.c:374-409), where one between extents stops the boot |
| ... without the condition on ext2 paths | itself | a component is written over the one before without its end (ext2.c:222) |
| ... without the condition on long names | itself | the entry after a long name is looked for behind the sector (fat32.c:202) |
| `SelectionBoots` with `DEFAULT_ENTRY` out of range | its statement: something boots, and there is no such entry | the failure of `config_set_entry` is ignored (menu.c:178), and all entries stay |
| ... with function keys in a line | itself | a key without a character is inserted as one |
| `ConfigIsRead` as CONFIG.md:42-45 has it | its statement | for stivale `KERNEL_DRIVE`, `KERNEL_PARTITION` and a plain path in `KERNEL_PATH` are documented; stivale.c:34-37 takes `KERNEL_PATH` for a URI, panics if it is none, and reads neither of the others (limine.cfg has a URI, and a `KERNEL_PARTITION` beside it that nobody reads) |
| `ConfigIsRead` with two returns in a row | itself | the character moved to the place of a return is not looked at (config.c:31) |

Two more shortfalls lie outside what the runs ask: `uri_open` goes on when
`config_resolve_uri` has failed (blib.c:57), and the length of a gzip extra field is
taken from one byte of two.

## 7. Plan

Done in this order: allocator, virtio, interrupts, terminal, the kernel's other
drivers, the boot loader; and the proofs in the same order, up to the boot loader's
memory map, its reads and the kernel's image.
What is worth doing next:

1. an allocator whose call is interrupted by another one (nettest during
   `virtio_net_init`), in place of the assumption that calls do not nest;
2. the virtio driver together with the allocator: the leak of TX buffers; queues
   that the device cuts short; two cards;
3. stivale2's tags, whose list is threaded through memory like the modules';
4. the chains of `BootDisk` followed step by step, as its blocks are read now, for
   proofs about `FileIsFollowed`.
