------------------------------ MODULE FileReads ------------------------------
(***************************************************************************)
(* How the boot loader reads a file whose blocks it can find: the loop of  *)
(* fread over the blocks of echfs or ext2, in it the loop of read over the *)
(* blocks of the cache (drivers/disk.c), and the one block of a BIOS disk  *)
(* that the cache holds from one read to the next.                         *)
(*                                                                         *)
(* A byte is named by where it is: <<drive, address>>. What a read returns *)
(* is the sequence of the bytes it copied.                                 *)
(***************************************************************************)
EXTENDS Integers, Sequences

CONSTANTS
    CacheBlock,     \* BLOCK_SIZE of the cache, in bytes
    Block,          \* block_size of echfs and ext2
    OpenFiles,      \* [drive, first, blocks]: first is where the partition starts
    Reads,          \* what is read of a file: <<first byte, how many>>
    Others          \* <<drive, block>>: what else is read, a block of the cache at a time

\* In place of a block's number: looking for it stops the boot.
Panic == -1

ASSUME ReadsAssumption ==
    /\ CacheBlock \in Nat \ {0} /\ Block \in Nat \ {0}
    /\ \A f \in OpenFiles: f \in [drive: Nat, first: Nat, blocks: Seq(Nat \union {Panic})]
    /\ Reads \subseteq Nat \X Nat
    /\ Others \subseteq Nat \X Nat

VARIABLES
    doing,      \* "nothing", the loop over the "file" or in it the "disk", "done", "panic"
    cache,      \* [drive, block]: what the buffer of the cache holds
    request,    \* [file, loc, count]: the arguments of fread
    progress,   \* of its loop
    transfer,   \* [loc, count, progress]: the arguments of read, and its loop's progress
    copied      \* what the buffer of fread holds

read_vars == <<doing, cache, request, progress, transfer, copied>>

Least(a, b) == IF a < b THEN a ELSE b

BeforeReading ==
    /\ doing = "nothing" /\ cache = [drive |-> 0, block |-> -1]
    /\ request = <<>> /\ progress = 0 /\ transfer = <<>> /\ copied = <<>>

\* cache_block: the block in the cache is known by its number alone.
Cached(drive, block) ==
    IF cache.block = block THEN cache ELSE [drive |-> drive, block |-> block]

\* fread, of what there is
Fread ==
    /\ doing \in {"nothing", "done"}
    /\ \E f \in OpenFiles: \E r \in Reads:
           /\ r[1] + r[2] <= Len(f.blocks) * Block
           /\ request' = [file |-> f, loc |-> r[1], count |-> r[2]]
    /\ doing' = "file" /\ progress' = 0 /\ copied' = <<>>
    /\ UNCHANGED <<cache, transfer>>

\* Partition tables, directories, and the blocks that hold the numbers of others
ReadOther ==
    /\ doing \in {"nothing", "file", "done"}
    /\ \E o \in Others: cache' = Cached(o[1], o[2])
    /\ UNCHANGED <<doing, request, progress, transfer, copied>>

\* The block the next byte is in
NextBlock == request.file.blocks[(request.loc + progress) \div Block + 1]

\* Mutant: a chunk may go on behind its block.
ReadBlockLong ==
    /\ doing = "file" /\ progress < request.count /\ NextBlock # Panic
    /\ transfer' = [loc |-> request.file.first + NextBlock * Block
                                + ((request.loc + progress) % Block),
                    count |-> Least(request.count - progress, Block), progress |-> 0]
    /\ doing' = "disk"
    /\ UNCHANGED <<cache, request, progress, copied>>

\* One turn of fread's loop, up to its call of read: as much as lies in one block
ReadBlock ==
    /\ doing = "file" /\ progress < request.count /\ NextBlock # Panic
    /\ LET offset == (request.loc + progress) % Block
       IN  transfer' = [loc |-> request.file.first + NextBlock * Block + offset,
                        count |-> Least(request.count - progress, Block - offset),
                        progress |-> 0]
    /\ doing' = "disk"
    /\ UNCHANGED <<cache, request, progress, copied>>

NoBlock ==
    /\ doing = "file" /\ progress < request.count /\ NextBlock = Panic
    /\ doing' = "panic"
    /\ UNCHANGED <<cache, request, progress, transfer, copied>>

\* One turn of read's loop: what the cache holds, from the offset on
ReadCache ==
    /\ doing = "disk" /\ transfer.progress < transfer.count
    /\ LET at     == transfer.loc + transfer.progress
           offset == at % CacheBlock
           chunk  == Least(transfer.count - transfer.progress, CacheBlock - offset)
           held   == Cached(request.file.drive, at \div CacheBlock)
       IN  /\ cache' = held
           /\ copied' = copied \o
                  [k \in 1 .. chunk |-> <<held.drive, held.block * CacheBlock + offset + k - 1>>]
           /\ transfer' = [transfer EXCEPT !.progress = @ + chunk]
    /\ UNCHANGED <<doing, request, progress>>

\* read returns, and fread's loop goes on.
EndRead ==
    /\ doing = "disk" /\ transfer.progress >= transfer.count
    /\ doing' = "file" /\ progress' = progress + transfer.count
    /\ UNCHANGED <<cache, request, transfer, copied>>

EndFread ==
    /\ doing = "file" /\ progress >= request.count
    /\ doing' = "done"
    /\ UNCHANGED <<cache, request, progress, transfer, copied>>

ReadingFiles == Fread \/ ReadOther \/ ReadBlock \/ NoBlock \/ ReadCache \/ EndRead \/ EndFread

ReadingSpec == BeforeReading /\ [][ReadingFiles]_read_vars

-----------------------------------------------------------------------------
\* Where the n-th byte of a file is, counted from zero
BlockOf(f, n) == f.blocks[n \div Block + 1]
ByteOf(f, n) == <<f.drive, f.first + BlockOf(f, n) * Block + (n % Block)>>
Unreadable == \E n \in 0 .. (request.count - 1): BlockOf(request.file, request.loc + n) = Panic

\* All that is read is on one drive.
OneDrive ==
    \A f \in OpenFiles: /\ \A g \in OpenFiles: f.drive = g.drive
                        /\ \A o \in Others: f.drive = o[1]

\* A read copies the bytes that were asked for, in their order and no others, wherever
\* it starts and ends, however its blocks lie on the disk and across the blocks of the
\* cache, and whatever the cache held before; and the boot stops only for a block that
\* was asked for and cannot be found. All that is read is on one drive.
FileIsRead ==
    OneDrive /\ doing # "nothing" =>
        /\ copied = [k \in 1 .. Len(copied) |-> ByteOf(request.file, request.loc + k - 1)]
        /\ Len(copied) <= request.count
        /\ doing = "done" => Len(copied) = request.count /\ ~ Unreadable
        /\ doing = "panic" => Unreadable

\* The same of several drives, as URIs name them: what is copied is on the file's drive.
DriveIsRead == \A k \in DOMAIN copied: copied[k][1] = request.file.drive

-----------------------------------------------------------------------------
(* The inductive invariant behind FileIsRead *)

ReadsTypeOK ==
    /\ doing \in {"nothing", "file", "disk", "done", "panic"}
    /\ cache \in [drive: Nat, block: Nat \union {-1}]
    /\ progress \in Nat /\ copied \in Seq(Nat \X Nat)
    /\ doing # "nothing" =>
           /\ request \in [file: OpenFiles, loc: Nat, count: Nat]
           /\ request.loc + request.count <= Len(request.file.blocks) * Block
    /\ doing = "disk" => transfer \in [loc: Nat, count: Nat \ {0}, progress: Nat]

\* How many bytes were copied
Done == progress + IF doing = "disk" THEN transfer.progress ELSE 0

\* What is in the cache is of the only drive.
CacheIsOfDrive == cache.block # -1 => \A f \in OpenFiles: cache.drive = f.drive

\* A call of read is for bytes of one block, in a row.
InOneBlock ==
    /\ transfer.progress <= transfer.count /\ progress + transfer.count <= request.count
    /\ \A n \in 0 .. (transfer.count - 1):
           /\ BlockOf(request.file, request.loc + progress + n) # Panic
           /\ ByteOf(request.file, request.loc + progress + n) =
                  <<request.file.drive, transfer.loc + n>>

\* Every block up to here was found.
AllFound == \A n \in 0 .. (progress - 1): BlockOf(request.file, request.loc + n) # Panic

ReadsInv ==
    /\ ReadsTypeOK
    /\ OneDrive => CacheIsOfDrive
    /\ doing # "nothing" =>
           /\ Len(copied) = Done
           /\ progress <= request.count
           /\ AllFound
           /\ OneDrive =>
                  copied = [k \in 1 .. Len(copied) |-> ByteOf(request.file, request.loc + k - 1)]
    /\ doing = "disk" => InOneBlock
    /\ doing = "done" => progress = request.count
    /\ doing = "panic" => Unreadable
=============================================================================
