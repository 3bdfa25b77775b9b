------------------------------ MODULE BootDisk ------------------------------
(***************************************************************************)
(* How the boot loader finds files: the partition tables and the three     *)
(* filesystems, as functions of what is on the disk. The blocks of a file  *)
(* that are found are read as FileReads says, but for FAT, which reads in  *)
(* rows of clusters.                                                       *)
(***************************************************************************)
EXTENDS FileReads, SequencesExt, FiniteSetsExt

CONSTANTS
    Cluster,        \* cluster_size: bytes of a FAT cluster
    BaseLen, ExtLen, \* characters of a FAT short name and of its extension (8, 3)
    Capitals,       \* from a letter to its capital
    Direct,         \* block numbers an ext2 inode holds itself
    Pointers        \* block numbers an indirect block holds

EndOfChain == 0
Nothing == [kind |-> "nothing"]

\* Answers that are no number of a file: what lies behind a sector in memory, and
\* none, for want of an end.
Outside == -1
ForEver == -2

-----------------------------------------------------------------------------
(* lib/part.c. NO_PARTITION is also what get_part returns when there is no *)
(* table it knows. An entry of a table is a partition or "no partition";   *)
(* hint is about the two bytes that tell an MBR.                           *)

GptGetPart(disk, n) ==
    IF disk.gpt = <<>> THEN "invalid table"
    ELSE IF ~ disk.revision \/ n >= Len(disk.gpt) THEN "end of table"
    ELSE disk.gpt[n + 1]

MbrGetPart(disk, n) ==
    IF ~ disk.hint THEN "invalid table"
    ELSE IF n > 3 THEN "end of table"
    ELSE disk.mbr[n + 1]

GetPart(disk, n) ==
    IF GptGetPart(disk, n) # "invalid table" THEN GptGetPart(disk, n)
    ELSE IF MbrGetPart(disk, n) # "invalid table" THEN MbrGetPart(disk, n)
    ELSE "no partition"

\* bound: entries of a table that are looked at
MostParts == 6

Ends(disk) == {n \in 0 .. MostParts: GetPart(disk, n) = "end of table"}

\* part_create_index, for one drive. The index is allocated anew, with zeros, behind
\* the one before, but written from where that one ended: part_index_i goes on. free
\* is the first place nobody has, and memory what was ever written.
IndexDrive(s, disk) ==
    LET parts == SelectSeq([n \in 1 .. Min(Ends(disk)) |-> GetPart(disk, n - 1)],
                           LAMBDA p: p # "no partition")
        from  == s.free + s.part_index_i
    IN  [part_index |-> s.free, free |-> s.free + Len(parts),
         part_index_i |-> s.part_index_i + Len(parts),
         memory |-> [k \in from .. (from + Len(parts) - 1) |-> parts[k - from + 1]]
                        @@ [k \in s.free .. (s.free + Len(parts) - 1) |-> "zero"] @@ s.memory]

\* part_create_index: what is in the index in the end, or no end of looking for a
\* drive's partitions.
PartIndex(disks) ==
    LET s == FoldLeft(IndexDrive, [part_index |-> 0, free |-> 0, part_index_i |-> 0,
                                   memory |-> <<>>], disks)
        Place(k) == s.part_index + k - 1
    IN  IF \E i \in DOMAIN disks: Ends(disks[i]) = {} THEN <<"for ever">>
        ELSE [k \in 1 .. s.part_index_i |->
                 IF Place(k) \in DOMAIN s.memory THEN s.memory[Place(k)] ELSE "stray"]

\* main.c: the partition the configuration is taken from, among the first four
ConfigPart(disk, holds) ==
    LET found == {n \in 0 .. 3: GetPart(disk, n) \in holds}
    IN  IF found = {} THEN "panic" ELSE GetPart(disk, Min(found))

-----------------------------------------------------------------------------
(* fs/fat32.c. fat is the map from a cluster to the next one.             *)

\* The data area starts at cluster 2.
At(cluster, offset) == (cluster - 2) * Cluster + offset

\* How many clusters are read at once: the run that lies in a row, no longer
\* than the count asks for.
Run(fat, c, count) ==
    LET n[i \in 0 .. count \div Cluster] ==
            IF i < count \div Cluster /\ fat[c + i] = c + i + 1 THEN n[i + 1] ELSE i + 1
    IN  n[0]

RECURSIVE SkipClusters(_, _, _)
SkipClusters(fat, c, loc) ==
    IF loc < Cluster THEN [cluster |-> c, loc |-> loc]
    ELSE SkipClusters(fat, fat[c], loc - Cluster)

\* The cluster after a run is looked up from the run's first cluster.
RECURSIVE ReadRuns(_, _, _, _)
ReadRuns(fat, c, loc, count) ==
    LET size == Least(count, Run(fat, c, count) * Cluster - loc)
        data == [k \in 1 .. size |-> At(c, loc + k - 1)]
    IN  IF size = count \/ fat[c] = EndOfChain THEN data
        ELSE data \o ReadRuns(fat, fat[c], 0, count - size)

Fat32Read(fat, first, loc, count) ==
    LET s == SkipClusters(fat, first, loc) IN ReadRuns(fat, s.cluster, s.loc, count)

toupper(c) == IF c \in DOMAIN Capitals THEN Capitals[c] ELSE c
Upper(s) == [k \in DOMAIN s |-> toupper(s[k])]
Spaces(n) == [k \in 1 .. n |-> " "]

\* fat32_filename_to_8_3: what it writes, in capitals. Only a dot fills up the base, and
\* nothing fills up the rest.
Written(name) ==
    LET dots == {k \in DOMAIN name: name[k] = "."}
        dot  == Min(dots)
    IN  IF dots = {} THEN Upper(name)
        ELSE Upper(SubSeq(name, 1, dot - 1)) \o Spaces(BaseLen - dot + 1)
                 \o Upper(SubSeq(name, dot + 1, Len(name)))

\* It fails on a second dot, and on a part that is too long.
HasShortName(name) ==
    LET dots == {k \in DOMAIN name: name[k] = "."}
    IN  IF dots = {} THEN Len(name) <= BaseLen
        ELSE Cardinality(dots) = 1 /\ Min(dots) <= BaseLen + 1 /\ Len(name) - Min(dots) <= ExtLen

\* All characters of a short name are compared, also those that are not written: they are
\* what was on the stack.
IsShortName(stored, name, stack) ==
    /\ HasShortName(name)
    /\ stored = Written(name) \o SubSeq(stack, Len(Written(name)) + 1, BaseLen + ExtLen)

\* One entry of a directory sector in fat32_open_in. The long name is collected
\* piece by piece, the last piece first; at the first piece it is compared, and
\* the file is the next entry of the same sector. "outside" is what lies behind
\* the sector in memory.
Fat32Entry(sector, i, name, stack, state) ==
    LET e    == sector[i]
        lfn  == IF e.kind = "long" THEN
                    [k \in 1 .. 2 |-> IF k = e.part THEN e.text
                                      ELSE IF e.last THEN <<>> ELSE state.lfn[k]]
                ELSE state.lfn
    IN  CASE state.file # Nothing \/ state.stop -> state
          [] state.file = Nothing /\ e.kind = "end" -> [state EXCEPT !.stop = TRUE]
          [] e.kind = "long" ->
                 [state EXCEPT !.lfn = lfn,
                    !.file = IF e.part = 1 /\ FlattenSeq(lfn) = name
                             THEN IF i = Len(sector) THEN [kind |-> "outside"] ELSE sector[i + 1]
                             ELSE Nothing]
          [] OTHER -> IF IsShortName(e.name, name, stack) THEN [state EXCEPT !.file = e]
                      ELSE state

\* An entry that ends the directory ends its sector only.
Fat32OpenIn(sectors, name, stack) ==
    LET Sector(state, sector) ==
            FoldLeft(LAMBDA s, i: Fat32Entry(sector, i, name, stack, s), [state EXCEPT !.stop = FALSE],
                     [i \in DOMAIN sector |-> i])
    IN  FoldLeft(Sector, [lfn |-> <<<<>>, <<>>>>, file |-> Nothing, stop |-> FALSE], sectors).file

\* fat32_open: the directory is taken for one without a look at its attribute. stacks
\* is what fat32_open_in finds on the stack, for each component.
RECURSIVE Fat32Open(_, _, _, _)
Fat32Open(tree, path, stacks, cluster) ==
    LET file == Fat32OpenIn(tree[cluster], Head(path), Head(stacks))
    IN  IF file.kind # "file" THEN file
        ELSE IF Len(path) = 1 THEN file
        ELSE Fat32Open(tree, Tail(path), Tail(stacks), file.first)

-----------------------------------------------------------------------------
(* fs/echfs.c and fs/ext2.c: how the blocks of a file are found *)

\* echfs_open follows the allocation table once, echfs_read uses the list.
EchfsMap(table, file) ==
    LET blocks == (file.size + Block - 1) \div Block
        map[i \in 0 .. (blocks - 1)] == IF i = 0 THEN file.payload ELSE table[map[i - 1]]
    IN  map

\* echfs_open: a component is looked for among the entries up to the first
\* whose parent is zero, as a directory but for the last one.
RECURSIVE EchfsFind(_, _, _)
EchfsFind(dir, path, parent) ==
    LET ends   == {i \in DOMAIN dir: dir[i].parent = 0}
        before == IF ends = {} THEN dir ELSE SubSeq(dir, 1, Min(ends) - 1)
        type   == IF Len(path) = 1 THEN "file" ELSE "dir"
        hits   == {i \in DOMAIN before: /\ before[i].name = Head(path)
                                        /\ before[i].parent = parent
                                        /\ before[i].type = type}
    IN  IF hits = {} THEN Nothing
        ELSE IF Len(path) = 1 THEN before[Min(hits)]
        ELSE EchfsFind(dir, Tail(path), before[Min(hits)].id)

\* The block numbers an inode holds, single and double indirect. blocks[b] is
\* what block b holds, read as block numbers. A number is used whatever it is: also
\* zero, which stands for a hole.
InodeBlock(inode, blocks, b) ==
    LET one == b - Direct
        two == one - Pointers
    IN  CASE b < Direct -> inode.blocks[b]
          [] b >= Direct /\ one < Pointers -> blocks[inode.single][one]
          [] OTHER -> IF two \div Pointers >= Pointers THEN Panic
                      ELSE blocks[blocks[inode.double][two \div Pointers]][two % Pointers]

\* The entry before the first one that starts behind the block; none is a panic.
EntryOf(entries, b) ==
    LET behind == {i \in DOMAIN entries: b < entries[i].block}
        before == IF behind = {} THEN Len(entries) ELSE Min(behind) - 1
    IN  IF before = 0 THEN [leaf |-> Panic, block |-> b, len |-> 0] ELSE entries[before]

\* ext4_find_leaf: down the tree by its index entries
RECURSIVE Leaf(_, _, _)
Leaf(node, nodes, b) ==
    IF node.depth = 0 THEN node.entries
    ELSE LET child == EntryOf(node.entries, b).leaf
         IN  IF child = Panic THEN <<>> ELSE Leaf(nodes[child], nodes, b)

\* Mutant: the length of the extent is not looked at.
ExtentBlockLong(inode, nodes, b) ==
    LET e == EntryOf(Leaf(inode.root, nodes, b), b)
    IN  e.start + (b - e.block)

\* A block behind the end of its extent, a hole of the file, is a panic.
ExtentBlock(inode, nodes, b) ==
    LET e == EntryOf(Leaf(inode.root, nodes, b), b)
    IN  IF b - e.block >= e.len THEN Panic ELSE e.start + (b - e.block)

Ext2Block(inode, blocks, b) ==
    IF inode.extents THEN ExtentBlock(inode, blocks, b) ELSE InodeBlock(inode, blocks, b)

\* ext2_parse_dirent: a component is written over the one before it, whose end
\* is not cleared. tree maps an inode to what its data is as entries of a directory,
\* which is not asked whether it is one; an entry without length is met again and again.
RECURSIVE Ext2Find(_, _, _, _)
Ext2Find(tree, path, inode, token) ==
    LET new  == Head(path) \o SubSeq(token, Len(Head(path)) + 1, Len(token))
        stays == {i \in DOMAIN tree[inode]: tree[inode][i].rec_len = 0}
        hits == {i \in DOMAIN tree[inode]: /\ tree[inode][i].name = new
                                           /\ \A k \in stays: i <= k}
        next == tree[inode][Min(hits)].inode
    IN  IF hits = {} THEN IF stays = {} THEN 0 ELSE ForEver
        ELSE IF Len(path) = 1 THEN next
        ELSE Ext2Find(tree, Tail(path), next, new)

\* Mutant: inodes are counted from zero.
InodePlaceZero(sb, inode) ==
    sb.tables[((inode - 1) \div sb.per_group) + 1] * Block
        + sb.inode_size * (inode % sb.per_group)

\* ext2_get_inode: where an inode is. A group's descriptor names its table.
InodePlace(sb, inode) ==
    sb.tables[((inode - 1) \div sb.per_group) + 1] * Block
        + sb.inode_size * ((inode - 1) % sb.per_group)

\* fopen: the first filesystem whose signature is on the partition is asked, and no
\* other one when it does not have the file. found is what each one says.
Fopen(signatures, found) ==
    LET asked == SelectSeq(<<"echfs", "ext2", "fat32">>, LAMBDA f: f \in signatures)
    IN  IF asked = <<>> THEN 0 ELSE found[Head(asked)]
=============================================================================
