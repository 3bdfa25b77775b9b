------------------------------ MODULE BootFiles ------------------------------
(***************************************************************************)
(* The questions the boot loader answers on its way to the kernel: which   *)
(* partitions a disk has, where a file is and where its blocks are, what   *)
(* compressed data stands for, which entry the menu boots and with which   *)
(* modules. One is asked, and answered; the answer is held against what    *)
(* was put there, which the model says in its own way. Or files are read,  *)
(* or a kernel is loaded, step by step.                                    *)
(***************************************************************************)
EXTENDS BootDisk, BootMenu, ElfImage, Inflate, DeflateFormat

CONSTANTS
    Disks,      \* disks with their partition tables
    Drives,     \* the disks of a machine, in a sequence
    Chains,     \* the clusters or blocks of a file, in its order
    Files,      \* the same for longer files: [list, depth, hole]; 0 for a hole of pointers
    Trees,      \* directory trees: from a directory to its <<name, number>>s
    Paths,      \* sequences of names, which are sequences of characters
    Contents,   \* what data of a file says as a directory; nothing for zeros
    Stacks,     \* what may be on the stack in the place of a short name
    Superblocks, \* of ext2: where the tables of inodes are
    Pads,       \* how many entries come before the first one of a directory
    Archives,   \* [blocks, flags, cut]: compressed data, cut bytes missing
    Texts,      \* sequences of characters, some of them returns
    Configs,    \* [globals, entries]: configurations
    Strokes,    \* keys struck at the menu
    Lines,      \* [text, keys]: a line to edit, and how
    Modules     \* [kernel, modules]: what an entry of the configuration loads

VARIABLES job, answer
vars == <<job, answer, image_vars, read_vars>>

ImageRests ==
    /\ image = <<>> /\ slide = 0 /\ stage = "rests" /\ next_segment = 0 /\ next_rela = 0
    /\ memory = <<>> /\ claimed = {} /\ top_addr = 0 /\ entry_point = 0

Init ==
    /\ answer = <<>> /\ BeforeReading
    /\ \/ job \in {[kind |-> "none"], [kind |-> "read"]} /\ ImageRests
       \/ job = [kind |-> "load"] /\ BeforeLoading

Idle == job.kind = "none"
Ask(j, a) == job' = j /\ answer' = a /\ UNCHANGED <<image_vars, read_vars>>

Root == 2

-----------------------------------------------------------------------------
(* What was written to the disk by the tools that made it *)

FatOf(chain) ==
    [c \in 0 .. 20 |-> IF c \in ToSet(chain) \ {Last(chain)}
                       THEN chain[1 + CHOOSE i \in DOMAIN chain: chain[i] = c] ELSE EndOfChain]

ListAt(list, b) == IF b < Len(list) THEN list[b + 1] ELSE 0

\* An inode that holds its block numbers, with indirect blocks 90, 91 and on. A hole is
\* a zero, and so is an indirect block that would hold nothing but holes. All other
\* blocks, the first one among them, hold what happens to be there.
PointersOf(list) ==
    LET Row(n) == [o \in 0 .. (Pointers - 1) |-> ListAt(list, Direct + Pointers * n + o)]
        Indirect(k, rows) ==
            IF \A n \in rows: Row(n) = [o \in 0 .. (Pointers - 1) |-> 0] THEN 0 ELSE k
    IN  [inode |-> [extents |-> FALSE, blocks |-> [b \in 0 .. (Direct - 1) |-> ListAt(list, b)],
                    single |-> Indirect(90, {0}), double |-> Indirect(91, 1 .. Pointers)],
         blocks |-> [k \in 0 .. 99 |->
                        CASE k = 90 -> Row(0)
                          [] k = 91 -> [o \in 0 .. (Pointers - 1) |-> Indirect(92 + o, {o + 1})]
                          [] k \in 92 .. (91 + Pointers) -> Row(k - 91)
                          [] OTHER -> [o \in 0 .. (Pointers - 1) |-> 99]]]

\* An inode with extents, in the inode or two to a leaf. With a hole, the first
\* extent lacks its last block.
ExtentsOf(f) ==
    LET starts == SelectSeq([i \in DOMAIN f.list |-> i],
                            LAMBDA i: IF i = 1 THEN TRUE ELSE f.list[i] # f.list[i - 1] + 1)
        After(k) == IF k = Len(starts) THEN Len(f.list) + 1 ELSE starts[k + 1]
        extents == SelectSeq([k \in DOMAIN starts |->
                       [block |-> starts[k] - 1, start |-> f.list[starts[k]],
                        len |-> After(k) - starts[k] - IF f.hole /\ k = 1 THEN 1 ELSE 0]],
                       LAMBDA e: e.len > 0)
        Pair(n) == SubSeq(extents, 2 * n - 1, Least(2 * n, Len(extents)))
        leaves == (Len(extents) + 1) \div 2
    IN  [inode |-> [extents |-> TRUE, root |->
             IF f.depth = 0 THEN [depth |-> 0, entries |-> extents]
             ELSE [depth |-> 1, entries |->
                      [n \in 1 .. leaves |-> [block |-> Pair(n)[1].block, leaf |-> 90 + n]]]],
         blocks |-> [k \in 91 .. (90 + leaves) |-> [depth |-> 0, entries |-> Pair(k - 90)]]]

\* The short name of a file: base and extension in capitals, each filled up with spaces,
\* or one made up.
ShortName(name) ==
    LET dot == Min({k \in DOMAIN name: name[k] = "."} \union {Len(name) + 1})
        base == SubSeq(name, 1, dot - 1)
        ext  == SubSeq(name, dot + 1, Len(name))
        Filled(s, n) == Upper(s \o SubSeq(Spaces(n), Len(s) + 1, n))
        made_up == <<"~">> \o Spaces(BaseLen + ExtLen - 1)
    IN  IF Len(base) > BaseLen \/ Len(ext) > ExtLen \/ "." \in ToSet(ext) THEN made_up
        ELSE Filled(base, BaseLen) \o Filled(ext, ExtLen)

\* A name in capitals with a short name of its own has no other.
HasLongName(name) == Head(ShortName(name)) = "~" \/ name # Upper(name)

\* A name of more than two characters takes two pieces of a long name; three entries
\* are a sector. pad entries of deleted files come first.
FatDirectory(entries, pad) ==
    LET Short(e) == <<[kind |-> "file", name |-> ShortName(e[1]), first |-> e[2]]>>
        Pieces(e) ==
            IF ~ HasLongName(e[1]) THEN Short(e)
            ELSE (IF Len(e[1]) > 2 THEN <<[kind |-> "long", part |-> 2, last |-> TRUE,
                                           text |-> SubSeq(e[1], 3, Len(e[1]))]>> ELSE <<>>)
                     \o <<[kind |-> "long", part |-> 1, last |-> Len(e[1]) <= 2,
                           text |-> SubSeq(e[1], 1, Least(2, Len(e[1])))]>> \o Short(e)
        slots == [k \in 1 .. pad |-> [kind |-> "file", name |-> <<"deleted">>, first |-> 0]]
                     \o FlattenSeq([i \in DOMAIN entries |-> Pieces(entries[i])])
        Slot(k) == IF k <= Len(slots) THEN slots[k] ELSE [kind |-> "end"]
    IN  [n \in 1 .. (Len(slots) + 2) \div 3 |-> <<Slot(3 * n - 2), Slot(3 * n - 1), Slot(3 * n)>>]

Numbers(tree) == {Root} \union UNION {{tree[d][i][2]: i \in DOMAIN tree[d]}: d \in DOMAIN tree}

\* The data of every file is content.
FatTree(tree, pad, content) ==
    [c \in Numbers(tree) |-> IF c \in DOMAIN tree THEN FatDirectory(tree[c], pad)
                             ELSE FatDirectory(content, 0)]

\* One table for all directories; what is behind its end is left from before.
EchfsTable(tree, pad) ==
    LET Entry(name, parent, type, id) ==
            [name |-> name, parent |-> parent, type |-> type, id |-> id]
        Of(d) == [i \in DOMAIN tree[d] |->
                     Entry(tree[d][i][1], d,
                           IF tree[d][i][2] \in DOMAIN tree THEN "dir" ELSE "file", tree[d][i][2])]
    IN  [k \in 1 .. pad |-> Entry(<<"old">>, -2, "file", 0)]
            \o FlattenSeq([d \in 1 .. Max(DOMAIN tree) |->
                              IF d \in DOMAIN tree THEN Of(d) ELSE <<>>])
            \o <<Entry(<<>>, 0, "file", 0), Entry(<<"a">>, Root, "file", 99)>>

\* The same; zeros are an entry without name and length.
Ext2Tree(tree, content) ==
    LET Entries2(d) == [i \in DOMAIN d |-> [name |-> d[i][1], inode |-> d[i][2], rec_len |-> 1]]
    IN  [c \in Numbers(tree) |->
            IF c \in DOMAIN tree THEN Entries2(tree[c])
            ELSE IF content = <<>> THEN <<[name |-> <<>>, inode |-> 0, rec_len |-> 0]>>
            ELSE Entries2(content)]

ConfigLines(c) ==
    c.globals \o FlattenSeq([i \in DOMAIN c.entries |->
        <<EntryLine(c.entries[i].name, <<>>)>> \o c.entries[i].lines])

\* The drive and the partition of the kernel may be given as CONFIG.md has it, too.
ModuleLines(m) ==
    <<Line("PROTOCOL", "stivale"), Line("KERNEL_DRIVE", 131), Line("KERNEL_PARTITION", 7),
      Line("KERNEL_PATH", m.kernel)>>
        \o FlattenSeq([i \in DOMAIN m.modules |->
               <<Line("MODULE_PARTITION", m.modules[i].partition),
                 Line("MODULE_PATH", m.modules[i].path),
                 Line("MODULE_STRING", m.modules[i].string)>>])

-----------------------------------------------------------------------------
(* The questions *)

ReadFiles == job.kind = "read" /\ ReadingFiles /\ UNCHANGED <<job, answer, image_vars>>

FindPartitions ==
    Idle /\ \E ds \in Drives: Ask([kind |-> "partitions", disks |-> ds], PartIndex(ds))

FindConfig ==
    Idle /\ \E d \in Disks: \E holds \in SUBSET {"p1", "p2", "p3"}:
        Ask([kind |-> "config", disk |-> d, holds |-> holds], ConfigPart(d, holds))

ReadFat ==
    Idle /\ \E c \in Chains: \E r \in Reads:
        /\ r[1] + r[2] <= Len(c) * Cluster
        /\ Ask([kind |-> "fat", list |-> c, loc |-> r[1], count |-> r[2]],
               Fat32Read(FatOf(c), c[1], r[1], r[2]))

FollowEchfs ==
    Idle /\ \E c \in Chains:
        Ask([kind |-> "blocks", list |-> c, stops |-> {}, holes |-> {}],
            EchfsMap(FatOf(c), [payload |-> c[1], size |-> Len(c) * Block - 1]))

FollowExt2 ==
    Idle /\ \E f \in Files:
        LET s == IF f.depth = -1 THEN PointersOf(f.list) ELSE ExtentsOf(f)
            runs == {b \in 1 .. Len(f.list): b = Len(f.list) \/ f.list[b + 1] # f.list[b] + 1}
            beyond == IF f.depth = -1 THEN (Direct + Pointers + Pointers * Pointers) .. 99 ELSE {}
        IN  Ask([kind |-> "blocks", list |-> f.list,
                 stops |-> beyond \union IF f.hole THEN {Min(runs) - 1} ELSE {},
                 holes |-> {b \in 0 .. (Len(f.list) - 1): f.list[b + 1] = 0}],
                [b \in 0 .. (Len(f.list) - 1) |-> Ext2Block(s.inode, s.blocks, b)])

\* The number of the file that fopen finds
FindFile ==
    Idle /\ \E t \in Trees: \E p \in Paths: \E n \in Pads: \E c \in Contents:
        \E on \in {{}, {"echfs"}, {"ext2"}, {"fat32"}}:
            \E stacks \in [DOMAIN p -> Stacks]:
                LET fat == Fat32Open(FatTree(t, n, c), p, stacks, Root)
                    ech == EchfsFind(EchfsTable(t, n), p, Root)
                    found == [fat32 |-> CASE fat.kind = "file" -> fat.first
                                          [] fat.kind = "outside" -> Outside
                                          [] OTHER -> 0,
                              echfs |-> IF ech = Nothing THEN 0 ELSE ech.id,
                              ext2  |-> Ext2Find(Ext2Tree(t, c), p, Root, <<>>)]
                IN  Ask([kind |-> "find", on |-> on, tree |-> t, path |-> p, pad |-> n],
                        Fopen(on, found))

FindInode ==
    Idle /\ \E sb \in Superblocks: \E n \in 1 .. (Len(sb.tables) * sb.per_group):
        Ask([kind |-> "inode", sb |-> sb, inode |-> n], InodePlace(sb, n))

Unpack ==
    Idle /\ \E a \in Archives:
        LET file == Gzipped(a.blocks, a.flags)
            read == Gunzip(SubSeq(file, 1, Len(file) - a.cut))
        IN  Ask([kind |-> "unpack", archive |-> a], [ok |-> read.ok, out |-> read.out])

LoadKernel == job.kind = "load" /\ Loading /\ UNCHANGED <<job, answer, read_vars>>

ReadConfig == Idle /\ \E t \in Texts: Ask([kind |-> "text", text |-> t], WithoutReturns(t, 1))

UseMenu ==
    Idle /\ \E c \in Configs: \E keys \in Strokes:
        Ask([kind |-> "menu", config |-> c, keys |-> keys], Menu(ConfigLines(c), keys))

EditLine == Idle /\ \E l \in Lines: Ask([kind |-> "line", line |-> l], Gets(l.text, l.keys))

FindModules ==
    Idle /\ \E m \in Modules: \E drive \in {128, 129}:
        Ask([kind |-> "modules", entry |-> m, drive |-> drive], LoadedFor(ModuleLines(m), drive))

Next ==
    \/ FindPartitions \/ FindConfig
    \/ FindFile \/ FindInode
    \/ ReadFat \/ FollowEchfs \/ FollowExt2 \/ ReadFiles
    \/ Unpack \/ LoadKernel
    \/ ReadConfig \/ UseMenu \/ EditLine \/ FindModules

Spec == Init /\ [][Next]_vars

-----------------------------------------------------------------------------
(* Answers *)

Asked(kind) == job.kind = kind

\* The bytes of a file of which the job's list says where its clusters are
FatBytes ==
    [k \in 1 .. job.count |->
        LET at == job.loc + k - 1 IN (job.list[at \div Cluster + 1] - 2) * Cluster + (at % Cluster)]

\* The clusters that are read lie in a row, no more of them than the count fills,
\* or no two of them do, or the count does not fill one: fat32_read goes on from
\* the wrong cluster after a row of several.
EasyChain ==
    LET Adjacent(b) == job.list[b + 2] = job.list[b + 1] + 1
        touched == {(job.loc + k) \div Cluster: k \in 0 .. (job.count - 1)}
        steps == {b \in touched: b + 1 \in touched}
    IN  \/ job.count < Cluster
        \/ \A b \in steps: ~ Adjacent(b)
        \/ (\A b \in steps: Adjacent(b)) /\ Cardinality(steps) <= job.count \div Cluster

\* A file is followed over the disk as it was put there: along a FAT, for a chain the
\* reader can follow, the bytes that were asked for come, wherever the read starts and
\* ends; along an echfs table, the direct and indirect blocks of an inode or its extents,
\* every block is found, around holes too; a hole between extents, or a block too far
\* for its inode, stops the boot. Of a hole among block numbers nothing is said: it is
\* block zero to the loader.
FileIsFollowed ==
    /\ Asked("fat") /\ EasyChain => answer = FatBytes
    /\ Asked("blocks") =>
           /\ DOMAIN answer = 0 .. (Len(job.list) - 1)
           /\ \A b \in DOMAIN answer \ job.holes:
                  answer[b] = IF b \in job.stops THEN Panic ELSE job.list[b + 1]

\* The same of every chain of clusters, as the comment on them has it: reading them
\* in rows is for speed.
FatFileIsRead == Asked("fat") => answer = FatBytes

\* What the disks say of their partitions, and where the configuration is
PartitionsFound ==
    LET Slots(d) == IF d.gpt # <<>> THEN d.gpt ELSE d.mbr
        HasTable(d) == IF d.gpt # <<>> THEN d.revision ELSE d.hint
        Own(d) == SelectSeq(Slots(d), LAMBDA p: p # "no partition")
        four(d) == SubSeq(Slots(d), 1, Least(4, Len(Slots(d))))
        Has(d)  == SelectSeq(four(d), LAMBDA p: p \in job.holds)
    IN  /\ Asked("partitions") /\ (\A i \in DOMAIN job.disks: HasTable(job.disks[i])) =>
               /\ IsSuffix(Own(Last(job.disks)), answer)
               /\ (\A i \in DOMAIN Front(job.disks): Own(job.disks[i]) = <<>>) =>
                      answer = Own(Last(job.disks))
        /\ Asked("config") /\ HasTable(job.disk) =>
               answer = IF Has(job.disk) = <<>> THEN "panic" ELSE Head(Has(job.disk))

\* Two names are the same, on FAT also in other letters if they are short.
SameName(a, b) ==
    \/ a = b
    \/ job.on = {"fat32"} /\ Head(ShortName(a)) # "~" /\ ShortName(a) = ShortName(b)

ThroughFile == -3

RECURSIVE Lookup(_, _, _)
Lookup(tree, path, dir) ==
    LET hits == {i \in DOMAIN tree[dir]: SameName(tree[dir][i][1], Head(path))}
        next == tree[dir][Min(hits)][2]
    IN  IF hits = {} THEN 0
        ELSE IF Len(path) = 1 THEN next
        ELSE IF next \notin DOMAIN tree THEN ThroughFile
        ELSE Lookup(tree, Tail(path), next)

\* On FAT, a name without a dot, or with a short extension, is sure of its first
\* characters only. No short name in the tree begins with them but its own, which has a
\* long one beside it.
Unmistaken ==
    LET Sure(name) ==
            LET dot == Min({k \in DOMAIN name: name[k] = "."} \union {Len(name) + 1})
            IN  SubSeq(ShortName(name), 1,
                       IF dot > Len(name) THEN Len(name) ELSE BaseLen + Len(name) - dot)
    IN  \A name \in {n \in ToSet(job.path): Head(ShortName(n)) # "~"}: \A d \in DOMAIN job.tree:
            \A i \in DOMAIN job.tree[d]:
                LET other == job.tree[d][i][1]
                IN  IsPrefix(Sure(name), ShortName(other)) =>
                        \/ Len(Sure(name)) = BaseLen + ExtLen
                        \/ other = name /\ HasLongName(name)

\* Every partition of the last disk that has one is in the index, in its order, the
\* ones of the GPT if there is one, and nothing else if no disk before has any; the
\* configuration is taken from the first one that has it among the first four entries.
\* Opening a path that goes through directories only finds the file that has it, in any
\* directory, and nothing when there is none; the inode of that number is in its
\* place in the tables, one after the other; and from there the file is followed. A
\* long name of FAT must not end with its sector, and a short one be told from others by
\* what is sure of it (Unmistaken); a component of an ext2 path must not be shorter than
\* the one before, whose end would stay.
FileIsFound ==
    LET want == Lookup(job.tree, job.path, Root)
        Whole(d) == \A i \in DOMAIN d: Last(d[i]).kind = "long" => Last(d[i]).part # 1
        tables == FlattenSeq([g \in DOMAIN job.sb.tables |-> [k \in 1 .. job.sb.per_group |->
                      job.sb.tables[g] * Block + (k - 1) * job.sb.inode_size]])
    IN  /\ PartitionsFound
        /\ FileIsFollowed
        /\ Asked("find") /\ want # ThroughFile /\ want \notin DOMAIN job.tree =>
               \/ answer = IF job.on = {} THEN 0 ELSE want
               \/ /\ job.on = {"fat32"}
                  /\ \/ ~ Unmistaken
                     \/ \E d \in DOMAIN job.tree: ~ Whole(FatDirectory(job.tree[d], job.pad))
               \/ /\ job.on = {"ext2"}
                  /\ \E i \in 2 .. Len(job.path): Len(job.path[i]) < Len(job.path[i - 1])
        /\ Asked("inode") => answer = tables[job.inode]

\* Decompression is right when it succeeds, whatever it is given; and it succeeds
\* on whole data whose matches make sense, if no block of it is stored.
Inflated ==
    Asked("unpack") =>
        LET blocks == job.archive.blocks
            stored == \E i \in DOMAIN blocks: blocks[i].coding = "stored"
        IN  /\ answer.ok => /\ job.archive.cut = 0
                            /\ Meaningful(blocks)
                            /\ answer.out = Expansion(blocks)
            /\ job.archive.cut = 0 /\ Meaningful(blocks) /\ ~ stored => answer.ok

\* The line an editor with a cursor between before and after would have
Typed(text, keys) ==
    LET Key(z, key) ==
            CASE key = "left" /\ z.before # <<>> ->
                     [before |-> Front(z.before), after |-> <<Last(z.before)>> \o z.after]
              [] key = "right" /\ z.after # <<>> ->
                     [before |-> Append(z.before, Head(z.after)), after |-> Tail(z.after)]
              [] key = "backspace" /\ z.before # <<>> -> [z EXCEPT !.before = Front(@)]
              [] key \notin {"left", "right", "backspace"} /\ Len(z.before \o z.after) < Limit - 1 ->
                     [z EXCEPT !.before = Append(@, key)]
              [] OTHER -> z
        z == FoldLeft(Key, [before |-> text, after |-> <<>>], keys)
    IN  z.before \o z.after

\* The entry after the keys up to the one that boots: what the arrows say, or the
\* default when the countdown ran out first
ChosenEntry(c, keys) ==
    LET default == FirstOf(ConfigLines(c), <<"DEFAULT_ENTRY">>, 0)
        timeout == FirstOf(ConfigLines(c), <<"TIMEOUT">>, 5)
        boots == {i \in DOMAIN keys: keys[i] \in {"enter", "edit"}}
        n     == Len(c.entries)
        moves == SubSeq(keys, 1, Min(boots \union {Len(keys)}))
        Count(key) == Len(SelectSeq(moves, LAMBDA k: k = key))
        timed_out == /\ Len(keys) >= timeout
                     /\ \A i \in 1 .. timeout: keys[i] \in {"tick", "function"}
    IN  IF timed_out THEN [entry |-> default + 1, edit |-> <<>>, booted |-> TRUE]
        ELSE [entry |-> ((default + Count("down") + n * Len(keys) - Count("up")) % n) + 1,
              edit |-> IF boots # {} /\ keys[Min(boots)] = "edit"
                       THEN SubSeq(keys, Min(boots) + 1, Len(keys)) ELSE <<>>,
              booted |-> IF boots = {} THEN FALSE
                         ELSE keys[Min(boots)] = "enter" \/ Last(keys) = "enter"]

\* What is booted is the entry the user was shown as selected, nothing of another
\* one in it, with its own command line or that line as it was edited; and only
\* after Enter or the whole countdown. The configuration has an entry, the default
\* is one of them, and a name is not an assignment. Lines are edited without
\* function keys.
SelectionBoots ==
    /\ Asked("menu") =>
           LET c == job.config
               chosen == ChosenEntry(c, job.keys)
               own == c.entries[chosen.entry].lines
               line == FirstOf(own, <<"KERNEL_CMDLINE", "CMDLINE">>, <<>>)
           IN  c.entries # <<>> /\ FirstOf(ConfigLines(c), <<"DEFAULT_ENTRY">>, 0) < Len(c.entries) =>
                   IF ~ chosen.booted THEN answer = [now |-> "waits"]
                   ELSE /\ answer.now = "boots"
                        /\ Tail(answer.entry) = own
                        /\ answer.cmdline = IF chosen.edit = <<>> THEN line
                                            ELSE Typed(line, Front(chosen.edit))
    /\ Asked("line") /\ "function" \notin ToSet(job.line.keys) =>
           ~ answer.wild /\ Text(answer.buf) = Typed(job.line.text, Front(job.line.keys))

\* The configuration is read without its carriage returns (two in a row are one too
\* many). The kernel is where the URI in KERNEL_PATH says, on the boot drive if that
\* names none, and no other line says where: without a bios URI there is no boot
\* (CONFIG.md documents a plain path, with KERNEL_DRIVE and KERNEL_PARTITION beside it,
\* which stivale.c does not read). The n-th module has the n-th partition and the n-th
\* string, as CONFIG.md says.
ConfigIsRead ==
    /\ Asked("text") =>
           \/ answer = SelectSeq(job.text, LAMBDA x: x # "return")
           \/ \E i \in 2 .. Len(job.text): job.text[i] = "return" /\ job.text[i - 1] = "return"
    /\ Asked("modules") =>
           LET uri == job.entry.kernel
               drive == IF uri.drive = <<>> THEN job.drive ELSE uri.drive[1]
           IN  IF uri.resource # "bios" \/ uri.partition = <<>> THEN answer = [now |-> "panic"]
               ELSE /\ answer.kernel = [drive |-> drive, partition |-> uri.partition[1],
                                        path |-> uri.path]
                    /\ answer.modules = [i \in DOMAIN job.entry.modules |->
                           [path |-> job.entry.modules[i].path,
                            string |-> job.entry.modules[i].string,
                            drive |-> drive, partition |-> job.entry.modules[i].partition]]
=============================================================================
