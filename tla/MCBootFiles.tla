----------------------------- MODULE MCBootFiles -----------------------------
(***************************************************************************)
(* Clusters and blocks of two bytes, blocks of the cache of three, inodes  *)
(* with two block numbers of their own and two to an indirect block, a     *)
(* command line of up to three characters. Files of four clusters lie in   *)
(* every order; longer files in rows of one, two and three blocks. Files   *)
(* are read from partitions that start with a block of the cache or inside *)
(* one, in a row, out of it, backwards and up to a hole. Kernels have up   *)
(* to two segments at addresses up to 20, in their order in memory or not, *)
(* one over the other, in the higher half, with a tail to zero or without  *)
(* a byte of the file; pointers of two bytes lie inside, outside and       *)
(* across the end of a segment, and one over another.                      *)
(***************************************************************************)
EXTENDS BootFiles

MCOpenFiles ==
    LET File(drive, first, blocks) == [drive |-> drive, first |-> first, blocks |-> blocks]
    IN  {File(128, 5, <<4, 5, 9, 2>>), File(128, 0, <<7, 6, Panic, 3>>)}
MCOthers == {<<128, 3>>, <<128, 6>>}
TwoDrives == {[drive |-> d, first |-> 0, blocks |-> <<1>>]: d \in {128, 129}}

Slots == {"p1", "p2", "p3", "no partition"}
MCDisks ==
    LET Disk(gpt, mbr, hint, revision) == [gpt |-> gpt, mbr |-> mbr, hint |-> hint, revision |-> revision]
        none == [i \in 1 .. 4 |-> "no partition"]
    IN  {Disk(<<>>, <<a, b, "no partition", c>>, h, TRUE): a, b, c \in Slots, h \in BOOLEAN}
            \union {Disk(<<a, b, "p3">>, none, TRUE, r): a, b \in Slots, r \in BOOLEAN}
            \union {Disk(<<"no partition", a, "p1", b, "p2">>, none, TRUE, TRUE): a, b \in Slots}

\* One disk of any kind; and up to three with one, two, three or no partitions
MCDrives ==
    LET some == {d \in MCDisks: \/ d.gpt = <<"p1", "p2", "p3">> /\ d.revision
                                \/ /\ d.gpt = <<>> /\ d.hint
                                   /\ d.mbr \in {<<"p1", "p2", "no partition", "no partition">>,
                                                 <<"no partition", "no partition", "no partition", "p3">>,
                                                 <<"no partition", "no partition", "no partition", "no partition">>}}
    IN  {<<d>>: d \in MCDisks} \union [1 .. 2 -> some] \union [1 .. 3 -> some]

MCChains ==
    {s \in [1 .. 4 -> 2 .. 6]: \A i, k \in 1 .. 4: i # k => s[i] # s[k]}
MCFiles ==
    {[list |-> l, depth |-> d, hole |-> h]:
        l \in {<<11, 12, 13, 20, 21, 30, 40, 41, 42>>, <<19, 18, 17, 16, 15, 14, 13, 12, 11>>,
               <<30, 31, 10, 11, 12, 13, 14, 20>>},
        d \in {0, 1}, h \in BOOLEAN}
        \union {[list |-> l, depth |-> -1, hole |-> FALSE]:
                    l \in {<<11, 12, 13, 20, 21, 30, 40, 41, 42>>, <<30, 31, 10, 11, 12, 13, 14, 20>>,
                           <<11, 0, 13, 0, 0, 30, 40>>, <<11, 12, 0, 0, 21, 30, 0, 0>>,
                           <<0, 12, 13, 20, 0, 0, 40, 41>>, <<11, 12, 13, 20, 0, 0>>}}
MCReads == {<<a, n>>: a \in 0 .. 17, n \in {1, 2, 3, 4, 5, 6, 8}}

MCTrees ==
    LET b == <<"b">>
        boot == <<"b", "o", "o">>
        k == <<"k">>
        kern == <<"k", "e", "r">>
        K == <<"K", ".", "X">>
    IN  {(Root :> << <<boot, 3>>, <<b, 4>>, <<K, 10>> >> @@ 3 :> << <<k, 5>>, <<kern, 6>> >>),
         (Root :> << <<k, 7>>, <<boot, 3>>, <<kern, 8>> >> @@ 3 :> << <<K, 9>>, <<kern, 6>> >>),
         (Root :> << <<b, 3>>, <<kern, 8>> >> @@ 3 :> << <<boot, 4>> >> @@ 4 :> << <<kern, 9>>, <<k, 5>> >>)}
MCNames == {<<"b">>, <<"b", "o", "o">>, <<"k">>, <<"k", "e", "r">>}
MCShort == {<<"K", ".", "X">>, <<"k", ".", "x">>, <<"K">>, <<"k", ".", "x", "e">>, <<"b", ".", "k", ".">>}
MCPaths == {<<x>>: x \in MCNames} \union {<<x, y>>: x, y \in MCNames}
               \union {<< <<"b">>, x, y >>: x, y \in MCNames}
               \union {<<x>>: x \in MCShort} \union {<< <<"b", "o", "o">>, x>>: x \in MCShort}
MCCapitals == [b |-> "B", o |-> "O", k |-> "K", e |-> "E", r |-> "R", x |-> "X"]
MCContents == {<<>>, << << <<"k">>, 2>>, << <<"b", "o", "o">>, 2>> >>}
MCStacks == {<<" ", " ", " ">>, <<" ", " ", "X">>}

MCSuperblocks == {[tables |-> t, per_group |-> n, inode_size |-> z]:
                      t \in {<<5>>, <<9, 3, 20>>}, n \in {2, 3}, z \in {1, 2}}

Coded(coding, tokens) == [coding |-> coding, tokens |-> tokens]
MCBlocks ==
    {Coded("fixed", t): t \in {<<>>, <<<<0>>>>, <<<<1>>, <<3, 1>>>>, <<<<2>>, <<200>>, <<258, 2>>, <<4, 4>>>>,
                               <<<<0>>, <<34, 1>>, <<9, 7>>, <<13, 30>>>>}}
        \union {Coded("one distance", t): t \in {<<<<0>>, <<1>>, <<4, 1>>>>, <<<<3, 1>>, <<1>>>>}}
        \union {Coded("repeats", t): t \in {<<<<3>>, <<1>>, <<0>>, <<2>>, <<12, 1>>, <<3, 5>>, <<11, 6>>>>,
                                            <<<<2>>, <<3, 6>>>>}}
        \union {Coded("stored", <<<<0>>, <<7>>>>), Coded("stored", <<>>)}
MCArchives ==
    {[blocks |-> <<b>>, flags |-> f, cut |-> c]: b \in MCBlocks, f \in {0, 2, 4, 8, 16, 30}, c \in {0, 1}}
        \union {[blocks |-> <<a, b>>, flags |-> 0, cut |-> c]: a, b \in MCBlocks, c \in {0, 3}}

Segment(vaddr, offset, filesz, memsz) ==
    [load |-> TRUE, vaddr |-> vaddr, paddr |-> vaddr, offset |-> offset, filesz |-> filesz, memsz |-> memsz]
Relative(addr, addend) == [kind |-> "relative", addr |-> addr, addend |-> addend]

MCSegments ==
    {<<Segment(1, 100, 3, 5), Segment(7, 110, 0, 2), [Segment(1, 0, 1, 1) EXCEPT !.load = FALSE]>>,
     <<Segment(6, 104, 2, 4), Segment(2, 100, 4, 4)>>,
     <<Segment(1, 100, 4, 5), Segment(5, 104, 1, 1)>>,
     <<[Segment(3, 100, 2, 4) EXCEPT !.paddr = 8]>>,
     <<Segment(54, 100, 3, 4), Segment(59, 90, 4, 4)>>,
     <<Segment(2, 100, 4, 4), Segment(52, 104, 1, 1)>>}
MCRela ==
    {<<>>, <<Relative(1, 3), Relative(8, 7), Relative(5, 4)>>, <<Relative(2, 9), Relative(3, 11)>>,
     <<Relative(55, 51)>>, <<Relative(2, 9), [Relative(4, 0) EXCEPT !.kind = "absolute"]>>}
MCImages ==
    {[bits |-> bits, type |-> type, entry |-> 2, segments |-> segments, rela |-> rela,
      header |-> [size |-> size, kaslr |-> kaslr, entry |-> entry]]:
        bits \in {32, 64}, type \in {"exec", "dyn"}, segments \in MCSegments, rela \in MCRela,
        size \in {0, 3, 4, 5}, kaslr \in BOOLEAN, entry \in {0, 3}}

MCTexts == UNION {[1 .. n -> {"return", "line", "a"}]: n \in 0 .. 4}

Entry(name, lines) == [name |-> name, lines |-> lines]
MCConfigs ==
    {[globals |-> g, entries |-> e]:
        g \in {<<>>, <<Line("TIMEOUT", 2)>>, <<Line("TIMEOUT", 0), Line("DEFAULT_ENTRY", 1)>>,
               <<Line("CMDLINE", <<"g">>), Line("DEFAULT_ENTRY", 1), Line("TIMEOUT", 1)>>},
        e \in {<<>>, <<Entry("one", <<Line("CMDLINE", <<"a">>)>>)>>,
               <<Entry("one", <<Line("CMDLINE", <<"a">>)>>), Entry("two", <<>>)>>,
               <<Entry("CMDLINE", <<>>), Entry("two", <<Line("CMDLINE", <<"a">>), Line("KERNEL_CMDLINE", <<"b", "a">>)>>),
                 Entry("three", <<Line("CMDLINE", <<"b">>)>>)>>}}
MCStrokes ==
    {w \o e: w \in UNION {[1 .. n -> {"tick", "function", "up", "down", "other"}]: n \in 0 .. 3},
             e \in {<<>>, <<"enter">>, <<"edit", "left", "b", "enter">>, <<"edit", "a", "backspace">>}}

MCLines == {[text |-> t, keys |-> Append(k, "enter")]:
            t \in {<<>>, <<"x">>, <<"x", "y">>},
            k \in UNION {[1 .. n -> {"a", "left", "right", "backspace", "function"}]: n \in 0 .. 4}}

MCModules ==
    {[kernel |-> [resource |-> r, drive |-> d, partition |-> p, path |-> "kernel"], modules |-> m]:
        r \in {"bios", "guid", "plain path"}, d \in {<<>>, <<130>>}, p \in {<<>>, <<0>>, <<2>>},
        m \in {<<>>, <<[path |-> "m1", string |-> "s1", partition |-> 1]>>,
               <<[path |-> "m1", string |-> "s1", partition |-> 1],
                 [path |-> "m2", string |-> "s2", partition |-> 0]>>}}
=============================================================================
