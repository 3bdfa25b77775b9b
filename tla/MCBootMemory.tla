---------------------------- MODULE MCBootMemory ----------------------------
(***************************************************************************)
(* Memory in half pages: 1 MiB is at 4, 4 GiB at 20. One usable entry and  *)
(* one other entry anywhere, in either order, a second usable one or none, *)
(* and a ROM at the top, as every PC has; kernels of one and two segments  *)
(* that end inside a page; a module; two page tables.                      *)
(***************************************************************************)
EXTENDS BootMemory

MCUsable == {Entry(a, b, "usable"): a \in {1, 4, 5}, b \in {9, 12, 15}}
MCOther == {Entry(a, b, "reserved"): a \in {0, 2, 5, 8, 9, 12}, b \in {4, 5, 6, 9, 13, 17}}
MCSecond == {<<>>, <<Entry(12, 22, "usable")>>, <<Entry(14, 19, "usable")>>}
MCFirmware ==
    LET rom == <<Entry(22, 23, "reserved")>>
        Pair(u, o) == {<<u, o>>, <<o, u>>}
    IN  UNION {{p \o s \o rom: p \in Pair(u, o)}:
               u \in MCUsable, o \in {r \in MCOther: r.base < r.top}, s \in MCSecond}

MCKernels == {<< <<5, 1>> >>, << <<4, 3>>, <<8, 1>> >>}
MCModules == {<<>>, <<1>>}
=============================================================================
