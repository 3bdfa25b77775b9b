------------------------------ MODULE MCBuddy ------------------------------
(* Small instances of Buddy for TLC. *)
EXTENDS Buddy

MCSizeForOrder == [k \in Orders |-> 2 ^ k]

Entry(b, l, t) == [base |-> b, length |-> l, type |-> t]

\* Usable entries separated by the kernel's own (type 10) and a reserved one,
\* with ends off the alignment of the larger blocks.
GapMap == <<Entry(0, 1, 2), Entry(1, 6, 1), Entry(7, 1, 10), Entry(8, 2, 1)>>

\* Two usable entries that touch in the middle of a block.
AbuttingMap == <<Entry(3, 2, 1), Entry(5, 4, 1), Entry(9, 1, 2)>>

\* One block of the largest order, so that merging reaches MaxOrder.
WholeMap == <<Entry(8, 8, 1)>>

NoMemoryMap == <<Entry(4, 4, 2)>>

MCMemoryMaps == {GapMap, AbuttingMap, WholeMap, NoMemoryMap}
=============================================================================
