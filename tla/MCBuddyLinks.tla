---------------------------- MODULE MCBuddyLinks ----------------------------
(* Small instances of BuddyLinks for TLC. *)
EXTENDS BuddyLinks

MCSizeForOrder == [k \in Orders |-> 2 ^ k]

Entry(b, l, t) == [base |-> b, length |-> l, type |-> t]

\* Several blocks on one list, so that buddies sit in its middle and at its end.
MCMemoryMaps ==
  {<<Entry(0, 5, 2), Entry(7, 5, 1)>>,
   <<Entry(5, 3, 1), Entry(8, 1, 10), Entry(9, 2, 1)>>}
=============================================================================
