----------------------------- MODULE MCRoutines -----------------------------
(***************************************************************************)
(* Small instances of the kernel's routines.                               *)
(***************************************************************************)
EXTENDS Routines, FiniteSets

\* Five bytes of memory, and every call of at most four that fits them.
MCAddresses == 0 .. 4
MCCalls == {c \in [dest : MCAddresses, src : MCAddresses, n : 0 .. 4] :
              c.dest + c.n <= 5 /\ c.src + c.n <= 5}

\* Pages of one byte: ten to eighteen pages need a bitmap of two or three
\* pages, and the first entry is not always long enough for it.
E(first, count) == [first |-> first, count |-> count]

MCMaps == {<<E(1, 4)>>, <<E(2, 1), E(5, 5)>>, <<E(1, 2), E(4, 1), E(11, 6)>>}

\* Times of day and dates on both sides of every carry.
At(y, mo, d, h, mi, s) ==
  [year |-> y, month |-> mo, day |-> d, hour |-> h, minute |-> mi, second |-> s]

MCDates == {<<2024, 2, 28>>, <<2024, 2, 29>>, <<2025, 2, 28>>, <<2025, 4, 30>>,
            <<2025, 7, 31>>, <<2025, 12, 30>>, <<2025, 12, 31>>, <<2099, 12, 31>>}

MCHours == {0, 8, 9, 12, 15, 16, 23}

\* Two ticks stay within the minute, or end it.
MCStarts == {At(d[1], d[2], d[3], h, 59, s) : d \in MCDates, h \in MCHours, s \in {57, 58}}

\* A chip of either encoding with a 24-hour clock, and a binary one with a
\* 12-hour clock at any hour that it does not call twelve.
MCChips ==
  {[binary |-> b, hours24 |-> TRUE, start |-> t] : b \in BOOLEAN, t \in MCStarts}
  \cup
  {[binary |-> TRUE, hours24 |-> FALSE, start |-> t] :
     t \in {u \in MCStarts : u.hour % 12 # 0}}

\* Machines with up to three functions among a few slots that matter: first
\* and last of each counter, holes before a function, a device without a
\* function 0, a second function nobody announced.
Machine(slots, devices) == [present |-> slots, multi |-> devices]

SomeOf(slots, n) == {p \in SUBSET slots : Cardinality(p) <= n}

MCOf(slots, n) ==
  UNION {{Machine(p, m) : m \in SUBSET {<<s[1], s[2]>> : s \in p}} : p \in SomeOf(slots, n)}

\* Any such machine without a device on the last bus, and one with.
MCMachines ==
  MCOf({0, 1} \X {0, 1} \X {0, 2}, 3) \cup MCOf({0} \X {1} \X {0, 1, 2}, 3)
  \cup {Machine({<<0, 0, 0>>, <<2, 0, 0>>}, {})}

\* One sector, two, the last that can be addressed and the one behind it, and none;
\* of the slave, and of a drive that cannot be.
R(unit, sector, n) == [drive |-> unit, lba |-> sector, count |-> n]

MCRequests == {R(0, 0, 1), R(0, 1, 2), R(0, 3, 1), R(0, 4, 1), R(0, 0, 0), R(1, 0, 1), R(2, 0, 1)}
=============================================================================
