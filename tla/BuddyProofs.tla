---------------------------- MODULE BuddyProofs ----------------------------
(***************************************************************************)
(* Proofs about the buddy allocator for every memory map, table of block   *)
(* sizes and set of requests: no page in two places, none lost, counters   *)
(* exact, free memory coalesced, and PageAllocator's promise kept.         *)
(***************************************************************************)
EXTENDS Buddy, NumberLemmas, FiniteSetTheorems, TLAPS

\* get_order: the order found holds the request, and one past the table
\* means that no block does.
LEMMA GetOrderType ==
  ASSUME NEW n \in Nat
  PROVE  /\ GetOrder(n) \in 0 .. (MaxOrder + 1)
         /\ GetOrder(n) \in Orders => n <= SizeForOrder[GetOrder(n)]
<1> DEFINE T == {k \in Orders : n <= SizeForOrder[k]}
<1> USE MaxOrderAssumption
<1>1. CASE T = {}
  <2>1. GetOrder(n) = MaxOrder + 1
    BY <1>1 DEF GetOrder
  <2> QED BY <2>1 DEF Orders
<1>2. CASE T # {}
  <2>1. T \in SUBSET Nat
    BY DEF Orders
  <2>2. PICK k \in T : \A l \in T : k <= l
    BY <1>2, <2>1, LeastNatural
  <2>3. \E m \in Orders : /\ n <= SizeForOrder[m]
                          /\ \A l \in Orders : n <= SizeForOrder[l] => m <= l
    BY <2>2
  <2>4. /\ GetOrder(n) \in Orders
        /\ n <= SizeForOrder[GetOrder(n)]
    BY <2>3 DEF GetOrder
  <2> QED BY <2>4 DEF Orders
<1> QED BY <1>1, <1>2

\* buddy_init's inner loop finds an order, and the largest: one page always fits.
LEMMA CarveOrderType ==
  ASSUME current \in Nat, remaining \in Nat, remaining >= 1
  PROVE  /\ CarveOrder \in Orders /\ Fits(CarveOrder)
         /\ \A l \in Orders : Fits(l) => l <= CarveOrder
<1> USE MaxOrderAssumption, SizeAssumption
<1> DEFINE T == {d \in Nat : MaxOrder - d \in Orders /\ Fits(MaxOrder - d)}
<1>1. 0 \in Orders /\ Fits(0)
  BY DEF Fits, Orders
<1>2. MaxOrder \in T
  BY <1>1 DEF Orders
<1>3. PICK d \in T : \A c \in T : d <= c
  BY <1>2, LeastNatural
<1>4. ASSUME NEW l \in Orders, Fits(l) PROVE l <= MaxOrder - d
  <2>1. MaxOrder - l \in Nat /\ MaxOrder - (MaxOrder - l) = l
    BY DEF Orders
  <2>2. MaxOrder - l \in T
    BY <2>1, <1>4
  <2>3. d <= MaxOrder - l
    BY <2>2, <1>3
  <2> QED BY <2>1, <2>3 DEF Orders
<1>5. \E k \in Orders : Fits(k) /\ \A l \in Orders : Fits(l) => l <= k
  BY <1>3, <1>4
<1> QED BY <1>5 DEF CarveOrder

-----------------------------------------------------------------------------
\* What the running call knows: the facts TypeOK needs to be inductive.
CallOK ==
  /\ pc \in {"search", "split"} => size \in Requests /\ GetOrder(size) <= order
  /\ InHand => order \in Orders
  /\ pc = "carve" => i \in UsableEntries

CallInv == TypeOK /\ CallOK

\* An element of a sequence is of the sequence's kind.
LEMMA ElementOf ==
  ASSUME NEW S, NEW s \in Seq(S), NEW e \in 1 .. Len(s)
  PROVE  s[e] \in S
  OBVIOUS

\* What the memory map holds, entry by entry.
LEMMA MapType ==
  ASSUME TypeOK, NEW e \in DOMAIN mmap
  PROVE  /\ mmap[e].base \in Nat /\ mmap[e].length \in Nat /\ mmap[e].type \in Nat
         /\ DOMAIN mmap = 1 .. Len(mmap) /\ Len(mmap) \in Nat
<1>1. mmap \in Seq([base : Nat, length : Nat, type : Nat])
  BY MapAssumption DEF TypeOK, ValidMap
<1>2. DOMAIN mmap = 1 .. Len(mmap) /\ Len(mmap) \in Nat
  BY <1>1
<1>3. mmap[e] \in [base : Nat, length : Nat, type : Nat]
  BY <1>1, <1>2, ElementOf
<1> QED BY <1>2, <1>3

\* The running call's locals fit what it was asked for.
LEMMA CallInvInit == Init => CallInv
<1> USE MaxOrderAssumption, SizeAssumption, RequestAssumption
<1> SUFFICES ASSUME Init PROVE CallInv
  OBVIOUS
<1>1. TypeOK
  BY DEF Init, TypeOK, Orders
<1>2. CallOK
  BY DEF Init, CallOK, InHand
<1> QED BY <1>1, <1>2 DEF CallInv

\* ... and go on to.
LEMMA CallInvStep ==
  ASSUME CallInv, [Next]_vars
  PROVE  CallInv'
<1> USE MaxOrderAssumption, SizeAssumption, RequestAssumption
<1> USE DEF CallInv, counters, initvars, callvars
<1>a. TypeOK /\ CallOK
  OBVIOUS
<1>1. CASE CountEntry
  <2>1. i \in DOMAIN mmap
    BY <1>1, MapAssumption DEF TypeOK, ValidMap, CountEntry
  <2>2. mmap[i].length \in Nat
    BY <2>1, MapType
  <2> QED BY <1>1, <2>2 DEF TypeOK, CallOK, CountEntry, InHand
<1>2. CASE CountDone
  BY <1>2 DEF TypeOK, CallOK, CountDone, InHand
<1>3. CASE SkipEntry
  BY <1>3 DEF TypeOK, CallOK, SkipEntry, InHand
<1>4. CASE StartEntry
  <2>1. i \in UsableEntries
    BY <1>4, MapAssumption DEF TypeOK, ValidMap, StartEntry, UsableEntries
  <2>2. mmap[i].base \in Nat /\ mmap[i].length \in Nat
    BY <2>1, MapType DEF UsableEntries
  <2> QED BY <1>4, <2>1, <2>2 DEF TypeOK, CallOK, StartEntry, InHand, UsableEntries
<1>5. CASE CarveBlock
  <2>1. CarveOrder \in Orders /\ Fits(CarveOrder)
    BY <1>5, CarveOrderType DEF TypeOK, CarveBlock
  <2>2. remaining - SizeForOrder[CarveOrder] \in Nat
    BY <2>1 DEF TypeOK, Fits
  <2>3. free_list' \in [Orders -> SUBSET Nat]
    BY <1>5, <2>1 DEF TypeOK, CarveBlock
  <2> QED BY <1>5, <2>1, <2>2, <2>3 DEF TypeOK, CallOK, CarveBlock, InHand, UsableEntries
<1>6. CASE EndEntry
  BY <1>6 DEF TypeOK, CallOK, EndEntry, InHand
<1>7. CASE InitDone
  BY <1>7 DEF TypeOK, CallOK, InitDone, InHand
<1>8. CASE SearchNext
  <2>1. order + 1 \in 0 .. (MaxOrder + 1) /\ GetOrder(size) <= order + 1
    <3>1. GetOrder(size) \in 0 .. (MaxOrder + 1)
      BY GetOrderType DEF TypeOK
    <3> QED BY <1>8, <3>1 DEF TypeOK, CallOK, SearchNext
  <2> QED BY <1>8, <2>1 DEF TypeOK, CallOK, SearchNext, InHand
<1>9. CASE TakeBlock
  BY <1>9 DEF TypeOK, CallOK, TakeBlock, InHand, Orders
<1>10. CASE AllocFail
  BY <1>10 DEF TypeOK, CallOK, AllocFail, Return, InHand, Orders
<1>11. CASE SplitBlock
  <2>1. GetOrder(size) \in 0 .. (MaxOrder + 1)
    BY GetOrderType DEF TypeOK
  <2>2. order - 1 \in Orders /\ GetOrder(size) <= order - 1
    BY <1>11, <2>1 DEF TypeOK, CallOK, SplitBlock, InHand, Orders
  <2>3. free_list' \in [Orders -> SUBSET Nat]
    BY <1>11, <2>2 DEF TypeOK, SplitBlock
  <2> QED BY <1>11, <2>2, <2>3 DEF TypeOK, CallOK, SplitBlock, InHand, Orders
<1>12. CASE AllocReturn
  <2>1. size \in Requests /\ order = GetOrder(size) /\ order \in Orders
    BY <1>12 DEF AllocReturn, CallOK, InHand
  <2>2. held' \subseteq Blocks
    BY <1>12, <2>1 DEF TypeOK, AllocReturn, Blocks
  <2>3. buddy_used_pages' \in Int
    BY <1>12, <2>1 DEF TypeOK, AllocReturn
  <2> QED BY <1>12, <2>2, <2>3 DEF TypeOK, CallOK, AllocReturn, Return, InHand
<1>13. CASE MergeBuddy
  BY <1>13 DEF TypeOK, CallOK, MergeBuddy, Lower, InHand, Orders
<1>14. CASE InsertBlock
  BY <1>14 DEF TypeOK, CallOK, InsertBlock, Return, InHand, Orders
<1>15. ASSUME NEW n \in Requests, AllocEnter(n) PROVE CallInv'
  <2>1. n \in Nat /\ GetOrder(n) \in 0 .. (MaxOrder + 1)
    BY GetOrderType
  <2> QED BY <1>15, <2>1 DEF TypeOK, CallOK, AllocEnter, InHand
<1>16. ASSUME NEW h \in held, FreeEnter(h) PROVE CallInv'
  <2>1. h \in Blocks /\ h.addr \in Nat /\ h.size \in Nat /\ GetOrder(h.size) \in Orders
    BY <1>16, RequestAssumption DEF TypeOK, Blocks
  <2>2. GetOrder(h.size) \in 0 .. (MaxOrder + 1) /\ SizeForOrder[GetOrder(h.size)] \in Nat
    BY <2>1 DEF Orders
  <2> QED BY <1>16, <2>1, <2>2 DEF TypeOK, CallOK, FreeEnter, InHand
<1>17. CASE UNCHANGED vars
  BY <1>17 DEF TypeOK, CallOK, vars, InHand, UsableEntries
<1> QED
  BY <1>1, <1>2, <1>3, <1>4, <1>5, <1>6, <1>7, <1>8, <1>9, <1>10, <1>11,
     <1>12, <1>13, <1>14, <1>15, <1>16, <1>17 DEF Next, Advance, BuddyInit

\* In every state.
LEMMA CallInvHolds == Spec => []CallInv
  BY CallInvInit, CallInvStep, PTL DEF Spec

\* The allocator's variables keep their types.
THEOREM TypeCorrect == Spec => []TypeOK
<1>1. CallInv => TypeOK
  BY DEF CallInv
<1>2. QED BY <1>1, CallInvHolds, PTL

-----------------------------------------------------------------------------
\* What buddy_init still has to carve is apart from every block made so far.
Unreached(e) == e \in UsableEntries /\ (e > i \/ (e = i /\ pc # "carve"))

CarveApart ==
  Booting =>
    /\ held = {}
    /\ pc = "count" => \A k \in Orders : free_list[k] = {}
    /\ \A e \in UsableEntries : Unreached(e) =>
         \A k \in Orders : \A a \in free_list[k] :
           Apart(a, SizeForOrder[k], mmap[e].base, mmap[e].length)
    /\ pc = "carve" =>
         /\ \A k \in Orders : \A a \in free_list[k] :
              Apart(a, SizeForOrder[k], current, remaining)
         /\ \A e \in UsableEntries : Unreached(e) =>
              Apart(current, remaining, mmap[e].base, mmap[e].length)

OverlapInv == NoOverlap /\ CarveApart

\* Before buddy_init there is no block.
LEMMA OverlapInit == Init => OverlapInv
  BY DEF Init, OverlapInv, NoOverlap, FreeApart, FreeHeldApart, HeldApart,
         HandApart, InHand, CarveApart, Booting

\* No step makes two blocks share a page.
LEMMA OverlapStep ==
  ASSUME CallInv, CallInv', OverlapInv, [Next]_vars
  PROVE  OverlapInv'
<1> USE MaxOrderAssumption, SizeAssumption, RequestAssumption
<1> USE DEF counters, initvars, callvars, BlockLength, InHand, Booting
<1>a. TypeOK /\ CallOK /\ TypeOK' /\ CallOK'
  BY DEF CallInv
<1>b. NoOverlap /\ CarveApart
  BY DEF OverlapInv
<1> USE DEF NoOverlap, FreeApart, FreeHeldApart, HeldApart, HandApart
<1>1. CASE CountEntry
  <2>1. NoOverlap'
    BY <1>1, <1>b DEF CountEntry
  <2>2. CarveApart'
    BY <1>1, <1>b DEF CountEntry, CarveApart
  <2> QED BY <2>1, <2>2 DEF OverlapInv
<1>2. CASE CountDone
  <2>1. NoOverlap'
    BY <1>2, <1>b DEF CountDone, CarveApart
  <2>2. CarveApart'
    BY <1>2, <1>b DEF CountDone, CarveApart
  <2> QED BY <2>1, <2>2 DEF OverlapInv
<1>3. CASE SkipEntry
  <2>1. NoOverlap'
    BY <1>3, <1>b DEF SkipEntry
  <2>2. CarveApart'
    BY <1>3, <1>a, <1>b DEF SkipEntry, CarveApart, Unreached, UsableEntries, TypeOK
  <2> QED BY <2>1, <2>2 DEF OverlapInv
<1>4. CASE StartEntry
  <2>1. NoOverlap'
    BY <1>4, <1>b DEF StartEntry
  <2>2. i \in DOMAIN mmap /\ Unreached(i) /\ i \in UsableEntries
    BY <1>4, <1>a DEF StartEntry, Unreached, TypeOK, CallOK, UsableEntries
  <2>3. ASSUME NEW e \in UsableEntries, e > i
        PROVE  Apart(mmap[i].base, mmap[i].length, mmap[e].base, mmap[e].length)
    <3>1. ValidMap(mmap)
      BY <1>a, MapAssumption DEF TypeOK
    <3>2. e \in DOMAIN mmap /\ mmap[e].type = Usable /\ mmap[i].type = Usable
      BY <2>2 DEF UsableEntries
    <3>3. i # e
      <4>1. i \in Nat
        BY <1>a DEF TypeOK
      <4> QED BY <2>3, <4>1
    <3> QED BY <2>2, <3>1, <3>2, <3>3 DEF ValidMap, Apart
  <2>4. CarveApart'
    BY <1>4, <1>b, <2>2, <2>3 DEF StartEntry, CarveApart, Unreached, UsableEntries
  <2> QED BY <2>1, <2>4 DEF OverlapInv
<1>5. CASE CarveBlock
  <2> DEFINE n == SizeForOrder[CarveOrder]
  <2>1. CarveOrder \in Orders /\ n \in Nat \ {0} /\ n <= remaining
    BY <1>5, <1>a, CarveOrderType DEF TypeOK, CarveBlock, Fits
  <2>2. \A k \in Orders : \A a \in free_list'[k] :
          a \in free_list[k] \/ (k = CarveOrder /\ a = current)
    BY <1>5, <1>a, <2>1 DEF CarveBlock, TypeOK
  <2>3. \A k \in Orders : \A a \in free_list[k] :
          /\ a \in Nat /\ SizeForOrder[k] \in Nat \ {0}
          /\ Apart(a, SizeForOrder[k], current, remaining)
    BY <1>5, <1>a, <1>b DEF CarveBlock, CarveApart, TypeOK
  <2>4. \A k \in Orders : \A a \in free_list[k] :
          /\ Apart(a, SizeForOrder[k], current, n)
          /\ Apart(current, n, a, SizeForOrder[k])
          /\ Apart(a, SizeForOrder[k], current + n, remaining - n)
    BY <2>1, <2>3, <1>a DEF Apart, TypeOK
  <2>5. FreeApart'
    BY <2>2, <2>4, <1>b
  <2>6. NoOverlap'
    BY <1>5, <1>b, <2>5 DEF CarveBlock, CarveApart
  <2>7. ASSUME NEW e \in UsableEntries, Unreached(e)
        PROVE  /\ Apart(current, n, mmap[e].base, mmap[e].length)
               /\ Apart(current + n, remaining - n, mmap[e].base, mmap[e].length)
    <3>1. Apart(current, remaining, mmap[e].base, mmap[e].length)
      BY <1>5, <1>b, <2>7 DEF CarveBlock, CarveApart
    <3>2. mmap[e].base \in Nat /\ mmap[e].length \in Nat
      BY <1>a, MapType DEF UsableEntries
    <3> QED BY <3>1, <3>2, <2>1, <1>a DEF Apart, TypeOK
  <2>8. Apart(current, n, current + n, remaining - n)
    BY <2>1, <1>a DEF Apart, TypeOK
  <2>9. CarveApart'
    <3>1. \A e \in UsableEntries' : Unreached(e)' => e \in UsableEntries /\ Unreached(e)
      BY <1>5 DEF CarveBlock, Unreached, UsableEntries
    <3>2. mmap' = mmap /\ held' = {} /\ pc' = "carve"
          /\ current' = current + n /\ remaining' = remaining - n
      BY <1>5, <1>b DEF CarveBlock, CarveApart
    <3>3. \A e \in UsableEntries : Unreached(e) =>
            \A k \in Orders : \A a \in free_list'[k] :
              Apart(a, SizeForOrder[k], mmap[e].base, mmap[e].length)
      BY <1>5, <1>b, <2>2, <2>7 DEF CarveBlock, CarveApart
    <3>4. \A k \in Orders : \A a \in free_list'[k] :
            Apart(a, SizeForOrder[k], current + n, remaining - n)
      BY <2>2, <2>4, <2>8
    <3> QED BY <3>1, <3>2, <3>3, <3>4, <2>7 DEF CarveApart
  <2> QED BY <2>6, <2>9 DEF OverlapInv
<1>6. CASE EndEntry
  <2>1. NoOverlap'
    BY <1>6, <1>b DEF EndEntry
  <2>2. \A e \in UsableEntries' : Unreached(e)' => e \in UsableEntries /\ Unreached(e)
    <3> SUFFICES ASSUME NEW e \in UsableEntries', Unreached(e)'
                 PROVE  e \in UsableEntries /\ Unreached(e)
      OBVIOUS
    <3>1. e \in DOMAIN mmap /\ e \in UsableEntries
      BY <1>6 DEF EndEntry, UsableEntries
    <3>2. e \in Nat /\ i \in Nat
      <4>1. e \in Nat
        BY <3>1, <1>a, MapType
      <4>2. i \in Nat
        BY <1>a DEF TypeOK
      <4> QED BY <4>1, <4>2
    <3>3. e >= i + 1
      BY <1>6, <3>2 DEF EndEntry, Unreached
    <3> QED BY <3>1, <3>2, <3>3 DEF Unreached
  <2>3. CarveApart'
    BY <1>6, <2>2, <1>b DEF EndEntry, CarveApart
  <2> QED BY <2>1, <2>3 DEF OverlapInv
<1>7. CASE InitDone
  BY <1>7, <1>b DEF InitDone, OverlapInv, CarveApart
<1>8. CASE SearchNext
  BY <1>8, <1>b DEF SearchNext, OverlapInv, CarveApart
<1>9. CASE TakeBlock
  <2>1. PICK b \in free_list[order] :
          /\ block' = b
          /\ free_list' = [free_list EXCEPT ![order] = @ \ {b}]
    BY <1>9 DEF TakeBlock
  <2>2. order \in Orders
    BY <1>9, <1>a DEF TakeBlock, TypeOK, Orders
  <2>3. \A k \in Orders : \A a \in free_list'[k] :
          a \in free_list[k] /\ (k # order \/ a # b)
    BY <2>1, <2>2, <1>a DEF TypeOK
  <2>4. FreeApart' /\ FreeHeldApart' /\ HeldApart'
    BY <2>3, <1>9, <1>b DEF TakeBlock
  <2>5. HandApart'
    <3>1. \A k \in Orders : \A a \in free_list'[k] :
            Apart(a, SizeForOrder[k], b, SizeForOrder[order])
      BY <2>1, <2>2, <2>3, <1>b
    <3>2. \A h \in held : Apart(h.addr, BlockLength(h), b, SizeForOrder[order])
      BY <2>1, <2>2, <1>b DEF Apart
    <3> QED BY <3>1, <3>2, <2>1, <1>9 DEF TakeBlock
  <2> QED BY <2>4, <2>5, <1>9 DEF TakeBlock, OverlapInv, CarveApart
<1>10. CASE AllocFail
  BY <1>10, <1>b DEF AllocFail, Return, OverlapInv, CarveApart
<1>11. CASE SplitBlock
  <2> DEFINE n == SizeForOrder[order - 1]
  <2>1. order - 1 \in Orders /\ order \in Orders
    BY <1>11, <1>a DEF SplitBlock, CallOK, TypeOK
  <2>2. n \in Nat \ {0} /\ SizeForOrder[order] = n + n
    <3>1. order = (order - 1) + 1
      BY <2>1 DEF Orders
    <3> QED BY <2>1, <3>1
  <2>3. \A k \in Orders : \A a \in free_list'[k] :
          a \in free_list[k] \/ (k = order - 1 /\ a = block + n)
    BY <1>11, <1>a, <2>1 DEF SplitBlock, TypeOK
  <2>4. \A k \in Orders : \A a \in free_list[k] :
          /\ Apart(a, SizeForOrder[k], block, n)
          /\ Apart(a, SizeForOrder[k], block + n, n)
          /\ Apart(block + n, n, a, SizeForOrder[k])
    <3> SUFFICES ASSUME NEW k \in Orders, NEW a \in free_list[k]
                 PROVE  /\ Apart(a, SizeForOrder[k], block, n)
                        /\ Apart(a, SizeForOrder[k], block + n, n)
                        /\ Apart(block + n, n, a, SizeForOrder[k])
      OBVIOUS
    <3>1. Apart(a, SizeForOrder[k], block, n + n)
      BY <1>11, <1>b, <2>2 DEF SplitBlock
    <3>2. a \in Nat /\ SizeForOrder[k] \in Nat /\ block \in Nat
      BY <1>a DEF TypeOK
    <3> QED BY <3>1, <3>2, <2>2 DEF Apart
  <2>5. \A h \in held :
          /\ Apart(h.addr, BlockLength(h), block, n)
          /\ Apart(block + n, n, h.addr, BlockLength(h))
    <3> SUFFICES ASSUME NEW h \in held
                 PROVE  /\ Apart(h.addr, BlockLength(h), block, n)
                        /\ Apart(block + n, n, h.addr, BlockLength(h))
      OBVIOUS
    <3>1. Apart(h.addr, BlockLength(h), block, n + n)
      BY <1>11, <1>b, <2>2 DEF SplitBlock
    <3>2. h.addr \in Nat /\ BlockLength(h) \in Nat /\ block \in Nat
      BY <1>a DEF TypeOK, Blocks
    <3> QED BY <3>1, <3>2, <2>2 DEF Apart
  <2>6. FreeApart'
    BY <2>3, <2>4, <1>b
  <2>7. FreeHeldApart' /\ HeldApart'
    BY <1>11, <2>3, <2>5, <1>b DEF SplitBlock
  <2>8. HandApart'
    <3>1. Apart(block + n, n, block, n)
      BY <2>2, <1>a DEF Apart, TypeOK
    <3> QED BY <1>11, <2>3, <2>4, <2>5, <3>1 DEF SplitBlock
  <2> QED BY <2>6, <2>7, <2>8, <1>11 DEF SplitBlock, OverlapInv, CarveApart
<1>12. CASE AllocReturn
  <2> DEFINE g == [addr |-> block, size |-> size]
  <2>1. BlockLength(g) = SizeForOrder[order] /\ held' = held \cup {g}
    BY <1>12 DEF AllocReturn
  <2>2. NoOverlap'
    <3>1. FreeHeldApart'
      BY <1>12, <2>1, <1>b DEF AllocReturn
    <3>2. HeldApart'
      BY <1>12, <2>1, <1>b DEF AllocReturn, Apart
    <3> QED BY <1>12, <3>1, <3>2, <1>b DEF AllocReturn, Return
  <2> QED BY <1>12, <2>2 DEF AllocReturn, Return, OverlapInv, CarveApart
<1>13. CASE MergeBuddy
  <2> DEFINE n == SizeForOrder[order]
             b == GetBuddy(block, order)
  <2>1. order \in Orders /\ order + 1 \in Orders /\ order # order + 1
    BY <1>13, <1>a DEF MergeBuddy, CallOK, Orders
  <2>2. n \in Nat \ {0} /\ SizeForOrder[order + 1] = n + n
    BY <2>1
  <2>3. b \in free_list[order] /\ b \in Nat /\ block \in Nat
    BY <1>13, <2>1, <1>a DEF MergeBuddy, TypeOK
  <2>4. b = block + n \/ b = block - n
    BY DEF GetBuddy
  <2>5. \A k \in Orders : \A a \in free_list'[k] :
          a \in free_list[k] /\ (k # order \/ a # b)
    BY <1>13, <1>a, <2>1 DEF MergeBuddy, TypeOK
  <2>6. ASSUME NEW a \in Nat, NEW m \in Nat \ {0},
               Apart(a, m, block, n), Apart(a, m, b, n)
        PROVE  Apart(a, m, block', n + n)
    BY <1>13, <2>2, <2>3, <2>4, <2>6 DEF MergeBuddy, Lower, Apart
  <2>7. HandApart'
    <3>1. ASSUME NEW k \in Orders, NEW a \in free_list'[k]
          PROVE  Apart(a, SizeForOrder[k], block', n + n)
      <4>1. Apart(a, SizeForOrder[k], block, n)
        BY <1>13, <2>5, <1>b DEF MergeBuddy
      <4>2. Apart(a, SizeForOrder[k], b, n)
        BY <2>1, <2>3, <2>5, <1>b
      <4>3. a \in Nat /\ SizeForOrder[k] \in Nat \ {0}
        BY <2>5, <1>a DEF TypeOK
      <4> QED BY <2>6, <4>1, <4>2, <4>3
    <3>2. ASSUME NEW h \in held
          PROVE  Apart(h.addr, BlockLength(h), block', n + n)
      <4>1. Apart(h.addr, BlockLength(h), block, n)
        BY <1>13, <1>b DEF MergeBuddy
      <4>2. h.addr \in Nat /\ BlockLength(h) \in Nat \ {0}
        BY <1>a DEF TypeOK, Blocks
      <4>3. Apart(h.addr, BlockLength(h), b, n)
        BY <2>1, <2>3, <1>b DEF Apart
      <4> QED BY <2>6, <4>1, <4>2, <4>3
    <3> QED BY <1>13, <2>2, <3>1, <3>2 DEF MergeBuddy
  <2>8. FreeApart' /\ FreeHeldApart' /\ HeldApart'
    BY <1>13, <2>5, <1>b DEF MergeBuddy
  <2> QED BY <1>13, <2>7, <2>8 DEF MergeBuddy, OverlapInv, CarveApart
<1>14. CASE InsertBlock
  <2>1. order \in Orders
    BY <1>14, <1>a DEF InsertBlock, CallOK
  <2>2. \A k \in Orders : \A a \in free_list'[k] :
          a \in free_list[k] \/ (k = order /\ a = block)
    BY <1>14, <1>a, <2>1 DEF InsertBlock, TypeOK
  <2>3. FreeApart'
    BY <1>14, <2>2, <1>b DEF InsertBlock, Apart
  <2>4. FreeHeldApart' /\ HeldApart'
    BY <1>14, <2>2, <1>b DEF InsertBlock, Apart
  <2> QED BY <1>14, <2>3, <2>4 DEF InsertBlock, Return, OverlapInv, CarveApart
<1>15. ASSUME NEW n \in Requests, AllocEnter(n) PROVE OverlapInv'
  BY <1>15, <1>b DEF AllocEnter, OverlapInv, CarveApart
<1>16. ASSUME NEW h \in held, FreeEnter(h) PROVE OverlapInv'
  <2>1. held' \subseteq held /\ h \notin held' /\ block' = h.addr
        /\ SizeForOrder[order'] = BlockLength(h)
    BY <1>16 DEF FreeEnter
  <2>2. FreeApart' /\ FreeHeldApart' /\ HeldApart'
    BY <1>16, <2>1, <1>b DEF FreeEnter
  <2>3. HandApart'
    BY <1>16, <2>1, <1>b DEF FreeEnter
  <2> QED BY <1>16, <2>2, <2>3 DEF FreeEnter, OverlapInv, CarveApart
<1>17. CASE UNCHANGED vars
  BY <1>17, <1>b DEF vars, OverlapInv, CarveApart, Unreached, UsableEntries
<1> QED
  BY <1>1, <1>2, <1>3, <1>4, <1>5, <1>6, <1>7, <1>8, <1>9, <1>10, <1>11,
     <1>12, <1>13, <1>14, <1>15, <1>16, <1>17 DEF Next, Advance, BuddyInit

\* No page is ever in two places: two callers, a caller and a free list, or
\* either of them and the block a call is splitting or merging.
THEOREM NoOverlapHolds == Spec => []NoOverlap
<1>1. OverlapInv => NoOverlap
  BY DEF OverlapInv
<1>2. QED BY <1>1, OverlapInit, OverlapStep, CallInvHolds, PTL DEF Spec

-----------------------------------------------------------------------------
\* No page is lost. The argument goes page by page: a step may move a page from
\* one of five places to another, and does not lose it.
Within(p, a, n) == a <= p /\ p < a + n

\* The places a page can be: on a list, with a caller, in the running call's
\* hands, in what is left of the entry being carved, or in an entry to come.
OnList(p) == \E k \in Orders : \E a \in free_list[k] : Within(p, a, SizeForOrder[k])
WithCaller(p) == \E h \in held : Within(p, h.addr, BlockLength(h))
InCall(p) == InHand /\ Within(p, block, SizeForOrder[order])
InRest(p) == pc = "carve" /\ Within(p, current, remaining)
ToCome(p) ==
  Booting /\ \E e \in UsableEntries : /\ pc = "count" \/ Unreached(e)
                                      /\ Within(p, mmap[e].base, mmap[e].length)

Somewhere(p) == OnList(p) \/ WithCaller(p) \/ InCall(p) \/ InRest(p) \/ ToCome(p)

Exists(p) == \E e \in UsableEntries : Within(p, mmap[e].base, mmap[e].length)

PagesInv == \A p \in Int : Somewhere(p) <=> Exists(p)

\* Before buddy_init every page is still to come.
LEMMA PagesInit == Init => PagesInv
  BY DEF Init, PagesInv, Somewhere, OnList, WithCaller, InCall, InRest, ToCome,
         Exists, Booting, InHand

\* A step that leaves the map alone keeps the invariant if no page gets lost or
\* made up by it.
LEMMA PagesKept ==
  ASSUME PagesInv, UNCHANGED mmap, \A p \in Int : Somewhere(p)' <=> Somewhere(p)
  PROVE  PagesInv'
  BY DEF PagesInv, Exists, UsableEntries

\* No step of the allocator or its callers loses a page or makes one up.
LEMMA PagesStep ==
  ASSUME CallInv, CallInv', PagesInv, [Next]_vars
  PROVE  PagesInv'
<1> USE MaxOrderAssumption, SizeAssumption, RequestAssumption
<1> USE DEF counters, initvars, callvars, BlockLength, InHand, Booting, Somewhere
<1>a. TypeOK /\ CallOK /\ TypeOK' /\ CallOK'
  BY DEF CallInv
<1>1. CASE CountEntry
  BY <1>1, PagesKept DEF CountEntry, OnList, WithCaller, InCall, InRest, ToCome, UsableEntries
<1>2. CASE CountDone
  <2>1. \A e \in UsableEntries' : Unreached(e)' /\ e \in UsableEntries
    BY <1>2, <1>a, MapType DEF CountDone, Unreached, UsableEntries
  <2>2. \A p \in Int : Exists(p) <=> Exists(p)'
    BY <1>2 DEF CountDone, Exists, UsableEntries
  <2>3. ASSUME NEW p \in Int PROVE Somewhere(p)' <=> Exists(p)'
    <3>1. Exists(p)' => ToCome(p)'
      BY <1>2, <2>1 DEF CountDone, Exists, ToCome
    <3>2. ToCome(p)' => Exists(p)'
      BY DEF Exists, ToCome
    <3>3. ~ OnList(p)' /\ ~ InCall(p)' /\ ~ InRest(p)'
      BY <1>2 DEF CountDone, OnList, InCall, InRest
    <3>4. WithCaller(p)' => Exists(p)'
      BY <1>2, <2>2 DEF CountDone, WithCaller, PagesInv
    <3> QED BY <3>1, <3>2, <3>3, <3>4
  <2> QED BY <2>3 DEF PagesInv
<1>3. CASE SkipEntry
  <2>1. \A e \in UsableEntries : e \in Nat /\ (Unreached(e)' <=> Unreached(e))
    BY <1>3, <1>a, MapType DEF SkipEntry, Unreached, UsableEntries, TypeOK
  <2>2. UNCHANGED <<UsableEntries, mmap>> /\ pc = "region" /\ pc' = "region"
    BY <1>3 DEF SkipEntry, UsableEntries
  <2> QED BY <1>3, <2>1, <2>2, PagesKept DEF SkipEntry, OnList, WithCaller, InCall, InRest, ToCome
<1>4. CASE StartEntry
  <2>1. i \in UsableEntries /\ Unreached(i) /\ UNCHANGED <<UsableEntries, mmap>>
    BY <1>4, <1>a DEF StartEntry, Unreached, TypeOK, CallOK, UsableEntries
  <2>2. \A e \in UsableEntries : Unreached(e) <=> (Unreached(e)' \/ e = i)
    BY <1>4, <2>1 DEF StartEntry, Unreached
  <2>3. ASSUME NEW p \in Int PROVE Somewhere(p)' <=> Somewhere(p)
    <3>1. InRest(p)' <=> Within(p, mmap[i].base, mmap[i].length)
      BY <1>4 DEF StartEntry, InRest, Within
    <3>2. ToCome(p) <=> (ToCome(p)' \/ InRest(p)')
      BY <1>4, <2>1, <2>2, <3>1 DEF StartEntry, ToCome
    <3> QED BY <1>4, <3>2 DEF StartEntry, OnList, WithCaller, InCall, InRest
  <2> QED BY <2>1, <2>3, PagesKept
<1>5. CASE CarveBlock
  <2> DEFINE n == SizeForOrder[CarveOrder]
  <2>1. CarveOrder \in Orders /\ n \in Nat \ {0} /\ n <= remaining
    BY <1>5, <1>a, CarveOrderType DEF TypeOK, CarveBlock, Fits
  <2>2. /\ \A k \in Orders : free_list'[k] = free_list[k] \cup (IF k = CarveOrder THEN {current} ELSE {})
        /\ UNCHANGED <<mmap, held, pc, i>> /\ pc = "carve"
        /\ current' = current + n /\ remaining' = remaining - n
    BY <1>5, <1>a, <2>1 DEF CarveBlock, TypeOK
  <2>3. ASSUME NEW p \in Int PROVE Somewhere(p)' <=> Somewhere(p)
    <3>1. OnList(p)' <=> (OnList(p) \/ Within(p, current, n))
      BY <2>1, <2>2 DEF OnList
    <3>2. InRest(p) <=> (InRest(p)' \/ Within(p, current, n))
      BY <2>1, <2>2, <1>a DEF InRest, Within, TypeOK
    <3>3. ToCome(p)' <=> ToCome(p)
      BY <2>2 DEF ToCome, Unreached, UsableEntries
    <3> QED BY <2>2, <3>1, <3>2, <3>3 DEF WithCaller, InCall
  <2> QED BY <2>2, <2>3, PagesKept
<1>6. CASE EndEntry
  <2>1. UNCHANGED <<UsableEntries, mmap, held, free_list>> /\ pc = "carve" /\ pc' = "region"
    BY <1>6 DEF EndEntry, UsableEntries
  <2>2. \A e \in UsableEntries : Unreached(e)' <=> Unreached(e)
    BY <1>6, <1>a, <2>1, MapType DEF EndEntry, Unreached, UsableEntries, TypeOK
  <2>3. ASSUME NEW p \in Int PROVE ~ InRest(p) /\ ~ InRest(p)'
    BY <1>6, <1>a DEF EndEntry, InRest, Within, TypeOK
  <2> QED BY <2>1, <2>2, <2>3, PagesKept DEF OnList, WithCaller, InCall, ToCome
<1>7. CASE InitDone
  <2>1. \A e \in UsableEntries : ~ Unreached(e)
    BY <1>7, <1>a, MapType DEF InitDone, Unreached, UsableEntries, TypeOK
  <2> QED BY <1>7, <2>1, PagesKept DEF InitDone, OnList, WithCaller, InCall, InRest, ToCome
<1>8. CASE SearchNext
  BY <1>8, PagesKept DEF SearchNext, OnList, WithCaller, InCall, InRest, ToCome
<1>9. CASE TakeBlock
  <2>1. PICK b \in free_list[order] :
          /\ block' = b
          /\ free_list' = [free_list EXCEPT ![order] = @ \ {b}]
    BY <1>9 DEF TakeBlock
  <2>2. order \in Orders
    BY <1>9, <1>a DEF TakeBlock, TypeOK, Orders
  <2>3. \A k \in Orders : free_list'[k] = free_list[k] \ (IF k = order THEN {b} ELSE {})
    BY <2>1, <2>2, <1>a DEF TypeOK
  <2>4. ASSUME NEW p \in Int PROVE OnList(p) <=> (OnList(p)' \/ InCall(p)')
    BY <1>9, <2>1, <2>2, <2>3 DEF TakeBlock, OnList, InCall
  <2> QED BY <1>9, <2>4, PagesKept DEF TakeBlock, WithCaller, InCall, InRest, ToCome
<1>10. CASE AllocFail
  BY <1>10, PagesKept DEF AllocFail, Return, OnList, WithCaller, InCall, InRest, ToCome
<1>11. CASE SplitBlock
  <2> DEFINE n == SizeForOrder[order - 1]
  <2>1. order - 1 \in Orders /\ order \in Orders
    BY <1>11, <1>a DEF SplitBlock, CallOK, TypeOK
  <2>2. n \in Nat \ {0} /\ SizeForOrder[order] = n + n
    <3>1. order = (order - 1) + 1
      BY <2>1 DEF Orders
    <3> QED BY <2>1, <3>1
  <2>3. \A k \in Orders :
          free_list'[k] = free_list[k] \cup (IF k = order - 1 THEN {block + n} ELSE {})
    BY <1>11, <1>a, <2>1 DEF SplitBlock, TypeOK
  <2>4. ASSUME NEW p \in Int PROVE OnList(p) \/ InCall(p) <=> OnList(p)' \/ InCall(p)'
    <3>1. OnList(p)' <=> (OnList(p) \/ Within(p, block + n, n))
      BY <2>1, <2>3 DEF OnList
    <3>2. InCall(p)' <=> Within(p, block, n)
      BY <1>11 DEF SplitBlock, InCall
    <3>3. InCall(p) <=> Within(p, block, n) \/ Within(p, block + n, n)
      BY <1>11, <1>a, <2>2 DEF SplitBlock, InCall, Within, TypeOK
    <3> QED BY <3>1, <3>2, <3>3
  <2> QED BY <1>11, <2>4, PagesKept DEF SplitBlock, WithCaller, InRest, ToCome
<1>12. CASE AllocReturn
  <2> DEFINE g == [addr |-> block, size |-> size]
  <2>1. held' = held \cup {g} /\ pc = "split"
        /\ g.addr = block /\ SizeForOrder[GetOrder(g.size)] = SizeForOrder[order]
    BY <1>12 DEF AllocReturn
  <2> HIDE DEF g
  <2>2. ASSUME NEW p \in Int PROVE WithCaller(p)' <=> WithCaller(p) \/ InCall(p)
    <3>1. InCall(p) <=> Within(p, g.addr, SizeForOrder[GetOrder(g.size)])
      BY <2>1 DEF InCall
    <3> QED BY <2>1, <3>1 DEF WithCaller
  <2> QED BY <1>12, <2>2, PagesKept DEF AllocReturn, Return, OnList, InCall, InRest, ToCome
<1>13. CASE MergeBuddy
  <2> DEFINE n == SizeForOrder[order]
             b == GetBuddy(block, order)
  <2>1. order \in Orders /\ order + 1 \in Orders
    BY <1>13, <1>a DEF MergeBuddy, CallOK, Orders
  <2>2. n \in Nat \ {0} /\ SizeForOrder[order + 1] = n + n
    BY <2>1
  <2>3. b \in free_list[order] /\ b \in Nat /\ block \in Nat
    BY <1>13, <2>1, <1>a DEF MergeBuddy, TypeOK
  <2>4. b = block + n \/ b = block - n
    BY DEF GetBuddy
  <2>5. \A k \in Orders : free_list'[k] = free_list[k] \ (IF k = order THEN {b} ELSE {})
    BY <1>13, <1>a, <2>1 DEF MergeBuddy, TypeOK
  <2>6. ASSUME NEW p \in Int PROVE OnList(p) \/ InCall(p) <=> OnList(p)' \/ InCall(p)'
    <3>1. OnList(p) <=> (OnList(p)' \/ Within(p, b, n))
      BY <2>1, <2>3, <2>5 DEF OnList
    <3>2. InCall(p) <=> Within(p, block, n)
      BY <1>13 DEF MergeBuddy, InCall
    <3>3. InCall(p)' <=> Within(p, block', n + n)
      BY <1>13, <2>2 DEF MergeBuddy, InCall
    <3>4. Within(p, block', n + n) <=> Within(p, block, n) \/ Within(p, b, n)
      BY <1>13, <2>2, <2>3, <2>4 DEF MergeBuddy, Lower, Within
    <3> QED BY <3>1, <3>2, <3>3, <3>4
  <2> QED BY <1>13, <2>6, PagesKept DEF MergeBuddy, WithCaller, InRest, ToCome
<1>14. CASE InsertBlock
  <2>1. order \in Orders
    BY <1>14, <1>a DEF InsertBlock, CallOK
  <2>2. \A k \in Orders : free_list'[k] = free_list[k] \cup (IF k = order THEN {block} ELSE {})
    BY <1>14, <1>a, <2>1 DEF InsertBlock, TypeOK
  <2>3. ASSUME NEW p \in Int PROVE OnList(p)' <=> OnList(p) \/ InCall(p)
    BY <1>14, <2>1, <2>2 DEF InsertBlock, OnList, InCall
  <2> QED BY <1>14, <2>3, PagesKept DEF InsertBlock, Return, WithCaller, InCall, InRest, ToCome
<1>15. ASSUME NEW n \in Requests, AllocEnter(n) PROVE PagesInv'
  BY <1>15, PagesKept DEF AllocEnter, OnList, WithCaller, InCall, InRest, ToCome
<1>16. ASSUME NEW h \in held, FreeEnter(h) PROVE PagesInv'
  <2>1. ASSUME NEW p \in Int PROVE WithCaller(p) <=> WithCaller(p)' \/ InCall(p)'
    BY <1>16 DEF FreeEnter, WithCaller, InCall
  <2> QED BY <1>16, <2>1, PagesKept DEF FreeEnter, OnList, InCall, InRest, ToCome
<1>17. CASE UNCHANGED vars
  BY <1>17, PagesKept
     DEF vars, OnList, WithCaller, InCall, InRest, ToCome, Unreached, UsableEntries
<1> QED
  BY <1>1, <1>2, <1>3, <1>4, <1>5, <1>6, <1>7, <1>8, <1>9, <1>10, <1>11,
     <1>12, <1>13, <1>14, <1>15, <1>16, <1>17 DEF Next, Advance, BuddyInit

\* Page by page or set by set, it is the same.
LEMMA PagesAsSets ==
  ASSUME CallInv, PagesInv
  PROVE  NoPageLost
<1> USE MaxOrderAssumption, SizeAssumption
<1> SUFFICES ASSUME ~ Booting
             PROVE  FreePages \cup HeldPages \cup HandPages = UsablePages
  BY DEF NoPageLost
<1>a. TypeOK /\ CallOK
  BY DEF CallInv
<1>1. \A p : p \in FreePages <=> p \in Int /\ OnList(p)
  <2>1. \A k \in Orders : \A a \in free_list[k] : a \in Nat /\ SizeForOrder[k] \in Nat
    BY <1>a DEF TypeOK
  <2> QED BY <2>1 DEF FreePages, Pages, OnList, Within
<1>2. \A p : p \in HeldPages <=> p \in Int /\ WithCaller(p)
  <2>1. \A h \in held : h.addr \in Nat /\ BlockLength(h) \in Nat
    BY <1>a DEF TypeOK, Blocks, BlockLength
  <2> QED BY <2>1 DEF HeldPages, Pages, WithCaller, Within
<1>3. \A p : p \in HandPages <=> p \in Int /\ InCall(p)
  <2>1. InHand => block \in Nat /\ SizeForOrder[order] \in Nat
    BY <1>a DEF TypeOK, CallOK
  <2> QED BY <2>1 DEF HandPages, Pages, InCall, Within
<1>4. \A p : p \in UsablePages <=> p \in Int /\ Exists(p)
  <2>1. \A e \in UsableEntries : mmap[e].base \in Nat /\ mmap[e].length \in Nat
    BY <1>a, MapType DEF UsableEntries
  <2> QED BY <2>1 DEF UsablePages, Region, Pages, Exists, Within
<1>5. \A p : ~ InRest(p) /\ ~ ToCome(p)
  BY DEF Booting, InRest, ToCome
<1> QED BY <1>1, <1>2, <1>3, <1>4, <1>5 DEF PagesInv, Somewhere

\* Once the allocator is set up, every usable page is on a free list, with a
\* caller or in the hands of the running call, and nothing else is.
THEOREM NoPageLostHolds == Spec => []NoPageLost
<1>1. CallInv /\ PagesInv => NoPageLost
  BY PagesAsSets
<1>2. QED BY <1>1, PagesInit, PagesStep, CallInvHolds, PTL DEF Spec

-----------------------------------------------------------------------------
\* The counters. The pages of the usable entries before entry j:
Upto(j) == UNION {Region(e) : e \in {f \in UsableEntries : f < j}}

CountersInv ==
  /\ IsFiniteSet(HeldPages) /\ buddy_used_pages = Cardinality(HeldPages)
  /\ pc \in {"count", "region", "carve"} => IsFiniteSet(Upto(i))
  /\ pc = "count" => total_physical_pages = Cardinality(Upto(i)) /\ buddy_total_managed_pages = 0
  /\ pc # "count" => IsFiniteSet(UsablePages) /\ total_physical_pages = Cardinality(UsablePages)
  /\ pc = "region" => buddy_total_managed_pages = Cardinality(Upto(i))
  /\ pc = "carve" => buddy_total_managed_pages + remaining
                       = Cardinality(Upto(i)) + mmap[i].length
  /\ ~ Booting => buddy_total_managed_pages = total_physical_pages

\* The map's entries are numbered from one.
LEMMA MapShape ==
  ASSUME TypeOK
  PROVE  DOMAIN mmap = 1 .. Len(mmap) /\ Len(mmap) \in Nat
<1>1. mmap \in Seq([base : Nat, length : Nat, type : Nat])
  BY MapAssumption DEF TypeOK, ValidMap
<1> QED BY <1>1

\* How many pages a block has.
LEMMA PagesCount ==
  ASSUME NEW a \in Nat, NEW n \in Nat
  PROVE  IsFiniteSet(Pages(a, n)) /\ Cardinality(Pages(a, n)) = n
<1>1. a \in Int /\ a + n - 1 \in Int
  OBVIOUS
<1>2. /\ IsFiniteSet(a .. (a + n - 1))
      /\ Cardinality(a .. (a + n - 1)) = IF a > a + n - 1 THEN 0 ELSE (a + n - 1) - a + 1
  BY <1>1, FS_Interval
<1> QED BY <1>2 DEF Pages

\* Sets with nothing in common.
LEMMA DisjointCount ==
  ASSUME NEW S, NEW T, IsFiniteSet(S), IsFiniteSet(T), S \cap T = {}
  PROVE  IsFiniteSet(S \cup T) /\ Cardinality(S \cup T) = Cardinality(S) + Cardinality(T)
<1>1. /\ IsFiniteSet(S \cup T)
      /\ Cardinality(S \cup T) = Cardinality(S) + Cardinality(T) - Cardinality(S \cap T)
  BY FS_Union
<1>2. Cardinality(S \cap T) = 0
  BY FS_EmptySet
<1>3. Cardinality(S) \in Nat /\ Cardinality(T) \in Nat
  BY FS_CardinalityType
<1> QED BY <1>1, <1>2, <1>3

\* A page of a block lies between its ends.
LEMMA InPages ==
  ASSUME NEW a \in Nat, NEW n \in Nat, NEW p \in Pages(a, n)
  PROVE  p \in Int /\ a <= p /\ p < a + n
  BY DEF Pages

\* One more entry of the map.
LEMMA EntryCount ==
  ASSUME TypeOK, NEW j \in DOMAIN mmap, IsFiniteSet(Upto(j))
  PROVE  /\ IsFiniteSet(Upto(j + 1))
         /\ Cardinality(Upto(j + 1))
              = Cardinality(Upto(j)) + (IF mmap[j].type = Usable THEN mmap[j].length ELSE 0)
<1>1. /\ mmap[j].base \in Nat /\ mmap[j].length \in Nat
      /\ DOMAIN mmap = 1 .. Len(mmap) /\ Len(mmap) \in Nat
  BY MapType
<1>2. j \in Nat /\ UsableEntries \subseteq Nat
  BY <1>1 DEF UsableEntries
<1>3. CASE mmap[j].type = Usable
  <2>1. Upto(j + 1) = Upto(j) \cup Region(j)
    <3>1. {f \in UsableEntries : f < j + 1} = {f \in UsableEntries : f < j} \cup {j}
      BY <1>2, <1>3 DEF UsableEntries
    <3> QED BY <3>1 DEF Upto
  <2>2. Upto(j) \cap Region(j) = {}
    <3> SUFFICES ASSUME NEW e \in UsableEntries, e < j, NEW p \in Region(e), p \in Region(j)
                 PROVE  FALSE
      BY DEF Upto
    <3>1. e \in DOMAIN mmap /\ e # j /\ mmap[e].type = Usable
      BY <1>2 DEF UsableEntries
    <3>2. mmap[e].base \in Nat /\ mmap[e].length \in Nat
      BY <3>1, MapType
    <3>3. \/ mmap[e].base + mmap[e].length <= mmap[j].base
          \/ mmap[j].base + mmap[j].length <= mmap[e].base
      BY <1>3, <3>1, MapAssumption DEF TypeOK, ValidMap
    <3>4. /\ mmap[e].base <= p /\ p < mmap[e].base + mmap[e].length
          /\ mmap[j].base <= p /\ p < mmap[j].base + mmap[j].length /\ p \in Int
      <4>1. p \in Pages(mmap[e].base, mmap[e].length) /\ p \in Pages(mmap[j].base, mmap[j].length)
        BY DEF Region
      <4> QED BY <1>1, <3>2, <4>1, InPages
    <3> QED BY <1>1, <3>2, <3>3, <3>4
  <2>3. IsFiniteSet(Region(j)) /\ Cardinality(Region(j)) = mmap[j].length
    BY <1>1, PagesCount DEF Region
  <2> QED BY <1>3, <2>1, <2>2, <2>3, DisjointCount
<1>4. CASE mmap[j].type # Usable
  <2>1. {f \in UsableEntries : f < j + 1} = {f \in UsableEntries : f < j}
    BY <1>2, <1>4 DEF UsableEntries
  <2>2. Upto(j + 1) = Upto(j)
    BY <2>1 DEF Upto
  <2>3. Cardinality(Upto(j)) \in Nat
    BY FS_CardinalityType
  <2> QED BY <1>4, <2>2, <2>3
<1> QED BY <1>3, <1>4

\* Behind the last entry all usable pages are counted.
LEMMA UptoAll ==
  ASSUME TypeOK, i > Len(mmap)
  PROVE  Upto(i) = UsablePages
<1>1. \A e \in UsableEntries : e < i
  BY MapType DEF UsableEntries, TypeOK
<1> QED BY <1>1 DEF Upto, UsablePages

\* Before the first entry there is none.
LEMMA UptoNone ==
  ASSUME TypeOK
  PROVE  Upto(1) = {} /\ IsFiniteSet({}) /\ Cardinality({}) = 0
<1>1. \A e \in UsableEntries : ~ (e < 1)
  BY MapType DEF UsableEntries
<1>2. {f \in UsableEntries : f < 1} = {}
  BY <1>1
<1>3. Upto(1) = {}
  BY <1>2 DEF Upto
<1> QED BY <1>3, FS_EmptySet

\* At boot.
LEMMA CountersInit == Init /\ TypeOK => CountersInv
<1> SUFFICES ASSUME Init, TypeOK PROVE CountersInv
  OBVIOUS
<1>1. Upto(1) = {} /\ IsFiniteSet({}) /\ Cardinality({}) = 0
  BY UptoNone
<1>2. HeldPages = {}
  BY DEF Init, HeldPages
<1> QED BY <1>1, <1>2 DEF Init, CountersInv, Booting

\* Steps that count nothing.
LEMMA CountersKept ==
  ASSUME CountersInv, UNCHANGED <<mmap, counters, held>>,
         pc \notin {"count", "region", "carve"}, pc' \notin {"count", "region", "carve"}
  PROVE  CountersInv'
  BY DEF CountersInv, counters, HeldPages, BlockLength, UsablePages, UsableEntries, Region, Booting

\* Each step of the allocator keeps the counters right.
LEMMA CountersStep ==
  ASSUME CallInv, CallInv', OverlapInv, CountersInv, [Next]_vars
  PROVE  CountersInv'
<1> USE MaxOrderAssumption, SizeAssumption, RequestAssumption
<1> USE DEF counters, initvars, callvars
<1>a. TypeOK /\ CallOK /\ TypeOK' /\ CallOK'
  BY DEF CallInv
<1>b. ASSUME UNCHANGED <<mmap, held>>
      PROVE  /\ HeldPages' = HeldPages /\ UsablePages' = UsablePages
             /\ Upto(i)' = Upto(i')
  BY <1>b DEF HeldPages, BlockLength, UsablePages, UsableEntries, Region, Upto
<1>1. CASE CountEntry
  <2>1. i \in DOMAIN mmap
    BY <1>1, <1>a, MapShape DEF CountEntry, TypeOK
  <2>2. /\ IsFiniteSet(Upto(i + 1))
        /\ Cardinality(Upto(i + 1))
             = Cardinality(Upto(i)) + (IF mmap[i].type = Usable THEN mmap[i].length ELSE 0)
    BY <1>1, <1>a, <2>1, EntryCount DEF CountersInv, CountEntry
  <2>3. Upto(i)' = Upto(i + 1) /\ HeldPages' = HeldPages
    BY <1>1, <1>b DEF CountEntry
  <2> QED BY <1>1, <2>2, <2>3 DEF CountEntry, CountersInv, Booting
<1>2. CASE CountDone
  <2>1. Upto(i) = UsablePages
    BY <1>2, <1>a, UptoAll DEF CountDone
  <2>2. Upto(i)' = {} /\ IsFiniteSet({}) /\ Cardinality({}) = 0
    BY <1>2, <1>a, <1>b, UptoNone DEF CountDone
  <2>3. HeldPages' = HeldPages /\ UsablePages' = UsablePages
    BY <1>2, <1>b DEF CountDone
  <2> QED BY <1>2, <2>1, <2>2, <2>3 DEF CountDone, CountersInv, Booting
<1>3. CASE SkipEntry
  <2>1. i \in DOMAIN mmap
    BY <1>3, <1>a, MapShape DEF SkipEntry, TypeOK
  <2>2. IsFiniteSet(Upto(i + 1)) /\ Cardinality(Upto(i + 1)) = Cardinality(Upto(i)) + 0
    BY <1>3, <1>a, <2>1, EntryCount DEF CountersInv, SkipEntry
  <2>3. Upto(i)' = Upto(i + 1) /\ HeldPages' = HeldPages /\ UsablePages' = UsablePages
    BY <1>3, <1>b DEF SkipEntry
  <2>4. Cardinality(Upto(i)) \in Nat
    BY <1>3, FS_CardinalityType DEF CountersInv, SkipEntry
  <2> QED BY <1>3, <2>2, <2>3, <2>4 DEF SkipEntry, CountersInv, Booting
<1>4. CASE StartEntry
  <2>1. Upto(i)' = Upto(i) /\ HeldPages' = HeldPages /\ UsablePages' = UsablePages
    BY <1>4, <1>b DEF StartEntry
  <2> QED BY <1>4, <2>1 DEF StartEntry, CountersInv, Booting
<1>5. CASE CarveBlock
  <2>1. Upto(i)' = Upto(i) /\ HeldPages' = HeldPages /\ UsablePages' = UsablePages
    BY <1>5, <1>b DEF CarveBlock
  <2>2. buddy_total_managed_pages' + remaining' = buddy_total_managed_pages + remaining
    <3>1. CarveOrder \in Orders
      BY <1>5, <1>a, CarveOrderType DEF CarveBlock, TypeOK
    <3>2. SizeForOrder[CarveOrder] \in Nat
      BY <3>1
    <3> QED BY <1>5, <1>a, <3>2 DEF CarveBlock, TypeOK
  <2> QED BY <1>5, <2>1, <2>2 DEF CarveBlock, CountersInv, Booting
<1>6. CASE EndEntry
  <2>1. i \in DOMAIN mmap /\ mmap[i].type = Usable /\ remaining = 0
    BY <1>6, <1>a DEF EndEntry, CallOK, UsableEntries, TypeOK
  <2>2. /\ IsFiniteSet(Upto(i + 1))
        /\ Cardinality(Upto(i + 1)) = Cardinality(Upto(i)) + mmap[i].length
    BY <1>6, <1>a, <2>1, EntryCount DEF CountersInv, EndEntry
  <2>3. Upto(i)' = Upto(i + 1) /\ HeldPages' = HeldPages /\ UsablePages' = UsablePages
    BY <1>6, <1>b DEF EndEntry
  <2>4. buddy_total_managed_pages = Cardinality(Upto(i)) + mmap[i].length
    BY <1>6, <1>a, <2>1 DEF CountersInv, EndEntry, TypeOK
  <2> QED BY <1>6, <2>2, <2>3, <2>4 DEF EndEntry, CountersInv, Booting
<1>7. CASE InitDone
  <2>1. Upto(i) = UsablePages
    BY <1>7, <1>a, UptoAll DEF InitDone
  <2>2. HeldPages' = HeldPages /\ UsablePages' = UsablePages
    BY <1>7, <1>b DEF InitDone
  <2> QED BY <1>7, <2>1, <2>2 DEF InitDone, CountersInv, Booting
<1>8. CASE SearchNext \/ TakeBlock \/ AllocFail \/ SplitBlock \/ MergeBuddy \/ InsertBlock
  BY <1>8, CountersKept
     DEF SearchNext, TakeBlock, AllocFail, SplitBlock, MergeBuddy, InsertBlock, Return
<1>9. CASE AllocReturn
  <2> DEFINE h == [addr |-> block, size |-> size]
             taken == Pages(block, SizeForOrder[order])
  <2>1. order \in Orders /\ order = GetOrder(size) /\ SizeForOrder[order] \in Nat /\ block \in Nat
    BY <1>9, <1>a DEF AllocReturn, CallOK, InHand, TypeOK
  <2>2. HeldPages' = HeldPages \cup taken
    <3>1. held' = held \cup {h} /\ BlockLength(h) = SizeForOrder[order]
      BY <1>9, <2>1 DEF AllocReturn, BlockLength
    <3>2. HeldPages' = UNION {Pages(g.addr, BlockLength(g)) : g \in held \cup {h}}
      BY <3>1 DEF HeldPages, BlockLength
    <3>3. Pages(h.addr, BlockLength(h)) = taken
      BY <3>1
    <3> QED BY <3>2, <3>3 DEF HeldPages
  <2>3. HeldPages \cap taken = {}
    <3>1. \A g \in held : /\ g.addr \in Nat /\ BlockLength(g) \in Nat
                          /\ Apart(g.addr, BlockLength(g), block, SizeForOrder[order])
      BY <1>9, <1>a
         DEF AllocReturn, OverlapInv, NoOverlap, HandApart, InHand, TypeOK, Blocks, BlockLength
    <3> QED BY <2>1, <3>1 DEF HeldPages, Pages, Apart
  <2>4. IsFiniteSet(taken) /\ Cardinality(taken) = SizeForOrder[order]
    BY <2>1, PagesCount
  <2>5. /\ IsFiniteSet(HeldPages')
        /\ Cardinality(HeldPages') = Cardinality(HeldPages) + SizeForOrder[order]
    <3> HIDE DEF taken
    <3>1. IsFiniteSet(HeldPages)
      BY DEF CountersInv
    <3>2. /\ IsFiniteSet(HeldPages \cup taken)
          /\ Cardinality(HeldPages \cup taken) = Cardinality(HeldPages) + Cardinality(taken)
      BY <2>3, <2>4, <3>1, DisjointCount
    <3> QED BY <2>2, <2>4, <3>2
  <2>6. UsablePages' = UsablePages
    BY <1>9 DEF AllocReturn, UsablePages, UsableEntries, Region
  <2> QED BY <1>9, <2>5, <2>6 DEF AllocReturn, Return, CountersInv, Booting
<1>10. ASSUME NEW n \in Requests, AllocEnter(n) PROVE CountersInv'
  BY <1>10, CountersKept DEF AllocEnter
<1>11. ASSUME NEW h \in held, FreeEnter(h) PROVE CountersInv'
  <2> DEFINE given == Pages(h.addr, BlockLength(h))
  <2>1. h.addr \in Nat /\ BlockLength(h) \in Nat
    BY <1>a DEF TypeOK, Blocks, BlockLength
  <2>2. held' = held \ {h}
    BY <1>11 DEF FreeEnter
  <2>3. HeldPages = HeldPages' \cup given
    BY <2>2 DEF HeldPages, BlockLength
  <2>4. HeldPages' \cap given = {}
    <3>1. \A g \in held : g.addr \in Nat /\ BlockLength(g) \in Nat
      BY <1>a DEF TypeOK, Blocks, BlockLength
    <3>2. \A g \in held \ {h} : Apart(g.addr, BlockLength(g), h.addr, BlockLength(h))
      BY DEF OverlapInv, NoOverlap, HeldApart
    <3>3. HeldPages' = UNION {Pages(g.addr, BlockLength(g)) : g \in held \ {h}}
      BY <2>2 DEF HeldPages, BlockLength
    <3> QED BY <2>1, <3>1, <3>2, <3>3 DEF Pages, Apart
  <2>5. IsFiniteSet(given) /\ Cardinality(given) = BlockLength(h)
    BY <2>1, PagesCount
  <2>6. IsFiniteSet(HeldPages')
    BY <2>3, FS_Subset DEF CountersInv
  <2>7. Cardinality(HeldPages) = Cardinality(HeldPages') + BlockLength(h)
    BY <2>3, <2>4, <2>5, <2>6, DisjointCount
  <2>8. Cardinality(HeldPages') \in Nat
    BY <2>6, FS_CardinalityType
  <2>9. buddy_used_pages' = Cardinality(HeldPages')
    BY <1>11, <2>1, <2>7, <2>8 DEF FreeEnter, CountersInv, BlockLength
  <2>10. UsablePages' = UsablePages
    BY <1>11 DEF FreeEnter, UsablePages, UsableEntries, Region
  <2> QED BY <1>11, <2>6, <2>9, <2>10 DEF FreeEnter, CountersInv, Booting
<1>12. CASE UNCHANGED vars
  <2>1. HeldPages' = HeldPages /\ UsablePages' = UsablePages /\ Upto(i)' = Upto(i)
    BY <1>12, <1>b DEF vars
  <2> QED BY <1>12, <2>1 DEF vars, CountersInv, Booting
<1> QED
  BY <1>1, <1>2, <1>3, <1>4, <1>5, <1>6, <1>7, <1>8, <1>9, <1>10, <1>11, <1>12
     DEF Next, Advance, BuddyInit

\* In every state.
LEMMA CountersInvHolds == Spec => []CountersInv
<1>1. CallInv => TypeOK
  BY DEF CallInv
<1> QED BY <1>1, CountersInit, CountersStep, PagesInit, PagesStep, OverlapInit, OverlapStep,
           CallInvHolds, PTL DEF Spec

\* Pages in use are counted, and never fewer than none.
LEMMA UsedNotNegative == CountersInv => buddy_used_pages \in Nat
  BY FS_CardinalityType DEF CountersInv

\* The counters behind the meminfo command are exact: used is what callers hold,
\* managed is all usable memory, and the difference is what is free.
THEOREM CountersExactHolds == Spec => []CountersExact
<1>1. ASSUME CallInv, OverlapInv, PagesInv, CountersInv PROVE CountersExact
  <2> SUFFICES ASSUME pc = "idle"
               PROVE  buddy_total_managed_pages - buddy_used_pages = Cardinality(FreePages)
    BY <1>1 DEF CountersInv, CountersExact
  <2>1. FreePages \cup HeldPages = UsablePages
    BY <1>1, PagesAsSets DEF NoPageLost, Booting, HandPages, InHand
  <2>2. FreePages \cap HeldPages = {}
    <3>1. \A k \in Orders : \A a \in free_list[k] : a \in Nat /\ SizeForOrder[k] \in Nat
      BY <1>1, SizeAssumption DEF CallInv, TypeOK
    <3>2. \A h \in held : h.addr \in Nat /\ BlockLength(h) \in Nat
      BY <1>1, SizeAssumption DEF CallInv, TypeOK, Blocks, BlockLength
    <3> QED BY <1>1, <3>1, <3>2
            DEF OverlapInv, NoOverlap, FreeHeldApart, FreePages, HeldPages, Pages, Apart
  <2>3. IsFiniteSet(UsablePages) /\ IsFiniteSet(HeldPages) /\ IsFiniteSet(FreePages)
    BY <1>1, <2>1, FS_Subset DEF CountersInv
  <2>4. Cardinality(UsablePages) = Cardinality(FreePages) + Cardinality(HeldPages)
    BY <2>1, <2>2, <2>3, DisjointCount
  <2>5. Cardinality(FreePages) \in Nat /\ Cardinality(HeldPages) \in Nat
    BY <2>3, FS_CardinalityType
  <2> QED BY <1>1, <2>4, <2>5 DEF CountersInv, Booting
<1> QED BY <1>1, CountersInvHolds, PagesInit, PagesStep, OverlapInit, OverlapStep,
           CallInvHolds, PTL DEF Spec

-----------------------------------------------------------------------------
\* The length of a block is a multiple of the length of every smaller one.
LEMMA SizesNest ==
  ASSUME NEW j \in Orders, NEW k \in Orders, j <= k
  PROVE  \E c \in Nat \ {0} : SizeForOrder[k] = c * SizeForOrder[j]
<1> USE MaxOrderAssumption, SizeAssumption
<1> DEFINE Nests(d) == \E c \in Nat \ {0} : SizeForOrder[j + d] = c * SizeForOrder[j]
           T == {d \in Nat : j + d \in Orders /\ ~ Nests(d)}
<1>1. T = {}
  <2> SUFFICES ASSUME T # {} PROVE FALSE
    OBVIOUS
  <2>1. PICK d \in T : \A x \in T : d <= x
    BY LeastNatural
  <2>2. j \in Nat /\ d \in Nat /\ j + d \in Orders /\ SizeForOrder[j] \in Nat
    BY <2>1 DEF Orders
  <2>3. d # 0
    <3>1. SizeForOrder[j + 0] = 1 * SizeForOrder[j]
      BY <2>2
    <3> QED BY <2>1, <3>1
  <2>4. d - 1 \in Nat /\ j + (d - 1) \in Orders /\ (j + (d - 1)) + 1 = j + d
    BY <2>2, <2>3 DEF Orders
  <2>5. Nests(d - 1)
    <3>1. d - 1 \notin T
      <4> SUFFICES ASSUME d - 1 \in T PROVE FALSE
        OBVIOUS
      <4>1. d <= d - 1
        BY <2>1
      <4> QED BY <2>2, <4>1
    <3> QED BY <2>4, <3>1
  <2>6. PICK c \in Nat \ {0} : SizeForOrder[j + (d - 1)] = c * SizeForOrder[j]
    BY <2>5
  <2>7. SizeForOrder[j + d] = 2 * (c * SizeForOrder[j])
    BY <2>2, <2>4, <2>6
  <2>8. 2 * (c * SizeForOrder[j]) = (2 * c) * SizeForOrder[j] /\ 2 * c \in Nat \ {0}
    BY <2>2, <2>6
  <2> QED BY <2>1, <2>7, <2>8
<1>2. k - j \in Nat /\ j + (k - j) = k
  BY DEF Orders
<1>3. Nests(k - j)
  BY <1>1, <1>2
<1> QED BY <1>2, <1>3

\* Two aligned blocks that share a page: the smaller lies in the larger.
LEMMA BlocksNest ==
  ASSUME NEW j \in Orders, NEW k \in Orders, j <= k,
         NEW a \in Nat, NEW b \in Nat,
         a % SizeForOrder[j] = 0, b % SizeForOrder[k] = 0,
         ~ Apart(a, SizeForOrder[j], b, SizeForOrder[k])
  PROVE  b <= a /\ a + SizeForOrder[j] <= b + SizeForOrder[k]
<1> DEFINE n == SizeForOrder[j]
           m == SizeForOrder[k]
<1>1. n \in Nat \ {0} /\ m \in Nat \ {0}
  BY SizeAssumption
<1>2. PICK c \in Nat \ {0} : m = c * n
  BY SizesNest
<1> HIDE DEF n, m
<1>3. PICK x \in Nat : a = x * n
  BY <1>1, Quotient DEF n
<1>4. PICK y \in Nat : b = y * m
  BY <1>1, Quotient DEF m
<1>5. y * c \in Nat /\ y * m = (y * c) * n
  BY <1>1, <1>2, <1>4
<1>6. PICK z \in Nat : b = z * n
  BY <1>4, <1>5
<1>7. (x + 1) * n = a + n /\ (z + c) * n = b + m
  BY <1>1, <1>2, <1>3, <1>6
<1>8. a < b + m /\ b < a + n
  BY <1>1 DEF Apart, n, m
<1>9. x < z + c /\ z < x + 1
  <2>1. x * n < (z + c) * n /\ z * n < (x + 1) * n
    BY <1>3, <1>6, <1>7, <1>8
  <2> QED BY <1>1, <1>2, <2>1, Smaller
<1>10. z * n <= x * n /\ (x + 1) * n <= (z + c) * n
  BY <1>1, <1>9, Larger
<1> QED BY <1>3, <1>6, <1>7, <1>10 DEF n, m

\* get_buddy: an aligned block and its buddy are each other's, and make up an
\* aligned block of the next order, with the lower one first.
LEMMA BuddyFacts ==
  ASSUME NEW k \in Orders, k + 1 \in Orders, NEW a \in Nat, a % SizeForOrder[k] = 0
  PROVE  LET n == SizeForOrder[k]
             b == GetBuddy(a, k)
         IN  /\ b \in Nat /\ b % n = 0 /\ GetBuddy(b, k) = a
             /\ Lower(a, b) % SizeForOrder[k + 1] = 0
             /\ \/ b = a + n /\ a % SizeForOrder[k + 1] = 0
                \/ a = b + n /\ b % SizeForOrder[k + 1] = 0
<1> DEFINE n == SizeForOrder[k]
           b == GetBuddy(a, k)
           x == a \div n
<1>1. n \in Nat \ {0} /\ SizeForOrder[k + 1] = 2 * n
  BY SizeAssumption
<1>2. x \in Nat /\ a = x * n
  BY <1>1, Quotient
<1>3. b = IF x % 2 = 0 THEN a + n ELSE a - n
  BY DEF GetBuddy
<1>b. \A c : GetBuddy(c, k) = IF (c \div n) % 2 = 0 THEN c + n ELSE c - n
  BY DEF GetBuddy
<1> HIDE DEF n, x, b
<1>4. CASE x % 2 = 0
  <2>1. PICK h \in Nat : x = 2 * h
    BY <1>2, <1>4
  <2>2. b = (x + 1) * n
    BY <1>1, <1>2, <1>3, <1>4
  <2>3. b \in Nat /\ b % n = 0 /\ b \div n = x + 1
    BY <1>1, <1>2, <2>2, MultipleIs
  <2>4. (x + 1) % 2 # 0
    BY <1>2, <1>4
  <2>5. GetBuddy(b, k) = a
    BY <1>b, <1>1, <1>2, <1>3, <1>4, <2>3, <2>4
  <2>6. a = h * (2 * n)
    BY <1>1, <1>2, <2>1
  <2>7. a % (2 * n) = 0
    BY <1>1, <2>6, MultipleIs
  <2>8. b = a + n /\ Lower(a, b) = a
    BY <1>1, <1>2, <1>3, <1>4 DEF Lower
  <2> QED BY <1>1, <2>3, <2>5, <2>7, <2>8 DEF n, b
<1>5. CASE x % 2 # 0
  <2>1. PICK h \in Nat : x = 2 * h + 1
    BY <1>2, <1>5
  <2>2. b = (2 * h) * n /\ 2 * h \in Nat
    BY <1>1, <1>2, <1>3, <1>5, <2>1
  <2>3. b \in Nat /\ b % n = 0 /\ b \div n = 2 * h
    BY <1>1, <2>2, MultipleIs
  <2>4. (2 * h) % 2 = 0
    OBVIOUS
  <2>5. GetBuddy(b, k) = a
    BY <1>b, <1>1, <1>2, <1>3, <1>5, <2>3, <2>4
  <2>6. b = h * (2 * n)
    BY <1>1, <2>2
  <2>7. b % (2 * n) = 0
    BY <1>1, <2>6, MultipleIs
  <2>8. a = b + n /\ Lower(a, b) = b
    BY <1>1, <1>2, <1>3, <1>5, <2>3 DEF Lower
  <2> QED BY <1>1, <2>3, <2>5, <2>7, <2>8 DEF n, b
<1> QED BY <1>4, <1>5
-----------------------------------------------------------------------------
\* Every block lies at a multiple of its length.
Aligned ==
  /\ \A k \in Orders : \A a \in free_list[k] : a % SizeForOrder[k] = 0
  /\ \A h \in held : h.addr % BlockLength(h) = 0
  /\ InHand => block % SizeForOrder[order] = 0

\* buddy_init takes the largest block that fits: a block it made of the entry it
\* is at could have been no larger, for want of alignment or of pages behind it.
CarvedLargest ==
  pc = "carve" =>
    /\ mmap[i].base <= current
    /\ current + remaining = mmap[i].base + mmap[i].length
    /\ \A k \in Orders \ {MaxOrder} : \A a \in free_list[k] :
         a \in Region(i) /\ a % SizeForOrder[k + 1] = 0
           => a + SizeForOrder[k + 1] > mmap[i].base + mmap[i].length

CoalescedInv == Coalesced /\ CarvedLargest

\* The lists a search has passed are empty.
SearchedInv ==
  pc = "search" =>
    \A k \in Orders : GetOrder(size) <= k /\ k < order => free_list[k] = {}
\* The halves of an aligned block are aligned, and each other's buddies.
LEMMA Halves ==
  ASSUME NEW k \in Orders, k + 1 \in Orders, NEW a \in Nat, a % SizeForOrder[k + 1] = 0
  PROVE  /\ a % SizeForOrder[k] = 0 /\ (a + SizeForOrder[k]) % SizeForOrder[k] = 0
         /\ GetBuddy(a + SizeForOrder[k], k) = a
<1> DEFINE n == SizeForOrder[k]
           m == SizeForOrder[k + 1]
<1>1. n \in Nat \ {0} /\ m \in Nat \ {0} /\ m = 2 * n
  BY SizeAssumption
<1>2. PICK h \in Nat : a = h * m
  BY <1>1, Quotient
<1>b. \A c : GetBuddy(c, k) = IF (c \div n) % 2 = 0 THEN c + n ELSE c - n
  BY DEF GetBuddy
<1> HIDE DEF n, m
<1>3. a = (2 * h) * n /\ a + n = (2 * h + 1) * n /\ 2 * h \in Nat /\ 2 * h + 1 \in Nat
  BY <1>1, <1>2
<1>4. a % n = 0 /\ a \div n = 2 * h /\ (a + n) % n = 0 /\ (a + n) \div n = 2 * h + 1
  BY <1>1, <1>3, MultipleIs
<1>5. (2 * h + 1) % 2 = 1
  OBVIOUS
<1>6. GetBuddy(a + n, k) = (a + n) - n
  BY <1>b, <1>4, <1>5
<1> QED BY <1>1, <1>4, <1>6 DEF n

\* Every step keeps the blocks aligned.
LEMMA AlignedStep ==
  ASSUME CallInv, CallInv', Aligned, [Next]_vars
  PROVE  Aligned'
<1> USE MaxOrderAssumption, SizeAssumption, RequestAssumption
<1> USE DEF counters, initvars, callvars, BlockLength, InHand
<1>a. TypeOK /\ CallOK /\ TypeOK' /\ CallOK'
  BY DEF CallInv
<1>1. CASE CountEntry \/ CountDone \/ SkipEntry \/ StartEntry \/ EndEntry \/ InitDone
  BY <1>1 DEF Aligned, CountEntry, CountDone, SkipEntry, StartEntry, EndEntry, InitDone
<1>2. CASE CarveBlock
  <2>1. CarveOrder \in Orders /\ current % SizeForOrder[CarveOrder] = 0
    BY <1>2, <1>a, CarveOrderType DEF TypeOK, CarveBlock, Fits
  <2>2. \A k \in Orders : \A a \in free_list'[k] :
          a \in free_list[k] \/ (k = CarveOrder /\ a = current)
    BY <1>2, <1>a, <2>1 DEF CarveBlock, TypeOK
  <2> QED BY <1>2, <2>1, <2>2 DEF CarveBlock, Aligned
<1>3. CASE SearchNext \/ AllocFail
  BY <1>3 DEF Aligned, SearchNext, AllocFail, Return
<1>4. CASE TakeBlock
  <2>1. PICK b \in free_list[order] :
          block' = b /\ free_list' = [free_list EXCEPT ![order] = @ \ {b}]
    BY <1>4 DEF TakeBlock
  <2>2. order \in Orders
    BY <1>4, <1>a DEF TakeBlock, TypeOK, Orders
  <2>3. \A k \in Orders : free_list'[k] \subseteq free_list[k]
    BY <2>1, <2>2, <1>a DEF TypeOK
  <2> QED BY <1>4, <2>1, <2>2, <2>3 DEF TakeBlock, Aligned
<1>5. CASE SplitBlock
  <2>1. order - 1 \in Orders /\ order \in Orders /\ (order - 1) + 1 = order
    BY <1>5, <1>a DEF SplitBlock, CallOK, TypeOK, Orders
  <2>2. \A k \in Orders : \A a \in free_list'[k] :
          a \in free_list[k] \/ (k = order - 1 /\ a = block + SizeForOrder[order - 1])
    BY <1>5, <1>a, <2>1 DEF SplitBlock, TypeOK
  <2>3. block \in Nat /\ block % SizeForOrder[order] = 0
    BY <1>5, <1>a DEF SplitBlock, Aligned, TypeOK
  <2>4. /\ block % SizeForOrder[order - 1] = 0
        /\ (block + SizeForOrder[order - 1]) % SizeForOrder[order - 1] = 0
    BY <2>1, <2>3, Halves
  <2> QED BY <1>5, <2>1, <2>2, <2>4 DEF SplitBlock, Aligned
<1>6. CASE AllocReturn
  <2>1. \A h \in held' : h \in held \/ (h.addr = block /\ BlockLength(h) = SizeForOrder[order])
    BY <1>6 DEF AllocReturn
  <2> QED BY <1>6, <2>1 DEF AllocReturn, Return, Aligned
<1>7. CASE MergeBuddy
  <2>1. order \in Orders /\ order + 1 \in Orders
    BY <1>7, <1>a DEF MergeBuddy, CallOK, Orders
  <2>2. \A k \in Orders : free_list'[k] \subseteq free_list[k]
    BY <1>7, <1>a, <2>1 DEF MergeBuddy, TypeOK
  <2>3. block \in Nat /\ block % SizeForOrder[order] = 0
    BY <1>7, <1>a DEF MergeBuddy, Aligned, TypeOK
  <2>4. Lower(block, GetBuddy(block, order)) % SizeForOrder[order + 1] = 0
    BY <2>1, <2>3, BuddyFacts
  <2> QED BY <1>7, <2>2, <2>4 DEF MergeBuddy, Aligned
<1>8. CASE InsertBlock
  <2>1. \A k \in Orders : \A a \in free_list'[k] :
          a \in free_list[k] \/ (k = order /\ a = block)
    BY <1>8, <1>a DEF InsertBlock, TypeOK, CallOK
  <2> QED BY <1>8, <2>1 DEF InsertBlock, Return, Aligned
<1>9. ASSUME NEW n \in Requests, AllocEnter(n) PROVE Aligned'
  BY <1>9 DEF AllocEnter, Aligned
<1>10. ASSUME NEW h \in held, FreeEnter(h) PROVE Aligned'
  BY <1>10 DEF FreeEnter, Aligned
<1>11. CASE UNCHANGED vars
  BY <1>11 DEF vars, Aligned
<1> QED
  BY <1>1, <1>2, <1>3, <1>4, <1>5, <1>6, <1>7, <1>8, <1>9, <1>10, <1>11
     DEF Next, Advance, BuddyInit
-----------------------------------------------------------------------------
\* Steps that put nothing on a list keep free memory coalesced.
LEMMA CoalescedKept ==
  ASSUME Coalesced, UNCHANGED mmap, \A k \in Orders : free_list'[k] \subseteq free_list[k]
  PROVE  Coalesced'
<1> SUFFICES ASSUME NEW k \in Orders \ {MaxOrder}, NEW a \in free_list'[k],
                    GetBuddy(a, k) \in free_list'[k]
             PROVE  ~ \E e \in UsableEntries' : {a, GetBuddy(a, k)} \subseteq Region(e)'
  BY DEF Coalesced
<1>1. k \in Orders
  OBVIOUS
<1>2. a \in free_list[k] /\ GetBuddy(a, k) \in free_list[k]
  BY <1>1
<1> QED BY <1>2 DEF Coalesced, UsableEntries, Region

\* So does putting a block on its list whose buddy is not there, or was never part
\* of the same entry of the map.
LEMMA CoalescedAdds ==
  ASSUME TypeOK, Aligned, Coalesced, UNCHANGED mmap,
         NEW c \in Nat, NEW l \in Orders, c % SizeForOrder[l] = 0,
         \A k \in Orders : \A a \in free_list'[k] : a \in free_list[k] \/ (k = l /\ a = c),
         \/ l = MaxOrder
         \/ GetBuddy(c, l) \notin free_list[l]
         \/ ~ \E e \in UsableEntries : {c, GetBuddy(c, l)} \subseteq Region(e)
  PROVE  Coalesced'
<1> USE MaxOrderAssumption, SizeAssumption
<1> SUFFICES ASSUME NEW k \in Orders \ {MaxOrder}, NEW a \in free_list'[k],
                    GetBuddy(a, k) \in free_list'[k]
             PROVE  ~ \E e \in UsableEntries : {a, GetBuddy(a, k)} \subseteq Region(e)
  BY DEF Coalesced, UsableEntries, Region
<1>1. k \in Orders /\ k + 1 \in Orders
  BY DEF Orders
<1>2. a \in free_list[k] \/ (k = l /\ a = c)
  BY <1>1
<1>3. GetBuddy(a, k) \in free_list[k] \/ (k = l /\ GetBuddy(a, k) = c)
  BY <1>1
<1>4. CASE a \in free_list[k] /\ GetBuddy(a, k) \in free_list[k]
  BY <1>4 DEF Coalesced
<1>5. ASSUME k = l, NEW b \in Nat, b % SizeForOrder[k] = 0
      PROVE  GetBuddy(b, k) \in Nat /\ GetBuddy(GetBuddy(b, k), k) = b /\ GetBuddy(b, k) # b
  <2>1. SizeForOrder[k] \in Nat \ {0}
    BY <1>1
  <2> QED BY <1>1, <1>5, <2>1, BuddyFacts
<1>6. CASE k = l /\ a = c
  <2>1. GetBuddy(c, l) \in free_list[l]
    BY <1>3, <1>5, <1>6
  <2> QED BY <1>6, <2>1
<1>7. CASE a \in free_list[k] /\ k = l /\ GetBuddy(a, k) = c
  <2>1. a \in Nat /\ a % SizeForOrder[k] = 0
    BY <1>1, <1>7 DEF TypeOK, Aligned
  <2>2. GetBuddy(c, l) = a
    BY <1>5, <1>7, <2>1
  <2> QED BY <1>7, <2>2
<1> QED BY <1>2, <1>3, <1>4, <1>6, <1>7

\* An address belongs to one entry of the map only.
LEMMA OneRegion ==
  ASSUME TypeOK, NEW d \in UsableEntries, NEW e \in UsableEntries,
         NEW p \in Region(d), p \in Region(e)
  PROVE  d = e
<1> SUFFICES ASSUME d # e PROVE FALSE
  OBVIOUS
<1>1. /\ d \in DOMAIN mmap /\ e \in DOMAIN mmap
      /\ mmap[d].type = Usable /\ mmap[e].type = Usable
  BY DEF UsableEntries
<1>2. /\ mmap[d].base \in Nat /\ mmap[d].length \in Nat
      /\ mmap[e].base \in Nat /\ mmap[e].length \in Nat
  BY <1>1, MapType
<1>3. \/ mmap[d].base + mmap[d].length <= mmap[e].base
      \/ mmap[e].base + mmap[e].length <= mmap[d].base
  BY <1>1, MapAssumption DEF TypeOK, ValidMap
<1> QED BY <1>2, <1>3 DEF Region, Pages

\* Every step keeps free memory coalesced.
LEMMA CoalescedStep ==
  ASSUME CallInv, CallInv', OverlapInv, Aligned, CoalescedInv, [Next]_vars
  PROVE  CoalescedInv'
<1> USE MaxOrderAssumption, SizeAssumption, RequestAssumption
<1> USE DEF counters, initvars, callvars, InHand, CoalescedInv
<1>a. TypeOK /\ CallOK /\ TypeOK' /\ CallOK'
  BY DEF CallInv
<1>1. CASE CountEntry \/ SkipEntry \/ EndEntry \/ InitDone
  <2>1. Coalesced'
    BY <1>1, CoalescedKept DEF CountEntry, SkipEntry, EndEntry, InitDone
  <2> QED BY <1>1, <2>1 DEF CountEntry, SkipEntry, EndEntry, InitDone, CarvedLargest
<1>2. CASE CountDone
  BY <1>2, CoalescedKept DEF CountDone, CarvedLargest
<1>3. CASE StartEntry
  <2>1. Coalesced'
    BY <1>3, CoalescedKept DEF StartEntry
  <2>2. i \in UsableEntries /\ Unreached(i)
    BY <1>3, <1>a DEF StartEntry, Unreached, TypeOK, CallOK, UsableEntries
  <2>3. mmap[i].base \in Nat /\ mmap[i].length \in Nat
    BY <1>a, <2>2, MapType DEF UsableEntries
  <2>4. ASSUME NEW k \in Orders, NEW a \in free_list[k] PROVE a \notin Region(i)
    <3>1. Apart(a, SizeForOrder[k], mmap[i].base, mmap[i].length)
      BY <1>3, <2>2 DEF StartEntry, OverlapInv, CarveApart, Booting
    <3>2. a \in Nat /\ SizeForOrder[k] \in Nat \ {0}
      BY <1>a DEF TypeOK
    <3> QED BY <2>3, <3>1, <3>2 DEF Apart, Region, Pages
  <2>5. CarvedLargest'
    BY <1>3, <2>3, <2>4 DEF StartEntry, CarvedLargest, Region
  <2> QED BY <2>1, <2>5
<1>4. CASE CarveBlock
  <2> DEFINE n == SizeForOrder[CarveOrder]
             end == mmap[i].base + mmap[i].length
  <2>1. /\ CarveOrder \in Orders /\ n \in Nat \ {0} /\ n <= remaining
        /\ current % n = 0 /\ \A l \in Orders : Fits(l) => l <= CarveOrder
    BY <1>4, <1>a, CarveOrderType DEF TypeOK, CarveBlock, Fits
  <2>2. \A k \in Orders : \A a \in free_list'[k] :
          a \in free_list[k] \/ (k = CarveOrder /\ a = current)
    BY <1>4, <1>a, <2>1 DEF CarveBlock, TypeOK
  <2>3. /\ i \in UsableEntries /\ mmap[i].base \in Nat /\ mmap[i].length \in Nat
        /\ mmap[i].base <= current /\ current + remaining = end
        /\ current \in Nat /\ remaining \in Nat /\ remaining >= 1
    BY <1>4, <1>a, MapType DEF CarveBlock, CallOK, CarvedLargest, UsableEntries, TypeOK
  <2>4. current \in Region(i)
    BY <2>3 DEF Region, Pages
  <2>5. ASSUME CarveOrder # MaxOrder,
               GetBuddy(current, CarveOrder) \in free_list[CarveOrder],
               NEW e \in UsableEntries, {current, GetBuddy(current, CarveOrder)} \subseteq Region(e)
        PROVE  FALSE
    <3> DEFINE b == GetBuddy(current, CarveOrder)
    <3>1. b \in Region(i)
      BY <1>a, <2>3, <2>4, <2>5, OneRegion
    <3>2. CarveOrder + 1 \in Orders
      BY <2>1, <2>5 DEF Orders
    <3>3. /\ b \in Nat
          /\ b = current + n \/ (current = b + n /\ b % SizeForOrder[CarveOrder + 1] = 0)
      BY <2>1, <2>3, <3>2, BuddyFacts
    <3>4. Apart(b, n, current, remaining)
      BY <1>4, <2>1, <2>5 DEF CarveBlock, OverlapInv, CarveApart, Booting
    <3>5. b < end
      BY <2>3, <3>1 DEF Region, Pages
    <3>6. current = b + n /\ b % SizeForOrder[CarveOrder + 1] = 0
      BY <2>1, <2>3, <3>3, <3>4, <3>5 DEF Apart
    <3>7. b + SizeForOrder[CarveOrder + 1] > end
      BY <1>4, <2>1, <2>5, <3>1, <3>6 DEF CarvedLargest, CarveBlock
    <3>8. SizeForOrder[CarveOrder + 1] = 2 * n
      BY <2>1, <3>2
    <3> QED BY <2>1, <2>3, <3>3, <3>6, <3>7, <3>8
  <2>6. Coalesced'
    BY <1>4, <1>a, <2>1, <2>2, <2>3, <2>5, CoalescedAdds DEF CarveBlock
  <2>7. ASSUME CarveOrder # MaxOrder, current % SizeForOrder[CarveOrder + 1] = 0
        PROVE  current + SizeForOrder[CarveOrder + 1] > end
    <3>1. CarveOrder + 1 \in Orders /\ SizeForOrder[CarveOrder + 1] \in Nat
      BY <2>1, <2>7 DEF Orders
    <3>2. ~ Fits(CarveOrder + 1)
      BY <2>1, <3>1 DEF Orders
    <3> QED BY <2>3, <2>7, <3>1, <3>2 DEF Fits
  <2>8. /\ mmap' = mmap /\ i' = i /\ pc = "carve"
        /\ current' = current + n /\ remaining' = remaining - n
    BY <1>4 DEF CarveBlock
  <2>9. CarvedLargest'
    <3>1. mmap[i].base <= current' /\ current' + remaining' = end
      BY <2>1, <2>3, <2>8
    <3>2. ASSUME NEW k \in Orders \ {MaxOrder}, NEW a \in free_list'[k],
                 a \in Region(i), a % SizeForOrder[k + 1] = 0
          PROVE  a + SizeForOrder[k + 1] > end
      <4>1. k \in Orders
        OBVIOUS
      <4>2. a \in free_list[k] \/ (k = CarveOrder /\ a = current)
        BY <2>2, <4>1
      <4>3. CASE a \in free_list[k]
        BY <2>8, <3>2, <4>3 DEF CarvedLargest
      <4>4. CASE k = CarveOrder /\ a = current
        BY <2>7, <3>2, <4>4
      <4> QED BY <4>2, <4>3, <4>4
    <3> QED BY <2>8, <3>1, <3>2 DEF CarvedLargest, Region
  <2> QED BY <2>6, <2>9
<1>5. CASE SearchNext \/ AllocFail \/ AllocReturn
  <2>1. Coalesced'
    BY <1>5, CoalescedKept DEF SearchNext, AllocFail, AllocReturn, Return
  <2> QED BY <1>5, <2>1 DEF SearchNext, AllocFail, AllocReturn, Return, CarvedLargest
<1>6. CASE TakeBlock
  <2>1. order \in Orders
    BY <1>6, <1>a DEF TakeBlock, TypeOK, Orders
  <2>2. \A k \in Orders : free_list'[k] \subseteq free_list[k]
    BY <1>6, <1>a, <2>1 DEF TakeBlock, TypeOK
  <2> QED BY <1>6, <2>2, CoalescedKept DEF TakeBlock, CarvedLargest
<1>7. CASE SplitBlock
  <2> DEFINE l == order - 1
             c == block + SizeForOrder[l]
  <2>1. l \in Orders /\ order \in Orders /\ l + 1 = order
    BY <1>7, <1>a DEF SplitBlock, CallOK, TypeOK, Orders
  <2>2. \A k \in Orders : \A a \in free_list'[k] : a \in free_list[k] \/ (k = l /\ a = c)
    BY <1>7, <1>a, <2>1 DEF SplitBlock, TypeOK
  <2>3. block \in Nat /\ block % SizeForOrder[order] = 0
    BY <1>7, <1>a DEF SplitBlock, Aligned, TypeOK
  <2>4. c % SizeForOrder[l] = 0 /\ GetBuddy(c, l) = block
    BY <2>1, <2>3, Halves
  <2>5. SizeForOrder[l] \in Nat \ {0} /\ SizeForOrder[order] \in Nat \ {0} /\ c \in Nat
    BY <2>1, <2>3
  <2>6. block \notin free_list[l]
    <3> SUFFICES ASSUME block \in free_list[l] PROVE FALSE
      OBVIOUS
    <3>1. Apart(block, SizeForOrder[l], block, SizeForOrder[order])
      BY <1>7, <2>1 DEF SplitBlock, OverlapInv, NoOverlap, HandApart
    <3> QED BY <2>3, <2>5, <3>1 DEF Apart
  <2>7. Coalesced'
    <3> HIDE DEF l, c
    <3> QED BY <1>7, <1>a, <2>1, <2>2, <2>4, <2>5, <2>6, CoalescedAdds DEF SplitBlock
  <2> QED BY <1>7, <2>7 DEF SplitBlock, CarvedLargest
<1>8. CASE MergeBuddy
  <2>1. \A k \in Orders : free_list'[k] \subseteq free_list[k]
    BY <1>8, <1>a DEF MergeBuddy, TypeOK, CallOK
  <2> QED BY <1>8, <2>1, CoalescedKept DEF MergeBuddy, CarvedLargest
<1>9. CASE InsertBlock
  <2>1. order \in Orders /\ block \in Nat /\ block % SizeForOrder[order] = 0
    BY <1>9, <1>a DEF InsertBlock, Aligned, TypeOK, CallOK
  <2>2. \A k \in Orders : \A a \in free_list'[k] :
          a \in free_list[k] \/ (k = order /\ a = block)
    BY <1>9, <1>a, <2>1 DEF InsertBlock, TypeOK
  <2>3. Coalesced'
    BY <1>9, <1>a, <2>1, <2>2, CoalescedAdds DEF InsertBlock
  <2> QED BY <1>9, <2>3 DEF InsertBlock, Return, CarvedLargest
<1>10. ASSUME NEW n \in Requests, AllocEnter(n) PROVE CoalescedInv'
  BY <1>10, CoalescedKept DEF AllocEnter, CarvedLargest
<1>11. ASSUME NEW h \in held, FreeEnter(h) PROVE CoalescedInv'
  BY <1>11, CoalescedKept DEF FreeEnter, CarvedLargest
<1>12. CASE UNCHANGED vars
  BY <1>12, CoalescedKept DEF vars, CarvedLargest, Region
<1> QED
  BY <1>1, <1>2, <1>3, <1>4, <1>5, <1>6, <1>7, <1>8, <1>9, <1>10, <1>11, <1>12
     DEF Next, Advance, BuddyInit

\* At boot.
LEMMA CoalescedInit == Init => Aligned /\ CoalescedInv
  BY DEF Init, Aligned, CoalescedInv, Coalesced, CarvedLargest, InHand

\* Free memory is coalesced: no two free buddies of one entry of the map are left
\* side by side, by buddy_init, by a split or by a free.
THEOREM CoalescedHolds == Spec => []Coalesced
<1>1. CoalescedInv => Coalesced
  BY DEF CoalescedInv
<1>2. QED BY <1>1, CoalescedInit, AlignedStep, CoalescedStep, OverlapInit, OverlapStep,
             CallInvHolds, PTL DEF Spec
-----------------------------------------------------------------------------
\* A search goes through the lists one by one.
LEMMA SearchedStep ==
  ASSUME CallInv, CallInv', SearchedInv, [Next]_vars
  PROVE  SearchedInv'
<1> USE MaxOrderAssumption, RequestAssumption
<1> USE DEF counters, initvars, callvars
<1>1. CASE SearchNext
  <2>1. order \in Nat /\ \A k \in Orders : k \in Nat
    BY DEF CallInv, TypeOK, Orders
  <2>2. \A k \in Orders : k < order + 1 => k < order \/ k = order
    BY <2>1
  <2> QED BY <1>1, <2>2 DEF SearchNext, SearchedInv
<1>2. ASSUME NEW n \in Requests, AllocEnter(n) PROVE SearchedInv'
  <2>1. \A k \in Orders : ~ (GetOrder(n) <= k /\ k < GetOrder(n))
    BY GetOrderType DEF Orders
  <2> QED BY <1>2, <2>1 DEF AllocEnter, SearchedInv
<1>3. CASE pc' # "search" \/ UNCHANGED vars
  BY <1>3 DEF SearchedInv, vars
<1>4. ASSUME NEW h \in held, FreeEnter(h) PROVE SearchedInv'
  BY <1>3, <1>4 DEF FreeEnter
<1>5. CASE BuddyInit \/ TakeBlock \/ AllocFail \/ SplitBlock \/ AllocReturn \/ MergeBuddy \/ InsertBlock
  BY <1>3, <1>5
     DEF BuddyInit, CountEntry, CountDone, SkipEntry, StartEntry, CarveBlock, EndEntry, InitDone,
         TakeBlock, AllocFail, SplitBlock, AllocReturn, MergeBuddy, InsertBlock, Return
<1> QED BY <1>1, <1>2, <1>3, <1>4, <1>5 DEF Next, Advance

\* Why merging pays: when all pages of an aligned run within one entry of the map
\* are on lists, one of the blocks they belong to is at least as long as the run.
\* For the smallest of them would lie in the run with its buddy, whose pages belong
\* to no smaller block, nor to a larger one, which would take in both.
LEMMA RunHasBlock ==
  ASSUME TypeOK, Aligned, FreeApart, Coalesced,
         NEW e \in UsableEntries, NEW k \in Orders, NEW a \in Nat, a % SizeForOrder[k] = 0,
         Pages(a, SizeForOrder[k]) \subseteq Region(e),
         \A p \in Pages(a, SizeForOrder[k]) : OnList(p)
  PROVE  \E l \in Orders : k <= l /\ free_list[l] # {}
<1> USE MaxOrderAssumption
<1> SUFFICES ASSUME \A l \in Orders : k <= l => free_list[l] = {} PROVE FALSE
  OBVIOUS
<1> DEFINE Meets(j, b) == ~ Apart(b, SizeForOrder[j], a, SizeForOrder[k])
           T == {j \in Orders : \E b \in free_list[j] : Meets(j, b)}
<1>1. \A j \in Orders : SizeForOrder[j] \in Nat \ {0} /\ j \in Nat
  BY SizeAssumption DEF Orders
<1>2. \A j \in Orders : \A b \in free_list[j] : b \in Nat /\ b % SizeForOrder[j] = 0
  BY DEF TypeOK, Aligned
<1>3. ASSUME NEW p \in Pages(a, SizeForOrder[k])
      PROVE  \E j \in T : \E b \in free_list[j] : Meets(j, b) /\ Within(p, b, SizeForOrder[j])
  <2>1. PICK j \in Orders : \E b \in free_list[j] : Within(p, b, SizeForOrder[j])
    BY DEF OnList
  <2>2. p \in Int /\ a <= p /\ p < a + SizeForOrder[k]
    BY <1>1 DEF Pages
  <2>3. PICK b \in free_list[j] : Within(p, b, SizeForOrder[j])
    BY <2>1
  <2>4. Meets(j, b)
    BY <1>1, <1>2, <2>2, <2>3 DEF Apart, Within
  <2> QED BY <2>3, <2>4
<1>4. a \in Pages(a, SizeForOrder[k])
  BY <1>1 DEF Pages
<1>5. T \in SUBSET Nat /\ T # {}
  BY <1>1, <1>3, <1>4
<1>6. PICK j \in T : \A l \in T : j <= l
  BY <1>5, LeastNatural
<1>7. PICK b \in free_list[j] : Meets(j, b)
  BY <1>6
<1>8. j \in Orders /\ j + 1 \in Orders /\ j < k /\ j + 1 <= k /\ j # MaxOrder
  BY <1>1, <1>6, <1>7 DEF Orders
<1> HIDE DEF T, Meets
<1> DEFINE n == SizeForOrder[j]
           c == GetBuddy(b, j)
           d == Lower(b, c)
<1>9. /\ b \in Nat /\ c \in Nat /\ d \in Nat /\ b % n = 0 /\ c % n = 0
      /\ d % SizeForOrder[j + 1] = 0
      /\ d <= b /\ b + n <= d + 2 * n /\ d <= c /\ c + n <= d + 2 * n /\ n \in Nat \ {0}
  <2>1. b \in Nat /\ b % n = 0 /\ n \in Nat \ {0}
    BY <1>1, <1>2, <1>8
  <2>2. /\ c \in Nat /\ c % n = 0 /\ d % SizeForOrder[j + 1] = 0
        /\ b = c + n \/ c = b + n
    BY <1>8, <2>1, BuddyFacts
  <2> QED BY <2>1, <2>2 DEF Lower
<1>10. SizeForOrder[j + 1] = 2 * n
  BY <1>8, SizeAssumption
<1> HIDE DEF n, c, d
<1>11. a <= d /\ d + 2 * n <= a + SizeForOrder[k]
  <2>1. b < a + SizeForOrder[k] /\ a < b + n
    BY <1>1, <1>7, <1>9 DEF Meets, Apart, n
  <2>2. ~ Apart(d, SizeForOrder[j + 1], a, SizeForOrder[k])
    BY <1>1, <1>9, <1>10, <2>1 DEF Apart
  <2> QED BY <1>8, <1>9, <1>10, <2>2, BlocksNest
<1>12. c \in Pages(a, SizeForOrder[k]) /\ b \in Pages(a, SizeForOrder[k])
  BY <1>1, <1>9, <1>11 DEF Pages
<1>13. PICK l \in T : \E f \in free_list[l] : Meets(l, f) /\ Within(c, f, SizeForOrder[l])
  BY <1>3, <1>12
<1>f. PICK f \in free_list[l] : Meets(l, f) /\ Within(c, f, SizeForOrder[l])
  BY <1>13
<1>14. l \in Orders /\ j <= l /\ f \in Nat /\ f % SizeForOrder[l] = 0 /\ l \in Nat
  BY <1>1, <1>2, <1>6, <1>f DEF T
<1>15. CASE l = j
  <2>1. ~ Apart(c, n, f, n)
    BY <1>9, <1>f, <1>14, <1>15 DEF Apart, Within, n
  <2>2. f <= c /\ c + n <= f + n
    BY <1>8, <1>9, <1>14, <1>15, <2>1, BlocksNest DEF n
  <2>3. f = c
    BY <1>9, <1>14, <2>2
  <2>4. GetBuddy(b, j) \in free_list[j] /\ {b, GetBuddy(b, j)} \subseteq Region(e)
    BY <1>12, <1>f, <1>15, <2>3 DEF c
  <2> QED BY <1>8, <2>4 DEF Coalesced
<1>16. CASE l # j
  <2>1. j + 1 <= l
    BY <1>8, <1>1, <1>14, <1>16
  <2>2. ~ Apart(d, SizeForOrder[j + 1], f, SizeForOrder[l])
    BY <1>1, <1>9, <1>10, <1>f, <1>14 DEF Apart, Within
  <2>3. f <= d /\ d + 2 * n <= f + SizeForOrder[l]
    BY <1>8, <1>9, <1>10, <1>14, <2>1, <2>2, BlocksNest
  <2>4. Apart(b, n, f, SizeForOrder[l])
    BY <1>8, <1>14, <1>16 DEF FreeApart, n
  <2> QED BY <1>1, <1>9, <1>14, <2>3, <2>4 DEF Apart
<1> QED BY <1>15, <1>16

-----------------------------------------------------------------------------
\* All that is known of the allocator between two steps.
BuddyInv == CallInv /\ OverlapInv /\ PagesInv /\ Aligned /\ CoalescedInv /\ SearchedInv

\* It holds throughout.
LEMMA BuddyInvHolds == Spec => []BuddyInv
<1>1. Init => SearchedInv
  BY DEF Init, SearchedInv
<1> QED BY <1>1, CallInvHolds, OverlapInit, OverlapStep, PagesInit, PagesStep, CoalescedInit,
           AlignedStep, CoalescedStep, SearchedStep, PTL DEF Spec, BuddyInv

\* How PageAllocator's sizes and places read here.
LEMMA BlockPagesIs ==
  ASSUME NEW n \in Requests
  PROVE  [r \in Requests |-> IF GetOrder(r) \in Orders THEN SizeForOrder[GetOrder(r)] ELSE 0][n]
           = IF GetOrder(n) \in Orders THEN SizeForOrder[GetOrder(n)] ELSE 0
  OBVIOUS

\* What callers hold is the same set of pages there and here.
LEMMA SameHeld ==
  ASSUME TypeOK
  PROVE  PA!HeldPages = HeldPages
<1>1. \A h \in held : /\ h.size \in Requests /\ GetOrder(h.size) \in Orders
  BY DEF TypeOK, Blocks
<1> QED BY <1>1 DEF PA!HeldPages, PA!Pages, HeldPages, Pages, BlockLength

\* A request is refused only when no aligned run of its length is unheld within one
\* entry of the map.
LEMMA RefusedRightly ==
  ASSUME BuddyInv, AllocFail
  PROVE  PA!Refuse(size)
<1> USE MaxOrderAssumption, SizeAssumption, RequestAssumption
<1>a. TypeOK /\ CallOK /\ pc = "search" /\ order = MaxOrder + 1
  BY DEF BuddyInv, CallInv, AllocFail, TypeOK
<1>1. size \in Requests /\ size \in Nat
  BY <1>a DEF CallOK
<1>2. held' = held /\ mmap' = mmap /\ pc' = "idle"
  BY DEF AllocFail, Return
<1>3. ASSUME GetOrder(size) \in Orders,
             NEW addr \in Nat,
             addr % SizeForOrder[GetOrder(size)] = 0,
             Pages(addr, SizeForOrder[GetOrder(size)]) \cap HeldPages = {},
             NEW e \in UsableEntries,
             Pages(addr, SizeForOrder[GetOrder(size)]) \subseteq Region(e)
      PROVE  FALSE
  <2>1. NoPageLost
    BY PagesAsSets DEF BuddyInv
  <2>2. FreePages \cup HeldPages = UsablePages
    BY <1>a, <2>1 DEF NoPageLost, Booting, HandPages, InHand
  <2>3. \A p \in FreePages : OnList(p)
    <3>1. \A k \in Orders : \A a \in free_list[k] : a \in Nat /\ SizeForOrder[k] \in Nat
      BY <1>a DEF TypeOK
    <3> QED BY <3>1 DEF FreePages, OnList, Pages, Within
  <2>4. \A p \in Pages(addr, SizeForOrder[GetOrder(size)]) : OnList(p)
    BY <1>3, <2>2, <2>3 DEF UsablePages
  <2>5. PICK l \in Orders : GetOrder(size) <= l /\ free_list[l] # {}
    BY <1>a, <1>3, <2>4, RunHasBlock DEF BuddyInv, OverlapInv, NoOverlap, CoalescedInv
  <2>6. l < order
    BY <1>a DEF Orders
  <2> QED BY <1>a, <2>5, <2>6 DEF BuddyInv, SearchedInv
<1> DEFINE n == [r \in Requests |-> IF GetOrder(r) \in Orders THEN SizeForOrder[GetOrder(r)] ELSE 0][size]
<1>4. n = IF GetOrder(size) \in Orders THEN SizeForOrder[GetOrder(size)] ELSE 0
  BY <1>1, BlockPagesIs
<1>5. GetOrder(size) \in Orders \/ n = 0
  BY <1>4
<1>6. ASSUME GetOrder(size) \in Orders,
             NEW addr \in UNION {Region(e) : e \in UsableEntries},
             PA!Findable(addr, n)
      PROVE  FALSE
  <2>1. n = SizeForOrder[GetOrder(size)]
    BY <1>4, <1>6
  <2> HIDE DEF n
  <2>2. /\ addr % n = 0 /\ Pages(addr, n) \cap HeldPages = {}
        /\ \E r \in {Region(e) : e \in UsableEntries} : Pages(addr, n) \subseteq r
    BY <1>6, <1>a, SameHeld DEF PA!Findable, PA!Available, PA!Pages, Pages
  <2>3. PICK e \in UsableEntries : Pages(addr, n) \subseteq Region(e)
    BY <2>2
  <2>4. addr \in Nat
    <3>1. \A f \in UsableEntries : mmap[f].base \in Nat /\ mmap[f].length \in Nat
      BY <1>a, MapType DEF UsableEntries
    <3> QED BY <3>1 DEF Region, Pages
  <2> QED BY <1>3, <1>6, <2>1, <2>2, <2>3, <2>4
<1> HIDE DEF n
<1>7. \/ n = 0
      \/ \A addr \in UNION {Region(e) : e \in UsableEntries} : ~ PA!Findable(addr, n)
  BY <1>5, <1>6
<1> QED BY <1>a, <1>2, <1>7 DEF PA!Refuse, n, UsableEntries, Region

\* A block that buddy_alloc returns is one of the requested length, aligned, that
\* nobody holds a page of.
LEMMA ReturnedRightly ==
  ASSUME BuddyInv, AllocReturn
  PROVE  PA!Alloc(size)
<1> USE MaxOrderAssumption, SizeAssumption, RequestAssumption
<1> DEFINE n == [r \in Requests |-> IF GetOrder(r) \in Orders THEN SizeForOrder[GetOrder(r)] ELSE 0][size]
<1>a. /\ TypeOK /\ CallOK /\ pc = "split" /\ InHand
      /\ order = GetOrder(size) /\ order \in Orders /\ size \in Requests
  BY DEF BuddyInv, CallInv, AllocReturn, CallOK, InHand
<1>1. n = SizeForOrder[order] /\ n \in Nat \ {0} /\ block \in Nat
  BY <1>a, BlockPagesIs DEF TypeOK
<1>2. /\ held' = held \cup {[addr |-> block, size |-> size]}
      /\ mmap' = mmap /\ pc' = "idle"
  BY DEF AllocReturn, Return
<1> HIDE DEF n
<1>3. Pages(block, n) \subseteq UNION {Region(e) : e \in UsableEntries}
  <2>1. NoPageLost
    BY PagesAsSets DEF BuddyInv
  <2> QED BY <1>a, <1>1, <2>1 DEF NoPageLost, Booting, HandPages, UsablePages
<1>4. Pages(block, n) \cap HeldPages = {}
  <2>1. \A h \in held : Apart(h.addr, BlockLength(h), block, n)
    BY <1>a, <1>1 DEF BuddyInv, OverlapInv, NoOverlap, HandApart
  <2>2. \A h \in held : h.addr \in Nat /\ BlockLength(h) \in Nat
    BY <1>a DEF TypeOK, Blocks, BlockLength
  <2> QED BY <1>1, <2>1, <2>2 DEF HeldPages, Pages, Apart
<1>5. block % n = 0
  BY <1>a, <1>1 DEF BuddyInv, Aligned
<1>6. PA!Available(block, n)
  BY <1>a, <1>3, <1>4, <1>5, SameHeld DEF PA!Available, PA!Pages, Pages
<1>7. block \in UNION {Region(e) : e \in UsableEntries}
  <2>1. block \in Pages(block, n)
    BY <1>1 DEF Pages
  <2> QED BY <1>3, <2>1
<1> QED BY <1>a, <1>1, <1>2, <1>6, <1>7 DEF PA!Alloc, n, UsableEntries, Region

\* Every step of the allocator is one that PageAllocator allows, or is hidden from
\* its callers.
LEMMA EveryStepAllowed ==
  ASSUME BuddyInv, [Next]_vars
  PROVE  [PA!Next]_(PA!vars)
<1>a. TypeOK /\ CallOK
  BY DEF BuddyInv, CallInv
<1> DEFINE regions == {Region(e) : e \in UsableEntries}
<1>b. ASSUME mmap' = mmap PROVE regions' = regions
  BY <1>b DEF Region, UsableEntries
<1>c. ASSUME mmap' = mmap, held' = held, pc \notin {"search", "split"}, pc' \notin {"search", "split"}
      PROVE  UNCHANGED PA!vars
  BY <1>b, <1>c DEF PA!vars
<1>d. ASSUME mmap' = mmap, held' = held, size' = size, pc \in {"search", "split"},
             pc' \in {"search", "split"}
      PROVE  UNCHANGED PA!vars
  BY <1>b, <1>d DEF PA!vars
<1>1. CASE BuddyInit \/ MergeBuddy \/ InsertBlock
  <2>1. mmap' = mmap /\ held' = held /\ pc \notin {"search", "split"} /\ pc' \notin {"search", "split"}
    BY <1>1 DEF BuddyInit, CountEntry, CountDone, SkipEntry, StartEntry, CarveBlock, EndEntry,
                InitDone, MergeBuddy, InsertBlock, Return
  <2> QED BY <1>c, <2>1
<1>2. CASE SearchNext \/ TakeBlock \/ SplitBlock
  <2>1. /\ mmap' = mmap /\ held' = held /\ size' = size
        /\ pc \in {"search", "split"} /\ pc' \in {"search", "split"}
    BY <1>2 DEF SearchNext, TakeBlock, SplitBlock
  <2> QED BY <1>d, <2>1
<1>3. CASE AllocFail
  <2>1. size \in Requests
    BY <1>3, <1>a DEF CallOK, AllocFail
  <2> QED BY <1>3, <2>1, RefusedRightly DEF PA!Next
<1>4. CASE AllocReturn
  <2>1. size \in Requests
    BY <1>4, <1>a DEF CallOK, AllocReturn
  <2> QED BY <1>4, <2>1, ReturnedRightly DEF PA!Next
<1>5. ASSUME NEW n \in Requests, AllocEnter(n) PROVE PA!Call(n)
  <2>1. /\ pc = "idle" /\ pc' = "search" /\ size' = n /\ mmap' = mmap /\ held' = held
    BY <1>5 DEF AllocEnter
  <2> QED BY <1>b, <2>1 DEF PA!Call
<1>6. ASSUME NEW h \in held, FreeEnter(h) PROVE PA!Free(h)
  <2>1. pc = "idle" /\ pc' = "merge" /\ mmap' = mmap /\ held' = held \ {h}
    BY <1>6 DEF FreeEnter
  <2> QED BY <1>b, <2>1 DEF PA!Free
<1>7. CASE UNCHANGED vars
  <2>1. mmap' = mmap /\ held' = held /\ size' = size /\ pc' = pc
    BY <1>7 DEF vars, callvars
  <2> QED BY <1>c, <1>d, <2>1
<1> QED
  BY <1>1, <1>2, <1>3, <1>4, <1>5, <1>6, <1>7 DEF Next, Advance, PA!Next

\* buddy_init, buddy_alloc and buddy_free implement the allocator without memory: for
\* every memory map, table of block sizes and set of requests, a call returns an aligned
\* block nobody holds, or is refused because no entry of the map has one left.
THEOREM Refinement == Spec => RefinesPageAllocator
<1>1. Init => PA!Init
  BY DEF Init, PA!Init
<1>2. BuddyInv /\ [Next]_vars => [PA!Next]_(PA!vars)
  BY EveryStepAllowed
<1> QED BY <1>1, <1>2, BuddyInvHolds, PTL DEF Spec, PA!Spec, RefinesPageAllocator
=============================================================================
