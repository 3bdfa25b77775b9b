---------------------------- MODULE VirtioProofs ----------------------------
(***************************************************************************)
(* Proofs about the virtqueues, for every number of descriptors, every     *)
(* range of ring indices and any amount of traffic: first the indices and  *)
(* the interrupt, then that every descriptor has one owner, and that every *)
(* packet and frame arrives once and whole.                                *)
(***************************************************************************)
EXTENDS VirtioNet, NumberLemmas, SequenceTheorems, TLAPS

\* Ring indices go round. What the modulus does to those that are in range:
LEMMA IncIs ==
  ASSUME NEW a \in Idx
  PROVE  Inc(a) = (IF a = IdxMod - 1 THEN 0 ELSE a + 1) /\ Inc(a) \in Idx
<1> USE SizeAssumption DEF Idx, Inc
<1>1. CASE a = IdxMod - 1
  <2>1. IdxMod % IdxMod = 0
    OBVIOUS
  <2> QED BY <1>1, <2>1
<1>2. CASE a # IdxMod - 1
  <2>1. (a + 1) % IdxMod = a + 1
    BY <1>2
  <2> QED BY <1>2, <2>1
<1> QED BY <1>1, <1>2

\* How far one index is behind another, with the modulus worked out.
LEMMA BehindIs ==
  ASSUME NEW a \in Idx, NEW b \in Idx
  PROVE  Behind(a, b) = IF a <= b THEN b - a ELSE (b - a) + IdxMod
<1> USE SizeAssumption DEF Idx, Behind
<1>1. CASE a <= b
  BY <1>1
<1>2. CASE b < a
  <2>1. (b - a) % IdxMod = (b - a) + IdxMod
    BY <1>2
  <2> QED BY <1>2, <2>1
<1> QED BY <1>1, <1>2

\* The distance between two indices: its range, and what a step of either does.
LEMMA BehindType ==
  ASSUME NEW a \in Idx, NEW b \in Idx
  PROVE  Behind(a, b) \in Idx /\ (Behind(a, b) = 0 <=> a = b)
  BY BehindIs, SizeAssumption DEF Idx

\* The one ahead moves on.
LEMMA BehindGrows ==
  ASSUME NEW a \in Idx, NEW b \in Idx, Behind(a, b) + 1 < IdxMod
  PROVE  Behind(a, Inc(b)) = Behind(a, b) + 1
<1>1. Inc(b) \in Idx /\ Inc(b) = IF b = IdxMod - 1 THEN 0 ELSE b + 1
  BY IncIs
<1>2. /\ Behind(a, b) = IF a <= b THEN b - a ELSE (b - a) + IdxMod
      /\ Behind(a, Inc(b)) = IF a <= Inc(b) THEN Inc(b) - a ELSE (Inc(b) - a) + IdxMod
  BY <1>1, BehindIs
<1> QED BY <1>1, <1>2, SizeAssumption DEF Idx

\* The one behind catches up by one.
LEMMA BehindShrinks ==
  ASSUME NEW a \in Idx, NEW b \in Idx, a # b
  PROVE  Behind(Inc(a), b) = Behind(a, b) - 1
<1>1. Inc(a) \in Idx /\ Inc(a) = IF a = IdxMod - 1 THEN 0 ELSE a + 1
  BY IncIs
<1>2. /\ Behind(a, b) = IF a <= b THEN b - a ELSE (b - a) + IdxMod
      /\ Behind(Inc(a), b) = IF Inc(a) <= b THEN b - Inc(a) ELSE (b - Inc(a)) + IdxMod
  BY <1>1, BehindIs
<1> QED BY <1>1, <1>2, SizeAssumption DEF Idx

\* Distances add up while they do not go once round.
LEMMA BehindAdds ==
  ASSUME NEW a \in Idx, NEW b \in Idx, NEW c \in Idx,
         Behind(a, b) + Behind(b, c) < IdxMod
  PROVE  Behind(a, c) = Behind(a, b) + Behind(b, c)
<1>1. /\ Behind(a, b) = IF a <= b THEN b - a ELSE (b - a) + IdxMod
      /\ Behind(b, c) = IF b <= c THEN c - b ELSE (c - b) + IdxMod
      /\ Behind(a, c) = IF a <= c THEN c - a ELSE (c - a) + IdxMod
  BY BehindIs
<1> QED BY <1>1, SizeAssumption DEF Idx

-----------------------------------------------------------------------------
\* What kind of thing the queues' state is. The indices alone matter here: the
\* rings' and descriptors' contents are left open.
MemShape ==
  /\ DOMAIN mem = Queues
  /\ \A q \in Queues :
       /\ DOMAIN mem[q] = {"addr", "next", "ring", "avail", "used", "used_idx"}
       /\ mem[q].avail \in Idx /\ mem[q].used_idx \in Idx

DrvShape ==
  /\ DOMAIN drv = Queues
  /\ \A q \in Queues : DOMAIN drv[q] = {"free_head", "used_idx"} /\ drv[q].used_idx \in Idx

DevShape ==
  /\ DOMAIN dev = Queues
  /\ \A q \in Queues : /\ DOMAIN dev[q] = {"seen", "taken", "notified", "unsignalled", "event_idx"}
                       /\ dev[q].seen \in Idx /\ dev[q].unsignalled \in Nat
                       /\ \E S : dev[q].taken \in Seq(S)

CallShape ==
  /\ DOMAIN call = {"q", "buf", "head", "tx", "rx"}
  /\ call.q \in Queues /\ call.tx \in Idx /\ call.rx \in Idx

ShapeOK == MemShape /\ DrvShape /\ DevShape /\ CallShape

\* What the sizes' assumption says, without its modulus.
LEMMA Sizes == Num \in Nat \ {0} /\ IdxMod \in Nat \ {0} /\ Num < IdxMod /\ 0 \in Idx
  BY SizeAssumption DEF Idx

\* The driver's code returns.
LEMMA NoCallShape ==
  ASSUME call' = NoCall
  PROVE  CallShape' /\ call'.tx = 0 /\ call'.rx = 0 /\ call'.q = "tx"
  BY Sizes DEF NoCall, CallShape, Queues

\* At boot.
LEMMA ShapeInit == Init => ShapeOK
<1> SUFFICES ASSUME Init PROVE ShapeOK
  OBVIOUS
<1>1. MemShape
  BY Sizes DEF Init, EmptyQueue, MemShape
<1>2. DrvShape
  BY Sizes DEF Init, DrvShape
<1>3. DevShape
  <2>1. PICK offered \in EventIdx :
        dev = [q \in Queues |-> [seen |-> 0, taken |-> <<>>, notified |-> FALSE,
                                 unsignalled |-> 0, event_idx |-> offered]]
    BY DEF Init
  <2>3. <<>> \in Seq({})
    OBVIOUS
  <2>4. \A q \in Queues : dev[q].seen = 0 /\ dev[q].unsignalled = 0 /\ dev[q].taken = <<>>
    BY <2>1
  <2> QED BY <2>1, <2>3, <2>4, Sizes DEF DevShape
<1>4. CallShape
  BY Sizes DEF Init, NoCall, CallShape, Queues
<1> QED BY <1>1, <1>2, <1>3, <1>4 DEF ShapeOK

\* The device takes a descriptor.
LEMMA TakeShape ==
  ASSUME DevShape, NEW q \in Queues, NEW x,
         dev' = [dev EXCEPT ![q].seen = Inc(@), ![q].taken = Append(@, x)]
  PROVE  /\ DevShape'
         /\ dev'[q].seen = Inc(dev[q].seen) /\ dev'[q].unsignalled = dev[q].unsignalled
         /\ Len(dev'[q].taken) = Len(dev[q].taken) + 1
         /\ \A r \in Queues : r # q => dev'[r] = dev[r]
         /\ \A r \in Queues : dev'[r].event_idx = dev[r].event_idx
<1>1. /\ dev'[q].seen = Inc(dev[q].seen) /\ dev'[q].unsignalled = dev[q].unsignalled
      /\ dev'[q].taken = Append(dev[q].taken, x)
      /\ DOMAIN dev' = Queues
      /\ \A r \in Queues : r # q => dev'[r] = dev[r]
      /\ \A r \in Queues : dev'[r].event_idx = dev[r].event_idx /\ DOMAIN dev'[r] = DOMAIN dev[r]
  BY DEF DevShape
<1>2. PICK S : dev[q].taken \in Seq(S)
  BY DEF DevShape
<1>3. dev[q].taken \in Seq(S \cup {x})
  BY <1>2
<1>4. Append(dev[q].taken, x) \in Seq(S \cup {x})
      /\ Len(Append(dev[q].taken, x)) = Len(dev[q].taken) + 1
  BY <1>3
<1>5. Inc(dev[q].seen) \in Idx
  BY IncIs DEF DevShape
<1>6. DevShape'
  BY <1>1, <1>4, <1>5 DEF DevShape
<1> QED BY <1>1, <1>4, <1>6

\* A descriptor that was taken goes to the used ring.
LEMMA CompleteShape ==
  ASSUME MemShape, DevShape, NEW q \in Queues, DevComplete(q)
  PROVE  /\ MemShape' /\ DevShape' /\ dev[q].taken # <<>>
         /\ mem'[q].used_idx = Inc(mem[q].used_idx) /\ mem'[q].avail = mem[q].avail
         /\ dev'[q].seen = dev[q].seen /\ dev'[q].unsignalled = dev[q].unsignalled + 1
         /\ Len(dev'[q].taken) = Len(dev[q].taken) - 1 /\ Len(dev[q].taken) \in Nat \ {0}
         /\ \A r \in Queues : r # q => dev'[r] = dev[r] /\ mem'[r] = mem[r]
         /\ \A r \in Queues : dev'[r].event_idx = dev[r].event_idx
<1>1. PICK n \in 1 .. Len(dev[q].taken) :
        /\ mem' = [mem EXCEPT ![q].used[mem[q].used_idx % Num] = dev[q].taken[n],
                              ![q].used_idx = Inc(@)]
        /\ dev' = [dev EXCEPT
             ![q].taken = SubSeq(@, 1, n - 1) \o SubSeq(@, n + 1, Len(@)),
             ![q].unsignalled = @ + 1]
  BY DEF DevComplete
<1> DEFINE rest == SubSeq(dev[q].taken, 1, n - 1) \o SubSeq(dev[q].taken, n + 1, Len(dev[q].taken))
<1>2. PICK S : dev[q].taken \in Seq(S)
  BY DEF DevShape
<1>3. rest \in Seq(S) /\ Len(rest) = Len(dev[q].taken) - 1 /\ Len(dev[q].taken) \in Nat \ {0}
  <2> DEFINE front == SubSeq(dev[q].taken, 1, n - 1)
             back == SubSeq(dev[q].taken, n + 1, Len(dev[q].taken))
  <2>1. Len(dev[q].taken) \in Nat \ {0} /\ n \in Nat \ {0}
    BY <1>2
  <2>2. front \in Seq(S) /\ Len(front) = n - 1
    BY <1>2, <2>1
  <2>3. back \in Seq(S) /\ Len(back) = Len(dev[q].taken) - n
    BY <1>2, <2>1
  <2> HIDE DEF front, back
  <2>4. front \o back \in Seq(S) /\ Len(front \o back) = Len(front) + Len(back)
    BY <2>2, <2>3
  <2>5. Len(front) + Len(back) = Len(dev[q].taken) - 1
    BY <2>1, <2>2, <2>3
  <2> QED BY <2>1, <2>4, <2>5 DEF front, back
<1> HIDE DEF rest
<1>4. /\ dev'[q].taken = rest /\ dev'[q].unsignalled = dev[q].unsignalled + 1
      /\ dev'[q].seen = dev[q].seen
      /\ DOMAIN dev' = Queues
      /\ \A r \in Queues : r # q => dev'[r] = dev[r]
      /\ \A r \in Queues : dev'[r].event_idx = dev[r].event_idx /\ DOMAIN dev'[r] = DOMAIN dev[r]
  BY <1>1 DEF DevShape, rest
<1>5. /\ mem'[q].used_idx = Inc(mem[q].used_idx) /\ mem'[q].avail = mem[q].avail
      /\ DOMAIN mem' = Queues
      /\ \A r \in Queues : r # q => mem'[r] = mem[r]
      /\ \A r \in Queues : DOMAIN mem'[r] = DOMAIN mem[r]
  BY <1>1 DEF MemShape
<1>6. Inc(mem[q].used_idx) \in Idx
  BY IncIs DEF MemShape
<1>7. MemShape'
  BY <1>5, <1>6 DEF MemShape
<1>8. DevShape'
  BY <1>3, <1>4 DEF DevShape
<1>9. dev[q].taken # <<>>
  BY <1>3
<1> QED BY <1>3, <1>4, <1>5, <1>7, <1>8, <1>9

-----------------------------------------------------------------------------
\* Round a queue's rings: the descriptors given back, held by the device, and
\* offered to it, and that there are no more of them than there are descriptors.
Out(q) ==
  Behind(drv[q].used_idx, mem[q].used_idx) + Behind(mem[q].used_idx, dev[q].seen)
    + Behind(dev[q].seen, mem[q].avail)

QueueOK(q) ==
  /\ Len(dev[q].taken) = Behind(mem[q].used_idx, dev[q].seen)
  /\ Out(q) <= Num

\* The indices of a queue and the distances between them are numbers.
LEMMA OutType ==
  ASSUME ShapeOK, NEW q \in Queues
  PROVE  /\ drv[q].used_idx \in Idx /\ mem[q].used_idx \in Idx
         /\ dev[q].seen \in Idx /\ mem[q].avail \in Idx
         /\ Behind(drv[q].used_idx, mem[q].used_idx) \in Nat
         /\ Behind(mem[q].used_idx, dev[q].seen) \in Nat
         /\ Behind(dev[q].seen, mem[q].avail) \in Nat
         /\ Out(q) \in Nat
<1>1. /\ drv[q].used_idx \in Idx /\ mem[q].used_idx \in Idx
      /\ dev[q].seen \in Idx /\ mem[q].avail \in Idx
  BY DEF ShapeOK, MemShape, DrvShape, DevShape
<1>2. Idx \subseteq Nat
  BY DEF Idx
<1>3. /\ Behind(drv[q].used_idx, mem[q].used_idx) \in Nat
      /\ Behind(mem[q].used_idx, dev[q].seen) \in Nat
      /\ Behind(dev[q].seen, mem[q].avail) \in Nat
  BY <1>1, <1>2, BehindType
<1> QED BY <1>1, <1>3 DEF Out

\* The driver offers a descriptor.
LEMMA OfferStep ==
  ASSUME ShapeOK, NEW q \in Queues, QueueOK(q), Out(q) < Num, UNCHANGED dev,
         mem'[q].avail = Inc(mem[q].avail), mem'[q].used_idx = mem[q].used_idx,
         drv'[q].used_idx = drv[q].used_idx
  PROVE  QueueOK(q)' /\ Out(q)' = Out(q) + 1
<1>1. Behind(dev[q].seen, mem[q].avail) + 1 < IdxMod
  BY OutType, Sizes DEF Out
<1>2. Behind(dev[q].seen, Inc(mem[q].avail)) = Behind(dev[q].seen, mem[q].avail) + 1
  BY <1>1, OutType, BehindGrows
<1> QED BY <1>2, OutType, Sizes DEF QueueOK, Out

\* The device takes one.
LEMMA TakeStep ==
  ASSUME ShapeOK, NEW q \in Queues, QueueOK(q), UNCHANGED <<mem, drv>>,
         dev[q].seen # mem[q].avail, dev'[q].seen = Inc(dev[q].seen),
         Len(dev'[q].taken) = Len(dev[q].taken) + 1
  PROVE  QueueOK(q)' /\ Out(q)' = Out(q)
<1>1. Behind(Inc(dev[q].seen), mem[q].avail) = Behind(dev[q].seen, mem[q].avail) - 1
  BY OutType, BehindShrinks
<1>2. Behind(dev[q].seen, mem[q].avail) # 0
  BY OutType, BehindType
<1>3. Behind(mem[q].used_idx, dev[q].seen) + 1 < IdxMod
  BY <1>2, OutType, Sizes DEF QueueOK, Out
<1>4. Behind(mem[q].used_idx, Inc(dev[q].seen)) = Behind(mem[q].used_idx, dev[q].seen) + 1
  BY <1>3, OutType, BehindGrows
<1>5. Len(dev'[q].taken) = Behind(mem[q].used_idx, Inc(dev[q].seen))
  BY <1>4 DEF QueueOK
<1>6. Out(q)' = Out(q)
  BY <1>1, <1>4, OutType DEF Out
<1> QED BY <1>5, <1>6 DEF QueueOK

\* The device gives one back.
LEMMA CompleteStep ==
  ASSUME ShapeOK, NEW q \in Queues, QueueOK(q), UNCHANGED drv,
         mem'[q].used_idx = Inc(mem[q].used_idx), mem'[q].avail = mem[q].avail,
         dev'[q].seen = dev[q].seen, Len(dev[q].taken) \in Nat \ {0},
         Len(dev'[q].taken) = Len(dev[q].taken) - 1
  PROVE  /\ QueueOK(q)' /\ Out(q)' = Out(q)
         /\ Behind(drv[q].used_idx, mem'[q].used_idx) = Behind(drv[q].used_idx, mem[q].used_idx) + 1
<1>1. Behind(mem[q].used_idx, dev[q].seen) \in Nat \ {0}
  BY DEF QueueOK
<1>2. mem[q].used_idx # dev[q].seen
  BY <1>1, OutType, BehindType
<1>3. Behind(Inc(mem[q].used_idx), dev[q].seen) = Behind(mem[q].used_idx, dev[q].seen) - 1
  BY <1>2, OutType, BehindShrinks
<1>4. Behind(drv[q].used_idx, mem[q].used_idx) + 1 < IdxMod
  BY <1>1, OutType, Sizes DEF QueueOK, Out
<1>5. Behind(drv[q].used_idx, Inc(mem[q].used_idx)) = Behind(drv[q].used_idx, mem[q].used_idx) + 1
  BY <1>4, OutType, BehindGrows
<1>6. Len(dev'[q].taken) = Behind(Inc(mem[q].used_idx), dev[q].seen)
  BY <1>3 DEF QueueOK
<1>7. Out(q)' = Out(q)
  BY <1>3, <1>5, OutType DEF Out
<1> QED BY <1>5, <1>6, <1>7 DEF QueueOK

\* The driver looks at one that was given back.
LEMMA ReapStep ==
  ASSUME ShapeOK, NEW q \in Queues, QueueOK(q), UNCHANGED dev,
         mem'[q].used_idx = mem[q].used_idx, mem'[q].avail = mem[q].avail,
         drv[q].used_idx # mem[q].used_idx, drv'[q].used_idx = Inc(drv[q].used_idx)
  PROVE  QueueOK(q)' /\ Out(q)' = Out(q) - 1
<1>1. Behind(Inc(drv[q].used_idx), mem[q].used_idx) = Behind(drv[q].used_idx, mem[q].used_idx) - 1
  BY OutType, BehindShrinks
<1>2. Out(q)' = Out(q) - 1
  BY <1>1, OutType DEF Out
<1> QED BY <1>2, OutType, Sizes DEF QueueOK

\* It does so and offers it again.
LEMMA RenewStep ==
  ASSUME ShapeOK, NEW q \in Queues, QueueOK(q), UNCHANGED dev,
         mem'[q].used_idx = mem[q].used_idx, mem'[q].avail = Inc(mem[q].avail),
         drv[q].used_idx # mem[q].used_idx, drv'[q].used_idx = Inc(drv[q].used_idx)
  PROVE  QueueOK(q)' /\ Out(q)' = Out(q)
<1>1. Behind(Inc(drv[q].used_idx), mem[q].used_idx) = Behind(drv[q].used_idx, mem[q].used_idx) - 1
  BY OutType, BehindShrinks
<1>2. Behind(drv[q].used_idx, mem[q].used_idx) # 0
  BY OutType, BehindType
<1>3. Behind(dev[q].seen, mem[q].avail) + 1 < IdxMod
  BY <1>2, OutType, Sizes DEF QueueOK, Out
<1>4. Behind(dev[q].seen, Inc(mem[q].avail)) = Behind(dev[q].seen, mem[q].avail) + 1
  BY <1>3, OutType, BehindGrows
<1>5. Out(q)' = Out(q)
  BY <1>1, <1>4, OutType DEF Out
<1> QED BY <1>5 DEF QueueOK

\* What the user's pace is about: all that is out lies between the entry the driver
\* looks at next and the one it offers next.
LEMMA OutIsBehind ==
  ASSUME ShapeOK, NEW q \in Queues, QueueOK(q)
  PROVE  Behind(drv[q].used_idx, mem[q].avail) = Out(q)
<1>1. Behind(drv[q].used_idx, dev[q].seen)
        = Behind(drv[q].used_idx, mem[q].used_idx) + Behind(mem[q].used_idx, dev[q].seen)
  BY OutType, BehindAdds, Sizes DEF QueueOK, Out
<1> QED BY <1>1, OutType, BehindAdds, Sizes DEF QueueOK, Out

-----------------------------------------------------------------------------
Adding(q) == pc \in {"add_desc", "add_ring", "add_idx"} /\ call.q = q

\* In the handler's loop over the RX queue, and anywhere behind its snapshots
InRxLoop == pc = "reap_rx" \/ Adding("rx")
Snapped == pc \in {"snap_rx", "reap_tx"} \/ InRxLoop

\* A packet finds room; while the RX queue is filled nothing has happened to it, and
\* until virtio_net_init is over the handler does not run.
RoomOK ==
  /\ Adding("tx") => Out("tx") < Num
  /\ boot = "fill" => /\ ~ live /\ dev["rx"].seen = 0
                      /\ mem["rx"].used_idx = 0 /\ drv["rx"].used_idx = 0
  /\ boot # "done" => pc \in {"idle", "kick"} \/ Adding("tx")

\* A snapshot of the used index lies between what the driver has looked at and what
\* the device has given back.
SnapOK ==
  /\ pc \in {"snap_rx", "reap_tx"} =>
       Behind(drv["tx"].used_idx, call.tx) <= Behind(drv["tx"].used_idx, mem["tx"].used_idx)
  /\ pc = "reap_tx" \/ InRxLoop =>
       Behind(drv["rx"].used_idx, call.rx) <= Behind(drv["rx"].used_idx, mem["rx"].used_idx)
  /\ Adding("rx") => drv["rx"].used_idx # call.rx
  /\ InRxLoop => drv["tx"].used_idx = call.tx

\* What was given back and not looked at has been or will be announced, or is in
\* the snapshot.
Announced(q) ==
  \/ isr \/ dev[q].unsignalled > 0
  \/ pc = "snap_tx" \/ (pc = "snap_rx" /\ q = "rx")
  \/ Snapped /\ call[q] = mem[q].used_idx

AnnouncedOK ==
  Announces => \A q \in Queues : drv[q].used_idx # mem[q].used_idx => Announced(q)

RingInv ==
  ShapeOK /\ (\A q \in Queues : QueueOK(q)) /\ RoomOK /\ SnapOK /\ AnnouncedOK

\* At boot nothing is out.
LEMMA RingInit == Init => RingInv
<1> SUFFICES ASSUME Init PROVE RingInv
  OBVIOUS
<1>1. ShapeOK
  BY ShapeInit
<1>2. \A q \in Queues : /\ mem[q].avail = 0 /\ mem[q].used_idx = 0 /\ drv[q].used_idx = 0
                        /\ dev[q].seen = 0 /\ dev[q].taken = <<>>
  BY DEF Init, EmptyQueue
<1>3. Behind(0, 0) = 0
  BY BehindType, Sizes
<1>4. \A q \in Queues : QueueOK(q)
  BY <1>2, <1>3, Sizes DEF QueueOK, Out
<1>5. RoomOK /\ SnapOK
  BY <1>2 DEF Init, RoomOK, SnapOK, Adding, InRxLoop, Queues
<1>6. AnnouncedOK
  BY <1>2 DEF AnnouncedOK
<1> QED BY <1>1, <1>4, <1>5, <1>6 DEF RingInv

\* Steps that touch no index
LEMMA QueuesStay ==
  ASSUME \A q \in Queues : QueueOK(q),
         \A q \in Queues : /\ mem'[q].avail = mem[q].avail /\ mem'[q].used_idx = mem[q].used_idx
                           /\ drv'[q].used_idx = drv[q].used_idx
                           /\ dev'[q].seen = dev[q].seen /\ dev'[q].taken = dev[q].taken
  PROVE  \A q \in Queues : QueueOK(q)' /\ Out(q)' = Out(q)
  BY DEF QueueOK, Out

\* virtio_net_init: filling the RX queue and what follows.
LEMMA FillStep ==
  ASSUME RingInv, FillRx \/ FillDone \/ EnableDevice \/ UnmaskIrq
  PROVE  RingInv'
<1> USE DEF RingInv
<1>1. CASE FillRx
  <2>1. /\ pc = "idle" /\ boot = "fill" /\ UNCHANGED <<boot, pc, dev, live, isr, call>>
        /\ mem["rx"].avail < Num
        /\ DOMAIN mem' = Queues /\ DOMAIN drv' = Queues
        /\ \A q \in Queues : DOMAIN mem'[q] = DOMAIN mem[q] /\ DOMAIN drv'[q] = DOMAIN drv[q]
        /\ \A q \in Queues : /\ mem'[q].used_idx = mem[q].used_idx
                             /\ drv'[q].used_idx = drv[q].used_idx
        /\ mem'["rx"].avail = Inc(mem["rx"].avail) /\ mem'["tx"].avail = mem["tx"].avail
    BY <1>1 DEF FillRx, BootRuns, ShapeOK, MemShape, DrvShape, Queues
  <2>2. ShapeOK'
    BY <2>1, IncIs DEF ShapeOK, MemShape, DrvShape, DevShape, CallShape, Queues
  <2>3. Out("rx") < Num
    <3>1. /\ dev["rx"].seen = 0 /\ mem["rx"].used_idx = 0 /\ drv["rx"].used_idx = 0
          /\ mem["rx"].avail \in Idx
      BY <2>1, OutType DEF RoomOK, Queues
    <3>2. Behind(0, 0) = 0
      BY BehindType, Sizes
    <3>3. mem["rx"].avail \in Nat
      BY <3>1 DEF Idx
    <3>4. Behind(0, mem["rx"].avail) = mem["rx"].avail
      BY <3>1, <3>3, BehindIs, Sizes
    <3>5. Out("rx") = mem["rx"].avail
      BY <3>1, <3>2, <3>3, <3>4 DEF Out
    <3> QED BY <2>1, <3>5
  <2>4. QueueOK("rx")'
    BY <2>1, <2>3, OfferStep DEF Queues
  <2>5. QueueOK("tx")'
    BY <2>1 DEF QueueOK, Out, Queues
  <2>6. RoomOK' /\ SnapOK'
    BY <2>1 DEF RoomOK, SnapOK, Adding, InRxLoop, Queues
  <2>7. AnnouncedOK'
    BY <2>1 DEF AnnouncedOK, Announced, Announces, Snapped, InRxLoop, Adding
  <2> QED BY <2>2, <2>4, <2>5, <2>6, <2>7 DEF Queues
<1>2. CASE FillDone \/ EnableDevice \/ UnmaskIrq
  <2>1. /\ pc = "idle" /\ boot' \in {"enable", "unmask", "done"}
        /\ UNCHANGED <<pc, mem, drv, dev, isr, call>>
    BY <1>2 DEF FillDone, EnableDevice, UnmaskIrq, BootRuns
  <2>2. ShapeOK' /\ \A q \in Queues : QueueOK(q)'
    BY <2>1 DEF ShapeOK, MemShape, DrvShape, DevShape, CallShape, QueueOK, Out
  <2>3. RoomOK' /\ SnapOK'
    BY <2>1 DEF RoomOK, SnapOK, Adding, InRxLoop
  <2>4. AnnouncedOK'
    BY <2>1 DEF AnnouncedOK, Announced, Announces, Snapped, InRxLoop, Adding
  <2> QED BY <2>2, <2>3, <2>4
<1> QED BY <1>1, <1>2

\* virtio_net_send_packet and virtq_add_buf.
LEMMA AddStep ==
  ASSUME RingInv, Paced, Send \/ AddDesc \/ AddRing \/ AddIdxTx \/ AddIdxRx \/ Kick
  PROVE  RingInv'
<1> USE DEF RingInv
<1>1. CASE Send
  <2>1. /\ pc = "idle" /\ pc' = "add_desc" /\ UNCHANGED <<boot, mem, drv, dev, live, isr>>
        /\ call' = [NoCall EXCEPT !.buf = sent + 1]
        /\ Behind(drv["tx"].used_idx, mem["tx"].avail) < Num
    BY <1>1 DEF Send
  <2>2. call'.q = "tx" /\ CallShape'
    BY <2>1, Sizes DEF NoCall, CallShape, Queues
  <2>3. ShapeOK' /\ \A q \in Queues : QueueOK(q)'
    BY <2>1, <2>2 DEF ShapeOK, MemShape, DrvShape, DevShape, QueueOK, Out
  <2>4. Out("tx") < Num
    BY <2>1, OutIsBehind DEF Queues
  <2>5. RoomOK' /\ SnapOK'
    BY <2>1, <2>2, <2>4 DEF RoomOK, SnapOK, Adding, InRxLoop, Out
  <2>6. AnnouncedOK'
    BY <2>1 DEF AnnouncedOK, Announced, Announces, Snapped, InRxLoop, Adding
  <2> QED BY <2>3, <2>5, <2>6
<1>2. CASE AddDesc
  <2>1. /\ pc = "add_desc" /\ pc' = "add_ring" /\ UNCHANGED <<boot, dev, live, isr>>
        /\ DOMAIN mem' = Queues /\ DOMAIN drv' = Queues /\ DOMAIN call' = DOMAIN call
        /\ call'.q = call.q /\ call'.tx = call.tx /\ call'.rx = call.rx
        /\ \A q \in Queues : DOMAIN mem'[q] = DOMAIN mem[q] /\ DOMAIN drv'[q] = DOMAIN drv[q]
        /\ \A q \in Queues : /\ mem'[q].used_idx = mem[q].used_idx /\ mem'[q].avail = mem[q].avail
                             /\ drv'[q].used_idx = drv[q].used_idx
    BY <1>2 DEF AddDesc, ShapeOK, MemShape, DrvShape, CallShape
  <2>2. ShapeOK'
    BY <2>1 DEF ShapeOK, MemShape, DrvShape, DevShape, CallShape
  <2>3. \A q \in Queues : QueueOK(q)' /\ Out(q)' = Out(q)
    BY <2>1, QueuesStay
  <2>4. RoomOK' /\ SnapOK'
    BY <2>1, <2>3 DEF RoomOK, SnapOK, Adding, InRxLoop, Queues
  <2>5. AnnouncedOK'
    BY <2>1 DEF AnnouncedOK, Announced, Announces, Snapped, InRxLoop, Adding, Queues
  <2> QED BY <2>2, <2>3, <2>4, <2>5
<1>3. CASE AddRing
  <2>1. /\ pc = "add_ring" /\ pc' = "add_idx" /\ UNCHANGED <<boot, drv, dev, live, isr, call>>
        /\ DOMAIN mem' = Queues
        /\ \A q \in Queues : DOMAIN mem'[q] = DOMAIN mem[q]
        /\ \A q \in Queues : mem'[q].used_idx = mem[q].used_idx /\ mem'[q].avail = mem[q].avail
    BY <1>3 DEF AddRing, ShapeOK, MemShape, CallShape
  <2>2. ShapeOK'
    BY <2>1 DEF ShapeOK, MemShape, DrvShape, DevShape, CallShape
  <2>3. \A q \in Queues : QueueOK(q)' /\ Out(q)' = Out(q)
    BY <2>1, QueuesStay
  <2>4. RoomOK' /\ SnapOK'
    BY <2>1, <2>3 DEF RoomOK, SnapOK, Adding, InRxLoop, Queues
  <2>5. AnnouncedOK'
    BY <2>1 DEF AnnouncedOK, Announced, Announces, Snapped, InRxLoop, Adding, Queues
  <2> QED BY <2>2, <2>3, <2>4, <2>5
<1>4. CASE AddIdxTx
  <2>1. /\ pc = "add_idx" /\ call.q = "tx" /\ pc' = "kick"
        /\ UNCHANGED <<boot, drv, dev, live, isr, call>>
        /\ DOMAIN mem' = Queues
        /\ \A q \in Queues : DOMAIN mem'[q] = DOMAIN mem[q] /\ mem'[q].used_idx = mem[q].used_idx
        /\ mem'["tx"].avail = Inc(mem["tx"].avail) /\ mem'["rx"] = mem["rx"]
    BY <1>4 DEF AddIdxTx, ShapeOK, MemShape, Queues
  <2>2. ShapeOK'
    BY <2>1, IncIs DEF ShapeOK, MemShape, DrvShape, DevShape, CallShape, Queues
  <2>3. QueueOK("tx")'
    BY <2>1, OfferStep DEF RoomOK, Adding, Queues
  <2>4. QueueOK("rx")'
    BY <2>1 DEF QueueOK, Out, Queues
  <2>5. RoomOK' /\ SnapOK'
    BY <2>1 DEF RoomOK, SnapOK, Adding, InRxLoop
  <2>6. AnnouncedOK'
    BY <2>1 DEF AnnouncedOK, Announced, Announces, Snapped, InRxLoop, Adding
  <2> QED BY <2>2, <2>3, <2>4, <2>5, <2>6 DEF Queues
<1>5. CASE AddIdxRx
  <2>1. /\ pc = "add_idx" /\ call.q = "rx" /\ pc' = "reap_rx"
        /\ UNCHANGED <<boot, dev, live, isr, call>>
        /\ DOMAIN mem' = Queues /\ DOMAIN drv' = Queues
        /\ \A q \in Queues : DOMAIN mem'[q] = DOMAIN mem[q] /\ DOMAIN drv'[q] = DOMAIN drv[q]
        /\ \A q \in Queues : mem'[q].used_idx = mem[q].used_idx
        /\ mem'["rx"].avail = Inc(mem["rx"].avail) /\ mem'["tx"] = mem["tx"]
        /\ drv'["rx"].used_idx = Inc(drv["rx"].used_idx) /\ drv'["tx"] = drv["tx"]
    BY <1>5 DEF AddIdxRx, ShapeOK, MemShape, DrvShape, Queues
  <2>2. ShapeOK'
    BY <2>1, IncIs DEF ShapeOK, MemShape, DrvShape, DevShape, CallShape, Queues
  <2>3. /\ drv["rx"].used_idx # call.rx /\ drv["tx"].used_idx = call.tx
        /\ Behind(drv["rx"].used_idx, call.rx) <= Behind(drv["rx"].used_idx, mem["rx"].used_idx)
    BY <2>1 DEF SnapOK, Adding, InRxLoop
  <2>4. /\ drv["rx"].used_idx \in Idx /\ call.rx \in Idx /\ mem["rx"].used_idx \in Idx
        /\ Idx \subseteq Nat
    BY DEF ShapeOK, MemShape, DrvShape, CallShape, Queues, Idx
  <2> DEFINE taken == Behind(drv["rx"].used_idx, call.rx)
             given == Behind(drv["rx"].used_idx, mem["rx"].used_idx)
  <2>a. /\ taken \in Nat /\ taken # 0 /\ given \in Nat /\ taken <= given
        /\ given = 0 <=> drv["rx"].used_idx = mem["rx"].used_idx
    BY <2>3, <2>4, BehindType
  <2>5. drv["rx"].used_idx # mem["rx"].used_idx
    <3> HIDE DEF taken, given
    <3> QED BY <2>a
  <2>6. QueueOK("rx")'
    BY <2>1, <2>5, RenewStep DEF Queues
  <2>7. QueueOK("tx")'
    BY <2>1 DEF QueueOK, Out, Queues
  <2>8. Behind(drv'["rx"].used_idx, call.rx) <= Behind(drv'["rx"].used_idx, mem["rx"].used_idx)
    <3>1. Behind(Inc(drv["rx"].used_idx), call.rx) = taken - 1
      BY <2>3, <2>4, BehindShrinks
    <3>2. Behind(Inc(drv["rx"].used_idx), mem["rx"].used_idx) = given - 1
      BY <2>4, <2>5, BehindShrinks
    <3> HIDE DEF taken, given
    <3> QED BY <2>1, <2>a, <3>1, <3>2
  <2>9. RoomOK' /\ SnapOK'
    BY <2>1, <2>3, <2>8 DEF RoomOK, SnapOK, Adding, InRxLoop, Queues
  <2>10. AnnouncedOK'
    BY <2>1, <2>5 DEF AnnouncedOK, Announced, Announces, Snapped, InRxLoop, Adding, Queues
  <2> QED BY <2>2, <2>6, <2>7, <2>9, <2>10 DEF Queues
<1>6. CASE Kick
  <2>1. /\ pc = "kick" /\ pc' = "idle" /\ call' = NoCall /\ UNCHANGED <<boot, mem, drv, live, isr>>
        /\ DOMAIN dev' = Queues
        /\ \A q \in Queues : /\ DOMAIN dev'[q] = DOMAIN dev[q]
                             /\ dev'[q].seen = dev[q].seen /\ dev'[q].taken = dev[q].taken
                             /\ dev'[q].unsignalled = dev[q].unsignalled
                             /\ dev'[q].event_idx = dev[q].event_idx
    BY <1>6 DEF Kick, ShapeOK, DevShape, CallShape
  <2>2. ShapeOK'
    BY <2>1, NoCallShape DEF ShapeOK, MemShape, DrvShape, DevShape
  <2>3. \A q \in Queues : QueueOK(q)'
    BY <2>1, QueuesStay
  <2>4. RoomOK' /\ SnapOK'
    <3>1. dev'["rx"].seen = dev["rx"].seen
      BY <2>1 DEF Queues
    <3> QED BY <2>1, <3>1 DEF RoomOK, SnapOK, Adding, InRxLoop
  <2>5. AnnouncedOK'
    BY <2>1 DEF AnnouncedOK, Announced, Announces, Snapped, InRxLoop, Adding
  <2> QED BY <2>2, <2>3, <2>4, <2>5
<1> QED BY <1>1, <1>2, <1>3, <1>4, <1>5, <1>6


\* virtio_net_handle_interrupt.
LEMMA HandlerStep ==
  ASSUME RingInv,
         ReadIsr \/ SnapTx \/ SnapRx \/ ReapTx \/ ReapTxDone \/ ReapRx \/ IrqReturn
  PROVE  RingInv'
<1> USE DEF RingInv
<1>1. CASE ReadIsr
  <2>1. pc = "idle" /\ boot = "done" /\ pc' = "snap_tx" /\ UNCHANGED <<boot, mem, drv, dev, live, call>>
    BY <1>1 DEF ReadIsr, BootRuns
  <2>2. ShapeOK' /\ \A q \in Queues : QueueOK(q)'
    BY <2>1 DEF ShapeOK, MemShape, DrvShape, DevShape, CallShape, QueueOK, Out
  <2>3. RoomOK' /\ SnapOK'
    BY <2>1 DEF RoomOK, SnapOK, Adding, InRxLoop
  <2>4. AnnouncedOK'
    BY <2>1 DEF AnnouncedOK, Announced
  <2> QED BY <2>2, <2>3, <2>4
<1>2. CASE SnapTx
  <2>1. /\ pc = "snap_tx" /\ pc' = "snap_rx" /\ UNCHANGED <<boot, mem, drv, dev, live, isr>>
        /\ DOMAIN call' = DOMAIN call /\ call'.q = call.q /\ call'.rx = call.rx
        /\ call'.tx = mem["tx"].used_idx /\ call'["tx"] = mem["tx"].used_idx
    BY <1>2 DEF SnapTx, ShapeOK, CallShape
  <2>2. ShapeOK' /\ \A q \in Queues : QueueOK(q)'
    BY <2>1 DEF ShapeOK, MemShape, DrvShape, DevShape, CallShape, QueueOK, Out, Queues
  <2>3. RoomOK'
    BY <2>1 DEF RoomOK, Adding
  <2>4. Behind(drv["tx"].used_idx, mem["tx"].used_idx)
          <= Behind(drv["tx"].used_idx, mem["tx"].used_idx)
    BY OutType DEF Queues
  <2>5. SnapOK'
    BY <2>1, <2>4 DEF SnapOK, Adding, InRxLoop
  <2>6. AnnouncedOK'
    BY <2>1 DEF AnnouncedOK, Announced, Snapped, Queues
  <2> QED BY <2>2, <2>3, <2>5, <2>6
<1>3. CASE SnapRx
  <2>1. /\ pc = "snap_rx" /\ pc' = "reap_tx" /\ UNCHANGED <<boot, mem, drv, dev, live, isr>>
        /\ DOMAIN call' = DOMAIN call /\ call'.q = call.q /\ call'.tx = call.tx
        /\ call'["tx"] = call["tx"]
        /\ call'.rx = mem["rx"].used_idx /\ call'["rx"] = mem["rx"].used_idx
    BY <1>3 DEF SnapRx, ShapeOK, CallShape
  <2>2. ShapeOK' /\ \A q \in Queues : QueueOK(q)'
    BY <2>1 DEF ShapeOK, MemShape, DrvShape, DevShape, CallShape, QueueOK, Out, Queues
  <2>3. RoomOK'
    BY <2>1 DEF RoomOK, Adding
  <2>4. Behind(drv["rx"].used_idx, mem["rx"].used_idx)
          <= Behind(drv["rx"].used_idx, mem["rx"].used_idx)
    BY OutType DEF Queues
  <2>5. SnapOK'
    BY <2>1, <2>4 DEF SnapOK, Adding, InRxLoop
  <2>6. AnnouncedOK'
    BY <2>1 DEF AnnouncedOK, Announces, Announced, Snapped, InRxLoop, Adding, Queues
  <2> QED BY <2>2, <2>3, <2>5, <2>6
<1>4. CASE ReapTx
  <2>1. /\ pc = "reap_tx" /\ UNCHANGED <<boot, pc, dev, live, isr, call>>
        /\ drv["tx"].used_idx # call.tx
        /\ DOMAIN mem' = Queues /\ DOMAIN drv' = Queues
        /\ \A q \in Queues : /\ DOMAIN mem'[q] = DOMAIN mem[q] /\ DOMAIN drv'[q] = DOMAIN drv[q]
                             /\ mem'[q].used_idx = mem[q].used_idx
                             /\ mem'[q].avail = mem[q].avail
        /\ drv'["tx"].used_idx = Inc(drv["tx"].used_idx) /\ drv'["rx"] = drv["rx"]
    BY <1>4 DEF ReapTx, ShapeOK, MemShape, DrvShape, Queues
  <2>2. ShapeOK'
    BY <2>1, IncIs DEF ShapeOK, MemShape, DrvShape, DevShape, CallShape, Queues
  <2> DEFINE taken == Behind(drv["tx"].used_idx, call.tx)
             given == Behind(drv["tx"].used_idx, mem["tx"].used_idx)
  <2>3. /\ drv["tx"].used_idx \in Idx /\ call.tx \in Idx /\ mem["tx"].used_idx \in Idx
        /\ Idx \subseteq Nat
    BY DEF ShapeOK, MemShape, DrvShape, CallShape, Queues, Idx
  <2>4. taken <= given
    BY <2>1 DEF SnapOK
  <2>5. /\ taken \in Nat /\ taken # 0 /\ given \in Nat
        /\ given = 0 <=> drv["tx"].used_idx = mem["tx"].used_idx
    BY <2>1, <2>3, BehindType
  <2>6. drv["tx"].used_idx # mem["tx"].used_idx
    <3> HIDE DEF taken, given
    <3> QED BY <2>4, <2>5
  <2>7. QueueOK("tx")'
    BY <2>1, <2>6, ReapStep DEF Queues
  <2>8. QueueOK("rx")'
    BY <2>1 DEF QueueOK, Out, Queues
  <2>9. Behind(drv'["tx"].used_idx, call.tx) <= Behind(drv'["tx"].used_idx, mem["tx"].used_idx)
    <3>1. Behind(Inc(drv["tx"].used_idx), call.tx) = taken - 1
      BY <2>1, <2>3, BehindShrinks
    <3>2. Behind(Inc(drv["tx"].used_idx), mem["tx"].used_idx) = given - 1
      BY <2>3, <2>6, BehindShrinks
    <3> HIDE DEF taken, given
    <3> QED BY <2>1, <2>4, <2>5, <3>1, <3>2
  <2>10. RoomOK' /\ SnapOK'
    BY <2>1, <2>9 DEF RoomOK, SnapOK, Adding, InRxLoop, Queues
  <2>11. AnnouncedOK'
    BY <2>1, <2>6 DEF AnnouncedOK, Announced, Announces, Snapped, InRxLoop, Adding, Queues
  <2> QED BY <2>2, <2>7, <2>8, <2>10, <2>11 DEF Queues
<1>5. CASE ReapTxDone
  <2>1. /\ pc = "reap_tx" /\ pc' = "reap_rx" /\ drv["tx"].used_idx = call.tx
        /\ UNCHANGED <<boot, mem, drv, dev, live, isr, call>>
    BY <1>5 DEF ReapTxDone
  <2>2. ShapeOK' /\ \A q \in Queues : QueueOK(q)'
    BY <2>1 DEF ShapeOK, MemShape, DrvShape, DevShape, CallShape, QueueOK, Out
  <2>3. RoomOK' /\ SnapOK'
    BY <2>1 DEF RoomOK, SnapOK, Adding, InRxLoop
  <2>4. AnnouncedOK'
    BY <2>1 DEF AnnouncedOK, Announced, Announces, Snapped, InRxLoop, Adding
  <2> QED BY <2>2, <2>3, <2>4
<1>6. CASE ReapRx
  <2>1. /\ pc = "reap_rx" /\ pc' = "add_desc" /\ drv["rx"].used_idx # call.rx
        /\ UNCHANGED <<boot, mem, drv, dev, live, isr>>
        /\ DOMAIN call' = DOMAIN call
        /\ call'.q = "rx" /\ call'.tx = call.tx /\ call'.rx = call.rx
        /\ call'["tx"] = call["tx"] /\ call'["rx"] = call["rx"]
    BY <1>6 DEF ReapRx, ShapeOK, CallShape
  <2>2. ShapeOK' /\ \A q \in Queues : QueueOK(q)'
    BY <2>1 DEF ShapeOK, MemShape, DrvShape, DevShape, CallShape, QueueOK, Out, Queues
  <2>3. RoomOK' /\ SnapOK'
    BY <2>1 DEF RoomOK, SnapOK, Adding, InRxLoop
  <2>4. AnnouncedOK'
    BY <2>1 DEF AnnouncedOK, Announced, Announces, Snapped, InRxLoop, Adding, Queues
  <2> QED BY <2>2, <2>3, <2>4
<1>7. CASE IrqReturn
  <2>1. /\ pc = "reap_rx" /\ pc' = "idle" /\ drv["rx"].used_idx = call.rx
        /\ call' = NoCall /\ UNCHANGED <<boot, mem, drv, dev, live, isr>>
    BY <1>7 DEF IrqReturn
  <2>2. ShapeOK' /\ \A q \in Queues : QueueOK(q)'
    BY <2>1, NoCallShape DEF ShapeOK, MemShape, DrvShape, DevShape, QueueOK, Out
  <2>3. RoomOK' /\ SnapOK'
    BY <2>1 DEF RoomOK, SnapOK, Adding, InRxLoop
  <2>4. drv["tx"].used_idx = call.tx /\ drv["rx"].used_idx = call.rx
    BY <2>1 DEF SnapOK, InRxLoop
  <2>5. AnnouncedOK'
    BY <2>1, <2>4 DEF AnnouncedOK, Announced, Announces, Snapped, InRxLoop, Adding, Queues
  <2> QED BY <2>2, <2>3, <2>5
<1> QED BY <1>1, <1>2, <1>3, <1>4, <1>5, <1>6, <1>7

\* Steps that touch nothing the invariant reads.
LEMMA Stutter ==
  ASSUME RingInv, UNCHANGED <<boot, pc, mem, drv, dev, live, isr, call>>
  PROVE  RingInv'
  BY DEF RingInv, ShapeOK, MemShape, DrvShape, DevShape, CallShape, QueueOK, Out, RoomOK, SnapOK,
         AnnouncedOK, Announced, Announces, Snapped, InRxLoop, Adding

\* The device, and the network behind it.
LEMMA DeviceStep ==
  ASSUME RingInv, NEW q \in Queues,
         FrameArrives \/ DevTransmit \/ DevReceive \/ DevComplete(q) \/ DevSignal(q) \/ DevRests(q)
  PROVE  RingInv'
<1> USE DEF RingInv
<1>1. CASE FrameArrives
  <2>1. UNCHANGED <<boot, pc, mem, drv, dev, live, isr, call>>
    BY <1>1 DEF FrameArrives
  <2> QED BY <2>1, Stutter
<1>2. CASE DevTransmit \/ DevReceive
  <2>0. PICK p \in Queues :
          /\ live /\ dev[p].seen # mem[p].avail
          /\ UNCHANGED <<boot, pc, mem, drv, live, isr, call>>
          /\ dev' = [dev EXCEPT ![p].seen = Inc(@), ![p].taken = Append(@, Offer(p))]
    BY <1>2 DEF DevTransmit, DevReceive, Offered, Queues
  <2>1. PICK x :
          /\ live /\ dev[p].seen # mem[p].avail
          /\ UNCHANGED <<boot, pc, mem, drv, live, isr, call>>
          /\ dev' = [dev EXCEPT ![p].seen = Inc(@), ![p].taken = Append(@, x)]
    BY <2>0
  <2>2. /\ DevShape'
        /\ dev'[p].seen = Inc(dev[p].seen) /\ dev'[p].unsignalled = dev[p].unsignalled
        /\ Len(dev'[p].taken) = Len(dev[p].taken) + 1
        /\ \A r \in Queues : r # p => dev'[r] = dev[r]
        /\ \A r \in Queues : dev'[r].event_idx = dev[r].event_idx
    BY <2>1, TakeShape DEF ShapeOK
  <2>3. ShapeOK'
    BY <2>1, <2>2 DEF ShapeOK, MemShape, DrvShape, CallShape
  <2>5. \A r \in Queues : QueueOK(r)' /\ Out(r)' = Out(r)
    <3>1. ASSUME NEW r \in Queues, r # p PROVE QueueOK(r)' /\ Out(r)' = Out(r)
      <4>1. dev'[r] = dev[r] /\ mem' = mem /\ drv' = drv
        BY <2>1, <2>2, <3>1
      <4> QED BY <4>1 DEF QueueOK, Out
    <3>2. QueueOK(p)' /\ Out(p)' = Out(p)
      BY <2>1, <2>2, TakeStep
    <3> QED BY <3>1, <3>2
  <2>6. RoomOK'
    BY <2>1, <2>5 DEF RoomOK, Adding, Queues
  <2>7. SnapOK'
    BY <2>1 DEF SnapOK, Adding, InRxLoop
  <2>8. AnnouncedOK'
    BY <2>1, <2>2 DEF AnnouncedOK, Announced, Announces, Snapped, InRxLoop, Adding
  <2> QED BY <2>3, <2>5, <2>6, <2>7, <2>8
<1>3. CASE DevComplete(q)
  <2>1. UNCHANGED <<boot, pc, drv, live, isr, call>>
    BY <1>3 DEF DevComplete
  <2>2. /\ MemShape' /\ DevShape'
        /\ mem'[q].used_idx = Inc(mem[q].used_idx) /\ mem'[q].avail = mem[q].avail
        /\ dev'[q].seen = dev[q].seen /\ dev'[q].unsignalled = dev[q].unsignalled + 1
        /\ Len(dev'[q].taken) = Len(dev[q].taken) - 1 /\ Len(dev[q].taken) \in Nat \ {0}
        /\ \A r \in Queues : r # q => dev'[r] = dev[r] /\ mem'[r] = mem[r]
        /\ \A r \in Queues : dev'[r].event_idx = dev[r].event_idx
    BY <1>3, CompleteShape DEF ShapeOK
  <2>3. ShapeOK'
    BY <2>1, <2>2 DEF ShapeOK, DrvShape, CallShape
  <2>4. /\ QueueOK(q)' /\ Out(q)' = Out(q)
        /\ Behind(drv[q].used_idx, mem'[q].used_idx) = Behind(drv[q].used_idx, mem[q].used_idx) + 1
    BY <2>1, <2>2, CompleteStep
  <2>5. \A r \in Queues : QueueOK(r)' /\ Out(r)' = Out(r)
    BY <2>1, <2>2, <2>4 DEF QueueOK, Out
  <2>6. boot = "fill" => q # "rx"
    <3> SUFFICES ASSUME boot = "fill", q = "rx" PROVE FALSE
      OBVIOUS
    <3>1. Behind(0, 0) = 0
      BY BehindType, Sizes
    <3>2. Len(dev["rx"].taken) = 0
      BY <3>1 DEF RoomOK, QueueOK
    <3> QED BY <2>2, <3>2
  <2>7. RoomOK'
    BY <2>1, <2>2, <2>5, <2>6 DEF RoomOK, Adding, Queues
  <2>8. \A r \in Queues : Behind(drv[r].used_idx, mem[r].used_idx)
                            <= Behind(drv[r].used_idx, mem'[r].used_idx)
    BY <2>2, <2>4, OutType
  <2>9. \A r \in Queues : /\ call[r] \in Idx
                          /\ Behind(drv[r].used_idx, call[r]) \in Int
                          /\ Behind(drv[r].used_idx, mem[r].used_idx) \in Int
                          /\ Behind(drv[r].used_idx, mem'[r].used_idx) \in Int
    <3>1. \A r \in Queues : /\ call[r] \in Idx /\ drv[r].used_idx \in Idx
                            /\ mem[r].used_idx \in Idx /\ mem'[r].used_idx \in Idx
      BY <2>2 DEF ShapeOK, MemShape, DrvShape, CallShape, Queues
    <3>2. Idx \subseteq Int
      BY DEF Idx
    <3> QED BY <3>1, <3>2, BehindType
  <2>10. SnapOK'
    <3> DEFINE Stays(r) ==
          Behind(drv[r].used_idx, call[r]) <= Behind(drv[r].used_idx, mem[r].used_idx)
            => Behind(drv[r].used_idx, call[r]) <= Behind(drv[r].used_idx, mem'[r].used_idx)
    <3>1. \A r \in Queues : Stays(r)
      BY <2>8, <2>9
    <3>2. Stays("tx") /\ Stays("rx")
      BY <3>1 DEF Queues
    <3>3. call["tx"] = call.tx /\ call["rx"] = call.rx
      OBVIOUS
    <3> QED BY <2>1, <3>2, <3>3 DEF SnapOK, Adding, InRxLoop
  <2>11. dev'[q].unsignalled > 0
    BY <2>2 DEF ShapeOK, DevShape
  <2>12. AnnouncedOK'
    BY <2>1, <2>2, <2>11 DEF AnnouncedOK, Announced, Announces, Snapped, InRxLoop, Adding
  <2> QED BY <2>3, <2>5, <2>7, <2>10, <2>12
<1>4. CASE DevSignal(q)
  <2>1. /\ UNCHANGED <<boot, pc, mem, drv, live, call>>
        /\ DOMAIN dev' = Queues
        /\ \A r \in Queues : /\ DOMAIN dev'[r] = DOMAIN dev[r]
                             /\ dev'[r].seen = dev[r].seen /\ dev'[r].taken = dev[r].taken
                             /\ dev'[r].event_idx = dev[r].event_idx
                             /\ r # q => dev'[r].unsignalled = dev[r].unsignalled
        /\ dev'[q].unsignalled = 0
    BY <1>4 DEF DevSignal, ShapeOK, DevShape
  <2>2. /\ isr => isr'
        /\ ~ dev[q].event_idx => isr'
    BY <1>4, Zenon DEF DevSignal
  <2>3. \A r \in Queues : dev'[r].unsignalled \in Nat
    BY <2>1 DEF ShapeOK, DevShape
  <2>4. ShapeOK'
    BY <2>1, <2>3 DEF ShapeOK, MemShape, DrvShape, DevShape, CallShape
  <2>5. \A r \in Queues : QueueOK(r)' /\ Out(r)' = Out(r)
    BY <2>1, QueuesStay
  <2>6. RoomOK' /\ SnapOK'
    BY <2>1, <2>5 DEF RoomOK, SnapOK, Adding, InRxLoop, Queues
  <2>7. AnnouncedOK'
    <3> SUFFICES ASSUME Announces', NEW r \in Queues,
                        drv[r].used_idx # mem[r].used_idx
                 PROVE  Announced(r)'
      BY <2>1 DEF AnnouncedOK
    <3>1. Announces
      BY <2>1 DEF Announces
    <3>2. isr'
      BY <2>2, <3>1 DEF Announces
    <3> QED BY <3>2 DEF Announced
  <2> QED BY <2>4, <2>5, <2>6, <2>7
<1>5. CASE DevRests(q)
  <2>1. /\ UNCHANGED <<boot, pc, mem, drv, live, isr, call>>
        /\ DOMAIN dev' = Queues
        /\ \A r \in Queues : /\ DOMAIN dev'[r] = DOMAIN dev[r]
                             /\ dev'[r].seen = dev[r].seen /\ dev'[r].taken = dev[r].taken
                             /\ dev'[r].event_idx = dev[r].event_idx
                             /\ dev'[r].unsignalled = dev[r].unsignalled
    BY <1>5 DEF DevRests, ShapeOK, DevShape
  <2>2. ShapeOK'
    BY <2>1 DEF ShapeOK, MemShape, DrvShape, DevShape, CallShape
  <2>3. \A r \in Queues : QueueOK(r)' /\ Out(r)' = Out(r)
    BY <2>1, QueuesStay
  <2>4. RoomOK' /\ SnapOK'
    BY <2>1, <2>3 DEF RoomOK, SnapOK, Adding, InRxLoop, Queues
  <2>5. AnnouncedOK'
    BY <2>1 DEF AnnouncedOK, Announced, Announces, Snapped, InRxLoop, Adding
  <2> QED BY <2>2, <2>3, <2>4, <2>5
<1> QED BY <1>1, <1>2, <1>3, <1>4, <1>5

\* While packets are sent only when a descriptor is free, the rings stay within their
\* bounds, and with them what the driver's snapshots say of the device.
THEOREM RingInvHolds == ASSUME Paced PROVE Spec => []RingInv
<1>1. Init => RingInv
  BY RingInit
<1>2. ASSUME RingInv, [Next]_vars PROVE RingInv'
  <2>1. CASE FillRx \/ FillDone \/ EnableDevice \/ UnmaskIrq
    BY <1>2, <2>1, FillStep
  <2>2. CASE Send \/ AddDesc \/ AddRing \/ AddIdxTx \/ AddIdxRx \/ Kick
    BY <1>2, <2>2, AddStep
  <2>3. CASE ReadIsr \/ SnapTx \/ SnapRx \/ ReapTx \/ ReapTxDone \/ ReapRx \/ IrqReturn
    BY <1>2, <2>3, HandlerStep
  <2>4. ASSUME NEW q \in Queues,
               \/ FrameArrives \/ DevTransmit \/ DevReceive
               \/ DevComplete(q) \/ DevSignal(q) \/ DevRests(q)
        PROVE  RingInv'
    BY <1>2, <2>4, DeviceStep
  <2>5. CASE UNCHANGED vars
    BY <1>2, <2>5, Stutter DEF vars
  <2> QED BY <1>2, <2>1, <2>2, <2>3, <2>4, <2>5
          DEF Next, Driver, DriverInit, DeviceTx, DeviceRx, Queues
<1> QED BY <1>1, <1>2, PTL DEF Spec

\* A used entry is never left behind unannounced (virtio_net_handle_interrupt reads the
\* ISR register before the used indices), for any number of descriptors and any traffic.
THEOREM NoLostInterruptHolds == ASSUME Paced PROVE Spec => []NoLostInterrupt
<1>1. ASSUME RingInv PROVE NoLostInterrupt
  <2> SUFFICES ASSUME Announces, NEW q \in Queues, Unreaped(q) # <<>>
               PROVE  \/ isr \/ dev[q].unsignalled > 0
                      \/ pc = "snap_tx" \/ (pc = "snap_rx" /\ q = "rx")
                      \/ pc # "idle" /\ call[q] = mem[q].used_idx
    BY DEF NoLostInterrupt
  <2>1. drv[q].used_idx \in Idx /\ mem[q].used_idx \in Idx
    BY <1>1, OutType DEF RingInv
  <2>2. Behind(drv[q].used_idx, mem[q].used_idx) # 0
    <3> SUFFICES ASSUME Behind(drv[q].used_idx, mem[q].used_idx) = 0 PROVE FALSE
      OBVIOUS
    <3>1. Unreaped(q) = [n \in 1 .. 0 |-> mem[q].used[((drv[q].used_idx + n - 1) % IdxMod) % Num]]
      BY DEF Unreaped, Span
    <3>2. Unreaped(q) = <<>>
      BY <3>1
    <3> QED BY <3>2
  <2>3. drv[q].used_idx # mem[q].used_idx
    BY <2>1, <2>2, BehindType
  <2>4. Announced(q)
    BY <1>1, <2>3 DEF RingInv, AnnouncedOK
  <2> QED BY <2>4 DEF Announced, Snapped, InRxLoop, Adding
<1> QED BY <1>1, RingInvHolds, PTL

-----------------------------------------------------------------------------
\* The range of the indices is a multiple of the ring's length, so an index need
\* not be reduced before its slot is taken.
LEMMA Wraps ==
  ASSUME NEW x \in Nat
  PROVE  (x % IdxMod) % Num = x % Num
<1> DEFINE m == IdxMod \div Num
           q == x \div IdxMod
           r == x % IdxMod
           p == r \div Num
           s == r % Num
<1>1. IdxMod = m * Num /\ m \in Nat
  BY SizeAssumption, Quotient
<1>2. q \in Nat /\ r \in Nat /\ x = q * IdxMod + r
  BY SizeAssumption
<1>3. p \in Nat /\ s \in Nat /\ s < Num /\ r = p * Num + s
  BY <1>2, SizeAssumption
<1> HIDE DEF m, q, r, p, s
<1>4. Num \in Nat \ {0}
  BY SizeAssumption
<1>5. x = (q * m + p) * Num + s
  <2>1. q * IdxMod = (q * m) * Num
    BY <1>1, <1>2, <1>4
  <2>2. (q * m + p) * Num = (q * m) * Num + p * Num
    BY <1>1, <1>2, <1>3, <1>4
  <2> QED BY <1>1, <1>2, <1>3, <1>4, <2>1, <2>2
<1>6. q * m + p \in Int
  BY <1>1, <1>2, <1>3
<1>7. x % Num = s
  BY <1>3, <1>4, <1>5, <1>6, RemainderIs
<1> QED BY <1>7 DEF r, s

\* Slots less than a ring's length apart differ.
LEMMA NearApart ==
  ASSUME NEW a \in Nat, NEW j \in Nat, NEW k \in Nat, j < k, k - j < Num
  PROVE  (a + j) % Num # (a + k) % Num
<1> SUFFICES ASSUME (a + j) % Num = (a + k) % Num PROVE FALSE
  OBVIOUS
<1> DEFINE p == (a + j) \div Num
           q == (a + k) \div Num
           r == (a + j) % Num
<1>1. p \in Int /\ q \in Int /\ r \in Int /\ a + j = p * Num + r /\ a + k = q * Num + r
  BY SizeAssumption
<1> HIDE DEF p, q, r
<1>2. Num \in Nat \ {0} /\ p * Num \in Int /\ q * Num \in Int /\ (p + 1) * Num = p * Num + Num
  BY <1>1, SizeAssumption
<1>3. p * Num < q * Num
  BY <1>1, <1>2
<1>4. p + 1 <= q
  BY <1>1, <1>2, <1>3, Smaller
<1>5. (p + 1) * Num <= q * Num
  BY <1>1, <1>2, <1>4, Larger
<1> QED BY <1>1, <1>2, <1>5

\* An index and the same one round further.
LEMMA RoundSlot ==
  ASSUME NEW x \in Nat
  PROVE  (x + IdxMod) % Num = x % Num
<1> DEFINE q == x \div IdxMod
           r == x % IdxMod
<1>1. q \in Nat /\ r \in Nat /\ r < IdxMod /\ x = q * IdxMod + r /\ IdxMod \in Nat \ {0}
  BY SizeAssumption
<1> HIDE DEF q, r
<1>2. x + IdxMod = (q + 1) * IdxMod + r
  BY <1>1
<1>3. (x + IdxMod) % IdxMod = r
  BY <1>1, <1>2, RemainderIs
<1>4. ((x + IdxMod) % IdxMod) % Num = (x + IdxMod) % Num
  BY <1>1, Wraps
<1>5. (x % IdxMod) % Num = x % Num
  BY Wraps
<1> QED BY <1>3, <1>4, <1>5 DEF r

\* The slot an index, or one some way on from it, falls into.
LEMMA SlotOf ==
  ASSUME NEW x \in Nat
  PROVE  x % Num \in Slots
  BY SizeAssumption DEF Slots

\* Where the next index's slots lie.
LEMMA IncSlot ==
  ASSUME NEW a \in Idx, NEW n \in Nat
  PROVE  (Inc(a) + n) % Num = (a + 1 + n) % Num
<1>1. Inc(a) = (IF a = IdxMod - 1 THEN 0 ELSE a + 1) /\ a \in Nat /\ IdxMod \in Nat
  BY IncIs, Sizes DEF Idx
<1>2. CASE a = IdxMod - 1
  <2>1. (n + IdxMod) % Num = n % Num
    BY RoundSlot
  <2>2. a + 1 + n = n + IdxMod /\ Inc(a) + n = n
    BY <1>1, <1>2
  <2> QED BY <2>1, <2>2
<1>3. CASE a # IdxMod - 1
  BY <1>1, <1>3
<1> QED BY <1>2, <1>3

\* Where the slots that start so far behind an index end.
LEMMA EndSlot ==
  ASSUME NEW a \in Idx, NEW b \in Idx
  PROVE  (a + Behind(a, b)) % Num = b % Num
<1>1. a \in Nat /\ b \in Nat /\ IdxMod \in Nat
  BY Sizes DEF Idx
<1>2. Behind(a, b) = IF a <= b THEN b - a ELSE (b - a) + IdxMod
  BY BehindIs
<1>3. CASE a <= b
  <2>1. a + Behind(a, b) = b
    BY <1>1, <1>2, <1>3
  <2> QED BY <2>1
<1>4. CASE ~ (a <= b)
  <2>1. a + Behind(a, b) = b + IdxMod
    BY <1>1, <1>2, <1>4
  <2> QED BY <1>1, <2>1, RoundSlot
<1> QED BY <1>3, <1>4

\* The entries of a ring between two indices, as a sequence.
LEMMA SpanIs ==
  ASSUME NEW a \in Idx, NEW b \in Idx, NEW ring \in [Slots -> Slots]
  PROVE  /\ Span(ring, a, b) \in Seq(Slots) /\ Len(Span(ring, a, b)) = Behind(a, b)
         /\ DOMAIN Span(ring, a, b) = 1 .. Behind(a, b) /\ Behind(a, b) \in Nat
         /\ \A n \in 1 .. Behind(a, b) : /\ Span(ring, a, b)[n] = ring[(a + n - 1) % Num]
                                         /\ (a + n - 1) % Num \in Slots
<1>1. Behind(a, b) \in Nat
  BY BehindType DEF Idx
<1>2. a \in Nat
  BY DEF Idx
<1>3. ASSUME NEW n \in 1 .. Behind(a, b)
      PROVE  ((a + n - 1) % IdxMod) % Num = (a + n - 1) % Num /\ (a + n - 1) % Num \in Slots
  <2>1. a + n - 1 \in Nat
    BY <1>1, <1>2
  <2> QED BY <2>1, Wraps, SlotOf
<1>4. Span(ring, a, b) = [n \in 1 .. Behind(a, b) |-> ring[(a + n - 1) % Num]]
  BY <1>3 DEF Span
<1>5. \A n \in 1 .. Behind(a, b) : ring[(a + n - 1) % Num] \in Slots
  BY <1>3
<1> QED BY <1>1, <1>3, <1>4, <1>5

\* The driver or the device moves the far end on.
LEMMA SpanGrows ==
  ASSUME NEW a \in Idx, NEW b \in Idx, NEW ring \in [Slots -> Slots], Behind(a, b) + 1 < IdxMod
  PROVE  Span(ring, a, Inc(b)) = Append(Span(ring, a, b), ring[b % Num])
<1> DEFINE s == Span(ring, a, b)
           t == Span(ring, a, Inc(b))
           x == ring[b % Num]
<1>0. a \in Nat /\ Inc(b) \in Idx /\ b \in Nat
  BY IncIs DEF Idx
<1>1. Behind(a, Inc(b)) = Behind(a, b) + 1
  BY BehindGrows
<1>2. /\ s \in Seq(Slots) /\ Len(s) = Behind(a, b) /\ Behind(a, b) \in Nat
      /\ \A n \in 1 .. Behind(a, b) : s[n] = ring[(a + n - 1) % Num]
  BY SpanIs
<1>3. /\ t \in Seq(Slots) /\ Len(t) = Behind(a, b) + 1
      /\ \A n \in 1 .. (Behind(a, b) + 1) : t[n] = ring[(a + n - 1) % Num]
  <2> DEFINE c == Inc(b)
  <2>1. c \in Idx /\ Behind(a, c) = Behind(a, b) + 1
    BY <1>0, <1>1
  <2> HIDE DEF c
  <2>2. /\ Span(ring, a, c) \in Seq(Slots) /\ Len(Span(ring, a, c)) = Behind(a, c)
        /\ \A n \in 1 .. Behind(a, c) : Span(ring, a, c)[n] = ring[(a + n - 1) % Num]
    BY <2>1, SpanIs
  <2> QED BY <2>1, <2>2 DEF c
<1>4. x \in Slots
  BY <1>0, SlotOf
<1>5. (a + (Behind(a, b) + 1) - 1) % Num = b % Num
  <2>1. a + (Behind(a, b) + 1) - 1 = a + Behind(a, b)
    BY <1>0, <1>2
  <2> QED BY <2>1, EndSlot
<1> HIDE DEF s, t, x
<1>6. /\ Append(s, x) \in Seq(Slots) /\ Len(Append(s, x)) = Behind(a, b) + 1
      /\ \A n \in 1 .. Behind(a, b) : Append(s, x)[n] = s[n]
      /\ Append(s, x)[Behind(a, b) + 1] = x
  BY <1>2, <1>4
<1>7. ASSUME NEW n \in 1 .. (Behind(a, b) + 1) PROVE t[n] = Append(s, x)[n]
  <2>1. CASE n = Behind(a, b) + 1
    BY <1>2, <1>3, <1>5, <1>6, <2>1 DEF x
  <2>2. CASE n # Behind(a, b) + 1
    BY <1>2, <1>3, <1>6, <2>2
  <2> QED BY <2>1, <2>2
<1>8. t = Append(s, x)
  BY <1>2, <1>3, <1>6, <1>7
<1> QED BY <1>8 DEF s, t, x

\* The device or the driver moves the near end on.
LEMMA SpanShrinks ==
  ASSUME NEW a \in Idx, NEW b \in Idx, NEW ring \in [Slots -> Slots], a # b
  PROVE  /\ Span(ring, a, b) # <<>> /\ Head(Span(ring, a, b)) = ring[a % Num]
         /\ Span(ring, Inc(a), b) = Tail(Span(ring, a, b))
<1> DEFINE s == Span(ring, a, b)
           t == Span(ring, Inc(a), b)
<1>0. a \in Nat /\ Inc(a) \in Idx /\ b \in Nat
  BY IncIs DEF Idx
<1>1. Behind(Inc(a), b) = Behind(a, b) - 1 /\ Behind(a, b) # 0
  BY BehindShrinks, BehindType
<1>2. /\ s \in Seq(Slots) /\ Len(s) = Behind(a, b) /\ Behind(a, b) \in Nat
      /\ \A n \in 1 .. Behind(a, b) : s[n] = ring[(a + n - 1) % Num]
  BY SpanIs
<1>3. /\ t \in Seq(Slots) /\ Len(t) = Behind(a, b) - 1
      /\ \A n \in 1 .. (Behind(a, b) - 1) : t[n] = ring[(Inc(a) + n - 1) % Num]
  <2> DEFINE c == Inc(a)
  <2>1. c \in Idx /\ Behind(c, b) = Behind(a, b) - 1
    BY <1>0, <1>1
  <2> HIDE DEF c
  <2>2. /\ Span(ring, c, b) \in Seq(Slots) /\ Len(Span(ring, c, b)) = Behind(c, b)
        /\ \A n \in 1 .. Behind(c, b) : Span(ring, c, b)[n] = ring[(c + n - 1) % Num]
    BY <2>1, SpanIs
  <2> QED BY <2>1, <2>2 DEF c
<1>4. ASSUME NEW n \in 1 .. (Behind(a, b) - 1)
      PROVE  t[n] = s[n + 1]
  <2>1. n - 1 \in Nat /\ n + 1 \in 1 .. Behind(a, b)
    BY <1>1, <1>2
  <2>2. (Inc(a) + (n - 1)) % Num = (a + 1 + (n - 1)) % Num
    BY <2>1, IncSlot
  <2>3. /\ Inc(a) + (n - 1) = Inc(a) + n - 1
        /\ a + 1 + (n - 1) = a + (n + 1) - 1
    BY <1>0, <2>1 DEF Idx
  <2> HIDE DEF s, t
  <2> QED BY <1>2, <1>3, <2>1, <2>2, <2>3
<1>5. s[1] = ring[a % Num]
  <2>1. a + 1 - 1 = a
    BY <1>0
  <2> HIDE DEF s
  <2> QED BY <1>1, <1>2, <2>1
<1> HIDE DEF s, t
<1>6. s # <<>> /\ Head(s) = s[1]
  BY <1>1, <1>2
<1>7. /\ Tail(s) \in Seq(Slots) /\ Len(Tail(s)) = Behind(a, b) - 1
      /\ \A n \in 1 .. (Behind(a, b) - 1) : Tail(s)[n] = s[n + 1]
  BY <1>1, <1>2
<1>8. t = Tail(s)
  BY <1>3, <1>4, <1>7
<1> QED BY <1>5, <1>6, <1>8 DEF s, t

\* The slot just past the far end is none of those in use, while one is free.
LEMMA SpanStays ==
  ASSUME NEW a \in Idx, NEW b \in Idx, NEW ring \in [Slots -> Slots], NEW x \in Slots,
         Behind(a, b) < Num
  PROVE  /\ [ring EXCEPT ![b % Num] = x] \in [Slots -> Slots]
         /\ Span([ring EXCEPT ![b % Num] = x], a, b) = Span(ring, a, b)
<1> DEFINE new == [ring EXCEPT ![b % Num] = x]
<1>0. a \in Nat /\ b \in Nat /\ Behind(a, b) \in Nat
  BY BehindType DEF Idx
<1>1. new \in [Slots -> Slots]
  BY <1>0, SlotOf
<1>2. ASSUME NEW n \in 1 .. Behind(a, b)
      PROVE  new[(a + n - 1) % Num] = ring[(a + n - 1) % Num]
  <2> DEFINE j == n - 1
             k == Behind(a, b)
  <2>1. j \in Nat /\ k \in Nat /\ j < k /\ k - j < Num
    BY <1>0, Sizes
  <2>2. (a + j) % Num # (a + k) % Num
    <3> HIDE DEF j, k
    <3> QED BY <1>0, <2>1, NearApart
  <2>3. (a + (n - 1)) % Num # (a + Behind(a, b)) % Num
    BY <2>2
  <2>4. (a + (n - 1)) % Num # b % Num /\ a + (n - 1) = a + n - 1
    BY <1>0, <2>3, EndSlot
  <2>5. (a + n - 1) % Num \in Slots
    BY SpanIs
  <2> QED BY <2>4, <2>5
<1> HIDE DEF new
<1>3. Span(new, a, b) = Span(ring, a, b)
  <2> DEFINE s == Span(new, a, b)
             t == Span(ring, a, b)
  <2>1. /\ s \in Seq(Slots) /\ Len(s) = Behind(a, b)
        /\ \A n \in 1 .. Behind(a, b) : s[n] = new[(a + n - 1) % Num]
    BY <1>1, SpanIs
  <2>2. /\ t \in Seq(Slots) /\ Len(t) = Behind(a, b)
        /\ \A n \in 1 .. Behind(a, b) : t[n] = ring[(a + n - 1) % Num]
    BY SpanIs
  <2> HIDE DEF s, t
  <2>3. s = t
    BY <1>2, <2>1, <2>2
  <2> QED BY <2>3 DEF s, t
<1> QED BY <1>1, <1>3 DEF new

-----------------------------------------------------------------------------
\* Sequences without repetition, and the elements they are made of.
Entries(s) == {s[n] : n \in DOMAIN s}

\* The first is taken away.
LEMMA TailDistinct ==
  ASSUME NEW S, NEW s \in Seq(S), s # <<>>, Distinct(s)
  PROVE  /\ Tail(s) \in Seq(S) /\ Len(Tail(s)) = Len(s) - 1
         /\ Head(s) \in Entries(s) /\ Head(s) \in S
         /\ Distinct(Tail(s)) /\ Entries(Tail(s)) = Entries(s) \ {Head(s)}
<1>1. /\ Len(s) \in Nat \ {0} /\ DOMAIN s = 1 .. Len(s) /\ Head(s) = s[1] /\ Head(s) \in S
      /\ Tail(s) \in Seq(S) /\ Len(Tail(s)) = Len(s) - 1 /\ DOMAIN Tail(s) = 1 .. (Len(s) - 1)
      /\ \A n \in 1 .. (Len(s) - 1) : Tail(s)[n] = s[n + 1]
  OBVIOUS
<1>2. Distinct(Tail(s))
  BY <1>1 DEF Distinct
<1>3. Head(s) \in Entries(s)
  BY <1>1 DEF Entries
<1>4. ASSUME NEW x PROVE x \in Entries(Tail(s)) <=> x \in Entries(s) \ {Head(s)}
  <2>1. ASSUME x \in Entries(Tail(s)) PROVE x \in Entries(s) \ {Head(s)}
    BY <1>1, <2>1 DEF Entries, Distinct
  <2>2. ASSUME x \in Entries(s) \ {Head(s)} PROVE x \in Entries(Tail(s))
    <3>1. PICK n \in DOMAIN s : x = s[n] /\ n # 1
      BY <1>1, <2>2 DEF Entries
    <3>2. n - 1 \in 1 .. (Len(s) - 1) /\ (n - 1) + 1 = n
      BY <1>1, <3>1
    <3> QED BY <1>1, <3>1, <3>2 DEF Entries
  <2> QED BY <2>1, <2>2
<1> QED BY <1>1, <1>2, <1>3, <1>4

\* A new one is put at the end.
LEMMA AppendDistinct ==
  ASSUME NEW S, NEW s \in Seq(S), NEW x \in S, x \notin Entries(s), Distinct(s)
  PROVE  /\ Append(s, x) \in Seq(S) /\ Len(Append(s, x)) = Len(s) + 1
         /\ Distinct(Append(s, x)) /\ Entries(Append(s, x)) = Entries(s) \cup {x}
<1>1. /\ Len(s) \in Nat /\ DOMAIN s = 1 .. Len(s)
      /\ Append(s, x) \in Seq(S) /\ Len(Append(s, x)) = Len(s) + 1
      /\ DOMAIN Append(s, x) = 1 .. (Len(s) + 1)
      /\ \A n \in 1 .. Len(s) : Append(s, x)[n] = s[n]
      /\ Append(s, x)[Len(s) + 1] = x
  OBVIOUS
<1>2. \A n \in 1 .. (Len(s) + 1) : n \in 1 .. Len(s) \/ n = Len(s) + 1
  BY <1>1
<1>3. Distinct(Append(s, x))
  BY <1>1, <1>2 DEF Distinct, Entries
<1>4. Entries(Append(s, x)) = Entries(s) \cup {x}
  BY <1>1, <1>2 DEF Entries
<1> QED BY <1>1, <1>3, <1>4

\* A new one is put in front.
LEMMA PrependDistinct ==
  ASSUME NEW S, NEW s \in Seq(S), NEW x \in S, x \notin Entries(s), Distinct(s)
  PROVE  /\ <<x>> \o s \in Seq(S) /\ Len(<<x>> \o s) = Len(s) + 1
         /\ Distinct(<<x>> \o s) /\ Entries(<<x>> \o s) = Entries(s) \cup {x}
         /\ (<<x>> \o s)[1] = x /\ \A n \in 1 .. Len(s) : (<<x>> \o s)[n + 1] = s[n]
<1> DEFINE t == <<x>> \o s
<1>1. /\ Len(s) \in Nat /\ DOMAIN s = 1 .. Len(s)
      /\ t \in Seq(S) /\ Len(t) = Len(s) + 1 /\ DOMAIN t = 1 .. (Len(s) + 1)
      /\ t[1] = x /\ \A n \in 2 .. (Len(s) + 1) : t[n] = s[n - 1]
  OBVIOUS
<1> HIDE DEF t
<1>2. \A n \in 1 .. (Len(s) + 1) : n = 1 \/ (n \in 2 .. (Len(s) + 1) /\ n - 1 \in 1 .. Len(s))
  BY <1>1
<1>3. \A n \in 1 .. Len(s) : t[n + 1] = s[n] /\ n + 1 \in 1 .. (Len(s) + 1)
  BY <1>1
<1>4. Distinct(t)
  <2> SUFFICES ASSUME NEW i \in 1 .. (Len(s) + 1), NEW j \in 1 .. (Len(s) + 1), i # j
               PROVE  t[i] # t[j]
    BY <1>1 DEF Distinct
  <2>1. \A n \in 1 .. Len(s) : s[n] # x
    BY <1>1 DEF Entries
  <2>2. CASE i = 1 \/ j = 1
    BY <1>1, <1>2, <2>1, <2>2
  <2>3. CASE i # 1 /\ j # 1
    <3>1. i - 1 \in 1 .. Len(s) /\ j - 1 \in 1 .. Len(s) /\ i - 1 # j - 1
      BY <1>1, <2>3
    <3>2. t[i] = s[i - 1] /\ t[j] = s[j - 1]
      BY <1>1, <2>3
    <3> QED BY <1>1, <3>1, <3>2 DEF Distinct
  <2> QED BY <2>2, <2>3
<1>5. Entries(t) = Entries(s) \cup {x}
  <2>1. ASSUME NEW n \in 1 .. (Len(s) + 1) PROVE t[n] = x \/ \E k \in 1 .. Len(s) : t[n] = s[k]
    BY <1>1, <1>2
  <2>2. 1 \in 1 .. (Len(s) + 1)
    BY <1>1
  <2>3. ASSUME NEW y \in Entries(t) PROVE y \in Entries(s) \cup {x}
    <3>1. PICK n \in 1 .. (Len(s) + 1) : y = t[n]
      BY <1>1 DEF Entries
    <3> QED BY <1>1, <2>1, <3>1 DEF Entries
  <2>4. Entries(s) \cup {x} \subseteq Entries(t)
    BY <1>1, <1>3, <2>2 DEF Entries
  <2> QED BY <2>3, <2>4
<1> QED BY <1>1, <1>3, <1>4, <1>5 DEF t

\* Two sequences, one behind the other: their elements, and where they stand.
LEMMA Joined ==
  ASSUME NEW S, NEW s \in Seq(S), NEW t \in Seq(S)
  PROVE  /\ Len(s) \in Nat /\ Len(t) \in Nat /\ DOMAIN s = 1 .. Len(s) /\ DOMAIN t = 1 .. Len(t)
         /\ s \o t \in Seq(S) /\ Len(s \o t) = Len(s) + Len(t)
         /\ DOMAIN (s \o t) = 1 .. (Len(s) + Len(t))
         /\ \A k \in 1 .. Len(s) : (s \o t)[k] = s[k]
         /\ \A k \in 1 .. Len(t) : (s \o t)[Len(s) + k] = t[k] /\ Len(s) + k \in 1 .. (Len(s) + Len(t))
         /\ \A k \in 1 .. (Len(s) + Len(t)) :
              k \in 1 .. Len(s) \/ (k - Len(s) \in 1 .. Len(t) /\ Len(s) + (k - Len(s)) = k)
<1> DEFINE m == Len(s)
           l == Len(t)
<1>1. m \in Nat /\ l \in Nat /\ DOMAIN s = 1 .. m /\ DOMAIN t = 1 .. l
  OBVIOUS
<1>2. /\ s \o t \in Seq(S) /\ Len(s \o t) = m + l
      /\ \A k \in 1 .. (m + l) : (s \o t)[k] = IF k <= m THEN s[k] ELSE t[k - m]
  BY ConcatProperties
<1> HIDE DEF m, l
<1>3. DOMAIN (s \o t) = 1 .. (m + l)
  BY <1>2
<1>4. \A k \in 1 .. m : (s \o t)[k] = s[k]
  BY <1>1, <1>2
<1>5. \A k \in 1 .. l : (s \o t)[m + k] = t[k] /\ m + k \in 1 .. (m + l)
  <2> TAKE k \in 1 .. l
  <2>1. m + k \in 1 .. (m + l) /\ ~ (m + k <= m) /\ (m + k) - m = k
    BY <1>1
  <2> QED BY <1>2, <2>1
<1>6. \A k \in 1 .. (m + l) : k \in 1 .. m \/ (k - m \in 1 .. l /\ m + (k - m) = k)
  BY <1>1
<1> QED BY <1>1, <1>2, <1>3, <1>4, <1>5, <1>6, Zenon DEF m, l

\* The same, where the lengths are all that matters.
LEMMA JoinedLength ==
  ASSUME NEW S, NEW s \in Seq(S), NEW t \in Seq(S)
  PROVE  /\ Len(s) \in Nat /\ Len(t) \in Nat
         /\ s \o t \in Seq(S) /\ Len(s \o t) = Len(s) + Len(t)
  OBVIOUS

\* The n-th is taken away: those before it stay, those behind it move up.
Without(s, n) == SubSeq(s, 1, n - 1) \o SubSeq(s, n + 1, Len(s))

LEMMA WithoutIs ==
  ASSUME NEW S, NEW s \in Seq(S), NEW n \in 1 .. Len(s)
  PROVE  /\ Len(s) \in Nat \ {0} /\ DOMAIN s = 1 .. Len(s) /\ s[n] \in S
         /\ Without(s, n) \in Seq(S) /\ Len(Without(s, n)) = Len(s) - 1
         /\ DOMAIN Without(s, n) = 1 .. (Len(s) - 1)
         /\ \A k \in 1 .. (Len(s) - 1) : Without(s, n)[k] = s[IF k < n THEN k ELSE k + 1]
<1> DEFINE m == Len(s)
           r == Without(s, n)
           front == SubSeq(s, 1, n - 1)
           back == SubSeq(s, n + 1, m)
           f == n - 1
           b == m - n
<1>1. m \in Nat \ {0} /\ DOMAIN s = 1 .. m /\ s[n] \in S /\ n \in 1 .. m
  OBVIOUS
<1>2. front \in Seq(S) /\ Len(front) = f /\ \A k \in 1 .. f : front[k] = s[k]
  BY <1>1
<1>3. back \in Seq(S) /\ Len(back) = b /\ \A k \in 1 .. b : back[k] = s[k + n]
  <2> HIDE DEF m
  <2>1. /\ back \in Seq(S) /\ Len(back) = IF n + 1 <= m THEN m - (n + 1) + 1 ELSE 0
        /\ \A k \in 1 .. (m - (n + 1) + 1) : back[k] = s[(n + 1) + k - 1]
    <3>1. \A k \in (n + 1) .. m : s[k] \in S
      BY <1>1 DEF m
    <3>2. n + 1 \in Int /\ m \in Int
      BY <1>1
    <3> QED BY <3>1, <3>2, SubSeqProperties
  <2> HIDE DEF back
  <2>2. m - (n + 1) + 1 = m - n /\ (n + 1 <= m \/ m - n = 0)
    BY <1>1
  <2>3. Len(back) = b
    BY <2>1, <2>2
  <2>4. ASSUME NEW k \in 1 .. (m - n) PROVE back[k] = s[k + n]
    <3>1. k \in 1 .. (m - (n + 1) + 1) /\ (n + 1) + k - 1 = k + n
      BY <1>1, <2>2
    <3> QED BY <2>1, <3>1
  <2> QED BY <2>1, <2>3, <2>4
<1>4. r = front \o back
  BY DEF Without
<1>5. f \in Nat /\ b \in Nat /\ f + b = m - 1
  BY <1>1
<1> HIDE DEF m, r, front, back, f, b
<1>6. /\ r \in Seq(S) /\ Len(r) = f + b /\ DOMAIN r = 1 .. (f + b)
      /\ \A k \in 1 .. f : r[k] = front[k]
      /\ \A k \in 1 .. b : r[f + k] = back[k]
      /\ \A k \in 1 .. (f + b) : k \in 1 .. f \/ (k - f \in 1 .. b /\ f + (k - f) = k)
  <2>1. /\ r \in Seq(S) /\ Len(r) = Len(front) + Len(back)
        /\ DOMAIN r = 1 .. (Len(front) + Len(back))
        /\ \A k \in 1 .. Len(front) : r[k] = front[k]
        /\ \A k \in 1 .. Len(back) : r[Len(front) + k] = back[k]
        /\ \A k \in 1 .. (Len(front) + Len(back)) :
             \/ k \in 1 .. Len(front)
             \/ (k - Len(front) \in 1 .. Len(back) /\ Len(front) + (k - Len(front)) = k)
    <3>1. front \in Seq(S) /\ back \in Seq(S)
      BY <1>2, <1>3
    <3> DEFINE c == front \o back
    <3>2. /\ c \in Seq(S) /\ Len(c) = Len(front) + Len(back)
          /\ DOMAIN c = 1 .. (Len(front) + Len(back))
          /\ \A k \in 1 .. Len(front) : c[k] = front[k]
          /\ \A k \in 1 .. Len(back) : c[Len(front) + k] = back[k]
          /\ \A k \in 1 .. (Len(front) + Len(back)) :
               \/ k \in 1 .. Len(front)
               \/ (k - Len(front) \in 1 .. Len(back) /\ Len(front) + (k - Len(front)) = k)
      BY <3>1, Joined
    <3>3. r = c
      BY <1>4
    <3> QED BY <3>2, <3>3, Zenon
  <2> QED BY <1>2, <1>3, <2>1, Zenon
<1>7. ASSUME NEW k \in 1 .. (m - 1) PROVE r[k] = s[IF k < n THEN k ELSE k + 1]
  <2>1. CASE k \in 1 .. f
    <3>1. k < n
      BY <1>1, <2>1 DEF f
    <3> QED BY <1>2, <1>6, <2>1, <3>1
  <2>2. CASE k \notin 1 .. f
    <3>1. k - f \in 1 .. b /\ f + (k - f) = k
      BY <1>5, <1>6, <2>2
    <3>2. r[k] = s[(k - f) + n]
      BY <1>3, <1>6, <3>1
    <3>3. (k - f) + n = k + 1 /\ ~ (k < n)
      BY <1>1, <2>2 DEF f
    <3> QED BY <3>2, <3>3
  <2> QED BY <2>1, <2>2
<1>8. Len(r) = m - 1 /\ DOMAIN r = 1 .. (m - 1)
  BY <1>5, <1>6
<1> QED BY <1>1, <1>6, <1>7, <1>8, Zenon DEF m, r

LEMMA WithoutDistinct ==
  ASSUME NEW S, NEW s \in Seq(S), NEW n \in 1 .. Len(s), Distinct(s)
  PROVE  /\ Without(s, n) \in Seq(S) /\ Len(Without(s, n)) = Len(s) - 1
         /\ s[n] \in Entries(s) /\ s[n] \in S
         /\ Distinct(Without(s, n)) /\ Entries(Without(s, n)) = Entries(s) \ {s[n]}
<1> DEFINE m == Len(s)
           r == Without(s, n)
           at == [k \in 1 .. (m - 1) |-> IF k < n THEN k ELSE k + 1]
<1>1. /\ m \in Nat \ {0} /\ DOMAIN s = 1 .. m /\ s[n] \in S /\ n \in 1 .. m
      /\ r \in Seq(S) /\ Len(r) = m - 1 /\ DOMAIN r = 1 .. (m - 1)
      /\ \A k \in 1 .. (m - 1) : r[k] = s[IF k < n THEN k ELSE k + 1]
  BY WithoutIs
<1> HIDE DEF m, r
<1>2. \A k \in 1 .. (m - 1) : at[k] \in 1 .. m /\ at[k] # n
  BY <1>1
<1>3. \A k, l \in 1 .. (m - 1) : k # l => at[k] # at[l]
  BY <1>1
<1>4. ASSUME NEW k \in 1 .. m, k # n PROVE \E l \in 1 .. (m - 1) : at[l] = k
  <2>1. CASE k < n
    <3>1. k \in 1 .. (m - 1) /\ at[k] = k
      BY <1>1, <2>1
    <3> QED BY <3>1
  <2>2. CASE ~ (k < n)
    <3>1. k - 1 \in 1 .. (m - 1) /\ at[k - 1] = k
      BY <1>1, <1>4, <2>2
    <3> QED BY <3>1
  <2> QED BY <2>1, <2>2
<1>5. \A k \in 1 .. (m - 1) : r[k] = s[at[k]]
  BY <1>1
<1> HIDE DEF at
<1>6. \A k, l \in 1 .. m : k # l => s[k] # s[l]
  BY <1>1 DEF Distinct
<1>7. Distinct(r)
  <2> SUFFICES ASSUME NEW k \in 1 .. (m - 1), NEW l \in 1 .. (m - 1), k # l
               PROVE  r[k] # r[l]
    BY <1>1, Zenon DEF Distinct
  <2>1. at[k] \in 1 .. m /\ at[l] \in 1 .. m /\ at[k] # at[l] /\ r[k] = s[at[k]] /\ r[l] = s[at[l]]
    BY <1>2, <1>3, <1>5, Zenon
  <2> QED BY <1>6, <2>1, Zenon
<1>8. ASSUME NEW x PROVE x \in Entries(r) <=> x \in Entries(s) \ {s[n]}
  <2>1. ASSUME x \in Entries(r) PROVE x \in Entries(s) \ {s[n]}
    <3>1. PICK k \in 1 .. (m - 1) : x = r[k]
      BY <1>1, <2>1, Zenon DEF Entries
    <3>2. at[k] \in 1 .. m /\ at[k] # n /\ x = s[at[k]]
      BY <1>2, <1>5, <3>1, Zenon
    <3>3. x # s[n]
      BY <1>1, <1>6, <3>2, Zenon
    <3> QED BY <1>1, <3>2, <3>3, Zenon DEF Entries
  <2>2. ASSUME x \in Entries(s) \ {s[n]} PROVE x \in Entries(r)
    <3>1. PICK k \in 1 .. m : x = s[k] /\ k # n
      BY <1>1, <2>2, Zenon DEF Entries
    <3>2. PICK l \in 1 .. (m - 1) : at[l] = k
      BY <1>4, <3>1, Zenon
    <3>3. x = r[l]
      BY <1>5, <3>1, <3>2, Zenon
    <3> QED BY <1>1, <3>3, Zenon DEF Entries
  <2> QED BY <2>1, <2>2
<1>9. Entries(r) = Entries(s) \ {s[n]}
  BY <1>8, Zenon
<1>10. s[n] \in Entries(s)
  BY <1>1 DEF Entries
<1> QED BY <1>1, <1>7, <1>9, <1>10, Zenon DEF m, r

\* Two sequences without a common element, one behind the other.
LEMMA ConcatDistinct ==
  ASSUME NEW S, NEW s \in Seq(S), NEW t \in Seq(S), Distinct(s), Distinct(t),
         Entries(s) \cap Entries(t) = {}
  PROVE  /\ s \o t \in Seq(S) /\ Len(s \o t) = Len(s) + Len(t)
         /\ Distinct(s \o t) /\ Entries(s \o t) = Entries(s) \cup Entries(t)
<1> DEFINE r == s \o t
           m == Len(s)
           l == Len(t)
<1>1. /\ m \in Nat /\ l \in Nat /\ DOMAIN s = 1 .. m /\ DOMAIN t = 1 .. l
      /\ r \in Seq(S) /\ Len(r) = m + l /\ DOMAIN r = 1 .. (m + l)
      /\ \A k \in 1 .. m : r[k] = s[k]
      /\ \A k \in 1 .. l : r[m + k] = t[k] /\ m + k \in 1 .. (m + l)
      /\ \A k \in 1 .. (m + l) : k \in 1 .. m \/ (k - m \in 1 .. l /\ m + (k - m) = k)
  BY Joined
<1> HIDE DEF r, m, l
<1>2. \A k \in 1 .. m : k \in 1 .. (m + l)
  BY <1>1
<1>3. \A k \in 1 .. m, j \in 1 .. l : s[k] # t[j]
  BY <1>1 DEF Entries
<1>4. Distinct(r)
  <2> SUFFICES ASSUME NEW i \in 1 .. (m + l), NEW j \in 1 .. (m + l), i # j
               PROVE  r[i] # r[j]
    BY <1>1 DEF Distinct
  <2>1. CASE i \in 1 .. m /\ j \in 1 .. m
    BY <1>1, <2>1 DEF Distinct
  <2>2. CASE i \notin 1 .. m /\ j \notin 1 .. m
    <3>1. /\ i - m \in 1 .. l /\ j - m \in 1 .. l /\ i - m # j - m
          /\ r[i] = t[i - m] /\ r[j] = t[j - m]
      BY <1>1, <2>2
    <3>2. \A a, b \in 1 .. l : a # b => t[a] # t[b]
      BY <1>1 DEF Distinct
    <3> QED BY <3>1, <3>2
  <2>3. CASE i \in 1 .. m /\ j \notin 1 .. m
    <3>1. j - m \in 1 .. l /\ r[j] = t[j - m]
      BY <1>1, <2>3
    <3> QED BY <1>1, <1>3, <2>3, <3>1
  <2>4. CASE i \notin 1 .. m /\ j \in 1 .. m
    <3>1. i - m \in 1 .. l /\ r[i] = t[i - m]
      BY <1>1, <2>4
    <3> QED BY <1>1, <1>3, <2>4, <3>1
  <2> QED BY <2>1, <2>2, <2>3, <2>4
<1>5. ASSUME NEW x PROVE x \in Entries(r) <=> x \in Entries(s) \cup Entries(t)
  <2>1. ASSUME x \in Entries(r) PROVE x \in Entries(s) \cup Entries(t)
    <3>1. PICK k \in 1 .. (m + l) : x = r[k]
      BY <1>1, <2>1 DEF Entries
    <3>2. CASE k \in 1 .. m
      BY <1>1, <3>1, <3>2 DEF Entries
    <3>3. CASE k \notin 1 .. m
      <4>1. k - m \in 1 .. l /\ x = t[k - m]
        BY <1>1, <3>1, <3>3
      <4> QED BY <1>1, <4>1 DEF Entries
    <3> QED BY <3>2, <3>3
  <2>2. ASSUME x \in Entries(s) PROVE x \in Entries(r)
    <3>1. PICK k \in 1 .. m : x = s[k]
      BY <1>1, <2>2 DEF Entries
    <3> QED BY <1>1, <1>2, <3>1 DEF Entries
  <2>3. ASSUME x \in Entries(t) PROVE x \in Entries(r)
    <3>1. PICK k \in 1 .. l : x = t[k]
      BY <1>1, <2>3 DEF Entries
    <3> QED BY <1>1, <3>1 DEF Entries
  <2> QED BY <2>1, <2>2, <2>3
<1> QED BY <1>1, <1>4, <1>5 DEF r, m, l

-----------------------------------------------------------------------------
\* What the steps do to the contents of the queues.
\* Nothing of queue q changes that the driver and the device hand each other.
Same(q) ==
  /\ mem'[q] = mem[q] /\ drv'[q] = drv[q]
  /\ dev'[q].seen = dev[q].seen /\ dev'[q].taken = dev[q].taken

LEMMA Kept == ASSUME UNCHANGED <<mem, drv, dev>> PROVE Same("tx") /\ Same("rx")
  BY DEF Same

LEMMA FillRxDoes ==
  ASSUME ShapeOK, FillRx
  PROVE  /\ Same("tx") /\ mem["rx"].avail < Num
         /\ mem'["rx"].next = mem["rx"].next /\ mem'["rx"].used = mem["rx"].used
         /\ mem'["rx"].used_idx = mem["rx"].used_idx /\ mem'["rx"].avail = Inc(mem["rx"].avail)
         /\ mem'["rx"].addr = [mem["rx"].addr EXCEPT ![drv["rx"].free_head] = mem["rx"].avail + 1]
         /\ mem'["rx"].ring = [mem["rx"].ring EXCEPT ![mem["rx"].avail % Num] = drv["rx"].free_head]
         /\ drv'["rx"].free_head = mem["rx"].next[drv["rx"].free_head]
         /\ drv'["rx"].used_idx = drv["rx"].used_idx
         /\ UNCHANGED <<boot, dev>>
  BY DEF FillRx, Same, ShapeOK, MemShape, DrvShape, Queues

LEMMA AddDescDoes ==
  ASSUME ShapeOK, AddDesc
  PROVE  /\ call.q \in Queues /\ pc = "add_desc" /\ pc' = "add_ring"
         /\ \A r \in Queues \ {call.q} : Same(r)
         /\ mem'[call.q].next = mem[call.q].next /\ mem'[call.q].used = mem[call.q].used
         /\ mem'[call.q].ring = mem[call.q].ring
         /\ mem'[call.q].used_idx = mem[call.q].used_idx /\ mem'[call.q].avail = mem[call.q].avail
         /\ mem'[call.q].addr = [mem[call.q].addr EXCEPT ![drv[call.q].free_head] = call.buf]
         /\ drv'[call.q].free_head = mem[call.q].next[drv[call.q].free_head]
         /\ drv'[call.q].used_idx = drv[call.q].used_idx
         /\ call'.q = call.q /\ call'.head = drv[call.q].free_head /\ call'.buf = call.buf
         /\ UNCHANGED <<boot, dev, live, isr, buffer, net>>
  BY DEF AddDesc, Same, ShapeOK, MemShape, DrvShape, CallShape

LEMMA AddRingDoes ==
  ASSUME ShapeOK, AddRing
  PROVE  /\ call.q \in Queues /\ pc = "add_ring" /\ pc' = "add_idx"
         /\ \A r \in Queues \ {call.q} : Same(r)
         /\ mem'[call.q].next = mem[call.q].next /\ mem'[call.q].used = mem[call.q].used
         /\ mem'[call.q].addr = mem[call.q].addr
         /\ mem'[call.q].used_idx = mem[call.q].used_idx /\ mem'[call.q].avail = mem[call.q].avail
         /\ mem'[call.q].ring = [mem[call.q].ring EXCEPT ![mem[call.q].avail % Num] = call.head]
         /\ UNCHANGED <<boot, drv, dev, live, isr, call, buffer, net>>
  BY DEF AddRing, Same, ShapeOK, MemShape, CallShape

LEMMA AddIdxTxDoes ==
  ASSUME ShapeOK, AddIdxTx
  PROVE  /\ pc = "add_idx" /\ call.q = "tx" /\ pc' = "kick" /\ Same("rx")
         /\ mem'["tx"].next = mem["tx"].next /\ mem'["tx"].used = mem["tx"].used
         /\ mem'["tx"].ring = mem["tx"].ring /\ mem'["tx"].addr = mem["tx"].addr
         /\ mem'["tx"].used_idx = mem["tx"].used_idx /\ mem'["tx"].avail = Inc(mem["tx"].avail)
         /\ UNCHANGED <<boot, drv, dev, live, isr, call, buffer, net>>
  BY DEF AddIdxTx, Same, ShapeOK, MemShape, Queues

LEMMA AddIdxRxDoes ==
  ASSUME ShapeOK, AddIdxRx
  PROVE  /\ pc = "add_idx" /\ call.q = "rx" /\ pc' = "reap_rx" /\ Same("tx")
         /\ mem'["rx"].next = mem["rx"].next /\ mem'["rx"].used = mem["rx"].used
         /\ mem'["rx"].ring = mem["rx"].ring /\ mem'["rx"].addr = mem["rx"].addr
         /\ mem'["rx"].used_idx = mem["rx"].used_idx /\ mem'["rx"].avail = Inc(mem["rx"].avail)
         /\ drv'["rx"].free_head = drv["rx"].free_head
         /\ drv'["rx"].used_idx = Inc(drv["rx"].used_idx)
         /\ UNCHANGED <<boot, dev, live, isr, call, buffer, net>>
  BY DEF AddIdxRx, Same, ShapeOK, MemShape, DrvShape, Queues

LEMMA ReapTxDoes ==
  ASSUME ShapeOK, ReapTx
  PROVE  /\ pc = "reap_tx" /\ pc' = "reap_tx" /\ Same("rx")
         /\ mem'["tx"].next = [mem["tx"].next EXCEPT
                ![mem["tx"].used[drv["tx"].used_idx % Num]] = drv["tx"].free_head]
         /\ mem'["tx"].used = mem["tx"].used /\ mem'["tx"].ring = mem["tx"].ring
         /\ mem'["tx"].addr = mem["tx"].addr
         /\ mem'["tx"].used_idx = mem["tx"].used_idx /\ mem'["tx"].avail = mem["tx"].avail
         /\ drv'["tx"].free_head = mem["tx"].used[drv["tx"].used_idx % Num]
         /\ drv'["tx"].used_idx = Inc(drv["tx"].used_idx)
         /\ UNCHANGED <<boot, dev, live, isr, call, buffer, net>>
  BY DEF ReapTx, Same, ShapeOK, MemShape, DrvShape, Queues

LEMMA TransmitDoes ==
  ASSUME ShapeOK, DevTransmit
  PROVE  /\ Same("rx") /\ live /\ dev["tx"].seen # mem["tx"].avail
         /\ dev'["tx"].seen = Inc(dev["tx"].seen)
         /\ dev'["tx"].taken = Append(dev["tx"].taken, mem["tx"].ring[dev["tx"].seen % Num])
         /\ wire' = Append(wire, mem["tx"].addr[mem["tx"].ring[dev["tx"].seen % Num]])
         /\ UNCHANGED <<boot, pc, mem, drv, live, isr, call, buffer, stored, sent, delivered>>
  BY DEF DevTransmit, Offered, Offer, Same, ShapeOK, DevShape, Queues

LEMMA ReceiveDoes ==
  ASSUME ShapeOK, DevReceive
  PROVE  /\ Same("tx") /\ live /\ dev["rx"].seen # mem["rx"].avail
         /\ dev'["rx"].seen = Inc(dev["rx"].seen)
         /\ dev'["rx"].taken = Append(dev["rx"].taken, mem["rx"].ring[dev["rx"].seen % Num])
         /\ stored' = stored + 1
         /\ buffer' = [buffer EXCEPT
                ![mem["rx"].addr[mem["rx"].ring[dev["rx"].seen % Num]]] = stored + 1]
         /\ UNCHANGED <<boot, pc, mem, drv, live, isr, call, sent, wire, delivered>>
  BY DEF DevReceive, Offered, Offer, Same, ShapeOK, DevShape, Queues

LEMMA CompleteDoes ==
  ASSUME ShapeOK, NEW q \in Queues, DevComplete(q)
  PROVE  \E n \in 1 .. Len(dev[q].taken) :
           /\ q \notin Reorders => n = 1
           /\ \A r \in Queues \ {q} : Same(r)
           /\ dev'[q].seen = dev[q].seen /\ dev'[q].taken = Without(dev[q].taken, n)
           /\ mem'[q].next = mem[q].next /\ mem'[q].addr = mem[q].addr
           /\ mem'[q].ring = mem[q].ring /\ mem'[q].avail = mem[q].avail
           /\ mem'[q].used = [mem[q].used EXCEPT ![mem[q].used_idx % Num] = dev[q].taken[n]]
           /\ mem'[q].used_idx = Inc(mem[q].used_idx)
           /\ UNCHANGED <<boot, pc, drv, live, isr, call, buffer, net>>
<1>1. PICK n \in 1 .. Len(dev[q].taken) :
        /\ q \notin Reorders => n = 1
        /\ mem' = [mem EXCEPT ![q].used[mem[q].used_idx % Num] = dev[q].taken[n],
                              ![q].used_idx = Inc(@)]
        /\ dev' = [dev EXCEPT ![q].taken = Without(dev[q].taken, n), ![q].unsignalled = @ + 1]
  BY DEF DevComplete, Without
<1>2. UNCHANGED <<boot, pc, drv, live, isr, call, buffer, net>>
  BY DEF DevComplete
<1> QED BY <1>1, <1>2 DEF Same, ShapeOK, MemShape, DevShape

\* The other steps leave the queues' contents alone, and do not come between the
\* driver and a descriptor it is about to offer.
Adds == {"add_desc", "add_ring", "add_idx"}

Quiet ==
  /\ Same("tx") /\ Same("rx") /\ UNCHANGED <<buffer, stored, sent, wire, delivered>>
  /\ \/ UNCHANGED <<boot, pc, call>>
     \/ pc \notin Adds /\ pc' \notin Adds /\ call'.head \in {call.head, 0}
  /\ boot = "fill" /\ boot' # "fill" => mem["rx"].avail = Num
  /\ boot' = "fill" => boot = "fill"

LEMMA DriverQuiet ==
  ASSUME ShapeOK, \/ FillDone \/ EnableDevice \/ UnmaskIrq \/ Kick \/ ReadIsr \/ SnapTx \/ SnapRx
                  \/ ReapTxDone \/ IrqReturn \/ UNCHANGED vars
  PROVE  /\ Quiet /\ live' \in {live, TRUE} /\ isr' \in {isr, FALSE}
         /\ boot' \in {boot, "enable", "unmask", "done"}
         /\ pc' \in {pc, "idle", "snap_tx", "snap_rx", "reap_tx", "reap_rx"}
<1> USE DEF Quiet, Same, Adds, net
<1>1. CASE FillDone \/ EnableDevice \/ UnmaskIrq \/ ReapTxDone
  BY <1>1 DEF FillDone, EnableDevice, UnmaskIrq, ReapTxDone, BootRuns
<1>2. CASE Kick
  <2>1. /\ pc = "kick" /\ pc' = "idle" /\ call' = NoCall
        /\ UNCHANGED <<boot, mem, drv, live, isr, buffer, stored, sent, wire, delivered>>
        /\ \A q \in Queues : dev'[q].seen = dev[q].seen /\ dev'[q].taken = dev[q].taken
    BY <1>2 DEF Kick, ShapeOK, DevShape
  <2> QED BY <2>1 DEF NoCall, Queues
<1>3. CASE ReadIsr
  BY <1>3 DEF ReadIsr, BootRuns
<1>6. CASE IrqReturn
  BY <1>6 DEF IrqReturn, NoCall
<1>4. CASE SnapTx \/ SnapRx
  BY <1>4 DEF SnapTx, SnapRx, ShapeOK, CallShape
<1>5. CASE UNCHANGED vars
  BY <1>5 DEF vars
<1> QED BY <1>1, <1>2, <1>3, <1>4, <1>5, <1>6

LEMMA DeviceQuiet ==
  ASSUME ShapeOK, NEW q \in Queues, FrameArrives \/ DevSignal(q) \/ DevRests(q)
  PROVE  Quiet /\ boot' = boot /\ pc' = pc /\ call' = call /\ live' = live /\ (isr \in BOOLEAN => isr' \in BOOLEAN)
<1> USE DEF Quiet, Same, Adds, net
<1>1. CASE FrameArrives
  BY <1>1 DEF FrameArrives
<1>2. CASE DevSignal(q)
  <2>1. \A r \in Queues : dev'[r].seen = dev[r].seen /\ dev'[r].taken = dev[r].taken
    BY <1>2 DEF DevSignal, ShapeOK, DevShape
  <2>2. isr' \in BOOLEAN
    <3> DEFINE asked == dev[q].event_idx => (mem[q].used_idx - 1) % IdxMod < dev[q].unsignalled
    <3>1. isr' = (isr \/ asked)
      BY <1>2, Zenon DEF DevSignal
    <3> HIDE DEF asked
    <3> QED BY <3>1
  <2> QED BY <1>2, <2>1, <2>2 DEF DevSignal, Queues
<1>3. CASE DevRests(q)
  <2>1. \A r \in Queues : dev'[r].seen = dev[r].seen /\ dev'[r].taken = dev[r].taken
    BY <1>3 DEF DevRests, ShapeOK, DevShape
  <2> QED BY <1>3, <2>1 DEF DevRests, Queues
<1> QED BY <1>1, <1>2, <1>3

\* A packet to send, and a frame that has come in, set the driver to add a buffer.
LEMMA SendDoes ==
  ASSUME ShapeOK, Send
  PROVE  /\ Same("tx") /\ Same("rx") /\ pc = "idle" /\ pc' = "add_desc"
         /\ sent' = sent + 1 /\ call'.q = "tx" /\ call'.buf = sent + 1 /\ call'.head = 0
         /\ UNCHANGED <<boot, live, isr, buffer, stored, wire, delivered>>
  BY DEF Send, NoCall, Same

LEMMA ReapRxDoes ==
  ASSUME ShapeOK, ReapRx
  PROVE  /\ Same("tx") /\ Same("rx") /\ pc = "reap_rx" /\ pc' = "add_desc"
         /\ drv["rx"].used_idx # call.rx
         /\ delivered' = Append(delivered, buffer[mem["rx"].used[drv["rx"].used_idx % Num] + 1])
         /\ call'.q = "rx" /\ call'.head = call.head
         /\ call'.buf = mem["rx"].used[drv["rx"].used_idx % Num] + 1
         /\ UNCHANGED <<boot, live, isr, buffer, stored, sent, wire>>
  BY DEF ReapRx, Same, ShapeOK, CallShape

-----------------------------------------------------------------------------
\* Types are kept.
KindOf(q) ==
  /\ mem[q].next \in [Slots -> Slots] /\ mem[q].ring \in [Slots -> Slots]
  /\ mem[q].used \in [Slots -> Slots] /\ DOMAIN mem[q].addr = Slots
  /\ mem[q].avail \in Idx /\ mem[q].used_idx \in Idx
  /\ drv[q].free_head \in Slots /\ drv[q].used_idx \in Idx
  /\ dev[q].seen \in Idx /\ dev[q].taken \in Seq(Slots)

Steps == {"fill", "enable", "unmask", "done"}

Places == {"idle", "add_desc", "add_ring", "add_idx", "kick",
           "snap_tx", "snap_rx", "reap_tx", "reap_rx"}

Kinds ==
  /\ KindOf("rx") /\ KindOf("tx") /\ call.head \in Slots
  /\ boot \in Steps /\ pc \in Places /\ live \in BOOLEAN /\ isr \in BOOLEAN

LEMMA KindsInit == Init => Kinds
<1> SUFFICES ASSUME Init PROVE Kinds
  OBVIOUS
<1>1. 0 \in Slots /\ 0 \in Idx /\ \A d \in Slots : d < Num - 1 => d + 1 \in Slots
  BY Sizes DEF Slots, Idx
<1>2. \A q \in Queues : KindOf(q)
  <2> TAKE q \in Queues
  <2>1. mem[q] = EmptyQueue /\ drv[q].free_head = 0 /\ drv[q].used_idx = 0
    BY DEF Init
  <2>2. dev[q].seen = 0 /\ dev[q].taken = <<>>
    BY DEF Init
  <2>3. /\ EmptyQueue.next \in [Slots -> Slots] /\ EmptyQueue.ring \in [Slots -> Slots]
        /\ EmptyQueue.used \in [Slots -> Slots] /\ DOMAIN EmptyQueue.addr = Slots
        /\ EmptyQueue.avail = 0 /\ EmptyQueue.used_idx = 0
    BY <1>1 DEF EmptyQueue
  <2>4. <<>> \in Seq(Slots)
    OBVIOUS
  <2> QED BY <1>1, <2>1, <2>2, <2>3, <2>4 DEF KindOf
<1> QED BY <1>1, <1>2 DEF Kinds, Init, NoCall, Steps, Places, Queues

LEMMA KindSame == ASSUME NEW q, KindOf(q), Same(q) PROVE KindOf(q)'
  BY DEF KindOf, Same

LEMMA KindsQuiet ==
  ASSUME Kinds, Quiet, boot' \in Steps, pc' \in Places, live' \in BOOLEAN, isr' \in BOOLEAN
  PROVE  Kinds'
<1>1. call'.head \in Slots
  BY Sizes DEF Quiet, Kinds, Slots
<1> QED BY <1>1, KindSame DEF Kinds, Quiet

LEMMA KindsDriver ==
  ASSUME RingInv, Kinds, \/ FillRx \/ Send \/ AddDesc \/ AddRing \/ AddIdxTx \/ AddIdxRx
                         \/ ReapTx \/ ReapRx
  PROVE  Kinds'
<1> USE DEF Kinds
<1>0. ShapeOK /\ \A x \in Idx : x % Num \in Slots /\ Inc(x) \in Idx
  BY SlotOf, IncIs DEF RingInv, Idx
<1>1. CASE FillRx
  <2>1. UNCHANGED <<boot, pc, live, isr, call>>
    BY <1>1 DEF FillRx
  <2>2. KindOf("rx")'
    <3> DEFINE d == drv["rx"].free_head
               ring == [mem["rx"].ring EXCEPT ![mem["rx"].avail % Num] = d]
    <3>1. /\ dev' = dev
          /\ mem'["rx"].next = mem["rx"].next /\ mem'["rx"].used = mem["rx"].used
          /\ mem'["rx"].used_idx = mem["rx"].used_idx /\ mem'["rx"].avail = Inc(mem["rx"].avail)
          /\ mem'["rx"].addr = [mem["rx"].addr EXCEPT ![d] = mem["rx"].avail + 1]
          /\ mem'["rx"].ring = ring
          /\ drv'["rx"].free_head = mem["rx"].next[d] /\ drv'["rx"].used_idx = drv["rx"].used_idx
      BY <1>0, <1>1, FillRxDoes
    <3>2. ring \in [Slots -> Slots] /\ mem["rx"].next[d] \in Slots
      BY <1>0 DEF KindOf
    <3> HIDE DEF d, ring
    <3> QED BY <1>0, <3>1, <3>2 DEF KindOf
  <2> QED BY <1>0, <1>1, <2>1, <2>2, FillRxDoes, KindSame
<1>2. CASE Send
  <2>1. 0 \in Slots
    BY Sizes DEF Slots
  <2> QED BY <1>0, <1>2, <2>1, SendDoes, KindSame DEF Places
<1>3. CASE AddDesc
  <2>1. \A r \in Queues : KindOf(r)
    BY DEF Queues
  <2>2. KindOf(call.q)'
    BY <1>0, <1>3, <2>1, AddDescDoes DEF KindOf
  <2>3. \A r \in Queues : KindOf(r)'
    BY <1>0, <1>3, <2>1, <2>2, AddDescDoes, KindSame
  <2>4. call'.head \in Slots
    BY <1>0, <1>3, <2>1, AddDescDoes DEF KindOf
  <2> QED BY <1>0, <1>3, <2>3, <2>4, AddDescDoes DEF Places, Queues
<1>4. CASE AddRing
  <2>1. \A r \in Queues : KindOf(r)
    BY DEF Queues
  <2>2. KindOf(call.q)'
    <3> DEFINE q == call.q
               ring == [mem[q].ring EXCEPT ![mem[q].avail % Num] = call.head]
    <3>1. /\ q \in Queues /\ UNCHANGED <<drv, dev, call>>
          /\ mem'[q].next = mem[q].next /\ mem'[q].used = mem[q].used /\ mem'[q].addr = mem[q].addr
          /\ mem'[q].used_idx = mem[q].used_idx /\ mem'[q].avail = mem[q].avail
          /\ mem'[q].ring = ring
      BY <1>0, <1>4, AddRingDoes
    <3>2. ring \in [Slots -> Slots]
      BY <1>0, <2>1, <3>1 DEF KindOf
    <3> HIDE DEF ring
    <3> QED BY <2>1, <3>1, <3>2 DEF KindOf
  <2>3. \A r \in Queues : KindOf(r)'
    BY <1>0, <1>4, <2>1, <2>2, AddRingDoes, KindSame
  <2> QED BY <1>0, <1>4, <2>3, AddRingDoes DEF Places, Queues
<1>5. CASE AddIdxTx
  <2>1. KindOf("tx")'
    BY <1>0, <1>5, AddIdxTxDoes DEF KindOf
  <2> QED BY <1>0, <1>5, <2>1, AddIdxTxDoes, KindSame DEF Places
<1>6. CASE AddIdxRx
  <2>1. KindOf("rx")'
    BY <1>0, <1>6, AddIdxRxDoes DEF KindOf
  <2> QED BY <1>0, <1>6, <2>1, AddIdxRxDoes, KindSame DEF Places
<1>7. CASE ReapTx
  <2>1. KindOf("tx")'
    BY <1>0, <1>7, ReapTxDoes DEF KindOf
  <2> QED BY <1>0, <1>7, <2>1, ReapTxDoes, KindSame DEF Places
<1>8. CASE ReapRx
  BY <1>0, <1>8, ReapRxDoes, KindSame DEF Places
<1> QED BY <1>1, <1>2, <1>3, <1>4, <1>5, <1>6, <1>7, <1>8

LEMMA KindsDevice ==
  ASSUME RingInv, Kinds, NEW q \in Queues, DevTransmit \/ DevReceive \/ DevComplete(q)
  PROVE  Kinds'
<1> USE DEF Kinds
<1>0. ShapeOK /\ \A x \in Idx : x % Num \in Slots /\ Inc(x) \in Idx
  BY SlotOf, IncIs DEF RingInv, Idx
<1>1. CASE DevTransmit
  <2>1. KindOf("tx")'
    <3> DEFINE x == mem["tx"].ring[dev["tx"].seen % Num]
    <3>1. x \in Slots
      BY <1>0 DEF KindOf
    <3>2. /\ mem' = mem /\ drv' = drv /\ dev'["tx"].seen = Inc(dev["tx"].seen)
          /\ dev'["tx"].taken = Append(dev["tx"].taken, x)
      BY <1>0, <1>1, TransmitDoes
    <3> HIDE DEF x
    <3>3. Append(dev["tx"].taken, x) \in Seq(Slots)
      BY <3>1 DEF KindOf
    <3> QED BY <1>0, <3>2, <3>3 DEF KindOf
  <2> QED BY <1>0, <1>1, <2>1, TransmitDoes, KindSame
<1>2. CASE DevReceive
  <2>1. KindOf("rx")'
    <3> DEFINE x == mem["rx"].ring[dev["rx"].seen % Num]
    <3>1. x \in Slots
      BY <1>0 DEF KindOf
    <3>2. /\ mem' = mem /\ drv' = drv /\ dev'["rx"].seen = Inc(dev["rx"].seen)
          /\ dev'["rx"].taken = Append(dev["rx"].taken, x)
      BY <1>0, <1>2, ReceiveDoes
    <3> HIDE DEF x
    <3>3. Append(dev["rx"].taken, x) \in Seq(Slots)
      BY <3>1 DEF KindOf
    <3> QED BY <1>0, <3>2, <3>3 DEF KindOf
  <2> QED BY <1>0, <1>2, <2>1, ReceiveDoes, KindSame
<1>3. CASE DevComplete(q)
  <2>1. \A r \in Queues : KindOf(r)
    BY DEF Queues
  <2>2. PICK n \in 1 .. Len(dev[q].taken) :
           /\ \A r \in Queues \ {q} : Same(r)
           /\ dev'[q].seen = dev[q].seen /\ dev'[q].taken = Without(dev[q].taken, n)
           /\ mem'[q].next = mem[q].next /\ mem'[q].addr = mem[q].addr
           /\ mem'[q].ring = mem[q].ring /\ mem'[q].avail = mem[q].avail
           /\ mem'[q].used = [mem[q].used EXCEPT ![mem[q].used_idx % Num] = dev[q].taken[n]]
           /\ mem'[q].used_idx = Inc(mem[q].used_idx)
           /\ UNCHANGED <<boot, pc, drv, live, isr, call>>
    BY <1>0, <1>3, CompleteDoes
  <2>3. dev[q].taken[n] \in Slots /\ Without(dev[q].taken, n) \in Seq(Slots)
    <3>1. dev[q].taken \in Seq(Slots)
      BY <2>1 DEF KindOf
    <3> QED BY <3>1, WithoutIs
  <2>4. KindOf(q)'
    BY <1>0, <2>1, <2>2, <2>3 DEF KindOf
  <2>5. \A r \in Queues : KindOf(r)'
    BY <2>1, <2>2, <2>4, KindSame
  <2> QED BY <2>2, <2>5 DEF Queues
<1> QED BY <1>1, <1>2, <1>3

-----------------------------------------------------------------------------
\* Who has the descriptors of the TX queue. The driver has taken one off the free
\* list and not offered it yet, and the free list d: the one taken, then the chain
\* from free_head.
Holding(q) == pc \in {"add_ring", "add_idx"} /\ call.q = q

First == IF Holding("tx") THEN 2 ELSE 1

Links(d) ==
  /\ Holding("tx") => d # <<>> /\ d[1] = call.head
  /\ First <= Len(d) => d[First] = drv["tx"].free_head
  /\ \A n \in First .. (Len(d) - 1) : d[n + 1] = mem["tx"].next[d[n]]

\* Four places, and no descriptor twice.
Owned(s, t, u, v) ==
  /\ Distinct(s) /\ Distinct(t) /\ Distinct(u) /\ Distinct(v)
  /\ Entries(s) \cap Entries(t) = {} /\ Entries(s) \cap Entries(u) = {}
  /\ Entries(s) \cap Entries(v) = {} /\ Entries(t) \cap Entries(u) = {}
  /\ Entries(t) \cap Entries(v) = {} /\ Entries(u) \cap Entries(v) = {}

TxOwned ==
  \E d \in Seq(Slots) : /\ Len(d) = Num - Out("tx") /\ Links(d)
                        /\ Owned(Unseen("tx"), dev["tx"].taken, Unreaped("tx"), d)

\* The one it is about to publish is in its place.
TxRing == pc = "add_idx" /\ call.q = "tx" => mem["tx"].ring[mem["tx"].avail % Num] = call.head

\* The sequences of a queue, and their lengths.
LEMMA Parts ==
  ASSUME RingInv, NEW q \in Queues, KindOf(q)
  PROVE  /\ Unseen(q) \in Seq(Slots) /\ Len(Unseen(q)) = Behind(dev[q].seen, mem[q].avail)
         /\ dev[q].taken \in Seq(Slots) /\ Len(dev[q].taken) = Behind(mem[q].used_idx, dev[q].seen)
         /\ Unreaped(q) \in Seq(Slots)
         /\ Len(Unreaped(q)) = Behind(drv[q].used_idx, mem[q].used_idx)
         /\ Out(q) = Len(Unreaped(q)) + Len(dev[q].taken) + Len(Unseen(q))
         /\ Out(q) \in Nat /\ Out(q) <= Num
<1>1. /\ ShapeOK /\ Len(dev[q].taken) = Behind(mem[q].used_idx, dev[q].seen) /\ Out(q) <= Num
  BY DEF RingInv, QueueOK
<1>2. /\ Unseen(q) \in Seq(Slots) /\ Len(Unseen(q)) = Behind(dev[q].seen, mem[q].avail)
  <2>1. dev[q].seen \in Idx /\ mem[q].avail \in Idx /\ mem[q].ring \in [Slots -> Slots]
    BY DEF KindOf
  <2> QED BY <2>1, SpanIs, Zenon DEF Unseen
<1>3. /\ Unreaped(q) \in Seq(Slots)
      /\ Len(Unreaped(q)) = Behind(drv[q].used_idx, mem[q].used_idx)
  <2>1. drv[q].used_idx \in Idx /\ mem[q].used_idx \in Idx /\ mem[q].used \in [Slots -> Slots]
    BY DEF KindOf
  <2> QED BY <2>1, SpanIs, Zenon DEF Unreaped
<1>4. Out(q) = Len(Unreaped(q)) + Len(dev[q].taken) + Len(Unseen(q)) /\ Out(q) \in Nat
  BY <1>1, <1>2, <1>3, OutType DEF Out
<1> QED BY <1>1, <1>2, <1>3, <1>4 DEF KindOf

LEMMA TxInit == ASSUME Init PROVE TxOwned /\ TxRing
<1> DEFINE d == [n \in 1 .. Num |-> n - 1]
<1>1. d \in Seq(Slots) /\ Len(d) = Num /\ DOMAIN d = 1 .. Num
  BY Sizes DEF Slots
<1>2. Links(d)
  <2>1. pc = "idle" /\ drv["tx"].free_head = 0
        /\ mem["tx"].next = [x \in Slots |-> IF x < Num - 1 THEN x + 1 ELSE 0]
    BY DEF Init, EmptyQueue, Queues
  <2>2. First = 1 /\ ~ Holding("tx")
    BY <2>1 DEF First, Holding
  <2>3. d[1] = 0
    BY Sizes
  <2>4. ASSUME NEW n \in 1 .. (Num - 1) PROVE d[n + 1] = mem["tx"].next[d[n]]
    <3>1. d[n] = n - 1 /\ d[n + 1] = n /\ n - 1 \in Slots /\ n - 1 < Num - 1
      BY Sizes DEF Slots
    <3> HIDE DEF d
    <3> QED BY <2>1, <3>1, Sizes
  <2> HIDE DEF d
  <2> QED BY <1>1, <2>1, <2>2, <2>3, <2>4 DEF Links
<1>3. RingInv /\ Kinds
  BY RingInit, KindsInit
<1>4. /\ mem["tx"].avail = 0 /\ mem["tx"].used_idx = 0 /\ drv["tx"].used_idx = 0
      /\ dev["tx"].seen = 0 /\ dev["tx"].taken = <<>>
  BY DEF Init, EmptyQueue, Queues
<1>5. Behind(0, 0) = 0
  BY BehindType, Sizes
<1>6. /\ Unseen("tx") = <<>> /\ Unreaped("tx") = <<>> /\ Out("tx") = 0
  <2>1. /\ Unseen("tx") \in Seq(Slots) /\ Len(Unseen("tx")) = Behind(0, 0)
        /\ Unreaped("tx") \in Seq(Slots) /\ Len(Unreaped("tx")) = Behind(0, 0)
        /\ Out("tx") = Len(Unreaped("tx")) + Len(<<>>) + Len(Unseen("tx"))
    <3>1. KindOf("tx") /\ "tx" \in Queues
      BY <1>3 DEF Kinds, Queues
    <3> QED BY <1>3, <1>4, <3>1, Parts
  <2> QED BY <1>5, <2>1
<1>7. Distinct(d)
  BY <1>1 DEF Distinct
<1> HIDE DEF d
<1>8. Owned(<<>>, <<>>, <<>>, d)
  BY <1>1, <1>7 DEF Owned, Distinct, Entries
<1>9. TxRing
  BY DEF Init, TxRing
<1>10. Len(d) = Num - Out("tx")
  BY <1>1, <1>6, Sizes
<1> QED BY <1>1, <1>2, <1>4, <1>6, <1>8, <1>9, <1>10 DEF TxOwned

\* Nothing happens to the queue.
HoldsSame(q) ==
  /\ Holding(q)' <=> Holding(q)
  /\ Holding(q) => pc' = pc /\ call'.head = call.head

LEMMA PartsSame ==
  ASSUME NEW q, Same(q)
  PROVE  /\ Unseen(q)' = Unseen(q) /\ Unreaped(q)' = Unreaped(q)
         /\ dev'[q].taken = dev[q].taken /\ Out(q)' = Out(q)
  BY DEF Same, Unseen, Unreaped, Span, Behind, Out

LEMMA TxKept ==
  ASSUME TxOwned, TxRing, Same("tx"), HoldsSame("tx")
  PROVE  TxOwned' /\ TxRing'
<1>1. PICK d \in Seq(Slots) : /\ Len(d) = Num - Out("tx") /\ Links(d)
                              /\ Owned(Unseen("tx"), dev["tx"].taken, Unreaped("tx"), d)
  BY DEF TxOwned
<1>2. Links(d)'
  BY <1>1 DEF Links, First, Same, HoldsSame
<1>3. TxOwned'
  BY <1>1, <1>2, PartsSame DEF TxOwned
<1>4. TxRing'
  BY DEF TxRing, Same, HoldsSame, Holding
<1> QED BY <1>3, <1>4

LEMMA QuietHolds == ASSUME Quiet, NEW q PROVE HoldsSame(q)
  BY DEF Quiet, HoldsSame, Holding, Adds

\* A packet being added has room.
LEMMA TxRoom ==
  ASSUME RingInv, Adding("tx")
  PROVE  /\ Out("tx") < Num /\ Out("tx") \in Nat /\ Behind(dev["tx"].seen, mem["tx"].avail) \in Nat
         /\ Behind(dev["tx"].seen, mem["tx"].avail) <= Out("tx")
<1>1. Out("tx") < Num
  BY DEF RingInv, RoomOK
<1>2. /\ Out("tx") \in Nat /\ Behind(dev["tx"].seen, mem["tx"].avail) \in Nat
      /\ Behind(dev["tx"].seen, mem["tx"].avail) <= Out("tx")
  BY OutType DEF RingInv, Out, Queues
<1> QED BY <1>1, <1>2

\* The driver takes a descriptor off the free list.
LEMMA TxAddDesc ==
  ASSUME RingInv, Kinds, TxOwned, TxRing, AddDesc, call.q = "tx"
  PROVE  TxOwned' /\ TxRing'
<1> DEFINE fh == drv["tx"].free_head
           next == mem["tx"].next
<1>1. /\ pc = "add_desc" /\ pc' = "add_ring" /\ call'.q = "tx" /\ call'.head = fh
      /\ mem'["tx"].next = next /\ mem'["tx"].used = mem["tx"].used
      /\ mem'["tx"].ring = mem["tx"].ring /\ mem'["tx"].avail = mem["tx"].avail
      /\ mem'["tx"].used_idx = mem["tx"].used_idx
      /\ drv'["tx"].free_head = next[fh] /\ drv'["tx"].used_idx = drv["tx"].used_idx
      /\ dev' = dev
  BY AddDescDoes DEF RingInv
<1>2. PICK d \in Seq(Slots) : /\ Len(d) = Num - Out("tx") /\ Links(d)
                              /\ Owned(Unseen("tx"), dev["tx"].taken, Unreaped("tx"), d)
  BY DEF TxOwned
<1>3. Out("tx") < Num /\ Out("tx") \in Nat
  BY <1>1, TxRoom DEF Adding
<1>4. /\ Unseen("tx")' = Unseen("tx") /\ Unreaped("tx")' = Unreaped("tx")
      /\ Out("tx")' = Out("tx")
  BY <1>1 DEF Unseen, Unreaped, Span, Behind, Out
<1>5. First = 1 /\ First' = 2 /\ Holding("tx")'
  BY <1>1 DEF First, Holding
<1>6. Len(d) \in Nat /\ Len(d) >= 1 /\ d # <<>>
  BY <1>2, <1>3, Sizes
<1>7. /\ d[1] = fh /\ \A n \in 1 .. (Len(d) - 1) : d[n + 1] = next[d[n]]
  BY <1>2, <1>5, <1>6 DEF Links
<1> HIDE DEF fh, next
<1>8. Links(d)'
  <2>1. 2 <= Len(d) => d[2] = next[fh]
    <3> SUFFICES ASSUME 2 <= Len(d) PROVE d[2] = next[fh]
      OBVIOUS
    <3>1. 1 \in 1 .. (Len(d) - 1)
      BY <1>6
    <3>2. d[1 + 1] = next[d[1]]
      BY <1>7, <3>1
    <3> QED BY <1>7, <3>2
  <2>2. \A n \in 2 .. (Len(d) - 1) : d[n + 1] = next[d[n]]
    BY <1>6, <1>7
  <2> QED BY <1>1, <1>5, <1>6, <1>7, <2>1, <2>2 DEF Links
<1>9. TxRing'
  BY <1>1 DEF TxRing
<1> QED BY <1>1, <1>2, <1>4, <1>8, <1>9 DEF TxOwned

\* It writes the ring entry that comes next, which nobody reads yet.
LEMMA TxAddRing ==
  ASSUME RingInv, Kinds, TxOwned, TxRing, AddRing, call.q = "tx"
  PROVE  TxOwned' /\ TxRing' /\ Unseen("tx")' = Unseen("tx")
<1> DEFINE a == mem["tx"].avail
<1>1. /\ pc = "add_ring" /\ pc' = "add_idx"
      /\ mem'["tx"].next = mem["tx"].next /\ mem'["tx"].used = mem["tx"].used
      /\ mem'["tx"].avail = a /\ mem'["tx"].used_idx = mem["tx"].used_idx
      /\ mem'["tx"].ring = [mem["tx"].ring EXCEPT ![a % Num] = call.head]
      /\ drv' = drv /\ dev' = dev /\ call' = call
  BY AddRingDoes DEF RingInv
<1>2. PICK d \in Seq(Slots) : /\ Len(d) = Num - Out("tx") /\ Links(d)
                              /\ Owned(Unseen("tx"), dev["tx"].taken, Unreaped("tx"), d)
  BY DEF TxOwned
<1>3. Behind(dev["tx"].seen, a) < Num
  BY <1>1, Sizes, TxRoom DEF Adding
<1>4. /\ mem["tx"].ring \in [Slots -> Slots] /\ call.head \in Slots
      /\ a \in Idx /\ dev["tx"].seen \in Idx
  BY DEF Kinds, KindOf
<1>5. Unseen("tx")' = Unseen("tx")
  BY <1>1, <1>3, <1>4, SpanStays DEF Unseen
<1>6. Unreaped("tx")' = Unreaped("tx") /\ Out("tx")' = Out("tx")
  BY <1>1 DEF Unreaped, Span, Behind, Out
<1>7. Links(d)'
  BY <1>1, <1>2 DEF Links, First, Holding
<1>8. TxRing'
  <2>1. a % Num \in Slots
    BY <1>4, SlotOf DEF Idx
  <2> QED BY <1>1, <1>4, <2>1 DEF TxRing
<1> QED BY <1>1, <1>2, <1>5, <1>6, <1>7, <1>8 DEF TxOwned

\* It publishes the entry: the descriptor is the device's.
LEMMA TxAddIdx ==
  ASSUME RingInv, Kinds, TxOwned, TxRing, AddIdxTx
  PROVE  TxOwned' /\ TxRing' /\ Unseen("tx")' = Append(Unseen("tx"), call.head)
<1> DEFINE a == mem["tx"].avail
           U == Unseen("tx")
           x == call.head
<1>1. /\ pc = "add_idx" /\ call.q = "tx" /\ pc' = "kick"
      /\ mem'["tx"].next = mem["tx"].next /\ mem'["tx"].used = mem["tx"].used
      /\ mem'["tx"].ring = mem["tx"].ring
      /\ mem'["tx"].used_idx = mem["tx"].used_idx /\ mem'["tx"].avail = Inc(a)
      /\ drv' = drv /\ dev' = dev /\ call' = call
  BY AddIdxTxDoes DEF RingInv
<1>2. PICK d \in Seq(Slots) : /\ Len(d) = Num - Out("tx") /\ Links(d)
                              /\ Owned(U, dev["tx"].taken, Unreaped("tx"), d)
  BY DEF TxOwned
<1>3. Out("tx") < Num /\ Out("tx") \in Nat /\ Behind(dev["tx"].seen, a) + 1 < IdxMod
  BY <1>1, Sizes, TxRoom DEF Adding
<1>4. /\ mem["tx"].ring \in [Slots -> Slots] /\ x \in Slots
      /\ a \in Idx /\ dev["tx"].seen \in Idx /\ mem["tx"].ring[a % Num] = x
  BY <1>1 DEF Kinds, KindOf, TxRing
<1>5. Unseen("tx")' = Append(U, x)
  BY <1>1, <1>3, <1>4, SpanGrows DEF Unseen
<1>6. Unreaped("tx")' = Unreaped("tx")
  BY <1>1 DEF Unreaped, Span, Behind
<1>7. Out("tx")' = Out("tx") + 1
  BY <1>1, <1>3, OfferStep DEF RingInv, Queues
<1>8. First = 2 /\ First' = 1 /\ Holding("tx") /\ ~ Holding("tx")'
  BY <1>1 DEF First, Holding
<1>9. U \in Seq(Slots)
  BY Parts DEF Kinds, Queues
<1> HIDE DEF U, x
<1>10. /\ d # <<>> /\ d[1] = x /\ (2 <= Len(d) => d[2] = drv["tx"].free_head)
       /\ \A n \in 2 .. (Len(d) - 1) : d[n + 1] = mem["tx"].next[d[n]]
  BY <1>2, <1>8 DEF Links, x
<1> DEFINE t == Tail(d)
<1>11. Head(d) = d[1] /\ Len(d) \in Nat \ {0} /\ \A n \in 1 .. (Len(d) - 1) : t[n] = d[n + 1]
  BY <1>10
<1>12. /\ t \in Seq(Slots) /\ Len(t) = Len(d) - 1 /\ x \in Entries(d)
       /\ Distinct(t) /\ Entries(t) = Entries(d) \ {x}
  BY <1>2, <1>10, <1>11, TailDistinct DEF Owned
<1> HIDE DEF t
<1>13. Links(t)'
  <2>1. 1 <= Len(t) => t[1] = drv["tx"].free_head
    BY <1>10, <1>11, <1>12
  <2>2. ASSUME NEW n \in 1 .. (Len(t) - 1) PROVE t[n + 1] = mem["tx"].next[t[n]]
    <3>1. /\ n \in 1 .. (Len(d) - 1) /\ n + 1 \in 1 .. (Len(d) - 1) /\ n + 1 \in 2 .. (Len(d) - 1)
      BY <1>11, <1>12
    <3>2. t[n] = d[n + 1] /\ t[n + 1] = d[(n + 1) + 1]
      BY <1>11, <3>1
    <3> QED BY <1>10, <3>1, <3>2
  <2> QED BY <1>1, <1>8, <2>1, <2>2 DEF Links
<1>14. Owned(Append(U, x), dev["tx"].taken, Unreaped("tx"), t)
  <2>1. x \notin Entries(U)
    BY <1>2, <1>12 DEF Owned
  <2>2. Distinct(Append(U, x)) /\ Entries(Append(U, x)) = Entries(U) \cup {x}
    BY <1>2, <1>4, <1>9, <2>1, AppendDistinct DEF Owned
  <2> QED BY <1>2, <1>12, <2>2 DEF Owned
<1>15. Len(t) = Num - Out("tx")'
  BY <1>2, <1>3, <1>7, <1>12, Sizes
<1>16. TxRing'
  BY <1>1 DEF TxRing
<1>17. TxOwned'
  BY <1>1, <1>5, <1>6, <1>12, <1>13, <1>14, <1>15 DEF TxOwned
<1> QED BY <1>5, <1>16, <1>17 DEF U, x

\* The driver puts one that was given back at the head of the free list.
LEMMA TxReap ==
  ASSUME RingInv, Kinds, TxOwned, TxRing, ReapTx
  PROVE  TxOwned' /\ TxRing' /\ Unseen("tx")' = Unseen("tx")
<1> DEFINE u == drv["tx"].used_idx
           R == Unreaped("tx")
           next == mem["tx"].next
           fh == drv["tx"].free_head
<1>0. PICK x : x = mem["tx"].used[u % Num]
  OBVIOUS
<1>1. /\ pc = "reap_tx" /\ pc' = "reap_tx"
      /\ mem'["tx"].next = [next EXCEPT ![x] = fh] /\ mem'["tx"].used = mem["tx"].used
      /\ mem'["tx"].ring = mem["tx"].ring /\ mem'["tx"].avail = mem["tx"].avail
      /\ mem'["tx"].used_idx = mem["tx"].used_idx
      /\ drv'["tx"].free_head = x /\ drv'["tx"].used_idx = Inc(u)
      /\ dev' = dev /\ call' = call
  BY <1>0, ReapTxDoes DEF RingInv
<1>2. PICK d \in Seq(Slots) : /\ Len(d) = Num - Out("tx") /\ Links(d)
                              /\ Owned(Unseen("tx"), dev["tx"].taken, R, d)
  BY DEF TxOwned
<1>3. u # mem["tx"].used_idx
  <2>1. u # call.tx
    BY DEF ReapTx
  <2>2. Behind(u, call.tx) <= Behind(u, mem["tx"].used_idx)
    BY <1>1 DEF RingInv, SnapOK
  <2>3. u \in Idx /\ call.tx \in Idx /\ Idx \subseteq Nat
    BY DEF RingInv, ShapeOK, CallShape, Kinds, KindOf, Idx
  <2>4. Behind(u, call.tx) \in Nat /\ Behind(u, call.tx) # 0
    BY <2>1, <2>3, BehindType
  <2>5. Behind(u, u) = 0
    BY <2>3, BehindType
  <2> SUFFICES ASSUME u = mem["tx"].used_idx PROVE FALSE
    OBVIOUS
  <2> QED BY <2>2, <2>4, <2>5
<1>4. /\ mem["tx"].used \in [Slots -> Slots] /\ u \in Idx /\ mem["tx"].used_idx \in Idx
      /\ next \in [Slots -> Slots] /\ fh \in Slots /\ x \in Slots
  BY <1>0, SlotOf DEF Kinds, KindOf, Idx
<1>5. R # <<>> /\ Head(R) = x /\ Unreaped("tx")' = Tail(R)
  BY <1>0, <1>1, <1>3, <1>4, SpanShrinks DEF Unreaped
<1>6. Unseen("tx")' = Unseen("tx")
  BY <1>1 DEF Unseen, Span, Behind
<1>7. Out("tx")' = Out("tx") - 1 /\ Out("tx") \in Nat
  BY <1>1, <1>3, ReapStep, OutType DEF RingInv, Queues
<1>8. First = 1 /\ First' = 1 /\ ~ Holding("tx") /\ ~ Holding("tx")'
  BY <1>1 DEF First, Holding
<1>9. R \in Seq(Slots)
  BY Parts DEF Kinds, Queues
<1> HIDE DEF R, fh, next
<1>10. /\ x \in Entries(R) /\ Distinct(Tail(R)) /\ Entries(Tail(R)) = Entries(R) \ {x}
  BY <1>2, <1>5, <1>9, TailDistinct DEF Owned
<1>11. /\ 1 <= Len(d) => d[1] = fh
       /\ \A n \in 1 .. (Len(d) - 1) : d[n + 1] = next[d[n]]
  BY <1>2, <1>8 DEF Links, fh, next
<1> DEFINE t == <<x>> \o d
<1>12. x \notin Entries(d)
  BY <1>2, <1>10 DEF Owned
<1>13. /\ t \in Seq(Slots) /\ Len(t) = Len(d) + 1 /\ Len(d) \in Nat
       /\ Distinct(t) /\ Entries(t) = Entries(d) \cup {x}
       /\ t[1] = x /\ \A n \in 1 .. Len(d) : t[n + 1] = d[n]
  BY <1>2, <1>4, <1>12, PrependDistinct DEF Owned
<1> HIDE DEF t
<1>14. Links(t)'
  <2>0. PICK new : new = [next EXCEPT ![x] = fh]
    OBVIOUS
  <2>1. new[x] = fh /\ \A y \in Slots : y # x => new[y] = next[y]
    BY <1>4, <2>0
  <2>2. ASSUME NEW n \in 1 .. Len(d) PROVE t[n + 1] = new[t[n]]
    <3>1. CASE n = 1
      BY <1>11, <1>13, <2>1, <3>1
    <3>2. CASE n # 1
      <4>1. n - 1 \in 1 .. (Len(d) - 1) /\ (n - 1) + 1 = n /\ n - 1 \in 1 .. Len(d)
        BY <1>13, <3>2
      <4>2. t[n] = d[n - 1] /\ d[n] = next[d[n - 1]]
        BY <1>11, <1>13, <4>1
      <4>3. d[n - 1] \in Slots /\ d[n - 1] # x
        BY <1>12, <4>1 DEF Entries
      <4> QED BY <1>13, <2>1, <4>2, <4>3
    <3> QED BY <3>1, <3>2
  <2>3. Len(t) - 1 = Len(d)
    BY <1>13
  <2>4. mem'["tx"].next = new /\ drv'["tx"].free_head = x
    BY <1>1, <2>0
  <2> QED BY <1>8, <1>13, <2>2, <2>3, <2>4 DEF Links
<1>15. Owned(Unseen("tx"), dev["tx"].taken, Tail(R), t)
  BY <1>2, <1>10, <1>13 DEF Owned
<1>16. Len(t) = Num - Out("tx")'
  BY <1>2, <1>7, <1>13, Sizes
<1>17. TxRing'
  BY <1>1 DEF TxRing
<1> QED BY <1>1, <1>5, <1>6, <1>13, <1>14, <1>15, <1>16, <1>17 DEF TxOwned

\* The device takes the packet that comes next.
LEMMA TxTransmit ==
  ASSUME RingInv, Kinds, TxOwned, TxRing, DevTransmit
  PROVE  /\ TxOwned' /\ TxRing'
         /\ Unseen("tx") # <<>> /\ Unseen("tx") \in Seq(Slots) /\ Unseen("tx")' = Tail(Unseen("tx"))
         /\ wire' = Append(wire, mem["tx"].addr[Head(Unseen("tx"))])
<1> DEFINE U == Unseen("tx")
           T == dev["tx"].taken
           x == mem["tx"].ring[dev["tx"].seen % Num]
<1>1. /\ dev["tx"].seen # mem["tx"].avail /\ dev'["tx"].seen = Inc(dev["tx"].seen)
      /\ dev'["tx"].taken = Append(T, x) /\ wire' = Append(wire, mem["tx"].addr[x])
      /\ UNCHANGED <<pc, mem, drv, call>>
  BY TransmitDoes DEF RingInv
<1>2. PICK d \in Seq(Slots) : /\ Len(d) = Num - Out("tx") /\ Links(d)
                              /\ Owned(U, T, Unreaped("tx"), d)
  BY DEF TxOwned
<1>3. /\ mem["tx"].ring \in [Slots -> Slots] /\ mem["tx"].avail \in Idx /\ dev["tx"].seen \in Idx
  BY DEF Kinds, KindOf
<1>4. U # <<>> /\ Head(U) = x /\ Unseen("tx")' = Tail(U)
  BY <1>1, <1>3, SpanShrinks DEF Unseen
<1>5. Unreaped("tx")' = Unreaped("tx")
  BY <1>1 DEF Unreaped, Span, Behind
<1>6. Out("tx")' = Out("tx")
  <2>1. Len(Append(T, x)) = Len(T) + 1
    <3>1. T \in Seq(Slots)
      BY DEF Kinds, KindOf
    <3> HIDE DEF T, x
    <3>2. T \in Seq(Slots \cup {x})
      BY <3>1
    <3> QED BY <3>2
  <2> QED BY <1>1, <2>1, TakeStep DEF RingInv, Queues
<1>7. U \in Seq(Slots) /\ T \in Seq(Slots)
  BY Parts DEF Kinds, Queues
<1> HIDE DEF U, T, x
<1>8. /\ x \in Entries(U) /\ x \in Slots /\ Distinct(Tail(U)) /\ Entries(Tail(U)) = Entries(U) \ {x}
  BY <1>2, <1>4, <1>7, TailDistinct DEF Owned
<1>9. Distinct(Append(T, x)) /\ Entries(Append(T, x)) = Entries(T) \cup {x}
  <2>1. x \notin Entries(T)
    BY <1>2, <1>8 DEF Owned
  <2> QED BY <1>2, <1>7, <1>8, <2>1, AppendDistinct DEF Owned
<1>10. Owned(Tail(U), Append(T, x), Unreaped("tx"), d)
  BY <1>2, <1>8, <1>9 DEF Owned
<1>11. Links(d)'
  BY <1>1, <1>2 DEF Links, First, Holding
<1>12. TxRing'
  BY <1>1 DEF TxRing
<1>13. TxOwned'
  BY <1>1, <1>2, <1>4, <1>5, <1>6, <1>10, <1>11 DEF TxOwned
<1> QED BY <1>1, <1>4, <1>7, <1>12, <1>13 DEF U

\* The device gives one back, in whatever order.
LEMMA TxComplete ==
  ASSUME RingInv, Kinds, TxOwned, TxRing, DevComplete("tx")
  PROVE  TxOwned' /\ TxRing' /\ Unseen("tx")' = Unseen("tx")
<1> DEFINE T == dev["tx"].taken
           R == Unreaped("tx")
           u == mem["tx"].used_idx
<1>1. PICK n \in 1 .. Len(T) :
        /\ dev'["tx"].seen = dev["tx"].seen /\ dev'["tx"].taken = Without(T, n)
        /\ mem'["tx"].next = mem["tx"].next
        /\ mem'["tx"].ring = mem["tx"].ring /\ mem'["tx"].avail = mem["tx"].avail
        /\ mem'["tx"].used = [mem["tx"].used EXCEPT ![u % Num] = T[n]]
        /\ mem'["tx"].used_idx = Inc(u)
        /\ UNCHANGED <<pc, drv, call>>
  BY CompleteDoes DEF RingInv, Queues
<1>2. PICK d \in Seq(Slots) : /\ Len(d) = Num - Out("tx") /\ Links(d)
                              /\ Owned(Unseen("tx"), T, R, d)
  BY DEF TxOwned
<1>3. /\ mem["tx"].used \in [Slots -> Slots] /\ u \in Idx /\ drv["tx"].used_idx \in Idx
  BY DEF Kinds, KindOf
<1>4. T \in Seq(Slots) /\ R \in Seq(Slots)
  BY Parts DEF Kinds, Queues
<1>5. Unseen("tx")' = Unseen("tx")
  BY <1>1 DEF Unseen, Span, Behind
<1>6. /\ Without(T, n) \in Seq(Slots) /\ Len(Without(T, n)) = Len(T) - 1
      /\ T[n] \in Entries(T) /\ T[n] \in Slots /\ Len(T) \in Nat \ {0}
      /\ Distinct(Without(T, n)) /\ Entries(Without(T, n)) = Entries(T) \ {T[n]}
  <2>1. Distinct(T)
    BY <1>2 DEF Owned
  <2> HIDE DEF T
  <2>2. /\ Len(T) \in Nat \ {0} /\ T[n] \in Slots /\ Without(T, n) \in Seq(Slots)
        /\ Len(Without(T, n)) = Len(T) - 1
    BY <1>4, WithoutIs
  <2> QED BY <1>4, <2>1, <2>2, WithoutDistinct
<1>7. Out("tx")' = Out("tx")
  BY <1>1, <1>6, CompleteStep DEF RingInv, Queues
<1>8. Behind(drv["tx"].used_idx, u) < Num /\ Behind(drv["tx"].used_idx, u) + 1 < IdxMod
  <2>1. /\ Behind(drv["tx"].used_idx, u) \in Nat /\ Behind(dev["tx"].seen, mem["tx"].avail) \in Nat
        /\ Behind(drv["tx"].used_idx, u) + Len(T) + Behind(dev["tx"].seen, mem["tx"].avail) <= Num
    BY OutType DEF RingInv, QueueOK, Out, Queues
  <2> HIDE DEF T
  <2> QED BY <1>6, <2>1, Sizes
<1>9. Unreaped("tx")' = Append(R, T[n])
  <2> DEFINE new == [mem["tx"].used EXCEPT ![u % Num] = T[n]]
  <2>1. /\ new \in [Slots -> Slots]
        /\ Span(new, drv["tx"].used_idx, u) = R
    <3>1. T[n] \in Slots
      BY <1>6
    <3>2. R = Span(mem["tx"].used, drv["tx"].used_idx, u)
      BY DEF Unreaped
    <3> HIDE DEF T, R, u
    <3> QED BY <1>3, <1>8, <3>1, <3>2, SpanStays
  <2>2. new[u % Num] = T[n]
    <3>1. u % Num \in Slots
      BY <1>3, SlotOf DEF Idx
    <3> QED BY <1>3, <3>1
  <2>3. mem'["tx"].used = new
    BY <1>1
  <2> HIDE DEF new
  <2>4. Span(new, drv["tx"].used_idx, Inc(u)) = Append(R, T[n])
    BY <1>3, <1>8, <2>1, <2>2, SpanGrows
  <2> QED BY <1>1, <2>3, <2>4 DEF Unreaped
<1> HIDE DEF R, T
<1>10. Owned(Unseen("tx"), Without(T, n), Append(R, T[n]), d)
  <2>1. T[n] \notin Entries(R)
    BY <1>2, <1>6 DEF Owned
  <2>2. Distinct(Append(R, T[n])) /\ Entries(Append(R, T[n])) = Entries(R) \cup {T[n]}
    BY <1>2, <1>4, <1>6, <2>1, AppendDistinct DEF Owned
  <2> QED BY <1>2, <1>6, <2>2 DEF Owned
<1>11. Links(d)'
  BY <1>1, <1>2 DEF Links, First, Holding
<1>12. TxRing'
  BY <1>1 DEF TxRing
<1>13. TxOwned'
  BY <1>1, <1>2, <1>5, <1>7, <1>9, <1>10, <1>11 DEF TxOwned
<1> QED BY <1>5, <1>12, <1>13

-----------------------------------------------------------------------------
\* Packets are numbered in the order they were sent: those on the wire, then those
\* offered to the device, then the one being added.
TxPackets ==
  /\ Len(wire) \in Nat /\ wire = [n \in 1 .. Len(wire) |-> n]
  /\ sent = Len(wire) + Len(Unseen("tx")) + (IF Adding("tx") THEN 1 ELSE 0)
  /\ \A n \in 1 .. Len(Unseen("tx")) : mem["tx"].addr[Unseen("tx")[n]] = Len(wire) + n
  /\ Adding("tx") => call.buf = sent
  /\ Holding("tx") => mem["tx"].addr[call.head] = sent

TxInv == Kinds /\ TxOwned /\ TxRing /\ TxPackets

\* Counting on by one.
LEMMA CountOn ==
  ASSUME NEW w \in Nat
  PROVE  /\ Append([n \in 1 .. w |-> n], w + 1) = [n \in 1 .. (w + 1) |-> n]
         /\ Len([n \in 1 .. (w + 1) |-> n]) = w + 1
<1> DEFINE old == [n \in 1 .. w |-> n]
           new == [n \in 1 .. (w + 1) |-> n]
<1>1. /\ old \in Seq(Nat) /\ Len(old) = w /\ \A n \in 1 .. w : old[n] = n
      /\ new \in Seq(Nat) /\ Len(new) = w + 1 /\ \A n \in 1 .. (w + 1) : new[n] = n
  OBVIOUS
<1> HIDE DEF old, new
<1>2. /\ Append(old, w + 1) \in Seq(Nat) /\ Len(Append(old, w + 1)) = w + 1
      /\ \A n \in 1 .. w : Append(old, w + 1)[n] = old[n]
      /\ Append(old, w + 1)[w + 1] = w + 1
  BY <1>1
<1>3. \A n \in 1 .. (w + 1) : n \in 1 .. w \/ n = w + 1
  OBVIOUS
<1>4. \A n \in 1 .. (w + 1) : Append(old, w + 1)[n] = new[n]
  BY <1>1, <1>2, <1>3
<1>5. Append(old, w + 1) = new
  BY <1>1, <1>2, <1>4, SeqEqual
<1> QED BY <1>1, <1>5 DEF old, new

LEMMA PacketsInit == ASSUME Init PROVE TxPackets
<1>1. Unseen("tx") = <<>>
  <2>1. mem["tx"].avail = 0 /\ dev["tx"].seen = 0 /\ Behind(0, 0) = 0
    BY BehindType, Sizes DEF Init, EmptyQueue, Queues
  <2>2. Unseen("tx") \in Seq(Slots) /\ Len(Unseen("tx")) = 0
    BY <2>1, RingInit, KindsInit, Parts DEF Kinds, Queues
  <2> QED BY <2>2
<1>2. wire = <<>> /\ sent = 0 /\ pc = "idle"
  BY DEF Init
<1> QED BY <1>1, <1>2 DEF TxPackets, Adding, Holding

\* Steps that come before neither the device nor a packet.
LEMMA PacketsKept ==
  ASSUME TxPackets, Unseen("tx")' = Unseen("tx"), mem'["tx"].addr = mem["tx"].addr,
         UNCHANGED <<wire, sent>>, Adding("tx")' <=> Adding("tx"),
         Adding("tx") => call'.buf = call.buf,
         Holding("tx")' => Holding("tx") /\ call'.head = call.head
  PROVE  TxPackets'
  BY DEF TxPackets

LEMMA PacketsSend ==
  ASSUME RingInv, TxInv, Send
  PROVE  TxPackets'
<1>1. /\ Same("tx") /\ pc = "idle" /\ pc' = "add_desc" /\ sent' = sent + 1
      /\ call'.q = "tx" /\ call'.buf = sent + 1 /\ wire' = wire
  BY SendDoes DEF RingInv
<1>2. Unseen("tx")' = Unseen("tx") /\ mem'["tx"].addr = mem["tx"].addr
  BY <1>1, PartsSame DEF Same
<1>3. ~ Adding("tx") /\ Adding("tx")' /\ ~ Holding("tx")'
  BY <1>1 DEF Adding, Holding
<1>4. Len(Unseen("tx")) \in Nat
  BY Parts DEF TxInv, Kinds, Queues
<1> QED BY <1>1, <1>2, <1>3, <1>4 DEF TxInv, TxPackets

LEMMA PacketsAddDesc ==
  ASSUME RingInv, TxInv, AddDesc, call.q = "tx"
  PROVE  TxPackets'
<1> DEFINE h == drv["tx"].free_head
           U == Unseen("tx")
<1>1. /\ pc = "add_desc" /\ pc' = "add_ring" /\ call'.q = "tx" /\ call'.head = h
      /\ mem'["tx"].ring = mem["tx"].ring /\ mem'["tx"].avail = mem["tx"].avail
      /\ mem'["tx"].addr = [mem["tx"].addr EXCEPT ![h] = call.buf]
      /\ call'.buf = call.buf /\ dev' = dev /\ UNCHANGED <<wire, sent>>
  BY AddDescDoes DEF RingInv, net
<1>2. Unseen("tx")' = U
  BY <1>1 DEF Unseen, Span, Behind
<1>3. PICK d \in Seq(Slots) : /\ Len(d) = Num - Out("tx") /\ Links(d)
                              /\ Owned(U, dev["tx"].taken, Unreaped("tx"), d)
  BY DEF TxInv, TxOwned
<1>4. h \in Entries(d)
  <2>1. Len(d) \in Nat /\ 1 <= Len(d) /\ DOMAIN d = 1 .. Len(d)
    BY <1>1, <1>3, TxRoom, Sizes DEF Adding
  <2>2. First = 1
    BY <1>1 DEF First, Holding
  <2>3. d[1] = h
    BY <1>3, <2>1, <2>2 DEF Links
  <2> QED BY <2>1, <2>3 DEF Entries
<1>5. U \in Seq(Slots) /\ DOMAIN mem["tx"].addr = Slots /\ h \in Slots
  BY Parts DEF TxInv, Kinds, KindOf, Queues
<1>6. ASSUME NEW n \in 1 .. Len(U) PROVE mem'["tx"].addr[U[n]] = mem["tx"].addr[U[n]]
  <2> HIDE DEF U, h
  <2>1. U[n] \in Entries(U) /\ U[n] \in Slots
    BY <1>5 DEF Entries
  <2>2. U[n] # h
    BY <1>3, <1>4, <2>1 DEF Owned
  <2> QED BY <1>1, <1>5, <2>1, <2>2
<1>7. mem'["tx"].addr[h] = call.buf
  BY <1>1, <1>5
<1>8. Adding("tx") /\ Adding("tx")' /\ call.buf = sent
  BY <1>1 DEF Adding, TxInv, TxPackets
<1> QED BY <1>1, <1>2, <1>6, <1>7, <1>8 DEF TxInv, TxPackets

LEMMA PacketsAddIdx ==
  ASSUME RingInv, TxInv, AddIdxTx
  PROVE  TxPackets'
<1> DEFINE U == Unseen("tx")
           x == call.head
           addr == mem["tx"].addr
<1>1. /\ pc = "add_idx" /\ call.q = "tx" /\ pc' = "kick" /\ mem'["tx"].addr = addr
      /\ UNCHANGED <<wire, sent>>
  BY AddIdxTxDoes DEF RingInv, net
<1>2. Unseen("tx")' = Append(U, x)
  BY TxAddIdx DEF TxInv
<1>3. Adding("tx") /\ ~ Adding("tx")' /\ Holding("tx") /\ ~ Holding("tx")'
  BY <1>1 DEF Adding, Holding
<1>4. /\ sent = Len(wire) + Len(U) + 1 /\ addr[x] = sent /\ Len(wire) \in Nat
      /\ \A n \in 1 .. Len(U) : addr[U[n]] = Len(wire) + n
  BY <1>3 DEF TxInv, TxPackets
<1>5. U \in Seq(Slots) /\ x \in Slots
  BY Parts DEF TxInv, Kinds, Queues
<1> HIDE DEF U, x, addr
<1>6. /\ Len(U) \in Nat /\ Len(Append(U, x)) = Len(U) + 1
      /\ \A n \in 1 .. Len(U) : Append(U, x)[n] = U[n]
      /\ Append(U, x)[Len(U) + 1] = x
  BY <1>5
<1>7. ASSUME NEW n \in 1 .. Len(Append(U, x)) PROVE addr[Append(U, x)[n]] = Len(wire) + n
  <2>1. CASE n = Len(U) + 1
    BY <1>4, <1>6, <2>1
  <2>2. CASE n # Len(U) + 1
    <3>1. n \in 1 .. Len(U)
      BY <1>6, <2>2
    <3> QED BY <1>4, <1>6, <3>1
  <2> QED BY <2>1, <2>2
<1>8. sent = Len(wire) + Len(Append(U, x)) + 0
  BY <1>4, <1>6
<1> QED BY <1>1, <1>2, <1>3, <1>7, <1>8 DEF TxInv, TxPackets

LEMMA PacketsTransmit ==
  ASSUME RingInv, TxInv, DevTransmit
  PROVE  TxPackets'
<1> DEFINE U == Unseen("tx")
           w == Len(wire)
           addr == mem["tx"].addr
<1>1. /\ UNCHANGED <<pc, mem, call, sent>>
  BY TransmitDoes DEF RingInv
<1>2. /\ U # <<>> /\ U \in Seq(Slots) /\ Unseen("tx")' = Tail(U)
      /\ wire' = Append(wire, addr[Head(U)])
  BY TxTransmit DEF TxInv
<1>3. /\ w \in Nat /\ wire = [n \in 1 .. w |-> n]
      /\ sent = w + Len(U) + (IF Adding("tx") THEN 1 ELSE 0)
      /\ \A n \in 1 .. Len(U) : addr[U[n]] = w + n
      /\ Adding("tx") => call.buf = sent
      /\ Holding("tx") => addr[call.head] = sent
  BY DEF TxInv, TxPackets
<1> HIDE DEF U, w, addr
<1>4. /\ Len(U) \in Nat \ {0} /\ Head(U) = U[1] /\ Len(Tail(U)) = Len(U) - 1
      /\ \A n \in 1 .. (Len(U) - 1) : Tail(U)[n] = U[n + 1]
  BY <1>2
<1>5. addr[Head(U)] = w + 1
  BY <1>3, <1>4
<1>6. wire' = [n \in 1 .. (w + 1) |-> n] /\ Len(wire') = w + 1
  <2>1. wire' = Append([n \in 1 .. w |-> n], w + 1)
    BY <1>2, <1>3, <1>5
  <2> QED BY <1>3, <2>1, CountOn
<1>7. ASSUME NEW n \in 1 .. Len(Tail(U)) PROVE addr[Tail(U)[n]] = (w + 1) + n
  <2>1. n \in 1 .. (Len(U) - 1) /\ n + 1 \in 1 .. Len(U)
    BY <1>4
  <2>2. w + (n + 1) = (w + 1) + n
    BY <1>3
  <2> QED BY <1>3, <1>4, <2>1, <2>2
<1>8. sent = (w + 1) + Len(Tail(U)) + (IF Adding("tx") THEN 1 ELSE 0)
  BY <1>3, <1>4
<1>9. /\ mem'["tx"].addr = addr
      /\ Adding("tx")' <=> Adding("tx")
      /\ Holding("tx")' <=> Holding("tx")
  BY <1>1 DEF addr, Adding, Holding
<1>10. /\ w + 1 \in Nat /\ sent' = sent /\ call' = call
  BY <1>1, <1>3
<1> QED BY <1>2, <1>3, <1>6, <1>7, <1>8, <1>9, <1>10 DEF TxPackets

\* What the TX queue's steps keep.
LEMMA TxInvInit == Init => TxInv
  BY KindsInit, TxInit, PacketsInit DEF TxInv

\* The driver does not touch the queue.
LEMMA TxElsewhere ==
  ASSUME TxInv, Same("tx"), HoldsSame("tx"), Kinds', UNCHANGED <<wire, sent>>,
         Adding("tx")' <=> Adding("tx"), Adding("tx") => call'.buf = call.buf
  PROVE  TxInv'
<1>1. TxOwned' /\ TxRing'
  BY TxKept DEF TxInv
<1>2. Unseen("tx")' = Unseen("tx") /\ mem'["tx"].addr = mem["tx"].addr
  BY PartsSame DEF Same
<1>3. Holding("tx")' => Holding("tx") /\ call'.head = call.head
  BY DEF HoldsSame
<1>4. TxPackets'
  BY <1>2, <1>3, PacketsKept DEF TxInv
<1> QED BY <1>1, <1>4 DEF TxInv

LEMMA TxDriverStep ==
  ASSUME RingInv, TxInv, Driver \/ Send
  PROVE  TxInv'
<1>0. ShapeOK /\ Kinds
  BY DEF RingInv, TxInv
<1>1. CASE \/ FillDone \/ EnableDevice \/ UnmaskIrq \/ Kick \/ ReadIsr \/ SnapTx \/ SnapRx
           \/ ReapTxDone \/ IrqReturn
  <2>1. /\ Quiet /\ live' \in {live, TRUE} /\ isr' \in {isr, FALSE}
        /\ boot' \in {boot, "enable", "unmask", "done"}
         /\ pc' \in {pc, "idle", "snap_tx", "snap_rx", "reap_tx", "reap_rx"}
    BY <1>0, <1>1, DriverQuiet
  <2>2. Kinds'
    <3>1. boot' \in Steps /\ pc' \in Places /\ live' \in BOOLEAN /\ isr' \in BOOLEAN
      BY <1>0, <2>1 DEF Kinds, Steps, Places
    <3> QED BY <1>0, <2>1, <3>1, KindsQuiet
  <2>3. /\ Adding("tx")' <=> Adding("tx")
        /\ Adding("tx") => call'.buf = call.buf
    BY <2>1 DEF Quiet, Adding, Adds
  <2>4. HoldsSame("tx") /\ Same("tx") /\ UNCHANGED <<wire, sent>>
    BY <2>1, QuietHolds DEF Quiet
  <2> QED BY <2>2, <2>3, <2>4, TxElsewhere
<1>2. CASE FillRx
  <2>1. Same("tx") /\ UNCHANGED <<pc, call, wire, sent>>
    BY <1>0, <1>2, FillRxDoes DEF FillRx, net
  <2>2. HoldsSame("tx") /\ (Adding("tx")' <=> Adding("tx")) /\ call'.buf = call.buf
    BY <2>1 DEF HoldsSame, Holding, Adding
  <2> QED BY <1>0, <1>2, <2>1, <2>2, TxElsewhere, KindsDriver
<1>3. CASE Send
  <2>1. /\ Same("tx") /\ pc = "idle" /\ pc' = "add_desc"
    BY <1>0, <1>3, SendDoes
  <2>2. HoldsSame("tx")
    BY <2>1 DEF HoldsSame, Holding
  <2>3. TxOwned' /\ TxRing'
    BY <2>1, <2>2, TxKept DEF TxInv
  <2> QED BY <1>0, <1>3, <2>3, KindsDriver, PacketsSend DEF TxInv
<1>4. CASE AddDesc /\ call.q = "tx"
  BY <1>0, <1>4, KindsDriver, TxAddDesc, PacketsAddDesc DEF TxInv
<1>5. CASE AddDesc /\ call.q # "tx"
  <2>1. /\ Same("tx") /\ pc = "add_desc" /\ pc' = "add_ring" /\ call'.q # "tx"
        /\ UNCHANGED <<wire, sent>>
    BY <1>0, <1>5, AddDescDoes DEF Queues, net
  <2>2. HoldsSame("tx") /\ (Adding("tx")' <=> Adding("tx")) /\ ~ Adding("tx")
    BY <1>5, <2>1 DEF HoldsSame, Holding, Adding
  <2> QED BY <1>0, <1>5, <2>1, <2>2, TxElsewhere, KindsDriver
<1>6. CASE AddRing /\ call.q = "tx"
  <2>1. TxOwned' /\ TxRing' /\ Unseen("tx")' = Unseen("tx")
    BY <1>0, <1>6, TxAddRing DEF TxInv
  <2>2. /\ pc = "add_ring" /\ pc' = "add_idx" /\ call' = call
        /\ mem'["tx"].addr = mem["tx"].addr /\ UNCHANGED <<wire, sent>>
    BY <1>0, <1>6, AddRingDoes DEF net
  <2>3. /\ Adding("tx")' <=> Adding("tx")
        /\ Holding("tx")' => Holding("tx")
    BY <2>2 DEF Adding, Holding
  <2>4. TxPackets'
    BY <2>1, <2>2, <2>3, PacketsKept DEF TxInv
  <2> QED BY <1>0, <1>6, <2>1, <2>4, KindsDriver DEF TxInv
<1>7. CASE AddRing /\ call.q # "tx"
  <2>1. /\ Same("tx") /\ pc = "add_ring" /\ pc' = "add_idx" /\ call' = call
        /\ UNCHANGED <<wire, sent>>
    BY <1>0, <1>7, AddRingDoes DEF Queues, net
  <2>2. HoldsSame("tx") /\ (Adding("tx")' <=> Adding("tx"))
    BY <1>7, <2>1 DEF HoldsSame, Holding, Adding
  <2> QED BY <1>0, <1>7, <2>1, <2>2, TxElsewhere, KindsDriver
<1>8. CASE AddIdxTx
  BY <1>0, <1>8, KindsDriver, TxAddIdx, PacketsAddIdx DEF TxInv
<1>9. CASE AddIdxRx
  <2>1. /\ Same("tx") /\ pc = "add_idx" /\ call.q = "rx" /\ pc' = "reap_rx" /\ call' = call
        /\ UNCHANGED <<wire, sent>>
    BY <1>0, <1>9, AddIdxRxDoes DEF net
  <2>2. HoldsSame("tx") /\ (Adding("tx")' <=> Adding("tx")) /\ ~ Adding("tx")
    BY <2>1 DEF HoldsSame, Holding, Adding
  <2> QED BY <1>0, <1>9, <2>1, <2>2, TxElsewhere, KindsDriver
<1>10. CASE ReapTx
  <2>1. TxOwned' /\ TxRing' /\ Unseen("tx")' = Unseen("tx")
    BY <1>0, <1>10, TxReap DEF TxInv
  <2>2. /\ pc = "reap_tx" /\ pc' = "reap_tx" /\ call' = call
        /\ mem'["tx"].addr = mem["tx"].addr /\ UNCHANGED <<wire, sent>>
    BY <1>0, <1>10, ReapTxDoes DEF net
  <2>3. ~ Adding("tx")' /\ ~ Adding("tx") /\ ~ Holding("tx")'
    BY <2>2 DEF Adding, Holding
  <2>4. TxPackets'
    BY <2>1, <2>2, <2>3, PacketsKept DEF TxInv
  <2> QED BY <1>0, <1>10, <2>1, <2>4, KindsDriver DEF TxInv
<1>11. CASE ReapRx
  <2>1. /\ Same("tx") /\ pc = "reap_rx" /\ pc' = "add_desc" /\ call'.q = "rx"
        /\ UNCHANGED <<wire, sent>>
    BY <1>0, <1>11, ReapRxDoes
  <2>2. HoldsSame("tx") /\ (Adding("tx")' <=> Adding("tx")) /\ ~ Adding("tx")
    BY <2>1 DEF HoldsSame, Holding, Adding
  <2> QED BY <1>0, <1>11, <2>1, <2>2, TxElsewhere, KindsDriver
<1> QED BY <1>1, <1>2, <1>3, <1>4, <1>5, <1>6, <1>7, <1>8, <1>9, <1>10, <1>11
        DEF Driver, DriverInit

LEMMA TxDeviceStep ==
  ASSUME RingInv, TxInv, NEW q \in Queues,
         \/ FrameArrives \/ DevTransmit \/ DevReceive
         \/ DevComplete(q) \/ DevSignal(q) \/ DevRests(q) \/ UNCHANGED vars
  PROVE  TxInv'
<1>0. ShapeOK /\ Kinds
  BY DEF RingInv, TxInv
<1>1. CASE FrameArrives \/ DevSignal(q) \/ DevRests(q) \/ UNCHANGED vars
  <2>1. Quiet /\ boot' = boot /\ pc' = pc /\ call' = call /\ live' = live /\ isr' \in BOOLEAN
    BY <1>0, <1>1, DeviceQuiet, DriverQuiet DEF vars, Kinds
  <2>2. Kinds'
    BY <1>0, <2>1, KindsQuiet DEF Kinds
  <2>3. /\ Adding("tx")' <=> Adding("tx")
        /\ HoldsSame("tx")
    BY <2>1, QuietHolds DEF Adding
  <2> QED BY <2>1, <2>2, <2>3, TxElsewhere DEF Quiet
<1>2. CASE DevTransmit
  BY <1>0, <1>2, KindsDevice, TxTransmit, PacketsTransmit DEF TxInv
<1>3. CASE DevReceive
  <2>1. Same("tx") /\ UNCHANGED <<pc, call, wire, sent>>
    BY <1>0, <1>3, ReceiveDoes
  <2>2. HoldsSame("tx") /\ (Adding("tx")' <=> Adding("tx")) /\ call'.buf = call.buf
    BY <2>1 DEF HoldsSame, Holding, Adding
  <2> QED BY <1>0, <1>3, <2>1, <2>2, TxElsewhere, KindsDevice
<1>4. CASE DevComplete(q) /\ q = "tx"
  <2>1. TxOwned' /\ TxRing' /\ Unseen("tx")' = Unseen("tx")
    BY <1>0, <1>4, TxComplete DEF TxInv
  <2>2. mem'["tx"].addr = mem["tx"].addr /\ UNCHANGED <<pc, call, wire, sent>>
    BY <1>0, <1>4, CompleteDoes DEF net
  <2>3. /\ Adding("tx")' <=> Adding("tx")
        /\ Holding("tx")' => Holding("tx")
    BY <2>2 DEF Adding, Holding
  <2>4. TxPackets'
    BY <2>1, <2>2, <2>3, PacketsKept DEF TxInv
  <2> QED BY <1>0, <1>4, <2>1, <2>4, KindsDevice DEF TxInv
<1>5. CASE DevComplete(q) /\ q # "tx"
  <2>1. Same("tx") /\ UNCHANGED <<pc, call, wire, sent>>
    BY <1>0, <1>5, CompleteDoes DEF net, Queues
  <2>2. HoldsSame("tx") /\ (Adding("tx")' <=> Adding("tx")) /\ call'.buf = call.buf
    BY <2>1 DEF HoldsSame, Holding, Adding
  <2> QED BY <1>0, <1>5, <2>1, <2>2, TxElsewhere, KindsDevice
<1> QED BY <1>1, <1>2, <1>3, <1>4, <1>5

-----------------------------------------------------------------------------
\* The RX queue: as its descriptors come back in the order they were offered, each
\* goes round in a slot of its own, with the buffer of its own.
Run(s, a) == \A n \in 1 .. Len(s) : s[n] = (a + n - 1) % Num

RxRings ==
  /\ Run(Unseen("rx"), dev["rx"].seen)
  /\ Run(dev["rx"].taken, mem["rx"].used_idx)
  /\ Run(Unreaped("rx"), drv["rx"].used_idx)

RxHead ==
  /\ \A d \in Slots : mem["rx"].next[d] = (d + 1) % Num
  /\ drv["rx"].free_head = (mem["rx"].avail + (IF Holding("rx") THEN 1 ELSE 0)) % Num
  /\ Holding("rx") => call.head = mem["rx"].avail % Num
  /\ pc = "add_idx" /\ call.q = "rx" => mem["rx"].ring[mem["rx"].avail % Num] = call.head
  /\ Adding("rx") => call.buf = (mem["rx"].avail % Num) + 1

RxFilled ==
  /\ \A d \in Slots : (boot = "fill" => d < mem["rx"].avail) => mem["rx"].addr[d] = d + 1
  /\ boot # "fill" => Out("rx") = Num

\* Frames are numbered as they are stored: those the driver is done with, then those
\* in the buffers from where it looks next.
Done == Len(delivered) - (IF Adding("rx") THEN 1 ELSE 0)
Held == Behind(drv["rx"].used_idx, mem["rx"].used_idx) + Behind(mem["rx"].used_idx, dev["rx"].seen)

RxFrames ==
  /\ Len(delivered) \in Nat /\ delivered = [n \in 1 .. Len(delivered) |-> n]
  /\ DOMAIN buffer = 1 .. Num /\ stored = Done + Held
  /\ \A n \in 1 .. Held : buffer[((drv["rx"].used_idx + n - 1) % Num) + 1] = Done + n

RxInv == RxRings /\ RxHead /\ RxFilled /\ RxFrames

LEMMA RunAppend ==
  ASSUME NEW s \in Seq(Slots), NEW a \in Nat, Run(s, a)
  PROVE  Run(Append(s, (a + Len(s)) % Num), a)
<1> DEFINE x == (a + Len(s)) % Num
           l == Len(s)
<1>1. l \in Nat /\ x \in Slots
  BY SlotOf
<1> HIDE DEF x
<1>2. /\ Len(Append(s, x)) = l + 1 /\ Append(s, x)[l + 1] = x
      /\ \A n \in 1 .. l : Append(s, x)[n] = s[n]
  BY <1>1
<1>3. \A n \in 1 .. (l + 1) : n \in 1 .. l \/ n = l + 1
  BY <1>1
<1>4. a + (l + 1) - 1 = a + l
  BY <1>1
<1>5. x = (a + (l + 1) - 1) % Num
  BY <1>4 DEF x
<1> QED BY <1>2, <1>3, <1>5 DEF Run, x

LEMMA RunTail ==
  ASSUME NEW s \in Seq(Slots), s # <<>>, NEW a \in Idx, Run(s, a)
  PROVE  Run(Tail(s), Inc(a)) /\ Head(s) = a % Num
<1>1. /\ Len(s) \in Nat \ {0} /\ Head(s) = s[1] /\ Len(Tail(s)) = Len(s) - 1
      /\ \A n \in 1 .. (Len(s) - 1) : Tail(s)[n] = s[n + 1]
  OBVIOUS
<1>2. a \in Nat /\ Inc(a) \in Nat
  BY IncIs DEF Idx
<1>3. a + 1 - 1 = a
  BY <1>2
<1>4. Head(s) = a % Num
  BY <1>1, <1>3 DEF Run
<1>5. ASSUME NEW n \in 1 .. (Len(s) - 1) PROVE Tail(s)[n] = (Inc(a) + n - 1) % Num
  <2>1. n + 1 \in 1 .. Len(s) /\ n - 1 \in Nat
    BY <1>1
  <2>2. s[n + 1] = (a + (n + 1) - 1) % Num
    BY <2>1 DEF Run
  <2>3. a + (n + 1) - 1 = a + 1 + (n - 1) /\ Inc(a) + n - 1 = Inc(a) + (n - 1)
    BY <1>2, <2>1
  <2> QED BY <1>1, <2>1, <2>2, <2>3, IncSlot
<1> QED BY <1>1, <1>4, <1>5 DEF Run

\* Slots counted on from one index or from another.
LEMMA Onward ==
  ASSUME NEW a \in Idx, NEW b \in Idx, NEW n \in Nat
  PROVE  (a + Behind(a, b) + n) % Num = (b + n) % Num
<1>1. a \in Nat /\ b \in Nat /\ IdxMod \in Nat
  BY Sizes DEF Idx
<1>2. Behind(a, b) = IF a <= b THEN b - a ELSE (b - a) + IdxMod
  BY BehindIs
<1>3. CASE a <= b
  <2>1. a + Behind(a, b) + n = b + n
    BY <1>1, <1>2, <1>3
  <2> QED BY <2>1
<1>4. CASE ~ (a <= b)
  <2>1. a + Behind(a, b) + n = (b + n) + IdxMod /\ b + n \in Nat
    BY <1>1, <1>2, <1>4
  <2> QED BY <1>1, <2>1, RoundSlot
<1> QED BY <1>3, <1>4

\* Once round the ring.
LEMMA RingSlot ==
  ASSUME NEW x \in Nat
  PROVE  (x + Num) % Num = x % Num
<1> DEFINE q == x \div Num
           r == x % Num
<1>1. q \in Int /\ r \in Nat /\ r < Num /\ x = q * Num + r /\ Num \in Nat \ {0}
  BY SizeAssumption
<1> HIDE DEF q, r
<1>2. x + Num = (q + 1) * Num + r /\ q + 1 \in Int /\ x + Num \in Nat
  BY <1>1
<1>3. (x + Num) % Num = r
  BY <1>1, <1>2, RemainderIs
<1> QED BY <1>3 DEF r

\* A frame that was announced leaves room for its buffer.
LEMMA RxRoom ==
  ASSUME RingInv, Adding("rx")
  PROVE  /\ drv["rx"].used_idx # mem["rx"].used_idx
         /\ Behind(dev["rx"].seen, mem["rx"].avail) \in Nat
         /\ Behind(dev["rx"].seen, mem["rx"].avail) < Num
<1> DEFINE a == drv["rx"].used_idx
           s == call.rx
           b == mem["rx"].used_idx
<1>1. Behind(a, s) <= Behind(a, b) /\ a # s
  BY DEF RingInv, SnapOK, InRxLoop
<1>2. a \in Idx /\ s \in Idx /\ b \in Idx /\ Idx \subseteq Nat
  BY DEF RingInv, ShapeOK, CallShape, MemShape, DrvShape, Queues, Idx
<1>3. /\ Behind(a, s) \in Nat /\ Behind(a, s) # 0 /\ Behind(a, b) \in Nat
      /\ Behind(a, b) = 0 <=> a = b
  BY <1>1, <1>2, BehindType
<1>4. Behind(a, b) # 0
  BY <1>1, <1>3
<1>5. /\ Behind(mem["rx"].used_idx, dev["rx"].seen) \in Nat
      /\ Behind(dev["rx"].seen, mem["rx"].avail) \in Nat
      /\ Behind(a, b) + Behind(mem["rx"].used_idx, dev["rx"].seen)
           + Behind(dev["rx"].seen, mem["rx"].avail) <= Num
  BY OutType DEF RingInv, QueueOK, Out, Queues
<1> HIDE DEF a, b, s
<1>6. Behind(dev["rx"].seen, mem["rx"].avail) < Num
  BY <1>3, <1>4, <1>5, Sizes
<1>7. a # b
  BY <1>3, <1>4
<1> QED BY <1>5, <1>6, <1>7 DEF a, b

\* Filling: everything out lies between 0 and the index offered next.
LEMMA RxFilling ==
  ASSUME RingInv, boot = "fill"
  PROVE  /\ Out("rx") = mem["rx"].avail /\ Behind(0, mem["rx"].avail) = mem["rx"].avail
         /\ dev["rx"].seen = 0 /\ mem["rx"].used_idx = 0 /\ drv["rx"].used_idx = 0
<1>1. dev["rx"].seen = 0 /\ mem["rx"].used_idx = 0 /\ drv["rx"].used_idx = 0
  BY DEF RingInv, RoomOK
<1>2. mem["rx"].avail \in Idx /\ 0 \in Idx /\ mem["rx"].avail \in Nat
  BY Sizes DEF RingInv, ShapeOK, MemShape, Queues, Idx
<1>3. Behind(0, 0) = 0
  BY <1>2, BehindType
<1>4. Behind(0, mem["rx"].avail) = mem["rx"].avail
  <2>1. 0 <= mem["rx"].avail /\ mem["rx"].avail - 0 = mem["rx"].avail
    BY <1>2
  <2> QED BY <1>2, <2>1, BehindIs
<1>5. Out("rx") = 0 + 0 + mem["rx"].avail
  BY <1>1, <1>3, <1>4 DEF Out
<1> QED BY <1>1, <1>2, <1>4, <1>5

\* The handler comes after virtio_net_init.
LEMMA InitOver ==
  ASSUME RingInv, pc \notin {"idle", "kick"}, ~ Adding("tx")
  PROVE  boot = "done"
  BY DEF RingInv, RoomOK

LEMMA RxInit == ASSUME Init PROVE RxInv
<1>1. /\ mem["rx"] = EmptyQueue /\ drv["rx"].free_head = 0 /\ drv["rx"].used_idx = 0
      /\ dev["rx"].seen = 0 /\ dev["rx"].taken = <<>> /\ boot = "fill" /\ call.q = "tx"
      /\ delivered = <<>> /\ stored = 0 /\ buffer = [b \in 1 .. Num |-> 0]
  BY DEF Init, Queues, NoCall
<1>2. mem["rx"].avail = 0 /\ mem["rx"].used_idx = 0 /\ Behind(0, 0) = 0
  BY <1>1, BehindType, Sizes DEF EmptyQueue
<1>3. ~ Holding("rx") /\ ~ Adding("rx")
  BY <1>1 DEF Holding, Adding
<1>4. Len(Unseen("rx")) = 0 /\ Len(Unreaped("rx")) = 0
  BY <1>1, <1>2, RingInit, KindsInit, Parts DEF Kinds, Queues
<1>5. RxRings
  BY <1>1, <1>4 DEF RxRings, Run
<1>6. 0 % Num = 0
  BY Sizes
<1>7. \A d \in Slots : mem["rx"].next[d] = (d + 1) % Num
  <2> TAKE d \in Slots
  <2>1. CASE d < Num - 1
    <3>1. (d + 1) % Num = d + 1
      BY <2>1, Sizes DEF Slots
    <3> QED BY <1>1, <2>1, <3>1 DEF EmptyQueue
  <2>2. CASE ~ (d < Num - 1)
    <3>1. d + 1 = Num /\ Num % Num = 0
      BY <2>2, Sizes DEF Slots
    <3> QED BY <1>1, <2>2, <3>1 DEF EmptyQueue
  <2> QED BY <2>1, <2>2
<1>8. RxHead
  BY <1>1, <1>2, <1>3, <1>6, <1>7 DEF RxHead
<1>9. RxFilled
  BY <1>1, <1>2 DEF RxFilled, Slots
<1>10. Done = 0 /\ Held = 0
  BY <1>1, <1>2, <1>3 DEF Done, Held
<1>11. RxFrames
  BY <1>1, <1>10 DEF RxFrames
<1> QED BY <1>5, <1>8, <1>9, <1>11 DEF RxInv

\* Nothing happens to the queue.
LEMMA RxKept ==
  ASSUME RingInv, RxInv, Same("rx"), HoldsSame("rx"), UNCHANGED <<buffer, stored, delivered>>,
         Adding("rx")' <=> Adding("rx"), Adding("rx") => call'.buf = call.buf,
         boot = "fill" /\ boot' # "fill" => mem["rx"].avail = Num, boot' = "fill" => boot = "fill"
  PROVE  RxInv'
<1>1. RxRings'
  BY PartsSame DEF RxInv, RxRings, Run, Same
<1>2. RxHead'
  BY DEF RxInv, RxHead, Same, HoldsSame, Holding
<1>3. RxFilled'
  <2>1. Out("rx")' = Out("rx") /\ mem'["rx"] = mem["rx"]
    BY PartsSame DEF Same
  <2>2. CASE boot = "fill" /\ boot' # "fill"
    <3>1. mem["rx"].avail = Num /\ Out("rx") = Num
      BY <2>2, RxFilling
    <3>2. \A d \in Slots : d < Num
      BY Sizes DEF Slots
    <3> QED BY <2>1, <2>2, <3>1, <3>2 DEF RxInv, RxFilled
  <2>3. CASE ~ (boot = "fill" /\ boot' # "fill")
    BY <2>1, <2>3 DEF RxInv, RxFilled
  <2> QED BY <2>2, <2>3
<1>4. Done' = Done /\ Held' = Held
  BY DEF Done, Held, Same, Behind
<1>5. RxFrames'
  BY <1>4 DEF RxInv, RxFrames, Same
<1> QED BY <1>1, <1>2, <1>3, <1>5 DEF RxInv

\* virtio_net_init offers the next descriptor, with the next buffer.
LEMMA RxFill ==
  ASSUME RingInv, Kinds, RxInv, FillRx
  PROVE  RxInv'
<1> DEFINE a == mem["rx"].avail
           U == Unseen("rx")
<1>0. /\ boot = "fill" /\ pc = "idle" /\ UNCHANGED <<boot, pc, call, buffer, stored, delivered>>
  BY DEF FillRx, BootRuns, net
<1>1. /\ Out("rx") = a /\ Behind(0, a) = a
      /\ dev["rx"].seen = 0 /\ mem["rx"].used_idx = 0 /\ drv["rx"].used_idx = 0
  BY <1>0, RxFilling
<1>2. ~ Holding("rx") /\ ~ Holding("rx")' /\ ~ Adding("rx") /\ ~ Adding("rx")'
  BY <1>0 DEF Holding, Adding
<1>3. a < Num /\ a \in Nat /\ a \in Idx /\ a % Num = a /\ a \in Slots /\ Num \in Nat
  <2>1. a < Num
    BY DEF FillRx
  <2>2. a \in Nat /\ a \in Idx
    BY DEF Kinds, KindOf, Idx
  <2> HIDE DEF a
  <2>3. a % Num = a /\ a \in Slots
    BY <2>1, <2>2, Sizes DEF Slots
  <2> QED BY <2>1, <2>2, <2>3, Sizes
<1>4. drv["rx"].free_head = a
  BY <1>2, <1>3 DEF RxInv, RxHead
<1>5. /\ mem'["rx"].next = mem["rx"].next /\ mem'["rx"].used = mem["rx"].used
      /\ mem'["rx"].used_idx = mem["rx"].used_idx /\ mem'["rx"].avail = Inc(a)
      /\ mem'["rx"].addr = [mem["rx"].addr EXCEPT ![a] = a + 1]
      /\ mem'["rx"].ring = [mem["rx"].ring EXCEPT ![a] = a]
      /\ drv'["rx"].free_head = mem["rx"].next[a] /\ drv'["rx"].used_idx = drv["rx"].used_idx
      /\ dev' = dev
  BY <1>3, <1>4, FillRxDoes DEF RingInv
<1>6. Inc(a) = a + 1
  BY <1>3, IncIs, Sizes
<1>7. Unseen("rx")' = Append(U, a)
  <2> DEFINE ring == mem["rx"].ring
             new == [ring EXCEPT ![a] = a]
  <2>1. ring \in [Slots -> Slots]
    BY DEF Kinds, KindOf
  <2>2. /\ new \in [Slots -> Slots] /\ Span(new, 0, a) = U
    BY <1>1, <1>3, <2>1, SpanStays, Sizes DEF Unseen
  <2>3. new[a] = a /\ Behind(0, a) + 1 < IdxMod
    BY <1>1, <1>3, <2>1, Sizes
  <2>4. mem'["rx"].ring = new
    BY <1>5
  <2> HIDE DEF new, ring
  <2>5. Span(new, 0, Inc(a)) = Append(U, a)
    BY <1>3, <2>2, <2>3, SpanGrows, Sizes
  <2> QED BY <1>1, <1>5, <2>4, <2>5 DEF Unseen
<1>8. U \in Seq(Slots) /\ Len(U) = a /\ Run(U, 0)
  BY <1>1, Parts DEF Kinds, RxInv, RxRings, Queues
<1> HIDE DEF U
<1>9. RxRings'
  <2>1. (0 + Len(U)) % Num = a
    BY <1>3, <1>8
  <2>2. Run(Append(U, a), 0)
    BY <1>8, <2>1, RunAppend
  <2>3. Unreaped("rx")' = Unreaped("rx") /\ dev'["rx"].taken = dev["rx"].taken
    BY <1>5 DEF Unreaped, Span, Behind
  <2> QED BY <1>1, <1>5, <1>7, <2>2, <2>3 DEF RxInv, RxRings, Run
<1>10. RxHead'
  <2>1. mem["rx"].next[a] = (a + 1) % Num
    BY <1>3 DEF RxInv, RxHead
  <2>2. (a + 1) + 0 = a + 1
    BY <1>3
  <2> QED BY <1>0, <1>2, <1>5, <1>6, <2>1, <2>2 DEF RxInv, RxHead
<1>11. RxFilled'
  <2> SUFFICES ASSUME NEW d \in Slots, d < a + 1 PROVE mem'["rx"].addr[d] = d + 1
    BY <1>0, <1>5, <1>6 DEF RxFilled
  <2>1. DOMAIN mem["rx"].addr = Slots
    BY DEF Kinds, KindOf
  <2>2. CASE d = a
    BY <1>5, <2>1, <2>2
  <2>3. CASE d # a
    <3>1. d < a
      BY <1>3, <2>3 DEF Slots
    <3> QED BY <1>0, <1>5, <2>1, <2>3, <3>1 DEF RxInv, RxFilled
  <2> QED BY <2>2, <2>3
<1>12. RxFrames'
  <2>1. Done' = Done /\ Held' = Held
    BY <1>0, <1>2, <1>5 DEF Done, Held, Behind
  <2> QED BY <1>0, <1>5, <2>1 DEF RxInv, RxFrames
<1> QED BY <1>9, <1>10, <1>11, <1>12 DEF RxInv

\* The handler puts a buffer back: descriptor, ring entry, index.
LEMMA RxAddDesc ==
  ASSUME RingInv, Kinds, RxInv, AddDesc, call.q = "rx"
  PROVE  RxInv'
<1> DEFINE a == mem["rx"].avail
           h == a % Num
<1>1. a \in Nat /\ h \in Slots /\ DOMAIN mem["rx"].addr = Slots
  BY SlotOf DEF Kinds, KindOf, Idx
<1>2. pc = "add_desc"
  BY DEF AddDesc
<1>3. ~ Holding("rx") /\ Adding("rx")
  BY <1>2 DEF Holding, Adding
<1>4. drv["rx"].free_head = h /\ call.buf = h + 1 /\ mem["rx"].addr[h] = h + 1
      /\ mem["rx"].next[h] = (h + 1) % Num
  <2>1. a + 0 = a
    BY <1>1
  <2>2. boot # "fill"
    BY <1>2, InitOver DEF Adding
  <2> QED BY <1>1, <1>2, <1>3, <2>1, <2>2 DEF RxInv, RxHead, RxFilled
<1>5. /\ pc' = "add_ring" /\ mem'["rx"].next = mem["rx"].next /\ mem'["rx"].used = mem["rx"].used
      /\ mem'["rx"].ring = mem["rx"].ring
      /\ mem'["rx"].used_idx = mem["rx"].used_idx /\ mem'["rx"].avail = a
      /\ mem'["rx"].addr = [mem["rx"].addr EXCEPT ![h] = h + 1]
      /\ drv'["rx"].free_head = (h + 1) % Num /\ drv'["rx"].used_idx = drv["rx"].used_idx
      /\ call'.q = "rx" /\ call'.head = h /\ call'.buf = h + 1
      /\ UNCHANGED <<boot, dev, buffer, stored, delivered>>
  BY <1>4, AddDescDoes DEF RingInv, net
<1>6. \A d \in Slots : mem'["rx"].addr[d] = mem["rx"].addr[d]
  <2> HIDE DEF h
  <2> QED BY <1>1, <1>4, <1>5
<1>7. Holding("rx")' /\ Adding("rx")'
  BY <1>5 DEF Holding, Adding
<1>8. (h + 1) % Num = (a + 1) % Num
  <2> DEFINE q == a \div Num
  <2>1. q \in Int /\ h \in Nat /\ h < Num /\ a = q * Num + h /\ Num \in Nat \ {0}
    BY <1>1, SizeAssumption
  <2> HIDE DEF h, q
  <2>2. CASE h = Num - 1
    <3>1. a + 1 = (q + 1) * Num + 0 /\ a + 1 \in Nat /\ h + 1 = 1 * Num + 0 /\ h + 1 \in Nat
      BY <1>1, <2>1, <2>2
    <3>2. (a + 1) % Num = 0
      BY <2>1, <3>1, RemainderIs
    <3>3. (h + 1) % Num = 0
      BY <2>1, <3>1, RemainderIs
    <3> QED BY <3>2, <3>3
  <2>3. CASE h # Num - 1
    <3>1. a + 1 = q * Num + (h + 1) /\ a + 1 \in Nat /\ h + 1 \in Nat /\ h + 1 < Num
      BY <1>1, <2>1, <2>3
    <3>2. (a + 1) % Num = h + 1
      BY <2>1, <3>1, RemainderIs
    <3>3. (h + 1) % Num = h + 1
      BY <2>1, <3>1
    <3> QED BY <3>2, <3>3
  <2> QED BY <2>2, <2>3
<1> HIDE DEF h
<1>9. RxRings'
  <2>1. Unseen("rx")' = Unseen("rx") /\ Unreaped("rx")' = Unreaped("rx")
    BY <1>5 DEF Unseen, Unreaped, Span, Behind
  <2> QED BY <1>5, <2>1 DEF RxInv, RxRings, Run
<1>10. RxHead'
  BY <1>5, <1>7, <1>8 DEF RxInv, RxHead, h
<1>11. RxFilled'
  <2>1. Out("rx")' = Out("rx")
    BY <1>5 DEF Out, Behind
  <2> QED BY <1>2, <1>5, <1>6, <2>1 DEF RxInv, RxFilled
<1>12. RxFrames'
  <2>1. Done' = Done /\ Held' = Held
    BY <1>3, <1>5, <1>7 DEF Done, Held, Behind
  <2> QED BY <1>5, <2>1 DEF RxInv, RxFrames
<1> QED BY <1>9, <1>10, <1>11, <1>12 DEF RxInv

LEMMA RxAddRing ==
  ASSUME RingInv, Kinds, RxInv, AddRing, call.q = "rx"
  PROVE  RxInv'
<1> DEFINE a == mem["rx"].avail
           h == call.head
<1>1. /\ pc = "add_ring" /\ pc' = "add_idx"
      /\ mem'["rx"].next = mem["rx"].next /\ mem'["rx"].used = mem["rx"].used
      /\ mem'["rx"].addr = mem["rx"].addr
      /\ mem'["rx"].avail = a /\ mem'["rx"].used_idx = mem["rx"].used_idx
      /\ mem'["rx"].ring = [mem["rx"].ring EXCEPT ![a % Num] = h]
      /\ UNCHANGED <<boot, drv, dev, call, buffer, stored, delivered>>
  BY AddRingDoes DEF RingInv, net
<1>2. Adding("rx") /\ Holding("rx") /\ Adding("rx")' /\ Holding("rx")'
  BY <1>1 DEF Adding, Holding
<1>3. /\ mem["rx"].ring \in [Slots -> Slots] /\ h \in Slots
      /\ a \in Idx /\ dev["rx"].seen \in Idx /\ a % Num \in Slots
  BY SlotOf DEF Kinds, KindOf, Idx
<1>4. Unseen("rx")' = Unseen("rx")
  BY <1>1, <1>2, <1>3, RxRoom, SpanStays DEF Unseen
<1>5. RxRings'
  <2>1. Unreaped("rx")' = Unreaped("rx")
    BY <1>1 DEF Unreaped, Span, Behind
  <2> QED BY <1>1, <1>4, <2>1 DEF RxInv, RxRings, Run
<1>6. RxHead'
  <2>1. mem'["rx"].ring[a % Num] = h
    BY <1>1, <1>3
  <2> QED BY <1>1, <1>2, <2>1 DEF RxInv, RxHead
<1>7. RxFilled'
  <2>1. Out("rx")' = Out("rx")
    BY <1>1 DEF Out, Behind
  <2> QED BY <1>1, <2>1 DEF RxInv, RxFilled
<1>8. RxFrames'
  <2>1. Done' = Done /\ Held' = Held
    BY <1>1, <1>2 DEF Done, Held, Behind
  <2> QED BY <1>1, <2>1 DEF RxInv, RxFrames
<1> QED BY <1>5, <1>6, <1>7, <1>8 DEF RxInv

\* It publishes the entry and is done with the frame.
LEMMA RxAddIdx ==
  ASSUME RingInv, Kinds, RxInv, AddIdxRx
  PROVE  RxInv'
<1> DEFINE a == mem["rx"].avail
           u == drv["rx"].used_idx
           h == call.head
           U == Unseen("rx")
           R == Unreaped("rx")
<1>1. /\ pc = "add_idx" /\ call.q = "rx" /\ pc' = "reap_rx"
      /\ mem'["rx"].next = mem["rx"].next /\ mem'["rx"].used = mem["rx"].used
      /\ mem'["rx"].ring = mem["rx"].ring /\ mem'["rx"].addr = mem["rx"].addr
      /\ mem'["rx"].used_idx = mem["rx"].used_idx /\ mem'["rx"].avail = Inc(a)
      /\ drv'["rx"].free_head = drv["rx"].free_head /\ drv'["rx"].used_idx = Inc(u)
      /\ UNCHANGED <<boot, dev, call, buffer, stored, delivered>>
  BY AddIdxRxDoes DEF RingInv, net
<1>2. Adding("rx") /\ Holding("rx") /\ ~ Adding("rx")' /\ ~ Holding("rx")'
  BY <1>1 DEF Adding, Holding
<1>3. /\ mem["rx"].ring \in [Slots -> Slots] /\ mem["rx"].used \in [Slots -> Slots] /\ h \in Slots
      /\ a \in Idx /\ dev["rx"].seen \in Idx /\ mem["rx"].used_idx \in Idx /\ u \in Idx
      /\ a \in Nat /\ u \in Nat /\ dev["rx"].seen \in Nat
  BY DEF Kinds, KindOf, Idx
<1>4. /\ u # mem["rx"].used_idx
      /\ Behind(dev["rx"].seen, a) \in Nat /\ Behind(dev["rx"].seen, a) + 1 < IdxMod
  BY <1>2, RxRoom, Sizes
<1>5. h = a % Num /\ mem["rx"].ring[a % Num] = h /\ drv["rx"].free_head = (a + 1) % Num
  BY <1>1, <1>2 DEF RxInv, RxHead
<1>6. Unseen("rx")' = Append(U, h) /\ Unreaped("rx")' = Tail(R) /\ R # <<>>
  <2>1. /\ U = Span(mem["rx"].ring, dev["rx"].seen, a)
        /\ R = Span(mem["rx"].used, u, mem["rx"].used_idx)
        /\ Unseen("rx")' = Span(mem["rx"].ring, dev["rx"].seen, Inc(a))
        /\ Unreaped("rx")' = Span(mem["rx"].used, Inc(u), mem["rx"].used_idx)
    BY <1>1 DEF Unseen, Unreaped
  <2> HIDE DEF U, R, a, u
  <2>2. Unseen("rx")' = Append(U, h)
    <3> DEFINE ring == mem["rx"].ring
               s == dev["rx"].seen
    <3>1. ring \in [Slots -> Slots] /\ a \in Idx /\ s \in Idx /\ Behind(s, a) + 1 < IdxMod
      BY <1>3, <1>4
    <3>2. /\ U = Span(ring, s, a) /\ Unseen("rx")' = Span(ring, s, Inc(a))
          /\ ring[a % Num] = h
      BY <1>5, <2>1
    <3> HIDE DEF ring, s
    <3>3. Span(ring, s, Inc(a)) = Append(Span(ring, s, a), ring[a % Num])
      BY <3>1, SpanGrows
    <3> QED BY <3>2, <3>3
  <2>3. Unreaped("rx")' = Tail(R) /\ R # <<>>
    BY <1>3, <1>4, <2>1, SpanShrinks
  <2> QED BY <2>2, <2>3
<1>7. /\ U \in Seq(Slots) /\ Len(U) = Behind(dev["rx"].seen, a) /\ R \in Seq(Slots)
  BY Parts DEF Kinds, Queues
<1>8. Run(U, dev["rx"].seen) /\ Run(R, u) /\ Run(dev["rx"].taken, mem["rx"].used_idx)
  BY DEF RxInv, RxRings
<1> HIDE DEF U, R
<1>9. RxRings'
  <2>1. (dev["rx"].seen + Len(U)) % Num = h
    BY <1>3, <1>5, <1>7, EndSlot
  <2>2. Run(Append(U, h), dev["rx"].seen)
    BY <1>3, <1>7, <1>8, <2>1, RunAppend
  <2>3. Run(Tail(R), Inc(u))
    BY <1>3, <1>6, <1>7, <1>8, RunTail
  <2> QED BY <1>1, <1>6, <1>8, <2>2, <2>3 DEF RxRings, Run
<1>10. RxHead'
  <2>1. Inc(a) % Num = (a + 1) % Num
    <3>1. (Inc(a) + 0) % Num = (a + 1 + 0) % Num
      BY <1>3, IncSlot
    <3>2. Inc(a) + 0 = Inc(a) /\ a + 1 + 0 = a + 1
      BY <1>3, IncIs DEF Idx
    <3> QED BY <3>1, <3>2
  <2>2. (Inc(a) + 0) % Num = Inc(a) % Num
    <3>1. Inc(a) + 0 = Inc(a)
      BY <1>3, IncIs DEF Idx
    <3> QED BY <3>1
  <2> QED BY <1>1, <1>2, <1>5, <2>1, <2>2 DEF RxInv, RxHead
<1>11. RxFilled'
  <2>1. Out("rx")' = Out("rx")
    BY <1>1, <1>4, RenewStep DEF RingInv, Queues
  <2>2. boot = "done"
    BY <1>1, <1>2, InitOver DEF Adding
  <2>3. \A d \in Slots : mem["rx"].addr[d] = d + 1
    BY <2>2 DEF RxInv, RxFilled
  <2>4. Out("rx") = Num
    BY <2>2 DEF RxInv, RxFilled
  <2> QED BY <1>1, <2>1, <2>3, <2>4 DEF RxFilled
<1>12. RxFrames'
  <2>1. Done = Len(delivered) - 1 /\ Done' = Len(delivered) - 0
    BY <1>1, <1>2 DEF Done
  <2>2. Behind(Inc(u), mem["rx"].used_idx) = Behind(u, mem["rx"].used_idx) - 1
    BY <1>3, <1>4, BehindShrinks
  <2>3. /\ Behind(u, mem["rx"].used_idx) \in Nat
        /\ Behind(mem["rx"].used_idx, dev["rx"].seen) \in Nat
    BY OutType DEF RingInv, Queues
  <2>4. Held \in Nat /\ Held' = Held - 1
    BY <1>1, <2>2, <2>3 DEF Held
  <2>5. Len(delivered) \in Nat
    BY DEF RxInv, RxFrames
  <2>6. ASSUME NEW n \in 1 .. (Held - 1)
        PROVE  buffer[((Inc(u) + n - 1) % Num) + 1] = (Done + 1) + n
    <3>1. n + 1 \in 1 .. Held /\ n - 1 \in Nat
      BY <2>4
    <3>2. buffer[((u + (n + 1) - 1) % Num) + 1] = Done + (n + 1)
      BY <3>1 DEF RxInv, RxFrames
    <3>3. (Inc(u) + (n - 1)) % Num = (u + 1 + (n - 1)) % Num
      BY <1>3, <3>1, IncSlot
    <3>4. /\ u + 1 + (n - 1) = u + (n + 1) - 1 /\ Inc(u) + (n - 1) = Inc(u) + n - 1
          /\ Done + (n + 1) = (Done + 1) + n
      <4>1. u \in Int /\ Inc(u) \in Int /\ n \in Int
        BY <1>3, IncIs DEF Idx
      <4>2. Done \in Int
        BY <2>5 DEF Done
      <4> HIDE DEF u
      <4> QED BY <4>1, <4>2
    <3> QED BY <3>2, <3>3, <3>4
  <2>7. Done' = Done + 1 /\ Done \in Int
    BY <2>1, <2>5
  <2>8. stored = Done' + Held'
    BY <2>4, <2>7 DEF RxInv, RxFrames
  <2> QED BY <1>1, <2>4, <2>6, <2>7, <2>8 DEF RxInv, RxFrames
<1> QED BY <1>9, <1>10, <1>11, <1>12 DEF RxInv

\* The handler looks at the frame that was announced first.
LEMMA RxReap ==
  ASSUME RingInv, Kinds, RxInv, ReapRx
  PROVE  RxInv'
<1> DEFINE a == mem["rx"].avail
           u == drv["rx"].used_idx
           x == mem["rx"].used[u % Num]
           R == Unreaped("rx")
<1>1. /\ Same("rx") /\ pc = "reap_rx" /\ pc' = "add_desc" /\ u # call.rx
      /\ delivered' = Append(delivered, buffer[x + 1])
      /\ call'.q = "rx" /\ call'.buf = x + 1
      /\ UNCHANGED <<boot, buffer, stored>>
  BY ReapRxDoes DEF RingInv
<1>2. ~ Adding("rx") /\ ~ Holding("rx") /\ Adding("rx")' /\ ~ Holding("rx")'
  BY <1>1 DEF Adding, Holding
<1>3. /\ a \in Idx /\ u \in Idx /\ mem["rx"].used_idx \in Idx /\ call.rx \in Idx
      /\ a \in Nat /\ u \in Nat /\ mem["rx"].used \in [Slots -> Slots]
  BY DEF Kinds, KindOf, Idx, RingInv, ShapeOK, CallShape
<1>4. u # mem["rx"].used_idx
  <2>1. Behind(u, call.rx) <= Behind(u, mem["rx"].used_idx)
    BY <1>1 DEF RingInv, SnapOK, InRxLoop
  <2>2. Behind(u, call.rx) \in Nat /\ Behind(u, call.rx) # 0 /\ Behind(u, u) = 0
    <3>1. \A i \in Idx : i \in Nat
      BY DEF Idx
    <3> QED BY <1>1, <1>3, <3>1, BehindType
  <2> SUFFICES ASSUME u = mem["rx"].used_idx PROVE FALSE
    OBVIOUS
  <2> QED BY <2>1, <2>2
<1>5. x = u % Num
  <2>1. R # <<>> /\ Head(R) = x
    BY <1>3, <1>4, SpanShrinks DEF Unreaped
  <2>2. R \in Seq(Slots) /\ Run(R, u)
    BY Parts DEF Kinds, RxInv, RxRings, Queues
  <2> HIDE DEF R, x
  <2> QED BY <1>3, <2>1, <2>2, RunTail
<1>6. u % Num = a % Num
  <2>1. Out("rx") = Num
    <3>1. boot = "done"
      BY <1>1, InitOver DEF Adding
    <3> QED BY <3>1 DEF RxInv, RxFilled
  <2>2. Behind(u, a) = Num
    BY <2>1, OutIsBehind DEF RingInv, Queues
  <2>3. (u + Num) % Num = a % Num
    BY <1>3, <2>2, EndSlot
  <2> QED BY <1>3, <2>3, RingSlot
<1>7. RxRings'
  BY <1>1, PartsSame DEF RxInv, RxRings, Run, Same
<1>8. RxHead'
  BY <1>1, <1>2, <1>5, <1>6 DEF RxInv, RxHead, Same
<1>9. RxFilled'
  BY <1>1, PartsSame DEF RxInv, RxFilled, Same
<1>10. RxFrames'
  <2> DEFINE w == Len(delivered)
  <2>1. w \in Nat /\ delivered = [n \in 1 .. w |-> n] /\ Done = w - 0
    BY <1>2 DEF RxInv, RxFrames, Done
  <2>2. Held \in Nat /\ 1 <= Held
    <3>1. /\ Behind(u, mem["rx"].used_idx) \in Nat /\ Behind(u, mem["rx"].used_idx) # 0
          /\ Behind(mem["rx"].used_idx, dev["rx"].seen) \in Nat
      BY <1>3, <1>4, OutType, BehindType DEF RingInv, Queues
    <3> QED BY <3>1 DEF Held
  <2>3. buffer[x + 1] = w + 1
    <3>1. buffer[((u + 1 - 1) % Num) + 1] = Done + 1
      BY <2>2 DEF RxInv, RxFrames
    <3>2. u + 1 - 1 = u /\ Done = w
      BY <1>3, <2>1
    <3> QED BY <1>5, <3>1, <3>2
  <2>4. delivered' = [n \in 1 .. (w + 1) |-> n] /\ Len(delivered') = w + 1
    <3> HIDE DEF w
    <3>1. delivered' = Append([n \in 1 .. w |-> n], w + 1)
      BY <1>1, <2>1, <2>3
    <3> QED BY <2>1, <3>1, CountOn
  <2>5. Done' = (w + 1) - 1
    BY <1>2, <2>4 DEF Done
  <2> HIDE DEF w
  <2>6. Done' = Done /\ Held' = Held
    BY <1>1, <2>1, <2>5 DEF Held, Same, Behind
  <2>7. w + 1 \in Nat
    BY <2>1
  <2> QED BY <1>1, <2>4, <2>6, <2>7 DEF RxInv, RxFrames, Same
<1> QED BY <1>7, <1>8, <1>9, <1>10 DEF RxInv

\* The device stores a frame in the buffer offered next: no other frame is there.
LEMMA RxReceive ==
  ASSUME RingInv, Kinds, RxInv, DevReceive
  PROVE  RxInv'
<1> DEFINE s == dev["rx"].seen
           u == drv["rx"].used_idx
           m == mem["rx"].used_idx
           U == Unseen("rx")
           T == dev["rx"].taken
           x == mem["rx"].ring[s % Num]
<1>1. /\ live /\ s # mem["rx"].avail /\ dev'["rx"].seen = Inc(s) /\ dev'["rx"].taken = Append(T, x)
      /\ stored' = stored + 1
      /\ buffer' = [buffer EXCEPT ![mem["rx"].addr[x]] = stored + 1]
      /\ UNCHANGED <<boot, pc, mem, drv, live, call, delivered>>
  BY ReceiveDoes DEF RingInv
<1>2. /\ mem["rx"].ring \in [Slots -> Slots] /\ mem["rx"].avail \in Idx
      /\ s \in Idx /\ s \in Nat /\ m \in Idx /\ m \in Nat /\ u \in Idx /\ u \in Nat
  BY DEF Kinds, KindOf, Idx
<1>3. U # <<>> /\ Head(U) = x /\ Unseen("rx")' = Tail(U)
  <2>1. U = Span(mem["rx"].ring, s, mem["rx"].avail)
    BY DEF Unseen
  <2>2. Unseen("rx")' = Span(mem["rx"].ring, Inc(s), mem["rx"].avail)
    BY <1>1 DEF Unseen
  <2> HIDE DEF U, s
  <2> QED BY <1>1, <1>2, <2>1, <2>2, SpanShrinks DEF x
<1>4. U \in Seq(Slots) /\ T \in Seq(Slots) /\ Len(T) = Behind(m, s)
  BY Parts DEF Kinds, Queues
<1>5. Run(U, s) /\ Run(T, m) /\ Run(Unreaped("rx"), u)
  BY DEF RxInv, RxRings
<1>6. Unreaped("rx")' = Unreaped("rx")
  BY <1>1 DEF Unreaped, Span, Behind
<1>7. x = s % Num /\ x \in Slots
  <2> HIDE DEF U, x
  <2>1. x = s % Num
    BY <1>2, <1>3, <1>4, <1>5, RunTail
  <2> QED BY <1>2, <2>1, SlotOf
<1>8. boot # "fill"
  BY <1>1 DEF RingInv, RoomOK
<1>9. mem["rx"].addr[x] = x + 1
  BY <1>7, <1>8 DEF RxInv, RxFilled
<1>10. RxRings'
  <2> HIDE DEF U, T, x
  <2>1. Run(Tail(U), Inc(s))
    BY <1>2, <1>3, <1>4, <1>5, RunTail
  <2>2. (m + Len(T)) % Num = x
    BY <1>2, <1>4, <1>7, EndSlot
  <2>3. Run(Append(T, x), m)
    BY <1>2, <1>4, <1>5, <2>2, RunAppend
  <2> QED BY <1>1, <1>3, <1>5, <1>6, <2>1, <2>3 DEF RxRings, Run
<1>11. RxHead'
  BY <1>1 DEF RxInv, RxHead, Holding, Adding
<1>12. /\ Behind(u, m) \in Nat /\ Behind(m, s) \in Nat /\ Behind(s, mem["rx"].avail) \in Nat
       /\ Behind(s, mem["rx"].avail) # 0
       /\ Behind(u, m) + Behind(m, s) + Behind(s, mem["rx"].avail) <= Num
  BY <1>1, <1>2, OutType, BehindType DEF RingInv, QueueOK, Out, Queues
<1>13. Out("rx")' = Out("rx") /\ Behind(m, Inc(s)) = Behind(m, s) + 1
  <2>1. Behind(m, s) + 1 < IdxMod
    BY <1>12, Sizes
  <2>2. Behind(m, Inc(s)) = Behind(m, s) + 1
    BY <1>2, <2>1, BehindGrows
  <2>3. Len(Append(T, x)) = Len(T) + 1
    <3> HIDE DEF T, x
    <3> QED BY <1>4, <1>7
  <2> QED BY <1>1, <2>2, <2>3, TakeStep DEF RingInv, Queues
<1>14. RxFilled'
  BY <1>1, <1>13 DEF RxInv, RxFilled
<1>15. RxFrames'
  <2>1. Done' = Done /\ Held' = Held + 1 /\ Held \in Nat /\ Held < Num
    <3>1. Done' = Done
      BY <1>1 DEF Done, Adding
    <3>2. Held = Behind(u, m) + Behind(m, s) /\ Held' = Behind(u, m) + Behind(m, Inc(s))
      BY <1>1 DEF Held
    <3> HIDE DEF u, m, s
    <3> QED BY <1>12, <1>13, <3>1, <3>2, Sizes
  <2>2. Len(delivered) \in Nat /\ DOMAIN buffer = 1 .. Num /\ stored = Done + Held
        /\ \A n \in 1 .. Held : buffer[((u + n - 1) % Num) + 1] = Done + n
    BY DEF RxInv, RxFrames
  <2>3. Done \in Int
    BY <2>2 DEF Done
  <2>4. (u + (Held + 1) - 1) % Num = x
    <3>1. Behind(u, m) + Behind(m, s) < IdxMod
      BY <1>12, Sizes
    <3>2. Behind(u, s) = Held
      BY <1>2, <3>1, BehindAdds DEF Held
    <3>3. (u + Held) % Num = s % Num /\ u + (Held + 1) - 1 = u + Held
      BY <1>2, <2>1, <3>2, EndSlot
    <3> QED BY <1>7, <3>3
  <2>5. buffer' = [buffer EXCEPT ![x + 1] = stored + 1] /\ x + 1 \in 1 .. Num
    BY <1>1, <1>7, <1>9, Sizes DEF Slots
  <2> HIDE DEF x
  <2>6. ASSUME NEW n \in 1 .. (Held + 1)
        PROVE  buffer'[((u + n - 1) % Num) + 1] = Done + n
    <3>1. CASE n = Held + 1
      BY <2>1, <2>2, <2>3, <2>4, <2>5, <3>1
    <3>2. CASE n # Held + 1
      <4>1. n \in 1 .. Held /\ n - 1 \in Nat /\ n - 1 < Held /\ Held - (n - 1) < Num
        BY <2>1, <3>2, Sizes
      <4>2. (u + (n - 1)) % Num # (u + Held) % Num
        BY <1>2, <2>1, <4>1, NearApart
      <4>3. u + (n - 1) = u + n - 1 /\ u + (Held + 1) - 1 = u + Held
        BY <1>2, <2>1, <4>1
      <4>4. (u + n - 1) % Num # x /\ (u + n - 1) % Num \in Slots
        BY <1>2, <2>4, <4>1, <4>2, <4>3, SlotOf
      <4>5. ((u + n - 1) % Num) + 1 # x + 1 /\ ((u + n - 1) % Num) + 1 \in 1 .. Num
        BY <1>7, <4>4, Sizes DEF Slots
      <4> QED BY <2>2, <2>5, <4>1, <4>5
    <3> QED BY <3>1, <3>2
  <2>7. stored + 1 = Done + (Held + 1)
    BY <2>1, <2>2, <2>3
  <2>8. DOMAIN buffer' = 1 .. Num
    BY <2>2, <2>5
  <2> QED BY <1>1, <2>1, <2>6, <2>7, <2>8 DEF RxInv, RxFrames
<1> QED BY <1>10, <1>11, <1>14, <1>15 DEF RxInv

\* The device gives back the buffer it took first.
LEMMA RxComplete ==
  ASSUME RingInv, Kinds, RxInv, "rx" \notin Reorders, DevComplete("rx")
  PROVE  RxInv'
<1> DEFINE T == dev["rx"].taken
           R == Unreaped("rx")
           m == mem["rx"].used_idx
           u == drv["rx"].used_idx
<1>1. /\ 1 \in 1 .. Len(T)
      /\ dev'["rx"].seen = dev["rx"].seen /\ dev'["rx"].taken = Without(T, 1)
      /\ mem'["rx"].next = mem["rx"].next /\ mem'["rx"].addr = mem["rx"].addr
      /\ mem'["rx"].ring = mem["rx"].ring /\ mem'["rx"].avail = mem["rx"].avail
      /\ mem'["rx"].used = [mem["rx"].used EXCEPT ![m % Num] = T[1]]
      /\ mem'["rx"].used_idx = Inc(m)
      /\ UNCHANGED <<boot, pc, drv, call, buffer, stored, delivered>>
  BY CompleteDoes DEF RingInv, Queues, net
<1>2. /\ mem["rx"].used \in [Slots -> Slots] /\ m \in Idx /\ m \in Nat /\ u \in Idx /\ u \in Nat
      /\ m % Num \in Slots
  BY SlotOf DEF Kinds, KindOf, Idx
<1>3. /\ T \in Seq(Slots) /\ R \in Seq(Slots) /\ Len(R) = Behind(u, m)
      /\ Run(T, m) /\ Run(R, u) /\ Run(Unseen("rx"), dev["rx"].seen)
  BY Parts DEF Kinds, RxInv, RxRings, Queues
<1>4. Unseen("rx")' = Unseen("rx")
  BY <1>1 DEF Unseen, Span, Behind
<1>5. /\ Without(T, 1) \in Seq(Slots) /\ Len(Without(T, 1)) = Len(T) - 1
      /\ Len(T) \in Nat \ {0} /\ T[1] \in Slots
      /\ \A k \in 1 .. (Len(T) - 1) : Without(T, 1)[k] = T[IF k < 1 THEN k ELSE k + 1]
  <2> HIDE DEF T
  <2> QED BY <1>1, <1>3, WithoutIs
<1>6. T # <<>> /\ T[1] = Head(T) /\ Without(T, 1) = Tail(T)
  <2> HIDE DEF T
  <2>1. T # <<>> /\ T[1] = Head(T)
    BY <1>3, <1>5
  <2>2. /\ Tail(T) \in Seq(Slots) /\ Len(Tail(T)) = Len(T) - 1
        /\ \A k \in 1 .. (Len(T) - 1) : Tail(T)[k] = T[k + 1]
    BY <1>3, <2>1
  <2>3. \A k \in 1 .. (Len(T) - 1) : Without(T, 1)[k] = T[k + 1]
    BY <1>5
  <2>4. Without(T, 1) = Tail(T)
    BY <1>5, <2>2, <2>3, SeqEqual
  <2> QED BY <2>1, <2>4
<1>7. T[1] = m % Num /\ Run(Tail(T), Inc(m))
  <2> HIDE DEF T
  <2> QED BY <1>2, <1>3, <1>6, RunTail
<1>8. Behind(u, m) < Num /\ Behind(u, m) + 1 < IdxMod /\ Behind(u, m) \in Nat
      /\ Behind(m, dev["rx"].seen) \in Nat /\ Behind(m, dev["rx"].seen) # 0
  <2>1. /\ Behind(u, m) \in Nat /\ Behind(dev["rx"].seen, mem["rx"].avail) \in Nat
        /\ Len(T) = Behind(m, dev["rx"].seen)
        /\ Behind(u, m) + Len(T) + Behind(dev["rx"].seen, mem["rx"].avail) <= Num
    BY OutType DEF RingInv, QueueOK, Out, Queues
  <2> HIDE DEF T
  <2> QED BY <1>5, <2>1, Sizes
<1>9. Unreaped("rx")' = Append(R, m % Num)
  <2> DEFINE new == [mem["rx"].used EXCEPT ![m % Num] = T[1]]
  <2>1. new \in [Slots -> Slots] /\ Span(new, u, m) = R
    <3>1. T[1] \in Slots
      BY <1>5
    <3>2. R = Span(mem["rx"].used, u, m)
      BY DEF Unreaped
    <3> HIDE DEF T, R, u, m
    <3> QED BY <1>2, <1>8, <3>1, <3>2, SpanStays
  <2>2. new[m % Num] = m % Num
    BY <1>2, <1>7
  <2>3. mem'["rx"].used = new
    BY <1>1
  <2> HIDE DEF new
  <2>4. Span(new, u, Inc(m)) = Append(R, m % Num)
    BY <1>2, <1>8, <2>1, <2>2, SpanGrows
  <2> QED BY <1>1, <2>3, <2>4 DEF Unreaped
<1>10. RxRings'
  <2>1. Run(Append(R, m % Num), u)
    <3> HIDE DEF R
    <3>1. (u + Len(R)) % Num = m % Num
      BY <1>2, <1>3, EndSlot
    <3> QED BY <1>2, <1>3, <3>1, RunAppend
  <2>2. Run(Unseen("rx"), dev["rx"].seen)'
    BY <1>1, <1>3, <1>4 DEF Run
  <2>3. Run(dev["rx"].taken, mem["rx"].used_idx)'
    <3>1. dev'["rx"].taken = Tail(T) /\ mem'["rx"].used_idx = Inc(m)
      BY <1>1, <1>6
    <3> QED BY <1>7, <3>1 DEF Run
  <2>4. Run(Unreaped("rx"), drv["rx"].used_idx)'
    BY <1>1, <1>9, <2>1 DEF Run
  <2> QED BY <2>2, <2>3, <2>4 DEF RxRings
<1>11. RxHead'
  BY <1>1 DEF RxInv, RxHead, Holding, Adding
<1>12. RxFilled'
  <2>1. Out("rx")' = Out("rx")
    BY <1>1, <1>5, CompleteStep DEF RingInv, Queues
  <2> QED BY <1>1, <2>1 DEF RxInv, RxFilled
<1>13. RxFrames'
  <2>1. Done' = Done
    BY <1>1 DEF Done, Adding
  <2>2. Behind(u, Inc(m)) = Behind(u, m) + 1
    BY <1>2, <1>8, BehindGrows
  <2>3. m # dev["rx"].seen /\ dev["rx"].seen \in Idx
    BY <1>2, <1>8, BehindType DEF Kinds, KindOf
  <2>4. Behind(Inc(m), dev["rx"].seen) = Behind(m, dev["rx"].seen) - 1
    BY <1>2, <2>3, BehindShrinks
  <2>5. Held' = Held
    BY <1>1, <1>8, <2>2, <2>4 DEF Held
  <2> QED BY <1>1, <2>1, <2>5 DEF RxInv, RxFrames
<1> QED BY <1>10, <1>11, <1>12, <1>13 DEF RxInv

-----------------------------------------------------------------------------
\* What the RX queue's steps keep.
LEMMA RxDriverStep ==
  ASSUME RingInv, Kinds, RxInv, Driver \/ Send
  PROVE  RxInv'
<1>0. ShapeOK
  BY DEF RingInv
<1>1. CASE \/ FillDone \/ EnableDevice \/ UnmaskIrq \/ Kick \/ ReadIsr \/ SnapTx \/ SnapRx
           \/ ReapTxDone \/ IrqReturn
  <2>1. Quiet
    BY <1>0, <1>1, DriverQuiet
  <2>2. /\ Adding("rx")' <=> Adding("rx")
        /\ Adding("rx") => call'.buf = call.buf
    BY <2>1 DEF Quiet, Adding, Adds
  <2> QED BY <2>1, <2>2, QuietHolds, RxKept DEF Quiet
<1>2. CASE FillRx
  BY <1>2, RxFill
<1>3. CASE Send
  <2>1. /\ Same("rx") /\ pc = "idle" /\ pc' = "add_desc" /\ call'.q = "tx"
        /\ UNCHANGED <<boot, buffer, stored, delivered>>
    BY <1>0, <1>3, SendDoes
  <2>2. HoldsSame("rx") /\ ~ Adding("rx")' /\ ~ Adding("rx")
    BY <2>1 DEF HoldsSame, Holding, Adding
  <2> QED BY <2>1, <2>2, RxKept
<1>4. CASE AddDesc /\ call.q = "rx"
  BY <1>4, RxAddDesc
<1>5. CASE AddDesc /\ call.q # "rx"
  <2>1. /\ Same("rx") /\ pc = "add_desc" /\ pc' = "add_ring" /\ call'.q # "rx"
        /\ UNCHANGED <<boot, buffer, stored, delivered>>
    BY <1>0, <1>5, AddDescDoes DEF Queues, net
  <2>2. HoldsSame("rx") /\ ~ Adding("rx")' /\ ~ Adding("rx")
    BY <1>5, <2>1 DEF HoldsSame, Holding, Adding
  <2> QED BY <2>1, <2>2, RxKept
<1>6. CASE AddRing /\ call.q = "rx"
  BY <1>6, RxAddRing
<1>7. CASE AddRing /\ call.q # "rx"
  <2>1. /\ Same("rx") /\ pc = "add_ring" /\ pc' = "add_idx" /\ call' = call
        /\ UNCHANGED <<boot, buffer, stored, delivered>>
    BY <1>0, <1>7, AddRingDoes DEF Queues, net
  <2>2. HoldsSame("rx") /\ ~ Adding("rx")' /\ ~ Adding("rx")
    BY <1>7, <2>1 DEF HoldsSame, Holding, Adding
  <2> QED BY <2>1, <2>2, RxKept
<1>8. CASE AddIdxTx
  <2>1. /\ Same("rx") /\ pc = "add_idx" /\ call.q = "tx" /\ pc' = "kick" /\ call' = call
        /\ UNCHANGED <<boot, buffer, stored, delivered>>
    BY <1>0, <1>8, AddIdxTxDoes DEF net
  <2>2. HoldsSame("rx") /\ ~ Adding("rx")' /\ ~ Adding("rx")
    BY <2>1 DEF HoldsSame, Holding, Adding
  <2> QED BY <2>1, <2>2, RxKept
<1>9. CASE AddIdxRx
  BY <1>9, RxAddIdx
<1>10. CASE ReapTx
  <2>1. /\ Same("rx") /\ pc = "reap_tx" /\ pc' = "reap_tx" /\ call' = call
        /\ UNCHANGED <<boot, buffer, stored, delivered>>
    BY <1>0, <1>10, ReapTxDoes DEF net
  <2>2. HoldsSame("rx") /\ ~ Adding("rx")' /\ ~ Adding("rx")
    BY <2>1 DEF HoldsSame, Holding, Adding
  <2> QED BY <2>1, <2>2, RxKept
<1>11. CASE ReapRx
  BY <1>11, RxReap
<1> QED BY <1>1, <1>2, <1>3, <1>4, <1>5, <1>6, <1>7, <1>8, <1>9, <1>10, <1>11
        DEF Driver, DriverInit

LEMMA RxDeviceStep ==
  ASSUME RingInv, Kinds, RxInv, "rx" \notin Reorders, NEW q \in Queues,
         \/ FrameArrives \/ DevTransmit \/ DevReceive
         \/ DevComplete(q) \/ DevSignal(q) \/ DevRests(q) \/ UNCHANGED vars
  PROVE  RxInv'
<1>0. ShapeOK
  BY DEF RingInv
<1>1. CASE FrameArrives \/ DevSignal(q) \/ DevRests(q) \/ UNCHANGED vars
  <2>1. Quiet /\ pc' = pc /\ call' = call
    BY <1>0, <1>1, DeviceQuiet, DriverQuiet DEF vars
  <2>2. /\ Adding("rx")' <=> Adding("rx")
        /\ HoldsSame("rx")
    BY <2>1, QuietHolds DEF Adding
  <2> QED BY <2>1, <2>2, RxKept DEF Quiet
<1>2. CASE DevTransmit
  <2>1. Same("rx") /\ UNCHANGED <<boot, pc, call, buffer, stored, delivered>>
    BY <1>0, <1>2, TransmitDoes
  <2>2. /\ Adding("rx")' <=> Adding("rx")
        /\ HoldsSame("rx")
    BY <2>1 DEF HoldsSame, Holding, Adding
  <2> QED BY <2>1, <2>2, RxKept
<1>3. CASE DevReceive
  BY <1>3, RxReceive
<1>4. CASE DevComplete(q) /\ q = "rx"
  BY <1>4, RxComplete
<1>5. CASE DevComplete(q) /\ q # "rx"
  <2>1. Same("rx") /\ UNCHANGED <<boot, pc, call, buffer, stored, delivered>>
    BY <1>0, <1>5, CompleteDoes DEF net, Queues
  <2>2. /\ Adding("rx")' <=> Adding("rx")
        /\ HoldsSame("rx")
    BY <2>1 DEF HoldsSame, Holding, Adding
  <2> QED BY <2>1, <2>2, RxKept
<1> QED BY <1>1, <1>2, <1>3, <1>4, <1>5

-----------------------------------------------------------------------------
\* The RX queue's descriptors, wherever they are, differ: they are less than a ring's
\* length apart.
LEMMA RunDistinct ==
  ASSUME NEW s \in Seq(Slots), NEW a \in Nat, Run(s, a), Len(s) <= Num
  PROVE  Distinct(s)
<1> SUFFICES ASSUME NEW i \in 1 .. Len(s), NEW j \in 1 .. Len(s), i < j
             PROVE  s[i] # s[j]
  <2>1. DOMAIN s = 1 .. Len(s) /\ Len(s) \in Nat
    OBVIOUS
  <2> QED BY <2>1 DEF Distinct
<1>1. /\ i - 1 \in Nat /\ j - 1 \in Nat /\ i - 1 < j - 1 /\ (j - 1) - (i - 1) < Num
      /\ a + (i - 1) = a + i - 1 /\ a + (j - 1) = a + j - 1
  BY Sizes
<1>2. (a + (i - 1)) % Num # (a + (j - 1)) % Num
  BY <1>1, NearApart
<1> QED BY <1>1, <1>2 DEF Run

LEMMA RunConcat ==
  ASSUME NEW s \in Seq(Slots), NEW t \in Seq(Slots), NEW a \in Idx, NEW b \in Idx,
         Run(s, a), Run(t, b), Len(s) = Behind(a, b)
  PROVE  Run(s \o t, a)
<1> DEFINE r == s \o t
<1>1. /\ Len(s) \in Nat /\ Len(t) \in Nat /\ Len(r) = Len(s) + Len(t)
      /\ \A k \in 1 .. (Len(s) + Len(t)) : r[k] = IF k <= Len(s) THEN s[k] ELSE t[k - Len(s)]
  <2>1. /\ Len(s \o t) = Len(s) + Len(t)
        /\ \A k \in 1 .. (Len(s) + Len(t)) : (s \o t)[k] = IF k <= Len(s) THEN s[k] ELSE t[k - Len(s)]
    BY ConcatProperties, Zenon
  <2> QED BY <2>1
<1>2. a \in Nat /\ b \in Nat
  BY DEF Idx
<1> HIDE DEF r
<1> SUFFICES ASSUME NEW k \in 1 .. (Len(s) + Len(t)) PROVE r[k] = (a + k - 1) % Num
  BY <1>1 DEF Run, r
<1>3. CASE k <= Len(s)
  <2>1. k \in 1 .. Len(s) /\ r[k] = s[k]
    BY <1>1, <1>3
  <2> QED BY <2>1 DEF Run
<1>4. CASE ~ (k <= Len(s))
  <2> DEFINE j == k - Len(s)
  <2>1. j \in 1 .. Len(t) /\ r[k] = t[j]
    BY <1>1, <1>4
  <2>2. t[j] = (b + j - 1) % Num
    BY <2>1 DEF Run
  <2>3. j - 1 \in Nat /\ b + j - 1 = b + (j - 1) /\ a + k - 1 = a + Behind(a, b) + (j - 1)
    BY <1>1, <1>2, <2>1
  <2> QED BY <2>1, <2>2, <2>3, Onward
<1> QED BY <1>3, <1>4

\* The parts of a sequence without repetition have no element in common.
LEMMA DistinctApart ==
  ASSUME NEW S, NEW s \in Seq(S), NEW t \in Seq(S), Distinct(s \o t)
  PROVE  /\ Distinct(s) /\ Distinct(t) /\ Entries(s) \cap Entries(t) = {}
         /\ Entries(s \o t) = Entries(s) \cup Entries(t)
<1> DEFINE r == s \o t
           m == Len(s)
           l == Len(t)
<1>1. /\ m \in Nat /\ l \in Nat /\ DOMAIN s = 1 .. m /\ DOMAIN t = 1 .. l
      /\ DOMAIN r = 1 .. (m + l)
      /\ \A k \in 1 .. m : r[k] = s[k]
      /\ \A k \in 1 .. l : r[m + k] = t[k] /\ m + k \in 1 .. (m + l)
      /\ \A k \in 1 .. (m + l) : k \in 1 .. m \/ (k - m \in 1 .. l /\ m + (k - m) = k)
  BY Joined
<1> HIDE DEF r, m, l
<1>2. \A i, j \in 1 .. (m + l) : i # j => r[i] # r[j]
  BY <1>1 DEF Distinct, r
<1>3. \A k \in 1 .. m : k \in 1 .. (m + l) /\ \A j \in 1 .. l : m + j # k
  BY <1>1
<1>4. Distinct(s)
  BY <1>1, <1>2, <1>3 DEF Distinct
<1>5. Distinct(t)
  <2> SUFFICES ASSUME NEW i \in 1 .. l, NEW j \in 1 .. l, i # j PROVE t[i] # t[j]
    BY <1>1 DEF Distinct
  <2>1. m + i # m + j /\ m + i \in 1 .. (m + l) /\ m + j \in 1 .. (m + l)
    BY <1>1
  <2> QED BY <1>1, <1>2, <2>1
<1>6. \A i \in 1 .. m, j \in 1 .. l : s[i] # t[j]
  BY <1>1, <1>2, <1>3
<1>7. Entries(s) \cap Entries(t) = {}
  BY <1>1, <1>6 DEF Entries
<1>8. Entries(r) = Entries(s) \cup Entries(t)
  <2>1. ASSUME NEW x \in Entries(r) PROVE x \in Entries(s) \cup Entries(t)
    <3>1. PICK k \in 1 .. (m + l) : x = r[k]
      BY <1>1 DEF Entries
    <3>2. CASE k \in 1 .. m
      BY <1>1, <3>1, <3>2 DEF Entries
    <3>3. CASE k \notin 1 .. m
      <4>1. k - m \in 1 .. l /\ x = t[k - m]
        BY <1>1, <3>1, <3>3
      <4> QED BY <1>1, <4>1 DEF Entries
    <3> QED BY <3>2, <3>3
  <2>2. ASSUME NEW x \in Entries(s) PROVE x \in Entries(r)
    <3>1. PICK k \in 1 .. m : x = s[k]
      BY <1>1 DEF Entries
    <3> QED BY <1>1, <1>3, <3>1 DEF Entries
  <2>3. ASSUME NEW x \in Entries(t) PROVE x \in Entries(r)
    <3>1. PICK k \in 1 .. l : x = t[k]
      BY <1>1 DEF Entries
    <3> QED BY <1>1, <3>1 DEF Entries
  <2> QED BY <2>1, <2>2, <2>3
<1> QED BY <1>4, <1>5, <1>7, <1>8 DEF r

\* Read from the last given back to the last offered they are one run.
LEMMA RxDistinct ==
  ASSUME RingInv, Kinds, RxInv
  PROVE  Distinct(InFlight("rx")) /\ Len(InFlight("rx")) = Out("rx")
<1> DEFINE U == Unseen("rx")
           T == dev["rx"].taken
           R == Unreaped("rx")
           u == drv["rx"].used_idx
           m == mem["rx"].used_idx
           s == dev["rx"].seen
<1>1. /\ U \in Seq(Slots) /\ T \in Seq(Slots) /\ R \in Seq(Slots)
      /\ Len(T) = Behind(m, s) /\ Len(R) = Behind(u, m)
      /\ Out("rx") = Len(R) + Len(T) + Len(U) /\ Out("rx") <= Num
  BY Parts DEF Kinds, Queues
<1>2. u \in Idx /\ m \in Idx /\ s \in Idx /\ u \in Nat /\ m \in Nat
  BY DEF Kinds, KindOf, Idx
<1>3. Run(U, s) /\ Run(T, m) /\ Run(R, u)
  BY DEF RxInv, RxRings
<1>4. InFlight("rx") = U \o T \o R
  BY DEF InFlight
<1> HIDE DEF U, T, R, u, m, s
<1>5. /\ Len(U) \in Nat /\ Len(T) \in Nat /\ Len(R) \in Nat
      /\ T \o U \in Seq(Slots) /\ Len(T \o U) = Len(T) + Len(U)
      /\ R \o (T \o U) \in Seq(Slots) /\ Len(R \o (T \o U)) = Len(R) + (Len(T) + Len(U))
      /\ U \o T \in Seq(Slots) /\ Len(U \o T) = Len(U) + Len(T)
      /\ Len(U \o T \o R) = Len(U) + Len(T) + Len(R)
  <2>1. Len(U) \in Nat /\ T \o U \in Seq(Slots) /\ Len(T \o U) = Len(T) + Len(U)
    BY <1>1, JoinedLength
  <2>2. Len(R) \in Nat /\ Len(R \o (T \o U)) = Len(R) + Len(T \o U) /\ R \o (T \o U) \in Seq(Slots)
    BY <1>1, <2>1, JoinedLength
  <2>3. Len(T) \in Nat /\ U \o T \in Seq(Slots) /\ Len(U \o T) = Len(U) + Len(T)
    BY <1>1, JoinedLength
  <2>4. Len((U \o T) \o R) = Len(U \o T) + Len(R)
    BY <1>1, <2>3, JoinedLength
  <2>5. Len(R \o (T \o U)) = Len(R) + (Len(T) + Len(U)) /\ Len(U \o T \o R) = Len(U) + Len(T) + Len(R)
    BY <2>1, <2>2, <2>3, <2>4, Zenon
  <2> QED BY <2>1, <2>2, <2>3, <2>5, Zenon
<1>6. Run(R \o (T \o U), u)
  <2>1. Run(T \o U, m)
    BY <1>1, <1>2, <1>3, RunConcat
  <2> QED BY <1>1, <1>2, <1>3, <1>5, <2>1, RunConcat
<1>7. Distinct(R \o (T \o U))
  <2>1. Len(R \o (T \o U)) <= Num
    <3>1. Len(R) + (Len(T) + Len(U)) <= Num
      BY <1>1, <1>5
    <3> QED BY <1>5, <3>1
  <2> QED BY <1>2, <1>5, <1>6, <2>1, RunDistinct
<1>8. /\ Distinct(U) /\ Distinct(T) /\ Distinct(R)
      /\ Entries(U) \cap Entries(T) = {} /\ Entries(U) \cap Entries(R) = {}
      /\ Entries(T) \cap Entries(R) = {}
  <2>1. /\ Distinct(R) /\ Distinct(T \o U) /\ Entries(R) \cap Entries(T \o U) = {}
    BY <1>1, <1>5, <1>7, DistinctApart
  <2>2. /\ Distinct(T) /\ Distinct(U) /\ Entries(T) \cap Entries(U) = {}
        /\ Entries(T \o U) = Entries(T) \cup Entries(U)
    BY <1>1, <2>1, DistinctApart
  <2> QED BY <2>1, <2>2
<1>9. Distinct(U \o T) /\ Entries(U \o T) = Entries(U) \cup Entries(T)
  BY <1>1, <1>8, ConcatDistinct
<1>10. Distinct(U \o T \o R)
  BY <1>1, <1>5, <1>8, <1>9, ConcatDistinct
<1>11. Len(U) + Len(T) + Len(R) = Out("rx")
  BY <1>1, <1>5
<1> QED BY <1>4, <1>5, <1>10, <1>11

-----------------------------------------------------------------------------
\* The chain from free_head is the list that its links describe: its definition goes
\* from one link to the next, and has one solution.
LEMMA ChainIs ==
  ASSUME NEW e \in Seq(Slots),
         1 <= Len(e) => e[1] = drv["tx"].free_head,
         \A n \in 1 .. (Len(e) - 1) : e[n + 1] = mem["tx"].next[e[n]]
  PROVE  FreeChain(Len(e)) = e
<1> DEFINE h == drv["tx"].free_head
           next == mem["tx"].next
           Solves(g) == g = [k \in 1 .. Len(e) |-> IF k = 1 THEN h ELSE next[g[k - 1]]]
           link == CHOOSE g : Solves(g)
           T == {k \in 1 .. Len(e) : link[k] # e[k]}
<1>1. FreeChain(Len(e)) = [k \in 1 .. Len(e) |-> link[k]]
  BY Zenon DEF FreeChain
<1> HIDE DEF h, next
<1>2. Len(e) \in Nat /\ e = [k \in 1 .. Len(e) |-> e[k]]
  OBVIOUS
<1>3. ASSUME NEW k \in 1 .. Len(e) PROVE e[k] = IF k = 1 THEN h ELSE next[e[k - 1]]
  <2>1. CASE k = 1
    BY <1>2, <2>1 DEF h
  <2>2. CASE k # 1
    <3>1. k - 1 \in 1 .. (Len(e) - 1) /\ (k - 1) + 1 = k
      BY <1>2, <2>2
    <3>2. e[(k - 1) + 1] = next[e[k - 1]]
      BY <3>1 DEF next
    <3> QED BY <2>2, <3>1, <3>2
  <2> QED BY <2>1, <2>2
<1>4. Solves(e)
  BY <1>2, <1>3, Zenon
<1>5. Solves(link)
  <2> HIDE DEF Solves
  <2> QED BY <1>4
<1>6. \A k \in 1 .. Len(e) : link[k] = IF k = 1 THEN h ELSE next[link[k - 1]]
  <2> HIDE DEF link
  <2> QED BY <1>5
<1> HIDE DEF link, Solves
<1>7. ASSUME T # {} PROVE FALSE
  <2>1. PICK k \in T : \A j \in T : k <= j
    <3>1. T \in SUBSET Nat
      BY <1>2
    <3> HIDE DEF T
    <3> QED BY <1>7, <3>1, LeastNatural
  <2>2. k \in 1 .. Len(e) /\ link[k] # e[k]
    BY <2>1
  <2>3. CASE k = 1
    BY <1>3, <1>6, <2>2, <2>3
  <2>4. CASE k # 1
    <3>1. k - 1 \in 1 .. Len(e) /\ ~ (k <= k - 1)
      BY <1>2, <2>2, <2>4
    <3>2. link[k - 1] = e[k - 1]
      BY <2>1, <3>1
    <3>3. link[k] = next[link[k - 1]] /\ e[k] = next[e[k - 1]]
      BY <1>3, <1>6, <2>2, <2>4
    <3> QED BY <2>2, <3>2, <3>3
  <2> QED BY <2>3, <2>4
<1>8. \A k \in 1 .. Len(e) : link[k] = e[k]
  BY <1>7
<1> QED BY <1>1, <1>2, <1>8

\* The free list goes on behind the descriptor just taken off it.
LEMMA FreeRest ==
  ASSUME NEW d \in Seq(Slots), Distinct(d), Links(d)
  PROVE  \E taking, e \in Seq(Slots) :
           /\ taking = (IF Holding("tx") THEN <<call.head>> ELSE <<>>)
           /\ e = FreeChain(Len(e)) /\ Len(d) = Len(taking) + Len(e)
           /\ Distinct(taking) /\ Distinct(e) /\ Entries(taking) \cap Entries(e) = {}
           /\ Entries(taking) \subseteq Entries(d) /\ Entries(e) \subseteq Entries(d)
<1>0. Len(d) \in Nat /\ DOMAIN d = 1 .. Len(d)
  OBVIOUS
<1>1. CASE Holding("tx")
  <2> DEFINE e == Tail(d)
             h == <<call.head>>
  <2>1. d # <<>> /\ Head(d) = call.head
    BY <1>1 DEF Links
  <2>2. /\ e \in Seq(Slots) /\ Len(e) = Len(d) - 1 /\ Distinct(e)
        /\ call.head \in Entries(d) /\ call.head \in Slots
        /\ Entries(e) = Entries(d) \ {call.head}
    BY <2>1, TailDistinct
  <2>3. /\ h \in Seq(Slots) /\ Len(h) = 1 /\ Distinct(h) /\ Entries(h) = {call.head}
    BY <2>2 DEF Distinct, Entries
  <2>4. \A n \in 1 .. Len(e) : e[n] = d[n + 1]
    BY <1>0, <2>2
  <2>5. /\ 2 <= Len(d) => d[2] = drv["tx"].free_head
        /\ \A n \in 2 .. (Len(d) - 1) : d[n + 1] = mem["tx"].next[d[n]]
    BY <1>1 DEF Links, First
  <2> HIDE DEF e, h
  <2>6. 1 <= Len(e) => e[1] = drv["tx"].free_head
    BY <1>0, <2>2, <2>4, <2>5
  <2>7. ASSUME NEW n \in 1 .. (Len(e) - 1) PROVE e[n + 1] = mem["tx"].next[e[n]]
    <3>1. n + 1 \in 2 .. (Len(d) - 1) /\ n \in 1 .. Len(e) /\ n + 1 \in 1 .. Len(e)
      BY <1>0, <2>2
    <3> QED BY <2>4, <2>5, <3>1
  <2>8. e = FreeChain(Len(e))
    BY <2>2, <2>6, <2>7, ChainIs
  <2>9. Len(d) = Len(h) + Len(e)
    BY <1>0, <2>2, <2>3
  <2>10. h = IF Holding("tx") THEN <<call.head>> ELSE <<>>
    BY <1>1 DEF h
  <2>11. /\ Entries(h) \cap Entries(e) = {}
         /\ Entries(h) \subseteq Entries(d) /\ Entries(e) \subseteq Entries(d)
    BY <2>2, <2>3
  <2> QED BY <2>2, <2>3, <2>8, <2>9, <2>10, <2>11
<1>2. CASE ~ Holding("tx")
  <2>1. /\ 1 <= Len(d) => d[1] = drv["tx"].free_head
        /\ \A n \in 1 .. (Len(d) - 1) : d[n + 1] = mem["tx"].next[d[n]]
    BY <1>2 DEF Links, First
  <2>2. d = FreeChain(Len(d))
    BY <2>1, ChainIs
  <2>3. /\ <<>> \in Seq(Slots) /\ Len(<<>>) = 0 /\ Distinct(<<>>) /\ Entries(<<>>) = {}
    BY DEF Distinct, Entries
  <2>4. <<>> = IF Holding("tx") THEN <<call.head>> ELSE <<>>
    BY <1>2
  <2>5. Len(d) = Len(<<>>) + Len(d)
    BY <1>0, <2>3
  <2> QED BY <2>2, <2>3, <2>4, <2>5
<1> QED BY <1>1, <1>2

\* Those in flight, the one taken and the free list, one behind the other.
LEMMA TxDistinct ==
  ASSUME RingInv, TxInv
  PROVE  /\ Distinct(InFlight("tx"))
         /\ \E taking, e \in Seq(Slots) :
              /\ taking = (IF Holding("tx") THEN <<call.head>> ELSE <<>>)
              /\ e = FreeChain(Num - Len(InFlight("tx") \o taking))
              /\ Distinct((InFlight("tx") \o taking) \o e)
<1> DEFINE U == Unseen("tx")
           T == dev["tx"].taken
           R == Unreaped("tx")
           F == U \o T \o R
<1>1. /\ U \in Seq(Slots) /\ T \in Seq(Slots) /\ R \in Seq(Slots)
      /\ Out("tx") = Len(R) + Len(T) + Len(U) /\ Out("tx") <= Num /\ Out("tx") \in Nat
  BY Parts DEF TxInv, Kinds, Queues
<1>2. PICK d \in Seq(Slots) : Len(d) = Num - Out("tx") /\ Links(d) /\ Owned(U, T, R, d)
  BY DEF TxInv, TxOwned
<1>3. InFlight("tx") = F
  BY DEF InFlight
<1> HIDE DEF U, T, R
<1>4. /\ U \o T \in Seq(Slots) /\ Len(U \o T) = Len(U) + Len(T) /\ Distinct(U \o T)
      /\ Entries(U \o T) = Entries(U) \cup Entries(T)
  BY <1>1, <1>2, ConcatDistinct DEF Owned
<1>5. /\ F \in Seq(Slots) /\ Len(F) = Len(U \o T) + Len(R) /\ Distinct(F)
      /\ Entries(F) = Entries(U \o T) \cup Entries(R)
  <2>1. Entries(U \o T) \cap Entries(R) = {} /\ Distinct(R)
    BY <1>2, <1>4 DEF Owned
  <2> DEFINE X == U \o T
  <2>2. /\ X \in Seq(Slots) /\ R \in Seq(Slots) /\ Distinct(X) /\ Distinct(R)
        /\ Entries(X) \cap Entries(R) = {}
    BY <1>1, <1>4, <2>1
  <2> HIDE DEF X
  <2>3. /\ X \o R \in Seq(Slots) /\ Len(X \o R) = Len(X) + Len(R)
        /\ Distinct(X \o R) /\ Entries(X \o R) = Entries(X) \cup Entries(R)
    BY <2>2, ConcatDistinct
  <2> QED BY <2>3 DEF X
<1>6. Entries(F) \cap Entries(d) = {} /\ Distinct(d)
  BY <1>2, <1>4, <1>5 DEF Owned
<1>7. Len(F) = Out("tx")
  <2>1. Len(U) \in Nat /\ Len(T) \in Nat /\ Len(R) \in Nat
    BY <1>1
  <2> QED BY <1>1, <1>4, <1>5, <2>1
<1>8. PICK taking \in Seq(Slots), e \in Seq(Slots) :
           /\ taking = (IF Holding("tx") THEN <<call.head>> ELSE <<>>)
           /\ e = FreeChain(Len(e)) /\ Len(d) = Len(taking) + Len(e)
           /\ Distinct(taking) /\ Distinct(e) /\ Entries(taking) \cap Entries(e) = {}
           /\ Entries(taking) \subseteq Entries(d) /\ Entries(e) \subseteq Entries(d)
  BY <1>2, <1>6, FreeRest
<1> HIDE DEF F
<1>9. /\ F \o taking \in Seq(Slots) /\ Len(F \o taking) = Len(F) + Len(taking)
      /\ Distinct(F \o taking) /\ Entries(F \o taking) = Entries(F) \cup Entries(taking)
  <2>1. Entries(F) \cap Entries(taking) = {}
    BY <1>6, <1>8
  <2>2. F \in Seq(Slots) /\ taking \in Seq(Slots) /\ Distinct(F) /\ Distinct(taking)
    BY <1>5, <1>8
  <2> QED BY <2>1, <2>2, ConcatDistinct
<1>10. Distinct((F \o taking) \o e)
  <2>1. Entries(F \o taking) \cap Entries(e) = {}
    BY <1>6, <1>8, <1>9
  <2> QED BY <1>8, <1>9, <2>1, ConcatDistinct
<1>11. Num - Len(F \o taking) = Len(e)
  <2>1. Len(taking) \in Nat /\ Len(e) \in Nat
    BY <1>8
  <2>2. Num - Out("tx") = Len(taking) + Len(e) /\ Len(F \o taking) = Out("tx") + Len(taking)
    BY <1>2, <1>7, <1>8, <1>9
  <2>3. Num \in Nat /\ Out("tx") \in Nat
    BY <1>1, Sizes
  <2> QED BY <2>1, <2>2, <2>3
<1>12. e = FreeChain(Num - Len(F \o taking))
  BY <1>8, <1>11
<1> QED BY <1>3, <1>5, <1>8, <1>10, <1>12

\* What the invariants say of every descriptor.
LEMMA OneOwnerFollows ==
  ASSUME RingInv, TxInv, RxInv
  PROVE  OneOwner
<1>1. /\ Distinct(InFlight("tx"))
      /\ \E taking, e \in Seq(Slots) :
           /\ taking = (IF Holding("tx") THEN <<call.head>> ELSE <<>>)
           /\ e = FreeChain(Num - Len(InFlight("tx") \o taking))
           /\ Distinct((InFlight("tx") \o taking) \o e)
  BY TxDistinct
<1>2. Distinct(InFlight("rx")) /\ Len(InFlight("rx")) = Out("rx")
  BY RxDistinct DEF TxInv
<1>3. TypeOK
  BY DEF TypeOK, TxInv, Kinds, KindOf, Places, Steps, Queues
<1>4. \A q \in Queues : Distinct(InFlight(q))
  BY <1>1, <1>2 DEF Queues
<1>5. live => Len(InFlight("rx")) = Num
  BY <1>2 DEF RingInv, RoomOK, RxInv, RxFilled
<1>6. LET taking == IF call.q = "tx" /\ pc \in {"add_ring", "add_idx"} THEN <<call.head>> ELSE <<>>
          busy   == InFlight("tx") \o taking
      IN  Distinct(busy \o FreeChain(Num - Len(busy)))
  <2> DEFINE taken == IF Holding("tx") THEN <<call.head>> ELSE <<>>
  <2>1. Distinct((InFlight("tx") \o taken) \o FreeChain(Num - Len(InFlight("tx") \o taken)))
    BY <1>1
  <2>2. taken = IF call.q = "tx" /\ pc \in {"add_ring", "add_idx"} THEN <<call.head>> ELSE <<>>
    BY DEF Holding
  <2> HIDE DEF taken
  <2> QED BY <2>1, <2>2
<1> QED BY <1>3, <1>4, <1>5, <1>6 DEF OneOwner

\* What they say of packets and frames.
LEMMA FaithfulFollows ==
  ASSUME RingInv, TxInv, RxInv
  PROVE  Faithful
<1>1. wire = [n \in 1 .. Len(wire) |-> n] /\ Len(wire) <= sent
  <2>1. /\ Len(wire) \in Nat /\ wire = [n \in 1 .. Len(wire) |-> n]
        /\ sent = Len(wire) + Len(Unseen("tx")) + (IF Adding("tx") THEN 1 ELSE 0)
    BY DEF TxInv, TxPackets
  <2>2. Len(Unseen("tx")) \in Nat
    BY Parts DEF TxInv, Kinds, Queues
  <2>3. sent = Len(wire) + Len(Unseen("tx")) + 1 \/ sent = Len(wire) + Len(Unseen("tx")) + 0
    BY <2>1
  <2> QED BY <2>1, <2>2, <2>3
<1>2. delivered = [n \in 1 .. Len(delivered) |-> n] /\ Len(delivered) <= stored
  <2>1. /\ Len(delivered) \in Nat /\ delivered = [n \in 1 .. Len(delivered) |-> n]
        /\ stored = (Len(delivered) - (IF Adding("rx") THEN 1 ELSE 0)) + Held
    BY DEF RxInv, RxFrames, Done
  <2>2. /\ Behind(drv["rx"].used_idx, mem["rx"].used_idx) \in Nat
        /\ Behind(mem["rx"].used_idx, dev["rx"].seen) \in Nat
        /\ Behind(drv["rx"].used_idx, mem["rx"].used_idx) = 0
             <=> drv["rx"].used_idx = mem["rx"].used_idx
    <3>1. /\ drv["rx"].used_idx \in Idx /\ mem["rx"].used_idx \in Idx
          /\ dev["rx"].seen \in Idx
      BY DEF TxInv, Kinds, KindOf
    <3>2. \A x \in Idx : x \in Nat
      BY DEF Idx
    <3> QED BY <3>1, <3>2, BehindType
  <2>3. CASE Adding("rx")
    <3>1. Behind(drv["rx"].used_idx, mem["rx"].used_idx) # 0
      BY <2>2, <2>3, RxRoom
    <3>2. stored = (Len(delivered) - 1) + Held
      BY <2>1, <2>3
    <3> QED BY <2>1, <2>2, <3>1, <3>2 DEF Held
  <2>4. CASE ~ Adding("rx")
    <3>1. stored = (Len(delivered) - 0) + Held
      BY <2>1, <2>4
    <3> QED BY <2>1, <2>2, <3>1 DEF Held
  <2> QED BY <2>3, <2>4
<1> QED BY <1>1, <1>2 DEF Faithful

-----------------------------------------------------------------------------
\* The invariants are kept: by the driver's steps and by the device's.
LEMMA OwnerStep ==
  ASSUME "rx" \notin Reorders, RingInv, TxInv /\ RxInv, [Next]_vars
  PROVE  TxInv' /\ RxInv'
<1>1. Kinds
  BY DEF TxInv
<1>2. CASE Driver \/ Send
  BY <1>1, <1>2, TxDriverStep, RxDriverStep
<1>3. ASSUME NEW q \in Queues,
             \/ FrameArrives \/ DevTransmit \/ DevReceive
             \/ DevComplete(q) \/ DevSignal(q) \/ DevRests(q) \/ UNCHANGED vars
      PROVE  TxInv' /\ RxInv'
  BY <1>1, <1>3, TxDeviceStep, RxDeviceStep
<1> QED BY <1>2, <1>3 DEF Next, DeviceTx, DeviceRx, Queues

\* While packets are sent only when a descriptor is free, and the device gives RX
\* buffers back in the order it took them, what is known of the two queues' contents.
THEOREM OwnersHold ==
  ASSUME Paced, "rx" \notin Reorders
  PROVE  Spec => [](RingInv /\ TxInv /\ RxInv)
<1>1. Init => TxInv /\ RxInv
  BY TxInvInit, RxInit
<1>2. RingInv /\ (TxInv /\ RxInv) /\ [Next]_vars => (TxInv /\ RxInv)'
  BY OwnerStep
<1>3. Spec => []RingInv
  BY RingInvHolds
<1> QED BY <1>1, <1>2, <1>3, PTL DEF Spec

\* A descriptor is in one place only, and the TX queue's free list is made of those
\* that are not in flight, each once (virtq_add_buf, both reap loops), whatever the
\* order in which the device completes packets.
THEOREM OneOwnerHolds ==
  ASSUME Paced, "rx" \notin Reorders
  PROVE  Spec => []OneOwner
<1>1. RingInv /\ TxInv /\ RxInv => OneOwner
  BY OneOwnerFollows
<1> QED BY <1>1, OwnersHold, PTL

\* Packets reach the wire, and frames the driver, in order, each once and with its own
\* contents (virtio_net_send_packet, virtio_net_handle_interrupt).
THEOREM FaithfulHolds ==
  ASSUME Paced, "rx" \notin Reorders
  PROVE  Spec => []Faithful
<1>1. RingInv /\ TxInv /\ RxInv => Faithful
  BY FaithfulFollows
<1> QED BY <1>1, OwnersHold, PTL
=============================================================================
