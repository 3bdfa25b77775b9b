----------------------------- MODULE VirtioNet -----------------------------
(***************************************************************************)
(* The virtio network driver of kernel/drivers/ethernet/virtio_net.cpp and *)
(* the device it shares two virtqueues with.  The driver is sequential:    *)
(* virtio_net_init runs at boot; virtio_net_send_packet (a nettest         *)
(* command, run by the keyboard interrupt, from the moment there is a      *)
(* tx_q) may come between any two of its steps, and                        *)
(* virtio_net_handle_interrupt after its last; these two run to their end, *)
(* because interrupt gates keep IF clear.  The device runs between any two *)
(* of their memory accesses.                                               *)
(*                                                                         *)
(* The device is external: it does what the virtio specification lets it   *)
(* do, as narrowed by the constants.                                       *)
(***************************************************************************)
EXTENDS Integers, Sequences, FiniteSets

CONSTANTS
  Num,         \* descriptors in a queue (NUM_RX_DESC, NUM_TX_DESC, q->num)
  IdxMod,      \* ring indices are counted modulo this (2^16 in the code)
  MaxTraffic,  \* bound: packets the shell sends and frames that come in, together
  EventIdx,    \* may the device offer VIRTIO_F_EVENT_IDX: subset of BOOLEAN
  Reorders,    \* queues whose descriptors the device may complete out of order
  Polls,       \* queues the device looks at again, once empty, without a kick
  Paced        \* the user sends only while a TX descriptor is free

ASSUME SizeAssumption ==
  /\ Num \in Nat \ {0} /\ IdxMod \in Nat \ {0}
  /\ IdxMod % Num = 0 /\ IdxMod > Num
  /\ EventIdx \subseteq BOOLEAN

Queues == {"rx", "tx"}
Slots == 0 .. (Num - 1)

VARIABLES
  boot,        \* the step virtio_net_init is at, both queues allocated
  pc,          \* where the running interrupt is in the driver, or "idle"
  mem,         \* per queue, what driver and device share: desc, avail, used
  drv,         \* per queue, the driver's own part of struct virtq
  dev,         \* per queue, the device's own state; event_idx: the feature is in force
  live,        \* DRIVER_OK has been written and the queues are enabled
  isr,         \* the queue bit of the device's ISR register
  call,        \* the locals of the running driver code
  buffer,      \* contents of the RX buffers
  stored,      \* frames the device has put into RX buffers
  sent,        \* packets accepted by virtio_net_send_packet
  due,         \* how many were when a kick last reached the live device
  wire,        \* packets the device has put on the wire
  arrived,     \* frames that came in from the network
  delivered    \* frames the driver has looked at

net == <<stored, sent, due, wire, arrived, delivered>>
vars == <<boot, pc, mem, drv, dev, live, isr, call, buffer, net>>

Inc(x) == (x + 1) % IdxMod

\* How far index a is behind index b.
Behind(a, b) == (b - a) % IdxMod

\* The entries of a ring from index a up to index b.
Span(ring, a, b) == [n \in 1 .. Behind(a, b) |-> ring[((a + n - 1) % IdxMod) % Num]]

NoCall == [q |-> "tx", buf |-> 0, head |-> 0, tx |-> 0, rx |-> 0]

-----------------------------------------------------------------------------
\* virtq_alloc: zeroed pages, and a chain through the descriptors whose last
\* link is the zero the memset left there.
EmptyQueue ==
  [addr |-> [d \in Slots |-> 0],
   next |-> [d \in Slots |-> IF d < Num - 1 THEN d + 1 ELSE 0],
   ring |-> [s \in Slots |-> 0], avail |-> 0,
   used |-> [s \in Slots |-> 0], used_idx |-> 0]

Init ==
  /\ boot = "fill" /\ pc = "idle"
  /\ mem = [q \in Queues |-> EmptyQueue]
  /\ drv = [q \in Queues |-> [free_head |-> 0, used_idx |-> 0]]
  /\ \E offered \in EventIdx :
       dev = [q \in Queues |-> [seen |-> 0, taken |-> <<>>, notified |-> FALSE,
                                unsignalled |-> 0, event_idx |-> offered]]
  /\ live = FALSE /\ isr = FALSE
  /\ call = NoCall
  /\ buffer = [b \in 1 .. Num |-> 0]
  /\ stored = 0 /\ sent = 0 /\ due = 0 /\ wire = <<>> /\ arrived = 0 /\ delivered = <<>>

\* No interrupt is being handled, and virtio_net_init is at this step.
BootRuns(step) == pc = "idle" /\ boot = step

\* virtio_net_init: one iteration of the loop that fills the RX queue.
FillRx ==
  /\ BootRuns("fill") /\ mem["rx"].avail < Num
  /\ LET d == drv["rx"].free_head
         n == mem["rx"].avail
     IN  /\ mem' = [mem EXCEPT !["rx"].addr[d] = n + 1,
                               !["rx"].ring[n % Num] = d,
                               !["rx"].avail = Inc(n)]
         /\ drv' = [drv EXCEPT !["rx"].free_head = mem["rx"].next[d]]
  /\ UNCHANGED <<boot, pc, dev, live, isr, call, buffer, net>>

\* The first kick comes before the queues are enabled: nobody hears it.
FillDone ==
  /\ BootRuns("fill") /\ mem["rx"].avail = Num
  /\ boot' = "enable"
  /\ UNCHANGED <<pc, mem, drv, dev, live, isr, call, buffer, net>>

\* queue_enable and DRIVER_OK; the interrupt line is unmasked last.
EnableDevice ==
  /\ BootRuns("enable")
  /\ live' = TRUE /\ boot' = "unmask"
  /\ UNCHANGED <<pc, mem, drv, dev, isr, call, buffer, net>>

UnmaskIrq ==
  /\ BootRuns("unmask")
  /\ boot' = "done"
  /\ UNCHANGED <<pc, mem, drv, dev, live, isr, call, buffer, net>>

-----------------------------------------------------------------------------
\* virtio_net_send_packet: a buffer of its own for every packet. It comes between
\* any two steps of virtio_net_init as well.
Send ==
  /\ pc = "idle" /\ sent + arrived < MaxTraffic
  /\ Paced => Behind(drv["tx"].used_idx, mem["tx"].avail) < Num
  /\ sent' = sent + 1
  /\ call' = [NoCall EXCEPT !.buf = sent + 1]
  /\ pc' = "add_desc"
  /\ UNCHANGED <<boot, mem, drv, dev, live, isr, buffer, stored, due, wire, arrived, delivered>>

\* Mutant: the descriptor stays at the head of the free list.
AddDescKeepsHead ==
  /\ pc = "add_desc"
  /\ LET d == drv[call.q].free_head IN
       /\ mem' = [mem EXCEPT ![call.q].addr[d] = call.buf]
       /\ call' = [call EXCEPT !.head = d]
  /\ pc' = "add_ring"
  /\ UNCHANGED <<boot, drv, dev, live, isr, buffer, net>>

\* virtq_add_buf: take a descriptor, write its slot, publish the index.
AddDesc ==
  /\ pc = "add_desc"
  /\ LET d == drv[call.q].free_head IN
       /\ mem' = [mem EXCEPT ![call.q].addr[d] = call.buf]
       /\ drv' = [drv EXCEPT ![call.q].free_head = mem[call.q].next[d]]
       /\ call' = [call EXCEPT !.head = d]
  /\ pc' = "add_ring"
  /\ UNCHANGED <<boot, dev, live, isr, buffer, net>>

\* Mutant: the slot after the published index is written.
AddRingOffByOne ==
  /\ pc = "add_ring"
  /\ mem' = [mem EXCEPT ![call.q].ring[(mem[call.q].avail + 1) % Num] = call.head]
  /\ pc' = "add_idx"
  /\ UNCHANGED <<boot, drv, dev, live, isr, call, buffer, net>>

AddRing ==
  /\ pc = "add_ring"
  /\ mem' = [mem EXCEPT ![call.q].ring[mem[call.q].avail % Num] = call.head]
  /\ pc' = "add_idx"
  /\ UNCHANGED <<boot, drv, dev, live, isr, call, buffer, net>>

AddIdxTx ==
  /\ pc = "add_idx" /\ call.q = "tx"
  /\ mem' = [mem EXCEPT !["tx"].avail = Inc(@)]
  /\ pc' = "kick"
  /\ UNCHANGED <<boot, drv, dev, live, isr, call, buffer, net>>

\* In the handler's RX loop, which then goes on to the next used entry.
AddIdxRx ==
  /\ pc = "add_idx" /\ call.q = "rx"
  /\ mem' = [mem EXCEPT !["rx"].avail = Inc(@)]
  /\ drv' = [drv EXCEPT !["rx"].used_idx = Inc(@)]
  /\ pc' = "reap_rx"
  /\ UNCHANGED <<boot, dev, live, isr, call, buffer, net>>

\* Mutant: the other queue's index is written to the notify register.
KickWrongQueue ==
  /\ pc = "kick"
  /\ dev' = [dev EXCEPT !["rx"].notified = @ \/ live]
  /\ due' = IF live THEN sent ELSE due
  /\ pc' = "idle" /\ call' = NoCall
  /\ UNCHANGED <<boot, mem, drv, live, isr, buffer, stored, sent, wire, arrived, delivered>>

\* virtq_kick, which a device that is not live does not hear, and
\* virtio_net_send_packet returns.
Kick ==
  /\ pc = "kick"
  /\ dev' = [dev EXCEPT ![call.q].notified = @ \/ live]
  /\ due' = IF live THEN sent ELSE due
  /\ pc' = "idle" /\ call' = NoCall
  /\ UNCHANGED <<boot, mem, drv, live, isr, buffer, stored, sent, wire, arrived, delivered>>

-----------------------------------------------------------------------------
\* virtio_net_handle_interrupt: reading the ISR register clears it.
ReadIsr ==
  /\ BootRuns("done") /\ isr
  /\ isr' = FALSE /\ pc' = "snap_tx"
  /\ UNCHANGED <<boot, mem, drv, dev, live, call, buffer, net>>

SnapTx ==
  /\ pc = "snap_tx"
  /\ call' = [call EXCEPT !.tx = mem["tx"].used_idx]
  /\ pc' = "snap_rx"
  /\ UNCHANGED <<boot, mem, drv, dev, live, isr, buffer, net>>

\* Mutant: the ISR register is read again, after the used indices.
SnapRxClearsIsr ==
  /\ pc = "snap_rx"
  /\ call' = [call EXCEPT !.rx = mem["rx"].used_idx]
  /\ isr' = FALSE /\ pc' = "reap_tx"
  /\ UNCHANGED <<boot, mem, drv, dev, live, buffer, net>>

SnapRx ==
  /\ pc = "snap_rx"
  /\ call' = [call EXCEPT !.rx = mem["rx"].used_idx]
  /\ pc' = "reap_tx"
  /\ UNCHANGED <<boot, mem, drv, dev, live, isr, buffer, net>>

\* A packet was sent: its descriptor goes back on the free list.
ReapTx ==
  /\ pc = "reap_tx" /\ drv["tx"].used_idx # call.tx
  /\ LET d == mem["tx"].used[drv["tx"].used_idx % Num] IN
       /\ mem' = [mem EXCEPT !["tx"].next[d] = drv["tx"].free_head]
       /\ drv' = [drv EXCEPT !["tx"] = [free_head |-> d, used_idx |-> Inc(@.used_idx)]]
  /\ UNCHANGED <<boot, pc, dev, live, isr, call, buffer, net>>

ReapTxDone ==
  /\ pc = "reap_tx" /\ drv["tx"].used_idx = call.tx
  /\ pc' = "reap_rx"
  /\ UNCHANGED <<boot, mem, drv, dev, live, isr, call, buffer, net>>

\* Mutant: the buffer is not put back into the queue.
ReapRxDrops ==
  /\ pc = "reap_rx" /\ drv["rx"].used_idx # call.rx
  /\ LET d == mem["rx"].used[drv["rx"].used_idx % Num] IN
       delivered' = Append(delivered, buffer[d + 1])
  /\ drv' = [drv EXCEPT !["rx"].used_idx = Inc(@)]
  /\ UNCHANGED <<boot, pc, mem, dev, live, isr, call, buffer, stored, sent, due, wire, arrived>>

\* A frame came in: look at buffers[desc_idx], then put that buffer back
\* (at free_head, whatever the descriptor it came from).
ReapRx ==
  /\ pc = "reap_rx" /\ drv["rx"].used_idx # call.rx
  /\ LET d == mem["rx"].used[drv["rx"].used_idx % Num] IN
       /\ delivered' = Append(delivered, buffer[d + 1])
       /\ call' = [call EXCEPT !.q = "rx", !.buf = d + 1]
  /\ pc' = "add_desc"
  /\ UNCHANGED <<boot, mem, drv, dev, live, isr, buffer, stored, sent, due, wire, arrived>>

IrqReturn ==
  /\ pc = "reap_rx" /\ drv["rx"].used_idx = call.rx
  /\ pc' = "idle" /\ call' = NoCall
  /\ UNCHANGED <<boot, mem, drv, dev, live, isr, buffer, net>>

-----------------------------------------------------------------------------
\* The device may look at queue q, and finds something there.
Offered(q) ==
  /\ live
  /\ dev[q].notified \/ q \in Polls
  /\ dev[q].seen # mem[q].avail

Offer(q) == mem[q].ring[dev[q].seen % Num]

FrameArrives ==
  /\ live /\ sent + arrived < MaxTraffic
  /\ arrived' = arrived + 1
  /\ UNCHANGED <<boot, pc, mem, drv, dev, live, isr, call, buffer, stored, sent, due, wire, delivered>>

\* The device reads a packet and puts it on the wire.
DevTransmit ==
  /\ Offered("tx")
  /\ wire' = Append(wire, mem["tx"].addr[Offer("tx")])
  /\ dev' = [dev EXCEPT !["tx"].seen = Inc(@), !["tx"].taken = Append(@, Offer("tx"))]
  /\ UNCHANGED <<boot, pc, mem, drv, live, isr, call, buffer, stored, sent, due, arrived, delivered>>

\* The device writes a waiting frame into the next buffer offered.
DevReceive ==
  /\ Offered("rx") /\ stored < arrived
  /\ stored' = stored + 1
  /\ buffer' = [buffer EXCEPT ![mem["rx"].addr[Offer("rx")]] = stored + 1]
  /\ dev' = [dev EXCEPT !["rx"].seen = Inc(@), !["rx"].taken = Append(@, Offer("rx"))]
  /\ UNCHANGED <<boot, pc, mem, drv, live, isr, call, sent, due, wire, arrived, delivered>>

\* A used entry is written and used->idx moves on.
DevComplete(q) ==
  /\ \E n \in 1 .. Len(dev[q].taken) :
       /\ q \notin Reorders => n = 1
       /\ mem' = [mem EXCEPT ![q].used[mem[q].used_idx % Num] = dev[q].taken[n],
                             ![q].used_idx = Inc(@)]
       /\ dev' = [dev EXCEPT
            ![q].taken = SubSeq(@, 1, n - 1) \o SubSeq(@, n + 1, Len(@)),
            ![q].unsignalled = @ + 1]
  /\ UNCHANGED <<boot, pc, drv, live, isr, call, buffer, net>>

\* The interrupt for what was completed since the last one.  With EVENT_IDX,
\* which virtio_net_init accepts wherever it is offered, only the entry at used_event asks for one, and the driver leaves that at 0.
DevSignal(q) ==
  /\ dev[q].unsignalled > 0
  /\ LET asked == dev[q].event_idx => (mem[q].used_idx - 1) % IdxMod < dev[q].unsignalled
     IN  isr' = (isr \/ asked)
  /\ dev' = [dev EXCEPT ![q].unsignalled = 0]
  /\ UNCHANGED <<boot, pc, mem, drv, live, call, buffer, net>>

\* The device found the queue empty, with a frame in its hands if it is the
\* RX queue: it waits to be notified.
DevRests(q) ==
  /\ dev[q].notified /\ dev[q].seen = mem[q].avail
  /\ q = "rx" => stored < arrived
  /\ dev' = [dev EXCEPT ![q].notified = FALSE]
  /\ UNCHANGED <<boot, pc, mem, drv, live, isr, call, buffer, net>>

-----------------------------------------------------------------------------
DriverInit == FillRx \/ FillDone \/ EnableDevice \/ UnmaskIrq

Driver ==
  \/ DriverInit
  \/ AddDesc \/ AddRing \/ AddIdxTx \/ AddIdxRx \/ Kick
  \/ ReadIsr \/ SnapTx \/ SnapRx \/ ReapTx \/ ReapTxDone \/ ReapRx \/ IrqReturn

DeviceTx == DevTransmit \/ DevComplete("tx") \/ DevSignal("tx")
DeviceRx == DevReceive \/ DevComplete("rx") \/ DevSignal("rx")

Next ==
  \/ Driver \/ Send
  \/ DeviceTx \/ DeviceRx \/ FrameArrives
  \/ \E q \in Queues : DevRests(q)

Spec == Init /\ [][Next]_vars

\* The processor runs the handler of an unmasked line that is up, and code
\* that was entered goes on; the device serves each queue it was told of.
FairSpec ==
  Spec /\ WF_vars(Driver) /\ WF_vars(DeviceTx) /\ WF_vars(DeviceRx)

-----------------------------------------------------------------------------
Unseen(q) == Span(mem[q].ring, dev[q].seen, mem[q].avail)
Unreaped(q) == Span(mem[q].used, drv[q].used_idx, mem[q].used_idx)

\* The descriptors offered to the device, taken by it, or given back and
\* not yet looked at by the driver.
InFlight(q) == Unseen(q) \o dev[q].taken \o Unreaped(q)

Distinct(s) == \A a, b \in DOMAIN s : a # b => s[a] # s[b]

Idx == 0 .. (IdxMod - 1)

\* The types of the driver's and the device's state.
TypeOK ==
  /\ boot \in {"fill", "enable", "unmask", "done"}
  /\ pc \in {"idle", "add_desc", "add_ring", "add_idx", "kick",
             "snap_tx", "snap_rx", "reap_tx", "reap_rx"}
  /\ \A q \in Queues :
       /\ mem[q].next \in [Slots -> Slots] /\ mem[q].ring \in [Slots -> Slots]
       /\ mem[q].used \in [Slots -> Slots]
       /\ mem[q].avail \in Idx /\ mem[q].used_idx \in Idx
       /\ drv[q].free_head \in Slots /\ drv[q].used_idx \in Idx
       /\ dev[q].seen \in Idx /\ dev[q].taken \in Seq(Slots)
  /\ live \in BOOLEAN /\ isr \in BOOLEAN

\* What the branch "Failed to add buffer to virtqueue. Queue full?" of
\* virtio_net_send_packet promises: a packet that finds no free descriptor
\* does not take one the device still has.
FullQueueReported == Distinct(InFlight("tx"))

\* The n descriptors on the chain from the TX queue's free_head.
FreeChain(n) ==
  LET link[k \in 1 .. n] ==
        IF k = 1 THEN drv["tx"].free_head ELSE mem["tx"].next[link[k - 1]]
  IN  [k \in 1 .. n |-> link[k]]

\* A descriptor is in one place only: never offered twice, nor offered while
\* the device or the used ring still holds it, and the chain from the TX queue's
\* free_head is made of those that are not in flight, each once, whatever the
\* order they were completed in (virtq_add_buf, both reap loops).
OneOwner ==
  /\ TypeOK
  /\ \A q \in Queues : Distinct(InFlight(q))
  /\ live => Len(InFlight("rx")) = Num
  /\ LET taking == IF call.q = "tx" /\ pc \in {"add_ring", "add_idx"} THEN <<call.head>> ELSE <<>>
         busy   == InFlight("tx") \o taking
     IN  Distinct(busy \o FreeChain(Num - Len(busy)))

\* Packets reach the wire, and frames the driver, in order, each once and
\* with their own contents.
Faithful ==
  /\ wire = [n \in 1 .. Len(wire) |-> n] /\ Len(wire) <= sent
  /\ delivered = [n \in 1 .. Len(delivered) |-> n] /\ Len(delivered) <= stored

\* The device announces completed entries as the driver expects it to.
Announces == \A q \in Queues : ~dev[q].event_idx

\* A completed entry is never left behind unannounced: the handler's snapshot
\* has it or will have it, or an interrupt is pending or about to be raised
\* (the ISR register is read before the used indices).  On a device with
\* EVENT_IDX it may be: the driver accepts that feature without using it.
NoLostInterrupt ==
  Announces => \A q \in Queues : Unreaped(q) # <<>> =>
    \/ isr \/ dev[q].unsignalled > 0
    \/ pc = "snap_tx" \/ (pc = "snap_rx" /\ q = "rx")
    \/ pc # "idle" /\ call[q] = mem[q].used_idx

\* Once virtio_net_send_packet has kicked the live device, the wire catches up
\* with all it has accepted, the packets of a nettest during virtio_net_init
\* included. (Those alone are not sent: nobody hears their kick, and nothing
\* repeats it.)
SentReachesWire == []<>(Len(wire) >= due)

\* A frame from the network is looked at by the driver, which always catches
\* up: the RX queue never runs dry for good.  The device must announce it, as
\* above.
FramesDelivered == []<>(Announces => Len(delivered) = arrived)
=============================================================================
