---------------------------- MODULE VirtioBringUp ----------------------------
(***************************************************************************)
(* virtio_net_init of kernel/drivers/ethernet/virtio_net.cpp: the          *)
(* handshake with the card, step by step, and the nettest command, which   *)
(* the keyboard interrupt can run between any two of these steps, since    *)
(* kmain opens the keyboard's line before it scans the PCI bus.            *)
(*                                                                         *)
(* The card is external: it may lack capabilities, reset late or never,    *)
(* and turn the features down.  What the rings hold is VirtioNet's matter. *)
(***************************************************************************)
EXTENDS Integers, Sequences, FiniteSets

CONSTANTS
  Offers,    \* the feature sets the card may offer
  Patience,  \* polls of the reset loop (1000)
  MayFail,   \* what may go wrong: subset of {"caps", "reset", "features", "memory"}
  MaxTests   \* bound: nettest commands that send

ASSUME PatienceAssumption == Patience \in Nat

Queues == {"rx", "tx"}
NoQueue == "null"

\* Bytes virtio_net_send_packet leaves for the header.
HeaderLen == 10

VARIABLES
  pc,        \* the step virtio_net_init is at
  timeout,   \* its counter
  mac_set,   \* virtio_net_mac_addr has been filled in
  q,         \* rx_q and tx_q, null or a queue
  dev,       \* the card: status bits, features, queue registers, requests
  reported,  \* nettest commands that reported a packet as sent
  due,       \* how many had when nettest last ran with the card live
  wire       \* packets on the wire: how many of their first bytes are missing

bring_up_vars == <<pc, timeout, mac_set, q, dev, reported, due, wire>>

Live == "DRIVER_OK" \in dev.status

\* What the driver has collected in its variable status when it writes it.
AckBits == {"ACK"}
DriverBits == AckBits \cup {"DRIVER"}
FeatureBits == DriverBits \cup {"FEATURES_OK"}
AllBits == FeatureBits \cup {"DRIVER_OK"}

\* The card as firmware left it, in use or not.
BeforeBringUp ==
  /\ pc = "caps" /\ timeout = 0
  /\ mac_set = FALSE /\ q = [r \in Queues |-> NoQueue]
  /\ \E offered \in Offers, used \in BOOLEAN :
       dev = [status |-> IF used THEN AllBits ELSE {},
              resetting |-> FALSE, offered |-> offered, accepted |-> {},
              configured |-> {}, enabled |-> IF used THEN Queues ELSE {},
              queued |-> 0, notified |-> FALSE]
  /\ reported = 0 /\ due = 0 /\ wire = <<>>

At(here, next) == pc = here /\ pc' = next

WriteStatus(bits) == dev' = [dev EXCEPT !.status = bits]

\* The walk through the capability list.
FindCaps ==
  /\ pc = "caps"
  /\ pc' \in {"reset"} \cup (IF "caps" \in MayFail THEN {"failed"} ELSE {})
  /\ UNCHANGED <<timeout, mac_set, q, dev, reported, due, wire>>

ResetDevice ==
  /\ At("reset", "poll")
  /\ dev' = [dev EXCEPT !.resetting = TRUE]
  /\ timeout' = Patience
  /\ UNCHANGED <<mac_set, q, reported, due, wire>>

\* Mutant: the loop is left after its first look.
PollResetOnce ==
  /\ At("poll", "acknowledge")
  /\ UNCHANGED <<timeout, mac_set, q, dev, reported, due, wire>>

\* Mutant: the loop has no bound.
PollResetForever ==
  /\ pc = "poll"
  /\ pc' = IF dev.resetting \/ dev.status # {} THEN "poll" ELSE "acknowledge"
  /\ UNCHANGED <<timeout, mac_set, q, dev, reported, due, wire>>

\* while (status != 0 && timeout-- > 0), and the test behind it, which also
\* takes a reset seen by the last look for a timeout.
PollReset ==
  /\ pc = "poll"
  /\ \/ dev.status = {} /\ ~dev.resetting
        /\ pc' = (IF timeout <= 0 THEN "failed" ELSE "acknowledge")
        /\ UNCHANGED timeout
     \/ (dev.status # {} \/ dev.resetting)
        /\ timeout' = timeout - 1
        /\ pc' = IF timeout > 0 THEN "poll" ELSE "failed"
  /\ UNCHANGED <<mac_set, q, dev, reported, due, wire>>

Acknowledge ==
  /\ At("acknowledge", "driver") /\ WriteStatus(AckBits)
  /\ UNCHANGED <<timeout, mac_set, q, reported, due, wire>>

SetDriver ==
  /\ At("driver", "negotiate") /\ WriteStatus(DriverBits)
  /\ UNCHANGED <<timeout, mac_set, q, reported, due, wire>>

\* Every feature offered is accepted.
Negotiate ==
  /\ At("negotiate", "features_ok")
  /\ dev' = [dev EXCEPT !.accepted = dev.offered]
  /\ UNCHANGED <<timeout, mac_set, q, reported, due, wire>>

\* The card keeps the bit, or drops it to turn the features down.
SetFeaturesOk ==
  /\ At("features_ok", "check")
  /\ \/ WriteStatus(FeatureBits)
     \/ "features" \in MayFail /\ UNCHANGED dev
  /\ UNCHANGED <<timeout, mac_set, q, reported, due, wire>>

CheckFeatures ==
  /\ pc = "check"
  /\ pc' = IF "FEATURES_OK" \in dev.status THEN "mac" ELSE "failed"
  /\ UNCHANGED <<timeout, mac_set, q, dev, reported, due, wire>>

ReadMac ==
  /\ At("mac", "alloc_rx")
  /\ mac_set' = ("mac" \in dev.accepted)
  /\ UNCHANGED <<timeout, q, dev, reported, due, wire>>

\* virtq_alloc: the queue's registers are written, or there is no memory, or
\* the queue is found enabled.
Alloc(r) ==
  \/ /\ r \notin dev.enabled
     /\ q' = [q EXCEPT ![r] = r] /\ dev' = [dev EXCEPT !.configured = @ \cup {r}]
  \/ /\ "memory" \in MayFail \/ r \in dev.enabled
     /\ UNCHANGED <<q, dev>>

AllocRx ==
  /\ At("alloc_rx", "alloc_tx") /\ Alloc("rx")
  /\ UNCHANGED <<timeout, mac_set, reported, due, wire>>

AllocTx ==
  /\ At("alloc_tx", "queues") /\ Alloc("tx")
  /\ UNCHANGED <<timeout, mac_set, reported, due, wire>>

CheckQueues ==
  /\ pc = "queues"
  /\ IF NoQueue \in {q["rx"], q["tx"]}
       THEN pc' = "failed" /\ WriteStatus({"FAILED"})
       ELSE pc' = "fill" /\ UNCHANGED dev
  /\ UNCHANGED <<timeout, mac_set, q, reported, due, wire>>

\* The RX buffers, whose addresses are used unchecked: where one is null, the
\* memset faults or not, as page 0 is mapped or not.
FillRx ==
  /\ pc = "fill"
  /\ pc' \in {"enable_rx"} \cup (IF "memory" \in MayFail THEN {"halted"} ELSE {})
  /\ UNCHANGED <<timeout, mac_set, q, dev, reported, due, wire>>

\* queue_select and queue_enable.
Enable(r) == dev' = [dev EXCEPT !.enabled = @ \cup {r}]

EnableRx ==
  /\ At("enable_rx", "enable_tx") /\ Enable("rx")
  /\ UNCHANGED <<timeout, mac_set, q, reported, due, wire>>

EnableTx ==
  /\ At("enable_tx", "driver_ok") /\ Enable("tx")
  /\ UNCHANGED <<timeout, mac_set, q, reported, due, wire>>

\* DRIVER_OK; reading and opening the interrupt line is Interrupts' matter.
SetDriverOk ==
  /\ At("driver_ok", "done") /\ WriteStatus(AllBits)
  /\ UNCHANGED <<timeout, mac_set, q, reported, due, wire>>

InitSteps ==
  \/ FindCaps \/ ResetDevice \/ PollReset \/ Acknowledge \/ SetDriver \/ Negotiate
  \/ SetFeaturesOk \/ CheckFeatures \/ ReadMac \/ AllocRx \/ AllocTx \/ CheckQueues
  \/ FillRx \/ EnableRx \/ EnableTx \/ SetDriverOk

-----------------------------------------------------------------------------
\* What virtq_kick does: a card that does not listen yet does not hear it.
Heard == Live /\ "tx" \in dev.enabled

\* Mutant: the device is not kicked.
NettestNoKick ==
  /\ pc \notin {"fault", "halted"} /\ reported < MaxTests /\ mac_set
  /\ IF q["tx"] = NoQueue
       THEN pc' = "fault" /\ UNCHANGED <<dev, reported, due>>
       ELSE /\ reported' = reported + 1
            /\ due' = IF Heard THEN reported + 1 ELSE due
            /\ dev' = [dev EXCEPT !.queued = @ + 1]
            /\ UNCHANGED pc
  /\ UNCHANGED <<timeout, mac_set, q, wire>>

\* cmd_nettest_virtio, with an address to send from: virtio_net_send_packet
\* uses tx_q as it is.
Nettest ==
  /\ pc \notin {"fault", "halted"} /\ reported < MaxTests /\ mac_set
  /\ IF q["tx"] = NoQueue
       THEN pc' = "fault" /\ UNCHANGED <<dev, reported, due>>
       ELSE /\ reported' = reported + 1
            /\ due' = IF Heard THEN reported + 1 ELSE due
            /\ dev' = [dev EXCEPT !.queued = @ + 1, !.notified = @ \/ Heard]
            /\ UNCHANGED pc
  /\ UNCHANGED <<timeout, mac_set, q, wire>>

\* The header a card of these features expects.
DeviceHeader == IF "version_1" \in dev.accepted THEN 12 ELSE 10

DevResets ==
  /\ dev.resetting
  /\ dev' = [dev EXCEPT !.status = {}, !.resetting = FALSE, !.accepted = {},
                        !.configured = {}, !.enabled = {}, !.notified = FALSE]
  /\ UNCHANGED <<pc, timeout, mac_set, q, reported, due, wire>>

DevTransmit ==
  /\ Live /\ dev.notified /\ dev.queued > 0
  /\ wire' = Append(wire, DeviceHeader - HeaderLen)
  /\ dev' = [dev EXCEPT !.queued = @ - 1, !.notified = dev.queued > 1]
  /\ UNCHANGED <<pc, timeout, mac_set, q, reported, due>>

BringUp == InitSteps \/ Nettest \/ DevResets \/ DevTransmit

\* The kernel's code runs on; a card that was told to send does; it resets
\* in the end unless that may fail.
BringUpSpec ==
  /\ BeforeBringUp /\ [][BringUp]_bring_up_vars
  /\ WF_bring_up_vars(InitSteps) /\ WF_bring_up_vars(DevTransmit)
  /\ ("reset" \notin MayFail) => WF_bring_up_vars(DevResets)

-----------------------------------------------------------------------------
\* When virtio_net_init reports success the card is live, with the features
\* agreed and both queues set up and enabled: nothing of it is undone by the
\* reset it asked for, nor left over from firmware. A nettest meets a null tx_q
\* only on a card whose TX queue was never set up: before virtq_alloc has run for
\* it, or because it found no memory. (The MAC address, which nettest looks at, is
\* set before that: the test it is meant to be, "Aborting test.", would let it
\* meet none at all.)
DoneMeansLive ==
  /\ pc = "done" =>
       /\ dev.status = AllBits
       /\ dev.accepted = dev.offered
       /\ dev.configured = Queues /\ dev.enabled = Queues
  /\ pc = "fault" => "tx" \notin dev.configured

\* virtio_net_init ends, whatever the card does (the reset loop's counter).
InitEnds == <>(pc \in {"done", "failed", "fault", "halted"})

\* What nettest has reported as sent, also before the card listened, is on
\* the wire once a nettest has been run on the live card (virtq_kick).
ReportedIsSent == \A n \in 1 .. MaxTests : due >= n ~> Len(wire) >= n

\* Ethernet frames are sent as they were built, from their first byte on: so
\* it is on a card that does not offer VIRTIO_F_VERSION_1, and only there.
FrameIntact == \A n \in DOMAIN wire : wire[n] = 0
=============================================================================
