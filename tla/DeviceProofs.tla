---------------------------- MODULE DeviceProofs ----------------------------
(***************************************************************************)
(* Proofs about how the kernel and its devices meet: interrupt delivery,   *)
(* for every line the card may be on and any number of keys and card       *)
(* interrupts, and what the success of virtio_net_init means.              *)
(***************************************************************************)
EXTENDS Interrupts, VirtioBringUp, TLAPS

-----------------------------------------------------------------------------
\* Interrupt delivery.

Boots == {"idt", "remap", "sti", "unmask1", "unmask2", "unmask10",
          "driver_ok", "unmask_card", "hlt"}

\* The types of the state, but for the flags.
ShapeOK ==
  /\ boot \in Boots
  /\ cpu = [if |-> cpu.if, line |-> cpu.line, at |-> cpu.at]
  /\ cpu.line \in Lines \cup {None}
  /\ cpu.at \in {"main", "handler", "eoi", "iret", "panic"}
  /\ pic = [masked |-> pic.masked, edges |-> pic.edges, service |-> pic.service, base |-> pic.base]
  /\ pic.masked \subseteq Lines /\ pic.edges \subseteq Lines \ {2}
  /\ pic.service \subseteq Lines
  /\ gates \subseteq 0 .. 255
  /\ kbd = [queue |-> kbd.queue, full |-> kbd.full, came |-> kbd.came]
  /\ kbd.queue \in Nat /\ kbd.came \in Nat /\ keys \in Nat
  /\ card = [line |-> card.line, live |-> card.live, isr |-> card.isr, raised |-> card.raised]
  /\ card.line \in CardLines /\ card.raised \in 0 .. MaxEvents

\* A line in service is the one that is being handled, on both chips it passes.
ServiceOK ==
  /\ cpu.at \in {"main", "iret"} => pic.service = {}
  /\ cpu.at \in {"handler", "eoi"} =>
       cpu.line \in Lines \ {2} /\ pic.service = {cpu.line, Via(cpu.line)}

HandlesKey == cpu.at = "handler" /\ cpu.line = 1

\* On a line of its own, the keyboard's edge and its handler stand for one byte in
\* port 0x60.
KeyboardOK ==
  card.line # 1 =>
  /\ 1 \in pic.edges \/ HandlesKey => kbd.full
  /\ ~ (1 \in pic.edges /\ HandlesKey)
  /\ kbd.full => kbd.queue + keys + 1 <= kbd.came
  /\ kbd.queue + keys <= kbd.came

DeliveryInv == ShapeOK /\ ServiceOK /\ KeyboardOK

\* What the EOI leaves in service: nothing.
LEMMA EoiEmpties ==
  ASSUME NEW n \in Lines \ {2}
  PROVE  Drop(IF n >= 8 THEN Drop({n, Via(n)}, 8 .. 15) ELSE {n, Via(n)}, 0 .. 7) = {}
<1>1. CASE n >= 8
  <2>1. Drop({n, 2}, 8 .. 15) = {2}
    BY <1>1 DEF Drop, Lines
  <2>2. Drop({2}, 0 .. 7) = {}
    BY DEF Drop
  <2> QED BY <1>1, <2>1, <2>2 DEF Via
<1>2. CASE n < 8
  <2>1. Via(n) = n
    BY <1>2 DEF Via, Lines
  <2>2. Drop({n}, 0 .. 7) = {}
    BY <1>2 DEF Drop, Lines
  <2> QED BY <1>2, <2>1, <2>2 DEF Lines
<1> QED BY <1>1, <1>2 DEF Lines

\* At boot.
LEMMA DeliveryInit == Init => DeliveryInv
<1> SUFFICES ASSUME Init PROVE DeliveryInv
  OBVIOUS
<1>1. PICK n \in CardLines : card = [line |-> n, live |-> FALSE, isr |-> FALSE, raised |-> 0]
  BY DEF Init
<1>2. ShapeOK
  BY <1>1, BoundAssumption DEF Init, ShapeOK, Boots, Lines, None
<1>3. ServiceOK /\ KeyboardOK
  BY DEF Init, ServiceOK, KeyboardOK, HandlesKey
<1> QED BY <1>2, <1>3 DEF DeliveryInv

\* Every step of the boot code, a handler or a device keeps it.
LEMMA DeliveryStep ==
  ASSUME DeliveryInv, [Next]_vars
  PROVE  DeliveryInv'
<1>a. ShapeOK /\ ServiceOK /\ KeyboardOK
  BY DEF DeliveryInv
<1> USE DEF DeliveryInv, ServiceOK, KeyboardOK, HandlesKey, Main, Unmask
<1>1. CASE InitIdt
  BY <1>a, <1>1 DEF InitIdt, ShapeOK, Boots
<1>2. CASE PicRemap
  BY <1>a, <1>2 DEF PicRemap, ShapeOK, Boots
<1>3. CASE Sti
  BY <1>a, <1>3 DEF Sti, ShapeOK, Boots
<1>4. CASE UnmaskKeyboard
  BY <1>a, <1>4 DEF UnmaskKeyboard, ShapeOK, Boots
<1>5. CASE UnmaskCascade
  BY <1>a, <1>5 DEF UnmaskCascade, ShapeOK, Boots
<1>6. CASE UnmaskE1000
  BY <1>a, <1>6 DEF UnmaskE1000, ShapeOK, Boots
<1>7. CASE DriverOk
  BY <1>a, <1>7 DEF DriverOk, ShapeOK, Boots
<1>8. CASE UnmaskCard
  BY <1>a, <1>8 DEF UnmaskCard, ShapeOK, Boots
<1>9. CASE Accept
  <2>1. PICK n \in Lines \ {2} :
          /\ Selected(n)
          /\ pic' = [pic EXCEPT !.edges = @ \ {n}, !.service = @ \cup {n, Via(n)}]
          /\ cpu' = [if |-> FALSE, line |-> n,
                     at |-> IF 32 + n \in gates THEN "handler" ELSE "panic"]
    BY <1>9 DEF Accept
  <2>2. cpu.at = "main" /\ pic.service = {} /\ UNCHANGED <<boot, gates, kbd, card, keys>>
    BY <1>a, <1>9 DEF Accept
  <2>3. cpu'.line = n /\ cpu'.at \in {"handler", "panic"}
    BY <2>1
  <2>4. /\ pic'.masked = pic.masked /\ pic'.edges = pic.edges \ {n}
        /\ pic'.service = {n, Via(n)} /\ pic'.base = pic.base
    BY <1>a, <2>1, <2>2 DEF ShapeOK
  <2>5. Via(n) \in Lines
    BY DEF Via, Lines
  <2>6. ShapeOK'
    BY <1>a, <2>1, <2>2, <2>3, <2>4, <2>5 DEF ShapeOK
  <2>7. ServiceOK'
    BY <2>3, <2>4
  <2>8. n = 1 /\ card.line # 1 => 1 \in pic.edges
    BY <1>a, <2>1 DEF Selected, Deliverable, Asking, ShapeOK
  <2>9. KeyboardOK'
    BY <1>a, <2>2, <2>3, <2>4, <2>8
  <2> QED BY <2>6, <2>7, <2>9
<1>10. CASE HandleKeyboard
  <2>1. /\ kbd' = [queue |-> kbd.queue, full |-> FALSE, came |-> kbd.came]
        /\ keys' = keys + 1
        /\ cpu' = [if |-> cpu.if, line |-> 1, at |-> "eoi"]
        /\ UNCHANGED <<boot, pic, gates, card>>
    BY <1>a, <1>10 DEF HandleKeyboard, ShapeOK
  <2>2. ShapeOK'
    BY <1>a, <2>1 DEF ShapeOK, Lines
  <2>3. ServiceOK' /\ KeyboardOK'
    BY <1>a, <1>10, <2>1 DEF HandleKeyboard, ShapeOK
  <2> QED BY <2>2, <2>3
<1>11. CASE HandleCard
  BY <1>a, <1>11 DEF HandleCard, ShapeOK
<1>12. CASE HandleOther
  BY <1>a, <1>12 DEF HandleOther, ShapeOK
<1>13. CASE SendEoi
  <2>1. cpu.line \in Lines \ {2} /\ pic.service = {cpu.line, Via(cpu.line)}
    BY <1>a, <1>13 DEF SendEoi
  <2>2. /\ pic'.service = {} /\ pic'.masked = pic.masked /\ pic'.edges = pic.edges
        /\ pic' = [masked |-> pic'.masked, edges |-> pic'.edges, service |-> pic'.service,
                 base |-> pic'.base]
    BY <1>a, <1>13, <2>1, EoiEmpties DEF SendEoi, ShapeOK
  <2>3. ShapeOK'
    BY <1>a, <1>13, <2>2 DEF SendEoi, ShapeOK
  <2>4. ServiceOK' /\ KeyboardOK'
    BY <1>a, <1>13, <2>2 DEF SendEoi, ShapeOK
  <2> QED BY <2>3, <2>4
<1>14. CASE Iret
  BY <1>a, <1>14 DEF Iret, ShapeOK
<1>15. CASE TimerEdge
  <2>4. /\ pic'.edges = pic.edges \cup {0} /\ pic'.masked = pic.masked
        /\ pic'.service = pic.service /\ pic'.base = pic.base
    BY <1>a, <1>15 DEF TimerEdge, ShapeOK, Lines
  <2>5. pic' = [masked |-> pic'.masked, edges |-> pic'.edges, service |-> pic'.service,
                 base |-> pic'.base]
    BY <1>a, <1>15 DEF TimerEdge, ShapeOK, Lines
  <2>6. pic'.edges \subseteq Lines \ {2}
    BY <1>a, <2>4 DEF ShapeOK, Lines
  <2>1. ShapeOK'
    BY <1>a, <1>15, <2>4, <2>5, <2>6 DEF TimerEdge, ShapeOK
  <2>2. ServiceOK'
    BY <1>a, <1>15 DEF TimerEdge, ShapeOK
  <2>3. KeyboardOK'
    BY <1>a, <1>15 DEF TimerEdge, ShapeOK
  <2> QED BY <2>1, <2>2, <2>3
<1>16. CASE KeyArrives
  <2>1. ShapeOK'
    <3>1. kbd' = [queue |-> kbd.queue + 1, full |-> kbd.full, came |-> kbd.came + 1]
      BY <1>a, <1>16 DEF KeyArrives, ShapeOK
    <3>2. kbd.queue + 1 \in Nat /\ kbd.came + 1 \in Nat
      BY <1>a DEF ShapeOK
    <3>3. kbd' = [queue |-> kbd'.queue, full |-> kbd'.full, came |-> kbd'.came]
      BY <3>1
    <3> QED BY <1>a, <1>16, <3>1, <3>2, <3>3 DEF KeyArrives, ShapeOK
  <2>2. ServiceOK'
    BY <1>a, <1>16 DEF KeyArrives, ShapeOK
  <2>3. KeyboardOK'
    BY <1>a, <1>16 DEF KeyArrives, ShapeOK
  <2> QED BY <2>1, <2>2, <2>3
<1>17. CASE KeyReady
  <2>1. ShapeOK'
    <3>1. kbd' = [queue |-> kbd.queue - 1, full |-> TRUE, came |-> kbd.came]
      BY <1>a, <1>17 DEF KeyReady, ShapeOK
    <3>4. kbd.queue - 1 \in Nat
      BY <1>a, <1>17 DEF KeyReady, ShapeOK
    <3>2. pic' = [masked |-> pic.masked, edges |-> pic.edges \cup {1},
                  service |-> pic.service, base |-> pic.base]
      BY <1>a, <1>17 DEF KeyReady, ShapeOK
    <3>3. pic.edges \cup {1} \subseteq Lines \ {2}
      BY <1>a DEF ShapeOK, Lines
    <3> QED BY <1>a, <1>17, <3>1, <3>2, <3>3, <3>4 DEF KeyReady, ShapeOK
  <2>2. ServiceOK'
    BY <1>a, <1>17 DEF KeyReady, ShapeOK
  <2>3. KeyboardOK'
    BY <1>a, <1>17 DEF KeyReady, ShapeOK
  <2> QED BY <2>1, <2>2, <2>3
<1>18. CASE CardRaises
  <2>1. card' = [line |-> card.line, live |-> card.live, isr |-> TRUE, raised |-> card.raised + 1]
    BY <1>a, <1>18 DEF CardRaises, ShapeOK
  <2>4. card.raised + 1 \in 0 .. MaxEvents
    BY <1>a, <1>18, BoundAssumption DEF CardRaises, ShapeOK
  <2>2. ShapeOK'
    BY <1>a, <1>18, <2>1, <2>4 DEF CardRaises, ShapeOK
  <2>3. ServiceOK' /\ KeyboardOK'
    BY <1>a, <1>18, <2>1 DEF CardRaises, ShapeOK
  <2> QED BY <2>2, <2>3
<1>19. CASE UNCHANGED vars
  BY <1>a, <1>19 DEF vars, ShapeOK
<1> QED
  BY <1>1, <1>2, <1>3, <1>4, <1>5, <1>6, <1>7, <1>8, <1>9, <1>10, <1>11, <1>12,
     <1>13, <1>14, <1>15, <1>16, <1>17, <1>18, <1>19 DEF Next, Boot, Handler

\* What the controllers hold in service matches the running handler.
LEMMA DeliveryInvHolds == Spec => []DeliveryInv
<1>1. QED BY DeliveryInit, DeliveryStep, PTL DEF Spec

\* The interrupt flag is a flag.
FlagOK == cpu.if \in BOOLEAN

\* The interrupt flag is only set, cleared or restored.
LEMMA FlagStep ==
  ASSUME DeliveryInv, FlagOK, [Next]_vars
  PROVE  FlagOK'
<1>1. CASE Sti
  BY <1>1 DEF Sti, FlagOK, DeliveryInv, ShapeOK
<1>2. CASE Accept \/ Iret
  <2>1. PICK flag \in BOOLEAN :
        \E line, at : cpu' = [if |-> flag, line |-> line, at |-> at]
    BY <1>2, Zenon DEF Accept, Iret
  <2>2. cpu'.if = flag
    BY <2>1
  <2> QED BY <2>2 DEF FlagOK
<1>3. CASE HandleKeyboard \/ HandleCard \/ HandleOther \/ SendEoi
  <2>1. cpu = [if |-> cpu.if, line |-> cpu.line, at |-> cpu.at]
    BY DEF DeliveryInv, ShapeOK
  <2>2. PICK after : cpu' = [cpu EXCEPT !.at = after]
    BY <1>3 DEF HandleKeyboard, HandleCard, HandleOther, SendEoi
  <2>3. cpu' = [if |-> cpu.if, line |-> cpu.line, at |-> after]
    BY <2>1, <2>2
  <2>4. cpu'.if = cpu.if
    BY <2>3
  <2> QED BY <2>4 DEF FlagOK
<1>4. CASE UNCHANGED cpu
  BY <1>4 DEF FlagOK
<1> QED
  BY <1>1, <1>2, <1>3, <1>4 DEF Next, Boot, Handler, vars, InitIdt, PicRemap, UnmaskKeyboard,
     UnmaskCascade, UnmaskE1000, DriverOk, UnmaskCard, TimerEdge, KeyArrives, KeyReady, CardRaises

\* The parts of the type invariant, together.
LEMMA FlagInShape ==
  ASSUME ShapeOK, FlagOK, card.line # 1 => kbd.queue + keys <= kbd.came
  PROVE  TypeOK
<1>1. cpu \in [if : BOOLEAN, line : Lines \cup {None},
               at : {"main", "handler", "eoi", "iret", "panic"}]
  BY Zenon DEF ShapeOK, FlagOK
<1> QED BY <1>1 DEF ShapeOK, TypeOK, Boots

\* No handler returns with a line left in service, on either chip.
THEOREM NothingLeftHolds == Spec => []NothingLeftInService
<1>1. Init => FlagOK
  BY DEF Init, FlagOK
<1>2. DeliveryInv /\ FlagOK => NothingLeftInService
  BY FlagInShape DEF DeliveryInv, ServiceOK, KeyboardOK, NothingLeftInService
<1>3. QED BY <1>1, <1>2, FlagStep, DeliveryInvHolds, PTL DEF Spec

\* With the card on its line, no interrupt is taken that has no handler of its own.
PanicInv ==
  Expected =>
    /\ cpu.if \/ cpu.at # "main" => boot \notin {"idt", "remap", "sti"}
    /\ boot # "idt" => {33, 43} \subseteq gates
    /\ Lines \ {1, 2, 10, 11} \subseteq pic.masked
    /\ pic.edges \subseteq {0, 1}
    /\ cpu.at = "handler" => cpu.line \in {1, 11}
    /\ cpu.at # "panic"

\* At boot nothing has panicked.
LEMMA PanicInit == Init => PanicInv
  BY DEF Init, PanicInv, Expected

\* No step panics without a line nobody expected.
LEMMA PanicStep ==
  ASSUME DeliveryInv, PanicInv, [Next]_vars
  PROVE  PanicInv'
<1>a. ShapeOK /\ PanicInv
  BY DEF DeliveryInv
<1>b. card'.line = card.line
  BY <1>a DEF Next, Boot, Handler, vars, ShapeOK, Main, Unmask, InitIdt, PicRemap, Sti,
     UnmaskKeyboard, UnmaskCascade, UnmaskE1000, DriverOk, UnmaskCard, Accept, HandleKeyboard,
     HandleCard, HandleOther,
     SendEoi, Iret, TimerEdge, KeyArrives, KeyReady, CardRaises
<1> SUFFICES ASSUME card.line = 11 PROVE PanicInv'
  BY <1>b DEF PanicInv, Expected
<1> USE DEF PanicInv, Expected, Main, Unmask
<1>1. CASE InitIdt
  BY <1>a, <1>1 DEF InitIdt, ShapeOK
<1>2. CASE PicRemap
  BY <1>a, <1>2 DEF PicRemap, ShapeOK
<1>3. CASE Sti
  BY <1>a, <1>3 DEF Sti, ShapeOK
<1>4. CASE UnmaskKeyboard
  BY <1>a, <1>4 DEF UnmaskKeyboard, ShapeOK
<1>5. CASE UnmaskCascade
  BY <1>a, <1>5 DEF UnmaskCascade, ShapeOK
<1>6. CASE UnmaskE1000
  BY <1>a, <1>6 DEF UnmaskE1000, ShapeOK
<1>7. CASE DriverOk
  BY <1>a, <1>7 DEF DriverOk, ShapeOK
<1>8. CASE UnmaskCard
  BY <1>a, <1>8 DEF UnmaskCard, ShapeOK
<1>9. CASE Accept
  <2>1. PICK n \in Lines \ {2} :
          /\ Selected(n)
          /\ pic' = [pic EXCEPT !.edges = @ \ {n}, !.service = @ \cup {n, Via(n)}]
          /\ cpu' = [if |-> FALSE, line |-> n,
                     at |-> IF 32 + n \in gates THEN "handler" ELSE "panic"]
    BY <1>9 DEF Accept
  <2>2. n \in {0, 1, 11} /\ n \notin pic.masked
    BY <1>a, <2>1 DEF Selected, Deliverable, Asking
  <2>3. n \in {1, 11} /\ 32 + n \in gates
    BY <1>a, <1>9, <2>2 DEF Accept, Lines
  <2>4. /\ cpu'.line = n /\ cpu'.at = "handler" /\ pic'.masked = pic.masked
        /\ pic'.edges \subseteq pic.edges
    BY <1>a, <2>1, <2>3 DEF ShapeOK
  <2> QED BY <1>a, <1>9, <2>3, <2>4 DEF Accept
<1>10. CASE HandleKeyboard
  BY <1>a, <1>10 DEF HandleKeyboard, ShapeOK
<1>11. CASE HandleCard
  BY <1>a, <1>11 DEF HandleCard, ShapeOK
<1>12. CASE HandleOther
  BY <1>a, <1>12 DEF HandleOther
<1>13. CASE SendEoi
  BY <1>a, <1>13 DEF SendEoi, ShapeOK
<1>14. CASE Iret
  BY <1>a, <1>14 DEF Iret, ShapeOK
<1>15. CASE TimerEdge
  BY <1>a, <1>15 DEF TimerEdge, ShapeOK
<1>16. CASE KeyArrives
  BY <1>a, <1>16 DEF KeyArrives, ShapeOK
<1>17. CASE KeyReady
  BY <1>a, <1>17 DEF KeyReady, ShapeOK
<1>18. CASE CardRaises
  BY <1>a, <1>18 DEF CardRaises, ShapeOK
<1>19. CASE UNCHANGED vars
  BY <1>a, <1>19 DEF vars
<1> QED
  BY <1>1, <1>2, <1>3, <1>4, <1>5, <1>6, <1>7, <1>8, <1>9, <1>10, <1>11, <1>12,
     <1>13, <1>14, <1>15, <1>16, <1>17, <1>18, <1>19 DEF Next, Boot, Handler

\* No device's interrupt stops the machine, with the card on line 11.
THEOREM NoPanicHolds == Spec => []NoPanic
<1>1. PanicInv => NoPanic
  BY DEF PanicInv, NoPanic
<1>2. QED BY <1>1, PanicInit, PanicStep, DeliveryInvHolds, PTL DEF Spec

-----------------------------------------------------------------------------
\* What virtio_net_init's success means, for every card, every patience and every
\* way in which the handshake may fail.

\* The steps of virtio_net_init that follow a reset that was seen, in groups
\* between which the card's state changes.
Agreeing == {"acknowledge", "driver", "negotiate"}
Offering == {"features_ok", "check"}
Setting == {"mac", "alloc_rx", "alloc_tx", "queues"}
Starting == {"fill", "enable_rx", "enable_tx", "driver_ok"}
Ended == {"done", "failed", "fault", "halted"}
AfterReset == Agreeing \cup Offering \cup Setting \cup Starting \cup {"done"}

CardShapeOK ==
  /\ pc \in {"caps", "reset", "poll"} \cup AfterReset \cup Ended
  /\ q = [r \in Queues |-> q[r]]
  /\ dev = [status |-> dev.status, resetting |-> dev.resetting, offered |-> dev.offered,
            accepted |-> dev.accepted, configured |-> dev.configured,
            enabled |-> dev.enabled, queued |-> dev.queued, notified |-> dev.notified]

\* A reset can only be under way while the driver waits for it, or has given up
\* waiting, and nothing is set up by then.
CardResetOK ==
  /\ dev.resetting => pc \in {"poll", "failed"} /\ ~ mac_set
                      /\ \A r \in Queues : q[r] = NoQueue
  /\ pc \in {"caps", "reset"} => ~ mac_set
  /\ pc \in {"caps", "reset", "poll"} \cup Agreeing \cup Offering \cup {"mac"} =>
       \A r \in Queues : q[r] = NoQueue
  /\ pc = "poll" => ~ mac_set
  /\ pc = "poll" /\ ~ dev.resetting =>
       dev.accepted = {} /\ dev.configured = {} /\ dev.enabled = {}

\* A queue is set up on the card when the driver has it.
QueuesOK ==
  /\ dev.configured \subseteq Queues
  /\ \A r \in Queues : r \in dev.configured <=> q[r] # NoQueue

\* What the card has been told, step by step.
CardToldOK ==
  /\ pc \in Agreeing => dev.accepted = {}
  /\ pc \in AfterReset \ Agreeing => dev.accepted = dev.offered
  /\ pc \in Setting \cup Starting => dev.status = FeatureBits
  /\ pc = "check" /\ "FEATURES_OK" \in dev.status => dev.status = FeatureBits
  /\ pc \in {"negotiate", "features_ok"} => dev.status = DriverBits
  /\ pc = "done" => dev.status = AllBits
  /\ pc \in Agreeing \cup Offering \cup Setting \cup {"fill", "enable_rx"} => dev.enabled = {}
  /\ pc = "enable_tx" => dev.enabled = {"rx"}
  /\ pc \in {"driver_ok", "done"} => dev.enabled = Queues
  /\ pc \in Starting \cup {"done"} => \A r \in Queues : q[r] # NoQueue
  /\ pc = "fault" => q["tx"] = NoQueue

BringUpInv == CardShapeOK /\ CardResetOK /\ QueuesOK /\ CardToldOK

\* Before virtio_net_init.
LEMMA BringUpBegins == BeforeBringUp => BringUpInv
<1> SUFFICES ASSUME BeforeBringUp PROVE BringUpInv
  OBVIOUS
<1>1. PICK offered \in Offers, used \in BOOLEAN :
        dev = [status |-> IF used THEN AllBits ELSE {},
               resetting |-> FALSE, offered |-> offered, accepted |-> {},
               configured |-> {}, enabled |-> IF used THEN Queues ELSE {},
               queued |-> 0, notified |-> FALSE]
  BY DEF BeforeBringUp
<1>2. ~ dev.resetting /\ dev.configured = {}
  BY <1>1
<1>3. CardShapeOK
  BY <1>1 DEF BeforeBringUp, CardShapeOK
<1> QED
  BY <1>2, <1>3 DEF BeforeBringUp, BringUpInv, CardResetOK, QueuesOK, CardToldOK, AfterReset,
     Agreeing, Offering, Setting, Starting

\* Every step of virtio_net_init and of the card keeps it.
LEMMA BringUpStep ==
  ASSUME BringUpInv, [BringUp]_bring_up_vars
  PROVE  BringUpInv'
<1>a. CardShapeOK /\ CardResetOK /\ QueuesOK /\ CardToldOK
  BY DEF BringUpInv
<1> USE DEF BringUpInv, CardResetOK, QueuesOK, CardToldOK, AfterReset, Agreeing, Offering, Setting,
            Starting, Ended, At, WriteStatus, Queues, NoQueue
<1>1. CASE FindCaps
  BY <1>a, <1>1 DEF FindCaps, CardShapeOK
<1>2. CASE ResetDevice
  BY <1>a, <1>2 DEF ResetDevice, CardShapeOK
<1>3. CASE PollReset
  BY <1>a, <1>3 DEF PollReset, CardShapeOK
<1>4. CASE Acknowledge
  BY <1>a, <1>4 DEF Acknowledge, CardShapeOK
<1>5. CASE SetDriver
  BY <1>a, <1>5 DEF SetDriver, CardShapeOK
<1>6. CASE Negotiate
  BY <1>a, <1>6 DEF Negotiate, CardShapeOK
<1>7. CASE SetFeaturesOk
  <2>1. "FEATURES_OK" \notin DriverBits
    BY DEF DriverBits, AckBits
  <2> QED BY <1>a, <1>7, <2>1 DEF SetFeaturesOk, CardShapeOK
<1>8. CASE CheckFeatures
  BY <1>a, <1>8 DEF CheckFeatures, CardShapeOK
<1>9. CASE ReadMac
  BY <1>a, <1>9 DEF ReadMac, CardShapeOK
<1>10. CASE AllocRx
  BY <1>a, <1>10 DEF AllocRx, Alloc, CardShapeOK
<1>11. CASE AllocTx
  BY <1>a, <1>11 DEF AllocTx, Alloc, CardShapeOK
<1>12. CASE CheckQueues
  BY <1>a, <1>12 DEF CheckQueues, CardShapeOK
<1>13. CASE FillRx
  BY <1>a, <1>13 DEF FillRx, CardShapeOK
<1>14. CASE EnableRx
  BY <1>a, <1>14 DEF EnableRx, Enable, CardShapeOK
<1>15. CASE EnableTx
  BY <1>a, <1>15 DEF EnableTx, Enable, CardShapeOK
<1>16. CASE SetDriverOk
  BY <1>a, <1>16 DEF SetDriverOk, CardShapeOK
<1>17. CASE Nettest
  BY <1>a, <1>17 DEF Nettest, CardShapeOK
<1>18. CASE DevResets
  BY <1>a, <1>18 DEF DevResets, CardShapeOK
<1>19. CASE DevTransmit
  BY <1>a, <1>19 DEF DevTransmit, CardShapeOK
<1>20. CASE UNCHANGED bring_up_vars
  BY <1>a, <1>20 DEF bring_up_vars, CardShapeOK
<1> QED
  BY <1>1, <1>2, <1>3, <1>4, <1>5, <1>6, <1>7, <1>8, <1>9, <1>10, <1>11, <1>12, <1>13,
     <1>14, <1>15, <1>16, <1>17, <1>18, <1>19, <1>20 DEF BringUp, InitSteps

\* When virtio_net_init reports success, the card is live as agreed, both queues are
\* set up and enabled, and a nettest that faulted met a queue that was never set up.
THEOREM DoneMeansLiveHolds == BringUpSpec => []DoneMeansLive
<1>1. BringUpInv => DoneMeansLive
  BY DEF BringUpInv, CardResetOK, QueuesOK, CardToldOK, DoneMeansLive, AfterReset,
     Agreeing, Starting, Queues
<1>2. QED BY <1>1, BringUpBegins, BringUpStep, PTL DEF BringUpSpec
=============================================================================
