----------------------------- MODULE Interrupts -----------------------------
(***************************************************************************)
(* Interrupt delivery: the boot sequence of kmain as far as it opens       *)
(* interrupt lines, the gates of cpu/idt.cpp, the dispatch of              *)
(* cpu/isr.cpp, the PIC calls of cpu/pic.cpp, and two devices behind the   *)
(* pair of 8259s, the keyboard controller and the virtio network card.     *)
(*                                                                         *)
(* The 8259s and the devices are external.  The keyboard's line is edge    *)
(* triggered, the PCI card's is level triggered.                           *)
(***************************************************************************)
EXTENDS Integers, Sequences, FiniteSets

CONSTANTS
  CardLines,   \* what firmware may have put into the card's Interrupt Line register
  EarlyKeys,   \* keys may be pressed before pic_remap has run
  MaxBytes,    \* bound: scancodes that arrive
  MaxEvents    \* bound: interrupts the card raises

Lines == 0 .. 15
None == -1

ASSUME LineAssumption == CardLines \subseteq Lines
ASSUME BoundAssumption == MaxBytes \in Nat /\ MaxEvents \in Nat

VARIABLES
  boot,        \* the next step of kmain, or "hlt" once it loops
  cpu,         \* interrupt flag, the line being handled, and the handler's step
  pic,         \* masked, requested (edges latched) and in-service lines
  gates,       \* vectors with a present gate in the IDT
  kbd,         \* scancodes waiting in the controller; whether port 0x60 is full
  card,        \* the card's line, its ISR bit and the interrupts it has raised
  keys,        \* scancodes the keyboard handler has read
  ticked       \* the tick counter of isr.cpp has moved

vars == <<boot, cpu, pic, gates, kbd, card, keys, ticked>>

\* Lines that ask for service: latched edges, and the card's level.
Asking == pic.edges \cup (IF card.isr THEN {card.line} ELSE {})

\* Priority within the pair: the slave's lines stand at the master's line 2.
Before == <<0, 1, 8, 9, 10, 11, 12, 13, 14, 15, 3, 4, 5, 6, 7>>
Rank(n) == CHOOSE r \in DOMAIN Before : Before[r] = n

\* Master line that carries n.
Via(n) == IF n >= 8 THEN 2 ELSE n

Deliverable(n) ==
  /\ n \in Asking /\ n \notin pic.masked /\ Via(n) \notin pic.masked
  /\ \A s \in pic.service \ {2} : Rank(n) < Rank(s)
  /\ 2 \in pic.service => Via(n) < 2

\* What the PIC gives the processor when it acknowledges.
Selected(n) ==
  /\ Deliverable(n)
  /\ \A m \in Lines \ {2} : Deliverable(m) => Rank(n) <= Rank(m)

Init ==
  /\ boot = "idt"
  /\ cpu = [if |-> FALSE, line |-> None, at |-> "main"]
  /\ pic = [masked |-> Lines, edges |-> {}, service |-> {}, base |-> {}]
  /\ gates = {}
  /\ kbd = [queue |-> 0, full |-> FALSE, came |-> 0]
  /\ card \in [line : CardLines, live : {FALSE}, isr : {FALSE}, raised : {0}]
  /\ keys = 0 /\ ticked = FALSE

Main(here, next) == cpu.at = "main" /\ boot = here /\ boot' = next

-----------------------------------------------------------------------------
\* Mutant: the gate of the card's vector is not set.
InitIdtNo43 ==
  /\ Main("idt", "remap")
  /\ gates' = (0 .. 33) \cup {42}
  /\ UNCHANGED <<cpu, pic, kbd, card, keys, ticked>>

\* init_idt
InitIdt ==
  /\ Main("idt", "remap")
  /\ gates' = (0 .. 33) \cup {42, 43}
  /\ UNCHANGED <<cpu, pic, kbd, card, keys, ticked>>

\* pic_remap: ICW1 clears what was latched and in service, and an edge that
\* came before it is forgotten while the line stays up; the masks are saved
\* before and restored after.
PicRemap ==
  /\ Main("remap", "sti")
  /\ pic' = [pic EXCEPT !.edges = {}, !.service = {}, !.base = {32, 40}]
  /\ UNCHANGED <<cpu, gates, kbd, card, keys, ticked>>

Sti ==
  /\ Main("sti", "unmask1")
  /\ cpu' = [cpu EXCEPT !.if = TRUE]
  /\ UNCHANGED <<pic, gates, kbd, card, keys, ticked>>

\* pic_unmask_irq
Unmask(n) == pic' = [pic EXCEPT !.masked = @ \ {n}]

UnmaskKeyboard ==
  /\ Main("unmask1", "unmask2") /\ Unmask(1)
  /\ UNCHANGED <<cpu, gates, kbd, card, keys, ticked>>

\* Mutant: the cascade line stays masked.
UnmaskCascadeNot ==
  /\ Main("unmask2", "unmask10")
  /\ UNCHANGED <<cpu, pic, gates, kbd, card, keys, ticked>>

UnmaskCascade ==
  /\ Main("unmask2", "unmask10") /\ Unmask(2)
  /\ UNCHANGED <<cpu, gates, kbd, card, keys, ticked>>

UnmaskE1000 ==
  /\ Main("unmask10", "driver_ok") /\ Unmask(10)
  /\ UNCHANGED <<cpu, gates, kbd, card, keys, ticked>>

\* The PCI scan found the card: virtio_net_init sets DRIVER_OK, and opens
\* the line only after it.
DriverOk ==
  /\ Main("driver_ok", "unmask_card")
  /\ card' = [card EXCEPT !.live = TRUE]
  /\ UNCHANGED <<cpu, pic, gates, kbd, keys, ticked>>

UnmaskCard ==
  /\ Main("unmask_card", "hlt") /\ Unmask(card.line)
  /\ UNCHANGED <<cpu, gates, kbd, card, keys, ticked>>

Boot ==
  \/ InitIdt \/ PicRemap \/ Sti \/ UnmaskKeyboard \/ UnmaskCascade
  \/ UnmaskE1000 \/ DriverOk \/ UnmaskCard

-----------------------------------------------------------------------------
\* The processor takes an interrupt between two instructions of the main
\* line.  A vector without a gate raises an exception instead, whose gate
\* leads to kernel_panic.
Accept ==
  /\ cpu.at = "main" /\ cpu.if
  /\ \E n \in Lines \ {2} :
       /\ Selected(n)
       /\ pic' = [pic EXCEPT !.edges = @ \ {n}, !.service = @ \cup {n, Via(n)}]
       /\ cpu' = [if |-> FALSE, line |-> n,
                  at |-> IF 32 + n \in gates THEN "handler" ELSE "panic"]
  /\ UNCHANGED <<boot, gates, kbd, card, keys, ticked>>

\* Mutant: the handler returns without reading the port.
HandleKeyboardSkips ==
  /\ cpu.at = "handler" /\ cpu.line = 1
  /\ cpu' = [cpu EXCEPT !.at = "eoi"]
  /\ UNCHANGED <<boot, pic, gates, kbd, card, keys, ticked>>

\* Vector 33: one byte is read from port 0x60.
HandleKeyboard ==
  /\ cpu.at = "handler" /\ cpu.line = 1
  /\ kbd' = [kbd EXCEPT !.full = FALSE] /\ keys' = keys + 1
  /\ cpu' = [cpu EXCEPT !.at = "eoi"]
  /\ UNCHANGED <<boot, pic, gates, card, ticked>>

\* Vector 43: virtio_net_handle_interrupt reads the ISR register.
HandleCard ==
  /\ cpu.at = "handler" /\ cpu.line = 11
  /\ card' = [card EXCEPT !.isr = FALSE]
  /\ cpu' = [cpu EXCEPT !.at = "eoi"]
  /\ UNCHANGED <<boot, pic, gates, kbd, keys, ticked>>

\* Vector 32 counts a tick.  Vector 42 runs e1000_handle_interrupt for a card
\* no code has initialised: it reads registers at a null base, which faults
\* or not as page 0 is mapped or not.
HandleOther ==
  /\ cpu.at = "handler" /\ cpu.line \notin {1, 11}
  /\ ticked' = (ticked \/ cpu.line = 0)
  /\ \E after \in IF cpu.line = 10 THEN {"eoi", "panic"} ELSE {"eoi"} :
       cpu' = [cpu EXCEPT !.at = after]
  /\ UNCHANGED <<boot, pic, gates, kbd, card, keys>>

\* Non-specific EOI: the chip drops its most urgent line in service.
Drop(service, chip) ==
  {n \in service : \/ n \notin chip
                   \/ \E m \in service \cap chip : m < n}

\* Mutant: the master alone is told.
SendEoiMaster ==
  /\ cpu.at = "eoi"
  /\ pic' = [pic EXCEPT !.service = Drop(@, 0 .. 7)]
  /\ cpu' = [cpu EXCEPT !.at = "iret"]
  /\ UNCHANGED <<boot, gates, kbd, card, keys, ticked>>

\* pic_send_eoi: the slave first, if the line is one of its own.
SendEoi ==
  /\ cpu.at = "eoi"
  /\ pic' = [pic EXCEPT !.service =
               Drop(IF cpu.line >= 8 THEN Drop(@, 8 .. 15) ELSE @, 0 .. 7)]
  /\ cpu' = [cpu EXCEPT !.at = "iret"]
  /\ UNCHANGED <<boot, gates, kbd, card, keys, ticked>>

\* iretq restores the flag the main line had.
Iret ==
  /\ cpu.at = "iret"
  /\ cpu' = [if |-> TRUE, line |-> None, at |-> "main"]
  /\ UNCHANGED <<boot, pic, gates, kbd, card, keys, ticked>>

Handler == Accept \/ HandleKeyboard \/ HandleCard \/ HandleOther \/ SendEoi \/ Iret

-----------------------------------------------------------------------------
\* The timer's channel 0 runs at the rate init_pit gave it.
TimerEdge ==
  /\ pic.base # {}
  /\ pic' = [pic EXCEPT !.edges = @ \cup {0}]
  /\ UNCHANGED <<boot, cpu, gates, kbd, card, keys, ticked>>

\* A key is pressed or released.
KeyArrives ==
  /\ kbd.came < MaxBytes /\ (EarlyKeys \/ pic.base # {})
  /\ kbd' = [kbd EXCEPT !.queue = @ + 1, !.came = @ + 1]
  /\ UNCHANGED <<boot, cpu, pic, gates, card, keys, ticked>>

\* The controller puts the next byte into port 0x60: its line goes up.
KeyReady ==
  /\ kbd.queue > 0 /\ ~kbd.full
  /\ kbd' = [kbd EXCEPT !.queue = @ - 1, !.full = TRUE]
  /\ pic' = [pic EXCEPT !.edges = @ \cup {1}]
  /\ UNCHANGED <<boot, cpu, gates, card, keys, ticked>>

CardRaises ==
  /\ card.live /\ card.raised < MaxEvents
  /\ card' = [card EXCEPT !.isr = TRUE, !.raised = @ + 1]
  /\ UNCHANGED <<boot, cpu, pic, gates, kbd, keys, ticked>>

Next == Boot \/ Handler \/ TimerEdge \/ KeyArrives \/ KeyReady \/ CardRaises

\* The processor runs, the controller hands over what it holds, the timer runs.
Spec ==
  Init /\ [][Next]_vars /\ WF_vars(Boot \/ Handler) /\ WF_vars(KeyReady)
  /\ WF_vars(TimerEdge)

-----------------------------------------------------------------------------
\* The types of the processor's, the PICs' and the devices' state. (A card on
\* the keyboard's line would have its handler read bytes again.)
TypeOK ==
  /\ boot \in {"idt", "remap", "sti", "unmask1", "unmask2", "unmask10",
               "driver_ok", "unmask_card", "hlt"}
  /\ cpu \in [if : BOOLEAN, line : Lines \cup {None},
              at : {"main", "handler", "eoi", "iret", "panic"}]
  /\ pic.masked \subseteq Lines /\ pic.edges \subseteq Lines \ {2}
  /\ pic.service \subseteq Lines
  /\ gates \subseteq 0 .. 255
  /\ card.line # 1 => kbd.queue + keys <= kbd.came
  /\ card.line \in CardLines /\ card.raised \in 0 .. MaxEvents

\* The card is where isr_handler looks for it: vector 43.
Expected == card.line = 11

\* A device's interrupt never stops the machine, with the card on the line it
\* is expected on: a line is opened only when its vector leads to a handler of
\* its device (init_idt and isr_handler against pic_unmask_irq).  On line 10
\* another driver's handler is run, on others there is no gate.
NoPanic == Expected => cpu.at # "panic"

\* The state is well typed, and when no handler runs, no line is left in
\* service on either chip, where it would shut out the lines below it for
\* good (pic_send_eoi).
NothingLeftInService ==
  TypeOK /\ (cpu.at \in {"main", "iret"} => pic.service = {})

\* Every scancode the controller takes is read by the keyboard handler: with
\* an edge-triggered line, one byte left in port 0x60 would silence it.
KeysRead == \A n \in 1 .. MaxBytes : (Expected /\ kbd.came >= n) ~> keys >= n

\* The card's interrupt is answered: its ISR register is read.
CardServed == (Expected /\ card.isr) ~> ~card.isr

\* The kernel has a notion of time: the timer's interrupts are counted.  This
\* does not hold: init_pit starts the timer, and nothing unmasks its line.
ClockRuns == <>ticked
=============================================================================
