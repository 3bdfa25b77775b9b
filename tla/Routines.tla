------------------------------ MODULE Routines ------------------------------
(***************************************************************************)
(* Routines of the kernel that share no state: memmove, the bitmap page    *)
(* allocator, the time command, the PCI scan and the ATA driver. One of    *)
(* them is chosen, and lives; the others rest.                             *)
(***************************************************************************)
EXTENDS Memmove, PmmBitmap, Sequences

CONSTANTS
    Chips, MaxTicks,                                      \* of Clock
    Buses, Devices, Functions, Machines, MaxCommands,     \* of PciScan
    Words, Patience, LbaMod, Full, Requests, MaxCalls     \* of Ata

VARIABLES
    routine,                                              \* the chosen one
    chip, now, ticks, past, raw, shown,                   \* of Clock
    machine, at, bus, device, function, many, address, found, commands, \* of PciScan
    ata_pc, polls, request, buffer, result, calls, drive  \* of Ata

\* Sectors have words; drives and sectors are numbers (the one call there is reads
\* sector 0 of drive 0, kernel.cpp).
ASSUME AtaAssumption ==
    /\ Words \in Nat \ {0} /\ LbaMod \in Nat \ {0} /\ Full \in Nat
    /\ Requests \subseteq [drive : Nat, lba : Nat, count : Nat]

clock_vars == <<chip, now, ticks, past, raw, shown>>
scan_vars  == <<machine, at, bus, device, function, many, address, found, commands>>
ata_vars   == <<ata_pc, polls, request, buffer, result, calls, drive>>
vars == <<routine, move_vars, bitmap_vars, clock_vars, scan_vars, ata_vars>>

Clock == INSTANCE Clock
Scan  == INSTANCE PciScan
Drive == INSTANCE Ata WITH pc <- ata_pc, call <- request

\* The command is entered in this century: the year a binary chip counts has no
\* other (rtc_get_time).
ASSUME ChipAssumption ==
    \A c \in Chips :
       /\ c.binary \in BOOLEAN /\ c.hours24 \in BOOLEAN
       /\ c.start \in [year : 2000 .. 2099, month : 1 .. 12, day : 1 .. 31,
                       hour : 0 .. 23, minute : 0 .. 59, second : 0 .. 59]

\* There are 256 buses of 32 devices of 8 functions, and on them the machine's.
ASSUME ScanAssumption ==
    /\ Buses \in Nat \ {0, 1} /\ Devices \in Nat \ {0} /\ Functions \in Nat \ {0}
    /\ \A m \in Machines : m.present \subseteq Scan!Slots

MoveRests   == mem = <<>> /\ start = <<>> /\ call = <<>> /\ i = 0 /\ pc = "rests"
BitmapRests ==
    /\ map = <<>> /\ bits = {} /\ total = 0 /\ home = {} /\ last = 0 /\ held = {} /\ got = 0
ClockRests  == chip = <<>> /\ now = <<>> /\ ticks = 0 /\ past = {} /\ raw = <<>> /\ shown = <<>>
ScanRests   ==
    /\ machine = <<>> /\ at = "rests" /\ bus = 0 /\ device = 0 /\ function = 0
    /\ many = FALSE /\ address = <<>> /\ found = <<>> /\ commands = 0
AtaRests    ==
    /\ ata_pc = "idle" /\ polls = 0 /\ request = <<>> /\ buffer = <<>>
    /\ result = "none" /\ calls = 0 /\ drive = <<>>

Init ==
    \/ /\ routine = "memmove"
       /\ Enter /\ BitmapRests /\ ClockRests /\ ScanRests /\ AtaRests
    \/ /\ routine = "bitmap"
       /\ MoveRests /\ InitPmm /\ ClockRests /\ ScanRests /\ AtaRests
    \/ /\ routine = "clock"
       /\ MoveRests /\ BitmapRests /\ Clock!Init /\ ScanRests /\ AtaRests
    \/ /\ routine = "scan"
       /\ MoveRests /\ BitmapRests /\ ClockRests /\ Scan!Init /\ AtaRests
    \/ /\ routine = "ata"
       /\ MoveRests /\ BitmapRests /\ ClockRests /\ ScanRests /\ Drive!Init

Keep(others) == UNCHANGED <<routine, others>>

Memmoves == routine = "memmove" /\ Move /\ Keep(<<bitmap_vars, clock_vars, scan_vars, ata_vars>>)
Allocates == routine = "bitmap" /\ Call /\ Keep(<<move_vars, clock_vars, scan_vars, ata_vars>>)
Clocks == routine = "clock" /\ Clock!Next /\ Keep(<<move_vars, bitmap_vars, scan_vars, ata_vars>>)
Scans == routine = "scan" /\ Scan!Scan /\ Keep(<<move_vars, bitmap_vars, clock_vars, ata_vars>>)
Lists == routine = "scan" /\ Scan!Lspci /\ Keep(<<move_vars, bitmap_vars, clock_vars, ata_vars>>)
Drives == routine = "ata" /\ Drive!Driver /\ Keep(<<move_vars, bitmap_vars, clock_vars, scan_vars>>)
Reading ==
    /\ routine = "ata" /\ (Drive!Read \/ Drive!DriveReady)
    /\ Keep(<<move_vars, bitmap_vars, clock_vars, scan_vars>>)

Next == Memmoves \/ Allocates \/ Clocks \/ Scans \/ Lists \/ Drives \/ Reading

\* What is sure to go on: the scan, and the ATA driver.
Spec == Init /\ [][Next]_vars /\ WF_vars(Scans) /\ WF_vars(Drives)

-----------------------------------------------------------------------------
\* The time command shows the time as it was while it ran (Clock says more).
ShownWasNow == routine = "clock" => Clock!ShownWasNow

\* The PCI scan finds every function there is, once, and none that is not there,
\* whatever is plugged in and within what an lspci in the middle of it may spoil
\* (PciScan says more).
FindsEveryDevice == routine = "scan" => Scan!FindsEveryDevice /\ Scan!NoPhantom

\* A read from the disk copies what was asked for and nothing else, and all of it
\* when it returns true, whatever the drive was doing, unless the slave or a sector
\* beyond the address registers was meant (Ata says more).
BufferIsAsked == routine = "ata" => Drive!BufferIsAsked /\ Drive!TrueMeansRead

\* The scan and every read from the disk come to an end: the counters of the scan
\* pass their bounds, and every wait for the drive gives up.
EveryCallEnds ==
    /\ routine = "scan" => Scan!ScanEnds
    /\ routine = "ata" => Drive!EveryReadReturns
=============================================================================
