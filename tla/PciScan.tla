------------------------------- MODULE PciScan -------------------------------
(***************************************************************************)
(* The PCI bus scan of kernel/cpu/pci.cpp.  The scan of kmain reads the    *)
(* configuration space through an address port and a data port, and an     *)
(* lspci command, run by the keyboard interrupt once the keyboard's line   *)
(* is open, goes through the same two ports.                               *)
(*                                                                         *)
(* What is printed about a function, its class among it, is left out.      *)
(***************************************************************************)
EXTENDS Integers, Sequences, SequencesExt

CONSTANTS
  Buses, Devices, Functions,  \* 256, 32 and 8 in the code
  Machines,                   \* the machines to scan: [present, multi]
  MaxCommands                 \* bound: lspci commands entered during the scan

Slots == (0 .. Buses - 1) \X (0 .. Devices - 1) \X (0 .. Functions - 1)

VARIABLES
  machine,   \* functions there are, and devices whose header says "several"
  at,        \* the scan's next step
  bus, device, function, many,  \* its locals
  address,   \* the CONFIG_ADDRESS register
  found,     \* calls of the callback: where, and whose vendor and device id
  commands   \* lspci commands run

scan == <<bus, device, function, many>>
vars == <<machine, at, scan, address, found, commands>>

-----------------------------------------------------------------------------
Ones == [slot |-> <<>>, field |-> "ones"]

\* What the data port returns: all ones for a function that is not there,
\* else the double word of one of its registers.
Data(a) ==
  IF a.slot \notin machine.present THEN Ones ELSE a

Here(f) == <<bus, device, f>>

\* Bit 7 of the header type in the word read.  A word that is not the header
\* has some bit there.
SeveralBit(word) ==
  IF word = Ones THEN {TRUE}
  ELSE IF word.field = "header" THEN {(<<word.slot[1], word.slot[2]>> \in machine.multi)}
  ELSE BOOLEAN

\* The register an lspci command, which runs to its end, reads last.
LastOfLspci ==
  LET Slot(f) == <<Buses - 2, Devices - 1, f>>
      last == IF <<Buses - 2, Devices - 1>> \in machine.multi
                THEN Slot(Functions - 1) ELSE Slot(0)
  IN  IF Slot(0) \notin machine.present THEN [slot |-> Slot(0), field |-> "id"]
      ELSE [slot |-> last, field |-> IF last \in machine.present THEN "class" ELSE "id"]

Init ==
  /\ machine \in Machines
  /\ at = "device" /\ bus = 0 /\ device = 0 /\ function = 0 /\ many = FALSE
  /\ address = [slot |-> <<0, 0, 0>>, field |-> "id"]
  /\ found = <<>> /\ commands = 0

\* The first half of pci_read_dword: outl to the address port.
Select(here, f, field, next) ==
  /\ at = here /\ at' = next
  /\ address' = [slot |-> Here(f), field |-> field]
  /\ UNCHANGED <<machine, scan, found, commands>>

\* Mutant: the bus number is compared with what a uint8_t cannot reach.
NextDeviceWraps ==
  /\ function' = 0 /\ at' = "device"
  /\ device' = (device + 1) % Devices
  /\ bus' = IF device + 1 < Devices THEN bus ELSE (bus + 1) % Buses

\* The loops of pci_scan_bus; the last bus is left out.
NextDevice ==
  /\ function' = 0
  /\ IF device + 1 < Devices
       THEN device' = device + 1 /\ UNCHANGED bus /\ at' = "device"
       ELSE /\ device' = 0 /\ bus' = bus + 1
            /\ at' = IF bus + 1 < Buses - 1 THEN "device" ELSE "done"

SelectDevice == Select("device", 0, "id", "device_data")

\* pci_check_device: nothing there, or on to the header type.
CheckDevice ==
  /\ at = "device_data"
  /\ \/ Data(address) = Ones /\ NextDevice
     \/ Data(address) # Ones /\ at' = "header" /\ UNCHANGED <<bus, device, function>>
  /\ UNCHANGED <<machine, many, address, found, commands>>

SelectHeader == Select("header", 0, "header", "header_data")

CheckHeader ==
  /\ at = "header_data"
  /\ many' \in SeveralBit(Data(address))
  /\ at' = "function"
  /\ UNCHANGED <<machine, bus, device, function, address, found, commands>>

SelectFunction == Select("function", function, "id", "function_data")

\* Mutant: the loop ends one function early.
NextFunctionShort ==
  IF many /\ function + 2 < Functions
    THEN function' = function + 1 /\ at' = "function" /\ UNCHANGED <<bus, device>>
    ELSE NextDevice

NextFunction ==
  IF many /\ function + 1 < Functions
    THEN function' = function + 1 /\ at' = "function" /\ UNCHANGED <<bus, device>>
    ELSE NextDevice

\* pci_check_function: the callback is called with what was read.
CheckFunction ==
  /\ at = "function_data"
  /\ found' = IF Data(address) = Ones THEN found
              ELSE Append(found, [slot |-> Here(function), word |-> Data(address)])
  /\ NextFunction
  /\ UNCHANGED <<machine, many, address, commands>>

\* An lspci command between two instructions of the scan.
Lspci ==
  /\ commands < MaxCommands /\ at # "done"
  /\ address' = LastOfLspci /\ commands' = commands + 1
  /\ UNCHANGED <<machine, at, scan, found>>

Scan ==
  \/ SelectDevice \/ CheckDevice \/ SelectHeader \/ CheckHeader
  \/ SelectFunction \/ CheckFunction

Next == Scan \/ Lspci

Spec == Init /\ [][Next]_vars /\ WF_vars(Scan)

-----------------------------------------------------------------------------
Places == {found[n].slot : n \in DOMAIN found}

\* The functions there are to find: a device that has no function 0 is not
\* there, one that does not say "several" has that function only.
Connected ==
  {s \in machine.present :
     /\ <<s[1], s[2], 0>> \in machine.present
     /\ s[3] # 0 => <<s[1], s[2]>> \in machine.multi}

\* Where no lspci comes in between, and nothing is on the last bus, which is
\* not scanned, the scan enumerates all the PCI devices connected to the
\* system, each function once (pci_scan_bus).  It may miss one otherwise.
FindsEveryDevice ==
  at = "done" /\ commands = 0 /\ (\A s \in Connected : s[1] # Buses - 1) =>
    Places = Connected /\ IsInjective(found)

\* What the callback is told is there, and under the id of that function: an
\* init routine is never run on a slot that answers with all ones, not even
\* after an lspci, as long as the last slot that one looks at is empty
\* (pci_check_function).
NoPhantom ==
  commands = 0 \/ <<Buses - 2, Devices - 1, 0>> \notin machine.present =>
    \A n \in DOMAIN found :
      /\ found[n].slot \in machine.present
      /\ found[n].word = [slot |-> found[n].slot, field |-> "id"]

\* The scan ends: its uint8_t counters pass their bounds (pci_scan_bus).
ScanEnds == <>(at = "done")
=============================================================================
