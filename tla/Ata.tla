--------------------------------- MODULE Ata ---------------------------------
(***************************************************************************)
(* The PIO driver of kernel/drivers/ata/ata.cpp: ata_init leaves an        *)
(* IDENTIFY command running, ata_read_sectors waits, commands and copies.  *)
(* Every wait is a loop that gives up.                                     *)
(*                                                                         *)
(* The drive is external.  It raises BSY before the driver's next look at  *)
(* the status register, never shows DRQ together with BSY, keeps DRQ up    *)
(* through a sector, ignores a command written while it is busy, and may   *)
(* be absent, slow for ever, or fail.  The channel may have two; the driver *)
(* selects the master whichever it is asked for.                           *)
(***************************************************************************)
EXTENDS Integers, Sequences, SequencesExt

CONSTANTS
  Words,     \* words in a sector (256)
  Patience,  \* polls before a wait gives up (100000)
  LbaMod,    \* sectors the three address registers tell apart (2^24)
  Full,      \* sectors a count of zero asks a drive for (256)
  Requests,  \* [drive, lba, count] that callers ask for
  MaxCalls   \* bound: calls

VARIABLES
  pc,      \* the driver's place
  polls,   \* polls of the wait it is in
  call,    \* the call's arguments
  buffer,  \* what it has copied: words, each the drive, the sector and its place there
  result,  \* what the last call returned
  calls,   \* calls made
  drive    \* the master's phase; the sector and word it is at; sectors left

vars == <<pc, polls, call, buffer, result, calls, drive>>

\* What IDENTIFY reads, which is no sector.
Identity == -1

Master == 0
Slave == 1

Busy == drive.phase = "busy"

\* The drive takes a command, unless it is busy or not there.
Commanded(sector, count) ==
  IF drive.phase \in {"busy", "absent"} THEN drive
  ELSE [phase |-> "busy", sector |-> sector, word |-> 0, left |-> count]

Init ==
  /\ pc = "init" /\ polls = 0
  /\ call = [drive |-> Master, lba |-> 0, count |-> 0] /\ buffer = <<>> /\ result = "none" /\ calls = 0
  /\ \E there \in {"idle", "absent"} :
       drive = [phase |-> there, sector |-> 0, word |-> 0, left |-> 0]

\* ata_init: IDENTIFY, and its answer is neither waited for nor read.
AtaInit ==
  /\ pc = "init" /\ pc' = "idle"
  /\ drive' = Commanded(Identity, 1)
  /\ UNCHANGED <<polls, call, buffer, result, calls>>

\* ata_read_sectors is entered.  A third drive is refused at once.
Read ==
  /\ pc = "idle" /\ calls < MaxCalls
  /\ call' \in Requests
  /\ buffer' = <<>> /\ calls' = calls + 1
  /\ \/ call'.drive > Slave /\ result' = "false" /\ pc' = "idle"
     \/ call'.drive <= Slave /\ result' = "none" /\ pc' = "ready"
  /\ UNCHANGED <<polls, drive>>

Return(answer) == pc' = "idle" /\ result' = answer

\* Mutant: the loop has no end.
PollForever(ready, next) ==
  \/ ready /\ pc' = next /\ polls' = 0 /\ UNCHANGED result
  \/ ~ready /\ UNCHANGED <<pc, polls, result>>

\* ata_wait_bsy, ata_wait_drq: one look at the status register.
Poll(ready, next) ==
  \/ ready /\ pc' = next /\ polls' = 0 /\ UNCHANGED result
  \/ ~ready /\ polls + 1 < Patience /\ polls' = polls + 1 /\ UNCHANGED <<pc, result>>
  \/ ~ready /\ polls + 1 = Patience /\ polls' = 0 /\ Return("false")

\* Mutant: the drive is not waited for.
WaitReadyNot ==
  /\ pc = "ready" /\ Poll(TRUE, "command")
  /\ UNCHANGED <<call, buffer, calls, drive>>

WaitReady ==
  /\ pc = "ready" /\ Poll(~Busy, "command")
  /\ UNCHANGED <<call, buffer, calls, drive>>

\* The task file, for the master, and READ.  With a count of zero the loop is not
\* entered.
Command ==
  /\ pc = "command"
  /\ drive' = Commanded(call.lba % LbaMod, IF call.count = 0 THEN Full ELSE call.count)
  /\ IF call.count = 0 THEN Return("true") ELSE pc' = "busy" /\ UNCHANGED result
  /\ UNCHANGED <<polls, call, buffer, calls>>

WaitSector ==
  /\ pc = "busy" /\ Poll(~Busy, "error")
  /\ UNCHANGED <<call, buffer, calls, drive>>

CheckError ==
  /\ pc = "error"
  /\ IF drive.phase = "failed" THEN Return("false") ELSE pc' = "word" /\ UNCHANGED result
  /\ UNCHANGED <<polls, call, buffer, calls, drive>>

WaitWord ==
  /\ pc = "word" /\ Poll(drive.phase = "data", "inw")
  /\ UNCHANGED <<call, buffer, calls, drive>>

\* The drive moves to its next word, sector or rest.
Taken ==
  IF drive.word + 1 < Words THEN [drive EXCEPT !.word = @ + 1]
  ELSE IF drive.left = 1 THEN [drive EXCEPT !.phase = "idle"]
  ELSE [drive EXCEPT !.phase = "busy", !.word = 0, !.sector = @ + 1, !.left = @ - 1]

\* ata_read_buffer copies one word; after 256 of them, the next sector.
CopyWord ==
  /\ pc = "inw"
  /\ buffer' = Append(buffer, <<Master, drive.sector, drive.word>>)
  /\ drive' = Taken
  /\ \/ Len(buffer') % Words # 0 /\ pc' = "word" /\ UNCHANGED result
     \/ Len(buffer') % Words = 0 /\ Len(buffer') < call.count * Words
        /\ pc' = "busy" /\ UNCHANGED result
     \/ Len(buffer') = call.count * Words /\ Return("true")
  /\ UNCHANGED <<polls, call, calls>>

Driver ==
  \/ AtaInit \/ WaitReady \/ Command \/ WaitSector \/ CheckError \/ WaitWord \/ CopyWord

-----------------------------------------------------------------------------
\* The drive has the sector, or gives up.
DriveReady ==
  /\ Busy
  /\ \E phase \in {"data", "failed"} : drive' = [drive EXCEPT !.phase = phase]
  /\ UNCHANGED <<pc, polls, call, buffer, result, calls>>

Next == Driver \/ Read \/ DriveReady

\* Only the driver is sure to go on.
Spec == Init /\ [][Next]_vars /\ WF_vars(Driver)

-----------------------------------------------------------------------------
\* The words of the sectors asked for.
Asked ==
  [n \in 1 .. call.count * Words |->
     <<call.drive, call.lba + ((n - 1) \div Words), (n - 1) % Words>>]

\* The request means what the driver does with it: the slave is answered with the
\* master's sectors, and a large address with one cut to three bytes.
Understood == call.drive # Slave /\ call.lba < LbaMod

\* What is in the caller's buffer is what was asked for, from its start on:
\* never words of the IDENTIFY still pending, nor of an earlier read that
\* timed out or was cut short, and nothing of a drive that cannot be
\* (ata_read_sectors).
BufferIsAsked ==
  /\ Understood => IsPrefix(buffer, Asked)
  /\ call.drive > Slave => buffer = <<>>

\* A call that returns true has filled the whole buffer, and from a drive that
\* can be.
TrueMeansRead ==
  result = "true" => call.drive <= Slave /\ (Understood => buffer = Asked)

\* Every call returns, whatever the drive does or does not do (the timeouts
\* of ata_wait_bsy and ata_wait_drq).
EveryReadReturns == pc # "idle" ~> pc = "idle"
=============================================================================
