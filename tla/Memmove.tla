------------------------------ MODULE Memmove ------------------------------
(***************************************************************************)
(* memmove of lib/libc.cpp, byte by byte.  The text screen scrolls with it *)
(* over the framebuffer (tty_putc), where source and destination overlap   *)
(* in all but one line.                                                    *)
(***************************************************************************)
EXTENDS Integers

CONSTANTS
  Addresses,   \* of memory
  Byte,        \* what an address holds
  Calls        \* the calls made: records [dest, src, n]

\* Both areas are memory.
ASSUME CallsAssumption ==
  /\ Addresses \subseteq Int
  /\ \A c \in Calls :
       /\ c.dest \in Int /\ c.src \in Int /\ c.n \in Nat
       /\ \A k \in 0 .. (c.n - 1) : c.dest + k \in Addresses /\ c.src + k \in Addresses

VARIABLES
  mem,     \* memory
  start,   \* memory as it was when memmove was called
  call,    \* the arguments
  i,       \* the loop's counter
  pc       \* "up" or "down" in the loop, then "done"

move_vars == <<mem, start, call, i, pc>>

\* Mutant: the direction is chosen the wrong way round.
EnterSwapped ==
  /\ start \in [Addresses -> Byte] /\ mem = start
  /\ call \in Calls
  /\ IF call.src < call.dest THEN pc = "up" /\ i = 0 ELSE pc = "down" /\ i = call.n

Enter ==
  /\ start \in [Addresses -> Byte] /\ mem = start
  /\ call \in Calls
  /\ IF call.src < call.dest THEN pc = "down" /\ i = call.n ELSE pc = "up" /\ i = 0

\* From the end, when the destination lies behind the source.
CopyDown ==
  /\ pc = "down" /\ i > 0
  /\ mem' = [mem EXCEPT ![call.dest + i - 1] = mem[call.src + i - 1]]
  /\ i' = i - 1
  /\ UNCHANGED <<start, call, pc>>

\* From the beginning, otherwise.
CopyUp ==
  /\ pc = "up" /\ i < call.n
  /\ mem' = [mem EXCEPT ![call.dest + i] = mem[call.src + i]]
  /\ i' = i + 1
  /\ UNCHANGED <<start, call, pc>>

Return ==
  /\ (pc = "down" /\ i = 0) \/ (pc = "up" /\ i = call.n)
  /\ pc' = "done"
  /\ UNCHANGED <<mem, start, call, i>>

Move == CopyDown \/ CopyUp \/ Return

MoveSpec == Enter /\ [][Move]_move_vars

-----------------------------------------------------------------------------
\* The types of memory and of the loop's state.
MoveTypeOK ==
  /\ mem \in [Addresses -> Byte] /\ start \in [Addresses -> Byte]
  /\ call \in Calls
  /\ i \in 0 .. call.n
  /\ pc \in {"up", "down", "done"}

\* Bytes of the destination between offsets a and b.
Area(a, b) == {call.dest + k : k \in a .. (b - 1)}

\* The destination holds what the source held when the call was made, however
\* the two overlap, and no other byte has changed (memmove's two loops).
Moved ==
  pc = "done" =>
    /\ \A k \in 0 .. (call.n - 1) : mem[call.dest + k] = start[call.src + k]
    /\ \A a \in Addresses \ Area(0, call.n) : mem[a] = start[a]

\* Why it is right: the loop runs away from the bytes it still has to read,
\* and has copied the ones it has passed (inductive with MoveTypeOK).
LoopInv ==
  /\ pc = "up" => call.dest <= call.src
  /\ pc = "down" => call.src < call.dest
  /\ pc = "up" =>
       /\ \A k \in 0 .. (i - 1) : mem[call.dest + k] = start[call.src + k]
       /\ \A a \in Addresses : (\A k \in 0 .. (i - 1) : a # call.dest + k) => mem[a] = start[a]
  /\ pc = "down" =>
       /\ \A k \in i .. (call.n - 1) : mem[call.dest + k] = start[call.src + k]
       /\ \A a \in Addresses : (\A k \in i .. (call.n - 1) : a # call.dest + k) => mem[a] = start[a]
=============================================================================
