----------------------------- MODULE LineEditor -----------------------------
(***************************************************************************)
(* What the shell's command line promises its user: a line of at most      *)
(* Limit characters that grows at its end, loses its last character to     *)
(* backspace, and is handed over whole, and only when it is not empty, by  *)
(* Enter.                                                                  *)
(***************************************************************************)
EXTENDS Naturals, Sequences, SequencesExt

CONSTANTS
  Char,   \* what can be typed
  Limit   \* characters a line can hold

VARIABLES
  line,   \* the line being typed
  ran     \* the last command handed over

Init == line = <<>> /\ ran = <<>>

Type(c) == Len(line) < Limit /\ line' = Append(line, c) /\ UNCHANGED ran

Erase == line # <<>> /\ line' = Front(line) /\ UNCHANGED ran

Enter ==
  /\ ran' = IF line = <<>> THEN ran ELSE line
  /\ line' = <<>>

Spec == Init /\ [][(\E c \in Char : Type(c)) \/ Erase \/ Enter]_<<line, ran>>
=============================================================================
