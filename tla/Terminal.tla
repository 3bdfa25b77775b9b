------------------------------ MODULE Terminal ------------------------------
(***************************************************************************)
(* What a user works with: the scancode translation of drivers/keyboard.cpp, *)
(* the command line of command/shell.cpp and the text screen of            *)
(* drivers/tty.cpp, down to the pixel position of every glyph.             *)
(*                                                                         *)
(* A key is one action: keyboard_handle_scancode and all it calls, inside   *)
(* the keyboard interrupt.  Others print on the same screen: kmain, which   *)
(* keys and the network card may interrupt between two characters, and     *)
(* virtio_net_handle_interrupt between two keys.  What they and a command  *)
(* print is taken from a small set.  The model starts as init_shell has    *)
(* printed the first prompt, with no key in the line.                      *)
(***************************************************************************)
EXTENDS Integers, Sequences, FiniteSets, SequencesExt

CONSTANTS
  Widths, Height, \* of the framebuffer, in pixels: one of several widths
  BufferSize,     \* CMD_BUFFER_SIZE
  Keys            \* character keys the user strikes

ASSUME SizeAssumption ==
  /\ \A w \in Widths : w \in Nat /\ w >= 19
  /\ Height \in Nat /\ Height >= 36
  /\ BufferSize \in Nat /\ BufferSize >= 2
  /\ Keys \subseteq {"letter", "echo", "space"}

VARIABLES
  width,      \* of the framebuffer found at boot
  kbd,        \* shift_pressed and caps_lock
  buffer,     \* cmd_buffer, its NUL bytes included
  index,      \* cmd_buffer_index
  tty,        \* cursor and the glyphs on the screen
  todo,       \* what kmain has still to print
  cut,        \* how much of prompt and line was printed before another's message
  ran         \* the string execute_command was last given

vars == <<width, kbd, buffer, index, tty, todo, cut, ran>>

NUL == "nul"
NL == "nl"

\* scancode_to_char_lower and scancode_to_char_upper.  The four letters of
\* "echo" are one key here, so that a short buffer holds the command.
Lower == [letter |-> "a", echo |-> "echo", space |-> " "]
Upper == [letter |-> "A", echo |-> "ECHO", space |-> " "]
Chars == {"a", "A", "echo", "ECHO", " "}

-----------------------------------------------------------------------------
Left == 10        \* x of the first column
Advance == 9      \* width of a glyph cell
LineHeight == 18
GlyphHeight == 16

Glyph(x, y, c) == [x |-> x, y |-> y, c |-> c]

\* Glyphs that a cell drawn at (x, y) would hit.
Under(glyphs, x, y) ==
  {g \in glyphs : /\ g.x < x + Advance /\ x < g.x + Advance
                  /\ g.y < y + GlyphHeight /\ y < g.y + GlyphHeight}

\* Mutant: the new line is put one line too high.
ScrollHigh(t) ==
  [x |-> Left, y |-> Height - 2 * LineHeight,
   glyphs |-> {Glyph(g.x, g.y - LineHeight, g.c) : g \in {h \in t.glyphs : h.y >= LineHeight}}]

\* The screen moves up one line; what leaves it at the top is lost, and the
\* bottom line is cleared.
Scroll(t) ==
  [x |-> Left, y |-> Height - LineHeight,
   glyphs |-> {Glyph(g.x, g.y - LineHeight, g.c) :
                 g \in {h \in t.glyphs : h.y >= LineHeight /\ h.y <= Height - GlyphHeight}}]

Wrapped(t) ==
  IF t.x + Advance > width THEN [t EXCEPT !.x = Left, !.y = @ + LineHeight] ELSE t

Scrolled(t) == IF t.y + GlyphHeight > Height - 1 THEN Scroll(t) ELSE t

Draw(t, c) ==
  [t EXCEPT !.x = @ + Advance,
            !.glyphs = (@ \ Under(@, t.x, t.y)) \cup {Glyph(t.x, t.y, c)}]

Rubout(t) ==
  LET x == t.x - Advance
  IN  IF t.x > Left THEN [t EXCEPT !.x = x, !.glyphs = @ \ Under(@, x, t.y)] ELSE t

\* tty_putc
Put(t, c) ==
  CASE c = NL -> [t EXCEPT !.x = Left, !.y = @ + LineHeight]
    [] OTHER  -> Draw(Scrolled(Wrapped(t)), c)

\* tty_print
PrintAll(t, s) == FoldLeft(Put, t, s)

\* tty_clear
Cleared == [x |-> Left, y |-> 0, glyphs |-> {}]

Prompt == <<">", " ">>

\* A message on lines of its own: kmain's before init_shell, pic_dump_masks, and what
\* virtio_net_handle_interrupt prints.
Message == <<NL, "o", NL>>

-----------------------------------------------------------------------------
\* The string cmd_buffer holds: up to its first NUL.
CString(b) == SubSeq(b, 1, (CHOOSE n \in DOMAIN b :
                              /\ b[n] = NUL /\ \A m \in 1 .. (n - 1) : b[m] # NUL) - 1)

EmptyBuffer == [n \in 1 .. BufferSize |-> NUL]

Init ==
  /\ width \in Widths
  /\ kbd \in [shift : BOOLEAN, caps : BOOLEAN]
  /\ buffer = EmptyBuffer /\ index = 0
  /\ tty = PrintAll(Cleared, Message \o Prompt)
  /\ todo = Message /\ cut = 0
  /\ ran = <<>>

\* kmain, after init_shell: the next character of pic_dump_masks.
KmainPrints ==
  /\ todo # <<>>
  /\ tty' = Put(tty, Head(todo)) /\ todo' = Tail(todo)
  /\ cut' = Len(Prompt) + index
  /\ UNCHANGED <<width, kbd, buffer, index, ran>>

\* Mutant: the last line of the message is not ended.
CardReportsOpen ==
  /\ tty' = PrintAll(tty, <<NL, "o">>)
  /\ cut' = Len(Prompt) + index
  /\ UNCHANGED <<width, kbd, buffer, index, todo, ran>>

\* virtio_net_handle_interrupt, as far as the screen is concerned.
CardReports ==
  /\ tty' = PrintAll(tty, Message)
  /\ cut' = Len(Prompt) + index
  /\ UNCHANGED <<width, kbd, buffer, index, todo, ran>>

\* Both shift keys share the flag.
ShiftDown ==
  /\ kbd' = [kbd EXCEPT !.shift = TRUE]
  /\ UNCHANGED <<width, buffer, index, tty, todo, cut, ran>>

ShiftUp ==
  /\ kbd' = [kbd EXCEPT !.shift = FALSE]
  /\ UNCHANGED <<width, buffer, index, tty, todo, cut, ran>>

CapsDown ==
  /\ kbd' = [kbd EXCEPT !.caps = ~@]
  /\ UNCHANGED <<width, buffer, index, tty, todo, cut, ran>>

\* The character keyboard_handle_scancode makes of a key.
Translate(k) == IF kbd.shift # kbd.caps THEN Upper[k] ELSE Lower[k]

\* Mutant: a character is echoed though the buffer is full.
KeyDownEchoes(k) ==
  /\ LET c == Translate(k) IN
       /\ IF index < BufferSize - 1
          THEN buffer' = [buffer EXCEPT ![index + 1] = c] /\ index' = index + 1
          ELSE UNCHANGED <<buffer, index>>
       /\ tty' = PrintAll(tty, <<c>>)
  /\ UNCHANGED <<width, kbd, todo, cut, ran>>

\* A character: stored and echoed while there is room for it and a NUL.
KeyDown(k) ==
  /\ LET c == Translate(k) IN
       IF index < BufferSize - 1
       THEN /\ buffer' = [buffer EXCEPT ![index + 1] = c]
            /\ index' = index + 1
            /\ tty' = PrintAll(tty, <<c>>)
       ELSE UNCHANGED <<buffer, index, tty>>
  /\ UNCHANGED <<width, kbd, todo, cut, ran>>

\* Backspace: the character stays in the buffer, beyond the index.
BackspaceDown ==
  /\ IF index > 0
     THEN /\ index' = index - 1 /\ tty' = Rubout(tty)
          /\ cut' = IF cut > Len(Prompt) + index' THEN Len(Prompt) + index' ELSE cut
     ELSE UNCHANGED <<index, tty, cut>>
  /\ UNCHANGED <<width, kbd, buffer, todo, ran>>

IsEcho(b) == b[1] = "echo" /\ b[2] \in {" ", NUL}

\* cmd_echo: the string after "echo" and one more byte, blanks skipped,
\* whatever that one byte is.
EchoArgument(b) ==
  LET rest == CString(SubSeq(b, 3, Len(b)) \o <<NUL>>)
      text == {n \in DOMAIN rest : rest[n] # " "}
  IN  IF text = {} THEN <<>> ELSE SubSeq(rest, CHOOSE n \in text : \A m \in text : n <= m, Len(rest))

\* What execute_command leaves on the screen: echo prints its argument, an
\* unknown command is printed back, others answer, clear the screen or say nothing.
Effects(t, b) ==
  IF IsEcho(b)
  THEN {PrintAll(t, Append(EchoArgument(b), NL))}
  ELSE {PrintAll(t, Message), PrintAll(t, <<NL>> \o CString(b) \o <<NL>>), Cleared, t}

Execute(b) ==
  LET fresh == Put(tty, NL)
  IN  IF index > 0
      THEN /\ ran' = CString(b)
           /\ \E t \in Effects(fresh, b) : tty' = PrintAll(t, Prompt)
      ELSE tty' = PrintAll(fresh, Prompt) /\ UNCHANGED ran

\* Mutant: the end of the command is not marked.
EnterUnmarked ==
  /\ Execute(buffer)
  /\ buffer' = EmptyBuffer /\ index' = 0 /\ cut' = 0
  /\ UNCHANGED <<width, kbd, todo>>

\* Enter: execute_and_reset_shell, then init_shell.
EnterDown ==
  /\ Execute([buffer EXCEPT ![index + 1] = NUL])
  /\ buffer' = EmptyBuffer /\ index' = 0 /\ cut' = 0
  /\ UNCHANGED <<width, kbd, todo>>

Next ==
  \/ KmainPrints \/ CardReports
  \/ ShiftDown \/ ShiftUp \/ CapsDown
  \/ \E k \in Keys : KeyDown(k)
  \/ BackspaceDown \/ EnterDown

Spec == Init /\ [][Next]_vars

-----------------------------------------------------------------------------
line == SubSeq(buffer, 1, index)

\* What the screen shows, read like a page.
Reading(glyphs) ==
  LET before(g) == {h \in glyphs : h.y < g.y \/ (h.y = g.y /\ h.x < g.x)}
  IN  [n \in 1 .. Cardinality(glyphs) |->
         (CHOOSE g \in glyphs : Cardinality(before(g)) = n - 1).c]

\* The types of the keyboard's, the shell's and the screen's state.
TypeOK ==
  /\ kbd \in [shift : BOOLEAN, caps : BOOLEAN]
  /\ buffer \in [1 .. BufferSize -> Chars \cup {NUL}]
  /\ index \in 0 .. (BufferSize - 1)
  /\ tty.x >= Left /\ tty.x <= width /\ tty.y >= 0
  /\ \A g \in tty.glyphs : g.x + Advance <= width /\ g.y >= 0 /\ g.y + GlyphHeight <= Height

\* The longest line has room beside the prompt.
LineFitsRow == Left + Advance * (Len(Prompt) + BufferSize - 1) <= width

\* The state is well typed, with every glyph inside the screen, and where
\* a line fits its row, echo and buffer agree, through scrolling, backspaces and what
\* the network card reports between two keys: the screen ends with what was printed
\* since of prompt and command line.  (While kmain is still printing, its
\* characters come between the keys'.)
LineIsShown ==
  /\ TypeOK
  /\ LineFitsRow /\ todo = <<>> =>
       LET edited == Prompt \o line
       IN  IsSuffix(SubSeq(edited, cut + 1, Len(edited)), Reading(tty.glyphs))

\* A backspace takes from the screen the character it takes from the line, at the
\* end of what is shown, or nothing at a row's left edge: never the prompt, and nothing
\* that commands, kmain or the network card printed (the shell's and tty_putc's
\* bounds are independent of each other).
BackspaceTakesItsOwn ==
  [][todo = <<>> /\ index' < index /\ buffer' = buffer =>
       Reading(tty.glyphs) \in {Reading(tty'.glyphs), Append(Reading(tty'.glyphs), line[index])}]_vars

\* Typing only adds: the screen keeps all it showed, but for what scrolls off
\* its top (tty_putc's wrap, scroll and draw).
TypingKeepsText ==
  [][index' > index =>
       IsSuffix(Reading(tty'.glyphs), Append(Reading(tty.glyphs), buffer'[index']))]_vars

\* The shell runs exactly what was typed: the stale characters behind the
\* index, left by backspaces, are never part of a command.
Editor == INSTANCE LineEditor WITH Char <- Chars, Limit <- BufferSize - 1
RefinesLineEditor == Editor!Spec

\* `echo <text>` shows the text that was typed behind it.  This does not hold:
\* after "echo" alone cmd_echo reads on behind the NUL, where characters that
\* backspace took back still stand.
EchoShowsText ==
  LET command == [buffer EXCEPT ![index + 1] = NUL]
  IN  IsEcho(command) =>
        /\ IsSuffix(EchoArgument(command), line)
        /\ \A n \in 3 .. index : line[n] # " " => EchoArgument(command) # <<>>
=============================================================================
