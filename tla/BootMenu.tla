------------------------------ MODULE BootMenu ------------------------------
(***************************************************************************)
(* The boot loader's configuration and its menu: lib/config.c, menu.c, and *)
(* the line editor and the URIs of lib/blib.c.                             *)
(*                                                                         *)
(* A configuration is a sequence of lines [entry, key, value]: entry says  *)
(* whether the line starts with a colon, and the rest is read as an        *)
(* assignment, whatever it is meant to be. Keys struck are strings; "tick" *)
(* stands for a second without one.                                        *)
(***************************************************************************)
EXTENDS Integers, Sequences, SequencesExt, FiniteSetsExt

CONSTANT Limit      \* CMDLINE_MAX: room for a command line and its end

Line(key, value) == [entry |-> FALSE, key |-> key, value |-> value]
EntryLine(key, value) == [entry |-> TRUE, key |-> key, value |-> value]
Absent == <<>>
Within(v, otherwise) == IF v = Absent THEN otherwise ELSE Head(v)

-----------------------------------------------------------------------------
(* lib/config.c *)

\* init_config: the carriage returns are taken out, the text moved up by one each
\* time; the character that comes to the place of one is not looked at.
RECURSIVE WithoutReturns(_, _)
WithoutReturns(text, i) ==
    IF i > Len(text) THEN text
    ELSE WithoutReturns(IF text[i] = "return" THEN RemoveAt(text, i) ELSE text, i + 1)

\* Where the entries start, and where a key is given a value
Entries(lines) == SelectSeq([i \in DOMAIN lines |-> i], LAMBDA i: lines[i].entry)
Given(lines, key) ==
    SelectSeq([i \in DOMAIN lines |-> i], LAMBDA i: ~ lines[i].entry /\ lines[i].key = key)

\* config_get_entry_name fails on the number of entries.
MaxEntries(lines) == Len(Entries(lines))

\* Mutant: the entries behind the chosen one stay.
SetEntryOpen(lines, n) ==
    LET starts == Entries(lines)
    IN  IF n >= Len(starts) THEN lines
        ELSE [SubSeq(lines, starts[n + 1], Len(lines)) EXCEPT ![1].entry = FALSE]

\* config_set_entry: the configuration is cut down to an entry, from behind its
\* colon to the next one. An entry there is not leaves it as it is.
SetEntry(lines, n) ==
    LET starts == Entries(lines)
        last   == IF n + 2 > Len(starts) THEN Len(lines) ELSE starts[n + 2] - 1
    IN  IF n >= Len(starts) THEN lines
        ELSE [SubSeq(lines, starts[n + 1], last) EXCEPT ![1].entry = FALSE]

\* config_get_value: absent, or the value alone in a sequence
GetValue(lines, index, key) ==
    LET hits == Given(lines, key)
    IN  IF index >= Len(hits) THEN Absent ELSE <<lines[hits[index + 1]].value>>

FirstOf(lines, keys, otherwise) ==
    LET given == SelectSeq(keys, LAMBDA k: GetValue(lines, 0, k) # Absent)
    IN  IF given = <<>> THEN otherwise ELSE Head(GetValue(lines, 0, Head(given)))

-----------------------------------------------------------------------------
(* gets. The buffer is memory: a zero, the character "", ends the string, and  *)
(* more may follow.                                                        *)

Strlen(buf) == Min({j \in DOMAIN buf: buf[j] = ""})
Text(buf) == [k \in 1 .. Strlen(buf) |-> buf[k - 1]]

Erase(buf, i) ==
    LET end == Min({j \in i .. (Limit - 1): j + 1 = Limit \/ buf[j + 1] = ""})
        After(j) == IF j + 1 = Limit THEN "" ELSE buf[j + 1]
    IN  [j \in DOMAIN buf |-> IF j \in i .. end THEN After(j) ELSE buf[j]]

Insert(buf, i, c) ==
    [j \in DOMAIN buf |-> IF j = i THEN c
                          ELSE IF j \in (i + 1) .. (Strlen(buf) + 1) THEN buf[j - 1] ELSE buf[j]]

\* One key. A function key is a character of code zero. Behind the end of the
\* string there is no end to moving the rest out of the way.
Edit(e, key) ==
    CASE e.done \/ e.wild -> e
      [] key = "left" -> IF e.i > 0 THEN [e EXCEPT !.i = @ - 1] ELSE e
      [] key = "right" -> IF e.i < Strlen(e.buf) THEN [e EXCEPT !.i = @ + 1] ELSE e
      [] key = "backspace" ->
             IF e.i > 0 THEN [e EXCEPT !.i = @ - 1, !.buf = Erase(@, e.i - 1)] ELSE e
      [] key = "enter" -> [e EXCEPT !.done = TRUE]
      [] OTHER ->
             IF Strlen(e.buf) >= Limit - 1 THEN e
             ELSE IF e.i > Strlen(e.buf) THEN [e EXCEPT !.wild = TRUE]
             ELSE [e EXCEPT !.buf = Insert(@, e.i, IF key = "function" THEN "" ELSE key),
                            !.i = @ + 1]

\* What is in the buffer when Enter is struck
Gets(text, keys) ==
    FoldLeft(Edit, [buf |-> [j \in 0 .. (Limit - 1) |-> IF j < Len(text) THEN text[j + 1] ELSE ""],
                    i |-> Len(text), done |-> FALSE, wild |-> FALSE], keys)

-----------------------------------------------------------------------------
(* menu *)

Boot(entry, cmdline) == [now |-> "boots", entry |-> entry, cmdline |-> cmdline]

\* The chosen entry, its command line as it is, or edited by the keys that follow
CommandLine(entry) == FirstOf(entry, <<"KERNEL_CMDLINE", "CMDLINE">>, <<>>)
Autoboot(lines, sel) == Boot(SetEntry(lines, sel), CommandLine(SetEntry(lines, sel)))
EditBoot(lines, sel, keys) ==
    LET e == Gets(CommandLine(SetEntry(lines, sel)), keys)
    IN  CASE e.wild -> [now |-> "wild"]
          [] ~ e.wild /\ ~ e.done -> [now |-> "waits"]
          [] OTHER -> Boot(SetEntry(lines, sel), Text(e.buf))

\* What the menu does from a key on. left is the number of seconds to go, or
\* 0 when the countdown was stopped; a function key is no key to it.
RECURSIVE Choose(_, _, _, _)
Choose(lines, sel, left, keys) ==
    LET max  == MaxEntries(lines)
        rest == Tail(keys)
        step == CASE Head(keys) = "up" -> IF sel - 1 = -1 THEN max - 1 ELSE sel - 1
                  [] Head(keys) = "down" -> IF sel + 1 = max THEN 0 ELSE sel + 1
                  [] OTHER -> sel
    IN  IF keys = <<>> THEN [now |-> "waits"]
        ELSE CASE Head(keys) \in {"tick", "function"} ->
                      IF left = 1 THEN Autoboot(lines, sel)
                      ELSE Choose(lines, sel, IF left = 0 THEN 0 ELSE left - 1, rest)
               [] Head(keys) = "enter" -> Autoboot(lines, sel)
               [] Head(keys) = "edit" -> EditBoot(lines, sel, rest)
               [] OTHER -> Choose(lines, step, 0, rest)

Menu(lines, keys) ==
    LET sel     == FirstOf(lines, <<"DEFAULT_ENTRY">>, 0)
        timeout == FirstOf(lines, <<"TIMEOUT">>, 5)
    IN  CASE timeout = 0 -> Autoboot(lines, sel)
          [] timeout # 0 /\ MaxEntries(lines) = 0 -> [now |-> "panic"]
          [] OTHER -> Choose(lines, sel, timeout, keys)

-----------------------------------------------------------------------------
(* What is loaded for the chosen entry *)

\* uri_open: the resource must be "bios" and a partition given; the drive may be
\* omitted. Both are kept in a byte. A path that is no URI has no resource.
UriFails(uri) == uri.resource # "bios" \/ uri.partition = Absent
UriOpen(uri, boot_drive) ==
    [drive |-> Within(uri.drive, boot_drive) % 256,
     partition |-> Head(uri.partition) % 256,
     path |-> uri.path]

\* Mutant: every module has the first one's string.
ModulesOfOneString(lines, kernel) ==
    [i \in 1 .. Len(Given(lines, "MODULE_PATH")) |->
        [path |-> Head(GetValue(lines, i - 1, "MODULE_PATH")),
         string |-> Within(GetValue(lines, 0, "MODULE_STRING"), "none"),
         drive |-> kernel.drive,
         partition |-> Within(GetValue(lines, i - 1, "MODULE_PARTITION"), kernel.partition)]]

\* The modules of stivale_load, matched by their order; their string and their
\* partition may be omitted.
ModulesOf(lines, kernel) ==
    [i \in 1 .. Len(Given(lines, "MODULE_PATH")) |->
        [path |-> Head(GetValue(lines, i - 1, "MODULE_PATH")),
         string |-> Within(GetValue(lines, i - 1, "MODULE_STRING"), "none"),
         drive |-> kernel.drive,
         partition |-> Within(GetValue(lines, i - 1, "MODULE_PARTITION"), kernel.partition)]]

\* main and stivale_load: the protocol, the kernel and the modules, unless the boot
\* panics
LoadedFor(lines, boot_drive) ==
    LET protocol == FirstOf(lines, <<"KERNEL_PROTO", "PROTOCOL">>, "none")
        path     == GetValue(lines, 0, "KERNEL_PATH")
        kernel   == UriOpen(Head(path), boot_drive)
    IN  IF protocol \notin {"stivale", "stivale2"} \/ path = Absent \/ UriFails(Head(path))
        THEN [now |-> "panic"]
        ELSE [now |-> "loads", protocol |-> protocol, kernel |-> kernel,
              modules |-> ModulesOf(lines, kernel)]
=============================================================================
