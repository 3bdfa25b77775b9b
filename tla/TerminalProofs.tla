--------------------------- MODULE TerminalProofs ---------------------------
(***************************************************************************)
(* Proofs about the terminal for every size of the buffer and of the       *)
(* screen and every set of keys: the shell implements LineEditor, the      *)
(* screen shows prompt and line at its end, a backspace takes nothing else  *)
(* from it, and typing keeps the text above them.                          *)
(*                                                                         *)
(* The command line comes first, because no step of the shell reads the    *)
(* screen.  The screen's proofs go from tty_print, a fold over a string,   *)
(* by way of glyphs listed in reading order, to the invariant ScreenInv.   *)
(***************************************************************************)
EXTENDS Terminal, NumberLemmas, SequenceTheorems, FiniteSetTheorems, FunctionTheorems, TLAPS

\* cmd_buffer: characters up to the index, with room behind them for a NUL.
\* What stands behind the index may be left from characters taken back.
LineInv ==
  /\ index \in 0 .. (BufferSize - 1)
  /\ buffer \in [1 .. BufferSize -> Chars \cup {NUL}]
  /\ \A n \in 1 .. index : buffer[n] \in Chars
  /\ kbd \in [shift : BOOLEAN, caps : BOOLEAN]

\* NUL is none of the characters a key makes.
LEMMA NulIsNoChar == NUL \notin Chars
BY DEF NUL, Chars

\* keyboard_handle_scancode makes a character of every key.
LEMMA TranslateType ==
  ASSUME NEW k \in Keys
  PROVE  Translate(k) \in Chars
<1>1. k \in {"letter", "echo", "space"}
  BY SizeAssumption
<1>2. /\ Upper["letter"] \in Chars /\ Upper["echo"] \in Chars /\ Upper["space"] \in Chars
      /\ Lower["letter"] \in Chars /\ Lower["echo"] \in Chars /\ Lower["space"] \in Chars
  BY DEF Upper, Lower, Chars
<1> QED BY <1>1, <1>2 DEF Translate

\* The string of a buffer is what comes before its first NUL.
LEMMA CStringIs ==
  ASSUME NEW b, NEW i \in Nat, i + 1 \in DOMAIN b, DOMAIN b \subseteq Int,
         b[i + 1] = NUL,
         \A n \in 1 .. i : n \in DOMAIN b /\ b[n] # NUL,
         \A n \in DOMAIN b : n >= 1
  PROVE  CString(b) = SubSeq(b, 1, i)
<1> DEFINE First(n) == b[n] = NUL /\ \A m \in 1 .. (n - 1) : b[m] # NUL
<1>1. First(i + 1)
  OBVIOUS
<1>2. ASSUME NEW n \in DOMAIN b, First(n) PROVE n = i + 1
  <2>1. n \in Int /\ n >= 1
    OBVIOUS
  <2>2. ~ (n <= i)
    <3> SUFFICES ASSUME n <= i PROVE FALSE
      OBVIOUS
    <3>1. n \in 1 .. i
      BY <2>1
    <3> QED BY <3>1, <1>2
  <2>3. ~ (n > i + 1)
    <3> SUFFICES ASSUME n > i + 1 PROVE FALSE
      OBVIOUS
    <3>1. i + 1 \in 1 .. (n - 1)
      BY <2>1
    <3> QED BY <3>1, <1>2
  <2> QED BY <2>1, <2>2, <2>3
<1>3. (CHOOSE n \in DOMAIN b : First(n)) = i + 1
  BY <1>1, <1>2
<1> QED BY <1>3 DEF CString

\* A longer part of a sequence is the shorter one and one element.
LEMMA SubSeqAppend ==
  ASSUME NEW S, NEW N \in Nat, NEW b \in [1 .. N -> S], NEW i \in 0 .. (N - 1)
  PROVE  SubSeq(b, 1, i + 1) = Append(SubSeq(b, 1, i), b[i + 1])
<1> DEFINE l == SubSeq(b, 1, i)
           r == SubSeq(b, 1, i + 1)
<1>1. b \in Seq(S) /\ Len(b) = N
  OBVIOUS
<1>2. /\ l \in Seq(S) /\ Len(l) = i
      /\ \A n \in 1 .. i : l[n] = b[n]
  BY <1>1
<1>3. /\ r \in Seq(S) /\ Len(r) = i + 1
      /\ \A n \in 1 .. (i + 1) : r[n] = b[n]
  BY <1>1
<1>4. b[i + 1] \in S
  OBVIOUS
<1> HIDE DEF l, r
<1>5. /\ Append(l, b[i + 1]) \in Seq(S) /\ Len(Append(l, b[i + 1])) = i + 1
      /\ \A n \in 1 .. (i + 1) : Append(l, b[i + 1])[n] = r[n]
  BY <1>2, <1>3, <1>4
<1>6. r = Append(l, b[i + 1])
  BY <1>3, <1>5
<1> QED BY <1>6 DEF l, r

\* Parts of two buffers that agree are the same.
LEMMA SubSeqAgree ==
  ASSUME NEW S, NEW N \in Nat, NEW b \in [1 .. N -> S], NEW c \in [1 .. N -> S],
         NEW i \in 0 .. N, \A n \in 1 .. i : b[n] = c[n]
  PROVE  SubSeq(b, 1, i) = SubSeq(c, 1, i)
<1> DEFINE l == SubSeq(b, 1, i)
           r == SubSeq(c, 1, i)
<1>1. b \in Seq(S) /\ Len(b) = N /\ c \in Seq(S) /\ Len(c) = N
  OBVIOUS
<1>2. l \in Seq(S) /\ Len(l) = i /\ \A n \in 1 .. i : l[n] = b[n]
  BY <1>1
<1>3. r \in Seq(S) /\ Len(r) = i /\ \A n \in 1 .. i : r[n] = c[n]
  BY <1>1
<1> HIDE DEF l, r
<1>4. l = r
  BY <1>2, <1>3
<1> QED BY <1>4 DEF l, r

\* The editor's line is a sequence of characters, as long as the index says.
LEMMA LineType ==
  ASSUME LineInv
  PROVE  line \in Seq(Chars) /\ Len(line) = index
<1> USE SizeAssumption DEF LineInv
<1>1. buffer \in Seq(Chars \cup {NUL}) /\ Len(buffer) = BufferSize
  OBVIOUS
<1>2. /\ line \in Seq(Chars \cup {NUL}) /\ Len(line) = index
      /\ \A n \in 1 .. index : line[n] = buffer[n]
  BY <1>1 DEF line
<1>3. line \in [1 .. index -> Chars]
  BY <1>2
<1> QED BY <1>2, <1>3

\* A key types its character at the end of the line, or nothing when the
\* line is full (keyboard_handle_scancode's guard on CMD_BUFFER_SIZE - 1).
LEMMA KeyTypes ==
  ASSUME LineInv, NEW k \in Keys, KeyDown(k)
  PROVE  /\ LineInv'
         /\ Editor!Type(Translate(k)) \/ UNCHANGED <<line, ran>>
<1> USE SizeAssumption
<1> DEFINE c == Translate(k)
<1>1. c \in Chars
  BY TranslateType
<1>2. CASE index < BufferSize - 1
  <2>1. /\ buffer' = [buffer EXCEPT ![index + 1] = c]
        /\ index' = index + 1 /\ UNCHANGED <<kbd, ran>>
    BY <1>2 DEF KeyDown
  <2> HIDE DEF c
  <2>2. LineInv'
    BY <1>1, <1>2, <2>1 DEF LineInv
  <2>3. line' = Append(SubSeq(buffer', 1, index), buffer'[index + 1])
    <3>1. buffer' \in [1 .. BufferSize -> Chars \cup {NUL}] /\ index \in 0 .. (BufferSize - 1)
      BY <2>2 DEF LineInv
    <3>2. SubSeq(buffer', 1, index + 1) = Append(SubSeq(buffer', 1, index), buffer'[index + 1])
      BY <3>1, SubSeqAppend
    <3> QED BY <2>1, <3>2 DEF line
  <2>4. SubSeq(buffer', 1, index) = SubSeq(buffer, 1, index)
    <3>1. /\ buffer' \in [1 .. BufferSize -> Chars \cup {NUL}]
          /\ buffer \in [1 .. BufferSize -> Chars \cup {NUL}]
          /\ index \in 0 .. BufferSize
          /\ \A n \in 1 .. index : buffer'[n] = buffer[n]
      BY <2>1, <2>2 DEF LineInv
    <3> QED BY <3>1, SubSeqAgree
  <2>5. buffer'[index + 1] = c
    BY <2>1, <1>2 DEF LineInv
  <2>6. Len(line) < BufferSize - 1
    BY <1>2, LineType
  <2> QED BY <2>1, <2>2, <2>3, <2>4, <2>5, <2>6 DEF line, Editor!Type, c
<1>3. CASE ~ (index < BufferSize - 1)
  BY <1>3 DEF KeyDown, LineInv, line
<1> QED BY <1>2, <1>3

\* Backspace takes the last character of the line, if there is one.
LEMMA BackspaceErases ==
  ASSUME LineInv, BackspaceDown
  PROVE  LineInv' /\ (Editor!Erase \/ UNCHANGED <<line, ran>>)
<1> USE SizeAssumption
<1>1. CASE index > 0
  <2>1. index' = index - 1 /\ UNCHANGED <<buffer, kbd, ran>>
    BY <1>1 DEF BackspaceDown
  <2>2. LineInv'
    BY <1>1, <2>1 DEF LineInv
  <2>3. index - 1 \in 0 .. (BufferSize - 1) /\ index - 1 + 1 = index
    BY <1>1 DEF LineInv
  <2>4. buffer \in [1 .. BufferSize -> Chars \cup {NUL}]
    BY DEF LineInv
  <2>5. line = Append(SubSeq(buffer, 1, index - 1), buffer[index])
    BY <2>3, <2>4, SubSeqAppend DEF line
  <2>6. line' \in Seq(Chars) /\ Len(line') = index - 1
    <3>1. (line \in Seq(Chars) /\ Len(line) = index)'
      BY <2>2, LineType, PTL
    <3> QED BY <2>1, <3>1
  <2>7. line' = SubSeq(buffer, 1, index - 1)
    BY <2>1 DEF line
  <2>8. buffer[index] \in Chars
    BY <1>1 DEF LineInv
  <2>9. Front(line) = line' /\ line # <<>>
    <3>1. line = Append(line', buffer[index])
      BY <2>5, <2>7
    <3> QED BY <2>6, <2>8, <3>1 DEF Front
  <2>10. Editor!Erase
    BY <2>1, <2>9 DEF Editor!Erase, Editor!Front, Front
  <2> QED BY <2>2, <2>10
<1>2. CASE ~ (index > 0)
  BY <1>2 DEF BackspaceDown, LineInv, line
<1> QED BY <1>1, <1>2

\* Enter hands over exactly the line, without what stands behind the index.
LEMMA EnterHandsOver ==
  ASSUME LineInv, EnterDown
  PROVE  LineInv' /\ Editor!Enter
<1> USE SizeAssumption
<1> DEFINE b == [buffer EXCEPT ![index + 1] = NUL]
<1>1. Execute(b) /\ buffer' = EmptyBuffer /\ index' = 0 /\ UNCHANGED kbd
  BY DEF EnterDown
<1>2. LineInv'
  BY <1>1 DEF LineInv, EmptyBuffer
<1>3. line' = <<>>
  <2>1. buffer' \in Seq(Chars \cup {NUL})
    BY <1>2 DEF LineInv
  <2> QED BY <1>1, <2>1 DEF line
<1>4. /\ b \in [1 .. BufferSize -> Chars \cup {NUL}]
      /\ b[index + 1] = NUL /\ index \in Nat /\ index <= BufferSize - 1
      /\ \A n \in 1 .. index : b[n] = buffer[n] /\ b[n] \in Chars
      /\ buffer \in [1 .. BufferSize -> Chars \cup {NUL}]
  BY DEF LineInv
<1> HIDE DEF b
<1>5. CString(b) = SubSeq(b, 1, index)
  <2>1. DOMAIN b = 1 .. BufferSize
    BY <1>4
  <2>2. \A n \in 1 .. index : n \in DOMAIN b /\ b[n] # NUL
    BY <1>4, <2>1, NulIsNoChar
  <2>3. index + 1 \in DOMAIN b /\ DOMAIN b \subseteq Int /\ \A n \in DOMAIN b : n >= 1
    BY <1>4, <2>1
  <2> QED BY <1>4, <2>2, <2>3, CStringIs
<1>6. SubSeq(b, 1, index) = line
  BY <1>4, SubSeqAgree DEF line
<1>7. line = <<>> <=> index = 0
  BY LineType
<1>8. ran' = IF line = <<>> THEN ran ELSE line
  BY <1>1, <1>4, <1>5, <1>6, <1>7 DEF Execute
<1> QED BY <1>2, <1>3, <1>8 DEF Editor!Enter

\* The shell runs exactly the lines typed: character keys append to the line
\* while there is room, backspace takes its last character, and Enter hands
\* over the line, whatever characters earlier lines and backspaces have left
\* in cmd_buffer (shell.cpp and keyboard.cpp).
THEOREM LineEditing == Spec => RefinesLineEditor
<1>1. Init => LineInv /\ Editor!Init
  <2> SUFFICES ASSUME Init PROVE LineInv /\ Editor!Init
    OBVIOUS
  <2>1. LineInv
    BY SizeAssumption DEF Init, LineInv, EmptyBuffer
  <2>2. line = <<>>
    <3>1. buffer \in Seq(Chars \cup {NUL})
      BY <2>1, SizeAssumption DEF LineInv
    <3> QED BY <3>1 DEF Init, line
  <2> QED BY <2>1, <2>2 DEF Init, Editor!Init
<1>2. ASSUME LineInv, [Next]_vars
      PROVE  LineInv' /\ [(\E c \in Chars : Editor!Type(c)) \/ Editor!Erase \/ Editor!Enter]_<<line, ran>>
  <2>1. CASE KmainPrints \/ CardReports
    <3>1. LineInv' /\ UNCHANGED <<line, ran>>
      BY <1>2, <2>1 DEF KmainPrints, CardReports, LineInv, line
    <3> QED BY <3>1
  <2>2. CASE ShiftDown \/ ShiftUp
    <3>1. LineInv' /\ UNCHANGED <<line, ran>>
      BY <1>2, <2>2 DEF ShiftDown, ShiftUp, LineInv, line
    <3> QED BY <3>1
  <2>3. CASE CapsDown
    <3>1. LineInv' /\ UNCHANGED <<line, ran>>
      BY <1>2, <2>3 DEF CapsDown, LineInv, line
    <3> QED BY <3>1
  <2>4. ASSUME NEW k \in Keys, KeyDown(k)
        PROVE  LineInv' /\ ((\E c \in Chars : Editor!Type(c)) \/ UNCHANGED <<line, ran>>)
    BY <1>2, <2>4, KeyTypes, TranslateType
  <2>5. CASE BackspaceDown
    BY <1>2, <2>5, BackspaceErases
  <2>6. CASE EnterDown
    BY <1>2, <2>6, EnterHandsOver
  <2>7. CASE UNCHANGED vars
    <3>1. LineInv' /\ UNCHANGED <<line, ran>>
      BY <1>2, <2>7 DEF vars, LineInv, line
    <3> QED BY <3>1
  <2> QED BY <1>2, <2>1, <2>2, <2>3, <2>4, <2>5, <2>6, <2>7 DEF Next
<1> QED BY <1>1, <1>2, PTL DEF Spec, RefinesLineEditor, Editor!Spec

-----------------------------------------------------------------------------
\* tty_print.  PrintAll folds tty_putc over the places of a string: the fold is
\* a function of sets of places, which exists for every length, and its values
\* on 1 .. n are the screens after n characters.

\* g is the fold of tty_putc over the first n characters of s, as PrintAll
\* takes it: over the sets of places in s.
Printing(t, s, n, g) ==
  g = [S \in SUBSET (1 .. n) |-> IF S = {} THEN t ELSE Put(g[S \ {Max(S)}], s[Max(S)])]

\* The last place of a string.
LEMMA LastPlace ==
  ASSUME NEW n \in Nat, NEW S \in SUBSET (1 .. n), S # {}
  PROVE  Max(S) \in S /\ \A p \in S : p <= Max(S)
<1> DEFINE T == {n - p : p \in S}
<1>1. \A p \in S : n - p \in Nat
  OBVIOUS
<1>2. T \in SUBSET Nat /\ T # {}
  BY <1>1
<1> HIDE DEF T
<1>3. PICK x \in T : \A y \in T : x <= y
  BY <1>2, LeastNatural
<1> USE DEF T
<1>4. PICK p \in S : x = n - p
  BY <1>3
<1>5. \A q \in S : n - p <= n - q
  BY <1>3, <1>4
<1>6. \A q \in S : p >= q
  BY <1>5
<1>7. \E z \in S : \A q \in S : z >= q
  BY <1>6
<1>8. Max(S) \in S /\ \A q \in S : Max(S) >= q
  BY <1>7 DEF Max
<1> QED BY <1>8

\* A string can have one more character.
LEMMA PrintingOn ==
  ASSUME NEW t, NEW s, NEW m \in Nat, NEW g, Printing(t, s, m, g)
  PROVE  \E f : Printing(t, s, m + 1, f)
<1> DEFINE E(h, S) == IF S = {} THEN t ELSE Put(h[S \ {Max(S)}], s[Max(S)])
           f == [S \in SUBSET (1 .. m + 1) |-> E(g, S)]
           h == [S \in SUBSET (1 .. m + 1) |-> E(f, S)]
<1>1. ASSUME NEW S \in SUBSET (1 .. m) PROVE f[S] = g[S]
  <2>1. g[S] = E(g, S)
    BY DEF Printing
  <2>2. S \in SUBSET (1 .. m + 1)
    OBVIOUS
  <2>3. f[S] = E(g, S)
    BY <2>2
  <2> QED BY <2>1, <2>3
<1>2. ASSUME NEW S \in SUBSET (1 .. m + 1) PROVE E(g, S) = E(f, S)
  <2>1. CASE S = {}
    BY <2>1
  <2>2. CASE S # {}
    <3>1. Max(S) \in S /\ \A p \in S : p <= Max(S)
      <4> HIDE DEF E, f, h
      <4>1. m + 1 \in Nat
        OBVIOUS
      <4> QED BY <2>2, <4>1, LastPlace
    <3>2. S \ {Max(S)} \in SUBSET (1 .. m)
      <4> HIDE DEF E, f, h
      <4>1. ASSUME NEW p \in S, p # Max(S) PROVE p \in 1 .. m
        <5>1. p \in 1 .. m + 1 /\ Max(S) \in 1 .. m + 1
          BY <3>1
        <5>2. p <= Max(S)
          BY <3>1
        <5> QED BY <4>1, <5>1, <5>2
      <4> QED BY <4>1
    <3>3. f[S \ {Max(S)}] = g[S \ {Max(S)}]
      BY <3>2, <1>1
    <3> HIDE DEF f
    <3> QED BY <2>2, <3>3
  <2> QED BY <2>1, <2>2
<1>3. f = h
  <2> DEFINE F(S) == E(g, S)
             G(S) == E(f, S)
  <2>1. \A S \in SUBSET (1 .. m + 1) : F(S) = G(S)
    BY <1>2
  <2>2. f = [S \in SUBSET (1 .. m + 1) |-> F(S)] /\ h = [S \in SUBSET (1 .. m + 1) |-> G(S)]
    OBVIOUS
  <2> HIDE DEF F, G, f, h
  <2> QED BY <2>1, <2>2
<1>4. Printing(t, s, m + 1, f)
  BY <1>3 DEF Printing
<1> QED BY <1>4

\* Every string can be printed.
LEMMA PrintingExists ==
  ASSUME NEW t, NEW s, NEW n \in Nat
  PROVE  \E g : Printing(t, s, n, g)
<1> DEFINE T == {m \in Nat : ~ \E f : Printing(t, s, m, f)}
<1> SUFFICES T = {}
  OBVIOUS
<1> SUFFICES ASSUME T # {} PROVE FALSE
  OBVIOUS
<1>1. T \in SUBSET Nat
  OBVIOUS
<1> HIDE DEF T
<1>2. PICK m \in T : \A l \in T : m <= l
  BY <1>1, LeastNatural
<1> USE DEF T
<1>3. CASE m = 0
  <2> DEFINE f == [S \in SUBSET (1 .. 0) |-> t]
  <2>1. \A S \in SUBSET (1 .. 0) : S = {}
    OBVIOUS
  <2>2. f = [S \in SUBSET (1 .. 0) |-> IF S = {} THEN t ELSE Put(f[S \ {Max(S)}], s[Max(S)])]
    BY <2>1
  <2> QED BY <1>2, <1>3, <2>2 DEF Printing
<1>4. CASE m # 0
  <2>1. m - 1 \in Nat /\ m - 1 + 1 = m /\ m - 1 \notin T
    BY <1>2, <1>4
  <2>2. PICK g : Printing(t, s, m - 1, g)
    BY <2>1
  <2>3. \E f : Printing(t, s, m - 1 + 1, f)
    BY <2>1, <2>2, PrintingOn
  <2> QED BY <1>2, <2>1, <2>3
<1> QED BY <1>3, <1>4

\* The screens that tty_print goes through, from t to PrintAll(t, s).
Prints(t, s, h) ==
  /\ h[0] = t /\ h[Len(s)] = PrintAll(t, s)
  /\ \A n \in 1 .. Len(s) : h[n] = Put(h[n - 1], s[n])

\* tty_print calls tty_putc with one character after the other.
LEMMA PrintSteps ==
  ASSUME NEW S, NEW s \in Seq(S), NEW t
  PROVE  \E h : Prints(t, s, h)
<1> DEFINE N == Len(s)
           g == CHOOSE f : Printing(t, s, N, f)
           h == [n \in 0 .. N |-> g[1 .. n]]
<1>1. Printing(t, s, N, g)
  BY PrintingExists
<1>2. PrintAll(t, s) = g[1 .. N]
  <2>1. DOMAIN s = 1 .. N
    OBVIOUS
  <2>2. PrintAll(t, s) = (CHOOSE f : Printing(t, s, N, f))[1 .. N]
    BY <2>1 DEF PrintAll, FoldLeft, MapThenFoldSet, Printing
  <2> QED BY <2>2
<1>3. N \in Nat
  OBVIOUS
<1> HIDE DEF g, N
<1>4. \A Q \in SUBSET (1 .. N) : g[Q] = IF Q = {} THEN t ELSE Put(g[Q \ {Max(Q)}], s[Max(Q)])
  BY <1>1 DEF Printing
<1>5. g[1 .. 0] = t
  <2>1. 1 .. 0 = {}
    OBVIOUS
  <2> QED BY <1>4, <2>1
<1>6. ASSUME NEW n \in 1 .. N PROVE h[n] = Put(h[n - 1], s[n])
  <2>1. 1 .. n \in SUBSET (1 .. N) /\ 1 .. n # {}
    BY <1>3
  <2>2. Max(1 .. n) = n
    <3>1. Max(1 .. n) \in 1 .. n /\ \A p \in 1 .. n : p <= Max(1 .. n)
      <4>1. n \in Nat /\ 1 .. n \in SUBSET (1 .. n)
        BY <1>3
      <4> HIDE DEF h
      <4> QED BY <2>1, <4>1, LastPlace
    <3>2. n \in 1 .. n /\ Max(1 .. n) \in Int /\ n <= Max(1 .. n) /\ Max(1 .. n) <= n
      BY <3>1
    <3> QED BY <3>2
  <2>3. (1 .. n) \ {n} = 1 .. (n - 1)
    OBVIOUS
  <2>4. g[1 .. n] = Put(g[(1 .. n) \ {n}], s[n])
    BY <1>4, <2>1, <2>2
  <2> QED BY <1>3, <2>3, <2>4
<1>7. h[0] = t /\ h[N] = PrintAll(t, s)
  BY <1>2, <1>3, <1>5
<1>8. Prints(t, s, h)
  BY <1>6, <1>7 DEF Prints, N
<1> QED BY <1>8

-----------------------------------------------------------------------------
\* Reading: a screen's glyphs, listed from its top left to its bottom right.

\* What may stand in a glyph cell.
Letters == Chars \cup {NUL, ">", "o"}
Cells == [x : Nat, y : Nat, c : Letters]

\* The order in which a page is read.
Before(g, h) == g.y < h.y \/ (g.y = h.y /\ g.x < h.x)

\* The glyphs of G in reading order, m of them.
Listing(G, m, e) ==
  /\ e \in [1 .. m -> Cells]
  /\ G = {e[i] : i \in 1 .. m}
  /\ \A i, j \in 1 .. m : i < j => Before(e[i], e[j])

\* Glyphs in order are different ones.
LEMMA Counted ==
  ASSUME NEW m \in Nat, NEW G, NEW e, Listing(G, m, e), NEW k \in 0 .. m
  PROVE  Cardinality({e[i] : i \in 1 .. k}) = k
<1> DEFINE K == 1 .. k
           H == {e[i] : i \in K}
           f == [i \in K |-> e[i]]
<1>1. IsFiniteSet(K) /\ Cardinality(K) = k
  BY FS_Interval
<1>2. \A i, j \in K : e[i] = e[j] => i = j
  <2> SUFFICES ASSUME NEW i \in K, NEW j \in K, i < j, e[i] = e[j] PROVE FALSE
    OBVIOUS
  <2>1. i \in 1 .. m /\ j \in 1 .. m /\ Before(e[i], e[j])
    BY DEF Listing
  <2>2. e[i] \in Cells
    BY <2>1 DEF Listing
  <2>3. e[i].x \in Nat /\ e[i].y \in Nat
    BY <2>2 DEF Cells
  <2> QED BY <2>1, <2>3 DEF Before
<1>3. /\ f \in [K -> H] /\ \A i, j \in K : f[i] = f[j] => i = j
      /\ \A h \in H : \E i \in K : f[i] = h
  BY <1>2
<1> HIDE DEF K, H, f
<1>4. f \in Bijection(K, H)
  <2>1. f \in Injection(K, H)
    BY <1>3, Fun_IsInj
  <2>2. f \in Surjection(K, H)
    BY <1>3, Fun_IsSurj
  <2> QED BY <2>1, <2>2 DEF Bijection
<1>5. Cardinality(H) = k
  BY <1>1, <1>4, FS_Bijection, Fun_ExistsBij
<1> QED BY <1>5 DEF H, K

\* The glyphs read before g.
Earlier(G, g) == {h \in G : Before(h, g)}

\* What stands before a glyph.
LEMMA EarlierAre ==
  ASSUME NEW m \in Nat, NEW G, NEW e, Listing(G, m, e), NEW n \in 1 .. m
  PROVE  Earlier(G, e[n]) = {e[i] : i \in 1 .. (n - 1)}
<1>1. \A i \in 1 .. m : e[i].x \in Nat /\ e[i].y \in Nat
  <2> TAKE i \in 1 .. m
  <2>1. e[i] \in Cells
    BY DEF Listing
  <2> QED BY <2>1 DEF Cells
<1>2. ASSUME NEW i \in 1 .. m PROVE Before(e[i], e[n]) <=> i < n
  <2>1. CASE i < n
    BY <2>1 DEF Listing
  <2>2. CASE i = n
    BY <1>1, <2>2 DEF Before
  <2>3. CASE i > n
    <3>1. Before(e[n], e[i])
      BY <2>3 DEF Listing
    <3> QED BY <1>1, <2>3, <3>1 DEF Before
  <2> QED BY <2>1, <2>2, <2>3
<1>3. G = {e[i] : i \in 1 .. m}
  BY DEF Listing
<1> QED BY <1>2, <1>3 DEF Earlier

\* A screen reads as its glyphs stand.
LEMMA Reads ==
  ASSUME NEW m \in Nat, NEW G, NEW e, Listing(G, m, e)
  PROVE  Reading(G) = [n \in 1 .. m |-> e[n].c]
<1> DEFINE At(n, g) == Cardinality(Earlier(G, g)) = n - 1
           R(n) == (CHOOSE g \in G : At(n, g)).c
<1>1. G = {e[i] : i \in 1 .. m}
  BY DEF Listing
<1>2. Cardinality(G) = m
  BY <1>1, Counted
<1>3. \A i \in 1 .. m : Cardinality(Earlier(G, e[i])) = i - 1
  <2> TAKE i \in 1 .. m
  <2>1. i - 1 \in 0 .. m
    OBVIOUS
  <2>2. Cardinality({e[j] : j \in 1 .. (i - 1)}) = i - 1
    BY <2>1, Counted
  <2>3. Earlier(G, e[i]) = {e[j] : j \in 1 .. (i - 1)}
    BY EarlierAre
  <2> QED BY <2>2, <2>3
<1>4. Reading(G) = [n \in 1 .. m |-> R(n)]
  BY <1>2 DEF Reading, Earlier, Before
<1>5. ASSUME NEW n \in 1 .. m PROVE R(n) = e[n].c
  <2>1. e[n] \in G /\ At(n, e[n])
    BY <1>1, <1>3
  <2>2. ASSUME NEW g \in G, At(n, g) PROVE g = e[n]
    <3>1. PICK i \in 1 .. m : g = e[i]
      BY <1>1
    <3>2. i - 1 = n - 1
      BY <1>3, <2>2, <3>1
    <3> QED BY <3>1, <3>2
  <2> HIDE DEF At
  <2>3. (CHOOSE g \in G : At(n, g)) = e[n]
    BY <2>1, <2>2
  <2> QED BY <2>3
<1> HIDE DEF R
<1> QED BY <1>4, <1>5

\* A sequence that agrees with another's end is its suffix.
LEMMA SuffixIs ==
  ASSUME NEW S, NEW s \in Seq(S), NEW t \in Seq(S), Len(s) <= Len(t),
         \A k \in 1 .. Len(s) : t[Len(t) - Len(s) + k] = s[k]
  PROVE  IsSuffix(s, t)
<1> DEFINE a == Reverse(s)
           b == Reverse(t)
           N == Len(s)
<1>1. N \in Nat /\ Len(t) \in Nat
  OBVIOUS
<1>2. a \in Seq(S) /\ Len(a) = N /\ \A k \in 1 .. N : a[k] = s[N - k + 1]
  BY DEF Reverse
<1>3. b \in Seq(S) /\ Len(b) = Len(t) /\ \A k \in 1 .. Len(t) : b[k] = t[Len(t) - k + 1]
  BY DEF Reverse
<1>4. \A k \in 1 .. N : a[k] = b[k]
  <2> TAKE k \in 1 .. N
  <2>1. N - k + 1 \in 1 .. N /\ k \in 1 .. Len(t)
    BY <1>1
  <2>2. t[Len(t) - N + (N - k + 1)] = s[N - k + 1]
    BY <2>1
  <2>3. Len(t) - N + (N - k + 1) = Len(t) - k + 1
    BY <1>1
  <2> QED BY <1>2, <1>3, <2>1, <2>2, <2>3
<1> HIDE DEF a, b
<1>5. SubSeq(a, 1, N) = SubSeq(b, 1, N)
  BY <1>1, <1>2, <1>3, <1>4
<1> QED BY <1>1, <1>2, <1>3, <1>5 DEF IsSuffix, IsPrefix, a, b, N

-----------------------------------------------------------------------------
\* The screen that every call of tty.cpp keeps.

\* A screen as tty.cpp keeps it: glyphs stand in the cursor's row to the left
\* of the cursor, or in rows above it that end above its row, and all of them
\* within the framebuffer.
Screen(t) ==
  /\ t \in [x : Nat, y : Nat, glyphs : SUBSET Cells]
  /\ \E k \in Nat : t.x = Left + Advance * k
  /\ t.x <= width
  /\ \A g \in t.glyphs :
       /\ g.x + Advance <= width /\ g.y + GlyphHeight < Height
       /\ (g.y = t.y /\ g.x + Advance <= t.x) \/ g.y + GlyphHeight <= t.y
  /\ \E m \in Nat : \E e : Listing(t.glyphs, m, e)

\* The cursor stands at the start of a row, and the screen's text above it.
Fresh(t) ==
  /\ Screen(t) /\ t.x = Left
  /\ \A g \in t.glyphs : g.y + GlyphHeight <= t.y

\* The framebuffer has room for one column and the margin.
WideEnough == width \in Nat /\ width >= 19

\* The first cell of a row.
LEMMA LeftIsColumn == \E k \in Nat : Left = Left + Advance * k
<1> DEFINE z == 0
<1>1. z \in Nat /\ Left = Left + Advance * z
  BY DEF Left, Advance
<1> QED BY <1>1

\* A new line starts a fresh row.
LEMMA NewLineKeeps ==
  ASSUME WideEnough, NEW t, Screen(t)
  PROVE  Fresh(Put(t, NL))
<1> DEFINE n == [x |-> Left, y |-> t.y + LineHeight, glyphs |-> t.glyphs]
<1>1. Put(t, NL) = n
  BY DEF Put, Screen
<1>2. /\ n.x = Left /\ n.y = t.y + LineHeight /\ n.glyphs = t.glyphs
      /\ n \in [x : Nat, y : Nat, glyphs : SUBSET Cells]
  BY DEF Screen, Left, LineHeight
<1> HIDE DEF n
<1>3. \A g \in n.glyphs : g.y + GlyphHeight <= n.y
  <2> TAKE g \in n.glyphs
  <2>1. g \in Cells /\ t.y \in Nat
    BY <1>2 DEF Screen
  <2>2. g.y \in Nat /\ (g.y = t.y \/ g.y + GlyphHeight <= t.y)
    BY <1>2, <2>1 DEF Screen, Cells
  <2> QED BY <1>2, <2>1, <2>2 DEF GlyphHeight, LineHeight
<1>4. Screen(n)
  <2>1. n.x <= width
    BY <1>2 DEF WideEnough, Left
  <2>2. \E k \in Nat : n.x = Left + Advance * k
    BY <1>2, LeftIsColumn
  <2>3. \A g \in n.glyphs : g.x + Advance <= width /\ g.y + GlyphHeight < Height
    BY <1>2 DEF Screen
  <2>4. \E m \in Nat : \E e : Listing(n.glyphs, m, e)
    BY <1>2 DEF Screen
  <2> QED BY <1>2, <1>3, <2>1, <2>2, <2>3, <2>4 DEF Screen
<1> QED BY <1>1, <1>2, <1>3, <1>4 DEF Fresh

\* A line that would run over the right edge goes on in the next row.
LEMMA WrapKeeps ==
  ASSUME WideEnough, NEW t, Screen(t)
  PROVE  /\ Screen(Wrapped(t))
         /\ Wrapped(t).x + Advance <= width
         /\ Wrapped(t).glyphs = t.glyphs
<1>0. t.x \in Nat
  BY DEF Screen
<1>1. CASE t.x + Advance > width
  <2>1. Wrapped(t) = Put(t, NL)
    BY <1>1 DEF Wrapped, Put
  <2>2. Put(t, NL).x = Left /\ Put(t, NL).glyphs = t.glyphs
    BY DEF Put, Screen
  <2> QED BY <2>1, <2>2, NewLineKeeps DEF Fresh, WideEnough, Left, Advance
<1>2. CASE ~ (t.x + Advance > width)
  BY <1>0, <1>2 DEF Wrapped, WideEnough, Advance
<1> QED BY <1>1, <1>2

\* Where the rows from 18 on begin in a listing.
LEMMA FirstKept ==
  ASSUME NEW m \in Nat, NEW G, NEW e, Listing(G, m, e), NEW l \in Nat
  PROVE  \E d \in 0 .. m : /\ \A i \in 1 .. d : e[i].y < l
                           /\ \A i \in (d + 1) .. m : e[i].y >= l
<1> DEFINE T == {d \in 0 .. m : \A i \in (d + 1) .. m : e[i].y >= l}
<1>1. m \in T /\ T \in SUBSET Nat
  OBVIOUS
<1> HIDE DEF T
<1>2. PICK d \in T : \A z \in T : d <= z
  BY <1>1, LeastNatural
<1> USE DEF T
<1>3. \A i \in 1 .. m : e[i].x \in Nat /\ e[i].y \in Nat
  <2> TAKE i \in 1 .. m
  <2>1. e[i] \in Cells
    BY DEF Listing
  <2> QED BY <2>1 DEF Cells
<1>4. d \in 0 .. m /\ \A i \in (d + 1) .. m : e[i].y >= l
  OBVIOUS
<1>5. ASSUME NEW i \in 1 .. d PROVE e[i].y < l
  <2> SUFFICES ASSUME e[i].y >= l PROVE FALSE
    BY <1>3, <1>4
  <2>1. \A j \in (i + 1) .. m : Before(e[i], e[j])
    BY <1>4 DEF Listing
  <2>2. \A j \in i .. m : e[j].y >= l
    BY <1>3, <1>4, <2>1 DEF Before
  <2>3. i - 1 \in 0 .. m /\ (i - 1) + 1 = i
    BY <1>4
  <2>4. i - 1 \in T
    BY <2>2, <2>3
  <2>5. d <= i - 1
    BY <1>2, <2>4
  <2> QED BY <1>4, <2>5
<1> QED BY <1>4, <1>5

\* What scrolling leaves of a listing: its end, one line higher.
Risen(d, m, e) == [i \in 1 .. (m - d) |-> Glyph(e[d + i].x, e[d + i].y - LineHeight, e[d + i].c)]

\* The screen scrolls when the cursor's row does not fit below the others.
LEMMA ScrollKeeps ==
  ASSUME WideEnough, NEW t, Screen(t), t.y + GlyphHeight > Height - 1,
         NEW m \in Nat, NEW e, Listing(t.glyphs, m, e)
  PROVE  /\ Fresh(Scroll(t)) /\ Scroll(t).y + GlyphHeight < Height
         /\ \E d \in 0 .. m : Listing(Scroll(t).glyphs, m - d, Risen(d, m, e))
<1> USE SizeAssumption
<1> DEFINE r == Scroll(t)
           Kept == {h \in t.glyphs : h.y >= LineHeight /\ h.y <= Height - GlyphHeight}
<1>1. PICK d \in 0 .. m : /\ \A i \in 1 .. d : e[i].y < LineHeight
                          /\ \A i \in (d + 1) .. m : e[i].y >= LineHeight
  <2>1. LineHeight \in Nat
    BY DEF LineHeight
  <2> QED BY <2>1, FirstKept
<1>2. /\ r.x = Left /\ r.y = Height - LineHeight
      /\ r.glyphs = {Glyph(g.x, g.y - LineHeight, g.c) : g \in Kept}
  BY DEF Scroll
<1>3. \A i \in 1 .. m : /\ e[i].x \in Nat /\ e[i].y \in Nat /\ e[i].c \in Letters
                        /\ e[i].x + Advance <= width /\ e[i].y + GlyphHeight < Height
                        /\ e[i].y + GlyphHeight <= t.y \/ e[i].y = t.y
  <2> TAKE i \in 1 .. m
  <2>1. e[i] \in t.glyphs /\ e[i] \in Cells
    BY DEF Listing
  <2> QED BY <2>1 DEF Screen, Cells
<1>4. Kept = {e[i] : i \in (d + 1) .. m}
  <2>1. t.glyphs = {e[i] : i \in 1 .. m}
    BY DEF Listing
  <2>2. \A i \in 1 .. m : i \in (d + 1) .. m <=> (e[i].y >= LineHeight /\ e[i].y <= Height - GlyphHeight)
    <3> TAKE i \in 1 .. m
    <3>1. e[i].y \in Nat /\ e[i].y <= Height - GlyphHeight
      BY <1>3 DEF GlyphHeight
    <3>2. CASE i <= d
      BY <1>1, <3>1, <3>2 DEF LineHeight
    <3>3. CASE i > d
      BY <1>1, <3>1, <3>3 DEF LineHeight
    <3> QED BY <3>2, <3>3
  <2>3. (d + 1) .. m \subseteq 1 .. m
    OBVIOUS
  <2> QED BY <2>1, <2>2, <2>3
<1> HIDE DEF Kept, r
<1> DEFINE f == Risen(d, m, e)
<1>5. \A i \in 1 .. (m - d) : /\ d + i \in (d + 1) .. m /\ d + i \in 1 .. m
                              /\ f[i] = Glyph(e[d + i].x, e[d + i].y - LineHeight, e[d + i].c)
  BY DEF Risen
<1>6. \A i \in 1 .. (m - d) : /\ f[i].x = e[d + i].x /\ f[i].y = e[d + i].y - LineHeight
                              /\ f[i] \in Cells
  <2> TAKE i \in 1 .. (m - d)
  <2>1. e[d + i].y - LineHeight \in Nat
    BY <1>1, <1>3, <1>5 DEF LineHeight
  <2>2. e[d + i].x \in Nat /\ e[d + i].c \in Letters
    BY <1>3, <1>5
  <2> HIDE DEF f
  <2>3. f[i] = [x |-> e[d + i].x, y |-> e[d + i].y - LineHeight, c |-> e[d + i].c]
    BY <1>5 DEF Glyph
  <2> QED BY <2>1, <2>2, <2>3 DEF Cells
<1>7. Listing(r.glyphs, m - d, f)
  <2>1. f \in [1 .. (m - d) -> Cells]
    BY <1>6 DEF Risen
  <2>2. r.glyphs = {f[i] : i \in 1 .. (m - d)}
    <3>1. r.glyphs = {Glyph(e[i].x, e[i].y - LineHeight, e[i].c) : i \in (d + 1) .. m}
      BY <1>2, <1>4
    <3>2. \A i \in (d + 1) .. m : i - d \in 1 .. (m - d) /\ d + (i - d) = i
      OBVIOUS
    <3> HIDE DEF f
    <3>3. \A i \in (d + 1) .. m : f[i - d] = Glyph(e[i].x, e[i].y - LineHeight, e[i].c)
      BY <1>5, <3>2
    <3> QED BY <1>5, <3>1, <3>2, <3>3
  <2>3. ASSUME NEW i \in 1 .. (m - d), NEW j \in 1 .. (m - d), i < j
        PROVE  Before(f[i], f[j])
    <3>1. Before(e[d + i], e[d + j])
      BY <1>5, <2>3 DEF Listing
    <3>2. /\ e[d + i].y \in Nat /\ e[d + j].y \in Nat
      BY <1>3, <1>5
    <3> HIDE DEF f
    <3> QED BY <1>6, <3>1, <3>2 DEF Before, LineHeight
  <2> HIDE DEF f
  <2> QED BY <2>1, <2>2, <2>3 DEF Listing
<1>8. \A g \in r.glyphs : /\ g \in Cells /\ g.x + Advance <= width
                          /\ g.y + GlyphHeight < Height /\ g.y + GlyphHeight <= r.y
  <2> TAKE g \in r.glyphs
  <2> HIDE DEF f
  <2>1. PICK i \in 1 .. (m - d) : g = f[i]
    BY <1>7 DEF Listing
  <2>2. /\ e[d + i].x \in Nat /\ e[d + i].y \in Nat
        /\ e[d + i].x + Advance <= width /\ e[d + i].y + GlyphHeight < Height
    BY <1>3, <1>5
  <2>3. g.x = e[d + i].x /\ g.y = e[d + i].y - LineHeight /\ g \in Cells
    BY <1>6, <2>1
  <2> QED BY <1>2, <2>2, <2>3 DEF LineHeight, GlyphHeight, Advance
<1>9. Fresh(r)
  <2>1. r \in [x : Nat, y : Nat, glyphs : SUBSET Cells]
    <3>1. r = [x |-> Left, y |-> Height - LineHeight, glyphs |-> r.glyphs]
      BY DEF r, Scroll
    <3>2. Left \in Nat /\ Height - LineHeight \in Nat /\ r.glyphs \in SUBSET Cells
      BY <1>8 DEF Left, LineHeight
    <3> QED BY <3>1, <3>2
  <2>2. m - d \in Nat
    OBVIOUS
  <2>3. \E k \in Nat : r.x = Left + Advance * k
    BY <1>2, LeftIsColumn
  <2>4. r.x <= width
    BY <1>2 DEF Left, WideEnough
  <2> HIDE DEF f
  <2> QED BY <1>2, <1>7, <1>8, <2>1, <2>2, <2>3, <2>4 DEF Fresh, Screen
<1>10. r.y + GlyphHeight < Height
  BY <1>2 DEF LineHeight, GlyphHeight
<1> QED BY <1>7, <1>9, <1>10 DEF r

\* The glyphs of a screen are numbers and letters.
LEMMA GlyphType ==
  ASSUME NEW t, Screen(t), NEW g \in t.glyphs
  PROVE  /\ g.x \in Nat /\ g.y \in Nat /\ g.c \in Letters
         /\ t.x \in Nat /\ t.y \in Nat
         /\ g.x + Advance <= width /\ g.y + GlyphHeight < Height
         /\ (g.y = t.y /\ g.x + Advance <= t.x) \/ g.y + GlyphHeight <= t.y
<1>1. g \in Cells
  BY DEF Screen
<1> QED BY <1>1 DEF Screen, Cells

\* H shows the end of what G shows.
KeepsEnd(G, H) ==
  \A m \in Nat : \A e : Listing(G, m, e) =>
    \E d \in 0 .. m : \E f : /\ Listing(H, m - d, f)
                             /\ \A i \in 1 .. (m - d) : f[i].c = e[d + i].c

\* The cursor's row, where it is drawn, lies within the framebuffer.
LEMMA ScrolledKeeps ==
  ASSUME WideEnough, NEW t, Screen(t)
  PROVE  /\ Screen(Scrolled(t)) /\ Scrolled(t).y + GlyphHeight < Height
         /\ t.x + Advance <= width => Scrolled(t).x + Advance <= width
         /\ Fresh(t) => Fresh(Scrolled(t))
         /\ KeepsEnd(t.glyphs, Scrolled(t).glyphs)
<1> USE SizeAssumption
<1>0. t.x \in Nat /\ t.y \in Nat
  BY DEF Screen
<1>1. CASE t.y + GlyphHeight > Height - 1
  <2>1. Scrolled(t) = Scroll(t)
    BY <1>1 DEF Scrolled
  <2>2. PICK m \in Nat : \E e : Listing(t.glyphs, m, e)
    BY DEF Screen
  <2>3. Fresh(Scroll(t)) /\ Scroll(t).y + GlyphHeight < Height
    BY <1>1, <2>2, ScrollKeeps
  <2>4. ASSUME NEW n \in Nat, NEW e, Listing(t.glyphs, n, e)
        PROVE  \E d \in 0 .. n : \E f : /\ Listing(Scroll(t).glyphs, n - d, f)
                                        /\ \A i \in 1 .. (n - d) : f[i].c = e[d + i].c
    <3>1. PICK d \in 0 .. n : Listing(Scroll(t).glyphs, n - d, Risen(d, n, e))
      BY <1>1, <2>4, ScrollKeeps
    <3>2. \A i \in 1 .. (n - d) : Risen(d, n, e)[i].c = e[d + i].c
      BY DEF Risen, Glyph
    <3> QED BY <3>1, <3>2
  <2>5. Scroll(t).x + Advance <= width
    BY <2>3 DEF Fresh, WideEnough, Left, Advance
  <2> QED BY <2>1, <2>3, <2>4, <2>5 DEF Fresh, KeepsEnd
<1>2. CASE ~ (t.y + GlyphHeight > Height - 1)
  <2>1. Scrolled(t) = t
    BY <1>2 DEF Scrolled
  <2>2. t.y + GlyphHeight < Height
    BY <1>0, <1>2 DEF GlyphHeight
  <2>3. ASSUME NEW n \in Nat, NEW e, Listing(t.glyphs, n, e)
        PROVE  \E d \in 0 .. n : \E f : /\ Listing(t.glyphs, n - d, f)
                                        /\ \A i \in 1 .. (n - d) : f[i].c = e[d + i].c
    <3>1. 0 \in 0 .. n /\ n - 0 = n /\ \A i \in 1 .. (n - 0) : 0 + i = i
      OBVIOUS
    <3>2. Listing(t.glyphs, n - 0, e) /\ \A i \in 1 .. (n - 0) : e[i].c = e[0 + i].c
      BY <2>3, <3>1
    <3> QED BY <3>1, <3>2
  <2> QED BY <2>1, <2>2, <2>3 DEF KeepsEnd
<1> QED BY <1>1, <1>2

\* A listing with one more glyph.
WithLast(m, e, g) == [i \in 1 .. (m + 1) |-> IF i = m + 1 THEN g ELSE e[i]]

\* A glyph drawn at the cursor hits no other, and is read last.
LEMMA DrawKeeps ==
  ASSUME WideEnough, NEW t, Screen(t), t.x + Advance <= width,
         t.y + GlyphHeight < Height, NEW c \in Letters
  PROVE  /\ Screen(Draw(t, c))
         /\ Draw(t, c).x = t.x + Advance /\ Draw(t, c).y = t.y
         /\ \A m \in Nat : \A e : Listing(t.glyphs, m, e) =>
              Listing(Draw(t, c).glyphs, m + 1, WithLast(m, e, Glyph(t.x, t.y, c)))
<1> USE SizeAssumption
<1> DEFINE n == Glyph(t.x, t.y, c)
           r == Draw(t, c)
<1>0. t.x \in Nat /\ t.y \in Nat /\ t.glyphs \in SUBSET Cells
  BY DEF Screen
<1>1. Under(t.glyphs, t.x, t.y) = {}
  <2>1. ASSUME NEW g \in t.glyphs
        PROVE  ~ (/\ g.x < t.x + Advance /\ t.x < g.x + Advance
                  /\ g.y < t.y + GlyphHeight /\ t.y < g.y + GlyphHeight)
    BY GlyphType DEF Advance, GlyphHeight
  <2> QED BY <2>1 DEF Under
<1>2. r = [x |-> t.x + Advance, y |-> t.y, glyphs |-> t.glyphs \cup {n}]
  <2>1. (t.glyphs \ Under(t.glyphs, t.x, t.y)) \cup {Glyph(t.x, t.y, c)} = t.glyphs \cup {n}
    BY <1>1
  <2>2. r = [t EXCEPT !.x = t.x + Advance, !.glyphs = t.glyphs \cup {n}]
    BY <2>1 DEF Draw
  <2>3. t \in [x : Nat, y : Nat, glyphs : SUBSET Cells]
    BY DEF Screen
  <2> HIDE DEF n, r
  <2> QED BY <2>2, <2>3
<1>3. n \in Cells /\ n.x = t.x /\ n.y = t.y
  BY <1>0 DEF Glyph, Cells
<1>4. /\ r.x = t.x + Advance /\ r.y = t.y /\ r.glyphs = t.glyphs \cup {n}
      /\ r \in [x : Nat, y : Nat, glyphs : SUBSET Cells]
  <2>1. t.x + Advance \in Nat
    BY <1>0 DEF Advance
  <2> HIDE DEF n
  <2> QED BY <1>0, <1>2, <1>3, <2>1
<1> HIDE DEF n, r
<1>5. ASSUME NEW m \in Nat, NEW e, Listing(t.glyphs, m, e)
      PROVE  Listing(r.glyphs, m + 1, WithLast(m, e, n))
  <2> DEFINE f == WithLast(m, e, n)
  <2>1. f[m + 1] = n /\ \A i \in 1 .. m : f[i] = e[i]
    BY DEF WithLast
  <2>2. \A i \in 1 .. m : e[i] \in Cells /\ e[i] \in t.glyphs
    BY <1>5 DEF Listing
  <2>3. f \in [1 .. (m + 1) -> Cells]
    <3>1. \A i \in 1 .. (m + 1) : i = m + 1 \/ i \in 1 .. m
      OBVIOUS
    <3>2. \A i \in 1 .. (m + 1) : f[i] \in Cells
      BY <1>3, <2>1, <2>2, <3>1
    <3> QED BY <3>2 DEF WithLast
  <2> HIDE DEF f
  <2>4. r.glyphs = {f[i] : i \in 1 .. (m + 1)}
    <3>1. \A i \in 1 .. (m + 1) : i = m + 1 \/ i \in 1 .. m
      OBVIOUS
    <3>2. 1 .. m \subseteq 1 .. (m + 1) /\ m + 1 \in 1 .. (m + 1)
      OBVIOUS
    <3>3. t.glyphs = {e[i] : i \in 1 .. m}
      BY <1>5 DEF Listing
    <3> QED BY <1>4, <2>1, <3>1, <3>2, <3>3
  <2>5. ASSUME NEW i \in 1 .. (m + 1), NEW j \in 1 .. (m + 1), i < j
        PROVE  Before(f[i], f[j])
    <3>1. i \in 1 .. m
      BY <2>5
    <3>2. CASE j \in 1 .. m
      BY <1>5, <2>1, <2>5, <3>1, <3>2 DEF Listing
    <3>3. CASE j = m + 1
      <4> DEFINE g == e[i]
      <4>1. g \in t.glyphs
        BY <2>2, <3>1
      <4> HIDE DEF g
      <4>2. Before(g, n)
        BY <1>3, <4>1, GlyphType DEF Before, Advance, GlyphHeight
      <4> QED BY <2>1, <3>1, <3>3, <4>2 DEF g
    <3> QED BY <3>2, <3>3
  <2> QED BY <2>3, <2>4, <2>5 DEF Listing, f
<1>6. Screen(r)
  <2>1. \A g \in r.glyphs :
          /\ g.x + Advance <= width /\ g.y + GlyphHeight < Height
          /\ (g.y = r.y /\ g.x + Advance <= r.x) \/ g.y + GlyphHeight <= r.y
    <3> TAKE g \in r.glyphs
    <3>1. CASE g = n
      BY <1>0, <1>3, <1>4, <3>1
    <3>2. CASE g \in t.glyphs
      BY <1>4, <3>2, GlyphType DEF Advance
    <3> QED BY <1>4, <3>1, <3>2
  <2>2. \E k \in Nat : r.x = Left + Advance * k
    <3>1. PICK k \in Nat : t.x = Left + Advance * k
      BY DEF Screen
    <3>2. k + 1 \in Nat /\ r.x = Left + Advance * (k + 1)
      BY <1>4, <3>1 DEF Left, Advance
    <3> QED BY <3>2
  <2>3. \E m \in Nat : \E e : Listing(r.glyphs, m, e)
    <3>1. PICK m \in Nat : \E e : Listing(t.glyphs, m, e)
      BY DEF Screen
    <3>2. PICK e : Listing(t.glyphs, m, e)
      BY <3>1
    <3>3. m + 1 \in Nat /\ Listing(r.glyphs, m + 1, WithLast(m, e, n))
      BY <1>5, <3>2
    <3> QED BY <3>3
  <2>4. r.x <= width
    BY <1>4
  <2> QED BY <1>4, <2>1, <2>2, <2>3, <2>4 DEF Screen
<1> QED BY <1>4, <1>5, <1>6 DEF n, r

\* What the shell prints: letters, which stay, and ends of lines.
Output == Letters \cup {NL}

\* An end of line is not drawn.
LEMMA NewLineIsNoLetter == NL \notin Letters
BY DEF NL, Letters, NUL, Chars

\* H shows the end of what G shows, and c behind it.
KeepsEndAnd(G, H, c) ==
  \A m \in Nat : \A e : Listing(G, m, e) =>
    \E d \in 0 .. m : \E f : /\ Listing(H, m - d + 1, f)
                             /\ \A i \in 1 .. (m - d) : f[i].c = e[d + i].c
                             /\ f[m - d + 1].c = c

\* A letter is drawn last, behind the end of what the screen showed.
LEMMA LetterKeeps ==
  ASSUME WideEnough, NEW t, Screen(t), NEW c \in Letters
  PROVE  /\ Screen(Put(t, c))
         /\ KeepsEndAnd(t.glyphs, Put(t, c).glyphs, c)
<1> DEFINE w == Wrapped(t)
           r == Scrolled(w)
<1>1. Put(t, c) = Draw(r, c)
  BY NewLineIsNoLetter DEF Put
<1>2. Screen(w) /\ w.x + Advance <= width /\ w.glyphs = t.glyphs
  BY WrapKeeps
<1> HIDE DEF w
<1>3. /\ Screen(r) /\ r.y + GlyphHeight < Height /\ r.x + Advance <= width
      /\ KeepsEnd(w.glyphs, r.glyphs)
  BY <1>2, ScrolledKeeps
<1> HIDE DEF r
<1>4. /\ Screen(Draw(r, c))
      /\ \A m \in Nat : \A e : Listing(r.glyphs, m, e) =>
           Listing(Draw(r, c).glyphs, m + 1, WithLast(m, e, Glyph(r.x, r.y, c)))
  BY <1>3, DrawKeeps
<1>5. ASSUME NEW m \in Nat, NEW e, Listing(t.glyphs, m, e)
      PROVE  \E d \in 0 .. m : \E f :
                /\ Listing(Draw(r, c).glyphs, m - d + 1, f)
                /\ \A i \in 1 .. (m - d) : f[i].c = e[d + i].c
                /\ f[m - d + 1].c = c
  <2>1. PICK d \in 0 .. m : \E f : /\ Listing(r.glyphs, m - d, f)
                                   /\ \A i \in 1 .. (m - d) : f[i].c = e[d + i].c
    BY <1>2, <1>3, <1>5 DEF KeepsEnd
  <2>2. PICK g : Listing(r.glyphs, m - d, g) /\ \A i \in 1 .. (m - d) : g[i].c = e[d + i].c
    BY <2>1
  <2>3. m - d \in Nat
    OBVIOUS
  <2> DEFINE f == WithLast(m - d, g, Glyph(r.x, r.y, c))
  <2>4. Listing(Draw(r, c).glyphs, m - d + 1, f)
    BY <1>4, <2>2, <2>3
  <2>5. f[m - d + 1].c = c /\ \A i \in 1 .. (m - d) : f[i] = g[i]
    BY <2>3 DEF WithLast, Glyph
  <2> HIDE DEF f
  <2> QED BY <2>2, <2>4, <2>5
<1> QED BY <1>1, <1>4, <1>5 DEF KeepsEndAnd

\* tty_putc keeps the screen as it should be.
LEMMA PutKeeps ==
  ASSUME WideEnough, NEW t, Screen(t), NEW c \in Output
  PROVE  Screen(Put(t, c))
  BY LetterKeeps, NewLineKeeps DEF Output, Fresh

\* So does tty_print; a text that ends its line leaves a fresh row.
LEMMA PrintKeeps ==
  ASSUME WideEnough, NEW t, Screen(t), NEW s \in Seq(Output)
  PROVE  /\ Screen(PrintAll(t, s))
         /\ Len(s) > 0 /\ s[Len(s)] = NL => Fresh(PrintAll(t, s))
<1>1. PICK h : Prints(t, s, h)
  BY PrintSteps
<1> DEFINE T == {n \in 0 .. Len(s) : ~ Screen(h[n])}
<1>2. Len(s) \in Nat /\ \A n \in 1 .. Len(s) : s[n] \in Output
  OBVIOUS
<1>3. T = {}
  <2> SUFFICES ASSUME T # {} PROVE FALSE
    OBVIOUS
  <2>1. T \in SUBSET Nat
    OBVIOUS
  <2> HIDE DEF T
  <2>2. PICK n \in T : \A l \in T : n <= l
    BY <2>1, LeastNatural
  <2> USE DEF T
  <2>3. n # 0
    BY <1>1, <2>2 DEF Prints
  <2>4. n - 1 \notin T /\ n - 1 \in 0 .. Len(s) /\ n \in 1 .. Len(s)
    BY <1>2, <2>2, <2>3
  <2>5. Screen(h[n - 1]) /\ h[n] = Put(h[n - 1], s[n])
    BY <1>1, <2>4 DEF Prints
  <2>6. Screen(h[n])
    BY <1>2, <2>4, <2>5, PutKeeps
  <2> QED BY <2>2, <2>6
<1>4. \A n \in 0 .. Len(s) : Screen(h[n])
  BY <1>3
<1>5. h[Len(s)] = PrintAll(t, s)
  BY <1>1 DEF Prints
<1>6. ASSUME Len(s) > 0, s[Len(s)] = NL PROVE Fresh(h[Len(s)])
  <2>1. Len(s) - 1 \in 0 .. Len(s) /\ Len(s) \in 1 .. Len(s)
    BY <1>2, <1>6
  <2>2. h[Len(s)] = Put(h[Len(s) - 1], NL)
    BY <1>1, <1>6, <2>1 DEF Prints
  <2> QED BY <1>4, <2>1, <2>2, NewLineKeeps
<1> QED BY <1>2, <1>4, <1>5, <1>6

\* tty_print of one character.
LEMMA PrintOne ==
  ASSUME NEW t, NEW c \in Output
  PROVE  PrintAll(t, <<c>>) = Put(t, c)
<1> DEFINE s == <<c>>
<1>1. s \in Seq(Output) /\ Len(s) = 1 /\ s[1] = c
  OBVIOUS
<1> HIDE DEF s
<1>2. PICK h : Prints(t, s, h)
  BY <1>1, PrintSteps
<1>3. h[0] = t /\ h[1] = Put(h[1 - 1], c) /\ h[1] = PrintAll(t, s)
  BY <1>1, <1>2 DEF Prints
<1>4. PrintAll(t, s) = Put(t, c)
  <2>1. 1 - 1 = 0
    OBVIOUS
  <2>2. h[1 - 1] = t
    BY <1>3, <2>1
  <2> QED BY <1>3, <2>2
<1> QED BY <1>4 DEF s

\* tty_print of two characters.
LEMMA PrintTwo ==
  ASSUME NEW t, NEW b \in Output, NEW c \in Output
  PROVE  PrintAll(t, <<b, c>>) = Put(Put(t, b), c)
<1> DEFINE s == <<b, c>>
<1>1. s \in Seq(Output) /\ Len(s) = 2 /\ s[1] = b /\ s[2] = c
  OBVIOUS
<1> HIDE DEF s
<1>2. PICK h : Prints(t, s, h)
  BY <1>1, PrintSteps
<1>3. h[0] = t /\ h[1] = Put(h[1 - 1], b) /\ h[2] = Put(h[2 - 1], c) /\ h[2] = PrintAll(t, s)
  BY <1>1, <1>2 DEF Prints
<1>4. PrintAll(t, s) = Put(Put(t, b), c)
  <2>1. 1 - 1 = 0 /\ 2 - 1 = 1
    OBVIOUS
  <2>2. h[1 - 1] = t /\ h[2 - 1] = h[1]
    BY <1>3, <2>1
  <2> QED BY <1>3, <2>2
<1> QED BY <1>4 DEF s

\* Backspace takes the end of a listing, or nothing, from the screen.
LEMMA RuboutKeeps ==
  ASSUME WideEnough, NEW t, Screen(t)
  PROVE  Screen(Rubout(t))
<1> USE SizeAssumption
<1> DEFINE x == t.x - Advance
           U == Under(t.glyphs, x, t.y)
           r == [x |-> x, y |-> t.y, glyphs |-> t.glyphs \ U]
<1>0. t.x \in Nat /\ t.y \in Nat /\ t.glyphs \in SUBSET Cells
  BY DEF Screen
<1>1. CASE ~ (t.x > Left)
  BY <1>1 DEF Rubout
<1>2. CASE t.x > Left
  <2>1. Rubout(t) = r
    <3>1. Rubout(t) = [t EXCEPT !.x = x, !.glyphs = t.glyphs \ U]
      BY <1>2 DEF Rubout
    <3>2. t \in [x : Nat, y : Nat, glyphs : SUBSET Cells]
      BY DEF Screen
    <3> HIDE DEF x, U
    <3> QED BY <3>1, <3>2
  <2>2. \E k \in Nat : x = Left + Advance * k
    <3>1. PICK k \in Nat : t.x = Left + Advance * k
      BY DEF Screen
    <3>2. k - 1 \in Nat /\ x = Left + Advance * (k - 1)
      BY <1>0, <1>2, <3>1 DEF Left, Advance
    <3> HIDE DEF x
    <3> QED BY <3>2
  <2>3. x \in Nat /\ x <= width
    BY <1>0, <2>2 DEF Left, Advance, Screen, WideEnough
  <2>4. ASSUME NEW g \in t.glyphs
        PROVE  g \in U <=> g.y = t.y /\ g.x + Advance > x
    BY <2>3, GlyphType DEF Under, Advance, GlyphHeight
  <2> HIDE DEF U, x
  <2>5. r.x = x /\ r.y = t.y /\ r.glyphs = t.glyphs \ U /\ r \in [x : Nat, y : Nat, glyphs : SUBSET Cells]
    BY <1>0, <2>3
  <2> HIDE DEF r
  <2>6. \A g \in r.glyphs :
          /\ g.x + Advance <= width /\ g.y + GlyphHeight < Height
          /\ (g.y = r.y /\ g.x + Advance <= r.x) \/ g.y + GlyphHeight <= r.y
    <3> TAKE g \in r.glyphs
    <3>1. g \in t.glyphs /\ g \notin U
      BY <2>5
    <3> QED BY <2>3, <2>4, <2>5, <3>1, GlyphType DEF Advance
  <2>7. \E m \in Nat : \E e : Listing(r.glyphs, m, e)
    <3>1. PICK m \in Nat : \E e : Listing(t.glyphs, m, e)
      BY DEF Screen
    <3>2. PICK e : Listing(t.glyphs, m, e)
      BY <3>1
    <3>3. \A i \in 1 .. m : e[i] \in t.glyphs /\ e[i] \in Cells
      BY <3>2 DEF Listing
    <3>4. ASSUME NEW i \in 1 .. m, NEW j \in 1 .. m, i < j, e[i] \in U PROVE e[j] \in U
      <4> DEFINE g == e[i]
                 h == e[j]
      <4>1. Before(g, h) /\ g \in t.glyphs /\ h \in t.glyphs /\ g \in U
        BY <3>2, <3>3, <3>4 DEF Listing
      <4> HIDE DEF g, h
      <4>2. h \in U
        BY <2>3, <2>4, <4>1, GlyphType DEF Before, Advance, GlyphHeight
      <4> QED BY <4>2 DEF h
    <3> DEFINE T == {d \in 0 .. m : \A i \in (d + 1) .. m : e[i] \in U}
    <3>5. m \in T /\ T \in SUBSET Nat
      OBVIOUS
    <3> HIDE DEF T
    <3>6. PICK d \in T : \A z \in T : d <= z
      BY <3>5, LeastNatural
    <3> USE DEF T
    <3>7. d \in 0 .. m /\ \A i \in (d + 1) .. m : e[i] \in U
      OBVIOUS
    <3>8. ASSUME NEW i \in 1 .. d PROVE e[i] \notin U
      <4> SUFFICES ASSUME e[i] \in U PROVE FALSE
        OBVIOUS
      <4>1. \A j \in i .. m : e[j] \in U
        BY <3>4, <3>7
      <4>2. i - 1 \in 0 .. m /\ (i - 1) + 1 = i
        BY <3>7
      <4>3. i - 1 \in T
        BY <4>1, <4>2
      <4>4. d <= i - 1
        BY <3>6, <4>3
      <4> QED BY <3>7, <4>4
    <3> DEFINE f == [i \in 1 .. d |-> e[i]]
    <3>9. f \in [1 .. d -> Cells]
      BY <3>3, <3>7
    <3>10. r.glyphs = {f[i] : i \in 1 .. d}
      <4>1. t.glyphs = {e[i] : i \in 1 .. m}
        BY <3>2 DEF Listing
      <4>2. \A i \in 1 .. m : i \in 1 .. d \/ i \in (d + 1) .. m
        BY <3>7
      <4>3. \A i \in 1 .. d : i \in 1 .. m /\ f[i] = e[i]
        BY <3>7
      <4> HIDE DEF f
      <4> QED BY <2>5, <3>7, <3>8, <4>1, <4>2, <4>3
    <3>11. \A i, j \in 1 .. d : i < j => Before(f[i], f[j])
      BY <3>2, <3>7 DEF Listing
    <3>12. Listing(r.glyphs, d, f) /\ d \in Nat
      <4> HIDE DEF f
      <4> QED BY <3>7, <3>9, <3>10, <3>11 DEF Listing
    <3> QED BY <3>12
  <2>8. Screen(r)
    BY <2>2, <2>3, <2>5, <2>6, <2>7 DEF Screen
  <2> QED BY <2>1, <2>8
<1> QED BY <1>1, <1>2

-----------------------------------------------------------------------------
\* The cursor's row.

\* A listing that ends with the text s in the cursor's row, from its first
\* column on, and has everything else above that row.
EndsInRow(t, s, L, m, e) ==
  /\ Listing(t.glyphs, m, e) /\ L <= m
  /\ \A k \in 1 .. L : e[m - L + k] = Glyph(Left + Advance * (k - 1), t.y, s[k])
  /\ \A i \in 1 .. (m - L) : e[i].y + GlyphHeight <= t.y

\* The text s stands in the cursor's row, up to the cursor.
Row(t, s) ==
  /\ t.x = Left + Advance * Len(s) /\ t.y + GlyphHeight < Height
  /\ \E m \in Nat : \E e : EndsInRow(t, s, Len(s), m, e)

\* Such a screen reads with the text at its end.
LEMMA RowReads ==
  ASSUME NEW t, NEW s \in Seq(Letters), Row(t, s)
  PROVE  IsSuffix(s, Reading(t.glyphs))
<1>1. PICK m \in Nat : \E e : EndsInRow(t, s, Len(s), m, e)
  BY DEF Row
<1>2. PICK e : EndsInRow(t, s, Len(s), m, e)
  BY <1>1
<1> DEFINE r == [n \in 1 .. m |-> e[n].c]
<1>3. Reading(t.glyphs) = r
  BY <1>2, Reads DEF EndsInRow
<1>4. \A n \in 1 .. m : e[n].c \in Letters
  <2> TAKE n \in 1 .. m
  <2>1. e[n] \in Cells
    BY <1>2 DEF Listing, EndsInRow
  <2> QED BY <2>1 DEF Cells
<1>5. r \in Seq(Letters) /\ Len(r) = m /\ \A n \in 1 .. m : r[n] = e[n].c
  BY <1>4
<1> HIDE DEF r
<1>6. \A k \in 1 .. Len(s) : r[Len(r) - Len(s) + k] = s[k]
  <2> TAKE k \in 1 .. Len(s)
  <2>1. m - Len(s) + k \in 1 .. m /\ Len(s) \in Nat
    BY <1>2 DEF EndsInRow
  <2>2. e[m - Len(s) + k] = Glyph(Left + Advance * (k - 1), t.y, s[k])
    BY <1>2 DEF EndsInRow
  <2>3. e[m - Len(s) + k].c = s[k]
    BY <2>2 DEF Glyph
  <2> QED BY <1>5, <2>1, <2>3
<1>7. IsSuffix(s, r)
  BY <1>2, <1>5, <1>6, SuffixIs DEF EndsInRow
<1> QED BY <1>3, <1>7

\* A letter that fits is drawn behind the text.
LEMMA RowDraws ==
  ASSUME WideEnough, NEW t, Screen(t), NEW s \in Seq(Letters), Row(t, s),
         NEW c \in Letters, Left + Advance * (Len(s) + 1) <= width
  PROVE  Screen(Draw(t, c)) /\ Row(Draw(t, c), Append(s, c)) /\ Put(t, c) = Draw(t, c)
<1> USE SizeAssumption
<1> DEFINE L == Len(s)
           r == Draw(t, c)
           n == Glyph(t.x, t.y, c)
           a == Append(s, c)
<1>0. t.x \in Nat /\ t.y \in Nat /\ L \in Nat
  BY DEF Screen
<1>1. t.x = Left + Advance * L /\ t.y + GlyphHeight < Height /\ t.x + Advance <= width
  BY <1>0 DEF Row, Left, Advance
<1>2. Put(t, c) = r
  <2>1. Wrapped(t) = t
    BY <1>0, <1>1 DEF Wrapped, Advance, WideEnough
  <2>2. Scrolled(t) = t
    BY <1>0, <1>1 DEF Scrolled, GlyphHeight
  <2> QED BY <2>1, <2>2, NewLineIsNoLetter DEF Put
<1>3. /\ Screen(r) /\ r.x = t.x + Advance /\ r.y = t.y
      /\ \A m \in Nat : \A e : Listing(t.glyphs, m, e) =>
           Listing(r.glyphs, m + 1, WithLast(m, e, n))
  BY <1>1, DrawKeeps
<1> HIDE DEF r
<1>4. PICK m \in Nat : \E e : EndsInRow(t, s, L, m, e)
  BY DEF Row
<1>5. PICK e : EndsInRow(t, s, L, m, e)
  BY <1>4
<1> USE DEF EndsInRow
<1>6. Len(a) = L + 1 /\ a[L + 1] = c /\ \A k \in 1 .. L : a[k] = s[k]
  OBVIOUS
<1> DEFINE f == WithLast(m, e, n)
<1>7. Listing(r.glyphs, m + 1, f)
  BY <1>3, <1>5
<1>8. f[m + 1] = n /\ \A i \in 1 .. m : f[i] = e[i]
  BY DEF WithLast
<1> HIDE DEF f, a, L
<1>9. \A k \in 1 .. (L + 1) :
        f[(m + 1) - (L + 1) + k] = Glyph(Left + Advance * (k - 1), r.y, a[k])
  <2> TAKE k \in 1 .. (L + 1)
  <2>1. CASE k = L + 1
    <3>1. (m + 1) - (L + 1) + k = m + 1 /\ k - 1 = L
      BY <1>0, <2>1
    <3>2. f[m + 1] = Glyph(Left + Advance * L, r.y, a[k])
      BY <1>1, <1>3, <1>6, <1>8, <2>1
    <3> QED BY <3>1, <3>2
  <2>2. CASE k # L + 1
    <3>1. k \in 1 .. L /\ L <= m
      BY <1>0, <1>5, <2>2
    <3>2. (m + 1) - (L + 1) + k = m - L + k /\ m - L + k \in 1 .. m
      BY <1>0, <3>1
    <3> QED BY <1>3, <1>5, <1>6, <1>8, <3>1, <3>2
  <2> QED BY <2>1, <2>2
<1>10. \A i \in 1 .. ((m + 1) - (L + 1)) : f[i].y + GlyphHeight <= r.y
  <2> TAKE i \in 1 .. ((m + 1) - (L + 1))
  <2>1. i \in 1 .. (m - L) /\ i \in 1 .. m
    BY <1>0, <1>5
  <2> QED BY <1>3, <1>5, <1>8, <2>1
<1>11. r.x = Left + Advance * (L + 1) /\ r.y + GlyphHeight < Height
  BY <1>0, <1>1, <1>3 DEF Left, Advance
<1>12. Row(r, a)
  <2>1. m + 1 \in Nat /\ L + 1 <= m + 1
    BY <1>0, <1>5
  <2>2. EndsInRow(r, a, L + 1, m + 1, f)
    BY <1>7, <1>9, <1>10, <2>1
  <2> HIDE DEF EndsInRow
  <2> QED BY <1>6, <1>11, <2>1, <2>2 DEF Row
<1> QED BY <1>2, <1>3, <1>12 DEF r, a

\* Backspace takes the last letter of the text.
LEMMA RowRubout ==
  ASSUME WideEnough, NEW t, Screen(t), NEW s \in Seq(Letters), NEW c \in Letters,
         Row(t, Append(s, c))
  PROVE  /\ Row(Rubout(t), s)
         /\ \E m \in Nat : \E e, f :
              /\ Listing(t.glyphs, m + 1, e) /\ Listing(Rubout(t).glyphs, m, f)
              /\ e[m + 1].c = c /\ \A i \in 1 .. m : f[i] = e[i]
<1> USE SizeAssumption
<1> DEFINE L == Len(s)
           x == t.x - Advance
           U == Under(t.glyphs, x, t.y)
           r == Rubout(t)
           a == Append(s, c)
<1>0. t.x \in Nat /\ t.y \in Nat /\ L \in Nat /\ t.glyphs \in SUBSET Cells
  BY DEF Screen
<1>1. Len(a) = L + 1 /\ a[L + 1] = c /\ \A k \in 1 .. L : a[k] = s[k]
  OBVIOUS
<1> HIDE DEF a
<1>2. t.x = Left + Advance * (L + 1) /\ t.y + GlyphHeight < Height
  BY <1>1 DEF Row, a
<1>3. x = Left + Advance * L /\ x \in Nat /\ t.x > Left
  BY <1>0, <1>2 DEF Left, Advance
<1>4. r.x = x /\ r.y = t.y /\ r.glyphs = t.glyphs \ U
  <2>1. t \in [x : Nat, y : Nat, glyphs : SUBSET Cells]
    BY DEF Screen
  <2>2. r = [t EXCEPT !.x = x, !.glyphs = t.glyphs \ U]
    BY <1>3 DEF Rubout
  <2> HIDE DEF x, U, r
  <2> QED BY <2>1, <2>2
<1>5. PICK m \in Nat : \E e : EndsInRow(t, a, L + 1, m, e)
  <2>1. Row(t, a)
    BY DEF a
  <2> HIDE DEF L
  <2> QED BY <1>1, <2>1 DEF Row
<1>6. PICK e : EndsInRow(t, a, L + 1, m, e)
  BY <1>5
<1> USE DEF EndsInRow
<1> HIDE DEF r, x, L
<1>7. \A i \in 1 .. m : e[i] \in t.glyphs /\ e[i] \in Cells
  BY <1>6 DEF Listing
<1>8. ASSUME NEW i \in 1 .. m PROVE e[i] \in U <=> i = m
  <2> DEFINE g == e[i]
  <2>1. g \in t.glyphs /\ g.x \in Nat /\ g.y \in Nat
    BY <1>7 DEF Cells
  <2>2. CASE i = m
    <3>1. g = Glyph(Left + Advance * L, t.y, a[L + 1])
      <4>1. L + 1 \in 1 .. (L + 1) /\ m - (L + 1) + (L + 1) = m /\ (L + 1) - 1 = L
        BY <1>0
      <4>2. e[m - (L + 1) + (L + 1)] = Glyph(Left + Advance * ((L + 1) - 1), t.y, a[L + 1])
        BY <1>6, <4>1
      <4> QED BY <2>2, <4>1, <4>2
    <3>2. g.x = x /\ g.y = t.y
      BY <1>3, <3>1 DEF Glyph
    <3> HIDE DEF g
    <3>3. g \in U
      BY <1>0, <1>3, <2>1, <3>2 DEF Under, Advance, GlyphHeight
    <3> QED BY <2>2, <3>3 DEF g
  <2>3. CASE i \in 1 .. (m - (L + 1))
    <3>1. g.y + GlyphHeight <= t.y /\ i # m
      BY <1>0, <1>6, <2>3
    <3> HIDE DEF g
    <3>2. g \notin U
      BY <1>0, <1>3, <2>1, <3>1 DEF Under, Advance, GlyphHeight
    <3> QED BY <3>1, <3>2 DEF g
  <2>4. CASE i \notin 1 .. (m - (L + 1)) /\ i # m
    <3> DEFINE k == i - (m - (L + 1))
    <3>1. k \in 1 .. (L + 1) /\ k <= L /\ m - (L + 1) + k = i
      BY <1>0, <1>6, <2>4
    <3>2. g = Glyph(Left + Advance * (k - 1), t.y, a[k])
      BY <1>6, <3>1
    <3> HIDE DEF k
    <3>3. g.x = Left + Advance * (k - 1)
      BY <3>2 DEF Glyph
    <3> HIDE DEF g
    <3>4. g.x + Advance <= x
      BY <1>0, <1>3, <3>1, <3>3 DEF Left, Advance
    <3>5. g \notin U
      BY <1>0, <1>3, <2>1, <3>4 DEF Under, Advance, GlyphHeight
    <3> QED BY <2>4, <3>5 DEF g
  <2> QED BY <2>2, <2>3, <2>4
<1> DEFINE f == [i \in 1 .. (m - 1) |-> e[i]]
<1>9. m - 1 \in Nat /\ \A i \in 1 .. (m - 1) : i \in 1 .. m /\ i # m /\ f[i] = e[i]
  BY <1>0, <1>6
<1>10. Listing(r.glyphs, m - 1, f)
  <2>1. f \in [1 .. (m - 1) -> Cells]
    BY <1>7, <1>9
  <2>2. r.glyphs = {f[i] : i \in 1 .. (m - 1)}
    <3>1. t.glyphs = {e[i] : i \in 1 .. m}
      BY <1>6 DEF Listing
    <3>2. \A i \in 1 .. m : i = m \/ i \in 1 .. (m - 1)
      OBVIOUS
    <3>3. m \in 1 .. m
      BY <1>0, <1>6
    <3> HIDE DEF f, U
    <3> QED BY <1>4, <1>8, <1>9, <3>1, <3>2, <3>3
  <2>3. \A i, j \in 1 .. (m - 1) : i < j => Before(f[i], f[j])
    BY <1>6, <1>9 DEF Listing
  <2> HIDE DEF f
  <2> QED BY <2>1, <2>2, <2>3 DEF Listing
<1> HIDE DEF f, U
<1>11. \A k \in 1 .. L : f[(m - 1) - L + k] = Glyph(Left + Advance * (k - 1), r.y, s[k])
  <2> TAKE k \in 1 .. L
  <2>1. k \in 1 .. (L + 1) /\ (m - 1) - L + k = m - (L + 1) + k /\ (m - 1) - L + k \in 1 .. (m - 1)
    BY <1>0, <1>6
  <2> QED BY <1>1, <1>4, <1>6, <1>9, <2>1
<1>12. \A i \in 1 .. ((m - 1) - L) : f[i].y + GlyphHeight <= r.y
  <2> TAKE i \in 1 .. ((m - 1) - L)
  <2>1. i \in 1 .. (m - (L + 1)) /\ i \in 1 .. (m - 1)
    BY <1>0, <1>6
  <2> QED BY <1>4, <1>6, <1>9, <2>1
<1>13. L <= m - 1
  BY <1>0, <1>6
<1>14. Row(r, s)
  <2>1. EndsInRow(r, s, L, m - 1, f)
    BY <1>10, <1>11, <1>12, <1>13
  <2> HIDE DEF EndsInRow
  <2> QED BY <1>2, <1>3, <1>4, <1>9, <2>1 DEF Row, L
<1>15. e[(m - 1) + 1].c = c
  <2>1. L + 1 \in 1 .. (L + 1) /\ m - (L + 1) + (L + 1) = m /\ (m - 1) + 1 = m
    BY <1>0
  <2>2. e[m - (L + 1) + (L + 1)] = Glyph(Left + Advance * ((L + 1) - 1), t.y, a[L + 1])
    BY <1>6, <2>1
  <2>3. e[m] = Glyph(Left + Advance * ((L + 1) - 1), t.y, c)
    BY <1>1, <2>1, <2>2
  <2>4. e[m].c = c
    BY <2>3 DEF Glyph
  <2> QED BY <2>1, <2>4
<1>16. Listing(t.glyphs, (m - 1) + 1, e)
  BY <1>6
<1> QED
  <2>1. \E n \in Nat : \E g, h :
          /\ Listing(t.glyphs, n + 1, g) /\ Listing(r.glyphs, n, h)
          /\ g[n + 1].c = c /\ \A i \in 1 .. n : h[i] = g[i]
    <3> DEFINE l == m - 1
    <3>1. /\ l \in Nat /\ Listing(t.glyphs, l + 1, e) /\ Listing(r.glyphs, l, f)
          /\ e[l + 1].c = c /\ \A i \in 1 .. l : f[i] = e[i]
      BY <1>9, <1>10, <1>15, <1>16
    <3> HIDE DEF l
    <3> USE <3>1
    <3> WITNESS l \in Nat
    <3> WITNESS e, f
    <3> QED BY <3>1
  <2> QED BY <1>14, <2>1 DEF r

-----------------------------------------------------------------------------
\* What commands print.

\* The string of a sequence with a NUL is made of its elements.
LEMMA CStringType ==
  ASSUME NEW S, NEW s \in Seq(S), \E n \in 1 .. Len(s) : s[n] = NUL
  PROVE  CString(s) \in Seq(S)
<1> DEFINE T == {n \in 1 .. Len(s) : s[n] = NUL}
           First(n) == s[n] = NUL /\ \A m \in 1 .. (n - 1) : s[m] # NUL
<1>1. Len(s) \in Nat /\ DOMAIN s = 1 .. Len(s)
  OBVIOUS
<1>2. T \in SUBSET Nat /\ T # {}
  OBVIOUS
<1> HIDE DEF T
<1>3. PICK x \in T : \A y \in T : x <= y
  BY <1>2, LeastNatural
<1> USE DEF T
<1>4. x \in DOMAIN s /\ First(x)
  <2>1. \A m \in 1 .. (x - 1) : m \in 1 .. Len(s) /\ ~ (x <= m)
    BY <1>1
  <2> QED BY <1>1, <1>3, <2>1
<1> DEFINE n == CHOOSE z \in DOMAIN s : First(z)
<1>5. n \in 1 .. Len(s)
  BY <1>1, <1>4
<1> HIDE DEF First, n
<1>6. SubSeq(s, 1, n - 1) \in Seq(S)
  <2>1. \A i \in 1 .. (n - 1) : s[i] \in S
    BY <1>1, <1>5
  <2> QED BY <1>1, <1>5, <2>1
<1> QED BY <1>6 DEF CString, First, n

\* What cmd_echo prints is made of characters, whatever it reads.
LEMMA EchoType ==
  ASSUME NEW b \in [1 .. BufferSize -> Chars \cup {NUL}]
  PROVE  EchoArgument(b) \in Seq(Chars \cup {NUL})
<1> USE SizeAssumption
<1> DEFINE S == Chars \cup {NUL}
           q == SubSeq(b, 3, Len(b))
           z == q \o <<NUL>>
           rest == CString(z)
           text == {n \in DOMAIN rest : rest[n] # " "}
<1>1. b \in Seq(S) /\ Len(b) = BufferSize
  OBVIOUS
<1>2. q \in Seq(S)
  <2>1. \A i \in 3 .. BufferSize : b[i] \in S
    OBVIOUS
  <2> QED BY <1>1, <2>1
<1> HIDE DEF q
<1>3. z \in Seq(S) /\ Len(q) + 1 \in 1 .. Len(z) /\ z[Len(q) + 1] = NUL
  <2>1. <<NUL>> \in Seq(S) /\ Len(<<NUL>>) = 1
    OBVIOUS
  <2> QED BY <1>2, <2>1
<1> HIDE DEF z
<1>4. rest \in Seq(S)
  BY <1>3, CStringType
<1> HIDE DEF rest, S
<1>5. CASE text = {}
  <2>1. <<>> \in Seq(S)
    OBVIOUS
  <2>2. EchoArgument(b) = <<>>
    BY <1>5 DEF EchoArgument, rest, z, q
  <2> QED BY <2>1, <2>2 DEF S
<1>6. CASE text # {}
  <2> DEFINE p == CHOOSE n \in text : \A m \in text : n <= m
  <2>1. Len(rest) \in Nat /\ DOMAIN rest = 1 .. Len(rest)
    BY <1>4
  <2>2. text \in SUBSET Nat /\ text \subseteq 1 .. Len(rest)
    <3>1. text \subseteq DOMAIN rest
      OBVIOUS
    <3> HIDE DEF text
    <3> QED BY <2>1, <3>1
  <2> HIDE DEF text
  <2>3. \E n \in text : \A m \in text : n <= m
    BY <1>6, <2>2, LeastNatural
  <2>4. p \in 1 .. Len(rest)
    BY <2>2, <2>3
  <2>5. EchoArgument(b) = SubSeq(rest, p, Len(rest))
    BY <1>6 DEF EchoArgument, rest, z, q, text
  <2> HIDE DEF p
  <2>6. SubSeq(rest, p, Len(rest)) \in Seq(S)
    <3>1. \A i \in p .. Len(rest) : rest[i] \in S
      BY <1>4, <2>1, <2>4
    <3> QED BY <1>4, <2>1, <2>4, <3>1
  <2> QED BY <2>5, <2>6 DEF S
<1> QED BY <1>5, <1>6

\* A text with one more character.
LEMMA Added ==
  ASSUME NEW S, NEW p \in Seq(S), NEW c \in S
  PROVE  /\ Append(p, c) \in Seq(S) /\ Len(Append(p, c)) = Len(p) + 1
         /\ Append(p, c)[Len(p) + 1] = c
         /\ \A i \in 1 .. Len(p) : Append(p, c)[i] = p[i]
  OBVIOUS

\* Texts of one and two characters.
LEMMA ShortText ==
  ASSUME NEW S, NEW b \in S, NEW c \in S
  PROVE  /\ Append(<<>>, b) \in Seq(S) /\ Len(Append(<<>>, b)) = 1
         /\ Append(Append(<<>>, b), c) = <<b, c>>
         /\ <<b, c>> \in Seq(S) /\ Len(<<b, c>>) = 2
<1> DEFINE n == <<>>
           a == Append(n, b)
           d == Append(a, c)
           t == <<b, c>>
<1>1. n \in Seq(S) /\ Len(n) = 0
  OBVIOUS
<1>2. t \in Seq(S) /\ Len(t) = 2 /\ t[1] = b /\ t[2] = c
  OBVIOUS
<1> HIDE DEF n, t
<1>3. a \in Seq(S) /\ Len(a) = 1 /\ a[1] = b
  BY <1>1
<1> HIDE DEF a
<1>4. d \in Seq(S) /\ Len(d) = 2 /\ d[1] = b /\ d[2] = c
  <2>1. d \in Seq(S) /\ Len(d) = Len(a) + 1 /\ d[1] = a[1] /\ d[Len(a) + 1] = c
    <3>1. 1 \in 1 .. Len(a) /\ a \in Seq(S)
      BY <1>3
    <3>2. /\ d \in Seq(S) /\ Len(d) = Len(a) + 1 /\ d[Len(a) + 1] = c
          /\ \A i \in 1 .. Len(a) : d[i] = a[i]
      BY <3>1, Added
    <3> QED BY <3>1, <3>2
  <2>2. Len(a) + 1 = 2
    <3> DEFINE l == Len(a)
    <3>1. l = 1
      BY <1>3
    <3> HIDE DEF l
    <3>2. l + 1 = 2
      BY <3>1
    <3> QED BY <3>2 DEF l
  <2> QED BY <1>3, <2>1, <2>2
<1> HIDE DEF d
<1>5. d = t
  <2>1. \A i \in 1 .. 2 : i = 1 \/ i = 2
    OBVIOUS
  <2> QED BY <1>2, <1>4, <2>1
<1> QED BY <1>2, <1>3, <1>5 DEF d, a, n, t

\* The last character of a text joined from two.
LEMMA AddedLast ==
  ASSUME NEW S, NEW p \in Seq(S), NEW c \in S
  PROVE  p \o <<c>> \in Seq(S) /\ Len(p \o <<c>>) = Len(p) + 1 /\ (p \o <<c>>)[Len(p) + 1] = c
  OBVIOUS

\* The cleared screen.
LEMMA ClearedIsFresh ==
  ASSUME WideEnough
  PROVE  Fresh(Cleared)
<1> DEFINE e == [i \in 1 .. 0 |-> NUL]
<1>1. Cleared.x = Left /\ Cleared.y = 0 /\ Cleared.glyphs = {}
  BY DEF Cleared
<1>2. Cleared \in [x : Nat, y : Nat, glyphs : SUBSET Cells]
  BY DEF Cleared, Left
<1>3. Listing(Cleared.glyphs, 0, e)
  <2>1. \A i \in 1 .. 0 : FALSE
    OBVIOUS
  <2> QED BY <1>1, <2>1 DEF Listing
<1>4. \E m \in Nat : \E f : Listing(Cleared.glyphs, m, f)
  BY <1>3
<1>5. \E k \in Nat : Cleared.x = Left + Advance * k
  BY <1>1, LeftIsColumn
<1>6. Cleared.x <= width
  BY <1>1 DEF WideEnough, Left
<1> QED BY <1>1, <1>2, <1>4, <1>5, <1>6 DEF Fresh, Screen

\* A message leaves a fresh row.
LEMMA MessageFresh ==
  ASSUME WideEnough, NEW t, Screen(t)
  PROVE  Message \in Seq(Output) /\ Fresh(PrintAll(t, Message))
<1> DEFINE s == Message
<1>1. NL \in Output /\ "o" \in Output
  BY DEF Output, Letters
<1>2. s \in Seq(Output) /\ Len(s) > 0 /\ s[Len(s)] = NL
  BY <1>1 DEF Message
<1> HIDE DEF s
<1>3. Fresh(PrintAll(t, s))
  BY <1>2, PrintKeeps
<1> QED BY <1>2, <1>3 DEF s

\* Every command leaves a fresh row for the prompt.
LEMMA EffectsFresh ==
  ASSUME WideEnough, NEW t, Fresh(t), NEW b \in [1 .. BufferSize -> Chars \cup {NUL}],
         CString(b) \in Seq(Letters), NEW r \in Effects(t, b)
  PROVE  Fresh(r)
<1>0. Screen(t)
  BY DEF Fresh
<1>1. Chars \cup {NUL} \subseteq Output /\ NL \in Output /\ Letters \subseteq Output /\ "o" \in Output
  BY DEF Output, Letters
<1>2. CASE r = PrintAll(t, Append(EchoArgument(b), NL))
  <2> DEFINE a == EchoArgument(b)
             s == Append(a, NL)
  <2>1. a \in Seq(Output)
    <3>1. a \in Seq(Chars \cup {NUL})
      BY EchoType
    <3> HIDE DEF a
    <3> QED BY <1>1, <3>1
  <2> HIDE DEF a
  <2>2. s \in Seq(Output) /\ Len(s) > 0 /\ s[Len(s)] = NL
    BY <1>1, <2>1
  <2> HIDE DEF s
  <2>3. Fresh(PrintAll(t, s))
    BY <1>0, <2>2, PrintKeeps
  <2> QED BY <1>2, <2>3 DEF s, a
<1>3. CASE r = PrintAll(t, Message)
  BY <1>0, <1>3, MessageFresh
<1>4. CASE r = PrintAll(t, <<NL>> \o CString(b) \o <<NL>>)
  <2> DEFINE l == CString(b)
             n == <<NL>>
             s == n \o l \o n
  <2>1. n \in Seq(Output) /\ Len(n) = 1 /\ n[1] = NL
    BY <1>1
  <2>2. l \in Seq(Output)
    <3> HIDE DEF l
    <3> QED BY <1>1 DEF l
  <2> HIDE DEF l, n
  <2>3. n \o l \in Seq(Output) /\ Len(n \o l) \in Nat
    BY <2>1, <2>2
  <2> DEFINE p == n \o l
  <2>4. p \o n \in Seq(Output) /\ Len(p \o n) = Len(p) + 1 /\ (p \o n)[Len(p) + 1] = NL
    <3>1. p \in Seq(Output)
      BY <2>3
    <3> HIDE DEF p
    <3>2. p \o <<NL>> \in Seq(Output) /\ Len(p \o <<NL>>) = Len(p) + 1 /\ (p \o <<NL>>)[Len(p) + 1] = NL
      BY <1>1, <3>1, AddedLast
    <3> QED BY <3>2 DEF n
  <2>5. Len(p) + 1 > 0
    BY <2>3
  <2>6. s \in Seq(Output) /\ Len(s) > 0 /\ s[Len(s)] = NL
    BY <2>4, <2>5
  <2> HIDE DEF s
  <2>7. Fresh(PrintAll(t, s))
    BY <1>0, <2>6, PrintKeeps
  <2> QED BY <1>4, <2>7 DEF s, l, n
<1>5. CASE r = Cleared
  BY <1>5, ClearedIsFresh
<1>6. CASE r = t
  BY <1>6
<1> QED BY <1>2, <1>3, <1>4, <1>5, <1>6 DEF Effects

\* Behind a fresh row's start a letter is drawn alone.
LEMMA FreshDraws ==
  ASSUME WideEnough, NEW t, Fresh(t), NEW c \in Letters
  PROVE  Screen(Put(t, c)) /\ Row(Put(t, c), Append(<<>>, c))
<1> USE SizeAssumption
<1> DEFINE r == Scrolled(t)
<1>1. t.x = Left /\ Screen(t)
  BY DEF Fresh
<1>2. Put(t, c) = Draw(r, c)
  <2>1. Wrapped(t) = t
    BY <1>1 DEF Wrapped, Left, Advance, WideEnough
  <2> QED BY <2>1, NewLineIsNoLetter DEF Put
<1>3. Fresh(r) /\ r.y + GlyphHeight < Height
  BY <1>1, ScrolledKeeps
<1> HIDE DEF r
<1>4. Row(r, <<>>)
  <2>1. PICK m \in Nat : \E e : Listing(r.glyphs, m, e)
    BY <1>3 DEF Fresh, Screen
  <2>2. PICK e : Listing(r.glyphs, m, e)
    BY <2>1
  <2>3. Len(<<>>) = 0 /\ m - 0 = m /\ 0 <= m /\ \A k \in 1 .. 0 : FALSE
    OBVIOUS
  <2>4. \A i \in 1 .. m : e[i].y + GlyphHeight <= r.y
    BY <1>3, <2>2 DEF Fresh, Listing
  <2>5. EndsInRow(r, <<>>, 0, m, e)
    BY <2>2, <2>3, <2>4 DEF EndsInRow
  <2>6. r.x = Left + Advance * 0
    BY <1>3 DEF Fresh, Left, Advance
  <2> QED BY <1>3, <2>3, <2>5, <2>6 DEF Row
<1>5. <<>> \in Seq(Letters) /\ Left + Advance * (Len(<<>>) + 1) <= width
  BY DEF Left, Advance, WideEnough
<1> QED BY <1>2, <1>3, <1>4, <1>5, RowDraws DEF Fresh

-----------------------------------------------------------------------------
\* What of a text is shown: its end, behind the first j characters.

Rest(e, j) == SubSeq(e, j + 1, Len(e))

LEMMA RestIs ==
  ASSUME NEW S, NEW e \in Seq(S), NEW j \in 0 .. Len(e)
  PROVE  /\ Rest(e, j) \in Seq(S) /\ Len(Rest(e, j)) = Len(e) - j
         /\ \A i \in 1 .. (Len(e) - j) : Rest(e, j)[i] = e[j + i]
<1>1. Len(e) \in Nat /\ \A i \in (j + 1) .. Len(e) : e[i] \in S
  OBVIOUS
<1>2. Len(Rest(e, j)) = Len(e) - j /\ \A i \in 1 .. (Len(e) - j) : Rest(e, j)[i] = e[j + i]
  BY <1>1 DEF Rest
<1>3. Rest(e, j) \in Seq(S)
  BY <1>1 DEF Rest
<1> QED BY <1>2, <1>3

\* A text longer by one character ends in it.
LEMMA RestAdded ==
  ASSUME NEW S, NEW e \in Seq(S), NEW j \in 0 .. Len(e), NEW c \in S
  PROVE  Rest(Append(e, c), j) = Append(Rest(e, j), c)
<1> DEFINE a == Append(e, c)
           p == Rest(e, j)
           q == Rest(a, j)
           N == Len(e) - j
<1>1. a \in Seq(S) /\ Len(a) = Len(e) + 1 /\ a[Len(e) + 1] = c /\ \A i \in 1 .. Len(e) : a[i] = e[i]
  BY Added
<1>2. N \in Nat /\ Len(e) \in Nat
  OBVIOUS
<1>3. p \in Seq(S) /\ Len(p) = N /\ \A i \in 1 .. N : p[i] = e[j + i]
  BY RestIs
<1>4. q \in Seq(S) /\ Len(q) = N + 1 /\ \A i \in 1 .. (N + 1) : q[i] = a[j + i]
  <2>1. j \in 0 .. Len(a) /\ Len(a) - j = N + 1
    BY <1>1, <1>2
  <2> HIDE DEF a, N
  <2> QED BY <1>1, <2>1, RestIs
<1> DEFINE r == Append(p, c)
<1>5. r \in Seq(S) /\ Len(r) = N + 1 /\ r[N + 1] = c /\ \A i \in 1 .. N : r[i] = p[i]
  BY <1>3, Added
<1>6. j + (N + 1) = Len(e) + 1 /\ \A i \in 1 .. N : j + i \in 1 .. Len(e)
  BY <1>2
<1> HIDE DEF a, p, q, r, N
<1>7. \A i \in 1 .. (N + 1) : q[i] = r[i]
  <2> TAKE i \in 1 .. (N + 1)
  <2>1. CASE i = N + 1
    BY <1>1, <1>4, <1>5, <1>6, <2>1
  <2>2. CASE i # N + 1
    <3>1. i \in 1 .. N
      BY <1>2, <2>2
    <3> QED BY <1>1, <1>3, <1>4, <1>5, <1>6, <3>1
  <2> QED BY <2>1, <2>2
<1>8. q = r
  BY <1>4, <1>5, <1>7
<1> QED BY <1>8 DEF q, r, a, p

\* Behind all of it nothing is left.
LEMMA RestNone ==
  ASSUME NEW S, NEW e \in Seq(S)
  PROVE  Rest(e, Len(e)) = <<>>
<1> DEFINE q == Rest(e, Len(e))
<1>1. Len(e) \in 0 .. Len(e) /\ Len(e) - Len(e) = 0
  OBVIOUS
<1>2. q \in Seq(S) /\ Len(q) = 0
  BY <1>1, RestIs
<1> HIDE DEF q
<1>3. q = <<>>
  BY <1>2
<1> QED BY <1>3 DEF q

\* The screen shows s at its end: in the cursor's row, or s is empty and the
\* cursor at the start of a row yet to be drawn.
Shows(t, s) ==
  \/ Row(t, s)
  \/ s = <<>> /\ t.x = Left /\ \A g \in t.glyphs : g.y + GlyphHeight <= t.y

\* A letter printed is shown behind the end of a text; the text before it
\* stays in the row if there is room for it.
LEMMA ShowsLetter ==
  ASSUME WideEnough, NEW t, Screen(t), NEW e \in Seq(Letters), NEW j \in 0 .. Len(e),
         Shows(t, Rest(e, j)), NEW c \in Letters
  PROVE  \E k \in 0 .. Len(Append(e, c)) :
           /\ Shows(Put(t, c), Rest(Append(e, c), k))
           /\ Left + Advance * (Len(e) + 1) <= width => k = j
<1> DEFINE s == Rest(e, j)
           a == Append(e, c)
<1>0. t.x \in Nat /\ width \in Nat /\ Len(e) \in Nat
  BY DEF Screen, WideEnough
<1>1. s \in Seq(Letters) /\ Len(s) = Len(e) - j
  BY RestIs
<1>2. a \in Seq(Letters) /\ Len(a) = Len(e) + 1 /\ Rest(a, j) = Append(s, c)
  BY Added, RestAdded
<1> HIDE DEF s, a
<1>3. CASE Fresh(t) /\ s = <<>>
  <2>1. Row(Put(t, c), Append(s, c)) /\ j \in 0 .. Len(a)
    BY <1>0, <1>2, <1>3, FreshDraws
  <2> QED BY <1>2, <2>1 DEF Shows, a
<1>4. CASE Row(t, s) /\ t.x + Advance <= width
  <2>1. Left + Advance * (Len(s) + 1) <= width
    BY <1>0, <1>1, <1>4 DEF Row, Left, Advance
  <2>2. Row(Put(t, c), Append(s, c)) /\ j \in 0 .. Len(a)
    BY <1>0, <1>1, <1>2, <1>4, <2>1, RowDraws
  <2> QED BY <1>2, <2>2 DEF Shows, a
<1>5. CASE Row(t, s) /\ ~ (t.x + Advance <= width)
  <2> DEFINE n == Put(t, NL)
  <2>1. Fresh(n)
    BY NewLineKeeps
  <2>2. Put(t, c) = Put(n, c)
    <3>1. Wrapped(t) = n
      <4>1. t.x + Advance > width
        BY <1>0, <1>5 DEF Advance
      <4> QED BY <4>1 DEF Wrapped, Put
    <3>2. n.x = Left
      BY <2>1 DEF Fresh
    <3> HIDE DEF n
    <3>3. Wrapped(n) = n
      BY <3>2 DEF Wrapped, Left, Advance, WideEnough
    <3> QED BY <3>1, <3>3, NewLineIsNoLetter DEF Put
  <2> HIDE DEF n
  <2>3. Row(Put(t, c), Append(<<>>, c))
    BY <2>1, <2>2, FreshDraws
  <2>4. Append(<<>>, c) = Rest(a, Len(e)) /\ Len(e) \in 0 .. Len(a)
    <3>1. Len(e) \in 0 .. Len(e) /\ Rest(e, Len(e)) = <<>>
      BY <1>0, RestNone
    <3>2. Rest(Append(e, c), Len(e)) = Append(Rest(e, Len(e)), c)
      BY <3>1, RestAdded
    <3>3. Len(e) \in 0 .. Len(a)
      BY <1>0, <1>2
    <3> QED BY <3>1, <3>2, <3>3 DEF a
  <2>5. ~ (Left + Advance * (Len(e) + 1) <= width)
    <3>1. t.x = Left + Advance * Len(s)
      BY <1>5 DEF Row
    <3> QED BY <1>0, <1>1, <1>5, <3>1 DEF Left, Advance
  <2> QED BY <2>3, <2>4, <2>5 DEF Shows, a
<1>6. Row(t, s) \/ (Fresh(t) /\ s = <<>>)
  BY DEF Shows, Fresh, s
<1> QED BY <1>3, <1>4, <1>5, <1>6

\* The prompt on a fresh row.
LEMMA PromptShown ==
  ASSUME WideEnough, NEW t, Fresh(t)
  PROVE  /\ Screen(PrintAll(t, Prompt))
         /\ \E k \in 0 .. 2 :
              /\ Shows(PrintAll(t, Prompt), Rest(Prompt, k))
              /\ Left + Advance * 2 <= width => k = 0
<1> DEFINE n == <<>>
           a == Append(n, ">")
           u == Put(t, ">")
           v == Put(u, " ")
<1>1. ">" \in Letters /\ " " \in Letters /\ Letters \subseteq Output
  BY DEF Letters, Chars, Output
<1>2. PrintAll(t, Prompt) = v
  BY <1>1, PrintTwo DEF Prompt
<1>3. n \in Seq(Letters) /\ Len(n) = 0 /\ 0 \in 0 .. Len(n) /\ Rest(n, 0) = n /\ 0 + 1 = 1
  <2>1. n \in Seq(Letters) /\ Len(n) = 0
    OBVIOUS
  <2> HIDE DEF n
  <2>2. Rest(n, Len(n)) = <<>>
    BY <2>1, RestNone
  <2> QED BY <2>1, <2>2 DEF n
<1>4. a \in Seq(Letters) /\ Len(a) = 1 /\ Append(a, " ") = Prompt
  <2> DEFINE g == ">"
             h == " "
  <2>1. g \in Letters /\ h \in Letters /\ a = Append(<<>>, g) /\ Prompt = <<g, h>>
    BY <1>1 DEF Prompt
  <2> HIDE DEF g, h, a
  <2>2. a \in Seq(Letters) /\ Len(a) = 1 /\ Append(a, h) = Prompt
    BY <2>1, ShortText
  <2> QED BY <2>2 DEF h
<1>5. Screen(t) /\ Shows(t, Rest(n, 0))
  BY <1>3 DEF Fresh, Shows
<1>6. Screen(u)
  BY <1>1, <1>5, LetterKeeps
<1>7. Screen(v)
  BY <1>1, <1>6, LetterKeeps
<1> DEFINE ch == ">"
<1>8. ch \in Letters /\ u = Put(t, ch) /\ a = Append(n, ch)
  BY <1>1
<1> HIDE DEF n, a, u, v, ch
<1>9. \E k \in 0 .. Len(Append(n, ch)) :
         /\ Shows(Put(t, ch), Rest(Append(n, ch), k))
         /\ Left + Advance * (Len(n) + 1) <= width => k = 0
  <2>1. n \in Seq(Letters) /\ 0 \in 0 .. Len(n) /\ Screen(t) /\ Shows(t, Rest(n, 0)) /\ ch \in Letters
    BY <1>3, <1>5, <1>8
  <2> QED BY <2>1, ShowsLetter
<1>10. PICK k \in 0 .. Len(a) : Shows(u, Rest(a, k)) /\ (Left + Advance * 1 <= width => k = 0)
  BY <1>3, <1>8, <1>9
<1> DEFINE sp == " "
<1>11. sp \in Letters /\ v = Put(u, sp) /\ Append(a, sp) = Prompt
  BY <1>1, <1>4 DEF v
<1> HIDE DEF sp
<1>12. \E l \in 0 .. Len(Append(a, sp)) :
          /\ Shows(Put(u, sp), Rest(Append(a, sp), l))
          /\ Left + Advance * (Len(a) + 1) <= width => l = k
  <2>1. a \in Seq(Letters) /\ Screen(u) /\ Shows(u, Rest(a, k)) /\ sp \in Letters
    BY <1>4, <1>6, <1>10, <1>11
  <2> QED BY <2>1, ShowsLetter
<1>13. PICK l \in 0 .. Len(Prompt) :
          Shows(v, Rest(Prompt, l)) /\ (Left + Advance * (Len(a) + 1) <= width => l = k)
  BY <1>11, <1>12
<1>14. Len(Prompt) = 2
  BY DEF Prompt
<1>15. ASSUME Left + Advance * 2 <= width PROVE l = 0
  <2>1. Left + Advance * 1 <= width
    BY <1>15 DEF Left, Advance, WideEnough
  <2>2. Left + Advance * (Len(a) + 1) <= width
    <3> DEFINE l1 == Len(a)
    <3>1. l1 = 1
      BY <1>4
    <3> HIDE DEF l1
    <3>2. Left + Advance * (l1 + 1) <= width
      BY <1>15, <3>1
    <3> QED BY <3>2 DEF l1
  <2> QED BY <1>10, <1>13, <2>1, <2>2
<1> QED BY <1>2, <1>7, <1>13, <1>14, <1>15

-----------------------------------------------------------------------------
\* Shell and screen together.

\* What the cursor's row should show.
edited == Prompt \o line

LEMMA ShownText ==
  ASSUME NEW l \in Seq(Chars)
  PROVE  /\ Prompt \o l \in Seq(Letters) /\ Len(Prompt \o l) = Len(l) + 2
         /\ \A c \in Chars : Prompt \o Append(l, c) = Append(Prompt \o l, c)
<1> DEFINE p == Prompt
<1>1. p \in Seq(Letters) /\ Len(p) = 2
  <2> DEFINE g == ">"
             h == " "
  <2>1. g \in Letters /\ h \in Letters /\ p = <<g, h>>
    BY DEF Letters, Chars, Prompt
  <2> HIDE DEF g, h, p
  <2> QED BY <2>1, ShortText
<1>2. l \in Seq(Letters) /\ Chars \subseteq Letters
  BY DEF Letters
<1> HIDE DEF p
<1>3. p \o l \in Seq(Letters) /\ Len(p \o l) = Len(p) + Len(l)
  BY <1>1, <1>2, ConcatProperties
<1>4. ASSUME NEW c \in Chars PROVE p \o Append(l, c) = Append(p \o l, c)
  <2>1. c \in Letters
    BY <1>2
  <2> HIDE DEF Letters
  <2> QED BY <1>1, <1>2, <2>1
<1>5. Len(p) + Len(l) = Len(l) + 2
  BY <1>1
<1> QED BY <1>3, <1>4, <1>5 DEF p

\* What kmain has to print ends a line.
KmainInv == todo \in {Message, <<"o", NL>>, <<NL>>, <<>>}

\* The state of shell and screen.  While kmain is printing, its characters
\* stand among the keys'; once it has finished, the screen ends with what of
\* prompt and line was printed behind the last message or wrap.
ScreenInv ==
  /\ LineInv /\ width \in Widths
  /\ KmainInv /\ cut \in 0 .. (index + 2)
  /\ Screen(tty)
  /\ todo = <<>> => \E j \in 0 .. (index + 2) :
                       Shows(tty, Rest(edited, j)) /\ (LineFitsRow => j = cut)

\* The framebuffer has room for a column.
LEMMA WidthKnown == ASSUME width \in Widths PROVE WideEnough
BY SizeAssumption DEF WideEnough

\* Prompt and line are a text of index + 2 letters.
LEMMA EditedType ==
  ASSUME LineInv
  PROVE  edited \in Seq(Letters) /\ Len(edited) = index + 2
BY LineType, ShownText DEF edited

\* What LineIsShown says of the state follows.
LEMMA ScreenIsShown ==
  ASSUME ScreenInv
  PROVE  LineIsShown
<1>0. LineInv /\ Screen(tty) /\ edited \in Seq(Letters) /\ Len(edited) = index + 2
  BY EditedType DEF ScreenInv
<1>1. TypeOK
  <2>1. tty.x >= Left /\ tty.x <= width /\ tty.y >= 0
    BY DEF ScreenInv, Screen, Left, Advance
  <2>2. \A g \in tty.glyphs : g.x + Advance <= width /\ g.y >= 0 /\ g.y + GlyphHeight <= Height
    <3> TAKE g \in tty.glyphs
    <3>1. g.y \in Nat /\ g.x + Advance <= width /\ g.y + GlyphHeight < Height
      BY GlyphType DEF ScreenInv
    <3> QED BY <3>1, SizeAssumption DEF GlyphHeight
  <2> QED BY <2>1, <2>2 DEF ScreenInv, LineInv, TypeOK
<1>2. ASSUME LineFitsRow, todo = <<>> PROVE IsSuffix(Rest(edited, cut), Reading(tty.glyphs))
  <2> DEFINE s == Rest(edited, cut)
  <2>1. Shows(tty, s)
    BY <1>2 DEF ScreenInv
  <2>2. s \in Seq(Letters)
    BY <1>0, RestIs DEF ScreenInv
  <2> HIDE DEF s
  <2>3. CASE Row(tty, s)
    BY <2>2, <2>3, RowReads DEF s
  <2>4. CASE s = <<>>
    <3>1. PICK m \in Nat : \E e : Listing(tty.glyphs, m, e)
      BY <1>0 DEF Screen
    <3>2. PICK e : Listing(tty.glyphs, m, e)
      BY <3>1
    <3> DEFINE r == [n \in 1 .. m |-> e[n].c]
    <3>3. Reading(tty.glyphs) = r
      BY <3>2, Reads
    <3>4. r \in Seq(Letters)
      <4>1. \A n \in 1 .. m : e[n] \in Cells
        BY <3>2 DEF Listing
      <4> QED BY <4>1 DEF Cells
    <3> HIDE DEF r
    <3>5. Len(s) = 0 /\ Len(s) <= Len(r) /\ \A k \in 1 .. Len(s) : FALSE
      BY <2>4, <3>4
    <3> QED BY <2>2, <3>3, <3>4, <3>5, SuffixIs DEF s
  <2> QED BY <2>1, <2>3, <2>4 DEF Shows, s
<1> QED BY <1>1, <1>2 DEF LineIsShown, Rest, edited

\* What the next state's screen shows, in terms of that state alone.
LEMMA ShowsNext ==
  ASSUME LineInv', width' = width, width \in Widths, KmainInv',
         cut' \in 0 .. (index' + 2), Screen(tty'),
         todo' = <<>> => \E j \in 0 .. (index' + 2) :
                           Shows(tty', Rest(Prompt \o line', j)) /\ (LineFitsRow => j = cut')
  PROVE  ScreenInv'
<1>1. Screen(tty)' <=> Screen(tty')
  BY DEF Screen
<1>2. LineFitsRow' <=> LineFitsRow
  BY DEF LineFitsRow
<1>3. \A j : Shows(tty, Rest(edited, j))' <=> Shows(tty', Rest(Prompt \o line', j))
  BY DEF Shows, Row, EndsInRow, edited
<1> QED BY <1>1, <1>2, <1>3 DEF ScreenInv

\* What a state that keeps its screen and line shows stays the same.
LEMMA SameScreen ==
  ASSUME ScreenInv, LineInv', KmainInv', UNCHANGED <<width, index, line, tty, todo, cut>>
  PROVE  ScreenInv'
<1>1. Screen(tty') /\ width \in Widths /\ cut' \in 0 .. (index' + 2)
  BY DEF ScreenInv
<1>2. todo' = <<>> => \E j \in 0 .. (index' + 2) :
                        Shows(tty', Rest(Prompt \o line', j)) /\ (LineFitsRow => j = cut')
  BY DEF ScreenInv, edited
<1> QED BY <1>1, <1>2, ShowsNext

\* A key that is stored is drawn behind the line (keyboard_handle_scancode).
LEMMA KeyShows ==
  ASSUME ScreenInv, NEW k \in Keys, KeyDown(k)
  PROVE  ScreenInv'
<1> USE SizeAssumption
<1> DEFINE c == Translate(k)
<1>1. /\ WideEnough /\ LineInv /\ Screen(tty) /\ line \in Seq(Chars) /\ Len(line) = index
      /\ edited \in Seq(Letters) /\ Len(edited) = index + 2
      /\ index \in Nat /\ width \in Nat /\ width \in Widths
  BY WidthKnown, LineType, EditedType DEF ScreenInv, LineInv, WideEnough
<1>2. LineInv' /\ c \in Chars /\ c \in Letters /\ c \in Output
  BY <1>1, KeyTypes, TranslateType DEF Letters, Output
<1>3. UNCHANGED <<width, todo, cut>> /\ KmainInv'
  BY DEF KeyDown, ScreenInv, KmainInv
<1>4. CASE index < BufferSize - 1
  <2>1. tty' = PrintAll(tty, <<c>>) /\ index' = index + 1
    BY <1>4 DEF KeyDown
  <2>2. tty' = Put(tty, c)
    BY <1>2, <2>1, PrintOne
  <2>3. line' = Append(line, c)
    <3>1. Editor!Type(c) \/ UNCHANGED <<line, ran>>
      BY <1>1, KeyTypes
    <3>2. Len(line') = index'
      <4>1. (line \in Seq(Chars) /\ Len(line) = index)'
        BY <1>2, LineType, PTL
      <4> QED BY <4>1
    <3>3. index + 1 # index
      BY <1>1
    <3> QED BY <1>1, <2>1, <3>1, <3>2, <3>3 DEF Editor!Type
  <2> HIDE DEF c
  <2>4. Screen(tty')
    BY <1>1, <1>2, <2>2, LetterKeeps
  <2>5. Prompt \o line' = Append(edited, c)
    BY <1>1, <1>2, <2>3, ShownText DEF edited
  <2>6. ASSUME todo' = <<>>
        PROVE  \E l \in 0 .. (index' + 2) :
                 Shows(tty', Rest(Prompt \o line', l)) /\ (LineFitsRow => l = cut')
    <3>1. PICK j \in 0 .. Len(edited) : Shows(tty, Rest(edited, j)) /\ (LineFitsRow => j = cut)
      BY <1>1, <1>3, <2>6 DEF ScreenInv
    <3>2. PICK l \in 0 .. Len(Append(edited, c)) :
            /\ Shows(Put(tty, c), Rest(Append(edited, c), l))
            /\ Left + Advance * (Len(edited) + 1) <= width => l = j
      BY <1>1, <1>2, <3>1, ShowsLetter
    <3>3. LineFitsRow => Left + Advance * (Len(edited) + 1) <= width
      <4> SUFFICES ASSUME LineFitsRow PROVE Left + Advance * (Len(edited) + 1) <= width
        OBVIOUS
      <4>1. Left + Advance * (2 + BufferSize - 1) <= width
        BY DEF LineFitsRow, Prompt
      <4> QED BY <1>1, <1>4, <4>1 DEF Left, Advance
    <3>4. Len(Append(edited, c)) = index' + 2
      <4>1. Len(Append(edited, c)) = Len(edited) + 1
        BY <1>1, <1>2, Added
      <4> QED BY <1>1, <2>1, <4>1
    <3> QED BY <1>3, <2>2, <2>5, <3>1, <3>2, <3>3, <3>4
  <2>7. cut' \in 0 .. (index' + 2)
    BY <1>1, <1>3, <2>1 DEF ScreenInv
  <2> QED BY <1>1, <1>2, <1>3, <2>4, <2>6, <2>7, ShowsNext
<1>5. CASE ~ (index < BufferSize - 1)
  <2>1. UNCHANGED <<tty, line, index>>
    BY <1>5 DEF KeyDown, line
  <2> QED BY <1>2, <1>3, <2>1, SameScreen
<1> QED BY <1>4, <1>5

\* Backspace takes the last character from line and screen alike, or from the
\* line alone where the screen shows nothing of it in the cursor's row.
LEMMA BackspaceTakes ==
  ASSUME ScreenInv, BackspaceDown, index > 0
  PROVE  /\ LineInv' /\ Screen(tty') /\ line = Append(line', buffer[index])
         /\ todo = <<>> =>
              \/ /\ tty' = tty
                 /\ \E j \in 0 .. (index + 2) : j = index + 2 /\ (LineFitsRow => j = cut)
                 /\ Shows(tty', <<>>)
              \/ \E j \in 0 .. (index + 1) :
                   /\ LineFitsRow => j = cut
                   /\ Row(tty, Append(Rest(Prompt \o line', j), buffer[index]))
                   /\ Row(tty', Rest(Prompt \o line', j))
<1> USE SizeAssumption
<1> DEFINE c == buffer[index]
           e == Prompt \o line'
<1>1. /\ WideEnough /\ LineInv /\ Screen(tty) /\ index \in Nat
      /\ edited \in Seq(Letters) /\ Len(edited) = index + 2
  BY WidthKnown, EditedType DEF ScreenInv, LineInv
<1>2. LineInv' /\ index' = index - 1 /\ tty' = Rubout(tty) /\ UNCHANGED buffer
  BY <1>1, BackspaceErases DEF BackspaceDown
<1>3. c \in Chars /\ c \in Letters
  BY <1>1 DEF LineInv, Letters
<1>4. line' \in Seq(Chars) /\ Len(line') = index - 1
  <2>1. (line \in Seq(Chars) /\ Len(line) = index)'
    BY <1>2, LineType, PTL
  <2> QED BY <1>2, <2>1
<1>5. line = Append(line', c)
  <2>1. index - 1 \in 0 .. (BufferSize - 1) /\ index - 1 + 1 = index
    BY <1>1 DEF LineInv
  <2>2. buffer \in [1 .. BufferSize -> Chars \cup {NUL}]
    BY <1>1 DEF LineInv
  <2>3. line = Append(SubSeq(buffer, 1, index - 1), buffer[index])
    BY <2>1, <2>2, SubSeqAppend DEF line
  <2> QED BY <1>2, <2>3 DEF line
<1> HIDE DEF c
<1>6. e \in Seq(Letters) /\ Len(e) = index + 1 /\ edited = Append(e, c)
  <2>1. e \in Seq(Letters) /\ Len(e) = Len(line') + 2 /\ edited = Append(e, c)
    BY <1>3, <1>4, <1>5, ShownText DEF edited
  <2> QED BY <1>1, <1>4, <2>1
<1>7. Screen(tty')
  BY <1>1, <1>2, RuboutKeeps
<1> HIDE DEF e
<1>8. ASSUME todo = <<>>
      PROVE  \/ /\ tty' = tty
                /\ \E j \in 0 .. (index + 2) : j = index + 2 /\ (LineFitsRow => j = cut)
                /\ Shows(tty', <<>>)
             \/ \E j \in 0 .. (index + 1) :
                  /\ LineFitsRow => j = cut
                  /\ Row(tty, Append(Rest(e, j), c))
                  /\ Row(tty', Rest(e, j))
  <2>1. PICK j \in 0 .. (index + 2) : Shows(tty, Rest(edited, j)) /\ (LineFitsRow => j = cut)
    BY <1>8 DEF ScreenInv
  <2>2. CASE j = index + 2
    <3>1. Shows(tty, <<>>)
      BY <1>1, <2>1, <2>2, RestNone
    <3>2. tty.x = Left
      <4>1. Len(<<>>) = 0
        OBVIOUS
      <4>2. CASE Row(tty, <<>>)
        BY <4>1, <4>2 DEF Row, Left, Advance
      <4> QED BY <3>1, <4>2 DEF Shows
    <3>3. tty' = tty
      BY <1>2, <3>2 DEF Rubout, Left
    <3> QED BY <2>1, <2>2, <3>1, <3>3
  <2>3. CASE j # index + 2
    <3>1. j \in 0 .. (index + 1) /\ j \in 0 .. Len(e)
      BY <1>1, <1>6, <2>3
    <3> DEFINE s == Rest(e, j)
    <3>2. s \in Seq(Letters) /\ Rest(edited, j) = Append(s, c)
      BY <1>3, <1>6, <3>1, RestIs, RestAdded
    <3> HIDE DEF s
    <3>3. Append(s, c) # <<>>
      <4> DEFINE a == Append(s, c)
      <4>1. Len(a) = Len(s) + 1 /\ Len(s) \in Nat
        BY <1>3, <3>2, Added
      <4> HIDE DEF a
      <4>2. a # <<>>
        BY <4>1
      <4> QED BY <4>2 DEF a
    <3>4. Row(tty, Append(s, c))
      BY <2>1, <3>2, <3>3 DEF Shows
    <3>5. Row(Rubout(tty), s)
      BY <1>1, <1>3, <3>2, <3>4, RowRubout
    <3> QED BY <1>2, <2>1, <3>1, <3>4, <3>5 DEF s
  <2> QED BY <2>2, <2>3
<1> QED BY <1>2, <1>5, <1>7, <1>8 DEF c, e

\* So screen and line agree as before.
LEMMA BackspaceShows ==
  ASSUME ScreenInv, BackspaceDown
  PROVE  ScreenInv'
<1> USE SizeAssumption
<1>1. /\ LineInv /\ index \in Nat /\ width \in Widths /\ cut \in 0 .. (index + 2)
  BY DEF ScreenInv, LineInv
<1>2. LineInv' /\ UNCHANGED <<width, buffer, todo>> /\ KmainInv'
  BY <1>1, BackspaceErases DEF BackspaceDown, ScreenInv, KmainInv
<1>3. CASE index > 0
  <2>1. /\ index' = index - 1
        /\ cut' = IF cut > 2 + index' THEN 2 + index' ELSE cut
    BY <1>3 DEF BackspaceDown, Prompt
  <2>2. cut' \in 0 .. (index' + 2)
    BY <1>1, <1>3, <2>1
  <2>3. /\ Screen(tty')
        /\ todo = <<>> =>
              \/ /\ tty' = tty
                 /\ \E j \in 0 .. (index + 2) : j = index + 2 /\ (LineFitsRow => j = cut)
                 /\ Shows(tty', <<>>)
              \/ \E j \in 0 .. (index + 1) :
                   /\ LineFitsRow => j = cut
                   /\ Row(tty', Rest(Prompt \o line', j))
    BY <1>3, BackspaceTakes
  <2>4. ASSUME todo' = <<>>
        PROVE  \E j \in 0 .. (index' + 2) :
                 Shows(tty', Rest(Prompt \o line', j)) /\ (LineFitsRow => j = cut')
    <3>1. CASE /\ LineFitsRow => index + 2 = cut
               /\ Shows(tty', <<>>)
      <4>1. LineFitsRow => index' + 2 = cut'
        BY <1>1, <1>3, <2>1, <3>1
      <4>2. Rest(Prompt \o line', index' + 2) = <<>>
        <5>1. (edited \in Seq(Letters) /\ Len(edited) = index + 2)'
          BY <1>2, EditedType, PTL
        <5>2. Prompt \o line' \in Seq(Letters) /\ Len(Prompt \o line') = index' + 2
          BY <5>1 DEF edited
        <5> QED BY <5>2, RestNone
      <4>3. index' + 2 \in 0 .. (index' + 2)
        BY <1>1, <1>3, <2>1
      <4> QED BY <3>1, <4>1, <4>2, <4>3
    <3>2. ASSUME NEW j \in 0 .. (index + 1), LineFitsRow => j = cut,
                 Row(tty', Rest(Prompt \o line', j))
          PROVE  \E i \in 0 .. (index' + 2) :
                   Shows(tty', Rest(Prompt \o line', i)) /\ (LineFitsRow => i = cut')
      <4>1. j \in 0 .. (index' + 2) /\ (LineFitsRow => j = cut')
        BY <1>1, <1>3, <2>1, <3>2
      <4> QED BY <3>2, <4>1 DEF Shows
    <3> QED BY <1>2, <2>3, <2>4, <3>1, <3>2
  <2> QED BY <1>1, <1>2, <2>2, <2>3, <2>4, ShowsNext
<1>4. CASE ~ (index > 0)
  <2>1. UNCHANGED <<tty, line, index, cut>>
    BY <1>4 DEF BackspaceDown, line
  <2> QED BY <1>2, <2>1, SameScreen
<1> QED BY <1>3, <1>4

\* Behind a message nothing of prompt and line is shown.
LEMMA MessageShows ==
  ASSUME ScreenInv, LineInv', UNCHANGED <<width, index, line>>, KmainInv',
         cut' = Len(Prompt) + index, Screen(tty'), todo' = <<>> => Fresh(tty')
  PROVE  ScreenInv'
<1>1. LineInv /\ index \in Nat /\ width \in Widths /\ cut' = index' + 2
  BY DEF ScreenInv, LineInv, Prompt
<1>2. cut' \in 0 .. (index' + 2)
  BY <1>1
<1>3. Rest(Prompt \o line', cut') = <<>>
  BY <1>1, EditedType, RestNone DEF edited
<1>4. ASSUME todo' = <<>>
      PROVE  Shows(tty', Rest(Prompt \o line', cut')) /\ (LineFitsRow => cut' = cut')
  BY <1>3, <1>4 DEF Shows, Fresh
<1> QED BY <1>1, <1>2, <1>4, ShowsNext

\* The network card's handler prints lines of its own.
LEMMA CardShows ==
  ASSUME ScreenInv, CardReports
  PROVE  ScreenInv'
<1>1. WideEnough /\ LineInv /\ Screen(tty)
  BY WidthKnown DEF ScreenInv
<1>2. Screen(tty') /\ Fresh(tty')
  BY <1>1, MessageFresh DEF CardReports, Fresh
<1>3. LineInv' /\ UNCHANGED <<width, index, line>> /\ KmainInv' /\ cut' = Len(Prompt) + index
  BY <1>1 DEF CardReports, LineInv, line, ScreenInv, KmainInv
<1> QED BY <1>2, <1>3, MessageShows

\* kmain's last character ends its line.
LEMMA KmainShows ==
  ASSUME ScreenInv, KmainPrints
  PROVE  ScreenInv'
<1>1. WideEnough /\ LineInv /\ Screen(tty)
  BY WidthKnown DEF ScreenInv
<1> DEFINE o == "o"
<1>2. o \in Output /\ NL \in Output
  BY DEF Output, Letters
<1>3. todo # <<>> /\ tty' = Put(tty, Head(todo)) /\ todo' = Tail(todo)
  BY DEF KmainPrints
<1>4. /\ KmainInv' /\ Head(todo) \in Output
      /\ todo' = <<>> => Head(todo) = NL
  <2> DEFINE n == NL
  <2>1. todo \in {<<n, o, n>>, <<o, n>>, <<n>>}
    BY <1>3 DEF ScreenInv, KmainInv, Message
  <2>2. n \in Output /\ o \in Output
    BY <1>2
  <2> HIDE DEF n, o
  <2>3. CASE todo = <<n, o, n>>
    <3>1. Head(todo) = n /\ Tail(todo) = <<o, n>>
      BY <2>2, <2>3
    <3>2. <<o, n>> # <<>>
      OBVIOUS
    <3> QED BY <1>3, <2>2, <3>1, <3>2 DEF KmainInv, n, o
  <2>4. CASE todo = <<o, n>>
    <3>1. Head(todo) = o /\ Tail(todo) = <<n>>
      BY <2>2, <2>4
    <3>2. <<n>> # <<>>
      OBVIOUS
    <3> QED BY <1>3, <2>2, <3>1, <3>2 DEF KmainInv, n
  <2>5. CASE todo = <<n>>
    <3>1. Head(todo) = n /\ Tail(todo) = <<>>
      BY <2>2, <2>5
    <3> QED BY <1>3, <2>2, <3>1 DEF KmainInv, n
  <2> QED BY <2>1, <2>3, <2>4, <2>5
<1>5. Screen(tty')
  BY <1>1, <1>3, <1>4, PutKeeps
<1>6. todo' = <<>> => Fresh(tty')
  BY <1>1, <1>3, <1>4, NewLineKeeps
<1>7. LineInv' /\ UNCHANGED <<width, index, line>> /\ cut' = Len(Prompt) + index
  BY <1>1 DEF KmainPrints, LineInv, line
<1> QED BY <1>4, <1>5, <1>6, <1>7, MessageShows

\* Enter leaves the prompt on a fresh row, whatever the command prints.
LEMMA EnterShows ==
  ASSUME ScreenInv, EnterDown
  PROVE  ScreenInv'
<1> USE SizeAssumption
<1> DEFINE b == [buffer EXCEPT ![index + 1] = NUL]
           fresh == Put(tty, NL)
<1>1. WideEnough /\ width \in Widths /\ LineInv /\ Screen(tty)
  BY WidthKnown DEF ScreenInv
<1>2. LineInv'
  BY <1>1, EnterHandsOver
<1>3. /\ UNCHANGED <<width, todo>> /\ KmainInv' /\ index' = 0 /\ cut' = 0
      /\ Execute(b)
  BY DEF EnterDown, ScreenInv, KmainInv
<1>4. Fresh(fresh)
  BY <1>1, NewLineKeeps
<1>5. /\ b \in [1 .. BufferSize -> Chars \cup {NUL}]
      /\ index + 1 \in 1 .. BufferSize /\ b[index + 1] = NUL
  BY <1>1 DEF LineInv
<1>6. CString(b) \in Seq(Letters)
  <2> HIDE DEF b
  <2>1. b \in Seq(Chars \cup {NUL}) /\ Len(b) = BufferSize
    BY <1>5
  <2>2. CString(b) \in Seq(Chars \cup {NUL})
    BY <1>5, <2>1, CStringType
  <2> QED BY <2>2 DEF Letters
<1>7. \E t : Fresh(t) /\ tty' = PrintAll(t, Prompt)
  <2> HIDE DEF b, fresh
  <2>1. CASE index > 0
    <3>1. PICK t \in Effects(fresh, b) : tty' = PrintAll(t, Prompt)
      BY <1>3, <2>1 DEF Execute, fresh
    <3>2. Fresh(t)
      BY <1>1, <1>4, <1>5, <1>6, EffectsFresh
    <3> QED BY <3>1, <3>2
  <2>2. CASE ~ (index > 0)
    <3>1. tty' = PrintAll(fresh, Prompt)
      BY <1>3, <2>2 DEF Execute, fresh
    <3> QED BY <1>4, <3>1
  <2> QED BY <2>1, <2>2
<1>8. PICK t : Fresh(t) /\ tty' = PrintAll(t, Prompt)
  BY <1>7
<1>9. /\ Screen(tty')
      /\ \E k \in 0 .. 2 : Shows(tty', Rest(Prompt, k)) /\ (Left + Advance * 2 <= width => k = 0)
  BY <1>1, <1>8, PromptShown
<1>10. Prompt \o line' = Prompt
  <2>1. (line \in Seq(Chars) /\ Len(line) = index)'
    BY <1>2, LineType, PTL
  <2>2. line' = <<>>
    BY <1>3, <2>1
  <2> QED BY <2>2 DEF Prompt
<1>11. LineFitsRow => Left + Advance * 2 <= width
  <2> SUFFICES ASSUME LineFitsRow PROVE Left + Advance * 2 <= width
    OBVIOUS
  <2>1. Left + Advance * (2 + BufferSize - 1) <= width
    BY DEF LineFitsRow, Prompt
  <2> QED BY <1>1, <2>1 DEF Left, Advance, WideEnough
<1>12. index' + 2 = 2 /\ cut' \in 0 .. (index' + 2)
  BY <1>3
<1>13. \E j \in 0 .. (index' + 2) :
          Shows(tty', Rest(Prompt \o line', j)) /\ (LineFitsRow => j = cut')
  BY <1>3, <1>9, <1>10, <1>11, <1>12
<1> QED BY <1>1, <1>2, <1>3, <1>9, <1>12, <1>13, ShowsNext

\* init_shell's prompt stands on the screen that kmain's first messages left.
LEMMA ScreenInvInit == Init => ScreenInv
<1> SUFFICES ASSUME Init PROVE ScreenInv
  OBVIOUS
<1>1. LineInv /\ width \in Widths /\ index = 0 /\ cut = 0 /\ WideEnough
  BY SizeAssumption, WidthKnown DEF Init, LineInv, EmptyBuffer
<1>2. todo # <<>> /\ KmainInv
  BY DEF Init, KmainInv, Message
<1>3. Screen(tty)
  <2> DEFINE s == Message \o Prompt
  <2>1. s \in Seq(Output)
    <3>1. Message \in Seq(Output)
      BY <1>1, ClearedIsFresh, MessageFresh DEF Fresh
    <3>2. Prompt \in Seq(Output)
      BY DEF Prompt, Output, Letters, Chars
    <3> QED BY <3>1, <3>2, ConcatProperties
  <2> HIDE DEF s
  <2>2. Screen(PrintAll(Cleared, s))
    BY <1>1, <2>1, ClearedIsFresh, PrintKeeps DEF Fresh
  <2> QED BY <2>2 DEF Init, s
<1> QED BY <1>1, <1>2, <1>3 DEF ScreenInv

\* What is printed on the screen keeps screen and line in agreement.
LEMMA ScreenInvStep == ScreenInv /\ [Next]_vars => ScreenInv'
<1> SUFFICES ASSUME ScreenInv, [Next]_vars PROVE ScreenInv'
  OBVIOUS
<1>1. CASE KmainPrints
  BY <1>1, KmainShows
<1>2. CASE CardReports
  BY <1>2, CardShows
<1>3. CASE ShiftDown \/ ShiftUp \/ CapsDown
  <2>1. LineInv' /\ KmainInv' /\ UNCHANGED <<width, index, line, tty, todo, cut>>
    BY <1>3 DEF ShiftDown, ShiftUp, CapsDown, ScreenInv, LineInv, KmainInv, line
  <2> QED BY <2>1, SameScreen
<1>4. ASSUME NEW k \in Keys, KeyDown(k) PROVE ScreenInv'
  BY <1>4, KeyShows
<1>5. CASE BackspaceDown
  BY <1>5, BackspaceShows
<1>6. CASE EnterDown
  BY <1>6, EnterShows
<1>7. CASE UNCHANGED vars
  <2>1. LineInv' /\ KmainInv' /\ UNCHANGED <<width, index, line, tty, todo, cut>>
    BY <1>7 DEF vars, ScreenInv, LineInv, KmainInv, line
  <2> QED BY <2>1, SameScreen
<1> QED BY <1>1, <1>2, <1>3, <1>4, <1>5, <1>6, <1>7 DEF Next

\* Once kmain has finished, the screen ends with what was printed of prompt and
\* command line since another's message, at every width of screen that has
\* room for them in a row (keyboard.cpp, shell.cpp and tty.cpp).
THEOREM LineIsShownHolds == Spec => []LineIsShown
<1> QED BY ScreenInvInit, ScreenInvStep, ScreenIsShown, PTL DEF Spec

\* A screen whose last letter is rubbed out reads without it.
LEMMA RuboutReads ==
  ASSUME WideEnough, NEW t, Screen(t), NEW s \in Seq(Letters), NEW c \in Letters,
         Row(t, Append(s, c))
  PROVE  Reading(t.glyphs) = Append(Reading(Rubout(t).glyphs), c)
<1>1. PICK m \in Nat : \E e, f :
         /\ Listing(t.glyphs, m + 1, e) /\ Listing(Rubout(t).glyphs, m, f)
         /\ e[m + 1].c = c /\ \A i \in 1 .. m : f[i] = e[i]
  BY RowRubout
<1>2. PICK e, f :
         /\ Listing(t.glyphs, m + 1, e) /\ Listing(Rubout(t).glyphs, m, f)
         /\ e[m + 1].c = c /\ \A i \in 1 .. m : f[i] = e[i]
  BY <1>1
<1> DEFINE r == [n \in 1 .. (m + 1) |-> e[n].c]
           q == [n \in 1 .. m |-> f[n].c]
<1>3. Reading(t.glyphs) = r
  <2>1. m + 1 \in Nat
    OBVIOUS
  <2> QED BY <1>2, <2>1, Reads
<1>4. Reading(Rubout(t).glyphs) = q
  BY <1>2, Reads
<1>5. \A n \in 1 .. (m + 1) : e[n].c \in Letters
  <2> TAKE n \in 1 .. (m + 1)
  <2>1. e[n] \in Cells
    BY <1>2 DEF Listing
  <2> QED BY <2>1 DEF Cells
<1>6. r \in Seq(Letters) /\ Len(r) = m + 1 /\ \A n \in 1 .. (m + 1) : r[n] = e[n].c
  BY <1>5
<1>7. q \in Seq(Letters) /\ Len(q) = m /\ \A n \in 1 .. m : q[n] = e[n].c
  <2>1. \A n \in 1 .. m : f[n].c = e[n].c /\ f[n].c \in Letters
    BY <1>2, <1>5
  <2> QED BY <2>1
<1> HIDE DEF r, q
<1> DEFINE a == Append(q, c)
<1>8. a \in Seq(Letters) /\ Len(a) = m + 1 /\ a[m + 1] = c /\ \A n \in 1 .. m : a[n] = q[n]
  BY <1>7, Added
<1> HIDE DEF a
<1>9. \A n \in 1 .. (m + 1) : r[n] = a[n]
  <2> TAKE n \in 1 .. (m + 1)
  <2>1. CASE n = m + 1
    BY <1>2, <1>6, <1>8, <2>1
  <2>2. CASE n # m + 1
    <3>1. n \in 1 .. m
      BY <2>2
    <3> QED BY <1>6, <1>7, <1>8, <3>1
  <2> QED BY <2>1, <2>2
<1>10. r = a
  BY <1>6, <1>8, <1>9
<1> QED BY <1>3, <1>4, <1>10 DEF a

\* A backspace takes from the screen the character it takes from the line, or
\* nothing: never the prompt or another's message (keyboard.cpp's guard on
\* cmd_buffer_index and tty_putc's on the left edge), once kmain has finished.
THEOREM BackspaceTakesItsOwnHolds == Spec => BackspaceTakesItsOwn
<1> DEFINE Own == todo = <<>> /\ index' < index /\ buffer' = buffer =>
       Reading(tty.glyphs) \in {Reading(tty'.glyphs), Append(Reading(tty'.glyphs), line[index])}
<1>1. ScreenInv /\ [Next]_vars => [Own]_vars
  <2> SUFFICES ASSUME ScreenInv, Next, todo = <<>>, index' < index, buffer' = buffer
               PROVE  Reading(tty.glyphs) \in {Reading(tty'.glyphs), Append(Reading(tty'.glyphs), line[index])}
    OBVIOUS
  <2>1. /\ LineInv /\ WideEnough /\ Screen(tty) /\ index \in Nat
        /\ BufferSize \in Nat /\ index < BufferSize
    BY WidthKnown, SizeAssumption DEF ScreenInv, LineInv
  <2>2. BackspaceDown /\ index > 0
    <3>1. ~ KmainPrints /\ ~ CardReports /\ ~ ShiftDown /\ ~ ShiftUp /\ ~ CapsDown
      BY <2>1 DEF KmainPrints, CardReports, ShiftDown, ShiftUp, CapsDown
    <3>2. \A k \in Keys : ~ KeyDown(k)
      BY <2>1 DEF KeyDown
    <3>3. ~ EnterDown
      <4> SUFFICES ASSUME EnterDown PROVE FALSE
        OBVIOUS
      <4>1. index' = 0 /\ buffer' = EmptyBuffer
        BY DEF EnterDown
      <4>2. 1 \in 1 .. index /\ 1 \in 1 .. BufferSize
        BY <2>1, <4>1
      <4>3. buffer[1] \in Chars /\ buffer[1] = NUL
        BY <2>1, <4>1, <4>2 DEF LineInv, EmptyBuffer
      <4> QED BY <4>3, NulIsNoChar
    <3>4. BackspaceDown
      BY <3>1, <3>2, <3>3 DEF Next
    <3> QED BY <2>1, <3>4 DEF BackspaceDown
  <2> DEFINE c == buffer[index]
  <2>3. c \in Chars /\ c \in Letters /\ line[index] = c
    <3>1. index \in 1 .. index /\ buffer \in Seq(Chars \cup {NUL}) /\ Len(buffer) = BufferSize
      BY <2>1, <2>2 DEF LineInv
    <3> QED BY <2>1, <3>1 DEF LineInv, Letters, line
  <2> HIDE DEF c
  <2>4. CASE tty' = tty
    BY <2>4
  <2>5. ASSUME NEW j \in 0 .. (index + 1), Row(tty, Append(Rest(Prompt \o line', j), c))
        PROVE  Reading(tty.glyphs) = Append(Reading(tty'.glyphs), c)
    <3> DEFINE s == Rest(Prompt \o line', j)
    <3>1. s \in Seq(Letters)
      <4>1. (edited \in Seq(Letters) /\ Len(edited) = index + 2)'
        <5>1. LineInv'
          BY <2>1, <2>2, BackspaceErases
        <5> QED BY <5>1, EditedType, PTL
      <4>2. index' = index - 1
        BY <2>2 DEF BackspaceDown
      <4>3. Prompt \o line' \in Seq(Letters) /\ Len(Prompt \o line') = index + 1
        BY <2>1, <4>1, <4>2 DEF edited
      <4> QED BY <4>3, RestIs
    <3>2. tty' = Rubout(tty)
      BY <2>2 DEF BackspaceDown
    <3> HIDE DEF s
    <3> QED BY <2>1, <2>3, <2>5, <3>1, <3>2, RuboutReads DEF s
  <2> QED BY <2>2, <2>3, <2>4, <2>5, BackspaceTakes DEF c
<1> QED BY <1>1, ScreenInvInit, ScreenInvStep, PTL DEF Spec, BackspaceTakesItsOwn

\* A key stored adds its character at the end of what the screen shows.
LEMMA KeyKeepsText ==
  ASSUME ScreenInv, NEW k \in Keys, KeyDown(k), index' > index
  PROVE  IsSuffix(Reading(tty'.glyphs), Append(Reading(tty.glyphs), buffer'[index']))
<1> USE SizeAssumption
<1> DEFINE c == Translate(k)
<1>1. WideEnough /\ LineInv /\ Screen(tty)
  BY WidthKnown DEF ScreenInv
<1>2. c \in Letters /\ c \in Output
  BY TranslateType DEF Letters, Output
<1>3. index \in Nat /\ index < BufferSize - 1
  BY <1>1 DEF KeyDown, LineInv
<1>4. tty' = PrintAll(tty, <<c>>) /\ index' = index + 1 /\ buffer' = [buffer EXCEPT ![index + 1] = c]
  BY <1>3 DEF KeyDown
<1>5. buffer'[index'] = c
  BY <1>1, <1>3, <1>4 DEF LineInv
<1>6. tty' = Put(tty, c)
  BY <1>2, <1>4, PrintOne
<1> HIDE DEF c
<1>7. PICK m \in Nat : \E e : Listing(tty.glyphs, m, e)
  BY <1>1 DEF Screen
<1>8. PICK e : Listing(tty.glyphs, m, e)
  BY <1>7
<1>9. PICK d \in 0 .. m : \E f :
        /\ Listing(Put(tty, c).glyphs, m - d + 1, f)
        /\ \A i \in 1 .. (m - d) : f[i].c = e[d + i].c
        /\ f[m - d + 1].c = c
  <2>1. KeepsEndAnd(tty.glyphs, Put(tty, c).glyphs, c)
    BY <1>1, <1>2, LetterKeeps
  <2> QED BY <1>8, <2>1 DEF KeepsEndAnd
<1>10. PICK f :
        /\ Listing(Put(tty, c).glyphs, m - d + 1, f)
        /\ \A i \in 1 .. (m - d) : f[i].c = e[d + i].c
        /\ f[m - d + 1].c = c
  BY <1>9
<1> DEFINE N == m - d + 1
           r == [n \in 1 .. m |-> e[n].c]
           q == [n \in 1 .. N |-> f[n].c]
           a == Append(r, c)
<1>11. N \in Nat /\ N <= m + 1
  OBVIOUS
<1>12. Reading(tty.glyphs) = r /\ Reading(tty'.glyphs) = q
  BY <1>6, <1>8, <1>10, <1>11, Reads
<1>13. r \in Seq(Letters) /\ Len(r) = m /\ \A n \in 1 .. m : r[n] = e[n].c
  <2>1. \A n \in 1 .. m : e[n] \in Cells
    BY <1>8 DEF Listing
  <2>2. \A n \in 1 .. m : e[n].c \in Letters
    BY <2>1 DEF Cells
  <2> QED BY <2>2
<1>14. q \in Seq(Letters) /\ Len(q) = N /\ \A n \in 1 .. N : q[n] = f[n].c
  <2>1. \A n \in 1 .. N : f[n] \in Cells
    BY <1>10 DEF Listing
  <2>2. \A n \in 1 .. N : f[n].c \in Letters
    BY <2>1 DEF Cells
  <2> HIDE DEF N
  <2> QED BY <1>11, <2>2
<1> HIDE DEF r, q
<1>15. a \in Seq(Letters) /\ Len(a) = m + 1 /\ a[m + 1] = c /\ \A n \in 1 .. m : a[n] = r[n]
  BY <1>2, <1>13, Added
<1> HIDE DEF a
<1>16. \A n \in 1 .. N : a[(m + 1) - N + n] = q[n]
  <2> TAKE n \in 1 .. N
  <2>1. CASE n = N
    <3>1. (m + 1) - N + n = m + 1
      BY <1>11, <2>1
    <3> QED BY <1>10, <1>14, <1>15, <2>1, <3>1
  <2>2. CASE n # N
    <3>1. n \in 1 .. (m - d) /\ (m + 1) - N + n = d + n /\ d + n \in 1 .. m
      BY <2>2
    <3> HIDE DEF N
    <3> QED BY <1>10, <1>13, <1>14, <1>15, <3>1
  <2> QED BY <2>1, <2>2
<1>17. IsSuffix(q, a)
  <2> HIDE DEF N
  <2> QED BY <1>11, <1>14, <1>15, <1>16, SuffixIs
<1> QED BY <1>5, <1>12, <1>17 DEF a

\* Typing only adds to the screen, but for what scrolls off its top.
THEOREM TypingKeepsTextHolds == Spec => TypingKeepsText
<1> DEFINE Kept == index' > index =>
       IsSuffix(Reading(tty'.glyphs), Append(Reading(tty.glyphs), buffer'[index']))
<1>1. ScreenInv /\ [Next]_vars => [Kept]_vars
  <2> SUFFICES ASSUME ScreenInv, Next, index' > index PROVE Kept
    OBVIOUS
  <2>1. index \in Nat
    BY DEF ScreenInv, LineInv
  <2>2. ASSUME NEW k \in Keys, KeyDown(k) PROVE Kept
    BY <2>2, KeyKeepsText
  <2>3. ~ BackspaceDown /\ ~ EnterDown /\ ~ CapsDown
    BY <2>1 DEF BackspaceDown, EnterDown, CapsDown
  <2>4. ~ ShiftDown /\ ~ ShiftUp /\ ~ KmainPrints /\ ~ CardReports
    BY <2>1 DEF ShiftDown, ShiftUp, KmainPrints, CardReports
  <2> HIDE DEF Kept
  <2> QED BY <2>2, <2>3, <2>4 DEF Next
<1> QED BY <1>1, ScreenInvInit, ScreenInvStep, PTL DEF Spec, TypingKeepsText
=============================================================================
