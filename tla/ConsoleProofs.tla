---------------------------- MODULE ConsoleProofs ----------------------------
(***************************************************************************)
(* What holds of the console for any size of the screen, any text and any  *)
(* number of keys, in every interleaving of the thread's loads and stores  *)
(* with the keyboard interrupt.                                            *)
(***************************************************************************)
EXTENDS Console, Induction, SequenceTheorems

Words == 0..(WordSize - 1)
Beyond == UNION {Range(junk) : junk \in Behind}     \* what full_system_panic may run on to
Glyphs ==
  Range(Letters) \union Range(PanicText) \union Beyond \union Controls
    \union {"newline", "return", "erase", "tab", "k", "K", "nul", Blank, Bar, Warning}
Screens == [Cells -> Glyphs]
Consoles == [screen : Screens, x : Words, y : Words]

-----------------------------------------------------------------------------
(* Where the cells of a row lie.                                            *)
LEMMA Product ==
  ASSUME NEW a \in Nat, NEW b \in Nat
  PROVE  a * b \in Nat
  OBVIOUS

LEMMA RowStart ==
  ASSUME NEW row \in 0..(Rows - 1)
  PROVE  /\ row * Columns \in Nat /\ Rows * Columns \in Nat
         /\ row * Columns + Columns <= Rows * Columns
         /\ row > 0 => row * Columns >= Columns
<1>1. Columns \in Nat /\ Rows \in Nat /\ row \in Nat /\ Rows - 1 - row \in Nat
  BY ConsoleParameters
<1>2. (Rows - 1 - row) * Columns \in Nat /\ row * Columns \in Nat /\ Rows * Columns \in Nat
  BY <1>1, Product
<1>3. (Rows - 1 - row) * Columns = Rows * Columns - Columns - row * Columns
  BY <1>1
<1>4. row > 0 => (row - 1) * Columns \in Nat
  BY <1>1, Product
<1>5. (row - 1) * Columns = row * Columns - Columns
  BY <1>1
<1> QED BY <1>1, <1>2, <1>3, <1>4, <1>5

LEMMA SizeFits ==
  /\ Columns \in Nat \ {0} /\ Rows \in Nat /\ Rows > 2 /\ WordSize \in Nat
  /\ Rows * Columns \in Nat /\ Rows * Columns + Columns + 4 < WordSize
  /\ Rows <= Rows * Columns /\ 3 * Columns <= Rows * Columns
<1>1. Columns \in Nat \ {0} /\ Rows \in Nat /\ Rows > 2 /\ WordSize \in Nat
      /\ (Rows + 1) * Columns + 4 < WordSize
  BY ConsoleParameters
<1>2. Rows * Columns \in Nat /\ Rows * (Columns - 1) \in Nat /\ (Rows - 3) * Columns \in Nat
  BY <1>1, Product
<1>3. /\ (Rows + 1) * Columns = Rows * Columns + Columns
      /\ Rows * (Columns - 1) = Rows * Columns - Rows
      /\ (Rows - 3) * Columns = Rows * Columns - 3 * Columns
  BY <1>1
<1> QED BY <1>1, <1>2, <1>3

LEMMA RowOfCell ==
  ASSUME NEW c \in Nat
  PROVE  /\ c < Columns => c \div Columns = 0
         /\ c \div Columns \in Nat
         /\ \A row \in Nat : c \div Columns = row =>
              row * Columns <= c /\ c < row * Columns + Columns
  BY ConsoleParameters
LEMMA WordRange ==
  /\ \A n \in Int : Word(n) \in Words
  /\ \A n \in Words : Word(n) = n
  BY SizeFits DEF Word, Words

(* The cell of a place on the screen, or just behind a row of it.           *)
LEMMA IndexIs ==
  ASSUME NEW s \in Consoles,
         s.y \in 0..Rows, s.x <= Columns + 4, s.x < Columns \/ s.y < Rows
  PROVE  /\ Index(s) = s.y * Columns + s.x /\ Index(s) \in Nat
         /\ s.y > 0 => Index(s) >= Columns
         /\ s.x < Columns /\ s.y < Rows => Index(s) \in Cells
<1>1. s.y \in Nat /\ s.x \in Nat
  BY DEF Consoles, Words
<1>2. CASE s.y < Rows
  <2>1. s.y \in 0..(Rows - 1)
    BY <1>1, <1>2, SizeFits
  <2>2. /\ s.y * Columns \in Nat /\ s.y * Columns + Columns <= Rows * Columns
        /\ s.y > 0 => s.y * Columns >= Columns
    BY <2>1, RowStart
  <2> DEFINE start == s.y * Columns
             size  == Rows * Columns
  <2>3. start + s.x \in Words
    <3>1. /\ start \in Nat /\ size \in Nat /\ start + Columns <= size
          /\ size + Columns + 4 < WordSize /\ Columns \in Nat /\ WordSize \in Nat
      BY <2>2, SizeFits
    <3> HIDE DEF start, size
    <3> QED BY <1>1, <3>1 DEF Words
  <2>4. Index(s) = start + s.x
    BY <2>3, WordRange DEF Index
  <2>5. s.x < Columns => start + s.x \in 0..(size - 1)
    <3>1. start \in Nat /\ size \in Nat /\ start + Columns <= size /\ Columns \in Nat
      BY <2>2, SizeFits
    <3> HIDE DEF start, size
    <3> QED BY <1>1, <3>1
  <2>6. Index(s) = s.y * Columns + s.x
    BY <2>4
  <2>7. start \in Nat /\ (s.y > 0 => start >= Columns) /\ Columns \in Nat
    BY <2>2, SizeFits
  <2>8. s.x < Columns => Index(s) \in Cells
    BY <2>4, <2>5 DEF Cells
  <2> HIDE DEF start
  <2>9. Index(s) \in Nat /\ (s.y > 0 => Index(s) >= Columns)
    BY <1>1, <2>4, <2>7
  <2> QED BY <2>6, <2>8, <2>9
<1>3. CASE s.y = Rows
  <2> DEFINE size == Rows * Columns
  <2>1. /\ size \in Nat /\ size + Columns + 4 < WordSize /\ 3 * Columns <= size
        /\ Columns \in Nat /\ WordSize \in Nat /\ Rows \in Nat
    BY SizeFits
  <2>2. s.y * Columns = size
    BY <1>3
  <2> HIDE DEF size
  <2>3. size + s.x \in Words
    BY <1>1, <1>3, <2>1 DEF Words
  <2>4. Index(s) = size + s.x
    BY <2>2, <2>3, WordRange DEF Index
  <2>5. Index(s) = s.y * Columns + s.x
    BY <2>2, <2>4
  <2>6. Index(s) \in Nat /\ Index(s) >= Columns /\ ~(s.y < Rows)
    BY <1>1, <1>3, <2>1, <2>4
  <2> QED BY <2>5, <2>6
<1> QED BY <1>1, <1>2, <1>3, SizeFits

-----------------------------------------------------------------------------
(* The pieces of kputc (vga.c:79-139).                                      *)
LEMMA StoreIs ==
  ASSUME NEW s \in Consoles, NEW i \in Int, NEW glyph \in Glyphs
  PROVE  /\ Store(s, i, glyph) \in Consoles
         /\ Store(s, i, glyph).x = s.x /\ Store(s, i, glyph).y = s.y
         /\ \A c \in Cells :
              Store(s, i, glyph).screen[c] = IF c = i THEN glyph ELSE s.screen[c]
  BY DEF Store, Consoles, Screens

LEMMA RowBlankIs ==
  ASSUME NEW scr \in Screens, NEW row \in 1..(Rows - 1)
  PROVE  /\ RowBlank(scr, row) \in Screens
         /\ \A c \in Cells : c < Columns => RowBlank(scr, row)[c] = scr[c]
<1>1. RowBlank(scr, row) \in Screens
  BY DEF RowBlank, Screens, Glyphs
<1>2. ASSUME NEW c \in Cells, c < Columns PROVE RowBlank(scr, row)[c] = scr[c]
  <2>1. c \div Columns = 0
    BY <1>2, RowOfCell DEF Cells
  <2> QED BY <2>1 DEF RowBlank
<1> QED BY <1>1, <1>2

LEMMA CellBelow ==
  ASSUME NEW c \in Cells, c \div Columns \in 0..(Rows - 2)
  PROVE  c + Columns \in Cells
<1> DEFINE row == c \div Columns
           start == row * Columns
           next == (row + 1) * Columns
           size == Rows * Columns
<1>1. c \in Nat /\ Columns \in Nat /\ size \in Nat /\ row \in Nat /\ row + 1 \in 0..(Rows - 1)
  BY SizeFits DEF Cells
<1>2. start <= c /\ c < start + Columns /\ start \in Nat
  BY <1>1, RowOfCell, Product
<1>3. next = start + Columns
  BY <1>1, RowOfCell
<1>4. next + Columns <= size
  BY <1>1, RowStart
<1> HIDE DEF start, next, size, row
<1>5. c + Columns \in 0..(size - 1)
  BY <1>1, <1>2, <1>3, <1>4
<1> QED BY <1>5 DEF Cells, size

LEMMA CopiedRowUpIs ==
  ASSUME NEW scr \in Screens, NEW row \in 1..(Rows - 2)
  PROVE  /\ CopiedRowUp(scr, row) \in Screens
         /\ \A c \in Cells : c < Columns => CopiedRowUp(scr, row)[c] = scr[c]
<1>1. CopiedRowUp(scr, row) \in Screens
  <2>1. \A c \in Cells : c \div Columns = row => c + Columns \in Cells
    BY CellBelow, SizeFits
  <2> QED BY <2>1 DEF CopiedRowUp, Screens
<1>2. ASSUME NEW c \in Cells, c < Columns PROVE CopiedRowUp(scr, row)[c] = scr[c]
  <2>1. c \div Columns = 0
    BY <1>2, RowOfCell DEF Cells
  <2> QED BY <2>1 DEF CopiedRowUp
<1> QED BY <1>1, <1>2

LEMMA ScrollIs ==
  ASSUME NEW s \in Consoles
  PROVE  /\ Scroll(s) \in Consoles
         /\ Scroll(s).x = s.x /\ Scroll(s).y = IF s.y >= Rows THEN Rows - 1 ELSE s.y
         /\ \A c \in Cells : c < Columns => Scroll(s).screen[c] = s.screen[c]
         /\ s.y < Rows => Scroll(s) = s
<1>1. s.screen \in Screens /\ s.x \in Words /\ s.y \in Words
  BY DEF Consoles
<1> DEFINE up == [c \in Cells |-> IF c \div Columns \in 1..(Rows - 2)
                                  THEN s.screen[c + Columns] ELSE s.screen[c]]
<1>2. up \in Screens
  <2>1. \A c \in Cells : c \div Columns \in 1..(Rows - 2) => c + Columns \in Cells
    BY CellBelow, SizeFits
  <2> QED BY <1>1, <2>1 DEF Screens
<1>3. \A c \in Cells : c < Columns => up[c] = s.screen[c]
  <2> SUFFICES ASSUME NEW c \in Cells, c < Columns PROVE up[c] = s.screen[c]
    OBVIOUS
  <2>1. c \div Columns = 0
    BY RowOfCell DEF Cells
  <2> QED BY <2>1
<1> HIDE DEF up
<1>4. Rows - 1 \in 1..(Rows - 1) /\ Rows - 1 \in Words
  BY SizeFits DEF Words
<1>5. /\ LastRowBlank(up) \in Screens
      /\ \A c \in Cells : c < Columns => LastRowBlank(up)[c] = s.screen[c]
  BY <1>2, <1>3, <1>4, RowBlankIs DEF LastRowBlank
<1>6. s.y >= Rows => Scroll(s) = [s EXCEPT !.y = Rows - 1, !.screen = LastRowBlank(up)]
  BY DEF Scroll, up, Consoles
<1>7. s.y < Rows => Scroll(s) = s
  BY <1>1, SizeFits DEF Scroll, Words
<1>8. CASE s.y >= Rows
  <2>1. Scroll(s) = [screen |-> LastRowBlank(up), x |-> s.x, y |-> Rows - 1]
    BY <1>6, <1>8 DEF Consoles
  <2>2. ~(s.y < Rows)
    BY <1>1, <1>8, SizeFits DEF Words
  <2> HIDE DEF up
  <2> QED BY <1>1, <1>4, <1>5, <1>8, <2>1, <2>2 DEF Consoles
<1>9. CASE ~(s.y >= Rows)
  BY <1>1, <1>7, <1>9, SizeFits DEF Words
<1> QED BY <1>8, <1>9
(* What kputc does before it wraps and scrolls.                             *)
Control == {"newline", "return", "erase", "tab"}
Put(s, char) == Advance(Place(s, char), char)
Back(s) == [s EXCEPT !.x = Word(@ - 1)]
LEMMA PutIs ==
  ASSUME NEW s \in Consoles, NEW char \in Glyphs
  PROVE  /\ Put(s, char) \in Consoles
         /\ Put(s, char).y = IF char = "newline" THEN Word(s.y + 1) ELSE s.y
         /\ char = "newline" => Put(s, char).x = 0
         /\ char \in {"newline", "return", "tab"} => Put(s, char).screen = s.screen
         /\ char = "erase" =>
              /\ Put(s, char).x = Word(Word(s.x - 1) + 1)
              /\ \A c \in Cells :
                   Put(s, char).screen[c] = IF c = Index(Back(s)) THEN Blank ELSE s.screen[c]
         /\ char \notin Control =>
              /\ Put(s, char).x = Word(s.x + 1)
              /\ \A c \in Cells :
                   Put(s, char).screen[c] = IF c = Index(s) THEN char ELSE s.screen[c]
<1>1. s.screen \in Screens /\ s.x \in Words /\ s.y \in Words /\ Words \subseteq Nat
      /\ s = [screen |-> s.screen, x |-> s.x, y |-> s.y]
  BY DEF Consoles, Words
<1>2. 0 \in Words /\ \A n \in Int : Word(n) \in Words
  BY WordRange, SizeFits DEF Words
<1>3. Index(s) \in Int /\ \A n \in Words : Index([s EXCEPT !.x = n]) \in Int
  <2>1. \A n \in Words : s.y * Columns + n \in Int
    BY <1>1, SizeFits
  <2> QED BY <1>1, <1>2, <2>1, WordRange DEF Index, Words, Consoles
<1>4. CASE char = "newline"
  <2>1. Put(s, char) = [screen |-> s.screen, x |-> 0, y |-> Word(s.y + 1)]
    BY <1>1, <1>4 DEF Put, Place, Advance
  <2>2. Word(s.y + 1) \in Words
    BY <1>1, <1>2
  <2> QED BY <1>1, <1>2, <1>4, <2>1, <2>2 DEF Consoles, Control
<1>5. CASE char = "return"
  <2>1. Put(s, char) = [screen |-> s.screen, x |-> Word(0 + 1), y |-> s.y]
    BY <1>1, <1>5 DEF Put, Place, Advance
  <2> QED BY <1>1, <1>2, <1>5, <2>1 DEF Consoles, Control
<1>6. CASE char = "tab"
  <2>1. Put(s, char) = [screen |-> s.screen, x |-> Word(Word(s.x + 4) + 1), y |-> s.y]
    BY <1>1, <1>6 DEF Put, Place, Advance
  <2>2. Word(s.x + 4) \in Words
    BY <1>1, <1>2
  <2>3. Word(Word(s.x + 4) + 1) \in Words
    BY <1>1, <1>2, <2>2
  <2> QED BY <1>1, <1>2, <1>6, <2>1, <2>3 DEF Consoles, Control
<1>7. CASE char = "erase"
  <2> DEFINE before == Back(s)
             t == Store(before, Index(before), Blank)
  <2>1. Word(s.x - 1) \in Words
    BY <1>1, <1>2
  <2>2. before \in Consoles /\ before.x = Word(s.x - 1) /\ before.y = s.y
        /\ before.screen = s.screen /\ Index(before) \in Int
    BY <1>1, <1>3, <2>1 DEF Consoles, Back
  <2>3. Blank \in Glyphs
    BY DEF Glyphs
  <2>4. Put(s, char) = [t EXCEPT !.x = Word(@ + 1)]
    BY <1>7 DEF Put, Place, Advance, Back
  <2> HIDE DEF before
  <2>5. /\ t \in Consoles /\ t.x = before.x /\ t.y = before.y
        /\ \A c \in Cells : t.screen[c] = IF c = Index(before) THEN Blank ELSE before.screen[c]
    BY <2>2, <2>3, StoreIs
  <2> HIDE DEF t
  <2>6. Word(t.x + 1) \in Words
    <3>1. t.x \in Nat
      BY <1>1, <2>5 DEF Consoles
    <3> QED BY <1>2, <3>1
  <2>7. Put(s, char) = [screen |-> t.screen, x |-> Word(t.x + 1), y |-> t.y]
    BY <2>4, <2>5 DEF Consoles
  <2>8. Put(s, char) \in Consoles
    BY <2>5, <2>6, <2>7 DEF Consoles
  <2> QED BY <1>7, <2>2, <2>5, <2>7, <2>8 DEF before, Control
<1>8. CASE char \notin Control
  <2> DEFINE t == Store(s, Index(s), char)
  <2>1. Put(s, char) = [t EXCEPT !.x = Word(@ + 1)]
    BY <1>8 DEF Put, Place, Advance, Control
  <2>2. /\ t \in Consoles /\ t.x = s.x /\ t.y = s.y
        /\ \A c \in Cells : t.screen[c] = IF c = Index(s) THEN char ELSE s.screen[c]
    BY <1>3, StoreIs
  <2> HIDE DEF t
  <2>3. Word(t.x + 1) \in Words
    BY <1>1, <1>2, <2>2
  <2>4. Put(s, char) = [screen |-> t.screen, x |-> Word(t.x + 1), y |-> t.y]
    BY <2>1, <2>2 DEF Consoles
  <2> QED BY <1>8, <2>2, <2>3, <2>4 DEF Consoles, Control
<1> QED BY <1>4, <1>5, <1>6, <1>7, <1>8 DEF Control

LEMMA WrapIs ==
  ASSUME NEW s \in Consoles
  PROVE  /\ Wrap(s) \in Consoles /\ Wrap(s).screen = s.screen /\ Wrap(s).x < Columns
         /\ s.x >= Columns => Wrap(s).x = 0 /\ Wrap(s).y = Word(s.y + 1)
         /\ s.x < Columns => Wrap(s) = s
<1>1. s.x \in Words /\ s.y \in Words /\ Words \subseteq Nat /\ 0 \in Words
      /\ s = [screen |-> s.screen, x |-> s.x, y |-> s.y] /\ s.screen \in Screens
  BY SizeFits DEF Consoles, Words
<1>2. Word(s.y + 1) \in Words
  BY <1>1, WordRange
<1>3. CASE s.x >= Columns
  <2>1. Wrap(s) = [screen |-> s.screen, x |-> 0, y |-> Word(s.y + 1)]
    BY <1>1, <1>3 DEF Wrap
  <2>2. Wrap(s) \in Consoles
    BY <1>1, <1>2, <2>1 DEF Consoles
  <2> QED BY <1>1, <1>3, <2>1, <2>2, SizeFits
<1>4. CASE s.x < Columns
  BY <1>1, <1>4, SizeFits DEF Wrap
<1> QED BY <1>1, <1>3, <1>4, SizeFits

(* kputc leaves the cursor on the screen, wherever its column was, and on   *)
(* the rows below the status bar when it came from there.                   *)
OnScreen(s) == s.x < Columns /\ 1 <= s.y /\ s.y < Rows
LEMMA KputcLands ==
  ASSUME NEW s \in Consoles, NEW char \in Glyphs
  PROVE  /\ Kputc(s, char) \in Consoles
         /\ Kputc(s, char).x < Columns /\ Kputc(s, char).y < Rows
         /\ s.y \in 1..Rows => OnScreen(Kputc(s, char))
<1> DEFINE t == Put(s, char)
           w == Wrap(t)
<1>1. Kputc(s, char) = Scroll(w)
  BY DEF Kputc, Put
<1>2. /\ t \in Consoles
      /\ char = "newline" => t.y = Word(s.y + 1) /\ t.x = 0
      /\ char # "newline" => t.y = s.y
  <2>1. /\ Put(s, char) \in Consoles
        /\ Put(s, char).y = IF char = "newline" THEN Word(s.y + 1) ELSE s.y
        /\ char = "newline" => Put(s, char).x = 0
    BY PutIs, Zenon
  <2> QED BY <2>1
<1> HIDE DEF t
<1>3. /\ w \in Consoles /\ w.x < Columns
      /\ t.x >= Columns => w.y = Word(t.y + 1)
      /\ t.x < Columns => w = t
  BY <1>2, WrapIs
<1> HIDE DEF w
<1>4. /\ Scroll(w) \in Consoles /\ Scroll(w).x = w.x
      /\ Scroll(w).y = IF w.y >= Rows THEN Rows - 1 ELSE w.y
  BY <1>3, ScrollIs
<1>5. s.y \in Nat /\ t.x \in Nat /\ w.x \in Nat /\ w.y \in Nat
  BY <1>2, <1>3 DEF Consoles, Words
<1>6. s.y \in 1..Rows => 1 <= w.y
  <2> SUFFICES ASSUME s.y \in 1..Rows PROVE 1 <= w.y
    OBVIOUS
  <2>1. \A n \in 1..(Rows + 1) : n \in Words
    BY SizeFits DEF Words
  <2>2. Word(s.y + 1) = s.y + 1
    <3>1. s.y + 1 \in 1..(Rows + 1)
      BY <1>5, SizeFits
    <3> QED BY <2>1, <3>1, WordRange
  <2>3. t.y \in {s.y, s.y + 1} /\ (t.y = s.y + 1 => t.x = 0)
    <3>1. CASE char = "newline"
      BY <1>2, <2>2, <3>1
    <3>2. CASE char # "newline"
      <4>1. t.y = s.y /\ s.y # s.y + 1
        BY <1>2, <1>5, <3>2
      <4> QED BY <4>1
    <3> QED BY <3>1, <3>2
  <2>4. t.x >= Columns => w.y = s.y + 1
    BY <1>3, <2>2, <2>3, SizeFits
  <2> QED BY <1>3, <1>5, <2>3, <2>4, SizeFits
<1> QED BY <1>1, <1>3, <1>4, <1>5, <1>6, SizeFits DEF OnScreen
LEMMA WordWraps ==
  /\ \A n \in WordSize..(2 * WordSize - 1) : Word(n) = n - WordSize
  /\ Word(-1) = WordSize - 1
<1>1. WordSize \in Nat \ {0}
  BY SizeFits
<1>2. ASSUME NEW n \in WordSize..(2 * WordSize - 1) PROVE Word(n) = n - WordSize
  <2>1. n \in Nat /\ n - WordSize \in 0..(WordSize - 1)
    BY <1>1
  <2>2. n = 1 * WordSize + (n - WordSize)
    BY <1>1, <2>1
  <2> QED BY <1>1, <2>1, <2>2 DEF Word
<1>3. (-1) % WordSize = WordSize - 1
  BY <1>1
<1> QED BY <1>2, <1>3 DEF Word

(* Row 0 is left alone by a character that goes below it, ...               *)
SameBar(s, t) == \A c \in Cells : c < Columns => t.screen[c] = s.screen[c]
Placed(s) == s.y \in 1..Rows /\ s.x <= Columns + 4 /\ (s.x < Columns \/ s.y < Rows)
LEMMA KputcKeepsBar ==
  ASSUME NEW s \in Consoles, Placed(s), NEW char \in Glyphs \ {"erase"}
  PROVE  SameBar(s, Kputc(s, char))
<1> DEFINE t == Put(s, char)
<1>1. t \in Consoles
  BY PutIs, Zenon
<1>2. SameBar(s, t)
  <2>1. CASE char \in {"newline", "return", "tab"}
    <3>1. t.screen = s.screen
      BY <2>1, PutIs
    <3> QED BY <3>1 DEF SameBar
  <2>2. CASE char \notin Control
    <3>1. Index(s) >= Columns /\ Index(s) \in Nat
      <4>1. s.y \in 0..Rows /\ s.y > 0
        BY SizeFits DEF Placed
      <4> QED BY <4>1, IndexIs DEF Placed
    <3>2. \A c \in Cells : t.screen[c] = IF c = Index(s) THEN char ELSE s.screen[c]
      BY <2>2, PutIs
    <3>3. \A c \in Cells : c < Columns => c # Index(s)
      BY <3>1, SizeFits DEF Cells
    <3> QED BY <3>2, <3>3 DEF SameBar
  <2> QED BY <2>1, <2>2 DEF Control
<1> HIDE DEF t
<1>3. Wrap(t) \in Consoles /\ Wrap(t).screen = t.screen
  BY <1>1, WrapIs
<1>4. \A c \in Cells : c < Columns => Scroll(Wrap(t)).screen[c] = Wrap(t).screen[c]
  BY <1>3, ScrollIs
<1>5. SameBar(s, Scroll(Wrap(t)))
  BY <1>2, <1>3, <1>4 DEF SameBar
<1> QED BY <1>5 DEF Kputc, Put, t

(* ... and by a backspace anywhere below it but in the first cell.          *)
LEMMA KputcErases ==
  ASSUME NEW s \in Consoles, OnScreen(s), <<s.x, s.y>> # <<0, 1>>
  PROVE  /\ Kputc(s, "erase") \in Consoles /\ SameBar(s, Kputc(s, "erase"))
         /\ Kputc(s, "erase").x = s.x /\ Kputc(s, "erase").y = s.y
         /\ \A c \in Cells : Kputc(s, "erase").screen[c]
                             = IF c = s.y * Columns + s.x - 1 THEN Blank ELSE s.screen[c]
<1> DEFINE t == Put(s, "erase")
<1>1. "erase" \in Glyphs /\ "erase" # "newline"
  BY DEF Glyphs
<1>2. t \in Consoles /\ t.y = s.y /\ t.x = Word(Word(s.x - 1) + 1)
      /\ \A c \in Cells : t.screen[c] = IF c = Index(Back(s)) THEN Blank ELSE s.screen[c]
  BY <1>1, PutIs
<1>3. s.x \in Words /\ s.y \in Words /\ s.x \in Nat /\ s.y \in Nat
  BY DEF Consoles, Words
<1>4. /\ WordSize \in Nat \ {0} /\ Columns \in Nat \ {0} /\ Columns < WordSize
      /\ Words \subseteq Nat /\ WordSize - 1 \in Words /\ 0 \in Words
  BY SizeFits DEF Words
<1>5. Word(Word(s.x - 1) + 1) = s.x
  <2>1. CASE s.x = 0
    <3>1. Word(s.x - 1) = WordSize - 1
      BY <2>1, WordWraps
    <3>2. Word(WordSize - 1 + 1) = 0
      <4>1. WordSize - 1 + 1 \in WordSize..(2 * WordSize - 1) /\ WordSize - 1 + 1 = WordSize
        BY <1>4
      <4>2. Word(WordSize) = WordSize - WordSize
        BY <4>1, WordWraps
      <4> QED BY <1>4, <4>1, <4>2
    <3> QED BY <2>1, <3>1, <3>2
  <2>2. CASE s.x # 0
    <3>1. s.x - 1 \in Words /\ s.x - 1 + 1 = s.x
      BY <1>3, <1>4, <2>2 DEF Words
    <3>2. Word(s.x - 1) = s.x - 1 /\ Word(s.x) = s.x
      BY <1>3, <3>1, WordRange
    <3> QED BY <3>1, <3>2
  <2> QED BY <2>1, <2>2
<1>6. /\ Index(Back(s)) \in Nat /\ Index(Back(s)) >= Columns
      /\ Index(Back(s)) = s.y * Columns + s.x - 1
  <2>1. s.y \in 0..(Rows - 1) /\ s.y > 0
    BY <1>3, SizeFits DEF OnScreen
  <2> DEFINE start == s.y * Columns
             size  == Rows * Columns
  <2>2. /\ start \in Nat /\ size \in Nat /\ start + Columns <= size /\ start >= Columns
        /\ size + Columns + 4 < WordSize
    BY <2>1, RowStart, SizeFits
  <2>3. Back(s).x = Word(s.x - 1) /\ Back(s).y = s.y
    BY <1>3 DEF Back, Consoles
  <2>4. Index(Back(s)) = Word(start + Word(s.x - 1))
    BY <2>3 DEF Index
  <2>5. CASE s.x = 0
    <3>1. s.y # 1 /\ s.y - 1 \in 0..(Rows - 1) /\ s.y - 1 > 0 /\ s.y - 1 \in Nat
      <4>1. s.y # 1
        BY <2>5
      <4> QED BY <1>3, <2>1, <4>1, SizeFits
    <3>2. (s.y - 1) * Columns >= Columns /\ (s.y - 1) * Columns \in Nat
      BY <3>1, RowStart
    <3>3. (s.y - 1) * Columns = start - Columns
      BY <1>3, <1>4
    <3>4. Word(s.x - 1) = WordSize - 1
      BY <2>5, WordWraps
    <3> HIDE DEF start, size
    <3>5. start >= 2 * Columns
      BY <1>4, <2>2, <3>2, <3>3
    <3>6. start + (WordSize - 1) \in WordSize..(2 * WordSize - 1)
      BY <1>4, <2>2
    <3>7. Word(start + (WordSize - 1)) = start - 1
      <4> DEFINE n == start + (WordSize - 1)
      <4>1. n \in WordSize..(2 * WordSize - 1) /\ n - WordSize = start - 1
        BY <1>4, <2>2, <3>6
      <4> HIDE DEF n
      <4>2. Word(n) = start - 1
        BY <4>1, WordWraps
      <4> QED BY <4>2 DEF n
    <3>8. Index(Back(s)) = start + s.x - 1
      BY <2>2, <2>4, <2>5, <3>4, <3>7
    <3>9. Index(Back(s)) \in Nat /\ Index(Back(s)) >= Columns
      BY <1>4, <2>2, <2>4, <3>4, <3>5, <3>7
    <3> QED BY <3>8, <3>9 DEF start
  <2>6. CASE s.x # 0
    <3>1. s.x - 1 \in Words /\ s.x - 1 \in Nat
      BY <1>3, <1>4, <2>6 DEF Words
    <3>2. Word(s.x - 1) = s.x - 1
      BY <3>1, WordRange
    <3> HIDE DEF start, size
    <3>3. start + (s.x - 1) \in Words
      BY <1>3, <1>4, <2>2, <3>1 DEF Words, OnScreen
    <3>4. Word(start + (s.x - 1)) = start + (s.x - 1)
      BY <3>3, WordRange
    <3>5. Index(Back(s)) = start + s.x - 1
      BY <1>3, <2>2, <2>4, <3>2, <3>4
    <3>6. Index(Back(s)) \in Nat /\ Index(Back(s)) >= Columns
      BY <1>4, <2>2, <2>4, <3>1, <3>2, <3>4
    <3> QED BY <3>5, <3>6 DEF start
  <2> QED BY <2>5, <2>6
<1> HIDE DEF t
<1>7. t.x = s.x /\ t.x < Columns /\ t.y < Rows
  BY <1>2, <1>5 DEF OnScreen
<1>8. Wrap(t) = t /\ Scroll(t) = t
  BY <1>2, <1>7, WrapIs, ScrollIs
<1>9. Kputc(s, "erase") = t
  BY <1>8 DEF Kputc, Put, t
<1>10. SameBar(s, t)
  <2>1. \A c \in Cells : c < Columns => c # Index(Back(s))
    BY <1>4, <1>6 DEF Cells
  <2> QED BY <1>2, <2>1 DEF SameBar
<1> QED BY <1>2, <1>6, <1>7, <1>9, <1>10
-----------------------------------------------------------------------------
(***************************************************************************)
(* What is kept, whatever the keyboard interrupts.  Where the cursor may   *)
(* be depends on where the thread is: an echo always leaves it on the      *)
(* screen, so what the thread stores next starts from a place on the       *)
(* screen, or from the one it had loaded there.                            *)
(***************************************************************************)
PCs == {"idle", "place", "index", "column", "height", "store", "erase", "tab", "advance", "wrap",
        "full", "newline", "line",
        "scroll", "copy", "last", "clear", "home", "row", "count"}
Chars == Range(Letters) \union Controls \union {Blank}
Types ==
  /\ screen \in Screens /\ x \in Words /\ y \in Words
  /\ main \in [pc : PCs, char : Chars, reg : Nat, loaded : BOOLEAN]
  /\ text \in Seq(Glyphs \union {"clear"})
  /\ strayed \in BOOLEAN /\ halted \in {"no", "full", "system"}
  /\ main.pc = "copy" => main.reg \in 1..(Rows - 1)
  /\ main.pc = "clear" => main.reg \in 1..Rows

CursorPlace ==
  ~strayed /\ halted = "no" =>
    /\ y \in 1..Rows
    /\ main.pc \in {"idle", "place", "newline", "tab", "erase", "line", "clear", "home", "row", "count"}
         => OnScreen(Here)
    /\ main.pc \in {"index", "column", "height", "store", "advance", "full"} => y < Rows
    /\ main.pc = "height" => main.reg \in 1..(Rows - 1)
    /\ main.pc = "wrap" => x < Columns \/ y < Rows
    /\ main.pc \in {"scroll", "copy", "last"} => x < Columns
    /\ main.pc \in {"newline", "line"} /\ main.loaded => main.reg \in 1..(Rows - 1)

NoErase == "erase" \notin Controls       \* the thread prints no backspace
StorePlace ==
  NoErase /\ ~strayed /\ halted = "no" =>
    /\ main.char # "erase" /\ main.pc # "erase"
    /\ main.pc \in {"index", "column", "height", "store"} => x < Columns
    /\ main.pc = "column" => main.reg < Columns
    /\ main.pc = "store" => main.reg >= Columns
    /\ main.pc = "tab" /\ main.loaded => main.reg < Columns
    /\ main.pc = "advance" => x <= Columns + 3 /\ (main.loaded => main.reg <= Columns + 3)
    /\ main.pc \in {"wrap", "full"} => x <= Columns + 4

Bars == \A c \in Cells : c < Columns => screen[c] = Bar
BarStays == NoErase /\ ~strayed /\ halted # "system" => Bars
ConsoleInv == Types /\ CursorPlace /\ StorePlace /\ BarStays

LEMMA HereTyped ==
  ASSUME Types
  PROVE  /\ Here \in Consoles /\ Here.x = x /\ Here.y = y /\ Here.screen = screen
         /\ x \in Nat /\ y \in Nat /\ main.reg \in Nat
  BY DEF Types, Here, Consoles, Words

(* The cursor is where kputc may take over, even in the middle of kputc.    *)
LEMMA HerePlaced ==
  ASSUME ConsoleInv, ~strayed, halted = "no"
  PROVE  /\ Here.y \in 1..Rows
         /\ NoErase => Placed(Here)
<1>1. Here.x = x /\ Here.y = y /\ x \in Nat /\ y \in Nat
  BY HereTyped DEF ConsoleInv
<1>2. y \in 1..Rows /\ (x < Columns \/ y < Rows)
  <2>1. main.pc \in PCs
    BY DEF ConsoleInv, Types
  <2> QED BY <1>1, <2>1 DEF ConsoleInv, CursorPlace, PCs, OnScreen
<1>3. NoErase => x <= Columns + 4
  <2>1. main.pc \in PCs
    BY DEF ConsoleInv, Types
  <2> QED BY <1>1, <2>1, SizeFits DEF ConsoleInv, CursorPlace, StorePlace, PCs, OnScreen
<1> QED BY <1>1, <1>2, <1>3 DEF Placed

LEMMA ConsoleInit == Init => ConsoleInv
<1> SUFFICES ASSUME Init PROVE ConsoleInv
  OBVIOUS
<1>1. x = 0 /\ y = 1 /\ main = Idle /\ halted = "no" /\ strayed = FALSE /\ text = <<>>
      /\ screen = [c \in Cells |-> IF c < Columns THEN Bar ELSE Blank]
  BY DEF Init
<1>2. 0 \in Words /\ 1 \in Words /\ 0 < Columns /\ 1 \in 1..Rows /\ 1 < Rows
  BY SizeFits DEF Words
<1>3. screen \in Screens
  BY <1>1 DEF Screens, Glyphs
<1>4. main \in [pc : PCs, char : Chars, reg : Nat, loaded : BOOLEAN] /\ main.pc = "idle"
      /\ main.char = Blank
  BY <1>1 DEF Idle, PCs, Chars
<1>5. Types
  <2>1. text \in Seq(Glyphs \union {"clear"}) /\ halted \in {"no", "full", "system"}
    BY <1>1
  <2>2. strayed \in BOOLEAN
    BY <1>1, Zenon
  <2> QED BY <1>1, <1>2, <1>3, <1>4, <2>1, <2>2 DEF Types
<1>6. CursorPlace
  BY <1>1, <1>2, <1>4 DEF CursorPlace, OnScreen, Here
<1>7. StorePlace
  BY <1>4 DEF StorePlace, Blank
<1>8. BarStays
  BY <1>1 DEF BarStays, Bars
<1> QED BY <1>5, <1>6, <1>7, <1>8 DEF ConsoleInv
-----------------------------------------------------------------------------
(* The steps of kputc in the thread (vga.c:104-139).                        *)
LEMMA PrintCharStep ==
  ASSUME ConsoleInv, PrintChar
  PROVE  ConsoleInv'
<1>1. PICK char \in Controls \union {Letters[Len(text) + 1]} :
        /\ main' = [Idle EXCEPT !.pc = "place", !.char = char]
        /\ Record(Append(text, char))
  BY DEF PrintChar
<1>2. /\ main.pc = "idle" /\ halted = "no" /\ Len(text) < MaxText
      /\ UNCHANGED <<screen, x, y, strayed, halted>>
  BY DEF PrintChar, Thread, console, keyboard
<1>3. char \in Chars
  <2>1. Len(text) + 1 \in 1..Len(Letters)
    BY <1>2, ConsoleParameters DEF MaxText, ConsoleInv, Types
  <2>2. Letters[Len(text) + 1] \in Range(Letters)
    BY <2>1, ConsoleParameters DEF Range
  <2> QED BY <2>2 DEF Chars
<1>4. text' = Append(text, char) /\ char \in Glyphs
  BY <1>1, <1>3 DEF Record, Chars, Glyphs
<1>5. text' \in Seq(Glyphs \union {"clear"})
  BY <1>4 DEF ConsoleInv, Types
<1>6. main' = [pc |-> "place", char |-> char, reg |-> 0, loaded |-> FALSE]
  BY <1>1 DEF Idle
<1>7. main' \in [pc : PCs, char : Chars, reg : Nat, loaded : BOOLEAN]
  BY <1>3, <1>6 DEF PCs
<1>8. Types'
  BY <1>2, <1>5, <1>6, <1>7 DEF ConsoleInv, Types
<1>9. CursorPlace'
  BY <1>2, <1>6 DEF ConsoleInv, CursorPlace, OnScreen, Here
<1>10. StorePlace'
  <2>1. NoErase => char # "erase"
    BY <1>3, ConsoleParameters DEF NoErase, Chars, Blank
  <2> QED BY <1>2, <1>6, <2>1 DEF StorePlace
<1>11. BarStays'
  BY <1>2 DEF ConsoleInv, BarStays, Bars
<1> QED BY <1>8, <1>9, <1>10, <1>11 DEF ConsoleInv

(* The record of the thread after a step of it.                             *)
LEMMA Goes ==
  ASSUME Types, NEW pc \in PCs, Go(pc)
  PROVE  /\ main' \in [pc : PCs, char : Chars, reg : Nat, loaded : BOOLEAN]
         /\ main'.pc = pc /\ main'.char = main.char /\ main'.reg = main.reg /\ ~main'.loaded
  BY DEF Types, Go

LEMMA PlaceCharStep ==
  ASSUME ConsoleInv, PlaceChar
  PROVE  ConsoleInv'
<1>1. /\ main.pc = "place" /\ halted = "no"
      /\ UNCHANGED <<screen, y, strayed, halted, text>>
  BY DEF PlaceChar, Thread, keyboard, history
<1>2. \E pc \in {"newline", "advance", "erase", "tab", "index"} :
        /\ Go(pc) /\ x' \in {0, x}
        /\ pc \in {"erase", "tab"} => pc = main.char
  BY DEF PlaceChar
<1>3. PICK pc \in {"newline", "advance", "erase", "tab", "index"} :
        Go(pc) /\ x' \in {0, x} /\ (pc \in {"erase", "tab"} => pc = main.char)
  BY <1>2
<1>4. /\ main' \in [pc : PCs, char : Chars, reg : Nat, loaded : BOOLEAN]
      /\ main'.pc = pc /\ main'.char = main.char /\ main'.reg = main.reg /\ ~main'.loaded
  <2>1. pc \in PCs
    BY DEF PCs
  <2> QED BY <1>3, <2>1, Goes DEF ConsoleInv
<1>5. x' \in Words /\ 0 < Columns /\ Columns \in Nat /\ Rows \in Nat /\ x \in Nat /\ y \in Nat
  BY <1>3, SizeFits DEF ConsoleInv, Types, Words
<1>6. Types'
  BY <1>1, <1>4, <1>5 DEF ConsoleInv, Types
<1>7. CursorPlace'
  BY <1>1, <1>3, <1>4, <1>5 DEF ConsoleInv, CursorPlace, OnScreen, Here
<1>8. StorePlace'
  BY <1>1, <1>3, <1>4, <1>5 DEF ConsoleInv, StorePlace, CursorPlace, OnScreen, Here
<1>9. BarStays'
  BY <1>1 DEF ConsoleInv, BarStays, Bars
<1> QED BY <1>6, <1>7, <1>8, <1>9 DEF ConsoleInv

(* The cell a character goes to, from the halves of the cursor, of which    *)
(* the first may be out of date when the second is loaded.                  *)
LEMMA FoundIs ==
  ASSUME ConsoleInv, halted = "no", NoErase, ~strayed
  PROVE  /\ main.pc = "column" => Index([Here EXCEPT !.x = main.reg]) >= Columns
         /\ main.pc = "height" => Index([Here EXCEPT !.y = main.reg]) >= Columns
<1>1. /\ Here \in Consoles /\ Here = [screen |-> screen, x |-> x, y |-> y]
      /\ main.reg \in Nat /\ x \in Nat /\ y \in Nat
  BY HereTyped DEF ConsoleInv, Here
<1>2. /\ Columns \in Nat \ {0} /\ Rows \in Nat
      /\ \A n \in Nat : n < Columns \/ n < Rows => n \in Words
  <2> DEFINE size == Rows * Columns
  <2>1. /\ size \in Nat /\ size + Columns + 4 < WordSize /\ Rows <= size /\ Columns \in Nat \ {0}
        /\ Rows \in Nat /\ WordSize \in Nat
    BY SizeFits
  <2> HIDE DEF size
  <2> QED BY <2>1 DEF Words
<1>3. y \in 1..Rows
  BY DEF ConsoleInv, CursorPlace
<1>4. CASE main.pc = "column"
  <2> DEFINE s == [Here EXCEPT !.x = main.reg]
  <2>1. main.reg < Columns /\ y < Rows
    BY <1>4 DEF ConsoleInv, StorePlace, CursorPlace
  <2>2. s = [screen |-> screen, x |-> main.reg, y |-> y]
    BY <1>1
  <2>3. s \in Consoles
    BY <1>1, <1>2, <2>1, <2>2 DEF Consoles
  <2>4. s.x = main.reg /\ s.y = y
    BY <2>2
  <2> HIDE DEF s
  <2>5. s.y \in 0..Rows /\ s.y > 0 /\ s.x <= Columns + 4 /\ s.x < Columns
    BY <1>1, <1>2, <1>3, <2>1, <2>4
  <2>6. Index(s) >= Columns
    BY <2>3, <2>5, IndexIs
  <2> QED BY <1>4, <2>6 DEF s
<1>5. CASE main.pc = "height"
  <2> DEFINE s == [Here EXCEPT !.y = main.reg]
  <2>1. main.reg \in 1..(Rows - 1) /\ x < Columns
    BY <1>5 DEF ConsoleInv, StorePlace, CursorPlace
  <2>2. s = [screen |-> screen, x |-> x, y |-> main.reg]
    BY <1>1
  <2>3. s \in Consoles
    BY <1>1, <1>2, <2>1, <2>2 DEF Consoles
  <2>4. s.x = x /\ s.y = main.reg
    BY <2>2
  <2> HIDE DEF s
  <2>5. s.y \in 0..Rows /\ s.y > 0 /\ s.x <= Columns + 4 /\ s.x < Columns
    BY <1>1, <1>2, <2>1, <2>4
  <2>6. Index(s) >= Columns
    BY <2>3, <2>5, IndexIs
  <2> QED BY <1>5, <2>6 DEF s
<1> QED BY <1>4, <1>5

LEMMA CellSteps ==
  ASSUME ConsoleInv, ChooseCell \/ FindCell \/ StoreChar
  PROVE  ConsoleInv'
<1>1. halted = "no" /\ UNCHANGED <<x, y, strayed, halted, text>>
  <2>1. CASE ChooseCell
    BY <2>1 DEF ChooseCell, Thread, console, keyboard, history
  <2>2. CASE FindCell
    BY <2>2 DEF FindCell, Thread, console, keyboard, history
  <2>3. CASE StoreChar
    BY <2>3, HereTyped DEF StoreChar, Thread, keyboard, history, Becomes, Store, ConsoleInv, Here
  <2> QED BY <2>1, <2>2, <2>3
<1>2. Here \in Consoles /\ Here.x = x /\ Here.y = y /\ Here.screen = screen /\ main.reg \in Nat
      /\ x \in Nat /\ y \in Nat
  BY HereTyped DEF ConsoleInv
<1>3. CASE ChooseCell
  <2>1. PICK pc \in {"column", "height"}, n \in {x, y} :
          /\ main' = [main EXCEPT !.pc = pc, !.reg = n]
          /\ pc = "column" => n = x
          /\ pc = "height" => n = y
    BY <1>3 DEF ChooseCell
  <2>2. main.pc = "index" /\ screen' = screen
    BY <1>3 DEF ChooseCell, Thread, console
  <2>3. /\ main' \in [pc : PCs, char : Chars, reg : Nat, loaded : BOOLEAN]
        /\ main'.pc = pc /\ main'.char = main.char /\ main'.reg = n
    BY <1>2, <2>1 DEF ConsoleInv, Types, PCs
  <2>4. Types'
    BY <1>1, <2>1, <2>2, <2>3 DEF ConsoleInv, Types
  <2>5. CursorPlace'
    <3>1. ~strayed => y \in 1..Rows /\ y < Rows
      BY <1>1, <2>2 DEF ConsoleInv, CursorPlace
    <3> QED BY <1>1, <1>2, <2>1, <2>3, <3>1, SizeFits DEF CursorPlace
  <2>6. StorePlace'
    BY <1>1, <2>1, <2>2, <2>3 DEF ConsoleInv, StorePlace
  <2>7. BarStays'
    BY <1>1, <2>2 DEF ConsoleInv, BarStays, Bars
  <2> QED BY <2>4, <2>5, <2>6, <2>7 DEF ConsoleInv
<1>4. CASE FindCell
  <2>1. PICK n \in {Index([Here EXCEPT !.x = main.reg]), Index([Here EXCEPT !.y = main.reg])} :
          /\ main' = [main EXCEPT !.pc = "store", !.reg = n]
          /\ \/ main.pc = "column" /\ n = Index([Here EXCEPT !.x = main.reg])
             \/ main.pc = "height" /\ n = Index([Here EXCEPT !.y = main.reg])
    BY <1>4 DEF FindCell, Thread
  <2>2. main.pc \in {"column", "height"} /\ screen' = screen
    BY <1>4 DEF FindCell, Thread, console
  <2>3. n \in Nat
    <3>1. ASSUME NEW a \in Nat, NEW b \in Nat PROVE Word(b * Columns + a) \in Nat
      <4>1. b * Columns + a \in Int
        BY SizeFits
      <4> QED BY <4>1, WordRange DEF Words
    <3>2. /\ Index([Here EXCEPT !.x = main.reg]) = Word(y * Columns + main.reg)
          /\ Index([Here EXCEPT !.y = main.reg]) = Word(main.reg * Columns + x)
      BY DEF Index, Here
    <3> QED BY <1>2, <2>1, <3>1, <3>2
  <2>4. NoErase /\ ~strayed => n >= Columns
    BY <1>1, <2>1, FoundIs
  <2>5. /\ main' \in [pc : PCs, char : Chars, reg : Nat, loaded : BOOLEAN]
        /\ main'.pc = "store" /\ main'.char = main.char /\ main'.reg = n
    BY <2>1, <2>3 DEF ConsoleInv, Types, PCs
  <2>6. Types'
    BY <1>1, <2>2, <2>5 DEF ConsoleInv, Types
  <2>7. CursorPlace'
    BY <1>1, <2>2, <2>5 DEF ConsoleInv, CursorPlace
  <2>8. StorePlace'
    BY <1>1, <2>2, <2>4, <2>5 DEF ConsoleInv, StorePlace
  <2>9. BarStays'
    BY <1>1, <2>2 DEF ConsoleInv, BarStays, Bars
  <2> QED BY <2>6, <2>7, <2>8, <2>9 DEF ConsoleInv
<1>5. CASE StoreChar
  <2> DEFINE glyph == IF main.char = "erase" THEN Blank ELSE main.char
  <2>1. main.pc = "store" /\ Go("advance") /\ screen' = Store(Here, main.reg, glyph).screen
    BY <1>5 DEF StoreChar, Thread, Becomes
  <2>2. glyph \in Glyphs
    BY DEF ConsoleInv, Types, Chars, Glyphs
  <2>3. /\ screen' \in Screens
        /\ \A c \in Cells : screen'[c] = IF c = main.reg THEN glyph ELSE screen[c]
    <3> HIDE DEF glyph
    <3>1. /\ Store(Here, main.reg, glyph) \in Consoles
          /\ \A c \in Cells : Store(Here, main.reg, glyph).screen[c]
                             = IF c = main.reg THEN glyph ELSE Here.screen[c]
      BY <1>2, <2>2, StoreIs
    <3> QED BY <1>2, <2>1, <3>1 DEF Consoles
  <2>4. /\ main' \in [pc : PCs, char : Chars, reg : Nat, loaded : BOOLEAN]
        /\ main'.pc = "advance" /\ main'.char = main.char /\ ~main'.loaded
    <3>1. "advance" \in PCs
      BY DEF PCs
    <3> QED BY <2>1, <3>1, Goes DEF ConsoleInv
  <2>5. Types'
    BY <1>1, <2>3, <2>4 DEF ConsoleInv, Types
  <2>6. CursorPlace'
    BY <1>1, <2>1, <2>4 DEF ConsoleInv, CursorPlace
  <2>7. StorePlace'
    BY <1>1, <1>2, <2>1, <2>4, SizeFits DEF ConsoleInv, StorePlace
  <2>8. BarStays'
    <3>1. NoErase /\ ~strayed => \A c \in Cells : c < Columns => c # main.reg
      BY <1>1, <1>2, <2>1, SizeFits DEF ConsoleInv, StorePlace, Cells
    <3> QED BY <1>1, <2>3, <3>1 DEF ConsoleInv, BarStays, Bars
  <2> QED BY <2>5, <2>6, <2>7, <2>8 DEF ConsoleInv
<1> QED BY <1>3, <1>4, <1>5
LEMMA MoveXStep ==
  ASSUME ConsoleInv, MoveX
  PROVE  ConsoleInv'
<1>1. /\ main.pc \in {"erase", "tab", "advance"} /\ halted = "no"
      /\ UNCHANGED <<screen, y, strayed, halted, text>>
  BY DEF MoveX, Thread, keyboard, history
<1>2. x \in Nat /\ y \in Nat /\ main.reg \in Nat /\ x \in Words
  BY HereTyped DEF ConsoleInv, Types
<1>3. BarStays'
  BY <1>1 DEF ConsoleInv, BarStays, Bars
<1>4. CASE ~main.loaded
  <2>1. main' = [main EXCEPT !.reg = x, !.loaded = TRUE] /\ x' = x
    BY <1>4 DEF MoveX
  <2>2. /\ main' \in [pc : PCs, char : Chars, reg : Nat, loaded : BOOLEAN]
        /\ main'.pc = main.pc /\ main'.char = main.char /\ main'.reg = x
    BY <1>2, <2>1 DEF ConsoleInv, Types
  <2>3. Types'
    BY <1>1, <2>1, <2>2 DEF ConsoleInv, Types
  <2>4. CursorPlace'
    BY <1>1, <2>1, <2>2 DEF ConsoleInv, CursorPlace, OnScreen, Here
  <2>5. StorePlace'
    BY <1>1, <1>2, <2>1, <2>2, SizeFits DEF ConsoleInv, StorePlace, CursorPlace, OnScreen, Here
  <2> QED BY <1>3, <2>3, <2>4, <2>5 DEF ConsoleInv
<1>5. CASE main.loaded
  <2>1. PICK pc \in {"index", "advance", "wrap"}, n \in {-1, 4, 1} :
          /\ x' = Word(main.reg + n) /\ Go(pc)
          /\ main.pc = "erase" => pc = "index"
          /\ main.pc = "tab" => pc = "advance" /\ n = 4
          /\ main.pc = "advance" => pc = "wrap" /\ n = 1
    <3>1. CASE main.pc = "erase"
      <4>1. x' = Word(main.reg - 1) /\ Go("index")
        BY <1>5, <3>1 DEF MoveX
      <4>2. main.reg - 1 = main.reg + (-1)
        BY <1>2
      <4>3. x' = Word(main.reg + (-1))
        BY <4>1, <4>2
      <4> QED BY <3>1, <4>1, <4>3
    <3>2. CASE main.pc = "tab"
      <4>1. x' = Word(main.reg + 4) /\ Go("advance")
        BY <1>5, <3>2 DEF MoveX
      <4> QED BY <3>2, <4>1
    <3>3. CASE main.pc = "advance"
      <4>1. x' = Word(main.reg + 1) /\ Go("wrap")
        BY <1>5, <3>3 DEF MoveX
      <4> QED BY <3>3, <4>1
    <3> QED BY <1>1, <3>1, <3>2, <3>3
  <2>2. /\ main' \in [pc : PCs, char : Chars, reg : Nat, loaded : BOOLEAN]
        /\ main'.pc = pc /\ main'.char = main.char /\ ~main'.loaded
    <3>1. pc \in PCs
      BY <2>1 DEF PCs
    <3> QED BY <2>1, <3>1, Goes DEF ConsoleInv
  <2>3. x' \in Words
    BY <1>2, <2>1, WordRange
  <2>4. Types'
    BY <1>1, <2>1, <2>2, <2>3 DEF ConsoleInv, Types
  <2>5. CursorPlace'
    BY <1>1, <1>2, <2>1, <2>2, SizeFits DEF ConsoleInv, CursorPlace, OnScreen, Here
  <2>6. StorePlace'
    <3> SUFFICES ASSUME NoErase, ~strayed PROVE StorePlace'
      BY <1>1 DEF StorePlace
    <3>1. /\ main.char # "erase" /\ main.pc # "erase"
          /\ main.pc = "tab" => main.reg < Columns
          /\ main.pc = "advance" => main.reg <= Columns + 3
      BY <1>1, <1>5 DEF ConsoleInv, StorePlace
    <3>2. main.reg + n \in Words
      BY <1>1, <1>2, <2>1, <3>1, SizeFits DEF Words
    <3>3. x' = main.reg + n
      BY <2>1, <3>2, WordRange
    <3>4. /\ pc = "advance" => x' <= Columns + 3
          /\ pc = "wrap" => x' <= Columns + 4
          /\ pc # "index"
      BY <1>1, <1>2, <2>1, <3>1, <3>3, SizeFits
    <3> QED BY <2>1, <2>2, <3>1, <3>4 DEF StorePlace
  <2> QED BY <1>3, <2>4, <2>5, <2>6 DEF ConsoleInv
<1>6. main.loaded \in BOOLEAN
  BY DEF ConsoleInv, Types
<1> QED BY <1>4, <1>5, <1>6

LEMMA WrapLineStep ==
  ASSUME ConsoleInv, WrapLine \/ EndLine
  PROVE  ConsoleInv'
<1>1. /\ main.pc \in {"wrap", "full"} /\ halted = "no"
      /\ UNCHANGED <<screen, y, strayed, halted, text>>
  BY DEF WrapLine, EndLine, Thread, console, keyboard, history
<1>2. PICK pc \in {"full", "line", "scroll"} :
        /\ Go(pc)
        /\ pc = "full" => main.pc = "wrap" /\ x >= Columns /\ x' = x
        /\ pc = "line" => main.pc = "full" /\ x' = 0
        /\ pc = "scroll" => main.pc = "wrap" /\ ~(x >= Columns) /\ x' = x
  <2>1. CASE WrapLine /\ x >= Columns
    <3>1. x' = x /\ Go("full") /\ main.pc = "wrap"
      BY <2>1 DEF WrapLine, Thread, console
    <3> QED BY <2>1, <3>1
  <2>2. CASE WrapLine /\ ~(x >= Columns)
    <3>1. x' = x /\ Go("scroll") /\ main.pc = "wrap"
      BY <2>2 DEF WrapLine, Thread, console
    <3> QED BY <2>2, <3>1
  <2>3. CASE EndLine
    <3>1. x' = 0 /\ Go("line") /\ main.pc = "full"
      BY <2>3 DEF EndLine, Thread
    <3> QED BY <3>1
  <2> QED BY <2>1, <2>2, <2>3
<1>3. /\ main' \in [pc : PCs, char : Chars, reg : Nat, loaded : BOOLEAN]
      /\ main'.pc = pc /\ main'.char = main.char /\ ~main'.loaded
  <2>1. pc \in PCs
    BY <1>2 DEF PCs
  <2> QED BY <1>2, <2>1, Goes DEF ConsoleInv
<1>4. x \in Nat /\ y \in Nat /\ x' \in Words /\ x' \in Nat
  BY <1>2, HereTyped, SizeFits DEF ConsoleInv, Types, Words
<1>5. Types'
  BY <1>1, <1>2, <1>3, <1>4 DEF ConsoleInv, Types
<1>6. CursorPlace'
  BY <1>1, <1>2, <1>3, <1>4, SizeFits DEF ConsoleInv, CursorPlace, OnScreen, Here
<1>7. StorePlace'
  BY <1>1, <1>2, <1>3 DEF ConsoleInv, StorePlace
<1>8. BarStays'
  BY <1>1 DEF ConsoleInv, BarStays, Bars
<1> QED BY <1>5, <1>6, <1>7, <1>8 DEF ConsoleInv

LEMMA MoveYStep ==
  ASSUME ConsoleInv, MoveY
  PROVE  ConsoleInv'
<1>1. /\ main.pc \in {"newline", "line"} /\ halted = "no"
      /\ UNCHANGED <<screen, x, strayed, halted, text>>
  BY DEF MoveY, Thread, keyboard, history
<1>2. x \in Nat /\ y \in Nat /\ main.reg \in Nat /\ y \in Words
  BY HereTyped DEF ConsoleInv, Types
<1>3. BarStays'
  BY <1>1 DEF ConsoleInv, BarStays, Bars
<1>4. CASE ~main.loaded
  <2>1. main' = [main EXCEPT !.reg = y, !.loaded = TRUE] /\ y' = y
    BY <1>4 DEF MoveY
  <2>2. /\ main' \in [pc : PCs, char : Chars, reg : Nat, loaded : BOOLEAN]
        /\ main'.pc = main.pc /\ main'.char = main.char /\ main'.reg = y
    BY <1>2, <2>1 DEF ConsoleInv, Types
  <2>3. Types'
    BY <1>1, <2>1, <2>2 DEF ConsoleInv, Types
  <2>4. CursorPlace'
    BY <1>1, <1>2, <2>1, <2>2, SizeFits DEF ConsoleInv, CursorPlace, OnScreen, Here
  <2>5. StorePlace'
    BY <1>1, <2>1, <2>2 DEF ConsoleInv, StorePlace
  <2> QED BY <1>3, <2>3, <2>4, <2>5 DEF ConsoleInv
<1>5. CASE main.loaded
  <2>1. PICK pc \in {"wrap", "scroll"} : y' = Word(main.reg + 1) /\ Go(pc)
    BY <1>1, <1>5 DEF MoveY
  <2>2. /\ main' \in [pc : PCs, char : Chars, reg : Nat, loaded : BOOLEAN]
        /\ main'.pc = pc /\ main'.char = main.char /\ ~main'.loaded
    <3>1. pc \in PCs
      BY <2>1 DEF PCs
    <3> QED BY <2>1, <3>1, Goes DEF ConsoleInv
  <2>3. y' \in Words
    BY <1>2, <2>1, WordRange
  <2>4. Types'
    BY <1>1, <2>1, <2>2, <2>3 DEF ConsoleInv, Types
  <2>5. ~strayed => y' \in 1..Rows /\ x < Columns
    <3> SUFFICES ASSUME ~strayed PROVE y' \in 1..Rows /\ x < Columns
      OBVIOUS
    <3>1. main.reg \in 1..(Rows - 1) /\ x < Columns
      BY <1>1, <1>5 DEF ConsoleInv, CursorPlace, OnScreen, Here
    <3>2. main.reg + 1 \in Words /\ main.reg + 1 \in 1..Rows
      BY <1>2, <3>1, SizeFits DEF Words
    <3>3. y' = main.reg + 1
      BY <2>1, <3>2, WordRange
    <3> QED BY <3>1, <3>2, <3>3
  <2>6. CursorPlace'
    BY <1>1, <2>1, <2>2, <2>5 DEF CursorPlace
  <2>7. StorePlace'
    BY <1>1, <1>2, <2>1, <2>2, <2>5, SizeFits DEF ConsoleInv, StorePlace
  <2> QED BY <1>3, <2>4, <2>6, <2>7 DEF ConsoleInv
<1>6. main.loaded \in BOOLEAN
  BY DEF ConsoleInv, Types
<1> QED BY <1>4, <1>5, <1>6

LEMMA ScrollSteps ==
  ASSUME ConsoleInv, ScrollStart \/ CopyRow \/ BlankRow \/ LastRow
  PROVE  ConsoleInv'
<1>1. /\ main.pc \in {"scroll", "copy", "last"} /\ halted = "no"
      /\ UNCHANGED <<x, strayed, halted, text>>
  BY DEF ScrollStart, CopyRow, BlankRow, LastRow, Thread, keyboard, history, console
<1>2. /\ x \in Nat /\ y \in Nat /\ main.reg \in Nat /\ screen \in Screens
      /\ 1 \in 1..(Rows - 1) /\ Rows - 1 \in 1..(Rows - 1) /\ Rows - 1 \in Words
  BY HereTyped, SizeFits DEF ConsoleInv, Types, Words
<1>3. CASE ScrollStart
  <2>1. /\ main.pc = "scroll" /\ UNCHANGED <<screen, y>>
        /\ main' = IF y >= Rows THEN [main EXCEPT !.pc = "copy", !.reg = 1] ELSE Idle
    BY <1>3 DEF ScrollStart, Thread, console
  <2>2. /\ main' \in [pc : PCs, char : Chars, reg : Nat, loaded : BOOLEAN]
        /\ \/ main'.pc = "copy" /\ main'.reg = 1 /\ main'.char = main.char
           \/ main'.pc = "idle" /\ main'.char = Blank /\ ~(y >= Rows)
    <3>1. CASE y >= Rows
      <4>1. main' = [main EXCEPT !.pc = "copy", !.reg = 1]
        BY <2>1, <3>1
      <4> QED BY <4>1 DEF ConsoleInv, Types, PCs
    <3>2. CASE ~(y >= Rows)
      <4>1. main' = Idle
        BY <2>1, <3>2
      <4> QED BY <3>2, <4>1 DEF Idle, PCs, Chars
    <3> QED BY <3>1, <3>2
  <2>3. Types'
    BY <1>1, <1>2, <2>1, <2>2 DEF ConsoleInv, Types
  <2>4. CursorPlace'
    BY <1>1, <1>2, <2>1, <2>2, SizeFits DEF ConsoleInv, CursorPlace, OnScreen, Here
  <2>5. StorePlace'
    BY <1>1, <2>1, <2>2 DEF ConsoleInv, StorePlace, Blank
  <2>6. BarStays'
    BY <1>1, <2>1 DEF ConsoleInv, BarStays, Bars
  <2> QED BY <2>3, <2>4, <2>5, <2>6 DEF ConsoleInv
<1>4. CASE CopyRow
  <2>1. /\ main.pc = "copy" /\ main.reg < Rows - 1 /\ y' = y
        /\ screen' = CopiedRowUp(screen, main.reg)
        /\ main' = [main EXCEPT !.reg = @ + 1]
    BY <1>4 DEF CopyRow, Thread
  <2>2. main.reg \in 1..(Rows - 2) /\ main.reg + 1 \in 1..(Rows - 1) /\ main.reg + 1 \in Nat
    <3>1. main.reg \in 1..(Rows - 1) /\ main.reg < Rows - 1
      BY <2>1 DEF ConsoleInv, Types
    <3>2. PICK r \in 1..(Rows - 1) : r = main.reg
      BY <3>1
    <3>3. Rows \in Nat
      BY SizeFits
    <3>4. r < Rows - 1
      BY <3>1, <3>2
    <3>5. r \in 1..(Rows - 2) /\ r + 1 \in 1..(Rows - 1) /\ r + 1 \in Nat
      BY <3>3, <3>4
    <3> QED BY <3>2, <3>5
  <2>3. /\ main' \in [pc : PCs, char : Chars, reg : Nat, loaded : BOOLEAN]
        /\ main'.pc = "copy" /\ main'.reg = main.reg + 1 /\ main'.char = main.char
    BY <2>1, <2>2 DEF ConsoleInv, Types
  <2>4. screen' \in Screens /\ \A c \in Cells : c < Columns => screen'[c] = screen[c]
    BY <1>2, <2>1, <2>2, CopiedRowUpIs
  <2>5. Types'
    BY <1>1, <2>1, <2>2, <2>3, <2>4 DEF ConsoleInv, Types
  <2>6. CursorPlace'
    BY <1>1, <2>1, <2>3 DEF ConsoleInv, CursorPlace
  <2>7. StorePlace'
    BY <1>1, <2>1, <2>3 DEF ConsoleInv, StorePlace
  <2>8. BarStays'
    BY <1>1, <2>4 DEF ConsoleInv, BarStays, Bars
  <2> QED BY <2>5, <2>6, <2>7, <2>8 DEF ConsoleInv
<1>5. CASE BlankRow
  <2>1. main.pc = "copy" /\ y' = y /\ screen' = RowBlank(screen, Rows - 1) /\ Go("last")
    BY <1>5 DEF BlankRow, Thread, LastRowBlank
  <2>2. /\ main' \in [pc : PCs, char : Chars, reg : Nat, loaded : BOOLEAN]
        /\ main'.pc = "last" /\ main'.char = main.char
    <3>1. "last" \in PCs
      BY DEF PCs
    <3> QED BY <2>1, <3>1, Goes DEF ConsoleInv
  <2>3. screen' \in Screens /\ \A c \in Cells : c < Columns => screen'[c] = screen[c]
    BY <1>2, <2>1, RowBlankIs
  <2>4. Types'
    BY <1>1, <2>1, <2>2, <2>3 DEF ConsoleInv, Types
  <2>5. CursorPlace'
    BY <1>1, <2>1, <2>2 DEF ConsoleInv, CursorPlace
  <2>6. StorePlace'
    BY <1>1, <2>1, <2>2 DEF ConsoleInv, StorePlace
  <2>7. BarStays'
    BY <1>1, <2>3 DEF ConsoleInv, BarStays, Bars
  <2> QED BY <2>4, <2>5, <2>6, <2>7 DEF ConsoleInv
<1>6. CASE LastRow
  <2>1. main.pc = "last" /\ y' = Rows - 1 /\ screen' = screen /\ main' = Idle
    BY <1>6 DEF LastRow, Thread
  <2>2. /\ main' \in [pc : PCs, char : Chars, reg : Nat, loaded : BOOLEAN]
        /\ main'.pc = "idle" /\ main'.char = Blank
    BY <2>1 DEF Idle, PCs, Chars
  <2>3. Types'
    BY <1>1, <1>2, <2>1, <2>2 DEF ConsoleInv, Types
  <2>4. CursorPlace'
    BY <1>1, <1>2, <2>1, <2>2, SizeFits DEF ConsoleInv, CursorPlace, OnScreen, Here
  <2>5. StorePlace'
    BY <2>2 DEF StorePlace, Blank
  <2>6. BarStays'
    BY <1>1, <2>1 DEF ConsoleInv, BarStays, Bars
  <2> QED BY <2>3, <2>4, <2>5, <2>6 DEF ConsoleInv
<1> QED BY <1>3, <1>4, <1>5, <1>6
-----------------------------------------------------------------------------
(* kprint is kputc of one character after the other (vga.c:152-159).        *)
LEMMA KprintIs ==
  ASSUME NEW s \in Consoles, NEW n \in Nat, NEW chars \in [1..n -> Glyphs]
  PROVE  \E f \in [0..n -> Consoles] :
           /\ f[0] = s /\ Kprint(s, chars) = f[n]
           /\ \A k \in 1..n : f[k] = Kputc(f[k - 1], chars[k])
<1> DEFINE G == [kx \in (1..n) \X Consoles |-> Kputc(kx[2], chars[kx[1]])]
<1>1. G \in StepFunctions(n, Consoles)
  <2>1. \A kx \in (1..n) \X Consoles : Kputc(kx[2], chars[kx[1]]) \in Consoles
    BY KputcLands
  <2> QED BY <2>1 DEF StepFunctions
<1>2. PICK f \in [0..n -> Consoles] : SolvesRecursion(f, n, s, G)
  <2> HIDE DEF G
  <2> QED BY <1>1, RecursionSolved
<1>3. \A k \in 1..n : f[k] = Kputc(f[k - 1], chars[k])
  <2> SUFFICES ASSUME NEW k \in 1..n PROVE f[k] = Kputc(f[k - 1], chars[k])
    OBVIOUS
  <2>1. k - 1 \in 0..n
    OBVIOUS
  <2>2. <<k, f[k - 1]>> \in (1..n) \X Consoles
    BY <2>1
  <2>3. f[k] = G[<<k, f[k - 1]>>]
    BY <1>2 DEF SolvesRecursion
  <2> QED BY <2>2, <2>3
<1> HIDE DEF G
<1>4. Len(chars) = n
  OBVIOUS
<1>5. f = [m \in 0..Len(chars) |-> IF m = 0 THEN s ELSE Kputc(f[m - 1], chars[m])]
  <2>1. \A m \in 0..n : m # 0 => m \in 1..n
    OBVIOUS
  <2>2. f[0] = s
    BY <1>2 DEF SolvesRecursion
  <2> QED BY <1>3, <1>4, <2>1, <2>2
<1> DEFINE after[m \in 0..Len(chars)] == IF m = 0 THEN s ELSE Kputc(after[m - 1], chars[m])
<1>6. Kprint(s, chars) = after[n]
  BY <1>4, Zenon DEF Kprint
<1>7. after = [m \in 0..Len(chars) |-> IF m = 0 THEN s ELSE Kputc(after[m - 1], chars[m])]
  BY <1>5, Zenon DEF after
<1> HIDE DEF after
<1>8. after[0] = s /\ \A k \in 1..n : after[k] = Kputc(after[k - 1], chars[k])
  <2>1. \A m \in 0..n : after[m] = IF m = 0 THEN s ELSE Kputc(after[m - 1], chars[m])
    BY <1>4, <1>7
  <2>2. \A m \in 1..n : m \in 0..n /\ m # 0
    OBVIOUS
  <2> QED BY <2>1, <2>2
<1>9. \A k \in 0..n : after[k] \in Consoles
  <2> DEFINE P == {k \in 0..n : after[k] \in Consoles}
  <2>1. 0 \in P
    BY <1>8
  <2>2. ASSUME NEW k \in 0..(n - 1), k \in P PROVE k + 1 \in P
    <3>1. k + 1 \in 1..n /\ k + 1 - 1 = k /\ k + 1 \in 0..n
      OBVIOUS
    <3>2. after[k + 1] = Kputc(after[k], chars[k + 1])
      BY <1>8, <3>1
    <3> QED BY <2>2, <3>1, <3>2, KputcLands
  <2>3. 0..n \subseteq P
    <3> HIDE DEF P
    <3> QED BY <2>1, <2>2, UpTo
  <2> QED BY <2>3
<1>10. after \in [0..n -> Consoles]
  BY <1>4, <1>7, <1>9
<1> QED BY <1>6, <1>8, <1>10
LEMMA KprintKeepsBar ==
  ASSUME NEW s \in Consoles, Placed(s), NEW n \in Nat, NEW chars \in [1..n -> Glyphs \ {"erase"}]
  PROVE  SameBar(s, Kprint(s, chars)) /\ Placed(Kprint(s, chars)) /\ Kprint(s, chars) \in Consoles
<1>1. PICK f \in [0..n -> Consoles] :
        /\ f[0] = s /\ Kprint(s, chars) = f[n]
        /\ \A k \in 1..n : f[k] = Kputc(f[k - 1], chars[k])
  <2>1. chars \in [1..n -> Glyphs]
    OBVIOUS
  <2> QED BY <2>1, KprintIs, ZenonT(40)
<1> DEFINE P == {k \in 0..n : SameBar(s, f[k]) /\ Placed(f[k])}
<1>2. 0 \in P
  BY <1>1 DEF SameBar
<1>3. ASSUME NEW k \in 0..(n - 1), k \in P PROVE k + 1 \in P
  <2>1. k + 1 \in 1..n /\ k + 1 - 1 = k /\ k + 1 \in 0..n /\ k \in 0..n
    OBVIOUS
  <2>2. f[k + 1] = Kputc(f[k], chars[k + 1]) /\ f[k] \in Consoles /\ chars[k + 1] \in Glyphs \ {"erase"}
    BY <1>1, <2>1
  <2>3. SameBar(s, f[k]) /\ Placed(f[k])
    BY <1>3
  <2> DEFINE t == f[k]
             r == f[k + 1]
  <2> HIDE DEF t
  <2>4. SameBar(t, r) /\ r \in Consoles /\ OnScreen(r)
    <3>1. t \in Consoles /\ r = Kputc(t, chars[k + 1]) /\ Placed(t) /\ t.y \in 1..Rows
      BY <2>2, <2>3 DEF t, Placed
    <3> HIDE DEF r
    <3> QED BY <2>2, <3>1, KputcKeepsBar, KputcLands
  <2> HIDE DEF r
  <2>5. SameBar(s, r)
    BY <2>3, <2>4 DEF SameBar, t
  <2>6. Placed(r)
    BY <2>4, SizeFits DEF Placed, OnScreen, Consoles, Words
  <2> QED BY <2>1, <2>5, <2>6 DEF r
<1>4. 0..n \subseteq P
  <2> HIDE DEF P
  <2> QED BY <1>2, <1>3, UpTo
<1> QED BY <1>1, <1>4

LEMMA PanicTyped ==
  /\ Len(PanicText) \in Nat
  /\ PanicText \in [1..Len(PanicText) -> Glyphs \ {"erase"}]
  /\ PanicText \in [1..Len(PanicText) -> Glyphs]
<1>1. PanicText \in Seq(Range(PanicText)) /\ "erase" \notin Range(PanicText)
  BY ConsoleParameters
<1>2. Range(PanicText) \subseteq Glyphs
  BY DEF Glyphs
<1>3. \A k \in 1..Len(PanicText) : PanicText[k] \in Range(PanicText)
  BY <1>1
<1> QED BY <1>1, <1>2, <1>3

-----------------------------------------------------------------------------
(* A newline starts a line on the screen, a glyph follows what is there.    *)
LEMMA KputcNewline ==
  ASSUME NEW s \in Consoles
  PROVE  Kputc(s, "newline").x = 0 /\ Kputc(s, "newline").y < Rows
         /\ Kputc(s, "newline") \in Consoles
<1> DEFINE t == Put(s, "newline")
<1>1. "newline" \in Glyphs
  BY DEF Glyphs
<1>2. t \in Consoles /\ t.x = 0
  BY <1>1, PutIs
<1> HIDE DEF t
<1>3. Wrap(t) = t
  BY <1>2, WrapIs, SizeFits
<1>4. Scroll(t).x = 0
  BY <1>2, ScrollIs
<1> QED BY <1>1, <1>3, <1>4, KputcLands DEF Kputc, Put, t

LEMMA KputcGlyph ==
  ASSUME NEW s \in Consoles, s.x + 1 < Columns, s.y < Rows, NEW char \in Glyphs \ Control
  PROVE  /\ Kputc(s, char) \in Consoles
         /\ Kputc(s, char).x = s.x + 1 /\ Kputc(s, char).y = s.y
         /\ s.y * Columns + s.x \in Cells
         /\ \A c \in Cells : Kputc(s, char).screen[c]
                             = IF c = s.y * Columns + s.x THEN char ELSE s.screen[c]
<1> DEFINE t == Put(s, char)
<1>1. s.x \in Nat /\ s.y \in Nat /\ s.x < Columns /\ Columns \in Nat /\ Rows \in Nat
      /\ s.x + 1 \in Words
  BY SizeFits DEF Consoles, Words
<1>2. /\ t \in Consoles /\ t.x = Word(s.x + 1)
      /\ \A c \in Cells : t.screen[c] = IF c = Index(s) THEN char ELSE s.screen[c]
  BY PutIs
<1>3. t.y = s.y
  BY PutIs DEF Control
<1>4. t.x = s.x + 1
  BY <1>1, <1>2, WordRange
<1>5. Index(s) = s.y * Columns + s.x /\ Index(s) \in Cells
  <2>1. s.y \in 0..Rows /\ s.x <= Columns + 4
    BY <1>1
  <2> QED BY <1>1, <2>1, IndexIs
<1> HIDE DEF t
<1>6. Wrap(t) = t /\ Scroll(t) = t
  <2>1. t.x < Columns /\ t.y < Rows
    BY <1>3, <1>4
  <2> QED BY <1>2, <2>1, WrapIs, ScrollIs
<1>7. Kputc(s, char) = t
  BY <1>6 DEF Kputc, Put, t
<1> QED BY <1>2, <1>3, <1>4, <1>5, <1>7
(* The last line of a panic, and where it starts.                           *)
LEMMA LastNewline ==
  \E p \in 1..Len(PanicText) :
    /\ PanicText[p] = "newline"
    /\ \A m \in (p + 1)..Len(PanicText) : PanicText[m] \in Glyphs \ Control
    /\ Len(LastLine) = Len(PanicText) - p
    /\ \A k \in 1..Len(LastLine) : LastLine[k] = PanicText[p + k]
<1> DEFINE n == Len(PanicText)
           I == {k \in 1..n : PanicText[k] = "newline"}
           J == {n - k : k \in I}
<1>1. n \in Nat /\ PanicText \in [1..n -> Glyphs]
  BY PanicTyped
<1>2. I # {}
  <2>1. "newline" \in Range(PanicText)
    BY PanicParameters
  <2>2. PICK k \in DOMAIN PanicText : PanicText[k] = "newline"
    BY <2>1 DEF Range
  <2> QED BY <1>1, <2>2
<1>3. PICK m \in J : \A j \in J : m <= j
  <2>1. J \subseteq Nat /\ J # {}
    BY <1>1, <1>2
  <2> QED BY <2>1, LeastExists
<1>4. PICK p \in I : m = n - p
  OBVIOUS
<1>5. \A k \in I : k <= p
  <2> SUFFICES ASSUME NEW k \in I PROVE k <= p
    OBVIOUS
  <2>1. n - k \in J
    OBVIOUS
  <2>2. m <= n - k
    BY <1>3, <2>1
  <2> QED BY <1>1, <1>4, <2>2
<1>6. SelectLastInSeq(PanicText, LAMBDA char : char = "newline") = p
  <2>1. SelectLastInSeq(PanicText, LAMBDA char : char = "newline") = IF I # {} THEN Max(I) ELSE 0
    BY DEF SelectLastInSeq
  <2>2. Max(I) = p
    <3>1. I \subseteq Nat
      BY <1>1
    <3> QED BY <1>5, <3>1 DEF Max
  <2> QED BY <1>2, <2>1, <2>2
<1>7. LastLine = SubSeq(PanicText, p + 1, n)
  BY <1>6 DEF LastLine
<1>8. /\ Len(LastLine) = n - p
      /\ \A k \in 1..Len(LastLine) : LastLine[k] = PanicText[p + k]
  <2>1. PanicText \in Seq(Glyphs) /\ p + 1 \in 1..(n + 1) /\ n \in ((p + 1) - 1)..n /\ p \in Nat
    BY <1>1
  <2> HIDE DEF I
  <2>2. /\ Len(LastLine) = n - (p + 1) + 1
        /\ \A k \in 1..(n - (p + 1) + 1) : LastLine[k] = PanicText[(p + 1) + k - 1]
    BY <1>7, <2>1, SubSeqProperties
  <2>3. n - (p + 1) + 1 = n - p /\ \A k \in 1..(n - p) : (p + 1) + k - 1 = p + k
    BY <1>1, <2>1
  <2> QED BY <2>2, <2>3
<1>9. ASSUME NEW k \in (p + 1)..n PROVE PanicText[k] \in Glyphs \ Control
  <2>1. k \in 1..n /\ ~(k <= p)
    BY <1>1
  <2>2. PanicText[k] # "newline"
    BY <1>5, <2>1
  <2>3. PanicText[k] \in Range(PanicText) /\ PanicText[k] \in Glyphs
    BY <1>1, <2>1 DEF Range
  <2> QED BY <2>2, <2>3, ConsoleParameters DEF Control
<1> QED BY <1>4, <1>8, <1>9

LEMMA LastLineShown ==
  ASSUME NEW s \in Consoles
  PROVE  LET r == Kprint(s, PanicText)
         IN /\ r.y < Rows /\ r.x = Len(LastLine)
            /\ \A k \in 1..Len(LastLine) : r.screen[r.y * Columns + k - 1] = LastLine[k]
<1> DEFINE n == Len(PanicText)
           l == Len(LastLine)
<1>1. n \in Nat /\ PanicText \in [1..n -> Glyphs]
  BY PanicTyped
<1>2. PICK f \in [0..n -> Consoles] :
        /\ f[0] = s /\ Kprint(s, PanicText) = f[n]
        /\ \A k \in 1..n : f[k] = Kputc(f[k - 1], PanicText[k])
  <2> HIDE DEF n
  <2> QED BY <1>1, KprintIs
<1>3. PICK p \in 1..n :
        /\ PanicText[p] = "newline"
        /\ \A m \in (p + 1)..n : PanicText[m] \in Glyphs \ Control
        /\ l = n - p
        /\ \A k \in 1..l : LastLine[k] = PanicText[p + k]
  BY LastNewline
<1>4. l \in Nat /\ l < Columns /\ p + l = n /\ p \in Nat
  BY <1>1, <1>3, PanicParameters
<1> HIDE DEF n, l
<1>5. f[p].x = 0 /\ f[p].y < Rows /\ f[p] \in Consoles
  <2>1. f[p] = Kputc(f[p - 1], "newline") /\ p - 1 \in 0..n
    BY <1>1, <1>2, <1>3
  <2> QED BY <1>2, <2>1, KputcNewline
<1> DEFINE v == f[p].y
           Line(k) == /\ f[p + k].x = k /\ f[p + k].y = v
                      /\ \A j \in 1..k : f[p + k].screen[v * Columns + j - 1] = LastLine[j]
           P == {k \in 0..l : Line(k)}
<1>6. 0 \in P
  BY <1>4, <1>5
<1>7. ASSUME NEW k \in 0..(l - 1), k \in P PROVE k + 1 \in P
  <2>1. /\ k \in Nat /\ k + 1 \in 1..l /\ k + 1 \in 0..l /\ p + (k + 1) \in 1..n
        /\ p + (k + 1) - 1 = p + k /\ p + k \in 0..n /\ p + (k + 1) \in (p + 1)..n
    BY <1>1, <1>3, <1>4
  <2>2. /\ f[p + (k + 1)] = Kputc(f[p + k], LastLine[k + 1])
        /\ LastLine[k + 1] \in Glyphs \ Control
        /\ f[p + k] \in Consoles /\ f[p + (k + 1)] \in Consoles
    <3>1. LastLine[k + 1] = PanicText[p + (k + 1)]
      BY <1>3, <2>1
    <3>2. f[p + (k + 1)] = Kputc(f[p + (k + 1) - 1], PanicText[p + (k + 1)])
      BY <1>2, <2>1
    <3>3. PanicText[p + (k + 1)] \in Glyphs \ Control
      BY <1>3, <2>1
    <3>4. f[p + k] \in Consoles /\ f[p + (k + 1)] \in Consoles
      BY <1>2, <2>1
    <3> QED BY <2>1, <3>1, <3>2, <3>3, <3>4
  <2> DEFINE t == f[p + k]
             r == f[p + (k + 1)]
             glyph == LastLine[k + 1]
  <2>3. /\ t.x = k /\ t.y = v
        /\ \A j \in 1..k : t.screen[v * Columns + j - 1] = LastLine[j]
    BY <1>7
  <2>4. t \in Consoles /\ r = Kputc(t, glyph) /\ glyph \in Glyphs \ Control
    BY <2>2
  <2>5. v \in Nat /\ v < Rows /\ Columns \in Nat
    BY <1>5, SizeFits DEF Consoles, Words
  <2> HIDE DEF t, r, glyph, v
  <2>6. /\ r.x = k + 1 /\ r.y = v /\ v * Columns + k \in Cells
        /\ \A c \in Cells : r.screen[c] = IF c = v * Columns + k THEN glyph ELSE t.screen[c]
    <3>1. t.x + 1 < Columns /\ t.y < Rows
      BY <1>4, <2>1, <2>3, <2>5
    <3> QED BY <2>3, <2>4, <3>1, KputcGlyph
  <2>7. ASSUME NEW j \in 1..(k + 1) PROVE r.screen[v * Columns + j - 1] = LastLine[j]
    <3> DEFINE start == v * Columns
               size == Rows * Columns
    <3>1. start \in Nat /\ size \in Nat /\ start + Columns <= size
      <4>1. v \in 0..(Rows - 1)
        BY <2>5, SizeFits
      <4> QED BY <4>1, RowStart
    <3> HIDE DEF start, size
    <3>2. start + j - 1 \in 0..(size - 1)
      BY <1>4, <2>1, <2>5, <3>1
    <3>3. start + j - 1 \in Cells
      BY <3>2 DEF Cells, size
    <3>4. CASE j = k + 1
      <4>1. start + j - 1 = start + k
        BY <2>1, <3>1, <3>4
      <4> QED BY <2>6, <3>3, <3>4, <4>1 DEF start, glyph
    <3>5. CASE j # k + 1
      <4>1. j \in 1..k /\ start + j - 1 # start + k
        BY <2>1, <3>1, <3>5
      <4>2. r.screen[start + j - 1] = t.screen[start + j - 1]
        BY <2>6, <3>3, <4>1 DEF start
      <4> QED BY <2>3, <4>1, <4>2 DEF start
    <3> QED BY <3>4, <3>5
  <2>8. Line(k + 1)
    BY <2>6, <2>7 DEF r, v
  <2> QED BY <2>1, <2>8
<1>8. Line(l)
  <2>1. 0..l \subseteq P
    <3> HIDE DEF P
    <3> QED BY <1>4, <1>6, <1>7, UpTo
  <2> QED BY <1>4, <2>1
<1> QED BY <1>2, <1>4, <1>5, <1>8 DEF l
-----------------------------------------------------------------------------
(* The status bar of system_panic: a whole row of it, after which the       *)
(* cursor is at the start of the row below (vga.c:161-181, 346-355).        *)
LEMMA KputcOnBar ==
  ASSUME NEW s \in Consoles, s.x < Columns, s.y = 0, NEW char \in Glyphs \ Control
  PROVE  /\ Kputc(s, char) \in Consoles
         /\ s.x + 1 < Columns => Kputc(s, char).x = s.x + 1 /\ Kputc(s, char).y = 0
         /\ s.x + 1 = Columns => Kputc(s, char).x = 0 /\ Kputc(s, char).y = 1
         /\ \A c \in Cells : Kputc(s, char).screen[c] = IF c = s.x THEN char ELSE s.screen[c]
<1> DEFINE t == Put(s, char)
           w == Wrap(t)
<1>1. /\ s.x \in Nat /\ Columns \in Nat /\ Rows \in Nat /\ Rows > 2 /\ s.x + 1 \in Words
      /\ 1 \in Words /\ 0 * Columns + s.x = s.x
  BY SizeFits DEF Consoles, Words
<1>2. /\ t \in Consoles /\ t.x = Word(s.x + 1)
      /\ \A c \in Cells : t.screen[c] = IF c = Index(s) THEN char ELSE s.screen[c]
  BY PutIs
<1>3. t.y = 0
  BY PutIs DEF Control
<1>4. t.x = s.x + 1
  BY <1>1, <1>2, WordRange
<1>5. Index(s) = s.x
  <2>1. s.y \in 0..Rows /\ s.x <= Columns + 4
    BY <1>1
  <2>2. Index(s) = s.y * Columns + s.x
    BY <2>1, IndexIs
  <2> QED BY <1>1, <2>2
<1> HIDE DEF t
<1>6. /\ w \in Consoles /\ w.screen = t.screen
      /\ t.x >= Columns => w.x = 0 /\ w.y = Word(t.y + 1)
      /\ t.x < Columns => w = t
  BY <1>2, WrapIs
<1>7. Word(t.y + 1) = 1
  BY <1>1, <1>3, WordRange
<1> HIDE DEF w
<1>8. w.y < Rows
  BY <1>1, <1>3, <1>4, <1>6, <1>7
<1>9. Kputc(s, char) = w
  <2>1. Scroll(w) = w
    BY <1>6, <1>8, ScrollIs
  <2> QED BY <2>1 DEF Kputc, Put, t, w
<1> QED BY <1>1, <1>2, <1>3, <1>4, <1>5, <1>6, <1>7, <1>9

LEMMA StyledIs ==
  ASSUME NEW s \in Consoles, NEW n \in Nat, NEW glyphs \in [1..n -> Glyphs \ Control]
  PROVE  WriteStyledString(s, glyphs) = Kprint(s, glyphs)
<1>1. ASSUME NEW t, NEW glyph \in Glyphs \ Control PROVE StyledChar(t, glyph) = Kputc(t, glyph)
  BY DEF StyledChar, Kputc, Advance, Place, Control
<1>2. PICK f \in [0..n -> Consoles] :
        /\ f[0] = s /\ Kprint(s, glyphs) = f[n]
        /\ \A k \in 1..n : f[k] = Kputc(f[k - 1], glyphs[k])
  <2>1. glyphs \in [1..n -> Glyphs]
    OBVIOUS
  <2> QED BY <2>1, KprintIs, ZenonT(40)
<1>3. Len(glyphs) = n
  OBVIOUS
<1>4. \A k \in 1..n : f[k] = StyledChar(f[k - 1], glyphs[k])
  BY <1>1, <1>2
<1>5. f = [m \in 0..Len(glyphs) |-> IF m = 0 THEN s ELSE StyledChar(f[m - 1], glyphs[m])]
  <2>1. \A m \in 0..n : m # 0 => m \in 1..n
    OBVIOUS
  <2> QED BY <1>2, <1>3, <1>4, <2>1
<1> DEFINE after[m \in 0..Len(glyphs)] ==
             IF m = 0 THEN s ELSE StyledChar(after[m - 1], glyphs[m])
<1>6. WriteStyledString(s, glyphs) = after[n]
  BY <1>3, Zenon DEF WriteStyledString
<1>7. after = [m \in 0..Len(glyphs) |-> IF m = 0 THEN s ELSE StyledChar(after[m - 1], glyphs[m])]
  BY <1>5, Zenon DEF after
<1> HIDE DEF after
<1>8. \A m \in 0..n : after[m] = IF m = 0 THEN s ELSE StyledChar(after[m - 1], glyphs[m])
  BY <1>3, <1>7
<1> DEFINE P == {k \in 0..n : after[k] = f[k]}
<1>9. 0 \in P
  BY <1>2, <1>8
<1>10. ASSUME NEW k \in 0..(n - 1), k \in P PROVE k + 1 \in P
  <2>1. k + 1 \in 1..n /\ k + 1 \in 0..n /\ k + 1 # 0 /\ k + 1 - 1 = k
    OBVIOUS
  <2>2. after[k + 1] = StyledChar(after[k], glyphs[k + 1])
    BY <1>8, <2>1
  <2>3. f[k + 1] = StyledChar(f[k], glyphs[k + 1])
    BY <1>4, <2>1
  <2> QED BY <1>10, <2>1, <2>2, <2>3
<1>11. 0..n \subseteq P
  <2> HIDE DEF P
  <2> QED BY <1>9, <1>10, UpTo
<1> QED BY <1>2, <1>6, <1>11

LEMMA MenubarIs ==
  ASSUME NEW s \in Consoles
  PROVE  LET r == SetMenubarText(s, Warning)
         IN /\ r \in Consoles /\ r.x = 0 /\ r.y = 1
            /\ \A c \in Cells : c < Columns => r.screen[c] = Warning
<1> DEFINE start == [s EXCEPT !.x = 0, !.y = 0]
           glyphs == [c \in 1..Columns |-> Warning]
<1>1. Columns \in Nat /\ Columns > 0 /\ Warning \in Glyphs \ Control
  BY SizeFits DEF Glyphs, Control, Warning
<1>2. start \in Consoles /\ start.x = 0 /\ start.y = 0
  <2>1. 0 \in Words
    BY SizeFits DEF Words
  <2> QED BY <2>1 DEF Consoles
<1>3. glyphs \in [1..Columns -> Glyphs \ Control] /\ glyphs \in [1..Columns -> Glyphs]
  BY <1>1
<1>4. SetMenubarText(s, Warning) = Kprint(start, glyphs)
  <2>1. SetMenubarText(s, Warning) = WriteStyledString(start, glyphs)
    BY DEF SetMenubarText
  <2> HIDE DEF start, glyphs
  <2> QED BY <1>1, <1>2, <1>3, <2>1, StyledIs
<1>5. PICK f \in [0..Columns -> Consoles] :
        /\ f[0] = start /\ Kprint(start, glyphs) = f[Columns]
        /\ \A k \in 1..Columns : f[k] = Kputc(f[k - 1], glyphs[k])
  <2> HIDE DEF start, glyphs
  <2>1. Columns \in Nat
    BY <1>1
  <2>2. start \in Consoles /\ glyphs \in [1..Columns -> Glyphs]
    BY <1>2, <1>3
  <2> QED BY <2>1, <2>2, KprintIs, ZenonT(40)
<1> HIDE DEF start
<1> DEFINE Full(k) == /\ k < Columns => f[k].x = k /\ f[k].y = 0
                      /\ k = Columns => f[k].x = 0 /\ f[k].y = 1
                      /\ \A c \in Cells : c < k => f[k].screen[c] = Warning
           P == {k \in 0..Columns : Full(k)}
<1>6. 0 \in P
  BY <1>1, <1>2, <1>5 DEF Cells
<1>7. ASSUME NEW k \in 0..(Columns - 1), k \in P PROVE k + 1 \in P
  <2>1. k + 1 \in 1..Columns /\ k + 1 - 1 = k /\ k \in 0..Columns /\ k + 1 \in 0..Columns /\ k < Columns
        /\ k # Columns
    BY <1>1
  <2> DEFINE t == f[k]
             r == f[k + 1]
  <2>2. t \in Consoles /\ r = Kputc(t, Warning)
    BY <1>5, <2>1
  <2>3. t.x = k /\ t.y = 0 /\ \A c \in Cells : c < k => t.screen[c] = Warning
    BY <1>7, <2>1
  <2> HIDE DEF t, r
  <2>4. /\ k + 1 < Columns => r.x = k + 1 /\ r.y = 0
        /\ k + 1 = Columns => r.x = 0 /\ r.y = 1
        /\ \A c \in Cells : r.screen[c] = IF c = k THEN Warning ELSE t.screen[c]
    BY <1>1, <2>1, <2>2, <2>3, KputcOnBar
  <2>5. \A c \in Cells : c < k + 1 => c = k \/ c < k
    BY SizeFits DEF Cells
  <2>6. Full(k + 1)
    BY <2>3, <2>4, <2>5 DEF r
  <2> QED BY <2>1, <2>6
<1>8. Full(Columns)
  <2>1. 0..Columns \subseteq P
    <3> HIDE DEF P
    <3> QED BY <1>1, <1>6, <1>7, UpTo
  <2> QED BY <1>1, <2>1
<1>9. f[Columns] \in Consoles
  BY <1>1, <1>5
<1> QED BY <1>4, <1>5, <1>8, <1>9
-----------------------------------------------------------------------------
(* clear_console in the thread (vga.c:44-58).                               *)
LEMMA ClearSteps ==
  ASSUME ConsoleInv, ClearConsole \/ ClearStep
  PROVE  ConsoleInv'
<1>1. /\ main.pc \in {"idle", "clear", "home", "row", "count"} /\ halted = "no"
      /\ UNCHANGED <<strayed, halted>>
  BY DEF ClearConsole, ClearStep, ClearRow, ClearEnd, HomeX, HomeY, CountClear, Thread, keyboard
<1>2. /\ x \in Words /\ y \in Words /\ 0 \in Words /\ 1 \in Words /\ 0 < Columns
      /\ 1 \in 1..Rows /\ 1 < Rows /\ Rows \in Nat /\ main.reg \in Nat
  BY SizeFits DEF ConsoleInv, Types, Words
<1>3. /\ ~strayed => OnScreen(Here) /\ y \in 1..Rows
      /\ NoErase /\ ~strayed => main.char # "erase"
  BY <1>1 DEF ConsoleInv, CursorPlace, StorePlace
<1>4. \E pc \in {"clear", "home", "row", "count", "idle"} :
        /\ main' \in [pc : PCs, char : Chars, reg : Nat, loaded : BOOLEAN]
        /\ main'.pc = pc /\ (pc = "clear" => main'.reg \in 1..Rows)
        /\ main'.char \in {Blank, main.char}
        /\ x' \in {0, x} /\ y' \in {1, y}
        /\ screen' \in Screens /\ \A c \in Cells : c < Columns => screen'[c] = screen[c]
        /\ text' \in Seq(Glyphs \union {"clear"})
  <2>1. screen \in Screens /\ text \in Seq(Glyphs \union {"clear"})
    BY DEF ConsoleInv, Types
  <2>2. CASE ClearConsole
    <3>1. main' = [Idle EXCEPT !.pc = "clear", !.reg = 1] /\ UNCHANGED <<screen, x, y>>
          /\ text' = Append(text, "clear")
      BY <2>2 DEF ClearConsole, console, Record
    <3>2. main' = [pc |-> "clear", char |-> Blank, reg |-> 1, loaded |-> FALSE]
      BY <3>1 DEF Idle
    <3>3. main' \in [pc : PCs, char : Chars, reg : Nat, loaded : BOOLEAN]
      BY <3>2 DEF PCs, Chars
    <3>4. text' \in Seq(Glyphs \union {"clear"})
      BY <2>1, <3>1
    <3>5. main'.pc = "clear" /\ main'.reg \in 1..Rows /\ main'.char = Blank
      BY <1>2, <3>2
    <3> QED BY <2>1, <3>1, <3>3, <3>4, <3>5
  <2>3. CASE ClearRow
    <3>1. /\ main.pc = "clear" /\ main.reg < Rows /\ screen' = RowBlank(screen, main.reg)
          /\ main' = [main EXCEPT !.reg = @ + 1] /\ UNCHANGED <<x, y, text>>
      BY <2>3 DEF ClearRow, Thread, history
    <3>2. main.reg \in 1..(Rows - 1) /\ main.reg + 1 \in 1..Rows /\ main.reg + 1 \in Nat
      BY <1>2, <3>1 DEF ConsoleInv, Types
    <3>3. screen' \in Screens /\ \A c \in Cells : c < Columns => screen'[c] = screen[c]
      BY <2>1, <3>1, <3>2, RowBlankIs
    <3>4. main' \in [pc : PCs, char : Chars, reg : Nat, loaded : BOOLEAN] /\ main'.pc = "clear"
          /\ main'.reg = main.reg + 1 /\ main'.char = main.char
      BY <3>1, <3>2 DEF ConsoleInv, Types
    <3> QED BY <2>1, <3>1, <3>2, <3>3, <3>4
  <2>4. CASE ClearEnd \/ HomeX \/ HomeY
    <3>1. PICK pc \in {"home", "row", "count"} :
            /\ Go(pc) /\ x' \in {0, x} /\ y' \in {1, y} /\ UNCHANGED <<screen, text>>
      <4>1. CASE ClearEnd
        BY <4>1 DEF ClearEnd, console, history
      <4>2. CASE HomeX
        BY <4>2 DEF HomeX, keyboard, history
      <4>3. CASE HomeY
        BY <4>3 DEF HomeY, keyboard, history
      <4> QED BY <2>4, <4>1, <4>2, <4>3
    <3>2. /\ main' \in [pc : PCs, char : Chars, reg : Nat, loaded : BOOLEAN]
          /\ main'.pc = pc /\ main'.char = main.char
      <4>1. pc \in PCs
        BY <3>1 DEF PCs
      <4> QED BY <3>1, <4>1, Goes DEF ConsoleInv
    <3> QED BY <2>1, <3>1, <3>2
  <2>5. CASE CountClear
    <3>1. main' = Idle /\ UNCHANGED <<screen, x, y, text>>
      BY <2>5 DEF CountClear, console
    <3>2. main' \in [pc : PCs, char : Chars, reg : Nat, loaded : BOOLEAN] /\ main'.pc = "idle"
          /\ main'.char = Blank
      BY <3>1 DEF Idle, PCs, Chars
    <3> QED BY <2>1, <3>1, <3>2
  <2> QED BY <2>2, <2>3, <2>4, <2>5 DEF ClearStep
<1>5. x' \in Words /\ y' \in Words
  BY <1>2, <1>4
<1>6. ~strayed => OnScreen(Here)' /\ y' \in 1..Rows /\ x' < Columns
  BY <1>2, <1>3, <1>4 DEF OnScreen, Here, Words
<1>7. Types'
  BY <1>1, <1>4, <1>5 DEF ConsoleInv, Types
<1>8. CursorPlace'
  BY <1>1, <1>4, <1>6 DEF CursorPlace
<1>9. StorePlace'
  BY <1>1, <1>3, <1>4, <1>6 DEF StorePlace, Blank
<1>10. BarStays'
  BY <1>1, <1>4 DEF ConsoleInv, BarStays, Bars
<1> QED BY <1>7, <1>8, <1>9, <1>10 DEF ConsoleInv

-----------------------------------------------------------------------------
(* The keyboard interrupt (keyboard.c:103-179).                             *)
LEMMA CharsOfKeys ==
  ASSUME NEW key \in Keys, key \notin Arrows \union {"release", "shift"}
  PROVE  KeyChar(key) \in Glyphs /\ (KeyChar(key) = "erase" <=> key = "backspace")
<1>1. key \in {"enter", "backspace", "tabulator", "letter", "unmapped"}
  BY ConsoleParameters DEF Scancodes
<1> QED BY <1>1 DEF KeyChar, Glyphs

LEMMA EchoStep ==
  ASSUME ConsoleInv, NEW key \in Keys, key \notin Arrows \union {"release", "shift"},
         halted = "no", UNCHANGED <<main, halted>>, Becomes(Echoed(key)), Typed(key)
  PROVE  ConsoleInv'
<1> DEFINE char == KeyChar(key)
           s == Kputc(Here, char)
           r == Echoed(key)
<1>1. Here \in Consoles /\ char \in Glyphs /\ (char = "erase" <=> key = "backspace")
  BY HereTyped, CharsOfKeys DEF ConsoleInv
<1>2. r = IF key = "backspace" THEN Backspace(s) ELSE s
  BY DEF Echoed
<1>3. screen' = r.screen /\ x' = r.x /\ y' = r.y
  BY DEF Becomes
<1>4. /\ strayed' = (strayed \/ (key = "backspace" /\ ~BehindGlyph))
      /\ text' = IF key # "backspace" THEN Append(text, char)
                 ELSE IF BehindGlyph THEN Front(text) ELSE text
  BY DEF Typed, Record
<1>5. s \in Consoles /\ (Here.y \in 1..Rows => OnScreen(s))
  <2> HIDE DEF char
  <2> QED BY <1>1, KputcLands
<1> HIDE DEF s, r, char
<1>6. s.x \in Nat /\ s.y \in Nat /\ s.x \in Words /\ s.y \in Words /\ s.screen \in Screens
      /\ s = [screen |-> s.screen, x |-> s.x, y |-> s.y]
  BY <1>5 DEF Consoles, Words
<1>7. Columns - 1 \in Words /\ Columns \in Nat /\ Columns > 0 /\ Rows \in Nat /\ WordSize \in Nat
  BY SizeFits DEF Words
<1>8. r \in Consoles /\ r.screen = s.screen
  <2>1. CASE key = "backspace"
    <3>1. CASE s.x = 0
      <4>1. r = [screen |-> s.screen, x |-> Columns - 1, y |-> Word(s.y - 1)]
        BY <1>2, <1>6, <2>1, <3>1 DEF Backspace
      <4>2. Word(s.y - 1) \in Words
        BY <1>6, WordRange
      <4> QED BY <1>6, <1>7, <4>1, <4>2 DEF Consoles
    <3>2. CASE s.x # 0
      <4>1. r = [screen |-> s.screen, x |-> s.x - 1, y |-> s.y]
        BY <1>2, <1>6, <2>1, <3>2 DEF Backspace
      <4>2. s.x - 1 \in Words
        BY <1>6, <1>7, <3>2 DEF Words
      <4> QED BY <1>6, <4>1, <4>2 DEF Consoles
    <3> QED BY <3>1, <3>2
  <2>2. CASE key # "backspace"
    BY <1>2, <1>5, <2>2
  <2> QED BY <2>1, <2>2
<1>9. text' \in Seq(Glyphs \union {"clear"})
  <2>1. text \in Seq(Glyphs \union {"clear"})
    BY DEF ConsoleInv, Types
  <2>2. Append(text, char) \in Seq(Glyphs \union {"clear"})
    BY <1>1, <2>1
  <2>3. BehindGlyph => Front(text) \in Seq(Glyphs \union {"clear"})
    <3> SUFFICES ASSUME BehindGlyph PROVE Front(text) \in Seq(Glyphs \union {"clear"})
      OBVIOUS
    <3>1. text # <<>>
      BY DEF BehindGlyph
    <3>2. Len(text) - 1 \in Int /\ \A i \in 1..(Len(text) - 1) : text[i] \in Glyphs \union {"clear"}
      BY <2>1
    <3> QED BY <3>2, SubSeqProperties DEF Front
  <2> QED BY <1>4, <2>1, <2>2, <2>3
<1>10. strayed' \in BOOLEAN
  BY <1>4
<1>11. Types'
  BY <1>3, <1>8, <1>9, <1>10 DEF ConsoleInv, Types, Consoles
<1>12. ~strayed' => ~strayed /\ OnScreen(r) /\ (NoErase => SameBar(Here, r))
  <2> SUFFICES ASSUME ~strayed' PROVE ~strayed /\ OnScreen(r) /\ (NoErase => SameBar(Here, r))
    OBVIOUS
  <2>1. ~strayed /\ (key = "backspace" => BehindGlyph)
    BY <1>4
  <2>2. Here.y \in 1..Rows /\ (NoErase => Placed(Here))
    BY <2>1, HerePlaced
  <2>3. CASE key # "backspace"
    <3>1. char \in Glyphs \ {"erase"}
      BY <1>1, <2>3
    <3>2. NoErase => SameBar(Here, s)
      BY <1>1, <2>2, <3>1, KputcKeepsBar DEF s
    <3> QED BY <1>2, <1>5, <2>1, <2>2, <2>3, <3>2
  <2>4. CASE key = "backspace"
    <3>1. main.pc = "idle" /\ <<x, y>> # <<0, 1>>
      BY <2>1, <2>4 DEF BehindGlyph
    <3>2. OnScreen(Here) /\ Here.x = x /\ Here.y = y
      BY <2>1, <3>1, HereTyped DEF ConsoleInv, CursorPlace
    <3>3. <<Here.x, Here.y>> # <<0, 1>> /\ char = "erase"
      BY <1>1, <2>4, <3>1, <3>2
    <3>4. SameBar(Here, s) /\ s.x = x /\ s.y = y
      BY <1>1, <3>2, <3>3, KputcErases DEF s
    <3>5. r.screen = s.screen /\ SameBar(Here, r)
      BY <1>8, <3>4 DEF SameBar
    <3>6. OnScreen(r)
      <4>1. CASE s.x = 0
        <5>1. r.x = Columns - 1 /\ r.y = Word(s.y - 1)
          BY <1>2, <1>6, <2>4, <4>1 DEF Backspace
        <5>2. s.y # 1 /\ s.y >= 1 /\ s.y < Rows
          BY <3>1, <3>2, <3>4, <4>1 DEF OnScreen
        <5>3. s.y - 1 \in Words /\ s.y - 1 >= 1 /\ s.y - 1 < Rows
          BY <1>6, <1>7, <5>2 DEF Words
        <5> QED BY <1>7, <5>1, <5>3, WordRange DEF OnScreen
      <4>2. CASE s.x # 0
        <5>1. r.x = s.x - 1 /\ r.y = s.y
          BY <1>2, <1>6, <2>4, <4>2 DEF Backspace
        <5> QED BY <1>6, <1>7, <3>2, <3>4, <5>1 DEF OnScreen
      <4> QED BY <4>1, <4>2
    <3> QED BY <2>1, <3>5, <3>6
  <2> QED BY <2>3, <2>4
<1>13. CursorPlace'
  <2>1. ~strayed' => ~strayed /\ OnScreen(Here)' /\ y' \in 1..Rows /\ x' < Columns /\ y' < Rows
    BY <1>3, <1>7, <1>8, <1>12 DEF OnScreen, Here, Consoles, Words
  <2> QED BY <2>1 DEF ConsoleInv, CursorPlace
<1>14. StorePlace'
  <2>1. ~strayed' => ~strayed /\ x' < Columns /\ x' \in Nat
    BY <1>3, <1>8, <1>12 DEF OnScreen, Consoles, Words
  <2> QED BY <1>7, <2>1 DEF ConsoleInv, StorePlace
<1>15. BarStays'
  <2>1. Here.screen = screen
    BY DEF Here
  <2> QED BY <1>3, <1>12, <2>1 DEF ConsoleInv, BarStays, Bars, SameBar
<1> QED BY <1>11, <1>13, <1>14, <1>15 DEF ConsoleInv

LEMMA KeyboardStep ==
  ASSUME ConsoleInv, NEW key \in Keys, KeyboardHandler(key)
  PROVE  ConsoleInv'
<1>1. halted = "no" /\ UNCHANGED <<main, halted>>
  BY DEF KeyboardHandler
<1>2. CASE key \in {"release", "shift"} /\ UNCHANGED <<console, inbuf, text, gone, disturbed, strayed>>
  <2>1. UNCHANGED <<screen, x, y, text, strayed>>
    BY <1>2 DEF console
  <2>2. Types'
    BY <1>1, <2>1 DEF ConsoleInv, Types
  <2>3. CursorPlace' /\ StorePlace'
    BY <1>1, <2>1 DEF ConsoleInv, CursorPlace, StorePlace, OnScreen, Here
  <2>4. BarStays'
    BY <1>1, <2>1 DEF ConsoleInv, BarStays, Bars
  <2> QED BY <2>2, <2>3, <2>4 DEF ConsoleInv
<1>3. CASE key \in Arrows /\ Becomes(MapXY(key)) /\ strayed' = TRUE /\ UNCHANGED <<inbuf, text, gone>>
  <2>1. /\ Here.x = x /\ Here.y = y /\ x \in Nat /\ y \in Nat /\ Here \in Consoles
    BY HereTyped DEF ConsoleInv
  <2>2. \A n \in {x - 1, x + 1, y - 1, y + 1} : Word(n) \in Words
    BY <2>1, WordRange
  <2>3. MapXY(key) \in Consoles
    BY <1>3, <2>1, <2>2 DEF MapXY, Arrows, Consoles
  <2>4. screen' \in Screens /\ x' \in Words /\ y' \in Words
    BY <1>3, <2>3 DEF Becomes, Consoles
  <2>5. text' = text /\ strayed'
    BY <1>3
  <2>6. strayed' \in BOOLEAN
    BY <1>3, Zenon
  <2>7. Types'
    BY <1>1, <2>4, <2>5, <2>6 DEF ConsoleInv, Types
  <2> QED BY <2>5, <2>7 DEF ConsoleInv, CursorPlace, StorePlace, BarStays
<1>4. CASE key \notin Arrows \union {"release", "shift"} /\ Becomes(Echoed(key)) /\ Typed(key)
  BY <1>1, <1>4, EchoStep
<1> QED BY <1>2, <1>3, <1>4 DEF KeyboardHandler
-----------------------------------------------------------------------------
(* Where the characters of a text go: each one behind the last.             *)
Spots == (Nat \ {0}) \X (0..(Columns - 1))
Before(p, q) == p[1] < q[1] \/ (p[1] = q[1] /\ p[2] < q[2])

LEMMA AfterIs ==
  ASSUME NEW p \in Spots, NEW char
  PROVE  After(p, char) \in Spots /\ Before(p, After(p, char))
<1>1. p[1] \in Nat \ {0} /\ p[2] \in 0..(Columns - 1) /\ Columns \in Nat \ {0}
  BY SizeFits DEF Spots
<1>2. ASSUME NEW d \in {1, 5}
      PROVE  LET q == Folded(p[1], p[2] + d) IN q \in Spots /\ Before(p, q)
  BY <1>1 DEF Folded, Spots, Before
<1>3. CASE char = "newline"
  <2>1. After(p, char) = <<p[1] + 1, 0>>
    BY <1>3 DEF After
  <2> QED BY <1>1, <2>1 DEF Spots, Before
<1>4. CASE char = "tab"
  <2>1. After(p, char) = Folded(p[1], p[2] + 5)
    BY <1>4 DEF After
  <2> QED BY <1>2, <2>1
<1>5. CASE char \notin {"newline", "tab"}
  <2>1. After(p, char) = Folded(p[1], p[2] + 1)
    BY <1>5 DEF After
  <2> QED BY <1>2, <2>1
<1> QED BY <1>3, <1>4, <1>5

LEMMA PlacesFromIs ==
  ASSUME NEW S, NEW chars \in Seq(S), NEW start \in Spots
  PROVE  LET q == PlacesFrom(start, chars)
         IN /\ q[0] = start
            /\ \A n \in 1..Len(chars) : q[n] = After(q[n - 1], chars[n])
            /\ \A n \in 0..Len(chars) : q[n] \in Spots
<1> DEFINE l == Len(chars)
           G == [kp \in (1..l) \X Spots |-> After(kp[2], chars[kp[1]])]
<1>1. l \in Nat /\ start \in Spots
  OBVIOUS
<1>2. G \in StepFunctions(l, Spots)
  <2>1. \A kp \in (1..l) \X Spots : After(kp[2], chars[kp[1]]) \in Spots
    BY AfterIs
  <2> QED BY <2>1 DEF StepFunctions
<1>3. PICK f \in [0..l -> Spots] : SolvesRecursion(f, l, start, G)
  <2> HIDE DEF G, l
  <2> QED BY <1>1, <1>2, RecursionSolved
<1>4. \A k \in 1..l : f[k] = After(f[k - 1], chars[k])
  <2> SUFFICES ASSUME NEW k \in 1..l PROVE f[k] = After(f[k - 1], chars[k])
    OBVIOUS
  <2>1. k - 1 \in 0..l
    BY <1>1
  <2>2. <<k, f[k - 1]>> \in (1..l) \X Spots
    BY <2>1
  <2>3. f[k] = G[<<k, f[k - 1]>>]
    BY <1>3 DEF SolvesRecursion
  <2> QED BY <2>2, <2>3
<1> HIDE DEF G
<1>5. f = [n \in 0..l |-> IF n = 0 THEN start ELSE After(f[n - 1], chars[n])]
  <2>1. \A n \in 0..l : n # 0 => n \in 1..l
    BY <1>1
  <2>2. f[0] = start
    BY <1>3 DEF SolvesRecursion
  <2> QED BY <1>4, <2>1, <2>2
<1> DEFINE p[n \in 0..Len(chars)] == IF n = 0 THEN start ELSE After(p[n - 1], chars[n])
<1>6. PlacesFrom(start, chars) = p
  BY Zenon DEF PlacesFrom
<1>7. p = [n \in 0..Len(chars) |-> IF n = 0 THEN start ELSE After(p[n - 1], chars[n])]
  BY <1>5, Zenon DEF p
<1> HIDE DEF p
<1>8. p[0] = start /\ \A n \in 1..l : p[n] = After(p[n - 1], chars[n])
  <2>1. \A n \in 0..l : p[n] = IF n = 0 THEN start ELSE After(p[n - 1], chars[n])
    BY <1>7
  <2>2. \A n \in 1..l : n \in 0..l /\ n # 0
    BY <1>1
  <2>3. 0 \in 0..l
    BY <1>1
  <2> QED BY <2>1, <2>2, <2>3
<1>9. \A n \in 0..l : p[n] \in Spots
  <2> DEFINE P == {n \in 0..l : p[n] \in Spots}
  <2>1. 0 \in P
    <3>1. 0 \in 0..l /\ p[0] \in Spots
      BY <1>1, <1>8
    <3> HIDE DEF l
    <3> QED BY <3>1
  <2>2. ASSUME NEW n \in 0..(l - 1), n \in P PROVE n + 1 \in P
    <3>1. n + 1 \in 1..l /\ n + 1 - 1 = n /\ n + 1 \in 0..l
      BY <1>1
    <3>2. p[n + 1] = After(p[n], chars[n + 1]) /\ p[n] \in Spots
      BY <1>8, <2>2, <3>1
    <3>3. p[n + 1] \in Spots
      BY <3>2, AfterIs
    <3> QED BY <3>1, <3>3
  <2>3. 0..l \subseteq P
    <3> HIDE DEF P, l
    <3> QED BY <1>1, <2>1, <2>2, UpTo
  <2> QED BY <2>3
<1> QED BY <1>6, <1>8, <1>9

LEMMA PlacesFromIncrease ==
  ASSUME NEW S, NEW chars \in Seq(S), NEW start \in Spots
  PROVE  LET q == PlacesFrom(start, chars)
         IN \A n \in 0..Len(chars) : \A m \in 0..(n - 1) : Before(q[m], q[n])
<1> DEFINE l == Len(chars)
           p == PlacesFrom(start, chars)
           P == {n \in 0..l : \A m \in 0..(n - 1) : Before(p[m], p[n])}
<1>1. l \in Nat /\ \A n \in 0..l : p[n] \in Spots
  BY PlacesFromIs
<1>2. 0 \in P
  BY <1>1
<1>3. ASSUME NEW n \in 0..(l - 1), n \in P PROVE n + 1 \in P
  <2>1. n + 1 \in 1..l /\ n + 1 - 1 = n /\ n + 1 \in 0..l /\ n \in 0..l
    BY <1>1
  <2>2. Before(p[n], p[n + 1]) /\ p[n + 1] \in Spots /\ p[n] \in Spots
    <3>1. p[n + 1] = After(p[n], chars[n + 1]) /\ p[n] \in Spots
      BY <1>1, <2>1, PlacesFromIs
    <3> QED BY <3>1, AfterIs
  <2>3. ASSUME NEW m \in 0..(n + 1 - 1) PROVE Before(p[m], p[n + 1])
    <3>1. CASE m = n
      BY <2>2, <3>1
    <3>2. CASE m # n
      <4>1. m \in 0..(n - 1) /\ m \in 0..l
        BY <1>1, <3>2
      <4>2. Before(p[m], p[n]) /\ p[m] \in Spots
        BY <1>1, <1>3, <4>1
      <4> HIDE DEF p
      <4>3. /\ p[m][1] \in Nat /\ p[m][2] \in Int /\ p[n][1] \in Nat /\ p[n][2] \in Int
            /\ p[n + 1][1] \in Nat /\ p[n + 1][2] \in Int
        BY <2>2, <4>2 DEF Spots
      <4> QED BY <2>2, <4>2, <4>3, SMTT(30) DEF Before
    <3> QED BY <3>1, <3>2
  <2> QED BY <2>1, <2>3
<1>4. 0..l \subseteq P
  <2> HIDE DEF P, l
  <2> QED BY <1>1, <1>2, <1>3, UpTo
<1> QED BY <1>4
LEMMA PlacesIs ==
  ASSUME NEW S, NEW chars \in Seq(S)
  PROVE  /\ Places(chars)[0] = <<1, 0>>
         /\ \A n \in 1..Len(chars) : Places(chars)[n] = After(Places(chars)[n - 1], chars[n])
         /\ \A n \in 0..Len(chars) : Places(chars)[n] \in Spots
<1>1. <<1, 0>> \in Spots
  BY SizeFits DEF Spots
<1> QED BY <1>1, PlacesFromIs, Zenon DEF Places

LEMMA PlacesIncrease ==
  ASSUME NEW S, NEW chars \in Seq(S)
  PROVE  \A n \in 0..Len(chars) : \A m \in 0..(n - 1) : Before(Places(chars)[m], Places(chars)[n])
<1>1. <<1, 0>> \in Spots
  BY SizeFits DEF Spots
<1> QED BY <1>1, PlacesFromIncrease, Zenon DEF Places

(* The cells of a row, by their column.                                     *)
At(row, col) == row * Columns + col

LEMMA RowIs ==
  ASSUME NEW row \in 0..(Rows - 1), NEW col \in 0..(Columns - 1)
  PROVE  /\ At(row, col) \in Cells /\ At(row, col) \div Columns = row
         /\ At(row, col) + Columns = At(row + 1, col)
<1> DEFINE start == row * Columns
           size == Rows * Columns
           c == start + col
           q == c \div Columns
           below == q * Columns
<1>1. /\ start \in Nat /\ size \in Nat /\ start + Columns <= size
      /\ Columns \in Nat \ {0} /\ Rows \in Nat /\ row \in Nat /\ col \in Nat
  BY RowStart, SizeFits
<1>2. c \in Cells /\ c \in Nat
  <2> HIDE DEF start
  <2>1. c \in 0..(size - 1)
    <3> HIDE DEF size
    <3> QED BY <1>1
  <2> QED BY <1>1, <2>1 DEF Cells
<1>3. q \in Nat /\ below <= c /\ c < below + Columns /\ below \in Nat
  <2> HIDE DEF c
  <2> QED BY <1>1, <1>2, RowOfCell, Product
<1>4. q = row
  <2>1. (row - q) * Columns = start - below
    BY <1>1, <1>3
  <2>2. row - q \in Int /\ start - below < Columns /\ start - below > -Columns
    <3> HIDE DEF start, below, q
    <3> QED BY <1>1, <1>3
  <2>3. CASE row > q
    <3>1. row - q - 1 \in Nat
      BY <1>1, <1>3, <2>3
    <3>2. (row - q - 1) * Columns \in Nat
      BY <1>1, <3>1, Product
    <3>3. (row - q - 1) * Columns = start - below - Columns
      BY <1>1, <1>3
    <3> HIDE DEF start, below, q
    <3> QED BY <1>1, <1>3, <2>2, <3>2, <3>3
  <2>4. CASE row < q
    <3>1. q - row - 1 \in Nat
      BY <1>1, <1>3, <2>4
    <3>2. (q - row - 1) * Columns \in Nat
      BY <1>1, <3>1, Product
    <3>3. (q - row - 1) * Columns = below - start - Columns
      BY <1>1, <1>3
    <3> HIDE DEF start, below, q
    <3> QED BY <1>1, <1>3, <2>2, <3>2, <3>3
  <2> HIDE DEF q
  <2> QED BY <1>1, <1>3, <2>3, <2>4
<1>5. c + Columns = (row + 1) * Columns + col
  BY <1>1
<1> QED BY <1>2, <1>4, <1>5 DEF At

LEMMA AtOnce ==
  ASSUME NEW row \in 0..(Rows - 1), NEW col \in 0..(Columns - 1),
         NEW r \in 0..(Rows - 1), NEW k \in 0..(Columns - 1), At(row, col) = At(r, k)
  PROVE  row = r /\ col = k
<1>1. row = r
  BY RowIs
<1>2. row * Columns \in Nat /\ row * Columns + col = row * Columns + k
  BY <1>1, RowStart DEF At
<1> DEFINE start == row * Columns
<1> HIDE DEF start
<1>3. start \in Nat /\ start + col = start + k
  BY <1>2 DEF start
<1> QED BY <1>1, <1>3

(* The screen and the cursor after a text, when so many lines of it have    *)

(* What stays on the screen when it scrolls once.                           *)
LEMMA ScrollShown ==
  ASSUME NEW s \in Consoles, s.y = Rows
  PROVE  /\ \A row \in 1..(Rows - 2), col \in 0..(Columns - 1) :
              Scroll(s).screen[At(row, col)] = s.screen[At(row + 1, col)]
         /\ \A col \in 0..(Columns - 1) : Scroll(s).screen[At(Rows - 1, col)] = Blank
<1> DEFINE up == [c \in Cells |-> IF c \div Columns \in 1..(Rows - 2)
                                  THEN s.screen[c + Columns] ELSE s.screen[c]]
<1>1. Rows \in Nat /\ Rows > 2
  BY SizeFits
<1>2. Scroll(s) = [s EXCEPT !.y = Rows - 1, !.screen = LastRowBlank(up)]
  <2>1. s.y >= Rows
    BY <1>1
  <2> QED BY <2>1 DEF Scroll, up, Consoles
<1>3. Scroll(s).screen = LastRowBlank(up)
  <2> HIDE DEF up
  <2> QED BY <1>2 DEF Consoles
<1>4. ASSUME NEW row \in 1..(Rows - 2), NEW col \in 0..(Columns - 1)
      PROVE  LastRowBlank(up)[At(row, col)] = s.screen[At(row + 1, col)]
  <2>1. row \in 0..(Rows - 1) /\ row # Rows - 1
    BY <1>1
  <2>2. At(row, col) \in Cells /\ At(row, col) \div Columns = row
        /\ At(row, col) + Columns = At(row + 1, col)
    BY <2>1, RowIs
  <2>3. LastRowBlank(up)[At(row, col)] = up[At(row, col)]
    <3> HIDE DEF up
    <3> QED BY <2>1, <2>2 DEF LastRowBlank, RowBlank
  <2>4. up[At(row, col)] = s.screen[At(row, col) + Columns]
    BY <2>2
  <2> QED BY <2>2, <2>3, <2>4
<1>5. ASSUME NEW col \in 0..(Columns - 1)
      PROVE  LastRowBlank(up)[At(Rows - 1, col)] = Blank
  <2>1. Rows - 1 \in 0..(Rows - 1)
    BY <1>1
  <2>2. At(Rows - 1, col) \in Cells /\ At(Rows - 1, col) \div Columns = Rows - 1
    BY <2>1, RowIs
  <2> HIDE DEF up
  <2> QED BY <2>2 DEF LastRowBlank, RowBlank
<1> HIDE DEF up
<1> QED BY <1>3, <1>4, <1>5

(* A column or a line further on does not wrap round the word.              *)
LEMMA MovesFit ==
  /\ \A a \in 0..(Columns - 1) : Word(a + 1) = a + 1 /\ Word(a + 4) = a + 4 /\ Word(a + 5) = a + 5
  /\ \A b \in 0..(Rows - 1) : Word(b + 1) = b + 1
<1> DEFINE size == Rows * Columns
<1>1. /\ Columns \in Nat /\ Rows \in Nat /\ WordSize \in Nat /\ size \in Nat
      /\ size + Columns + 4 < WordSize /\ Rows <= size
  BY SizeFits
<1> HIDE DEF size
<1>2. ASSUME NEW a \in 0..(Columns - 1) PROVE a + 1 \in Words /\ a + 4 \in Words /\ a + 5 \in Words
  BY <1>1 DEF Words
<1>3. ASSUME NEW b \in 0..(Rows - 1) PROVE b + 1 \in Words
  BY <1>1 DEF Words
<1> QED BY <1>2, <1>3, WordRange
-----------------------------------------------------------------------------
(* Where a character leaves the cursor, before the screen scrolls, and what *)
(* it puts there.                                                           *)
LEMMA PutWraps ==
  ASSUME NEW s \in Consoles, s.x < Columns, s.y < Rows,
         NEW char \in Glyphs, char \notin {"return", "erase"}, NEW line \in Nat
  PROVE  LET w == Wrap(Put(s, char))
             p == After(<<line, s.x>>, char)
         IN /\ w \in Consoles /\ w.y \in {s.y, s.y + 1}
            /\ p[1] \in {line, line + 1} /\ w.y - s.y = p[1] - line /\ p[2] = w.x
            /\ w.y = s.y => s.x < w.x
            /\ \A c \in Cells : c # At(s.y, s.x) => w.screen[c] = s.screen[c]
            /\ char \notin Control => w.screen[At(s.y, s.x)] = char
<1> DEFINE t == Put(s, char)
           w == Wrap(t)
           p == After(<<line, s.x>>, char)
<1>1. /\ s.x \in 0..(Columns - 1) /\ s.y \in 0..(Rows - 1) /\ s.y \in 0..Rows /\ s.x <= Columns + 4
      /\ Columns \in Nat \ {0} /\ Rows \in Nat
  BY SizeFits DEF Consoles, Words
<1>2. /\ Word(s.x + 1) = s.x + 1 /\ Word(s.x + 4) = s.x + 4 /\ Word(s.x + 5) = s.x + 5
      /\ Word(s.y + 1) = s.y + 1
  BY <1>1, MovesFit
<1>3. Index(s) = At(s.y, s.x) /\ At(s.y, s.x) \in Cells
  BY <1>1, IndexIs, RowIs DEF At
<1>4. /\ t \in Consoles /\ t.y = (IF char = "newline" THEN s.y + 1 ELSE s.y)
      /\ char = "newline" => t.x = 0
      /\ char \notin Control => t.x = s.x + 1
  BY <1>2, PutIs
<1>5. char = "tab" => t.x = s.x + 5
  <2> SUFFICES ASSUME char = "tab" PROVE t.x = s.x + 5
    OBVIOUS
  <2>1. t = [screen |-> s.screen, x |-> Word(Word(s.x + 4) + 1), y |-> s.y]
    BY DEF Put, Place, Advance, Consoles
  <2>2. s.x + 4 + 1 = s.x + 5
    BY <1>1
  <2> QED BY <1>2, <2>1, <2>2
<1>6. \A c \in Cells : c # At(s.y, s.x) => t.screen[c] = s.screen[c]
  <2>1. CASE char \in {"newline", "tab"}
    BY <2>1, PutIs
  <2>2. CASE char \notin Control
    BY <1>3, <2>2, PutIs
  <2> QED BY <2>1, <2>2 DEF Control
<1>7. char \notin Control => t.screen[At(s.y, s.x)] = char
  BY <1>3, PutIs
<1> HIDE DEF t
<1>8. /\ w \in Consoles /\ w.screen = t.screen
      /\ t.x >= Columns => w.x = 0 /\ w.y = Word(t.y + 1)
      /\ t.x < Columns => w.x = t.x /\ w.y = t.y
  BY <1>4, WrapIs
<1> HIDE DEF w
<1>9. /\ w.y \in {s.y, s.y + 1} /\ p[1] \in {line, line + 1} /\ w.y - s.y = p[1] - line
      /\ p[2] = w.x /\ (w.y = s.y => s.x < w.x)
  <2>1. CASE char = "newline"
    <3>1. p = <<line + 1, 0>>
      BY <2>1 DEF After
    <3>2. w.x = 0 /\ w.y = s.y + 1
      BY <1>1, <1>4, <1>8, <2>1
    <3> QED BY <1>1, <3>1, <3>2
  <2>2. ASSUME NEW d \in {1, 5}, t.y = s.y, t.x = s.x + d, p = Folded(line, s.x + d)
        PROVE  /\ w.y \in {s.y, s.y + 1} /\ p[1] \in {line, line + 1} /\ w.y - s.y = p[1] - line
               /\ p[2] = w.x /\ (w.y = s.y => s.x < w.x)
    <3>1. CASE s.x + d >= Columns
      <4>1. p = <<line + 1, 0>> /\ w.x = 0 /\ w.y = s.y + 1
        BY <1>2, <1>8, <2>2, <3>1 DEF Folded
      <4> QED BY <1>1, <4>1
    <3>2. CASE ~(s.x + d >= Columns)
      <4>1. p = <<line, s.x + d>> /\ w.x = s.x + d /\ w.y = s.y
        BY <1>1, <1>8, <2>2, <3>2 DEF Folded
      <4> QED BY <1>1, <4>1
    <3> QED BY <3>1, <3>2
  <2>3. CASE char = "tab"
    <3>1. p = Folded(line, s.x + 5)
      BY <2>3 DEF After
    <3> QED BY <1>4, <1>5, <2>2, <2>3, <3>1
  <2>4. CASE char \notin Control
    <3>1. p = Folded(line, s.x + 1)
      BY <2>4 DEF After, Control
    <3> QED BY <1>4, <2>2, <2>4, <3>1 DEF Control
  <2> QED BY <2>1, <2>3, <2>4 DEF Control
<1> HIDE DEF p
<1> QED BY <1>6, <1>7, <1>8, <1>9 DEF w, p, t

(* What stands in a row before the cursor stays, and moves up with its row, *)
(* as long as it has not reached the row below the status bar.              *)
MovesUp(s, char, row, p, r) ==
  /\ r \in Consoles /\ r.x < Columns /\ r.y < Rows /\ r.x = p[2]
  /\ \E up \in 0..r.y :
       /\ r.y - up = p[1] - 1
       /\ \A col \in 0..(Columns - 1) :
            row < s.y \/ col < s.x => r.screen[At(up, col)] = s.screen[At(row, col)]
       /\ row = s.y /\ char \notin Control => r.screen[At(up, s.x)] = char
LEMMA KputcMovesUp ==
  ASSUME NEW s \in Consoles, s.x < Columns, s.y < Rows,
         NEW char \in Glyphs, char \notin {"return", "erase"},
         NEW line \in 1..(Rows - 1), NEW row \in Nat, s.y - row = line - 1,
         After(<<line, s.x>>, char)[1] < Rows
  PROVE  MovesUp(s, char, row, After(<<line, s.x>>, char), Kputc(s, char))
<1> DEFINE w == Wrap(Put(s, char))
           p == After(<<line, s.x>>, char)
<1>1. /\ w \in Consoles /\ w.y \in {s.y, s.y + 1}
      /\ p[1] \in {line, line + 1} /\ w.y - s.y = p[1] - line /\ p[2] = w.x
      /\ \A c \in Cells : c # At(s.y, s.x) => w.screen[c] = s.screen[c]
      /\ char \notin Control => w.screen[At(s.y, s.x)] = char
  <2>1. line \in Nat
    OBVIOUS
  <2> HIDE DEF w, p
  <2> QED BY <2>1, PutWraps, Zenon DEF w, p
<1>2. Kputc(s, char) = Scroll(w)
  BY DEF Kputc, Put
<1>3. /\ s.x \in 0..(Columns - 1) /\ s.y \in 0..(Rows - 1) /\ row \in 0..(Rows - 1)
      /\ Columns \in Nat \ {0} /\ Rows \in Nat /\ Rows > 2
  BY SizeFits DEF Consoles, Words
<1>4. p[1] < Rows
  OBVIOUS
<1> HIDE DEF w, p
<1>5. ASSUME NEW col \in 0..(Columns - 1), row < s.y \/ col < s.x
      PROVE  w.screen[At(row, col)] = s.screen[At(row, col)]
  <2>1. At(row, col) \in Cells
    BY <1>3, RowIs
  <2>2. At(row, col) # At(s.y, s.x)
    BY <1>3, <1>5, AtOnce
  <2> QED BY <1>1, <2>1, <2>2
<1>6. Scroll(w) \in Consoles /\ Scroll(w).x = w.x /\ Scroll(w).x < Columns /\ Scroll(w).y < Rows
  <2>1. Scroll(w) \in Consoles /\ Scroll(w).x = w.x
    BY <1>1, ScrollIs
  <2>2. Scroll(w).x < Columns /\ Scroll(w).y < Rows
    BY <1>2, KputcLands
  <2> QED BY <2>1, <2>2
<1>7. CASE w.y < Rows
  <2>1. Scroll(w) = w
    BY <1>1, <1>7, ScrollIs, Zenon
  <2>2. row \in 0..w.y /\ w.y - row = p[1] - 1
    BY <1>1, <1>3
  <2>3. row = s.y /\ char \notin Control => w.screen[At(row, s.x)] = char
    BY <1>1
  <2> QED BY <1>1, <1>2, <1>5, <1>6, <2>1, <2>2, <2>3 DEF p, MovesUp
<1>8. CASE ~(w.y < Rows)
  <2>1. w.y = Rows
    BY <1>1, <1>3, <1>8
  <2>2. row \in 2..(Rows - 1) /\ row - 1 \in 1..(Rows - 2) /\ row - 1 + 1 = row
    BY <1>1, <1>3, <1>4, <2>1
  <2>3. \A col \in 0..(Columns - 1) : Scroll(w).screen[At(row - 1, col)] = w.screen[At(row, col)]
    <3> DEFINE up == row - 1
    <3>1. up \in 1..(Rows - 2) /\ up + 1 = row
      BY <2>2
    <3> HIDE DEF up
    <3> QED BY <1>1, <2>1, <3>1, ScrollShown DEF up
  <2>4. Scroll(w).y = Rows - 1
    BY <1>1, <1>3, <2>1, ScrollIs
  <2>5. row - 1 \in 0..Scroll(w).y /\ Scroll(w).y - (row - 1) = p[1] - 1
    <3>1. w.y = s.y + 1 /\ p[1] = line + 1
      <4>1. w.y = s.y + 1
        BY <1>1, <1>3, <2>1
      <4>2. w.y - s.y = 1 /\ line - line = 0
        BY <1>3, <4>1
      <4>3. p[1] # line
        BY <1>1, <4>2
      <4> QED BY <1>1, <4>1, <4>3
    <3>2. Rows - 1 - (row - 1) = line /\ row - 1 \in 0..(Rows - 1)
      BY <1>3, <2>1, <2>2, <3>1
    <3> QED BY <2>4, <3>1, <3>2
  <2>6. \A col \in 0..(Columns - 1) :
          row < s.y \/ col < s.x => Scroll(w).screen[At(row - 1, col)] = s.screen[At(row, col)]
    BY <1>5, <2>3
  <2>7. row = s.y /\ char \notin Control => Scroll(w).screen[At(row - 1, s.x)] = char
    BY <1>1, <1>3, <2>3
  <2> QED BY <1>1, <1>2, <1>6, <2>5, <2>6, <2>7 DEF p, MovesUp
<1> QED BY <1>7, <1>8

-----------------------------------------------------------------------------
(* What full_system_panic prints beyond its format (vga.c:284-295).         *)
LEMMA RunOnTyped ==
  ASSUME NEW junk \in Behind
  PROVE  /\ Len(RunOn(junk)) \in Nat \ {0} /\ Len(RunOn(junk)) = Len(junk) + 1
         /\ RunOn(junk) \in [1..Len(RunOn(junk)) -> Glyphs \ {"return", "erase"}]
         /\ RunOn(junk) \in [1..Len(RunOn(junk)) -> Glyphs \ {"erase"}]
         /\ RunOn(junk) \in [1..Len(RunOn(junk)) -> Glyphs]
         /\ RunOn(junk) \in Seq(Glyphs) /\ RunOn(junk)[1] = "nul"
<1>1. junk \in Seq(Range(junk)) /\ Range(junk) \intersect {"return", "erase"} = {}
  BY BehindParameters
<1>2. Range(junk) \subseteq Beyond /\ Beyond \subseteq Glyphs
  BY DEF Glyphs, Beyond
<1> DEFINE S == Glyphs \ {"return", "erase"}
<1>3. Range(junk) \subseteq S /\ "nul" \in S
  BY <1>1, <1>2 DEF Glyphs
<1> HIDE DEF S
<1>4. junk \in Seq(S)
  <2>1. \A k \in 1..Len(junk) : junk[k] \in Range(junk)
    BY <1>1
  <2> QED BY <1>1, <1>3, <2>1
<1>5. <<"nul">> \in Seq(S)
  BY <1>3
<1>6. RunOn(junk) \in Seq(S) /\ Len(RunOn(junk)) = Len(junk) + 1 /\ RunOn(junk)[1] = "nul"
  BY <1>4, <1>5 DEF RunOn
<1>7. Len(RunOn(junk)) \in Nat \ {0}
  BY <1>4, <1>6
<1>8. \A k \in 1..Len(RunOn(junk)) : RunOn(junk)[k] \in S
  BY <1>6
<1> QED BY <1>6, <1>7, <1>8 DEF S

(* The line a panic ended with stays on the screen, and the terminator      *)
(* stands behind it.                                                        *)
Stands(s, row) ==
  /\ \A k \in 1..Len(LastLine) : s.screen[row * Columns + k - 1] = LastLine[k]
  /\ s.screen[row * Columns + Len(LastLine)] = "nul"
LEMMA RunOnShown ==
  ASSUME NEW s \in Consoles, s.y < Rows, s.x = Len(LastLine),
         \A k \in 1..Len(LastLine) : s.screen[s.y * Columns + k - 1] = LastLine[k],
         NEW junk \in Behind
  PROVE  LET r == Kprint(s, RunOn(junk))
         IN r \in Consoles /\ r.y < Rows /\ \E row \in 0..r.y : Stands(r, row)
<1> DEFINE chars == RunOn(junk)
           n == Len(chars)
           l == Len(LastLine)
           start == <<1, l>>
           q == PlacesFrom(start, chars)
<1>1. /\ n \in Nat \ {0} /\ chars \in [1..n -> Glyphs \ {"return", "erase"}]
      /\ chars \in [1..n -> Glyphs] /\ chars \in Seq(Glyphs) /\ chars[1] = "nul"
      /\ n = Len(junk) + 1
  BY RunOnTyped
<1>2. /\ l \in 0..(Columns - 1) /\ Columns \in Nat \ {0} /\ Rows \in Nat /\ Rows > 2
  BY LastNewline, PanicTyped, PanicParameters, SizeFits
<1>3. q[n][1] < Rows
  BY <1>1, BehindParameters
<1>4. PICK f \in [0..n -> Consoles] :
        /\ f[0] = s /\ Kprint(s, chars) = f[n]
        /\ \A k \in 1..n : f[k] = Kputc(f[k - 1], chars[k])
  <2> HIDE DEF chars
  <2> QED BY <1>1, KprintIs
<1> HIDE DEF l
<1>5. start \in Spots
  BY <1>2 DEF Spots
<1> HIDE DEF start, chars
<1>6. /\ q[0] = start
      /\ \A k \in 1..n : q[k] = After(q[k - 1], chars[k])
      /\ \A k \in 0..n : q[k] \in Spots
  BY <1>1, <1>5, PlacesFromIs
<1>7. \A k \in 0..n : \A m \in 0..(k - 1) : Before(q[m], q[k])
  BY <1>1, <1>5, PlacesFromIncrease
<1> HIDE DEF q, n
<1>8. ASSUME NEW k \in 0..n PROVE q[k][1] \in 1..(Rows - 1) /\ q[k][2] \in 0..(Columns - 1)
  <2>1. q[k] \in Spots /\ q[n] \in Spots
    BY <1>1, <1>6
  <2>2. k = n \/ Before(q[k], q[n])
    <3>1. k = n \/ k \in 0..(n - 1)
      BY <1>1
    <3> QED BY <1>1, <1>7, <3>1
  <2> QED BY <1>2, <1>3, <2>1, <2>2 DEF Spots, Before
<1> DEFINE OnLine(k, row) ==
             /\ f[k].y - row = q[k][1] - 1 /\ f[k].x = q[k][2] /\ f[k].y < Rows
             /\ \A col \in 0..(l - 1) : f[k].screen[At(row, col)] = LastLine[col + 1]
             /\ k > 0 => f[k].screen[At(row, l)] = "nul"
           P == {k \in 0..n : \E row \in 0..f[k].y : OnLine(k, row)}
<1>9. 0 \in P
  <2>1. s.y \in 0..s.y /\ s.y - s.y = 0 /\ s.y \in Nat
    BY DEF Consoles, Words
  <2>2. q[0][1] = 1 /\ q[0][2] = l
    BY <1>6 DEF start
  <2>3. \A col \in 0..(l - 1) : s.screen[At(s.y, col)] = LastLine[col + 1]
    <3> SUFFICES ASSUME NEW col \in 0..(l - 1) PROVE s.screen[At(s.y, col)] = LastLine[col + 1]
      OBVIOUS
    <3>1. col + 1 \in 1..l /\ At(s.y, col) = s.y * Columns + (col + 1) - 1
      BY <1>2, <2>1, Product DEF At
    <3> QED BY <3>1 DEF l
  <2>4. OnLine(0, s.y)
    BY <1>4, <2>1, <2>2, <2>3 DEF l
  <2>5. 0 \in 0..n
    BY <1>1
  <2> QED BY <1>4, <2>1, <2>4, <2>5
<1>10. ASSUME NEW k \in 0..(n - 1), k \in P PROVE k + 1 \in P
  <2>1. k + 1 \in 1..n /\ k + 1 - 1 = k /\ k + 1 \in 0..n /\ k \in 0..n /\ k + 1 > 0 /\ n \in Nat
    BY <1>1
  <2>2. PICK row \in 0..f[k].y : OnLine(k, row)
    BY <1>10
  <2> DEFINE t == f[k]
             r == f[k + 1]
             char == chars[k + 1]
             line == q[k][1]
             p == After(<<line, t.x>>, char)
  <2>3. /\ t \in Consoles /\ r = Kputc(t, char)
        /\ char \in Glyphs /\ char \notin {"return", "erase"}
    <3>1. f[k] \in Consoles /\ f[k + 1] = Kputc(f[k + 1 - 1], chars[k + 1])
      BY <1>4, <2>1
    <3>2. chars[k + 1] \in Glyphs \ {"return", "erase"}
      BY <1>1, <2>1
    <3> QED BY <2>1, <3>1, <3>2
  <2>4. /\ line \in 1..(Rows - 1) /\ t.x \in 0..(Columns - 1) /\ t.y - row = line - 1
        /\ t.y < Rows /\ t.x = q[k][2]
    BY <1>8, <2>1, <2>2
  <2>5. p = q[k + 1]
    <3>1. q[k] = <<line, t.x>>
      <4>1. q[k] \in Spots
        BY <1>6, <2>1
      <4>2. q[k] = <<q[k][1], q[k][2]>>
        BY <4>1 DEF Spots
      <4> QED BY <2>4, <4>2
    <3>2. q[k + 1] = After(q[k], chars[k + 1])
      <4>1. q[k + 1] = After(q[k + 1 - 1], chars[k + 1])
        BY <1>6, <2>1
      <4> QED BY <2>1, <4>1
    <3> HIDE DEF t
    <3> QED BY <3>1, <3>2
  <2>6. p[1] < Rows /\ row \in Nat
    <3>1. q[k + 1][1] < Rows
      BY <1>2, <1>8, <2>1
    <3>2. t.y \in Nat
      BY <2>3 DEF Consoles, Words
    <3> HIDE DEF p
    <3> QED BY <2>5, <3>1, <3>2
  <2>7. k = 0 \/ Before(start, q[k])
    BY <1>6, <1>7, <2>1
  <2>8. row < t.y \/ l <= t.x
    <3>1. line = 1 => l <= t.x
      BY <1>2, <1>6, <2>4, <2>7 DEF Before, start
    <3> QED BY <2>3, <2>4, <3>1 DEF Consoles, Words
  <2>9. k > 0 => row < t.y \/ l < t.x
    <3>1. k > 0 /\ line = 1 => l < t.x
      BY <1>2, <1>6, <2>1, <2>4, <2>7 DEF Before, start
    <3> QED BY <2>3, <2>4, <3>1 DEF Consoles, Words
  <2>10. k = 0 => row = t.y /\ t.x = l /\ char = "nul" /\ char \notin Control
    <3>1. k = 0 => line = 1 /\ t.x = l
      BY <1>6, <2>4 DEF start
    <3> QED BY <1>1, <2>3, <2>4, <3>1 DEF Control, Consoles, Words
  <2>11. \A col \in 0..(l - 1) : t.screen[At(row, col)] = LastLine[col + 1]
    BY <2>2
  <2>12. k > 0 => t.screen[At(row, l)] = "nul"
    BY <2>2
  <2> HIDE DEF t, r, char, line, p
  <2>13. /\ r \in Consoles /\ r.x < Columns /\ r.y < Rows /\ r.x = p[2]
         /\ \E up \in 0..r.y :
              /\ r.y - up = p[1] - 1
              /\ \A col \in 0..(Columns - 1) :
                   row < t.y \/ col < t.x => r.screen[At(up, col)] = t.screen[At(row, col)]
              /\ row = t.y /\ char \notin Control => r.screen[At(up, t.x)] = char
    <3>1. t.x < Columns
      BY <1>2, <2>4
    <3>2. After(<<line, t.x>>, char)[1] < Rows
      BY <2>6 DEF p
    <3>3. MovesUp(t, char, row, After(<<line, t.x>>, char), Kputc(t, char))
      <4>1. /\ t \in Consoles /\ t.y < Rows /\ char \in Glyphs /\ char \notin {"return", "erase"}
            /\ line \in 1..(Rows - 1) /\ row \in Nat /\ t.y - row = line - 1
        BY <2>3, <2>4, <2>6
      <4> QED BY <3>1, <3>2, <4>1, KputcMovesUp
    <3> QED BY <2>3, <3>3, Zenon DEF p, MovesUp
  <2>14. PICK up \in 0..r.y :
           /\ r.y - up = p[1] - 1
           /\ \A col \in 0..(Columns - 1) :
                row < t.y \/ col < t.x => r.screen[At(up, col)] = t.screen[At(row, col)]
           /\ row = t.y /\ char \notin Control => r.screen[At(up, t.x)] = char
    BY <2>13
  <2>15. \A col \in 0..(l - 1) : r.screen[At(up, col)] = LastLine[col + 1]
    <3> SUFFICES ASSUME NEW col \in 0..(l - 1) PROVE r.screen[At(up, col)] = LastLine[col + 1]
      OBVIOUS
    <3>1. col \in 0..(Columns - 1) /\ (row < t.y \/ col < t.x)
      BY <1>2, <2>4, <2>8
    <3> QED BY <2>11, <2>14, <3>1
  <2>16. r.screen[At(up, l)] = "nul"
    <3>1. CASE k = 0
      BY <2>10, <2>14, <3>1
    <3>2. CASE k # 0
      <4>1. k > 0
        BY <3>2
      <4> QED BY <1>2, <2>9, <2>12, <2>14, <4>1
    <3> QED BY <3>1, <3>2
  <2>17. OnLine(k + 1, up)
    BY <2>5, <2>13, <2>14, <2>15, <2>16 DEF r
  <2> QED BY <2>1, <2>17 DEF r
<1>11. n \in P
  <2>1. 0..n \subseteq P
    <3> HIDE DEF P
    <3> QED BY <1>1, <1>9, <1>10, UpTo
  <2> QED BY <1>1, <2>1
<1>12. PICK row \in 0..f[n].y : OnLine(n, row)
  BY <1>11
<1>13. f[n] \in Consoles /\ row \in Nat
  <2>1. n \in 0..n
    BY <1>1
  <2>2. f[n] \in Consoles
    BY <1>4, <2>1
  <2>3. f[n].y \in Nat
    BY <2>2 DEF Consoles, Words
  <2> QED BY <2>2, <2>3
<1>14. Stands(f[n], row)
  <2>1. ASSUME NEW k \in 1..l PROVE f[n].screen[row * Columns + k - 1] = LastLine[k]
    <3>1. k - 1 \in 0..(l - 1) /\ k - 1 + 1 = k
      BY <1>2
    <3>2. At(row, k - 1) = row * Columns + k - 1
      BY <1>2, <1>13, <3>1, Product DEF At
    <3> QED BY <1>12, <3>1, <3>2
  <2>2. n > 0
    BY <1>1
  <2> QED BY <1>12, <2>1, <2>2 DEF Stands, At, l
<1> QED BY <1>4, <1>12, <1>13, <1>14 DEF chars, n

LEMMA PanicPrints ==
  ASSUME NEW s \in Consoles
  PROVE  LET r == Kprint(s, PanicText)
         IN /\ r \in Consoles /\ r.y < Rows /\ r.x = Len(LastLine)
            /\ \A k \in 1..Len(LastLine) : r.screen[r.y * Columns + k - 1] = LastLine[k]
            /\ Placed(s) => SameBar(s, r) /\ Placed(r)
<1>1. Kprint(s, PanicText) \in Consoles
  BY PanicTyped, KprintIs
<1>2. Placed(s) => SameBar(s, Kprint(s, PanicText)) /\ Placed(Kprint(s, PanicText))
  BY PanicTyped, KprintKeepsBar
<1> QED BY <1>1, <1>2, LastLineShown

LEMMA RunOnPrints ==
  ASSUME NEW s \in Consoles, NEW junk \in Behind
  PROVE  LET m == Kprint(s, PanicText)
             r == Kprint(m, RunOn(junk))
         IN /\ r \in Consoles /\ r.y < Rows /\ \E row \in 0..r.y : Stands(r, row)
            /\ Placed(s) => SameBar(s, r)
<1> DEFINE m == Kprint(s, PanicText)
           r == Kprint(m, RunOn(junk))
<1>1. /\ m \in Consoles /\ m.y < Rows /\ m.x = Len(LastLine)
      /\ \A k \in 1..Len(LastLine) : m.screen[m.y * Columns + k - 1] = LastLine[k]
      /\ Placed(s) => SameBar(s, m) /\ Placed(m)
  BY PanicPrints
<1> HIDE DEF m
<1>2. r \in Consoles /\ r.y < Rows /\ \E row \in 0..r.y : Stands(r, row)
  BY <1>1, RunOnShown
<1>3. Placed(m) => SameBar(m, r)
  <2> SUFFICES ASSUME Placed(m) PROVE SameBar(m, r)
    OBVIOUS
  <2>1. Len(RunOn(junk)) \in Nat /\ RunOn(junk) \in [1..Len(RunOn(junk)) -> Glyphs \ {"erase"}]
    BY RunOnTyped
  <2> QED BY <1>1, <2>1, KprintKeepsBar
<1> HIDE DEF r
<1> QED BY <1>1, <1>2, <1>3 DEF SameBar, m, r

LEMMA PanicStep ==
  ASSUME ConsoleInv, FullSystemPanic \/ SystemPanic
  PROVE  ConsoleInv' /\ PanicShown'
<1>1. Here \in Consoles /\ Here.screen = screen
  BY HereTyped DEF ConsoleInv
<1> DEFINE warned == SetMenubarText(Here, Warning)
<1>2. PICK how \in {"full", "system"}, s \in Consoles :
        /\ Halt(how) /\ Becomes(s)
        /\ how = "full" => /\ s.y < Rows /\ \E row \in 0..s.y : Stands(s, row)
                           /\ Placed(Here) => SameBar(Here, s)
        /\ how = "system" =>
             /\ s.y < Rows /\ s.x = Len(LastLine) /\ SameBar(warned, s) /\ Placed(s)
             /\ \A k \in 1..Len(LastLine) : s.screen[s.y * Columns + k - 1] = LastLine[k]
  <2>1. CASE FullSystemPanic
    <3>1. PICK junk \in Behind :
            Halt("full") /\ Becomes(Kprint(Kprint(Here, PanicText), RunOn(junk)))
      BY <2>1 DEF FullSystemPanic
    <3> DEFINE r == Kprint(Kprint(Here, PanicText), RunOn(junk))
    <3>2. /\ r \in Consoles /\ r.y < Rows /\ \E row \in 0..r.y : Stands(r, row)
          /\ Placed(Here) => SameBar(Here, r)
      BY <1>1, RunOnPrints
    <3>3. Halt("full") /\ Becomes(r)
      BY <3>1
    <3> HIDE DEF r
    <3> QED BY <3>2, <3>3
  <2>2. CASE SystemPanic
    <3> DEFINE r == Kprint(warned, PanicText)
    <3>1. Halt("system") /\ Becomes(r)
      BY <2>2 DEF SystemPanic
    <3>2. warned \in Consoles /\ warned.x = 0 /\ warned.y = 1
      BY <1>1, MenubarIs
    <3> HIDE DEF warned
    <3>3. Placed(warned)
      BY <3>2, SizeFits DEF Placed
    <3>4. /\ r \in Consoles /\ r.y < Rows /\ r.x = Len(LastLine)
          /\ \A k \in 1..Len(LastLine) : r.screen[r.y * Columns + k - 1] = LastLine[k]
          /\ SameBar(warned, r) /\ Placed(r)
      BY <3>2, <3>3, PanicPrints
    <3> HIDE DEF r
    <3> QED BY <3>1, <3>4
  <2> QED BY <2>1, <2>2
<1>3. halted = "no" /\ halted' = how /\ UNCHANGED <<main, strayed, text>>
  BY <1>2 DEF Halt, history
<1>4. screen' = s.screen /\ x' = s.x /\ y' = s.y
  BY <1>2 DEF Becomes
<1>5. how \in {"full", "system"} /\ how # "no"
  OBVIOUS
<1>6. \A c \in Cells : c < Columns => warned.screen[c] = Warning
  BY <1>1, MenubarIs
<1> HIDE DEF warned
<1>7. Types'
  BY <1>3, <1>4, <1>5 DEF ConsoleInv, Types, Consoles
<1>8. BarStays'
  <2> SUFFICES ASSUME NoErase, ~strayed, how = "full" PROVE Bars'
    BY <1>3, <1>5 DEF BarStays
  <2>1. SameBar(Here, s)
    BY <1>2, <1>3, HerePlaced
  <2>2. Bars
    BY <1>3 DEF ConsoleInv, BarStays
  <2> QED BY <1>1, <1>4, <2>1, <2>2 DEF Bars, SameBar
<1>9. PanicShown'
  <2>1. CASE how = "full"
    BY <1>2, <1>3, <1>4, <2>1 DEF PanicShown, LineStands, Stands
  <2>2. CASE how = "system"
    <3>1. \A c \in Cells : c < Columns => s.screen[c] = Warning
      BY <1>2, <1>6, <2>2 DEF SameBar
    <3>2. 1 <= s.y
      BY <1>2, <2>2 DEF Placed
    <3> QED BY <1>2, <1>3, <1>4, <2>2, <3>1, <3>2 DEF PanicShown, LineStands
  <2> QED BY <2>1, <2>2
<1> QED BY <1>3, <1>5, <1>7, <1>8, <1>9 DEF ConsoleInv, CursorPlace, StorePlace
-----------------------------------------------------------------------------
(* Every step keeps the invariant, and halting shows the panic.             *)
LEMMA ConsoleInvStep ==
  ASSUME ConsoleInv, PanicShown, [Next]_vars
  PROVE  ConsoleInv' /\ PanicShown'
<1>1. CASE FullSystemPanic \/ SystemPanic
  BY <1>1, PanicStep
<1>2. CASE PrintChar
  BY <1>2, PrintCharStep DEF PanicShown, PrintChar, Thread, keyboard
<1>3. CASE ClearConsole \/ ClearStep
  <2>1. halted = "no" /\ halted' = halted
    BY <1>3 DEF ClearConsole, ClearStep, ClearRow, ClearEnd, HomeX, HomeY, CountClear, Thread, keyboard
  <2> QED BY <1>3, <2>1, ClearSteps DEF PanicShown
<1>4. CASE KputcStep
  <2>1. halted = "no" /\ halted' = halted
    BY <1>4 DEF KputcStep, PlaceChar, ChooseCell, FindCell, StoreChar, MoveX, WrapLine, EndLine, MoveY, ScrollStart,
                CopyRow, BlankRow, LastRow, Thread, keyboard
  <2>2. ConsoleInv'
    BY <1>4, PlaceCharStep, CellSteps, MoveXStep, WrapLineStep, MoveYStep, ScrollSteps DEF KputcStep
  <2> QED BY <2>1, <2>2 DEF PanicShown
<1>5. ASSUME NEW key \in Keys, KeyboardHandler(key) PROVE ConsoleInv' /\ PanicShown'
  <2>1. halted' = "no"
    BY <1>5 DEF KeyboardHandler
  <2> QED BY <1>5, <2>1, KeyboardStep DEF PanicShown
<1>6. CASE UNCHANGED vars
  <2>1. UNCHANGED <<screen, x, y, main, text, strayed, halted>>
    BY <1>6 DEF vars
  <2>2. Types'
    BY <2>1 DEF ConsoleInv, Types
  <2>3. CursorPlace' /\ StorePlace'
    BY <2>1 DEF ConsoleInv, CursorPlace, StorePlace, OnScreen, Here
  <2>4. BarStays' /\ PanicShown'
    BY <2>1 DEF ConsoleInv, BarStays, Bars, PanicShown, LineStands
  <2> QED BY <2>2, <2>3, <2>4 DEF ConsoleInv
<1> QED BY <1>1, <1>2, <1>3, <1>4, <1>5, <1>6 DEF Next

(* The inductive invariant: where the cursor is, and what the thread has    *)
(* loaded of it, at each step of kputc and clear_console (vga.c:44-139).    *)
THEOREM ConsoleInvariant == Spec => []ConsoleInv
<1>1. Init => PanicShown
  BY DEF Init, PanicShown
<1>2. ConsoleInv /\ PanicShown /\ [Next]_vars => ConsoleInv' /\ PanicShown'
  BY ConsoleInvStep
<1> QED BY ConsoleInit, <1>1, <1>2, PTL DEF Spec

(* Outside kputc the cursor is on the screen below the status bar, however  *)
(* an echo came between the thread's loads and stores (vga.c:104-139,       *)
(* keyboard.c:103-179), unless an arrow or a backspace led it away.         *)
THEOREM CursorStaysOnScreen == Spec => []CursorAtRest
<1>1. ConsoleInv => CursorAtRest
  BY DEF ConsoleInv, CursorPlace, CursorAtRest, OnScreen, Here
<1> QED BY <1>1, ConsoleInvariant, PTL

(* As long as the thread itself prints no backspace, which no message of    *)
(* the kernel holds, nothing printed, cleared, typed or shown by a panic    *)
(* reaches row 0 (vga.c:79-91).                                             *)
THEOREM StatusBarStays ==
  ASSUME "erase" \notin Controls
  PROVE  Spec => []StatusBarKept
<1>1. ConsoleInv => StatusBarKept
  BY DEF ConsoleInv, BarStays, Bars, StatusBarKept, NoErase
<1> QED BY <1>1, ConsoleInvariant, PTL

(* A panic's last line is on the screen whatever it interrupted and         *)
(* wherever an arrow key had led the cursor, and system_panic's warning     *)
(* fills the status bar.  What full_system_panic prints from beyond the     *)
(* terminator of its format stands behind that line (vga.c:79-91, 284-295,  *)
(* 346-355, modes.c:27-59).                                                 *)
THEOREM PanicsShown == Spec => []PanicShown
<1>1. Init => PanicShown
  BY DEF Init, PanicShown
<1>2. ConsoleInv /\ PanicShown /\ [Next]_vars => ConsoleInv' /\ PanicShown'
  BY ConsoleInvStep
<1> QED BY ConsoleInit, <1>1, <1>2, PTL DEF Spec

-----------------------------------------------------------------------------

(* One more character changes nothing about those before it.                *)
LEMMA PlacesAppend ==
  ASSUME NEW S, NEW chars \in Seq(S), NEW char \in S
  PROVE  /\ \A n \in 0..Len(chars) : Places(Append(chars, char))[n] = Places(chars)[n]
         /\ Places(Append(chars, char))[Len(chars) + 1] = After(Places(chars)[Len(chars)], char)
<1> DEFINE l == Len(chars)
           longer == Append(chars, char)
           p == Places(chars)
           q == Places(longer)
           P == {n \in 0..l : q[n] = p[n]}
<1>1. /\ l \in Nat /\ longer \in Seq(S) /\ Len(longer) = l + 1 /\ longer[l + 1] = char
      /\ \A n \in 1..l : longer[n] = chars[n]
  OBVIOUS
<1>2. p[0] = <<1, 0>> /\ \A n \in 1..l : p[n] = After(p[n - 1], chars[n])
  BY PlacesIs
<1>3. q[0] = <<1, 0>> /\ \A n \in 1..(l + 1) : q[n] = After(q[n - 1], longer[n])
  <2> HIDE DEF longer
  <2> QED BY <1>1, PlacesIs
<1> HIDE DEF p, q, longer, l
<1>4. 0 \in P
  <2>1. 0 \in 0..l /\ q[0] = p[0]
    BY <1>1, <1>2, <1>3
  <2> QED BY <2>1
<1>5. ASSUME NEW n \in 0..(l - 1), n \in P PROVE n + 1 \in P
  <2>1. n + 1 \in 1..l /\ n + 1 \in 1..(l + 1) /\ n + 1 - 1 = n /\ n + 1 \in 0..l
    BY <1>1
  <2>2. q[n + 1] = After(q[n], longer[n + 1]) /\ p[n + 1] = After(p[n], chars[n + 1])
    BY <1>2, <1>3, <2>1
  <2> QED BY <1>1, <1>5, <2>1, <2>2
<1>6. 0..l \subseteq P
  <2> HIDE DEF P
  <2> QED BY <1>1, <1>4, <1>5, UpTo
<1>7. q[l + 1] = After(q[l], char) /\ q[l] = p[l]
  <2>1. l + 1 \in 1..(l + 1) /\ l + 1 - 1 = l /\ l \in 0..l
    BY <1>1
  <2> QED BY <1>1, <1>3, <1>6, <2>1
<1> QED BY <1>6, <1>7 DEF p, q, longer, l

(* What was printed since the last clearing.                                *)
LEMMA RecentAppend ==
  ASSUME NEW S, NEW chars \in Seq(S), NEW char \in S
  PROVE  /\ Recent(chars) \in Seq(S)
         /\ Recent(Append(chars, char))
              = IF char = "clear" THEN <<>> ELSE Append(Recent(chars), char)
<1> DEFINE last(seq) == SelectLastInSeq(seq, LAMBDA c : c = "clear")
           clears(seq) == {k \in 1..Len(seq) : seq[k] = "clear"}
           longer == Append(chars, char)
           l == Len(chars)
<1>1. /\ l \in Nat /\ longer \in Seq(S) /\ Len(longer) = l + 1 /\ longer[l + 1] = char
      /\ \A n \in 1..l : longer[n] = chars[n]
  OBVIOUS
<1>2. ASSUME NEW seq \in Seq(S)
      PROVE  /\ clears(seq) = {} => last(seq) = 0
             /\ clears(seq) # {} => /\ last(seq) \in clears(seq)
                                    /\ \A k \in clears(seq) : k <= last(seq)
  <2> DEFINE I == {k \in 1..Len(seq) : seq[k] = "clear"}
             J == {Len(seq) - k : k \in I}
  <2>1. last(seq) = IF I # {} THEN Max(I) ELSE 0
    BY DEF SelectLastInSeq
  <2>2. CASE I # {}
    <3>1. PICK m \in J : \A j \in J : m <= j
      <4>1. J \subseteq Nat /\ J # {}
        BY <2>2
      <4> HIDE DEF J
      <4> QED BY <4>1, LeastExists
    <3>2. PICK p \in I : m = Len(seq) - p
      OBVIOUS
    <3>3. \A k \in I : k <= p
      <4> SUFFICES ASSUME NEW k \in I PROVE k <= p
        OBVIOUS
      <4>1. Len(seq) - k \in J
        OBVIOUS
      <4>2. m <= Len(seq) - k
        BY <3>1, <4>1
      <4> QED BY <3>2, <4>2
    <3>4. Max(I) = p
      <4>1. I \subseteq Nat
        OBVIOUS
      <4> HIDE DEF I
      <4> QED BY <3>3, <4>1 DEF Max
    <3>5. last(seq) = p
      <4> HIDE DEF I
      <4> QED BY <2>1, <2>2, <3>4
    <3> QED BY <2>2, <3>3, <3>5
  <2>3. CASE I = {}
    <3> HIDE DEF last
    <3> QED BY <2>1, <2>3
  <2> QED BY <2>2, <2>3
<1>3. Recent(chars) = SubSeq(chars, last(chars) + 1, l)
      /\ Recent(longer) = SubSeq(longer, last(longer) + 1, l + 1)
  BY <1>1 DEF Recent
<1> HIDE DEF last, longer, l
<1>4. last(chars) \in 0..l /\ last(longer) \in 0..(l + 1)
  BY <1>1, <1>2 DEF l
<1>5. PICK a \in Nat : a = last(chars) /\ a \in 0..l
  BY <1>1, <1>4
<1>6. /\ Len(SubSeq(chars, a + 1, l)) = l - a /\ SubSeq(chars, a + 1, l) \in Seq(S)
      /\ \A k \in 1..(l - a) : SubSeq(chars, a + 1, l)[k] = chars[a + k]
  <2>1. PICK m \in Int : m = a + 1
    BY <1>5
  <2>2. l \in Int /\ \A k \in m..l : chars[k] \in S
    BY <1>1, <1>5, <2>1 DEF l
  <2>3. /\ Len(SubSeq(chars, m, l)) = IF m <= l THEN l - m + 1 ELSE 0
        /\ SubSeq(chars, m, l) \in Seq(S)
        /\ \A k \in 1..(l - m + 1) : SubSeq(chars, m, l)[k] = chars[m + k - 1]
    BY <2>2, SubSeqProperties
  <2>4. l \in Nat /\ a \in Nat /\ a <= l
    BY <1>1, <1>5
  <2>5. /\ l - m + 1 = l - a /\ (IF m <= l THEN l - m + 1 ELSE 0) = l - a
        /\ \A k \in 1..(l - a) : m + k - 1 = a + k
    BY <2>1, <2>4
  <2> QED BY <2>1, <2>3, <2>5
<1>7. CASE char = "clear"
  <2>1. last(longer) = l + 1
    <3>1. l + 1 \in clears(longer)
      BY <1>1, <1>7
    <3>2. last(longer) \in clears(longer) /\ l + 1 <= last(longer)
      BY <1>1, <1>2, <3>1
    <3> QED BY <1>1, <1>4, <3>2
  <2>2. Recent(longer) = SubSeq(longer, l + 2, l + 1)
    BY <1>1, <1>3, <2>1
  <2>3. SubSeq(longer, l + 2, l + 1) = <<>>
    BY <1>1
  <2> QED BY <1>3, <1>5, <1>6, <1>7, <2>2, <2>3 DEF longer
<1>8. CASE char # "clear"
  <2>1. clears(longer) = clears(chars)
    BY <1>1, <1>8 DEF l
  <2>2. last(longer) = a
    <3>1. CASE clears(chars) = {}
      BY <1>1, <1>2, <1>5, <2>1, <3>1
    <3>2. CASE clears(chars) # {}
      <4>1. /\ last(longer) \in clears(chars) /\ last(chars) \in clears(chars)
            /\ last(longer) <= last(chars) /\ last(chars) <= last(longer)
        BY <1>1, <1>2, <2>1, <3>2
      <4> QED BY <1>4, <1>5, <4>1
    <3> QED BY <3>1, <3>2
  <2>3. Recent(longer) = SubSeq(longer, a + 1, l + 1)
    BY <1>3, <2>2
  <2>4. /\ Len(SubSeq(longer, a + 1, l + 1)) = l + 1 - a
        /\ SubSeq(longer, a + 1, l + 1) \in Seq(S)
        /\ \A k \in 1..(l + 1 - a) : SubSeq(longer, a + 1, l + 1)[k] = longer[a + k]
    <3>1. PICK m \in Int : m = a + 1
      BY <1>5
    <3>2. PICK n \in Int : n = l + 1
      BY <1>1
    <3>3. \A k \in m..n : longer[k] \in S
      BY <1>1, <1>5, <3>1, <3>2
    <3>4. /\ Len(SubSeq(longer, m, n)) = IF m <= n THEN n - m + 1 ELSE 0
          /\ SubSeq(longer, m, n) \in Seq(S)
          /\ \A k \in 1..(n - m + 1) : SubSeq(longer, m, n)[k] = longer[m + k - 1]
      BY <3>3, SubSeqProperties
    <3>5. l \in Nat /\ a \in Nat /\ a <= l
      BY <1>1, <1>5
    <3>6. /\ n - m + 1 = l + 1 - a /\ (IF m <= n THEN n - m + 1 ELSE 0) = l + 1 - a
          /\ \A k \in 1..(l + 1 - a) : m + k - 1 = a + k
      BY <3>1, <3>2, <3>5
    <3> QED BY <3>1, <3>2, <3>4, <3>6
  <2> DEFINE r == SubSeq(chars, a + 1, l)
             t == SubSeq(longer, a + 1, l + 1)
  <2>5. r \in Seq(S) /\ Len(r) = l - a /\ \A k \in 1..(l - a) : r[k] = chars[a + k]
    BY <1>6
  <2>6. t \in Seq(S) /\ Len(t) = l + 1 - a /\ \A k \in 1..(l + 1 - a) : t[k] = longer[a + k]
    BY <2>4
  <2> HIDE DEF r, t
  <2>7. /\ Append(r, char) \in Seq(S) /\ Len(Append(r, char)) = l - a + 1
        /\ \A k \in 1..(l - a) : Append(r, char)[k] = r[k]
        /\ Append(r, char)[l - a + 1] = char
    BY <2>5
  <2>8. \A k \in 1..(l + 1 - a) : t[k] = Append(r, char)[k]
    <3> SUFFICES ASSUME NEW k \in 1..(l + 1 - a) PROVE t[k] = Append(r, char)[k]
      OBVIOUS
    <3>1. CASE k = l + 1 - a
      <4>1. a + k = l + 1 /\ k = l - a + 1
        BY <1>1, <1>5, <3>1
      <4> QED BY <1>1, <2>6, <2>7, <4>1
    <3>2. CASE k # l + 1 - a
      <4>1. k \in 1..(l - a) /\ a + k \in 1..l
        BY <1>1, <1>5, <3>2, SMTT(30)
      <4> QED BY <1>1, <2>5, <2>6, <2>7, <4>1
    <3> QED BY <3>1, <3>2
  <2>9. t = Append(r, char)
    <3>1. Len(Append(r, char)) = Len(t)
      BY <1>1, <1>5, <2>6, <2>7
    <3> DEFINE u == Append(r, char)
    <3>2. u \in Seq(S) /\ t \in Seq(S) /\ Len(t) = Len(u) /\ \A k \in 1..Len(t) : t[k] = u[k]
      BY <2>6, <2>7, <2>8, <3>1
    <3> HIDE DEF u
    <3>3. t = u
      BY <3>2
    <3> QED BY <3>3 DEF u
  <2> QED BY <1>3, <1>5, <1>6, <1>8, <2>3, <2>9 DEF r, t, longer
<1> QED BY <1>7, <1>8

-----------------------------------------------------------------------------
(* scrolled away: what ScreenShowsText says of a console.                   *)
Unseen == {"newline", "tab"}
PutAt(chars, line, col) ==
  {n \in 1..Len(chars) : chars[n] \notin Unseen /\ Places(chars)[n - 1] = <<line, col>>}
Cell(chars, line, col, glyph) ==
  /\ \A n \in PutAt(chars, line, col) : glyph = chars[n]
  /\ PutAt(chars, line, col) = {} => glyph = Blank
CellsShow(scr, chars, lines) ==
  \A row \in 1..(Rows - 1), col \in 0..(Columns - 1) :
    Cell(chars, row + lines, col, scr[At(row, col)])
Matches(s, chars, lines) ==
  /\ s \in Consoles /\ OnScreen(s) /\ lines \in Nat
  /\ Places(chars)[Len(chars)] = <<s.y + lines, s.x>>
  /\ CellsShow(s.screen, chars, lines)

(* No character goes twice to a place, nor behind the end.                  *)
LEMMA NothingAtEnd ==
  ASSUME NEW S, NEW chars \in Seq(S), NEW line, NEW col,
         \/ Places(chars)[Len(chars)] = <<line, col>>
         \/ Before(Places(chars)[Len(chars)], <<line, col>>) /\ line \in Nat /\ col \in Nat
  PROVE  PutAt(chars, line, col) = {}
<1> DEFINE l == Len(chars)
           p == Places(chars)
<1>1. SUFFICES ASSUME NEW n \in 1..l, p[n - 1] = <<line, col>> PROVE FALSE
  BY DEF PutAt
<1>2. l \in Nat /\ l \in 0..l /\ n - 1 \in 0..(l - 1) /\ n - 1 \in 0..l
  OBVIOUS
<1>3. p[l] \in Spots /\ p[n - 1] \in Spots /\ Before(p[n - 1], p[l])
  BY <1>2, PlacesIs, PlacesIncrease
<1> DEFINE a == p[n - 1]
           b == p[l]
<1>4. a[1] = line /\ a[2] = col /\ a[1] \in Nat /\ a[2] \in Int /\ b[1] \in Nat /\ b[2] \in Int
  BY <1>1, <1>3 DEF Spots
<1>5. Before(a, b) /\ (b = <<line, col>> \/ Before(b, <<line, col>>))
  BY <1>3
<1>6. <<line, col>>[1] = line /\ <<line, col>>[2] = col
  OBVIOUS
<1> HIDE DEF a, b
<1> QED BY <1>4, <1>5, <1>6 DEF Before

LEMMA PutAtAppend ==
  ASSUME NEW S, NEW chars \in Seq(S), NEW char \in S, NEW line, NEW col
  PROVE  /\ PutAt(Append(chars, char), line, col)
              = PutAt(chars, line, col)
                \union (IF char \notin Unseen /\ Places(chars)[Len(chars)] = <<line, col>>
                        THEN {Len(chars) + 1} ELSE {})
         /\ \A n \in 1..Len(chars) : Append(chars, char)[n] = chars[n]
         /\ Append(chars, char)[Len(chars) + 1] = char
         /\ Len(chars) + 1 \notin PutAt(chars, line, col)
<1> DEFINE l == Len(chars)
           longer == Append(chars, char)
<1>1. /\ l \in Nat /\ Len(longer) = l + 1 /\ longer[l + 1] = char
      /\ \A n \in 1..l : longer[n] = chars[n]
  OBVIOUS
<1>2. \A n \in 0..l : Places(longer)[n] = Places(chars)[n]
  BY PlacesAppend
<1> HIDE DEF longer, l
<1>3. \A n \in 1..l : Places(longer)[n - 1] = Places(chars)[n - 1]
  BY <1>1, <1>2
<1>4. Places(longer)[(l + 1) - 1] = Places(chars)[l]
  BY <1>1, <1>2
<1>5. \A n \in 1..(l + 1) : n \in 1..l \/ n = l + 1
  BY <1>1
<1>6. 1..l \subseteq 1..(l + 1) /\ l + 1 \in 1..(l + 1) /\ l + 1 \notin 1..l
  BY <1>1
<1>7. PutAt(longer, line, col)
        = {n \in 1..(l + 1) : longer[n] \notin Unseen /\ Places(longer)[n - 1] = <<line, col>>}
  BY <1>1 DEF PutAt
<1>8. PutAt(chars, line, col)
        = {n \in 1..l : chars[n] \notin Unseen /\ Places(chars)[n - 1] = <<line, col>>}
  BY DEF PutAt, l
<1> QED BY <1>1, <1>3, <1>4, <1>5, <1>6, <1>7, <1>8, SMTT(30) DEF longer, l

(* Scrolling shows the same text one line further on, when it ends at the   *)
(* left of the line that comes up.                                          *)
LEMMA ScrollMatches ==
  ASSUME NEW s \in Consoles, s.y = Rows, NEW lines \in Nat, NEW S, NEW chars \in Seq(S),
         CellsShow(s.screen, chars, lines),
         Places(chars)[Len(chars)] = <<Rows + lines, s.x>>, s.x = 0
  PROVE  Matches(Scroll(s), chars, lines + 1)
<1>1. Rows \in Nat /\ Rows > 2 /\ Columns \in Nat \ {0}
  BY SizeFits
<1>2. Scroll(s) \in Consoles /\ Scroll(s).x = 0 /\ Scroll(s).y = Rows - 1
  BY <1>1, ScrollIs
<1>3. OnScreen(Scroll(s))
  BY <1>1, <1>2 DEF OnScreen
<1>4. Places(chars)[Len(chars)] = <<Scroll(s).y + (lines + 1), Scroll(s).x>>
  <2>1. Rows - 1 + (lines + 1) = Rows + lines
    BY <1>1
  <2> QED BY <1>2, <2>1
<1>5. ASSUME NEW row \in 1..(Rows - 1), NEW col \in 0..(Columns - 1)
      PROVE  Cell(chars, row + (lines + 1), col, Scroll(s).screen[At(row, col)])
  <2>1. CASE row # Rows - 1
    <3>1. row \in 1..(Rows - 2) /\ row + 1 \in 1..(Rows - 1) /\ row + (lines + 1) = (row + 1) + lines
      BY <1>1, <2>1
    <3>2. Cell(chars, (row + 1) + lines, col, s.screen[At(row + 1, col)])
      BY <3>1 DEF CellsShow
    <3>3. Scroll(s).screen[At(row, col)] = s.screen[At(row + 1, col)]
      BY <3>1, ScrollShown
    <3> QED BY <3>1, <3>2, <3>3
  <2>2. CASE row = Rows - 1
    <3> DEFINE line == row + (lines + 1)
               place == Places(chars)[Len(chars)]
    <3>1. line = Rows + lines /\ line \in Nat /\ col \in Nat
      BY <1>1, <2>2
    <3>2. place = <<line, col>> \/ Before(place, <<line, col>>)
      <4>1. CASE col = 0
        BY <3>1, <4>1
      <4>2. CASE col # 0
        <5>1. place[1] = line /\ place[2] = 0 /\ 0 < col
          BY <3>1, <4>2
        <5> QED BY <5>1 DEF Before
      <4> QED BY <4>1, <4>2
    <3>3. PutAt(chars, line, col) = {}
      <4> HIDE DEF line
      <4> QED BY <3>1, <3>2, NothingAtEnd
    <3>4. Scroll(s).screen[At(row, col)] = Blank
      BY <2>2, ScrollShown
    <3> QED BY <3>3, <3>4 DEF Cell
  <2> QED BY <2>1, <2>2
<1>6. CellsShow(Scroll(s).screen, chars, lines + 1)
  BY <1>5 DEF CellsShow
<1> QED BY <1>2, <1>3, <1>4, <1>6 DEF Matches

(* Before it wraps, kputc has put a character at the end of the text.       *)
LEMMA PutShows ==
  ASSUME NEW S, NEW chars \in Seq(S), NEW s, NEW lines, Matches(s, chars, lines),
         NEW char \in Glyphs \intersect S, char \notin {"return", "erase"}
  PROVE  CellsShow(Put(s, char).screen, Append(chars, char), lines)
<1> DEFINE t == Put(s, char)
           longer == Append(chars, char)
           l == Len(chars)
<1>1. s \in Consoles /\ OnScreen(s) /\ lines \in Nat /\ l \in Nat
      /\ Places(chars)[l] = <<s.y + lines, s.x>> /\ CellsShow(s.screen, chars, lines)
  BY DEF Matches
<1>2. s.x \in 0..(Columns - 1) /\ s.y \in 1..(Rows - 1) /\ s.y \in 0..(Rows - 1)
      /\ s.x \in Nat /\ s.y \in Nat
  BY <1>1, SizeFits DEF OnScreen, Consoles, Words
<1>3. SUFFICES ASSUME NEW row \in 1..(Rows - 1), NEW col \in 0..(Columns - 1)
               PROVE  Cell(longer, row + lines, col, t.screen[At(row, col)])
  BY DEF CellsShow
<1>4. row \in 0..(Rows - 1) /\ Rows \in Nat
  BY SizeFits
<1>5. Cell(chars, row + lines, col, s.screen[At(row, col)])
  BY <1>1 DEF CellsShow
<1>6. /\ PutAt(longer, row + lines, col)
           = PutAt(chars, row + lines, col)
             \union (IF char \notin Unseen /\ Places(chars)[l] = <<row + lines, col>>
                     THEN {l + 1} ELSE {})
      /\ \A n \in 1..l : longer[n] = chars[n]
      /\ longer[l + 1] = char
  BY PutAtAppend
<1>7. PutAt(chars, row + lines, col) \subseteq 1..l
  BY DEF PutAt
<1> HIDE DEF longer, l
<1>8. CASE char \in Unseen
  <2>1. t.screen = s.screen
    BY <1>1, <1>8, PutIs DEF Unseen
  <2>2. PutAt(longer, row + lines, col) = PutAt(chars, row + lines, col)
    BY <1>6, <1>8
  <2> HIDE DEF t
  <2> QED BY <1>5, <1>6, <1>7, <2>1, <2>2 DEF Cell
<1>9. CASE char \notin Unseen
  <2>1. char \notin Control
    BY <1>9 DEF Unseen, Control
  <2>2. Index(s) = At(s.y, s.x)
    <3>1. s.y \in 0..Rows /\ s.x <= Columns + 4 /\ s.x < Columns
      BY <1>2, SizeFits
    <3> QED BY <1>1, <3>1, IndexIs DEF At
  <2>3. At(row, col) \in Cells
    BY <1>4, RowIs
  <2>4. t.screen[At(row, col)] = IF At(row, col) = At(s.y, s.x) THEN char ELSE s.screen[At(row, col)]
    BY <1>1, <2>1, <2>2, <2>3, PutIs
  <2>5. CASE row = s.y /\ col = s.x
    <3>1. Places(chars)[l] = <<row + lines, col>>
      BY <1>1, <2>5
    <3>2. PutAt(chars, row + lines, col) = {}
      BY <3>1, NothingAtEnd DEF l
    <3>3. PutAt(longer, row + lines, col) = {l + 1}
      BY <1>6, <1>9, <3>1, <3>2
    <3>4. t.screen[At(row, col)] = char
      BY <2>4, <2>5
    <3> HIDE DEF t
    <3> QED BY <1>6, <3>3, <3>4 DEF Cell
  <2>6. CASE ~(row = s.y /\ col = s.x)
    <3>1. At(row, col) # At(s.y, s.x)
      BY <1>2, <1>4, <2>6, AtOnce
    <3>2. Places(chars)[l] # <<row + lines, col>>
      <4>1. <<s.y + lines, s.x>> # <<row + lines, col>>
        BY <1>1, <1>2, <2>6
      <4> QED BY <1>1, <4>1
    <3>3. PutAt(longer, row + lines, col) = PutAt(chars, row + lines, col)
      BY <1>6, <3>2
    <3>4. t.screen[At(row, col)] = s.screen[At(row, col)]
      BY <2>4, <3>1
    <3> HIDE DEF t
    <3> QED BY <1>5, <1>6, <1>7, <3>3, <3>4 DEF Cell
  <2> QED BY <2>5, <2>6
<1> QED BY <1>8, <1>9

(* kputc shows the text with the character (vga.c:79-139).                  *)
GoneAfter(chars, lines) ==
  LET line == Places(chars)[Len(chars)][1]
      over == IF line >= Rows THEN line - (Rows - 1) ELSE 0
  IN IF over > lines THEN over ELSE lines
LEMMA KputcMatches ==
  ASSUME NEW S, NEW chars \in Seq(S), NEW s, NEW lines, Matches(s, chars, lines),
         NEW char \in Glyphs \intersect S, char \notin {"return", "erase"}
  PROVE  Matches(Kputc(s, char), Append(chars, char), GoneAfter(Append(chars, char), lines))
<1> DEFINE t == Put(s, char)
           w == Wrap(t)
           longer == Append(chars, char)
           place == Places(longer)[Len(longer)]
<1>1. s \in Consoles /\ OnScreen(s) /\ lines \in Nat
      /\ Places(chars)[Len(chars)] = <<s.y + lines, s.x>>
  BY DEF Matches
<1>2. s.x \in 0..(Columns - 1) /\ s.y \in 1..(Rows - 1) /\ Rows \in Nat /\ Rows > 2
      /\ Columns \in Nat \ {0} /\ s.x \in Nat /\ s.y \in Nat
  BY <1>1, SizeFits DEF OnScreen, Consoles, Words
<1>3. place = After(<<s.y + lines, s.x>>, char)
  <2>1. Len(longer) = Len(chars) + 1
    OBVIOUS
  <2>2. Places(longer)[Len(chars) + 1] = After(Places(chars)[Len(chars)], char)
    BY PlacesAppend
  <2> QED BY <1>1, <2>1, <2>2
<1>4. CellsShow(t.screen, longer, lines)
  BY PutShows
<1>5. /\ t \in Consoles
      /\ char = "newline" => t.y = s.y + 1 /\ t.x = 0
      /\ char = "tab" => t.y = s.y /\ t.x = s.x + 5
      /\ char \notin Unseen => t.y = s.y /\ t.x = s.x + 1
  <2>2. /\ Word(s.x + 1) = s.x + 1 /\ Word(s.x + 4) = s.x + 4 /\ Word(s.x + 5) = s.x + 5
        /\ Word(s.y + 1) = s.y + 1
    BY <1>2, MovesFit
  <2>3. /\ t \in Consoles /\ t.y = (IF char = "newline" THEN Word(s.y + 1) ELSE s.y)
        /\ char = "newline" => t.x = 0
        /\ char \notin Control => t.x = Word(s.x + 1)
    BY <1>1, PutIs
  <2>4. char = "tab" => t.x = s.x + 5
    <3> SUFFICES ASSUME char = "tab" PROVE t.x = s.x + 5
      OBVIOUS
    <3>1. t = [screen |-> s.screen, x |-> Word(Word(s.x + 4) + 1), y |-> s.y]
      BY <1>1 DEF Put, Place, Advance, Consoles
    <3>2. s.x + 4 + 1 = s.x + 5
      BY <1>2
    <3> QED BY <2>2, <3>1, <3>2
  <2> HIDE DEF t
  <2> QED BY <2>2, <2>3, <2>4 DEF Unseen, Control
<1>6. /\ w \in Consoles /\ w.screen = t.screen
      /\ t.x >= Columns => w.x = 0 /\ w.y = Word(t.y + 1)
      /\ t.x < Columns => w.x = t.x /\ w.y = t.y
  <2> HIDE DEF t
  <2> QED BY <1>5, WrapIs
<1>7. Kputc(s, char) = Scroll(w)
  BY DEF Kputc, Put
<1> HIDE DEF w, t, place, longer
<1>8. /\ place = <<w.y + lines, w.x>> /\ w.x \in Nat /\ w.x < Columns
      /\ w.y \in 1..Rows /\ (w.y = Rows => w.x = 0)
  <2>1. Word(s.y + 1) = s.y + 1
    BY <1>2, MovesFit
  <2>2. CASE char = "newline"
    <3>1. place = <<s.y + lines + 1, 0>>
      BY <1>3, <2>2 DEF After
    <3>2. w.x = 0 /\ w.y = s.y + 1
      BY <1>2, <1>5, <1>6, <2>2
    <3>3. s.y + lines + 1 = w.y + lines
      BY <1>1, <1>2, <3>2
    <3> QED BY <1>2, <3>1, <3>2, <3>3
  <2>3. ASSUME NEW d \in {1, 5}, t.y = s.y, t.x = s.x + d, place = Folded(s.y + lines, s.x + d)
        PROVE  /\ place = <<w.y + lines, w.x>> /\ w.x \in Nat /\ w.x < Columns
               /\ w.y \in 1..Rows /\ (w.y = Rows => w.x = 0)
    <3>1. CASE s.x + d >= Columns
      <4>1. place = <<s.y + lines + 1, 0>>
        BY <2>3, <3>1 DEF Folded
      <4>2. w.x = 0 /\ w.y = s.y + 1
        BY <1>6, <2>1, <2>3, <3>1
      <4>3. s.y + lines + 1 = w.y + lines
        BY <1>1, <1>2, <4>2
      <4> QED BY <1>2, <4>1, <4>2, <4>3
    <3>2. CASE ~(s.x + d >= Columns)
      <4>1. place = <<s.y + lines, s.x + d>>
        BY <2>3, <3>2 DEF Folded
      <4>2. w.x = s.x + d /\ w.y = s.y
        BY <1>2, <1>6, <2>3, <3>2
      <4> QED BY <1>2, <3>2, <4>1, <4>2, SMTT(30)
    <3> QED BY <3>1, <3>2
  <2>4. CASE char = "tab"
    <3>1. place = Folded(s.y + lines, s.x + 5)
      BY <1>3, <2>4 DEF After
    <3> QED BY <1>5, <2>3, <2>4, <3>1
  <2>5. CASE char \notin Unseen
    <3>1. place = Folded(s.y + lines, s.x + 1)
      BY <1>3, <2>5 DEF After, Unseen
    <3> QED BY <1>5, <2>3, <2>5, <3>1
  <2> QED BY <2>2, <2>4, <2>5 DEF Unseen
<1>9. CellsShow(w.screen, longer, lines)
  BY <1>4, <1>6
<1>10. longer \in Seq(S)
  BY DEF longer
<1>11. GoneAfter(longer, lines)
         = (LET over == IF place[1] >= Rows THEN place[1] - (Rows - 1) ELSE 0
            IN IF over > lines THEN over ELSE lines)
  BY DEF GoneAfter, place
<1>12. Matches(Scroll(w), longer, GoneAfter(longer, lines))
  <2>1. place[1] = w.y + lines
    BY <1>8
  <2> HIDE DEF longer, place
  <2>2. CASE w.y = Rows
    <3>1. GoneAfter(longer, lines) = lines + 1
      BY <1>1, <1>2, <1>11, <2>1, <2>2
    <3>2. place = <<Rows + lines, w.x>> /\ w.x = 0
      BY <1>8, <2>2
    <3>3. Matches(Scroll(w), longer, lines + 1)
      BY <1>1, <1>6, <1>9, <1>10, <2>2, <3>2, ScrollMatches DEF place
    <3> QED BY <3>1, <3>3
  <2>3. CASE w.y # Rows
    <3>1. w.y < Rows /\ 1 <= w.y
      BY <1>2, <1>8, <2>3
    <3>2. Scroll(w) = w
      BY <1>6, <3>1, ScrollIs, Zenon
    <3>3. GoneAfter(longer, lines) = lines
      BY <1>1, <1>2, <1>8, <1>11, <2>1, <3>1
    <3> QED BY <1>1, <1>6, <1>8, <1>9, <3>1, <3>2, <3>3 DEF Matches, OnScreen, place
  <2> QED BY <2>2, <2>3
<1> QED BY <1>7, <1>12 DEF longer

(* A backspace behind a character takes it off the screen                   *)
(* (keyboard.c:159-169).                                                    *)
LEMMA BackspaceMatches ==
  ASSUME NEW S, NEW chars \in Seq(S), NEW char \in S, char \notin Unseen, NEW s, NEW lines,
         Matches(s, Append(chars, char), lines), <<s.x, s.y>> # <<0, 1>>
  PROVE  Matches(Backspace(Kputc(s, "erase")), chars, lines)
<1> DEFINE t == Kputc(s, "erase")
           r == Backspace(t)
           longer == Append(chars, char)
           l == Len(chars)
           place == Places(chars)[l]
<1>1. /\ s \in Consoles /\ OnScreen(s) /\ lines \in Nat /\ l \in Nat
      /\ Places(longer)[Len(longer)] = <<s.y + lines, s.x>>
      /\ CellsShow(s.screen, longer, lines)
  BY DEF Matches
<1>2. s.x \in 0..(Columns - 1) /\ s.y \in 1..(Rows - 1) /\ Rows \in Nat /\ Rows > 2
      /\ Columns \in Nat \ {0} /\ s.x \in Nat /\ s.y \in Nat
  <2>1. s.x \in Words /\ s.y \in Words
    BY <1>1 DEF Consoles
  <2>2. s.x \in Nat /\ s.y \in Nat
    BY <2>1 DEF Words
  <2>3. s.x < Columns /\ 1 <= s.y /\ s.y < Rows
    BY <1>1 DEF OnScreen
  <2>4. Rows \in Nat /\ Rows > 2 /\ Columns \in Nat \ {0}
    BY SizeFits
  <2> QED BY <2>2, <2>3, <2>4
<1>3. place \in Spots /\ After(place, char) = <<s.y + lines, s.x>>
  <2>1. l \in 0..l /\ Len(longer) = l + 1
    BY <1>1
  <2>2. place \in Spots
    BY <2>1, PlacesIs
  <2>3. Places(longer)[l + 1] = After(place, char)
    BY PlacesAppend
  <2> QED BY <1>1, <2>1, <2>2, <2>3
<1>4. After(place, char) = Folded(place[1], place[2] + 1)
  BY DEF After, Unseen
<1>5. /\ t \in Consoles /\ t.x = s.x /\ t.y = s.y
      /\ \A c \in Cells : t.screen[c] = IF c = s.y * Columns + s.x - 1 THEN Blank ELSE s.screen[c]
  BY <1>1, KputcErases
<1>6. t.x \in Nat /\ t.y \in Nat /\ t = [screen |-> t.screen, x |-> t.x, y |-> t.y]
      /\ t.screen \in Screens /\ t.x \in Words /\ t.y \in Words
  BY <1>5 DEF Consoles, Words
<1> HIDE DEF t
<1>7. /\ r \in Consoles /\ r.screen = t.screen
      /\ s.x = 0 => r.x = Columns - 1 /\ r.y = s.y - 1
      /\ s.x # 0 => r.x = s.x - 1 /\ r.y = s.y
  <2>1. CASE s.x = 0
    <3>1. r = [screen |-> t.screen, x |-> Columns - 1, y |-> Word(t.y - 1)]
      BY <1>5, <1>6, <2>1 DEF Backspace
    <3>2. t.y - 1 \in Words /\ Columns - 1 \in Words
      BY <1>2, <1>5, SizeFits DEF Words
    <3>3. Word(t.y - 1) = t.y - 1
      BY <3>2, WordRange
    <3> QED BY <1>5, <1>6, <2>1, <3>1, <3>2, <3>3 DEF Consoles
  <2>2. CASE s.x # 0
    <3>1. r = [screen |-> t.screen, x |-> t.x - 1, y |-> t.y]
      BY <1>5, <1>6, <2>2 DEF Backspace
    <3>2. t.x - 1 \in Words
      BY <1>2, <1>5, <2>2, SizeFits DEF Words
    <3> QED BY <1>5, <1>6, <2>2, <3>1, <3>2 DEF Consoles
  <2> QED BY <2>1, <2>2
<1> HIDE DEF r, longer, l
<1>8. /\ place = <<r.y + lines, r.x>> /\ r.x \in 0..(Columns - 1) /\ r.y \in 1..(Rows - 1)
      /\ r.y \in 0..(Rows - 1)
  <2>1. PICK line \in Nat, col \in 0..(Columns - 1) : place = <<line, col>>
    BY <1>3 DEF Spots
  <2> HIDE DEF place
  <2>2. Folded(line, col + 1) = <<s.y + lines, s.x>>
    BY <1>3, <1>4, <2>1
  <2>3. CASE s.x = 0
    <3>1. s.y # 1
      BY <2>3
    <3>2. col + 1 >= Columns /\ line + 1 = s.y + lines
      <4>1. CASE col + 1 >= Columns
        BY <2>2, <4>1 DEF Folded
      <4>2. CASE ~(col + 1 >= Columns)
        BY <2>2, <2>3, <4>2 DEF Folded
      <4> QED BY <4>1, <4>2
    <3>3. line = (s.y - 1) + lines /\ col = Columns - 1
      BY <1>1, <1>2, <3>2, SMTT(30)
    <3>4. r.y = s.y - 1 /\ r.x = Columns - 1 /\ s.y - 1 \in 1..(Rows - 1)
      BY <1>2, <1>7, <2>3, <3>1
    <3> QED BY <1>2, <2>1, <3>3, <3>4
  <2>4. CASE s.x # 0
    <3>1. ~(col + 1 >= Columns) /\ line = s.y + lines /\ col + 1 = s.x
      <4>1. CASE col + 1 >= Columns
        BY <2>2, <2>4, <4>1 DEF Folded
      <4>2. CASE ~(col + 1 >= Columns)
        BY <2>2, <4>2 DEF Folded
      <4> QED BY <4>1, <4>2
    <3>2. r.y = s.y /\ r.x = s.x - 1
      BY <1>7, <2>4
    <3> QED BY <1>2, <2>1, <3>1, <3>2, SMTT(30)
  <2> QED BY <2>3, <2>4
<1>9. At(r.y, r.x) = s.y * Columns + s.x - 1
  <2> DEFINE start == s.y * Columns
  <2>1. start \in Nat /\ (s.y - 1) * Columns = start - Columns
    <3>1. s.y \in 0..(Rows - 1)
      BY <1>2
    <3>2. s.y * Columns \in Nat
      BY <3>1, RowStart
    <3> QED BY <1>2, <3>2
  <2>2. CASE s.x = 0
    <3>1. At(r.y, r.x) = (s.y - 1) * Columns + (Columns - 1)
      BY <1>7, <2>2 DEF At
    <3> HIDE DEF start
    <3>2. At(r.y, r.x) = start - Columns + (Columns - 1)
      BY <2>1, <3>1
    <3>3. At(r.y, r.x) = start + s.x - 1
      BY <1>2, <2>1, <2>2, <3>2
    <3> QED BY <3>3 DEF start
  <2>3. CASE s.x # 0
    <3>1. At(r.y, r.x) = start + (s.x - 1)
      BY <1>7, <2>3 DEF At
    <3> HIDE DEF start
    <3>2. At(r.y, r.x) = start + s.x - 1
      BY <1>2, <2>1, <3>1
    <3> QED BY <3>2 DEF start
  <2> QED BY <2>2, <2>3
<1>10. ASSUME NEW row \in 1..(Rows - 1), NEW col \in 0..(Columns - 1)
       PROVE  Cell(chars, row + lines, col, r.screen[At(row, col)])
  <2>1. row \in 0..(Rows - 1)
    BY <1>2
  <2>2. Cell(longer, row + lines, col, s.screen[At(row, col)]) /\ At(row, col) \in Cells
    BY <1>1, <2>1, RowIs DEF CellsShow
  <2>3. r.screen[At(row, col)] = IF At(row, col) = At(r.y, r.x) THEN Blank ELSE s.screen[At(row, col)]
    BY <1>5, <1>7, <1>9, <2>2
  <2>4. /\ PutAt(longer, row + lines, col)
             = PutAt(chars, row + lines, col)
               \union (IF char \notin Unseen /\ place = <<row + lines, col>> THEN {l + 1} ELSE {})
        /\ \A n \in 1..l : longer[n] = chars[n]
    BY PutAtAppend DEF longer, l
  <2>5. PutAt(chars, row + lines, col) \subseteq 1..l
    BY DEF PutAt, l
  <2> HIDE DEF place
  <2>6. CASE row = r.y /\ col = r.x
    <3>1. place = <<row + lines, col>>
      BY <1>8, <2>6
    <3>2. PutAt(chars, row + lines, col) = {}
      BY <3>1, NothingAtEnd DEF place, l
    <3> QED BY <2>3, <2>6, <3>2 DEF Cell
  <2>7. CASE ~(row = r.y /\ col = r.x)
    <3>1. At(row, col) # At(r.y, r.x)
      BY <1>8, <2>1, <2>7, AtOnce
    <3>2. place # <<row + lines, col>>
      <4>1. row \in Nat /\ col \in Nat /\ r.y \in Nat /\ r.x \in Nat
        BY <1>2, <1>8
      <4>2. <<r.y + lines, r.x>> # <<row + lines, col>>
        BY <1>1, <2>7, <4>1
      <4> QED BY <1>8, <4>2
    <3>3. PutAt(longer, row + lines, col) = PutAt(chars, row + lines, col)
      BY <2>4, <3>2
    <3> QED BY <2>2, <2>3, <2>4, <2>5, <3>1, <3>3 DEF Cell
  <2> QED BY <2>6, <2>7
<1>11. CellsShow(r.screen, chars, lines)
  BY <1>10 DEF CellsShow
<1>12. OnScreen(r)
  BY <1>2, <1>8, SMTT(30) DEF OnScreen
<1>13. Places(chars)[Len(chars)] = <<r.y + lines, r.x>>
  BY <1>8 DEF l
<1>14. Matches(r, chars, lines)
  BY <1>1, <1>7, <1>11, <1>12, <1>13 DEF Matches
<1> QED BY <1>14 DEF r, t

-----------------------------------------------------------------------------
(***************************************************************************)
(* What the thread will have done when it is back outside kputc and        *)
(* clear_console, if no key comes in between: it is settled when it        *)
(* enters them, so each of its steps keeps it, and the screen that will    *)
(* come of them shows the text recorded at their start.                    *)
(***************************************************************************)
Forward(s) == [s EXCEPT !.x = Word(@ + 1)]
Down(s) == [s EXCEPT !.y = Word(@ + 1)]
RowsUp(scr, row) ==
  [c \in Cells |-> IF c \div Columns \in row..(Rows - 2) THEN scr[c + Columns] ELSE scr[c]]
Copied(s, row) ==
  [screen |-> LastRowBlank(RowsUp(s.screen, row)), x |-> s.x, y |-> Rows - 1]
Cleared(s, row) ==
  [screen |-> [c \in Cells |-> IF c \div Columns >= row THEN Blank ELSE s.screen[c]],
   x |-> 0, y |-> 1]
Rest(m, s) ==
  CASE m.pc \in {"idle", "count"} -> s
    [] m.pc = "place"   -> Kputc(s, m.char)
    [] m.pc = "newline" -> Scroll(Wrap(Down(s)))
    [] m.pc = "tab"     -> Scroll(Wrap(Forward([s EXCEPT !.x = Word(@ + 4)])))
    [] m.pc \in {"index", "column", "height"} ->
                           Scroll(Wrap(Forward(Store(s, Index(s), m.char))))
    [] m.pc = "store"   -> Scroll(Wrap(Forward(Store(s, m.reg, m.char))))
    [] m.pc = "advance" -> Scroll(Wrap(Forward(s)))
    [] m.pc = "wrap"    -> Scroll(Wrap(s))
    [] m.pc = "full"    -> Scroll(Down([s EXCEPT !.x = 0]))
    [] m.pc = "line"    -> Scroll(Down(s))
    [] m.pc = "scroll"  -> Scroll(s)
    [] m.pc = "copy"    -> Copied(s, m.reg)
    [] m.pc = "last"    -> [s EXCEPT !.y = Rows - 1]
    [] m.pc = "clear"   -> Cleared(s, m.reg)
    [] m.pc = "home"    -> [screen |-> s.screen, x |-> 0, y |-> 1]
    [] m.pc = "row"     -> [screen |-> s.screen, x |-> s.x, y |-> 1]

(* The thread prints no backspace or return, and what it has loaded of the  *)
(* cursor is still true.                                                    *)
Alone(m, s) ==
  /\ m.pc # "erase"
  /\ m.pc \in {"place", "index", "column", "height", "store"} => m.char \notin {"return", "erase"}
  /\ m.pc = "column" => m.reg = s.x
  /\ m.pc = "height" => m.reg = s.y
  /\ m.loaded => \/ m.pc \in {"tab", "advance"} /\ m.reg = s.x
                 \/ m.pc \in {"newline", "line"} /\ m.reg = s.y

TextChars ==
  Range(Letters) \union Controls \union {"newline", "tab", "k", "K", "nul", "clear"}
PlainText == {"return", "erase"} \intersect Range(Recent(text)) = {}
TextInv ==
  /\ text \in Seq(TextChars)
  /\ ~disturbed /\ halted = "no" /\ PlainText =>
       Alone(main, Here) /\ Matches(Rest(main, Here), Recent(text), gone)

(* What is left to do, place by place.                                     *)
LEMMA RestIdle ==
  ASSUME NEW m, NEW s, m.pc \in {"idle", "count"}
  PROVE  Rest(m, s) = s
  BY DEF Rest

LEMMA RestPlace ==
  ASSUME NEW m, NEW s, m.pc = "place"
  PROVE  Rest(m, s) = Kputc(s, m.char)
  BY DEF Rest

LEMMA RestNewline ==
  ASSUME NEW m, NEW s, m.pc = "newline"
  PROVE  Rest(m, s) = Scroll(Wrap(Down(s)))
  BY DEF Rest

LEMMA RestTab ==
  ASSUME NEW m, NEW s, m.pc = "tab"
  PROVE  Rest(m, s) = Scroll(Wrap(Forward([s EXCEPT !.x = Word(@ + 4)])))
  BY DEF Rest

LEMMA RestIndex ==
  ASSUME NEW m, NEW s, m.pc \in {"index", "column", "height"}
  PROVE  Rest(m, s) = Scroll(Wrap(Forward(Store(s, Index(s), m.char))))
  BY DEF Rest

LEMMA RestStore ==
  ASSUME NEW m, NEW s, m.pc = "store"
  PROVE  Rest(m, s) = Scroll(Wrap(Forward(Store(s, m.reg, m.char))))
  BY DEF Rest

LEMMA RestAdvance ==
  ASSUME NEW m, NEW s, m.pc = "advance"
  PROVE  Rest(m, s) = Scroll(Wrap(Forward(s)))
  BY DEF Rest

LEMMA RestWrap ==
  ASSUME NEW m, NEW s, m.pc = "wrap"
  PROVE  Rest(m, s) = Scroll(Wrap(s))
  BY DEF Rest

LEMMA RestFull ==
  ASSUME NEW m, NEW s, m.pc = "full"
  PROVE  Rest(m, s) = Scroll(Down([s EXCEPT !.x = 0]))
  BY DEF Rest

LEMMA RestLine ==
  ASSUME NEW m, NEW s, m.pc = "line"
  PROVE  Rest(m, s) = Scroll(Down(s))
  BY DEF Rest

LEMMA RestScroll ==
  ASSUME NEW m, NEW s, m.pc = "scroll"
  PROVE  Rest(m, s) = Scroll(s)
  BY DEF Rest

LEMMA RestCopy ==
  ASSUME NEW m, NEW s, m.pc = "copy"
  PROVE  Rest(m, s) = Copied(s, m.reg)
  BY DEF Rest

LEMMA RestLast ==
  ASSUME NEW m, NEW s, m.pc = "last"
  PROVE  Rest(m, s) = [s EXCEPT !.y = Rows - 1]
  BY DEF Rest

LEMMA RestClear ==
  ASSUME NEW m, NEW s, m.pc = "clear"
  PROVE  Rest(m, s) = Cleared(s, m.reg)
  BY DEF Rest

LEMMA RestHome ==
  ASSUME NEW m, NEW s, m.pc = "home"
  PROVE  Rest(m, s) = [screen |-> s.screen, x |-> 0, y |-> 1]
  BY DEF Rest

LEMMA RestRow ==
  ASSUME NEW m, NEW s, m.pc = "row"
  PROVE  Rest(m, s) = [screen |-> s.screen, x |-> s.x, y |-> 1]
  BY DEF Rest

(* The steps of kputc, one by one.                                          *)
LEMMA Moved ==
  ASSUME NEW s \in Consoles
  PROVE  /\ Down(s) = [screen |-> s.screen, x |-> s.x, y |-> Word(s.y + 1)]
         /\ Place(s, "newline") = [screen |-> s.screen, x |-> 0, y |-> Word(s.y + 1)]
         /\ s.x >= Columns => Wrap(s) = [screen |-> s.screen, x |-> 0, y |-> Word(s.y + 1)]
<1>1. /\ s.screen \in Screens /\ s.x \in Words /\ s.y \in Words /\ Words \subseteq Nat
      /\ s = [screen |-> s.screen, x |-> s.x, y |-> s.y]
  BY DEF Consoles, Words
<1>2. Down(s) = [screen |-> s.screen, x |-> s.x, y |-> Word(s.y + 1)]
  BY <1>1 DEF Down
<1>3. Place(s, "newline") = [screen |-> s.screen, x |-> 0, y |-> Word(s.y + 1)]
  BY <1>1 DEF Place
<1>4. s.x >= Columns => Wrap(s) = [screen |-> s.screen, x |-> 0, y |-> Word(s.y + 1)]
  BY <1>1 DEF Wrap
<1> QED BY <1>2, <1>3, <1>4

LEMMA PlaceKeeps ==
  ASSUME ConsoleInv, Alone(main, Here), PlaceChar
  PROVE  Rest(main', Here') = Rest(main, Here) /\ Alone(main', Here')
<1>1. main.pc = "place" /\ main.char \notin {"return", "erase"} /\ screen' = screen /\ y' = y
  BY DEF PlaceChar, Thread, Alone
<1>2. Rest(main, Here) = Kputc(Here, main.char)
  BY <1>1, RestPlace
<1>3. ASSUME NEW pc \in {"newline", "tab", "index"}, Go(pc)
      PROVE  main'.pc = pc /\ main'.char = main.char /\ ~main'.loaded
  <2>1. pc \in PCs
    BY DEF PCs
  <2> QED BY <1>3, <2>1, Goes DEF ConsoleInv
<1>4. CASE main.char = "newline"
  <2>1. x' = 0 /\ Go("newline")
    BY <1>4 DEF PlaceChar
  <2>2. main'.pc = "newline" /\ ~main'.loaded
    BY <1>3, <2>1
  <2>3. Rest(main', Here') = Scroll(Wrap(Down(Here')))
    BY <2>2, RestNewline
  <2>4. Down(Here') = Place(Here, "newline")
    <3>1. /\ Here \in Consoles /\ Here.screen = screen /\ Here.x = x /\ Here.y = y
      BY HereTyped DEF ConsoleInv
    <3>2. PICK s : s = Here'
      OBVIOUS
    <3>3. s = [screen |-> screen, x |-> 0, y |-> y]
      BY <1>1, <2>1, <3>2 DEF Here
    <3>4. s \in Consoles
      BY <3>1, <3>3, SizeFits DEF Consoles, Words
    <3>5. Down(s) = [screen |-> s.screen, x |-> s.x, y |-> Word(s.y + 1)]
      BY <3>4, Moved
    <3>6. Place(Here, "newline") = [screen |-> screen, x |-> 0, y |-> Word(y + 1)]
      BY <3>1, Moved
    <3>7. s.screen = screen /\ s.x = 0 /\ s.y = y
      BY <3>3
    <3> QED BY <3>2, <3>5, <3>6, <3>7
  <2>5. Kputc(Here, main.char) = Scroll(Wrap(Place(Here, "newline")))
    BY <1>4 DEF Kputc, Advance
  <2> QED BY <1>2, <2>2, <2>3, <2>4, <2>5 DEF Alone
<1>5. CASE main.char = "tab"
  <2>1. x' = x /\ Go("tab")
    BY <1>5 DEF PlaceChar
  <2>2. main'.pc = "tab" /\ ~main'.loaded /\ Here' = Here
    BY <1>1, <1>3, <2>1 DEF Here
  <2>3. Rest(main', Here') = Scroll(Wrap(Forward([Here EXCEPT !.x = Word(@ + 4)])))
    BY <2>2, RestTab
  <2>4. Kputc(Here, main.char) = Scroll(Wrap(Forward([Here EXCEPT !.x = Word(@ + 4)])))
    BY <1>5 DEF Kputc, Advance, Place, Forward
  <2> QED BY <1>2, <2>2, <2>3, <2>4 DEF Alone
<1>6. CASE main.char \notin Control
  <2>1. x' = x /\ Go("index")
    BY <1>6 DEF PlaceChar, Control
  <2>2. main'.pc = "index" /\ ~main'.loaded /\ Here' = Here /\ main'.char = main.char
    BY <1>1, <1>3, <2>1 DEF Here
  <2>3. Rest(main', Here') = Scroll(Wrap(Forward(Store(Here, Index(Here), main.char))))
    <3>1. Rest(main', Here) = Scroll(Wrap(Forward(Store(Here, Index(Here), main'.char))))
      BY <2>2, RestIndex
    <3> QED BY <2>2, <3>1
  <2>4. Kputc(Here, main.char) = Scroll(Wrap(Forward(Store(Here, Index(Here), main.char))))
    BY <1>6 DEF Kputc, Advance, Place, Forward, Control
  <2> QED BY <1>1, <1>2, <2>2, <2>3, <2>4 DEF Alone
<1> QED BY <1>1, <1>4, <1>5, <1>6 DEF Control

LEMMA CellKeeps ==
  ASSUME ConsoleInv, Alone(main, Here), ChooseCell \/ FindCell \/ StoreChar
  PROVE  Rest(main', Here') = Rest(main, Here) /\ Alone(main', Here')
<1>1. Here \in Consoles /\ main.reg \in Nat /\ main.char \in Glyphs
  BY HereTyped DEF ConsoleInv, Types, Chars, Glyphs
<1>2. CASE ChooseCell
  <2>1. PICK pc \in {"column", "height"}, n \in {Here.x, Here.y} :
          /\ main' = [main EXCEPT !.pc = pc, !.reg = n]
          /\ pc = "column" => n = Here.x
          /\ pc = "height" => n = Here.y
    BY <1>2 DEF ChooseCell, Here
  <2>2. main.pc = "index" /\ Here' = Here
    BY <1>2 DEF ChooseCell, Thread, console, Here
  <2>3. main'.pc = pc /\ main'.reg = n /\ main'.char = main.char /\ main'.loaded = main.loaded
    BY <2>1 DEF ConsoleInv, Types
  <2>4. Rest(main, Here) = Scroll(Wrap(Forward(Store(Here, Index(Here), main.char))))
    BY <2>2, RestIndex
  <2>5. Rest(main', Here') = Scroll(Wrap(Forward(Store(Here, Index(Here), main.char))))
    <3>1. main'.pc \in {"index", "column", "height"}
      BY <2>3
    <3>2. Rest(main', Here) = Scroll(Wrap(Forward(Store(Here, Index(Here), main'.char))))
      BY <3>1, RestIndex
    <3> QED BY <2>2, <2>3, <3>2
  <2>6. ~main.loaded /\ main.char \notin {"return", "erase"}
    BY <2>2 DEF Alone
  <2>7. Alone(main', Here)
    BY <2>1, <2>3, <2>6 DEF Alone
  <2> QED BY <2>2, <2>4, <2>5, <2>7
<1>3. CASE FindCell
  <2>1. PICK n \in {Index([Here EXCEPT !.x = main.reg]), Index([Here EXCEPT !.y = main.reg])} :
                 /\ main' = [main EXCEPT !.pc = "store", !.reg = n]
                 /\ \/ main.pc = "column" /\ n = Index([Here EXCEPT !.x = main.reg])
                    \/ main.pc = "height" /\ n = Index([Here EXCEPT !.y = main.reg])
    BY <1>3 DEF FindCell, Thread
  <2>2. n = Index(Here)
    <3>1. /\ main.pc = "column" => [Here EXCEPT !.x = main.reg] = Here
          /\ main.pc = "height" => [Here EXCEPT !.y = main.reg] = Here
      BY DEF Alone, Here
    <3> QED BY <2>1, <3>1
  <2>3. Here' = Here /\ main.pc \in {"column", "height"}
    BY <1>3, <2>1 DEF FindCell, console, Here
  <2>4. main'.pc = "store" /\ main'.reg = Index(Here) /\ main'.char = main.char
        /\ main'.loaded = main.loaded
    BY <2>1, <2>2 DEF ConsoleInv, Types
  <2>5. Rest(main, Here) = Scroll(Wrap(Forward(Store(Here, Index(Here), main.char))))
    BY <2>3, RestIndex
  <2>6. Rest(main', Here') = Scroll(Wrap(Forward(Store(Here, Index(Here), main.char))))
    <3>1. Rest(main', Here) = Scroll(Wrap(Forward(Store(Here, main'.reg, main'.char))))
      BY <2>4, RestStore
    <3> QED BY <2>3, <2>4, <3>1
  <2>7. ~main.loaded /\ main.char \notin {"return", "erase"}
    BY <2>3 DEF Alone
  <2> QED BY <2>4, <2>5, <2>6, <2>7 DEF Alone
<1>4. CASE StoreChar
  <2> DEFINE s == Store(Here, main.reg, main.char)
  <2>1. main.pc = "store" /\ Go("advance") /\ main.char # "erase"
    BY <1>4 DEF StoreChar, Thread, Alone
  <2>2. Becomes(s)
    BY <1>4, <2>1 DEF StoreChar
  <2>3. s \in Consoles
    BY <1>1, StoreIs
  <2> HIDE DEF s
  <2>4. s = [screen |-> s.screen, x |-> s.x, y |-> s.y]
    BY <2>3 DEF Consoles
  <2>5. Here' = s
    BY <2>2, <2>4 DEF Becomes, Here
  <2>6. main'.pc = "advance" /\ ~main'.loaded
    <3>1. "advance" \in PCs
      BY DEF PCs
    <3> QED BY <2>1, <3>1, Goes DEF ConsoleInv
  <2>7. Rest(main', Here') = Scroll(Wrap(Forward(s)))
    BY <2>5, <2>6, RestAdvance
  <2>8. Rest(main, Here) = Scroll(Wrap(Forward(s)))
    BY <2>1, RestStore DEF s
  <2> QED BY <2>6, <2>7, <2>8 DEF Alone
<1> QED BY <1>2, <1>3, <1>4

LEMMA MoveXKeeps ==
  ASSUME ConsoleInv, Alone(main, Here), MoveX
  PROVE  Rest(main', Here') = Rest(main, Here) /\ Alone(main', Here')
<1>1. main.pc \in {"tab", "advance"} /\ screen' = screen /\ y' = y
  BY DEF MoveX, Thread, Alone
<1>2. /\ main.pc = "tab" => Rest(main, Here) = Scroll(Wrap(Forward([Here EXCEPT !.x = Word(@ + 4)])))
      /\ main.pc = "advance" => Rest(main, Here) = Scroll(Wrap(Forward(Here)))
  <2>1. CASE main.pc = "tab"
    BY <2>1, RestTab
  <2>2. CASE main.pc = "advance"
    BY <2>2, RestAdvance
  <2> QED BY <1>1, <2>1, <2>2
<1>3. CASE ~main.loaded
  <2>1. main' = [main EXCEPT !.reg = x, !.loaded = TRUE] /\ x' = x
    BY <1>3 DEF MoveX
  <2>2. main'.pc = main.pc /\ main'.reg = x /\ Here' = Here /\ Here.x = x
    BY <1>1, <2>1 DEF ConsoleInv, Types, Here
  <2>3. /\ main.pc = "tab" => Rest(main', Here') = Scroll(Wrap(Forward([Here EXCEPT !.x = Word(@ + 4)])))
        /\ main.pc = "advance" => Rest(main', Here') = Scroll(Wrap(Forward(Here)))
    <3>1. CASE main.pc = "tab"
      <4>0. main'.pc = "tab"
        BY <2>2, <3>1
      <4>1. Rest(main', Here) = Scroll(Wrap(Forward([Here EXCEPT !.x = Word(@ + 4)])))
        BY <4>0, RestTab
      <4> QED BY <2>2, <3>1, <4>1
    <3>2. CASE main.pc = "advance"
      <4>0. main'.pc = "advance"
        BY <2>2, <3>2
      <4>1. Rest(main', Here) = Scroll(Wrap(Forward(Here)))
        BY <4>0, RestAdvance
      <4> QED BY <2>2, <3>2, <4>1
    <3> QED BY <1>1, <3>1, <3>2
  <2> QED BY <1>1, <1>2, <2>2, <2>3 DEF Alone
<1>4. CASE main.loaded
  <2>1. main.reg = x
    BY <1>1, <1>4 DEF Alone, Here
  <2>2. ASSUME NEW pc \in {"advance", "wrap"}, Go(pc) PROVE main'.pc = pc /\ ~main'.loaded
    <3>1. pc \in PCs
      BY DEF PCs
    <3> QED BY <2>2, <3>1, Goes DEF ConsoleInv
  <2>3. CASE main.pc = "tab"
    <3>1. x' = Word(x + 4) /\ Go("advance")
      BY <1>4, <2>1, <2>3 DEF MoveX
    <3>2. main'.pc = "advance" /\ ~main'.loaded
      BY <2>2, <3>1
    <3>3. Here' = [Here EXCEPT !.x = Word(@ + 4)]
      BY <1>1, <3>1 DEF Here
    <3>4. Rest(main', Here') = Scroll(Wrap(Forward(Here')))
      BY <3>2, RestAdvance
    <3> QED BY <1>2, <2>3, <3>2, <3>3, <3>4 DEF Alone
  <2>4. CASE main.pc = "advance"
    <3>1. x' = Word(x + 1) /\ Go("wrap")
      BY <1>4, <2>1, <2>4 DEF MoveX
    <3>2. main'.pc = "wrap" /\ ~main'.loaded
      BY <2>2, <3>1
    <3>3. Here' = Forward(Here)
      BY <1>1, <3>1 DEF Here, Forward
    <3>4. Rest(main', Here') = Scroll(Wrap(Here'))
      BY <3>2, RestWrap
    <3> QED BY <1>2, <2>4, <3>2, <3>3, <3>4 DEF Alone
  <2> QED BY <1>1, <2>3, <2>4
<1> QED BY <1>3, <1>4

LEMMA WrapKeeps ==
  ASSUME ConsoleInv, Alone(main, Here), WrapLine \/ EndLine
  PROVE  Rest(main', Here') = Rest(main, Here) /\ Alone(main', Here')
<1>1. screen' = screen /\ y' = y
  BY DEF WrapLine, EndLine, console
<1>2. ASSUME NEW pc \in {"full", "line", "scroll"}, Go(pc) PROVE main'.pc = pc /\ ~main'.loaded
  <2>1. pc \in PCs
    BY DEF PCs
  <2> QED BY <1>2, <2>1, Goes DEF ConsoleInv
<1>3. /\ Here \in Consoles /\ Here = [screen |-> screen, x |-> x, y |-> y]
      /\ Here.screen = screen /\ Here.x = x /\ Here.y = y
  BY HereTyped DEF ConsoleInv, Here
<1> DEFINE ended == [screen |-> screen, x |-> 0, y |-> y]
<1>4. /\ [Here EXCEPT !.x = 0] = ended
      /\ Down(ended) = [screen |-> screen, x |-> 0, y |-> Word(y + 1)]
  <2>1. [Here EXCEPT !.x = 0] = ended
    BY <1>3
  <2>2. ended \in Consoles
    BY <1>3, SizeFits DEF Consoles, Words
  <2>3. Down(ended) = [screen |-> ended.screen, x |-> ended.x, y |-> Word(ended.y + 1)]
    <3> HIDE DEF ended
    <3> QED BY <2>2, Moved
  <2> QED BY <2>1, <2>3
<1>5. CASE WrapLine
  <2>1. main.pc = "wrap" /\ Here' = Here /\ Go(IF x >= Columns THEN "full" ELSE "scroll")
    BY <1>5 DEF WrapLine, Thread, console, Here
  <2>2. Rest(main, Here) = Scroll(Wrap(Here))
    BY <2>1, RestWrap
  <2>3. CASE x >= Columns
    <3>1. main'.pc = "full" /\ ~main'.loaded
      BY <1>2, <2>1, <2>3
    <3>2. Wrap(Here) = [screen |-> screen, x |-> 0, y |-> Word(y + 1)]
      BY <1>3, <2>3, Moved
    <3>3. Rest(main', Here) = Scroll(Down(ended))
      <4>1. Rest(main', Here) = Scroll(Down([Here EXCEPT !.x = 0]))
        BY <3>1, RestFull
      <4> HIDE DEF ended
      <4> QED BY <1>4, <4>1
    <3> HIDE DEF ended
    <3> QED BY <1>4, <2>1, <2>2, <3>1, <3>2, <3>3 DEF Alone
  <2>4. CASE ~(x >= Columns)
    <3>1. main'.pc = "scroll" /\ ~main'.loaded
      BY <1>2, <2>1, <2>4
    <3>2. Rest(main', Here) = Scroll(Here)
      BY <3>1, RestScroll
    <3>3. Wrap(Here) = Here
      BY <2>4 DEF Wrap, Here
    <3> QED BY <2>1, <2>2, <3>1, <3>2, <3>3 DEF Alone
  <2> QED BY <2>3, <2>4
<1>6. CASE EndLine
  <2>1. main.pc = "full" /\ x' = 0 /\ Go("line")
    BY <1>6 DEF EndLine, Thread
  <2>2. Here' = ended
    BY <1>1, <2>1 DEF Here
  <2>3. main'.pc = "line" /\ ~main'.loaded
    BY <1>2, <2>1
  <2>4. Rest(main', ended) = Scroll(Down(ended))
    BY <2>3, RestLine, Zenon
  <2> HIDE DEF ended
  <2>5. Rest(main, Here) = Scroll(Down(ended))
    <3>1. Rest(main, Here) = Scroll(Down([Here EXCEPT !.x = 0]))
      BY <2>1, RestFull
    <3> QED BY <1>4, <3>1
  <2> QED BY <2>2, <2>3, <2>4, <2>5 DEF Alone
<1> QED BY <1>5, <1>6

LEMMA MoveYKeeps ==
  ASSUME ConsoleInv, Alone(main, Here), MoveY
  PROVE  Rest(main', Here') = Rest(main, Here) /\ Alone(main', Here')
<1>1. main.pc \in {"newline", "line"} /\ screen' = screen /\ x' = x
  BY DEF MoveY, Thread
<1>2. /\ main.pc = "newline" => Rest(main, Here) = Scroll(Wrap(Down(Here)))
      /\ main.pc = "line" => Rest(main, Here) = Scroll(Down(Here))
  BY RestNewline, RestLine
<1>3. CASE ~main.loaded
  <2>1. main' = [main EXCEPT !.reg = y, !.loaded = TRUE] /\ y' = y
    BY <1>3 DEF MoveY
  <2>2. main'.pc = main.pc /\ main'.reg = y /\ Here' = Here /\ Here.y = y
    BY <1>1, <2>1 DEF ConsoleInv, Types, Here
  <2>3. /\ main.pc = "newline" => Rest(main', Here') = Scroll(Wrap(Down(Here)))
        /\ main.pc = "line" => Rest(main', Here') = Scroll(Down(Here))
    <3>1. CASE main.pc = "newline"
      <4>0. main'.pc = "newline"
        BY <2>2, <3>1
      <4>1. Rest(main', Here) = Scroll(Wrap(Down(Here)))
        BY <4>0, RestNewline
      <4> QED BY <2>2, <3>1, <4>1
    <3>2. CASE main.pc = "line"
      <4>0. main'.pc = "line"
        BY <2>2, <3>2
      <4>1. Rest(main', Here) = Scroll(Down(Here))
        BY <4>0, RestLine
      <4> QED BY <2>2, <3>2, <4>1
    <3> QED BY <1>1, <3>1, <3>2
  <2> QED BY <1>1, <1>2, <2>2, <2>3 DEF Alone
<1>4. CASE main.loaded
  <2>1. main.reg = y
    BY <1>1, <1>4 DEF Alone, Here
  <2>2. y' = Word(y + 1) /\ Go(IF main.pc = "newline" THEN "wrap" ELSE "scroll")
    BY <1>4, <2>1 DEF MoveY
  <2>3. Here' = Down(Here)
    BY <1>1, <2>2 DEF Here, Down
  <2>4. ASSUME NEW pc \in {"wrap", "scroll"}, Go(pc) PROVE main'.pc = pc /\ ~main'.loaded
    <3>1. pc \in PCs
      BY DEF PCs
    <3> QED BY <2>4, <3>1, Goes DEF ConsoleInv
  <2>5. CASE main.pc = "newline"
    <3>1. Go("wrap")
      BY <2>2, <2>5
    <3>2. main'.pc = "wrap" /\ ~main'.loaded
      BY <2>4, <3>1
    <3>3. Rest(main', Here') = Scroll(Wrap(Here'))
      BY <3>2, RestWrap
    <3> QED BY <1>2, <2>3, <2>5, <3>2, <3>3 DEF Alone
  <2>6. CASE main.pc = "line"
    <3>1. Go("scroll")
      BY <2>2, <2>6
    <3>2. main'.pc = "scroll" /\ ~main'.loaded
      BY <2>4, <3>1
    <3>3. Rest(main', Here') = Scroll(Here')
      BY <3>2, RestScroll
    <3> QED BY <1>2, <2>3, <2>6, <3>2, <3>3 DEF Alone
  <2> QED BY <1>1, <2>5, <2>6
<1> QED BY <1>3, <1>4

(* Scrolling row by row comes to the same as scrolling at once, whichever   *)
(* rows have been copied so far.                                            *)
LEMMA RowOnScreen ==
  ASSUME NEW c \in Cells
  PROVE  c \div Columns \in 0..(Rows - 1)
<1> DEFINE row == c \div Columns
           size == Rows * Columns
<1>1. c \in Nat /\ c < size /\ row \in Nat /\ Rows \in Nat /\ Columns \in Nat \ {0} /\ size \in Nat
  BY SizeFits, RowOfCell DEF Cells
<1>2. row * Columns <= c /\ row * Columns \in Nat
  BY <1>1, RowOfCell, Product
<1>3. CASE row >= Rows
  <2>1. row - Rows \in Nat
    BY <1>1, <1>3
  <2>2. (row - Rows) * Columns \in Nat
    BY <1>1, <2>1, Product
  <2>3. (row - Rows) * Columns = row * Columns - size
    BY <1>1
  <2> DEFINE start == row * Columns
  <2>4. start <= c /\ start \in Nat /\ start - size \in Nat
    BY <1>2, <2>2, <2>3
  <2> HIDE DEF start, size
  <2> QED BY <1>1, <2>4
<1> QED BY <1>1, <1>3

LEMMA NextRow ==
  ASSUME NEW c \in Cells, c \div Columns \in 0..(Rows - 2)
  PROVE  c + Columns \in Cells /\ (c + Columns) \div Columns = c \div Columns + 1
<1> DEFINE row == c \div Columns
           start == row * Columns
           col == c - start
<1>1. c \in Nat /\ row \in Nat /\ Columns \in Nat \ {0} /\ Rows \in Nat
  BY SizeFits, RowOfCell DEF Cells
<1>2. start <= c /\ c < start + Columns /\ start \in Nat
  BY <1>1, RowOfCell, Product
<1>3. row \in 0..(Rows - 1) /\ row + 1 \in 0..(Rows - 1)
  BY <1>1
<1>4. col \in 0..(Columns - 1) /\ c = start + col
  <2> HIDE DEF start
  <2> QED BY <1>1, <1>2
<1> HIDE DEF col
<1>5. c = At(row, col)
  BY <1>4 DEF At
<1> HIDE DEF row, start
<1>6. At(row, col) + Columns = At(row + 1, col)
  BY <1>3, <1>4, RowIs
<1>7. At(row + 1, col) \in Cells /\ At(row + 1, col) \div Columns = row + 1
  BY <1>3, <1>4, RowIs
<1> QED BY <1>5, <1>6, <1>7 DEF row

LEMMA RowByRow ==
  ASSUME NEW scr, NEW row \in 1..(Rows - 2)
  PROVE  RowsUp(CopiedRowUp(scr, row), row + 1) = RowsUp(scr, row)
<1> DEFINE up == CopiedRowUp(scr, row)
<1>1. \A c \in Cells : up[c] = IF c \div Columns = row THEN scr[c + Columns] ELSE scr[c]
  BY DEF CopiedRowUp
<1> HIDE DEF up
<1>2. ASSUME NEW c \in Cells
      PROVE  (IF c \div Columns \in (row + 1)..(Rows - 2) THEN up[c + Columns] ELSE up[c])
               = IF c \div Columns \in row..(Rows - 2) THEN scr[c + Columns] ELSE scr[c]
  <2>1. PICK r \in 0..(Rows - 1) : r = c \div Columns
    BY RowOnScreen
  <2>2. Rows \in Nat
    BY SizeFits
  <2>3. CASE r \in (row + 1)..(Rows - 2)
    <3>1. r \in 0..(Rows - 2) /\ r + 1 # row /\ r \in row..(Rows - 2)
      BY <2>2, <2>3
    <3>2. c + Columns \in Cells /\ (c + Columns) \div Columns = r + 1
      BY <2>1, <3>1, NextRow
    <3>3. up[c + Columns] = scr[c + Columns]
      BY <1>1, <3>1, <3>2
    <3> QED BY <2>1, <2>3, <3>1, <3>3
  <2>4. CASE r = row
    <3>1. r \in row..(Rows - 2) /\ r \notin (row + 1)..(Rows - 2)
      BY <2>2, <2>4
    <3>2. up[c] = scr[c + Columns]
      BY <1>1, <2>1, <2>4
    <3> QED BY <2>1, <3>1, <3>2
  <2>5. CASE r \notin row..(Rows - 2)
    <3>1. r # row /\ r \notin (row + 1)..(Rows - 2)
      BY <2>2, <2>5
    <3>2. up[c] = scr[c]
      BY <1>1, <2>1, <3>1
    <3> QED BY <2>1, <2>5, <3>1, <3>2
  <2> QED BY <2>2, <2>3, <2>4, <2>5
<1>3. RowsUp(up, row + 1)
        = [c \in Cells |-> IF c \div Columns \in (row + 1)..(Rows - 2) THEN up[c + Columns] ELSE up[c]]
  BY DEF RowsUp
<1>4. RowsUp(scr, row)
        = [c \in Cells |-> IF c \div Columns \in row..(Rows - 2) THEN scr[c + Columns] ELSE scr[c]]
  BY DEF RowsUp
<1> QED BY <1>2, <1>3, <1>4 DEF up

LEMMA CopiedIs ==
  ASSUME NEW s \in Consoles, NEW row
  PROVE  /\ Copied(s, row) = [screen |-> LastRowBlank(RowsUp(s.screen, row)), x |-> s.x, y |-> Rows - 1]
         /\ [s EXCEPT !.y = Rows - 1] = [screen |-> s.screen, x |-> s.x, y |-> Rows - 1]
         /\ s.y >= Rows => Scroll(s) = Copied(s, 1)
<1>1. s = [screen |-> s.screen, x |-> s.x, y |-> s.y]
  BY DEF Consoles
<1>2. ASSUME NEW r
      PROVE  Copied(s, r) = [screen |-> LastRowBlank(RowsUp(s.screen, r)), x |-> s.x, y |-> Rows - 1]
  BY DEF Copied
<1>3. [s EXCEPT !.y = Rows - 1] = [screen |-> s.screen, x |-> s.x, y |-> Rows - 1]
  BY <1>1
<1>4. ASSUME s.y >= Rows
      PROVE  Scroll(s) = [screen |-> LastRowBlank(RowsUp(s.screen, 1)), x |-> s.x, y |-> Rows - 1]
  BY <1>1, <1>4 DEF Scroll, RowsUp
<1> QED BY <1>2, <1>3, <1>4

LEMMA ScrollKeeps ==
  ASSUME ConsoleInv, Alone(main, Here), ScrollStart \/ CopyRow \/ BlankRow \/ LastRow
  PROVE  Rest(main', Here') = Rest(main, Here) /\ Alone(main', Here')
<1>1. /\ Here \in Consoles /\ Here.screen = screen /\ Here.x = x /\ Here.y = y
      /\ main \in [pc : PCs, char : Chars, reg : Nat, loaded : BOOLEAN] /\ Rows \in Nat
      /\ y \in Nat
  BY HereTyped, SizeFits DEF ConsoleInv, Types
<1>2. CASE ScrollStart
  <2>1. main.pc = "scroll" /\ Here' = Here
    BY <1>2 DEF ScrollStart, Thread, console, Here
  <2>2. Rest(main, Here) = Scroll(Here) /\ ~main.loaded
    BY <2>1, RestScroll DEF Alone
  <2>3. CASE y >= Rows
    <3>1. main' = [main EXCEPT !.pc = "copy", !.reg = 1]
      BY <1>2, <2>3 DEF ScrollStart
    <3>2. main'.pc = "copy" /\ main'.reg = 1 /\ ~main'.loaded
      BY <1>1, <2>2, <3>1
    <3>3. Rest(main', Here) = Copied(Here, main'.reg)
      BY <3>2, RestCopy
    <3>4. Scroll(Here) = Copied(Here, 1)
      BY <1>1, <2>3, CopiedIs
    <3> QED BY <2>1, <2>2, <3>2, <3>3, <3>4 DEF Alone
  <2>4. CASE ~(y >= Rows)
    <3>1. main' = Idle
      BY <1>2, <2>4 DEF ScrollStart
    <3>2. main'.pc = "idle" /\ ~main'.loaded
      BY <3>1 DEF Idle
    <3>3. Rest(main', Here) = Here
      BY <3>2, RestIdle
    <3>4. Scroll(Here) = Here
      BY <1>1, <2>4, ScrollIs
    <3> QED BY <2>1, <2>2, <3>2, <3>3, <3>4 DEF Alone
  <2> QED BY <2>3, <2>4
<1>3. CASE CopyRow
  <2>1. /\ main.pc = "copy" /\ main.reg < Rows - 1 /\ screen' = CopiedRowUp(screen, main.reg)
        /\ main' = [main EXCEPT !.reg = @ + 1] /\ x' = x /\ y' = y
    BY <1>3 DEF CopyRow, Thread
  <2>2. main.reg \in 1..(Rows - 2)
    BY <1>1, <2>1 DEF ConsoleInv, Types
  <2>3. main'.pc = "copy" /\ main'.reg = main.reg + 1 /\ main'.loaded = main.loaded
    BY <1>1, <2>1
  <2>4. Here' = [screen |-> CopiedRowUp(screen, main.reg), x |-> x, y |-> y]
    BY <2>1 DEF Here
  <2>5. PICK s : s = Here'
    OBVIOUS
  <2>6. s \in Consoles /\ s.screen = CopiedRowUp(screen, main.reg) /\ s.x = x
    <3>1. CopiedRowUp(screen, main.reg) \in Screens
      BY <2>2, CopiedRowUpIs DEF ConsoleInv, Types
    <3> QED BY <2>4, <2>5, <3>1 DEF Consoles, ConsoleInv, Types
  <2>7. Copied(s, main.reg + 1)
          = [screen |-> LastRowBlank(RowsUp(s.screen, main.reg + 1)), x |-> s.x, y |-> Rows - 1]
    BY <2>6, CopiedIs
  <2>8. Copied(Here, main.reg)
          = [screen |-> LastRowBlank(RowsUp(screen, main.reg)), x |-> x, y |-> Rows - 1]
    BY <1>1, CopiedIs
  <2>9. RowsUp(s.screen, main.reg + 1) = RowsUp(screen, main.reg)
    BY <2>2, <2>6, RowByRow
  <2>10. Rest(main', s) = Copied(s, main'.reg) /\ Rest(main, Here) = Copied(Here, main.reg)
    BY <2>1, <2>3, RestCopy
  <2>11. ~main'.loaded
    BY <2>1, <2>3 DEF Alone
  <2> QED BY <2>3, <2>5, <2>6, <2>7, <2>8, <2>9, <2>10, <2>11 DEF Alone
<1>4. CASE BlankRow
  <2>1. /\ main.pc = "copy" /\ main.reg >= Rows - 1 /\ screen' = LastRowBlank(screen)
        /\ Go("last") /\ x' = x /\ y' = y
    BY <1>4 DEF BlankRow, Thread
  <2>2. main'.pc = "last" /\ ~main'.loaded
    <3>1. "last" \in PCs
      BY DEF PCs
    <3> QED BY <2>1, <3>1, Goes DEF ConsoleInv
  <2>3. PICK s : s = Here'
    OBVIOUS
  <2>4. s = [screen |-> LastRowBlank(screen), x |-> x, y |-> y]
    BY <2>1, <2>3 DEF Here
  <2>5. s \in Consoles
    <3>1. LastRowBlank(screen) \in Screens
      <4>1. Rows - 1 \in 1..(Rows - 1)
        BY SizeFits
      <4> QED BY <4>1, RowBlankIs DEF LastRowBlank, ConsoleInv, Types
    <3> QED BY <2>4, <3>1 DEF Consoles, ConsoleInv, Types
  <2>6. Rest(main', s) = [s EXCEPT !.y = Rows - 1]
    BY <2>2, RestLast
  <2>10. Rest(main, Here) = Copied(Here, main.reg)
    BY <2>1, RestCopy
  <2>7. [s EXCEPT !.y = Rows - 1] = [screen |-> LastRowBlank(screen), x |-> x, y |-> Rows - 1]
    <3>1. [s EXCEPT !.y = Rows - 1] = [screen |-> s.screen, x |-> s.x, y |-> Rows - 1]
      BY <2>5, CopiedIs
    <3>2. s.screen = LastRowBlank(screen) /\ s.x = x
      BY <2>4
    <3> QED BY <3>1, <3>2
  <2>8. RowsUp(screen, main.reg) = screen
    <3>1. \A c \in Cells : c \div Columns \notin main.reg..(Rows - 2)
      BY <1>1, <2>1
    <3>2. RowsUp(screen, main.reg) = [c \in Cells |-> screen[c]]
      BY <3>1 DEF RowsUp
    <3> QED BY <3>2 DEF ConsoleInv, Types, Screens
  <2>9. Copied(Here, main.reg)
          = [screen |-> LastRowBlank(RowsUp(screen, main.reg)), x |-> x, y |-> Rows - 1]
    BY <1>1, CopiedIs
  <2> QED BY <2>2, <2>3, <2>6, <2>7, <2>8, <2>9, <2>10 DEF Alone
<1>5. CASE LastRow
  <2>1. main.pc = "last" /\ y' = Rows - 1 /\ main' = Idle /\ screen' = screen /\ x' = x
    BY <1>5 DEF LastRow, Thread
  <2>2. main'.pc = "idle" /\ ~main'.loaded
    BY <2>1 DEF Idle
  <2>3. Here' = [screen |-> screen, x |-> x, y |-> Rows - 1]
    BY <2>1 DEF Here
  <2>4. [Here EXCEPT !.y = Rows - 1] = [screen |-> Here.screen, x |-> Here.x, y |-> Rows - 1]
    BY <1>1, CopiedIs
  <2>5. Rest(main, Here) = [Here EXCEPT !.y = Rows - 1] /\ Rest(main', Here') = Here'
    BY <2>1, <2>2, RestLast, RestIdle
  <2> QED BY <1>1, <2>2, <2>3, <2>4, <2>5 DEF Alone
<1> QED BY <1>2, <1>3, <1>4, <1>5

(* clear_console, row by row.                                               *)
LEMMA ClearKeeps ==
  ASSUME ConsoleInv, Alone(main, Here), ClearStep, ~disturbed'
  PROVE  Rest(main', Here') = Rest(main, Here) /\ Alone(main', Here')
<1>1. /\ Here \in Consoles /\ Here.screen = screen /\ Here.x = x /\ Here.y = y
      /\ Here = [screen |-> screen, x |-> x, y |-> y]
      /\ main \in [pc : PCs, char : Chars, reg : Nat, loaded : BOOLEAN] /\ Rows \in Nat
      /\ screen \in [Cells -> Glyphs]
  BY HereTyped, SizeFits DEF ConsoleInv, Types, Here, Screens
<1>2. ASSUME NEW pc \in PCs, Go(pc) PROVE main'.pc = pc /\ ~main'.loaded
  BY <1>2, Goes DEF ConsoleInv
<1>3. {"home", "row", "count"} \subseteq PCs
  BY DEF PCs
<1>4. CASE ClearRow
  <2>1. /\ main.pc = "clear" /\ main.reg < Rows /\ screen' = RowBlank(screen, main.reg)
        /\ main' = [main EXCEPT !.reg = @ + 1]
    BY <1>4 DEF ClearRow, Thread
  <2>2. main'.pc = "clear" /\ main'.reg = main.reg + 1 /\ ~main'.loaded /\ main.reg \in Nat
    BY <1>1, <2>1 DEF Alone
  <2>3. Rest(main, Here) = Cleared(Here, main.reg) /\ Rest(main', Here') = Cleared(Here', main.reg + 1)
    <3>1. PICK s : s = Here'
      OBVIOUS
    <3>2. Rest(main', s) = Cleared(s, main'.reg)
      BY <2>2, RestClear
    <3>3. Rest(main, Here) = Cleared(Here, main.reg)
      BY <2>1, RestClear
    <3> QED BY <2>2, <3>1, <3>2, <3>3
  <2>4. PICK scr : scr = screen'
    OBVIOUS
  <2>5. Here'.screen = scr
    BY <2>4 DEF Here
  <2>6. \A c \in Cells : scr[c] = IF c \div Columns = main.reg THEN Blank ELSE screen[c]
    BY <2>1, <2>4 DEF RowBlank
  <2>7. ASSUME NEW c \in Cells
        PROVE  (IF c \div Columns >= main.reg + 1 THEN Blank ELSE scr[c])
                 = IF c \div Columns >= main.reg THEN Blank ELSE screen[c]
    <3>1. PICK r \in 0..(Rows - 1) : r = c \div Columns
      BY RowOnScreen
    <3>2. CASE r = main.reg
      <4>1. r >= main.reg /\ ~(r >= main.reg + 1) /\ scr[c] = Blank
        BY <1>1, <2>2, <2>6, <3>1, <3>2
      <4> QED BY <3>1, <4>1
    <3>3. CASE r # main.reg
      <4>1. (r >= main.reg <=> r >= main.reg + 1) /\ scr[c] = screen[c]
        BY <1>1, <2>2, <2>6, <3>1, <3>3
      <4> QED BY <3>1, <4>1
    <3> QED BY <3>2, <3>3
  <2>8. [c \in Cells |-> IF c \div Columns >= main.reg + 1 THEN Blank ELSE scr[c]]
          = [c \in Cells |-> IF c \div Columns >= main.reg THEN Blank ELSE screen[c]]
    BY <2>7
  <2>9. Cleared(Here', main.reg + 1) = Cleared(Here, main.reg)
    <3>1. Cleared(Here, main.reg)
            = [screen |-> [c \in Cells |-> IF c \div Columns >= main.reg THEN Blank ELSE screen[c]],
               x |-> 0, y |-> 1]
      BY <1>1 DEF Cleared
    <3>2. PICK s : s = Here'
      OBVIOUS
    <3>3. Cleared(s, main.reg + 1)
            = [screen |-> [c \in Cells |-> IF c \div Columns >= main.reg + 1 THEN Blank ELSE s.screen[c]],
               x |-> 0, y |-> 1]
      BY DEF Cleared
    <3> QED BY <2>5, <2>8, <3>1, <3>2, <3>3
  <2> QED BY <2>2, <2>3, <2>9 DEF Alone
<1>5. CASE ClearEnd
  <2>1. /\ main.pc = "clear" /\ main.reg = Rows /\ Here' = Here
        /\ Go(IF clearCalls # 0 THEN "home" ELSE "count") /\ clearCalls # 0
    BY <1>5 DEF ClearEnd, Thread, console, Here
  <2>2. Go("home")
    BY <2>1
  <2>3. main'.pc = "home" /\ ~main'.loaded
    BY <1>2, <1>3, <2>2
  <2>4. Rest(main, Here) = Cleared(Here, Rows)
        /\ Rest(main', Here) = [screen |-> screen, x |-> 0, y |-> 1]
    <3>1. Rest(main, Here) = Cleared(Here, main.reg)
      BY <2>1, RestClear
    <3>2. Rest(main', Here) = [screen |-> Here.screen, x |-> 0, y |-> 1]
      BY <2>3, RestHome
    <3> QED BY <1>1, <2>1, <3>1, <3>2
  <2>5. [c \in Cells |-> IF c \div Columns >= Rows THEN Blank ELSE screen[c]] = screen
    <3>1. \A c \in Cells : ~(c \div Columns >= Rows)
      BY <1>1, RowOnScreen
    <3> QED BY <1>1, <3>1
  <2>6. Cleared(Here, Rows) = [screen |-> screen, x |-> 0, y |-> 1]
    BY <1>1, <2>5 DEF Cleared
  <2> QED BY <2>1, <2>3, <2>4, <2>6 DEF Alone
<1>6. CASE HomeX
  <2>1. main.pc = "home" /\ x' = 0 /\ Go("row") /\ screen' = screen /\ y' = y
    BY <1>6 DEF HomeX, Thread
  <2>2. main'.pc = "row" /\ ~main'.loaded
    BY <1>2, <1>3, <2>1
  <2>3. PICK s : s = Here'
    OBVIOUS
  <2>4. s = [screen |-> screen, x |-> 0, y |-> y]
    BY <2>1, <2>3 DEF Here
  <2>5. Rest(main, Here) = [screen |-> Here.screen, x |-> 0, y |-> 1]
    BY <2>1, RestHome
  <2>6. Rest(main', s) = [screen |-> s.screen, x |-> s.x, y |-> 1]
    BY <2>2, RestRow
  <2>7. s.screen = screen /\ s.x = 0
    BY <2>4
  <2> QED BY <1>1, <2>2, <2>3, <2>5, <2>6, <2>7 DEF Alone
<1>7. CASE HomeY
  <2>1. main.pc = "row" /\ y' = 1 /\ Go("count") /\ screen' = screen /\ x' = x
    BY <1>7 DEF HomeY, Thread
  <2>2. main'.pc = "count" /\ ~main'.loaded
    BY <1>2, <1>3, <2>1
  <2>3. PICK s : s = Here'
    OBVIOUS
  <2>4. s = [screen |-> screen, x |-> x, y |-> 1]
    BY <2>1, <2>3 DEF Here
  <2>5. Rest(main, Here) = [screen |-> Here.screen, x |-> Here.x, y |-> 1]
    BY <2>1, RestRow
  <2>6. Rest(main', s) = s
    BY <2>2, RestIdle
  <2> QED BY <1>1, <2>2, <2>3, <2>4, <2>5, <2>6 DEF Alone
<1>8. CASE CountClear
  <2>1. main.pc = "count" /\ main' = Idle /\ Here' = Here
    BY <1>8 DEF CountClear, Thread, console, Here
  <2>2. main'.pc = "idle" /\ ~main'.loaded
    BY <2>1 DEF Idle
  <2>3. Rest(main, Here) = Here /\ Rest(main', Here) = Here
    BY <2>1, <2>2, RestIdle
  <2> QED BY <2>1, <2>2, <2>3 DEF Alone
<1> QED BY <1>4, <1>5, <1>6, <1>7, <1>8 DEF ClearStep

-----------------------------------------------------------------------------
(* The text and the lines of it that are gone, when a step records it.      *)
LEMMA RecordIs ==
  ASSUME NEW chars, Record(chars)
  PROVE  /\ text' = chars
         /\ gone' = IF chars # <<>> /\ Last(chars) = "clear" THEN 0
                    ELSE GoneAfter(Recent(chars), gone)
  BY DEF Record, Scrolled, GoneAfter

LEMMA GoneStays ==
  ASSUME NEW s, NEW chars, NEW lines, Matches(s, chars, lines)
  PROVE  GoneAfter(chars, lines) = lines
<1>1. /\ s.y \in Nat /\ s.y < Rows /\ lines \in Nat /\ Rows \in Nat
      /\ Places(chars)[Len(chars)] = <<s.y + lines, s.x>>
  BY SizeFits DEF Matches, OnScreen, Consoles, Words
<1>2. Places(chars)[Len(chars)][1] = s.y + lines
  BY <1>1
<1>3. (IF s.y + lines >= Rows THEN s.y + lines - (Rows - 1) ELSE 0) <= lines
  BY <1>1
<1> QED BY <1>1, <1>2, <1>3 DEF GoneAfter

LEMMA RecentEmpty ==
  /\ Recent(<<>>) = <<>> /\ Places(<<>>)[0] = <<1, 0>>
  /\ \A line, col : PutAt(<<>>, line, col) = {}
<1>1. SelectLastInSeq(<<>>, LAMBDA char : char = "clear") = 0
  BY DEF SelectLastInSeq
<1>2. Recent(<<>>) = SubSeq(<<>>, 0 + 1, Len(<<>>))
  BY <1>1 DEF Recent
<1>3. Recent(<<>>) = <<>>
  BY <1>2
<1>4. <<>> \in Seq({1})
  OBVIOUS
<1>5. Places(<<>>)[0] = <<1, 0>>
  BY <1>4, PlacesIs
<1>6. \A line, col : PutAt(<<>>, line, col) = {}
  BY DEF PutAt
<1> QED BY <1>3, <1>5, <1>6

(* A blank screen below the status bar, the cursor at its start, shows the  *)
(* empty text.                                                              *)
LEMMA BlankMatches ==
  ASSUME NEW s \in Consoles, s.x = 0, s.y = 1,
         \A c \in Cells : c \div Columns >= 1 => s.screen[c] = Blank
  PROVE  Matches(s, <<>>, 0)
<1>1. Columns \in Nat \ {0} /\ Rows \in Nat /\ Rows > 2
  BY SizeFits
<1>2. OnScreen(s)
  BY <1>1 DEF OnScreen
<1>3. Places(<<>>)[Len(<<>>)] = <<s.y + 0, s.x>>
  BY RecentEmpty
<1>4. ASSUME NEW row \in 1..(Rows - 1), NEW col \in 0..(Columns - 1)
      PROVE  s.screen[At(row, col)] = Blank
  <2>1. row \in 0..(Rows - 1) /\ row >= 1
    BY <1>1
  <2>2. At(row, col) \in Cells /\ At(row, col) \div Columns = row
    BY <2>1, RowIs
  <2> QED BY <2>1, <2>2
<1>5. CellsShow(s.screen, <<>>, 0)
  BY <1>4, RecentEmpty DEF CellsShow, Cell
<1> QED BY <1>2, <1>3, <1>5 DEF Matches

LEMMA ClearedMatches ==
  ASSUME NEW s \in Consoles
  PROVE  Matches(Cleared(s, 1), <<>>, 0)
<1> DEFINE scr == [c \in Cells |-> IF c \div Columns >= 1 THEN Blank ELSE s.screen[c]]
<1>1. scr \in Screens
  BY DEF Screens, Glyphs, Consoles
<1>2. \A c \in Cells : c \div Columns >= 1 => scr[c] = Blank
  OBVIOUS
<1>3. Cleared(s, 1) = [screen |-> scr, x |-> 0, y |-> 1]
  BY DEF Cleared
<1> HIDE DEF scr
<1>4. PICK t : t = Cleared(s, 1)
  OBVIOUS
<1>5. t.screen = scr /\ t.x = 0 /\ t.y = 1
  BY <1>3, <1>4
<1>6. t \in Consoles
  BY <1>1, <1>3, <1>4, SizeFits DEF Consoles, Words
<1>7. Matches(t, <<>>, 0)
  BY <1>2, <1>5, <1>6, BlankMatches
<1> QED BY <1>4, <1>7

LEMMA RangeAppend ==
  ASSUME NEW S, NEW chars \in Seq(S), NEW char \in S
  PROVE  Range(Append(chars, char)) = Range(chars) \union {char}
<1> DEFINE l == Len(chars)
           longer == Append(chars, char)
<1>1. /\ l \in Nat /\ DOMAIN longer = 1..(l + 1) /\ DOMAIN chars = 1..l
      /\ longer[l + 1] = char /\ \A n \in 1..l : longer[n] = chars[n]
  OBVIOUS
<1>2. \A n \in 1..(l + 1) : n \in 1..l \/ n = l + 1
  BY <1>1
<1>3. 1..l \subseteq 1..(l + 1) /\ l + 1 \in 1..(l + 1)
  BY <1>1
<1> HIDE DEF l, longer
<1> QED BY <1>1, <1>2, <1>3 DEF Range, longer

LEMMA TextInit == Init => TextInv
<1> SUFFICES ASSUME Init PROVE TextInv
  OBVIOUS
<1>1. x = 0 /\ y = 1 /\ main = Idle /\ text = <<>> /\ gone = 0
      /\ screen = [c \in Cells |-> IF c < Columns THEN Bar ELSE Blank]
  BY DEF Init
<1>2. main.pc = "idle" /\ ~main.loaded
  BY <1>1 DEF Idle
<1>3. Here \in Consoles /\ Here.x = 0 /\ Here.y = 1 /\ Here.screen = screen
  BY <1>1, ConsoleInit, HereTyped DEF ConsoleInv
<1>4. \A c \in Cells : c \div Columns >= 1 => screen[c] = Blank
  <2> SUFFICES ASSUME NEW c \in Cells, c \div Columns >= 1 PROVE screen[c] = Blank
    OBVIOUS
  <2>1. c \in Nat /\ Columns \in Nat
    BY SizeFits DEF Cells
  <2>2. ~(c < Columns)
    BY <2>1, RowOfCell
  <2> QED BY <1>1, <2>2
<1>5. Matches(Here, <<>>, 0)
  BY <1>3, <1>4, BlankMatches
<1>6. Rest(main, Here) = Here
  BY <1>2, RestIdle
<1>7. Alone(main, Here)
  BY <1>2 DEF Alone
<1>8. Recent(text) = <<>>
  BY <1>1, RecentEmpty
<1> QED BY <1>1, <1>5, <1>6, <1>7, <1>8 DEF TextInv

(* What is written last is the last of the text.                             *)
LEMMA AppendLast ==
  ASSUME NEW S, NEW t \in Seq(S), NEW e \in S
  PROVE  Append(t, e) \in Seq(S) /\ Append(t, e) # <<>> /\ Last(Append(t, e)) = e
<1> PICK n \in Nat : n = Len(t)
  OBVIOUS
<1> PICK u : u = Append(t, e)
  OBVIOUS
<1>1. u \in Seq(S) /\ Len(u) = n + 1 /\ u[n + 1] = e
  OBVIOUS
<1>2. u # <<>>
  BY <1>1
<1>3. Last(u) = e
  BY <1>1 DEF Last
<1> QED BY <1>1, <1>2, <1>3

-----------------------------------------------------------------------------
(* A character more, with the lines it scrolls away.                        *)
LEMMA TextGrows ==
  ASSUME TextInv, NEW char \in TextChars, char # "clear", Record(Append(text, char))
  PROVE  /\ text' \in Seq(TextChars)
         /\ Recent(text') = Append(Recent(text), char)
         /\ Recent(text) \in Seq(TextChars)
         /\ gone' = GoneAfter(Recent(text'), gone)
         /\ PlainText' => PlainText /\ char \notin {"return", "erase"}
<1>1. text \in Seq(TextChars)
  BY DEF TextInv
<1>2. /\ Append(text, char) \in Seq(TextChars) /\ Append(text, char) # <<>>
      /\ Last(Append(text, char)) = char
  BY <1>1, AppendLast
<1>3. /\ Recent(Append(text, char)) = Append(Recent(text), char)
      /\ Recent(text) \in Seq(TextChars)
  BY <1>1, RecentAppend
<1>4. text' = Append(text, char) /\ gone' = GoneAfter(Recent(Append(text, char)), gone)
  <2> PICK u : u = Append(text, char)
    OBVIOUS
  <2>1. ~(u # <<>> /\ Last(u) = "clear") /\ Record(u)
    BY <1>2
  <2>2. text' = u /\ gone' = GoneAfter(Recent(u), gone)
    BY <2>1, RecordIs
  <2> QED BY <2>2
<1>5. Range(Recent(text')) = Range(Recent(text)) \union {char}
  <2>1. PICK q \in Seq(TextChars) : q = Recent(text)
    BY <1>3
  <2>2. Recent(text') = Append(q, char)
    BY <1>3, <1>4, <2>1
  <2>3. Range(Append(q, char)) = Range(q) \union {char}
    BY RangeAppend
  <2> QED BY <2>1, <2>2, <2>3
<1>6. PlainText' <=> {"return", "erase"} \intersect Range(Recent(text')) = {}
  BY DEF PlainText
<1>7. PlainText' => PlainText /\ char \notin {"return", "erase"}
  BY <1>5, <1>6 DEF PlainText
<1> QED BY <1>2, <1>3, <1>4, <1>7

LEMMA PrintCharText ==
  ASSUME ConsoleInv, TextInv, PrintChar
  PROVE  TextInv'
<1>1. PICK char \in Controls \union {Letters[Len(text) + 1]} :
        /\ main' = [Idle EXCEPT !.pc = "place", !.char = char]
        /\ Record(Append(text, char))
  BY DEF PrintChar
<1>2. /\ main.pc = "idle" /\ halted = "no" /\ Len(text) < MaxText
      /\ disturbed' = disturbed /\ Here' = Here
  BY DEF PrintChar, Thread, console, keyboard, Here
<1>3. char \in TextChars /\ char \in Glyphs /\ char # "clear"
  <2>1. Len(text) + 1 \in 1..Len(Letters)
    BY <1>2, ConsoleParameters DEF MaxText, ConsoleInv, Types
  <2>2. Letters[Len(text) + 1] \in Range(Letters)
    BY <2>1, ConsoleParameters DEF Range
  <2> QED BY <2>2, ConsoleParameters DEF TextChars, Glyphs
<1>4. main' = [pc |-> "place", char |-> char, reg |-> 0, loaded |-> FALSE]
  BY <1>1 DEF Idle
<1>5. main'.pc = "place" /\ main'.char = char /\ ~main'.loaded
  BY <1>4
<1>6. /\ text' \in Seq(TextChars)
      /\ Recent(text') = Append(Recent(text), char) /\ Recent(text) \in Seq(TextChars)
      /\ gone' = GoneAfter(Recent(text'), gone)
      /\ PlainText' => PlainText /\ char \notin {"return", "erase"}
  BY <1>1, <1>3, TextGrows
<1>7. ASSUME ~disturbed', PlainText'
      PROVE  Alone(main', Here') /\ Matches(Rest(main', Here'), Recent(text'), gone')
  <2>1. ~disturbed /\ PlainText /\ char \notin {"return", "erase"}
    BY <1>2, <1>6, <1>7
  <2>2. Matches(Rest(main, Here), Recent(text), gone)
    BY <1>2, <2>1 DEF TextInv
  <2>3. Rest(main, Here) = Here
    BY <1>2, RestIdle
  <2>4. char \in Glyphs \intersect TextChars
    BY <1>3
  <2>5. Matches(Kputc(Here, char), Append(Recent(text), char), GoneAfter(Append(Recent(text), char), gone))
    BY <1>6, <2>1, <2>2, <2>3, <2>4, KputcMatches
  <2>6. Rest(main', Here) = Kputc(Here, main'.char)
    BY <1>5, RestPlace
  <2>7. Alone(main', Here)
    BY <1>5, <2>1 DEF Alone
  <2> QED BY <1>2, <1>5, <1>6, <2>5, <2>6, <2>7
<1> QED BY <1>6, <1>7 DEF TextInv

LEMMA ClearConsoleText ==
  ASSUME ConsoleInv, TextInv, ClearConsole
  PROVE  TextInv'
<1>1. /\ main' = [Idle EXCEPT !.pc = "clear", !.reg = 1] /\ Record(Append(text, "clear"))
      /\ Here' = Here
  BY DEF ClearConsole, console, Here
<1>2. main' = [pc |-> "clear", char |-> Blank, reg |-> 1, loaded |-> FALSE]
  BY <1>1 DEF Idle
<1>3. main'.pc = "clear" /\ main'.reg = 1 /\ ~main'.loaded
  BY <1>2
<1>4. text \in Seq(TextChars) /\ "clear" \in TextChars
  BY DEF TextInv, TextChars
<1>5. /\ Append(text, "clear") \in Seq(TextChars) /\ Append(text, "clear") # <<>>
      /\ Last(Append(text, "clear")) = "clear"
  BY <1>4, AppendLast
<1>6. Recent(Append(text, "clear")) = <<>>
  BY <1>4, RecentAppend
<1>7. text' = Append(text, "clear") /\ gone' = 0
  BY <1>1, <1>5, RecordIs
<1>8. Matches(Cleared(Here, 1), <<>>, 0)
  BY HereTyped, ClearedMatches DEF ConsoleInv
<1>9. Rest(main', Here) = Cleared(Here, main'.reg)
  BY <1>3, RestClear
<1>10. Alone(main', Here)
  BY <1>3 DEF Alone
<1>11. Alone(main', Here') /\ Matches(Rest(main', Here'), Recent(text'), gone') /\ text' \in Seq(TextChars)
  BY <1>1, <1>3, <1>5, <1>6, <1>7, <1>8, <1>9, <1>10
<1> QED BY <1>11 DEF TextInv

(* Every other step of the thread leaves what will come of it as it is.     *)
LEMMA ThreadText ==
  ASSUME ConsoleInv, TextInv, KputcStep \/ ClearStep
  PROVE  TextInv'
<1>1. text' = text /\ gone' = gone /\ halted = "no"
  BY DEF KputcStep, ClearStep, PlaceChar, ChooseCell, FindCell, StoreChar, MoveX, WrapLine, EndLine, MoveY, ScrollStart,
         CopyRow, BlankRow, LastRow, ClearRow, ClearEnd, HomeX, HomeY, CountClear, Thread, history
<1>2. ~disturbed' => ~disturbed
  BY DEF KputcStep, ClearStep, PlaceChar, ChooseCell, FindCell, StoreChar, MoveX, WrapLine, EndLine, MoveY, ScrollStart,
         CopyRow, BlankRow, LastRow, ClearRow, ClearEnd, HomeX, HomeY, CountClear, keyboard
<1>3. PlainText' <=> PlainText
  BY <1>1 DEF PlainText
<1>4. ASSUME ~disturbed', PlainText'
      PROVE  Alone(main', Here') /\ Matches(Rest(main', Here'), Recent(text'), gone')
  <2>1. Alone(main, Here) /\ Matches(Rest(main, Here), Recent(text), gone)
    BY <1>1, <1>2, <1>3, <1>4 DEF TextInv
  <2>2. Rest(main', Here') = Rest(main, Here) /\ Alone(main', Here')
    <3>1. CASE PlaceChar
      BY <2>1, <3>1, PlaceKeeps
    <3>2. CASE ChooseCell \/ FindCell \/ StoreChar
      BY <2>1, <3>2, CellKeeps
    <3>3. CASE MoveX
      BY <2>1, <3>3, MoveXKeeps
    <3>4. CASE WrapLine \/ EndLine
      BY <2>1, <3>4, WrapKeeps
    <3>5. CASE MoveY
      BY <2>1, <3>5, MoveYKeeps
    <3>6. CASE ScrollStart \/ CopyRow \/ BlankRow \/ LastRow
      BY <2>1, <3>6, ScrollKeeps
    <3>7. CASE ClearStep
      BY <1>4, <2>1, <3>7, ClearKeeps
    <3> QED BY <3>1, <3>2, <3>3, <3>4, <3>5, <3>6, <3>7 DEF KputcStep
  <2> QED BY <1>1, <2>1, <2>2
<1> QED BY <1>1, <1>4 DEF TextInv

-----------------------------------------------------------------------------
LEMMA FrontLast ==
  ASSUME NEW S, NEW chars \in Seq(S), chars # <<>>
  PROVE  /\ Front(chars) \in Seq(S) /\ Last(chars) \in S
         /\ chars = Append(Front(chars), Last(chars))
<1> DEFINE q == Front(chars)
           char == Last(chars)
<1>1. Len(chars) \in Nat \ {0} /\ \A n \in 1..Len(chars) : chars[n] \in S
  OBVIOUS
<1>2. PICK m \in Int : m = Len(chars) - 1
  BY <1>1
<1>3. \A n \in 1..m : chars[n] \in S
  BY <1>1, <1>2
<1>4. /\ Len(SubSeq(chars, 1, m)) = IF 1 <= m THEN m - 1 + 1 ELSE 0
      /\ SubSeq(chars, 1, m) \in Seq(S)
      /\ \A k \in 1..(m - 1 + 1) : SubSeq(chars, 1, m)[k] = chars[1 + k - 1]
  BY <1>3, SubSeqProperties
<1>5. q = SubSeq(chars, 1, m)
  BY <1>2 DEF Front
<1>6. m \in Nat /\ m - 1 + 1 = m /\ (IF 1 <= m THEN m - 1 + 1 ELSE 0) = m
      /\ \A k \in 1..m : 1 + k - 1 = k
  BY <1>1, <1>2
<1>7. q \in Seq(S) /\ Len(q) = m /\ \A k \in 1..m : q[k] = chars[k]
  BY <1>4, <1>5, <1>6
<1>8. char \in S /\ char = chars[m + 1] /\ Len(chars) = m + 1
  BY <1>1, <1>2 DEF Last
<1> HIDE DEF q, char
<1> DEFINE u == Append(q, char)
<1>9. /\ u \in Seq(S) /\ Len(u) = m + 1 /\ u[m + 1] = char
      /\ \A k \in 1..m : u[k] = q[k]
  BY <1>6, <1>7, <1>8
<1> HIDE DEF u
<1>10. \A k \in 1..(m + 1) : k \in 1..m \/ k = m + 1
  BY <1>6
<1>11. \A k \in 1..Len(chars) : chars[k] = u[k]
  BY <1>7, <1>8, <1>9, <1>10
<1>12. chars = u
  BY <1>8, <1>9, <1>11
<1> QED BY <1>7, <1>8, <1>12 DEF u, q, char

(* A key between two prints (keyboard.c:103-179).                           *)
LEMMA BackspaceText ==
  ASSUME ConsoleInv, TextInv, halted = "no", BehindGlyph,
         UNCHANGED <<main, halted>>, Becomes(Backspace(Kputc(Here, "erase"))), Record(Front(text))
  PROVE  TextInv'
<1> DEFINE q == Front(text)
           char == Last(text)
           r == Backspace(Kputc(Here, "erase"))
<1>1. /\ text \in Seq(TextChars) /\ text # <<>> /\ main.pc = "idle" /\ ~disturbed
      /\ <<x, y>> # <<0, 1>> /\ char \notin Controls \union {"newline", "tab", "clear"}
  BY DEF TextInv, BehindGlyph
<1>2. q \in Seq(TextChars) /\ char \in TextChars /\ text = Append(q, char)
  BY <1>1, FrontLast
<1> HIDE DEF q
<1>3. char \notin {"return", "erase"}
  BY <1>1, <1>2, ConsoleParameters DEF TextChars
<1> HIDE DEF char
<1>4. /\ Recent(text) = Append(Recent(q), char) /\ Recent(q) \in Seq(TextChars)
  BY <1>1, <1>2, RecentAppend
<1>5. /\ text' = q
      /\ gone' = IF q # <<>> /\ Last(q) = "clear" THEN 0 ELSE GoneAfter(Recent(q), gone)
  BY RecordIs DEF q
<1>6. Here' = r
  <2>1. Here \in Consoles /\ Here.x = x /\ Here.y = y
    BY HereTyped DEF ConsoleInv
  <2>2. Here' = [screen |-> r.screen, x |-> r.x, y |-> r.y]
    BY DEF Becomes, Here
  <2>3. PICK s \in Consoles : s = Kputc(Here, "erase")
    <3>1. "erase" \in Glyphs
      BY DEF Glyphs
    <3> QED BY <2>1, <3>1, KputcLands
  <2>4. s = [screen |-> s.screen, x |-> s.x, y |-> s.y]
    BY DEF Consoles
  <2>5. Backspace(s) = [screen |-> Backspace(s).screen, x |-> Backspace(s).x, y |-> Backspace(s).y]
    <3>1. CASE s.x = 0
      <4>1. Backspace(s) = [screen |-> s.screen, x |-> Columns - 1, y |-> Word(s.y - 1)]
        BY <2>4, <3>1 DEF Backspace
      <4> QED BY <4>1
    <3>2. CASE s.x # 0
      <4>1. Backspace(s) = [screen |-> s.screen, x |-> s.x - 1, y |-> s.y]
        BY <2>4, <3>2 DEF Backspace
      <4> QED BY <4>1
    <3> QED BY <3>1, <3>2
  <2> QED BY <2>2, <2>3, <2>5
<1>7. ASSUME ~disturbed', PlainText'
      PROVE  Alone(main', Here') /\ Matches(Rest(main', Here'), Recent(text'), gone')
  <2>1. PlainText
    <3>1. Range(Recent(text)) = Range(Recent(q)) \union {char}
      BY <1>2, <1>4, RangeAppend
    <3>2. {"return", "erase"} \intersect Range(Recent(text')) = {}
      BY <1>7 DEF PlainText
    <3> QED BY <1>3, <1>5, <3>1, <3>2 DEF PlainText
  <2>2. Alone(main, Here) /\ Matches(Rest(main, Here), Recent(text), gone)
    BY <1>1, <2>1 DEF TextInv
  <2>3. Rest(main, Here) = Here
    BY <1>1, RestIdle
  <2>4. Here.x = x /\ Here.y = y
    BY HereTyped DEF ConsoleInv
  <2>5. <<Here.x, Here.y>> # <<0, 1>> /\ char \notin Unseen
    BY <1>1, <2>4 DEF Unseen
  <2>6. Matches(Here, Append(Recent(q), char), gone)
    BY <1>4, <2>2, <2>3
  <2>7. Matches(r, Recent(q), gone)
    BY <1>2, <1>4, <2>5, <2>6, BackspaceMatches
  <2> HIDE DEF r
  <2>8. gone' = gone
    <3>1. CASE q # <<>> /\ Last(q) = "clear"
      <4>1. Recent(q) = <<>>
        <5>1. q = Append(Front(q), "clear") /\ Front(q) \in Seq(TextChars) /\ "clear" \in TextChars
          BY <1>2, <3>1, FrontLast DEF TextChars
        <5> QED BY <5>1, RecentAppend
      <4>2. r.y + gone = 1 /\ gone \in Nat /\ r.y \in Nat /\ 1 <= r.y
        BY <2>7, <4>1, RecentEmpty DEF Matches, OnScreen, Consoles, Words
      <4> QED BY <1>5, <3>1, <4>2
    <3>2. CASE ~(q # <<>> /\ Last(q) = "clear")
      BY <1>5, <2>7, <3>2, GoneStays
    <3> QED BY <3>1, <3>2
  <2>9. main' = main /\ Rest(main, Here') = Here'
    BY <1>1, RestIdle
  <2>10. Alone(main', Here')
    BY <1>1, <2>2 DEF Alone
  <2> QED BY <1>5, <1>6, <2>7, <2>8, <2>9, <2>10
<1> QED BY <1>2, <1>5, <1>7 DEF TextInv

LEMMA EchoText ==
  ASSUME ConsoleInv, TextInv, NEW key \in Keys, key \notin Arrows \union {"release", "shift"},
         halted = "no", UNCHANGED <<main, halted>>, Becomes(Echoed(key)), Typed(key)
  PROVE  TextInv'
<1> DEFINE char == KeyChar(key)
<1>1. key \in {"enter", "backspace", "tabulator", "letter", "unmapped"}
  BY ConsoleParameters DEF Scancodes
<1>2. CASE key = "backspace"
  <2>1. /\ Record(IF BehindGlyph THEN Front(text) ELSE text)
        /\ strayed' = (strayed \/ ~BehindGlyph)
        /\ disturbed' = (disturbed \/ strayed' \/ main.pc # "idle")
    BY <1>2 DEF Typed
  <2>2. CASE BehindGlyph
    <3>1. Record(Front(text))
      BY <2>1, <2>2
    <3>2. Becomes(Backspace(Kputc(Here, "erase")))
      BY <1>2 DEF Echoed, KeyChar
    <3> QED BY <2>2, <3>1, <3>2, BackspaceText
  <2>3. CASE ~BehindGlyph
    <3>1. text' = text /\ disturbed'
      BY <2>1, <2>3, RecordIs
    <3> QED BY <3>1 DEF TextInv
  <2> QED BY <2>2, <2>3
<1>3. CASE key # "backspace"
  <2>1. /\ Record(Append(text, char))
        /\ disturbed' = (disturbed \/ strayed' \/ main.pc # "idle")
    BY <1>3 DEF Typed
  <2>2. char \in TextChars /\ char \in Glyphs /\ char \notin {"clear", "return", "erase"}
    BY <1>1, <1>3 DEF KeyChar, TextChars, Glyphs
  <2>3. Becomes(Kputc(Here, char))
    BY <1>3 DEF Echoed
  <2> HIDE DEF char
  <2>4. /\ text' \in Seq(TextChars)
        /\ Recent(text') = Append(Recent(text), char) /\ Recent(text) \in Seq(TextChars)
        /\ gone' = GoneAfter(Recent(text'), gone)
        /\ PlainText' => PlainText
    BY <2>1, <2>2, TextGrows
  <2>5. Here' = Kputc(Here, char)
    <3>1. Here \in Consoles
      BY HereTyped DEF ConsoleInv
    <3>2. PICK s \in Consoles : s = Kputc(Here, char)
      BY <2>2, <3>1, KputcLands
    <3>3. s = [screen |-> s.screen, x |-> s.x, y |-> s.y]
      BY DEF Consoles
    <3>4. Here' = [screen |-> s.screen, x |-> s.x, y |-> s.y]
      BY <2>3, <3>2 DEF Becomes, Here
    <3> QED BY <3>2, <3>3, <3>4
  <2>6. ASSUME ~disturbed', PlainText'
        PROVE  Alone(main', Here') /\ Matches(Rest(main', Here'), Recent(text'), gone')
    <3>1. main.pc = "idle" /\ ~disturbed /\ PlainText
      BY <2>1, <2>4, <2>6
    <3>2. Alone(main, Here) /\ Matches(Rest(main, Here), Recent(text), gone)
      BY <3>1 DEF TextInv
    <3>3. Rest(main, Here) = Here
      BY <3>1, RestIdle
    <3>4. char \in Glyphs \intersect TextChars
      BY <2>2
    <3>5. Matches(Kputc(Here, char), Append(Recent(text), char), GoneAfter(Append(Recent(text), char), gone))
      BY <2>2, <2>4, <3>2, <3>3, <3>4, KputcMatches
    <3>6. main' = main /\ Rest(main, Here') = Here'
      BY <3>1, RestIdle
    <3>7. Alone(main', Here')
      BY <3>1, <3>2 DEF Alone
    <3> QED BY <2>4, <2>5, <3>5, <3>6, <3>7
  <2> QED BY <2>4, <2>6 DEF TextInv
<1> QED BY <1>2, <1>3

LEMMA TextStep ==
  ASSUME ConsoleInv, TextInv, [Next]_vars
  PROVE  TextInv'
<1>1. CASE PrintChar
  BY <1>1, PrintCharText
<1>2. CASE KputcStep \/ ClearStep
  BY <1>2, ThreadText
<1>3. CASE ClearConsole
  BY <1>3, ClearConsoleText
<1>4. ASSUME NEW key \in Keys, KeyboardHandler(key) PROVE TextInv'
  <2>1. halted = "no" /\ UNCHANGED <<main, halted>>
    BY <1>4 DEF KeyboardHandler
  <2>2. CASE key \in {"release", "shift"} /\ UNCHANGED <<console, inbuf, text, gone, disturbed, strayed>>
    <3>1. text' = text /\ gone' = gone /\ disturbed' = disturbed /\ Here' = Here
      BY <2>2 DEF console, Here
    <3> QED BY <2>1, <3>1 DEF TextInv, PlainText
  <2>3. CASE key \in Arrows /\ disturbed' = TRUE /\ UNCHANGED <<inbuf, text, gone>>
    BY <2>3 DEF TextInv
  <2>4. CASE key \notin Arrows \union {"release", "shift"} /\ Becomes(Echoed(key)) /\ Typed(key)
    BY <2>1, <2>4, EchoText
  <2> QED BY <1>4, <2>2, <2>3, <2>4 DEF KeyboardHandler
<1>5. CASE FullSystemPanic \/ SystemPanic
  <2>1. text' = text /\ halted' # "no"
    BY <1>5 DEF FullSystemPanic, SystemPanic, Halt, history
  <2> QED BY <2>1 DEF TextInv
<1>6. CASE UNCHANGED vars
  <2>1. text' = text /\ gone' = gone /\ disturbed' = disturbed /\ halted' = halted /\ main' = main
        /\ Here' = Here
    BY <1>6 DEF vars, Here
  <2> QED BY <2>1 DEF TextInv, PlainText
<1> QED BY <1>1, <1>2, <1>3, <1>4, <1>5, <1>6 DEF Next

(* Until a key interrupts a print the screen shows, character by character, *)
(* the end of what was printed and typed since it was last cleared, with    *)
(* the cursor behind it: kputc's steps, uninterrupted, come to what the     *)
(* handler does at once (vga.c:15-21, 44-58, 79-139, keyboard.c:159-169).   *)
THEOREM TextShown == Spec => []ScreenShowsText
<1>1. ASSUME ConsoleInv, TextInv PROVE ScreenShowsText
  <2> SUFFICES ASSUME main.pc = "idle", halted = "no", ~disturbed, PlainText
               PROVE  /\ \A row \in 1..(Rows - 1), col \in 0..(Columns - 1) :
                           screen[row * Columns + col] = Shown(row, col)
                      /\ <<y + gone, x>> = Places(Recent(text))[Len(Recent(text))]
    BY DEF ScreenShowsText, PlainText
  <2>1. Rest(main, Here) = Here
    BY RestIdle
  <2>2. Matches(Here, Recent(text), gone)
    BY <1>1, <2>1 DEF TextInv
  <2>3. Here.x = x /\ Here.y = y /\ Here.screen = screen
    BY <1>1, HereTyped DEF ConsoleInv
  <2>4. <<y + gone, x>> = Places(Recent(text))[Len(Recent(text))]
    BY <2>2, <2>3 DEF Matches
  <2>5. ASSUME NEW row \in 1..(Rows - 1), NEW col \in 0..(Columns - 1)
        PROVE  screen[row * Columns + col] = Shown(row, col)
    <3> DEFINE chars == Recent(text)
               here == PutAt(chars, row + gone, col)
               glyph == screen[row * Columns + col]
    <3>1. Cell(chars, row + gone, col, glyph)
      BY <2>2, <2>3, <2>5 DEF Matches, CellsShow, At
    <3>2. Shown(row, col) = IF here = {} THEN Blank ELSE chars[CHOOSE n \in here : TRUE]
      BY DEF Shown, PutAt, Unseen
    <3> HIDE DEF chars, glyph
    <3>3. /\ \A n \in here : glyph = chars[n]
          /\ here = {} => glyph = Blank
      BY <3>1 DEF Cell
    <3> HIDE DEF here
    <3>4. here # {} => (CHOOSE n \in here : TRUE) \in here
      OBVIOUS
    <3>5. glyph = Shown(row, col)
      BY <3>2, <3>3, <3>4
    <3> QED BY <3>5 DEF glyph
  <2> QED BY <2>4, <2>5
<1>2. ConsoleInv /\ TextInv /\ [Next]_vars => TextInv'
  BY TextStep
<1> QED BY <1>1, <1>2, ConsoleInvariant, TextInit, PTL DEF Spec
=============================================================================
