------------------------------ MODULE Console ------------------------------
(***************************************************************************)
(* The text console of hal/x86/io/vga.c, shared without a lock by the      *)
(* kernel's thread, which prints and clears, by the keyboard interrupt of  *)
(* hal/x86/drivers/keyboard.c, which echoes, and by the panics of          *)
(* hal/x86/modes.c.  The handler and the panics run with interrupts off,   *)
(* so each is one step; the thread runs with interrupts on and can be      *)
(* interrupted between any load and store of kputc and clear_console.      *)
(***************************************************************************)
EXTENDS Integers, Sequences, SequencesExt

CONSTANTS
  Columns,        \* 80
  Rows,           \* 25; row 0 is the status bar
  WordSize,       \* 2^32: size_t of the cursor
  ByteSize,       \* 2^8: clear_calls
  Letters,        \* printable characters, in the order the thread prints them
  Controls,       \* control characters it prints, of those below
  Keys,           \* what the user does at the keyboard
  PanicText,      \* what a panic prints
  Behind,         \* what may lie in memory behind the format it ends with
  MaxKeys         \* bound: keyboard interrupts

Cells == 0..(Rows * Columns - 1)
Blank == " "
Bar == "bar"
Warning == "warning"        \* the status bar of system_panic
Arrows == {"up", "down", "left", "right"}
Scancodes == Arrows \union
  {"release", "shift", "enter", "backspace", "tabulator", "letter", "unmapped"}
MaxText == Len(Letters)     \* bound: characters printed, and clearings

ASSUME ConsoleParameters ==
  /\ Columns \in Nat \ {0} /\ Rows \in Nat /\ Rows > 2
  /\ WordSize \in Nat /\ (Rows + 1) * Columns + 4 < WordSize
  /\ Letters \in Seq(Range(Letters)) /\ PanicText \in Seq(Range(PanicText))
  /\ Range(PanicText) \intersect {"return", "erase", "tab"} = {}
  /\ Range(Letters) \intersect {"newline", "return", "erase", "tab", "clear", Blank, Bar, Warning} = {}
  /\ Controls \subseteq {"newline", "return", "erase", "tab"}
  /\ Keys \subseteq Scancodes /\ MaxKeys \in Nat
  /\ ByteSize \in Nat /\ ByteSize > 2

VARIABLES
  screen,         \* terminal_buffer, the part that is shown
  x, y,           \* cursorx and cursory
  main,           \* the thread in kputc: [pc, char, reg, loaded]
  shift,          \* a shift key is held
  inbuf,          \* how many characters inbuf holds: nothing ever empties it
  clearCalls,     \* clear_calls
  keys,           \* keyboard interrupts so far
  text,           \* history: what was printed and echoed
  gone,           \* history: lines of it that have scrolled away
  disturbed,      \* history: a key interrupted kputc or clear_console, or
                  \* the cursor was not where the text ends
  strayed,        \* history: a key moved the cursor away from the text
  halted          \* "no", or the panic that halted the kernel
vars == <<screen, x, y, main, shift, inbuf, clearCalls, keys, text, gone,
          disturbed, strayed, halted>>
console == <<screen, x, y>>
keyboard == <<shift, inbuf, keys, disturbed, strayed, halted>>
history == <<clearCalls, text, gone>>

Word(n) == n % WordSize
Idle == [pc |-> "idle", char |-> Blank, reg |-> 0, loaded |-> FALSE]

(* The console as the first two calls of clear_console leave it, that of   *)
(* startConsole and that of kernel_main; what startConsole prints is Bar.  *)
Init ==
  /\ screen = [c \in Cells |-> IF c < Columns THEN Bar ELSE Blank]
  /\ x = 0 /\ y = 1 /\ clearCalls = 2
  /\ main = Idle
  /\ shift = FALSE /\ inbuf = 0 /\ keys = 0
  /\ text = <<>> /\ gone = 0 /\ disturbed = FALSE /\ strayed = FALSE /\ halted = "no"

(***************************************************************************)
(* What the screen should show of a text: each character has an absolute   *)
(* line and column, and the rows show the last lines.  Taking a character  *)
(* back does not scroll back.                                              *)
(***************************************************************************)
Folded(line, col) == IF col >= Columns THEN <<line + 1, 0>> ELSE <<line, col>>
After(place, char) ==
  CASE char = "newline" -> <<place[1] + 1, 0>>
    [] char = "tab"     -> Folded(place[1], place[2] + 5)
    [] OTHER            -> Folded(place[1], place[2] + 1)
Recent(chars) ==
  SubSeq(chars, SelectLastInSeq(chars, LAMBDA char : char = "clear") + 1, Len(chars))
PlacesFrom(start, chars) ==     \* where character n + 1 goes
  LET p[n \in 0..Len(chars)] == IF n = 0 THEN start ELSE After(p[n - 1], chars[n])
  IN p
Places(chars) == PlacesFrom(<<1, 0>>, chars)
Scrolled(chars) ==
  LET line == Places(Recent(chars))[Len(Recent(chars))][1]
  IN IF line >= Rows THEN line - (Rows - 1) ELSE 0
Record(chars) ==
  /\ text' = chars
  /\ gone' = IF chars # <<>> /\ Last(chars) = "clear" THEN 0
             ELSE IF Scrolled(chars) > gone THEN Scrolled(chars) ELSE gone

-----------------------------------------------------------------------------
(* kputc as one piece, the way the handler runs it: a console is           *)
(* [screen, x, y].  A store beyond the screen is not seen.                 *)
Index(s) == Word(s.y * Columns + s.x)
Store(s, i, glyph) == IF i \in Cells THEN [s EXCEPT !.screen[i] = glyph] ELSE s
Place(s, char) ==
  CASE char = "newline" -> [s EXCEPT !.x = 0, !.y = Word(@ + 1)]
    [] char = "return"  -> [s EXCEPT !.x = 0]
    [] char = "erase"   -> LET t == [s EXCEPT !.x = Word(@ - 1)] IN Store(t, Index(t), Blank)
    [] char = "tab"     -> [s EXCEPT !.x = Word(@ + 4)]
    [] OTHER            -> Store(s, Index(s), char)
Advance(s, char) == IF char = "newline" THEN s ELSE [s EXCEPT !.x = Word(@ + 1)]
Wrap(s) == IF s.x >= Columns THEN [s EXCEPT !.x = 0, !.y = Word(@ + 1)] ELSE s
RowBlank(scr, r) == [c \in Cells |-> IF c \div Columns = r THEN Blank ELSE scr[c]]
CopiedRowUp(scr, r) ==
  [c \in Cells |-> IF c \div Columns = r THEN scr[c + Columns] ELSE scr[c]]
LastRowBlank(scr) == RowBlank(scr, Rows - 1)
ScrollWithBar(s) ==
  IF s.y >= Rows
  THEN [s EXCEPT !.y = Rows - 1,
                 !.screen = LastRowBlank([c \in Cells |->
                   IF c \div Columns \in 0..(Rows - 2) THEN @[c + Columns] ELSE @[c]])]
  ELSE s
ScrollAtRows(s) ==
  IF s.y = Rows
  THEN [s EXCEPT !.y = Rows - 1,
                 !.screen = LastRowBlank([c \in Cells |->
                   IF c \div Columns \in 1..(Rows - 2) THEN @[c + Columns] ELSE @[c]])]
  ELSE s
Scroll(s) ==
  IF s.y >= Rows
  THEN [s EXCEPT !.y = Rows - 1,
                 !.screen = LastRowBlank([c \in Cells |->
                   IF c \div Columns \in 1..(Rows - 2) THEN @[c + Columns] ELSE @[c]])]
  ELSE s
Kputc(s, char) == Scroll(Wrap(Advance(Place(s, char), char)))
Kprint(s, chars) ==
  LET after[n \in 0..Len(chars)] == IF n = 0 THEN s ELSE Kputc(after[n - 1], chars[n])
  IN after[Len(chars)]

(* writeStyledString, of a text with no newline in it, and setMenubarText, *)
(* which moves the cursor and keeps its old place for nothing.             *)
StyledChar(s, glyph) == Scroll(Wrap([Store(s, Index(s), glyph) EXCEPT !.x = Word(@ + 1)]))
WriteStyledString(s, glyphs) ==
  LET after[n \in 0..Len(glyphs)] == IF n = 0 THEN s ELSE StyledChar(after[n - 1], glyphs[n])
  IN after[Len(glyphs)]
SetMenubarText(s, glyph) ==
  WriteStyledString([s EXCEPT !.x = 0, !.y = 0], [c \in 1..Columns |-> glyph])

Here == [screen |-> screen, x |-> x, y |-> y]
Becomes(s) == screen' = s.screen /\ x' = s.x /\ y' = s.y

-----------------------------------------------------------------------------
(***************************************************************************)
(* kputc in the thread.  An increment loads the variable into a register   *)
(* and stores it back in a step of its own; the cursor's two halves are    *)
(* loaded one by one, in either order (C leaves it open), before the cell  *)
(* is written; a full line is tested for before it is ended; scrolling     *)
(* copies row by row.                                                      *)
(***************************************************************************)
Thread(pc) == main.pc = pc /\ halted = "no"
Go(pc) == main' = [main EXCEPT !.pc = pc, !.loaded = FALSE]

PrintChar ==
  /\ Thread("idle") /\ Len(text) < MaxText
  /\ \E char \in Controls \union {Letters[Len(text) + 1]} :
       /\ main' = [Idle EXCEPT !.pc = "place", !.char = char]
       /\ Record(Append(text, char))
  /\ UNCHANGED <<console, keyboard, clearCalls>>

PlaceChar ==
  /\ Thread("place")
  /\ CASE main.char \in {"newline", "return"} ->
            x' = 0 /\ Go(IF main.char = "newline" THEN "newline" ELSE "advance")
       [] main.char \in {"erase", "tab"} -> Go(main.char) /\ UNCHANGED x
       [] OTHER -> Go("index") /\ UNCHANGED x
  /\ UNCHANGED <<screen, y, keyboard, history>>

ChooseCell ==
  /\ Thread("index")
  /\ \/ main' = [main EXCEPT !.pc = "column", !.reg = x]
     \/ main' = [main EXCEPT !.pc = "height", !.reg = y]
  /\ UNCHANGED <<console, keyboard, history>>
FindCell ==
  /\ \/ /\ Thread("column")
        /\ main' = [main EXCEPT !.pc = "store", !.reg = Index([Here EXCEPT !.x = main.reg])]
     \/ /\ Thread("height")
        /\ main' = [main EXCEPT !.pc = "store", !.reg = Index([Here EXCEPT !.y = main.reg])]
  /\ UNCHANGED <<console, keyboard, history>>
StoreChar ==
  /\ Thread("store")
  /\ Becomes(Store(Here, main.reg, IF main.char = "erase" THEN Blank ELSE main.char))
  /\ Go("advance")
  /\ UNCHANGED <<keyboard, history>>

(* --cursorx, cursorx += 4 and cursorx++.                                  *)
MoveX ==
  /\ \E pc \in {"erase", "tab", "advance"} : Thread(pc)
  /\ IF ~main.loaded THEN main' = [main EXCEPT !.reg = x, !.loaded = TRUE] /\ UNCHANGED x
     ELSE CASE main.pc = "erase"   -> x' = Word(main.reg - 1) /\ Go("index")
            [] main.pc = "tab"     -> x' = Word(main.reg + 4) /\ Go("advance")
            [] main.pc = "advance" -> x' = Word(main.reg + 1) /\ Go("wrap")
  /\ UNCHANGED <<screen, y, keyboard, history>>

WrapLineLate ==
  /\ Thread("wrap") /\ Go(IF x > Columns THEN "full" ELSE "scroll")
  /\ UNCHANGED <<console, keyboard, history>>
WrapLine ==
  /\ Thread("wrap") /\ Go(IF x >= Columns THEN "full" ELSE "scroll")
  /\ UNCHANGED <<console, keyboard, history>>
EndLine == Thread("full") /\ x' = 0 /\ Go("line") /\ UNCHANGED <<screen, y, keyboard, history>>

(* cursory++, for a newline and for a full line.                           *)
MoveY ==
  /\ \E pc \in {"newline", "line"} : Thread(pc)
  /\ IF ~main.loaded THEN main' = [main EXCEPT !.reg = y, !.loaded = TRUE] /\ UNCHANGED y
     ELSE y' = Word(main.reg + 1) /\ Go(IF main.pc = "newline" THEN "wrap" ELSE "scroll")
  /\ UNCHANGED <<screen, x, keyboard, history>>

ScrollStart ==
  /\ Thread("scroll")
  /\ main' = IF y >= Rows THEN [main EXCEPT !.pc = "copy", !.reg = 1] ELSE Idle
  /\ UNCHANGED <<console, keyboard, history>>
CopyRow ==
  /\ Thread("copy") /\ main.reg < Rows - 1
  /\ screen' = CopiedRowUp(screen, main.reg)
  /\ main' = [main EXCEPT !.reg = @ + 1]
  /\ UNCHANGED <<x, y, keyboard, history>>
BlankRow ==
  /\ Thread("copy") /\ main.reg >= Rows - 1
  /\ screen' = LastRowBlank(screen)
  /\ Go("last")
  /\ UNCHANGED <<x, y, keyboard, history>>
LastRow ==
  /\ Thread("last")
  /\ y' = Rows - 1
  /\ main' = Idle
  /\ UNCHANGED <<screen, x, keyboard, history>>

KputcStep == \/ PlaceChar \/ ChooseCell \/ FindCell \/ StoreChar \/ MoveX \/ WrapLine \/ EndLine
             \/ MoveY \/ ScrollStart \/ CopyRow \/ BlankRow \/ LastRow

(* clear_console in the thread.  The first call does not move the cursor,  *)
(* nor does the one after clear_calls has wrapped.                         *)
ClearConsole ==
  /\ Thread("idle") /\ Len(text) < MaxText
  /\ main' = [Idle EXCEPT !.pc = "clear", !.reg = 1]
  /\ Record(Append(text, "clear"))
  /\ UNCHANGED <<console, keyboard, clearCalls>>
ClearRow ==
  /\ Thread("clear") /\ main.reg < Rows
  /\ screen' = RowBlank(screen, main.reg)
  /\ main' = [main EXCEPT !.reg = @ + 1]
  /\ UNCHANGED <<x, y, keyboard, history>>
ClearEnd ==
  /\ Thread("clear") /\ main.reg = Rows
  /\ Go(IF clearCalls # 0 THEN "home" ELSE "count")
  /\ disturbed' = (disturbed \/ clearCalls = 0)
  /\ UNCHANGED <<console, shift, inbuf, keys, strayed, halted, history>>
HomeX == Thread("home") /\ x' = 0 /\ Go("row") /\ UNCHANGED <<screen, y, keyboard, history>>
HomeY == Thread("row") /\ y' = 1 /\ Go("count") /\ UNCHANGED <<screen, x, keyboard, history>>
CountClear ==
  /\ Thread("count")
  /\ clearCalls' = (clearCalls + 1) % ByteSize
  /\ main' = Idle
  /\ UNCHANGED <<console, keyboard, text, gone>>
ClearStep == ClearRow \/ ClearEnd \/ HomeX \/ HomeY \/ CountClear

-----------------------------------------------------------------------------
(* keyboard_handler: any release counts as that of shift; shift, caps lock *)
(* and the arrows return early; everything else, a key without a character *)
(* included, is echoed and appended to inbuf, where the character 0 of     *)
(* such a key changes nothing; backspace also steps the cursor back.       *)
KeyChar(key) ==
  CASE key = "enter" -> "newline"
    [] key = "backspace" -> "erase"
    [] key = "tabulator" -> "tab"
    [] key = "letter" -> IF shift THEN "K" ELSE "k"
    [] key = "unmapped" -> "nul"
MapXY(key) ==
  CASE key = "up"    -> [Here EXCEPT !.y = Word(@ - 1)]
    [] key = "down"  -> [Here EXCEPT !.y = Word(@ + 1)]
    [] key = "left"  -> [Here EXCEPT !.x = Word(@ - 1)]
    [] key = "right" -> [Here EXCEPT !.x = Word(@ + 1)]
BackspaceOnRow(s) == [s EXCEPT !.x = Word(@ - 1)]
Backspace(s) ==
  IF s.x = 0 THEN [s EXCEPT !.x = Columns - 1, !.y = Word(@ - 1)]
  ELSE [s EXCEPT !.x = @ - 1]
Echoed(key) ==
  LET s == Kputc(Here, KeyChar(key))
  IN IF key = "backspace" THEN Backspace(s) ELSE s

(* The histories: a backspace right behind a character that is still on    *)
(* the screen takes it back, any other one leads the cursor astray, as the *)
(* arrows do.                                                              *)
BehindGlyph ==
  /\ main.pc = "idle" /\ ~disturbed /\ <<x, y>> # <<0, 1>>
  /\ text # <<>> /\ Last(text) \notin Controls \union {"newline", "tab", "clear"}
Typed(key) ==
  /\ Record(IF key # "backspace" THEN Append(text, KeyChar(key))
            ELSE IF BehindGlyph THEN Front(text) ELSE text)
  /\ strayed' = (strayed \/ (key = "backspace" /\ ~BehindGlyph))
  /\ disturbed' = (disturbed \/ strayed' \/ main.pc # "idle")

KeyboardHandler(key) ==
  /\ halted = "no" /\ keys < MaxKeys
  /\ keys' = keys + 1
  /\ shift' = (key = "shift" \/ (shift /\ key # "release"))
  /\ UNCHANGED <<main, clearCalls, halted>>
  /\ \/ key \in {"release", "shift"} /\ UNCHANGED <<console, inbuf, text, gone, disturbed, strayed>>
     \/ /\ key \in Arrows
        /\ Becomes(MapXY(key)) /\ strayed' = TRUE /\ disturbed' = TRUE
        /\ UNCHANGED <<inbuf, text, gone>>
     \/ /\ key \notin Arrows \union {"release", "shift"}
        /\ Becomes(Echoed(key)) /\ Typed(key)
        /\ inbuf' = IF key = "unmapped" THEN inbuf ELSE inbuf + 1

(* full_system_panic and system_panic, from the thread or a fault handler, *)
(* in the build the makefiles make: with KERNEL_DEBUG neither clears the   *)
(* screen (modes.c:32, 47), and the first one ends with a format whose     *)
(* last directive is its last character, so kprintf steps over the         *)
(* terminator, prints it, and goes on with what lies behind (vga.c:284-    *)
(* 295, modes.c:56), to the next terminator; what a directive in there     *)
(* would print is a part of it.                                            *)
Halt(how) ==
  /\ halted = "no" /\ halted' = how
  /\ UNCHANGED <<main, shift, inbuf, keys, disturbed, strayed, history>>
RunOn(junk) == <<"nul">> \o junk
FullSystemPanic ==
  /\ Halt("full")
  /\ \E junk \in Behind :
       Becomes(Kprint(Kprint(Here, PanicText), RunOn(junk)))
SystemPanic == Halt("system") /\ Becomes(Kprint(SetMenubarText(Here, Warning), PanicText))

Next ==
  \/ PrintChar \/ KputcStep \/ ClearConsole \/ ClearStep
  \/ \E key \in Keys : KeyboardHandler(key)
  \/ FullSystemPanic \/ SystemPanic

Spec == Init /\ [][Next]_vars

-----------------------------------------------------------------------------
(* Neither printing, nor clearing, nor typing, nor a panic on top of them   *)
(* disturbs the status bar in row 0, in any interleaving (scrollConsole,    *)
(* vga.c:79-91, leaves that row alone); an arrow key, or a backspace with   *)
(* nothing to take back, may put the cursor there (keyboard.c:126, 169).    *)
(* After an arrow, and after any backspace that is typed while the thread   *)
(* prints or after a key interrupted it, nothing is claimed.                *)
StatusBarKept ==
  ~strayed /\ halted # "system" => \A c \in Cells : c < Columns => screen[c] = Bar

(* Whenever the thread is outside kputc the cursor is on the screen below   *)
(* the status bar, although both sides load, add and store it unguarded     *)
(* (kputc, vga.c:104-139), unless an arrow or backspace moved it away.      *)
CursorAtRest ==
  main.pc = "idle" /\ ~strayed /\ halted = "no" => x < Columns /\ 1 <= y /\ y < Rows

Shown(row, col) ==
  LET chars == Recent(text)
      here == {n \in 1..Len(chars) : /\ chars[n] \notin {"newline", "tab"}
                                     /\ Places(chars)[n - 1] = <<row + gone, col>>}
  IN IF here = {} THEN Blank ELSE chars[CHOOSE n \in here : TRUE]

(* The screen shows the end of what was printed and typed since it was last *)
(* cleared, wrapped and scrolled, without what was taken back, and the      *)
(* cursor stands behind it (vga.c:15-21, 44-58, 79-139, keyboard.c:159-     *)
(* 169), until a key interrupts a print.  A carriage return also advances   *)
(* the cursor, so texts with one are left out.                              *)
ScreenShowsText ==
  /\ main.pc = "idle" /\ halted = "no" /\ ~disturbed
  /\ {"return", "erase"} \intersect Range(Recent(text)) = {}
  => /\ \A row \in 1..(Rows - 1), col \in 0..(Columns - 1) :
          screen[row * Columns + col] = Shown(row, col)
     /\ <<y + gone, x>> = Places(Recent(text))[Len(Recent(text))]

(* What a panic prints last: it does not fill a row (modes.c:36-58), and    *)
(* what lies behind full_system_panic's format does not fill the screen.    *)
LastLine == SubSeq(PanicText, SelectLastInSeq(PanicText, LAMBDA char : char = "newline") + 1,
                   Len(PanicText))
ASSUME PanicParameters ==
  "newline" \in Range(PanicText) /\ Len(LastLine) < Columns
ASSUME BehindParameters ==
  \A junk \in Behind :
    /\ junk \in Seq(Range(junk)) /\ Range(junk) \intersect {"return", "erase"} = {}
    /\ PlacesFrom(<<1, Len(LastLine)>>, RunOn(junk))[Len(junk) + 1][1] < Rows

(* Wherever the cursor was, on the screen or led far away from it, and      *)
(* whatever a panic interrupts, the last line of its message ends up on the *)
(* screen, whole; that of system_panic stands below its warning with the    *)
(* cursor behind it, that of full_system_panic, with the terminator of its  *)
(* format, is not scrolled away nor written over by what it prints from     *)
(* beyond the format (vga.c:79-91, 284-295, 346-355, modes.c:27-59).        *)
LineStands(row) == \A k \in 1..Len(LastLine) : screen[row * Columns + k - 1] = LastLine[k]
PanicShown ==
  /\ halted = "system" =>
       /\ 1 <= y /\ y < Rows /\ x = Len(LastLine) /\ LineStands(y)
       /\ \A c \in Cells : c < Columns => screen[c] = Warning
  /\ halted = "full" =>
       /\ y < Rows
       /\ \E row \in 0..y :
            LineStands(row) /\ screen[row * Columns + Len(LastLine)] = "nul"
=============================================================================
