------------------------------- MODULE Format -------------------------------
(***************************************************************************)
(* Formatted output: kprintf and cprintf of hal/x86/io/vga.c, with the     *)
(* conversions kernelPrintDec and kernelPrintHex there and itoa of         *)
(* lib/jstdclib/string.c.  A format is a text in memory: its characters,   *)
(* the NUL, and whatever the linker placed behind it.  One step is one     *)
(* turn of the loop over the format.                                       *)
(*                                                                         *)
(* What a caller means by a format is its sequence of pieces: a plain      *)
(* character, or a directive together with its argument.                   *)
(***************************************************************************)
EXTENDS Integers, Sequences, SequencesExt

CONSTANTS
  HexDigits,      \* hexadecimal digits of a word: 8
  Words,          \* arguments of %i and %h, as unsigned words
  Texts,          \* arguments of %s: sequences of characters
  Behind,         \* what may follow the NUL of a format in memory
  MaxPieces,      \* bound: pieces of a format
  Colors,         \* arguments of cprintf
  DefaultColor    \* what startConsole makes console_color

WordSize == 16^HexDigits
ASSUME FormatParameters ==
  /\ HexDigits \in Nat \ {0} /\ Words \subseteq 0..(WordSize - 1)
  /\ MaxPieces \in Nat

VARIABLES
  pc,             \* "idle" or "running"
  fn,             \* the function running: "kprintf" or "cprintf"
  pieces,         \* history: what the caller meant
  wanted,         \* history: the color it is to appear in
  memory,         \* the format, its NUL and what lies behind
  i,              \* the index of the same name
  args,           \* pieces whose arguments va_arg has not fetched yet
  color,          \* console_color
  original,       \* originalColor of cprintf
  out             \* what this call put on the console: [char, color]
vars == <<pc, fn, pieces, wanted, memory, i, args, color, original, out>>

NUL == "NUL"
Plain == [kind |-> "plain"]
Pieces ==
  {Plain} \union [kind : {"unknown"}]
  \union [kind : {"i", "h"}, arg : Words] \union [kind : {"s"}, arg : Texts]
IsDirective(p) == p # Plain
TakesArgument(p) == p.kind \in {"i", "h", "s"}

Spelled(p) == IF IsDirective(p) THEN <<"%", p.kind>> ELSE <<"plain">>
Spelling(ps) == FlattenSeq([k \in DOMAIN ps |-> Spelled(ps[k])])
ArgumentsOf(ps) == SelectSeq(ps, TakesArgument)

Init ==
  /\ pc = "idle" /\ fn = "kprintf" /\ pieces = <<>> /\ wanted = DefaultColor
  /\ memory = <<NUL>> /\ i = 0
  /\ args = <<>> /\ color = DefaultColor /\ original = DefaultColor /\ out = <<>>

(***************************************************************************)
(* The conversions, each a sequence of digits.                             *)
(***************************************************************************)
Signed(n) == IF n < WordSize \div 2 THEN n ELSE n - WordSize

(* itoa(buf, 10, d): base is the number 10, not 'd', so d counts as         *)
(* unsigned; the do loop runs at least once; the digits are reversed.      *)
DigitsFromLow[n \in 0..(WordSize - 1)] ==
  IF n < 10 THEN <<n>> ELSE <<n % 10>> \o DigitsFromLow[n \div 10]
Itoa(d) == Reverse(DigitsFromLow[d])

(* kernelPrintDec keeps the rest of the number in an int32_t: nothing is    *)
(* printed of one whose sign bit is set.                                   *)
KernelPrintDec(n) ==
  IF n = 0 THEN <<0>>
  ELSE IF Signed(n) > 0 THEN Reverse(DigitsFromLow[n]) ELSE <<>>

(* kernelPrintHex: zeroes before the first other digit are skipped; the     *)
(* last digit always comes.                                                *)
Nibble(n, k) == (n \div 16^(HexDigits - k)) % 16
Skipped(n, k) == k < HexDigits /\ \A j \in 1..k : Nibble(n, j) = 0
KernelPrintHex(n) ==
  LET printed == SelectSeq([k \in 1..HexDigits |-> k], LAMBDA k : ~Skipped(n, k))
  IN <<"0", "x">> \o [k \in DOMAIN printed |-> Nibble(n, printed[k])]

(***************************************************************************)
(* The loop.  A directive fetches its argument and prints it; in every     *)
(* case two characters are passed over, and the character after them is    *)
(* printed without another look at it.                                     *)
(***************************************************************************)
Byte(k) == IF k < Len(memory) THEN memory[k + 1] ELSE NUL
InColor(text) == [k \in DOMAIN text |-> [char |-> text[k], color |-> color]]
Kputs(text) == out' = out \o InColor(text)

ConvertInteger(n) == IF fn = "kprintf" THEN Itoa(n) ELSE KernelPrintDec(n)
(* A word taken for a pointer, or a pointer for a word, prints anything.    *)
SameType(directive, a) == (directive = "s") = (a.kind = "s")
Converted(directive, a) ==
  CASE ~SameType(directive, a) -> <<"anything">>
    [] directive = "i" /\ a.kind # "s" -> ConvertInteger(a.arg)
    [] directive = "h" /\ a.kind # "s" -> KernelPrintHex(a.arg)
    [] directive = "s" /\ a.kind = "s" -> a.arg
PassedOver == 2

Directive ==
  /\ pc = "running" /\ Byte(i) = "%"
  /\ IF Byte(i + 1) \in {"i", "h", "s"}
     THEN /\ Kputs(Converted(Byte(i + 1), Head(args)) \o <<Byte(i + PassedOver)>>)
          /\ args' = Tail(args)
     ELSE Kputs(<<Byte(i + PassedOver)>>) /\ UNCHANGED args
  /\ i' = i + PassedOver + 1
  /\ UNCHANGED <<pc, fn, pieces, wanted, memory, color, original>>
Character ==
  /\ pc = "running" /\ Byte(i) \notin {"%", NUL}
  /\ Kputs(<<Byte(i)>>)
  /\ i' = i + 1
  /\ UNCHANGED <<pc, fn, pieces, wanted, memory, args, color, original>>

Begin(f, ps, behind, c) ==
  /\ pc' = "running" /\ fn' = f /\ pieces' = ps /\ wanted' = c
  /\ memory' = Spelling(ps) \o <<NUL>> \o behind
  /\ args' = ArgumentsOf(ps)
  /\ UNCHANGED <<i, out>>
Kprintf(ps, behind) ==
  /\ Begin("kprintf", ps, behind, DefaultColor)
  /\ UNCHANGED <<color, original>>
CprintfInConsoleColor(ps, behind, c) ==
  /\ Begin("cprintf", ps, behind, c)
  /\ original' = color /\ UNCHANGED color
Cprintf(ps, behind, c) ==
  /\ Begin("cprintf", ps, behind, c)
  /\ original' = color /\ color' = c

(* Forgets the call: the next one starts with new locals.                   *)
ColorAfter == IF fn = "cprintf" THEN original ELSE color
Return ==
  /\ pc = "running" /\ Byte(i) = NUL
  /\ pc' = "idle" /\ color' = ColorAfter
  /\ i' = 0 /\ out' = <<>> /\ pieces' = <<>> /\ memory' = <<NUL>> /\ args' = <<>>
  /\ fn' = "kprintf" /\ wanted' = DefaultColor /\ original' = DefaultColor

Formats == UNION {[1..n -> Pieces] : n \in 0..MaxPieces}
Next ==
  \/ /\ pc = "idle"
     /\ \E ps \in Formats, behind \in Behind :
          Kprintf(ps, behind) \/ \E c \in Colors : Cprintf(ps, behind, c)
  \/ Directive \/ Character \/ Return
Spec == Init /\ [][Next]_vars

-----------------------------------------------------------------------------
(***************************************************************************)
(* What a format means: the plain characters and, for a directive, the     *)
(* shortest numeral of its argument in base 10 or 16, or its text.         *)
(***************************************************************************)
NumeralLength(n, base) ==
  CHOOSE l \in 1..(4 * HexDigits) :
    n < base^l /\ \A shorter \in 1..(l - 1) : n >= base^shorter
Numeral(n, base) ==
  LET length == NumeralLength(n, base)
  IN [k \in 1..length |-> (n \div base^(length - k)) % base]
Meant(p) ==
  CASE p = Plain -> <<"plain">>
    [] p.kind = "unknown" -> <<>>
    [] p.kind = "i" -> Numeral(p.arg, 10)
    [] p.kind = "h" -> <<"0", "x">> \o Numeral(p.arg, 16)
    [] p.kind = "s" -> p.arg
Meaning(ps) == FlattenSeq([k \in DOMAIN ps |-> Meant(ps[k])])

(* Every directive is followed by a plain character, and no %i is negative: *)
(* the callers that the loop serves.                                        *)
Separated(ps) ==
  \A k \in DOMAIN ps : IsDirective(ps[k]) => k < Len(ps) /\ ps[k + 1] = Plain
NoNegative(ps) == \A k \in DOMAIN ps : ps[k].kind = "i" => Signed(ps[k].arg) >= 0

(* kprintf prints what the format means in the color the console started    *)
(* with, cprintf in the color it is given, and neither prints anything of   *)
(* what lies behind the format in memory (vga.c:278-297, 317-340); a        *)
(* cprintf leaves the console's color as it was for the next call.          *)
PrintsFormat ==
  [][pc = "running" /\ pc' = "idle" /\ Separated(pieces) /\ NoNegative(pieces) =>
       /\ out = [k \in DOMAIN Meaning(pieces) |->
                   [char |-> Meaning(pieces)[k], color |-> wanted]]
       /\ color' = DefaultColor]_vars
=============================================================================
