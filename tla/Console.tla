------------------------------- MODULE Console -------------------------------
(***************************************************************************)
(* Formatted output: kprintf and its variants with the colour escapes      *)
(* (debug.cpp), the terminal and the frame buffer behind them              *)
(* (terminal/terminal.cpp, graphics/framebuffer.cpp), and panic, which     *)
(* prints and halts (panic.cpp).  A string is a sequence of characters.  A *)
(* number is one digit, so that its text is that digit; %x pads it to      *)
(* HexWidth.  The kernel prints one call at a time, and panics between     *)
(* calls: nothing that a call executes panics, and no interrupt is taken.  *)
(* Each round of the loops over a string is a step, for they do not always *)
(* end.                                                                    *)
(***************************************************************************)
EXTENDS Integers, Sequences, SequencesExt

CONSTANTS
  Calls,          \* the calls: [fmt, args, serial, terminal]
  HexWidth,       \* 16: digits %x writes
  PanicCalls,     \* what panic prints, call by call
  RowPoints,      \* pitch / 4: points from one row of the screen to the next
  width, height,  \* points of a row that are shown, and rows
  GlyphWidth,     \* 8
  GlyphHeight     \* 16

ASSUME ConsoleAssumption ==
  /\ {HexWidth, GlyphWidth, GlyphHeight} \subseteq Nat \ {0}
  /\ width = RowPoints
  /\ RowPoints \in Nat /\ RowPoints >= GlyphWidth
  /\ height \in Nat /\ height >= GlyphHeight

VARIABLES
  call,           \* the running call, or NoCall
  str, args,      \* what _kprintf has not yet read
  isParsingSpecifier,
  inner,          \* what __write has not yet written of its argument
  out,            \* the globals behind the loops, see Init
  panicked,       \* has panic been called
  queue           \* what panic has not yet printed

vars == <<call, str, args, isParsingSpecifier, inner, out, panicked, queue>>

\* No call: it prints nothing to no channel.
NoCall == [fmt |-> <<>>, args |-> <<>>, serial |-> FALSE, terminal |-> FALSE]

Blank == " "
Colours == {"Y", "G", "R", "B", "F", "7", "8"}

-----------------------------------------------------------------------------
\* Terminal::init: the last column and the last line.
charsPerLine == LET n == RowPoints \div GlyphWidth - 1 IN IF n > 256 THEN 256 ELSE n
maxLines == LET n == height \div GlyphHeight - 1 IN IF n > 128 THEN 128 ELSE n

translateToOffset(x, y) == y * RowPoints + x

\* The offsets drawChar writes: it draws each row of the glyph from x + 16 to
\* the left.
GlyphPoints(x, y) ==
  {translateToOffset(x + 2 * GlyphWidth - cx, y + cy) :
     cx \in 0 .. GlyphWidth - 1, cy \in 0 .. GlyphHeight - 1}

CellPoints(cell) == GlyphPoints(cell[1] * GlyphWidth, cell[2] * GlyphHeight)

\* The frame buffer and what lies behind it.
End == RowPoints * height
Points == 0 .. End + 2 * GlyphWidth

\* Terminal::writechar.  A control character is not drawn.  Behind the last
\* line the screen is cleared, which is told to the serial line.
Wraps(o, c) == o.charX + 1 > charsPerLine \/ c = "\n"

\* A name with a suffix is a faulty variant of the definition after it.
Clears_Late(o, c) == Wraps(o, c) /\ o.charY > maxLines

Clears(o, c) == Wraps(o, c) /\ o.charY + 1 > maxLines

writechar(o, c) ==
  LET drawn == IF c = "\n" THEN {} ELSE CellPoints(<<o.charX, o.charY>>)
  IN  [o EXCEPT !.screen = Append(@, c),
                !.serial = IF Clears(o, c) THEN Append(@, "clear") ELSE @,
                !.charX  = IF Wraps(o, c) THEN 0 ELSE @ + 1,
                !.charY  = IF Clears(o, c) THEN 0 ELSE IF Wraps(o, c) THEN @ + 1 ELSE @,
                !.pixels = [p \in Points |->
                              IF Clears(o, c) /\ p < width * height THEN Blank
                              ELSE IF p \in drawn THEN c ELSE @[p]],
                !.cells  = IF Clears(o, c) THEN <<>>
                           ELSE IF c = "\n" THEN @ ELSE (<<o.charX, o.charY>> :> c) @@ @]

Emit_ElseTerminal(o, c) ==
  IF call.serial THEN [o EXCEPT !.serial = Append(@, c)]
  ELSE IF call.terminal THEN writechar(o, c) ELSE o

Emit(o, c) ==
  LET s == IF call.serial THEN [o EXCEPT !.serial = Append(@, c)] ELSE o
  IN  IF call.terminal THEN writechar(s, c) ELSE s

\* Is the character part of an escape?
Escape(o, c) == c = "$" \/ o.anything

\* __writeChar, and what __write does with one character.
writeChar_ColorKept(o, c) ==
  IF c = "$" THEN [o EXCEPT !.anything = TRUE]
  ELSE IF ~o.anything THEN Emit(o, c)
  ELSE IF ~o.color THEN [o EXCEPT !.color = c = "c"]
  ELSE [o EXCEPT !.fgColor = IF c \in Colours THEN c ELSE @, !.anything = FALSE]

writeChar(o, c) ==
  IF c = "$" THEN [o EXCEPT !.anything = TRUE]
  ELSE IF ~o.anything THEN Emit(o, c)
  ELSE IF ~o.color THEN [o EXCEPT !.color = c = "c"]
  ELSE [o EXCEPT !.fgColor = IF c \in Colours THEN c ELSE @,
                 !.anything = FALSE, !.color = FALSE]

\* The text a specifier hands to __write; other letters write nothing.
Converted(spec, arg) ==
  CASE spec \in {"s", "d", "i", "u", "o"} -> arg
    [] spec \in {"x", "X"} -> [n \in 1 .. HexWidth - Len(arg) |-> "0"] \o arg
    [] spec \in {"e", "E", "f"} -> <<"<", ">">>
    [] OTHER -> <<>>

TakesArg(spec) == spec \in {"c", "o", "d", "i", "s", "u", "x", "X"}

-----------------------------------------------------------------------------
\* currentlyReadingAnything, currentlyReadingColor, the colour, the cursor and
\* the points of the terminal; history: what is printed where, what the call
\* has sent to the two channels, and the colour when it began.
Init ==
  /\ call = NoCall
  /\ str = <<>> /\ args = <<>> /\ inner = <<>>
  /\ isParsingSpecifier = FALSE
  /\ out = [anything |-> FALSE, color |-> FALSE, fgColor |-> "F", charX |-> 0, charY |-> 0,
            pixels |-> [p \in Points |-> Blank], cells |-> <<>>,
            serial |-> <<>>, screen |-> <<>>, oldColor |-> "F"]
  /\ panicked = FALSE /\ queue = <<>>

Begin(c) ==
  /\ call' = c /\ str' = c.fmt /\ args' = c.args
  /\ isParsingSpecifier' = FALSE
  /\ out' = [out EXCEPT !.serial = <<>>, !.screen = <<>>, !.oldColor = out.fgColor]

\* kprintf, kprintf_both, kprintf_serial: they differ in the channels.
kprintf(c) ==
  /\ call = NoCall /\ ~panicked
  /\ Begin(c)
  /\ UNCHANGED <<inner, panicked, queue>>

panic ==
  /\ call = NoCall /\ ~panicked
  /\ panicked' = TRUE /\ queue' = PanicCalls
  /\ out' = [out EXCEPT !.fgColor = "R"]
  /\ UNCHANGED <<call, str, args, isParsingSpecifier, inner>>

PanicLine ==
  /\ call = NoCall /\ queue # <<>>
  /\ Begin(Head(queue))
  /\ queue' = Tail(queue)
  /\ UNCHANGED <<inner, panicked>>

\* while(1)
Halt == panicked /\ call = NoCall /\ queue = <<>> /\ UNCHANGED vars

\* A percent sign, whatever comes before it.
Percent ==
  /\ call # NoCall /\ inner = <<>> /\ str # <<>>
  /\ Head(str) = "%"
  /\ isParsingSpecifier' = TRUE
  /\ str' = Tail(str)
  /\ UNCHANGED <<call, args, inner, out, panicked, queue>>

\* The letter after it.
Specifier ==
  /\ call # NoCall /\ inner = <<>> /\ str # <<>>
  /\ Head(str) # "%" /\ isParsingSpecifier
  /\ LET spec == Head(str)
         arg  == IF TakesArg(spec) THEN Head(args) ELSE <<>>
     IN  /\ out' = IF spec = "c" THEN writeChar(out, arg[1]) ELSE out
         /\ inner' = Converted(spec, arg)
         /\ args' = IF TakesArg(spec) THEN Tail(args) ELSE args
  /\ isParsingSpecifier' = FALSE
  /\ str' = Tail(str)
  /\ UNCHANGED <<call, panicked, queue>>

Plain ==
  /\ call # NoCall /\ inner = <<>> /\ str # <<>>
  /\ Head(str) # "%" /\ ~isParsingSpecifier
  /\ out' = writeChar(out, Head(str))
  /\ str' = Tail(str)
  /\ UNCHANGED <<call, args, isParsingSpecifier, inner, panicked, queue>>

\* One round of the loop of __write: it stays at a character of an escape.
write_StaysAtNewline ==
  LET stays == Escape(out, Head(inner)) \/ Head(inner) = "\n"
  IN  /\ inner # <<>>
      /\ out' = IF stays THEN out ELSE writeChar(out, Head(inner))
      /\ inner' = IF stays THEN inner ELSE Tail(inner)
      /\ UNCHANGED <<call, str, args, isParsingSpecifier, panicked, queue>>

write ==
  /\ inner # <<>>
  /\ out' = writeChar(out, Head(inner))
  /\ inner' = IF Escape(out, Head(inner)) THEN inner ELSE Tail(inner)
  /\ UNCHANGED <<call, str, args, isParsingSpecifier, panicked, queue>>

Return ==
  /\ call # NoCall /\ inner = <<>> /\ str = <<>>
  /\ call' = NoCall
  /\ UNCHANGED <<str, args, isParsingSpecifier, inner, out, panicked, queue>>

Printing == Percent \/ Specifier \/ Plain \/ write \/ Return \/ PanicLine

Next == (\E c \in Calls : kprintf(c)) \/ panic \/ Printing \/ Halt

\* The kernel does not stop in the middle of a call or of panic.
Spec == Init /\ [][Next]_vars /\ WF_vars(Printing)

-----------------------------------------------------------------------------
\* The screen shows what was printed since it was last cleared: the points of
\* every position hold the character printed there and all others are blank,
\* although a glyph is drawn 9 points to the right of its position, so that the
\* last one of a line is drawn on the rows below.  The last one of the screen
\* goes past the end of the frame buffer, by no more than its width.
ScreenShowsText ==
  /\ out.charX <= charsPerLine /\ out.charY <= maxLines
  /\ \A cell \in DOMAIN out.cells :
       \A p \in CellPoints(cell) : p < End => out.pixels[p] = out.cells[cell]
  /\ \A p \in Points \ (UNION {CellPoints(cell) : cell \in DOMAIN out.cells}) :
       p < End => out.pixels[p] = Blank
  /\ \A p \in Points : p > End + GlyphWidth => out.pixels[p] = Blank

\* What a format means: its text and the colour it leaves, read by the words
\* of the comment on kprintf, and a second percent sign as the case for it in
\* _kprintf has it.
RECURSIVE Text(_, _)
Text(fmt, as) ==
  CASE fmt = <<>>      -> <<>>
    [] fmt[1] = "$"    -> Text(SubSeq(fmt, 4, Len(fmt)), as)
    [] fmt[1] = "%" /\ fmt[2] = "%" -> <<"%">> \o Text(SubSeq(fmt, 3, Len(fmt)), as)
    [] fmt[1] = "%"    -> IF TakesArg(fmt[2])
                          THEN (IF fmt[2] = "c" THEN as[1] ELSE Converted(fmt[2], as[1]))
                               \o Text(SubSeq(fmt, 3, Len(fmt)), Tail(as))
                          ELSE Converted(fmt[2], <<>>) \o Text(SubSeq(fmt, 3, Len(fmt)), as)
    [] OTHER           -> <<fmt[1]>> \o Text(Tail(fmt), as)

ColourAfter(fmt, old) ==
  LET at == {n \in 1 .. Len(fmt) - 2 : fmt[n] = "$" /\ fmt[n + 2] \in Colours}
  IN  IF at = {} THEN old ELSE fmt[Max(at) + 2]

Finished == call # NoCall /\ str = <<>> /\ inner = <<>>

\* When a call returns, each of its channels has received the text of the
\* format: every argument in its place, nothing of an escape, and nothing on
\* the other channel.  The one exception is the note "clear" that the terminal
\* sends to the serial line when it clears the screen, also in the middle of a
\* text for both channels and for a call that prints on the terminal only.
PrintsItsText ==
  Finished =>
    LET text  == Text(call.fmt, call.args)
        noted == SelectSeq(out.serial, LAMBDA c : c # "clear")
    IN  /\ out.screen = IF call.terminal THEN text ELSE <<>>
        /\ noted = IF call.serial THEN text ELSE <<>>
        /\ ~call.terminal => out.serial = noted

\* When a call returns the colour is that of its last valid escape, and no
\* escape is left open for the next call, which would swallow its text.
ColourIsLastEscape ==
  Finished => /\ out.fgColor = ColourAfter(call.fmt, out.oldColor)
              /\ ~out.anything /\ ~out.color

\* kprintf returns: "Supported formatters: ... s (string) ..." and "You can
\* use $c<Color> to print colors too!"  So do the calls of panic.
PrintReturns == call # NoCall ~> call = NoCall
==============================================================================
