-------------------------------- MODULE Logger --------------------------------
(***************************************************************************)
(* FastStringBuilder (lib/string.cpp) and the logger that uses it          *)
(* (lib/logger.h).  A string is a sequence, so that strlen is its length.  *)
(* The heap is the set of addresses in use (what it promises is module     *)
(* BlockStore): malloc gives an address that is not in use, with whatever  *)
(* the memory held before.  A client makes the calls of its script one     *)
(* after the other.                                                        *)
(***************************************************************************)
EXTENDS Integers, Sequences, SequencesExt

CONSTANTS
  Messages,     \* the texts callers log or append
  Targets,      \* LoggerTarget
  BuilderSizes, \* the sizes of builders used directly
  HeapAddresses \* the addresses malloc can return

ASSUME LoggerAssumption == HeapAddresses \cup BuilderSizes \subseteq Nat \ {0}

VARIABLES
  script,       \* the calls the client still makes
  target,
  blocks,       \* the addresses in use
  builder,      \* the members of the builder, or NoBuilder
  appended,     \* history: the arguments of append
  printed,      \* history: the text read from the last build, see print
  crashed       \* has NULL been freed

loggerVars == <<script, target, blocks, builder, appended, printed, crashed>>

NULL == 0
OutOfBounds == <<"FastStringBuilder OutOfBounds">>

\* No builder, and no part yet in an entry of the array.
NoBuilder == [this |-> NULL]
Unset == <<"?">>

Call(op, a) == [op |-> op, arg |-> a]

-----------------------------------------------------------------------------
\* __internal_log: what a log call does with its builder.
__internal_log(t, tpStr, str) ==
  LET append(s) == Call("append", s)
  IN  <<Call("new", 7), append(<<"$c8[">>), append(<<"nspace">>), append(<<"/">>),
        append(<<"tag">>), append(tpStr), append(str), append(<<"\n">>)>>
      \o (IF t = "NONE" THEN <<>> ELSE <<Call("print", <<>>)>>)
      \o <<Call("delete", <<>>)>>

\* info, warn and error differ in the tag they print.
TypeTags == {<<"] $c7[INF]$cF ">>, <<"] $cY[WRN]$cF ">>, <<"] $cR[ERR]$cF ">>}

\* A builder used without a logger: built after its parts are set, and again
\* after one part too many.
Direct(n, part, last, end) ==
  <<Call("new", n)>> \o [k \in 1 .. n |-> Call("append", part)]
  \o <<Call("print", <<>>), Call("append", last), Call("print", <<>>), Call(end, <<>>)>>

\* A builder destroyed before it is built for a reader, as with the target NONE.
Unread(n, part, end) ==
  <<Call("new", n)>> \o [k \in 1 .. n |-> Call("append", part)] \o <<Call(end, <<>>)>>

Nothing == [text |-> <<>>, parts |-> <<>>, room |-> 0]

LoggerInit ==
  /\ script = <<>> /\ target = "BOTH" /\ blocks = {} /\ builder = NoBuilder
  /\ appended = <<>> /\ printed = Nothing
  /\ crashed = FALSE

Begin(t, s) ==
  /\ script = <<>> /\ ~crashed
  /\ script' = s /\ target' = t /\ appended' = <<>> /\ printed' = Nothing
  /\ UNCHANGED <<blocks, builder, crashed>>

\* The next call of the script.
Calls(op) == script # <<>> /\ ~crashed /\ Head(script).op = op /\ script' = Tail(script)

\* operator new and the constructor.
Construct ==
  /\ Calls("new")
  /\ \E this, parts \in HeapAddresses \ blocks :
       /\ this < parts
       /\ blocks' = blocks \cup {this, parts}
       /\ builder' = [this |-> this, array |-> parts, partOffset |-> 0,
                      parts |-> [k \in 1 .. Head(script).arg |-> Unset],
                      outputBuf |-> NULL, text |-> <<>>]
  /\ UNCHANGED <<target, appended, printed, crashed>>

WithPart_Dropped(b, ptr) ==
  IF b.partOffset >= Len(b.parts)
  THEN b
  ELSE [b EXCEPT !.parts[b.partOffset + 1] = ptr, !.partOffset = @ + 1]

WithPart(b, ptr) ==
  IF b.partOffset >= Len(b.parts)
  THEN [b EXCEPT !.parts[Len(b.parts)] = OutOfBounds]
  ELSE [b EXCEPT !.parts[b.partOffset + 1] = ptr, !.partOffset = @ + 1]

append ==
  /\ Calls("append")
  /\ builder' = WithPart(builder, Head(script).arg)
  /\ appended' = Append(appended, Head(script).arg)
  /\ UNCHANGED <<target, blocks, printed, crashed>>

\* The builder and the blocks after build.  The old text is freed first.  The
\* block has room for one more character per part; none of them is written,
\* so a reader of the text goes on through whatever they hold up to the first
\* zero, or through all of them.
Built(b, used, buf, stale) ==
  [builder |-> [b EXCEPT !.outputBuf = buf,
                         !.text = FlattenSeq(b.parts) \o [k \in 1 .. stale |-> "?"]],
   blocks  |-> (used \ {b.outputBuf}) \cup {buf}]

Stale == {0, 1, Len(builder.parts)}

\* vakprintf(builder->build(), args), and its variants.
print ==
  /\ Calls("print")
  /\ \E buf \in HeapAddresses \ (blocks \ {builder.outputBuf}), stale \in Stale :
       LET after == Built(builder, blocks, buf, stale)
       IN  /\ builder' = after.builder /\ blocks' = after.blocks
           /\ printed' = [text |-> after.builder.text, parts |-> appended,
                          room |-> Len(builder.parts)]
  /\ UNCHANGED <<target, appended, crashed>>

\* The destructor and operator delete: the array, the text, the object.  sfree
\* of NULL writes below address 0, where nothing is mapped.
Freed_TextKept(b, used) == used \ {b.this, b.array}

Freed(b, used) == used \ {b.this, b.array, b.outputBuf}

delete ==
  /\ Calls("delete")
  /\ IF builder.outputBuf = NULL
     THEN crashed' = TRUE /\ blocks' = blocks \ {builder.array} /\ UNCHANGED builder
     ELSE /\ blocks' = Freed(builder, blocks)
          /\ builder' = NoBuilder /\ UNCHANGED crashed
  /\ UNCHANGED <<target, appended, printed>>

\* What it returns has been freed and cleared.
buildAndDestroy ==
  /\ Calls("buildAndDestroy")
  /\ \E buf \in HeapAddresses \ (blocks \ {builder.outputBuf}) :
       LET after == Built(builder, blocks, buf, 0)
       IN  blocks' = Freed(after.builder, after.blocks)
  /\ builder' = NoBuilder
  /\ UNCHANGED <<target, appended, printed, crashed>>

LoggerNext ==
  \/ \E t \in Targets, tp \in TypeTags, str \in Messages : Begin(t, __internal_log(t, tp, str))
  \/ \E n \in BuilderSizes, part, last \in Messages, end \in {"delete", "buildAndDestroy"} :
       Begin("BOTH", Direct(n, part, last, end))
  \/ \E n \in BuilderSizes, part \in Messages, end \in {"delete", "buildAndDestroy"} :
       Begin("NONE", Unread(n, part, end))
  \/ Construct \/ append \/ print \/ delete \/ buildAndDestroy

LoggerSpec == LoggerInit /\ [][LoggerNext]_loggerVars

-----------------------------------------------------------------------------
\* What a text is made of: the parts in order, or, when there were too many,
\* the first ones and the complaint in the place of the last.
Expected(parts, room) ==
  IF Len(parts) <= room THEN parts ELSE Append(SubSeq(parts, 1, room - 1), OutOfBounds)

\* A log call, and any other use of a builder, gives back every block it took
\* and frees no other address (the self test in _start compares getUsedMem
\* before and after).  The destructor does free NULL when nothing was built: by
\* a logger whose target is NONE or by such a use of a builder, and nowhere else.
BlocksReturned ==
  /\ script = <<>> /\ ~crashed => blocks = {}
  /\ crashed => target = "NONE"

\* The text handed to vakprintf begins with the parts, each in its place,
\* also when the builder is built again after its array has overflowed.
BuildsConcatenation ==
  IsPrefix(FlattenSeq(Expected(printed.parts, printed.room)), printed.text)

\* The comment in build: "+1 for null terminator".  The text ends with its
\* last part.
TextTerminated ==
  printed.text = FlattenSeq(Expected(printed.parts, printed.room))
===============================================================================
