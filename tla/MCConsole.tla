------------------------------ MODULE MCConsole ------------------------------
(* Formats with every kind of specifier and escape, and the lines of panic. *)
EXTENDS Console

Formats ==
  {<<<<"$", "c", "R", "a", "%", "s", "$", "c", "F", "\n">>, << <<"b", "\n", "d">> >> >>,
   <<<<"%", "x", "%", "c", "a">>, << <<"5">>, <<"b">> >> >>,
   <<<<"%", "d", "$", "c", "7", "%", "u", "%", "f">>, << <<"1">>, <<"2">> >> >>,
   <<<<"a", "%", "q", "b", "%", "s">>, << <<>> >> >>,
   <<<<"%", "o", "%", "i">>, << <<"7">>, <<"1">> >> >>,
   <<<<"$", "c", "?", "a">>, <<>>>>}

WellFormed ==
  {[fmt |-> f[1], args |-> f[2], serial |-> ch[1], terminal |-> ch[2]] :
     f \in Formats, ch \in {<<TRUE, TRUE>>, <<TRUE, FALSE>>, <<FALSE, TRUE>>}}

Serial(f, as) == [fmt |-> f, args |-> as, serial |-> TRUE, terminal |-> FALSE]
Terminal(f, as) == [fmt |-> f, args |-> as, serial |-> FALSE, terminal |-> TRUE]

\* "Panic GODDAMN!", the message, a trace of one frame; then the same on the
\* terminal.
PanicOutput ==
  LET message == << <<"m", "s">> >>
      frame   == << <<"9">> >>
  IN  <<Serial(<<"P", "c", " ", "!", "\n">>, <<>>), Serial(<<":", "%", "s", "\n">>, message),
        Serial(<<"S", "\n">>, <<>>), Serial(<<"0", "%", "x", "\n">>, frame),
        Terminal(<<"\n", "\n">>, <<>>), Terminal(<<"P", "c", "\n">>, <<>>),
        Terminal(<<":", "%", "s", "\n">>, message),
        Terminal(<<"S", "\n">>, <<>>), Terminal(<<"0", "%", "x", "\n">>, frame)>>

\* An argument of %s with a colour.
ColouredArgument ==
  {[fmt |-> <<"%", "s">>, args |-> << <<"$", "c", "R", "a">> >>,
    serial |-> TRUE, terminal |-> TRUE]}
==============================================================================
