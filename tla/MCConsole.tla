----------------------------- MODULE MCConsole -----------------------------
(* Instances of Console for TLC: formats are made of one or two parts, and *)
(* a part of the pieces that belong together.                              *)
EXTENDS ConsoleInv

Plain(t)        == [chars |-> t, kind |-> "text", args |-> {}]
Shows(t, texts) == [chars |-> t, kind |-> "argument", args |-> texts]
Sets(t)         == [chars |-> t, kind |-> "nothing", args |-> {}]

red == <<"f", "f", "0", "0", "0", "0">>

(* itoa() makes the empty text of zero.                                    *)
SomeNumbers == {<<>>, <<"1", "2">>, <<"-", "1", "2", "3">>}

Words == {<<"a">>, <<"a", "newline", "b">>}

InBraces(ps) == <<Sets(<<"{">>)>> \o ps \o <<Sets(<<"}">>)>>

Parts == {
  <<Plain(<<"a">>)>>, <<Plain(<<"newline">>)>>, <<Plain(<<"tab">>)>>,
  InBraces(<<Shows(<<"d">>, SomeNumbers)>>),
  InBraces(<<Shows(<<"c">>, {<<"a">>, <<"newline">>, <<"tab">>})>>),
  InBraces(<<Sets(<<"#">> \o red \o <<".">>), Shows(<<"s">>, Words)>>),
  <<Sets(<<"{">>), Sets(<<"#">> \o red \o <<"}">>)>> }

(* Two directives within one pair of braces, with a text between them.     *)
InOne == InBraces(<<Shows(<<"u">>, {<<"1">>}), Plain(<<",">>), Shows(<<"s">>, {<<>>, <<"a">>})>>)

OneOrTwo(ps) == ps \cup {a \o b : a, b \in ps}

SomeFormats == OneOrTwo(Parts) \cup {InOne}

(* The last one ends in the last cell printStr() counts, on a new line.    *)
SomeStrings == {<<"a", "newline", "b">>, <<"a", "b", "a", "b", "a", "b">>,
                <<"newline", "a", "b", "a", "b", "a", "b">>}

(* A number, a text that fills a line anywhere, and a newline.             *)
SomeLabels == {<<"1", "2">>, <<"a", "b", "a", "b", "a", "b", "a", "b">>,
               <<"a", "newline">>}

(* In a corner, in the last line that fits, in the next, and beside the    *)
(* last cell.                                                              *)
SomePlaces == {[x |-> 0, y |-> 0], [x |-> 0, y |-> 71], [x |-> 5, y |-> 72],
               [x |-> 30, y |-> 60], [x |-> 60, y |-> 5]}

(* In the shipped kernel the byte behind sc[] is the lowest of ap's        *)
(* gp_offset, 8 times the number of arguments taken plus 8, of which       *)
(* xtou64() makes 8 or 0.                                                  *)
Shipped == {<<"8">>, <<"0">>}

(* What the theorems assume is so here.                                    *)
ASSUME TheoremsApply == WidthsFit /\ MarginFits /\ LabelsBegin /\ ColorsEnd
                         /\ FormatsLegible
=============================================================================
