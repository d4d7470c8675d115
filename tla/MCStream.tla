------------------------------ MODULE MCStream ------------------------------
(* Instances of Stream for TLC: formats of one or two pieces, each with    *)
(* the argument it takes and the text it stands for.  A negative number is *)
(* a sign and then its digits as an unsigned one, which is what lines 71   *)
(* and 72 of the source prescribe, and zero has none.                      *)
EXTENDS StreamInv

SomeChars == {"a", "b", "-", "{", "}", "?", "d", "u", "s", "x", "o"}

(* 0 to 9 and a to f.  The digits are characters of their own here.        *)
DigitsOf16 == [d \in 0 .. 15 |-> <<"0", "1", "2", "3", "4", "5", "6", "7",
                "8", "9", "A", "B", "C", "D", "E", "F">>[d + 1]]

AllChars == SomeChars \cup {DigitsOf16[d] : d \in 0 .. 15}

Piece(chars, taken, text) == [fmt |-> chars, args |-> taken, means |-> text]

Number_(n) == <<[n |-> n, text |-> <<>>]>>
Text_(t)   == <<[n |-> 0, text |-> t]>>

Pieces == {
  Piece(<<"a">>, <<>>, <<"a">>),
  Piece(<<"s">>, <<>>, <<"s">>),
  Piece(<<"}">>, <<>>, <<"}">>),
  Piece(<<"{", "{">>, <<>>, <<"{">>),
  Piece(<<"{", "s", "}">>, Text_(<<"a", "b", "a", "b">>), <<"a", "b", "a", "b">>),
  Piece(<<"{", "d", "}">>, Number_(9), <<"9">>),
  Piece(<<"{", "d", "}">>, Number_(-3), <<"-", "6", "1">>),
  Piece(<<"{", "?", "x", "d", "}">>, Number_(26), <<"1", "A">>),
  Piece(<<"{", "?", "o", "u", "}">>, Number_(26), <<"3", "2">>),
  Piece(<<"{", "u", "}">>, Number_(0), <<>>) }

SomeCalls == Pieces \cup {Join(p, q) : p, q \in Pieces}

(* They are of the kind the theorem is about.                              *)
ASSUME TheoremApplies ==
  (\A p \in Pieces : IsPiece(p)) /\ BuiltOf(Pieces, SomeCalls \cup {NoCall})

(* The bases of the comments, with both kinds of numbers.                  *)
BaseCalls == {
  Piece(<<"{", "?", "x", "d", "}">>, Number_(26), <<"1", "A">>),
  Piece(<<"{", "?", "o", "u", "}">>, Number_(26), <<"3", "2">>),
  Piece(<<"{", "?", "d", "u", "}">>, Number_(9), <<"9">>),
  Piece(<<"{", "?", "d", "d", "}">>, Number_(9), <<"9">>) }
=============================================================================
