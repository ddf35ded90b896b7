------------------------------ MODULE MCAnswers -------------------------------
(***************************************************************************)
(* Instances of Answers: documents with no, one, two and three sections,   *)
(* before, between and after headings, and texts of up to three pieces     *)
(* that mix whole and broken citations.                                    *)
(***************************************************************************)
EXTENDS Answers

CONSTANTS
  Pieces,      \* the pieces generated texts are made of, sequences of tokens
  MaxPieces    \* bound on the pieces of a text

Block(kind, lines) == [kind |-> kind, lines |-> lines, items |-> <<>>]
List(items) == [kind |-> "list", lines |-> <<>>, items |-> items]
Text(lines) == [kind |-> "text", lines |-> lines]
Nested == [kind |-> "container", lines |-> <<"n">>]

(* The third document has a paragraph of two lines, and a list of an item  *)
(* with two paragraphs, the second of two lines, and an item with a nested *)
(* list.                                                                   *)
Written ==
  {<<Block("heading", <<"h1">>), Block("other", <<"code">>)>>,
   <<Block("paragraph", <<"a">>), Block("heading", <<"h1">>),
     List(<< <<Text(<<"b">>)>>, <<>> >>)>>,
   <<Block("heading", <<"h1">>), Block("paragraph", <<"a", "b">>),
     Block("heading", <<"h2">>), Block("heading", <<"h3">>), Block("other", <<"code">>),
     List(<< <<Text(<<"c">>), Text(<<"d", "e">>)>>, <<Text(<<"f">>), Nested>> >>),
     Block("paragraph", <<"a">>)>>}

(* A list of an item without text and an item with nothing but a list.     *)
EmptyItems == {<<Block("paragraph", <<"a">>), List(<< <<>>, <<Nested>> >>)>>}

TwoLabels == <<"S1", "S2">>

MixedPieces ==
  {<<"[", "S1", "]">>, <<"[", "S2", "]">>, <<"[", "S1", "\n", "]">>, <<"w", "S1", "w">>,
   <<"[">>, <<"]">>, <<"\n">>}

MCTexts == {FlattenSeq(s) : s \in UNION {[1 .. n -> Pieces] : n \in 0 .. MaxPieces}}

ListedReferences == {<<>>, <<"S1">>, <<"S2">>, <<"S1", "S1">>, <<"S2", "S1">>}
===============================================================================
