-------------------------------- MODULE Answers --------------------------------
(***************************************************************************)
(* One question, from the stored sections of a document to the citations a *)
(* reader can click: Parse cuts the document into sections, RAG.Search     *)
(* retrieves the nearest ones, labels them in a prompt, has an answer      *)
(* generated and checks it (resolveAnswer), and AnswerPanel turns its      *)
(* citations into buttons that open the sources.                           *)
(*                                                                         *)
(* A generated text is a sequence of tokens: brackets, labels, white space *)
(* and words.  A line of the document is one word, so that the text of a   *)
(* section is a sequence of lines and blanks.                              *)
(***************************************************************************)
EXTENDS Integers, Sequences, FiniteSets, SequencesExt

CONSTANTS
  Documents,   \* the documents, sequences of Markdown blocks
  Texts,       \* the texts the model may generate, sequences of tokens
  References,  \* the lists of references a generated answer may carry
  Labels       \* <<"S1", "S2", ...>>, as many as a question may ask sections for

(* What a document is parsed from.  A child of a list item either holds    *)
(* lines of its own, as a paragraph does, or only further blocks, as a     *)
(* nested list or a quotation does; the text in those is none of its own.  *)
Blank == " "
WhiteSpace == {Blank, "\n"}
Words == STRING \ (WhiteSpace \union {""})
Nodes == [kind : {"text", "container"}, lines : Seq(Words)]
Blocks ==
  [kind : {"heading", "paragraph", "list", "other"}, lines : Seq(Words),
   items : Seq(Seq(Nodes))]
LabelSet == Range(Labels)
MaxSources == Len(Labels)   \* limitMax, 5 in the code

ASSUME AnswersAssumption ==
  /\ Documents \subseteq Seq(Blocks)
  /\ Texts \subseteq Seq(STRING)
  /\ References \subseteq Seq(STRING)
  /\ Labels \in Seq(STRING)
  /\ \A i, j \in DOMAIN Labels : Labels[i] = Labels[j] => i = j
  /\ LabelSet \intersect {"[", "]"} = {}

VARIABLES
  document,   \* the document that was ingested
  stored,     \* the sections of it that are stored and embedded so far
  stage,      \* how far Search has come
  found,      \* the sections retrieved, nearest first
  generated,  \* the answer the model gave
  result,     \* what Search returned
  buttons     \* the citations AnswerPanel shows as buttons

vars == <<document, stored, stage, found, generated, result, buttons>>

GeneratedAnswers ==
  [status : {"answered", "insufficient_evidence", "other"}, answer : Texts,
   references : References]

NoAnswer == [status |-> "none", answer |-> <<>>, references |-> <<>>]
NoResult == [status |-> "none", response |-> <<>>, sources |-> <<>>]

-----------------------------------------------------------------------------
(* extractText: the lines a node owns, with a blank for each line break.   *)
OwnLines(node) == IF node.kind = "text" THEN node.lines ELSE <<>>

ExtractText(lines) ==
  [i \in 1 .. (IF lines = <<>> THEN 0 ELSE 2 * Len(lines) - 1) |->
     IF i % 2 = 1 THEN lines[(i + 1) \div 2] ELSE Blank]

(* extractListText: the children of an item follow one another with        *)
(* nothing between them, the items with a blank.                           *)
ItemText(item) == FlattenSeq([c \in DOMAIN item |-> ExtractText(OwnLines(item[c]))])

ExtractListTextRunsOn(items) == FlattenSeq([n \in DOMAIN items |-> ItemText(items[n])])

ExtractListText(items) ==
  FlattenSeq([n \in DOMAIN items |->
                ItemText(items[n]) \o IF n < Len(items) THEN <<Blank>> ELSE <<>>])

Extract(block) ==
  IF block.kind = "list" THEN ExtractListText(block.items) ELSE ExtractText(block.lines)

(* Parse: a paragraph and a list are sections under the heading before     *)
(* them; other blocks are passed over.                                     *)
ParseBlock(acc, block) ==
  CASE block.kind = "heading" -> [acc EXCEPT !.heading = block.lines]
    [] block.kind \in {"paragraph", "list"} ->
         [acc EXCEPT !.sections = Append(@, [subheading |-> acc.heading, text |-> Extract(block)])]
    [] OTHER -> acc

(* Where the loop of Parse stands after each block.                        *)
Parsed(blocks) ==
  LET after[n \in 0 .. Len(blocks)] ==
        IF n = 0 THEN [heading |-> <<>>, sections |-> <<>>]
        ELSE ParseBlock(after[n - 1], blocks[n])
  IN after

Parse(blocks) == Parsed(blocks)[Len(blocks)].sections

(* strings.TrimSpace(text) = "", of a section and of a generated text.     *)
BlankText(text) == \A i \in DOMAIN text : text[i] \in WhiteSpace

(* The rows Search orders by distance, which may be any order, cut at the  *)
(* limit.                                                                  *)
NearestUncut(rows, limit) == SetToSeqs(rows)

Nearest(rows, limit) ==
  {SubSeq(s, 1, IF limit < Len(s) THEN limit ELSE Len(s)) : s \in SetToSeqs(rows)}

-----------------------------------------------------------------------------
(* inlineReference: its matches in a text are the pairs of brackets with  *)
(* neither a bracket nor a line break between them.                        *)
Positions(text, token) == {i \in DOMAIN text : text[i] = token}
Matches(text) ==
  {match \in Positions(text, "[") \X Positions(text, "]") :
     /\ match[1] < match[2]
     /\ \A k \in match[1] + 1 .. match[2] - 1 : text[k] \notin {"[", "]", "\n"}}

Inside(text, match) == SubSeq(text, match[1] + 1, match[2] - 1)

NothingLeftOver(text) == FALSE

(* ReplaceAllString(answer, "") still has a bracket.                       *)
BracketLeftOver(text) ==
  \E i \in DOMAIN text :
    /\ text[i] \in {"[", "]"}
    /\ \A match \in Matches(text) : i \notin match[1] .. match[2]

Inline(text) == {Inside(text, match) : match \in Matches(text)}

(* resolveAnswer's checks on an answer with the status "answered".         *)
WellCited(answer, known) ==
  LET cited == {<<label>> : label \in Range(answer.references)}
  IN /\ ~BlankText(answer.answer)
     /\ answer.references # <<>>
     /\ cited \subseteq {<<label>> : label \in known}
     /\ Inline(answer.answer) \subseteq cited
     /\ ~BracketLeftOver(answer.answer)
     /\ Cardinality(Inline(answer.answer)) = Cardinality(cited)

WellAbstained(answer) == BlankText(answer.answer) /\ answer.references = <<>>

Known == {Labels[i] : i \in DOMAIN found}

(* The sources of the context, in its order, that the answer cites.        *)
Source(i) ==
  [reference |-> Labels[i], index |-> found[i].index,
   subheading |-> found[i].section.subheading, text |-> found[i].section.text]
Resolving(answer) ==
  LET resolved[n \in 0 .. Len(found)] ==
        IF n = 0 THEN <<>>
        ELSE IF Labels[n] \in Range(answer.references)
             THEN Append(resolved[n - 1], Source(n))
             ELSE resolved[n - 1]
  IN resolved

Resolved(answer) == Resolving(answer)[Len(found)]

-----------------------------------------------------------------------------
(* The document may be on its way: any of its sections have been stored.   *)
Init ==
  /\ document \in Documents
  /\ stored \in SUBSET DOMAIN Parse(document)
  /\ stage = "asked"
  /\ found = <<>>
  /\ generated = NoAnswer
  /\ result = NoResult
  /\ buttons = {}

(* 400: HandleQuery and Search refuse an empty or blank question and a     *)
(* limit out of range.                                                     *)
RefuseQuery(question, limit) ==
  /\ stage = "asked"
  /\ question \in {"empty", "blank"} \/ limit \notin 1 .. MaxSources
  /\ stage' = "refused"
  /\ UNCHANGED <<document, stored, found, generated, result, buttons>>

Return(status, response, sources) ==
  result' = [status |-> status, response |-> response, sources |-> sources]

ReturnInsufficient == Return("insufficient_evidence", <<>>, <<>>)

(* Embed the question, retrieve, and build the prompt.  No section at all  *)
(* is an answer; a section without text is an error.                       *)
Retrieve(limit) ==
  /\ stage = "asked"
  /\ limit \in 1 .. MaxSources
  /\ found' \in Nearest({[index |-> i, section |-> Parse(document)[i]] : i \in stored}, limit)
  /\ IF found' = <<>>
     THEN stage' = "returned" /\ ReturnInsufficient
     ELSE /\ stage' = IF \E i \in DOMAIN found' : BlankText(found'[i].section.text)
                      THEN "unusable" ELSE "prompted"
          /\ UNCHANGED result
  /\ UNCHANGED <<document, stored, generated, buttons>>

(* 500: embedding, retrieval or generation fails, or the generated text is *)
(* not the JSON object ParseGeneratedAnswer demands.                       *)
ProviderFailsQuietly ==
  /\ stage \in {"asked", "prompted"}
  /\ stage' = "returned"
  /\ ReturnInsufficient
  /\ UNCHANGED <<document, stored, found, generated, buttons>>

ProviderFails ==
  /\ stage \in {"asked", "prompted"}
  /\ stage' = "failed"
  /\ UNCHANGED <<document, stored, found, generated, result, buttons>>

Generate(answer) ==
  /\ stage = "prompted"
  /\ stage' = "generated"
  /\ generated' = answer
  /\ UNCHANGED <<document, stored, found, result, buttons>>

(* resolveAnswer.                                                          *)
Resolve ==
  /\ stage = "generated"
  /\ \/ /\ generated.status = "insufficient_evidence"
        /\ WellAbstained(generated)
        /\ stage' = "returned"
        /\ ReturnInsufficient
     \/ /\ generated.status = "answered"
        /\ WellCited(generated, Known)
        /\ stage' = "returned"
        /\ Return("answered", generated.answer, Resolved(generated))
  /\ UNCHANGED <<document, stored, found, generated, buttons>>

Reject ==
  /\ stage = "generated"
  /\ ~(generated.status = "insufficient_evidence" /\ WellAbstained(generated))
  /\ ~(generated.status = "answered" /\ WellCited(generated, Known))
  /\ stage' = "rejected"
  /\ UNCHANGED <<document, stored, found, generated, result, buttons>>

-----------------------------------------------------------------------------
(* AnswerPanel splits the response at /\[S\d+\]/.  Each part, less its      *)
(* first and last character, is looked up among the references: a part     *)
(* between two citations too, so a label alone between two characters      *)
(* becomes a button as well.                                               *)
CitationAt(text, i) ==
  /\ i + 2 <= Len(text)
  /\ text[i] = "[" /\ text[i + 1] \in LabelSet /\ text[i + 2] = "]"

PartAt(text, i) ==
  /\ i + 2 <= Len(text)
  /\ text[i] \notin LabelSet /\ text[i + 2] \notin LabelSet
  /\ \/ CitationAt(text, i)
     \/ /\ i = 1 \/ (i > 3 /\ CitationAt(text, i - 3))
        /\ i + 3 = Len(text) + 1 \/ CitationAt(text, i + 3)

(* The map from references to sources; of two with one reference it would *)
(* keep the last.                                                          *)
Entries(label) == {k \in DOMAIN result.sources : result.sources[k].reference = label}
SourceOpened(label) == result.sources[Max(Entries(label))]

ShowFirstSource ==
  /\ stage = "returned"
  /\ stage' = "shown"
  /\ buttons' =
       {[at |-> i, opens |-> result.sources[1]] :
          i \in {j \in DOMAIN result.response :
                   PartAt(result.response, j) /\ result.sources # <<>>}}
  /\ UNCHANGED <<document, stored, found, generated, result>>

Show ==
  /\ stage = "returned"
  /\ stage' = "shown"
  /\ buttons' =
       {[at |-> i, opens |-> SourceOpened(result.response[i + 1])] :
          i \in {j \in DOMAIN result.response :
                   /\ PartAt(result.response, j)
                   /\ Entries(result.response[j + 1]) # {}}}
  /\ UNCHANGED <<document, stored, found, generated, result>>

Next ==
  \/ \E question \in {"empty", "blank", "text"}, limit \in {0, 1, MaxSources, MaxSources + 1} :
       RefuseQuery(question, limit)
  \/ \E limit \in 1 .. MaxSources : Retrieve(limit)
  \/ ProviderFails
  \/ \E answer \in GeneratedAnswers : Generate(answer)
  \/ Resolve
  \/ Reject
  \/ Show

Spec == Init /\ [][Next]_vars

-----------------------------------------------------------------------------
TypeOK ==
  /\ document \in Documents
  /\ stored \subseteq DOMAIN Parse(document)
  /\ stage \in {"asked", "refused", "prompted", "unusable", "failed", "generated",
                "rejected", "returned", "shown"}
  /\ Len(found) <= MaxSources
  /\ \A i \in DOMAIN found : found[i].index \in stored
  /\ generated = NoAnswer \/ generated.references \in References
  /\ result.status \in {"none", "insufficient_evidence", "answered"}
  /\ (result.status = "answered") = (result.sources # <<>>)
  /\ \A button \in buttons : button.at \in DOMAIN result.response

(* What a reader would call a cited text, read token by token: brackets    *)
(* that open and close in turn on one line, and what they hold.            *)
ReadToken(acc, token) ==
  CASE token = "[" -> [acc EXCEPT !.ok = @ /\ ~acc.open, !.open = TRUE, !.inside = <<>>]
    [] token = "]" -> [acc EXCEPT !.ok = @ /\ acc.open, !.open = FALSE,
                                  !.cited = @ \union {acc.inside}]
    [] token \notin {"[", "]"} /\ acc.open ->
         [acc EXCEPT !.ok = @ /\ token # "\n", !.inside = Append(@, token)]
    [] token \notin {"[", "]"} /\ ~acc.open -> acc

Reading(text) ==
  LET after[n \in 0 .. Len(text)] ==
        IF n = 0 THEN [ok |-> TRUE, open |-> FALSE, inside |-> <<>>, cited |-> {}]
        ELSE ReadToken(after[n - 1], text[n])
  IN after

Read(text) == Reading(text)[Len(text)]

Grounded(answer) ==
  LET read == Read(answer.answer)
  IN /\ answer.status = "answered"
     /\ read.ok /\ ~read.open
     /\ read.cited = {<<label>> : label \in Range(answer.references)}
     /\ read.cited # {}
     /\ read.cited \subseteq {<<label>> : label \in Known}

(* resolveAnswer's regular expression, maps and counts amount to what the  *)
(* prompt demands: it accepts exactly the answers whose brackets all hold  *)
(* a label of the context and which list just the labels they use.         *)
AcceptsExactlyGroundedAnswers ==
  /\ result.status = "answered" => Grounded(generated)
  /\ stage = "rejected" => ~Grounded(generated)

(* "The reports do not contain enough evidence" is said only when nothing  *)
(* was stored or the model said so: a failure, or an answer that breaks    *)
(* the rules, never passes for missing evidence.                           *)
InsufficientIsHonest ==
  result.status = "insufficient_evidence" =>
    \/ stored = {}
    \/ generated.status = "insufficient_evidence" /\ BlankText(generated.answer)

(* Every source returned holds a whole paragraph or list of the document:  *)
(* the lines written in it and in the children of its items and nothing    *)
(* else, in their order, with a blank between two lines of one child and   *)
(* between lines of two items.  (Two children of one item run together,    *)
(* and what is nested deeper is lost.)  The source stands under the        *)
(* heading that comes last before it and names its position among the      *)
(* sections; no section is quoted twice.                                   *)
SectionBlocks == {b \in DOMAIN document : document[b].kind \in {"paragraph", "list"}}
HeadingsBefore(b) == {h \in 1 .. b : document[h].kind = "heading"}

Items(block) ==
  IF block.kind = "list" THEN block.items
                         ELSE << <<[kind |-> "text", lines |-> block.lines]>> >>

(* The places of the lines: item, child of the item, line of the child.    *)
Places(items) ==
  UNION {UNION {{[item |-> n, child |-> c, line |-> l] : l \in DOMAIN OwnLines(items[n][c])} :
                  c \in DOMAIN items[n]} : n \in DOMAIN items}
LineAt(items, p) == OwnLines(items[p.item][p.child])[p.line]

Before(p, q) ==
  \/ p.item < q.item
  \/ p.item = q.item /\ p.child < q.child
  \/ p.item = q.item /\ p.child = q.child /\ p.line < q.line
BlankBetween(p, q) == p.item # q.item \/ p.child = q.child

HoldsLines(text, items) ==
  /\ Range(text) \ {Blank} = {LineAt(items, p) : p \in Places(items)}
  /\ \A p, q \in Places(items) :
       Before(p, q) =>
         \E i, j \in DOMAIN text :
           /\ i < j
           /\ text[i] = LineAt(items, p) /\ text[j] = LineAt(items, q)
           /\ BlankBetween(p, q) => \E k \in i + 1 .. j - 1 : text[k] = Blank

Quotes(source, b) ==
  /\ HoldsLines(source.text, Items(document[b]))
  /\ source.index = Cardinality(SectionBlocks \intersect 1 .. b)
  /\ IF HeadingsBefore(b) = {}
     THEN source.subheading = <<>>
     ELSE source.subheading = document[Max(HeadingsBefore(b))].lines

SourcesQuoteTheDocument ==
  /\ \A i \in DOMAIN result.sources : \E b \in SectionBlocks : Quotes(result.sources[i], b)
  /\ \A i, j \in DOMAIN result.sources :
       result.sources[i].index = result.sources[j].index => i = j

(* Every citation a reader sees in an answer is a button, and opens the    *)
(* section that stood under that label in the prompt.                      *)
CitationsOpenTheirSource ==
  stage = "shown" =>
    \A i \in DOMAIN result.response :
      result.response[i] = "[" =>
        \E button \in buttons, k \in DOMAIN found :
          /\ button.at = i
          /\ result.response[i + 1] = Labels[k]
          /\ button.opens = Source(k)

(* A section that was stored can be retrieved: no search ends because the  *)
(* persisted content is unusable.                                          *)
EverySectionRetrievable == stage # "unusable"
================================================================================
