------------------------------- MODULE ListItems -------------------------------
(***************************************************************************)
(* The list extractors of extractors.py: the items of the Skills,          *)
(* Languages and Certifications sections.  A line is a sequence of tokens: *)
(* parentheses, a separator ",", a hyphen "-", a category "label:", a lone *)
(* "number", or a word.                                                    *)
(***************************************************************************)
EXTENDS ResumeLines, Lists

CONSTANTS
  Tokens,          \* line -> its tokens
  Lower(_),        \* a token, in lower case
  Proficiencies    \* words for how well a language is spoken

\* A line is told as a text.
ASSUME TokensAreTexts == Tokens \in [Line -> Seq(STRING)]

Count(token, text) == Cardinality({q \in DOMAIN text : text[q] = token})

WithoutLabel(text) == IF text # <<>> /\ Head(text) = "label:" THEN Tail(text) ELSE text

\* The category labels are stripped first; blank lines and page numbers go.
CleanLines(body) ==
  LET texts == [j \in DOMAIN body |-> WithoutLabel(Tokens[body[j]])]
  IN  At(texts, {j \in DOMAIN texts : texts[j] \notin {<<>>, <<"number">>}})

\* Parentheses are counted, wherever they stand in the line.
LeavesOpen(text) == Count("(", text) > Count(")", text)

JoinNext(joined, text) ==
  IF joined # <<>> /\ LeavesOpen(Last(joined))
  THEN Append(Front(joined), Last(joined) \o text)
  ELSE Append(joined, text)

JoinDanglingParens(texts) ==
  LET joined[n \in 0..Len(texts)] ==
        IF n = 0 THEN <<>> ELSE JoinNext(joined[n - 1], texts[n])
  IN  joined[Len(texts)]

AddToken(state, token) == [state EXCEPT !.buf = Append(@, token)]

\* Seeded fault: a closing parenthesis with no opening one is counted too.
SplitStep_Unclamped(state, token) ==
  CASE token = "(" -> [AddToken(state, token) EXCEPT !.depth = @ + 1]
    [] token = ")" -> [AddToken(state, token) EXCEPT !.depth = @ - 1]
    [] token = "," /\ state.depth = 0 ->
         [state EXCEPT !.parts = Append(@, state.buf), !.buf = <<>>]
    [] OTHER -> AddToken(state, token)

SplitStep(state, token) ==
  CASE token = "(" -> [AddToken(state, token) EXCEPT !.depth = @ + 1]
    [] token = ")" -> [AddToken(state, token) EXCEPT !.depth = IF @ = 0 THEN 0 ELSE @ - 1]
    [] token = "," /\ state.depth = 0 ->
         [state EXCEPT !.parts = Append(@, state.buf), !.buf = <<>>]
    [] OTHER -> AddToken(state, token)

SplitRespectingParens(text) ==
  LET state[n \in 0..Len(text)] ==
        IF n = 0 THEN [parts |-> <<>>, buf |-> <<>>, depth |-> 0]
        ELSE SplitStep(state[n - 1], text[n])
  IN  Append(state[Len(text)].parts, state[Len(text)].buf)

\* item.strip: hyphens at either end.
Strip(text) ==
  LET kept == {q \in DOMAIN text : text[q] # "-"}
  IN  IF kept = {} THEN <<>>
      ELSE SubSeq(text, CHOOSE q \in kept : \A r \in kept : q <= r,
                        CHOOSE q \in kept : \A r \in kept : q >= r)

ItemKey(item) == [q \in DOMAIN item |-> Lower(item[q])]

\* Blank items go, and those that repeat an earlier one but for case.
KeepNew(kept, item) ==
  IF item = <<>> \/ \E q \in DOMAIN kept : ItemKey(kept[q]) = ItemKey(item)
  THEN kept ELSE Append(kept, item)

Distinct(items) ==
  LET kept[n \in 0..Len(items)] == IF n = 0 THEN <<>> ELSE KeepNew(kept[n - 1], items[n])
  IN  kept[Len(items)]

ListItems(body) ==
  LET texts == JoinDanglingParens(CleanLines(body))
      parts == FlattenSeq([j \in DOMAIN texts |-> SplitRespectingParens(texts[j])])
  IN  Distinct([j \in DOMAIN parts |-> Strip(parts[j])])

\* A trailing "(Native)", "(Native" or "- Native".
WithoutProficiency(item) ==
  LET n == Len(item)
      open == IF n > 0 /\ item[n] = ")" THEN n - 2 ELSE n - 1
  IN  IF open >= 1 /\ item[open] \in {"(", "-"} /\ Lower(item[open + 1]) \in Proficiencies
      THEN SubSeq(item, 1, open - 1) ELSE item

\* Seeded fault: what repeats after the markers are gone is kept.
Languages_Repeating(body) ==
  LET items == ListItems(body)
      spoken == [j \in DOMAIN items |-> WithoutProficiency(items[j])]
  IN  At(spoken, {j \in DOMAIN spoken : spoken[j] # <<>>})

Languages(body) ==
  LET items == ListItems(body)
  IN  Distinct([j \in DOMAIN items |-> WithoutProficiency(items[j])])

-----------------------------------------------------------------------------
(* What a list section says, told from the positions of its tokens.        *)

\* Position p stands inside a parenthesis that an earlier one opened and none
\* between has closed.
Inside(text, p) == \E q \in 1..(p - 1) : \A r \in q..(p - 1) : LeavesOpen(SubSeq(text, q, r))
Separates(text, p) == text[p] = "," /\ ~Inside(text, p)

\* Where the text is cut: before its start, at the separators that count, and
\* after its end.
CutsOf(text) ==
  At([n \in 1..(Len(text) + 2) |-> n - 1],
     {n \in 1..(Len(text) + 2) : n - 1 \in DOMAIN text => Separates(text, n - 1)})

\* The parts between the cuts, blank ones included.
PartsOf(text) ==
  LET cuts == CutsOf(text)
  IN  [j \in 1..(Len(cuts) - 1) |-> SubSeq(text, cuts[j] + 1, cuts[j + 1] - 1)]

\* Where an item stands that is not blank and has not stood before.
NewItems(items) ==
  {j \in DOMAIN items : /\ items[j] # <<>>
                        /\ \A h \in 1..(j - 1) : ItemKey(items[h]) # ItemKey(items[j])}

\* The items are the parts of the joined lines, first come first kept; a line is
\* joined to the one before that left a parenthesis open.
TellsItems(items, body) ==
  LET texts == JoinDanglingParens(CleanLines(body))
      parts == FlattenSeq([j \in DOMAIN texts |-> PartsOf(texts[j])])
      stripped == [j \in DOMAIN parts |-> Strip(parts[j])]
  IN  /\ FlattenSeq(texts) = FlattenSeq(CleanLines(body))
      /\ \A j \in 1..(Len(texts) - 1) : ~LeavesOpen(texts[j])
      /\ items = At(stripped, NewItems(stripped))

DistinctItems(items) ==
  \A a, b \in DOMAIN items : a # b => ItemKey(items[a]) # ItemKey(items[b])
=============================================================================
