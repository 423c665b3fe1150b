--------------------------- MODULE TelegramSplit ---------------------------
(***************************************************************************)
(* How a reply is cut into messages that Telegram accepts: the parsed      *)
(* document is rendered, blocks that are too long are split by their kind, *)
(* and neighbouring parts are put together again while they fit.           *)
(*                                                                         *)
(* A character is <<kind, value>>; only its width, the length of its UTF-8 *)
(* form and whether it is content, blank, a mark or an item's number       *)
(* matter.  A document is a sequence of blocks, an inline wrapper (strong, *)
(* emphasis, a web link) adds no text.                                     *)
(***************************************************************************)
EXTENDS Naturals, Sequences, FiniteSets, SequencesExt, FiniteSetsExt

CONSTANTS
    Docs,   \* documents: parsed, never empty
    Limits  \* message lengths

VARIABLES
    doc, max,
    done,    \* the split was made
    chunks   \* its documents, or Nil

vars == <<doc, max, done, chunks>>

\* The None of the split functions: a split that succeeds has a part.
Nil == <<>>
Nl == <<"nl", 0>>
Sp == <<"sp", 0>>
Ch(n) == <<"ch", n>>
Wide(n) == <<"wide", n>>
Mark == <<"mark", 0>>
Num(n) == <<"num", n>>

Para(c) == [t |-> "para", c |-> c]
Quote(c) == [t |-> "quote", c |-> c]
List(start, c) == [t |-> "list", start |-> start, c |-> c]
Code(s) == [t |-> "code", s |-> s]
Table(s) == [t |-> "table", s |-> s]
Rule == [t |-> "rule"]
Text(s) == [t |-> "text", s |-> s]
Wrap(c) == [t |-> "wrap", c |-> c]

-----------------------------------------------------------------------------
(* Rendering: [out, brk] is the text so far and need_paragraph_break.      *)

Width(c) == CASE c[1] = "wide" -> 2 [] c[1] = "num" -> IF c[2] < 10 THEN 3 ELSE 4 [] OTHER -> 1
Bytes(c) == CASE c[1] = "wide" -> 4 [] OTHER -> 1

\* telegram_text_len: UTF-16 units.
TextLen(s) == FoldLeft(LAMBDA n, c : n + Width(c), 0, s)

Ends(s, c) == s # <<>> /\ Last(s) = c

\* ensure_block_break_text
BlockBreak(s, brk) ==
    CASE s = <<>> -> s
      [] brk /\ Ends(s, Nl) -> IF Len(s) > 1 /\ s[Len(s) - 1] = Nl THEN s ELSE Append(s, Nl)
      [] brk /\ ~Ends(s, Nl) -> s \o <<Nl, Nl>>
      [] ~brk -> IF Ends(s, Nl) THEN s ELSE Append(s, Nl)

\* maybe_render_nested_quote_prefix: "> " for every level but the first.
Prefix(s, depth) == IF depth > 1 /\ (s = <<>> \/ Ends(s, Nl)) THEN s \o [i \in 1..(2 * (depth - 1)) |-> Mark] ELSE s

\* Text is rendered line by line, each with its prefix.
PutText(s, text, depth) == FoldLeft(LAMBDA o, c : Append(Prefix(o, depth), c), s, text)

RECURSIVE Inlines(_, _, _)
Inlines(c, s, depth) ==
    IF c = <<>> THEN s
    ELSE LET h == Head(c)
             o == CASE h.t = "text" -> PutText(s, h.s, depth)
                    [] h.t = "wrap" -> Inlines(h.c, s, depth)
         IN Inlines(Tail(c), o, depth)

RECURSIVE Render(_, _, _, _), ItemLines(_, _, _, _)
RenderBlock(b, at, in, depth) ==
    CASE b.t = "para" -> Inlines(b.c, in, depth)
      [] b.t = "quote" -> Render(b.c, at, FALSE, depth + 1)
      [] b.t = "list" -> ItemLines(b.c, b.start, in, depth)
      [] b.t \in {"code", "table"} -> in \o b.s
      [] b.t = "rule" -> in \o <<Mark, Mark>>
AfterBreak(b, at, depth) == RenderBlock(b, at, Prefix(at, depth), depth)
Render(blocks, s, brk, depth) ==
    IF blocks = <<>> THEN s
    ELSE Render(Tail(blocks), AfterBreak(Head(blocks), BlockBreak(s, brk), depth), TRUE, depth)

\* The first block of an item follows its mark; the others are blocks again.
FirstBlock(b, in, depth) ==
    CASE b.t = "para" -> Inlines(b.c, in, depth)
      [] b.t \in {"code", "table"} -> Prefix(Append(in, Nl), depth) \o b.s
      [] b.t = "rule" -> in \o <<Mark, Mark>>
      [] b.t = "quote" -> Render(b.c, in, FALSE, depth + 1)
      [] b.t = "list" -> ItemLines(b.c, b.start, Append(in, Nl), depth)
Marked(s, start, depth) == Prefix(s, depth) \o (IF start = 0 THEN <<Mark, Sp>> ELSE <<Num(start)>>)
Item(item, start, s, depth) == Render(Tail(item), FirstBlock(Head(item), Marked(s, start, depth), depth), TRUE, depth)
NextLine(o, more) == IF more /\ ~Ends(o, Nl) THEN Append(o, Nl) ELSE o
ItemLines(items, start, s, depth) ==
    IF items = <<>> THEN s
    ELSE ItemLines(Tail(items), IF start = 0 THEN 0 ELSE start + 1,
                   NextLine(Item(Head(items), start, s, depth), Tail(items) # <<>>), depth)

Rendered(blocks) == Render(blocks, <<>>, FALSE, 0)

\* rendered_length_for_blocks
Length(blocks) == TextLen(Rendered(blocks))

-----------------------------------------------------------------------------
(* Splitting.                                                              *)

\* rendered_length_for_inline_block and its like, on a part of a leaf.
Fits(kind, s, m) == Length(<<IF kind = "code" THEN Code(s) ELSE Para(<<Text(s)>>)>>) <= m

\* The longest prefix that fits; the code finds it by bisection, which is
\* the same because a longer text is never shorter when rendered.
Longest(kind, s, m) == Max({0} \cup {n \in 1..Len(s) : Fits(kind, SubSeq(s, 1, n), m)})

Needles == << <<Nl, Nl>>, <<Nl>>, <<Sp>> >>
After(s, needle) == {i \in Len(needle)..Len(s) : SubSeq(s, i - Len(needle) + 1, i) = needle}
ByteIndex(s, i) == FoldLeft(LAMBDA n, c : n + Bytes(c), 0, SubSeq(s, 1, i))

\* prefer_split_boundary_with_measure: after the last of the first needle
\* whose byte index is large enough.
Good(kind, s, i, min, m) == ByteIndex(s, i) >= min /\ Fits(kind, SubSeq(s, 1, i), m)
AfterFirst(s, good) == IF good = {} THEN Len(s) ELSE Max(After(s, Needles[Min(good)]))
Boundary(kind, s, min, m) ==
    AfterFirst(s, {k \in 1..3 : After(s, Needles[k]) # {} /\ Good(kind, s, Max(After(s, Needles[k])), min, m)})

\* split_text_to_fit
RECURSIVE SplitText(_, _, _)
Before(first, rest) == IF rest = Nil THEN Nil ELSE <<first>> \o rest
CutAt(kind, s, end, m) == Before(SubSeq(s, 1, end), SplitText(kind, SubSeq(s, end + 1, Len(s)), m))
CutBest(kind, s, best, m) ==
    CASE best = Len(s) -> <<s>>
      [] best # Len(s) /\ best = 0 -> Nil
      [] OTHER -> CutAt(kind, s, Boundary(kind, SubSeq(s, 1, best), best \div 2, m), m)
SplitText(kind, s, m) == CutBest(kind, s, Longest(kind, s, m), m)

\* The common shape of the split functions: parts are added to the current
\* chunk while it fits; a part that fits nowhere ends the split.
Closed(end) == IF end.ok THEN Append(end.out, end.cur) ELSE Nil
PackParts(parts, Ok(_)) ==
    LET Step(st, part) ==
            IF Ok(st.cur \o part) THEN [st EXCEPT !.cur = @ \o part]
            ELSE [out |-> IF st.cur = <<>> THEN st.out ELSE Append(st.out, st.cur), cur |-> part, ok |-> st.ok /\ Ok(part)]
    IN Closed(FoldLeft(Step, [out |-> <<>>, cur |-> <<>>, ok |-> TRUE], parts))

\* All of the parts of the members of a sequence, or Nil.
Gather(seqs) == IF Nil \in ToSet(seqs) THEN Nil ELSE FlattenSeq(seqs)

Singles(parts) == [i \in DOMAIN parts |-> <<parts[i]>>]
Texts(parts) == [i \in DOMAIN parts |-> Text(parts[i])]
Wraps(parts) == [i \in DOMAIN parts |-> Wrap(parts[i])]
Paras(parts) == [i \in DOMAIN parts |-> <<Para(parts[i])>>]
Codes(parts) == [i \in DOMAIN parts |-> <<Code(parts[i])>>]
Quotes(parts) == [i \in DOMAIN parts |-> <<Quote(parts[i])>>]

FitsInlines(c, m) == Length(<<Para(c)>>) <= m

\* split_inline_to_fit, split_wrapped_inline_to_fit, split_child_for_wrapped_chunk
RECURSIVE SplitInline(_, _)
PackWrapped(parts, m) == IF parts = Nil THEN Nil ELSE PackParts(Singles(parts), LAMBDA c : FitsInlines(<<Wrap(c)>>, m))
SplitInline(h, m) ==
    IF FitsInlines(<<h>>, m) THEN <<h>>
    ELSE CASE h.t = "text" -> Texts(SplitText("text", h.s, m))
           [] h.t = "wrap" -> Wraps(PackWrapped(Gather([i \in DOMAIN h.c |-> SplitInline(h.c[i], m)]), m))

\* split_inline_block_to_fit
PackInlines(parts, m) == IF parts = Nil THEN Nil ELSE PackParts(Singles(parts), LAMBDA x : FitsInlines(x, m))
SplitInlines(c, m) == Paras(PackInlines(Gather([i \in DOMAIN c |-> SplitInline(c[i], m)]), m))

\* split_code_block_to_fit
SplitCode(s, m) == Codes(SplitText("code", s, m))

RestartNumbers(start, items, m) ==
    LET packed == PackParts(Singles(items), LAMBDA x : Length(<<List(start, x)>>) <= m)
    IN [i \in DOMAIN packed |-> <<List(start, packed[i])>>]

\* The second half of split_list_block_to_fit: a new chunk continues the
\* numbers.
ClosedList(end) == IF end.ok THEN Append(end.out, <<List(end.start, end.cur)>>) ELSE Nil
PackItems(start, items, m) ==
    LET Cont(st) == IF start = 0 THEN 0 ELSE st.start + Len(st.cur)
        Step(st, item) ==
            IF Length(<<List(st.start, Append(st.cur, item))>>) <= m THEN [st EXCEPT !.cur = Append(@, item)]
            ELSE [out |-> IF st.cur = <<>> THEN st.out ELSE Append(st.out, <<List(st.start, st.cur)>>),
                  cur |-> <<item>>, start |-> Cont(st),
                  ok |-> st.ok /\ Length(<<List(Cont(st), <<item>>)>>) <= m]
    IN ClosedList(FoldLeft(Step, [out |-> <<>>, cur |-> <<>>, start |-> start, ok |-> TRUE], items))

RECURSIVE SplitBlocks(_, _), SplitBlock(_, _)
\* split_blocks_to_fit
PackBlocks(parts, m) == IF parts = Nil THEN Nil ELSE PackParts(parts, LAMBDA x : Length(x) <= m)
SplitBlocks(blocks, m) == PackBlocks(Gather([i \in DOMAIN blocks |-> SplitBlock(blocks[i], m)]), m)

\* An item that is too long becomes several items.
FitsItem(start, item, m) == Length(<<List(start, <<item>>)>>) <= m
AllFit(start, c, m) == IF \A j \in DOMAIN c : FitsItem(start, c[j], m) THEN c ELSE Nil
Normalized(start, items, m) ==
    Gather([i \in DOMAIN items |->
        IF FitsItem(start, items[i], m) THEN <<items[i]>> ELSE AllFit(start, SplitBlocks(items[i], m), m)])

PackNormal(start, items, m) == IF items = Nil THEN Nil ELSE PackItems(start, items, m)

\* split_block_to_fit
SplitBlock(b, m) ==
    IF Length(<<b>>) <= m THEN <<<<b>>>>
    ELSE CASE b.t = "para" -> SplitInlines(b.c, m)
           [] b.t = "quote" -> Quotes(SplitBlocks(b.c, m))
           [] b.t = "list" -> PackNormal(b.start, Normalized(b.start, b.c, m), m)
           [] b.t = "code" -> SplitCode(b.s, m)
           [] b.t = "table" -> Nil
           [] b.t = "rule" -> <<<<Rule>>>>

\* split_markdown_for_telegram_documents, up to the cut of the source text
\* that it falls back to (Nil).
SplitDocument(d, m) == IF Length(d) <= m THEN <<d>> ELSE SplitBlocks(d, m)

-----------------------------------------------------------------------------

Init == doc \in Docs /\ max \in Limits /\ done = FALSE /\ chunks = Nil

Split ==
    /\ ~done
    /\ done' = TRUE
    /\ chunks' = SplitDocument(doc, max)
    /\ UNCHANGED <<doc, max>>

Next == Split

Spec == Init /\ [][Next]_vars

-----------------------------------------------------------------------------
(* Properties.                                                             *)

Done == done /\ chunks # Nil
Whole == FlattenSeq([i \in DOMAIN chunks |-> Rendered(chunks[i])])
Content(s) == SelectSeq(s, LAMBDA c : c[1] \in {"ch", "wide"})
Numbers(s) == SelectSeq(s, LAMBDA c : c[1] = "num")

\* Every message of a document that was split fits, whatever the marks,
\* numbers and breaks that rendering adds.
ChunksFit == Done => \A i \in DOMAIN chunks : Length(chunks[i]) <= max /\ chunks[i] # <<>>

\* The messages hold the document's content, all of it, once and in order.
ContentKept == Done => Content(Whole) = Content(Rendered(doc))

\* The items of a numbered list that is cut into messages keep counting.
NumbersContinue ==
    Done /\ Len(doc) = 1 => LET ns == Numbers(Whole) IN \A i \in 1..(Len(ns) - 1) : ns[i + 1][2] = ns[i][2] + 1

RECURSIVE HasTable(_)
HasTable(blocks) ==
    \E i \in DOMAIN blocks :
        CASE blocks[i].t = "table" -> TRUE
          [] blocks[i].t = "quote" -> HasTable(blocks[i].c)
          [] blocks[i].t = "list" -> \E j \in DOMAIN blocks[i].c : HasTable(blocks[i].c[j])
          [] OTHER -> FALSE

\* Paragraphs, code and rules are always split: only for a table, or a mark
\* that leaves no room in an item or a nested quote, the source text is cut.
FlatSplits == done /\ chunks = Nil => HasTable(doc) \/ \E i \in DOMAIN doc : doc[i].t \in {"quote", "list"}

=============================================================================
