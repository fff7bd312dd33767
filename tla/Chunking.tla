------------------------------- MODULE Chunking -------------------------------
(***************************************************************************)
(* From an uploaded file to its chunks: the type detection and the parser  *)
(* process of ParserRouter, the plain text, Markdown and code parsers, and *)
(* the chunkers behind ChunkerRegistry.  A file is a sequence of kinds of  *)
(* lines; a unit and a chunk name the lines whose text they hold.          *)
(***************************************************************************)
EXTENDS Listing, SequencesExt, FiniteSetsExt

CONSTANTS Claims,        \* what is known of a file before it is parsed
          LineKinds,     \* the kinds of lines of each type of file
          LineCost,      \* tokens of a line of each kind
          ChunkMaxTokens, OverlapTokens, ParentMaxTokens,
          MaxOutput,     \* MAX_PARSED_TEXT_CHARS, in tokens
          MaxLines       \* bound: lines of a file of each type

ASSUME ChunkingAssumption ==
    /\ DOMAIN LineKinds = {"plain_text", "markdown", "code", "plsql"}
    /\ \A t \in DOMAIN LineKinds : LineKinds[t] \subseteq DOMAIN LineCost
    /\ \A k \in DOMAIN LineCost : LineCost[k] \in Nat
    /\ MaxLines \in [DOMAIN LineKinds -> Nat]
    /\ {ChunkMaxTokens, OverlapTokens, ParentMaxTokens, MaxOutput} \subseteq Nat

\* type: the detected source type.  stage: where the file is on its way.
\* text: its lines.  units: the parsed source.  chunks: the candidates in order.
VARIABLES type, stage, text, units, chunks
chunkVars == <<type, stage, text, units, chunks>>

ChunkInit ==
    type = "none" /\ stage = "absent" /\ text = <<>> /\ units = <<>> /\ chunks = <<>>

-----------------------------------------------------------------------------
(* detect_source_type: content wins over claims, claims that differ are not *)
(* trusted.                                                                 *)

ByClaims(c) ==
    CASE ~c.named /\ c.mime = "none" /\ c.readable -> "plain_text"
      [] c.ext # "none" /\ c.mime # "none" /\ c.ext # c.mime -> "ambiguous"
      [] OTHER -> IF c.mime # "none" THEN c.mime ELSE c.ext

Detect(c) ==
    CASE c.magic \notin {"none", "zip"} -> c.magic
      [] c.magic = "zip" /\ c.package -> "docx"
      [] c.magic = "zip" /\ ~c.package /\ "docx" \in {c.ext, c.mime} -> "ambiguous"
      [] OTHER -> ByClaims(c)

-----------------------------------------------------------------------------
(* Lines, units and parsers.                                               *)

Lines == 1 .. Len(text)
Blank(i) == text[i] = "blank"
AllBlank(ls) == \A i \in ls : Blank(i)
Toks(ls) == SumOver([i \in Lines |-> LineCost[text[i]]], ls)

\* The first line from i on that is not in ls, or the end.
RunEnd(i, ls) == Min((i .. Len(text) + 1) \ (ls \cap Lines))

HeadingDepth(k) == CASE k \in {"h1", "h1b"} -> 1 [] k = "h2" -> 2 [] OTHER -> 0
Unit(kind, ls, a, b) == [kind |-> kind, lines |-> ls, first |-> a, last |-> b]

\* _split_blocks, _line_blocks: the runs of lines between blank ones.
BlankBlocks(ls) ==
    LET starts == {i \in ls : ~Blank(i) /\ (i - 1 \notin ls \/ Blank(i - 1))}
    IN  [n \in 1 .. Cardinality(starts) |->
           LET i == Ascending(starts)[n] IN i .. RunEnd(i, {j \in ls : ~Blank(j)}) - 1]

\* PlainTextParser: paragraphs between blank lines.
PlainUnits ==
    LET blocks == BlankBlocks(Lines)
    IN  [n \in DOMAIN blocks |-> Unit("text", blocks[n], Min(blocks[n]), Max(blocks[n]))]

\* _is_table_separator: it also takes a line with empty cells, "loose" here.
Separates(i) == text[i] \in {"sep", "loose"}

\* The block of MarkdownParser.parse that begins at a line.  A fence that is never
\* closed ends one line after the file; a table runs to a blank line, heading or
\* fence, a paragraph also to a list item.
MarkdownBlock(i) ==
    LET k == text[i]
        ended(j) == Blank(j) \/ HeadingDepth(text[j]) > 0 \/ text[j] = "fence" IN
    CASE HeadingDepth(k) > 0 -> Unit("heading", {i}, i, i)
      [] k = "fence" ->
           LET e == RunEnd(i + 1, {j \in Lines : text[j] # "fence"})
           IN  Unit("code", i + 1 .. e - 1, i, e)
      [] k = "row" /\ i < Len(text) /\ Separates(i + 1) ->
           LET e == RunEnd(i + 1, {j \in Lines : ~ended(j)})
           IN  Unit("table", i .. e - 1, i, e - 1)
      [] k = "item" -> Unit("text", {i}, i, i)
      [] OTHER ->
           LET e == RunEnd(i, {j \in Lines : ~ended(j) /\ text[j] # "item"})
           IN  Unit("text", i .. e - 1, i, e - 1)

\* A heading of depth d keeps at most d - 1 entries of the headings above it.
Below(path, u) ==
    IF u.kind # "heading" THEN path
    ELSE LET k == text[u.first] IN
         Append(SubSeq(path, 1, Min({Len(path), HeadingDepth(k) - 1})), k)

\* The headings above each unit.
HeadingPaths(us) ==
    LET path[n \in 0 .. Len(us)] == IF n = 0 THEN <<>> ELSE Below(path[n - 1], us[n])
    IN  path

\* One round of the loop over the lines.
NextBlock(st) ==
    IF st.at > Len(text) THEN st
    ELSE IF Blank(st.at) THEN [st EXCEPT !.at = @ + 1]
    ELSE LET b == MarkdownBlock(st.at) IN [at |-> b.last + 1, out |-> Append(st.out, b)]

MarkdownUnits ==
    LET read[n \in 0 .. Len(text)] ==
          IF n = 0 THEN [at |-> 1, out |-> <<>>] ELSE NextBlock(read[n - 1])
    IN  read[Len(text)].out

\* strip_plsql_lines: a line inside a string is empty, a line with one quote opens
\* or closes a string.
InString(i) == Cardinality({j \in 1 .. i - 1 : text[j] = "quote"}) % 2 = 1

\* Mutant: keywords are looked for in the text as it stands.
Unstripped(i) == text[i]
Cleaned(i) == IF InString(i) /\ text[i] # "quote" THEN "blank" ELSE text[i]

\* CodeParser: the whole file, and a symbol from each declaration to the next.
ObjectStarts == {i \in Lines : Cleaned(i) \in {"spec", "body"}}
Declarations == IF type = "plsql" THEN ObjectStarts ELSE {i \in Lines : text[i] = "def"}
CodeUnits ==
    <<Unit("code", Lines, 1, Len(text))>> \o
    [n \in 1 .. Cardinality(Declarations) |->
       LET i == Ascending(Declarations)[n]
           e == RunEnd(i + 1, Lines \ Declarations) - 1
       IN  Unit("symbol", i .. e, i, e)]

ParsedUnits ==
    CASE type = "plain_text" -> PlainUnits
      [] type = "markdown" -> MarkdownUnits
      [] OTHER -> CodeUnits

-----------------------------------------------------------------------------
(* Chunkers.                                                               *)

\* of: the lines of the oversized symbol this is a piece of, or {}.
Chunk(ls, a, b, path, of) ==
    [lines |-> ls, first |-> a, last |-> b, path |-> path, of |-> of, children |-> {}]
LinesOf(us, I) == UNION {us[n].lines : n \in I}

\* merge_locators: the range from the first to the last line of the units at I.
MakeDocChunk(us, I) ==
    Chunk(LinesOf(us, I), Min({us[n].first : n \in I}), Max({us[n].last : n \in I}),
          us[Min(I)].path, {})

\* The longest tail of the units from .. n - 1 within the overlap budget begins here.
OverlapTail(us, from, n) ==
    Min({k \in from .. n : Toks(LinesOf(us, k .. n - 1)) <= OverlapTokens})

\* One round of DocumentChunker._chunk_units: the buffer holds the units from .. n - 1.
AddUnit(us, st, n) ==
    LET buffer == st.from .. n - 1
        section == buffer # {} /\ us[n].path # <<>> /\ us[n].path # us[st.from].path
        full == buffer # {} /\ Toks(LinesOf(us, st.from .. n)) > ChunkMaxTokens
    IN  IF ~section /\ ~full THEN st
        ELSE [out |-> Append(st.out, buffer),
              from |-> IF section THEN n ELSE OverlapTail(us, st.from, n)]

\* DocumentChunker._chunk_units on units that stand under their headings.
DocChunks(us) ==
    LET read[n \in 0 .. Len(us)] ==
          IF n = 0 THEN [out |-> <<>>, from |-> 1] ELSE AddUnit(us, read[n - 1], n)
        end == read[Len(us)]
        ranges == Append(end.out, end.from .. Len(us))
    IN  [m \in DOMAIN ranges |-> MakeDocChunk(us, ranges[m])]

\* The loop of the table, code and PL/SQL chunkers: consecutive blocks within the budget,
\* at least one to a piece, and every piece on top of the base.
AddBlock(base, st, b) ==
    IF st.now # base /\ Toks(st.now) + Toks(b) > ChunkMaxTokens
    THEN [out |-> Append(st.out, st.now), now |-> base \cup b]
    ELSE [st EXCEPT !.now = @ \cup b]
Greedy(base, blocks) ==
    LET read[n \in 0 .. Len(blocks)] ==
          IF n = 0 THEN [out |-> <<>>, now |-> base] ELSE AddBlock(base, read[n - 1], blocks[n])
        end == read[Len(blocks)]
    IN  IF end.now = {} THEN end.out ELSE Append(end.out, end.now)

\* The rows that every piece of a table repeats: its header and, when
\* _looks_like_separator takes it for one, the separator.  It refuses empty cells.
HeaderOf(u) == IF text[u.first + 1] = "sep" THEN {u.first, u.first + 1} ELSE {u.first}

\* TableChunker._group_rows.
TableChunks(u) ==
    LET rows == Ascending(u.lines \ HeaderOf(u))
        g == Greedy(HeaderOf(u), [n \in DOMAIN rows |-> {rows[n]}])
    IN  [n \in DOMAIN g |-> Chunk(g[n], u.first, u.last, u.path, {})]

\* The code of a fenced block is the text between the marks; when that is empty (a
\* blank line is), it is the block with its marks.
FencedCode(u) ==
    IF Cardinality(u.lines) <= 1 /\ AllBlank(u.lines) THEN (u.first .. u.last) \cap Lines
    ELSE u.lines

\* CodeChunker.chunk, a fenced block: every piece has the locator of the block.
FenceChunks(u) ==
    LET piece(ls) == Chunk(ls, u.first, u.last, u.path, {})
        code == FencedCode(u) IN
    IF AllBlank(code) THEN <<>>
    ELSE IF Toks(code) <= ChunkMaxTokens THEN <<piece(code)>>
    ELSE LET g == Greedy({}, BlankBlocks(code)) IN [n \in DOMAIN g |-> piece(g[n])]

\* _containing_symbol: the first symbol that overlaps the cited lines.
ContainingSymbol(a, b) ==
    LET over == {n \in DOMAIN units : units[n].kind = "symbol"
                                      /\ units[n].first <= b /\ units[n].last >= a}
    IN  IF over = {} THEN <<>> ELSE <<units[Min(over)].first>>

\* CodeChunker._chunk_generic_source: the locator counts the lines of the piece,
\* not the blank ones left out between its blocks.
GenericChunks ==
    LET g == Greedy({}, BlankBlocks(Lines))
        piece(ls, b) == Chunk(ls, Min(ls), b, ContainingSymbol(Min(ls), b), {}) IN
    IF Toks(Lines) <= ChunkMaxTokens THEN <<piece(Lines, Len(text))>>
    ELSE [n \in DOMAIN g |-> piece(g[n], Min(g[n]) + Cardinality(g[n]) - 1)]

\* _chunk_plsql, _expand_object: CREATE begins an object, and inside a package
\* body so does a subprogram.
BodyAt(i) == \E o \in ObjectStarts : o < i /\ text[o] = "body" /\ \A p \in ObjectStarts : p <= o \/ p >= i
SymbolStarts == ObjectStarts \cup {i \in Lines : Cleaned(i) = "sub" /\ BodyAt(i)}
Intervals(cuts, last) ==
    LET s == Ascending(cuts)
    IN  [n \in DOMAIN s |-> s[n] .. (IF n < Len(s) THEN s[n + 1] - 1 ELSE last)]

\* _split_oversized: the symbol itself, and its pieces cut at inner blocks.
SymbolChunks(ls) ==
    LET points == {Min(ls)} \cup {i \in ls : Cleaned(i) \in {"blank", "begin"}}
        g == Greedy({}, Intervals(points, Max(ls)))
        chunk(x, of) == Chunk(x, Min(x), Max(x), <<Min(ls)>>, of)
    IN  IF Toks(ls) <= ChunkMaxTokens THEN <<chunk(ls, {})>>
        ELSE <<chunk(ls, {})>> \o [n \in DOMAIN g |-> chunk(g[n], ls)]

PlSqlChunks ==
    LET all == Intervals({1} \cup SymbolStarts, Len(text))
        segments == Picked(all, {n \in DOMAIN all : ~AllBlank(all[n])})
    IN  FlattenSeq([n \in DOMAIN segments |-> SymbolChunks(segments[n])])

\* ChunkerRegistry._segments: neighbouring text units are chunked together, a
\* heading between them is skipped.
Segments(us) ==
    LET kept == Picked(us, {n \in DOMAIN us : us[n].kind # "heading"})
        cuts == {n \in DOMAIN kept : n = 1 \/ kept[n].kind # "text" \/ kept[n - 1].kind # "text"}
        runs == Intervals(cuts, Len(kept))
    IN  [m \in DOMAIN runs |-> SubSeq(kept, Min(runs[m]), Max(runs[m]))]

\* Each unit under the headings read before it.
Under(u, path) ==
    [kind |-> u.kind, lines |-> u.lines, first |-> u.first, last |-> u.last, path |-> path]
Placed(us) == [n \in DOMAIN us |-> Under(us[n], HeadingPaths(us)[n])]

SegmentChunks(seg) ==
    CASE seg[1].kind = "text" -> DocChunks(seg)
      [] seg[1].kind = "table" -> TableChunks(seg[1])
      [] OTHER -> FenceChunks(seg[1])

\* _attach_parents: neighbours of one section within the parent budget.
ChildToks(cs, I) == SumOver([n \in DOMAIN cs |-> Toks(cs[n].lines)], I)
AddChild(cs, st, n) ==
    LET bucket == st.from .. n - 1 IN
    IF bucket # {} /\ (cs[n].path # cs[n - 1].path \/ ChildToks(cs, st.from .. n) > ParentMaxTokens)
    THEN [out |-> Append(st.out, bucket), from |-> n] ELSE st
ChildBuckets(cs) ==
    LET read[n \in 0 .. Len(cs)] ==
          IF n = 0 THEN [out |-> <<>>, from |-> 1] ELSE AddChild(cs, read[n - 1], n)
    IN  IF cs = <<>> THEN <<>> ELSE Append(read[Len(cs)].out, read[Len(cs)].from .. Len(cs))
Parents(cs) ==
    LET over(b, f) == {cs[n][f] : n \in b}
        parent(b) == [lines |-> UNION over(b, "lines"), first |-> Min(over(b, "first")),
                      last |-> Max(over(b, "last")), path |-> cs[Min(b)].path,
                      of |-> {}, children |-> b]
    IN  [m \in DOMAIN ChildBuckets(cs) |-> parent(ChildBuckets(cs)[m])]

DocumentChunks ==
    LET segs == Segments(Placed(units))
        cs == FlattenSeq([n \in DOMAIN segs |-> SegmentChunks(segs[n])])
    IN  cs \o Parents(cs)

-----------------------------------------------------------------------------
(* The way of a file.                                                      *)

Arrive(c) ==
    /\ stage = "absent"
    /\ LET t == Detect(c) IN
       /\ type' = IF t = "code" /\ c.plsql THEN "plsql" ELSE t
       /\ stage' = CASE t \in {"ambiguous", "none"} -> "refused"
                     [] t \in DOMAIN LineKinds -> "file"
                     [] OTHER -> "elsewhere"
    /\ UNCHANGED <<text, units, chunks>>

WriteLine(k) ==
    /\ stage = "file" /\ Len(text) < MaxLines[type]
    /\ text' = Append(text, k)
    /\ UNCHANGED <<type, stage, units, chunks>>

\* ParserRouter.parse: the parser runs in a process of its own.
StartParser ==
    /\ stage = "file" /\ text # <<>>
    /\ stage' = "parsing"
    /\ UNCHANGED <<type, text, units, chunks>>

\* The text of every unit counts, that of a symbol twice.
OutputSize(us) == SumOver([n \in DOMAIN us |-> Toks(us[n].lines)], DOMAIN us)
ParserAnswers ==
    /\ stage = "parsing" /\ OutputSize(ParsedUnits) <= MaxOutput
    /\ units' = ParsedUnits
    /\ stage' = "parsed"
    /\ UNCHANGED <<type, text, chunks>>

\* Timeout, an error in the process, or more output than allowed.
ParserFails ==
    /\ stage = "parsing"
    /\ stage' = "refused" /\ text' = <<>>
    /\ UNCHANGED <<type, units, chunks>>

\* ChunkerRegistry.chunk.
SourceChunks ==
    CASE type = "code" -> IF AllBlank(Lines) THEN <<>> ELSE GenericChunks
      [] type = "plsql" -> IF AllBlank(Lines) THEN <<>> ELSE PlSqlChunks
      [] OTHER -> DocumentChunks
ChunkSource ==
    /\ stage = "parsed"
    /\ chunks' = SourceChunks
    /\ stage' = "chunked"
    /\ UNCHANGED <<type, text, units>>

ChunkNext ==
    \/ \E c \in Claims : Arrive(c)
    \/ stage = "file" /\ \E k \in LineKinds[type] : WriteLine(k)
    \/ StartParser \/ ParserAnswers \/ ParserFails \/ ChunkSource

ChunkSpec == ChunkInit /\ [][ChunkNext]_chunkVars
-----------------------------------------------------------------------------
(* Properties.                                                             *)

Leaves == {c \in Range(chunks) : c.children = {}}

\* No text is lost: a line that is neither blank nor a mark of structure is in a chunk.
NoLineLost ==
    \A i \in Lines : text[i] \notin {"blank", "fence", "h1", "h1b", "h2"} =>
       \E c \in Leaves : i \in c.lines

\* A chunk is cited by the lines it was cut from.  A piece of generic code starts
\* where it says; it may end further down, by the blank lines it left out, but the
\* symbol it names is one it overlaps.
CitedLinesTrue ==
    \A c \in Range(chunks) :
      IF type = "code"
      THEN /\ c.first = Min(c.lines) /\ c.last <= Max(c.lines)
           /\ c.path # <<>> => LET e == RunEnd(c.path[1] + 1, {j \in Lines : text[j] # "def"}) IN
                               c.path[1] <= Max(c.lines) /\ e > Min(c.lines)
      ELSE \A i \in c.lines : c.first <= i /\ i <= c.last

\* A chunk over the budget cannot be cut further: a unit of text after an overlap,
\* one row of a table, a run of lines of code, a block of PL/SQL, or the full text
\* of a symbol that is there in pieces too.
Uncut(c, u) ==
    CASE u.kind = "text" -> u.lines \subseteq c.lines /\ Toks(c.lines \ u.lines) <= OverlapTokens
      [] u.kind = "table" -> \E i \in u.lines : c.lines \subseteq HeaderOf(u) \cup {i}
      [] u.kind = "code" /\ type # "plsql" ->
           /\ c.lines \subseteq u.first .. u.last /\ c.lines = Min(c.lines) .. Max(c.lines)
           /\ \A i \in c.lines : ~Blank(i)
      [] OTHER -> \/ \E d \in Leaves : d.of = c.lines
                  \/ \A i \in c.lines : i > c.first => Cleaned(i) \notin {"blank", "begin"}
OnlyWholesOverBudget ==
    \A c \in Leaves : Toks(c.lines) > ChunkMaxTokens => \E n \in DOMAIN units : Uncut(c, units[n])

\* Every chunk of a table has its header, and the separator below it unless that one
\* has empty cells: such a separator is in one chunk only, as a row.
HeaderRepeated ==
    \A c \in Leaves, n \in DOMAIN units :
      units[n].kind = "table" /\ c.lines \cap units[n].lines # {} =>
        /\ units[n].first \in c.lines
        /\ text[units[n].first + 1] = "sep" => units[n].first + 1 \in c.lines

\* Text of one chunk, or of one parent, stands under the same headings.
OneSection ==
    type = "markdown" =>
      \A c \in Range(chunks), n \in DOMAIN units :
        units[n].kind # "heading" /\ units[n].lines # {} /\ units[n].lines \subseteq c.lines =>
          c.path = HeadingPaths(units)[n]

\* Every chunk of a document has one parent, and parents are runs of neighbours.
OneParent ==
    type \in {"plain_text", "markdown"} =>
      LET parents == {c \in Range(chunks) : c.children # {}} IN
      /\ \A n \in DOMAIN chunks : chunks[n] \in Leaves =>
            Cardinality({p \in parents : n \in p.children}) = 1
      /\ \A p \in parents :
            /\ Max(p.children) - Min(p.children) + 1 = Cardinality(p.children)
            /\ Cardinality(p.children) > 1 =>
                 ChildToks(chunks, p.children) <= ParentMaxTokens

\* PL/SQL is cut where a declaration stands, never at one quoted in a string nor at
\* a subprogram a package only specifies; no declared object is in the middle of
\* a chunk; and the pieces of an oversized
\* symbol are the whole symbol.
DeclarationsWhole ==
    type = "plsql" =>
      /\ \A c \in Leaves : c.of = {} =>
           /\ ~InString(c.first)
           /\ c.first > 1 =>
                LET before == {i \in 1 .. c.first : text[i] \in {"spec", "body"} /\ ~InString(i)}
                IN  /\ before # {}
                    /\ \/ c.first = Max(before)
                       \/ text[c.first] = "sub" /\ text[Max(before)] = "body"
           /\ \A i \in c.lines : i > c.first /\ text[i] \in {"spec", "body"} => InString(i)
      /\ \A c \in Leaves : c.of # {} =>
           UNION {d.lines : d \in {e \in Leaves : e.of = c.of}} = c.of

\* The chunks of a file hold all of its text, under its headings and symbols, cited by
\* the right lines and within the budgets of the chunkers.
ChunksTrue ==
    stage = "chunked" =>
      /\ NoLineLost /\ CitedLinesTrue /\ OnlyWholesOverBudget
      /\ HeaderRepeated /\ OneSection /\ OneParent /\ DeclarationsWhole
=============================================================================
