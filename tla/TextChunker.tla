----------------------------- MODULE TextChunker -----------------------------
(***************************************************************************)
(* chunk_extracted_document: the sections of an extracted document are cut *)
(* into overlapping chunks, at a line, sentence or word boundary where one *)
(* is near.  A step is one turn of the loop of split_text_with_overlap.    *)
(*                                                                         *)
(* A text is a sequence of kinds of characters; positions count from 0, as *)
(* in Python, and always refer to the text before strip(): lo and hi are   *)
(* where the stripped text begins and ends.                                *)
(***************************************************************************)
EXTENDS Integers, Sequences

CONSTANTS
    MaxSections,  \* bound: sections of a document
    MaxLength,    \* bound: characters of the section of a one-section document
    MaxShort,     \* bound: characters of each section of a longer document
    MaxSize,      \* bound: chunk_size
    Window        \* how far back a boundary is looked for; 150 in the code

ASSUME BoundsAssumption ==
    /\ MaxSections \in Nat
    /\ MaxLength \in Nat
    /\ MaxShort \in Nat
    /\ MaxSize \in Nat
    /\ Window \in Nat

\* "other" is white space that is no boundary (a tab).
Chars == {"letter", "dot", "space", "newline", "other"}
Blanks == {"space", "newline", "other"}

Texts(length) == UNION {[1..n -> Chars] : n \in 0..length}
Documents ==
    [1..1 -> Texts(MaxLength)]
        \cup UNION {[1..n -> Texts(MaxShort)] : n \in 0..MaxSections}

VARIABLES
    sections,  \* the texts of the extracted sections
    size,      \* chunk_size
    overlap,   \* chunk_overlap
    pc,        \* "check", "section", "split", "done" or "error"
    section,   \* the section being cut, from 1
    lo, hi,    \* its stripped text
    base,      \* starting_index: how many chunks the sections before it gave
    local,     \* local_index: how many chunks it has given itself
    start,     \* where the next chunk begins
    reach,     \* history: where the last slice of this section ended
    chunks     \* the chunks so far

input == <<sections, size, overlap>>
vars == <<sections, size, overlap, pc, section, lo, hi, base, local, start,
          reach, chunks>>

\* chunk_index, token_count, and the slice of its section that is its content.
\* A chunk is not empty, so it has at least one token.
TextChunk == [index : Nat, tokens : Nat \ {0}, section : Nat, from : Nat,
              to : Nat]

TypeOK ==
    /\ sections \in Seq(Seq(Chars))
    /\ size \in Nat /\ overlap \in Int
    /\ pc \in {"check", "section", "split", "done", "error"}
    /\ section \in Nat
    /\ lo \in Nat /\ hi \in Nat /\ base \in Nat /\ local \in Nat
    /\ start \in Nat /\ reach \in Nat
    /\ chunks \in Seq(TextChunk)

Init ==
    /\ sections \in Documents
    /\ size \in 0..MaxSize
    /\ overlap \in -1..MaxSize
    /\ pc = "check"
    /\ section = 1
    /\ lo = 0 /\ hi = 0 /\ base = 0 /\ local = 0
    /\ start = 0 /\ reach = 0
    /\ chunks = <<>>

-----------------------------------------------------------------------------
(* Texts.                                                                  *)

At(t, p) == t[p + 1]
IsBlank(t, p) == At(t, p) \in Blanks
AllBlank(t, a, b) == \A p \in a..(b - 1) : IsBlank(t, p)

\* strip() of the slice [a, b) is the slice [f, g).
Stripped(t, a, b, f, g) ==
    /\ a <= f /\ f < g /\ g <= b
    /\ ~IsBlank(t, f) /\ ~IsBlank(t, g - 1)
    /\ AllBlank(t, a, f) /\ AllBlank(t, g, b)

\* Mutant: a short chunk is not rounded up to one token.
token_count_rounded_down(n) == n \div 4

estimate_token_count(n) ==
    IF n = 0 THEN 0 ELSE IF n \div 4 > 1 THEN n \div 4 ELSE 1

Larger(a, b) == IF a > b THEN a ELSE b
Smaller(a, b) == IF a < b THEN a ELSE b

\* rfind: the last position of S, as a set that is empty where rfind is -1.
Last(S) == {p \in S : \A q \in S : q <= p}

IsStop(t, p, b) ==
    p + 1 < b /\ At(t, p) = "dot" /\ At(t, p + 1) = "space"

\* Mutant: a boundary at the very start of the slice is taken as well.
ValidBoundariesAtStart(t, s, a, b) ==
    Last({q \in a..(b - 1) : q >= s /\ At(t, q) \in {"newline", "space"}})

\* valid_boundaries: the last line end, sentence end and space in [a, b)
\* that come after position s.
ValidBoundaries(t, s, a, b) ==
    {p \in Last({q \in a..(b - 1) : At(t, q) = "newline"})
           \cup Last({q \in a..(b - 1) : IsStop(t, q, b)})
           \cup Last({q \in a..(b - 1) : At(t, q) = "space"}) : p > s}

\* Mutant: the chunk runs one character past its target.
ChunkEndBeyondTarget(t, s, h, e) == e = Smaller(s + size + 1, h)

\* e is where the chunk that begins at s ends, in a text stripped to h.
ChunkEnd(t, s, h, e) ==
    LET target == Smaller(s + size, h)
        valid == ValidBoundaries(t, s, Larger(s, target - Window), target)
    IN  IF target < h /\ valid # {}
        THEN \E p \in Last(valid) :
                 e = IF IsStop(t, p, h) THEN p + 1 ELSE p
        ELSE e = target

\* Mutants: the overlap is skipped instead of repeated; the test that keeps
\* the loop going forward lets equality pass.
NextStartSkips(s, e) == e + overlap
NextStartStuck(s, e) == IF e - overlap < s THEN e ELSE e - overlap

NextStart(s, e) == IF e - overlap <= s THEN e ELSE e - overlap

-----------------------------------------------------------------------------
(* Steps.                                                                  *)

\* TextChunkingError for impossible sizes is raised for the first section; a
\* document without sections produces no chunks and is an error as well.
Check ==
    /\ pc = "check"
    /\ pc' = IF Len(sections) > 0 /\ (size < 1 \/ overlap < 0 \/ overlap >= size)
             THEN "error" ELSE "section"
    /\ UNCHANGED <<input, section, lo, hi, base, local, start, reach,
                   chunks>>

\* Mutant: every section numbers its chunks from 0.
BeginSectionAtZero ==
    /\ pc = "section"
    /\ section <= Len(sections)
    /\ \E f, g \in 0..Len(sections[section]) :
           /\ Stripped(sections[section], 0, Len(sections[section]), f, g)
           /\ lo' = f /\ hi' = g /\ start' = f /\ reach' = f
    /\ base' = 0
    /\ local' = 0
    /\ pc' = "split"
    /\ UNCHANGED <<input, section, chunks>>

BeginSection ==
    /\ pc = "section"
    /\ section <= Len(sections)
    /\ \E f, g \in 0..Len(sections[section]) :
           /\ Stripped(sections[section], 0, Len(sections[section]), f, g)
           /\ lo' = f /\ hi' = g /\ start' = f /\ reach' = f
    /\ base' = Len(chunks)
    /\ local' = 0
    /\ pc' = "split"
    /\ UNCHANGED <<input, section, chunks>>

\* The stripped text is empty: the section gives no chunks.
SkipSection ==
    /\ pc = "section"
    /\ section <= Len(sections)
    /\ AllBlank(sections[section], 0, Len(sections[section]))
    /\ section' = section + 1
    /\ UNCHANGED <<input, pc, lo, hi, base, local, start, reach, chunks>>

\* chunk_extracted_section numbers the chunks of the section from its base.
NewChunk(f, g) ==
    [index |-> base + local, tokens |-> estimate_token_count(g - f),
     section |-> section, from |-> f, to |-> g]

\* The slice [start, e) becomes a chunk unless it is blank.
AppendSlice(e) ==
    \/ /\ AllBlank(sections[section], start, e)
       /\ UNCHANGED <<chunks, local>>
    \/ \E f, g \in start..e :
           /\ Stripped(sections[section], start, e, f, g)
           /\ chunks' = Append(chunks, NewChunk(f, g))
           /\ local' = local + 1

Split ==
    /\ pc = "split"
    /\ \E e \in start..hi :
           /\ ChunkEnd(sections[section], start, hi, e)
           /\ AppendSlice(e)
           /\ reach' = e
           /\ IF e >= hi
              THEN /\ pc' = "section"
                   /\ section' = section + 1
                   /\ UNCHANGED start
              ELSE /\ start' = NextStart(start, e)
                   /\ UNCHANGED <<pc, section>>
    /\ UNCHANGED <<input, lo, hi, base>>

Finish ==
    /\ pc = "section"
    /\ section > Len(sections)
    /\ pc' = IF chunks = <<>> THEN "error" ELSE "done"
    /\ UNCHANGED <<input, section, lo, hi, base, local, start, reach,
                   chunks>>

Terminated ==
    /\ pc \in {"done", "error"}
    /\ UNCHANGED vars

Step == Check \/ BeginSection \/ SkipSection \/ Split \/ Finish

Next == Step \/ Terminated

Spec == Init /\ [][Next]_vars

\* The computation does not stop by itself.
FairSpec == Spec /\ WF_vars(Step)

-----------------------------------------------------------------------------
(* Properties.                                                             *)

Covers(c, s, p) == c.section = s /\ c.from <= p /\ p < c.to

Covered(s, p) == \E i \in 1..Len(chunks) : Covers(chunks[i], s, p)

\* No text is lost: every character of a finished section that is not white
\* space is part of some chunk, and so is what the loop has gone past in the
\* current one, however boundaries, strip() and the overlap fall together.
NoTextLost ==
    /\ \A s \in 1..Len(sections) : s < section =>
           \A p \in 0..(Len(sections[s]) - 1) :
               ~IsBlank(sections[s], p) => Covered(s, p)
    /\ pc = "split" =>
           \A p \in lo..(reach - 1) :
               ~IsBlank(sections[section], p) => Covered(section, p)

\* test_chunks_respect_maximum_size, for every text: no chunk is empty or
\* longer than chunk_size.
ChunksRespectMaximumSize ==
    \A i \in 1..Len(chunks) :
        chunks[i].from < chunks[i].to /\ chunks[i].to - chunks[i].from <= size

\* test_chunk_indices_continue_across_sections, for every document: the
\* chunk indices are 0, 1, 2, ..., as uq_document_chunks_document_index needs.
IndicesAreConsecutive ==
    \A i \in 1..Len(chunks) : chunks[i].index = i - 1

\* Every turn of the loop makes progress: it moves start forward, or leaves
\* the section.
LoopAdvances ==
    [][pc = "split" => start' > start \/ section' > section]_vars

\* The loop ends for every text and every size and overlap let in.
Terminates == <>(pc \in {"done", "error"})
=============================================================================
