--------------------------- MODULE TextChunkerProofs ---------------------------
(***************************************************************************)
(* Proofs about split_text_with_overlap and the numbering of its chunks,   *)
(* for documents, chunk sizes, overlaps and search windows of any size.    *)
(***************************************************************************)
EXTENDS TextChunker, TLAPS

-----------------------------------------------------------------------------
(* The arithmetic of one turn of the loop.                                 *)

\* The end of a chunk lies after its start and at most chunk_size further, at
\* a boundary or at the target.
LEMMA ChunkEndBounds ==
    ASSUME NEW t, NEW s \in Nat, NEW h \in Nat, s < h, size \in Nat, size >= 1,
           Window \in Nat, NEW e \in Int, ChunkEnd(t, s, h, e)
    PROVE  s < e /\ e <= h /\ e <= s + size
<1> DEFINE target == Smaller(s + size, h)
           valid == ValidBoundaries(t, s, Larger(s, target - Window), target)
<1>1. target \in Nat /\ s < target /\ target <= h /\ target <= s + size
  BY DEF Smaller
<1>2. \A p \in valid : p \in Int /\ s < p /\ p < target
  BY <1>1 DEF ValidBoundaries, Last, Larger
<1>3. \/ e = target
      \/ \E p \in Last(valid) : e = IF IsStop(t, p, h) THEN p + 1 ELSE p
  BY DEF ChunkEnd
<1> HIDE DEF target, valid
<1>4. CASE e = target
  BY <1>1, <1>4
<1>5. ASSUME NEW p \in Last(valid), e = IF IsStop(t, p, h) THEN p + 1 ELSE p
      PROVE  s < e /\ e <= target
  <2>1. p \in valid
    BY <1>5 DEF Last
  <2> QED
    BY <1>1, <1>2, <1>5, <2>1
<1> QED
  BY <1>1, <1>3, <1>4, <1>5

\* The next chunk starts after this one did, not after its end, and at most
\* chunk_overlap before it.
LEMMA NextStartBounds ==
    ASSUME NEW s \in Nat, NEW e \in Nat, s < e, overlap \in Nat
    PROVE  /\ NextStart(s, e) \in Nat
           /\ s < NextStart(s, e)
           /\ NextStart(s, e) <= e
           /\ e - overlap <= NextStart(s, e)
BY DEF NextStart

\* A chunk has at least one token.
LEMMA TokenCountType ==
    ASSUME NEW n \in Nat, n > 0
    PROVE  estimate_token_count(n) \in Nat \ {0}
BY DEF estimate_token_count

-----------------------------------------------------------------------------
(* The inductive invariant.                                                *)

\* Sizes that reach the loop are legal.
SizesAreLegal ==
    pc \in {"section", "split"} /\ Len(sections) > 0 =>
        size >= 1 /\ overlap >= 0 /\ overlap < size

\* Inside the loop: the section exists, start is inside its stripped text,
\* what was stripped is blank, and no gap opened behind start.
LoopState ==
    pc = "split" =>
        /\ section <= Len(sections)
        /\ lo <= start /\ start < hi /\ hi <= Len(sections[section])
        /\ AllBlank(sections[section], 0, lo)
        /\ AllBlank(sections[section], hi, Len(sections[section]))
        /\ reach - overlap <= start /\ start <= reach
        /\ base + local = Len(chunks)

ChunkInv ==
    /\ TypeOK
    /\ section >= 1
    /\ SizesAreLegal
    /\ LoopState

\* Every document of the bounded set is a sequence of texts.
LEMMA InitChunkInv == Init => ChunkInv
<1> SUFFICES ASSUME Init PROVE ChunkInv
  OBVIOUS
<1>1. \A t \in Texts(MaxLength) \cup Texts(MaxShort) : t \in Seq(Chars)
  BY BoundsAssumption DEF Texts
<1>2. sections \in Seq(Seq(Chars))
  <2>1. ASSUME NEW n \in Nat, NEW S, \A t \in S : t \in Seq(Chars),
               sections \in [1..n -> S]
        PROVE  sections \in Seq(Seq(Chars))
    BY <2>1
  <2>2. \/ sections \in [1..1 -> Texts(MaxLength)]
        \/ \E n \in 0..MaxSections : sections \in [1..n -> Texts(MaxShort)]
    BY DEF Init, Documents
  <2>3. CASE sections \in [1..1 -> Texts(MaxLength)]
    BY <1>1, <2>1, <2>3
  <2>4. ASSUME NEW n \in 0..MaxSections,
               sections \in [1..n -> Texts(MaxShort)]
        PROVE  sections \in Seq(Seq(Chars))
    <3>1. n \in Nat /\ \A t \in Texts(MaxShort) : t \in Seq(Chars)
      BY <1>1, BoundsAssumption
    <3> QED
      BY <2>1, <2>4, <3>1
  <2> QED
    BY <2>2, <2>3, <2>4
<1>3. size \in Nat /\ overlap \in Int
  BY BoundsAssumption DEF Init
<1> QED
  BY <1>2, <1>3 DEF Init, ChunkInv, TypeOK, SizesAreLegal, LoopState

\* One turn of the loop, with what is known of where its slice ends.
TurnTo(e) ==
    /\ e \in Nat
    /\ start < e /\ e <= hi /\ e <= start + size
    /\ AppendSlice(e)
    /\ reach' = e
    /\ \/ /\ e >= hi
          /\ pc' = "section" /\ section' = section + 1 /\ start' = start
       \/ /\ e < hi
          /\ pc' = pc /\ section' = section
          /\ start' \in Nat
          /\ start < start' /\ start' <= e /\ e - overlap <= start'

\* What Split does is such a turn: the arithmetic lemmas apply.
LEMMA SplitTurn ==
    ASSUME ChunkInv, Split
    PROVE  /\ pc = "split"
           /\ UNCHANGED <<sections, size, overlap, lo, hi, base>>
           /\ \E e \in Nat : TurnTo(e)
<1>1. /\ pc = "split"
      /\ UNCHANGED <<sections, size, overlap, lo, hi, base>>
  BY DEF Split, input
<1>2. PICK e \in start..hi :
          /\ ChunkEnd(sections[section], start, hi, e)
          /\ AppendSlice(e)
          /\ reach' = e
          /\ IF e >= hi
             THEN /\ pc' = "section"
                  /\ section' = section + 1
                  /\ UNCHANGED start
             ELSE /\ start' = NextStart(start, e)
                  /\ UNCHANGED <<pc, section>>
  BY DEF Split
<1>3. /\ start \in Nat /\ hi \in Nat /\ start < hi /\ e \in Nat
      /\ size \in Nat /\ size >= 1 /\ overlap \in Nat
  BY <1>1, <1>2 DEF ChunkInv, TypeOK, SizesAreLegal, LoopState
<1>4. start < e /\ e <= hi /\ e <= start + size
  BY <1>2, <1>3, ChunkEndBounds, BoundsAssumption
<1>5. TurnTo(e)
  BY <1>2, <1>3, <1>4, NextStartBounds DEF TurnTo
<1> QED
  BY <1>1, <1>3, <1>5

\* A turn appends nothing, or one chunk cut from its slice.
LEMMA SliceResult ==
    ASSUME ChunkInv, pc = "split", NEW e \in Nat, TurnTo(e)
    PROVE  \/ chunks' = chunks /\ local' = local
           \/ \E f, g \in Nat :
                 /\ start <= f /\ f < g /\ g <= e
                 /\ NewChunk(f, g) \in TextChunk
                 /\ chunks' = Append(chunks, NewChunk(f, g))
                 /\ local' = local + 1
<1>1. CASE chunks' = chunks /\ local' = local
  BY <1>1
<1>2. ASSUME NEW f \in start..e, NEW g \in start..e,
             Stripped(sections[section], start, e, f, g),
             chunks' = Append(chunks, NewChunk(f, g)), local' = local + 1
      PROVE  \E f1, g1 \in Nat :
                 /\ start <= f1 /\ f1 < g1 /\ g1 <= e
                 /\ NewChunk(f1, g1) \in TextChunk
                 /\ chunks' = Append(chunks, NewChunk(f1, g1))
                 /\ local' = local + 1
  <2>1. /\ f \in Nat /\ g \in Nat
        /\ start <= f /\ f < g /\ g <= e
    BY <1>2 DEF Stripped, ChunkInv, TypeOK
  <2>2. estimate_token_count(g - f) \in Nat \ {0}
    BY <2>1, TokenCountType
  <2>3. NewChunk(f, g) \in TextChunk
    BY <2>1, <2>2 DEF NewChunk, TextChunk, ChunkInv, TypeOK
  <2> QED
    BY <1>2, <2>1, <2>3
<1> QED
  BY <1>1, <1>2 DEF TurnTo, AppendSlice

\* Every step keeps the invariant; only Split can disturb LoopState.
LEMMA NextChunkInv == ChunkInv /\ [Next]_vars => ChunkInv'
<1> SUFFICES ASSUME ChunkInv, [Next]_vars PROVE ChunkInv'
  OBVIOUS
<1> USE DEF ChunkInv, TypeOK, SizesAreLegal, LoopState
<1>1. CASE UNCHANGED vars
  BY <1>1 DEF vars, AllBlank, IsBlank, At
<1>2. CASE Check
  BY <1>2 DEF Check, input
<1>3. CASE BeginSection
  <2>1. PICK f, g \in 0..Len(sections[section]) :
            /\ Stripped(sections[section], 0, Len(sections[section]), f, g)
            /\ lo' = f /\ hi' = g /\ start' = f /\ reach' = f
    BY <1>3 DEF BeginSection
  <2>2. sections[section] \in Seq(Chars)
    BY <1>3 DEF BeginSection
  <2>3. /\ f \in Nat /\ g \in Nat /\ f < g /\ g <= Len(sections[section])
        /\ AllBlank(sections[section], 0, f)
        /\ AllBlank(sections[section], g, Len(sections[section]))
    BY <2>1, <2>2 DEF Stripped
  <2>4. /\ UNCHANGED <<sections, size, overlap, section, chunks>>
        /\ pc = "section" /\ pc' = "split"
        /\ section <= Len(sections)
        /\ base' = Len(chunks) /\ local' = 0
    BY <1>3 DEF BeginSection, input
  <2>5. LoopState'
    <3>1. size >= 1 /\ overlap >= 0 /\ overlap < size
      BY <2>4
    <3> QED
      BY <2>1, <2>2, <2>3, <2>4, <3>1 DEF AllBlank, IsBlank, At
  <2> QED
    BY <2>1, <2>3, <2>4, <2>5
<1>4. CASE SkipSection
  BY <1>4 DEF SkipSection, input
<1>5. CASE Split
  <2>1. /\ pc = "split"
        /\ UNCHANGED <<sections, size, overlap, lo, hi, base>>
    BY <1>5, SplitTurn
  <2>2. PICK e \in Nat : TurnTo(e)
    BY <1>5, SplitTurn
  <2>3. /\ chunks' \in Seq(TextChunk) /\ local' \in Nat
        /\ base + local' = Len(chunks')
    <3>1. CASE chunks' = chunks /\ local' = local
      BY <2>1, <3>1
    <3>2. ASSUME NEW c \in TextChunk, chunks' = Append(chunks, c),
                 local' = local + 1
          PROVE  /\ chunks' \in Seq(TextChunk) /\ local' \in Nat
                 /\ base + local' = Len(chunks')
      BY <2>1, <3>2
    <3> QED
      BY <2>1, <2>2, <3>1, <3>2, SliceResult
  <2>4. section' \in Nat /\ section' >= 1 /\ start' \in Nat /\ reach' \in Nat
    BY <2>2 DEF TurnTo
  <2>5. CASE e >= hi
    <3>1. pc' = "section"
      BY <2>2, <2>5 DEF TurnTo
    <3> QED
      BY <2>1, <2>3, <2>4, <3>1
  <2>6. CASE e < hi
    <3>1. /\ pc' = "split" /\ section' = section /\ reach' = e
          /\ start < start' /\ start' <= e /\ e - overlap <= start'
      BY <2>1, <2>2, <2>6 DEF TurnTo
    <3>2. LoopState'
      <4>1. AllBlank(sections[section], 0, lo)'
        BY <2>1, <3>1
      <4>2. AllBlank(sections[section], hi, Len(sections[section]))'
        BY <2>1, <3>1
      <4>3. reach' - overlap' <= start' /\ start' <= reach'
        BY <2>1, <3>1
      <4>4. lo' <= start' /\ start' < hi'
        BY <2>1, <2>4, <2>6, <3>1
      <4>5. section' <= Len(sections') /\ hi' <= Len(sections'[section'])
        BY <2>1, <3>1
      <4>6. base' + local' = Len(chunks')
        BY <2>1, <2>3
      <4> QED
        BY <4>1, <4>2, <4>3, <4>4, <4>5, <4>6
    <3> QED
      BY <2>1, <2>3, <2>4, <3>1, <3>2
  <2> QED
    BY <2>1, <2>5, <2>6
<1>6. CASE Finish
  BY <1>6 DEF Finish, input
<1> QED
  BY <1>1, <1>2, <1>3, <1>4, <1>5, <1>6 DEF Next, Step, Terminated

\* The chunker never leaves its types, for documents of any size.
THEOREM ChunkerTypeCorrect == Spec => []TypeOK
<1>1. ChunkInv => TypeOK
  BY DEF ChunkInv
<1> QED
  BY <1>1, InitChunkInv, NextChunkInv, PTL DEF Spec

\* Every turn of the while loop moves start forward or ends the section: the
\* safety half of the loop's termination.
THEOREM LoopMovesForward == Spec => LoopAdvances
<1>1. ASSUME ChunkInv, [Next]_vars
      PROVE  [pc = "split" => start' > start \/ section' > section]_vars
  <2>1. CASE UNCHANGED vars
    BY <2>1
  <2>2. CASE Split
    <3>1. PICK e \in Nat : TurnTo(e)
      BY <1>1, <2>2, SplitTurn
    <3> QED
      BY <1>1, <3>1 DEF TurnTo, ChunkInv, TypeOK
  <2>3. CASE pc # "split"
    BY <2>3
  <2> QED
    BY <1>1, <2>1, <2>2, <2>3
       DEF Next, Step, Check, BeginSection, SkipSection, Finish, Terminated
<1> QED
  BY <1>1, InitChunkInv, NextChunkInv, PTL DEF Spec, LoopAdvances

-----------------------------------------------------------------------------
(* The chunks themselves.                                                  *)

\* A step leaves the chunks alone or appends one, cut from the slice of this
\* turn, that is neither empty nor longer than chunk_size and has the next
\* index.
LEMMA ChunkStep ==
    ASSUME ChunkInv, [Next]_vars
    PROVE  /\ size' = size
           /\ \/ chunks' = chunks
              \/ \E c \in TextChunk :
                    /\ chunks' = Append(chunks, c)
                    /\ c.from < c.to /\ c.to - c.from <= size
                    /\ c.index = Len(chunks)
<1>1. CASE Split
  <2>1. pc = "split" /\ size' = size
    BY <1>1, SplitTurn
  <2>2. PICK e \in Nat : TurnTo(e)
    BY <1>1, SplitTurn
  <2>3. ASSUME NEW f \in Nat, NEW g \in Nat, start <= f, f < g, g <= e,
               NewChunk(f, g) \in TextChunk
        PROVE  LET c == NewChunk(f, g)
               IN  /\ c.from < c.to /\ c.to - c.from <= size
                   /\ c.index = Len(chunks)
    BY <2>1, <2>2, <2>3 DEF NewChunk, TurnTo, ChunkInv, TypeOK, LoopState
  <2> QED
    BY <2>1, <2>2, <2>3, SliceResult
<1>2. CASE UNCHANGED <<size, chunks>>
  BY <1>2
<1> QED
  BY <1>1, <1>2 DEF Next, Step, Check, BeginSection, SkipSection, Finish,
                    Terminated, vars, input

\* No chunk is empty or longer than chunk_size.
THEOREM MaximumSizeRespected == Spec => []ChunksRespectMaximumSize
<1>1. Init => ChunksRespectMaximumSize
  BY DEF Init, ChunksRespectMaximumSize
<1>2. ASSUME ChunkInv, ChunksRespectMaximumSize, [Next]_vars
      PROVE  ChunksRespectMaximumSize'
  <2>1. size' = size /\ chunks \in Seq(TextChunk)
    BY <1>2, ChunkStep DEF ChunkInv, TypeOK
  <2>2. CASE chunks' = chunks
    BY <1>2, <2>1, <2>2 DEF ChunksRespectMaximumSize
  <2>3. ASSUME NEW c \in TextChunk, chunks' = Append(chunks, c),
               c.from < c.to, c.to - c.from <= size
        PROVE  ChunksRespectMaximumSize'
    BY <1>2, <2>1, <2>3 DEF ChunksRespectMaximumSize
  <2> QED
    BY <1>2, <2>2, <2>3, ChunkStep
<1> QED
  BY <1>1, <1>2, InitChunkInv, NextChunkInv, PTL DEF Spec

\* The chunk indices of a document are 0, 1, 2, ... over all its sections.
THEOREM IndicesConsecutive == Spec => []IndicesAreConsecutive
<1>1. Init => IndicesAreConsecutive
  BY DEF Init, IndicesAreConsecutive
<1>2. ASSUME ChunkInv, IndicesAreConsecutive, [Next]_vars
      PROVE  IndicesAreConsecutive'
  <2>1. chunks \in Seq(TextChunk)
    BY <1>2 DEF ChunkInv, TypeOK
  <2>2. CASE chunks' = chunks
    BY <1>2, <2>2 DEF IndicesAreConsecutive
  <2>3. ASSUME NEW c \in TextChunk, chunks' = Append(chunks, c),
               c.index = Len(chunks)
        PROVE  IndicesAreConsecutive'
    BY <1>2, <2>1, <2>3 DEF IndicesAreConsecutive
  <2> QED
    BY <1>2, <2>2, <2>3, ChunkStep
<1> QED
  BY <1>1, <1>2, InitChunkInv, NextChunkInv, PTL DEF Spec

-----------------------------------------------------------------------------
(* No text is lost.                                                        *)

\* What was covered stays covered: chunks are only appended.
LEMMA CoveredStays ==
    ASSUME ChunkInv, [Next]_vars, NEW s, NEW p, Covered(s, p)
    PROVE  Covered(s, p)'
<1>1. PICK i \in 1..Len(chunks) : Covers(chunks[i], s, p)
  BY DEF Covered
<1>2. chunks \in Seq(TextChunk)
  BY DEF ChunkInv, TypeOK
<1>3. CASE chunks' = chunks
  BY <1>3 DEF Covered
<1>4. ASSUME NEW c \in TextChunk, chunks' = Append(chunks, c)
      PROVE  Covered(s, p)'
  <2>1. i \in 1..Len(chunks') /\ chunks'[i] = chunks[i]
    BY <1>1, <1>2, <1>4
  <2> QED
    BY <1>1, <2>1 DEF Covered
<1> QED
  BY <1>3, <1>4, ChunkStep

\* After a turn, what is not blank in its slice is covered: strip() removes
\* only blanks.
LEMMA SliceCovered ==
    ASSUME ChunkInv, pc = "split", NEW e \in Nat, TurnTo(e),
           NEW p \in Nat, start <= p, p < e, ~IsBlank(sections[section], p),
           NEW s, s = section
    PROVE  Covered(s, p)'
<1>1. ~AllBlank(sections[section], start, e)
  BY DEF AllBlank, ChunkInv, TypeOK
<1>2. PICK f \in start..e, g \in start..e :
          /\ Stripped(sections[section], start, e, f, g)
          /\ chunks' = Append(chunks, NewChunk(f, g))
  BY <1>1 DEF TurnTo, AppendSlice
<1>3. f \in Int /\ g \in Int /\ f <= p /\ p < g
  BY <1>2 DEF Stripped, AllBlank, ChunkInv, TypeOK
<1>4. chunks \in Seq(TextChunk)
  BY DEF ChunkInv, TypeOK
<1>5. Covers(NewChunk(f, g), s, p)
  BY <1>3 DEF Covers, NewChunk
<1>6. /\ Len(chunks) + 1 \in 1..Len(chunks')
      /\ chunks'[Len(chunks) + 1] = NewChunk(f, g)
  BY <1>2, <1>4
<1> QED
  BY <1>5, <1>6 DEF Covered

\* The part of a finished section that strip() removed is blank, so it is
\* enough to cover the stripped text.
LEMMA NextNoTextLost ==
    ChunkInv /\ NoTextLost /\ [Next]_vars => NoTextLost'
<1> SUFFICES ASSUME ChunkInv, NoTextLost, [Next]_vars PROVE NoTextLost'
  OBVIOUS
<1> DEFINE DoneAfter(s) ==
        \A p \in 0..(Len(sections[s]) - 1) :
            ~IsBlank(sections[s], p) => Covered(s, p)'
<1>1. sections' = sections
  BY SplitTurn DEF Next, Step, Check, BeginSection, SkipSection, Finish,
                   Terminated, vars, input
<1>2. ASSUME NEW s \in 1..Len(sections), s < section
      PROVE  DoneAfter(s)
  BY <1>2, CoveredStays DEF NoTextLost
<1>3. CASE section' = section /\ pc' # "split"
  BY <1>1, <1>2, <1>3 DEF NoTextLost
<1>4. CASE UNCHANGED vars
  BY <1>4 DEF vars, NoTextLost, Covered
<1>5. CASE SkipSection
  <2>1. /\ section \in 1..Len(sections) /\ section' = section + 1
        /\ pc' = "section"
        /\ AllBlank(sections[section], 0, Len(sections[section]))
    BY <1>5 DEF SkipSection, ChunkInv, TypeOK
  <2>2. ASSUME NEW s \in 1..Len(sections), s = section
        PROVE  DoneAfter(s)
    BY <2>1, <2>2 DEF AllBlank
  <2>3. ASSUME NEW s \in 1..Len(sections), s < section'
        PROVE  DoneAfter(s)
    <3>1. s < section \/ s = section
      BY <2>1, <2>3
    <3> QED
      BY <1>2, <2>2, <3>1
  <2> QED
    BY <1>1, <2>1, <2>3 DEF NoTextLost
<1>6. CASE BeginSection
  <2>1. section' = section /\ reach' = lo' /\ lo' \in Int
    BY <1>6 DEF BeginSection
  <2>2. ASSUME NEW n \in Int, NEW m, m = n, NEW p \in n..(m - 1)
        PROVE  FALSE
    BY <2>2
  <2>3. \A p \in lo'..(reach' - 1) : FALSE
    BY <2>1, <2>2
  <2> QED
    BY <1>1, <1>2, <2>1, <2>3 DEF NoTextLost
<1>7. CASE Split
  <2>1. /\ pc = "split" /\ lo' = lo
        /\ section \in 1..Len(sections)
        /\ lo \in Nat /\ start \in Nat /\ reach \in Nat /\ hi \in Nat
        /\ start <= reach
        /\ sections[section] \in Seq(Chars)
        /\ AllBlank(sections[section], 0, lo)
        /\ AllBlank(sections[section], hi, Len(sections[section]))
    BY <1>7, SplitTurn DEF ChunkInv, TypeOK, LoopState
  <2>2. PICK e \in Nat : TurnTo(e)
    BY <1>7, SplitTurn
  <2>3. ASSUME NEW s, s = section,
               NEW p \in Nat, lo <= p, p < e, ~IsBlank(sections[s], p)
        PROVE  Covered(s, p)'
    <3>1. CASE p < start
      <4>1. Covered(s, p)
        BY <2>1, <2>3, <3>1 DEF NoTextLost
      <4> QED
        BY <4>1, CoveredStays
    <3>2. CASE start <= p
      BY <2>1, <2>2, <2>3, <3>2, SliceCovered
    <3> QED
      BY <2>1, <3>1, <3>2
  <2>4. CASE e >= hi
    <3>1. pc' = "section" /\ section' = section + 1
      BY <2>1, <2>2, <2>4 DEF TurnTo
    <3>2. ASSUME NEW s \in 1..Len(sections), s = section
          PROVE  DoneAfter(s)
      <4>1. ASSUME NEW p \in 0..(Len(sections[s]) - 1),
                   ~IsBlank(sections[s], p)
            PROVE  p \in Nat /\ lo <= p /\ p < e
        BY <2>1, <2>4, <3>2, <4>1 DEF AllBlank
      <4> QED
        BY <2>3, <3>2, <4>1
    <3>3. ASSUME NEW s \in 1..Len(sections), s < section'
          PROVE  DoneAfter(s)
      <4>1. s < section \/ s = section
        BY <2>1, <3>1, <3>3
      <4> QED
        BY <1>2, <3>2, <4>1
    <3> QED
      BY <1>1, <3>1, <3>3 DEF NoTextLost
  <2>5. CASE e < hi
    <3>1. section' = section /\ reach' = e
      BY <2>1, <2>2, <2>5 DEF TurnTo
    <3>2. ASSUME NEW p \in lo..(e - 1), ~IsBlank(sections[section], p)
          PROVE  Covered(section, p)'
      BY <2>1, <2>3, <3>1, <3>2
    <3> QED
      BY <1>1, <1>2, <2>1, <3>1, <3>2 DEF NoTextLost
  <2> QED
    BY <2>1, <2>4, <2>5
<1> QED
  BY <1>3, <1>4, <1>5, <1>6, <1>7
     DEF Next, Step, Check, Finish, Terminated

\* Every character that is not white space ends up in a chunk, for every
\* document, chunk size, overlap and window.
THEOREM TextIsKept == Spec => []NoTextLost
<1>1. Init => NoTextLost
  BY DEF Init, NoTextLost
<1> QED
  BY <1>1, InitChunkInv, NextChunkInv, NextNoTextLost, PTL DEF Spec

=============================================================================
