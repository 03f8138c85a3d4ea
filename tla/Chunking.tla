------------------------------ MODULE Chunking ------------------------------
(***************************************************************************)
(* chunk_text (rag/chunking.py): a document is cut into overlapping chunks *)
(* for retrieval. A text is a sequence of letters, spaces and newlines, and *)
(* is here already normalized: no blanks at either end of it or at the end  *)
(* of a line.                                                              *)
(***************************************************************************)
EXTENDS Integers, Sequences

CONSTANTS ChunkSize, Overlap, TextLimit

Letter == "x"
Space == " "
Newline == "/"

\* All that chunk_text accepts; the operator sets both.
ASSUME ChunkingAssumption ==
    /\ ChunkSize \in Nat \ {0}
    /\ Overlap \in 0..(ChunkSize - 1)

Blank(t, i) == t[i] \in {Space, Newline}

NormalizedTexts ==
    {t \in UNION {[1..n -> {Letter, Space, Newline}] : n \in 1..TextLimit} :
        /\ ~Blank(t, 1) /\ ~Blank(t, Len(t))
        /\ \A i \in 1..(Len(t) - 1) : t[i] = Space => t[i + 1] # Newline}

VARIABLES
    cutting,  \* "idle", "loop" or "done"
    normalized, start,
    passages  \* the chunks, each by the interval it is stripped from

chunkingVars == <<cutting, normalized, start, passages>>

ChunkingInit == cutting = "idle" /\ normalized = <<Letter>> /\ start = 0 /\ passages = <<>>

ChunkText ==
    /\ cutting = "idle"
    /\ normalized' \in NormalizedTexts
    /\ cutting' = "loop" /\ start' = 0 /\ passages' = <<>>

\* Positions count from 0 here, as in the code. Rightmost(t, char, from, to) is
\* rfind: -1 when there is none in from..to-1.
Rightmost(t, char, from, to) ==
    LET at == {i \in from..(to - 1) : t[i + 1] = char}
    IN  IF at = {} THEN -1 ELSE CHOOSE i \in at : \A j \in at : j <= i

\* Mutant: a separator anywhere in the chunk will do.
MutEndOfChunk(t, from) ==
    LET far == IF from + ChunkSize < Len(t) THEN from + ChunkSize ELSE Len(t)
        separator == {Rightmost(t, c, from, far) : c \in {Newline, Space}} \ {-1, from}
    IN  IF far = Len(t) \/ separator = {} THEN far ELSE CHOOSE i \in separator : TRUE

\* A newline in the second half, or else a space there.
EndOfChunk(t, from) ==
    LET far == IF from + ChunkSize < Len(t) THEN from + ChunkSize ELSE Len(t)
        half == from + ChunkSize \div 2
        newline == Rightmost(t, Newline, from, far)
        space == Rightmost(t, Space, from, far)
    IN  CASE far = Len(t) -> far
          [] far < Len(t) /\ newline > half -> newline
          [] far < Len(t) /\ newline <= half /\ space > half -> space
          [] OTHER -> far

\* Mutant: chunks only touch.
MutNextStart(end) == end

NextStart(end) == IF end > Overlap THEN end - Overlap ELSE 0

CutChunk ==
    /\ cutting = "loop"
    /\ LET end == EndOfChunk(normalized, start) IN
       /\ passages' = IF \A i \in (start + 1)..end : Blank(normalized, i) THEN passages
                        ELSE Append(passages, <<start, end>>)
       /\ IF end = Len(normalized) THEN cutting' = "done" /\ UNCHANGED start
            ELSE start' = NextStart(end) /\ UNCHANGED cutting
    /\ UNCHANGED normalized

ChunkingRest == cutting = "done" /\ UNCHANGED chunkingVars

ChunkingNext == ChunkText \/ CutChunk \/ ChunkingRest

ChunkingSpec == ChunkingInit /\ [][ChunkingNext]_chunkingVars

-----------------------------------------------------------------------------
\* What the overlap is for: a passage no longer than the overlap, and every letter,
\* is whole in some chunk, however the cuts fall; and no chunk is over the size.
PassagesWhole ==
    cutting = "done" =>
        /\ \A from \in 0..(Len(normalized) - 1), n \in 1..Len(normalized) :
             /\ n = 1 \/ n <= Overlap
             /\ from + n <= Len(normalized)
             /\ ~Blank(normalized, from + 1) /\ ~Blank(normalized, from + n)
             => \E k \in DOMAIN passages : passages[k][1] <= from /\ from + n <= passages[k][2]
        /\ \A k \in DOMAIN passages : passages[k][2] - passages[k][1] \in 1..ChunkSize

\* How far a step of the loop goes: because a cut falls behind the middle of the
\* chunk, the next one begins within the text and more than half a chunk, less the
\* overlap, further on. So chunk_text returns when the overlap is at most half a chunk.
\* For one that is more, which chunking.py:33 lets through as well, this is no gain: with
\* 4, 3 and <<Letter, Letter, Letter, Newline, Letter>> every chunk begins at 0, for ever.
ChunksAdvance ==
    [][cutting = "loop" /\ cutting' = "loop" =>
          /\ start' - start > ChunkSize \div 2 - Overlap
          /\ start' < Len(normalized)]_chunkingVars

=============================================================================
