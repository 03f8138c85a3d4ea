---------------------------- MODULE CorpusProofs ----------------------------
(***************************************************************************)
(* For every chunk size, every overlap that is less, and every text: how    *)
(* far chunk_text goes with a chunk, and no short passage is torn. For any  *)
(* number of requests, files and names of files: what is ingested is found  *)
(* whole. For any number of shards, examples, seeds and crashes: the        *)
(* training set is built whole, and loses no seed.                          *)
(***************************************************************************)
EXTENDS Chunking, Ingestion, DatasetBuild, DataLemmas, SequenceTheorems, FiniteSetTheorems, TLAPS


LEMMA RightmostInRange ==
    ASSUME NEW t, NEW char, NEW from \in Nat, NEW to \in Nat
    PROVE  LET r == Rightmost(t, char, from, to) IN r = -1 \/ r \in from..(to - 1)
<1> DEFINE at == {i \in from..(to - 1) : t[i + 1] = char}
<1>1. CASE at = {}
    BY <1>1 DEF Rightmost
<1>2. CASE at # {}
  <2>1. \E i \in at : \A j \in at : j <= i
    <3>1. at \in SUBSET (from..(to - 1))
      OBVIOUS
    <3>2. from \in Int /\ to - 1 \in Int
      OBVIOUS
    <3> HIDE DEF at
    <3> QED
      BY <1>2, <3>1, <3>2, LargestExists, Zenon
  <2>2. (CHOOSE i \in at : \A j \in at : j <= i) \in at
    BY <2>1
  <2> QED
    BY <1>2, <2>2 DEF Rightmost
<1> QED
    BY <1>1, <1>2

Texts == {t \in Seq({Letter, Space, Newline}) : Len(t) > 0}

\* A cut falls behind the middle of the chunk, and at its end at the latest.
LEMMA CutsBehindMiddle ==
    ASSUME NEW t \in Texts, NEW from \in Nat, from < Len(t)
    PROVE  LET end == EndOfChunk(t, from) IN
           /\ end \in (from + 1)..Len(t)
           /\ end <= from + ChunkSize
           /\ end = Len(t) \/ end > from + ChunkSize \div 2
<1> DEFINE far == IF from + ChunkSize < Len(t) THEN from + ChunkSize ELSE Len(t)
           newline == Rightmost(t, Newline, from, far)
           space == Rightmost(t, Space, from, far)
<1>1. /\ ChunkSize \in Nat /\ ChunkSize > 0
      /\ ChunkSize \div 2 \in Nat /\ ChunkSize \div 2 < ChunkSize
    BY ChunkingAssumption
<1>2. Len(t) \in Nat /\ far \in Nat /\ far \in (from + 1)..Len(t) /\ far <= from + ChunkSize
    BY <1>1 DEF Texts
<1>3. newline = -1 \/ newline \in from..(far - 1)
    BY <1>2, RightmostInRange
<1>4. space = -1 \/ space \in from..(far - 1)
    BY <1>2, RightmostInRange
<1>5. EndOfChunk(t, from) =
        CASE far = Len(t) -> far
          [] far < Len(t) /\ newline > from + ChunkSize \div 2 -> newline
          [] far < Len(t) /\ newline <= from + ChunkSize \div 2 /\ space > from + ChunkSize \div 2 -> space
          [] OTHER -> far
    BY DEF EndOfChunk
<1>6. far # Len(t) => far = from + ChunkSize
    BY <1>2
<1>7. from + ChunkSize \div 2 \in Nat /\ from < far
    BY <1>1, <1>2
<1> DEFINE end == EndOfChunk(t, from)
<1> HIDE DEF far, newline, space, end
<1>8. \/ end = far
      \/ end = newline /\ newline > from + ChunkSize \div 2
      \/ end = space /\ space > from + ChunkSize \div 2
    BY <1>5 DEF end
<1>9. CASE end = far
    BY <1>1, <1>2, <1>6, <1>9 DEF end
<1>10. ASSUME NEW r, r = -1 \/ r \in from..(far - 1), end = r, r > from + ChunkSize \div 2
       PROVE  /\ end \in (from + 1)..Len(t) /\ end <= from + ChunkSize
              /\ end > from + ChunkSize \div 2
    BY <1>1, <1>2, <1>7, <1>10
<1> QED
    BY <1>3, <1>4, <1>8, <1>9, <1>10 DEF end

-----------------------------------------------------------------------------
\* What a chunk has to hold whole, as in PassagesWhole, of text t.
Short(t, from, n) ==
    /\ n = 1 \/ n <= Overlap
    /\ from + n <= Len(t)
    /\ ~Blank(t, from + 1) /\ ~Blank(t, from + n)

Whole(ps, from, n) == \E k \in DOMAIN ps : ps[k][1] <= from /\ from + n <= ps[k][2]

ChunkingTypeOK ==
    /\ cutting \in {"idle", "loop", "done"}
    /\ normalized \in Texts
    /\ start \in Nat /\ start < Len(normalized)
    /\ passages \in Seq(Nat \X Nat)

SizesInv == \A k \in DOMAIN passages : passages[k][2] - passages[k][1] \in 1..ChunkSize

\* In the loop, all that begins before start is whole; after it, everything.
Reached == IF cutting = "done" THEN Len(normalized) ELSE start

WholeInv ==
    \A from \in 0..(Reached - 1), n \in 1..Len(normalized) :
        Short(normalized, from, n) => Whole(passages, from, n)

IInv == ChunkingTypeOK /\ SizesInv /\ WholeInv

LEMMA InitIInv == ChunkingInit => IInv
<1> SUFFICES ASSUME ChunkingInit PROVE IInv
    OBVIOUS
<1>1. normalized \in Texts /\ Len(normalized) = 1
    BY DEF ChunkingInit, Texts, Letter
<1> QED
    BY <1>1 DEF ChunkingInit, IInv, ChunkingTypeOK, SizesInv, WholeInv, Reached

\* The type of a step of the loop, and how far it goes.
LEMMA CutTypes ==
    ASSUME ChunkingTypeOK, CutChunk
    PROVE  LET end == EndOfChunk(normalized, start) IN
           /\ end \in (start + 1)..Len(normalized) /\ end <= start + ChunkSize
           /\ end # Len(normalized) =>
                  /\ cutting' = "loop"
                  /\ start' \in Nat /\ start' < Len(normalized)
                  /\ start' = 0 \/ start' = end - Overlap
                  /\ start' - start > ChunkSize \div 2 - Overlap
           /\ end = Len(normalized) => cutting' = "done" /\ start' = start
           /\ passages' \in {passages, Append(passages, <<start, end>>)}
<1> DEFINE end == EndOfChunk(normalized, start)
           half == ChunkSize \div 2
<1>1. /\ end \in (start + 1)..Len(normalized) /\ end <= start + ChunkSize
      /\ end = Len(normalized) \/ end > start + half
    BY CutsBehindMiddle DEF ChunkingTypeOK
<1>2. Overlap \in Nat /\ half \in Nat
    BY ChunkingAssumption
<1>3. start \in Nat /\ Len(normalized) \in Nat
    BY DEF ChunkingTypeOK, Texts
<1>4. /\ passages' = IF \A i \in (start + 1)..end : Blank(normalized, i) THEN passages
                       ELSE Append(passages, <<start, end>>)
      /\ IF end = Len(normalized) THEN cutting' = "done" /\ UNCHANGED start
           ELSE start' = (IF end > Overlap THEN end - Overlap ELSE 0) /\ UNCHANGED cutting
      /\ cutting = "loop"
    BY DEF CutChunk, NextStart
<1> HIDE DEF end, half
<1>5. ASSUME end # Len(normalized)
      PROVE  /\ cutting' = "loop"
             /\ start' \in Nat /\ start' < Len(normalized)
             /\ start' = 0 \/ start' = end - Overlap
             /\ start' - start > half - Overlap
  <2>1. CASE end > Overlap
    BY <1>1, <1>2, <1>3, <1>4, <1>5, <2>1
  <2>2. CASE end <= Overlap
    BY <1>1, <1>2, <1>3, <1>4, <1>5, <2>2
  <2> QED
    BY <1>1, <1>2, <2>1, <2>2
<1>6. passages' \in {passages, Append(passages, <<start, end>>)}
    BY <1>4
<1> QED
    BY <1>1, <1>4, <1>5, <1>6 DEF end, half

LEMMA CutKeepsIInv ==
    ASSUME IInv, CutChunk
    PROVE  IInv'
<1> DEFINE end == EndOfChunk(normalized, start)
<1>1. /\ end \in (start + 1)..Len(normalized) /\ end <= start + ChunkSize
      /\ end # Len(normalized) =>
             /\ cutting' = "loop"
             /\ start' \in Nat /\ start' < Len(normalized)
             /\ start' = 0 \/ start' = end - Overlap
      /\ end = Len(normalized) => cutting' = "done" /\ start' = start
      /\ passages' \in {passages, Append(passages, <<start, end>>)}
    BY CutTypes DEF IInv
<1>2. /\ start \in Nat /\ Len(normalized) \in Nat /\ start < Len(normalized) /\ normalized \in Texts
      /\ passages \in Seq(Nat \X Nat) /\ normalized' = normalized /\ cutting = "loop"
      /\ Overlap \in Nat /\ ChunkSize \in Nat
    BY ChunkingAssumption DEF IInv, ChunkingTypeOK, Texts, CutChunk
<1>3. passages' = IF \A i \in (start + 1)..end : Blank(normalized, i) THEN passages
                    ELSE Append(passages, <<start, end>>)
    BY DEF CutChunk
<1> HIDE DEF end
<1>4. ChunkingTypeOK'
  <2>1. cutting' \in {"idle", "loop", "done"} /\ start' \in Nat /\ start' < Len(normalized')
    BY <1>1, <1>2
  <2>2. <<start, end>> \in Nat \X Nat
    BY <1>1, <1>2
  <2>3. passages' \in Seq(Nat \X Nat)
    <3>1. Append(passages, <<start, end>>) \in Seq(Nat \X Nat)
      BY <1>2, <2>2, AppendProperties, Zenon
    <3> QED
      BY <1>1, <1>2, <3>1, Zenon
  <2> QED
    BY <1>2, <2>1, <2>3 DEF ChunkingTypeOK
<1>5. SizesInv'
  <2>1. CASE passages' = passages
    BY <2>1 DEF IInv, SizesInv
  <2>2. CASE passages' = Append(passages, <<start, end>>)
    <3>1. end - start \in 1..ChunkSize
      BY <1>1, <1>2
    <3>2. ASSUME NEW k \in DOMAIN passages'
          PROVE  \/ k \in DOMAIN passages /\ passages'[k] = passages[k]
                 \/ passages'[k] = <<start, end>>
      BY <1>2, <2>2, <3>2
    <3> QED
      BY <3>1, <3>2 DEF IInv, SizesInv
  <2> QED
    BY <1>1, <2>1, <2>2
<1>6. WholeInv'
  <2> SUFFICES ASSUME NEW from \in 0..(Reached' - 1), NEW n \in 1..Len(normalized),
                      Short(normalized, from, n)
               PROVE  Whole(passages', from, n)
    BY <1>2 DEF WholeInv
  <2>1. CASE from < start
    <3>1. Whole(passages, from, n)
      BY <1>2, <2>1 DEF IInv, WholeInv, Reached
    <3>2. PICK k \in DOMAIN passages : passages[k][1] <= from /\ from + n <= passages[k][2]
      BY <3>1 DEF Whole
    <3>3. k \in DOMAIN passages' /\ passages'[k] = passages[k]
      <4>1. CASE passages' = Append(passages, <<start, end>>)
        <5>1. k \in 1..Len(passages) /\ Len(passages) \in Nat
          BY <1>2
        <5> QED
          BY <1>2, <4>1, <5>1
      <4> QED
        BY <1>1, <4>1
    <3> QED
      BY <3>2, <3>3 DEF Whole
  <2>2. CASE from >= start
    <3>1. from + n <= end /\ from < end
      <4>1. CASE end = Len(normalized)
        BY <1>1, <1>2, <4>1 DEF Short
      <4>2. CASE end # Len(normalized)
        <5>1. from < end - Overlap
          BY <1>1, <1>2, <4>2 DEF Reached
        <5> QED
          BY <1>1, <1>2, <5>1 DEF Short
      <4> QED
        BY <4>1, <4>2
    <3>2. from + 1 \in (start + 1)..end
      BY <1>1, <1>2, <2>2, <3>1
    <3>3. passages' = Append(passages, <<start, end>>)
      BY <1>3, <3>2 DEF Short
    <3>4. Len(passages') = Len(passages) + 1 /\ passages'[Len(passages) + 1] = <<start, end>>
          /\ Len(passages) + 1 \in DOMAIN passages'
      BY <1>1, <1>2, <3>3
    <3> QED
      BY <2>2, <3>1, <3>4 DEF Whole
  <2> QED
    BY <1>2, <2>1, <2>2
<1> QED
    BY <1>4, <1>5, <1>6 DEF IInv

LEMMA NextIInv == IInv /\ [ChunkingNext]_chunkingVars => IInv'
<1> SUFFICES ASSUME IInv, [ChunkingNext]_chunkingVars PROVE IInv'
    OBVIOUS
<1>1. CASE ChunkText
  <2>1. normalized' \in Texts
    BY <1>1 DEF ChunkText, NormalizedTexts, Texts
  <2> QED
    BY <1>1, <2>1 DEF ChunkText, IInv, ChunkingTypeOK, SizesInv, WholeInv, Reached, Texts
<1>2. CASE CutChunk
    BY <1>2, CutKeepsIInv
<1>3. CASE ChunkingRest \/ UNCHANGED chunkingVars
    BY <1>3 DEF ChunkingRest, chunkingVars, IInv, ChunkingTypeOK, SizesInv, WholeInv, Reached
<1> QED
    BY <1>1, <1>2, <1>3 DEF ChunkingNext

LEMMA IInvWhole == IInv => PassagesWhole
    BY DEF IInv, ChunkingTypeOK, SizesInv, WholeInv, Reached, Short, Whole, PassagesWhole

\* A passage no longer than the overlap is whole in a chunk, and no chunk is over
\* the size, for every text and every overlap that chunk_text accepts.
THEOREM ChunksWhole == ChunkingSpec => []PassagesWhole
<1>1. ChunkingSpec => []IInv
    BY InitIInv, NextIInv, PTL DEF ChunkingSpec
<1> QED
    BY <1>1, IInvWhole, PTL

LEMMA NextAdvances ==
    IInv /\ [ChunkingNext]_chunkingVars =>
        [cutting = "loop" /\ cutting' = "loop" =>
            /\ start' - start > ChunkSize \div 2 - Overlap
            /\ start' < Len(normalized)]_chunkingVars
<1> SUFFICES ASSUME IInv, ChunkingNext, cutting = "loop", cutting' = "loop", ~UNCHANGED chunkingVars
             PROVE  start' - start > ChunkSize \div 2 - Overlap /\ start' < Len(normalized)
    BY DEF chunkingVars
<1>1. CutChunk
    BY DEF ChunkingNext, ChunkText, ChunkingRest
<1>2. EndOfChunk(normalized, start) # Len(normalized)
    BY <1>1, CutTypes DEF IInv
<1> QED
    BY <1>1, <1>2, CutTypes DEF IInv

\* Whatever the overlap, a chunk begins more than half a chunk, less the overlap, after
\* the one before, and within the text: up to half a chunk of overlap, chunk_text ends.
THEOREM ChunkingAdvances == ChunkingSpec => ChunksAdvance
<1>1. ChunkingSpec => []IInv
    BY InitIInv, NextIInv, PTL DEF ChunkingSpec
<1> QED
    BY <1>1, NextAdvances, PTL DEF ChunkingSpec, ChunksAdvance

-----------------------------------------------------------------------------
(* Ingestion.                                                              *)

Stored == [version : Nat, count : Nat]

\* Between the reading of a file and its being written.
Held == {"embed", "delete", "insert"}
Busy(q) == ingest[q] \in {"read"} \cup Held

IngestionTypeOK ==
    /\ repository \in {"postgres", "memory"}
    /\ ingest \in [Readers -> {"new", "read", "done", "failed"} \cup Held]
    /\ queue \in [Readers -> Seq(Paths)] /\ asked \in [Readers -> Seq(Paths)]
    /\ content \in [Files -> Stored] /\ read \in [Readers -> Stored]
    /\ began \in [Readers -> [Files -> Stored]]
    /\ deleted \in [Readers -> Nat] /\ rowCount \in Nat
    /\ indexed \subseteq [file : Files, path : Paths, version : Nat, count : Nat, row : Nat]
    /\ pieces \subseteq [file : Files, index : Nat, version : Nat]
    /\ oneByOne \in BOOLEAN

\* A row is known by its file, its path and its number; the row a transaction deletes
\* is, if it is still there, of the path the transaction is about.
RowsInv ==
    /\ \A d \in indexed : d.file = File(d.path) /\ d.path \in written /\ d.row \in 1..rowCount
    /\ \A d, e \in indexed : d.file = e.file \/ d.row = e.row => d = e
    /\ \A q \in Readers : /\ deleted[q] <= rowCount
                          /\ ingest[q] \in Held => queue[q] # <<>>
                          /\ ingest[q] = "insert" =>
                               \A d \in indexed : d.row = deleted[q] => d.path = queue[q][1]

\* No chunk without its document, no document without its chunks, and nothing else.
ChunksInv ==
    /\ \A c \in pieces : \E d \in indexed : d.file = c.file
    /\ \A d \in indexed : Chunks(d.file, d) \subseteq pieces
    /\ repository = "postgres" \/ OneName =>
         \A d \in indexed, c \in pieces : c.file = d.file => c \in Chunks(d.file, d)

Handled(q) == Len(asked[q]) - Len(queue[q])

\* The document of path p among the documents docs is not older than it was before.
Known(docs, before, p) == \E d \in docs : d.file = File(p) /\ d.version >= before[d.file].version

\* Who has read a file holds the newest that was read of it, as nobody else is busy.
Fresh(q) ==
    /\ \A f \in Files : began[q][f].version <= content[f].version
    /\ ingest[q] = "done" => queue[q] = <<>>
    /\ Len(queue[q]) <= Len(asked[q])
    /\ \A i \in 1..Len(queue[q]) : queue[q][i] = asked[q][Handled(q) + i]
    /\ \A i \in 1..Handled(q) : Known(indexed, began[q], asked[q][i])
    /\ ingest[q] \in Held =>
         LET f == File(queue[q][1]) IN
         /\ began[q][f].version <= read[q].version /\ read[q].version <= content[f].version
         /\ \A d \in indexed : d.file = f => d.version <= read[q].version

FreshInv ==
    /\ \A p, q \in Readers : Busy(p) /\ Busy(q) => p = q
    /\ \A d \in indexed : d.version <= content[d.file].version
    /\ \A q \in Readers : Fresh(q)

IngestionInv == IngestionTypeOK /\ RowsInv /\ ChunksInv /\ (oneByOne => FreshInv)

LEMMA IngestionStarts == IngestionInit => IngestionInv
<1> SUFFICES ASSUME IngestionInit PROVE IngestionInv
    OBVIOUS
<1>1. content \in [Files -> Stored] /\ \A f \in Files : content[f].version \in Nat
    BY IngestionAssumption DEF IngestionInit, Stored
<1>2. IngestionTypeOK
    BY <1>1 DEF IngestionInit, IngestionTypeOK, Stored, Unread, Held
<1>3. RowsInv /\ ChunksInv
    BY DEF IngestionInit, RowsInv, ChunksInv, Held
<1>4. FreshInv
    BY <1>1 DEF IngestionInit, FreshInv, Fresh, Held, Busy, Handled
<1> QED
    BY <1>2, <1>3, <1>4 DEF IngestionInv

\* What the writing of a document does, in either repository.
Replaces(q) ==
    LET f == File(queue[q][1])
        new == NewDocument(q, queue[q][1])
    IN  /\ ingest[q] \in Held /\ NextFile(q) /\ rowCount' = rowCount + 1
        /\ indexed' = {d \in indexed : d.file # f} \cup {new}
        /\ \A c \in pieces' : c \in pieces \/ c \in Chunks(f, read[q])
        /\ \A c \in pieces : c.file # f => c \in pieces'
        /\ Chunks(f, read[q]) \subseteq pieces'
        /\ repository = "postgres" \/ OneName' =>
             \A c \in pieces' : c.file = f => c \in Chunks(f, read[q])
        /\ UNCHANGED <<repository, content, asked, began, oneByOne>>

\* A path names one file, so that what is deleted is what is of the file to write.
LEMMA InsertReplaces ==
    ASSUME IngestionInv, NEW q \in Readers, InsertDocument(q), ingest'[q] # "failed"
    PROVE  Replaces(q)
<1> DEFINE p == queue[q][1]
           f == File(p)
           gone == {d \in indexed : d.row = deleted[q]}
           left == indexed \ gone
           clash == \E d \in left : d.file = f \/ d.path = p
<1>1. /\ ingest[q] = "insert" /\ repository = "postgres"
      /\ UNCHANGED <<repository, content, asked, began, oneByOne>>
      /\ clash => ingest' = [ingest EXCEPT ![q] = "failed"]
      /\ ~clash => /\ indexed' = left \cup {NewDocument(q, p)}
                   /\ pieces' = Cascade(gone, pieces) \cup Chunks(f, read[q])
                   /\ rowCount' = rowCount + 1
                   /\ NextFile(q)
    BY DEF InsertDocument
<1>2. ~clash
    BY <1>1 DEF IngestionInv, IngestionTypeOK
<1>3. \A d \in gone : d.file = f
    BY <1>1 DEF IngestionInv, RowsInv
<1>4. left = {d \in indexed : d.file # f}
    BY <1>2, <1>3
<1>5. Cascade(gone, pieces) = {c \in pieces : c.file # f}
  <2>1. ASSUME NEW c \in pieces
        PROVE  c.file # f <=> c.file \notin {d.file : d \in gone}
    <3>1. PICK d \in indexed : d.file = c.file
      BY DEF IngestionInv, ChunksInv
    <3> QED
      BY <1>3, <1>4, <3>1
  <2> QED
    BY <2>1 DEF Cascade
<1> QED
    BY <1>1, <1>2, <1>4, <1>5 DEF Replaces, Held

LEMMA UpsertReplaces ==
    ASSUME IngestionInv, NEW q \in Readers, UpsertInMemory(q)
    PROVE  Replaces(q)
<1> DEFINE p == queue[q][1]
           f == File(p)
           stale == DocumentAt(p)
           kept == Cascade(stale, pieces)
<1>1. /\ ingest[q] = "delete" /\ repository = "memory"
      /\ UNCHANGED <<repository, content, asked, began, oneByOne>>
      /\ indexed' = {d \in indexed \ stale : d.file # f} \cup {NewDocument(q, p)}
      /\ pieces' = {c \in kept : c.file # f \/ c.index > read[q].count} \cup Chunks(f, read[q])
      /\ rowCount' = rowCount + 1
      /\ NextFile(q)
    BY DEF UpsertInMemory
<1>2. \A d \in stale : d \in indexed /\ d.file = f
    BY DEF IngestionInv, RowsInv, DocumentAt
<1>3. {d \in indexed \ stale : d.file # f} = {d \in indexed : d.file # f}
    BY <1>2
<1>4. \A c \in pieces : c.file # f => c \in kept
    BY <1>2 DEF Cascade
<1>5. ASSUME OneName' PROVE \A c \in kept : c.file # f
  <2> SUFFICES ASSUME NEW c \in pieces, c.file = f PROVE \E d \in stale : d.file = c.file
    BY DEF Cascade
  <2>1. PICK d \in indexed : d.file = c.file
    BY DEF IngestionInv, ChunksInv
  <2>2. d.path \in written /\ d.file = File(d.path)
    BY DEF IngestionInv, RowsInv
  <2>3. written' = written \cup {p}
    BY <1>1 DEF NextFile
  <2>4. d.path = p
    BY <1>5, <2>1, <2>2, <2>3 DEF OneName
  <2> QED
    BY <2>1, <2>4 DEF DocumentAt
<1>6. kept \subseteq pieces
    BY DEF Cascade
<1> QED
    BY <1>1, <1>3, <1>4, <1>5, <1>6 DEF Replaces, Held

LEMMA ReplacesTypes ==
    ASSUME IngestionInv, NEW q \in Readers, Replaces(q)
    PROVE  /\ queue[q] \in Seq(Paths) /\ queue[q] # <<>> /\ queue[q][1] \in Paths
           /\ File(queue[q][1]) \in Files
           /\ read[q] \in Stored /\ NewDocument(q, queue[q][1]).row = rowCount + 1
           /\ IngestionTypeOK'
<1>1. queue[q] \in Seq(Paths) /\ queue[q] # <<>> /\ queue[q][1] \in Paths /\ Tail(queue[q]) \in Seq(Paths)
    BY DEF IngestionInv, IngestionTypeOK, RowsInv, Replaces
<1>2. File(queue[q][1]) \in Files /\ read[q] \in Stored /\ rowCount \in Nat
    BY <1>1 DEF Files, IngestionInv, IngestionTypeOK
<1>3. NewDocument(q, queue[q][1]) \in [file : Files, path : Paths, version : Nat, count : Nat, row : Nat]
    BY <1>1, <1>2 DEF NewDocument, Stored
<1>4. Chunks(File(queue[q][1]), read[q]) \subseteq [file : Files, index : Nat, version : Nat]
    BY <1>2 DEF Chunks, Stored
<1>5. /\ indexed' \subseteq [file : Files, path : Paths, version : Nat, count : Nat, row : Nat]
      /\ pieces' \subseteq [file : Files, index : Nat, version : Nat]
    BY <1>3, <1>4 DEF Replaces, IngestionInv, IngestionTypeOK
<1>6. Unread \in Stored
    BY DEF Unread, Stored
<1>7. /\ queue' \in [Readers -> Seq(Paths)] /\ read' \in [Readers -> Stored]
      /\ deleted' \in [Readers -> Nat] /\ rowCount' \in Nat
      /\ ingest' \in [Readers -> {"new", "read", "done", "failed"} \cup Held]
    BY <1>1, <1>2, <1>6 DEF Replaces, NextFile, IngestionInv, IngestionTypeOK
<1>8. IngestionTypeOK'
    BY <1>5, <1>7 DEF Replaces, IngestionInv, IngestionTypeOK
<1> QED
    BY <1>1, <1>2, <1>8 DEF NewDocument

\* The documents after a file was written: those of other files, and the new one.
LEMMA AfterReplacing ==
    ASSUME IngestionInv, NEW q \in Readers, Replaces(q), NEW d
    PROVE  d \in indexed' <=> \/ d \in indexed /\ d.file # File(queue[q][1])
                              \/ d = NewDocument(q, queue[q][1])
    BY DEF Replaces

LEMMA ReplacesRows ==
    ASSUME IngestionInv, NEW q \in Readers, Replaces(q)
    PROVE  RowsInv'
<1> DEFINE p == queue[q][1]
           f == File(p)
           new == NewDocument(q, p)
<1>1. /\ new.file = f /\ new.path = p /\ new.row = rowCount + 1 /\ rowCount \in Nat
      /\ rowCount' = rowCount + 1 /\ written' = written \cup {p}
    BY DEF NewDocument, Replaces, NextFile, IngestionInv, IngestionTypeOK
<1>2. \A d \in indexed : d.row \in 1..rowCount /\ d.file = File(d.path) /\ d.path \in written
    BY DEF IngestionInv, IngestionTypeOK, RowsInv
<1> HIDE DEF new
<1>3. \A d \in indexed' : d.file = File(d.path) /\ d.path \in written' /\ d.row \in 1..rowCount'
  <2> SUFFICES ASSUME NEW d \in indexed' PROVE d.file = File(d.path) /\ d.path \in written' /\ d.row \in 1..rowCount'
    OBVIOUS
  <2>1. CASE d \in indexed
    BY <1>1, <1>2, <2>1
  <2>2. CASE d = new
    BY <1>1, <2>2
  <2> QED
    BY <2>1, <2>2, AfterReplacing DEF new
<1>4. \A d, e \in indexed' : d.file = e.file \/ d.row = e.row => d = e
  <2> SUFFICES ASSUME NEW d \in indexed', NEW e \in indexed', d.file = e.file \/ d.row = e.row
               PROVE  d = e
    OBVIOUS
  <2>1. ((d \in indexed /\ d.file # f) \/ d = new) /\ ((e \in indexed /\ e.file # f) \/ e = new)
    BY AfterReplacing DEF new
  <2>2. \A x \in indexed : x.row # new.row
    BY <1>1, <1>2
  <2>3. \A x, y \in indexed : x.file = y.file \/ x.row = y.row => x = y
    BY DEF IngestionInv, RowsInv
  <2> QED
    BY <1>1, <2>1, <2>2, <2>3
<1>5. ASSUME NEW r \in Readers
      PROVE  /\ deleted'[r] <= rowCount'
             /\ ingest'[r] \in Held => queue'[r] # <<>>
             /\ ingest'[r] = "insert" => \A d \in indexed' : d.row = deleted'[r] => d.path = queue'[r][1]
  <2>1. CASE r = q
    <3>1. ingest'[q] = "read" /\ deleted'[q] = 0
      BY DEF Replaces, NextFile, IngestionInv, IngestionTypeOK
    <3> QED
      BY <1>1, <2>1, <3>1 DEF Held
  <2>2. CASE r # q
    <3>1. ingest'[r] = ingest[r] /\ deleted'[r] = deleted[r] /\ queue'[r] = queue[r]
      BY <2>2 DEF Replaces, NextFile, IngestionInv, IngestionTypeOK
    <3>2. /\ deleted[r] <= rowCount /\ deleted[r] \in Nat
          /\ ingest[r] \in Held => queue[r] # <<>>
          /\ ingest[r] = "insert" => \A d \in indexed : d.row = deleted[r] => d.path = queue[r][1]
      BY DEF IngestionInv, IngestionTypeOK, RowsInv
    <3>3. \A d \in indexed' : d.row = deleted[r] => d \in indexed
      BY <1>1, <3>2, AfterReplacing DEF new
    <3> QED
      BY <1>1, <3>1, <3>2, <3>3
  <2> QED
    BY <2>1, <2>2
<1> QED
    BY <1>3, <1>4, <1>5 DEF RowsInv

LEMMA ReplacesChunks ==
    ASSUME IngestionInv, NEW q \in Readers, Replaces(q)
    PROVE  ChunksInv'
<1> DEFINE f == File(queue[q][1])
           new == NewDocument(q, queue[q][1])
<1>1. new.file = f /\ Chunks(new.file, new) = Chunks(f, read[q])
    BY DEF NewDocument, Chunks
<1>2. \A c \in Chunks(f, read[q]) : c.file = f
    BY DEF Chunks
<1>3. /\ \A c \in pieces' : c \in pieces \/ c \in Chunks(f, read[q])
      /\ \A c \in pieces : c.file # f => c \in pieces'
      /\ Chunks(f, read[q]) \subseteq pieces'
      /\ repository' = "postgres" \/ OneName' =>
           \A c \in pieces' : c.file = f => c \in Chunks(f, read[q])
    BY DEF Replaces
<1>4. OneName' => OneName
    BY DEF Replaces, NextFile, OneName
<1> HIDE DEF new
<1>5. ASSUME NEW c \in pieces' PROVE \E d \in indexed' : d.file = c.file
  <2>1. CASE c.file = f
    BY <1>1, <2>1, AfterReplacing DEF new
  <2>2. CASE c.file # f
    <3>1. PICK d \in indexed : d.file = c.file
      BY <1>2, <1>3, <2>2 DEF IngestionInv, ChunksInv
    <3> QED
      BY <2>2, <3>1, AfterReplacing
  <2> QED
    BY <2>1, <2>2
<1>6. ASSUME NEW d \in indexed' PROVE Chunks(d.file, d) \subseteq pieces'
  <2>1. CASE d = new
    BY <1>1, <1>3, <2>1
  <2>2. CASE d \in indexed /\ d.file # f
    <3>1. Chunks(d.file, d) \subseteq pieces
      BY <2>2 DEF IngestionInv, ChunksInv
    <3>2. \A c \in Chunks(d.file, d) : c.file = d.file
      BY DEF Chunks
    <3> QED
      BY <1>3, <2>2, <3>1, <3>2
  <2> QED
    BY <2>1, <2>2, AfterReplacing DEF new
<1>7. ASSUME repository' = "postgres" \/ OneName', NEW d \in indexed', NEW c \in pieces', c.file = d.file
      PROVE  c \in Chunks(d.file, d)
  <2>1. CASE d = new
    BY <1>1, <1>3, <1>7, <2>1
  <2>2. CASE d \in indexed /\ d.file # f
    <3>1. repository = "postgres" \/ OneName
      BY <1>4, <1>7 DEF Replaces
    <3> QED
      BY <1>2, <1>3, <1>7, <2>2, <3>1 DEF IngestionInv, ChunksInv
  <2> QED
    BY <2>1, <2>2, AfterReplacing DEF new
<1> QED
    BY <1>5, <1>6, <1>7 DEF ChunksInv

LEMMA ReplacesFresh ==
    ASSUME IngestionInv, FreshInv, NEW q \in Readers, Replaces(q)
    PROVE  FreshInv'
<1> DEFINE p == queue[q][1]
           f == File(p)
           new == NewDocument(q, p)
<1>1. /\ new.file = f /\ new.version = read[q].version /\ f \in Files
      /\ began' = began /\ content' = content /\ asked' = asked
    BY ReplacesTypes DEF NewDocument, Replaces
<1>2. /\ began[q][f].version <= read[q].version /\ read[q].version <= content[f].version
      /\ \A d \in indexed : d.file = f => d.version <= read[q].version
      /\ \A r \in Readers \ {q} : ingest[r] \notin Held
      /\ ingest[q] \in Held
    BY DEF FreshInv, Fresh, Replaces, Busy
<1>3. /\ ingest'[q] = "read" /\ queue'[q] = Tail(queue[q])
      /\ \A r \in Readers \ {q} : ingest'[r] = ingest[r] /\ queue'[r] = queue[r]
    BY DEF Replaces, NextFile, IngestionInv, IngestionTypeOK
<1>4. /\ read[q].version \in Nat
      /\ \A d \in indexed : d.version \in Nat
      /\ \A r \in Readers, g \in Files : began[r][g].version \in Nat
    BY DEF IngestionInv, IngestionTypeOK, Stored
<1> HIDE DEF new
<1>5. \A r, s \in Readers : Busy(r)' /\ Busy(s)' => r = s
  <2>1. \A r \in Readers : Busy(r)' => Busy(r)
    BY <1>2, <1>3 DEF Busy
  <2> QED
    BY <2>1 DEF FreshInv
<1>6. \A d \in indexed' : d.version <= content'[d.file].version
    BY <1>1, <1>2, AfterReplacing DEF new, FreshInv
<1>7. ASSUME NEW r \in Readers, NEW path, Known(indexed, began[r], path)
      PROVE  Known(indexed', began'[r], path)
  <2>1. PICK d \in indexed : d.file = File(path) /\ d.version >= began[r][d.file].version
    BY <1>7 DEF Known
  <2>2. CASE d.file # f
    <3>1. d \in indexed'
      BY <2>2, AfterReplacing
    <3> QED
      BY <1>1, <2>1, <3>1 DEF Known
  <2>3. CASE d.file = f
    <3>1. new \in indexed'
      BY AfterReplacing DEF new
    <3>2. d.version <= read[q].version /\ began[r][f].version <= d.version
      BY <1>2, <2>1, <2>3
    <3>3. new.version >= began[r][f].version
      BY <1>1, <1>4, <3>2
    <3> QED
      BY <1>1, <2>1, <2>3, <3>1, <3>3 DEF Known
  <2> QED
    BY <2>2, <2>3
<1>8. Known(indexed', began'[q], p)
  <2>1. new \in indexed'
    BY AfterReplacing DEF new
  <2> QED
    BY <1>1, <1>2, <1>4, <2>1 DEF Known
<1>9. ASSUME NEW r \in Readers PROVE Fresh(r)'
  <2>1. CASE r = q
    <3>1. /\ queue[q] \in Seq(Paths) /\ queue[q] # <<>> /\ asked[q] \in Seq(Paths)
      BY ReplacesTypes DEF IngestionInv, IngestionTypeOK
    <3>2. /\ Len(queue[q]) \in Nat /\ Len(queue[q]) >= 1 /\ Len(asked[q]) \in Nat
          /\ Len(queue'[q]) = Len(queue[q]) - 1
          /\ \A i \in 1..Len(queue'[q]) : i + 1 \in 1..Len(queue[q]) /\ queue'[q][i] = queue[q][i + 1]
      BY <1>3, <3>1
    <3>3. /\ Len(queue[q]) <= Len(asked[q])
          /\ \A i \in 1..Len(queue[q]) : queue[q][i] = asked[q][Handled(q) + i]
          /\ \A i \in 1..Handled(q) : Known(indexed, began[q], asked[q][i])
          /\ \A g \in Files : began[q][g].version <= content[g].version
      BY DEF FreshInv, Fresh
    <3>4. Handled(q)' = Handled(q) + 1 /\ Handled(q) \in Nat
      BY <1>1, <3>2, <3>3 DEF Handled
    <3>5. asked[q][Handled(q) + 1] = p
      BY <3>2, <3>3
    <3>6. \A i \in 1..Len(queue'[q]) : queue'[q][i] = asked'[q][Handled(q)' + i]
      <4> SUFFICES ASSUME NEW i \in 1..Len(queue'[q]) PROVE queue'[q][i] = asked[q][Handled(q)' + i]
        BY <1>1
      <4>1. queue'[q][i] = asked[q][Handled(q) + (i + 1)]
        BY <3>2, <3>3
      <4>2. Handled(q)' + i = Handled(q) + (i + 1)
        BY <3>2, <3>4
      <4> QED
        BY <4>1, <4>2
    <3>7. \A i \in 1..Handled(q)' : Known(indexed', began'[q], asked'[q][i])
      <4> SUFFICES ASSUME NEW i \in 1..Handled(q)' PROVE Known(indexed', began'[q], asked[q][i])
        BY <1>1
      <4>1. CASE i \in 1..Handled(q)
        BY <1>7, <3>3, <4>1
      <4>2. CASE i = Handled(q) + 1
        BY <1>8, <3>5, <4>2
      <4> QED
        BY <3>4, <4>1, <4>2
    <3>8. /\ Len(queue'[q]) <= Len(asked'[q])
          /\ \A g \in Files : began'[q][g].version <= content'[g].version
      BY <1>1, <3>2, <3>3
    <3> QED
      BY <1>3, <2>1, <3>6, <3>7, <3>8 DEF Fresh, Held
  <2>2. CASE r # q
    <3>1. Handled(r)' = Handled(r)
      BY <1>1, <1>3, <2>2 DEF Handled
    <3>2. \A i \in 1..Handled(r)' : Known(indexed', began'[r], asked'[r][i])
      BY <1>1, <1>7, <3>1 DEF FreshInv, Fresh
    <3> QED
      BY <1>1, <1>2, <1>3, <2>2, <3>1, <3>2 DEF FreshInv, Fresh
  <2> QED
    BY <2>1, <2>2
<1> QED
    BY <1>5, <1>6, <1>9 DEF FreshInv

\* A step that writes no document, of request q alone.
Quiet(q) ==
    /\ UNCHANGED <<repository, content, indexed, pieces, rowCount, written>>
    /\ \A r \in Readers \ {q} :
         /\ ingest'[r] = ingest[r] /\ queue'[r] = queue[r] /\ read'[r] = read[r]
         /\ deleted'[r] = deleted[r] /\ asked'[r] = asked[r] /\ began'[r] = began[r]

LEMMA QuietRows ==
    ASSUME IngestionInv, NEW q \in Readers, Quiet(q), deleted'[q] <= rowCount,
           ingest'[q] \in Held => queue'[q] # <<>>,
           ingest'[q] = "insert" => \A d \in indexed : d.row = deleted'[q] => d.path = queue'[q][1]
    PROVE  RowsInv' /\ ChunksInv'
<1>1. ASSUME NEW r \in Readers
      PROVE  /\ deleted'[r] <= rowCount
             /\ ingest'[r] \in Held => queue'[r] # <<>>
             /\ ingest'[r] = "insert" => \A d \in indexed : d.row = deleted'[r] => d.path = queue'[r][1]
  <2>1. CASE r = q
    BY <2>1
  <2>2. CASE r # q
    BY <2>2 DEF Quiet, IngestionInv, RowsInv
  <2> QED
    BY <2>1, <2>2
<1>2. RowsInv'
    BY <1>1 DEF Quiet, IngestionInv, RowsInv
<1>3. ChunksInv'
    BY DEF Quiet, IngestionInv, ChunksInv, OneName, Chunks
<1> QED
    BY <1>2, <1>3

LEMMA QuietFresh ==
    ASSUME IngestionInv, FreshInv, NEW q \in Readers, Quiet(q), Fresh(q)',
           Busy(q)' => Busy(q) \/ \A r \in Readers : ~Busy(r)
    PROVE  FreshInv'
<1>1. \A r \in Readers \ {q} : Busy(r)' <=> Busy(r)
    BY DEF Quiet, Busy
<1>2. \A r, s \in Readers : Busy(r)' /\ Busy(s)' => r = s
    BY <1>1 DEF FreshInv
<1>3. ASSUME NEW r \in Readers, r # q PROVE Fresh(r)'
  <2>1. /\ content' = content /\ indexed' = indexed
        /\ ingest'[r] = ingest[r] /\ queue'[r] = queue[r] /\ read'[r] = read[r]
        /\ asked'[r] = asked[r] /\ began'[r] = began[r]
    BY <1>3 DEF Quiet
  <2>2. Handled(r)' = Handled(r) /\ Fresh(r)
    BY <2>1 DEF Handled, FreshInv
  <2> QED
    BY <2>1, <2>2 DEF Fresh
<1> QED
    BY <1>2, <1>3 DEF FreshInv, Quiet

LEMMA IngestPathsKeeps ==
    ASSUME IngestionInv, NEW q \in Readers, IngestPaths(q)
    PROVE  IngestionInv'
<1>1. PICK ps \in Asks[q] : queue' = [queue EXCEPT ![q] = ps]
    BY DEF IngestPaths
<1>2. /\ ingest[q] = "new" /\ ingest' = [ingest EXCEPT ![q] = "read"]
      /\ asked' = [asked EXCEPT ![q] = queue'[q]] /\ began' = [began EXCEPT ![q] = content]
      /\ UNCHANGED <<repository, content, indexed, pieces, read, deleted, rowCount, written>>
      /\ oneByOne' = (oneByOne /\ \A p \in Readers : ingest[p] \in {"new", "done", "failed"})
    BY DEF IngestPaths
<1>3. ps \in Seq(Paths)
    BY IngestionAssumption
<1>4. IngestionTypeOK'
    BY <1>1, <1>2, <1>3 DEF IngestionInv, IngestionTypeOK, Held
<1>5. /\ ingest'[q] = "read" /\ queue'[q] = ps /\ asked'[q] = ps /\ began'[q] = content
      /\ deleted'[q] = deleted[q]
    BY <1>1, <1>2 DEF IngestionInv, IngestionTypeOK
<1>6. Quiet(q)
    BY <1>1, <1>2 DEF Quiet, IngestionInv, IngestionTypeOK
<1>7. RowsInv' /\ ChunksInv'
    BY <1>5, <1>6, QuietRows DEF IngestionInv, RowsInv, Held
<1>8. ASSUME oneByOne' PROVE FreshInv'
  <2>1. FreshInv /\ \A p \in Readers : ~Busy(p)
    BY <1>2, <1>8 DEF IngestionInv, Busy, Held
  <2>2. Len(ps) \in Nat /\ Handled(q)' = 0
    BY <1>3, <1>5 DEF Handled
  <2>3. \A f \in Files : content[f].version \in Nat
    BY DEF IngestionInv, IngestionTypeOK, Stored
  <2>4. Fresh(q)'
    BY <1>2, <1>5, <2>2, <2>3 DEF Fresh, Held
  <2> QED
    BY <1>6, <2>1, <2>4, QuietFresh
<1> QED
    BY <1>4, <1>7, <1>8 DEF IngestionInv

\* The steps between that take a request from one place to the next.
LEMMA StageKeeps ==
    ASSUME IngestionInv, NEW q \in Readers, NEW next \in {"done", "failed"} \cup Held,
           ingest[q] \in {"read"} \cup Held, ingest' = [ingest EXCEPT ![q] = next],
           UNCHANGED <<repository, content, indexed, pieces, queue, rowCount, history>>,
           read' \in [Readers -> Stored], deleted' \in [Readers -> Nat],
           \A r \in Readers \ {q} : read'[r] = read[r] /\ deleted'[r] = deleted[r],
           deleted'[q] <= rowCount, next = "done" => queue[q] = <<>>,
           next \in Held => queue[q] # <<>>,
           next = "insert" => \A d \in indexed : d.row = deleted'[q] => d.path = queue[q][1],
           \/ next \notin Held
           \/ read'[q] = read[q] /\ ingest[q] \in Held
           \/ read'[q] = content[File(queue[q][1])]
    PROVE  IngestionInv'
<1>1. ingest'[q] = next /\ Quiet(q)
    BY DEF Quiet, IngestionInv, IngestionTypeOK, history
<1>2. IngestionTypeOK'
    BY DEF IngestionInv, IngestionTypeOK, history
<1>3. RowsInv' /\ ChunksInv'
    BY <1>1, QuietRows DEF history
<1>4. ASSUME oneByOne' PROVE FreshInv'
  <2>1. FreshInv /\ Busy(q) /\ Fresh(q)
    BY <1>4 DEF IngestionInv, FreshInv, Busy, history
  <2>2. Handled(q)' = Handled(q)
    BY DEF Handled, history
  <2>3. ASSUME next \in Held
        PROVE  LET f == File(queue[q][1]) IN
               /\ began[q][f].version <= read'[q].version /\ read'[q].version <= content[f].version
               /\ \A d \in indexed : d.file = f => d.version <= read'[q].version
    <3>1. CASE read'[q] = read[q] /\ ingest[q] \in Held
      BY <2>1, <3>1 DEF Fresh
    <3>2. CASE read'[q] = content[File(queue[q][1])]
      <4>1. queue[q][1] \in Paths /\ File(queue[q][1]) \in Files
        BY <2>3 DEF IngestionInv, IngestionTypeOK, Files
      <4>2. content[File(queue[q][1])].version \in Nat
        BY <4>1 DEF IngestionInv, IngestionTypeOK, Stored
      <4> QED
        BY <2>1, <3>2, <4>1, <4>2 DEF FreshInv, Fresh
    <3> QED
      BY <2>3, <3>1, <3>2
  <2>4. Fresh(q)'
    BY <1>1, <2>1, <2>2, <2>3 DEF Fresh, history, Held
  <2> QED
    BY <1>1, <2>1, <2>4, QuietFresh
<1> QED
    BY <1>2, <1>3, <1>4 DEF IngestionInv

LEMMA ReadFileKeeps ==
    ASSUME IngestionInv, NEW q \in Readers, ReadFile(q)
    PROVE  IngestionInv'
<1>1. /\ ingest[q] = "read" /\ deleted[q] <= rowCount
      /\ UNCHANGED <<repository, content, indexed, pieces, queue, deleted, rowCount, history>>
      /\ queue[q] \in Seq(Paths) /\ read \in [Readers -> Stored] /\ deleted \in [Readers -> Nat]
    BY DEF ReadFile, IngestionInv, IngestionTypeOK, RowsInv
<1>2. CASE queue[q] = <<>>
  <2>1. ingest' = [ingest EXCEPT ![q] = "done"] /\ UNCHANGED read
    BY <1>2 DEF ReadFile
  <2> QED
    BY <1>1, <1>2, <2>1, StageKeeps DEF Held
<1>3. CASE queue[q] # <<>>
  <2>1. /\ ingest' = [ingest EXCEPT ![q] = "embed"]
        /\ read' = [read EXCEPT ![q] = content[File(queue[q][1])]]
    BY <1>3 DEF ReadFile
  <2>2. queue[q][1] \in Paths /\ content[File(queue[q][1])] \in Stored
    BY <1>1, <1>3 DEF IngestionInv, IngestionTypeOK, Files
  <2>3. /\ read' \in [Readers -> Stored] /\ read'[q] = content[File(queue[q][1])]
        /\ \A r \in Readers \ {q} : read'[r] = read[r]
    BY <1>1, <2>1, <2>2
  <2>4. "embed" \in {"done", "failed"} \cup Held
    BY DEF Held
  <2> QED
    BY <1>1, <1>3, <2>1, <2>3, <2>4, StageKeeps
<1> QED
    BY <1>2, <1>3

LEMMA EmbedKeeps ==
    ASSUME IngestionInv, NEW q \in Readers, Embed(q)
    PROVE  IngestionInv'
<1>1. PICK next \in {"delete", "failed"} : ingest' = [ingest EXCEPT ![q] = next]
    BY DEF Embed
<1>2. /\ ingest[q] = "embed" /\ deleted[q] <= rowCount /\ queue[q] # <<>>
      /\ UNCHANGED <<repository, content, indexed, pieces, queue, read, deleted, rowCount, history>>
      /\ read \in [Readers -> Stored] /\ deleted \in [Readers -> Nat]
    BY DEF Embed, IngestionInv, IngestionTypeOK, RowsInv, Held
<1> QED
    BY <1>1, <1>2, StageKeeps DEF Held

LEMMA DeleteKeeps ==
    ASSUME IngestionInv, NEW q \in Readers, DeleteDocument(q)
    PROVE  IngestionInv'
<1> DEFINE at == DocumentAt(queue[q][1])
           row == IF at = {} THEN 0 ELSE (CHOOSE d \in at : TRUE).row
<1>1. /\ ingest[q] = "delete" /\ queue[q] # <<>>
      /\ ingest' = [ingest EXCEPT ![q] = "insert"] /\ deleted' = [deleted EXCEPT ![q] = row]
      /\ UNCHANGED <<repository, content, indexed, pieces, queue, read, rowCount, history>>
      /\ read \in [Readers -> Stored] /\ deleted \in [Readers -> Nat] /\ rowCount \in Nat
    BY DEF DeleteDocument, IngestionInv, IngestionTypeOK, RowsInv, Held
<1>2. at # {} => (CHOOSE d \in at : TRUE) \in at
    BY Zenon
<1>3. at # {} => \E d \in indexed : d.path = queue[q][1] /\ d.row = row
    BY <1>2 DEF DocumentAt
<1>4. row \in Nat /\ row <= rowCount
    BY <1>1, <1>3 DEF IngestionInv, IngestionTypeOK, RowsInv
<1>5. \A d \in indexed : d.row = row => d.path = queue[q][1]
  <2>1. CASE at # {}
    BY <1>3, <2>1 DEF IngestionInv, RowsInv
  <2>2. CASE at = {}
    <3>1. \A d \in indexed : d.row # 0
      BY <1>1 DEF IngestionInv, RowsInv
    <3> QED
      BY <2>2, <3>1
  <2> QED
    BY <2>1, <2>2
<1> HIDE DEF row
<1>6. deleted' \in [Readers -> Nat] /\ deleted'[q] = row /\ \A r \in Readers \ {q} : deleted'[r] = deleted[r]
    BY <1>1, <1>4
<1>7. "insert" \in {"done", "failed"} \cup Held /\ ingest[q] \in Held
    BY <1>1 DEF Held
<1> QED
    BY <1>1, <1>4, <1>5, <1>6, <1>7, StageKeeps

LEMMA InsertKeeps ==
    ASSUME IngestionInv, NEW q \in Readers, InsertDocument(q)
    PROVE  IngestionInv'
<1>1. CASE ingest'[q] # "failed"
    BY <1>1, InsertReplaces, ReplacesTypes, ReplacesRows, ReplacesChunks, ReplacesFresh
       DEF IngestionInv, Replaces
<1>2. CASE ingest'[q] = "failed"
  <2>1. /\ ingest[q] = "insert" /\ deleted[q] <= rowCount /\ queue[q] # <<>>
        /\ ingest' = [ingest EXCEPT ![q] = "failed"]
        /\ UNCHANGED <<repository, content, indexed, pieces, queue, read, deleted, rowCount, history>>
        /\ read \in [Readers -> Stored] /\ deleted \in [Readers -> Nat]
    BY <1>2 DEF InsertDocument, NextFile, IngestionInv, IngestionTypeOK, RowsInv, Held, history
  <2> QED
    BY <2>1, StageKeeps DEF Held
<1> QED
    BY <1>1, <1>2

LEMMA EditKeeps ==
    ASSUME IngestionInv, NEW f \in Files, Edit(f)
    PROVE  IngestionInv'
<1>1. PICK n \in Lengths : content' = [content EXCEPT ![f] = [version |-> @.version + 1, count |-> n]]
    BY DEF Edit
<1>2. UNCHANGED <<repository, indexed, pieces, ingest, queue, read, deleted, rowCount, history>>
    BY DEF Edit
<1>3. /\ content \in [Files -> Stored] /\ n \in Nat
      /\ \A g \in Files : content[g].version \in Nat
    BY IngestionAssumption DEF IngestionInv, IngestionTypeOK, Stored
<1>4. /\ content' \in [Files -> Stored]
      /\ \A g \in Files : content'[g].version \in Nat /\ content[g].version <= content'[g].version
    BY <1>1, <1>3 DEF Stored
<1>5. IngestionTypeOK' /\ RowsInv' /\ ChunksInv'
    BY <1>2, <1>4 DEF IngestionInv, IngestionTypeOK, RowsInv, ChunksInv, OneName, Chunks, history
<1>6. ASSUME FreshInv PROVE FreshInv'
  <2>1. \A d \in indexed : d.file \in Files /\ d.version \in Nat
    BY DEF IngestionInv, IngestionTypeOK
  <2>2. \A d \in indexed' : d.version <= content'[d.file].version
    BY <1>2, <1>3, <1>4, <1>6, <2>1 DEF FreshInv
  <2>3. ASSUME NEW q \in Readers PROVE Fresh(q)'
    <3>1. Handled(q)' = Handled(q)
      BY <1>2 DEF Handled, history
    <3>2. ingest[q] \in Held => File(queue[q][1]) \in Files /\ read[q].version \in Nat
      <4>1. ingest[q] \in Held => queue[q] # <<>> /\ queue[q] \in Seq(Paths)
        BY DEF IngestionInv, IngestionTypeOK, RowsInv
      <4>2. ingest[q] \in Held => queue[q][1] \in Paths
        BY <4>1
      <4>3. read[q].version \in Nat
        BY DEF IngestionInv, IngestionTypeOK, Stored
      <4> QED
        BY <4>2, <4>3 DEF Files
    <3>3. \A g \in Files : began[q][g].version \in Nat
      BY DEF IngestionInv, IngestionTypeOK, Stored
    <3>4. \A g \in Files : began'[q][g].version <= content'[g].version
      BY <1>2, <1>3, <1>4, <1>6, <3>3 DEF FreshInv, Fresh, history
    <3>5. ingest[q] \in Held => read[q].version <= content'[File(queue[q][1])].version
      BY <1>3, <1>4, <1>6, <3>2 DEF FreshInv, Fresh
    <3> QED
      BY <1>2, <1>6, <3>1, <3>4, <3>5 DEF FreshInv, Fresh, history
  <2> QED
    BY <1>2, <1>6, <2>2, <2>3 DEF FreshInv, Busy
<1> QED
    BY <1>2, <1>5, <1>6 DEF IngestionInv, history

LEMMA IngestionKeeps == IngestionInv /\ [IngestionNext]_ingestionVars => IngestionInv'
<1> SUFFICES ASSUME IngestionInv, [IngestionNext]_ingestionVars PROVE IngestionInv'
    OBVIOUS
<1>1. ASSUME NEW q \in Readers, UpsertInMemory(q) PROVE IngestionInv'
    BY <1>1, UpsertReplaces, ReplacesTypes, ReplacesRows, ReplacesChunks, ReplacesFresh
       DEF IngestionInv, Replaces
<1>2. CASE UNCHANGED ingestionVars
  <2>1. IngestionTypeOK' /\ RowsInv'
    BY <1>2 DEF ingestionVars, history, IngestionInv, IngestionTypeOK, RowsInv
  <2>2. ChunksInv'
    BY <1>2 DEF ingestionVars, history, IngestionInv, ChunksInv, OneName, Chunks
  <2>3. ASSUME NEW q \in Readers, Fresh(q) PROVE Fresh(q)'
    BY <1>2, <2>3 DEF ingestionVars, history, Fresh, Handled
  <2>4. FreshInv => FreshInv'
    BY <1>2, <2>3 DEF ingestionVars, history, FreshInv, Busy
  <2> QED
    BY <1>2, <2>1, <2>2, <2>4 DEF ingestionVars, history, IngestionInv
<1> QED
    BY <1>1, <1>2, EditKeeps, IngestPathsKeeps, ReadFileKeeps, EmbedKeeps, DeleteKeeps, InsertKeeps
       DEF IngestionNext, IngestionRest

LEMMA IngestionHolds == IngestionSpec => []IngestionInv
    BY IngestionStarts, IngestionKeeps, PTL DEF IngestionSpec

LEMMA AllRanked ==
    ASSUME IngestionInv, NEW d \in indexed
    PROVE  Chunks(d.file, d) \X {d} \subseteq Ranked
<1>1. \A c \in Chunks(d.file, d) : c.file = d.file /\ c \in pieces
    BY DEF Chunks, IngestionInv, ChunksInv
<1> QED
    BY <1>1 DEF Ranked

LEMMA WholeDocuments == IngestionInv => DocumentsAreWhole
<1> SUFFICES ASSUME IngestionInv PROVE DocumentsAreWhole
    OBVIOUS
<1>1. \A d, e \in indexed : d.file = e.file \/ d.path = e.path => d = e
    BY DEF IngestionInv, RowsInv
<1>2. {result[1] : result \in Ranked} = pieces
  <2>1. ASSUME NEW c \in pieces PROVE c \in {result[1] : result \in Ranked}
    <3>1. PICK d \in indexed : d.file = c.file
      BY DEF IngestionInv, ChunksInv
    <3>2. <<c, d>> \in Ranked /\ <<c, d>>[1] = c
      BY <3>1 DEF Ranked
    <3> QED
      BY <3>2
  <2> QED
    BY <2>1 DEF Ranked
<1>3. ASSUME repository = "postgres" \/ OneName, NEW d \in indexed
      PROVE  {result \in Ranked : result[2] = d} = Chunks(d.file, d) \X {d}
  <2>1. ASSUME NEW result \in Ranked, result[2] = d PROVE result \in Chunks(d.file, d) \X {d}
    BY <1>3, <2>1 DEF Ranked, IngestionInv, ChunksInv
  <2> QED
    BY <2>1, AllRanked
<1> QED
    BY <1>1, <1>2, <1>3 DEF DocumentsAreWhole

LEMMA FoundAgain == IngestionInv => IngestedIsFound
<1> SUFFICES ASSUME IngestionInv, oneByOne, NEW q \in Readers, ingest[q] = "done",
                    NEW i \in DOMAIN asked[q]
             PROVE  \E d \in indexed :
                        /\ d.file = File(asked[q][i]) /\ d.version >= began[q][d.file].version
                        /\ Chunks(d.file, d) \X {d} \subseteq Ranked
    BY DEF IngestedIsFound
<1>1. Fresh(q) /\ asked[q] \in Seq(Paths)
    BY DEF IngestionInv, IngestionTypeOK, FreshInv
<1>2. Handled(q) = Len(asked[q]) /\ i \in 1..Len(asked[q])
  <2>1. queue[q] = <<>>
    BY <1>1 DEF Fresh
  <2>2. Len(queue[q]) = 0 /\ Len(asked[q]) \in Nat
    BY <1>1, <2>1
  <2> QED
    BY <1>1, <2>2 DEF Handled
<1>3. Known(indexed, began[q], asked[q][i])
    BY <1>1, <1>2 DEF Fresh
<1> QED
    BY <1>3, AllRanked DEF Known

\* Whatever is ingested at the same time, wherever an ingestion stops, and however files
\* are named: a query finds a document once, and all of it.
THEOREM IngestedWhole == IngestionSpec => []DocumentsAreWhole
    BY IngestionHolds, WholeDocuments, PTL

\* What a request has ingested stays found, unless requests overlap.
THEOREM IngestedFound == IngestionSpec => []IngestedIsFound
    BY IngestionHolds, FoundAgain, PTL

-----------------------------------------------------------------------------
(* DatasetBuild: lists of seeds.                                           *)

Increasing(s) == \A i, j \in DOMAIN s : i < j => s[i] < s[j]

LEMMA MembersAre ==
    ASSUME NEW S, NEW s \in Seq(S)
    PROVE  /\ \A x : x \in ToSet(s) <=> \E i \in 1..Len(s) : x = s[i]
           /\ ToSet(s) \subseteq S /\ DOMAIN s = 1..Len(s) /\ Len(s) \in Nat
           /\ s = <<>> <=> Len(s) = 0
BY DEF ToSet

LEMMA JoinedIs ==
    ASSUME NEW S, NEW s \in Seq(S), NEW t \in Seq(S)
    PROVE  /\ s \o t \in Seq(S) /\ Len(s \o t) = Len(s) + Len(t)
           /\ \A i \in 1..Len(s) : (s \o t)[i] = s[i]
           /\ \A i \in 1..Len(t) : (s \o t)[Len(s) + i] = t[i]
           /\ \A k \in 1..(Len(s) + Len(t)) :
                k \in 1..Len(s) \/ \E i \in 1..Len(t) : k = Len(s) + i
<1>1. s \o t \in Seq(S) /\ Len(s \o t) = Len(s) + Len(t) /\ Len(s) \in Nat /\ Len(t) \in Nat
    BY ConcatProperties
<1>2. \A i \in 1..(Len(s) + Len(t)) : (s \o t)[i] = IF i <= Len(s) THEN s[i] ELSE t[i - Len(s)]
    BY ConcatProperties
<1> DEFINE u == s \o t
<1> HIDE DEF u
<1>3. \A i \in 1..(Len(s) + Len(t)) : u[i] = IF i <= Len(s) THEN s[i] ELSE t[i - Len(s)]
    BY <1>2 DEF u
<1>4. \A i \in 1..Len(s) : u[i] = s[i]
    BY <1>1, <1>3
<1>5. ASSUME NEW i \in 1..Len(t) PROVE u[Len(s) + i] = t[i]
  <2>1. /\ Len(s) + i \in 1..(Len(s) + Len(t)) /\ ~(Len(s) + i <= Len(s))
        /\ (Len(s) + i) - Len(s) = i
    BY <1>1
  <2>2. u[Len(s) + i] = t[(Len(s) + i) - Len(s)]
    BY <1>3, <2>1
  <2> QED
    BY <2>1, <2>2
<1>6. ASSUME NEW k \in 1..(Len(s) + Len(t)), k \notin 1..Len(s)
      PROVE  \E i \in 1..Len(t) : k = Len(s) + i
  <2>1. k - Len(s) \in 1..Len(t) /\ k = Len(s) + (k - Len(s))
    BY <1>1, <1>6
  <2> QED
    BY <2>1
<1> QED
    BY <1>1, <1>4, <1>5, <1>6 DEF u

LEMMA JoinedMembers ==
    ASSUME NEW S, NEW s \in Seq(S), NEW t \in Seq(S)
    PROVE  s \o t \in Seq(S) /\ ToSet(s \o t) = ToSet(s) \cup ToSet(t)
<1> DEFINE u == s \o t
<1>1. /\ u \in Seq(S) /\ Len(u) = Len(s) + Len(t)
      /\ \A i \in 1..Len(s) : u[i] = s[i] /\ i \in 1..Len(u)
      /\ \A i \in 1..Len(t) : u[Len(s) + i] = t[i] /\ Len(s) + i \in 1..Len(u)
      /\ \A k \in 1..Len(u) : k \in 1..Len(s) \/ \E i \in 1..Len(t) : k = Len(s) + i
  <2>1. Len(s) \in Nat /\ Len(t) \in Nat
    OBVIOUS
  <2>2. /\ \A i \in 1..Len(s) : i \in 1..(Len(s) + Len(t))
        /\ \A i \in 1..Len(t) : Len(s) + i \in 1..(Len(s) + Len(t))
    BY <2>1
  <2> QED
    BY <2>2, JoinedIs
<1> HIDE DEF u
<1>2. ASSUME NEW x PROVE x \in ToSet(u) <=> (x \in ToSet(s) \/ x \in ToSet(t))
  <2>1. x \in ToSet(u) <=> \E k \in 1..Len(u) : x = u[k]
    <3>1. u \in Seq(S)
      BY <1>1
    <3> QED
      BY <3>1, MembersAre
  <2>2. x \in ToSet(s) <=> \E k \in 1..Len(s) : x = s[k]
    BY MembersAre
  <2>3. x \in ToSet(t) <=> \E k \in 1..Len(t) : x = t[k]
    BY MembersAre
  <2> QED
    BY <1>1, <2>1, <2>2, <2>3
<1> QED
    BY <1>1, <1>2 DEF u

LEMMA JoinedIncreases ==
    ASSUME NEW s \in Seq(Nat), NEW t \in Seq(Nat), Increasing(s), Increasing(t),
           \A a \in ToSet(s), b \in ToSet(t) : a < b
    PROVE  Increasing(s \o t)
<1> DEFINE u == s \o t
<1>1. /\ u \in Seq(Nat) /\ Len(u) = Len(s) + Len(t) /\ Len(s) \in Nat /\ Len(t) \in Nat
      /\ \A i \in 1..Len(s) : u[i] = s[i]
      /\ \A i \in 1..Len(t) : u[Len(s) + i] = t[i]
      /\ \A k \in 1..Len(u) : k \in 1..Len(s) \/ \E i \in 1..Len(t) : k = Len(s) + i
    BY JoinedIs
<1> HIDE DEF u
<1>2. DOMAIN u = 1..Len(u) /\ DOMAIN s = 1..Len(s) /\ DOMAIN t = 1..Len(t)
    BY <1>1
<1> SUFFICES ASSUME NEW i \in 1..Len(u), NEW j \in 1..Len(u), i < j PROVE u[i] < u[j]
    BY <1>2 DEF Increasing, u
<1>3. CASE i \in 1..Len(s) /\ j \in 1..Len(s)
    BY <1>1, <1>2, <1>3 DEF Increasing
<1>4. CASE i \in 1..Len(s) /\ j \notin 1..Len(s)
  <2>1. PICK k \in 1..Len(t) : j = Len(s) + k
    BY <1>1, <1>4
  <2>2. s[i] \in ToSet(s) /\ t[k] \in ToSet(t)
    BY <1>4, MembersAre
  <2>3. u[i] = s[i] /\ u[j] = t[k]
    BY <1>1, <1>4, <2>1
  <2> QED
    BY <2>2, <2>3
<1>5. CASE i \notin 1..Len(s)
  <2>1. PICK h \in 1..Len(t) : i = Len(s) + h
    BY <1>1, <1>5
  <2>2. j \notin 1..Len(s)
    BY <1>1, <2>1
  <2>3. PICK k \in 1..Len(t) : j = Len(s) + k
    BY <1>1, <2>2
  <2>4. h < k
    BY <1>1, <2>1, <2>3
  <2>5. t[h] < t[k]
    BY <1>2, <2>4 DEF Increasing
  <2>6. u[i] = t[h] /\ u[j] = t[k]
    BY <1>1, <2>1, <2>3
  <2> QED
    BY <2>5, <2>6
<1> QED
    BY <1>3, <1>4, <1>5

\* What comes first of a list that increases.
LEMMA FirstOnes ==
    ASSUME NEW s \in Seq(Nat), NEW n \in Nat
    PROVE  LET t == SubSeq(s, 1, Least(n, Len(s))) IN
           /\ t \in Seq(Nat) /\ Len(t) = Least(n, Len(s)) /\ ToSet(t) \subseteq ToSet(s)
           /\ \A i \in 1..Len(t) : t[i] = s[i]
           /\ Len(t) < n => t = s
           /\ Increasing(s) =>
                /\ Increasing(t)
                /\ \A e \in ToSet(t), x \in ToSet(s) : x <= e => x \in ToSet(t)
<1> DEFINE m == Least(n, Len(s))
           t == SubSeq(s, 1, m)
<1>1. Len(s) \in Nat /\ m \in 0..Len(s) /\ m <= n /\ (m < n => m = Len(s))
    BY DEF Least
<1>2. t \in Seq(Nat) /\ Len(t) = m /\ \A i \in 1..m : t[i] = s[i]
  <2>1. \A i \in 1..m : s[i] \in Nat
    BY <1>1
  <2>2. /\ SubSeq(s, 1, m) \in Seq(Nat) /\ Len(SubSeq(s, 1, m)) = IF 1 <= m THEN m - 1 + 1 ELSE 0
        /\ \A i \in 1..(m - 1 + 1) : SubSeq(s, 1, m)[i] = s[1 + i - 1]
    <3> HIDE DEF m
    <3> QED
      BY <1>1, <2>1, SubSeqProperties
  <2> HIDE DEF m
  <2> QED
    BY <1>1, <2>2
<1>3. m < n => t = s
    BY <1>1, SubSeqFull
<1> HIDE DEF t, m
<1>4. ToSet(t) \subseteq ToSet(s)
  <2> SUFFICES ASSUME NEW x \in ToSet(t) PROVE x \in ToSet(s)
    OBVIOUS
  <2>1. PICK i \in 1..m : x = t[i]
    BY <1>2, MembersAre
  <2>2. i \in 1..Len(s) /\ x = s[i]
    BY <1>1, <1>2, <2>1
  <2> QED
    BY <2>2, MembersAre
<1>5. ASSUME Increasing(s) PROVE Increasing(t)
  <2>1. DOMAIN t = 1..m /\ DOMAIN s = 1..Len(s) /\ \A i \in 1..m : i \in 1..Len(s)
    BY <1>1, <1>2
  <2> QED
    BY <1>2, <1>5, <2>1 DEF Increasing
<1>6. ASSUME Increasing(s), NEW e \in ToSet(t), NEW x \in ToSet(s), x <= e PROVE x \in ToSet(t)
  <2>1. PICK i \in 1..m : e = t[i]
    BY <1>2, MembersAre
  <2>2. PICK j \in 1..Len(s) : x = s[j]
    BY MembersAre
  <2>3. i \in 1..Len(s) /\ e = s[i] /\ s[i] \in Nat /\ s[j] \in Nat
    BY <1>1, <1>2, <2>1
  <2>4. ~(i < j)
    <3>1. i < j => s[i] < s[j]
      BY <1>6, <2>2, <2>3 DEF Increasing
    <3> QED
      BY <1>6, <2>2, <2>3, <3>1
  <2>5. j \in 1..m /\ x = t[j]
    BY <1>1, <1>2, <2>1, <2>2, <2>4
  <2> QED
    BY <1>2, <2>5, MembersAre
<1> QED
    BY <1>1, <1>2, <1>3, <1>4, <1>5, <1>6 DEF t, m

LEMMA IncreasingIsInjective ==
    ASSUME NEW s \in Seq(Nat), Increasing(s)
    PROVE  IsInjective(s)
<1>1. DOMAIN s = 1..Len(s) /\ \A i \in 1..Len(s) : s[i] \in Nat
    OBVIOUS
<1> SUFFICES ASSUME NEW i \in 1..Len(s), NEW j \in 1..Len(s), s[i] = s[j], i # j PROVE FALSE
    BY <1>1 DEF IsInjective
<1>2. i < j \/ j < i
    OBVIOUS
<1> QED
    BY <1>1, <1>2 DEF Increasing

-----------------------------------------------------------------------------
(* Lists of chunks, one after the other.                                   *)

\* What is among the first n of some chunks.
InFirst(chunks, n) == UNION {ToSet(chunks[i]) : i \in 1..n}

LEMMA InFirstIs ==
    ASSUME NEW chunks, NEW n \in Nat
    PROVE  /\ InFirst(chunks, n + 1) = InFirst(chunks, n) \cup ToSet(chunks[n + 1])
           /\ \A x : x \in InFirst(chunks, n) <=> \E i \in 1..n : x \in ToSet(chunks[i])
           /\ InFirst(chunks, 0) = {}
<1>1. 1..(n + 1) = 1..n \cup {n + 1} /\ 1..0 = {}
    OBVIOUS
<1> QED
    BY <1>1 DEF InFirst

\* FlattenSeq goes through the chunks: what it has after each of them.
FlattenedBy(chunks, g) ==
    /\ g[0] = <<>> /\ g[Len(chunks)] = FlattenSeq(chunks)
    /\ \A k \in 0..(Len(chunks) - 1) : g[k + 1] = g[k] \o chunks[k + 1]

LEMMA FlattenedStepwise ==
    ASSUME NEW S, NEW chunks \in Seq(Seq(S))
    PROVE  \E g \in [Nat -> Seq(S)] : FlattenedBy(chunks, g)
<1> DEFINE n == Len(chunks)
           step == [x \in Seq(S) \X Nat |-> IF x[2] \in 1..n THEN x[1] \o chunks[x[2]] ELSE x[1]]
<1>1. n \in Nat /\ \A k \in 1..n : chunks[k] \in Seq(S)
    OBVIOUS
<1> HIDE DEF n
<1>2. <<>> \in Seq(S) /\ step \in [Seq(S) \X Nat -> Seq(S)]
  <2> SUFFICES ASSUME NEW a \in Seq(S), NEW k \in Nat
               PROVE  (IF k \in 1..n THEN a \o chunks[k] ELSE a) \in Seq(S)
    OBVIOUS
  <2> QED
    BY <1>1, ConcatProperties
<1>3. PICK g \in [Nat -> Seq(S)] : Recurs(g, <<>>, step)
  <2> HIDE DEF step
  <2> QED
    BY <1>2, RecursionOnNat
<1>4. g[0] = <<>>
    BY <1>3 DEF Recurs
<1>5. ASSUME NEW k \in 0..(n - 1) PROVE g[k + 1] = g[k] \o chunks[k + 1]
  <2>1. k \in Nat /\ k + 1 \in 1..n /\ k + 1 \in Nat /\ k + 1 # 0 /\ (k + 1) - 1 = k
    BY <1>1
  <2> HIDE DEF step
  <2>2. g[k + 1] = step[<<g[k], k + 1>>]
    BY <1>3, <2>1 DEF Recurs
  <2> DEFINE before == g[k]
             next == k + 1
  <2>3. before \in Seq(S)
    BY <2>1
  <2> HIDE DEF before, next
  <2>4. next \in 1..n /\ next \in Nat
    BY <2>1 DEF next
  <2>5. step[<<before, next>>] = before \o chunks[next]
    BY <2>3, <2>4 DEF step
  <2> QED
    BY <2>2, <2>5 DEF before, next
<1> HIDE DEF step
<1>6. CASE n = 0
  <2>1. chunks = <<>> /\ Len(chunks) = 0
    BY <1>6 DEF n
  <2>2. FlattenSeq(chunks) = <<>>
    BY <2>1 DEF FlattenSeq
  <2>3. 0..(Len(chunks) - 1) = {}
    BY <2>1
  <2>4. FlattenedBy(chunks, g)
    BY <1>4, <2>1, <2>2, <2>3 DEF FlattenedBy
  <2> QED
    BY <2>4
<1>7. CASE n # 0
  <2> DEFINE Step(f, i) == IF i = 1 THEN chunks[i] ELSE f[i - 1] \o chunks[i]
             flatten == CHOOSE f : f = [i \in 1..n |-> Step(f, i)]
             h == [i \in 1..n |-> g[i]]
  <2>1. h = [i \in 1..n |-> Step(h, i)]
    <3> SUFFICES ASSUME NEW i \in 1..n PROVE g[i] = Step(h, i)
      OBVIOUS
    <3>1. i - 1 \in 0..(n - 1) /\ (i - 1) + 1 = i
      BY <1>1
    <3>2. g[i] = g[i - 1] \o chunks[i]
      BY <1>5, <3>1
    <3>3. CASE i = 1
      <4>1. g[i - 1] = <<>> /\ chunks[i] \in Seq(S)
        BY <1>1, <1>4, <3>3
      <4>2. <<>> \o chunks[i] = chunks[i]
        BY <4>1, ConcatEmptySeq
      <4> QED
        BY <3>2, <3>3, <4>1, <4>2
    <3>4. CASE i # 1
      <4>1. i - 1 \in 1..n
        BY <1>1, <3>4
      <4> QED
        BY <3>2, <3>4, <4>1
    <3> QED
      BY <3>3, <3>4
  <2>2. flatten = [i \in 1..n |-> Step(flatten, i)]
    <3> HIDE DEF Step, h
    <3> QED
      BY <2>1
  <2>3. FlattenSeq(chunks) = flatten[n]
    BY <1>7 DEF FlattenSeq, n
  <2> HIDE DEF flatten
  <2> DEFINE Same == {i \in Nat : i + 1 \in 1..n => flatten[i + 1] = g[i + 1]}
  <2>4. 0 \in Same
    <3>1. 1 \in 1..n => flatten[1] = chunks[1]
      BY <2>2
    <3>2. 1 \in 1..n => h[1] = chunks[1]
      BY <2>1
    <3> QED
      BY <3>1, <3>2
  <2>5. ASSUME NEW i \in Nat, i \in Same PROVE i + 1 \in Same
    <3> SUFFICES ASSUME i + 2 \in 1..n PROVE flatten[i + 2] = g[i + 2]
      BY <1>1
    <3>1. i + 1 \in 1..n /\ i + 1 \in 0..(n - 1) /\ i + 2 # 1 /\ (i + 2) - 1 = i + 1 /\ (i + 1) + 1 = i + 2
      BY <1>1
    <3>2. flatten[i + 1] = g[i + 1]
      BY <2>5, <3>1
    <3>3. flatten[i + 2] = flatten[i + 1] \o chunks[i + 2]
      BY <2>2, <3>1
    <3>4. g[i + 2] = g[i + 1] \o chunks[i + 2]
      BY <1>5, <3>1
    <3> QED
      BY <3>2, <3>3, <3>4
  <2> HIDE DEF Same
  <2>6. \A i \in Nat : i \in Same
    BY <2>4, <2>5, InductionOnNat
  <2>7. n - 1 \in Nat /\ (n - 1) + 1 = n /\ n \in 1..n
    BY <1>1, <1>7
  <2>8. flatten[n] = g[n]
    BY <2>6, <2>7 DEF Same
  <2> QED
    BY <1>4, <1>5, <2>3, <2>8 DEF FlattenedBy, n
<1> QED
    BY <1>6, <1>7

LEMMA FlattenedMembers ==
    ASSUME NEW S, NEW chunks \in Seq(Seq(S))
    PROVE  /\ FlattenSeq(chunks) \in Seq(S)
           /\ ToSet(FlattenSeq(chunks)) = InFirst(chunks, Len(chunks))
<1> DEFINE n == Len(chunks)
<1>1. n \in Nat /\ \A k \in 1..n : chunks[k] \in Seq(S)
    OBVIOUS
<1>2. PICK g \in [Nat -> Seq(S)] : FlattenedBy(chunks, g)
    BY FlattenedStepwise
<1> DEFINE T == {k \in Nat : k <= n => ToSet(g[k]) = InFirst(chunks, k)}
<1>3. 0 \in T
    BY <1>2, InFirstIs DEF FlattenedBy, ToSet
<1>4. ASSUME NEW k \in Nat, k \in T PROVE k + 1 \in T
  <2> SUFFICES ASSUME k + 1 <= n PROVE ToSet(g[k + 1]) = InFirst(chunks, k + 1)
    OBVIOUS
  <2>1. k \in 0..(n - 1) /\ k + 1 \in 1..n /\ ToSet(g[k]) = InFirst(chunks, k)
    BY <1>1, <1>4
  <2>2. g[k + 1] = g[k] \o chunks[k + 1] /\ g[k] \in Seq(S) /\ chunks[k + 1] \in Seq(S)
    BY <1>1, <1>2, <2>1 DEF FlattenedBy
  <2>3. ToSet(g[k + 1]) = ToSet(g[k]) \cup ToSet(chunks[k + 1])
    <3> DEFINE a == g[k]
               b == chunks[k + 1]
    <3>1. a \in Seq(S) /\ b \in Seq(S) /\ g[k + 1] = a \o b
      BY <2>2
    <3> HIDE DEF a, b
    <3>2. ToSet(a \o b) = ToSet(a) \cup ToSet(b)
      BY <3>1, JoinedMembers
    <3> QED
      BY <3>1, <3>2 DEF a, b
  <2> QED
    BY <2>1, <2>3, InFirstIs
<1> HIDE DEF T
<1>5. \A k \in Nat : k \in T
    BY <1>3, <1>4, InductionOnNat
<1>6. n \in T
    BY <1>1, <1>5
<1> QED
    BY <1>1, <1>2, <1>6 DEF T, FlattenedBy

Follows(chunks) ==
    /\ \A i \in 1..Len(chunks) : Increasing(chunks[i])
    /\ \A i, k \in 1..Len(chunks) :
         i < k => \A a \in ToSet(chunks[i]), b \in ToSet(chunks[k]) : a < b

LEMMA FlattenedIncreases ==
    ASSUME NEW chunks \in Seq(Seq(Nat)), Follows(chunks)
    PROVE  Increasing(FlattenSeq(chunks))
<1> DEFINE n == Len(chunks)
<1>1. n \in Nat /\ \A k \in 1..n : chunks[k] \in Seq(Nat)
    OBVIOUS
<1>2. PICK g \in [Nat -> Seq(Nat)] : FlattenedBy(chunks, g)
    BY FlattenedStepwise
<1> DEFINE T == {k \in Nat : k <= n => Increasing(g[k]) /\ ToSet(g[k]) = InFirst(chunks, k)}
<1>3. 0 \in T
    BY <1>2, InFirstIs DEF FlattenedBy, ToSet, Increasing
<1>4. ASSUME NEW k \in Nat, k \in T PROVE k + 1 \in T
  <2> SUFFICES ASSUME k + 1 <= n
               PROVE  Increasing(g[k + 1]) /\ ToSet(g[k + 1]) = InFirst(chunks, k + 1)
    OBVIOUS
  <2>1. /\ k \in 0..(n - 1) /\ k + 1 \in 1..n
        /\ Increasing(g[k]) /\ ToSet(g[k]) = InFirst(chunks, k)
    BY <1>1, <1>4
  <2>2. g[k + 1] = g[k] \o chunks[k + 1] /\ g[k] \in Seq(Nat) /\ chunks[k + 1] \in Seq(Nat)
    BY <1>1, <1>2, <2>1 DEF FlattenedBy
  <2>3. ToSet(g[k + 1]) = InFirst(chunks, k + 1)
    <3> DEFINE a == g[k]
               b == chunks[k + 1]
    <3>1. a \in Seq(Nat) /\ b \in Seq(Nat) /\ g[k + 1] = a \o b
      BY <2>2
    <3> HIDE DEF a, b
    <3>2. ToSet(a \o b) = ToSet(a) \cup ToSet(b)
      BY <3>1, JoinedMembers
    <3>3. InFirst(chunks, k + 1) = InFirst(chunks, k) \cup ToSet(b)
      BY InFirstIs DEF b
    <3> QED
      BY <2>1, <3>1, <3>2, <3>3 DEF a
  <2>4. ASSUME NEW a \in ToSet(g[k]), NEW b \in ToSet(chunks[k + 1]) PROVE a < b
    <3>1. PICK i \in 1..k : a \in ToSet(chunks[i])
      BY <2>1, <2>4, InFirstIs
    <3>2. i \in 1..n /\ i < k + 1
      BY <1>1, <2>1
    <3> QED
      BY <2>1, <3>1, <3>2 DEF Follows
  <2>5. Increasing(chunks[k + 1])
    BY <2>1 DEF Follows
  <2>6. Increasing(g[k + 1])
    BY <2>1, <2>2, <2>4, <2>5, JoinedIncreases
  <2> QED
    BY <2>3, <2>6
<1> HIDE DEF T
<1>5. \A k \in Nat : k \in T
    BY <1>3, <1>4, InductionOnNat
<1>6. n \in T
    BY <1>1, <1>5
<1> QED
    BY <1>1, <1>2, <1>6 DEF T, FlattenedBy

-----------------------------------------------------------------------------
(* What one chunk is made of.                                              *)

\* The first n fruitful seeds there are of those tried, or as many as there are.
MadeFrom(from, n, new) ==
    /\ new \in Seq(Nat) /\ Increasing(new) /\ Len(new) <= n
    /\ \A x \in ToSet(new) : x \in Fruitful /\ x >= from
    /\ \A e \in ToSet(new), s \in Fruitful : from <= s /\ s <= e => s \in ToSet(new)

LEMMA ExamplesAre ==
    ASSUME NEW from \in Nat, NEW n \in Nat
    PROVE  MadeFrom(from, n, Examples(from, n))
<1> DEFINE tried == [i \in 1..(n * 10) |-> from + i - 1]
           at == {i \in DOMAIN tried : tried[i] \in Fruitful}
           all == Pick(tried, at)
           new == SubSeq(all, 1, Least(n, Len(all)))
<1>1. tried \in Seq(Nat) /\ Len(tried) = n * 10 /\ DOMAIN tried = 1..(n * 10)
  <2>1. n * 10 \in Nat /\ \A i \in 1..(n * 10) : from + i - 1 \in Nat
    OBVIOUS
  <2>2. tried \in [1..(n * 10) -> Nat]
    BY <2>1
  <2> QED
    BY <2>1, <2>2
<1>2. \A i \in 1..(n * 10) : tried[i] = from + i - 1
    OBVIOUS
<1> HIDE DEF tried
<1>3. IsList(tried) /\ at \in SUBSET (DOMAIN tried)
    BY <1>1 DEF IsList
<1>4. all \in Seq(Nat)
    BY <1>1, PickFacts
<1>5. PICK p : PickedFrom(tried, at, p)
    BY <1>3, ListPick
<1>6. /\ p \in Seq(Nat) /\ Len(p) = Len(all)
      /\ \A j \in 1..Len(p) : p[j] \in 1..(n * 10) /\ tried[p[j]] \in Fruitful /\ all[j] = tried[p[j]]
      /\ \A i, j \in 1..Len(p) : i < j => p[i] < p[j]
      /\ \A k \in 1..(n * 10) : tried[k] \in Fruitful => \E j \in 1..Len(p) : p[j] = k
    BY <1>1, <1>5 DEF PickedFrom
<1> HIDE DEF all, at
<1>7. \A j \in 1..Len(all) : all[j] \in Fruitful /\ all[j] = from + p[j] - 1 /\ p[j] \in 1..(n * 10)
    BY <1>2, <1>6
<1>8. Increasing(all)
  <2>1. DOMAIN all = 1..Len(all)
    BY <1>4
  <2>2. ASSUME NEW i \in 1..Len(all), NEW j \in 1..Len(all), i < j PROVE all[i] < all[j]
    <3>1. p[i] \in 1..(n * 10) /\ all[i] = from + p[i] - 1
      BY <1>7
    <3>2. p[j] \in 1..(n * 10) /\ all[j] = from + p[j] - 1
      BY <1>7
    <3>3. p[i] < p[j]
      <4>1. Len(p) = Len(all) /\ \A a, b \in 1..Len(p) : a < b => p[a] < p[b]
        BY <1>6
      <4> HIDE DEF new
      <4> QED
        BY <2>2, <4>1
    <3> DEFINE m == n * 10
               x == p[i]
               y == p[j]
    <3>4. x \in 1..m /\ y \in 1..m /\ x < y /\ m \in Nat
      BY <3>1, <3>2, <3>3
    <3> HIDE DEF m, x, y
    <3>5. from + x - 1 < from + y - 1
      BY <3>4
    <3> QED
      BY <3>1, <3>2, <3>5 DEF x, y
  <2> QED
    BY <2>1, <2>2 DEF Increasing
<1>9. ASSUME NEW x \in ToSet(all) PROVE x \in Fruitful /\ x >= from /\ x < from + n * 10
  <2>1. PICK j \in 1..Len(all) : x = all[j]
    BY <1>4, <1>9, MembersAre
  <2> QED
    BY <1>7, <2>1
<1>10. ASSUME NEW s \in Fruitful, from <= s, s < from + n * 10 PROVE s \in ToSet(all)
  <2> DEFINE k == s - from + 1
  <2>1. s \in Nat
    BY DatasetAssumption
  <2>2. k \in 1..(n * 10) /\ from + k - 1 = s
    BY <1>10, <2>1
  <2> HIDE DEF k
  <2>3. tried[k] = s
    BY <1>2, <2>2
  <2>4. PICK j \in 1..Len(p) : p[j] = k
    BY <1>6, <1>10, <2>2, <2>3
  <2>5. j \in 1..Len(all) /\ all[j] = s
    BY <1>6, <2>3, <2>4
  <2> QED
    BY <1>4, <2>5, MembersAre
<1>11. /\ new \in Seq(Nat) /\ Len(new) = Least(n, Len(all)) /\ ToSet(new) \subseteq ToSet(all)
       /\ Increasing(new)
       /\ \A e \in ToSet(new), x \in ToSet(all) : x <= e => x \in ToSet(new)
    BY <1>4, <1>8, FirstOnes
<1>12. Len(new) <= n
    BY <1>4, <1>11 DEF Least
<1>13. Examples(from, n) = new
    BY DEF Examples, new, all, at, tried
<1> HIDE DEF new
<1>14. ASSUME NEW e \in ToSet(new), NEW s \in Fruitful, from <= s, s <= e PROVE s \in ToSet(new)
  <2>1. s \in Nat /\ e \in Nat /\ e < from + n * 10
    BY <1>9, <1>11, <1>14, DatasetAssumption
  <2>2. s < from + n * 10
    BY <1>14, <2>1
  <2> QED
    BY <1>10, <1>11, <1>14, <2>2
<1>15. \A x \in ToSet(new) : x \in Fruitful /\ x >= from
    BY <1>9, <1>11
<1> QED
    BY <1>11, <1>12, <1>13, <1>14, <1>15 DEF MadeFrom

LEMMA LastIsMax ==
    ASSUME NEW s \in Seq(Nat), Increasing(s), s # <<>>
    PROVE  Max(ToSet(s)) \in ToSet(s) /\ \A x \in ToSet(s) : x <= Max(ToSet(s))
<1>1. Len(s) \in Nat /\ Len(s) \in 1..Len(s) /\ DOMAIN s = 1..Len(s) /\ \A i \in 1..Len(s) : s[i] \in Nat
    OBVIOUS
<1> DEFINE n == Len(s)
<1> HIDE DEF n
<1>2. ASSUME NEW x \in ToSet(s) PROVE s[n] >= x
  <2>1. PICK i \in 1..n : x = s[i]
    BY <1>2, MembersAre DEF n
  <2>2. n \in Nat /\ n \in 1..n /\ DOMAIN s = 1..n /\ s[n] \in Nat /\ s[i] \in Nat
    BY <1>1, <2>1 DEF n
  <2>3. i < n => s[i] < s[n]
    BY <2>1, <2>2 DEF Increasing
  <2>4. i = n \/ i < n
    BY <2>1, <2>2
  <2>5. CASE i = n
    BY <2>1, <2>2, <2>5
  <2>6. CASE i < n
    BY <2>1, <2>2, <2>3, <2>6
  <2> QED
    BY <2>4, <2>5, <2>6
<1>3. s[n] \in ToSet(s)
    BY <1>1, MembersAre DEF n
<1>4. Max(ToSet(s)) \in ToSet(s) /\ \A x \in ToSet(s) : Max(ToSet(s)) >= x
  <2>1. \E m \in ToSet(s) : \A x \in ToSet(s) : m >= x
    BY <1>2, <1>3
  <2> QED
    BY <2>1 DEF Max
<1>5. ToSet(s) \subseteq Nat
    BY MembersAre
<1> QED
    BY <1>4, <1>5

\* The next seed is behind all there are, and the first one there is not one before it
\* that has not been tried.
LEMMA NextSeedIs ==
    ASSUME NEW default \in Nat, NEW s \in Seq(Nat), Increasing(s)
    PROVE  /\ NextSeed(default, s) \in Nat
           /\ \A x \in ToSet(s) : x < NextSeed(default, s)
           /\ s = <<>> => NextSeed(default, s) = default
           /\ s # <<>> => NextSeed(default, s) - 1 \in ToSet(s)
<1>1. ToSet(s) \subseteq Nat
    BY MembersAre
<1>2. CASE s = <<>>
  <2>1. ToSet(s) = {}
    BY <1>2 DEF ToSet
  <2> QED
    BY <1>2, <2>1 DEF NextSeed
<1>3. CASE s # <<>>
  <2>1. Max(ToSet(s)) \in ToSet(s) /\ \A x \in ToSet(s) : x <= Max(ToSet(s))
    BY <1>3, LastIsMax
  <2>2. NextSeed(default, s) = Max(ToSet(s)) + 1
    BY <1>3 DEF NextSeed
  <2> DEFINE m == Max(ToSet(s))
  <2> HIDE DEF m
  <2>3. m \in ToSet(s) /\ m \in Nat /\ (\A x \in ToSet(s) : x <= m) /\ NextSeed(default, s) = m + 1
    BY <1>1, <2>1, <2>2 DEF m
  <2>4. m + 1 \in Nat /\ (m + 1) - 1 = m /\ \A x \in ToSet(s) : x < m + 1
    BY <1>1, <2>3
  <2> QED
    BY <1>3, <2>3, <2>4
<1> QED
    BY <1>2, <1>3

-----------------------------------------------------------------------------
(* What a shard has on disk and in its rows.                               *)

\* The seeds of shard w, none twice.
SeedsOf(w, s) ==
    s \in Seq(Nat) /\ Increasing(s) /\ \A x \in ToSet(s) : x \in Fruitful /\ x >= FirstSeed(w)

\* All fruitful seeds before this one, from where the shard begins, are there or skipped.
Covers(w, kept, skipped, end) ==
    \A s \in Fruitful : s >= FirstSeed(w) /\ s < end => s \in kept \cup skipped

\* The chunks kept follow on one another and leave nothing out.
OnDisk(w, chunks, skipped) ==
    /\ chunks \in Seq(Seq(Nat))
    /\ \A i \in 1..Len(chunks) : SeedsOf(w, chunks[i])
    /\ \A i, k \in 1..Len(chunks) :
         i < k => \A a \in ToSet(chunks[i]), b \in ToSet(chunks[k]) : a < b
    /\ \A i \in 1..Len(chunks) : \A e \in ToSet(chunks[i]) : Covers(w, InFirst(chunks, i), skipped, e + 1)

\* In the loop: all rows are before the next seed and are what is in the first at chunks;
\* the next one may be there from an attempt that fell short.
LoopOK(w, kept, next, at, left, chunks, skipped) ==
    /\ at \in Nat /\ at <= Len(chunks) /\ Len(chunks) <= at + 1
    /\ left = Share(w) - Len(kept)
    /\ SeedsOf(w, kept) /\ next \in Nat /\ next >= FirstSeed(w)
    /\ \A x \in ToSet(kept) : x < next
    /\ Covers(w, ToSet(kept), skipped, next)
    /\ left > 0 => ToSet(kept) = InFirst(chunks, at)

LEMMA ShardsAre ==
    ASSUME NEW w \in Shards
    PROVE  w \in Nat /\ Share(w) \in Nat /\ Share(w) >= 1 /\ FirstSeed(w) \in Nat /\ ShardSize \in Nat
<1>1. ShardSize \in Int
    BY DatasetAssumption DEF ShardSize, CeilDiv
<1>2. w \in Nat /\ w * ShardSize \in Int /\ Share(w) \in Int /\ Share(w) > 0
    BY <1>1, DatasetAssumption DEF Shards, Share, Least
<1>3. ShardSize \in Nat
    BY <1>1, <1>2, DatasetAssumption DEF Share, Least
<1>4. SeedStride \in Nat
    BY <1>3 DEF SeedStride
<1>5. w * SeedStride \in Nat
    BY <1>2, <1>4
<1>6. FirstSeed(w) \in Nat
    BY <1>5, DatasetAssumption DEF FirstSeed
<1> QED
    BY <1>2, <1>3, <1>6

LEMMA SkippingMore ==
    ASSUME NEW w, NEW chunks, NEW skipped, NEW more, skipped \subseteq more, OnDisk(w, chunks, skipped)
    PROVE  OnDisk(w, chunks, more)
BY DEF OnDisk, Covers

\* What load_existing_rows and next_seed bring back is where the shard had come to.
LEMMA Resumed ==
    ASSUME NEW w \in Shards, NEW chunks, NEW skipped, OnDisk(w, chunks, skipped)
    PROVE  LET found == FlattenSeq(chunks)
               kept == SubSeq(found, 1, Least(Share(w), Len(found)))
           IN  LoopOK(w, kept, NextSeed(FirstSeed(w), kept), Len(chunks), Share(w) - Len(kept),
                      chunks, skipped)
<1> DEFINE found == FlattenSeq(chunks)
           kept == SubSeq(found, 1, Least(Share(w), Len(found)))
           next == NextSeed(FirstSeed(w), kept)
<1>1. chunks \in Seq(Seq(Nat)) /\ Follows(chunks) /\ Len(chunks) \in Nat
    BY DEF OnDisk, Follows, SeedsOf
<1>2. found \in Seq(Nat) /\ Increasing(found) /\ ToSet(found) = InFirst(chunks, Len(chunks))
    BY <1>1, FlattenedMembers, FlattenedIncreases
<1>3. Share(w) \in Nat /\ FirstSeed(w) \in Nat
    BY ShardsAre
<1> HIDE DEF found
<1>4. /\ kept \in Seq(Nat) /\ Len(kept) = Least(Share(w), Len(found)) /\ ToSet(kept) \subseteq ToSet(found)
      /\ Len(kept) < Share(w) => kept = found
      /\ Increasing(kept)
      /\ \A e \in ToSet(kept), x \in ToSet(found) : x <= e => x \in ToSet(kept)
    BY <1>2, <1>3, FirstOnes
<1> HIDE DEF kept
<1>5. \A x \in ToSet(found) : \E i \in 1..Len(chunks) : x \in ToSet(chunks[i])
    BY <1>1, <1>2, InFirstIs
<1>6. \A x \in ToSet(found) : x \in Fruitful /\ x >= FirstSeed(w)
    BY <1>5 DEF OnDisk, SeedsOf
<1>7. /\ next \in Nat /\ \A x \in ToSet(kept) : x < next
      /\ kept = <<>> => next = FirstSeed(w)
      /\ kept # <<>> => next - 1 \in ToSet(kept)
    BY <1>3, <1>4, NextSeedIs
<1> HIDE DEF next
<1>8. next >= FirstSeed(w)
  <2>1. CASE kept = <<>>
    BY <1>3, <1>7, <2>1
  <2>2. CASE kept # <<>>
    <3>1. next - 1 >= FirstSeed(w)
      BY <1>4, <1>6, <1>7, <2>2
    <3> QED
      BY <1>3, <1>7, <3>1
  <2> QED
    BY <2>1, <2>2
<1>9. ASSUME NEW s \in Fruitful, s >= FirstSeed(w), s < next PROVE s \in ToSet(kept) \cup skipped
  <2>1. s \in Nat
    BY DatasetAssumption
  <2>2. next - 1 \in ToSet(kept)
    BY <1>3, <1>7, <1>9, <2>1
  <2> DEFINE e == next - 1
  <2>3. e \in ToSet(found) /\ e \in ToSet(kept) /\ s < e + 1 /\ s <= e
    BY <1>4, <1>7, <1>9, <2>1, <2>2
  <2> HIDE DEF e
  <2>4. PICK i \in 1..Len(chunks) : e \in ToSet(chunks[i])
    BY <1>5, <2>3
  <2>5. s \in InFirst(chunks, i) \cup skipped
    BY <1>9, <2>3, <2>4 DEF OnDisk, Covers
  <2>6. s \in InFirst(chunks, i) => s \in ToSet(found)
    <3>1. i \in Nat /\ i <= Len(chunks)
      BY <1>1
    <3>2. ASSUME NEW k \in 1..i PROVE k \in 1..Len(chunks)
      BY <1>1, <3>1
    <3> QED
      BY <1>1, <1>2, <3>1, <3>2, InFirstIs
  <2> QED
    BY <1>4, <2>3, <2>5, <2>6
<1>10. Share(w) - Len(kept) > 0 => ToSet(kept) = InFirst(chunks, Len(chunks))
  <2>1. Len(kept) \in Nat
    BY <1>4
  <2> QED
    BY <1>2, <1>3, <1>4, <2>1
<1>11. SeedsOf(w, kept)
    BY <1>4, <1>6 DEF SeedsOf
<1>12. Covers(w, ToSet(kept), skipped, next)
    BY <1>9 DEF Covers
<1>13. LoopOK(w, kept, next, Len(chunks), Share(w) - Len(kept), chunks, skipped)
    BY <1>1, <1>7, <1>8, <1>10, <1>11, <1>12 DEF LoopOK
<1> QED
    BY <1>13 DEF kept, next, found

-----------------------------------------------------------------------------
(* What an attempt at a chunk does.                                        *)

\* The chunks with the one of this index written, or written over.
Written(chunks, at, new) ==
    [i \in 1..Greatest(at + 1, Len(chunks)) |-> IF i = at + 1 THEN new ELSE chunks[i]]

IsWritten(then, chunks, at, new) ==
    /\ then \in Seq(Seq(Nat)) /\ Len(then) = at + 1 /\ then[at + 1] = new
    /\ \A i \in 1..at : then[i] = chunks[i] /\ i \in 1..Len(chunks)
    /\ \A i \in 0..at : InFirst(then, i) = InFirst(chunks, i)
    /\ InFirst(then, at + 1) = InFirst(chunks, at) \cup ToSet(new)

LEMMA WrittenIs ==
    ASSUME NEW chunks \in Seq(Seq(Nat)), NEW at \in Nat, at <= Len(chunks), Len(chunks) <= at + 1,
           NEW new \in Seq(Nat)
    PROVE  IsWritten(Written(chunks, at, new), chunks, at, new)
<1> DEFINE then == Written(chunks, at, new)
<1>1. Len(chunks) \in Nat /\ Greatest(at + 1, Len(chunks)) = at + 1
    BY DEF Greatest
<1>2. then = [i \in 1..(at + 1) |-> IF i = at + 1 THEN new ELSE chunks[i]]
    BY <1>1 DEF Written
<1>3. \A i \in 1..at : i \in 1..Len(chunks) /\ i \in 1..(at + 1) /\ i # at + 1
    BY <1>1
<1>4. \A i \in 1..(at + 1) : i = at + 1 \/ i \in 1..at
    OBVIOUS
<1> HIDE DEF then
<1>5. then[at + 1] = new /\ \A i \in 1..at : then[i] = chunks[i]
    BY <1>2, <1>3
<1>6. then \in [1..(at + 1) -> Seq(Nat)]
  <2>1. ASSUME NEW i \in 1..(at + 1) PROVE (IF i = at + 1 THEN new ELSE chunks[i]) \in Seq(Nat)
    BY <1>3, <1>4
  <2> QED
    BY <1>2, <2>1
<1>7. then \in Seq(Seq(Nat)) /\ Len(then) = at + 1
    BY <1>6
<1>8. ASSUME NEW i \in 0..at PROVE InFirst(then, i) = InFirst(chunks, i)
  <2>1. \A k \in 1..i : k \in 1..at
    OBVIOUS
  <2> QED
    BY <1>5, <2>1 DEF InFirst
<1>9. InFirst(then, at + 1) = InFirst(chunks, at) \cup ToSet(new)
    BY <1>5, <1>8, InFirstIs
<1> QED
    BY <1>3, <1>5, <1>7, <1>8, <1>9 DEF then, IsWritten

\* A chunk written at the place where the loop is leaves nothing out.
LEMMA ChunkFits ==
    ASSUME NEW w \in Shards, NEW chunks, NEW skipped, OnDisk(w, chunks, skipped),
           NEW kept, NEW next, NEW at, NEW left, left > 0,
           LoopOK(w, kept, next, at, left, chunks, skipped),
           NEW n, NEW new, MadeFrom(next, n, new)
    PROVE  OnDisk(w, Written(chunks, at, new), skipped)
<1> DEFINE then == Written(chunks, at, new)
<1>1. /\ chunks \in Seq(Seq(Nat)) /\ at \in Nat /\ at <= Len(chunks) /\ Len(chunks) <= at + 1
      /\ new \in Seq(Nat) /\ next \in Nat /\ next >= FirstSeed(w) /\ FirstSeed(w) \in Nat
      /\ Increasing(new)
    BY ShardsAre DEF OnDisk, LoopOK, MadeFrom
<1>2. /\ then \in Seq(Seq(Nat)) /\ Len(then) = at + 1 /\ then[at + 1] = new
      /\ \A i \in 1..at : then[i] = chunks[i] /\ i \in 1..Len(chunks)
      /\ \A i \in 0..at : InFirst(then, i) = InFirst(chunks, i)
      /\ InFirst(then, at + 1) = InFirst(chunks, at) \cup ToSet(new)
  <2>1. /\ chunks \in Seq(Seq(Nat)) /\ at \in Nat /\ at <= Len(chunks) /\ Len(chunks) <= at + 1
        /\ new \in Seq(Nat)
    BY <1>1
  <2>2. IsWritten(then, chunks, at, new)
    BY <2>1, WrittenIs
  <2> HIDE DEF then
  <2> QED
    BY <2>2 DEF IsWritten
<1> HIDE DEF then
<1>3. ToSet(kept) = InFirst(chunks, at) /\ \A x \in ToSet(kept) : x < next
    BY DEF LoopOK
<1>4. \A i \in 1..(at + 1) : i = at + 1 \/ i \in 1..at
    BY <1>1
<1>5. ToSet(new) \subseteq Nat /\ \A x \in ToSet(new) : x \in Fruitful /\ x >= next
    BY <1>1, MembersAre DEF MadeFrom
<1>6. SeedsOf(w, new)
    BY <1>1, <1>5 DEF SeedsOf
<1>7. \A i \in 1..(at + 1) : SeedsOf(w, then[i])
    BY <1>2, <1>4, <1>6 DEF OnDisk
<1>8. ASSUME NEW i \in 1..at, NEW a \in ToSet(then[i]) PROVE a \in Nat /\ a < next
  <2>1. a \in InFirst(chunks, at)
    BY <1>1, <1>2, InFirstIs
  <2>2. chunks[i] \in Seq(Nat) /\ a \in ToSet(chunks[i])
    BY <1>1, <1>2
  <2>3. ToSet(chunks[i]) \subseteq Nat
    BY <2>2, MembersAre
  <2> QED
    BY <1>3, <2>1, <2>2, <2>3
<1>9. ASSUME NEW i \in 1..(at + 1), NEW k \in 1..(at + 1), i < k,
             NEW a \in ToSet(then[i]), NEW b \in ToSet(then[k])
      PROVE  a < b
  <2>1. i \in 1..at
    BY <1>1, <1>9
  <2>2. CASE k = at + 1
    <3>1. a \in Nat /\ a < next
      BY <1>8, <2>1
    <3>2. b \in Nat /\ b >= next
      BY <1>2, <1>5, <2>2
    <3> QED
      BY <1>1, <3>1, <3>2
  <2>3. CASE k \in 1..at
    BY <1>2, <1>9, <2>1, <2>3 DEF OnDisk
  <2> QED
    BY <1>4, <2>2, <2>3
<1>10. ASSUME NEW i \in 1..(at + 1), NEW e \in ToSet(then[i])
       PROVE  Covers(w, InFirst(then, i), skipped, e + 1)
  <2>1. CASE i \in 1..at
    <3>1. Covers(w, InFirst(chunks, i), skipped, e + 1)
      BY <1>2, <2>1 DEF OnDisk
    <3>2. i \in 0..at
      BY <2>1
    <3> QED
      BY <1>2, <3>1, <3>2
  <2>2. CASE i = at + 1
    <3> SUFFICES ASSUME NEW s \in Fruitful, s >= FirstSeed(w), s < e + 1
                 PROVE  s \in InFirst(then, at + 1) \cup skipped
      BY <2>2 DEF Covers
    <3>1. s \in Nat /\ e \in ToSet(new) /\ e \in Nat
      BY <1>2, <1>5, <2>2, DatasetAssumption
    <3>2. CASE s < next
      <4>1. s \in ToSet(kept) \cup skipped
        BY <3>2 DEF LoopOK, Covers
      <4> QED
        BY <1>2, <1>3, <4>1
    <3>3. CASE next <= s
      <4>1. s <= e
        BY <3>1
      <4>2. s \in ToSet(new)
        BY <3>1, <3>3, <4>1 DEF MadeFrom
      <4> QED
        BY <1>2, <4>2
    <3> QED
      BY <1>1, <3>1, <3>2, <3>3
  <2> QED
    BY <1>4, <2>1, <2>2
<1>11. OnDisk(w, then, skipped)
    BY <1>2, <1>7, <1>9, <1>10 DEF OnDisk
<1> QED
    BY <1>11 DEF then

\* A chunk that succeeds.
LEMMA SucceededFits ==
    ASSUME NEW w \in Shards, NEW chunks, NEW skipped, OnDisk(w, chunks, skipped),
           NEW kept, NEW next, NEW at, NEW left, left > 0,
           LoopOK(w, kept, next, at, left, chunks, skipped),
           NEW n \in Nat, NEW new, MadeFrom(next, n, new), new # <<>>
    PROVE  /\ LoopOK(w, kept \o new, NextSeed(next + n, kept \o new), at + 1,
                     Share(w) - Len(kept \o new), Written(chunks, at, new), skipped)
           /\ NextSeed(next + n, kept \o new) > next
<1> DEFINE all == kept \o new
           then == Written(chunks, at, new)
           after == NextSeed(next + n, all)
<1>1. /\ chunks \in Seq(Seq(Nat)) /\ at \in Nat /\ at <= Len(chunks) /\ Len(chunks) <= at + 1
      /\ kept \in Seq(Nat) /\ Increasing(kept)
      /\ new \in Seq(Nat) /\ Increasing(new) /\ next \in Nat /\ next + n \in Nat
      /\ next >= FirstSeed(w) /\ FirstSeed(w) \in Nat
    BY ShardsAre DEF OnDisk, LoopOK, MadeFrom, SeedsOf
<1>2. Len(then) = at + 1 /\ InFirst(then, at + 1) = InFirst(chunks, at) \cup ToSet(new)
  <2>1. /\ chunks \in Seq(Seq(Nat)) /\ at \in Nat /\ at <= Len(chunks) /\ Len(chunks) <= at + 1
        /\ new \in Seq(Nat)
    BY <1>1
  <2>2. IsWritten(then, chunks, at, new)
    BY <2>1, WrittenIs
  <2> HIDE DEF then
  <2> QED
    BY <2>2 DEF IsWritten
<1>3. ToSet(kept) \subseteq Nat /\ ToSet(new) \subseteq Nat
    BY <1>1, MembersAre
<1>4. /\ \A x \in ToSet(kept) : x < next /\ x \in Fruitful /\ x >= FirstSeed(w)
      /\ \A x \in ToSet(new) : x >= next /\ x \in Fruitful
      /\ ToSet(kept) = InFirst(chunks, at)
    BY DEF LoopOK, SeedsOf, MadeFrom
<1>5. all \in Seq(Nat) /\ ToSet(all) = ToSet(kept) \cup ToSet(new)
    BY <1>1, JoinedMembers
<1>6. Increasing(all)
  <2>1. \A a \in ToSet(kept), b \in ToSet(new) : a < b
    BY <1>1, <1>3, <1>4
  <2> QED
    BY <1>1, <2>1, JoinedIncreases
<1>7. new[1] \in ToSet(new)
  <2>1. 1 \in 1..Len(new)
    BY <1>1
  <2> QED
    BY <1>1, <2>1, MembersAre
<1>8. all # <<>>
  <2>1. ToSet(all) # {}
    BY <1>5, <1>7
  <2> QED
    BY <2>1 DEF ToSet
<1> HIDE DEF all, then
<1>9. after \in Nat /\ (\A x \in ToSet(all) : x < after) /\ after - 1 \in ToSet(all)
    BY <1>1, <1>5, <1>6, <1>8, NextSeedIs
<1> HIDE DEF after
<1>10. after > next
  <2>1. new[1] < after /\ new[1] >= next /\ new[1] \in Nat
    BY <1>3, <1>4, <1>5, <1>7, <1>9
  <2> QED
    BY <1>1, <1>9, <2>1
<1>11. SeedsOf(w, all)
  <2>1. \A x \in ToSet(new) : x >= FirstSeed(w)
    BY <1>1, <1>3, <1>4
  <2> QED
    BY <1>4, <1>5, <1>6, <2>1 DEF SeedsOf
<1>12. Covers(w, ToSet(all), skipped, after)
  <2> SUFFICES ASSUME NEW s \in Fruitful, s >= FirstSeed(w), s < after
               PROVE  s \in ToSet(all) \cup skipped
    BY DEF Covers
  <2>1. s \in Nat
    BY DatasetAssumption
  <2>2. CASE s < next
    <3>1. s \in ToSet(kept) \cup skipped
      BY <2>2 DEF LoopOK, Covers
    <3> QED
      BY <1>5, <3>1
  <2>3. CASE next <= s
    <3> DEFINE e == after - 1
    <3>1. e \in ToSet(all) /\ s <= e /\ e >= next
      BY <1>1, <1>9, <1>10, <2>1, <2>3
    <3> HIDE DEF e
    <3>2. e \in ToSet(new)
      <4>1. e \in ToSet(kept) => e < next /\ e \in Nat
        BY <1>3, <1>4
      <4> QED
        BY <1>1, <1>5, <3>1, <4>1
    <3>3. s \in ToSet(new)
      BY <2>3, <3>1, <3>2 DEF MadeFrom
    <3> QED
      BY <1>5, <3>3
  <2> QED
    BY <1>1, <2>1, <2>2, <2>3
<1>13. after >= FirstSeed(w)
    BY <1>1, <1>9, <1>10
<1>14. LoopOK(w, all, after, at + 1, Share(w) - Len(all), then, skipped)
  <2>1. at + 1 \in Nat /\ at + 1 <= Len(then) /\ Len(then) <= (at + 1) + 1
    BY <1>1, <1>2
  <2>2. ToSet(all) = InFirst(then, at + 1)
    BY <1>2, <1>4, <1>5
  <2> QED
    BY <1>9, <1>11, <1>12, <1>13, <2>1, <2>2 DEF LoopOK
<1> QED
    BY <1>10, <1>14 DEF all, then, after

\* A chunk that falls short and is left on disk.
LEMMA ShortFits ==
    ASSUME NEW w \in Shards, NEW chunks, NEW skipped, OnDisk(w, chunks, skipped),
           NEW kept, NEW next, NEW at, NEW left, left > 0,
           LoopOK(w, kept, next, at, left, chunks, skipped),
           NEW n, NEW new, MadeFrom(next, n, new)
    PROVE  LoopOK(w, kept, next, at, left, Written(chunks, at, new), skipped)
<1> DEFINE then == Written(chunks, at, new)
<1>1. /\ chunks \in Seq(Seq(Nat)) /\ at \in Nat /\ at <= Len(chunks) /\ Len(chunks) <= at + 1
      /\ new \in Seq(Nat)
    BY DEF OnDisk, LoopOK, MadeFrom
<1>2. Len(then) = at + 1 /\ \A i \in 0..at : InFirst(then, i) = InFirst(chunks, i)
  <2>1. /\ chunks \in Seq(Seq(Nat)) /\ at \in Nat /\ at <= Len(chunks) /\ Len(chunks) <= at + 1
        /\ new \in Seq(Nat)
    BY <1>1
  <2>2. IsWritten(then, chunks, at, new)
    BY <2>1, WrittenIs
  <2> HIDE DEF then
  <2> QED
    BY <2>2 DEF IsWritten
<1> HIDE DEF then
<1>3. at <= Len(then) /\ Len(then) <= at + 1 /\ InFirst(then, at) = InFirst(chunks, at)
    BY <1>1, <1>2
<1>4. LoopOK(w, kept, next, at, left, then, skipped)
    BY <1>3 DEF LoopOK
<1> QED
    BY <1>4 DEF then

\* A range of seeds that is skipped.
LEMMA SkippedFits ==
    ASSUME NEW w \in Shards, NEW chunks, NEW skipped, NEW more, skipped \subseteq more,
           NEW kept, NEW next, NEW at, NEW left, LoopOK(w, kept, next, at, left, chunks, skipped),
           NEW n \in Nat, next..(next + n - 1) \subseteq more
    PROVE  LoopOK(w, kept, next + n, at, left, chunks, more)
<1>1. next \in Nat /\ next >= FirstSeed(w) /\ FirstSeed(w) \in Nat /\ kept \in Seq(Nat)
    BY ShardsAre DEF LoopOK, SeedsOf
<1>2. next + n \in Nat /\ next + n >= FirstSeed(w)
    BY <1>1
<1>3. \A x \in ToSet(kept) : x < next + n
  <2>1. ToSet(kept) \subseteq Nat
    BY <1>1, MembersAre
  <2> QED
    BY <1>1, <2>1 DEF LoopOK
<1>4. Covers(w, ToSet(kept), more, next + n)
  <2> SUFFICES ASSUME NEW s \in Fruitful, s >= FirstSeed(w), s < next + n
               PROVE  s \in ToSet(kept) \cup more
    BY DEF Covers
  <2>1. s \in Nat
    BY DatasetAssumption
  <2>2. CASE s < next
    BY <2>2 DEF LoopOK, Covers
  <2>3. CASE next <= s
    BY <1>1, <2>1, <2>3
  <2> QED
    BY <1>1, <2>1, <2>2, <2>3
<1> QED
    BY <1>2, <1>3, <1>4 DEF LoopOK

-----------------------------------------------------------------------------
(* The shares of the shards.                                               *)

LEMMA TimesMonotone ==
    ASSUME NEW a \in Nat, NEW b \in Nat, NEW c \in Nat, a <= b
    PROVE  a * c \in Nat /\ b * c \in Nat /\ a * c <= b * c
<1>1. PICK d \in Nat : b = a + d
    <2>1. b - a \in Nat /\ b = a + (b - a)
      OBVIOUS
    <2> QED
      BY <2>1
<1>2. b * c = a * c + d * c /\ a * c \in Nat /\ d * c \in Nat
    BY <1>1
<1> QED
    BY <1>2

LEMMA LeastIs ==
    ASSUME NEW a \in Nat, NEW b \in Nat
    PROVE  Least(a, b) \in Nat /\ Least(a, b) <= a /\ Least(a, b) <= b
BY DEF Least

LEMMA SizesAre ==
    /\ ShardSize \in Nat /\ ShardSize >= 1 /\ Total <= Workers * ShardSize
    /\ SeedStride \in Nat /\ SeedStride >= 1
<1> DEFINE a == Total + Workers - 1
<1>1. a \in Nat /\ Workers \in Nat /\ Workers > 0 /\ Total \in Nat /\ Total > 0 /\ a >= Workers
    BY DatasetAssumption
<1>2. ShardSize = a \div Workers
    BY DEF ShardSize, CeilDiv
<1> HIDE DEF a
<1>3. /\ a \div Workers \in Int
      /\ Workers * (a \div Workers) <= a /\ a < Workers * (a \div Workers) + Workers
    BY <1>1
<1> DEFINE q == ShardSize
<1>4. q \in Int /\ Workers * q <= a /\ a < Workers * q + Workers
    BY <1>2, <1>3
<1> HIDE DEF q
<1>5. q >= 1
  <2> SUFFICES ASSUME q <= 0 PROVE FALSE
    BY <1>4
  <2>1. Workers * q <= 0
    BY <1>1, <1>4
  <2> QED
    BY <1>1, <1>4, <2>1
<1>6. Total <= Workers * q
    BY <1>1, <1>4 DEF a
<1> QED
    BY <1>4, <1>5, <1>6 DEF SeedStride, q

Count == Cardinality(Shards)

\* The shards are numbered from 0, and each share ends where the next begins.
LEMMA SharesAre ==
    /\ Count \in Nat /\ Count >= 1 /\ Shards = 0..(Count - 1)
    /\ \A w \in Shards : /\ w * ShardSize \in Nat /\ w * ShardSize < Total
                         /\ w * ShardSize + Share(w) = Least((w + 1) * ShardSize, Total)
    /\ Least(Count * ShardSize, Total) = Total
<1> DEFINE size == ShardSize
<1>1. /\ size \in Nat /\ size >= 1 /\ Total \in Nat /\ Total > 0 /\ Workers \in Nat /\ Workers > 0
      /\ Total <= Workers * size
    BY SizesAre, DatasetAssumption
<1> HIDE DEF size
<1>2. ASSUME NEW w \in 0..(Workers - 1)
      PROVE  /\ w * size \in Nat /\ (w + 1) * size = w * size + size
             /\ w \in Shards <=> w * size < Total
             /\ w * size + Share(w) = Least((w + 1) * size, Total)
  <2>1. w * size \in Nat /\ (w + 1) * size = w * size + size
    BY <1>1
  <2> DEFINE p == w * size
  <2>2. Share(w) = Least(size, Total - p)
    BY DEF Share, size
  <2>3. w \in Shards <=> Share(w) > 0
    BY DEF Shards
  <2> HIDE DEF p
  <2>4. p \in Nat /\ (w + 1) * size = p + size
    BY <2>1 DEF p
  <2>5. Share(w) > 0 <=> p < Total
    BY <1>1, <2>2, <2>4 DEF Least
  <2>6. p + Share(w) = Least(p + size, Total)
    BY <1>1, <2>2, <2>4 DEF Least
  <2> QED
    BY <2>3, <2>4, <2>5, <2>6 DEF p
<1>3. PICK m \in Shards : \A w \in Shards : w <= m
  <2>1. Shards \in SUBSET (0..(Workers - 1))
    BY DEF Shards
  <2>2. 0 \in Shards
    <3>1. 0 \in 0..(Workers - 1) /\ 0 * size < Total
      BY <1>1
    <3> QED
      BY <1>2, <3>1
  <2>3. 0 \in Int /\ Workers - 1 \in Int /\ Shards # {}
    BY <1>1, <2>2
  <2>4. \E i \in Shards : \A j \in Shards : j <= i
    BY <2>1, <2>3, LargestExists
  <2> QED
    BY <2>4
<1>4. m \in 0..(Workers - 1) /\ m * size < Total
    BY <1>2, <1>3 DEF Shards
<1>5. Shards = 0..m
  <2>1. ASSUME NEW w \in Shards PROVE w \in 0..m
    BY <1>3, <1>4 DEF Shards
  <2>2. ASSUME NEW w \in 0..m PROVE w \in Shards
    <3>1. w \in Nat /\ m \in Nat /\ w <= m /\ w \in 0..(Workers - 1)
      BY <1>1, <1>4
    <3>2. w * size <= m * size /\ w * size \in Nat /\ m * size \in Nat
      BY <1>1, <3>1, TimesMonotone
    <3>3. w * size < Total
      BY <1>1, <1>4, <3>2
    <3> QED
      BY <1>2, <3>1, <3>3
  <2> QED
    BY <2>1, <2>2
<1>6. Count = m + 1
  <2>1. 0 \in Int /\ m \in Int /\ 0 <= m
    BY <1>1, <1>4
  <2>2. Cardinality(0..m) = m - 0 + 1
    BY <2>1, FS_Interval
  <2> QED
    BY <1>5, <2>1, <2>2 DEF Count
<1>7. Least(Count * size, Total) = Total
  <2>1. Total <= (m + 1) * size
    <3>1. CASE m = Workers - 1
      BY <1>1, <3>1
    <3>2. CASE m # Workers - 1
      <4>1. m + 1 \in 0..(Workers - 1) /\ m + 1 \notin 0..m
        BY <1>1, <1>4, <3>2
      <4>2. ~((m + 1) * size < Total) /\ (m + 1) * size \in Nat
        BY <1>2, <1>5, <4>1
      <4> QED
        BY <1>1, <4>2
    <3> QED
      BY <3>1, <3>2
  <2>2. (m + 1) * size \in Nat
    BY <1>1, <1>4
  <2> QED
    BY <1>1, <1>6, <2>1, <2>2 DEF Least
<1>8. \A w \in Shards : w \in 0..(Workers - 1)
    BY DEF Shards
<1>9. Count \in Nat /\ Count >= 1 /\ Count - 1 = m
    BY <1>1, <1>4, <1>6
<1> QED
    BY <1>2, <1>5, <1>7, <1>8, <1>9 DEF size

\* The shares one after the other are Total seeds, each at its place.
LEMMA SharesJoined ==
    ASSUME NEW parts \in Seq(Seq(Nat)), Len(parts) = Count,
           \A w \in Shards : Len(parts[w + 1]) = Share(w)
    PROVE  /\ FlattenSeq(parts) \in Seq(Nat) /\ Len(FlattenSeq(parts)) = Total
           /\ \A w \in Shards : \A j \in 1..Share(w) :
                FlattenSeq(parts)[w * ShardSize + j] = parts[w + 1][j]
<1> DEFINE size == ShardSize
<1>1. size \in Nat /\ size >= 1 /\ Total \in Nat /\ Count \in Nat /\ Count >= 1
      /\ Shards = 0..(Count - 1)
    BY SizesAre, SharesAre, DatasetAssumption
<1>2. \A w \in Shards : /\ w * size \in Nat /\ w * size < Total
                        /\ w * size + Share(w) = Least((w + 1) * size, Total)
                        /\ Share(w) \in Nat
    BY SharesAre, ShardsAre
<1>3. Least(Count * size, Total) = Total
    BY SharesAre
<1> HIDE DEF size
<1>4. PICK g \in [Nat -> Seq(Nat)] : FlattenedBy(parts, g)
    BY FlattenedStepwise
<1> DEFINE Placed(k) == \A w \in 0..(k - 1) : \A j \in 1..Share(w) : g[k][w * size + j] = parts[w + 1][j]
           T == {k \in Nat : k <= Count => Len(g[k]) = Least(k * size, Total) /\ Placed(k)}
<1>5. 0 \in T
  <2>1. Len(g[0]) = 0 /\ 0 * size = 0 /\ 0..(0 - 1) = {}
    BY <1>1, <1>4 DEF FlattenedBy
  <2>2. Least(0 * size, Total) = 0
    BY <1>1, <2>1, DatasetAssumption DEF Least
  <2> QED
    BY <2>1, <2>2
<1>6. ASSUME NEW k \in Nat, k \in T PROVE k + 1 \in T
  <2> SUFFICES ASSUME k + 1 <= Count
               PROVE  Len(g[k + 1]) = Least((k + 1) * size, Total) /\ Placed(k + 1)
    OBVIOUS
  <2>1. k \in Shards /\ k \in 0..(Len(parts) - 1) /\ k + 1 \in 1..Len(parts)
    BY <1>1
  <2>2. Len(g[k]) = k * size
    <3>1. Len(g[k]) = Least(k * size, Total)
      <4>1. k <= Count
        BY <1>1, <1>6
      <4> HIDE DEF Placed
      <4> QED
        BY <1>6, <4>1
    <3>2. k * size \in Nat /\ k * size < Total
      BY <1>2, <2>1
    <3> DEFINE q == k * size
    <3>3. Len(g[k]) = Least(q, Total) /\ q \in Nat /\ q < Total
      BY <3>1, <3>2
    <3> HIDE DEF q
    <3>4. Len(g[k]) = q
      BY <3>3 DEF Least
    <3> QED
      BY <3>4 DEF q
  <2> DEFINE a == g[k]
             b == parts[k + 1]
  <2>3. a \in Seq(Nat) /\ b \in Seq(Nat) /\ Len(a) = k * size /\ Len(b) = Share(k)
    BY <2>1, <2>2
  <2>4. g[k + 1] = a \o b
    BY <1>4, <2>1 DEF FlattenedBy
  <2> HIDE DEF a, b
  <2>5. /\ Len(a \o b) = Len(a) + Len(b)
        /\ \A i \in 1..Len(a) : (a \o b)[i] = a[i]
        /\ \A i \in 1..Len(b) : (a \o b)[Len(a) + i] = b[i]
    <3>1. a \in Seq(Nat) /\ b \in Seq(Nat)
      BY <2>3
    <3> QED
      BY <3>1, JoinedIs
  <2>6. Len(g[k + 1]) = Least((k + 1) * size, Total)
    BY <1>2, <2>1, <2>3, <2>4, <2>5
  <2>7. ASSUME NEW w \in 0..((k + 1) - 1), NEW j \in 1..Share(w)
        PROVE  g[k + 1][w * size + j] = parts[w + 1][j]
    <3>1. CASE w = k
      BY <2>3, <2>4, <2>5, <2>7, <3>1 DEF b
    <3>2. CASE w # k
      <4>1. w \in 0..(k - 1) /\ w \in Shards /\ w + 1 <= k /\ w + 1 \in Nat
        BY <1>1, <2>1, <3>2
      <4>2. g[k][w * size + j] = parts[w + 1][j]
        BY <1>1, <1>6, <4>1
      <4>3. w * size + j \in 1..Len(a)
        <5>1. w * size \in Nat /\ Share(w) \in Nat /\ w * size + Share(w) = Least((w + 1) * size, Total)
          BY <1>2, <4>1
        <5>2. (w + 1) * size <= k * size /\ (w + 1) * size \in Nat /\ k * size \in Nat
          BY <1>1, <4>1, TimesMonotone
        <5> DEFINE p == w * size
                   q == k * size
                   n == (w + 1) * size
        <5>3. p \in Nat /\ q \in Nat /\ n \in Nat /\ Share(w) \in Nat /\ n <= q
              /\ p + Share(w) = Least(n, Total)
          BY <5>1, <5>2
        <5>4. Len(a) = q /\ j \in 1..Share(w)
          BY <2>3, <2>7
        <5> HIDE DEF p, q, n
        <5>5. p + Share(w) <= n
          BY <1>1, <5>3, LeastIs
        <5>6. p + j \in 1..Len(a)
          BY <5>3, <5>4, <5>5
        <5> QED
          BY <5>6 DEF p
      <4> QED
        BY <2>4, <2>5, <4>2, <4>3 DEF a
    <3> QED
      BY <3>1, <3>2
  <2> QED
    BY <2>6, <2>7
<1> HIDE DEF T
<1>7. \A k \in Nat : k \in T
    BY <1>5, <1>6, InductionOnNat
<1>8. Len(g[Count]) = Total /\ Placed(Count)
  <2>1. Count \in T /\ Count <= Count
    BY <1>1, <1>7
  <2> QED
    BY <1>3, <2>1 DEF T
<1>9. g[Count] = FlattenSeq(parts) /\ g[Count] \in Seq(Nat)
    BY <1>1, <1>4 DEF FlattenedBy
<1> QED
    BY <1>1, <1>8, <1>9 DEF size

-----------------------------------------------------------------------------
(* The invariant, and what each step does to it.                           *)

DatasetTypeOK ==
    /\ parallel \in {"idle", "waiting", "returned 0", "returned 1"}
    /\ shard \in [Shards -> {"off", "load", "chunks", "returned 0", "returned 1"}]
    /\ rows \in [Shards -> Seq(Nat)] /\ split \in [Shards -> Seq(Nat)]
    /\ seed \in [Shards -> Nat] /\ chunk \in [Shards -> Nat] /\ remaining \in [Shards -> Int]
    /\ targetSize \in [Shards -> Nat \ {0}]
    /\ disk \in [Shards -> Seq(Seq(Nat))]

\* What a shard that returned 0 has written.
WroteShare(w, kept, wrote) == wrote = kept /\ SeedsOf(w, kept) /\ Len(kept) = Share(w)

ShardInv(w) ==
    /\ OnDisk(w, disk[w], givenUp)
    /\ shard[w] = "chunks" =>
         LoopOK(w, rows[w], seed[w], chunk[w], remaining[w], disk[w], givenUp)
    /\ shard[w] = "returned 0" => WroteShare(w, rows[w], split[w])

\* The splits of all shards, in order.
Parts == [i \in 1..Count |-> split[i - 1]]

DatasetInv ==
    /\ DatasetTypeOK
    /\ \A w \in Shards : ShardInv(w)
    /\ parallel # "returned 0" => dataset = <<>>
    /\ parallel = "returned 0" => /\ \A w \in Shards : shard[w] = "returned 0"
                                  /\ dataset = FlattenSeq(Parts)

LEMMA DatasetStarts == DatasetInit => DatasetInv
<1> SUFFICES ASSUME DatasetInit PROVE DatasetInv
    OBVIOUS
<1>1. DatasetTypeOK
    BY DatasetAssumption DEF DatasetInit, DatasetTypeOK
<1>2. ASSUME NEW w \in Shards PROVE ShardInv(w)
  <2>1. disk[w] = <<>> /\ shard[w] = "off"
    BY DEF DatasetInit
  <2>2. OnDisk(w, <<>>, givenUp)
    BY DEF OnDisk
  <2> QED
    BY <2>1, <2>2 DEF ShardInv
<1> QED
    BY <1>1, <1>2 DEF DatasetInv, DatasetInit

\* A step of shard w, which leaves the others alone and takes back no skipped range.
StepOf(w) ==
    /\ parallel # "returned 0" /\ UNCHANGED <<parallel, dataset>>
    /\ \A v \in Shards \ {w} :
         /\ shard'[v] = shard[v] /\ rows'[v] = rows[v] /\ seed'[v] = seed[v] /\ chunk'[v] = chunk[v]
         /\ remaining'[v] = remaining[v] /\ disk'[v] = disk[v] /\ split'[v] = split[v]
    /\ givenUp \subseteq givenUp'

LEMMA OthersStay ==
    ASSUME DatasetInv, NEW w \in Shards, StepOf(w), DatasetTypeOK', ShardInv(w)'
    PROVE  DatasetInv'
<1>1. ASSUME NEW v \in Shards, v # w PROVE ShardInv(v)'
  <2>1. ShardInv(v)
    BY DEF DatasetInv
  <2>2. /\ shard'[v] = shard[v] /\ rows'[v] = rows[v] /\ seed'[v] = seed[v] /\ chunk'[v] = chunk[v]
        /\ remaining'[v] = remaining[v] /\ disk'[v] = disk[v] /\ split'[v] = split[v]
    BY <1>1 DEF StepOf
  <2>3. givenUp \subseteq givenUp'
    BY DEF StepOf
  <2>4. OnDisk(v, disk'[v], givenUp')
    BY <2>1, <2>2, <2>3, SkippingMore DEF ShardInv
  <2>5. shard'[v] = "chunks" =>
          LoopOK(v, rows'[v], seed'[v], chunk'[v], remaining'[v], disk'[v], givenUp')
    BY <2>1, <2>2, <2>3 DEF ShardInv, LoopOK, Covers
  <2>6. shard'[v] = "returned 0" => WroteShare(v, rows'[v], split'[v])
    BY <2>1, <2>2 DEF ShardInv
  <2> QED
    BY <2>4, <2>5, <2>6 DEF ShardInv
<1>2. \A v \in Shards : ShardInv(v)'
    BY <1>1
<1>3. parallel' # "returned 0" /\ dataset' = <<>>
    BY DEF StepOf, DatasetInv
<1> QED
    BY <1>2, <1>3 DEF DatasetInv

LEMMA Updated ==
    ASSUME NEW S, NEW T, NEW f \in [S -> T], NEW x \in S, NEW v \in T
    PROVE  /\ [f EXCEPT ![x] = v] \in [S -> T] /\ [f EXCEPT ![x] = v][x] = v
           /\ \A y \in S \ {x} : [f EXCEPT ![x] = v][y] = f[y]
OBVIOUS

LEMMA SumIsNat == \A a, b \in Nat : a + b \in Nat
OBVIOUS

LEMMA LoopTyped ==
    ASSUME NEW w \in Shards, NEW kept, NEW next, NEW at, NEW left, NEW chunks, NEW skipped,
           LoopOK(w, kept, next, at, left, chunks, skipped)
    PROVE  kept \in Seq(Nat) /\ next \in Nat /\ at \in Nat /\ Share(w) - Len(kept) \in Int
<1>1. kept \in Seq(Nat) /\ next \in Nat /\ at \in Nat
    BY DEF LoopOK, SeedsOf
<1>2. Len(kept) \in Nat /\ Share(w) \in Nat
    BY <1>1, ShardsAre
<1> QED
    BY <1>1, <1>2

LEMMA LoadKeepsDataset ==
    ASSUME DatasetInv, NEW w \in Shards, LoadRows(w)
    PROVE  DatasetInv'
<1> DEFINE found == FlattenSeq(disk[w])
           kept == SubSeq(found, 1, Least(Share(w), Len(found)))
           next == NextSeed(FirstSeed(w), kept)
<1>1. OnDisk(w, disk[w], givenUp) /\ DatasetTypeOK /\ shard[w] = "load"
    BY DEF DatasetInv, ShardInv, LoadRows
<1>2. LoopOK(w, kept, next, Len(disk[w]), Share(w) - Len(kept), disk[w], givenUp)
    BY <1>1, Resumed
<1>3. /\ rows' = [rows EXCEPT ![w] = kept] /\ remaining' = [remaining EXCEPT ![w] = Share(w) - Len(kept)]
      /\ seed' = [seed EXCEPT ![w] = next] /\ chunk' = [chunk EXCEPT ![w] = Len(disk[w])]
      /\ targetSize' = [targetSize EXCEPT ![w] = PerChunk] /\ shard' = [shard EXCEPT ![w] = "chunks"]
      /\ UNCHANGED <<parallel, disk, split, dataset, givenUp>>
    BY DEF LoadRows, files
<1> HIDE DEF found, kept, next
<1>4. kept \in Seq(Nat) /\ next \in Nat /\ Len(disk[w]) \in Nat /\ Share(w) - Len(kept) \in Int
    BY <1>2, LoopTyped
<1>5. DatasetTypeOK'
    BY <1>1, <1>3, <1>4, DatasetAssumption DEF DatasetTypeOK
<1>6. ShardInv(w)'
  <2>1. /\ rows'[w] = kept /\ remaining'[w] = Share(w) - Len(kept) /\ seed'[w] = next
        /\ chunk'[w] = Len(disk[w]) /\ shard'[w] = "chunks" /\ disk'[w] = disk[w] /\ givenUp' = givenUp
    BY <1>1, <1>3 DEF DatasetTypeOK
  <2> QED
    BY <1>1, <1>2, <2>1 DEF ShardInv
<1>7. StepOf(w)
  <2>1. parallel # "returned 0"
    BY <1>1 DEF DatasetInv
  <2> QED
    BY <1>1, <1>3, <2>1 DEF StepOf, DatasetTypeOK
<1> QED
    BY <1>5, <1>6, <1>7, OthersStay

\* What an attempt begins with.
Trying(w) == shard[w] = "chunks" /\ remaining[w] > 0

LEMMA Attempted ==
    ASSUME DatasetInv, NEW w \in Shards, Trying(w)
    PROVE  /\ DatasetTypeOK /\ OnDisk(w, disk[w], givenUp) /\ parallel # "returned 0"
           /\ LoopOK(w, rows[w], seed[w], chunk[w], remaining[w], disk[w], givenUp)
           /\ seed[w] \in Nat /\ chunk[w] \in Nat /\ remaining[w] \in Nat
           /\ rows[w] \in Seq(Nat) /\ disk[w] \in Seq(Seq(Nat)) /\ targetSize[w] \in Nat \ {0}
           /\ Current(w) \in Nat /\ Current(w) >= 1
           /\ MadeFrom(seed[w], Current(w), Examples(seed[w], Current(w)))
<1>1. /\ DatasetTypeOK /\ OnDisk(w, disk[w], givenUp) /\ parallel # "returned 0"
      /\ LoopOK(w, rows[w], seed[w], chunk[w], remaining[w], disk[w], givenUp)
    BY DEF DatasetInv, ShardInv, Trying
<1>2. /\ seed[w] \in Nat /\ chunk[w] \in Nat /\ remaining[w] \in Nat
      /\ rows[w] \in Seq(Nat) /\ disk[w] \in Seq(Seq(Nat)) /\ targetSize[w] \in Nat \ {0}
  <2>1. remaining[w] \in Int
    BY <1>1 DEF DatasetTypeOK
  <2>2. remaining[w] \in Nat
    BY <2>1 DEF Trying
  <2>3. seed[w] \in Nat /\ chunk[w] \in Nat /\ targetSize[w] \in Nat \ {0}
    BY <1>1 DEF DatasetTypeOK
  <2>4. rows[w] \in Seq(Nat) /\ disk[w] \in Seq(Seq(Nat))
    <3>1. LoopOK(w, rows[w], seed[w], chunk[w], remaining[w], disk[w], givenUp)
      BY <1>1
    <3>2. rows[w] \in Seq(Nat)
      BY <3>1, LoopTyped
    <3>3. disk[w] \in Seq(Seq(Nat))
      BY <1>1 DEF OnDisk
    <3> QED
      BY <3>2, <3>3
  <2> QED
    BY <2>2, <2>3, <2>4
<1>3. Current(w) \in Nat /\ Current(w) >= 1
  <2>1. remaining[w] > 0
    BY DEF Trying
  <2> QED
    BY <1>2, <2>1 DEF Current, Least
<1>4. MadeFrom(seed[w], Current(w), Examples(seed[w], Current(w)))
    BY <1>2, <1>3, ExamplesAre
<1> QED
    BY <1>1, <1>2, <1>3, <1>4

LEMMA SucceedKeepsDataset ==
    ASSUME DatasetInv, NEW w \in Shards, ChunkSucceeds(w)
    PROVE  DatasetInv' /\ seed'[w] > seed[w]
<1> DEFINE n == Current(w)
           new == Examples(seed[w], n)
           all == rows[w] \o new
           next == NextSeed(seed[w] + n, all)
           then == Written(disk[w], chunk[w], new)
<1>1. shard[w] = "chunks" /\ remaining[w] > 0 /\ Trying(w)
    BY DEF ChunkSucceeds, Trying
<1>2. /\ DatasetTypeOK /\ OnDisk(w, disk[w], givenUp) /\ parallel # "returned 0"
      /\ LoopOK(w, rows[w], seed[w], chunk[w], remaining[w], disk[w], givenUp)
      /\ n \in Nat /\ n >= 1 /\ MadeFrom(seed[w], n, new)
      /\ seed[w] \in Nat /\ chunk[w] \in Nat
    BY <1>1, Attempted
<1>3. /\ Len(new) = n
      /\ rows' = [rows EXCEPT ![w] = all] /\ remaining' = [remaining EXCEPT ![w] = Share(w) - Len(rows'[w])]
      /\ seed' = [seed EXCEPT ![w] = NextSeed(seed[w] + n, rows'[w])]
      /\ chunk' = [chunk EXCEPT ![w] = chunk[w] + 1]
      /\ targetSize' = [targetSize EXCEPT ![w] = PerChunk]
      /\ disk' = [disk EXCEPT ![w] = then]
      /\ UNCHANGED <<parallel, shard, split, dataset, givenUp>>
    BY DEF ChunkSucceeds, KeepChunk, Written
<1>4. rows'[w] = all
    BY <1>2, <1>3 DEF DatasetTypeOK
<1>5. new # <<>>
  <2>1. Len(new) >= 1
    BY <1>2, <1>3
  <2>2. Len(<<>>) = 0
    OBVIOUS
  <2> QED
    BY <2>1, <2>2
<1>6. /\ LoopOK(w, all, next, chunk[w] + 1, Share(w) - Len(all), then, givenUp)
      /\ next > seed[w]
    BY <1>1, <1>2, <1>5, SucceededFits
<1>7. OnDisk(w, then, givenUp)
    BY <1>1, <1>2, ChunkFits
<1>8. /\ remaining' = [remaining EXCEPT ![w] = Share(w) - Len(all)] /\ seed' = [seed EXCEPT ![w] = next]
    BY <1>3, <1>4
<1> HIDE DEF all, next, then, n, new
<1>9. all \in Seq(Nat) /\ next \in Nat /\ then \in Seq(Seq(Nat)) /\ Share(w) - Len(all) \in Int
  <2>1. all \in Seq(Nat) /\ next \in Nat /\ Share(w) - Len(all) \in Int
    BY <1>6, LoopTyped
  <2>2. then \in Seq(Seq(Nat))
    BY <1>7 DEF OnDisk
  <2> QED
    BY <2>1, <2>2
<1>10. DatasetTypeOK'
  <2>1. PerChunk \in Nat \ {0} /\ chunk[w] + 1 \in Nat
    <3>1. 1 \in Nat
      OBVIOUS
    <3> QED
      BY <1>2, <3>1, DatasetAssumption, SumIsNat
  <2>2. /\ rows \in [Shards -> Seq(Nat)] /\ seed \in [Shards -> Nat] /\ chunk \in [Shards -> Nat]
        /\ remaining \in [Shards -> Int] /\ targetSize \in [Shards -> Nat \ {0}]
        /\ disk \in [Shards -> Seq(Seq(Nat))]
    BY <1>2 DEF DatasetTypeOK
  <2>3. rows' \in [Shards -> Seq(Nat)] /\ seed' \in [Shards -> Nat] /\ chunk' \in [Shards -> Nat]
    BY <1>3, <1>8, <1>9, <2>1, <2>2, Updated
  <2>4. /\ remaining' \in [Shards -> Int] /\ targetSize' \in [Shards -> Nat \ {0}]
        /\ disk' \in [Shards -> Seq(Seq(Nat))]
    BY <1>3, <1>8, <1>9, <2>1, <2>2, Updated
  <2> QED
    BY <1>2, <1>3, <2>3, <2>4 DEF DatasetTypeOK
<1>11. /\ remaining'[w] = Share(w) - Len(all) /\ seed'[w] = next /\ chunk'[w] = chunk[w] + 1
       /\ disk'[w] = then /\ shard'[w] = "chunks" /\ givenUp' = givenUp
    BY <1>1, <1>2, <1>3, <1>8 DEF DatasetTypeOK
<1>12. ShardInv(w)'
    BY <1>4, <1>6, <1>7, <1>11 DEF ShardInv
<1>13. StepOf(w)
    BY <1>2, <1>3, <1>8 DEF StepOf, DatasetTypeOK
<1> QED
    BY <1>6, <1>10, <1>11, <1>12, <1>13, OthersStay

\* After an attempt that failed: a smaller one, or a range is skipped.
LEMMA RetryFits ==
    ASSUME DatasetInv, NEW w \in Shards, Trying(w), RetryOrSkip(w),
           NEW chunks, LoopOK(w, rows[w], seed[w], chunk[w], remaining[w], chunks, givenUp)
    PROVE  /\ LoopOK(w, rows[w], seed'[w], chunk[w], remaining[w], chunks, givenUp')
           /\ givenUp \subseteq givenUp'
           /\ seed' \in [Shards -> Nat] /\ \A v \in Shards \ {w} : seed'[v] = seed[v]
           /\ targetSize' \in [Shards -> Nat \ {0}]
           /\ \/ seed'[w] > seed[w]
              \/ seed'[w] = seed[w] /\ Least(targetSize'[w], remaining[w]) < Current(w)
<1> DEFINE n == Current(w)
<1>1. /\ DatasetTypeOK /\ n \in Nat /\ n >= 1 /\ seed[w] \in Nat /\ remaining[w] \in Nat
    BY Attempted
<1> HIDE DEF n
<1>2. CASE n > MinPerChunk
  <2> DEFINE half == Greatest(MinPerChunk, n \div 2)
  <2>1. targetSize' = [targetSize EXCEPT ![w] = half] /\ UNCHANGED <<seed, givenUp>>
    BY <1>2 DEF RetryOrSkip, n
  <2>2. half \in Nat \ {0} /\ half < n
    BY <1>1, <1>2, DatasetAssumption DEF Greatest
  <2> HIDE DEF half
  <2>3. targetSize' \in [Shards -> Nat \ {0}] /\ targetSize'[w] = half
    <3>1. targetSize \in [Shards -> Nat \ {0}]
      BY <1>1 DEF DatasetTypeOK
    <3> QED
      BY <2>1, <2>2, <3>1, Updated
  <2>4. Least(half, remaining[w]) < n
    <3>1. Least(half, remaining[w]) \in Nat /\ Least(half, remaining[w]) <= half
      BY <1>1, <2>2, LeastIs
    <3> QED
      BY <1>1, <2>2, <3>1
  <2> QED
    BY <1>1, <2>1, <2>3, <2>4 DEF DatasetTypeOK, n
<1>3. CASE ~(n > MinPerChunk)
  <2>1. /\ seed' = [seed EXCEPT ![w] = seed[w] + n] /\ UNCHANGED targetSize
        /\ givenUp' = givenUp \cup seed[w]..(seed[w] + n - 1)
    BY <1>3 DEF RetryOrSkip, n
  <2>2. seed'[w] = seed[w] + n /\ seed' \in [Shards -> Nat] /\ \A v \in Shards \ {w} : seed'[v] = seed[v]
    <3>1. seed \in [Shards -> Nat] /\ seed[w] + n \in Nat
      BY <1>1, SumIsNat DEF DatasetTypeOK
    <3> QED
      BY <2>1, <3>1, Updated
  <2>3. givenUp \subseteq givenUp' /\ seed[w]..(seed[w] + n - 1) \subseteq givenUp'
    BY <2>1
  <2>4. LoopOK(w, rows[w], seed[w] + n, chunk[w], remaining[w], chunks, givenUp')
    BY <1>1, <2>3, SkippedFits
  <2>5. seed[w] + n > seed[w]
    BY <1>1
  <2> QED
    BY <1>1, <2>1, <2>2, <2>3, <2>4, <2>5 DEF DatasetTypeOK
<1> QED
    BY <1>2, <1>3

Advances(w) ==
    \/ seed'[w] > seed[w]
    \/ seed'[w] = seed[w] /\ Least(targetSize'[w], remaining'[w]) < Current(w)

LEMMA FailKeepsDataset ==
    ASSUME DatasetInv, NEW w \in Shards, ChunkFallsShort(w) \/ ChunkCrashes(w)
    PROVE  DatasetInv' /\ Advances(w)
<1>1. /\ shard[w] = "chunks" /\ remaining[w] > 0 /\ Trying(w) /\ RetryOrSkip(w)
      /\ UNCHANGED <<parallel, shard, rows, chunk, remaining, split, dataset>>
    BY DEF ChunkFallsShort, ChunkCrashes, files, Trying
<1>2. /\ DatasetTypeOK /\ OnDisk(w, disk[w], givenUp) /\ parallel # "returned 0"
      /\ LoopOK(w, rows[w], seed[w], chunk[w], remaining[w], disk[w], givenUp)
    BY <1>1, Attempted
<1>3. PICK then : /\ disk' = [disk EXCEPT ![w] = then] /\ OnDisk(w, then, givenUp)
                  /\ LoopOK(w, rows[w], seed[w], chunk[w], remaining[w], then, givenUp)
  <2>1. CASE ChunkFallsShort(w)
    <3> DEFINE new == Examples(seed[w], Current(w))
               then == Written(disk[w], chunk[w], new)
    <3>1. disk' = [disk EXCEPT ![w] = then]
      BY <2>1 DEF ChunkFallsShort, KeepChunk, Written
    <3>2. MadeFrom(seed[w], Current(w), new)
      BY <1>1, Attempted
    <3> HIDE DEF new
    <3>3. OnDisk(w, then, givenUp)
      BY <1>1, <1>2, <3>2, ChunkFits
    <3>4. LoopOK(w, rows[w], seed[w], chunk[w], remaining[w], then, givenUp)
      BY <1>1, <1>2, <3>2, ShortFits
    <3> HIDE DEF then
    <3> QED
      BY <3>1, <3>3, <3>4
  <2>2. CASE ChunkCrashes(w)
    <3>1. disk' = [disk EXCEPT ![w] = disk[w]]
      BY <1>2, <2>2 DEF ChunkCrashes, files, DatasetTypeOK
    <3> QED
      BY <1>2, <3>1
  <2> QED
    BY <2>1, <2>2
<1>4. /\ LoopOK(w, rows[w], seed'[w], chunk[w], remaining[w], then, givenUp')
      /\ givenUp \subseteq givenUp'
      /\ seed' \in [Shards -> Nat] /\ \A v \in Shards \ {w} : seed'[v] = seed[v]
      /\ targetSize' \in [Shards -> Nat \ {0}]
      /\ \/ seed'[w] > seed[w]
         \/ seed'[w] = seed[w] /\ Least(targetSize'[w], remaining[w]) < Current(w)
    BY <1>1, <1>3, RetryFits
<1>5. OnDisk(w, then, givenUp')
    BY <1>3, <1>4, SkippingMore
<1>6. disk' \in [Shards -> Seq(Seq(Nat))] /\ disk'[w] = then
    BY <1>2, <1>3 DEF DatasetTypeOK, OnDisk
<1>7. DatasetTypeOK'
    BY <1>1, <1>2, <1>4, <1>6 DEF DatasetTypeOK
<1>8. ShardInv(w)'
    BY <1>1, <1>4, <1>5, <1>6 DEF ShardInv
<1>9. StepOf(w)
    BY <1>1, <1>2, <1>3, <1>4 DEF StepOf, DatasetTypeOK
<1>10. Advances(w)
    BY <1>1, <1>4 DEF Advances
<1> QED
    BY <1>7, <1>8, <1>9, <1>10, OthersStay

LEMMA EndKeepsDataset ==
    ASSUME DatasetInv, NEW w \in Shards, Finish(w) \/ Kill(w)
    PROVE  DatasetInv'
<1>1. /\ DatasetTypeOK /\ OnDisk(w, disk[w], givenUp) /\ shard[w] \in {"load", "chunks"}
      /\ shard[w] = "chunks" => LoopOK(w, rows[w], seed[w], chunk[w], remaining[w], disk[w], givenUp)
    BY DEF DatasetInv, ShardInv, Finish, Kill
<1>2. parallel # "returned 0"
    BY <1>1 DEF DatasetInv
<1>3. UNCHANGED <<parallel, shardVars, disk, dataset, givenUp>>
    BY DEF Finish, Kill, files
<1>4. /\ shard' = [shard EXCEPT ![w] = "returned 1"] /\ split' = split
      \/ /\ shard' = [shard EXCEPT ![w] = "returned 0"] /\ split' = [split EXCEPT ![w] = rows[w]]
         /\ shard[w] = "chunks" /\ Len(rows[w]) = Share(w)
      \/ /\ shard' = [shard EXCEPT ![w] = "returned 1"] /\ split' = [split EXCEPT ![w] = rows[w]]
    BY DEF Finish, Kill, files
<1>5. DatasetTypeOK'
    BY <1>1, <1>3, <1>4 DEF DatasetTypeOK, shardVars
<1>6. StepOf(w)
    BY <1>1, <1>2, <1>3, <1>4 DEF StepOf, DatasetTypeOK, shardVars
<1>7. ShardInv(w)'
  <2>1. /\ disk'[w] = disk[w] /\ rows'[w] = rows[w] /\ givenUp' = givenUp
        /\ shard'[w] # "chunks"
        /\ shard'[w] = "returned 0" =>
             split'[w] = rows[w] /\ shard[w] = "chunks" /\ Len(rows[w]) = Share(w)
    BY <1>1, <1>3, <1>4 DEF DatasetTypeOK, shardVars
  <2>2. shard[w] = "chunks" => SeedsOf(w, rows[w])
    BY <1>1 DEF LoopOK
  <2> QED
    BY <1>1, <2>1, <2>2 DEF ShardInv, WroteShare
<1> QED
    BY <1>5, <1>6, <1>7, OthersStay

\* What all shards that returned 0 have written is as long as the whole is to be.
AllReturned == \A w \in Shards : shard[w] = "returned 0"

LEMMA PartsAre ==
    ASSUME DatasetInv, AllReturned
    PROVE  /\ Parts \in Seq(Seq(Nat)) /\ Len(Parts) = Count
           /\ \A w \in Shards : /\ w + 1 \in 1..Count /\ Parts[w + 1] = split[w]
                                /\ WroteShare(w, rows[w], split[w]) /\ Len(Parts[w + 1]) = Share(w)
           /\ \A i \in 1..Count : i - 1 \in Shards /\ Parts[i] = split[i - 1]
<1>1. Count \in Nat /\ Shards = 0..(Count - 1)
    BY SharesAre
<1>2. \A i \in 1..Count : i - 1 \in Shards /\ Parts[i] = split[i - 1]
  <2>1. \A i \in 1..Count : i - 1 \in 0..(Count - 1)
    BY <1>1
  <2>2. Parts = [i \in 1..Count |-> split[i - 1]]
    BY DEF Parts
  <2> HIDE DEF Parts
  <2> QED
    BY <1>1, <2>1, <2>2
<1>3. split \in [Shards -> Seq(Nat)]
    BY DEF DatasetInv, DatasetTypeOK
<1>4. Parts \in [1..Count -> Seq(Nat)]
  <2>1. Parts = [i \in 1..Count |-> split[i - 1]]
    BY DEF Parts
  <2>2. \A i \in 1..Count : split[i - 1] \in Seq(Nat)
    BY <1>2, <1>3
  <2> QED
    BY <2>1, <2>2
<1>5. Parts \in Seq(Seq(Nat)) /\ Len(Parts) = Count
  <2> DEFINE q == Parts
  <2> HIDE DEF q
  <2>1. q \in [1..Count -> Seq(Nat)] /\ Count \in Nat
    BY <1>1, <1>4 DEF q
  <2>2. q \in Seq(Seq(Nat)) /\ Len(q) = Count
    BY <2>1
  <2> QED
    BY <2>2 DEF q
<1>6. ASSUME NEW w \in Shards PROVE w + 1 \in 1..Count /\ Parts[w + 1] = split[w]
  <2>1. w + 1 \in 1..Count /\ (w + 1) - 1 = w
    BY <1>1
  <2> QED
    BY <1>2, <2>1
<1>7. \A w \in Shards : WroteShare(w, rows[w], split[w])
    BY DEF DatasetInv, ShardInv, AllReturned
<1>8. \A w \in Shards : Len(Parts[w + 1]) = Share(w)
    BY <1>6, <1>7 DEF WroteShare
<1> QED
    BY <1>2, <1>5, <1>6, <1>7, <1>8

LEMMA ParallelKeepsDataset ==
    ASSUME DatasetInv, Start \/ Collect
    PROVE  DatasetInv'
<1>1. CASE Start
  <2>1. /\ parallel' = "waiting" /\ shard' = [w \in Shards |-> "load"] /\ dataset = <<>>
        /\ UNCHANGED <<rows, seed, chunk, targetSize, remaining, disk, split, dataset, givenUp>>
    BY <1>1 DEF Start, shardVars, files, DatasetInv
  <2>2. DatasetTypeOK'
    BY <2>1 DEF DatasetInv, DatasetTypeOK
  <2>3. \A w \in Shards : ShardInv(w)'
    BY <2>1 DEF DatasetInv, ShardInv
  <2> QED
    BY <2>1, <2>2, <2>3 DEF DatasetInv
<1>2. CASE Collect
  <2>1. /\ UNCHANGED <<shard, rows, seed, chunk, targetSize, remaining, disk, split, givenUp>>
        /\ dataset = <<>>
    BY <1>2 DEF Collect, shardVars, DatasetInv
  <2>2. \A w \in Shards : ShardInv(w)'
    BY <2>1 DEF DatasetInv, ShardInv
  <2>3. CASE \E w \in Shards : shard[w] = "returned 1"
    <3>1. parallel' = "returned 1" /\ dataset' = dataset
      BY <1>2, <2>3 DEF Collect
    <3>2. DatasetTypeOK'
      BY <2>1, <3>1 DEF DatasetInv, DatasetTypeOK
    <3> QED
      BY <2>1, <2>2, <3>1, <3>2 DEF DatasetInv
  <2>4. CASE ~\E w \in Shards : shard[w] = "returned 1"
    <3> DEFINE all == FlattenSeq(Parts)
    <3>1. AllReturned
      BY <1>2, <2>4 DEF Collect, AllReturned
    <3>2. /\ dataset' = SubSeq(all, 1, Least(Total, Len(all)))
          /\ parallel' = IF Len(dataset') = Total THEN "returned 0" ELSE "returned 1"
      BY <1>2, <2>4 DEF Collect, Parts, Count
    <3>3. /\ Parts \in Seq(Seq(Nat)) /\ Len(Parts) = Count
          /\ \A w \in Shards : Len(Parts[w + 1]) = Share(w)
      BY <3>1, PartsAre
    <3>4. all \in Seq(Nat) /\ Len(all) = Total
      BY <3>3, SharesJoined
    <3> HIDE DEF all
    <3>5. dataset' = all
      <4>1. Least(Total, Len(all)) = Len(all)
        BY <3>4, DatasetAssumption DEF Least
      <4> QED
        BY <3>2, <3>4, <4>1, SubSeqFull
    <3>6. parallel' = "returned 0"
      BY <3>2, <3>4, <3>5
    <3>7. Parts' = Parts
      BY <2>1 DEF Parts
    <3>8. DatasetTypeOK'
      BY <2>1, <3>6 DEF DatasetInv, DatasetTypeOK
    <3>9. \A w \in Shards : shard'[w] = "returned 0"
      BY <2>1, <3>1 DEF AllReturned
    <3> QED
      BY <2>2, <3>5, <3>6, <3>7, <3>8, <3>9 DEF DatasetInv, all
  <2> QED
    BY <2>3, <2>4
<1> QED
    BY <1>1, <1>2

LEMMA DatasetKept == DatasetInv /\ [DatasetNext]_datasetVars => DatasetInv'
<1> SUFFICES ASSUME DatasetInv, [DatasetNext]_datasetVars PROVE DatasetInv'
    OBVIOUS
<1>1. CASE Start \/ Collect
    BY <1>1, ParallelKeepsDataset
<1>2. ASSUME NEW w \in Shards,
             \/ LoadRows(w) \/ ChunkSucceeds(w) \/ ChunkFallsShort(w)
             \/ ChunkCrashes(w) \/ Finish(w) \/ Kill(w)
      PROVE  DatasetInv'
    BY <1>2, LoadKeepsDataset, SucceedKeepsDataset, FailKeepsDataset, EndKeepsDataset
<1>3. CASE UNCHANGED datasetVars
    BY <1>3 DEF datasetVars, shardVars, files, DatasetInv, DatasetTypeOK, ShardInv, Parts
<1> QED
    BY <1>1, <1>2, <1>3 DEF DatasetNext, DatasetRest


-----------------------------------------------------------------------------
(* The results.                                                            *)

\* A shard in its loop has every seed it went past, once.
LEMMA InvLosesNothing == DatasetInv => NothingLost
<1> SUFFICES ASSUME DatasetInv, NEW w \in Shards, shard[w] = "chunks"
             PROVE  /\ ToSet(rows[w]) \subseteq Fruitful /\ IsInjective(rows[w])
                    /\ \A s \in FirstSeed(w)..(seed[w] - 1) :
                         s \in Fruitful => s \in ToSet(rows[w]) \cup givenUp
    BY DEF NothingLost
<1>1. LoopOK(w, rows[w], seed[w], chunk[w], remaining[w], disk[w], givenUp)
    BY DEF DatasetInv, ShardInv
<1>2. SeedsOf(w, rows[w]) /\ Covers(w, ToSet(rows[w]), givenUp, seed[w]) /\ seed[w] \in Nat
    BY <1>1 DEF LoopOK
<1>3. ToSet(rows[w]) \subseteq Fruitful
    BY <1>2 DEF SeedsOf
<1>4. IsInjective(rows[w])
    BY <1>2, IncreasingIsInjective DEF SeedsOf
<1>5. ASSUME NEW s \in FirstSeed(w)..(seed[w] - 1), s \in Fruitful
      PROVE  s \in ToSet(rows[w]) \cup givenUp
  <2>1. s >= FirstSeed(w) /\ s < seed[w]
    BY <1>2, <1>5, ShardsAre
  <2> QED
    BY <1>2, <1>5, <2>1 DEF Covers
<1> QED
    BY <1>3, <1>4, <1>5

\* A list that holds another from a place on.
LEMMA PartIs ==
    ASSUME NEW s \in Seq(Nat), NEW t \in Seq(Nat), NEW a \in Nat, NEW n \in Nat, n = Len(t),
           a + n <= Len(s), \A j \in 1..n : s[a + j] = t[j]
    PROVE  SubSeq(s, a + 1, a + n) = t
<1> DEFINE u == SubSeq(s, a + 1, a + n)
<1>1. Len(s) \in Nat /\ \A j \in (a + 1)..(a + n) : s[j] \in Nat
    OBVIOUS
<1>2. /\ u \in Seq(Nat) /\ Len(u) = IF a + 1 <= a + n THEN (a + n) - (a + 1) + 1 ELSE 0
      /\ \A i \in 1..((a + n) - (a + 1) + 1) : u[i] = s[(a + 1) + i - 1]
  <2> DEFINE b == a + 1
             c == a + n
  <2>1. b \in Int /\ c \in Int /\ \A j \in b..c : s[j] \in Nat
    BY <1>1
  <2> HIDE DEF b, c
  <2>2. /\ SubSeq(s, b, c) \in Seq(Nat) /\ Len(SubSeq(s, b, c)) = IF b <= c THEN c - b + 1 ELSE 0
        /\ \A i \in 1..(c - b + 1) : SubSeq(s, b, c)[i] = s[b + i - 1]
    BY <2>1, SubSeqProperties
  <2> QED
    BY <2>2 DEF b, c
<1> HIDE DEF u
<1>3. Len(u) = n /\ (a + n) - (a + 1) + 1 = n
    BY <1>2
<1>4. ASSUME NEW i \in 1..n PROVE u[i] = t[i]
  <2>1. (a + 1) + i - 1 = a + i
    OBVIOUS
  <2> QED
    BY <1>2, <1>3, <2>1
<1>5. u = t
    BY <1>2, <1>3, <1>4, SeqEqual
<1> QED
    BY <1>5 DEF u

\* The splits of shards that stayed apart follow on one another.
LEMMA ApartFollow ==
    ASSUME DatasetInv, AllReturned, Apart
    PROVE  Follows(Parts)
<1>1. /\ Parts \in Seq(Seq(Nat)) /\ Len(Parts) = Count
      /\ \A w \in Shards : WroteShare(w, rows[w], split[w])
      /\ \A i \in 1..Count : i - 1 \in Shards /\ Parts[i] = split[i - 1]
    BY PartsAre
<1>2. \A w \in Shards : SeedsOf(w, split[w])
    BY <1>1 DEF WroteShare
<1>3. ASSUME NEW i \in 1..Count, NEW k \in 1..Count, i < k,
             NEW a \in ToSet(Parts[i]), NEW b \in ToSet(Parts[k])
      PROVE  a < b
  <2> DEFINE v == i - 1
             w == k - 1
  <2>1. v \in Shards /\ w \in Shards /\ a \in ToSet(split[v]) /\ b \in ToSet(split[w])
    BY <1>1
  <2>2. v \in Nat /\ w \in Nat /\ v + 1 <= w /\ SeedStart \in Nat
    BY <1>3, <2>1, SharesAre, DatasetAssumption
  <2> HIDE DEF v, w
  <2>3. a < FirstSeed(v) + SeedStride
    BY <2>1 DEF Apart
  <2>4. b >= FirstSeed(w) /\ a \in Nat /\ b \in Nat
    <3>1. \A u \in Shards : \A x \in ToSet(split[u]) : x >= FirstSeed(u) /\ x \in Nat
      BY <1>2, MembersAre DEF SeedsOf
    <3> QED
      BY <2>1, <3>1
  <2>5. FirstSeed(v) + SeedStride <= FirstSeed(w) /\ FirstSeed(v) \in Nat /\ FirstSeed(w) \in Nat /\ SeedStride \in Nat
    <3>1. SeedStride \in Nat
      BY <2>1, ShardsAre DEF SeedStride
    <3> DEFINE d == SeedStride
    <3> HIDE DEF d
    <3>2. d \in Nat
      BY <3>1 DEF d
    <3>3. (v + 1) * d <= w * d /\ (v + 1) * d \in Nat /\ w * d \in Nat
      BY <2>2, <3>2, TimesMonotone
    <3>4. (v + 1) * d = v * d + d /\ v * d \in Nat
      BY <2>2, <3>2
    <3>5. SeedStart + v * d + d <= SeedStart + w * d /\ SeedStart + v * d \in Nat /\ SeedStart + w * d \in Nat
      <4> DEFINE p == v * d
                 q == w * d
      <4>1. p \in Nat /\ q \in Nat /\ p + d <= q
        BY <3>3, <3>4
      <4> HIDE DEF p, q
      <4>2. SeedStart + p + d <= SeedStart + q /\ SeedStart + p \in Nat /\ SeedStart + q \in Nat
        BY <2>2, <3>2, <4>1
      <4> QED
        BY <4>2 DEF p, q
    <3> QED
      BY <3>1, <3>5 DEF FirstSeed, d
  <2> QED
    BY <2>3, <2>4, <2>5
<1>4. \A i \in 1..Count : Increasing(Parts[i])
    BY <1>1, <1>2 DEF SeedsOf
<1> QED
    BY <1>1, <1>3, <1>4 DEF Follows

LEMMA InvIsWhole == DatasetInv => DatasetIsWhole
<1> SUFFICES ASSUME DatasetInv PROVE DatasetIsWhole
    OBVIOUS
<1>1. CASE parallel # "returned 0"
  <2>1. dataset = <<>>
    BY <1>1 DEF DatasetInv
  <2>2. IsInjective(<<>>)
    <3>1. DOMAIN <<>> = {}
      OBVIOUS
    <3> QED
      BY <3>1 DEF IsInjective
  <2> QED
    BY <1>1, <2>1, <2>2 DEF DatasetIsWhole
<1>2. CASE parallel = "returned 0"
  <2>1. AllReturned /\ dataset = FlattenSeq(Parts)
    BY <1>2 DEF DatasetInv, AllReturned
  <2>2. /\ Parts \in Seq(Seq(Nat)) /\ Len(Parts) = Count
        /\ \A w \in Shards : /\ Parts[w + 1] = split[w] /\ WroteShare(w, rows[w], split[w])
                             /\ Len(Parts[w + 1]) = Share(w)
    BY <2>1, PartsAre
  <2>3. /\ dataset \in Seq(Nat) /\ Len(dataset) = Total
        /\ \A w \in Shards : \A j \in 1..Share(w) : dataset[w * ShardSize + j] = Parts[w + 1][j]
    BY <2>1, <2>2, SharesJoined
  <2>4. dataset # <<>>
    <3>1. Len(<<>>) = 0
      OBVIOUS
    <3> QED
      BY <2>3, <3>1, DatasetAssumption
  <2>5. ASSUME Apart PROVE IsInjective(dataset)
    <3>1. Increasing(dataset)
      BY <2>1, <2>2, <2>5, ApartFollow, FlattenedIncreases
    <3> QED
      BY <2>3, <3>1, IncreasingIsInjective
  <2>6. ASSUME NEW w \in Shards
        PROVE  SubSeq(dataset, w * ShardSize + 1, w * ShardSize + Share(w)) = rows[w]
    <3> DEFINE a == w * ShardSize
               n == Share(w)
    <3>1. split[w] = rows[w] /\ rows[w] \in Seq(Nat) /\ Len(rows[w]) = n
      BY <2>2 DEF WroteShare, SeedsOf
    <3>2. a \in Nat /\ n \in Nat
      BY SharesAre, ShardsAre
    <3>3. a + n <= Len(dataset)
      <4> DEFINE c == (w + 1) * ShardSize
      <4>1. c \in Nat
        BY ShardsAre
      <4>2. a + n = Least(c, Total)
        BY SharesAre
      <4> HIDE DEF c, a, n
      <4> QED
        BY <2>3, <4>1, <4>2, LeastIs, DatasetAssumption
    <3>4. \A j \in 1..n : dataset[a + j] = rows[w][j]
      BY <2>2, <2>3, <3>1
    <3> HIDE DEF a, n
    <3>5. SubSeq(dataset, a + 1, a + n) = rows[w]
      BY <2>3, <3>1, <3>2, <3>3, <3>4, PartIs
    <3> QED
      BY <3>5 DEF a, n
  <2> QED
    BY <2>3, <2>4, <2>5, <2>6 DEF DatasetIsWhole
<1> QED
    BY <1>1, <1>2

\* However often chunks crash and shards are stopped and resumed, a shard has the
\* example of every fruitful seed it went past, but for the ranges it skipped, once.
THEOREM DatasetLosesNothing == DatasetSpec => []NothingLost
<1>1. DatasetInit => DatasetInv
    BY DatasetStarts
<1>2. DatasetInv /\ [DatasetNext]_datasetVars => DatasetInv'
    BY DatasetKept
<1>3. DatasetInv => NothingLost
    BY InvLosesNothing
<1> QED
    BY <1>1, <1>2, <1>3, PTL DEF DatasetSpec

\* A dataset is put together whole or not at all: each shard's share in its place, and
\* no example twice if no shard reached the seeds of the next one.
THEOREM DatasetBuiltWhole == DatasetSpec => []DatasetIsWhole
<1>1. DatasetInit => DatasetInv
    BY DatasetStarts
<1>2. DatasetInv /\ [DatasetNext]_datasetVars => DatasetInv'
    BY DatasetKept
<1>3. DatasetInv => DatasetIsWhole
    BY InvIsWhole
<1> QED
    BY <1>1, <1>2, <1>3, PTL DEF DatasetSpec

\* What is tried after an attempt is smaller, or begins further on.
THEOREM DatasetAdvances == DatasetSpec => AttemptsAdvance
<1>1. DatasetInit => DatasetInv
    BY DatasetStarts
<1>2. DatasetInv /\ [DatasetNext]_datasetVars => DatasetInv'
    BY DatasetKept
<1>3. ASSUME DatasetInv, NEW w \in Shards,
             ChunkSucceeds(w) \/ ChunkFallsShort(w) \/ ChunkCrashes(w)
      PROVE  \/ seed'[w] > seed[w]
             \/ seed'[w] = seed[w] /\ Current(w)' < Current(w)
  <2>1. CASE ChunkSucceeds(w)
    BY <1>3, <2>1, SucceedKeepsDataset
  <2>2. CASE ChunkFallsShort(w) \/ ChunkCrashes(w)
    <3>1. Advances(w)
      BY <1>3, <2>2, FailKeepsDataset
    <3>2. Current(w)' = Least(targetSize'[w], remaining'[w])
      BY DEF Current
    <3> QED
      BY <3>1, <3>2 DEF Advances
  <2> QED
    BY <1>3, <2>1, <2>2
<1>4. DatasetInv => [\A w \in Shards :
                       ChunkSucceeds(w) \/ ChunkFallsShort(w) \/ ChunkCrashes(w) =>
                           \/ seed'[w] > seed[w]
                           \/ seed'[w] = seed[w] /\ Current(w)' < Current(w)]_datasetVars
    BY <1>3
<1> QED
    BY <1>1, <1>2, <1>4, PTL DEF DatasetSpec, AttemptsAdvance

=============================================================================
