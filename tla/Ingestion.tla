----------------------------- MODULE Ingestion -----------------------------
(***************************************************************************)
(* Ingesting documents for retrieval (rag/service.py, rag/repository.py). *)
(* A request ingests its files one after the other: reads one, has it cut  *)
(* and embedded, and writes the document with its chunks; files change     *)
(* meanwhile. A document is identified by its resolved path, and replaces  *)
(* those of the path it was named by. The repository is Postgres, where    *)
(* the write is a transaction, or the memory of the process.               *)
(*                                                                         *)
(* Left out: embeddings and scores, and two threads inside one write to    *)
(* memory.                                                                 *)
(***************************************************************************)
EXTENDS Integers, Sequences, FiniteSets

CONSTANTS
    Readers,     \* requests, each made once
    Paths,       \* the names requests give files
    File(_),     \* File(p): what Path(p).resolve() gives
    Lengths,     \* chunks a file may have: none, if it is empty
    Asks,        \* Asks[q]: the lists of paths q may be about
    Mutable      \* the files that change, once (a bound)

ASSUME IngestionAssumption == Lengths \subseteq Nat /\ \A q \in Readers : Asks[q] \subseteq Seq(Paths)

Files == {File(p) : p \in Paths}

VARIABLES
    repository,  \* "postgres" or "memory"
    content,     \* content[f]: version and number of chunks of file f
    indexed,     \* documents, records [file, path, version, count, row]
    pieces,      \* chunks in the repository: [file, index, version]
    ingest,      \* ingest[q]: "new", "read", "embed", "delete", "insert", "done", "failed"
    queue, read, \* of each request: the paths left; what was read of the first
    deleted,     \* the row its transaction deletes, or 0
    rowCount,    \* rows are numbered as they are inserted
    asked, began, \* history: the paths of the request; the files when it began,
    written,      \* the paths written so far,
    oneByOne      \* and whether each began after those before had ended

history == <<asked, began, written, oneByOne>>
ingestionVars == <<repository, content, indexed, pieces, ingest, queue, read, deleted, rowCount, history>>

Unread == [version |-> 0, count |-> 0]

IngestionInit ==
    /\ repository \in {"postgres", "memory"}
    /\ content \in [Files -> {[version |-> 1, count |-> n] : n \in Lengths}]
    /\ indexed = {} /\ pieces = {}
    /\ ingest = [q \in Readers |-> "new"] /\ queue = [q \in Readers |-> <<>>]
    /\ read = [q \in Readers |-> Unread] /\ deleted = [q \in Readers |-> 0]
    /\ rowCount = 0
    /\ asked = queue /\ began = [q \in Readers |-> content]
    /\ written = {} /\ oneByOne = TRUE

Edit(f) ==
    /\ f \in Mutable /\ content[f].version = 1
    /\ \E n \in Lengths : content' = [content EXCEPT ![f] = [version |-> @.version + 1, count |-> n]]
    /\ UNCHANGED <<repository, indexed, pieces, ingest, queue, read, deleted, rowCount, history>>

IngestPaths(q) ==
    /\ ingest[q] = "new"
    /\ \E ps \in Asks[q] : queue' = [queue EXCEPT ![q] = ps]
    /\ ingest' = [ingest EXCEPT ![q] = "read"]
    /\ asked' = [asked EXCEPT ![q] = queue'[q]] /\ began' = [began EXCEPT ![q] = content]
    /\ oneByOne' = (oneByOne /\ \A p \in Readers : ingest[p] \in {"new", "done", "failed"})
    /\ UNCHANGED <<repository, content, indexed, pieces, read, deleted, rowCount, written>>

ReadFile(q) ==
    /\ ingest[q] = "read"
    /\ IF queue[q] = <<>> THEN ingest' = [ingest EXCEPT ![q] = "done"] /\ UNCHANGED read
         ELSE /\ read' = [read EXCEPT ![q] = content[File(queue[q][1])]]
              /\ ingest' = [ingest EXCEPT ![q] = "embed"]
    /\ UNCHANGED <<repository, content, indexed, pieces, queue, deleted, rowCount, history>>

\* The embedding of all chunks, which may fail: the files before stay ingested.
Embed(q) ==
    /\ ingest[q] = "embed"
    /\ \E next \in {"delete", "failed"} : ingest' = [ingest EXCEPT ![q] = next]
    /\ UNCHANGED <<repository, content, indexed, pieces, queue, read, deleted, rowCount, history>>

DocumentAt(p) == {d \in indexed : d.path = p}
Chunks(f, r) == {[file |-> f, index |-> i, version |-> r.version] : i \in 1..r.count}
NewDocument(q, p) == [file |-> File(p), path |-> p, version |-> read[q].version,
                      count |-> read[q].count, row |-> rowCount + 1]

\* The statement sees the rows there are when it begins; it waits for those who write them.
DeleteDocument(q) ==
    /\ ingest[q] = "delete" /\ repository = "postgres"
    /\ deleted' = [deleted EXCEPT ![q] = IF DocumentAt(queue[q][1]) = {} THEN 0
                                           ELSE (CHOOSE d \in DocumentAt(queue[q][1]) : TRUE).row]
    /\ ingest' = [ingest EXCEPT ![q] = "insert"]
    /\ UNCHANGED <<repository, content, indexed, pieces, queue, read, rowCount, history>>

NextFile(q) ==
    /\ written' = written \cup {queue[q][1]}
    /\ queue' = [queue EXCEPT ![q] = Tail(@)]
    /\ read' = [read EXCEPT ![q] = Unread] /\ deleted' = [deleted EXCEPT ![q] = 0]
    /\ ingest' = [ingest EXCEPT ![q] = "read"]

\* Mutant: chunks stay when their document goes.
MutCascade(rows, ps) == ps

\* ON DELETE CASCADE
Cascade(rows, ps) == {c \in ps : c.file \notin {d.file : d \in rows}}

\* Mutant: ON CONFLICT DO NOTHING.
MutInsertDocument(q) ==
    /\ ingest[q] = "insert" /\ repository = "postgres"
    /\ LET p == queue[q][1]
           gone == {d \in indexed : d.row = deleted[q]}
           left == indexed \ gone
       IN  IF \E d \in left : d.file = File(p) \/ d.path = p
             THEN UNCHANGED <<indexed, pieces>>
             ELSE /\ indexed' = left \cup {NewDocument(q, p)}
                  /\ pieces' = Cascade(gone, pieces) \cup Chunks(File(p), read[q])
    /\ rowCount' = rowCount + 1
    /\ NextFile(q)
    /\ UNCHANGED <<repository, content, asked, began, oneByOne>>

\* INSERT and commit; the primary key of a row that was not deleted refuses it, and
\* the transaction comes to nothing.
InsertDocument(q) ==
    /\ ingest[q] = "insert" /\ repository = "postgres"
    /\ LET p == queue[q][1]
           gone == {d \in indexed : d.row = deleted[q]}
           left == indexed \ gone
       IN  IF \E d \in left : d.file = File(p) \/ d.path = p
             THEN /\ ingest' = [ingest EXCEPT ![q] = "failed"]
                  /\ UNCHANGED <<indexed, pieces, queue, read, deleted, rowCount, written>>
             ELSE /\ indexed' = left \cup {NewDocument(q, p)}
                  /\ pieces' = Cascade(gone, pieces) \cup Chunks(File(p), read[q])
                  /\ rowCount' = rowCount + 1
                  /\ NextFile(q)
    /\ UNCHANGED <<repository, content, asked, began, oneByOne>>

\* Dictionaries by id: a document of the file is replaced whatever its path was, and
\* a chunk by the one of its index.
UpsertInMemory(q) ==
    /\ ingest[q] = "delete" /\ repository = "memory"
    /\ LET p == queue[q][1]
           f == File(p)
           stale == DocumentAt(p)
           kept == Cascade(stale, pieces)
       IN  /\ indexed' = {d \in indexed \ stale : d.file # f} \cup {NewDocument(q, p)}
           /\ pieces' = {c \in kept : c.file # f \/ c.index > read[q].count} \cup Chunks(f, read[q])
    /\ rowCount' = rowCount + 1
    /\ NextFile(q)
    /\ UNCHANGED <<repository, content, asked, began, oneByOne>>

\* What a search ranks: every chunk with the document it is joined to.
Ranked == {result \in pieces \X indexed : result[1].file = result[2].file}

IngestionRest == (\A q \in Readers : ingest[q] \in {"done", "failed"}) /\ UNCHANGED ingestionVars

IngestionNext ==
    \/ \E f \in Files : Edit(f)
    \/ \E q \in Readers : \/ IngestPaths(q) \/ ReadFile(q) \/ Embed(q) \/ DeleteDocument(q)
                          \/ InsertDocument(q) \/ UpsertInMemory(q)
    \/ IngestionRest

IngestionSpec == IngestionInit /\ [][IngestionNext]_ingestionVars

-----------------------------------------------------------------------------
\* So far every file was named in one way.
OneName == \A p, r \in written : File(p) = File(r) => p = r

\* Whatever is ingested at the same time and wherever an ingestion stops, a query
\* finds a document once and in one version, all of it and nothing left over of an
\* older one: always in Postgres; in memory, as long as a file is always named by
\* the same path. (By another one the document replaces the old, and the chunks by
\* which the old was longer stay, repository.py:27.)
DocumentsAreWhole ==
    /\ \A d, e \in indexed : d.file = e.file \/ d.path = e.path => d = e
    /\ {result[1] : result \in Ranked} = pieces
    /\ repository = "postgres" \/ OneName =>
         \A d \in indexed : {result \in Ranked : result[2] = d} = Chunks(d.file, d) \X {d}

\* A request that returns has made all its files known, every chunk of them, as they
\* were when it began or newer, and no later failure takes them away; provided requests
\* come one by one. (Two at once: the one that read a file earlier may write it later.)
IngestedIsFound ==
    oneByOne => \A q \in Readers : ingest[q] = "done" =>
        \A i \in DOMAIN asked[q] : \E d \in indexed :
            /\ d.file = File(asked[q][i]) /\ d.version >= began[q][d.file].version
            /\ Chunks(d.file, d) \X {d} \subseteq Ranked

=============================================================================
