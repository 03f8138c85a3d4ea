---------------------------- MODULE DatasetBuild ----------------------------
(***************************************************************************)
(* Building the training set: scripts/build_sft_dataset_parallel.py starts *)
(* a scripts/build_sft_dataset_chunked.py for each shard, which runs       *)
(* scripts/build_sft_dataset.py for one chunk of examples after another,   *)
(* because the solver may take its process down. An example is named by    *)
(* the seed it was generated from.                                         *)
(*                                                                         *)
(* The files of a chunk are written at its end and taken to be written     *)
(* together; the scripts are restarted with --resume, --keep-chunks and    *)
(* --keep-shards. Formats and profiles are left out: they decide which     *)
(* seeds are fruitful.                                                     *)
(***************************************************************************)
EXTENDS SequencesExt, Picking

CONSTANTS
    Fruitful,     \* the seeds whose scenario and event have validated plans
    Total,        \* --n
    Workers,      \* --workers
    PerChunk, MinPerChunk, SeedStart,
    MaxCrashes,   \* bound on chunks taken down by the solver
    MaxKills      \* bound on shards stopped from outside

ASSUME DatasetAssumption ==
    /\ Total \in Nat \ {0} /\ Workers \in Nat \ {0} /\ SeedStart \in Nat \ {0}
    /\ PerChunk \in Nat \ {0} /\ MinPerChunk \in Nat \ {0}
    /\ Fruitful \subseteq Nat

CeilDiv(a, b) == (a + b - 1) \div b
Least(a, b) == IF a < b THEN a ELSE b
Greatest(a, b) == IF a > b THEN a ELSE b

ShardSize == CeilDiv(Total, Workers)
SeedStride == ShardSize * 20

\* A worker whose share is used up by those before it is not started.
Share(w) == Least(ShardSize, Total - w * ShardSize)
Shards == {w \in 0..(Workers - 1) : Share(w) > 0}
FirstSeed(w) == SeedStart + w * SeedStride

VARIABLES
    parallel,   \* the parallel script: "idle", "waiting", or what it returned
    shard,      \* of each chunked script: "off", "load", "chunks", or what it returned
    rows, seed, chunk, targetSize, remaining,  \* its locals, with chunk_index as chunk
    disk,       \* disk[w]: the chunks kept by shard w, by index
    split,      \* split[w]: the rows of its three files
    dataset,    \* the rows of the three files of the whole
    crashes, kills,
    givenUp     \* history: the seeds that were skipped

shardVars == <<rows, seed, chunk, targetSize, remaining>>
files == <<disk, split, dataset>>
datasetVars == <<parallel, shard, shardVars, files, crashes, kills, givenUp>>

DatasetInit ==
    /\ parallel = "idle" /\ shard = [w \in Shards |-> "off"]
    /\ rows = [w \in Shards |-> <<>>] /\ seed = [w \in Shards |-> 0]
    /\ chunk = [w \in Shards |-> 0] /\ targetSize = [w \in Shards |-> PerChunk]
    /\ remaining = [w \in Shards |-> 0]
    /\ disk = [w \in Shards |-> <<>>] /\ split = [w \in Shards |-> <<>>] /\ dataset = <<>>
    /\ crashes = 0 /\ kills = 0 /\ givenUp = {}

-----------------------------------------------------------------------------
\* build_sft_examples: the first n fruitful seeds, of at most 10 n from this one.
Examples(from, n) ==
    LET tried == [i \in 1..(n * 10) |-> from + i - 1]
        all == Pick(tried, {i \in DOMAIN tried : tried[i] \in Fruitful})
    IN  SubSeq(all, 1, Least(n, Len(all)))

\* Mutant: one seed too far.
MutNextSeed(default, rs) == IF rs = <<>> THEN default ELSE Max(ToSet(rs)) + 2

\* next_seed: the largest seed there is decides, the argument only if there is none.
NextSeed(default, rs) == IF rs = <<>> THEN default ELSE Max(ToSet(rs)) + 1

Start ==
    /\ parallel \in {"idle", "returned 1"}
    /\ parallel' = "waiting"
    /\ shard' = [w \in Shards |-> "load"]
    /\ UNCHANGED <<shardVars, files, crashes, kills, givenUp>>

\* main of the chunked script, to the loop.
LoadRows(w) ==
    /\ shard[w] = "load"
    /\ LET found == FlattenSeq(disk[w])
           kept == SubSeq(found, 1, Least(Share(w), Len(found)))
       IN  /\ rows' = [rows EXCEPT ![w] = kept]
           /\ remaining' = [remaining EXCEPT ![w] = Share(w) - Len(kept)]
           /\ seed' = [seed EXCEPT ![w] = NextSeed(FirstSeed(w), kept)]
           /\ chunk' = [chunk EXCEPT ![w] = Len(disk[w])]
    /\ targetSize' = [targetSize EXCEPT ![w] = PerChunk]
    /\ shard' = [shard EXCEPT ![w] = "chunks"]
    /\ UNCHANGED <<parallel, files, crashes, kills, givenUp>>

Current(w) == Least(targetSize[w], remaining[w])

\* The chunk's directory, numbered from 0, is made or written over.
KeepChunk(w, rs) ==
    disk' = [disk EXCEPT ![w] = [i \in 1..Greatest(chunk[w] + 1, Len(@)) |->
                                    IF i = chunk[w] + 1 THEN rs ELSE @[i]]]

ChunkSucceeds(w) ==
    /\ shard[w] = "chunks" /\ remaining[w] > 0
    /\ LET new == Examples(seed[w], Current(w)) IN
       /\ Len(new) = Current(w)
       /\ KeepChunk(w, new)
       /\ rows' = [rows EXCEPT ![w] = @ \o new]
       /\ remaining' = [remaining EXCEPT ![w] = Share(w) - Len(rows'[w])]
       /\ seed' = [seed EXCEPT ![w] = NextSeed(@ + Current(w), rows'[w])]
    /\ chunk' = [chunk EXCEPT ![w] = @ + 1]
    /\ targetSize' = [targetSize EXCEPT ![w] = PerChunk]
    /\ UNCHANGED <<parallel, shard, split, dataset, crashes, kills, givenUp>>

\* Mutant: the smallest chunk is tried for ever.
MutRetryOrSkip(w) ==
    /\ targetSize' = [targetSize EXCEPT ![w] = Greatest(MinPerChunk, Current(w) \div 2)]
    /\ UNCHANGED <<seed, givenUp>>

\* Half the chunk is tried from the same seed; the smallest is skipped. The targetSize
\* stays small until a chunk succeeds.
RetryOrSkip(w) ==
    IF Current(w) > MinPerChunk
      THEN /\ targetSize' = [targetSize EXCEPT ![w] = Greatest(MinPerChunk, Current(w) \div 2)]
           /\ UNCHANGED <<seed, givenUp>>
      ELSE /\ seed' = [seed EXCEPT ![w] = @ + Current(w)]
           /\ givenUp' = givenUp \cup seed[w]..(seed[w] + Current(w) - 1)
           /\ UNCHANGED targetSize

\* Too few examples: they are written, and the exit code is 1.
ChunkFallsShort(w) ==
    /\ shard[w] = "chunks" /\ remaining[w] > 0
    /\ LET new == Examples(seed[w], Current(w)) IN
       Len(new) < Current(w) /\ KeepChunk(w, new)
    /\ RetryOrSkip(w)
    /\ UNCHANGED <<parallel, shard, rows, chunk, remaining, split, dataset, crashes, kills>>

\* The solver takes the process down before anything is written.
ChunkCrashes(w) ==
    /\ shard[w] = "chunks" /\ remaining[w] > 0
    /\ crashes < MaxCrashes /\ crashes' = crashes + 1
    /\ RetryOrSkip(w)
    /\ UNCHANGED <<parallel, shard, rows, chunk, remaining, files, kills>>

\* The splits are written one after the other and read back in that order.
Finish(w) ==
    /\ shard[w] = "chunks" /\ remaining[w] <= 0
    /\ split' = [split EXCEPT ![w] = rows[w]]
    /\ shard' = [shard EXCEPT ![w] = IF Len(rows[w]) = Share(w) THEN "returned 0" ELSE "returned 1"]
    /\ UNCHANGED <<parallel, shardVars, disk, dataset, crashes, kills, givenUp>>

\* The script is stopped, with the chunk it waits for.
Kill(w) ==
    /\ shard[w] \in {"load", "chunks"}
    /\ kills < MaxKills /\ kills' = kills + 1
    /\ shard' = [shard EXCEPT ![w] = "returned 1"]
    /\ UNCHANGED <<parallel, shardVars, files, crashes, givenUp>>

\* Mutant: the exit codes are not looked at.
MutCollect ==
    /\ parallel = "waiting"
    /\ \A w \in Shards : shard[w] \in {"returned 0", "returned 1"}
    /\ LET all == FlattenSeq([i \in 1..Cardinality(Shards) |-> split[i - 1]])
       IN  dataset' = SubSeq(all, 1, Least(Total, Len(all)))
    /\ parallel' = "returned 0"
    /\ UNCHANGED <<shard, shardVars, disk, split, crashes, kills, givenUp>>

\* All shards are waited for; if one failed nothing is put together.
Collect ==
    /\ parallel = "waiting"
    /\ \A w \in Shards : shard[w] \in {"returned 0", "returned 1"}
    /\ IF \E w \in Shards : shard[w] = "returned 1"
         THEN parallel' = "returned 1" /\ UNCHANGED dataset
         ELSE LET all == FlattenSeq([i \in 1..Cardinality(Shards) |-> split[i - 1]])
              IN  /\ dataset' = SubSeq(all, 1, Least(Total, Len(all)))
                  /\ parallel' = IF Len(dataset') = Total THEN "returned 0" ELSE "returned 1"
    /\ UNCHANGED <<shard, shardVars, disk, split, crashes, kills, givenUp>>

\* Nobody starts it again.
DatasetRest == parallel = "returned 0" /\ UNCHANGED datasetVars

DatasetNext ==
    \/ Start \/ Collect \/ DatasetRest
    \/ \E w \in Shards : \/ LoadRows(w) \/ ChunkSucceeds(w) \/ ChunkFallsShort(w)
                         \/ ChunkCrashes(w) \/ Finish(w) \/ Kill(w)

DatasetSpec == DatasetInit /\ [][DatasetNext]_datasetVars

-----------------------------------------------------------------------------
\* However often chunks crashed and shards were stopped and resumed: of the seeds a
\* shard went past none is lost that would have made an example, but for the ranges
\* that were skipped, and none is there twice.
NothingLost ==
    \A w \in Shards : shard[w] = "chunks" =>
        /\ ToSet(rows[w]) \subseteq Fruitful
        /\ IsInjective(rows[w])
        /\ \A s \in FirstSeed(w)..(seed[w] - 1) :
             s \in Fruitful => s \in ToSet(rows[w]) \cup givenUp

\* No shard went so far as the first seed of the next one: the stride, 20 seeds for an
\* example, is all that keeps them apart.
Apart == \A w \in Shards : \A s \in ToSet(split[w]) : s < FirstSeed(w) + SeedStride

\* build_sft_dataset_parallel.py:32 "parallel, non-overlapping seed shards": a dataset
\* is the one that was asked for, or none. Exit code 0 means Total examples, each
\* shard's share in order, and none twice, as long as the stride was enough.
DatasetIsWhole ==
    /\ dataset # <<>> => Len(dataset) = Total
    /\ Apart => IsInjective(dataset)
    /\ parallel = "returned 0" =>
         /\ dataset # <<>>
         /\ \A w \in Shards : SubSeq(dataset, w * ShardSize + 1, w * ShardSize + Share(w)) = rows[w]

\* No chunk is tried for ever: whether it is made, falls short or takes the solver
\* down, what is tried next is smaller or begins further on, so that a shard comes past
\* seeds that give nothing or are fatal, and ends where there are fruitful ones ahead.
AttemptsAdvance ==
    [][\A w \in Shards :
          ChunkSucceeds(w) \/ ChunkFallsShort(w) \/ ChunkCrashes(w) =>
              \/ seed'[w] > seed[w]
              \/ seed'[w] = seed[w] /\ Current(w)' < Current(w)]_datasetVars

=============================================================================
