------------------------------ MODULE RdnszStore ------------------------------
(***************************************************************************)
(* One .rdnsz shard file and the Writer that fills it                      *)
(* (internal/store/writer.go, reader.go).                                  *)
(*                                                                         *)
(* The file is a 128-byte header, all zero until the first Close, and a    *)
(* sequence of compressed blocks.  Records wait in the Writer's block      *)
(* buffer until blockRecs of them make a block; the block's bytes then go  *)
(* through a bufio.Writer, so a finished block may be wholly in the file,  *)
(* wholly in the process's memory, or cut in two.  A block is the set of   *)
(* its records (flushBlock sorts it by address, and one run never stores   *)
(* an address twice).                                                      *)
(***************************************************************************)
EXTENDS Integers, Sequences, FiniteSets

CONSTANTS
    BlockRecs,  \* blockRecs: records per block
    BufBlocks   \* how many blocks fit in the 1 MiB bufio.Writer

ASSUME StoreAssumption == BlockRecs \in Nat \ {0} /\ BufBlocks \in Nat

VARIABLES
    hdr,     \* "none": no file; "zero": placeholder header; "final": patched
    hTotal,  \* the record total in a patched header
    disk,    \* the blocks in the file, a torn fragment being {}
    buf,     \* Writer.buf: the block under construction
    pend,    \* finished blocks not completely in the file yet
    cut,     \* the file ends with the first bytes of Head(pend)
    total,   \* Writer.Total
    werr     \* a write has failed: bufio.Writer refuses every later one

fileVars   == <<hdr, hTotal, disk>>
writerVars == <<buf, pend, cut, total, werr>>
storeVars  == <<fileVars, writerVars>>

\* The partial block an interrupted write leaves behind.
Torn == {}

StoreTypeOK(Rec) ==
    /\ hdr \in {"none", "zero", "final"}
    /\ hTotal \in Nat
    /\ disk \in Seq(SUBSET Rec)
    /\ buf \in SUBSET Rec
    /\ pend \in Seq(SUBSET Rec)
    /\ cut \in BOOLEAN
    /\ total \in Nat
    /\ werr \in BOOLEAN

StoreInit ==
    /\ hdr = "none" /\ hTotal = 0 /\ disk = <<>>
    /\ buf = {} /\ pend = <<>> /\ cut = FALSE /\ total = 0 /\ werr = FALSE

-----------------------------------------------------------------------------
(* Opening.                                                                *)

\* newWriter, and the seeding of the running total.
OpenWriter(seed) ==
    /\ buf' = {} /\ pend' = <<>> /\ cut' = FALSE /\ total' = seed /\ werr' = FALSE

\* NewWriter truncates whatever the path held and writes a zero header.
NewWriter ==
    /\ hdr' = "zero" /\ hTotal' = 0 /\ disk' = <<>>
    /\ OpenWriter(0)

\* Faulty variants: the total starts again at zero; the file is truncated.
NewWriterResumeUnseeded ==
    \/ hdr = "none" /\ NewWriter
    \/ hdr = "final" /\ OpenWriter(0) /\ UNCHANGED fileVars
NewWriterResumeTruncates == hdr # "zero" /\ NewWriter

\* NewWriterResume: no file yet, or append behind whatever the file ends with.
NewWriterResume ==
    \/ hdr = "none" /\ NewWriter
    \/ hdr = "final" /\ OpenWriter(hTotal) /\ UNCHANGED fileVars

\* NewWriterResume returns ReadHeader's error: a zero header has no magic.
ResumeRefused == hdr = "zero"

-----------------------------------------------------------------------------
(* Writing.                                                                *)

\* bufio.Writer.Write: when a block overflows the buffer, a prefix of the
\* queued bytes goes to the file: k whole blocks and perhaps part of the next.
Spill(queue) ==
    \E k \in 0..Len(queue) :
        /\ Len(queue) - k <= BufBlocks
        /\ disk' = disk \o SubSeq(queue, 1, k)
        /\ pend' = SubSeq(queue, k + 1, Len(queue))
        /\ cut' \in IF k = Len(queue) THEN {FALSE}
                    ELSE IF k = 0 THEN {cut, TRUE} ELSE BOOLEAN

\* Faulty variant: the flushed records stay in the buffer.
flushBlockKeepsBuf(block) ==
    /\ buf' = block
    /\ \/ /\ block = {} \/ werr
          /\ UNCHANGED <<disk, pend, cut>>
       \/ /\ block # {} /\ ~werr
          /\ Spill(Append(pend, block))

\* flushBlock ignores the error of bw.Write: after a failed write the block is
\* gone.
flushBlock(block) ==
    /\ buf' = {}
    /\ \/ /\ block = {} \/ werr
          /\ UNCHANGED <<disk, pend, cut>>
       \/ /\ block # {} /\ ~werr
          /\ Spill(Append(pend, block))

\* Writer.add: count the record, buffer it, flush a full block.
Add(rec) ==
    LET block == buf \cup {rec} IN
    /\ total' = total + 1
    /\ \/ /\ Cardinality(block) >= BlockRecs
          /\ flushBlock(block)
       \/ /\ Cardinality(block) < BlockRecs
          /\ buf' = block
          /\ UNCHANGED <<disk, pend, cut>>
    /\ UNCHANGED <<hdr, hTotal, werr>>

\* Faulty variant: Close forgets the block under construction.
CloseBlockForgotten ==
    /\ buf' = {}
    /\ UNCHANGED <<fileVars, pend, cut, total, werr>>

\* Close, first part: the last block.
CloseBlock ==
    /\ flushBlock(buf)
    /\ UNCHANGED <<hdr, hTotal, total, werr>>

\* Faulty variant: the error of bw.Flush is ignored.
CloseFlushUnchecked ==
    /\ disk' = (IF werr THEN disk ELSE disk \o pend) /\ pend' = <<>> /\ cut' = FALSE
    /\ werr' = FALSE
    /\ UNCHANGED <<hdr, hTotal, buf, total>>

\* Close, second part: bw.Flush, when no write has failed.
CloseFlush ==
    /\ ~werr
    /\ disk' = disk \o pend /\ pend' = <<>> /\ cut' = FALSE
    /\ UNCHANGED <<hdr, hTotal, buf, total, werr>>

\* Close, last part: the header is rewritten in place.
CloseHeader ==
    /\ ~werr
    /\ hdr' = "final" /\ hTotal' = total
    /\ UNCHANGED <<disk, writerVars>>

\* A write to the file fails (disk full, I/O error), perhaps part way through
\* the bytes it was given.
WriteFails ==
    /\ ~werr
    /\ werr' = TRUE
    /\ cut' \in {cut, cut \/ pend # <<>>}
    /\ UNCHANGED <<fileVars, buf, pend, total>>

\* The process is gone: the file keeps what was written, memory is lost.
Abandon ==
    /\ disk' = IF cut THEN Append(disk, Torn) ELSE disk
    /\ buf' = {} /\ pend' = <<>> /\ cut' = FALSE /\ total' = 0
    /\ UNCHANGED <<hdr, hTotal, werr>>

-----------------------------------------------------------------------------
(* Reading.                                                                *)

\* Scan stops at the first block it cannot decode: a torn fragment hides
\* itself and everything behind it.
ReadableBlocks(d) == {i \in DOMAIN d : \A j \in 1..i : d[j] # Torn}

\* The records Scan delivers.
Scan(d) == UNION {d[i] : i \in ReadableBlocks(d)}

\* How many records the blocks of the file hold, duplicates included.
RecordCount(d) == Cardinality(UNION {{i} \X d[i] : i \in DOMAIN d})
=============================================================================
