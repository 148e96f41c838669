------------------------------- MODULE JsonlSink -------------------------------
(***************************************************************************)
(* The JSONL output and the summary it prints (internal/output/output.go). *)
(* A line is the record it encodes.                                        *)
(***************************************************************************)
EXTENDS Integers, Sequences

CONSTANT
    MaxSamples   \* maxSamples: records shown in the summary

ASSUME SinkAssumption == MaxSamples \in Nat

VARIABLES
    lines,      \* the lines of the file
    pend,       \* lines in the bufio.Writer
    sinkErr,    \* a write has failed: bufio.Writer refuses every later one
    total,      \* Writer.Total
    byCode,     \* Writer.byCode
    fcChecked,  \* Writer.FCChecked
    fcMatch,    \* Writer.FCMatch
    samples     \* Writer.samples

\* The status codes (internal/model).
Codes == {"has_ptr", "noerror_empty", "nxdomain", "servfail", "refused", "timeout",
          "net_error", "lame_delegation"}

sinkFileVars  == <<lines, pend, sinkErr>>
sinkStatVars  == <<total, byCode, fcChecked, fcMatch, samples>>
sinkVars      == <<sinkFileVars, sinkStatVars>>

\* New truncates the file.
SinkInit ==
    /\ lines = <<>> /\ pend = <<>> /\ sinkErr = FALSE
    /\ total = 0 /\ byCode = [c \in Codes |-> 0]
    /\ fcChecked = 0 /\ fcMatch = 0 /\ samples = <<>>

\* The first k of the queued lines reach the file.
Pour(queue, k) ==
    /\ lines' = lines \o SubSeq(queue, 1, k)
    /\ pend' = SubSeq(queue, k + 1, Len(queue))

\* Faulty variant: a failed write empties the buffer and is forgotten.
EncodeForgets(rec) ==
    \/ /\ \E k \in 0..(Len(pend) + 1) : Pour(Append(pend, rec), k)
       /\ UNCHANGED sinkErr
    \/ pend' = <<>> /\ sinkErr' = TRUE /\ UNCHANGED lines

\* Encode into the buffer, which may write some of it or fail to; the error is
\* ignored, and after it nothing is written.
Encode(rec) ==
    \/ sinkErr /\ UNCHANGED sinkFileVars
    \/ /\ ~sinkErr
       /\ \E k \in 0..(Len(pend) + 1) : Pour(Append(pend, rec), k)
       /\ sinkErr' \in BOOLEAN

\* Faulty variant: every record counts as forward-confirmed or not.
WriteRecordAllChecked(rec) ==
    /\ Encode(rec)
    /\ total' = total + 1
    /\ byCode' = [byCode EXCEPT ![rec.status] = @ + 1]
    /\ samples' = IF rec.status = "has_ptr" /\ Len(samples) < MaxSamples
                  THEN Append(samples, rec) ELSE samples
    /\ fcChecked' = fcChecked + 1
    /\ fcMatch' = IF rec.match = "yes" THEN fcMatch + 1 ELSE fcMatch

\* write: the line, then the statistics.
WriteRecord(rec) ==
    /\ Encode(rec)
    /\ total' = total + 1
    /\ byCode' = [byCode EXCEPT ![rec.status] = @ + 1]
    /\ samples' = IF rec.status = "has_ptr" /\ Len(samples) < MaxSamples
                  THEN Append(samples, rec) ELSE samples
    /\ fcChecked' = IF rec.match # "none" THEN fcChecked + 1 ELSE fcChecked
    /\ fcMatch' = IF rec.match = "yes" THEN fcMatch + 1 ELSE fcMatch

\* Close: flush what is left.
SinkClose ==
    \/ sinkErr /\ UNCHANGED sinkVars
    \/ /\ ~sinkErr
       /\ \E k \in 0..Len(pend) : Pour(pend, k) /\ sinkErr' = (k < Len(pend))
       /\ UNCHANGED sinkStatVars
=============================================================================
