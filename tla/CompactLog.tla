---------------------------- MODULE CompactLog ----------------------------
(***************************************************************************)
(* The watcher of codex-tui.log (providers/codex/compact.rs): every half   *)
(* second it compares the length of the log with its offset, reads from    *)
(* the offset to the end, and applies the compaction lines it finds.       *)
(*                                                                         *)
(* The log is a sequence of halves of lines, so that it can be read with   *)
(* its last line half written.  Only a whole line parses.                  *)
(***************************************************************************)
EXTENDS Naturals, Sequences, SequencesExt

CONSTANTS
    MaxLine,        \* bound: compaction lines written
    MaxTruncation   \* bound: truncations of the log

ASSUME CompactLogAssumption == MaxLine \in Nat /\ MaxTruncation \in Nat

VARIABLES
    log,        \* what the file holds
    written,    \* lines begun
    truncated,  \* truncations so far
    watch,      \* where the watcher's loop is
    offset,     \* what it has read up to
    length,     \* metadata.len()
    chunk,      \* what it has read
    batch,      \* the lines of the chunk it has yet to apply
    applied,    \* history: the lines it has applied, in order
    basis,      \* history: the truncation its offset counts from
    lost        \* history: lines before its start, or cut by its offset

compactVars ==
    <<log, written, truncated, watch, offset, length, chunk, batch, applied, basis, lost>>

CompactInit ==
    /\ log = <<>> /\ written = 0 /\ truncated = 0
    /\ watch = "start" /\ offset = 0 /\ length = 0 /\ chunk = <<>> /\ batch = {}
    /\ applied = <<>> /\ basis = 0 /\ lost = {}

Half(n, part) == [line |-> n, part |-> part]

Line(n) == <<Half(n, 1), Half(n, 2)>>

(* The last line of a file may be half there. *)
Open(s) == s # <<>> /\ Last(s).part = 1

Whole(s) == {n \in 1..MaxLine : \E i \in 1..Len(s) - 1 : SubSeq(s, i, i + 1) = Line(n)}

-----------------------------------------------------------------------------
(* Codex writes its log, a line in one piece or in two. *)
WriteLine ==
    /\ ~Open(log) /\ written < MaxLine
    /\ written' = written + 1
    /\ log' \in {log \o Line(written'), Append(log, Half(written', 1))}
    /\ UNCHANGED <<truncated, watch, offset, length, chunk, batch, applied, basis, lost>>

FinishLine ==
    /\ Open(log)
    /\ log' = Append(log, Half(Last(log).line, 2))
    /\ UNCHANGED <<written, truncated, watch, offset, length, chunk, batch, applied, basis, lost>>

TruncateLog ==
    /\ log # <<>> /\ truncated < MaxTruncation
    /\ log' = <<>> /\ truncated' = truncated + 1
    /\ UNCHANGED <<written, watch, offset, length, chunk, batch, applied, basis, lost>>

-----------------------------------------------------------------------------
(* A log that is not there yet has no length. *)
StartWatch ==
    /\ watch = "start"
    /\ watch' = "sleep" /\ offset' = Len(log)
    /\ basis' = truncated /\ lost' = {log[i].line : i \in 1..Len(log)}
    /\ UNCHANGED <<log, written, truncated, length, chunk, batch, applied>>

StatLog ==
    /\ watch = "sleep"
    /\ offset' = IF Len(log) < offset THEN 0 ELSE offset
    /\ length' = Len(log)
    /\ watch' = IF length' = offset' THEN "sleep" ELSE "read"
    /\ basis' = IF offset' = 0 THEN truncated ELSE basis
    /\ UNCHANGED <<log, written, truncated, chunk, batch, applied, lost>>

ReadLog ==
    /\ watch = "read"
    /\ watch' = "advance" /\ chunk' = SubSeq(log, offset + 1, Len(log))
    /\ UNCHANGED <<log, written, truncated, offset, length, batch, applied, basis, lost>>

(* The open, the seek or the read fails, or the chunk is not UTF-8. *)
FailToRead ==
    /\ watch = "read"
    /\ watch' = "sleep"
    /\ UNCHANGED <<log, written, truncated, offset, length, chunk, batch, applied, basis, lost>>

CutBy(s, end) == IF end \in 1..Len(s) /\ s[end].part = 1 THEN {s[end].line} ELSE {}

(* Faulty: the length is taken after the read. *)
AdvanceToEnd ==
    /\ watch = "advance"
    /\ watch' = "apply" /\ offset' = Len(log)
    /\ batch' = Whole(chunk)
    /\ lost' = lost \cup (CutBy(log, length) \ Whole(chunk))
    /\ UNCHANGED <<log, written, truncated, length, chunk, applied, basis>>

AdvanceOffset ==
    /\ watch = "advance"
    /\ watch' = "apply" /\ offset' = length
    /\ batch' = Whole(chunk)
    /\ lost' = lost \cup (CutBy(log, length) \ Whole(chunk))
    /\ UNCHANGED <<log, written, truncated, length, chunk, applied, basis>>

(* In the order of the log, which is that of their numbers.  What a line   *)
(* does to its session is in SessionEvents.                                *)
ApplyLine ==
    /\ watch = "apply" /\ batch # {}
    /\ applied' = Append(applied, Min(batch)) /\ batch' = batch \ {Min(batch)}
    /\ UNCHANGED <<log, written, truncated, watch, offset, length, chunk, basis, lost>>

EndBatch ==
    /\ watch = "apply" /\ batch = {}
    /\ watch' = "sleep" /\ chunk' = <<>>
    /\ UNCHANGED <<log, written, truncated, offset, length, batch, applied, basis, lost>>

CompactNext ==
    \/ WriteLine \/ FinishLine \/ TruncateLog
    \/ StartWatch \/ StatLog \/ ReadLog \/ FailToRead \/ AdvanceOffset \/ ApplyLine \/ EndBatch

CompactSpec == CompactInit /\ [][CompactNext]_compactVars

-----------------------------------------------------------------------------
CompactTypeOK ==
    /\ written \in 0..MaxLine /\ truncated \in 0..MaxTruncation /\ basis \in 0..truncated
    /\ log \in Seq([line : 1..MaxLine, part : {1, 2}])
    /\ watch \in {"start", "sleep", "read", "advance", "apply"}
    /\ {offset, length} \subseteq 0..2 * MaxLine
    /\ chunk \in Seq([line : 1..MaxLine, part : {1, 2}])
    /\ applied \in Seq(1..MaxLine) /\ batch \cup lost \subseteq 1..MaxLine

(* compact.rs 39: unless a truncation has gone unnoticed, each line that   *)
(* lies before the offset has been applied or is about to be, save one the *)
(* offset cut in two; no line is applied more than twice; and after each   *)
(* batch the newest line applied is the last, so that the session is left  *)
(* as the log says even though lines are read again.                       *)
EachLineIsApplied ==
    /\ basis = truncated =>
           Whole(SubSeq(log, 1, offset)) \subseteq lost \cup ToSet(applied) \cup batch
    /\ \A n \in 1..MaxLine : Cardinality({i \in 1..Len(applied) : applied[i] = n}) <= 2
    /\ watch = "sleep" /\ applied # <<>> => \A i \in 1..Len(applied) : applied[i] <= Last(applied)
=============================================================================
