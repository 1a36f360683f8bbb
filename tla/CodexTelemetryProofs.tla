------------------------ MODULE CodexTelemetryProofs ------------------------
(***************************************************************************)
(* The safety of CodexTelemetry, for any number of hooks, lines and        *)
(* rewritings, any counters and whatever the lines carry.                  *)
(***************************************************************************)
EXTENDS CodexTelemetry, SequenceTheorems, TLAPS

(* The file: its lines are numbered in order, and no reader has read one   *)
(* that does not exist yet.                                                *)
FileOK ==
    /\ half => rollout # <<>>
    /\ source = NoFile => rollout = <<>> /\ rewrites = 0
    /\ \A i \in 1..Len(rollout) : rollout[i].id \in 1..written
    /\ \A i, j \in 1..Len(rollout) : i < j => rollout[i].id < rollout[j].id
    /\ counted \subseteq 1..written
    /\ reader.source <= source
    /\ reader.source = NoFile => reader.offset = 0 /\ reader.file = 0

Holds(t) == pc[t] \in {"parse", "lookup", "emit"}

(* The lock is held by whoever reads, and nothing is left behind it.       *)
ControlOK ==
    /\ \A t \in Task : Holds(t) => lock = t
    /\ lock # NoTask => tracked
    /\ lock = NoTask => chunk = <<>> /\ pending = <<>>
    /\ \A t \in Task : pc[t] \in {"lookup", "emit"} => chunk = <<>>
    /\ \A h \in Hook : pc[h] \notin {"idle", "drain"}
    /\ pc[Watcher] \in {"idle", "drain", "parse", "emit"}

(* What is shown is what was parsed, except while somebody reads.          *)
ShownOK ==
    /\ object <= born
    /\ object # NoObject /\ tracked /\ (lock = NoTask \/ \E t \in Task : pc[t] = "emit")
          => shown = Parsed

(* A report a comes no later than a report b of the same reader. *)
Precedes(a, b) == a.reader = b.reader => a.epoch <= b.epoch /\ a.revision < b.revision

(* The reader and what it has not emitted are ahead of what was emitted.   *)
OrderOK ==
    /\ \A i \in 1..Len(sent) :
          /\ sent[i].object \in 1..born
          /\ sent[i].reader <= reader.number
          /\ sent[i].reader = reader.number
                => sent[i].epoch <= reader.epoch /\ sent[i].revision <= reader.revision
    /\ \A i \in 1..Len(pending) :
          /\ pending[i].reader = reader.number
          /\ pending[i].epoch <= reader.epoch /\ pending[i].revision <= reader.revision
    /\ \A i \in 1..Len(sent), j \in 1..Len(pending) : Precedes(sent[i], pending[j])
    /\ \A i, j \in 1..Len(pending) : i < j => Precedes(pending[i], pending[j])
    /\ \A i, j \in 1..Len(sent) : i < j => Precedes(sent[i], sent[j])

(* A report b follows a report a and adds the difference.                  *)
AddsTo(a, b) ==
    a.reader = b.reader /\ a.epoch = b.epoch => b.delta = Difference(a.totals, b.totals)

(* The reader's own reports of this epoch.                                 *)
OfReader(a) == a.reader = reader.number /\ a.epoch = reader.epoch

(* The chain of totals: from report to report for one object, from the     *)
(* last one emitted to the first one pending, from the last one pending to *)
(* the parser.  A baseline begins a chain of its own.                      *)
SumsOK ==
    /\ \A i \in 1..Len(sent) : Mandatory \subseteq Keys(sent[i].totals)
    /\ \A i \in 1..Len(pending) : Mandatory \subseteq Keys(pending[i].totals)
    /\ chunk # <<>> /\ baseline => pending = <<>> /\ \A i \in 1..Len(sent) : ~OfReader(sent[i])
    /\ reader.source = NoFile =>
          chunk = <<>> /\ pending = <<>> /\ \A i \in 1..Len(sent) : sent[i].reader # reader.number
    /\ pending # <<>> => /\ pending[Len(pending)].epoch = reader.epoch
                         /\ pending[Len(pending)].totals = reader.totals
    /\ \A i \in 1..Len(pending) - 1 : AddsTo(pending[i], pending[i + 1])
    /\ sent # <<>> /\ sent[Len(sent)].object = object =>
          IF pending = <<>>
          THEN OfReader(sent[Len(sent)]) => sent[Len(sent)].totals = reader.totals
          ELSE AddsTo(sent[Len(sent)], pending[1])
    /\ \A i \in 1..Len(sent) - 1 :
          sent[i].object = sent[i + 1].object => AddsTo(sent[i], sent[i + 1])

(* Lines are parsed once, unless they are history.                         *)
InChunk(id) == \E i \in 1..Len(chunk) : chunk[i].id = id

Unread(i) ==
    \/ tracked /\ reader.source = source /\ 2 * i > reader.offset
    \/ half /\ i = Len(rollout)

LinesOK ==
    /\ \A i \in 1..Len(chunk) : chunk[i].id \in 1..written
    /\ \A i, j \in 1..Len(chunk) : i < j => chunk[i].id < chunk[j].id
    /\ \A i \in 1..Len(chunk) : baseline \/ chunk[i].id \notin counted
    /\ \A i \in 1..Len(rollout) :
          Unread(i) => rollout[i].id \notin counted /\ ~InChunk(rollout[i].id)
    /\ \A i \in 1..Len(pending) : pending[i].fresh /\ pending[i].line \in counted
    /\ \A i, j \in 1..Len(pending) : i < j => pending[i].line # pending[j].line
    /\ \A i \in 1..Len(sent), j \in 1..Len(pending) : sent[i].line # pending[j].line
    /\ \A i \in 1..Len(sent) : sent[i].fresh /\ sent[i].line \in counted
    /\ \A i, j \in 1..Len(sent) : i < j => sent[i].line # sent[j].line

SameFile(a, b) == a.reader = b.reader /\ a.epoch = b.epoch => a.file = b.file

(* Where rewriting is noticed, a file that looks the same is the same.     *)
FilesOK ==
    /\ ~Noticeable(Length) => reader.file = rewrites
    /\ \A i \in 1..Len(sent) : OfReader(sent[i]) => sent[i].file = reader.file
    /\ \A i \in 1..Len(pending) : OfReader(pending[i]) => pending[i].file = reader.file
    /\ \A i \in 1..Len(sent), j \in 1..Len(pending) : SameFile(sent[i], pending[j])
    /\ \A i, j \in 1..Len(pending) : SameFile(pending[i], pending[j])
    /\ \A i, j \in 1..Len(sent) : SameFile(sent[i], sent[j])

IInv ==
    /\ TypeOK
    /\ FileOK
    /\ ControlOK
    /\ ShownOK
    /\ OrderOK
    /\ SumsOK
    /\ LinesOK
    /\ (~Unnoticed => FilesOK)
-----------------------------------------------------------------------------
(* What a part of the invariant depends on.                                *)
LEMMA ControlFrame ==
    ASSUME ControlOK, UNCHANGED <<pc, lock, tracked, chunk, pending>>
    PROVE  ControlOK'
  BY DEF ControlOK, Holds

LEMMA ShownFrame ==
    ASSUME ShownOK, UNCHANGED <<object, born, shown, tracked, lock, pc, reader>>
    PROVE  ShownOK'
  BY DEF ShownOK, Parsed

LEMMA OrderFrame ==
    ASSUME OrderOK, UNCHANGED <<sent, pending, reader, born>>
    PROVE  OrderOK'
  BY DEF OrderOK, Precedes

LEMMA SumsFrame ==
    ASSUME SumsOK, UNCHANGED <<sent, pending, reader, chunk, baseline, object>>
    PROVE  SumsOK'
  BY DEF SumsOK, AddsTo, OfReader

LEMMA LinesFrame ==
    ASSUME LinesOK, UNCHANGED <<rollout, half, source, written, tracked, reader, chunk,
                                baseline, counted, pending, sent>>
    PROVE  LinesOK'
  BY DEF LinesOK, Unread, InChunk

LEMMA FileFrame ==
    ASSUME FileOK, UNCHANGED <<rollout, half, source, written, rewrites, counted, reader>>
    PROVE  FileOK'
  BY DEF FileOK

LEMMA FilesFrame ==
    ASSUME FilesOK, UNCHANGED <<rollout, half, source, rewrites, tracked, reader, sent, pending>>
    PROVE  FilesOK'
  BY DEF FilesOK, Noticeable, Length, Halves, OfReader, SameFile

(* The length of a file in half lines. *)
LEMMA LengthType ==
    ASSUME TypeOK, FileOK
    PROVE  /\ Length \in Nat /\ Len(rollout) \in Nat
           /\ Length \div 2 \in 0..Len(rollout)
           /\ Length \div 2 = Len(rollout) - (IF half THEN 1 ELSE 0)
  <1>1. Len(rollout) \in Nat /\ (half => Len(rollout) > 0)
    BY LenProperties, EmptySeq DEF TypeOK, FileOK
  <1> QED
    BY <1>1 DEF Length, Halves

(* The inductive invariant holds in the beginning. *)
LEMMA InitIInv == Init => IInv
  <1> SUFFICES ASSUME Init PROVE IInv
    OBVIOUS
  <1> USE TelemetryAssumption DEF Init
  <1>1. None \in Totals /\ NewReader(0) \in Reader
    BY DEF None, Totals, NewReader, Reader, Absent, NoFile, NoLine
  <1>2. /\ <<>> \in Seq(Line) /\ <<>> \in Seq(Report) /\ Len(<<>>) = 0
    BY EmptySeq
  <1>3. TypeOK
    <2>1. script \in [1..MaxLine -> Totals] /\ work \in [Hook -> {"update", "remove"}]
      OBVIOUS
    <2>2. pc \in [Task -> {"start", "parse", "lookup", "emit", "vanish", "idle", "drain", "done"}]
      OBVIOUS
    <2>3. shown \in Parser
      BY <1>1 DEF Parser
    <2>4. written \in 0..MaxLine /\ rewrites \in 0..MaxRewrite
      OBVIOUS
    <2> QED
      BY <1>1, <1>2, <2>1, <2>2, <2>3, <2>4 DEF TypeOK, NoFile, NoObject
  <1>4. FileOK
    BY <1>2 DEF FileOK, NewReader, NoFile
  <1>5. ControlOK
    BY DEF ControlOK, Holds, Task
  <1>6. ShownOK
    BY DEF ShownOK, NoObject
  <1>7. OrderOK
    BY <1>2 DEF OrderOK
  <1>8. SumsOK
    BY <1>2 DEF SumsOK
  <1>9. LinesOK
    BY <1>2 DEF LinesOK
  <1>10. FilesOK
    BY <1>2 DEF FilesOK, NewReader, Noticeable
  <1> QED
    BY <1>3, <1>4, <1>5, <1>6, <1>7, <1>8, <1>9, <1>10 DEF IInv
-----------------------------------------------------------------------------
(* The agent *)

(* What the agent leaves alone. *)
Others == <<pc, lock, readVars, pending, objectVars, sent, inputVars>>

LEMMA AgentKeeps ==
    ASSUME IInv, UNCHANGED Others
    PROVE  ControlOK' /\ ShownOK' /\ OrderOK' /\ SumsOK'
  <1> USE DEF Others, readVars, objectVars
  <1>1. ControlOK'
    BY ControlFrame DEF IInv
  <1>2. ShownOK'
    BY ShownFrame DEF IInv
  <1>3. OrderOK'
    BY OrderFrame DEF IInv
  <1>4. SumsOK'
    BY SumsFrame DEF IInv
  <1> QED
    BY <1>1, <1>2, <1>3, <1>4

(* A line is appended, and no reader knows it. *)
LEMMA AppendLineIInv ==
    ASSUME IInv, AppendLine
    PROVE  IInv'
  <1> DEFINE line == [id |-> written + 1, usage |-> script[written + 1]]
  <1> USE TelemetryAssumption DEF NoFile
  <1>1. PICK cut \in BOOLEAN :
          /\ Unnoticed \/ (Noticeable(Length) => Noticeable(Halves(Append(rollout, line), cut)))
          /\ rollout' = Append(rollout, line) /\ half' = cut
    BY DEF AppendLine, Grow
  <1>2. /\ source' = IF source = NoFile THEN 1 ELSE source
        /\ notified' = TRUE /\ UNCHANGED <<rewrites, since>> /\ UNCHANGED Others
        /\ ~half /\ written < MaxLine /\ written' = written + 1
    BY DEF AppendLine, Grow, Others
  <1>3. written \in Nat /\ written' \in 1..MaxLine /\ line \in Line
    BY <1>2 DEF IInv, TypeOK, Line
  <1>4. /\ rollout \in Seq(Line) /\ rollout' \in Seq(Line) /\ rollout' # <<>>
        /\ Len(rollout) \in Nat /\ Len(rollout') = Len(rollout) + 1
        /\ \A i \in 1..Len(rollout) : rollout'[i] = rollout[i]
        /\ rollout'[Len(rollout')] = line /\ line.id = written + 1
    BY <1>1, <1>3, AppendProperties, LenProperties DEF IInv, TypeOK
  <1> HIDE DEF line
  <1>5. TypeOK'
    BY <1>1, <1>2, <1>3, <1>4
    DEF IInv, TypeOK, Others, readVars, objectVars, inputVars
  <1>6. FileOK'
    <2>1. UNCHANGED <<counted, reader>>
      BY <1>2 DEF Others, readVars
    <2>2. source' \in Nat /\ source <= source' /\ source' # NoFile /\ reader.source \in Nat
      BY <1>2 DEF IInv, TypeOK, Reader
    <2>3. \A i \in 1..Len(rollout') : rollout'[i].id \in 1..written'
      BY <1>2, <1>3, <1>4 DEF IInv, FileOK
    <2>4. \A i, j \in 1..Len(rollout') : i < j => rollout'[i].id < rollout'[j].id
      BY <1>2, <1>3, <1>4 DEF IInv, FileOK
    <2> QED
      BY <1>2, <1>3, <1>4, <2>1, <2>2, <2>3, <2>4 DEF IInv, TypeOK, FileOK
  <1>7. LinesOK'
    <2>1. UNCHANGED <<tracked, reader, chunk, baseline, counted, pending, sent>>
      BY <1>2 DEF Others, readVars
    <2>2. \A i \in 1..Len(rollout') :
             Unread(i)' => rollout'[i].id \notin counted /\ ~InChunk(rollout'[i].id)
      <3> SUFFICES ASSUME NEW i \in 1..Len(rollout'), Unread(i)'
                   PROVE  rollout'[i].id \notin counted /\ ~InChunk(rollout'[i].id)
        BY DEF Unread
      <3>1. CASE i = Len(rollout')
        <4>1. rollout'[i].id = written + 1
          BY <1>4, <3>1
        <4>2. written + 1 \notin 1..written
          BY <1>3
        <4>3. written + 1 \notin counted
          BY <4>2 DEF IInv, FileOK
        <4>4. ~InChunk(written + 1)
          BY <4>2 DEF IInv, LinesOK, InChunk
        <4> QED
          BY <4>1, <4>3, <4>4
      <3>2. CASE i # Len(rollout')
        <4>1. i \in 1..Len(rollout)
          BY <1>4, <3>2
        <4>2. source # NoFile
          BY <4>1, EmptySeq DEF IInv, FileOK
        <4>3. tracked /\ reader.source = source /\ 2 * i > reader.offset
          BY <1>2, <2>1, <3>2, <4>2 DEF Unread
        <4> QED
          BY <1>4, <4>1, <4>3 DEF IInv, LinesOK, Unread
      <3> QED
        BY <3>1, <3>2
    <2>3. \A i \in 1..Len(chunk) : chunk[i].id \in 1..written'
      BY <1>2, <1>3 DEF IInv, LinesOK
    <2> QED
      BY <2>1, <2>2, <2>3 DEF IInv, LinesOK, InChunk
  <1>8. ~Unnoticed => FilesOK'
    <2> SUFFICES ASSUME ~Unnoticed PROVE FilesOK'
      OBVIOUS
    <2>1. UNCHANGED <<tracked, reader, pending, sent, rewrites>>
      BY <1>2 DEF Others, readVars
    <2>2. ~Noticeable(Length)' => ~Noticeable(Length)
      <3>1. CASE source = NoFile
        <4>1. reader.source = NoFile /\ source' = 1
          BY <1>2, <3>1 DEF IInv, TypeOK, FileOK, Reader
        <4> QED
          BY <2>1, <4>1 DEF Noticeable
      <3>2. CASE source # NoFile
        BY <1>1, <1>2, <2>1, <3>2 DEF Noticeable, Length
      <3> QED
        BY <3>1, <3>2
    <2> QED
      BY <2>1, <2>2 DEF IInv, FilesOK, OfReader, SameFile
  <1> QED
    BY <1>2, <1>5, <1>6, <1>7, <1>8, AgentKeeps, TelemetryAssumption DEF IInv

(* The rest of a line was not read either. *)
LEMMA FinishLineIInv ==
    ASSUME IInv, FinishLine
    PROVE  IInv'
  <1>1. /\ half /\ half' = FALSE /\ notified' = TRUE
        /\ UNCHANGED <<rollout, rewrites, written, since>> /\ UNCHANGED Others
        /\ source' = IF source = NoFile THEN 1 ELSE source
        /\ Unnoticed \/ (Noticeable(Length) => Noticeable(Halves(rollout, FALSE)))
    BY DEF FinishLine, Grow, Others
  <1>2. source' = source
    BY <1>1 DEF IInv, FileOK
  <1>3. UNCHANGED <<tracked, reader, chunk, baseline, counted, pending, sent>>
    BY <1>1 DEF Others, readVars
  <1>4. TypeOK'
    BY <1>1, <1>2 DEF IInv, TypeOK, Others, readVars, objectVars, inputVars
  <1>5. FileOK'
    BY <1>1, <1>2, <1>3 DEF IInv, FileOK
  <1>6. LinesOK'
    <2>1. \A i \in 1..Len(rollout) : Unread(i)' => Unread(i)
      BY <1>1, <1>2, <1>3 DEF Unread
    <2> QED
      BY <1>1, <1>2, <1>3, <2>1 DEF IInv, LinesOK, InChunk
  <1>7. ~Unnoticed => FilesOK'
    <2>1. ~Unnoticed /\ ~Noticeable(Length)' => ~Noticeable(Length)
      BY <1>1, <1>2, <1>3 DEF Noticeable, Length
    <2> QED
      BY <1>1, <1>2, <1>3, <2>1 DEF IInv, FilesOK, OfReader, SameFile
  <1> QED
    BY <1>1, <1>4, <1>5, <1>6, <1>7, AgentKeeps DEF IInv

(* A rewriting leaves a part of the lines, and every reader will notice it. *)
LEMMA RewriteIInv ==
    ASSUME IInv, NEW n \in 0..Len(rollout), source # NoFile,
           rollout' = SubSeq(rollout, 1, n), half' = FALSE,
           written' = written, rewrites' = rewrites + 1, rewrites < MaxRewrite,
           notified' = TRUE, since' = written, UNCHANGED Others,
           \/ source' = source /\ Noticeable(2 * n)
           \/ source' = source + 1
    PROVE  IInv'
  <1> USE TelemetryAssumption
  <1>1. UNCHANGED <<tracked, reader, chunk, baseline, counted, pending, sent>>
    BY DEF Others, readVars
  <1>2. /\ rollout \in Seq(Line) /\ Len(rollout) \in Nat /\ n \in Nat /\ n <= Len(rollout)
        /\ \A i \in 1..n : rollout[i] \in Line
    BY LenProperties, ElementOfSeq DEF IInv, TypeOK
  <1>3. /\ rollout' \in Seq(Line) /\ Len(rollout') = n
        /\ \A i \in 1..n : rollout'[i] = rollout[i]
    BY <1>2, SubSeqProperties
  <1>4. source \in Nat /\ reader.source \in Nat /\ reader.source <= source
    BY DEF IInv, TypeOK, FileOK, Reader
  <1>5. TypeOK'
    <2>1. source' \in Nat /\ rewrites' \in 0..MaxRewrite /\ since' \in Nat
      BY <1>4 DEF IInv, TypeOK
    <2> QED
      BY <1>3, <2>1 DEF IInv, TypeOK, Others, readVars, objectVars, inputVars
  <1>6. FileOK'
    <2>1. source' # NoFile /\ reader.source <= source'
      BY <1>4 DEF NoFile
    <2>2. \A i \in 1..n : i \in 1..Len(rollout)
      BY <1>2
    <2>3. \A i \in 1..n : rollout'[i].id \in 1..written
      BY <1>3, <2>2 DEF IInv, FileOK
    <2>4. \A i, j \in 1..n : i < j => rollout'[i].id < rollout'[j].id
      BY <1>3, <2>2 DEF IInv, FileOK
    <2> QED
      BY <1>1, <1>3, <2>1, <2>3, <2>4 DEF IInv, FileOK
  <1>7. Noticeable(Length)'
    <2>1. Length' = 2 * n
      BY <1>2, <1>3 DEF Length, Halves
    <2> QED
      BY <1>1, <1>4, <2>1 DEF Noticeable
  <1>8. LinesOK'
    <2>1. \A i \in 1..n : ~Unread(i)'
      <3> SUFFICES ASSUME NEW i \in 1..n, tracked, reader.source = source', 2 * i > reader.offset
                   PROVE  FALSE
        BY <1>1 DEF Unread
      <3>0. source' # source + 1
        BY <1>4
      <3>1. 2 * n < reader.offset
        <4>1. source' = source /\ Noticeable(2 * n)
          BY <3>0
        <4>2. QED
          BY <4>1 DEF Noticeable
      <3>2. reader.offset \in Nat
        BY DEF IInv, TypeOK, Reader
      <3> QED
        BY <1>2, <3>1, <3>2
    <2> QED
      BY <1>1, <1>3, <2>1 DEF IInv, LinesOK, InChunk
  <1>9. ~Unnoticed => FilesOK'
    <2> SUFFICES ASSUME ~Unnoticed PROVE FilesOK'
      OBVIOUS
    <2>1. FilesOK
      BY DEF IInv
    <2>2. sent' = sent /\ pending' = pending /\ reader' = reader
      BY <1>1
    <2>3. (~Noticeable(Length) => reader.file = rewrites)'
      BY <1>7
    <2>4. /\ (\A i \in 1..Len(sent) : OfReader(sent[i]) => sent[i].file = reader.file)'
          /\ (\A i \in 1..Len(pending) : OfReader(pending[i]) => pending[i].file = reader.file)'
      BY <2>1, <2>2 DEF FilesOK, OfReader
    <2>5. /\ (\A i \in 1..Len(sent), j \in 1..Len(pending) : SameFile(sent[i], pending[j]))'
          /\ (\A i, j \in 1..Len(pending) : SameFile(pending[i], pending[j]))'
          /\ (\A i, j \in 1..Len(sent) : SameFile(sent[i], sent[j]))'
      BY <2>1, <2>2 DEF FilesOK, SameFile
    <2> QED
      BY <2>3, <2>4, <2>5 DEF FilesOK
  <1> QED
    BY <1>5, <1>6, <1>8, <1>9, AgentKeeps DEF IInv

(* Truncate is such a rewriting. *)
LEMMA TruncateIInv ==
    ASSUME IInv, Truncate
    PROVE  IInv'
  <1>1. PICK n \in 0..Len(rollout) - 1 : Noticeable(2 * n) /\ rollout' = SubSeq(rollout, 1, n)
    BY DEF Truncate
  <1>2. n \in 0..Len(rollout)
    BY LenProperties DEF IInv, TypeOK
  <1>3. source # NoFile
    BY DEF Truncate, IInv, FileOK
  <1> QED
    BY <1>1, <1>2, <1>3, RewriteIInv DEF Truncate, Others

(* So is Replace. *)
LEMMA ReplaceIInv ==
    ASSUME IInv, Replace
    PROVE  IInv'
  <1>1. PICK n \in 0..Len(rollout) : rollout' = SubSeq(rollout, 1, n)
    BY DEF Replace
  <1> QED
    BY <1>1, RewriteIInv DEF Replace, Others
-----------------------------------------------------------------------------
(* Reading *)

(* Who reads: the reader of the map, or a new one. *)
Candidate(r) ==
    \/ r = reader /\ tracked
    \/ r = NewReader(reader.number + 1)

LEMMA CandidateType ==
    ASSUME IInv, NEW r, Candidate(r)
    PROVE  /\ r \in Reader /\ r.source <= source /\ r.number >= reader.number
           /\ r.number = reader.number => r = reader /\ tracked
           /\ r # reader \/ ~tracked => r.source = NoFile /\ r.file = 0 /\ r.offset = 0
  <1>1. /\ reader \in Reader /\ reader.number \in Nat /\ source \in Nat /\ reader.source <= source
        /\ None \in Totals
    BY DEF IInv, TypeOK, FileOK, Reader, None, Totals, Absent
  <1>2. CASE r = reader /\ tracked
    BY <1>1, <1>2 DEF Reader
  <1>3. CASE r = NewReader(reader.number + 1)
    <2>1. /\ r \in Reader /\ r.number = reader.number + 1
          /\ r.source = NoFile /\ r.file = 0 /\ r.offset = 0
      BY <1>1, <1>3 DEF NewReader, Reader, NoFile, NoLine
    <2> QED
      BY <1>1, <2>1 DEF NoFile
  <1> QED
    BY <1>2, <1>3 DEF Candidate

(* The lines a reader gets are those past its offset. *)
LEMMA LinesRead ==
    ASSUME IInv, NEW q \in Reader, q.offset <= Length
    PROVE  /\ NewLines(q) \in Seq(Line) /\ NewFragment(q) \in Nat
           /\ Len(NewLines(q)) = Length \div 2 - q.offset \div 2
           /\ \A i \in 1..Len(NewLines(q)) :
                 /\ q.offset \div 2 + i \in 1..Len(rollout)
                 /\ NewLines(q)[i].id = rollout[q.offset \div 2 + i].id
  <1> DEFINE first == q.offset \div 2
             n == Length \div 2 - first
             torn(i) == i = 1 /\ q.offset % 2 = 1 /\ q.fragment # rollout[first + 1].id
             line(i) == IF torn(i) THEN [rollout[first + 1] EXCEPT !.usage = None]
                        ELSE rollout[first + i]
  <1>1. /\ Length \in Nat /\ Len(rollout) \in Nat
        /\ Length \div 2 \in 0..Len(rollout)
        /\ Length = 2 * Len(rollout) - (IF half THEN 1 ELSE 0)
    BY LengthType DEF IInv, Length, Halves
  <1>2. q.offset \in Nat /\ q.fragment \in Nat
    BY DEF Reader
  <1>3. first \in Nat /\ n \in Nat
    <2>1. q.offset \div 2 \in Nat /\ Length \div 2 \in Nat
      BY <1>1, <1>2
    <2>2. \A a, b \in Nat : a <= b => a \div 2 <= b \div 2
      OBVIOUS
    <2>3. q.offset \div 2 <= Length \div 2
      BY <1>1, <1>2, <2>2
    <2> HIDE DEF first, n
    <2>4. first = q.offset \div 2 /\ n = Length \div 2 - first
      BY DEF first, n
    <2> QED
      BY <2>1, <2>3, <2>4
  <1>4. \A i \in 1..n : first + i \in 1..Len(rollout)
    BY <1>1, <1>3
  <1>5. \A i \in 1..Len(rollout) : rollout[i] \in Line
    BY ElementOfSeq DEF IInv, TypeOK
  <1>6. None \in Totals
    BY DEF None, Totals, Absent
  <1>7. \A i \in 1..n : line(i) \in Line /\ line(i).id = rollout[first + i].id
    BY <1>4, <1>5, <1>6 DEF Line
  <1>8. NewLines(q) = [i \in 1..n |-> line(i)]
    BY DEF NewLines
  <1> HIDE DEF first, n, line, torn
  <1>9. NewLines(q) \in [1..n -> Line]
    BY <1>7, <1>8
  <1>10. NewLines(q) \in Seq(Line)
    BY <1>3, <1>9, SeqDef
  <1>11. Len(NewLines(q)) = n
    <2>1. DOMAIN NewLines(q) = 1..n
      BY <1>9
    <2>2. DOMAIN NewLines(q) = 1..Len(NewLines(q)) /\ Len(NewLines(q)) \in Nat
      BY <1>10, LenProperties
    <2> QED
      BY <1>3, <2>1, <2>2
  <1>12. NewFragment(q) \in Nat
    <2>1. CASE Length % 2 = 0
      BY <2>1 DEF NewFragment, NoLine
    <2>2. CASE Length % 2 # 0
      <3>1. Len(rollout) \in 1..Len(rollout)
        BY <1>1, <2>2
      <3>2. rollout[Len(rollout)].id \in Nat
        BY <1>5, <3>1 DEF Line
      <3> QED
        BY <1>2, <2>2, <3>2 DEF NewFragment
    <2> QED
      BY <2>1, <2>2
  <1>13. \A i \in 1..n : NewLines(q)[i].id = rollout[first + i].id
    BY <1>7, <1>8
  <1> QED
    BY <1>4, <1>10, <1>11, <1>12, <1>13 DEF first, n

(* Giving up a file. *)
LEMMA RebasedType ==
    ASSUME IInv, NEW r \in Reader
    PROVE  /\ Rebased(r) \in Reader /\ Rebased(r).offset = 0 /\ Rebased(r).source = source
           /\ Rebased(r).number = r.number /\ Rebased(r).revision = r.revision
           /\ Rebased(r).epoch \in Nat
           /\ Rebased(r).epoch = IF r.source = NoFile THEN r.epoch ELSE r.epoch + 1
  <1> DEFINE e == IF r.source = NoFile THEN r.epoch ELSE r.epoch + 1
             t == IF r.source = NoFile THEN r.totals ELSE None
  <1>1. e \in Nat /\ t \in Totals
    BY DEF None, Totals, Absent, Reader
  <1>2. Rebased(r) = [r EXCEPT !.source = source, !.offset = 0, !.fragment = NoLine,
                               !.epoch = e, !.totals = t]
    BY DEF Rebased
  <1> HIDE DEF e, t
  <1>3. source \in Nat /\ 0 \in Nat /\ NoLine \in Nat
    BY DEF IInv, TypeOK, NoLine
  <1>4. [r EXCEPT !.source = source, !.offset = 0, !.fragment = NoLine,
                  !.epoch = e, !.totals = t] \in Reader
    BY <1>1, <1>3 DEF Reader
  <1>5. /\ Rebased(r) \in Reader /\ Rebased(r).offset = 0 /\ Rebased(r).source = source
        /\ Rebased(r).number = r.number /\ Rebased(r).revision = r.revision
        /\ Rebased(r).epoch = e
    BY <1>2, <1>4 DEF Reader
  <1> QED
    BY <1>1, <1>5 DEF e

(* What a read does: nothing without a file, a baseline of the whole file, *)
(* or the lines since the last time.                                       *)
NothingRead(r) ==
    source = NoFile /\ reader' = r /\ chunk' = <<>> /\ r.source = NoFile

ReadSome(r, q) ==
    /\ source # NoFile /\ reader'.source = source /\ reader'.offset = Length
    /\ reader'.number = r.number /\ reader'.revision = r.revision /\ reader'.file = rewrites
    /\ reader'.epoch = q.epoch /\ reader'.totals = q.totals
    /\ Len(chunk') = Length \div 2 - q.offset \div 2
    /\ \A i \in 1..Len(chunk') :
          /\ q.offset \div 2 + i \in 1..Len(rollout)
          /\ chunk'[i].id = rollout[q.offset \div 2 + i].id

BaselineRead(r) ==
    /\ ReadSome(r, Rebased(r)) /\ baseline'
    /\ Rebased(r).offset = 0 /\ Rebased(r).epoch \in Nat /\ r.epoch <= Rebased(r).epoch
    /\ r.source = NoFile \/ r.epoch < Rebased(r).epoch

NewsRead(r) ==
    /\ ReadSome(r, r) /\ ~baseline'
    /\ r = reader /\ tracked /\ reader.source = source /\ ~(Length < reader.offset)

(* Every read is one of the three. *)
LEMMA ReadKinds ==
    ASSUME IInv, NEW r, Candidate(r), ReadInto(r)
    PROVE  /\ reader' \in Reader /\ chunk' \in Seq(Line) /\ baseline' \in BOOLEAN
           /\ NothingRead(r) \/ BaselineRead(r) \/ NewsRead(r)
  <1>1. /\ r \in Reader /\ r.source <= source
        /\ r # reader \/ ~tracked => r.source = NoFile
    BY CandidateType
  <1>2. /\ source \in Nat /\ rewrites \in Nat /\ baseline \in BOOLEAN
        /\ r.source \in Nat /\ r.epoch \in Nat /\ r.offset \in Nat
    BY <1>1, TelemetryAssumption DEF IInv, TypeOK, Reader
  <1>3. Length \in Nat
    BY LengthType DEF IInv
  <1>4. CASE source = NoFile
    <2>1. NothingRead(r) /\ baseline' = baseline
      BY <1>1, <1>2, <1>4 DEF ReadInto, NothingRead, NoFile
    <2>2. reader' \in Reader /\ chunk' \in Seq(Line)
      BY <1>1, <2>1, EmptySeq DEF NothingRead
    <2> QED
      BY <1>2, <2>1, <2>2
  <1>5. ASSUME source # NoFile, NEW q \in Reader, q.offset <= Length, q.source = source,
               q.number = r.number, q.revision = r.revision, ReadFrom(q, IsBaseline(r))
        PROVE  /\ reader' \in Reader /\ chunk' \in Seq(Line) /\ ReadSome(r, q)
               /\ baseline' \in BOOLEAN /\ (baseline' <=> IsBaseline(r))
    <2>1. /\ chunk' = NewLines(q) /\ baseline' = IsBaseline(r)
          /\ reader' = [q EXCEPT !.file = rewrites, !.offset = Length,
                                 !.fragment = NewFragment(q)]
      BY <1>5 DEF ReadFrom
    <2>2. /\ chunk' \in Seq(Line) /\ NewFragment(q) \in Nat
          /\ Len(chunk') = Length \div 2 - q.offset \div 2
          /\ \A i \in 1..Len(chunk') :
                /\ q.offset \div 2 + i \in 1..Len(rollout)
                /\ chunk'[i].id = rollout[q.offset \div 2 + i].id
      BY <1>5, <2>1, LinesRead
    <2>3. /\ reader' \in Reader /\ reader'.source = source /\ reader'.offset = Length
          /\ reader'.number = r.number /\ reader'.revision = r.revision
          /\ reader'.file = rewrites /\ reader'.epoch = q.epoch /\ reader'.totals = q.totals
      BY <1>2, <1>3, <1>5, <2>1, <2>2 DEF Reader
    <2>4. ReadSome(r, q)
      BY <1>5, <2>2, <2>3 DEF ReadSome
    <2>5. baseline' \in BOOLEAN /\ (baseline' <=> IsBaseline(r))
      BY <2>1 DEF IsBaseline
    <2> QED
      BY <2>2, <2>3, <2>4, <2>5
  <1>6. CASE source # NoFile /\ IsBaseline(r)
    <2>1. /\ Rebased(r) \in Reader /\ Rebased(r).offset = 0 /\ Rebased(r).source = source
          /\ Rebased(r).number = r.number /\ Rebased(r).revision = r.revision
          /\ Rebased(r).epoch \in Nat
          /\ Rebased(r).epoch = IF r.source = NoFile THEN r.epoch ELSE r.epoch + 1
      BY <1>1, RebasedType
    <2>2. ReadFrom(Rebased(r), IsBaseline(r))
      BY <1>6 DEF ReadInto
    <2>3. /\ reader' \in Reader /\ chunk' \in Seq(Line) /\ ReadSome(r, Rebased(r))
          /\ baseline' \in BOOLEAN /\ (baseline' <=> IsBaseline(r))
      <3>1. Rebased(r).offset <= Length
        BY <1>3, <2>1
      <3> QED
        BY <1>5, <1>6, <2>1, <2>2, <3>1
    <2>4. BaselineRead(r)
      BY <1>2, <1>6, <2>1, <2>3 DEF BaselineRead
    <2> QED
      BY <1>6, <2>3, <2>4
  <1>7. CASE source # NoFile /\ ~IsBaseline(r)
    <2>1. r.source = source /\ ~(Length < r.offset)
      BY <1>7 DEF IsBaseline
    <2>2. ReadFrom(r, IsBaseline(r))
      BY <1>7 DEF ReadInto
    <2>3. r.offset <= Length
      BY <1>2, <1>3, <2>1
    <2>4. /\ reader' \in Reader /\ chunk' \in Seq(Line) /\ ReadSome(r, r)
          /\ baseline' \in BOOLEAN /\ (baseline' <=> IsBaseline(r))
      BY <1>1, <1>5, <1>7, <2>1, <2>2, <2>3
    <2>5. r = reader /\ tracked
      BY <1>1, <1>7, <2>1
    <2>6. NewsRead(r)
      BY <1>7, <2>1, <2>4, <2>5 DEF NewsRead
    <2> QED
      BY <1>7, <2>4, <2>6
  <1> QED
    BY <1>4, <1>6, <1>7

(* Taking the lock to read preserves the inductive invariant. *)
LEMMA ReadIInv ==
    ASSUME IInv, lock = NoTask, NEW t \in Task, NEW r, Candidate(r), ReadInto(r),
           lock' = t, tracked', tracked' \in BOOLEAN, Goto(t, "parse"),
           since' \in Nat, past' \in Nat,
           UNCHANGED <<rollout, half, source, written, rewrites, notified, inputVars, pending,
                       counted, objectVars, sent>>
    PROVE  IInv'
  <1> USE TelemetryAssumption
  <1>1. UNCHANGED <<rollout, half, source, written, rewrites, notified, script, work, pending,
                    counted, object, born, shown, sent>>
    BY DEF inputVars, objectVars
  <1>2. /\ reader' \in Reader /\ chunk' \in Seq(Line) /\ baseline' \in BOOLEAN
        /\ NothingRead(r) \/ BaselineRead(r) \/ NewsRead(r)
    BY ReadKinds
  <1>3. /\ r \in Reader /\ r.source <= source /\ r.number >= reader.number
        /\ r.number = reader.number => r = reader /\ tracked
        /\ r # reader \/ ~tracked => r.source = NoFile /\ r.file = 0 /\ r.offset = 0
    BY CandidateType
  <1>4. pending = <<>> /\ chunk = <<>> /\ Len(pending) = 0
    BY EmptySeq DEF IInv, ControlOK
  <1>5. /\ reader'.number = r.number /\ reader'.revision = r.revision
        /\ r.epoch <= reader'.epoch /\ reader'.source <= source
        /\ source # NoFile => reader'.source = source
    <2>1. r.epoch \in Nat /\ r.source \in Nat /\ source \in Nat
      BY <1>3 DEF Reader, IInv, TypeOK
    <2> QED
      BY <1>2, <1>3, <2>1 DEF NothingRead, BaselineRead, NewsRead, ReadSome
  <1>6. TypeOK'
    <2>1. pc' \in [Task -> {"start", "parse", "lookup", "emit", "vanish", "idle", "drain", "done"}]
      BY DEF Goto, IInv, TypeOK
    <2> QED
      BY <1>1, <1>2, <2>1 DEF IInv, TypeOK
  <1>7. FileOK'
    <2>1. reader'.source = NoFile => reader'.offset = 0 /\ reader'.file = 0
      <3> SUFFICES ASSUME reader'.source = NoFile PROVE reader'.offset = 0 /\ reader'.file = 0
        OBVIOUS
      <3>1. NothingRead(r)
        BY <1>2 DEF BaselineRead, NewsRead, ReadSome
      <3> QED
        BY <1>3, <3>1 DEF NothingRead, IInv, FileOK
    <2> QED
      BY <1>1, <1>5, <2>1 DEF IInv, FileOK
  <1>8. ControlOK'
    BY <1>1 DEF IInv, TypeOK, ControlOK, Holds, Goto, Task
  <1>9. ShownOK'
    BY <1>1 DEF IInv, TypeOK, ControlOK, ShownOK, Holds, Goto, Task
  <1>10. ASSUME NEW i \in 1..Len(sent)
         PROVE  /\ sent[i].reader <= reader'.number
                /\ sent[i].reader = reader'.number =>
                      /\ r = reader /\ tracked
                      /\ sent[i].epoch <= r.epoch /\ sent[i].epoch <= reader'.epoch
                      /\ sent[i].revision <= reader'.revision
    <2>1. sent[i] \in Report
      BY ElementOfSeq DEF IInv, TypeOK
    <2>2. /\ sent[i].reader \in Nat /\ sent[i].epoch \in Nat /\ reader.number \in Nat
          /\ r.number \in Nat /\ r.epoch \in Nat /\ reader'.epoch \in Nat
      BY <1>2, <1>3, <2>1 DEF Report, Reader, IInv, TypeOK
    <2>3. sent[i].reader <= reader.number
      BY DEF IInv, OrderOK
    <2>4. sent[i].reader <= reader'.number
      BY <1>3, <1>5, <2>2, <2>3
    <2>5. ASSUME sent[i].reader = reader'.number
          PROVE  /\ r = reader /\ tracked
                 /\ sent[i].epoch <= r.epoch /\ sent[i].revision <= r.revision
      <3>1. r.number = reader.number
        BY <1>3, <1>5, <2>2, <2>3, <2>5
      <3> QED
        BY <1>3, <1>5, <2>5, <3>1 DEF IInv, OrderOK
    <2> QED
      BY <1>5, <2>2, <2>4, <2>5
  <1>11. OrderOK'
    BY <1>1, <1>4, <1>10 DEF IInv, OrderOK, Precedes
  <1>12. BaselineRead(r) => \A i \in 1..Len(sent) : ~(OfReader(sent[i])')
    <2> SUFFICES ASSUME BaselineRead(r), NEW i \in 1..Len(sent),
                        sent[i].reader = reader'.number, sent[i].epoch = reader'.epoch
                 PROVE  FALSE
      BY <1>1 DEF OfReader
    <2>1. r = reader /\ sent[i].epoch <= r.epoch
      BY <1>10
    <2>2. r.source = NoFile \/ r.epoch < reader'.epoch
      BY DEF BaselineRead, ReadSome
    <2>3. r.epoch \in Nat /\ reader'.epoch \in Nat
      BY <1>2, <1>3 DEF Reader
    <2>4. sent[i].reader # reader.number \/ r.source # NoFile
      BY <2>1 DEF IInv, SumsOK
    <2> QED
      BY <1>5, <2>1, <2>2, <2>3, <2>4
  <1>13. SumsOK'
    <2>1. chunk' # <<>> /\ baseline' =>
             pending' = <<>> /\ \A i \in 1..Len(sent') : ~OfReader(sent[i])'
      BY <1>1, <1>2, <1>4, <1>12 DEF NothingRead, NewsRead
    <2>2. reader'.source = NoFile =>
             /\ chunk' = <<>> /\ pending' = <<>>
             /\ \A i \in 1..Len(sent') : sent'[i].reader # reader'.number
      <3> SUFFICES ASSUME reader'.source = NoFile
                   PROVE  chunk' = <<>> /\ \A i \in 1..Len(sent) : sent[i].reader # reader'.number
        BY <1>1, <1>4
      <3>1. NothingRead(r)
        BY <1>2 DEF BaselineRead, NewsRead, ReadSome
      <3>2. \A i \in 1..Len(sent) : sent[i].reader # reader'.number
        BY <1>10, <3>1 DEF NothingRead, IInv, SumsOK
      <3> QED
        BY <3>1, <3>2 DEF NothingRead
    <2>3. ASSUME sent # <<>>, sent[Len(sent)].object = object, OfReader(sent[Len(sent)])'
          PROVE  sent[Len(sent)].totals = reader'.totals
      <3>1. Len(sent) \in 1..Len(sent)
        BY <2>3, EmptySeq, LenProperties DEF IInv, TypeOK
      <3>2. ~BaselineRead(r)
        BY <1>12, <2>3, <3>1
      <3>3. r = reader
        BY <1>1, <1>10, <2>3, <3>1 DEF OfReader
      <3>4. /\ reader'.epoch = reader.epoch /\ reader'.totals = reader.totals
            /\ reader'.number = reader.number
        BY <1>2, <3>2, <3>3 DEF NothingRead, NewsRead, ReadSome
      <3> QED
        BY <1>1, <1>4, <2>3, <3>4 DEF IInv, SumsOK, OfReader
    <2>4. /\ \A i \in 1..Len(sent') : Mandatory \subseteq Keys(sent'[i].totals)
          /\ \A i \in 1..Len(sent') - 1 :
                sent'[i].object = sent'[i + 1].object => AddsTo(sent'[i], sent'[i + 1])
      BY <1>1 DEF IInv, SumsOK
    <2>5. /\ \A i \in 1..Len(pending') : Mandatory \subseteq Keys(pending'[i].totals)
          /\ pending' = <<>>
          /\ \A i \in 1..Len(pending') - 1 : AddsTo(pending'[i], pending'[i + 1])
      BY <1>1, <1>4
    <2>6. sent' # <<>> /\ sent'[Len(sent')].object = object' =>
             (OfReader(sent[Len(sent)])' => sent'[Len(sent')].totals = reader'.totals)
      BY <1>1, <2>3
    <2> QED
      BY <1>1, <2>1, <2>2, <2>4, <2>5, <2>6 DEF SumsOK, AddsTo, OfReader
  <1>14. LinesOK'
    <2>1. Length \div 2 = Len(rollout) - (IF half THEN 1 ELSE 0)
      BY LengthType DEF IInv
    <2>2. /\ rollout \in Seq(Line) /\ Len(rollout) \in Nat /\ written \in Nat
          /\ Length = 2 * Len(rollout) - (IF half THEN 1 ELSE 0)
      BY LenProperties DEF IInv, TypeOK, Length, Halves
    <2>3. \A i, j \in 1..Len(rollout) : rollout[i].id = rollout[j].id => i = j
      <3> SUFFICES ASSUME NEW i \in 1..Len(rollout), NEW j \in 1..Len(rollout),
                          rollout[i].id = rollout[j].id
                   PROVE  i = j
        OBVIOUS
      <3>1. rollout[i].id \in 1..written /\ rollout[j].id \in 1..written
        BY DEF IInv, FileOK
      <3>2. ~(i < j) /\ ~(j < i)
        BY <2>2, <3>1 DEF IInv, FileOK
      <3> QED
        BY <2>2, <3>2
    <2>4. CASE NothingRead(r)
      <3>1. chunk' = <<>> /\ rollout = <<>> /\ Len(chunk') = 0 /\ Len(rollout) = 0
        BY <2>4, EmptySeq DEF NothingRead, IInv, FileOK
      <3> QED
        BY <1>1, <3>1 DEF IInv, LinesOK
    <2>5. ASSUME NEW q \in Reader, ReadSome(r, q),
                 \/ baseline'
                 \/ q = reader /\ tracked /\ reader.source = source /\ ~(Length < reader.offset)
          PROVE  LinesOK'
      <3> DEFINE first == q.offset \div 2
      <3>1. /\ q.offset \in Nat /\ first \in Nat /\ 2 * first + 2 > q.offset
            /\ Len(chunk') \in Nat /\ Len(chunk') = Length \div 2 - first
            /\ \A i \in 1..Len(chunk') :
                  first + i \in 1..Len(rollout) /\ chunk'[i].id = rollout[first + i].id
        <4>1. q.offset \in Nat
          BY DEF Reader
        <4>2. first \in Nat /\ 2 * first + 2 > q.offset
          BY <4>1
        <4>3. Len(chunk') \in Nat
          BY <1>2, LenProperties
        <4> QED
          BY <2>5, <4>1, <4>2, <4>3 DEF ReadSome
      <3> HIDE DEF first
      <3>2. \A i \in 1..Len(chunk') : chunk'[i].id \in 1..written
        BY <3>1 DEF IInv, FileOK
      <3>3. \A i, j \in 1..Len(chunk') : i < j => chunk'[i].id < chunk'[j].id
        BY <3>1 DEF IInv, FileOK
      <3>4. \A i \in 1..Len(chunk') : baseline' \/ chunk'[i].id \notin counted
        <4> SUFFICES ASSUME NEW i \in 1..Len(chunk'), ~baseline'
                     PROVE  rollout[first + i].id \notin counted
          BY <3>1
        <4>1. first + i \in 1..Len(rollout) /\ 2 * (first + i) > reader.offset
          BY <2>5, <3>1
        <4> QED
          BY <2>5, <4>1 DEF Unread, IInv, LinesOK
      <3>5. \A i \in 1..Len(rollout) : Unread(i)' =>
               /\ rollout[i].id \notin counted
               /\ ~ \E k \in 1..Len(chunk') : chunk'[k].id = rollout[i].id
        <4> SUFFICES ASSUME NEW i \in 1..Len(rollout), Unread(i)'
                     PROVE  /\ rollout[i].id \notin counted
                            /\ ~ \E k \in 1..Len(chunk') : chunk'[k].id = rollout[i].id
          BY DEF Unread
        <4>1. half /\ i = Len(rollout)
          <5>1. reader'.offset = Length
            BY <2>5 DEF ReadSome
          <5>2. 2 * i > Length \/ (half /\ i = Len(rollout))
            BY <1>1, <5>1 DEF Unread
          <5> QED
            BY <2>2, <5>2
        <4>2. rollout[i].id \notin counted
          BY <4>1 DEF Unread, IInv, LinesOK
        <4>3. ASSUME NEW k \in 1..Len(chunk'), chunk'[k].id = rollout[i].id
              PROVE  FALSE
          <5>1. first + k = i
            BY <2>3, <3>1, <4>3
          <5>2. k <= Len(rollout) - 1 - first
            BY <2>1, <2>2, <3>1, <4>1
          <5>3. k \in Nat /\ first \in Nat /\ Len(rollout) \in Nat /\ i = Len(rollout)
            BY <2>2, <3>1, <4>1
          <5>4. first + k <= Len(rollout) - 1
            BY <5>2, <5>3
          <5> QED
            BY <5>1, <5>3, <5>4
        <4> QED
          BY <4>2, <4>3
      <3> QED
        BY <1>1, <1>4, <3>2, <3>3, <3>4, <3>5 DEF IInv, LinesOK, InChunk
    <2>6. CASE BaselineRead(r)
      <3>1. Rebased(r) \in Reader
        BY <1>3, RebasedType
      <3> QED
        BY <2>5, <2>6, <3>1 DEF BaselineRead
    <2>7. CASE NewsRead(r)
      BY <1>3, <2>5, <2>7 DEF NewsRead
    <2> QED
      BY <1>2, <2>4, <2>6, <2>7
  <1>15. ~Unnoticed => FilesOK'
    <2> SUFFICES ASSUME ~Unnoticed PROVE FilesOK'
      OBVIOUS
    <2>1. reader'.file = rewrites
      <3>1. CASE NothingRead(r)
        <4>1. rewrites = 0 /\ rollout = <<>> /\ source = NoFile /\ Length \in Nat
          BY <3>1, LengthType DEF NothingRead, IInv, FileOK
        <4>2. CASE r # reader \/ ~tracked
          BY <1>3, <3>1, <4>1, <4>2 DEF NothingRead
        <4>3. CASE r = reader /\ tracked
          BY <3>1, <4>1, <4>3 DEF NothingRead, IInv, FileOK
        <4> QED
          BY <4>2, <4>3
      <3>2. CASE ~NothingRead(r)
        BY <1>2, <3>2 DEF BaselineRead, NewsRead, ReadSome
      <3> QED
        BY <3>1, <3>2
    <2>2. ASSUME NEW i \in 1..Len(sent), OfReader(sent[i])' PROVE sent[i].file = reader'.file
      <3>1. r = reader /\ tracked
        BY <1>1, <1>10, <2>2 DEF OfReader
      <3>2. ~BaselineRead(r)
        BY <1>12, <2>2
      <3>3. OfReader(sent[i])
        BY <1>1, <1>2, <2>2, <3>1, <3>2 DEF OfReader, NothingRead, NewsRead, ReadSome
      <3>4. sent[i].file = reader.file
        BY <3>3 DEF IInv, FilesOK
      <3>5. reader.file = reader'.file
        BY <1>2, <2>1, <3>1, <3>2 DEF NothingRead, NewsRead, IInv, FilesOK, Noticeable
      <3> QED
        BY <3>4, <3>5
    <2> QED
      BY <1>1, <1>4, <2>1, <2>2 DEF IInv, FilesOK, OfReader, SameFile
  <1> QED
    BY <1>6, <1>7, <1>8, <1>9, <1>11, <1>13, <1>14, <1>15 DEF IInv
-----------------------------------------------------------------------------
(* Parsing *)

(* What a line of the chunk does: nothing, or it is observed, silently in a *)
(* baseline or with a report.                                              *)
Observed ==
    /\ reader'.number = reader.number /\ reader'.file = reader.file
    /\ reader'.source = reader.source /\ reader'.offset = reader.offset
    /\ reader'.revision = reader.revision + 1
    /\ reader'.epoch \in {reader.epoch, reader.epoch + 1}
    /\ Mandatory \subseteq Keys(reader'.totals)

Reported(rep) ==
    /\ pending' = Append(pending, rep)
    /\ rep.reader = reader.number /\ rep.file = reader.file
    /\ rep.epoch = reader'.epoch /\ rep.revision = reader'.revision
    /\ rep.totals = reader'.totals /\ rep.line = chunk[1].id /\ rep.since = past
    /\ chunk[1].id \notin counted => rep.fresh
    /\ rep.epoch = reader.epoch /\ reader.totals # None
          => rep.delta = Difference(reader.totals, rep.totals)

(* Increments are counters: a reset is noticed before anything is subtracted. *)
LEMMA DifferenceType ==
    ASSUME NEW old \in Totals, NEW next \in Totals
    PROVE  Delta(old, next) \in Totals
  <1>1. \A k \in Keys(old) \cap Keys(next) : old[k] \in Nat /\ next[k] \in Nat
    BY DEF Keys, Totals, Absent
  <1>2. ~Resets(old, next) => Difference(old, next) \in Totals
    <2> SUFFICES ASSUME ~Resets(old, next), NEW k \in Counter
                 PROVE  (IF k \in Keys(old) \cap Keys(next) THEN next[k] - old[k] ELSE Absent)
                           \in Nat \cup {Absent}
      BY DEF Difference, Totals
    <2>1. CASE k \in Keys(old) \cap Keys(next)
      <3>1. old[k] \in Nat /\ next[k] \in Nat /\ ~(next[k] < old[k])
        BY <1>1, <2>1 DEF Resets
      <3> QED
        BY <2>1, <3>1
    <2> QED
      BY <2>1
  <1>3. None \in Totals
    BY DEF None, Totals, Absent
  <1> QED
    BY <1>2, <1>3 DEF Delta

(* Every step of the parser is one of the three. *)
LEMMA ParseKinds ==
    ASSUME IInv, NEW t \in Task, ParseLine(t)
    PROVE  /\ reader' \in Reader /\ pending' \in Seq(Report)
           /\ chunk # <<>> /\ chunk[1] \in Line /\ chunk' \in Seq(Line)
           /\ Len(chunk) \in Nat /\ Len(chunk) > 0 /\ Len(chunk') = Len(chunk) - 1
           /\ \A i \in 1..Len(chunk') : chunk'[i] = chunk[i + 1]
           /\ counted' = counted \cup {chunk[1].id}
           /\ \/ reader' = reader /\ pending' = pending
              \/ Observed /\ baseline /\ pending' = pending
              \/ Observed /\ ~baseline /\ \E rep \in Report : Reported(rep)
  <1> DEFINE line == Head(chunk)
             old == reader.totals
             next == line.usage
             epoch == IF Resets(old, next) THEN reader.epoch + 1 ELSE reader.epoch
             after == [reader EXCEPT !.epoch = epoch, !.revision = reader.revision + 1,
                                     !.totals = next]
             rep == [object |-> NoObject, reader |-> after.number,
                     file |-> after.file, epoch |-> after.epoch,
                     revision |-> after.revision, delta |-> Delta(old, next),
                     totals |-> next, line |-> line.id, since |-> past,
                     fresh |-> line.id \notin counted]
  <1>1. /\ chunk # <<>> /\ chunk' = Tail(chunk) /\ counted' = counted \cup {line.id}
        /\ reader' = IF Accepts(old, next) THEN after ELSE reader
        /\ pending' = IF ~Accepts(old, next) \/ baseline THEN pending ELSE Append(pending, rep)
    BY DEF ParseLine
  <1>2. chunk \in Seq(Line) /\ reader \in Reader /\ pending \in Seq(Report)
    BY DEF IInv, TypeOK
  <1>3. /\ line \in Line /\ chunk' \in Seq(Line) /\ Len(chunk') = Len(chunk) - 1
        /\ \A i \in 1..Len(chunk') : chunk'[i] = chunk[i + 1]
    BY <1>1, <1>2, HeadTailProperties
  <1>4. Len(chunk) \in Nat /\ Len(chunk) > 0 /\ line = chunk[1]
    BY <1>1, <1>2, LenProperties, EmptySeq
  <1>5. old \in Totals /\ next \in Totals /\ line.id \in Nat
    BY <1>2, <1>3 DEF Reader, Line
  <1>6. /\ reader.epoch \in Nat /\ reader.revision \in Nat /\ reader.number \in Nat
        /\ reader.file \in Nat
    BY <1>2 DEF Reader
  <1>7. epoch \in {reader.epoch, reader.epoch + 1} /\ epoch \in Nat
    BY <1>6
  <1> HIDE DEF line, epoch
  <1>8. /\ after \in Reader /\ after.number = reader.number /\ after.file = reader.file
        /\ after.source = reader.source /\ after.offset = reader.offset
        /\ after.epoch = epoch /\ after.revision = reader.revision + 1 /\ after.totals = next
    <2>1. reader.revision + 1 \in Nat
      BY <1>6
    <2>2. after \in Reader
      BY <1>2, <1>5, <1>7, <2>1 DEF Reader
    <2>3. /\ after.number = reader.number /\ after.file = reader.file
          /\ after.source = reader.source /\ after.offset = reader.offset
      BY <1>2 DEF Reader
    <2>4. after.epoch = epoch /\ after.revision = reader.revision + 1 /\ after.totals = next
      BY <1>2 DEF Reader
    <2> QED
      BY <2>2, <2>3, <2>4
  <1> HIDE DEF after
  <1>9. Delta(old, next) \in Totals
    BY <1>5, DifferenceType
  <1>10. rep \in Report
    <2>1. (line.id \notin counted) \in BOOLEAN
      OBVIOUS
    <2>2. /\ NoObject \in Nat /\ after.number \in Nat /\ after.file \in Nat
          /\ after.epoch \in Nat /\ after.revision \in Nat /\ past \in Nat
      BY <1>6, <1>7, <1>8 DEF NoObject, IInv, TypeOK
    <2> QED
      BY <1>5, <1>9, <2>1, <2>2 DEF Report
  <1>11. CASE ~Accepts(old, next)
    <2>1. reader' = reader /\ pending' = pending
      BY <1>1, <1>11
    <2> QED
      BY <1>1, <1>2, <1>3, <1>4, <2>1
  <1>12. CASE Accepts(old, next)
    <2>1. reader' = after /\ Mandatory \subseteq Keys(next)
      BY <1>1, <1>12 DEF Accepts
    <2>2. Observed
      BY <1>7, <1>8, <2>1 DEF Observed
    <2>3. CASE baseline
      <3>1. pending' = pending
        BY <1>1, <2>3
      <3> QED
        BY <1>1, <1>2, <1>3, <1>4, <1>8, <2>1, <2>2, <2>3, <3>1
    <2>4. CASE ~baseline
      <3>1. pending' = Append(pending, rep)
        BY <1>1, <1>12, <2>4
      <3>2. pending' \in Seq(Report)
        BY <1>2, <1>10, <3>1, AppendProperties
      <3>3. epoch = reader.epoch /\ old # None => Delta(old, next) = Difference(old, next)
        BY <1>6 DEF epoch, Delta
      <3>4. Reported(rep)
        BY <1>4, <1>8, <2>1, <3>1, <3>3 DEF Reported
      <3> QED
        BY <1>1, <1>2, <1>3, <1>4, <1>8, <1>10, <2>1, <2>2, <2>4, <3>2, <3>4
    <2> QED
      BY <2>3, <2>4
  <1> QED
    BY <1>11, <1>12

(* The fields of the reports, and the positions in the sequences. *)
LEMMA ReportTypes ==
    ASSUME IInv
    PROVE  /\ Len(sent) \in Nat /\ Len(pending) \in Nat
           /\ sent # <<>> => Len(sent) \in 1..Len(sent)
           /\ pending # <<>> => Len(pending) \in 1..Len(pending)
           /\ \A i \in 1..Len(sent) :
                 /\ sent[i] \in Report /\ sent[i].object \in Nat /\ sent[i].reader \in Nat
                 /\ sent[i].epoch \in Nat /\ sent[i].revision \in Nat
           /\ \A i \in 1..Len(pending) :
                 /\ pending[i] \in Report /\ pending[i].reader \in Nat
                 /\ pending[i].epoch \in Nat /\ pending[i].revision \in Nat
           /\ reader.number \in Nat /\ reader.epoch \in Nat /\ reader.revision \in Nat
  <1>1. sent \in Seq(Report) /\ pending \in Seq(Report) /\ reader \in Reader
    BY DEF IInv, TypeOK
  <1>2. /\ Len(sent) \in Nat /\ (sent # <<>> => Len(sent) > 0)
        /\ Len(pending) \in Nat /\ (pending # <<>> => Len(pending) > 0)
    BY <1>1, LenProperties, EmptySeq
  <1>3. /\ \A i \in 1..Len(sent) : sent[i] \in Report
        /\ \A i \in 1..Len(pending) : pending[i] \in Report
    BY <1>1, ElementOfSeq
  <1>4. \A i \in 1..Len(sent) :
           /\ sent[i].object \in Nat /\ sent[i].reader \in Nat
           /\ sent[i].epoch \in Nat /\ sent[i].revision \in Nat
    BY <1>3 DEF Report
  <1>5. \A i \in 1..Len(pending) :
           pending[i].reader \in Nat /\ pending[i].epoch \in Nat /\ pending[i].revision \in Nat
    BY <1>3 DEF Report
  <1>6. reader.number \in Nat /\ reader.epoch \in Nat /\ reader.revision \in Nat
    BY <1>1 DEF Reader
  <1> QED
    BY <1>2, <1>3, <1>4, <1>5, <1>6

(* Parsing a line preserves the inductive invariant. *)
LEMMA ParseLineIInv ==
    ASSUME IInv, NEW t \in Task, ParseLine(t)
    PROVE  IInv'
  <1>1. /\ UNCHANGED <<rollout, half, source, written, rewrites, notified, script, work, pc, lock,
                       tracked, baseline, since, past, object, born, shown, sent>>
        /\ pc[t] = "parse"
    BY DEF ParseLine, fileVars, inputVars, objectVars
  <1>2. /\ reader' \in Reader /\ pending' \in Seq(Report)
        /\ chunk # <<>> /\ chunk[1] \in Line /\ chunk' \in Seq(Line)
        /\ Len(chunk) \in Nat /\ Len(chunk) > 0 /\ Len(chunk') = Len(chunk) - 1
        /\ \A i \in 1..Len(chunk') : chunk'[i] = chunk[i + 1]
        /\ counted' = counted \cup {chunk[1].id}
        /\ \/ reader' = reader /\ pending' = pending
           \/ Observed /\ baseline /\ pending' = pending
           \/ Observed /\ ~baseline /\ \E rep \in Report : Reported(rep)
    BY ParseKinds
  <1>3. lock = t /\ lock # NoTask /\ reader.source # NoFile
    <2>1. lock = t
      BY <1>1 DEF IInv, ControlOK, Holds
    <2>2. t # NoTask
      BY TelemetryAssumption
    <2>3. reader.source # NoFile
      BY <1>2 DEF IInv, SumsOK
    <2> QED
      BY <2>1, <2>2, <2>3
  <1>4. ASSUME NEW rep, Reported(rep)
        PROVE  /\ pending' # <<>> /\ Len(pending') = Len(pending) + 1
               /\ \A i \in 1..Len(pending) : pending'[i] = pending[i]
               /\ pending'[Len(pending) + 1] = rep
    <2>1. pending \in Seq(Report) /\ pending' = Append(pending, rep)
      BY <1>4 DEF Reported, IInv, TypeOK
    <2>2. Len(pending) \in Nat
      BY ReportTypes
    <2> QED
      BY <2>1, <2>2
  <1>5. /\ reader'.number = reader.number /\ reader'.file = reader.file
        /\ reader'.source = reader.source /\ reader'.offset = reader.offset
        /\ reader.epoch <= reader'.epoch /\ reader.revision <= reader'.revision
    BY <1>2, ReportTypes DEF Observed
  <1>6. reader'.epoch \in Nat /\ reader'.revision \in Nat
    BY <1>2 DEF Reader
  <1>7. TypeOK'
    <2>1. counted' \in SUBSET Nat
      BY <1>2 DEF IInv, TypeOK, Line
    <2> QED
      BY <1>1, <1>2, <2>1 DEF IInv, TypeOK
  <1>8. 1 \in 1..Len(chunk)
    BY <1>2
  <1>9. FileOK'
    <2>1. chunk[1].id \in 1..written
      BY <1>8 DEF IInv, LinesOK
    <2> QED
      BY <1>1, <1>2, <1>5, <2>1 DEF IInv, FileOK
  <1>10. ControlOK'
    <2>1. \A s \in Task : pc[s] \notin {"lookup", "emit"}
      BY <1>1, <1>3 DEF IInv, ControlOK, Holds
    <2> QED
      BY <1>1, <1>3, <2>1 DEF IInv, ControlOK, Holds
  <1>11. ShownOK'
    <2>1. \A s \in Task : pc[s] # "emit"
      BY <1>1, <1>3 DEF IInv, ControlOK, Holds
    <2> QED
      BY <1>1, <1>3, <2>1 DEF IInv, ShownOK
  <1>12. OrderOK'
    <2>1. /\ \A i \in 1..Len(sent) :
                sent[i].reader = reader'.number
                   => sent[i].epoch <= reader'.epoch /\ sent[i].revision <= reader'.revision
      <3> SUFFICES ASSUME NEW i \in 1..Len(sent), sent[i].reader = reader.number
                   PROVE  sent[i].epoch <= reader'.epoch /\ sent[i].revision <= reader'.revision
        BY <1>5
      <3>1. sent[i].epoch <= reader.epoch /\ sent[i].revision <= reader.revision
        BY DEF IInv, OrderOK
      <3> QED
        BY <1>5, <1>6, <3>1, ReportTypes
    <2>2. /\ \A i \in 1..Len(sent) :
                /\ sent[i].object \in 1..born /\ sent[i].reader <= reader'.number
                /\ sent[i].reader = reader'.number
                      => sent[i].epoch <= reader'.epoch /\ sent[i].revision <= reader'.revision
          /\ \A i \in 1..Len(pending) :
                /\ pending[i].reader = reader'.number
                /\ pending[i].epoch <= reader'.epoch /\ pending[i].revision <= reader'.revision
      <3>1. /\ \A i \in 1..Len(sent) :
                  sent[i].object \in 1..born /\ sent[i].reader <= reader'.number
            /\ \A i \in 1..Len(pending) : pending[i].reader = reader'.number
        BY <1>5 DEF IInv, OrderOK
      <3>2. ASSUME NEW i \in 1..Len(pending)
            PROVE  pending[i].epoch <= reader'.epoch /\ pending[i].revision <= reader'.revision
        <4>1. pending[i].epoch <= reader.epoch /\ pending[i].revision <= reader.revision
          BY DEF IInv, OrderOK
        <4> QED
          BY <1>5, <1>6, <4>1, ReportTypes
      <3> QED
        BY <2>1, <3>1, <3>2
    <2>3. CASE pending' = pending
      BY <1>1, <2>2, <2>3 DEF IInv, OrderOK, Precedes
    <2>4. ASSUME NEW rep \in Report, Reported(rep), Observed PROVE OrderOK'
      <3>1. /\ rep.reader = reader'.number /\ rep.epoch = reader'.epoch
            /\ rep.revision = reader'.revision
        BY <1>5, <2>4 DEF Reported
      <3>2. reader'.revision = reader.revision + 1
        BY <2>4 DEF Observed
      <3>3. /\ \A i \in 1..Len(sent) : Precedes(sent[i], rep)
            /\ \A i \in 1..Len(pending) : Precedes(pending[i], rep)
        <4>1. ASSUME NEW a, a.reader = reader'.number => /\ a.epoch <= reader'.epoch
                                                         /\ a.revision <= reader.revision
                                                         /\ a.revision \in Nat
              PROVE  Precedes(a, rep)
          BY <3>1, <3>2, <4>1, ReportTypes DEF Precedes
        <4>2. ASSUME NEW i \in 1..Len(sent) PROVE Precedes(sent[i], rep)
          <5>1. sent[i].reader = reader'.number => sent[i].revision <= reader.revision
            BY <1>5 DEF IInv, OrderOK
          <5> QED
            BY <2>2, <4>1, <5>1, ReportTypes
        <4>3. ASSUME NEW i \in 1..Len(pending) PROVE Precedes(pending[i], rep)
          <5>1. pending[i].revision <= reader.revision
            BY DEF IInv, OrderOK
          <5> QED
            BY <2>2, <4>1, <5>1, ReportTypes
        <4> QED
          BY <4>2, <4>3
      <3>4. \A i \in 1..Len(pending') : i \in 1..Len(pending) \/ pending'[i] = rep
        BY <1>4, <2>4, ReportTypes
      <3>5. /\ \A i \in 1..Len(pending') :
                  /\ pending'[i].reader = reader'.number
                  /\ pending'[i].epoch <= reader'.epoch /\ pending'[i].revision <= reader'.revision
            /\ \A i \in 1..Len(sent), j \in 1..Len(pending') : Precedes(sent[i], pending'[j])
        <4>1. rep.reader = reader'.number /\ rep.epoch <= reader'.epoch
                 /\ rep.revision <= reader'.revision
          BY <1>6, <3>1
        <4>2. \A i \in 1..Len(sent), j \in 1..Len(pending) : Precedes(sent[i], pending[j])
          BY DEF IInv, OrderOK
        <4> QED
          BY <1>4, <2>2, <2>4, <3>3, <3>4, <4>1, <4>2
      <3>6. \A i, j \in 1..Len(pending') : i < j => Precedes(pending'[i], pending'[j])
        <4> SUFFICES ASSUME NEW i \in 1..Len(pending'), NEW j \in 1..Len(pending'), i < j
                     PROVE  Precedes(pending'[i], pending'[j])
          OBVIOUS
        <4>1. i \in 1..Len(pending) /\ pending'[i] = pending[i]
          BY <1>4, <2>4, ReportTypes
        <4>2. CASE j \in 1..Len(pending)
          BY <1>4, <2>4, <4>1, <4>2 DEF IInv, OrderOK
        <4>3. CASE j = Len(pending) + 1
          BY <1>4, <2>4, <3>3, <4>1, <4>3
        <4> QED
          BY <1>4, <2>4, <4>2, <4>3, ReportTypes
      <3> QED
        BY <1>1, <2>2, <3>5, <3>6 DEF IInv, OrderOK, Precedes
    <2> QED
      BY <1>2, <2>3, <2>4
  <1>13. SumsOK'
    <2>1. chunk' # <<>> /\ baseline' =>
             pending = <<>> /\ \A i \in 1..Len(sent) : ~OfReader(sent[i])'
      <3> SUFFICES ASSUME baseline, NEW i \in 1..Len(sent), OfReader(sent[i])'
                   PROVE  FALSE
        BY <1>1, <1>2 DEF IInv, SumsOK
      <3>1. reader'.epoch = reader.epoch \/ sent[i].epoch > reader.epoch
        BY <1>1, <1>2, <1>5, ReportTypes DEF OfReader, Observed
      <3>2. sent[i].reader = reader.number
        BY <1>1, <1>5 DEF OfReader
      <3>3. sent[i].epoch <= reader.epoch
        BY <3>2 DEF IInv, OrderOK
      <3>4. sent[i].epoch = reader'.epoch
        BY <1>1 DEF OfReader
      <3>5. OfReader(sent[i])
        BY <3>1, <3>2, <3>3, <3>4, ReportTypes DEF OfReader
      <3> QED
        BY <1>2, <3>5 DEF IInv, SumsOK
    <2>2. reader'.source # NoFile
      BY <1>3, <1>5
    <2>3. /\ \A i \in 1..Len(sent) : Mandatory \subseteq Keys(sent[i].totals)
          /\ \A i \in 1..Len(sent) - 1 :
                sent[i].object = sent[i + 1].object => AddsTo(sent[i], sent[i + 1])
      BY DEF IInv, SumsOK
    <2>4. CASE reader' = reader /\ pending' = pending
      BY <1>1, <2>1, <2>2, <2>4 DEF IInv, SumsOK, OfReader
    <2>5. CASE Observed /\ baseline /\ pending' = pending
      <3>1. pending = <<>> /\ Len(pending) = 0
        BY <1>2, <2>5, EmptySeq DEF IInv, SumsOK
      <3>2. chunk # <<>> => \A i \in 1..Len(sent) : ~OfReader(sent[i])'
        <4> SUFFICES ASSUME NEW i \in 1..Len(sent), OfReader(sent[i])' PROVE FALSE
          BY <1>1 DEF OfReader
        <4>1. sent[i].reader = reader.number /\ sent[i].epoch = reader'.epoch
          BY <1>1, <1>5 DEF OfReader
        <4>2. sent[i].epoch <= reader.epoch /\ ~OfReader(sent[i])
          BY <1>2, <2>5, <4>1 DEF IInv, SumsOK, OrderOK
        <4>3. sent[i].epoch # reader.epoch
          BY <4>1, <4>2 DEF OfReader
        <4> QED
          BY <2>5, <4>1, <4>2, <4>3, ReportTypes DEF Observed
      <3>3. sent # <<>> => ~(/\ sent[Len(sent)].reader = reader'.number
                             /\ sent[Len(sent)].epoch = reader'.epoch)
        BY <1>1, <1>2, <3>2, ReportTypes DEF OfReader
      <3> QED
        BY <1>1, <2>1, <2>2, <2>3, <2>5, <3>1, <3>3 DEF SumsOK, OfReader
    <2>6. ASSUME NEW rep \in Report, Reported(rep), Observed, ~baseline PROVE SumsOK'
      <3>1. /\ rep.reader = reader'.number /\ rep.epoch = reader'.epoch
            /\ rep.totals = reader'.totals /\ Mandatory \subseteq Keys(rep.totals)
        BY <1>5, <2>6 DEF Reported, Observed
      <3>2. ASSUME NEW a, a.reader = reader.number, a.epoch = rep.epoch => a.epoch = reader.epoch,
                   a.epoch = reader.epoch => a.totals = reader.totals,
                   Mandatory \subseteq Keys(a.totals)
            PROVE  AddsTo(a, rep)
        <4> SUFFICES ASSUME a.epoch = rep.epoch PROVE rep.delta = Difference(a.totals, rep.totals)
          BY DEF AddsTo
        <4>1. rep.epoch = reader.epoch /\ a.totals = reader.totals
          BY <3>2
        <4>2. reader.totals # None
          BY <3>2, <4>1, TelemetryAssumption DEF Keys, None
        <4> QED
          BY <2>6, <4>1, <4>2 DEF Reported
      <3>3. \A i \in 1..Len(pending') : Mandatory \subseteq Keys(pending'[i].totals)
        <4> SUFFICES ASSUME NEW i \in 1..Len(pending') PROVE Mandatory \subseteq Keys(pending'[i].totals)
          OBVIOUS
        <4>1. CASE i \in 1..Len(pending)
          BY <1>4, <2>6, <4>1 DEF IInv, SumsOK
        <4>2. CASE i = Len(pending) + 1
          BY <1>4, <2>6, <3>1, <4>2
        <4> QED
          BY <1>4, <2>6, <4>1, <4>2, ReportTypes
      <3>4. pending'[Len(pending')] = rep
        BY <1>4, <2>6
      <3>5. \A i \in 1..Len(pending') - 1 : AddsTo(pending'[i], pending'[i + 1])
        <4> SUFFICES ASSUME NEW i \in 1..Len(pending) PROVE AddsTo(pending[i], pending'[i + 1])
          BY <1>4, <2>6, ReportTypes
        <4>1. CASE i = Len(pending)
          <5>1. /\ pending[i].reader = reader.number /\ pending[i].epoch = reader.epoch
                /\ pending[i].totals = reader.totals /\ Mandatory \subseteq Keys(pending[i].totals)
            <6>1. pending # <<>>
              BY EmptySeq, ReportTypes
            <6> QED
              BY <4>1, <6>1 DEF IInv, SumsOK, OrderOK
          <5> QED
            BY <1>4, <2>6, <3>2, <4>1, <5>1
        <4>2. CASE i # Len(pending)
          <5>1. i \in 1..Len(pending) - 1 /\ i + 1 \in 1..Len(pending)
            BY <4>2, ReportTypes
          <5> QED
            BY <1>4, <2>6, <5>1 DEF IInv, SumsOK
        <4> QED
          BY <4>1, <4>2
      <3>6. sent # <<>> /\ sent[Len(sent)].object = object => AddsTo(sent[Len(sent)], pending'[1])
        <4> SUFFICES ASSUME sent # <<>>, sent[Len(sent)].object = object
                     PROVE  AddsTo(sent[Len(sent)], pending'[1])
          OBVIOUS
        <4> DEFINE a == sent[Len(sent)]
        <4>1. Len(sent) \in 1..Len(sent)
          BY ReportTypes
        <4>2. CASE pending = <<>>
          <5>1. pending'[1] = rep
            BY <1>4, <2>6, <4>2, EmptySeq
          <5>2. Mandatory \subseteq Keys(a.totals) /\ (OfReader(a) => a.totals = reader.totals)
            BY <4>1, <4>2 DEF IInv, SumsOK
          <5>3. a.reader = reader.number => a.epoch <= reader.epoch
            BY <4>1 DEF IInv, OrderOK
          <5>4. a.reader = reader.number /\ a.epoch = rep.epoch => a.epoch = reader.epoch
            BY <2>6, <3>1, <4>1, <5>3, ReportTypes DEF Observed
          <5>5. CASE a.reader = reader.number
            BY <3>2, <5>1, <5>2, <5>4, <5>5 DEF OfReader
          <5>6. CASE a.reader # reader.number
            BY <1>5, <3>1, <5>1, <5>6 DEF AddsTo
          <5> QED
            BY <5>5, <5>6
        <4>3. CASE pending # <<>>
          <5>1. pending'[1] = pending[1]
            BY <1>4, <2>6, <4>3, ReportTypes
          <5> QED
            BY <4>3, <5>1 DEF IInv, SumsOK
        <4> QED
          BY <4>2, <4>3
      <3> QED
        BY <1>1, <1>4, <2>1, <2>2, <2>3, <2>6, <3>1, <3>3, <3>4, <3>5, <3>6 DEF SumsOK, AddsTo
    <2> QED
      BY <1>2, <2>4, <2>5, <2>6
  <1>14. LinesOK'
    <2>1. \A i \in 1..Len(chunk') : i + 1 \in 1..Len(chunk) /\ chunk'[i] = chunk[i + 1]
      BY <1>2
    <2>2. \A i \in 1..Len(chunk') : chunk[1].id < chunk[i + 1].id
      <3> SUFFICES ASSUME NEW i \in 1..Len(chunk') PROVE chunk[1].id < chunk[i + 1].id
        OBVIOUS
      <3>1. i + 1 \in 1..Len(chunk) /\ 1 < i + 1
        BY <2>1
      <3> QED
        BY <1>8, <3>1 DEF IInv, LinesOK
    <2>3. /\ \A i \in 1..Len(chunk') : chunk'[i].id \in 1..written
          /\ \A i, j \in 1..Len(chunk') : i < j => chunk'[i].id < chunk'[j].id
      <3>1. \A i \in 1..Len(chunk') : chunk'[i].id \in 1..written
        BY <2>1 DEF IInv, LinesOK
      <3>2. ASSUME NEW i \in 1..Len(chunk'), NEW j \in 1..Len(chunk'), i < j
            PROVE  chunk'[i].id < chunk'[j].id
        <4>1. i + 1 \in 1..Len(chunk) /\ j + 1 \in 1..Len(chunk) /\ i + 1 < j + 1
          BY <2>1, <3>2
        <4>2. chunk[i + 1].id < chunk[j + 1].id
          BY <4>1 DEF IInv, LinesOK
        <4> QED
          BY <2>1, <4>2
      <3> QED
        BY <3>1, <3>2
    <2>4. \A i \in 1..Len(chunk') : baseline \/ chunk'[i].id \notin counted'
      <3> SUFFICES ASSUME NEW i \in 1..Len(chunk'), ~baseline PROVE chunk'[i].id \notin counted'
        OBVIOUS
      <3>1. chunk'[i].id \notin counted
        BY <2>1 DEF IInv, LinesOK
      <3>2. chunk'[i].id # chunk[1].id
        BY <1>8, <2>1, <2>2 DEF IInv, LinesOK
      <3> QED
        BY <1>2, <3>1, <3>2
    <2>5. \A i \in 1..Len(rollout) : Unread(i)' =>
             /\ rollout[i].id \notin counted'
             /\ ~ \E k \in 1..Len(chunk') : chunk'[k].id = rollout[i].id
      <3> SUFFICES ASSUME NEW i \in 1..Len(rollout), Unread(i)
                   PROVE  /\ rollout[i].id \notin counted'
                          /\ ~ \E k \in 1..Len(chunk') : chunk'[k].id = rollout[i].id
        BY <1>1, <1>5 DEF Unread
      <3>1. rollout[i].id \notin counted /\ \A k \in 1..Len(chunk) : chunk[k].id # rollout[i].id
        BY DEF IInv, LinesOK, InChunk
      <3> QED
        BY <1>2, <1>8, <2>1, <3>1
    <2>6. /\ \A i \in 1..Len(pending) : pending[i].fresh /\ pending[i].line \in counted
          /\ \A i, j \in 1..Len(pending) : i < j => pending[i].line # pending[j].line
          /\ \A i \in 1..Len(sent), j \in 1..Len(pending) : sent[i].line # pending[j].line
          /\ \A i \in 1..Len(sent) : sent[i].fresh /\ sent[i].line \in counted
          /\ \A i, j \in 1..Len(sent) : i < j => sent[i].line # sent[j].line
      BY DEF IInv, LinesOK
    <2>7. CASE pending' = pending
      BY <1>1, <1>2, <2>3, <2>4, <2>5, <2>6, <2>7 DEF LinesOK, InChunk
    <2>8. ASSUME NEW rep \in Report, Reported(rep), ~baseline PROVE LinesOK'
      <3>1. chunk[1].id \notin counted
        BY <1>8, <2>8 DEF IInv, LinesOK
      <3>2. rep.fresh /\ rep.line \in counted' /\ rep.line \notin counted
        BY <1>2, <2>8, <3>1 DEF Reported
      <3>3. \A i \in 1..Len(pending') : i \in 1..Len(pending) \/ i = Len(pending) + 1
        BY <1>4, <2>8, ReportTypes
      <3>4. \A i \in 1..Len(pending') : pending'[i].fresh /\ pending'[i].line \in counted'
        BY <1>2, <1>4, <2>6, <2>8, <3>2, <3>3
      <3>5. \A i, j \in 1..Len(pending') : i < j => pending'[i].line # pending'[j].line
        <4> SUFFICES ASSUME NEW i \in 1..Len(pending'), NEW j \in 1..Len(pending'), i < j
                     PROVE  pending'[i].line # pending'[j].line
          OBVIOUS
        <4>1. i \in 1..Len(pending)
          BY <3>3, ReportTypes
        <4> QED
          BY <1>4, <2>6, <2>8, <3>2, <3>3, <4>1
      <3>6. \A i \in 1..Len(sent), j \in 1..Len(pending') : sent[i].line # pending'[j].line
        BY <1>4, <2>6, <2>8, <3>2, <3>3
      <3> QED
        BY <1>1, <1>2, <2>3, <2>4, <2>5, <2>6, <3>4, <3>5, <3>6 DEF LinesOK, InChunk
    <2> QED
      BY <1>2, <2>7, <2>8
  <1>15. ~Unnoticed => FilesOK'
    <2> SUFFICES ASSUME ~Unnoticed PROVE FilesOK'
      OBVIOUS
    <2>1. ~Noticeable(Length)' => reader'.file = rewrites'
      BY <1>1, <1>5 DEF IInv, FilesOK, Noticeable, Length, Halves
    <2>2. ASSUME NEW a, a.reader = reader.number => a.epoch \in Nat /\ a.epoch <= reader.epoch,
                 OfReader(a) => a.file = reader.file
          PROVE  a.reader = reader'.number /\ a.epoch = reader'.epoch => a.file = reader'.file
      BY <1>2, <1>5, <2>2, ReportTypes DEF Observed, OfReader
    <2>3. /\ \A i \in 1..Len(sent) : OfReader(sent[i])' => sent[i].file = reader'.file
          /\ \A i \in 1..Len(pending) :
                pending[i].reader = reader'.number /\ pending[i].epoch = reader'.epoch
                   => pending[i].file = reader'.file
      BY <1>1, <2>2, ReportTypes DEF IInv, FilesOK, OrderOK, OfReader
    <2>4. CASE pending' = pending
      BY <1>1, <2>1, <2>3, <2>4 DEF IInv, FilesOK, OfReader, SameFile
    <2>5. ASSUME NEW rep \in Report, Reported(rep) PROVE FilesOK'
      <3>1. rep.reader = reader'.number /\ rep.epoch = reader'.epoch /\ rep.file = reader'.file
        BY <1>5, <2>5 DEF Reported
      <3>2. \A i \in 1..Len(pending') : i \in 1..Len(pending) \/ i = Len(pending) + 1
        BY <1>4, <2>5, ReportTypes
      <3>3. \A i \in 1..Len(pending') :
               pending'[i].reader = reader'.number /\ pending'[i].epoch = reader'.epoch
                   => pending'[i].file = reader'.file
        BY <1>4, <2>3, <2>5, <3>1, <3>2
      <3>4. \A i \in 1..Len(sent), j \in 1..Len(pending') : SameFile(sent[i], pending'[j])
        BY <1>1, <1>4, <2>3, <2>5, <3>1, <3>2, SMTT(20) DEF IInv, FilesOK, SameFile, OfReader
      <3>5. \A i, j \in 1..Len(pending') : SameFile(pending'[i], pending'[j])
        <4> SUFFICES ASSUME NEW i \in 1..Len(pending'), NEW j \in 1..Len(pending')
                     PROVE  SameFile(pending'[i], pending'[j])
          OBVIOUS
        <4>1. \A k \in 1..Len(pending) : pending'[k] = pending[k]
          BY <1>4, <2>5
        <4>2. CASE i \in 1..Len(pending) /\ j \in 1..Len(pending)
          BY <4>1, <4>2 DEF IInv, FilesOK
        <4>3. CASE i = Len(pending) + 1 \/ j = Len(pending) + 1
          <5>1. pending'[Len(pending) + 1] = rep
            BY <1>4, <2>5
          <5> QED
            BY <3>1, <3>3, <4>3, <5>1 DEF SameFile
        <4> QED
          BY <3>2, <4>2, <4>3
      <3> QED
        BY <1>1, <2>1, <2>3, <3>3, <3>4, <3>5 DEF IInv, FilesOK, OfReader, SameFile
    <2> QED
      BY <1>2, <2>4, <2>5
  <1> QED
    BY <1>7, <1>9, <1>10, <1>11, <1>12, <1>13, <1>14, <1>15 DEF IInv

-----------------------------------------------------------------------------
(* Hooks, removals and the watcher *)

(* A hook reads with the reader of the map or with a new one. *)
LEMMA ReadForHookIInv ==
    ASSUME IInv, NEW h \in Hook, ReadForHook(h)
    PROVE  IInv'
  <1> DEFINE r == IF tracked THEN reader ELSE NewReader(reader.number + 1)
  <1>1. Candidate(r)
    BY DEF Candidate
  <1>2. /\ lock = NoTask /\ lock' = h /\ tracked' /\ tracked' \in BOOLEAN /\ h \in Task
        /\ ReadInto(r) /\ Goto(h, "parse")
        /\ UNCHANGED <<rollout, half, source, written, rewrites, notified, inputVars, pending,
                       counted, objectVars, sent>>
    BY DEF ReadForHook, Task
  <1>3. since' \in Nat /\ past' \in Nat
    <2>1. /\ since' = IF tracked THEN since ELSE written - (IF half THEN 1 ELSE 0)
          /\ past' = since'
      BY DEF ReadForHook
    <2>2. since \in Nat /\ written \in Nat /\ (half => written > 0)
      <3>1. half => 1 \in 1..Len(rollout)
        BY EmptySeq, LenProperties DEF IInv, TypeOK, FileOK
      <3>2. half => rollout[1].id \in 1..written
        BY <3>1 DEF IInv, FileOK
      <3> QED
        BY <3>2 DEF IInv, TypeOK
    <2> QED
      BY <2>1, <2>2
  <1> QED
    BY <1>1, <1>2, <1>3, ReadIInv

(* A step that neither reads nor emits: only where a task is, the lock,    *)
(* the pending reports, the object and what it shows are disturbed.        *)
LEMMA QuietIInv ==
    ASSUME IInv, TypeOK', ControlOK', ShownOK',
           UNCHANGED <<fileVars, readVars, sent>>,
           born <= born', born' \in Nat,
           pending' = pending \/ pending' = <<>>,
           (object' = object /\ pending' = pending) \/ object' \notin 1..born
    PROVE  IInv'
  <1>1. UNCHANGED <<rollout, half, source, written, rewrites, tracked, reader, chunk, baseline,
                    counted, sent>>
    BY DEF fileVars, readVars
  <1>2. \A i \in 1..Len(pending') : pending'[i] = pending[i] /\ i \in 1..Len(pending)
    BY EmptySeq
  <1>3. born \in Nat
    BY DEF IInv, TypeOK
  <1>4. FileOK'
    BY <1>1, FileFrame DEF IInv
  <1>5. OrderOK'
    <2>1. \A i \in 1..Len(sent) : sent[i].object \in 1..born'
      BY <1>3 DEF IInv, OrderOK
    <2>2. CASE pending' = pending
      BY <1>1, <2>1, <2>2 DEF IInv, OrderOK, Precedes
    <2>3. CASE pending' = <<>>
      <3>1. Len(pending') = 0
        BY <2>3, EmptySeq
      <3> QED
        BY <1>1, <2>1, <3>1 DEF IInv, OrderOK, Precedes
    <2> QED
      BY <2>2, <2>3
  <1>6. SumsOK'
    <2>1. CASE object' = object /\ pending' = pending
      BY <1>1, <2>1, SumsFrame DEF IInv
    <2>2. CASE object' \notin 1..born
      <3>1. sent # <<>> => sent[Len(sent)].object # object'
        BY <2>2, ReportTypes DEF IInv, OrderOK
      <3>2. CASE pending' = pending
        BY <1>1, <3>1, <3>2 DEF IInv, SumsOK, AddsTo, OfReader
      <3>3. CASE pending' = <<>>
        BY <1>1, <1>2, <3>1, <3>3, EmptySeq DEF IInv, SumsOK, AddsTo, OfReader
      <3> QED
        BY <3>2, <3>3
    <2> QED
      BY <2>1, <2>2
  <1>7. LinesOK'
    <2>1. CASE pending' = pending
      BY <1>1, <2>1, LinesFrame DEF IInv
    <2>2. CASE pending' = <<>>
      <3>1. Len(pending') = 0
        BY <2>2, EmptySeq
      <3> QED
        BY <1>1, <3>1 DEF IInv, LinesOK, Unread, InChunk
    <2> QED
      BY <2>1, <2>2
  <1>8. ~Unnoticed => FilesOK'
    BY <1>1, <1>2 DEF IInv, FilesOK, Noticeable, Length, Halves, OfReader, SameFile
  <1> QED
    BY <1>4, <1>5, <1>6, <1>7, <1>8 DEF IInv

(* A new object was never reported for; an old one is looked up. *)
LEMMA UpdateSessionIInv ==
    ASSUME IInv, NEW h \in Hook, UpdateSession(h)
    PROVE  IInv'
  <1>1. /\ pc[h] = "parse" /\ chunk = <<>> /\ h \in Task /\ h # Watcher
        /\ UNCHANGED <<fileVars, notified, inputVars, lock, readVars, pending, sent>>
        /\ UNCHANGED <<rollout, half, source, written, rewrites, notified, script, work, lock,
                       tracked, reader, chunk, baseline, counted, since, past>>
    BY DEF UpdateSession, Task, fileVars, inputVars, readVars
  <1>2. \/ /\ object = NoObject /\ born' = born + 1 /\ object' = born' /\ shown' = Parsed
           /\ Goto(h, "emit")
        \/ object # NoObject /\ Goto(h, "lookup") /\ UNCHANGED <<object, born, shown>>
    BY DEF UpdateSession, objectVars
  <1>3. /\ born \in Nat /\ Parsed \in Parser /\ pc \in [Task -> {"start", "parse", "lookup",
              "emit", "vanish", "idle", "drain", "done"}]
    BY DEF IInv, TypeOK, Reader, Parsed, Parser
  <1>4. born' \in Nat /\ born <= born' /\ object' \in Nat /\ shown' \in Parser
    BY <1>2, <1>3 DEF IInv, TypeOK
  <1>5. PICK l \in {"emit", "lookup"} : pc' = [pc EXCEPT ![h] = l]
    BY <1>2 DEF Goto
  <1>6. lock = h /\ h # NoTask
    BY <1>1, TelemetryAssumption DEF IInv, ControlOK, Holds
  <1>7. TypeOK'
    BY <1>1, <1>3, <1>4, <1>5 DEF IInv, TypeOK
  <1>8. ControlOK'
    BY <1>1, <1>3, <1>5, <1>6 DEF IInv, ControlOK, Holds, Task
  <1>9. ShownOK'
    <2>1. CASE object = NoObject
      <3>1. object' <= born' /\ shown' = Parsed'
        BY <1>1, <1>2, <1>4, <2>1 DEF Parsed
      <3> QED
        BY <3>1 DEF ShownOK
    <2>2. CASE object # NoObject
      <3>1. pc' = [pc EXCEPT ![h] = "lookup"] /\ UNCHANGED <<object, born, shown>>
        BY <1>2, <2>2 DEF Goto
      <3>2. \A t \in Task : pc'[t] # "emit"
        BY <1>1, <1>3, <1>6, <3>1 DEF IInv, ControlOK, Holds
      <3> QED
        BY <1>1, <1>6, <3>1, <3>2 DEF IInv, ShownOK
    <2> QED
      BY <2>1, <2>2
  <1>10. object' = object \/ object' \notin 1..born
    BY <1>2, <1>3
  <1> QED
    BY <1>1, <1>4, <1>7, <1>8, <1>9, <1>10, QuietIInv

(* The reports go to the object, or are lost with it. *)
LEMMA ApplyUsageIInv ==
    ASSUME IInv, NEW h \in Hook, ApplyUsage(h)
    PROVE  IInv'
  <1>1. /\ pc[h] = "lookup" /\ h \in Task
        /\ UNCHANGED <<fileVars, inputVars, readVars, sent>>
        /\ UNCHANGED <<rollout, half, source, written, rewrites, notified, script, work,
                       tracked, reader, chunk, baseline, counted, since, past,
                       object, born>>
    BY DEF ApplyUsage, Task, fileVars, inputVars, readVars
  <1>2. \/ /\ object # NoObject /\ shown' = Parsed /\ Goto(h, "emit") /\ UNCHANGED <<lock, pending>>
        \/ /\ object = NoObject /\ lock' = NoTask /\ pending' = <<>> /\ Goto(h, "done")
           /\ UNCHANGED shown
    BY DEF ApplyUsage
  <1>3. /\ born \in Nat /\ Parsed \in Parser /\ pc \in [Task -> {"start", "parse", "lookup",
              "emit", "vanish", "idle", "drain", "done"}]
    BY DEF IInv, TypeOK, Reader, Parsed, Parser
  <1>4. lock = h /\ h # NoTask /\ chunk = <<>> /\ h # Watcher
    BY <1>1, TelemetryAssumption DEF IInv, ControlOK, Holds
  <1>5. PICK l \in {"emit", "done"} : pc' = [pc EXCEPT ![h] = l]
    BY <1>2 DEF Goto
  <1>6. TypeOK'
    <2>1. shown' \in Parser /\ lock' \in Task \cup {NoTask} /\ pending' \in Seq(Report)
      BY <1>2, <1>3, EmptySeq DEF IInv, TypeOK
    <2> QED
      BY <1>1, <1>3, <1>5, <2>1 DEF IInv, TypeOK
  <1>7. ControlOK'
    <2>1. CASE object # NoObject
      BY <1>1, <1>2, <1>3, <1>4, <2>1 DEF IInv, ControlOK, Holds, Goto, Task
    <2>2. CASE object = NoObject
      BY <1>1, <1>2, <1>3, <1>4, <2>2 DEF IInv, ControlOK, Holds, Goto, Task
    <2> QED
      BY <2>1, <2>2
  <1>8. ShownOK'
    BY <1>1, <1>2 DEF IInv, ShownOK, Parsed
  <1>9. /\ pending' = pending \/ pending' = <<>>
        /\ (object' = object /\ pending' = pending) \/ object' \notin 1..born
    BY <1>1, <1>2, <1>3 DEF NoObject
  <1> QED
    BY <1>1, <1>3, <1>6, <1>7, <1>8, <1>9, QuietIInv

(* A removal and the watcher read with the reader of the map, if any. *)
LEMMA ReadForDrainIInv ==
    ASSUME IInv, NEW t \in Task, ReadForDrain(t)
    PROVE  IInv'
  <1>1. CASE tracked
    <2>1. Candidate(reader)
      BY <1>1 DEF Candidate
    <2>2. /\ lock = NoTask /\ lock' = t /\ tracked' /\ tracked' \in BOOLEAN
          /\ ReadInto(reader) /\ Goto(t, "parse")
          /\ since' \in Nat /\ past' \in Nat
          /\ UNCHANGED <<rollout, half, source, written, rewrites, notified, inputVars, pending,
                         counted, objectVars, sent>>
      BY <1>1 DEF ReadForDrain, IInv, TypeOK, fileVars
    <2> QED
      BY <2>1, <2>2, ReadIInv
  <1>2. CASE ~tracked
    <2>1. /\ UNCHANGED <<fileVars, inputVars, readVars, sent>>
          /\ UNCHANGED <<rollout, half, source, written, rewrites, notified, script, work, lock,
                         tracked, reader, chunk, baseline, counted, since, past,
                       pending, object, born, shown>>
          /\ Goto(t, IF Removes(t) THEN "vanish" ELSE "idle")
          /\ pc[t] = "drain" \/ (pc[t] = "start" /\ Removes(t))
      BY <1>2 DEF ReadForDrain, fileVars, inputVars, readVars, objectVars
    <2>2. PICK l \in {"vanish", "idle"} :
             /\ pc' = [pc EXCEPT ![t] = l]
             /\ t = Watcher => l = "idle"
             /\ t # Watcher => l = "vanish"
      BY <2>1 DEF Goto, Removes, IInv, ControlOK, Task
    <2>3. TypeOK'
      BY <2>1, <2>2 DEF IInv, TypeOK
    <2>4. ControlOK'
      BY <2>1, <2>2 DEF IInv, TypeOK, ControlOK, Holds, Task
    <2>5. ShownOK'
      BY <1>2, <2>1 DEF IInv, ShownOK
    <2> QED
      BY <2>1, <2>3, <2>4, <2>5, QuietIInv DEF IInv, TypeOK
  <1> QED
    BY <1>1, <1>2

(* What is shown is brought up to date. *)
LEMMA RefreshSessionIInv ==
    ASSUME IInv, NEW t \in Task, RefreshSession(t)
    PROVE  IInv'
  <1>1. /\ pc[t] = "parse" /\ chunk = <<>>
        /\ UNCHANGED <<fileVars, inputVars, readVars, sent>>
        /\ UNCHANGED <<rollout, half, source, written, rewrites, notified, script, work, lock,
                       tracked, reader, chunk, baseline, counted, since, past,
                       pending, object, born>>
        /\ shown' = IF object # NoObject THEN Parsed ELSE shown
        /\ pc' = [pc EXCEPT ![t] = "emit"]
    BY DEF RefreshSession, fileVars, inputVars, readVars, Goto
  <1>2. Parsed \in Parser
    BY DEF IInv, TypeOK, Reader, Parsed, Parser
  <1>3. lock = t /\ t # NoTask
    BY <1>1, TelemetryAssumption DEF IInv, ControlOK, Holds
  <1>4. TypeOK'
    BY <1>1, <1>2 DEF IInv, TypeOK
  <1>5. ControlOK'
    BY <1>1, <1>3 DEF IInv, TypeOK, ControlOK, Holds, Task
  <1>6. ShownOK'
    BY <1>1 DEF IInv, ShownOK, Parsed
  <1> QED
    BY <1>1, <1>4, <1>5, <1>6, QuietIInv DEF IInv, TypeOK

(* Nothing is reported for no object. *)
LEMMA VanishIInv ==
    ASSUME IInv, NEW h \in Hook, Vanish(h)
    PROVE  IInv'
  <1>1. /\ pc[h] = "vanish" /\ h \in Task /\ object' = NoObject
        /\ UNCHANGED <<fileVars, inputVars, readVars, sent>>
        /\ UNCHANGED <<rollout, half, source, written, rewrites, notified, script, work, lock,
                       tracked, reader, chunk, baseline, counted, since, past,
                       pending, born, shown>>
        /\ pc' = [pc EXCEPT ![h] = "done"]
    BY DEF Vanish, fileVars, inputVars, readVars, Goto, Task
  <1>2. object' \in Nat /\ object' \notin 1..born /\ object' <= born
    BY <1>1 DEF NoObject, IInv, TypeOK
  <1>3. TypeOK'
    BY <1>1, <1>2 DEF IInv, TypeOK
  <1>4. ControlOK'
    BY <1>1, TelemetryAssumption DEF IInv, TypeOK, ControlOK, Holds, Task
  <1>5. ShownOK'
    BY <1>1, <1>2 DEF ShownOK
  <1> QED
    BY <1>1, <1>2, <1>3, <1>4, <1>5, QuietIInv DEF IInv, TypeOK

(* Noticing takes no lock. *)
LEMMA NoticeIInv ==
    ASSUME IInv, Notice
    PROVE  IInv'
  <1>1. /\ pc[Watcher] = "idle" /\ notified' = FALSE
        /\ UNCHANGED <<fileVars, inputVars, readVars, sent>>
        /\ UNCHANGED <<rollout, half, source, written, rewrites, script, work, lock,
                       tracked, reader, chunk, baseline, counted, since, past,
                       pending, object, born, shown>>
    BY DEF Notice, fileVars, inputVars, readVars, objectVars
  <1>2. PICK l \in {"drain", "idle"} : pc' = [pc EXCEPT ![Watcher] = l]
    BY DEF Notice, Goto
  <1>3. Watcher \in Task
    BY DEF Task
  <1>4. TypeOK'
    BY <1>1, <1>2, <1>3 DEF IInv, TypeOK
  <1>5. ControlOK'
    BY <1>1, <1>2, <1>3, TelemetryAssumption DEF IInv, TypeOK, ControlOK, Holds, Task
  <1>6. ShownOK'
    BY <1>1, <1>2, <1>3 DEF IInv, TypeOK, ShownOK, Parsed
  <1> QED
    BY <1>1, <1>4, <1>5, <1>6, QuietIInv DEF IInv, TypeOK

-----------------------------------------------------------------------------
(* Emitting *)

(* Reports that differ in their object at most. *)
SameReport(a, b) ==
    /\ a.reader = b.reader /\ a.file = b.file /\ a.epoch = b.epoch
    /\ a.revision = b.revision /\ a.delta = b.delta /\ a.totals = b.totals
    /\ a.line = b.line /\ a.since = b.since /\ a.fresh = b.fresh

(* The library fact on concatenation, for reports. *)
LEMMA ReportsConcatenated ==
    ASSUME NEW r \in Seq(Report), NEW s \in Seq(Report)
    PROVE  /\ r \o s \in Seq(Report)
           /\ Len(r \o s) = Len(r) + Len(s)
           /\ \A i \in 1..Len(r) + Len(s) :
                 (r \o s)[i] = IF i <= Len(r) THEN r[i] ELSE s[i - Len(r)]
  BY ConcatProperties

(* The reports of a reading, with their object, follow those before. *)
LEMMA Concatenated ==
    ASSUME IInv, NEW o \in Nat, NEW emitted,
           emitted = [i \in 1..Len(pending) |-> [pending[i] EXCEPT !.object = o]],
           sent' = sent \o emitted
    PROVE  /\ sent' \in Seq(Report) /\ Len(sent') = Len(sent) + Len(pending)
           /\ \A i \in 1..Len(sent) : sent'[i] = sent[i]
           /\ \A i \in 1..Len(pending) :
                 /\ sent'[Len(sent) + i].object = o
                 /\ SameReport(sent'[Len(sent) + i], pending[i])
  <1>1. /\ sent \in Seq(Report) /\ Len(sent) \in Nat /\ Len(pending) \in Nat
        /\ \A i \in 1..Len(pending) : pending[i] \in Report
    BY ReportTypes DEF IInv, TypeOK
  <1>2. ASSUME NEW i \in 1..Len(pending)
        PROVE  LET a == [pending[i] EXCEPT !.object = o]
               IN  a \in Report /\ a.object = o /\ SameReport(a, pending[i])
    BY <1>1 DEF Report, SameReport
  <1>3. emitted \in [1..Len(pending) -> Report]
    BY <1>2
  <1>4. emitted \in Seq(Report)
    BY <1>1, <1>3, SeqDef
  <1>5. Len(emitted) = Len(pending)
    <2>1. DOMAIN emitted = 1..Len(emitted) /\ Len(emitted) \in Nat
      BY <1>4, LenProperties
    <2>2. DOMAIN emitted = 1..Len(pending)
      BY <1>3
    <2> QED
      BY <1>1, <2>1, <2>2
  <1>6. /\ sent' \in Seq(Report) /\ Len(sent') = Len(sent) + Len(emitted)
        /\ \A i \in 1..Len(sent) + Len(emitted) :
              sent'[i] = IF i <= Len(sent) THEN sent[i] ELSE emitted[i - Len(sent)]
    <2>1. /\ sent \o emitted \in Seq(Report)
          /\ Len(sent \o emitted) = Len(sent) + Len(emitted)
          /\ \A i \in 1..Len(sent) + Len(emitted) :
                (sent \o emitted)[i] = IF i <= Len(sent) THEN sent[i] ELSE emitted[i - Len(sent)]
      BY <1>1, <1>4, ReportsConcatenated
    <2> QED
      BY <2>1
  <1>7. \A i \in 1..Len(sent) : sent'[i] = sent[i]
    BY <1>1, <1>5, <1>6
  <1>8. ASSUME NEW i \in 1..Len(pending)
        PROVE  sent'[Len(sent) + i] = [pending[i] EXCEPT !.object = o]
    <2>1. /\ Len(sent) + i \in 1..Len(sent) + Len(emitted) /\ ~(Len(sent) + i <= Len(sent))
          /\ (Len(sent) + i) - Len(sent) = i
      BY <1>1, <1>5
    <2> QED
      BY <1>6, <2>1
  <1> QED
    BY <1>2, <1>5, <1>6, <1>7, <1>8

(* Emitting preserves the inductive invariant. *)
LEMMA EmitIInv ==
    ASSUME IInv, NEW t \in Task, Emit(t)
    PROVE  IInv'
  <1>1. /\ UNCHANGED <<rollout, half, source, written, rewrites, notified, script, work,
                       reader, chunk, baseline, counted, since, past, object, born, shown>>
        /\ pc[t] = "emit" /\ pending' = <<>> /\ lock' = NoTask
        /\ tracked' = (tracked /\ ~Removes(t))
        /\ sent' = IF object = NoObject THEN sent
                   ELSE sent \o [i \in 1..Len(pending) |-> [pending[i] EXCEPT !.object = object]]
    BY DEF Emit, fileVars, inputVars, objectVars
  <1>2. PICK l \in {"idle", "vanish", "done"} :
           /\ pc' = [pc EXCEPT ![t] = l]
           /\ t = Watcher => l = "idle"
           /\ t # Watcher => l # "idle"
    BY DEF Emit, Goto
  <1>3. lock = t /\ t # NoTask /\ tracked /\ chunk = <<>> /\ Len(pending') = 0 /\ Len(chunk) = 0
    BY <1>1, EmptySeq, TelemetryAssumption DEF IInv, ControlOK, Holds
  <1>4. /\ object \in Nat /\ born \in Nat /\ object <= born
        /\ object # NoObject => object \in 1..born
    BY DEF IInv, TypeOK, ShownOK, NoObject
  <1>5. object = NoObject => sent' = sent /\ sent' \in Seq(Report)
    BY <1>1 DEF IInv, TypeOK
  <1>6. object # NoObject =>
           /\ sent' \in Seq(Report) /\ Len(sent') = Len(sent) + Len(pending)
           /\ \A i \in 1..Len(sent) : sent'[i] = sent[i]
           /\ \A i \in 1..Len(pending) :
                 /\ sent'[Len(sent) + i].object = object
                 /\ SameReport(sent'[Len(sent) + i], pending[i])
    BY <1>1, <1>4, Concatenated
  <1>7. object # NoObject =>
           \A i \in 1..Len(sent') :
              \/ i \in 1..Len(sent) /\ sent'[i] = sent[i]
              \/ /\ i \notin 1..Len(sent)
                 /\ \E k \in 1..Len(pending) :
                       /\ i = Len(sent) + k /\ sent'[i].object = object
                       /\ SameReport(sent'[i], pending[k])
    <2> SUFFICES ASSUME object # NoObject, NEW i \in 1..Len(sent'), i \notin 1..Len(sent)
                 PROVE  \E k \in 1..Len(pending) :
                           /\ i = Len(sent) + k /\ sent'[i].object = object
                           /\ SameReport(sent'[i], pending[k])
      BY <1>6
    <2>1. i - Len(sent) \in 1..Len(pending) /\ i = Len(sent) + (i - Len(sent))
      BY <1>6, ReportTypes
    <2> QED
      BY <1>6, <2>1
  <1>8. TypeOK'
    <2>1. tracked' \in BOOLEAN /\ pending' \in Seq(Report) /\ sent' \in Seq(Report)
      BY <1>1, <1>5, <1>6, EmptySeq DEF IInv, TypeOK
    <2> QED
      BY <1>1, <1>2, <2>1 DEF IInv, TypeOK
  <1>9. FileOK'
    BY <1>1, FileFrame DEF IInv
  <1>10. ControlOK'
    <2>1. \A s \in Task : s # t => pc[s] \notin {"parse", "lookup", "emit"} /\ pc'[s] = pc[s]
      BY <1>2, <1>3 DEF IInv, TypeOK, ControlOK, Holds
    <2>2. t \in Task /\ pc'[t] = l
      BY <1>2 DEF IInv, TypeOK
    <2>3. \A s \in Task : ~Holds(s)'
      BY <1>2, <2>1, <2>2 DEF Holds
    <2>4. \A h \in Hook : pc'[h] \notin {"idle", "drain"}
      BY <1>2, <2>1, <2>2, TelemetryAssumption DEF IInv, ControlOK, Task
    <2>5. pc'[Watcher] \in {"idle", "drain", "parse", "emit"}
      BY <1>2, <2>1, <2>2 DEF IInv, ControlOK, Task
    <2> QED
      BY <1>1, <1>3, <2>3, <2>4, <2>5 DEF ControlOK, Holds
  <1>11. ShownOK'
    BY <1>1, <1>3 DEF IInv, ShownOK, Parsed
  <1>12. OrderOK'
    <2>1. CASE object = NoObject
      BY <1>1, <1>3, <1>5, <2>1 DEF IInv, OrderOK, Precedes
    <2>2. CASE object # NoObject
      <3>1. \A i \in 1..Len(sent') :
               /\ sent'[i].object \in 1..born
               /\ sent'[i].reader <= reader.number
               /\ sent'[i].reader = reader.number
                     => sent'[i].epoch <= reader.epoch /\ sent'[i].revision <= reader.revision
        <4> SUFFICES ASSUME NEW i \in 1..Len(sent')
                     PROVE  /\ sent'[i].object \in 1..born
                            /\ sent'[i].reader <= reader.number
                            /\ sent'[i].reader = reader.number
                                  => /\ sent'[i].epoch <= reader.epoch
                                     /\ sent'[i].revision <= reader.revision
          OBVIOUS
        <4>1. CASE i \in 1..Len(sent)
          BY <1>6, <2>2, <4>1 DEF IInv, OrderOK
        <4>2. CASE i \notin 1..Len(sent)
          <5>1. PICK k \in 1..Len(pending) :
                   sent'[i].object = object /\ SameReport(sent'[i], pending[k])
            BY <1>7, <2>2, <4>2
          <5>2. /\ pending[k].reader = reader.number /\ pending[k].epoch <= reader.epoch
                /\ pending[k].revision <= reader.revision
            BY DEF IInv, OrderOK
          <5> QED
            BY <1>4, <2>2, <5>1, <5>2, ReportTypes DEF SameReport
        <4> QED
          BY <4>1, <4>2
      <3>2. \A i, j \in 1..Len(sent') : i < j => Precedes(sent'[i], sent'[j])
        <4> SUFFICES ASSUME NEW i \in 1..Len(sent'), NEW j \in 1..Len(sent'), i < j
                     PROVE  Precedes(sent'[i], sent'[j])
          OBVIOUS
        <4>1. CASE j \in 1..Len(sent)
          <5>1. i \in 1..Len(sent)
            BY <4>1, ReportTypes
          <5> QED
            BY <1>6, <2>2, <4>1, <5>1 DEF IInv, OrderOK
        <4>2. CASE j \notin 1..Len(sent)
          <5>1. PICK k \in 1..Len(pending) : j = Len(sent) + k
            BY <1>7, <2>2, <4>2
          <5>2. CASE i \in 1..Len(sent)
            <6>1. Precedes(sent[i], pending[k])
              BY <5>2 DEF IInv, OrderOK
            <6> QED
              BY <1>6, <2>2, <5>1, <5>2, <6>1 DEF Precedes, SameReport
          <5>3. CASE i \notin 1..Len(sent)
            <6>1. PICK m \in 1..Len(pending) : i = Len(sent) + m
              BY <1>7, <2>2, <5>3
            <6>2. m < k
              BY <5>1, <6>1, ReportTypes
            <6>3. Precedes(pending[m], pending[k])
              BY <6>2 DEF IInv, OrderOK
            <6> QED
              BY <1>6, <2>2, <5>1, <6>1, <6>3 DEF Precedes, SameReport
          <5> QED
            BY <5>2, <5>3
        <4> QED
          BY <4>1, <4>2
      <3> QED
        <4>1. /\ \A i \in 1..Len(pending') :
                    /\ pending'[i].reader = reader'.number
                    /\ pending'[i].epoch <= reader'.epoch
                    /\ pending'[i].revision <= reader'.revision
              /\ \A i \in 1..Len(sent'), j \in 1..Len(pending') : Precedes(sent'[i], pending'[j])
              /\ \A i, j \in 1..Len(pending') : i < j => Precedes(pending'[i], pending'[j])
          BY <1>3
        <4> QED
          BY <1>1, <3>1, <3>2, <4>1 DEF OrderOK, Precedes
    <2> QED
      BY <2>1, <2>2
  <1>13. SumsOK'
    <2>1. reader.source = NoFile => /\ chunk = <<>>
                                    /\ \A i \in 1..Len(sent') : sent'[i].reader # reader.number
      <3> SUFFICES ASSUME reader.source = NoFile, NEW i \in 1..Len(sent')
                   PROVE  sent'[i].reader # reader.number
        BY <1>3
      <3>1. Len(pending) = 0 /\ i \in 1..Len(sent)
        BY <1>5, <1>6, EmptySeq, ReportTypes DEF IInv, SumsOK
      <3> QED
        BY <1>5, <1>6, <3>1 DEF IInv, SumsOK
    <2>2. CASE object = NoObject
      <3>1. sent # <<>> => sent[Len(sent)].object # object
        BY <1>4, <2>2, ReportTypes DEF IInv, OrderOK, NoObject
      <3>2. /\ \A i \in 1..Len(sent) : Mandatory \subseteq Keys(sent[i].totals)
            /\ \A i \in 1..Len(sent) - 1 :
                  sent[i].object = sent[i + 1].object => AddsTo(sent[i], sent[i + 1])
        BY DEF IInv, SumsOK
      <3>3. chunk # <<>> /\ baseline => \A i \in 1..Len(sent) : ~OfReader(sent[i])
        BY DEF IInv, SumsOK
      <3> QED
        BY <1>1, <1>3, <1>5, <2>1, <2>2, <3>1, <3>2, <3>3 DEF SumsOK, AddsTo, OfReader
    <2>3. CASE object # NoObject
      <3>1. \A i \in 1..Len(sent') : Mandatory \subseteq Keys(sent'[i].totals)
        BY <1>7, <2>3 DEF IInv, SumsOK, SameReport
      <3>2. sent' # <<>> /\ OfReader(sent'[Len(sent')]) /\ sent'[Len(sent')].object = object
               => sent'[Len(sent')].totals = reader.totals
        <4> SUFFICES ASSUME sent' # <<>>, OfReader(sent'[Len(sent')]),
                            sent'[Len(sent')].object = object
                     PROVE  sent'[Len(sent')].totals = reader.totals
          OBVIOUS
        <4>1. CASE pending = <<>>
          <5>1. Len(sent') = Len(sent) /\ Len(sent') \in Nat /\ Len(sent') > 0
            BY <1>6, <2>3, <4>1, EmptySeq, ReportTypes
          <5>2. sent # <<>> /\ sent'[Len(sent')] = sent[Len(sent)]
            BY <1>6, <2>3, <5>1, EmptySeq
          <5> QED
            BY <4>1, <5>2 DEF IInv, SumsOK
        <4>2. CASE pending # <<>>
          <5>1. Len(pending) \in 1..Len(pending) /\ Len(sent') = Len(sent) + Len(pending)
            BY <1>6, <2>3, <4>2, ReportTypes
          <5>2. pending[Len(pending)].totals = reader.totals
            BY <4>2 DEF IInv, SumsOK
          <5> QED
            BY <1>6, <2>3, <5>1, <5>2 DEF SameReport
        <4> QED
          BY <4>1, <4>2
      <3>3. \A i \in 1..Len(sent') - 1 :
               sent'[i].object = sent'[i + 1].object => AddsTo(sent'[i], sent'[i + 1])
        <4> SUFFICES ASSUME NEW i \in 1..Len(sent') - 1, sent'[i].object = sent'[i + 1].object
                     PROVE  AddsTo(sent'[i], sent'[i + 1])
          OBVIOUS
        <4>1. Len(sent) \in Nat /\ Len(pending) \in Nat /\ Len(sent') = Len(sent) + Len(pending)
          BY <1>6, <2>3, ReportTypes
        <4>2. CASE i + 1 <= Len(sent)
          <5>1. i \in 1..Len(sent) - 1 /\ i \in 1..Len(sent) /\ i + 1 \in 1..Len(sent)
            BY <4>1, <4>2
          <5> QED
            BY <1>6, <2>3, <5>1 DEF IInv, SumsOK
        <4>3. CASE i = Len(sent)
          <5>1. /\ i \in 1..Len(sent) /\ 1 \in 1..Len(pending) /\ sent # <<>> /\ pending # <<>>
            BY <4>1, <4>3, EmptySeq
          <5>2. sent'[i] = sent[Len(sent)] /\ sent[Len(sent)].object = object
            BY <1>6, <2>3, <4>3, <5>1
          <5>3. AddsTo(sent[Len(sent)], pending[1])
            BY <5>1, <5>2 DEF IInv, SumsOK
          <5> QED
            BY <1>6, <2>3, <4>3, <5>1, <5>2, <5>3 DEF AddsTo, SameReport
        <4>4. CASE i > Len(sent)
          <5>1. PICK k \in 1..Len(pending) - 1 : i = Len(sent) + k
            <6>1. i - Len(sent) \in 1..Len(pending) - 1 /\ i = Len(sent) + (i - Len(sent))
              BY <4>1, <4>4
            <6> QED
              BY <6>1
          <5>2. k \in 1..Len(pending) /\ k + 1 \in 1..Len(pending) /\ i + 1 = Len(sent) + (k + 1)
            BY <4>1, <5>1
          <5>3. AddsTo(pending[k], pending[k + 1])
            BY DEF IInv, SumsOK
          <5> QED
            BY <1>6, <2>3, <5>1, <5>2, <5>3 DEF AddsTo, SameReport
        <4> QED
          BY <4>1, <4>2, <4>3, <4>4
      <3>4. sent' # <<>> /\ sent'[Len(sent')].object = object' =>
               (OfReader(sent[Len(sent)])' => sent'[Len(sent')].totals = reader'.totals)
        BY <1>1, <3>2 DEF OfReader
      <3> QED
        <4>1. /\ \A i \in 1..Len(pending') : Mandatory \subseteq Keys(pending'[i].totals)
              /\ \A i \in 1..Len(pending') - 1 : AddsTo(pending'[i], pending'[i + 1])
          BY <1>3
        <4>2. /\ ~(chunk' # <<>> /\ baseline')
              /\ reader'.source = NoFile =>
                    chunk' = <<>> /\ \A i \in 1..Len(sent') : sent'[i].reader # reader'.number
          BY <1>1, <1>3, <2>1
        <4> QED
          BY <1>1, <3>1, <3>3, <3>4, <4>1, <4>2 DEF SumsOK, AddsTo, OfReader
    <2> QED
      BY <2>2, <2>3
  <1>14. LinesOK'
    <2>1. /\ \A i \in 1..Len(rollout) : Unread(i)' => Unread(i)
      BY <1>1, <1>3 DEF Unread
    <2>2. /\ \A i \in 1..Len(chunk) : chunk[i].id \in 1..written
          /\ \A i, j \in 1..Len(chunk) : i < j => chunk[i].id < chunk[j].id
          /\ \A i \in 1..Len(chunk) : baseline \/ chunk[i].id \notin counted
          /\ \A i \in 1..Len(rollout) :
                Unread(i)' => rollout[i].id \notin counted /\ ~InChunk(rollout[i].id)
      BY <1>3, <2>1 DEF IInv, LinesOK
    <2>3. CASE object = NoObject
      BY <1>1, <1>3, <1>5, <2>2, <2>3 DEF IInv, LinesOK, InChunk
    <2>4. CASE object # NoObject
      <3>1. \A i \in 1..Len(sent') : sent'[i].fresh /\ sent'[i].line \in counted
        <4>1. /\ \A i \in 1..Len(sent) : sent[i].fresh /\ sent[i].line \in counted
              /\ \A i \in 1..Len(pending) : pending[i].fresh /\ pending[i].line \in counted
          BY DEF IInv, LinesOK
        <4> QED
          BY <1>7, <2>4, <4>1, SMTT(30) DEF SameReport
      <3>2. \A i, j \in 1..Len(sent') : i < j => sent'[i].line # sent'[j].line
        <4> SUFFICES ASSUME NEW i \in 1..Len(sent'), NEW j \in 1..Len(sent'), i < j
                     PROVE  sent'[i].line # sent'[j].line
          OBVIOUS
        <4>1. CASE j \in 1..Len(sent)
          <5>1. i \in 1..Len(sent)
            BY <4>1, ReportTypes
          <5> QED
            BY <1>6, <2>4, <4>1, <5>1 DEF IInv, LinesOK
        <4>2. CASE j \notin 1..Len(sent)
          <5>1. PICK k \in 1..Len(pending) : j = Len(sent) + k
            BY <1>7, <2>4, <4>2
          <5>2. CASE i \in 1..Len(sent)
            <6>1. sent[i].line # pending[k].line
              BY <5>1, <5>2 DEF IInv, LinesOK
            <6> QED
              BY <1>6, <2>4, <5>1, <5>2, <6>1 DEF SameReport
          <5>3. CASE i \notin 1..Len(sent)
            <6>1. PICK m \in 1..Len(pending) : i = Len(sent) + m
              BY <1>7, <2>4, <5>3
            <6>2. m < k
              BY <5>1, <6>1, ReportTypes
            <6> QED
              BY <1>6, <2>4, <5>1, <6>1, <6>2 DEF IInv, LinesOK, SameReport
          <5> QED
            BY <5>2, <5>3
        <4> QED
          BY <4>1, <4>2
      <3> QED
        BY <1>1, <1>3, <2>2, <3>1, <3>2 DEF LinesOK, InChunk
    <2> QED
      BY <2>3, <2>4
  <1>15. ~Unnoticed => FilesOK'
    <2> SUFFICES ASSUME ~Unnoticed PROVE FilesOK'
      OBVIOUS
    <2>1. ~Noticeable(Length)' => reader'.file = rewrites'
      BY <1>1, <1>3 DEF IInv, FilesOK, Noticeable, Length, Halves
    <2>2. CASE object = NoObject
      BY <1>1, <1>3, <1>5, <2>1, <2>2 DEF IInv, FilesOK, SameFile, OfReader
    <2>3. CASE object # NoObject
      <3>1. \A i \in 1..Len(sent') : OfReader(sent'[i]) => sent'[i].file = reader.file
        <4>1. /\ \A i \in 1..Len(sent) : OfReader(sent[i]) => sent[i].file = reader.file
              /\ \A i \in 1..Len(pending) : OfReader(pending[i]) => pending[i].file = reader.file
          BY DEF IInv, FilesOK
        <4> SUFFICES ASSUME NEW i \in 1..Len(sent'), OfReader(sent'[i])
                     PROVE  sent'[i].file = reader.file
          OBVIOUS
        <4>2. CASE i \in 1..Len(sent)
          BY <1>7, <2>3, <4>1, <4>2 DEF OfReader
        <4>3. CASE i \notin 1..Len(sent)
          <5>1. PICK m \in 1..Len(pending) : SameReport(sent'[i], pending[m])
            BY <1>7, <2>3, <4>3
          <5> QED
            BY <4>1, <5>1 DEF OfReader, SameReport
        <4> QED
          BY <4>2, <4>3
      <3>2. \A i, j \in 1..Len(sent') : SameFile(sent'[i], sent'[j])
        <4> SUFFICES ASSUME NEW i \in 1..Len(sent'), NEW j \in 1..Len(sent')
                     PROVE  SameFile(sent'[i], sent'[j])
          OBVIOUS
        <4>1. ASSUME NEW k \in 1..Len(sent'), k \notin 1..Len(sent)
              PROVE  \E m \in 1..Len(pending) : SameReport(sent'[k], pending[m])
          BY <1>7, <2>3, <4>1
        <4>2. CASE i \in 1..Len(sent) /\ j \in 1..Len(sent)
          BY <1>6, <2>3, <4>2 DEF IInv, FilesOK
        <4>3. CASE i \in 1..Len(sent) /\ j \notin 1..Len(sent)
          <5>1. PICK m \in 1..Len(pending) : SameReport(sent'[j], pending[m])
            BY <4>1, <4>3
          <5>2. SameFile(sent[i], pending[m])
            BY <4>3 DEF IInv, FilesOK
          <5> QED
            BY <1>6, <2>3, <4>3, <5>1, <5>2 DEF SameFile, SameReport
        <4>4. CASE i \notin 1..Len(sent) /\ j \in 1..Len(sent)
          <5>1. PICK m \in 1..Len(pending) : SameReport(sent'[i], pending[m])
            BY <4>1, <4>4
          <5>2. SameFile(sent[j], pending[m])
            BY <4>4 DEF IInv, FilesOK
          <5> QED
            BY <1>6, <2>3, <4>4, <5>1, <5>2 DEF SameFile, SameReport
        <4>5. CASE i \notin 1..Len(sent) /\ j \notin 1..Len(sent)
          <5>1. PICK k \in 1..Len(pending) : SameReport(sent'[i], pending[k])
            BY <4>1, <4>5
          <5>2. PICK m \in 1..Len(pending) : SameReport(sent'[j], pending[m])
            BY <4>1, <4>5
          <5>3. SameFile(pending[k], pending[m])
            BY DEF IInv, FilesOK
          <5> QED
            BY <5>1, <5>2, <5>3 DEF SameFile, SameReport
        <4> QED
          BY <4>2, <4>3, <4>4, <4>5
      <3> QED
        <4>1. /\ \A i \in 1..Len(pending') : OfReader(pending'[i]) => pending'[i].file = reader.file
              /\ \A i \in 1..Len(sent'), j \in 1..Len(pending') : SameFile(sent'[i], pending'[j])
              /\ \A i, j \in 1..Len(pending') : SameFile(pending'[i], pending'[j])
          BY <1>3
        <4> QED
          BY <1>1, <2>1, <3>1, <3>2, <4>1 DEF FilesOK, OfReader, SameFile
    <2> QED
      BY <2>2, <2>3
  <1> QED
    BY <1>8, <1>9, <1>10, <1>11, <1>12, <1>13, <1>14, <1>15 DEF IInv

-----------------------------------------------------------------------------
(* Steps that change nothing. *)
LEMMA StutterIInv ==
    ASSUME IInv, UNCHANGED vars
    PROVE  IInv'
  <1> USE DEF vars
  <1>1. TypeOK'
    BY DEF IInv, TypeOK
  <1>2. FileOK' /\ ControlOK' /\ ShownOK'
    BY FileFrame, ControlFrame, ShownFrame DEF IInv
  <1>3. OrderOK' /\ SumsOK' /\ LinesOK'
    BY OrderFrame, SumsFrame, LinesFrame DEF IInv
  <1>4. ~Unnoticed => FilesOK'
    BY FilesFrame DEF IInv
  <1> QED
    BY <1>1, <1>2, <1>3, <1>4 DEF IInv

(* The invariant is inductive. *)
LEMMA NextIInv == IInv /\ [Next]_vars => IInv'
  <1> SUFFICES ASSUME IInv, [Next]_vars PROVE IInv'
    OBVIOUS
  <1>1. CASE Agent
    BY <1>1, AppendLineIInv, FinishLineIInv, TruncateIInv, ReplaceIInv DEF Agent
  <1>2. ASSUME NEW h \in Hook, Handle(h) PROVE IInv'
    BY <1>2, ReadForHookIInv, UpdateSessionIInv, ApplyUsageIInv, VanishIInv DEF Handle
  <1>3. ASSUME NEW t \in Task, Step(t) PROVE IInv'
    BY <1>3, ParseLineIInv, EmitIInv, ReadForDrainIInv, RefreshSessionIInv DEF Step, Drain
  <1>4. CASE Notice
    BY <1>4, NoticeIInv
  <1>5. CASE UNCHANGED vars
    BY <1>5, StutterIInv
  <1> QED
    BY <1>1, <1>2, <1>3, <1>4, <1>5 DEF Next

LEMMA Invariance == Spec => []IInv
  BY InitIInv, NextIInv, PTL DEF Spec
-----------------------------------------------------------------------------
(* The state stays of its type, whatever the file does                     *)
(* (telemetry.rs: the reader and its parser).                              *)
THEOREM TypeCorrect == Spec => []TypeOK
  <1>1. IInv => TypeOK
    BY DEF IInv
  <1> QED
    BY <1>1, Invariance, PTL

(* What is published is what was parsed last (telemetry.rs 216-229: the    *)
(* lock is held until the session has been updated).                       *)
THEOREM ShownIsCurrent == Spec => []ShownIsParsed
  <1>1. IInv => ShownIsParsed
    BY DEF IInv, ShownOK, ShownIsParsed
  <1> QED
    BY <1>1, Invariance, PTL

(* Increments add up to the totals, also across readings, resets and       *)
(* readings whose reports were lost (telemetry.rs 71-90).                  *)
THEOREM IncrementsAddUp == Spec => []DeltasAddUp
  <1>1. IInv => DeltasAddUp
    <2> SUFFICES ASSUME IInv, NEW i \in 1..Len(sent), Successive(i)
                 PROVE  AddsTo(sent[i], sent[i + 1])
      BY DEF DeltasAddUp, AddsTo
    <2> QED
      BY DEF Successive, IInv, SumsOK
  <1> QED
    BY <1>1, Invariance, PTL

(* Reports of a reader come in the order of their epochs and revisions,    *)
(* though hooks, removals and the watcher emit them.                       *)
THEOREM ReportsComeInOrder == Spec => []ReportsInOrder
  <1>1. IInv => ReportsInOrder
    BY DEF IInv, OrderOK, Precedes, ReportsInOrder
  <1> QED
    BY <1>1, Invariance, PTL

(* If a truncated file is read before it has outgrown the offset again,    *)
(* no epoch spans a truncation or a replacement (README.md 401).           *)
THEOREM EpochsKeepToFiles ==
    ASSUME ~Unnoticed
    PROVE  Spec => []EpochKeepsToFile
  <1>1. IInv => EpochKeepsToFile
    BY DEF IInv, FilesOK, SameFile, EpochKeepsToFile
  <1> QED
    BY <1>1, Invariance, PTL
-----------------------------------------------------------------------------
(* History: lines that were there, in full, when the reader was made or    *)
(* the file was last rewritten.  A line that no reader has read is none,   *)
(* and only those, and what a reading made of them, are ever news.         *)
SinceOK ==
    /\ since <= written - (IF half THEN 1 ELSE 0)
    /\ half => rollout[Len(rollout)].id = written
    /\ \A i \in 1..Len(rollout) : Unread(i) => rollout[i].id > since
    /\ baseline \/ \A i \in 1..Len(chunk) : chunk[i].id > past
    /\ \A i \in 1..Len(pending) : pending[i].line > pending[i].since
    /\ \A i \in 1..Len(sent) : sent[i].line > sent[i].since

LEMMA InitSince == Init => SinceOK
  <1> SUFFICES ASSUME Init PROVE SinceOK
    OBVIOUS
  <1>1. /\ since = 0 /\ written = 0 /\ ~half /\ ~baseline
        /\ Len(rollout) = 0 /\ Len(chunk) = 0 /\ Len(pending) = 0 /\ Len(sent) = 0
    BY EmptySeq DEF Init
  <1> QED
    BY <1>1 DEF SinceOK

(* A step that neither writes, reads nor parses, and emits nothing. *)
LEMMA QuietSince ==
    ASSUME SinceOK, UNCHANGED <<fileVars, tracked, reader, chunk, baseline, past, sent>>,
           pending' = pending \/ pending' = <<>>
    PROVE  SinceOK'
  <1>1. UNCHANGED <<rollout, half, source, written, since>>
    BY DEF fileVars
  <1>2. \A i \in 1..Len(pending') : i \in 1..Len(pending) /\ pending'[i] = pending[i]
    BY EmptySeq
  <1> QED
    BY <1>1, <1>2 DEF SinceOK, Unread

(* A line is appended after all that were there. *)
LEMMA AppendLineSince ==
    ASSUME IInv, SinceOK, AppendLine
    PROVE  SinceOK'
  <1> DEFINE line == [id |-> written + 1, usage |-> script[written + 1]]
  <1>1. PICK cut \in BOOLEAN : rollout' = Append(rollout, line) /\ half' = cut
    BY DEF AppendLine, Grow
  <1>2. /\ source' = IF source = NoFile THEN 1 ELSE source
        /\ UNCHANGED <<since, tracked, reader, chunk, baseline, past, pending, sent>>
        /\ ~half /\ written < MaxLine /\ written' = written + 1
    BY DEF AppendLine, Grow, readVars
  <1>3. written \in Nat /\ since \in Nat /\ written' \in 1..MaxLine /\ line \in Line
    BY <1>2, TelemetryAssumption DEF IInv, TypeOK, Line
  <1>4. /\ rollout \in Seq(Line) /\ Len(rollout) \in Nat /\ Len(rollout') = Len(rollout) + 1
        /\ \A i \in 1..Len(rollout) : rollout'[i] = rollout[i]
        /\ rollout'[Len(rollout')] = line /\ line.id = written + 1
    BY <1>1, <1>3, AppendProperties, LenProperties DEF IInv, TypeOK
  <1> HIDE DEF line
  <1>5. since <= written
    BY <1>2, <1>3 DEF SinceOK
  <1>6. \A i \in 1..Len(rollout') : Unread(i)' => rollout'[i].id > since
    <2> SUFFICES ASSUME NEW i \in 1..Len(rollout'), Unread(i)'
                 PROVE  rollout'[i].id > since
      BY DEF Unread
    <2>1. CASE i = Len(rollout')
      BY <1>3, <1>4, <1>5, <2>1
    <2>2. CASE i # Len(rollout')
      <3>1. i \in 1..Len(rollout)
        BY <1>4, <2>2
      <3>2. source # NoFile
        BY <3>1, EmptySeq DEF IInv, FileOK
      <3>3. tracked /\ reader.source = source /\ 2 * i > reader.offset
        BY <1>2, <2>2, <3>2 DEF Unread
      <3> QED
        BY <1>4, <3>1, <3>3 DEF SinceOK, Unread
    <2> QED
      BY <2>1, <2>2
  <1>7. since <= written' - (IF half' THEN 1 ELSE 0)
    BY <1>2, <1>3, <1>5
  <1>8. half' => rollout'[Len(rollout')].id = written'
    BY <1>2, <1>4
  <1> QED
    BY <1>2, <1>6, <1>7, <1>8 DEF SinceOK

(* The rest of a line was not there in full. *)
LEMMA FinishLineSince ==
    ASSUME IInv, SinceOK, FinishLine
    PROVE  SinceOK'
  <1>1. /\ half /\ half' = FALSE
        /\ UNCHANGED <<rollout, written, since>>
        /\ UNCHANGED <<tracked, reader, chunk, baseline, past, pending, sent>>
        /\ source' = IF source = NoFile THEN 1 ELSE source
    BY DEF FinishLine, Grow, readVars
  <1>2. source' = source
    BY <1>1 DEF IInv, FileOK
  <1>3. since' <= written' - (IF half' THEN 1 ELSE 0)
    <2>1. written \in Nat /\ since \in Nat
      BY DEF IInv, TypeOK
    <2> QED
      BY <1>1, <2>1 DEF SinceOK
  <1>4. \A i \in 1..Len(rollout) : Unread(i)' => Unread(i)
    BY <1>1, <1>2 DEF Unread
  <1> QED
    BY <1>1, <1>3, <1>4 DEF SinceOK

(* After a rewriting every line that is left is history, and read again.   *)
LEMMA RewriteSince ==
    ASSUME IInv, SinceOK, NEW n \in 0..Len(rollout),
           rollout' = SubSeq(rollout, 1, n), half' = FALSE, written' = written, since' = written,
           UNCHANGED <<tracked, reader, chunk, baseline, past, pending, sent>>,
           \/ source' = source /\ Noticeable(2 * n)
           \/ source' = source + 1
    PROVE  SinceOK'
  <1>1. /\ rollout \in Seq(Line) /\ Len(rollout) \in Nat /\ n \in Nat /\ n <= Len(rollout)
        /\ \A i \in 1..n : rollout[i] \in Line
    BY LenProperties, ElementOfSeq DEF IInv, TypeOK
  <1>2. Len(rollout') = n
    BY <1>1, SubSeqProperties
  <1>3. source \in Nat /\ reader.source \in Nat /\ reader.source <= source /\ written \in Nat
    BY DEF IInv, TypeOK, FileOK, Reader
  <1>4. \A i \in 1..n : ~Unread(i)'
    <2> SUFFICES ASSUME NEW i \in 1..n, tracked, reader.source = source', 2 * i > reader.offset
                 PROVE  FALSE
      BY DEF Unread
    <2>1. source' # source + 1
      BY <1>3
    <2>2. source' = source /\ Noticeable(2 * n)
      BY <2>1
    <2>3. 2 * n < reader.offset
      BY <2>2 DEF Noticeable
    <2>4. reader.offset \in Nat
      BY DEF IInv, TypeOK, Reader
    <2> QED
      BY <1>1, <2>3, <2>4
  <1> QED
    BY <1>2, <1>3, <1>4 DEF SinceOK

(* A reading takes lines that were unread, or a baseline. *)
LEMMA ReadSince ==
    ASSUME IInv, SinceOK, NEW r, Candidate(r), ReadInto(r), lock = NoTask,
           tracked', past' = since',
           \/ r = reader /\ tracked /\ since' = since
           \/ ~tracked /\ since' = written - (IF half THEN 1 ELSE 0),
           UNCHANGED <<rollout, half, source, written, pending, sent>>
    PROVE  SinceOK'
  <1>1. NothingRead(r) \/ BaselineRead(r) \/ NewsRead(r)
    BY ReadKinds
  <1>2. /\ since \in Nat /\ written \in Nat /\ reader \in Reader /\ reader.offset \in Nat
        /\ Len(rollout) \in Nat
    BY LenProperties DEF IInv, TypeOK, Reader
  <1>3. \A i \in 1..Len(rollout) : rollout[i].id \in Nat
    BY DEF IInv, FileOK
  <1>4. since' <= written - (IF half THEN 1 ELSE 0)
    BY <1>2 DEF SinceOK
  <1>5. half => rollout[Len(rollout)].id > since'
    <2> SUFFICES ASSUME half PROVE rollout[Len(rollout)].id > since'
      OBVIOUS
    <2>1. rollout[Len(rollout)].id = written
      BY DEF SinceOK
    <2>2. since' <= written - 1 /\ since' \in Int
      BY <1>2, <1>4
    <2> QED
      BY <1>2, <2>1, <2>2
  <1>6. \A i \in 1..Len(rollout) : Unread(i)' => rollout[i].id > since'
    <2> SUFFICES ASSUME NEW i \in 1..Len(rollout), Unread(i)'
                 PROVE  rollout[i].id > since'
      BY DEF Unread
    <2>1. CASE half /\ i = Len(rollout)
      BY <1>5, <2>1
    <2>2. CASE ~(half /\ i = Len(rollout))
      <3>1. reader'.source = source /\ 2 * i > reader'.offset
        BY <2>2 DEF Unread
      <3>2. source # NoFile
        BY <1>2, EmptySeq DEF IInv, FileOK
      <3>3. reader'.offset = Length
        BY <1>1, <3>2 DEF NothingRead, BaselineRead, NewsRead, ReadSome
      <3>4. Length = 2 * Len(rollout) - (IF half THEN 1 ELSE 0)
        BY DEF Length, Halves
      <3> QED
        BY <1>2, <2>2, <3>1, <3>3, <3>4
    <2> QED
      BY <2>1, <2>2
  <1>7. baseline' \/ \A i \in 1..Len(chunk') : chunk'[i].id > past'
    <2>1. CASE NothingRead(r)
      <3>1. Len(chunk') = 0
        BY <2>1, EmptySeq DEF NothingRead
      <3> QED
        BY <3>1
    <2>2. CASE BaselineRead(r)
      BY <2>2 DEF BaselineRead
    <2>3. CASE NewsRead(r)
      <3>1. /\ r = reader /\ tracked /\ reader.source = source /\ since' = since
            /\ \A i \in 1..Len(chunk') :
                  /\ reader.offset \div 2 + i \in 1..Len(rollout)
                  /\ chunk'[i].id = rollout[reader.offset \div 2 + i].id
        BY <2>3 DEF NewsRead, ReadSome
      <3> SUFFICES ASSUME NEW i \in 1..Len(chunk') PROVE chunk'[i].id > since
        BY <3>1
      <3>2. Len(chunk') \in Nat /\ i \in Nat /\ i >= 1
        BY ReadKinds, LenProperties
      <3>3. 2 * (reader.offset \div 2 + i) > reader.offset
        BY <1>2, <3>2
      <3> QED
        BY <3>1, <3>3 DEF SinceOK, Unread
    <2> QED
      BY <1>1, <2>1, <2>2, <2>3
  <1> QED
    BY <1>4, <1>6, <1>7 DEF SinceOK

(* A hook reads with a new reader or with the one of the map. *)
LEMMA ReadForHookSince ==
    ASSUME IInv, SinceOK, NEW h \in Hook, ReadForHook(h)
    PROVE  SinceOK'
  <1> DEFINE r == IF tracked THEN reader ELSE NewReader(reader.number + 1)
  <1>1. Candidate(r)
    BY DEF Candidate
  <1>2. /\ lock = NoTask /\ tracked' /\ ReadInto(r) /\ past' = since'
        /\ since' = IF tracked THEN since ELSE written - (IF half THEN 1 ELSE 0)
        /\ UNCHANGED <<rollout, half, source, written, pending, sent>>
    BY DEF ReadForHook
  <1>3. \/ r = reader /\ tracked /\ since' = since
        \/ ~tracked /\ since' = written - (IF half THEN 1 ELSE 0)
    BY <1>2
  <1> QED
    BY <1>1, <1>2, <1>3, ReadSince

(* A removal and the watcher read with the one of the map, if any. *)
LEMMA ReadForDrainSince ==
    ASSUME IInv, SinceOK, NEW t \in Task, ReadForDrain(t)
    PROVE  SinceOK'
  <1>1. CASE tracked
    <2>1. Candidate(reader)
      BY <1>1 DEF Candidate
    <2>2. /\ lock = NoTask /\ ReadInto(reader) /\ past' = since /\ tracked' = tracked
          /\ UNCHANGED <<rollout, half, source, written, since, pending, sent>>
      BY <1>1 DEF ReadForDrain, fileVars
    <2> QED
      BY <1>1, <2>1, <2>2, ReadSince
  <1>2. CASE ~tracked
    BY <1>2, QuietSince DEF ReadForDrain
  <1> QED
    BY <1>1, <1>2

(* A report is of the first line of the chunk. *)
LEMMA ParseLineSince ==
    ASSUME IInv, SinceOK, NEW t \in Task, ParseLine(t)
    PROVE  SinceOK'
  <1>1. /\ Len(chunk) \in Nat /\ Len(chunk) > 0 /\ Len(chunk') = Len(chunk) - 1
        /\ \A i \in 1..Len(chunk') : chunk'[i] = chunk[i + 1]
        /\ \/ reader' = reader /\ pending' = pending
           \/ Observed /\ baseline /\ pending' = pending
           \/ Observed /\ ~baseline /\ \E rep \in Report : Reported(rep)
    BY ParseKinds
  <1>2. UNCHANGED <<rollout, half, source, written, since, tracked, baseline, past, sent>>
    BY DEF ParseLine, fileVars
  <1>3. reader'.source = reader.source /\ reader'.offset = reader.offset
    BY <1>1 DEF Observed
  <1>4. \A i \in 1..Len(rollout) : Unread(i)' => Unread(i)
    BY <1>2, <1>3 DEF Unread
  <1>5. baseline \/ \A i \in 1..Len(chunk') : chunk'[i].id > past
    <2>1. \A i \in 1..Len(chunk') : i + 1 \in 1..Len(chunk)
      BY <1>1
    <2> QED
      BY <1>1, <2>1 DEF SinceOK
  <1>6. \A i \in 1..Len(pending') : pending'[i].line > pending'[i].since
    <2>1. CASE pending' = pending
      BY <2>1 DEF SinceOK
    <2>2. ASSUME ~baseline, NEW rep \in Report, Reported(rep)
          PROVE  \A i \in 1..Len(pending') : pending'[i].line > pending'[i].since
      <3>1. /\ pending \in Seq(Report) /\ Len(pending) \in Nat
            /\ Len(pending') = Len(pending) + 1 /\ pending'[Len(pending) + 1] = rep
            /\ \A i \in 1..Len(pending) : pending'[i] = pending[i]
        BY <2>2, AppendProperties, LenProperties DEF Reported, IInv, TypeOK
      <3>2. rep.line > rep.since
        <4>1. 1 \in 1..Len(chunk)
          BY <1>1
        <4>2. chunk[1].id > past
          BY <2>2, <4>1 DEF SinceOK
        <4> QED
          BY <2>2, <4>2 DEF Reported
      <3> SUFFICES ASSUME NEW i \in 1..Len(pending')
                   PROVE  pending'[i].line > pending'[i].since
        OBVIOUS
      <3>3. i \in 1..Len(pending) \/ i = Len(pending) + 1
        BY <3>1
      <3> QED
        BY <3>1, <3>2, <3>3 DEF SinceOK
    <2> QED
      BY <1>1, <2>1, <2>2
  <1> QED
    BY <1>2, <1>4, <1>5, <1>6 DEF SinceOK

(* What is emitted was pending. *)
LEMMA EmitSince ==
    ASSUME IInv, SinceOK, NEW t \in Task, Emit(t)
    PROVE  SinceOK'
  <1>1. /\ UNCHANGED <<rollout, half, source, written, since, reader, chunk, baseline, past>>
        /\ pending' = <<>> /\ Len(pending') = 0 /\ tracked' \in {tracked, FALSE}
        /\ sent' = IF object = NoObject THEN sent
                   ELSE sent \o [i \in 1..Len(pending) |-> [pending[i] EXCEPT !.object = object]]
    BY EmptySeq DEF Emit, fileVars
  <1>2. \A i \in 1..Len(rollout) : Unread(i)' => Unread(i)
    BY <1>1 DEF Unread
  <1>3. \A i \in 1..Len(sent') : sent'[i].line > sent'[i].since
    <2>1. CASE object = NoObject
      BY <1>1, <2>1 DEF SinceOK
    <2>2. CASE object # NoObject
      <3>1. /\ Len(sent') = Len(sent) + Len(pending)
            /\ \A i \in 1..Len(sent) : sent'[i] = sent[i]
            /\ \A i \in 1..Len(pending) : SameReport(sent'[Len(sent) + i], pending[i])
        BY <1>1, <2>2, Concatenated DEF IInv, TypeOK
      <3> SUFFICES ASSUME NEW i \in 1..Len(sent') PROVE sent'[i].line > sent'[i].since
        OBVIOUS
      <3>2. Len(sent) \in Nat /\ Len(pending) \in Nat
        BY ReportTypes
      <3>3. CASE i \in 1..Len(sent)
        BY <3>1, <3>3 DEF SinceOK
      <3>4. CASE i \notin 1..Len(sent)
        <4> DEFINE m == i - Len(sent)
        <4>1. i \in Nat /\ 1 <= i /\ i <= Len(sent) + Len(pending)
          BY <3>1, <3>2
        <4>2. m \in 1..Len(pending) /\ i = Len(sent) + m
          BY <3>2, <3>4, <4>1
        <4> HIDE DEF m
        <4>3. SameReport(sent'[i], pending[m])
          BY <3>1, <4>2
        <4>4. pending[m].line > pending[m].since
          BY <4>2 DEF SinceOK
        <4> QED
          BY <4>3, <4>4 DEF SameReport
      <3> QED
        BY <3>3, <3>4
    <2> QED
      BY <2>1, <2>2
  <1> QED
    BY <1>1, <1>2, <1>3 DEF SinceOK

(* Every step. *)
LEMMA NextSince == IInv /\ SinceOK /\ [Next]_vars => SinceOK'
  <1> SUFFICES ASSUME IInv, SinceOK, [Next]_vars PROVE SinceOK'
    OBVIOUS
  <1>1. CASE Truncate
    <2>1. PICK n \in 0..Len(rollout) - 1 : Noticeable(2 * n) /\ rollout' = SubSeq(rollout, 1, n)
      BY <1>1 DEF Truncate
    <2>2. n \in 0..Len(rollout)
      BY LenProperties DEF IInv, TypeOK
    <2> QED
      BY <1>1, <2>1, <2>2, RewriteSince DEF Truncate, readVars
  <1>2. CASE Replace
    <2>1. PICK n \in 0..Len(rollout) : rollout' = SubSeq(rollout, 1, n)
      BY <1>2 DEF Replace
    <2> QED
      BY <1>2, <2>1, RewriteSince DEF Replace, readVars
  <1>3. ASSUME NEW h \in Hook, Handle(h) PROVE SinceOK'
    <2>1. CASE ReadForHook(h)
      BY <2>1, ReadForHookSince
    <2>2. CASE UpdateSession(h) \/ ApplyUsage(h) \/ Vanish(h)
      BY <2>2, QuietSince DEF UpdateSession, ApplyUsage, Vanish, readVars
    <2> QED
      BY <1>3, <2>1, <2>2 DEF Handle
  <1>4. ASSUME NEW t \in Task, Step(t) PROVE SinceOK'
    <2>1. CASE RefreshSession(t)
      BY <2>1, QuietSince DEF RefreshSession, readVars
    <2> QED
      BY <1>4, <2>1, ParseLineSince, EmitSince, ReadForDrainSince DEF Step, Drain
  <1>5. CASE Notice
    BY <1>5, QuietSince DEF Notice, readVars
  <1>6. CASE UNCHANGED vars
    BY <1>6, QuietSince DEF vars, fileVars
  <1> QED
    BY <1>1, <1>2, <1>3, <1>4, <1>5, <1>6, AppendLineSince, FinishLineSince DEF Next, Agent

(* History is not replayed: every report is of a line that was finished    *)
(* after the reader was made and after the file was last truncated or      *)
(* replaced, that no reader had parsed, and that no other report is of     *)
(* (telemetry.rs 143-190: offsets, fragments and baselines together).      *)
THEOREM HistoryIsNotReplayed == Spec => []NothingReplayed
  <1>1. Init => IInv /\ SinceOK
    BY InitIInv, InitSince
  <1>2. (IInv /\ SinceOK) /\ [Next]_vars => (IInv /\ SinceOK)'
    BY NextIInv, NextSince
  <1>3. IInv /\ SinceOK => NothingReplayed
    <2> SUFFICES ASSUME IInv, SinceOK PROVE NothingReplayed
      OBVIOUS
    <2>1. \A i \in 1..Len(sent) : sent[i].line > sent[i].since /\ sent[i].fresh
      BY DEF IInv, LinesOK, SinceOK
    <2>2. ASSUME NEW i \in 1..Len(sent), NEW j \in 1..Len(sent), i # j
          PROVE  sent[i].line # sent[j].line
      <3>1. i < j \/ j < i
        BY <2>2, ReportTypes
      <3> QED
        BY <3>1 DEF IInv, LinesOK
    <2> QED
      BY <2>1, <2>2 DEF NothingReplayed
  <1> QED
    BY <1>1, <1>2, <1>3, PTL DEF Spec
-----------------------------------------------------------------------------
(* Following the file: what the parser knows is what the lines say.        *)
Full(line) == Mandatory \subseteq Keys(line.usage)

(* Of the first n lines, the last that carries the mandatory counters has  *)
(* v, or none does.                                                        *)
IsLatest(lines, v, n) ==
    \/ v = None /\ \A i \in 1..n : ~Full(lines[i])
    \/ \E i \in 1..n : /\ Full(lines[i]) /\ v = lines[i].usage
                       /\ \A j \in 1..n : Full(lines[j]) => j <= i

Read == reader.offset \div 2

(* While nothing tells the reader that the file is another one, what it    *)
(* holds is of this file: its fragment, the lines it has yet to parse, and *)
(* the totals of those before them.                                        *)
Followed ==
    /\ reader.offset % 2 = 1 => reader.fragment = rollout[Read + 1].id
    /\ Len(chunk) <= Read
    /\ \A i \in 1..Len(chunk) : chunk[i].usage = rollout[Read - Len(chunk) + i].usage
    /\ IsLatest(rollout, reader.totals, Read - Len(chunk))

(* With no notification under way, the reader has read the whole file.     *)
Restful == tracked /\ ~notified /\ pc[Watcher] # "drain"
ReadAll == ~Noticeable(Length) /\ reader.offset = Length

FollowOK ==
    /\ reader.source = NoFile => reader.totals = None
    /\ ~Noticeable(Length) => Followed
    /\ Restful => ReadAll

(* telemetry.rs 271-282, at rest: a session whose file has been quiet      *)
(* since the watcher last looked shows the newest counters in it.          *)
SettledIsCurrent ==
    lock = NoTask /\ Restful /\ object # NoObject => shown.totals = Current

LEMMA FollowInit == Init => FollowOK
  <1> SUFFICES ASSUME Init PROVE FollowOK
    OBVIOUS
  <1>1. reader.totals = None /\ ~tracked
    BY DEF Init, NewReader
  <1> QED
    BY <1>1 DEF FollowOK, Noticeable, Restful

LEMMA FollowSettles == IInv /\ FollowOK => SettledIsCurrent
  <1> SUFFICES ASSUME IInv, FollowOK, lock = NoTask, Restful, object # NoObject
               PROVE  shown.totals = Current
    BY DEF SettledIsCurrent
  <1>1. shown.totals = reader.totals /\ chunk = <<>>
    BY DEF IInv, ControlOK, ShownOK, Restful, Parsed
  <1>2. reader.offset = Length /\ Followed
    BY DEF FollowOK, ReadAll
  <1>3. Len(chunk) = 0 /\ Length \div 2 \in Nat
    BY <1>1, LengthType, EmptySeq DEF IInv
  <1>4. IsLatest(rollout, reader.totals, Length \div 2)
    BY <1>2, <1>3 DEF Followed, Read
  <1> DEFINE n == Length \div 2
             lines == {i \in 1..n : Mandatory \subseteq Keys(rollout[i].usage)}
  <1>5. lines = {i \in 1..n : Full(rollout[i])}
    BY DEF Full
  <1> HIDE DEF n
  <1>6. CASE lines = {}
    <2>1. reader.totals = None
      BY <1>4, <1>5, <1>6 DEF IsLatest, n
    <2> QED
      BY <1>1, <1>6, <2>1 DEF Current, n
  <1>7. CASE lines # {}
    <2>1. PICK i \in lines : reader.totals = rollout[i].usage /\ \A j \in lines : j <= i
      BY <1>4, <1>5, <1>7 DEF IsLatest, n
    <2>2. \A k \in lines : (\A j \in lines : j <= k) => k = i
      <3>1. lines \subseteq Int
        BY <1>3 DEF n
      <3> HIDE DEF lines
      <3> QED
        BY <2>1, <3>1
    <2> HIDE DEF lines
    <2>3. i = CHOOSE k \in lines : \A j \in lines : j <= k
      BY <2>1, <2>2
    <2>4. Current = rollout[CHOOSE k \in lines : \A j \in lines : j <= k].usage
      BY <1>7 DEF Current, n, lines
    <2> QED
      BY <1>1, <2>1, <2>3, <2>4
  <1> QED
    BY <1>6, <1>7

(* A step that leaves the file and the reader alone. *)
LEMMA QuietFollow ==
    ASSUME FollowOK, UNCHANGED <<fileVars, reader, chunk>>, tracked' => tracked,
           Restful' => Restful
    PROVE  FollowOK'
  <1>1. UNCHANGED <<rollout, half, source>> /\ Length' = Length
    BY DEF fileVars, Length, Halves
  <1>2. ~Noticeable(Length)' => ~Noticeable(Length)
    BY <1>1 DEF Noticeable
  <1>3. Followed => Followed'
    BY <1>1 DEF Followed, Read, IsLatest
  <1>4. Restful' => ReadAll'
    <2> SUFFICES ASSUME Restful' PROVE ReadAll'
      OBVIOUS
    <2>1. ReadAll /\ tracked'
      BY DEF FollowOK, Restful
    <2> QED
      BY <1>1, <2>1 DEF ReadAll, Noticeable
  <1> QED
    BY <1>2, <1>3, <1>4 DEF FollowOK

-----------------------------------------------------------------------------
(* Whole lines and the half of one. *)
LEMMA Halving ==
    ASSUME NEW k \in Nat
    PROVE  /\ k \div 2 \in Nat
           /\ k % 2 \in {0, 1}
           /\ k = 2 * (k \div 2) + (k % 2)
  OBVIOUS

(* The agent notifies whatever it does. *)
LEMMA GrowFollow ==
    ASSUME IInv, FollowOK, ~Unnoticed, NEW lines \in Seq(Line), NEW cut \in BOOLEAN,
           Grow(lines, cut), rollout = <<>> \/ source # NoFile,
           Len(lines) >= Len(rollout), \A i \in 1..Len(rollout) : lines[i] = rollout[i]
    PROVE  FollowOK'
  <1>1. /\ rollout' = lines /\ half' = cut /\ notified' = TRUE /\ reader' = reader
        /\ chunk' = chunk /\ tracked' = tracked
        /\ source' = IF source = NoFile THEN 1 ELSE source
        /\ Noticeable(Length) => Noticeable(Halves(lines, cut))
    BY DEF Grow, readVars
  <1>2. Length' = Halves(lines, cut)
    BY <1>1 DEF Length
  <1>3. ~Noticeable(Length)' => ~Noticeable(Length) /\ source # NoFile
    <2>1. CASE source = NoFile
      <3>1. reader.source = NoFile /\ source' = 1
        BY <1>1, <2>1 DEF IInv, TypeOK, FileOK, Reader, NoFile
      <3> QED
        BY <1>1, <3>1 DEF Noticeable, NoFile
    <2>2. CASE source # NoFile
      BY <1>1, <1>2, <2>2 DEF Noticeable
    <2> QED
      BY <2>1, <2>2
  <1>4. ASSUME ~Noticeable(Length), Followed PROVE Followed'
    <2>1. reader.offset <= Length /\ reader.offset \in Nat /\ Len(chunk) \in Nat
      <3>1. TypeOK /\ FileOK
        BY DEF IInv
      <3>2. reader.offset \in Nat /\ chunk \in Seq(Line)
        BY <3>1 DEF TypeOK, Reader
      <3>3. Len(chunk) \in Nat
        BY <3>2, LenProperties
      <3>4. Length \in Nat
        BY <3>1, LengthType
      <3> QED
        BY <1>4, <3>2, <3>3, <3>4 DEF Noticeable
    <2>2. /\ Length = 2 * Len(rollout) - (IF half THEN 1 ELSE 0) /\ Len(rollout) \in Nat
          /\ half \in BOOLEAN
      BY LengthType DEF IInv, TypeOK, Length, Halves
    <2>3. Read \in 0..Len(rollout) /\ (reader.offset % 2 = 1 => Read + 1 \in 1..Len(rollout))
      <3>1. /\ reader.offset = 2 * Read + (reader.offset % 2) /\ (reader.offset % 2) \in {0, 1}
            /\ Read \in Nat
        BY <2>1, Halving DEF Read
      <3>2. Length <= 2 * Len(rollout)
        BY <2>2
      <3>3. Length \in Int /\ reader.offset <= 2 * Len(rollout)
        BY <2>1, <2>2, <3>2
      <3> QED
        BY <2>2, <3>1, <3>3
    <2>4. Read' = Read
      BY <1>1 DEF Read
    <2>5. \A i \in 1..Len(rollout) : rollout'[i] = rollout[i]
      BY <1>1
    <2>6. reader.offset % 2 = 1 => rollout'[Read + 1] = rollout[Read + 1]
      BY <2>3, <2>5
    <2>7. \A i \in 1..Len(chunk) : rollout'[Read - Len(chunk) + i] = rollout[Read - Len(chunk) + i]
      BY <1>4, <2>1, <2>3, <2>5 DEF Followed
    <2>8. \A i \in 1..Read - Len(chunk) : rollout'[i] = rollout[i]
      BY <1>4, <2>1, <2>3, <2>5 DEF Followed
    <2>9. IsLatest(rollout', reader.totals, Read - Len(chunk))
      BY <1>4, <2>8 DEF Followed, IsLatest
    <2> QED
      BY <1>1, <1>4, <2>4, <2>6, <2>7, <2>9 DEF Followed
  <1> QED
    BY <1>1, <1>3, <1>4 DEF FollowOK, Restful

LEMMA RewriteFollow ==
    ASSUME IInv, FollowOK, NEW n \in 0..Len(rollout),
           rollout' = SubSeq(rollout, 1, n), half' = FALSE, notified' = TRUE,
           UNCHANGED <<tracked, reader, chunk>>,
           \/ source' = source /\ Noticeable(2 * n)
           \/ source' = source + 1
    PROVE  FollowOK'
  <1>1. /\ rollout \in Seq(Line) /\ Len(rollout) \in Nat /\ n \in Nat /\ n <= Len(rollout)
        /\ \A i \in 1..n : rollout[i] \in Line
    BY LenProperties, ElementOfSeq DEF IInv, TypeOK
  <1>2. Len(rollout') = n
    BY <1>1, SubSeqProperties
  <1>3. source \in Nat /\ reader.source \in Nat /\ reader.source <= source
    BY DEF IInv, TypeOK, FileOK, Reader
  <1>4. Length' = 2 * n
    BY <1>1, <1>2 DEF Length, Halves
  <1>5. Noticeable(Length)'
    BY <1>3, <1>4 DEF Noticeable
  <1> QED
    BY <1>5 DEF FollowOK, Restful

LEMMA AgentFollow ==
    ASSUME IInv, FollowOK, ~Unnoticed, Agent
    PROVE  FollowOK'
  <1>1. CASE AppendLine
    <2> DEFINE line == [id |-> written', usage |-> script[written']]
    <2>1. written' = written + 1 /\ written < MaxLine /\ written \in Nat
      BY <1>1, TelemetryAssumption DEF AppendLine, IInv, TypeOK
    <2>2. line \in Line
      <3>1. written' \in 1..MaxLine
        BY <2>1, TelemetryAssumption
      <3> QED
        BY <3>1 DEF Line, IInv, TypeOK
    <2>3. PICK cut \in BOOLEAN : Grow(Append(rollout, line), cut)
      BY <1>1 DEF AppendLine
    <2> HIDE DEF line
    <2>4. /\ Append(rollout, line) \in Seq(Line)
          /\ Len(Append(rollout, line)) = Len(rollout) + 1 /\ Len(rollout) \in Nat
          /\ \A i \in 1..Len(rollout) : Append(rollout, line)[i] = rollout[i]
      BY <2>2, AppendProperties, LenProperties DEF IInv, TypeOK
    <2>5. rollout = <<>> \/ source # NoFile
      BY DEF IInv, FileOK
    <2>6. Len(Append(rollout, line)) >= Len(rollout)
      BY <2>4
    <2> QED
      BY <2>3, <2>4, <2>5, <2>6, GrowFollow
  <1>2. CASE FinishLine
    <2>1. Grow(rollout, FALSE)
      BY <1>2 DEF FinishLine
    <2>3. rollout \in Seq(Line) /\ Len(rollout) >= Len(rollout)
      BY LenProperties DEF IInv, TypeOK
    <2>2. rollout = <<>> \/ source # NoFile
      BY DEF IInv, FileOK
    <2> QED
      BY <2>1, <2>2, <2>3, GrowFollow
  <1>3. CASE Truncate
    <2>1. PICK n \in 0..Len(rollout) - 1 : Noticeable(2 * n) /\ rollout' = SubSeq(rollout, 1, n)
      BY <1>3 DEF Truncate
    <2>2. n \in 0..Len(rollout)
      BY LenProperties DEF IInv, TypeOK
    <2> QED
      BY <1>3, <2>1, <2>2, RewriteFollow DEF Truncate, readVars
  <1>4. CASE Replace
    <2>1. PICK n \in 0..Len(rollout) : rollout' = SubSeq(rollout, 1, n)
      BY <1>4 DEF Replace
    <2> QED
      BY <1>4, <2>1, RewriteFollow DEF Replace, readVars
  <1> QED
    BY <1>1, <1>2, <1>3, <1>4 DEF Agent

-----------------------------------------------------------------------------
(* A line whose first half is of this file is read whole. *)
LEMMA LinesWhole ==
    ASSUME IInv, NEW q \in Reader, q.offset <= Length,
           q.offset % 2 = 1 => q.fragment = rollout[q.offset \div 2 + 1].id
    PROVE  \A i \in 1..Len(NewLines(q)) : NewLines(q)[i] = rollout[q.offset \div 2 + i]
  <1> DEFINE first == q.offset \div 2
             n == Length \div 2 - first
             torn(i) == i = 1 /\ q.offset % 2 = 1 /\ q.fragment # rollout[first + 1].id
             line(i) == IF torn(i) THEN [rollout[first + 1] EXCEPT !.usage = None]
                        ELSE rollout[first + i]
  <1>1. NewLines(q) = [i \in 1..n |-> line(i)]
    BY DEF NewLines
  <1>2. Len(NewLines(q)) = n
    BY LinesRead
  <1>3. \A i : line(i) = rollout[first + i]
    OBVIOUS
  <1> HIDE DEF first, n, line, torn
  <1>4. \A i \in 1..Len(NewLines(q)) : NewLines(q)[i] = rollout[first + i]
    BY <1>1, <1>2, <1>3
  <1> QED
    BY <1>4 DEF first

(* The whole file up to its length has been read, and is to be parsed from *)
(* line k on.                                                              *)
LEMMA FromFollow ==
    ASSUME IInv, NEW q \in Reader, NEW base, ReadFrom(q, base), q.offset <= Length,
           q.source = source, tracked', UNCHANGED <<rollout, half, source>>,
           source # NoFile,
           q.offset % 2 = 1 => q.fragment = rollout[q.offset \div 2 + 1].id,
           IsLatest(rollout, q.totals, q.offset \div 2)
    PROVE  FollowOK'
  <1>1. /\ chunk' = NewLines(q)
        /\ reader' = [q EXCEPT !.file = rewrites, !.offset = Length, !.fragment = NewFragment(q)]
    BY DEF ReadFrom
  <1>2. /\ reader'.source = source /\ reader'.offset = Length /\ reader'.totals = q.totals
        /\ reader'.fragment = NewFragment(q)
    BY <1>1 DEF Reader
  <1>3. UNCHANGED <<rollout, half, source>> /\ Length' = Length
    BY DEF Length, Halves
  <1>4. /\ Length \in Nat /\ Len(rollout) \in Nat /\ Length \div 2 \in 0..Len(rollout)
        /\ Length = 2 * Len(rollout) - (IF half THEN 1 ELSE 0) /\ q.offset \in Nat
        /\ Length \div 2 = Len(rollout) - (IF half THEN 1 ELSE 0)
    BY LengthType DEF IInv, Length, Halves, Reader
  <1>5. /\ Len(chunk') = Length \div 2 - q.offset \div 2
        /\ \A i \in 1..Len(chunk') : chunk'[i] = rollout[q.offset \div 2 + i]
    BY <1>1, LinesRead, LinesWhole
  <1>6. Read' = Length \div 2
    BY <1>2 DEF Read
  <1>7. q.offset \div 2 \in Nat /\ Read' - Len(chunk') = q.offset \div 2 /\ Len(chunk') <= Read'
    <2> DEFINE a == q.offset \div 2
               b == Length \div 2
    <2>1. a \in Nat /\ b \in Nat
      BY <1>4
    <2>2. Read' = b /\ Len(chunk') = b - a
      BY <1>5, <1>6
    <2> HIDE DEF a, b
    <2>3. Read' - Len(chunk') = a /\ Len(chunk') <= Read'
      BY <2>1, <2>2
    <2> QED
      BY <2>1, <2>3 DEF a
  <1>8. Length % 2 = 1 => reader'.fragment = rollout[Length \div 2 + 1].id
    <2> SUFFICES ASSUME Length % 2 = 1 PROVE NewFragment(q) = rollout[Length \div 2 + 1].id
      BY <1>2
    <2>1. half /\ Length \div 2 + 1 = Len(rollout)
      BY <1>4
    <2>2. CASE q.offset = Length
      BY <2>2 DEF NewFragment
    <2>3. CASE q.offset # Length
      BY <2>1, <2>3 DEF NewFragment
    <2> QED
      BY <2>2, <2>3
  <1>9. Followed'
    <2>1. reader'.offset % 2 = 1 => reader'.fragment = rollout'[Read' + 1].id
      BY <1>2, <1>3, <1>6, <1>8
    <2>2. \A i \in 1..Len(chunk') : chunk'[i].usage = rollout'[Read' - Len(chunk') + i].usage
      BY <1>3, <1>5, <1>7
    <2>3. IsLatest(rollout', reader'.totals, Read' - Len(chunk'))
      BY <1>2, <1>3, <1>7
    <2> QED
      BY <1>7, <2>1, <2>2, <2>3 DEF Followed
  <1>10. ReadAll'
    BY <1>2, <1>3, <1>4 DEF ReadAll, Noticeable
  <1> QED
    BY <1>2, <1>9, <1>10 DEF FollowOK

LEMMA ReadFollow ==
    ASSUME IInv, FollowOK, lock = NoTask, NEW r, Candidate(r), ReadInto(r),
           tracked', UNCHANGED <<rollout, half, source>>
    PROVE  FollowOK'
  <1>1. /\ r \in Reader /\ r.source <= source /\ (r # reader \/ ~tracked => r.source = NoFile)
        /\ r # reader \/ ~tracked => r.offset = 0
    BY CandidateType
  <1>2. r.source = NoFile => r.totals = None
    BY DEF Candidate, NewReader, FollowOK
  <1>3. r.source = NoFile => r.offset = 0
    BY <1>1 DEF IInv, FileOK
  <1>4. Length \in Nat /\ source \in Nat /\ r.source \in Nat /\ r.offset \in Nat
    BY <1>1, LengthType DEF IInv, TypeOK, Reader
  <1>5. CASE source = NoFile
    <2>1. r.source = NoFile /\ reader' = r /\ chunk' = <<>> /\ Len(chunk') = 0
      BY <1>1, <1>4, <1>5, EmptySeq DEF ReadInto, NoFile
    <2>2. Length' = 0 /\ source' = NoFile
      BY <1>5, LengthType, EmptySeq DEF IInv, FileOK, fileVars, Length, Halves
    <2>3. reader'.offset = 0 /\ reader'.totals = None /\ reader'.source = NoFile
      BY <1>2, <1>3, <2>1
    <2>4. Followed'
      BY <2>1, <2>3 DEF Followed, Read, IsLatest
    <2>5. ReadAll'
      BY <2>2, <2>3 DEF ReadAll, Noticeable
    <2> QED
      BY <2>3, <2>4, <2>5 DEF FollowOK
  <1>6. CASE source # NoFile /\ IsBaseline(r)
    <2>1. Rebased(r) \in Reader /\ Rebased(r).offset = 0 /\ Rebased(r).source = source
      BY <1>1, RebasedType
    <2>2. Rebased(r).totals = None
      BY <1>1, <1>2 DEF Rebased, Reader
    <2>3. ReadFrom(Rebased(r), IsBaseline(r))
      BY <1>6 DEF ReadInto
    <2>4. IsLatest(rollout, Rebased(r).totals, Rebased(r).offset \div 2)
      BY <2>1, <2>2 DEF IsLatest
    <2>5. Rebased(r).offset <= Length /\ Rebased(r).offset % 2 # 1
      BY <1>4, <2>1
    <2> QED
      BY <1>6, <2>1, <2>3, <2>4, <2>5, FromFollow
  <1>7. CASE source # NoFile /\ ~IsBaseline(r)
    <2>1. r.source = source /\ ~(Length < r.offset) /\ r = reader /\ tracked
      BY <1>1, <1>7 DEF IsBaseline
    <2>2. Followed
      BY <2>1 DEF FollowOK, Noticeable
    <2>3. chunk = <<>> /\ Len(chunk) = 0
      BY EmptySeq DEF IInv, ControlOK
    <2>4. r.offset \div 2 \in Nat /\ r.offset <= Length
      BY <1>4, <2>1
    <2>5. IsLatest(rollout, r.totals, r.offset \div 2)
      BY <2>1, <2>2, <2>3, <2>4 DEF Followed, Read
    <2>6. r.offset % 2 = 1 => r.fragment = rollout[r.offset \div 2 + 1].id
      BY <2>1, <2>2 DEF Followed, Read
    <2>7. ReadFrom(r, IsBaseline(r))
      BY <1>7 DEF ReadInto
    <2> QED
      BY <1>1, <1>7, <2>1, <2>4, <2>5, <2>6, <2>7, FromFollow
  <1> QED
    BY <1>5, <1>6, <1>7

-----------------------------------------------------------------------------
(* A line that is parsed becomes the latest if it can be. *)
LEMMA ParseFollow ==
    ASSUME IInv, FollowOK, NEW t \in Task, ParseLine(t)
    PROVE  FollowOK'
  <1> DEFINE old == reader.totals
             next == Head(chunk).usage
  <1>1. /\ chunk \in Seq(Line) /\ chunk # <<>> /\ chunk' = Tail(chunk) /\ reader \in Reader
        /\ Len(chunk) \in Nat /\ Len(chunk) >= 1
        /\ UNCHANGED <<fileVars, notified, tracked, pc>>
    BY EmptySeq, LenProperties DEF ParseLine, IInv, TypeOK
  <1>2. /\ Len(chunk') = Len(chunk) - 1 /\ Head(chunk) = chunk[1] /\ chunk[1] \in Line
        /\ \A i \in 1..Len(chunk') : chunk'[i] = chunk[i + 1]
    BY <1>1, HeadTailProperties
  <1>3. /\ reader'.offset = reader.offset /\ reader'.source = reader.source
        /\ reader'.fragment = reader.fragment
        /\ reader'.totals = IF Accepts(old, next) THEN next ELSE old
    BY <1>1 DEF ParseLine, Reader
  <1>4. reader.source # NoFile
    BY <1>1 DEF IInv, SumsOK
  <1>5. UNCHANGED <<rollout, half, source>> /\ Length' = Length /\ Read' = Read
    BY <1>1, <1>3 DEF fileVars, Length, Halves, Read
  <1>6. Noticeable(Length)' <=> Noticeable(Length)
    BY <1>1, <1>3, <1>5 DEF Noticeable
  <1>7. Restful' => ReadAll'
    BY <1>1, <1>3, <1>5, <1>6 DEF FollowOK, Restful, ReadAll
  <1>8. ASSUME Followed PROVE Followed'
    <2> DEFINE k == Read - Len(chunk)
    <2>1. Read \in Nat /\ k \in Nat
      <3>1. reader.offset \in Nat /\ Len(chunk) <= Read
        BY <1>1, <1>8 DEF Reader, Followed
      <3> QED
        BY <1>1, <3>1 DEF Read
    <2>2. Read - Len(chunk') = k + 1 /\ Len(chunk') <= Read
      BY <1>1, <1>2, <2>1
    <2>3. next = rollout[k + 1].usage
      BY <1>1, <1>2, <1>8 DEF Followed
    <2>4. IsLatest(rollout, old, k)
      BY <1>8 DEF Followed
    <2> HIDE DEF k
    <2>5. \A i \in 1..Len(chunk') : chunk'[i].usage = rollout[k + 1 + i].usage
      <3> SUFFICES ASSUME NEW i \in 1..Len(chunk') PROVE chunk'[i].usage = rollout[k + 1 + i].usage
        OBVIOUS
      <3>1. i + 1 \in 1..Len(chunk) /\ k + 1 + i = Read - Len(chunk) + (i + 1)
        BY <1>1, <1>2, <2>1 DEF k
      <3> QED
        BY <1>2, <1>8, <3>1 DEF Followed
    <2>6. IsLatest(rollout, reader'.totals, k + 1)
      <3>1. CASE Full(rollout[k + 1])
        <4>1. reader'.totals = next
          BY <1>3, <2>3, <3>1 DEF Accepts, Full
        <4>2. k + 1 \in 1..(k + 1) /\ \A j \in 1..(k + 1) : j <= k + 1
          BY <2>1
        <4> QED
          BY <2>3, <3>1, <4>1, <4>2 DEF IsLatest
      <3>2. CASE ~Full(rollout[k + 1])
        <4>1. reader'.totals = old
          BY <1>3, <2>3, <3>2 DEF Accepts, Full
        <4>2. \A j \in 1..(k + 1) : j \in 1..k \/ j = k + 1
          BY <2>1
        <4>3. \A j \in 1..k : j \in 1..(k + 1)
          BY <2>1
        <4> QED
          BY <2>4, <3>2, <4>1, <4>2, <4>3 DEF IsLatest
      <3> QED
        BY <3>1, <3>2
    <2>7. reader'.offset % 2 = 1 => reader'.fragment = rollout'[Read' + 1].id
      BY <1>3, <1>5, <1>8 DEF Followed
    <2> QED
      BY <1>5, <2>2, <2>5, <2>6, <2>7 DEF Followed
  <1> QED
    BY <1>3, <1>4, <1>6, <1>7, <1>8 DEF FollowOK

(* Every step. *)
LEMMA NextFollow == ~Unnoticed /\ IInv /\ FollowOK /\ [Next]_vars => FollowOK'
  <1> SUFFICES ASSUME ~Unnoticed, IInv, FollowOK, [Next]_vars PROVE FollowOK'
    OBVIOUS
  <1>1. CASE Agent
    BY <1>1, AgentFollow
  <1>2. Watcher \in Task /\ pc \in [Task -> {"start", "parse", "lookup", "emit", "vanish", "idle", "drain", "done"}]
    BY DEF Task, IInv, TypeOK
  <1>3. ASSUME NEW h \in Hook, ReadForHook(h) PROVE FollowOK'
    <2>1. Candidate(IF tracked THEN reader ELSE NewReader(reader.number + 1))
      BY DEF Candidate
    <2> QED
      BY <1>3, <2>1, ReadFollow DEF ReadForHook
  <1>4. ASSUME NEW t \in Task, ReadForDrain(t) PROVE FollowOK'
    <2>1. CASE tracked
      <3>1. Candidate(reader)
        BY <2>1 DEF Candidate
      <3>2. /\ lock = NoTask /\ ReadInto(reader) /\ tracked' = tracked
            /\ UNCHANGED <<rollout, half, source>>
        BY <1>4, <2>1 DEF ReadForDrain, fileVars
      <3> QED
        BY <2>1, <3>1, <3>2, ReadFollow
    <2>2. CASE ~tracked
      <3>1. UNCHANGED <<fileVars, reader, chunk, tracked>>
        BY <1>4, <2>2 DEF ReadForDrain
      <3> QED
        BY <2>2, <3>1, QuietFollow DEF Restful
    <2> QED
      BY <2>1, <2>2
  <1>5. ASSUME NEW t \in Task, ParseLine(t) PROVE FollowOK'
    BY <1>5, ParseFollow
  <1>6. ASSUME UNCHANGED <<fileVars, reader, chunk, notified>>, tracked' => tracked,
               NEW t \in Task, NEW l, Goto(t, l), pc[t] # "drain"
        PROVE  FollowOK'
    <2>1. pc'[Watcher] # "drain" => pc[Watcher] # "drain"
      BY <1>2, <1>6 DEF Goto
    <2> QED
      BY <1>6, <2>1, QuietFollow DEF Restful
  <1>7. ASSUME NEW h \in Hook, UpdateSession(h) \/ ApplyUsage(h) \/ Vanish(h) PROVE FollowOK'
    <2>1. h \in Task /\ pc[h] # "drain" /\ UNCHANGED <<fileVars, reader, chunk, notified, tracked>>
      BY <1>7 DEF UpdateSession, ApplyUsage, Vanish, readVars, Task
    <2>2. \E l : Goto(h, l)
      BY <1>7 DEF UpdateSession, ApplyUsage, Vanish
    <2> QED
      BY <1>6, <2>1, <2>2
  <1>8. ASSUME NEW t \in Task, Emit(t) \/ RefreshSession(t) PROVE FollowOK'
    <2>1. pc[t] # "drain" /\ UNCHANGED <<fileVars, reader, chunk, notified>>
      BY <1>8 DEF Emit, RefreshSession, readVars
    <2>3. tracked' => tracked
      <3>1. CASE Emit(t)
        BY <3>1, Zenon DEF Emit
      <3>2. CASE RefreshSession(t)
        BY <3>2 DEF RefreshSession, readVars
      <3> QED
        BY <1>8, <3>1, <3>2
    <2>2. \E l : Goto(t, l)
      BY <1>8 DEF Emit, RefreshSession
    <2> QED
      BY <1>6, <2>1, <2>2, <2>3
  <1>9. CASE Notice
    <2>1. tracked => pc'[Watcher] = "drain"
      BY <1>2, <1>9 DEF Notice, Goto
    <2> QED
      BY <1>9, <2>1, QuietFollow DEF Notice, Restful, readVars
  <1>10. CASE UNCHANGED vars
    BY <1>10, QuietFollow DEF vars, fileVars, Restful
  <1> QED
    BY <1>1, <1>3, <1>4, <1>5, <1>7, <1>8, <1>9, <1>10 DEF Next, Handle, Step, Drain

(* The safety half of CatchesUp: a session whose file has been quiet since *)
(* the watcher last looked shows the newest complete counters of the file, *)
(* however often it was truncated and replaced before, whoever read it.    *)
THEOREM QuietFileIsCurrent ==
    ASSUME ~Unnoticed
    PROVE  Spec => []SettledIsCurrent
  <1>1. Init => IInv /\ FollowOK
    BY InitIInv, FollowInit
  <1>2. (IInv /\ FollowOK) /\ [Next]_vars => (IInv /\ FollowOK)'
    BY NextIInv, NextFollow
  <1> QED
    BY <1>1, <1>2, FollowSettles, PTL DEF Spec
=============================================================================
