--------------------------- MODULE CodexTelemetry ---------------------------
(***************************************************************************)
(* Token usage of one Codex session, followed in its rollout file.         *)
(*                                                                         *)
(* The agent appends lines with cumulative counters; the file may also be  *)
(* truncated or replaced.  A reader, kept in a map under one lock, turns   *)
(* what was appended into usage reports with increments.  Hooks read       *)
(* before they update the session, a removal reads a last time and drops   *)
(* the reader, and the file watcher reads whenever it is notified.         *)
(*                                                                         *)
(* Offsets count half lines, so that a line can be read in two parts.      *)
(* Reading is one snapshot of the file and then a step per line, all under *)
(* the lock.  Other sessions share nothing with this one but the lock.     *)
(***************************************************************************)
EXTENDS Integers, Sequences

CONSTANTS
    Hook,       \* hook connections that update or remove the session
    Watcher,    \* the file watcher task
    NoTask,
    Counter,    \* counters that a line may carry
    Mandatory,  \* counters without which a line is not accepted
    Script,     \* what the lines may carry, in the order they are appended
    Work,       \* the assignments of "update" and "remove" to hooks
    MaxLine,    \* bound: lines ever appended
    MaxRewrite, \* bound: truncations and replacements of the file
    Unnoticed   \* a truncated file may have outgrown the offset when next read

Task == Hook \cup {Watcher}

(* A map of counters; a missing key is Absent. *)
Absent == -1
Totals == [Counter -> Nat \cup {Absent}]
None == [k \in Counter |-> Absent]
Keys(totals) == {k \in Counter : totals[k] # Absent}

NoFile == 0
NoLine == 0
NoObject == 0

ASSUME TelemetryAssumption ==
    /\ Watcher \notin Hook /\ NoTask \notin Task
    /\ Mandatory \subseteq Counter /\ Mandatory # {}
    /\ Script \subseteq [1..MaxLine -> Totals]
    /\ Work \subseteq [Hook -> {"update", "remove"}]
    /\ MaxLine \in Nat /\ MaxRewrite \in Nat
    /\ Unnoticed \in BOOLEAN

VARIABLES
    rollout,    \* the lines of the file
    half,       \* of the last line only the first half is written
    source,     \* the identity of the file (path and inode), or NoFile
    written,    \* lines ever appended; a line is identified by its number
    rewrites,   \* truncations and replacements so far
    notified,   \* the watcher's channel holds a notification
    script,     \* what each line carries; never changes
    work,       \* what each hook is about; never changes
    pc,         \* where each task is
    lock,       \* who holds the lock of the readers' map
    tracked,    \* the map has a reader for the session
    reader,     \* the reader and its parser
    chunk,      \* lines read and not yet parsed
    baseline,   \* they are history
    pending,    \* reports not yet emitted
    object,     \* the published session object, or NoObject
    born,       \* objects are numbered in order of creation, up to this one
    shown,      \* epoch, revision and totals of the published object
    sent,       \* history: the reports emitted
    counted,    \* history: the lines that have been parsed
    since,      \* history: the lines up to this one were there, in full, when
                \* the file was last rewritten or the reader made
    past        \* history: the same, when the chunk was read

vars == <<rollout, half, source, written, rewrites, notified, script, work, pc, lock,
          tracked, reader, chunk, baseline, pending, object, born, shown, sent, counted,
          since, past>>
fileVars == <<rollout, half, source, written, rewrites, since>>
inputVars == <<script, work>>
readVars == <<tracked, reader, chunk, baseline, counted, past>>
objectVars == <<object, born, shown>>

Parser == [epoch : Nat, revision : Nat, totals : Totals]
Reader == [number : Nat, file : Nat, source : Nat, offset : Nat, fragment : Nat,
           epoch : Nat, revision : Nat, totals : Totals]
Line == [id : Nat, usage : Totals]
Report == [object : Nat, reader : Nat, file : Nat, epoch : Nat, revision : Nat,
           delta : Totals, totals : Totals, line : Nat, since : Nat, fresh : BOOLEAN]

TypeOK ==
    /\ rollout \in Seq(Line) /\ half \in BOOLEAN /\ source \in Nat
    /\ written \in 0..MaxLine /\ rewrites \in 0..MaxRewrite
    /\ notified \in BOOLEAN
    /\ script \in [1..MaxLine -> Totals] /\ work \in [Hook -> {"update", "remove"}]
    /\ pc \in [Task -> {"start", "parse", "lookup", "emit", "vanish", "idle", "drain", "done"}]
    /\ lock \in Task \cup {NoTask}
    /\ tracked \in BOOLEAN /\ reader \in Reader
    /\ chunk \in Seq(Line) /\ baseline \in BOOLEAN
    /\ pending \in Seq(Report) /\ sent \in Seq(Report)
    /\ object \in Nat /\ born \in Nat /\ shown \in Parser
    /\ counted \in SUBSET Nat /\ since \in Nat /\ past \in Nat

(* Reader::default; history: a number that tells incarnations apart, and   *)
(* how often the file had been rewritten when it was read.                 *)
NewReader(n) == [number |-> n, file |-> 0, source |-> NoFile, offset |-> 0, fragment |-> NoLine,
                 epoch |-> 0, revision |-> 0, totals |-> None]

(* Parser::apply *)
Parsed == [epoch |-> reader.epoch, revision |-> reader.revision, totals |-> reader.totals]

Init ==
    /\ rollout = <<>> /\ half = FALSE /\ source = NoFile
    /\ written = 0 /\ rewrites = 0 /\ notified = FALSE
    /\ script \in Script /\ work \in Work
    /\ pc = [t \in Task |-> IF t = Watcher THEN "idle" ELSE "start"]
    /\ lock = NoTask
    /\ tracked = FALSE /\ reader = NewReader(0)
    /\ chunk = <<>> /\ baseline = FALSE /\ pending = <<>>
    /\ object = NoObject /\ born = 0
    /\ shown = [epoch |-> 0, revision |-> 0, totals |-> None]
    /\ sent = <<>> /\ counted = {} /\ since = 0 /\ past = 0

Goto(t, l) == pc' = [pc EXCEPT ![t] = l]
-----------------------------------------------------------------------------
(* The agent and its file *)

Halves(lines, cut) == 2 * Len(lines) - (IF cut THEN 1 ELSE 0)
Length == Halves(rollout, half)

(* The reader will find the file new, or of this length shorter than before. *)
Noticeable(length) == ~tracked \/ source # reader.source \/ length < reader.offset

(* Unless rewriting may go unnoticed, a file that has become shorter is    *)
(* read before it has grown to where the reader stopped.                   *)
Grow(lines, cut) ==
    /\ Unnoticed \/ (Noticeable(Length) => Noticeable(Halves(lines, cut)))
    /\ rollout' = lines /\ half' = cut
    /\ source' = IF source = NoFile THEN 1 ELSE source
    /\ notified' = TRUE
    /\ UNCHANGED <<rewrites, since, inputVars, pc, lock, readVars, pending, objectVars, sent>>

(* A line is appended, whole or in part. *)
AppendLine ==
    /\ ~half /\ written < MaxLine
    /\ written' = written + 1
    /\ \E cut \in BOOLEAN :
          Grow(Append(rollout, [id |-> written', usage |-> script[written']]), cut)

(* The rest of a line is appended. *)
FinishLine ==
    /\ half
    /\ Grow(rollout, FALSE)
    /\ UNCHANGED written

(* The file loses its last lines.  Losing what no reader has read yet is   *)
(* no concern of a reader, and left out.                                   *)
Truncate ==
    /\ rewrites < MaxRewrite /\ rollout # <<>>
    /\ \E n \in 0..Len(rollout) - 1 :
          /\ Noticeable(2 * n)
          /\ rollout' = SubSeq(rollout, 1, n)
    /\ half' = FALSE
    /\ rewrites' = rewrites + 1 /\ since' = written
    /\ notified' = TRUE
    /\ UNCHANGED <<source, written, inputVars, pc, lock, readVars, pending, objectVars, sent>>

(* Another file takes its place, with some of the history. *)
Replace ==
    /\ rewrites < MaxRewrite /\ source # NoFile
    /\ \E n \in 0..Len(rollout) : rollout' = SubSeq(rollout, 1, n)
    /\ half' = FALSE
    /\ source' = source + 1
    /\ rewrites' = rewrites + 1 /\ since' = written
    /\ notified' = TRUE
    /\ UNCHANGED <<written, inputVars, pc, lock, readVars, pending, objectVars, sent>>
-----------------------------------------------------------------------------
(* Reader::read: what is new in the file, all of it if the file is another *)
(* one or has become shorter.  A line read in two parts of which the first *)
(* was of another line is no line: it carries nothing.                     *)

IsBaseline(r) == r.source # source \/ Length < r.offset

(* Definitions marked "Faulty" are no part of the specification: each is   *)
(* the definition that follows it with a plausible mistake.                *)

(* Faulty: the parser starts afresh. *)
RebasedAfresh(r) == [NewReader(r.number) EXCEPT !.source = source]

(* Faulty: the epoch goes on. *)
RebasedSameEpoch(r) ==
    [r EXCEPT !.source = source, !.offset = 0, !.fragment = NoLine, !.totals = None]

(* A file seen before is given up: a new epoch without totals. *)
Rebased(r) ==
    [r EXCEPT !.source = source, !.offset = 0, !.fragment = NoLine,
              !.epoch = IF r.source = NoFile THEN @ ELSE @ + 1,
              !.totals = IF r.source = NoFile THEN @ ELSE None]

NewLines(r) ==
    LET first == r.offset \div 2
        torn(i) == i = 1 /\ r.offset % 2 = 1 /\ r.fragment # rollout[first + 1].id
    IN  [i \in 1..(Length \div 2 - first) |->
            IF torn(i) THEN [rollout[first + 1] EXCEPT !.usage = None]
            ELSE rollout[first + i]]

NewFragment(r) ==
    IF Length % 2 = 0 THEN NoLine
    ELSE IF r.offset = Length THEN r.fragment ELSE rollout[Len(rollout)].id

(* Faulty: history is reported. *)
ReadAllAsNew(r, base) ==
    /\ chunk' = NewLines(r)
    /\ baseline' = FALSE
    /\ reader' = [r EXCEPT !.file = rewrites, !.offset = Length, !.fragment = NewFragment(r)]

ReadFrom(r, base) ==
    /\ chunk' = NewLines(r)
    /\ baseline' = base
    /\ reader' = [r EXCEPT !.file = rewrites, !.offset = Length, !.fragment = NewFragment(r)]

ReadInto(r) ==
    IF source = NoFile
    THEN chunk' = <<>> /\ reader' = r /\ UNCHANGED baseline
    ELSE ReadFrom(IF IsBaseline(r) THEN Rebased(r) ELSE r, IsBaseline(r))
-----------------------------------------------------------------------------
(* Parser::observe *)

Accepts(old, next) == Mandatory \subseteq Keys(next) /\ next # old
Resets(old, next) == \E k \in Keys(old) \cap Keys(next) : next[k] < old[k]

Difference(old, next) ==
    [k \in Counter |-> IF k \in Keys(old) \cap Keys(next) THEN next[k] - old[k] ELSE Absent]

(* Faulty: a reset is not noticed. *)
DeltaUnchecked(old, next) == IF old = None THEN next ELSE Difference(old, next)

(* Faulty: a counter that appears counts from zero. *)
DeltaBackfilled(old, next) ==
    IF Resets(old, next) THEN None
    ELSE [k \in Counter |-> IF k \in Keys(old) \cap Keys(next) THEN next[k] - old[k] ELSE next[k]]

(* What was consumed since.  A counter that appears later is not counted   *)
(* until it appears again.                                                 *)
Delta(old, next) ==
    IF Resets(old, next) THEN None
    ELSE IF old = None THEN next
    ELSE Difference(old, next)

(* One line of what was read. *)
ParseLine(t) ==
    /\ pc[t] = "parse" /\ chunk # <<>>
    /\ LET line == Head(chunk)
           old == reader.totals
           next == line.usage
           after == [reader EXCEPT !.epoch = IF Resets(old, next) THEN @ + 1 ELSE @,
                                   !.revision = @ + 1, !.totals = next]
       IN  /\ reader' = IF Accepts(old, next) THEN after ELSE reader
           /\ pending' = IF ~Accepts(old, next) \/ baseline THEN pending
                         ELSE Append(pending,
                                [object |-> NoObject, reader |-> after.number,
                                 file |-> after.file, epoch |-> after.epoch,
                                 revision |-> after.revision, delta |-> Delta(old, next),
                                 totals |-> next, line |-> line.id, since |-> past,
                                 fresh |-> line.id \notin counted])
           /\ counted' = counted \cup {line.id}
    /\ chunk' = Tail(chunk)
    /\ UNCHANGED <<fileVars, notified, inputVars, pc, lock, tracked, baseline, past, objectVars,
                   sent>>
-----------------------------------------------------------------------------
(* update_hook: the lock is taken, a missing reader is made and the file   *)
(* read, all before the session is updated.                                *)
ReadForHook(h) ==
    /\ pc[h] = "start" /\ work[h] = "update"
    /\ lock = NoTask
    /\ lock' = h /\ tracked' = TRUE
    /\ ReadInto(IF tracked THEN reader ELSE NewReader(reader.number + 1))
    /\ since' = IF tracked THEN since ELSE written - (IF half THEN 1 ELSE 0)
    /\ past' = since'
    /\ Goto(h, "parse")
    /\ UNCHANGED <<rollout, half, source, written, rewrites, notified, inputVars, pending, counted,
                   objectVars, sent>>

(* update_session: the object is published with the usage, or looked up. *)
UpdateSession(h) ==
    /\ pc[h] = "parse" /\ chunk = <<>>
    /\ h # Watcher /\ work[h] = "update"
    /\ IF object = NoObject
       THEN /\ born' = born + 1 /\ object' = born' /\ shown' = Parsed
            /\ Goto(h, "emit")
       ELSE Goto(h, "lookup") /\ UNCHANGED objectVars
    /\ UNCHANGED <<fileVars, notified, inputVars, lock, readVars, pending, sent>>

(* If the object has been removed since, the reports are lost. *)
ApplyUsage(h) ==
    /\ pc[h] = "lookup"
    /\ IF object # NoObject
       THEN shown' = Parsed /\ Goto(h, "emit") /\ UNCHANGED <<lock, pending>>
       ELSE lock' = NoTask /\ pending' = <<>> /\ Goto(h, "done") /\ UNCHANGED shown
    /\ UNCHANGED <<fileVars, notified, inputVars, readVars, object, born, sent>>

Removes(t) == t # Watcher /\ work[t] = "remove"

(* drain: without a reader nothing is read. *)
ReadForDrain(t) ==
    /\ pc[t] = "drain" \/ (pc[t] = "start" /\ Removes(t))
    /\ lock = NoTask
    /\ IF tracked
       THEN ReadInto(reader) /\ past' = since /\ lock' = t /\ Goto(t, "parse")
       ELSE UNCHANGED <<chunk, baseline, reader, past, lock>>
            /\ Goto(t, IF Removes(t) THEN "vanish" ELSE "idle")
    /\ UNCHANGED <<fileVars, notified, inputVars, tracked, pending, counted, objectVars, sent>>

(* Faulty: only reports are a reason to show anything. *)
RefreshReported(t) ==
    /\ pc[t] = "parse" /\ chunk = <<>>
    /\ t = Watcher \/ Removes(t)
    /\ shown' = IF object # NoObject /\ pending # <<>> THEN Parsed ELSE shown
    /\ Goto(t, "emit")
    /\ UNCHANGED <<fileVars, notified, inputVars, lock, readVars, pending, object, born, sent>>

(* update_existing_session: no object is published. *)
RefreshSession(t) ==
    /\ pc[t] = "parse" /\ chunk = <<>>
    /\ t = Watcher \/ Removes(t)
    /\ shown' = IF object # NoObject THEN Parsed ELSE shown
    /\ Goto(t, "emit")
    /\ UNCHANGED <<fileVars, notified, inputVars, lock, readVars, pending, object, born, sent>>

(* Faulty: notifications are taken when the reading is over. *)
EmitThenNotice(t) ==
    /\ pc[t] = "emit"
    /\ sent' = IF object = NoObject THEN sent
               ELSE sent \o [i \in 1..Len(pending) |-> [pending[i] EXCEPT !.object = object]]
    /\ pending' = <<>>
    /\ tracked' = (tracked /\ ~Removes(t))
    /\ lock' = NoTask /\ notified' = (notified /\ t # Watcher)
    /\ Goto(t, IF t = Watcher THEN "idle" ELSE IF Removes(t) THEN "vanish" ELSE "done")
    /\ UNCHANGED <<fileVars, inputVars, reader, chunk, baseline, counted, past, objectVars>>

(* The reports go out if there is an object, and the lock is given back;   *)
(* a removal drops the reader first.                                       *)
Emit(t) ==
    /\ pc[t] = "emit"
    /\ sent' = IF object = NoObject THEN sent
               ELSE sent \o [i \in 1..Len(pending) |-> [pending[i] EXCEPT !.object = object]]
    /\ pending' = <<>>
    /\ tracked' = (tracked /\ ~Removes(t))
    /\ lock' = NoTask
    /\ Goto(t, IF t = Watcher THEN "idle" ELSE IF Removes(t) THEN "vanish" ELSE "done")
    /\ UNCHANGED <<fileVars, notified, inputVars, reader, chunk, baseline, counted, past, objectVars>>

(* The rest of remove_session: the object is taken away. *)
Vanish(h) ==
    /\ pc[h] = "vanish"
    /\ object' = NoObject
    /\ Goto(h, "done")
    /\ UNCHANGED <<fileVars, notified, inputVars, lock, readVars, pending, born, shown, sent>>

(* The watcher takes all notifications at once and looks at the map. *)
Notice ==
    /\ pc[Watcher] = "idle" /\ notified
    /\ lock = NoTask
    /\ notified' = FALSE
    /\ Goto(Watcher, IF tracked THEN "drain" ELSE "idle")
    /\ UNCHANGED <<fileVars, inputVars, lock, readVars, pending, objectVars, sent>>
-----------------------------------------------------------------------------
Agent == AppendLine \/ FinishLine \/ Truncate \/ Replace

Handle(h) ==
    \/ ReadForHook(h) \/ UpdateSession(h) \/ ApplyUsage(h) \/ Vanish(h)

Drain(t) == ReadForDrain(t) \/ RefreshSession(t)

Step(t) == ParseLine(t) \/ Emit(t) \/ Drain(t)

Next ==
    \/ Agent
    \/ \E h \in Hook : Handle(h)
    \/ \E t \in Task : Step(t)
    \/ Notice

Spec == Init /\ [][Next]_vars

(* tokio polls every task that is ready.  The agent writes when it likes.  *)
FairSpec ==
    /\ Spec
    /\ \A h \in Hook : WF_vars(Handle(h))
    /\ \A t \in Task : WF_vars(Step(t))
    /\ WF_vars(Notice)
-----------------------------------------------------------------------------
(* Safety *)

(* What clients see is what the parser knows, whenever the map is unlocked: *)
(* nothing is published from a read that a later read has overtaken        *)
(* (telemetry.rs 216-229).                                                 *)
ShownIsParsed ==
    lock = NoTask /\ tracked /\ object # NoObject => shown = Parsed

(* History is not replayed (README.md 400-405, telemetry.rs 150-154, 181): *)
(* a report is of a line that was finished after the reader was made and   *)
(* after the last truncation or replacement of the file it was read from,  *)
(* that no reader had parsed before, and that no other report is of.       *)
NothingReplayed ==
    /\ \A i \in 1..Len(sent) : sent[i].line > sent[i].since /\ sent[i].fresh
    /\ \A i, j \in 1..Len(sent) : i # j => sent[i].line # sent[j].line

Successive(i) == i \in 1..Len(sent) - 1 /\ sent[i].object = sent[i + 1].object

(* Two reports in a row of a reader, for one object and in one epoch: the  *)
(* increment is the difference of the totals, for every counter that both  *)
(* carry (telemetry.rs 71-90).                                             *)
DeltasAddUp ==
    \A i \in 1..Len(sent) :
        LET a == sent[i]  b == sent[i + 1]
        IN  Successive(i) /\ a.reader = b.reader /\ a.epoch = b.epoch
                => b.delta = Difference(a.totals, b.totals)

(* The reports of a reader come in order.                                  *)
ReportsInOrder ==
    \A i, j \in 1..Len(sent) :
        LET a == sent[i]  b == sent[j]
        IN  i < j /\ a.reader = b.reader
                => a.epoch <= b.epoch /\ a.revision < b.revision

(* An epoch does not span a truncation or a replacement (README.md 401).   *)
EpochKeepsToFile ==
    \A i, j \in 1..Len(sent) :
        sent[i].reader = sent[j].reader /\ sent[i].epoch = sent[j].epoch
            => sent[i].file = sent[j].file
-----------------------------------------------------------------------------
(* Liveness *)

(* The counters of the last complete line that carries the mandatory ones. *)
Current ==
    LET lines == {i \in 1..(Length \div 2) : Mandatory \subseteq Keys(rollout[i].usage)}
    IN  IF lines = {} THEN None
        ELSE rollout[CHOOSE i \in lines : \A j \in lines : j <= i].usage

(* A session with a reader catches up with its file when the agent rests,  *)
(* with no hook to cause it (telemetry.rs 271-282).                        *)
CatchesUp ==
    <>[](tracked /\ object # NoObject => shown.totals = Current)
=============================================================================
