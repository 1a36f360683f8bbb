------------------------- MODULE OpenCodeTelemetry -------------------------
(***************************************************************************)
(* Token usage of one OpenCode session, from the plugin to the reports.    *)
(*                                                                         *)
(* Each instance of the plugin (two if it is installed twice, or if a      *)
(* second OpenCode process resumes the session) delivers what it has seen  *)
(* through a chain of its own: a context message, one message for each     *)
(* finished step, and the end.  The chain waits for the answer to one      *)
(* message before it sends the next, but for three seconds at most: an     *)
(* agent-hook that takes longer is killed, and what it has sent is handled *)
(* when the daemon comes to it.  The daemon recognises the steps it has    *)
(* counted lately by their ids, and ignores the telemetry of sessions in   *)
(* the expiring set.                                                       *)
(*                                                                         *)
(* The counters of a usage map move together and are one number here.      *)
(***************************************************************************)
EXTENDS ExpiringSet

CONSTANTS
    Followed,   \* the session whose usage is followed
    Plugin,     \* instances of the plugin
    First,      \* the first step each instance sees
    MaxStep,    \* bound: steps of the session
    Taken,      \* the tokens that the first n steps take, for each n
    MaxCount,   \* the largest counter
    Baselines,  \* what the instances may know of earlier usage
    MaxSeen,    \* how many step ids the daemon remembers
    MaxRestart  \* bound: restarts of the daemon

Step == 1..MaxStep
Context == 0
End == MaxStep + 1
Message == Context..End
NoMessage == End + 1
Count == 0..MaxCount
NoCount == MaxCount + 1     \* no counters

ASSUME OpenCodeAssumption ==
    /\ Followed \in Key
    /\ MaxStep \in Nat /\ MaxCount \in Nat /\ MaxRestart \in Nat
    /\ MaxSeen \in Nat \ {0}
    /\ First \in [Plugin -> Step]
    /\ Taken \in [0..MaxStep -> Nat] /\ Taken[0] = 0
    /\ \A m, n \in 0..MaxStep : m <= n => Taken[m] <= Taken[n]
    /\ Baselines \subseteq [Plugin -> Count \cup {NoCount}]

(* Counters are 64 bits wide and the plugin's numbers are safe integers:   *)
(* the totals have room for a session's usage after any baseline.          *)
ASSUME CountersHaveRoom ==
    /\ 2 * Taken[MaxStep] <= MaxCount
    /\ \A b \in Baselines, p \in Plugin :
           b[p] # NoCount => b[p] + 2 * Taken[MaxStep] <= MaxCount

VARIABLES
    baseline,   \* what each instance learnt of earlier usage when it attached
    steps,      \* the steps the session has finished
    over,       \* the session has been deleted
    next,       \* the message each chain sends next, or NoMessage
    waits,      \* the message each chain waits for, or NoMessage
    at,         \* where the daemon's task for each message is
    session,    \* the published object
    restarts,   \* bound on restarts of the daemon
    hasty,      \* history: instances that lost a message or gave up waiting
    closed,     \* history: an end has been handled
    counted,    \* history: steps counted by any object
    reports     \* history: the reports of this object

pluginVars == <<baseline, steps, over>>
chainVars == <<next, waits, hasty>>
objectVars == <<session, counted, reports>>
vars == <<setVars, pluginVars, chainVars, at, objectVars, restarts, closed>>

Where == {"none", "check", "apply", "emit", "done"}
Object == [on : BOOLEAN, totals : Count \cup {NoCount}, epoch : Nat, revision : Nat,
           seen : Seq(Step)]
Unborn == [on |-> FALSE, totals |-> NoCount, epoch |-> 0, revision |-> 0, seen |-> <<>>]
Report == [from : Plugin, step : Step, epoch : Nat, revision : Nat, totals : Count]

Init ==
    /\ SetInit
    /\ baseline \in Baselines
    /\ steps = 0 /\ over = FALSE
    /\ next = [p \in Plugin |-> Context]
    /\ waits = [p \in Plugin |-> NoMessage]
    /\ at = [p \in Plugin |-> [m \in Message |-> "none"]]
    /\ session = Unborn
    /\ restarts = 0
    /\ hasty = {} /\ closed = FALSE /\ counted = {} /\ reports = <<>>

-----------------------------------------------------------------------------
(* OpenCode and the plugin. *)

(* The tokens of a step, and the totals an instance has after step n.      *)
Usage(n) == Taken[n] - Taken[n - 1]

Known(p) == IF baseline[p] = NoCount THEN 0 ELSE baseline[p]
Snapshot(p, n) == Known(p) + Taken[n] - Taken[First[p] - 1]

FinishStep ==
    /\ ~over /\ steps < MaxStep
    /\ steps' = steps + 1
    /\ UNCHANGED <<setVars, baseline, over, chainVars, at, objectVars, restarts, closed>>

DeleteSession ==
    /\ ~over
    /\ over' = TRUE
    /\ UNCHANGED <<setVars, baseline, steps, chainVars, at, objectVars, restarts, closed>>

(* What a chain sends next: an instance attaches when the steps that it    *)
(* does not see are over, and the end comes after the last step.           *)
Ready(p, m) ==
    /\ next[p] # NoMessage
    /\ \/ m = Context /\ next[p] = Context /\ steps >= First[p] - 1
       \/ m \in Step /\ next[p] = m /\ m <= steps
       \/ m = End /\ next[p] > steps /\ over

Advance(p, m) ==
    next' = [next EXCEPT ![p] = IF m = Context THEN First[p]
                                ELSE IF m = End THEN NoMessage ELSE m + 1]

(* Faulty: the chain does not wait. *)
SendAtOnce(p, m) ==
    /\ Ready(p, m)
    /\ Advance(p, m)
    /\ waits' = [waits EXCEPT ![p] = m]
    /\ at' = [at EXCEPT ![p][m] = IF m = End THEN "apply" ELSE "check"]
    /\ UNCHANGED <<setVars, pluginVars, objectVars, restarts, hasty, closed>>

Send(p, m) ==
    /\ Ready(p, m)
    /\ waits[p] = NoMessage
    /\ Advance(p, m)
    /\ waits' = [waits EXCEPT ![p] = m]
    /\ at' = [at EXCEPT ![p][m] = IF m = End THEN "apply" ELSE "check"]
    /\ UNCHANGED <<setVars, pluginVars, objectVars, restarts, hasty, closed>>

(* Three seconds are over.  A message that never reaches the daemon is one *)
(* whose task never runs.                                                  *)
GiveUp(p) ==
    /\ waits[p] # NoMessage
    /\ waits' = [waits EXCEPT ![p] = NoMessage]
    /\ hasty' = hasty \cup {p}
    /\ UNCHANGED <<setVars, pluginVars, next, at, objectVars, restarts, closed>>

-----------------------------------------------------------------------------
(* The daemon: a task for each message. *)

Finish(p, m) ==
    /\ at' = [at EXCEPT ![p][m] = "done"]
    /\ waits' = [waits EXCEPT ![p] = IF @ = m THEN NoMessage ELSE @]

CheckEnded(p, m) ==
    /\ at[p][m] = "check"
    /\ \E found \in BOOLEAN :
        /\ Contains(Followed, found)
        /\ IF found THEN Finish(p, m)
           ELSE at' = [at EXCEPT ![p][m] = "apply"] /\ UNCHANGED waits
    /\ UNCHANGED <<pluginVars, next, objectVars, restarts, hasty, closed>>

(* The first usage an object hears of is its baseline. *)
WithBaseline(o, p) ==
    [o EXCEPT !.on = TRUE,
              !.totals = IF @ = NoCount /\ o.revision = 0 THEN baseline[p] ELSE @]

Total(o) == IF o.totals = NoCount THEN 0 ELSE o.totals

(* Faulty: the window keeps one id less than it should, or all of them.    *)
ShortWindow(seen) ==
    IF Len(seen) >= MaxSeen THEN SubSeq(seen, 2, Len(seen)) ELSE seen
OpenWindow(seen) == seen

Window(seen) ==
    IF Len(seen) > MaxSeen THEN SubSeq(seen, 2, Len(seen)) ELSE seen

Counts(o, n) ==
    /\ \A i \in 1..Len(o.seen) : o.seen[i] # n
    /\ Total(o) + Usage(n) <= MaxCount

(* The totals of the message replace those of the object.                  *)
(* Faulty: no new epoch when they are lower.                               *)
CountedInEpoch(o, p, n) ==
    [o EXCEPT !.totals = Snapshot(p, n),
              !.revision = @ + 1,
              !.seen = Window(Append(@, n))]

Counted(o, p, n) ==
    [o EXCEPT !.totals = Snapshot(p, n),
              !.epoch = IF Snapshot(p, n) < Total(o) THEN @ + 1 ELSE @,
              !.revision = @ + 1,
              !.seen = Window(Append(@, n))]

(* update_session publishes the object if there is none.                   *)
ApplyTelemetry(p, m) ==
    /\ at[p][m] = "apply" /\ m # End
    /\ LET o == WithBaseline(session, p)
           old == IF session.on THEN reports ELSE <<>>
       IN  IF m \in Step /\ Counts(o, m)
           THEN LET c == Counted(o, p, m) IN
                /\ session' = c
                /\ counted' = counted \cup {m}
                /\ reports' = Append(old, [from |-> p, step |-> m, epoch |-> c.epoch,
                                           revision |-> c.revision, totals |-> c.totals])
                /\ at' = [at EXCEPT ![p][m] = "emit"]
                /\ UNCHANGED waits
           ELSE /\ session' = o
                /\ reports' = old
                /\ UNCHANGED counted
                /\ Finish(p, m)
    /\ UNCHANGED <<setVars, pluginVars, next, restarts, hasty, closed>>

(* The report is emitted at the session's path, if an object is there.     *)
EmitReport(p, m) ==
    /\ at[p][m] = "emit"
    /\ Finish(p, m)
    /\ UNCHANGED <<setVars, pluginVars, next, objectVars, restarts, hasty, closed>>

(* SessionEnd, and Stop of a child.  SessionLifecycle has its steps.       *)
ApplyEnd(p) ==
    /\ at[p][End] = "apply"
    /\ Insert(Followed)
    /\ session' = Unborn /\ reports' = <<>>
    /\ closed' = TRUE
    /\ Finish(p, End)
    /\ UNCHANGED <<pluginVars, next, counted, restarts, hasty>>

(* The state or the title of the session is reported by an instance that   *)
(* has attached, perhaps belatedly.  The daemon publishes the session, but *)
(* takes no baseline from such a report.                                   *)
UpdateState(p) ==
    /\ steps >= First[p] - 1
    /\ \E found \in BOOLEAN :
        /\ Remove(Followed, found)
        /\ session' = IF found THEN session ELSE [session EXCEPT !.on = TRUE]
        /\ reports' = IF found \/ session.on THEN reports ELSE <<>>
    /\ UNCHANGED <<pluginVars, chainVars, at, counted, restarts, closed>>

(* What other sessions do to the set: they end, and are heard of again.    *)
EndOther(k) ==
    /\ k # Followed
    /\ Insert(k)
    /\ UNCHANGED <<pluginVars, chainVars, at, objectVars, restarts, closed>>

UpdateOther(k) ==
    /\ k # Followed
    /\ \E found \in BOOLEAN : Remove(k, found)
    /\ UNCHANGED <<pluginVars, chainVars, at, objectVars, restarts, closed>>

Restart ==
    /\ restarts < MaxRestart
    /\ restarts' = restarts + 1
    /\ entries' = [k \in Key |-> Never] /\ order' = <<>>
    /\ session' = Unborn /\ reports' = <<>>
    /\ at' = [p \in Plugin |-> [m \in Message |->
                  IF at[p][m] = "none" THEN "none" ELSE "done"]]
    /\ hasty' = hasty \cup {p \in Plugin : \E m \in Message : at[p][m] \notin {"none", "done"}}
    /\ waits' = [p \in Plugin |-> NoMessage]
    /\ UNCHANGED <<now, pluginVars, next, counted, closed>>

Clock == Tick /\ UNCHANGED <<pluginVars, chainVars, at, objectVars, restarts, closed>>

(* What happens to the set of its own, and what concerns the session.      *)
SetNext == Clock \/ \E k \in Key : EndOther(k) \/ UpdateOther(k)

SessionNext ==
    \/ FinishStep \/ DeleteSession \/ Restart
    \/ \E p \in Plugin : GiveUp(p) \/ ApplyEnd(p) \/ UpdateState(p)
    \/ \E p \in Plugin, m \in Message :
        Send(p, m) \/ CheckEnded(p, m) \/ ApplyTelemetry(p, m) \/ EmitReport(p, m)

Next == SetNext \/ SessionNext

Spec == Init /\ [][Next]_vars

-----------------------------------------------------------------------------
(* Every variable holds a value of its kind, and no more step ids are kept  *)
(* than the window has room for.                                           *)
TypeOK ==
    /\ SetTypeOK
    /\ baseline \in Baselines /\ steps \in 0..MaxStep /\ over \in BOOLEAN
    /\ next \in [Plugin -> Message \cup {NoMessage}]
    /\ waits \in [Plugin -> Message \cup {NoMessage}]
    /\ at \in [Plugin -> [Message -> Where]]
    /\ session \in Object /\ Len(session.seen) <= MaxSeen
    /\ restarts \in 0..MaxRestart
    /\ hasty \subseteq Plugin /\ closed \in BOOLEAN /\ counted \subseteq Step
    /\ reports \in Seq(Report)

(* A step whose telemetry comes again is not counted again by the same     *)
(* object before as many others as the window holds have been counted,     *)
(* whichever instance sends it and whichever message overtook it.          *)
CountedOnce ==
    \A i, j \in 1..Len(reports) :
        i < j /\ reports[i].step = reports[j].step => j - i > MaxSeen

(* One report follows another: within an epoch the totals never fall, and  *)
(* if it is the report of the very next step from the same instance, the   *)
(* epoch is the same and the totals have grown by what the step took.      *)
TotalsFollowSteps ==
    \A i \in 1..(Len(reports) - 1) :
        LET r == reports[i]
            q == reports[i + 1]
        IN  /\ q.revision = r.revision + 1
            /\ q.epoch >= r.epoch
            /\ q.epoch = r.epoch => q.totals >= r.totals
            /\ q.from = r.from /\ q.step = r.step + 1 =>
                   q.epoch = r.epoch /\ q.totals = r.totals + Usage(q.step)

(* README 436: the final usage of a session comes before its end.  When    *)
(* the first end is handled, an instance that has lost nothing and never   *)
(* given up has had all its steps counted.                                 *)
UsageBeforeEnd ==
    [][\A p \in Plugin :
          ApplyEnd(p) /\ ~closed /\ p \notin hasty => First[p]..steps \subseteq counted]_vars

(* An ended session is remembered until a late UpdateState is taken for it, *)
(* its time is over, as many others as fit have ended, or the daemon ends. *)
MarksGoForCause ==
    [][~Restart => \A k \in Key : 
          ForgottenForCause(k) \/ (k = Followed /\ \E p \in Plugin : UpdateState(p)) \/ UpdateOther(k)]_vars
=============================================================================
