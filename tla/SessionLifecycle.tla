-------------------------- MODULE SessionLifecycle --------------------------
(***************************************************************************)
(* How session objects come and go.                                        *)
(*                                                                         *)
(* Hook connections of a session are handled by concurrent tasks.  A task  *)
(* may publish the session's object, update it, link it to a window in     *)
(* Locus, or remove it; the parent watcher removes the sessions of agent   *)
(* processes that have exited.  Sessions that were removed are remembered  *)
(* in the ended set, which some events consult, some consume and most      *)
(* ignore.  One action is what a task does between two awaits at which     *)
(* another task can change what it has seen.                               *)
(*                                                                         *)
(* Within the horizon of this module no entry of the ended set expires.    *)
(***************************************************************************)
EXTENDS Naturals, FiniteSets

CONSTANTS
    Hook,       \* hook connections
    Watcher,    \* the parent watcher task
    Session,    \* (agent, session id) pairs
    Window,     \* window ids; an app instance id is treated the same way
    NoWindow,   \* no window id
    Pid,        \* agent processes
    NoPid,      \* no identified agent process
    NoSession,
    MaxObject,  \* bound: session objects ever published
    Traffic     \* the assignments of events to hooks that are considered

Task == Hook \cup {Watcher}
NoObject == 0
Object == 1..MaxObject
NoTask == NoSession
MaxAttempts == 3

(* "Update" is any event whose handler updates the session and consults    *)
(* nothing first: prompts, tools, compaction, attention, permissions.      *)
(* "Notify" is an event whose handler updates nothing.                     *)
Kind == {"Telemetry", "UpdateState", "SessionStart", "Stop", "SessionEnd", "Update",
         "Notify"}
Guarded == {"UpdateState", "SessionStart", "Stop"}

(* lineage: the payload says whose subagent the session is.                *)
(* title: the payload carries a session title.                             *)
Event == [kind : Kind, session : Session, lineage : BOOLEAN, title : BOOLEAN,
          window : Window \cup {NoWindow}, pid : Pid \cup {NoPid}]

ASSUME LifecycleAssumption ==
    /\ Watcher \notin Hook
    /\ NoWindow \notin Window /\ NoPid \notin Pid
    /\ NoSession \notin Session \cup Task
    /\ MaxObject \in Nat
    /\ Traffic \subseteq [Hook -> Event]

VARIABLES
    event,      \* what each hook carries; never changes
    pc,         \* where each task is
    stage,      \* which update_session of its handler a hook is in
    target,     \* the session a task works on
    subhook,    \* the hook was found to come from a subagent
    object,     \* the object published at each session's path, or NoObject
    born,       \* objects are numbered in order of creation, up to this one
    subagent,   \* is_subagent of each object
    window,     \* window_id of each object
    lock,       \* who holds session_create_lock
    ref,        \* the object a task holds a reference to
    unlinking,  \* the window a removal read before it took the object away
    attempts,   \* removals of the object a removal has tried
    ended,      \* the sessions in the ended set
    parents,    \* session_parents: the recorded agent process
    alive,      \* agent processes that run, of those that a hook reports
    todo,       \* what is left of the watcher's snapshot
    relation,   \* Locus: the session each window points at
    late,       \* history: the hook was read when its session had ended
    maker,      \* history: who published each object
    consumed,   \* history: sessions whose ended mark an UpdateState took
    owner       \* history: the agent process last reported for a session

vars == <<event, pc, stage, target, subhook, object, born, subagent, window, lock,
          ref, unlinking, attempts, ended, parents, alive, todo, relation,
          late, maker, consumed, owner>>
hookVars == <<event, subhook, late>>
objectVars == <<object, born, subagent, window, maker>>
removalVars == <<unlinking, attempts>>
storeVars == <<ended, parents, consumed, owner>>
watchVars == <<alive, todo>>

Pc == {"read", "lineage", "create", "publish", "lookup", "apply", "watch",
       "dispatch", "stop", "mark", "forget", "grab", "cancel", "unlink", "remove",
       "verify", "link", "idle", "done"}

TypeOK ==
    /\ event \in [Hook -> Event]
    /\ pc \in [Task -> Pc]
    /\ stage \in [Task -> {"identify", "title", "update"}]
    /\ target \in [Task -> Session \cup {NoSession}]
    /\ subhook \in [Hook -> BOOLEAN]
    /\ object \in [Session -> Object \cup {NoObject}]
    /\ born \in 0..MaxObject
    /\ subagent \in [Object -> BOOLEAN]
    /\ window \in [Object -> Window \cup {NoWindow}]
    /\ lock \in Hook \cup {NoTask}
    /\ ref \in [Task -> Object \cup {NoObject}]
    /\ unlinking \in [Task -> Window \cup {NoWindow}]
    /\ attempts \in [Task -> 0..MaxAttempts]
    /\ ended \in SUBSET Session
    /\ parents \in [Session -> Pid \cup {NoPid}]
    /\ alive \in SUBSET Pid
    /\ todo \in SUBSET (Session \X Pid)
    /\ relation \in [Window -> Session \cup {NoSession}]
    /\ late \in [Hook -> BOOLEAN]
    /\ maker \in [Object -> Hook \cup {NoTask}]
    /\ consumed \in SUBSET Session
    /\ owner \in [Session -> Pid \cup {NoPid}]

Init ==
    /\ event \in Traffic
    /\ pc = [t \in Task |-> IF t = Watcher THEN "idle" ELSE "read"]
    /\ stage = [t \in Task |-> "identify"]
    /\ target = [t \in Task |-> IF t = Watcher THEN NoSession ELSE event[t].session]
    /\ subhook = [h \in Hook |-> FALSE]
    /\ object = [s \in Session |-> NoObject]
    /\ born = 0
    /\ subagent = [o \in Object |-> FALSE]
    /\ window = [o \in Object |-> NoWindow]
    /\ lock = NoTask
    /\ ref = [t \in Task |-> NoObject]
    /\ unlinking = [t \in Task |-> NoWindow]
    /\ attempts = [t \in Task |-> 0]
    /\ ended = {}
    /\ parents = [s \in Session |-> NoPid]
    /\ alive = {event[h].pid : h \in Hook} \ {NoPid}
    /\ todo = {}
    /\ relation = [w \in Window |-> NoSession]
    /\ late = [h \in Hook |-> FALSE]
    /\ maker = [o \in Object |-> NoTask]
    /\ consumed = {}
    /\ owner = [s \in Session |-> NoPid]

Published(t) == object[target[t]]
IsKind(h, kind) == event[h].kind = kind
Goto(t, l) == pc' = [pc EXCEPT ![t] = l] /\ UNCHANGED stage
Enter(t, st) == pc' = [pc EXCEPT ![t] = "create"] /\ stage' = [stage EXCEPT ![t] = st]
-----------------------------------------------------------------------------
(* Faulty: telemetry is admitted whenever it comes. *)
AdmitTelemetry(h) ==
    /\ pc[h] = "read"
    /\ late' = [late EXCEPT ![h] = target[h] \in ended]
    /\ Goto(h, "lineage")
    /\ UNCHANGED <<event, subhook, target, objectVars, lock, ref, removalVars, storeVars,
                   watchVars, relation>>

(* The hook has been read.  Late telemetry is dropped before anything else. *)
CheckTelemetry(h) ==
    /\ pc[h] = "read"
    /\ late' = [late EXCEPT ![h] = target[h] \in ended]
    /\ Goto(h, IF IsKind(h, "Telemetry") /\ target[h] \in ended THEN "done" ELSE "lineage")
    /\ UNCHANGED <<event, subhook, target, objectVars, lock, ref, removalVars, storeVars,
                   watchVars, relation>>

(* After the lineage is known: ensure_subagent_identity with lineage,      *)
(* refresh_session_title with a title, then maybe_watch_parent.            *)
AfterIdentity(h) ==
    IF event[h].title THEN Enter(h, "title") ELSE Goto(h, "watch")

(* Lineage comes from the payload, or else from the published object. *)
FindLineage(h) ==
    /\ pc[h] = "lineage"
    /\ subhook' = [subhook EXCEPT ![h] =
                     event[h].lineage
                     \/ (Published(h) # NoObject /\ subagent[Published(h)])]
    /\ IF event[h].lineage THEN Enter(h, "identify") ELSE AfterIdentity(h)
    /\ UNCHANGED <<event, target, late, objectVars, lock, ref, removalVars, storeVars,
                   watchVars, relation>>

(* transport_metadata_for_hook: a subagent's window is dropped. *)
HookWindow(h) == IF subhook[h] THEN NoWindow ELSE event[h].window
-----------------------------------------------------------------------------
(* update_session *)

AfterUpdate(h) ==
    CASE stage[h] = "identify" -> AfterIdentity(h)
      [] stage[h] = "title"    -> Goto(h, "watch")
      [] stage[h] = "update"   -> Goto(h, "link")

(* What the closure of the current stage does to an object. *)
UpdatedSubagent(h, old) == IF stage[h] = "identify" THEN TRUE ELSE old
UpdatedWindow(h, old) ==
    IF stage[h] = "identify" \/ HookWindow(h) = NoWindow THEN old ELSE HookWindow(h)

(* Definitions marked "Faulty" are no part of the specification: each is   *)
(* the definition that follows it with a plausible mistake.                *)

(* Faulty: the create lock is held for the test only. *)
EnsureUnlocked(h) ==
    /\ pc[h] = "create"
    /\ lock = NoTask
    /\ Goto(h, IF Published(h) = NoObject THEN "publish" ELSE "lookup")
    /\ UNCHANGED <<hookVars, target, objectVars, lock, ref, removalVars, storeVars,
                   watchVars, relation>>

(* Under the create lock: does the object exist? *)
EnsureSession(h) ==
    /\ pc[h] = "create"
    /\ lock = NoTask
    /\ IF Published(h) = NoObject
       THEN lock' = h /\ Goto(h, "publish")
       ELSE UNCHANGED lock /\ Goto(h, "lookup")
    /\ UNCHANGED <<hookVars, target, objectVars, ref, removalVars, storeVars, watchVars,
                   relation>>

NewObject(h) ==
    /\ born < MaxObject
    /\ born' = born + 1
    /\ object' = [object EXCEPT ![target[h]] = born']
    /\ subagent' = [subagent EXCEPT ![born'] = UpdatedSubagent(h, FALSE)]
    /\ window' = [window EXCEPT ![born'] = UpdatedWindow(h, NoWindow)]
    /\ maker' = [maker EXCEPT ![born'] = h]

(* Faulty: the create lock is never given back. *)
PublishKeepingLock(h) ==
    /\ pc[h] = "publish"
    /\ IF Published(h) = NoObject THEN NewObject(h) ELSE UNCHANGED objectVars
    /\ UNCHANGED lock
    /\ AfterUpdate(h)
    /\ UNCHANGED <<hookVars, target, ref, removalVars, storeVars, watchVars, relation>>

(* Still under the lock: a new object is published with the update already *)
(* applied.  If one had appeared meanwhile the update would be dropped.    *)
PublishSession(h) ==
    /\ pc[h] = "publish"
    /\ IF Published(h) = NoObject THEN NewObject(h) ELSE UNCHANGED objectVars
    /\ lock' = NoTask
    /\ AfterUpdate(h)
    /\ UNCHANGED <<hookVars, target, ref, removalVars, storeVars, watchVars, relation>>

(* The object exists and is looked up again; if it has been removed since, *)
(* the update is lost and the error logged.                                *)
LookupSession(h) ==
    /\ pc[h] = "lookup"
    /\ ref' = [ref EXCEPT ![h] = Published(h)]
    /\ IF Published(h) # NoObject THEN Goto(h, "apply") ELSE AfterUpdate(h)
    /\ UNCHANGED <<hookVars, target, objectVars, lock, removalVars, storeVars, watchVars,
                   relation>>

(* The closure runs on the object that was found, published or not. *)
ApplyUpdate(h) ==
    /\ pc[h] = "apply"
    /\ subagent' = [subagent EXCEPT ![ref[h]] = UpdatedSubagent(h, @)]
    /\ window' = [window EXCEPT ![ref[h]] = UpdatedWindow(h, @)]
    /\ AfterUpdate(h)
    /\ UNCHANGED <<hookVars, target, object, born, maker, lock, ref, removalVars,
                   storeVars, watchVars, relation>>
-----------------------------------------------------------------------------
(* maybe_watch_parent *)
WatchParent(h) ==
    /\ pc[h] = "watch"
    /\ parents' = IF event[h].pid = NoPid THEN parents
                  ELSE [parents EXCEPT ![target[h]] = event[h].pid]
    /\ owner' = IF event[h].pid = NoPid THEN owner
                ELSE [owner EXCEPT ![target[h]] = event[h].pid]
    /\ Goto(h, "dispatch")
    /\ UNCHANGED <<hookVars, target, objectVars, lock, ref, removalVars, ended, consumed,
                   watchVars, relation>>

(* The ended set is consulted under its lock, once, by some of the events. *)
SkipEnded(h) ==
    /\ pc[h] = "dispatch"
    /\ target[h] \in ended
    /\ event[h].kind \in Guarded
    /\ IF IsKind(h, "UpdateState")
       THEN ended' = ended \ {target[h]} /\ consumed' = consumed \cup {target[h]}
       ELSE UNCHANGED <<ended, consumed>>
    /\ Goto(h, "done")
    /\ UNCHANGED <<hookVars, target, objectVars, lock, ref, removalVars, parents, owner,
                   watchVars, relation>>

Dispatch(h) ==
    /\ pc[h] = "dispatch"
    /\ ~(target[h] \in ended /\ event[h].kind \in Guarded)
    /\ \/ IsKind(h, "SessionEnd") /\ Goto(h, "mark")
       \/ IsKind(h, "Stop") /\ Goto(h, "stop")
       \/ IsKind(h, "Notify") /\ Goto(h, "link")
       \/ event[h].kind \notin {"SessionEnd", "Stop", "Notify"} /\ Enter(h, "update")
    /\ UNCHANGED <<hookVars, target, objectVars, lock, ref, removalVars, storeVars,
                   watchVars, relation>>

(* A subagent is removed when it stops, any other session is updated. *)
StopSession(h) ==
    /\ pc[h] = "stop"
    /\ IF event[h].lineage \/ (Published(h) # NoObject /\ subagent[Published(h)])
       THEN Goto(h, "mark")
       ELSE Enter(h, "update")
    /\ UNCHANGED <<hookVars, target, objectVars, lock, ref, removalVars, storeVars,
                   watchVars, relation>>

(* link_session: SetOne makes the window point at this session. *)
LinkSession(h) ==
    /\ pc[h] = "link"
    /\ relation' = IF HookWindow(h) = NoWindow THEN relation
                   ELSE [relation EXCEPT ![HookWindow(h)] = target[h]]
    /\ Goto(h, "done")
    /\ UNCHANGED <<hookVars, target, objectVars, lock, ref, removalVars, storeVars, watchVars>>
-----------------------------------------------------------------------------
(* remove_session, by a hook or by the watcher *)

MarkEnded(t) ==
    /\ pc[t] = "mark"
    /\ ended' = ended \cup {target[t]}
    /\ Goto(t, "forget")
    /\ UNCHANGED <<hookVars, target, objectVars, lock, ref, removalVars, parents, consumed,
                   owner, watchVars, relation>>

ForgetParent(t) ==
    /\ pc[t] = "forget"
    /\ parents' = [parents EXCEPT ![target[t]] = NoPid]
    /\ Goto(t, "grab")
    /\ UNCHANGED <<hookVars, target, objectVars, lock, ref, removalVars, ended, consumed,
                   owner, watchVars, relation>>

GrabObject(t) ==
    /\ pc[t] = "grab"
    /\ ref' = [ref EXCEPT ![t] = Published(t)]
    /\ Goto(t, IF Published(t) = NoObject THEN "unlink" ELSE "cancel")
    /\ UNCHANGED <<hookVars, target, objectVars, lock, removalVars, storeVars, watchVars,
                   relation>>

(* The window is read and the requests are cancelled under the write lock. *)
CancelRequests(t) ==
    /\ pc[t] = "cancel"
    /\ unlinking' = [unlinking EXCEPT ![t] = window[ref[t]]]
    /\ Goto(t, "unlink")
    /\ UNCHANGED <<hookVars, target, objectVars, lock, ref, attempts, storeVars, watchVars,
                   relation>>

(* unlink_session: Unset drops the relation if it points at this session. *)
UnlinkSession(t) ==
    /\ pc[t] = "unlink"
    /\ relation' = [w \in Window |->
                      IF w = unlinking[t] /\ relation[w] = target[t] THEN NoSession
                      ELSE relation[w]]
    /\ Goto(t, "remove")
    /\ UNCHANGED <<hookVars, target, objectVars, lock, ref, removalVars, storeVars, watchVars>>

RemoveObject(t) ==
    /\ pc[t] = "remove"
    /\ object' = [object EXCEPT ![target[t]] = NoObject]
    /\ attempts' = [attempts EXCEPT ![t] = @ + 1]
    /\ Goto(t, "verify")
    /\ UNCHANGED <<hookVars, target, born, subagent, window, maker, lock, ref, unlinking,
                   storeVars, watchVars, relation>>

(* Faulty: what is there is not looked at, and there is one attempt too many. *)
RemoveBlindly(t) ==
    /\ pc[t] = "verify"
    /\ Goto(t, IF attempts[t] <= MaxAttempts THEN "remove" ELSE "done")
    /\ UNCHANGED <<hookVars, target, objectVars, lock, ref, removalVars, storeVars,
                   watchVars, relation>>

(* Up to three attempts; the watcher goes on with its snapshot. *)
VerifyRemoval(t) ==
    /\ pc[t] = "verify"
    /\ LET again == Published(t) # NoObject /\ attempts[t] < MaxAttempts
       IN  /\ Goto(t, IF again THEN "remove" ELSE IF t = Watcher THEN "idle" ELSE "done")
           /\ attempts' = [attempts EXCEPT ![t] = IF again THEN @ ELSE 0]
    /\ unlinking' = [unlinking EXCEPT ![t] = NoWindow]
    /\ UNCHANGED <<hookVars, target, objectVars, lock, ref, storeVars, watchVars, relation>>
-----------------------------------------------------------------------------
(* The parent watcher *)

(* An agent process exits. *)
Exit(p) ==
    /\ p \in alive
    /\ alive' = alive \ {p}
    /\ UNCHANGED <<hookVars, pc, stage, target, objectVars, lock, ref, removalVars, storeVars,
                   todo, relation>>

Snapshot ==
    /\ pc[Watcher] = "idle" /\ todo = {}
    /\ todo' = {e \in Session \X Pid : parents[e[1]] = e[2]}
    /\ UNCHANGED <<hookVars, pc, stage, target, objectVars, lock, ref, removalVars, storeVars,
                   alive, relation>>

(* The recorded process runs, or is no longer the recorded one. *)
Spare(s, p) ==
    /\ pc[Watcher] = "idle" /\ <<s, p>> \in todo
    /\ p \in alive \/ parents[s] # p
    /\ todo' = todo \ {<<s, p>>}
    /\ UNCHANGED <<hookVars, pc, stage, target, objectVars, lock, ref, removalVars, storeVars,
                   alive, relation>>

(* Faulty: the snapshot is trusted. *)
ReapStale(s, p) ==
    /\ pc[Watcher] = "idle" /\ <<s, p>> \in todo
    /\ p \notin alive
    /\ todo' = todo \ {<<s, p>>}
    /\ target' = [target EXCEPT ![Watcher] = s]
    /\ Goto(Watcher, "mark")
    /\ UNCHANGED <<hookVars, objectVars, lock, ref, removalVars, storeVars, alive, relation>>

(* Faulty: the entry is forgotten and the session left alone. *)
ReapEntryOnly(s, p) ==
    /\ pc[Watcher] = "idle" /\ <<s, p>> \in todo
    /\ p \notin alive /\ parents[s] = p
    /\ todo' = todo \ {<<s, p>>}
    /\ parents' = [parents EXCEPT ![s] = NoPid]
    /\ UNCHANGED <<hookVars, pc, stage, target, objectVars, lock, ref, removalVars, ended,
                   consumed, owner, alive, relation>>

(* The process is gone and still the recorded one: remove the session. *)
Reap(s, p) ==
    /\ pc[Watcher] = "idle" /\ <<s, p>> \in todo
    /\ p \notin alive /\ parents[s] = p
    /\ todo' = todo \ {<<s, p>>}
    /\ target' = [target EXCEPT ![Watcher] = s]
    /\ Goto(Watcher, "mark")
    /\ UNCHANGED <<hookVars, objectVars, lock, ref, removalVars, storeVars, alive, relation>>
-----------------------------------------------------------------------------
Remove(t) ==
    \/ MarkEnded(t) \/ ForgetParent(t) \/ GrabObject(t) \/ CancelRequests(t)
    \/ UnlinkSession(t) \/ RemoveObject(t) \/ VerifyRemoval(t)

Handle(h) ==
    \/ CheckTelemetry(h) \/ FindLineage(h)
    \/ EnsureSession(h) \/ PublishSession(h) \/ LookupSession(h) \/ ApplyUpdate(h)
    \/ WatchParent(h) \/ SkipEnded(h) \/ Dispatch(h) \/ StopSession(h) \/ LinkSession(h)

Watch == Snapshot \/ \E s \in Session, p \in Pid : Spare(s, p) \/ Reap(s, p)

Next ==
    \/ \E h \in Hook : Handle(h)
    \/ \E t \in Task : Remove(t)
    \/ Watch
    \/ \E p \in Pid : Exit(p)

Spec == Init /\ [][Next]_vars

(* Every task that can go on does, and the watcher keeps polling.  Agents  *)
(* need not exit.                                                          *)
FairSpec ==
    /\ Spec
    /\ \A h \in Hook : WF_vars(Handle(h))
    /\ \A t \in Task : WF_vars(Remove(t))
    /\ WF_vars(Watch)
-----------------------------------------------------------------------------
(* Safety *)

(* No task publishes over a live object: between the test and the          *)
(* publication nobody else creates the session, which is what the branch   *)
(* dbus.rs 1062 calls unreachable relies on.                               *)
CreatorsDoNotCollide ==
    \A h \in Hook : pc[h] = "publish" => Published(h) = NoObject

(* An event that arrives after its session has ended creates no object if  *)
(* it is telemetry, and if it is an UpdateState, a SessionStart or a Stop  *)
(* only through its lineage or its title (service.rs 69-77, 148-233).      *)
LateEventsCreateNothing ==
    \A o \in 1..born :
        LET h == maker[o]
        IN  late[h] /\ target[h] \notin consumed =>
                /\ ~IsKind(h, "Telemetry")
                /\ event[h].kind \in Guarded \cup {"SessionEnd", "Notify"}
                       => event[h].lineage \/ event[h].title

(* The watcher only begins to remove a session when the agent process last *)
(* reported for it has exited, however old its snapshot is.                *)
ReapOnlyAbandoned ==
    [][\A s \in Session :
          pc[Watcher] = "idle" /\ pc'[Watcher] = "mark" /\ target'[Watcher] = s
              => owner[s] \in Pid \ alive]_vars

(* When all is over, no object is left that a Stop has published which was *)
(* read after the end of its session (service.rs 226-228).                 *)
DuplicateStopLeavesNothing ==
    (\A h \in Hook : pc[h] = "done") =>
        \A o \in 1..born :
            LET h == maker[o]
            IN  IsKind(h, "Stop") /\ late[h] /\ target[h] \notin consumed
                    => Published(h) # o

(* When a session has ended and everything that raced with the end is over *)
(* no object of it is left (session_store.rs 74-77).                       *)
RemovalIsFinal ==
    \A g \in Hook :
        /\ IsKind(g, "SessionEnd")
        /\ \A h \in Hook : pc[h] = "done" /\ (target[h] = target[g] => ~late[h])
        => Published(g) = NoObject

(* The object of a subagent carries no window (service.rs 78-80).          *)
SubagentOwnsNoWindow ==
    \A o \in Object : subagent[o] => window[o] = NoWindow
-----------------------------------------------------------------------------
(* Liveness *)

(* Every connection is handled to its end, with one create lock for all.   *)
EveryHookFinishes == \A h \in Hook : <>(pc[h] = "done")

(* An object whose recorded agent process has exited goes, with no event   *)
(* from the agent (session_parents.rs 12-17).                              *)
DeadOwnerIsReaped ==
    \A s \in Session :
        (/\ \A h \in Hook : pc[h] = "done"
         /\ object[s] # NoObject
         /\ parents[s] \in Pid \ alive)
            ~> (object[s] = NoObject)
=============================================================================
