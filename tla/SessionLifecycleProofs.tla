----------------------- MODULE SessionLifecycleProofs -----------------------
(***************************************************************************)
(* The safety of SessionLifecycle, for any number of hooks, sessions,      *)
(* agent processes and objects.                                            *)
(***************************************************************************)
EXTENDS SessionLifecycle, TLAPS

Removing == {"mark", "forget", "grab", "cancel", "unlink", "remove", "verify"}
Updating == {"create", "publish", "lookup", "apply"}

(* The watcher idles or removes, and whoever works has a session. *)
ControlOK ==
    /\ \A h \in Hook : pc[h] # "idle" /\ target[h] \in Session
    /\ pc[Watcher] \in Removing \cup {"idle"}
    /\ pc[Watcher] # "idle" => target[Watcher] \in Session

(* A reference that is about to be used is to an object, and a removal     *)
(* that is about to try has an attempt left.                               *)
RefsOK ==
    \A t \in Task :
        /\ pc[t] \in {"apply", "cancel"} => ref[t] \in Object
        /\ pc[t] # "verify" => attempts[t] < MaxAttempts

(* Only the holder of the create lock publishes, and nothing is published. *)
CreatorsOK ==
    \A h \in Hook : pc[h] = "publish" => lock = h /\ Published(h) = NoObject

(* The recorded agent process is the one last reported, unless forgotten. *)
OwnersOK == \A s \in Session : parents[s] \in {NoPid, owner[s]}

(* Why a hook is in the pass through update_session that it is in. *)
StagesOK ==
    \A h \in Hook :
        /\ pc[h] \in Updating =>
              /\ stage[h] = "identify" => event[h].lineage
              /\ stage[h] = "title"    => event[h].title
              /\ stage[h] = "update"   => event[h].kind \notin {"SessionEnd", "Notify"}
        /\ pc[h] = "stop" => IsKind(h, "Stop")

(* What a late hook is kept from, while its session is marked as ended. *)
LateOK ==
    \A h \in Hook :
        late[h] /\ target[h] \notin consumed =>
            /\ target[h] \in ended
            /\ IsKind(h, "Telemetry") => pc[h] = "done"
            /\ event[h].kind \in Guarded =>
                  /\ pc[h] # "stop"
                  /\ pc[h] \in Updating => stage[h] # "update"

(* Every object was published by a hook that had been read. *)
MakersOK ==
    /\ \A o \in 1..born : maker[o] \in Hook /\ pc[maker[o]] # "read"
    /\ LateEventsCreateNothing

IInv ==
    /\ TypeOK
    /\ ControlOK
    /\ RefsOK
    /\ CreatorsOK
    /\ OwnersOK
    /\ StagesOK
    /\ LateOK
    /\ MakersOK
-----------------------------------------------------------------------------
(* The initial states satisfy the inductive invariant. *)
LEMMA InitIInv == Init => IInv
  <1> SUFFICES ASSUME Init PROVE IInv
    OBVIOUS
  <1> USE LifecycleAssumption
  <1>1. event \in [Hook -> Event]
    BY DEF Init
  <1>2. \A h \in Hook : h # Watcher /\ h \in Task /\ pc[h] = "read" /\ target[h] \in Session
    BY <1>1 DEF Init, Task, Event
  <1>3. pc[Watcher] = "idle"
    BY DEF Init, Task
  <1>4. TypeOK
    <2>1. target \in [Task -> Session \cup {NoSession}]
      BY <1>1, <1>2 DEF Init, Task, Event
    <2>2. alive \in SUBSET Pid
      BY <1>1 DEF Init, Event
    <2> QED
      BY <1>1, <2>1, <2>2 DEF Init, TypeOK, Pc, Task, Object, NoObject, NoTask, MaxAttempts
  <1>5. ControlOK /\ RefsOK
    BY <1>2, <1>3 DEF Init, ControlOK, RefsOK, Task, MaxAttempts
  <1>6. CreatorsOK /\ OwnersOK /\ StagesOK /\ LateOK /\ MakersOK
    <2>1. CreatorsOK /\ StagesOK
      BY <1>2 DEF CreatorsOK, StagesOK, Updating
    <2>2. OwnersOK /\ LateOK
      BY DEF Init, OwnersOK, LateOK
    <2>3. 1..born = {}
      BY DEF Init
    <2>4. MakersOK
      BY <2>3 DEF MakersOK, LateEventsCreateNothing
    <2> QED
      BY <2>1, <2>2, <2>4
  <1> QED
    BY <1>4, <1>5, <1>6 DEF IInv
-----------------------------------------------------------------------------
(* Where update_session may leave a hook: in the next pass, or past the    *)
(* last of those the event asks for.                                       *)
MovesOn(h, l, st) ==
    /\ pc' = [pc EXCEPT ![h] = l] /\ stage' = [stage EXCEPT ![h] = st]
    /\ \/ l = "create" /\ st = "title" /\ event[h].title
       \/ l \in {"watch", "link"} /\ st = stage[h]

(* What comes after the lineage is known moves the hook on. *)
LEMMA AfterIdentityMovesOn ==
    ASSUME TypeOK, NEW h \in Hook, AfterIdentity(h)
    PROVE  \E l, st : MovesOn(h, l, st)
  <1>1. stage \in [Task -> {"identify", "title", "update"}]
    BY DEF TypeOK
  <1>2. CASE event[h].title
    <2>1. MovesOn(h, "create", "title")
      BY <1>2 DEF AfterIdentity, Enter, MovesOn
    <2> QED
      BY <2>1
  <1>3. CASE ~event[h].title
    <2>1. pc' = [pc EXCEPT ![h] = "watch"] /\ stage' = stage
      BY <1>3 DEF AfterIdentity, Goto
    <2>2. stage' = [stage EXCEPT ![h] = stage[h]]
      BY <1>1, <2>1 DEF Task
    <2>3. MovesOn(h, "watch", stage[h])
      BY <2>1, <2>2 DEF MovesOn
    <2> QED
      BY <2>3
  <1> QED
    BY <1>2, <1>3

(* So does a pass through update_session, whichever it was. *)
LEMMA AfterUpdateMovesOn ==
    ASSUME TypeOK, NEW h \in Hook, AfterUpdate(h)
    PROVE  \E l, st : MovesOn(h, l, st)
  <1>1. stage \in [Task -> {"identify", "title", "update"}] /\ h \in Task
    BY DEF TypeOK, Task
  <1>2. CASE stage[h] = "identify"
    <2>1. AfterIdentity(h)
      BY <1>2 DEF AfterUpdate
    <2> QED
      BY <2>1, AfterIdentityMovesOn
  <1>3. ASSUME NEW l \in {"watch", "link"}, Goto(h, l) PROVE \E k, st : MovesOn(h, k, st)
    <2>1. stage' = [stage EXCEPT ![h] = stage[h]]
      BY <1>1, <1>3 DEF Goto
    <2>2. MovesOn(h, l, stage[h])
      BY <1>3, <2>1 DEF MovesOn, Goto
    <2> QED
      BY <2>2
  <1>4. CASE stage[h] = "title"
    <2>1. Goto(h, "watch")
      BY <1>4 DEF AfterUpdate
    <2> QED
      BY <1>3, <2>1
  <1>5. CASE stage[h] = "update"
    <2>1. Goto(h, "link")
      BY <1>5 DEF AfterUpdate
    <2> QED
      BY <1>3, <2>1
  <1> QED
    BY <1>1, <1>2, <1>4, <1>5
(* CheckTelemetry preserves the inductive invariant. *)
LEMMA CheckTelemetryIInv ==
    ASSUME IInv, NEW h \in Hook, CheckTelemetry(h)
    PROVE  IInv'
  <1> USE LifecycleAssumption DEF IInv, CheckTelemetry, Goto, hookVars,
        objectVars, removalVars, storeVars, watchVars
  <1>1. TypeOK'
    BY DEF TypeOK, Pc, Task
  <1>2. ControlOK'
    BY DEF TypeOK, ControlOK, Removing, Task
  <1>3. RefsOK'
    BY DEF TypeOK, RefsOK, Task
  <1>4. CreatorsOK'
    BY DEF TypeOK, CreatorsOK, Published, Task
  <1>5. OwnersOK'
    BY DEF TypeOK, OwnersOK
  <1>6. StagesOK'
    BY DEF TypeOK, StagesOK, Updating, IsKind, Task
  <1>7. LateOK'
    BY DEF TypeOK, LateOK, Updating, IsKind, Task
  <1>8. MakersOK'
    BY DEF TypeOK, MakersOK, LateEventsCreateNothing, IsKind, Task
  <1> QED
    BY <1>1, <1>2, <1>3, <1>4, <1>5, <1>6, <1>7, <1>8
(* FindLineage preserves the inductive invariant. *)
LEMMA FindLineageIInv ==
    ASSUME IInv, NEW h \in Hook, FindLineage(h)
    PROVE  IInv'
  <1> USE LifecycleAssumption DEF IInv
  <1>1. /\ pc[h] = "lineage" /\ \E b \in BOOLEAN : subhook' = [subhook EXCEPT ![h] = b]
        /\ UNCHANGED <<event, target, late, objectVars, lock, ref, removalVars, storeVars,
                       watchVars, relation>>
    <2>1. (event[h].lineage \/ (Published(h) # NoObject /\ subagent[Published(h)]))
             \in BOOLEAN
      BY DEF TypeOK, Event, Published, Object, NoObject
    <2> QED
      BY <2>1 DEF FindLineage
  <1>2. PICK l, st : /\ pc' = [pc EXCEPT ![h] = l] /\ stage' = [stage EXCEPT ![h] = st]
                     /\ \/ l = "create" /\ st = "title" /\ event[h].title
                        \/ l \in {"watch", "link"} /\ st = stage[h]
                        \/ l = "create" /\ st = "identify" /\ event[h].lineage
    <2>1. CASE event[h].lineage
      BY <2>1 DEF FindLineage, Enter
    <2>2. CASE ~event[h].lineage
      BY <2>2, AfterIdentityMovesOn DEF FindLineage, MovesOn
    <2> QED
      BY <2>1, <2>2
  <1>3. h \in Task /\ h # Watcher /\ st \in {"identify", "title", "update"}
    BY <1>2 DEF Task, TypeOK
  <1> USE <1>1, <1>2, <1>3 DEF objectVars, removalVars, storeVars, watchVars
  <1>4. TypeOK'
    BY DEF TypeOK, Pc, Task
  <1>5. ControlOK'
    BY DEF TypeOK, ControlOK, Task
  <1>6. RefsOK'
    BY DEF TypeOK, RefsOK, Task
  <1>7. CreatorsOK'
    BY DEF TypeOK, CreatorsOK, Published, Task
  <1>8. OwnersOK'
    BY DEF OwnersOK
  <1>9. StagesOK'
    BY DEF TypeOK, StagesOK, Updating, IsKind, Task
  <1>10. LateOK'
    BY DEF TypeOK, LateOK, Updating, IsKind, Task
  <1>11. MakersOK'
    BY DEF TypeOK, MakersOK, LateEventsCreateNothing, IsKind, Task
  <1> QED
    BY <1>4, <1>5, <1>6, <1>7, <1>8, <1>9, <1>10, <1>11 DEF IInv
(* EnsureSession preserves the inductive invariant. *)
LEMMA EnsureSessionIInv ==
    ASSUME IInv, NEW h \in Hook, EnsureSession(h)
    PROVE  IInv'
  <1> USE LifecycleAssumption DEF IInv
  <1> DEFINE free == Published(h) = NoObject
             l == IF free THEN "publish" ELSE "lookup"
  <1>1. /\ pc[h] = "create" /\ lock = NoTask
        /\ pc' = [pc EXCEPT ![h] = l] /\ lock' = IF free THEN h ELSE lock
        /\ UNCHANGED <<hookVars, stage, target, objectVars, ref, removalVars, storeVars,
                       watchVars, relation>>
    BY DEF EnsureSession, Goto
  <1>2. l \in {"publish", "lookup"} /\ h \in Task /\ h # Watcher /\ h # NoTask
    BY DEF Task, NoTask
  <1> HIDE DEF l
  <1> USE <1>1, <1>2 DEF hookVars, objectVars, removalVars, storeVars, watchVars
  <1>3. TypeOK'
    BY DEF TypeOK, Pc, Task
  <1>4. ControlOK'
    BY DEF TypeOK, ControlOK, Task
  <1>5. RefsOK'
    BY DEF TypeOK, RefsOK, Task
  <1>6. CreatorsOK'
    <2> SUFFICES ASSUME NEW g \in Hook, pc'[g] = "publish"
                 PROVE  lock' = g /\ object'[target'[g]] = NoObject
      BY DEF CreatorsOK, Published
    <2>1. g = h
      BY DEF TypeOK, CreatorsOK, NoTask, Task
    <2>2. free
      BY <2>1 DEF l, TypeOK
    <2> QED
      BY <2>1, <2>2 DEF Published
  <1>7. OwnersOK'
    BY DEF OwnersOK
  <1>8. StagesOK'
    BY DEF TypeOK, StagesOK, Updating, IsKind, Task
  <1>9. LateOK'
    BY DEF TypeOK, LateOK, Updating, IsKind, Task
  <1>10. MakersOK'
    BY DEF TypeOK, MakersOK, LateEventsCreateNothing, IsKind, Task
  <1> QED
    BY <1>3, <1>4, <1>5, <1>6, <1>7, <1>8, <1>9, <1>10 DEF IInv
(* PublishSession preserves the inductive invariant: the hook holds the create lock,
   so the object it publishes is the first there, and the hook is its maker. *)
LEMMA PublishSessionIInv ==
    ASSUME IInv, NEW h \in Hook, PublishSession(h)
    PROVE  IInv'
  <1> USE LifecycleAssumption DEF IInv
  <1>1. /\ pc[h] = "publish" /\ lock' = NoTask
        /\ UNCHANGED <<hookVars, target, ref, removalVars, storeVars, watchVars, relation>>
    BY DEF PublishSession
  <1>2. PICK l, st : MovesOn(h, l, st)
    BY AfterUpdateMovesOn DEF PublishSession
  <1>3. /\ h \in Task /\ h # Watcher /\ st \in {"identify", "title", "update"}
        /\ l \in {"create", "watch", "link"} /\ target[h] \in Session
    BY <1>2 DEF Task, TypeOK, MovesOn, ControlOK
  <1>4. NewObject(h)
    BY <1>1 DEF PublishSession, CreatorsOK
  <1>5. born \in Nat /\ born' = born + 1 /\ born' \in Object
    BY <1>4 DEF NewObject, TypeOK, Object
  <1>6. /\ object' = [object EXCEPT ![target[h]] = born']
        /\ maker' = [maker EXCEPT ![born'] = h]
    BY <1>4 DEF NewObject
  <1> USE <1>1, <1>2, <1>3 DEF MovesOn, hookVars, removalVars, storeVars, watchVars
  <1>7. TypeOK'
    <2>1. subagent' \in [Object -> BOOLEAN]
      BY <1>4, <1>5 DEF NewObject, TypeOK, UpdatedSubagent
    <2>2. HookWindow(h) \in Window \cup {NoWindow}
      BY DEF HookWindow, TypeOK, Event
    <2>3. window' \in [Object -> Window \cup {NoWindow}]
      BY <1>4, <1>5, <2>2 DEF NewObject, TypeOK, UpdatedWindow
    <2>4. object' \in [Session -> Object \cup {NoObject}] /\ born' \in 0..MaxObject
      BY <1>5, <1>6 DEF TypeOK, Object
    <2>5. maker' \in [Object -> Hook \cup {NoTask}] /\ lock' \in Hook \cup {NoTask}
      BY <1>5, <1>6 DEF TypeOK
    <2>6. pc' \in [Task -> Pc] /\ stage' \in [Task -> {"identify", "title", "update"}]
      BY DEF TypeOK, Pc
    <2> QED
      BY <2>1, <2>3, <2>4, <2>5, <2>6 DEF TypeOK
  <1>8. ControlOK'
    BY DEF TypeOK, ControlOK, Task
  <1>9. RefsOK'
    BY DEF TypeOK, RefsOK, Task
  <1>10. CreatorsOK'
    <2>1. \A g \in Hook : pc'[g] # "publish"
      BY DEF TypeOK, CreatorsOK, Task
    <2> QED
      BY <2>1 DEF CreatorsOK
  <1>11. OwnersOK'
    BY DEF OwnersOK
  <1>12. StagesOK'
    BY DEF TypeOK, StagesOK, Updating, IsKind, Task
  <1>13. LateOK'
    BY DEF TypeOK, LateOK, Updating, IsKind, Task
  <1>14. MakersOK'
    <2> SUFFICES ASSUME NEW o \in 1..born'
                 PROVE  /\ maker'[o] \in Hook /\ pc'[maker'[o]] # "read"
                        /\ late[maker'[o]] /\ target[maker'[o]] \notin consumed =>
                             /\ ~IsKind(maker'[o], "Telemetry")
                             /\ event[maker'[o]].kind \in
                                    Guarded \cup {"SessionEnd", "Notify"}
                                  => event[maker'[o]].lineage \/ event[maker'[o]].title
      BY DEF MakersOK, LateEventsCreateNothing, IsKind
    <2>1. CASE o = born'
      <3>1. maker'[o] = h /\ pc'[h] # "read"
        BY <1>5, <1>6, <2>1 DEF TypeOK
      <3>2. late[h] /\ target[h] \notin consumed =>
               /\ ~IsKind(h, "Telemetry")
               /\ event[h].kind \in Guarded \cup {"SessionEnd", "Notify"}
                    => event[h].lineage \/ event[h].title
        BY DEF TypeOK, LateOK, StagesOK, Updating
      <3> QED
        BY <3>1, <3>2
    <2>2. CASE o # born'
      <3>1. o \in 1..born /\ maker'[o] = maker[o]
        BY <1>5, <1>6, <2>2 DEF TypeOK, Object
      <3>2. pc'[maker[o]] # "read"
        BY <3>1 DEF MakersOK, TypeOK, Task
      <3> QED
        BY <3>1, <3>2 DEF MakersOK, LateEventsCreateNothing, IsKind
    <2> QED
      BY <2>1, <2>2
  <1> QED
    BY <1>7, <1>8, <1>9, <1>10, <1>11, <1>12, <1>13, <1>14 DEF IInv
(* LookupSession preserves the inductive invariant. *)
LEMMA LookupSessionIInv ==
    ASSUME IInv, NEW h \in Hook, LookupSession(h)
    PROVE  IInv'
  <1> USE LifecycleAssumption DEF IInv
  <1>1. /\ pc[h] = "lookup" /\ ref' = [ref EXCEPT ![h] = Published(h)]
        /\ UNCHANGED <<hookVars, target, objectVars, lock, removalVars, storeVars,
                       watchVars, relation>>
    BY DEF LookupSession
  <1>2. PICK l, st : /\ pc' = [pc EXCEPT ![h] = l] /\ stage' = [stage EXCEPT ![h] = st]
                     /\ \/ l = "create" /\ st = "title" /\ event[h].title
                        \/ l \in {"watch", "link"} /\ st = stage[h]
                        \/ l = "apply" /\ st = stage[h] /\ Published(h) # NoObject
    <2>1. CASE Published(h) # NoObject
      <3>1. pc' = [pc EXCEPT ![h] = "apply"] /\ stage' = stage
        BY <2>1 DEF LookupSession, Goto
      <3>2. stage' = [stage EXCEPT ![h] = stage[h]]
        BY <3>1 DEF TypeOK
      <3> QED
        BY <2>1, <3>1, <3>2
    <2>2. CASE Published(h) = NoObject
      BY <2>2, AfterUpdateMovesOn DEF LookupSession, MovesOn
    <2> QED
      BY <2>1, <2>2
  <1>3. /\ h \in Task /\ h # Watcher /\ st \in {"identify", "title", "update"}
        /\ Published(h) \in Object \cup {NoObject}
    BY <1>2 DEF Task, TypeOK, ControlOK, Published
  <1> USE <1>1, <1>2, <1>3 DEF hookVars, objectVars, removalVars, storeVars, watchVars
  <1>4. TypeOK'
    BY DEF TypeOK, Pc, Task
  <1>5. ControlOK'
    BY DEF TypeOK, ControlOK, Task
  <1>6. RefsOK'
    BY DEF TypeOK, RefsOK, Task
  <1>7. CreatorsOK'
    BY DEF TypeOK, CreatorsOK, Published, Task
  <1>8. OwnersOK'
    BY DEF OwnersOK
  <1>9. StagesOK'
    BY DEF TypeOK, StagesOK, Updating, IsKind, Task
  <1>10. LateOK'
    BY DEF TypeOK, LateOK, Updating, IsKind, Task
  <1>11. MakersOK'
    BY DEF TypeOK, MakersOK, LateEventsCreateNothing, IsKind, Task
  <1> QED
    BY <1>4, <1>5, <1>6, <1>7, <1>8, <1>9, <1>10, <1>11 DEF IInv
(* ApplyUpdate preserves the inductive invariant. *)
LEMMA ApplyUpdateIInv ==
    ASSUME IInv, NEW h \in Hook, ApplyUpdate(h)
    PROVE  IInv'
  <1> USE LifecycleAssumption DEF IInv
  <1>1. /\ pc[h] = "apply"
        /\ UNCHANGED <<hookVars, target, object, born, maker, lock, ref, removalVars,
                       storeVars, watchVars, relation>>
    BY DEF ApplyUpdate
  <1>2. PICK l, st : MovesOn(h, l, st)
    BY AfterUpdateMovesOn DEF ApplyUpdate
  <1>3. /\ h \in Task /\ h # Watcher /\ st \in {"identify", "title", "update"}
        /\ l \in {"create", "watch", "link"}
    BY <1>2 DEF Task, TypeOK, MovesOn
  <1>4. subagent' \in [Object -> BOOLEAN]
    BY <1>3 DEF ApplyUpdate, TypeOK, UpdatedSubagent
  <1>5. window' \in [Object -> Window \cup {NoWindow}]
    <2>1. HookWindow(h) \in Window \cup {NoWindow}
      BY DEF HookWindow, TypeOK, Event
    <2> QED
      BY <2>1 DEF ApplyUpdate, TypeOK, UpdatedWindow
  <1> USE <1>1, <1>2, <1>3 DEF MovesOn, hookVars, removalVars, storeVars, watchVars
  <1>6. TypeOK'
    BY <1>4, <1>5 DEF TypeOK, Pc, Task
  <1>7. ControlOK'
    BY DEF TypeOK, ControlOK, Task
  <1>8. RefsOK'
    BY DEF TypeOK, RefsOK, Task
  <1>9. CreatorsOK'
    BY DEF TypeOK, CreatorsOK, Published, Task
  <1>10. OwnersOK'
    BY DEF OwnersOK
  <1>11. StagesOK'
    BY DEF TypeOK, StagesOK, Updating, IsKind, Task
  <1>12. LateOK'
    BY DEF TypeOK, LateOK, Updating, IsKind, Task
  <1>13. MakersOK'
    BY DEF TypeOK, MakersOK, LateEventsCreateNothing, IsKind, Task
  <1> QED
    BY <1>6, <1>7, <1>8, <1>9, <1>10, <1>11, <1>12, <1>13 DEF IInv
(* WatchParent preserves the inductive invariant. *)
LEMMA WatchParentIInv ==
    ASSUME IInv, NEW h \in Hook, WatchParent(h)
    PROVE  IInv'
  <1> USE LifecycleAssumption DEF IInv, WatchParent, Goto, hookVars,
        objectVars, removalVars, storeVars, watchVars
  <1>0. target[h] \in Session /\ event[h].pid \in Pid \cup {NoPid}
    BY DEF ControlOK, TypeOK, Event
  <1>1. TypeOK'
    BY <1>0 DEF TypeOK, Pc, Task
  <1>2. ControlOK'
    BY DEF TypeOK, ControlOK, Removing, Task
  <1>3. RefsOK'
    BY DEF TypeOK, RefsOK, Task
  <1>4. CreatorsOK'
    BY DEF TypeOK, CreatorsOK, Published, Task
  <1>5. OwnersOK'
    BY DEF TypeOK, OwnersOK
  <1>6. StagesOK'
    BY DEF TypeOK, StagesOK, Updating, IsKind, Task
  <1>7. LateOK'
    BY DEF TypeOK, LateOK, Updating, IsKind, Task
  <1>8. MakersOK'
    BY DEF TypeOK, MakersOK, LateEventsCreateNothing, IsKind, Task
  <1> QED
    BY <1>1, <1>2, <1>3, <1>4, <1>5, <1>6, <1>7, <1>8
(* SkipEnded preserves the inductive invariant. *)
LEMMA SkipEndedIInv ==
    ASSUME IInv, NEW h \in Hook, SkipEnded(h)
    PROVE  IInv'
  <1> USE LifecycleAssumption DEF IInv, SkipEnded, Goto, hookVars, objectVars,
        removalVars, storeVars, watchVars
  <1>1. TypeOK'
    BY DEF TypeOK, Pc, Task
  <1>2. ControlOK'
    BY DEF TypeOK, ControlOK, Removing, Task
  <1>3. RefsOK'
    BY DEF TypeOK, RefsOK, Task
  <1>4. CreatorsOK'
    BY DEF TypeOK, CreatorsOK, Published, Task
  <1>5. OwnersOK'
    BY DEF TypeOK, OwnersOK
  <1>6. StagesOK'
    BY DEF TypeOK, StagesOK, Updating, IsKind, Task
  <1>7. LateOK'
    BY DEF TypeOK, LateOK, Updating, IsKind, Task
  <1>8. MakersOK'
    BY DEF TypeOK, MakersOK, LateEventsCreateNothing, IsKind, Task
  <1> QED
    BY <1>1, <1>2, <1>3, <1>4, <1>5, <1>6, <1>7, <1>8
(* Dispatch preserves the inductive invariant. *)
LEMMA DispatchIInv ==
    ASSUME IInv, NEW h \in Hook, Dispatch(h)
    PROVE  IInv'
  <1> USE LifecycleAssumption DEF IInv, Dispatch, Goto, Enter, Guarded,
        hookVars, objectVars, removalVars, storeVars, watchVars
  <1>1. TypeOK'
    BY DEF TypeOK, Pc, Task
  <1>2. ControlOK'
    BY DEF TypeOK, ControlOK, Removing, Task
  <1>3. RefsOK'
    BY DEF TypeOK, RefsOK, Task
  <1>4. CreatorsOK'
    BY DEF TypeOK, CreatorsOK, Published, Task
  <1>5. OwnersOK'
    BY DEF TypeOK, OwnersOK
  <1>6. StagesOK'
    BY DEF TypeOK, StagesOK, Updating, IsKind, Task
  <1>7. LateOK'
    BY DEF TypeOK, LateOK, Updating, IsKind, Task
  <1>8. MakersOK'
    BY DEF TypeOK, MakersOK, LateEventsCreateNothing, IsKind, Task
  <1> QED
    BY <1>1, <1>2, <1>3, <1>4, <1>5, <1>6, <1>7, <1>8
(* StopSession preserves the inductive invariant. *)
LEMMA StopSessionIInv ==
    ASSUME IInv, NEW h \in Hook, StopSession(h)
    PROVE  IInv'
  <1> USE LifecycleAssumption DEF IInv, StopSession, Goto, Enter, hookVars,
        objectVars, removalVars, storeVars, watchVars
  <1>1. TypeOK'
    BY DEF TypeOK, Pc, Task
  <1>2. ControlOK'
    BY DEF TypeOK, ControlOK, Removing, Task
  <1>3. RefsOK'
    BY DEF TypeOK, RefsOK, Task
  <1>4. CreatorsOK'
    BY DEF TypeOK, CreatorsOK, Published, Task
  <1>5. OwnersOK'
    BY DEF TypeOK, OwnersOK
  <1>6. StagesOK'
    BY DEF TypeOK, StagesOK, Updating, IsKind, Task
  <1>7. LateOK'
    BY DEF TypeOK, LateOK, Updating, IsKind, Task
  <1>8. MakersOK'
    BY DEF TypeOK, MakersOK, LateEventsCreateNothing, IsKind, Task
  <1> QED
    BY <1>1, <1>2, <1>3, <1>4, <1>5, <1>6, <1>7, <1>8
(* LinkSession preserves the inductive invariant. *)
LEMMA LinkSessionIInv ==
    ASSUME IInv, NEW h \in Hook, LinkSession(h)
    PROVE  IInv'
  <1> USE LifecycleAssumption DEF IInv, LinkSession, Goto, hookVars,
        objectVars, removalVars, storeVars, watchVars
  <1>1. TypeOK'
    BY DEF TypeOK, Pc, Task
  <1>2. ControlOK'
    BY DEF TypeOK, ControlOK, Removing, Task
  <1>3. RefsOK'
    BY DEF TypeOK, RefsOK, Task
  <1>4. CreatorsOK'
    BY DEF TypeOK, CreatorsOK, Published, Task
  <1>5. OwnersOK'
    BY DEF TypeOK, OwnersOK
  <1>6. StagesOK'
    BY DEF TypeOK, StagesOK, Updating, IsKind, Task
  <1>7. LateOK'
    BY DEF TypeOK, LateOK, Updating, IsKind, Task
  <1>8. MakersOK'
    BY DEF TypeOK, MakersOK, LateEventsCreateNothing, IsKind, Task
  <1> QED
    BY <1>1, <1>2, <1>3, <1>4, <1>5, <1>6, <1>7, <1>8
(* MarkEnded preserves the inductive invariant. *)
LEMMA MarkEndedIInv ==
    ASSUME IInv, NEW t \in Task, MarkEnded(t)
    PROVE  IInv'
  <1> USE LifecycleAssumption DEF IInv, MarkEnded, Goto, hookVars, objectVars,
        removalVars, storeVars, watchVars
  <1>0. target[t] \in Session /\ t \in Task
    BY DEF ControlOK, Removing, Task
  <1>1. TypeOK'
    BY <1>0 DEF TypeOK, Pc, Task
  <1>2. ControlOK'
    BY DEF TypeOK, ControlOK, Removing, Task
  <1>3. RefsOK'
    BY DEF TypeOK, RefsOK, Task
  <1>4. CreatorsOK'
    BY DEF TypeOK, CreatorsOK, Published, Task
  <1>5. OwnersOK'
    BY DEF TypeOK, OwnersOK
  <1>6. StagesOK'
    BY DEF TypeOK, StagesOK, Updating, IsKind, Task
  <1>7. LateOK'
    BY DEF TypeOK, LateOK, Updating, IsKind, Task
  <1>8. MakersOK'
    BY DEF TypeOK, MakersOK, LateEventsCreateNothing, IsKind, Task
  <1> QED
    BY <1>1, <1>2, <1>3, <1>4, <1>5, <1>6, <1>7, <1>8
(* ForgetParent preserves the inductive invariant. *)
LEMMA ForgetParentIInv ==
    ASSUME IInv, NEW t \in Task, ForgetParent(t)
    PROVE  IInv'
  <1> USE LifecycleAssumption DEF IInv, ForgetParent, Goto, hookVars,
        objectVars, removalVars, storeVars, watchVars
  <1>1. TypeOK'
    BY DEF TypeOK, Pc, Task
  <1>2. ControlOK'
    BY DEF TypeOK, ControlOK, Removing, Task
  <1>3. RefsOK'
    BY DEF TypeOK, RefsOK, Task
  <1>4. CreatorsOK'
    BY DEF TypeOK, CreatorsOK, Published, Task
  <1>5. OwnersOK'
    BY DEF TypeOK, OwnersOK
  <1>6. StagesOK'
    BY DEF TypeOK, StagesOK, Updating, IsKind, Task
  <1>7. LateOK'
    BY DEF TypeOK, LateOK, Updating, IsKind, Task
  <1>8. MakersOK'
    BY DEF TypeOK, MakersOK, LateEventsCreateNothing, IsKind, Task
  <1> QED
    BY <1>1, <1>2, <1>3, <1>4, <1>5, <1>6, <1>7, <1>8
(* GrabObject preserves the inductive invariant. *)
LEMMA GrabObjectIInv ==
    ASSUME IInv, NEW t \in Task, GrabObject(t)
    PROVE  IInv'
  <1> USE LifecycleAssumption DEF IInv, GrabObject, Goto, Published, hookVars,
        objectVars, removalVars, storeVars, watchVars
  <1>0. Published(t) \in Object \cup {NoObject}
    BY DEF ControlOK, TypeOK, Removing, Task, Published
  <1>1. TypeOK'
    BY <1>0 DEF TypeOK, Pc, Task
  <1>2. ControlOK'
    BY DEF TypeOK, ControlOK, Removing, Task
  <1>3. RefsOK'
    BY <1>0 DEF TypeOK, RefsOK, Task
  <1>4. CreatorsOK'
    BY DEF TypeOK, CreatorsOK, Published, Task
  <1>5. OwnersOK'
    BY DEF TypeOK, OwnersOK
  <1>6. StagesOK'
    BY DEF TypeOK, StagesOK, Updating, IsKind, Task
  <1>7. LateOK'
    BY DEF TypeOK, LateOK, Updating, IsKind, Task
  <1>8. MakersOK'
    BY DEF TypeOK, MakersOK, LateEventsCreateNothing, IsKind, Task
  <1> QED
    BY <1>1, <1>2, <1>3, <1>4, <1>5, <1>6, <1>7, <1>8
(* CancelRequests preserves the inductive invariant. *)
LEMMA CancelRequestsIInv ==
    ASSUME IInv, NEW t \in Task, CancelRequests(t)
    PROVE  IInv'
  <1> USE LifecycleAssumption DEF IInv, CancelRequests, Goto, hookVars,
        objectVars, removalVars, storeVars, watchVars
  <1>0. window[ref[t]] \in Window \cup {NoWindow}
    BY DEF RefsOK, TypeOK
  <1>1. TypeOK'
    BY <1>0 DEF TypeOK, Pc, Task
  <1>2. ControlOK'
    BY DEF TypeOK, ControlOK, Removing, Task
  <1>3. RefsOK'
    BY DEF TypeOK, RefsOK, Task
  <1>4. CreatorsOK'
    BY DEF TypeOK, CreatorsOK, Published, Task
  <1>5. OwnersOK'
    BY DEF TypeOK, OwnersOK
  <1>6. StagesOK'
    BY DEF TypeOK, StagesOK, Updating, IsKind, Task
  <1>7. LateOK'
    BY DEF TypeOK, LateOK, Updating, IsKind, Task
  <1>8. MakersOK'
    BY DEF TypeOK, MakersOK, LateEventsCreateNothing, IsKind, Task
  <1> QED
    BY <1>1, <1>2, <1>3, <1>4, <1>5, <1>6, <1>7, <1>8
(* UnlinkSession preserves the inductive invariant. *)
LEMMA UnlinkSessionIInv ==
    ASSUME IInv, NEW t \in Task, UnlinkSession(t)
    PROVE  IInv'
  <1> USE LifecycleAssumption DEF IInv, UnlinkSession, Goto, hookVars,
        objectVars, removalVars, storeVars, watchVars
  <1>1. TypeOK'
    BY DEF TypeOK, Pc, Task
  <1>2. ControlOK'
    BY DEF TypeOK, ControlOK, Removing, Task
  <1>3. RefsOK'
    BY DEF TypeOK, RefsOK, Task
  <1>4. CreatorsOK'
    BY DEF TypeOK, CreatorsOK, Published, Task
  <1>5. OwnersOK'
    BY DEF TypeOK, OwnersOK
  <1>6. StagesOK'
    BY DEF TypeOK, StagesOK, Updating, IsKind, Task
  <1>7. LateOK'
    BY DEF TypeOK, LateOK, Updating, IsKind, Task
  <1>8. MakersOK'
    BY DEF TypeOK, MakersOK, LateEventsCreateNothing, IsKind, Task
  <1> QED
    BY <1>1, <1>2, <1>3, <1>4, <1>5, <1>6, <1>7, <1>8
(* RemoveObject preserves the inductive invariant. *)
LEMMA RemoveObjectIInv ==
    ASSUME IInv, NEW t \in Task, RemoveObject(t)
    PROVE  IInv'
  <1> USE LifecycleAssumption DEF IInv, RemoveObject, Goto, hookVars,
        objectVars, removalVars, storeVars, watchVars
  <1>0. target[t] \in Session /\ attempts[t] + 1 \in 0..MaxAttempts
    BY DEF ControlOK, RefsOK, TypeOK, Removing, Task, MaxAttempts
  <1>1. TypeOK'
    BY <1>0 DEF TypeOK, Pc, Task
  <1>2. ControlOK'
    BY DEF TypeOK, ControlOK, Removing, Task
  <1>3. RefsOK'
    BY DEF TypeOK, RefsOK, Task
  <1>4. CreatorsOK'
    BY DEF TypeOK, CreatorsOK, Published, Task
  <1>5. OwnersOK'
    BY DEF TypeOK, OwnersOK
  <1>6. StagesOK'
    BY DEF TypeOK, StagesOK, Updating, IsKind, Task
  <1>7. LateOK'
    BY DEF TypeOK, LateOK, Updating, IsKind, Task
  <1>8. MakersOK'
    BY DEF TypeOK, MakersOK, LateEventsCreateNothing, IsKind, Task
  <1> QED
    BY <1>1, <1>2, <1>3, <1>4, <1>5, <1>6, <1>7, <1>8
(* VerifyRemoval preserves the inductive invariant. *)
LEMMA VerifyRemovalIInv ==
    ASSUME IInv, NEW t \in Task, VerifyRemoval(t)
    PROVE  IInv'
  <1> USE LifecycleAssumption DEF IInv, VerifyRemoval, Goto, hookVars,
        objectVars, removalVars, storeVars, watchVars
  <1>0. 0 \in 0..MaxAttempts /\ 0 < MaxAttempts
    BY DEF MaxAttempts
  <1>1. TypeOK'
    BY <1>0 DEF TypeOK, Pc, Task
  <1>2. ControlOK'
    BY DEF TypeOK, ControlOK, Removing, Task
  <1>3. RefsOK'
    BY <1>0 DEF TypeOK, RefsOK, Task
  <1>4. CreatorsOK'
    BY DEF TypeOK, CreatorsOK, Published, Task
  <1>5. OwnersOK'
    BY DEF TypeOK, OwnersOK
  <1>6. StagesOK'
    BY DEF TypeOK, StagesOK, Updating, IsKind, Task
  <1>7. LateOK'
    BY DEF TypeOK, LateOK, Updating, IsKind, Task
  <1>8. MakersOK'
    BY DEF TypeOK, MakersOK, LateEventsCreateNothing, IsKind, Task
  <1> QED
    BY <1>1, <1>2, <1>3, <1>4, <1>5, <1>6, <1>7, <1>8
(* Exit preserves the inductive invariant. *)
LEMMA ExitIInv ==
    ASSUME IInv, NEW p \in Pid, Exit(p)
    PROVE  IInv'
  <1> USE LifecycleAssumption DEF IInv, Exit, Goto, hookVars, objectVars,
        removalVars, storeVars, watchVars
  <1>1. TypeOK'
    BY DEF TypeOK, Pc, Task
  <1>2. ControlOK'
    BY DEF TypeOK, ControlOK, Removing, Task
  <1>3. RefsOK'
    BY DEF TypeOK, RefsOK, Task
  <1>4. CreatorsOK'
    BY DEF TypeOK, CreatorsOK, Published, Task
  <1>5. OwnersOK'
    BY DEF TypeOK, OwnersOK
  <1>6. StagesOK'
    BY DEF TypeOK, StagesOK, Updating, IsKind, Task
  <1>7. LateOK'
    BY DEF TypeOK, LateOK, Updating, IsKind, Task
  <1>8. MakersOK'
    BY DEF TypeOK, MakersOK, LateEventsCreateNothing, IsKind, Task
  <1> QED
    BY <1>1, <1>2, <1>3, <1>4, <1>5, <1>6, <1>7, <1>8
(* Snapshot preserves the inductive invariant. *)
LEMMA SnapshotIInv ==
    ASSUME IInv, Snapshot
    PROVE  IInv'
  <1> USE LifecycleAssumption DEF IInv, Snapshot, Goto, hookVars, objectVars,
        removalVars, storeVars, watchVars
  <1>1. TypeOK'
    BY DEF TypeOK, Pc, Task
  <1>2. ControlOK'
    BY DEF TypeOK, ControlOK, Removing, Task
  <1>3. RefsOK'
    BY DEF TypeOK, RefsOK, Task
  <1>4. CreatorsOK'
    BY DEF TypeOK, CreatorsOK, Published, Task
  <1>5. OwnersOK'
    BY DEF TypeOK, OwnersOK
  <1>6. StagesOK'
    BY DEF TypeOK, StagesOK, Updating, IsKind, Task
  <1>7. LateOK'
    BY DEF TypeOK, LateOK, Updating, IsKind, Task
  <1>8. MakersOK'
    BY DEF TypeOK, MakersOK, LateEventsCreateNothing, IsKind, Task
  <1> QED
    BY <1>1, <1>2, <1>3, <1>4, <1>5, <1>6, <1>7, <1>8
(* Spare preserves the inductive invariant. *)
LEMMA SpareIInv ==
    ASSUME IInv, NEW s \in Session, NEW p \in Pid, Spare(s, p)
    PROVE  IInv'
  <1> USE LifecycleAssumption DEF IInv, Spare, Goto, hookVars, objectVars,
        removalVars, storeVars, watchVars
  <1>1. TypeOK'
    BY DEF TypeOK, Pc, Task
  <1>2. ControlOK'
    BY DEF TypeOK, ControlOK, Removing, Task
  <1>3. RefsOK'
    BY DEF TypeOK, RefsOK, Task
  <1>4. CreatorsOK'
    BY DEF TypeOK, CreatorsOK, Published, Task
  <1>5. OwnersOK'
    BY DEF TypeOK, OwnersOK
  <1>6. StagesOK'
    BY DEF TypeOK, StagesOK, Updating, IsKind, Task
  <1>7. LateOK'
    BY DEF TypeOK, LateOK, Updating, IsKind, Task
  <1>8. MakersOK'
    BY DEF TypeOK, MakersOK, LateEventsCreateNothing, IsKind, Task
  <1> QED
    BY <1>1, <1>2, <1>3, <1>4, <1>5, <1>6, <1>7, <1>8
(* Reap preserves the inductive invariant. *)
LEMMA ReapIInv ==
    ASSUME IInv, NEW s \in Session, NEW p \in Pid, Reap(s, p)
    PROVE  IInv'
  <1> USE LifecycleAssumption DEF IInv, Reap, Goto, hookVars, objectVars,
        removalVars, storeVars, watchVars
  <1>1. TypeOK'
    BY DEF TypeOK, Pc, Task
  <1>2. ControlOK'
    BY DEF TypeOK, ControlOK, Removing, Task
  <1>3. RefsOK'
    BY DEF TypeOK, RefsOK, Task
  <1>4. CreatorsOK'
    BY DEF TypeOK, CreatorsOK, Published, Task
  <1>5. OwnersOK'
    BY DEF TypeOK, OwnersOK
  <1>6. StagesOK'
    BY DEF TypeOK, StagesOK, Updating, IsKind, Task
  <1>7. LateOK'
    BY DEF TypeOK, LateOK, Updating, IsKind, Task
  <1>8. MakersOK'
    BY DEF TypeOK, MakersOK, LateEventsCreateNothing, IsKind, Task
  <1> QED
    BY <1>1, <1>2, <1>3, <1>4, <1>5, <1>6, <1>7, <1>8
-----------------------------------------------------------------------------
(* A step that changes nothing preserves the inductive invariant. *)
LEMMA StutterIInv ==
    ASSUME IInv, UNCHANGED vars
    PROVE  IInv'
  <1> USE DEF IInv, vars, hookVars, objectVars, removalVars, storeVars, watchVars
  <1>1. TypeOK' /\ ControlOK' /\ RefsOK'
    BY DEF TypeOK, ControlOK, RefsOK
  <1>2. CreatorsOK' /\ OwnersOK' /\ StagesOK'
    BY DEF CreatorsOK, Published, OwnersOK, StagesOK, IsKind
  <1>3. LateOK' /\ MakersOK'
    BY DEF LateOK, MakersOK, LateEventsCreateNothing, IsKind
  <1> QED
    BY <1>1, <1>2, <1>3

(* The inductive step. *)
LEMMA NextIInv == IInv /\ [Next]_vars => IInv'
  <1> SUFFICES ASSUME IInv, [Next]_vars PROVE IInv'
    OBVIOUS
  <1>1. ASSUME NEW h \in Hook, Handle(h) PROVE IInv'
    BY <1>1, CheckTelemetryIInv, FindLineageIInv, EnsureSessionIInv, PublishSessionIInv,
       LookupSessionIInv, ApplyUpdateIInv, WatchParentIInv, SkipEndedIInv, DispatchIInv,
       StopSessionIInv, LinkSessionIInv DEF Handle
  <1>2. ASSUME NEW t \in Task, Remove(t) PROVE IInv'
    BY <1>2, MarkEndedIInv, ForgetParentIInv, GrabObjectIInv, CancelRequestsIInv,
       UnlinkSessionIInv, RemoveObjectIInv, VerifyRemovalIInv DEF Remove
  <1>3. CASE Watch
    BY <1>3, SnapshotIInv, SpareIInv, ReapIInv DEF Watch
  <1>4. ASSUME NEW p \in Pid, Exit(p) PROVE IInv'
    BY <1>4, ExitIInv
  <1>5. CASE UNCHANGED vars
    BY <1>5, StutterIInv
  <1> QED
    BY <1>1, <1>2, <1>3, <1>4, <1>5 DEF Next

(* The inductive invariant holds in every reachable state. *)
THEOREM Invariance == Spec => []IInv
  BY InitIInv, NextIInv, PTL DEF Spec

(* Every variable has its type: no task goes past its attempts, looks at a *)
(* missing object or publishes more objects than the bound.                *)
THEOREM TypeCorrect == Spec => []TypeOK
  <1>1. IInv => TypeOK
    BY DEF IInv
  <1> QED
    BY <1>1, Invariance, PTL

(* However many hooks of a session are handled at once, none publishes over *)
(* a live object (dbus.rs 1040-1063): the create lock covers the test and   *)
(* the publication.                                                         *)
THEOREM CreatorsNeverCollide == Spec => []CreatorsDoNotCollide
  <1>1. IInv => CreatorsDoNotCollide
    BY DEF IInv, CreatorsOK, CreatorsDoNotCollide
  <1> QED
    BY <1>1, Invariance, PTL

(* The guards of service.rs 69-77 and 148-233 keep the events that consult *)
(* the ended set from creating objects, except by lineage or title.        *)
THEOREM LateEventsNeverCreate == Spec => []LateEventsCreateNothing
  <1>1. IInv => LateEventsCreateNothing
    BY DEF IInv, MakersOK
  <1> QED
    BY <1>1, Invariance, PTL

(* A hook's steps leave the watcher where it is. *)
LEMMA HandleKeepsWatcher ==
    ASSUME IInv, NEW h \in Hook, Handle(h)
    PROVE  pc'[Watcher] = pc[Watcher]
  <1>1. h # Watcher /\ h \in Task /\ Watcher \in Task /\ pc \in [Task -> Pc]
    BY LifecycleAssumption DEF IInv, TypeOK, Task
  <1>2. ASSUME NEW l, pc' = [pc EXCEPT ![h] = l] PROVE pc'[Watcher] = pc[Watcher]
    BY <1>1, <1>2
  <1>3. CASE CheckTelemetry(h) \/ EnsureSession(h) \/ WatchParent(h) \/ SkipEnded(h)
             \/ LinkSession(h)
    BY <1>2, <1>3 DEF CheckTelemetry, EnsureSession, WatchParent, SkipEnded, LinkSession,
                      Goto
  <1>4. CASE Dispatch(h) \/ StopSession(h)
    BY <1>2, <1>4 DEF Dispatch, StopSession, Goto, Enter
  <1>5. ASSUME NEW l, NEW st, MovesOn(h, l, st) PROVE pc'[Watcher] = pc[Watcher]
    BY <1>2, <1>5 DEF MovesOn
  <1>6. CASE AfterIdentity(h)
    BY <1>5, <1>6, AfterIdentityMovesOn DEF IInv
  <1>7. CASE AfterUpdate(h)
    BY <1>5, <1>7, AfterUpdateMovesOn DEF IInv
  <1>8. CASE FindLineage(h)
    BY <1>2, <1>6, <1>8 DEF FindLineage, Enter
  <1>9. CASE PublishSession(h) \/ ApplyUpdate(h)
    BY <1>7, <1>9 DEF PublishSession, ApplyUpdate
  <1>10. CASE LookupSession(h)
    BY <1>2, <1>7, <1>10 DEF LookupSession, Goto
  <1> QED
    BY <1>3, <1>4, <1>8, <1>9, <1>10 DEF Handle

(* A removal that has begun leaves an idle watcher where it is. *)
LEMMA RemoveKeepsIdleWatcher ==
    ASSUME IInv, NEW t \in Task, Remove(t), pc[Watcher] = "idle"
    PROVE  pc'[Watcher] = "idle"
  <1>1. pc[t] \in Removing
    BY DEF Remove, MarkEnded, ForgetParent, GrabObject, CancelRequests, UnlinkSession,
           RemoveObject, VerifyRemoval, Removing
  <1>2. t # Watcher
    BY <1>1 DEF Removing
  <1>3. PICK l : pc' = [pc EXCEPT ![t] = l]
    BY DEF Remove, MarkEnded, ForgetParent, GrabObject, CancelRequests, UnlinkSession,
           RemoveObject, VerifyRemoval, Goto
  <1>4. pc \in [Task -> Pc] /\ Watcher \in Task
    BY DEF IInv, TypeOK, Task
  <1> QED
    BY <1>2, <1>3, <1>4

(* The watcher begins no removal on the strength of an old snapshot: when   *)
(* it does, the recorded process is the one last reported, and is gone      *)
(* (session_parents.rs 33-50: the recorded entry is compared once more).    *)
THEOREM OnlyAbandonedAreReaped == Spec => ReapOnlyAbandoned
  <1> DEFINE Abandoned ==
        \A s \in Session :
           pc[Watcher] = "idle" /\ pc'[Watcher] = "mark" /\ target'[Watcher] = s
               => owner[s] \in Pid \ alive
  <1>1. IInv /\ [Next]_vars => [Abandoned]_vars
    <2> SUFFICES ASSUME IInv, Next, pc[Watcher] = "idle", pc'[Watcher] = "mark",
                        NEW s \in Session, target'[Watcher] = s
                 PROVE  owner[s] \in Pid \ alive
      OBVIOUS
    <2>1. ~ \E h \in Hook : Handle(h)
      BY HandleKeepsWatcher
    <2>2. ~ \E t \in Task : Remove(t)
      BY RemoveKeepsIdleWatcher
    <2>3. ~(Snapshot \/ \E p \in Pid : Exit(p))
      BY DEF Snapshot, Exit
    <2>4. PICK r \in Session, p \in Pid : Reap(r, p)
      BY <2>1, <2>2, <2>3 DEF Next, Watch, Spare
    <2>5. r = s
      BY <2>4 DEF Reap, IInv, TypeOK, Task
    <2>6. parents[s] = p /\ p \notin alive /\ p # NoPid
      BY <2>4, <2>5, LifecycleAssumption DEF Reap
    <2>7. owner[s] = p
      BY <2>6 DEF IInv, OwnersOK
    <2> QED
      BY <2>6, <2>7
  <1> QED
    BY <1>1, Invariance, PTL DEF Spec, ReapOnlyAbandoned
=============================================================================
