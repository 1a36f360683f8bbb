-------------------------- MODULE PropertySignals --------------------------
(***************************************************************************)
(* The properties of a session as a client of the bus follows them.        *)
(*                                                                         *)
(* A client takes the properties from InterfacesAdded, and then believes   *)
(* every PropertiesChanged of the session's path.  A hook writes to the    *)
(* object under its write lock and emits what it has changed later, under  *)
(* a read lock taken anew: it emits what the properties are by then, on    *)
(* the path, even if the object it holds has been removed and the session  *)
(* published again.  Objects are numbered in order of creation.            *)
(***************************************************************************)
EXTENDS SessionEvents

CONSTANTS
    Hook,       \* hook connections, calls of a client, updates of a watcher
    Traffic,    \* the assignments of events to them that are considered
    MaxPending, \* MAX_PENDING_REQUESTS_PER_SESSION
    MaxObject   \* bound: objects published at the path

(* An event carries a state and a completion of their types, or none. *)
ASSUME PropertySignalsAssumption ==
    /\ MaxPending \in Nat /\ MaxObject \in Nat
    /\ \A t \in Traffic : \A h \in Hook :
           t[h].state \in State \cup {Nil} /\ t[h].complete \in BOOLEAN \cup {Nil}

VARIABLES
    event,      \* what each hook carries; never changes
    todo,       \* the updates it has yet to make
    pc,         \* where its task is
    ref,        \* the object it holds
    due,        \* the properties it has yet to emit
    tries,      \* how often a removal has removed
    object,     \* the object at the path, or NoObject
    born,       \* objects are numbered up to this one
    data,       \* each object
    view,       \* what the client believes the properties to be
    stale       \* history: it was told so by an earlier object

hookVars == <<event, todo, pc, ref, due, tries>>
objectVars == <<object, born, data>>
clientVars == <<view, stale>>
vars == <<hookVars, objectVars, clientVars>>

NoObject == 0
Object == 1..MaxObject
MaxTries == 3
Pc == {"update", "found", "apply", "emit", "lookup", "push", "show", "announce", "wait",
       "clear", "reply", "take", "retire", "cancel", "remove", "verify", "done"}

PendingProperties == {"attention", "reasons", "pending"}

(* A watcher that updates existing sessions only has no first lookup.      *)
After(e, us) ==
    IF us # <<>> THEN "update" ELSE IF e.kind \in Blocking THEN "lookup" ELSE "done"

First(e) ==
    CASE e.kind = "Removal" -> "retire"
      [] e.kind = "Respond" -> "reply"
      [] e.kind = "ThreadNamed" -> "found"
      [] OTHER -> After(e, Updates(e))

Init ==
    /\ event \in Traffic
    /\ todo = [h \in Hook |-> Updates(event[h])]
    /\ pc = [h \in Hook |-> First(event[h])]
    /\ ref = [h \in Hook |-> NoObject]
    /\ due = [h \in Hook |-> {}]
    /\ tries = [h \in Hook |-> 0]
    /\ object = NoObject /\ born = 0
    /\ data = [o \in Object |-> NewSession]
    /\ view = Shown(NewSession) /\ stale = FALSE

Goto(h, l) == pc' = [pc EXCEPT ![h] = l]

NextUpdate(h) ==
    /\ todo' = [todo EXCEPT ![h] = Tail(@)]
    /\ Goto(h, After(event[h], Tail(todo[h])))

(* Signals of object o reach a client that knows of an object at the path. *)
Tell(o, fs) ==
    IF object = NoObject THEN UNCHANGED clientVars
    ELSE /\ view' = [f \in Property |-> IF f \in fs THEN Shown(data'[o])[f] ELSE view[f]]
         /\ stale' = (stale \/ (o # object /\ fs # {}))

-----------------------------------------------------------------------------
(* update_session and update_existing_session *)

CreateSession(h) ==
    /\ pc[h] = "update"
    /\ object = NoObject /\ born < MaxObject
    /\ born' = born + 1 /\ object' = born + 1
    /\ data' = [data EXCEPT ![born + 1] = Update(Head(todo[h]), NewSession, event[h])]
    /\ view' = Shown(data'[born + 1]) /\ stale' = FALSE
    /\ NextUpdate(h)
    /\ UNCHANGED <<event, ref, due, tries>>

FindSession(h) ==
    /\ pc[h] = "update"
    /\ object # NoObject
    /\ Goto(h, "found")
    /\ UNCHANGED <<event, todo, ref, due, tries, objectVars, clientVars>>

(* The second lookup; an object that has gone is an error that is logged.  *)
LookupSession(h) ==
    /\ pc[h] = "found"
    /\ ref' = [ref EXCEPT ![h] = object]
    /\ IF object = NoObject THEN NextUpdate(h) ELSE Goto(h, "apply") /\ UNCHANGED todo
    /\ UNCHANGED <<event, due, tries, objectVars, clientVars>>

(* Faulty: what the object holds is compared, not what it shows. *)
HeldChanged(before, after) == {f \in Property : after[f] # before[f]}

Changed(before, after) == {f \in Property : Shown(after)[f] # Shown(before)[f]}

ApplyUpdate(h) ==
    /\ pc[h] = "apply"
    /\ LET after == Update(Head(todo[h]), data[ref[h]], event[h])
       IN  /\ data' = [data EXCEPT ![ref[h]] = after]
           /\ due' = [due EXCEPT ![h] = Changed(data[ref[h]], after)]
    /\ Goto(h, "emit")
    /\ UNCHANGED <<event, todo, ref, tries, object, born, clientVars>>

EmitChanged(h) ==
    /\ pc[h] = "emit"
    /\ UNCHANGED objectVars
    /\ Tell(ref[h], due[h])
    /\ due' = [due EXCEPT ![h] = {}]
    /\ NextUpdate(h)
    /\ UNCHANGED <<event, ref, tries>>

-----------------------------------------------------------------------------
(* handle_elicitation_event, after its update *)

LookupForRequest(h) ==
    /\ pc[h] = "lookup"
    /\ ref' = [ref EXCEPT ![h] = object]
    /\ Goto(h, IF object = NoObject THEN "done" ELSE "push")
    /\ UNCHANGED <<event, todo, due, tries, objectVars, clientVars>>

Full(d) == Len(d.pending) >= MaxPending

WithRequest(d, r) == Refreshed([d EXCEPT !.pending = Append(@, r)])

PushRequest(h) ==
    /\ pc[h] = "push"
    /\ IF Full(data[ref[h]])
       THEN Goto(h, "done") /\ UNCHANGED <<data, due>>
       ELSE /\ data' = [data EXCEPT ![ref[h]] =
                            WithRequest(@, [id |-> h, tool |-> event[h].tool])]
            /\ due' = [due EXCEPT ![h] = PendingProperties]
            /\ Goto(h, "show")
    /\ UNCHANGED <<event, todo, ref, tries, object, born, clientVars>>

(* emit_pending_changed, before the request is announced and after it has  *)
(* been taken off the list.                                                *)
(* Faulty: the list itself is forgotten.                                   *)
EmitPendingFlags(h) ==
    /\ pc[h] \in {"show", "clear"}
    /\ UNCHANGED objectVars
    /\ Tell(ref[h], due[h] \ {"pending"})
    /\ due' = [due EXCEPT ![h] = {}]
    /\ Goto(h, IF pc[h] = "show" THEN "announce" ELSE "done")
    /\ UNCHANGED <<event, todo, ref, tries>>

EmitPending(h) ==
    /\ pc[h] \in {"show", "clear"}
    /\ UNCHANGED objectVars
    /\ Tell(ref[h], due[h])
    /\ due' = [due EXCEPT ![h] = {}]
    /\ Goto(h, IF pc[h] = "show" THEN "announce" ELSE "done")
    /\ UNCHANGED <<event, todo, ref, tries>>

(* The four ElicitationRequested signals. *)
Announce(h) ==
    /\ pc[h] = "announce"
    /\ Goto(h, "wait")
    /\ UNCHANGED <<event, todo, ref, due, tries, objectVars, clientVars>>

WithoutRequest(d, id) ==
    Refreshed([d EXCEPT !.pending = Retained(@, {i \in DOMAIN @ : @[i].id # id})])

(* An answer, a cancellation or the timer, whichever comes.                *)
(* Faulty: the client is not told.                                         *)
SettleSilently(h) ==
    /\ pc[h] = "wait"
    /\ data' = [data EXCEPT ![ref[h]] = WithoutRequest(@, h)]
    /\ Goto(h, "done")
    /\ UNCHANGED <<event, todo, ref, due, tries, object, born, clientVars>>

SettleRequest(h) ==
    /\ pc[h] = "wait"
    /\ data' = [data EXCEPT ![ref[h]] = WithoutRequest(@, h)]
    /\ due' = [due EXCEPT ![h] = PendingProperties]
    /\ Goto(h, "clear")
    /\ UNCHANGED <<event, todo, ref, tries, object, born, clientVars>>

-----------------------------------------------------------------------------
(* RespondToElicitation and RespondToElicitationById: the request is taken *)
(* and the change emitted under one write lock.                            *)
LookupForReply(h) ==
    /\ pc[h] = "reply"
    /\ ref' = [ref EXCEPT ![h] = object]
    /\ Goto(h, IF object = NoObject THEN "done" ELSE "take")
    /\ UNCHANGED <<event, todo, due, tries, objectVars, clientVars>>

TakeRequest(h) ==
    /\ pc[h] = "take"
    /\ LET q == data[ref[h]].pending
       IN  IF q = <<>> THEN UNCHANGED <<data, clientVars>>
           ELSE \E i \in 1..Len(q) :
                   /\ data' = [data EXCEPT ![ref[h]] = WithoutRequest(@, q[i].id)]
                   /\ Tell(ref[h], PendingProperties)
    /\ Goto(h, "done")
    /\ UNCHANGED <<event, todo, ref, due, tries, object, born>>

-----------------------------------------------------------------------------
(* remove_session, as far as the object is concerned *)

LookupToRetire(h) ==
    /\ pc[h] = "retire"
    /\ ref' = [ref EXCEPT ![h] = object]
    /\ Goto(h, IF object = NoObject THEN "remove" ELSE "cancel")
    /\ UNCHANGED <<event, todo, due, tries, objectVars, clientVars>>

CancelRequests(h) ==
    /\ pc[h] = "cancel"
    /\ data' = [data EXCEPT ![ref[h]] = Cancelled(@)]
    /\ Goto(h, "remove")
    /\ UNCHANGED <<event, todo, ref, due, tries, object, born, clientVars>>

RemoveObject(h) ==
    /\ pc[h] = "remove"
    /\ object' = NoObject /\ stale' = FALSE
    /\ tries' = [tries EXCEPT ![h] = @ + 1]
    /\ Goto(h, "verify")
    /\ UNCHANGED <<event, todo, ref, due, born, data, view>>

VerifyRemoved(h) ==
    /\ pc[h] = "verify"
    /\ Goto(h, IF object # NoObject /\ tries[h] < MaxTries THEN "remove" ELSE "done")
    /\ UNCHANGED <<event, todo, ref, due, tries, objectVars, clientVars>>

-----------------------------------------------------------------------------
UpdateStep(h) ==
    \/ CreateSession(h) \/ FindSession(h) \/ LookupSession(h) \/ ApplyUpdate(h) \/ EmitChanged(h)

RequestStep(h) ==
    \/ LookupForRequest(h) \/ PushRequest(h) \/ EmitPending(h) \/ Announce(h) \/ SettleRequest(h)

Step(h) ==
    \/ UpdateStep(h) \/ RequestStep(h)
    \/ LookupForReply(h) \/ TakeRequest(h)
    \/ LookupToRetire(h) \/ CancelRequests(h) \/ RemoveObject(h) \/ VerifyRemoved(h)

Next == \E h \in Hook : Step(h)

Spec == Init /\ [][Next]_vars

(* A task that has begun is run to its end, and its timer fires.           *)
FairSpec == Spec /\ \A h \in Hook : WF_vars(pc[h] # First(event[h]) /\ Step(h))

-----------------------------------------------------------------------------
Session ==
    [window : {event[h].window : h \in Hook} \cup {Nil},
     title : {event[h].title : h \in Hook} \cup {Nil},
     parent : {event[h].parent : h \in Hook} \cup {Nil},
     state : State, complete : BOOLEAN, attention : BOOLEAN,
     reasons : SUBSET ({event[h].reason : h \in Hook}
                       \cup {NonBlocking[k].reason : k \in DOMAIN NonBlocking}),
     pending : Seq([id : Hook, tool : {event[h].tool : h \in Hook}]),
     model : {event[h].model : h \in Hook} \cup {Nil},
     usage : {event[h].usage : h \in Hook} \cup {Nil}]

(* Every variable holds a value of its kind, no object has more requests   *)
(* than it may, and the flag of each says whether anything asks.           *)
TypeOK ==
    /\ event \in Traffic
    /\ \A h \in Hook : \E n \in 0..Len(Updates(event[h])) :
           todo[h] = SubSeq(Updates(event[h]), n + 1, Len(Updates(event[h])))
    /\ pc \in [Hook -> Pc]
    /\ ref \in [Hook -> Object \cup {NoObject}]
    /\ due \in [Hook -> SUBSET Property]
    /\ tries \in [Hook -> 0..MaxTries]
    /\ object \in {NoObject, born} /\ born \in 0..MaxObject
    /\ data \in [Object -> Session] /\ stale \in BOOLEAN
    /\ \A o \in Object :
           /\ Len(data[o].pending) <= MaxPending
           /\ data[o].attention = (data[o].pending # <<>> \/ data[o].reasons # {})

(* dbus.rs 1099: a client that no earlier object has spoken to knows every *)
(* property as it is, save what some hook is still to emit, and what a     *)
(* removal has cancelled on the way to removing the object.                *)
Removing(o) == \E h \in Hook : pc[h] = "remove" /\ ref[h] = o

ViewIsCurrentOrDue ==
    object # NoObject /\ ~stale =>
        \A f \in Property :
            \/ view[f] = Shown(data[object])[f]
            \/ \E h \in Hook : ref[h] = object /\ f \in due[h]
            \/ f \in PendingProperties /\ Removing(object)

(* When a request is announced it is in the list the client has, unless it *)
(* has been settled already.                                               *)
Lists(d, h) == \E i \in 1..Len(d.pending) : d.pending[i].id = h

AnnouncedIsListed ==
    [][\A h \in Hook :
          Announce(h) /\ ref[h] = object /\ ~stale /\ Lists(data[object], h)
              => Lists(view, h)]_vars

(* In the end the client knows the properties as they are. *)
ClientCatchesUp ==
    <>[](object # NoObject /\ ~stale => view = Shown(data[object]))
=============================================================================
