---------------------------- MODULE Elicitation ----------------------------
(***************************************************************************)
(* Blocking approval and input requests of agent-dbus.                     *)
(*                                                                         *)
(* Every hook connection is a task of its own (main.rs).  A blocking hook  *)
(* makes sure its session object is published, registers a one-shot        *)
(* channel with the request broker, queues the request in the object and   *)
(* waits.  A user answers over D-Bus, another hook of the session cancels  *)
(* the queue, a removal retires the whole object, or the timer fires.      *)
(* One action is what a task does between two points where another task    *)
(* can run: an await, or taking the write lock of a session object.        *)
(*                                                                         *)
(* Requests are named by the hook that makes them: request ids come from   *)
(* an atomic counter, one per blocking hook.  The VecDeque of pending      *)
(* requests is the set of its members and, for each, the members that were *)
(* in front of it when it was pushed.                                      *)
(***************************************************************************)
EXTENDS Naturals, FiniteSets

CONSTANTS
    Hook,        \* hook connections, one task each
    Session,     \* (agent, session id) pairs, each with one D-Bus path
    Tool,        \* tool names a hook may carry
    NoTool,      \* the empty tool name
    Reason,      \* keys of non-blocking attention reasons
    NoReason,    \* the empty reason
    Answer,      \* non-empty answers
    NoAnswer,    \* the empty string an unanswered hook returns
    MaxPending,  \* MAX_PENDING_REQUESTS_PER_SESSION
    MaxObject,   \* bound: session objects ever published
    Traffic      \* the assignments of events to hooks that are considered

Blocking == {"PermissionRequest", "Elicitation"}
Kind == Blocking \cup {"TurnBoundary", "PostToolUse", "Attention", "Resolved",
                       "Update", "Removal"}

Event == [kind : Kind, session : Session, tool : Tool \cup {NoTool},
          reason : Reason \cup {NoReason}]

ASSUME ElicitationAssumption ==
    /\ IsFiniteSet(Hook)
    /\ MaxPending \in Nat \ {0}
    /\ MaxObject \in Nat
    /\ NoTool \notin Tool
    /\ NoReason \notin Reason
    /\ NoAnswer \notin Answer
    /\ Traffic \subseteq [Hook -> Event]

NoObject == 0
Object == 1..MaxObject
MaxAttempts == 3

VARIABLES
    event,      \* what each hook carries; never changes
    pc,         \* where the task of each hook is
    object,     \* the object published at each session's path, or NoObject
    born,       \* objects are numbered in order of creation, up to this one
    pending,    \* pending_requests of each object
    ahead,      \* the requests in front of a request when it was pushed
    reasons,    \* attention_reasons of each object
    attention,  \* requires_attention of each object
    broker,     \* the requests whose sender the broker holds
    rx,         \* receiving end: "none", "open", "sent" or "dropped"
    inbox,      \* the answer sent on the channel
    ref,        \* the object a task holds a reference to
    result,     \* what a blocking hook writes back to the agent
    attempts,   \* removals of the object a removal has tried
    chosen      \* history: the answer a user's call gave this request

vars == <<event, pc, object, born, pending, ahead, reasons, attention,
          broker, rx, inbox, ref, result, attempts, chosen>>
objectVars == <<pending, reasons, attention>>
channelVars == <<broker, rx, inbox>>

Pc == {"update", "found", "apply", "ask", "lookup", "push", "waiting",
       "settled", "remove", "verify", "done"}

Sess(h) == event[h].session
KindOf(h) == event[h].kind
Published(h) == object[Sess(h)]

TypeOK ==
    /\ event \in [Hook -> Event]
    /\ pc \in [Hook -> Pc]
    /\ object \in [Session -> Object \cup {NoObject}]
    /\ born \in 0..MaxObject
    /\ pending \in [Object -> SUBSET Hook]
    /\ ahead \in [Hook -> SUBSET Hook]
    /\ reasons \in [Object -> SUBSET Reason]
    /\ attention \in [Object -> BOOLEAN]
    /\ broker \in SUBSET Hook
    /\ rx \in [Hook -> {"none", "open", "sent", "dropped"}]
    /\ inbox \in [Hook -> Answer \cup {NoAnswer}]
    /\ ref \in [Hook -> Object \cup {NoObject}]
    /\ result \in [Hook -> Answer \cup {NoAnswer}]
    /\ attempts \in [Hook -> 0..MaxAttempts]
    /\ chosen \in [Hook -> Answer \cup {NoAnswer}]

(* A removal starts by looking the object up; an Elicitation hook has no   *)
(* update of its own before handle_elicitation_event.                      *)
Start(kind) ==
    CASE kind = "Removal" -> "found"
      [] kind = "Elicitation" -> "ask"
      [] OTHER -> "update"

Init ==
    /\ event \in Traffic
    /\ pc = [h \in Hook |-> Start(KindOf(h))]
    /\ object = [s \in Session |-> NoObject]
    /\ born = 0
    /\ pending = [o \in Object |-> {}]
    /\ ahead = [h \in Hook |-> {}]
    /\ reasons = [o \in Object |-> {}]
    /\ attention = [o \in Object |-> FALSE]
    /\ broker = {}
    /\ rx = [h \in Hook |-> "none"]
    /\ inbox = [h \in Hook |-> NoAnswer]
    /\ ref = [h \in Hook |-> NoObject]
    /\ result = [h \in Hook |-> NoAnswer]
    /\ attempts = [h \in Hook |-> 0]
    /\ chosen = [h \in Hook |-> NoAnswer]

Goto(h, l) == pc' = [pc EXCEPT ![h] = l]
-----------------------------------------------------------------------------
(* The session object and the request broker.                              *)

(* Definitions marked "Faulty" are no part of the specification: each is   *)
(* the definition that follows it with a plausible mistake.                *)

(* What an object holds, as a value the operations on it compute with. *)
Empty == [pending |-> {}, reasons |-> {}, attention |-> FALSE]

Contents(o) ==
    [pending |-> pending[o], reasons |-> reasons[o], attention |-> attention[o]]

SetObject(o, d) ==
    /\ pending' = [pending EXCEPT ![o] = d.pending]
    /\ reasons' = [reasons EXCEPT ![o] = d.reasons]
    /\ attention' = [attention EXCEPT ![o] = d.attention]

(* refresh_requires_attention: the flag is stored, and each operation that *)
(* changes the queue or the reasons has to see to it itself.               *)
Refreshed(d) == [d EXCEPT !.attention = d.pending # {} \/ d.reasons # {}]

(* push_pending_request, below the limit *)
Pushed(d, h) == Refreshed([d EXCEPT !.pending = @ \cup {h}])

(* Faulty: the flag stays as it is. *)
WithoutUnrefreshed(d, h) == [d EXCEPT !.pending = @ \ {h}]

(* take_pending_response and remove_pending_request *)
Without(d, h) == IF h \in d.pending THEN Refreshed([d EXCEPT !.pending = @ \ {h}]) ELSE d

(* set_attention_reason *)
Raised(d, r) == Refreshed([d EXCEPT !.reasons = @ \cup ({r} \ {NoReason})])

(* clear_attention_reason *)
Lowered(d, r) == Refreshed([d EXCEPT !.reasons = @ \ {r}])

(* clear_attention_reasons *)
Quiet(d) == Refreshed([d EXCEPT !.reasons = {}])

(* Faulty: an answer also counts for a waiter that has timed out. *)
RespondLate(R, a) ==
    LET reached == {h \in R \cap broker : rx[h] \in {"open", "dropped"}}
    IN  /\ broker' = broker \ R
        /\ rx' = [h \in Hook |-> IF h \in reached THEN "sent" ELSE rx[h]]
        /\ inbox' = [h \in Hook |-> IF h \in reached THEN a ELSE inbox[h]]

(* RequestBroker::respond for every request of R.  A sender can be used    *)
(* once; what is sent to a receiver that is gone is lost.                  *)
Respond(R, a) ==
    LET reached == {h \in R \cap broker : rx[h] = "open"}
    IN  /\ broker' = broker \ R
        /\ rx' = [h \in Hook |-> IF h \in reached THEN "sent" ELSE rx[h]]
        /\ inbox' = [h \in Hook |-> IF h \in reached THEN a ELSE inbox[h]]

(* RequestBroker::cancel *)
Cancel(R) == Respond(R, NoAnswer)

(* cancel_pending_requests takes the reasons with the queue. *)
Emptied(d) == Refreshed([d EXCEPT !.pending = {}, !.reasons = {}])

(* Faulty: the queue is dropped and nobody is told. *)
CancelSilently(o) ==
    /\ SetObject(o, Emptied(Contents(o)))
    /\ UNCHANGED channelVars

CancelPendingRequests(o) ==
    /\ SetObject(o, Emptied(Contents(o)))
    /\ Cancel(pending[o])

(* Faulty: every request of the object counts as gating the tool. *)
GatingAny(o, tool) == {h \in pending[o] : tool # NoTool}

Gating(o, tool) ==
    {h \in pending[o] : tool # NoTool /\ event[h].tool = tool}

(* cancel_pending_requests_for_tool: without a tool name it does nothing. *)
Thinned(d, R, tool) == IF tool = NoTool THEN d ELSE Refreshed([d EXCEPT !.pending = @ \ R])

(* The end of a tool: the reasons are cleared, then what gates the tool. *)
CancelPendingRequestsForTool(o, tool) ==
    /\ SetObject(o, Thinned(Quiet(Contents(o)), Gating(o, tool), tool))
    /\ Cancel(Gating(o, tool))

(* The request pop_front takes. *)
Oldest(o) == {h \in pending[o] : ahead[h] \cap pending[o] = {}}
-----------------------------------------------------------------------------
(* update_session.  The create lock covers the test and the publication;   *)
(* a removal does not take it.                                             *)

(* The object is missing: a new one is published with the update applied.  *)
CreateSession(h) ==
    /\ pc[h] \in {"update", "ask"}
    /\ Published(h) = NoObject
    /\ born < MaxObject
    /\ born' = born + 1
    /\ object' = [object EXCEPT ![Sess(h)] = born']
    /\ SetObject(born', IF KindOf(h) = "Attention" THEN Raised(Empty, event[h].reason) ELSE Empty)
    /\ Goto(h, IF KindOf(h) \notin Blocking THEN "done"
               ELSE IF pc[h] = "update" THEN "ask" ELSE "lookup")
    /\ UNCHANGED <<event, ahead, channelVars, ref, result, attempts, chosen>>

(* The object exists: the lock is given up and the object looked up again. *)
(* What a blocking hook's own updates change is metadata only.             *)
FindSession(h) ==
    /\ pc[h] \in {"update", "ask"}
    /\ Published(h) # NoObject
    /\ Goto(h, IF KindOf(h) \notin Blocking THEN "found"
               ELSE IF pc[h] = "update" THEN "ask" ELSE "lookup")
    /\ UNCHANGED <<event, object, born, objectVars, ahead, channelVars, ref,
                   result, attempts, chosen>>

(* The second lookup.  When the object has gone meanwhile the update is an *)
(* error that is logged, and remove_session goes on without cancelling.    *)
LookupSession(h) ==
    /\ pc[h] = "found"
    /\ \/ /\ Published(h) # NoObject
          /\ ref' = [ref EXCEPT ![h] = Published(h)]
          /\ Goto(h, "apply")
       \/ /\ Published(h) = NoObject
          /\ UNCHANGED ref
          /\ Goto(h, IF KindOf(h) = "Removal" THEN "remove" ELSE "done")
    /\ UNCHANGED <<event, object, born, objectVars, ahead, channelVars,
                   result, attempts, chosen>>

(* The closure of the hook runs under the object's write lock. *)
ApplyTo(h, o) ==
    \/ /\ KindOf(h) \in {"TurnBoundary", "Removal"}
       /\ CancelPendingRequests(o)
    \/ /\ KindOf(h) = "PostToolUse"
       /\ CancelPendingRequestsForTool(o, event[h].tool)
    \/ /\ KindOf(h) = "Attention"
       /\ SetObject(o, Raised(Contents(o), event[h].reason))
       /\ UNCHANGED channelVars
    \/ /\ KindOf(h) = "Resolved"
       /\ SetObject(o, Lowered(Contents(o), event[h].reason))
       /\ UNCHANGED channelVars
    \/ /\ KindOf(h) = "Update"
       /\ UNCHANGED <<objectVars, channelVars>>

ApplyUpdate(h) ==
    /\ pc[h] = "apply"
    /\ ApplyTo(h, ref[h])
    /\ Goto(h, IF KindOf(h) = "Removal" THEN "remove" ELSE "done")
    /\ UNCHANGED <<event, object, born, ahead, ref, result, attempts, chosen>>
-----------------------------------------------------------------------------
(* handle_elicitation_event, after its update_session.                     *)

(* Without an object there is nothing to ask: the hook returns no answer. *)
OpenRequest(h) ==
    /\ pc[h] = "lookup"
    /\ \/ /\ Published(h) # NoObject
          /\ ref' = [ref EXCEPT ![h] = Published(h)]
          /\ broker' = broker \cup {h}
          /\ rx' = [rx EXCEPT ![h] = "open"]
          /\ Goto(h, "push")
       \/ /\ Published(h) = NoObject
          /\ UNCHANGED <<ref, broker, rx>>
          /\ Goto(h, "done")
    /\ UNCHANGED <<event, object, born, objectVars, ahead, inbox, result,
                   attempts, chosen>>

(* Faulty: the limit is off by one. *)
PushOneTooMany(h) ==
    /\ pc[h] = "push"
    /\ Cardinality(pending[ref[h]]) <= MaxPending
    /\ SetObject(ref[h], Pushed(Contents(ref[h]), h))
    /\ ahead' = [ahead EXCEPT ![h] = pending[ref[h]]]
    /\ Goto(h, "waiting")
    /\ UNCHANGED <<event, object, born, channelVars, ref, result, attempts, chosen>>

(* Under the write lock: the request is queued, or dropped at the limit. *)
PushRequest(h) ==
    /\ pc[h] = "push"
    /\ LET o == ref[h]
       IN  \/ /\ Cardinality(pending[o]) < MaxPending
              /\ SetObject(o, Pushed(Contents(o), h))
              /\ ahead' = [ahead EXCEPT ![h] = pending[o]]
              /\ Goto(h, "waiting")
              /\ UNCHANGED channelVars
           \/ /\ Cardinality(pending[o]) >= MaxPending
              /\ broker' = broker \ {h}
              /\ rx' = [rx EXCEPT ![h] = "dropped"]
              /\ Goto(h, "done")
              /\ UNCHANGED <<objectVars, ahead, inbox>>
    /\ UNCHANGED <<event, object, born, ref, result, attempts, chosen>>

(* Faulty: an empty answer is taken for none and waited on. *)
ReceiveNonEmpty(h) ==
    /\ pc[h] = "waiting"
    /\ rx[h] = "sent" /\ inbox[h] # NoAnswer
    /\ result' = [result EXCEPT ![h] = inbox[h]]
    /\ Goto(h, "settled")
    /\ UNCHANGED <<event, object, born, objectVars, ahead, channelVars, ref,
                   attempts, chosen>>

(* The channel delivers an answer, or the empty one of a cancellation. *)
ReceiveAnswer(h) ==
    /\ pc[h] = "waiting"
    /\ rx[h] = "sent"
    /\ result' = [result EXCEPT ![h] = inbox[h]]
    /\ Goto(h, "settled")
    /\ UNCHANGED <<event, object, born, objectVars, ahead, channelVars, ref,
                   attempts, chosen>>

(* Faulty: the timer belongs to the published object. *)
TimeOutWhilePublished(h) ==
    /\ pc[h] = "waiting"
    /\ rx[h] = "open" /\ Published(h) = ref[h]
    /\ rx' = [rx EXCEPT ![h] = "dropped"]
    /\ Goto(h, "settled")
    /\ UNCHANGED <<event, object, born, objectVars, ahead, broker, inbox, ref,
                   result, attempts, chosen>>

(* The timer fires first: the receiver is dropped, the request is still    *)
(* queued and its sender still registered.                                 *)
TimeOut(h) ==
    /\ pc[h] = "waiting"
    /\ rx[h] = "open"
    /\ rx' = [rx EXCEPT ![h] = "dropped"]
    /\ Goto(h, "settled")
    /\ UNCHANGED <<event, object, born, objectVars, ahead, broker, inbox, ref,
                   result, attempts, chosen>>

(* Faulty: the request stays in the queue. *)
CleanUpBrokerOnly(h) ==
    /\ pc[h] = "settled"
    /\ broker' = broker \ {h}
    /\ Goto(h, "done")
    /\ UNCHANGED <<event, object, born, objectVars, ahead, rx, inbox, ref,
                   result, attempts, chosen>>

(* Whatever happened, the hook takes its request off the queue and out of  *)
(* the broker under the write lock before it returns.                      *)
CleanUp(h) ==
    /\ pc[h] = "settled"
    /\ SetObject(ref[h], Without(Contents(ref[h]), h))
    /\ broker' = broker \ {h}
    /\ Goto(h, "done")
    /\ UNCHANGED <<event, object, born, ahead, rx, inbox, ref, result,
                   attempts, chosen>>
-----------------------------------------------------------------------------
(* remove_session, after it has cancelled the queue and unlinked the       *)
(* session: the object is taken off the bus, and what is there is checked. *)

RemoveObject(h) ==
    /\ pc[h] = "remove"
    /\ object' = [object EXCEPT ![Sess(h)] = NoObject]
    /\ attempts' = [attempts EXCEPT ![h] = @ + 1]
    /\ Goto(h, "verify")
    /\ UNCHANGED <<event, born, objectVars, ahead, channelVars, ref, result,
                   chosen>>

(* Faulty: one retry too many. *)
VerifyOnceMore(h) ==
    /\ pc[h] = "verify"
    /\ Goto(h, IF Published(h) # NoObject /\ attempts[h] <= MaxAttempts
               THEN "remove" ELSE "done")
    /\ UNCHANGED <<event, object, born, objectVars, ahead, channelVars, ref,
                   result, attempts, chosen>>

VerifyRemoval(h) ==
    /\ pc[h] = "verify"
    /\ Goto(h, IF Published(h) # NoObject /\ attempts[h] < MaxAttempts
               THEN "remove" ELSE "done")
    /\ UNCHANGED <<event, object, born, objectVars, ahead, channelVars, ref,
                   result, attempts, chosen>>
-----------------------------------------------------------------------------
(* What a user does over D-Bus, under the write lock of a published object. *)

(* Faulty: the request is answered and stays listed. *)
TakeKeeping(o, h, a) ==
    /\ SetObject(o, Contents(o))
    /\ Respond({h}, a)
    /\ chosen' = [chosen EXCEPT ![h] = a]
    /\ UNCHANGED <<event, pc, object, born, ahead, ref, result, attempts>>

(* Faulty: one request is taken, and the oldest is answered. *)
TakeAnswersOldest(o, h, a) ==
    /\ SetObject(o, Without(Contents(o), h))
    /\ Respond(Oldest(o), a)
    /\ chosen' = [chosen EXCEPT ![h] = a]
    /\ UNCHANGED <<event, pc, object, born, ahead, ref, result, attempts>>

Take(o, h, a) ==
    /\ SetObject(o, Without(Contents(o), h))
    /\ Respond({h}, a)
    /\ chosen' = [chosen EXCEPT ![h] = a]
    /\ UNCHANGED <<event, pc, object, born, ahead, ref, result, attempts>>

(* The oldest request is answered, whichever it is by now. *)
RespondToElicitation(s, a) ==
    /\ object[s] # NoObject
    /\ \E h \in Oldest(object[s]) : Take(object[s], h, a)

(* An id that is no longer queued is ignored. *)
RespondToElicitationById(s, h, a) ==
    /\ object[s] # NoObject
    /\ h \in pending[object[s]]
    /\ Take(object[s], h, a)
-----------------------------------------------------------------------------
(* The steps of a task that do not wait for anybody. *)
Run(h) ==
    \/ CreateSession(h) \/ FindSession(h) \/ LookupSession(h) \/ ApplyUpdate(h)
    \/ OpenRequest(h) \/ PushRequest(h) \/ ReceiveAnswer(h) \/ CleanUp(h)
    \/ RemoveObject(h) \/ VerifyRemoval(h)

User ==
    \E s \in Session, a \in Answer :
        \/ RespondToElicitation(s, a)
        \/ \E h \in Hook : RespondToElicitationById(s, h, a)

Next ==
    \/ \E h \in Hook : Run(h) \/ TimeOut(h)
    \/ User

Spec == Init /\ [][Next]_vars

(* The runtime polls every task that can go on, and every waiter has a     *)
(* timer.  Users owe nothing.                                              *)
FairSpec == Spec /\ \A h \in Hook : WF_vars(Run(h)) /\ WF_vars(TimeOut(h))
-----------------------------------------------------------------------------
(* Safety *)

(* A blocked hook that has heard nothing is in the queue of the object it  *)
(* holds and its sender is in the broker, so a response, a turn boundary   *)
(* or a removal that finds this object releases it (service.rs 1052-1076). *)
BlockedHookIsListed ==
    \A h \in Hook :
        pc[h] = "waiting" /\ rx[h] = "open"
            => h \in pending[ref[h]] /\ h \in broker

(* Whatever is listed as pending belongs to a hook of the object's session *)
(* that has not returned, in one object only, and no user has answered it. *)
ListedRequestIsLive ==
    \A o \in Object : \A h \in pending[o] :
        /\ pc[h] \in {"waiting", "settled"}
        /\ ref[h] = o
        /\ h \in broker
        /\ chosen[h] = NoAnswer

(* A hook that has returned leaves no sender in the broker and no request  *)
(* in any queue, on every path out of handle_elicitation_event.            *)
NoResidue ==
    \A h \in Hook : pc[h] = "done" =>
        h \notin broker /\ \A o \in Object : h \notin pending[o]

(* No session object ever lists more than the limit (dbus.rs 357-360).     *)
QueueBounded == \A o \in Object : Cardinality(pending[o]) <= MaxPending

(* A hook returns exactly the answer a user gave to its own request.  The  *)
(* one exception is a hook whose timer has fired: it returns no answer,    *)
(* even when a user's answer was accepted before the request was cleaned up. *)
AnswerReachesItsHook ==
    \A h \in Hook : KindOf(h) \in Blocking /\ pc[h] = "done" =>
        result[h] = IF rx[h] = "dropped" THEN NoAnswer ELSE chosen[h]

(* A session asks for attention exactly while a reason is active or a hook *)
(* is still to be decided that has queued its request there: the flag is   *)
(* up for every sender the broker keeps, and the last answer, cancellation *)
(* or cleanup takes it down (README.md, "derived from both").              *)
AttentionIsWarranted ==
    \A o \in Object :
        attention[o] <=> \/ reasons[o] # {}
                         \/ \E h \in broker : ref[h] = o /\ pc[h] # "push"

(* A waiter is only ever cancelled by a hook of its own session: a turn    *)
(* boundary, a removal, or the end of a tool of the name it is gating.     *)
(* Prompts for other tools and other sessions stay.                        *)
CancelHasCause ==
    [][\A h \in Hook :
          rx[h] = "open" /\ rx'[h] = "sent" /\ inbox'[h] = NoAnswer =>
            \E g \in Hook :
                /\ pc[g] = "apply" /\ pc'[g] # "apply"
                /\ Sess(g) = Sess(h)
                /\ \/ KindOf(g) \in {"TurnBoundary", "Removal"}
                   \/ KindOf(g) = "PostToolUse" /\ event[g].tool = event[h].tool]_vars

(* After a removal has ended, no hook of the session is blocked on an      *)
(* object that is off the bus, where nobody can answer or cancel it.       *)
RemovalReleasesBlockedHooks ==
    \A g, h \in Hook :
        (/\ KindOf(g) = "Removal" /\ pc[g] = "done"
         /\ Sess(h) = Sess(g)
         /\ pc[h] = "waiting" /\ rx[h] = "open")
            => ref[h] = Published(h)

(* The promise each request is given: its verdict is fixed once, by a user *)
(* or by nobody, and returned once.                                        *)
RequestStatus(h) ==
    CASE rx[h] = "none" -> "idle"
      [] rx[h] # "none" /\ pc[h] = "done" -> "returned"
      [] rx[h] = "open" /\ pc[h] # "done" -> "open"
      [] OTHER -> "decided"

Promise == INSTANCE Approval WITH
    Request <- Hook,
    status <- [h \in Hook |-> RequestStatus(h)],
    verdict <- [h \in Hook |-> inbox[h]]

(* Every step of the service keeps the promise of Approval. *)
KeepsPromise == Promise!Spec
-----------------------------------------------------------------------------
(* Liveness *)

(* With its timer, every hook connection is eventually finished. *)
EveryHookReturns == \A h \in Hook : <>(pc[h] = "done")

(* A hook whose request was answered or cancelled returns, and no timer is *)
(* involved: TimeOut is disabled once the channel has delivered.           *)
(* Cancelling releases the hook instead of leaving it to time out          *)
(* (service.rs 1166-1167).                                                 *)
DecidedHookReturns ==
    \A h \in Hook : (rx[h] = "sent") ~> (pc[h] = "done")
=============================================================================
