----------------------- MODULE PropertySignalsProofs -----------------------
(***************************************************************************)
(* The client's view of the properties, for any hooks, events and bounds.  *)
(*                                                                         *)
(* ViewIsCurrentOrDue is strengthened by what it rests on: objects are     *)
(* numbered in order, a task that is between its lookup and its emission   *)
(* holds an object, and it has nothing else to emit when it changes one.   *)
(* Types and what is announced follow on top of that invariant, from what  *)
(* an update may make of an object (Derives, Tells, Trimmed).              *)
(***************************************************************************)
EXTENDS PropertySignals, FiniteSetTheorems, TLAPS

IsObject(d) == d = [f \in Property |-> d[f]]

Holding == {"apply", "emit", "push", "show", "announce", "wait", "clear", "take", "cancel"}
Emitting == {"emit", "show", "clear"}

Shape ==
    /\ born \in Nat /\ object \in {NoObject, born}
    /\ pc = [h \in Hook |-> pc[h]]
    /\ ref \in [Hook -> 0..born]
    /\ due \in [Hook -> SUBSET Property]
    /\ data = [o \in Object |-> data[o]]
    /\ born <= MaxObject
    /\ \A o \in Object : IsObject(data[o])

Held ==
    \A h \in Hook : /\ pc[h] \in Holding => ref[h] # NoObject
                    /\ pc[h] \notin Emitting => due[h] = {}

IInv == Shape /\ Held /\ ViewIsCurrentOrDue

-----------------------------------------------------------------------------
(* The fields of an object are its properties. *)
LEMMA Fields ==
    Property = {"window", "title", "parent", "state", "complete", "reasons", "attention",
                "pending", "model", "usage"}
BY DEF Property, NewSession

(* An object with some fields replaced is an object. *)
LEMMA NewIsObject == IsObject(NewSession)
BY Fields DEF IsObject, NewSession, Property

LEMMA RefreshedIsObject ==
    ASSUME NEW d, IsObject(d)
    PROVE  IsObject(Refreshed(d))
BY DEF IsObject, Refreshed

LEMMA CancelledIsObject ==
    ASSUME NEW d, IsObject(d)
    PROVE  IsObject(Cancelled(d))
BY DEF IsObject, Cancelled

-----------------------------------------------------------------------------
Asking(d) == d.pending # <<>> \/ d.reasons # {}

(* What the updates of an event e make of an object d: each field is the   *)
(* object's, the event's or a constant of the program, and the reasons are *)
(* the object's, the event's and those of the events that block nobody.    *)
Known == {NonBlocking[k].reason : k \in DOMAIN NonBlocking}

Derives(d, c, e) ==
    /\ IsObject(c)
    /\ c.window \in {d.window, e.window} /\ c.title \in {d.title, e.title}
    /\ c.parent \in {d.parent, e.parent}
    /\ c.model \in {d.model, e.model} /\ c.usage \in {d.usage, e.usage}
    /\ c.state \in {d.state} \cup State \cup ({e.state} \ {Nil})
    /\ c.complete \in {d.complete} \cup BOOLEAN \cup ({e.complete} \ {Nil})
    /\ c.reasons \subseteq d.reasons \cup Known \cup {e.reason}

Tells(d, c) == d.attention = Asking(d) => c.attention = Asking(c)

LEMMA SetDerives ==
    ASSUME NEW d, NEW b, NEW e, Derives(d, b, e), Tells(d, b),
           NEW f \in {"window", "title", "model", "usage", "complete"}
    PROVE  Derives(d, Set(b, f, e[f]), e) /\ Tells(d, Set(b, f, e[f]))
BY Fields DEF Derives, Tells, Asking, IsObject, Set

LEMMA RefreshedDerives ==
    ASSUME NEW d, NEW b, NEW e, Derives(d, b, e)
    PROVE  Derives(d, Refreshed(b), e) /\ Tells(d, Refreshed(b))
BY Fields DEF Derives, Tells, Asking, IsObject, Refreshed

LEMMA CancelledDerives ==
    ASSUME NEW d, NEW b, NEW e, Derives(d, b, e)
    PROVE  Derives(d, Cancelled(b), e) /\ Tells(d, Cancelled(b))
BY Fields DEF Derives, Tells, Asking, IsObject, Cancelled

LEMMA PhaseDerives ==
    ASSUME NEW d, NEW b, NEW e, Derives(d, b, e), Tells(d, b),
           NEW s \in {b.state} \cup State \cup ({e.state} \ {Nil}),
           NEW c \in {b.complete} \cup BOOLEAN \cup ({e.complete} \ {Nil})
    PROVE  /\ Derives(d, [b EXCEPT !.state = s, !.complete = c], e)
           /\ Tells(d, [b EXCEPT !.state = s, !.complete = c])
BY Fields DEF Derives, Tells, Asking, IsObject

LEMMA TurnCompleteDerives ==
    ASSUME NEW d, NEW b, NEW e, Derives(d, b, e), Tells(d, b)
    PROVE  Derives(d, TurnComplete(b), e) /\ Tells(d, TurnComplete(b))
BY Fields DEF Derives, Tells, Asking, IsObject, TurnComplete, State

LEMMA ForToolDerives ==
    ASSUME NEW d, NEW b, NEW e, Derives(d, b, e), Tells(d, b), NEW tool
    PROVE  Derives(d, CancelledForTool(b, tool), e) /\ Tells(d, CancelledForTool(b, tool))
<1> DEFINE c == [b EXCEPT !.pending = Retained(@, {i \in DOMAIN @ : @[i].tool # tool})]
<1>1. Derives(d, c, e)
    BY Fields DEF Derives, IsObject
<1> HIDE DEF c
<1>2. Derives(d, Refreshed(c), e) /\ Tells(d, Refreshed(c))
    BY <1>1, RefreshedDerives
<1>3. QED
    BY <1>2 DEF CancelledForTool, c

LEMMA TransportDerives ==
    ASSUME NEW d, NEW b, NEW e, Derives(d, b, e), Tells(d, b)
    PROVE  Derives(d, Transport(b, e), e) /\ Tells(d, Transport(b, e))
BY SetDerives DEF Transport

LEMMA FactsDerives ==
    ASSUME NEW d, NEW b, NEW e, Derives(d, b, e), Tells(d, b)
    PROVE  Derives(d, Facts(b, e), e) /\ Tells(d, Facts(b, e))
<1> DEFINE c == [b EXCEPT !.model = e.model]
<1>1. Derives(d, c, e) /\ Tells(d, c)
    BY Fields DEF Derives, Tells, Asking, IsObject
<1> HIDE DEF c
<1>2. Derives(d, Set(c, "usage", e.usage), e) /\ Tells(d, Set(c, "usage", e.usage))
    BY <1>1, SetDerives
<1>3. QED
    BY <1>2 DEF Facts, c

LEMMA QuietDerives ==
    ASSUME NEW d, NEW b, NEW e, Derives(d, b, e)
    PROVE  Derives(d, Quiet(b), e) /\ Tells(d, Quiet(b))
<1> DEFINE c == [b EXCEPT !.reasons = {}]
<1>1. Derives(d, c, e)
    BY Fields DEF Derives, IsObject
<1> HIDE DEF c
<1>2. QED
    BY <1>1, RefreshedDerives DEF Quiet, c

LEMMA WithoutReasonDerives ==
    ASSUME NEW d, NEW b, NEW e, Derives(d, b, e), NEW reason
    PROVE  Derives(d, WithoutReason(b, reason), e) /\ Tells(d, WithoutReason(b, reason))
<1> DEFINE c == [b EXCEPT !.reasons = @ \ {reason}]
<1>1. Derives(d, c, e)
    BY Fields DEF Derives, IsObject
<1> HIDE DEF c
<1>2. QED
    BY <1>1, RefreshedDerives DEF WithoutReason, c

LEMMA WithReasonDerives ==
    ASSUME NEW d, NEW b, NEW e, Derives(d, b, e), NEW a,
           a.reason \in Known \cup {e.reason},
           a.state \in State \cup ({e.state} \ {Nil}),
           a.complete \in {b.complete} \cup BOOLEAN \cup ({e.complete} \ {Nil})
    PROVE  Derives(d, WithReason(b, e, a), e) /\ Tells(d, WithReason(b, e, a))
<1> DEFINE c == [b EXCEPT !.state = a.state, !.complete = a.complete,
                          !.reasons = @ \cup ({a.reason} \ {Nil})]
<1>1. Derives(d, c, e)
    BY Fields DEF Derives, IsObject
<1> HIDE DEF c
<1>2. Derives(d, Refreshed(c), e) /\ Tells(d, Refreshed(c))
    BY <1>1, RefreshedDerives
<1>3. QED
    BY <1>2, FactsDerives DEF WithReason, c

LEMMA ReportedDerives ==
    ASSUME NEW d, NEW b, NEW e, Derives(d, b, e), Tells(d, b)
    PROVE  Derives(d, Reported(b, e), e) /\ Tells(d, Reported(b, e))
<1> DEFINE s == [b EXCEPT !.state = IF e.state # Nil THEN e.state
                                    ELSE IF @ = "no-session" THEN "idle" ELSE @]
<1>1. Derives(d, s, e) /\ Tells(d, s)
    BY Fields DEF Derives, Tells, Asking, IsObject, State
<1> HIDE DEF s
<1>2. Derives(d, TurnComplete(s), e) /\ Tells(d, TurnComplete(s))
    BY <1>1, TurnCompleteDerives
<1>3. Derives(d, Set(s, "complete", e.complete), e) /\ Tells(d, Set(s, "complete", e.complete))
    BY <1>1, SetDerives
<1>4. QED
    BY <1>2, <1>3 DEF Reported, s

LEMMA NonBlockingTypes ==
    ASSUME NEW k \in DOMAIN NonBlocking
    PROVE  NonBlocking[k].state \in State /\ NonBlocking[k].complete \in BOOLEAN
<1>1. k \in {"RequestUserInput", "PlanModePrompt", "AgentTurnCompleteAttention",
             "ToolSuggestion", "ExecApprovalRequest", "ApplyPatchApprovalRequest",
             "RequestPermissions", "McpServerElicitationRequest"}
    BY DEF NonBlocking
<1>2. NonBlocking[k].state \in {"thinking", "idle"}
    BY <1>1 DEF NonBlocking, Asks
<1>3. NonBlocking[k].complete = TRUE \/ NonBlocking[k].complete = FALSE
    BY <1>1 DEF NonBlocking, Asks
<1>4. QED
    BY <1>2, <1>3 DEF State

LEMMA EffectDerives ==
    ASSUME NEW d, IsObject(d), NEW e
    PROVE  Derives(d, Effect(d, e), e) /\ Tells(d, Effect(d, e))
<1> DEFINE OK(c) == Derives(d, c, e) /\ Tells(d, c)
           t == Transport(d, e)
           f == Facts(t, e)
           Phase(b, s, c) == [b EXCEPT !.state = s, !.complete = c]
           asks == Asks(e.reason, IF e.state = Nil THEN "idle" ELSE e.state,
                        IF e.complete = Nil THEN d.complete ELSE e.complete)
<1>0. OK(d)
    BY DEF Derives, Tells
<1>1. OK(t) /\ OK(f)
    BY <1>0, TransportDerives, FactsDerives
<1> HIDE DEF t, f
<1>2. OK(Set(Set(t, "model", e.model), "usage", e.usage))
  <2>1. OK(Set(t, "model", e.model))
    BY <1>1, SetDerives
  <2>2. QED
    BY <2>1, SetDerives
<1>3. OK(Reported(f, e))
    BY <1>1, ReportedDerives
<1>4. OK(Cancelled([f EXCEPT !.state = "idle", !.complete = FALSE]))
  <2>1. OK(Phase(f, "idle", FALSE))
    BY <1>1, PhaseDerives DEF State
  <2>2. QED
    BY <2>1, CancelledDerives
<1>5. OK(Cancelled(TurnComplete(f))) /\ OK(Cancelled(TurnComplete(t)))
  <2>1. OK(TurnComplete(f)) /\ OK(TurnComplete(t))
    BY <1>1, TurnCompleteDerives
  <2>2. QED
    BY <2>1, CancelledDerives
<1>6. OK(Cancelled([f EXCEPT !.state = "thinking", !.complete = FALSE]))
  <2>1. OK(Phase(f, "thinking", FALSE))
    BY <1>1, PhaseDerives DEF State
  <2>2. QED
    BY <2>1, CancelledDerives
<1>7. \A s \in State : OK([f EXCEPT !.state = s]) /\ OK([t EXCEPT !.state = s])
    BY <1>1, Fields DEF Derives, Tells, Asking, IsObject
<1>8. OK(CancelledForTool(Quiet([f EXCEPT !.state = "thinking"]), e.tool))
  <2>1. OK([f EXCEPT !.state = "thinking"])
    BY <1>7 DEF State
  <2>2. OK(Quiet([f EXCEPT !.state = "thinking"]))
    BY <2>1, QuietDerives
  <2>3. QED
    BY <2>2, ForToolDerives
<1>9. OK(Cancelled([t EXCEPT !.state = "compacting"]))
  <2>1. OK([t EXCEPT !.state = "compacting"])
    BY <1>7 DEF State
  <2>2. QED
    BY <2>1, CancelledDerives
<1>10. ASSUME e.kind \in DOMAIN NonBlocking
       PROVE  OK(WithReason(d, e, NonBlocking[e.kind]))
    BY <1>0, <1>10, NonBlockingTypes, WithReasonDerives DEF Known
<1>11. OK(WithReason(d, e, asks))
  <2>1. /\ asks.reason = e.reason /\ asks.state \in State \cup ({e.state} \ {Nil})
        /\ asks.complete \in {d.complete} \cup ({e.complete} \ {Nil})
    BY DEF Asks, State
  <2> HIDE DEF asks
  <2>2. QED
    BY <1>0, <2>1, WithReasonDerives
<1>12. OK(WithoutReason(d, e.reason))
    BY <1>0, WithoutReasonDerives
<1>13. OK(Quiet([d EXCEPT !.state = "compacting", !.complete = FALSE]))
  <2>1. OK(Phase(d, "compacting", FALSE))
    BY <1>0, PhaseDerives DEF State
  <2>2. QED
    BY <2>1, QuietDerives
<1>14. OK(Quiet(TurnComplete(d)))
    BY <1>0, TurnCompleteDerives, QuietDerives
<1>15. OK(Set(d, "title", e.title))
    BY <1>0, SetDerives
<1>16. OK([f EXCEPT !.state = "thinking"]) /\ OK([f EXCEPT !.state = "tool-use"])
    BY <1>7 DEF State
<1>17. OK(Effect(d, e))
  <2> HIDE DEF OK
  <2>1. QED
    BY <1>0, <1>1, <1>2, <1>3, <1>4, <1>5, <1>6, <1>8, <1>9, <1>10, <1>11, <1>12, <1>13,
       <1>14, <1>15, <1>16 DEF Effect, t, f
<1>18. QED
    BY <1>17

LEMMA UpdateDerives ==
    ASSUME NEW d, IsObject(d), NEW e, NEW x
    PROVE  Derives(d, Update(x, d, e), e) /\ Tells(d, Update(x, d, e))
<1>0. Derives(d, d, e) /\ Tells(d, d)
    BY DEF Derives, Tells
<1> DEFINE c == [d EXCEPT !.parent = e.parent]
<1>1. Derives(d, c, e) /\ Tells(d, c)
    BY Fields DEF Derives, Tells, Asking, IsObject
<1>2. Derives(d, Transport(d, e), e) /\ Tells(d, Transport(d, e))
    BY <1>0, TransportDerives
<1>3. /\ Derives(d, Set(Transport(d, e), "title", e.title), e)
      /\ Tells(d, Set(Transport(d, e), "title", e.title))
    BY <1>2, SetDerives
<1> HIDE DEF c
<1>4. QED
    BY <1>1, <1>2, <1>3, EffectDerives DEF Update, c

(* What no operator but the two that cancel requests does to the list.     *)
LEMMA PendingKept ==
    ASSUME NEW d, IsObject(d), NEW e
    PROVE  /\ \A f \in Property \ {"pending"} : \A v : Set(d, f, v).pending = d.pending
           /\ Transport(d, e).pending = d.pending
           /\ Facts(d, e).pending = d.pending
           /\ Refreshed(d).pending = d.pending
           /\ TurnComplete(d).pending = d.pending
           /\ Quiet(d).pending = d.pending
           /\ Reported(d, e).pending = d.pending
           /\ \A a : WithReason(d, e, a).pending = d.pending
           /\ \A r : WithoutReason(d, r).pending = d.pending
<1>1. ASSUME NEW b, IsObject(b)
      PROVE  /\ \A f \in Property \ {"pending"} : \A v : Set(b, f, v).pending = b.pending
             /\ Refreshed(b).pending = b.pending
             /\ Facts(b, e).pending = b.pending
             /\ TurnComplete(b).pending = b.pending
    BY <1>1, Fields DEF IsObject, Set, Refreshed, Facts, TurnComplete
<1>2. Transport(d, e).pending = d.pending
    BY <1>1, Fields DEF Transport
<1>3. IsObject([d EXCEPT !.reasons = {}]) /\ [d EXCEPT !.reasons = {}].pending = d.pending
    BY Fields DEF IsObject
<1>4. Quiet(d).pending = d.pending
    BY <1>1, <1>3 DEF Quiet
<1>5. Reported(d, e).pending = d.pending
  <2> DEFINE s == [d EXCEPT !.state = IF e.state # Nil THEN e.state
                                      ELSE IF @ = "no-session" THEN "idle" ELSE @]
  <2>1. IsObject(s) /\ s.pending = d.pending
    BY Fields DEF IsObject
  <2> HIDE DEF s
  <2>2. TurnComplete(s).pending = d.pending
    BY <1>1, <2>1
  <2>3. Set(s, "complete", e.complete).pending = d.pending
    BY <1>1, <2>1, Fields
  <2>4. QED
    BY <2>2, <2>3 DEF Reported, s
<1>6. ASSUME NEW a PROVE WithReason(d, e, a).pending = d.pending
  <2> DEFINE c == [d EXCEPT !.state = a.state, !.complete = a.complete,
                            !.reasons = @ \cup ({a.reason} \ {Nil})]
  <2>1. IsObject(c) /\ c.pending = d.pending
    BY Fields DEF IsObject
  <2> HIDE DEF c
  <2>2. Refreshed(c).pending = d.pending /\ IsObject(Refreshed(c))
    BY <1>1, <2>1, Fields DEF Refreshed, IsObject
  <2>3. QED
    BY <1>1, <2>2 DEF WithReason, c
<1>7. ASSUME NEW r PROVE WithoutReason(d, r).pending = d.pending
  <2> DEFINE c == [d EXCEPT !.reasons = @ \ {r}]
  <2>1. IsObject(c) /\ c.pending = d.pending
    BY Fields DEF IsObject
  <2> HIDE DEF c
  <2>2. QED
    BY <1>1, <2>1 DEF WithoutReason, c
<1>8. QED
    BY <1>1, <1>2, <1>4, <1>5, <1>6, <1>7

(* An update leaves the list, empties it or retains some of it.            *)
Trimmed(d, c) ==
    \/ c.pending \in {d.pending, <<>>}
    \/ \E I \in SUBSET DOMAIN d.pending : c.pending = Retained(d.pending, I)

LEMMA EffectTrims ==
    ASSUME NEW d, IsObject(d), NEW e
    PROVE  Trimmed(d, Effect(d, e))
<1> DEFINE t == Transport(d, e)
           f == Facts(t, e)
           Kept(c) == c.pending = d.pending
           Empty(c) == c.pending = <<>>
<1>0. Derives(d, d, e) /\ Tells(d, d)
    BY DEF Derives, Tells
<1>1. IsObject(t) /\ IsObject(f) /\ Kept(t) /\ Kept(f)
  <2>1. IsObject(t) /\ Kept(t)
    BY <1>0, TransportDerives, PendingKept DEF Derives
  <2> HIDE DEF t
  <2>2. IsObject(f) /\ Kept(f)
    <3>1. Derives(t, t, e) /\ Tells(t, t)
      BY <2>1 DEF Derives, Tells
    <3>2. Derives(t, Facts(t, e), e)
      BY <3>1, FactsDerives
    <3>3. Kept(f)
      BY <2>1, PendingKept
    <3>4. QED
      BY <3>2, <3>3 DEF Derives
  <2>3. QED
    BY <2>1, <2>2 DEF t
<1> HIDE DEF t, f
<1>2. Kept(Set(Set(t, "model", e.model), "usage", e.usage))
  <2>1. Kept(Set(t, "model", e.model)) /\ IsObject(Set(t, "model", e.model))
    BY <1>1, Fields DEF Set, IsObject
  <2>2. QED
    BY <2>1, PendingKept, Fields
<1>3. Kept(Reported(f, e))
    BY <1>1, PendingKept
<1>4. \A b : IsObject(b) => Empty(Cancelled(b))
    BY Fields DEF IsObject, Cancelled
<1>5. /\ Empty(Cancelled(TurnComplete(f))) /\ Empty(Cancelled(TurnComplete(t)))
      /\ Empty(Cancelled([f EXCEPT !.state = "idle", !.complete = FALSE]))
      /\ Empty(Cancelled([f EXCEPT !.state = "thinking", !.complete = FALSE]))
      /\ Empty(Cancelled([t EXCEPT !.state = "compacting"]))
  <2>1. /\ IsObject(TurnComplete(f)) /\ IsObject(TurnComplete(t))
        /\ IsObject([f EXCEPT !.state = "idle", !.complete = FALSE])
        /\ IsObject([f EXCEPT !.state = "thinking", !.complete = FALSE])
        /\ IsObject([t EXCEPT !.state = "compacting"])
    BY <1>1, Fields DEF IsObject, TurnComplete
  <2>2. QED
    BY <1>4, <2>1
<1>6. /\ IsObject([f EXCEPT !.state = "thinking"]) /\ Kept([f EXCEPT !.state = "thinking"])
      /\ Kept([f EXCEPT !.state = "tool-use"])
    BY <1>1, Fields DEF IsObject
<1>7. Trimmed(d, CancelledForTool(Quiet([f EXCEPT !.state = "thinking"]), e.tool))
  <2> DEFINE b == Quiet([f EXCEPT !.state = "thinking"])
             I == {i \in DOMAIN b.pending : b.pending[i].tool # e.tool}
             c == [b EXCEPT !.pending = Retained(@, I)]
  <2>1. IsObject(b) /\ Kept(b)
    <3>1. \A x : IsObject(x) => IsObject(Quiet(x))
      BY Fields DEF IsObject, Quiet, Refreshed
    <3>2. QED
      BY <1>6, <3>1, PendingKept
  <2> HIDE DEF b
  <2>2. IsObject(c) /\ c.pending = Retained(d.pending, I) /\ I \in SUBSET DOMAIN d.pending
    BY <2>1, Fields DEF IsObject
  <2>3. CancelledForTool(b, e.tool) = IF e.tool = Nil THEN b ELSE Refreshed(c)
    BY DEF CancelledForTool
  <2> HIDE DEF c, I
  <2>4. Refreshed(c).pending = c.pending
    BY <2>2, PendingKept
  <2>5. Trimmed(d, CancelledForTool(b, e.tool))
    BY <2>1, <2>2, <2>3, <2>4 DEF Trimmed
  <2>6. QED
    BY <2>5 DEF b
<1>8. \A a : Kept(WithReason(d, e, a))
    BY PendingKept
<1>9. Kept(WithoutReason(d, e.reason))
    BY PendingKept
<1>10. /\ Kept(Quiet([d EXCEPT !.state = "compacting", !.complete = FALSE]))
       /\ Kept(Quiet(TurnComplete(d)))
  <2>1. /\ IsObject([d EXCEPT !.state = "compacting", !.complete = FALSE])
        /\ Kept([d EXCEPT !.state = "compacting", !.complete = FALSE])
        /\ IsObject(TurnComplete(d)) /\ Kept(TurnComplete(d))
    BY Fields DEF IsObject, TurnComplete
  <2>2. QED
    BY <2>1, PendingKept
<1>11. Kept(Set(d, "title", e.title))
    BY PendingKept, Fields
<1>12. \A c : Kept(c) \/ Empty(c) => Trimmed(d, c)
    BY DEF Trimmed
<1> HIDE DEF Kept, Empty
<1>13. QED
    BY <1>1, <1>2, <1>3, <1>5, <1>6, <1>7, <1>8, <1>9, <1>10, <1>11, <1>12 DEF Effect, t, f, Kept

LEMMA UpdateTrims ==
    ASSUME NEW d, IsObject(d), NEW e, NEW x
    PROVE  Trimmed(d, Update(x, d, e))
<1> DEFINE b == Transport(d, e)
<1>1. [d EXCEPT !.parent = e.parent].pending = d.pending
    BY Fields DEF IsObject
<1>2. b.pending = d.pending /\ IsObject(b)
    BY PendingKept, TransportDerives DEF Derives, Tells
<1>3. Set(b, "title", e.title).pending = d.pending
    BY <1>2, Fields, PendingKept
<1>4. QED
    BY <1>1, <1>2, <1>3, EffectTrims DEF Update, Trimmed

LEMMA UpdateIsObject ==
    ASSUME NEW d, IsObject(d), NEW e, NEW x
    PROVE  IsObject(Update(x, d, e))
BY UpdateDerives DEF Derives

-----------------------------------------------------------------------------
Rank(I, i) == Cardinality({j \in I : j <= i})

(* The positions that are kept are numbered without a gap. *)
LEMMA RankIsBijection ==
    ASSUME NEW L \in Nat, NEW I \in SUBSET (1..L)
    PROVE  /\ Cardinality(I) \in 0..L
           /\ \A i \in I : Rank(I, i) \in 1..Cardinality(I)
           /\ \A n \in 1..Cardinality(I) : \E i \in I : Rank(I, i) = n
           /\ \A i, k \in I : Rank(I, i) = Rank(I, k) => i = k
<1> DEFINE B(i) == {j \in I : j <= i}
           f == [i \in I |-> Rank(I, i)]
           N == Cardinality(I)
<1>1. IsFiniteSet(1..L) /\ Cardinality(1..L) = L
    BY FS_Interval
<1>2. IsFiniteSet(I) /\ N \in 0..L
  <2>1. IsFiniteSet(I) /\ N <= L
    BY <1>1, FS_Subset
  <2>2. N \in Nat
    BY <2>1, FS_CardinalityType
  <2>3. QED
    BY <2>1, <2>2
<1>3. ASSUME NEW i \in I
      PROVE  IsFiniteSet(B(i)) /\ Rank(I, i) \in 1..N
  <2>1. B(i) \in SUBSET I /\ B(i) # {}
    OBVIOUS
  <2>2. IsFiniteSet(B(i)) /\ Cardinality(B(i)) \in Nat /\ Cardinality(B(i)) <= N
    BY <1>2, <2>1, FS_Subset, FS_CardinalityType
  <2>3. Cardinality(B(i)) # 0
    BY <2>1, <2>2, FS_EmptySet
  <2>4. QED
    BY <1>2, <2>2, <2>3 DEF Rank
<1>4. ASSUME NEW i \in I, NEW k \in I, i < k
      PROVE  Rank(I, i) < Rank(I, k)
  <2>0. \A j \in I : j \in Nat /\ (j <= i => j <= k) /\ ~(k <= i) /\ k <= k
    BY <1>4
  <2>1. B(i) \cup {k} \in SUBSET B(k) /\ k \notin B(i)
    BY <2>0
  <2>2. IsFiniteSet(B(i)) /\ IsFiniteSet(B(k)) /\ Rank(I, i) \in Nat /\ Rank(I, k) \in Nat
    BY <1>3
  <2>3. Cardinality(B(i) \cup {k}) = Rank(I, i) + 1
    BY <2>1, <2>2, FS_AddElement DEF Rank
  <2>4. Cardinality(B(i) \cup {k}) <= Rank(I, k)
    BY <2>1, <2>2, FS_Subset DEF Rank
  <2>5. QED
    BY <2>2, <2>3, <2>4
<1>5. ASSUME NEW i \in I, NEW k \in I, Rank(I, i) = Rank(I, k)
      PROVE  i = k
  <2>1. Rank(I, k) \in 1..N
    BY <1>3
  <2>2. Rank(I, k) \in Nat
    BY <1>2, <2>1
  <2>3. ~(i < k) /\ ~(k < i)
    BY <1>4, <1>5, <2>2
  <2>4. i \in Nat /\ k \in Nat
    OBVIOUS
  <2>5. QED
    BY <2>3, <2>4
<1>6. f \in Injection(I, 1..N)
  <2>1. f \in [I -> 1..N]
    BY <1>3
  <2>2. QED
    BY <2>1, <1>5 DEF Injection, IsInjective
<1>7. IsFiniteSet(1..N) /\ Cardinality(1..N) = N
    BY <1>2, FS_Interval
<1>8. f \in Surjection(I, 1..N)
  <2> HIDE DEF f, N
  <2>1. Cardinality(I) = Cardinality(1..N)
    BY <1>7 DEF N
  <2>2. QED
    BY <1>6, <1>7, <2>1, FS_Injection
<1>9. QED
    BY <1>2, <1>3, <1>5, <1>8 DEF Surjection

(* retain: what is kept is in the order it was in, nothing comes twice and *)
(* nothing is lost.                                                        *)
LEMMA RetainedKeeps ==
    ASSUME NEW S, NEW q \in Seq(S), NEW I \in SUBSET DOMAIN q
    PROVE  /\ Retained(q, I) \in Seq(S)
           /\ Len(Retained(q, I)) = Cardinality(I)
           /\ Len(Retained(q, I)) <= Len(q)
           /\ \A n \in DOMAIN Retained(q, I) : \E i \in I : Retained(q, I)[n] = q[i]
           /\ \A i \in I : \E n \in DOMAIN Retained(q, I) : Retained(q, I)[n] = q[i]
<1> DEFINE N == Cardinality(I)
           at(n) == CHOOSE i \in I : Rank(I, i) = n
           r == [n \in 1..N |-> q[at(n)]]
<1>1. I \in SUBSET (1..Len(q)) /\ Len(q) \in Nat
    OBVIOUS
<1>2. /\ N \in 0..Len(q)
      /\ \A i \in I : Rank(I, i) \in 1..N
      /\ \A n \in 1..N : at(n) \in I /\ Rank(I, at(n)) = n
      /\ \A i, k \in I : Rank(I, i) = Rank(I, k) => i = k
  <2>1. /\ N \in 0..Len(q)
        /\ \A i \in I : Rank(I, i) \in 1..N
        /\ \A n \in 1..N : \E i \in I : Rank(I, i) = n
        /\ \A i, k \in I : Rank(I, i) = Rank(I, k) => i = k
    BY <1>1, RankIsBijection
  <2>2. QED
    BY <2>1
<1>3. Retained(q, I) = r
    BY DEF Retained, Rank
<1> HIDE DEF at, N
<1>4. r \in Seq(S) /\ Len(r) = N /\ DOMAIN r = 1..N
    BY <1>1, <1>2
<1>5. \A n \in DOMAIN r : \E i \in I : r[n] = q[i]
    BY <1>2, <1>4
<1>6. ASSUME NEW i \in I
      PROVE  \E n \in DOMAIN r : r[n] = q[i]
  <2>2. Rank(I, i) \in DOMAIN r /\ r[Rank(I, i)] = q[at(Rank(I, i))]
    BY <1>2, <1>4
  <2>3. at(Rank(I, i)) = i
    BY <1>2
  <2>4. QED
    BY <2>2, <2>3
<1>7. QED
    BY <1>2, <1>3, <1>4, <1>5, <1>6 DEF N

-----------------------------------------------------------------------------
(* What is done to the list of requests shows in three properties only.    *)
SameElsewhere(d, c) ==
    /\ IsObject(c)
    /\ \A f \in Property \ PendingProperties : Shown(c)[f] = Shown(d)[f]

LEMMA ShownElsewhere ==
    ASSUME NEW d, IsObject(d), NEW c, IsObject(c),
           \A f \in Property \ PendingProperties : c[f] = d[f]
    PROVE  SameElsewhere(d, c)
<1>1. ASSUME NEW f \in Property \ PendingProperties
      PROVE  Shown(c)[f] = c[f] /\ Shown(d)[f] = d[f]
    BY <1>1 DEF Shown, IsObject, PendingProperties
<1>2. QED
    BY <1>1 DEF SameElsewhere

LEMMA RefreshedElsewhere ==
    ASSUME NEW d, IsObject(d), NEW q
    PROVE  SameElsewhere(d, Refreshed([d EXCEPT !.pending = q]))
<1> DEFINE b == [d EXCEPT !.pending = q]
<1>1. IsObject(b) /\ \A f \in Property \ PendingProperties : b[f] = d[f]
    BY DEF IsObject, PendingProperties
<1> HIDE DEF b
<1>2. \A f \in Property \ PendingProperties : Refreshed(b)[f] = b[f]
    BY <1>1 DEF IsObject, Refreshed, PendingProperties
<1>3. SameElsewhere(d, Refreshed(b))
    BY <1>1, <1>2, RefreshedIsObject, ShownElsewhere
<1>4. QED
    BY <1>3 DEF b

LEMMA RequestsElsewhere ==
    ASSUME NEW d, IsObject(d), NEW r, NEW id
    PROVE  /\ SameElsewhere(d, WithRequest(d, r))
           /\ SameElsewhere(d, WithoutRequest(d, id))
           /\ SameElsewhere(d, Cancelled(d))
<1>1. SameElsewhere(d, WithRequest(d, r))
    BY RefreshedElsewhere DEF WithRequest
<1>2. SameElsewhere(d, WithoutRequest(d, id))
    BY RefreshedElsewhere DEF WithoutRequest
<1>3. SameElsewhere(d, Cancelled(d))
  <2>1. \A f \in Property \ PendingProperties : Cancelled(d)[f] = d[f]
    BY DEF IsObject, Cancelled, PendingProperties
  <2>2. QED
    BY <2>1, CancelledIsObject, ShownElsewhere
<1>4. QED
    BY <1>1, <1>2, <1>3

-----------------------------------------------------------------------------
LEMMA InitIInv == Init => IInv
<1> SUFFICES ASSUME Init PROVE IInv
    OBVIOUS
<1>1. Shape
  <2>0. born = 0 /\ object = NoObject /\ ref = [h \in Hook |-> 0]
    BY DEF Init, NoObject
  <2>1. /\ born \in Nat /\ object \in {NoObject, born} /\ born <= MaxObject
        /\ ref \in [Hook -> 0..born]
    BY <2>0, PropertySignalsAssumption
  <2>2. due \in [Hook -> SUBSET Property]
    BY DEF Init
  <2>3. pc = [h \in Hook |-> pc[h]]
    BY DEF Init
  <2>4. data = [o \in Object |-> data[o]] /\ \A o \in Object : IsObject(data[o])
    BY NewIsObject DEF Init
  <2>5. QED
    BY <2>1, <2>2, <2>3, <2>4 DEF Shape
<1>2. Held
  <2>1. \A h \in Hook : pc[h] \notin Holding
    BY DEF Init, First, After, Holding
  <2>2. QED
    BY <2>1 DEF Init, Held
<1>3. ViewIsCurrentOrDue
    BY DEF Init, ViewIsCurrentOrDue
<1>4. QED
    BY <1>1, <1>2, <1>3 DEF IInv

(* A step of hook h that changes neither objects nor view, and leaves h    *)
(* with nothing to emit that it had not.                                   *)
LEMMA QuietStep ==
    ASSUME IInv, NEW h \in Hook, UNCHANGED <<objectVars, clientVars, due>>,
           due[h] = {}, pc[h] # "remove",
           NEW l, pc' = [pc EXCEPT ![h] = l], NEW o \in {NoObject, object, ref[h]},
           ref' = [ref EXCEPT ![h] = o], l \in Holding => o # NoObject
    PROVE  IInv'
<1>1. Shape'
    BY DEF IInv, Shape, objectVars, clientVars, NoObject
<1>2. Held'
    BY DEF IInv, Held, Shape
<1>3. ViewIsCurrentOrDue'
    BY DEF IInv, Shape, Held, ViewIsCurrentOrDue, Removing, objectVars, clientVars
<1>4. QED
    BY <1>1, <1>2, <1>3 DEF IInv

(* Hook h writes c to the object it holds, and has every property whose    *)
(* value that changes to emit.                                             *)
LEMMA WriteStep ==
    ASSUME IInv, NEW h \in Hook, pc[h] \in {"apply", "push", "wait"},
           NEW c, IsObject(c), data' = [data EXCEPT ![ref[h]] = c],
           NEW fs \in SUBSET Property, due' = [due EXCEPT ![h] = fs],
           \A f \in Property \ fs : Shown(c)[f] = Shown(data[ref[h]])[f],
           NEW l \in Emitting, pc' = [pc EXCEPT ![h] = l],
           UNCHANGED <<ref, object, born, clientVars>>
    PROVE  IInv'
<1>1. Shape'
  <2>1. \A o \in Object : IsObject(data'[o])
    BY DEF IInv, Shape
  <2>2. data' = [o \in Object |-> data'[o]]
    BY DEF IInv, Shape
  <2>3. QED
    BY <2>1, <2>2 DEF IInv, Shape
<1>2. Held'
    BY DEF IInv, Held, Shape, Holding, Emitting
<1>3. ViewIsCurrentOrDue'
  <2> SUFFICES ASSUME object # NoObject, ~stale, NEW f \in Property
               PROVE  \/ view[f] = Shown(data'[object])[f]
                      \/ \E g \in Hook : ref[g] = object /\ f \in due'[g]
                      \/ f \in PendingProperties /\ Removing(object)'
    BY DEF ViewIsCurrentOrDue, clientVars
  <2>1. object \in Object
    BY DEF IInv, Shape, NoObject, Object
  <2>2. CASE ref[h] = object /\ f \in fs
    BY <2>2 DEF IInv, Shape
  <2>3. CASE ~(ref[h] = object /\ f \in fs)
    <3>1. Shown(data'[object])[f] = Shown(data[object])[f]
      <4>1. CASE ref[h] = object
        BY <2>1, <2>3, <4>1 DEF IInv, Shape
      <4>2. CASE ref[h] # object
        BY <2>1, <4>2 DEF IInv, Shape
      <4>3. QED
        BY <4>1, <4>2
    <3>2. \/ view[f] = Shown(data[object])[f]
          \/ \E g \in Hook : ref[g] = object /\ f \in due[g]
          \/ f \in PendingProperties /\ Removing(object)
      BY DEF IInv, ViewIsCurrentOrDue
    <3>3. \A g \in Hook : ref[g] = object /\ f \in due[g] => f \in due'[g]
      BY DEF IInv, Shape, Held, Emitting
    <3>4. Removing(object) => Removing(object)'
      BY DEF IInv, Shape, Removing
    <3>5. QED
      BY <3>1, <3>2, <3>3, <3>4
  <2>4. QED
    BY <2>2, <2>3
<1>4. QED
    BY <1>1, <1>2, <1>3 DEF IInv

(* Hook h tells the client of properties fs of the object it holds; what   *)
(* it had to emit is among them, and what else it has changed as well.     *)
LEMMA TellStep ==
    ASSUME IInv, NEW h \in Hook, pc[h] \in Emitting \cup {"take"},
           NEW fs \in SUBSET Property, due[h] \subseteq fs, Tell(ref[h], fs),
           NEW c, IsObject(c), data' = [data EXCEPT ![ref[h]] = c],
           \A f \in Property \ fs : Shown(c)[f] = Shown(data[ref[h]])[f],
           c # data[ref[h]] => fs # {},
           due' = [due EXCEPT ![h] = {}],
           NEW l, pc' = [pc EXCEPT ![h] = l],
           UNCHANGED <<ref, object, born>>
    PROVE  IInv'
<1>1. Shape'
  <2>1. \A o \in Object : IsObject(data'[o])
    BY DEF IInv, Shape
  <2>2. data' = [o \in Object |-> data'[o]]
    BY DEF IInv, Shape
  <2>3. QED
    BY <2>1, <2>2 DEF IInv, Shape
<1>2. Held'
    BY DEF IInv, Held, Shape, Holding, Emitting
<1>3. ViewIsCurrentOrDue'
  <2> SUFFICES ASSUME object # NoObject, ~stale', NEW f \in Property
               PROVE  \/ view'[f] = Shown(data'[object])[f]
                      \/ \E g \in Hook : ref[g] = object /\ f \in due'[g]
                      \/ f \in PendingProperties /\ Removing(object)'
    BY DEF ViewIsCurrentOrDue
  <2>1. object \in Object
    BY DEF IInv, Shape, NoObject, Object
  <2>2. /\ view' = [g \in Property |-> IF g \in fs THEN Shown(data'[ref[h]])[g] ELSE view[g]]
        /\ ~stale /\ (ref[h] = object \/ fs = {})
    BY DEF Tell
  <2>3. CASE ref[h] = object /\ f \in fs
    BY <2>2, <2>3
  <2>4. CASE ~(ref[h] = object /\ f \in fs)
    <3>1. view'[f] = view[f]
      BY <2>2, <2>4
    <3>2. Shown(data'[object])[f] = Shown(data[object])[f]
      <4>1. CASE ref[h] = object
        BY <2>1, <2>4, <4>1 DEF IInv, Shape
      <4>2. CASE ref[h] # object
        BY <2>1, <4>2 DEF IInv, Shape
      <4>3. QED
        BY <4>1, <4>2
    <3>3. \/ view[f] = Shown(data[object])[f]
          \/ \E g \in Hook : ref[g] = object /\ f \in due[g]
          \/ f \in PendingProperties /\ Removing(object)
      BY <2>2 DEF IInv, ViewIsCurrentOrDue
    <3>4. \A g \in Hook : ref[g] = object /\ f \in due[g] => f \in due'[g]
      BY <2>4 DEF IInv, Shape
    <3>5. Removing(object) => Removing(object)'
      BY DEF IInv, Shape, Removing, Emitting
    <3>6. QED
      BY <3>1, <3>2, <3>3, <3>4, <3>5
  <2>5. QED
    BY <2>3, <2>4
<1>4. QED
    BY <1>1, <1>2, <1>3 DEF IInv

(* The hook publishes the session: the client has what the object is.      *)
LEMMA CreateStep ==
    ASSUME IInv, NEW h \in Hook, CreateSession(h)
    PROVE  IInv'
<1> DEFINE c == Update(Head(todo[h]), NewSession, event[h])
<1>0. IsObject(c)
    BY NewIsObject, UpdateIsObject
<1>1. /\ pc[h] = "update" /\ born < MaxObject /\ born' = born + 1 /\ object' = born + 1
      /\ data' = [data EXCEPT ![born + 1] = c]
      /\ view' = Shown(data'[born + 1]) /\ UNCHANGED <<ref, due>>
      /\ pc' = [pc EXCEPT ![h] = After(event[h], Tail(todo[h]))]
    BY DEF CreateSession, NextUpdate, Goto
<1> HIDE DEF c
<1>2. Shape'
  <2>1. \A o \in Object : IsObject(data'[o])
    BY <1>0, <1>1 DEF IInv, Shape
  <2>2. data' = [o \in Object |-> data'[o]]
    BY <1>1 DEF IInv, Shape
  <2>3. born' \in Nat /\ object' \in {NoObject, born'} /\ born' <= MaxObject
    BY <1>1, PropertySignalsAssumption DEF IInv, Shape
  <2>4. ref' \in [Hook -> 0..born'] /\ due' \in [Hook -> SUBSET Property]
    BY <1>1 DEF IInv, Shape
  <2>5. pc' = [g \in Hook |-> pc'[g]]
    BY <1>1 DEF IInv, Shape
  <2>6. QED
    BY <2>1, <2>2, <2>3, <2>4, <2>5 DEF Shape
<1>3. Held'
  <2>1. After(event[h], Tail(todo[h])) \notin Holding
    BY DEF After, Holding
  <2>2. QED
    BY <1>1, <2>1 DEF IInv, Held, Shape, Emitting
<1>4. ViewIsCurrentOrDue'
    BY <1>1 DEF ViewIsCurrentOrDue
<1>5. QED
    BY <1>2, <1>3, <1>4 DEF IInv

(* Cancelling the requests shows in what a removal need not emit.          *)
LEMMA CancelStep ==
    ASSUME IInv, NEW h \in Hook, CancelRequests(h)
    PROVE  IInv'
<1> DEFINE c == Cancelled(data[ref[h]])
<1>1. /\ pc[h] = "cancel" /\ data' = [data EXCEPT ![ref[h]] = c]
      /\ pc' = [pc EXCEPT ![h] = "remove"] /\ UNCHANGED <<ref, due, object, born, clientVars>>
    BY DEF CancelRequests, Goto
<1>2. ref[h] \in Object
    BY <1>1, PropertySignalsAssumption DEF IInv, Held, Shape, Holding, Object, NoObject
<1>3. SameElsewhere(data[ref[h]], c)
    BY <1>2, RequestsElsewhere DEF IInv, Shape
<1> HIDE DEF c
<1>4. Shape'
  <2>1. \A o \in Object : IsObject(data'[o])
    BY <1>1, <1>3 DEF IInv, Shape, SameElsewhere
  <2>2. data' = [o \in Object |-> data'[o]]
    BY <1>1 DEF IInv, Shape
  <2>3. QED
    BY <1>1, <2>1, <2>2 DEF IInv, Shape
<1>5. Held'
    BY <1>1 DEF IInv, Held, Shape, Holding, Emitting
<1>6. ViewIsCurrentOrDue'
  <2> SUFFICES ASSUME object # NoObject, ~stale, NEW f \in Property
               PROVE  \/ view[f] = Shown(data'[object])[f]
                      \/ \E g \in Hook : ref[g] = object /\ f \in due[g]
                      \/ f \in PendingProperties /\ Removing(object)'
    BY <1>1 DEF ViewIsCurrentOrDue, clientVars
  <2>1. object \in Object
    BY DEF IInv, Shape, NoObject, Object
  <2>2. CASE ref[h] = object /\ f \in PendingProperties
    BY <1>1, <2>2 DEF IInv, Shape, Removing
  <2>3. CASE ~(ref[h] = object /\ f \in PendingProperties)
    <3>1. Shown(data'[object])[f] = Shown(data[object])[f]
      <4>1. CASE ref[h] = object
        BY <1>1, <1>3, <2>1, <2>3, <4>1 DEF IInv, Shape, SameElsewhere
      <4>2. CASE ref[h] # object
        BY <1>1, <2>1, <4>2 DEF IInv, Shape
      <4>3. QED
        BY <4>1, <4>2
    <3>2. \/ view[f] = Shown(data[object])[f]
          \/ \E g \in Hook : ref[g] = object /\ f \in due[g]
          \/ f \in PendingProperties /\ Removing(object)
      BY DEF IInv, ViewIsCurrentOrDue
    <3>3. Removing(object) => Removing(object)'
      BY <1>1 DEF IInv, Shape, Removing
    <3>4. QED
      BY <3>1, <3>2, <3>3
  <2>4. QED
    BY <2>2, <2>3
<1>7. QED
    BY <1>4, <1>5, <1>6 DEF IInv

(* What a step that writes nothing leaves as it was.                       *)
LEMMA Unwritten ==
    ASSUME IInv, NEW h \in Hook
    PROVE  /\ ref = [ref EXCEPT ![h] = ref[h]]
           /\ due = [due EXCEPT ![h] = due[h]]
           /\ data = [data EXCEPT ![ref[h]] = data[ref[h]]]
           /\ pc[h] \in Holding => ref[h] \in Object /\ IsObject(data[ref[h]])
           /\ pc[h] \notin Emitting => due[h] = {}
<1>1. /\ ref = [ref EXCEPT ![h] = ref[h]]
      /\ due = [due EXCEPT ![h] = due[h]]
    BY DEF IInv, Shape
<1>2. data = [data EXCEPT ![ref[h]] = data[ref[h]]]
    BY DEF IInv, Shape
<1>3. pc[h] \in Holding => ref[h] \in Object /\ IsObject(data[ref[h]])
    BY PropertySignalsAssumption DEF IInv, Shape, Held, NoObject, Object
<1>4. pc[h] \notin Emitting => due[h] = {}
    BY DEF IInv, Held
<1>5. QED
    BY <1>1, <1>2, <1>3, <1>4

LEMMA AfterHoldsNothing ==
    \A e, us : After(e, us) \notin Holding
BY DEF After, Holding

LEMMA UpdateStepIInv ==
    ASSUME IInv, NEW h \in Hook, UpdateStep(h)
    PROVE  IInv'
<1>1. CASE CreateSession(h)
    BY <1>1, CreateStep
<1>2. CASE FindSession(h)
  <2>1. pc' = [pc EXCEPT ![h] = "found"] /\ pc[h] = "update"
        /\ UNCHANGED <<ref, due, objectVars, clientVars>>
    BY <1>2 DEF FindSession, Goto
  <2>2. ref' = [ref EXCEPT ![h] = ref[h]] /\ due[h] = {}
    BY <2>1, Unwritten DEF Emitting
  <2>3. QED
    BY <2>1, <2>2, QuietStep DEF Holding
<1>3. CASE LookupSession(h)
  <2>1. /\ pc[h] = "found" /\ ref' = [ref EXCEPT ![h] = object]
        /\ UNCHANGED <<due, objectVars, clientVars>>
    BY <1>3 DEF LookupSession
  <2>2. due[h] = {}
    BY <2>1, Unwritten DEF Emitting
  <2>3. CASE object = NoObject
    <3>1. pc' = [pc EXCEPT ![h] = After(event[h], Tail(todo[h]))]
      BY <1>3, <2>3 DEF LookupSession, NextUpdate, Goto
    <3>2. QED
      BY <2>1, <2>2, <3>1, AfterHoldsNothing, QuietStep
  <2>4. CASE object # NoObject
    <3>1. pc' = [pc EXCEPT ![h] = "apply"]
      BY <1>3, <2>4 DEF LookupSession, Goto
    <3>2. QED
      BY <2>1, <2>2, <2>4, <3>1, QuietStep
  <2>5. QED
    BY <2>3, <2>4
<1>4. CASE ApplyUpdate(h)
  <2> DEFINE c == Update(Head(todo[h]), data[ref[h]], event[h])
             fs == Changed(data[ref[h]], c)
  <2>1. /\ pc[h] = "apply" /\ data' = [data EXCEPT ![ref[h]] = c]
        /\ due' = [due EXCEPT ![h] = fs] /\ pc' = [pc EXCEPT ![h] = "emit"]
        /\ UNCHANGED <<ref, object, born, clientVars>>
    BY <1>4 DEF ApplyUpdate, Goto
  <2>2. IsObject(c)
    BY <2>1, Unwritten, UpdateIsObject DEF Holding
  <2> HIDE DEF c
  <2>3. fs \in SUBSET Property
    BY DEF Changed
  <2>5. \A f \in Property \ fs : Shown(c)[f] = Shown(data[ref[h]])[f]
    BY DEF Changed
  <2> HIDE DEF fs
  <2> DEFINE l == "emit"
  <2>6. /\ pc[h] \in {"apply", "push", "wait"} /\ l \in Emitting /\ pc' = [pc EXCEPT ![h] = l]
        /\ data' = [data EXCEPT ![ref[h]] = c] /\ due' = [due EXCEPT ![h] = fs]
        /\ UNCHANGED <<ref, object, born, clientVars>>
    BY <2>1 DEF Emitting
  <2> HIDE DEF l
  <2>7. QED
    BY <2>2, <2>3, <2>5, <2>6, WriteStep, ZenonT(60)
<1>5. CASE EmitChanged(h)
  <2>1. /\ pc[h] = "emit" /\ Tell(ref[h], due[h]) /\ due' = [due EXCEPT ![h] = {}]
        /\ pc' = [pc EXCEPT ![h] = After(event[h], Tail(todo[h]))]
        /\ data' = data /\ UNCHANGED <<ref, object, born>>
    BY <1>5 DEF EmitChanged, NextUpdate, Goto, objectVars
  <2>2. /\ data' = [data EXCEPT ![ref[h]] = data[ref[h]]] /\ IsObject(data[ref[h]])
        /\ due[h] \in SUBSET Property
    BY <2>1, Unwritten DEF Holding, IInv, Shape
  <2>3. pc[h] \in Emitting \cup {"take"}
    BY <2>1 DEF Emitting
  <2>4. QED
    BY <2>1, <2>2, <2>3, TellStep
<1>6. QED
    BY <1>1, <1>2, <1>3, <1>4, <1>5 DEF UpdateStep

(* Hook h writes an object that differs in what shows of the requests.     *)
LEMMA RequestWrite ==
    ASSUME IInv, NEW h \in Hook, pc[h] \in {"apply", "push", "wait"},
           NEW c, SameElsewhere(data[ref[h]], c), data' = [data EXCEPT ![ref[h]] = c],
           due' = [due EXCEPT ![h] = PendingProperties],
           NEW l \in Emitting, pc' = [pc EXCEPT ![h] = l],
           UNCHANGED <<ref, object, born, clientVars>>
    PROVE  IInv'
<1>1. IsObject(c) /\ \A f \in Property \ PendingProperties :
                          Shown(c)[f] = Shown(data[ref[h]])[f]
    BY DEF SameElsewhere
<1>2. PendingProperties \in SUBSET Property
    BY Fields DEF PendingProperties
<1>3. QED
    BY <1>1, <1>2, WriteStep, ZenonT(60)

LEMMA RequestStepIInv ==
    ASSUME IInv, NEW h \in Hook, RequestStep(h)
    PROVE  IInv'
<1> DEFINE d == data[ref[h]]
<1>1. CASE LookupForRequest(h)
  <2> DEFINE l == IF object = NoObject THEN "done" ELSE "push"
  <2>1. /\ pc[h] = "lookup" /\ ref' = [ref EXCEPT ![h] = object] /\ pc' = [pc EXCEPT ![h] = l]
        /\ UNCHANGED <<due, objectVars, clientVars>>
    BY <1>1 DEF LookupForRequest, Goto
  <2>2. due[h] = {} /\ (l \in Holding => object # NoObject)
    BY <2>1, Unwritten DEF Emitting, Holding
  <2>3. QED
    BY <2>1, <2>2, QuietStep
<1>2. CASE PushRequest(h)
  <2>1. pc[h] = "push" /\ UNCHANGED <<ref, object, born, clientVars>>
    BY <1>2 DEF PushRequest
  <2>2. IsObject(d) /\ due[h] = {} /\ ref = [ref EXCEPT ![h] = ref[h]]
    BY <2>1, Unwritten DEF Holding, Emitting
  <2>3. CASE Full(d)
    <3>1. pc' = [pc EXCEPT ![h] = "done"] /\ UNCHANGED <<data, due>>
      BY <1>2, <2>3 DEF PushRequest, Goto
    <3>2. UNCHANGED <<objectVars, clientVars, due>>
      BY <2>1, <3>1 DEF objectVars
    <3>3. QED
      BY <2>1, <2>2, <3>1, <3>2, QuietStep DEF Holding
  <2>4. CASE ~Full(d)
    <3> DEFINE c == WithRequest(d, [id |-> h, tool |-> event[h].tool])
    <3>1. /\ data' = [data EXCEPT ![ref[h]] = c] /\ due' = [due EXCEPT ![h] = PendingProperties]
          /\ pc' = [pc EXCEPT ![h] = "show"]
      BY <1>2, <2>4 DEF PushRequest, Goto
    <3>2. SameElsewhere(d, c)
      BY <2>2, RequestsElsewhere
    <3> HIDE DEF c
    <3>3. "show" \in Emitting /\ pc[h] \in {"apply", "push", "wait"}
      BY <2>1 DEF Emitting
    <3>4. QED
      BY <2>1, <3>1, <3>2, <3>3, RequestWrite
  <2>5. QED
    BY <2>3, <2>4
<1>3. CASE EmitPending(h)
  <2> DEFINE l == IF pc[h] = "show" THEN "announce" ELSE "done"
  <2>1. /\ pc[h] \in {"show", "clear"} /\ Tell(ref[h], due[h]) /\ due' = [due EXCEPT ![h] = {}]
        /\ pc' = [pc EXCEPT ![h] = l] /\ data' = data /\ UNCHANGED <<ref, object, born>>
    BY <1>3 DEF EmitPending, Goto, objectVars
  <2>2. /\ data' = [data EXCEPT ![ref[h]] = data[ref[h]]] /\ IsObject(data[ref[h]])
        /\ due[h] \in SUBSET Property
    BY <2>1, Unwritten DEF Holding, IInv, Shape
  <2>3. pc[h] \in Emitting \cup {"take"}
    BY <2>1 DEF Emitting
  <2> HIDE DEF l
  <2>4. QED
    BY <2>1, <2>2, <2>3, TellStep
<1>4. CASE Announce(h)
  <2>1. /\ pc[h] = "announce" /\ pc' = [pc EXCEPT ![h] = "wait"]
        /\ UNCHANGED <<ref, due, objectVars, clientVars>>
    BY <1>4 DEF Announce, Goto
  <2>2. ref' = [ref EXCEPT ![h] = ref[h]] /\ due[h] = {} /\ ref[h] # NoObject
    BY <2>1, Unwritten DEF Emitting, Holding, Object, NoObject
  <2>3. QED
    BY <2>1, <2>2, QuietStep
<1>5. CASE SettleRequest(h)
  <2> DEFINE c == WithoutRequest(d, h)
  <2>1. /\ pc[h] = "wait" /\ data' = [data EXCEPT ![ref[h]] = c]
        /\ due' = [due EXCEPT ![h] = PendingProperties] /\ pc' = [pc EXCEPT ![h] = "clear"]
        /\ UNCHANGED <<ref, object, born, clientVars>>
    BY <1>5 DEF SettleRequest, Goto
  <2>2. SameElsewhere(d, c)
    BY <2>1, Unwritten, RequestsElsewhere DEF Holding
  <2> HIDE DEF c
  <2>3. "clear" \in Emitting /\ pc[h] \in {"apply", "push", "wait"}
    BY <2>1 DEF Emitting
  <2>4. QED
    BY <2>1, <2>2, <2>3, RequestWrite
<1>6. QED
    BY <1>1, <1>2, <1>3, <1>4, <1>5 DEF RequestStep

(* A client's answer takes a request and tells of it in one step.          *)
LEMMA AnswerStepIInv ==
    ASSUME IInv, NEW h \in Hook, LookupForReply(h) \/ TakeRequest(h)
    PROVE  IInv'
<1> DEFINE d == data[ref[h]]
<1>1. CASE LookupForReply(h)
  <2> DEFINE l == IF object = NoObject THEN "done" ELSE "take"
  <2>1. /\ pc[h] = "reply" /\ ref' = [ref EXCEPT ![h] = object] /\ pc' = [pc EXCEPT ![h] = l]
        /\ UNCHANGED <<due, objectVars, clientVars>>
    BY <1>1 DEF LookupForReply, Goto
  <2>2. due[h] = {} /\ (l \in Holding => object # NoObject)
    BY <2>1, Unwritten DEF Emitting, Holding
  <2>3. QED
    BY <2>1, <2>2, QuietStep
<1>2. CASE TakeRequest(h)
  <2>1. /\ pc[h] = "take" /\ pc' = [pc EXCEPT ![h] = "done"]
        /\ UNCHANGED <<ref, due, object, born>>
    BY <1>2 DEF TakeRequest, Goto
  <2>2. /\ IsObject(d) /\ due[h] = {} /\ ref' = [ref EXCEPT ![h] = ref[h]]
        /\ due' = [due EXCEPT ![h] = {}]
    BY <2>1, Unwritten DEF Holding, Emitting
  <2>3. CASE UNCHANGED <<data, clientVars>>
    <3>1. UNCHANGED <<objectVars, clientVars, due>>
      BY <2>1, <2>3 DEF objectVars
    <3>2. QED
      BY <2>1, <2>2, <3>1, QuietStep DEF Holding
  <2>4. ASSUME NEW i \in 1..Len(d.pending),
               data' = [data EXCEPT ![ref[h]] = WithoutRequest(@, d.pending[i].id)],
               Tell(ref[h], PendingProperties)
        PROVE  IInv'
    <3> DEFINE c == WithoutRequest(d, d.pending[i].id)
    <3>1. data' = [data EXCEPT ![ref[h]] = c]
      BY <2>4
    <3>2. SameElsewhere(d, c)
      BY <2>2, RequestsElsewhere
    <3> HIDE DEF c
    <3>3. /\ PendingProperties \in SUBSET Property /\ PendingProperties # {}
          /\ due[h] \subseteq PendingProperties
      BY <2>2, Fields DEF PendingProperties
    <3>4. IsObject(c) /\ \A f \in Property \ PendingProperties : Shown(c)[f] = Shown(d)[f]
      BY <3>2 DEF SameElsewhere
    <3>5. QED
      BY <2>1, <2>2, <2>4, <3>1, <3>3, <3>4, TellStep
  <2>5. QED
    BY <1>2, <2>3, <2>4 DEF TakeRequest
<1>3. QED
    BY <1>1, <1>2

(* Removing the object takes it from the client, whoever still holds it.   *)
LEMMA RemovalStepIInv ==
    ASSUME IInv, NEW h \in Hook,
           LookupToRetire(h) \/ CancelRequests(h) \/ RemoveObject(h) \/ VerifyRemoved(h)
    PROVE  IInv'
<1>1. CASE LookupToRetire(h)
  <2> DEFINE l == IF object = NoObject THEN "remove" ELSE "cancel"
  <2>1. /\ pc[h] = "retire" /\ ref' = [ref EXCEPT ![h] = object] /\ pc' = [pc EXCEPT ![h] = l]
        /\ UNCHANGED <<due, objectVars, clientVars>>
    BY <1>1 DEF LookupToRetire, Goto
  <2>2. due[h] = {} /\ (l \in Holding => object # NoObject)
    BY <2>1, Unwritten DEF Emitting, Holding
  <2>3. QED
    BY <2>1, <2>2, QuietStep
<1>2. CASE CancelRequests(h)
    BY <1>2, CancelStep
<1>3. CASE RemoveObject(h)
  <2>1. /\ pc[h] = "remove" /\ pc' = [pc EXCEPT ![h] = "verify"] /\ object' = NoObject
        /\ UNCHANGED <<ref, due, born, data>>
    BY <1>3 DEF RemoveObject, Goto
  <2>2. Shape'
    BY <2>1 DEF IInv, Shape
  <2>3. Held'
    BY <2>1 DEF IInv, Held, Shape, Holding, Emitting
  <2>4. ViewIsCurrentOrDue'
    BY <2>1 DEF ViewIsCurrentOrDue
  <2>5. QED
    BY <2>2, <2>3, <2>4 DEF IInv
<1>4. CASE VerifyRemoved(h)
  <2> DEFINE l == IF object # NoObject /\ tries[h] < MaxTries THEN "remove" ELSE "done"
  <2>1. /\ pc[h] = "verify" /\ pc' = [pc EXCEPT ![h] = l]
        /\ UNCHANGED <<ref, due, objectVars, clientVars>>
    BY <1>4 DEF VerifyRemoved, Goto
  <2>2. ref' = [ref EXCEPT ![h] = ref[h]] /\ due[h] = {} /\ l \notin Holding
    BY <2>1, Unwritten DEF Emitting, Holding
  <2>3. QED
    BY <2>1, <2>2, QuietStep
<1>5. QED
    BY <1>1, <1>2, <1>3, <1>4

LEMMA NextIInv == IInv /\ [Next]_vars => IInv'
<1> SUFFICES ASSUME IInv, [Next]_vars PROVE IInv'
    OBVIOUS
<1>1. CASE UNCHANGED vars
  <2>1. UNCHANGED <<pc, ref, due, object, born, data, view, stale>>
    BY <1>1 DEF vars, hookVars, objectVars, clientVars
  <2>2. Shape' /\ Held'
    BY <2>1 DEF IInv, Shape, Held
  <2>3. ViewIsCurrentOrDue'
    BY <2>1 DEF IInv, ViewIsCurrentOrDue, Removing
  <2>4. QED
    BY <2>2, <2>3 DEF IInv
<1>2. ASSUME NEW h \in Hook, Step(h) PROVE IInv'
    BY <1>2, UpdateStepIInv, RequestStepIInv, AnswerStepIInv, RemovalStepIInv DEF Step
<1>3. QED
    BY <1>1, <1>2 DEF Next

-----------------------------------------------------------------------------
(* dbus.rs 1030-1130, 439-456: whatever the hooks carry and however their  *)
(* steps interleave, a client that no earlier object has spoken to knows   *)
(* each property as it is, or some hook is yet to emit it, or the property *)
(* is one of a request that a removal under way has cancelled.             *)
THEOREM ViewFollows == Spec => []ViewIsCurrentOrDue
<1>1. Init => IInv
    BY InitIInv
<1>2. IInv /\ [Next]_vars => IInv'
    BY NextIInv
<1>3. IInv => ViewIsCurrentOrDue
    BY DEF IInv
<1>4. QED
    BY <1>1, <1>2, <1>3, PTL DEF Spec

-----------------------------------------------------------------------------
(* What is asked of an object: its fields come from the events, it has no  *)
(* more requests than it may, and its flag says whether anything asks.     *)
Asked == [id : Hook, tool : {event[h].tool : h \in Hook}]

Sound(d) ==
    /\ d.window \in {event[h].window : h \in Hook} \cup {Nil}
    /\ d.title \in {event[h].title : h \in Hook} \cup {Nil}
    /\ d.parent \in {event[h].parent : h \in Hook} \cup {Nil}
    /\ d.model \in {event[h].model : h \in Hook} \cup {Nil}
    /\ d.usage \in {event[h].usage : h \in Hook} \cup {Nil}
    /\ d.state \in State /\ d.complete \in BOOLEAN /\ d.attention \in BOOLEAN
    /\ d.reasons \subseteq {event[h].reason : h \in Hook} \cup Known
    /\ d.pending \in Seq(Asked) /\ Len(d.pending) <= MaxPending
    /\ d.attention = Asking(d)

Updating == {"update", "found", "apply", "emit"}

Suffix(t, s) == \E n \in 0..Len(s) : t = SubSeq(s, n + 1, Len(s))

Owned(h) ==
    /\ pc[h] \in Pc /\ tries[h] \in 0..MaxTries
    /\ Suffix(todo[h], Updates(event[h]))
    /\ pc[h] \in Updating => todo[h] # <<>>
    /\ pc[h] \in {"retire", "cancel"} => tries[h] = 0
    /\ pc[h] = "remove" => tries[h] < MaxTries

Types ==
    /\ event \in Traffic /\ stale \in BOOLEAN
    /\ pc = [h \in Hook |-> pc[h]] /\ tries = [h \in Hook |-> tries[h]]
    /\ todo = [h \in Hook |-> todo[h]]
    /\ \A h \in Hook : Owned(h)
    /\ \A o \in Object : Sound(data[o])

LEMMA SoundIsSession ==
    ASSUME NEW d, IsObject(d), Sound(d)
    PROVE  d \in Session
BY Fields DEF IsObject, Sound, Session, Asked, Known

LEMMA TypesSuffice == IInv /\ Types => TypeOK
<1> SUFFICES ASSUME IInv, Types PROVE TypeOK
    OBVIOUS
<1>1. data \in [Object -> Session]
    BY SoundIsSession DEF IInv, Shape, Types
<1>2. pc \in [Hook -> Pc] /\ tries \in [Hook -> 0..MaxTries]
    BY DEF Types, Owned
<1>3. \A h \in Hook : \E n \in 0..Len(Updates(event[h])) :
           todo[h] = SubSeq(Updates(event[h]), n + 1, Len(Updates(event[h])))
    BY DEF Types, Owned, Suffix
<1>4. /\ ref \in [Hook -> Object \cup {NoObject}] /\ due \in [Hook -> SUBSET Property]
      /\ object \in {NoObject, born} /\ born \in 0..MaxObject
    BY PropertySignalsAssumption DEF IInv, Shape, Object, NoObject
<1>5. \A o \in Object :
           /\ Len(data[o].pending) <= MaxPending
           /\ data[o].attention = (data[o].pending # <<>> \/ data[o].reasons # {})
    BY DEF Types, Sound, Asking
<1>6. QED
    BY <1>1, <1>2, <1>3, <1>4, <1>5 DEF TypeOK, Types

-----------------------------------------------------------------------------
LEMMA UpdatesAreMany ==
    ASSUME NEW e
    PROVE  Updates(e) \in Seq({"identity", "title", "event", "request"})
<1> DEFINE S == {"identity", "title", "event", "request"}
           p == IF e.parent = Nil THEN <<>> ELSE <<"identity">>
           t == IF e.title = Nil THEN <<>> ELSE <<"title">>
           v == IF e.kind \in {"Elicitation", "Notification"} THEN <<>> ELSE <<"event">>
           r == IF e.kind \in Blocking THEN <<"request">> ELSE <<>>
<1>1. /\ <<>> \in Seq(S) /\ <<"identity">> \in Seq(S) /\ <<"title">> \in Seq(S)
      /\ <<"event">> \in Seq(S) /\ <<"request">> \in Seq(S)
    OBVIOUS
<1>2. p \in Seq(S) /\ t \in Seq(S) /\ v \in Seq(S) /\ r \in Seq(S)
  <2> HIDE DEF S
  <2>1. QED
    BY <1>1
<1>3. Updates(e) \in {<<>>, <<"event">>, p \o t \o v \o r}
    BY DEF Updates
<1> HIDE DEF p, t, v, r, S
<1>4. p \o t \o v \o r \in Seq(S)
    BY <1>2
<1>5. QED
    BY <1>1, <1>3, <1>4 DEF S

LEMMA SuffixTail ==
    ASSUME NEW S, NEW s \in Seq(S), NEW t, Suffix(t, s), t # <<>>
    PROVE  Suffix(Tail(t), s)
<1>1. PICK n \in 0..Len(s) : t = SubSeq(s, n + 1, Len(s))
    BY DEF Suffix
<1>2. n + 1 \in 0..Len(s) /\ Len(s) \in Nat
    BY <1>1
<1>3. Tail(t) = SubSeq(s, (n + 1) + 1, Len(s))
    BY <1>1, <1>2
<1>4. QED
    BY <1>2, <1>3 DEF Suffix

LEMMA NewIsSound == Sound(NewSession)
<1>1. /\ NewSession.window = Nil /\ NewSession.title = Nil /\ NewSession.parent = Nil
      /\ NewSession.model = Nil /\ NewSession.usage = Nil
      /\ NewSession.state = "no-session" /\ NewSession.complete = FALSE
      /\ NewSession.attention = FALSE /\ NewSession.reasons = {} /\ NewSession.pending = <<>>
    BY DEF NewSession
<1>2. <<>> \in Seq(Asked) /\ Len(<<>>) = 0
    OBVIOUS
<1>3. NewSession.attention = Asking(NewSession)
    BY <1>1 DEF Asking
<1>4. NewSession.state \in State /\ NewSession.complete \in BOOLEAN /\ NewSession.attention \in BOOLEAN
    BY <1>1 DEF State
<1>5. Len(NewSession.pending) <= MaxPending /\ NewSession.pending \in Seq(Asked)
    BY <1>1, <1>2, PropertySignalsAssumption
<1>6. QED
    BY <1>1, <1>3, <1>4, <1>5 DEF Sound

LEMMA InitTypes == Init => Types
<1> SUFFICES ASSUME Init PROVE Types
    OBVIOUS
<1>1. ASSUME NEW h \in Hook PROVE Owned(h)
  <2>1. /\ todo[h] = Updates(event[h]) /\ pc[h] = First(event[h]) /\ tries[h] = 0
    BY DEF Init
  <2>2. Suffix(todo[h], Updates(event[h]))
    <3>1. Updates(event[h]) = SubSeq(Updates(event[h]), 0 + 1, Len(Updates(event[h])))
      BY UpdatesAreMany
    <3>2. 0 \in 0..Len(Updates(event[h]))
      BY UpdatesAreMany
    <3>3. QED
      BY <2>1, <3>1, <3>2 DEF Suffix
  <2>3. pc[h] \in Pc /\ (pc[h] \in Updating => todo[h] # <<>>)
    <3>1. event[h].kind = "ThreadNamed" => Updates(event[h]) = <<"event">>
      BY DEF Updates
    <3>2. QED
      BY <2>1, <3>1 DEF First, After, Pc, Updating
  <2>4. QED
    BY <2>1, <2>2, <2>3 DEF Owned, MaxTries
<1>2. Sound(NewSession)
    BY NewIsSound
<1>3. QED
    BY <1>1, <1>2 DEF Init, Types

-----------------------------------------------------------------------------
(* What the updates and the requests make of a sound object is sound.      *)
LEMMA RetainedIsAsked ==
    ASSUME NEW q \in Seq(Asked), Len(q) <= MaxPending, NEW I \in SUBSET DOMAIN q
    PROVE  Retained(q, I) \in Seq(Asked) /\ Len(Retained(q, I)) <= MaxPending
<1>1. Retained(q, I) \in Seq(Asked) /\ Len(Retained(q, I)) <= Len(q)
    BY RetainedKeeps
<1>2. QED
    BY <1>1, PropertySignalsAssumption

LEMMA DerivedIsSound ==
    ASSUME event \in Traffic, NEW h \in Hook, NEW d, Sound(d), NEW c,
           Derives(d, c, event[h]), Tells(d, c), Trimmed(d, c)
    PROVE  Sound(c)
<1>1. /\ event[h].state \in State \cup {Nil}
      /\ event[h].complete \in BOOLEAN \cup {Nil}
    BY PropertySignalsAssumption
<1>2. /\ c.state \in State /\ c.complete \in BOOLEAN
    BY <1>1 DEF Derives, Sound
<1>3. c.pending \in Seq(Asked) /\ Len(c.pending) <= MaxPending
  <2>1. CASE c.pending = d.pending
    BY <2>1 DEF Sound
  <2>2. CASE c.pending = <<>>
    <3>1. <<>> \in Seq(Asked) /\ Len(<<>>) = 0
      OBVIOUS
    <3>2. QED
      BY <2>2, <3>1, PropertySignalsAssumption
  <2>3. ASSUME NEW I \in SUBSET DOMAIN d.pending, c.pending = Retained(d.pending, I)
        PROVE  c.pending \in Seq(Asked) /\ Len(c.pending) <= MaxPending
    BY <2>3, RetainedIsAsked DEF Sound
  <2>4. QED
    BY <2>1, <2>2, <2>3 DEF Trimmed
<1>4. c.attention = Asking(c)
    BY DEF Sound, Tells
<1>5. Asking(c) \in BOOLEAN
    BY DEF Asking
<1>6. c.reasons \subseteq {event[g].reason : g \in Hook} \cup Known
    BY DEF Derives, Sound
<1>7. /\ c.window \in {event[g].window : g \in Hook} \cup {Nil}
      /\ c.title \in {event[g].title : g \in Hook} \cup {Nil}
      /\ c.parent \in {event[g].parent : g \in Hook} \cup {Nil}
      /\ c.model \in {event[g].model : g \in Hook} \cup {Nil}
      /\ c.usage \in {event[g].usage : g \in Hook} \cup {Nil}
    BY DEF Derives, Sound
<1>8. QED
    BY <1>2, <1>3, <1>4, <1>5, <1>6, <1>7 DEF Sound

LEMMA ListedIsSound ==
    ASSUME NEW d, IsObject(d), Sound(d), NEW q \in Seq(Asked), Len(q) <= MaxPending
    PROVE  Sound(Refreshed([d EXCEPT !.pending = q]))
<1> DEFINE b == [d EXCEPT !.pending = q]
           c == Refreshed(b)
<1>1. IsObject(b) /\ b.pending = q /\ \A f \in Property \ {"pending"} : b[f] = d[f]
    BY Fields DEF IsObject
<1> HIDE DEF b
<1>2. /\ c.attention = Asking(c) /\ \A f \in Property \ {"attention"} : c[f] = b[f]
    BY <1>1, Fields DEF IsObject, Refreshed, Asking
<1>3. Asking(c) \in BOOLEAN
    BY DEF Asking
<1> HIDE DEF c
<1>4. Sound(c)
    BY <1>1, <1>2, <1>3, Fields DEF Sound
<1>5. QED
    BY <1>4 DEF c, b

LEMMA RequestsAreSound ==
    ASSUME NEW d, IsObject(d), Sound(d), NEW h \in Hook, NEW id
    PROVE  /\ ~Full(d) => Sound(WithRequest(d, [id |-> h, tool |-> event[h].tool]))
           /\ Sound(WithoutRequest(d, id))
           /\ Sound(Cancelled(d))
<1>1. ASSUME ~Full(d)
      PROVE  Sound(WithRequest(d, [id |-> h, tool |-> event[h].tool]))
  <2> DEFINE q == Append(d.pending, [id |-> h, tool |-> event[h].tool])
  <2>1. q \in Seq(Asked) /\ Len(q) = Len(d.pending) + 1 /\ Len(d.pending) \in Nat
    BY DEF Sound, Asked
  <2>2. Len(q) <= MaxPending
    BY <1>1, <2>1, PropertySignalsAssumption DEF Full
  <2> HIDE DEF q
  <2>3. Sound(Refreshed([d EXCEPT !.pending = q]))
    BY <2>1, <2>2, ListedIsSound
  <2>4. QED
    BY <2>3 DEF WithRequest, q
<1>2. Sound(WithoutRequest(d, id))
  <2> DEFINE q == Retained(d.pending, {i \in DOMAIN d.pending : d.pending[i].id # id})
  <2>1. q \in Seq(Asked) /\ Len(q) <= MaxPending
    BY RetainedIsAsked DEF Sound
  <2> HIDE DEF q
  <2>2. Sound(Refreshed([d EXCEPT !.pending = q]))
    BY <2>1, ListedIsSound
  <2>3. QED
    BY <2>2 DEF WithoutRequest, q
<1>3. Sound(Cancelled(d))
  <2> DEFINE c == Cancelled(d)
  <2>1. /\ c.pending = <<>> /\ c.reasons = {} /\ c.attention = FALSE
        /\ \A f \in Property \ PendingProperties : c[f] = d[f]
    BY Fields DEF IsObject, Cancelled, PendingProperties
  <2>2. <<>> \in Seq(Asked) /\ Len(<<>>) = 0
    OBVIOUS
  <2> HIDE DEF c
  <2>3. c.attention = Asking(c)
    BY <2>1 DEF Asking
  <2>4. c.pending \in Seq(Asked) /\ Len(c.pending) <= MaxPending
    BY <2>1, <2>2, PropertySignalsAssumption
  <2>5. Sound(c)
    BY <2>1, <2>3, <2>4, Fields DEF Sound, PendingProperties
  <2>6. QED
    BY <2>5 DEF c
<1>4. QED
    BY <1>1, <1>2, <1>3

LEMMA CreatedIsSound ==
    ASSUME event \in Traffic, NEW h \in Hook, NEW d, IsObject(d), Sound(d), NEW x
    PROVE  Sound(Update(x, d, event[h]))
BY UpdateDerives, UpdateTrims, DerivedIsSound

-----------------------------------------------------------------------------
(* No event changes, and so nothing that soundness depends on does.        *)
LEMMA SoundStays ==
    ASSUME event' = event
    PROVE  \A o \in Object : Sound(data'[o]) => Sound(data[o])'
<1> SUFFICES ASSUME NEW o \in Object, Sound(data'[o]) PROVE Sound(data[o])'
    OBVIOUS
<1>1. Asked' = Asked
    BY DEF Asked
<1>2. /\ data'[o].window \in {event'[h].window : h \in Hook} \cup {Nil}
      /\ data'[o].title \in {event'[h].title : h \in Hook} \cup {Nil}
      /\ data'[o].parent \in {event'[h].parent : h \in Hook} \cup {Nil}
    BY DEF Sound
<1>3. /\ data'[o].model \in {event'[h].model : h \in Hook} \cup {Nil}
      /\ data'[o].usage \in {event'[h].usage : h \in Hook} \cup {Nil}
      /\ data'[o].reasons \subseteq {event'[h].reason : h \in Hook} \cup Known
    BY DEF Sound
<1>4. /\ data'[o].state \in State /\ data'[o].complete \in BOOLEAN
      /\ data'[o].attention \in BOOLEAN /\ data'[o].attention = Asking(data'[o])
      /\ data'[o].pending \in Seq(Asked') /\ Len(data'[o].pending) <= MaxPending
    BY <1>1 DEF Sound
<1>5. QED
    BY <1>2, <1>3, <1>4 DEF Sound

(* What a step of hook h does to the objects leaves each sound.            *)
LEMMA SoundStep ==
    ASSUME IInv, Types, NEW h \in Hook, Step(h)
    PROVE  event' = event /\ \A o \in Object : Sound(data[o])'
<1>0. event' = event
    BY DEF Step, UpdateStep, RequestStep, CreateSession, FindSession, LookupSession, ApplyUpdate,
           EmitChanged, LookupForRequest, PushRequest, EmitPending, Announce, SettleRequest,
           LookupForReply, TakeRequest, LookupToRetire, CancelRequests, RemoveObject, VerifyRemoved
<1>1. ASSUME NEW o \in Object, NEW c, Sound(c), data' = [data EXCEPT ![o] = c]
      PROVE  \A x \in Object : Sound(data'[x])
    BY <1>1 DEF IInv, Shape, Types
<1>2. \A x \in Object : IsObject(data[x]) /\ Sound(data[x])
    BY DEF IInv, Shape, Types
<1>3. event \in Traffic
    BY DEF Types
<1>4. \A x \in Object : Sound(data'[x])
  <2>1. CASE CreateSession(h)
    <3> DEFINE c == Update(Head(todo[h]), NewSession, event[h])
    <3>1. born + 1 \in Object /\ data' = [data EXCEPT ![born + 1] = c]
      BY <2>1, PropertySignalsAssumption DEF CreateSession, IInv, Shape, Object
    <3>2. Sound(c)
      BY <1>3, NewIsObject, NewIsSound, CreatedIsSound
    <3> HIDE DEF c
    <3>3. QED
      BY <1>1, <3>1, <3>2
  <2>2. CASE ApplyUpdate(h)
    <3> DEFINE c == Update(Head(todo[h]), data[ref[h]], event[h])
    <3>1. ref[h] \in Object /\ data' = [data EXCEPT ![ref[h]] = c]
      BY <2>2, Unwritten DEF ApplyUpdate, Holding
    <3>2. Sound(c)
      BY <1>2, <1>3, <3>1, CreatedIsSound
    <3> HIDE DEF c
    <3>3. QED
      BY <1>1, <3>1, <3>2
  <2>3. CASE PushRequest(h)
    <3> DEFINE c == WithRequest(data[ref[h]], [id |-> h, tool |-> event[h].tool])
    <3>1. /\ ref[h] \in Object
          /\ \/ Full(data[ref[h]]) /\ data' = data
             \/ ~Full(data[ref[h]]) /\ data' = [data EXCEPT ![ref[h]] = c]
      BY <2>3, Unwritten DEF PushRequest, Holding
    <3>2. ~Full(data[ref[h]]) => Sound(c)
      BY <1>2, <3>1, RequestsAreSound
    <3> HIDE DEF c
    <3>3. QED
      BY <1>1, <1>2, <3>1, <3>2
  <2>4. CASE SettleRequest(h)
    <3> DEFINE c == WithoutRequest(data[ref[h]], h)
    <3>1. ref[h] \in Object /\ data' = [data EXCEPT ![ref[h]] = c]
      BY <2>4, Unwritten DEF SettleRequest, Holding
    <3>2. Sound(c)
      BY <1>2, <3>1, RequestsAreSound
    <3> HIDE DEF c
    <3>3. QED
      BY <1>1, <3>1, <3>2
  <2>5. CASE TakeRequest(h)
    <3>1. /\ ref[h] \in Object
          /\ \/ data' = data
             \/ \E i \in 1..Len(data[ref[h]].pending) :
                   data' = [data EXCEPT ![ref[h]] =
                                WithoutRequest(@, data[ref[h]].pending[i].id)]
      BY <2>5, Unwritten DEF TakeRequest, Holding
    <3>2. ASSUME NEW id, data' = [data EXCEPT ![ref[h]] = WithoutRequest(@, id)]
          PROVE  \A x \in Object : Sound(data'[x])
      <4> DEFINE c == WithoutRequest(data[ref[h]], id)
      <4>1. Sound(c) /\ data' = [data EXCEPT ![ref[h]] = c]
        BY <1>2, <3>1, <3>2, RequestsAreSound
      <4> HIDE DEF c
      <4>2. QED
        BY <1>1, <3>1, <4>1
    <3>3. QED
      BY <1>2, <3>1, <3>2
  <2>6. CASE CancelRequests(h)
    <3> DEFINE c == Cancelled(data[ref[h]])
    <3>1. ref[h] \in Object /\ data' = [data EXCEPT ![ref[h]] = c]
      BY <2>6, Unwritten DEF CancelRequests, Holding
    <3>2. Sound(c)
      BY <1>2, <3>1, RequestsAreSound
    <3> HIDE DEF c
    <3>3. QED
      BY <1>1, <3>1, <3>2
  <2>7. CASE data' = data
    BY <1>2, <2>7
  <2>8. QED
    BY <2>1, <2>2, <2>3, <2>4, <2>5, <2>6, <2>7
    DEF Step, UpdateStep, RequestStep, FindSession, LookupSession, EmitChanged, LookupForRequest,
        EmitPending, Announce, LookupForReply, LookupToRetire, RemoveObject, VerifyRemoved, objectVars
<1>5. QED
    BY <1>0, <1>4, SoundStays

(* A step of hook h changes no other hook, and takes the first update off  *)
(* h's list only while h is updating.                                      *)
LEMMA OwnStep ==
    ASSUME IInv, Types, NEW h \in Hook, Step(h)
    PROVE  /\ pc' = [pc EXCEPT ![h] = pc'[h]] /\ ref' = [ref EXCEPT ![h] = ref'[h]]
           /\ due' = [due EXCEPT ![h] = due'[h]] /\ tries' = [tries EXCEPT ![h] = tries'[h]]
           /\ todo' = [todo EXCEPT ![h] = todo'[h]]
<1> USE DEF IInv, Shape, Types, Goto
<1>1. CASE UpdateStep(h)
    BY <1>1 DEF UpdateStep, CreateSession, FindSession, LookupSession, ApplyUpdate, EmitChanged,
                NextUpdate
<1>2. CASE RequestStep(h)
    BY <1>2 DEF RequestStep, LookupForRequest, PushRequest, EmitPending, Announce, SettleRequest
<1>3. CASE LookupForReply(h) \/ TakeRequest(h)
    BY <1>3 DEF LookupForReply, TakeRequest
<1>4. CASE LookupToRetire(h) \/ CancelRequests(h) \/ RemoveObject(h) \/ VerifyRemoved(h)
    BY <1>4 DEF LookupToRetire, CancelRequests, RemoveObject, VerifyRemoved
<1>5. QED
    BY <1>1, <1>2, <1>3, <1>4 DEF Step

LEMMA NextUpdateOwned ==
    ASSUME Types, NEW h \in Hook, NextUpdate(h), pc[h] \in Updating, event' = event,
           tries' = tries
    PROVE  Owned(h)'
<1>1. /\ todo'[h] = Tail(todo[h]) /\ pc'[h] = After(event[h], Tail(todo[h]))
    BY DEF NextUpdate, Goto, Types
<1>2. Suffix(todo'[h], Updates(event[h]))
    BY <1>1, SuffixTail, UpdatesAreMany DEF Types, Owned
<1>3. /\ pc'[h] \in {"update", "lookup", "done"}
      /\ pc'[h] \in Updating => todo'[h] # <<>>
    BY <1>1 DEF After, Updating
<1>4. QED
    BY <1>2, <1>3 DEF Owned, Types, Pc

(* The step leaves the hook's own program counter, list and count in step. *)
LEMMA OwnedStep ==
    ASSUME IInv, Types, NEW h \in Hook, Step(h), event' = event
    PROVE  Owned(h)'
<1>0. Owned(h) /\ (todo'[h] = todo[h] => Suffix(todo'[h], Updates(event'[h])))
    BY DEF Types, Owned
<1> DEFINE Stays == /\ todo'[h] = todo[h] /\ tries'[h] = tries[h] /\ pc'[h] \in Pc
                    /\ pc'[h] \in Updating => pc[h] \in Updating
                    /\ pc'[h] \in {"retire", "cancel", "remove"} =>
                           pc[h] \in {"retire", "cancel"}
<1>1. Stays => Owned(h)'
    BY <1>0 DEF Owned, MaxTries
<1>2. CASE CreateSession(h) \/ EmitChanged(h)
    BY <1>2, NextUpdateOwned DEF CreateSession, EmitChanged, Updating
<1>3. CASE LookupSession(h)
  <2>1. CASE object = NoObject
    BY <1>3, <2>1, NextUpdateOwned DEF LookupSession, Updating
  <2>2. CASE object # NoObject
    <3>1. Stays
      BY <1>3, <2>2 DEF LookupSession, Goto, Types, Updating, Pc
    <3>2. QED
      BY <1>1, <3>1
  <2>3. QED
    BY <2>1, <2>2
<1>4. CASE FindSession(h) \/ ApplyUpdate(h)
  <2>1. Stays
    BY <1>4 DEF FindSession, ApplyUpdate, Goto, Types, Updating, Pc
  <2>2. QED
    BY <1>1, <2>1
<1>5. CASE RequestStep(h)
  <2>1. Stays
    BY <1>5 DEF RequestStep, LookupForRequest, PushRequest, EmitPending, Announce, SettleRequest,
                Goto, Types, Updating, Pc
  <2>2. QED
    BY <1>1, <2>1
<1>6. CASE LookupForReply(h) \/ TakeRequest(h)
  <2>1. Stays
    BY <1>6 DEF LookupForReply, TakeRequest, Goto, Types, Updating, Pc
  <2>2. QED
    BY <1>1, <2>1
<1>7. CASE LookupToRetire(h) \/ CancelRequests(h)
  <2>1. Stays
    BY <1>7 DEF LookupToRetire, CancelRequests, Goto, Types, Updating, Pc
  <2>2. QED
    BY <1>1, <2>1
<1>8. CASE RemoveObject(h)
  <2>1. /\ pc[h] = "remove" /\ pc'[h] = "verify" /\ tries'[h] = tries[h] + 1
        /\ todo'[h] = todo[h]
    BY <1>8 DEF RemoveObject, Goto, Types
  <2>2. tries[h] \in 0..MaxTries /\ tries[h] < MaxTries
    BY <1>0, <2>1 DEF Owned
  <2>3. tries'[h] \in 0..MaxTries
    BY <2>1, <2>2 DEF MaxTries
  <2>4. QED
    BY <1>0, <2>1, <2>3 DEF Owned, Updating, Pc
<1>9. CASE VerifyRemoved(h)
  <2>1. /\ todo'[h] = todo[h] /\ tries'[h] = tries[h]
        /\ pc'[h] = IF object # NoObject /\ tries[h] < MaxTries THEN "remove" ELSE "done"
    BY <1>9 DEF VerifyRemoved, Goto, Types
  <2>2. QED
    BY <1>0, <2>1 DEF Owned, Updating, Pc
<1>10. QED
    BY <1>2, <1>3, <1>4, <1>5, <1>6, <1>7, <1>8, <1>9 DEF Step, UpdateStep

LEMMA NextTypes == IInv /\ Types /\ [Next]_vars => Types'
<1> SUFFICES ASSUME IInv, Types, [Next]_vars PROVE Types'
    OBVIOUS
<1>1. CASE UNCHANGED vars
  <2>1. UNCHANGED <<event, todo, pc, tries, data, stale>>
    BY <1>1 DEF vars, hookVars, objectVars, clientVars
  <2>2. \A h \in Hook : Owned(h)'
    BY <2>1 DEF Types, Owned
  <2>3. \A o \in Object : Sound(data[o])'
    <3>1. event' = event /\ \A o \in Object : Sound(data'[o])
      BY <2>1 DEF Types
    <3>2. QED
      BY <3>1, SoundStays
  <2>4. QED
    BY <2>1, <2>2, <2>3 DEF Types
<1>2. ASSUME NEW h \in Hook, Step(h) PROVE Types'
  <2>1. event' = event /\ \A o \in Object : Sound(data[o])'
    BY <1>2, SoundStep
  <2>2. /\ pc' = [pc EXCEPT ![h] = pc'[h]] /\ tries' = [tries EXCEPT ![h] = tries'[h]]
        /\ todo' = [todo EXCEPT ![h] = todo'[h]]
    BY <1>2, OwnStep
  <2>3. Owned(h)'
    BY <1>2, <2>1, OwnedStep
  <2>4. stale' \in BOOLEAN
    BY <1>2 DEF Types, Step, UpdateStep, RequestStep, CreateSession, FindSession, LookupSession,
                ApplyUpdate, EmitChanged, LookupForRequest, PushRequest, EmitPending, Announce,
                SettleRequest, LookupForReply, TakeRequest, LookupToRetire, CancelRequests,
                RemoveObject, VerifyRemoved, Tell, clientVars
  <2>5. ASSUME NEW g \in Hook, g # h PROVE Owned(g)'
    BY <2>1, <2>2, <2>5 DEF Types, Owned
  <2>6. /\ pc' = [g \in Hook |-> pc'[g]] /\ tries' = [g \in Hook |-> tries'[g]]
        /\ todo' = [g \in Hook |-> todo'[g]]
    BY <2>2 DEF Types
  <2>7. QED
    BY <2>1, <2>3, <2>4, <2>5, <2>6 DEF Types
<1>3. QED
    BY <1>1, <1>2 DEF Next

(* Whatever the events and their number, an object's fields are the events' *)
(* or constants, it has no more requests than it may, its flag says whether *)
(* anything asks, and no task runs past its list of updates or its tries.   *)
THEOREM TypeCorrect == Spec => []TypeOK
<1>1. Init => IInv /\ Types
    BY InitIInv, InitTypes
<1>2. IInv /\ Types /\ [Next]_vars => IInv' /\ Types'
    BY NextIInv, NextTypes
<1>3. IInv /\ Types => TypeOK
    BY TypesSuffice
<1>4. QED
    BY <1>1, <1>2, <1>3, PTL DEF Spec

-----------------------------------------------------------------------------
(* The client's list of requests, when one of them is announced.           *)
Informed(h) ==
    ref[h] = object /\ ~stale /\ Lists(data[object], h) => Lists(view, h)

Announced ==
    \A h \in Hook : /\ pc[h] = "show" => due[h] = PendingProperties
                    /\ pc[h] = "announce" => Informed(h)

LEMMA TrimmedIsWithin ==
    ASSUME NEW d, Sound(d), NEW c, Trimmed(d, c)
    PROVE  \A g : Lists(c, g) => Lists(d, g)
<1> SUFFICES ASSUME NEW g, Lists(c, g) PROVE Lists(d, g)
    OBVIOUS
<1>1. PICK i \in 1..Len(c.pending) : c.pending[i].id = g
    BY DEF Lists
<1>2. CASE c.pending = d.pending
    BY <1>2 DEF Lists
<1>3. CASE c.pending = <<>>
    BY <1>1, <1>3
<1>4. ASSUME NEW I \in SUBSET DOMAIN d.pending, c.pending = Retained(d.pending, I)
      PROVE  Lists(d, g)
  <2>1. d.pending \in Seq(Asked)
    BY DEF Sound
  <2>2. /\ Retained(d.pending, I) \in Seq(Asked)
        /\ \A n \in DOMAIN Retained(d.pending, I) : \E k \in I : Retained(d.pending, I)[n] = d.pending[k]
    BY <2>1, RetainedKeeps
  <2>3. PICK k \in I : c.pending[i] = d.pending[k]
    BY <1>1, <1>4, <2>2
  <2>4. k \in 1..Len(d.pending)
    BY <2>1
  <2>5. QED
    BY <1>1, <2>3, <2>4 DEF Lists
<1>5. QED
    BY <1>2, <1>3, <1>4 DEF Trimmed

LEMMA RequestsAreWithin ==
    ASSUME NEW d, IsObject(d), Sound(d), NEW h \in Hook, NEW id
    PROVE  /\ \A g \in Hook \ {h} :
                  Lists(WithRequest(d, [id |-> h, tool |-> event[h].tool]), g) => Lists(d, g)
           /\ \A g : Lists(WithoutRequest(d, id), g) => Lists(d, g)
           /\ \A g : Lists(Cancelled(d), g) => Lists(d, g)
<1>0. \A q : Refreshed([d EXCEPT !.pending = q]).pending = q
    BY Fields DEF IsObject, Refreshed
<1>1. ASSUME NEW g \in Hook \ {h},
             Lists(WithRequest(d, [id |-> h, tool |-> event[h].tool]), g)
      PROVE  Lists(d, g)
  <2> DEFINE r == [id |-> h, tool |-> event[h].tool]
  <2>1. WithRequest(d, r).pending = Append(d.pending, r)
    BY <1>0 DEF WithRequest
  <2>2. PICK i \in 1..Len(Append(d.pending, r)) : Append(d.pending, r)[i].id = g
    BY <1>1, <2>1 DEF Lists
  <2>3. d.pending \in Seq(Asked) /\ r.id = h
    BY DEF Sound
  <2> HIDE DEF r
  <2>4. i \in 1..Len(d.pending) /\ Append(d.pending, r)[i] = d.pending[i]
    BY <2>2, <2>3
  <2>5. QED
    BY <2>2, <2>4 DEF Lists
<1>2. \A g : Lists(WithoutRequest(d, id), g) => Lists(d, g)
  <2> DEFINE I == {i \in DOMAIN d.pending : d.pending[i].id # id}
  <2>1. WithoutRequest(d, id).pending = Retained(d.pending, I) /\ I \in SUBSET DOMAIN d.pending
    BY <1>0 DEF WithoutRequest
  <2> HIDE DEF I
  <2>2. Trimmed(d, WithoutRequest(d, id))
    BY <2>1 DEF Trimmed
  <2>3. QED
    BY <2>2, TrimmedIsWithin
<1>3. \A g : Lists(Cancelled(d), g) => Lists(d, g)
  <2>1. Cancelled(d).pending = <<>>
    BY Fields DEF IsObject, Cancelled
  <2>2. QED
    BY <2>1 DEF Lists
<1>4. QED
    BY <1>1, <1>2, <1>3

LEMMA ShownLists ==
    ASSUME NEW d, IsObject(d)
    PROVE  Shown(d)["pending"] = d.pending
BY Fields DEF IsObject, Shown

(* What a step writes to the path's object lists no request of a hook      *)
(* other than h that was not listed.                                       *)
LEMMA ListsStep ==
    ASSUME IInv, Types, NEW h \in Hook, Step(h), object # NoObject
    PROVE  \A g \in Hook \ {h} : Lists(data'[object], g) => Lists(data[object], g)
<1>1. /\ object \in Object
      /\ \A o \in Object : IsObject(data[o]) /\ Sound(data[o])
    BY PropertySignalsAssumption DEF IInv, Shape, Types, Object, NoObject
<1>2. ASSUME NEW c, data' = [data EXCEPT ![ref[h]] = c],
             \A g \in Hook \ {h} : Lists(c, g) => Lists(data[ref[h]], g)
      PROVE  \A g \in Hook \ {h} : Lists(data'[object], g) => Lists(data[object], g)
    BY <1>1, <1>2 DEF IInv, Shape
<1>3. CASE CreateSession(h)
    BY <1>3 DEF CreateSession
<1>4. CASE ApplyUpdate(h)
  <2> DEFINE c == Update(Head(todo[h]), data[ref[h]], event[h])
  <2>1. ref[h] \in Object /\ data' = [data EXCEPT ![ref[h]] = c]
    BY <1>4, Unwritten DEF ApplyUpdate, Holding
  <2>2. Trimmed(data[ref[h]], c)
    BY <1>1, <2>1, UpdateTrims
  <2> HIDE DEF c
  <2>3. QED
    BY <1>1, <1>2, <2>1, <2>2, TrimmedIsWithin
<1>5. CASE PushRequest(h)
  <2> DEFINE c == WithRequest(data[ref[h]], [id |-> h, tool |-> event[h].tool])
  <2>1. ref[h] \in Object /\ (data' = data \/ data' = [data EXCEPT ![ref[h]] = c])
    BY <1>5, Unwritten DEF PushRequest, Holding
  <2>2. \A g \in Hook \ {h} : Lists(c, g) => Lists(data[ref[h]], g)
    BY <1>1, <2>1, RequestsAreWithin
  <2> HIDE DEF c
  <2>3. QED
    BY <1>2, <2>1, <2>2
<1>6. CASE SettleRequest(h)
  <2> DEFINE c == WithoutRequest(data[ref[h]], h)
  <2>1. ref[h] \in Object /\ data' = [data EXCEPT ![ref[h]] = c]
    BY <1>6, Unwritten DEF SettleRequest, Holding
  <2>2. \A g : Lists(c, g) => Lists(data[ref[h]], g)
    BY <1>1, <2>1, RequestsAreWithin
  <2> HIDE DEF c
  <2>3. QED
    BY <1>2, <2>1, <2>2
<1>7. CASE TakeRequest(h)
  <2>1. /\ ref[h] \in Object
        /\ \/ data' = data
           \/ \E i \in 1..Len(data[ref[h]].pending) :
                 data' = [data EXCEPT ![ref[h]] =
                              WithoutRequest(@, data[ref[h]].pending[i].id)]
    BY <1>7, Unwritten DEF TakeRequest, Holding
  <2>2. ASSUME NEW id, data' = [data EXCEPT ![ref[h]] = WithoutRequest(@, id)]
        PROVE  \A g \in Hook \ {h} : Lists(data'[object], g) => Lists(data[object], g)
    <3> DEFINE c == WithoutRequest(data[ref[h]], id)
    <3>1. /\ data' = [data EXCEPT ![ref[h]] = c]
          /\ \A g : Lists(c, g) => Lists(data[ref[h]], g)
      BY <1>1, <2>1, <2>2, RequestsAreWithin
    <3> HIDE DEF c
    <3>2. QED
      BY <1>2, <3>1
  <2>3. QED
    BY <2>1, <2>2
<1>8. CASE CancelRequests(h)
  <2> DEFINE c == Cancelled(data[ref[h]])
  <2>1. ref[h] \in Object /\ data' = [data EXCEPT ![ref[h]] = c]
    BY <1>8, Unwritten DEF CancelRequests, Holding
  <2>2. \A g : Lists(c, g) => Lists(data[ref[h]], g)
    BY <1>1, <2>1, RequestsAreWithin
  <2> HIDE DEF c
  <2>3. QED
    BY <1>2, <2>1, <2>2
<1>9. CASE data' = data
    BY <1>9
<1>10. QED
    BY <1>3, <1>4, <1>5, <1>6, <1>7, <1>8, <1>9
    DEF Step, UpdateStep, RequestStep, FindSession, LookupSession, EmitChanged, LookupForRequest,
        EmitPending, Announce, LookupForReply, LookupToRetire, RemoveObject, VerifyRemoved, objectVars

LEMMA InitAnnounced == Init => Announced
BY DEF Init, First, After, Announced

(* After a step of hook h that keeps the path's object, the client is      *)
(* still informed of the request of another hook.                          *)
LEMMA InformedStep ==
    ASSUME IInv, Types, NEW h \in Hook, Step(h), object' = object, object # NoObject,
           NEW fs \in SUBSET Property, UNCHANGED clientVars \/ Tell(ref[h], fs),
           NEW g \in Hook \ {h}, ref'[g] = ref[g], Informed(g)
    PROVE  Informed(g)'
<1> SUFFICES ASSUME ref[g] = object, ~stale', Lists(data'[object], g)
             PROVE  Lists(view', g)
    BY DEF Informed, Lists
<1>1. /\ object \in Object /\ \A o \in Object : IsObject(data'[o])
  <2>1. IInv'
    BY NextIInv DEF Next
  <2>2. QED
    BY <2>1, PropertySignalsAssumption DEF IInv, Shape, Object, NoObject
<1>2. ~stale
    BY DEF Tell, clientVars
<1>3. Lists(data[object], g)
    BY ListsStep
<1>4. Lists(view, g)
    BY <1>2, <1>3 DEF Informed
<1>5. CASE UNCHANGED clientVars
    BY <1>4, <1>5 DEF clientVars, Lists
<1>6. CASE Tell(ref[h], fs)
  <2>1. /\ view' = [f \in Property |-> IF f \in fs THEN Shown(data'[ref[h]])[f] ELSE view[f]]
        /\ ref[h] = object \/ fs = {}
    BY <1>6 DEF Tell
  <2>2. "pending" \in Property
    BY Fields
  <2>3. view'["pending"] = IF "pending" \in fs THEN data'[object].pending ELSE view["pending"]
    BY <1>1, <2>1, <2>2, ShownLists
  <2>4. CASE "pending" \in fs
    BY <2>3, <2>4 DEF Lists
  <2>5. CASE "pending" \notin fs
    BY <1>4, <2>3, <2>5 DEF Lists
  <2>6. QED
    BY <2>4, <2>5
<1>7. QED
    BY <1>5, <1>6

(* How a step bears on the path and on what the client has been told.      *)
LEMMA PathStep ==
    ASSUME IInv, NEW h \in Hook, Step(h)
    PROVE  \/ object' = NoObject
           \/ CreateSession(h)
           \/ object' = object /\ \E fs \in SUBSET Property : UNCHANGED clientVars \/ Tell(ref[h], fs)
<1>1. {} \in SUBSET Property /\ PendingProperties \in SUBSET Property /\ due[h] \in SUBSET Property
    BY Fields DEF IInv, Shape, PendingProperties
<1>2. CASE EmitChanged(h) \/ EmitPending(h)
    BY <1>1, <1>2 DEF EmitChanged, EmitPending, objectVars
<1>3. CASE TakeRequest(h)
    BY <1>1, <1>3 DEF TakeRequest
<1>4. CASE RemoveObject(h)
    BY <1>4 DEF RemoveObject
<1>5. CASE object' = object /\ UNCHANGED clientVars
    BY <1>1, <1>5
<1>6. QED
    BY <1>2, <1>3, <1>4, <1>5
    DEF Step, UpdateStep, RequestStep, FindSession, LookupSession, ApplyUpdate, LookupForRequest,
        PushRequest, Announce, SettleRequest, LookupForReply, LookupToRetire, CancelRequests,
        VerifyRemoved, objectVars

(* The hook's own request: emitted when shown, and so in the view.         *)
LEMMA OwnAnnounced ==
    ASSUME IInv, Types, Announced, NEW h \in Hook, Step(h)
    PROVE  /\ pc'[h] = "show" => due'[h] = PendingProperties
           /\ pc'[h] = "announce" => Informed(h)'
<1>1. CASE PushRequest(h)
    BY <1>1 DEF PushRequest, Goto, IInv, Shape
<1>2. CASE EmitPending(h)
  <2>1. /\ pc[h] \in {"show", "clear"}
        /\ pc' = [pc EXCEPT ![h] = IF pc[h] = "show" THEN "announce" ELSE "done"]
        /\ data' = data /\ object' = object /\ Tell(ref[h], due[h]) /\ ref' = ref
    BY <1>2 DEF EmitPending, Goto, objectVars
  <2>2. pc'[h] # "show" /\ (pc'[h] = "announce" => pc[h] = "show")
    BY <2>1 DEF IInv, Shape
  <2>3. ASSUME pc[h] = "show" PROVE Informed(h)'
    <3> SUFFICES ASSUME ref[h] = object, Lists(data[object], h) PROVE Lists(view', h)
      BY <2>1 DEF Informed, Lists
    <3>1. "pending" \in due[h] /\ "pending" \in Property
      BY <2>3, Fields DEF Announced, PendingProperties
    <3>2. ref[h] \in Object /\ IsObject(data[ref[h]])
      BY <2>3, Unwritten DEF Holding
    <3>3. view' = [f \in Property |-> IF f \in due[h] THEN Shown(data'[ref[h]])[f] ELSE view[f]]
      BY <2>1, <3>2 DEF Tell, Object, NoObject
    <3>4. view'["pending"] = data[object].pending
      BY <2>1, <3>1, <3>2, <3>3, ShownLists
    <3>5. QED
      BY <3>4 DEF Lists
  <2>4. QED
    BY <2>2, <2>3
<1>3. CASE pc'[h] \notin {"show", "announce"}
    BY <1>3
<1>4. CASE UpdateStep(h)
    BY <1>3, <1>4 DEF UpdateStep, CreateSession, FindSession, LookupSession, ApplyUpdate, EmitChanged,
                NextUpdate, Goto, After, IInv, Shape
<1>5. CASE LookupForRequest(h) \/ Announce(h) \/ SettleRequest(h)
    BY <1>3, <1>5 DEF LookupForRequest, Announce, SettleRequest, Goto, IInv, Shape
<1>6. CASE LookupForReply(h) \/ TakeRequest(h)
    BY <1>3, <1>6 DEF LookupForReply, TakeRequest, Goto, IInv, Shape
<1>7. CASE LookupToRetire(h) \/ CancelRequests(h) \/ RemoveObject(h) \/ VerifyRemoved(h)
    BY <1>3, <1>7 DEF LookupToRetire, CancelRequests, RemoveObject, VerifyRemoved, Goto, IInv, Shape
<1>8. QED
    BY <1>1, <1>2, <1>4, <1>5, <1>6, <1>7 DEF Step, RequestStep

LEMMA NextAnnounced == IInv /\ Types /\ Announced /\ [Next]_vars => Announced'
<1> SUFFICES ASSUME IInv, Types, Announced, [Next]_vars PROVE Announced'
    OBVIOUS
<1>1. CASE UNCHANGED vars
    BY <1>1 DEF vars, hookVars, objectVars, clientVars, Announced, Informed, Lists
<1>2. ASSUME NEW h \in Hook, Step(h) PROVE Announced'
  <2>1. /\ pc' = [pc EXCEPT ![h] = pc'[h]] /\ ref' = [ref EXCEPT ![h] = ref'[h]]
        /\ due' = [due EXCEPT ![h] = due'[h]]
    BY <1>2, OwnStep
  <2>2. /\ pc'[h] = "show" => due'[h] = PendingProperties
        /\ pc'[h] = "announce" => Informed(h)'
    BY <1>2, OwnAnnounced
  <2>3. ASSUME NEW g \in Hook \ {h}
        PROVE  /\ pc'[g] = "show" => due'[g] = PendingProperties
               /\ pc'[g] = "announce" => Informed(g)'
    <3>1. pc'[g] = pc[g] /\ ref'[g] = ref[g] /\ due'[g] = due[g]
      BY <2>1 DEF IInv, Shape
    <3>2. ASSUME pc[g] = "announce" PROVE Informed(g)'
      <4>1. Informed(g) /\ ref[g] # NoObject /\ ref[g] \in 0..born /\ born \in Nat
        BY <3>2 DEF Announced, IInv, Held, Shape, Holding
      <4>2. CASE object' = NoObject
        BY <3>1, <4>1, <4>2 DEF Informed
      <4>3. CASE CreateSession(h)
        <5>1. object' = born + 1
          BY <4>3 DEF CreateSession
        <5>2. ref'[g] # object'
          BY <3>1, <4>1, <5>1
        <5>3. QED
          BY <5>2 DEF Informed
      <4>4. ASSUME NEW fs \in SUBSET Property, object' = object,
                   UNCHANGED clientVars \/ Tell(ref[h], fs)
            PROVE  Informed(g)'
        <5>1. CASE object = NoObject
          BY <3>1, <4>1, <4>4, <5>1 DEF Informed
        <5>2. CASE object # NoObject
          BY <1>2, <3>1, <4>1, <4>4, <5>2, InformedStep
        <5>3. QED
          BY <5>1, <5>2
      <4>5. QED
        BY <1>2, <4>2, <4>3, <4>4, PathStep
    <3>3. QED
      BY <3>1, <3>2 DEF Announced
  <2>4. QED
    BY <2>2, <2>3 DEF Announced
<1>3. QED
    BY <1>1, <1>2 DEF Next

(* service.rs 805-846: when the signals of a request go out, a client that *)
(* no earlier object has spoken to has the request in its list, if it is   *)
(* still pending, whatever the other hooks do in between.                  *)
THEOREM AnnouncementsFindTheirRequest == Spec => AnnouncedIsListed
<1>1. Init => IInv /\ Types /\ Announced
    BY InitIInv, InitTypes, InitAnnounced
<1>2. IInv /\ Types /\ Announced /\ [Next]_vars => IInv' /\ Types' /\ Announced'
    BY NextIInv, NextTypes, NextAnnounced
<1>3. Announced => \A h \in Hook :
          Announce(h) /\ ref[h] = object /\ ~stale /\ Lists(data[object], h) => Lists(view, h)
    BY DEF Announced, Informed, Announce
<1>4. QED
    BY <1>1, <1>2, <1>3, PTL DEF Spec, AnnouncedIsListed

(* The view is a record of the properties. *)
LEMMA ViewIsObject ==
    IInv /\ IsObject(view) /\ [Next]_vars => IsObject(view')
<1> SUFFICES ASSUME IInv, IsObject(view), [Next]_vars PROVE IsObject(view')
    OBVIOUS
<1>1. CASE UNCHANGED vars
    BY <1>1 DEF vars, clientVars
<1>2. ASSUME NEW h \in Hook, CreateSession(h) PROVE IsObject(view')
  <2>1. born + 1 \in Object /\ object' = born + 1 /\ view' = Shown(data'[born + 1])
    BY <1>2, PropertySignalsAssumption DEF CreateSession, IInv, Shape, Object
  <2>2. IInv'
    BY <1>2, CreateStep
  <2>3. IsObject(data'[born + 1])
    BY <2>1, <2>2 DEF IInv, Shape
  <2>4. QED
    BY <2>1, <2>3, Fields DEF IsObject, Shown
<1>3. ASSUME NEW h \in Hook, NEW fs, Tell(ref[h], fs) PROVE IsObject(view')
    BY <1>3 DEF Tell, IsObject, clientVars
<1>4. CASE UNCHANGED view
    BY <1>4
<1>5. ASSUME NEW h \in Hook, Step(h) PROVE IsObject(view')
    BY <1>5, <1>2, <1>3, <1>4, PathStep DEF RemoveObject, clientVars, Step, UpdateStep, RequestStep,
        FindSession, LookupSession, ApplyUpdate, EmitChanged, LookupForRequest, PushRequest,
        EmitPending, Announce, SettleRequest, LookupForReply, TakeRequest, LookupToRetire,
        CancelRequests, VerifyRemoved
<1>6. QED
    BY <1>1, <1>5 DEF Next

(* Once every task has ended, a client that no earlier object has spoken   *)
(* to knows every property of the session as it is: what ClientCatchesUp   *)
(* says in the end.                                                        *)
ClientIsCurrentAtRest ==
    (\A h \in Hook : pc[h] = "done") /\ object # NoObject /\ ~stale
        => view = Shown(data[object])

THEOREM ClientIsCurrent == Spec => []ClientIsCurrentAtRest
<1>1. Init => IInv /\ IsObject(view)
  <2>1. IsObject(Shown(NewSession))
    BY NewIsObject, Fields DEF IsObject, Shown
  <2>2. QED
    BY <2>1, InitIInv DEF Init
<1>2. IInv /\ IsObject(view) /\ [Next]_vars => IInv' /\ IsObject(view)'
    BY NextIInv, ViewIsObject
<1>3. IInv /\ IsObject(view) => ClientIsCurrentAtRest
  <2> SUFFICES ASSUME IInv, IsObject(view), \A h \in Hook : pc[h] = "done", object # NoObject, ~stale
               PROVE  view = Shown(data[object])
    BY DEF ClientIsCurrentAtRest
  <2>1. object \in Object /\ IsObject(data[object])
    BY PropertySignalsAssumption DEF IInv, Shape, Object, NoObject
  <2>2. \A h \in Hook : due[h] = {} /\ pc[h] # "remove"
    BY DEF IInv, Held, Emitting
  <2>3. \A f \in Property : view[f] = Shown(data[object])[f]
    BY <2>2 DEF IInv, ViewIsCurrentOrDue, Removing
  <2>4. IsObject(Shown(data[object]))
    BY <2>1, Fields DEF IsObject, Shown
  <2>5. QED
    BY <2>3, <2>4 DEF IsObject
<1>4. QED
    BY <1>1, <1>2, <1>3, PTL DEF Spec
=============================================================================
