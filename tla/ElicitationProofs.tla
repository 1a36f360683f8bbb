------------------------- MODULE ElicitationProofs -------------------------
(***************************************************************************)
(* The safety of Elicitation, for any number of hooks, sessions and        *)
(* objects and any limit on the queue.                                     *)
(***************************************************************************)
EXTENDS Elicitation, FiniteSetTheorems, TLAPS

(* A task that uses an object holds a reference to one that was created.   *)
PlacesOK ==
    /\ \A s \in Session : object[s] <= born
    /\ \A h \in Hook : ref[h] <= born
    /\ \A h \in Hook :
          pc[h] \in {"apply", "push", "waiting", "settled"} => ref[h] \in Object

(* A removal about to take the object off the bus has an attempt left. *)
AttemptsOK ==
    \A h \in Hook : pc[h] \notin {"verify", "done"} => attempts[h] < MaxAttempts

(* Where a task is and what its channel is like. *)
ChannelOK ==
    \A h \in Hook :
        /\ pc[h] = "push" => rx[h] = "open" /\ h \in broker
        /\ pc[h] = "waiting" => rx[h] \in {"open", "sent"}
        /\ pc[h] = "settled" => rx[h] \in {"sent", "dropped"}
        /\ pc[h] = "done" => rx[h] # "open"
        /\ pc[h] \notin {"push", "waiting", "settled", "done"} => rx[h] = "none"
        /\ h \in broker => pc[h] \in {"push", "waiting", "settled"}

(* A listed request waits for an answer, or for its hook to clean up after *)
(* a timeout; a request that waits is listed.                              *)
ListedOK ==
    /\ \A o \in Object : \A h \in pending[o] :
          /\ \/ pc[h] = "waiting" /\ rx[h] = "open"
             \/ pc[h] = "settled" /\ rx[h] = "dropped"
          /\ ref[h] = o
          /\ h \in broker
          /\ chosen[h] = NoAnswer
    /\ BlockedHookIsListed

(* What is on the channel is what a user chose, and it is what the hook    *)
(* returns once it has received it.                                        *)
AnswersOK ==
    \A h \in Hook :
        /\ rx[h] \in {"none", "open"} => chosen[h] = NoAnswer
        /\ rx[h] # "sent" => inbox[h] = NoAnswer /\ result[h] = NoAnswer
        /\ rx[h] = "sent" => inbox[h] = chosen[h]
        /\ pc[h] \in {"settled", "done"} /\ rx[h] = "sent" => result[h] = chosen[h]
        /\ pc[h] \notin {"settled", "done"} => result[h] = NoAnswer

(* A sender the broker keeps belongs to a request that is being queued, or *)
(* is in the queue of the object its hook holds.                           *)
QueuedOK == \A h \in broker : pc[h] # "push" => h \in pending[ref[h]]

(* An object's flag is what its queue and its reasons make it. *)
IsContents(d) ==
    /\ d \in [pending : SUBSET Hook, reasons : SUBSET Reason, attention : BOOLEAN]
    /\ d.attention <=> d.pending # {} \/ d.reasons # {}

AttentionOK == \A o \in Object : IsContents(Contents(o))

IInv ==
    /\ TypeOK
    /\ PlacesOK
    /\ AttemptsOK
    /\ ChannelOK
    /\ ListedOK
    /\ AnswersOK
    /\ QueuedOK
    /\ AttentionOK
-----------------------------------------------------------------------------
(* The initial states satisfy the inductive invariant. *)
LEMMA InitIInv == Init => IInv
  <1> SUFFICES ASSUME Init PROVE IInv
    OBVIOUS
  <1> USE ElicitationAssumption
  <1>0. event \in [Hook -> Event]
    BY DEF Init
  <1>1. \A h \in Hook : Start(KindOf(h)) \in {"found", "ask", "update"}
    BY DEF Start
  <1>2. TypeOK
    BY <1>0, <1>1 DEF Init, TypeOK, Pc, Object, NoObject, MaxAttempts
  <1>3. PlacesOK /\ AttemptsOK
    BY <1>1 DEF Init, PlacesOK, AttemptsOK, NoObject, MaxAttempts
  <1>4. ChannelOK /\ AnswersOK
    BY <1>1 DEF Init, ChannelOK, AnswersOK
  <1>5. ListedOK /\ QueuedOK
    BY <1>1 DEF Init, ListedOK, BlockedHookIsListed, QueuedOK
  <1>6. AttentionOK
    BY DEF Init, AttentionOK, IsContents, Contents
  <1> QED
    BY <1>2, <1>3, <1>4, <1>5, <1>6 DEF IInv
-----------------------------------------------------------------------------
(* What Respond does to every hook's channel. *)
LEMMA RespondChannel ==
    ASSUME TypeOK, NEW R \in SUBSET Hook, NEW a \in Answer \cup {NoAnswer},
           Respond(R, a)
    PROVE  /\ broker' = broker \ R
           /\ rx' \in [Hook -> {"none", "open", "sent", "dropped"}]
           /\ inbox' \in [Hook -> Answer \cup {NoAnswer}]
           /\ \A h \in Hook :
                 IF h \in R /\ h \in broker /\ rx[h] = "open"
                 THEN rx'[h] = "sent" /\ inbox'[h] = a
                 ELSE rx'[h] = rx[h] /\ inbox'[h] = inbox[h]
  BY DEF Respond, TypeOK

(* Every operation on an object sees to its flag; what it does to the      *)
(* queue.                                                                  *)
LEMMA RefreshedContents ==
    ASSUME NEW c \in [pending : SUBSET Hook, reasons : SUBSET Reason, attention : BOOLEAN]
    PROVE  IsContents(Refreshed(c)) /\ Refreshed(c).pending = c.pending
  BY DEF Refreshed, IsContents

LEMMA PushedContents ==
    ASSUME NEW d, IsContents(d), NEW h \in Hook
    PROVE  IsContents(Pushed(d, h)) /\ Pushed(d, h).pending = d.pending \cup {h}
  BY RefreshedContents DEF IsContents, Pushed

LEMMA WithoutContents ==
    ASSUME NEW d, IsContents(d), NEW h \in Hook
    PROVE  IsContents(Without(d, h)) /\ Without(d, h).pending = d.pending \ {h}
  <1>1. d \in [pending : SUBSET Hook, reasons : SUBSET Reason, attention : BOOLEAN]
    BY DEF IsContents
  <1>2. CASE h \in d.pending
    BY <1>1, <1>2, RefreshedContents DEF Without
  <1>3. CASE h \notin d.pending
    BY <1>1, <1>3 DEF Without
  <1> QED
    BY <1>2, <1>3

LEMMA ReasonsContents ==
    ASSUME NEW d, IsContents(d), NEW r \in Reason \cup {NoReason}
    PROVE  /\ IsContents(Raised(d, r)) /\ Raised(d, r).pending = d.pending
           /\ IsContents(Lowered(d, r)) /\ Lowered(d, r).pending = d.pending
  <1>1. d \in [pending : SUBSET Hook, reasons : SUBSET Reason, attention : BOOLEAN]
    BY DEF IsContents
  <1>2. IsContents(Raised(d, r)) /\ Raised(d, r).pending = d.pending
    BY <1>1, RefreshedContents DEF Raised
  <1>3. IsContents(Lowered(d, r)) /\ Lowered(d, r).pending = d.pending
    BY <1>1, RefreshedContents DEF Lowered
  <1> QED
    BY <1>2, <1>3

LEMMA QuietContents ==
    ASSUME NEW d, IsContents(d)
    PROVE  /\ IsContents(Quiet(d)) /\ Quiet(d).pending = d.pending
           /\ IsContents(Emptied(d)) /\ Emptied(d).pending = {}
  <1>1. d \in [pending : SUBSET Hook, reasons : SUBSET Reason, attention : BOOLEAN]
    BY DEF IsContents
  <1>2. IsContents(Quiet(d)) /\ Quiet(d).pending = d.pending
    BY <1>1, RefreshedContents DEF Quiet
  <1>3. IsContents(Emptied(d)) /\ Emptied(d).pending = {}
    BY <1>1, RefreshedContents DEF Emptied
  <1> QED
    BY <1>2, <1>3

LEMMA ThinnedContents ==
    ASSUME NEW d, IsContents(d), NEW R \in SUBSET Hook, NEW tool
    PROVE  /\ IsContents(Thinned(d, R, tool))
           /\ Thinned(d, R, tool).pending = IF tool = NoTool THEN d.pending ELSE d.pending \ R
  <1>1. d \in [pending : SUBSET Hook, reasons : SUBSET Reason, attention : BOOLEAN]
    BY DEF IsContents
  <1> QED
    BY <1>1, RefreshedContents DEF Thinned

(* What SetObject does to the objects. *)
LEMMA SetObjectFields ==
    ASSUME TypeOK, AttentionOK, NEW o \in Object, NEW d, IsContents(d), SetObject(o, d)
    PROVE  /\ pending' \in [Object -> SUBSET Hook]
           /\ reasons' \in [Object -> SUBSET Reason]
           /\ attention' \in [Object -> BOOLEAN]
           /\ \A p \in Object : pending'[p] = IF p = o THEN d.pending ELSE pending[p]
           /\ AttentionOK'
  <1>1. /\ pending' \in [Object -> SUBSET Hook]
        /\ reasons' \in [Object -> SUBSET Reason]
        /\ attention' \in [Object -> BOOLEAN]
        /\ \A p \in Object : pending'[p] = IF p = o THEN d.pending ELSE pending[p]
    BY DEF SetObject, TypeOK, IsContents
  <1>2. ASSUME NEW p \in Object PROVE IsContents(Contents(p))'
    <2>1. CASE p = o
      BY <1>1, <2>1 DEF SetObject, TypeOK, IsContents, Contents
    <2>2. CASE p # o
      <3>1. /\ pending'[p] = pending[p] /\ reasons'[p] = reasons[p]
            /\ attention'[p] = attention[p]
        BY <2>2 DEF SetObject, TypeOK
      <3> QED
        BY <3>1 DEF AttentionOK, IsContents, Contents
    <2> QED
      BY <2>1, <2>2
  <1> QED
    BY <1>1, <1>2 DEF AttentionOK

(* The object at a hook's path, when there is one, was created. *)
LEMMA PublishedObject ==
    ASSUME IInv, NEW h \in Hook
    PROVE  /\ Sess(h) \in Session
           /\ Published(h) \in Object \cup {NoObject}
           /\ Published(h) # NoObject => Published(h) \in Object /\ Published(h) <= born
  BY DEF IInv, TypeOK, Event, Sess, Published, PlacesOK

LEMMA FindSessionIInv ==
    ASSUME IInv, NEW h \in Hook, FindSession(h) PROVE IInv'
  <1> USE ElicitationAssumption DEF FindSession, Goto, IInv, TypeOK, objectVars, channelVars, Published, Sess
  <1>1. TypeOK'
    BY DEF Pc, MaxAttempts, NoObject
  <1>2. PlacesOK' /\ AttemptsOK'
    BY DEF PlacesOK, AttemptsOK, MaxAttempts, Object, NoObject
  <1>3. ChannelOK'
    BY DEF ChannelOK
  <1>4. ListedOK'
    BY DEF ListedOK, BlockedHookIsListed, ChannelOK
  <1>5. AnswersOK'
    BY DEF AnswersOK, ChannelOK
  <1>6. AttentionOK' /\ QueuedOK'
    BY DEF AttentionOK, IsContents, Contents, QueuedOK, ChannelOK
  <1> QED
    BY <1>1, <1>2, <1>3, <1>4, <1>5, <1>6

LEMMA LookupSessionIInv ==
    ASSUME IInv, NEW h \in Hook, LookupSession(h) PROVE IInv'
  <1> USE ElicitationAssumption DEF LookupSession, Goto, IInv, TypeOK, objectVars, channelVars
  <1>0. Published(h) # NoObject => Published(h) \in Object /\ Published(h) <= born
    BY PublishedObject
  <1>1. TypeOK'
    BY <1>0 DEF Pc, MaxAttempts, NoObject
  <1>2. PlacesOK' /\ AttemptsOK'
    <2>1. PlacesOK'
      <3>1. UNCHANGED <<object, born>>
        OBVIOUS
      <3>2. \A s \in Session : object'[s] <= born'
        BY <3>1 DEF PlacesOK
      <3>3. ref' \in [Hook -> Object \cup {NoObject}]
        BY <1>1
      <3>4. ASSUME NEW g \in Hook
            PROVE  /\ ref'[g] <= born'
                   /\ pc'[g] \in {"apply", "push", "waiting", "settled"} => ref'[g] \in Object
        <4>1. CASE g = h
          BY <1>0, <3>1, <4>1 DEF PlacesOK, NoObject
        <4>2. CASE g # h
          BY <3>1, <4>2 DEF PlacesOK
        <4> QED
          BY <4>1, <4>2
      <3> QED
        BY <3>2, <3>4 DEF PlacesOK
    <2>2. AttemptsOK'
      BY <1>0, SMTT(30) DEF AttemptsOK, MaxAttempts, NoObject
    <2> QED
      BY <2>1, <2>2
  <1>3. ChannelOK'
    BY DEF ChannelOK
  <1>4. ListedOK'
    BY DEF ListedOK, BlockedHookIsListed, ChannelOK
  <1>5. AnswersOK'
    BY DEF AnswersOK, ChannelOK
  <1>6. AttentionOK' /\ QueuedOK'
    BY DEF AttentionOK, IsContents, Contents, QueuedOK, ChannelOK
  <1> QED
    BY <1>1, <1>2, <1>3, <1>4, <1>5, <1>6

LEMMA OpenRequestIInv ==
    ASSUME IInv, NEW h \in Hook, OpenRequest(h) PROVE IInv'
  <1> USE ElicitationAssumption DEF OpenRequest, Goto, IInv, TypeOK, objectVars, channelVars
  <1>0. Published(h) # NoObject => Published(h) \in Object /\ Published(h) <= born
    BY PublishedObject
  <1>1. TypeOK'
    BY <1>0 DEF Pc, MaxAttempts, NoObject
  <1>2. PlacesOK' /\ AttemptsOK'
    <2>1. PlacesOK'
      <3>1. UNCHANGED <<object, born>>
        OBVIOUS
      <3>2. \A s \in Session : object'[s] <= born'
        BY <3>1 DEF PlacesOK
      <3>3. ref' \in [Hook -> Object \cup {NoObject}]
        BY <1>1
      <3>4. ASSUME NEW g \in Hook
            PROVE  /\ ref'[g] <= born'
                   /\ pc'[g] \in {"apply", "push", "waiting", "settled"} => ref'[g] \in Object
        <4>1. CASE g = h
          BY <1>0, <3>1, <4>1 DEF PlacesOK, NoObject
        <4>2. CASE g # h
          BY <3>1, <4>2 DEF PlacesOK
        <4> QED
          BY <4>1, <4>2
      <3> QED
        BY <3>2, <3>4 DEF PlacesOK
    <2>2. AttemptsOK'
      BY <1>0, SMTT(30) DEF AttemptsOK, MaxAttempts, NoObject
    <2> QED
      BY <2>1, <2>2
  <1>3. ChannelOK'
    BY DEF ChannelOK
  <1>4. ListedOK'
    <2>1. rx[h] = "none" /\ pc[h] = "lookup"
      BY DEF ChannelOK
    <2>2. \A o \in Object : h \notin pending[o]
      BY <2>1 DEF ListedOK
    <2>3. pc'[h] \in {"push", "done"} /\ UNCHANGED <<pending, chosen>> /\ broker \subseteq broker'
      OBVIOUS
    <2>4. \A g \in Hook : g # h => pc'[g] = pc[g] /\ rx'[g] = rx[g] /\ ref'[g] = ref[g]
      OBVIOUS
    <2>5. \A o \in Object : \A g \in pending[o] : g # h /\ g \in Hook
      BY <2>2
    <2> HIDE DEF OpenRequest, TypeOK
    <2> QED
      BY <2>3, <2>4, <2>5 DEF ListedOK, BlockedHookIsListed
  <1>5. AnswersOK'
    BY DEF AnswersOK, ChannelOK
  <1>6. AttentionOK' /\ QueuedOK'
    BY DEF AttentionOK, IsContents, Contents, QueuedOK, ChannelOK
  <1> QED
    BY <1>1, <1>2, <1>3, <1>4, <1>5, <1>6

LEMMA ReceiveAnswerIInv ==
    ASSUME IInv, NEW h \in Hook, ReceiveAnswer(h) PROVE IInv'
  <1> USE ElicitationAssumption DEF ReceiveAnswer, Goto, IInv, TypeOK, objectVars, channelVars, Published, Sess
  <1>1. TypeOK'
    BY DEF Pc, MaxAttempts, NoObject
  <1>2. PlacesOK' /\ AttemptsOK'
    BY DEF PlacesOK, AttemptsOK, MaxAttempts, Object, NoObject
  <1>3. ChannelOK'
    BY DEF ChannelOK
  <1>4. ListedOK'
    BY DEF ListedOK, BlockedHookIsListed, ChannelOK
  <1>5. AnswersOK'
    BY DEF AnswersOK, ChannelOK
  <1>6. AttentionOK' /\ QueuedOK'
    BY DEF AttentionOK, IsContents, Contents, QueuedOK, ChannelOK
  <1> QED
    BY <1>1, <1>2, <1>3, <1>4, <1>5, <1>6

LEMMA TimeOutIInv ==
    ASSUME IInv, NEW h \in Hook, TimeOut(h) PROVE IInv'
  <1> USE ElicitationAssumption DEF TimeOut, Goto, IInv, TypeOK, objectVars, channelVars, Published, Sess
  <1>1. TypeOK'
    BY DEF Pc, MaxAttempts, NoObject
  <1>2. PlacesOK' /\ AttemptsOK'
    BY DEF PlacesOK, AttemptsOK, MaxAttempts, Object, NoObject
  <1>3. ChannelOK'
    BY DEF ChannelOK
  <1>4. ListedOK'
    BY DEF ListedOK, BlockedHookIsListed, ChannelOK
  <1>5. AnswersOK'
    BY DEF AnswersOK, ChannelOK
  <1>6. AttentionOK' /\ QueuedOK'
    BY DEF AttentionOK, IsContents, Contents, QueuedOK, ChannelOK
  <1> QED
    BY <1>1, <1>2, <1>3, <1>4, <1>5, <1>6

LEMMA RemoveObjectIInv ==
    ASSUME IInv, NEW h \in Hook, RemoveObject(h) PROVE IInv'
  <1> USE ElicitationAssumption DEF RemoveObject, Goto, IInv, TypeOK, objectVars, channelVars, Published, Sess
  <1>0. attempts[h] \in 0..MaxAttempts /\ attempts[h] < MaxAttempts
    BY DEF AttemptsOK
  <1>a. attempts[h] + 1 \in 0..MaxAttempts
    BY <1>0 DEF MaxAttempts
  <1>1. TypeOK'
    BY <1>a DEF Pc, NoObject
  <1>2. PlacesOK' /\ AttemptsOK'
    BY DEF PlacesOK, AttemptsOK, MaxAttempts, Object, NoObject
  <1>3. ChannelOK'
    BY DEF ChannelOK
  <1>4. ListedOK'
    BY DEF ListedOK, BlockedHookIsListed, ChannelOK
  <1>5. AnswersOK'
    BY DEF AnswersOK, ChannelOK
  <1>6. AttentionOK' /\ QueuedOK'
    BY DEF AttentionOK, IsContents, Contents, QueuedOK, ChannelOK
  <1> QED
    BY <1>1, <1>2, <1>3, <1>4, <1>5, <1>6

LEMMA VerifyRemovalIInv ==
    ASSUME IInv, NEW h \in Hook, VerifyRemoval(h) PROVE IInv'
  <1> USE ElicitationAssumption DEF VerifyRemoval, Goto, IInv, TypeOK, objectVars, channelVars, Published, Sess
  <1>1. TypeOK'
    BY DEF Pc, MaxAttempts, NoObject
  <1>2. PlacesOK' /\ AttemptsOK'
    BY DEF PlacesOK, AttemptsOK, MaxAttempts, Object, NoObject
  <1>3. ChannelOK'
    BY DEF ChannelOK
  <1>4. ListedOK'
    BY DEF ListedOK, BlockedHookIsListed, ChannelOK
  <1>5. AnswersOK'
    BY DEF AnswersOK, ChannelOK
  <1>6. AttentionOK' /\ QueuedOK'
    BY DEF AttentionOK, IsContents, Contents, QueuedOK, ChannelOK
  <1> QED
    BY <1>1, <1>2, <1>3, <1>4, <1>5, <1>6

(* A new object starts with an empty queue, which no waiter refers to. *)
LEMMA CreateSessionIInv ==
    ASSUME IInv, NEW h \in Hook, CreateSession(h) PROVE IInv'
  <1> USE ElicitationAssumption DEF IInv
  <1> DEFINE o == born + 1
             d == IF KindOf(h) = "Attention" THEN Raised(Empty, event[h].reason) ELSE Empty
  <1>1. o \in Object /\ Sess(h) \in Session /\ event[h].reason \in Reason \cup {NoReason}
    BY DEF CreateSession, TypeOK, Object, Event, Sess, KindOf
  <1>a. IsContents(Empty) /\ Empty.pending = {}
    BY DEF IsContents, Empty
  <1>b. IsContents(d) /\ d.pending = {}
    BY <1>1, <1>a, ReasonsContents
  <1>2. SetObject(o, d) /\ born' = o /\ object' = [object EXCEPT ![Sess(h)] = o]
    BY DEF CreateSession
  <1> HIDE DEF d
  <1>3. /\ pending' \in [Object -> SUBSET Hook]
        /\ reasons' \in [Object -> SUBSET Reason]
        /\ attention' \in [Object -> BOOLEAN]
        /\ \A p \in Object : pending'[p] = IF p = o THEN {} ELSE pending[p]
        /\ AttentionOK'
    BY <1>1, <1>b, <1>2, SetObjectFields
  <1>4. pending[o] = {}
    BY <1>1 DEF ListedOK, PlacesOK, TypeOK, Object
  <1>5. \A p \in Object : pending'[p] = pending[p]
    BY <1>3, <1>4
  <1> USE DEF CreateSession, Goto, channelVars
  <1>6. TypeOK'
    BY <1>1, <1>2, <1>3 DEF TypeOK, Pc, Object
  <1>7. PlacesOK' /\ AttemptsOK'
    <2>1. born \in Nat /\ o > born
      BY DEF TypeOK
    <2>2. \A s \in Session : object'[s] <= born'
      BY <1>1, <1>2, <2>1 DEF PlacesOK, TypeOK, Object, NoObject
    <2>3. \A g \in Hook : ref[g] \in Nat /\ ref'[g] <= born'
      BY <1>2, <2>1 DEF PlacesOK, TypeOK, Object, NoObject
    <2>4. pc'[h] \notin {"apply", "push", "waiting", "settled"}
      BY DEF TypeOK
    <2>5. \A g \in Hook : g # h => pc'[g] = pc[g]
      BY DEF TypeOK
    <2>6. AttemptsOK'
      BY <2>5 DEF AttemptsOK, TypeOK
    <2> QED
      BY <2>2, <2>3, <2>4, <2>5, <2>6 DEF PlacesOK
  <1>8. ChannelOK'
    BY DEF ChannelOK, TypeOK
  <1>9. ListedOK'
    BY <1>5 DEF ListedOK, BlockedHookIsListed, ChannelOK, PlacesOK, TypeOK
  <1>10. AnswersOK'
    BY DEF AnswersOK, ChannelOK, TypeOK
  <1>11. QueuedOK'
    <2>1. h \notin broker
      BY DEF ChannelOK
    <2>2. ASSUME NEW g \in broker, pc'[g] # "push" PROVE g \in pending'[ref[g]]
      <3>1. g \in Hook /\ g # h /\ pc[g] \in {"waiting", "settled"}
        BY <2>1, <2>2 DEF ChannelOK, TypeOK
      <3> QED
        BY <1>5, <3>1 DEF QueuedOK, PlacesOK
    <2> QED
      BY <2>2 DEF QueuedOK
  <1> QED
    BY <1>3, <1>6, <1>7, <1>8, <1>9, <1>10, <1>11

(* Under the limit the request is listed, at the limit it leaves no trace. *)
LEMMA PushRequestIInv ==
    ASSUME IInv, NEW h \in Hook, PushRequest(h) PROVE IInv'
  <1> USE ElicitationAssumption DEF IInv
  <1> DEFINE o == ref[h]
  <1>1. o \in Object /\ pending[o] \in SUBSET Hook /\ reasons[o] \in SUBSET Reason
    BY DEF PushRequest, PlacesOK, TypeOK
  <1>2. pc[h] = "push" /\ rx[h] = "open" /\ h \in broker
    BY DEF PushRequest, ChannelOK
  <1>3. CASE Cardinality(pending[o]) < MaxPending /\ pc'[h] = "waiting"
    <2> SUFFICES ASSUME SetObject(o, Pushed(Contents(o), h)),
                        ahead' = [ahead EXCEPT ![h] = pending[o]],
                        Goto(h, "waiting"), UNCHANGED channelVars
                 PROVE  IInv'
      BY <1>3 DEF PushRequest, Goto, TypeOK
    <2>1. /\ pending' \in [Object -> SUBSET Hook]
          /\ reasons' \in [Object -> SUBSET Reason]
          /\ attention' \in [Object -> BOOLEAN]
          /\ \A p \in Object :
                pending'[p] = IF p = o THEN pending[o] \cup {h} ELSE pending[p]
          /\ AttentionOK'
      <3>1. /\ IsContents(Pushed(Contents(o), h))
            /\ Pushed(Contents(o), h).pending = pending[o] \cup {h}
        BY <1>1, PushedContents DEF AttentionOK, Contents
      <3> DEFINE d == Pushed(Contents(o), h)
      <3>2. SetObject(o, d)
        OBVIOUS
      <3> HIDE DEF d, o
      <3> QED
        BY <1>1, <3>1, <3>2, SetObjectFields DEF d
    <2> USE DEF Goto, channelVars
    <2>2. TypeOK'
      BY <1>1, <2>1 DEF PushRequest, TypeOK, Pc
    <2>3. PlacesOK' /\ AttemptsOK'
      BY <1>1, <1>2 DEF PushRequest, PlacesOK, AttemptsOK, TypeOK
    <2>4. ChannelOK'
      BY <1>2 DEF ChannelOK, TypeOK
    <2>5. ListedOK'
      <3>1. /\ UNCHANGED <<ref, chosen, rx, broker>>
            /\ pc'[h] = "waiting" /\ \A g \in Hook : g # h => pc'[g] = pc[g]
        BY DEF PushRequest, TypeOK
      <3>2. chosen[h] = NoAnswer
        BY <1>2 DEF AnswersOK
      <3>3. ASSUME NEW p \in Object, NEW g \in pending'[p]
            PROVE  /\ \/ pc'[g] = "waiting" /\ rx'[g] = "open"
                      \/ pc'[g] = "settled" /\ rx'[g] = "dropped"
                   /\ ref'[g] = p
                   /\ g \in broker'
                   /\ chosen'[g] = NoAnswer
        <4>1. CASE g = h
          <5>1. \/ p = o
                \/ g \in pending[p] /\ ref[g] = p
            BY <2>1, <3>3, <4>1 DEF ListedOK
          <5> QED
            BY <5>1, <1>2, <3>1, <3>2, <4>1
        <4>2. CASE g # h
          <5>1. g \in pending[p] /\ g \in Hook
            BY <1>1, <2>1, <3>3, <4>2 DEF TypeOK
          <5> QED
            BY <3>1, <4>2, <5>1 DEF ListedOK
        <4> QED
          BY <4>1, <4>2
      <3>4. ASSUME NEW g \in Hook, pc'[g] = "waiting", rx'[g] = "open"
            PROVE  g \in pending'[ref'[g]] /\ g \in broker'
        <4>1. CASE g = h
          BY <1>1, <1>2, <2>1, <3>1, <4>1
        <4>2. CASE g # h
          <5>1. g \in pending[ref[g]] /\ g \in broker /\ ref[g] \in Object
            BY <3>1, <3>4, <4>2 DEF ListedOK, BlockedHookIsListed, PlacesOK
          <5> QED
            BY <2>1, <3>1, <5>1
        <4> QED
          BY <4>1, <4>2
      <3> QED
        BY <3>3, <3>4 DEF ListedOK, BlockedHookIsListed
    <2>6. AnswersOK'
      BY <1>2 DEF PushRequest, AnswersOK, TypeOK
    <2>7. QueuedOK'
      BY <1>1, <2>1 DEF PushRequest, QueuedOK, ChannelOK, PlacesOK, TypeOK
    <2> QED
      BY <2>1, <2>2, <2>3, <2>4, <2>5, <2>6, <2>7
  <1>4. CASE pc'[h] = "done"
    <2> SUFFICES ASSUME broker' = broker \ {h}, rx' = [rx EXCEPT ![h] = "dropped"],
                        Goto(h, "done"), UNCHANGED <<objectVars, ahead, inbox>>
                 PROVE  IInv'
      BY <1>4 DEF PushRequest, Goto, TypeOK
    <2> USE DEF Goto, objectVars
    <2>1. TypeOK' /\ AttentionOK' /\ QueuedOK'
      <3>1. TypeOK'
        BY DEF PushRequest, TypeOK, Pc
      <3>2. AttentionOK'
        BY DEF AttentionOK, IsContents, Contents
      <3>3. QueuedOK'
        BY DEF PushRequest, QueuedOK, TypeOK
      <3> QED
        BY <3>1, <3>2, <3>3
    <2>2. PlacesOK' /\ AttemptsOK'
      BY DEF PushRequest, PlacesOK, AttemptsOK, TypeOK
    <2>3. ChannelOK'
      BY DEF ChannelOK, TypeOK
    <2>4. ListedOK'
      BY <1>2 DEF PushRequest, ListedOK, BlockedHookIsListed, TypeOK
    <2>5. AnswersOK'
      BY <1>2 DEF PushRequest, AnswersOK, TypeOK
    <2> QED
      BY <2>1, <2>2, <2>3, <2>4, <2>5
  <1> QED
    BY <1>3, <1>4 DEF PushRequest, Goto, TypeOK

(* The request is taken off the queue of the object it was listed in. *)
LEMMA CleanUpIInv ==
    ASSUME IInv, NEW h \in Hook, CleanUp(h) PROVE IInv'
  <1> USE ElicitationAssumption DEF IInv
  <1> DEFINE o == ref[h]
  <1>1. o \in Object /\ pending[o] \in SUBSET Hook /\ reasons[o] \in SUBSET Reason
    BY DEF CleanUp, PlacesOK, TypeOK
  <1>2. /\ pending' \in [Object -> SUBSET Hook]
        /\ reasons' \in [Object -> SUBSET Reason]
        /\ attention' \in [Object -> BOOLEAN]
        /\ \A p \in Object : pending'[p] = IF p = o THEN pending[o] \ {h} ELSE pending[p]
        /\ AttentionOK'
    <2>1. /\ IsContents(Without(Contents(o), h))
          /\ Without(Contents(o), h).pending = pending[o] \ {h}
      BY <1>1, WithoutContents DEF AttentionOK, Contents
    <2> QED
      BY <1>1, <2>1, SetObjectFields DEF CleanUp
  <1> USE DEF CleanUp, Goto
  <1>3. TypeOK'
    BY <1>2 DEF TypeOK, Pc
  <1>4. PlacesOK' /\ AttemptsOK'
    BY DEF PlacesOK, AttemptsOK, TypeOK
  <1>5. ChannelOK'
    BY DEF ChannelOK, TypeOK
  <1>6. ListedOK'
    BY <1>1, <1>2 DEF ListedOK, BlockedHookIsListed, PlacesOK, TypeOK
  <1>7. AnswersOK'
    BY DEF AnswersOK, TypeOK
  <1>8. QueuedOK'
    BY <1>1, <1>2 DEF QueuedOK, ChannelOK, PlacesOK, TypeOK
  <1> QED
    BY <1>2, <1>3, <1>4, <1>5, <1>6, <1>7, <1>8

(* Taking a set of requests off the queue of an object and sending each    *)
(* waiter the same answer, which is what cancelling and answering share.   *)
LEMMA ReleaseRequests ==
    ASSUME IInv, NEW o \in Object, NEW R \in SUBSET pending[o],
           NEW d, IsContents(d), d.pending = pending[o] \ R, SetObject(o, d),
           NEW a \in Answer \cup {NoAnswer}, Respond(R, a),
           UNCHANGED <<ref, result, born, object>>,
           \A g \in R : chosen'[g] = a,
           \A g \in Hook \ R : chosen'[g] = chosen[g],
           \A g \in Hook :
               pc'[g] = pc[g] \/ (pc[g] = "apply" /\ pc'[g] \in {"remove", "done"})
    PROVE  /\ ChannelOK' /\ ListedOK' /\ AnswersOK' /\ QueuedOK' /\ AttentionOK'
           /\ pending' \in [Object -> SUBSET Hook]
           /\ reasons' \in [Object -> SUBSET Reason]
           /\ attention' \in [Object -> BOOLEAN]
           /\ broker' \in SUBSET Hook
           /\ rx' \in [Hook -> {"none", "open", "sent", "dropped"}]
           /\ inbox' \in [Hook -> Answer \cup {NoAnswer}]
  <1> USE DEF IInv
  <1>1. pending[o] \in SUBSET Hook /\ R \in SUBSET Hook
    BY DEF TypeOK
  <1>2. /\ pending' \in [Object -> SUBSET Hook]
        /\ reasons' \in [Object -> SUBSET Reason]
        /\ attention' \in [Object -> BOOLEAN]
        /\ \A p \in Object : pending'[p] = IF p = o THEN pending[o] \ R ELSE pending[p]
        /\ AttentionOK'
    BY <1>1, SetObjectFields
  <1>3. /\ broker' = broker \ R
        /\ rx' \in [Hook -> {"none", "open", "sent", "dropped"}]
        /\ inbox' \in [Hook -> Answer \cup {NoAnswer}]
        /\ \A g \in Hook :
              IF g \in R /\ g \in broker /\ rx[g] = "open"
              THEN rx'[g] = "sent" /\ inbox'[g] = a
              ELSE rx'[g] = rx[g] /\ inbox'[g] = inbox[g]
    BY <1>1, RespondChannel
  <1>4. \A g \in R : /\ \/ pc[g] = "waiting" /\ rx[g] = "open"
                        \/ pc[g] = "settled" /\ rx[g] = "dropped"
                     /\ g \in broker /\ g \in Hook /\ ref[g] = o
    BY <1>1 DEF ListedOK
  <1>5. ChannelOK'
    BY <1>3, <1>4 DEF ChannelOK
  <1>6. ListedOK'
    <2>1. \A p \in Object : \A g \in pending'[p] : g \in pending[p] /\ g \notin R
      BY <1>2, <1>4 DEF ListedOK
    <2>2. ASSUME NEW p \in Object, NEW g \in pending'[p]
          PROVE  /\ \/ pc'[g] = "waiting" /\ rx'[g] = "open"
                    \/ pc'[g] = "settled" /\ rx'[g] = "dropped"
                 /\ ref'[g] = p
                 /\ g \in broker'
                 /\ chosen'[g] = NoAnswer
      BY <2>1, <1>3 DEF ListedOK, TypeOK
    <2>3. ASSUME NEW g \in Hook, pc'[g] = "waiting", rx'[g] = "open"
          PROVE  g \in pending'[ref'[g]] /\ g \in broker'
      BY <2>3, <1>2, <1>3, <1>4 DEF ListedOK, BlockedHookIsListed, PlacesOK
    <2> QED
      BY <2>2, <2>3 DEF ListedOK, BlockedHookIsListed
  <1>7. AnswersOK'
    BY <1>3, <1>4 DEF AnswersOK, ChannelOK
  <1>8. QueuedOK'
    <2> SUFFICES ASSUME NEW g \in broker', pc'[g] # "push" PROVE g \in pending'[ref[g]]
      BY DEF QueuedOK
    <2>1. g \in broker /\ g \in Hook /\ g \notin R
      BY <1>3 DEF TypeOK
    <2>2. pc[g] \in {"waiting", "settled"}
      BY <2>1 DEF ChannelOK
    <2>3. g \in pending[ref[g]] /\ ref[g] \in Object
      BY <2>1, <2>2 DEF QueuedOK, PlacesOK
    <2> QED
      BY <1>2, <2>1, <2>3
  <1> QED
    BY <1>1, <1>2, <1>3, <1>5, <1>6, <1>7, <1>8 DEF TypeOK

(* An object whose queue stays and whose channels stay keeps everything.   *)
LEMMA ChangeReasons ==
    ASSUME IInv, NEW o \in Object, NEW d, IsContents(d), d.pending = pending[o],
           SetObject(o, d)
    PROVE  /\ pending' = pending
           /\ reasons' \in [Object -> SUBSET Reason]
           /\ attention' \in [Object -> BOOLEAN]
           /\ AttentionOK'
  BY SetObjectFields DEF IInv, TypeOK, SetObject

(* The closure of an update or of a removal. *)
LEMMA ApplyUpdateIInv ==
    ASSUME IInv, NEW h \in Hook, ApplyUpdate(h) PROVE IInv'
  <1> USE ElicitationAssumption DEF IInv
  <1> DEFINE o == ref[h]
  <1>1. o \in Object /\ pending[o] \in SUBSET Hook /\ reasons[o] \in SUBSET Reason
    BY DEF ApplyUpdate, PlacesOK, TypeOK
  <1>2. /\ pc[h] = "apply" /\ ApplyTo(h, o)
        /\ pc' \in [Hook -> Pc]
        /\ pc'[h] \in {"remove", "done"}
        /\ \A g \in Hook : g # h => pc'[g] = pc[g]
        /\ UNCHANGED <<event, object, born, ahead, ref, result, attempts, chosen>>
    BY DEF ApplyUpdate, Goto, TypeOK, Pc
  <1>3. PlacesOK' /\ AttemptsOK'
    BY <1>2 DEF PlacesOK, AttemptsOK
  <1>4. ASSUME NEW R \in SUBSET pending[o], NEW d, IsContents(d), d.pending = pending[o] \ R,
               SetObject(o, d), Cancel(R)
        PROVE  IInv'
    <2>1. \A g \in R : chosen'[g] = NoAnswer
      BY <1>1, <1>2 DEF ListedOK
    <2>2. ASSUME NEW g \in Hook
          PROVE  pc'[g] = pc[g] \/ (pc[g] = "apply" /\ pc'[g] \in {"remove", "done"})
      <3>1. CASE g = h
        BY <1>2, <3>1
      <3>2. CASE g # h
        BY <1>2, <3>2
      <3> QED
        BY <3>1, <3>2
    <2>3. Respond(R, NoAnswer)
      BY <1>4 DEF Cancel
    <2>4. UNCHANGED <<ref, result, born, object>> /\ \A g \in Hook \ R : chosen'[g] = chosen[g]
      BY <1>2
    <2>5. /\ ChannelOK' /\ ListedOK' /\ AnswersOK' /\ QueuedOK' /\ AttentionOK'
          /\ pending' \in [Object -> SUBSET Hook]
          /\ reasons' \in [Object -> SUBSET Reason]
          /\ attention' \in [Object -> BOOLEAN]
          /\ broker' \in SUBSET Hook
          /\ rx' \in [Hook -> {"none", "open", "sent", "dropped"}]
          /\ inbox' \in [Hook -> Answer \cup {NoAnswer}]
      BY <1>1, <1>4, <2>1, <2>2, <2>3, <2>4, ReleaseRequests
    <2> QED
      BY <1>2, <1>3, <2>5 DEF TypeOK
  <1>5. ASSUME NEW d, IsContents(d), d.pending = pending[o], SetObject(o, d),
               UNCHANGED channelVars
        PROVE  IInv'
    <2>1. /\ pending' = pending
          /\ reasons' \in [Object -> SUBSET Reason]
          /\ attention' \in [Object -> BOOLEAN]
          /\ AttentionOK'
      BY <1>1, <1>5, ChangeReasons
    <2>2. UNCHANGED <<broker, rx, inbox>>
      BY <1>5 DEF channelVars
    <2>3. TypeOK'
      BY <1>2, <2>1, <2>2 DEF TypeOK
    <2>4. ChannelOK' /\ AnswersOK'
      <3>1. ChannelOK'
        BY <1>2, <2>2 DEF ChannelOK
      <3>2. rx[h] = "none"
        BY <1>2 DEF ChannelOK
      <3>3. AnswersOK'
        BY <1>2, <2>2, <3>2 DEF AnswersOK
      <3> QED
        BY <3>1, <3>3
    <2>5. ListedOK'
      BY <1>2, <2>1, <2>2 DEF ListedOK, BlockedHookIsListed, TypeOK
    <2>6. QueuedOK'
      BY <1>2, <2>1, <2>2 DEF QueuedOK, ChannelOK, TypeOK
    <2> QED
      BY <1>3, <2>1, <2>3, <2>4, <2>5, <2>6
  <1>a. IsContents(Contents(o)) /\ Contents(o).pending = pending[o]
    BY <1>1 DEF AttentionOK, Contents
  <1>b. event[h].reason \in Reason \cup {NoReason}
    BY DEF TypeOK, Event
  <1>6. CASE CancelPendingRequests(o)
    <2>1. IsContents(Emptied(Contents(o))) /\ Emptied(Contents(o)).pending = pending[o] \ pending[o]
      BY <1>a, <1>b, QuietContents
    <2> QED
      BY <2>1, <1>4, <1>6 DEF CancelPendingRequests
  <1>7. CASE CancelPendingRequestsForTool(o, event[h].tool)
    <2> DEFINE t == event[h].tool
               R == Gating(o, t)
               q == Quiet(Contents(o))
    <2>1. R \in SUBSET pending[o] /\ (t = NoTool => R = {})
      BY DEF Gating
    <2>2. IsContents(q) /\ q.pending = pending[o]
      BY <1>a, <1>b, QuietContents
    <2>3. R \in SUBSET Hook
      BY <1>1, <2>1
    <2>4. SetObject(o, Thinned(q, R, t)) /\ Cancel(R)
      BY <1>7 DEF CancelPendingRequestsForTool
    <2> HIDE DEF t, R, q
    <2>5. /\ IsContents(Thinned(q, R, t))
          /\ Thinned(q, R, t).pending = IF t = NoTool THEN q.pending ELSE q.pending \ R
      BY <2>2, <2>3, ThinnedContents
    <2>6. Thinned(q, R, t).pending = pending[o] \ R
      BY <2>1, <2>2, <2>5
    <2> QED
      BY <1>4, <2>1, <2>4, <2>5, <2>6
  <1>8. CASE /\ SetObject(o, Raised(Contents(o), event[h].reason))
             /\ UNCHANGED channelVars
    <2>1. /\ IsContents(Raised(Contents(o), event[h].reason))
          /\ Raised(Contents(o), event[h].reason).pending = pending[o]
      BY <1>a, <1>b, ReasonsContents
    <2> QED
      BY <1>5, <1>8, <2>1
  <1>9. CASE /\ SetObject(o, Lowered(Contents(o), event[h].reason))
             /\ UNCHANGED channelVars
    <2>1. /\ IsContents(Lowered(Contents(o), event[h].reason))
          /\ Lowered(Contents(o), event[h].reason).pending = pending[o]
      BY <1>a, <1>b, ReasonsContents
    <2> QED
      BY <1>5, <1>9, <2>1
  <1>10. CASE UNCHANGED <<objectVars, channelVars>>
    <2>1. UNCHANGED <<pending, reasons, attention, broker, rx, inbox>>
      BY <1>10 DEF objectVars, channelVars
    <2>2. TypeOK' /\ AttentionOK' /\ QueuedOK'
      <3>1. TypeOK' /\ AttentionOK'
        BY <1>2, <2>1 DEF TypeOK, AttentionOK, IsContents, Contents
      <3>2. QueuedOK'
        BY <1>2, <2>1 DEF QueuedOK, ChannelOK, TypeOK
      <3> QED
        BY <3>1, <3>2
    <2>3. rx[h] = "none"
      BY <1>2 DEF ChannelOK
    <2>4. ChannelOK'
      BY <1>2, <2>1 DEF ChannelOK
    <2>5. AnswersOK'
      BY <1>2, <2>1, <2>3 DEF AnswersOK
    <2>6. ListedOK'
      BY <1>2, <2>1 DEF ListedOK, BlockedHookIsListed, TypeOK
    <2> QED
      BY <1>3, <2>2, <2>4, <2>5, <2>6
  <1> QED
    BY <1>2, <1>6, <1>7, <1>8, <1>9, <1>10 DEF ApplyTo

(* A user's answer. *)
LEMMA TakeIInv ==
    ASSUME IInv, NEW o \in Object, NEW h \in pending[o], NEW a \in Answer, Take(o, h, a)
    PROVE  IInv'
  <1> USE ElicitationAssumption DEF IInv
  <1>1. h \in Hook /\ reasons[o] \in SUBSET Reason /\ {h} \in SUBSET pending[o]
    BY DEF TypeOK
  <1>2. /\ chosen' \in [Hook -> Answer \cup {NoAnswer}] /\ chosen'[h] = a
        /\ \A g \in Hook \ {h} : chosen'[g] = chosen[g]
        /\ UNCHANGED <<event, pc, object, born, ahead, ref, result, attempts>>
    BY <1>1 DEF Take, TypeOK
  <1>3. /\ ChannelOK' /\ ListedOK' /\ AnswersOK' /\ QueuedOK' /\ AttentionOK'
        /\ pending' \in [Object -> SUBSET Hook]
        /\ reasons' \in [Object -> SUBSET Reason]
        /\ attention' \in [Object -> BOOLEAN]
        /\ broker' \in SUBSET Hook
        /\ rx' \in [Hook -> {"none", "open", "sent", "dropped"}]
        /\ inbox' \in [Hook -> Answer \cup {NoAnswer}]
    <2> DEFINE R == {h}
               d == Without(Contents(o), h)
    <2>0. IsContents(Contents(o)) /\ Contents(o).pending = pending[o]
      BY DEF AttentionOK, Contents
    <2>a. IsContents(d) /\ d.pending = pending[o] \ R
      BY <1>1, <2>0, WithoutContents
    <2>1. /\ R \in SUBSET pending[o]
          /\ a \in Answer \cup {NoAnswer}
          /\ SetObject(o, d) /\ Respond(R, a)
          /\ UNCHANGED <<ref, result, born, object>>
          /\ \A g \in R : chosen'[g] = a
          /\ \A g \in Hook \ R : chosen'[g] = chosen[g]
          /\ \A g \in Hook :
                pc'[g] = pc[g] \/ (pc[g] = "apply" /\ pc'[g] \in {"remove", "done"})
      BY <1>1, <1>2 DEF Take
    <2> HIDE DEF R, d
    <2> QED
      BY <2>a, <2>1, ReleaseRequests
  <1>4. TypeOK' /\ PlacesOK' /\ AttemptsOK'
    BY <1>2, <1>3 DEF TypeOK, PlacesOK, AttemptsOK
  <1> QED
    BY <1>3, <1>4
-----------------------------------------------------------------------------
(* A user's call, by id or to the oldest request, takes a listed request.  *)
LEMMA UserTakes ==
    ASSUME IInv, User
    PROVE  \E o \in Object : \E h \in pending[o] : \E a \in Answer : Take(o, h, a)
  <1> PICK s \in Session, a \in Answer :
          RespondToElicitation(s, a) \/ \E h \in Hook : RespondToElicitationById(s, h, a)
    BY DEF User
  <1>1. object[s] # NoObject => object[s] \in Object
    BY DEF IInv, TypeOK
  <1>2. CASE RespondToElicitation(s, a)
    BY <1>1, <1>2 DEF RespondToElicitation, Oldest
  <1>3. CASE \E h \in Hook : RespondToElicitationById(s, h, a)
    BY <1>1, <1>3 DEF RespondToElicitationById
  <1> QED
    BY <1>2, <1>3

(* Every step preserves the inductive invariant. *)
LEMMA NextIInv == IInv /\ [Next]_vars => IInv'
  <1> SUFFICES ASSUME IInv, [Next]_vars PROVE IInv'
    OBVIOUS
  <1>1. ASSUME NEW h \in Hook, Run(h) PROVE IInv'
    <2>1. CASE CreateSession(h)
      BY <2>1, CreateSessionIInv
    <2>2. CASE FindSession(h)
      BY <2>2, FindSessionIInv
    <2>3. CASE LookupSession(h)
      BY <2>3, LookupSessionIInv
    <2>4. CASE ApplyUpdate(h)
      BY <2>4, ApplyUpdateIInv
    <2>5. CASE OpenRequest(h)
      BY <2>5, OpenRequestIInv
    <2>6. CASE PushRequest(h)
      BY <2>6, PushRequestIInv
    <2>7. CASE ReceiveAnswer(h)
      BY <2>7, ReceiveAnswerIInv
    <2>8. CASE CleanUp(h)
      BY <2>8, CleanUpIInv
    <2>9. CASE RemoveObject(h)
      BY <2>9, RemoveObjectIInv
    <2>10. CASE VerifyRemoval(h)
      BY <2>10, VerifyRemovalIInv
    <2> QED
      BY <1>1, <2>1, <2>2, <2>3, <2>4, <2>5, <2>6, <2>7, <2>8, <2>9, <2>10 DEF Run
  <1>2. ASSUME NEW h \in Hook, TimeOut(h) PROVE IInv'
    BY <1>2, TimeOutIInv
  <1>3. CASE User
    BY <1>3, UserTakes, TakeIInv
  <1>4. CASE UNCHANGED vars
    BY <1>4 DEF vars, objectVars, channelVars, IInv, TypeOK, PlacesOK, AttemptsOK,
                ChannelOK, ListedOK, BlockedHookIsListed, AnswersOK, QueuedOK, AttentionOK,
                IsContents, Contents
  <1> QED
    BY <1>1, <1>2, <1>3, <1>4 DEF Next

(* The inductive invariant holds in every behaviour of the service. *)
THEOREM Invariance == Spec => []IInv
  BY InitIInv, NextIInv, PTL DEF Spec

(* Every variable keeps its type. *)
THEOREM TypeCorrect == Spec => []TypeOK
  <1>1. IInv => TypeOK
    BY DEF IInv
  <1> QED
    BY <1>1, Invariance, PTL

(* A hook is never blocked where no response and no cancellation of its    *)
(* object could reach it.                                                  *)
THEOREM BlockedHooksAreListed == Spec => []BlockedHookIsListed
  <1>1. IInv => BlockedHookIsListed
    BY DEF IInv, ListedOK
  <1> QED
    BY <1>1, Invariance, PTL

(* Whatever a user sees as pending is a live request of one object. *)
THEOREM ListedRequestsAreLive == Spec => []ListedRequestIsLive
  <1>1. IInv => ListedRequestIsLive
    BY DEF IInv, ListedOK, ListedRequestIsLive
  <1> QED
    BY <1>1, Invariance, PTL

(* A finished hook leaves nothing behind. *)
THEOREM FinishedHooksLeaveNothing == Spec => []NoResidue
  <1>1. IInv => NoResidue
    BY DEF IInv, ListedOK, ChannelOK, NoResidue
  <1> QED
    BY <1>1, Invariance, PTL

(* The answer a hook returns is the one a user gave to its own request. *)
THEOREM AnswersReachTheirHooks == Spec => []AnswerReachesItsHook
  <1>1. IInv => AnswerReachesItsHook
    <2> SUFFICES ASSUME IInv, NEW h \in Hook, pc[h] = "done"
                 PROVE  result[h] = IF rx[h] = "dropped" THEN NoAnswer ELSE chosen[h]
      BY DEF AnswerReachesItsHook
    <2>1. rx[h] \in {"none", "sent", "dropped"}
      BY DEF IInv, TypeOK, ChannelOK
    <2> QED
      BY <2>1 DEF IInv, AnswersOK
  <1> QED
    BY <1>1, Invariance, PTL

(* RequiresAttention is up exactly while a reason is active or a request   *)
(* of the session is undecided, whatever answers, timers and hooks do.     *)
THEOREM AttentionStaysWarranted == Spec => []AttentionIsWarranted
  <1>1. IInv => AttentionIsWarranted
    <2> SUFFICES ASSUME IInv, NEW o \in Object
                 PROVE  attention[o] <=> \/ reasons[o] # {}
                                         \/ \E h \in broker : ref[h] = o /\ pc[h] # "push"
      BY DEF AttentionIsWarranted
    <2>1. attention[o] <=> pending[o] # {} \/ reasons[o] # {}
      BY DEF IInv, AttentionOK, IsContents, Contents
    <2>2. ASSUME NEW h \in pending[o] PROVE h \in broker /\ ref[h] = o /\ pc[h] # "push"
      BY <2>2 DEF IInv, ListedOK
    <2>3. ASSUME NEW h \in broker, ref[h] = o, pc[h] # "push" PROVE h \in pending[o]
      BY <2>3 DEF IInv, QueuedOK
    <2> QED
      BY <2>1, <2>2, <2>3
  <1> QED
    BY <1>1, Invariance, PTL
-----------------------------------------------------------------------------
(* The queue of an object only grows by PushRequest, which looks first. *)
LEMMA QueuesOnlyShrink ==
    ASSUME IInv, [Next]_vars, NEW o \in Object,
           \A h \in Hook : ~PushRequest(h)
    PROVE  pending'[o] \subseteq pending[o]
  <1> USE DEF IInv
  <1>1. ASSUME NEW h \in Hook, CreateSession(h) PROVE pending'[o] \subseteq pending[o]
    BY <1>1 DEF CreateSession, SetObject, TypeOK, Raised, Refreshed, Empty
  <1>2. ASSUME NEW h \in Hook, ApplyUpdate(h) PROVE pending'[o] \subseteq pending[o]
    BY <1>2 DEF ApplyUpdate, ApplyTo, CancelPendingRequests, CancelPendingRequestsForTool,
                SetObject, objectVars, TypeOK, Contents, Emptied, Thinned, Quiet, Raised,
                Lowered, Refreshed
  <1>3. ASSUME NEW h \in Hook, CleanUp(h) PROVE pending'[o] \subseteq pending[o]
    BY <1>3 DEF CleanUp, SetObject, TypeOK, Without, Refreshed, Contents
  <1>4. ASSUME NEW p \in Object, NEW h \in pending[p], NEW a \in Answer, Take(p, h, a)
        PROVE  pending'[o] \subseteq pending[o]
    BY <1>4 DEF Take, SetObject, TypeOK, Without, Refreshed, Contents
  <1>5. ASSUME UNCHANGED pending PROVE pending'[o] \subseteq pending[o]
    BY <1>5
  <1> QED
    BY <1>1, <1>2, <1>3, <1>4, <1>5, UserTakes
       DEF Next, Run, FindSession, LookupSession, OpenRequest, ReceiveAnswer, TimeOut,
           RemoveObject, VerifyRemoval, vars, objectVars

(* No session ever lists more requests than the limit. *)
THEOREM QueuesStayBounded == Spec => []QueueBounded
  <1> USE ElicitationAssumption
  <1>1. Init => QueueBounded
    BY FS_EmptySet DEF Init, QueueBounded
  <1>2. IInv /\ QueueBounded /\ [Next]_vars => QueueBounded'
    <2> SUFFICES ASSUME IInv, QueueBounded, [Next]_vars, NEW o \in Object
                 PROVE  Cardinality(pending'[o]) <= MaxPending
      BY DEF QueueBounded
    <2>1. /\ pending[o] \in SUBSET Hook /\ IsFiniteSet(pending[o])
          /\ Cardinality(pending[o]) \in Nat /\ Cardinality(pending[o]) <= MaxPending
      BY FS_Subset, FS_CardinalityType DEF QueueBounded, IInv, TypeOK
    <2>2. CASE pending'[o] \subseteq pending[o]
      BY <2>1, <2>2, FS_Subset, FS_CardinalityType
    <2>3. CASE \E h \in Hook : PushRequest(h)
      <3> PICK h \in Hook : PushRequest(h)
        BY <2>3
      <3>1. CASE pending' = pending
        BY <2>1, <3>1
      <3>2. CASE /\ Cardinality(pending[ref[h]]) < MaxPending
                 /\ pending' = [pending EXCEPT ![ref[h]] = pending[ref[h]] \cup {h}]
        <4>1. CASE o = ref[h]
          <5>1. /\ pending'[o] = pending[o] \cup {h}
                /\ Cardinality(pending[o]) < MaxPending
            BY <3>2, <4>1 DEF IInv, TypeOK
          <5>2. \/ Cardinality(pending[o] \cup {h}) = Cardinality(pending[o])
                \/ Cardinality(pending[o] \cup {h}) = Cardinality(pending[o]) + 1
            BY <2>1, FS_AddElement
          <5> QED
            BY <2>1, <5>1, <5>2
        <4>2. CASE o # ref[h]
          BY <2>1, <3>2, <4>2 DEF IInv, TypeOK
        <4> QED
          BY <4>1, <4>2
      <3> QED
        BY <3>1, <3>2 DEF PushRequest, SetObject, objectVars, Pushed, Refreshed, Contents
    <2> QED
      BY <2>2, <2>3, QueuesOnlyShrink
  <1> QED
    BY <1>1, <1>2, Invariance, PTL DEF Spec
-----------------------------------------------------------------------------
(* Elicitation implements Approval. *)

(* The cases of the refinement mapping. *)
LEMMA StatusCases ==
    ASSUME IInv, NEW h \in Hook
    PROVE  /\ rx[h] = "none" => RequestStatus(h) = "idle"
           /\ rx[h] = "open" => RequestStatus(h) = "open"
           /\ rx[h] \in {"sent", "dropped"} /\ pc[h] = "done" => RequestStatus(h) = "returned"
           /\ rx[h] \in {"sent", "dropped"} /\ pc[h] # "done" => RequestStatus(h) = "decided"
  BY DEF RequestStatus, IInv, ChannelOK, TypeOK

(* The same after a step. *)
LEMMA StatusCasesNext ==
    ASSUME IInv', NEW h \in Hook
    PROVE  /\ rx'[h] = "none" => RequestStatus(h)' = "idle"
           /\ rx'[h] = "open" => RequestStatus(h)' = "open"
           /\ rx'[h] \in {"sent", "dropped"} /\ pc'[h] = "done" => RequestStatus(h)' = "returned"
           /\ rx'[h] \in {"sent", "dropped"} /\ pc'[h] # "done" => RequestStatus(h)' = "decided"
  BY DEF RequestStatus, IInv, ChannelOK, TypeOK

(* A step that leaves every channel alone and finishes only hooks that     *)
(* asked nothing is invisible.                                             *)
LEMMA QuietSteps ==
    ASSUME IInv, IInv', UNCHANGED <<rx, inbox>>,
           \A h \in Hook : rx[h] # "none" => (pc[h] = "done" <=> pc'[h] = "done")
    PROVE  UNCHANGED Promise!vars
  <1>1. ASSUME NEW h \in Hook PROVE RequestStatus(h)' = RequestStatus(h)
    <2>1. rx[h] \in {"none", "open", "sent", "dropped"}
      BY DEF IInv, TypeOK
    <2> QED
      BY <2>1, StatusCases, StatusCasesNext
  <1> QED
    BY <1>1 DEF Promise!vars

(* Releasing requests withdraws the open ones, or decides a single one.    *)
LEMMA ReleaseStep ==
    ASSUME IInv, IInv', NEW o \in Object, NEW R \in SUBSET pending[o],
           NEW a \in Answer \cup {NoAnswer}, Respond(R, a),
           \A g \in Hook :
               pc'[g] = pc[g] \/ (pc[g] = "apply" /\ pc'[g] \in {"remove", "done"})
    PROVE  /\ a = NoAnswer => Promise!Next \/ UNCHANGED Promise!vars
           /\ (\E h : R = {h}) /\ a \in Answer => Promise!Next \/ UNCHANGED Promise!vars
  <1> DEFINE W == {g \in R : rx[g] = "open"}
  <1>1. R \in SUBSET Hook /\ W \in SUBSET Hook
    BY DEF IInv, TypeOK
  <1>2. \A g \in Hook :
          IF g \in W THEN rx[g] = "open" /\ rx'[g] = "sent" /\ inbox'[g] = a
          ELSE rx'[g] = rx[g] /\ inbox'[g] = inbox[g]
    BY <1>1, RespondChannel DEF IInv, ListedOK
  <1>3. ASSUME NEW g \in Hook
        PROVE  IF g \in W THEN RequestStatus(g) = "open" /\ RequestStatus(g)' = "decided"
               ELSE RequestStatus(g)' = RequestStatus(g)
    <2>1. rx[g] \in {"none", "open", "sent", "dropped"}
      BY DEF IInv, TypeOK
    <2>2. pc[g] = "apply" => rx[g] = "none"
      BY DEF IInv, ChannelOK
    <2>3. CASE g \in W
      <3>1. pc[g] \notin {"done", "apply"}
        BY <1>2, <2>2, <2>3 DEF IInv, ChannelOK
      <3> QED
        BY <1>2, <2>3, <3>1, StatusCases, StatusCasesNext
    <2>4. CASE g \notin W
      <3>1. pc'[g] = pc[g] \/ rx[g] = "none"
        BY <2>2
      <3>2. rx'[g] = rx[g]
        BY <1>2, <2>4
      <3> HIDE DEF W
      <3>3. RequestStatus(g)' = RequestStatus(g)
        BY <2>1, <3>1, <3>2, StatusCases, StatusCasesNext
      <3> QED
        BY <2>4, <3>3
    <2> QED
      BY <2>3, <2>4
  <1>4. \A g \in W : inbox[g] = NoAnswer
    BY <1>1 DEF IInv, AnswersOK
  <1>5. inbox \in [Hook -> Answer \cup {NoAnswer}] /\ inbox' \in [Hook -> Answer \cup {NoAnswer}]
    BY DEF IInv, TypeOK
  <1> HIDE DEF W
  <1>6. CASE a = NoAnswer
    <2>1. [h \in Hook |-> RequestStatus(h)]'
            = [h \in Hook |-> IF h \in W THEN "decided" ELSE RequestStatus(h)]
      BY <1>3
    <2>2. inbox' = inbox
      BY <1>2, <1>4, <1>5, <1>6
    <2>3. Promise!Withdraw(W)
      BY <1>1, <1>3, <2>1, <2>2 DEF Promise!Withdraw
    <2> QED
      BY <1>1, <2>3, <1>6 DEF Promise!Next
  <1>7. ASSUME NEW h, R = {h}, a \in Answer PROVE Promise!Next \/ UNCHANGED Promise!vars
    <2>1. h \in Hook
      BY <1>1, <1>7
    <2>2. CASE rx[h] = "open"
      <3>1. \A g \in Hook : g \in W <=> g = h
        BY <1>7, <2>2 DEF W
      <3>2. [g \in Hook |-> RequestStatus(g)]'
              = [[g \in Hook |-> RequestStatus(g)] EXCEPT ![h] = "decided"]
        BY <1>3, <2>1, <3>1
      <3>3. [g \in Hook |-> inbox[g]]' = [[g \in Hook |-> inbox[g]] EXCEPT ![h] = a]
        BY <1>2, <1>5, <2>1, <3>1
      <3>4. RequestStatus(h) = "open"
        BY <1>3, <2>1, <3>1
      <3>5. Promise!Decide(h, a)
        BY <2>1, <3>2, <3>3, <3>4 DEF Promise!Decide
      <3> QED
        BY <1>7, <2>1, <3>5 DEF Promise!Next
    <2>3. CASE rx[h] # "open"
      <3>1. \A g \in Hook : g \notin W
        BY <1>7, <2>3 DEF W
      <3> QED
        BY <1>2, <1>3, <3>1 DEF Promise!vars
    <2> QED
      BY <2>2, <2>3
  <1> QED
    BY <1>6, <1>7

(* The steps of one blocking hook, each with the step of Approval it is. *)
LEMMA OpenRequestStep ==
    ASSUME IInv, IInv', NEW h \in Hook, OpenRequest(h), Published(h) # NoObject
    PROVE  Promise!Next
  <1>1. \A g \in Hook : g # h => rx'[g] = rx[g] /\ (pc'[g] = "done" <=> pc[g] = "done")
    BY DEF IInv, TypeOK, OpenRequest, Goto
  <1>2. RequestStatus(h) = "idle" /\ RequestStatus(h)' = "open" /\ inbox' = inbox
    <2>1. /\ rx'[h] = "open" /\ pc[h] = "lookup" /\ inbox' = inbox
      BY DEF IInv, TypeOK, OpenRequest
    <2>2. rx[h] = "none"
      BY <2>1 DEF IInv, ChannelOK
    <2> QED
      BY <2>1, <2>2, StatusCases, StatusCasesNext
  <1>3. \A g \in Hook : g # h => RequestStatus(g)' = RequestStatus(g)
    <2> TAKE g \in Hook
    <2>1. rx[g] \in {"none", "open", "sent", "dropped"}
      BY DEF IInv, TypeOK
    <2> QED
      BY <1>1, <2>1, StatusCases, StatusCasesNext
  <1>4. [g \in Hook |-> RequestStatus(g)]'
          = [[g \in Hook |-> RequestStatus(g)] EXCEPT ![h] = "open"]
    BY <1>2, <1>3
  <1> QED
    BY <1>2, <1>4 DEF Promise!Next, Promise!Open

LEMMA DropRequestStep ==
    ASSUME IInv, IInv', NEW h \in Hook, PushRequest(h), pc'[h] = "done"
    PROVE  Promise!Next
  <1>1. \A g \in Hook : g # h => rx'[g] = rx[g] /\ (pc'[g] = "done" <=> pc[g] = "done")
    BY DEF IInv, TypeOK, PushRequest, Goto
  <1>2. RequestStatus(h) = "open" /\ RequestStatus(h)' = "returned" /\ inbox' = inbox
    BY StatusCases, StatusCasesNext DEF IInv, TypeOK, ChannelOK, PushRequest, Goto, channelVars
  <1>3. \A g \in Hook : g # h => RequestStatus(g)' = RequestStatus(g)
    <2> TAKE g \in Hook
    <2>1. rx[g] \in {"none", "open", "sent", "dropped"}
      BY DEF IInv, TypeOK
    <2> QED
      BY <1>1, <2>1, StatusCases, StatusCasesNext
  <1>4. [g \in Hook |-> RequestStatus(g)]'
          = [[g \in Hook |-> RequestStatus(g)] EXCEPT ![h] = "returned"]
    BY <1>2, <1>3
  <1> QED
    BY <1>2, <1>4 DEF Promise!Next, Promise!Decline

LEMMA CleanUpStep ==
    ASSUME IInv, IInv', NEW h \in Hook, CleanUp(h)
    PROVE  Promise!Next
  <1>1. \A g \in Hook : g # h => rx'[g] = rx[g] /\ (pc'[g] = "done" <=> pc[g] = "done")
    BY DEF IInv, TypeOK, CleanUp, Goto
  <1>2. RequestStatus(h) = "decided" /\ RequestStatus(h)' = "returned" /\ inbox' = inbox
    BY StatusCases, StatusCasesNext DEF IInv, TypeOK, ChannelOK, CleanUp, Goto, channelVars
  <1>3. \A g \in Hook : g # h => RequestStatus(g)' = RequestStatus(g)
    <2> TAKE g \in Hook
    <2>1. rx[g] \in {"none", "open", "sent", "dropped"}
      BY DEF IInv, TypeOK
    <2> QED
      BY <1>1, <2>1, StatusCases, StatusCasesNext
  <1>4. [g \in Hook |-> RequestStatus(g)]'
          = [[g \in Hook |-> RequestStatus(g)] EXCEPT ![h] = "returned"]
    BY <1>2, <1>3
  <1> QED
    BY <1>2, <1>4 DEF Promise!Next, Promise!Return

LEMMA TimeOutStep ==
    ASSUME IInv, IInv', NEW h \in Hook, TimeOut(h)
    PROVE  Promise!Next
  <1>1. \A g \in Hook : g # h => rx'[g] = rx[g] /\ (pc'[g] = "done" <=> pc[g] = "done")
    BY DEF IInv, TypeOK, TimeOut, Goto
  <1>2. RequestStatus(h) = "open" /\ RequestStatus(h)' = "decided" /\ inbox' = inbox
    BY StatusCases, StatusCasesNext DEF IInv, TypeOK, ChannelOK, TimeOut, Goto, channelVars
  <1>3. \A g \in Hook : g # h => RequestStatus(g)' = RequestStatus(g)
    <2> TAKE g \in Hook
    <2>1. rx[g] \in {"none", "open", "sent", "dropped"}
      BY DEF IInv, TypeOK
    <2> QED
      BY <1>1, <2>1, StatusCases, StatusCasesNext
  <1> QED
    <2>1. [g \in Hook |-> RequestStatus(g)]'
            = [g \in Hook |-> IF g \in {h} THEN "decided" ELSE RequestStatus(g)]
      BY <1>2, <1>3
    <2>2. Promise!Withdraw({h})
      BY <1>2, <2>1 DEF Promise!Withdraw
    <2> QED
      BY <2>2 DEF Promise!Next

(* The closure of an update withdraws what it cancels. *)
LEMMA ApplyUpdateStep ==
    ASSUME IInv, IInv', NEW h \in Hook, ApplyUpdate(h)
    PROVE  Promise!Next \/ UNCHANGED Promise!vars
  <1> DEFINE o == ref[h]
  <1>1. o \in Object
    BY DEF ApplyUpdate, IInv, PlacesOK
  <1>2. ApplyTo(h, o)
    BY DEF ApplyUpdate
  <1>3. ASSUME NEW g \in Hook
        PROVE  pc'[g] = pc[g] \/ (pc[g] = "apply" /\ pc'[g] \in {"remove", "done"})
    BY DEF ApplyUpdate, Goto, IInv, TypeOK
  <1>4. ASSUME NEW R \in SUBSET pending[o], Cancel(R)
        PROVE  Promise!Next \/ UNCHANGED Promise!vars
    <2>1. Respond(R, NoAnswer)
      BY <1>4 DEF Cancel
    <2> QED
      BY <1>1, <1>3, <2>1, ReleaseStep
  <1>5. CASE UNCHANGED channelVars
    <2>1. \A g \in Hook : rx[g] # "none" => (pc[g] = "done" <=> pc'[g] = "done")
      BY <1>3 DEF IInv, ChannelOK
    <2> QED
      BY <1>5, <2>1, QuietSteps DEF channelVars
  <1>6. CASE CancelPendingRequests(o)
    BY <1>4, <1>6 DEF CancelPendingRequests
  <1>7. CASE CancelPendingRequestsForTool(o, event[h].tool)
    <2>1. Gating(o, event[h].tool) \in SUBSET pending[o]
      BY DEF Gating
    <2> QED
      BY <1>4, <1>7, <2>1 DEF CancelPendingRequestsForTool
  <1> QED
    BY <1>2, <1>5, <1>6, <1>7 DEF ApplyTo

(* The remaining steps leave every channel alone. *)
LEMMA OtherSteps ==
    ASSUME IInv, IInv', NEW h \in Hook,
           \/ CreateSession(h) \/ FindSession(h) \/ LookupSession(h)
           \/ ReceiveAnswer(h) \/ RemoveObject(h) \/ VerifyRemoval(h)
           \/ OpenRequest(h) /\ Published(h) = NoObject
           \/ PushRequest(h) /\ pc'[h] = "waiting"
    PROVE  UNCHANGED Promise!vars
  <1>1. UNCHANGED <<rx, inbox>>
    BY DEF IInv, TypeOK, CreateSession, FindSession, LookupSession, ReceiveAnswer, RemoveObject,
           VerifyRemoval, OpenRequest, PushRequest, Goto, channelVars
  <1>2. \A g \in Hook : g # h => pc'[g] = pc[g]
    BY DEF IInv, TypeOK, CreateSession, FindSession, LookupSession, ReceiveAnswer, RemoveObject,
           VerifyRemoval, OpenRequest, PushRequest, Goto
  <1>3. rx[h] # "none" => pc[h] # "done" /\ pc'[h] # "done"
    BY DEF IInv, TypeOK, ChannelOK, CreateSession, FindSession, LookupSession, ReceiveAnswer,
           RemoveObject, VerifyRemoval, OpenRequest, PushRequest, Goto
  <1> QED
    BY <1>1, <1>2, <1>3, QuietSteps

(* Every behaviour of the service keeps the promise of Approval. *)
THEOREM Refinement == Spec => KeepsPromise
  <1>1. Init => Promise!Init
    BY DEF Init, Promise!Init, RequestStatus
  <1>2. IInv /\ IInv' /\ [Next]_vars => [Promise!Next]_(Promise!vars)
    <2> SUFFICES ASSUME IInv, IInv', [Next]_vars
                 PROVE  Promise!Next \/ UNCHANGED Promise!vars
      OBVIOUS
    <2>1. ASSUME NEW h \in Hook, Run(h)
          PROVE  Promise!Next \/ UNCHANGED Promise!vars
      <3>1. CASE OpenRequest(h)
        BY <3>1, OpenRequestStep, OtherSteps
      <3>2. CASE PushRequest(h)
        <4>1. pc'[h] \in {"waiting", "done"}
          BY <3>2 DEF PushRequest, Goto, IInv, TypeOK
        <4> QED
          BY <3>2, <4>1, DropRequestStep, OtherSteps
      <3>3. CASE CleanUp(h)
        BY <3>3, CleanUpStep
      <3>4. CASE ApplyUpdate(h)
        BY <3>4, ApplyUpdateStep
      <3> QED
        BY <2>1, <3>1, <3>2, <3>3, <3>4, OtherSteps DEF Run
    <2>2. ASSUME NEW h \in Hook, TimeOut(h) PROVE Promise!Next
      BY <2>2, TimeOutStep
    <2>3. CASE User
      <3> PICK o \in Object : \E h \in pending[o] : \E a \in Answer : Take(o, h, a)
        BY <2>3, UserTakes
      <3> PICK h \in pending[o], a \in Answer : Take(o, h, a)
        OBVIOUS
      <3>1. Respond({h}, a) /\ UNCHANGED pc /\ {h} \in SUBSET pending[o]
        BY DEF Take
      <3> QED
        BY <3>1, ReleaseStep
    <2>4. CASE UNCHANGED vars
      BY <2>4, QuietSteps DEF vars, channelVars
    <2> QED
      BY <2>1, <2>2, <2>3, <2>4 DEF Next
  <1> QED
    BY <1>1, <1>2, Invariance, PTL DEF Spec, KeepsPromise, Promise!Spec
-----------------------------------------------------------------------------
(* Cancelling stays within a session. *)

(* An object belongs to one session: it was published at one path, and     *)
(* only tasks of that session refer to it.                                 *)
OwnerOK ==
    /\ \A g, h \in Hook : ref[g] = ref[h] /\ ref[g] # NoObject => Sess(g) = Sess(h)
    /\ \A h \in Hook, s \in Session : object[s] = ref[h] /\ ref[h] # NoObject => s = Sess(h)
    /\ \A s, t \in Session : object[s] = object[t] /\ object[s] # NoObject => s = t

LEMMA OwnerInvariant == Spec => []OwnerOK
  <1> USE ElicitationAssumption DEF NoObject
  <1>1. Init => OwnerOK
    BY DEF Init, OwnerOK
  <1>2. IInv /\ OwnerOK /\ [Next]_vars => OwnerOK'
    <2> SUFFICES ASSUME IInv, OwnerOK, [Next]_vars PROVE OwnerOK'
      OBVIOUS
    <2>1. CASE UNCHANGED <<event, ref, object>>
      BY <2>1 DEF OwnerOK, Sess
    <2>2. ASSUME NEW h \in Hook, CreateSession(h) PROVE OwnerOK'
      <3>1. /\ Sess(h) \in Session /\ UNCHANGED <<event, ref>>
            /\ object'[Sess(h)] = born + 1
            /\ \A s \in Session : s # Sess(h) => object'[s] = object[s]
        BY <2>2, PublishedObject DEF CreateSession, IInv, TypeOK
      <3>2. /\ born \in Nat
            /\ \A s \in Session : object[s] \in Nat /\ object[s] <= born
            /\ \A g \in Hook : ref[g] \in Nat /\ ref[g] <= born
        BY DEF IInv, TypeOK, PlacesOK, Object
      <3> QED
        BY <3>1, <3>2 DEF OwnerOK, Sess
    <2>3. ASSUME NEW h \in Hook, LookupSession(h) \/ OpenRequest(h) PROVE OwnerOK'
      <3>1. CASE UNCHANGED <<event, ref, object>>
        BY <3>1, <2>1
      <3>2. CASE /\ ref' = [ref EXCEPT ![h] = Published(h)] /\ Published(h) # NoObject
                 /\ UNCHANGED <<event, object>>
        <4>1. Sess(h) \in Session /\ ref \in [Hook -> Object \cup {NoObject}]
          BY PublishedObject DEF IInv, TypeOK
        <4> QED
          BY <3>2, <4>1 DEF OwnerOK, Sess, Published
      <3> QED
        BY <2>3, <3>1, <3>2 DEF LookupSession, OpenRequest
    <2>4. ASSUME NEW h \in Hook, RemoveObject(h) PROVE OwnerOK'
      <3>1. Sess(h) \in Session
        BY PublishedObject
      <3>2. object \in [Session -> Object \cup {NoObject}]
        BY DEF IInv, TypeOK
      <3> QED
        BY <2>4, <3>1, <3>2 DEF OwnerOK, Sess, RemoveObject
    <2>5. ASSUME NEW o \in Object, NEW h \in pending[o], NEW a \in Answer, Take(o, h, a)
          PROVE  OwnerOK'
      BY <2>5, <2>1 DEF Take
    <2> QED
      BY <2>1, <2>2, <2>3, <2>4, <2>5, UserTakes
         DEF Next, Run, FindSession, ApplyUpdate, PushRequest, ReceiveAnswer, TimeOut, CleanUp,
             VerifyRemoval, vars
  <1> QED
    BY <1>1, <1>2, Invariance, PTL DEF Spec

(* No hook of another session and no other tool can cancel a waiter. *)
THEOREM CancellingHasCause == Spec => CancelHasCause
  <1>1. IInv /\ OwnerOK /\ [Next]_vars =>
          [\A h \in Hook :
              rx[h] = "open" /\ rx'[h] = "sent" /\ inbox'[h] = NoAnswer =>
                \E g \in Hook :
                    /\ pc[g] = "apply" /\ pc'[g] # "apply"
                    /\ Sess(g) = Sess(h)
                    /\ \/ KindOf(g) \in {"TurnBoundary", "Removal"}
                       \/ KindOf(g) = "PostToolUse" /\ event[g].tool = event[h].tool]_vars
    <2> SUFFICES ASSUME IInv, OwnerOK, [Next]_vars, NEW h \in Hook,
                        rx[h] = "open", rx'[h] = "sent", inbox'[h] = NoAnswer
                 PROVE  \E g \in Hook :
                            /\ pc[g] = "apply" /\ pc'[g] # "apply"
                            /\ Sess(g) = Sess(h)
                            /\ \/ KindOf(g) \in {"TurnBoundary", "Removal"}
                               \/ KindOf(g) = "PostToolUse" /\ event[g].tool = event[h].tool
      OBVIOUS
    <2> USE ElicitationAssumption
    <2>1. ASSUME NEW g \in Hook, ApplyUpdate(g)
          PROVE  /\ pc[g] = "apply" /\ pc'[g] # "apply"
                 /\ Sess(g) = Sess(h)
                 /\ \/ KindOf(g) \in {"TurnBoundary", "Removal"}
                    \/ KindOf(g) = "PostToolUse" /\ event[g].tool = event[h].tool
      <3> DEFINE o == ref[g]
      <3>1. o \in Object /\ o # NoObject /\ pc[g] = "apply" /\ pc'[g] # "apply"
        BY <2>1 DEF ApplyUpdate, Goto, IInv, TypeOK, PlacesOK, Object, NoObject
      <3>2. ApplyTo(g, o)
        BY <2>1 DEF ApplyUpdate
      <3>3. ~ UNCHANGED channelVars
        BY DEF channelVars
      <3>4. h \in pending[o] => Sess(g) = Sess(h)
        BY <3>1 DEF IInv, ListedOK, OwnerOK
      <3>5. ASSUME NEW R \in SUBSET pending[o], Cancel(R) PROVE h \in R
        <4>1. R \in SUBSET Hook
          BY <3>1 DEF IInv, TypeOK
        <4> QED
          BY <3>5, <4>1, RespondChannel DEF Cancel, IInv
      <3>6. CASE KindOf(g) \in {"TurnBoundary", "Removal"} /\ CancelPendingRequests(o)
        BY <3>1, <3>4, <3>5, <3>6 DEF CancelPendingRequests
      <3>7. CASE /\ KindOf(g) = "PostToolUse"
                 /\ CancelPendingRequestsForTool(o, event[g].tool)
        <4>1. Gating(o, event[g].tool) \in SUBSET pending[o]
          BY DEF Gating
        <4>2. h \in Gating(o, event[g].tool)
          BY <3>5, <3>7, <4>1 DEF CancelPendingRequestsForTool
        <4> QED
          BY <3>1, <3>4, <3>7, <4>2 DEF Gating
      <3> QED
        BY <3>2, <3>3, <3>6, <3>7 DEF ApplyTo
    <2>2. ASSUME NEW o \in Object, NEW g \in pending[o], NEW a \in Answer, Take(o, g, a)
          PROVE  FALSE
      <3>1. {g} \in SUBSET Hook
        BY DEF IInv, TypeOK
      <3>2. Respond({g}, a) /\ a \in Answer \cup {NoAnswer} /\ a # NoAnswer
        BY <2>2 DEF Take
      <3>3. IF h \in {g} /\ h \in broker /\ rx[h] = "open"
            THEN rx'[h] = "sent" /\ inbox'[h] = a
            ELSE rx'[h] = rx[h] /\ inbox'[h] = inbox[h]
        BY <3>1, <3>2, RespondChannel DEF IInv
      <3> QED
        BY <3>2, <3>3
    <2>3. CASE UNCHANGED rx
      BY <2>3
    <2>4. ASSUME NEW g \in Hook, OpenRequest(g) \/ PushRequest(g) \/ TimeOut(g) PROVE FALSE
      BY <2>4 DEF OpenRequest, PushRequest, TimeOut, IInv, TypeOK, channelVars
    <2> QED
      BY <2>1, <2>2, <2>3, <2>4, UserTakes
         DEF Next, Run, CreateSession, FindSession, LookupSession, ReceiveAnswer, CleanUp,
             RemoveObject, VerifyRemoval, vars, channelVars
  <1> QED
    BY <1>1, Invariance, OwnerInvariant, PTL DEF Spec, CancelHasCause
=============================================================================
