---------------------------- MODULE ExpiringSet ----------------------------
(***************************************************************************)
(* The set of ended sessions: bounded in size, and forgetful with time.    *)
(*                                                                         *)
(* A map holds the sessions with the instant at which each was inserted; a *)
(* queue holds every insertion.  Removing a session leaves its insertions  *)
(* in the queue, where a later insertion of the same session must not be   *)
(* mistaken for them: a record of the queue stands for the session only if *)
(* the map has the same instant.  Every operation runs under one mutex and *)
(* is one step.                                                            *)
(***************************************************************************)
EXTENDS Naturals, Sequences, FiniteSets

CONSTANTS
    Key,        \* sessions
    MaxEntries, \* how many sessions the set holds
    Ttl,        \* how long it holds them
    MaxNow,     \* bound: the clock stops here
    MaxOrder    \* bound: no insertion while the queue is this long

Time == 0..MaxNow
Never == MaxNow + 1     \* the stamp of a session that is not in the map

ASSUME ExpiringSetAssumption ==
    /\ IsFiniteSet(Key)
    /\ MaxEntries \in Nat /\ Ttl \in Nat \ {0}
    /\ MaxNow \in Nat /\ MaxOrder \in Nat

VARIABLES
    entries,    \* the instant at which each session was inserted, or Never
    order,      \* the insertions, oldest first
    now         \* the monotonic clock

setVars == <<entries, order, now>>

Record == [key : Key, at : Time]
Live(e) == {k \in Key : e[k] # Never}

SetTypeOK ==
    /\ entries \in [Key -> Time \cup {Never}]
    /\ order \in Seq(Record)
    /\ now \in Time

SetInit ==
    /\ entries = [k \in Key |-> Never]
    /\ order = <<>>
    /\ now = 0

(* Dropping the first n records of queue q: what map and queue become.     *)
(* Faulty: the record is taken for the session whatever its instant.       *)
WithoutAnyStamp(e, q, n) ==
    [k \in Key |-> IF \E i \in 1..n : q[i].key = k THEN Never ELSE e[k]]

Without(e, q, n) ==
    [k \in Key |-> IF \E i \in 1..n : q[i] = [key |-> k, at |-> e[k]] THEN Never ELSE e[k]]

Rest(q, n) == SubSeq(q, n + 1, Len(q))

(* prune: the leading records that have come of age.                       *)
IsDue(q, n) ==
    /\ \A i \in 1..n : now - q[i].at >= Ttl
    /\ n < Len(q) => now - q[n + 1].at < Ttl

(* insert's loop: as few leading records as make the map small enough.     *)
IsOverflow(e, q, n) ==
    /\ Cardinality(Live(Without(e, q, n))) <= MaxEntries
    /\ \A m \in 0..(n - 1) : Cardinality(Live(Without(e, q, m))) > MaxEntries

(* Faulty: a session that is in the map already is not queued again.       *)
InsertOnce(k) ==
    \E n \in 0..Len(order) :
        /\ IsDue(order, n)
        /\ LET e == [Without(entries, order, n) EXCEPT ![k] = now]
               q == IF Without(entries, order, n)[k] # Never THEN Rest(order, n)
                    ELSE Append(Rest(order, n), [key |-> k, at |-> now])
           IN  \E m \in 0..Len(q) :
                   IsOverflow(e, q, m) /\ entries' = Without(e, q, m) /\ order' = Rest(q, m)
        /\ UNCHANGED now

(* Every operation prunes first. *)
Insert(k) ==
    /\ Len(order) < MaxOrder
    /\ \E n \in 0..Len(order) :
        /\ IsDue(order, n)
        /\ LET e == [Without(entries, order, n) EXCEPT ![k] = now]
               q == Append(Rest(order, n), [key |-> k, at |-> now])
           IN  \E m \in 0..Len(q) :
                   IsOverflow(e, q, m) /\ entries' = Without(e, q, m) /\ order' = Rest(q, m)
    /\ UNCHANGED now

(* remove and contains also say whether the map had the session.           *)
Remove(k, found) ==
    /\ \E n \in 0..Len(order) :
        /\ IsDue(order, n)
        /\ found = (Without(entries, order, n)[k] # Never)
        /\ entries' = [Without(entries, order, n) EXCEPT ![k] = Never]
        /\ order' = Rest(order, n)
    /\ UNCHANGED now

Contains(k, found) ==
    /\ \E n \in 0..Len(order) :
        /\ IsDue(order, n)
        /\ found = (Without(entries, order, n)[k] # Never)
        /\ entries' = Without(entries, order, n)
        /\ order' = Rest(order, n)
    /\ UNCHANGED now

Tick ==
    /\ now < MaxNow
    /\ now' = now + 1
    /\ UNCHANGED <<entries, order>>

-----------------------------------------------------------------------------
(* Every session in the map has its insertion in the queue, and the map is *)
(* never too large: insert's loop, which holds the mutex, comes to its end *)
(* before the queue does, and nothing is remembered for ever.              *)
MarksAreQueued ==
    /\ \A k \in Live(entries) : \E i \in 1..Len(order) : order[i] = [key |-> k, at |-> entries[k]]
    /\ Cardinality(Live(entries)) <= MaxEntries

(* A session leaves the map of its own only when its time is over, or when *)
(* as many sessions as the map holds have been inserted since.             *)
ForgottenForCause(k) ==
    entries[k] # Never /\ entries'[k] = Never =>
        \/ now - entries[k] >= Ttl
        \/ /\ Cardinality(Live(entries')) = MaxEntries
           /\ \A j \in Live(entries') : entries'[j] >= entries[k]
=============================================================================
