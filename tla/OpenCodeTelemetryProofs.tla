---------------------- MODULE OpenCodeTelemetryProofs ----------------------
(***************************************************************************)
(* Theorems about OpenCodeTelemetry, for any instances of the plugin, any  *)
(* number of steps and tokens, and any bounds of the daemon.               *)
(*                                                                         *)
(* The inductive invariant has a part for the set of ended sessions, one   *)
(* for the object with its reports, and one for the delivery chains.       *)
(***************************************************************************)
EXTENDS OpenCodeTelemetry, FiniteSetTheorems, SequenceTheorems, TLAPS

-----------------------------------------------------------------------------
(* The set of ended sessions, for any sessions, capacity and time to live. *)
(* Agree relates a map and a queue: every session in the map has its       *)
(* record in the queue, and the records are in order of time.  It holds    *)
(* after every intermediate step of an operation, and so makes the set's   *)
(* invariant, SetOK, inductive.                                            *)
Queued(e, q) == \A k \in Live(e) : \E i \in 1..Len(q) : q[i] = [key |-> k, at |-> e[k]]
Ordered(q) ==
    /\ \A i, j \in 1..Len(q) : i <= j => q[i].at <= q[j].at
    /\ \A i \in 1..Len(q) : q[i].at <= now

Agree(e, q) ==
    /\ e \in [Key -> Time \cup {Never}]
    /\ q \in Seq(Record)
    /\ Queued(e, q)
    /\ Ordered(q)

SetOK ==
    /\ now \in Time
    /\ Agree(entries, order)
    /\ Cardinality(Live(entries)) <= MaxEntries

LEMMA SetOKImplies == SetOK => SetTypeOK /\ MarksAreQueued
BY DEF SetOK, Agree, Queued, SetTypeOK, MarksAreQueued

-----------------------------------------------------------------------------
(* Dropping records keeps the order of the rest. *)
LEMMA RestOfQueue ==
    ASSUME NEW q \in Seq(Record), NEW n \in 0..Len(q)
    PROVE  /\ Rest(q, n) \in Seq(Record)
           /\ Len(Rest(q, n)) = Len(q) - n
           /\ \A i \in 1..(Len(q) - n) : Rest(q, n)[i] = q[n + i]
<1>1. Len(q) \in Nat
    BY LenProperties
<1>2. \A i \in (n + 1)..Len(q) : q[i] \in Record
    BY <1>1, ElementOfSeq
<1>3. QED
    BY <1>1, <1>2, SubSeqProperties DEF Rest

LEMMA RestOrdered ==
    ASSUME NEW q \in Seq(Record), NEW n \in 0..Len(q), Ordered(q)
    PROVE  Ordered(Rest(q, n))
<1>1. Len(q) \in Nat
    BY LenProperties
<1>2. ASSUME NEW i \in 1..(Len(q) - n)
      PROVE  n + i \in 1..Len(q) /\ Rest(q, n)[i] = q[n + i]
    BY <1>1, RestOfQueue
<1>3. \A i \in 1..(Len(q) - n) : Rest(q, n)[i].at <= now
    BY <1>2 DEF Ordered
<1>4. ASSUME NEW i \in 1..(Len(q) - n), NEW j \in 1..(Len(q) - n), i <= j
      PROVE  Rest(q, n)[i].at <= Rest(q, n)[j].at
    <2>1. n + i <= n + j
        BY <1>1, <1>4
    <2>2. q[n + i].at <= q[n + j].at
        BY <1>2, <2>1 DEF Ordered
    <2>3. QED
        BY <1>2, <2>2
<1>5. Len(Rest(q, n)) = Len(q) - n
    BY RestOfQueue
<1>6. QED
    BY <1>3, <1>4, <1>5 DEF Ordered

(* A session that stays in the map has its record behind those dropped.    *)
LEMMA StaysBehind ==
    ASSUME NEW e, NEW q, Agree(e, q), NEW n \in 0..Len(q),
           NEW k \in Live(Without(e, q, n))
    PROVE  /\ k \in Live(e) /\ Without(e, q, n)[k] = e[k]
           /\ \E i \in (n + 1)..Len(q) : q[i] = [key |-> k, at |-> e[k]]
<1>1. Len(q) \in Nat
    BY LenProperties DEF Agree
<1>2. k \in Key /\ Without(e, q, n)[k] # Never
    BY DEF Live
<1>3. /\ Without(e, q, n)[k] = e[k]
      /\ ~ \E i \in 1..n : q[i] = [key |-> k, at |-> e[k]]
    BY <1>2 DEF Without
<1>4. k \in Live(e)
    BY <1>2, <1>3 DEF Live
<1>5. PICK i \in 1..Len(q) : q[i] = [key |-> k, at |-> e[k]]
    BY <1>4 DEF Agree, Queued
<1>6. i \in (n + 1)..Len(q)
    BY <1>1, <1>3, <1>5
<1>7. QED
    BY <1>3, <1>4, <1>5, <1>6

LEMMA DropAgrees ==
    ASSUME NEW e, NEW q, Agree(e, q), NEW n \in 0..Len(q)
    PROVE  Agree(Without(e, q, n), Rest(q, n))
<1>1. Len(q) \in Nat
    BY LenProperties DEF Agree
<1>2. Without(e, q, n) \in [Key -> Time \cup {Never}]
    BY DEF Agree, Without
<1>3. Queued(Without(e, q, n), Rest(q, n))
    <2>. SUFFICES ASSUME NEW k \in Live(Without(e, q, n))
                  PROVE  \E i \in 1..Len(Rest(q, n)) :
                             Rest(q, n)[i] = [key |-> k, at |-> Without(e, q, n)[k]]
        BY DEF Queued
    <2>0. /\ Without(e, q, n)[k] = e[k]
          /\ \E i \in (n + 1)..Len(q) : q[i] = [key |-> k, at |-> e[k]]
        BY StaysBehind
    <2>1. PICK i \in (n + 1)..Len(q) : q[i] = [key |-> k, at |-> e[k]]
        BY <2>0
    <2>. DEFINE j == i - n
    <2>2. j \in 1..(Len(q) - n) /\ n + j = i
        BY <1>1
    <2>. HIDE DEF j
    <2>3. Len(Rest(q, n)) = Len(q) - n /\ Rest(q, n)[j] = q[n + j]
        BY <2>2, RestOfQueue DEF Agree
    <2>4. Rest(q, n)[j] = [key |-> k, at |-> Without(e, q, n)[k]]
        BY <2>0, <2>1, <2>2, <2>3
    <2>5. j \in 1..Len(Rest(q, n))
        BY <2>2, <2>3
    <2>6. QED
        BY <2>4, <2>5
<1>4. QED
    BY <1>2, <1>3, RestOfQueue, RestOrdered DEF Agree

LEMMA AddAgrees ==
    ASSUME NEW e, NEW q, Agree(e, q), now \in Time, NEW k \in Key
    PROVE  Agree([e EXCEPT ![k] = now], Append(q, [key |-> k, at |-> now]))
<1>. DEFINE r == [key |-> k, at |-> now]
            f == [e EXCEPT ![k] = now]
<1>1. Len(q) \in Nat /\ r \in Record /\ now \in Int
    BY LenProperties, ExpiringSetAssumption DEF Agree, Record, Time
<1>2. /\ Append(q, r) \in Seq(Record)
      /\ Len(Append(q, r)) = Len(q) + 1
      /\ \A i \in 1..Len(q) : Append(q, r)[i] = q[i]
      /\ Append(q, r)[Len(q) + 1] = r
    BY <1>1, AppendProperties DEF Agree
<1>3. f \in [Key -> Time \cup {Never}]
    BY DEF Agree
<1>4. Queued(f, Append(q, r))
    <2>. SUFFICES ASSUME NEW j \in Live(f)
                  PROVE  \E i \in 1..Len(Append(q, r)) : Append(q, r)[i] = [key |-> j, at |-> f[j]]
        BY DEF Queued
    <2>1. CASE j = k
        <3>1. f[j] = now
            BY <2>1 DEF Agree
        <3>2. Len(q) + 1 \in 1..Len(Append(q, r))
            BY <1>1, <1>2
        <3>3. QED
            BY <1>2, <2>1, <3>1, <3>2
    <2>2. CASE j # k
        <3>1. f[j] = e[j] /\ j \in Live(e)
            BY <2>2 DEF Agree, Live
        <3>2. PICK i \in 1..Len(q) : q[i] = [key |-> j, at |-> e[j]]
            BY <3>1 DEF Agree, Queued
        <3>3. i \in 1..Len(Append(q, r))
            BY <1>1, <1>2
        <3>4. QED
            BY <1>2, <3>1, <3>2, <3>3
    <2>3. QED
        BY <2>1, <2>2
<1>5. Ordered(Append(q, r))
    <2>1. \A i \in 1..Len(q) : q[i].at <= now
        BY DEF Agree, Ordered
    <2>2. ASSUME NEW i \in 1..(Len(q) + 1)
          PROVE  Append(q, r)[i].at <= now
        <3>1. CASE i = Len(q) + 1
            BY <1>1, <1>2, <3>1
        <3>2. CASE i \in 1..Len(q)
            BY <1>2, <2>1, <3>2
        <3>3. QED
            BY <1>1, <3>1, <3>2
    <2>3. ASSUME NEW i \in 1..(Len(q) + 1), NEW j \in 1..(Len(q) + 1), i <= j
          PROVE  Append(q, r)[i].at <= Append(q, r)[j].at
        <3>1. CASE j = Len(q) + 1
            <4>1. Append(q, r)[j].at = now
                BY <1>2, <3>1
            <4>2. QED
                BY <4>1, <2>2
        <3>2. CASE j # Len(q) + 1
            <4>1. i \in 1..Len(q) /\ j \in 1..Len(q)
                BY <1>1, <2>3, <3>2
            <4>2. QED
                BY <1>2, <2>3, <4>1 DEF Agree, Ordered
        <3>3. QED
            BY <3>1, <3>2
    <2>4. QED
        BY <1>2, <2>2, <2>3 DEF Ordered
<1>6. QED
    BY <1>2, <1>3, <1>4, <1>5 DEF Agree

LEMMA TakeAgrees ==
    ASSUME NEW e, NEW q, Agree(e, q), NEW k \in Key
    PROVE  Agree([e EXCEPT ![k] = Never], q)
<1>1. \A j \in Live([e EXCEPT ![k] = Never]) :
          j \in Live(e) /\ [e EXCEPT ![k] = Never][j] = e[j]
    BY DEF Agree, Live
<1>2. QED
    BY <1>1 DEF Agree, Queued

(* A smaller map fits too. *)
LEMMA FewerLive ==
    ASSUME NEW e, NEW f, Live(f) \subseteq Live(e), Cardinality(Live(e)) <= MaxEntries
    PROVE  Cardinality(Live(f)) <= MaxEntries
<1>1. IsFiniteSet(Live(e)) /\ IsFiniteSet(Live(f))
    BY ExpiringSetAssumption, FS_Subset DEF Live
<1>2. /\ Cardinality(Live(e)) \in Nat /\ Cardinality(Live(f)) \in Nat
      /\ Cardinality(Live(f)) <= Cardinality(Live(e))
    BY <1>1, FS_Subset, FS_CardinalityType
<1>3. QED
    BY <1>2, ExpiringSetAssumption

-----------------------------------------------------------------------------
(* The operations. *)
LEMMA InitSetOK == SetInit => SetOK
<1>. SUFFICES ASSUME SetInit PROVE SetOK
    OBVIOUS
<1>1. Live(entries) = {}
    BY DEF SetInit, Live
<1>2. Cardinality(Live(entries)) = 0
    BY <1>1, FS_EmptySet
<1>3. order \in Seq(Record) /\ Len(order) = 0
    BY EmptySeq DEF SetInit
<1>4. now \in Time /\ entries \in [Key -> Time \cup {Never}]
    BY ExpiringSetAssumption DEF SetInit, Time
<1>5. QED
    BY <1>1, <1>2, <1>3, <1>4, ExpiringSetAssumption DEF SetOK, Agree, Queued, Ordered

LEMMA PrimedAgree ==
    ASSUME UNCHANGED now, Agree(entries', order')
    PROVE  Agree(entries, order)'
BY DEF Agree, Queued, Ordered, Live, Time, Never, Record

LEMMA InsertSetOK ==
    ASSUME SetOK, NEW k \in Key, Insert(k)
    PROVE  SetOK'
<1>1. UNCHANGED now /\ now \in Time
    BY DEF Insert, SetOK
<1>2. PICK n \in 0..Len(order) :
          \E m \in 0..(Len(Append(Rest(order, n), [key |-> k, at |-> now]))) :
              /\ IsOverflow([Without(entries, order, n) EXCEPT ![k] = now],
                            Append(Rest(order, n), [key |-> k, at |-> now]), m)
              /\ entries' = Without([Without(entries, order, n) EXCEPT ![k] = now],
                                    Append(Rest(order, n), [key |-> k, at |-> now]), m)
              /\ order' = Rest(Append(Rest(order, n), [key |-> k, at |-> now]), m)
    BY DEF Insert
<1>. DEFINE e == [Without(entries, order, n) EXCEPT ![k] = now]
            q == Append(Rest(order, n), [key |-> k, at |-> now])
<1>3. PICK m \in 0..Len(q) :
          IsOverflow(e, q, m) /\ entries' = Without(e, q, m) /\ order' = Rest(q, m)
    BY <1>2
<1>4. Agree(e, q)
    BY <1>1, DropAgrees, AddAgrees DEF SetOK
<1>5. Agree(entries', order')
    <2>. HIDE DEF e, q
    <2>. QED
        BY <1>3, <1>4, DropAgrees
<1>6. Cardinality(Live(entries')) <= MaxEntries
    BY <1>3 DEF IsOverflow
<1>7. QED
    BY <1>1, <1>5, <1>6, PrimedAgree DEF SetOK, Live, Never, Time

LEMMA RemoveSetOK ==
    ASSUME SetOK, NEW k \in Key, NEW found, Remove(k, found)
    PROVE  SetOK'
<1>1. PICK n \in 0..Len(order) :
          /\ entries' = [Without(entries, order, n) EXCEPT ![k] = Never]
          /\ order' = Rest(order, n)
    BY DEF Remove
<1>2. UNCHANGED now /\ now \in Time
    BY DEF Remove, SetOK
<1>3. Agree(Without(entries, order, n), Rest(order, n))
    BY DropAgrees DEF SetOK
<1>4. Agree(entries', order')
    BY <1>1, <1>3, TakeAgrees
<1>5. Live(entries') \subseteq Live(entries)
    <2>. SUFFICES ASSUME NEW j \in Live(entries') PROVE j \in Live(entries)
        OBVIOUS
    <2>1. j \in Key /\ entries'[j] # Never
        BY DEF Live
    <2>2. entries'[j] = Without(entries, order, n)[j]
        BY <1>1, <1>3, <2>1 DEF Agree
    <2>3. j \in Live(Without(entries, order, n))
        BY <2>1, <2>2 DEF Live
    <2>4. QED
        BY <2>3, StaysBehind DEF SetOK
<1>6. QED
    BY <1>2, <1>4, <1>5, FewerLive, PrimedAgree DEF SetOK, Live, Never, Time

LEMMA ContainsSetOK ==
    ASSUME SetOK, NEW k \in Key, NEW found, Contains(k, found)
    PROVE  SetOK'
<1>1. PICK n \in 0..Len(order) :
          entries' = Without(entries, order, n) /\ order' = Rest(order, n)
    BY DEF Contains
<1>2. UNCHANGED now /\ now \in Time
    BY DEF Contains, SetOK
<1>3. Agree(entries', order')
    BY <1>1, DropAgrees DEF SetOK
<1>4. Live(entries') \subseteq Live(entries)
    BY <1>1, StaysBehind DEF SetOK
<1>5. QED
    BY <1>2, <1>3, <1>4, FewerLive, PrimedAgree DEF SetOK, Live, Never, Time

LEMMA TickSetOK ==
    ASSUME SetOK, Tick
    PROVE  SetOK'
<1>1. now' \in Time /\ now <= now' /\ now \in Int /\ now' \in Int
    BY ExpiringSetAssumption DEF SetOK, Tick, Time
<1>2. \A i \in 1..Len(order) : order[i].at <= now'
    <2>. SUFFICES ASSUME NEW i \in 1..Len(order) PROVE order[i].at <= now'
        OBVIOUS
    <2>1. order[i] \in Record
        BY ElementOfSeq DEF SetOK, Agree
    <2>2. order[i].at \in Int /\ order[i].at <= now
        BY <2>1 DEF SetOK, Agree, Ordered, Record, Time
    <2>3. QED
        BY <1>1, <2>2
<1>3. UNCHANGED <<entries, order>>
    BY DEF Tick
<1>4. QED
    BY <1>1, <1>2, <1>3 DEF SetOK, Agree, Queued, Ordered, Live, Never, Time, Record

LEMMA ForgetSetOK ==
    ASSUME SetOK, entries' = [k \in Key |-> Never], order' = <<>>, UNCHANGED now
    PROVE  SetOK'
<1>1. Live(entries') = {}
    BY DEF Live
<1>2. Cardinality(Live(entries')) <= MaxEntries
    BY <1>1, FS_EmptySet, ExpiringSetAssumption
<1>3. order' \in Seq(Record) /\ Len(order') = 0
    BY EmptySeq
<1>4. Agree(entries', order')
    BY <1>1, <1>3 DEF Agree, Queued, Ordered
<1>5. QED
    BY <1>2, <1>4, PrimedAgree DEF SetOK, Live, Never, Time

LEMMA SameSetOK ==
    ASSUME SetOK, UNCHANGED setVars
    PROVE  SetOK'
BY DEF SetOK, setVars, Agree, Queued, Ordered, Live, Never, Time, Record

-----------------------------------------------------------------------------
(* Nothing is forgotten without a cause. *)

(* A session that is dropped was in one of the records dropped.            *)
LEMMA DroppedByRecord ==
    ASSUME NEW e, NEW q, NEW n, NEW j \in Key, e[j] # Never, Without(e, q, n)[j] = Never
    PROVE  \E i \in 1..n : q[i] = [key |-> j, at |-> e[j]]
BY DEF Without

LEMMA PrunedIsDue ==
    ASSUME NEW n \in 0..Len(order), IsDue(order, n),
           NEW j \in Key, entries[j] # Never, Without(entries, order, n)[j] = Never
    PROVE  now - entries[j] >= Ttl
<1>1. PICK i \in 1..n : order[i] = [key |-> j, at |-> entries[j]]
    BY DroppedByRecord
<1>2. QED
    BY <1>1 DEF IsDue

LEMMA KeptOrNever ==
    ASSUME NEW e, NEW q, NEW n, NEW j \in Key
    PROVE  Without(e, q, n)[j] \in {e[j], Never}
BY DEF Without

(* One record drops one session at most. *)
LEMMA OneRecordLess ==
    ASSUME NEW e, NEW q, NEW m \in Nat \ {0}
    PROVE  Live(Without(e, q, m - 1)) \subseteq Live(Without(e, q, m)) \cup {q[m].key}
<1>. SUFFICES ASSUME NEW j \in Key, Without(e, q, m - 1)[j] # Never,
                     Without(e, q, m)[j] = Never
              PROVE  j = q[m].key
    BY DEF Live
<1>1. e[j] # Never /\ ~ \E i \in 1..(m - 1) : q[i] = [key |-> j, at |-> e[j]]
    BY DEF Without
<1>2. PICK i \in 1..m : q[i] = [key |-> j, at |-> e[j]]
    BY <1>1, DroppedByRecord
<1>3. i = m
    BY <1>1, <1>2
<1>4. QED
    BY <1>2, <1>3

(* What insert's loop drops is older than what it keeps, and it keeps as   *)
(* much as there is room for.                                              *)
LEMMA OverflowForCause ==
    ASSUME NEW e, NEW q, Agree(e, q), NEW m \in 0..Len(q), IsOverflow(e, q, m),
           NEW j \in Key, e[j] # Never, Without(e, q, m)[j] = Never
    PROVE  /\ Cardinality(Live(Without(e, q, m))) = MaxEntries
           /\ \A k \in Live(Without(e, q, m)) : Without(e, q, m)[k] >= e[j]
<1>. DEFINE S == Live(Without(e, q, m))
            T == Live(Without(e, q, m - 1))
<1>1. Len(q) \in Nat
    BY LenProperties DEF Agree
<1>2. PICK i \in 1..m : q[i] = [key |-> j, at |-> e[j]]
    BY DroppedByRecord
<1>3. m \in Nat \ {0} /\ m - 1 \in 0..(m - 1)
    BY <1>1, <1>2
<1>4. IsFiniteSet(S) /\ IsFiniteSet(T)
    BY ExpiringSetAssumption, FS_Subset DEF Live
<1>5. /\ Cardinality(S) \in Nat /\ Cardinality(T) \in Nat
      /\ Cardinality(S \cup {q[m].key}) <= Cardinality(S) + 1
      /\ IsFiniteSet(S \cup {q[m].key})
      /\ Cardinality(S \cup {q[m].key}) \in Nat
    <2>. HIDE DEF S, T
    <2>1. /\ IsFiniteSet(S \cup {q[m].key})
          /\ Cardinality(S \cup {q[m].key}) =
                 IF q[m].key \in S THEN Cardinality(S) ELSE Cardinality(S) + 1
        BY <1>4, FS_AddElement
    <2>2. Cardinality(S) \in Nat /\ Cardinality(T) \in Nat
        BY <1>4, FS_CardinalityType
    <2>3. QED
        BY <2>1, <2>2
<1>6. T \subseteq S \cup {q[m].key}
    BY <1>3, OneRecordLess
<1>7. Cardinality(T) <= Cardinality(S \cup {q[m].key})
    <2>. HIDE DEF S, T
    <2>. QED
        BY <1>5, <1>6, FS_Subset
<1>8. Cardinality(T) > MaxEntries /\ Cardinality(S) <= MaxEntries
    BY <1>3 DEF IsOverflow
<1>9. Cardinality(S) = MaxEntries
    <2>. HIDE DEF S, T
    <2>. QED
        BY <1>5, <1>7, <1>8, ExpiringSetAssumption
<1>10. ASSUME NEW k \in S
       PROVE  Without(e, q, m)[k] >= e[j]
    <2>. k \in Live(Without(e, q, m))
        OBVIOUS
    <2>. HIDE DEF S, T
    <2>0. /\ Without(e, q, m)[k] = e[k]
          /\ \E l \in (m + 1)..Len(q) : q[l] = [key |-> k, at |-> e[k]]
        BY StaysBehind
    <2>1. PICK l \in (m + 1)..Len(q) : q[l] = [key |-> k, at |-> e[k]]
        BY <2>0
    <2>2. Without(e, q, m)[k] = e[k]
        BY <2>0
    <2>3. i \in 1..Len(q) /\ i <= l /\ l \in 1..Len(q)
        BY <1>1, <1>3
    <2>4. q[i].at <= q[l].at
        BY <2>3 DEF Agree, Ordered
    <2>5. QED
        BY <1>2, <2>1, <2>2, <2>4
<1>11. QED
    BY <1>9, <1>10

LEMMA InsertForCause ==
    ASSUME SetOK, NEW k \in Key, Insert(k), NEW j \in Key
    PROVE  ForgottenForCause(j)
<1>. SUFFICES ASSUME entries[j] # Never, entries'[j] = Never, ~(now - entries[j] >= Ttl)
              PROVE  /\ Cardinality(Live(entries')) = MaxEntries
                     /\ \A i \in Live(entries') : entries'[i] >= entries[j]
    BY DEF ForgottenForCause
<1>1. PICK n \in 0..Len(order) :
          /\ IsDue(order, n)
          /\ \E m \in 0..(Len(Append(Rest(order, n), [key |-> k, at |-> now]))) :
              /\ IsOverflow([Without(entries, order, n) EXCEPT ![k] = now],
                            Append(Rest(order, n), [key |-> k, at |-> now]), m)
              /\ entries' = Without([Without(entries, order, n) EXCEPT ![k] = now],
                                    Append(Rest(order, n), [key |-> k, at |-> now]), m)
    BY DEF Insert
<1>. DEFINE f == Without(entries, order, n)
            e == [f EXCEPT ![k] = now]
            q == Append(Rest(order, n), [key |-> k, at |-> now])
<1>2. PICK m \in 0..Len(q) : IsOverflow(e, q, m) /\ entries' = Without(e, q, m)
    BY <1>1
<1>3. Agree(f, Rest(order, n)) /\ now \in Time
    BY DropAgrees DEF SetOK
<1>4. Agree(e, q)
    BY <1>3, AddAgrees
<1>5. f[j] = entries[j]
    BY <1>1, PrunedIsDue, KeptOrNever
<1>6. e[j] # Never /\ e[j] >= entries[j]
    <2>1. entries[j] <= now /\ entries[j] \in Int /\ now \in Int /\ now # Never
        <3>1. j \in Live(entries)
            BY DEF Live
        <3>2. PICK i \in 1..Len(order) : order[i] = [key |-> j, at |-> entries[j]]
            BY <3>1 DEF SetOK, Agree, Queued
        <3>3. order[i].at <= now
            BY DEF SetOK, Agree, Ordered
        <3>4. entries[j] \in Time
            BY DEF SetOK, Agree
        <3>5. QED
            BY <1>3, <3>2, <3>3, <3>4, ExpiringSetAssumption DEF Time, Never
    <2>2. CASE j = k
        <3>1. e[j] = now
            BY <1>3, <2>2 DEF Agree
        <3>2. QED
            BY <2>1, <3>1
    <2>3. CASE j # k
        <3>1. e[j] = entries[j]
            BY <1>3, <1>5, <2>3 DEF Agree
        <3>2. QED
            BY <2>1, <3>1
    <2>4. QED
        BY <2>2, <2>3
<1>7. /\ Cardinality(Live(Without(e, q, m))) = MaxEntries
      /\ \A i \in Live(Without(e, q, m)) : Without(e, q, m)[i] >= e[j]
    <2>. HIDE DEF e, q
    <2>. QED
        BY <1>2, <1>4, <1>6, OverflowForCause
<1>8. ASSUME NEW i \in Live(entries')
      PROVE  entries'[i] >= entries[j]
    <2>1. entries'[i] >= e[j]
        BY <1>2, <1>7
    <2>2. entries'[i] \in Int /\ e[j] \in Int /\ entries[j] \in Int
        <3>1. Agree(Without(e, q, m), Rest(q, m))
            <4>. HIDE DEF e, q
            <4>. QED
                BY <1>4, DropAgrees
        <3>2. entries' \in [Key -> Time \cup {Never}] /\ i \in Key
            BY <1>2, <3>1 DEF Agree, Live
        <3>3. e \in [Key -> Time \cup {Never}]
            BY <1>4 DEF Agree
        <3>4. entries[j] \in Time \cup {Never}
            BY DEF SetOK, Agree
        <3>. HIDE DEF e
        <3>5. QED
            BY <3>2, <3>3, <3>4, ExpiringSetAssumption DEF Time, Never
    <2>3. QED
        BY <1>6, <2>1, <2>2
<1>9. QED
    BY <1>2, <1>7, <1>8

LEMMA RemoveForCause ==
    ASSUME SetOK, NEW k \in Key, NEW found, Remove(k, found), NEW j \in Key, j # k
    PROVE  ForgottenForCause(j)
<1>1. PICK n \in 0..Len(order) :
          IsDue(order, n) /\ entries' = [Without(entries, order, n) EXCEPT ![k] = Never]
    BY DEF Remove
<1>2. entries'[j] = Without(entries, order, n)[j]
    BY <1>1 DEF Without
<1>3. QED
    BY <1>1, <1>2, PrunedIsDue DEF ForgottenForCause

LEMMA ContainsForCause ==
    ASSUME SetOK, NEW k \in Key, NEW found, Contains(k, found), NEW j \in Key
    PROVE  ForgottenForCause(j)
<1>1. PICK n \in 0..Len(order) : IsDue(order, n) /\ entries' = Without(entries, order, n)
    BY DEF Contains
<1>2. QED
    BY <1>1, PrunedIsDue DEF ForgottenForCause

LEMMA SameForCause ==
    ASSUME UNCHANGED entries, NEW j \in Key
    PROVE  ForgottenForCause(j)
BY DEF ForgottenForCause

(* A session without a mark gets none unless it is inserted. *)
LEMMA InsertOther ==
    ASSUME SetOK, NEW k \in Key, Insert(k), NEW j \in Key, j # k, entries[j] = Never
    PROVE  entries'[j] = Never
<1>1. PICK n \in 0..Len(order) :
          \E m \in 0..(Len(Append(Rest(order, n), [key |-> k, at |-> now]))) :
              entries' = Without([Without(entries, order, n) EXCEPT ![k] = now],
                                 Append(Rest(order, n), [key |-> k, at |-> now]), m)
    BY DEF Insert
<1>2. Without(entries, order, n)[j] = Never
    BY KeptOrNever
<1>3. [Without(entries, order, n) EXCEPT ![k] = now][j] = Never
    BY <1>2 DEF Without
<1>4. PICK m \in 0..(Len(Append(Rest(order, n), [key |-> k, at |-> now]))) :
          entries' = Without([Without(entries, order, n) EXCEPT ![k] = now],
                             Append(Rest(order, n), [key |-> k, at |-> now]), m)
    BY <1>1
<1>5. entries'[j] \in {[Without(entries, order, n) EXCEPT ![k] = now][j], Never}
    BY <1>4, KeptOrNever
<1>6. QED
    BY <1>3, <1>5

LEMMA RemoveAny ==
    ASSUME NEW k \in Key, NEW found, Remove(k, found), NEW j \in Key, entries[j] = Never
    PROVE  entries'[j] = Never
<1>1. PICK n \in 0..Len(order) : entries' = [Without(entries, order, n) EXCEPT ![k] = Never]
    BY DEF Remove
<1>2. Without(entries, order, n)[j] = Never
    BY KeptOrNever
<1>3. QED
    BY <1>1, <1>2 DEF Without

LEMMA ContainsAny ==
    ASSUME NEW k \in Key, NEW found, Contains(k, found), NEW j \in Key, entries[j] = Never
    PROVE  entries'[j] = Never /\ (j = k => found = FALSE)
<1>1. PICK n \in 0..Len(order) :
          /\ entries' = Without(entries, order, n)
          /\ found = (Without(entries, order, n)[k] # Never)
    BY DEF Contains
<1>2. Without(entries, order, n)[j] = Never
    BY KeptOrNever
<1>3. QED
    BY <1>1, <1>2

-----------------------------------------------------------------------------
(* The flow of messages, and the object that counts them. *)
FlowTypes ==
    /\ baseline \in Baselines /\ steps \in 0..MaxStep /\ over \in BOOLEAN
    /\ next \in [Plugin -> Message \cup {NoMessage}]
    /\ waits \in [Plugin -> Message \cup {NoMessage}]
    /\ at \in [Plugin -> [Message -> Where]]
    /\ restarts \in 0..MaxRestart
    /\ hasty \subseteq Plugin /\ closed \in BOOLEAN

(* An object s with reports rs after steps c were counted: its types, the  *)
(* room its totals leave, the window as the tail of the reports, and what  *)
(* the last report says of it.                                             *)
ObjectTypes(s, rs, c) ==
    /\ s \in Object /\ Len(s.seen) <= MaxSeen
    /\ c \subseteq Step /\ rs \in Seq(Report)

RoomOK(s) == s.totals # NoCount => s.totals + Taken[MaxStep] <= MaxCount

WindowOK(s, rs, c) ==
    /\ Len(s.seen) = IF Len(rs) <= MaxSeen THEN Len(rs) ELSE MaxSeen
    /\ \A j \in 1..Len(s.seen) : s.seen[j] = rs[Len(rs) - Len(s.seen) + j].step
    /\ \A i \in 1..Len(rs) : rs[i].step \in c
    /\ ~s.on => Len(rs) = 0

LastOK(s, rs) ==
    /\ Len(rs) # 0 => /\ s.totals = rs[Len(rs)].totals
                      /\ s.epoch = rs[Len(rs)].epoch
                      /\ s.revision = rs[Len(rs)].revision
    /\ \A i \in 1..Len(rs) : /\ rs[i].totals = Snapshot(rs[i].from, rs[i].step)
                             /\ First[rs[i].from] <= rs[i].step

Once(rs) == \A i, j \in 1..Len(rs) : i < j /\ rs[i].step = rs[j].step => j - i > MaxSeen

Follows(r, q) ==
    /\ q.revision = r.revision + 1
    /\ q.epoch >= r.epoch
    /\ q.epoch = r.epoch => q.totals >= r.totals
    /\ q.from = r.from /\ q.step = r.step + 1 =>
           q.epoch = r.epoch /\ q.totals = r.totals + Usage(q.step)

InOrder(rs) == \A i \in 1..(Len(rs) - 1) : Follows(rs[i], rs[i + 1])

ObjectIs(s, rs, c) ==
    ObjectTypes(s, rs, c) /\ RoomOK(s) /\ WindowOK(s, rs, c) /\ LastOK(s, rs) /\ Once(rs) /\ InOrder(rs)

(* While no end has been handled the session has no mark; and an instance  *)
(* that has lost nothing and never given up waits for whatever message is  *)
(* under way, so each of its steps is counted or about to be, and the end  *)
(* comes after the steps.                                                  *)
UnderWay == {"check", "apply", "emit"}

Begun(p) ==
    /\ \A m \in Step : at[p][m] # "none" => First[p] <= m
    /\ next[p] # Context => First[p] <= next[p]

Waiting(p) ==
    /\ \A m \in Message : at[p][m] \in UnderWay => waits[p] = m
    /\ \A m \in Step : at[p][m] # "none" => m \in counted \/ at[p][m] \in {"check", "apply"}
    /\ next[p] # Context /\ next[p] # NoMessage =>
           \A m \in Step : First[p] <= m /\ m < next[p] => at[p][m] # "none"
    /\ at[p][End] # "none" =>
           over /\ \A m \in Step : First[p] <= m /\ m <= steps => at[p][m] # "none"

ChainOK ==
    /\ \A p \in Plugin : Begun(p)
    /\ ~closed => entries[Followed] = Never
    /\ ~closed => \A p \in Plugin : p \notin hasty => Waiting(p)

ObjectOK == ObjectIs(session, reports, counted)

IInv == SetOK /\ FlowTypes /\ ObjectOK /\ ChainOK

-----------------------------------------------------------------------------
(* Numbers. *)
LEMMA Constants ==
    /\ MaxStep \in Nat /\ MaxCount \in Nat /\ MaxSeen \in Nat \ {0} /\ Followed \in Key
    /\ Step \subseteq Message /\ End \in Message /\ Context \in Message
    /\ End \notin Step /\ Context \notin Step /\ Context # End
    /\ NoMessage \notin Message /\ NoMessage \in Nat
    /\ Step \subseteq Nat /\ Message \subseteq Nat
BY OpenCodeAssumption DEF Step, Message, Context, End, NoMessage

LEMMA SnapshotFits ==
    ASSUME baseline \in Baselines, NEW p \in Plugin, NEW n \in Step, First[p] <= n
    PROVE  /\ Snapshot(p, n) \in Nat
           /\ Snapshot(p, n) + Taken[MaxStep] <= MaxCount
<1>1. /\ baseline[p] \in Count \cup {NoCount} /\ First[p] \in Step
      /\ MaxStep \in Nat /\ MaxCount \in Nat
    BY OpenCodeAssumption
<1>2. n \in 0..MaxStep /\ First[p] - 1 \in 0..MaxStep /\ First[p] - 1 <= n /\ n <= MaxStep
      /\ MaxStep \in 0..MaxStep
    BY <1>1 DEF Step
<1>3. /\ Taken[n] \in Nat /\ Taken[First[p] - 1] \in Nat /\ Taken[MaxStep] \in Nat
      /\ Taken[First[p] - 1] <= Taken[n] /\ Taken[n] <= Taken[MaxStep]
    BY <1>2, OpenCodeAssumption
<1>4. Known(p) \in Nat /\ Known(p) + 2 * Taken[MaxStep] <= MaxCount
    <2>1. CASE baseline[p] = NoCount
        BY <1>1, <1>3, <2>1, CountersHaveRoom DEF Known
    <2>2. CASE baseline[p] # NoCount
        BY <1>1, <1>3, <2>2, CountersHaveRoom DEF Known, Count
    <2>3. QED
        BY <2>1, <2>2
<1>5. QED
    BY <1>1, <1>3, <1>4 DEF Snapshot

LEMMA UsageFits ==
    ASSUME NEW n \in Step
    PROVE  Usage(n) \in Nat /\ Usage(n) <= Taken[MaxStep] /\ Taken[MaxStep] \in Nat
<1>1. MaxStep \in Nat /\ n \in 0..MaxStep /\ n - 1 \in 0..MaxStep /\ MaxStep \in 0..MaxStep
      /\ n - 1 <= n /\ n <= MaxStep
    BY OpenCodeAssumption DEF Step
<1>2. /\ Taken[n] \in Nat /\ Taken[n - 1] \in Nat /\ Taken[MaxStep] \in Nat
      /\ Taken[n - 1] <= Taken[n] /\ Taken[n] <= Taken[MaxStep]
    BY <1>1, OpenCodeAssumption
<1>3. QED
    BY <1>2 DEF Usage

(* From one step to the next of the same instance, the totals grow by what *)
(* the step took.                                                          *)
LEMMA SnapshotGrows ==
    ASSUME baseline \in Baselines, NEW p \in Plugin, NEW n \in Step, NEW m \in Step,
           First[p] <= n, m = n + 1
    PROVE  Snapshot(p, m) = Snapshot(p, n) + Usage(m)
<1>1. /\ baseline[p] \in Count \cup {NoCount} /\ First[p] \in Step
      /\ MaxStep \in Nat /\ MaxCount \in Nat
    BY OpenCodeAssumption
<1>2. n \in 0..MaxStep /\ m \in 0..MaxStep /\ First[p] - 1 \in 0..MaxStep /\ m - 1 = n
    BY <1>1 DEF Step
<1>3. Taken[n] \in Nat /\ Taken[m] \in Nat /\ Taken[First[p] - 1] \in Nat /\ Taken[m - 1] = Taken[n]
    BY <1>2, OpenCodeAssumption
<1>4. Known(p) \in Nat
    BY <1>1 DEF Known, Count, NoCount
<1>5. QED
    BY <1>3, <1>4 DEF Snapshot, Usage

-----------------------------------------------------------------------------
(* The object. *)
LEMMA UnbornIs ==
    ASSUME NEW c \in SUBSET Step
    PROVE  ObjectIs(Unborn, <<>>, c)
<1>1. <<>> \in Seq(Report) /\ <<>> \in Seq(Step) /\ Len(<<>>) = 0
    BY EmptySeq
<1>2. Unborn \in Object /\ Unborn.totals = NoCount /\ Unborn.seen = <<>>
    BY <1>1 DEF Unborn, Object
<1>3. ObjectTypes(Unborn, <<>>, c) /\ RoomOK(Unborn)
    BY <1>1, <1>2, Constants DEF ObjectTypes, RoomOK
<1>4. WindowOK(Unborn, <<>>, c) /\ LastOK(Unborn, <<>>)
    BY <1>1, <1>2, Constants DEF WindowOK, LastOK
<1>5. Once(<<>>) /\ InOrder(<<>>)
    BY <1>1 DEF Once, InOrder
<1>6. QED
    BY <1>3, <1>4, <1>5 DEF ObjectIs

LEMMA WithBaselineIs ==
    ASSUME baseline \in Baselines, NEW p \in Plugin, NEW s, NEW rs, NEW c, ObjectIs(s, rs, c)
    PROVE  ObjectIs(WithBaseline(s, p), rs, c) /\ WithBaseline(s, p).on
<1>. DEFINE o == WithBaseline(s, p)
<1>1. s \in Object /\ rs \in Seq(Report)
    BY DEF ObjectIs, ObjectTypes
<1>2. baseline[p] \in Count \cup {NoCount}
    BY OpenCodeAssumption
<1>3. /\ o \in Object /\ o.on = TRUE /\ o.seen = s.seen
      /\ o.epoch = s.epoch /\ o.revision = s.revision
      /\ o.totals = IF s.totals = NoCount /\ s.revision = 0 THEN baseline[p] ELSE s.totals
    BY <1>1, <1>2 DEF WithBaseline, Object
<1>4. Len(rs) # 0 => s.totals # NoCount
    <2>. SUFFICES ASSUME Len(rs) # 0 PROVE s.totals # NoCount
        OBVIOUS
    <2>1. Len(rs) \in 1..Len(rs)
        BY <1>1, LenProperties
    <2>2. rs[Len(rs)] \in Report
        BY <1>1, <2>1, ElementOfSeq
    <2>3. s.totals \in Count
        BY <2>2 DEF ObjectIs, LastOK, Report
    <2>4. QED
        BY <2>3, Constants DEF Count, NoCount
<1>5. RoomOK(o)
    <2>1. /\ baseline[p] # NoCount => baseline[p] + 2 * Taken[MaxStep] <= MaxCount
          /\ Taken[MaxStep] \in Nat /\ baseline[p] \in Nat
        BY <1>2, Constants, OpenCodeAssumption, CountersHaveRoom DEF Count, NoCount
    <2>2. baseline[p] # NoCount => baseline[p] + Taken[MaxStep] <= MaxCount
        BY <2>1, Constants
    <2>. HIDE DEF o
    <2>3. QED
        BY <1>3, <2>2 DEF ObjectIs, RoomOK
<1>. HIDE DEF o
<1>6. ObjectTypes(o, rs, c)
    BY <1>3 DEF ObjectIs, ObjectTypes
<1>7. WindowOK(o, rs, c) /\ LastOK(o, rs)
    BY <1>3, <1>4 DEF ObjectIs, WindowOK, LastOK
<1>8. ObjectIs(o, rs, c) /\ o.on
    BY <1>3, <1>5, <1>6, <1>7 DEF ObjectIs
<1>9. QED
    BY <1>8 DEF o

(* Publishing alone disturbs nothing. *)
LEMMA PublishedIs ==
    ASSUME NEW s, NEW rs, NEW c, ObjectIs(s, rs, c)
    PROVE  ObjectIs([s EXCEPT !.on = TRUE], rs, c)
<1>. DEFINE o == [s EXCEPT !.on = TRUE]
<1>1. s \in Object
    BY DEF ObjectIs, ObjectTypes
<1>2. /\ o \in Object /\ o.on = TRUE /\ o.seen = s.seen /\ o.totals = s.totals
      /\ o.epoch = s.epoch /\ o.revision = s.revision
    BY <1>1 DEF Object
<1>. HIDE DEF o
<1>3. ObjectTypes(o, rs, c) /\ RoomOK(o)
    BY <1>2 DEF ObjectIs, ObjectTypes, RoomOK
<1>4. WindowOK(o, rs, c) /\ LastOK(o, rs)
    BY <1>2 DEF ObjectIs, WindowOK, LastOK
<1>5. ObjectIs(o, rs, c)
    BY <1>3, <1>4 DEF ObjectIs
<1>6. QED
    BY <1>5 DEF o

(* The window stays the tail of the reports. *)
LEMMA WindowSlides ==
    ASSUME NEW q \in Seq(Step), Len(q) <= MaxSeen, NEW n \in Step
    PROVE  LET w == Window(Append(q, n))
           IN  /\ w \in Seq(Step)
               /\ Len(q) < MaxSeen =>
                      /\ Len(w) = Len(q) + 1
                      /\ \A j \in 1..Len(q) : w[j] = q[j]
                      /\ w[Len(q) + 1] = n
               /\ Len(q) = MaxSeen =>
                      /\ Len(w) = Len(q)
                      /\ \A j \in 1..(Len(q) - 1) : w[j] = q[j + 1]
                      /\ w[Len(q)] = n
<1>. DEFINE a == Append(q, n)
<1>1. Len(q) \in Nat /\ MaxSeen \in Nat \ {0}
    BY LenProperties, Constants
<1>2. /\ a \in Seq(Step) /\ Len(a) = Len(q) + 1
      /\ \A j \in 1..Len(q) : a[j] = q[j]
      /\ a[Len(q) + 1] = n
    BY AppendProperties
<1>. HIDE DEF a
<1>3. CASE Len(q) < MaxSeen
    <2>1. Window(a) = a
        BY <1>1, <1>2, <1>3 DEF Window
    <2>2. QED
        BY <1>1, <1>2, <1>3, <2>1 DEF a
<1>4. CASE Len(q) = MaxSeen
    <2>1. Window(a) = SubSeq(a, 2, Len(a))
        BY <1>1, <1>2, <1>4 DEF Window
    <2>2. \A j \in 2..Len(a) : a[j] \in Step
        BY <1>1, <1>2, ElementOfSeq
    <2>3. /\ SubSeq(a, 2, Len(a)) \in Seq(Step)
          /\ Len(SubSeq(a, 2, Len(a))) = Len(a) - 1
          /\ \A j \in 1..(Len(a) - 1) : SubSeq(a, 2, Len(a))[j] = a[j + 1]
        <3>1. 2 \in Int /\ Len(a) \in Int /\ 2 <= Len(a)
            BY <1>1, <1>2, <1>4
        <3>2. /\ SubSeq(a, 2, Len(a)) \in Seq(Step)
              /\ Len(SubSeq(a, 2, Len(a))) = Len(a) - 2 + 1
              /\ \A j \in 1..(Len(a) - 2 + 1) : SubSeq(a, 2, Len(a))[j] = a[2 + j - 1]
            BY <2>2, <3>1, SubSeqProperties
        <3>3. Len(a) - 2 + 1 = Len(a) - 1 /\ \A j \in 1..(Len(a) - 1) : 2 + j - 1 = j + 1
            BY <3>1
        <3>4. QED
            BY <3>2, <3>3
    <2>4. \A j \in 1..(Len(q) - 1) : j + 1 \in 1..Len(q) /\ j \in 1..(Len(a) - 1)
        BY <1>1, <1>2
    <2>5. Len(q) \in 1..(Len(a) - 1)
        BY <1>1, <1>2, <1>4
    <2>6. QED
        BY <1>1, <1>2, <1>4, <2>1, <2>3, <2>4, <2>5 DEF a
<1>5. QED
    BY <1>1, <1>3, <1>4

(* A step that is counted. *)
ReportOf(o, p, m) ==
    [from |-> p, step |-> m, epoch |-> o.epoch, revision |-> o.revision, totals |-> o.totals]

LEMMA CountedTypes ==
    ASSUME baseline \in Baselines, NEW p \in Plugin, NEW m \in Step, First[p] <= m,
           NEW o \in Object, Len(o.seen) <= MaxSeen, RoomOK(o)
    PROVE  LET c == Counted(o, p, m)
           IN  /\ c \in Object /\ ReportOf(c, p, m) \in Report
               /\ c.on = o.on /\ c.seen = Window(Append(o.seen, m))
               /\ c.revision = o.revision + 1 /\ c.totals = Snapshot(p, m)
               /\ c.epoch = IF Snapshot(p, m) < Total(o) THEN o.epoch + 1 ELSE o.epoch
               /\ RoomOK(c)
<1>. DEFINE c == Counted(o, p, m)
<1>1. Snapshot(p, m) \in Nat /\ Snapshot(p, m) + Taken[MaxStep] <= MaxCount
    BY SnapshotFits
<1>2. Snapshot(p, m) \in Count
    <2>1. Taken[MaxStep] \in Nat
        BY UsageFits
    <2>2. QED
        BY <1>1, <2>1, Constants DEF Count
<1>3. o.epoch \in Nat /\ o.revision \in Nat /\ o.seen \in Seq(Step) /\ o.on \in BOOLEAN
    BY DEF Object
<1>4. Window(Append(o.seen, m)) \in Seq(Step)
    BY <1>3, WindowSlides
<1>5. /\ c.on = o.on /\ c.seen = Window(Append(o.seen, m))
      /\ c.revision = o.revision + 1 /\ c.totals = Snapshot(p, m)
      /\ c.epoch = IF Snapshot(p, m) < Total(o) THEN o.epoch + 1 ELSE o.epoch
    BY DEF Counted, Object
<1>6. c.epoch \in Nat /\ c.revision \in Nat
    <2>. HIDE DEF c
    <2>. QED
        BY <1>3, <1>5
<1>7. c \in Object
    BY <1>2, <1>3, <1>4, <1>5, <1>6 DEF Counted, Object
<1>. HIDE DEF c
<1>8. ReportOf(c, p, m) \in Report
    BY <1>2, <1>5, <1>6 DEF ReportOf, Report
<1>9. RoomOK(c)
    BY <1>1, <1>5 DEF RoomOK
<1>10. QED
    BY <1>5, <1>7, <1>8, <1>9 DEF c

LEMMA CountedWindow ==
    ASSUME NEW o, NEW rs, NEW c, ObjectTypes(o, rs, c), WindowOK(o, rs, c), o.on,
           NEW d, NEW m \in Step, NEW r \in Report, r.step = m,
           d.on, d.seen = Window(Append(o.seen, m))
    PROVE  WindowOK(d, Append(rs, r), c \cup {m})
<1>. DEFINE q == o.seen
            as == Append(rs, r)
<1>1. /\ q \in Seq(Step) /\ rs \in Seq(Report) /\ Len(q) \in Nat /\ Len(rs) \in Nat
      /\ MaxSeen \in Nat \ {0} /\ Len(q) <= MaxSeen
    BY LenProperties, Constants DEF ObjectTypes, Object
<1>0. d.seen = Window(Append(q, m))
    OBVIOUS
<1>4. /\ Len(q) = IF Len(rs) <= MaxSeen THEN Len(rs) ELSE MaxSeen
      /\ \A j \in 1..Len(q) : q[j] = rs[Len(rs) - Len(q) + j].step
      /\ \A i \in 1..Len(rs) : rs[i].step \in c
    BY DEF WindowOK
<1>. HIDE DEF q
<1>. DEFINE w == Window(Append(q, m))
<1>2. /\ Len(as) = Len(rs) + 1
      /\ \A i \in 1..Len(rs) : as[i] = rs[i]
      /\ as[Len(rs) + 1] = r
    BY <1>1, AppendProperties
<1>3. /\ Len(q) < MaxSeen =>
             /\ Len(w) = Len(q) + 1
             /\ \A j \in 1..Len(q) : w[j] = q[j]
             /\ w[Len(q) + 1] = m
      /\ Len(q) = MaxSeen =>
             /\ Len(w) = Len(q)
             /\ \A j \in 1..(Len(q) - 1) : w[j] = q[j + 1]
             /\ w[Len(q)] = m
    BY <1>1, WindowSlides
<1>. HIDE DEF w, as
<1>. DEFINE x == Len(q)
            y == Len(rs)
            z == Len(as)
            v == Len(w)
<1>5. /\ x \in Nat /\ y \in Nat /\ z \in Nat /\ v \in Nat
      /\ z = y + 1 /\ x <= MaxSeen /\ MaxSeen \in Nat \ {0}
      /\ x = IF y <= MaxSeen THEN y ELSE MaxSeen
      /\ v = IF z <= MaxSeen THEN z ELSE MaxSeen
      /\ x < MaxSeen => v = x + 1
      /\ x = MaxSeen => v = x
    BY <1>1, <1>2, <1>3, <1>4
<1>6. \A j \in 1..Len(w) : w[j] = as[Len(as) - Len(w) + j].step
    <2>. SUFFICES ASSUME NEW j \in 1..v
                  PROVE  w[j] = as[z - v + j].step
        OBVIOUS
    <2>0. /\ \A i \in 1..y : as[i] = rs[i]
          /\ as[y + 1] = r /\ r.step = m
          /\ \A i \in 1..x : q[i] = rs[y - x + i].step
          /\ x < MaxSeen => (\A i \in 1..x : w[i] = q[i]) /\ w[x + 1] = m
          /\ x = MaxSeen => (\A i \in 1..(x - 1) : w[i] = q[i + 1]) /\ w[x] = m
        BY <1>2, <1>3, <1>4
    <2>. HIDE DEF x, y, z, v
    <2>1. CASE x < MaxSeen /\ j \in 1..x
        <3>1. y = x /\ z - v + j = j /\ y - x + j = j /\ j \in 1..y
            BY <1>5, <2>1
        <3>2. w[j] = q[j] /\ as[j] = rs[j]
            BY <2>0, <2>1, <3>1
        <3>3. q[j] = rs[j].step
            BY <2>0, <2>1, <3>1
        <3>4. QED
            BY <3>1, <3>2, <3>3
    <2>2. CASE x < MaxSeen /\ j = x + 1
        <3>1. z - v + j = y + 1
            BY <1>5, <2>2
        <3>2. QED
            BY <2>0, <2>2, <3>1
    <2>3. CASE x = MaxSeen /\ j \in 1..(x - 1)
        <3>1. /\ z - v + j = y - x + (j + 1) /\ y - x + (j + 1) \in 1..y
              /\ j + 1 \in 1..x
            BY <1>5, <2>3
        <3>2. w[j] = q[j + 1] /\ q[j + 1] = rs[y - x + (j + 1)].step
            BY <2>0, <2>3, <3>1
        <3>3. rs[y - x + (j + 1)] = as[y - x + (j + 1)]
            BY <2>0, <3>1
        <3>4. QED
            BY <3>1, <3>2, <3>3
    <2>4. CASE x = MaxSeen /\ j = x
        <3>1. z - v + j = y + 1
            BY <1>5, <2>4
        <3>2. QED
            BY <2>0, <2>4, <3>1
    <2>5. x \in Nat /\ v \in Nat /\ j \in Int /\ 1 <= j /\ j <= v
        BY <1>5
    <2>6. \/ x < MaxSeen /\ j \in 1..x
          \/ x < MaxSeen /\ j = x + 1
          \/ x = MaxSeen /\ j \in 1..(x - 1)
          \/ x = MaxSeen /\ j = x
        BY <1>5, <2>5
    <2>7. QED
        BY <2>1, <2>2, <2>3, <2>4, <2>6
<1>7. \A i \in 1..Len(as) : as[i].step \in c \cup {m}
    <2>. SUFFICES ASSUME NEW i \in 1..Len(as) PROVE as[i].step \in c \cup {m}
        OBVIOUS
    <2>0. i \in 1..Len(rs) \/ i = Len(rs) + 1
        BY <1>1, <1>2
    <2>1. CASE i \in 1..Len(rs)
        BY <1>2, <1>4, <2>1
    <2>2. CASE i = Len(rs) + 1
        BY <1>2, <2>2
    <2>3. QED
        BY <2>0, <2>1, <2>2
<1>8. d.seen = w
    BY <1>0 DEF w
<1>9. WindowOK(d, as, c \cup {m})
    BY <1>5, <1>6, <1>7, <1>8 DEF WindowOK
<1>10. QED
    BY <1>9 DEF as

(* A step that is not in the window is in no report the window reaches.    *)
LEMMA CountedIsNew ==
    ASSUME NEW o, NEW rs, NEW c, ObjectTypes(o, rs, c), WindowOK(o, rs, c), Once(rs),
           NEW m \in Step, \A j \in 1..Len(o.seen) : o.seen[j] # m,
           NEW r \in Report, r.step = m
    PROVE  Once(Append(rs, r))
<1>. DEFINE as == Append(rs, r)
            q == o.seen
<1>1. /\ q \in Seq(Step) /\ rs \in Seq(Report) /\ Len(q) \in Nat /\ Len(rs) \in Nat
      /\ MaxSeen \in Nat \ {0}
    BY LenProperties, Constants DEF ObjectTypes, Object
<1>2. /\ Len(as) = Len(rs) + 1
      /\ \A i \in 1..Len(rs) : as[i] = rs[i]
      /\ as[Len(rs) + 1] = r
    BY <1>1, AppendProperties
<1>3. /\ Len(q) = IF Len(rs) <= MaxSeen THEN Len(rs) ELSE MaxSeen
      /\ \A j \in 1..Len(q) : q[j] = rs[Len(rs) - Len(q) + j].step
    BY DEF WindowOK
<1>4. \A j \in 1..Len(q) : q[j] # m
    OBVIOUS
<1>. HIDE DEF as, q
<1>5. ASSUME NEW i \in 1..Len(rs), rs[i].step = m
      PROVE  Len(rs) + 1 - i > MaxSeen
    <2>1. CASE i <= Len(rs) - Len(q)
        BY <1>1, <1>3, <2>1
    <2>2. CASE i > Len(rs) - Len(q)
        <3>. DEFINE j == i - (Len(rs) - Len(q))
        <3>1. j \in 1..Len(q) /\ Len(rs) - Len(q) + j = i
            BY <1>1, <2>2
        <3>. HIDE DEF j
        <3>2. q[j] = rs[Len(rs) - Len(q) + j].step
            BY <1>3, <3>1
        <3>3. QED
            BY <1>4, <1>5, <3>1, <3>2
    <2>3. QED
        BY <1>1, <2>1, <2>2
<1>6. ASSUME NEW i \in 1..Len(as), NEW j \in 1..Len(as), i < j, as[i].step = as[j].step
      PROVE  j - i > MaxSeen
    <2>1. i \in 1..Len(rs)
        BY <1>1, <1>2, <1>6
    <2>2. CASE j \in 1..Len(rs)
        BY <1>2, <1>6, <2>1, <2>2 DEF Once
    <2>3. CASE j = Len(rs) + 1
        <3>1. rs[i].step = m
            BY <1>2, <1>6, <2>1, <2>3
        <3>2. QED
            BY <1>5, <2>1, <2>3, <3>1
    <2>4. QED
        BY <1>1, <1>2, <2>2, <2>3
<1>7. Once(as)
    BY <1>6 DEF Once
<1>8. QED
    BY <1>7 DEF as

LEMMA CountedInOrder ==
    ASSUME baseline \in Baselines, NEW p \in Plugin, NEW m \in Step, First[p] <= m,
           NEW o, NEW rs, NEW c, ObjectTypes(o, rs, c), RoomOK(o), LastOK(o, rs), InOrder(rs)
    PROVE  LET d == Counted(o, p, m)
               as == Append(rs, ReportOf(d, p, m))
           IN  LastOK(d, as) /\ InOrder(as)
<1>. DEFINE d == Counted(o, p, m)
            r == ReportOf(d, p, m)
            as == Append(rs, r)
<1>1. /\ d \in Object /\ r \in Report
      /\ d.revision = o.revision + 1 /\ d.totals = Snapshot(p, m)
      /\ d.epoch = IF Snapshot(p, m) < Total(o) THEN o.epoch + 1 ELSE o.epoch
    BY CountedTypes DEF ObjectTypes
<1>. HIDE DEF d
<1>2. /\ r.from = p /\ r.step = m /\ r.epoch = d.epoch
      /\ r.revision = d.revision /\ r.totals = d.totals
    BY DEF ReportOf
<1>. HIDE DEF r
<1>3. o \in Object /\ rs \in Seq(Report) /\ Len(rs) \in Nat
    BY LenProperties DEF ObjectTypes
<1>4. /\ Len(as) = Len(rs) + 1
      /\ \A i \in 1..Len(rs) : as[i] = rs[i]
      /\ as[Len(rs) + 1] = r
    BY <1>1, <1>3, AppendProperties
<1>. HIDE DEF as
<1>5. LastOK(d, as)
    <2>. DEFINE Right(x) == x.totals = Snapshot(x.from, x.step) /\ First[x.from] <= x.step
    <2>1. \A i \in 1..Len(rs) : Right(as[i])
        BY <1>4 DEF LastOK
    <2>2. Right(as[Len(rs) + 1])
        BY <1>1, <1>2, <1>4
    <2>3. \A i \in 1..Len(as) : i \in 1..Len(rs) \/ i = Len(rs) + 1
        BY <1>3, <1>4
    <2>4. \A i \in 1..Len(as) : Right(as[i])
        BY <2>1, <2>2, <2>3
    <2>5. QED
        BY <1>2, <1>4, <2>4 DEF LastOK
<1>6. ASSUME Len(rs) # 0
      PROVE  Follows(rs[Len(rs)], r)
    <2>. DEFINE l == rs[Len(rs)]
    <2>1. Len(rs) \in 1..Len(rs)
        BY <1>3, <1>6
    <2>2. l \in Report /\ First[l.from] <= l.step
        BY <1>3, <2>1, ElementOfSeq DEF LastOK
    <2>3. /\ o.totals = l.totals /\ o.epoch = l.epoch /\ o.revision = l.revision
          /\ l.totals = Snapshot(l.from, l.step)
        BY <1>6, <2>1 DEF LastOK
    <2>. HIDE DEF l
    <2>4. /\ l.totals \in Nat /\ l.totals # NoCount /\ l.epoch \in Nat /\ l.revision \in Nat
          /\ l.from \in Plugin /\ l.step \in Step
        BY <2>2, Constants DEF Report, Count, NoCount
    <2>5. Total(o) = l.totals
        BY <2>3, <2>4 DEF Total
    <2>6. Snapshot(p, m) \in Nat
        BY SnapshotFits
    <2>7. ASSUME p = l.from, m = l.step + 1
          PROVE  Snapshot(p, m) = l.totals + Usage(m)
        BY <2>2, <2>3, <2>4, <2>7, SnapshotGrows
    <2>8. Usage(m) \in Nat
        BY UsageFits
    <2>9. /\ r.revision = l.revision + 1 /\ r.totals = Snapshot(p, m)
          /\ r.epoch = IF Snapshot(p, m) < l.totals THEN l.epoch + 1 ELSE l.epoch
        BY <1>1, <1>2, <2>3, <2>5
    <2>10. r.epoch >= l.epoch /\ (r.epoch = l.epoch => r.totals >= l.totals)
        BY <2>4, <2>6, <2>9
    <2>11. ASSUME r.from = l.from, r.step = l.step + 1
           PROVE  r.epoch = l.epoch /\ r.totals = l.totals + Usage(r.step)
        <3>1. Snapshot(p, m) = l.totals + Usage(m)
            BY <1>2, <2>7, <2>11
        <3>2. QED
            BY <1>2, <2>4, <2>6, <2>8, <2>9, <3>1
    <2>12. Follows(l, r)
        BY <2>9, <2>10, <2>11 DEF Follows
    <2>13. QED
        BY <2>12 DEF l
<1>7. InOrder(as)
    <2>. SUFFICES ASSUME NEW i \in 1..(Len(as) - 1) PROVE Follows(as[i], as[i + 1])
        BY DEF InOrder
    <2>0. i \in 1..(Len(rs) - 1) \/ i = Len(rs)
        BY <1>3, <1>4
    <2>1. CASE i \in 1..(Len(rs) - 1)
        <3>1. i \in 1..Len(rs) /\ i + 1 \in 1..Len(rs)
            BY <1>3, <2>1
        <3>2. QED
            BY <1>4, <2>1, <3>1 DEF InOrder
    <2>2. CASE i = Len(rs)
        <3>1. Len(rs) # 0 /\ i \in 1..Len(rs)
            BY <1>3, <1>4, <2>2
        <3>2. QED
            BY <1>4, <1>6, <2>2, <3>1
    <2>3. QED
        BY <2>0, <2>1, <2>2
<1>8. QED
    BY <1>5, <1>7 DEF as, r, d

LEMMA CountedIs ==
    ASSUME baseline \in Baselines, NEW p \in Plugin, NEW m \in Step, First[p] <= m,
           NEW o, NEW rs, NEW c, ObjectIs(o, rs, c), o.on, Counts(o, m)
    PROVE  ObjectIs(Counted(o, p, m), Append(rs, ReportOf(Counted(o, p, m), p, m)), c \cup {m})
<1>. DEFINE d == Counted(o, p, m)
            r == ReportOf(d, p, m)
<1>1. ObjectTypes(o, rs, c) /\ RoomOK(o) /\ WindowOK(o, rs, c) /\ LastOK(o, rs) /\ Once(rs) /\ InOrder(rs)
    BY DEF ObjectIs
<1>2. o \in Object /\ Len(o.seen) <= MaxSeen /\ rs \in Seq(Report) /\ c \in SUBSET Step
    BY <1>1 DEF ObjectTypes
<1>3. /\ d \in Object /\ r \in Report /\ d.on = o.on /\ d.seen = Window(Append(o.seen, m))
      /\ RoomOK(d)
    BY <1>1, <1>2, CountedTypes
<1>4. LastOK(d, Append(rs, r)) /\ InOrder(Append(rs, r))
    BY <1>1, CountedInOrder
<1>5. r.step = m
    BY DEF ReportOf
<1>. HIDE DEF r, d
<1>6. WindowOK(d, Append(rs, r), c \cup {m})
    BY <1>1, <1>3, <1>5, CountedWindow
<1>7. \A j \in 1..Len(o.seen) : o.seen[j] # m
    BY DEF Counts
<1>8. Once(Append(rs, r))
    BY <1>1, <1>3, <1>5, <1>7, CountedIsNew
<1>9. Append(rs, r) \in Seq(Report) /\ c \cup {m} \subseteq Step
    BY <1>2, <1>3, AppendProperties
<1>10. Len(d.seen) <= MaxSeen
    BY <1>6, <1>9, LenProperties, Constants DEF WindowOK
<1>11. ObjectTypes(d, Append(rs, r), c \cup {m})
    BY <1>3, <1>9, <1>10 DEF ObjectTypes
<1>12. ObjectIs(d, Append(rs, r), c \cup {m})
    BY <1>3, <1>4, <1>6, <1>8, <1>11 DEF ObjectIs
<1>13. QED
    BY <1>12 DEF r, d

(* The baselines never change. *)
LEMMA PrimedObject ==
    ASSUME UNCHANGED baseline, ObjectIs(session', reports', counted')
    PROVE  ObjectOK'
BY DEF ObjectOK, ObjectIs, ObjectTypes, RoomOK, WindowOK, LastOK, Once, InOrder, Follows,
       Snapshot, Known

LEMMA SameObject ==
    ASSUME ObjectOK, UNCHANGED <<baseline, objectVars>>
    PROVE  ObjectOK'
<1>1. ObjectIs(session', reports', counted')
    BY DEF ObjectOK, objectVars
<1>2. QED
    BY <1>1, PrimedObject

LEMMA ObjectReset ==
    ASSUME ObjectOK, session' = Unborn, reports' = <<>>, UNCHANGED <<baseline, counted>>
    PROVE  ObjectOK'
<1>1. counted \in SUBSET Step
    BY DEF ObjectOK, ObjectIs, ObjectTypes
<1>2. QED
    BY <1>1, UnbornIs, PrimedObject

(* An object that is not published has no reports yet. *)
LEMMA OldReports ==
    ASSUME ObjectOK
    PROVE  (IF session.on THEN reports ELSE <<>>) = reports
<1>1. reports \in Seq(Report) /\ (~session.on => Len(reports) = 0)
    BY DEF ObjectOK, ObjectIs, ObjectTypes, WindowOK
<1>2. Len(reports) = 0 => reports = <<>>
    BY <1>1, EmptySeq
<1>3. QED
    BY <1>1, <1>2

(* Every step in the window has been counted, and no addition overflows. *)
LEMMA NotCountedIsCounted ==
    ASSUME ObjectOK, baseline \in Baselines, NEW p \in Plugin, NEW m \in Step,
           ~Counts(WithBaseline(session, p), m)
    PROVE  m \in counted
<1>. DEFINE o == WithBaseline(session, p)
<1>1. ObjectIs(o, reports, counted)
    BY WithBaselineIs DEF ObjectOK
<1>. HIDE DEF o
<1>2. o \in Object /\ reports \in Seq(Report)
    BY <1>1 DEF ObjectIs, ObjectTypes
<1>3. /\ Len(o.seen) = IF Len(reports) <= MaxSeen THEN Len(reports) ELSE MaxSeen
      /\ \A j \in 1..Len(o.seen) : o.seen[j] = reports[Len(reports) - Len(o.seen) + j].step
      /\ \A i \in 1..Len(reports) : reports[i].step \in counted
    BY <1>1 DEF ObjectIs, WindowOK
<1>4. Total(o) + Usage(m) <= MaxCount
    <2>1. Usage(m) \in Nat /\ Usage(m) <= Taken[MaxStep] /\ Taken[MaxStep] \in Nat
        BY UsageFits
    <2>2. o.totals # NoCount => o.totals \in Nat /\ o.totals + Taken[MaxStep] <= MaxCount
        BY <1>1, <1>2, Constants DEF ObjectIs, RoomOK, Object, Count, NoCount
    <2>3. Taken[MaxStep] <= MaxCount
        BY <2>1, CountersHaveRoom, Constants
    <2>4. CASE o.totals = NoCount
        BY <2>1, <2>3, <2>4, Constants DEF Total
    <2>5. CASE o.totals # NoCount
        BY <2>1, <2>2, <2>5, Constants DEF Total
    <2>6. QED
        BY <2>4, <2>5
<1>5. PICK j \in 1..Len(o.seen) : o.seen[j] = m
    BY <1>4 DEF Counts, o
<1>6. Len(reports) \in Nat /\ Len(o.seen) \in Nat /\ Len(o.seen) <= Len(reports)
    BY <1>2, <1>3, LenProperties, Constants
<1>7. Len(reports) - Len(o.seen) + j \in 1..Len(reports)
    BY <1>6
<1>8. QED
    BY <1>3, <1>5, <1>7

-----------------------------------------------------------------------------
(* The chains. *)
LEMMA StillChain ==
    ASSUME ChainOK, UNCHANGED <<chainVars, at, steps, counted, closed>>,
           over => over', ~closed => entries'[Followed] = Never
    PROVE  ChainOK'
BY DEF ChainOK, Begun, Waiting, UnderWay, chainVars, End, Message, NoMessage

LEMMA FinishChain ==
    ASSUME FlowTypes, ChainOK, NEW p \in Plugin, NEW m \in Message, at[p][m] \in UnderWay,
           Finish(p, m), UNCHANGED <<next, hasty, over, steps>>,
           counted \subseteq counted', closed => closed', closed' \in BOOLEAN,
           ~closed' => entries'[Followed] = Never,
           ~closed' /\ p \notin hasty /\ m \in Step => m \in counted'
    PROVE  ChainOK'
<1>1. /\ \A q \in Plugin, n \in Message :
             at'[q][n] = IF q = p /\ n = m THEN "done" ELSE at[q][n]
      /\ \A q \in Plugin : waits'[q] = IF q = p /\ waits[q] = m THEN NoMessage ELSE waits[q]
    BY DEF Finish, FlowTypes
<1>2. at[p][m] # "none" /\ "done" \notin UnderWay
    BY DEF UnderWay
<1>3. ASSUME NEW q \in Plugin PROVE Begun(q)'
    BY <1>1, <1>2, Constants DEF ChainOK, Begun, Step, Context
<1>4. ASSUME ~closed', NEW q \in Plugin, q \notin hasty PROVE Waiting(q)'
    <2>1. Waiting(q)
        BY <1>4 DEF ChainOK, FlowTypes
    <2>2. \A n \in Message : at'[q][n] \in UnderWay => waits'[q] = n
        BY <1>1, <1>2, <2>1 DEF Waiting
    <2>3. \A n \in Step : at'[q][n] # "none" => n \in counted' \/ at'[q][n] \in {"check", "apply"}
        BY <1>1, <1>4, <2>1, Constants DEF Waiting
    <2>4. \A n \in Message : at[q][n] # "none" => at'[q][n] # "none"
        BY <1>1
    <2>5. at'[q][End] # "none" => at[q][End] # "none"
        BY <1>1, <1>2, Constants
    <2>6. QED
        BY <2>1, <2>2, <2>3, <2>4, <2>5, Constants
           DEF Waiting, Step, Message, End, Context, NoMessage, UnderWay
<1>5. QED
    BY <1>3, <1>4 DEF ChainOK

LEMMA MoveChain ==
    ASSUME FlowTypes, ChainOK, NEW p \in Plugin, NEW m \in Message, at[p][m] \in UnderWay,
           NEW l \in {"apply", "emit"}, at' = [at EXCEPT ![p][m] = l],
           UNCHANGED <<chainVars, over, steps, closed>>,
           counted \subseteq counted',
           ~closed => entries'[Followed] = Never,
           l = "emit" /\ m \in Step => m \in counted'
    PROVE  ChainOK'
<1>1. \A q \in Plugin, n \in Message :
          at'[q][n] = IF q = p /\ n = m THEN l ELSE at[q][n]
    BY DEF FlowTypes
<1>2. at[p][m] # "none" /\ l \in UnderWay /\ l # "none"
    BY DEF UnderWay
<1>3. ASSUME NEW q \in Plugin PROVE Begun(q)'
    BY <1>1, <1>2, Constants DEF ChainOK, Begun, Step, Context, chainVars
<1>4. ASSUME ~closed, NEW q \in Plugin, q \notin hasty PROVE Waiting(q)'
    <2>1. Waiting(q)
        BY <1>4 DEF ChainOK
    <2>2. \A n \in Message : at'[q][n] \in UnderWay => waits'[q] = n
        BY <1>1, <1>2, <2>1 DEF Waiting, chainVars
    <2>3. \A n \in Step : at'[q][n] # "none" => n \in counted' \/ at'[q][n] \in {"check", "apply"}
        BY <1>1, <1>4, <2>1, Constants DEF Waiting
    <2>4. \A n \in Message : at[q][n] # "none" => at'[q][n] # "none"
        BY <1>1, <1>2
    <2>5. at'[q][End] # "none" => at[q][End] # "none"
        BY <1>1, <1>2, Constants
    <2>6. QED
        BY <2>1, <2>2, <2>3, <2>4, <2>5, Constants
           DEF Waiting, Step, Message, End, Context, NoMessage, UnderWay, chainVars
<1>5. QED
    BY <1>3, <1>4 DEF ChainOK, chainVars

-----------------------------------------------------------------------------
(* Each action keeps the invariant. *)
LEMMA Parts ==
    ASSUME IInv
    PROVE  /\ SetOK /\ FlowTypes /\ ObjectOK /\ ChainOK
           /\ baseline \in Baselines /\ counted \in SUBSET Step
BY DEF IInv, FlowTypes, ObjectOK, ObjectIs, ObjectTypes

LEMMA InitHolds == Init => IInv
<1>. SUFFICES ASSUME Init PROVE IInv
    OBVIOUS
<1>1. SetOK
    BY InitSetOK DEF Init
<1>2. FlowTypes
    <2>1. /\ baseline \in Baselines /\ steps = 0 /\ over = FALSE /\ restarts = 0
          /\ hasty = {} /\ closed = FALSE
          /\ next = [p \in Plugin |-> Context] /\ waits = [p \in Plugin |-> NoMessage]
          /\ at = [p \in Plugin |-> [m \in Message |-> "none"]]
        BY DEF Init
    <2>2. 0 \in 0..MaxStep /\ 0 \in 0..MaxRestart
        BY OpenCodeAssumption
    <2>3. at \in [Plugin -> [Message -> Where]]
        BY <2>1 DEF Where
    <2>4. QED
        BY <2>1, <2>2, <2>3, Constants DEF FlowTypes
<1>3. ObjectOK
    BY UnbornIs DEF Init, ObjectOK
<1>4. ASSUME NEW p \in Plugin PROVE Begun(p) /\ Waiting(p)
    <2>1. \A m \in Message : at[p][m] = "none"
        BY DEF Init
    <2>2. next[p] = Context
        BY DEF Init
    <2>3. QED
        BY <2>1, <2>2, Constants DEF Begun, Waiting, UnderWay
<1>5. entries[Followed] = Never
    BY Constants DEF Init, SetInit
<1>6. QED
    BY <1>1, <1>2, <1>3, <1>4, <1>5 DEF IInv, ChainOK

LEMMA FinishStepKeeps == IInv /\ FinishStep => IInv'
<1>. SUFFICES ASSUME IInv, FinishStep PROVE IInv'
    OBVIOUS
<1>1. SetOK'
    BY Parts, SameSetOK DEF FinishStep
<1>2. FlowTypes'
    BY Parts, Constants DEF FinishStep, FlowTypes, chainVars
<1>3. ObjectOK'
    BY Parts, SameObject DEF FinishStep
<1>4. ChainOK'
    <2>1. UNCHANGED <<entries, over, chainVars, at, counted, closed>> /\ ~over
        BY DEF FinishStep, setVars, objectVars
    <2>2. QED
        BY <2>1, Parts DEF ChainOK, Begun, Waiting, chainVars
<1>5. QED
    BY <1>1, <1>2, <1>3, <1>4 DEF IInv

LEMMA DeleteSessionKeeps == IInv /\ DeleteSession => IInv'
<1>. SUFFICES ASSUME IInv, DeleteSession PROVE IInv'
    OBVIOUS
<1>1. SetOK'
    BY Parts, SameSetOK DEF DeleteSession
<1>2. FlowTypes'
    BY Parts DEF DeleteSession, FlowTypes, chainVars
<1>3. ObjectOK'
    BY Parts, SameObject DEF DeleteSession
<1>4. ChainOK'
    <2>1. UNCHANGED <<entries, steps, chainVars, at, counted, closed>> /\ over'
        BY DEF DeleteSession, setVars, objectVars
    <2>2. ~closed => entries'[Followed] = Never
        BY <2>1, Parts DEF ChainOK
    <2>3. QED
        BY <2>1, <2>2, Parts, StillChain
<1>5. QED
    BY <1>1, <1>2, <1>3, <1>4 DEF IInv

LEMMA SendKeeps ==
    ASSUME IInv, NEW p \in Plugin, NEW m \in Message, Send(p, m)
    PROVE  IInv'
<1>1. SetOK'
    BY Parts, SameSetOK DEF Send
<1>. DEFINE l == IF m = End THEN "apply" ELSE "check"
            k == IF m = Context THEN First[p] ELSE IF m = End THEN NoMessage ELSE m + 1
<1>2. /\ Ready(p, m) /\ waits[p] = NoMessage
      /\ next' = [next EXCEPT ![p] = k]
      /\ waits' = [waits EXCEPT ![p] = m]
      /\ at' = [at EXCEPT ![p][m] = l]
      /\ UNCHANGED <<entries, baseline, steps, over, counted, restarts, hasty, closed>>
    BY DEF Send, Advance, setVars, pluginVars, objectVars
<1>3. l \in {"check", "apply"} /\ l \in Where /\ l \in UnderWay /\ l # "none"
    BY DEF Where, UnderWay
<1>4. k \in Message \cup {NoMessage}
    BY OpenCodeAssumption DEF Message, NoMessage, Context, End, Step
<1>5. First[p] <= k
    <2>1. First[p] \in Step /\ MaxStep \in Nat
        BY OpenCodeAssumption
    <2>2. First[p] <= NoMessage /\ First[p] <= First[p]
        BY <2>1 DEF Step, NoMessage, End
    <2>3. m \in Step => First[p] <= m
        BY <1>2, Parts, Constants DEF Ready, ChainOK, Begun
    <2>4. m \in Step => First[p] <= m + 1
        BY <2>1, <2>3 DEF Step
    <2>5. m = Context \/ m = End \/ m \in Step
        BY <2>1 DEF Message, Context, End, Step
    <2>6. QED
        BY <2>2, <2>4, <2>5
<1>6. k # NoMessage /\ m # Context => m \in Step /\ next[p] = m /\ k = m + 1
    BY <1>2, Constants DEF Ready
<1>7. m = Context => k = First[p]
    OBVIOUS
<1>. HIDE DEF l, k
<1>8. FlowTypes'
    BY <1>2, <1>3, <1>4, Parts DEF FlowTypes
<1>9. ObjectOK'
    BY Parts, SameObject DEF Send, pluginVars
<1>10. /\ \A q \in Plugin, n \in Message :
              at'[q][n] = IF q = p /\ n = m THEN l ELSE at[q][n]
       /\ \A q \in Plugin : waits'[q] = IF q = p THEN m ELSE waits[q]
       /\ \A q \in Plugin : next'[q] = IF q = p THEN k ELSE next[q]
    BY <1>2, Parts DEF FlowTypes
<1>11. ASSUME NEW q \in Plugin, q # p PROVE Begun(q)' /\ (Waiting(q) => Waiting(q)')
    <2>1. /\ \A n \in Message : at'[q][n] = at[q][n]
          /\ waits'[q] = waits[q] /\ next'[q] = next[q] /\ Begun(q)
        BY <1>10, <1>11, Parts DEF ChainOK
    <2>2. QED
        BY <1>2, <2>1, Constants DEF Begun, Waiting
<1>12. Begun(p)'
    <2>1. m \in Step => First[p] <= m
        BY <1>2, Parts, Constants DEF Ready, ChainOK, Begun
    <2>2. \A n \in Step : at'[p][n] # "none" => First[p] <= n
        BY <1>10, <2>1, Parts, Constants DEF ChainOK, Begun
    <2>3. QED
        BY <1>5, <1>10, <2>2 DEF Begun
<1>13. ASSUME Waiting(p) PROVE Waiting(p)'
    <2>1. \A n \in Message : at'[p][n] \in UnderWay => waits'[p] = n
        BY <1>2, <1>10, <1>13, Constants DEF Waiting
    <2>2. \A n \in Step : at'[p][n] # "none" => n \in counted' \/ at'[p][n] \in {"check", "apply"}
        BY <1>2, <1>3, <1>10, <1>13, Constants DEF Waiting
    <2>3. \A n \in Message : at[p][n] # "none" => at'[p][n] # "none"
        BY <1>3, <1>10
    <2>4. ASSUME next'[p] # NoMessage, NEW n \in Step, First[p] <= n, n < next'[p]
          PROVE  at'[p][n] # "none"
        <3>1. m # Context
            BY <1>7, <1>10, <2>4, Constants, OpenCodeAssumption DEF Step
        <3>2. m \in Step /\ next[p] = m /\ n < m + 1
            BY <1>6, <1>10, <2>4, <3>1
        <3>3. n < m \/ n = m
            BY <3>2, Constants
        <3>4. CASE n = m
            BY <1>3, <1>10, <3>4, Constants
        <3>5. CASE n < m
            <4>1. at[p][n] # "none"
                BY <1>13, <2>4, <3>2, <3>5, Constants DEF Waiting
            <4>2. QED
                BY <2>3, <4>1, Constants
        <3>6. QED
            BY <3>3, <3>4, <3>5
    <2>5. ASSUME at'[p][End] # "none"
          PROVE  over' /\ \A n \in Step : First[p] <= n /\ n <= steps' => at'[p][n] # "none"
        <3>1. CASE m = End
            <4>1. over /\ next[p] > steps /\ next[p] # NoMessage
                BY <1>2, <3>1, Constants DEF Ready
            <4>2. /\ steps \in Nat /\ next[p] # Context
                  /\ next[p] \in Message
                BY <4>1, Parts, Constants, OpenCodeAssumption DEF FlowTypes, Context
            <4>3. ASSUME NEW n \in Step, n <= steps PROVE n < next[p]
                <5>1. n \in Nat /\ steps \in Nat /\ next[p] \in Nat
                    BY <4>2, Constants
                <5>2. QED
                    BY <4>1, <4>3, <5>1
            <4>4. \A n \in Step : First[p] <= n /\ n <= steps => at[p][n] # "none"
                BY <1>13, <4>1, <4>2, <4>3 DEF Waiting
            <4>5. QED
                BY <1>2, <2>3, <4>1, <4>4, Constants
        <3>2. CASE m # End
            <4>1. at[p][End] # "none"
                BY <1>10, <2>5, <3>2, Constants
            <4>2. over /\ \A n \in Step : First[p] <= n /\ n <= steps => at[p][n] # "none"
                BY <1>13, <4>1 DEF Waiting
            <4>3. QED
                BY <1>2, <2>3, <4>2, Constants
        <3>3. QED
            BY <3>1, <3>2
    <2>6. QED
        BY <2>1, <2>2, <2>4, <2>5 DEF Waiting, Message, Step, End, Context, NoMessage, UnderWay
<1>14. ChainOK'
    <2>1. \A q \in Plugin : Begun(q)'
        BY <1>11, <1>12
    <2>2. ASSUME ~closed PROVE \A q \in Plugin : q \notin hasty => Waiting(q)'
        BY <1>11, <1>13, <2>2, Parts DEF ChainOK
    <2>3. ~closed => entries'[Followed] = Never
        BY <1>2, Parts DEF ChainOK
    <2>4. QED
        BY <1>2, <2>1, <2>2, <2>3 DEF ChainOK
<1>15. QED
    BY <1>1, <1>8, <1>9, <1>14 DEF IInv

LEMMA GiveUpKeeps ==
    ASSUME IInv, NEW p \in Plugin, GiveUp(p)
    PROVE  IInv'
<1>1. SetOK'
    BY Parts, SameSetOK DEF GiveUp
<1>2. FlowTypes'
    BY Parts DEF GiveUp, FlowTypes, pluginVars
<1>3. ObjectOK'
    BY Parts, SameObject DEF GiveUp, pluginVars
<1>4. /\ UNCHANGED <<entries, over, steps, next, at, counted, closed>>
      /\ \A q \in Plugin : q \notin hasty' => q \notin hasty /\ waits'[q] = waits[q]
    BY Parts DEF GiveUp, setVars, pluginVars, objectVars, FlowTypes
<1>5. ChainOK'
    BY <1>4, Parts DEF ChainOK, Begun, Waiting
<1>6. QED
    BY <1>1, <1>2, <1>3, <1>5 DEF IInv

LEMMA FinishTypes ==
    ASSUME FlowTypes, NEW p \in Plugin, NEW m \in Message, Finish(p, m),
           UNCHANGED <<pluginVars, next, restarts, hasty>>, closed' \in BOOLEAN
    PROVE  FlowTypes'
<1>1. at' \in [Plugin -> [Message -> Where]]
    BY DEF FlowTypes, Finish, Where
<1>2. waits' \in [Plugin -> Message \cup {NoMessage}]
    BY DEF FlowTypes, Finish
<1>3. QED
    BY <1>1, <1>2 DEF FlowTypes, pluginVars

LEMMA MoveTypes ==
    ASSUME FlowTypes, NEW p \in Plugin, NEW m \in Message, NEW l \in {"apply", "emit"},
           at' = [at EXCEPT ![p][m] = l],
           UNCHANGED <<pluginVars, chainVars, restarts, closed>>
    PROVE  FlowTypes'
<1>1. at' \in [Plugin -> [Message -> Where]]
    BY DEF FlowTypes, Where
<1>2. QED
    BY <1>1 DEF FlowTypes, pluginVars, chainVars

LEMMA CheckEndedKeeps ==
    ASSUME IInv, NEW p \in Plugin, NEW m \in Message, CheckEnded(p, m)
    PROVE  IInv'
<1>1. PICK found \in BOOLEAN :
          /\ Contains(Followed, found)
          /\ IF found THEN Finish(p, m)
             ELSE at' = [at EXCEPT ![p][m] = "apply"] /\ UNCHANGED waits
    BY DEF CheckEnded
<1>2. at[p][m] = "check" /\ UNCHANGED <<pluginVars, next, objectVars, restarts, hasty, closed>>
    BY DEF CheckEnded
<1>3. at[p][m] \in UnderWay
    BY <1>2 DEF UnderWay
<1>4. SetOK'
    BY <1>1, Parts, Constants, ContainsSetOK
<1>5. ObjectOK'
    BY <1>2, Parts, SameObject DEF pluginVars
<1>6. ~closed => entries'[Followed] = Never /\ found = FALSE
    BY <1>1, Parts, Constants, ContainsAny DEF ChainOK
<1>7. UNCHANGED <<over, steps, next, hasty, closed, counted>> /\ closed' \in BOOLEAN
    BY <1>2, Parts DEF pluginVars, objectVars, FlowTypes
<1>8. CASE found
    <2>1. Finish(p, m)
        BY <1>1, <1>8
    <2>2. closed
        BY <1>6, <1>8
    <2>3. FlowTypes'
        BY <1>2, <1>7, <2>1, Parts, FinishTypes
    <2>4. ChainOK'
        BY <1>3, <1>7, <2>1, <2>2, Parts, FinishChain
    <2>5. QED
        BY <1>4, <1>5, <2>3, <2>4 DEF IInv
<1>9. CASE ~found
    <2>1. at' = [at EXCEPT ![p][m] = "apply"] /\ UNCHANGED chainVars
        BY <1>1, <1>2, <1>9 DEF chainVars
    <2>2. FlowTypes'
        BY <1>2, <2>1, Parts, MoveTypes
    <2>3. ChainOK'
        BY <1>3, <1>6, <1>7, <2>1, Parts, MoveChain
    <2>4. QED
        BY <1>4, <1>5, <2>2, <2>3 DEF IInv
<1>10. QED
    BY <1>8, <1>9

LEMMA ApplyTelemetryKeeps ==
    ASSUME IInv, NEW p \in Plugin, NEW m \in Message, ApplyTelemetry(p, m)
    PROVE  IInv'
<1>. DEFINE o == WithBaseline(session, p)
            c == Counted(o, p, m)
            old == IF session.on THEN reports ELSE <<>>
<1>1. at[p][m] = "apply" /\ UNCHANGED <<setVars, pluginVars, next, restarts, hasty, closed>>
    BY DEF ApplyTelemetry
<1>2. at[p][m] \in UnderWay /\ at[p][m] # "none"
    BY <1>1 DEF UnderWay
<1>3. SetOK'
    BY <1>1, Parts, SameSetOK
<1>4. ObjectIs(o, reports, counted) /\ o.on /\ old = reports
    BY Parts, WithBaselineIs, OldReports DEF ObjectOK
<1>5. /\ UNCHANGED <<over, steps, next, hasty, closed, baseline>> /\ closed' \in BOOLEAN
      /\ (~closed => entries'[Followed] = Never) /\ UNCHANGED pluginVars
    BY <1>1, Parts DEF pluginVars, FlowTypes, setVars, ChainOK
<1>6. CASE m \in Step /\ Counts(o, m)
    <2>1. /\ session' = c /\ counted' = counted \cup {m}
          /\ reports' = Append(old, ReportOf(c, p, m))
          /\ at' = [at EXCEPT ![p][m] = "emit"]
          /\ UNCHANGED waits
        BY <1>6 DEF ApplyTelemetry, ReportOf
    <2>2. First[p] <= m
        BY <1>2, <1>6, Parts DEF ChainOK, Begun
    <2>3. ObjectIs(c, Append(reports, ReportOf(c, p, m)), counted \cup {m})
        <3>. HIDE DEF o
        <3>1. QED
            BY <1>4, <1>6, <2>2, Parts, CountedIs
    <2>. HIDE DEF o, c, old
    <2>4. ObjectOK'
        <3>1. ObjectIs(session', reports', counted')
            BY <1>4, <2>1, <2>3
        <3>2. QED
            BY <1>5, <3>1, PrimedObject
    <2>5. UNCHANGED chainVars
        BY <1>5, <2>1 DEF chainVars
    <2>6. FlowTypes'
        BY <1>1, <2>1, <2>5, Parts, MoveTypes
    <2>7. m \in counted' /\ counted \subseteq counted'
        BY <2>1
    <2>8. ChainOK'
        BY <1>2, <1>5, <2>1, <2>5, <2>7, Parts, MoveChain
    <2>9. QED
        BY <1>3, <2>4, <2>6, <2>8 DEF IInv
<1>7. CASE ~(m \in Step /\ Counts(o, m))
    <2>1. session' = o /\ reports' = old /\ UNCHANGED counted /\ Finish(p, m)
        BY <1>7 DEF ApplyTelemetry
    <2>2. ObjectOK'
        <3>. HIDE DEF o, old
        <3>1. ObjectIs(session', reports', counted')
            BY <1>4, <2>1
        <3>2. QED
            BY <1>5, <3>1, PrimedObject
    <2>3. FlowTypes'
        BY <1>1, <1>5, <2>1, Parts, FinishTypes
    <2>4. m \in Step => m \in counted'
        BY <1>7, <2>1, Parts, NotCountedIsCounted
    <2>. HIDE DEF o, old
    <2>5. ChainOK'
        BY <1>2, <1>5, <2>1, <2>4, Parts, FinishChain
    <2>6. QED
        BY <1>3, <2>2, <2>3, <2>5 DEF IInv
<1>8. QED
    BY <1>6, <1>7

LEMMA EmitReportKeeps ==
    ASSUME IInv, NEW p \in Plugin, NEW m \in Message, EmitReport(p, m)
    PROVE  IInv'
<1>1. /\ at[p][m] = "emit" /\ Finish(p, m)
      /\ UNCHANGED <<setVars, pluginVars, next, objectVars, restarts, hasty, closed>>
    BY DEF EmitReport
<1>2. at[p][m] \in UnderWay /\ at[p][m] # "none"
    BY <1>1 DEF UnderWay
<1>3. SetOK'
    BY <1>1, Parts, SameSetOK
<1>4. ObjectOK'
    BY <1>1, Parts, SameObject DEF pluginVars
<1>5. /\ UNCHANGED <<over, steps, next, hasty, closed, counted>> /\ closed' \in BOOLEAN
      /\ (~closed => entries'[Followed] = Never) /\ UNCHANGED pluginVars
    BY <1>1, Parts DEF pluginVars, objectVars, FlowTypes, setVars, ChainOK
<1>6. FlowTypes'
    BY <1>1, <1>5, Parts, FinishTypes
<1>7. ~closed' /\ p \notin hasty /\ m \in Step => m \in counted'
    BY <1>1, <1>2, <1>5, Parts DEF ChainOK, Waiting
<1>8. ChainOK'
    BY <1>1, <1>2, <1>5, <1>7, Parts, FinishChain
<1>9. QED
    BY <1>3, <1>4, <1>6, <1>8 DEF IInv

LEMMA ApplyEndKeeps ==
    ASSUME IInv, NEW p \in Plugin, ApplyEnd(p)
    PROVE  IInv'
<1>1. /\ at[p][End] = "apply" /\ Insert(Followed) /\ Finish(p, End)
      /\ session' = Unborn /\ reports' = <<>> /\ closed' = TRUE
      /\ UNCHANGED <<pluginVars, next, counted, restarts, hasty>>
    BY DEF ApplyEnd
<1>2. at[p][End] \in UnderWay /\ End \in Message
    BY <1>1, Constants DEF UnderWay
<1>3. SetOK'
    BY <1>1, Parts, Constants, InsertSetOK
<1>4. ObjectOK'
    BY <1>1, Parts, ObjectReset DEF pluginVars
<1>5. /\ UNCHANGED <<over, steps, next, hasty, counted>> /\ closed' \in BOOLEAN /\ closed'
    BY <1>1 DEF pluginVars
<1>6. FlowTypes'
    BY <1>1, <1>2, <1>5, Parts, FinishTypes
<1>7. ChainOK'
    BY <1>1, <1>2, <1>5, Parts, FinishChain
<1>8. QED
    BY <1>3, <1>4, <1>6, <1>7 DEF IInv

LEMMA UpdateStateKeeps ==
    ASSUME IInv, NEW p \in Plugin, UpdateState(p)
    PROVE  IInv'
<1>1. PICK found \in BOOLEAN :
          /\ Remove(Followed, found)
          /\ session' = IF found THEN session ELSE [session EXCEPT !.on = TRUE]
          /\ reports' = IF found \/ session.on THEN reports ELSE <<>>
    BY DEF UpdateState
<1>2. UNCHANGED <<pluginVars, chainVars, at, counted, restarts, closed>>
    BY DEF UpdateState
<1>3. SetOK'
    BY <1>1, Parts, Constants, RemoveSetOK
<1>4. FlowTypes'
    BY <1>2, Parts DEF FlowTypes, pluginVars, chainVars
<1>5. ObjectOK'
    <2>1. ObjectIs([session EXCEPT !.on = TRUE], reports, counted)
        BY Parts, PublishedIs DEF ObjectOK
    <2>2. reports' = reports
        BY <1>1, Parts, OldReports
    <2>3. ObjectIs(session', reports', counted')
        BY <1>1, <1>2, <2>1, <2>2, Parts DEF ObjectOK
    <2>4. QED
        BY <1>2, <2>3, PrimedObject DEF pluginVars
<1>6. ChainOK'
    <2>1. ~closed => entries'[Followed] = Never
        BY <1>1, Parts, Constants, RemoveAny DEF ChainOK
    <2>2. UNCHANGED <<steps, over>>
        BY <1>2 DEF pluginVars
    <2>3. QED
        BY <1>2, <2>1, <2>2, Parts, StillChain
<1>7. QED
    BY <1>3, <1>4, <1>5, <1>6 DEF IInv

(* What only concerns the set. *)
LEMMA SetOnlyKeeps ==
    ASSUME IInv, SetOK', entries[Followed] = Never => entries'[Followed] = Never,
           UNCHANGED <<pluginVars, chainVars, at, objectVars, restarts, closed>>
    PROVE  IInv'
<1>1. FlowTypes'
    BY Parts DEF FlowTypes, pluginVars, chainVars
<1>2. ObjectOK'
    BY Parts, SameObject DEF pluginVars
<1>3. ChainOK'
    <2>1. UNCHANGED <<steps, over, counted>>
        BY DEF pluginVars, objectVars
    <2>2. ~closed => entries'[Followed] = Never
        BY Parts DEF ChainOK
    <2>3. QED
        BY <2>1, <2>2, Parts, StillChain
<1>4. QED
    BY <1>1, <1>2, <1>3 DEF IInv

LEMMA SetNextKeeps == IInv /\ SetNext => IInv'
<1>. SUFFICES ASSUME IInv, SetNext PROVE IInv'
    OBVIOUS
<1>1. CASE Clock
    <2>1. SetOK' /\ UNCHANGED entries
        BY <1>1, Parts, TickSetOK DEF Clock, Tick
    <2>2. QED
        BY <1>1, <2>1, SetOnlyKeeps DEF Clock
<1>2. ASSUME NEW k \in Key, EndOther(k) PROVE IInv'
    <2>1. /\ k # Followed /\ Insert(k)
          /\ UNCHANGED <<pluginVars, chainVars, at, objectVars, restarts, closed>>
        BY <1>2 DEF EndOther
    <2>2. SetOK' /\ (entries[Followed] = Never => entries'[Followed] = Never)
        BY <2>1, Parts, Constants, InsertSetOK, InsertOther
    <2>3. QED
        BY <2>1, <2>2, SetOnlyKeeps
<1>3. ASSUME NEW k \in Key, UpdateOther(k) PROVE IInv'
    <2>1. PICK found \in BOOLEAN : Remove(k, found)
        BY <1>3 DEF UpdateOther
    <2>2. SetOK' /\ (entries[Followed] = Never => entries'[Followed] = Never)
        BY <2>1, Parts, Constants, RemoveSetOK, RemoveAny
    <2>3. QED
        BY <1>3, <2>2, SetOnlyKeeps DEF UpdateOther
<1>4. QED
    BY <1>1, <1>2, <1>3 DEF SetNext

LEMMA RestartKeeps == IInv /\ Restart => IInv'
<1>. SUFFICES ASSUME IInv, Restart PROVE IInv'
    OBVIOUS
<1>1. SetOK' /\ (\A k \in Key : entries'[k] = Never)
    BY Parts, ForgetSetOK DEF Restart
<1>2. ObjectOK'
    BY Parts, ObjectReset DEF Restart, pluginVars
<1>3. /\ \A q \in Plugin, n \in Message :
             at'[q][n] = IF at[q][n] = "none" THEN "none" ELSE "done"
      /\ \A q \in Plugin : q \notin hasty' =>
             q \notin hasty /\ \A n \in Message : at[q][n] \in {"none", "done"}
      /\ UNCHANGED <<next, over, steps, closed, counted>>
    BY DEF Restart, pluginVars
<1>4. FlowTypes'
    <2>1. at' \in [Plugin -> [Message -> Where]]
        BY DEF Restart, Where
    <2>2. waits' \in [Plugin -> Message \cup {NoMessage}] /\ hasty' \subseteq Plugin
        BY Parts DEF Restart, FlowTypes
    <2>3. restarts' \in 0..MaxRestart
        BY Parts, OpenCodeAssumption DEF Restart, FlowTypes
    <2>4. QED
        BY <2>1, <2>2, <2>3, Parts DEF Restart, FlowTypes, pluginVars
<1>5. ASSUME NEW q \in Plugin PROVE Begun(q)'
    BY <1>3, Parts, Constants DEF ChainOK, Begun
<1>6. ASSUME ~closed, NEW q \in Plugin, q \notin hasty' PROVE Waiting(q)'
    <2>1. Waiting(q) /\ \A n \in Message : at[q][n] \in {"none", "done"}
        BY <1>3, <1>6, Parts DEF ChainOK
    <2>2. \A n \in Message : at'[q][n] = at[q][n]
        BY <1>3, <2>1
    <2>3. \A n \in Message : at'[q][n] \notin UnderWay
        BY <2>1, <2>2 DEF UnderWay
    <2>4. QED
        BY <1>3, <2>1, <2>2, <2>3, Constants DEF Waiting, NoMessage, End, Message, Step, Context
<1>7. ChainOK'
    BY <1>1, <1>3, <1>5, <1>6, Constants DEF ChainOK, Never
<1>8. QED
    BY <1>1, <1>2, <1>4, <1>7 DEF IInv

LEMMA NextKeeps == IInv /\ [Next]_vars => IInv'
<1>. SUFFICES ASSUME IInv, [Next]_vars PROVE IInv'
    OBVIOUS
<1>1. CASE SetNext
    BY <1>1, SetNextKeeps
<1>2. CASE SessionNext
    <2>1. CASE FinishStep \/ DeleteSession \/ Restart
        BY <2>1, FinishStepKeeps, DeleteSessionKeeps, RestartKeeps
    <2>2. CASE \E p \in Plugin : GiveUp(p) \/ ApplyEnd(p) \/ UpdateState(p)
        BY <2>2, GiveUpKeeps, ApplyEndKeeps, UpdateStateKeeps
    <2>3. CASE \E p \in Plugin, m \in Message :
                   Send(p, m) \/ CheckEnded(p, m) \/ ApplyTelemetry(p, m) \/ EmitReport(p, m)
        BY <2>3, SendKeeps, CheckEndedKeeps, ApplyTelemetryKeeps, EmitReportKeeps
    <2>4. QED
        BY <1>2, <2>1, <2>2, <2>3 DEF SessionNext
<1>3. CASE UNCHANGED vars
    <2>1. UNCHANGED <<setVars, pluginVars, chainVars, at, objectVars, restarts, closed>>
        BY <1>3 DEF vars
    <2>2. SetOK' /\ UNCHANGED entries
        BY <2>1, Parts, SameSetOK DEF setVars
    <2>3. QED
        BY <2>1, <2>2, SetOnlyKeeps
<1>4. QED
    BY <1>1, <1>2, <1>3 DEF Next

LEMMA Invariance == Spec => []IInv
<1>1. Init => IInv
    BY InitHolds
<1>2. IInv /\ [Next]_vars => IInv'
    BY NextKeeps
<1>3. QED
    BY <1>1, <1>2, PTL DEF Spec

-----------------------------------------------------------------------------
(* Every variable holds a value of its kind, and the window of the steps   *)
(* counted lately (opencode.rs, apply_telemetry) never outgrows its bound. *)
THEOREM TypeCorrect == Spec => []TypeOK
<1>1. IInv => TypeOK
    BY Parts, SetOKImplies DEF TypeOK, FlowTypes, ObjectOK, ObjectIs, ObjectTypes
<1>2. QED
    BY <1>1, Invariance, PTL

(* Every session that is remembered as ended has its insertion in the      *)
(* queue, and there are never more than the set has room for: the loop in  *)
(* ExpiringSet's insert always comes to its end before the queue does.     *)
THEOREM EveryMarkIsQueued == Spec => []MarksAreQueued
<1>1. IInv => MarksAreQueued
    BY Parts, SetOKImplies
<1>2. QED
    BY <1>1, Invariance, PTL

(* A step is counted again by the same object only when as many others as  *)
(* the window holds have been counted since, however often and however     *)
(* late its message comes.                                                 *)
THEOREM StepsCountOnce == Spec => []CountedOnce
<1>1. IInv => CountedOnce
    BY Parts DEF ObjectOK, ObjectIs, Once, CountedOnce
<1>2. QED
    BY <1>1, Invariance, PTL

(* The reports of an object follow one another: revisions have no gaps,    *)
(* totals fall only in a new epoch, and successive steps of one instance   *)
(* add up.                                                                 *)
THEOREM TotalsFollow == Spec => []TotalsFollowSteps
<1>1. IInv => TotalsFollowSteps
    BY Parts DEF ObjectOK, ObjectIs, InOrder, Follows, TotalsFollowSteps
<1>2. QED
    BY <1>1, Invariance, PTL

(* When the first end of a session is handled, every instance that has     *)
(* lost nothing and never gave up waiting has had all its steps counted.   *)
THEOREM FinalUsageComesFirst == Spec => UsageBeforeEnd
<1>1. ASSUME IInv
      PROVE  \A p \in Plugin :
                 ApplyEnd(p) /\ ~closed /\ p \notin hasty => First[p]..steps \subseteq counted
    <2>. SUFFICES ASSUME NEW p \in Plugin, ApplyEnd(p), ~closed, p \notin hasty,
                         NEW m \in First[p]..steps
                  PROVE  m \in counted
        OBVIOUS
    <2>1. Waiting(p)
        BY <1>1, Parts DEF ChainOK
    <2>2. at[p][End] = "apply"
        BY DEF ApplyEnd
    <2>3. m \in Step /\ m \in Message /\ m # End
        <3>1. First[p] \in Step /\ steps \in 0..MaxStep /\ MaxStep \in Nat
            BY <1>1, Parts, OpenCodeAssumption DEF FlowTypes
        <3>2. m \in Step
            BY <3>1 DEF Step
        <3>3. QED
            BY <3>2, Constants
    <2>4. at[p][m] # "none"
        <3>1. First[p] \in Step /\ steps \in 0..MaxStep /\ MaxStep \in Nat
            BY <1>1, Parts, OpenCodeAssumption DEF FlowTypes
        <3>2. First[p] <= m /\ m <= steps
            BY <3>1 DEF Step
        <3>3. QED
            BY <2>1, <2>2, <2>3, <3>2 DEF Waiting
    <2>5. at[p][m] \notin {"check", "apply"}
        <3>1. waits[p] = End
            BY <2>1, <2>2, Constants DEF Waiting, UnderWay
        <3>2. QED
            BY <2>1, <2>3, <3>1 DEF Waiting, UnderWay
    <2>6. QED
        BY <2>1, <2>3, <2>4, <2>5 DEF Waiting
<1>2. QED
    BY <1>1, Invariance, PTL DEF UsageBeforeEnd

(* A session is forgotten to have ended only for one of the reasons that   *)
(* the code has: age, newer ends, a late UpdateState, or a restart.        *)
THEOREM MarksForgottenForCause == Spec => MarksGoForCause
<1>. DEFINE Caused(k) == \/ ForgottenForCause(k)
                         \/ k = Followed /\ \E p \in Plugin : UpdateState(p)
                         \/ UpdateOther(k)
<1>1. ASSUME IInv, [Next]_vars, ~Restart, NEW j \in Key
      PROVE  Caused(j)
    <2>1. CASE UNCHANGED entries
        BY <2>1, SameForCause
    <2>2. ASSUME NEW p \in Plugin, ApplyEnd(p) PROVE ForgottenForCause(j)
        BY <1>1, <2>2, Parts, Constants, InsertForCause DEF ApplyEnd
    <2>3. ASSUME NEW p \in Plugin, UpdateState(p) PROVE Caused(j)
        <3>1. PICK found \in BOOLEAN : Remove(Followed, found)
            BY <2>3 DEF UpdateState
        <3>2. j # Followed => ForgottenForCause(j)
            BY <1>1, <3>1, Parts, Constants, RemoveForCause
        <3>3. QED
            BY <2>3, <3>2
    <2>4. ASSUME NEW p \in Plugin, NEW m \in Message, CheckEnded(p, m) PROVE ForgottenForCause(j)
        <3>1. PICK found \in BOOLEAN : Contains(Followed, found)
            BY <2>4 DEF CheckEnded
        <3>2. QED
            BY <1>1, <3>1, Parts, Constants, ContainsForCause
    <2>5. ASSUME NEW k \in Key, EndOther(k) PROVE ForgottenForCause(j)
        BY <1>1, <2>5, Parts, InsertForCause DEF EndOther
    <2>6. ASSUME NEW k \in Key, UpdateOther(k) PROVE Caused(j)
        <3>1. PICK found \in BOOLEAN : Remove(k, found)
            BY <2>6 DEF UpdateOther
        <3>2. j # k => ForgottenForCause(j)
            BY <1>1, <3>1, Parts, RemoveForCause
        <3>3. QED
            BY <2>6, <3>2
    <2>7. CASE UNCHANGED vars
        BY <2>1, <2>7 DEF vars, setVars
    <2>8. CASE SetNext
        <3>1. Clock => UNCHANGED entries
            BY DEF Clock, Tick
        <3>2. QED
            BY <2>1, <2>5, <2>6, <2>8, <3>1 DEF SetNext
    <2>9. CASE SessionNext
        <3>1. FinishStep \/ DeleteSession => UNCHANGED entries
            BY DEF FinishStep, DeleteSession, setVars
        <3>2. \A p \in Plugin : GiveUp(p) => UNCHANGED entries
            BY DEF GiveUp, setVars
        <3>3. \A p \in Plugin, m \in Message :
                  Send(p, m) \/ ApplyTelemetry(p, m) \/ EmitReport(p, m) => UNCHANGED entries
            BY DEF Send, ApplyTelemetry, EmitReport, setVars
        <3>4. CASE \E p \in Plugin : GiveUp(p) \/ ApplyEnd(p) \/ UpdateState(p)
            BY <2>1, <2>2, <2>3, <3>2, <3>4
        <3>5. CASE \E p \in Plugin, m \in Message :
                       Send(p, m) \/ CheckEnded(p, m) \/ ApplyTelemetry(p, m) \/ EmitReport(p, m)
            BY <2>1, <2>4, <3>3, <3>5
        <3>6. QED
            BY <1>1, <2>1, <2>9, <3>1, <3>4, <3>5 DEF SessionNext
    <2>10. QED
        BY <1>1, <2>7, <2>8, <2>9 DEF Next
<1>2. ASSUME IInv, [Next]_vars
      PROVE  ~Restart => \A k \in Key :
                 ForgottenForCause(k) \/ (k = Followed /\ \E p \in Plugin : UpdateState(p)) \/ UpdateOther(k)
    BY <1>1, <1>2
<1>3. QED
    BY <1>2, Invariance, PTL DEF Spec, MarksGoForCause
=============================================================================
