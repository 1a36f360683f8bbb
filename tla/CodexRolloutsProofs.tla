------------------------ MODULE CodexRolloutsProofs ------------------------
(***************************************************************************)
(* Theorems about CodexRollouts, for any sessions, files, tasks and any    *)
(* size of the cache.                                                      *)
(*                                                                         *)
(* The inductive invariant has a part for the files, one for the cache and *)
(* one for each task.                                                      *)
(***************************************************************************)
EXTENDS CodexRollouts, WellFoundedInduction, FiniteSetTheorems, SequenceTheorems, TLAPS

Owned(s) == {p \in Path : OwnerOf[p] = s}

FilesOK ==
    /\ age \in Seq(Path)
    /\ record \in [Path -> Seq([id : Session, parent : Session \cup {None}])]
    /\ \A p \in Path : \A i \in 1..Len(record[p]) :
           record[p][i].parent = SpawnedBy[record[p][i].id]

Distinct(s) == \A i, j \in 1..Len(s) : s[i] = s[j] => i = j

Agree(e, o) ==
    /\ o \in Seq(Session) /\ Distinct(o)
    /\ e = [s \in DOMAIN e |-> e[s]] /\ DOMAIN e = ToSet(o)
    /\ \A s \in DOMAIN e : e[s] \in Owned(s)

CacheOK == Agree(entries, order) /\ Len(order) <= CacheMax

(* A task knows only files of its session that were there while it asked,  *)
(* and those that are there now are among them.                            *)
TaskOK(t) ==
    /\ task[t] \in {"idle", "transcript", "lookup", "scan", "newest", "insert", "read", "done"}
    /\ task[t] \in {"insert", "read"} => answer[t] # None
    /\ task[t] = "transcript" => transcript[t] \in Path
    /\ task[t] = "idle" => wanted[t] = None /\ there[t] = {} /\ lineage[t] = None
    /\ task[t] # "idle" => wanted[t] \in Session /\ Files \cap Owned(wanted[t]) \subseteq there[t]
    /\ there[t] \subseteq Owned(wanted[t])
    /\ matches[t] \subseteq there[t] /\ (task[t] # "newest" => matches[t] = {})
    /\ answer[t] # None => answer[t] \in there[t]
    /\ lineage[t] # None => lineage[t] = SpawnedBy[wanted[t]] /\ lineage[t] \in Session

TaskTypes ==
    /\ task = [t \in Task |-> task[t]] /\ there = [t \in Task |-> there[t]]
    /\ {wanted, lineage} \subseteq [Task -> Session \cup {None}]
    /\ {transcript, answer} \subseteq [Task -> Path \cup {None}]
    /\ matches \in [Task -> SUBSET Path]

RolloutIInv == FilesOK /\ CacheOK /\ TaskTypes /\ \A t \in Task : TaskOK(t)

-----------------------------------------------------------------------------
(* Sequences. *)
LEMMA MinExists ==
    ASSUME NEW I \in SUBSET Nat, I # {}
    PROVE  \E x \in I : \A y \in I : x <= y
<1>. DEFINE R == OpToRel(<, Nat)
<1>1. IsWellFoundedOn(R, Nat)
    BY NatLessThanWellFounded
<1>. HIDE DEF R
<1>2. PICK x \in I : \A y \in I : ~(<<y, x>> \in R)
    BY <1>1, WFMin
<1>3. \A y \in I : ~(y < x)
    BY <1>2 DEF R, OpToRel
<1>4. QED
    BY <1>3

LEMMA FirstIs ==
    ASSUME NEW S, NEW s \in Seq(S), NEW x, \E i \in 1..Len(s) : s[i] = x
    PROVE  LET i == SelectInSeq(s, LAMBDA v : v = x) IN i \in 1..Len(s) /\ s[i] = x
<1>. DEFINE I == {i \in 1..Len(s) : s[i] = x}
<1>1. I \in SUBSET Nat /\ I # {}
    BY LenProperties
<1>2. \E i \in I : \A j \in I : i <= j
    BY <1>1, MinExists
<1>3. Min(I) \in I
    BY <1>2 DEF Min
<1>4. SelectInSeq(s, LAMBDA v : v = x) = Min(I)
    BY <1>1 DEF SelectInSeq
<1>5. QED
    BY <1>3, <1>4

(* The two parts of a sequence that is cut. *)
LEMMA FrontIs ==
    ASSUME NEW S, NEW s \in Seq(S), NEW n \in 0..Len(s)
    PROVE  LET a == SubSeq(s, 1, n)
           IN  a \in Seq(S) /\ Len(a) = n /\ \A i \in 1..n : a[i] = s[i]
<1>. DEFINE a == SubSeq(s, 1, n)
<1>1. Len(s) \in Nat /\ n \in Nat
    BY LenProperties
<1>2. \A i \in 1..Len(s) : s[i] \in S
    BY ElementOfSeq
<1>3. /\ a \in Seq(S) /\ Len(a) = IF 1 <= n THEN n - 1 + 1 ELSE 0
      /\ \A i \in 1..(n - 1 + 1) : a[i] = s[1 + i - 1]
    BY <1>1, <1>2, SubSeqProperties
<1>. HIDE DEF a
<1>4. Len(a) = n
    BY <1>1, <1>3
<1>5. n - 1 + 1 = n /\ \A i \in 1..n : 1 + i - 1 = i
    BY <1>1
<1>6. QED
    BY <1>3, <1>4, <1>5 DEF a

LEMMA RestIs ==
    ASSUME NEW S, NEW s \in Seq(S), NEW n \in 0..Len(s)
    PROVE  LET b == SubSeq(s, n + 1, Len(s))
           IN  b \in Seq(S) /\ Len(b) = Len(s) - n /\ \A i \in 1..(Len(s) - n) : b[i] = s[n + i]
<1>. DEFINE b == SubSeq(s, n + 1, Len(s))
            m == Len(s)
<1>1. m \in Nat /\ n \in Nat /\ n <= m
    BY LenProperties
<1>2. \A i \in 1..m : s[i] \in S
    BY ElementOfSeq
<1>3. /\ b \in Seq(S) /\ Len(b) = IF n + 1 <= m THEN m - (n + 1) + 1 ELSE 0
      /\ \A i \in 1..(m - (n + 1) + 1) : b[i] = s[(n + 1) + i - 1]
    BY <1>1, <1>2, SubSeqProperties
<1>. HIDE DEF b, m
<1>4. Len(b) = m - n
    <2>1. CASE n + 1 <= m
        BY <1>1, <1>3, <2>1
    <2>2. CASE ~(n + 1 <= m)
        <3>1. Len(b) = 0
            BY <1>3, <2>2
        <3>2. n = m
            BY <1>1, <2>2
        <3>3. QED
            BY <1>1, <3>1, <3>2
    <2>3. QED
        BY <2>1, <2>2
<1>5. ASSUME NEW i \in 1..(m - n) PROVE b[i] = s[n + i]
    <2>1. i \in 1..(m - (n + 1) + 1) /\ (n + 1) + i - 1 = n + i
        BY <1>1
    <2>2. b[i] = s[(n + 1) + i - 1]
        BY <1>3, <2>1
    <2>3. QED
        BY <2>1, <2>2
<1>6. QED
    BY <1>3, <1>4, <1>5 DEF b, m

(* RemoveFirst takes out one element and keeps the rest distinct. *)
LEMMA RemoveFirstIs ==
    ASSUME NEW S, NEW s \in Seq(S), NEW x
    PROVE  LET r == RemoveFirst(s, x)
           IN  /\ r \in Seq(S) /\ Len(r) <= Len(s)
               /\ ToSet(r) \subseteq ToSet(s)
               /\ Distinct(s) => Distinct(r) /\ ToSet(r) = ToSet(s) \ {x}
<1>1. Len(s) \in Nat /\ DOMAIN s = 1..Len(s)
    BY LenProperties
<1>2. CASE ~ \E i \in 1..Len(s) : s[i] = x
    BY <1>1, <1>2 DEF RemoveFirst, ToSet
<1>3. CASE \E i \in 1..Len(s) : s[i] = x
    <2>1. PICK i \in 1..Len(s) : s[i] = x /\ RemoveFirst(s, x) = RemoveAt(s, i)
        <3>. DEFINE k == SelectInSeq(s, LAMBDA v : v = x)
        <3>1. k \in 1..Len(s) /\ s[k] = x
            BY <1>3, FirstIs
        <3>2. RemoveFirst(s, x) = RemoveAt(s, k)
            BY <1>3 DEF RemoveFirst
        <3>. HIDE DEF k
        <3>3. QED
            BY <3>1, <3>2
    <2>. DEFINE a == SubSeq(s, 1, i - 1)
                b == SubSeq(s, i + 1, Len(s))
                r == a \o b
    <2>2. \A j \in 1..Len(s) : s[j] \in S
        BY ElementOfSeq
    <2>3. /\ a \in Seq(S) /\ Len(a) = i - 1
          /\ \A j \in 1..(i - 1) : a[j] = s[j]
        BY <1>1, FrontIs
    <2>4. /\ b \in Seq(S) /\ Len(b) = Len(s) - i
          /\ \A j \in 1..(Len(s) - i) : b[j] = s[i + j]
        <3>1. i \in 0..Len(s)
            BY <1>1
        <3>2. QED
            BY <3>1, RestIs
    <2>. HIDE DEF a, b
    <2>5. /\ r \in Seq(S) /\ Len(r) = Len(s) - 1
          /\ \A j \in 1..Len(r) : r[j] = IF j <= i - 1 THEN a[j] ELSE b[j - (i - 1)]
        <3>1. /\ r \in Seq(S) /\ Len(r) = Len(a) + Len(b)
              /\ \A j \in 1..(Len(a) + Len(b)) :
                     r[j] = IF j <= Len(a) THEN a[j] ELSE b[j - Len(a)]
            BY <2>3, <2>4, ConcatProperties
        <3>. HIDE DEF r
        <3>2. Len(r) = Len(s) - 1
            BY <1>1, <2>3, <2>4, <3>1
        <3>3. QED
            BY <2>3, <3>1, <3>2
    <2>. HIDE DEF r
    <2>6. \A j \in 1..Len(r) : r[j] = IF j < i THEN s[j] ELSE s[j + 1]
        <3>. SUFFICES ASSUME NEW j \in 1..Len(r) PROVE r[j] = IF j < i THEN s[j] ELSE s[j + 1]
            OBVIOUS
        <3>1. CASE j < i
            BY <1>1, <2>3, <2>5, <3>1
        <3>2. CASE ~(j < i)
            <4>1. /\ ~(j <= i - 1) /\ j - (i - 1) \in 1..(Len(s) - i)
                  /\ i + (j - (i - 1)) = j + 1
                BY <1>1, <2>5, <3>2
            <4>2. r[j] = b[j - (i - 1)]
                BY <2>5, <4>1
            <4>3. QED
                BY <2>4, <3>2, <4>1, <4>2
        <3>3. QED
            BY <3>1, <3>2
    <2>7. DOMAIN r = 1..Len(r)
        BY <2>5, LenProperties
    <2>8. ToSet(r) \subseteq ToSet(s)
        <3>1. ASSUME NEW j \in 1..Len(r) PROVE \E k \in 1..Len(s) : r[j] = s[k]
            <4>1. j \in 1..Len(s) /\ j + 1 \in 1..Len(s)
                BY <1>1, <2>5
            <4>2. QED
                BY <2>6, <4>1
        <3>2. QED
            BY <1>1, <2>7, <3>1 DEF ToSet
    <2>9. ASSUME Distinct(s) PROVE Distinct(r)
        <3>. SUFFICES ASSUME NEW j \in 1..Len(r), NEW k \in 1..Len(r), r[j] = r[k] PROVE j = k
            BY DEF Distinct
        <3>. DEFINE u == IF j < i THEN j ELSE j + 1
                    v == IF k < i THEN k ELSE k + 1
        <3>1. u \in 1..Len(s) /\ v \in 1..Len(s)
            BY <1>1, <2>5
        <3>2. u = v => j = k
            BY <1>1, <2>5
        <3>3. r[j] = s[u] /\ r[k] = s[v]
            BY <2>6
        <3>. HIDE DEF u, v
        <3>4. u = v
            BY <2>9, <3>1, <3>3 DEF Distinct
        <3>5. QED
            BY <3>2, <3>4
    <2>10. ASSUME Distinct(s) PROVE ToSet(r) = ToSet(s) \ {x}
        <3>1. ASSUME NEW j \in 1..Len(r) PROVE r[j] # x
            <4>1. CASE j < i
                <5>1. r[j] = s[j] /\ j \in 1..Len(s) /\ j # i
                    BY <1>1, <2>5, <2>6, <4>1
                <5>2. QED
                    BY <2>1, <2>10, <5>1 DEF Distinct
            <4>2. CASE ~(j < i)
                <5>1. r[j] = s[j + 1] /\ j + 1 \in 1..Len(s) /\ j + 1 # i
                    BY <1>1, <2>5, <2>6, <4>2
                <5>2. QED
                    BY <2>1, <2>10, <5>1 DEF Distinct
            <4>3. QED
                BY <4>1, <4>2
        <3>2. ASSUME NEW k \in 1..Len(s), s[k] # x PROVE \E j \in 1..Len(r) : r[j] = s[k]
            <4>1. CASE k < i
                BY <1>1, <2>1, <2>5, <2>6, <4>1
            <4>2. CASE k > i
                <5>1. k - 1 \in 1..Len(r) /\ ~(k - 1 < i) /\ (k - 1) + 1 = k
                    BY <1>1, <2>5, <4>2
                <5>2. QED
                    BY <2>6, <5>1
            <4>3. QED
                BY <1>1, <2>1, <3>2, <4>1, <4>2
        <3>3. QED
            BY <1>1, <2>7, <2>8, <3>1, <3>2 DEF ToSet
    <2>11. RemoveFirst(s, x) = r
        BY <2>1 DEF r, a, b, RemoveAt
    <2>12. QED
        BY <1>1, <2>5, <2>8, <2>9, <2>10, <2>11
<1>4. QED
    BY <1>2, <1>3

(* The elements of a sequence that holds each once are as many as it is    *)
(* long.                                                                   *)
LEMMA AsManyAsLong ==
    ASSUME NEW S, NEW o \in Seq(S), Distinct(o)
    PROVE  IsFiniteSet(ToSet(o)) /\ Cardinality(ToSet(o)) = Len(o)
<1>1. Len(o) \in Nat /\ DOMAIN o = 1..Len(o) /\ o \in [1..Len(o) -> S]
    BY LenProperties
<1>2. o \in Bijection(1..Len(o), ToSet(o))
    BY <1>1 DEF Distinct, ToSet, Bijection, Injection, Surjection, IsInjective
<1>3. IsFiniteSet(1..Len(o)) /\ Cardinality(1..Len(o)) = Len(o)
    BY <1>1, FS_Interval
<1>4. QED
    BY <1>2, <1>3, FS_Bijection DEF ExistsBijection

(* An element is put to the end of the queue. *)
LEMMA PushIs ==
    ASSUME NEW S, NEW o \in Seq(S), NEW x \in S
    PROVE  LET q == Append(RemoveFirst(o, x), x)
           IN  /\ q \in Seq(S) /\ ToSet(q) \subseteq ToSet(o) \cup {x}
               /\ Distinct(o) => Distinct(q) /\ ToSet(q) = ToSet(o) \cup {x}
<1>. DEFINE r == RemoveFirst(o, x)
            q == Append(r, x)
<1>1. /\ r \in Seq(S) /\ ToSet(r) \subseteq ToSet(o)
      /\ Distinct(o) => Distinct(r) /\ ToSet(r) = ToSet(o) \ {x}
    BY RemoveFirstIs
<1>. HIDE DEF r
<1>2. /\ q \in Seq(S) /\ Len(q) = Len(r) + 1 /\ q[Len(r) + 1] = x
      /\ \A i \in 1..Len(r) : q[i] = r[i]
    BY <1>1, AppendProperties
<1>. HIDE DEF q
<1>3. /\ Len(r) \in Nat /\ DOMAIN r = 1..Len(r) /\ DOMAIN q = 1..Len(q)
    BY <1>1, <1>2, LenProperties
<1>4. ToSet(q) = ToSet(r) \cup {x}
    BY <1>2, <1>3 DEF ToSet
<1>5. ASSUME Distinct(o) PROVE Distinct(q)
    <2>1. \A i \in 1..Len(r) : r[i] # x
        BY <1>1, <1>3, <1>5 DEF ToSet
    <2>. SUFFICES ASSUME NEW i \in 1..Len(q), NEW j \in 1..Len(q), q[i] = q[j] PROVE i = j
        BY DEF Distinct
    <2>2. CASE i \in 1..Len(r) /\ j \in 1..Len(r)
        BY <1>1, <1>2, <1>5, <2>2 DEF Distinct
    <2>3. CASE i \notin 1..Len(r) \/ j \notin 1..Len(r)
        BY <1>2, <1>3, <2>1, <2>3
    <2>4. QED
        BY <2>2, <2>3
<1>6. QED
    BY <1>1, <1>2, <1>4, <1>5 DEF q, r

(* What is left of the queue when it is cut holds the rest. *)
LEMMA CutIs ==
    ASSUME NEW S, NEW o \in Seq(S), Distinct(o), NEW n \in 0..Len(o)
    PROVE  LET b == SubSeq(o, n + 1, Len(o))
           IN  /\ b \in Seq(S) /\ Len(b) = Len(o) - n /\ Distinct(b)
               /\ ToSet(b) = ToSet(o) \ ToSet(SubSeq(o, 1, n))
<1>. DEFINE a == SubSeq(o, 1, n)
            b == SubSeq(o, n + 1, Len(o))
<1>1. Len(o) \in Nat /\ DOMAIN o = 1..Len(o) /\ n \in Nat
    BY LenProperties
<1>2. a \in Seq(S) /\ Len(a) = n /\ \A i \in 1..n : a[i] = o[i]
    BY FrontIs
<1>3. /\ b \in Seq(S) /\ Len(b) = Len(o) - n
      /\ \A i \in 1..(Len(o) - n) : b[i] = o[n + i]
    BY RestIs
<1>4. DOMAIN a = 1..n /\ DOMAIN b = 1..(Len(o) - n)
    BY <1>2, <1>3, LenProperties
<1>. HIDE DEF a, b
<1>5. Distinct(b)
    BY <1>1, <1>3, <1>4 DEF Distinct
<1>6. ASSUME NEW i \in 1..Len(o), i > n PROVE \E j \in DOMAIN b : b[j] = o[i]
    <2>1. i - n \in 1..(Len(o) - n) /\ n + (i - n) = i
        BY <1>1, <1>6
    <2>2. QED
        BY <1>3, <1>4, <2>1
<1>7. ASSUME NEW j \in DOMAIN b PROVE \E i \in 1..Len(o) : i > n /\ b[j] = o[i]
    <2>1. n + j \in 1..Len(o) /\ n + j > n
        BY <1>1, <1>4
    <2>2. QED
        BY <1>3, <1>4, <2>1
<1>8. ASSUME NEW y PROVE y \in ToSet(b) <=> y \in ToSet(o) /\ y \notin ToSet(a)
    <2>1. y \in ToSet(b) <=> \E j \in DOMAIN b : b[j] = y
        BY DEF ToSet
    <2>2. y \in ToSet(o) <=> \E i \in 1..Len(o) : o[i] = y
        BY <1>1 DEF ToSet
    <2>3. y \in ToSet(a) <=> \E i \in 1..n : o[i] = y
        BY <1>2, <1>4 DEF ToSet
    <2>4. ASSUME NEW i \in 1..Len(o), NEW k \in 1..n, i > n PROVE o[i] # o[k]
        <3>1. k \in 1..Len(o) /\ i # k
            BY <1>1, <2>4
        <3>2. QED
            BY <3>1 DEF Distinct
    <2>5. \A i \in 1..Len(o) : ~(i > n) => i \in 1..n
        BY <1>1
    <2>6. QED
        BY <1>6, <1>7, <2>1, <2>2, <2>3, <2>4, <2>5
<1>9. QED
    BY <1>3, <1>5, <1>8 DEF a, b

-----------------------------------------------------------------------------
(* The cache. *)
LEMMA InsertOK ==
    ASSUME CacheOK, NEW s \in Session, NEW p \in Owned(s), InsertEntry(s, p)
    PROVE  CacheOK'
<1>. DEFINE e == [x \in DOMAIN entries \cup {s} |-> IF x = s THEN p ELSE entries[x]]
            o == Append(RemoveFirst(order, s), s)
            n == IF Cardinality(DOMAIN e) > CacheMax THEN Cardinality(DOMAIN e) - CacheMax ELSE 0
            a == SubSeq(o, 1, n)
            b == SubSeq(o, n + 1, Len(o))
<1>1. /\ entries' = [x \in DOMAIN e \ ToSet(a) |-> e[x]]
      /\ order' = b
    BY DEF InsertEntry
<1>2. /\ order \in Seq(Session) /\ Distinct(order) /\ DOMAIN entries = ToSet(order)
      /\ \A x \in DOMAIN entries : entries[x] \in Owned(x)
    BY DEF CacheOK, Agree
<1>3. o \in Seq(Session) /\ Distinct(o) /\ ToSet(o) = ToSet(order) \cup {s}
    BY <1>2, PushIs
<1>. HIDE DEF o
<1>4. DOMAIN e = ToSet(o) /\ \A x \in DOMAIN e : e[x] \in Owned(x)
    BY <1>2, <1>3
<1>. HIDE DEF e
<1>5. Cardinality(DOMAIN e) = Len(o) /\ Len(o) \in Nat
    BY <1>3, <1>4, AsManyAsLong, LenProperties
<1>6. n \in 0..Len(o) /\ Len(o) - n <= CacheMax
    BY <1>5, CodexRolloutsAssumption
<1>. HIDE DEF n
<1>7. b \in Seq(Session) /\ Len(b) = Len(o) - n /\ Distinct(b) /\ ToSet(b) = ToSet(o) \ ToSet(a)
    BY <1>3, <1>6, CutIs
<1>. HIDE DEF a, b
<1>8. DOMAIN entries' = DOMAIN e \ ToSet(a) /\ \A x \in DOMAIN entries' : entries'[x] = e[x]
    BY <1>1
<1>9. entries' = [x \in DOMAIN entries' |-> entries'[x]]
    BY <1>1
<1>10. Agree(entries', order')
    BY <1>1, <1>4, <1>7, <1>8, <1>9 DEF Agree
<1>11. Len(order') <= CacheMax
    BY <1>1, <1>6, <1>7
<1>12. QED
    BY <1>10, <1>11 DEF CacheOK

LEMMA RemoveOK ==
    ASSUME CacheOK, NEW s, RemoveEntry(s)
    PROVE  CacheOK'
<1>. DEFINE o == RemoveFirst(order, s)
<1>1. /\ order \in Seq(Session) /\ Distinct(order) /\ DOMAIN entries = ToSet(order)
      /\ Len(order) <= CacheMax /\ \A x \in DOMAIN entries : entries[x] \in Owned(x)
    BY DEF CacheOK, Agree
<1>2. o \in Seq(Session) /\ Len(o) <= Len(order) /\ Distinct(o) /\ ToSet(o) = ToSet(order) \ {s}
    BY <1>1, RemoveFirstIs
<1>3. order' = o /\ entries' = [x \in DOMAIN entries \ {s} |-> entries[x]]
    BY DEF RemoveEntry
<1>. HIDE DEF o
<1>4. /\ entries' = [x \in DOMAIN entries' |-> entries'[x]] /\ DOMAIN entries' = DOMAIN entries \ {s}
      /\ \A x \in DOMAIN entries' : entries'[x] = entries[x]
    BY <1>3
<1>5. Agree(entries', order')
    BY <1>1, <1>2, <1>3, <1>4 DEF Agree
<1>6. Len(order') <= CacheMax
    BY <1>1, <1>2, <1>3, LenProperties, CodexRolloutsAssumption
<1>7. QED
    BY <1>5, <1>6 DEF CacheOK

LEMMA TouchOK ==
    ASSUME CacheOK, NEW s \in DOMAIN entries, Touch(s), UNCHANGED entries
    PROVE  CacheOK'
<1>. DEFINE o == Append(RemoveFirst(order, s), s)
<1>1. /\ order \in Seq(Session) /\ Distinct(order) /\ DOMAIN entries = ToSet(order)
      /\ Len(order) <= CacheMax
    BY DEF CacheOK, Agree
<1>2. s \in Session
    BY <1>1, LenProperties, ElementOfSeq DEF ToSet
<1>3. o \in Seq(Session) /\ Distinct(o) /\ ToSet(o) = ToSet(order)
    <2>1. o \in Seq(Session) /\ Distinct(o) /\ ToSet(o) = ToSet(order) \cup {s}
        BY <1>1, <1>2, PushIs
    <2>. HIDE DEF o
    <2>2. QED
        BY <1>1, <2>1
<1>4. order' = o
    BY DEF Touch
<1>. HIDE DEF o
<1>5. Len(o) = Len(order)
    BY <1>1, <1>3, AsManyAsLong
<1>6. QED
    BY <1>1, <1>3, <1>4, <1>5 DEF CacheOK, Agree

-----------------------------------------------------------------------------
(* The files. *)

(* What a rollout tells of a session's parent is the session that spawned  *)
(* it.                                                                     *)
LEMMA ParentIsTrue ==
    ASSUME FilesOK, NEW p \in Path, NEW s \in Session, ParentIn(p, s) # None
    PROVE  ParentIn(p, s) = SpawnedBy[s] /\ ParentIn(p, s) \in Session
<1>. DEFINE I == {i \in 1..Len(record[p]) : record[p][i].id = s /\ record[p][i].parent # None}
            n == RecordOf(p, s)
<1>1. record[p] \in Seq([id : Session, parent : Session \cup {None}])
    BY DEF FilesOK
<1>2. I \in SUBSET Nat
    BY <1>1, LenProperties
<1>3. n = IF I # {} THEN Min(I) ELSE 0
    BY DEF RecordOf, SelectInSeq
<1>4. n # 0 /\ ParentIn(p, s) = record[p][n].parent
    BY DEF ParentIn
<1>5. I # {}
    BY <1>3, <1>4
<1>6. \E i \in I : \A j \in I : i <= j
    BY <1>2, <1>5, MinExists
<1>7. Min(I) \in I
    BY <1>6 DEF Min
<1>8. n \in I
    BY <1>3, <1>5, <1>7
<1>. HIDE DEF n
<1>9. n \in 1..Len(record[p]) /\ record[p][n].id = s /\ record[p][n].parent # None
    BY <1>8
<1>10. record[p][n].parent = SpawnedBy[s]
    BY <1>9 DEF FilesOK
<1>11. QED
    BY <1>4, <1>9, <1>10, CodexRolloutsAssumption

LEMMA StartRolloutKeeps ==
    ASSUME RolloutIInv, NEW p \in Path, StartRollout(p)
    PROVE  RolloutIInv'
<1>. USE DEF RolloutIInv
<1>1. /\ age' = Append(age, p) /\ record' = [record EXCEPT ![p] = <<Meta(OwnerOf[p])>>]
      /\ there' = [t \in Task |-> there[t] \cup ({p} \cap {q \in Path : OwnerOf[q] = wanted[t]})]
      /\ UNCHANGED <<cacheVars, task, wanted, transcript, matches, answer, lineage>>
    BY DEF StartRollout
<1>2. age' \in Seq(Path) /\ Files' = Files \cup {p}
    <2>1. /\ age' \in Seq(Path) /\ Len(age') = Len(age) + 1 /\ age'[Len(age) + 1] = p
          /\ \A i \in 1..Len(age) : age'[i] = age[i]
        BY <1>1, AppendProperties DEF FilesOK
    <2>2. Len(age) \in Nat /\ DOMAIN age = 1..Len(age) /\ DOMAIN age' = 1..(Len(age) + 1)
        BY <2>1, LenProperties DEF FilesOK
    <2>3. QED
        BY <2>1, <2>2 DEF Files, ToSet
<1>3. FilesOK'
    <2>. DEFINE m == Meta(OwnerOf[p])
                M == [id : Session, parent : Session \cup {None}]
    <2>1. OwnerOf[p] \in Session
        BY CodexRolloutsAssumption
    <2>2. m \in M /\ m.parent = SpawnedBy[m.id]
        BY <2>1, CodexRolloutsAssumption DEF Meta
    <2>. HIDE DEF m
    <2>3. record'[p] = <<m>> /\ \A q \in Path \ {p} : record'[q] = record[q]
        BY <1>1 DEF FilesOK, m
    <2>4. record' \in [Path -> Seq(M)]
        <3>1. record \in [Path -> Seq(M)] /\ record' = [record EXCEPT ![p] = <<m>>]
            BY <1>1 DEF FilesOK, m
        <3>. HIDE DEF M
        <3>2. <<m>> \in Seq(M)
            BY <2>2
        <3>3. QED
            BY <3>1, <3>2
    <2>5. ASSUME NEW q \in Path, NEW i \in 1..Len(record'[q])
          PROVE  record'[q][i].parent = SpawnedBy[record'[q][i].id]
        <3>1. CASE q = p
            <4>1. record'[q] = <<m>>
                BY <2>3, <3>1
            <4>2. Len(<<m>>) = 1 /\ <<m>>[1] = m
                OBVIOUS
            <4>3. record'[q][i] = m
                BY <2>5, <4>1, <4>2
            <4>4. QED
                BY <2>2, <4>3
        <3>2. CASE q # p
            BY <2>3, <2>5, <3>2 DEF FilesOK
        <3>3. QED
            BY <3>1, <3>2
    <2>6. QED
        BY <1>2, <2>4, <2>5 DEF FilesOK
<1>4. CacheOK' /\ TaskTypes'
    BY <1>1 DEF cacheVars, CacheOK, TaskTypes
<1>5. ASSUME NEW t \in Task PROVE TaskOK(t)'
    <2>1. there'[t] = there[t] \cup ({p} \cap Owned(wanted[t]))
        BY <1>1 DEF Owned
    <2>2. wanted[t] = None => Owned(wanted[t]) = {}
        BY CodexRolloutsAssumption DEF Owned
    <2>3. TaskOK(t)
        OBVIOUS
    <2>4. QED
        BY <1>1, <1>2, <2>1, <2>2, <2>3 DEF TaskOK, Owned
<1>6. QED
    BY <1>3, <1>4, <1>5

(* A step that takes no file away and none from a task that asks for it.   *)
LEMMA OthersKeep ==
    ASSUME NEW u \in Task, TaskOK(u), Files' \subseteq Files,
           task'[u] = task[u], wanted'[u] = wanted[u], transcript'[u] = transcript[u],
           matches'[u] = matches[u], answer'[u] = answer[u], lineage'[u] = lineage[u],
           there'[u] = there[u]
    PROVE  TaskOK(u)'
    BY DEF TaskOK, Owned

LEMMA SpawnKeeps ==
    ASSUME RolloutIInv, NEW p \in Path, NEW s \in Session, Spawn(s, p)
    PROVE  RolloutIInv'
<1>. USE DEF RolloutIInv
<1>1. /\ p \in Files
      /\ record' = [record EXCEPT ![p] = Append(@, Meta(s))]
      /\ age' = Append(RemoveFirst(age, p), p)
      /\ UNCHANGED <<cacheVars, task, wanted, transcript, matches, answer, lineage, there>>
    BY DEF Spawn
<1>2. age' \in Seq(Path) /\ Files' \subseteq Files
    <2>1. age' \in Seq(Path) /\ ToSet(age') \subseteq ToSet(age) \cup {p}
        BY <1>1, PushIs DEF FilesOK
    <2>2. QED
        BY <1>1, <2>1 DEF Files
<1>3. FilesOK'
    <2>. DEFINE m == Meta(s)
                M == [id : Session, parent : Session \cup {None}]
    <2>1. m \in M /\ m.parent = SpawnedBy[m.id]
        BY CodexRolloutsAssumption DEF Meta
    <2>2. record[p] \in Seq(M)
        BY DEF FilesOK
    <2>. HIDE DEF m
    <2>3. record'[p] = Append(record[p], m) /\ \A q \in Path \ {p} : record'[q] = record[q]
        BY <1>1 DEF FilesOK, m
    <2>4. /\ Append(record[p], m) \in Seq(M) /\ Len(Append(record[p], m)) = Len(record[p]) + 1
          /\ \A i \in 1..Len(record[p]) : Append(record[p], m)[i] = record[p][i]
          /\ Append(record[p], m)[Len(record[p]) + 1] = m
        <3>. HIDE DEF M
        <3>1. QED
            BY <2>1, <2>2, AppendProperties
    <2>5. record' \in [Path -> Seq(M)]
        BY <1>1, <2>4 DEF FilesOK, m
    <2>6. ASSUME NEW q \in Path, NEW i \in 1..Len(record'[q])
          PROVE  record'[q][i].parent = SpawnedBy[record'[q][i].id]
        <3>1. CASE q = p
            <4>1. Len(record[p]) \in Nat
                BY <2>2, LenProperties
            <4>2. i \in 1..Len(record[p]) \/ i = Len(record[p]) + 1
                BY <2>3, <2>4, <2>6, <3>1, <4>1
            <4>3. CASE i \in 1..Len(record[p])
                <5>1. record'[q][i] = record[p][i]
                    BY <2>3, <2>4, <3>1, <4>3
                <5>2. QED
                    BY <4>3, <5>1 DEF FilesOK
            <4>4. CASE i = Len(record[p]) + 1
                <5>1. record'[q][i] = m
                    BY <2>3, <2>4, <3>1, <4>4
                <5>2. QED
                    BY <2>1, <5>1
            <4>5. QED
                BY <4>2, <4>3, <4>4
        <3>2. CASE q # p
            BY <2>3, <2>6, <3>2 DEF FilesOK
        <3>3. QED
            BY <3>1, <3>2
    <2>7. QED
        BY <1>2, <2>5, <2>6 DEF FilesOK
<1>4. CacheOK' /\ TaskTypes'
    BY <1>1 DEF cacheVars, CacheOK, TaskTypes
<1>5. \A t \in Task : TaskOK(t)'
    BY <1>1, <1>2, OthersKeep
<1>6. QED
    BY <1>3, <1>4, <1>5

LEMMA RemoveRolloutKeeps ==
    ASSUME RolloutIInv, NEW p \in Path, RemoveRollout(p)
    PROVE  RolloutIInv'
<1>. USE DEF RolloutIInv
<1>1. /\ age' = RemoveFirst(age, p)
      /\ UNCHANGED <<record, cacheVars, task, wanted, transcript, matches, answer, lineage, there>>
    BY DEF RemoveRollout
<1>2. age' \in Seq(Path) /\ Files' \subseteq Files
    BY <1>1, RemoveFirstIs DEF FilesOK, Files
<1>3. FilesOK' /\ CacheOK' /\ TaskTypes'
    BY <1>1, <1>2 DEF FilesOK, cacheVars, CacheOK, TaskTypes
<1>4. \A t \in Task : TaskOK(t)'
    BY <1>1, <1>2, OthersKeep
<1>5. QED
    BY <1>3, <1>4

-----------------------------------------------------------------------------
(* The tasks. *)

(* A step of one task on the cache leaves the files and the other tasks.   *)
LEMMA OneTask ==
    ASSUME RolloutIInv, NEW t \in Task, UNCHANGED fileVars, CacheOK', TaskTypes', TaskOK(t)',
           \A u \in Task \ {t} :
               /\ task'[u] = task[u] /\ wanted'[u] = wanted[u] /\ transcript'[u] = transcript[u]
               /\ matches'[u] = matches[u] /\ answer'[u] = answer[u]
               /\ lineage'[u] = lineage[u] /\ there'[u] = there[u]
    PROVE  RolloutIInv'
<1>1. FilesOK' /\ Files' = Files
    BY DEF RolloutIInv, FilesOK, fileVars, Files
<1>2. ASSUME NEW u \in Task PROVE TaskOK(u)'
    BY <1>1, OthersKeep DEF RolloutIInv
<1>3. QED
    BY <1>1, <1>2 DEF RolloutIInv

(* The files of a session that are there are known to a task that asks for *)
(* it.                                                                     *)
LEMMA CallKeeps ==
    ASSUME RolloutIInv, NEW t \in Task, NEW s \in Session, Call(t, s)
    PROVE  RolloutIInv'
<1>1. PICK f \in {None} \cup {p \in Files : OwnerOf[p] \in {s, SpawnedBy[s]}} :
          /\ transcript' = [transcript EXCEPT ![t] = f]
          /\ task' = [task EXCEPT ![t] = IF f = None THEN "lookup" ELSE "transcript"]
    BY DEF Call, Goto
<1>2. /\ task[t] = "idle" /\ wanted' = [wanted EXCEPT ![t] = s]
      /\ there' = [there EXCEPT ![t] = {p \in Files : OwnerOf[p] = s}]
      /\ UNCHANGED <<fileVars, cacheVars, matches, answer, lineage>>
    BY DEF Call
<1>3. Files \subseteq Path
    BY LenProperties, ElementOfSeq DEF RolloutIInv, FilesOK, Files, ToSet
<1>4. f \in Path \cup {None}
    BY <1>3
<1>5. CacheOK'
    BY <1>2 DEF RolloutIInv, CacheOK, cacheVars
<1>6. TaskTypes'
    <2>1. TaskTypes
        BY DEF RolloutIInv
    <2>2. transcript' \in [Task -> Path \cup {None}] /\ wanted' \in [Task -> Session \cup {None}]
        BY <1>1, <1>2, <1>4, <2>1 DEF TaskTypes
    <2>3. task' = [u \in Task |-> task'[u]] /\ there' = [u \in Task |-> there'[u]]
        BY <1>1, <1>2, <2>1 DEF TaskTypes
    <2>4. QED
        BY <1>2, <2>1, <2>2, <2>3 DEF TaskTypes
<1>7. TaskOK(t)'
    <2>1. TaskOK(t) /\ TaskTypes
        BY DEF RolloutIInv
    <2>2. /\ task'[t] = IF f = None THEN "lookup" ELSE "transcript"
          /\ transcript'[t] = f /\ wanted'[t] = s /\ there'[t] = Files \cap Owned(s)
          /\ matches'[t] = matches[t] /\ answer'[t] = answer[t] /\ lineage'[t] = lineage[t]
          /\ Files' = Files
        BY <1>1, <1>2, <1>3, <2>1 DEF TaskTypes, Owned, fileVars, Files
    <2>3. matches[t] = {} /\ answer[t] = None /\ lineage[t] = None
        BY <1>2, <2>1 DEF TaskOK
    <2>4. QED
        BY <1>4, <2>2, <2>3 DEF TaskOK, Owned
<1>8. QED
    BY <1>1, <1>2, <1>5, <1>6, <1>7, OneTask DEF RolloutIInv, TaskTypes

LEMMA ReadTranscriptKeeps ==
    ASSUME RolloutIInv, NEW t \in Task, ReadTranscript(t)
    PROVE  RolloutIInv'
<1>. DEFINE l == ParentIn(transcript[t], wanted[t])
            k == IF RecordOf(transcript[t], wanted[t]) = 0 THEN "lookup" ELSE "done"
<1>1. /\ task[t] = "transcript"
      /\ lineage' = [lineage EXCEPT ![t] = l] /\ transcript' = [transcript EXCEPT ![t] = None]
      /\ task' = [task EXCEPT ![t] = k]
      /\ UNCHANGED <<fileVars, cacheVars, wanted, matches, answer, there>>
    BY DEF ReadTranscript, Goto
<1>2. TaskOK(t) /\ TaskTypes /\ FilesOK
    BY DEF RolloutIInv
<1>3. transcript[t] \in Path /\ wanted[t] \in Session
    BY <1>1, <1>2 DEF TaskOK
<1>4. l # None => l = SpawnedBy[wanted[t]] /\ l \in Session
    BY <1>2, <1>3, ParentIsTrue
<1>5. k \in {"lookup", "done"}
    OBVIOUS
<1>. HIDE DEF l, k
<1>6. CacheOK'
    BY <1>1 DEF RolloutIInv, CacheOK, cacheVars
<1>7. TaskTypes'
    <2>1. l \in Session \cup {None}
        BY <1>4
    <2>2. lineage' \in [Task -> Session \cup {None}]
        BY <1>1, <1>2, <2>1 DEF TaskTypes
    <2>3. QED
        BY <1>1, <1>2, <2>2 DEF TaskTypes
<1>8. TaskOK(t)'
    <2>1. /\ task'[t] = k /\ lineage'[t] = l /\ wanted'[t] = wanted[t] /\ there'[t] = there[t]
          /\ matches'[t] = matches[t] /\ answer'[t] = answer[t] /\ Files' = Files
        BY <1>1, <1>2 DEF TaskTypes, fileVars, Files
    <2>2. QED
        BY <1>1, <1>2, <1>4, <1>5, <2>1 DEF TaskOK, Owned
<1>9. QED
    BY <1>1, <1>2, <1>6, <1>7, <1>8, OneTask DEF TaskTypes

LEMMA FailToReadFileKeeps ==
    ASSUME RolloutIInv, NEW t \in Task, FailToReadFile(t)
    PROVE  RolloutIInv'
<1>. DEFINE k == IF task[t] = "transcript" THEN "lookup" ELSE "done"
<1>1. /\ task[t] \in {"transcript", "read"}
      /\ transcript' = [transcript EXCEPT ![t] = None] /\ task' = [task EXCEPT ![t] = k]
      /\ UNCHANGED <<fileVars, cacheVars, wanted, matches, answer, lineage, there>>
    BY DEF FailToReadFile, Goto
<1>2. TaskOK(t) /\ TaskTypes
    BY DEF RolloutIInv
<1>3. k \in {"lookup", "done"}
    OBVIOUS
<1>. HIDE DEF k
<1>4. CacheOK'
    BY <1>1 DEF RolloutIInv, CacheOK, cacheVars
<1>5. TaskTypes'
    BY <1>1, <1>2 DEF TaskTypes
<1>6. TaskOK(t)'
    <2>1. /\ task'[t] = k /\ lineage'[t] = lineage[t] /\ wanted'[t] = wanted[t]
          /\ there'[t] = there[t] /\ matches'[t] = matches[t] /\ answer'[t] = answer[t]
          /\ Files' = Files
        BY <1>1, <1>2 DEF TaskTypes, fileVars, Files
    <2>2. QED
        BY <1>1, <1>2, <1>3, <2>1 DEF TaskOK, Owned
<1>7. QED
    BY <1>1, <1>2, <1>4, <1>5, <1>6, OneTask DEF TaskTypes

(* A cached file that is there is one of the files the task knows.         *)
LEMMA LookupKeeps ==
    ASSUME RolloutIInv, NEW t \in Task, Lookup(t)
    PROVE  RolloutIInv'
<1>1. /\ task[t] = "lookup"
      /\ UNCHANGED <<fileVars, wanted, transcript, matches, lineage, there>>
    BY DEF Lookup
<1>2. TaskOK(t) /\ TaskTypes /\ CacheOK
    BY DEF RolloutIInv
<1>3. /\ wanted[t] \in Session /\ Files \cap Owned(wanted[t]) \subseteq there[t] /\ matches[t] = {}
      /\ there[t] \subseteq Path /\ None \notin Path
    BY <1>1, <1>2, CodexRolloutsAssumption DEF TaskOK, Owned
<1>4. CASE /\ wanted[t] \in DOMAIN entries /\ entries[wanted[t]] \in Files
           /\ Touch(wanted[t]) /\ UNCHANGED entries
           /\ answer' = [answer EXCEPT ![t] = entries[wanted[t]]]
           /\ Goto(t, "read")
    <2>. DEFINE f == entries[wanted[t]]
    <2>1. f \in there[t]
        BY <1>2, <1>3, <1>4 DEF CacheOK, Agree
    <2>2. answer' = [answer EXCEPT ![t] = f] /\ task' = [task EXCEPT ![t] = "read"]
        BY <1>4 DEF Goto
    <2>3. CacheOK'
        BY <1>2, <1>4, TouchOK
    <2>. HIDE DEF f
    <2>4. TaskTypes'
        <3>1. f \in Path \cup {None}
            BY <1>3, <2>1
        <3>2. answer' \in [Task -> Path \cup {None}]
            BY <1>2, <2>2, <3>1 DEF TaskTypes
        <3>3. QED
            BY <1>1, <1>2, <2>2, <3>2 DEF TaskTypes
    <2>5. TaskOK(t)'
        <3>1. /\ task'[t] = "read" /\ answer'[t] = f /\ lineage'[t] = lineage[t]
              /\ wanted'[t] = wanted[t] /\ there'[t] = there[t] /\ matches'[t] = matches[t]
              /\ Files' = Files
            BY <1>1, <1>2, <2>2 DEF TaskTypes, fileVars, Files
        <3>2. f # None
            BY <1>3, <2>1
        <3>3. QED
            BY <1>1, <1>2, <2>1, <3>1, <3>2 DEF TaskOK, Owned
    <2>6. QED
        BY <1>1, <1>2, <2>2, <2>3, <2>4, <2>5, OneTask DEF TaskTypes
<1>5. ASSUME CacheOK', Goto(t, "scan"), UNCHANGED answer
      PROVE  RolloutIInv'
    <2>1. task' = [task EXCEPT ![t] = "scan"]
        BY <1>5 DEF Goto
    <2>2. TaskTypes'
        BY <1>1, <1>2, <1>5, <2>1 DEF TaskTypes
    <2>3. TaskOK(t)'
        <3>1. /\ task'[t] = "scan" /\ answer'[t] = answer[t] /\ lineage'[t] = lineage[t]
              /\ wanted'[t] = wanted[t] /\ there'[t] = there[t] /\ matches'[t] = matches[t]
              /\ Files' = Files
            BY <1>1, <1>2, <1>5, <2>1 DEF TaskTypes, fileVars, Files
        <3>2. QED
            BY <1>1, <1>2, <3>1 DEF TaskOK, Owned
    <2>4. QED
        BY <1>1, <1>2, <1>5, <2>1, <2>2, <2>3, OneTask DEF TaskTypes
<1>6. CASE /\ wanted[t] \in DOMAIN entries /\ entries[wanted[t]] \notin Files
           /\ RemoveEntry(wanted[t])
           /\ Goto(t, "scan") /\ UNCHANGED answer
    BY <1>2, <1>5, <1>6, RemoveOK
<1>7. CASE /\ wanted[t] \notin DOMAIN entries
           /\ Goto(t, "scan") /\ UNCHANGED <<cacheVars, answer>>
    <2>1. CacheOK'
        BY <1>2, <1>7 DEF CacheOK, cacheVars
    <2>2. QED
        BY <1>5, <1>7, <2>1
<1>8. QED
    BY <1>4, <1>6, <1>7 DEF Lookup

LEMMA ScanKeeps ==
    ASSUME RolloutIInv, NEW t \in Task, Scan(t)
    PROVE  RolloutIInv'
<1>. DEFINE m == {p \in Files : OwnerOf[p] = wanted[t]}
            k == IF m = {} THEN "done" ELSE "newest"
<1>1. TaskOK(t) /\ TaskTypes
    BY DEF RolloutIInv
<1>2. /\ task[t] = "scan" /\ matches' = [matches EXCEPT ![t] = m]
      /\ UNCHANGED <<fileVars, cacheVars, wanted, transcript, answer, lineage, there>>
    BY DEF Scan
<1>3. matches'[t] = m
    BY <1>1, <1>2 DEF TaskTypes
<1>4. task' = [task EXCEPT ![t] = k]
    BY <1>3 DEF Scan, Goto
<1>5. Files \subseteq Path
    BY LenProperties, ElementOfSeq DEF RolloutIInv, FilesOK, Files, ToSet
<1>6. m \subseteq there[t] /\ m \subseteq Path
    BY <1>1, <1>2, <1>5 DEF TaskOK, Owned
<1>7. k \in {"done", "newest"} /\ (k # "newest" => m = {})
    OBVIOUS
<1>. HIDE DEF m, k
<1>8. CacheOK'
    BY <1>2 DEF RolloutIInv, CacheOK, cacheVars
<1>9. TaskTypes'
    BY <1>1, <1>2, <1>4, <1>6 DEF TaskTypes
<1>10. TaskOK(t)'
    <2>1. /\ task'[t] = k /\ answer'[t] = answer[t] /\ lineage'[t] = lineage[t]
          /\ wanted'[t] = wanted[t] /\ there'[t] = there[t] /\ Files' = Files
        BY <1>1, <1>2, <1>4 DEF TaskTypes, fileVars, Files
    <2>2. QED
        BY <1>1, <1>2, <1>3, <1>6, <1>7, <2>1 DEF TaskOK, Owned
<1>11. QED
    BY <1>1, <1>2, <1>4, <1>8, <1>9, <1>10, OneTask DEF TaskTypes

LEMMA TakeNewestKeeps ==
    ASSUME RolloutIInv, NEW t \in Task, TakeNewest(t)
    PROVE  RolloutIInv'
<1>1. PICK p \in matches[t] : answer' = [answer EXCEPT ![t] = p]
    BY DEF TakeNewest
<1>2. /\ task[t] = "newest" /\ matches' = [matches EXCEPT ![t] = {}]
      /\ task' = [task EXCEPT ![t] = "insert"]
      /\ UNCHANGED <<fileVars, cacheVars, wanted, transcript, lineage, there>>
    BY DEF TakeNewest, Goto
<1>3. TaskOK(t) /\ TaskTypes
    BY DEF RolloutIInv
<1>4. p \in there[t] /\ p \in Path /\ p # None
    BY <1>3, CodexRolloutsAssumption DEF TaskOK, TaskTypes
<1>5. CacheOK'
    BY <1>2 DEF RolloutIInv, CacheOK, cacheVars
<1>6. TaskTypes'
    BY <1>1, <1>2, <1>3, <1>4 DEF TaskTypes
<1>7. TaskOK(t)'
    <2>1. /\ task'[t] = "insert" /\ answer'[t] = p /\ matches'[t] = {} /\ lineage'[t] = lineage[t]
          /\ wanted'[t] = wanted[t] /\ there'[t] = there[t] /\ Files' = Files
        BY <1>1, <1>2, <1>3 DEF TaskTypes, fileVars, Files
    <2>2. QED
        BY <1>2, <1>3, <1>4, <2>1 DEF TaskOK, Owned
<1>8. QED
    BY <1>1, <1>2, <1>3, <1>5, <1>6, <1>7, OneTask DEF TaskTypes

LEMMA CacheAnswerKeeps ==
    ASSUME RolloutIInv, NEW t \in Task, CacheAnswer(t)
    PROVE  RolloutIInv'
<1>1. /\ task[t] = "insert" /\ InsertEntry(wanted[t], answer[t])
      /\ task' = [task EXCEPT ![t] = "read"]
      /\ UNCHANGED <<fileVars, wanted, transcript, matches, answer, lineage, there>>
    BY DEF CacheAnswer, Goto
<1>2. TaskOK(t) /\ TaskTypes /\ CacheOK
    BY DEF RolloutIInv
<1>3. wanted[t] \in Session /\ answer[t] \in Owned(wanted[t])
    BY <1>1, <1>2 DEF TaskOK
<1>4. CacheOK'
    BY <1>1, <1>2, <1>3, InsertOK
<1>5. TaskTypes'
    BY <1>1, <1>2 DEF TaskTypes
<1>6. TaskOK(t)'
    <2>1. /\ task'[t] = "read" /\ answer'[t] = answer[t] /\ matches'[t] = matches[t]
          /\ lineage'[t] = lineage[t] /\ wanted'[t] = wanted[t] /\ there'[t] = there[t]
          /\ Files' = Files
        BY <1>1, <1>2 DEF TaskTypes, fileVars, Files
    <2>2. QED
        BY <1>1, <1>2, <2>1 DEF TaskOK, Owned
<1>7. QED
    BY <1>1, <1>2, <1>4, <1>5, <1>6, OneTask DEF TaskTypes

LEMMA ReadLineageKeeps ==
    ASSUME RolloutIInv, NEW t \in Task, ReadLineage(t)
    PROVE  RolloutIInv'
<1>. DEFINE l == ParentIn(answer[t], wanted[t])
<1>1. /\ task[t] = "read" /\ lineage' = [lineage EXCEPT ![t] = l]
      /\ task' = [task EXCEPT ![t] = "done"]
      /\ UNCHANGED <<fileVars, cacheVars, wanted, transcript, matches, answer, there>>
    BY DEF ReadLineage, Goto
<1>2. TaskOK(t) /\ TaskTypes /\ FilesOK
    BY DEF RolloutIInv
<1>3. answer[t] \in Path /\ wanted[t] \in Session
    BY <1>1, <1>2 DEF TaskOK, Owned
<1>4. l # None => l = SpawnedBy[wanted[t]] /\ l \in Session
    BY <1>2, <1>3, ParentIsTrue
<1>. HIDE DEF l
<1>5. CacheOK'
    BY <1>1 DEF RolloutIInv, CacheOK, cacheVars
<1>6. TaskTypes'
    <2>1. l \in Session \cup {None}
        BY <1>4
    <2>2. lineage' \in [Task -> Session \cup {None}]
        BY <1>1, <1>2, <2>1 DEF TaskTypes
    <2>3. QED
        BY <1>1, <1>2, <2>2 DEF TaskTypes
<1>7. TaskOK(t)'
    <2>1. /\ task'[t] = "done" /\ lineage'[t] = l /\ wanted'[t] = wanted[t] /\ there'[t] = there[t]
          /\ matches'[t] = matches[t] /\ answer'[t] = answer[t] /\ Files' = Files
        BY <1>1, <1>2 DEF TaskTypes, fileVars, Files
    <2>2. QED
        BY <1>1, <1>2, <1>4, <2>1 DEF TaskOK, Owned
<1>8. QED
    BY <1>1, <1>2, <1>5, <1>6, <1>7, OneTask DEF TaskTypes

LEMMA ReturnKeeps ==
    ASSUME RolloutIInv, NEW t \in Task, Return(t)
    PROVE  RolloutIInv'
<1>1. /\ task[t] = "done" /\ task' = [task EXCEPT ![t] = "idle"]
      /\ wanted' = [wanted EXCEPT ![t] = None] /\ there' = [there EXCEPT ![t] = {}]
      /\ answer' = [answer EXCEPT ![t] = None] /\ lineage' = [lineage EXCEPT ![t] = None]
      /\ UNCHANGED <<fileVars, cacheVars, transcript, matches>>
    BY DEF Return, Goto
<1>2. TaskOK(t) /\ TaskTypes
    BY DEF RolloutIInv
<1>3. CacheOK'
    BY <1>1 DEF RolloutIInv, CacheOK, cacheVars
<1>4. TaskTypes'
    BY <1>1, <1>2 DEF TaskTypes
<1>5. TaskOK(t)'
    <2>1. /\ task'[t] = "idle" /\ wanted'[t] = None /\ there'[t] = {} /\ answer'[t] = None
          /\ lineage'[t] = None /\ matches'[t] = matches[t]
        BY <1>1, <1>2 DEF TaskTypes
    <2>2. QED
        BY <1>1, <1>2, <2>1 DEF TaskOK
<1>6. QED
    BY <1>1, <1>2, <1>3, <1>4, <1>5, OneTask DEF TaskTypes

-----------------------------------------------------------------------------
LEMMA RolloutInitIInv == RolloutInit => RolloutIInv
<1>. SUFFICES ASSUME RolloutInit PROVE RolloutIInv
    OBVIOUS
<1>1. FilesOK
    <2>1. \A p \in Path : record[p] = <<>>
        BY DEF RolloutInit
    <2>2. Len(<<>>) = 0
        OBVIOUS
    <2>3. record \in [Path -> Seq([id : Session, parent : Session \cup {None}])]
        BY EmptySeq DEF RolloutInit
    <2>4. QED
        BY <2>1, <2>2, <2>3 DEF RolloutInit, FilesOK
<1>2. CacheOK
    <2>1. <<>> \in Seq(Session) /\ Len(<<>>) = 0 /\ DOMAIN <<>> = {}
        BY EmptySeq
    <2>2. ToSet(<<>>) = {} /\ Distinct(<<>>)
        BY <2>1 DEF ToSet, Distinct
    <2>3. <<>> = [x \in DOMAIN <<>> |-> <<>>[x]]
        BY <2>1
    <2>4. QED
        BY <2>1, <2>2, <2>3, CodexRolloutsAssumption DEF RolloutInit, CacheOK, Agree
<1>3. TaskTypes
    BY DEF RolloutInit, TaskTypes
<1>4. \A t \in Task : TaskOK(t)
    BY DEF RolloutInit, TaskOK
<1>5. QED
    BY <1>1, <1>2, <1>3, <1>4 DEF RolloutIInv

LEMMA StepKeeps == RolloutIInv /\ [RolloutNext]_rolloutVars => RolloutIInv'
<1>. SUFFICES ASSUME RolloutIInv, [RolloutNext]_rolloutVars PROVE RolloutIInv'
    OBVIOUS
<1>1. ASSUME NEW p \in Path, StartRollout(p) PROVE RolloutIInv'
    BY <1>1, StartRolloutKeeps
<1>2. ASSUME NEW p \in Path, RemoveRollout(p) PROVE RolloutIInv'
    BY <1>2, RemoveRolloutKeeps
<1>3. ASSUME NEW p \in Path, NEW s \in Session, Spawn(s, p) PROVE RolloutIInv'
    BY <1>3, SpawnKeeps
<1>4. ASSUME NEW t \in Task, TaskStep(t) PROVE RolloutIInv'
    BY <1>4, CallKeeps, ReadTranscriptKeeps, LookupKeeps, ScanKeeps, TakeNewestKeeps,
       CacheAnswerKeeps, ReadLineageKeeps, FailToReadFileKeeps, ReturnKeeps DEF TaskStep
<1>5. CASE UNCHANGED rolloutVars
    <2>1. Files' = Files
        BY <1>5 DEF rolloutVars, fileVars, Files
    <2>2. \A t \in Task : TaskOK(t)'
        BY <1>5, <2>1, OthersKeep DEF RolloutIInv, rolloutVars
    <2>3. QED
        BY <1>5, <2>2
           DEF RolloutIInv, rolloutVars, fileVars, cacheVars, FilesOK, CacheOK, TaskTypes
<1>6. QED
    BY <1>1, <1>2, <1>3, <1>4, <1>5 DEF RolloutNext

LEMMA RolloutInvariance == RolloutSpec => []RolloutIInv
BY RolloutInitIInv, StepKeeps, PTL DEF RolloutSpec

LEMMA RolloutTypes == RolloutIInv => RolloutTypeOK
<1>1. SUFFICES ASSUME RolloutIInv PROVE RolloutTypeOK
    OBVIOUS
<1>2. Files \subseteq Path
    BY <1>1, LenProperties, ElementOfSeq DEF RolloutIInv, FilesOK, Files, ToSet
<1>3. /\ DOMAIN entries = ToSet(order) /\ Len(order) <= CacheMax
      /\ \A s \in DOMAIN entries : OwnerOf[entries[s]] = s
    BY <1>1 DEF RolloutIInv, CacheOK, Agree, Owned
<1>4. Cardinality(DOMAIN entries) = Len(order)
    BY <1>1, <1>3, AsManyAsLong DEF RolloutIInv, CacheOK, Agree
<1>5. task \in [Task -> {"idle", "transcript", "lookup", "scan", "newest", "insert", "read", "done"}]
    <2>1. task = [t \in Task |-> task[t]]
        BY <1>1 DEF RolloutIInv, TaskTypes
    <2>2. \A t \in Task : task[t] \in {"idle", "transcript", "lookup", "scan", "newest", "insert", "read", "done"}
        BY <1>1 DEF RolloutIInv, TaskOK
    <2>3. QED
        BY <2>1, <2>2
<1>6. there \in [Task -> SUBSET Path]
    <2>1. there = [t \in Task |-> there[t]]
        BY <1>1 DEF RolloutIInv, TaskTypes
    <2>2. \A t \in Task : there[t] \subseteq Path
        BY <1>1 DEF RolloutIInv, TaskOK, Owned
    <2>3. QED
        BY <2>1, <2>2
<1>7. QED
    BY <1>1, <1>2, <1>3, <1>4, <1>5, <1>6 DEF RolloutTypeOK, RolloutIInv, FilesOK, TaskTypes

(* The types hold, and with them what makes the cache one: its map and its *)
(* queue hold the same sessions, each once, and never more than it may.    *)
(* While the map is too large, then, the loop of insert finds something in *)
(* the queue to evict.                                                     *)
THEOREM RolloutTypeCorrect == RolloutSpec => []RolloutTypeOK
BY RolloutTypes, RolloutInvariance, PTL

(* Whatever other tasks put into the cache or removed from it, a task is   *)
(* given a file of the session it asked for that was there while it asked. *)
THEOREM PathWasThere == RolloutSpec => []RolloutWasThere
<1>1. RolloutIInv => RolloutWasThere
    BY DEF RolloutIInv, TaskOK, RolloutWasThere
<1>2. QED
    BY <1>1, RolloutInvariance, PTL

(* A session is only ever taken for the child of the session that spawned  *)
(* it.                                                                     *)
THEOREM LineageHolds == RolloutSpec => []LineageIsTrue
<1>1. RolloutIInv => LineageIsTrue
    BY DEF RolloutIInv, TaskOK, LineageIsTrue
<1>2. QED
    BY <1>1, RolloutInvariance, PTL
=============================================================================
