-------------------------- MODULE CompactLogProofs --------------------------
(***************************************************************************)
(* Theorems about CompactLog, for any numbers of lines and truncations.    *)
(*                                                                         *)
(* The inductive invariant says what the log looks like, how often a line  *)
(* can have been read given where it ends, which lines before the offset   *)
(* are accounted for, and that nothing older follows what is newest.       *)
(***************************************************************************)
EXTENDS CompactLog, FiniteSetTheorems, SequenceTheorems, WellFoundedInduction, TLAPS

HalfLine == [line : 1..MaxLine, part : {1, 2}]

(* A line is whole in the log when its second half is there. *)
Ended(e) == log[e].part = 2

LogOK ==
    /\ written \in 0..MaxLine
    /\ log \in Seq(HalfLine)
    /\ Len(log) + (IF Open(log) THEN 1 ELSE 0) <= 2 * written
    /\ \A i \in 1..Len(log) : Ended(i) => i > 1 /\ log[i - 1] = Half(log[i].line, 1)
    /\ \A i \in 1..Len(log) : i < Len(log) /\ ~Ended(i) => Ended(i + 1)
    /\ \A i, j \in 1..Len(log) : i <= j => log[i].line <= log[j].line
    /\ \A i, j \in 1..Len(log) : i < j /\ Ended(i) => log[i].line < log[j].line
    /\ \A i \in 1..Len(log) : log[i].line <= written
    /\ Open(log) => log[Len(log)].line = written

Types ==
    /\ truncated \in 0..MaxTruncation /\ basis \in 0..truncated
    /\ watch \in {"start", "sleep", "read", "advance", "apply"}
    /\ offset \in 0..2 * MaxLine /\ length \in 0..2 * MaxLine
    /\ chunk \in Seq(HalfLine) /\ applied \in Seq(1..MaxLine)
    /\ batch \in SUBSET (1..MaxLine) /\ lost \in SUBSET (1..MaxLine)

Found == IF watch = "advance" THEN Whole(chunk) ELSE {}

Known == ToSet(applied) \cup batch

(* How often a line has been applied, or is about to be. *)
Count(s, n) == Cardinality({i \in 1..Len(s) : s[i] = n})
Times(n) == Count(applied, n) + (IF n \in batch THEN 1 ELSE 0)

Finished(n) == n <= written /\ (Open(log) => n # written)

PlaceOK ==
    /\ watch \in {"read", "advance"} => offset <= length
    /\ watch = "start" => offset = 0 /\ applied = <<>>
    /\ watch # "apply" => batch = {}
    /\ \A n \in Known \cup Found : Finished(n)

CountOK ==
    /\ \A n \in 1..MaxLine : Times(n) <= 2
    /\ \A n \in Found : Times(n) <= 1
    /\ \A e \in 1..Len(log) : Ended(e) =>
           /\ watch # "advance" /\ e > offset => Times(log[e].line) <= 1
           /\ watch \in {"sleep", "apply"} /\ Len(log) < offset => Times(log[e].line) <= 1
           /\ watch \in {"read", "advance"} /\ (e > length \/ Len(log) < length)
                  => Times(log[e].line) = 0

CoverOK ==
    basis = truncated =>
        /\ offset <= Len(log)
        /\ watch \in {"read", "advance"} => length <= Len(log)
        /\ \A e \in 1..offset : Ended(e) \/ e = offset => log[e].line \in lost \cup Known
        /\ watch = "advance" =>
               \A e \in (offset + 2)..length : Ended(e) => log[e].line \in Found

LastEnd == IF Open(log) THEN Len(log) - 1 ELSE Len(log)

Tops(m) == \A i \in 1..Len(applied) : applied[i] <= m

OrderOK ==
    /\ LastEnd >= 1 => \A n \in Known \cup Found : n <= log[LastEnd].line
    /\ batch = {} /\ applied # <<>> => Tops(Last(applied))
    /\ batch # {} => \E m \in batch : Tops(m)
    /\ Found # {} => \E m \in Found : Tops(m)

CompactIInv == Types /\ LogOK /\ PlaceOK /\ CountOK /\ CoverOK /\ OrderOK

-----------------------------------------------------------------------------
(* Numbers, and how often a number occurs. *)
LEMMA MinIs ==
    ASSUME NEW I \in SUBSET Nat, I # {}
    PROVE  Min(I) \in I /\ \A y \in I : Min(I) <= y
<1>. DEFINE R == OpToRel(<, Nat)
<1>1. IsWellFoundedOn(R, Nat)
    BY NatLessThanWellFounded
<1>. HIDE DEF R
<1>2. PICK x \in I : \A y \in I : ~(<<y, x>> \in R)
    BY <1>1, WFMin
<1>3. \A y \in I : ~(y < x)
    BY <1>2 DEF R, OpToRel
<1>4. \E z \in I : \A y \in I : z <= y
    BY <1>3
<1>5. QED
    BY <1>4 DEF Min

LEMMA CountType ==
    ASSUME NEW S, NEW s \in Seq(S), NEW n
    PROVE  /\ IsFiniteSet({i \in 1..Len(s) : s[i] = n}) /\ Count(s, n) \in Nat
           /\ n \notin ToSet(s) => Count(s, n) = 0
<1>. DEFINE I == {i \in 1..Len(s) : s[i] = n}
<1>1. Len(s) \in Nat /\ DOMAIN s = 1..Len(s)
    BY LenProperties
<1>2. IsFiniteSet(1..Len(s)) /\ I \in SUBSET (1..Len(s))
    BY <1>1, FS_Interval
<1>3. IsFiniteSet(I)
    BY <1>2, FS_Subset
<1>4. Cardinality(I) \in Nat
    BY <1>3, FS_CardinalityType
<1>5. n \notin ToSet(s) => I = {}
    BY <1>1 DEF ToSet
<1>6. QED
    BY <1>3, <1>4, <1>5, FS_EmptySet DEF Count

LEMMA CountAppend ==
    ASSUME NEW S, NEW s \in Seq(S), NEW m \in S, NEW n
    PROVE  Count(Append(s, m), n) = Count(s, n) + (IF m = n THEN 1 ELSE 0)
<1>. DEFINE t == Append(s, m)
            I == {i \in 1..Len(s) : s[i] = n}
            J == {i \in 1..Len(t) : t[i] = n}
<1>1. /\ Len(s) \in Nat /\ Len(t) = Len(s) + 1 /\ t[Len(s) + 1] = m
      /\ \A i \in 1..Len(s) : t[i] = s[i]
    BY LenProperties, AppendProperties
<1>2. IsFiniteSet(I) /\ Cardinality(I) \in Nat
    BY CountType DEF Count
<1>. HIDE DEF t
<1>3. CASE m = n
    <2>1. J = I \cup {Len(s) + 1}
        BY <1>1, <1>3
    <2>2. Len(s) + 1 \notin I
        BY <1>1
    <2>. HIDE DEF I, J
    <2>3. Cardinality(J) = Cardinality(I) + 1
        BY <1>2, <2>1, <2>2, FS_AddElement
    <2>4. QED
        BY <1>3, <2>3 DEF Count, I, J, t
<1>4. CASE m # n
    <2>1. J = I
        BY <1>1, <1>4
    <2>2. Cardinality(J) = Cardinality(I)
        BY <2>1
    <2>. HIDE DEF I, J
    <2>3. Cardinality(J) = Cardinality(I) + 0
        BY <1>2, <2>2
    <2>4. QED
        BY <1>4, <2>3 DEF Count, I, J, t
<1>5. QED
    BY <1>3, <1>4

LEMMA TimesType ==
    ASSUME Types, NEW n
    PROVE  /\ Times(n) \in Nat
           /\ n \notin Known => Times(n) = 0
<1>1. applied \in Seq(1..MaxLine)
    BY DEF Types
<1>2. Count(applied, n) \in Nat /\ (n \notin ToSet(applied) => Count(applied, n) = 0)
    BY <1>1, CountType
<1>3. QED
    BY <1>2 DEF Times, Known

-----------------------------------------------------------------------------
(* The log. *)
LEMMA HalfIs == \A n, p : Half(n, p).line = n /\ Half(n, p).part = p
BY DEF Half

LEMMA LogElements ==
    ASSUME LogOK
    PROVE  /\ Len(log) \in Nat /\ written \in Nat
           /\ \A i \in 1..Len(log) : /\ log[i] \in HalfLine /\ log[i] = Half(log[i].line, log[i].part)
                                     /\ log[i].line \in 1..MaxLine /\ log[i].part \in {1, 2}
           /\ Open(log) <=> Len(log) > 0 /\ ~Ended(Len(log))
<1>1. log \in Seq(HalfLine) /\ written \in Nat
    BY CompactLogAssumption DEF LogOK
<1>2. Len(log) \in Nat /\ \A i \in 1..Len(log) : log[i] \in HalfLine
    BY <1>1, LenProperties, ElementOfSeq
<1>3. \A h \in HalfLine : h = Half(h.line, h.part) /\ h.line \in 1..MaxLine /\ h.part \in {1, 2}
    BY DEF HalfLine, Half
<1>4. log = <<>> <=> Len(log) = 0
    BY <1>1, EmptySeq
<1>5. Open(log) <=> Len(log) > 0 /\ ~Ended(Len(log))
    <2>1. Open(log) <=> log # <<>> /\ log[Len(log)].part = 1
        BY DEF Open, Last
    <2>2. CASE Len(log) = 0
        BY <1>4, <2>1, <2>2
    <2>3. CASE Len(log) > 0
        <3>1. Len(log) \in 1..Len(log)
            BY <1>2, <2>3
        <3>2. log[Len(log)].part \in {1, 2}
            BY <1>2, <1>3, <3>1
        <3>3. QED
            BY <1>4, <2>1, <2>3, <3>2 DEF Ended
    <2>4. QED
        BY <1>2, <2>2, <2>3
<1>6. QED
    BY <1>1, <1>2, <1>3, <1>5

LEMMA WholeIs ==
    ASSUME NEW s \in Seq(HalfLine)
    PROVE  Whole(s) = {n \in 1..MaxLine : \E i \in 1..Len(s) - 1 :
                                              s[i] = Half(n, 1) /\ s[i + 1] = Half(n, 2)}
<1>1. Len(s) \in Nat /\ \A i \in 1..Len(s) : s[i] \in HalfLine
    BY LenProperties, ElementOfSeq
<1>2. ASSUME NEW i \in 1..Len(s) - 1, NEW n
      PROVE  SubSeq(s, i, i + 1) = Line(n) <=> s[i] = Half(n, 1) /\ s[i + 1] = Half(n, 2)
    <2>. DEFINE q == SubSeq(s, i, i + 1)
    <2>1. i \in Int /\ i + 1 \in Int /\ \A j \in i..i + 1 : s[j] \in HalfLine
        BY <1>1
    <2>2. /\ q \in Seq(HalfLine) /\ Len(q) = IF i <= i + 1 THEN i + 1 - i + 1 ELSE 0
          /\ \A j \in 1..(i + 1 - i + 1) : q[j] = s[i + j - 1]
        BY <2>1, SubSeqProperties
    <2>3. Len(q) = 2 /\ i + 1 - i + 1 = 2
        BY <1>1, <2>2
    <2>4. q[1] = s[i] /\ q[2] = s[i + 1]
        <3>1. i + 1 - 1 = i /\ i + 2 - 1 = i + 1 /\ 1 \in 1..2 /\ 2 \in 1..2
            BY <1>1
        <3>. HIDE DEF q
        <3>2. q[1] = s[i + 1 - 1] /\ q[2] = s[i + 2 - 1]
            BY <2>2, <2>3, <3>1
        <3>3. QED
            BY <3>1, <3>2
    <2>. HIDE DEF q
    <2>5. q = <<q[1], q[2]>>
        BY <2>2, <2>3
    <2>6. q = Line(n) <=> q[1] = Half(n, 1) /\ q[2] = Half(n, 2)
        <3>1. ASSUME q = Line(n) PROVE q[1] = Half(n, 1) /\ q[2] = Half(n, 2)
            BY <3>1 DEF Line
        <3>2. ASSUME q[1] = Half(n, 1), q[2] = Half(n, 2) PROVE q = Line(n)
            BY <2>5, <3>2 DEF Line
        <3>3. QED
            BY <3>1, <3>2
    <2>7. QED
        BY <2>4, <2>6 DEF q
<1>3. QED
    BY <1>2 DEF Whole

(* The whole lines of what follows a, and of what comes before b. *)
LEMMA RestWhole ==
    ASSUME LogOK, NEW a \in Nat
    PROVE  LET c == SubSeq(log, a + 1, Len(log))
           IN  /\ c \in Seq(HalfLine)
               /\ \A n \in Whole(c) : \E e \in a + 2..Len(log) : Ended(e) /\ log[e].line = n
               /\ \A e \in a + 2..Len(log) : Ended(e) => log[e].line \in Whole(c)
<1>. DEFINE c == SubSeq(log, a + 1, Len(log))
            L == Len(log)
<1>1. /\ L \in Nat /\ log \in Seq(HalfLine)
      /\ \A i \in 1..L : log[i] \in HalfLine /\ log[i] = Half(log[i].line, log[i].part)
                         /\ log[i].line \in 1..MaxLine
      /\ \A i \in 1..L : Ended(i) => i > 1 /\ log[i - 1] = Half(log[i].line, 1)
    BY LogElements DEF LogOK
<1>2. /\ c \in Seq(HalfLine) /\ Len(c) = IF a + 1 <= L THEN L - (a + 1) + 1 ELSE 0
      /\ \A j \in 1..(L - (a + 1) + 1) : c[j] = log[a + 1 + j - 1]
    <2>1. a + 1 \in Int /\ L \in Int /\ \A j \in a + 1..L : log[j] \in HalfLine
        BY <1>1
    <2>2. QED
        BY <2>1, SubSeqProperties
<1>. HIDE DEF c, L
<1>3. Len(c) = (IF a < L THEN L - a ELSE 0) /\ \A j \in 1..L - a : c[j] = log[a + j]
    <2>1. \A j \in 1..L - a : a + 1 + j - 1 = a + j /\ j \in 1..(L - (a + 1) + 1)
        BY <1>1
    <2>2. \A j \in 1..L - a : c[j] = log[a + j]
        BY <1>2, <2>1
    <2>3. QED
        BY <1>1, <1>2, <2>2
<1>4. Whole(c) = {n \in 1..MaxLine : \E i \in 1..Len(c) - 1 :
                                         c[i] = Half(n, 1) /\ c[i + 1] = Half(n, 2)}
    BY <1>2, WholeIs
<1>5. ASSUME NEW n \in Whole(c)
      PROVE  \E e \in a + 2..L : Ended(e) /\ log[e].line = n
    <2>1. PICK i \in 1..Len(c) - 1 : c[i + 1] = Half(n, 2)
        BY <1>4, <1>5
    <2>2. i + 1 \in 1..L - a /\ a + (i + 1) \in a + 2..L
        BY <1>1, <1>3, <2>1
    <2>3. log[a + (i + 1)] = Half(n, 2)
        BY <1>3, <2>1, <2>2
    <2>4. Ended(a + (i + 1)) /\ log[a + (i + 1)].line = n
        BY <2>3, HalfIs DEF Ended
    <2>5. QED
        BY <2>2, <2>4
<1>6. ASSUME NEW e \in a + 2..L, Ended(e)
      PROVE  log[e].line \in Whole(c)
    <2>1. e \in 1..L /\ e - a \in 1..L - a /\ e - a - 1 \in 1..Len(c) - 1 /\ e - a - 1 \in 1..L - a
        BY <1>1, <1>3
    <2>2. a + (e - a) = e /\ a + (e - a - 1) = e - 1 /\ e - a - 1 + 1 = e - a
        BY <1>1
    <2>3. c[e - a] = log[e] /\ c[e - a - 1] = log[e - 1]
        BY <1>3, <2>1, <2>2
    <2>4. log[e] = Half(log[e].line, 2) /\ log[e - 1] = Half(log[e].line, 1)
        BY <1>1, <1>6, <2>1 DEF Ended
    <2>5. QED
        BY <1>1, <1>4, <2>1, <2>2, <2>3, <2>4
<1>7. QED
    BY <1>2, <1>5, <1>6 DEF c, L

LEMMA PrefixWhole ==
    ASSUME LogOK, NEW b \in 0..Len(log), NEW n \in Whole(SubSeq(log, 1, b))
    PROVE  \E e \in 1..b : Ended(e) /\ log[e].line = n
<1>. DEFINE c == SubSeq(log, 1, b)
<1>1. Len(log) \in Nat /\ log \in Seq(HalfLine) /\ \A i \in 1..Len(log) : log[i] \in HalfLine
    BY LogElements DEF LogOK
<1>2. /\ c \in Seq(HalfLine) /\ Len(c) = IF 1 <= b THEN b - 1 + 1 ELSE 0
      /\ \A j \in 1..(b - 1 + 1) : c[j] = log[1 + j - 1]
    <2>1. 1 \in Int /\ b \in Int /\ \A j \in 1..b : log[j] \in HalfLine
        BY <1>1
    <2>2. QED
        BY <2>1, SubSeqProperties
<1>3. n \in Whole(c)
    OBVIOUS
<1>. HIDE DEF c
<1>4. Len(c) = b /\ \A j \in 1..b : c[j] = log[j]
    <2>1. \A j \in 1..b : 1 + j - 1 = j /\ j \in 1..(b - 1 + 1)
        BY <1>1
    <2>2. \A j \in 1..b : c[j] = log[j]
        BY <1>2, <2>1
    <2>3. QED
        BY <1>1, <1>2, <2>2
<1>5. PICK i \in 1..Len(c) - 1 : c[i + 1] = Half(n, 2)
    BY <1>2, <1>3, WholeIs
<1>6. i + 1 \in 1..b
    BY <1>1, <1>4, <1>5
<1>7. log[i + 1] = Half(n, 2)
    BY <1>4, <1>5, <1>6
<1>8. Ended(i + 1) /\ log[i + 1].line = n
    BY <1>7, HalfIs DEF Ended
<1>9. QED
    BY <1>6, <1>8

LEMMA LastEndIs ==
    ASSUME LogOK
    PROVE  /\ LastEnd \in 0..Len(log)
           /\ \A e \in 1..Len(log) : Ended(e) => e <= LastEnd /\ log[e].line <= log[LastEnd].line
                                                 /\ Finished(log[e].line)
           /\ LastEnd >= 1 => LastEnd \in 1..Len(log) /\ Ended(LastEnd)
<1>1. /\ Len(log) \in Nat /\ written \in Nat
      /\ \A i \in 1..Len(log) : log[i].line \in 1..MaxLine
      /\ Open(log) <=> Len(log) > 0 /\ ~Ended(Len(log))
    BY LogElements
<1>2. /\ \A i \in 1..Len(log) : i < Len(log) /\ ~Ended(i) => Ended(i + 1)
      /\ \A i, j \in 1..Len(log) : i <= j => log[i].line <= log[j].line
      /\ \A i, j \in 1..Len(log) : i < j /\ Ended(i) => log[i].line < log[j].line
      /\ \A i \in 1..Len(log) : log[i].line <= written
      /\ Open(log) => log[Len(log)].line = written
    BY DEF LogOK
<1>3. LastEnd \in Nat /\ LastEnd <= Len(log)
    BY <1>1 DEF LastEnd
<1>4. LastEnd >= 1 => LastEnd \in 1..Len(log) /\ Ended(LastEnd)
    <2>1. ASSUME Open(log), Len(log) - 1 >= 1, ~Ended(Len(log) - 1)
          PROVE  FALSE
        <3>1. Len(log) - 1 \in 1..Len(log) /\ Len(log) - 1 + 1 = Len(log) /\ Len(log) - 1 < Len(log)
            BY <1>1, <2>1
        <3>2. Ended(Len(log) - 1 + 1)
            BY <1>2, <2>1, <3>1
        <3>3. QED
            BY <1>1, <2>1, <3>1, <3>2
    <2>2. QED
        BY <1>1, <2>1 DEF LastEnd
<1>5. ASSUME NEW e \in 1..Len(log), Ended(e)
      PROVE  e <= LastEnd /\ log[e].line <= log[LastEnd].line /\ Finished(log[e].line)
    <2>1. Open(log) => e # Len(log)
        BY <1>1, <1>5
    <2>2. e <= LastEnd
        BY <1>1, <2>1 DEF LastEnd
    <2>3. LastEnd \in 1..Len(log)
        BY <1>3, <2>2
    <2>4. log[e].line <= log[LastEnd].line
        BY <1>2, <2>2, <2>3
    <2>5. ASSUME Open(log) PROVE log[e].line # written
        <3>1. e < Len(log) /\ Len(log) \in 1..Len(log)
            BY <1>1, <2>1, <2>5
        <3>2. log[e].line < log[Len(log)].line /\ log[Len(log)].line = written
            BY <1>2, <1>5, <2>5, <3>1
        <3>3. log[e].line \in 1..MaxLine
            BY <1>1
        <3>4. QED
            BY <1>1, <3>2, <3>3
    <2>6. Finished(log[e].line)
        BY <1>2, <2>5 DEF Finished
    <2>7. QED
        BY <2>2, <2>4, <2>6
<1>6. QED
    BY <1>1, <1>3, <1>4, <1>5

LastEndOK == LastEnd \in 0..Len(log) /\ (LastEnd >= 1 => Ended(LastEnd))

LEMMA LastEndNext == LogOK' => LastEndOK'
<1>1. LogOK => LastEndOK
    BY LastEndIs DEF LastEndOK
<1>2. QED
    BY <1>1, PTL

-----------------------------------------------------------------------------
(* What a step that leaves the log, or what is applied, alone leaves alone. *)
LEMMA SameTimes ==
    ASSUME UNCHANGED <<applied, batch>>
    PROVE  /\ Known' = Known /\ \A n : Times(n)' = Times(n)
           /\ \A m : Tops(m)' <=> Tops(m)
BY DEF Known, Times, Count, Tops

LEMMA SameLog ==
    ASSUME UNCHANGED <<log, written>>
    PROVE  /\ LogOK' <=> LogOK
           /\ LastEnd' = LastEnd /\ (Open(log)' <=> Open(log))
           /\ \A n : Finished(n)' <=> Finished(n)
           /\ \A e : Ended(e)' <=> Ended(e)
BY DEF LogOK, LastEnd, Open, Finished, Ended

LEMMA AppliedIsKnown ==
    ASSUME Types
    PROVE  /\ Len(applied) \in Nat /\ \A i \in 1..Len(applied) : applied[i] \in Known
           /\ Known \subseteq 1..MaxLine /\ (applied = <<>> <=> Len(applied) = 0)
           /\ \A n \in 1..MaxLine : Times(n) \in Nat
<1>1. applied \in Seq(1..MaxLine) /\ batch \in SUBSET (1..MaxLine)
    BY DEF Types
<1>2. Len(applied) \in Nat /\ DOMAIN applied = 1..Len(applied)
      /\ (applied = <<>> <=> Len(applied) = 0) /\ \A i \in 1..Len(applied) : applied[i] \in 1..MaxLine
    BY <1>1, LenProperties, EmptySeq, ElementOfSeq
<1>3. \A n \in 1..MaxLine : Times(n) \in Nat
    BY TimesType
<1>4. QED
    BY <1>1, <1>2, <1>3 DEF Known, ToSet

LEMMA InitHolds == CompactInit => CompactIInv
<1>. SUFFICES ASSUME CompactInit PROVE CompactIInv
    OBVIOUS
<1>. USE CompactLogAssumption
<1>1. Len(<<>>) = 0 /\ ~Open(<<>>)
    BY DEF Open
<1>2. Types
    BY EmptySeq DEF CompactInit, Types
<1>3. LogOK
    BY <1>1, EmptySeq DEF CompactInit, LogOK
<1>4. Known = {} /\ Found = {}
    <2>1. \A i \in DOMAIN applied : FALSE
        <3>1. Len(applied) = 0 /\ DOMAIN applied = 1..Len(applied)
            BY <1>1, <1>2, LenProperties DEF CompactInit, Types
        <3>2. QED
            BY <3>1
    <2>2. QED
        BY <2>1 DEF CompactInit, Known, Found, ToSet
<1>5. PlaceOK
    BY <1>4 DEF CompactInit, PlaceOK
<1>6. CountOK
    <2>1. \A n : Times(n) = 0
        BY <1>2, <1>4, TimesType
    <2>2. Len(log) = 0
        BY <1>1 DEF CompactInit
    <2>3. QED
        BY <1>4, <2>1, <2>2 DEF CountOK
<1>7. CoverOK
    BY <1>1 DEF CompactInit, CoverOK
<1>8. OrderOK
    BY <1>4 DEF CompactInit, OrderOK
<1>9. QED
    BY <1>2, <1>3, <1>5, <1>6, <1>7, <1>8 DEF CompactIInv

-----------------------------------------------------------------------------
(* Codex writes.  A line that grows is not one the watcher knows. *)
LEMMA GrowKeeps ==
    ASSUME CompactIInv, LogOK', Len(log') \in Nat, Len(log) < Len(log'), written <= written',
           \A i \in 1..Len(log) : log'[i] = log[i],
           \A i \in Len(log) + 1..Len(log') : log'[i].line = written',
           ~Finished(written'),
           UNCHANGED <<truncated, watch, offset, length, chunk, batch, applied, basis, lost>>
    PROVE  CompactIInv'
<1>1. /\ Types /\ LogOK /\ PlaceOK /\ CountOK /\ CoverOK /\ OrderOK
      /\ Len(log) \in Nat /\ written \in Nat /\ written' \in 1..MaxLine
    <2>1. Types /\ LogOK /\ PlaceOK /\ CountOK /\ CoverOK /\ OrderOK
        BY DEF CompactIInv
    <2>2. Len(log) \in Nat /\ written \in Nat
        BY <2>1, LogElements
    <2>3. written' \in 0..MaxLine /\ Len(log') <= 2 * written'
        BY CompactLogAssumption DEF LogOK
    <2>4. written' \in 1..MaxLine
        BY <2>2, <2>3, CompactLogAssumption
    <2>5. QED
        BY <2>1, <2>2, <2>4
<1>2. /\ Known' = Known /\ (\A n : Times(n)' = Times(n)) /\ (\A m : Tops(m)' <=> Tops(m))
      /\ Found' = Found
    BY SameTimes DEF Found, Whole
<1>3. /\ Types' /\ \A e \in 1..Len(log) : Ended(e)' <=> Ended(e)
    BY <1>1 DEF Types, Ended
<1>4. Known \subseteq 1..MaxLine /\ Found \subseteq 1..MaxLine
    BY <1>1, AppliedIsKnown DEF Found, Whole
<1>5. \A n \in Known \cup Found : Finished(n) /\ Finished(n)' /\ n # written' /\ n <= written'
    <2>1. TAKE n \in Known \cup Found
    <2>2. Finished(n) /\ n # written' /\ n \in 1..MaxLine
        BY <1>1, <1>4 DEF PlaceOK
    <2>3. n <= written'
        BY <1>1, <2>2 DEF Finished
    <2>4. QED
        BY <2>2, <2>3 DEF Finished
<1>6. PlaceOK'
    BY <1>1, <1>2, <1>5 DEF PlaceOK
<1>7. \A e \in 1..Len(log') : e \in 1..Len(log) \/ Times(log'[e].line) = 0
    <2>1. Times(written') = 0
        BY <1>1, <1>5, TimesType
    <2>2. QED
        BY <1>1, <2>1
<1>8. CountOK'
    <2>1. /\ \A n \in 1..MaxLine : Times(n)' <= 2
          /\ \A n \in Found' : Times(n)' <= 1
        BY <1>1, <1>2 DEF CountOK
    <2>2. ASSUME NEW e \in 1..Len(log'), Ended(e)'
          PROVE  /\ watch' # "advance" /\ e > offset' => Times(log'[e].line) <= 1
                 /\ watch' \in {"sleep", "apply"} /\ Len(log') < offset' => Times(log'[e].line) <= 1
                 /\ watch' \in {"read", "advance"} /\ (e > length' \/ Len(log') < length')
                        => Times(log'[e].line) = 0
        <3>1. CASE e \in 1..Len(log)
            <4>1. Ended(e) /\ log'[e] = log[e]
                BY <1>3, <2>2, <3>1
            <4>2. /\ watch # "advance" /\ e > offset => Times(log[e].line) <= 1
                  /\ watch \in {"sleep", "apply"} /\ Len(log) < offset => Times(log[e].line) <= 1
                  /\ watch \in {"read", "advance"} /\ (e > length \/ Len(log) < length)
                        => Times(log[e].line) = 0
                BY <1>1, <3>1, <4>1 DEF CountOK
            <4>3. /\ Len(log') < offset' => Len(log) < offset
                  /\ Len(log') < length' => Len(log) < length
                BY <1>1 DEF Types
            <4>4. QED
                BY <4>1, <4>2, <4>3
        <3>2. CASE Times(log'[e].line) = 0
            BY <3>2
        <3>3. QED
            BY <1>7, <3>1, <3>2
    <2>3. QED
        BY <1>2, <2>1, <2>2 DEF CountOK
<1>9. CoverOK'
    <2>1. SUFFICES ASSUME basis = truncated PROVE CoverOK'
        BY DEF CoverOK
    <2>2. /\ offset <= Len(log)
          /\ watch \in {"read", "advance"} => length <= Len(log)
          /\ \A e \in 1..offset : Ended(e) \/ e = offset => log[e].line \in lost \cup Known
          /\ watch = "advance" => \A e \in (offset + 2)..length : Ended(e) => log[e].line \in Found
        BY <1>1, <2>1 DEF CoverOK
    <2>3. /\ offset <= Len(log') /\ (watch \in {"read", "advance"} => length <= Len(log'))
          /\ \A e \in 1..offset : e \in 1..Len(log)
          /\ watch = "advance" => \A e \in (offset + 2)..length : e \in 1..Len(log)
        BY <1>1, <2>2 DEF Types
    <2>4. /\ \A e \in 1..offset : Ended(e)' \/ e = offset => log'[e].line \in lost \cup Known
          /\ watch = "advance" => \A e \in (offset + 2)..length : Ended(e)' => log'[e].line \in Found
        BY <1>3, <2>2, <2>3
    <2>5. QED
        BY <1>2, <2>3, <2>4 DEF CoverOK
<1>10. OrderOK'
    <2>1. /\ LastEnd >= 1 => \A n \in Known \cup Found : n <= log[LastEnd].line
          /\ LastEnd' \in 0..Len(log') /\ LastEnd' >= Len(log)
          /\ LastEnd' >= 1 => Ended(LastEnd)'
        <3>1. /\ LastEnd' \in 0..Len(log') /\ (LastEnd' >= 1 => Ended(LastEnd)')
            BY LastEndNext DEF LastEndOK
        <3>2. LastEnd' >= Len(log)
            BY <1>1 DEF LastEnd
        <3>3. QED
            BY <1>1, <3>1, <3>2 DEF OrderOK
    <2>2. ASSUME LastEnd' >= 1, NEW n \in Known \cup Found
          PROVE  n <= log'[LastEnd'].line
        <3>1. CASE LastEnd' > Len(log)
            <4>1. log'[LastEnd'].line = written'
                BY <1>1, <2>1, <3>1
            <4>2. QED
                BY <1>5, <4>1
        <3>2. CASE LastEnd' = Len(log)
            <4>1. Len(log) \in 1..Len(log) /\ Ended(Len(log))
                BY <1>1, <1>3, <2>1, <2>2, <3>2 DEF Ended
            <4>2. LastEnd = Len(log)
                BY <1>1, <4>1, LogElements DEF LastEnd
            <4>3. QED
                BY <1>1, <2>1, <3>2, <4>1, <4>2
        <3>3. QED
            BY <1>1, <2>1, <3>1, <3>2
    <2>3. QED
        BY <1>1, <1>2, <2>2 DEF OrderOK
<1>11. QED
    BY <1>3, <1>6, <1>8, <1>9, <1>10 DEF CompactIInv

(* A log that grows by a half line, or by a whole one. *)
LEMMA WriteKeeps == CompactIInv /\ WriteLine => CompactIInv'
<1>. SUFFICES ASSUME CompactIInv, WriteLine PROVE CompactIInv'
    OBVIOUS
<1>. DEFINE w == written + 1
            L == Len(log)
<1>1. /\ LogOK /\ ~Open(log) /\ written < MaxLine /\ written' = w
      /\ UNCHANGED <<truncated, watch, offset, length, chunk, batch, applied, basis, lost>>
      /\ log' = log \o Line(w) \/ log' = Append(log, Half(w, 1))
    BY DEF CompactIInv, WriteLine
<1>2. /\ L \in Nat /\ written \in Nat /\ log \in Seq(HalfLine)
      /\ \A i \in 1..L : log[i].line \in 1..MaxLine /\ log[i].line <= written
                         /\ log[i].part \in {1, 2}
      /\ L > 0 => Ended(L)
      /\ L <= 2 * written
    <2>1. /\ L \in Nat /\ written \in Nat /\ (L > 0 => Ended(L))
          /\ \A i \in 1..L : log[i].line \in 1..MaxLine /\ log[i].part \in {1, 2}
        BY <1>1, LogElements
    <2>2. /\ log \in Seq(HalfLine) /\ \A i \in 1..L : log[i].line <= written
          /\ L + (IF Open(log) THEN 1 ELSE 0) <= 2 * written
        BY <1>1 DEF LogOK
    <2>3. QED
        BY <1>1, <2>1, <2>2
<1>3. /\ w \in 1..MaxLine /\ Half(w, 1) \in HalfLine /\ Half(w, 2) \in HalfLine
      /\ ~Finished(w) /\ written <= w
    BY <1>1, <1>2, CompactLogAssumption DEF Half, HalfLine, Finished
<1>. HIDE DEF w
<1>4. /\ log' \in Seq(HalfLine) /\ Len(log') \in {L + 1, L + 2}
      /\ \A i \in 1..L : log'[i] = log[i]
      /\ log'[L + 1] = Half(w, 1) /\ (Len(log') = L + 2 => log'[L + 2] = Half(w, 2))
    <2>1. CASE log' = Append(log, Half(w, 1))
        <3>1. /\ log' \in Seq(HalfLine) /\ Len(log') = L + 1 /\ log'[L + 1] = Half(w, 1)
              /\ \A i \in 1..L : log'[i] = log[i]
            BY <1>2, <1>3, <2>1, AppendProperties
        <3>2. QED
            BY <1>2, <3>1
    <2>2. CASE log' = log \o Line(w)
        <3>1. /\ Line(w) \in Seq(HalfLine) /\ Len(Line(w)) = 2
              /\ Line(w)[1] = Half(w, 1) /\ Line(w)[2] = Half(w, 2)
            BY <1>3 DEF Line
        <3>. DEFINE t == Line(w)
        <3>2. /\ log' \in Seq(HalfLine) /\ Len(log') = L + Len(t)
              /\ \A i \in 1..L + Len(t) : log'[i] = IF i <= L THEN log[i] ELSE t[i - L]
            BY <1>2, <2>2, <3>1, ConcatProperties
        <3>. HIDE DEF t
        <3>3. /\ \A i \in 1..L : log'[i] = log[i]
              /\ log'[L + 1] = t[L + 1 - L] /\ log'[L + 2] = t[L + 2 - L]
            BY <1>2, <3>1, <3>2 DEF t
        <3>4. L + 1 - L = 1 /\ L + 2 - L = 2
            BY <1>2
        <3>5. QED
            BY <3>1, <3>2, <3>3, <3>4 DEF t
    <2>3. QED
        BY <1>1, <2>1, <2>2
<1>5. \A i \in 1..Len(log') : \/ i \in 1..L /\ log'[i] = log[i]
                              \/ i = L + 1 /\ log'[i] = Half(w, 1)
                              \/ i = L + 2 /\ log'[i] = Half(w, 2)
    BY <1>2, <1>4
<1>6. /\ \A i \in L + 1..Len(log') : log'[i].line = w
      /\ \A i \in 1..Len(log') : /\ i \in 1..L => (Ended(i)' <=> Ended(i))
                                 /\ i = L + 1 => ~Ended(i)'
                                 /\ i = L + 2 => Ended(i)'
    <2>1. ASSUME NEW i \in 1..Len(log')
          PROVE  /\ i \in 1..L => (Ended(i)' <=> Ended(i))
                 /\ i = L + 1 => ~Ended(i)' /\ log'[i].line = w
                 /\ i = L + 2 => Ended(i)' /\ log'[i].line = w
        <3>1. CASE i \in 1..L
            <4>1. log'[i] = log[i] /\ i # L + 1 /\ i # L + 2
                BY <1>2, <1>4, <3>1
            <4>2. QED
                BY <4>1 DEF Ended
        <3>2. CASE i = L + 1
            <4>1. log'[i] = Half(w, 1) /\ i \notin 1..L /\ i # L + 2
                BY <1>2, <1>4, <3>2
            <4>2. log'[i].line = w /\ log'[i].part = 1
                BY <4>1, HalfIs
            <4>3. QED
                BY <4>1, <4>2 DEF Ended
        <3>3. CASE i = L + 2
            <4>1. log'[i] = Half(w, 2) /\ i \notin 1..L /\ i # L + 1
                BY <1>2, <1>5, <3>3
            <4>2. log'[i].line = w /\ log'[i].part = 2
                BY <4>1, HalfIs
            <4>3. QED
                BY <4>1, <4>2 DEF Ended
        <3>4. QED
            BY <1>5, <3>1, <3>2, <3>3
    <2>2. \A i \in L + 1..Len(log') : i \in 1..Len(log') /\ i \notin 1..L
        BY <1>2
    <2>3. QED
        BY <1>5, <2>1, <2>2
<1>7. LogOK'
    <2>1. Open(log)' <=> Len(log') = L + 1
        <3>1. Len(log') # 0 /\ Len(log') \in 1..Len(log') /\ log' # <<>>
            BY <1>2, <1>4, EmptySeq
        <3>2. Open(log)' <=> log'[Len(log')].part = 1
            BY <3>1 DEF Open, Last
        <3>3. QED
            BY <1>2, <1>4, <3>2, HalfIs
    <2>2. Len(log') + (IF Open(log)' THEN 1 ELSE 0) <= 2 * w
        BY <1>1, <1>2, <1>4, <2>1 DEF w
    <2>3. \A i \in 1..Len(log') : Ended(i)' => i > 1 /\ log'[i - 1] = Half(log'[i].line, 1)
        <3>1. ASSUME NEW i \in 1..Len(log'), Ended(i)'
              PROVE  i > 1 /\ log'[i - 1] = Half(log'[i].line, 1)
            <4>1. CASE i \in 1..L
                <5>1. i > 1 /\ log[i - 1] = Half(log[i].line, 1)
                    BY <1>1, <1>6, <3>1, <4>1 DEF LogOK
                <5>2. i - 1 \in 1..L
                    BY <1>2, <4>1, <5>1
                <5>3. QED
                    BY <1>4, <4>1, <5>1, <5>2
            <4>2. CASE i = L + 2
                BY <1>2, <1>4, <1>6, <4>2
            <4>3. QED
                BY <1>5, <1>6, <3>1, <4>1, <4>2
        <3>2. QED
            BY <3>1
    <2>4. \A i \in 1..Len(log') : i < Len(log') /\ ~Ended(i)' => Ended(i + 1)'
        <3>1. ASSUME NEW i \in 1..Len(log'), i < Len(log'), ~Ended(i)'
              PROVE  Ended(i + 1)'
            <4>1. CASE i \in 1..L
                <5>1. ~Ended(i) /\ i < L /\ i + 1 \in 1..L
                    BY <1>2, <1>6, <3>1, <4>1
                <5>2. Ended(i + 1)
                    BY <1>1, <4>1, <5>1 DEF LogOK
                <5>3. QED
                    BY <1>4, <5>1, <5>2 DEF Ended
            <4>2. CASE i = L + 1
                <5>1. i + 1 = L + 2 /\ i + 1 \in 1..Len(log')
                    BY <1>2, <1>4, <3>1, <4>2
                <5>2. QED
                    BY <1>6, <5>1
            <4>3. QED
                BY <1>4, <1>5, <3>1, <4>1, <4>2
        <3>2. QED
            BY <3>1
    <2>5. /\ \A i \in 1..Len(log') : log'[i].line <= w /\ log'[i].line \in Nat
          /\ \A i \in 1..L : log'[i].line < w
          /\ \A i \in 1..Len(log') : i \in 1..L \/ log'[i].line = w
        <3>1. \A i \in 1..Len(log') : i \in 1..L \/ log'[i].line = w
            BY <1>5, HalfIs
        <3>2. \A i \in 1..L : log'[i].line < w /\ log'[i].line <= w /\ log'[i].line \in Nat
            <4>1. TAKE i \in 1..L
            <4>2. log'[i] = log[i] /\ log[i].line \in 1..MaxLine /\ log[i].line <= written
                BY <1>2, <1>4
            <4>3. w = written + 1 /\ written \in Nat
                BY <1>2 DEF w
            <4>4. QED
                BY <4>2, <4>3
        <3>3. w \in Nat /\ w <= w
            BY <1>3
        <3>4. QED
            BY <3>1, <3>2, <3>3
    <2>6. ASSUME NEW i \in 1..Len(log'), NEW j \in 1..Len(log')
          PROVE  /\ i <= j => log'[i].line <= log'[j].line
                 /\ i < j /\ Ended(i)' => log'[i].line < log'[j].line
        <3>1. CASE i \in 1..L /\ j \in 1..L
            BY <1>1, <1>4, <1>6, <3>1 DEF LogOK
        <3>2. CASE j \notin 1..L
            <4>1. log'[j].line = w /\ log'[i].line <= w
                BY <2>5, <3>2
            <4>2. ASSUME i < j, Ended(i)' PROVE i \in 1..L
                BY <1>2, <1>4, <1>5, <1>6, <3>2, <4>2
            <4>3. QED
                BY <2>5, <4>1, <4>2
        <3>3. CASE j \in 1..L /\ i \notin 1..L
            BY <1>2, <3>3
        <3>4. QED
            BY <3>1, <3>2, <3>3
    <2>7. w \in 0..MaxLine /\ (Open(log)' => log'[Len(log')].line = w)
        BY <1>2, <1>3, <1>4, <2>1, HalfIs
    <2>8. QED
        BY <1>1, <1>4, <2>2, <2>3, <2>4, <2>5, <2>6, <2>7 DEF LogOK
<1>8. Len(log') \in Nat /\ L < Len(log')
    BY <1>2, <1>4
<1>9. QED
    BY <1>1, <1>3, <1>4, <1>6, <1>7, <1>8, GrowKeeps

LEMMA FinishKeeps == CompactIInv /\ FinishLine => CompactIInv'
<1>. SUFFICES ASSUME CompactIInv, FinishLine PROVE CompactIInv'
    OBVIOUS
<1>. DEFINE w == written
            L == Len(log)
<1>1. /\ LogOK /\ Open(log) /\ log' = Append(log, Half(Last(log).line, 2))
      /\ written' = w
      /\ UNCHANGED <<truncated, watch, offset, length, chunk, batch, applied, basis, lost>>
    BY DEF CompactIInv, FinishLine
<1>2. /\ L \in Nat /\ w \in Nat /\ log \in Seq(HalfLine) /\ L \in 1..L
      /\ \A i \in 1..L : log[i].line \in 1..MaxLine /\ log[i].line <= w
                         /\ log[i].part \in {1, 2} /\ log[i] = Half(log[i].line, log[i].part)
      /\ ~Ended(L) /\ L + 1 <= 2 * w /\ log[L].line = w
    BY <1>1, LogElements DEF LogOK
<1>3. /\ w \in 1..MaxLine /\ Half(w, 2) \in HalfLine /\ log[L] = Half(w, 1)
      /\ Last(log).line = w /\ ~Finished(w)
    BY <1>1, <1>2 DEF Half, HalfLine, Finished, Ended, Last
<1>4. /\ log' \in Seq(HalfLine) /\ Len(log') = L + 1 /\ log'[L + 1] = Half(w, 2)
      /\ \A i \in 1..L : log'[i] = log[i]
    BY <1>1, <1>2, <1>3, AppendProperties
<1>. HIDE DEF w
<1>5. /\ \A i \in 1..Len(log') : i \in 1..L \/ i = L + 1
      /\ \A i \in 1..L : Ended(i)' <=> Ended(i)
      /\ \A i \in 1..Len(log') : i = L + 1 => Ended(i)'
      /\ L + 1 \in 1..Len(log') /\ log'[L + 1].line = w
    BY <1>2, <1>4, HalfIs DEF Ended
<1>6. LogOK'
    <2>1. ~Open(log)'
        <3>1. log' # <<>> /\ Len(log') = L + 1
            BY <1>2, <1>4, EmptySeq
        <3>2. Open(log)' <=> log'[L + 1].part = 1
            BY <3>1 DEF Open, Last
        <3>3. QED
            BY <1>4, <3>2, HalfIs
    <2>2. Len(log') + (IF Open(log)' THEN 1 ELSE 0) <= 2 * w
        BY <1>2, <1>4, <2>1
    <2>3. ASSUME NEW i \in 1..Len(log'), Ended(i)'
          PROVE  i > 1 /\ log'[i - 1] = Half(log'[i].line, 1)
        <3>1. CASE i \in 1..L
            <4>1. i > 1 /\ log[i - 1] = Half(log[i].line, 1)
                BY <1>1, <1>5, <2>3, <3>1 DEF LogOK
            <4>2. i - 1 \in 1..L
                BY <1>2, <3>1, <4>1
            <4>3. QED
                BY <1>4, <3>1, <4>1, <4>2
        <3>2. CASE i = L + 1
            BY <1>2, <1>3, <1>4, <1>5, <3>2
        <3>3. QED
            BY <1>5, <3>1, <3>2
    <2>4. ASSUME NEW i \in 1..Len(log'), i < Len(log'), ~Ended(i)'
          PROVE  Ended(i + 1)'
        <3>1. i \in 1..L /\ ~Ended(i)
            BY <1>2, <1>4, <1>5, <2>4
        <3>2. CASE i = L
            <4>1. i + 1 \in 1..Len(log') /\ i + 1 = L + 1
                BY <1>5, <3>2
            <4>2. QED
                BY <1>5, <4>1
        <3>3. CASE i < L
            <4>1. Ended(i + 1) /\ i + 1 \in 1..L
                BY <1>1, <1>2, <3>1, <3>3 DEF LogOK
            <4>2. QED
                BY <1>5, <4>1
        <3>4. QED
            BY <1>2, <3>1, <3>2, <3>3
    <2>5. \A i \in 1..Len(log') : log'[i].line <= w /\ log'[i].line \in Nat
        BY <1>2, <1>4, <1>5
    <2>6. ASSUME NEW i \in 1..Len(log'), NEW j \in 1..Len(log')
          PROVE  /\ i <= j => log'[i].line <= log'[j].line
                 /\ i < j /\ Ended(i)' => log'[i].line < log'[j].line
        <3>1. CASE i \in 1..L /\ j \in 1..L
            BY <1>1, <1>4, <1>5, <3>1 DEF LogOK
        <3>2. CASE j = L + 1
            <4>1. log'[j].line = w /\ log'[i].line <= w
                BY <1>5, <2>5, <3>2
            <4>2. ASSUME i < j, Ended(i)' PROVE log'[i].line < log'[j].line
                <5>1. i \in 1..L /\ Ended(i)
                    BY <1>2, <1>5, <3>2, <4>2
                <5>2. i < L
                    BY <1>2, <5>1
                <5>3. log[i].line < log[L].line
                    BY <1>1, <1>2, <5>1, <5>2 DEF LogOK
                <5>4. QED
                    BY <1>2, <1>4, <4>1, <5>1, <5>3
            <4>3. QED
                BY <4>1, <4>2
        <3>3. CASE j \in 1..L /\ i = L + 1
            BY <1>2, <3>3
        <3>4. QED
            BY <1>5, <3>1, <3>2, <3>3
    <2>7. w \in 0..MaxLine
        BY <1>2, <1>3
    <2>8. QED
        BY <1>1, <1>4, <2>1, <2>2, <2>3, <2>4, <2>5, <2>6, <2>7 DEF LogOK
<1>7. /\ Len(log') \in Nat /\ L < Len(log') /\ w <= w
      /\ \A i \in L + 1..Len(log') : log'[i].line = w
    BY <1>2, <1>4, <1>5
<1>8. QED
    BY <1>1, <1>3, <1>4, <1>6, <1>7, GrowKeeps DEF w

(* A log cut to nothing holds no line to read again. *)
LEMMA TruncateKeeps == CompactIInv /\ TruncateLog => CompactIInv'
<1>. SUFFICES ASSUME CompactIInv, TruncateLog PROVE CompactIInv'
    OBVIOUS
<1>1. /\ Types /\ LogOK /\ PlaceOK /\ CountOK /\ OrderOK
      /\ log' = <<>> /\ truncated' = truncated + 1 /\ truncated < MaxTruncation
      /\ UNCHANGED <<written, watch, offset, length, chunk, batch, applied, basis, lost>>
    BY DEF CompactIInv, TruncateLog
<1>2. /\ Known' = Known /\ (\A n : Times(n)' = Times(n)) /\ (\A m : Tops(m)' <=> Tops(m))
      /\ Found' = Found
    BY <1>1, SameTimes DEF Found, Whole
<1>3. Len(log') = 0 /\ ~Open(log)' /\ LastEnd' = 0
    BY <1>1 DEF Open, LastEnd
<1>4. Types'
    BY <1>1, CompactLogAssumption DEF Types
<1>5. LogOK'
    <2>1. written \in 0..MaxLine /\ log' \in Seq(HalfLine)
        BY <1>1, EmptySeq DEF LogOK
    <2>2. QED
        BY <1>1, <1>3, <2>1 DEF LogOK
<1>6. PlaceOK'
    BY <1>1, <1>2, <1>3 DEF PlaceOK, Finished
<1>7. CountOK'
    BY <1>1, <1>2, <1>3 DEF CountOK
<1>8. CoverOK'
    BY <1>1 DEF Types, CoverOK
<1>9. OrderOK'
    BY <1>1, <1>2, <1>3 DEF OrderOK
<1>10. QED
    BY <1>4, <1>5, <1>6, <1>7, <1>8, <1>9 DEF CompactIInv

-----------------------------------------------------------------------------
(* The watcher. *)
LEMMA LogFits == LogOK => Len(log) \in 0..2 * MaxLine
<1>. SUFFICES ASSUME LogOK PROVE Len(log) \in 0..2 * MaxLine
    OBVIOUS
<1>1. Len(log) \in Nat /\ Len(log) + (IF Open(log) THEN 1 ELSE 0) <= 2 * written
      /\ written \in 0..MaxLine
    BY LogElements DEF LogOK
<1>2. QED
    BY <1>1, CompactLogAssumption

LEMMA StartKeeps == CompactIInv /\ StartWatch => CompactIInv'
<1>. SUFFICES ASSUME CompactIInv, StartWatch PROVE CompactIInv'
    OBVIOUS
<1>1. /\ Types /\ LogOK /\ PlaceOK /\ CountOK /\ CoverOK /\ OrderOK
      /\ watch = "start" /\ watch' = "sleep" /\ offset' = Len(log)
      /\ basis' = truncated /\ lost' = {log[i].line : i \in 1..Len(log)}
      /\ UNCHANGED <<log, written, truncated, length, chunk, batch, applied>>
    BY DEF CompactIInv, StartWatch
<1>2. /\ Known' = Known /\ (\A n : Times(n)' = Times(n)) /\ (\A m : Tops(m)' <=> Tops(m))
    BY <1>1, SameTimes
<1>3. LogOK' /\ LastEnd' = LastEnd /\ (\A n : Finished(n)' <=> Finished(n))
    BY <1>1, SameLog
<1>4. Found' = {} /\ applied = <<>> /\ batch = {}
    BY <1>1 DEF Found, PlaceOK
<1>5. Known = {}
    <2>1. ToSet(applied) = {}
        <3>1. Len(applied) = 0
            BY <1>1, <1>4, AppliedIsKnown
        <3>2. DOMAIN applied = 1..Len(applied)
            BY <1>1, LenProperties DEF Types
        <3>3. QED
            BY <3>1, <3>2 DEF ToSet
    <2>2. QED
        BY <1>4, <2>1 DEF Known
<1>6. Types'
    <2>1. lost' \in SUBSET (1..MaxLine) /\ offset' \in 0..2 * MaxLine
        BY <1>1, LogElements, LogFits
    <2>2. truncated \in 0..truncated
        BY <1>1, CompactLogAssumption DEF Types
    <2>3. QED
        BY <1>1, <2>1, <2>2 DEF Types
<1>7. PlaceOK'
    BY <1>1, <1>2, <1>4, <1>5 DEF PlaceOK
<1>8. CountOK'
    <2>1. \A n : Times(n)' = 0
        BY <1>1, <1>2, <1>5, TimesType
    <2>2. QED
        BY <1>4, <2>1 DEF CountOK
<1>9. CoverOK'
    <2>1. Len(log) <= Len(log)
        BY <1>1, LogElements
    <2>2. QED
        BY <1>1, <2>1 DEF CoverOK
<1>10. OrderOK'
    BY <1>1, <1>2, <1>4, <1>5 DEF OrderOK
<1>11. QED
    BY <1>3, <1>6, <1>7, <1>8, <1>9, <1>10 DEF CompactIInv

(* An offset past the end of the log tells that it was cut: the counting   *)
(* starts again, and what is in the log has been read once at most.        *)
LEMMA StatKeeps == CompactIInv /\ StatLog => CompactIInv'
<1>. SUFFICES ASSUME CompactIInv, StatLog PROVE CompactIInv'
    OBVIOUS
<1>1. /\ Types /\ LogOK /\ PlaceOK /\ CountOK /\ CoverOK /\ OrderOK
      /\ watch = "sleep" /\ length' = Len(log)
      /\ offset' = (IF Len(log) < offset THEN 0 ELSE offset)
      /\ watch' = (IF length' = offset' THEN "sleep" ELSE "read")
      /\ basis' = (IF offset' = 0 THEN truncated ELSE basis)
      /\ UNCHANGED <<log, written, truncated, chunk, batch, applied, lost>>
    BY DEF CompactIInv, StatLog
<1>2. /\ Known' = Known /\ (\A n : Times(n)' = Times(n)) /\ (\A m : Tops(m)' <=> Tops(m))
    BY <1>1, SameTimes
<1>3. /\ LogOK' /\ LastEnd' = LastEnd /\ (\A n : Finished(n)' <=> Finished(n))
      /\ \A e : Ended(e)' <=> Ended(e)
    BY <1>1, SameLog
<1>4. Found' = {} /\ Found = {} /\ batch = {} /\ watch' \in {"sleep", "read"}
    BY <1>1 DEF Found, PlaceOK
<1>5. Len(log) \in 0..2 * MaxLine /\ offset \in 0..2 * MaxLine /\ offset' <= Len(log)
      /\ offset' \in 0..2 * MaxLine
    BY <1>1, LogFits, CompactLogAssumption DEF Types
<1>6. Types'
    <2>1. basis' \in 0..truncated
        BY <1>1, CompactLogAssumption DEF Types
    <2>2. QED
        BY <1>1, <1>4, <1>5, <2>1 DEF Types
<1>7. PlaceOK'
    BY <1>1, <1>2, <1>3, <1>4, <1>5 DEF PlaceOK
<1>8. CountOK'
    <2>1. ASSUME NEW e \in 1..Len(log), Ended(e)
          PROVE  /\ e > offset' => Times(log[e].line) <= 1
                 /\ ~(Len(log) < offset')
                 /\ ~(e > Len(log) \/ Len(log) < Len(log))
        <3>1. /\ e > offset => Times(log[e].line) <= 1
              /\ Len(log) < offset => Times(log[e].line) <= 1
            BY <1>1, <2>1 DEF CountOK
        <3>2. QED
            BY <1>1, <1>5, <3>1
    <2>2. \A n \in 1..MaxLine : Times(n) <= 2
        BY <1>1 DEF CountOK
    <2>3. QED
        BY <1>1, <1>2, <1>3, <1>4, <2>1, <2>2 DEF CountOK
<1>9. CoverOK'
    <2>1. SUFFICES ASSUME basis' = truncated'
                   PROVE  \A e \in 1..offset' : Ended(e) \/ e = offset' =>
                              log[e].line \in lost \cup Known
        BY <1>1, <1>2, <1>3, <1>4, <1>5 DEF CoverOK
    <2>2. CASE offset' = 0
        BY <2>2
    <2>3. CASE offset' # 0
        BY <1>1, <2>1, <2>3 DEF CoverOK
    <2>4. QED
        BY <2>2, <2>3
<1>10. OrderOK'
    BY <1>1, <1>2, <1>3, <1>4 DEF OrderOK
<1>11. QED
    BY <1>3, <1>6, <1>7, <1>8, <1>9, <1>10 DEF CompactIInv

(* What is read ends with the newest line there is. *)
LEMMA ReadKeeps == CompactIInv /\ ReadLog => CompactIInv'
<1>. SUFFICES ASSUME CompactIInv, ReadLog PROVE CompactIInv'
    OBVIOUS
<1>1. /\ Types /\ LogOK /\ PlaceOK /\ CountOK /\ CoverOK /\ OrderOK
      /\ watch = "read" /\ watch' = "advance" /\ chunk' = SubSeq(log, offset + 1, Len(log))
      /\ UNCHANGED <<log, written, truncated, offset, length, batch, applied, basis, lost>>
    BY DEF CompactIInv, ReadLog
<1>2. /\ Known' = Known /\ (\A n : Times(n)' = Times(n)) /\ (\A m : Tops(m)' <=> Tops(m))
    BY <1>1, SameTimes
<1>3. /\ LogOK' /\ LastEnd' = LastEnd /\ (\A n : Finished(n)' <=> Finished(n))
      /\ \A e : Ended(e)' <=> Ended(e)
    BY <1>1, SameLog
<1>4. Found' = Whole(chunk') /\ Found = {} /\ batch = {}
    BY <1>1 DEF Found, PlaceOK, Whole
<1>5. offset \in Nat /\ length \in Nat /\ Len(log) \in Nat
    BY <1>1, LogElements DEF Types
<1>6. /\ chunk' \in Seq(HalfLine)
      /\ \A n \in Found' : \E e \in offset + 2..Len(log) : Ended(e) /\ log[e].line = n
      /\ \A e \in offset + 2..Len(log) : Ended(e) => log[e].line \in Found'
    BY <1>1, <1>4, <1>5, RestWhole
<1>7. \A e \in offset + 2..Len(log) : e \in 1..Len(log) /\ e > offset
    BY <1>5
<1>8. Types'
    BY <1>1, <1>6 DEF Types
<1>9. PlaceOK'
    <2>1. \A n \in Found' : Finished(n)
        BY <1>1, <1>6, <1>7, LastEndIs
    <2>2. QED
        BY <1>1, <1>2, <1>3, <2>1 DEF PlaceOK
<1>10. CountOK'
    <2>1. \A n \in Found' : Times(n) <= 1
        <3>1. TAKE n \in Found'
        <3>2. PICK e \in offset + 2..Len(log) : Ended(e) /\ log[e].line = n
            BY <1>6
        <3>3. QED
            BY <1>1, <1>7, <3>2 DEF CountOK
    <2>2. \A n \in 1..MaxLine : Times(n) <= 2
        BY <1>1 DEF CountOK
    <2>3. \A e \in 1..Len(log) : Ended(e) /\ (e > length \/ Len(log) < length)
                                     => Times(log[e].line) = 0
        BY <1>1 DEF CountOK
    <2>4. QED
        BY <1>1, <1>2, <1>3, <2>1, <2>2, <2>3 DEF CountOK
<1>11. CoverOK'
    <2>1. SUFFICES ASSUME basis = truncated PROVE CoverOK'
        BY <1>1 DEF CoverOK
    <2>2. /\ offset <= Len(log) /\ length <= Len(log)
          /\ \A e \in 1..offset : Ended(e) \/ e = offset => log[e].line \in lost \cup Known
        BY <1>1, <2>1 DEF CoverOK
    <2>3. \A e \in offset + 2..length : e \in offset + 2..Len(log)
        BY <1>5, <2>2
    <2>4. QED
        BY <1>1, <1>2, <1>3, <1>6, <2>2, <2>3 DEF CoverOK
<1>12. OrderOK'
    <2>1. ASSUME NEW n \in Found'
          PROVE  /\ n <= log[LastEnd].line /\ log[LastEnd].line \in Found'
                 /\ LastEnd >= 1
        <3>1. PICK e \in offset + 2..Len(log) : Ended(e) /\ log[e].line = n
            BY <1>6
        <3>2. e <= LastEnd /\ log[e].line <= log[LastEnd].line /\ LastEnd \in 0..Len(log)
            BY <1>1, <1>7, <3>1, LastEndIs
        <3>3. LastEnd >= 1 /\ LastEnd \in offset + 2..Len(log)
            BY <1>5, <3>1, <3>2
        <3>4. Ended(LastEnd)
            BY <1>1, <3>3, LastEndIs
        <3>5. QED
            BY <1>6, <3>1, <3>2, <3>3, <3>4
    <2>2. LastEnd >= 1 => \A n \in Known : n <= log[LastEnd].line
        BY <1>1 DEF OrderOK
    <2>3. Found' # {} => \E m \in Found' : Tops(m)
        <3>1. SUFFICES ASSUME Found' # {} PROVE \E m \in Found' : Tops(m)
            OBVIOUS
        <3>2. log[LastEnd].line \in Found' /\ \A n \in Known : n <= log[LastEnd].line
            BY <2>1, <2>2, <3>1
        <3>3. \A i \in 1..Len(applied) : applied[i] \in Known
            BY <1>1, AppliedIsKnown
        <3>4. QED
            BY <3>2, <3>3 DEF Tops
    <2>4. batch = {} /\ applied # <<>> => Tops(Last(applied))
        BY <1>1 DEF OrderOK
    <2>5. QED
        BY <1>1, <1>2, <1>3, <1>4, <2>1, <2>2, <2>3, <2>4 DEF OrderOK
<1>13. QED
    BY <1>3, <1>8, <1>9, <1>10, <1>11, <1>12 DEF CompactIInv

LEMMA FailKeeps == CompactIInv /\ FailToRead => CompactIInv'
<1>. SUFFICES ASSUME CompactIInv, FailToRead PROVE CompactIInv'
    OBVIOUS
<1>1. /\ Types /\ LogOK /\ PlaceOK /\ CountOK /\ CoverOK /\ OrderOK
      /\ watch = "read" /\ watch' = "sleep"
      /\ UNCHANGED <<log, written, truncated, offset, length, chunk, batch, applied, basis, lost>>
    BY DEF CompactIInv, FailToRead
<1>2. /\ Known' = Known /\ (\A n : Times(n)' = Times(n)) /\ (\A m : Tops(m)' <=> Tops(m))
    BY <1>1, SameTimes
<1>3. /\ LogOK' /\ LastEnd' = LastEnd /\ (\A n : Finished(n)' <=> Finished(n))
      /\ \A e : Ended(e)' <=> Ended(e)
    BY <1>1, SameLog
<1>4. Found' = {} /\ Found = {} /\ batch = {}
    BY <1>1 DEF Found, PlaceOK
<1>5. Types'
    BY <1>1 DEF Types
<1>6. PlaceOK'
    BY <1>1, <1>2, <1>3, <1>4 DEF PlaceOK
<1>7. CountOK'
    <2>1. ASSUME NEW e \in 1..Len(log), Ended(e)
          PROVE  /\ e > offset => Times(log[e].line) <= 1
                 /\ Len(log) < offset => Times(log[e].line) <= 1
        <3>1. /\ e > offset => Times(log[e].line) <= 1
              /\ Len(log) < length => Times(log[e].line) = 0
            BY <1>1, <2>1 DEF CountOK
        <3>2. Len(log) < offset => Len(log) < length
            BY <1>1, LogElements DEF PlaceOK, Types
        <3>3. QED
            BY <3>1, <3>2
    <2>2. \A n \in 1..MaxLine : Times(n) <= 2
        BY <1>1 DEF CountOK
    <2>3. QED
        BY <1>1, <1>2, <1>3, <1>4, <2>1, <2>2 DEF CountOK
<1>8. CoverOK'
    BY <1>1, <1>2, <1>3 DEF CoverOK
<1>9. OrderOK'
    BY <1>1, <1>2, <1>3, <1>4 DEF OrderOK
<1>10. QED
    BY <1>3, <1>5, <1>6, <1>7, <1>8, <1>9 DEF CompactIInv

(* Behind the new offset every line has been found, or is the one it cuts. *)
LEMMA AdvanceKeeps == CompactIInv /\ AdvanceOffset => CompactIInv'
<1>. SUFFICES ASSUME CompactIInv, AdvanceOffset PROVE CompactIInv'
    OBVIOUS
<1>1. /\ Types /\ LogOK /\ PlaceOK /\ CountOK /\ CoverOK /\ OrderOK
      /\ watch = "advance" /\ watch' = "apply" /\ offset' = length
      /\ batch' = Whole(chunk) /\ lost' = lost \cup (CutBy(log, length) \ Whole(chunk))
      /\ UNCHANGED <<log, written, truncated, length, chunk, applied, basis>>
    BY DEF CompactIInv, AdvanceOffset
<1>2. /\ LogOK' /\ LastEnd' = LastEnd /\ (\A n : Finished(n)' <=> Finished(n))
      /\ \A e : Ended(e)' <=> Ended(e)
    BY <1>1, SameLog
<1>3. /\ batch' = Found /\ Found' = {} /\ batch = {} /\ Known' = Known \cup Found
      /\ Found \in SUBSET (1..MaxLine) /\ \A m : Tops(m)' <=> Tops(m)
    BY <1>1 DEF Found, PlaceOK, Known, Whole, Tops
<1>4. \A n \in 1..MaxLine : /\ Times(n) \in Nat
                            /\ Times(n)' = Times(n) + (IF n \in Found THEN 1 ELSE 0)
    <2>1. TAKE n \in 1..MaxLine
    <2>2. Count(applied, n) \in Nat /\ Count(applied, n)' = Count(applied, n)
        BY <1>1, CountType DEF Types, Count
    <2>3. Times(n) = Count(applied, n)
        BY <1>3, <2>2 DEF Times
    <2>4. Times(n)' = Count(applied, n) + (IF n \in Found THEN 1 ELSE 0)
        BY <1>3, <2>2 DEF Times
    <2>5. QED
        BY <2>2, <2>3, <2>4
<1>5. /\ offset \in Nat /\ length \in Nat /\ Len(log) \in Nat
      /\ \A e \in 1..Len(log) : log[e].line \in 1..MaxLine /\ log[e].part \in {1, 2}
    BY <1>1, LogElements DEF Types
<1>6. Types'
    <2>1. CutBy(log, length) \in SUBSET (1..MaxLine)
        BY <1>5 DEF CutBy
    <2>2. QED
        BY <1>1, <1>3, <2>1 DEF Types
<1>7. PlaceOK'
    BY <1>1, <1>2, <1>3 DEF PlaceOK
<1>8. CountOK'
    <2>1. \A n \in 1..MaxLine : Times(n)' <= 2
        <3>1. TAKE n \in 1..MaxLine
        <3>2. Times(n) <= 2 /\ (n \in Found => Times(n) <= 1)
            BY <1>1 DEF CountOK
        <3>3. QED
            BY <1>4, <3>2
    <2>2. ASSUME NEW e \in 1..Len(log), Ended(e), e > length \/ Len(log) < length
          PROVE  Times(log[e].line)' <= 1
        <3>1. Times(log[e].line) = 0 /\ log[e].line \in 1..MaxLine
            BY <1>1, <1>5, <2>2 DEF CountOK
        <3>2. \A n \in 1..MaxLine : Times(n) = 0 => Times(n)' <= 1
            BY <1>4
        <3>3. \A n \in 1..MaxLine : n = log[e].line => Times(n)' <= 1
            BY <3>1, <3>2
        <3>4. QED
            BY <1>1, <3>1, <3>3
    <2>3. QED
        BY <1>1, <1>2, <1>3, <2>1, <2>2 DEF CountOK
<1>9. CoverOK'
    <2>1. SUFFICES ASSUME basis = truncated PROVE CoverOK'
        BY <1>1 DEF CoverOK
    <2>2. /\ offset <= Len(log) /\ length <= Len(log)
          /\ \A e \in 1..offset : Ended(e) \/ e = offset => log[e].line \in lost \cup Known
          /\ \A e \in offset + 2..length : Ended(e) => log[e].line \in Found
        BY <1>1, <2>1 DEF CoverOK
    <2>3. ASSUME NEW e \in 1..length, Ended(e)
          PROVE  log[e].line \in lost \cup Known \cup Found
        <3>1. CASE e \in 1..offset
            BY <2>2, <2>3, <3>1
        <3>2. CASE e \in offset + 2..length
            BY <2>2, <2>3, <3>2
        <3>3. CASE e = offset + 1
            <4>1. e \in 1..Len(log)
                BY <1>5, <2>2
            <4>2. e > 1 /\ log[e - 1] = Half(log[e].line, 1)
                BY <1>1, <2>3, <4>1 DEF LogOK
            <4>3. e - 1 = offset /\ offset \in 1..offset
                BY <1>5, <3>3, <4>2
            <4>4. log[offset].line = log[e].line /\ log[offset].line \in lost \cup Known
                BY <2>2, <4>2, <4>3, HalfIs
            <4>5. QED
                BY <4>4
        <3>4. QED
            BY <1>5, <3>1, <3>2, <3>3
    <2>4. ASSUME length \in 1..length, ~Ended(length)
          PROVE  log[length].line \in lost' \cup Found
        <3>1. length \in 1..Len(log) /\ log[length].part = 1
            BY <1>5, <2>2, <2>4 DEF Ended
        <3>2. log[length].line \in CutBy(log, length) /\ Found = Whole(chunk)
            BY <1>1, <3>1 DEF CutBy, Found
        <3>3. QED
            BY <1>1, <3>2
    <2>5. lost \subseteq lost'
        BY <1>1
    <2>6. \A e \in 1..length : Ended(e) \/ e = length => log[e].line \in lost' \cup Known'
        BY <1>3, <2>3, <2>4, <2>5
    <2>7. QED
        BY <1>1, <1>2, <2>2, <2>6 DEF CoverOK
<1>10. OrderOK'
    BY <1>1, <1>2, <1>3 DEF OrderOK
<1>11. QED
    BY <1>2, <1>6, <1>7, <1>8, <1>9, <1>10 DEF CompactIInv

(* The least line is applied: what tops the others is applied last.        *)
LEMMA ApplyKeeps == CompactIInv /\ ApplyLine => CompactIInv'
<1>. SUFFICES ASSUME CompactIInv, ApplyLine PROVE CompactIInv'
    OBVIOUS
<1>. DEFINE m == Min(batch)
<1>1. /\ Types /\ LogOK /\ PlaceOK /\ CountOK /\ CoverOK /\ OrderOK
      /\ watch = "apply" /\ batch # {} /\ applied' = Append(applied, m) /\ batch' = batch \ {m}
      /\ UNCHANGED <<log, written, truncated, watch, offset, length, chunk, basis, lost>>
    BY DEF CompactIInv, ApplyLine
<1>2. /\ LogOK' /\ LastEnd' = LastEnd /\ (\A n : Finished(n)' <=> Finished(n))
      /\ \A e : Ended(e)' <=> Ended(e)
    BY <1>1, SameLog
<1>3. Found' = {} /\ Found = {}
    BY <1>1 DEF Found
<1>4. /\ batch \in SUBSET (1..MaxLine) /\ applied \in Seq(1..MaxLine)
      /\ m \in batch /\ \A y \in batch : m <= y
    <2>1. batch \in SUBSET (1..MaxLine) /\ applied \in Seq(1..MaxLine)
        BY <1>1 DEF Types
    <2>2. batch \in SUBSET Nat
        BY <2>1
    <2>3. QED
        BY <1>1, <2>1, <2>2, MinIs
<1>. HIDE DEF m
<1>5. /\ m \in 1..MaxLine /\ Len(applied) \in Nat /\ applied' \in Seq(1..MaxLine)
      /\ Len(applied') = Len(applied) + 1 /\ applied'[Len(applied) + 1] = m
      /\ \A i \in 1..Len(applied) : applied'[i] = applied[i]
      /\ \A i \in 1..Len(applied') : i \in 1..Len(applied) \/ i = Len(applied) + 1
    <2>1. m \in 1..MaxLine /\ Len(applied) \in Nat
        BY <1>4, LenProperties
    <2>2. /\ applied' \in Seq(1..MaxLine)
          /\ Len(applied') = Len(applied) + 1 /\ applied'[Len(applied) + 1] = m
          /\ \A i \in 1..Len(applied) : applied'[i] = applied[i]
        BY <1>1, <1>4, <2>1, AppendProperties
    <2>3. QED
        BY <2>1, <2>2
<1>6. Known' = Known
    <2>1. ToSet(applied') = ToSet(applied) \cup {m}
        <3>1. DOMAIN applied' = 1..Len(applied') /\ DOMAIN applied = 1..Len(applied)
            BY <1>4, <1>5, LenProperties
        <3>2. Len(applied) + 1 \in 1..Len(applied')
              /\ \A i \in 1..Len(applied) : i \in 1..Len(applied')
            BY <1>5
        <3>3. QED
            BY <1>5, <3>1, <3>2 DEF ToSet
    <2>2. QED
        BY <1>1, <1>4, <2>1 DEF Known
<1>7. \A n : Times(n)' = Times(n)
    <2>1. TAKE n
    <2>2. Count(applied, n) \in Nat /\ Count(applied, n)' = Count(Append(applied, m), n)
        BY <1>1, <1>4, CountType DEF Count
    <2>3. Count(applied, n)' = Count(applied, n) + (IF m = n THEN 1 ELSE 0)
        BY <1>4, <1>5, <2>2, CountAppend
    <2>4. Times(n)' = Count(applied, n)' + (IF n \in batch' THEN 1 ELSE 0)
        BY DEF Times
    <2>5. Times(n) = Count(applied, n) + (IF n \in batch THEN 1 ELSE 0)
        BY DEF Times
    <2>6. QED
        BY <1>1, <1>4, <2>2, <2>3, <2>4, <2>5
<1>8. Types'
    BY <1>1, <1>4, <1>5 DEF Types
<1>9. PlaceOK'
    BY <1>1, <1>2, <1>3, <1>6 DEF PlaceOK
<1>10. CountOK'
    BY <1>1, <1>2, <1>3, <1>7 DEF CountOK
<1>11. CoverOK'
    BY <1>1, <1>2, <1>6 DEF CoverOK
<1>12. OrderOK'
    <2>1. PICK top \in batch : Tops(top)
        BY <1>1 DEF OrderOK
    <2>2. \A x \in batch : x >= top => Tops(x)'
        <3>1. TAKE x \in batch
        <3>2. SUFFICES ASSUME x >= top PROVE \A i \in 1..Len(applied') : applied'[i] <= x
            BY DEF Tops
        <3>3. TAKE i \in 1..Len(applied')
        <3>4. CASE i \in 1..Len(applied)
            <4>1. applied'[i] <= top /\ applied'[i] \in 1..MaxLine
                BY <1>4, <1>5, <2>1, <3>4, ElementOfSeq DEF Tops
            <4>2. QED
                BY <1>4, <2>1, <3>2, <4>1
        <3>5. CASE i = Len(applied) + 1
            BY <1>4, <1>5, <3>5
        <3>6. QED
            BY <1>5, <3>4, <3>5
    <2>3. ASSUME batch' = {} PROVE Tops(Last(applied))'
        <3>1. top = m /\ Last(applied') = m
            <4>1. top = m
                BY <1>1, <2>1, <2>3
            <4>2. QED
                BY <1>5, <4>1 DEF Last
        <3>2. top >= top
            BY <1>4, <2>1
        <3>3. \A i \in 1..Len(applied') : applied'[i] <= top
            BY <2>1, <2>2, <3>2 DEF Tops
        <3>4. QED
            BY <3>1, <3>3 DEF Tops
    <2>4. ASSUME batch' # {} PROVE \E x \in batch' : Tops(x)'
        <3>1. PICK y \in batch' : TRUE
            BY <2>4
        <3>2. CASE top \in batch'
            <4>1. top >= top
                BY <1>4, <2>1
            <4>2. QED
                BY <2>1, <2>2, <3>2, <4>1
        <3>3. CASE top \notin batch'
            <4>1. top = m /\ y \in batch /\ m <= y
                BY <1>1, <1>4, <2>1, <3>1, <3>3
            <4>2. y >= top
                BY <1>4, <2>1, <4>1
            <4>3. QED
                BY <2>2, <3>1, <4>1, <4>2
        <3>4. QED
            BY <3>2, <3>3
    <2>5. LastEnd >= 1 => \A n \in Known : n <= log[LastEnd].line
        BY <1>1 DEF OrderOK
    <2>6. QED
        BY <1>1, <1>2, <1>3, <1>6, <2>3, <2>4, <2>5 DEF OrderOK
<1>13. QED
    BY <1>2, <1>8, <1>9, <1>10, <1>11, <1>12 DEF CompactIInv

LEMMA EndKeeps == CompactIInv /\ EndBatch => CompactIInv'
<1>. SUFFICES ASSUME CompactIInv, EndBatch PROVE CompactIInv'
    OBVIOUS
<1>1. /\ Types /\ LogOK /\ PlaceOK /\ CountOK /\ CoverOK /\ OrderOK
      /\ watch = "apply" /\ batch = {} /\ watch' = "sleep" /\ chunk' = <<>>
      /\ UNCHANGED <<log, written, truncated, offset, length, batch, applied, basis, lost>>
    BY DEF CompactIInv, EndBatch
<1>2. /\ Known' = Known /\ (\A n : Times(n)' = Times(n)) /\ (\A m : Tops(m)' <=> Tops(m))
    BY <1>1, SameTimes
<1>3. /\ LogOK' /\ LastEnd' = LastEnd /\ (\A n : Finished(n)' <=> Finished(n))
      /\ \A e : Ended(e)' <=> Ended(e)
    BY <1>1, SameLog
<1>4. Found' = {} /\ Found = {} /\ chunk' \in Seq(HalfLine)
    BY <1>1, EmptySeq DEF Found
<1>5. Types'
    BY <1>1, <1>4 DEF Types
<1>6. PlaceOK'
    BY <1>1, <1>2, <1>3, <1>4 DEF PlaceOK
<1>7. CountOK'
    BY <1>1, <1>2, <1>3, <1>4 DEF CountOK
<1>8. CoverOK'
    BY <1>1, <1>2, <1>3 DEF CoverOK
<1>9. OrderOK'
    BY <1>1, <1>2, <1>3, <1>4 DEF OrderOK
<1>10. QED
    BY <1>3, <1>5, <1>6, <1>7, <1>8, <1>9 DEF CompactIInv

LEMMA StutterKeeps == CompactIInv /\ UNCHANGED compactVars => CompactIInv'
<1>. SUFFICES ASSUME CompactIInv, UNCHANGED compactVars PROVE CompactIInv'
    OBVIOUS
<1>1. /\ Types /\ LogOK /\ PlaceOK /\ CountOK /\ CoverOK /\ OrderOK
      /\ UNCHANGED <<log, written, truncated, watch, offset, length, chunk, batch, applied,
                     basis, lost>>
    BY DEF CompactIInv, compactVars
<1>2. /\ Known' = Known /\ (\A n : Times(n)' = Times(n)) /\ (\A m : Tops(m)' <=> Tops(m))
    BY <1>1, SameTimes
<1>3. /\ LogOK' /\ LastEnd' = LastEnd /\ (\A n : Finished(n)' <=> Finished(n))
      /\ \A e : Ended(e)' <=> Ended(e)
    BY <1>1, SameLog
<1>4. Found' = Found
    BY <1>1 DEF Found, Whole
<1>5. Types' /\ PlaceOK'
    BY <1>1, <1>2, <1>3, <1>4 DEF Types, PlaceOK
<1>6. CountOK'
    BY <1>1, <1>2, <1>3, <1>4 DEF CountOK
<1>7. CoverOK' /\ OrderOK'
    BY <1>1, <1>2, <1>3, <1>4 DEF CoverOK, OrderOK
<1>8. QED
    BY <1>3, <1>5, <1>6, <1>7 DEF CompactIInv

-----------------------------------------------------------------------------
LEMMA CompactStepKeeps == CompactIInv /\ [CompactNext]_compactVars => CompactIInv'
BY WriteKeeps, FinishKeeps, TruncateKeeps, StartKeeps, StatKeeps, ReadKeeps, FailKeeps,
   AdvanceKeeps, ApplyKeeps, EndKeeps, StutterKeeps DEF CompactNext

(* Every reachable state of the watcher satisfies the inductive invariant. *)
LEMMA CompactInvariance == CompactSpec => []CompactIInv
BY InitHolds, CompactStepKeeps, PTL DEF CompactSpec

LEMMA CompactTypes == CompactIInv => CompactTypeOK
<1>1. SUFFICES ASSUME CompactIInv PROVE CompactTypeOK
    OBVIOUS
<1>2. Types /\ LogOK
    BY <1>1 DEF CompactIInv
<1>3. written \in 0..MaxLine /\ log \in Seq(HalfLine)
    BY <1>2 DEF LogOK
<1>4. QED
    BY <1>2, <1>3 DEF Types, HalfLine, CompactTypeOK

(* The watcher's state has the types stated for it; what it reads is made  *)
(* of halves that were written, and what it applies of numbered lines.     *)
THEOREM CompactTypeCorrect == CompactSpec => []CompactTypeOK
BY CompactTypes, CompactInvariance, PTL

(* compact.rs 39: whatever is written, cut or truncated between the stat   *)
(* and the read, each line behind the offset has been applied or is about  *)
(* to be, save one the offset cut in two; none is applied more than twice; *)
(* and the last one applied is the newest.                                 *)
THEOREM LinesAreApplied == CompactSpec => []EachLineIsApplied
<1>1. CompactIInv => EachLineIsApplied
    <2>1. SUFFICES ASSUME CompactIInv PROVE EachLineIsApplied
        OBVIOUS
    <2>2. Types /\ LogOK /\ PlaceOK /\ CountOK /\ CoverOK /\ OrderOK
        BY <2>1 DEF CompactIInv
    <2>3. ASSUME basis = truncated
          PROVE  Whole(SubSeq(log, 1, offset)) \subseteq lost \cup ToSet(applied) \cup batch
        <3>1. SUFFICES ASSUME NEW n \in Whole(SubSeq(log, 1, offset))
                       PROVE  n \in lost \cup Known
            BY DEF Known
        <3>2. /\ offset \in 0..Len(log)
              /\ \A e \in 1..offset : Ended(e) => log[e].line \in lost \cup Known
            BY <2>2, <2>3, LogElements DEF CoverOK, Types
        <3>3. PICK e \in 1..offset : Ended(e) /\ log[e].line = n
            BY <2>2, <3>2, PrefixWhole
        <3>4. QED
            BY <3>2, <3>3
    <2>4. ASSUME NEW n \in 1..MaxLine
          PROVE  Cardinality({i \in 1..Len(applied) : applied[i] = n}) <= 2
        <3>1. Times(n) <= 2 /\ applied \in Seq(1..MaxLine)
            BY <2>2 DEF CountOK, Types
        <3>2. Count(applied, n) \in Nat /\ Times(n) = Count(applied, n) + (IF n \in batch THEN 1 ELSE 0)
            BY <3>1, CountType DEF Times
        <3>3. Count(applied, n) <= 2
            BY <3>1, <3>2
        <3>4. QED
            BY <3>3 DEF Count
    <2>5. watch = "sleep" /\ applied # <<>> =>
              \A i \in 1..Len(applied) : applied[i] <= Last(applied)
        BY <2>2 DEF PlaceOK, OrderOK, Tops
    <2>6. QED
        BY <2>3, <2>4, <2>5 DEF EachLineIsApplied
<1>2. QED
    BY <1>1, CompactInvariance, PTL
=============================================================================
