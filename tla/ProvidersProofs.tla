-------------------------- MODULE ProvidersProofs --------------------------
(***************************************************************************)
(* The prompt and the title watcher, for all requests, answers, titles and *)
(* hooks, and the four parts of MCProviders together.                      *)
(***************************************************************************)
EXTENDS MCProviders, CompactLogProofs, CodexRolloutsProofs

(* title.rs 24-38, at rest: whenever the watcher sleeps and the index is   *)
(* as it last saw it, the session has the newest title, unless the watcher *)
(* could not read it, or a hook has put an older one back.                 *)
TitleSettled ==
    poll = "sleep" /\ seen = Metadata /\ published => title = Newest \/ skipped \/ raced

(* What the watcher has seen of the index is not ahead of it: any later    *)
(* change of the index is one it sees.                                     *)
SeenOK ==
    /\ Len(seen.index) <= Len(index)
    /\ seen.index = index /\ torn => seen.torn

(* While it applies what it has read, and has missed nothing since, the    *)
(* last of the titles left is the newest; once none is left, it is set.    *)
ApplyOK ==
    /\ Readable = <<>> => title = NoTitle \/ raced
    /\ lines # <<>> => Readable # <<>>
    /\ poll = "apply" /\ seen = Metadata /\ lines # <<>> => Last(lines) = Newest
    /\ poll = "apply" /\ seen = Metadata /\ lines = <<>> /\ published => title = Newest \/ raced

TitleTypes ==
    /\ TitleTypeOK
    /\ seen \in [index : Seq(Title), torn : BOOLEAN]

TitleIInv == TitleTypes /\ SeenOK /\ ApplyOK /\ TitleSettled

LEMMA FrontOf ==
    ASSUME NEW s \in Seq(Title), s # <<>>
    PROVE  /\ Front(s) \in Seq(Title) /\ Len(Front(s)) = Len(s) - 1
           /\ Last(s) \in Title
<1>1. Len(s) \in Nat \ {0} /\ \A i \in 1..Len(s) : s[i] \in Title
    BY EmptySeq, LenProperties, ElementOfSeq
<1>2. SubSeq(s, 1, Len(s) - 1) \in Seq(Title) /\ Len(SubSeq(s, 1, Len(s) - 1)) = Len(s) - 1
  <2>1. Len(s) - 1 \in 0..Len(s)
    BY <1>1
  <2>2. QED
    BY <2>1, FrontIs
<1>3. QED
    BY <1>1, <1>2 DEF Front, Last

LEMMA TailOf ==
    ASSUME NEW s \in Seq(Title), s # <<>>
    PROVE  /\ Tail(s) \in Seq(Title) /\ Head(s) \in Title
           /\ Tail(s) = <<>> => Last(s) = Head(s)
           /\ Tail(s) # <<>> => Last(Tail(s)) = Last(s)
<1>1. Len(s) \in Nat \ {0}
    BY EmptySeq, LenProperties
<1>2. /\ Tail(s) \in Seq(Title) /\ Head(s) \in Title /\ Len(Tail(s)) = Len(s) - 1
      /\ \A i \in 1..Len(Tail(s)) : Tail(s)[i] = s[i + 1]
    BY HeadTailProperties
<1>3. Tail(s) = <<>> <=> Len(Tail(s)) = 0
    BY <1>2, EmptySeq
<1>4. Head(s) = s[1]
    BY <1>1
<1>5. QED
    BY <1>1, <1>2, <1>3, <1>4 DEF Last

(* What can be read, and the newest of it, are of the titles given. *)
LEMMA ReadableIs ==
    ASSUME TitleTypes
    PROVE  /\ Readable \in Seq(Title) /\ Newest \in Title \cup {NoTitle}
           /\ Newest = NoTitle <=> Readable = <<>>
<1>1. index \in Seq(Title) /\ (torn => index # <<>>)
    BY DEF TitleTypes, TitleTypeOK
<1>2. Readable \in Seq(Title)
    BY <1>1, FrontOf DEF Readable
<1>3. Readable # <<>> => Last(Readable) \in Title
    BY <1>2, FrontOf
<1>4. NoTitle \notin Title
    BY TitleWatchAssumption DEF NoTitle, Title
<1>5. QED
    BY <1>2, <1>3, <1>4 DEF Newest

(* A step of anyone but Codex leaves what can be read as it is. *)
LEMMA IndexStays ==
    ASSUME index' = index, torn' = torn
    PROVE  Readable' = Readable /\ Newest' = Newest /\ Metadata' = Metadata
BY DEF Readable, Newest, Metadata

LEMMA TitleInitIInv == TitleInit => TitleIInv
<1> SUFFICES ASSUME TitleInit PROVE TitleIInv
    OBVIOUS
<1> USE DEF TitleInit
<1>1. <<>> \in Seq(Title)
    BY EmptySeq
<1>2. TitleTypes
    BY <1>1 DEF TitleTypes, TitleTypeOK, Unseen, NoTitle
<1>3. SeenOK
    BY DEF SeenOK, Unseen
<1>4. ApplyOK
    BY DEF ApplyOK
<1>5. Metadata.torn = FALSE /\ Unseen.torn = TRUE
    BY DEF Metadata, Unseen
<1>6. QED
    BY <1>2, <1>3, <1>4, <1>5 DEF TitleIInv, TitleSettled

-----------------------------------------------------------------------------
(* Codex *)
LEMMA NameInDatabaseKeeps == TitleIInv /\ NameInDatabase => TitleIInv'
<1> SUFFICES ASSUME TitleIInv, NameInDatabase PROVE TitleIInv'
    OBVIOUS
<1>1. Readable' = Readable /\ Newest' = Newest /\ Metadata' = Metadata
    BY IndexStays DEF NameInDatabase
<1>2. database' \in Title
  <2>1. database \in Title \cup {NoTitle} /\ database < MaxTitle /\ database' = database + 1
    BY DEF NameInDatabase, TitleIInv, TitleTypes, TitleTypeOK
  <2>2. QED
    BY <2>1, TitleWatchAssumption DEF Title, NoTitle
<1>3. TitleTypes'
    BY <1>2 DEF NameInDatabase, TitleIInv, TitleTypes, TitleTypeOK
<1>4. QED
    BY <1>1, <1>3 DEF NameInDatabase, TitleIInv, SeenOK, ApplyOK, TitleSettled

(* Codex changes the index: what the watcher has seen is no longer it. *)
LEMMA IndexMoves ==
    ASSUME TitleIInv, TitleTypes', SeenOK', seen' # Metadata',
           Readable # <<>> => Readable' # <<>>,
           UNCHANGED <<poll, lines, published, title, skipped, raced>>
    PROVE  TitleIInv'
BY DEF TitleIInv, ApplyOK, TitleSettled

LEMMA NameInIndexKeeps == TitleIInv /\ NameInIndex => TitleIInv'
<1> SUFFICES ASSUME TitleIInv, NameInIndex PROVE TitleIInv'
    OBVIOUS
<1>1. /\ index \in Seq(Title) /\ seen.index \in Seq(Title) /\ torn = FALSE
      /\ seen \in [index : Seq(Title), torn : BOOLEAN] /\ Len(seen.index) <= Len(index)
    BY DEF TitleIInv, TitleTypes, TitleTypeOK, SeenOK, NameInIndex
<1>2. database \in Title
  <2>1. database \in Title \cup {NoTitle} /\ Newest \in Title \cup {NoTitle} /\ Newest < database
    BY ReadableIs DEF TitleIInv, TitleTypes, TitleTypeOK, NameInIndex
  <2>2. QED
    BY <2>1, TitleWatchAssumption DEF Title, NoTitle
<1>3. index' = Append(index, database) /\ torn' \in BOOLEAN
    BY DEF NameInIndex
<1>4. index' \in Seq(Title) /\ Len(index') = Len(index) + 1 /\ index' # <<>>
    BY <1>1, <1>2, <1>3, AppendProperties
<1>5. Len(index) \in Nat /\ Len(seen.index) \in Nat /\ seen' = seen
    BY <1>1, LenProperties DEF NameInIndex
<1>6. TitleTypes'
    BY <1>3, <1>4, <1>5 DEF NameInIndex, TitleIInv, TitleTypes, TitleTypeOK
<1>7. Len(seen'.index) < Len(index')
    BY <1>1, <1>4, <1>5
<1>8. SeenOK'
    BY <1>4, <1>5, <1>7 DEF SeenOK
<1>9. seen' # Metadata'
    BY <1>4, <1>5, <1>7 DEF Metadata
<1>10. Readable # <<>> => Readable' # <<>>
  <2>1. Readable = index /\ (index # <<>> => Len(index) >= 1)
    BY <1>1, EmptySeq, LenProperties DEF Readable
  <2>2. CASE torn'
    <3>1. Readable' = Front(index') /\ Len(Front(index')) = Len(index)
      BY <1>4, <1>5, <2>2, FrontOf DEF Readable
    <3>2. QED
      BY <2>1, <3>1
  <2>3. CASE ~torn'
    BY <1>4, <2>3 DEF Readable
  <2>4. QED
    BY <2>2, <2>3
<1>11. QED
    BY <1>6, <1>8, <1>9, <1>10, IndexMoves DEF NameInIndex

LEMMA FinishNameKeeps == TitleIInv /\ FinishName => TitleIInv'
<1> SUFFICES ASSUME TitleIInv, FinishName PROVE TitleIInv'
    OBVIOUS
<1>1. index \in Seq(Title) /\ torn /\ index # <<>> /\ torn' = FALSE /\ UNCHANGED <<index, seen>>
    BY DEF FinishName, TitleIInv, TitleTypes, TitleTypeOK
<1>2. TitleTypes'
    BY <1>1 DEF FinishName, TitleIInv, TitleTypes, TitleTypeOK
<1>3. SeenOK'
    BY <1>1 DEF TitleIInv, SeenOK
<1>4. seen.index = index => seen.torn
    BY <1>1 DEF TitleIInv, SeenOK
<1>5. seen' # Metadata'
  <2>1. Metadata'.index = index /\ Metadata'.torn = FALSE
    BY <1>1 DEF Metadata
  <2>2. QED
    BY <1>1, <1>4, <2>1
<1>6. Readable' # <<>>
    BY <1>1 DEF Readable
<1>7. QED
    BY <1>2, <1>3, <1>5, <1>6, IndexMoves DEF FinishName

-----------------------------------------------------------------------------
(* The watcher *)
LEMMA StatIndexKeeps == TitleIInv /\ StatIndex => TitleIInv'
<1> SUFFICES ASSUME TitleIInv, StatIndex PROVE TitleIInv'
    OBVIOUS
<1>1. Readable' = Readable /\ Newest' = Newest /\ Metadata' = Metadata
    BY IndexStays DEF StatIndex
<1>2. /\ seen' = Metadata /\ Metadata.index = index /\ Metadata.torn = torn
      /\ UNCHANGED <<index, torn>> /\ poll' = "read"
    BY DEF StatIndex, Metadata
<1>3. Metadata \in [index : Seq(Title), torn : BOOLEAN]
    BY DEF Metadata, TitleIInv, TitleTypes, TitleTypeOK
<1>4. TitleTypes'
    BY <1>2, <1>3 DEF StatIndex, TitleIInv, TitleTypes, TitleTypeOK
<1>5. Len(index) \in Nat
    BY LenProperties DEF TitleIInv, TitleTypes, TitleTypeOK
<1>6. SeenOK'
    BY <1>2, <1>5 DEF SeenOK
<1>7. ApplyOK' /\ TitleSettled'
    BY <1>1, <1>2 DEF StatIndex, TitleIInv, ApplyOK, TitleSettled
<1>8. QED
    BY <1>4, <1>6, <1>7 DEF TitleIInv

LEMMA ReadIndexKeeps == TitleIInv /\ ReadIndex => TitleIInv'
<1> SUFFICES ASSUME TitleIInv, ReadIndex PROVE TitleIInv'
    OBVIOUS
<1>1. Readable' = Readable /\ Newest' = Newest /\ Metadata' = Metadata
    BY IndexStays DEF ReadIndex
<1>2. Readable \in Seq(Title) /\ lines' = Readable /\ poll' = "apply"
    BY ReadableIs DEF TitleIInv, ReadIndex
<1>3. TitleTypes'
    BY <1>2 DEF ReadIndex, TitleIInv, TitleTypes, TitleTypeOK
<1>4. SeenOK' /\ TitleSettled'
    BY <1>2 DEF ReadIndex, TitleIInv, SeenOK, TitleSettled
<1>5. ApplyOK'
    BY <1>1, <1>2 DEF ReadIndex, TitleIInv, ApplyOK, Newest
<1>6. QED
    BY <1>3, <1>4, <1>5 DEF TitleIInv

LEMMA FailToReadIndexKeeps == TitleIInv /\ FailToReadIndex => TitleIInv'
<1> SUFFICES ASSUME TitleIInv, FailToReadIndex PROVE TitleIInv'
    OBVIOUS
<1>1. Readable' = Readable /\ Newest' = Newest /\ Metadata' = Metadata
    BY IndexStays DEF FailToReadIndex
<1>2. TitleTypes'
    BY DEF FailToReadIndex, TitleIInv, TitleTypes, TitleTypeOK
<1>3. QED
    BY <1>1, <1>2 DEF FailToReadIndex, TitleIInv, SeenOK, ApplyOK, TitleSettled

LEMMA ApplyTitleKeeps == TitleIInv /\ ApplyTitle => TitleIInv'
<1> SUFFICES ASSUME TitleIInv, ApplyTitle PROVE TitleIInv'
    OBVIOUS
<1>1. Readable' = Readable /\ Newest' = Newest /\ Metadata' = Metadata
    BY IndexStays DEF ApplyTitle
<1>2. /\ lines \in Seq(Title) /\ lines # <<>> /\ poll = "apply" /\ Readable # <<>>
      /\ seen = Metadata => Last(lines) = Newest
    BY DEF ApplyTitle, TitleIInv, TitleTypes, TitleTypeOK, ApplyOK
<1>3. /\ title' = IF published THEN Head(lines) ELSE title
      /\ lines' = Tail(lines)
      /\ UNCHANGED <<index, torn, poll, seen, published, skipped>>
    BY DEF ApplyTitle
<1>4. /\ lines' \in Seq(Title) /\ Head(lines) \in Title
      /\ lines' = <<>> => Last(lines) = Head(lines)
      /\ lines' # <<>> => Last(lines') = Last(lines)
    BY <1>2, <1>3, TailOf
<1>5. TitleTypes'
  <2>1. raced' \in BOOLEAN
    BY DEF ApplyTitle, TitleIInv, TitleTypes, TitleTypeOK
  <2>2. title' \in Title \cup {NoTitle}
    BY <1>3, <1>4 DEF TitleIInv, TitleTypes, TitleTypeOK
  <2>3. QED
    BY <1>4, <2>1, <2>2 DEF ApplyTitle, TitleIInv, TitleTypes, TitleTypeOK
<1>6. SeenOK'
    BY <1>3 DEF TitleIInv, SeenOK
<1>7. ApplyOK'
    BY <1>1, <1>2, <1>3, <1>4 DEF ApplyOK
<1>8. TitleSettled'
    BY <1>2, <1>3 DEF TitleSettled
<1>9. QED
    BY <1>5, <1>6, <1>7, <1>8 DEF TitleIInv

LEMMA EndTitlesKeeps == TitleIInv /\ EndTitles => TitleIInv'
<1> SUFFICES ASSUME TitleIInv, EndTitles PROVE TitleIInv'
    OBVIOUS
<1>1. Readable' = Readable /\ Newest' = Newest /\ Metadata' = Metadata
    BY IndexStays DEF EndTitles
<1>2. TitleTypes'
    BY DEF EndTitles, TitleIInv, TitleTypes, TitleTypeOK
<1>3. QED
    BY <1>1, <1>2 DEF EndTitles, TitleIInv, SeenOK, ApplyOK, TitleSettled

-----------------------------------------------------------------------------
(* The hooks *)
LEMMA FindTitleKeeps ==
    ASSUME TitleIInv, NEW c \in Caller, FindTitle(c)
    PROVE  TitleIInv'
<1>1. Readable' = Readable /\ Newest' = Newest /\ Metadata' = Metadata
    BY IndexStays DEF FindTitle
<1>2. PICK state \in {database, NoTitle}, name \in {Newest, NoTitle}, noted \in NoTitle..database :
          found' = [found EXCEPT ![c] = FirstTold(state, name, noted)]
    BY DEF FindTitle
<1>3. FirstTold(state, name, noted) \in Title \cup {NoTitle}
  <2>1. database \in Title \cup {NoTitle} /\ Newest \in Title \cup {NoTitle}
    BY ReadableIs DEF TitleIInv, TitleTypes, TitleTypeOK
  <2>2. noted \in Title \cup {NoTitle}
    BY <2>1, TitleWatchAssumption DEF Title, NoTitle
  <2>3. QED
    BY <2>1, <2>2 DEF FirstTold
<1>4. TitleTypes'
    BY <1>2, <1>3 DEF FindTitle, TitleIInv, TitleTypes, TitleTypeOK
<1>5. QED
    BY <1>1, <1>4 DEF FindTitle, TitleIInv, SeenOK, ApplyOK, TitleSettled

LEMMA RefreshTitleKeeps ==
    ASSUME TitleIInv, NEW c \in Caller, RefreshTitle(c)
    PROVE  TitleIInv'
<1>1. Readable' = Readable /\ Newest' = Newest /\ Metadata' = Metadata
    BY IndexStays DEF RefreshTitle
<1>2. title' = Newest' \/ raced'
    BY <1>1 DEF RefreshTitle
<1>3. TitleTypes'
  <2>1. raced' = TRUE \/ raced' = FALSE
    BY DEF RefreshTitle
  <2>2. title' \in Title \cup {NoTitle} /\ published' = TRUE
    BY DEF RefreshTitle, TitleIInv, TitleTypes, TitleTypeOK
  <2>3. hook' \in [Caller -> {"idle", "found", "done"}]
    BY DEF RefreshTitle, TitleIInv, TitleTypes, TitleTypeOK
  <2>4. QED
    BY <2>1, <2>2, <2>3 DEF RefreshTitle, TitleIInv, TitleTypes, TitleTypeOK
<1>4. SeenOK'
    BY DEF RefreshTitle, TitleIInv, SeenOK
<1>5. Readable = <<>> => Newest = NoTitle
    BY DEF Newest
<1>6. ApplyOK' /\ TitleSettled'
    BY <1>1, <1>2, <1>5 DEF RefreshTitle, TitleIInv, ApplyOK, TitleSettled
<1>7. QED
    BY <1>3, <1>4, <1>6 DEF TitleIInv

LEMMA TitleStepKeeps == TitleIInv /\ [TitleNext]_titleVars => TitleIInv'
<1> SUFFICES ASSUME TitleIInv, [TitleNext]_titleVars PROVE TitleIInv'
    OBVIOUS
<1>1. CASE UNCHANGED titleVars
  <2>1. Readable' = Readable /\ Newest' = Newest /\ Metadata' = Metadata
    BY <1>1, IndexStays DEF titleVars
  <2>2. TitleTypes'
    BY <1>1 DEF titleVars, TitleIInv, TitleTypes, TitleTypeOK
  <2>3. QED
    BY <1>1, <2>1, <2>2 DEF titleVars, TitleIInv, SeenOK, ApplyOK, TitleSettled
<1>2. CASE TitleNext
    BY <1>2, NameInDatabaseKeeps, NameInIndexKeeps, FinishNameKeeps, StatIndexKeeps,
       ReadIndexKeeps, FailToReadIndexKeeps, ApplyTitleKeeps, EndTitlesKeeps, FindTitleKeeps,
       RefreshTitleKeeps DEF TitleNext
<1>3. QED
    BY <1>1, <1>2

(* The watcher and the hooks keep the types of their variables. *)
THEOREM TitleTypeCorrect == TitleSpec => []TitleTypeOK
<1>1. TitleIInv => TitleTypeOK
    BY DEF TitleIInv, TitleTypes
<1>2. QED
    BY <1>1, TitleInitIInv, TitleStepKeeps, PTL DEF TitleSpec

(* The title watcher at rest has missed nothing of the index: the safety   *)
(* half of TitleCatchesUp, for all titles and hooks.                       *)
THEOREM TitleIsNewest == TitleSpec => []TitleSettled
<1>1. TitleIInv => TitleSettled
    BY DEF TitleIInv
<1>2. QED
    BY <1>1, TitleInitIInv, TitleStepKeeps, PTL DEF TitleSpec

-----------------------------------------------------------------------------
LEMMA MinIsLeast ==
    ASSUME NEW I \in SUBSET Nat, I # {}
    PROVE  Min(I) \in I
<1>1. PICK x \in I : \A y \in I : x <= y
    BY MinExists
<1>2. QED
    BY <1>1 DEF Min

(* The suggestion an answer selects is one of those that allow. *)
LEMMA SelectedAllows ==
    ASSUME NEW r \in Request, NEW a
    PROVE  SuggestionFor(r, a) \in Allowing(r) \cup {0} /\ Allowing(r) \subseteq 1..Len(r.suggestions)
<1> DEFINE labelled == {i \in Allowing(r) : SameText(SuggestionLabel(r.suggestions[i]), a)}
<1>1. Allowing(r) \subseteq 1..Len(r.suggestions)
    BY PermissionPromptAssumption DEF Allowing
<1>2. Allowing(r) \in SUBSET Nat /\ labelled \in SUBSET Nat /\ labelled \subseteq Allowing(r)
    BY <1>1
<1>3. labelled # {} => Min(labelled) \in labelled
    BY <1>2, MinIsLeast
<1>4. Allowing(r) # {} => Min(Allowing(r)) \in Allowing(r)
    BY <1>2, MinIsLeast
<1>5. SuggestionFor(r, a) = IF labelled # {} THEN Min(labelled)
                            ELSE IF Allowing(r) # {} THEN Min(Allowing(r)) ELSE 0
    BY DEF SuggestionFor
<1> HIDE DEF labelled
<1>6. QED
    BY <1>1, <1>2, <1>3, <1>4, <1>5

(* What the daemon answers once it has the text. *)
Answered == IF request.kind = "Elicitation" THEN Echo(text) ELSE PermissionResponse(request, text)

Sane(g) ==
    /\ g.effect \in Effects /\ g.index \in 0..Len(request.suggestions)
    /\ g.lasting \in {"no", "prefix", "suggestion", "matching"}

LEMMA GrantsAreSane ==
    ASSUME request \in Request
    PROVE  /\ Sane(Nothing) /\ Sane(EmptyObject) /\ Sane(Once) /\ Sane(Refusal)
           /\ \A a : Sane(Echo(a)) /\ Sane(PermissionResponse(request, a))
<1>0. Len(request.suggestions) \in Nat
    BY PermissionPromptAssumption
<1>1. Sane(Nothing) /\ Sane(EmptyObject) /\ Sane(Once) /\ Sane(Refusal)
    BY <1>0 DEF Sane, Nothing, EmptyObject, Once, Refusal, Grant, Effects
<1>2. \A a : Sane(Echo(a))
    BY <1>0, <1>1 DEF Sane, Echo, Grant, Effects
<1>3. ASSUME NEW a PROVE Sane(PermissionResponse(request, a))
  <2>1. SuggestionFor(request, a) \in 0..Len(request.suggestions)
    BY <1>0, SelectedAllows
  <2>2. Sane(AlwaysReply(request, a)) /\ Sane(Grant("allow", "matching", 0))
    BY <1>0, <1>1, <2>1 DEF Sane, AlwaysReply, Grant, Effects
  <2>3. Sane(Lasting(request, a))
    BY <1>1, <2>2 DEF Lasting
  <2>4. QED
    BY <1>1, <2>3 DEF PermissionResponse
<1>4. QED
    BY <1>1, <1>2, <1>3

LEMMA GrantForOnce ==
    ASSUME NEW l, NEW i
    PROVE  /\ Grant("allow", l, i).effect = "allow"
           /\ [Grant("allow", l, i) EXCEPT !.lasting = "no", !.index = 0] = Once
<1> DEFINE g == [effect |-> "allow", lasting |-> l, index |-> i]
           h == [g EXCEPT !.lasting = "no"]
           k == [h EXCEPT !.index = 0]
<1>1. DOMAIN h = {"effect", "lasting", "index"} /\ h["effect"] = "allow" /\ h["lasting"] = "no"
    OBVIOUS
<1> HIDE DEF h
<1>2. k = [x \in {"effect", "lasting", "index"} |-> IF x = "index" THEN 0 ELSE h[x]]
    BY <1>1
<1>3. Once = [x \in {"effect", "lasting", "index"} |->
                IF x = "index" THEN 0 ELSE IF x = "effect" THEN "allow" ELSE "no"]
    BY DEF Once, Grant
<1>4. k = Once
    BY <1>1, <1>2, <1>3
<1>5. QED
    BY <1>4 DEF h, Grant

(* What is offered to be allowed for good is described and granted alike,  *)
(* or the grant is for this once.                                          *)
LEMMA OfferedIsGranted ==
    ASSUME NEW r \in Request, NEW o \in PermissionOptions(r)
    PROVE  /\ PermissionResponse(r, o) \in
                  {Described(r, o), [Described(r, o) EXCEPT !.lasting = "no", !.index = 0]}
           /\ PermissionResponse(r, o).effect = Described(r, o).effect
<1>1. CASE o = Option("allow", "")
  <2>1. PermissionResponse(r, o) = Once /\ Described(r, o) = Once
    BY <1>1 DEF PermissionResponse, Described, Option, Text, IsAllow, IsAlways
  <2>2. QED
    BY <2>1
<1>2. CASE o = Option("deny", "")
  <2>1. PermissionResponse(r, o) = Refusal /\ Described(r, o) = Refusal
    BY <1>2 DEF PermissionResponse, Described, Option, Text, IsAllow, IsAlways, IsDeny
  <2>2. QED
    BY <2>1
<1>3. CASE o.word = "always allow"
  <2> DEFINE s == SuggestionFor(r, o)
             d == IF HasPrefix(r) THEN Grant("allow", "prefix", 0)
                  ELSE IF s # 0 THEN Grant("allow", "suggestion", s) ELSE Grant("allow", "matching", 0)
  <2>1. Described(r, o) = d
    BY <1>3 DEF Described
  <2>2. PermissionResponse(r, o) = Lasting(r, o)
    BY <1>3 DEF PermissionResponse, IsAlways
  <2>3. d.effect = "allow" /\ [d EXCEPT !.lasting = "no", !.index = 0] = Once
    <3>1. CASE HasPrefix(r)
      BY <3>1, GrantForOnce
    <3>2. CASE ~HasPrefix(r) /\ s # 0
      BY <3>2, GrantForOnce
    <3>3. CASE ~HasPrefix(r) /\ s = 0
      BY <3>3, GrantForOnce
    <3>4. QED
      BY <3>1, <3>2, <3>3
  <2>4. AlwaysReply(r, o) \in {d, Once}
    BY DEF AlwaysReply
  <2>5. r.agent = "opencode" => d = Grant("allow", "matching", 0)
    <3> SUFFICES ASSUME r.agent = "opencode" PROVE ~HasPrefix(r) /\ s = 0
      OBVIOUS
    <3>1. r.suggestions = <<>> /\ ~r.codex
      BY PermissionPromptAssumption
    <3>2. Allowing(r) = {}
      BY <3>1, PermissionPromptAssumption DEF Allowing
    <3>3. QED
      BY <3>1, <3>2, SelectedAllows DEF HasPrefix
  <2>6. Lasting(r, o) \in {d, Once}
    BY <2>4, <2>5 DEF Lasting
  <2>7. Once.effect = "allow"
    BY DEF Once, Grant
  <2> HIDE DEF d
  <2>8. QED
    BY <2>1, <2>2, <2>3, <2>6, <2>7
<1>4. o \in {Option("allow", ""), Option("deny", "")}
      \/ o = Option("always allow", "")
      \/ \E i \in Allowing(r) : o = SuggestionLabel(r.suggestions[i])
    BY DEF PermissionOptions
<1>5. \A tail : Option("always allow", tail).word = "always allow"
    BY DEF Option, Text
<1>6. QED
    BY <1>1, <1>2, <1>3, <1>4, <1>5 DEF SuggestionLabel

-----------------------------------------------------------------------------
PromptIInv ==
    /\ client \in {"start", "send", "receive", "exited"}
    /\ server \in {"none", "read", "sent", "ask", "wait", "reply", "closed"}
    /\ request \in Request /\ broken \in BOOLEAN
    /\ options \in {{}, Offered(request)}
    /\ text \in options \cup FreeText \cup {NoText}
    /\ server \in {"none", "read", "sent", "ask", "wait"} => text = NoText
    /\ server # "closed" => reply = Nothing
    /\ reply \in {Nothing, Answered}
    /\ client = "start" => server = "none"
    /\ broken => client = "exited"
    /\ client # "exited" \/ broken => printed = Nothing
    /\ client = "exited" /\ ~broken =>
           printed = Printed(Nothing) \/ (server = "closed" /\ printed = Printed(reply))

LEMMA PromptInitIInv == PromptInit => PromptIInv
BY DEF PromptInit, PromptIInv

(* A step that leaves the request and the answer leaves the reply to them. *)
LEMMA AnsweredStays ==
    ASSUME request' = request, text' = text
    PROVE  Answered' = Answered
BY DEF Answered

LEMMA PromptStepKeeps == PromptIInv /\ [PromptNext]_promptVars => PromptIInv'
<1> SUFFICES ASSUME PromptIInv, [PromptNext]_promptVars PROVE PromptIInv'
    OBVIOUS
<1> USE DEF PromptIInv
<1>0. request' = request
    BY DEF PromptNext, promptVars, Connect, FailToConnect, SendMessage, Break, Receive,
           RejectMessage, ReadMessage, Defer, Ask, NoAnswer, Answer, WriteReply, DaemonDies
<1>1. Offered(request)' = Offered(request) /\ \A x : Printed(x)' = Printed(x)
    BY <1>0 DEF Printed
<1>2. text' = text => Answered' = Answered
    BY <1>0, AnsweredStays
<1>a. CASE Connect
    BY <1>a, <1>0, <1>1, <1>2 DEF Connect
<1>b. CASE FailToConnect
    BY <1>b, <1>0, <1>1, <1>2 DEF FailToConnect
<1>c. CASE SendMessage
    BY <1>c, <1>0, <1>1, <1>2 DEF SendMessage
<1>d. CASE Break
    BY <1>d, <1>0, <1>1, <1>2 DEF Break
<1>e. CASE Receive
    BY <1>e, <1>0, <1>1, <1>2 DEF Receive
<1>f. CASE RejectMessage
    BY <1>f, <1>0, <1>1, <1>2 DEF RejectMessage, Close
<1>g. CASE ReadMessage
    BY <1>g, <1>0, <1>1, <1>2 DEF ReadMessage
<1>h. CASE Defer
    BY <1>h, <1>0, <1>1, <1>2 DEF Defer, Close
<1>i. CASE Ask
    BY <1>i, <1>0, <1>1, <1>2 DEF Ask
<1>j. CASE NoAnswer
    BY <1>j, <1>0, <1>1, <1>2 DEF NoAnswer
<1>k. CASE Answer
    BY <1>k, <1>0, <1>1, <1>2 DEF Answer
<1>l. CASE WriteReply
  <2>1. reply' = Answered /\ Answered' = Answered
    BY <1>l, <1>2 DEF WriteReply, Answered
  <2>2. QED
    BY <1>l, <1>0, <1>1, <2>1 DEF WriteReply, Close
<1>m. CASE DaemonDies
    BY <1>m, <1>0, <1>1, <1>2 DEF DaemonDies, Close
<1>n. CASE UNCHANGED promptVars
    BY <1>n, <1>0, <1>1, <1>2 DEF promptVars
<1>q. QED
    BY <1>a, <1>b, <1>c, <1>d, <1>e, <1>f, <1>g, <1>h, <1>i, <1>j, <1>k, <1>l, <1>m, <1>n
       DEF PromptNext

LEMMA PrintedIs ==
    ASSUME PromptIInv
    PROVE  printed \in {Nothing, EmptyObject, Answered}
BY DEF PromptIInv, Printed

LEMMA PromptTypes == PromptIInv => PromptTypeOK
<1> SUFFICES ASSUME PromptIInv PROVE PromptTypeOK
    OBVIOUS
<1>1. Sane(Nothing) /\ Sane(EmptyObject) /\ Sane(Answered)
    BY GrantsAreSane DEF PromptIInv, Answered
<1>2. Sane(reply) /\ Sane(printed)
    BY <1>1, PrintedIs DEF PromptIInv
<1>3. QED
    BY <1>2 DEF PromptIInv, PromptTypeOK, Sane

LEMMA PromptGrants == PromptIInv => GrantIsAsDescribed
<1> SUFFICES ASSUME PromptIInv PROVE GrantIsAsDescribed
    OBVIOUS
<1>1. ASSUME printed.effect = "allow" PROVE Warranted(printed)
  <2>1. printed = Answered /\ Answered.effect = "allow"
    BY <1>1, PrintedIs DEF Nothing, EmptyObject, Grant
  <2>2. request.kind # "Elicitation" /\ Answered = PermissionResponse(request, text)
    BY <2>1 DEF Answered, Echo, Nothing, Grant
  <2>3. text # NoText /\ (IsAllow(text) \/ IsAlways(text))
    <3>1. ~IsAllow(text) /\ ~IsAlways(text) => Answered \in {Refusal, Nothing}
      BY <2>2 DEF PermissionResponse
    <3>2. Refusal.effect # "allow" /\ Nothing.effect # "allow"
      BY DEF Refusal, Nothing, Grant
    <3>3. ~IsAllow(NoText) /\ ~IsAlways(NoText)
      BY DEF NoText, Text, IsAllow, IsAlways
    <3>4. QED
      BY <2>1, <3>1, <3>2, <3>3
  <2>4. CASE text \in FreeText
    BY <2>3, <2>4 DEF Warranted
  <2>5. CASE text \in options
    <3>1. text \in PermissionOptions(request) /\ request \in Request
      BY <2>2, <2>5 DEF PromptIInv, Offered
    <3>2. QED
      BY <2>1, <2>2, <2>5, <3>1, OfferedIsGranted DEF Warranted
  <2>6. QED
    BY <2>3, <2>4, <2>5 DEF PromptIInv
<1>2. ASSUME request.kind = "PermissionRequest", NEW o \in options
      PROVE  PermissionResponse(request, o).effect = Described(request, o).effect
  <2>1. o \in PermissionOptions(request) /\ request \in Request
    BY <1>2 DEF PromptIInv, Offered
  <2>2. QED
    BY <2>1, OfferedIsGranted
<1>3. ASSUME request.agent = "gemini", client = "exited", ~broken PROVE printed # Nothing
    BY <1>3 DEF PromptIInv, Printed, EmptyObject, Nothing, Grant
<1>4. QED
    BY <1>1, <1>2, <1>3 DEF GrantIsAsDescribed

(* The prompt keeps the types of its variables: whatever is granted is an   *)
(* effect the program knows, of a suggestion the request carries.           *)
THEOREM PromptTypeCorrect == PromptSpec => []PromptTypeOK
BY PromptInitIInv, PromptStepKeeps, PromptTypes, PTL DEF PromptSpec

(* Every behaviour of the daemon's prompt, whatever the hooks carry and    *)
(* whatever a client answers: the agent is told to allow no more than the  *)
(* option picked is described to do.                                       *)
THEOREM GrantsAreDescribed == PromptSpec => []GrantIsAsDescribed
BY PromptInitIInv, PromptStepKeeps, PromptGrants, PTL DEF PromptSpec
-----------------------------------------------------------------------------
(* The parts together: a step of one leaves the others' variables, so that *)
(* each behaves as it does alone.                                          *)
LEMMA PartsBehave ==
    Spec => /\ CompactSpec /\ RolloutSpec /\ PromptSpec
            /\ TitleInit /\ [][TitleNext]_titleVars
<1>1. Init => CompactInit /\ TitleInit /\ RolloutInit /\ PromptInit
    BY DEF Init
<1>2. [Next]_vars => /\ [CompactNext]_compactVars /\ [TitleNext]_titleVars
                     /\ [RolloutNext]_rolloutVars /\ [PromptNext]_promptVars
    BY DEF Next, vars, LogStep, TitleStep, RolloutStep, PromptStep
<1>3. QED
    BY <1>1, <1>2, PTL DEF Spec, CompactSpec, RolloutSpec, PromptSpec

(* The variables of every part have their types, for all constants that    *)
(* the assumptions of the parts admit.                                     *)
THEOREM TypeCorrect == Spec => []TypeOK
<1>1. CompactTypeOK /\ TitleTypeOK /\ RolloutTypeOK /\ PromptTypeOK => TypeOK
    BY DEF TypeOK
<1>2. TitleInit /\ [][TitleNext]_titleVars => []TitleTypeOK
  <2>1. TitleIInv => TitleTypeOK
    BY DEF TitleIInv, TitleTypes
  <2>2. QED
    BY <2>1, TitleInitIInv, TitleStepKeeps, PTL
<1>3. QED
    BY <1>1, <1>2, PartsBehave, CompactTypeCorrect, RolloutTypeCorrect, PromptTypeCorrect, PTL

(* And each keeps what it promises by itself. *)
THEOREM PartsKeepTheirPromises ==
    Spec => [](EachLineIsApplied /\ RolloutWasThere /\ LineageIsTrue /\ GrantIsAsDescribed
                   /\ TitleSettled)
<1>1. TitleInit /\ [][TitleNext]_titleVars => []TitleSettled
  <2>1. TitleIInv => TitleSettled
    BY DEF TitleIInv
  <2>2. QED
    BY <2>1, TitleInitIInv, TitleStepKeeps, PTL
<1>2. QED
    BY <1>1, PartsBehave, LinesAreApplied, PathWasThere, LineageHolds, GrantsAreDescribed, PTL
=============================================================================
