---------------------------- MODULE TitleWatch ----------------------------
(***************************************************************************)
(* The title of a Codex session (providers/codex/title.rs): a watcher      *)
(* rereads the session index whenever its metadata changes, and every hook *)
(* looks the title up before it updates the session.                       *)
(*                                                                         *)
(* One session.  Codex numbers its titles, writes each to the state        *)
(* database and appends it to the index, which can be read with its last   *)
(* line half written.  The index only grows, so what it holds stands for   *)
(* its length and times.                                                   *)
(***************************************************************************)
EXTENDS Naturals, Sequences, SequencesExt

CONSTANTS
    Caller,     \* hooks of the session
    MaxTitle    \* bound: titles given

ASSUME TitleWatchAssumption == MaxTitle \in Nat

VARIABLES
    database,   \* the title in state_5.sqlite, or NoTitle
    index,      \* the titles in session_index.jsonl
    torn,       \* the last of them is half written
    poll,       \* where the watcher's loop is
    seen,       \* what the metadata it last saw stand for
    lines,      \* the titles it has read and not yet applied
    hook,       \* where each hook is
    found,      \* the title a hook has looked up
    published,  \* the session is on the bus
    title,      \* its SessionTitle
    skipped,    \* history: the watcher's last read failed
    raced       \* history: a hook has since written another title than the newest

titleVars ==
    <<database, index, torn, poll, seen, lines, hook, found, published, title, skipped, raced>>

NoTitle == 0
Unseen == [index |-> <<>>, torn |-> TRUE]
Title == 1..MaxTitle

TitleInit ==
    /\ database = NoTitle /\ index = <<>> /\ torn = FALSE
    /\ poll = "sleep" /\ seen = Unseen /\ lines = <<>>
    /\ hook = [c \in Caller |-> "idle"] /\ found = [c \in Caller |-> NoTitle]
    /\ published = FALSE /\ title = NoTitle
    /\ skipped = FALSE /\ raced = FALSE

Metadata == [index |-> index, torn |-> torn]

(* A line that is not whole is not JSON. *)
Readable == IF torn THEN Front(index) ELSE index

Newest == IF Readable = <<>> THEN NoTitle ELSE Last(Readable)

-----------------------------------------------------------------------------
(* Codex: a title goes to the database, then to the index. *)
NameInDatabase ==
    /\ database < MaxTitle /\ ~torn
    /\ database = IF index = <<>> THEN NoTitle ELSE Last(index)
    /\ database' = database + 1
    /\ UNCHANGED <<index, torn, poll, seen, lines, hook, found, published, title, skipped, raced>>

NameInIndex ==
    /\ Newest < database /\ ~torn
    /\ index' = Append(index, database) /\ torn' \in BOOLEAN
    /\ UNCHANGED <<database, poll, seen, lines, hook, found, published, title, skipped, raced>>

FinishName ==
    /\ torn
    /\ torn' = FALSE
    /\ UNCHANGED <<database, index, poll, seen, lines, hook, found, published, title, skipped, raced>>

-----------------------------------------------------------------------------
(* start_codex_title_watcher *)
StatIndex ==
    /\ poll = "sleep" /\ seen # Metadata
    /\ seen' = Metadata
    /\ poll' = "read"
    /\ UNCHANGED <<database, index, torn, lines, hook, found, published, title, skipped, raced>>

ReadIndex ==
    /\ poll = "read"
    /\ poll' = "apply" /\ lines' = Readable /\ skipped' = FALSE
    /\ UNCHANGED <<database, index, torn, seen, hook, found, published, title, raced>>

(* The next change of the index brings the next attempt. *)
FailToReadIndex ==
    /\ poll = "read"
    /\ poll' = "sleep" /\ skipped' = TRUE
    /\ UNCHANGED <<database, index, torn, seen, lines, hook, found, published, title, raced>>

(* update_existing_session *)
ApplyTitle ==
    /\ poll = "apply" /\ lines # <<>>
    /\ title' = IF published THEN Head(lines) ELSE title
    /\ raced' = (raced /\ ~published)
    /\ lines' = Tail(lines)
    /\ UNCHANGED <<database, index, torn, poll, seen, hook, found, published, skipped>>

(* Faulty: the metadata are taken again once the titles are applied. *)
StampAtEnd ==
    /\ poll = "apply" /\ lines = <<>>
    /\ poll' = "sleep" /\ seen' = Metadata
    /\ UNCHANGED <<database, index, torn, lines, hook, found, published, title, skipped, raced>>

EndTitles ==
    /\ poll = "apply" /\ lines = <<>>
    /\ poll' = "sleep"
    /\ UNCHANGED <<database, index, torn, seen, lines, hook, found, published, title, skipped, raced>>

-----------------------------------------------------------------------------
(* codex_thread_title: the first title told by the database, by the index  *)
(* or by the end of the session's rollout.  The database and the index may *)
(* fail to answer.  Codex notes in the rollout whichever name it likes, if *)
(* any, and the end that is read may hold it or not.                       *)
FirstTold(state, name, noted) ==
    IF state # NoTitle THEN state ELSE IF name # NoTitle THEN name ELSE noted

FindTitle(c) ==
    /\ hook[c] = "idle"
    /\ hook' = [hook EXCEPT ![c] = "found"]
    /\ \E state \in {database, NoTitle}, name \in {Newest, NoTitle}, noted \in NoTitle..database :
          found' = [found EXCEPT ![c] = FirstTold(state, name, noted)]
    /\ UNCHANGED <<database, index, torn, poll, seen, lines, published, title, skipped, raced>>

(* refresh_session_title; the arm of the event publishes the session       *)
(* whether there is a title or not.                                        *)
RefreshTitle(c) ==
    /\ hook[c] = "found"
    /\ hook' = [hook EXCEPT ![c] = "done"]
    /\ title' = IF found[c] = NoTitle THEN title ELSE found[c]
    /\ published' = TRUE /\ raced' = (title' # Newest)
    /\ UNCHANGED <<database, index, torn, poll, seen, lines, found, skipped>>

TitleNext ==
    \/ NameInDatabase \/ NameInIndex \/ FinishName
    \/ StatIndex \/ ReadIndex \/ FailToReadIndex \/ ApplyTitle \/ EndTitles
    \/ \E c \in Caller : FindTitle(c) \/ RefreshTitle(c)

(* The watcher's loop goes on, and a hook that has begun ends. *)
TitleFairness ==
    /\ WF_titleVars(StatIndex) /\ WF_titleVars(ReadIndex \/ FailToReadIndex)
    /\ WF_titleVars(ApplyTitle) /\ WF_titleVars(EndTitles)
    /\ \A c \in Caller : WF_titleVars(RefreshTitle(c))

TitleSpec == TitleInit /\ [][TitleNext]_titleVars /\ TitleFairness

-----------------------------------------------------------------------------
TitleTypeOK ==
    /\ {database, title} \subseteq Title \cup {NoTitle}
    /\ index \in Seq(Title) /\ torn \in BOOLEAN /\ (torn => index # <<>>)
    /\ seen.index \in Seq(Title) /\ lines \in Seq(Title)
    /\ poll \in {"sleep", "read", "apply"}
    /\ hook \in [Caller -> {"idle", "found", "done"}]
    /\ found \in [Caller -> Title \cup {NoTitle}]
    /\ {published, skipped, raced} \subseteq BOOLEAN

(* title.rs 24-38: in the end the session has the newest title of the      *)
(* index, unless the watcher could not read it, or a hook has put another  *)
(* title since: one it had looked up before the newest was given, or that  *)
(* another source told.                                                    *)
TitleCatchesUp ==
    <>[](published => title = Newest \/ skipped \/ raced)
=============================================================================
