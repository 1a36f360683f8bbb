--------------------------- MODULE CodexRollouts ---------------------------
(***************************************************************************)
(* Finding the rollout of a Codex session, through a cache of 256 paths    *)
(* (providers/codex/artifacts.rs), and the session's lineage from it       *)
(* (providers/codex/subagent.rs).                                          *)
(*                                                                         *)
(* Several tasks look sessions up at once while Codex creates and removes  *)
(* rollouts.  A rollout's name contains the id of its session; it begins   *)
(* with the session's own record, and a session that spawns another        *)
(* appends the other's record to its own rollouts.  The name also carries  *)
(* the time of its creation: one that has been removed does not come back. *)
(***************************************************************************)
EXTENDS Naturals, Sequences, SequencesExt, FiniteSets

CONSTANTS
    Session,    \* sessions
    Path,       \* files under sessions/
    OwnerOf,    \* the session whose id is in the name of each
    SpawnedBy,  \* the session that spawned each, or None
    Task,       \* calls of codex_subagent_info
    CacheMax,   \* CODEX_SESSION_FILE_CACHE_MAX
    None        \* no session, no file

ASSUME CodexRolloutsAssumption ==
    /\ CacheMax \in Nat /\ None \notin Session \cup Path /\ OwnerOf \in [Path -> Session]
    /\ SpawnedBy \in [Session -> Session \cup {None}] /\ \A s \in Session : SpawnedBy[s] # s

VARIABLES
    age,        \* the files by time of last change, the oldest first
    record,     \* the session_meta records of each file
    entries,    \* the cache: its map
    order,      \* and its queue
    task,       \* where each task is
    wanted,     \* the session it looks up
    transcript, \* the file its hook names, or None
    matches,    \* the files its scan has found
    answer,     \* the file it has been given, or None
    lineage,    \* the parent it has found, or None
    there       \* history: files of its session that were there meanwhile

fileVars == <<age, record>>
cacheVars == <<entries, order>>
rolloutVars == <<fileVars, cacheVars, task, wanted, transcript, matches, answer, lineage, there>>

Files == ToSet(age)

RolloutInit ==
    /\ age = <<>> /\ record = [p \in Path |-> <<>>]
    /\ entries = <<>> /\ order = <<>>
    /\ task = [t \in Task |-> "idle"] /\ wanted = [t \in Task |-> None]
    /\ transcript = [t \in Task |-> None]
    /\ matches = [t \in Task |-> {}] /\ answer = [t \in Task |-> None]
    /\ lineage = [t \in Task |-> None] /\ there = [t \in Task |-> {}]

-----------------------------------------------------------------------------
(* Codex *)
Meta(s) == [id |-> s, parent |-> SpawnedBy[s]]

StartRollout(p) ==
    /\ record[p] = <<>>
    /\ age' = Append(age, p)
    /\ record' = [record EXCEPT ![p] = <<Meta(OwnerOf[p])>>]
    /\ there' = [t \in Task |-> there[t] \cup ({p} \cap {q \in Path : OwnerOf[q] = wanted[t]})]
    /\ UNCHANGED <<cacheVars, task, wanted, transcript, matches, answer, lineage>>

Spawn(s, p) ==
    /\ p \in Files /\ SpawnedBy[s] = OwnerOf[p]
    /\ \A m \in ToSet(record[p]) : m.id # s
    /\ record' = [record EXCEPT ![p] = Append(@, Meta(s))]
    /\ age' = Append(RemoveFirst(age, p), p)
    /\ UNCHANGED <<cacheVars, task, wanted, transcript, matches, answer, lineage, there>>

RemoveRollout(p) ==
    /\ p \in Files
    /\ age' = RemoveFirst(age, p)
    /\ UNCHANGED <<record, cacheVars, task, wanted, transcript, matches, answer, lineage, there>>

-----------------------------------------------------------------------------
(* BoundedCache: each of its operations runs under the lock.  The queue    *)
(* holds a session once at most, so that RemoveFirst removes all of it.    *)
Touch(s) == order' = Append(RemoveFirst(order, s), s)

(* Faulty: the queue keeps what the map has lost. *)
RemoveFromMap(s) ==
    /\ entries' = [x \in DOMAIN entries \ {s} |-> entries[x]]
    /\ UNCHANGED order

RemoveEntry(s) ==
    /\ entries' = [x \in DOMAIN entries \ {s} |-> entries[x]]
    /\ order' = RemoveFirst(order, s)

InsertEntry(s, p) ==
    LET e == [x \in DOMAIN entries \cup {s} |-> IF x = s THEN p ELSE entries[x]]
        o == Append(RemoveFirst(order, s), s)
        n == IF Cardinality(DOMAIN e) > CacheMax THEN Cardinality(DOMAIN e) - CacheMax ELSE 0
    IN  /\ entries' = [x \in DOMAIN e \ ToSet(SubSeq(o, 1, n)) |-> e[x]]
        /\ order' = SubSeq(o, n + 1, Len(o))

Goto(t, l) == task' = [task EXCEPT ![t] = l]

(* codex_subagent_info, of a hook whose own data do not tell the parent:   *)
(* it may name the transcript of its session or of the session's parent.   *)
Call(t, s) ==
    /\ task[t] = "idle"
    /\ wanted' = [wanted EXCEPT ![t] = s]
    /\ \E f \in {None} \cup {p \in Files : OwnerOf[p] \in {s, SpawnedBy[s]}} :
           /\ transcript' = [transcript EXCEPT ![t] = f]
           /\ Goto(t, IF f = None THEN "lookup" ELSE "transcript")
    /\ there' = [there EXCEPT ![t] = {p \in Files : OwnerOf[p] = s}]
    /\ UNCHANGED <<fileVars, cacheVars, matches, answer, lineage>>

(* codex_session_meta_from_path: the first record of the session that has  *)
(* a parent.                                                               *)
(* Faulty: any record of the file will do.                                 *)
AnyRecord(p, s) == SelectInSeq(record[p], LAMBDA m : m.parent # None)

RecordOf(p, s) == SelectInSeq(record[p], LAMBDA m : m.id = s /\ m.parent # None)

(* A session that is its own parent is refused. *)
ParentIn(p, s) ==
    LET n == RecordOf(p, s)
    IN  IF n = 0 \/ record[p][n].parent = s THEN None ELSE record[p][n].parent

ReadTranscript(t) ==
    /\ task[t] = "transcript" /\ transcript[t] \in Files
    /\ lineage' = [lineage EXCEPT ![t] = ParentIn(transcript[t], wanted[t])]
    /\ transcript' = [transcript EXCEPT ![t] = None]
    /\ Goto(t, IF RecordOf(transcript[t], wanted[t]) = 0 THEN "lookup" ELSE "done")
    /\ UNCHANGED <<fileVars, cacheVars, wanted, matches, answer, there>>

(* A file has gone, or its first 256 KiB are not UTF-8. *)
FailToReadFile(t) ==
    /\ task[t] \in {"transcript", "read"}
    /\ transcript' = [transcript EXCEPT ![t] = None]
    /\ Goto(t, IF task[t] = "transcript" THEN "lookup" ELSE "done")
    /\ UNCHANGED <<fileVars, cacheVars, wanted, matches, answer, lineage, there>>

-----------------------------------------------------------------------------
(* codex_session_file *)
(* Faulty: a cached path is not looked for. *)
LookupUnchecked(t) ==
    /\ task[t] = "lookup"
    /\ IF wanted[t] \in DOMAIN entries
       THEN /\ Touch(wanted[t]) /\ UNCHANGED entries
            /\ answer' = [answer EXCEPT ![t] = entries[wanted[t]]]
            /\ Goto(t, "read")
       ELSE Goto(t, "scan") /\ UNCHANGED <<cacheVars, answer>>
    /\ UNCHANGED <<fileVars, wanted, transcript, matches, lineage, there>>

Lookup(t) ==
    /\ task[t] = "lookup"
    /\ \/ /\ wanted[t] \in DOMAIN entries /\ entries[wanted[t]] \in Files
          /\ Touch(wanted[t]) /\ UNCHANGED entries
          /\ answer' = [answer EXCEPT ![t] = entries[wanted[t]]]
          /\ Goto(t, "read")
       \/ /\ wanted[t] \in DOMAIN entries /\ entries[wanted[t]] \notin Files
          /\ RemoveEntry(wanted[t])
          /\ Goto(t, "scan") /\ UNCHANGED answer
       \/ /\ wanted[t] \notin DOMAIN entries
          /\ Goto(t, "scan") /\ UNCHANGED <<cacheVars, answer>>
    /\ UNCHANGED <<fileVars, wanted, transcript, matches, lineage, there>>

(* collect_matching_codex_sessions, without the lock *)
Scan(t) ==
    /\ task[t] = "scan"
    /\ matches' = [matches EXCEPT ![t] = {p \in Files : OwnerOf[p] = wanted[t]}]
    /\ Goto(t, IF matches'[t] = {} THEN "done" ELSE "newest")
    /\ UNCHANGED <<fileVars, cacheVars, wanted, transcript, answer, lineage, there>>

(* The last changed; a file that has gone since counts as the oldest. *)
TakeNewest(t) ==
    /\ task[t] = "newest"
    /\ \E p \in matches[t] :
          /\ \A q \in matches[t] \cap Files :
                p \in Files /\ SelectLastInSeq(age, LAMBDA x : x = q)
                                  <= SelectLastInSeq(age, LAMBDA x : x = p)
          /\ answer' = [answer EXCEPT ![t] = p]
    /\ matches' = [matches EXCEPT ![t] = {}]
    /\ Goto(t, "insert")
    /\ UNCHANGED <<fileVars, cacheVars, wanted, transcript, lineage, there>>

CacheAnswer(t) ==
    /\ task[t] = "insert"
    /\ InsertEntry(wanted[t], answer[t])
    /\ Goto(t, "read")
    /\ UNCHANGED <<fileVars, wanted, transcript, matches, answer, lineage, there>>

ReadLineage(t) ==
    /\ task[t] = "read" /\ answer[t] \in Files
    /\ lineage' = [lineage EXCEPT ![t] = ParentIn(answer[t], wanted[t])]
    /\ Goto(t, "done")
    /\ UNCHANGED <<fileVars, cacheVars, wanted, transcript, matches, answer, there>>

Return(t) ==
    /\ task[t] = "done"
    /\ Goto(t, "idle")
    /\ wanted' = [wanted EXCEPT ![t] = None] /\ there' = [there EXCEPT ![t] = {}]
    /\ answer' = [answer EXCEPT ![t] = None] /\ lineage' = [lineage EXCEPT ![t] = None]
    /\ UNCHANGED <<fileVars, cacheVars, transcript, matches>>

TaskStep(t) ==
    \/ \E s \in Session : Call(t, s)
    \/ ReadTranscript(t) \/ Lookup(t) \/ Scan(t) \/ TakeNewest(t) \/ CacheAnswer(t)
    \/ ReadLineage(t) \/ FailToReadFile(t) \/ Return(t)

RolloutNext ==
    \/ \E p \in Path : StartRollout(p) \/ RemoveRollout(p)
    \/ \E p \in Path, s \in Session : Spawn(s, p)
    \/ \E t \in Task : TaskStep(t)

RolloutSpec == RolloutInit /\ [][RolloutNext]_rolloutVars

-----------------------------------------------------------------------------
(* The map and the queue of the cache hold the same sessions, each once,   *)
(* and no more than they may.                                              *)
RolloutTypeOK ==
    /\ Files \subseteq Path /\ record \in [Path -> Seq([id : Session, parent : Session \cup {None}])]
    /\ DOMAIN entries = ToSet(order) /\ Cardinality(DOMAIN entries) = Len(order)
    /\ Len(order) <= CacheMax /\ \A s \in DOMAIN entries : OwnerOf[entries[s]] = s
    /\ task \in [Task -> {"idle", "transcript", "lookup", "scan", "newest", "insert", "read", "done"}]
    /\ {wanted, lineage} \subseteq [Task -> Session \cup {None}]
    /\ {transcript, answer} \subseteq [Task -> Path \cup {None}] /\ {matches, there} \subseteq [Task -> SUBSET Path]

(* artifacts.rs 64-85: whatever the other tasks put into the cache         *)
(* meanwhile, a task is given a file of the session it asked for that was  *)
(* there at some time while it asked.                                      *)
RolloutWasThere == \A t \in Task : answer[t] # None => answer[t] \in there[t]

(* subagent.rs 94-123: a session is taken for the child of the session     *)
(* that spawned it and of no other, though the records of its own children *)
(* are in its rollout.                                                     *)
LineageIsTrue == \A t \in Task : lineage[t] # None => lineage[t] = SpawnedBy[wanted[t]]
=============================================================================
