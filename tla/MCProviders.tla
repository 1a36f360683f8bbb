---------------------------- MODULE MCProviders ----------------------------
(***************************************************************************)
(* Small instances of the parts that share no state: a behaviour is one of *)
(* the compaction log, of the title index, of the rollouts or of a prompt. *)
(***************************************************************************)
EXTENDS CompactLog, TitleWatch, CodexRollouts, PermissionPrompt, TLC

CONSTANTS s1, s2, s3, p1, p2, p3, t1, t2

VARIABLE part

vars == <<part, compactVars, titleVars, rolloutVars, promptVars>>

Names == (p1 :> s1) @@ (p2 :> s2) @@ (p3 :> s2)
Chain == (s1 :> None) @@ (s2 :> s1) @@ (s3 :> s2)

Ask0 == [kind |-> "PermissionRequest", agent |-> "claude", suggestions |-> <<>>, codex |-> FALSE,
         prefix |-> FALSE, always |-> FALSE, reviewer |-> "", declined |-> FALSE,
         values |-> {}, large |-> FALSE]
Suggest(behavior, destination) == [behavior |-> behavior, destination |-> destination]

Suggestions ==
    {<<>>} \cup [1..1 -> [behavior : {"allow", "deny"}, destination : {"", "session"}]]
    \cup [1..2 -> [behavior : {"allow", "deny"}, destination : {"session", "project"}]]

Requests ==
    {[Ask0 EXCEPT !.suggestions = s] : s \in Suggestions}
    \cup {[Ask0 EXCEPT !.agent = "codex", !.codex = TRUE, !.prefix = p, !.reviewer = v,
                       !.declined = d, !.suggestions = s] :
              p \in BOOLEAN, v \in {"", "auto", "user"}, d \in BOOLEAN,
              s \in {<<>>, <<Suggest("allow", "session")>>}}
    \cup {[Ask0 EXCEPT !.agent = a, !.always = y, !.large = l] :
              a \in {"gemini", "opencode"}, y \in BOOLEAN, l \in BOOLEAN}
    \cup {[Ask0 EXCEPT !.kind = "Elicitation", !.agent = a, !.always = y, !.values = v] :
              a \in {"codex", "gemini"}, y \in BOOLEAN,
              v \in {{}, {Text("accept", FALSE, ""), Text("decline", FALSE, "")},
                     {Text("allow", FALSE, ""), Option("always allow", "")}}}

Words ==
    {Text("allow", FALSE, ""), Text("allow", FALSE, "once"), Option("allow", "once"),
     Text("always allow", FALSE, "elsewhere"), Text("deny", FALSE, ""), Text("maybe", FALSE, "")}

Init ==
    /\ part \in {"log", "title", "rollout", "prompt"}
    /\ CompactInit /\ TitleInit /\ RolloutInit /\ PromptInit
    /\ part # "prompt" => request = Ask0

LogStep == part = "log" /\ CompactNext /\ UNCHANGED <<part, titleVars, rolloutVars, promptVars>>
TitleStep == part = "title" /\ TitleNext /\ UNCHANGED <<part, compactVars, rolloutVars, promptVars>>
RolloutStep ==
    part = "rollout" /\ RolloutNext /\ UNCHANGED <<part, compactVars, titleVars, promptVars>>
PromptStep ==
    part = "prompt" /\ PromptNext /\ UNCHANGED <<part, compactVars, titleVars, rolloutVars>>

Next == LogStep \/ TitleStep \/ RolloutStep \/ PromptStep

Spec == Init /\ [][Next]_vars /\ (part = "title" => TitleFairness)

TypeOK == CompactTypeOK /\ TitleTypeOK /\ RolloutTypeOK /\ PromptTypeOK
=============================================================================
