------------------------- MODULE MCPropertySignals -------------------------
(***************************************************************************)
(* Small instances of PropertySignals: one hook with any event the program *)
(* knows, one that disturbs it, and one that asks, answers or ends.        *)
(***************************************************************************)
EXTENDS PropertySignals, TLC

CONSTANTS h1, h2, h3, win, name, lead, facts, spent, tool

Bare == [kind |-> "Notification", window |-> Nil, title |-> Nil, parent |-> Nil, state |-> Nil,
         complete |-> Nil, reason |-> Nil, tool |-> Nil, model |-> Nil, usage |-> Nil]
Of(kind) == [Bare EXCEPT !.kind = kind]
Carrying(kind) == [Of(kind) EXCEPT !.window = win, !.model = facts]

Reports == {[Carrying("UpdateState") EXCEPT !.state = s, !.complete = c, !.usage = spent] :
                s \in {Nil, "thinking"}, c \in {Nil, TRUE, FALSE}}

Turns == {Carrying(k) : k \in {"SessionStart", "Stop", "TaskCompleted", "UserPromptSubmit",
                               "AfterModel", "PreToolUse", "PreCompact", "AutoReviewed"}}

Attentions == {[Of(k) EXCEPT !.model = facts] : k \in DOMAIN NonBlocking}
              \cup {[Of("AttentionRequired") EXCEPT !.reason = "attention", !.complete = c] :
                        c \in {Nil, TRUE}}

Others == {[Bare EXCEPT !.title = name, !.window = win], [Bare EXCEPT !.parent = lead],
           [Carrying("Telemetry") EXCEPT !.usage = spent],
           [Of("Resolved") EXCEPT !.reason = "plan-mode-prompt"],
           [Of("ThreadNamed") EXCEPT !.title = name],
           Of("CompactionStarted"), Of("CompactionFinished")}

Requests == {[Carrying("PermissionRequest") EXCEPT !.tool = tool], Carrying("BeforeTool"),
             Of("Elicitation")}

PostTool == [Carrying("PostToolUse") EXCEPT !.tool = tool]
Request == [Of("PermissionRequest") EXCEPT !.tool = tool, !.title = name]

OneOfEach ==
    {f \in [{h1, h2, h3} -> Reports \cup Turns \cup Attentions \cup Others \cup Requests
                              \cup {PostTool, Request, Of("Removal"), Of("Respond"),
                                    Of("PlanModePrompt"), Of("UserPromptSubmit")}] :
        /\ f[h1] \in Reports \cup Turns \cup Attentions \cup Others \cup Requests \cup {PostTool}
        /\ f[h2] \in {Request, Of("PlanModePrompt"), Of("UserPromptSubmit")}
        /\ f[h3] \in {Of("Removal"), Of("Respond"), PostTool, Request}}
=============================================================================
