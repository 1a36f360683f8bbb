--------------------------- MODULE SessionEvents ---------------------------
(***************************************************************************)
(* What the events of a session make of its object: the closures that the  *)
(* arms of handle_hook_connection, and the Codex watchers, hand to         *)
(* update_session.                                                         *)
(*                                                                         *)
(* Properties that are always written together are one field: window also  *)
(* stands for the app instance, parent for the whole lineage, model for    *)
(* the working directory and the cost, usage for the context and the       *)
(* limits.  A pending request is its id and its tool.                      *)
(***************************************************************************)
EXTENDS Naturals, Sequences, FiniteSets

CONSTANT Nil    \* a field the event does not carry, an empty property

State == {"no-session", "idle", "thinking", "tool-use", "compacting"}

(* Events that ask for attention and block nobody: the reason they give,   *)
(* the state and the flag they set.                                        *)
Asks(reason, state, complete) == [reason |-> reason, state |-> state, complete |-> complete]
NonBlocking ==
    [RequestUserInput            |-> Asks("request-user-input", "thinking", FALSE),
     PlanModePrompt              |-> Asks("plan-mode-prompt", "idle", TRUE),
     AgentTurnCompleteAttention  |-> Asks("agent-turn-complete", "idle", TRUE),
     ToolSuggestion              |-> Asks("tool-suggestion", "idle", FALSE),
     ExecApprovalRequest         |-> Asks("exec-approval", "thinking", FALSE),
     ApplyPatchApprovalRequest   |-> Asks("apply-patch-approval", "thinking", FALSE),
     RequestPermissions          |-> Asks("request-permissions", "thinking", FALSE),
     McpServerElicitationRequest |-> Asks("mcp-server-elicitation", "thinking", FALSE)]

(* SessionObject::new *)
NewSession ==
    [window |-> Nil, title |-> Nil, parent |-> Nil, state |-> "no-session",
     complete |-> FALSE, reasons |-> {}, attention |-> FALSE, pending |-> <<>>,
     model |-> Nil, usage |-> Nil]

Property == DOMAIN NewSession

-----------------------------------------------------------------------------
(* refresh_requires_attention *)
(* Faulty: the flag looks at the reasons only. *)
RefreshedByReasons(d) == [d EXCEPT !.attention = d.reasons # {}]

Refreshed(d) == [d EXCEPT !.attention = d.pending # <<>> \/ d.reasons # {}]

Set(d, f, v) == IF v = Nil THEN d ELSE [d EXCEPT ![f] = v]

Transport(d, e) == Set(d, "window", e.window)

(* model_name, cwd and apply_usage_limits: what the event does not carry   *)
(* makes the model unknown and leaves the usage alone.                     *)
Facts(d, e) == Set([d EXCEPT !.model = e.model], "usage", e.usage)

TurnComplete(d) == [d EXCEPT !.state = "idle", !.complete = TRUE]

Cancelled(d) == [d EXCEPT !.pending = <<>>, !.reasons = {}, !.attention = FALSE]

(* retain: the elements of q at the positions I, in order. *)
Retained(q, I) ==
    [n \in 1..Cardinality(I) |-> q[CHOOSE i \in I : Cardinality({j \in I : j <= i}) = n]]

CancelledForTool(d, tool) ==
    IF tool = Nil THEN d
    ELSE Refreshed([d EXCEPT !.pending = Retained(@, {i \in DOMAIN @ : @[i].tool # tool})])

Quiet(d) == Refreshed([d EXCEPT !.reasons = {}])

WithoutReason(d, reason) == Refreshed([d EXCEPT !.reasons = @ \ {reason}])

WithReason(d, e, a) ==
    Facts(Refreshed([d EXCEPT !.state = a.state, !.complete = a.complete,
                              !.reasons = @ \cup ({a.reason} \ {Nil})]), e)

Reported(d, e) ==
    LET s == [d EXCEPT !.state = IF e.state # Nil THEN e.state
                                 ELSE IF @ = "no-session" THEN "idle" ELSE @]
    IN  IF e.complete = TRUE THEN TurnComplete(s) ELSE Set(s, "complete", e.complete)

-----------------------------------------------------------------------------
(* The update of an event's own arm. *)
Effect(d, e) ==
    LET t == Transport(d, e)
        f == Facts(t, e)
    IN  CASE e.kind = "Telemetry" -> Set(Set(t, "model", e.model), "usage", e.usage)
          [] e.kind = "UpdateState" -> Reported(f, e)
          [] e.kind = "SessionStart" -> Cancelled([f EXCEPT !.state = "idle", !.complete = FALSE])
          [] e.kind = "Stop" -> Cancelled(TurnComplete(f))
          [] e.kind = "TaskCompleted" -> Cancelled(TurnComplete(t))
          [] e.kind = "UserPromptSubmit" ->
                 Cancelled([f EXCEPT !.state = "thinking", !.complete = FALSE])
          [] e.kind = "AfterModel" -> [f EXCEPT !.state = "thinking"]
          [] e.kind \in {"PreToolUse", "BeforeTool"} -> [f EXCEPT !.state = "tool-use"]
          [] e.kind = "PostToolUse" ->
                 CancelledForTool(Quiet([f EXCEPT !.state = "thinking"]), e.tool)
          [] e.kind = "PreCompact" -> Cancelled([t EXCEPT !.state = "compacting"])
          [] e.kind \in {"PermissionRequest", "AutoReviewed"} -> f
          [] e.kind \in DOMAIN NonBlocking -> WithReason(d, e, NonBlocking[e.kind])
          [] e.kind = "AttentionRequired" ->
                 WithReason(d, e, Asks(e.reason, IF e.state = Nil THEN "idle" ELSE e.state,
                                       IF e.complete = Nil THEN d.complete ELSE e.complete))
          [] e.kind = "Resolved" -> WithoutReason(d, e.reason)
          [] e.kind = "CompactionStarted" ->
                 Quiet([d EXCEPT !.state = "compacting", !.complete = FALSE])
          [] e.kind = "CompactionFinished" ->
                 IF d.state = "compacting" THEN Quiet(TurnComplete(d)) ELSE d
          [] e.kind = "ThreadNamed" -> Set(d, "title", e.title)
          [] OTHER -> d

(* The updates a hook makes in turn: the lineage and the title it carries, *)
(* that of its arm, and that of handle_elicitation_event.                  *)
Blocking == {"PermissionRequest", "BeforeTool", "Elicitation"}

Update(u, d, e) ==
    CASE u = "identity" -> [d EXCEPT !.parent = e.parent]
      [] u = "title" -> Set(Transport(d, e), "title", e.title)
      [] u = "event" -> Effect(d, e)
      [] OTHER -> Transport(d, e)

Updates(e) ==
    IF e.kind \in {"Removal", "Respond"} THEN <<>>
    ELSE IF e.kind \in {"CompactionStarted", "CompactionFinished", "ThreadNamed"} THEN <<"event">>
    ELSE (IF e.parent = Nil THEN <<>> ELSE <<"identity">>)
         \o (IF e.title = Nil THEN <<>> ELSE <<"title">>)
         \o (IF e.kind \in {"Elicitation", "Notification"} THEN <<>> ELSE <<"event">>)
         \o (IF e.kind \in Blocking THEN <<"request">> ELSE <<>>)

-----------------------------------------------------------------------------
(* What the properties read: the reasons name a pending request as one.    *)
Shown(d) ==
    [d EXCEPT !.reasons = @ \cup (IF d.pending = <<>> THEN {} ELSE {"pending-request"})]
=============================================================================
