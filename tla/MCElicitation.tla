--------------------------- MODULE MCElicitation ---------------------------
(* Small instances of Elicitation. *)
EXTENDS Elicitation, TLC

CONSTANTS h1, h2, h3, h4, s1, s2, t1, t2, r1

Ev(k, s, t, r) == [kind |-> k, session |-> s, tool |-> t, reason |-> r]
Ask(s, t) == Ev("PermissionRequest", s, t, NoReason)
Prompt(s) == Ev("Elicitation", s, NoTool, NoReason)
Boundary(s) == Ev("TurnBoundary", s, NoTool, NoReason)
ToolDone(s, t) == Ev("PostToolUse", s, t, NoReason)
Attend(s) == Ev("Attention", s, NoTool, r1)
Settle(s) == Ev("Resolved", s, NoTool, r1)
Touch(s) == Ev("Update", s, NoTool, NoReason)
Remove(s) == Ev("Removal", s, NoTool, NoReason)

Load(a, b, c, d) == (h1 :> a) @@ (h2 :> b) @@ (h3 :> c) @@ (h4 :> d)

(* Two blocking hooks of a session, and two hooks that disturb them. *)
Races ==
    {Load(Ask(s1, t1), Ask(s1, t2), ToolDone(s1, t1), Remove(s1)),
     Load(Ask(s1, t1), Prompt(s1), ToolDone(s1, NoTool), Boundary(s1)),
     Load(Ask(s1, t1), Touch(s1), Boundary(s1), Remove(s1)),
     Load(Ask(s1, t1), Prompt(s1), Remove(s1), Touch(s1))}

(* Reasons come and go beside a request. *)
Attentions ==
    {Load(Ask(s1, t1), Attend(s1), c, d) :
        c \in {ToolDone(s1, NoTool), Boundary(s1)},
        d \in {Settle(s1), Touch(s1)}}

(* One more request than MaxPending allows. *)
Limit == {Load(Ask(s1, t1), Ask(s1, t1), Ask(s1, t2), ToolDone(s1, t1))}

(* Two sessions with the same tool name. *)
Neighbours ==
    {Load(Ask(s1, t1), Ask(s2, t1), ToolDone(s1, t1), d) :
        d \in {Boundary(s2), Remove(s1)}}

RaceTraffic == Races \cup Attentions \cup Limit \cup Neighbours

(* Three hooks for the temporal properties. *)
LiveTraffic ==
    {(h1 :> Ask(s1, t1)) @@ (h2 :> b) @@ (h3 :> c) :
        b \in {Ask(s1, t1), Prompt(s1), Boundary(s1)},
        c \in {ToolDone(s1, t1), Remove(s1)}}

StrandTraffic == {Load(Ask(s1, t1), Ask(s1, t2), Touch(s1), Remove(s1))}
=============================================================================
