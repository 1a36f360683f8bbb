------------------------ MODULE MCSessionLifecycle ------------------------
(* Small instances of SessionLifecycle. *)
EXTENDS SessionLifecycle, TLC

CONSTANTS h1, h2, h3, s1, w1, p1, p2

Plain(k, p) == [kind |-> k, session |-> s1, lineage |-> FALSE, title |-> FALSE,
                window |-> NoWindow, pid |-> p]
Named(k) == [Plain(k, NoPid) EXCEPT !.title = TRUE]
Child(k) == [Plain(k, NoPid) EXCEPT !.lineage = TRUE]
Placed(k, p) == [Plain(k, p) EXCEPT !.window = w1]

Load(a, b, c) == (h1 :> a) @@ (h2 :> b) @@ (h3 :> c)

(* A session ends while an event of it arrives. *)
Endings ==
    {Load(Placed("Update", p1), Plain("SessionEnd", NoPid), Plain(k, NoPid)) :
        k \in {"Telemetry", "UpdateState", "Stop", "Notify"}}
    \cup {Load(Named("SessionStart"), Plain("SessionEnd", NoPid), Named("SessionStart"))}

(* A subagent's events, with and without the lineage. *)
Subagents ==
    {Load(Child("SessionStart"), b, Child("Stop")) :
        b \in {Placed("Update", NoPid), Plain("Stop", NoPid), Plain("Telemetry", NoPid)}}

(* A session goes on in another process. *)
Resumed == {Load(Plain("SessionStart", p1), Plain("Notify", p2), Plain("Notify", NoPid))}

LifeTraffic == Endings \cup Subagents \cup Resumed

DuplicateTraffic == {Load(Child("SessionStart"), Child("Stop"), Child("Stop"))}
PhantomTraffic == {Load(Placed("Update", p1), Plain("SessionEnd", NoPid), Plain("Update", p1))}
WindowTraffic == {Load(Child("SessionStart"), Placed("Update", p1), Placed("Update", p1))}
=============================================================================
