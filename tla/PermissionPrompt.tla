-------------------------- MODULE PermissionPrompt --------------------------
(***************************************************************************)
(* One permission request from the agent's hook to its output: agent-hook  *)
(* (agent_hook.rs), the reading of its message (socket.rs), the options    *)
(* offered, their descriptions, and the reply made of the answer           *)
(* (service/permission.rs and the providers' permission_response).         *)
(*                                                                         *)
(* Texts are compared without regard to case in some places and with it in *)
(* others: a text is its word, whether it is capitalised as the program    *)
(* writes it, and what follows the word.                                   *)
(***************************************************************************)
EXTENDS Naturals, Sequences, FiniteSetsExt

CONSTANTS
    Request,    \* what the hooks of the agents may carry
    FreeText,   \* answers a client may give that are not an option as shown
    Reviewer    \* approvals_reviewer in config.toml

(* The OpenCode plugin sends the patterns that may be allowed for good, and *)
(* neither suggestions nor what a Codex request carries (agent-dbus.js 244, *)
(* 347).                                                                    *)
ASSUME PermissionPromptAssumption ==
    \A r \in Request :
        /\ Len(r.suggestions) \in Nat /\ DOMAIN r.suggestions = 1..Len(r.suggestions)
        /\ r.agent = "opencode" => r.suggestions = <<>> /\ ~r.codex

VARIABLES
    client,     \* where agent-hook is
    request,    \* what it carries
    server,     \* where the daemon's task for it is
    options,    \* the options shown
    text,       \* the answer
    reply,      \* what the daemon has written to the connection
    printed,    \* what agent-hook has printed
    broken      \* history: killed, or a write or a read failed

promptVars == <<client, request, server, options, text, reply, printed, broken>>

Text(word, capital, tail) == [word |-> word, capital |-> capital, tail |-> tail]
Option(word, tail) == Text(word, TRUE, tail)
NoText == Text("", FALSE, "")

Grant(effect, lasting, index) == [effect |-> effect, lasting |-> lasting, index |-> index]
Nothing == Grant("nothing", "no", 0)
EmptyObject == Grant("empty", "no", 0)
Once == Grant("allow", "no", 0)
Refusal == Grant("deny", "no", 0)
Echo(a) == IF a = NoText THEN Nothing ELSE Grant("text", "no", 0)

PromptInit ==
    /\ client = "start" /\ request \in Request
    /\ server = "none" /\ options = {} /\ text = NoText
    /\ reply = Nothing /\ printed = Nothing /\ broken = FALSE

-----------------------------------------------------------------------------
(* is_allow_answer, is_always_allow_answer, and the test for a refusal *)
IsAllow(a) == a.word = "allow" /\ (a.capital \/ a.tail = "")
IsAlways(a) == a.word = "always allow"
IsDeny(a) == a.word = "deny" /\ (a.capital \/ a.tail = "")

SameText(a, b) == a.word = b.word /\ a.tail = b.tail

(* codex::permissions::prefix_rule *)
HasPrefix(r) == r.codex /\ r.prefix

(* should_defer_permission_to_auto_review *)
Deferred(r) ==
    /\ r.kind = "PermissionRequest" /\ r.agent = "codex" /\ r.codex /\ ~r.declined
    /\ IF r.reviewer = "" THEN Reviewer = "auto" ELSE r.reviewer = "auto"

(* The positions of the suggestions that allow. *)
Allowing(r) == {i \in DOMAIN r.suggestions : r.suggestions[i].behavior = "allow"}

SuggestionLabel(s) == Option("always allow", s.destination)

(* build_permission_options, but for their order *)
PermissionOptions(r) ==
    LET always == IF Allowing(r) # {} THEN {SuggestionLabel(r.suggestions[i]) : i \in Allowing(r)}
                  ELSE IF HasPrefix(r) \/ r.always THEN {Option("always allow", "")} ELSE {}
    IN  {Option("allow", ""), Option("deny", "")} \cup always

(* build_elicitation_options: what may be allowed may be allowed for good. *)
Plain(o, words) == o.word \in words /\ o.tail = ""

ElicitationOptions(r) ==
    IF /\ r.always
       /\ \E o \in r.values : Plain(o, {"allow", "accept"})
       /\ \A o \in r.values : ~Plain(o, {"always allow"})
    THEN r.values \cup {Option("always allow", "")}
    ELSE r.values

Offered(r) == IF r.kind = "Elicitation" THEN ElicitationOptions(r) ELSE PermissionOptions(r)

(* permission_suggestion_for_answer: the first whose label is the answer,  *)
(* or else the first.                                                      *)
SuggestionFor(r, a) ==
    LET labelled == {i \in Allowing(r) : SameText(SuggestionLabel(r.suggestions[i]), a)}
    IN  IF labelled # {} THEN Min(labelled) ELSE IF Allowing(r) # {} THEN Min(Allowing(r)) ELSE 0

(* permission_option_description: what choosing an option is said to do.   *)
Described(r, o) ==
    IF o.word = "allow" THEN Once
    ELSE IF o.word = "deny" THEN Refusal
    ELSE IF HasPrefix(r) THEN Grant("allow", "prefix", 0)
    ELSE IF SuggestionFor(r, o) # 0 THEN Grant("allow", "suggestion", SuggestionFor(r, o))
    ELSE Grant("allow", "matching", 0)

(* permission_response *)
(* Faulty: whatever the label, the first suggestion is granted. *)
AlwaysReplyFirst(r, a) == Grant("allow", "suggestion", 1)

AlwaysReply(r, a) ==
    IF HasPrefix(r) THEN Grant("allow", "prefix", 0)
    ELSE IF SuggestionFor(r, a) # 0 THEN Grant("allow", "suggestion", SuggestionFor(r, a))
    ELSE Once

Lasting(r, a) ==
    CASE r.agent = "gemini" -> Once
      [] r.agent = "opencode" -> Grant("allow", "matching", 0)
      [] OTHER -> AlwaysReply(r, a)

PermissionResponse(r, a) ==
    IF IsAlways(a) THEN Lasting(r, a)
    ELSE IF IsAllow(a) THEN Once
    ELSE IF IsDeny(a) THEN Refusal
    ELSE Nothing

-----------------------------------------------------------------------------
(* agent-hook *)

(* print_empty_response_if_needed *)
Printed(x) == IF x = Nothing /\ request.agent = "gemini" THEN EmptyObject ELSE x

Connect ==
    /\ client = "start"
    /\ client' = "send" /\ server' = "read"
    /\ UNCHANGED <<request, options, text, reply, printed, broken>>

FailToConnect ==
    /\ client = "start"
    /\ client' = "exited" /\ printed' = Printed(Nothing)
    /\ UNCHANGED <<request, server, options, text, reply, broken>>

SendMessage ==
    /\ client = "send" /\ server = "read"
    /\ client' = "receive" /\ server' = "sent"
    /\ UNCHANGED <<request, options, text, reply, printed, broken>>

(* The other end has closed before all was read, or agent-hook is killed. *)
Break ==
    /\ client \in {"send", "receive"}
    /\ client' = "exited" /\ broken' = TRUE
    /\ UNCHANGED <<request, server, options, text, reply, printed>>

Receive ==
    /\ client = "receive" /\ server = "closed"
    /\ client' = "exited" /\ printed' = Printed(reply)
    /\ UNCHANGED <<request, server, options, text, reply, broken>>

-----------------------------------------------------------------------------
(* The daemon *)
Close == server' = "closed"

(* read_raw_hook: too long a message, 5 s without its end, or not a hook. *)
RejectMessage ==
    /\ server \in {"read", "sent"}
    /\ Close
    /\ UNCHANGED <<client, request, options, text, reply, printed, broken>>

ReadMessage ==
    /\ server = "sent" /\ ~request.large
    /\ server' = "ask"
    /\ UNCHANGED <<client, request, options, text, reply, printed, broken>>

Defer ==
    /\ server = "ask" /\ Deferred(request)
    /\ Close
    /\ UNCHANGED <<client, request, options, text, reply, printed, broken>>

Ask ==
    /\ server = "ask" /\ ~Deferred(request)
    /\ server' = "wait" /\ options' = Offered(request)
    /\ UNCHANGED <<client, request, text, reply, printed, broken>>

(* The timer, a cancellation, no session, or no place in its list. *)
NoAnswer ==
    /\ server = "wait"
    /\ server' = "reply"
    /\ UNCHANGED <<client, request, options, text, reply, printed, broken>>

Answer ==
    /\ server = "wait"
    /\ text' \in options \cup FreeText
    /\ server' = "reply"
    /\ UNCHANGED <<client, request, options, reply, printed, broken>>

WriteReply ==
    /\ server = "reply"
    /\ reply' = IF request.kind = "Elicitation" THEN Echo(text) ELSE PermissionResponse(request, text)
    /\ Close
    /\ UNCHANGED <<client, request, options, text, printed, broken>>

DaemonDies ==
    /\ server \in {"ask", "wait", "reply"}
    /\ Close
    /\ UNCHANGED <<client, request, options, text, reply, printed, broken>>

PromptNext ==
    \/ Connect \/ FailToConnect \/ SendMessage \/ Break \/ Receive
    \/ RejectMessage \/ ReadMessage \/ Defer \/ Ask \/ NoAnswer \/ Answer \/ WriteReply
    \/ DaemonDies

PromptSpec == PromptInit /\ [][PromptNext]_promptVars

-----------------------------------------------------------------------------
Effects == {"nothing", "empty", "allow", "deny", "text"}

PromptTypeOK ==
    /\ client \in {"start", "send", "receive", "exited"}
    /\ server \in {"none", "read", "sent", "ask", "wait", "reply", "closed"}
    /\ request \in Request /\ broken \in BOOLEAN
    /\ text \in options \cup FreeText \cup {NoText}
    /\ \A g \in {reply, printed} :
           /\ g.effect \in Effects /\ g.index \in 0..Len(request.suggestions)
           /\ g.lasting \in {"no", "prefix", "suggestion", "matching"}

(* permission.rs 213-240, 372-408: the agent is told to allow no more than *)
(* the description of the option picked says (an answer in words of the    *)
(* user's own must be an allowing one); what is offered can be granted and *)
(* refused; and a gemini agent reads an object whenever agent-hook ends    *)
(* well, be the daemon down, dead or silent.                               *)
Warranted(g) ==
    \/ text \in FreeText /\ (IsAllow(text) \/ IsAlways(text))
    \/ text \in options /\ g \in {Described(request, text),
                                         [Described(request, text) EXCEPT !.lasting = "no", !.index = 0]}

GrantIsAsDescribed ==
    /\ printed.effect = "allow" => Warranted(printed)
    /\ request.kind = "PermissionRequest" =>
           \A o \in options :
               PermissionResponse(request, o).effect = Described(request, o).effect
    /\ request.agent = "gemini" /\ client = "exited" /\ ~broken => printed # Nothing
=============================================================================
