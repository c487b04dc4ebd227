--------------------------- MODULE ServerDispatch ---------------------------
(***************************************************************************)
(* Request handling of server.Server and server.ExtendedServer             *)
(* (server/server.go, server/extended.go, roots/handler.go): three         *)
(* registries under one RWMutex, requests that look a name up under the    *)
(* read lock and call its handler after unlocking, and the two methods of  *)
(* the extended server, which want the server initialized.                 *)
(*                                                                         *)
(* A registration is known by its number: adding a name again replaces it. *)
(* Requests run concurrently; each remembers what held when it came in,    *)
(* for the properties only.                                                *)
(***************************************************************************)
EXTENDS Integers, Sequences, FiniteSets, FiniteSetsExt, Functions

CONSTANTS Requests, Entries, \* names of tools, URIs of resources, names of prompts
          MaxAdds,            \* bound: calls of AddTool, AddResource, AddPrompt
          MaxRoots            \* bound: roots, one to start with

VARIABLES registry,           \* per kind, a map from names to registrations
          adds,               \* <<kind, name>> of each registration so far, in order
          roots,              \* number of roots
          initialized,
          requests,           \* the request each goroutine handles
          reply,              \* the answer of each, or "none"
          before              \* how many adds, and initialized, when it came in

vars == <<registry, adds, roots, initialized, requests, reply, before>>
serverVars == <<registry, adds, roots, initialized>>

Kinds == {"tool", "resource", "prompt"}
ListOf(k) == CASE k = "tool" -> "tools/list" [] k = "resource" -> "resources/list"
               [] k = "prompt" -> "prompts/list"
CallOf(k) == CASE k = "tool" -> "tools/call" [] k = "resource" -> "resources/read"
               [] k = "prompt" -> "prompts/get"
Extended == {"sampling/createMessage", "roots/list"}
Methods == {ListOf(k) : k \in Kinds} \cup {CallOf(k) : k \in Kinds}
             \cup Extended \cup {"initialize", "other"}
ClientTypes == {"claude-desktop", "vscode", "openai", "anthropic", "unknown"}

NoReply == [type |-> "none", of |-> {}]
Result(of) == [type |-> "result", of |-> of]
ToolError(of) == [type |-> "toolError", of |-> of]
Error(code) == [type |-> code, of |-> {}]
Codes == {"InvalidParams", "MethodNotFound", "InternalError", "InvalidRequest"}
NotReceived == [pc |-> "new", method |-> "other", entry |-> CHOOSE e \in Entries : TRUE,
                reg |-> 0]

TypeOK ==
    /\ \A k \in Kinds : /\ DOMAIN registry[k] \subseteq Entries
                        /\ \A e \in DOMAIN registry[k] : registry[k][e] \in DOMAIN adds
    /\ adds \in Seq(Kinds \X Entries) /\ Len(adds) <= MaxAdds /\ roots \in Nat /\ initialized \in BOOLEAN
    /\ \A r \in Requests :
          /\ requests[r].pc \in {"new", "received", "handler", "done"}
          /\ requests[r].method \in Methods /\ requests[r].entry \in Entries
          /\ requests[r].reg \in 0..MaxAdds
          /\ reply[r].type \in Codes \cup {"none", "result", "toolError"}

Init ==
    /\ registry = [k \in Kinds |-> <<>>]
    /\ adds = <<>> /\ roots = 1 /\ initialized = FALSE
    /\ requests = [r \in Requests |-> NotReceived]
    /\ reply = [r \in Requests |-> NoReply]
    /\ before = [r \in Requests |-> [adds |-> 0, initialized |-> FALSE]]

-----------------------------------------------------------------------------
\* AddTool, AddResource, AddPrompt, and the roots

\* Mutant of Add: a name that is there keeps its registration.
AddIfAbsent(k, e) ==
    /\ Len(adds) < MaxAdds
    /\ adds' = Append(adds, <<k, e>>)
    /\ registry' = [registry EXCEPT ![k] = [n \in DOMAIN @ \cup {e} |->
                                              IF n \in DOMAIN @ THEN @[n] ELSE Len(adds) + 1]]
    /\ UNCHANGED <<roots, initialized, requests, reply, before>>

Add(k, e) ==
    /\ Len(adds) < MaxAdds
    /\ adds' = Append(adds, <<k, e>>)
    /\ registry' = [registry EXCEPT ![k] = [n \in DOMAIN @ \cup {e} |->
                                              IF n = e THEN Len(adds) + 1 ELSE @[n]]]
    /\ UNCHANGED <<roots, initialized, requests, reply, before>>

AddRoot ==
    /\ roots < MaxRoots
    /\ roots' = roots + 1
    /\ UNCHANGED <<registry, adds, initialized, requests, reply, before>>

RemoveRoot ==
    /\ roots > 0
    /\ roots' = roots - 1
    /\ UNCHANGED <<registry, adds, initialized, requests, reply, before>>

-----------------------------------------------------------------------------
\* HandleRequest

Receive(r, m, e) ==
    /\ (\E k \in Kinds : m = CallOf(k)) \/ e = NotReceived.entry
    /\ requests[r].pc = "new"
    /\ requests' = [requests EXCEPT ![r] = [pc |-> "received", method |-> m,
                                                entry |-> e, reg |-> 0]]
    /\ before' = [before EXCEPT ![r] = [adds |-> Len(adds), initialized |-> initialized]]
    /\ UNCHANGED <<serverVars, reply>>

At(r, pc, m) == requests[r].pc = pc /\ requests[r].method = m

Answer(r, answer) ==
    /\ requests' = [requests EXCEPT ![r].pc = "done"]
    /\ reply' = [reply EXCEPT ![r] = answer]

\* What a client of each type is told of; only native clients keep the two
\* extended capabilities.
FilterCapabilities(type) ==
    Kinds \cup IF type = "anthropic" THEN Extended ELSE {}

HandleInitialize(r, type) ==
    /\ At(r, "received", "initialize")
    /\ initialized' = TRUE
    /\ Answer(r, Result(FilterCapabilities(type)))
    /\ UNCHANGED <<registry, adds, roots, before>>

HandleList(r, k) ==
    /\ At(r, "received", ListOf(k))
    /\ Answer(r, Result({<<e, registry[k][e]>> : e \in DOMAIN registry[k]}))
    /\ UNCHANGED <<serverVars, before>>

\* The lookup, under the read lock.
HandleCall(r, k) ==
    /\ At(r, "received", CallOf(k))
    /\ IF requests[r].entry \in DOMAIN registry[k]
       THEN /\ requests' = [requests EXCEPT ![r].pc = "handler",
                                            ![r].reg = registry[k][requests[r].entry]]
            /\ UNCHANGED reply
       ELSE Answer(r, Error("MethodNotFound"))
    /\ UNCHANGED <<serverVars, before>>

\* The handler returns: a tool that fails is a result that says so.
HandlerReturns(r, k, ok) ==
    /\ At(r, "handler", CallOf(k))
    /\ Answer(r, CASE ok -> Result({requests[r].reg})
                   [] ~ok /\ k = "tool" -> ToolError({requests[r].reg})
                   [] OTHER -> Error("InternalError"))
    /\ UNCHANGED <<serverVars, before>>

BadParams(r) ==
    /\ requests[r].pc = "received"
    /\ requests[r].method \in {CallOf(k) : k \in Kinds} \cup {"initialize"}
    /\ Answer(r, Error("InvalidParams"))
    /\ UNCHANGED <<serverVars, before>>

\* handleSamplingCreateMessage and handleRootsList; the sampling handler may
\* fail, the roots handler never does.
HandleExtended(r, m, ok) ==
    /\ m \in Extended /\ At(r, "received", m)
    /\ Answer(r, CASE ~initialized -> Error("InvalidRequest")
                   [] initialized /\ m = "roots/list" -> Result(1..roots)
                   [] initialized /\ m # "roots/list" /\ ok -> Result({})
                   [] OTHER -> Error("InternalError"))
    /\ UNCHANGED <<serverVars, before>>

HandleUnknown(r) ==
    /\ At(r, "received", "other")
    /\ Answer(r, Error("MethodNotFound"))
    /\ UNCHANGED <<serverVars, before>>

RequestStep(r) ==
    \/ \E type \in ClientTypes : HandleInitialize(r, type)
    \/ \E k \in Kinds : \/ HandleList(r, k)
                        \/ HandleCall(r, k)
                        \/ \E ok \in BOOLEAN : HandlerReturns(r, k, ok)
    \/ BadParams(r)
    \/ \E m \in Extended, ok \in BOOLEAN : HandleExtended(r, m, ok)
    \/ HandleUnknown(r)

Next ==
    \/ \E k \in Kinds, e \in Entries : Add(k, e)
    \/ AddRoot \/ RemoveRoot
    \/ \E r \in Requests : RequestStep(r) \/ \E m \in Methods, e \in Entries : Receive(r, m, e)

Spec == Init /\ [][Next]_vars

-----------------------------------------------------------------------------
\* Properties

\* The last registration of each name that was complete when r came in.
Was(r, k) ==
    LET made(e) == {i \in 1..before[r].adds : adds[i] = <<k, e>>}
    IN  [e \in {x \in Entries : made(x) # {}} |-> Max(made(e))]

(* A request sees everything that was complete when it came in: a call runs *)
(* the registration that was in force then or a later one, a list leaves    *)
(* none out and shows none that was replaced before, and once the server is *)
(* initialized no request is told that it is not.                           *)
RequestsSeeThePast ==
    \A r \in Requests, k \in Kinds :
        LET was == Was(r, k)
            req == requests[r]
        IN  /\ req.method = CallOf(k) /\ req.entry \in DOMAIN was =>
                  /\ reply[r].type # "MethodNotFound"
                  /\ req.pc = "handler" => req.reg >= was[req.entry]
            /\ req.method = ListOf(k) /\ req.pc = "done" =>
                  \A e \in DOMAIN was :
                      \E n \in was[e]..Len(adds) : <<e, n>> \in reply[r].of
            /\ before[r].initialized => reply[r].type # "InvalidRequest"
=============================================================================
