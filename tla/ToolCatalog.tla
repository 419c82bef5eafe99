---------------------------- MODULE ToolCatalog ----------------------------
(***************************************************************************)
(* The way from the name a model calls to the tool of an MCP server:       *)
(* the names BuildToolName makes and ParseToolName takes apart, the        *)
(* registry bootstrap fills, the filter an agent's definition puts before  *)
(* it, the adapter's Invoke and what the dispatcher makes of its outcome.  *)
(* None of it keeps state of its own but the registry, a map.              *)
(*                                                                         *)
(* A name is a sequence of symbols: "_", "mcp", and one per other word.    *)
(***************************************************************************)
EXTENDS Naturals, Sequences

LOCAL INSTANCE SequencesExt

-----------------------------------------------------------------------------
\* Names

Underscore == "_"
Sep == <<Underscore, Underscore>>
Empty == <<>>

\* Where strings.Split would cut.
SepAt(name) == {i \in 1..(Len(name) - 1) : SubSeq(name, i, i + 1) = Sep}

\* A name at its first separator: what is before it and what is left.
SplitFirst(name) ==
  IF SepAt(name) = {} THEN [found |-> FALSE, before |-> name, after |-> Empty]
  ELSE LET i == CHOOSE i \in SepAt(name) : \A j \in SepAt(name) : i <= j
       IN  [found |-> TRUE, before |-> SubSeq(name, 1, i - 1), after |-> SubSeq(name, i + 2, Len(name))]

BuildToolName(server, tool) == <<"mcp">> \o Sep \o server \o Sep \o tool

ParseToolName(name) ==
  LET prefix == SplitFirst(name)
      server == SplitFirst(prefix.after)
  IN  [ok     |-> prefix.found /\ prefix.before = <<"mcp">> /\ server.before # Empty,
       server |-> server.before,
       tool   |-> server.after]

RawToolName(name) ==
  LET parsed == ParseToolName(name)
  IN  IF parsed.ok /\ parsed.tool # Empty THEN parsed.tool ELSE name

QualifyToolName(server, tool) == BuildToolName(server, RawToolName(tool))

-----------------------------------------------------------------------------
\* The registry: what was registered under each name, and whether the
\* registrations so far have succeeded. A failure undoes nothing.

NewRegistry == [ok |-> TRUE, tools |-> Empty]

RegisterTool(registry, name, handler) ==
  IF name = Empty \/ name \in DOMAIN registry.tools
  THEN [registry EXCEPT !.ok = FALSE]
  ELSE [registry EXCEPT !.tools = [n \in DOMAIN @ \cup {name} |-> IF n = name THEN handler ELSE @[n]]]

\* One server: its adapter is made and its tools listed before any of them
\* is registered. "lists" is false when tools/list fails or a schema cannot
\* be encoded.
RegisterServer(registry, server) ==
  IF ~registry.ok \/ server.name = Empty \/ ~server.lists
  THEN [registry EXCEPT !.ok = FALSE]
  ELSE FoldLeft(LAMBDA r, tool :
                  IF ~r.ok THEN r
                  ELSE RegisterTool(r, QualifyToolName(server.name, tool),
                                [server |-> server.name, fqName |-> QualifyToolName(server.name, tool)]),
                registry, server.tools)

RegisterMCPTools(registry, servers) == FoldLeft(RegisterServer, registry, servers)

\* The filter of an agent definition. Blank names do not count, and a
\* list without any other lets everything through.
IsAllowed(allowed, name) == allowed \ {Empty} # {} => name \in allowed

ListTools(registry, allowed) == {name \in DOMAIN registry.tools : IsAllowed(allowed, name)}

-----------------------------------------------------------------------------
\* A call

\* The request the adapter of a server makes of a call by this name, and
\* the name its result will carry.
InvocationToCallRequest(server, name, argumentsAreObject) ==
  LET parsed == ParseToolName(name)
      fqName == IF parsed.ok THEN BuildToolName(parsed.server, parsed.tool) ELSE BuildToolName(server, name)
  IN  [ok     |-> /\ name # Empty
                  /\ parsed.ok => parsed.server = server /\ parsed.tool # Empty
                  /\ argumentsAreObject,
       name   |-> IF parsed.ok THEN parsed.tool ELSE name,
       fqName |-> IF name = Empty THEN Empty ELSE fqName]

\* What Client.Call may come back with.
Replies == {"result", "tool_error", "content_not_encodable", "call_error"}

\* An error the tool reports in its result, or a content that cannot be
\* encoded, is a failure without being an error of the call.
ResultStatus(reply) == IF reply = "result" THEN "succeeded" ELSE "failed"

\* The outcome of the handler bootstrap registers.
Invoke(server, name, argumentsAreObject, reply) ==
  LET request == InvocationToCallRequest(server, name, argumentsAreObject)
  IN  [asked  |-> IF request.ok THEN {[server |-> server, tool |-> request.name]} ELSE {},
       err    |-> ~request.ok \/ reply = "call_error",
       status |-> IF request.ok THEN ResultStatus(reply) ELSE "failed"]

\* ToolDispatcher.ExecuteTool over the registry and the filter: an error
\* is a failure whatever the outcome said.
ExecuteTool(registry, allowed, name, argumentsAreObject, reply) ==
  IF name \notin ListTools(registry, allowed)
  THEN [asked |-> {}, err |-> TRUE, status |-> "failed"]
  ELSE LET handler == registry.tools[name]
           outcome == Invoke(handler.server, handler.fqName, argumentsAreObject, reply)
       IN  [outcome EXCEPT !.status = IF outcome.err THEN "failed" ELSE @]

-----------------------------------------------------------------------------
\* Properties

\* A server name that can be told from what follows it.
Plain(server) == SepAt(server) = {} /\ server[Len(server)] # Underscore

\* ParseToolName finds in a name what BuildToolName put there.
ParsesBack(server, tool) ==
  ParseToolName(BuildToolName(server, tool)) = [ok |-> TRUE, server |-> server, tool |-> tool]

\* A call by the name under which a tool is listed asks its server for that tool.
ListedIsCallable(server, tool) ==
  LET request == InvocationToCallRequest(server, QualifyToolName(server, tool), TRUE)
  IN  request.ok /\ request.name = RawToolName(tool)
=============================================================================
