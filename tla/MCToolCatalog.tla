--------------------------- MODULE MCToolCatalog ---------------------------
(***************************************************************************)
(* The catalogue against what it is for, over every name of a few symbols. *)
(***************************************************************************)
EXTENDS ToolCatalog

LOCAL INSTANCE SequencesExt
LOCAL INSTANCE FiniteSets

MCServerNames == UNION {[1..n -> {"a", "_"}] : n \in 1..3}
MCToolNames == UNION {[1..n -> {"t", "_", "mcp"}] : n \in 1..3}
               \cup {BuildToolName(s, t) : s \in {<<"a">>, <<"a", "_">>}, t \in {Empty, <<"t">>, <<"_", "t">>}}

\* What ParseToolName finds in a name is what BuildToolName put there,
\* exactly when the server's name neither contains the separator nor ends
\* in half of one (types.go:124-141).
ASSUME ParseInvertsBuild ==
  \A s \in MCServerNames, t \in MCToolNames : ParsesBack(s, t) <=> Plain(s)

\* A call by the name under which a tool is listed asks its own server
\* for that tool, exactly when the server's name is plain: the tools of
\* any other server are listed and cannot be called (adapter.go:85-105).
ASSUME ListedToolsAreCallable ==
  \A s \in MCServerNames, t \in MCToolNames : ListedIsCallable(s, t) <=> Plain(s)

\* A call by a name of another server is refused and asks nobody, and so
\* is one that names no tool (adapter.go:87-105).
ASSUME OtherServersAreRefused ==
  \A s1, s2 \in MCServerNames, t \in MCToolNames \cup {Empty} :
    Plain(s1) /\ Plain(s2) =>
      (InvocationToCallRequest(s1, BuildToolName(s2, t), TRUE).ok <=> s1 = s2 /\ t # Empty)

\* Listing what is already qualified changes nothing, so that the tools
\* of a server behind a server keep their names (adapter.go:261-266).
ASSUME QualifyingTwiceIsOnce ==
  \A s \in MCServerNames, t \in MCToolNames :
    Plain(s) => QualifyToolName(s, QualifyToolName(s, t)) = QualifyToolName(s, t)

ListingServer(s, tools) == [name |-> s, tools |-> tools, lists |-> TRUE]
MCFewServers == {<<"a">>, <<"a", "_", "_", "a">>}
MCFewTools == {<<"t">>, BuildToolName(<<"a">>, <<"t">>), <<"a", "_", "_", "t">>}
MCTwoServers == {<<ListingServer(s1, <<t1, t2>>), ListingServer(s2, <<t3>>)>> :
                   s1, s2 \in MCFewServers, t1, t2, t3 \in MCFewTools}
Listed(servers) == [i \in 1..3 |-> IF i < 3 THEN <<servers[1], servers[1].tools[i]>> ELSE <<servers[2], servers[2].tools[1]>>]

\* No tool takes another one's name: bootstrap fails exactly when two of
\* the qualified names are the same, across servers as well
\* (bootstrap.go:161-204, registry.go:24-46).
ASSUME NoToolShadowsAnother ==
  \A servers \in MCTwoServers :
    LET names == {QualifyToolName(Listed(servers)[i][1].name, Listed(servers)[i][2]) : i \in 1..3}
        registry == RegisterMCPTools(NewRegistry, servers)
    IN  /\ registry.ok <=> Cardinality(names) = 3
        /\ registry.ok => DOMAIN registry.tools = names

\* A bootstrap that failed leaves in the caller's registry what it had
\* registered: tried again with the same registry it fails again, also
\* when the server that could not be listed is there by now
\* (bootstrap.go:161-204).
ASSUME FailedBootstrapCannotBeRetried ==
  \A servers \in MCTwoServers :
    LET down == [servers EXCEPT ![2].lists = FALSE]
    IN  ~RegisterMCPTools([RegisterMCPTools(NewRegistry, down) EXCEPT !.ok = TRUE], servers).ok

\* What an agent's session is told of is what its calls can reach, and
\* nothing else is asked of any server (runtime_components.go:97-165).
ASSUME ListedIsReachable ==
  \A servers \in MCTwoServers, reply \in Replies, arguments \in BOOLEAN :
    LET registry == RegisterMCPTools(NewRegistry, servers)
    IN  \A allowed \in {{}, {Empty}} \cup {{name} : name \in DOMAIN registry.tools} :
          /\ ListTools(registry, allowed) = IF allowed \subseteq {Empty} THEN DOMAIN registry.tools ELSE allowed
          /\ \A name \in DOMAIN registry.tools \cup {<<"t">>} :
               LET outcome == ExecuteTool(registry, allowed, name, arguments, reply)
               IN  /\ outcome.asked # {} => name \in ListTools(registry, allowed)
                   /\ outcome.status = "succeeded" => outcome.asked # {} /\ ~outcome.err
                   /\ name \in ListTools(registry, allowed) /\ Plain(registry.tools[name].server) /\ arguments
                        => Cardinality(outcome.asked) = 1
=============================================================================
