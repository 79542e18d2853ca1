------------------------------- MODULE Viewers ------------------------------
(***************************************************************************)
(* The three read-only front ends.  They are processes of their own that   *)
(* share nothing but the immutable graph, so a behaviour is one of them.   *)
(***************************************************************************)
EXTENDS ConsoleView, WebExplorer, McpServer

VARIABLE front

viewerVars == <<front, consoleVars, webVars, mcpVars>>

ViewersInit ==
  /\ front \in {"console", "web", "mcp"}
  /\ ConsoleInit /\ WebInit /\ McpInit

ViewersNext ==
  /\ UNCHANGED front
  /\ \/ front = "console" /\ ConsoleNext /\ UNCHANGED <<webVars, mcpVars>>
     \/ front = "web" /\ WebNext /\ UNCHANGED <<consoleVars, mcpVars>>
     \/ front = "mcp" /\ McpNext /\ UNCHANGED <<consoleVars, webVars>>

ViewersSpec == ViewersInit /\ [][ViewersNext]_viewerVars
-----------------------------------------------------------------------------
TypeOK == ConsoleTypeOK /\ WebTypeOK /\ McpTypeOK

\* The terminal pages show what belongs together: the facts are the ones of
\* the selected candidate under the relation that is named above them, and a
\* verdict is that of the task on the page, whatever commands came before and
\* whichever of them failed (Console.apply, page_words, page_model).
ConsoleCoherent ==
  open =>
    /\ word # Nothing /\ word.selected # Nothing =>
         word.neighbors = Facts(word.candidates[word.selected], word.relation,
                                ConsoleLimit)
    /\ shown # Nothing => shown.task = task

\* In whatever order the answers come and whichever of them fail: once the answer to
\* the last request is what was rendered last, the page shows the entity and the filter
\* of its user; and once none is on its way, nor has failed since, the path ends with
\* the entity that is shown, even if that is an older one whose answer came late
\* (app.js, loadGraph, renderGraph).
PageFollowsUser ==
  display # Nothing /\ display.kind = "graph" =>
    /\ applied = newest =>
         display.root = selected /\ (filter = Nothing <=> display.relation = Nothing)
    /\ (\A request \in requests : request.kind # "graph") /\ ~refused =>
         navigation[Len(navigation)] = display.root

\* Every message read is answered once, in order and with its own id or none, however
\* a worker ends, and facts that are not called truncated are all there are
\* (mcp_server.py, main, handle_message; mcp_graph_query.py).
McpAccounts ==
  /\ [i \in DOMAIN answers |-> answers[i].id]
       = SubSeq(asked, 1, IF current = NoWorker THEN Len(asked) ELSE Len(asked) - 1)
  /\ \A i \in DOMAIN answers :
       answers[i].what.kind = "facts" /\ ~answers[i].what.truncated =>
         LET call == answers[i].what.call
         IN  answers[i].what.facts = Matching(call.item, call.property)

\* Once every request is answered the facts shown are those of the selected
\* entity: "The selected entity's real outgoing graph edges will appear here."
\* (app.js, factsEmpty)
SelectedFactsAppear ==
  requests = {} /\ ~refused /\ display # Nothing /\ display.kind = "graph"
    => display.root = selected
=============================================================================
