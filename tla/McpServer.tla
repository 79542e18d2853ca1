------------------------------ MODULE McpServer -----------------------------
(***************************************************************************)
(* neuroseek/mcp_server.py with its worker scripts/mcp_graph_query.py: one *)
(* line of stdin is one JSON-RPC message, handled to its end before the    *)
(* next; a tool is run by a worker process, which can fail in every way a  *)
(* process can.                                                            *)
(***************************************************************************)
EXTENDS QueryServices

CONSTANTS Limits,       \* the limits a client asks for (1 .. 50 in the code)
          MaxLines      \* messages of a behaviour

ASSUME McpAssumption == Limits \subseteq Nat /\ MaxLines \in Nat

VARIABLES current,  \* the message whose worker runs, or NoWorker
          lines,    \* lines of stdin read
          asked,    \* history: the ids of the messages that are to be answered
          answers   \* the lines written to stdout

mcpVars == <<current, lines, asked, answers>>

\* What handle_message tells apart.
Protocol == {"initialize", "tools/list", "capabilities"}
Refusals == [garbage |-> "-32700", malformed |-> "-32600", method |-> "-32601",
             arguments |-> "-32602", tool |-> "-32602"]

\* What can become of a worker process.
Outcomes == {"json", "exit", "timeout", "missing", "oversized", "no json", "other"}

Reply(id, what) == answers' = Append(answers, [id |-> id, what |-> what])

NoWorker == <<>>

McpInit == current = NoWorker /\ lines = 0 /\ asked = <<>> /\ answers = <<>>

\* A line is read when no message is being handled.
Read == current = NoWorker /\ lines < MaxLines /\ lines' = lines + 1
\* The id of a message, for which its place in stdin stands, or none: whatever the
\* method is but notifications/initialized, it is answered, with id null if need be.
Ids == {lines + 1, Nothing}
ReadRequest(id) == Read /\ asked' = Append(asked, id)

Respond(id) ==
  /\ ReadRequest(id)
  /\ \/ \E kind \in Protocol : Reply(id, [kind |-> kind])
     \/ \E kind \in DOMAIN Refusals \ {"garbage"} :
          Reply(id, [kind |-> "error", code |-> Refusals[kind]])
  /\ UNCHANGED current

\* A line that is no JSON has no id.
Garbage ==
  /\ ReadRequest(Nothing)
  /\ Reply(Nothing, [kind |-> "error", code |-> Refusals.garbage])
  /\ UNCHANGED current

\* notifications/initialized has no answer.
Notified == Read /\ UNCHANGED <<current, asked, answers>>

\* tools/call with arguments that are accepted starts a worker.
CallFacts(id) ==
  /\ ReadRequest(id)
  /\ \E item \in Items, property \in Properties \cup {Nothing}, limit \in Limits :
       current' = [id |-> id, tool |-> "facts", item |-> item, property |-> property,
                   limit |-> limit]
  /\ UNCHANGED answers
CallSearch(id) ==
  ReadRequest(id) /\ current' = [id |-> id, tool |-> "search"] /\ UNCHANGED answers

\* mcp_graph_query.py: facts left out by the limit, or by the filter.
\* Variant: only a result over the limit counts as truncated.
Truncated_AtLimit(item, facts, limit) == Len(facts) > limit
Truncated(item, facts, limit) == Len(Edges[item]) > Len(facts)

FactsAnswer(call) ==
  LET facts == Facts(call.item, call.property, call.limit)
  IN  [kind |-> "facts", call |-> call, facts |-> facts,
       truncated |-> Truncated(call.item, facts, call.limit)]

\* Unknown identifiers end the worker with an error.
Findable(call) ==
  call.tool = "facts" =>
    IsLocal(call.item) /\ (call.property = Nothing \/ IsLocal(call.property))

\* _run_worker and the handlers around it: what is not valid JSON of a worker
\* that ended well becomes a result marked as an error.
WorkerEnds ==
  /\ current # NoWorker
  /\ \E outcome \in Outcomes :
       /\ outcome = "json" => Findable(current)
       /\ Reply(current.id,
               CASE outcome = "json" /\ current.tool = "facts" -> FactsAnswer(current)
                 [] outcome = "json" /\ current.tool = "search" -> [kind |-> "run"]
                 [] OTHER -> [kind |-> "tool error"])
  /\ current' = NoWorker /\ UNCHANGED <<lines, asked>>

McpNext ==
  \/ \E id \in Ids : Respond(id) \/ CallFacts(id) \/ CallSearch(id)
  \/ Garbage \/ Notified \/ WorkerEnds

McpTypeOK ==
  /\ lines \in 0 .. MaxLines /\ Len(answers) <= Len(asked)
  /\ current # NoWorker => current.tool \in {"facts", "search"}
=============================================================================
