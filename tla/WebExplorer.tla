----------------------------- MODULE WebExplorer ----------------------------
(***************************************************************************)
(* web/app.js with scripts/search_web.py behind it.  The page sends a      *)
(* request for each search, navigation, filter and policy run without      *)
(* waiting for the ones before; the server answers each in a thread of its *)
(* own, so answers arrive in any order, and the page applies each as it    *)
(* comes.                                                                  *)
(***************************************************************************)
EXTENDS QueryServices, FiniteSets

CONSTANTS WebLimit,    \* facts of a graph answer
          PolicySteps, \* --max-steps of live_query.py
          MaxRequests, \* requests of a behaviour
          MaxDepth     \* entries of the navigation path

ASSUME WebAssumption ==
  WebLimit \in Nat /\ MaxRequests \in Nat /\ MaxDepth \in Nat \ {0}

VARIABLES selected,   \* the entity the user opened last, or Nothing
          navigation, \* the path of opened entities
          filter,     \* the text of the relation field
          row,        \* the candidates the last search offers
          display,    \* what the canvas shows: Nothing, a graph or a policy run
          mode,       \* graphMode
          requests,   \* requests without an answer
          sent,       \* how many were sent, which numbers them
          newest,     \* history: the last graph request
          applied,    \* history: the graph request whose answer was rendered last
          refused     \* history: the last graph request that was answered failed

history == <<newest, applied, refused>>
webVars == <<selected, navigation, filter, row, display, mode, requests, sent, history>>

Ask(kind, entity, property) ==
  [n |-> sent + 1, kind |-> kind, entity |-> entity, property |-> property]
Send(kind, entity, property) ==
  /\ sent < MaxRequests /\ sent' = sent + 1
  /\ requests' = requests \cup {Ask(kind, entity, property)}

WebInit ==
  /\ selected = Nothing /\ navigation = <<>> /\ filter = Nothing /\ row = <<>>
  /\ display = Nothing /\ mode = "local" /\ requests = {} /\ sent = 0
  /\ newest = 0 /\ applied = 0 /\ refused = FALSE

\* loadGraph up to the await: a policy run is gone from the page's state at
\* once, the graph comes with the answer.
LoadGraph(entity, property) ==
  /\ Send("graph", entity, property)
  /\ newest' = sent + 1 /\ UNCHANGED <<applied, refused>>
  /\ mode' = "local"
  /\ display' = IF display # Nothing /\ display.kind = "policy" THEN Nothing ELSE display

\* navigateTo: the entity is added to the path, the filter cleared.
NavigateTo(path, entity) ==
  /\ Len(path) < MaxDepth
  /\ navigation' = Append(path, entity) /\ selected' = entity /\ filter' = Nothing
  /\ LoadGraph(entity, Nothing)

ClickSearch(term) ==
  /\ Send("search", term, Nothing)
  /\ UNCHANGED <<selected, navigation, filter, row, display, mode, history>>

\* A candidate of the row: only the local ones are enabled.
\* Variant: all of them are.
ClickCandidate_Any ==
  /\ \E i \in DOMAIN row : NavigateTo(<<>>, row[i])
  /\ UNCHANGED row
ClickCandidate ==
  /\ \E i \in DOMAIN row : IsLocal(row[i]) /\ NavigateTo(<<>>, row[i])
  /\ UNCHANGED row

\* A node of the canvas, a fact of the list, or the button: openSelectedNode.
OpenNode ==
  /\ display # Nothing /\ display.kind = "graph"
  /\ \E i \in DOMAIN display.facts : NavigateTo(navigation, display.facts[i][1])
  /\ UNCHANGED row

\* openPath, the back button among its callers.
\* Variant: the graph is asked for before the selection changes.
OpenPath_LoadFirst ==
  /\ \E i \in DOMAIN navigation :
       /\ navigation' = SubSeq(navigation, 1, i)
       /\ selected' = navigation[i] /\ filter' = Nothing
       /\ LoadGraph(selected, Nothing)
  /\ UNCHANGED row
OpenPath ==
  /\ \E i \in DOMAIN navigation :
       /\ navigation' = SubSeq(navigation, 1, i)
       /\ selected' = navigation[i] /\ filter' = Nothing
       /\ LoadGraph(navigation[i], Nothing)
  /\ UNCHANGED row

ApplyFilter ==
  /\ selected # Nothing
  /\ \E property \in Properties \cup {Word, Nothing} :
       filter' = property /\ LoadGraph(selected, property)
  /\ UNCHANGED <<selected, navigation, row>>

\* The button is disabled while its request is out.
ShowPolicy ==
  /\ \A request \in requests : request.kind # "policy"
  /\ Send("policy", Nothing, Nothing)
  /\ UNCHANGED <<selected, navigation, filter, row, display, mode, history>>

\* The server's graph_view: the filter is resolved, the facts are cut.
GraphAnswers(request) ==
  LET resolved == IF request.property = Nothing THEN {<<Nothing>>}
                  ELSE Resolutions(request.property, Properties)
  IN  {IF request.property = Nothing
       THEN [kind |-> "graph", root |-> request.entity, relation |-> Nothing,
             facts |-> Facts(request.entity, Nothing, WebLimit)]
       ELSE IF found = Nothing \/ FirstLocal(found) = Nothing THEN Nothing
       ELSE [kind |-> "graph", root |-> request.entity,
             relation |-> found[FirstLocal(found)],
             facts |-> Facts(request.entity, found[FirstLocal(found)], WebLimit)]
       : found \in resolved}

Answered(request) == requests' = requests \ {request}

\* Variant: the path keeps the entity that was opened.
GraphArrives_KeepsPath(request) ==
  /\ request.kind = "graph" /\ Answered(request)
  /\ \/ refused' = TRUE /\ UNCHANGED <<display, applied>>
     \/ \E answer \in GraphAnswers(request) \ {Nothing} :
          display' = answer /\ applied' = request.n /\ refused' = FALSE
  /\ UNCHANGED <<selected, navigation, filter, row, mode, sent, newest>>

\* The request fails or cannot be answered, or renderGraph: the answer replaces what is
\* shown and the path's last entry, whichever request it belongs to.
GraphArrives(request) ==
  /\ request.kind = "graph" /\ Answered(request)
  /\ \/ refused' = TRUE /\ UNCHANGED <<display, navigation, applied>>
     \/ \E answer \in GraphAnswers(request) \ {Nothing} :
          /\ display' = answer /\ applied' = request.n /\ refused' = FALSE
          /\ navigation' = IF navigation = <<>> THEN navigation
                           ELSE [navigation EXCEPT ![Len(navigation)] = answer.root]
  /\ UNCHANGED <<selected, filter, row, mode, sent, newest>>

\* The server's search: the candidates, and the first local one is opened.
SearchArrives(request) ==
  /\ request.kind = "search"
  /\ \E found \in Resolutions(request.entity, Items) :
       IF found # Nothing /\ FirstLocal(found) # Nothing
       THEN LET first == found[FirstLocal(found)] IN
            /\ row' = found /\ sent < MaxRequests /\ sent' = sent + 1
            /\ requests' = (requests \ {request}) \cup {Ask("graph", first, Nothing)}
            /\ newest' = sent + 1
            /\ navigation' = <<first>> /\ selected' = first /\ filter' = Nothing
            /\ mode' = "local"
            /\ display' = IF display # Nothing /\ display.kind = "policy" THEN Nothing
                          ELSE display
       ELSE /\ row' = IF found = Nothing THEN row ELSE found
            /\ Answered(request)
            /\ UNCHANGED <<sent, newest, navigation, selected, filter, mode, display>>
  /\ UNCHANGED <<applied, refused>>

\* A worker process ran the policy, or failed; renderPolicyPath.
PolicyArrives(request) ==
  /\ request.kind = "policy" /\ Answered(request)
  /\ \/ \E episode \in Episodes(0, PolicySteps) :
          display' = [kind |-> "policy", run |-> episode] /\ mode' = "policy"
     \/ UNCHANGED <<display, mode>>
  /\ UNCHANGED <<selected, navigation, filter, row, sent, history>>

WebNext ==
  \/ \E term \in Items \cup {Word} : ClickSearch(term)
  \/ ClickCandidate \/ OpenNode \/ OpenPath \/ ApplyFilter \/ ShowPolicy
  \/ \E request \in requests :
       GraphArrives(request) \/ SearchArrives(request) \/ PolicyArrives(request)

WebTypeOK ==
  /\ selected \in LocalItems \cup {Nothing}
  /\ navigation \in BoundedSeq(LocalItems, MaxDepth)
  /\ filter \in Properties \cup {Word, Nothing}
  /\ sent \in 0 .. MaxRequests
  /\ Cardinality(requests) <= sent
=============================================================================
