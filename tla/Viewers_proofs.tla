--------------------------- MODULE Viewers_proofs ---------------------------
(***************************************************************************)
(* Proofs about the front ends, for every graph, search, number of         *)
(* requests and order of answers: the terminal pages show what belongs     *)
(* together, the page follows its user, and the server of tools accounts   *)
(* for every message it reads.                                             *)
(***************************************************************************)
EXTENDS Viewers, FiniteSetTheorems, WellFoundedInduction, TLAPS

-----------------------------------------------------------------------------
(* The terminal viewer *)

\* A workspace whose facts are those of its selection.
Workspace(w) ==
  \E candidates, selection, relation, neighbors :
    /\ w = [candidates |-> candidates, selected |-> selection, relation |-> relation,
            neighbors |-> neighbors]
    /\ selection # Nothing =>
         neighbors = Facts(candidates[selection], relation, ConsoleLimit)

ConsoleInv ==
  /\ word = Nothing \/ Workspace(word)
  /\ open /\ shown # Nothing => shown.task = task

LEMMA ExpandedIs ==
  ASSUME NEW c, NEW s, NEW r, NEW n, NEW w,
         w = [candidates |-> c, selected |-> s, relation |-> r, neighbors |-> n]
  PROVE  Workspace(Expanded(w))
<1>1. Expanded(w) = [candidates |-> c, selected |-> s, relation |-> r,
                     neighbors |-> Facts(c[s], r, ConsoleLimit)]
  BY DEF Expanded
<1>. QED
  BY <1>1 DEF Workspace

LEMMA ConsoleStep ==
  ASSUME ConsoleInv, ConsoleNext
  PROVE  ConsoleInv'
<1>. USE DEF ConsoleInv
<1>1. ASSUME NEW term \in Items \cup {Word}, Find(term) PROVE ConsoleInv'
  <2>1. PICK found \in Resolutions(term, Items) :
          word' = LET fresh == [candidates |-> found, selected |-> FirstLocal(found),
                                relation |-> Nothing, neighbors |-> Nothing]
                  IN  IF fresh.selected = Nothing THEN fresh ELSE Expanded(fresh)
    BY <1>1 DEF Find
  <2>2. PICK fresh : fresh = [candidates |-> found, selected |-> FirstLocal(found),
                              relation |-> Nothing, neighbors |-> Nothing]
    OBVIOUS
  <2>3. word' = IF fresh.selected = Nothing THEN fresh ELSE Expanded(fresh)
    BY <2>1, <2>2
  <2>4. Workspace(Expanded(fresh))
    BY <2>2, ExpandedIs
  <2>5. fresh.selected = Nothing => Workspace(fresh)
    BY <2>2 DEF Workspace
  <2>6. Workspace(word')
    BY <2>3, <2>4, <2>5
  <2>. QED
    BY <1>1, <2>6 DEF Find
<1>2. ASSUME NEW index \in 1 .. MaxFound, Use(index) PROVE ConsoleInv'
  <2>1. PICK c, s, r, n :
          word = [candidates |-> c, selected |-> s, relation |-> r, neighbors |-> n]
    BY <1>2 DEF Use, Workspace
  <2>2. PICK w : w = [word EXCEPT !.selected = index]
    OBVIOUS
  <2>3. w = [candidates |-> c, selected |-> index, relation |-> r, neighbors |-> n]
    BY <2>1, <2>2
  <2>4. word' = Expanded(w)
    BY <1>2, <2>2 DEF Use
  <2>5. Workspace(word')
    BY <2>3, <2>4, ExpandedIs
  <2>. QED
    BY <1>2, <2>5 DEF Use
<1>3. ASSUME NEW term \in Properties \cup {Word}, Relation(term) PROVE ConsoleInv'
  <2>1. PICK c, s, r, n :
          word = [candidates |-> c, selected |-> s, relation |-> r, neighbors |-> n]
    BY <1>3 DEF Relation, Workspace
  <2>2. PICK property, w : w = [word EXCEPT !.relation = property] /\ word' = Expanded(w)
    BY <1>3 DEF Relation
  <2>4. w = [candidates |-> c, selected |-> s, relation |-> property, neighbors |-> n]
    BY <2>1, <2>2
  <2>5. Workspace(word')
    BY <2>2, <2>4, ExpandedIs
  <2>. QED
    BY <1>3, <2>5 DEF Relation
<1>4. CASE Clear
  BY <1>4 DEF Clear
<1>5. ASSUME NEW index \in 0 .. Tasks - 1, Execute(index) PROVE ConsoleInv'
  <2>1. ASSUME NEW episode \in Episodes(index, ConsoleSteps) PROVE episode.task = index
    <3>1. CASE episode \in [task : {index}, steps : 1 .. ConsoleSteps, forced : {FALSE}]
      BY <3>1
    <3>2. CASE episode = [task |-> index, steps |-> ConsoleSteps + 1, forced |-> TRUE]
      BY <3>2
    <3>. QED
      BY <3>1, <3>2 DEF Episodes
  <2>. QED
    BY <1>5, <2>1 DEF Execute
<1>6. CASE NextTask
  BY <1>6 DEF NextTask
<1>7. CASE Quit
  BY <1>7 DEF Quit
<1>. QED
  BY <1>1, <1>2, <1>3, <1>4, <1>5, <1>6, <1>7 DEF ConsoleNext, Run

(* search_console.py, Console.apply: the facts are those of the selected candidate    *)
(* under the named relation, and a verdict is that of the task on the page.           *)
THEOREM ConsoleAlwaysCoherent == ViewersSpec => []ConsoleCoherent
<1>1. ViewersInit => ConsoleInv
  BY DEF ViewersInit, ConsoleInit, ConsoleInv
<1>2. ConsoleInv /\ [ViewersNext]_viewerVars => ConsoleInv'
  <2>. SUFFICES ASSUME ConsoleInv, [ViewersNext]_viewerVars PROVE ConsoleInv'
    OBVIOUS
  <2>1. CASE ConsoleNext
    BY <2>1, ConsoleStep
  <2>2. CASE UNCHANGED consoleVars
    BY <2>2 DEF ConsoleInv, consoleVars
  <2>. QED
    BY <2>1, <2>2 DEF ViewersNext, viewerVars
<1>3. ConsoleInv => ConsoleCoherent
  <2>1. ASSUME ConsoleInv, word # Nothing, word.selected # Nothing
        PROVE  word.neighbors = Facts(word.candidates[word.selected], word.relation, ConsoleLimit)
    BY <2>1 DEF ConsoleInv, Workspace
  <2>. QED
    BY <2>1 DEF ConsoleInv, ConsoleCoherent
<1>. QED
  BY <1>1, <1>2, <1>3, PTL DEF ViewersSpec

-----------------------------------------------------------------------------
(* The web page: lookups *)

\* The first local identifier of an answer is local, and a local identifier is one.
LEMMA FirstLocalIn ==
  ASSUME NEW found, DOMAIN found \subseteq Nat, FirstLocal(found) # Nothing
  PROVE  FirstLocal(found) \in DOMAIN found /\ IsLocal(found[FirstLocal(found)])
<1>. DEFINE local == {i \in DOMAIN found : IsLocal(found[i])}
<1>1. local \subseteq Nat /\ local # {}
  BY DEF FirstLocal
<1>2. PICK i \in local : \A j \in local : ~ (<<j, i>> \in OpToRel(<, Nat))
  BY <1>1, NatLessThanWellFounded, WFMin
<1>3. \A j \in local : i <= j
  <2>1. ASSUME NEW j \in local, j < i PROVE <<j, i>> \in OpToRel(<, Nat)
    <3>1. <<j, i>> \in Nat \X Nat /\ <<j, i>>[1] < <<j, i>>[2]
      BY <1>1, <2>1
    <3>. QED
      BY ONLY <3>1, Zenon DEF OpToRel
  <2>2. \A j \in local : ~ (j < i)
    BY <1>2, <2>1
  <2>. QED
    BY <1>1, <2>2
<1>4. FirstLocal(found) = CHOOSE k \in local : \A j \in local : k <= j
  BY <1>1 DEF FirstLocal
<1>5. FirstLocal(found) \in local
  BY <1>3, <1>4
<1>. QED
  BY <1>5

LEMMA FirstLocalIs ==
  ASSUME NEW found, DOMAIN found \subseteq Nat, FirstLocal(found) # Nothing
  PROVE  found[FirstLocal(found)] # Nothing
<1>1. \A id : IsLocal(id) => id # Nothing
  <2>1. LocalItems \subseteq Items
    BY QueryAssumption DEF LocalItems
  <2>2. LocalProperties \subseteq Properties
    BY QueryAssumption DEF LocalProperties, LocalItems
  <2>. QED
    BY <2>1, <2>2, QueryAssumption DEF IsLocal
<1>. QED
  BY <1>1, FirstLocalIn

LEMMA ResolutionIs ==
  ASSUME NEW term, NEW universe, NEW found \in Resolutions(term, universe), found # Nothing
  PROVE  DOMAIN found \subseteq Nat
<1>1. CASE found = <<term>>
  BY <1>1
<1>2. CASE found \in BoundedSeq(universe, MaxFound)
  BY <1>2, QueryAssumption DEF BoundedSeq, SeqOf
<1>. QED
  BY <1>1, <1>2 DEF Resolutions

\* An answer is about the entity that was asked for, under a filter if one was.
LEMMA AnswerIs ==
  ASSUME NEW request, NEW answer \in GraphAnswers(request), answer # Nothing
  PROVE  /\ answer.root = request.entity
         /\ request.property = Nothing <=> answer.relation = Nothing
<1>1. CASE request.property = Nothing
  <2>1. answer = [kind |-> "graph", root |-> request.entity, relation |-> Nothing,
                  facts |-> Facts(request.entity, Nothing, WebLimit)]
    BY <1>1 DEF GraphAnswers
  <2>. QED
    BY <1>1, <2>1
<1>2. CASE request.property # Nothing
  <2>1. PICK found \in Resolutions(request.property, Properties) :
          /\ found # Nothing /\ FirstLocal(found) # Nothing
          /\ answer = [kind |-> "graph", root |-> request.entity,
                       relation |-> found[FirstLocal(found)],
                       facts |-> Facts(request.entity, found[FirstLocal(found)], WebLimit)]
    BY <1>2 DEF GraphAnswers
  <2>2. found[FirstLocal(found)] # Nothing
    BY <2>1, ResolutionIs, FirstLocalIs
  <2>. QED
    BY <1>2, <2>1, <2>2
<1>. QED
  BY <1>1, <1>2

-----------------------------------------------------------------------------
(* The web page: the path of opened entities *)

IsPath(path) == \E S : path \in Seq(S)

LEMMA PathAppended ==
  ASSUME NEW path, IsPath(path), NEW entity
  PROVE  LET p == Append(path, entity)
         IN  IsPath(p) /\ p # <<>> /\ p[Len(p)] = entity
<1>1. PICK S : path \in Seq(S)
  BY DEF IsPath
<1>2. path \in Seq(S \cup {entity})
  BY <1>1
<1>3. Append(path, entity) \in Seq(S \cup {entity})
  BY <1>2
<1>. QED
  BY <1>2, <1>3 DEF IsPath

LEMMA PathCut ==
  ASSUME NEW path, IsPath(path), NEW i \in DOMAIN path
  PROVE  LET p == SubSeq(path, 1, i)
         IN  IsPath(p) /\ p # <<>> /\ p[Len(p)] = path[i]
<1>1. PICK S : path \in Seq(S)
  BY DEF IsPath
<1>2. /\ SubSeq(path, 1, i) \in Seq(S) /\ Len(SubSeq(path, 1, i)) = i
      /\ i \in 1 .. Len(path)
  BY <1>1
<1>3. SubSeq(path, 1, i)[i] = path[i]
  BY <1>1, <1>2
<1>4. SubSeq(path, 1, i) # <<>>
  BY <1>2
<1>. QED
  BY <1>2, <1>3, <1>4 DEF IsPath

Ended(path, entity) == [path EXCEPT ![Len(path)] = entity]

LEMMA PathEnded ==
  ASSUME NEW path, IsPath(path), path # <<>>, NEW entity
  PROVE  LET p == Ended(path, entity)
         IN  IsPath(p) /\ p # <<>> /\ p[Len(p)] = entity
<1>1. PICK S : path \in Seq(S)
  BY DEF IsPath
<1>2. path \in Seq(S \cup {entity}) /\ Len(path) \in DOMAIN path
  BY <1>1
<1>3. Ended(path, entity) \in Seq(S \cup {entity}) /\ Len(Ended(path, entity)) = Len(path)
  BY <1>2 DEF Ended
<1>4. Ended(path, entity)[Len(path)] = entity
  BY <1>2 DEF Ended
<1>5. Ended(path, entity) # <<>>
  BY <1>1, <1>3
<1>. QED
  BY <1>3, <1>4, <1>5 DEF IsPath

-----------------------------------------------------------------------------
(* The web page: what it has asked for last *)

Graphed  == display # Nothing /\ display.kind = "graph"
AskedFor == {r \in requests : r.kind = "graph"}

\* The newest graph request is for what the user opened last.
Wanted ==
  \A r \in AskedFor :
    /\ r.n \in Nat /\ r.n <= newest
    /\ r.n = newest => r.entity = selected /\ r.property = filter

\* What is on the canvas is what the user opened last.
Current ==
  /\ display.root = selected
  /\ filter = Nothing <=> display.relation = Nothing

\* What was rendered last was asked for, and no longer is.
WebInv ==
  /\ sent \in Nat /\ newest \in Nat /\ newest <= sent /\ applied \in Nat /\ applied <= newest
  /\ IsPath(navigation)
  /\ selected # Nothing \/ AskedFor # {} \/ Graphed => navigation # <<>>
  /\ Wanted
  /\ Graphed /\ applied = newest => Current
  /\ AskedFor = {} /\ ~refused /\ Graphed => navigation[Len(navigation)] = display.root

\* A graph is asked for: the request is newer than all the others.
LEMMA GraphAsked ==
  ASSUME WebInv, NEW left, left \subseteq requests, NEW entity, NEW property,
         requests' = left \cup {Ask("graph", entity, property)}, sent' = sent + 1,
         newest' = sent + 1, selected' = entity, filter' = property, UNCHANGED applied,
         IsPath(navigation'), navigation' # <<>>
  PROVE  WebInv'
<1>1. PICK new : new = Ask("graph", entity, property)
  OBVIOUS
<1>2. /\ new.n = sent + 1 /\ new.kind = "graph" /\ new.entity = entity
      /\ new.property = property /\ requests' = left \cup {new}
  BY <1>1 DEF Ask
<1>3. /\ sent \in Nat /\ newest \in Nat /\ newest <= sent /\ applied \in Nat /\ applied <= newest
  BY DEF WebInv
<1>4. new \in AskedFor' /\ AskedFor' \subseteq AskedFor \cup {new}
  BY <1>2 DEF AskedFor
<1>5. Wanted'
  <2>. SUFFICES ASSUME NEW r \in AskedFor'
                PROVE  /\ r.n \in Nat /\ r.n <= newest'
                       /\ r.n = newest' => r.entity = selected' /\ r.property = filter'
    BY DEF Wanted
  <2>1. CASE r = new
    BY <1>2, <1>3, <2>1
  <2>2. CASE r # new
    <3>1. r.n \in Nat /\ r.n <= newest
      BY <1>4, <2>2 DEF WebInv, Wanted
    <3>. QED
      BY <1>3, <3>1
  <2>. QED
    BY <2>1, <2>2
<1>6. applied' # newest'
  BY <1>3
<1>. QED
  BY <1>3, <1>4, <1>5, <1>6 DEF WebInv

\* Anything else is asked for, or a request other than for a graph is answered.
LEMMA OtherAsked ==
  ASSUME WebInv, sent' \in Nat, sent <= sent', AskedFor' = AskedFor,
         UNCHANGED <<selected, navigation, filter, newest, applied, refused>>,
         UNCHANGED display \/ ~ Graphed'
  PROVE  WebInv'
<1>1. newest' <= sent'
  BY DEF WebInv
<1>2. Wanted'
  BY DEF WebInv, Wanted
<1>3. Graphed' => Graphed /\ UNCHANGED display
  BY DEF Graphed
<1>. QED
  BY <1>1, <1>2, <1>3 DEF WebInv, Current

LEMMA SendOther ==
  ASSUME WebInv, NEW kind \in {"search", "policy"}, NEW term, Send(kind, term, Nothing),
         UNCHANGED <<selected, navigation, filter, display, newest, applied, refused>>
  PROVE  WebInv'
<1>1. PICK new : new = Ask(kind, term, Nothing)
  OBVIOUS
<1>2. /\ new.n = sent + 1 /\ new.kind # "graph" /\ requests' = requests \cup {new}
      /\ sent' = sent + 1
  BY <1>1 DEF Ask, Send
<1>3. AskedFor' = AskedFor
  BY <1>2 DEF AskedFor
<1>4. sent' \in Nat /\ sent <= sent'
  BY <1>2 DEF WebInv
<1>. QED
  BY <1>3, <1>4, OtherAsked

LEMMA NavigateStep ==
  ASSUME WebInv, NEW path, IsPath(path), NEW entity, NavigateTo(path, entity)
  PROVE  WebInv'
BY PathAppended, GraphAsked DEF NavigateTo, LoadGraph, Send

\* An answer is rendered, whichever request it belongs to, or none comes.
LEMMA GraphArrivesStep ==
  ASSUME WebInv, NEW request \in requests, GraphArrives(request)
  PROVE  WebInv'
<1>1. /\ request \in AskedFor /\ requests' = requests \ {request}
      /\ UNCHANGED <<selected, filter, sent, newest>>
  BY DEF GraphArrives, Answered, AskedFor
<1>2. AskedFor' \subseteq AskedFor
  BY <1>1 DEF AskedFor
<1>3. /\ navigation # <<>> /\ IsPath(navigation) /\ sent \in Nat /\ newest \in Nat /\ newest <= sent
      /\ applied \in Nat /\ applied <= newest
  BY <1>1 DEF WebInv
<1>4. Wanted'
  BY <1>1, <1>2 DEF WebInv, Wanted
<1>5. CASE refused' = TRUE /\ UNCHANGED <<display, navigation, applied>>
  <2>1. Graphed' = Graphed /\ (Current' <=> Current)
    BY <1>1, <1>5 DEF Graphed, Current
  <2>. QED
    BY <1>1, <1>3, <1>4, <1>5, <2>1 DEF WebInv
<1>6. CASE \E answer \in GraphAnswers(request) \ {Nothing} :
             /\ display' = answer /\ applied' = request.n
             /\ navigation' = IF navigation = <<>> THEN navigation
                              ELSE [navigation EXCEPT ![Len(navigation)] = answer.root]
  <2>1. PICK answer \in GraphAnswers(request) :
          /\ answer # Nothing /\ display' = answer /\ applied' = request.n
          /\ navigation' = Ended(navigation, answer.root)
    BY <1>3, <1>6 DEF Ended
  <2>2. IsPath(navigation') /\ navigation' # <<>> /\ navigation'[Len(navigation')] = answer.root
    BY <1>3, <2>1, PathEnded
  <2>3. request.n \in Nat /\ request.n <= newest
    BY <1>1 DEF WebInv, Wanted
  <2>4. applied' = newest' => Current'
    <3>. SUFFICES ASSUME request.n = newest PROVE Current'
      BY <1>1, <2>1
    <3>1. request.entity = selected /\ request.property = filter
      BY <1>1 DEF WebInv, Wanted
    <3>2. answer.root = request.entity /\ (request.property = Nothing <=> answer.relation = Nothing)
      BY <2>1, AnswerIs
    <3>. QED
      BY <1>1, <2>1, <3>1, <3>2 DEF Current
  <2>. QED
    BY <1>1, <1>3, <1>4, <2>1, <2>2, <2>3, <2>4 DEF WebInv
<1>. QED
  BY <1>5, <1>6 DEF GraphArrives

LEMMA SearchArrivesStep ==
  ASSUME WebInv, NEW request \in requests, SearchArrives(request)
  PROVE  WebInv'
<1>1. request.kind = "search" /\ UNCHANGED <<applied, refused>>
  BY DEF SearchArrives
<1>2. ASSUME NEW first,
             requests' = (requests \ {request}) \cup {Ask("graph", first, Nothing)},
             sent' = sent + 1, newest' = sent + 1, navigation' = <<first>>, selected' = first,
             filter' = Nothing
      PROVE  WebInv'
  <2>1. <<first>> \in Seq({first}) /\ <<first>> # <<>>
    OBVIOUS
  <2>. QED
    BY <1>1, <1>2, <2>1, GraphAsked DEF IsPath
<1>3. CASE Answered(request) /\ UNCHANGED <<sent, newest, navigation, selected, filter, display>>
  <2>1. AskedFor' = AskedFor
    BY <1>1, <1>3 DEF Answered, AskedFor
  <2>. QED
    BY <1>1, <1>3, <2>1, OtherAsked DEF WebInv, Answered
<1>. QED
  BY <1>2, <1>3 DEF SearchArrives

LEMMA PolicyArrivesStep ==
  ASSUME WebInv, NEW request \in requests, PolicyArrives(request)
  PROVE  WebInv'
<1>1. /\ request.kind = "policy" /\ requests' = requests \ {request}
      /\ UNCHANGED <<selected, navigation, filter, sent, newest, applied, refused>>
  BY DEF PolicyArrives, Answered, history
<1>2. AskedFor' = AskedFor
  BY <1>1 DEF AskedFor
<1>3. UNCHANGED display \/ ~ Graphed'
  <2>1. \A episode : [kind |-> "policy", run |-> episode].kind # "graph"
    OBVIOUS
  <2>. QED
    BY <2>1 DEF PolicyArrives, Graphed
<1>. QED
  BY <1>1, <1>2, <1>3, OtherAsked DEF WebInv

LEMMA WebStep ==
  ASSUME WebInv, WebNext
  PROVE  WebInv'
<1>1. IsPath(<<>>) /\ IsPath(navigation)
  <2>1. <<>> \in Seq({})
    OBVIOUS
  <2>. QED
    BY <2>1 DEF IsPath, WebInv
<1>2. ASSUME NEW term \in Items \cup {Word}, ClickSearch(term) PROVE WebInv'
  BY <1>2, SendOther DEF ClickSearch, history
<1>3. CASE ClickCandidate
  BY <1>1, <1>3, NavigateStep DEF ClickCandidate
<1>4. CASE OpenNode
  BY <1>1, <1>4, NavigateStep DEF OpenNode
<1>5. CASE OpenPath
  <2>1. PICK i \in DOMAIN navigation :
          /\ navigation' = SubSeq(navigation, 1, i)
          /\ selected' = navigation[i] /\ filter' = Nothing
          /\ Send("graph", navigation[i], Nothing) /\ newest' = sent + 1 /\ UNCHANGED applied
    BY <1>5 DEF OpenPath, LoadGraph
  <2>. QED
    BY <1>1, <2>1, PathCut, GraphAsked DEF Send
<1>6. CASE ApplyFilter
  <2>1. PICK property :
          /\ filter' = property /\ Send("graph", selected, property)
          /\ newest' = sent + 1 /\ UNCHANGED <<selected, navigation, applied>> /\ selected # Nothing
    BY <1>6 DEF ApplyFilter, LoadGraph
  <2>2. navigation # <<>>
    BY <2>1 DEF WebInv
  <2>. QED
    BY <1>1, <2>1, <2>2, GraphAsked DEF Send
<1>7. CASE ShowPolicy
  BY <1>7, SendOther DEF ShowPolicy, history
<1>8. ASSUME NEW request \in requests,
             GraphArrives(request) \/ SearchArrives(request) \/ PolicyArrives(request)
      PROVE  WebInv'
  BY <1>8, GraphArrivesStep, SearchArrivesStep, PolicyArrivesStep
<1>. QED
  BY <1>2, <1>3, <1>4, <1>5, <1>6, <1>7, <1>8 DEF WebNext

(* app.js, loadGraph and renderGraph: in whatever order answers come, overtaken ones    *)
(* included, and whichever requests fail, a page that has rendered the answer to its     *)
(* last request shows what its user opened last, and the path ends with the entity that  *)
(* is shown unless an answer is to come or has failed.                                   *)
THEOREM PageAlwaysFollows == ViewersSpec => []PageFollowsUser
<1>1. ViewersInit => WebInv
  <2>1. <<>> \in Seq({})
    OBVIOUS
  <2>. QED
    BY <2>1 DEF ViewersInit, WebInit, WebInv, IsPath, AskedFor, Graphed, Wanted
<1>2. WebInv /\ [ViewersNext]_viewerVars => WebInv'
  <2>. SUFFICES ASSUME WebInv, [ViewersNext]_viewerVars PROVE WebInv'
    OBVIOUS
  <2>1. CASE WebNext
    BY <2>1, WebStep
  <2>2. CASE UNCHANGED webVars
    BY <2>2 DEF WebInv, Wanted, Current, Graphed, AskedFor, webVars, history
  <2>. QED
    BY <2>1, <2>2 DEF ViewersNext, viewerVars
<1>3. WebInv => PageFollowsUser
  <2>1. (\A request \in requests : request.kind # "graph") => AskedFor = {}
    BY DEF AskedFor
  <2>. QED
    BY <2>1 DEF WebInv, PageFollowsUser, Graphed, Current
<1>. QED
  BY <1>1, <1>2, <1>3, PTL DEF ViewersSpec
-----------------------------------------------------------------------------
(* Induction and recursion up to a bound *)

LEMMA LeastIs ==
  ASSUME NEW S, S \subseteq Nat, S # {}
  PROVE  \E m \in S : \A k \in S : m <= k
<1>1. PICK m \in S : \A k \in S : ~ (<<k, m>> \in OpToRel(<, Nat))
  BY NatLessThanWellFounded, WFMin
<1>2. ASSUME NEW k \in S, k < m PROVE <<k, m>> \in OpToRel(<, Nat)
  <2>1. <<k, m>> \in Nat \X Nat /\ <<k, m>>[1] < <<k, m>>[2]
    BY <1>2
  <2>. QED
    BY ONLY <2>1, Zenon DEF OpToRel
<1>3. \A k \in S : ~ (k < m)
  BY <1>1, <1>2
<1>. QED
  BY <1>3

LEMMA UpTo ==
  ASSUME NEW n \in Nat, NEW P, 0 \in P, \A i \in 1 .. n : i - 1 \in P => i \in P
  PROVE  \A i \in 0 .. n : i \in P
<1>. DEFINE Bad == {i \in 0 .. n : i \notin P}
<1>. SUFFICES ASSUME Bad # {} PROVE FALSE
  OBVIOUS
<1>1. PICK m \in Bad : \A k \in Bad : m <= k
  <2>1. Bad \subseteq Nat
    OBVIOUS
  <2>. HIDE DEF Bad
  <2>. QED
    BY <2>1, LeastIs
<1>2. m \in 1 .. n /\ m - 1 \in 0 .. n /\ m - 1 \notin Bad
  BY <1>1
<1>. QED
  BY <1>2

\* A function that is defined step by step from a first value exists.
Steps(n, S) == [1 .. n -> [S -> S]]
Follows(f, n, S, base, step) ==
  f \in [0 .. n -> S] /\ f[0] = base /\ \A i \in 1 .. n : f[i] = step[i][f[i - 1]]

LEMMA StepByStep ==
  ASSUME NEW n \in Nat, NEW S, NEW base \in S, NEW step \in Steps(n, S)
  PROVE  \E f : Follows(f, n, S, base, step)
<1>. DEFINE Goes(g, m) == /\ g \in [0 .. m -> S] /\ g[0] = base
                          /\ \A i \in 1 .. m : g[i] = step[i][g[i - 1]]
            P == {m \in 0 .. n : \E g : Goes(g, m)}
<1>. USE DEF Steps
<1>1. 0 \in P
  <2>. DEFINE g == [i \in 0 .. 0 |-> base]
  <2>1. Goes(g, 0)
    OBVIOUS
  <2>. HIDE DEF Goes, g
  <2>. QED
    BY <2>1
<1>2. ASSUME NEW m \in 1 .. n, m - 1 \in P PROVE m \in P
  <2>1. PICK g : Goes(g, m - 1)
    BY <1>2
  <2>. DEFINE h == [i \in 0 .. m |-> IF i = m THEN step[m][g[m - 1]] ELSE g[i]]
  <2>2. step[m] \in [S -> S] /\ g[m - 1] \in S
    BY <2>1
  <2>3. h \in [0 .. m -> S]
    BY <2>1, <2>2
  <2>4. ASSUME NEW i \in 1 .. m PROVE h[i] = step[i][h[i - 1]]
    <3>1. CASE i = m
      <4>1. h[m] = step[m][g[m - 1]] /\ h[m - 1] = g[m - 1]
        OBVIOUS
      <4>. QED
        BY <3>1, <4>1
    <3>2. CASE i # m
      <4>1. h[i] = g[i] /\ h[i - 1] = g[i - 1] /\ i \in 1 .. m - 1
        BY <3>2
      <4>. QED
        BY <2>1, <4>1
    <3>. QED
      BY <3>1, <3>2
  <2>5. h[0] = base
    BY <2>1
  <2>6. Goes(h, m)
    <3>. HIDE DEF h
    <3>. QED
      BY <2>3, <2>4, <2>5
  <2>. HIDE DEF Goes, h
  <2>. QED
    BY <2>6
<1>3. \A m \in 0 .. n : m \in P
  <2>1. \A m \in 1 .. n : m - 1 \in P => m \in P
    BY <1>2
  <2>. HIDE DEF P
  <2>. QED
    BY <1>1, <2>1, UpTo
<1>4. n \in P
  <2>. HIDE DEF P
  <2>. QED
    BY <1>3
<1>5. PICK g : Goes(g, n)
  BY <1>4
<1>. QED
  BY <1>5 DEF Follows

-----------------------------------------------------------------------------
(* The facts of an item *)

Edge == LocalItems \X Properties

MatchingOf(edges, property, among) ==
  among = [i \in 0 .. Len(edges) |->
             IF i = 0 THEN <<>>
             ELSE IF Passes(edges[i], property) THEN Append(among[i - 1], edges[i])
             ELSE among[i - 1]]

LEMMA MatchingExists ==
  ASSUME NEW item, NEW edges \in Seq(Edge), edges = Edges[item], NEW property
  PROVE  \E among : MatchingOf(edges, property, among) /\ Matching(item, property) = among[Len(edges)]
<1>1. PICK n \in Nat : n = Len(edges)
  OBVIOUS
<1>. DEFINE S == Seq(Edge)
            next(s, i) == IF Passes(edges[i], property) THEN Append(s, edges[i]) ELSE s
<1>2. PICK step : step = [i \in 1 .. n |-> [s \in S |-> next(s, i)]]
  OBVIOUS
<1>3. step \in Steps(n, S)
  <2>1. \A i \in 1 .. n : \A s \in S : next(s, i) \in S
    BY <1>1
  <2>. HIDE DEF next, S
  <2>. QED
    BY <1>2, <2>1 DEF Steps
<1>4. PICK g : Follows(g, n, S, <<>>, step)
  <2>1. <<>> \in S
    OBVIOUS
  <2>. HIDE DEF S
  <2>. QED
    BY <1>3, <2>1, StepByStep
<1>5. g = [i \in 0 .. n |-> IF i = 0 THEN <<>> ELSE next(g[i - 1], i)]
  <2>. HIDE DEF next, S
  <2>1. \A i \in 1 .. n : g[i - 1] \in S
    BY ONLY <1>4, n \in Nat DEF Follows
  <2>2. \A i \in 1 .. n : step[i][g[i - 1]] = next(g[i - 1], i)
    BY <1>2, <2>1
  <2>. QED
    BY <1>4, <2>2 DEF Follows
<1>6. MatchingOf(edges, property, g)
  <2>1. \A i \in 0 .. n :
          (IF i = 0 THEN <<>> ELSE next(g[i - 1], i))
            = IF i = 0 THEN <<>>
              ELSE IF Passes(edges[i], property) THEN Append(g[i - 1], edges[i])
              ELSE g[i - 1]
    OBVIOUS
  <2>. HIDE DEF next
  <2>. QED
    BY <1>1, <1>5, <2>1 DEF MatchingOf
<1>. DEFINE h == CHOOSE among : MatchingOf(edges, property, among)
<1>7. MatchingOf(edges, property, h)
  BY <1>6
<1>8. Matching(item, property) = h[Len(edges)]
  BY DEF Matching, MatchingOf
<1>. QED
  BY <1>7, <1>8

\* What matches is a part of the edges.
LEMMA MatchingIs ==
  ASSUME NEW item \in LocalItems, NEW property
  PROVE  /\ Matching(item, property) \in Seq(Edge)
         /\ Len(Matching(item, property)) <= Len(Edges[item])
<1>1. PICK edges \in Seq(Edge) : edges = Edges[item]
  BY QueryAssumption DEF LocalItems, Edge
<1>2. PICK among : /\ MatchingOf(edges, property, among)
                   /\ Matching(item, property) = among[Len(edges)]
  BY <1>1, MatchingExists
<1>3. PICK n \in Nat : n = Len(edges)
  BY <1>1
<1>. DEFINE Good(i) == among[i] \in Seq(Edge) /\ Len(among[i]) <= i
            P == {i \in 0 .. n : Good(i)}
<1>4. 0 \in P
  <2>1. among[0] = <<>>
    BY <1>2, <1>3 DEF MatchingOf
  <2>2. <<>> \in Seq(Edge) /\ Len(<<>>) = 0
    OBVIOUS
  <2>3. Good(0)
    BY <2>1, <2>2
  <2>. QED
    BY <2>3
<1>5. ASSUME NEW i \in 1 .. n, Good(i - 1) PROVE Good(i)
  <2>1. among[i] = IF Passes(edges[i], property) THEN Append(among[i - 1], edges[i])
                   ELSE among[i - 1]
    <3>1. i \in 0 .. Len(edges) /\ i # 0
      BY <1>3
    <3>. QED
      BY <1>2, <3>1 DEF MatchingOf
  <2>2. edges[i] \in Edge
    BY <1>1, <1>3
  <2>3. PICK old \in Seq(Edge) : old = among[i - 1] /\ Len(old) <= i - 1
    BY <1>5
  <2>4. among[i] = old \/ among[i] = Append(old, edges[i])
    BY <2>1, <2>3
  <2>5. /\ Append(old, edges[i]) \in Seq(Edge)
        /\ Len(Append(old, edges[i])) = Len(old) + 1
    BY <2>2
  <2>6. Len(old) <= i /\ Len(old) + 1 <= i
    BY <2>3
  <2>7. CASE among[i] = old
    BY <2>3, <2>6, <2>7
  <2>8. CASE among[i] = Append(old, edges[i])
    <3>1. PICK new : new = Append(old, edges[i])
      OBVIOUS
    <3>2. new \in Seq(Edge) /\ Len(new) <= i /\ among[i] = new
      BY <2>5, <2>6, <2>8, <3>1
    <3>. QED
      BY <3>2
  <2>. QED
    BY <2>4, <2>7, <2>8
<1>6. \A i \in 0 .. n : i \in P
  <2>1. \A i \in 1 .. n : i - 1 \in P => i \in P
    <3>. HIDE DEF Good
    <3>. QED
      BY <1>5
  <2>. HIDE DEF P
  <2>. QED
    BY <1>4, <2>1, UpTo
<1>7. Good(n)
  <2>1. n \in P
    <3>. HIDE DEF P
    <3>. QED
      BY <1>6
  <2>. QED
    BY <2>1
<1>. QED
  BY <1>1, <1>2, <1>3, <1>7

\* A result is cut only when it is longer than the limit.
LEMMA FactsAre ==
  ASSUME NEW item \in LocalItems, NEW property, NEW limit \in Nat
  PROVE  /\ Facts(item, property, limit) \in Seq(Edge)
         /\ Len(Facts(item, property, limit)) <= Len(Matching(item, property))
         /\ Len(Facts(item, property, limit)) = Len(Matching(item, property))
              => Facts(item, property, limit) = Matching(item, property)
<1>1. PICK all \in Seq(Edge) : all = Matching(item, property)
  BY MatchingIs
<1>2. PICK n \in 0 .. Len(all) : n = IF Len(all) < limit THEN Len(all) ELSE limit
  BY <1>1
<1>3. Facts(item, property, limit) = SubSeq(all, 1, n)
  BY <1>1, <1>2 DEF Facts
<1>4. SubSeq(all, 1, n) \in Seq(Edge) /\ Len(SubSeq(all, 1, n)) = n
  BY <1>2
<1>5. n = Len(all) => SubSeq(all, 1, n) = all
  OBVIOUS
<1>. QED
  BY <1>1, <1>2, <1>3, <1>4, <1>5

-----------------------------------------------------------------------------
(* The server of tools *)

Call ==
  [id : Nat \cup {Nothing}, tool : {"search"}]
    \cup [id : Nat \cup {Nothing}, tool : {"facts"}, item : Items,
          property : Properties \cup {Nothing}, limit : Limits]

\* The messages that have their answer.
Done(ids, call) == IF call = NoWorker THEN Len(ids) ELSE Len(ids) - 1

Complete(what) ==
  what.kind = "facts" /\ ~what.truncated =>
    what.facts = Matching(what.call.item, what.call.property)

McpInv ==
  /\ lines \in 0 .. MaxLines
  /\ asked \in Seq(Nat \cup {Nothing})
  /\ current \in Call \cup {NoWorker}
  /\ current # NoWorker => asked # <<>> /\ asked[Len(asked)] = current.id
  /\ IsPath(answers) /\ Len(answers) = Done(asked, current)
  /\ \A i \in 1 .. Len(answers) : answers[i].id = asked[i] /\ Complete(answers[i].what)

Agree(list, ids) ==
  \A i \in 1 .. Len(list) : list[i].id = ids[i] /\ Complete(list[i].what)

LEMMA AnswerAdded ==
  ASSUME NEW ids \in Seq(Nat \cup {Nothing}), NEW list, IsPath(list),
         Len(ids) = Len(list) + 1, Agree(list, ids), NEW what, Complete(what),
         NEW id, id = ids[Len(ids)]
  PROVE  LET l == Append(list, [id |-> id, what |-> what])
         IN  IsPath(l) /\ Len(l) = Len(ids) /\ Agree(l, ids)
<1>1. PICK S : list \in Seq(S)
  BY DEF IsPath
<1>2. PICK new : new = [id |-> id, what |-> what]
  OBVIOUS
<1>3. list \in Seq(S \cup {new})
  BY <1>1
<1>4. PICK l \in Seq(S \cup {new}) : l = Append(list, new)
  <2>1. Append(list, new) \in Seq(S \cup {new})
    BY <1>3
  <2>. QED
    BY <2>1
<1>5. /\ Len(l) = Len(list) + 1 /\ l[Len(list) + 1] = new
      /\ \A i \in 1 .. Len(list) : l[i] = list[i]
  BY <1>3, <1>4
<1>6. \A i \in 1 .. Len(l) : i \in 1 .. Len(list) \/ i = Len(list) + 1
  BY <1>3, <1>5
<1>7. new.id = ids[Len(list) + 1] /\ new.what = what
  BY <1>2
<1>8. Agree(l, ids)
  <2>. SUFFICES ASSUME NEW i \in 1 .. Len(l)
                PROVE  l[i].id = ids[i] /\ Complete(l[i].what)
    BY DEF Agree
  <2>1. CASE i \in 1 .. Len(list)
    BY <1>5, <2>1 DEF Agree
  <2>2. CASE i = Len(list) + 1
    BY <1>5, <1>7, <2>2
  <2>. QED
    BY <1>6, <2>1, <2>2
<1>. QED
  BY <1>2, <1>4, <1>5, <1>8 DEF IsPath

LEMMA OtherKinds ==
  ASSUME NEW kind, kind # "facts"
  PROVE  /\ Complete([kind |-> kind])
         /\ \A code : Complete([kind |-> kind, code |-> code])
BY DEF Complete

\* What a worker says of an item it found.
LEMMA FactsComplete ==
  ASSUME NEW call \in Call, call.tool = "facts", Findable(call)
  PROVE  Complete(FactsAnswer(call))
<1>1. /\ call.item \in Items /\ call.limit \in Nat
      /\ call.item \in LocalItems \cup LocalProperties
  BY McpAssumption DEF Call, Findable, IsLocal
<1>2. LocalProperties \subseteq Properties
  <2>1. \A item \in LocalItems : \A i \in DOMAIN Edges[item] : Edges[item][i][2] \in Properties
    BY QueryAssumption DEF LocalItems
  <2>. QED
    BY <2>1 DEF LocalProperties
<1>3. call.item \in LocalItems
  BY <1>1, <1>2, QueryAssumption
<1>4. PICK facts : facts = Facts(call.item, call.property, call.limit)
  OBVIOUS
<1>5. PICK all : all = Matching(call.item, call.property)
  OBVIOUS
<1>6. /\ facts \in Seq(Edge) /\ Len(facts) <= Len(all)
      /\ Len(facts) = Len(all) => facts = all
  BY <1>1, <1>3, <1>4, <1>5, FactsAre
<1>7. all \in Seq(Edge) /\ Len(all) <= Len(Edges[call.item])
  BY <1>3, <1>5, MatchingIs
<1>8. Len(Edges[call.item]) \in Nat
  BY <1>3, QueryAssumption DEF LocalItems
<1>9. ~Truncated(call.item, facts, call.limit) => facts = all
  BY <1>6, <1>7, <1>8 DEF Truncated
<1>10. FactsAnswer(call) = [kind |-> "facts", call |-> call, facts |-> facts,
                            truncated |-> Truncated(call.item, facts, call.limit)]
  BY <1>4 DEF FactsAnswer
<1>. QED
  BY <1>5, <1>9, <1>10 DEF Complete

LEMMA CallIs ==
  ASSUME NEW call \in Call
  PROVE  call # NoWorker /\ call.tool \in {"facts", "search"} /\ call.id \in Nat \cup {Nothing}
<1>1. "tool" \in DOMAIN call
  BY DEF Call
<1>2. DOMAIN NoWorker = {}
  BY DEF NoWorker
<1>. QED
  BY <1>1, <1>2 DEF Call

\* A message that is answered at once.
LEMMA AnsweredAtOnce ==
  ASSUME McpInv, Read, NEW id \in Nat \cup {Nothing}, asked' = Append(asked, id),
         NEW what, Complete(what), Reply(id, what), UNCHANGED current
  PROVE  McpInv'
<1>1. /\ current = NoWorker /\ lines \in Nat /\ lines < MaxLines /\ lines' = lines + 1
      /\ answers' = Append(answers, [id |-> id, what |-> what])
  BY DEF Read, Reply, McpInv
<1>2. lines' \in 0 .. MaxLines
  BY <1>1, McpAssumption
<1>3. PICK ids \in Seq(Nat \cup {Nothing}) : ids = asked'
  BY SMTT(60) DEF McpInv
<1>4. asked \in Seq(Nat \cup {Nothing}) /\ Len(answers) = Len(asked)
  BY <1>1 DEF McpInv, Done
<1>5. /\ Len(ids) = Len(asked) + 1 /\ id = ids[Len(ids)]
      /\ \A i \in 1 .. Len(asked) : ids[i] = asked[i]
  BY <1>3, <1>4
<1>6. Agree(answers, ids) /\ IsPath(answers)
  BY <1>4, <1>5 DEF Agree, McpInv
<1>7. IsPath(answers') /\ Len(answers') = Len(ids) /\ Agree(answers', ids)
  BY <1>1, <1>4, <1>5, <1>6, AnswerAdded, SMTT(60)
<1>. QED
  BY <1>1, <1>2, <1>3, <1>7 DEF McpInv, Done, Agree

\* A call whose worker starts.
LEMMA CallStarts ==
  ASSUME McpInv, NEW id \in Nat \cup {Nothing}, ReadRequest(id), current' \in Call, current'.id = id,
         UNCHANGED answers
  PROVE  McpInv'
<1>1. /\ current = NoWorker /\ lines \in Nat /\ lines < MaxLines /\ lines' = lines + 1
      /\ asked' = Append(asked, id)
  BY DEF ReadRequest, Read, McpInv
<1>2. lines' \in 0 .. MaxLines
  BY <1>1, McpAssumption
<1>3. PICK ids \in Seq(Nat \cup {Nothing}) : ids = asked'
  BY <1>1, SMTT(60) DEF McpInv
<1>4. asked \in Seq(Nat \cup {Nothing}) /\ Len(answers) = Len(asked)
  BY <1>1 DEF McpInv, Done
<1>5. /\ Len(ids) = Len(asked) + 1 /\ id = ids[Len(ids)] /\ ids # <<>>
      /\ \A i \in 1 .. Len(asked) : ids[i] = asked[i]
  BY <1>1, <1>3, <1>4
<1>6. Len(answers') = Done(ids, current')
  BY <1>4, <1>5, CallIs DEF Done
<1>7. Agree(answers', ids) /\ IsPath(answers')
  BY <1>4, <1>5 DEF Agree, McpInv
<1>. QED
  BY <1>2, <1>3, <1>5, <1>6, <1>7 DEF McpInv, Agree

LEMMA WorkerEndsStep ==
  ASSUME McpInv, WorkerEnds
  PROVE  McpInv'
<1>1. PICK call \in Call : call = current
  BY DEF McpInv, WorkerEnds
<1>2. PICK outcome \in Outcomes :
        /\ outcome = "json" => Findable(call)
        /\ Reply(call.id,
               CASE outcome = "json" /\ call.tool = "facts" -> FactsAnswer(call)
                 [] outcome = "json" /\ call.tool = "search" -> [kind |-> "run"]
                 [] OTHER -> [kind |-> "tool error"])
  BY <1>1 DEF WorkerEnds
<1>3. PICK what :
        what = CASE outcome = "json" /\ call.tool = "facts" -> FactsAnswer(call)
                 [] outcome = "json" /\ call.tool = "search" -> [kind |-> "run"]
                 [] OTHER -> [kind |-> "tool error"]
  OBVIOUS
<1>4. Complete(what)
  <2>1. \/ outcome = "json" /\ call.tool = "facts" /\ what = FactsAnswer(call)
        \/ what = [kind |-> "run"]
        \/ what = [kind |-> "tool error"]
    BY <1>1, <1>3, CallIs
  <2>. QED
    BY <1>1, <1>2, <2>1, FactsComplete, OtherKinds
<1>5. /\ answers' = Append(answers, [id |-> call.id, what |-> what])
      /\ current' = NoWorker /\ lines' = lines /\ asked' = asked
  BY <1>2, <1>3 DEF WorkerEnds, Reply
<1>6. /\ asked \in Seq(Nat \cup {Nothing}) /\ asked # <<>> /\ call.id = asked[Len(asked)]
      /\ Len(answers) = Len(asked) - 1 /\ IsPath(answers) /\ Agree(answers, asked)
      /\ lines \in 0 .. MaxLines
  BY <1>1, CallIs DEF McpInv, Done, Agree
<1>7. Len(asked) = Len(answers) + 1
  BY <1>6
<1>8. IsPath(answers') /\ Len(answers') = Len(asked) /\ Agree(answers', asked)
  BY <1>4, <1>5, <1>6, <1>7, AnswerAdded
<1>. QED
  BY <1>5, <1>6, <1>8 DEF McpInv, Done, Agree

LEMMA McpStep ==
  ASSUME McpInv, McpNext
  PROVE  McpInv'
<1>1. lines \in Nat /\ Ids \subseteq Nat \cup {Nothing}
  BY DEF McpInv, Ids
<1>2. ASSUME NEW id \in Nat \cup {Nothing}, Respond(id) PROVE McpInv'
  <2>1. PICK what : Reply(id, what) /\ Complete(what)
    <3>1. ASSUME NEW kind \in Protocol, Reply(id, [kind |-> kind])
          PROVE  \E what : Reply(id, what) /\ Complete(what)
      BY <3>1, OtherKinds DEF Protocol
    <3>2. ASSUME NEW code, Reply(id, [kind |-> "error", code |-> code])
          PROVE  \E what : Reply(id, what) /\ Complete(what)
      BY <3>2, OtherKinds
    <3>. QED
      BY <1>2, <3>1, <3>2 DEF Respond
  <2>2. Read /\ asked' = Append(asked, id) /\ UNCHANGED current
    BY <1>2 DEF Respond, ReadRequest
  <2>. QED
    BY <2>1, <2>2, AnsweredAtOnce
<1>3. CASE Garbage
  <2>1. PICK code : Reply(Nothing, [kind |-> "error", code |-> code])
    BY <1>3 DEF Garbage
  <2>2. Complete([kind |-> "error", code |-> code])
    BY OtherKinds
  <2>3. Read /\ asked' = Append(asked, Nothing) /\ UNCHANGED current
    BY <1>3 DEF Garbage, ReadRequest
  <2>. QED
    BY <2>1, <2>2, <2>3, AnsweredAtOnce
<1>4. CASE Notified
  <2>1. lines' \in 0 .. MaxLines /\ current = NoWorker
    BY <1>1, <1>4, McpAssumption DEF Notified, Read
  <2>. QED
    BY <1>4, <2>1 DEF McpInv, Notified
<1>5. ASSUME NEW id \in Nat \cup {Nothing}, CallFacts(id) PROVE McpInv'
  <2>1. current' \in Call /\ current'.id = id
    BY <1>5 DEF CallFacts, Call
  <2>. QED
    BY <1>5, <2>1, CallStarts DEF CallFacts
<1>6. ASSUME NEW id \in Nat \cup {Nothing}, CallSearch(id) PROVE McpInv'
  <2>1. current' \in Call /\ current'.id = id
    BY <1>6 DEF CallSearch, Call
  <2>. QED
    BY <1>6, <2>1, CallStarts DEF CallSearch
<1>7. CASE WorkerEnds
  BY <1>7, WorkerEndsStep
<1>. QED
  BY <1>1, <1>2, <1>3, <1>4, <1>5, <1>6, <1>7 DEF McpNext

LEMMA McpAlways == ViewersSpec => []McpInv
<1>1. ViewersInit => McpInv
  <2>1. /\ <<>> \in Seq(Nat \cup {Nothing}) /\ Len(<<>>) = 0
        /\ IsPath(<<>>) /\ 0 \in 0 .. MaxLines /\ \A i \in 1 .. 0 : FALSE
    <3>1. <<>> \in Seq({})
      OBVIOUS
    <3>. QED
      BY <3>1, McpAssumption DEF IsPath
  <2>. QED
    BY <2>1 DEF ViewersInit, McpInit, McpInv, Done
<1>2. McpInv /\ [ViewersNext]_viewerVars => McpInv'
  <2>. SUFFICES ASSUME McpInv, [ViewersNext]_viewerVars PROVE McpInv'
    OBVIOUS
  <2>1. CASE McpNext
    BY <2>1, McpStep
  <2>2. CASE UNCHANGED mcpVars
    BY <2>2 DEF McpInv, mcpVars
  <2>. QED
    BY <2>1, <2>2 DEF ViewersNext, viewerVars
<1>. QED
  BY <1>1, <1>2, PTL DEF ViewersSpec

(* mcp_server.py, main: every message that wants an answer has one, its own, in order; *)
(* mcp_graph_query.py: facts that are not called truncated are all that match.          *)
THEOREM McpAlwaysAccounts == ViewersSpec => []McpAccounts
<1>1. McpInv => McpAccounts
  <2>. SUFFICES ASSUME McpInv PROVE McpAccounts
    OBVIOUS
  <2>1. PICK S : answers \in Seq(S)
    BY DEF McpInv, IsPath
  <2>2. asked \in Seq(Nat \cup {Nothing}) /\ Len(answers) = Done(asked, current)
    BY DEF McpInv
  <2>3. PICK n \in 0 .. Len(asked) : n = Done(asked, current) /\ n = Len(answers)
    BY <2>1, <2>2 DEF Done
  <2>4. DOMAIN answers = 1 .. n
    BY <2>1, <2>3
  <2>5. SubSeq(asked, 1, n) = [i \in 1 .. n |-> asked[i]]
    BY <2>2, <2>3
  <2>6. [i \in 1 .. n |-> answers[i].id] = [i \in 1 .. n |-> asked[i]]
    BY <2>3 DEF McpInv
  <2>7. [i \in DOMAIN answers |-> answers[i].id] = SubSeq(asked, 1, Done(asked, current))
    BY <2>3, <2>4, <2>5, <2>6
  <2>8. \A i \in DOMAIN answers : Complete(answers[i].what)
    BY <2>3, <2>4 DEF McpInv
  <2>. QED
    BY <2>7, <2>8 DEF McpAccounts, Done, Complete
<1>. QED
  BY <1>1, McpAlways, PTL

-----------------------------------------------------------------------------
(* Types *)

\* An item that is in the local graph by its identifier is one of its nodes.
LEMMA LocalItem ==
  ASSUME NEW id \in Items, IsLocal(id)
  PROVE  id \in LocalItems
<1>1. LocalProperties \subseteq Properties
  <2>1. \A item \in LocalItems : \A i \in DOMAIN Edges[item] : Edges[item][i][2] \in Properties
    BY QueryAssumption DEF LocalItems
  <2>. QED
    BY <2>1 DEF LocalProperties
<1>. QED
  BY <1>1, QueryAssumption DEF IsLocal

Candidates == BoundedSeq(Items, MaxFound) \cup {<<i>> : i \in Items}

LEMMA CandidatesAre ==
  ASSUME NEW term \in Items \cup {Word}, NEW found \in Resolutions(term, Items), found # Nothing
  PROVE  /\ found \in Candidates /\ DOMAIN found \subseteq Nat
         /\ \A i \in DOMAIN found : found[i] \in Items
<1>1. CASE found = <<term>> /\ term # Word
  BY <1>1 DEF Candidates
<1>2. CASE found \in BoundedSeq(Items, MaxFound)
  BY <1>2, QueryAssumption DEF BoundedSeq, SeqOf, Candidates
<1>. QED
  BY <1>1, <1>2 DEF Resolutions

Searched(w) ==
  \E candidates, selection, relation, neighbors :
    /\ w = [candidates |-> candidates, selected |-> selection, relation |-> relation,
            neighbors |-> neighbors]
    /\ candidates \in Candidates /\ selection \in DOMAIN candidates \cup {Nothing}

ConsoleTypes ==
  task \in 0 .. Tasks - 1 /\ open \in BOOLEAN /\ (word = Nothing \/ Searched(word))

LEMMA SearchedExpanded ==
  ASSUME NEW w, Searched(w)
  PROVE  Searched(Expanded(w))
<1>1. PICK c, s, r, n :
        /\ w = [candidates |-> c, selected |-> s, relation |-> r, neighbors |-> n]
        /\ c \in Candidates /\ s \in DOMAIN c \cup {Nothing}
  BY DEF Searched
<1>2. Expanded(w) = [candidates |-> c, selected |-> s, relation |-> r,
                     neighbors |-> Facts(c[s], r, ConsoleLimit)]
  BY <1>1 DEF Expanded
<1>. QED
  BY <1>1, <1>2 DEF Searched

LEMMA ConsoleTypesStep ==
  ASSUME ConsoleTypes, ConsoleNext
  PROVE  ConsoleTypes'
<1>1. ASSUME NEW term \in Items \cup {Word}, Find(term) PROVE ConsoleTypes'
  <2>1. PICK found \in Resolutions(term, Items) :
          /\ found # Nothing
          /\ word' = LET fresh == [candidates |-> found, selected |-> FirstLocal(found),
                                   relation |-> Nothing, neighbors |-> Nothing]
                     IN  IF fresh.selected = Nothing THEN fresh ELSE Expanded(fresh)
    BY <1>1 DEF Find
  <2>2. PICK fresh : fresh = [candidates |-> found, selected |-> FirstLocal(found),
                              relation |-> Nothing, neighbors |-> Nothing]
    OBVIOUS
  <2>3. word' = fresh \/ word' = Expanded(fresh)
    BY <2>1, <2>2
  <2>4. found \in Candidates /\ DOMAIN found \subseteq Nat
    BY <2>1, CandidatesAre
  <2>5. FirstLocal(found) \in DOMAIN found \cup {Nothing}
    BY <2>4, FirstLocalIn
  <2>6. Searched(fresh)
    BY <2>2, <2>4, <2>5 DEF Searched
  <2>7. Searched(word')
    BY <2>3, <2>6, SearchedExpanded
  <2>. QED
    BY <1>1, <2>7 DEF Find, ConsoleTypes
<1>2. ASSUME NEW index \in 1 .. MaxFound, Use(index) PROVE ConsoleTypes'
  <2>1. PICK c, s, r, n :
          /\ word = [candidates |-> c, selected |-> s, relation |-> r, neighbors |-> n]
          /\ c \in Candidates
    BY <1>2 DEF Use, ConsoleTypes, Searched
  <2>2. PICK w : w = [word EXCEPT !.selected = index]
    OBVIOUS
  <2>3. /\ w = [candidates |-> c, selected |-> index, relation |-> r, neighbors |-> n]
        /\ index \in DOMAIN c
    BY <1>2, <2>1, <2>2 DEF Use
  <2>4. Searched(w)
    BY <2>1, <2>3 DEF Searched
  <2>5. word' = Expanded(w)
    BY <1>2, <2>2 DEF Use
  <2>6. Searched(word')
    BY <2>4, <2>5, SearchedExpanded
  <2>. QED
    BY <1>2, <2>6 DEF Use, ConsoleTypes
<1>3. ASSUME NEW term \in Properties \cup {Word}, Relation(term) PROVE ConsoleTypes'
  <2>1. PICK c, s, r, n :
          /\ word = [candidates |-> c, selected |-> s, relation |-> r, neighbors |-> n]
          /\ c \in Candidates /\ s \in DOMAIN c \cup {Nothing}
    BY <1>3 DEF Relation, ConsoleTypes, Searched
  <2>2. PICK property, w : w = [word EXCEPT !.relation = property] /\ word' = Expanded(w)
    BY <1>3 DEF Relation
  <2>3. w = [candidates |-> c, selected |-> s, relation |-> property, neighbors |-> n]
    BY <2>1, <2>2
  <2>4. Searched(w)
    BY <2>1, <2>3 DEF Searched
  <2>5. Searched(word')
    BY <2>2, <2>4, SearchedExpanded
  <2>. QED
    BY <1>3, <2>5 DEF Relation, ConsoleTypes
<1>4. CASE Clear
  BY <1>4 DEF Clear, ConsoleTypes
<1>5. CASE Run
  BY <1>5 DEF Run, Execute, ConsoleTypes
<1>6. CASE NextTask
  <2>1. (task + 1) % Tasks \in 0 .. Tasks - 1
    BY ConsoleAssumption DEF ConsoleTypes
  <2>. QED
    BY <1>6, <2>1 DEF NextTask, ConsoleTypes
<1>7. CASE Quit
  BY <1>7 DEF Quit, ConsoleTypes
<1>. QED
  BY <1>1, <1>2, <1>3, <1>4, <1>5, <1>6, <1>7 DEF ConsoleNext

\* What a request asks for.
Sound(r) ==
  /\ r.kind = "graph" => r.entity \in LocalItems
  /\ r.kind = "search" => r.entity \in Items \cup {Word}

Drawn(d) == d # Nothing /\ d.kind = "graph" => d.facts \in Seq(Edge)

Path(p) == p \in Seq(LocalItems) /\ Len(p) <= MaxDepth

WebTypes ==
  /\ selected \in LocalItems \cup {Nothing}
  /\ Path(navigation)
  /\ filter \in Properties \cup {Word, Nothing}
  /\ sent \in 0 .. MaxRequests
  /\ IsFiniteSet(requests) /\ Cardinality(requests) <= sent
  /\ \A r \in requests : Sound(r)
  /\ \A i \in DOMAIN row : row[i] \in Items
  /\ Drawn(display)

\* A request is sent, in the place of one that was answered or beside the others.
LEMMA RequestSent ==
  ASSUME WebTypes, NEW left, left \subseteq requests, NEW new, Sound(new),
         requests' = left \cup {new}, sent < MaxRequests, sent' = sent + 1
  PROVE  /\ sent' \in 0 .. MaxRequests
         /\ IsFiniteSet(requests') /\ Cardinality(requests') <= sent'
         /\ \A r \in requests' : Sound(r)
<1>1. IsFiniteSet(left) /\ Cardinality(left) <= Cardinality(requests)
  BY FS_Subset DEF WebTypes
<1>2. Cardinality(left) \in Nat /\ Cardinality(requests) \in Nat
  BY <1>1, FS_CardinalityType DEF WebTypes
<1>3. /\ IsFiniteSet(left \cup {new})
      /\ Cardinality(left \cup {new}) = IF new \in left THEN Cardinality(left)
                                        ELSE Cardinality(left) + 1
  BY <1>1, FS_AddElement
<1>4. sent \in Nat /\ sent' \in 0 .. MaxRequests /\ Cardinality(requests) <= sent
  BY WebAssumption DEF WebTypes
<1>5. Cardinality(left \cup {new}) <= sent + 1
  BY <1>1, <1>2, <1>3, <1>4
<1>. QED
  BY <1>3, <1>4, <1>5 DEF WebTypes

LEMMA RequestAnswered ==
  ASSUME WebTypes, NEW request, Answered(request)
  PROVE  /\ IsFiniteSet(requests') /\ Cardinality(requests') <= sent
         /\ \A r \in requests' : Sound(r)
<1>1. requests' \subseteq requests
  BY DEF Answered
<1>2. IsFiniteSet(requests') /\ Cardinality(requests') <= Cardinality(requests)
  BY <1>1, FS_Subset DEF WebTypes
<1>3. /\ Cardinality(requests') \in Nat /\ Cardinality(requests) \in Nat
      /\ sent \in Nat /\ Cardinality(requests) <= sent
  BY <1>2, FS_CardinalityType DEF WebTypes
<1>. QED
  BY <1>1, <1>2, <1>3 DEF WebTypes

\* A node is opened, or the open one is asked for under a filter.
LEMMA GraphAskedTypes ==
  ASSUME WebTypes, NEW left, left \subseteq requests, NEW entity \in LocalItems, NEW property,
         requests' = left \cup {Ask("graph", entity, property)},
         sent < MaxRequests, sent' = sent + 1, selected' = entity, Path(navigation'),
         filter' \in Properties \cup {Word, Nothing},
         \A i \in DOMAIN row' : row'[i] \in Items,
         display' = IF display # Nothing /\ display.kind = "policy" THEN Nothing ELSE display
  PROVE  WebTypes'
<1>1. PICK new : new = Ask("graph", entity, property)
  OBVIOUS
<1>2. Sound(new) /\ requests' = left \cup {new}
  BY <1>1 DEF Ask, Sound
<1>3. /\ sent' \in 0 .. MaxRequests /\ IsFiniteSet(requests')
      /\ Cardinality(requests') <= sent' /\ \A r \in requests' : Sound(r)
  BY <1>2, RequestSent
<1>4. Drawn(display')
  BY DEF WebTypes, Drawn
<1>. QED
  BY <1>3, <1>4 DEF WebTypes

LEMMA SendTypes ==
  ASSUME WebTypes, NEW kind \in {"search", "policy"}, NEW term,
         kind = "search" => term \in Items \cup {Word}, Send(kind, term, Nothing),
         UNCHANGED <<selected, navigation, filter, row, display>>
  PROVE  WebTypes'
<1>1. PICK new : new = Ask(kind, term, Nothing)
  OBVIOUS
<1>2. Sound(new) /\ requests' = requests \cup {new} /\ sent < MaxRequests /\ sent' = sent + 1
  BY <1>1 DEF Ask, Sound, Send
<1>3. /\ sent' \in 0 .. MaxRequests /\ IsFiniteSet(requests')
      /\ Cardinality(requests') <= sent' /\ \A r \in requests' : Sound(r)
  BY <1>2, RequestSent
<1>. QED
  BY <1>3 DEF WebTypes

LEMMA NavigateTypes ==
  ASSUME WebTypes, NEW path, Path(path), NEW entity \in LocalItems, NavigateTo(path, entity),
         UNCHANGED row
  PROVE  WebTypes'
<1>1. Path(Append(path, entity))
  <2>1. /\ path \in Seq(LocalItems) /\ Len(path) < MaxDepth /\ MaxDepth \in Nat
        /\ Len(path) \in Nat
    BY WebAssumption DEF Path, NavigateTo
  <2>2. /\ Append(path, entity) \in Seq(LocalItems)
        /\ Len(Append(path, entity)) = Len(path) + 1
    BY <2>1
  <2>3. Len(path) + 1 <= MaxDepth
    BY <2>1
  <2>. QED
    BY <2>2, <2>3 DEF Path
<1>2. /\ requests' = requests \cup {Ask("graph", entity, Nothing)}
      /\ sent < MaxRequests /\ sent' = sent + 1 /\ selected' = entity /\ Path(navigation')
      /\ filter' = Nothing
      /\ display' = IF display # Nothing /\ display.kind = "policy" THEN Nothing ELSE display
      /\ \A i \in DOMAIN row' : row'[i] \in Items
  BY <1>1 DEF NavigateTo, LoadGraph, Send, WebTypes
<1>. QED
  BY <1>2, GraphAskedTypes

LEMMA AnswerDrawn ==
  ASSUME NEW request, request.entity \in LocalItems, NEW answer \in GraphAnswers(request),
         answer # Nothing
  PROVE  answer.root = request.entity /\ Drawn(answer)
<1>1. PICK property : answer = [kind |-> "graph", root |-> request.entity, relation |-> property,
                                facts |-> Facts(request.entity, property, WebLimit)]
  BY DEF GraphAnswers
<1>2. Facts(request.entity, property, WebLimit) \in Seq(Edge)
  BY FactsAre, WebAssumption
<1>. QED
  BY <1>1, <1>2 DEF Drawn

LEMMA GraphArrivesTypes ==
  ASSUME WebTypes, NEW request \in requests, GraphArrives(request)
  PROVE  WebTypes'
<1>1. /\ request.entity \in LocalItems /\ Answered(request)
      /\ UNCHANGED <<selected, filter, row, sent>>
  BY DEF WebTypes, Sound, GraphArrives
<1>2. \/ UNCHANGED <<display, navigation>>
      \/ \E answer \in GraphAnswers(request) :
           /\ answer # Nothing /\ display' = answer
           /\ navigation' = IF navigation = <<>> THEN navigation
                            ELSE [navigation EXCEPT ![Len(navigation)] = answer.root]
  BY DEF GraphArrives
<1>3. /\ IsFiniteSet(requests') /\ Cardinality(requests') <= sent
      /\ \A r \in requests' : Sound(r)
  BY <1>1, RequestAnswered
<1>4. Path(navigation') /\ Drawn(display')
  <2>1. CASE UNCHANGED <<display, navigation>>
    BY <2>1 DEF WebTypes
  <2>2. ASSUME NEW answer \in GraphAnswers(request), answer # Nothing, display' = answer,
               navigation' = IF navigation = <<>> THEN navigation
                             ELSE [navigation EXCEPT ![Len(navigation)] = answer.root]
        PROVE  Path(navigation') /\ Drawn(display')
    <3>1. answer.root \in LocalItems /\ Drawn(answer)
      BY <1>1, <2>2, AnswerDrawn
    <3>2. PICK root \in LocalItems : root = answer.root
      BY <3>1
    <3>3. navigation \in Seq(LocalItems) /\ Len(navigation) <= MaxDepth
      BY DEF WebTypes, Path
    <3>4. CASE navigation = <<>>
      BY <2>2, <3>1, <3>3, <3>4 DEF Path
    <3>5. CASE navigation # <<>>
      <4>1. navigation' = [navigation EXCEPT ![Len(navigation)] = root]
        BY <2>2, <3>2, <3>5
      <4>2. navigation' \in Seq(LocalItems) /\ Len(navigation') = Len(navigation)
        <5>1. Len(navigation) \in DOMAIN navigation
          BY <3>3, <3>5
        <5>. QED
          BY <3>3, <4>1, <5>1
      <4>. QED
        BY <2>2, <3>1, <3>3, <4>2 DEF Path
    <3>. QED
      BY <3>4, <3>5
  <2>. QED
    BY <1>2, <2>1, <2>2
<1>. QED
  BY <1>1, <1>3, <1>4 DEF WebTypes

LEMMA SearchArrivesTypes ==
  ASSUME WebTypes, NEW request \in requests, SearchArrives(request)
  PROVE  WebTypes'
<1>1. request.entity \in Items \cup {Word}
  BY DEF WebTypes, Sound, SearchArrives
<1>2. PICK found \in Resolutions(request.entity, Items) :
       IF found # Nothing /\ FirstLocal(found) # Nothing
       THEN LET first == found[FirstLocal(found)] IN
            /\ row' = found /\ sent < MaxRequests /\ sent' = sent + 1
            /\ requests' = (requests \ {request}) \cup {Ask("graph", first, Nothing)}
            /\ navigation' = <<first>> /\ selected' = first /\ filter' = Nothing
            /\ display' = IF display # Nothing /\ display.kind = "policy" THEN Nothing
                          ELSE display
       ELSE /\ row' = IF found = Nothing THEN row ELSE found
            /\ Answered(request)
            /\ UNCHANGED <<sent, navigation, selected, filter, display>>
  BY DEF SearchArrives
<1>3. found # Nothing =>
        DOMAIN found \subseteq Nat /\ \A i \in DOMAIN found : found[i] \in Items
  BY <1>1, CandidatesAre
<1>4. \A i \in DOMAIN row' : row'[i] \in Items
  BY <1>2, <1>3 DEF WebTypes
<1>5. CASE found # Nothing /\ FirstLocal(found) # Nothing
  <2>1. PICK first : first = found[FirstLocal(found)]
    OBVIOUS
  <2>2. first \in LocalItems
    <3>1. first \in Items /\ IsLocal(first)
      BY <1>3, <1>5, <2>1, FirstLocalIn
    <3>. QED
      BY <3>1, LocalItem
  <2>3. /\ sent < MaxRequests /\ sent' = sent + 1
        /\ requests' = (requests \ {request}) \cup {Ask("graph", first, Nothing)}
        /\ navigation' = <<first>> /\ selected' = first /\ filter' = Nothing
        /\ display' = IF display # Nothing /\ display.kind = "policy" THEN Nothing ELSE display
    BY <1>2, <1>5, <2>1
  <2>4. Path(<<first>>)
    BY <2>2, WebAssumption DEF Path
  <2>5. requests \ {request} \subseteq requests /\ Path(navigation')
    BY <2>3, <2>4
  <2>. QED
    BY <1>4, <2>2, <2>3, <2>5, GraphAskedTypes
<1>6. CASE ~ (found # Nothing /\ FirstLocal(found) # Nothing)
  <2>1. Answered(request) /\ UNCHANGED <<sent, navigation, selected, filter, display>>
    BY <1>2, <1>6
  <2>2. /\ IsFiniteSet(requests') /\ Cardinality(requests') <= sent
        /\ \A r \in requests' : Sound(r)
    BY <2>1, RequestAnswered
  <2>. QED
    BY <1>4, <2>1, <2>2 DEF WebTypes
<1>. QED
  BY <1>5, <1>6

LEMMA PolicyArrivesTypes ==
  ASSUME WebTypes, NEW request \in requests, PolicyArrives(request)
  PROVE  WebTypes'
<1>1. Answered(request) /\ UNCHANGED <<selected, navigation, filter, row, sent>>
  BY DEF PolicyArrives
<1>2. /\ IsFiniteSet(requests') /\ Cardinality(requests') <= sent
      /\ \A r \in requests' : Sound(r)
  BY <1>1, RequestAnswered
<1>3. Drawn(display')
  <2>1. \A episode : [kind |-> "policy", run |-> episode].kind # "graph"
    OBVIOUS
  <2>2. Drawn(display)
    BY DEF WebTypes
  <2>. QED
    BY <2>1, <2>2 DEF PolicyArrives, Drawn
<1>. QED
  BY <1>1, <1>2, <1>3 DEF WebTypes

LEMMA WebTypesStep ==
  ASSUME WebTypes, WebNext
  PROVE  WebTypes'
<1>1. Path(<<>>) /\ Path(navigation)
  BY WebAssumption DEF Path, WebTypes
<1>2. ASSUME NEW term \in Items \cup {Word}, ClickSearch(term) PROVE WebTypes'
  BY <1>2, SendTypes DEF ClickSearch
<1>3. CASE ClickCandidate
  <2>1. PICK i \in DOMAIN row : IsLocal(row[i]) /\ NavigateTo(<<>>, row[i]) /\ UNCHANGED row
    BY <1>3 DEF ClickCandidate
  <2>2. row[i] \in LocalItems
    BY <2>1, LocalItem DEF WebTypes
  <2>. QED
    BY <1>1, <2>1, <2>2, NavigateTypes
<1>4. CASE OpenNode
  <2>1. PICK i \in DOMAIN display.facts :
          NavigateTo(navigation, display.facts[i][1]) /\ UNCHANGED row
    BY <1>4 DEF OpenNode
  <2>2. display.facts \in Seq(Edge)
    BY <1>4 DEF OpenNode, WebTypes, Drawn
  <2>3. display.facts[i][1] \in LocalItems
    BY <2>2 DEF Edge
  <2>. QED
    BY <1>1, <2>1, <2>3, NavigateTypes
<1>5. CASE OpenPath
  <2>1. PICK i \in DOMAIN navigation :
          /\ navigation' = SubSeq(navigation, 1, i)
          /\ selected' = navigation[i] /\ filter' = Nothing
          /\ LoadGraph(navigation[i], Nothing) /\ UNCHANGED row
    BY <1>5 DEF OpenPath
  <2>2. navigation \in Seq(LocalItems) /\ Len(navigation) <= MaxDepth
    BY DEF WebTypes, Path
  <2>3. PICK entity \in LocalItems : entity = navigation[i]
    BY <2>2
  <2>4. Path(navigation')
    <3>1. SubSeq(navigation, 1, i) \in Seq(LocalItems) /\ Len(SubSeq(navigation, 1, i)) = i
      BY <2>2
    <3>2. i \in 1 .. Len(navigation) /\ Len(navigation) \in Nat /\ MaxDepth \in Nat
      BY <2>2, WebAssumption
    <3>3. i <= MaxDepth
      BY <2>2, <3>2
    <3>. QED
      BY <2>1, <3>1, <3>3 DEF Path
  <2>5. /\ requests' = requests \cup {Ask("graph", entity, Nothing)}
        /\ sent < MaxRequests /\ sent' = sent + 1 /\ selected' = entity /\ filter' = Nothing
        /\ display' = IF display # Nothing /\ display.kind = "policy" THEN Nothing ELSE display
        /\ \A j \in DOMAIN row' : row'[j] \in Items
    BY <2>1, <2>3 DEF LoadGraph, Send, WebTypes
  <2>. QED
    BY <2>4, <2>5, GraphAskedTypes
<1>6. CASE ApplyFilter
  <2>1. PICK property \in Properties \cup {Word, Nothing} :
          /\ filter' = property /\ LoadGraph(selected, property)
          /\ selected # Nothing /\ UNCHANGED <<selected, navigation, row>>
    BY <1>6 DEF ApplyFilter
  <2>2. PICK entity \in LocalItems : entity = selected
    BY <2>1 DEF WebTypes
  <2>3. /\ requests' = requests \cup {Ask("graph", entity, property)}
        /\ sent < MaxRequests /\ sent' = sent + 1 /\ selected' = entity
        /\ filter' \in Properties \cup {Word, Nothing} /\ Path(navigation')
        /\ display' = IF display # Nothing /\ display.kind = "policy" THEN Nothing ELSE display
        /\ \A j \in DOMAIN row' : row'[j] \in Items
    BY <2>1, <2>2 DEF LoadGraph, Send, WebTypes
  <2>. QED
    BY <2>3, GraphAskedTypes
<1>7. CASE ShowPolicy
  BY <1>7, SendTypes DEF ShowPolicy
<1>8. ASSUME NEW request \in requests,
             GraphArrives(request) \/ SearchArrives(request) \/ PolicyArrives(request)
      PROVE  WebTypes'
  BY <1>8, GraphArrivesTypes, SearchArrivesTypes, PolicyArrivesTypes
<1>. QED
  BY <1>2, <1>3, <1>4, <1>5, <1>6, <1>7, <1>8 DEF WebNext

(* search_console.py, app.js, mcp_server.py: whatever is searched, clicked and asked, in *)
(* whatever order the answers come, what is opened is a node of the local graph, the     *)
(* path holds such nodes only, and no request is counted that was not sent.              *)
THEOREM ViewersTypeOK == ViewersSpec => []TypeOK
<1>1. ViewersInit => ConsoleTypes /\ WebTypes
  <2>1. /\ IsFiniteSet({}) /\ Cardinality({}) = 0 /\ 0 \in 0 .. MaxRequests
        /\ 0 \in 0 .. Tasks - 1 /\ Path(<<>>) /\ DOMAIN <<>> = {}
    BY FS_EmptySet, WebAssumption, ConsoleAssumption DEF Path
  <2>2. ViewersInit => ConsoleTypes
    BY <2>1 DEF ViewersInit, ConsoleInit, ConsoleTypes
  <2>3. ViewersInit => WebTypes
    BY <2>1 DEF ViewersInit, WebInit, WebTypes, Drawn
  <2>. QED
    BY <2>2, <2>3
<1>2. ConsoleTypes /\ WebTypes /\ [ViewersNext]_viewerVars => (ConsoleTypes /\ WebTypes)'
  <2>. SUFFICES ASSUME ConsoleTypes, WebTypes, [ViewersNext]_viewerVars
                PROVE  ConsoleTypes' /\ WebTypes'
    OBVIOUS
  <2>1. UNCHANGED consoleVars => ConsoleTypes'
    BY DEF ConsoleTypes, consoleVars
  <2>2. UNCHANGED webVars => WebTypes'
    BY DEF WebTypes, webVars
  <2>3. (ConsoleNext \/ UNCHANGED consoleVars) /\ (WebNext \/ UNCHANGED webVars)
    BY DEF ViewersNext, viewerVars
  <2>. QED
    BY <2>1, <2>2, <2>3, ConsoleTypesStep, WebTypesStep
<1>3. ConsoleTypes => ConsoleTypeOK
  <2>1. ASSUME ConsoleTypes, word # Nothing
        PROVE  word.candidates \in Candidates
               /\ word.selected \in DOMAIN word.candidates \cup {Nothing}
    BY <2>1 DEF ConsoleTypes, Searched
  <2>. QED
    BY <2>1 DEF ConsoleTypes, ConsoleTypeOK, Candidates
<1>4. WebTypes => WebTypeOK
  <2>. SUFFICES ASSUME WebTypes PROVE WebTypeOK
    OBVIOUS
  <2>1. PICK m \in 0 .. MaxDepth : m = Len(navigation) /\ navigation \in [1 .. m -> LocalItems]
    BY WebAssumption DEF WebTypes, Path
  <2>2. navigation \in BoundedSeq(LocalItems, MaxDepth)
    BY <2>1 DEF BoundedSeq, SeqOf
  <2>. QED
    BY <2>2 DEF WebTypes, WebTypeOK
<1>5. McpInv => McpTypeOK
  <2>. SUFFICES ASSUME McpInv PROVE McpTypeOK
    OBVIOUS
  <2>1. Len(asked) \in Nat /\ Len(answers) <= Len(asked)
    BY DEF McpInv, Done
  <2>. QED
    BY <2>1, CallIs DEF McpInv, McpTypeOK
<1>. QED
  BY <1>1, <1>2, <1>3, <1>4, <1>5, McpAlways, PTL DEF ViewersSpec, TypeOK
=============================================================================
