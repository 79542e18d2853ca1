----------------------------- MODULE ConsoleView ----------------------------
(***************************************************************************)
(* scripts/search_console.py: the terminal viewer.  One thread reads a key *)
(* or a command, carries it out and draws; a command that fails leaves a   *)
(* notice, unless what failed is the policy's run, which ends the viewer.  *)
(* apply() would turn an OSError or a ValueError of that run into a notice *)
(* too, with task_index already changed; with a well-formed task file and  *)
(* graph none is raised there: a failing device is a RuntimeError and an   *)
(* index out of range an IndexError.                                       *)
(***************************************************************************)
EXTENDS QueryServices

CONSTANTS Tasks,        \* number of held-out tasks
          ConsoleSteps, \* actions of the policy on one task
          ConsoleLimit  \* facts the word page keeps

ASSUME ConsoleAssumption == Tasks \in Nat \ {0} /\ ConsoleLimit \in Nat

VARIABLES word,   \* the word search, or Nothing
          task,   \* task_index
          shown,  \* the last run of the policy, or Nothing
          open    \* the viewer's loop is running

consoleVars == <<word, task, shown, open>>

\* expand_word: the facts of the selected candidate under the filter.
Expanded(w) ==
  [w EXCEPT !.neighbors = Facts(w.candidates[w.selected], w.relation, ConsoleLimit)]

ConsoleInit == word = Nothing /\ task = 0 /\ shown = Nothing /\ open = TRUE

\* word_find: a new workspace, with the first candidate that is local.
Find(term) ==
  \E found \in Resolutions(term, Items) :
    /\ found # Nothing
    /\ LET fresh == [candidates |-> found, selected |-> FirstLocal(found),
                     relation |-> Nothing, neighbors |-> Nothing]
       IN  word' = IF fresh.selected = Nothing THEN fresh ELSE Expanded(fresh)
    /\ UNCHANGED <<task, shown, open>>

\* select_word
Use(index) ==
  /\ word # Nothing /\ index \in DOMAIN word.candidates
  /\ IsLocal(word.candidates[index])
  /\ word' = Expanded([word EXCEPT !.selected = index])
  /\ UNCHANGED <<task, shown, open>>

\* word_relation: the first resolved property that is local filters the facts.
\* Variant: the facts on show stay those of the previous relation.
Relation_KeepFacts(term) ==
  /\ word # Nothing /\ word.selected # Nothing
  /\ \E found \in Resolutions(term, Properties) :
       /\ found # Nothing /\ FirstLocal(found) # Nothing
       /\ word' = [word EXCEPT !.relation = found[FirstLocal(found)]]
  /\ UNCHANGED <<task, shown, open>>
Relation(term) ==
  /\ word # Nothing /\ word.selected # Nothing
  /\ \E found \in Resolutions(term, Properties) :
       /\ found # Nothing /\ FirstLocal(found) # Nothing
       /\ word' = Expanded([word EXCEPT !.relation = found[FirstLocal(found)]])
  /\ UNCHANGED <<task, shown, open>>

Clear == word' = Nothing /\ UNCHANGED <<task, shown, open>>

\* execute: the run of the task that is on, or the end of the viewer.
Execute(index) ==
  /\ task' = index
  /\ \/ shown' \in Episodes(index, ConsoleSteps) /\ UNCHANGED open
     \/ open' = FALSE /\ UNCHANGED shown
  /\ UNCHANGED word

Run == \E index \in 0 .. Tasks - 1 : Execute(index)

NextTask ==
  /\ task' = (task + 1) % Tasks /\ shown' = Nothing /\ UNCHANGED <<word, open>>

Quit == open' = FALSE /\ UNCHANGED <<word, task, shown>>

ConsoleNext ==
  /\ open
  /\ \/ \E term \in Items \cup {Word} : Find(term)
     \/ \E index \in 1 .. MaxFound : Use(index)
     \/ \E term \in Properties \cup {Word} : Relation(term)
     \/ Clear \/ Run \/ NextTask \/ Quit

ConsoleTypeOK ==
  /\ task \in 0 .. Tasks - 1 /\ open \in BOOLEAN
  /\ word # Nothing =>
       /\ word.candidates \in BoundedSeq(Items, MaxFound) \cup {<<i>> : i \in Items}
       /\ word.selected \in DOMAIN word.candidates \cup {Nothing}
=============================================================================
