--------------------------- MODULE WorkItemIntake ---------------------------
(***************************************************************************)
(* How the work items come in (src/mergewave/bootstrap.py): the pages of a *)
(* team's issues are fetched one request after the other                   *)
(* (linear_adapter.py fetch_candidates, with the transport's retries), and *)
(* the blocking relation is compiled into a graph without cycles           *)
(* (contracts.py compile_dependency_graph), a depth-first search whose     *)
(* recursion is the stack "visiting" here.  People edit the relation       *)
(* between two pages.  Field validation is left out.                       *)
(***************************************************************************)
EXTENDS Naturals, Sequences, FiniteSets

CONSTANTS
  Team,        \* the team's issues in the order they are listed
  Foreign,     \* issues of other teams: they block but are not listed
  PageSize,    \* issues on a page
  MaxRetries,  \* the transport's max_retries
  MaxEdits,    \* bound: edits of the blocking relation while it is read
  MaxErrors,   \* bound: answers with status 429 or of the 5xx
  MaxInvented, \* bound: cursors of the server's own invention
  MaxMishaps,  \* bound: edits and invented cursors together
  MaxRelations \* bound: blocking relations before they are edited

Issues == {Team[n] : n \in 1..Len(Team)}

\* A cursor is the number of issues before its page, or beyond the team a string
\* the server made up, which may lead anywhere.
Positions == 0..Len(Team)
Cursors == 0..(Len(Team) + MaxInvented)

ASSUME IntakeAssumption ==
  /\ Team \in Seq(Issues)
  /\ PageSize \in Nat \ {0}
  /\ MaxRetries \in Nat /\ MaxEdits \in Nat /\ MaxErrors \in Nat
  /\ MaxInvented \in Nat /\ MaxMishaps \in Nat /\ MaxRelations \in Nat
  /\ Issues \cap Foreign = {}

VARIABLES
  blocks,      \* issue -> its blockers in the tracker
  edits, errors,
  malformed,   \* an answer had no issues, or not the next page's cursor
  step,        \* "fetch", "compile", "visit", "accepted" or "refused"
  after,       \* where the cursor of the next request leads: the issues before it
  seenCursors,
  tries,       \* attempts of the request at work
  candidates,  \* the issues read so far, with the blockers they had
  graph,       \* item -> blockers, once compiled
  visiting,    \* the stack of the search: items with the blockers left to visit
  visited,
  reason       \* why the intake was refused, with the cycle reported

tracker == <<blocks, edits, errors, malformed>>
fetched == <<after, seenCursors, tries, candidates>>
search == <<graph, visiting, visited>>
vars == <<tracker, step, fetched, search, reason>>

Candidate == [id : Issues, blockers : SUBSET (Issues \cup Foreign)]
Frame == [item : Issues, left : SUBSET Issues]
NoReason == [code |-> "none", cycle |-> <<>>]

TypeOK ==
  /\ blocks \in [Issues -> SUBSET (Issues \cup Foreign)]
  /\ edits \in 0..MaxEdits /\ errors \in 0..MaxErrors /\ malformed \in BOOLEAN
  /\ step \in {"fetch", "compile", "visit", "accepted", "refused"}
  /\ after \in Positions /\ seenCursors \subseteq Cursors
  /\ tries \in 0..MaxRetries
  /\ candidates \in Seq(Candidate)
  /\ DOMAIN graph \subseteq Issues
  /\ graph \in [DOMAIN graph -> SUBSET (Issues \cup Foreign)]
  /\ visiting \in Seq(Frame)
  /\ visited \subseteq DOMAIN graph
  /\ reason.code \in {"none", "transport", "cursor", "duplicate", "missing", "cycle"}
  /\ reason.cycle \in Seq(Issues)

Init ==
  /\ blocks \in [Issues -> SUBSET (Issues \cup Foreign)]
  /\ Cardinality({r \in Issues \X (Issues \cup Foreign) : r[2] \in blocks[r[1]]}) =< MaxRelations
  /\ edits = 0 /\ errors = 0 /\ malformed = FALSE
  /\ step = "fetch"
  /\ after = 0 /\ seenCursors = {} /\ tries = 0 /\ candidates = <<>>
  /\ graph = <<>> /\ visiting = <<>> /\ visited = {}
  /\ reason = NoReason

Mishaps == edits + Cardinality(seenCursors \ Positions)

Refuse(code, cycle) ==
  /\ step' = "refused"
  /\ reason' = [code |-> code, cycle |-> cycle]

-----------------------------------------------------------------------------
(* The pages.                                                              *)

\* The issues a request returns that leads here, as they are now.
Page(position) ==
  [n \in 1..(IF position + PageSize > Len(Team) THEN Len(Team) - position ELSE PageSize) |->
     [id |-> Team[position + n], blockers |-> blocks[Team[position + n]]]]

\* The page is added, and its cursor is the next one unless it was seen before.
TurnPage(cursor, position) ==
  /\ candidates' = candidates \o Page(after)
  /\ tries' = 0
  /\ IF cursor \in seenCursors
       THEN Refuse("cursor", <<>>) /\ UNCHANGED <<after, seenCursors>>
       ELSE /\ after' = position /\ seenCursors' = seenCursors \cup {cursor}
            /\ UNCHANGED <<step, reason>>

\* The last page ends the loop, and the loop's variables with it.
FetchPage ==
  /\ step = "fetch"
  /\ IF after + PageSize < Len(Team)
       THEN TurnPage(after + PageSize, after + PageSize)
       ELSE /\ candidates' = candidates \o Page(after)
            /\ step' = "compile"
            /\ after' = 0 /\ seenCursors' = {} /\ tries' = 0
            /\ UNCHANGED reason
  /\ UNCHANGED <<tracker, search>>

\* The server promises a next page behind the wrong cursor, another page's or one
\* of its own invention: any string not seen before is followed.
WrongCursor ==
  /\ step = "fetch"
  /\ malformed' = TRUE
  /\ \E cursor \in Cursors, position \in Positions :
       /\ IF cursor \in Positions THEN position = cursor ELSE Mishaps < MaxMishaps
       /\ TurnPage(cursor, position)
  /\ UNCHANGED <<blocks, edits, errors, search>>

\* The listing ends with what was read before the error.
ServerError_EndsListing ==
  /\ step = "fetch" /\ errors < MaxErrors
  /\ errors' = errors + 1
  /\ step' = "compile"
  /\ UNCHANGED <<blocks, edits, malformed, fetched, search, reason>>

\* An answer with status 429 or of the 5xx is asked for again, max_retries times;
\* after that, or with another status or a GraphQL error, the request raises.
ServerError ==
  /\ step = "fetch" /\ errors < MaxErrors
  /\ errors' = errors + 1
  /\ \/ tries < MaxRetries /\ tries' = tries + 1 /\ UNCHANGED <<step, reason>>
     \/ Refuse("transport", <<>>) /\ UNCHANGED tries
  /\ UNCHANGED <<blocks, edits, malformed, after, seenCursors, candidates, search>>

\* An answer without a team ends the listing silently, and one without pageInfo
\* ends it with its page.
EmptyAnswer ==
  /\ step = "fetch"
  /\ malformed' = TRUE
  /\ candidates' \in {candidates, candidates \o Page(after)}
  /\ step' = "compile"
  /\ after' = 0 /\ seenCursors' = {} /\ tries' = 0
  /\ UNCHANGED <<blocks, edits, errors, search, reason>>

-----------------------------------------------------------------------------
(* The graph.                                                              *)

Ids == {candidates[n].id : n \in 1..Len(candidates)}

\* The items by id; with two candidates of one id the graph is never used.
Compiled ==
  [i \in Ids |->
     candidates[CHOOSE n \in 1..Len(candidates) : candidates[n].id = i].blockers]

Compile ==
  /\ step = "compile"
  /\ graph' = Compiled /\ candidates' = <<>>
  /\ IF Cardinality(Ids) # Len(candidates) THEN Refuse("duplicate", <<>>)
     ELSE IF \E i \in Ids : ~(Compiled[i] \subseteq Ids) THEN Refuse("missing", <<>>)
     ELSE step' = "visit" /\ UNCHANGED reason
  /\ UNCHANGED <<tracker, after, seenCursors, tries, visiting, visited>>

Top == visiting[Len(visiting)]
Below == SubSeq(visiting, 1, Len(visiting) - 1)
OnStack == {visiting[n].item : n \in 1..Len(visiting)}

CycleFrom_WholeStack(i) == Append([n \in 1..Len(visiting) |-> visiting[n].item], i)

\* From the item on the stack to the top of it and back to the item.
CycleFrom(i) ==
  LET first == CHOOSE n \in 1..Len(visiting) : visiting[n].item = i
      path == SubSeq(visiting, first, Len(visiting))
  IN Append([n \in 1..Len(path) |-> path[n].item], i)

Push(stack, i) == Append(stack, [item |-> i, left |-> graph[i]])

\* Only a visited item is recognised when it comes back.
Visit_StackIgnored(i, stack) ==
  /\ visiting' = IF i \in visited \cup OnStack THEN stack ELSE Push(stack, i)
  /\ UNCHANGED <<step, reason>>

\* visit(i), with the stack as it is once the caller has gone on to i: an item on
\* the stack closes a cycle, a visited one returns, a new one is pushed.
Visit(i, stack) ==
  IF i \in OnStack THEN Refuse("cycle", CycleFrom(i)) /\ UNCHANGED visiting
  ELSE /\ visiting' = IF i \in visited THEN stack ELSE Push(stack, i)
       /\ UNCHANGED <<step, reason>>

VisitRoot ==
  /\ step = "visit" /\ visiting = <<>>
  /\ \E i \in DOMAIN graph \ visited : Visit(i, <<>>)
  /\ UNCHANGED <<tracker, fetched, graph, visited>>

VisitBlocker ==
  /\ step = "visit" /\ visiting # <<>>
  /\ \E i \in Top.left :
       Visit(i, [visiting EXCEPT ![Len(visiting)].left = @ \ {i}])
  /\ UNCHANGED <<tracker, fetched, graph, visited>>

Leave_NotVisited ==
  /\ step = "visit" /\ visiting # <<>> /\ Top.left = {}
  /\ visiting' = Below
  /\ UNCHANGED <<tracker, fetched, step, graph, visited, reason>>

\* All blockers returned: the item is visited.
Leave ==
  /\ step = "visit" /\ visiting # <<>> /\ Top.left = {}
  /\ visited' = visited \cup {Top.item}
  /\ visiting' = Below
  /\ UNCHANGED <<tracker, fetched, step, graph, reason>>

Accept ==
  /\ step = "visit" /\ visiting = <<>> /\ DOMAIN graph = visited
  /\ step' = "accepted"
  /\ UNCHANGED <<tracker, fetched, search, reason>>

-----------------------------------------------------------------------------
(* People, and the whole.                                                  *)

\* Somebody changes what an issue is blocked by.
Edit ==
  /\ step = "fetch" /\ edits < MaxEdits /\ Mishaps < MaxMishaps
  /\ edits' = edits + 1
  /\ \E i \in Issues, b \in Issues \cup Foreign :
       blocks' = [blocks EXCEPT ![i] = IF b \in @ THEN @ \ {b} ELSE @ \cup {b}]
  /\ UNCHANGED <<errors, malformed, step, fetched, search, reason>>

Intake ==
  \/ FetchPage \/ WrongCursor \/ ServerError \/ EmptyAnswer
  \/ Compile \/ VisitRoot \/ VisitBlocker \/ Leave \/ Accept

Next == Intake \/ Edit

Spec == Init /\ [][Next]_vars /\ WF_vars(Intake)

-----------------------------------------------------------------------------
(* Properties.                                                             *)

\* A set of items each of which waits for another of the set.
Deadlocked(S) == S # {} /\ \A i \in S : graph[i] \cap S # {}

\* What was accepted can be delivered: every blocker is an item, and no set of
\* items waits for itself, also when the relation was edited while it was read
\* (contracts.py compile_dependency_graph).
AcceptedIsAcyclic ==
  step = "accepted" =>
    /\ \A i \in DOMAIN graph : graph[i] \subseteq DOMAIN graph
    /\ \A S \in SUBSET DOMAIN graph : ~Deadlocked(S)

\* A cycle that is reported is one: every item on it is blocked by the next, and
\* it closes (DependencyGraphError.cycle).
ReportedCycleIsReal ==
  reason.code = "cycle" =>
    /\ Len(reason.cycle) > 1
    /\ reason.cycle[1] = reason.cycle[Len(reason.cycle)]
    /\ \A n \in 1..Len(reason.cycle) - 1 :
         reason.cycle[n + 1] \in graph[reason.cycle[n]]

\* When nobody edited the relation and every answer, after whatever number of
\* retries, had the next page's cursor, the team is accepted completely or refused
\* for what the tracker says: a foreign blocker or a cycle.
SettledTeamIsJudgedRight ==
  LET complete == DOMAIN graph = Issues /\ \A i \in Issues : graph[i] = blocks[i]
      sound == /\ \A i \in Issues : blocks[i] \subseteq Issues
               /\ \A S \in SUBSET Issues :
                    S # {} => \E i \in S : blocks[i] \cap S = {}
  IN edits = 0 /\ ~malformed =>
       /\ step = "accepted" => complete /\ sound
       /\ reason.code \in {"missing", "cycle"} => complete /\ ~sound

\* The intake comes to an end if the server invents finitely many cursors, however
\* it uses them: a repeated one is refused (linear_adapter.py seen_cursors).  A
\* server that makes up a fresh cursor for every page is followed for ever.
IntakeEnds == <>(step \in {"accepted", "refused"})
=============================================================================
