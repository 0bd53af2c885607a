--------------------------- MODULE AdapterProofs ----------------------------
(***************************************************************************)
(* Proofs about the two adapters that read a moving outside piece by       *)
(* piece, WorkItemIntake and PullRequestObserver.                          *)
(*                                                                         *)
(* The intake, for every team, relation and page size: the search accepts  *)
(* graphs without cycles only, and a cycle it reports is one.  The visited *)
(* items are closed under their blockers and hold no set that waits for    *)
(* itself; the stack is a path, and of the blockers of an item on it all   *)
(* are visited but those left and the one above.  Every step is closer to  *)
(* the end.                                                                *)
(*                                                                         *)
(* The observer, for every number of pushes and reviewers: what was read   *)
(* of the pull request and is never taken back stays true until the gate   *)
(* decides on it.                                                          *)
(***************************************************************************)
EXTENDS WorkItemIntake, PullRequest, SequenceTheorems, FiniteSetTheorems, WellFoundedInduction, TLAPS

\* After compilation every blocker is an item.
GraphIsClosed ==
  step \in {"visit", "accepted"} => \A i \in DOMAIN graph : graph[i] \subseteq DOMAIN graph

NotYetSearched ==
  step \in {"fetch", "compile"} => visiting = <<>> /\ visited = {} /\ reason.code # "cycle"

VisitedIsClosed == \A i \in visited : graph[i] \subseteq visited

VisitedIsAcyclic == \A S \in SUBSET visited : ~Deadlocked(S)

\* Blockers of an item on the stack that are no longer left are visited, or are
\* the next item on the stack.
StackIsProgress ==
  \A n \in 1..Len(visiting) :
    /\ visiting[n].item \in DOMAIN graph
    /\ visiting[n].left \subseteq graph[visiting[n].item]
    /\ \A b \in graph[visiting[n].item] \ visiting[n].left :
         b \in visited \/ (n < Len(visiting) /\ b = visiting[n + 1].item)

\* Each item on the stack is blocked by the one above it.
StackIsPath ==
  \A n \in 1..Len(visiting) - 1 : visiting[n + 1].item \in graph[visiting[n].item]

IInv ==
  /\ TypeOK
  /\ GraphIsClosed
  /\ NotYetSearched
  /\ VisitedIsClosed
  /\ VisitedIsAcyclic
  /\ StackIsProgress
  /\ StackIsPath
  /\ AcceptedIsAcyclic
  /\ ReportedCycleIsReal

\* Without edits and malformed answers, what was read is what the tracker says: the
\* team up to the cursor, and in the end all of it.
ReadFaithfully ==
  edits = 0 /\ ~malformed =>
    /\ step = "fetch" => Len(candidates) = after
    /\ step = "compile" => Len(candidates) = Len(Team)
    /\ step \in {"fetch", "compile"} =>
         \A n \in 1..Len(candidates) :
           candidates[n].id = Team[n] /\ candidates[n].blockers = blocks[Team[n]]
    /\ step \in {"visit", "accepted"} \/ reason.code \in {"missing", "cycle"} =>
         DOMAIN graph = Issues /\ \A i \in Issues : graph[i] = blocks[i]

MissingIsReal ==
  reason.code = "missing" => \E i \in DOMAIN graph : ~(graph[i] \subseteq DOMAIN graph)

ReasonIsFinal == reason.code # "none" => step = "refused"

Faithful == ReadFaithfully /\ MissingIsReal /\ ReasonIsFinal

-----------------------------------------------------------------------------
(* Types.                                                                  *)

LEMMA TeamFacts ==
  /\ Len(Team) \in Nat
  /\ \A n \in 1..Len(Team) : Team[n] \in Issues
BY IntakeAssumption DEF Issues

\* A page is a sequence of candidates.
LEMMA PageType ==
  ASSUME NEW c \in 0..Len(Team), blocks \in [Issues -> SUBSET (Issues \cup Foreign)]
  PROVE  Page(c) \in Seq(Candidate)
<1> DEFINE size == IF c + PageSize > Len(Team) THEN Len(Team) - c ELSE PageSize
<1>1. size \in Nat /\ c + size =< Len(Team)
  BY TeamFacts, IntakeAssumption
<1>2. \A n \in 1..size :
        [id |-> Team[c + n], blockers |-> blocks[Team[c + n]]] \in Candidate
  <2> SUFFICES ASSUME NEW n \in 1..size
               PROVE  [id |-> Team[c + n], blockers |-> blocks[Team[c + n]]] \in Candidate
    OBVIOUS
  <2>1. c + n \in 1..Len(Team)
    BY <1>1, TeamFacts
  <2>2. Team[c + n] \in Issues
    BY <2>1, TeamFacts
  <2> QED
    BY <2>2 DEF Candidate
<1>3. Page(c) = [n \in 1..size |-> [id |-> Team[c + n], blockers |-> blocks[Team[c + n]]]]
  BY DEF Page
<1> HIDE DEF size
<1>4. Page(c) \in [1..size -> Candidate]
  BY <1>2, <1>3
<1> QED
  BY <1>1, <1>4

\* Compiling candidates gives a graph over their ids.
LEMMA CompiledType ==
  ASSUME candidates \in Seq(Candidate)
  PROVE  /\ DOMAIN Compiled = Ids
         /\ Ids \subseteq Issues
         /\ Compiled \in [Ids -> SUBSET (Issues \cup Foreign)]
<1>1. Len(candidates) \in Nat
  OBVIOUS
<1>2. \A n \in 1..Len(candidates) : candidates[n] \in Candidate
  OBVIOUS
<1>3. \A n \in 1..Len(candidates) :
        candidates[n].id \in Issues /\ candidates[n].blockers \subseteq Issues \cup Foreign
  BY <1>2 DEF Candidate
<1>4. \A i \in Ids : (CHOOSE n \in 1..Len(candidates) : candidates[n].id = i) \in 1..Len(candidates)
  BY DEF Ids
<1>5. Ids \subseteq Issues
  BY <1>3 DEF Ids
<1>6. \A i \in Ids :
        candidates[CHOOSE n \in 1..Len(candidates) : candidates[n].id = i].blockers
          \in SUBSET (Issues \cup Foreign)
  BY <1>3, <1>4
<1> QED
  BY <1>5, <1>6 DEF Compiled

\* The reported cycle is the part of the stack from the item to the top, and the
\* item again.
LEMMA CyclePath ==
  ASSUME visiting \in Seq(Frame), NEW i \in OnStack
  PROVE  \E m \in 1..Len(visiting) :
           /\ visiting[m].item = i
           /\ CycleFrom(i) \in Seq(Issues)
           /\ Len(CycleFrom(i)) = Len(visiting) - m + 2
           /\ \A n \in 1..(Len(visiting) - m + 1) :
                CycleFrom(i)[n] = visiting[n + m - 1].item
           /\ CycleFrom(i)[Len(visiting) - m + 2] = i
<1> DEFINE m == CHOOSE n \in 1..Len(visiting) : visiting[n].item = i
           path == SubSeq(visiting, m, Len(visiting))
           items == [n \in 1..Len(path) |-> path[n].item]
<1>1. m \in 1..Len(visiting) /\ visiting[m].item = i
  BY DEF OnStack
<1>2. CycleFrom(i) = Append(items, i)
  BY DEF CycleFrom
<1> HIDE DEF m
<1>3. Len(visiting) \in Nat /\ m \in Nat /\ m =< Len(visiting) /\ 1 =< m
  BY <1>1
<1>4. /\ path \in Seq(Frame)
      /\ Len(path) = Len(visiting) - m + 1
      /\ \A n \in 1..(Len(visiting) - m + 1) : path[n] = visiting[n + m - 1]
  <2>1. \A n \in m..Len(visiting) : visiting[n] \in Frame
    BY <1>3
  <2> QED
    BY <1>3, <2>1, SubSeqProperties
<1> HIDE DEF path
<1>5. \A n \in 1..Len(path) : path[n].item \in Issues
  <2>1. \A n \in 1..Len(path) : path[n] \in Frame
    BY <1>4
  <2> QED
    BY <2>1 DEF Frame
<1>6. /\ items \in Seq(Issues)
      /\ Len(items) = Len(path)
      /\ \A n \in 1..Len(path) : items[n] = path[n].item
  <2>1. Len(path) \in Nat
    BY <1>4
  <2>2. items \in [1..Len(path) -> Issues]
    BY <1>5
  <2> QED
    BY <2>1, <2>2
<1> HIDE DEF items
<1>7. i \in Issues
  <2>1. visiting[m] \in Frame
    BY <1>1
  <2> QED
    BY <1>1, <2>1 DEF Frame
<1>8. /\ Append(items, i) \in Seq(Issues)
      /\ Len(Append(items, i)) = Len(items) + 1
      /\ \A n \in 1..Len(items) : Append(items, i)[n] = items[n]
      /\ Append(items, i)[Len(items) + 1] = i
  BY <1>6, <1>7, AppendProperties
<1>9. \A n \in 1..(Len(visiting) - m + 1) : Append(items, i)[n] = visiting[n + m - 1].item
  BY <1>4, <1>6, <1>8
<1>10. Len(items) + 1 = Len(visiting) - m + 2
  BY <1>3, <1>4, <1>6
<1> QED
  BY <1>1, <1>2, <1>8, <1>9, <1>10

\* Refusing and turning a page keep the types.
LEMMA RefuseType ==
  ASSUME NEW code \in {"transport", "cursor", "duplicate", "missing", "cycle"},
         NEW cycle \in Seq(Issues), Refuse(code, cycle)
  PROVE  /\ step' = "refused"
         /\ reason'.code = code /\ reason'.cycle = cycle
BY DEF Refuse

\* Without a cycle to report, the reason stays well-typed.
LEMMA ReasonType ==
  ASSUME TypeOK, NEW code \in {"transport", "cursor", "duplicate", "missing"},
         reason' = reason \/ reason' = [code |-> code, cycle |-> <<>>]
  PROVE  /\ reason'.code \in {"none", "transport", "cursor", "duplicate", "missing", "cycle"}
         /\ reason'.cycle \in Seq(Issues)
         /\ reason' = reason \/ reason'.code # "cycle"
<1>1. CASE reason' = reason
  BY <1>1 DEF TypeOK
<1>2. CASE reason' = [code |-> code, cycle |-> <<>>]
  <2>1. reason'.code = code /\ reason'.cycle = <<>>
    BY <1>2
  <2>2. <<>> \in Seq(Issues)
    OBVIOUS
  <2> QED
    BY <2>1, <2>2
<1> QED
  BY <1>1, <1>2

LEMMA TurnPageType ==
  ASSUME TypeOK, NEW cursor \in Cursors, NEW position \in Positions,
         TurnPage(cursor, position)
  PROVE  /\ candidates' \in Seq(Candidate)
         /\ after' \in Positions /\ seenCursors' \subseteq Cursors
         /\ tries' \in 0..MaxRetries
         /\ \/ UNCHANGED <<step, reason>>
            \/ step' = "refused" /\ reason' = [code |-> "cursor", cycle |-> <<>>]
<1>1. Page(after) \in Seq(Candidate)
  BY PageType DEF TypeOK, Positions
<1>2. candidates' \in Seq(Candidate)
  <2>1. candidates' = candidates \o Page(after) /\ candidates \in Seq(Candidate)
    BY DEF TurnPage, TypeOK
  <2> QED
    BY <1>1, <2>1
<1>3. tries' = 0 /\ 0 \in 0..MaxRetries
  BY IntakeAssumption DEF TurnPage
<1> QED
  BY <1>2, <1>3 DEF TurnPage, Refuse, TypeOK

LEMMA FetchType ==
  ASSUME TypeOK, FetchPage \/ WrongCursor \/ EmptyAnswer \/ ServerError \/ Edit
  PROVE  /\ TypeOK'
         /\ UNCHANGED search /\ step' \in {"fetch", "compile", "refused"} /\ step = "fetch"
         /\ reason' = reason \/ reason'.code # "cycle"
<1> USE TeamFacts, IntakeAssumption
<1>0. <<>> \in Seq(Issues) /\ 0 \in Positions /\ 0 \in 0..MaxRetries
  BY DEF Positions
<1>1. CASE FetchPage
  <2>1. CASE after + PageSize < Len(Team)
    <3>1. after + PageSize \in Positions /\ after + PageSize \in Cursors
      BY <2>1 DEF TypeOK, Positions, Cursors
    <3>2. TurnPage(after + PageSize, after + PageSize)
      BY <1>1, <2>1 DEF FetchPage
    <3>3. /\ candidates' \in Seq(Candidate)
          /\ after' \in Positions /\ seenCursors' \subseteq Cursors
          /\ tries' \in 0..MaxRetries
          /\ \/ UNCHANGED <<step, reason>>
             \/ step' = "refused" /\ reason' = [code |-> "cursor", cycle |-> <<>>]
      BY <3>1, <3>2, TurnPageType
    <3>4. /\ reason'.code \in {"none", "transport", "cursor", "duplicate", "missing", "cycle"}
          /\ reason'.cycle \in Seq(Issues)
          /\ reason' = reason \/ reason'.code # "cycle"
      BY <3>3, ReasonType
    <3>5. step = "fetch" /\ step' \in {"fetch", "refused"} /\ UNCHANGED <<tracker, search>>
      BY <1>1, <3>3 DEF FetchPage
    <3> QED
      BY <3>3, <3>4, <3>5 DEF TypeOK, tracker, search
  <2>2. CASE ~(after + PageSize < Len(Team))
    <3>1. candidates' = candidates \o Page(after) /\ candidates \in Seq(Candidate)
      BY <1>1, <2>2 DEF FetchPage, TypeOK
    <3>2. Page(after) \in Seq(Candidate)
      BY PageType DEF TypeOK, Positions
    <3>3. candidates' \in Seq(Candidate)
      BY <3>1, <3>2
    <3> QED
      BY <1>0, <1>1, <2>2, <3>3 DEF FetchPage, TypeOK, tracker, search
  <2> QED
    BY <2>1, <2>2
<1>2. CASE WrongCursor
  <2>1. PICK cursor \in Cursors, position \in Positions : TurnPage(cursor, position)
    BY <1>2 DEF WrongCursor
  <2>2. /\ candidates' \in Seq(Candidate)
        /\ after' \in Positions /\ seenCursors' \subseteq Cursors
        /\ tries' \in 0..MaxRetries
        /\ \/ UNCHANGED <<step, reason>>
           \/ step' = "refused" /\ reason' = [code |-> "cursor", cycle |-> <<>>]
    BY <2>1, TurnPageType
  <2>3. /\ reason'.code \in {"none", "transport", "cursor", "duplicate", "missing", "cycle"}
        /\ reason'.cycle \in Seq(Issues)
        /\ reason' = reason \/ reason'.code # "cycle"
    BY <2>2, ReasonType
  <2>4. /\ step = "fetch" /\ step' \in {"fetch", "refused"} /\ malformed' \in BOOLEAN
        /\ UNCHANGED <<blocks, edits, errors, search>>
    BY <1>2, <2>2 DEF WrongCursor
  <2> QED
    BY <2>2, <2>3, <2>4 DEF TypeOK, search
<1>3. CASE EmptyAnswer
  <2>1. /\ candidates' = candidates \/ candidates' = candidates \o Page(after)
        /\ candidates \in Seq(Candidate)
    BY <1>3 DEF EmptyAnswer, TypeOK
  <2>2. Page(after) \in Seq(Candidate)
    BY PageType DEF TypeOK, Positions
  <2> HIDE IntakeAssumption, TeamFacts
  <2>3. candidates' \in Seq(Candidate)
    <3>1. CASE candidates' = candidates
      BY <2>1, <3>1
    <3>2. CASE candidates' = candidates \o Page(after)
      BY <2>1, <2>2, <3>2
    <3> QED
      BY <2>1, <3>1, <3>2
  <2> QED
    BY <1>0, <1>3, <2>3 DEF EmptyAnswer, TypeOK, search
<1>4. CASE ServerError
  <2>1. errors' \in 0..MaxErrors /\ tries' \in 0..MaxRetries
    BY <1>4 DEF ServerError, TypeOK
  <2>2. /\ step' \in {"fetch", "refused"}
        /\ reason' = reason \/ reason' = [code |-> "transport", cycle |-> <<>>]
    BY <1>4 DEF ServerError, Refuse
  <2>3. /\ reason'.code \in {"none", "transport", "cursor", "duplicate", "missing", "cycle"}
        /\ reason'.cycle \in Seq(Issues)
        /\ reason' = reason \/ reason'.code # "cycle"
    BY <2>2, ReasonType
  <2>4. step = "fetch" /\ UNCHANGED <<blocks, edits, malformed, after, seenCursors, candidates, search>>
    BY <1>4 DEF ServerError
  <2> QED
    BY <2>1, <2>2, <2>3, <2>4 DEF TypeOK, search
<1>5. CASE Edit
  <2>1. PICK i \in Issues, b \in Issues \cup Foreign :
          blocks' = [blocks EXCEPT ![i] = IF b \in @ THEN @ \ {b} ELSE @ \cup {b}]
    BY <1>5 DEF Edit
  <2>2. blocks' \in [Issues -> SUBSET (Issues \cup Foreign)]
    BY <2>1 DEF TypeOK
  <2>3. edits' \in 0..MaxEdits
    BY <1>5 DEF Edit, TypeOK
  <2> QED
    BY <1>5, <2>2, <2>3 DEF Edit, TypeOK, fetched, search
<1> QED
  BY <1>1, <1>2, <1>3, <1>4, <1>5

-----------------------------------------------------------------------------
(* The steps before the search.                                            *)

LEMMA FetchStep ==
  ASSUME IInv, FetchPage \/ WrongCursor \/ EmptyAnswer \/ ServerError \/ Edit
  PROVE  IInv'
<1>1. /\ TypeOK' /\ step = "fetch" /\ step' \in {"fetch", "compile", "refused"}
      /\ UNCHANGED <<graph, visiting, visited>>
      /\ reason' = reason \/ reason'.code # "cycle"
  BY FetchType DEF IInv, search
<1>2. visiting = <<>> /\ visited = {} /\ reason.code # "cycle"
  BY <1>1 DEF IInv, NotYetSearched
<1>3. reason'.code # "cycle" /\ Len(visiting') = 0
  BY <1>1, <1>2
<1>4. GraphIsClosed' /\ AcceptedIsAcyclic' /\ ReportedCycleIsReal' /\ NotYetSearched'
  BY <1>1, <1>2, <1>3 DEF GraphIsClosed, AcceptedIsAcyclic, ReportedCycleIsReal, NotYetSearched
<1>5. VisitedIsClosed' /\ VisitedIsAcyclic'
  BY <1>1, <1>2 DEF VisitedIsClosed, VisitedIsAcyclic, Deadlocked
<1>6. StackIsProgress' /\ StackIsPath'
  BY <1>3 DEF StackIsProgress, StackIsPath
<1> QED
  BY <1>1, <1>4, <1>5, <1>6 DEF IInv

LEMMA CompileStep ==
  ASSUME IInv, Compile
  PROVE  IInv'
<1>1. TypeOK
  BY DEF IInv
<1>2. visiting = <<>> /\ visited = {} /\ reason.code # "cycle"
  BY DEF IInv, NotYetSearched, Compile
<1>3. /\ DOMAIN Compiled = Ids
      /\ Ids \subseteq Issues
      /\ Compiled \in [Ids -> SUBSET (Issues \cup Foreign)]
  BY <1>1, CompiledType DEF TypeOK
<1>4. /\ graph' = Compiled /\ candidates' = <<>>
      /\ UNCHANGED <<blocks, edits, errors, malformed, after, seenCursors, tries, visiting, visited>>
  BY DEF Compile, tracker
<1>5. \/ step' = "refused" /\ reason' = [code |-> "duplicate", cycle |-> <<>>]
      \/ step' = "refused" /\ reason' = [code |-> "missing", cycle |-> <<>>]
      \/ /\ step' = "visit" /\ reason' = reason
         /\ \A i \in Ids : Compiled[i] \subseteq Ids
  BY DEF Compile, Refuse
<1>6. /\ reason'.code \in {"none", "transport", "cursor", "duplicate", "missing", "cycle"}
      /\ reason'.cycle \in Seq(Issues)
      /\ reason'.code # "cycle"
  BY <1>1, <1>2, <1>5, ReasonType
<1>7. step' \in {"visit", "refused"}
  BY <1>5
<1>8. graph' \in [DOMAIN graph' -> SUBSET (Issues \cup Foreign)] /\ DOMAIN graph' \subseteq Issues
  BY <1>3, <1>4
<1>9. candidates' \in Seq(Candidate) /\ visited' \subseteq DOMAIN graph' /\ visiting' \in Seq(Frame)
  BY <1>2, <1>4
<1>10. TypeOK'
  BY <1>1, <1>4, <1>6, <1>7, <1>8, <1>9 DEF TypeOK
<1>11. GraphIsClosed'
  BY <1>3, <1>4, <1>5 DEF GraphIsClosed
<1>12. AcceptedIsAcyclic' /\ ReportedCycleIsReal' /\ NotYetSearched'
  BY <1>6, <1>7 DEF AcceptedIsAcyclic, ReportedCycleIsReal, NotYetSearched
<1>13. VisitedIsClosed' /\ VisitedIsAcyclic'
  BY <1>2, <1>4 DEF VisitedIsClosed, VisitedIsAcyclic, Deadlocked
<1>14. Len(visiting') = 0
  BY <1>2, <1>4
<1>15. StackIsProgress' /\ StackIsPath'
  BY <1>14 DEF StackIsProgress, StackIsPath
<1> QED
  BY <1>10, <1>11, <1>12, <1>13, <1>15 DEF IInv

-----------------------------------------------------------------------------
(* The search.                                                             *)

\* The stack once the caller has gone on to i: only i is neither left nor above.
Reaches(stack, i) ==
  \A n \in 1..Len(stack) :
    /\ stack[n].item \in DOMAIN graph
    /\ stack[n].left \subseteq graph[stack[n].item]
    /\ \A b \in graph[stack[n].item] \ stack[n].left :
         \/ b \in visited
         \/ n < Len(stack) /\ b = stack[n + 1].item
         \/ n = Len(stack) /\ b = i
    /\ n < Len(stack) => stack[n + 1].item \in graph[stack[n].item]
    /\ n = Len(stack) => i \in graph[stack[n].item]

\* Going on to i keeps the stack a path on which every blocker is accounted for.
LEMMA GoOn ==
  ASSUME TypeOK, GraphIsClosed, step = "visit",
         NEW i \in DOMAIN graph, NEW stack \in Seq(Frame), Reaches(stack, i),
         graph' = graph, visited' = visited,
         visiting' = IF i \in visited THEN stack ELSE Push(stack, i)
  PROVE  visiting' \in Seq(Frame) /\ StackIsProgress' /\ StackIsPath'
<1>1. CASE i \in visited
  <2>1. visiting' = stack
    BY <1>1
  <2>2. StackIsProgress'
    BY <1>1, <2>1 DEF StackIsProgress, Reaches
  <2>3. Len(stack) \in Nat
    OBVIOUS
  <2>4. StackIsPath'
    BY <2>1, <2>3 DEF StackIsPath, Reaches
  <2> QED
    BY <2>1, <2>2, <2>4
<1>2. CASE i \notin visited
  <2> DEFINE frame == [item |-> i, left |-> graph[i]]
  <2>1. i \in Issues /\ graph[i] \subseteq Issues
    BY DEF TypeOK, GraphIsClosed
  <2>2. frame \in Frame /\ frame.item = i /\ frame.left = graph[i]
    BY <2>1 DEF Frame
  <2> HIDE DEF frame
  <2>3. visiting' = Append(stack, frame)
    BY <1>2 DEF Push, frame
  <2>4. /\ visiting' \in Seq(Frame)
        /\ Len(visiting') = Len(stack) + 1
        /\ \A n \in 1..Len(stack) : visiting'[n] = stack[n]
        /\ visiting'[Len(stack) + 1] = frame
    BY <2>2, <2>3, AppendProperties
  <2>5. Len(stack) \in Nat
    OBVIOUS
  <2>6. StackIsProgress'
    <3> SUFFICES ASSUME NEW n \in 1..(Len(stack) + 1)
                 PROVE  /\ visiting'[n].item \in DOMAIN graph
                        /\ visiting'[n].left \subseteq graph[visiting'[n].item]
                        /\ \A b \in graph[visiting'[n].item] \ visiting'[n].left :
                             \/ b \in visited
                             \/ n < Len(stack) + 1 /\ b = visiting'[n + 1].item
      BY <2>4 DEF StackIsProgress
    <3>1. CASE n = Len(stack) + 1
      BY <2>2, <2>4, <3>1
    <3>2. CASE n \in 1..Len(stack)
      <4>1. visiting'[n] = stack[n]
        BY <2>4, <3>2
      <4>2. visiting'[n + 1] = IF n < Len(stack) THEN stack[n + 1] ELSE frame
        BY <2>4, <2>5, <3>2
      <4>3. n < Len(stack) \/ n = Len(stack)
        BY <2>5, <3>2
      <4>4. n < Len(stack) + 1
        BY <2>5, <3>2
      <4> QED
        BY <2>2, <3>2, <4>1, <4>2, <4>3, <4>4 DEF Reaches
    <3> QED
      BY <2>5, <3>1, <3>2
  <2>7. StackIsPath'
    <3> SUFFICES ASSUME NEW n \in 1..Len(stack)
                 PROVE  visiting'[n + 1].item \in graph[visiting'[n].item]
      BY <2>4, <2>5 DEF StackIsPath
    <3>1. visiting'[n] = stack[n]
      BY <2>4
    <3>2. visiting'[n + 1] = IF n < Len(stack) THEN stack[n + 1] ELSE frame
      BY <2>4, <2>5
    <3>3. n < Len(stack) \/ n = Len(stack)
      BY <2>5
    <3> QED
      BY <2>2, <3>1, <3>2, <3>3 DEF Reaches
  <2> QED
    BY <2>4, <2>6, <2>7
<1> QED
  BY <1>1, <1>2

\* An item met again on the stack closes a cycle of blockers.
LEMMA CycleIsReal ==
  ASSUME TypeOK, StackIsPath, NEW i \in OnStack, i \in graph[Top.item],
         graph' = graph, Refuse("cycle", CycleFrom(i))
  PROVE  /\ reason'.code = "cycle" /\ reason'.cycle \in Seq(Issues)
         /\ ReportedCycleIsReal'
<1> DEFINE cycle == CycleFrom(i)
<1>1. PICK m \in 1..Len(visiting) :
        /\ visiting[m].item = i
        /\ cycle \in Seq(Issues)
        /\ Len(cycle) = Len(visiting) - m + 2
        /\ \A n \in 1..(Len(visiting) - m + 1) : cycle[n] = visiting[n + m - 1].item
        /\ cycle[Len(visiting) - m + 2] = i
  BY CyclePath DEF TypeOK
<1>2. reason'.code = "cycle" /\ reason'.cycle = cycle
  BY DEF Refuse
<1> HIDE DEF cycle
<1>3. Len(visiting) \in Nat /\ m \in Nat /\ 1 =< m /\ m =< Len(visiting)
  BY <1>1 DEF TypeOK
<1>4. Len(cycle) > 1 /\ cycle[1] = i /\ cycle[Len(cycle)] = i
  <2>1. 1 \in 1..(Len(visiting) - m + 1) /\ 1 + m - 1 = m
    BY <1>3
  <2>2. cycle[1] = visiting[m].item
    BY <1>1, <2>1
  <2> QED
    BY <1>1, <1>3, <2>2
<1>5. ASSUME NEW n \in 1..(Len(cycle) - 1)
      PROVE  cycle[n + 1] \in graph[cycle[n]]
  <2>1. n \in 1..(Len(visiting) - m + 1)
    BY <1>1, <1>3
  <2>2. cycle[n] = visiting[n + m - 1].item
    BY <1>1, <2>1
  <2>3. CASE n = Len(visiting) - m + 1
    <3>1. n + m - 1 = Len(visiting) /\ n + 1 = Len(visiting) - m + 2
      BY <1>3, <2>3
    <3>2. cycle[n + 1] = i /\ cycle[n] = Top.item
      BY <1>1, <2>2, <3>1 DEF Top
    <3> QED
      BY <3>2
  <2>4. CASE n # Len(visiting) - m + 1
    <3>1. n + 1 \in 1..(Len(visiting) - m + 1) /\ n + 1 + m - 1 = (n + m - 1) + 1
      BY <1>3, <2>1, <2>4
    <3>2. cycle[n + 1] = visiting[(n + m - 1) + 1].item
      BY <1>1, <3>1
    <3>3. n + m - 1 \in 1..Len(visiting) - 1
      BY <1>3, <2>1, <2>4
    <3> QED
      BY <2>2, <3>2, <3>3 DEF StackIsPath
  <2> QED
    BY <2>3, <2>4
<1> QED
  BY <1>1, <1>2, <1>4, <1>5 DEF ReportedCycleIsReal

\* One call of visit keeps the invariant.
LEMMA VisitStep ==
  ASSUME IInv, step = "visit", NEW i \in DOMAIN graph, NEW stack \in Seq(Frame),
         Reaches(stack, i), i \in OnStack => i \in graph[Top.item],
         Visit(i, stack), UNCHANGED <<tracker, fetched, graph, visited>>
  PROVE  IInv'
<1>1. TypeOK /\ GraphIsClosed /\ VisitedIsClosed /\ VisitedIsAcyclic /\ ReportedCycleIsReal
      /\ StackIsProgress /\ StackIsPath
  BY DEF IInv
<1>2. VisitedIsClosed' /\ VisitedIsAcyclic'
  BY <1>1 DEF VisitedIsClosed, VisitedIsAcyclic, Deadlocked
<1>3. /\ visiting' \in Seq(Frame) /\ StackIsProgress' /\ StackIsPath'
      /\ step' \in {"visit", "refused"}
      /\ reason'.code \in {"none", "transport", "cursor", "duplicate", "missing", "cycle"}
      /\ reason'.cycle \in Seq(Issues)
      /\ ReportedCycleIsReal'
  <2>1. CASE i \in OnStack
    <3>1. Refuse("cycle", CycleFrom(i)) /\ visiting' = visiting
      BY <2>1 DEF Visit
    <3>2. StackIsProgress' /\ StackIsPath' /\ visiting' \in Seq(Frame)
      BY <1>1, <3>1 DEF StackIsProgress, StackIsPath, TypeOK
    <3>3. /\ reason'.code = "cycle" /\ reason'.cycle \in Seq(Issues)
          /\ ReportedCycleIsReal'
      BY <1>1, <2>1, <3>1, CycleIsReal
    <3>4. step' = "refused"
      BY <3>1 DEF Refuse
    <3> QED
      BY <3>2, <3>3, <3>4
  <2>2. CASE i \notin OnStack
    <3>1. /\ visiting' = IF i \in visited THEN stack ELSE Push(stack, i)
          /\ UNCHANGED <<step, reason>>
      BY <2>2 DEF Visit
    <3>2. visiting' \in Seq(Frame) /\ StackIsProgress' /\ StackIsPath'
      BY <1>1, <3>1, GoOn
    <3>3. ReportedCycleIsReal'
      BY <1>1, <3>1 DEF ReportedCycleIsReal
    <3> QED
      BY <1>1, <3>1, <3>2, <3>3 DEF TypeOK
  <2> QED
    BY <2>1, <2>2
<1>4. TypeOK'
  BY <1>1, <1>3 DEF TypeOK, tracker, fetched
<1>5. GraphIsClosed' /\ NotYetSearched' /\ AcceptedIsAcyclic'
  BY <1>1, <1>3 DEF GraphIsClosed, NotYetSearched, AcceptedIsAcyclic
<1> QED
  BY <1>2, <1>3, <1>4, <1>5 DEF IInv

LEMMA RootStep ==
  ASSUME IInv, VisitRoot
  PROVE  IInv'
<1>1. PICK i \in DOMAIN graph \ visited : Visit(i, <<>>)
  BY DEF VisitRoot
<1>2. step = "visit" /\ visiting = <<>> /\ UNCHANGED <<tracker, fetched, graph, visited>>
  BY DEF VisitRoot
<1>3. Len(visiting) = 0 /\ OnStack = {}
  BY <1>2 DEF OnStack
<1>4. <<>> \in Seq(Frame) /\ Reaches(<<>>, i)
  BY DEF Reaches
<1> QED
  BY <1>1, <1>2, <1>3, <1>4, VisitStep

LEMMA BlockerStep ==
  ASSUME IInv, VisitBlocker
  PROVE  IInv'
<1> DEFINE last == Len(visiting)
<1>1. step = "visit" /\ visiting # <<>> /\ UNCHANGED <<tracker, fetched, graph, visited>>
  BY DEF VisitBlocker
<1>2. PICK i \in Top.left : Visit(i, [visiting EXCEPT ![last].left = @ \ {i}])
  BY DEF VisitBlocker
<1> DEFINE stack == [visiting EXCEPT ![last].left = @ \ {i}]
<1>3. visiting \in Seq(Frame) /\ last \in 1..last /\ last \in Nat
  BY <1>1 DEF IInv, TypeOK
<1>4. Top = visiting[last] /\ Top \in Frame
  BY <1>3 DEF Top
<1>5. /\ Top.item \in DOMAIN graph /\ Top.left \subseteq graph[Top.item]
      /\ \A b \in graph[Top.item] \ Top.left : b \in visited
  BY <1>3, <1>4 DEF IInv, StackIsProgress
<1>6. i \in graph[Top.item] /\ i \in DOMAIN graph
  BY <1>1, <1>5 DEF IInv, GraphIsClosed
<1>7. [Top EXCEPT !.left = @ \ {i}] \in Frame
  BY <1>4 DEF Frame
<1>8. /\ stack \in Seq(Frame)
      /\ Len(stack) = last
      /\ stack[last] = [Top EXCEPT !.left = @ \ {i}]
      /\ \A n \in 1..last : n # last => stack[n] = visiting[n]
  <2> DEFINE frame == [Top EXCEPT !.left = @ \ {i}]
  <2>1. stack = [visiting EXCEPT ![last] = frame]
    BY <1>3, <1>4
  <2>2. frame \in Frame
    BY <1>7
  <2> HIDE DEF frame
  <2>3. /\ [visiting EXCEPT ![last] = frame] \in Seq(Frame)
        /\ Len([visiting EXCEPT ![last] = frame]) = last
        /\ \A n \in 1..last :
             [visiting EXCEPT ![last] = frame][n] = IF n = last THEN frame ELSE visiting[n]
    BY <1>3, <2>2, ExceptSeq
  <2> HIDE DEF stack
  <2>4. stack[last] = frame
    BY <1>3, <2>1, <2>3
  <2> QED
    BY <2>1, <2>3, <2>4 DEF frame
<1>9. /\ stack[last].item = Top.item
      /\ stack[last].left = Top.left \ {i}
  BY <1>4, <1>8 DEF Frame
<1> HIDE DEF stack
<1>10. Reaches(stack, i)
  <2> SUFFICES ASSUME NEW n \in 1..last
               PROVE  /\ stack[n].item \in DOMAIN graph
                      /\ stack[n].left \subseteq graph[stack[n].item]
                      /\ \A b \in graph[stack[n].item] \ stack[n].left :
                           \/ b \in visited
                           \/ n < last /\ b = stack[n + 1].item
                           \/ n = last /\ b = i
                      /\ n < last => stack[n + 1].item \in graph[stack[n].item]
                      /\ n = last => i \in graph[stack[n].item]
    BY <1>8 DEF Reaches
  <2>1. CASE n = last
    BY <1>3, <1>5, <1>6, <1>9, <2>1
  <2>2. CASE n # last
    <3>1. n < last /\ stack[n] = visiting[n] /\ n + 1 \in 1..last /\ n \in 1..last - 1
      BY <1>3, <1>8, <2>2
    <3>2. stack[n + 1].item = visiting[n + 1].item
      BY <1>4, <1>8, <1>9, <3>1
    <3>3. visiting[n + 1].item \in graph[visiting[n].item]
      BY <3>1 DEF IInv, StackIsPath
    <3>4. /\ visiting[n].item \in DOMAIN graph
          /\ visiting[n].left \subseteq graph[visiting[n].item]
          /\ \A b \in graph[visiting[n].item] \ visiting[n].left :
               b \in visited \/ b = visiting[n + 1].item
      BY DEF IInv, StackIsProgress
    <3> QED
      BY <2>2, <3>1, <3>2, <3>3, <3>4
  <2> QED
    BY <2>1, <2>2
<1>11. Visit(i, stack)
  BY <1>2 DEF stack
<1> QED
  BY <1>1, <1>6, <1>8, <1>10, <1>11, VisitStep

\* What the stack is once its top has left.
LEMMA BelowFacts ==
  ASSUME visiting \in Seq(Frame), visiting # <<>>
  PROVE  /\ Below \in Seq(Frame)
         /\ Len(Below) = Len(visiting) - 1
         /\ \A n \in 1..Len(visiting) - 1 : Below[n] = visiting[n]
<1> DEFINE last == Len(visiting)
<1>1. last \in Nat /\ last \in 1..last /\ last - 1 \in Int /\ 1 \in Int
  OBVIOUS
<1>2. \A n \in 1..last - 1 : visiting[n] \in Frame
  BY <1>1
<1>3. /\ Below \in Seq(Frame)
      /\ Len(Below) = IF 1 =< last - 1 THEN last - 1 - 1 + 1 ELSE 0
      /\ \A n \in 1..last - 1 - 1 + 1 : Below[n] = visiting[1 + n - 1]
  BY <1>1, <1>2, SubSeqProperties DEF Below
<1> HIDE DEF last
<1>4. Len(Below) = last - 1
  <2>1. last \in Nat /\ 1 =< last
    BY <1>1
  <2> QED
    BY <1>3, <2>1
<1>5. \A n \in 1..last - 1 : n \in 1..last - 1 - 1 + 1 /\ 1 + n - 1 = n
  BY <1>1
<1>6. \A n \in 1..last - 1 : Below[n] = visiting[n]
  BY <1>3, <1>5
<1> QED
  BY <1>3, <1>4, <1>6 DEF last

LEMMA LeaveStep ==
  ASSUME IInv, Leave
  PROVE  IInv'
<1> DEFINE last == Len(visiting)
           top == Top.item
<1>1. /\ step = "visit" /\ visiting # <<>> /\ Top.left = {}
      /\ visited' = visited \cup {top}
      /\ visiting' = Below
      /\ UNCHANGED <<tracker, fetched, step, graph, reason>>
  BY DEF Leave
<1>2. visiting \in Seq(Frame) /\ last \in 1..last /\ last \in Nat
  BY <1>1 DEF IInv, TypeOK
<1>3. top \in DOMAIN graph /\ graph[top] \subseteq visited
  <2>1. /\ visiting[last].item \in DOMAIN graph
        /\ \A b \in graph[visiting[last].item] \ visiting[last].left : b \in visited
    BY <1>2 DEF IInv, StackIsProgress
  <2> QED
    BY <1>1, <2>1 DEF Top
<1>4. top = visiting[last].item
  BY DEF Top
<1> HIDE DEF top
<1>5. /\ visiting' \in Seq(Frame)
      /\ Len(visiting') = last - 1
      /\ \A n \in 1..last - 1 : visiting'[n] = visiting[n]
  BY <1>1, <1>2, BelowFacts
<1>6. TypeOK'
  BY <1>1, <1>3, <1>5 DEF IInv, TypeOK, tracker, fetched
<1>7. GraphIsClosed' /\ NotYetSearched' /\ AcceptedIsAcyclic' /\ ReportedCycleIsReal'
  BY <1>1 DEF IInv, GraphIsClosed, NotYetSearched, AcceptedIsAcyclic, ReportedCycleIsReal
<1>8. VisitedIsClosed'
  BY <1>1, <1>3 DEF IInv, VisitedIsClosed
<1>9. ASSUME NEW S \in SUBSET (visited \cup {top}), Deadlocked(S)
      PROVE  FALSE
  <2>1. S # {} /\ \A i \in S : graph[i] \cap S # {}
    BY <1>9 DEF Deadlocked
  <2>2. \A i \in visited \cup {top} : graph[i] \subseteq visited
    BY <1>3 DEF IInv, VisitedIsClosed
  <2>3. \A i \in S : graph[i] \cap (S \cap visited) # {}
    BY <2>1, <2>2
  <2>4. S \cap visited # {}
    BY <2>1, <2>3
  <2>5. Deadlocked(S \cap visited)
    BY <2>3, <2>4 DEF Deadlocked
  <2> QED
    BY <2>5 DEF IInv, VisitedIsAcyclic
<1>10. VisitedIsAcyclic'
  BY <1>1, <1>9 DEF VisitedIsAcyclic, Deadlocked
<1>11. StackIsProgress'
  <2> SUFFICES ASSUME NEW n \in 1..last - 1
               PROVE  /\ visiting'[n].item \in DOMAIN graph
                      /\ visiting'[n].left \subseteq graph[visiting'[n].item]
                      /\ \A b \in graph[visiting'[n].item] \ visiting'[n].left :
                           \/ b \in visited'
                           \/ n < last - 1 /\ b = visiting'[n + 1].item
    BY <1>1, <1>5 DEF StackIsProgress
  <2>1. n \in 1..last /\ visiting'[n] = visiting[n]
    BY <1>2, <1>5
  <2>2. n < last - 1 => visiting'[n + 1] = visiting[n + 1]
    BY <1>2, <1>5
  <2>3. n < last - 1 \/ n + 1 = last
    BY <1>2
  <2>4. /\ visiting[n].item \in DOMAIN graph
        /\ visiting[n].left \subseteq graph[visiting[n].item]
        /\ \A b \in graph[visiting[n].item] \ visiting[n].left :
             b \in visited \/ b = visiting[n + 1].item
    BY <2>1 DEF IInv, StackIsProgress
  <2> QED
    BY <1>1, <1>4, <2>1, <2>2, <2>3, <2>4
<1>12. StackIsPath'
  <2> SUFFICES ASSUME NEW n \in 1..(last - 1) - 1
               PROVE  visiting'[n + 1].item \in graph[visiting'[n].item]
    BY <1>1, <1>5 DEF StackIsPath
  <2>1. n \in 1..last - 1 /\ n + 1 \in 1..last - 1
    BY <1>2
  <2> QED
    BY <1>5, <2>1 DEF IInv, StackIsPath
<1> QED
  BY <1>5, <1>6, <1>7, <1>8, <1>10, <1>11, <1>12 DEF IInv

LEMMA AcceptStep ==
  ASSUME IInv, Accept
  PROVE  IInv'
<1>1. /\ step = "visit" /\ DOMAIN graph = visited /\ step' = "accepted"
      /\ UNCHANGED <<tracker, fetched, search, reason>>
  BY DEF Accept
<1>2. TypeOK'
  BY <1>1 DEF IInv, TypeOK, tracker, fetched, search
<1>3. GraphIsClosed' /\ NotYetSearched' /\ ReportedCycleIsReal'
  BY <1>1 DEF IInv, GraphIsClosed, NotYetSearched, ReportedCycleIsReal, search
<1>4. VisitedIsClosed' /\ VisitedIsAcyclic' /\ StackIsProgress' /\ StackIsPath'
  BY <1>1 DEF IInv, VisitedIsClosed, VisitedIsAcyclic, Deadlocked, StackIsProgress, StackIsPath, search
<1>5. AcceptedIsAcyclic'
  BY <1>1, <1>3, <1>4 DEF AcceptedIsAcyclic, GraphIsClosed, VisitedIsAcyclic, search
<1> QED
  BY <1>2, <1>3, <1>4, <1>5 DEF IInv

-----------------------------------------------------------------------------
(* What the tracker says.                                                  *)

\* The page behind what was read continues it.
LEMMA PageContinues ==
  ASSUME TypeOK, Len(candidates) = after,
         \A n \in 1..Len(candidates) :
           candidates[n].id = Team[n] /\ candidates[n].blockers = blocks[Team[n]]
  PROVE  LET read == candidates \o Page(after) IN
         /\ Len(read) = IF after + PageSize > Len(Team) THEN Len(Team) ELSE after + PageSize
         /\ \A n \in 1..Len(read) : read[n].id = Team[n] /\ read[n].blockers = blocks[Team[n]]
<1> DEFINE size == IF after + PageSize > Len(Team) THEN Len(Team) - after ELSE PageSize
           page == Page(after)
           read == candidates \o page
<1>1. size \in Nat /\ after \in Nat /\ Len(Team) \in Nat /\ PageSize \in Nat
  BY TeamFacts, IntakeAssumption DEF TypeOK, Positions
<1>2. page = [n \in 1..size |-> [id |-> Team[after + n], blockers |-> blocks[Team[after + n]]]]
  BY DEF Page
<1>3. after + size = IF after + PageSize > Len(Team) THEN Len(Team) ELSE after + PageSize
  BY <1>1
<1> HIDE DEF size
<1>4. /\ page \in Seq(Candidate) /\ candidates \in Seq(Candidate) /\ Len(candidates) = after
  BY PageType DEF TypeOK, Positions
<1> HIDE DEF page
<1>5. /\ DOMAIN page = 1..size
      /\ \A n \in 1..size :
           page[n].id = Team[after + n] /\ page[n].blockers = blocks[Team[after + n]]
  BY <1>2
<1>l. Len(page) = size
  BY <1>1, <1>4, <1>5
<1>c. /\ Len(read) = Len(candidates) + Len(page)
      /\ \A n \in 1..Len(candidates) + Len(page) :
           read[n] = IF n =< Len(candidates) THEN candidates[n] ELSE page[n - Len(candidates)]
  BY <1>4, ConcatProperties
<1> HIDE DEF read
<1>6. Len(read) = after + size
  BY <1>4, <1>c, <1>l
<1>7. ASSUME NEW n \in 1..Len(read)
      PROVE  read[n].id = Team[n] /\ read[n].blockers = blocks[Team[n]]
  <2>1. CASE n =< after
    <3>1. n \in 1..Len(candidates) /\ read[n] = candidates[n]
      BY <1>1, <1>4, <1>c, <1>6, <1>l, <2>1
    <3> QED
      BY <3>1
  <2>2. CASE n > after
    <3>1. n - after \in 1..size /\ after + (n - after) = n
      BY <1>1, <1>6, <2>2
    <3>2. read[n] = page[n - after]
      BY <1>1, <1>4, <1>c, <1>6, <1>l, <2>2
    <3> QED
      BY <1>5, <3>1, <3>2
  <2> QED
    BY <1>1, <1>6, <2>1, <2>2
<1> QED
  BY <1>3, <1>6, <1>7 DEF read, page

\* The whole team compiles to the relation of the tracker.
LEMMA TeamCompiles ==
  ASSUME TypeOK, Len(candidates) = Len(Team),
         \A n \in 1..Len(candidates) :
           candidates[n].id = Team[n] /\ candidates[n].blockers = blocks[Team[n]]
  PROVE  DOMAIN Compiled = Issues /\ \A i \in Issues : Compiled[i] = blocks[i]
<1>1. Ids = Issues
  BY DEF Ids, Issues
<1>2. ASSUME NEW i \in Issues PROVE Compiled[i] = blocks[i]
  <2> DEFINE k == CHOOSE n \in 1..Len(candidates) : candidates[n].id = i
  <2>1. Compiled[i] = candidates[k].blockers
    BY <1>1 DEF Compiled
  <2>2. k \in 1..Len(candidates) /\ candidates[k].id = i
    BY <1>1 DEF Ids
  <2> HIDE DEF k
  <2> QED
    BY <2>1, <2>2
<1> QED
  BY <1>1, <1>2 DEF Compiled

LEMMA FaithfulFetch ==
  ASSUME TypeOK, Faithful, FetchPage \/ WrongCursor \/ EmptyAnswer \/ ServerError \/ Edit
  PROVE  Faithful'
<1>1. step = "fetch" /\ UNCHANGED search /\ reason.code = "none"
  BY DEF FetchPage, WrongCursor, EmptyAnswer, ServerError, Edit, Faithful, ReasonIsFinal
<1>2. reason' = reason \/ (reason'.code \in {"transport", "cursor"} /\ step' = "refused")
  <2>1. \A code \in {"transport", "cursor"} : reason' = [code |-> code, cycle |-> <<>>] =>
          reason'.code \in {"transport", "cursor"}
    OBVIOUS
  <2>2. CASE FetchPage \/ WrongCursor
    <3>1. PICK cursor, position : TurnPage(cursor, position) \/ reason' = reason
      BY <2>2 DEF FetchPage, WrongCursor
    <3>2. reason' = reason \/ (step' = "refused" /\ reason' = [code |-> "cursor", cycle |-> <<>>])
      BY <3>1 DEF TurnPage, Refuse
    <3> QED
      BY <2>1, <3>2
  <2>3. CASE ServerError
    <3>1. reason' = reason \/ (step' = "refused" /\ reason' = [code |-> "transport", cycle |-> <<>>])
      BY <2>3 DEF ServerError, Refuse
    <3> QED
      BY <2>1, <3>1
  <2>4. CASE EmptyAnswer \/ Edit
    BY <2>4 DEF EmptyAnswer, Edit
  <2> QED
    BY <2>2, <2>3, <2>4
<1>3. MissingIsReal' /\ ReasonIsFinal'
  BY <1>1, <1>2 DEF MissingIsReal, ReasonIsFinal
<1>4. ASSUME edits' = 0, ~malformed' PROVE FetchPage \/ ServerError
  BY <1>4, IntakeAssumption DEF WrongCursor, EmptyAnswer, Edit, TypeOK
<1>5. CASE FetchPage
  <2> SUFFICES ASSUME edits = 0, ~malformed PROVE ReadFaithfully'
    BY <1>3, <1>5 DEF ReadFaithfully, Faithful, FetchPage, tracker
  <2>1. /\ Len(candidates) = after
        /\ \A n \in 1..Len(candidates) :
             candidates[n].id = Team[n] /\ candidates[n].blockers = blocks[Team[n]]
    BY <1>1 DEF Faithful, ReadFaithfully
  <2>2. candidates' = candidates \o Page(after) /\ blocks' = blocks
    BY <1>5 DEF FetchPage, TurnPage, tracker
  <2>3. /\ Len(candidates') = IF after + PageSize > Len(Team) THEN Len(Team) ELSE after + PageSize
        /\ \A n \in 1..Len(candidates') :
             candidates'[n].id = Team[n] /\ candidates'[n].blockers = blocks[Team[n]]
    BY <2>1, <2>2, PageContinues
  <2>4. /\ step' = "fetch" => after + PageSize < Len(Team) /\ after' = after + PageSize
        /\ step' = "compile" => ~(after + PageSize < Len(Team))
        /\ step' \in {"fetch", "compile", "refused"}
    BY <1>1, <1>5 DEF FetchPage, TurnPage, Refuse
  <2>5. after \in Nat /\ PageSize \in Nat /\ Len(Team) \in Nat
    BY TeamFacts, IntakeAssumption DEF TypeOK, Positions
  <2>6. /\ step' = "fetch" => Len(candidates') = after'
        /\ step' = "compile" => Len(candidates') = Len(Team)
    BY <2>3, <2>4, <2>5
  <2> QED
    BY <1>1, <1>2, <2>2, <2>3, <2>4, <2>6 DEF ReadFaithfully
<1>6. CASE ServerError
  <2>1. /\ UNCHANGED <<blocks, edits, malformed, after, candidates, graph>>
        /\ step' \in {"fetch", "refused"}
    BY <1>1, <1>6 DEF ServerError, Refuse, search
  <2> QED
    BY <1>1, <1>2, <1>3, <2>1 DEF ReadFaithfully, Faithful
<1> QED
  BY <1>3, <1>4, <1>5, <1>6 DEF Faithful, ReadFaithfully

LEMMA FaithfulCompile ==
  ASSUME TypeOK, Faithful, Compile
  PROVE  Faithful'
<1>1. /\ step = "compile" /\ graph' = Compiled /\ UNCHANGED tracker /\ reason.code = "none"
      /\ step' \in {"visit", "refused"}
      /\ reason' = reason \/ step' = "refused"
      /\ reason'.code = "missing" => \E i \in Ids : ~(Compiled[i] \subseteq Ids)
  BY DEF Compile, Refuse, Faithful, ReasonIsFinal
<1>2. DOMAIN Compiled = Ids
  BY DEF Compiled
<1>3. MissingIsReal' /\ ReasonIsFinal'
  BY <1>1, <1>2 DEF MissingIsReal, ReasonIsFinal
<1>4. edits = 0 /\ ~malformed =>
        DOMAIN Compiled = Issues /\ \A i \in Issues : Compiled[i] = blocks[i]
  BY <1>1, TeamCompiles DEF Faithful, ReadFaithfully
<1>5. ReadFaithfully'
  BY <1>1, <1>4 DEF ReadFaithfully, tracker
<1> QED
  BY <1>3, <1>5 DEF Faithful

LEMMA FaithfulStep ==
  ASSUME TypeOK, Faithful, [Next]_vars
  PROVE  Faithful'
<1>1. CASE VisitRoot \/ VisitBlocker \/ Leave \/ Accept
  <2>1. /\ step = "visit" /\ UNCHANGED <<tracker, graph>> /\ step' \in {"visit", "accepted", "refused"}
        /\ reason' = reason \/ (reason'.code = "cycle" /\ step' = "refused")
    <3>1. ASSUME NEW i, NEW stack, Visit(i, stack)
          PROVE  UNCHANGED <<step, reason>> \/ (reason'.code = "cycle" /\ step' = "refused")
      BY <3>1 DEF Visit, Refuse
    <3>2. CASE VisitRoot
      BY <3>1, <3>2 DEF VisitRoot
    <3>3. CASE VisitBlocker
      <4>1. PICK i \in Top.left : Visit(i, [visiting EXCEPT ![Len(visiting)].left = @ \ {i}])
        BY <3>3 DEF VisitBlocker
      <4>2. UNCHANGED <<step, reason>> \/ (reason'.code = "cycle" /\ step' = "refused")
        BY <3>1, <4>1, Zenon
      <4> QED
        BY <3>3, <4>2 DEF VisitBlocker
    <3>4. CASE Leave \/ Accept
      BY <3>4 DEF Leave, Accept, search
    <3> QED
      BY <1>1, <3>2, <3>3, <3>4
  <2> QED
    BY <2>1 DEF Faithful, ReadFaithfully, MissingIsReal, ReasonIsFinal, tracker
<1>2. CASE UNCHANGED vars
  BY <1>2 DEF Faithful, ReadFaithfully, MissingIsReal, ReasonIsFinal, vars, tracker, fetched, search
<1> QED
  BY <1>1, <1>2, FaithfulFetch, FaithfulCompile DEF Next, Intake

\* A cycle is a set that waits for itself.
LEMMA CycleWaits ==
  ASSUME TypeOK, ReportedCycleIsReal, reason.code = "cycle"
  PROVE  \E S \in SUBSET Issues : Deadlocked(S)
<1> DEFINE c == reason.cycle
           S == {c[n] : n \in 1..Len(c)}
<1>1. /\ c \in Seq(Issues) /\ Len(c) \in Nat /\ Len(c) > 1 /\ c[1] = c[Len(c)]
      /\ \A n \in 1..Len(c) - 1 : c[n + 1] \in graph[c[n]]
  BY DEF TypeOK, ReportedCycleIsReal
<1> HIDE DEF c
<1>2. S \in SUBSET Issues /\ S # {}
  BY <1>1
<1>3. ASSUME NEW n \in 1..Len(c) PROVE graph[c[n]] \cap S # {}
  <2>1. CASE n < Len(c)
    <3>1. n \in 1..Len(c) - 1 /\ n + 1 \in 1..Len(c)
      BY <1>1, <2>1
    <3> QED
      BY <1>1, <3>1
  <2>2. CASE n = Len(c)
    <3>1. 1 \in 1..Len(c) - 1 /\ 1 + 1 \in 1..Len(c) /\ c[n] = c[1]
      BY <1>1, <2>2
    <3> QED
      BY <1>1, <3>1
  <2> QED
    BY <1>1, <2>1, <2>2
<1>4. Deadlocked(S)
  BY <1>2, <1>3 DEF Deadlocked
<1> HIDE DEF S
<1> QED
  BY <1>2, <1>4

LEMMA JudgedRight ==
  ASSUME IInv, Faithful
  PROVE  SettledTeamIsJudgedRight
<1> DEFINE complete == DOMAIN graph = Issues /\ \A i \in Issues : graph[i] = blocks[i]
           sound == /\ \A i \in Issues : blocks[i] \subseteq Issues
                    /\ \A S \in SUBSET Issues :
                         S # {} => \E i \in S : blocks[i] \cap S = {}
<1> SUFFICES ASSUME edits = 0, ~malformed
             PROVE  /\ step = "accepted" => complete /\ sound
                    /\ reason.code \in {"missing", "cycle"} => complete /\ ~sound
  BY DEF SettledTeamIsJudgedRight
<1>1. step = "accepted" \/ reason.code \in {"missing", "cycle"} => complete
  BY DEF Faithful, ReadFaithfully
<1>2. ASSUME step = "accepted" PROVE sound
  <2>1. \A i \in Issues : blocks[i] \subseteq Issues
    BY <1>1, <1>2 DEF IInv, AcceptedIsAcyclic
  <2>2. ASSUME NEW S \in SUBSET Issues, S # {} PROVE \E i \in S : blocks[i] \cap S = {}
    BY <1>1, <1>2, <2>2 DEF IInv, AcceptedIsAcyclic, Deadlocked
  <2> QED
    BY <2>1, <2>2
<1>3. ASSUME reason.code = "missing" PROVE ~sound
  BY <1>1, <1>3 DEF Faithful, MissingIsReal
<1>4. ASSUME reason.code = "cycle" PROVE ~sound
  <2>1. PICK S \in SUBSET Issues : Deadlocked(S)
    BY <1>4, CycleWaits DEF IInv
  <2> QED
    BY <1>1, <1>4, <2>1 DEF Deadlocked
<1> QED
  BY <1>1, <1>2, <1>3, <1>4

-----------------------------------------------------------------------------
(* The theorems.                                                           *)

LEMMA Initially == Init => IInv
<1> SUFFICES ASSUME Init PROVE IInv
  OBVIOUS
<1> USE IntakeAssumption, TeamFacts DEF Init, NoReason
<1>1. graph = <<>> /\ DOMAIN graph = {} /\ Len(visiting) = 0 /\ visited = {}
  OBVIOUS
<1>2. reason.code = "none" /\ reason.cycle = <<>> /\ <<>> \in Seq(Issues)
  OBVIOUS
<1>3. TypeOK
  <2>1. graph \in [DOMAIN graph -> SUBSET (Issues \cup Foreign)]
    BY <1>1
  <2>2. 0 \in Positions /\ 0 \in 0..MaxRetries /\ 0 \in 0..MaxEdits /\ 0 \in 0..MaxErrors
    BY DEF Positions
  <2>3. candidates \in Seq(Candidate) /\ visiting \in Seq(Frame) /\ visited \subseteq DOMAIN graph
    BY <1>1
  <2>4. /\ blocks \in [Issues -> SUBSET (Issues \cup Foreign)]
        /\ edits \in 0..MaxEdits /\ errors \in 0..MaxErrors /\ malformed \in BOOLEAN
        /\ step \in {"fetch", "compile", "visit", "accepted", "refused"}
        /\ after \in Positions /\ seenCursors \subseteq Cursors /\ tries \in 0..MaxRetries
    BY <2>2
  <2>5. DOMAIN graph \subseteq Issues
    BY <1>1
  <2>6. reason.code \in {"none", "transport", "cursor", "duplicate", "missing", "cycle"}
        /\ reason.cycle \in Seq(Issues)
    BY <1>2
  <2> HIDE DEF Init, NoReason
  <2> QED
    BY <2>1, <2>3, <2>4, <2>5, <2>6 DEF TypeOK
<1>4. GraphIsClosed /\ NotYetSearched /\ AcceptedIsAcyclic /\ ReportedCycleIsReal
  BY <1>2 DEF GraphIsClosed, NotYetSearched, AcceptedIsAcyclic, ReportedCycleIsReal
<1>5. VisitedIsClosed /\ VisitedIsAcyclic
  BY <1>1 DEF VisitedIsClosed, VisitedIsAcyclic, Deadlocked
<1>6. StackIsProgress /\ StackIsPath
  BY <1>1 DEF StackIsProgress, StackIsPath
<1> QED
  BY <1>3, <1>4, <1>5, <1>6 DEF IInv

LEMMA Inductive == IInv /\ [Next]_vars => IInv'
<1> SUFFICES ASSUME IInv, [Next]_vars PROVE IInv'
  OBVIOUS
<1>1. CASE FetchPage \/ WrongCursor \/ EmptyAnswer \/ ServerError \/ Edit
  BY <1>1, FetchStep
<1>2. CASE Compile
  BY <1>2, CompileStep
<1>3. CASE VisitRoot
  BY <1>3, RootStep
<1>4. CASE VisitBlocker
  BY <1>4, BlockerStep
<1>5. CASE Leave
  BY <1>5, LeaveStep
<1>6. CASE Accept
  BY <1>6, AcceptStep
<1>7. CASE UNCHANGED vars
  BY <1>7 DEF IInv, vars, tracker, fetched, search, TypeOK, GraphIsClosed, NotYetSearched,
              VisitedIsClosed, VisitedIsAcyclic, Deadlocked, StackIsProgress, StackIsPath,
              AcceptedIsAcyclic, ReportedCycleIsReal
<1> QED
  BY <1>1, <1>2, <1>3, <1>4, <1>5, <1>6, <1>7 DEF Next, Intake

LEMMA Invariant == Spec => []IInv
BY Initially, Inductive, PTL DEF Spec

\* Every state of the intake is well-typed.
THEOREM IntakeTyped == Spec => []TypeOK
<1>1. IInv => TypeOK
  BY DEF IInv
<1> QED
  BY <1>1, Invariant, PTL

\* What compile_dependency_graph accepts has every blocker among its items and no
\* set of items that waits for itself, for every team and every edit of the
\* relation between the pages.
THEOREM AcceptedCanBeDelivered == Spec => []AcceptedIsAcyclic
<1>1. IInv => AcceptedIsAcyclic
  BY DEF IInv
<1> QED
  BY <1>1, Invariant, PTL

\* The cycle a DependencyGraphError reports is a cycle of the compiled graph.
THEOREM CyclesAreReal == Spec => []ReportedCycleIsReal
<1>1. IInv => ReportedCycleIsReal
  BY DEF IInv
<1> QED
  BY <1>1, Invariant, PTL

\* When nobody edited the relation and every answer was well-formed, the team that
\* fetch_candidates read page by page is judged by what the tracker says, however
\* often a request was repeated.
THEOREM TeamJudgedRight == Spec => []SettledTeamIsJudgedRight
<1>1. Init => Faithful
  <2> SUFFICES ASSUME Init PROVE Faithful
    OBVIOUS
  <2>1. /\ step = "fetch" /\ after = 0 /\ candidates = <<>> /\ reason.code = "none"
        /\ Len(candidates) = 0
    BY DEF Init, NoReason
  <2> QED
    BY <2>1 DEF Faithful, ReadFaithfully, MissingIsReal, ReasonIsFinal
<1>2. (IInv /\ Faithful) /\ [Next]_vars => (IInv /\ Faithful)'
  BY Inductive, FaithfulStep DEF IInv
<1>3. IInv /\ Faithful => SettledTeamIsJudgedRight
  BY JudgedRight
<1> QED
  BY Initially, <1>1, <1>2, <1>3, PTL DEF Spec

-----------------------------------------------------------------------------
(* The intake ends: every step brings it closer to its end.                *)

\* The phases that are still to come.
Rank == IF step = "fetch" THEN 3 ELSE IF step = "compile" THEN 2
        ELSE IF step = "visit" THEN 1 ELSE 0

\* The cursors that could still be followed, and the items the search has still to
\* come to.
UnseenCursors == Cursors \ seenCursors
Unreached == DOMAIN graph \ (visited \cup OnStack)

LeftOnTop == IF visiting = <<>> THEN {} ELSE Top.left

\* How far the intake is from its end, the most significant number first.
Distance ==
  <<Rank, Cardinality(UnseenCursors), MaxRetries - tries,
    Cardinality(Unreached), Len(visiting), Cardinality(LeftOnTop)>>

\* The lexicographic order, which is well-founded on natural numbers.
Shorter(d, e) ==
  \E k \in 1..6 : d[k] < e[k] /\ \A j \in 1..(k - 1) : d[j] = e[j]

LEMMA ComesCloser ==
  ASSUME \/ Rank' < Rank
         \/ Rank' = Rank /\ Cardinality(UnseenCursors') < Cardinality(UnseenCursors)
         \/ Rank' = Rank /\ UnseenCursors' = UnseenCursors
              /\ MaxRetries - tries' < MaxRetries - tries
         \/ /\ Rank' = Rank /\ UNCHANGED <<seenCursors, tries>>
            /\ \/ Cardinality(Unreached') < Cardinality(Unreached)
               \/ Unreached' = Unreached /\ Len(visiting') < Len(visiting)
               \/ Unreached' = Unreached /\ Len(visiting') = Len(visiting)
                    /\ Cardinality(LeftOnTop') < Cardinality(LeftOnTop)
  PROVE  Shorter(Distance', Distance)
<1> DEFINE d == Distance'
           e == Distance
<1>1. /\ d[1] = Rank' /\ d[2] = Cardinality(UnseenCursors') /\ d[3] = MaxRetries - tries'
      /\ d[4] = Cardinality(Unreached') /\ d[5] = Len(visiting')
      /\ d[6] = Cardinality(LeftOnTop')
  BY DEF Distance
<1>2. /\ e[1] = Rank /\ e[2] = Cardinality(UnseenCursors) /\ e[3] = MaxRetries - tries
      /\ e[4] = Cardinality(Unreached) /\ e[5] = Len(visiting)
      /\ e[6] = Cardinality(LeftOnTop)
  BY DEF Distance
<1>3. UNCHANGED seenCursors => UnseenCursors' = UnseenCursors
  BY DEF UnseenCursors
<1> HIDE DEF d, e
<1>4. \/ d[1] < e[1]
      \/ d[1] = e[1] /\ d[2] < e[2]
      \/ d[1] = e[1] /\ d[2] = e[2] /\ d[3] < e[3]
      \/ d[1] = e[1] /\ d[2] = e[2] /\ d[3] = e[3] /\ d[4] < e[4]
      \/ d[1] = e[1] /\ d[2] = e[2] /\ d[3] = e[3] /\ d[4] = e[4] /\ d[5] < e[5]
      \/ /\ d[1] = e[1] /\ d[2] = e[2] /\ d[3] = e[3] /\ d[4] = e[4] /\ d[5] = e[5]
         /\ d[6] < e[6]
  BY <1>1, <1>2, <1>3
<1>5. Shorter(d, e)
  <2>1. /\ 1 - 1 = 0 /\ 2 - 1 = 1 /\ 3 - 1 = 2 /\ 4 - 1 = 3 /\ 5 - 1 = 4 /\ 6 - 1 = 5
        /\ \A k \in 1..6 : \A j \in 1..(k - 1) : j \in 1..5 /\ j < k
    OBVIOUS
  <2>2. \A j \in 1..5 : j = 1 \/ j = 2 \/ j = 3 \/ j = 4 \/ j = 5
    OBVIOUS
  <2> QED
    BY <1>4, <2>1, <2>2 DEF Shorter
<1> QED
  BY <1>5 DEF d, e

\* Everything that is counted is finite, so that each number is a natural one.
LEMMA FiniteParts ==
  ASSUME TypeOK
  PROVE  /\ IsFiniteSet(UnseenCursors) /\ IsFiniteSet(Issues)
         /\ IsFiniteSet(Unreached)
         /\ \A n \in 1..Len(visiting) : IsFiniteSet(visiting[n].left)
<1>1. IsFiniteSet(Cursors) /\ IsFiniteSet(1..Len(Team))
  BY TeamFacts, IntakeAssumption, FS_Interval DEF Cursors
<1>2. IsFiniteSet(Issues)
  <2> DEFINE f == [n \in 1..Len(Team) |-> Team[n]]
  <2>1. Issues = {f[n] : n \in 1..Len(Team)} /\ DOMAIN f = 1..Len(Team)
    BY DEF Issues
  <2>2. f \in [1..Len(Team) -> Issues]
    BY DEF f, Issues
  <2> HIDE DEF f
  <2>3. f \in Surjection(1..Len(Team), Issues)
    BY <2>1, <2>2 DEF Surjection
  <2> QED
    BY <1>1, <2>3, FS_Surjection
<1>3. Unreached \subseteq Issues
  BY DEF TypeOK, Unreached
<1>4. \A n \in 1..Len(visiting) : visiting[n].left \subseteq Issues
  <2>1. \A n \in 1..Len(visiting) : visiting[n] \in Frame
    BY DEF TypeOK
  <2> QED
    BY <2>1 DEF Frame
<1> QED
  BY <1>1, <1>2, <1>3, <1>4, FS_Subset DEF UnseenCursors

LEMMA DistanceType ==
  ASSUME TypeOK
  PROVE  Distance \in [1..6 -> Nat]
<1>1. IsFiniteSet(LeftOnTop)
  <2>1. CASE visiting = <<>>
    BY <2>1, FS_EmptySet DEF LeftOnTop
  <2>2. CASE visiting # <<>>
    <3>1. Len(visiting) \in 1..Len(visiting)
      BY <2>2 DEF TypeOK
    <3> QED
      BY <2>2, <3>1, FiniteParts DEF LeftOnTop, Top
  <2> QED
    BY <2>1, <2>2
<1>2. /\ Rank \in Nat /\ MaxRetries - tries \in Nat /\ Len(visiting) \in Nat
  BY IntakeAssumption DEF Rank, TypeOK
<1>3. /\ Cardinality(UnseenCursors) \in Nat /\ Cardinality(Unreached) \in Nat
      /\ Cardinality(LeftOnTop) \in Nat
  BY <1>1, FiniteParts, FS_CardinalityType
<1> QED
  BY <1>2, <1>3 DEF Distance

\* A set that loses an element has fewer.
LEMMA FewerWithout ==
  ASSUME NEW S, IsFiniteSet(S), NEW x \in S, NEW T, T \subseteq S, x \notin T
  PROVE  Cardinality(T) < Cardinality(S)
<1>1. IsFiniteSet(S \ {x}) /\ T \subseteq S \ {x}
  BY FS_Subset
<1>2. Cardinality(S \ {x}) = Cardinality(S) - 1 /\ Cardinality(S) \in Nat
  BY FS_RemoveElement, FS_CardinalityType
<1>3. Cardinality(T) =< Cardinality(S \ {x}) /\ Cardinality(T) \in Nat
  BY <1>1, FS_Subset, FS_CardinalityType
<1> QED
  BY <1>2, <1>3

\* The listing: a page is followed by one that was not seen before, and a request is
\* repeated a limited number of times.
LEMMA FetchComesCloser ==
  ASSUME IInv, FetchPage \/ WrongCursor \/ EmptyAnswer \/ ServerError
  PROVE  Shorter(Distance', Distance)
<1>1. TypeOK /\ TypeOK' /\ step = "fetch" /\ step' \in {"fetch", "compile", "refused"}
  BY FetchType DEF IInv
<1>2. step' # "fetch" => Rank' < Rank
  BY <1>1 DEF Rank
<1>3. step' = "fetch" => Rank' = Rank
  BY <1>1 DEF Rank
<1>4. ASSUME NEW cursor \in Cursors, NEW position, TurnPage(cursor, position),
             step' = "fetch"
      PROVE  Cardinality(UnseenCursors') < Cardinality(UnseenCursors)
  <2>1. cursor \notin seenCursors /\ seenCursors' = seenCursors \cup {cursor}
    BY <1>4 DEF TurnPage, Refuse
  <2>2. /\ cursor \in UnseenCursors /\ cursor \notin UnseenCursors'
        /\ UnseenCursors' \subseteq UnseenCursors
    BY <2>1 DEF UnseenCursors
  <2> QED
    BY <1>1, <2>2, FewerWithout, FiniteParts
<1>5. CASE FetchPage /\ step' = "fetch"
  <2>1. after + PageSize < Len(Team) /\ TurnPage(after + PageSize, after + PageSize)
    BY <1>5 DEF FetchPage
  <2>2. after + PageSize \in Cursors
    <3>1. after \in Nat /\ PageSize \in Nat /\ Len(Team) \in Nat
      BY <1>1, TeamFacts, IntakeAssumption DEF TypeOK, Positions
    <3> QED
      BY <2>1, <3>1, IntakeAssumption DEF Cursors
  <2> QED
    BY <1>3, <1>4, <1>5, <2>1, <2>2, ComesCloser
<1>6. CASE WrongCursor /\ step' = "fetch"
  BY <1>3, <1>4, <1>6, ComesCloser DEF WrongCursor
<1>7. CASE ServerError /\ step' = "fetch"
  <2>1. tries' = tries + 1 /\ UNCHANGED seenCursors /\ tries \in Nat
    BY <1>1, <1>7, IntakeAssumption DEF ServerError, Refuse, TypeOK
  <2>2. UnseenCursors' = UnseenCursors /\ MaxRetries - tries' < MaxRetries - tries
    BY <2>1, IntakeAssumption DEF UnseenCursors
  <2> QED
    BY <1>3, <1>7, <2>2, ComesCloser
<1>8. CASE EmptyAnswer
  BY <1>2, <1>8, ComesCloser DEF EmptyAnswer
<1> QED
  BY <1>2, <1>5, <1>6, <1>7, <1>8, ComesCloser

\* An item that is pushed was not reached before.
LEMMA PushComesCloser ==
  ASSUME IInv, step = "visit", NEW i \in DOMAIN graph, i \notin visited, i \notin OnStack,
         NEW stack \in Seq(Frame), visiting' = Push(stack, i),
         \A n \in 1..Len(visiting) : visiting[n].item \in {stack[m].item : m \in 1..Len(stack)},
         UNCHANGED <<step, graph, visited, seenCursors, tries>>
  PROVE  Shorter(Distance', Distance)
<1>1. i \in Unreached
  BY DEF Unreached
<1>2. Len(stack) \in Nat /\ Len(visiting') = Len(stack) + 1
      /\ visiting'[Len(stack) + 1].item = i
      /\ \A m \in 1..Len(stack) : visiting'[m] = stack[m]
  BY DEF Push
<1>3. OnStack \cup {i} \subseteq OnStack'
  <2>1. i \in OnStack'
    <3>1. Len(stack) + 1 \in 1..Len(visiting')
      BY <1>2
    <3> QED
      BY <1>2, <3>1 DEF OnStack
  <2>2. ASSUME NEW n \in 1..Len(visiting) PROVE visiting[n].item \in OnStack'
    <3>1. PICK m \in 1..Len(stack) : stack[m].item = visiting[n].item
      OBVIOUS
    <3>2. m \in 1..Len(visiting') /\ visiting'[m].item = visiting[n].item
      BY <1>2, <3>1
    <3> QED
      BY <3>2 DEF OnStack
  <2> QED
    BY <2>1, <2>2 DEF OnStack
<1>4. Unreached' \subseteq Unreached /\ i \notin Unreached'
  BY <1>3 DEF Unreached
<1>5. Rank' = Rank
  BY DEF Rank
<1> QED
  BY <1>1, <1>4, <1>5, ComesCloser, FewerWithout, FiniteParts DEF IInv

LEMMA RootComesCloser ==
  ASSUME IInv, VisitRoot
  PROVE  Shorter(Distance', Distance)
<1>1. PICK i \in DOMAIN graph \ visited : Visit(i, <<>>)
  BY DEF VisitRoot
<1>2. step = "visit" /\ Len(visiting) = 0 /\ UNCHANGED <<graph, visited, seenCursors, tries>>
  BY DEF VisitRoot, fetched
<1>3. OnStack = {} /\ <<>> \in Seq(Frame)
  BY <1>2 DEF OnStack
<1>4. visiting' = Push(<<>>, i) /\ UNCHANGED step
  BY <1>1, <1>3 DEF Visit
<1>5. \A n \in 1..Len(visiting) : visiting[n].item \in {<<>>[m].item : m \in 1..Len(<<>>)}
  BY <1>2
<1> QED
  BY <1>1, <1>2, <1>3, <1>4, <1>5, PushComesCloser

\* One blocker less is left, or it is an item nobody came to before, or it closes a
\* cycle.
LEMMA BlockerComesCloser ==
  ASSUME IInv, VisitBlocker
  PROVE  Shorter(Distance', Distance)
<1> DEFINE last == Len(visiting)
<1>1. step = "visit" /\ visiting # <<>> /\ UNCHANGED <<graph, visited, seenCursors, tries>>
  BY DEF VisitBlocker, fetched
<1>2. TypeOK /\ visiting \in Seq(Frame) /\ last \in Nat /\ last \in 1..last
  BY <1>1 DEF IInv, TypeOK
<1>3. PICK i \in Top.left : Visit(i, [visiting EXCEPT ![last].left = @ \ {i}])
  BY DEF VisitBlocker
<1> DEFINE stack == [visiting EXCEPT ![last].left = @ \ {i}]
<1>4. Top = visiting[last] /\ Top \in Frame
  BY <1>2 DEF Top
<1>5. /\ Len(stack) = last
      /\ \A n \in 1..last : stack[n].item = visiting[n].item
      /\ stack[last].left = Top.left \ {i}
      /\ stack \in Seq(Frame)
  <2>1. [Top EXCEPT !.left = @ \ {i}] \in Frame
        /\ [Top EXCEPT !.left = @ \ {i}].item = Top.item
        /\ [Top EXCEPT !.left = @ \ {i}].left = Top.left \ {i}
    BY <1>4 DEF Frame
  <2>2. stack = [visiting EXCEPT ![last] = [Top EXCEPT !.left = @ \ {i}]]
    BY <1>2, <1>4
  <2> HIDE DEF stack
  <2> QED
    BY <1>2, <1>4, <2>1, <2>2
<1>6. i \in DOMAIN graph
  BY <1>1, <1>2, <1>3, <1>4 DEF IInv, StackIsProgress, GraphIsClosed
<1> HIDE DEF stack
<1>7. CASE i \in OnStack
  <2>1. step' = "refused"
    BY <1>3, <1>7 DEF Visit, Refuse
  <2> QED
    BY <1>1, <2>1, ComesCloser DEF Rank
<1>8. CASE i \notin OnStack /\ i \notin visited
  <2>1. visiting' = Push(stack, i) /\ UNCHANGED step
    BY <1>3, <1>8 DEF Visit, stack
  <2> QED
    BY <1>1, <1>2, <1>5, <1>6, <1>8, <2>1, PushComesCloser
<1>9. CASE i \notin OnStack /\ i \in visited
  <2>1. visiting' = stack /\ UNCHANGED step
    BY <1>3, <1>9 DEF Visit, stack
  <2>2. OnStack' = OnStack
    BY <1>2, <1>5, <2>1 DEF OnStack
  <2>3. Unreached' = Unreached /\ Rank' = Rank
    BY <1>1, <2>1, <2>2 DEF Unreached, Rank
  <2>4. LeftOnTop = Top.left /\ LeftOnTop' = Top.left \ {i}
    BY <1>1, <1>2, <1>5, <2>1 DEF LeftOnTop, Top
  <2>5. IsFiniteSet(Top.left)
    BY <1>2, <1>4, FiniteParts
  <2>6. Cardinality(LeftOnTop') < Cardinality(LeftOnTop)
    BY <1>3, <2>4, <2>5, FewerWithout
  <2> QED
    BY <1>1, <1>5, <2>1, <2>3, <2>6, ComesCloser
<1> QED
  BY <1>7, <1>8, <1>9

\* The stack shrinks, and what leaves it is visited.
LEMMA LeaveComesCloser ==
  ASSUME IInv, Leave
  PROVE  Shorter(Distance', Distance)
<1> DEFINE last == Len(visiting)
<1>1. /\ step = "visit" /\ visiting # <<>> /\ visited' = visited \cup {Top.item}
      /\ visiting' = Below
      /\ UNCHANGED <<step, graph, seenCursors, tries>>
  BY DEF Leave, fetched
<1>2. visiting \in Seq(Frame) /\ last \in Nat /\ last \in 1..last
  BY <1>1 DEF IInv, TypeOK
<1>3. Len(visiting') = last - 1 /\ \A n \in 1..(last - 1) : visiting'[n] = visiting[n]
  BY <1>1, <1>2, BelowFacts
<1>4. \A n \in 1..last : n = last \/ n \in 1..(last - 1)
  BY <1>2
<1>5. visited' \cup OnStack' = visited \cup OnStack
  BY <1>1, <1>2, <1>3, <1>4 DEF OnStack, Top
<1>6. Unreached' = Unreached /\ Rank' = Rank
  BY <1>1, <1>5 DEF Unreached, Rank
<1> QED
  BY <1>1, <1>2, <1>3, <1>6, ComesCloser

\* Whatever the relation is, and as long as the server has only finitely many cursors
\* to invent (MaxInvented may be any number), every step of the intake brings it
\* closer to its end, by a measure that counts what is limited: the cursors left to
\* repeat none of, and the code's own retries, items and blockers; people who edit the relation do not move
\* it (linear_adapter.py fetch_candidates, contracts.py compile_dependency_graph).
\* The order of the measure is well-founded, so the intake makes finitely many steps.
\* This is the safety part of IntakeEnds.
THEOREM IntakeComesCloser ==
  Spec => /\ [](Distance \in [1..6 -> Nat])
          /\ [][ /\ Intake => Shorter(Distance', Distance)
                 /\ Edit => Distance' = Distance ]_vars
<1>1. IInv => Distance \in [1..6 -> Nat]
  BY DistanceType DEF IInv
<1>2. ASSUME IInv, Intake PROVE Shorter(Distance', Distance)
  <2>1. CASE Compile
    <3>1. step = "compile" /\ step' \in {"visit", "refused"}
      BY <2>1 DEF Compile, Refuse
    <3> QED
      BY <3>1, ComesCloser DEF Rank
  <2>2. CASE Accept
    <3>1. step = "visit" /\ step' = "accepted"
      BY <2>2 DEF Accept
    <3> QED
      BY <3>1, ComesCloser DEF Rank
  <2> QED
    BY <1>2, <2>1, <2>2, FetchComesCloser, RootComesCloser, BlockerComesCloser,
       LeaveComesCloser DEF Intake
<1>3. ASSUME Edit PROVE Distance' = Distance
  BY <1>3 DEF Edit, fetched, search, Distance, Rank, UnseenCursors, Unreached, OnStack,
              LeftOnTop, Top
<1>4. IInv /\ [Next]_vars =>
        [ /\ Intake => Shorter(Distance', Distance)
          /\ Edit => Distance' = Distance ]_vars
  BY <1>2, <1>3
<1> QED
  BY <1>1, <1>4, Invariant, PTL DEF Spec

-----------------------------------------------------------------------------
(* The observer of pull requests, for any reviewers and number of pushes.  *)

VARIABLE reading  \* the observer's step

Observer == INSTANCE PullRequestObserver WITH step <- reading

Observation ==
  [workspace : {RealWorkspace}, base : {"base"}, initialHead : {"base"},
   prHead : Observer!Heads \cup {NoHead}, merged : BOOLEAN,
   ciHead : Observer!Heads \cup {NoHead}, ciPending : BOOLEAN, ciPassed : BOOLEAN,
   approvals : {0} \cup {Observer!Cardinality(S) : S \in SUBSET Reviewers}, changesOpen : BOOLEAN,
   reviewersOk : BOOLEAN, ancestor : BOOLEAN, inTarget : {"unknown", "yes", "no"},
   linked : BOOLEAN]

\* What was read of the pull request, and is never taken back: a merge, together
\* with the head that was merged, checks that passed, and the ancestry of a head.
SeenStaysTrue ==
  /\ seen.merged => merged /\ seen.prHead = head
  /\ seen.ciPassed => seen.prHead \in Observer!Heads /\ checks[seen.prHead] = "passed"
  /\ seen.ancestor => seen.prHead \in descends

\* A reconciliation starts with nothing seen, unless the item is approved, and goes
\* past the first read with a head only.
ReadsInOrder ==
  /\ reading = "idle" => seen = Observer!NothingSeen \/ Approved
  /\ reading \in {"checks", "reviews"} => seen.prHead \in Observer!Heads
  /\ decision = "approved" => reading = "idle"

ObserverInv ==
  /\ Observer!TypeOK
  /\ seen \in Observation
  /\ SeenStaysTrue
  /\ ReadsInOrder
  /\ ApprovedHeadWasGreen

\* A non-empty set of positions has a least element.
LEMMA LeastPosition ==
  ASSUME NEW S \in SUBSET Nat, S # {}
  PROVE  Observer!Min(S) \in S
<1>1. \E x \in S : \A y \in S : ~(<<y, x>> \in OpToRel(<, Nat))
  BY NatLessThanWellFounded, WFMin
<1>2. \E x \in S : \A y \in S : ~(y < x)
  BY <1>1 DEF OpToRel
<1>3. \E x \in S : \A y \in S : x =< y
  BY <1>2
<1> QED
  BY <1>3, Zenon DEF Observer!Min

\* An observation is approved exactly when no row of the gate's table fails.
LEMMA ApprovedWhenNothingFails ==
  ASSUME NEW d, NEW o
  PROVE  Observer!Decide(d, o).status = "approved"
           <=> \A n \in 1..14 : ~Observer!Checks(d, o)[n][2]
<1> DEFINE rows == Observer!Checks(d, o)
           failing == {n \in 1..14 : rows[n][2]}
<1>1. DOMAIN rows = 1..14 /\ \A n \in 1..14 : rows[n][1] \in Observer!FailureCodes
  BY DEF Observer!Checks, Observer!FailureCodes
<1>2. "none" \notin Observer!FailureCodes
  BY DEF Observer!FailureCodes
<1>3. Observer!Classify(d, o) = IF failing = {} THEN "none" ELSE rows[Observer!Min(failing)][1]
  BY <1>1 DEF Observer!Classify, Observer!FirstFailure
<1>4. ASSUME failing # {} PROVE rows[Observer!Min(failing)][1] \in Observer!FailureCodes
  BY <1>1, <1>4, LeastPosition
<1>5. Observer!Classify(d, o) = "none" <=> failing = {}
  BY <1>2, <1>3, <1>4
<1>6. Observer!Decide(d, o).status = "approved" <=> Observer!Classify(d, o) = "none"
  BY DEF Observer!Decide
<1> QED
  BY <1>5, <1>6

\* The second column of the table (simulator.py _classify).
LEMMA RowsOfGate ==
  ASSUME NEW d, NEW o
  PROVE  /\ Observer!Checks(d, o)[1][2] = (o.workspace # d.workspace)
         /\ Observer!Checks(d, o)[2][2] = (o.base # d.base)
         /\ Observer!Checks(d, o)[3][2] = (o.initialHead # o.base)
         /\ Observer!Checks(d, o)[4][2] = (o.prHead = NoHead)
         /\ Observer!Checks(d, o)[5][2] = o.ciPending
         /\ Observer!Checks(d, o)[6][2] = (o.ciHead # o.prHead)
         /\ Observer!Checks(d, o)[7][2] = ~o.linked
         /\ Observer!Checks(d, o)[8][2] = ~o.ancestor
         /\ Observer!Checks(d, o)[9][2] = ~o.ciPassed
         /\ Observer!Checks(d, o)[10][2] = o.changesOpen
         /\ Observer!Checks(d, o)[11][2] = (RequireReviewers /\ ~o.reviewersOk)
         /\ Observer!Checks(d, o)[12][2] = (o.approvals < RequiredApprovals)
         /\ Observer!Checks(d, o)[13][2] = ~o.merged
         /\ Observer!Checks(d, o)[14][2] = (o.inTarget = "no")
BY DEF Observer!Checks

\* The part of the contract that is about the merged commit.
LEMMA ApprovedIsMergedAndGreen ==
  ASSUME NEW d, NEW o, Observer!Decide(d, o).status = "approved"
  PROVE  o.merged /\ o.ciPassed /\ o.ancestor /\ o.inTarget # "no"
<1>1. ~Observer!Checks(d, o)[8][2] /\ ~Observer!Checks(d, o)[9][2]
  BY ApprovedWhenNothingFails
<1>2. ~Observer!Checks(d, o)[13][2] /\ ~Observer!Checks(d, o)[14][2]
  BY ApprovedWhenNothingFails
<1> QED
  BY <1>1, <1>2, RowsOfGate, Zenon

-----------------------------------------------------------------------------
(* The observer's invariant.                                               *)

LEMMA NothingIsObservation == Observer!NothingSeen \in Observation
BY DEF Observer!NothingSeen, Observation

LEMMA ObservationDomain ==
  ASSUME NEW o \in Observation
  PROVE  DOMAIN o = DOMAIN Observer!NothingSeen
BY DEF Observation, Observer!NothingSeen

LEMMA InitObserver ==
  ASSUME Observer!ObserverAssumption, Observer!Init
  PROVE  ObserverInv
<1>1. seen = Observer!NothingSeen /\ decision = None /\ reading = "idle"
  BY DEF Observer!Init
<1>2. decision # "approved"
  BY <1>1 DEF Observer!ObserverAssumption
<1>3. Observer!TypeOK
  BY <1>1 DEF Observer!Init, Observer!TypeOK
<1>4. SeenStaysTrue
  BY <1>1 DEF SeenStaysTrue, Observer!NothingSeen
<1> QED
  BY <1>1, <1>2, <1>3, <1>4, NothingIsObservation
     DEF ObserverInv, ReadsInOrder, Approved, ApprovedHeadWasGreen

\* What was seen and decided does not change while the world does, and what it
\* relies on in the world is not taken back.
LEMMA WorldKeepsEvidence ==
  ASSUME ObserverInv, Observer!World
  PROVE  /\ UNCHANGED <<reading, seen, decision, onTarget>>
         /\ merged => merged' /\ head' = head
         /\ descends \subseteq descends'
         /\ \A h \in Observer!Heads : checks[h] = "passed" => checks'[h] = "passed"
         /\ Observer!TypeOK'
<1>0. Observer!TypeOK
  BY DEF ObserverInv
<1>1. CASE Observer!Push
  <2>1. head' \in Observer!Heads /\ ~merged
    BY <1>1 DEF Observer!Push
  <2>2. descends \subseteq descends' /\ descends' \subseteq Observer!Heads
    BY <1>0, <1>1, <2>1 DEF Observer!Push, Observer!TypeOK
  <2>3. UNCHANGED <<reading, seen, decision, merged, onTarget, checks, reviews, linked>>
    BY <1>1 DEF Observer!Push, Observer!observer
  <2> QED
    BY <1>0, <2>1, <2>2, <2>3 DEF Observer!TypeOK
<1>2. CASE Observer!Merge
  <2>1. UNCHANGED <<reading, seen, decision, head, onTarget, descends, checks, reviews, linked>>
        /\ merged' = TRUE
    BY <1>2 DEF Observer!Merge, Observer!observer
  <2> QED
    BY <1>0, <2>1 DEF Observer!TypeOK
<1>3. CASE Observer!LinkTicket
  <2>1. UNCHANGED <<reading, seen, decision, head, onTarget, descends, checks, reviews, merged>>
        /\ linked' = ~linked
    BY <1>3 DEF Observer!LinkTicket, Observer!observer
  <2> QED
    BY <1>0, <2>1 DEF Observer!TypeOK
<1>4. ASSUME NEW h \in Observer!Heads,
             Observer!StartChecks(h)
               \/ \E result \in {"passed", "failed"} : Observer!FinishChecks(h, result)
      PROVE  /\ UNCHANGED <<reading, seen, decision, head, onTarget, descends, reviews, merged, linked>>
             /\ \A g \in Observer!Heads : checks[g] = "passed" => checks'[g] = "passed"
             /\ Observer!TypeOK'
  <2>1. PICK state \in {"running", "passed", "failed"} :
          checks' = [checks EXCEPT ![h] = state] /\ checks[h] # "passed"
    BY <1>4 DEF Observer!StartChecks, Observer!FinishChecks
  <2>2. UNCHANGED <<reading, seen, decision, head, onTarget, descends, reviews, merged, linked>>
    BY <1>4 DEF Observer!StartChecks, Observer!FinishChecks, Observer!observer
  <2>3. checks \in [Observer!Heads -> {"none", "running", "passed", "failed"}]
    BY <1>0 DEF Observer!TypeOK
  <2>4. \A g \in Observer!Heads : checks[g] = "passed" => checks'[g] = "passed"
    BY <2>1, <2>3
  <2>5. checks' \in [Observer!Heads -> {"none", "running", "passed", "failed"}]
    BY <2>1, <2>3
  <2> QED
    BY <1>0, <2>2, <2>4, <2>5 DEF Observer!TypeOK
<1>5. ASSUME NEW r \in Reviewers,
             NEW state \in {"APPROVED", "CHANGES_REQUESTED", "COMMENTED"}, Observer!Review(r, state)
      PROVE  /\ UNCHANGED <<reading, seen, decision, head, onTarget, descends, checks, merged, linked>>
             /\ Observer!TypeOK'
  <2>1. UNCHANGED <<reading, seen, decision, head, onTarget, descends, checks, merged, linked>>
    BY <1>5 DEF Observer!Review, Observer!observer
  <2>2. reviews' \in [Reviewers -> {None, "APPROVED", "CHANGES_REQUESTED"}]
    BY <1>0, <1>5 DEF Observer!Review, Observer!TypeOK
  <2> QED
    BY <1>0, <2>1, <2>2 DEF Observer!TypeOK
<1> QED
  BY <1>1, <1>2, <1>3, <1>4, <1>5 DEF Observer!World

LEMMA WorldStep == ObserverInv /\ Observer!World => ObserverInv'
<1> SUFFICES ASSUME ObserverInv, Observer!World PROVE ObserverInv'
  OBVIOUS
<1>1. /\ UNCHANGED <<reading, seen, decision, onTarget>>
      /\ merged => merged' /\ head' = head
      /\ descends \subseteq descends'
      /\ \A h \in Observer!Heads : checks[h] = "passed" => checks'[h] = "passed"
      /\ Observer!TypeOK'
  BY WorldKeepsEvidence
<1>2. seen \in Observation /\ SeenStaysTrue /\ ReadsInOrder
  BY DEF ObserverInv
<1>3. descends \subseteq Observer!Heads /\ head \in Observer!Heads \cup {NoHead}
  BY DEF ObserverInv, Observer!TypeOK
<1>4. SeenStaysTrue'
  BY <1>1, <1>2 DEF SeenStaysTrue
<1>5. ReadsInOrder'
  BY <1>1, <1>2 DEF ReadsInOrder, Approved, Observer!NothingSeen
<1>6. ApprovedHeadWasGreen'
  BY <1>1, <1>3 DEF ObserverInv, ApprovedHeadWasGreen, Approved
<1> QED
  BY <1>1, <1>2, <1>4, <1>5, <1>6 DEF ObserverInv

\* Reading the pull request: what was seen of a merge is about the head seen.
LEMMA ReadPullRequestStep ==
  ObserverInv /\ Observer!ReadPullRequest => ObserverInv'
<1> SUFFICES ASSUME ObserverInv, Observer!ReadPullRequest PROVE ObserverInv'
  OBVIOUS
<1>1. /\ seen' = [Observer!NothingSeen EXCEPT !.prHead = head, !.merged = merged]
      /\ reading' = (IF head = NoHead THEN "enrich" ELSE "checks")
      /\ UNCHANGED <<head, merged, onTarget, descends, checks, reviews, linked, decision>>
      /\ decision # "approved"
  BY DEF Observer!ReadPullRequest, Observer!Goto, Observer!world
<1>2. Observer!TypeOK
  BY DEF ObserverInv
<1>3. seen' \in Observation
  BY <1>1, <1>2, NothingIsObservation DEF Observation, Observer!TypeOK, Observer!NothingSeen
<1>4. /\ seen'.merged = merged /\ seen'.prHead = head
      /\ seen'.ciPassed = FALSE /\ seen'.ancestor = FALSE
  BY <1>1 DEF Observer!NothingSeen
<1>5. Observer!TypeOK'
  BY <1>1, <1>2, <1>3, ObservationDomain DEF Observer!TypeOK, Observer!NothingSeen
<1> QED
  BY <1>1, <1>2, <1>3, <1>4, <1>5
     DEF ObserverInv, Observer!TypeOK, SeenStaysTrue, ReadsInOrder, Approved,
         ApprovedHeadWasGreen

\* Reading the check runs of the head that was seen.
LEMMA ReadChecksStep ==
  ObserverInv /\ Observer!ReadChecks => ObserverInv'
<1> SUFFICES ASSUME ObserverInv, Observer!ReadChecks PROVE ObserverInv'
  OBVIOUS
<1> DEFINE pending == checks[seen.prHead] \in {"none", "running"}
           passed == checks[seen.prHead] = "passed"
           ciHead == IF checks[seen.prHead] = "none" THEN NoHead ELSE seen.prHead
<1>1. /\ reading = "checks" /\ reading' = "reviews"
      /\ seen' = [seen EXCEPT !.ciHead = ciHead, !.ciPending = pending, !.ciPassed = passed]
      /\ UNCHANGED <<head, merged, onTarget, descends, checks, reviews, linked, decision>>
  BY DEF Observer!ReadChecks, Observer!Goto, Observer!world
<1>2. Observer!TypeOK /\ seen \in Observation /\ SeenStaysTrue /\ ReadsInOrder
  BY DEF ObserverInv
<1>3. seen.prHead \in Observer!Heads /\ decision # "approved"
  BY <1>1, <1>2 DEF ReadsInOrder
<1>4. /\ pending \in BOOLEAN /\ passed \in BOOLEAN
      /\ ciHead \in Observer!Heads \cup {NoHead}
      /\ passed => checks[seen.prHead] = "passed"
  BY <1>3
<1> HIDE DEF pending, passed, ciHead
<1>9. seen' \in Observation
  BY <1>1, <1>2, <1>4 DEF Observation
<1>5. /\ seen'.prHead = seen.prHead /\ seen'.merged = seen.merged
      /\ seen'.ancestor = seen.ancestor
      /\ seen'.ciPassed = passed
  BY <1>1, <1>2 DEF Observation
<1>6. Observer!TypeOK'
  BY <1>1, <1>2, <1>9, ObservationDomain DEF Observer!TypeOK, Observer!NothingSeen
<1>7. SeenStaysTrue'
  BY <1>1, <1>2, <1>3, <1>4, <1>5 DEF SeenStaysTrue
<1> QED
  BY <1>1, <1>3, <1>6, <1>7, <1>9
     DEF ObserverInv, ReadsInOrder, Approved, ApprovedHeadWasGreen

\* Reading the reviews and the ancestry of the head that was seen.
LEMMA ReadReviewsStep ==
  ObserverInv /\ Observer!ReadReviews => ObserverInv'
<1> SUFFICES ASSUME ObserverInv, Observer!ReadReviews PROVE ObserverInv'
  OBVIOUS
<1> DEFINE approvers == {r \in Reviewers : reviews[r] = "APPROVED"}
           open == \E r \in Reviewers : reviews[r] = "CHANGES_REQUESTED"
           satisfied == RequiredReviewers \subseteq approvers
           ancestor == seen.prHead \in descends
<1>1. /\ reading = "reviews" /\ reading' = "enrich"
      /\ seen' = [seen EXCEPT !.approvals = Observer!Cardinality(approvers), !.changesOpen = open,
                              !.reviewersOk = satisfied, !.ancestor = ancestor]
      /\ UNCHANGED <<head, merged, onTarget, descends, checks, reviews, linked, decision>>
  BY DEF Observer!ReadReviews, Observer!Goto, Observer!world
<1>2. Observer!TypeOK /\ seen \in Observation /\ SeenStaysTrue /\ ReadsInOrder
  BY DEF ObserverInv
<1>3. decision # "approved"
  BY <1>1, <1>2 DEF ReadsInOrder
<1>4. /\ approvers \in SUBSET Reviewers
      /\ open \in BOOLEAN /\ satisfied \in BOOLEAN /\ ancestor \in BOOLEAN
      /\ ancestor => seen.prHead \in descends
  OBVIOUS
<1> HIDE DEF approvers, open, satisfied, ancestor
<1>5. seen' \in Observation
  BY <1>1, <1>2, <1>4 DEF Observation
<1>6. /\ seen'.prHead = seen.prHead /\ seen'.merged = seen.merged
      /\ seen'.ciPassed = seen.ciPassed
      /\ seen'.ancestor = ancestor
  BY <1>1, <1>2 DEF Observation
<1>7. Observer!TypeOK'
  BY <1>1, <1>2, <1>5, ObservationDomain DEF Observer!TypeOK, Observer!NothingSeen
<1>8. SeenStaysTrue'
  BY <1>1, <1>2, <1>4, <1>6 DEF SeenStaysTrue
<1> QED
  BY <1>1, <1>3, <1>5, <1>7, <1>8
     DEF ObserverInv, ReadsInOrder, Approved, ApprovedHeadWasGreen

\* The observation that is judged: what was read, completed by Git and the tracker.
LEMMA EnrichedFacts ==
  ASSUME seen \in Observation, linked \in BOOLEAN
  PROVE  /\ Observer!Enriched \in Observation
         /\ Observer!Enriched.prHead = seen.prHead
         /\ Observer!Enriched.merged = seen.merged
         /\ Observer!Enriched.ciPassed = seen.ciPassed
         /\ Observer!Enriched.ancestor = seen.ancestor
         /\ seen.merged /\ ~onTarget => Observer!Enriched.inTarget = "no"
BY DEF Observation, Observer!Enriched

\* The gate's decision: an approval is of what was seen.
LEMMA EvaluateGateStep ==
  ASSUME Observer!ObserverAssumption, ObserverInv, Observer!EvaluateGate
  PROVE  ObserverInv'
<1> DEFINE o == Observer!Enriched
<1>1. /\ reading' = "idle"
      /\ decision' = Observer!Decide(Observer!Assigned, o).status
      /\ seen' = IF decision' = "approved" THEN o ELSE Observer!NothingSeen
      /\ UNCHANGED <<head, merged, onTarget, descends, checks, reviews, linked>>
  BY DEF Observer!EvaluateGate, Observer!world
<1>2. Observer!TypeOK /\ seen \in Observation /\ SeenStaysTrue
  BY DEF ObserverInv
<1>3. /\ o \in Observation
      /\ o.prHead = seen.prHead /\ o.merged = seen.merged
      /\ o.ciPassed = seen.ciPassed /\ o.ancestor = seen.ancestor
      /\ seen.merged /\ ~onTarget => o.inTarget = "no"
  BY <1>2, EnrichedFacts DEF Observer!TypeOK
<1>4. decision' \in {"approved", "pending", "blocked"}
  BY <1>1 DEF Observer!Decide
<1>5. decision' = "approved" => o.merged /\ o.ciPassed /\ o.ancestor /\ o.inTarget # "no"
  BY <1>1, ApprovedIsMergedAndGreen
<1> HIDE DEF o
<1>6. seen' \in Observation
  BY <1>1, <1>3, NothingIsObservation
<1>7. Observer!TypeOK'
  BY <1>1, <1>2, <1>4, <1>6, ObservationDomain DEF Observer!TypeOK, Observer!NothingSeen
<1>8. SeenStaysTrue'
  BY <1>1, <1>2, <1>3 DEF SeenStaysTrue, Observer!NothingSeen
<1>9. ApprovedHeadWasGreen'
  BY <1>1, <1>2, <1>3, <1>5
     DEF ApprovedHeadWasGreen, Approved, SeenStaysTrue
<1> QED
  BY <1>1, <1>6, <1>7, <1>8, <1>9 DEF ObserverInv, ReadsInOrder, Approved

LEMMA ObserverStep ==
  ASSUME Observer!ObserverAssumption, ObserverInv, [Observer!Next]_(Observer!vars)
  PROVE  ObserverInv'
<1>1. CASE Observer!World
  BY <1>1, WorldStep
<1>2. CASE Observer!Reconcile
  BY <1>2, ReadPullRequestStep, ReadChecksStep, ReadReviewsStep, EvaluateGateStep
     DEF Observer!Reconcile
<1>3. CASE UNCHANGED Observer!vars
  <2>1. UNCHANGED <<head, merged, onTarget, descends, checks, reviews, linked, reading,
                    seen, decision>>
    BY <1>3 DEF Observer!vars, Observer!world
  <2> QED
    BY <2>1 DEF ObserverInv, Observer!TypeOK, SeenStaysTrue, ReadsInOrder, Approved,
                ApprovedHeadWasGreen
<1> QED
  BY <1>1, <1>2, <1>3 DEF Observer!Next

LEMMA ObserverInvariance ==
  ASSUME Observer!ObserverAssumption
  PROVE  Observer!Spec => []ObserverInv
<1>1. Observer!Init => ObserverInv
  BY InitObserver
<1>2. ObserverInv /\ [Observer!Next]_(Observer!vars) => ObserverInv'
  BY ObserverStep
<1> QED
  BY <1>1, <1>2, PTL DEF Observer!Spec

\* The observer is the one whose constants PullRequest declares.
LEMMA SameAssumptions == Observer!ObserverAssumption /\ Observer!GateAssumption
  BY ObserverAssumption, GateAssumption
     DEF ObserverAssumption, GateAssumption, Observer!ObserverAssumption,
         Observer!GateAssumption, IsFiniteSet, Observer!IsFiniteSet

\* An approval is about one commit, although it is put together from four reads
\* between which the author may push, checks end and somebody merge
\* (github_adapter.py observe).
THEOREM ApprovedCommitWasGreen == Observer!Spec => []ApprovedHeadWasGreen
<1>1. ObserverInv => ApprovedHeadWasGreen
  BY DEF ObserverInv
<1> QED
  BY <1>1, SameAssumptions, ObserverInvariance, PTL

LEMMA SameCardinality ==
  ASSUME NEW S
  PROVE  Observer!Cardinality(S) = Cardinality(S)
  BY DEF Observer!Cardinality, Cardinality

LEMMA CardinalityIsNatural ==
  ASSUME NEW S, IsFiniteSet(S)
  PROVE  Observer!Cardinality(S) \in Nat
  BY SameCardinality, FS_CardinalityType

-----------------------------------------------------------------------------
(* The other direction: what is deliverable is not held back by old reads. *)

\* What was read so far is what makes the pull request deliverable.
UpToDate ==
  /\ reading # "idle" => seen.prHead = head /\ seen.merged
  /\ reading \in {"reviews", "enrich"} =>
       seen.ciHead = head /\ ~seen.ciPending /\ seen.ciPassed
  /\ reading = "enrich" =>
       /\ seen.approvals >= RequiredApprovals /\ ~seen.changesOpen
       /\ seen.reviewersOk /\ seen.ancestor

LEMMA UpToDateStep ==
  ASSUME Observer!ObserverAssumption, ObserverInv, Deliverable, UpToDate,
         [Observer!Next]_(Observer!vars)
  PROVE  UpToDate'
<1>0. Observer!TypeOK /\ seen \in Observation /\ ReadsInOrder
  BY DEF ObserverInv
<1>1. /\ merged /\ head \in descends /\ head \in Observer!Heads /\ head # NoHead
      /\ checks[head] = "passed"
  BY <1>0 DEF Deliverable, Delivered, Observer!TypeOK, Observer!ObserverAssumption, Observer!Heads
<1>2. CASE Observer!World
  BY <1>1, <1>2, WorldKeepsEvidence DEF UpToDate
<1>3. CASE Observer!ReadPullRequest
  <2>1. seen' = [Observer!NothingSeen EXCEPT !.prHead = head, !.merged = merged]
        /\ reading' = "checks" /\ head' = head
    BY <1>1, <1>3 DEF Observer!ReadPullRequest, Observer!Goto, Observer!world
  <2>2. seen'.prHead = head /\ seen'.merged = merged
    BY <2>1 DEF Observer!NothingSeen
  <2> QED
    BY <1>1, <2>1, <2>2 DEF UpToDate
<1>4. CASE Observer!ReadChecks
  <2>1. seen.prHead = head /\ seen.merged
    BY <1>4 DEF UpToDate, Observer!ReadChecks
  <2> DEFINE pending == checks[seen.prHead] \in {"none", "running"}
             passed == checks[seen.prHead] = "passed"
             ciHead == IF checks[seen.prHead] = "none" THEN NoHead ELSE seen.prHead
  <2>3. /\ seen' = [seen EXCEPT !.ciHead = ciHead, !.ciPending = pending, !.ciPassed = passed]
        /\ reading' = "reviews" /\ head' = head
    BY <1>4 DEF Observer!ReadChecks, Observer!Goto, Observer!world
  <2>4. ciHead = head /\ pending = FALSE /\ passed = TRUE
    BY <1>1, <2>1
  <2> HIDE DEF ciHead, pending, passed
  <2>2. seen' = [seen EXCEPT !.ciHead = head, !.ciPending = FALSE, !.ciPassed = TRUE]
    BY <2>3, <2>4
  <2> QED
    BY <1>0, <2>1, <2>2, <2>3 DEF UpToDate, Observation
<1>5. CASE Observer!ReadReviews
  <2> DEFINE approvers == {r \in Reviewers : reviews[r] = "APPROVED"}
  <2>1. /\ seen.prHead = head /\ seen.merged /\ seen.ciHead = head
        /\ ~seen.ciPending /\ seen.ciPassed
    BY <1>5 DEF UpToDate, Observer!ReadReviews
  <2>2. /\ ~\E r \in Reviewers : reviews[r] = "CHANGES_REQUESTED"
        /\ Observer!Cardinality(approvers) >= RequiredApprovals
    BY SameCardinality DEF Deliverable, Delivered
  <2>3. RequiredReviewers \subseteq approvers
    BY DEF Deliverable, Delivered, Observer!ObserverAssumption
  <2>4. seen' = [seen EXCEPT
          !.approvals = Observer!Cardinality(approvers),
          !.changesOpen = \E r \in Reviewers : reviews[r] = "CHANGES_REQUESTED",
          !.reviewersOk = RequiredReviewers \subseteq approvers,
          !.ancestor = seen.prHead \in descends]
        /\ reading' = "enrich" /\ head' = head
    BY <1>5 DEF Observer!ReadReviews, Observer!Goto, Observer!world
  <2> HIDE DEF approvers
  <2>5. seen' = [seen EXCEPT
          !.approvals = Observer!Cardinality(approvers), !.changesOpen = FALSE,
          !.reviewersOk = TRUE, !.ancestor = TRUE]
    BY <1>1, <2>1, <2>2, <2>3, <2>4
  <2> QED
    BY <1>0, <2>1, <2>2, <2>4, <2>5 DEF UpToDate, Observation
<1>6. CASE Observer!EvaluateGate
  BY <1>6 DEF Observer!EvaluateGate, UpToDate
<1>7. CASE UNCHANGED Observer!vars
  BY <1>7 DEF Observer!vars, Observer!world, UpToDate
<1> QED
  BY <1>2, <1>3, <1>4, <1>5, <1>6, <1>7 DEF Observer!Next, Observer!Reconcile

LEMMA DeliverableMeetsContract ==
  ASSUME Observer!ObserverAssumption, Observer!GateAssumption, ObserverInv,
         Deliverable, UpToDate, reading = "enrich"
  PROVE  Observer!Decide(Observer!Assigned, Observer!Enriched).status = "approved"
<1> DEFINE o == Observer!Enriched
           d == Observer!Assigned
<1>1. seen \in Observation /\ Observer!TypeOK
  BY DEF ObserverInv
<1>2. merged /\ onTarget /\ linked /\ head \in Observer!Heads /\ head # NoHead
  BY <1>1 DEF Deliverable, Delivered, Observer!TypeOK, Observer!ObserverAssumption, Observer!Heads
<1>3. /\ seen.prHead = head /\ seen.merged /\ seen.ciHead = head /\ ~seen.ciPending
      /\ seen.ciPassed /\ seen.approvals >= RequiredApprovals /\ ~seen.changesOpen
      /\ seen.reviewersOk /\ seen.ancestor
  BY DEF UpToDate
<1>4. o = [seen EXCEPT !.inTarget = "yes", !.linked = TRUE]
  BY <1>2, <1>3 DEF Observer!Enriched
<1>5. /\ o.workspace = d.workspace /\ o.base = d.base /\ o.initialHead = o.base
      /\ o.prHead # NoHead /\ ~o.ciPending /\ o.ciHead = o.prHead /\ o.linked /\ o.ancestor
      /\ o.ciPassed /\ ~o.changesOpen /\ o.reviewersOk
      /\ o.approvals = seen.approvals /\ o.merged /\ o.inTarget # "no"
  BY <1>1, <1>2, <1>3, <1>4 DEF Deliverable, Observation, Observer!Assigned
<1>6. seen.approvals \in Nat
  <2>1. \A S \in SUBSET Reviewers : Observer!Cardinality(S) \in Nat
    BY FS_Subset, CardinalityIsNatural
       DEF Observer!ObserverAssumption, Observer!IsFiniteSet, IsFiniteSet
  <2> QED
    BY <1>1, <2>1 DEF Observation
<1>7. ~(o.approvals < RequiredApprovals)
  BY <1>3, <1>5, <1>6 DEF Observer!GateAssumption
<1> HIDE DEF o, d
<1>8. /\ ~Observer!Checks(d, o)[1][2] /\ ~Observer!Checks(d, o)[2][2]
      /\ ~Observer!Checks(d, o)[3][2] /\ ~Observer!Checks(d, o)[4][2]
      /\ ~Observer!Checks(d, o)[5][2] /\ ~Observer!Checks(d, o)[6][2]
      /\ ~Observer!Checks(d, o)[7][2] /\ ~Observer!Checks(d, o)[8][2]
      /\ ~Observer!Checks(d, o)[9][2] /\ ~Observer!Checks(d, o)[10][2]
      /\ ~Observer!Checks(d, o)[11][2] /\ ~Observer!Checks(d, o)[12][2]
      /\ ~Observer!Checks(d, o)[13][2] /\ ~Observer!Checks(d, o)[14][2]
  <2> DEFINE row(n) == Observer!Checks(d, o)[n][2]
  <2>1. /\ row(1) = (o.workspace # d.workspace) /\ row(2) = (o.base # d.base)
        /\ row(3) = (o.initialHead # o.base) /\ row(4) = (o.prHead = NoHead)
        /\ row(5) = o.ciPending /\ row(6) = (o.ciHead # o.prHead)
        /\ row(7) = ~o.linked /\ row(8) = ~o.ancestor /\ row(9) = ~o.ciPassed
        /\ row(10) = o.changesOpen /\ row(11) = (RequireReviewers /\ ~o.reviewersOk)
        /\ row(12) = (o.approvals < RequiredApprovals)
        /\ row(13) = ~o.merged /\ row(14) = (o.inTarget = "no")
    BY RowsOfGate
  <2> QED
    BY <1>5, <1>7, <2>1, Zenon
<1>9. \A n \in 1..14 : ~Observer!Checks(d, o)[n][2]
  BY <1>8
<1> QED
  BY <1>9, ApprovedWhenNothingFails DEF o, d

\* Once the pull request is merged, green, reviewed and linked and stays so, and the
\* simulator was built with the workspaces that are used (which bootstrap.py does not
\* see to: DeliveredIsApproved), every reconciliation that starts from then on approves
\* it, whatever earlier ones saw and whatever else happens between its reads
\* (github_adapter.py observe, simulator.py evaluate_gate).  With ApprovedCommitWasGreen:
\* the reads of one reconciliation are never mixed up to its advantage, nor to its
\* disadvantage.  This is the safety part of DeliverableIsApproved.
THEOREM DeliverableIsNotHeldBack ==
  Observer!Spec =>
    []([]Deliverable /\ reading = "idle" =>
         [][Observer!EvaluateGate => Approved']_(Observer!vars))
<1>1. reading = "idle" => UpToDate
  BY DEF UpToDate
<1>2. ObserverInv /\ Deliverable /\ UpToDate /\ [Observer!Next]_(Observer!vars)
        => UpToDate'
  BY UpToDateStep, SameAssumptions
<1>3. ObserverInv /\ Deliverable /\ UpToDate
        => [Observer!EvaluateGate => Approved']_(Observer!vars)
  <2> SUFFICES ASSUME ObserverInv, Deliverable, UpToDate, Observer!EvaluateGate
               PROVE  Approved'
    OBVIOUS
  <2> QED
    BY DeliverableMeetsContract, SameAssumptions DEF Observer!EvaluateGate, Approved
<1> QED
  BY <1>1, <1>2, <1>3, SameAssumptions, ObserverInvariance, PTL DEF Observer!Spec
=============================================================================
