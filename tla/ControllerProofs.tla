-------------------------- MODULE ControllerProofs --------------------------
(***************************************************************************)
(* Proofs about DeliveryController.  A handler may be cut anywhere by a    *)
(* crash, or by a call that raises, so the inductive invariant says what   *)
(* is true between any two calls: Phase lists, for every program a handler *)
(* may have left to do, what its next calls rely on.                       *)
(***************************************************************************)
EXTENDS DeliveryController, SequenceTheorems, WellFoundedInduction, TLAPS

-----------------------------------------------------------------------------
(* The inductive invariant.                                                *)

\* The worktrees of the attempts of an item.
WorktreesOf(i) == {w \in worktrees : w[1] = i}

\* Every attempt of an item was preceded by its first, whose branch is kept.
FirstBranch(i) == <<i, 1>> \in branches

\* The next attempt of an item would not get a second worktree: there is none, or
\* its branch exists already and git refuses it.
CreatesFirst(i) == WorktreesOf(i) = {} \/ <<i, attemptNumber[i]>> \in branches

\* An item that dispatch_ready has still to launch.
ToLaunch(i) ==
  /\ i \in dispatched /\ i \notin active /\ i \notin released
  /\ dispatches[i].workspace = <<i, attemptNumber[i]>>
  /\ log.assigned[i] = None
  /\ CreatesFirst(i)

\* An item whose workspace was created and whose start is not logged yet.
BeingLaunched(i) ==
  /\ i \in dispatched /\ i \notin released
  /\ log.assigned[i] = None
  /\ dispatches[i].workspace \in branches
  /\ FirstBranch(i)
  /\ WorktreesOf(i) \subseteq {dispatches[i].workspace}

\* What dispatch_ready still has to do after the item it is launching.
Rest(R) == IF R = {} THEN <<"wave">> ELSE <<"create", R>>

\* dispatch_ready, at the n-th call that follows the creation of i's workspace.
PhaseLaunch(i, R) ==
  /\ waves # <<>>
  /\ BeingLaunched(i) /\ i \notin R /\ \A j \in R : ToLaunch(j)
  /\ \/ /\ i \notin active
        /\ \/ todo = <<<<"tracker", i, "InProgress">>, <<"ticket", i, "InProgress">>,
                       <<"start", i>>, <<"started", i>>, Rest(R)>>
           \/ todo = <<<<"ticket", i, "InProgress">>, <<"start", i>>, <<"started", i>>, Rest(R)>>
           \/ todo = <<<<"start", i>>, <<"started", i>>, Rest(R)>>
     \/ /\ i \in active
        /\ todo = <<<<"started", i>>, Rest(R)>>

\* dispatch_ready between two items, or after the last one.
PhaseDispatch(R) ==
  /\ waves # <<>>
  /\ \A j \in R : ToLaunch(j)
  /\ todo = <<Rest(R)>>

\* A ticket on its way to NeedsAttention or Cancelled.
PhasePublish(i, state) ==
  \/ todo = <<<<"tracker", i, state>>, <<"ticket", i, state>>>>
  \/ todo = <<<<"ticket", i, state>>>>

\* reconcile before the gate.
PhaseObserve(i) ==
  /\ i \in active
  /\ \/ todo = <<<<"tracker", i, "InReview">>, <<"ticket", i, "InReview">>, <<"gate", i>>>>
     \/ todo = <<<<"ticket", i, "InReview">>, <<"gate", i>>>>
     \/ todo = <<<<"gate", i>>>>

\* reconcile after a gate that did not approve.
PhaseDecided(i) ==
  \/ todo = <<<<"waveState">>>>
  \/ todo = <<<<"waveState">>, <<"tracker", i, "NeedsAttention">>,
              <<"ticket", i, "NeedsAttention">>>>

\* reconcile after a gate that approved, until Done is in the event log.
PhaseRelease(i) ==
  /\ i \in active
  /\ mergedAt[dispatches[i].workspace] > 0
  /\ \/ todo = <<<<"waveState">>, <<"tracker", i, "Done">>, <<"ticket", i, "Done">>,
                 <<"ended", i>>, <<"pop", i>>>>
     \/ todo = <<<<"tracker", i, "Done">>, <<"ticket", i, "Done">>, <<"ended", i>>, <<"pop", i>>>>
     \/ todo = <<<<"ticket", i, "Done">>, <<"ended", i>>, <<"pop", i>>>>

\* The same once Done is in the event log.
PhaseReleased(i) ==
  /\ i \in active
  /\ <<i, "Done">> \in log.keys
  /\ \/ todo = <<<<"waveState">>, <<"pop", i>>>>
     \/ todo = <<<<"ended", i>>, <<"pop", i>>>>
     \/ todo = <<<<"pop", i>>>>

\* refresh_target_base, and what reconcile does after it: no wave is active then.
PhaseRefresh ==
  \/ todo = <<<<"refresh">>>> /\ Sim!CanRefreshTargetBase
  \/ /\ todo \in {<<<<"base">>, <<"frontier">>>>, <<<<"base">>>>, <<<<"frontier">>>>}
     /\ Barrier => simWave = {}

\* retry after the worktree of the old attempt was destroyed.
PhaseRetry(i) ==
  /\ WorktreesOf(i) = {} /\ FirstBranch(i)
  /\ \/ todo = <<<<"ended", i>>, <<"retry", i>>, <<"redispatch", i>>>> /\ i \in active
     \/ /\ todo = <<<<"retry", i>>, <<"redispatch", i>>>> /\ i \in active
        /\ log.assigned[i] = None
     \/ todo = <<<<"redispatch", i>>>>

Phase ==
  \/ todo = <<>>
  \/ \E R \in SUBSET Items : PhaseDispatch(R)
  \/ \E i \in Items, R \in SUBSET Items : PhaseLaunch(i, R)
  \/ \E i \in Items, state \in {"NeedsAttention", "Cancelled"} : PhasePublish(i, state)
  \/ PhaseRefresh
  \/ \E i \in Items : \/ PhaseObserve(i) \/ PhaseDecided(i) \/ PhaseRelease(i)
                      \/ PhaseReleased(i) \/ PhaseRetry(i)

\* Where the worktrees of an item may be, whatever was cut short before.
WorktreeFacts(i) ==
  /\ i \in active \/ log.assigned[i] # None \/ attemptNumber[i] > 1
       \/ (\E n \in 1..MaxAttempts : <<i, n>> \in branches)
     => FirstBranch(i)
  /\ i \in active => WorktreesOf(i) \subseteq {dispatches[i].workspace}
  /\ log.assigned[i] # None => WorktreesOf(i) \subseteq {log.assigned[i].workspace}
  /\ i \notin dispatched => CreatesFirst(i)

\* What the simulator remembers of an item belongs to the dispatch it remembers,
\* and its approval to a pull request that was merged.
ItemFacts(i) ==
  /\ i \in dispatched <=> dispatches[i] # None
  /\ i \in active => i \in dispatched
  /\ dispatches[i] # None => dispatches[i].workspace[1] = i
  /\ log.assigned[i] # None => log.assigned[i].workspace[1] = i
  /\ i \notin dispatched => observations[i] = None /\ decisions[i] = None
  /\ observations[i] # None /\ observations[i].merged => mergedAt[dispatches[i].workspace] > 0
  /\ Sim!Approved(i) => mergedAt[dispatches[i].workspace] > 0

\* The two calls in the middle of which the event log is behind, or ahead.
Unlogged(i) ==
  todo # <<>> /\ Head(todo) \in {<<"started", i>>, <<"retry", i>>, <<"pop", i>>}

\* What the event log says of the assignment of an item and of its ticket.
LogFacts(i) ==
  /\ alive /\ i \in active
       => \/ log.assigned[i] = dispatches[i]
          \/ Unlogged(i)
          \/ log.assigned[i] = None /\ failures > 0
  /\ i \notin active /\ log.assigned[i] # None
       => i \in cancelled \/ log.keys \cap {<<i, "Done">>, <<i, "Cancelled">>} # {}
  /\ i \notin dispatched /\ log.assigned[i] # None => i \in cancelled
  /\ log.tickets[i] # None => <<i, log.tickets[i]>> \in log.keys
  /\ <<i, "Done">> \in published => <<i, "Done">> \in log.keys

IInv ==
  /\ TypeOK
  /\ Len(waves) <= MaxWaves
  /\ crashes \in 0..MaxCrashes /\ failures \in 0..MaxFailures
  /\ OneAttemptAtATime
  /\ \A i \in Items : WorktreeFacts(i)
  /\ \A i \in Items : ItemFacts(i)
  /\ \A i \in Items : LogFacts(i)
  /\ Phase

-----------------------------------------------------------------------------
(* What the call at the head of todo says of the rest of it.               *)

\* What is left of a program when its first call is done.
LEMMA Tails ==
  /\ \A p : Tail(<<p>>) = <<>>
  /\ \A p, q : Tail(<<p, q>>) = <<q>>
  /\ \A p, q, r : Tail(<<p, q, r>>) = <<q, r>>
  /\ \A p, q, r, s : Tail(<<p, q, r, s>>) = <<q, r, s>>
  /\ \A p, q, r, s, t : Tail(<<p, q, r, s, t>>) = <<q, r, s, t>>
OBVIOUS

\* Short programs put one after the other.
LEMMA Joins ==
  /\ \A p, q : <<p>> \o <<q>> = <<p, q>>
  /\ \A p, q, r : <<p, q>> \o <<r>> = <<p, q, r>>
  /\ \A p, q, r : <<p>> \o <<q, r>> = <<p, q, r>>
  /\ \A p, q, r, s : <<p, q, r>> \o <<s>> = <<p, q, r, s>>
  /\ \A p, q, r, s : <<p, q>> \o <<r, s>> = <<p, q, r, s>>
  /\ \A p, q, r, s, t : <<p, q, r, s>> \o <<t>> = <<p, q, r, s, t>>
  /\ \A p, q, r, s, t : <<p>> \o <<q, r, s, t>> = <<p, q, r, s, t>>
<1>1. ASSUME NEW p, NEW q PROVE <<p>> \o <<q>> = <<p, q>>
  <2> DEFINE S == {p, q}  x == <<p>> \o <<q>>  y == <<p, q>>
  <2>1. /\ x \in Seq(S) /\ y \in Seq(S) /\ Len(x) = 2 /\ Len(y) = 2
        /\ \A k \in 1..2 : x[k] = y[k]
    BY <<p>> \in Seq(S), <<q>> \in Seq(S), ConcatProperties
  <2> HIDE DEF x, y, S
  <2>2. x = y
    BY <2>1, SeqEqual
  <2> QED
    BY <2>2 DEF x, y
<1>2. ASSUME NEW p, NEW q, NEW r PROVE <<p, q>> \o <<r>> = <<p, q, r>>
  <2> DEFINE S == {p, q, r}  x == <<p, q>> \o <<r>>  y == <<p, q, r>>
  <2>1. /\ x \in Seq(S) /\ y \in Seq(S) /\ Len(x) = 3 /\ Len(y) = 3
        /\ \A k \in 1..3 : x[k] = y[k]
    BY <<p, q>> \in Seq(S), <<r>> \in Seq(S), ConcatProperties
  <2> HIDE DEF x, y, S
  <2>2. x = y
    BY <2>1, SeqEqual
  <2> QED
    BY <2>2 DEF x, y
<1>3. ASSUME NEW p, NEW q, NEW r PROVE <<p>> \o <<q, r>> = <<p, q, r>>
  <2> DEFINE S == {p, q, r}  x == <<p>> \o <<q, r>>  y == <<p, q, r>>
  <2>1. /\ x \in Seq(S) /\ y \in Seq(S) /\ Len(x) = 3 /\ Len(y) = 3
        /\ \A k \in 1..3 : x[k] = y[k]
    BY <<p>> \in Seq(S), <<q, r>> \in Seq(S), ConcatProperties
  <2> HIDE DEF x, y, S
  <2>2. x = y
    BY <2>1, SeqEqual
  <2> QED
    BY <2>2 DEF x, y
<1>4. ASSUME NEW p, NEW q, NEW r, NEW s PROVE <<p, q, r>> \o <<s>> = <<p, q, r, s>>
  <2> DEFINE S == {p, q, r, s}  x == <<p, q, r>> \o <<s>>  y == <<p, q, r, s>>
  <2>1. /\ x \in Seq(S) /\ y \in Seq(S) /\ Len(x) = 4 /\ Len(y) = 4
        /\ \A k \in 1..4 : x[k] = y[k]
    BY <<p, q, r>> \in Seq(S), <<s>> \in Seq(S), ConcatProperties
  <2> HIDE DEF x, y, S
  <2>2. x = y
    BY <2>1, SeqEqual
  <2> QED
    BY <2>2 DEF x, y
<1>5. ASSUME NEW p, NEW q, NEW r, NEW s PROVE <<p, q>> \o <<r, s>> = <<p, q, r, s>>
  <2> DEFINE S == {p, q, r, s}  x == <<p, q>> \o <<r, s>>  y == <<p, q, r, s>>
  <2>1. /\ x \in Seq(S) /\ y \in Seq(S) /\ Len(x) = 4 /\ Len(y) = 4
        /\ \A k \in 1..4 : x[k] = y[k]
    BY <<p, q>> \in Seq(S), <<r, s>> \in Seq(S), ConcatProperties
  <2> HIDE DEF x, y, S
  <2>2. x = y
    BY <2>1, SeqEqual
  <2> QED
    BY <2>2 DEF x, y
<1>6. ASSUME NEW p, NEW q, NEW r, NEW s, NEW t PROVE <<p, q, r, s>> \o <<t>> = <<p, q, r, s, t>>
  <2> DEFINE S == {p, q, r, s, t}  x == <<p, q, r, s>> \o <<t>>  y == <<p, q, r, s, t>>
  <2>1. /\ x \in Seq(S) /\ y \in Seq(S) /\ Len(x) = 5 /\ Len(y) = 5
        /\ \A k \in 1..5 : x[k] = y[k]
    BY <<p, q, r, s>> \in Seq(S), <<t>> \in Seq(S), ConcatProperties
  <2> HIDE DEF x, y, S
  <2>2. x = y
    BY <2>1, SeqEqual
  <2> QED
    BY <2>2 DEF x, y
<1>7. ASSUME NEW p, NEW q, NEW r, NEW s, NEW t PROVE <<p>> \o <<q, r, s, t>> = <<p, q, r, s, t>>
  <2> DEFINE S == {p, q, r, s, t}  x == <<p>> \o <<q, r, s, t>>  y == <<p, q, r, s, t>>
  <2>1. /\ x \in Seq(S) /\ y \in Seq(S) /\ Len(x) = 5 /\ Len(y) = 5
        /\ \A k \in 1..5 : x[k] = y[k]
    BY <<p>> \in Seq(S), <<q, r, s, t>> \in Seq(S), ConcatProperties
  <2> HIDE DEF x, y, S
  <2>2. x = y
    BY <2>1, SeqEqual
  <2> QED
    BY <2>2 DEF x, y
<1> QED
  BY <1>1, <1>2, <1>3, <1>4, <1>5, <1>6, <1>7

\* The calls a phase can be at.
LEMMA HeadOfPhase ==
  /\ \A R \in SUBSET Items :
       PhaseDispatch(R) => todo # <<>> /\ Head(todo)[1] \in {"wave", "create"}
  /\ \A i \in Items, R \in SUBSET Items :
       PhaseLaunch(i, R) =>
         todo # <<>> /\ Head(todo)[1] \in {"tracker", "ticket", "start", "started"}
  /\ \A i \in Items, state \in {"NeedsAttention", "Cancelled"} :
       PhasePublish(i, state) => todo # <<>> /\ Head(todo)[1] \in {"tracker", "ticket"}
  /\ PhaseRefresh => todo # <<>> /\ Head(todo)[1] \in {"refresh", "base", "frontier"}
  /\ \A i \in Items :
       /\ PhaseObserve(i) => todo # <<>> /\ Head(todo)[1] \in {"tracker", "ticket", "gate"}
       /\ PhaseDecided(i) => todo # <<>> /\ Head(todo)[1] = "waveState"
       /\ PhaseRelease(i) => todo # <<>> /\ Head(todo)[1] \in {"waveState", "tracker", "ticket"}
       /\ PhaseReleased(i) => todo # <<>> /\ Head(todo)[1] \in {"waveState", "ended", "pop"}
       /\ PhaseRetry(i) => todo # <<>> /\ Head(todo)[1] \in {"ended", "retry", "redispatch"}
<1>1. \A R \in SUBSET Items :
        PhaseDispatch(R) => todo # <<>> /\ Head(todo)[1] \in {"wave", "create"}
  BY DEF PhaseDispatch, Rest
<1>2. \A i \in Items, R \in SUBSET Items :
        PhaseLaunch(i, R) =>
          todo # <<>> /\ Head(todo)[1] \in {"tracker", "ticket", "start", "started"}
  BY DEF PhaseLaunch
<1>3. \A i \in Items, state \in {"NeedsAttention", "Cancelled"} :
        PhasePublish(i, state) => todo # <<>> /\ Head(todo)[1] \in {"tracker", "ticket"}
  BY DEF PhasePublish
<1>4. PhaseRefresh => todo # <<>> /\ Head(todo)[1] \in {"refresh", "base", "frontier"}
  BY DEF PhaseRefresh
<1>5. \A i \in Items :
        PhaseObserve(i) => todo # <<>> /\ Head(todo)[1] \in {"tracker", "ticket", "gate"}
  BY DEF PhaseObserve
<1>6. \A i \in Items : PhaseDecided(i) => todo # <<>> /\ Head(todo)[1] = "waveState"
  BY DEF PhaseDecided
<1>7. \A i \in Items :
        PhaseRelease(i) => todo # <<>> /\ Head(todo)[1] \in {"waveState", "tracker", "ticket"}
  BY DEF PhaseRelease
<1>8. \A i \in Items :
        PhaseReleased(i) => todo # <<>> /\ Head(todo)[1] \in {"waveState", "ended", "pop"}
  BY DEF PhaseReleased
<1>9. \A i \in Items :
        PhaseRetry(i) => todo # <<>> /\ Head(todo)[1] \in {"ended", "retry", "redispatch"}
  BY DEF PhaseRetry
<1> QED
  BY <1>1, <1>2, <1>3, <1>4, <1>5, <1>6, <1>7, <1>8, <1>9

LEMMA AtCreate ==
  ASSUME Phase, Doing("create")
  PROVE  \E R \in SUBSET Items :
           /\ R # {} /\ todo = <<<<"create", R>>>> /\ waves # <<>>
           /\ \A j \in R : ToLaunch(j)
<1>1. PICK R \in SUBSET Items : PhaseDispatch(R)
  BY HeadOfPhase DEF Phase, Doing
<1> QED
  BY <1>1 DEF PhaseDispatch, Rest, Doing

LEMMA AtWave ==
  ASSUME Phase, Doing("wave")
  PROVE  todo = <<<<"wave">>>> /\ waves # <<>>
<1>1. PICK R \in SUBSET Items : PhaseDispatch(R)
  BY HeadOfPhase DEF Phase, Doing
<1> QED
  BY <1>1 DEF PhaseDispatch, Rest, Doing

LEMMA AtStart ==
  ASSUME Phase, Doing("start")
  PROVE  \E i \in Items, R \in SUBSET Items :
           /\ todo = <<<<"start", i>>, <<"started", i>>, Rest(R)>>
           /\ waves # <<>> /\ BeingLaunched(i) /\ i \notin active
           /\ i \notin R /\ \A j \in R : ToLaunch(j)
<1>1. PICK i \in Items, R \in SUBSET Items : PhaseLaunch(i, R)
  BY HeadOfPhase DEF Phase, Doing
<1> QED
  BY <1>1 DEF PhaseLaunch, Doing

LEMMA AtStarted ==
  ASSUME Phase, Doing("started")
  PROVE  \E i \in Items, R \in SUBSET Items :
           /\ todo = <<<<"started", i>>, Rest(R)>>
           /\ waves # <<>> /\ BeingLaunched(i) /\ i \in active
           /\ i \notin R /\ \A j \in R : ToLaunch(j)
<1>1. PICK i \in Items, R \in SUBSET Items : PhaseLaunch(i, R)
  BY HeadOfPhase DEF Phase, Doing
<1> QED
  BY <1>1 DEF PhaseLaunch, Doing

LEMMA AtGate ==
  ASSUME Phase, Doing("gate")
  PROVE  \E i \in Items : i \in active /\ todo = <<<<"gate", i>>>>
<1>1. PICK i \in Items : PhaseObserve(i)
  BY HeadOfPhase DEF Phase, Doing
<1> QED
  BY <1>1 DEF PhaseObserve, Doing

LEMMA AtRefresh ==
  ASSUME Phase, Doing("refresh")
  PROVE  todo = <<<<"refresh">>>> /\ Sim!CanRefreshTargetBase
<1>1. PhaseRefresh
  BY HeadOfPhase DEF Phase, Doing
<1> QED
  BY <1>1 DEF PhaseRefresh, Doing

LEMMA AtBase ==
  ASSUME Phase, Doing("base")
  PROVE  /\ todo = <<<<"base">>, <<"frontier">>>> \/ todo = <<<<"base">>>>
         /\ Barrier => simWave = {}
<1>1. PhaseRefresh
  BY HeadOfPhase DEF Phase, Doing
<1> QED
  BY <1>1 DEF PhaseRefresh, Doing

LEMMA AtFrontier ==
  ASSUME Phase, Doing("frontier")
  PROVE  todo = <<<<"frontier">>>> /\ (Barrier => simWave = {})
<1>1. PhaseRefresh
  BY HeadOfPhase DEF Phase, Doing
<1> QED
  BY <1>1 DEF PhaseRefresh, Doing

LEMMA AtPop ==
  ASSUME Phase, Doing("pop")
  PROVE  \E i \in Items :
           i \in active /\ <<i, "Done">> \in log.keys /\ todo = <<<<"pop", i>>>>
<1>1. PICK i \in Items : PhaseReleased(i)
  BY HeadOfPhase DEF Phase, Doing
<1> QED
  BY <1>1 DEF PhaseReleased, Doing

LEMMA AtRetry ==
  ASSUME Phase, Doing("retry")
  PROVE  \E i \in Items :
           /\ i \in active /\ WorktreesOf(i) = {} /\ FirstBranch(i) /\ log.assigned[i] = None
           /\ todo = <<<<"retry", i>>, <<"redispatch", i>>>>
<1>1. PICK i \in Items : PhaseRetry(i)
  BY HeadOfPhase DEF Phase, Doing
<1> QED
  BY <1>1 DEF PhaseRetry, Doing

LEMMA AtRedispatch ==
  ASSUME Phase, Doing("redispatch")
  PROVE  \E i \in Items :
           WorktreesOf(i) = {} /\ FirstBranch(i) /\ todo = <<<<"redispatch", i>>>>
<1>1. PICK i \in Items : PhaseRetry(i)
  BY HeadOfPhase DEF Phase, Doing
<1> QED
  BY <1>1 DEF PhaseRetry, Doing

LEMMA AtEnded ==
  ASSUME Phase, Doing("ended")
  PROVE  \E i \in Items :
           /\ i \in active
           /\ \/ /\ <<i, "Done">> \in log.keys
                 /\ todo = <<<<"ended", i>>, <<"pop", i>>>>
              \/ /\ WorktreesOf(i) = {} /\ FirstBranch(i)
                 /\ todo = <<<<"ended", i>>, <<"retry", i>>, <<"redispatch", i>>>>
<1>1. \E i \in Items : PhaseReleased(i) \/ PhaseRetry(i)
  BY HeadOfPhase DEF Phase, Doing
<1> QED
  BY <1>1 DEF PhaseReleased, PhaseRetry, Doing

LEMMA AtWaveState ==
  ASSUME Phase, Doing("waveState")
  PROVE  \/ todo = <<<<"waveState">>>>
         \/ \E i \in Items :
              \/ todo = <<<<"waveState">>, <<"tracker", i, "NeedsAttention">>,
                          <<"ticket", i, "NeedsAttention">>>>
              \/ /\ i \in active /\ mergedAt[dispatches[i].workspace] > 0
                 /\ todo = <<<<"waveState">>, <<"tracker", i, "Done">>, <<"ticket", i, "Done">>,
                             <<"ended", i>>, <<"pop", i>>>>
              \/ /\ i \in active /\ <<i, "Done">> \in log.keys
                 /\ todo = <<<<"waveState">>, <<"pop", i>>>>
<1>1. \E i \in Items : PhaseDecided(i) \/ PhaseRelease(i) \/ PhaseReleased(i)
  BY HeadOfPhase DEF Phase, Doing
<1> QED
  BY <1>1 DEF PhaseDecided, PhaseRelease, PhaseReleased, Doing

LEMMA AtTracker ==
  ASSUME Phase, Doing("tracker")
  PROVE  \E i \in Items :
           \/ \E R \in SUBSET Items :
                /\ waves # <<>> /\ BeingLaunched(i) /\ i \notin active
                /\ i \notin R /\ \A j \in R : ToLaunch(j)
                /\ todo = <<<<"tracker", i, "InProgress">>, <<"ticket", i, "InProgress">>,
                            <<"start", i>>, <<"started", i>>, Rest(R)>>
           \/ \E state \in {"NeedsAttention", "Cancelled"} :
                todo = <<<<"tracker", i, state>>, <<"ticket", i, state>>>>
           \/ /\ i \in active
              /\ todo = <<<<"tracker", i, "InReview">>, <<"ticket", i, "InReview">>, <<"gate", i>>>>
           \/ /\ i \in active /\ mergedAt[dispatches[i].workspace] > 0
              /\ todo = <<<<"tracker", i, "Done">>, <<"ticket", i, "Done">>,
                          <<"ended", i>>, <<"pop", i>>>>
<1>1. \E i \in Items :
        \/ \E R \in SUBSET Items : PhaseLaunch(i, R)
        \/ \E state \in {"NeedsAttention", "Cancelled"} : PhasePublish(i, state)
        \/ PhaseObserve(i) \/ PhaseRelease(i)
  BY HeadOfPhase DEF Phase, Doing
<1> QED
  BY <1>1 DEF PhaseLaunch, PhasePublish, PhaseObserve, PhaseRelease, Doing

LEMMA AtTicket ==
  ASSUME Phase, Doing("ticket")
  PROVE  \E i \in Items :
           \/ \E R \in SUBSET Items :
                /\ waves # <<>> /\ BeingLaunched(i) /\ i \notin active
                /\ i \notin R /\ \A j \in R : ToLaunch(j)
                /\ todo = <<<<"ticket", i, "InProgress">>, <<"start", i>>, <<"started", i>>,
                            Rest(R)>>
           \/ \E state \in {"NeedsAttention", "Cancelled"} : todo = <<<<"ticket", i, state>>>>
           \/ i \in active /\ todo = <<<<"ticket", i, "InReview">>, <<"gate", i>>>>
           \/ /\ i \in active
              /\ todo = <<<<"ticket", i, "Done">>, <<"ended", i>>, <<"pop", i>>>>
<1>1. \E i \in Items :
        \/ \E R \in SUBSET Items : PhaseLaunch(i, R)
        \/ \E state \in {"NeedsAttention", "Cancelled"} : PhasePublish(i, state)
        \/ PhaseObserve(i) \/ PhaseRelease(i)
  BY HeadOfPhase DEF Phase, Doing
<1> QED
  BY <1>1 DEF PhaseLaunch, PhasePublish, PhaseObserve, PhaseRelease, Doing

-----------------------------------------------------------------------------
(* What the simulator's methods change, in the controller's words.         *)

\* The types of the simulator's state, without the scheduler's inside it.
LEMMA SimTypes ==
  Sim!TypeOK <=>
    /\ policy \in Policies
    /\ dispatched \subseteq Items /\ released \subseteq Items
    /\ cancelled \subseteq released /\ activeWave \subseteq Items
    /\ barrierOpen \in BOOLEAN /\ baseRevision \in Revisions
    /\ waves \in Seq(Sim!Sched!Wave)
    /\ dispatches \in [Items -> Sim!Dispatch \cup {None}]
    /\ observations \in [Items -> Observations \cup {None}]
    /\ decisions \in [Items -> Sim!Decision \cup {None}]
    /\ simWave \subseteq Items
    /\ attemptNumber \in [Items -> 1..MaxAttempts]
BY DEF Sim!TypeOK, Sim!Sched!TypeOK

\* What is ready has been neither dispatched nor released.
LEMMA ReadyFacts ==
  /\ Ready \subseteq Items /\ Ready \cap dispatched = {} /\ Ready \cap released = {}
  /\ \A i \in Ready : BlockedBy[i] \subseteq released
BY DEF Ready, Sim!Sched!PreviewReady, Sim!Sched!Ready

\* The state of the current wave is replaced, and nothing else of any wave.
LEMMA MarkWaveFacts ==
  ASSUME waves \in Seq(Sim!Sched!Wave), NEW condition \in BOOLEAN,
         NEW state \in {"active", "released", "superseded", "cancelled"},
         Sim!Sched!MarkWave(condition, state)
  PROVE  waves' \in Seq(Sim!Sched!Wave) /\ Len(waves') = Len(waves)
<1>1. CASE waves # <<>> /\ condition
  <2>1. waves' = [waves EXCEPT ![Len(waves)] = [waves[Len(waves)] EXCEPT !.state = state]]
    BY <1>1 DEF Sim!Sched!MarkWave
  <2>2. Len(waves) \in DOMAIN waves /\ waves[Len(waves)] \in Sim!Sched!Wave
    BY <1>1
  <2>3. [waves[Len(waves)] EXCEPT !.state = state] \in Sim!Sched!Wave
    BY <2>2 DEF Sim!Sched!Wave
  <2> QED
    BY <2>1, <2>2, <2>3
<1>2. CASE ~(waves # <<>> /\ condition)
  BY <1>2 DEF Sim!Sched!MarkWave
<1> QED
  BY <1>1, <1>2

LEMMA DispatchReadyFacts ==
  ASSUME Sim!TypeOK, Sim!DispatchReady
  PROVE  /\ Sim!TypeOK'
         /\ Ready # {}
         /\ Len(waves') <= MaxWaves /\ waves' # <<>>
         /\ dispatched' = dispatched \cup Ready
         /\ UNCHANGED <<policy, released, cancelled, baseRevision, observations, decisions,
                        attemptNumber>>
         /\ \A i \in Ready :
              /\ dispatches'[i] # None
              /\ dispatches'[i].workspace = <<i, attemptNumber[i]>>
              /\ dispatches'[i].base = baseRevision
         /\ \A i \in Items \ Ready : dispatches'[i] = dispatches[i]
<1>1. /\ Ready # {}
      /\ Len(waves) < MaxWaves
      /\ dispatched' = dispatched \cup Ready
      /\ activeWave' = IF Sim!Sched!Barrier THEN Ready ELSE activeWave
      /\ barrierOpen' = (barrierOpen /\ ~Sim!Sched!Barrier)
      /\ waves' = Append(waves, [base |-> baseRevision, items |-> Ready, state |-> "active"])
      /\ dispatches' = [i \in Items |->
           IF i \in Ready
           THEN [workspace |-> <<i, attemptNumber[i]>>, base |-> baseRevision]
           ELSE dispatches[i]]
      /\ simWave' = IF Sim!Barrier THEN Ready ELSE simWave
      /\ UNCHANGED <<policy, released, cancelled, baseRevision, observations, decisions,
                     attemptNumber>>
  BY DEF Sim!DispatchReady, Sim!Sched!DispatchReady, Ready, Sim!Workspace
<1>2. [base |-> baseRevision, items |-> Ready, state |-> "active"] \in Sim!Sched!Wave
  BY SimTypes, ReadyFacts DEF Sim!Sched!Wave
<1>3. /\ waves' \in Seq(Sim!Sched!Wave) /\ waves' # <<>>
      /\ Len(waves') = Len(waves) + 1 /\ Len(waves) \in Nat
  BY <1>1, <1>2, SimTypes
<1>4. \A i \in Ready :
        [workspace |-> <<i, attemptNumber[i]>>, base |-> baseRevision] \in Sim!Dispatch
  BY SimTypes, ReadyFacts DEF Sim!Dispatch
<1>5. /\ \A i \in Ready : dispatches'[i]
                          = [workspace |-> <<i, attemptNumber[i]>>, base |-> baseRevision]
      /\ \A i \in Items \ Ready : dispatches'[i] = dispatches[i]
  BY <1>1, ReadyFacts
<1>6. dispatches' \in [Items -> Sim!Dispatch \cup {None}]
  BY <1>1, <1>4, SimTypes
<1>7. barrierOpen' \in BOOLEAN
  BY <1>1
<1>8. Sim!TypeOK'
  BY <1>1, <1>3, <1>6, <1>7, SimTypes, ReadyFacts DEF Sim!TypeOK, Sim!Sched!TypeOK
<1>9. Len(waves') <= MaxWaves
  BY <1>1, <1>3, ControllerAssumption
<1>10. \A i \in Ready : /\ dispatches'[i] # None
                        /\ dispatches'[i].workspace = <<i, attemptNumber[i]>>
                        /\ dispatches'[i].base = baseRevision
  <2>1. \A i \in Ready : dispatches'[i] # None
    BY <1>4, <1>5, PlaceholderAssumption
  <2>2. \A i \in Ready : /\ dispatches'[i].workspace = <<i, attemptNumber[i]>>
                         /\ dispatches'[i].base = baseRevision
    <3>1. ASSUME NEW i \in Ready
          PROVE  /\ dispatches'[i].workspace = <<i, attemptNumber[i]>>
                 /\ dispatches'[i].base = baseRevision
      <4>1. dispatches'[i] = [workspace |-> <<i, attemptNumber[i]>>, base |-> baseRevision]
        BY <1>5
      <4> QED
        BY <4>1
    <3> QED
      BY <3>1
  <2> QED
    BY <2>1, <2>2
<1> QED
  BY <1>1, <1>3, <1>5, <1>8, <1>9, <1>10

LEMMA ObserveDeliveryFacts ==
  ASSUME Sim!TypeOK, NEW i \in Items, NEW o \in Observations, Sim!ObserveDelivery(i, o)
  PROVE  /\ Sim!TypeOK'
         /\ dispatches[i] # None
         /\ observations' = [observations EXCEPT ![i] = o]
         /\ decisions' = [decisions EXCEPT ![i] = IF Sim!Approved(i) THEN decisions[i] ELSE None]
         /\ UNCHANGED <<policy, dispatched, released, cancelled, activeWave, barrierOpen,
                        baseRevision, waves, dispatches, simWave, attemptNumber>>
<1>1. /\ dispatches[i] # None
      /\ observations' = [observations EXCEPT ![i] = o]
      /\ decisions' = [decisions EXCEPT ![i] = IF Sim!Approved(i) THEN decisions[i] ELSE None]
      /\ UNCHANGED <<policy, dispatched, released, cancelled, activeWave, barrierOpen,
                     baseRevision, waves, dispatches, simWave, attemptNumber>>
  BY DEF Sim!ObserveDelivery, Sim!schedVars
<1>2. Sim!TypeOK'
  BY <1>1, SimTypes DEF Sim!TypeOK, Sim!Sched!TypeOK
<1> QED
  BY <1>1, <1>2

LEMMA ReleaseFacts ==
  ASSUME Sim!TypeOK, NEW i \in Items, Sim!Sched!Release(i)
  PROVE  /\ Sim!Sched!TypeOK'
         /\ Len(waves') = Len(waves)
         /\ released' = released \cup {i}
         /\ UNCHANGED <<policy, dispatched, cancelled, activeWave, barrierOpen, baseRevision>>
<1>1. /\ released' = released \cup {i}
      /\ Sim!Sched!MarkWave(Sim!Sched!CurrentWave.items \subseteq released', "released")
      /\ UNCHANGED <<policy, dispatched, cancelled, activeWave, barrierOpen, baseRevision>>
  BY DEF Sim!Sched!Release
<1>2. waves' \in Seq(Sim!Sched!Wave) /\ Len(waves') = Len(waves)
  BY <1>1, SimTypes, MarkWaveFacts
<1> QED
  BY <1>1, <1>2, SimTypes DEF Sim!Sched!TypeOK

LEMMA RefreshTargetBaseFacts ==
  ASSUME Sim!TypeOK, tip \in Revisions, Sim!RefreshTargetBase(tip)
  PROVE  /\ Sim!TypeOK'
         /\ baseRevision' = tip
         /\ UNCHANGED <<policy, dispatched, released, cancelled, waves, dispatches,
                        observations, decisions, attemptNumber>>
<1>1. /\ baseRevision' = tip
      /\ activeWave' = IF Sim!Sched!Barrier THEN {} ELSE activeWave
      /\ barrierOpen' = (barrierOpen \/ Sim!Sched!Barrier)
      /\ simWave' = {}
      /\ UNCHANGED <<policy, dispatched, released, cancelled, waves, dispatches,
                     observations, decisions, attemptNumber>>
  BY DEF Sim!RefreshTargetBase, Sim!Sched!RefreshTargetBase, Sim!itemVars
<1>2. barrierOpen' \in BOOLEAN
  BY <1>1
<1> QED
  BY <1>1, <1>2, SimTypes DEF Sim!TypeOK, Sim!Sched!TypeOK

\* What forgetting an item does, whether it is retried or cancelled.
LEMMA ForgetFacts ==
  ASSUME Sim!TypeOK, NEW i \in Items, Sim!Forget(i)
  PROVE  /\ dispatches' \in [Items -> Sim!Dispatch \cup {None}]
         /\ observations' \in [Items -> Observations \cup {None}]
         /\ decisions' \in [Items -> Sim!Decision \cup {None}]
         /\ simWave' \subseteq Items
         /\ dispatches'[i] = None /\ observations'[i] = None /\ decisions'[i] = None
         /\ \A j \in Items \ {i} : /\ dispatches'[j] = dispatches[j]
                                   /\ observations'[j] = observations[j]
                                   /\ decisions'[j] = decisions[j]
BY SimTypes DEF Sim!Forget

LEMMA RetryItemFacts ==
  ASSUME Sim!TypeOK, NEW i \in Items, Sim!RetryItem(i)
  PROVE  /\ Sim!TypeOK'
         /\ i \notin released
         /\ dispatched' = dispatched \ {i}
         /\ UNCHANGED <<policy, released, cancelled, baseRevision>>
         /\ Len(waves') = Len(waves)
         /\ attemptNumber'[i] = attemptNumber[i] + 1
         /\ \A j \in Items \ {i} : attemptNumber'[j] = attemptNumber[j]
         /\ Sim!Forget(i)
<1>1. /\ i \notin released
      /\ dispatched' = dispatched \ {i}
      /\ cancelled' = cancelled \ {i}
      /\ activeWave' = activeWave \ {i}
      /\ barrierOpen' = (barrierOpen \/ (Sim!Sched!Barrier /\ activeWave' = {}))
      /\ Sim!Sched!MarkWave(i \in Sim!Sched!CurrentWave.items, "superseded")
      /\ UNCHANGED <<policy, released, baseRevision>>
      /\ attemptNumber[i] < MaxAttempts
      /\ Sim!Forget(i)
      /\ attemptNumber' = [attemptNumber EXCEPT ![i] = attemptNumber[i] + 1]
  BY DEF Sim!RetryItem, Sim!Sched!Retry, Sim!Sched!LeaveWave
<1>2. waves' \in Seq(Sim!Sched!Wave) /\ Len(waves') = Len(waves)
  <2> DEFINE condition == i \in Sim!Sched!CurrentWave.items
  <2>1. condition \in BOOLEAN /\ Sim!Sched!MarkWave(condition, "superseded")
    BY <1>1
  <2> HIDE DEF condition
  <2> QED
    BY <2>1, SimTypes, MarkWaveFacts
<1>3. cancelled' = cancelled
  BY <1>1, SimTypes
<1>4. /\ attemptNumber' \in [Items -> 1..MaxAttempts]
      /\ attemptNumber'[i] = attemptNumber[i] + 1
      /\ \A j \in Items \ {i} : attemptNumber'[j] = attemptNumber[j]
  BY <1>1, SimTypes, ControllerAssumption
<1>5. barrierOpen' \in BOOLEAN
  BY <1>1
<1>6. Sim!Sched!TypeOK'
  BY <1>1, <1>2, <1>3, <1>5, SimTypes DEF Sim!Sched!TypeOK
<1>7. Sim!TypeOK'
  BY <1>1, <1>4, <1>6, ForgetFacts DEF Sim!TypeOK
<1> QED
  BY <1>1, <1>2, <1>3, <1>4, <1>7

LEMMA CancelFromWaveFacts ==
  ASSUME Sim!TypeOK, NEW i \in Items, Sim!CancelFromWave(i)
  PROVE  /\ Sim!TypeOK'
         /\ dispatched' = dispatched \ {i}
         /\ released' = released \cup {i} /\ cancelled' = cancelled \cup {i}
         /\ UNCHANGED <<policy, baseRevision, attemptNumber>>
         /\ Len(waves') = Len(waves)
         /\ Sim!Forget(i)
<1>1. /\ dispatched' = dispatched \ {i}
      /\ released' = released \cup {i} /\ cancelled' = cancelled \cup {i}
      /\ activeWave' = activeWave \ {i}
      /\ barrierOpen' = (barrierOpen \/ (Sim!Sched!Barrier /\ activeWave' = {}))
      /\ Sim!Sched!MarkWave(i \in Sim!Sched!CurrentWave.items, "cancelled")
      /\ UNCHANGED <<policy, baseRevision, attemptNumber>>
      /\ Sim!Forget(i)
  BY DEF Sim!CancelFromWave, Sim!Sched!Cancel, Sim!Sched!LeaveWave
<1>2. waves' \in Seq(Sim!Sched!Wave) /\ Len(waves') = Len(waves)
  <2> DEFINE condition == i \in Sim!Sched!CurrentWave.items
  <2>1. condition \in BOOLEAN /\ Sim!Sched!MarkWave(condition, "cancelled")
    BY <1>1
  <2> HIDE DEF condition
  <2> QED
    BY <2>1, SimTypes, MarkWaveFacts
<1>3. barrierOpen' \in BOOLEAN
  BY <1>1
<1>4. Sim!Sched!TypeOK'
  BY <1>1, <1>2, <1>3, SimTypes DEF Sim!Sched!TypeOK
<1>5. Sim!TypeOK'
  BY <1>1, <1>4, ForgetFacts, SimTypes DEF Sim!TypeOK
<1> QED
  BY <1>1, <1>2, <1>5

-----------------------------------------------------------------------------
(* Steps that leave the attempts alone.                                    *)

\* The variables that say which attempts there are, and where.
attempts == <<dispatched, dispatches, observations, decisions, attemptNumber, active,
              worktrees, branches, mergedAt>>

\* No call is under way that leaves the log behind.
LEMMA LogIsUpToDate ==
  ASSUME Idle \/ \E call : Doing(call) /\ call \notin {"started", "retry", "pop"}
  PROVE  \A i \in Items : ~Unlogged(i)
BY DEF Idle, Doing, Unlogged

\* Nothing is dispatched, created, destroyed or dropped.
LEMMA PlacesKept ==
  ASSUME IInv, UNCHANGED <<dispatched, dispatches, attemptNumber, active, worktrees, branches>>,
         log'.assigned = log.assigned
  PROVE  /\ OneAttemptAtATime'
         /\ \A i \in Items : WorktreeFacts(i)'
         /\ \A i \in Items : /\ FirstBranch(i) => FirstBranch(i)'
                             /\ WorktreesOf(i)' = WorktreesOf(i)
<1>1. OneAttemptAtATime'
  BY DEF IInv, OneAttemptAtATime
<1>2. \A i \in Items : WorktreesOf(i)' = WorktreesOf(i) /\ FirstBranch(i)' = FirstBranch(i)
  BY DEF WorktreesOf, FirstBranch
<1>3. \A i \in Items : CreatesFirst(i)' = CreatesFirst(i)
  BY <1>2 DEF CreatesFirst
<1>4. \A i \in Items : WorktreeFacts(i)'
  BY <1>2, <1>3 DEF IInv, WorktreeFacts
<1> QED
  BY <1>1, <1>2, <1>4

\* Nor is anything released: what is being launched still is.
LEMMA LaunchesKept ==
  ASSUME UNCHANGED <<dispatched, released, dispatches, attemptNumber, active, worktrees,
                     branches>>,
         log'.assigned = log.assigned
  PROVE  /\ \A i \in Items : ToLaunch(i) => ToLaunch(i)'
         /\ \A i \in Items : BeingLaunched(i) => BeingLaunched(i)'
<1>1. \A i \in Items : /\ WorktreesOf(i)' = WorktreesOf(i) /\ FirstBranch(i)' = FirstBranch(i)
                       /\ CreatesFirst(i)' = CreatesFirst(i)
  BY DEF WorktreesOf, FirstBranch, CreatesFirst
<1>2. \A i \in Items : ToLaunch(i) => ToLaunch(i)'
  BY <1>1 DEF ToLaunch
<1>3. \A i \in Items : BeingLaunched(i) => BeingLaunched(i)'
  BY <1>1 DEF BeingLaunched
<1> QED
  BY <1>2, <1>3

LEMMA AttemptsKept ==
  ASSUME IInv, UNCHANGED attempts, log'.assigned = log.assigned
  PROVE  /\ OneAttemptAtATime'
         /\ \A i \in Items : WorktreeFacts(i)'
         /\ \A i \in Items : ItemFacts(i)'
         /\ \A i \in Items : /\ FirstBranch(i) => FirstBranch(i)'
                             /\ WorktreesOf(i)' = WorktreesOf(i)
<1>1. UNCHANGED <<dispatched, dispatches, observations, decisions, attemptNumber, active,
                  worktrees, branches, mergedAt>>
  BY DEF attempts
<1>2. \A i \in Items : ItemFacts(i)'
  BY <1>1 DEF IInv, ItemFacts, Sim!Approved
<1> QED
  BY <1>1, <1>2, PlacesKept

LEMMA LogKept ==
  ASSUME IInv, \A i \in Items : ~Unlogged(i),
         UNCHANGED <<dispatched, dispatches, active>>, cancelled \subseteq cancelled', alive' => alive,
         log'.assigned = log.assigned, log.keys \subseteq log'.keys,
         log'.tickets = log.tickets, published' \subseteq published,
         failures > 0 => failures' > 0
  PROVE  \A i \in Items : LogFacts(i)'
<1> SUFFICES ASSUME NEW i \in Items PROVE LogFacts(i)'
  OBVIOUS
<1>1. alive' /\ i \in active'
        => \/ log'.assigned[i] = dispatches'[i]
           \/ log'.assigned[i] = None /\ failures' > 0
  BY DEF IInv, LogFacts
<1>2. i \notin active' /\ log'.assigned[i] # None
        => i \in cancelled' \/ log'.keys \cap {<<i, "Done">>, <<i, "Cancelled">>} # {}
  BY DEF IInv, LogFacts
<1>4. i \notin dispatched' /\ log'.assigned[i] # None => i \in cancelled'
  BY DEF IInv, LogFacts
<1>3. /\ log'.tickets[i] # None => <<i, log'.tickets[i]>> \in log'.keys
      /\ <<i, "Done">> \in published' => <<i, "Done">> \in log'.keys
  BY DEF IInv, LogFacts
<1> QED
  BY <1>1, <1>2, <1>3, <1>4 DEF LogFacts

\* The event log's fields, one by one.
LEMMA LogTypes ==
  log \in Projection <=>
    /\ log = [tickets |-> log.tickets, keys |-> log.keys, base |-> log.base,
              assigned |-> log.assigned, waves |-> log.waves, ended |-> log.ended]
    /\ log.tickets \in [Items -> TicketStates \cup {None}]
    /\ log.keys \in SUBSET (Items \X TicketStates)
    /\ log.base \in Revisions \cup {None}
    /\ log.assigned \in [Items -> Sim!Dispatch \cup {None}]
    /\ log.waves \in [1..MaxWaves -> Sim!Sched!Wave \cup {None}]
    /\ log.ended \in SUBSET (1..MaxWaves)
BY DEF Projection

\* A publication begins.
LEMMA PublishPhase ==
  ASSUME NEW i \in Items, NEW state \in {"NeedsAttention", "Cancelled"},
         todo' = Publish(i, state)
  PROVE  Phase'
<1>1. todo' = <<<<"tracker", i, state>>, <<"ticket", i, state>>>>
  BY DEF Publish
<1>2. PhasePublish(i, state)'
  BY <1>1 DEF PhasePublish
<1> QED
  BY <1>2 DEF Phase

LEMMA ReconcileMissingIInv ==
  ASSUME IInv, NEW i \in Items, ReconcileMissing(i)
  PROVE  IInv'
<1>1. UNCHANGED <<simVars, active, published, alive, tracker, worktrees, branches, log, tip,
                  mergedAt, crashes, failures>>
  BY DEF ReconcileMissing, memory, gitVars, worldVars, counters
<1>2. TypeOK' /\ Len(waves') <= MaxWaves /\ crashes' \in 0..MaxCrashes
      /\ failures' \in 0..MaxFailures
  BY <1>1 DEF IInv, TypeOK, simVars, Sim!TypeOK, Sim!Sched!TypeOK
<1>3. /\ OneAttemptAtATime' /\ \A j \in Items : WorktreeFacts(j)' /\ ItemFacts(j)'
  BY <1>1, AttemptsKept DEF attempts, simVars
<1>4. \A j \in Items : LogFacts(j)'
  BY <1>1, LogKept, LogIsUpToDate DEF ReconcileMissing, simVars
<1>5. Phase'
  BY PublishPhase DEF ReconcileMissing
<1> QED
  BY <1>2, <1>3, <1>4, <1>5 DEF IInv

LEMMA RuntimeFailsIInv ==
  ASSUME IInv, NEW i \in Items, RuntimeFails(i)
  PROVE  IInv'
<1>1. UNCHANGED <<simVars, active, published, alive, tracker, worktrees, branches, log, tip,
                  mergedAt, crashes, failures>>
  BY DEF RuntimeFails, memory, gitVars, worldVars, counters
<1>2. TypeOK' /\ Len(waves') <= MaxWaves /\ crashes' \in 0..MaxCrashes
      /\ failures' \in 0..MaxFailures
  BY <1>1 DEF IInv, TypeOK, simVars, Sim!TypeOK, Sim!Sched!TypeOK
<1>3. /\ OneAttemptAtATime' /\ \A j \in Items : WorktreeFacts(j)' /\ ItemFacts(j)'
  BY <1>1, AttemptsKept DEF attempts, simVars
<1>4. \A j \in Items : LogFacts(j)'
  BY <1>1, LogKept, LogIsUpToDate DEF RuntimeFails, simVars
<1>5. Phase'
  BY PublishPhase DEF RuntimeFails
<1> QED
  BY <1>2, <1>3, <1>4, <1>5 DEF IInv

LEMMA UpdateTrackerIInv ==
  ASSUME IInv, UpdateTracker
  PROVE  IInv'
<1>1. /\ Doing("tracker")
      /\ tracker' = [tracker EXCEPT ![Head(todo)[2]] = Head(todo)[3]]
      /\ todo' = Tail(todo)
      /\ UNCHANGED <<simVars, active, published, alive, worktrees, branches, log, tip,
                     mergedAt, crashes, failures>>
  BY DEF UpdateTracker, Item, Done, memory, gitVars, worldVars, counters
<1>2. Head(todo)[3] \in TicketStates
  BY <1>1, AtTracker DEF IInv, TicketStates
<1>3. TypeOK' /\ Len(waves') <= MaxWaves /\ crashes' \in 0..MaxCrashes
      /\ failures' \in 0..MaxFailures
  <2>1. Sim!TypeOK'
    BY <1>1 DEF IInv, TypeOK, simVars, Sim!TypeOK, Sim!Sched!TypeOK
  <2>2. tracker' \in [Items -> TicketStates]
    BY <1>1, <1>2 DEF IInv, TypeOK
  <2> QED
    BY <1>1, <2>1, <2>2 DEF IInv, TypeOK, simVars
<1>4. /\ OneAttemptAtATime' /\ \A j \in Items : WorktreeFacts(j)' /\ ItemFacts(j)'
      /\ \A j \in Items : /\ ToLaunch(j) => ToLaunch(j)'
                          /\ BeingLaunched(j) => BeingLaunched(j)'
  <2>1. UNCHANGED <<dispatched, released, dispatches, attemptNumber, active, worktrees,
                    branches, log>>
    BY <1>1 DEF simVars
  <2>2. \A j \in Items : /\ ToLaunch(j) => ToLaunch(j)'
                         /\ BeingLaunched(j) => BeingLaunched(j)'
    BY <2>1, LaunchesKept
  <2> QED
    BY <1>1, <2>2, AttemptsKept DEF attempts, simVars
<1>5. \A j \in Items : LogFacts(j)'
  BY <1>1, LogKept, LogIsUpToDate DEF simVars
<1>6. Phase'
  <2>0. UNCHANGED <<waves, active, dispatches, mergedAt>>
    BY <1>1 DEF simVars
  <2>1. PICK i \in Items :
           \/ \E R \in SUBSET Items :
                /\ waves # <<>> /\ BeingLaunched(i) /\ i \notin active
                /\ i \notin R /\ \A j \in R : ToLaunch(j)
                /\ todo = <<<<"tracker", i, "InProgress">>, <<"ticket", i, "InProgress">>,
                            <<"start", i>>, <<"started", i>>, Rest(R)>>
           \/ \E state \in {"NeedsAttention", "Cancelled"} :
                todo = <<<<"tracker", i, state>>, <<"ticket", i, state>>>>
           \/ /\ i \in active
              /\ todo = <<<<"tracker", i, "InReview">>, <<"ticket", i, "InReview">>, <<"gate", i>>>>
           \/ /\ i \in active /\ mergedAt[dispatches[i].workspace] > 0
              /\ todo = <<<<"tracker", i, "Done">>, <<"ticket", i, "Done">>,
                          <<"ended", i>>, <<"pop", i>>>>
    BY <1>1, AtTracker DEF IInv
  <2>2. ASSUME NEW R \in SUBSET Items,
               waves # <<>>, BeingLaunched(i), i \notin active,
               i \notin R, \A j \in R : ToLaunch(j),
               todo = <<<<"tracker", i, "InProgress">>, <<"ticket", i, "InProgress">>,
                        <<"start", i>>, <<"started", i>>, Rest(R)>>
        PROVE  Phase'
    <3>1. todo' = <<<<"ticket", i, "InProgress">>, <<"start", i>>, <<"started", i>>, Rest(R)>>
      BY <1>1, <2>2
    <3>2. PhaseLaunch(i, R)'
      BY <1>4, <2>0, <2>2, <3>1 DEF PhaseLaunch, Rest
    <3> QED
      BY <3>2 DEF Phase
  <2>3. ASSUME NEW state \in {"NeedsAttention", "Cancelled"},
               todo = <<<<"tracker", i, state>>, <<"ticket", i, state>>>>
        PROVE  Phase'
    <3>1. PhasePublish(i, state)'
      BY <1>1, <2>3 DEF PhasePublish
    <3> QED
      BY <3>1 DEF Phase
  <2>4. CASE /\ i \in active
             /\ todo = <<<<"tracker", i, "InReview">>, <<"ticket", i, "InReview">>, <<"gate", i>>>>
    <3>1. PhaseObserve(i)'
      BY <1>1, <2>0, <2>4 DEF PhaseObserve
    <3> QED
      BY <3>1 DEF Phase
  <2>5. CASE /\ i \in active /\ mergedAt[dispatches[i].workspace] > 0
             /\ todo = <<<<"tracker", i, "Done">>, <<"ticket", i, "Done">>,
                         <<"ended", i>>, <<"pop", i>>>>
    <3>1. PhaseRelease(i)'
      BY <1>1, <2>0, <2>5 DEF PhaseRelease
    <3> QED
      BY <3>1 DEF Phase
  <2> QED
    BY <2>1, <2>2, <2>3, <2>4, <2>5
<1> QED
  BY <1>3, <1>4, <1>5, <1>6 DEF IInv

LEMMA LogTicketIInv ==
  ASSUME IInv, LogTicket
  PROVE  IInv'
<1>0. Doing("ticket") /\ todo' = Tail(todo)
  BY DEF LogTicket, Done
<1>1. PICK i \in Items, state \in TicketStates :
        /\ i = Head(todo)[2] /\ state = Head(todo)[3]
        /\ \/ \E R \in SUBSET Items :
                /\ waves # <<>> /\ BeingLaunched(i) /\ i \notin active
                /\ i \notin R /\ \A j \in R : ToLaunch(j)
                /\ state = "InProgress"
                /\ todo' = <<<<"start", i>>, <<"started", i>>, Rest(R)>>
           \/ state \in {"NeedsAttention", "Cancelled"} /\ todo' = <<>>
           \/ i \in active /\ state = "InReview" /\ todo' = <<<<"gate", i>>>>
           \/ i \in active /\ state = "Done" /\ todo' = <<<<"ended", i>>, <<"pop", i>>>>
  <2>1. PICK i \in Items :
           \/ \E R \in SUBSET Items :
                /\ waves # <<>> /\ BeingLaunched(i) /\ i \notin active
                /\ i \notin R /\ \A j \in R : ToLaunch(j)
                /\ todo = <<<<"ticket", i, "InProgress">>, <<"start", i>>, <<"started", i>>,
                            Rest(R)>>
           \/ \E state \in {"NeedsAttention", "Cancelled"} : todo = <<<<"ticket", i, state>>>>
           \/ i \in active /\ todo = <<<<"ticket", i, "InReview">>, <<"gate", i>>>>
           \/ i \in active /\ todo = <<<<"ticket", i, "Done">>, <<"ended", i>>, <<"pop", i>>>>
    BY <1>0, AtTicket DEF IInv
  <2>2. ASSUME NEW R \in SUBSET Items,
               waves # <<>>, BeingLaunched(i), i \notin active,
               i \notin R, \A j \in R : ToLaunch(j),
               todo = <<<<"ticket", i, "InProgress">>, <<"start", i>>, <<"started", i>>, Rest(R)>>
        PROVE  /\ Head(todo)[2] = i /\ Head(todo)[3] = "InProgress"
               /\ todo' = <<<<"start", i>>, <<"started", i>>, Rest(R)>>
    BY <1>0, <2>2, Tails
  <2>3. ASSUME NEW state \in {"NeedsAttention", "Cancelled"}, todo = <<<<"ticket", i, state>>>>
        PROVE  Head(todo)[2] = i /\ Head(todo)[3] = state /\ todo' = <<>>
    BY <1>0, <2>3, Tails
  <2>4. CASE i \in active /\ todo = <<<<"ticket", i, "InReview">>, <<"gate", i>>>>
    <3>1. Head(todo)[2] = i /\ Head(todo)[3] = "InReview" /\ todo' = <<<<"gate", i>>>>
      BY <1>0, <2>4, Tails
    <3> QED
      BY <2>4, <3>1 DEF TicketStates
  <2>5. CASE i \in active /\ todo = <<<<"ticket", i, "Done">>, <<"ended", i>>, <<"pop", i>>>>
    <3>1. Head(todo)[2] = i /\ Head(todo)[3] = "Done" /\ todo' = <<<<"ended", i>>, <<"pop", i>>>>
      BY <1>0, <2>5, Tails
    <3> QED
      BY <2>5, <3>1 DEF TicketStates
  <2>6. CASE \E R \in SUBSET Items :
                /\ waves # <<>> /\ BeingLaunched(i) /\ i \notin active
                /\ i \notin R /\ \A j \in R : ToLaunch(j)
                /\ todo = <<<<"ticket", i, "InProgress">>, <<"start", i>>, <<"started", i>>,
                            Rest(R)>>
    BY <2>2, <2>6 DEF TicketStates
  <2>7. CASE \E state \in {"NeedsAttention", "Cancelled"} : todo = <<<<"ticket", i, state>>>>
    BY <2>3, <2>7 DEF TicketStates
  <2> QED
    BY <2>1, <2>4, <2>5, <2>6, <2>7
<1>2. /\ log' = IF <<i, state>> \in log.keys THEN log
                ELSE [log EXCEPT !.keys = log.keys \cup {<<i, state>>}, !.tickets[i] = state]
      /\ published' = IF state \in {"InReview", "NeedsAttention", "Done"}
                      THEN published \cup {<<i, state>>} ELSE published
      /\ UNCHANGED <<simVars, active, alive, tracker, worktrees, branches, tip, mergedAt,
                     crashes, failures>>
  BY <1>1 DEF LogTicket, Item, gitVars, worldVars, counters
<1>4. log \in Projection
  BY DEF IInv, TypeOK
<1>5. /\ log'.assigned = log.assigned /\ log'.waves = log.waves /\ log'.base = log.base
      /\ log'.keys = log.keys \cup {<<i, state>>}
      /\ log'.tickets = log.tickets
           \/ log'.tickets = [log.tickets EXCEPT ![i] = state]
      /\ log'.ended = log.ended
      /\ log' = [tickets |-> log'.tickets, keys |-> log'.keys, base |-> log'.base,
                 assigned |-> log'.assigned, waves |-> log'.waves, ended |-> log'.ended]
  BY <1>2, <1>4, LogTypes
<1>6. TypeOK' /\ Len(waves') <= MaxWaves /\ crashes' \in 0..MaxCrashes
      /\ failures' \in 0..MaxFailures
  <2>1. Sim!TypeOK'
    BY <1>2 DEF IInv, TypeOK, simVars, Sim!TypeOK, Sim!Sched!TypeOK
  <2>2. log' \in Projection
    <3>1. log'.tickets \in [Items -> TicketStates \cup {None}]
      BY <1>1, <1>4, <1>5, LogTypes
    <3>2. log'.keys \in SUBSET (Items \X TicketStates)
      BY <1>1, <1>4, <1>5, LogTypes
    <3> QED
      BY <1>4, <1>5, <3>1, <3>2, LogTypes DEF Projection
  <2>3. published' \subseteq Items \X {"InReview", "NeedsAttention", "Done"}
    BY <1>2, <1>1 DEF IInv, TypeOK
  <2> QED
    BY <1>2, <2>1, <2>2, <2>3 DEF IInv, TypeOK, simVars
<1>7. /\ OneAttemptAtATime' /\ \A j \in Items : WorktreeFacts(j)' /\ ItemFacts(j)'
      /\ \A j \in Items : /\ ToLaunch(j) => ToLaunch(j)'
                          /\ BeingLaunched(j) => BeingLaunched(j)'
  <2>1. UNCHANGED <<dispatched, released, dispatches, attemptNumber, active, worktrees,
                    branches>>
    BY <1>2 DEF simVars
  <2>2. \A j \in Items : /\ ToLaunch(j) => ToLaunch(j)'
                         /\ BeingLaunched(j) => BeingLaunched(j)'
    BY <1>5, <2>1, LaunchesKept
  <2> QED
    BY <1>2, <1>5, <2>2, AttemptsKept DEF attempts, simVars
<1>8. UNCHANGED <<waves, active, dispatched, dispatches, mergedAt, cancelled, alive, failures>>
  BY <1>2 DEF simVars
<1>9. \A j \in Items : LogFacts(j)'
  <2> SUFFICES ASSUME NEW j \in Items PROVE LogFacts(j)'
    OBVIOUS
  <2>1. alive' /\ j \in active'
          => \/ log'.assigned[j] = dispatches'[j]
             \/ log'.assigned[j] = None /\ failures' > 0
    <3>1. ~Unlogged(j)
      BY <1>0, LogIsUpToDate
    <3> QED
      BY <1>5, <1>8, <3>1 DEF IInv, LogFacts
  <2>2. j \notin active' /\ log'.assigned[j] # None
          => j \in cancelled' \/ log'.keys \cap {<<j, "Done">>, <<j, "Cancelled">>} # {}
    BY <1>5, <1>8 DEF IInv, LogFacts
  <2>5. j \notin dispatched' /\ log'.assigned[j] # None => j \in cancelled'
    BY <1>5, <1>8 DEF IInv, LogFacts
  <2>3. log'.tickets[j] # None => <<j, log'.tickets[j]>> \in log'.keys
    BY <1>1, <1>4, <1>5, LogTypes DEF IInv, LogFacts
  <2>4. <<j, "Done">> \in published' => <<j, "Done">> \in log'.keys
    BY <1>2, <1>5 DEF IInv, LogFacts
  <2> QED
    BY <2>1, <2>2, <2>3, <2>4, <2>5 DEF LogFacts
<1>10. Phase'
  <2>1. ASSUME NEW R \in SUBSET Items,
               waves # <<>>, BeingLaunched(i), i \notin active,
               i \notin R, \A j \in R : ToLaunch(j),
               todo' = <<<<"start", i>>, <<"started", i>>, Rest(R)>>
        PROVE  Phase'
    <3>1. PhaseLaunch(i, R)'
      BY <1>1, <1>7, <1>8, <2>1 DEF PhaseLaunch, Rest
    <3> QED
      BY <1>1, <3>1 DEF Phase
  <2>2. CASE todo' = <<>>
    BY <2>2 DEF Phase
  <2>3. CASE i \in active /\ todo' = <<<<"gate", i>>>>
    <3>1. PhaseObserve(i)'
      BY <1>8, <2>3 DEF PhaseObserve
    <3> QED
      BY <1>1, <3>1 DEF Phase
  <2>4. CASE i \in active /\ state = "Done" /\ todo' = <<<<"ended", i>>, <<"pop", i>>>>
    <3>1. PhaseReleased(i)'
      BY <1>5, <1>8, <2>4 DEF PhaseReleased
    <3> QED
      BY <1>1, <3>1 DEF Phase
  <2> QED
    BY <1>1, <2>1, <2>2, <2>3, <2>4
<1> QED
  BY <1>6, <1>7, <1>9, <1>10 DEF IInv

\* The revisions and the waves there can be.
LEMMA BoundFacts ==
  ASSUME IInv
  PROVE  /\ baseRevision \in Revisions /\ tip \in Revisions
         /\ waves # <<>> =>
              Len(waves) \in 1..MaxWaves /\ waves[Len(waves)] \in Sim!Sched!Wave
<1>1. waves \in Seq(Sim!Sched!Wave) /\ Len(waves) <= MaxWaves
  BY SimTypes DEF IInv, TypeOK
<1>2. waves # <<>> => Len(waves) \in 1..MaxWaves /\ waves[Len(waves)] \in Sim!Sched!Wave
  BY <1>1, ControllerAssumption
<1> QED
  BY <1>2, SimTypes DEF IInv, TypeOK

\* A wave in another state is a wave.
LEMMA WaveState ==
  ASSUME NEW wave \in Sim!Sched!Wave,
         NEW state \in {"active", "released", "superseded", "cancelled"}
  PROVE  [wave EXCEPT !.state = state] \in Sim!Sched!Wave
BY DEF Sim!Sched!Wave

LEMMA LogBaseIInv ==
  ASSUME IInv, LogBase
  PROVE  IInv'
<1>1. /\ Doing("base") /\ todo' = Tail(todo)
      /\ log' = [log EXCEPT !.base = baseRevision]
      /\ UNCHANGED <<simVars, active, published, alive, tracker, worktrees, branches, tip,
                     mergedAt, crashes, failures>>
  BY DEF LogBase, Done, memory, gitVars, worldVars, counters
<1>2. todo' = <<<<"frontier">>>> \/ todo' = <<>>
  <2>1. todo = <<<<"base">>, <<"frontier">>>> \/ todo = <<<<"base">>>>
    BY <1>1, AtBase DEF IInv
  <2>2. todo' = Tail(todo)
    BY <1>1
  <2> QED
    BY <2>1, <2>2, Tails
<1>3. Phase'
  <2>1. (Barrier => simWave = {})'
    BY <1>1, AtBase DEF IInv, Barrier, simVars
  <2> QED
    BY <1>2, <2>1 DEF Phase, PhaseRefresh
<1>4. TypeOK' /\ Len(waves') <= MaxWaves /\ crashes' \in 0..MaxCrashes
      /\ failures' \in 0..MaxFailures
  <2>1. Sim!TypeOK'
    BY <1>1 DEF IInv, TypeOK, simVars, Sim!TypeOK, Sim!Sched!TypeOK
  <2>2. log' \in Projection
    BY <1>1, BoundFacts DEF IInv, TypeOK, Projection
  <2> QED
    BY <1>1, <2>1, <2>2 DEF IInv, TypeOK, simVars
<1>5. log'.assigned = log.assigned /\ log'.keys = log.keys /\ log'.tickets = log.tickets
  BY <1>1 DEF IInv, TypeOK, Projection
<1>6. /\ OneAttemptAtATime' /\ \A j \in Items : WorktreeFacts(j)' /\ ItemFacts(j)'
  BY <1>1, <1>5, AttemptsKept DEF attempts, simVars
<1>7. \A j \in Items : LogFacts(j)'
  BY <1>1, <1>5, LogKept, LogIsUpToDate DEF simVars
<1> QED
  BY <1>3, <1>4, <1>6, <1>7 DEF IInv

\* Writing a wave into the event log leaves the other invariants alone.
LEMMA LogWaves ==
  ASSUME IInv, Doing("wave") \/ Doing("waveState"),
         UNCHANGED <<simVars, active, published, alive, tracker, worktrees, branches, tip,
                     mergedAt, crashes, failures>>,
         log' = log \/ \E n \in 1..MaxWaves, wave \in Sim!Sched!Wave \cup {None},
                          ended \in SUBSET (1..MaxWaves) :
                         log' = [log EXCEPT !.ended = ended,
                                            !.waves = [log.waves EXCEPT ![n] = wave]],
         Phase'
  PROVE  IInv'
<1>1. log \in Projection
  BY DEF IInv, TypeOK
<1>2. /\ log'.assigned = log.assigned /\ log'.keys = log.keys /\ log'.tickets = log.tickets
      /\ log' \in Projection
  <2>1. CASE log' = log
    BY <1>1, <2>1
  <2>2. ASSUME NEW n \in 1..MaxWaves, NEW wave \in Sim!Sched!Wave \cup {None},
               NEW ended \in SUBSET (1..MaxWaves),
               log' = [log EXCEPT !.ended = ended, !.waves = [log.waves EXCEPT ![n] = wave]]
        PROVE  /\ log'.assigned = log.assigned /\ log'.keys = log.keys
               /\ log'.tickets = log.tickets /\ log' \in Projection
    <3>1. [log.waves EXCEPT ![n] = wave] \in [1..MaxWaves -> Sim!Sched!Wave \cup {None}]
      BY <1>1, LogTypes
    <3> QED
      BY <1>1, <2>2, <3>1 DEF Projection
  <2> QED
    BY <2>1, <2>2
<1>3. TypeOK' /\ Len(waves') <= MaxWaves /\ crashes' \in 0..MaxCrashes
      /\ failures' \in 0..MaxFailures
  <2>1. Sim!TypeOK'
    BY DEF IInv, TypeOK, simVars, Sim!TypeOK, Sim!Sched!TypeOK
  <2> QED
    BY <1>2, <2>1 DEF IInv, TypeOK, simVars
<1>4. /\ OneAttemptAtATime' /\ \A j \in Items : WorktreeFacts(j)' /\ ItemFacts(j)'
  BY <1>2, AttemptsKept DEF attempts, simVars
<1>5. \A j \in Items : LogFacts(j)'
  BY <1>2, LogKept, LogIsUpToDate DEF simVars
<1> QED
  BY <1>3, <1>4, <1>5 DEF IInv

LEMMA LogWaveIInv ==
  ASSUME IInv, LogWave
  PROVE  IInv'
<1>1. /\ Doing("wave") /\ todo' = Tail(todo)
      /\ log' = IF log.waves[Len(waves)] # None THEN log
                ELSE [log EXCEPT !.waves = [log.waves EXCEPT
                        ![Len(waves)] = [waves[Len(waves)] EXCEPT !.state = "active"]]]
      /\ UNCHANGED <<simVars, active, published, alive, tracker, worktrees, branches, tip,
                     mergedAt, crashes, failures>>
  BY DEF LogWave, Done, memory, gitVars, worldVars, counters
<1>2. todo' = <<>> /\ waves # <<>>
  <2>1. todo = <<<<"wave">>>> /\ waves # <<>>
    BY <1>1, AtWave DEF IInv
  <2> QED
    BY <1>1, <2>1
<1>3. Phase'
  BY <1>2 DEF Phase
<1>4. /\ Len(waves) \in 1..MaxWaves
      /\ [waves[Len(waves)] EXCEPT !.state = "active"] \in Sim!Sched!Wave
  BY <1>2, BoundFacts, WaveState
<1>5. log.ended \in SUBSET (1..MaxWaves)
  BY LogTypes DEF IInv, TypeOK
<1>6. \A f : [log EXCEPT !.waves = f] = [log EXCEPT !.ended = log.ended, !.waves = f]
  BY LogTypes DEF IInv, TypeOK
<1> QED
  BY <1>1, <1>3, <1>4, <1>5, <1>6, LogWaves

LEMMA LogWaveStateIInv ==
  ASSUME IInv, LogWaveState
  PROVE  IInv'
<1> DEFINE n == Len(waves)
           wave == IF log.waves[n] = None THEN None
                   ELSE [log.waves[n] EXCEPT !.state = "released"]
<1>1. /\ Doing("waveState") /\ todo' = Tail(todo)
      /\ \/ log' = log
         \/ /\ n # 0
            /\ log' = [log EXCEPT !.ended = log.ended \cup {n},
                                  !.waves = [log.waves EXCEPT ![n] = wave]]
      /\ UNCHANGED <<simVars, active, published, alive, tracker, worktrees, branches, tip,
                     mergedAt, crashes, failures>>
  BY DEF LogWaveState, Done, memory, gitVars, worldVars, counters
<1>2. n # 0 => /\ n \in 1..MaxWaves /\ wave \in Sim!Sched!Wave \cup {None}
               /\ log.ended \cup {n} \in SUBSET (1..MaxWaves)
  <2> SUFFICES ASSUME n # 0
               PROVE  /\ n \in 1..MaxWaves /\ wave \in Sim!Sched!Wave \cup {None}
                      /\ log.ended \cup {n} \in SUBSET (1..MaxWaves)
    OBVIOUS
  <2>1. waves \in Seq(Sim!Sched!Wave) /\ n <= MaxWaves
    BY DEF IInv, TypeOK, Sim!TypeOK, Sim!Sched!TypeOK
  <2>2. n \in 1..MaxWaves
    BY <2>1, ControllerAssumption
  <2>3. log.waves[n] \in Sim!Sched!Wave \cup {None}
    BY <2>2, LogTypes DEF IInv, TypeOK
  <2>4. log.ended \cup {n} \in SUBSET (1..MaxWaves)
    BY <2>2, LogTypes DEF IInv, TypeOK
  <2> QED
    BY <2>2, <2>3, <2>4, WaveState
<1>3. UNCHANGED <<active, dispatches, mergedAt>> /\ log'.keys = log.keys
  BY <1>1, LogTypes DEF simVars, IInv, TypeOK
<1> HIDE DEF wave
<1>4. Phase'
  <2>1. CASE todo = <<<<"waveState">>>>
    BY <1>1, <2>1 DEF Phase
  <2>2. ASSUME NEW i \in Items,
               \/ todo = <<<<"waveState">>, <<"tracker", i, "NeedsAttention">>,
                           <<"ticket", i, "NeedsAttention">>>>
               \/ /\ i \in active /\ mergedAt[dispatches[i].workspace] > 0
                  /\ todo = <<<<"waveState">>, <<"tracker", i, "Done">>, <<"ticket", i, "Done">>,
                              <<"ended", i>>, <<"pop", i>>>>
               \/ /\ i \in active /\ <<i, "Done">> \in log.keys
                  /\ todo = <<<<"waveState">>, <<"pop", i>>>>
        PROVE  Phase'
    <3>1. \/ todo' = <<<<"tracker", i, "NeedsAttention">>, <<"ticket", i, "NeedsAttention">>>>
          \/ /\ i \in active /\ mergedAt[dispatches[i].workspace] > 0
             /\ todo' = <<<<"tracker", i, "Done">>, <<"ticket", i, "Done">>,
                          <<"ended", i>>, <<"pop", i>>>>
          \/ /\ i \in active /\ <<i, "Done">> \in log.keys
             /\ todo' = <<<<"pop", i>>>>
      <4>1. todo' = Tail(todo)
        BY <1>1
      <4>2. CASE todo = <<<<"waveState">>, <<"tracker", i, "NeedsAttention">>,
                          <<"ticket", i, "NeedsAttention">>>>
        BY <4>1, <4>2, Tails
      <4>3. CASE /\ i \in active /\ mergedAt[dispatches[i].workspace] > 0
                 /\ todo = <<<<"waveState">>, <<"tracker", i, "Done">>, <<"ticket", i, "Done">>,
                             <<"ended", i>>, <<"pop", i>>>>
        BY <4>1, <4>3, Tails
      <4>4. CASE /\ i \in active /\ <<i, "Done">> \in log.keys
                 /\ todo = <<<<"waveState">>, <<"pop", i>>>>
        BY <4>1, <4>4, Tails
      <4> QED
        BY <2>2, <4>2, <4>3, <4>4
    <3>2. \/ PhasePublish(i, "NeedsAttention")' \/ PhaseRelease(i)' \/ PhaseReleased(i)'
      BY <1>3, <3>1 DEF PhasePublish, PhaseRelease, PhaseReleased
    <3> QED
      BY <3>2 DEF Phase
  <2> QED
    BY <1>1, <2>1, <2>2, AtWaveState DEF IInv
<1> QED
  BY <1>1, <1>2, <1>4, LogWaves

\* refresh_target_base moves the base and leaves the attempts alone.
LEMMA RefreshKeeps ==
  ASSUME IInv, Sim!RefreshTargetBase(tip),
         Idle \/ Doing("refresh"),
         UNCHANGED <<active, published, alive, tracker, worktrees, branches, log, tip, mergedAt,
                     crashes, failures>>,
         Phase'
  PROVE  IInv'
<1>1. /\ Sim!TypeOK'
      /\ UNCHANGED <<policy, dispatched, released, cancelled, waves, dispatches,
                     observations, decisions, attemptNumber>>
  BY RefreshTargetBaseFacts DEF IInv, TypeOK
<1>2. TypeOK' /\ Len(waves') <= MaxWaves /\ crashes' \in 0..MaxCrashes
      /\ failures' \in 0..MaxFailures
  BY <1>1 DEF IInv, TypeOK
<1>3. /\ OneAttemptAtATime' /\ \A j \in Items : WorktreeFacts(j)' /\ ItemFacts(j)'
  BY <1>1, AttemptsKept DEF attempts
<1>4. \A j \in Items : LogFacts(j)'
  BY <1>1, LogKept, LogIsUpToDate
<1> QED
  BY <1>2, <1>3, <1>4 DEF IInv

LEMMA RefreshTargetBaseIInv ==
  ASSUME IInv, RefreshTargetBase
  PROVE  IInv'
<1>1. simWave' = {} /\ todo' = <<<<"base">>>>
  BY DEF RefreshTargetBase, Sim!RefreshTargetBase
<1>2. Phase'
  BY <1>1 DEF Phase, PhaseRefresh
<1> QED
  BY <1>2, RefreshKeeps DEF RefreshTargetBase, gitVars, worldVars, counters

LEMMA RefreshIInv ==
  ASSUME IInv, Refresh
  PROVE  IInv'
<1>1. todo = <<<<"refresh">>>>
  BY AtRefresh DEF IInv, Refresh
<1>2. todo' = <<<<"base">>, <<"frontier">>>> \o <<>>
  BY <1>1, Tails DEF Refresh
<1>3. Phase'
  <2>1. simWave' = {}
    BY DEF Refresh, Sim!RefreshTargetBase
  <2> QED
    BY <1>2, <2>1 DEF Phase, PhaseRefresh
<1> QED
  BY <1>3, RefreshKeeps DEF Refresh, gitVars, worldVars, counters

\* The program of one launch, written out.
LEMMA LaunchProgram ==
  ASSUME NEW i, NEW R
  PROVE  /\ Launching(R) = <<Rest(R)>>
         /\ Launch(i, R) = <<<<"tracker", i, "InProgress">>, <<"ticket", i, "InProgress">>,
                             <<"start", i>>, <<"started", i>>, Rest(R)>>
<1>1. Launching(R) = <<Rest(R)>>
  BY DEF Launching, Rest
<1>2. Publish(i, "InProgress") \o <<<<"start", i>>, <<"started", i>>>>
      = <<<<"tracker", i, "InProgress">>, <<"ticket", i, "InProgress">>,
          <<"start", i>>, <<"started", i>>>>
  BY Joins DEF Publish
<1>3. <<<<"tracker", i, "InProgress">>, <<"ticket", i, "InProgress">>,
          <<"start", i>>, <<"started", i>>>> \o <<Rest(R)>>
      = <<<<"tracker", i, "InProgress">>, <<"ticket", i, "InProgress">>,
          <<"start", i>>, <<"started", i>>, Rest(R)>>
  BY Joins
<1> QED
  BY <1>1, <1>2, <1>3 DEF Launch

LEMMA CreateWorkspaceIInv ==
  ASSUME IInv, CreateWorkspace
  PROVE  IInv'
<1>1. /\ Doing("create")
      /\ UNCHANGED <<simVars, active, published, alive, tracker, log, tip, mergedAt,
                     crashes, failures>>
  BY DEF CreateWorkspace, memory, worldVars, counters
<1>2. PICK R \in SUBSET Items :
         /\ R # {} /\ todo = <<<<"create", R>>>> /\ waves # <<>>
         /\ \A j \in R : ToLaunch(j)
  BY <1>1, AtCreate DEF IInv
<1>3. PICK i \in R :
        IF dispatches[i].workspace \in branches
        THEN todo' = <<>> /\ UNCHANGED gitVars
        ELSE /\ worktrees' = worktrees \cup {dispatches[i].workspace}
             /\ branches' = branches \cup {dispatches[i].workspace}
             /\ todo' = Launch(i, R \ {i})
  <2>1. Head(todo)[2] = R
    BY <1>2
  <2> QED
    BY <2>1 DEF CreateWorkspace, Item
<1>4. Sim!TypeOK'
  BY <1>1 DEF IInv, TypeOK, simVars, Sim!TypeOK, Sim!Sched!TypeOK
<1>5. \A j \in Items : LogFacts(j)'
  BY <1>1, LogKept, LogIsUpToDate DEF simVars
<1>6. CASE dispatches[i].workspace \in branches
  <2>1. UNCHANGED <<worktrees, branches>> /\ todo' = <<>>
    BY <1>3, <1>6 DEF gitVars
  <2>2. TypeOK' /\ Len(waves') <= MaxWaves /\ crashes' \in 0..MaxCrashes
        /\ failures' \in 0..MaxFailures
    BY <1>1, <1>4, <2>1 DEF IInv, TypeOK, simVars
  <2>3. /\ OneAttemptAtATime' /\ \A j \in Items : WorktreeFacts(j)' /\ ItemFacts(j)'
    BY <1>1, <2>1, AttemptsKept DEF attempts, simVars
  <2>4. Phase'
    BY <2>1 DEF Phase
  <2> QED
    BY <1>5, <2>2, <2>3, <2>4 DEF IInv
<1>7. CASE dispatches[i].workspace \notin branches
  <2> PICK n \in 1..MaxAttempts : n = attemptNumber[i]
    BY SimTypes DEF IInv, TypeOK
  <2>1. /\ worktrees' = worktrees \cup {<<i, n>>} /\ branches' = branches \cup {<<i, n>>}
        /\ todo' = Launch(i, R \ {i})
        /\ <<i, n>> \notin branches /\ dispatches[i].workspace = <<i, n>>
        /\ i \in dispatched /\ i \notin active /\ log.assigned[i] = None
        /\ WorktreesOf(i) = {}
    BY <1>2, <1>3, <1>7 DEF ToLaunch, CreatesFirst
  <2>2. UNCHANGED <<dispatched, dispatches, observations, decisions, attemptNumber, waves,
                    released, active, log, mergedAt>>
    BY <1>1 DEF simVars
  <2>3. TypeOK' /\ Len(waves') <= MaxWaves /\ crashes' \in 0..MaxCrashes
        /\ failures' \in 0..MaxFailures
    BY <1>1, <1>4, <2>1, <2>2 DEF IInv, TypeOK, Workspaces
  <2>4. OneAttemptAtATime'
    BY <2>1 DEF IInv, OneAttemptAtATime, WorktreesOf
  <2>5. WorktreesOf(i)' = {<<i, n>>} /\ \A j \in Items \ {i} : WorktreesOf(j)' = WorktreesOf(j)
    BY <2>1 DEF WorktreesOf
  <2>6. FirstBranch(i)'
    <3>1. CASE n = 1
      BY <2>1, <3>1 DEF FirstBranch
    <3>2. CASE n > 1
      BY <2>1, <3>2 DEF IInv, WorktreeFacts, FirstBranch
    <3> QED
      BY <3>1, <3>2
  <2>7. \A j \in Items \ {i}, m \in 1..MaxAttempts :
          <<j, m>> \in branches' <=> <<j, m>> \in branches
    BY <2>1
  <2>8. 1 \in 1..MaxAttempts /\ \A j \in Items : attemptNumber[j] \in 1..MaxAttempts
    BY SimTypes, ControllerAssumption DEF IInv, TypeOK
  <2>9. \A j \in Items \ {i} : FirstBranch(j)' = FirstBranch(j) /\ CreatesFirst(j)' = CreatesFirst(j)
    BY <2>2, <2>5, <2>7, <2>8 DEF FirstBranch, CreatesFirst
  <2>10. \A j \in Items : WorktreeFacts(j)'
    <3>1. WorktreeFacts(i)'
      BY <2>1, <2>2, <2>6 DEF WorktreeFacts
    <3>2. ASSUME NEW j \in Items \ {i} PROVE WorktreeFacts(j)'
      BY <2>2, <2>5, <2>7, <2>9 DEF IInv, WorktreeFacts
    <3> QED
      BY <3>1, <3>2
  <2>11. \A j \in Items : ItemFacts(j)'
    BY <2>2 DEF IInv, ItemFacts, Sim!Approved
  <2>12. Phase'
    <3>1. todo' = <<<<"tracker", i, "InProgress">>, <<"ticket", i, "InProgress">>,
                    <<"start", i>>, <<"started", i>>, Rest(R \ {i})>>
      BY <2>1, LaunchProgram
    <3>2. BeingLaunched(i)'
      BY <1>2, <2>1, <2>2, <2>5, <2>6 DEF BeingLaunched, ToLaunch
    <3>3. \A j \in R \ {i} : ToLaunch(j)'
      BY <1>2, <2>2, <2>9 DEF ToLaunch
    <3>4. PhaseLaunch(i, R \ {i})'
      BY <1>2, <2>1, <2>2, <3>1, <3>2, <3>3 DEF PhaseLaunch, Rest
    <3> QED
      BY <3>4 DEF Phase
  <2> QED
    BY <1>5, <2>3, <2>4, <2>10, <2>11, <2>12 DEF IInv
<1> QED
  BY <1>6, <1>7

LEMMA StartRuntimeIInv ==
  ASSUME IInv, StartRuntime
  PROVE  IInv'
<1>1. /\ Doing("start") /\ todo' = Tail(todo)
      /\ active' = active \cup {Head(todo)[2]}
      /\ UNCHANGED <<simVars, published, alive, tracker, worktrees, branches, log, tip,
                     mergedAt, crashes, failures>>
  BY DEF StartRuntime, Item, Done, gitVars, worldVars, counters
<1>2. PICK i \in Items, R \in SUBSET Items :
         /\ todo = <<<<"start", i>>, <<"started", i>>, Rest(R)>>
         /\ waves # <<>> /\ BeingLaunched(i) /\ i \notin active
         /\ i \notin R /\ \A j \in R : ToLaunch(j)
  BY <1>1, AtStart DEF IInv
<1>3. active' = active \cup {i} /\ todo' = <<<<"started", i>>, Rest(R)>>
  BY <1>1, <1>2, Tails
<1>4. UNCHANGED <<dispatched, dispatches, observations, decisions, attemptNumber, waves,
                  cancelled, released>>
  BY <1>1 DEF simVars
<1>5. TypeOK' /\ Len(waves') <= MaxWaves /\ crashes' \in 0..MaxCrashes
      /\ failures' \in 0..MaxFailures
  <2>1. Sim!TypeOK'
    BY <1>1 DEF IInv, TypeOK, simVars, Sim!TypeOK, Sim!Sched!TypeOK
  <2> QED
    BY <1>1, <1>3, <1>4, <2>1 DEF IInv, TypeOK
<1>6. OneAttemptAtATime'
  BY <1>1 DEF IInv, OneAttemptAtATime
<1>7. \A j \in Items : /\ WorktreesOf(j)' = WorktreesOf(j) /\ FirstBranch(j)' = FirstBranch(j)
                      /\ CreatesFirst(j)' = CreatesFirst(j)
  BY <1>1, <1>4 DEF WorktreesOf, FirstBranch, CreatesFirst
<1>8. \A j \in Items : WorktreeFacts(j)'
  <2>1. WorktreeFacts(i)'
    BY <1>1, <1>2, <1>3, <1>4, <1>7 DEF IInv, WorktreeFacts, BeingLaunched
  <2>2. ASSUME NEW j \in Items \ {i} PROVE WorktreeFacts(j)'
    BY <1>1, <1>3, <1>4, <1>7 DEF IInv, WorktreeFacts
  <2> QED
    BY <2>1, <2>2
<1>9. \A j \in Items : ItemFacts(j)'
  BY <1>1, <1>2, <1>3, <1>4 DEF IInv, ItemFacts, Sim!Approved, BeingLaunched
<1>10. \A j \in Items : LogFacts(j)'
  <2>1. \A j \in Items : ~Unlogged(j)
    BY <1>1, LogIsUpToDate
  <2>2. LogFacts(i)'
    <3>1. Unlogged(i)'
      BY <1>3 DEF Unlogged
    <3>2. /\ i \in active' /\ i \in dispatched'
          /\ log'.assigned = log.assigned /\ log.assigned[i] = None
          /\ log' = log /\ published' = published
      BY <1>1, <1>2, <1>3, <1>4 DEF BeingLaunched
    <3> QED
      BY <3>1, <3>2 DEF IInv, LogFacts
  <2>3. ASSUME NEW j \in Items \ {i} PROVE LogFacts(j)'
    BY <1>1, <1>3, <1>4, <2>1 DEF IInv, LogFacts
  <2> QED
    BY <2>2, <2>3
<1>11. Phase'
  <2>1. BeingLaunched(i)' /\ \A j \in R : ToLaunch(j)'
    BY <1>1, <1>2, <1>3, <1>4, <1>7 DEF BeingLaunched, ToLaunch
  <2>2. PhaseLaunch(i, R)'
    BY <1>2, <1>3, <1>4, <2>1 DEF PhaseLaunch, Rest
  <2> QED
    BY <2>2 DEF Phase
<1> QED
  BY <1>5, <1>6, <1>8, <1>9, <1>10, <1>11 DEF IInv

LEMMA LogStartedIInv ==
  ASSUME IInv, LogStarted
  PROVE  IInv'
<1>1. /\ Doing("started") /\ todo' = Tail(todo)
      /\ log' = [log EXCEPT !.assigned[Head(todo)[2]] = dispatches[Head(todo)[2]]]
      /\ UNCHANGED <<simVars, active, published, alive, tracker, worktrees, branches, tip,
                     mergedAt, crashes, failures>>
  BY DEF LogStarted, Item, Done, memory, gitVars, worldVars, counters
<1>2. PICK i \in Items, R \in SUBSET Items :
         /\ todo = <<<<"started", i>>, Rest(R)>>
         /\ waves # <<>> /\ BeingLaunched(i) /\ i \in active
         /\ i \notin R /\ \A j \in R : ToLaunch(j)
  BY <1>1, AtStarted DEF IInv
<1>3. /\ todo' = <<Rest(R)>>
      /\ log' = [log EXCEPT !.assigned[i] = dispatches[i]]
      /\ \A j \in Items : Unlogged(j) => j = i
  <2>1. Head(todo)[2] = i /\ Head(todo) = <<"started", i>>
    BY <1>2
  <2> QED
    BY <1>1, <1>2, <2>1, Tails DEF Unlogged
<1>4. UNCHANGED <<dispatched, dispatches, observations, decisions, attemptNumber, waves,
                  cancelled, released>>
  BY <1>1 DEF simVars
<1>5. log \in Projection /\ dispatches[i] \in Sim!Dispatch \cup {None}
  BY SimTypes DEF IInv, TypeOK
<1>6. /\ log'.keys = log.keys /\ log'.tickets = log.tickets
      /\ log'.assigned[i] = dispatches[i]
      /\ \A j \in Items \ {i} : log'.assigned[j] = log.assigned[j]
      /\ log' \in Projection
  BY <1>3, <1>5 DEF Projection
<1>7. TypeOK' /\ Len(waves') <= MaxWaves /\ crashes' \in 0..MaxCrashes
      /\ failures' \in 0..MaxFailures
  <2>1. Sim!TypeOK'
    BY <1>1 DEF IInv, TypeOK, simVars, Sim!TypeOK, Sim!Sched!TypeOK
  <2> QED
    BY <1>1, <1>4, <1>6, <2>1 DEF IInv, TypeOK
<1>8. OneAttemptAtATime'
  BY <1>1 DEF IInv, OneAttemptAtATime
<1>9. \A j \in Items : /\ WorktreesOf(j)' = WorktreesOf(j) /\ FirstBranch(j)' = FirstBranch(j)
                      /\ CreatesFirst(j)' = CreatesFirst(j)
  BY <1>1, <1>4 DEF WorktreesOf, FirstBranch, CreatesFirst
<1>10. \A j \in Items : WorktreeFacts(j)'
  <2>1. WorktreeFacts(i)'
    BY <1>1, <1>2, <1>4, <1>6, <1>9 DEF IInv, WorktreeFacts, BeingLaunched
  <2>2. ASSUME NEW j \in Items \ {i} PROVE WorktreeFacts(j)'
    BY <1>1, <1>4, <1>6, <1>9 DEF IInv, WorktreeFacts
  <2> QED
    BY <2>1, <2>2
<1>11. \A j \in Items : ItemFacts(j)'
  <2>1. ItemFacts(i)'
    BY <1>1, <1>4, <1>6 DEF IInv, ItemFacts, Sim!Approved
  <2>2. ASSUME NEW j \in Items \ {i} PROVE ItemFacts(j)'
    BY <1>1, <1>4, <1>6 DEF IInv, ItemFacts, Sim!Approved
  <2> QED
    BY <2>1, <2>2
<1>12. \A j \in Items : LogFacts(j)'
  <2>1. LogFacts(i)'
    BY <1>1, <1>2, <1>4, <1>6 DEF IInv, LogFacts, BeingLaunched
  <2>2. ASSUME NEW j \in Items \ {i} PROVE LogFacts(j)'
    BY <1>1, <1>3, <1>4, <1>6 DEF IInv, LogFacts
  <2> QED
    BY <2>1, <2>2
<1>13. Phase'
  <2>1. \A j \in R : ToLaunch(j)'
    BY <1>1, <1>2, <1>4, <1>6, <1>9 DEF ToLaunch
  <2>2. PhaseDispatch(R)'
    BY <1>2, <1>3, <1>4, <2>1 DEF PhaseDispatch, Rest
  <2> QED
    BY <2>2 DEF Phase
<1> QED
  BY <1>7, <1>8, <1>10, <1>11, <1>12, <1>13 DEF IInv

LEMMA LogEndedIInv ==
  ASSUME IInv, LogEnded
  PROVE  IInv'
<1>1. /\ Doing("ended") /\ todo' = Tail(todo)
      /\ log' = [log EXCEPT !.assigned[Head(todo)[2]] = None]
      /\ UNCHANGED <<simVars, active, published, alive, tracker, worktrees, branches, tip,
                     mergedAt, crashes, failures>>
  BY DEF LogEnded, Item, Done, memory, gitVars, worldVars, counters
<1>2. PICK i \in Items :
           /\ i \in active
           /\ \/ /\ <<i, "Done">> \in log.keys
                 /\ todo = <<<<"ended", i>>, <<"pop", i>>>>
              \/ /\ WorktreesOf(i) = {} /\ FirstBranch(i)
                 /\ todo = <<<<"ended", i>>, <<"retry", i>>, <<"redispatch", i>>>>
  BY <1>1, AtEnded DEF IInv
<1>3. /\ log' = [log EXCEPT !.assigned[i] = None]
      /\ Unlogged(i)'
      /\ \/ /\ <<i, "Done">> \in log.keys
            /\ todo' = <<<<"pop", i>>>>
         \/ /\ WorktreesOf(i) = {} /\ FirstBranch(i)
            /\ todo' = <<<<"retry", i>>, <<"redispatch", i>>>>
  <2>1. CASE <<i, "Done">> \in log.keys /\ todo = <<<<"ended", i>>, <<"pop", i>>>>
    <3>1. Head(todo)[2] = i /\ todo' = <<<<"pop", i>>>>
      BY <1>1, <2>1, Tails
    <3> QED
      BY <1>1, <2>1, <3>1 DEF Unlogged
  <2>2. CASE /\ WorktreesOf(i) = {} /\ FirstBranch(i)
             /\ todo = <<<<"ended", i>>, <<"retry", i>>, <<"redispatch", i>>>>
    <3>1. Head(todo)[2] = i /\ todo' = <<<<"retry", i>>, <<"redispatch", i>>>>
      BY <1>1, <2>2, Tails
    <3> QED
      BY <1>1, <2>2, <3>1 DEF Unlogged
  <2> QED
    BY <1>2, <2>1, <2>2
<1>4. UNCHANGED <<dispatched, dispatches, observations, decisions, attemptNumber, waves,
                  cancelled>>
  BY <1>1 DEF simVars
<1>5. log \in Projection
  BY DEF IInv, TypeOK
<1>6. /\ log'.keys = log.keys /\ log'.tickets = log.tickets
      /\ log'.assigned[i] = None
      /\ \A j \in Items \ {i} : log'.assigned[j] = log.assigned[j]
      /\ log' \in Projection
  BY <1>3, <1>5 DEF Projection
<1>7. TypeOK' /\ Len(waves') <= MaxWaves /\ crashes' \in 0..MaxCrashes
      /\ failures' \in 0..MaxFailures
  <2>1. Sim!TypeOK'
    BY <1>1 DEF IInv, TypeOK, simVars, Sim!TypeOK, Sim!Sched!TypeOK
  <2> QED
    BY <1>1, <1>4, <1>6, <2>1 DEF IInv, TypeOK
<1>8. OneAttemptAtATime'
  BY <1>1 DEF IInv, OneAttemptAtATime
<1>9. \A j \in Items : /\ WorktreesOf(j)' = WorktreesOf(j) /\ FirstBranch(j)' = FirstBranch(j)
                      /\ CreatesFirst(j)' = CreatesFirst(j)
  BY <1>1, <1>4 DEF WorktreesOf, FirstBranch, CreatesFirst
<1>10. \A j \in Items : WorktreeFacts(j)'
  <2> SUFFICES ASSUME NEW j \in Items PROVE WorktreeFacts(j)'
    OBVIOUS
  <2>1. log'.assigned[j] # None => log'.assigned[j] = log.assigned[j]
    BY <1>6
  <2> QED
    BY <1>1, <1>4, <1>9, <2>1 DEF IInv, WorktreeFacts
<1>11. \A j \in Items : ItemFacts(j)'
  <2> SUFFICES ASSUME NEW j \in Items PROVE ItemFacts(j)'
    OBVIOUS
  <2>1. log'.assigned[j] # None => log'.assigned[j] = log.assigned[j]
    BY <1>6
  <2> QED
    BY <1>1, <1>4, <2>1 DEF IInv, ItemFacts, Sim!Approved
<1>12. \A j \in Items : LogFacts(j)'
  <2>1. \A j \in Items : ~Unlogged(j)
    BY <1>1, LogIsUpToDate
  <2>2. LogFacts(i)'
    BY <1>1, <1>2, <1>3, <1>4, <1>6 DEF IInv, LogFacts
  <2>3. ASSUME NEW j \in Items \ {i} PROVE LogFacts(j)'
    BY <1>1, <1>4, <1>6, <2>1 DEF IInv, LogFacts
  <2> QED
    BY <2>2, <2>3
<1>13. Phase'
  <2>1. CASE <<i, "Done">> \in log.keys /\ todo' = <<<<"pop", i>>>>
    <3>1. PhaseReleased(i)'
      BY <1>1, <1>2, <1>6, <2>1 DEF PhaseReleased
    <3> QED
      BY <3>1 DEF Phase
  <2>2. CASE /\ WorktreesOf(i) = {} /\ FirstBranch(i)
             /\ todo' = <<<<"retry", i>>, <<"redispatch", i>>>>
    <3>1. PhaseRetry(i)'
      BY <1>1, <1>2, <1>6, <1>9, <2>2 DEF PhaseRetry
    <3> QED
      BY <3>1 DEF Phase
  <2> QED
    BY <1>3, <2>1, <2>2
<1> QED
  BY <1>7, <1>8, <1>10, <1>11, <1>12, <1>13 DEF IInv

LEMMA PopIInv ==
  ASSUME IInv, Pop
  PROVE  IInv'
<1>1. /\ Doing("pop")
      /\ active' = active \ {Head(todo)[2]}
      /\ todo' = (IF Sim!CanRefreshTargetBase THEN <<<<"refresh">>>> ELSE <<>>) \o Tail(todo)
      /\ UNCHANGED <<simVars, published, alive, tracker, worktrees, branches, log, tip,
                     mergedAt, crashes, failures>>
  BY DEF Pop, Item, gitVars, worldVars, counters
<1>2. PICK i \in Items :
        i \in active /\ <<i, "Done">> \in log.keys /\ todo = <<<<"pop", i>>>>
  BY <1>1, AtPop DEF IInv
<1>3. /\ active' = active \ {i}
      /\ \/ Sim!CanRefreshTargetBase /\ todo' = <<<<"refresh">>>>
         \/ todo' = <<>>
      /\ \A j \in Items : Unlogged(j) => j = i
  <2>1. Head(todo)[2] = i /\ Head(todo) = <<"pop", i>> /\ Tail(todo) = <<>>
    BY <1>2, Tails
  <2>2. <<<<"refresh">>>> \o <<>> = <<<<"refresh">>>> /\ <<>> \o <<>> = <<>>
    OBVIOUS
  <2>3. \A j \in Items : Unlogged(j) => j = i
    BY <2>1 DEF Unlogged
  <2> QED
    BY <1>1, <2>1, <2>2, <2>3
<1>4. UNCHANGED <<dispatched, dispatches, observations, decisions, attemptNumber, waves,
                  cancelled, policy, simWave>>
  BY <1>1 DEF simVars
<1>5. TypeOK' /\ Len(waves') <= MaxWaves /\ crashes' \in 0..MaxCrashes
      /\ failures' \in 0..MaxFailures
  <2>1. Sim!TypeOK'
    BY <1>1 DEF IInv, TypeOK, simVars, Sim!TypeOK, Sim!Sched!TypeOK
  <2> QED
    BY <1>1, <1>3, <1>4, <2>1 DEF IInv, TypeOK
<1>6. OneAttemptAtATime'
  BY <1>1 DEF IInv, OneAttemptAtATime
<1>7. \A j \in Items : /\ WorktreesOf(j)' = WorktreesOf(j) /\ FirstBranch(j)' = FirstBranch(j)
                      /\ CreatesFirst(j)' = CreatesFirst(j)
  BY <1>1, <1>4 DEF WorktreesOf, FirstBranch, CreatesFirst
<1>8. \A j \in Items : WorktreeFacts(j)'
  BY <1>1, <1>3, <1>4, <1>7 DEF IInv, WorktreeFacts
<1>9. \A j \in Items : ItemFacts(j)'
  BY <1>1, <1>3, <1>4 DEF IInv, ItemFacts, Sim!Approved
<1>10. \A j \in Items : LogFacts(j)'
  <2>1. LogFacts(i)'
    BY <1>1, <1>2, <1>3, <1>4 DEF IInv, LogFacts
  <2>2. ASSUME NEW j \in Items \ {i} PROVE LogFacts(j)'
    BY <1>1, <1>3, <1>4 DEF IInv, LogFacts
  <2> QED
    BY <2>1, <2>2
<1>11. Phase'
  <2>1. CASE Sim!CanRefreshTargetBase /\ todo' = <<<<"refresh">>>>
    <3>1. Sim!CanRefreshTargetBase'
      BY <1>4, <2>1 DEF Sim!CanRefreshTargetBase, Sim!Barrier, Sim!Approved
    <3> QED
      BY <2>1, <3>1 DEF Phase, PhaseRefresh
  <2>2. CASE todo' = <<>>
    BY <2>2 DEF Phase
  <2> QED
    BY <1>3, <2>1, <2>2
<1> QED
  BY <1>5, <1>6, <1>8, <1>9, <1>10, <1>11 DEF IInv

-----------------------------------------------------------------------------
(* The gate inside the controller's simulator.                             *)

SimP == INSTANCE SimulatorProofs WITH RequiredApprovals <- 1, RequireReviewers <- FALSE

\* The gate of the simulator's proofs is the controller's gate.
LEMMA SameGate ==
  ASSUME NEW d, NEW o
  PROVE  /\ Sim!Decide(d, o) = SimP!Decide(d, o)
         /\ Sim!MeetsContract(d, o) <=> SimP!MeetsContract(d, o)
         /\ Sim!Decision = SimP!Decision
<1>1. \A S : Sim!Min(S) = SimP!Min(S)
  BY DEF Sim!Min, SimP!Min
<1>2. Sim!Checks(d, o) = SimP!Checks(d, o)
  BY DEF Sim!Checks, SimP!Checks
<1>3. \A checks : Sim!FirstFailure(checks) = SimP!FirstFailure(checks)
  BY <1>1 DEF Sim!FirstFailure, SimP!FirstFailure
<1>4. Sim!Classify(d, o) = SimP!Classify(d, o)
  BY <1>2, <1>3 DEF Sim!Classify, SimP!Classify
<1>5. Sim!Decide(d, o) = SimP!Decide(d, o)
  BY <1>4 DEF Sim!Decide, SimP!Decide, Sim!PendingCodes, SimP!PendingCodes
<1>6. Sim!MeetsContract(d, o) <=> SimP!MeetsContract(d, o)
  BY DEF Sim!MeetsContract, SimP!MeetsContract
<1>7. Sim!Decision = SimP!Decision
  BY DEF Sim!Decision, SimP!Decision, Sim!FailureCodes, SimP!FailureCodes
<1> QED
  BY <1>5, <1>6, <1>7

\* The simulator is given constants it was built for.
LEMMA SimulatorConstants ==
  /\ SimP!GateAssumption
  /\ SimP!SimulatorAssumption
<1>1. SimP!GateAssumption
  BY DEF SimP!GateAssumption
<1>2. InitialRevision \in Revisions
  BY ControllerAssumption DEF InitialRevision, Revisions
<1>3. ASSUME NEW o \in Observations
      PROVE  /\ o.approvals \in Nat
             /\ {o.ciPending, o.ciPassed, o.linked, o.ancestor, o.changesOpen,
                 o.reviewersOk, o.merged} \subseteq BOOLEAN
  <2>1. PICK w \in Workspaces \cup {None}, r \in Revisions, kind \in {"none", "open", "merged"} :
          o = Observed(w, r, kind)
    BY DEF Observations
  <2>2. /\ o.approvals = IF kind = "none" THEN 0 ELSE 1
        /\ o.ciPending = FALSE /\ o.ciPassed = (kind \in {"open", "merged"})
        /\ o.linked = (kind # "none") /\ o.ancestor = (kind # "none")
        /\ o.changesOpen = FALSE /\ o.reviewersOk = TRUE /\ o.merged = (kind = "merged")
    BY <2>1 DEF Observed
  <2>3. o.approvals \in Nat
    BY <2>2
  <2>4. /\ o.ciPending \in BOOLEAN /\ o.ciPassed \in BOOLEAN /\ o.linked \in BOOLEAN
        /\ o.ancestor \in BOOLEAN /\ o.changesOpen \in BOOLEAN
        /\ o.reviewersOk \in BOOLEAN /\ o.merged \in BOOLEAN
    <3>2. /\ o.ciPending = FALSE /\ o.changesOpen = FALSE /\ o.reviewersOk = TRUE
      BY <2>2
    <3>3. (kind \in {"open", "merged"}) \in BOOLEAN
      OBVIOUS
    <3>4. (kind # "none") \in BOOLEAN
      OBVIOUS
    <3>5. (kind = "merged") \in BOOLEAN
      OBVIOUS
    <3>6. o.ciPassed \in BOOLEAN
      BY <2>2, <3>3, Zenon
    <3>7. o.linked \in BOOLEAN /\ o.ancestor \in BOOLEAN
      BY <2>2, <3>4, Zenon
    <3>8. o.merged \in BOOLEAN
      BY <2>2, <3>5, Zenon
    <3> QED
      BY <3>2, <3>6, <3>7, <3>8
  <2> QED
    BY <2>3, <2>4
<1>4. None \notin SimP!Dispatch \cup Observations
  BY PlaceholderAssumption DEF SimP!Dispatch, Sim!Dispatch
<1>5. SimP!SimulatorAssumption
  BY <1>2, <1>3, <1>4, ControllerAssumption DEF SimP!SimulatorAssumption
<1> QED
  BY <1>1, <1>5

\* The gate answers with a decision, and approves only what was seen merged.
LEMMA GateFacts ==
  ASSUME NEW d, NEW o \in Observations
  PROVE  /\ Sim!Decide(d, o) \in Sim!Decision
         /\ Sim!Decide(d, o).status = "approved" => o.merged
<1>1. Sim!Decide(d, o) \in Sim!Decision
  BY SimP!DecisionOfGate, SimulatorConstants, SameGate
<1>2. SimP!Decide(d, o).status = "approved" => SimP!MeetsContract(d, o)
  <2>1. /\ o.approvals \in Nat
        /\ {o.ciPending, o.ciPassed, o.linked, o.ancestor, o.changesOpen,
            o.reviewersOk, o.merged} \subseteq BOOLEAN
    BY SimulatorConstants DEF SimP!SimulatorAssumption
  <2> QED
    BY <2>1, SimulatorConstants, SimP!ApprovedMeansContract
<1>3. SimP!MeetsContract(d, o) => o.merged
  BY DEF SimP!MeetsContract
<1> QED
  BY <1>1, <1>2, <1>3, SameGate

\* What reconcile does after the gate has answered.
LEMMA AfterGateProgram ==
  ASSUME NEW i \in Items, NEW status, todo' = <<<<"waveState">>>> \o AfterGate(i, status)
  PROVE  \/ status # "approved" /\ PhaseDecided(i)'
         \/ /\ status = "approved" /\ <<i, "Done">> \in published
            /\ todo' = <<<<"waveState">>, <<"pop", i>>>>
         \/ /\ status = "approved"
            /\ todo' = <<<<"waveState">>, <<"tracker", i, "Done">>, <<"ticket", i, "Done">>,
                         <<"ended", i>>, <<"pop", i>>>>
<1>1. CASE status = "approved" /\ <<i, "Done">> \in published
  <2>1. AfterGate(i, status) = <<>> \o <<<<"pop", i>>>>
    BY <1>1 DEF AfterGate
  <2>2. <<>> \o <<<<"pop", i>>>> = <<<<"pop", i>>>>
    OBVIOUS
  <2> QED
    BY <1>1, <2>1, <2>2, Joins
<1>2. CASE status = "approved" /\ <<i, "Done">> \notin published
  <2>1. AfterGate(i, status) = (Publish(i, "Done") \o <<<<"ended", i>>>>) \o <<<<"pop", i>>>>
    BY <1>2 DEF AfterGate
  <2>2. Publish(i, "Done") \o <<<<"ended", i>>>>
          = <<<<"tracker", i, "Done">>, <<"ticket", i, "Done">>, <<"ended", i>>>>
    BY Joins DEF Publish
  <2>3. AfterGate(i, status)
          = <<<<"tracker", i, "Done">>, <<"ticket", i, "Done">>, <<"ended", i>>, <<"pop", i>>>>
    <3>1. <<<<"tracker", i, "Done">>, <<"ticket", i, "Done">>, <<"ended", i>>>> \o <<<<"pop", i>>>>
            = <<<<"tracker", i, "Done">>, <<"ticket", i, "Done">>, <<"ended", i>>, <<"pop", i>>>>
      BY Joins
    <3> QED
      BY <2>1, <2>2, <3>1
  <2>4. todo' = <<<<"waveState">>, <<"tracker", i, "Done">>, <<"ticket", i, "Done">>,
                  <<"ended", i>>, <<"pop", i>>>>
    BY <2>3, Joins
  <2> QED
    BY <1>2, <2>4
<1>3. CASE status # "approved"
  <2>1. AfterGate(i, status) = <<>> \/ AfterGate(i, status) = Publish(i, "NeedsAttention")
    BY <1>3 DEF AfterGate
  <2>2. CASE AfterGate(i, status) = <<>>
    <3>1. todo' = <<<<"waveState">>>>
      BY <2>2
    <3> QED
      BY <1>3, <3>1 DEF PhaseDecided
  <2>3. CASE AfterGate(i, status) = Publish(i, "NeedsAttention")
    <3>1. todo' = <<<<"waveState">>, <<"tracker", i, "NeedsAttention">>,
                    <<"ticket", i, "NeedsAttention">>>>
      BY <2>3, Joins DEF Publish
    <3> QED
      BY <1>3, <3>1 DEF PhaseDecided
  <2> QED
    BY <2>1, <2>2, <2>3
<1> QED
  BY <1>1, <1>2, <1>3

LEMMA EvaluateGateIInv ==
  ASSUME IInv, EvaluateGate
  PROVE  IInv'
<1>1. /\ Doing("gate")
      /\ \/ /\ Sim!EvaluateGate(Head(todo)[2])
            /\ todo' = <<<<"waveState">>>> \o AfterGate(Head(todo)[2],
                                                        decisions'[Head(todo)[2]].status)
         \/ /\ decisions[Head(todo)[2]] # None
            /\ todo' = <<<<"waveState">>>> \o AfterGate(Head(todo)[2],
                                                        decisions[Head(todo)[2]].status)
            /\ UNCHANGED simVars
      /\ UNCHANGED <<active, published, alive, tracker, worktrees, branches, log, tip,
                     mergedAt, crashes, failures>>
  BY DEF EvaluateGate, Item, gitVars, worldVars, counters
<1>2. PICK i \in Items : i \in active /\ todo = <<<<"gate", i>>>>
  BY <1>1, AtGate DEF IInv
<1>3. Head(todo)[2] = i
  BY <1>2
<1>4. Sim!TypeOK /\ dispatches[i] # None /\ i \in dispatched
  BY <1>2 DEF IInv, TypeOK, ItemFacts
<1>5. /\ Sim!TypeOK' /\ Len(waves') = Len(waves)
      /\ UNCHANGED <<dispatched, cancelled, dispatches, observations, attemptNumber>>
      /\ \A j \in Items \ {i} : decisions'[j] = decisions[j]
      /\ decisions'[i] # None
      /\ decisions'[i].status = "approved" => mergedAt[dispatches[i].workspace] > 0
      /\ todo' = <<<<"waveState">>>> \o AfterGate(i, decisions'[i].status)
  <2>1. CASE Sim!EvaluateGate(i) /\ todo' = <<<<"waveState">>>> \o AfterGate(i, decisions'[i].status)
    <3> DEFINE decision == Sim!Decide(dispatches[i], observations[i])
    <3>1. /\ observations[i] # None
          /\ decisions' = [decisions EXCEPT ![i] = decision]
          /\ IF decision.status = "approved" THEN Sim!Sched!Release(i)
             ELSE UNCHANGED Sim!schedVars
          /\ UNCHANGED <<dispatches, observations, simWave, attemptNumber>>
      BY <2>1 DEF Sim!EvaluateGate
    <3>2. observations[i] \in Observations
      BY <1>4, <3>1, SimTypes
    <3>3. decision \in Sim!Decision /\ (decision.status = "approved" => observations[i].merged)
      BY <3>2, GateFacts
    <3>4. decision # None
      BY <3>3, PlaceholderAssumption
    <3>5. /\ Sim!Sched!TypeOK' /\ Len(waves') = Len(waves)
          /\ UNCHANGED <<dispatched, cancelled>>
      <4>1. CASE decision.status = "approved"
        BY <1>4, <3>1, <4>1, ReleaseFacts
      <4>2. CASE decision.status # "approved"
        BY <1>4, <3>1, <4>2 DEF Sim!schedVars, Sim!TypeOK, Sim!Sched!TypeOK
      <4> QED
        BY <4>1, <4>2
    <3> HIDE DEF decision
    <3>6. decisions' \in [Items -> Sim!Decision \cup {None}] /\ decisions'[i] = decision
          /\ \A j \in Items \ {i} : decisions'[j] = decisions[j]
      BY <1>4, <3>1, <3>3, SimTypes
    <3>7. Sim!TypeOK'
      BY <1>4, <3>1, <3>5, <3>6 DEF Sim!TypeOK
    <3>8. decisions'[i].status = "approved" => mergedAt[dispatches[i].workspace] > 0
      BY <3>1, <3>3, <3>6 DEF IInv, ItemFacts
    <3> QED
      BY <2>1, <3>1, <3>4, <3>5, <3>6, <3>7, <3>8
  <2>2. CASE /\ decisions[i] # None
             /\ todo' = <<<<"waveState">>>> \o AfterGate(i, decisions[i].status)
             /\ UNCHANGED simVars
    <3>1. UNCHANGED <<dispatched, cancelled, dispatches, observations, attemptNumber, decisions,
                      waves>>
      BY <2>2 DEF simVars
    <3>2. Sim!TypeOK'
      BY <1>4, <2>2 DEF simVars, Sim!TypeOK, Sim!Sched!TypeOK
    <3>3. decisions[i].status = "approved" => mergedAt[dispatches[i].workspace] > 0
      BY <2>2 DEF IInv, ItemFacts, Sim!Approved
    <3> QED
      BY <2>2, <3>1, <3>2, <3>3
  <2> QED
    BY <1>1, <1>3, <2>1, <2>2
<1>6. TypeOK' /\ Len(waves') <= MaxWaves /\ crashes' \in 0..MaxCrashes
      /\ failures' \in 0..MaxFailures
  BY <1>1, <1>5 DEF IInv, TypeOK
<1>7. OneAttemptAtATime' /\ \A j \in Items : WorktreeFacts(j)'
  BY <1>1, <1>5, PlacesKept
<1>8. \A j \in Items : ItemFacts(j)'
  <2>1. ItemFacts(i)'
    BY <1>1, <1>4, <1>5 DEF IInv, ItemFacts, Sim!Approved
  <2>2. ASSUME NEW j \in Items \ {i} PROVE ItemFacts(j)'
    BY <1>1, <1>5 DEF IInv, ItemFacts, Sim!Approved
  <2> QED
    BY <2>1, <2>2
<1>9. \A j \in Items : LogFacts(j)'
  <2>1. /\ cancelled \subseteq cancelled' /\ published' \subseteq published
        /\ alive' => alive
        /\ UNCHANGED <<dispatched, dispatches, active, log, failures>>
    BY <1>1, <1>5
  <2>2. \A j \in Items : ~Unlogged(j)
    BY <1>1, LogIsUpToDate
  <2> QED
    BY <2>1, <2>2, LogKept
<1>10. Phase'
  <2> PICK status : status = decisions'[i].status
    OBVIOUS
  <2>1. \/ status # "approved" /\ PhaseDecided(i)'
        \/ /\ status = "approved" /\ <<i, "Done">> \in published
           /\ todo' = <<<<"waveState">>, <<"pop", i>>>>
        \/ /\ status = "approved"
           /\ todo' = <<<<"waveState">>, <<"tracker", i, "Done">>, <<"ticket", i, "Done">>,
                        <<"ended", i>>, <<"pop", i>>>>
    BY <1>5, AfterGateProgram
  <2>2. CASE PhaseDecided(i)'
    BY <2>2 DEF Phase
  <2>3. CASE /\ <<i, "Done">> \in published
             /\ todo' = <<<<"waveState">>, <<"pop", i>>>>
    <3>1. <<i, "Done">> \in log.keys
      BY <2>3 DEF IInv, LogFacts
    <3>2. PhaseReleased(i)'
      BY <1>1, <1>2, <2>3, <3>1 DEF PhaseReleased
    <3> QED
      BY <3>2 DEF Phase
  <2>4. CASE /\ status = "approved"
             /\ todo' = <<<<"waveState">>, <<"tracker", i, "Done">>, <<"ticket", i, "Done">>,
                          <<"ended", i>>, <<"pop", i>>>>
    <3>1. PhaseRelease(i)'
      BY <1>1, <1>2, <1>5, <2>4 DEF PhaseRelease
    <3> QED
      BY <3>1 DEF Phase
  <2> QED
    BY <2>1, <2>2, <2>3, <2>4
<1> QED
  BY <1>6, <1>7, <1>8, <1>9, <1>10 DEF IInv

LEMMA ReconcileIInv ==
  ASSUME IInv, NEW i \in Items, Reconcile(i)
  PROVE  IInv'
<1>1. /\ Idle /\ i \in active
      /\ UNCHANGED <<active, published, alive, tracker, worktrees, branches, log, tip,
                     mergedAt, crashes, failures>>
  BY DEF Reconcile, gitVars, worldVars, counters
<1>2. PICK kind \in {"none", "open", "merged"}, place \in Workspaces \cup {None} :
        /\ kind = "merged" => mergedAt[dispatches[i].workspace] > 0
        /\ Sim!ObserveDelivery(i, Observed(place, dispatches[i].base, kind))
        /\ \/ todo' = Publish(i, "InReview") \o <<<<"gate", i>>>>
           \/ todo' = <<>> \o <<<<"gate", i>>>>
  <2>1. dispatches[i].workspace \in Workspaces
    BY DEF Reconcile, IInv, TypeOK
  <2>2. Places(dispatches[i].workspace) \subseteq Workspaces \cup {None}
    BY <2>1 DEF Places
  <2> QED
    BY <2>2 DEF Reconcile
<1>3. Sim!TypeOK /\ i \in dispatched /\ dispatches[i] # None
  BY <1>1 DEF IInv, TypeOK, ItemFacts
<1>4. PICK o \in Observations :
        /\ o = Observed(place, dispatches[i].base, kind)
        /\ o.merged <=> kind = "merged"
  <2>1. dispatches[i] \in Sim!Dispatch
    BY <1>3, SimTypes
  <2>2. dispatches[i].base \in Revisions
    BY <2>1 DEF Sim!Dispatch
  <2>3. Observed(place, dispatches[i].base, kind) \in Observations
    BY <2>2 DEF Observations
  <2>4. Observed(place, dispatches[i].base, kind).merged <=> kind = "merged"
    BY DEF Observed
  <2> QED
    BY <2>3, <2>4
<1>5. /\ Sim!TypeOK'
      /\ observations' = [observations EXCEPT ![i] = o]
      /\ decisions' = [decisions EXCEPT ![i] = IF Sim!Approved(i) THEN decisions[i] ELSE None]
      /\ UNCHANGED <<dispatched, cancelled, waves, dispatches, attemptNumber>>
  BY <1>2, <1>3, <1>4, ObserveDeliveryFacts
<1>6. TypeOK' /\ Len(waves') <= MaxWaves /\ crashes' \in 0..MaxCrashes
      /\ failures' \in 0..MaxFailures
  BY <1>1, <1>5 DEF IInv, TypeOK
<1>7. OneAttemptAtATime' /\ \A j \in Items : WorktreeFacts(j)'
  BY <1>1, <1>5, PlacesKept
<1>8. \A j \in Items : ItemFacts(j)'
  <2>1. ItemFacts(i)'
    <3>1. observations'[i] = o /\ (decisions'[i] = decisions[i] \/ decisions'[i] = None)
      BY <1>3, <1>5, SimTypes
    <3> QED
      BY <1>1, <1>2, <1>3, <1>4, <1>5, <3>1 DEF IInv, ItemFacts, Sim!Approved
  <2>2. ASSUME NEW j \in Items \ {i} PROVE ItemFacts(j)'
    <3>1. observations'[j] = observations[j] /\ decisions'[j] = decisions[j]
      BY <1>3, <1>5, SimTypes
    <3> QED
      BY <1>1, <1>5, <3>1 DEF IInv, ItemFacts, Sim!Approved
  <2> QED
    BY <2>1, <2>2
<1>9. \A j \in Items : LogFacts(j)'
  <2>1. /\ cancelled \subseteq cancelled' /\ published' \subseteq published
        /\ alive' => alive
        /\ UNCHANGED <<dispatched, dispatches, active, log, failures>>
    BY <1>1, <1>5
  <2>2. \A j \in Items : ~Unlogged(j)
    BY <1>1, LogIsUpToDate
  <2> QED
    BY <2>1, <2>2, LogKept
<1>10. Phase'
  <2>1. \/ todo' = <<<<"tracker", i, "InReview">>, <<"ticket", i, "InReview">>, <<"gate", i>>>>
        \/ todo' = <<<<"gate", i>>>>
    <3>1. CASE todo' = Publish(i, "InReview") \o <<<<"gate", i>>>>
      BY <3>1, Joins DEF Publish
    <3>2. CASE todo' = <<>> \o <<<<"gate", i>>>>
      BY <3>2
    <3> QED
      BY <1>2, <3>1, <3>2
  <2>2. PhaseObserve(i)'
    BY <1>1, <2>1 DEF PhaseObserve
  <2> QED
    BY <2>2 DEF Phase
<1> QED
  BY <1>6, <1>7, <1>8, <1>9, <1>10 DEF IInv

\* The worktree of an active item is destroyed: the item has no other.
LEMMA DestroyFacts ==
  ASSUME IInv, NEW i \in Items, i \in active,
         worktrees' = worktrees \ {dispatches[i].workspace}, branches' = branches
  PROVE  /\ OneAttemptAtATime'
         /\ WorktreesOf(i)' = {}
         /\ \A j \in Items \ {i} : WorktreesOf(j)' = WorktreesOf(j)
         /\ \A j \in Items : FirstBranch(j)' = FirstBranch(j)
         /\ FirstBranch(i)
<1>1. /\ dispatches[i].workspace[1] = i
      /\ WorktreesOf(i) \subseteq {dispatches[i].workspace}
      /\ FirstBranch(i)
  BY DEF IInv, ItemFacts, WorktreeFacts
<1>2. OneAttemptAtATime'
  BY DEF IInv, OneAttemptAtATime
<1>3. WorktreesOf(i)' = {} /\ \A j \in Items \ {i} : WorktreesOf(j)' = WorktreesOf(j)
  BY <1>1 DEF WorktreesOf
<1> QED
  BY <1>1, <1>2, <1>3 DEF FirstBranch

LEMMA RetryIInv ==
  ASSUME IInv, NEW i \in Items, Retry(i)
  PROVE  IInv'
<1>1. /\ Idle /\ i \in active
      /\ worktrees' = worktrees \ {dispatches[i].workspace}
      /\ todo' = <<<<"ended", i>>, <<"retry", i>>, <<"redispatch", i>>>>
      /\ UNCHANGED <<simVars, active, published, alive, tracker, branches, log, tip,
                     mergedAt, crashes, failures>>
  BY DEF Retry, memory, worldVars, counters
<1>2. UNCHANGED <<dispatched, dispatches, observations, decisions, attemptNumber, waves,
                  cancelled>>
  BY <1>1 DEF simVars
<1>3. /\ OneAttemptAtATime'
      /\ WorktreesOf(i)' = {}
      /\ \A j \in Items \ {i} : WorktreesOf(j)' = WorktreesOf(j)
      /\ \A j \in Items : FirstBranch(j)' = FirstBranch(j)
      /\ FirstBranch(i)
  BY <1>1, DestroyFacts
<1>4. TypeOK' /\ Len(waves') <= MaxWaves /\ crashes' \in 0..MaxCrashes
      /\ failures' \in 0..MaxFailures
  <2>1. Sim!TypeOK'
    BY <1>1 DEF IInv, TypeOK, simVars, Sim!TypeOK, Sim!Sched!TypeOK
  <2> QED
    BY <1>1, <1>2, <2>1 DEF IInv, TypeOK
<1>5. \A j \in Items : WorktreeFacts(j)'
  <2>1. WorktreeFacts(i)'
    BY <1>1, <1>2, <1>3 DEF WorktreeFacts, CreatesFirst
  <2>2. ASSUME NEW j \in Items \ {i} PROVE WorktreeFacts(j)'
    BY <1>1, <1>2, <1>3 DEF IInv, WorktreeFacts, CreatesFirst
  <2> QED
    BY <2>1, <2>2
<1>6. \A j \in Items : ItemFacts(j)'
  BY <1>1, <1>2 DEF IInv, ItemFacts, Sim!Approved
<1>7. \A j \in Items : LogFacts(j)'
  <2>1. /\ cancelled \subseteq cancelled' /\ published' \subseteq published
        /\ alive' => alive
        /\ UNCHANGED <<dispatched, dispatches, active, log, failures>>
    BY <1>1, <1>2
  <2>2. \A j \in Items : ~Unlogged(j)
    BY <1>1, LogIsUpToDate
  <2> QED
    BY <2>1, <2>2, LogKept
<1>8. Phase'
  <2>1. PhaseRetry(i)'
    BY <1>1, <1>3 DEF PhaseRetry
  <2> QED
    BY <2>1 DEF Phase
<1> QED
  BY <1>3, <1>4, <1>5, <1>6, <1>7, <1>8 DEF IInv

LEMMA CancelFromWaveIInv ==
  ASSUME IInv, NEW i \in Items, CancelFromWave(i)
  PROVE  IInv'
<1>1. /\ Idle /\ i \in active
      /\ worktrees' = worktrees \ {dispatches[i].workspace}
      /\ Sim!CancelFromWave(i)
      /\ active' = active \ {i}
      /\ todo' = Publish(i, "Cancelled")
      /\ UNCHANGED <<published, alive, tracker, branches, log, tip, mergedAt, crashes,
                     failures>>
  BY DEF CancelFromWave, worldVars, counters
<1>2. Sim!TypeOK
  BY DEF IInv, TypeOK
<1>3. /\ Sim!TypeOK'
      /\ dispatched' = dispatched \ {i}
      /\ cancelled' = cancelled \cup {i}
      /\ UNCHANGED attemptNumber
      /\ Len(waves') = Len(waves)
      /\ Sim!Forget(i)
  BY <1>1, <1>2, CancelFromWaveFacts
<1>4. /\ dispatches'[i] = None /\ observations'[i] = None /\ decisions'[i] = None
      /\ \A j \in Items \ {i} : /\ dispatches'[j] = dispatches[j]
                                /\ observations'[j] = observations[j]
                                /\ decisions'[j] = decisions[j]
  BY <1>2, <1>3, ForgetFacts
<1>5. /\ OneAttemptAtATime'
      /\ WorktreesOf(i)' = {}
      /\ \A j \in Items \ {i} : WorktreesOf(j)' = WorktreesOf(j)
      /\ \A j \in Items : FirstBranch(j)' = FirstBranch(j)
      /\ FirstBranch(i)
  BY <1>1, DestroyFacts
<1>6. TypeOK' /\ Len(waves') <= MaxWaves /\ crashes' \in 0..MaxCrashes
      /\ failures' \in 0..MaxFailures
  BY <1>1, <1>3 DEF IInv, TypeOK
<1>7. \A j \in Items : WorktreeFacts(j)'
  <2>1. WorktreeFacts(i)'
    BY <1>1, <1>3, <1>5 DEF WorktreeFacts, CreatesFirst
  <2>2. ASSUME NEW j \in Items \ {i} PROVE WorktreeFacts(j)'
    BY <1>1, <1>3, <1>4, <1>5 DEF IInv, WorktreeFacts, CreatesFirst
  <2> QED
    BY <2>1, <2>2
<1>8. \A j \in Items : ItemFacts(j)'
  <2>1. ItemFacts(i)'
    BY <1>1, <1>3, <1>4 DEF IInv, ItemFacts, Sim!Approved
  <2>2. ASSUME NEW j \in Items \ {i} PROVE ItemFacts(j)'
    BY <1>1, <1>3, <1>4 DEF IInv, ItemFacts, Sim!Approved
  <2> QED
    BY <2>1, <2>2
<1>9. \A j \in Items : LogFacts(j)'
  <2>1. \A j \in Items : ~Unlogged(j)
    BY <1>1, LogIsUpToDate
  <2>2. LogFacts(i)'
    BY <1>1, <1>3 DEF IInv, LogFacts
  <2>3. ASSUME NEW j \in Items \ {i} PROVE LogFacts(j)'
    <3>1. ~Unlogged(j)
      BY <2>1
    <3> QED
      BY <1>1, <1>3, <1>4, <3>1 DEF IInv, LogFacts
  <2> QED
    BY <2>2, <2>3
<1>10. Phase'
  BY <1>1, PublishPhase
<1> QED
  BY <1>5, <1>6, <1>7, <1>8, <1>9, <1>10 DEF IInv

LEMMA RetryItemIInv ==
  ASSUME IInv, RetryItem
  PROVE  IInv'
<1>1. /\ Doing("retry")
      /\ active' = active \ {Head(todo)[2]}
      /\ published' = published \ {<<Head(todo)[2], "InReview">>,
                                   <<Head(todo)[2], "NeedsAttention">>}
      /\ \/ Head(todo)[2] \in released /\ todo' = <<>> /\ UNCHANGED simVars
         \/ Sim!RetryItem(Head(todo)[2]) /\ todo' = Tail(todo)
      /\ UNCHANGED <<alive, tracker, worktrees, branches, log, tip, mergedAt, crashes,
                     failures>>
  BY DEF RetryItem, Item, Done, gitVars, worldVars, counters
<1>2. PICK i \in Items :
        /\ i \in active /\ WorktreesOf(i) = {} /\ FirstBranch(i) /\ log.assigned[i] = None
        /\ todo = <<<<"retry", i>>, <<"redispatch", i>>>>
  BY <1>1, AtRetry DEF IInv
<1>3. /\ Head(todo)[2] = i /\ Head(todo) = <<"retry", i>>
      /\ Tail(todo) = <<<<"redispatch", i>>>>
      /\ \A j \in Items : Unlogged(j) => j = i
  <2>1. Head(todo)[2] = i /\ Head(todo) = <<"retry", i>>
    BY <1>2
  <2> QED
    BY <1>2, <2>1, Tails DEF Unlogged
<1>4. active' = active \ {i} /\ published' \subseteq published
  BY <1>1, <1>3
<1>5. Sim!TypeOK
  BY DEF IInv, TypeOK
<1>6. /\ Sim!TypeOK' /\ Len(waves') = Len(waves) /\ UNCHANGED cancelled
      /\ \A j \in Items \ {i} : /\ j \in dispatched' <=> j \in dispatched
                                /\ dispatches'[j] = dispatches[j]
                                /\ observations'[j] = observations[j]
                                /\ decisions'[j] = decisions[j]
                                /\ attemptNumber'[j] = attemptNumber[j]
      /\ \/ /\ todo' = <<>>
            /\ UNCHANGED <<dispatched, dispatches, observations, decisions, attemptNumber>>
         \/ /\ todo' = <<<<"redispatch", i>>>>
            /\ i \notin dispatched' /\ dispatches'[i] = None
            /\ observations'[i] = None /\ decisions'[i] = None
  <2>1. CASE i \in released /\ todo' = <<>> /\ UNCHANGED simVars
    <3>1. UNCHANGED <<dispatched, dispatches, observations, decisions, attemptNumber, waves,
                      cancelled>>
      BY <2>1 DEF simVars
    <3>2. Sim!TypeOK'
      BY <1>5, <2>1 DEF simVars, Sim!TypeOK, Sim!Sched!TypeOK
    <3> QED
      BY <2>1, <3>1, <3>2
  <2>2. CASE Sim!RetryItem(i) /\ todo' = Tail(todo)
    <3>1. /\ Sim!TypeOK'
          /\ dispatched' = dispatched \ {i} /\ UNCHANGED cancelled
          /\ Len(waves') = Len(waves)
          /\ \A j \in Items \ {i} : attemptNumber'[j] = attemptNumber[j]
          /\ Sim!Forget(i)
      BY <1>5, <2>2, RetryItemFacts
    <3>2. /\ dispatches'[i] = None /\ observations'[i] = None /\ decisions'[i] = None
          /\ \A j \in Items \ {i} : /\ dispatches'[j] = dispatches[j]
                                    /\ observations'[j] = observations[j]
                                    /\ decisions'[j] = decisions[j]
      BY <1>5, <3>1, ForgetFacts
    <3> QED
      BY <1>3, <2>2, <3>1, <3>2
  <2> QED
    BY <1>1, <1>3, <2>1, <2>2
<1>7. TypeOK' /\ Len(waves') <= MaxWaves /\ crashes' \in 0..MaxCrashes
      /\ failures' \in 0..MaxFailures
  BY <1>1, <1>4, <1>6 DEF IInv, TypeOK
<1>8. OneAttemptAtATime'
  BY <1>1 DEF IInv, OneAttemptAtATime
<1>9. \A j \in Items : WorktreesOf(j)' = WorktreesOf(j) /\ FirstBranch(j)' = FirstBranch(j)
  BY <1>1 DEF WorktreesOf, FirstBranch
<1>10. \A j \in Items : WorktreeFacts(j)'
  <2>1. WorktreeFacts(i)'
    BY <1>1, <1>2, <1>9 DEF WorktreeFacts, CreatesFirst
  <2>2. ASSUME NEW j \in Items \ {i} PROVE WorktreeFacts(j)'
    BY <1>1, <1>4, <1>6, <1>9 DEF IInv, WorktreeFacts, CreatesFirst
  <2> QED
    BY <2>1, <2>2
<1>11. \A j \in Items : ItemFacts(j)'
  <2>1. ItemFacts(i)'
    BY <1>1, <1>4, <1>6 DEF IInv, ItemFacts, Sim!Approved
  <2>2. ASSUME NEW j \in Items \ {i} PROVE ItemFacts(j)'
    BY <1>1, <1>4, <1>6 DEF IInv, ItemFacts, Sim!Approved
  <2> QED
    BY <2>1, <2>2
<1>12. \A j \in Items : LogFacts(j)'
  <2>1. LogFacts(i)'
    BY <1>1, <1>2, <1>4, <1>6 DEF IInv, LogFacts
  <2>2. ASSUME NEW j \in Items \ {i} PROVE LogFacts(j)'
    <3>1. ~Unlogged(j)
      BY <1>3
    <3> QED
      BY <1>1, <1>4, <1>6, <3>1 DEF IInv, LogFacts
  <2> QED
    BY <2>1, <2>2
<1>13. Phase'
  <2>1. CASE todo' = <<>>
    BY <2>1 DEF Phase
  <2>2. CASE todo' = <<<<"redispatch", i>>>>
    <3>1. PhaseRetry(i)'
      BY <1>2, <1>9, <2>2 DEF PhaseRetry
    <3> QED
      BY <3>1 DEF Phase
  <2> QED
    BY <1>6, <2>1, <2>2
<1> QED
  BY <1>7, <1>8, <1>10, <1>11, <1>12, <1>13 DEF IInv

\* What is ready is nowhere being worked on: no active assignment, none in the event
\* log, and no worktree that a new attempt would join.
LEMMA ReadyIsFree ==
  ASSUME IInv, NEW i \in Ready
  PROVE  /\ i \in Items /\ i \notin dispatched /\ i \notin active
         /\ log.assigned[i] = None
         /\ observations[i] = None /\ decisions[i] = None
         /\ CreatesFirst(i)
<1>1. i \in Items /\ i \notin dispatched /\ i \notin released
  BY ReadyFacts
<1>2. i \notin cancelled
  BY <1>1, SimTypes DEF IInv, TypeOK
<1> QED
  BY <1>1, <1>2 DEF IInv, ItemFacts, LogFacts, WorktreeFacts

\* dispatch_ready, wherever it is called: what is launched next is free.
LEMMA DispatchIInv ==
  ASSUME IInv, \A j \in Items : ~Unlogged(j), Sim!DispatchReady, todo' = Launching(Ready),
         UNCHANGED <<active, published, alive, tracker, worktrees, branches, log, tip,
                     mergedAt, crashes, failures>>
  PROVE  IInv'
<1>1. Sim!TypeOK
  BY DEF IInv, TypeOK
<1>2. PICK R \in SUBSET Items : R = Ready
  BY ReadyFacts
<1>3. /\ Sim!TypeOK'
      /\ R # {}
      /\ Len(waves') <= MaxWaves /\ waves' # <<>>
      /\ dispatched' = dispatched \cup R
      /\ UNCHANGED <<released, cancelled, observations, decisions, attemptNumber>>
      /\ \A i \in R : /\ dispatches'[i] # None
                      /\ dispatches'[i].workspace = <<i, attemptNumber[i]>>
      /\ \A i \in Items \ R : dispatches'[i] = dispatches[i]
  BY <1>1, <1>2, DispatchReadyFacts
<1>4. \A i \in R : /\ i \notin dispatched /\ i \notin active
                   /\ log.assigned[i] = None
                   /\ observations[i] = None /\ decisions[i] = None
                   /\ CreatesFirst(i)
  BY <1>2, ReadyIsFree
<1>5. TypeOK' /\ crashes' \in 0..MaxCrashes /\ failures' \in 0..MaxFailures
  BY <1>3 DEF IInv, TypeOK
<1>6. OneAttemptAtATime'
  BY DEF IInv, OneAttemptAtATime
<1>7. \A i \in Items : /\ WorktreesOf(i)' = WorktreesOf(i) /\ FirstBranch(i)' = FirstBranch(i)
                      /\ CreatesFirst(i)' = CreatesFirst(i)
  BY <1>3 DEF WorktreesOf, FirstBranch, CreatesFirst
<1>8. \A i \in Items : WorktreeFacts(i)'
  <2>1. ASSUME NEW i \in R PROVE WorktreeFacts(i)'
    BY <1>3, <1>4, <1>7, <2>1 DEF IInv, WorktreeFacts
  <2>2. ASSUME NEW i \in Items \ R PROVE WorktreeFacts(i)'
    BY <1>3, <1>7 DEF IInv, WorktreeFacts
  <2> QED
    BY <2>1, <2>2
<1>9. \A i \in Items : ItemFacts(i)'
  <2>1. ASSUME NEW i \in R PROVE ItemFacts(i)'
    BY <1>3, <1>4, <2>1 DEF IInv, ItemFacts, Sim!Approved
  <2>2. ASSUME NEW i \in Items \ R PROVE ItemFacts(i)'
    BY <1>3 DEF IInv, ItemFacts, Sim!Approved
  <2> QED
    BY <2>1, <2>2
<1>10. \A i \in Items : LogFacts(i)'
  <2>1. ASSUME NEW i \in R PROVE LogFacts(i)'
    BY <1>3, <1>4, <2>1 DEF IInv, LogFacts
  <2>2. ASSUME NEW i \in Items \ R PROVE LogFacts(i)'
    BY <1>3 DEF IInv, LogFacts
  <2> QED
    BY <2>1, <2>2
<1>11. Phase'
  <2>1. todo' = <<Rest(R)>>
    BY <1>2 DEF Launching, Rest
  <2>2. \A i \in R : ToLaunch(i)'
    BY <1>2, <1>3, <1>4, <1>7, ReadyFacts DEF ToLaunch
  <2>3. PhaseDispatch(R)'
    BY <1>3, <2>1, <2>2 DEF PhaseDispatch, Rest
  <2> QED
    BY <2>3 DEF Phase
<1> QED
  BY <1>3, <1>5, <1>6, <1>8, <1>9, <1>10, <1>11 DEF IInv

\* A step that changes todo alone.
LEMMA OnlyTodoIInv ==
  ASSUME IInv, \A j \in Items : ~Unlogged(j), Phase',
         UNCHANGED <<simVars, active, published, alive, tracker, worktrees, branches, log, tip,
                     mergedAt, crashes, failures>>
  PROVE  IInv'
<1>1. UNCHANGED <<dispatched, dispatches, cancelled, waves>>
  BY DEF simVars
<1>2. TypeOK' /\ Len(waves') <= MaxWaves /\ crashes' \in 0..MaxCrashes
      /\ failures' \in 0..MaxFailures
  <2>1. Sim!TypeOK'
    BY DEF IInv, TypeOK, simVars, Sim!TypeOK, Sim!Sched!TypeOK
  <2> QED
    BY <1>1, <2>1 DEF IInv, TypeOK
<1>3. /\ OneAttemptAtATime' /\ \A j \in Items : WorktreeFacts(j)' /\ ItemFacts(j)'
  BY AttemptsKept DEF attempts, simVars
<1>4. \A j \in Items : LogFacts(j)'
  BY <1>1, LogKept
<1> QED
  BY <1>2, <1>3, <1>4 DEF IInv

LEMMA DispatchReadyIInv ==
  ASSUME IInv, DispatchReady
  PROVE  IInv'
<1>1. /\ Idle
      /\ \/ Sim!DispatchReady /\ todo' = Launching(Ready)
         \/ waves # <<>> /\ UNCHANGED simVars /\ todo' = <<<<"wave">>>>
      /\ UNCHANGED <<active, published, alive, tracker, worktrees, branches, log, tip,
                     mergedAt, crashes, failures>>
  BY DEF DispatchReady, gitVars, worldVars, counters
<1>2. \A j \in Items : ~Unlogged(j)
  BY <1>1, LogIsUpToDate
<1>3. CASE Sim!DispatchReady /\ todo' = Launching(Ready)
  BY <1>1, <1>2, <1>3, DispatchIInv
<1>4. CASE waves # <<>> /\ UNCHANGED simVars /\ todo' = <<<<"wave">>>>
  <2>1. waves' = waves
    BY <1>4 DEF simVars
  <2>2. PhaseDispatch({})'
    BY <1>4, <2>1 DEF PhaseDispatch, Rest
  <2>3. Phase'
    BY <2>2 DEF Phase
  <2> QED
    BY <1>1, <1>2, <1>4, <2>3, OnlyTodoIInv
<1> QED
  BY <1>1, <1>3, <1>4

LEMMA DispatchNextFrontierIInv ==
  ASSUME IInv, DispatchNextFrontier
  PROVE  IInv'
<1>1. /\ Doing("frontier")
      /\ \/ Sim!DispatchReady /\ todo' = Launching(Ready)
         \/ UNCHANGED simVars /\ todo' = Tail(todo)
      /\ UNCHANGED <<active, published, alive, tracker, worktrees, branches, log, tip,
                     mergedAt, crashes, failures>>
  BY DEF DispatchNextFrontier, Done, gitVars, worldVars, counters
<1>2. \A j \in Items : ~Unlogged(j)
  BY <1>1, LogIsUpToDate
<1>3. CASE Sim!DispatchReady /\ todo' = Launching(Ready)
  BY <1>1, <1>2, <1>3, DispatchIInv
<1>4. CASE UNCHANGED simVars /\ todo' = Tail(todo)
  <2>1. todo = <<<<"frontier">>>>
    BY <1>1, AtFrontier DEF IInv
  <2>2. todo' = <<>>
    BY <1>4, <2>1, Tails
  <2>3. Phase'
    BY <2>2 DEF Phase
  <2> QED
    BY <1>1, <1>2, <1>4, <2>3, OnlyTodoIInv
<1> QED
  BY <1>1, <1>3, <1>4

LEMMA RedispatchIInv ==
  ASSUME IInv, Redispatch
  PROVE  IInv'
<1>1. /\ Doing("redispatch")
      /\ \/ Sim!DispatchReady /\ todo' = Launching(Ready)
         \/ UNCHANGED simVars /\ waves # <<>> /\ todo' = <<<<"wave">>>>
         \/ UNCHANGED simVars /\ todo' = <<>>
      /\ UNCHANGED <<active, published, alive, tracker, worktrees, branches, log, tip,
                     mergedAt, crashes, failures>>
  BY DEF Redispatch, gitVars, worldVars, counters
<1>2. \A j \in Items : ~Unlogged(j)
  BY <1>1, LogIsUpToDate
<1>3. CASE Sim!DispatchReady /\ todo' = Launching(Ready)
  BY <1>1, <1>2, <1>3, DispatchIInv
<1>4. CASE UNCHANGED simVars /\ waves # <<>> /\ todo' = <<<<"wave">>>>
  <2>1. waves' = waves
    BY <1>4 DEF simVars
  <2>2. PhaseDispatch({})'
    BY <1>4, <2>1 DEF PhaseDispatch, Rest
  <2>3. Phase'
    BY <2>2 DEF Phase
  <2> QED
    BY <1>1, <1>2, <1>4, <2>3, OnlyTodoIInv
<1>5. CASE UNCHANGED simVars /\ todo' = <<>>
  <2>1. Phase'
    BY <1>5 DEF Phase
  <2> QED
    BY <1>1, <1>2, <1>5, <2>1, OnlyTodoIInv
<1> QED
  BY <1>1, <1>3, <1>4, <1>5

LEMMA RaiseIInv ==
  ASSUME IInv, Raise
  PROVE  IInv'
<1>1. PICK call \in {"tracker", "ticket", "create", "start", "started", "wave", "waveState",
                       "ended", "refresh", "base", "frontier", "redispatch"} :
        /\ Doing(call) /\ worktrees' \subseteq worktrees
        /\ todo' = <<>> /\ failures < MaxFailures /\ failures' = failures + 1
        /\ UNCHANGED <<simVars, active, published, alive, tracker, branches, log, tip, mergedAt,
                       crashes>>
  BY DEF Raise, memory, worldVars
<1>2. UNCHANGED <<dispatched, dispatches, observations, decisions, attemptNumber, waves,
                  cancelled>>
  BY <1>1 DEF simVars
<1>3. TypeOK' /\ Len(waves') <= MaxWaves /\ crashes' \in 0..MaxCrashes
      /\ failures' \in 0..MaxFailures
  <2>1. Sim!TypeOK'
    BY <1>1 DEF IInv, TypeOK, simVars, Sim!TypeOK, Sim!Sched!TypeOK
  <2>2. failures' \in 0..MaxFailures
    BY <1>1, ControllerAssumption DEF IInv
  <2> QED
    BY <1>1, <1>2, <2>1, <2>2 DEF IInv, TypeOK
<1>4. OneAttemptAtATime'
  BY <1>1 DEF IInv, OneAttemptAtATime
<1>5. \A i \in Items : WorktreesOf(i)' \subseteq WorktreesOf(i) /\ FirstBranch(i)' = FirstBranch(i)
  BY <1>1 DEF WorktreesOf, FirstBranch
<1>6. \A i \in Items : CreatesFirst(i) => CreatesFirst(i)'
  BY <1>1, <1>2, <1>5 DEF CreatesFirst
<1>7. \A i \in Items : WorktreeFacts(i)'
  BY <1>1, <1>2, <1>5, <1>6 DEF IInv, WorktreeFacts
<1>8. \A i \in Items : ItemFacts(i)'
  BY <1>1, <1>2 DEF IInv, ItemFacts, Sim!Approved
<1>9. \A i \in Items : LogFacts(i)'
  <2>1. UNCHANGED <<dispatched, dispatches, active, log, published, cancelled, alive>>
        /\ failures' > 0
    BY <1>1, <1>2 DEF IInv
  <2>2. ASSUME NEW i \in Items, Unlogged(i) PROVE log.assigned[i] = None
    <3>1. call = "started"
      BY <1>1, <2>2 DEF Unlogged, Doing
    <3>2. PICK j \in Items, R \in SUBSET Items :
            todo = <<<<"started", j>>, Rest(R)>> /\ BeingLaunched(j)
      BY <1>1, <3>1, AtStarted DEF IInv
    <3>3. Head(todo) = <<"started", j>>
      BY <3>2
    <3>4. i = j
      BY <2>2, <3>3 DEF Unlogged
    <3> QED
      BY <3>2, <3>4 DEF BeingLaunched
  <2> QED
    BY <2>1, <2>2 DEF IInv, LogFacts
<1>10. Phase'
  BY <1>1 DEF Phase
<1> QED
  BY <1>3, <1>4, <1>7, <1>8, <1>9, <1>10 DEF IInv

\* Merges of pull requests leave the controller alone, and never undo a merge.
LEMMA WorldIInv ==
  ASSUME IInv,
         UNCHANGED <<simVars, active, published, todo, alive, tracker, worktrees, branches, log,
                     crashes, failures>>,
         tip' \in Revisions, mergedAt' \in [Workspaces -> Revisions],
         \A w \in Workspaces : mergedAt[w] > 0 => mergedAt'[w] > 0
  PROVE  IInv'
<1>1. UNCHANGED <<dispatched, dispatches, observations, decisions, attemptNumber, waves,
                  cancelled, released, policy, simWave>>
  BY DEF simVars
<1>2. TypeOK' /\ Len(waves') <= MaxWaves /\ crashes' \in 0..MaxCrashes
      /\ failures' \in 0..MaxFailures
  <2>1. Sim!TypeOK'
    BY DEF IInv, TypeOK, simVars, Sim!TypeOK, Sim!Sched!TypeOK
  <2> QED
    BY <1>1, <2>1 DEF IInv, TypeOK
<1>3. /\ OneAttemptAtATime' /\ \A i \in Items : WorktreeFacts(i)'
      /\ \A i \in Items : /\ ToLaunch(i) => ToLaunch(i)'
                          /\ BeingLaunched(i) => BeingLaunched(i)'
                          /\ FirstBranch(i) => FirstBranch(i)'
                          /\ WorktreesOf(i)' = WorktreesOf(i)
  <2>1. \A i \in Items : /\ ToLaunch(i) => ToLaunch(i)'
                         /\ BeingLaunched(i) => BeingLaunched(i)'
    BY <1>1, LaunchesKept
  <2> QED
    BY <1>1, <2>1, PlacesKept
<1>4. \A i \in Items : i \in dispatched /\ mergedAt[dispatches[i].workspace] > 0
                         => mergedAt'[dispatches[i].workspace] > 0
  <2> SUFFICES ASSUME NEW i \in Items, i \in dispatched
               PROVE  dispatches[i].workspace \in Workspaces
    OBVIOUS
  <2>1. dispatches[i] \in Sim!Dispatch
    BY SimTypes DEF IInv, TypeOK, ItemFacts
  <2> QED
    BY <2>1 DEF Sim!Dispatch, Workspaces
<1>5. \A i \in Items : ItemFacts(i)'
  BY <1>1, <1>4 DEF IInv, ItemFacts, Sim!Approved
<1>6. \A i \in Items : LogFacts(i)'
  BY <1>1 DEF IInv, LogFacts, Unlogged
<1>7. Phase'
  <2>1. CASE todo = <<>>
    BY <2>1 DEF Phase
  <2>2. ASSUME NEW R \in SUBSET Items, PhaseDispatch(R) PROVE Phase'
    <3>1. PhaseDispatch(R)'
      BY <1>1, <1>3, <2>2 DEF PhaseDispatch, Rest
    <3> QED
      BY <3>1 DEF Phase
  <2>3. ASSUME NEW i \in Items, NEW R \in SUBSET Items, PhaseLaunch(i, R) PROVE Phase'
    <3>1. PhaseLaunch(i, R)'
      BY <1>1, <1>3, <2>3 DEF PhaseLaunch, Rest
    <3> QED
      BY <3>1 DEF Phase
  <2>4. ASSUME NEW i \in Items, NEW state \in {"NeedsAttention", "Cancelled"},
               PhasePublish(i, state)
        PROVE  Phase'
    <3>1. PhasePublish(i, state)'
      BY <2>4 DEF PhasePublish
    <3> QED
      BY <3>1 DEF Phase
  <2>5. CASE PhaseRefresh
    <3>1. PhaseRefresh'
      BY <1>1, <2>5 DEF PhaseRefresh, Sim!CanRefreshTargetBase, Sim!Barrier, Sim!Approved,
         Barrier
    <3> QED
      BY <3>1 DEF Phase
  <2>6. ASSUME NEW i \in Items, PhaseObserve(i) \/ PhaseDecided(i) PROVE Phase'
    <3>1. PhaseObserve(i)' \/ PhaseDecided(i)'
      BY <2>6 DEF PhaseObserve, PhaseDecided
    <3> QED
      BY <3>1 DEF Phase
  <2>7. ASSUME NEW i \in Items, PhaseRelease(i) PROVE Phase'
    <3>1. i \in dispatched
      BY <2>7 DEF IInv, ItemFacts, PhaseRelease
    <3>2. PhaseRelease(i)'
      BY <1>1, <1>4, <2>7, <3>1 DEF PhaseRelease
    <3> QED
      BY <3>2 DEF Phase
  <2>8. ASSUME NEW i \in Items, PhaseReleased(i) PROVE Phase'
    <3>1. PhaseReleased(i)'
      BY <2>8 DEF PhaseReleased
    <3> QED
      BY <3>1 DEF Phase
  <2>9. ASSUME NEW i \in Items, PhaseRetry(i) PROVE Phase'
    <3>1. PhaseRetry(i)'
      BY <1>3, <2>9 DEF PhaseRetry
    <3> QED
      BY <3>1 DEF Phase
  <2>10. Phase
    BY DEF IInv
  <2> QED
    BY <2>1, <2>2, <2>3, <2>4, <2>5, <2>6, <2>7, <2>8, <2>9, <2>10 DEF Phase
<1> QED
  BY <1>2, <1>3, <1>5, <1>6, <1>7 DEF IInv

LEMMA MergeIInv ==
  ASSUME IInv, NEW w \in Workspaces, Merge(w)
  PROVE  IInv'
<1>1. /\ tip < MaxTip /\ tip' = tip + 1
      /\ mergedAt' = [mergedAt EXCEPT ![w] = tip + 1]
      /\ UNCHANGED <<simVars, active, published, todo, alive, tracker, worktrees, branches,
                     log, crashes, failures>>
  BY DEF Merge, memory, gitVars, counters
<1>2. tip \in Nat /\ tip + 1 \in Revisions /\ mergedAt \in [Workspaces -> Revisions]
  BY <1>1, ControllerAssumption DEF IInv, TypeOK, Revisions
<1>3. mergedAt' \in [Workspaces -> Revisions] /\ tip' \in Revisions
  BY <1>1, <1>2
<1>4. \A v \in Workspaces : mergedAt[v] > 0 => mergedAt'[v] > 0
  BY <1>1, <1>2
<1> QED
  BY <1>1, <1>3, <1>4, WorldIInv

LEMMA StutterIInv ==
  ASSUME IInv, UNCHANGED vars
  PROVE  IInv'
<1>1. UNCHANGED <<simVars, active, published, todo, alive, tracker, worktrees, branches, log,
                  crashes, failures, tip, mergedAt>>
  BY DEF vars, memory, gitVars, worldVars, counters
<1>2. tip' \in Revisions /\ mergedAt' \in [Workspaces -> Revisions]
      /\ \A w \in Workspaces : mergedAt[w] > 0 => mergedAt'[w] > 0
  BY <1>1 DEF IInv, TypeOK
<1> QED
  BY <1>1, <1>2, WorldIInv

LEMMA InitIInv == Init => IInv
<1> SUFFICES ASSUME Init PROVE IInv
  OBVIOUS
<1>1. /\ policy \in Policies /\ dispatched = {} /\ released = Completed /\ cancelled = {}
      /\ activeWave = {} /\ barrierOpen = TRUE /\ baseRevision = InitialRevision
      /\ waves = <<>>
      /\ dispatches = [i \in Items |-> None] /\ observations = [i \in Items |-> None]
      /\ decisions = [i \in Items |-> None] /\ simWave = {}
      /\ attemptNumber = [i \in Items |-> 1]
  BY DEF Init, Sim!Init, Sim!Sched!Init
<1>2. Sim!TypeOK
  <2>1. InitialRevision \in Revisions /\ 1 \in 1..MaxAttempts /\ Completed \subseteq Items
    BY ControllerAssumption DEF InitialRevision, Revisions
  <2>2. waves \in Seq(Sim!Sched!Wave)
    BY <1>1
  <2> QED
    BY <1>1, <2>1, <2>2, SimTypes
<1>3. /\ active = {} /\ published = {} /\ todo = <<>> /\ alive = TRUE
      /\ tracker = [i \in Items |-> IF i \in Completed THEN "Done" ELSE "Ready"]
      /\ worktrees = {} /\ branches = {}
      /\ log = [tickets |-> [i \in Items |-> None], keys |-> {}, base |-> None,
                assigned |-> [i \in Items |-> None], waves |-> [n \in 1..MaxWaves |-> None],
                ended |-> {}]
      /\ tip = 0 /\ mergedAt = [w \in Workspaces |-> 0] /\ crashes = 0 /\ failures = 0
  BY DEF Init
<1>4. TypeOK
  <2>1. 0 \in Revisions
    BY ControllerAssumption DEF Revisions
  <2>2. log \in Projection
    BY <1>3 DEF Projection
  <2>3. tracker \in [Items -> TicketStates]
    BY <1>3 DEF TicketStates
  <2> QED
    BY <1>2, <1>3, <2>1, <2>2, <2>3 DEF TypeOK
<1>5. Len(waves) <= MaxWaves /\ crashes \in 0..MaxCrashes /\ failures \in 0..MaxFailures
  BY <1>1, <1>3, ControllerAssumption
<1>6. OneAttemptAtATime
  BY <1>3 DEF OneAttemptAtATime
<1>7. \A i \in Items : WorktreeFacts(i) /\ ItemFacts(i) /\ LogFacts(i)
  <2> SUFFICES ASSUME NEW i \in Items PROVE WorktreeFacts(i) /\ ItemFacts(i) /\ LogFacts(i)
    OBVIOUS
  <2>1. /\ log.assigned[i] = None /\ log.tickets[i] = None /\ attemptNumber[i] = 1
        /\ dispatches[i] = None /\ observations[i] = None /\ decisions[i] = None
    BY <1>1, <1>3
  <2>2. WorktreeFacts(i)
    BY <1>3, <2>1 DEF WorktreeFacts, CreatesFirst, WorktreesOf
  <2>3. ItemFacts(i)
    BY <1>1, <1>3, <2>1 DEF ItemFacts, Sim!Approved
  <2>4. LogFacts(i)
    BY <1>3, <2>1 DEF LogFacts
  <2> QED
    BY <2>2, <2>3, <2>4
<1>8. Phase
  BY <1>3 DEF Phase
<1> QED
  BY <1>4, <1>5, <1>6, <1>7, <1>8 DEF IInv

-----------------------------------------------------------------------------
(* Crash and restart.                                                      *)

\* A set of wave numbers that is not empty has a greatest one.
LEMMA GreatestWave ==
  ASSUME NEW S \in SUBSET (1..MaxWaves), S # {}
  PROVE  \E n \in S : \A m \in S : m <= n
<1> DEFINE T == {k \in Nat : \E n \in S : k = MaxWaves - n}
<1>1. \A n \in S : MaxWaves - n \in T
  BY ControllerAssumption
<1>2. T \in SUBSET Nat /\ T # {}
  BY <1>1
<1> HIDE DEF T
<1>3. \E x \in T : \A y \in T : ~(<<y, x>> \in OpToRel(<, Nat))
  BY <1>2, NatLessThanWellFounded, WFMin
<1>4. PICK x \in T : \A y \in T : ~(y < x)
  BY <1>2, <1>3 DEF OpToRel
<1>5. PICK n \in S : x = MaxWaves - n
  BY DEF T
<1>6. \A m \in S : m <= n
  <2> SUFFICES ASSUME NEW m \in S PROVE m <= n
    OBVIOUS
  <2>1. ~(MaxWaves - m < x)
    BY <1>1, <1>4
  <2> QED
    BY <1>5, <2>1, ControllerAssumption
<1> QED
  BY <1>6

\* What a restart reads from the event log.
LEMMA RehydrateFacts ==
  ASSUME IInv, Rehydrate
  PROVE  /\ Sim!TypeOK' /\ Len(waves') <= MaxWaves
         /\ dispatched' = {i \in Items : log.assigned[i] # None}
         /\ active' = {i \in Items : log.assigned[i] # None}
         /\ dispatches' = log.assigned
         /\ \A i \in Items : /\ observations'[i] = None /\ decisions'[i] = None
                             /\ attemptNumber'[i] = 1
         /\ published' \subseteq Items \X {"InReview", "NeedsAttention", "Done"}
         /\ \A i \in Items : <<i, "Done">> \in published' => log.tickets[i] = "Done"
<1> DEFINE assigned == {i \in Items : log.assigned[i] # None}
           logged == {n \in 1..MaxWaves : log.waves[n] # None}
           last == CHOOSE n \in logged : \A m \in logged : m <= n
           open == UNION {log.waves[n].items : n \in {m \in logged : log.waves[m].state = "active"}}
           inWave == IF Barrier THEN assigned \cap open ELSE {}
           lastWave == IF logged = {} \/ log.waves[last].state # "active" THEN {}
                       ELSE log.waves[last].items
           filled == [n \in 1..last |-> IF n \in logged THEN log.waves[n]
                        ELSE [base |-> InitialRevision, items |-> {}, state |-> "superseded"]]
<1>1. /\ dispatched' = assigned
      /\ released' = Completed \cup {i \in Items : log.tickets[i] \in {"Done", "Cancelled"}}
      /\ cancelled' = {}
      /\ activeWave' = {} \/ \E i \in inWave : activeWave' = {i}
      /\ barrierOpen' = (inWave = {})
      /\ baseRevision' = IF log.base = None THEN tip ELSE log.base
      /\ waves' = IF logged = {} THEN <<>> ELSE filled
      /\ dispatches' = log.assigned
      /\ observations' = [i \in Items |-> None]
      /\ decisions' = [i \in Items |-> None]
      /\ simWave' = lastWave \cup (assigned \cap open)
      /\ attemptNumber' = [i \in Items |-> 1]
      /\ active' = assigned
      /\ published' =
           {key \in Items \X {"InReview", "NeedsAttention", "Done"} :
              \/ log.tickets[key[1]] = key[2]
              \/ key[2] = "InReview" /\ log.tickets[key[1]] \in {"NeedsAttention", "Done"}}
      /\ UNCHANGED policy
  BY DEF Rehydrate
<1>2. log \in Projection /\ tip \in Revisions /\ policy \in Policies
  BY SimTypes DEF IInv, TypeOK
<1>3. /\ \A n \in logged : log.waves[n] \in Sim!Sched!Wave /\ log.waves[n].items \subseteq Items
      /\ log.base = None \/ log.base \in Revisions
      /\ log.assigned \in [Items -> Sim!Dispatch \cup {None}]
  <2>1. \A n \in logged : log.waves[n] \in Sim!Sched!Wave
    BY <1>2, LogTypes
  <2> QED
    BY <1>2, <2>1, LogTypes DEF Sim!Sched!Wave
<1>4. ASSUME logged # {} PROVE last \in logged
  <2>1. logged \in SUBSET (1..MaxWaves)
    OBVIOUS
  <2> HIDE DEF logged
  <2>2. \E n \in logged : \A m \in logged : m <= n
    BY <1>4, <2>1, GreatestWave
  <2> QED
    BY <2>2
<1>5. lastWave \subseteq Items /\ open \subseteq Items /\ inWave \subseteq Items
  <2>1. open \subseteq Items
    BY <1>3
  <2>2. lastWave \subseteq Items
    BY <1>3, <1>4
  <2> HIDE DEF open
  <2> QED
    BY <2>1, <2>2
<1>6. ASSUME logged # {} PROVE filled \in Seq(Sim!Sched!Wave) /\ Len(filled) <= MaxWaves
  <2>1. PICK top \in 1..MaxWaves : top = last
    BY <1>4, <1>6
  <2> HIDE DEF last
  <2>2. [base |-> InitialRevision, items |-> {}, state |-> "superseded"] \in Sim!Sched!Wave
    BY ControllerAssumption DEF Sim!Sched!Wave, InitialRevision, Revisions
  <2>3. filled \in [1..top -> Sim!Sched!Wave]
    BY <1>3, <2>1, <2>2
  <2> HIDE DEF filled
  <2> QED
    BY <2>1, <2>3, ControllerAssumption
<1>7. waves' \in Seq(Sim!Sched!Wave) /\ Len(waves') <= MaxWaves
  <2> HIDE DEF filled, logged
  <2>1. CASE logged = {}
    BY <1>1, <2>1, ControllerAssumption
  <2>2. CASE logged # {}
    BY <1>1, <1>6, <2>2
  <2> QED
    BY <2>1, <2>2
<1>8. activeWave' \subseteq Items /\ barrierOpen' \in BOOLEAN /\ baseRevision' \in Revisions
  <2> HIDE DEF inWave
  <2> QED
    BY <1>1, <1>2, <1>3, <1>5
<1>9. simWave' \subseteq Items
  <2> HIDE DEF open, lastWave
  <2> QED
    BY <1>1, <1>5
<1>10. released' \subseteq Items /\ attemptNumber' \in [Items -> 1..MaxAttempts]
  BY <1>1, ControllerAssumption
<1>11. Sim!TypeOK'
  <2>1. /\ dispatched' \subseteq Items /\ cancelled' \subseteq released'
        /\ dispatches' \in [Items -> Sim!Dispatch \cup {None}]
        /\ observations' \in [Items -> Observations \cup {None}]
        /\ decisions' \in [Items -> Sim!Decision \cup {None}]
        /\ policy' \in Policies
    BY <1>1, <1>2, <1>3
  <2> QED
    BY <1>7, <1>8, <1>9, <1>10, <2>1 DEF Sim!TypeOK, Sim!Sched!TypeOK
<1>12. /\ \A i \in Items : /\ observations'[i] = None /\ decisions'[i] = None
                           /\ attemptNumber'[i] = 1
       /\ published' \subseteq Items \X {"InReview", "NeedsAttention", "Done"}
  BY <1>1
<1>13. \A i \in Items : <<i, "Done">> \in published' => log.tickets[i] = "Done"
  BY <1>1
<1> QED
  BY <1>1, <1>7, <1>11, <1>12, <1>13

LEMMA RestartIInv ==
  ASSUME IInv, Restart
  PROVE  IInv'
<1>1. /\ alive /\ crashes < MaxCrashes /\ crashes' = crashes + 1 /\ todo' = <<>>
      /\ \/ alive' = FALSE /\ UNCHANGED <<simVars, active, published>>
         \/ alive' = TRUE /\ Rehydrate
      /\ UNCHANGED <<tracker, worktrees, branches, log, tip, mergedAt, failures>>
  BY DEF Restart, memory, gitVars, worldVars
<1>2. crashes' \in 0..MaxCrashes /\ failures' \in 0..MaxFailures
  BY <1>1, ControllerAssumption DEF IInv
<1>3. Phase'
  BY <1>1 DEF Phase
<1>4. OneAttemptAtATime'
  BY <1>1 DEF IInv, OneAttemptAtATime
<1>5. CASE alive' = FALSE /\ UNCHANGED <<simVars, active, published>>
  <2>1. UNCHANGED <<dispatched, dispatches, observations, decisions, attemptNumber, waves,
                    cancelled>>
    BY <1>5 DEF simVars
  <2>2. Sim!TypeOK'
    BY <1>5 DEF IInv, TypeOK, simVars, Sim!TypeOK, Sim!Sched!TypeOK
  <2>3. TypeOK' /\ Len(waves') <= MaxWaves
    BY <1>1, <1>5, <2>1, <2>2 DEF IInv, TypeOK
  <2>4. \A i \in Items : WorktreeFacts(i)' /\ ItemFacts(i)'
    BY <1>1, <1>5, <2>1, AttemptsKept DEF attempts
  <2>5. \A i \in Items : LogFacts(i)'
    BY <1>1, <1>5, <2>1 DEF IInv, LogFacts
  <2> QED
    BY <1>2, <1>3, <1>4, <2>3, <2>4, <2>5 DEF IInv
<1>6. CASE alive' = TRUE /\ Rehydrate
  <2>1. /\ Sim!TypeOK' /\ Len(waves') <= MaxWaves
        /\ dispatched' = {i \in Items : log.assigned[i] # None}
        /\ active' = {i \in Items : log.assigned[i] # None}
        /\ dispatches' = log.assigned
        /\ \A i \in Items : /\ observations'[i] = None /\ decisions'[i] = None
                            /\ attemptNumber'[i] = 1
        /\ published' \subseteq Items \X {"InReview", "NeedsAttention", "Done"}
        /\ \A i \in Items : <<i, "Done">> \in published' => log.tickets[i] = "Done"
    BY <1>6, RehydrateFacts
  <2>2. TypeOK'
    BY <1>1, <1>6, <2>1 DEF IInv, TypeOK
  <2>3. \A i \in Items : WorktreesOf(i)' = WorktreesOf(i) /\ FirstBranch(i)' = FirstBranch(i)
    BY <1>1 DEF WorktreesOf, FirstBranch
  <2>4. \A i \in Items : WorktreesOf(i) # {} => FirstBranch(i)
    <3> SUFFICES ASSUME NEW i \in Items, NEW w \in WorktreesOf(i) PROVE FirstBranch(i)
      OBVIOUS
    <3>1. w \in branches /\ w \in Items \X (1..MaxAttempts) /\ w[1] = i
      BY DEF WorktreesOf, IInv, TypeOK, Workspaces
    <3>2. PICK n \in 1..MaxAttempts : w = <<i, n>>
      BY <3>1
    <3> QED
      BY <3>1, <3>2 DEF IInv, WorktreeFacts
  <2>5. \A i \in Items : WorktreeFacts(i)'
    <3> SUFFICES ASSUME NEW i \in Items PROVE WorktreeFacts(i)'
      OBVIOUS
    <3>1. CreatesFirst(i)'
      BY <1>1, <2>1, <2>3, <2>4 DEF CreatesFirst, FirstBranch
    <3>2. WorktreeFacts(i)
      BY DEF IInv
    <3>3. /\ (i \in active') <=> (log.assigned[i] # None)
          /\ (i \in dispatched') <=> (log.assigned[i] # None)
          /\ attemptNumber'[i] = 1 /\ dispatches'[i] = log.assigned[i]
          /\ log' = log /\ branches' = branches
      BY <1>1, <2>1
    <3>4. WorktreesOf(i)' = WorktreesOf(i) /\ FirstBranch(i)' = FirstBranch(i)
      BY <2>3
    <3> QED
      BY <3>1, <3>2, <3>3, <3>4, 1 > 1 <=> FALSE DEF WorktreeFacts
  <2>6. \A i \in Items : ItemFacts(i)'
    BY <1>1, <2>1 DEF IInv, ItemFacts, Sim!Approved
  <2>7. \A i \in Items : LogFacts(i)'
    <3> SUFFICES ASSUME NEW i \in Items PROVE LogFacts(i)'
      OBVIOUS
    <3>1. active' = dispatched' /\ (i \in active' <=> log.assigned[i] # None)
      BY <2>1
    <3>2. log.tickets[i] # None => <<i, log.tickets[i]>> \in log.keys
      BY DEF IInv, LogFacts
    <3>3. <<i, "Done">> \in published' => <<i, "Done">> \in log.keys
      <4>1. <<i, "Done">> \in published' => log.tickets[i] = "Done"
        BY <2>1
      <4>2. "Done" # None
        BY PlaceholderAssumption DEF TicketStates
      <4> QED
        BY <3>2, <4>1, <4>2
    <3>4. dispatches' = log.assigned /\ log' = log
      BY <1>1, <2>1
    <3> QED
      BY <2>1, <3>1, <3>2, <3>3, <3>4 DEF LogFacts
  <2> QED
    BY <1>2, <1>3, <1>4, <2>1, <2>2, <2>5, <2>6, <2>7 DEF IInv
<1> QED
  BY <1>1, <1>5, <1>6

-----------------------------------------------------------------------------
(* The theorems.                                                           *)

LEMMA HandlerIInv == IInv /\ Handler => IInv'
<1> SUFFICES ASSUME IInv, Handler PROVE IInv'
  OBVIOUS
<1>1. CASE DispatchReady
  BY <1>1, DispatchReadyIInv
<1>2. CASE RefreshTargetBase
  BY <1>2, RefreshTargetBaseIInv
<1>3. ASSUME NEW i \in Items,
             ReconcileMissing(i) \/ Reconcile(i) \/ Retry(i) \/ CancelFromWave(i) \/ RuntimeFails(i)
      PROVE  IInv'
  BY <1>3, ReconcileMissingIInv, ReconcileIInv, RetryIInv, CancelFromWaveIInv, RuntimeFailsIInv
<1> QED
  BY <1>1, <1>2, <1>3 DEF Handler

LEMMA CallIInv == IInv /\ Call => IInv'
BY UpdateTrackerIInv, LogTicketIInv, CreateWorkspaceIInv, StartRuntimeIInv, LogStartedIInv,
   LogWaveIInv, EvaluateGateIInv, LogWaveStateIInv, LogEndedIInv, PopIInv, RefreshIInv,
   LogBaseIInv, DispatchNextFrontierIInv, RetryItemIInv, RedispatchIInv DEF Call

LEMMA NextIInv == IInv /\ [Next]_vars => IInv'
BY HandlerIInv, CallIInv, RaiseIInv, RestartIInv, MergeIInv, StutterIInv DEF Next

\* Between any two calls of a handler, and across crashes, restarts, failing calls
\* and retries, the phase of the running handler, the worktrees, the simulator and
\* the event log fit together as IInv says.
THEOREM Invariance == Spec => []IInv
BY InitIInv, NextIInv, PTL DEF Spec

\* Every variable of the controller keeps its type, the programs handlers leave
\* in todo apart, which IInv describes exactly.
THEOREM TypeCorrect == Spec => []TypeOK
<1>1. IInv => TypeOK
  BY DEF IInv
<1> QED
  BY <1>1, Invariance, PTL

\* No crash, failing call, retry or cancellation leaves two worktrees for one work
\* item: dispatch, retry, destroy and restart together (controller.py dispatch_ready,
\* retry, _rehydrate; git_workspace.py create, destroy).
THEOREM OneWorktreePerItem == Spec => []OneAttemptAtATime
<1>1. IInv => OneAttemptAtATime
  BY DEF IInv
<1> QED
  BY <1>1, Invariance, PTL

\* Whenever no handler is running, the assignments a restart would read from the
\* event log are the active ones: the log is behind only while a handler runs.  The
\* exceptions are the ones a call that raises leaves: an agent was started and its
\* start never logged, because the recorder or the log raised (controller.py 340 to
\* 342); no call that raises leaves the log with another assignment than memory.
THEOREM RestartRestoresActiveWork == Spec => []RestartFindsActiveWork
<1>1. IInv => RestartFindsActiveWork
  <2> SUFFICES ASSUME IInv, Idle, NEW i \in Items
               PROVE  /\ i \in active => \/ log.assigned[i] = dispatches[i]
                                         \/ log.assigned[i] = None /\ failures > 0
                      /\ i \notin active /\ log.assigned[i] # None
                           => i \in cancelled
                              \/ log.keys \cap {<<i, "Done">>, <<i, "Cancelled">>} # {}
    BY DEF RestartFindsActiveWork
  <2>1. ~Unlogged(i) /\ alive
    BY LogIsUpToDate DEF Idle
  <2> QED
    BY <2>1 DEF IInv, LogFacts
<1> QED
  BY <1>1, Invariance, PTL

\* Only the call that publishes an approved item's release makes a ticket Done.
LEMMA DoneStep ==
  ASSUME IInv, Next, NEW i \in Items, tracker'[i] = "Done", tracker[i] # "Done"
  PROVE  i \in active /\ mergedAt[dispatches[i].workspace] > 0
<1>1. ~Handler /\ ~Raise /\ ~Restart /\ ~(\E w \in Workspaces : Merge(w))
  BY DEF Handler, DispatchReady, RefreshTargetBase, ReconcileMissing, Reconcile, Retry,
         CancelFromWave, RuntimeFails, Raise, Restart, Merge
<1>2. UpdateTracker
  BY <1>1 DEF Next, Call, LogTicket, CreateWorkspace, StartRuntime, LogStarted, LogWave,
         EvaluateGate, LogWaveState, LogEnded, Pop, Refresh, LogBase, DispatchNextFrontier,
         RetryItem, Redispatch
<1>3. /\ Doing("tracker")
      /\ tracker' = [tracker EXCEPT ![Head(todo)[2]] = Head(todo)[3]]
  BY <1>2 DEF UpdateTracker, Item
<1>4. Head(todo)[2] = i /\ Head(todo)[3] = "Done"
  BY <1>3 DEF IInv, TypeOK
<1>5. PICK j \in Items :
        \/ \E R \in SUBSET Items :
             todo = <<<<"tracker", j, "InProgress">>, <<"ticket", j, "InProgress">>,
                      <<"start", j>>, <<"started", j>>, Rest(R)>>
        \/ \E state \in {"NeedsAttention", "Cancelled"} :
             todo = <<<<"tracker", j, state>>, <<"ticket", j, state>>>>
        \/ todo = <<<<"tracker", j, "InReview">>, <<"ticket", j, "InReview">>, <<"gate", j>>>>
        \/ /\ j \in active /\ mergedAt[dispatches[j].workspace] > 0
           /\ todo = <<<<"tracker", j, "Done">>, <<"ticket", j, "Done">>,
                       <<"ended", j>>, <<"pop", j>>>>
  BY <1>3, AtTracker DEF IInv
<1>6. /\ j \in active /\ mergedAt[dispatches[j].workspace] > 0
      /\ Head(todo)[2] = j
  BY <1>4, <1>5
<1> QED
  BY <1>4, <1>6

\* A ticket becomes Done only when the pull request of the attempt that is assigned
\* at that moment was merged, whatever crashed, failed or was retried before
\* (controller.py reconcile, _set_ticket_state).
THEOREM DoneNeedsMerge == Spec => DoneOnlyMerged
<1> DEFINE A == \A i \in Items : tracker'[i] = "Done" /\ tracker[i] # "Done" =>
                  i \in active /\ mergedAt[dispatches[i].workspace] > 0
<1>1. IInv /\ [Next]_vars => [A]_vars
  BY DoneStep
<1>2. DoneOnlyMerged <=> [][A]_vars
  BY DEF DoneOnlyMerged
<1> HIDE DEF A
<1>3. Spec => [][A]_vars
  BY <1>1, Invariance, PTL DEF Spec
<1> QED
  BY <1>2, <1>3

-----------------------------------------------------------------------------
(* What a step can be, in the words the further invariants need.           *)

\* A step that is neither a crash nor a failing call makes the next call, when there
\* is one to make.
LEMMA NextCall ==
  ASSUME Next, ~Raise, ~Restart, todo # <<>>
  PROVE  Call \/ \E w \in Workspaces : Merge(w)
BY DEF Next, Handler, DispatchReady, RefreshTargetBase, ReconcileMissing, Reconcile, Retry,
       CancelFromWave, RuntimeFails, Idle

\* The call at the head of todo is the one that is made.
LEMMA CallAtHead ==
  ASSUME Call
  PROVE  /\ Head(todo)[1] = "waveState" => LogWaveState
         /\ Head(todo)[1] = "tracker" => UpdateTracker
         /\ Head(todo)[1] = "ticket" => LogTicket
         /\ Head(todo)[1] = "ended" => LogEnded
         /\ Head(todo)[1] = "pop" => Pop
         /\ Head(todo)[1] = "refresh" => Refresh
         /\ Head(todo)[1] = "base" => LogBase
         /\ Head(todo)[1] = "frontier" => DispatchNextFrontier
BY DEF Call, UpdateTracker, LogTicket, CreateWorkspace, StartRuntime, LogStarted, LogWave,
       EvaluateGate, LogWaveState, LogEnded, Pop, Refresh, LogBase, DispatchNextFrontier,
       RetryItem, Redispatch, Doing

\* A ticket event adds its idempotency key.
LEMMA TicketKey ==
  ASSUME IInv, LogTicket
  PROVE  log'.keys = log.keys \cup {<<Head(todo)[2], Head(todo)[3]>>}
<1>1. log \in Projection
  BY DEF IInv, TypeOK
<1> PICK i, state : i = Head(todo)[2] /\ state = Head(todo)[3]
  OBVIOUS
<1>2. log' = IF <<i, state>> \in log.keys THEN log
             ELSE [log EXCEPT !.keys = log.keys \cup {<<i, state>>}, !.tickets[i] = state]
  BY DEF LogTicket, Item
<1>3. CASE <<i, state>> \in log.keys
  BY <1>2, <1>3
<1>4. CASE <<i, state>> \notin log.keys
  <2> DEFINE next == log.keys \cup {<<i, state>>}
  <2>1. log' = [log EXCEPT !.keys = next, !.tickets = [log.tickets EXCEPT ![i] = state]]
    BY <1>1, <1>2, <1>4 DEF Projection
  <2> QED
    BY <1>1, <2>1 DEF Projection
<1> QED
  BY <1>3, <1>4

\* The keys of the event log change with a ticket event only, which adds its own.
LEMMA KeysStep ==
  ASSUME IInv, [Next]_vars
  PROVE  \/ log'.keys = log.keys
         \/ LogTicket /\ log'.keys = log.keys \cup {<<Head(todo)[2], Head(todo)[3]>>}
<1>1. log \in Projection
  BY DEF IInv, TypeOK
<1>2. CASE LogTicket
  BY <1>2, TicketKey
<1>3. CASE LogStarted \/ LogWave \/ LogWaveState \/ LogEnded \/ LogBase
  BY <1>1, <1>3 DEF LogStarted, LogWave, LogWaveState, LogEnded, LogBase, Projection
<1>4. CASE UNCHANGED log
  BY <1>4
<1>5. Handler \/ Raise \/ Restart \/ (\E w \in Workspaces : Merge(w)) => UNCHANGED log
  BY DEF Handler, DispatchReady, RefreshTargetBase, ReconcileMissing, Reconcile, Retry,
         CancelFromWave, RuntimeFails, Raise, Restart, Merge
<1>6. UpdateTracker \/ CreateWorkspace \/ StartRuntime \/ EvaluateGate \/ Pop \/ Refresh
        \/ DispatchNextFrontier \/ RetryItem \/ Redispatch => UNCHANGED log
  BY DEF UpdateTracker, CreateWorkspace, StartRuntime, EvaluateGate, Pop, Refresh,
         DispatchNextFrontier, RetryItem, Redispatch
<1> QED
  BY <1>2, <1>3, <1>4, <1>5, <1>6 DEF Next, Call, vars

\* Every step but a restart calls one method of the simulator, or none.
LEMMA SimulatorSteps ==
  ASSUME IInv, Next, ~Restart
  PROVE  \/ UNCHANGED simVars
         \/ Sim!DispatchReady /\ todo' = Launching(Ready)
              /\ (DispatchReady \/ DispatchNextFrontier \/ Redispatch)
         \/ \E i \in Items, o \in Observations : Reconcile(i) /\ Sim!ObserveDelivery(i, o)
         \/ \E i \in Items : /\ EvaluateGate /\ Sim!EvaluateGate(i) /\ todo = <<<<"gate", i>>>>
                             /\ i \in active
         \/ \E i \in Items : RetryItem /\ Sim!RetryItem(i)
         \/ \E i \in Items : CancelFromWave(i) /\ Sim!CancelFromWave(i)
         \/ (RefreshTargetBase \/ Refresh) /\ Sim!RefreshTargetBase(tip)
<1>1. CASE Handler
  <2>1. CASE DispatchReady
    BY <2>1 DEF DispatchReady
  <2>2. CASE RefreshTargetBase
    BY <2>2 DEF RefreshTargetBase
  <2>3. ASSUME NEW i \in Items, ReconcileMissing(i) \/ Retry(i) \/ RuntimeFails(i)
        PROVE  UNCHANGED simVars
    BY <2>3 DEF ReconcileMissing, Retry, RuntimeFails, memory
  <2>4. ASSUME NEW i \in Items, Reconcile(i)
        PROVE  \E o \in Observations : Reconcile(i) /\ Sim!ObserveDelivery(i, o)
    <3>1. i \in active /\ worktrees \subseteq Workspaces /\ dispatches[i].workspace \in worktrees
      BY <2>4 DEF Reconcile, IInv, TypeOK
    <3>2. PICK kind \in {"none", "open", "merged"}, place \in Workspaces \cup {None} :
            Sim!ObserveDelivery(i, Observed(place, dispatches[i].base, kind))
      BY <2>4, <3>1 DEF Reconcile, Places
    <3>3. dispatches[i] \in Sim!Dispatch
      BY <3>1, SimTypes DEF IInv, TypeOK, ItemFacts
    <3>4. Observed(place, dispatches[i].base, kind) \in Observations
      BY <3>3 DEF Observations, Sim!Dispatch
    <3> QED
      BY <2>4, <3>2, <3>4
  <2>5. ASSUME NEW i \in Items, CancelFromWave(i) PROVE Sim!CancelFromWave(i)
    BY <2>5 DEF CancelFromWave
  <2> QED
    BY <1>1, <2>1, <2>2, <2>3, <2>4, <2>5 DEF Handler
<1>2. CASE Call
  <2>1. CASE EvaluateGate
    <3>1. PICK i \in Items : i \in active /\ todo = <<<<"gate", i>>>>
      BY <2>1, AtGate DEF IInv, EvaluateGate
    <3>2. Head(todo)[2] = i
      BY <3>1
    <3> QED
      BY <2>1, <3>1, <3>2 DEF EvaluateGate, Item
  <2>2. CASE RetryItem
    <3>1. PICK i \in Items : todo = <<<<"retry", i>>, <<"redispatch", i>>>>
      BY <2>2, AtRetry DEF IInv, RetryItem
    <3>2. Head(todo)[2] = i
      BY <3>1
    <3> QED
      BY <2>2, <3>2 DEF RetryItem, Item
  <2>3. CASE Redispatch
    <3>1. CASE Ready = {Item}
      BY <2>3, <3>1 DEF Redispatch
    <3>2. CASE Ready # {Item}
      BY <2>3, <3>2 DEF Redispatch
    <3> QED
      BY <3>1, <3>2
  <2>4. CASE DispatchNextFrontier
    <3>1. CASE Ready = {}
      BY <2>4, <3>1 DEF DispatchNextFrontier
    <3>2. CASE Ready # {}
      BY <2>4, <3>2 DEF DispatchNextFrontier
    <3> QED
      BY <3>1, <3>2
  <2>5. CASE Refresh
    BY <2>5 DEF Refresh
  <2>6. UpdateTracker \/ LogTicket \/ CreateWorkspace \/ StartRuntime \/ LogStarted \/ LogWave
          \/ LogWaveState \/ LogEnded \/ Pop \/ LogBase => UNCHANGED simVars
    BY DEF UpdateTracker, LogTicket, CreateWorkspace, StartRuntime, LogStarted, LogWave,
           LogWaveState, LogEnded, Pop, LogBase, memory
  <2> QED
    BY <1>2, <2>1, <2>2, <2>3, <2>4, <2>5, <2>6 DEF Call
<1>3. Raise \/ (\E w \in Workspaces : Merge(w)) => UNCHANGED simVars
  BY DEF Raise, Merge, memory
<1> QED
  BY <1>1, <1>2, <1>3 DEF Next

\* reconcile from an approval until the assignment is dropped.
Finishing(i) == PhaseRelease(i) \/ PhaseReleased(i)

\* Unless it is cut short, the handler of an approval gets Done into the event log,
\* and then drops the assignment.
LEMMA FinishingSteps ==
  ASSUME IInv, Next, ~Raise, ~Restart, NEW i \in Items, Finishing(i)
  PROVE  /\ UNCHANGED simVars /\ alive' = alive
         /\ \/ Pop /\ todo = <<<<"pop", i>>>> /\ <<i, "Done">> \in log.keys
            \/ /\ active' = active
               /\ \/ PhaseRelease(i) /\ PhaseRelease(i)'
                  \/ PhaseReleased(i)'
<1>1. todo # <<>>
  BY DEF Finishing, PhaseRelease, PhaseReleased
<1>2. log.keys \subseteq log'.keys
  BY KeysStep
<1>3. CASE \E w \in Workspaces : Merge(w)
  <2>1. PICK w \in Workspaces : Merge(w)
    BY <1>3
  <2>2. /\ UNCHANGED <<simVars, active, todo, alive, log>>
        /\ mergedAt[w] = 0 /\ mergedAt' = [mergedAt EXCEPT ![w] = tip + 1]
    BY <2>1 DEF Merge, memory
  <2>3. UNCHANGED dispatches
    BY <2>2 DEF simVars
  <2>4. \A v \in Workspaces : mergedAt[v] > 0 => mergedAt'[v] > 0
    BY <2>2 DEF IInv, TypeOK
  <2>5. ASSUME PhaseRelease(i) PROVE PhaseRelease(i)'
    <3>1. i \in active /\ dispatches[i] \in Sim!Dispatch
      BY <2>5, SimTypes DEF PhaseRelease, IInv, TypeOK, ItemFacts
    <3>2. dispatches[i].workspace \in Workspaces
      BY <3>1 DEF Sim!Dispatch, Workspaces
    <3> QED
      BY <2>2, <2>3, <2>4, <2>5, <3>2 DEF PhaseRelease
  <2>6. ASSUME PhaseReleased(i) PROVE PhaseReleased(i)'
    BY <2>2, <2>6 DEF PhaseReleased
  <2> QED
    BY <2>2, <2>5, <2>6 DEF Finishing
<1>4. CASE Call
  <2>1. CASE PhaseRelease(i)
    <3>1. CASE todo = <<<<"waveState">>, <<"tracker", i, "Done">>, <<"ticket", i, "Done">>,
                        <<"ended", i>>, <<"pop", i>>>>
      <4>1. LogWaveState
        BY <1>4, <3>1, CallAtHead
      <4>2. /\ todo' = Tail(todo)
            /\ UNCHANGED <<simVars, active, alive, mergedAt>>
        BY <4>1 DEF LogWaveState, Done, memory, worldVars
      <4>3. todo' = <<<<"tracker", i, "Done">>, <<"ticket", i, "Done">>, <<"ended", i>>,
                      <<"pop", i>>>>
        BY <3>1, <4>2, Tails
      <4>4. PhaseRelease(i)'
        BY <2>1, <4>2, <4>3 DEF PhaseRelease, simVars
      <4> QED
        BY <2>1, <4>2, <4>4
    <3>2. CASE todo = <<<<"tracker", i, "Done">>, <<"ticket", i, "Done">>, <<"ended", i>>,
                        <<"pop", i>>>>
      <4>1. UpdateTracker
        BY <1>4, <3>2, CallAtHead
      <4>2. /\ todo' = Tail(todo)
            /\ UNCHANGED <<simVars, active, alive, mergedAt>>
        BY <4>1 DEF UpdateTracker, Done, memory, worldVars
      <4>3. todo' = <<<<"ticket", i, "Done">>, <<"ended", i>>, <<"pop", i>>>>
        BY <3>2, <4>2, Tails
      <4>4. PhaseRelease(i)'
        BY <2>1, <4>2, <4>3 DEF PhaseRelease, simVars
      <4> QED
        BY <2>1, <4>2, <4>4
    <3>3. CASE todo = <<<<"ticket", i, "Done">>, <<"ended", i>>, <<"pop", i>>>>
      <4>1. LogTicket
        BY <1>4, <3>3, CallAtHead
      <4>2. /\ todo' = Tail(todo)
            /\ UNCHANGED <<simVars, active, alive>>
        BY <4>1 DEF LogTicket, Done
      <4>3. todo' = <<<<"ended", i>>, <<"pop", i>>>>
        BY <3>3, <4>2, Tails
      <4>4. Head(todo)[2] = i /\ Head(todo)[3] = "Done"
        BY <3>3
      <4>5. <<i, "Done">> \in log'.keys
        BY <4>1, <4>4, TicketKey
      <4>6. PhaseReleased(i)'
        BY <2>1, <4>2, <4>3, <4>5 DEF PhaseRelease, PhaseReleased
      <4> QED
        BY <4>2, <4>6
    <3> QED
      BY <2>1, <3>1, <3>2, <3>3 DEF PhaseRelease
  <2>2. CASE PhaseReleased(i)
    <3>1. CASE todo = <<<<"waveState">>, <<"pop", i>>>>
      <4>1. LogWaveState
        BY <1>4, <3>1, CallAtHead
      <4>2. /\ todo' = Tail(todo)
            /\ UNCHANGED <<simVars, active, alive>>
        BY <4>1 DEF LogWaveState, Done, memory
      <4>3. todo' = <<<<"pop", i>>>>
        BY <3>1, <4>2, Tails
      <4>4. PhaseReleased(i)'
        BY <1>2, <2>2, <4>2, <4>3 DEF PhaseReleased
      <4> QED
        BY <4>2, <4>4
    <3>2. CASE todo = <<<<"ended", i>>, <<"pop", i>>>>
      <4>1. LogEnded
        BY <1>4, <3>2, CallAtHead
      <4>2. /\ todo' = Tail(todo)
            /\ UNCHANGED <<simVars, active, alive>>
        BY <4>1 DEF LogEnded, Done, memory
      <4>3. todo' = <<<<"pop", i>>>>
        BY <3>2, <4>2, Tails
      <4>4. PhaseReleased(i)'
        BY <1>2, <2>2, <4>2, <4>3 DEF PhaseReleased
      <4> QED
        BY <4>2, <4>4
    <3>3. CASE todo = <<<<"pop", i>>>>
      <4>1. Pop
        BY <1>4, <3>3, CallAtHead
      <4> QED
        BY <2>2, <3>3, <4>1 DEF Pop, PhaseReleased
    <3> QED
      BY <2>2, <3>1, <3>2, <3>3 DEF PhaseReleased
  <2> QED
    BY <2>1, <2>2 DEF Finishing
<1> QED
  BY <1>1, <1>3, <1>4, NextCall

\* A cancellation that is not cut short gets into the event log too.
LEMMA CancellingSteps ==
  ASSUME IInv, Next, ~Raise, ~Restart, NEW i \in Items, PhasePublish(i, "Cancelled")
  PROVE  /\ UNCHANGED <<simVars, active>> /\ alive' = alive
         /\ PhasePublish(i, "Cancelled")' \/ <<i, "Cancelled">> \in log'.keys
<1>1. todo # <<>>
  BY DEF PhasePublish
<1>2. CASE \E w \in Workspaces : Merge(w)
  BY <1>2 DEF Merge, memory, PhasePublish
<1>3. CASE Call
  <2>1. CASE todo = <<<<"tracker", i, "Cancelled">>, <<"ticket", i, "Cancelled">>>>
    <3>1. UpdateTracker
      BY <1>3, <2>1, CallAtHead
    <3>2. /\ todo' = Tail(todo)
          /\ UNCHANGED <<simVars, active, alive>>
      BY <3>1 DEF UpdateTracker, Done, memory
    <3>3. todo' = <<<<"ticket", i, "Cancelled">>>>
      BY <2>1, <3>2, Tails
    <3> QED
      BY <3>2, <3>3 DEF PhasePublish
  <2>2. CASE todo = <<<<"ticket", i, "Cancelled">>>>
    <3>1. LogTicket
      BY <1>3, <2>2, CallAtHead
    <3>2. UNCHANGED <<simVars, active, alive>>
      BY <3>1 DEF LogTicket
    <3>3. Head(todo)[2] = i /\ Head(todo)[3] = "Cancelled"
      BY <2>2
    <3>4. <<i, "Cancelled">> \in log'.keys
      BY <3>1, <3>3, TicketKey
    <3> QED
      BY <3>2, <3>4
  <2> QED
    BY <2>1, <2>2 DEF PhasePublish
<1> QED
  BY <1>1, <1>2, <1>3, NextCall

\* What the gate does, and what reconcile has still to do after it.
LEMMA GateOutcome ==
  ASSUME IInv, EvaluateGate, NEW i \in Items, i \in active, todo = <<<<"gate", i>>>>
  PROVE  /\ UNCHANGED <<policy, dispatched, cancelled, activeWave, barrierOpen, baseRevision,
                        dispatches, observations, simWave, attemptNumber, active, alive, log,
                        mergedAt, tip>>
         /\ Len(waves') = Len(waves)
         /\ \A j \in Items \ {i} : decisions'[j] = decisions[j]
         /\ released' = released \/ released' = released \cup {i}
         /\ Sim!Approved(i)' => Finishing(i)' /\ (Sim!Approved(i) \/ i \in released')
         /\ ~Sim!Approved(i)' => released' = released /\ PhaseDecided(i)'
<1>1. /\ \/ /\ Sim!EvaluateGate(i)
            /\ todo' = <<<<"waveState">>>> \o AfterGate(i, decisions'[i].status)
         \/ /\ decisions[i] # None
            /\ todo' = <<<<"waveState">>>> \o AfterGate(i, decisions[i].status)
            /\ UNCHANGED simVars
      /\ UNCHANGED <<active, published, alive, log, tip, mergedAt>>
  <2>1. Head(todo)[2] = i
    OBVIOUS
  <2> QED
    BY <2>1 DEF EvaluateGate, Item, worldVars
<1>2. Sim!TypeOK /\ dispatches[i] # None /\ i \in dispatched
  BY DEF IInv, TypeOK, ItemFacts
<1>3. /\ UNCHANGED <<policy, dispatched, cancelled, activeWave, barrierOpen, baseRevision,
                     dispatches, observations, simWave, attemptNumber>>
      /\ Len(waves') = Len(waves)
      /\ \A j \in Items \ {i} : decisions'[j] = decisions[j]
      /\ decisions'[i] # None
      /\ todo' = <<<<"waveState">>>> \o AfterGate(i, decisions'[i].status)
      /\ \/ /\ decisions[i] = None
            /\ released' = IF decisions'[i].status = "approved" THEN released \cup {i} ELSE released
         \/ decisions' = decisions /\ released' = released
  <2>1. CASE /\ Sim!EvaluateGate(i)
             /\ todo' = <<<<"waveState">>>> \o AfterGate(i, decisions'[i].status)
    <3> DEFINE decision == Sim!Decide(dispatches[i], observations[i])
    <3>1. /\ decisions[i] = None /\ observations[i] # None
          /\ decisions' = [decisions EXCEPT ![i] = decision]
          /\ IF decision.status = "approved" THEN Sim!Sched!Release(i)
             ELSE UNCHANGED Sim!schedVars
          /\ UNCHANGED <<dispatches, observations, simWave, attemptNumber>>
      BY <2>1 DEF Sim!EvaluateGate
    <3>2. observations[i] \in Observations
      BY <1>2, <3>1, SimTypes
    <3>3. decision # None
      BY <3>2, GateFacts, PlaceholderAssumption
    <3>4. /\ UNCHANGED <<policy, dispatched, cancelled, activeWave, barrierOpen, baseRevision>>
          /\ Len(waves') = Len(waves)
          /\ released' = IF decision.status = "approved" THEN released \cup {i} ELSE released
      <4>1. CASE decision.status = "approved"
        BY <1>2, <3>1, <4>1, ReleaseFacts
      <4>2. CASE decision.status # "approved"
        BY <3>1, <4>2 DEF Sim!schedVars
      <4> QED
        BY <4>1, <4>2
    <3> HIDE DEF decision
    <3>5. decisions'[i] = decision /\ \A j \in Items \ {i} : decisions'[j] = decisions[j]
      BY <1>2, <3>1, SimTypes
    <3> QED
      BY <2>1, <3>1, <3>3, <3>4, <3>5
  <2>2. CASE /\ decisions[i] # None
             /\ todo' = <<<<"waveState">>>> \o AfterGate(i, decisions[i].status)
             /\ UNCHANGED simVars
    BY <2>2 DEF simVars
  <2> QED
    BY <1>1, <2>1, <2>2
<1>4. PICK status : status = decisions'[i].status
  OBVIOUS
<1>5. Sim!Approved(i)' <=> status = "approved"
  BY <1>3, <1>4 DEF Sim!Approved
<1>6. \/ status # "approved" /\ PhaseDecided(i)'
      \/ /\ status = "approved" /\ <<i, "Done">> \in published
         /\ todo' = <<<<"waveState">>, <<"pop", i>>>>
      \/ /\ status = "approved"
         /\ todo' = <<<<"waveState">>, <<"tracker", i, "Done">>, <<"ticket", i, "Done">>,
                      <<"ended", i>>, <<"pop", i>>>>
  BY <1>3, <1>4, AfterGateProgram
<1>7. ASSUME status = "approved" PROVE Finishing(i)'
  <2>1. mergedAt'[dispatches'[i].workspace] > 0
    BY <1>5, <1>7, EvaluateGateIInv DEF IInv, ItemFacts
  <2>2. CASE <<i, "Done">> \in published /\ todo' = <<<<"waveState">>, <<"pop", i>>>>
    <3>1. <<i, "Done">> \in log.keys
      BY <2>2 DEF IInv, LogFacts
    <3>2. PhaseReleased(i)'
      BY <1>1, <2>2, <3>1 DEF PhaseReleased
    <3> QED
      BY <3>2 DEF Finishing
  <2>3. CASE todo' = <<<<"waveState">>, <<"tracker", i, "Done">>, <<"ticket", i, "Done">>,
                       <<"ended", i>>, <<"pop", i>>>>
    <3>1. PhaseRelease(i)'
      BY <1>1, <2>1, <2>3 DEF PhaseRelease
    <3> QED
      BY <3>1 DEF Finishing
  <2> QED
    BY <1>6, <1>7, <2>2, <2>3
<1>8. decisions' = decisions /\ status = "approved" => Sim!Approved(i)
  BY <1>3, <1>4 DEF Sim!Approved
<1> QED
  BY <1>1, <1>3, <1>4, <1>5, <1>6, <1>7, <1>8

-----------------------------------------------------------------------------
(* Dependents and the event log, as long as no call raises.                *)

\* The event log says that an item needs no more work.
Durable(i) == i \in Completed \/ <<i, "Done">> \in log.keys \/ <<i, "Cancelled">> \in log.keys

BlockersDurable(i) == \A b \in BlockedBy[i] : Durable(b)

\* What the scheduler counts as released is in the event log, or gets there before
\* the handler ends; what is dispatched, and what has a branch, waited for that.
DurableFacts ==
  /\ alive => \A i \in released :
                Durable(i) \/ PhaseRelease(i) \/ PhasePublish(i, "Cancelled")
  /\ \A i \in dispatched : BlockersDurable(i)
  /\ \A w \in branches : BlockersDurable(w[1])

DurableInv == failures = 0 => DurableFacts

\* Between two handlers, and where one dispatches, no release is under way.
LEMMA NothingOnItsWay ==
  ASSUME IInv, DispatchReady \/ DispatchNextFrontier \/ Redispatch
  PROVE  /\ alive
         /\ \A i \in Items : /\ ~PhaseRelease(i) /\ ~PhaseReleased(i)
                             /\ ~PhasePublish(i, "Cancelled")
<1>1. alive /\ (todo = <<>> \/ Head(todo)[1] \in {"frontier", "redispatch"})
  BY DEF DispatchReady, DispatchNextFrontier, Redispatch, Idle, Doing
<1> QED
  BY <1>1, HeadOfPhase

\* A restart finds Done or Cancelled in the event log for whatever it releases, and a
\* branch for whatever it restores as dispatched.
LEMMA RestartReads ==
  ASSUME IInv, Rehydrate
  PROVE  /\ \A i \in released' : Durable(i)
         /\ \A i \in dispatched' : i \in Items /\ FirstBranch(i)
<1>1. /\ released' = Completed \cup {i \in Items : log.tickets[i] \in {"Done", "Cancelled"}}
      /\ dispatched' = {i \in Items : log.assigned[i] # None}
  BY DEF Rehydrate
<1>2. {"Done", "Cancelled"} \subseteq TicketStates
  BY DEF TicketStates
<1>3. \A i \in Items : log.tickets[i] # None => <<i, log.tickets[i]>> \in log.keys
  BY DEF IInv, LogFacts
<1>4. \A i \in released' : Durable(i)
  <2> SUFFICES ASSUME NEW i \in Items, log.tickets[i] \in {"Done", "Cancelled"}
               PROVE  Durable(i)
    BY <1>1 DEF Durable
  <2>1. log.tickets[i] # None
    BY <1>2, PlaceholderAssumption
  <2> QED
    BY <1>3, <2>1 DEF Durable
<1>5. \A i \in dispatched' : i \in Items /\ FirstBranch(i)
  BY <1>1 DEF IInv, WorktreeFacts
<1> QED
  BY <1>4, <1>5

LEMMA NextDurable ==
  ASSUME IInv, Next, DurableInv
  PROVE  DurableInv'
<1> SUFFICES ASSUME failures' = 0 PROVE DurableFacts'
  BY DEF DurableInv
<1>1. failures = 0 /\ ~Raise
  <2>1. failures' = failures \/ failures' = failures + 1
    BY DEF Next, Handler, DispatchReady, RefreshTargetBase, ReconcileMissing, Reconcile, Retry,
           CancelFromWave, RuntimeFails, Call, UpdateTracker, LogTicket, CreateWorkspace,
           StartRuntime, LogStarted, LogWave, EvaluateGate, LogWaveState, LogEnded, Pop, Refresh,
           LogBase, DispatchNextFrontier, RetryItem, Redispatch, Raise, Restart, Merge, counters
  <2>2. failures \in Nat
    BY ControllerAssumption DEF IInv
  <2> QED
    BY <2>1, <2>2 DEF Raise
<1>2. DurableFacts
  BY <1>1 DEF DurableInv
<1>3. \A i : Durable(i) => Durable(i)'
  BY KeysStep DEF Durable
<1>4. \A i : BlockersDurable(i) => BlockersDurable(i)'
  BY <1>3 DEF BlockersDurable
<1>5. Sim!TypeOK
  BY DEF IInv, TypeOK
<1>6. \A w \in branches' : BlockersDurable(w[1])'
  <2>1. CASE CreateWorkspace
    <3>1. PICK R \in SUBSET Items : todo = <<<<"create", R>>>> /\ \A j \in R : ToLaunch(j)
      BY <2>1, AtCreate DEF IInv, CreateWorkspace
    <3>2. Head(todo)[2] = R
      BY <3>1
    <3>3. PICK i \in R : branches' \subseteq branches \cup {dispatches[i].workspace}
      BY <2>1, <3>2 DEF CreateWorkspace, Item, gitVars
    <3>4. i \in dispatched /\ dispatches[i].workspace[1] = i
      BY <3>1 DEF ToLaunch
    <3> QED
      BY <1>2, <1>4, <3>3, <3>4 DEF DurableFacts
  <2>2. CASE branches' = branches
    BY <1>2, <1>4, <2>2 DEF DurableFacts
  <2>3. CreateWorkspace \/ branches' = branches
    BY DEF Next, Handler, DispatchReady, RefreshTargetBase, ReconcileMissing, Reconcile, Retry,
           CancelFromWave, RuntimeFails, Call, UpdateTracker, LogTicket,
           StartRuntime, LogStarted, LogWave, EvaluateGate, LogWaveState, LogEnded, Pop, Refresh,
           LogBase, DispatchNextFrontier, RetryItem, Redispatch, Raise, Restart, Merge, gitVars
  <2> QED
    BY <2>1, <2>2, <2>3
<1>7. CASE Restart
  <2>1. CASE alive' = FALSE
    <3>1. UNCHANGED dispatched
      BY <1>7, <2>1 DEF Restart, memory, simVars
    <3> QED
      BY <1>2, <1>4, <1>6, <2>1, <3>1 DEF DurableFacts
  <2>2. CASE alive' # FALSE
    <3>1. Rehydrate
      BY <1>7, <2>2 DEF Restart
    <3>2. \A i \in dispatched' : BlockersDurable(i)
      <4> SUFFICES ASSUME NEW i \in dispatched' PROVE BlockersDurable(i)
        OBVIOUS
      <4>1. <<i, 1>> \in branches
        BY <3>1, RestartReads DEF FirstBranch
      <4>2. <<i, 1>>[1] = i
        OBVIOUS
      <4> QED
        BY <1>2, <4>1, <4>2 DEF DurableFacts
    <3> QED
      BY <1>3, <1>4, <1>6, <3>1, <3>2, RestartReads DEF DurableFacts
  <2> QED
    BY <2>1, <2>2
<1>8. CASE ~Restart
  <2>1. CASE UNCHANGED simVars
    <3>1. UNCHANGED <<dispatched, released>>
      BY <2>1 DEF simVars
    <3>2. alive' => alive
      BY <1>8 DEF Next, Handler, DispatchReady, RefreshTargetBase, ReconcileMissing, Reconcile,
           Retry, CancelFromWave, RuntimeFails, Call, UpdateTracker, LogTicket, CreateWorkspace,
           StartRuntime, LogStarted, LogWave, EvaluateGate, LogWaveState, LogEnded, Pop, Refresh,
           LogBase, DispatchNextFrontier, RetryItem, Redispatch, Raise, Merge
    <3>3. ASSUME alive', NEW i \in released'
          PROVE  Durable(i)' \/ PhaseRelease(i)' \/ PhasePublish(i, "Cancelled")'
      <4>1. Durable(i) \/ PhaseRelease(i) \/ PhasePublish(i, "Cancelled")
        BY <1>2, <3>1, <3>2, <3>3 DEF DurableFacts
      <4>2. i \in Items
        BY <1>5, <3>1, SimTypes
      <4>3. CASE PhaseRelease(i)
        <5>1. PhaseRelease(i)' \/ PhaseReleased(i)'
          <6>1. ~Pop
            BY <4>2, <4>3, HeadOfPhase DEF Pop, Doing
          <6> QED
            BY <1>1, <1>8, <4>2, <4>3, <6>1, FinishingSteps DEF Finishing
        <5>2. PhaseReleased(i)' => Durable(i)'
          BY DEF PhaseReleased, Durable
        <5> QED
          BY <5>1, <5>2
      <4>4. CASE PhasePublish(i, "Cancelled")
        <5>1. PhasePublish(i, "Cancelled")' \/ <<i, "Cancelled">> \in log'.keys
          BY <1>1, <1>8, <4>2, <4>4, CancellingSteps
        <5> QED
          BY <5>1 DEF Durable
      <4> QED
        BY <1>3, <4>1, <4>3, <4>4
    <3> QED
      BY <1>2, <1>4, <1>6, <3>1, <3>3 DEF DurableFacts
  <2>2. CASE Sim!DispatchReady /\ (DispatchReady \/ DispatchNextFrontier \/ Redispatch)
    <3>1. dispatched' = dispatched \cup Ready /\ released' = released
      BY <1>5, <2>2, DispatchReadyFacts
    <3>2. \A i \in released : Durable(i)
      BY <1>2, <1>5, <2>2, NothingOnItsWay, SimTypes DEF DurableFacts
    <3>3. \A i \in Ready : BlockersDurable(i)
      BY <3>2, ReadyFacts DEF BlockersDurable
    <3> QED
      BY <1>2, <1>3, <1>4, <1>6, <3>1, <3>2, <3>3 DEF DurableFacts
  <2>3. ASSUME NEW i \in Items, NEW o \in Observations, Reconcile(i), Sim!ObserveDelivery(i, o)
        PROVE  DurableFacts'
    <3>1. UNCHANGED <<dispatched, released, log, alive>> /\ Idle
      BY <1>5, <2>3, ObserveDeliveryFacts DEF Reconcile
    <3>2. alive => \A j \in released : Durable(j)
      BY <1>2, <3>1 DEF DurableFacts, Idle, PhaseRelease, PhasePublish
    <3> QED
      BY <1>2, <1>3, <1>4, <1>6, <3>1, <3>2 DEF DurableFacts
  <2>4. ASSUME NEW i \in Items, i \in active, EvaluateGate, Sim!EvaluateGate(i),
               todo = <<<<"gate", i>>>>
        PROVE  DurableFacts'
    <3>1. /\ UNCHANGED <<dispatched, alive>>
          /\ released' = released \/ (released' = released \cup {i} /\ Finishing(i)')
      <4>1. /\ UNCHANGED <<dispatched, alive>>
            /\ released' = released \/ released' = released \cup {i}
        BY <2>4, GateOutcome
      <4>2. ASSUME Sim!Approved(i)' PROVE Finishing(i)'
        BY <2>4, <4>2, GateOutcome
      <4>3. ASSUME ~Sim!Approved(i)' PROVE released' = released
        BY <2>4, <4>3, GateOutcome
      <4>4. CASE Sim!Approved(i)'
        BY <4>1, <4>2, <4>4, Zenon
      <4>5. CASE ~Sim!Approved(i)'
        BY <4>1, <4>3, <4>5, Zenon
      <4> QED
        BY <4>4, <4>5
    <3>2. alive => \A j \in released : Durable(j)
      BY <1>2, <2>4 DEF DurableFacts, PhaseRelease, PhasePublish
    <3>3. Finishing(i)' => Durable(i)' \/ PhaseRelease(i)'
      BY DEF Finishing, PhaseReleased, Durable
    <3> QED
      BY <1>2, <1>3, <1>4, <1>6, <3>1, <3>2, <3>3 DEF DurableFacts
  <2>5. ASSUME NEW i \in Items, RetryItem, Sim!RetryItem(i)
        PROVE  DurableFacts'
    <3>1. dispatched' = dispatched \ {i} /\ released' = released /\ alive' = alive
      BY <1>5, <2>5, RetryItemFacts DEF RetryItem
    <3>2. \A j \in Items : ~PhaseRelease(j) /\ ~PhasePublish(j, "Cancelled")
      BY <2>5, HeadOfPhase DEF RetryItem, Doing
    <3>3. alive => \A j \in released : Durable(j)
      BY <1>2, <1>5, <3>2, SimTypes DEF DurableFacts
    <3> QED
      BY <1>2, <1>3, <1>4, <1>6, <3>1, <3>3 DEF DurableFacts
  <2>6. ASSUME NEW i \in Items, CancelFromWave(i), Sim!CancelFromWave(i)
        PROVE  DurableFacts'
    <3>1. dispatched' = dispatched \ {i} /\ released' = released \cup {i}
      BY <1>5, <2>6, CancelFromWaveFacts
    <3>2. todo = <<>> /\ alive /\ todo' = Publish(i, "Cancelled")
      BY <2>6 DEF CancelFromWave, Idle
    <3>3. PhasePublish(i, "Cancelled")'
      <4>1. todo' = <<<<"tracker", i, "Cancelled">>, <<"ticket", i, "Cancelled">>>>
        BY <3>2 DEF Publish
      <4> QED
        BY <4>1 DEF PhasePublish
    <3>4. \A j \in released : Durable(j)
      BY <1>2, <3>2 DEF DurableFacts, PhaseRelease, PhasePublish
    <3> QED
      BY <1>2, <1>3, <1>4, <1>6, <3>1, <3>3, <3>4 DEF DurableFacts
  <2>7. CASE (RefreshTargetBase \/ Refresh) /\ Sim!RefreshTargetBase(tip)
    <3>1. UNCHANGED <<dispatched, released, alive>>
      BY <1>5, <2>7, RefreshTargetBaseFacts DEF RefreshTargetBase, Refresh, IInv, TypeOK
    <3>2. \A j \in Items : ~PhaseRelease(j) /\ ~PhasePublish(j, "Cancelled")
      BY <2>7, HeadOfPhase DEF RefreshTargetBase, Refresh, Doing, Idle
    <3>3. alive => \A j \in released : Durable(j)
      BY <1>2, <1>5, <3>2, SimTypes DEF DurableFacts
    <3> QED
      BY <1>2, <1>3, <1>4, <1>6, <3>1, <3>3 DEF DurableFacts
  <2> QED
    BY <1>8, <2>1, <2>2, <2>3, <2>4, <2>5, <2>6, <2>7, SimulatorSteps
<1> QED
  BY <1>7, <1>8

LEMMA InitDurable == Init => DurableInv
BY DEF Init, Sim!Init, Sim!Sched!Init, DurableInv, DurableFacts, Durable

LEMMA StutterDurable == DurableInv /\ UNCHANGED vars => DurableInv'
BY DEF DurableInv, DurableFacts, Durable, BlockersDurable, PhaseRelease, PhasePublish,
       vars, memory, simVars, gitVars, worldVars, counters

\* As long as no call raises, work on an item begins only after Done or Cancelled of
\* everything it is blocked by is in the event log, so that no crash, wherever it
\* falls, makes the controller forget what the work was based on (controller.py
\* reconcile, cancel_from_wave, _dispatch_next_frontier and _rehydrate).
THEOREM DependentsWaitForTheLog == Spec => []DependentsStartAfterDurableRelease
<1>1. IInv /\ DurableInv /\ [Next]_vars => DurableInv'
  BY NextDurable, StutterDurable
<1>2. Spec => []DurableInv
  BY <1>1, InitDurable, Invariance, PTL DEF Spec
<1>3. DurableInv => DependentsStartAfterDurableRelease
  BY DEF DurableInv, DurableFacts, BlockersDurable, Durable, DependentsStartAfterDurableRelease
<1> QED
  BY <1>2, <1>3, PTL

-----------------------------------------------------------------------------
(* The simulator inside the controller, until a restart rebuilds it.       *)

\* Whatever the controller does, short of a restart, is a step of the simulator or
\* leaves it alone: it calls the simulator's public methods and touches nothing else.
LEMMA ControllerDrivesSimulator ==
  ASSUME IInv, Next, ~Restart
  PROVE  [SimP!Next]_(SimP!vars)
<1>1. CASE UNCHANGED simVars
  BY <1>1 DEF simVars, SimP!vars, SimP!schedVars, SimP!itemVars
<1>2. CASE Sim!DispatchReady
  <2>1. SimP!DispatchReady
    BY <1>2 DEF Sim!DispatchReady, SimP!DispatchReady, Sim!Sched!DispatchReady,
       SimP!Sched!DispatchReady, Sim!Sched!PreviewReady, SimP!Sched!PreviewReady,
       Sim!Sched!Ready, SimP!Sched!Ready, Sim!Sched!Barrier, SimP!Sched!Barrier,
       Sim!Barrier, SimP!Barrier, Sim!Workspace, SimP!Workspace
  <2> QED
    BY <2>1 DEF SimP!Next
<1>3. ASSUME NEW i \in Items, NEW o \in Observations, Sim!ObserveDelivery(i, o)
      PROVE  SimP!Next
  <2>1. SimP!ObserveDelivery(i, o)
    BY <1>3 DEF Sim!ObserveDelivery, SimP!ObserveDelivery, Sim!Approved, SimP!Approved,
       Sim!schedVars, SimP!schedVars
  <2> QED
    BY <2>1 DEF SimP!Next
<1>4. ASSUME NEW i \in Items, Sim!EvaluateGate(i)
      PROVE  SimP!Next
  <2>1. Sim!Decide(dispatches[i], observations[i]) = SimP!Decide(dispatches[i], observations[i])
    BY SameGate
  <2>2. SimP!EvaluateGate(i)
    BY <1>4, <2>1 DEF Sim!EvaluateGate, SimP!EvaluateGate, Sim!Sched!Release,
       SimP!Sched!Release, Sim!Sched!MarkWave, SimP!Sched!MarkWave, Sim!Sched!CurrentWave,
       SimP!Sched!CurrentWave, Sim!schedVars, SimP!schedVars
  <2> QED
    BY <2>2 DEF SimP!Next
<1>5. ASSUME NEW i \in Items, Sim!RetryItem(i)
      PROVE  SimP!Next
  <2>1. SimP!RetryItem(i)
    BY <1>5 DEF Sim!RetryItem, SimP!RetryItem, Sim!Sched!Retry, SimP!Sched!Retry,
       Sim!Sched!LeaveWave, SimP!Sched!LeaveWave, Sim!Sched!MarkWave, SimP!Sched!MarkWave,
       Sim!Sched!CurrentWave, SimP!Sched!CurrentWave, Sim!Sched!Barrier, SimP!Sched!Barrier,
       Sim!Forget, SimP!Forget
  <2> QED
    BY <2>1 DEF SimP!Next
<1>6. ASSUME NEW i \in Items, Sim!CancelFromWave(i)
      PROVE  SimP!Next
  <2>1. SimP!CancelFromWave(i)
    BY <1>6 DEF Sim!CancelFromWave, SimP!CancelFromWave, Sim!Sched!Cancel, SimP!Sched!Cancel,
       Sim!Sched!LeaveWave, SimP!Sched!LeaveWave, Sim!Sched!MarkWave, SimP!Sched!MarkWave,
       Sim!Sched!CurrentWave, SimP!Sched!CurrentWave, Sim!Sched!Barrier, SimP!Sched!Barrier,
       Sim!Forget, SimP!Forget
  <2> QED
    BY <2>1 DEF SimP!Next
<1>7. CASE Sim!RefreshTargetBase(tip)
  <2>1. tip \in Revisions
    BY DEF IInv, TypeOK
  <2>2. SimP!RefreshTargetBase(tip)
    BY <1>7 DEF Sim!RefreshTargetBase, SimP!RefreshTargetBase, Sim!Sched!RefreshTargetBase,
       SimP!Sched!RefreshTargetBase, Sim!CanRefreshTargetBase, SimP!CanRefreshTargetBase,
       Sim!Sched!WaveReleased, SimP!Sched!WaveReleased, Sim!Sched!Barrier, SimP!Sched!Barrier,
       Sim!Barrier, SimP!Barrier, Sim!Approved, SimP!Approved, Sim!itemVars, SimP!itemVars
  <2> QED
    BY <2>1, <2>2 DEF SimP!Next
<1> QED
  BY <1>1, <1>2, <1>3, <1>4, <1>5, <1>6, <1>7, SimulatorSteps

\* Until a crash, everything proved of the simulator holds inside the controller.
SimulatorInv == crashes = 0 => alive /\ SimP!IInv

LEMMA NextSimulator ==
  ASSUME IInv, Next, SimulatorInv
  PROVE  SimulatorInv'
<1> SUFFICES ASSUME crashes' = 0 PROVE alive' /\ SimP!IInv'
  BY DEF SimulatorInv
<1>1. crashes \in Nat
  BY ControllerAssumption DEF IInv
<1>2. ~Restart
  BY <1>1 DEF Restart
<1>3. crashes' = crashes /\ alive' = alive
  BY <1>2 DEF Next, Handler, DispatchReady, RefreshTargetBase, ReconcileMissing, Reconcile,
     Retry, CancelFromWave, RuntimeFails, Call, UpdateTracker, LogTicket, CreateWorkspace,
     StartRuntime, LogStarted, LogWave, EvaluateGate, LogWaveState, LogEnded, Pop, Refresh,
     LogBase, DispatchNextFrontier, RetryItem, Redispatch, Raise, Merge, counters
<1>4. alive /\ SimP!IInv
  BY <1>3 DEF SimulatorInv
<1>5. [SimP!Next]_(SimP!vars)
  BY <1>2, ControllerDrivesSimulator
<1>6. SimP!IInv'
  BY <1>4, <1>5, SimP!NextIInv, SimulatorConstants
<1> QED
  BY <1>3, <1>4, <1>6

LEMMA InitSimulator == Init => SimulatorInv
<1> SUFFICES ASSUME Init PROVE alive /\ SimP!IInv
  BY DEF SimulatorInv
<1>1. SimP!Init
  BY DEF Init, Sim!Init, SimP!Init, Sim!Sched!Init, SimP!Sched!Init
<1>2. SimP!IInv
  BY <1>1, SimP!InitIInv, SimulatorConstants
<1> QED
  BY <1>2 DEF Init

LEMMA StutterSimulator == SimulatorInv /\ IInv /\ UNCHANGED vars => SimulatorInv'
<1> SUFFICES ASSUME SimulatorInv, IInv, UNCHANGED vars, crashes' = 0
             PROVE  alive' /\ SimP!IInv'
  BY DEF SimulatorInv
<1>1. UNCHANGED <<crashes, alive, simVars>>
  BY DEF vars, memory, counters
<1>2. UNCHANGED SimP!vars
  BY <1>1 DEF simVars, SimP!vars, SimP!schedVars, SimP!itemVars
<1>3. SimP!IInv'
  BY <1>1, <1>2, SimP!NextIInv, SimulatorConstants DEF SimulatorInv
<1> QED
  BY <1>1, <1>3 DEF SimulatorInv

LEMMA SimulatorInvariance == Spec => []SimulatorInv
<1>1. IInv /\ SimulatorInv /\ [Next]_vars => SimulatorInv'
  BY NextSimulator, StutterSimulator
<1> QED
  BY <1>1, InitSimulator, Invariance, PTL DEF Spec

\* Under wave_barrier a refresh that reconcile goes on to, because the simulator's
\* wave is approved, is never refused by the scheduler, whose wave is another
\* variable, as long as no restart has restored them (controller.py reconcile,
\* scheduler.py refresh_target_base).
THEOREM RefreshIsNeverRefused == Spec => []RefreshNeverRefused
<1>1. ASSUME IInv, SimulatorInv, crashes = 0, Doing("refresh"), Barrier
      PROVE  Sim!Sched!WaveReleased
  <2>1. Sim!CanRefreshTargetBase
    BY <1>1, AtRefresh DEF IInv
  <2>2. simWave # {} /\ \A i \in simWave : Sim!Approved(i)
    BY <1>1, <2>1 DEF Sim!CanRefreshTargetBase, Sim!Barrier, Barrier
  <2>3. simWave = activeWave /\ \A i \in Items : Sim!Approved(i) => i \in released
    BY <1>1 DEF SimulatorInv, SimP!IInv, SimP!ApprovedIsReleased, SimP!Approved, SimP!Barrier,
       Sim!Approved, Barrier
  <2>4. simWave \subseteq Items
    BY <1>1, SimTypes DEF IInv, TypeOK
  <2> QED
    BY <2>2, <2>3, <2>4 DEF Sim!Sched!WaveReleased
<1>2. IInv /\ SimulatorInv => RefreshNeverRefused
  BY <1>1 DEF RefreshNeverRefused
<1> QED
  BY <1>2, Invariance, SimulatorInvariance, PTL

-----------------------------------------------------------------------------
(* What one step can change, short of a restart.                           *)

\* An item enters the dispatched set from the frontier, on the current base, and
\* keeps its dispatch while it is in it.
LEMMA DispatchedStep ==
  ASSUME IInv, Next, ~Restart
  PROVE  /\ \A j \in dispatched \cap dispatched' : dispatches'[j] = dispatches[j]
         /\ \A j \in dispatched' \ dispatched :
              /\ Sim!DispatchReady /\ (DispatchReady \/ DispatchNextFrontier \/ Redispatch)
              /\ j \in Ready /\ dispatches'[j].base = baseRevision
<1>1. Sim!TypeOK
  BY DEF IInv, TypeOK
<1>2. CASE UNCHANGED simVars
  BY <1>2 DEF simVars
<1>3. CASE Sim!DispatchReady /\ (DispatchReady \/ DispatchNextFrontier \/ Redispatch)
  <2>1. /\ dispatched' = dispatched \cup Ready
        /\ \A i \in Ready : dispatches'[i].base = baseRevision
        /\ \A i \in Items \ Ready : dispatches'[i] = dispatches[i]
    BY <1>1, <1>3, DispatchReadyFacts
  <2>2. dispatched \subseteq Items
    BY <1>1, SimTypes
  <2> QED
    BY <1>3, <2>1, <2>2, ReadyFacts
<1>4. ASSUME NEW i \in Items, NEW o \in Observations, Sim!ObserveDelivery(i, o)
      PROVE  UNCHANGED <<dispatched, dispatches>>
  BY <1>1, <1>4, ObserveDeliveryFacts
<1>5. ASSUME NEW i \in Items, EvaluateGate, i \in active, todo = <<<<"gate", i>>>>
      PROVE  UNCHANGED <<dispatched, dispatches>>
  BY <1>5, GateOutcome
<1>6. ASSUME NEW i \in Items, Sim!RetryItem(i) \/ Sim!CancelFromWave(i)
      PROVE  /\ dispatched' = dispatched \ {i}
             /\ \A j \in dispatched' : dispatches'[j] = dispatches[j]
  <2>1. dispatched' = dispatched \ {i} /\ Sim!Forget(i)
    BY <1>1, <1>6, RetryItemFacts, CancelFromWaveFacts
  <2>2. dispatched \subseteq Items
    BY <1>1, SimTypes
  <2> QED
    BY <1>1, <2>1, <2>2, ForgetFacts
<1>7. CASE Sim!RefreshTargetBase(tip)
  BY <1>1, <1>7, RefreshTargetBaseFacts DEF IInv, TypeOK
<1> QED
  BY <1>2, <1>3, <1>4, <1>5, <1>6, <1>7, SimulatorSteps

\* Items are released by the gate and by a cancellation.
LEMMA ReleasedStep ==
  ASSUME IInv, Next, ~Restart
  PROVE  /\ released \subseteq released' /\ policy' = policy
         /\ baseRevision' = baseRevision \/ baseRevision' = tip
         /\ \A i \in released' \ released :
              \/ EvaluateGate /\ i \in active /\ todo = <<<<"gate", i>>>>
              \/ CancelFromWave(i)
<1>1. Sim!TypeOK
  BY DEF IInv, TypeOK
<1>2. CASE UNCHANGED simVars
  BY <1>2 DEF simVars
<1>3. CASE Sim!DispatchReady
  BY <1>1, <1>3, DispatchReadyFacts
<1>4. ASSUME NEW i \in Items, NEW o \in Observations, Sim!ObserveDelivery(i, o)
      PROVE  UNCHANGED <<released, policy, baseRevision>>
  BY <1>1, <1>4, ObserveDeliveryFacts
<1>5. ASSUME NEW i \in Items, EvaluateGate, i \in active, todo = <<<<"gate", i>>>>
      PROVE  /\ UNCHANGED <<policy, baseRevision>>
             /\ released' = released \/ released' = released \cup {i}
  BY <1>5, GateOutcome
<1>6. ASSUME NEW i \in Items, Sim!RetryItem(i)
      PROVE  UNCHANGED <<released, policy, baseRevision>>
  BY <1>1, <1>6, RetryItemFacts
<1>7. ASSUME NEW i \in Items, CancelFromWave(i), Sim!CancelFromWave(i)
      PROVE  UNCHANGED <<policy, baseRevision>> /\ released' = released \cup {i}
  BY <1>1, <1>7, CancelFromWaveFacts
<1>8. CASE Sim!RefreshTargetBase(tip)
  BY <1>1, <1>8, RefreshTargetBaseFacts DEF IInv, TypeOK
<1> QED
  BY <1>2, <1>3, <1>4, <1>5, <1>6, <1>7, <1>8, SimulatorSteps

\* An item becomes active when its runtime is started, before it is released.
LEMMA ActiveStep ==
  ASSUME IInv, Next, ~Restart, NEW i \in active' \ active
  PROVE  i \notin released /\ released' = released
<1>1. StartRuntime
  BY DEF Next, Handler, DispatchReady, RefreshTargetBase, ReconcileMissing, Reconcile, Retry,
     CancelFromWave, RuntimeFails, Call, UpdateTracker, LogTicket, CreateWorkspace,
     LogStarted, LogWave, EvaluateGate, LogWaveState, LogEnded, Pop, Refresh, LogBase,
     DispatchNextFrontier, RetryItem, Redispatch, Raise, Merge, memory
<1>2. PICK j \in Items, R \in SUBSET Items :
        BeingLaunched(j) /\ todo = <<<<"start", j>>, <<"started", j>>, Rest(R)>>
  BY <1>1, AtStart DEF IInv, StartRuntime
<1>3. Head(todo)[2] = j
  BY <1>2
<1>4. active' = active \cup {j} /\ UNCHANGED simVars
  BY <1>1, <1>3 DEF StartRuntime, Item
<1> QED
  BY <1>2, <1>4 DEF BeingLaunched, simVars

\* Merges are never undone, and each is the newest revision when it happens.
LEMMA MergesStep ==
  ASSUME IInv, [Next]_vars
  PROVE  /\ tip <= tip'
         /\ \A w \in Workspaces : /\ mergedAt[w] > 0 => mergedAt'[w] = mergedAt[w]
                                  /\ mergedAt[w] <= tip => mergedAt'[w] <= tip'
<1>1. tip \in Nat /\ mergedAt \in [Workspaces -> Revisions]
  BY ControllerAssumption DEF IInv, TypeOK, Revisions
<1>2. ASSUME NEW w \in Workspaces, Merge(w)
      PROVE  /\ tip <= tip'
             /\ \A v \in Workspaces : /\ mergedAt[v] > 0 => mergedAt'[v] = mergedAt[v]
                                      /\ mergedAt[v] <= tip => mergedAt'[v] <= tip'
  <2>1. mergedAt[w] = 0 /\ tip' = tip + 1 /\ mergedAt' = [mergedAt EXCEPT ![w] = tip + 1]
    BY <1>2 DEF Merge
  <2>2. \A v \in Workspaces : mergedAt[v] \in Nat
    BY <1>1, ControllerAssumption DEF Revisions
  <2> QED
    BY <1>1, <2>1, <2>2
<1>3. CASE UNCHANGED worldVars
  BY <1>1, <1>3 DEF worldVars
<1>4. UNCHANGED worldVars \/ \E w \in Workspaces : Merge(w)
  BY DEF Next, Handler, DispatchReady, RefreshTargetBase, ReconcileMissing, Reconcile, Retry,
     CancelFromWave, RuntimeFails, Call, UpdateTracker, LogTicket, CreateWorkspace, StartRuntime,
     LogStarted, LogWave, EvaluateGate, LogWaveState, LogEnded, Pop, Refresh, LogBase,
     DispatchNextFrontier, RetryItem, Redispatch, Raise, Restart, vars
<1> QED
  BY <1>2, <1>3, <1>4

\* Under wave_barrier an item leaves the active wave when it is retried or cancelled,
\* and when the base is refreshed.
LEMMA WaveStep ==
  ASSUME IInv, Next, ~Restart, SimP!IInv, Barrier, NEW i \in activeWave \ activeWave'
  PROVE  baseRevision' = tip \/ (RetryItem /\ i \notin released) \/ CancelFromWave(i)
<1>1. Sim!TypeOK
  BY DEF IInv, TypeOK
<1>2. CASE UNCHANGED simVars
  BY <1>2 DEF simVars
<1>3. CASE Sim!DispatchReady
  <2>1. Ready # {}
    BY <1>1, <1>3, DispatchReadyFacts
  <2>2. barrierOpen
    BY <2>1 DEF Ready, Sim!Sched!PreviewReady, Sim!Sched!Barrier, Barrier
  <2>3. barrierOpen <=> activeWave = {}
    BY SimP!SchedulerFacts, SimulatorConstants DEF SimP!IInv, SimP!Barrier, Barrier
  <2> QED
    BY <2>2, <2>3
<1>4. ASSUME NEW j \in Items, NEW o \in Observations, Sim!ObserveDelivery(j, o)
      PROVE  UNCHANGED activeWave
  BY <1>1, <1>4, ObserveDeliveryFacts
<1>5. ASSUME NEW j \in Items, EvaluateGate, j \in active, todo = <<<<"gate", j>>>>
      PROVE  UNCHANGED activeWave
  BY <1>5, GateOutcome
<1>6. ASSUME NEW j \in Items, RetryItem, Sim!RetryItem(j)
      PROVE  RetryItem /\ i \notin released
  BY <1>6 DEF Sim!RetryItem, Sim!Sched!Retry, Sim!Sched!LeaveWave
<1>7. ASSUME NEW j \in Items, CancelFromWave(j), Sim!CancelFromWave(j)
      PROVE  CancelFromWave(i)
  <2>1. activeWave' = activeWave \ {j}
    BY <1>7 DEF Sim!CancelFromWave, Sim!Sched!Cancel, Sim!Sched!LeaveWave
  <2>2. i = j
    BY <2>1
  <2> QED
    BY <1>7, <2>2
<1>8. CASE Sim!RefreshTargetBase(tip)
  <2>1. tip \in Revisions
    BY DEF IInv, TypeOK
  <2>2. baseRevision' = tip
    BY <1>1, <1>8, <2>1, RefreshTargetBaseFacts
  <2> QED
    BY <2>2
<1> QED
  BY <1>2, <1>3, <1>4, <1>5, <1>6, <1>7, <1>8, SimulatorSteps

-----------------------------------------------------------------------------
(* Dependents and the merges they need, as long as nothing goes wrong.     *)

\* What is left to do says whether an item is being released.
LEMMA ReleaseProgram ==
  ASSUME Phase, NEW i \in Items,
         \/ todo = <<<<"waveState">>, <<"tracker", i, "Done">>, <<"ticket", i, "Done">>,
                     <<"ended", i>>, <<"pop", i>>>>
         \/ todo = <<<<"tracker", i, "Done">>, <<"ticket", i, "Done">>, <<"ended", i>>,
                     <<"pop", i>>>>
         \/ todo = <<<<"ticket", i, "Done">>, <<"ended", i>>, <<"pop", i>>>>
         \/ todo = <<<<"waveState">>, <<"pop", i>>>>
         \/ todo = <<<<"ended", i>>, <<"pop", i>>>>
         \/ todo = <<<<"pop", i>>>>
  PROVE  Finishing(i)
<1>1. ASSUME NEW R \in SUBSET Items, PhaseDispatch(R) PROVE FALSE
  BY <1>1, HeadOfPhase
<1>2. ASSUME NEW j \in Items, NEW R \in SUBSET Items, PhaseLaunch(j, R) PROVE FALSE
  BY <1>2 DEF PhaseLaunch
<1>3. ASSUME NEW j \in Items, NEW state \in {"NeedsAttention", "Cancelled"},
             PhasePublish(j, state)
      PROVE  FALSE
  BY <1>3 DEF PhasePublish
<1>4. ASSUME PhaseRefresh PROVE FALSE
  BY <1>4, HeadOfPhase
<1>5. ASSUME NEW j \in Items, PhaseObserve(j) PROVE FALSE
  BY <1>5 DEF PhaseObserve
<1>6. ASSUME NEW j \in Items, PhaseDecided(j) PROVE FALSE
  BY <1>6 DEF PhaseDecided
<1>7. ASSUME NEW j \in Items, PhaseRetry(j) PROVE FALSE
  BY <1>7 DEF PhaseRetry
<1>8. ASSUME NEW j \in Items, PhaseRelease(j) \/ PhaseReleased(j) PROVE Finishing(i)
  <2>1. j = i
    BY <1>8 DEF PhaseRelease, PhaseReleased
  <2> QED
    BY <1>8, <2>1 DEF Finishing
<1> QED
  BY <1>1, <1>2, <1>3, <1>4, <1>5, <1>6, <1>7, <1>8 DEF Phase

\* A program whose rest releases an item was releasing it already.
LEMMA TailFinishing ==
  ASSUME Phase, todo # <<>>, NEW i \in Items, Finishing(i)'
  PROVE  todo' = Tail(todo) => Finishing(i)
<1>1. \/ todo' = <<<<"waveState">>, <<"tracker", i, "Done">>, <<"ticket", i, "Done">>,
                   <<"ended", i>>, <<"pop", i>>>>
      \/ todo' = <<<<"tracker", i, "Done">>, <<"ticket", i, "Done">>, <<"ended", i>>,
                   <<"pop", i>>>>
      \/ todo' = <<<<"ticket", i, "Done">>, <<"ended", i>>, <<"pop", i>>>>
      \/ todo' = <<<<"waveState">>, <<"pop", i>>>>
      \/ todo' = <<<<"ended", i>>, <<"pop", i>>>>
      \/ todo' = <<<<"pop", i>>>>
  BY DEF Finishing, PhaseRelease, PhaseReleased
<1>2. ASSUME todo' = Tail(todo) PROVE Finishing(i)
  <2>1. \A p : todo = <<p>> => todo' = <<>>
    BY <1>2, Tails
  <2>2. \A p, q : todo = <<p, q>> => todo' = <<q>>
    BY <1>2, Tails
  <2>3. \A p, q, r : todo = <<p, q, r>> => todo' = <<q, r>>
    BY <1>2, Tails
  <2>4. \A p, q, r, s : todo = <<p, q, r, s>> => todo' = <<q, r, s>>
    BY <1>2, Tails
  <2>5. \A p, q, r, s, t : todo = <<p, q, r, s, t>> => todo' = <<q, r, s, t>>
    BY <1>2, Tails
  <2>6. todo' # <<>>
    BY <1>1
  <2>7. ASSUME NEW R \in SUBSET Items PROVE ~PhaseDispatch(R)
    BY <2>1, <2>6 DEF PhaseDispatch
  <2>8. ASSUME NEW j \in Items, NEW R \in SUBSET Items PROVE ~PhaseLaunch(j, R)
    <3>1. PICK rest : rest = Rest(R)
      OBVIOUS
    <3>2. rest[1] \in {"wave", "create"}
      BY <3>1 DEF Rest
    <3>3. todo # <<<<"tracker", j, "InProgress">>, <<"ticket", j, "InProgress">>,
                   <<"start", j>>, <<"started", j>>, rest>>
      BY <1>1, <2>5
    <3>4. todo # <<<<"ticket", j, "InProgress">>, <<"start", j>>, <<"started", j>>, rest>>
      BY <1>1, <2>4
    <3>5. todo # <<<<"start", j>>, <<"started", j>>, rest>>
      BY <1>1, <2>3
    <3>6. todo # <<<<"started", j>>, rest>>
      BY <1>1, <2>2, <3>2
    <3> QED
      BY <3>1, <3>3, <3>4, <3>5, <3>6 DEF PhaseLaunch
  <2>9. ASSUME NEW j \in Items, NEW state \in {"NeedsAttention", "Cancelled"}
        PROVE  ~PhasePublish(j, state)
    <3>1. todo # <<<<"tracker", j, state>>, <<"ticket", j, state>>>>
      BY <1>1, <2>2
    <3>2. todo # <<<<"ticket", j, state>>>>
      BY <2>1, <2>6
    <3> QED
      BY <3>1, <3>2 DEF PhasePublish
  <2>10. ~PhaseRefresh
    <3>1. todo # <<<<"base">>, <<"frontier">>>>
      BY <1>1, <2>2
    <3>2. \A p : todo # <<p>>
      BY <2>1, <2>6
    <3> QED
      BY <3>1, <3>2 DEF PhaseRefresh
  <2>11. ASSUME NEW j \in Items PROVE ~PhaseObserve(j)
    <3>1. todo # <<<<"tracker", j, "InReview">>, <<"ticket", j, "InReview">>, <<"gate", j>>>>
      BY <1>1, <2>3
    <3>2. todo # <<<<"ticket", j, "InReview">>, <<"gate", j>>>>
      BY <1>1, <2>2
    <3>3. todo # <<<<"gate", j>>>>
      BY <2>1, <2>6
    <3> QED
      BY <3>1, <3>2, <3>3 DEF PhaseObserve
  <2>12. ASSUME NEW j \in Items PROVE ~PhaseDecided(j)
    <3>1. todo # <<<<"waveState">>, <<"tracker", j, "NeedsAttention">>,
                   <<"ticket", j, "NeedsAttention">>>>
      BY <1>1, <2>3
    <3>2. todo # <<<<"waveState">>>>
      BY <2>1, <2>6
    <3> QED
      BY <3>1, <3>2 DEF PhaseDecided
  <2>13. ASSUME NEW j \in Items PROVE ~PhaseRetry(j)
    <3>1. todo # <<<<"ended", j>>, <<"retry", j>>, <<"redispatch", j>>>>
      BY <1>1, <2>3
    <3>2. todo # <<<<"retry", j>>, <<"redispatch", j>>>>
      BY <1>1, <2>2
    <3>3. todo # <<<<"redispatch", j>>>>
      BY <2>1, <2>6
    <3> QED
      BY <3>1, <3>2, <3>3 DEF PhaseRetry
  <2>14. ASSUME NEW j \in Items, PhaseRelease(j) \/ PhaseReleased(j) PROVE j = i
    <3>1. CASE todo = <<<<"waveState">>, <<"tracker", j, "Done">>, <<"ticket", j, "Done">>,
                        <<"ended", j>>, <<"pop", j>>>>
      BY <1>1, <2>5, <3>1
    <3>2. CASE todo = <<<<"tracker", j, "Done">>, <<"ticket", j, "Done">>, <<"ended", j>>,
                        <<"pop", j>>>>
      BY <1>1, <2>4, <3>2
    <3>3. CASE todo = <<<<"ticket", j, "Done">>, <<"ended", j>>, <<"pop", j>>>>
      BY <1>1, <2>3, <3>3
    <3>4. CASE todo = <<<<"waveState">>, <<"pop", j>>>>
      BY <1>1, <2>2, <3>4
    <3>5. CASE todo = <<<<"ended", j>>, <<"pop", j>>>>
      BY <1>1, <2>2, <3>5
    <3>6. todo # <<<<"pop", j>>>>
      BY <2>1, <2>6
    <3> QED
      BY <2>14, <3>1, <3>2, <3>3, <3>4, <3>5, <3>6 DEF PhaseRelease, PhaseReleased
  <2> QED
    BY <2>7, <2>8, <2>9, <2>10, <2>11, <2>12, <2>13, <2>14 DEF Phase, Finishing
<1> QED
  BY <1>2

\* Releasing an item begins at the gate.
LEMMA FinishingFrom ==
  ASSUME IInv, Next, ~Restart, NEW i \in Items, Finishing(i)'
  PROVE  Finishing(i) \/ (EvaluateGate /\ i \in active /\ todo = <<<<"gate", i>>>>)
<1>1. \/ todo' = <<<<"waveState">>, <<"tracker", i, "Done">>, <<"ticket", i, "Done">>,
                   <<"ended", i>>, <<"pop", i>>>>
      \/ todo' = <<<<"tracker", i, "Done">>, <<"ticket", i, "Done">>, <<"ended", i>>,
                   <<"pop", i>>>>
      \/ todo' = <<<<"ticket", i, "Done">>, <<"ended", i>>, <<"pop", i>>>>
      \/ todo' = <<<<"waveState">>, <<"pop", i>>>>
      \/ todo' = <<<<"ended", i>>, <<"pop", i>>>>
      \/ todo' = <<<<"pop", i>>>>
  BY DEF Finishing, PhaseRelease, PhaseReleased
<1>2. \A R : todo' # <<Rest(R)>>
  <2> SUFFICES ASSUME NEW R, todo' = <<Rest(R)>> PROVE FALSE
    OBVIOUS
  <2>1. PICK rest : rest = Rest(R)
    OBVIOUS
  <2>2. rest[1] \in {"wave", "create"}
    BY <2>1 DEF Rest
  <2> QED
    BY <1>1, <2>1, <2>2
<1>3. \A R : todo' # Launching(R)
  BY <1>2, LaunchProgram
<1>4. ~Handler
  <2>1. ~DispatchReady
    <3>1. CASE Ready # {}
      BY <1>3, <3>1 DEF DispatchReady
    <3>2. CASE Ready = {}
      BY <1>1, <3>2 DEF DispatchReady
    <3> QED
      BY <3>1, <3>2
  <2>2. ~RefreshTargetBase
    BY <1>1 DEF RefreshTargetBase
  <2>3. ASSUME NEW j \in Items
        PROVE  ~ReconcileMissing(j) /\ ~CancelFromWave(j) /\ ~RuntimeFails(j)
    <3>1. \A state \in {"NeedsAttention", "Cancelled"} :
            todo' # <<<<"tracker", j, state>>, <<"ticket", j, state>>>>
      BY <1>1
    <3> QED
      BY <3>1 DEF ReconcileMissing, CancelFromWave, RuntimeFails, Publish
  <2>4. ASSUME NEW j \in Items PROVE ~Retry(j)
    BY <1>1 DEF Retry
  <2>5. ASSUME NEW j \in Items, Reconcile(j) PROVE FALSE
    <3>1. \/ todo' = Publish(j, "InReview") \o <<<<"gate", j>>>>
          \/ todo' = <<>> \o <<<<"gate", j>>>>
      BY <2>5 DEF Reconcile
    <3>2. \/ todo' = <<<<"tracker", j, "InReview">>, <<"ticket", j, "InReview">>, <<"gate", j>>>>
          \/ todo' = <<<<"gate", j>>>>
      <4>1. CASE todo' = Publish(j, "InReview") \o <<<<"gate", j>>>>
        BY <4>1, Joins DEF Publish
      <4>2. CASE todo' = <<>> \o <<<<"gate", j>>>>
        BY <4>2
      <4> QED
        BY <3>1, <4>1, <4>2
    <3> QED
      BY <1>1, <3>2
  <2> QED
    BY <2>1, <2>2, <2>3, <2>4, <2>5 DEF Handler
<1>5. ASSUME todo # <<>>, todo' = Tail(todo) PROVE Finishing(i)
  BY <1>5, TailFinishing DEF IInv
<1>6. CASE Call
  <2>1. CASE UpdateTracker \/ LogTicket \/ StartRuntime \/ LogStarted \/ LogWave \/ LogWaveState
               \/ LogEnded \/ LogBase
    <3>1. todo # <<>> /\ todo' = Tail(todo)
      BY <2>1 DEF UpdateTracker, LogTicket, StartRuntime, LogStarted, LogWave, LogWaveState,
         LogEnded, LogBase, Done, Doing
    <3> QED
      BY <1>5, <3>1
  <2>2. CASE CreateWorkspace
    <3>1. PICK j, R : todo' = <<>> \/ todo' = Launch(j, R)
      BY <2>2 DEF CreateWorkspace
    <3>2. CASE todo' = <<>>
      BY <1>1, <3>2
    <3>3. CASE todo' = Launch(j, R)
      <4>1. PICK rest : rest = Rest(R)
        OBVIOUS
      <4>2. todo' = <<<<"tracker", j, "InProgress">>, <<"ticket", j, "InProgress">>,
                      <<"start", j>>, <<"started", j>>, rest>>
        BY <3>3, <4>1, LaunchProgram
      <4> QED
        BY <1>1, <4>2
    <3> QED
      BY <3>1, <3>2, <3>3
  <2>3. CASE EvaluateGate
    <3>1. PICK j \in Items : j \in active /\ todo = <<<<"gate", j>>>>
      BY <2>3, AtGate DEF IInv, EvaluateGate
    <3>2. Finishing(j)' \/ PhaseDecided(j)'
      BY <2>3, <3>1, GateOutcome
    <3>3. \/ todo' = <<<<"waveState">>, <<"tracker", j, "Done">>, <<"ticket", j, "Done">>,
                       <<"ended", j>>, <<"pop", j>>>>
          \/ todo' = <<<<"tracker", j, "Done">>, <<"ticket", j, "Done">>, <<"ended", j>>,
                       <<"pop", j>>>>
          \/ todo' = <<<<"ticket", j, "Done">>, <<"ended", j>>, <<"pop", j>>>>
          \/ todo' = <<<<"waveState">>, <<"pop", j>>>>
          \/ todo' = <<<<"ended", j>>, <<"pop", j>>>>
          \/ todo' = <<<<"pop", j>>>>
          \/ todo' = <<<<"waveState">>>>
          \/ todo' = <<<<"waveState">>, <<"tracker", j, "NeedsAttention">>,
                       <<"ticket", j, "NeedsAttention">>>>
      BY <3>2 DEF Finishing, PhaseRelease, PhaseReleased, PhaseDecided
    <3>4. j = i
      BY <1>1, <3>3
    <3> QED
      BY <2>3, <3>1, <3>4
  <2>4. CASE Pop
    <3>1. PICK j \in Items : todo = <<<<"pop", j>>>>
      BY <2>4, AtPop DEF IInv, Pop
    <3>2. todo' = <<<<"refresh">>>> \o <<>> \/ todo' = <<>> \o <<>>
      BY <2>4, <3>1, Tails DEF Pop
    <3>3. todo' = <<<<"refresh">>>> \/ todo' = <<>>
      BY <3>2
    <3> QED
      BY <1>1, <3>3
  <2>5. CASE Refresh
    <3>1. todo = <<<<"refresh">>>>
      BY <2>5, AtRefresh DEF IInv, Refresh
    <3>2. todo' = <<<<"base">>, <<"frontier">>>>
      BY <2>5, <3>1, Tails DEF Refresh
    <3> QED
      BY <1>1, <3>2
  <2>6. CASE DispatchNextFrontier
    <3>1. todo = <<<<"frontier">>>>
      BY <2>6, AtFrontier DEF IInv, DispatchNextFrontier
    <3>2. todo' = Tail(todo) \/ todo' = Launching(Ready)
      BY <2>6 DEF DispatchNextFrontier, Done
    <3> QED
      BY <1>3, <1>5, <3>1, <3>2
  <2>7. CASE RetryItem
    <3>1. todo # <<>> /\ (todo' = Tail(todo) \/ todo' = <<>>)
      BY <2>7 DEF RetryItem, Done, Doing
    <3> QED
      BY <1>1, <1>5, <3>1
  <2>8. CASE Redispatch
    <3>1. todo' = Launching({Item}) \/ todo' = <<<<"wave">>>> \/ todo' = <<>>
      BY <2>8 DEF Redispatch
    <3> QED
      BY <1>1, <1>3, <3>1
  <2> QED
    BY <1>6, <2>1, <2>2, <2>3, <2>4, <2>5, <2>6, <2>7, <2>8 DEF Call
<1>7. CASE Raise
  BY <1>1, <1>7 DEF Raise
<1>8. ASSUME NEW w \in Workspaces, Merge(w) PROVE Finishing(i)
  <2>1. UNCHANGED <<todo, active, dispatches, log>>
    BY <1>8 DEF Merge, memory, simVars
  <2> QED
    BY <1>1, <2>1, ReleaseProgram DEF IInv
<1> QED
  BY <1>4, <1>6, <1>7, <1>8 DEF Next

\* The event log says that an item is Done.
Delivered(i) == <<i, "Done">> \in log.keys

\* It says so from the ticket event of the handler that releases the item.
LEMMA DeliveredStep ==
  ASSUME IInv, Next, ~Restart, NEW i \in Items, ~Delivered(i), Delivered(i)'
  PROVE  PhaseRelease(i) /\ PhaseReleased(i)'
<1>1. LogTicket /\ <<i, "Done">> = <<Head(todo)[2], Head(todo)[3]>>
  BY KeysStep DEF Delivered
<1>2. Doing("ticket") /\ Phase
  BY <1>1 DEF LogTicket, IInv
<1>3. PICK j \in Items :
        \/ \E R \in SUBSET Items : PhaseLaunch(j, R)
        \/ \E state \in {"NeedsAttention", "Cancelled"} : PhasePublish(j, state)
        \/ PhaseObserve(j) \/ PhaseRelease(j)
  BY <1>2, HeadOfPhase DEF Phase, Doing
<1>4. Head(todo)[1] = "ticket" /\ Head(todo)[2] = i /\ Head(todo)[3] = "Done"
  BY <1>1, <1>2 DEF Doing
<1>5. \A R \in SUBSET Items : ~PhaseLaunch(j, R)
  BY <1>4 DEF PhaseLaunch
<1>6. \A state \in {"NeedsAttention", "Cancelled"} : ~PhasePublish(j, state)
  BY <1>4 DEF PhasePublish
<1>7. ~PhaseObserve(j)
  BY <1>4 DEF PhaseObserve
<1>8. PhaseRelease(j)
  BY <1>3, <1>5, <1>6, <1>7
<1>9. j = i
  BY <1>4, <1>8 DEF PhaseRelease
<1>10. todo = <<<<"ticket", i, "Done">>, <<"ended", i>>, <<"pop", i>>>>
  BY <1>4, <1>8, <1>9 DEF PhaseRelease
<1>11. todo' = <<<<"ended", i>>, <<"pop", i>>>>
  BY <1>1, <1>10, Tails DEF LogTicket, Done
<1>12. active' = active
  BY <1>1 DEF LogTicket
<1>13. PhaseReleased(i)'
  BY <1>8, <1>9, <1>11, <1>12 DEF PhaseRelease, PhaseReleased, Delivered
<1> QED
  BY <1>8, <1>9, <1>13

\* A revision that contains the merge of one of an item's attempts.
ContainsWork(i, revision) == \E n \in 1..MaxAttempts : mergedAt[<<i, n>>] \in 1..revision

\* Done in the event log, and not cancelled by another attempt since.
StaysDelivered(i) == Delivered(i) /\ <<i, "Cancelled">> \notin log.keys

\* No merge is newer than the target branch, and what was completed before is not
\* worked on.
MergesAreKnown ==
  /\ \A w \in Workspaces : mergedAt[w] <= tip
  /\ Completed \subseteq released /\ Completed \cap dispatched = {}

\* A delivered item was released, and the target branch contains it.
DeliveredIsMerged == \A i \in Items : Delivered(i) => i \in released /\ ContainsWork(i, tip)

\* A released item keeps its assignment only until the handler of its approval ends,
\* and the wave it is part of stays closed until then.
ReleasedIsFinishing ==
  \A i \in Items :
    /\ Finishing(i) => i \in released /\ (Barrier => i \in activeWave)
    /\ i \in active /\ i \in released => Finishing(i)

\* The base is refreshed before anything can be dispatched after a delivery.
DeliveredIsInBase ==
  \A i \in Items : StaysDelivered(i) =>
    \/ ContainsWork(i, baseRevision)
    \/ PhaseReleased(i) \/ todo = <<<<"refresh">>>>
    \/ Barrier /\ i \in activeWave

\* Whatever is dispatched started on what it is blocked by.
DispatchedOnMergedWork ==
  \A j \in dispatched : \A i \in BlockedBy[j] :
    StaysDelivered(i) => ContainsWork(i, dispatches[j].base)

MergedFacts ==
  MergesAreKnown /\ DeliveredIsMerged /\ ReleasedIsFinishing /\ DeliveredIsInBase
    /\ DispatchedOnMergedWork

MergedInv == crashes = 0 /\ failures = 0 => MergedFacts

\* A merge that is contained in a revision stays contained in it.
LEMMA WorkIsKept ==
  ASSUME IInv, Next, NEW i \in Items, NEW revision \in Nat, ContainsWork(i, revision)
  PROVE  ContainsWork(i, revision)'
<1>1. PICK n \in 1..MaxAttempts : mergedAt[<<i, n>>] \in 1..revision
  BY DEF ContainsWork
<1>2. <<i, n>> \in Workspaces /\ mergedAt[<<i, n>>] > 0
  BY <1>1 DEF Workspaces
<1>3. mergedAt'[<<i, n>>] = mergedAt[<<i, n>>]
  BY <1>2, MergesStep
<1> QED
  BY <1>1, <1>3 DEF ContainsWork

\* An item is on no way out of reconcile while a handler may begin.
LEMMA IdleFinishesNothing ==
  ASSUME Idle, NEW i
  PROVE  ~Finishing(i)
BY DEF Idle, Finishing, PhaseRelease, PhaseReleased

LEMMA MergesAreKnownNext ==
  ASSUME IInv, Next, ~Restart, MergesAreKnown
  PROVE  MergesAreKnown'
<1>1. \A w \in Workspaces : mergedAt'[w] <= tip'
  BY MergesStep DEF MergesAreKnown
<1>2. Completed \subseteq released'
  BY ReleasedStep DEF MergesAreKnown
<1>3. \A j \in dispatched' : j \in dispatched \/ j \in Ready
  BY DispatchedStep
<1>4. Completed \cap dispatched' = {}
  BY <1>3, ReadyFacts DEF MergesAreKnown
<1> QED
  BY <1>1, <1>2, <1>4 DEF MergesAreKnown, Workspaces

LEMMA DeliveredIsMergedNext ==
  ASSUME IInv, Next, ~Restart, MergesAreKnown, DeliveredIsMerged, ReleasedIsFinishing
  PROVE  DeliveredIsMerged'
<1> SUFFICES ASSUME NEW i \in Items, Delivered(i)'
             PROVE  i \in released' /\ ContainsWork(i, tip)'
  BY DEF DeliveredIsMerged
<1>1. released \subseteq released' /\ tip <= tip' /\ tip \in Nat /\ tip' \in Nat
  <2>1. tip \in Nat
    BY ControllerAssumption DEF IInv, TypeOK, Revisions
  <2>2. tip' \in Nat
    BY NextIInv, ControllerAssumption DEF IInv, TypeOK, Revisions
  <2> QED
    BY <2>1, <2>2, ReleasedStep, MergesStep
<1>2. i \in released /\ ContainsWork(i, tip)
  <2>1. CASE Delivered(i)
    BY <2>1 DEF DeliveredIsMerged
  <2>2. CASE ~Delivered(i)
    <3>1. PhaseRelease(i)
      BY <2>2, DeliveredStep
    <3>2. i \in active /\ mergedAt[dispatches[i].workspace] > 0
      BY <3>1 DEF PhaseRelease
    <3>3. dispatches[i] \in Sim!Dispatch /\ dispatches[i].workspace[1] = i
      BY <3>2, SimTypes DEF IInv, TypeOK, ItemFacts
    <3>4. PICK n \in 1..MaxAttempts : dispatches[i].workspace = <<i, n>>
      BY <3>3 DEF Sim!Dispatch
    <3>5. <<i, n>> \in Workspaces
      BY DEF Workspaces
    <3>6. mergedAt[<<i, n>>] \in Nat /\ mergedAt[<<i, n>>] > 0 /\ mergedAt[<<i, n>>] <= tip
      BY <3>2, <3>4, <3>5, ControllerAssumption DEF MergesAreKnown, IInv, TypeOK, Revisions
    <3>7. ContainsWork(i, tip)
      BY <1>1, <3>6 DEF ContainsWork
    <3> QED
      BY <3>1, <3>7 DEF ReleasedIsFinishing, Finishing
  <2> QED
    BY <2>1, <2>2
<1>3. PICK n \in 1..MaxAttempts : mergedAt[<<i, n>>] \in 1..tip
  BY <1>2 DEF ContainsWork
<1>4. mergedAt'[<<i, n>>] = mergedAt[<<i, n>>]
  BY <1>3, MergesStep DEF Workspaces
<1> QED
  BY <1>1, <1>2, <1>3, <1>4 DEF ContainsWork

LEMMA ReleasedIsFinishingNext ==
  ASSUME IInv, Next, ~Raise, ~Restart, SimP!IInv, ReleasedIsFinishing
  PROVE  ReleasedIsFinishing'
<1>1. policy' = policy
  BY ReleasedStep
<1>2. ASSUME NEW i \in Items, Finishing(i)'
      PROVE  i \in released' /\ (Barrier => i \in activeWave')
  <2>1. CASE Finishing(i)
    <3>1. i \in released /\ (Barrier => i \in activeWave)
      BY <2>1 DEF ReleasedIsFinishing
    <3>2. UNCHANGED simVars
      BY <2>1, FinishingSteps
    <3> QED
      BY <3>1, <3>2 DEF simVars
  <2>2. CASE EvaluateGate /\ i \in active /\ todo = <<<<"gate", i>>>>
    <3>1. ~Finishing(i)
      BY <2>2, HeadOfPhase DEF Finishing
    <3>2. i \notin released
      BY <2>2, <3>1 DEF ReleasedIsFinishing
    <3>3. i \in dispatched
      BY <2>2 DEF IInv, ItemFacts
    <3>4. Barrier => i \in activeWave
      BY <3>2, <3>3, SimP!SchedulerFacts, SimulatorConstants
         DEF SimP!IInv, SimP!Barrier, SimP!InFlight, Barrier
    <3>5. ~Sim!Approved(i)
      BY <3>2 DEF SimP!IInv, SimP!ApprovedIsReleased, SimP!Approved, Sim!Approved
    <3>6. ASSUME ~Sim!Approved(i)' PROVE FALSE
      <4>1. PhaseDecided(i)'
        BY <2>2, <3>6, GateOutcome
      <4> QED
        BY <1>2, <4>1 DEF PhaseDecided, Finishing, PhaseRelease, PhaseReleased
    <3>7. i \in released' /\ activeWave' = activeWave
      BY <2>2, <3>5, <3>6, GateOutcome
    <3> QED
      BY <3>4, <3>7
  <2> QED
    BY <1>2, <2>1, <2>2, FinishingFrom
<1>3. ASSUME NEW i \in Items, i \in active', i \in released'
      PROVE  Finishing(i)'
  <2>1. i \in active
    BY <1>3, ActiveStep
  <2>2. CASE i \in released
    <3>1. Finishing(i)
      BY <2>1, <2>2 DEF ReleasedIsFinishing
    <3>2. ASSUME Pop, todo = <<<<"pop", i>>>> PROVE FALSE
      <4>1. Head(todo)[2] = i
        BY <3>2
      <4>2. active' = active \ {i}
        BY <3>2, <4>1 DEF Pop, Item
      <4> QED
        BY <1>3, <4>2
    <3> QED
      BY <3>1, <3>2, FinishingSteps DEF Finishing
  <2>3. CASE i \notin released
    <3>1. ~CancelFromWave(i)
      BY <1>3 DEF CancelFromWave
    <3>2. EvaluateGate /\ todo = <<<<"gate", i>>>>
      BY <1>3, <2>3, <3>1, ReleasedStep
    <3>3. ASSUME ~Sim!Approved(i)' PROVE FALSE
      BY <1>3, <2>1, <2>3, <3>2, <3>3, GateOutcome
    <3> QED
      BY <2>1, <3>2, <3>3, GateOutcome
  <2> QED
    BY <2>2, <2>3
<1> QED
  BY <1>1, <1>2, <1>3 DEF ReleasedIsFinishing, Barrier

\* Nothing is dispatched while a wave is active.
LEMMA DispatchOpensWave ==
  ASSUME IInv, SimP!IInv, Sim!DispatchReady, Barrier
  PROVE  activeWave = {}
<1>1. Sim!TypeOK
  BY DEF IInv, TypeOK
<1>2. Ready # {}
  BY <1>1, DispatchReadyFacts
<1>3. barrierOpen
  BY <1>2 DEF Ready, Sim!Sched!PreviewReady, Sim!Sched!Barrier, Barrier
<1>4. barrierOpen <=> activeWave = {}
  BY SimP!SchedulerFacts, SimulatorConstants DEF SimP!IInv, SimP!Barrier, Barrier
<1> QED
  BY <1>3, <1>4

LEMMA DeliveredIsInBaseNext ==
  ASSUME IInv, Next, ~Raise, ~Restart, SimP!IInv, MergesAreKnown, DeliveredIsMerged,
         ReleasedIsFinishing, DeliveredIsInBase
  PROVE  DeliveredIsInBase'
<1> SUFFICES ASSUME NEW i \in Items, StaysDelivered(i)'
             PROVE  \/ ContainsWork(i, baseRevision)'
                    \/ PhaseReleased(i)' \/ (todo = <<<<"refresh">>>>)'
                    \/ (Barrier /\ i \in activeWave)'
  BY DEF DeliveredIsInBase
<1>1. Delivered(i)' /\ <<i, "Cancelled">> \notin log.keys
  BY KeysStep DEF StaysDelivered
<1>2. policy' = policy /\ (baseRevision' = baseRevision \/ baseRevision' = tip)
  BY ReleasedStep
<1>3. tip \in Nat /\ baseRevision \in Nat
  BY SimTypes, ControllerAssumption DEF IInv, TypeOK, Revisions
<1>4. CASE ~Delivered(i)
  BY <1>1, <1>4, DeliveredStep
<1>5. CASE Delivered(i)
  <2>1. i \in released /\ ContainsWork(i, tip)
    BY <1>5 DEF DeliveredIsMerged
  <2>2. ASSUME baseRevision' = tip PROVE ContainsWork(i, baseRevision)'
    <3>1. PICK r \in Nat : r = tip
      BY <1>3
    <3>2. ContainsWork(i, r)'
      BY <2>1, <3>1, WorkIsKept
    <3> QED
      BY <2>2, <3>1, <3>2 DEF ContainsWork
  <2>3. ASSUME ContainsWork(i, baseRevision), baseRevision' = baseRevision
        PROVE  ContainsWork(i, baseRevision)'
    <3>1. PICK r \in Nat : r = baseRevision
      BY <1>3
    <3>2. ContainsWork(i, r)'
      BY <2>3, <3>1, WorkIsKept
    <3> QED
      BY <2>3, <3>1, <3>2 DEF ContainsWork
  <2>4. CASE PhaseReleased(i)
    <3>1. CASE Pop /\ todo = <<<<"pop", i>>>>
      <4>1. todo' = <<<<"refresh">>>> \o <<>> \/ (todo' = <<>> \o <<>> /\ ~Sim!CanRefreshTargetBase)
        BY <3>1, Tails DEF Pop
      <4>2. CASE todo' = <<<<"refresh">>>> \o <<>>
        BY <4>2
      <4>3. CASE ~Sim!CanRefreshTargetBase
        <5>1. Barrier
          BY <4>3 DEF Sim!CanRefreshTargetBase, Sim!Barrier, Barrier
        <5>2. i \in activeWave
          BY <2>4, <5>1 DEF ReleasedIsFinishing, Finishing
        <5>3. activeWave' = activeWave
          BY <3>1 DEF Pop, simVars
        <5> QED
          BY <1>2, <5>1, <5>2, <5>3 DEF Barrier
      <4> QED
        BY <4>1, <4>2, <4>3
    <3>2. CASE ~(Pop /\ todo = <<<<"pop", i>>>>)
      <4>1. ~PhaseRelease(i)
        BY <2>4 DEF PhaseReleased, PhaseRelease
      <4> QED
        BY <2>4, <3>2, <4>1, FinishingSteps DEF Finishing
    <3> QED
      BY <3>1, <3>2
  <2>5. CASE todo = <<<<"refresh">>>>
    <3>1. CASE Call
      <4>1. Refresh
        BY <2>5, <3>1, CallAtHead
      <4>2. Sim!RefreshTargetBase(tip) /\ tip \in Revisions /\ Sim!TypeOK
        BY <4>1 DEF Refresh, IInv, TypeOK
      <4>3. baseRevision' = tip
        BY <4>2, RefreshTargetBaseFacts
      <4> QED
        BY <2>2, <4>3
    <3>2. CASE \E w \in Workspaces : Merge(w)
      BY <2>5, <3>2 DEF Merge
    <3> QED
      BY <2>5, <3>1, <3>2, NextCall
  <2>6. CASE Barrier /\ i \in activeWave
    <3>1. CASE i \in activeWave'
      BY <1>2, <2>6, <3>1 DEF Barrier
    <3>2. CASE i \notin activeWave'
      <4>1. ASSUME CancelFromWave(i) PROVE FALSE
        <5>1. i \in active /\ Idle
          BY <4>1 DEF CancelFromWave
        <5> QED
          BY <2>1, <5>1, IdleFinishesNothing DEF ReleasedIsFinishing
      <4>2. baseRevision' = tip
        BY <2>1, <2>6, <3>2, <4>1, WaveStep
      <4> QED
        BY <2>2, <4>2
    <3> QED
      BY <3>1, <3>2
  <2>7. ContainsWork(i, baseRevision) \/ PhaseReleased(i) \/ todo = <<<<"refresh">>>>
          \/ (Barrier /\ i \in activeWave)
    BY <1>1, <1>5 DEF DeliveredIsInBase, StaysDelivered
  <2>8. CASE ContainsWork(i, baseRevision)
    BY <1>2, <2>2, <2>3, <2>8
  <2> QED
    BY <2>4, <2>5, <2>6, <2>7, <2>8
<1> QED
  BY <1>4, <1>5

LEMMA DispatchedOnMergedWorkNext ==
  ASSUME IInv, Next, ~Restart, SimP!IInv, DurableFacts, MergesAreKnown, DeliveredIsInBase,
         DispatchedOnMergedWork
  PROVE  DispatchedOnMergedWork'
<1> SUFFICES ASSUME NEW j \in dispatched', NEW i \in BlockedBy[j], StaysDelivered(i)'
             PROVE  ContainsWork(i, dispatches[j].base)'
  BY DEF DispatchedOnMergedWork
<1>1. Delivered(i)' /\ <<i, "Cancelled">> \notin log'.keys /\ <<i, "Cancelled">> \notin log.keys
  BY KeysStep DEF StaysDelivered
<1>2. j \in Items /\ i \in Items
  <2>1. dispatched' \subseteq Items
    <3>1. Sim!TypeOK'
      BY NextIInv DEF IInv, TypeOK
    <3> QED
      BY <3>1 DEF Sim!TypeOK, Sim!Sched!TypeOK
  <2> QED
    BY <2>1, ControllerAssumption
<1>3. CASE j \in dispatched
  <2>1. dispatches'[j] = dispatches[j]
    BY <1>3, DispatchedStep
  <2>2. Delivered(i)
    <3> SUFFICES ASSUME ~Delivered(i) PROVE FALSE
      OBVIOUS
    <3>1. PhaseRelease(i)
      BY <1>1, <1>2, DeliveredStep
    <3>2. i \in dispatched
      BY <1>2, <3>1 DEF PhaseRelease, IInv, ItemFacts
    <3>3. i \notin Completed
      BY <3>2 DEF MergesAreKnown
    <3> QED
      BY <1>1, <1>3, <3>3 DEF DurableFacts, BlockersDurable, Durable, Delivered
  <2>3. ContainsWork(i, dispatches[j].base)
    BY <1>1, <1>3, <2>2 DEF DispatchedOnMergedWork, StaysDelivered
  <2>4. dispatches[j].base \in Nat
    <3>1. dispatches[j] \in Sim!Dispatch
      BY <1>2, <1>3, SimTypes DEF IInv, TypeOK, ItemFacts
    <3> QED
      BY <3>1, ControllerAssumption DEF Sim!Dispatch, Revisions
  <2>5. PICK r \in Nat : r = dispatches[j].base
    BY <2>4
  <2>6. ContainsWork(i, r)'
    BY <1>2, <2>3, <2>5, WorkIsKept
  <2> QED
    BY <2>1, <2>5, <2>6 DEF ContainsWork
<1>4. CASE j \notin dispatched
  <2>1. /\ Sim!DispatchReady /\ (DispatchReady \/ DispatchNextFrontier \/ Redispatch)
        /\ dispatches'[j].base = baseRevision
    BY <1>4, DispatchedStep
  <2>2. ~PhaseRelease(i) /\ ~PhaseReleased(i)
    BY <1>2, <2>1, NothingOnItsWay
  <2>3. Delivered(i)
    BY <1>1, <1>2, <2>2, DeliveredStep
  <2>4. todo # <<<<"refresh">>>>
    BY <2>1 DEF DispatchReady, DispatchNextFrontier, Redispatch, Idle, Doing
  <2>5. ~(Barrier /\ i \in activeWave)
    BY <2>1, DispatchOpensWave
  <2>6. ContainsWork(i, baseRevision)
    BY <1>1, <1>2, <2>2, <2>3, <2>4, <2>5 DEF DeliveredIsInBase, StaysDelivered
  <2>7. PICK r \in Nat : r = baseRevision
    BY SimTypes, ControllerAssumption DEF IInv, TypeOK, Revisions
  <2>8. ContainsWork(i, r)'
    BY <1>2, <2>6, <2>7, WorkIsKept
  <2> QED
    BY <2>1, <2>7, <2>8 DEF ContainsWork
<1> QED
  BY <1>3, <1>4

\* Counters only go up, so that what is zero after a step was zero before it.
LEMMA NothingWentWrong ==
  ASSUME IInv, Next
  PROVE  /\ crashes' = 0 => crashes = 0 /\ ~Restart
         /\ failures' = 0 => failures = 0 /\ ~Raise
<1>1. crashes \in Nat /\ failures \in Nat
  BY ControllerAssumption DEF IInv
<1>2. CASE Restart
  <2>1. crashes' = crashes + 1 /\ failures' = failures
    BY <1>2 DEF Restart
  <2>2. ~Raise
    BY <1>1, <2>1 DEF Raise
  <2> QED
    BY <1>1, <2>1, <2>2
<1>3. CASE Raise
  BY <1>1, <1>3 DEF Restart, Raise
<1>4. CASE ~Restart /\ ~Raise
  <2>1. UNCHANGED counters
    BY <1>4 DEF Next, Handler, DispatchReady, RefreshTargetBase, ReconcileMissing, Reconcile,
       Retry, CancelFromWave, RuntimeFails, Call, UpdateTracker, LogTicket, CreateWorkspace,
       StartRuntime, LogStarted, LogWave, EvaluateGate, LogWaveState, LogEnded, Pop, Refresh,
       LogBase, DispatchNextFrontier, RetryItem, Redispatch, Merge, counters
  <2> QED
    BY <1>4, <2>1 DEF counters
<1> QED
  BY <1>2, <1>3, <1>4

LEMMA NextMerged ==
  ASSUME IInv, Next, SimulatorInv, DurableInv, MergedInv
  PROVE  MergedInv'
<1> SUFFICES ASSUME crashes' = 0, failures' = 0 PROVE MergedFacts'
  BY DEF MergedInv
<1>1. crashes = 0 /\ failures = 0 /\ ~Raise /\ ~Restart
  BY NothingWentWrong
<1>2. SimP!IInv /\ DurableFacts /\ MergedFacts
  BY <1>1 DEF SimulatorInv, DurableInv, MergedInv
<1>3. MergesAreKnown'
  BY <1>1, <1>2, MergesAreKnownNext DEF MergedFacts
<1>4. DeliveredIsMerged'
  BY <1>1, <1>2, DeliveredIsMergedNext DEF MergedFacts
<1>5. ReleasedIsFinishing'
  BY <1>1, <1>2, ReleasedIsFinishingNext DEF MergedFacts
<1>6. DeliveredIsInBase'
  BY <1>1, <1>2, DeliveredIsInBaseNext DEF MergedFacts
<1>7. DispatchedOnMergedWork'
  BY <1>1, <1>2, DispatchedOnMergedWorkNext DEF MergedFacts
<1> QED
  BY <1>3, <1>4, <1>5, <1>6, <1>7 DEF MergedFacts

LEMMA InitMerged == Init => MergedInv
<1> SUFFICES ASSUME Init PROVE MergedFacts
  BY DEF MergedInv
<1>1. /\ dispatched = {} /\ released = Completed /\ active = {} /\ todo = <<>>
      /\ log.keys = {} /\ tip = 0 /\ mergedAt = [w \in Workspaces |-> 0]
  BY DEF Init, Sim!Init, Sim!Sched!Init
<1>2. \A i \in Items : ~Finishing(i)
  BY <1>1 DEF Finishing, PhaseRelease, PhaseReleased
<1>3. \A w \in Workspaces : mergedAt[w] <= tip
  BY <1>1
<1> QED
  BY <1>1, <1>2, <1>3 DEF MergedFacts, MergesAreKnown, DeliveredIsMerged, ReleasedIsFinishing,
     DeliveredIsInBase, DispatchedOnMergedWork, StaysDelivered, Delivered

LEMMA StutterMerged == MergedInv /\ UNCHANGED vars => MergedInv'
BY DEF MergedInv, MergedFacts, MergesAreKnown, DeliveredIsMerged, ReleasedIsFinishing,
       DeliveredIsInBase, DispatchedOnMergedWork, StaysDelivered, Delivered, ContainsWork,
       Finishing, PhaseRelease, PhaseReleased, Barrier, vars, memory, simVars, gitVars,
       worldVars, counters, Workspaces

\* As long as nothing crashes and no call raises, work on an item starts on a revision
\* that contains the merge of everything it is blocked by and that was delivered: the
\* base is refreshed after a release and before the dependents are dispatched, under
\* either policy (controller.py reconcile, refresh_target_base, _dispatch_next_frontier).
THEOREM DependentsStartOnMergedWork == Spec => []UninterruptedStartsOnMergedWork
<1>1. IInv /\ SimulatorInv /\ DurableInv /\ MergedInv /\ [Next]_vars => MergedInv'
  BY NextMerged, StutterMerged
<1>2. IInv /\ DurableInv /\ [Next]_vars => DurableInv'
  BY NextDurable, StutterDurable
<1>3. ASSUME IInv, MergedInv PROVE UninterruptedStartsOnMergedWork
  <2> SUFFICES ASSUME crashes = 0, failures = 0, NEW j \in active, NEW i \in BlockedBy[j],
                      StaysDelivered(i)
               PROVE  ContainsWork(i, dispatches[j].base)
    BY DEF UninterruptedStartsOnMergedWork, StartsOnMergedWork, StaysDelivered, Delivered,
           ContainsWork
  <2>1. j \in dispatched
    BY <1>3 DEF IInv, TypeOK, ItemFacts
  <2> QED
    BY <1>3, <2>1 DEF MergedInv, MergedFacts, DispatchedOnMergedWork
<1>4. IInv /\ MergedInv => UninterruptedStartsOnMergedWork
  BY <1>3
<1> QED
  BY <1>1, <1>2, <1>4, InitMerged, InitDurable, Invariance, SimulatorInvariance, PTL DEF Spec

-----------------------------------------------------------------------------
(* Nothing ready is left behind, as long as nothing is retried or cancelled. *)

Undisturbed ==
  crashes = 0 /\ failures = 0 /\ cancelled = {} /\ \A i \in Items : attemptNumber[i] = 1

\* The handler of an approval is under way, until it has dispatched the next frontier.
Advancing ==
  \/ \E i \in Items : Finishing(i)
  \/ todo \in {<<<<"refresh">>>>, <<<<"base">>, <<"frontier">>>>, <<<<"frontier">>>>}

\* Once there is a wave, what is ready is about to be dispatched; an approved wave is
\* about to be replaced.
FrontierFacts ==
  Advancing \/ ((waves # <<>> => Ready = {}) /\ (Barrier => ~Sim!CanRefreshTargetBase))

FrontierInv == Undisturbed => FrontierFacts

\* Neither a retry nor a cancellation is undone.
LEMMA DisturbancesStay ==
  ASSUME IInv, Next, Undisturbed'
  PROVE  /\ Undisturbed /\ ~Raise /\ ~Restart
         /\ \A i \in Items : ~Sim!RetryItem(i) /\ ~Sim!CancelFromWave(i)
<1>1. crashes = 0 /\ failures = 0 /\ ~Raise /\ ~Restart
  BY NothingWentWrong DEF Undisturbed
<1>2. Sim!TypeOK
  BY DEF IInv, TypeOK
<1>3. \A i \in Items : attemptNumber[i] \in Nat /\ attemptNumber[i] > 0
  BY <1>2, SimTypes, ControllerAssumption
<1>4. ASSUME NEW i \in Items, Sim!RetryItem(i) PROVE FALSE
  <2>1. attemptNumber'[i] = attemptNumber[i] + 1
    BY <1>2, <1>4, RetryItemFacts
  <2> QED
    BY <1>3, <2>1 DEF Undisturbed
<1>5. ASSUME NEW i \in Items, Sim!CancelFromWave(i) PROVE FALSE
  <2>1. cancelled' = cancelled \cup {i}
    BY <1>2, <1>5, CancelFromWaveFacts
  <2> QED
    BY <2>1 DEF Undisturbed
<1>6. UNCHANGED <<cancelled, attemptNumber>>
  <2>1. CASE UNCHANGED simVars
    BY <2>1 DEF simVars
  <2>2. CASE Sim!DispatchReady
    BY <1>2, <2>2, DispatchReadyFacts
  <2>3. ASSUME NEW i \in Items, NEW o \in Observations, Sim!ObserveDelivery(i, o)
        PROVE  UNCHANGED <<cancelled, attemptNumber>>
    BY <1>2, <2>3, ObserveDeliveryFacts
  <2>4. ASSUME NEW i \in Items, EvaluateGate, i \in active, todo = <<<<"gate", i>>>>
        PROVE  UNCHANGED <<cancelled, attemptNumber>>
    BY <2>4, GateOutcome
  <2>5. CASE Sim!RefreshTargetBase(tip)
    <3>1. tip \in Revisions
      BY DEF IInv, TypeOK
    <3> QED
      BY <1>2, <2>5, <3>1, RefreshTargetBaseFacts
  <2> QED
    BY <1>1, <1>4, <1>5, <2>1, <2>2, <2>3, <2>4, <2>5, SimulatorSteps
<1> QED
  BY <1>1, <1>4, <1>5, <1>6 DEF Undisturbed

\* What is ready depends on the scheduler alone.
LEMMA ReadyKept ==
  ASSUME UNCHANGED <<policy, dispatched, released, barrierOpen>>
  PROVE  Ready' = Ready
BY DEF Ready, Sim!Sched!PreviewReady, Sim!Sched!Ready, Sim!Sched!Barrier

\* A dispatch takes everything that is ready, and nothing of it is approved.
LEMMA FrontierDispatched ==
  ASSUME IInv, Sim!DispatchReady
  PROVE  Ready' = {} /\ (Barrier => ~Sim!CanRefreshTargetBase)'
<1>1. Sim!TypeOK
  BY DEF IInv, TypeOK
<1>2. /\ Ready # {}
      /\ dispatched' = dispatched \cup Ready
      /\ UNCHANGED <<policy, released, decisions>>
      /\ barrierOpen' = (barrierOpen /\ ~Barrier)
      /\ simWave' = IF Barrier THEN Ready ELSE simWave
  BY <1>1, DispatchReadyFacts
     DEF Sim!DispatchReady, Sim!Sched!DispatchReady, Sim!Sched!Barrier, Sim!Barrier, Ready,
         Barrier
<1>3. Ready' = {}
  <2>1. CASE Barrier
    BY <1>2, <2>1 DEF Ready, Sim!Sched!PreviewReady, Sim!Sched!Barrier, Barrier
  <2>2. CASE ~Barrier
    <3>1. Ready = Sim!Sched!Ready \ dispatched
      BY <2>2 DEF Ready, Sim!Sched!PreviewReady, Sim!Sched!Barrier, Barrier
    <3>2. Ready' = Sim!Sched!Ready' \ dispatched'
      BY <1>2, <2>2 DEF Ready, Sim!Sched!PreviewReady, Sim!Sched!Barrier, Barrier
    <3>3. Sim!Sched!Ready' = Sim!Sched!Ready
      BY <1>2 DEF Sim!Sched!Ready
    <3> QED
      BY <1>2, <3>1, <3>2, <3>3
  <2> QED
    BY <2>1, <2>2
<1>4. ASSUME Barrier' PROVE ~Sim!CanRefreshTargetBase'
  <2>1. simWave' = Ready
    BY <1>2, <1>4 DEF Barrier
  <2>2. PICK i \in Ready : i \in Items /\ i \notin dispatched
    BY <1>2, ReadyFacts
  <2>3. decisions'[i] = None
    BY <1>2, <2>2 DEF IInv, ItemFacts
  <2> QED
    BY <1>4, <2>1, <2>2, <2>3 DEF Sim!CanRefreshTargetBase, Sim!Barrier, Sim!Approved, Barrier
<1> QED
  BY <1>3, <1>4

\* Where nothing of the simulator changes, its frontier does not.
LEMMA FrontierKept ==
  ASSUME UNCHANGED simVars
  PROVE  /\ Ready' = Ready /\ waves' = waves /\ (Barrier <=> Barrier')
         /\ Sim!CanRefreshTargetBase' <=> Sim!CanRefreshTargetBase
<1>1. Ready' = Ready
  BY ReadyKept DEF simVars
<1> QED
  BY <1>1 DEF simVars, Barrier, Sim!CanRefreshTargetBase, Sim!Barrier, Sim!Approved

\* The handler of an approval goes on to the next frontier, or leaves a closed wave.
LEMMA AdvancingSteps ==
  ASSUME IInv, Next, ~Raise, ~Restart, SimP!IInv, ReleasedIsFinishing, Advancing,
         UNCHANGED simVars
  PROVE  FrontierFacts'
<1>1. ASSUME NEW i \in Items, Finishing(i)
      PROVE  FrontierFacts'
  <2>1. CASE Pop /\ todo = <<<<"pop", i>>>>
    <3>1. todo' = <<<<"refresh">>>> \o <<>> \/ (todo' = <<>> \o <<>> /\ ~Sim!CanRefreshTargetBase)
      BY <2>1, Tails DEF Pop
    <3>2. CASE todo' = <<<<"refresh">>>> \o <<>>
      <4>1. todo' = <<<<"refresh">>>>
        BY <3>2
      <4> QED
        BY <4>1 DEF FrontierFacts, Advancing
    <3>3. CASE ~Sim!CanRefreshTargetBase
      <4>1. Barrier
        BY <3>3 DEF Sim!CanRefreshTargetBase, Sim!Barrier, Barrier
      <4>2. i \in activeWave
        BY <1>1, <4>1 DEF ReleasedIsFinishing
      <4>3. barrierOpen <=> activeWave = {}
        BY <4>1, SimP!SchedulerFacts, SimulatorConstants DEF SimP!IInv, SimP!Barrier, Barrier
      <4>4. Ready = {}
        BY <4>1, <4>2, <4>3 DEF Ready, Sim!Sched!PreviewReady, Sim!Sched!Barrier, Barrier
      <4> QED
        BY <3>3, <4>4, FrontierKept DEF FrontierFacts
    <3> QED
      BY <3>1, <3>2, <3>3
  <2>2. CASE ~(Pop /\ todo = <<<<"pop", i>>>>)
    <3>1. Finishing(i)'
      BY <1>1, <2>2, FinishingSteps DEF Finishing
    <3> QED
      BY <3>1 DEF FrontierFacts, Advancing
  <2> QED
    BY <2>1, <2>2
<1>2. CASE todo = <<<<"refresh">>>>
  <2>1. CASE Call
    <3>1. Refresh
      BY <1>2, <2>1, CallAtHead
    <3>2. todo' = <<<<"base">>, <<"frontier">>>> \o <<>>
      BY <1>2, <3>1, Tails DEF Refresh
    <3>3. todo' = <<<<"base">>, <<"frontier">>>>
      BY <3>2
    <3> QED
      BY <3>3 DEF FrontierFacts, Advancing
  <2>2. CASE \E w \in Workspaces : Merge(w)
    BY <1>2, <2>2 DEF Merge, FrontierFacts, Advancing
  <2> QED
    BY <1>2, <2>1, <2>2, NextCall
<1>3. CASE todo = <<<<"base">>, <<"frontier">>>>
  <2>1. CASE Call
    <3>1. LogBase
      BY <1>3, <2>1, CallAtHead
    <3>2. todo' = <<<<"frontier">>>>
      BY <1>3, <3>1, Tails DEF LogBase, Done
    <3> QED
      BY <3>2 DEF FrontierFacts, Advancing
  <2>2. CASE \E w \in Workspaces : Merge(w)
    BY <1>3, <2>2 DEF Merge, FrontierFacts, Advancing
  <2> QED
    BY <1>3, <2>1, <2>2, NextCall
<1>4. CASE todo = <<<<"frontier">>>>
  <2>1. CASE Call
    <3>1. DispatchNextFrontier
      BY <1>4, <2>1, CallAtHead
    <3>2. Barrier => simWave = {}
      BY <3>1, AtFrontier DEF IInv, DispatchNextFrontier
    <3>3. Barrier => ~Sim!CanRefreshTargetBase
      BY <3>2 DEF Sim!CanRefreshTargetBase, Sim!Barrier, Barrier
    <3>4. CASE Ready = {}
      BY <3>3, <3>4, FrontierKept DEF FrontierFacts
    <3>5. CASE Ready # {}
      <4>1. Sim!DispatchReady
        BY <3>1, <3>5 DEF DispatchNextFrontier
      <4> QED
        BY <4>1, FrontierDispatched DEF FrontierFacts
    <3> QED
      BY <3>4, <3>5
  <2>2. CASE \E w \in Workspaces : Merge(w)
    BY <1>4, <2>2 DEF Merge, FrontierFacts, Advancing
  <2> QED
    BY <1>4, <2>1, <2>2, NextCall
<1> QED
  BY <1>1, <1>2, <1>3, <1>4 DEF Advancing

\* Between two handlers, and at the gate, no advance is under way.
LEMMA NothingAdvances ==
  ASSUME Idle \/ \E i \in Items : todo = <<<<"gate", i>>>>
  PROVE  ~Advancing
<1>1. todo = <<>> \/ (todo # <<>> /\ Head(todo)[1] = "gate")
  BY DEF Idle
<1>2. \A i \in Items : ~Finishing(i)
  BY <1>1, HeadOfPhase DEF Finishing, PhaseRelease, PhaseReleased
<1> QED
  BY <1>1, <1>2 DEF Advancing

LEMMA NextFrontier ==
  ASSUME IInv, Next, SimulatorInv, MergedInv, FrontierInv
  PROVE  FrontierInv'
<1> SUFFICES ASSUME Undisturbed' PROVE FrontierFacts'
  BY DEF FrontierInv
<1>1. /\ Undisturbed /\ ~Raise /\ ~Restart
      /\ \A i \in Items : ~Sim!RetryItem(i) /\ ~Sim!CancelFromWave(i)
  BY DisturbancesStay
<1>2. SimP!IInv /\ ReleasedIsFinishing /\ FrontierFacts
  BY <1>1 DEF SimulatorInv, MergedInv, MergedFacts, FrontierInv, Undisturbed
<1>3. Sim!TypeOK
  BY DEF IInv, TypeOK
<1>4. CASE UNCHANGED simVars
  <2>1. CASE Advancing
    BY <1>1, <1>2, <1>4, <2>1, AdvancingSteps
  <2>2. CASE ~Advancing
    BY <1>2, <1>4, <2>2, FrontierKept DEF FrontierFacts
  <2> QED
    BY <2>1, <2>2
<1>5. CASE Sim!DispatchReady
  BY <1>5, FrontierDispatched DEF FrontierFacts
<1>6. ASSUME NEW i \in Items, NEW o \in Observations, Reconcile(i), Sim!ObserveDelivery(i, o)
      PROVE  FrontierFacts'
  <2>1. /\ UNCHANGED <<policy, dispatched, released, barrierOpen, waves, simWave>>
        /\ decisions' = [decisions EXCEPT ![i] = IF Sim!Approved(i) THEN decisions[i] ELSE None]
    BY <1>3, <1>6, ObserveDeliveryFacts
  <2>2. ~Advancing
    BY <1>6, NothingAdvances DEF Reconcile
  <2>3. Ready' = Ready
    BY <2>1, ReadyKept
  <2>4. \A j \in Items : decisions'[j] = decisions[j] \/ decisions'[j] = None
    BY <1>3, <2>1, SimTypes
  <2>5. simWave \subseteq Items
    BY <1>3, SimTypes
  <2>6. (Barrier => ~Sim!CanRefreshTargetBase)'
    BY <1>2, <2>1, <2>2, <2>4, <2>5
       DEF FrontierFacts, Barrier, Sim!CanRefreshTargetBase, Sim!Barrier, Sim!Approved
  <2> QED
    BY <1>2, <2>1, <2>2, <2>3, <2>6 DEF FrontierFacts
<1>7. ASSUME NEW i \in Items, EvaluateGate, i \in active, todo = <<<<"gate", i>>>>
      PROVE  FrontierFacts'
  <2>1. CASE Sim!Approved(i)'
    <3>1. Finishing(i)'
      BY <1>7, <2>1, GateOutcome
    <3> QED
      BY <3>1 DEF FrontierFacts, Advancing
  <2>2. CASE ~Sim!Approved(i)'
    <3>1. released' = released
      BY <1>7, <2>2, GateOutcome
    <3>2. /\ UNCHANGED <<policy, dispatched, barrierOpen, simWave>>
          /\ Len(waves') = Len(waves)
          /\ \A j \in Items \ {i} : decisions'[j] = decisions[j]
      BY <1>7, GateOutcome
    <3>3. Sim!TypeOK'
      BY NextIInv DEF IInv, TypeOK
    <3>4. waves \in Seq(Sim!Sched!Wave) /\ waves' \in Seq(Sim!Sched!Wave)
      BY <1>3, <3>3, SimTypes DEF Sim!TypeOK, Sim!Sched!TypeOK
    <3>5. waves' # <<>> => waves # <<>>
      BY <3>2, <3>4, EmptySeq
    <3>6. ~Advancing
      BY <1>7, NothingAdvances
    <3>7. Ready' = Ready
      BY <3>1, <3>2, ReadyKept
    <3>8. simWave \subseteq Items
      BY <1>3, SimTypes
    <3>9. \A j \in Items : Sim!Approved(j)' => Sim!Approved(j)
      BY <2>2, <3>2 DEF Sim!Approved
    <3>10. (Barrier => ~Sim!CanRefreshTargetBase)'
      BY <1>2, <3>2, <3>6, <3>8, <3>9
         DEF FrontierFacts, Barrier, Sim!CanRefreshTargetBase, Sim!Barrier
    <3> QED
      BY <1>2, <3>5, <3>6, <3>7, <3>10 DEF FrontierFacts
  <2> QED
    BY <2>1, <2>2
<1>8. CASE Refresh
  <2>1. todo = <<<<"refresh">>>>
    BY <1>8, AtRefresh DEF IInv, Refresh
  <2>2. todo' = <<<<"base">>, <<"frontier">>>> \o <<>>
    BY <1>8, <2>1, Tails DEF Refresh
  <2>3. todo' = <<<<"base">>, <<"frontier">>>>
    BY <2>2
  <2> QED
    BY <2>3 DEF FrontierFacts, Advancing
<1>9. CASE RefreshTargetBase /\ Sim!RefreshTargetBase(tip)
  <2>1. ~Advancing
    BY <1>9, NothingAdvances DEF RefreshTargetBase
  <2>2. ~Barrier
    BY <1>2, <1>9, <2>1 DEF FrontierFacts, Sim!RefreshTargetBase
  <2>3. /\ UNCHANGED <<policy, dispatched, released, waves>>
        /\ barrierOpen' = (barrierOpen \/ Barrier)
    BY <1>9 DEF Sim!RefreshTargetBase, Sim!Sched!RefreshTargetBase, Sim!Sched!Barrier, Barrier
  <2>4. barrierOpen' = barrierOpen
    <3>1. barrierOpen \in BOOLEAN
      BY <1>3, SimTypes
    <3> QED
      BY <2>2, <2>3, <3>1
  <2>5. Ready' = Ready
    BY <2>3, <2>4, ReadyKept
  <2>6. ~Barrier'
    BY <2>2, <2>3 DEF Barrier
  <2> QED
    BY <1>2, <2>1, <2>3, <2>5, <2>6 DEF FrontierFacts
<1> QED
  BY <1>1, <1>4, <1>5, <1>6, <1>7, <1>8, <1>9, SimulatorSteps

LEMMA InitFrontier == Init => FrontierInv
<1> SUFFICES ASSUME Init PROVE FrontierFacts
  BY DEF FrontierInv
<1>1. waves = <<>> /\ simWave = {}
  BY DEF Init, Sim!Init, Sim!Sched!Init
<1> QED
  BY <1>1 DEF FrontierFacts, Sim!CanRefreshTargetBase, Sim!Barrier, Barrier

LEMMA StutterFrontier == FrontierInv /\ UNCHANGED vars => FrontierInv'
<1> SUFFICES ASSUME FrontierInv, UNCHANGED vars PROVE FrontierInv'
  OBVIOUS
<1>1. UNCHANGED <<simVars, active, todo, log, mergedAt, crashes, failures>>
  BY DEF vars, memory, worldVars, counters
<1>2. Undisturbed' <=> Undisturbed
  BY <1>1 DEF Undisturbed, simVars
<1>3. Advancing' <=> Advancing
  BY <1>1 DEF Advancing, Finishing, PhaseRelease, PhaseReleased, simVars
<1> QED
  BY <1>1, <1>2, <1>3, FrontierKept DEF FrontierInv, FrontierFacts

\* Once a first wave was dispatched and as long as nothing went wrong, reconcile itself
\* dispatches whatever a release made ready: between two handlers nothing is ready, for
\* any dependency graph and under either policy (controller.py reconcile,
\* _dispatch_next_frontier).
THEOREM ReleasesDispatchTheNext == Spec => []NoReadyItemLeftBehind
<1>1. IInv /\ DurableInv /\ [Next]_vars => DurableInv'
  BY NextDurable, StutterDurable
<1>2. IInv /\ SimulatorInv /\ DurableInv /\ MergedInv /\ [Next]_vars => MergedInv'
  BY NextMerged, StutterMerged
<1>3. IInv /\ SimulatorInv /\ MergedInv /\ FrontierInv /\ [Next]_vars => FrontierInv'
  BY NextFrontier, StutterFrontier
<1>4. FrontierInv => NoReadyItemLeftBehind
  BY NothingAdvances DEF FrontierInv, FrontierFacts, Undisturbed, NoReadyItemLeftBehind
<1> QED
  BY <1>1, <1>2, <1>3, <1>4, InitDurable, InitMerged, InitFrontier, Invariance,
     SimulatorInvariance, PTL DEF Spec

-----------------------------------------------------------------------------
(* What the controller makes of the simulator it drives.                  *)

\* Until the process dies, the simulator inside the controller behaves as the one of
\* module MergeWaveSimulator and so implements GatedDelivery, whatever the handlers,
\* the failing calls and the merges do around it (controller.py, every use of the
\* simulator).
THEOREM ControllerImplementsGatedDelivery ==
  Spec /\ [](crashes = 0) => SimP!ImplementsGatedDelivery
<1>1. ASSUME IInv, crashes = 0, crashes' = 0, [Next]_vars
      PROVE  [SimP!Next]_(SimP!vars)
  <2>1. CASE Next
    BY <1>1, <2>1, NothingWentWrong, ControllerDrivesSimulator
  <2>2. CASE UNCHANGED vars
    <3>1. UNCHANGED simVars
      BY <2>2 DEF vars, memory
    <3> QED
      BY <3>1 DEF simVars, SimP!vars, SimP!schedVars, SimP!itemVars
  <2> QED
    BY <1>1, <2>1, <2>2
<1>2. Init => SimP!Init
  BY DEF Init, Sim!Init, SimP!Init, Sim!Sched!Init, SimP!Sched!Init
<1>3. IInv /\ crashes = 0 /\ (crashes = 0)' /\ [Next]_vars => [SimP!Next]_(SimP!vars)
  BY <1>1
<1>4. Spec /\ [](crashes = 0) => SimP!Spec
  BY <1>2, <1>3, Invariance, PTL DEF Spec, SimP!Spec
<1>5. SimP!Spec => SimP!ImplementsGatedDelivery
  BY SimP!Implementation, SimulatorConstants
<1> QED
  BY <1>4, <1>5
=============================================================================
