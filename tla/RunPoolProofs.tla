--------------------------- MODULE RunPoolProofs ---------------------------
(***************************************************************************)
(* What holds of the goroutines of the checks for every number of checks,  *)
(* runs, semaphores and threads: the types; and, when handlers obey their  *)
(* cancellation and goroutines are prompt, that every goroutine closes the *)
(* channel of its own run, and the loop sees the runs as CheckRuns has     *)
(* them, however often the semaphore is replaced.                          *)
(***************************************************************************)
EXTENDS RunPool, FiniteSetTheorems, TLAPS

LEMMA CapacityType == ASSUME NEW n \in Nat PROVE Capacity(n) \in Nat \ {0}
BY DEF Capacity

LEMMA InitTypes == Init => TypeOK
<1>. SUFFICES ASSUME Init PROVE TypeOK
  OBVIOUS
<1>1. Capacity(InitialThreads) \in Nat \ {0} /\ InitialThreads \in Nat
  BY RunPoolAssumption, CapacityType
<1>2. threads \in Nat /\ sem \in Sems /\ capacity \in [Sems -> Nat \ {0}]
      /\ tokens \in [Sems -> Nat] /\ \A s \in Sems : tokens[s] <= capacity[s]
  BY <1>1 DEF Init
<1>. QED  BY <1>2, RunPoolAssumption DEF Init, TypeOK, Phases

\* The steps of the loop change no phase but that of the run they start.
LEMMA LoopTypes == TypeOK /\ LoopStep => TypeOK'
<1>1. ASSUME TypeOK, NEW k \in Checks, NEW r \in Runs, Start(k, r) PROVE TypeOK'
  BY <1>1, RunPoolAssumption DEF TypeOK, Start, UnusedRun, Phases, semVars
<1>2. ASSUME TypeOK, NEW k \in Checks, Finish(k) \/ Cancel(k) \/ WaitReturns(k) PROVE TypeOK'
  BY <1>2 DEF TypeOK, Finish, Cancel, WaitReturns, semVars, goVars
<1>3. ASSUME TypeOK, NEW s \in Sems, NEW n \in ThreadChoices, SyncConfig(s, n) PROVE TypeOK'
  <2>1. n \in Nat /\ Capacity(n) \in Nat \ {0}
    BY RunPoolAssumption, CapacityType
  <2>2. /\ threads' \in Nat /\ sem' \in Sems
        /\ capacity' \in [Sems -> Nat \ {0}] /\ tokens' \in [Sems -> Nat]
        /\ \A t \in Sems : tokens'[t] <= capacity'[t]
    BY <1>3, <2>1 DEF TypeOK, SyncConfig
  <2>. QED  BY <1>3, <2>2 DEF TypeOK, SyncConfig, loopVars, goVars
<1>. QED  BY <1>1, <1>2, <1>3 DEF LoopStep

LEMMA GoTypes == ASSUME NEW r \in Runs PROVE TypeOK /\ GoStep(r) => TypeOK'
<1>1. ASSUME TypeOK, EvaluateSem(r) \/ EvaluateSemAgain(r) PROVE TypeOK'
  BY <1>1, RunPoolAssumption
     DEF TypeOK, EvaluateSem, EvaluateSemAgain, At, GoTo, Phases, semVars, loopVars
<1>2. ASSUME TypeOK, Acquire(r) PROVE TypeOK'
  <2>1. chan[r] \in Sems
    BY <1>2 DEF TypeOK, Acquire, At
  <2>2. tokens' \in [Sems -> Nat] /\ \A s \in Sems : tokens'[s] <= capacity[s]
    BY <1>2, <2>1 DEF TypeOK, Acquire, Room
  <2>. QED  BY <1>2, <2>2 DEF TypeOK, Acquire, At, GoTo, Phases, loopVars
<1>3. ASSUME TypeOK, DeferClose(r) PROVE TypeOK'
  <2>1. check[r] \in Checks
    BY <1>3 DEF TypeOK, DeferClose, At
  <2>. QED  BY <1>3, <2>1 DEF TypeOK, DeferClose, At, GoTo, Phases, semVars, loopVars
<1>4. ASSUME TypeOK, Respond(r) PROVE TypeOK'
  BY <1>4 DEF TypeOK, Respond, At, GoTo, Phases, semVars, loopVars
<1>5. ASSUME TypeOK, Close(r) \/ Panic(r) PROVE TypeOK'
  BY <1>5 DEF TypeOK, Close, Panic, At, GoTo, Phases, semVars, loopVars, goVars
<1>6. ASSUME TypeOK, Release(r) PROVE TypeOK'
  <2>1. chan[r] \in Sems
    BY <1>6 DEF TypeOK, Release, At
  <2>2. tokens' \in [Sems -> Nat] /\ \A s \in Sems : tokens'[s] <= capacity[s]
    BY <1>6, <2>1 DEF TypeOK, Release
  <2>. QED  BY <1>6, <2>2 DEF TypeOK, Release, At, GoTo, Phases, loopVars
<1>. QED  BY <1>1, <1>2, <1>3, <1>4, <1>5, <1>6 DEF GoStep

\* Every variable keeps its type, and no semaphore is filled beyond its capacity.
THEOREM PoolTypeCorrect == Spec => []TypeOK
<1>1. TypeOK /\ UNCHANGED vars => TypeOK'
  BY DEF TypeOK, vars, semVars, loopVars, goVars
<1>2. TypeOK /\ [Next]_vars => TypeOK'
  BY <1>1, LoopTypes, GoTypes DEF Next
<1>. QED  BY <1>2, InitTypes, PTL DEF Spec

-----------------------------------------------------------------------------
(* The channels of obedient and prompt goroutines.  The argument is that the  *)
(* loop never gives up a run.  It could do so only if, with all goroutines    *)
(* quiet, one of them waited for a token of a full semaphore; the count in    *)
(* Counted excludes it.                                                       *)

NotYet  == {r \in Runs : phase[r] \in {"begin", "send"}}
Inside  == {r \in Runs : phase[r] \in {"defer", "handler", "close"}}
Leaving == {r \in Runs : phase[r] = "release" \/ (phase[r] = "receive" /\ chan[r] = sem)}
AtRun   == {k \in Checks : running[k]}

\* A goroutine that has not closed its channel is the present run of its check,
\* and the only one; t.done is its channel whenever it looks.
Owned ==
  /\ ~panicked
  /\ \A r \in NotYet \cup Inside :
       running[check[r]] /\ current[check[r]] = r /\ r \in open
  /\ \A k \in Checks : running[k] /\ current[k] \in open =>
       current[k] \in NotYet \cup Inside /\ check[current[k]] = k
  /\ \A r \in Runs : target[r] = IF phase[r] \in {"handler", "close"} THEN r ELSE None
  /\ \A r \in NotYet \cup Inside : response[check[r]] = r <=> phase[r] = "close"
  /\ \A k \in Checks : running[k] /\ current[k] \notin open => response[k] = current[k]

\* No more tokens than goroutines that are in or leave by this semaphore, and
\* with those still to come no more than threads and the goroutines that leave.
Counted ==
  /\ threads <= capacity[sem]
  /\ \A r \in Runs : phase[r] = "send" => chan[r] = sem
  /\ tokens[sem] <= Cardinality(Inside) + Cardinality(Leaving)
  /\ tokens[sem] + Cardinality(NotYet) <= threads + Cardinality(Leaving)

Obedient == ~MayHang /\ Prompt

LEMMA CountTypes ==
  /\ IsFiniteSet(NotYet) /\ IsFiniteSet(Inside) /\ IsFiniteSet(Leaving)
  /\ IsFiniteSet(AtRun)
  /\ Cardinality(NotYet) \in Nat /\ Cardinality(Inside) \in Nat
  /\ Cardinality(Leaving) \in Nat /\ Cardinality(AtRun) \in Nat
<1>1. NotYet \subseteq Runs /\ Inside \subseteq Runs /\ Leaving \subseteq Runs
      /\ AtRun \subseteq Checks
  BY DEF NotYet, Inside, Leaving, AtRun
<1>2. /\ IsFiniteSet(NotYet) /\ IsFiniteSet(Inside) /\ IsFiniteSet(Leaving)
      /\ IsFiniteSet(AtRun)
  BY <1>1, RunPoolAssumption, FS_Subset
<1>. QED  BY <1>2, FS_CardinalityType

\* Goroutines that have not closed their channels are of different checks.
LEMMA OnePerCheck ==
  ASSUME TypeOK, Owned
  PROVE  Cardinality(NotYet) + Cardinality(Inside) <= Cardinality(AtRun)
<1>. DEFINE S == NotYet \cup Inside
            f == [r \in S |-> check[r]]
<1>1. f \in Injection(S, AtRun)
  <2>1. \A r \in S : check[r] \in AtRun
    BY DEF Owned, TypeOK, NotYet, Inside, AtRun
  <2>2. \A r, g \in S : check[r] = check[g] => r = g
    BY DEF Owned
  <2>. QED  BY <2>1, <2>2 DEF Injection, IsInjective
<1>2. Cardinality(S) <= Cardinality(AtRun)
  <2>. HIDE DEF f, S
  <2>. QED  BY <1>1, CountTypes, FS_Injection
<1>3. NotYet \cap Inside = {}
  BY DEF NotYet, Inside
<1>4. Cardinality(S) = Cardinality(NotYet) + Cardinality(Inside)
  <2>1. Cardinality(S) = Cardinality(NotYet) + Cardinality(Inside) - Cardinality(NotYet \cap Inside)
    BY CountTypes, FS_Union
  <2>2. Cardinality(NotYet \cap Inside) = 0
    BY <1>3, FS_EmptySet
  <2>. QED  BY <2>1, <2>2, CountTypes
<1>. QED  BY <1>2, <1>4

\* When all is quiet nobody waits for a token, nor has yet to ask for one.
LEMMA QuietNoneWaits ==
  ASSUME TypeOK, Counted, Quiet
  PROVE  NotYet = {}
<1>. SUFFICES ASSUME NEW r \in NotYet PROVE FALSE
  OBVIOUS
<1>1. r \in Runs /\ phase[r] = "send" /\ chan[r] = sem /\ ~Room(sem)
  BY DEF NotYet, Quiet, Counted
<1>2. tokens[sem] \in Nat /\ capacity[sem] \in Nat /\ capacity[sem] > 0 /\ threads \in Nat
  BY DEF TypeOK
<1>3. tokens[sem] >= threads /\ tokens[sem] > 0
  BY <1>1, <1>2 DEF Room, Counted
<1>4. Leaving = {}
  BY <1>2, <1>3 DEF Leaving, Quiet
<1>5. Cardinality(Leaving) = 0 /\ Cardinality(NotYet) > 0
  BY <1>4, CountTypes, FS_EmptySet
<1>. QED  BY <1>2, <1>3, <1>5, CountTypes DEF Counted

\* So the loop gives no run up.
LEMMA NeverGivenUp ==
  ASSUME Obedient, TypeOK, Owned, Counted, NEW k \in Checks, running[k], GiveUp(k)
  PROVE  FALSE
<1>1. Quiet /\ current[k] \in NotYet \cup Inside
  BY DEF Obedient, GiveUp, TimeHasPassed, Owned
<1>2. phase[current[k]] = "handler"
  BY <1>1, QuietNoneWaits DEF Inside, Quiet
<1>. QED  BY <1>2 DEF Obedient, GiveUp

-----------------------------------------------------------------------------
(* Every step keeps both. *)

LEMMA InitOwned == Init => Owned /\ Counted
<1>. SUFFICES ASSUME Init PROVE Owned /\ Counted
  OBVIOUS
<1>1. NotYet = {} /\ Inside = {} /\ Leaving = {}
  BY DEF Init, NotYet, Inside, Leaving
<1>2. Owned
  BY <1>1 DEF Init, Owned
<1>3. threads \in Nat /\ threads <= capacity[sem] /\ tokens[sem] = 0
  BY RunPoolAssumption DEF Init, Capacity
<1>4. Cardinality(NotYet) = 0 /\ Cardinality(Inside) = 0 /\ Cardinality(Leaving) = 0
  BY <1>1, FS_EmptySet
<1>. QED  BY <1>2, <1>3, <1>4 DEF Init, Counted

\* The steps of the loop that move no goroutine.
LEMMA LoopKeeps ==
  ASSUME TypeOK, Owned, Counted, UNCHANGED <<semVars, response, open, goVars, panicked, current>>,
         NEW k \in Checks, running' = running \/ (running' = [running EXCEPT ![k] = FALSE]
                                                  /\ current[k] \notin open)
  PROVE  Owned' /\ Counted'
<1>1. NotYet' = NotYet /\ Inside' = Inside /\ Leaving' = Leaving
  BY DEF NotYet, Inside, Leaving, goVars, semVars
<1>2. Owned'
  BY <1>1 DEF Owned, TypeOK, goVars, NotYet, Inside
<1>3. Counted'
  BY <1>1 DEF Counted, goVars, semVars
<1>. QED  BY <1>2, <1>3

LEMMA StartKeeps ==
  ASSUME TypeOK, Owned, Counted, NEW k \in Checks, NEW r \in Runs, Start(k, r)
  PROVE  Owned' /\ Counted'
<1>1. /\ ~running[k] /\ phase[r] = "gone" /\ target[r] = None
      /\ running' = [running EXCEPT ![k] = TRUE] /\ current' = [current EXCEPT ![k] = r]
      /\ open' = open \cup {r} /\ check' = [check EXCEPT ![r] = k]
      /\ phase' = [phase EXCEPT ![r] = "begin"]
      /\ UNCHANGED <<semVars, response, chan, target, panicked>>
      /\ \A j \in Checks : current[j] # r /\ response[j] # r
  BY DEF Start, UnusedRun, Owned
<1>2. NotYet' = NotYet \cup {r} /\ r \notin NotYet /\ Inside' = Inside /\ r \notin Inside
      /\ Leaving' = Leaving
  BY <1>1 DEF NotYet, Inside, Leaving, TypeOK, semVars
<1>3. \A g \in NotYet \cup Inside : check[g] # k /\ g # r /\ check'[g] = check[g]
                                    /\ phase'[g] = phase[g] /\ check[g] \in Checks
  BY <1>1, <1>2 DEF Owned, TypeOK, NotYet, Inside
<1>4. Owned'
  <2>1. ~panicked' /\ \A g \in Runs : target'[g] = IF phase'[g] \in {"handler", "close"} THEN g ELSE None
    BY <1>1 DEF Owned, TypeOK
  <2>2. \A g \in NotYet' \cup Inside' :
          running'[check'[g]] /\ current'[check'[g]] = g /\ g \in open'
    BY <1>1, <1>2, <1>3 DEF Owned, TypeOK
  <2>3. \A j \in Checks : running'[j] /\ current'[j] \in open' =>
          current'[j] \in NotYet' \cup Inside' /\ check'[current'[j]] = j
    BY <1>1, <1>2, <1>3 DEF Owned, TypeOK
  <2>4. \A g \in NotYet' \cup Inside' : response'[check'[g]] = g <=> phase'[g] = "close"
    BY <1>1, <1>2, <1>3 DEF Owned, TypeOK
  <2>5. \A j \in Checks : running'[j] /\ current'[j] \notin open' => response'[j] = current'[j]
    BY <1>1 DEF Owned, TypeOK
  <2>. QED  BY <2>1, <2>2, <2>3, <2>4, <2>5 DEF Owned
<1>5. Counted'
  <2>1. Cardinality(NotYet') = Cardinality(NotYet) + 1
    BY <1>2, CountTypes, FS_AddElement
  <2>2. Cardinality(AtRun) < threads
    BY DEF Start, AtRun
  <2>3. threads \in Nat /\ tokens[sem] \in Nat
    BY DEF TypeOK
  <2>4. tokens[sem] + Cardinality(NotYet) + 1 <= threads + Cardinality(Leaving)
    BY <2>2, <2>3, OnePerCheck, CountTypes DEF Counted
  <2>5. \A g \in Runs : phase'[g] = "send" => chan'[g] = sem'
    BY <1>1 DEF Counted, TypeOK, semVars
  <2>. QED  BY <1>1, <1>2, <2>1, <2>3, <2>4, <2>5, CountTypes DEF Counted, semVars
<1>. QED  BY <1>4, <1>5

LEMMA SyncKeeps ==
  ASSUME Obedient, TypeOK, Owned, Counted, NEW s \in Sems, NEW n \in ThreadChoices,
         SyncConfig(s, n)
  PROVE  Owned' /\ Counted'
<1>1. Quiet /\ UnusedSem(s)
  BY DEF SyncConfig, Obedient, TimeHasPassed
<1>2. NotYet = {}
  BY <1>1, QuietNoneWaits
<1>3. NotYet' = {} /\ Inside' = Inside /\ Leaving' = {}
  BY <1>1, <1>2 DEF SyncConfig, NotYet, Inside, Leaving, Quiet, UnusedSem, goVars
<1>4. Owned'
  BY <1>2, <1>3 DEF Owned, SyncConfig, loopVars, goVars, NotYet, Inside
<1>5. /\ threads' = n /\ n \in Nat /\ n <= Capacity(n)
      /\ capacity'[sem'] = Capacity(n) /\ tokens'[sem'] = 0
  BY RunPoolAssumption DEF SyncConfig, TypeOK, Capacity
<1>6. \A r \in Runs : phase'[r] # "send"
  BY <1>3 DEF NotYet
<1>7. Cardinality(NotYet') = 0 /\ Cardinality(Leaving') = 0 /\ Cardinality(Inside') \in Nat
  BY <1>3, CountTypes, FS_EmptySet
<1>. QED  BY <1>4, <1>5, <1>6, <1>7 DEF Counted

-----------------------------------------------------------------------------

\* The steps of a goroutine that stays on its side of the token and of the close.
LEMMA MoveKeeps ==
  ASSUME TypeOK, Owned, Counted, NEW r \in Runs,
         EvaluateSem(r) \/ DeferClose(r) \/ Respond(r) \/ EvaluateSemAgain(r)
  PROVE  Owned' /\ Counted'
<1>1. NotYet' = NotYet /\ Inside' = Inside /\ Leaving' = Leaving
  BY DEF EvaluateSem, DeferClose, Respond, EvaluateSemAgain, At, GoTo, NotYet, Inside, Leaving,
         TypeOK, semVars
<1>2. Counted'
  <2>1. \A g \in Runs : phase'[g] = "send" => chan'[g] = sem'
    BY DEF EvaluateSem, DeferClose, Respond, EvaluateSemAgain, At, GoTo, Counted, TypeOK, semVars
  <2>. QED  BY <1>1, <2>1 DEF EvaluateSem, DeferClose, Respond, EvaluateSemAgain, Counted, semVars
<1>3. /\ UNCHANGED <<running, current, open, check, panicked>>
      /\ \A k \in Checks : running'[k] /\ current'[k] \in open' =>
            current'[k] \in NotYet' \cup Inside' /\ check'[current'[k]] = k
      /\ \A g \in NotYet' \cup Inside' :
            running'[check'[g]] /\ current'[check'[g]] = g /\ g \in open'
  <2>1. UNCHANGED <<running, current, open, check, panicked>>
    BY DEF EvaluateSem, DeferClose, Respond, EvaluateSemAgain, loopVars
  <2>. QED  BY <1>1, <2>1 DEF Owned
<1>4. CASE EvaluateSem(r) \/ EvaluateSemAgain(r)
  <2>1. /\ phase[r] \in {"begin", "release"} /\ UNCHANGED <<response, target>>
        /\ phase' = [phase EXCEPT ![r] = IF phase[r] = "begin" THEN "send" ELSE "receive"]
    BY <1>4 DEF EvaluateSem, EvaluateSemAgain, At, GoTo
  <2>2. \A g \in Runs : phase'[g] \in {"handler", "close"} <=> phase[g] \in {"handler", "close"}
    BY <2>1 DEF TypeOK
  <2>3. \A g \in Runs : phase'[g] = "close" <=> phase[g] = "close"
    BY <2>1 DEF TypeOK
  <2>4. \A g \in NotYet' \cup Inside' : response'[check'[g]] = g <=> phase'[g] = "close"
    BY <1>1, <1>3, <2>1, <2>3 DEF Owned, NotYet, Inside
  <2>5. \A g \in Runs : target'[g] = IF phase'[g] \in {"handler", "close"} THEN g ELSE None
    BY <2>1, <2>2 DEF Owned
  <2>. QED  BY <1>2, <1>3, <2>1, <2>4, <2>5 DEF Owned
<1>5. CASE DeferClose(r)
  <2>1. r \in Inside /\ current[check[r]] = r
    BY <1>5 DEF DeferClose, At, Inside, Owned
  <2>2. /\ phase[r] = "defer" /\ phase' = [phase EXCEPT ![r] = "handler"]
        /\ target' = [target EXCEPT ![r] = r] /\ response' = response
    BY <1>5, <2>1 DEF DeferClose, At, GoTo
  <2>3. \A g \in Runs : phase'[g] = "close" <=> phase[g] = "close"
    BY <2>2 DEF TypeOK
  <2>4. \A g \in NotYet' \cup Inside' : response'[check'[g]] = g <=> phase'[g] = "close"
    BY <1>1, <1>3, <2>2, <2>3 DEF Owned, NotYet, Inside
  <2>5. \A g \in Runs : target'[g] = IF phase'[g] \in {"handler", "close"} THEN g ELSE None
    BY <2>2 DEF Owned, TypeOK
  <2>. QED  BY <1>2, <1>3, <2>2, <2>4, <2>5 DEF Owned
<1>6. CASE Respond(r)
  <2>1. r \in Inside /\ check[r] \in Checks /\ current[check[r]] = r /\ r \in open
    BY <1>6 DEF Respond, At, Inside, Owned, TypeOK
  <2>2. \A g \in NotYet \cup Inside : g # r => check[g] # check[r] /\ check[g] \in Checks
    BY <2>1 DEF Owned, TypeOK, NotYet, Inside
  <2>3. /\ response' = [response EXCEPT ![check[r]] = r] /\ phase' = [phase EXCEPT ![r] = "close"]
        /\ phase[r] = "handler" /\ target' = target
    BY <1>6 DEF Respond, At, GoTo
  <2>4. \A g \in NotYet' \cup Inside' : response'[check'[g]] = g <=> phase'[g] = "close"
    BY <1>1, <1>3, <2>1, <2>2, <2>3 DEF Owned, TypeOK, NotYet, Inside
  <2>5. \A j \in Checks : running'[j] /\ current'[j] \notin open' => response'[j] = current'[j]
    BY <1>3, <2>1, <2>3 DEF Owned, TypeOK
  <2>6. \A g \in Runs : target'[g] = IF phase'[g] \in {"handler", "close"} THEN g ELSE None
    BY <2>3 DEF Owned, TypeOK
  <2>. QED  BY <1>2, <1>3, <2>4, <2>5, <2>6 DEF Owned
<1>. QED  BY <1>2, <1>4, <1>5, <1>6

LEMMA AcquireKeeps ==
  ASSUME TypeOK, Owned, Counted, NEW r \in Runs, Acquire(r)
  PROVE  Owned' /\ Counted'
<1>1. r \in NotYet /\ r \notin Inside /\ NotYet' = NotYet \ {r} /\ Inside' = Inside \cup {r}
      /\ Leaving' = Leaving
  BY DEF Acquire, At, GoTo, NotYet, Inside, Leaving, TypeOK
<1>2. Owned'
  BY <1>1 DEF Acquire, At, GoTo, Owned, TypeOK, loopVars, NotYet, Inside
<1>3. tokens'[sem] = tokens[sem] + 1 /\ sem' = sem /\ tokens[sem] \in Nat /\ threads \in Nat
      /\ threads' = threads /\ capacity' = capacity
  BY DEF Acquire, At, Counted, TypeOK
<1>4. Cardinality(NotYet') = Cardinality(NotYet) - 1 /\ Cardinality(Inside') = Cardinality(Inside) + 1
  BY <1>1, CountTypes, FS_AddElement, FS_RemoveElement
<1>5. \A g \in Runs : phase'[g] = "send" => chan'[g] = sem'
  BY DEF Acquire, At, GoTo, Counted, TypeOK
<1>. QED  BY <1>1, <1>2, <1>3, <1>4, <1>5, CountTypes DEF Counted

\* The channel a goroutine closes is its own, and open.
LEMMA CloseKeeps ==
  ASSUME TypeOK, Owned, Counted, NEW r \in Runs, Close(r) \/ Panic(r)
  PROVE  Owned' /\ Counted'
<1>1. r \in Inside /\ target[r] = r /\ r \in open /\ response[check[r]] = r
      /\ check[r] \in Checks /\ current[check[r]] = r /\ phase[r] = "close"
  BY DEF Close, Panic, At, Inside, Owned, TypeOK
<1>2. Close(r)
  BY <1>1 DEF Panic
<1>3. /\ open' = open \ {r} /\ phase' = [phase EXCEPT ![r] = "release"]
      /\ target' = [target EXCEPT ![r] = None]
      /\ UNCHANGED <<semVars, running, current, response, check, chan, panicked>>
  BY <1>1, <1>2 DEF Close, GoTo, loopVars
<1>4. /\ NotYet' = NotYet /\ Inside' = Inside \ {r} /\ r \notin NotYet
      /\ r \notin Leaving /\ Leaving' = Leaving \cup {r}
  BY <1>1, <1>3 DEF NotYet, Inside, Leaving, TypeOK, semVars
<1>5. Owned'
  <2>1. ~panicked' /\ \A g \in Runs : target'[g] = IF phase'[g] \in {"handler", "close"} THEN g ELSE None
    BY <1>3 DEF Owned, TypeOK
  <2>2. \A g \in NotYet' \cup Inside' :
          running'[check'[g]] /\ current'[check'[g]] = g /\ g \in open'
    BY <1>3, <1>4 DEF Owned
  <2>3. \A j \in Checks : running'[j] /\ current'[j] \in open' =>
          current'[j] \in NotYet' \cup Inside' /\ check'[current'[j]] = j
    BY <1>3, <1>4 DEF Owned
  <2>4. \A g \in NotYet' \cup Inside' : response'[check'[g]] = g <=> phase'[g] = "close"
    BY <1>3, <1>4 DEF Owned, TypeOK, NotYet, Inside
  <2>5. \A j \in Checks : running'[j] /\ current'[j] \notin open' => response'[j] = current'[j]
    <3>. SUFFICES ASSUME NEW j \in Checks, running[j], current[j] = r PROVE response[j] = r
      BY <1>3 DEF Owned
    <3>1. check[r] = j
      BY <1>1 DEF Owned
    <3>. QED  BY <1>1, <3>1
  <2>. QED  BY <2>1, <2>2, <2>3, <2>4, <2>5 DEF Owned
<1>6. Counted'
  <2>1. Cardinality(Inside') = Cardinality(Inside) - 1 /\ Cardinality(Leaving') = Cardinality(Leaving) + 1
    BY <1>1, <1>4, CountTypes, FS_AddElement, FS_RemoveElement
  <2>2. tokens[sem] \in Nat /\ threads \in Nat
    BY DEF TypeOK
  <2>3. \A g \in Runs : phase'[g] = "send" => chan'[g] = sem'
    BY <1>3 DEF Counted, TypeOK, semVars
  <2>. QED  BY <1>3, <1>4, <2>1, <2>2, <2>3, CountTypes DEF Counted, semVars
<1>. QED  BY <1>5, <1>6

LEMMA ReleaseKeeps ==
  ASSUME TypeOK, Owned, Counted, NEW r \in Runs, Release(r)
  PROVE  Owned' /\ Counted'
<1>1. /\ phase[r] = "receive" /\ chan[r] \in Sems /\ tokens[chan[r]] > 0
      /\ phase' = [phase EXCEPT ![r] = "gone"] /\ chan' = [chan EXCEPT ![r] = None]
      /\ check' = [check EXCEPT ![r] = None]
      /\ tokens' = [tokens EXCEPT ![chan[r]] = @ - 1]
      /\ UNCHANGED <<threads, sem, capacity, running, current, response, open, target, panicked>>
  BY DEF Release, At, GoTo, TypeOK, loopVars
<1>2. NotYet' = NotYet /\ Inside' = Inside /\ r \notin NotYet \cup Inside
      /\ Leaving' = Leaving \ {r} /\ (r \in Leaving <=> chan[r] = sem)
  BY <1>1 DEF NotYet, Inside, Leaving, TypeOK
<1>3. Owned'
  BY <1>1, <1>2 DEF Owned, TypeOK
<1>4. \A g \in Runs : phase'[g] = "send" => chan'[g] = sem'
  BY <1>1 DEF Counted, TypeOK
<1>5. tokens[sem] \in Nat /\ threads \in Nat
  BY DEF TypeOK
<1>6. CASE chan[r] = sem
  <2>1. Cardinality(Leaving') = Cardinality(Leaving) - 1 /\ tokens'[sem] = tokens[sem] - 1
    BY <1>1, <1>2, <1>6, CountTypes, FS_RemoveElement DEF TypeOK
  <2>2. tokens'[sem'] <= Cardinality(Inside') + Cardinality(Leaving')
        /\ tokens'[sem'] + Cardinality(NotYet') <= threads' + Cardinality(Leaving')
    BY <1>1, <1>2, <1>5, <2>1, CountTypes DEF Counted
  <2>. QED  BY <1>1, <1>3, <1>4, <2>2 DEF Counted
<1>7. CASE chan[r] # sem
  <2>1. Leaving' = Leaving /\ tokens'[sem] = tokens[sem]
    BY <1>1, <1>2, <1>7 DEF TypeOK
  <2>. QED  BY <1>1, <1>2, <1>3, <1>4, <2>1 DEF Counted
<1>. QED  BY <1>6, <1>7

LEMMA OwnedStep ==
  ASSUME Obedient
  PROVE  TypeOK /\ Owned /\ Counted /\ [Next]_vars => Owned' /\ Counted'
<1>. SUFFICES ASSUME TypeOK, Owned, Counted, [Next]_vars PROVE Owned' /\ Counted'
  OBVIOUS
<1>1. ASSUME NEW k \in Checks, NEW r \in Runs, Start(k, r) PROVE Owned' /\ Counted'
  BY <1>1, StartKeeps
<1>2. ASSUME NEW k \in Checks, Finish(k) \/ Cancel(k) PROVE Owned' /\ Counted'
  BY <1>2, LoopKeeps DEF Finish, Cancel
<1>3. ASSUME NEW k \in Checks, WaitReturns(k) PROVE Owned' /\ Counted'
  <2>1. running[k] => current[k] \notin open
    BY <1>3, NeverGivenUp DEF WaitReturns
  <2>2. running' = running \/ (running' = [running EXCEPT ![k] = FALSE] /\ current[k] \notin open)
    BY <1>3, <2>1 DEF WaitReturns, TypeOK
  <2>. QED  BY <1>3, <2>2, LoopKeeps DEF WaitReturns
<1>4. ASSUME NEW s \in Sems, NEW n \in ThreadChoices, SyncConfig(s, n) PROVE Owned' /\ Counted'
  BY <1>4, SyncKeeps
<1>5. ASSUME NEW r \in Runs, GoStep(r) PROVE Owned' /\ Counted'
  BY <1>5, MoveKeeps, AcquireKeeps, CloseKeeps, ReleaseKeeps DEF GoStep
<1>6. CASE UNCHANGED vars
  BY <1>6 DEF vars, semVars, loopVars, goVars, Owned, Counted, NotYet, Inside, Leaving
<1>. QED  BY <1>1, <1>2, <1>3, <1>4, <1>5, <1>6 DEF Next, LoopStep

\* With obedient handlers and prompt goroutines every goroutine closes its own
\* run's channel and none panics, through any replacement of the semaphore.
THEOREM ChannelsClosedByOwner ==
  ASSUME ~MayHang, Prompt
  PROVE  Spec => []ClosesOwnChannel
<1>1. TypeOK /\ Owned /\ Counted /\ [Next]_vars => Owned' /\ Counted'
  BY OwnedStep DEF Obedient
<1>2. Owned => ClosesOwnChannel
  BY DEF Owned, ClosesOwnChannel
<1>. QED  BY <1>1, <1>2, InitOwned, PoolTypeCorrect, PTL DEF Spec

-----------------------------------------------------------------------------
(* The refinement. *)

\* The steps that the loop does not see.
LEMMA Unseen ==
  ASSUME UNCHANGED <<running, current, response, open>>
  PROVE  UNCHANGED Seen!runsVars
BY DEF Seen!runsVars

LEMMA SeenLoop ==
  ASSUME Obedient, TypeOK, Owned, Counted, LoopStep
  PROVE  [Seen!RunsNext]_(Seen!runsVars)
<1>1. ASSUME NEW k \in Checks, NEW r \in Runs, Start(k, r) PROVE Seen!Begin(k)
  <2>1. /\ ~running[k] /\ r # None
        /\ running' = [running EXCEPT ![k] = TRUE] /\ current' = [current EXCEPT ![k] = r]
        /\ open' = open \cup {r} /\ response' = response
        /\ \A j \in Checks : current[j] # r /\ response[j] # r
    BY <1>1, RunPoolAssumption DEF Start, UnusedRun
  <2>. QED  BY <2>1 DEF Seen!Begin, TypeOK
<1>2. ASSUME NEW k \in Checks, Finish(k) PROVE Seen!Settle(k)
  BY <1>2 DEF Finish, Seen!Settle, TypeOK
<1>3. ASSUME NEW k \in Checks, WaitReturns(k)
      PROVE  Seen!Settle(k) \/ UNCHANGED Seen!runsVars
  <2>1. CASE running[k]
    <3>1. current[k] \notin open
      BY <1>3, <2>1, NeverGivenUp DEF WaitReturns
    <3>. QED  BY <1>3, <2>1, <3>1 DEF WaitReturns, Seen!Settle, TypeOK
  <2>2. CASE ~running[k]
    BY <1>3, <2>2, Unseen DEF WaitReturns, TypeOK
  <2>. QED  BY <2>1, <2>2
<1>4. ASSUME NEW k \in Checks, Cancel(k) PROVE UNCHANGED Seen!runsVars
  BY <1>4, Unseen DEF Cancel
<1>5. ASSUME NEW s \in Sems, NEW n \in ThreadChoices, SyncConfig(s, n)
      PROVE  UNCHANGED Seen!runsVars
  BY <1>5, Unseen DEF SyncConfig, loopVars
<1>. QED  BY <1>1, <1>2, <1>3, <1>4, <1>5 DEF LoopStep, Seen!RunsNext

LEMMA SeenGo ==
  ASSUME TypeOK, Owned, NEW r \in Runs, GoStep(r)
  PROVE  [Seen!RunsNext]_(Seen!runsVars)
<1>1. ASSUME EvaluateSem(r) \/ Acquire(r) \/ DeferClose(r) \/ Panic(r) \/ EvaluateSemAgain(r)
             \/ Release(r)
      PROVE  UNCHANGED Seen!runsVars
  BY <1>1, Unseen DEF EvaluateSem, Acquire, DeferClose, Panic, EvaluateSemAgain, Release, loopVars
<1>2. ASSUME r \in Inside
      PROVE  /\ check[r] \in Checks /\ running[check[r]] /\ current[check[r]] = r /\ r \in open
             /\ r # None /\ (response[check[r]] = r <=> phase[r] = "close")
             /\ \A k \in Checks : running[k] /\ current[k] = r => k = check[r]
  BY <1>2, RunPoolAssumption DEF Owned, TypeOK, Inside
<1>3. ASSUME NEW k \in Checks, k = check[r], Respond(r) PROVE Seen!Store(k)
  <2>1. r \in Inside /\ phase[r] = "handler"
    BY <1>3 DEF Respond, At, Inside
  <2>. QED  BY <1>2, <1>3, <2>1 DEF Respond, Seen!Store, TypeOK, loopVars
<1>4. ASSUME NEW k \in Checks, k = check[r], Close(r) PROVE Seen!End(k)
  <2>1. r \in Inside /\ phase[r] = "close" /\ target[r] = r
    BY <1>4 DEF Close, At, Inside, Owned
  <2>2. open' = open \ {r} /\ UNCHANGED <<running, current, response>>
    BY <1>4, <2>1 DEF Close, loopVars
  <2>3. \A j \in Checks \ {k} : running[j] => (current[j] \in open <=> current[j] \in open')
    BY <1>2, <1>4, <2>1, <2>2
  <2>. QED  BY <1>2, <1>4, <2>1, <2>2, <2>3 DEF Seen!End
<1>5. Respond(r) \/ Close(r) => check[r] \in Checks
  BY <1>2 DEF Respond, Close, At, Inside
<1>6. CASE Respond(r) \/ Close(r)
  <2>1. PICK k \in Checks : k = check[r]
    BY <1>5, <1>6
  <2>2. Seen!Store(k) \/ Seen!End(k)
    BY <1>3, <1>4, <1>6, <2>1
  <2>. QED  BY <2>2 DEF Seen!RunsNext
<1>7. CASE EvaluateSem(r) \/ Acquire(r) \/ DeferClose(r) \/ Panic(r) \/ EvaluateSemAgain(r)
           \/ Release(r)
  BY <1>1, <1>7
<1>. QED  BY <1>6, <1>7 DEF GoStep

\* With obedient handlers and prompt goroutines the goroutines implement
\* CheckRuns: a run leaves its own response, then ends, and is settled once.
THEOREM GoroutinesImplementCheckRuns ==
  ASSUME ~MayHang, Prompt
  PROVE  Spec => RunsAsSeen
<1>1. Init => Seen!RunsInit
  BY DEF Init, Seen!RunsInit
<1>2. TypeOK /\ Owned /\ Counted /\ [Next]_vars => Owned' /\ Counted'
  BY OwnedStep DEF Obedient
<1>3. TypeOK /\ Owned /\ Counted /\ [Next]_vars => [Seen!RunsNext]_(Seen!runsVars)
  <2>1. UNCHANGED vars => UNCHANGED Seen!runsVars
    BY Unseen DEF vars, loopVars
  <2>. QED  BY <2>1, SeenLoop, SeenGo DEF Next, Obedient
<1>. QED  BY <1>1, <1>2, <1>3, InitOwned, PoolTypeCorrect, PTL
          DEF Spec, RunsAsSeen, Seen!RunsSpec
=============================================================================
