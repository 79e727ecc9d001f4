------------------------------ MODULE RunPool ------------------------------
(***************************************************************************)
(* The goroutines of runJob (internal/app/worker.go) with the two channels *)
(* they share with the main loop: the semaphore w.sem, which every         *)
(* configuration from the server replaces, and the channel t.done of a     *)
(* tracked object, which every start of its check replaces.  A goroutine   *)
(* reads both fields without the mutex: w.sem once when it begins and once *)
(* when it ends, t.done only after it has got its token.                   *)
(*                                                                         *)
(* A run, its goroutine and its done channel share a name, taken again     *)
(* only when nothing refers to it any more.  The main loop appears by what *)
(* it does to runs; Worker models why and when.                            *)
(***************************************************************************)
EXTENDS Integers, FiniteSets

CONSTANTS
  Checks,          \* tracked objects
  Runs,            \* names of runs
  Sems,            \* names of semaphores
  None,            \* nil, for all three
  ThreadChoices,   \* values of worker_threads the server may send
  InitialThreads,  \* WORKER_THREADS
  MayHang,         \* may a handler outlive its cancellation by 3 seconds?
  Prompt           \* does a goroutine that can step, its handler apart, step
                   \* before the loop has come through a blocking call?

ASSUME RunPoolAssumption ==
  /\ IsFiniteSet(Checks) /\ IsFiniteSet(Runs) /\ IsFiniteSet(Sems) /\ Sems # {}
  /\ None \notin Checks \cup Runs \cup Sems
  /\ ThreadChoices \subseteq Nat \ {0} /\ InitialThreads \in Nat
  /\ MayHang \in BOOLEAN /\ Prompt \in BOOLEAN

VARIABLES
  threads,            \* WorkerThreads
  sem,                \* w.sem
  capacity, tokens,   \* of every semaphore
  running, current,   \* trackedJob.running, trackedJob.done
  response,           \* the run whose response trackedJob.response is
  waiting,            \* the object whose run the loop waits for in waitDone
  open,               \* the done channels that have been made and not closed
  check,              \* the tracked object of a goroutine
  phase,              \* where it is
  chan,               \* the semaphore it is sending to or receiving from
  target,             \* the channel its deferred close will close
  panicked            \* a goroutine has panicked, and with it the process

semVars  == <<threads, sem, capacity, tokens>>
loopVars == <<running, current, waiting>>
goVars   == <<check, phase, chan, target>>
vars == <<semVars, loopVars, response, open, goVars, panicked>>

Phases == {"gone", "begin", "send", "defer", "handler", "close", "release", "receive"}

\* NewWorker and syncConfigLocked: the size of a semaphore for n threads.
Capacity_Raw(n) == n
Capacity(n) == IF n > 1 THEN n ELSE 1

Init ==
  /\ threads = InitialThreads
  /\ sem \in Sems /\ capacity = [s \in Sems |-> Capacity(InitialThreads)]
  /\ tokens = [s \in Sems |-> 0]
  /\ running = [k \in Checks |-> FALSE] /\ current = [k \in Checks |-> None]
  /\ response = [k \in Checks |-> None] /\ waiting = None
  /\ open = {}
  /\ check = [r \in Runs |-> None] /\ phase = [r \in Runs |-> "gone"]
  /\ chan = [r \in Runs |-> None] /\ target = [r \in Runs |-> None]
  /\ panicked = FALSE

-----------------------------------------------------------------------------
(* What blocks. *)

Room_OffByOne(s) == tokens[s] <= capacity[s]
Room(s) == tokens[s] < capacity[s]

\* No goroutine can step, unless its handler ends.
Quiet ==
  \A r \in Runs : \/ phase[r] \in {"gone", "handler"}
                  \/ phase[r] = "send" /\ ~Room(chan[r])
                  \/ phase[r] = "receive" /\ tokens[chan[r]] = 0

\* The loop has come through a blocking call: an HTTP request, three seconds.
TimeHasPassed == Prompt => Quiet

\* Nothing refers to the name any more.
UnusedRun(r) ==
  /\ phase[r] = "gone" /\ \A g \in Runs : target[g] # r
  /\ \A k \in Checks : current[k] # r /\ response[k] # r
UnusedSem(s) == s # sem /\ \A r \in Runs : chan[r] # s

-----------------------------------------------------------------------------
(* The main loop. *)

\* tickMap starts a check: a new done channel, then the goroutine.
Start(k, r) ==
  /\ ~panicked /\ waiting = None /\ ~running[k] /\ UnusedRun(r)
  /\ Cardinality({j \in Checks : running[j]}) < threads
  /\ running' = [running EXCEPT ![k] = TRUE] /\ current' = [current EXCEPT ![k] = r]
  /\ open' = open \cup {r}
  /\ check' = [check EXCEPT ![r] = k] /\ phase' = [phase EXCEPT ![r] = "begin"]
  /\ UNCHANGED <<semVars, waiting, response, chan, target, panicked>>

\* tickMap finds done closed.
Finish(k) ==
  /\ ~panicked /\ waiting = None /\ running[k] /\ current[k] \notin open
  /\ running' = [running EXCEPT ![k] = FALSE]
  /\ UNCHANGED <<semVars, current, waiting, response, open, goVars, panicked>>

\* tickMap finds the check past its timeout, cancels it and enters waitDone.
Cancel(k) ==
  /\ ~panicked /\ waiting = None /\ running[k]
  /\ waiting' = k
  /\ UNCHANGED <<semVars, running, current, response, open, goVars, panicked>>

\* Three seconds pass and done is not closed: the handler hangs, or has not begun.
GiveUp_AtOnce(k) == TRUE
GiveUp_Never(k) == FALSE
GiveUp(k) ==
  /\ TimeHasPassed /\ current[k] \in open
  /\ phase[current[k]] = "handler" => MayHang

\* waitDone returns, and the run is over for the loop.
WaitReturns(k) ==
  /\ ~panicked /\ waiting = k /\ (current[k] \notin open \/ GiveUp(k))
  /\ running' = [running EXCEPT ![k] = FALSE] /\ waiting' = None
  /\ UNCHANGED <<semVars, current, response, open, goVars, panicked>>

\* syncConfigLocked: worker_threads is n, as it may have been before.
SyncConfig(s, n) ==
  /\ ~panicked /\ waiting = None /\ TimeHasPassed /\ UnusedSem(s)
  /\ threads' = n /\ sem' = s
  /\ capacity' = [capacity EXCEPT ![s] = Capacity(n)]
  /\ tokens' = [tokens EXCEPT ![s] = 0]
  /\ UNCHANGED <<loopVars, response, open, goVars, panicked>>

LoopStep ==
  \/ \E k \in Checks, r \in Runs : Start(k, r)
  \/ \E k \in Checks : Finish(k) \/ Cancel(k) \/ WaitReturns(k)
  \/ \E s \in Sems, n \in ThreadChoices : SyncConfig(s, n)

-----------------------------------------------------------------------------
(* runJob, a goroutine r at a time. *)

At(r, p) == ~panicked /\ phase[r] = p
GoTo(r, p) == phase' = [phase EXCEPT ![r] = p]

\* w.sem is evaluated, and the send begins.
EvaluateSem(r) ==
  /\ At(r, "begin") /\ GoTo(r, "send")
  /\ chan' = [chan EXCEPT ![r] = sem]
  /\ UNCHANGED <<semVars, loopVars, response, open, check, target, panicked>>

\* w.sem <- struct{}{}
Acquire(r) ==
  /\ At(r, "send") /\ Room(chan[r]) /\ GoTo(r, "defer")
  /\ tokens' = [tokens EXCEPT ![chan[r]] = @ + 1]
  /\ chan' = [chan EXCEPT ![r] = None]
  /\ UNCHANGED <<threads, sem, capacity, loopVars, response, open, check, target, panicked>>

\* defer close(t.done): t.done is evaluated now.
DeferClose(r) ==
  /\ At(r, "defer") /\ GoTo(r, "handler")
  /\ target' = [target EXCEPT ![r] = current[check[r]]]
  /\ UNCHANGED <<semVars, loopVars, response, open, check, chan, panicked>>

\* The handler ends, and its response is stored.
Respond_NotStored(r) ==
  /\ At(r, "handler") /\ GoTo(r, "close")
  /\ UNCHANGED <<semVars, loopVars, response, open, check, chan, target, panicked>>
Respond(r) ==
  /\ At(r, "handler") /\ GoTo(r, "close")
  /\ response' = [response EXCEPT ![check[r]] = r]
  /\ UNCHANGED <<semVars, loopVars, open, check, chan, target, panicked>>

\* The deferred close.
Close(r) ==
  /\ At(r, "close") /\ target[r] \in open /\ GoTo(r, "release")
  /\ open' = open \ {target[r]} /\ target' = [target EXCEPT ![r] = None]
  /\ UNCHANGED <<semVars, loopVars, response, check, chan, panicked>>

\* Closing a closed channel panics, which ends the process.
Panic(r) ==
  /\ At(r, "close") /\ target[r] \notin open
  /\ panicked' = TRUE
  /\ UNCHANGED <<semVars, loopVars, response, open, goVars>>

\* The deferred receive: w.sem is evaluated again.
EvaluateSemAgain(r) ==
  /\ At(r, "release") /\ GoTo(r, "receive")
  /\ chan' = [chan EXCEPT ![r] = sem]
  /\ UNCHANGED <<semVars, loopVars, response, open, check, target, panicked>>

\* <-w.sem, whoever put the token there.
Release_KeepsToken(r) ==
  /\ At(r, "receive") /\ tokens[chan[r]] > 0 /\ GoTo(r, "gone")
  /\ chan' = [chan EXCEPT ![r] = None] /\ check' = [check EXCEPT ![r] = None]
  /\ UNCHANGED <<semVars, loopVars, response, open, target, panicked>>
Release(r) ==
  /\ At(r, "receive") /\ tokens[chan[r]] > 0 /\ GoTo(r, "gone")
  /\ tokens' = [tokens EXCEPT ![chan[r]] = @ - 1]
  /\ chan' = [chan EXCEPT ![r] = None] /\ check' = [check EXCEPT ![r] = None]
  /\ UNCHANGED <<threads, sem, capacity, loopVars, response, open, target, panicked>>

GoStep(r) == EvaluateSem(r) \/ Acquire(r) \/ DeferClose(r) \/ Respond(r) \/ Close(r)
             \/ Panic(r) \/ EvaluateSemAgain(r) \/ Release(r)

Next == LoopStep \/ \E r \in Runs : GoStep(r)

Spec == Init /\ [][Next]_vars

-----------------------------------------------------------------------------
(* Safety. *)

\* The types of the variables; no semaphore holds more than it can.
TypeOK ==
  /\ threads \in Nat /\ sem \in Sems
  /\ capacity \in [Sems -> Nat \ {0}] /\ tokens \in [Sems -> Nat]
  /\ \A s \in Sems : tokens[s] <= capacity[s]
  /\ running \in [Checks -> BOOLEAN] /\ current \in [Checks -> Runs \cup {None}]
  /\ response \in [Checks -> Runs \cup {None}] /\ waiting \in Checks \cup {None}
  /\ open \subseteq Runs
  /\ check \in [Runs -> Checks \cup {None}] /\ phase \in [Runs -> Phases]
  /\ chan \in [Runs -> Sems \cup {None}] /\ target \in [Runs -> Runs \cup {None}]
  /\ panicked \in BOOLEAN
  /\ \A r \in Runs : /\ check[r] = None <=> phase[r] = "gone"
                     /\ chan[r] = None <=> phase[r] \notin {"send", "receive"}

\* A goroutine closes the channel of its own run, so no channel is closed twice.
ClosesOwnChannel ==
  ~panicked /\ \A r \in Runs : target[r] \in {None, r}

\* Handlers at work, those the loop has given up among them.
AtWork == {r \in Runs : phase[r] = "handler"}

\* As long as the semaphore is not replaced, no more handlers are at work than
\* it has room for, however many have been given up by the loop.
WorkWithinThreads == Cardinality(AtWork) <= capacity[sem]

\* To the loop a check's goroutine is a CheckRuns.
Seen == INSTANCE CheckRuns WITH
  Tracked <- Checks,
  state <- [k \in Checks |-> IF ~running[k] THEN "idle"
                             ELSE IF current[k] \notin open THEN "done" ELSE "busy"],
  own <- [k \in Checks |-> current[k] # None /\ response[k] = current[k]]

\* What Worker takes for granted of handlers that obey their cancellation: a run
\* ends with its own response, and the loop never gives one up.
RunsAsSeen == Seen!RunsSpec

-----------------------------------------------------------------------------
(* Liveness.  The scheduler runs every goroutine; a send that is possible     *)
(* again and again succeeds, as the senders of a channel are served in turn.  *)
(* The loop comes round (Worker's LoopTurns) and times out what does not end. *)

Fairness ==
  /\ \A r \in Runs : SF_vars(GoStep(r) /\ phase[r] # "handler")
  /\ \A k \in Checks : WF_vars(Finish(k)) /\ SF_vars(Cancel(k)) /\ WF_vars(WaitReturns(k))
FairSpec == Spec /\ Fairness

\* A started check is settled, whether its handler hangs or its goroutine waits
\* for a token that those of other runs keep, unless the process panics.
RunsAreSettled == \A k \in Checks : running[k] ~> ~running[k] \/ panicked

\* If no handler is at work for ever, and the semaphore is not replaced, no
\* goroutine is left behind: every token taken comes back.
HandlersEnd == \A r \in Runs : []<>(phase[r] # "handler")
GoroutinesEnd ==
  HandlersEnd => \A r \in Runs : phase[r] # "gone" ~> phase[r] = "gone" \/ panicked

-----------------------------------------------------------------------------
(* What the log line of waitDone says, and the code does not keep. *)

\* "handler did not exit after cancel, continuing": the worker goes on.
ContinuesAfterGiveUp == ~panicked
=============================================================================
