------------------------------- MODULE Worker -------------------------------
(***************************************************************************)
(* The monitoring worker's main loop (internal/app/worker.go) and the      *)
(* handler goroutines it starts: fetch the job lists, give every tracked   *)
(* check one tick, post the results, sleep, repeat.                        *)
(*                                                                         *)
(* The loop is one goroutine.  It blocks in getJobs, in waitDone, in the   *)
(* POST of a batch, in a self-update and on its ticker, and only there     *)
(* does time pass; handler goroutines take steps between any two of its    *)
(* steps.  A tracked object is named by its kind and job id; `Orphan`      *)
(* stands in a queue for an object that has left the map.                  *)
(***************************************************************************)
EXTENDS Schedule, SendQueue

CONSTANTS
  JobKeys, DockerKeys,   \* ids of the monitor jobs and of the docker hosts
  RawRepeat, RawTimeout, \* what the server sends for each: any integers
  UnsupportedKeys,       \* monitor jobs of a type no handler serves
  NoResponse,            \* trackedJob.response == nil
  ThreadChoices,         \* values of worker_threads the server may send
  InitialThreads,        \* WORKER_THREADS
  JobsGetTimeout, ResponseSendTimeout,
  AutoUpdate,            \* the AUTO_UPDATE option
  Lists,                 \* the sets of ids the server may list
  RecentChoices,         \* the sets of ids whose update_time may be the present
  RestartOrders, UpdateOrders,  \* what the server may order: subsets of BOOLEAN
  MayHang,               \* may a handler outlive its cancellation by 3 seconds?
  Postpone,              \* 3600: how far an unsupported job is put off
  MaxTime                \* bound on the clock

Keys   == JobKeys \cup DockerKeys
Orphan == 0
Kinds  == {"jobs", "dockers"}
KeysOf(kind) == IF kind = "jobs" THEN JobKeys ELSE DockerKeys
KindOf(k)    == IF k \in JobKeys THEN "jobs" ELSE "dockers"

\* Unix time 0: longer ago than any period.
Epoch == -(MaxRepeat + JobsGetTimeout + ResponseSendTimeout + 1)

Responses == [start : Int, ok : BOOLEAN, by : {"handler", "loop"}]

ASSUME WorkerAssumption ==
  /\ JobKeys \subseteq Nat \ {0} /\ DockerKeys \subseteq Nat \ {0}
  /\ JobKeys \cap DockerKeys = {} /\ IsFiniteSet(Keys)
  /\ RawRepeat \in [Keys -> Int] /\ RawTimeout \in [Keys -> Int]
  /\ UnsupportedKeys \subseteq JobKeys
  /\ NoResponse \notin Responses
  /\ ThreadChoices \subseteq Nat \ {0} /\ InitialThreads \in Nat
  /\ JobsGetTimeout \in Nat /\ ResponseSendTimeout \in Nat
  /\ AutoUpdate \in BOOLEAN /\ MayHang \in BOOLEAN
  /\ Lists \subseteq SUBSET Keys /\ RecentChoices \subseteq SUBSET Keys
  /\ RestartOrders \subseteq BOOLEAN /\ UpdateOrders \subseteq BOOLEAN
  /\ Postpone \in Nat /\ MaxTime \in Nat

VARIABLES
  clock,     \* time.Now().Unix()
  pc,        \* where the loop goroutine is
  now,       \* the loop's reading of the clock, taken before getJobs
  cur,       \* the map being ticked
  todo,      \* ids of that map still to be ticked
  slots,     \* tickMap's local count of running checks
  due,       \* the queues this turn still has to drain
  batch,     \* jobsCopy: entries taken from the queue being posted
  payload,   \* the body being posted: job id -> what is said of it
  jobSync, sendTime,          \* time of the last getJobs, of each last send
  threads, restart, pending,  \* WorkerThreads, restartFromServer, pendingUpdate
  queue,     \* sendStateJobs and sendDockerStateJobs, by kind
  status,    \* trackedJob.status, "absent" when the map has no such id
  run,       \* "idle"; "busy": handler working; "done": done closed, not seen
  started,   \* trackedJob.started
  began,     \* when the context of the present run was created
  update,    \* Job.UpdateTime, the schedule cursor
  resp,      \* trackedJob.response, with the run it is a result of
  zombies,   \* started of the handlers the loop stopped waiting for
  lost       \* started of the handlers whose object has left the map

loopVars  == <<pc, now, cur, todo, slots, due, batch, payload>>
confVars  == <<threads, restart, pending>>
timeVars  == <<clock, jobSync, sendTime>>
checkVars == <<status, run, started, began, update, resp, zombies, lost>>
vars == <<loopVars, confVars, timeVars, queue, checkVars>>

PCs == {"init", "top", "update", "get", "tick", "wait", "drain", "post",
        "settle", "restore", "idle", "exited"}
Blocked == {"init", "update", "get", "wait", "post", "idle", "exited"}

-----------------------------------------------------------------------------
Init ==
  /\ clock = 0
  /\ pc = "init" /\ now = Epoch /\ cur = "jobs" /\ todo = {} /\ slots = 0
  /\ due = {} /\ batch = <<>> /\ payload = <<>>
  /\ jobSync = Epoch /\ sendTime = [kind \in Kinds |-> Epoch]
  /\ threads = InitialThreads /\ restart = FALSE /\ pending = FALSE
  /\ queue = [kind \in Kinds |-> <<>>]
  /\ status = [k \in Keys |-> "absent"] /\ run = [k \in Keys |-> "idle"]
  /\ started = [k \in Keys |-> Epoch] /\ began = [k \in Keys |-> Epoch]
  /\ update = [k \in Keys |-> Epoch]
  /\ resp = [k \in Keys |-> NoResponse]
  /\ zombies = [k \in Keys |-> {}] /\ lost = [k \in Keys |-> {}]

Running == {k \in Keys : run[k] # "idle"}
Tracked_JobsTwice(kind) == {k \in JobKeys : status[k] # "absent"}
Tracked(kind) == {k \in KeysOf(kind) : status[k] # "absent"}
Live    == {k \in Keys : status[k] = "live"}

\* The handlers at work for the object of k, by the start of their run.
AtWork(k) == zombies[k] \cup (IF run[k] = "busy" THEN {started[k]} ELSE {})

\* A deleted object's job is the zero Job: its period and timeout are defaults.
Repeat(k)  == IF status[k] = "live" THEN RawRepeat[k] ELSE 0
Timeout(k) == IF status[k] = "live" THEN RawTimeout[k] ELSE 0

\* tickMap is entered: the order is fixed by sortedMapKeys, the slots counted.
EnterMap(kind, tracked) ==
  /\ pc' = "tick" /\ cur' = kind /\ todo' = tracked
  /\ slots' = Cardinality(Running)

-----------------------------------------------------------------------------
(* Loop, up to tickAll. *)

SelfUpdateDue == pending /\ AutoUpdate

\* selfupdate.Apply begins; pendingUpdate has been taken.
BeginUpdate ==
  /\ pc = "top" /\ SelfUpdateDue
  /\ pc' = "update" /\ pending' = FALSE
  /\ UNCHANGED <<now, cur, todo, slots, due, batch, payload, threads, restart,
                 timeVars, queue, checkVars>>

\* Apply succeeded: os.Exit(0).
UpdateInstalled ==
  /\ pc = "update" /\ pc' = "exited"
  /\ UNCHANGED <<now, cur, todo, slots, due, batch, payload, confVars, timeVars,
                 queue, checkVars>>

\* Apply failed: the turn goes on.
UpdateFailed ==
  /\ pc = "update" /\ pc' = "top"
  /\ UNCHANGED <<now, cur, todo, slots, due, batch, payload, confVars, timeVars,
                 queue, checkVars>>

\* The server ordered a restart: the loop ends without draining the queues.
Leave ==
  /\ pc = "top" /\ ~SelfUpdateDue /\ restart
  /\ pc' = "exited" /\ pending' = FALSE
  /\ UNCHANGED <<now, cur, todo, slots, due, batch, payload, threads, restart,
                 timeVars, queue, checkVars>>

SyncDue == jobSync < clock - JobsGetTimeout

TurnToGet ==
  /\ pc = "top" /\ ~SelfUpdateDue /\ ~restart /\ SyncDue
  /\ pc' = "get" /\ now' = clock /\ pending' = FALSE
  /\ UNCHANGED <<cur, todo, slots, due, batch, payload, threads, restart,
                 timeVars, queue, checkVars>>

TurnToTick ==
  /\ pc = "top" /\ ~SelfUpdateDue /\ ~restart /\ ~SyncDue
  /\ now' = clock /\ pending' = FALSE
  /\ EnterMap("jobs", Tracked("jobs"))
  /\ UNCHANGED <<due, batch, payload, threads, restart, timeVars, queue, checkVars>>

\* getJobs returned without a list, after its ten seconds of sleep.
GetFail ==
  /\ \/ /\ pc = "init" /\ pc' = "top"
        /\ UNCHANGED <<jobSync, cur, todo, slots>>
     \/ /\ pc = "get" /\ jobSync' = now
        /\ EnterMap("jobs", Tracked("jobs"))
  /\ UNCHANGED <<now, due, batch, payload, confVars, clock, sendTime, queue, checkVars>>

\* The later of the cursor kept here and the one the server sent.
MergeCursor_ServerWins(mine, sent) == sent
MergeCursor(mine, sent) == IF mine > sent THEN mine ELSE sent

\* syncJobsLocked and syncDockersLocked: `listed` are the ids in the answer,
\* `sent` their update_time.  A running check of a dropped job goes on.
SyncTracked(listed, sent) ==
  /\ status' = [k \in Keys |-> IF k \in listed THEN "live"
                               ELSE IF status[k] = "absent" THEN "absent" ELSE "deleted"]
  /\ update' = [k \in Keys |-> IF k \in listed THEN MergeCursor(update[k], sent[k])
                                               ELSE Epoch]
  /\ resp' = [k \in Keys |-> IF k \in listed THEN resp[k] ELSE NoResponse]
  /\ UNCHANGED <<run, started, began, zombies, lost>>

\* getJobs with an answer: configuration, then both lists, under the mutex.
GetOK(listed, sent, newThreads, newRestart, newPending) ==
  /\ SyncTracked(listed, sent)
  /\ threads' = newThreads /\ restart' = newRestart /\ pending' = newPending
  /\ \/ /\ pc = "init" /\ pc' = "top" /\ jobSync' = clock
        /\ UNCHANGED <<cur, todo, slots>>
     \/ /\ pc = "get" /\ jobSync' = now
        /\ EnterMap("jobs", {k \in JobKeys : status'[k] # "absent"})
  /\ UNCHANGED <<now, due, batch, payload, clock, sendTime, queue>>

ServerAnswers ==
  /\ pc \in {"init", "get"}
  /\ \E listed \in Lists, recent \in RecentChoices :
       \E t \in ThreadChoices \cup {threads}, r \in RestartOrders, u \in UpdateOrders :
          GetOK(listed, [k \in Keys |-> IF k \in recent THEN clock ELSE Epoch], t, r, u)

-----------------------------------------------------------------------------
(* tickMap, one check at a time. *)

\* sortedMapKeys: by the time a check fell due, then by id.
Overdue(k) == NextDue(update[k], Repeat(k))
Before_ById(j, k) == j < k
Before(j, k) == Overdue(j) < Overdue(k) \/ (Overdue(j) = Overdue(k) /\ j < k)

IsNext(k) == pc = "tick" /\ k \in todo /\ \A j \in todo \ {k} : Before(k, j)

TimedOut(k) == run[k] # "idle" /\ IsOverdue(started[k], Timeout(k), now)

\* The check is past its timeout: cancel its context and wait for it.
TickCancel(k) ==
  /\ IsNext(k) /\ TimedOut(k)
  /\ pc' = "wait" /\ todo' = todo
  /\ UNCHANGED <<now, cur, slots, due, batch, payload, confVars, timeVars, queue,
                 checkVars>>

\* A result enters its queue unless the job has been deleted (enqueueSend).
Enqueue(k) ==
  queue' = [queue EXCEPT ![KindOf(k)] = IF k \in Live THEN Upsert(@, k) ELSE @]

\* waitDone: the handler has ended, or three seconds have passed.
WaitDone_NotWaiting(k) == TRUE
WaitDone_NoTimeLimit(k) == run[k] = "done"
WaitDone(k) == run[k] = "done" \/ MayHang

\* A result the handler left behind is kept; otherwise the loop makes one.
TickTimeout(k) ==
  /\ pc = "wait" /\ k \in todo /\ \A j \in todo \ {k} : Before(k, j)
  /\ WaitDone(k)
  /\ zombies' = [zombies EXCEPT ![k] = AtWork(k)]
  /\ run' = [run EXCEPT ![k] = "idle"] /\ began' = [began EXCEPT ![k] = Epoch]
  /\ resp' = [resp EXCEPT ![k] =
       IF @ = NoResponse THEN [start |-> started[k], ok |-> FALSE, by |-> "loop"] ELSE @]
  /\ update' = [update EXCEPT ![k] = Bump(now, Repeat(k))]
  /\ Enqueue(k)
  /\ pc' = "tick" /\ todo' = todo \ {k}
  /\ UNCHANGED <<now, cur, slots, due, batch, payload, confVars, timeVars, status, started, lost>>

Failed(r) == r = NoResponse \/ ~r.ok

\* done is closed: the check has ended in time.
TickFinish(k) ==
  /\ IsNext(k) /\ run[k] = "done" /\ ~TimedOut(k)
  /\ run' = [run EXCEPT ![k] = "idle"] /\ began' = [began EXCEPT ![k] = Epoch]
  /\ update' = [update EXCEPT ![k] = IF Failed(resp[k]) THEN Bump(now, Repeat(k))
                                                        ELSE started[k]]
  /\ Enqueue(k)
  /\ todo' = todo \ {k}
  /\ UNCHANGED <<pc, now, cur, slots, due, batch, payload, confVars, timeVars, status,
                 started, resp, zombies, lost>>

HasSlot_OffByOne == slots <= threads
HasSlot == slots < threads

Eligible(k) == IsDue(update[k], Repeat(k), now)

\* Still running, not due yet, or no thread free: nothing happens.
TickSkip(k) ==
  /\ IsNext(k)
  /\ \/ run[k] = "busy" /\ ~TimedOut(k)
     \/ run[k] = "idle" /\ status[k] = "live" /\ ~(Eligible(k) /\ HasSlot)
  /\ todo' = todo \ {k}
  /\ UNCHANGED <<pc, now, cur, slots, due, batch, payload, confVars, timeVars, queue,
                 checkVars>>

Removable_EvenRunning(k) == status[k] = "deleted"
Removable(k) == run[k] = "idle" /\ status[k] = "deleted"

\* A deleted check that is not running leaves the map, whether or not a handler
\* that has been given up is still at work for its object.  If the job is listed
\* again, it gets a new object.
TickRemove(k) ==
  /\ IsNext(k) /\ Removable(k)
  /\ status' = [status EXCEPT ![k] = "absent"]
  /\ started' = [started EXCEPT ![k] = Epoch] /\ update' = [update EXCEPT ![k] = Epoch]
  /\ run' = [run EXCEPT ![k] = "idle"] /\ began' = [began EXCEPT ![k] = Epoch]
  /\ resp' = [resp EXCEPT ![k] = NoResponse]
  /\ zombies' = [zombies EXCEPT ![k] = {}] /\ lost' = [lost EXCEPT ![k] = @ \cup AtWork(k)]
  /\ queue' = [queue EXCEPT ![KindOf(k)] = [i \in DOMAIN @ |-> IF @[i] = k THEN Orphan ELSE @[i]]]
  /\ todo' = todo \ {k}
  /\ UNCHANGED <<pc, now, cur, slots, due, batch, payload, confVars, timeVars>>

\* A due job of a type no handler serves is put off.
TickUnsupported(k) ==
  /\ IsNext(k) /\ run[k] = "idle" /\ status[k] = "live" /\ Eligible(k) /\ HasSlot
  /\ k \in UnsupportedKeys
  /\ update' = [update EXCEPT ![k] = now + Postpone]
  /\ todo' = todo \ {k}
  /\ UNCHANGED <<pc, now, cur, slots, due, batch, payload, confVars, timeVars, queue,
                 status, run, started, began, resp, zombies, lost>>

\* A due check starts: a context with a deadline, and a goroutine for runJob.
TickStart(k) ==
  /\ IsNext(k) /\ run[k] = "idle" /\ status[k] = "live" /\ Eligible(k) /\ HasSlot
  /\ k \notin UnsupportedKeys
  /\ run' = [run EXCEPT ![k] = "busy"]
  /\ started' = [started EXCEPT ![k] = now] /\ began' = [began EXCEPT ![k] = clock]
  /\ slots' = slots + 1
  /\ todo' = todo \ {k}
  /\ UNCHANGED <<pc, now, cur, due, batch, payload, confVars, timeVars, queue, status,
                 update, resp, zombies, lost>>

\* The jobs are done: the running checks are counted again for the dockers.
TickDockers ==
  /\ pc = "tick" /\ cur = "jobs" /\ todo = {}
  /\ EnterMap("dockers", Tracked("dockers"))
  /\ UNCHANGED <<now, due, batch, payload, confVars, timeVars, queue, checkVars>>

-----------------------------------------------------------------------------
(* drainSendQueues, sendJobsState and sendDockersState. *)

SendDue(kind) == sendTime[kind] < clock - ResponseSendTimeout /\ queue[kind] # <<>>

\* The clock is read again and both conditions are evaluated, once per turn.
DrainBegin ==
  /\ pc = "tick" /\ cur = "dockers" /\ todo = {}
  /\ pc' = "drain" /\ due' = {kind \in Kinds : SendDue(kind)}
  /\ cur' = "jobs" /\ now' = Epoch /\ slots' = 0
  /\ UNCHANGED <<todo, batch, payload, confVars, timeVars, queue, checkVars>>

\* The queue being drained: that of the jobs first.
Draining == IF "jobs" \in due THEN "jobs" ELSE "dockers"

\* What is left to drain once the queue being drained is q.
StillDue(q) == IF q = <<>> THEN due \ {Draining} ELSE due

Taken == TakeFront(queue[Draining], BatchSize(threads))
Rest  == TakeRest(queue[Draining], BatchSize(threads))

\* logUpdateTime: the start of the job's latest run.
Report(k) == [start_time |-> started[k], response |-> resp[k]]

\* No live job in the batch: it is dropped without a POST.
SendNothing ==
  /\ pc = "drain" /\ due # {} /\ Elements(Taken) \cap Live = {}
  /\ queue' = [queue EXCEPT ![Draining] = Rest]
  /\ sendTime' = [sendTime EXCEPT ![Draining] = clock]
  /\ due' = StillDue(Rest)
  /\ UNCHANGED <<pc, now, cur, todo, slots, batch, payload, confVars, clock, jobSync,
                 checkVars>>

\* A batch leaves the queue, and its body is built; the POST begins.
SendBatch ==
  /\ pc = "drain" /\ due # {} /\ Elements(Taken) \cap Live # {}
  /\ batch' = Taken /\ queue' = [queue EXCEPT ![Draining] = Rest]
  /\ payload' = [k \in Elements(Taken) \cap Live |-> Report(k)]
  /\ pc' = "post"
  /\ UNCHANGED <<now, cur, todo, slots, due, confVars, timeVars, checkVars>>

\* The POST returns, and monitoringAPIOK says whether the server took the batch.
PostReturns ==
  /\ pc = "post" /\ pc' \in {"settle", "restore"}
  /\ UNCHANGED <<now, cur, todo, slots, due, batch, payload, confVars, timeVars, queue,
                 checkVars>>

\* It did: the batch's responses are dropped (clearTrackedResponses).
PostOK ==
  /\ pc = "settle" /\ pc' = "drain"
  /\ sendTime' = [sendTime EXCEPT ![Draining] = clock]
  /\ resp' = [k \in Keys |-> IF k \in Elements(batch) THEN NoResponse ELSE resp[k]]
  /\ batch' = <<>> /\ payload' = <<>> /\ due' = StillDue(queue[Draining])
  /\ UNCHANGED <<now, cur, todo, slots, confVars, clock, jobSync, queue, status, run,
                 started, began, update, zombies, lost>>

\* It did not: the batch goes back to the head, the drain of this queue ends
\* for this turn.
PostFail ==
  /\ pc = "restore" /\ pc' = "drain"
  /\ queue' = [queue EXCEPT ![Draining] = Prepend(@, batch, Live)]
  /\ sendTime' = [sendTime EXCEPT ![Draining] = clock]
  /\ batch' = <<>> /\ payload' = <<>> /\ due' = due \ {Draining}
  /\ UNCHANGED <<now, cur, todo, slots, confVars, clock, jobSync, checkVars>>

DrainEnd ==
  /\ pc = "drain" /\ due = {}
  /\ pc' = "idle"
  /\ UNCHANGED <<now, cur, todo, slots, due, batch, payload, confVars, timeVars, queue,
                 checkVars>>

\* The loop's ticker fires.
Wake ==
  /\ pc = "idle" /\ pc' = "top"
  /\ UNCHANGED <<now, cur, todo, slots, due, batch, payload, confVars, timeVars, queue,
                 checkVars>>

-----------------------------------------------------------------------------
(* The handler goroutines, the clock and the process manager. *)

\* runJob stores the handler's response and closes done.
Finish(k) ==
  /\ run[k] = "busy"
  /\ \E ok \in BOOLEAN :
       resp' = [resp EXCEPT ![k] = [start |-> started[k], ok |-> ok, by |-> "handler"]]
  /\ run' = [run EXCEPT ![k] = "done"]
  /\ UNCHANGED <<loopVars, confVars, timeVars, queue, status, started, began, update, zombies,
                 lost>>

\* So does, later, the handler of a run the loop has given up.
FinishLate(k) ==
  /\ \E s \in zombies[k], ok \in BOOLEAN :
       /\ resp' = [resp EXCEPT ![k] = [start |-> s, ok |-> ok, by |-> "handler"]]
       /\ zombies' = [zombies EXCEPT ![k] = @ \ {s}]
  /\ UNCHANGED <<loopVars, confVars, timeVars, queue, status, run, started, began, update, lost>>

\* And the handler of an object that has left the map: it holds on to that object
\* (runJob's t), whose response nobody reads.
FinishLost_ById(k) ==
  /\ status[k] # "absent"
  /\ \E s \in lost[k], ok \in BOOLEAN :
       /\ resp' = [resp EXCEPT ![k] = [start |-> s, ok |-> ok, by |-> "handler"]]
       /\ lost' = [lost EXCEPT ![k] = @ \ {s}]
  /\ UNCHANGED <<loopVars, confVars, timeVars, queue, status, run, started, began, update,
                 zombies>>
FinishLost(k) ==
  /\ \E s \in lost[k] : lost' = [lost EXCEPT ![k] = @ \ {s}]
  /\ UNCHANGED <<loopVars, confVars, timeVars, queue, status, run, started, began, update,
                 resp, zombies>>

TimePasses ==
  /\ pc \in Blocked /\ clock < MaxTime
  /\ clock' = clock + 1
  /\ UNCHANGED <<loopVars, confVars, jobSync, sendTime, queue, checkVars>>

\* Restart=always: a new process, with nothing of the old one.
Reboot ==
  /\ pc = "exited" /\ pc' = "init"
  /\ now' = Epoch /\ cur' = "jobs" /\ todo' = {} /\ slots' = 0
  /\ due' = {} /\ batch' = <<>> /\ payload' = <<>>
  /\ jobSync' = Epoch /\ sendTime' = [kind \in Kinds |-> Epoch]
  /\ threads' = InitialThreads /\ restart' = FALSE /\ pending' = FALSE
  /\ queue' = [kind \in Kinds |-> <<>>]
  /\ status' = [k \in Keys |-> "absent"] /\ run' = [k \in Keys |-> "idle"]
  /\ started' = [k \in Keys |-> Epoch] /\ began' = [k \in Keys |-> Epoch]
  /\ update' = [k \in Keys |-> Epoch]
  /\ resp' = [k \in Keys |-> NoResponse]
  /\ zombies' = [k \in Keys |-> {}] /\ lost' = [k \in Keys |-> {}]
  /\ UNCHANGED clock

Turn == BeginUpdate \/ UpdateInstalled \/ UpdateFailed \/ Leave
        \/ TurnToGet \/ TurnToTick \/ GetFail \/ ServerAnswers
Tick(k) == TickCancel(k) \/ TickTimeout(k) \/ TickFinish(k) \/ TickSkip(k)
           \/ TickRemove(k) \/ TickUnsupported(k) \/ TickStart(k)
Drain == TickDockers \/ DrainBegin \/ SendNothing \/ SendBatch \/ PostReturns \/ PostOK
         \/ PostFail \/ DrainEnd \/ Wake
LoopStep == Turn \/ (\E k \in Keys : Tick(k)) \/ Drain

Next ==
  \/ LoopStep
  \/ \E k \in Keys : Finish(k) \/ FinishLate(k) \/ FinishLost(k)
  \/ TimePasses \/ Reboot

Spec == Init /\ [][Next]_vars

-----------------------------------------------------------------------------
(* Safety. *)

\* The types of the variables; the ids being ticked are those of one map.
TypeOK ==
  /\ clock \in Nat /\ pc \in PCs /\ now \in Int
  /\ cur \in Kinds /\ todo \subseteq KeysOf(cur) /\ slots \in Nat
  /\ due \subseteq Kinds /\ batch \in Seq(Keys \cup {Orphan})
  /\ DOMAIN payload \subseteq Keys
  /\ jobSync \in Int /\ sendTime \in [Kinds -> Int]
  /\ threads \in Nat /\ restart \in BOOLEAN /\ pending \in BOOLEAN
  /\ queue \in [Kinds -> Seq(Keys \cup {Orphan})]
  /\ status \in [Keys -> {"absent", "live", "deleted"}]
  /\ run \in [Keys -> {"idle", "busy", "done"}]
  /\ started \in [Keys -> Int] /\ began \in [Keys -> Int]
  /\ update \in [Keys -> Int]
  /\ resp \in [Keys -> Responses \cup {NoResponse}]
  /\ zombies \in [Keys -> SUBSET Int] /\ lost \in [Keys -> SUBSET Int]

\* When handlers obey their cancellation, countRunningLocked misses none that is
\* at work: each is that of a run the loop still waits for, and of an object in
\* the map.  So a job that is dropped in the middle of a check and listed again
\* is not checked twice at once.  (A handler that does not obey is missed.)
HandlersAreCounted ==
  ~MayHang => \A k \in Keys :
    /\ zombies[k] \cup lost[k] = {}
    /\ run[k] = "busy" => status[k] # "absent"

\* The result a job holds is that of a run of its present object, though a given
\* up handler of an object that has left the map may still end, after the server
\* has listed the job again.
ResultOfOwnObject ==
  \A k \in Keys : resp[k] # NoResponse => started[k] # Epoch /\ resp[k].start <= started[k]

Starts(k) == run[k] = "idle" /\ run'[k] = "busy"

\* A check starts only while fewer than worker_threads checks are running, of
\* both kinds together, whatever the server changes that number to.
StartHasThread == \A k \in Keys : Starts(k) => Cardinality(Running') <= threads
StartsWithinThreads == [][StartHasThread]_vars

\* Without IMMEDIATE_ERROR_RETRY, two runs of a tracked check start at least its
\* repeat period apart, across failures, timeouts and new lists of the server.
StartWaitedRepeat ==
  \A k \in Keys : Starts(k) /\ started[k] # Epoch /\ ~ImmediateErrorRetry
     => started'[k] - started[k] >= ClampRepeat(RawRepeat[k])
NextRunWaitsRepeat == [][StartWaitedRepeat]_vars

Startable(k) == run[k] = "idle" /\ status[k] = "live" /\ Eligible(k) /\ k \notin UnsupportedKeys

\* When a check starts, no other of its kind that could start has been due longer.
StartIsMostOverdue ==
  \A k \in Keys : Starts(k) =>
     \A j \in KeysOf(KindOf(k)) : Startable(j) => Overdue(k) <= Overdue(j)
MostOverdueFirst == [][StartIsMostOverdue]_vars

\* When handlers obey their cancellation, the result a job holds is never
\* replaced by that of an earlier run: no cancelled handler is still at work.
ResultNotOlder ==
  \A k \in Keys : ~MayHang /\ resp[k] # NoResponse /\ resp'[k] # NoResponse
     => resp[k].start <= resp'[k].start
ResultsInRunOrder == [][ResultNotOlder]_vars

\* The entries of a kind that have left the queue and are not settled yet.
Posting == pc \in {"post", "settle", "restore"}
Offered(kind) == IF Posting /\ kind = Draining THEN batch ELSE <<>>

\* A job has at most one entry in the batch and the queue of its kind, across
\* failed POSTs, removals and jobs the server lists again.
OnePendingPerJob ==
  \A kind \in Kinds :
    LET all == Offered(kind) \o queue[kind]
    IN  \A i, j \in DOMAIN all : all[i] = all[j] /\ all[i] # Orphan => i = j

-----------------------------------------------------------------------------
(* The promise to the server: each queue, with its batch, is an Outbox. *)

Pending(kind) == Compact(Offered(kind) \o queue[kind], Keys)
InPost(kind)  == Len(Compact(Offered(kind), Keys))
Answer(kind)  ==
  IF kind # Draining THEN "none"
  ELSE IF pc = "settle" THEN "taken" ELSE IF pc = "restore" THEN "refused" ELSE "none"

JobOutbox == INSTANCE Outbox WITH
  Ids <- JobKeys, waiting <- Pending("jobs"), offered <- InPost("jobs"),
  answer <- Answer("jobs"), listed <- Live \cap JobKeys
DockerOutbox == INSTANCE Outbox WITH
  Ids <- DockerKeys, waiting <- Pending("dockers"), offered <- InPost("dockers"),
  answer <- Answer("dockers"), listed <- Live \cap DockerKeys

\* Results of monitor jobs leave in the order they came, once acknowledged, and
\* in no other way while the server lists their job and the process lives.
JobResultsDelivered == JobOutbox!OutboxSpec

\* The same for the results of docker hosts.
DockerResultsDelivered == DockerOutbox!OutboxSpec

-----------------------------------------------------------------------------
(* Liveness.  Every blocking call of the loop returns: the HTTP clients and   *)
(* waitDone have timeouts.  Nothing is assumed of the handlers or the server. *)

Fairness == WF_vars(LoopStep) /\ WF_vars(Reboot) /\ SF_vars(TimePasses)
FairSpec == Spec /\ Fairness

\* The loop comes round again, whatever the handlers do.
LoopTurns == []<>(pc = "top")

\* A thread is freed once its check is past its timeout, even if the handler
\* never ends.
HungCheckIsFreed ==
  \A k \in Keys : (run[k] # "idle" /\ started[k] + MaxTimeout < MaxTime) ~> (run[k] = "idle")

-----------------------------------------------------------------------------
(* What comments and the README say, and the code does not do. *)

\* clearTrackedResponses: responses are dropped "after they have been POSTed".
ClearedOnlyAfterPost ==
  [][\A k \in Keys : pc = "settle" /\ k \in DOMAIN payload
        /\ resp[k] # NoResponse /\ resp'[k] = NoResponse
        => payload[k].response = resp[k]]_vars

\* start_time is "when the check began": that of the run the response is of.
StartTimeMatchesRun ==
  \A k \in DOMAIN payload : payload[k].response # NoResponse =>
     payload[k].start_time = payload[k].response.start

\* TimeoutResponse is for a job whose "context deadline is exceeded".
TimeoutOnlyPastDeadline ==
  [][\A k \in Keys : resp[k] = NoResponse /\ resp'[k] # NoResponse
        => resp'[k].by = "handler" \/ clock > began[k] + ClampTimeout(Timeout(k))]_vars
=============================================================================
