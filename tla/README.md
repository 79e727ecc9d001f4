# The monitoring worker in TLA+

The repository is a Go program that fetches a list of checks from a monitoring
server, runs each check in its period (HTTP, TCP, UDP, ping, exporters, Docker
hosts) and posts the results back. This directory models its main loop, its
scheduler, its send queues, the goroutines of its checks, its self-update, the cache of
docker hosts' PEM, and the rules by which responses, JSON, settings and metrics are read;
it model-checks these models with TLC on small instances, and proves the main safety
properties with TLAPS for every instance.

## 1. The system

| part | code | state | operations |
|---|---|---|---|
| main loop | `internal/app/worker.go` `Loop` | where it is; `now`; `restartFromServer`, `pendingUpdate` | self-update, restart, `getJobs`, `tickAll`, `drainSendQueues`, ticker |
| job lists | `syncJobsLocked`, `syncDockersLocked` | maps `jobs`, `dockers` of `trackedJob` | create, update, mark as deleted |
| scheduler | `tickMap`, `sortedMapKeys` | `Job.UpdateTime` (the cursor), `running`, `started` | time out, finish, remove, put off, start |
| handler goroutines | `runJob`, `internal/handlers` | `response`, `done`, the semaphore | run, store the response, close `done` |
| send queues | `worker_queue.go`, `sendJobsState`, `sendDockersState` | `sendStateJobs`, `sendDockerStateJobs` | upsert, take a batch, put it back |
| self-update | `internal/selfupdate` | the binary on disk | download, verify, replace |
| docker TLS cache | `model.MergeDockerTLS`, `dockerTLSSyncLocked` | PEM fields of docker jobs | merge, claim a revision |
| verdicts | `internal/handlers`, `response_finish.go`, `monitoringAPIOK` | - | fill a response map, judge it; judge an answer of the server |
| readers | `model/job.go`, `toInt`, `http.go` | - | decode numbers and booleans, check a value of a page |
| metrics | `exporter.go` | - | a percentage from a page's lines |
| settings | `config.go`, `applyProxy`, `proxy.go` | environment, `cfg` | look up a setting, choose a proxy |
| process | `cmd/worker/main.go`, the systemd unit | - | start, exit, restart |

One goroutine runs the loop. It takes the mutex for `tickAll` and for the lists,
and holds none while it posts. Handler goroutines never take the mutex: they write
`trackedJob.response` and close `trackedJob.done`, which the loop polls once per
turn. The server answers `get/` with configuration and both lists, and `state/`
with an acknowledgement; either may fail. The two kinds of object, monitor jobs and
docker hosts, have maps and queues of their own and share `worker_threads`.

What is hard here: the tracked object is shared between the loop, the batch being
posted, the queue and the handler, and each step of one falls between any two of
another; the lists change while checks run; POSTs fail after the batch has left the
queue; handlers may outlive their cancellation; the clock read before a slow
`getJobs` is used after it. `PROJECT.json` lists these hazards at their lines, each
with the properties that would catch it.

What makes it correct: a check starts only with a thread free, when due, and in
the order in which checks fell due; not twice within its period; a handler
that obeys its cancellation is never lost sight of, and one that does not never hands its
result to another object; a result stays in line until the server has it; the loop never
stops; a docker host has the PEM the server has for it, and no other; a check passes
exactly if the network gave what its type asks for; and what is read of JSON, pages
and settings does not depend on who reads it.

## 2. The modules

| module | models | kind |
|---|---|---|
| `Schedule` | clamps of period and timeout, due time, failure bump, timeout test | operators |
| `SendQueue` | the operations of `worker_queue.go` on sequences of ids | operators |
| `Outbox` | what the worker promises of results: an abstract specification | state machine |
| `Worker` | the loop, the lists, the scheduler, the handlers, the senders, the process | state machine |
| `RunPool` | the goroutines of `runJob`, the semaphore `w.sem`, the channels `t.done` | state machine |
| `CheckRuns` | how these goroutines look to the loop: an abstract specification | state machine |
| `SelfUpdate` | the files and the process through an update, and the error reported | state machine |
| `BinarySwap` | what an update promises of the one name systemd starts: an abstract specification | state machine |
| `DockerTLS` | the worker's PEM cache, its claims, and the server that leaves PEM out | state machine |
| `Outcomes` | from what a handler meets to the verdict on its check; the server's answers | operators |
| `JSONReading` | readers of numbers and booleans, and the JSON check | operators |
| `Metrics` | what an exporter check reports | operators |
| `Settings` | sources of a setting, choice of a proxy | operators |
| `MCRules` | all operators on their inputs, one at a time, and what is said of them | instance |
| `MCWorker`, `MCRunPool`, `MCDockerTLS` | instances for TLC (`SelfUpdate` is its own) | |
| `Iteration` | induction on numbers; loops that a recursive function stands for | proofs |
| `SendQueueProofs` | what the queue operations return, for every queue | proofs |
| `WorkerProofs` | types, thread bound, periods, order, result order; which handlers are counted, whose results are held | proofs |
| `WorkerQueueProofs` | one pending entry per job; `Worker` implements `Outbox`, once per queue | proofs |
| `RunPoolProofs` | types; channels are closed by their owners; `RunPool` implements `CheckRuns` | proofs |
| `DockerTLSProofs` | types, claims are true, cached PEM is usable | proofs |
| `RulesProofs` | all rules of `MCRules`, for every input | proofs |
| `SelfUpdateProofs` | types, the binary kept, the error waits for a get; `SelfUpdate` implements `BinarySwap` | proofs |

`Worker` extends `Schedule` and `SendQueue`, and instantiates `Outbox` twice, once
per queue, with a refinement mapping. `RunPool` looks at what `Worker` takes as one
step, the end of a handler: its abstraction `CheckRuns` is the run state of `Worker`
(`idle`, `busy`, `done`) and the fact that a run ends with its own response.
`Worker`'s `Finish` is `Store` and `End` of `CheckRuns` in one step; the loop takes no
step that tells them apart. `DockerTLS` looks at what `ServerAnswers` of `Worker` leaves
out of a docker job; `Outcomes` has the rules behind two of `Worker`'s choices, whether a
response says success and whether a POST is acknowledged. `Settings` extends
`JSONReading` for `strconv`.

### How `Worker` corresponds to the code

*State.* A tracked object is named by its id; the ids of jobs and docker hosts are
kept apart by name (`JobKeys`, `DockerKeys`), since the code keeps them in two maps.
`status` is `trackedJob.status`, where `created` and `updated` are both `"live"` and
`"absent"` means that the map has no such id; live is the code's test `JobID != 0`,
as `getJobs` zeroes the job of what is no longer listed. `run` is `running` together
with the state of `done`: `"busy"`, `"done"` (closed, not yet seen by the loop),
`"idle"`. `update` is the cursor `Job.UpdateTime`, `started` and `resp` are the
fields of those names. A response carries, for the properties only, the start of
the run it is a result of, whether it says success, and who made it; `began` records
when the run's context was created. `zombies` holds the runs the loop gave up
waiting for, `lost` those among them whose object `tickMap` has deleted since: it deletes
an object with `running` false, whether or not a given-up handler still works on it. In a queue, `Orphan` (id 0, as in the code) stands for an object that
has left the map: the slice still points at it, its job is zero, and nothing can
revive it.

*Steps.* The loop's program counter `pc` stops wherever the goroutine can block
(`getJobs`, `waitDone`, the POST, the update, the ticker): the clock moves only
there. `tickMap` is one action per object and outcome (`TickCancel` then
`TickTimeout`, `TickFinish`, `TickSkip`, `TickRemove`, `TickUnsupported`,
`TickStart`), taken in the order `sortedMapKeys` fixes (`IsNext`). Computing the next
object from the current cursors gives the order of the sort at entry, since a tick
moves only the cursor of the object it is at, which then leaves `todo`. Handler
steps (`Finish`, `FinishLate`, and `FinishLost`, which writes into an object nobody
refers to) come between any two steps of the loop. `SendBatch`
takes the batch and builds the body; `PostReturns` is the answer as `monitoringAPIOK`
judges it; `PostOK` and `PostFail` are the code after it. `Outbox` sees the three as
an offer, an answer and its effect, so that it can demand that a refused batch stays. Jobs and docker hosts use the same actions, the kind being that of the queue
(`Draining`); `sendJobsState` and `sendDockersState` differ only in logging.

*Time.* One unit of the model's clock is half of the shortest period. Waits that are
short for that unit (ten seconds after a failed get, three in `waitDone`) let the
clock move any number of units, which covers what the code can do.

*Left out of `Worker`.* The timeouts and the loop period the server may change
(constants here); periods and timeouts that change for a live job (each key has one);
the docker TLS fields (`DockerTLS`); the `update_time` sent in a POST; logging. The semaphore and the
identity of the `done` channels are in `RunPool`; when handlers hang (`MayHang`),
`Worker` has a late handler store its response, but not close another run's channel.

### How `RunPool` corresponds to the code

`phase` is where a goroutine of `runJob` is: before it evaluates `w.sem` (`begin`),
blocked in the send (`send`), before `defer close(t.done)` evaluates `t.done`
(`defer`), in its handler, before the deferred close (`close`), before the deferred
receive evaluates `w.sem` again (`release`), blocked in it (`receive`). The fields
`w.sem` and `t.done` are read without the mutex while the loop may write them; each
read is a step of its own and may fall before or after any write. A run, its
goroutine and its channel share a name, used again once nothing refers to it;
`response` says whose response was stored last (the loop's own `TimeoutResponse` and
the clearing after a POST are `Worker`'s matter). The loop's steps are those of
`tickMap` and `syncConfigLocked`, at any time: `Worker` says when. That an object is
not removed while the loop waits for its run is `tickMap`'s test of `running`
(`Removable` of `Worker`); an object that is listed again after a removal is another
object here, as it is in the code.

Two constants say what is assumed. `MayHang`: may a handler go on for more than the
three seconds of `waitDone` after its cancellation? The UDP check can, as its read
watches a deadline and not the context. `Prompt`: a goroutine that can step without
its handler does so before the loop has come through an HTTP request or through
`waitDone`. This is an assumption on the Go scheduler, not a guarantee; without it, a
goroutine that is not scheduled between `go` and the next configuration, or between
its close and its receive, could be given up although its handler obeys.

### How `SelfUpdate` corresponds to the code

`Worker` knows two outcomes of an update, `UpdateInstalled` and `UpdateFailed`;
`SelfUpdate` has the steps between. `pc` is the loop (`top`, `get`, `exit`) or the call
of `Apply` that is next; every call on the file system is one step, so that a crash
(`Ends`) falls between any two. `file[n]` is the file whose name is the binary's with
`n` times `.bak`: `Apply` computes its names from `os.Executable`, which on Linux
follows the running file through renames. If both the installation and the renaming
back fail, the process's file stays `.bak`, and the next attempt works on that name
(`own` = 1). `Junk` is any content that is not a version's: part of a download, an error
page. Checksums are taken to be collision-free. A crash is that of the process: what a
power failure does to files not synced is not modelled. A new process has another
name for its download, unless it has the same pid. `report` says that
`LastUpdateError` is set. When no file has the unit's name `Boot` is impossible, and
the service stands still until someone helps: this happens after a crash between the
two renames of `Apply`, and when both fail and the process ends. So the run allows
deadlock, and `BinaryIsKept` says what can still be helped with.

`BinarySwap` is the promise, about the one name the unit starts (`file[0]`; files under
a backup's name are nothing to it). Two renames cannot replace a file in one step, and
the promise does not pretend so: the name is emptied (`Empty`), then filled with the
version ordered (`Install`) or with the process's own program (`PutBack`), or it stays
empty, through a crash or a failed renaming back; then no process can `Start`. Once
another program than the process's stands there, the process gives no more orders and
only ends. An installation of `Apply` under a backup's name is no step of `BinarySwap`.

### How `DockerTLS` corresponds to the code

`docker` is `w.dockers`, one job per job id; a job the server does not list is `NoJob`,
as `syncDockersLocked` zeroes it, until `tickMap` forgets it. `Claimed` is
`docker_tls_sync`, which `getJobs` computes under the mutex before its request; only
`getJobs` changes the cache, so `ServerAnswers` is request and answer in one step, and
the answer is `AnswerArrives` (the lists are taken) or `AnswerLost` (any early return).
Between them the server may edit, save or relist, and the process may end. PEM is
named by its host and the revision it was uploaded at; its text is taken as valid.

The server is external, and this is assumed of it: a host is listed under one job at a
time; certificate and key are uploaded together; no two saves of anything fall into
one second; and (`MayOmit`) PEM is left out only when TLS is off or the worker claims
a revision not older than the last edit. That an answer may name no revision, and that
a save of the state alone raises it, is said by `MergeDockerTLS` and its comment.
A claim is keyed by docker id and the cache by job id: a host moved to another job
is without PEM for one get, and has it after the next (`HostsGetTheirPEM`). What the
server has taken away stays in the worker's cache, as a merge cannot tell an empty
field from one left out; so `Has` speaks of what the server still has.

### How the rules correspond to the code

`Outcomes`: a response map is a record of the four keys somebody judges by; what a
handler meets (`met`) is a record of the facts its branches test. A failure to build the
request is `~answered`; `RunExporter` leaves `status_code` 0 in that case and 500 in
the others, which no judge tells apart. `GetAccepts` is the sequence of early returns
in `getJobs`. A body of kind `"text"` is what `json.Unmarshal` refuses.

`JSONReading`: values are records of a kind and a content. What `strconv` knows of
texts is five constants, related by `JSONReadingAssumption`: reading what was
written gives the number back. `Numeral` has the texts of finite numbers; `NotFinite`
those `ParseFloat` reads as NaN or an infinity (`"Inf"`, `"1e999"`), which
`compareJSON` finds equal to nothing, themselves included (`SameNumber`); `Prefix` what
`Sscanf("%d")` in `toInt` makes of a text that begins with digits (`"7px"` is 7). Numbers count halves, so that there are some that are
not whole; those closer than `compareJSON`'s tolerance are one number. Strings come
trimmed where the code trims them; `"TRUE"` stands for every unusual case of letters. `getByDot` is a
recursive function over the parts of the path, of which there is one at least: a path of
one blank part is refused before it is looked up, although a page may have an empty key.
`getBool` has its default for an empty text.

`Metrics`: a page is a set of lines with distinct names, as `parseMetricsLines` makes
a map of it; a line that the regular expression or `Fields` does not take is
`passed_over` and counts nowhere. Values are natural numbers; the only rounding kept is
`formatFloatRound2`'s.

`Settings`: an environment is a function from the names that are set. `HandlerProxy`
is the same four lines of three handlers, of which `RunDocker` alone trims first.

## 3. What the runs check

| run | question | instance |
|---|---|---|
| `rules` | do the copies of one rule agree (period, readers, proxies, judges), and do the operators compute what is said of them | see below |
| `tracking` | `HandlersAreCounted`, `OnePendingPerJob`, `StartsWithinThreads`, `NextRunWaitsRepeat`, `ResultsInRunOrder`, both outboxes | job 1, docker 3; every list and every cursor from the server |
| `delivery` | `OnePendingPerJob`, `StartsWithinThreads`, `MostOverdueFirst`, `JobResultsDelivered` | jobs 1, 2; handlers that outlive cancellation, `IMMEDIATE_ERROR_RETRY`; two threads, cut to one by the server, so that batches of 1 and 2 leave a queue of 2; failing POSTs; clock to 3 |
| `turns` | `LoopTurns`, `HungCheckIsFreed`, `ResultOfOwnObject` | one hanging job, which may be dropped and listed again, one of a type nothing serves, restarts, updates; fairness |
| `docker_tls` | `ClaimIsTruthful`, `PEMIsUsable`, `HostsGetTheirPEM` | 2 hosts, 2 job ids, two edits or saves of one host; fairness |
| `self_update` | `BinaryIsKept`, `ErrorWaitsForGet`, `SwapsUnderUnitName` (the refinement of `BinarySwap`) | three versions, three backups' names; a failure or a crash at every step |
| `pool_obey` | `ClosesOwnChannel`, `RunsAsSeen` (the refinement of `CheckRuns`) | 2 objects, 5 runs, 2 semaphores, threads 0, 1 and 2; obedient handlers |
| `pool_settled` | `WorkWithinThreads`, `RunsAreSettled`, `GoroutinesEnd` | 2 objects, 3 runs, one semaphore, one thread; handlers that may hang; fairness |
| `pool_panic` | what the log says of a handler that hangs, which the code does not keep | 2 objects, 5 runs, one thread |
| `cleared`, `start_time`, `deadline` | three statements of comments the code does not keep | as above |

`TypeOK` of each module is checked in `delivery`, `docker_tls`, `pool_obey` and
`self_update`. All runs of `Worker`, `docker_tls`, and those of `RunPool` with obedient
handlers, check for deadlock too; the others may stop in a panic, and `rules` ends
when it has no more to try.

What `rules` says of the operators:

* `OrderAgreesWithStart`: periods a little beyond every bound of the program; `PrependIsTheLoop`, `TakeSplitsTheQueue`: queues and
  batches of up to four entries of three ids, with every set of live jobs.
* `VerdictIsTheOutcome`, `DockerVerdictsAgree`: every type of check, every failure it can
  meet, and the status codes at both sides of each limit. The handlers say success
  first and take it back; the judges are in other packages.
* `RefusalIsHeard`: every code, body, status and error of an answer. The senders
  also take a body that is not JSON for success, which `getJobs` does not; this is the
  code's own rule (`monitoringAPIOK`) and stated by no property.
* `ValuesReadAsShown`, `PathsReadAlike`: values of every kind, texts that are
  numbers, booleans or neither, and paths of up to three parts into eight pages. A string that reads as
  NaN or an infinity is excepted under `"number"`, where it fails against its own text,
  and a path of one blank part at the root. The two ways of finding a member differ for one sort of text, which `Canonical` excepts
  where the path begins: `"01"` is an index of an inner array, and not of a root array,
  whose members are named by the texts `strconv` writes.
* `ReadersAgree`: whole numbers and the usual spellings of yes and no, as they are
  and quoted. Beyond these the readers differ: `"on"` is yes in a job and in the
  environment and not in `ssl_verify`; `1.5` is 1 for `toInt` and 0 for `rawInt`.
* `UsageIsAPercentage`: two processors or two filesystems, excluded for either reason
  or not, sizes 0, 1, 2 and 7, available space no more than the size; lines that are passed over. Every line
  with `mode="idle"` is summed, as in `exporter.go:112`, which does not look at the
  line's metric.
* `OneSourceEach`: two names set or not, two files with up to two lines each; proxies
  that are empty, blank, good or no URL. The blank name of a job's proxy is excepted:
  `RunDocker` takes the worker's then, `RunHTTP` and `RunExporter` none.

*The bounds, and why they are enough.* Time bounds: `MinRepeat` = 2, `MaxRepeat` = 3,
timeouts 1 to 2, clock up to `MaxTime` = 3 or 4: long enough for a check to run,
fail, fall due again, run and time out, with a get and a POST in between; the raw
periods and timeouts lie below, at and above their bounds so that every clamp is
used. `Epoch`, for the zero time, lies further back than any period. Queue bounds:
`BatchFactor` = 1, `MinBatch` = 1, `MaxBatch` = 2 make a queue of two jobs longer
than a batch with one thread and not with two. Three objects are the least that
compete across kinds and within one. The clock is the only counter; nothing else
needs a bound.
In `RunPool` the names are the bounds: five runs and two semaphores let two goroutines
be left behind on a replaced semaphore while two work on the present one; three runs
are what the panic needs (one at work, one waiting, one started anew).
In `SelfUpdate` three names beside the unit's let the renaming back fail twice and a third
attempt succeed; three versions tell the running, the ordered and a wrong one apart.

In `DockerTLS` two hosts are the least that can change places, with a second job id to
move to; two edits or saves of one of them (`MaxTime` is a bound for each host), while an
answer is under way or after it, make a claim old, current, or new without PEM. The other
host is moved only. Hosts start with all PEM and lose or replace it by an edit.

*Fairness (`docker_tls`).* `getJobs` is called again and again (`LoopTurns` of `Worker`), so
`ServerAnswers` is weakly fair; and the network is not down for ever: strong fairness
of `AnswerArrives`, which is disabled whenever no answer is under way. Premise of
`HostsGetTheirPEM`: from some time on hosts stay under their jobs and the process
lives. Nothing is assumed of edits.

*Fairness (`turns`).* Weak fairness of the loop's own steps and of the process's
restart, and strong fairness of the clock, which is enabled on and off: each blocking
call of the loop returns, because the HTTP client and the POST have 30 second
timeouts, the download of an update has five minutes, `waitDone` has three seconds
and the ticker ticks; the unit says `Restart=always`. Nothing is assumed of the
handlers or of the server, so `Finish` is not fair.

*Fairness (`pool_settled`).* Every goroutine is scheduled, and a channel
serves its senders in turn (strong fairness of the goroutine's steps other than the
handler); the loop comes round and times out what does not end (`LoopTurns`,
`HungCheckIsFreed`). No handler need end: `GoroutinesEnd` has it as its premise. It also
needs a semaphore that is not replaced: after a replacement a goroutine waits for a
token of the new one, and is left behind if that is replaced in turn.

### What the code does not keep

Four comments and messages are refuted (`findings` in `PROJECT.json`):

* `ContinuesAfterGiveUp`: the log says "handler did not exit after cancel, continuing",
  but the process may end in a panic. A goroutine reads `t.done` only after it has its
  token. If it waits for one while its run is given up (a hanging handler of another
  run keeps the token), and gets it after the check was started again, it closes the
  new run's channel, and the new run's goroutine closes it a second time.
* `ClearedOnlyAfterPost`: the answer to a POST erases a response that a new run
  stored while the POST was under way; the next POST then says `null`.
* `StartTimeMatchesRun`: a result that waits while its check is started again is
  sent with the start of the new run.
* `TimeoutOnlyPastDeadline`: after a slow `getJobs` a check starts with a stale start
  time, and the loop gives it up before its context's deadline.

Other statements are not kept either, and no run is spent on them, as a state of the
models or a glance at the code shows it:

* `config.go:39` says that the error of a failed update is attached to the next `get/`.
  It is memory of the process: when the answer with the order asked for a restart too,
  the loop leaves before that `get/` (`worker.go:114`), and after a crash it is gone as
  well; the server then orders the update again, unaware. `ErrorWaitsForGet` says that
  it takes one of these two, and that within a process no later attempt overwrites it.
* `selfupdate.go:27` says that systemd starts the new binary after a success. After a
  failed renaming back the process's file has a backup's name, a later `Apply` installs
  under that name and succeeds, and the name that systemd starts stays empty.
* A handler that was given up is not in `countRunningLocked`'s count, and when its
  object is deleted nothing refers to it any more; a job that is dropped and listed
  again meanwhile may be checked twice at once. `HandlersAreCounted` says that this
  takes a handler that outlives its cancellation; the semaphore still counts it.
* A JSON check of type `number` with the text `NaN` or `Inf` fails against the very text
  its message shows (`http.go:302`).

The README's "in order of most overdue" is stated and proved within a kind
(`MostOverdueFirst`): `tickAll` gives the threads to the jobs before the dockers.

## 4. What is proved

For every set of checks, thread count, period, timeout, list and clock bound allowed
by the assumptions (`ScheduleAssumption`, `SendQueueAssumption`, `WorkerAssumption`,
`RunPoolAssumption`, `SelfUpdateAssumption`, `DockerTLSAssumption`, `OutcomesAssumption`,
`JSONReadingAssumption`, `RulesAssumption`):

| theorem | property | the invariant it needs |
|---|---|---|
| `TypeCorrect` | `TypeOK` | itself |
| `ObedientAreCounted` | `HandlersAreCounted` | itself: an object is removed between its runs only, and no run is given up |
| `ResultsAreOwn` | `ResultOfOwnObject` | `RunsAreOwn`: every handler that can still reach the object is of a run it has begun, whether the loop waits for it or has given it up. It needs that a start is stamped with a reading of the clock (`TickIsPresent`), never before the last one (`StartsArePast`), and that `waitDone` waits for a run (`WaitsForRun`) |
| `ThreadsBoundStarts` | `StartsWithinThreads` | `SlotsCover`: while a map is ticked the local count `slots` is at least the number of running checks. Handlers that end, and removals, only lower the number; starts raise both |
| `PeriodsRespected` | `NextRunWaitsRepeat` | `StartsArePast` (no start lies after the turn's clock reading) and `CursorKept`: the cursor of an idle check is not behind its last start, except a deleted check that this very turn will remove |
| `MostOverdueStarts` | `MostOverdueFirst` | `VisitedSettled`: a check the tick has passed over cannot start, or has no slot, or fell due now at the earliest. That a check which has just ended is not overdue needs timeout <= period, and that the order and the start test use the same period |
| `ResultsKeepRunOrder` | `ResultsInRunOrder` | `ResultsArePast`: with obedient handlers nothing is given up and every response is of the latest run or an earlier one |
| `PoolTypeCorrect` | `TypeOK` of `RunPool` | itself |
| `ChannelsClosedByOwner` | `ClosesOwnChannel`, for obedient handlers and prompt goroutines | `Owned` (a goroutine that has not closed is the present run of its object) and `Counted`: tokens and goroutines still to come are together at most the threads and the goroutines that leave. So nobody waits for a token when all is quiet, and no run is given up, even after a configuration with fewer threads |
| `GoroutinesImplementCheckRuns` | `RunsAsSeen`, under the same assumptions | the same |
| `UpdateTypeCorrect`, `UpdateKeepsBinary` | `TypeOK` of `SelfUpdate`, `BinaryIsKept` | `Files`: which name is the first that holds a version, and which version, at every step of `Apply`; what was verified is what was ordered |
| `ErrorsWait` | `ErrorWaitsForGet` | `Reports`: an order waits only at the top of a turn and came with the answer that took the error; the loop is left with an error only for a restart |
| `UpdateImplementsSwap` | `SwapsUnderUnitName` | `Files` and `Process`: while nothing is installed the process's file is the first there is, so the unit's name holds it or is empty (`UnitName`), and the name `Apply` installs under is empty |
| `CacheTypeCorrect` | `TypeOK` of `DockerTLS` | itself |
| `ClaimsAreTruthful` | `ClaimIsTruthful` | `Dates` (no job names a revision later than the server's), `JobsCurrent` (what a job whose revision is as new as the last edit has) and `AnswerCurrent`: an answer that will bring a job up to date was given after that edit, with all PEM, or with none because of a claim that holds. In the second case the job that claims keeps its PEM, and a host that has moved comes to a job without a CA, which claims nothing |
| `CachedPEMIsUsable` | `PEMIsUsable` | `SoundPEM`: cache, answer and server hold PEM of the right host, certificate and key of one upload. It rests on the test of ids in `MergeDockerTLS` and on pairs being left out as pairs |
| `OrderAgrees`, `TakesSplitQueues` | the rules of `Schedule` and `SendQueue` of those names in `rules` | that the inputs stay integers and sequences |
| `VerdictsAreOutcomes`, `DockerJudgesAgree` | `VerdictIsTheOutcome`, `DockerVerdictsAgree` | none: one lemma per handler, for every integer code |
| `ChecksSeeShownText`, `AllReadersAgree` | `ValuesReadAsShown`, `ReadersAgree` | none: they rest on `JSONReadingAssumption` only |
| `PrependsAreLoops` | `PrependIsTheLoop` | that queue and batch stay sequences; after m turns a pass has the first entries of the live jobs among the first m (`BatchPass`), or the live jobs that the batch did not have (`QueuePass`) |
| `PathsAgree` | `PathsReadAlike` | none: after m more steps both walks are at the same node (`WalksAgree`), and a root array made into a map has under an index's text what it had at the index (`RootReadAlike`) |
| `UsagesArePercentages` | `UsageIsAPercentage` | `MeasuresOK`: amounts are naturals, and what is left of a whole is no more than the whole. A sum does not depend on the order in which lines are taken (`SumSplits`) |
| `SourcesDecide` | `OneSourceEach` | `SourcesOK`: an environment, and two files of lines. After m lines each name has the text of its first line, if the environment did not have it (`SetBy`) |
| `RefusalsAreHeard` | `RefusalIsHeard` | none: the conditions of `getJobs` and of the senders, compared |
| `QueuesHoldOnePerJob` | `OnePendingPerJob` | `QueuesDistinct`: the batch being posted and its queue are free of repetitions together, which is what `Prepend` needs after a failure |
| `JobQueueIsOutbox`, `DockerQueueIsOutbox` | `JobResultsDelivered`, `DockerResultsDelivered` | `QueuesDistinct` and `EntriesOfKind`: a queue holds objects of its kind and orphans only, and a batch under way is of the kind that drains and has an entry that is no orphan (else the offer would be empty) |

`SendQueueProofs` has the facts on the queue operations these rest on, for every
queue: what a selection by positions returns (`PickFacts`), how selections join
and when one is a thinning of another (`PickConcat`, `PickThins`), that a batch and its
rest make up the queue (`TakeFacts`), that upsert and prepend create no second entry
(`UpsertFacts`, `PrependFacts`), and that a batch which is put back stands in its old
place (`PrependCompact`).

*The refinement of `Outbox`.* What waits is the queue, behind the batch that is being
posted, without orphans; what is offered is the number of the batch's entries that
are not orphans. An upsert (`TickFinish`, `TickTimeout`) is `Put`, the server's lists
are `List`, a batch that is taken is `Offer`, the answer is `Return`, and `PostOK` and
`PostFail` are `Accept` and `Refuse`. `TickRemove` makes an orphan of an entry, and
`SendNothing` drops a batch of deleted jobs: both are `Withdraw`. What concerns the
other kind of object leaves the outbox as it is. `Refuse` is the hard case: the batch
has left its queue, and `prependSendQueueFront` drops dead entries and repetitions.
With `QueuesDistinct` there are no repetitions to drop, and `PrependCompact` says
that the rest stands where it stood.

*Induction.* The library's theorems on induction take an operator as a parameter,
which the installed provers cannot instantiate. `Iteration` therefore proves induction
over 0 .. N for a set, from the least element of a set of numbers (`WFMin` and
`NatLessThanWellFounded`, which are first-order), and with it that a loop, given by its
step, has a last state (`LoopExists`) and unrolls (`LoopUnrolls`). `RulesProofs`
instantiates it with the step of each recursive function of the model, and shows by
`Induction` what the loop has done after m turns.

Only model-checked: the liveness properties, `LoopTurns`, `HungCheckIsFreed`,
`HostsGetTheirPEM`, `RunsAreSettled` and `GoroutinesEnd` (liveness and ENABLED are beyond
the prover), absence of deadlock, which is ENABLED too, and the four refuted
statements. `WorkWithinThreads` is checked for one semaphore and not proved: it is not
true of several. Every other invariant and action property of the passing runs is
proved, and every refinement.

The rules of `MCRules` are proved for the inputs it enumerates, with every value of its
constants: any ids, codes, amounts, lengths of queues and texts known to `strconv`.
Fixed in the statements are the eight pages (the theorem `PathsInAnyPage` is for every page
whose indices `strconv` can write and every path that is not blank), the texts of the settings, two files of up to two
lines (`SourcesOfAnyFile` is for files of any length) and two processors or filesystems.

## 5. What is not modelled

* The network calls of the handlers: dialling, TLS verification, redirects, timeouts of
  the transport, `engine_info` and the details of containers, certificate expiry, the
  `Log` header and other texts. They are sequential and their effect on the worker is
  the outcome, which is modelled.
* Decoding that is a library's: JSON text, base64, PEM, URLs. Floating-point rounding
  other than the last step. A page cut off at a size limit (a JSON page then is not
  JSON; an exporter's is read as if complete). Amounts of an exporter's page that are NaN
  or infinite.
* `UnmarshalJSON` as such: it names for each field its reader.
* Compressed answers: `postMonitoring` sets `Accept-Encoding` itself, so a compressed
  body reaches `monitoringAPIOK` as text (a body of kind `"text"`).
* Logging (`http_log.go` and the formatters), which only writes text. A message of
  `RunDocker` (`handlers/docker.go:188`) still says that a 4xx leaves `status` 1, which
  lines 165 to 170 do not do.
* `main` and the unit are in `Worker` as `Init` and `Reboot`, without systemd's start
  limit.

The status of each part is in `PROJECT.json`.

## 6. Plan

Done: `Schedule`, `SendQueue`, `Worker`, `Outbox`, `RunPool`, `CheckRuns`, `SelfUpdate`,
`BinarySwap`, `DockerTLS`, `Outcomes`, `JSONReading`, `Metrics`, `Settings`, and the proofs
above. Left, in this order:

1. The timeouts of the configuration as variables of `Worker`. `loop_timeout` is stored
   when the server changes it, but the ticker was made before the loop began.
2. Liveness of dispatch and delivery on an untimed abstraction of `Worker`; its safety
   part, that `Worker` implements the abstraction, can be proved like `Outbox`.
