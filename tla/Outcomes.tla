------------------------------ MODULE Outcomes ------------------------------
(***************************************************************************)
(* From what a handler meets on the network to what is said of the check.  *)
(* Every handler of internal/handlers starts with a response map that says *)
(* success and takes that back on each of its failures; the loop           *)
(* (responseIndicatesFailure) and, for docker hosts, a second judge        *)
(* (DockerResponseAcceptedByServer) read the map.  Also: the server's own  *)
(* answers, as the two callers of postMonitoring judge them.               *)
(***************************************************************************)
EXTENDS Integers

CONSTANT Absent   \* the value of a key that a response map does not have

ASSUME OutcomesAssumption == Absent \notin Int

JobTypeHTTPS    == 0
JobTypeTCP      == 2
JobTypePing     == 3
JobTypeDocker   == 4
ExporterTypes   == 5 .. 7
JobTypeHTTPJSON == 8
JobTypeUDP      == 18

-----------------------------------------------------------------------------
(* The response maps, with the keys somebody judges by; container_states is   *)
(* the number of its entries.                                                 *)

Response(status, code) == [status |-> status, status_code |-> code,
                           json_valid |-> Absent, container_states |-> Absent]

Reached(code)   == Response(1, code)
Refused(code)   == Response(0, code)
TimeoutResponse == Refused(0)

\* What an HTTP request of a handler meets: a failure before any status line,
\* or a status code, and in the body what the handler looks for there: whether
\* the JSON check holds, whether the body is a list of containers, how many of
\* these have a name.
RunHTTP(type, met) ==
  LET resp == Response(IF met.code < 200 \/ met.code >= 500 THEN 0 ELSE 1, met.code)
  IN  IF ~met.answered THEN Refused(0)
      ELSE IF type # JobTypeHTTPJSON THEN resp
      ELSE [resp EXCEPT !.json_valid = IF met.json_check THEN 1 ELSE 0]

RunExporter(met) ==
  IF ~met.answered THEN Refused(500)
  ELSE IF met.code \in 200 .. 299 THEN Reached(met.code) ELSE Refused(met.code)

RunDocker_TakesEmptyList(met) ==
  IF ~met.answered THEN Refused(0)
  ELSE IF ~(met.code \in 200 .. 299 /\ met.list) THEN Refused(met.code)
  ELSE [Reached(met.code) EXCEPT !.container_states = met.named]
RunDocker(met) ==
  IF ~met.answered THEN Refused(0)
  ELSE IF ~(met.code \in 200 .. 299 /\ met.list /\ met.named > 0) THEN Refused(met.code)
  ELSE [Reached(met.code) EXCEPT !.container_states = met.named]

\* What a probe without HTTP meets, call by call: "ok", "timeout" or "error".
\* RunUDP takes a timeout of its write or of its read for an open port.
RunTCP(met)  == IF met.dial = "ok" THEN Reached(200) ELSE Refused(504)
RunPing(met) == IF met.exit = "ok" THEN Reached(200) ELSE Refused(502)
RunUDP(met)  ==
  IF met.dial # "ok" \/ met.write = "error" \/ (met.write = "ok" /\ met.read = "error")
    THEN Refused(504)
    ELSE Reached(200)

\* The handler a type selects, run on what the check meets.
Handle(type, met) ==
  CASE type \in {JobTypeHTTPS, JobTypeHTTPJSON} -> RunHTTP(type, met)
    [] type = JobTypeTCP       -> RunTCP(met)
    [] type = JobTypeUDP       -> RunUDP(met)
    [] type = JobTypePing      -> RunPing(met)
    [] type \in ExporterTypes  -> RunExporter(met)
    [] type = JobTypeDocker    -> RunDocker(met)

-----------------------------------------------------------------------------
\* The loop's judgement of a finished check.
responseIndicatesFailure_StatusAlone(resp, type) ==
  resp.status = 0 \/ (type = JobTypeHTTPJSON /\ resp.json_valid = 0)
responseIndicatesFailure(resp, type) ==
  \/ resp.status = 0
  \/ type = JobTypeHTTPJSON /\ resp.json_valid = 0
  \/ resp.status_code >= 400

DockerContainerStatesCount(resp) ==
  IF resp.container_states = Absent THEN 0 ELSE resp.container_states

\* What the worker says the server takes of a docker host.
DockerResponseAcceptedByServer(resp) ==
  /\ resp.status = 1
  /\ resp.status_code \in 200 .. 299
  /\ DockerContainerStatesCount(resp) > 0

-----------------------------------------------------------------------------
(* The server's answers.  `failed` is a transport error; the body is "empty",  *)
(* "text" (not JSON, or JSON that does not fit the answer's fields) or an       *)
(* "object" with a status (0 when it has none) and perhaps an error.           *)

monitoringAPIOK_ReadsNoBody(answer) ==
  ~answer.failed /\ answer.code = 200 /\ answer.body # "empty"
monitoringAPIOK(answer) ==
  /\ ~answer.failed
  /\ answer.code = 200 /\ answer.body # "empty"
  /\ answer.body = "object" => answer.status = 0

\* getJobs goes on to the lists, and clears the update error, only after this.
GetAccepts(answer) ==
  /\ ~answer.failed
  /\ answer.code = 200 /\ answer.body # "empty"
  /\ answer.body = "object" /\ ~answer.error /\ answer.status = 0
=============================================================================
