------------------------------ MODULE Settings ------------------------------
(***************************************************************************)
(* Where a setting comes from: the environment, a file .env in one of two  *)
(* places, or the default in the code (config/config.go); and a check's    *)
(* proxy, which the job or the worker's settings name (applyProxy, the     *)
(* handlers, handlers/proxy.go).                                           *)
(***************************************************************************)
EXTENDS JSONReading

CONSTANT BadHosts   \* the proxies' names of which url.Parse makes no URL

\* An environment is a function from the names set in it to texts.  A line of a
\* file is trimmed, without its quotes, and no comment.
SetLine_Overrides(env, line) ==
  [name \in DOMAIN env \cup {line.name} |->
     IF name = line.name THEN line.text ELSE env[name]]
SetLine(env, line) ==
  [name \in DOMAIN env \cup {line.name} |->
     IF name \in DOMAIN env THEN env[name] ELSE line.text]

\* The places are tried in turn and the first file that is there is the only one
\* read: the working directory's, then the one beside the executable.
loadDotEnvIfExists(env, files) ==
  LET there == {i \in DOMAIN files : files[i].exists}
      first == CHOOSE i \in there : \A j \in there : i <= j
      lines == IF there = {} THEN <<>> ELSE files[first].lines
      after[n \in 0 .. Len(lines)] ==
        IF n = 0 THEN env ELSE SetLine(after[n - 1], lines[n])
  IN  after[Len(lines)]

getString(env, name, def) == IF name \in DOMAIN env THEN env[name] ELSE def
getInt(env, name, def) ==
  LET text == getString(env, name, "") IN IF text \in WholeTexts THEN Atoi(text) ELSE def

-----------------------------------------------------------------------------
TrimSpace(host) == IF host = Blank THEN "" ELSE host

\* The worker fills in its own proxy, and its type with it, for a job without one.
applyProxy(job, worker) == IF job.host = "" /\ worker.host # "" THEN worker ELSE job

\* What RunHTTP and RunExporter, and what RunDocker makes of the job's proxy.
HandlerProxy(handler, job, worker) ==
  LET host == IF handler = "docker" THEN TrimSpace(job.host) ELSE job.host
  IN  IF host = "" THEN worker ELSE job

\* How the transport goes then; a proxy of which no URL can be made is passed by.
configureTransportProxy(proxy) ==
  IF TrimSpace(proxy.host) = "" \/ proxy.host \in BadHosts THEN [via |-> "direct", host |-> ""]
  ELSE [via  |-> IF Atoi(proxy.type) \in 4 .. 7 THEN "SOCKS5" ELSE "HTTP", host |-> proxy.host]

ProxyOf(handler, job, worker) ==
  configureTransportProxy(HandlerProxy(handler, applyProxy(job, worker), worker))
=============================================================================
