----------------------------- MODULE CheckRuns -----------------------------
(***************************************************************************)
(* How the goroutines of the checks look to the main loop, and how Worker  *)
(* models them: a started check is busy until its handler has left a       *)
(* response, is then done, and is settled by the loop with the response of *)
(* that very run.                                                          *)
(***************************************************************************)
CONSTANT Tracked     \* the tracked objects

VARIABLES
  state,   \* "idle", "busy", or "done" and not yet seen by the loop
  own      \* is the stored response that of the latest run?

runsVars == <<state, own>>

RunsInit ==
  /\ state = [k \in Tracked |-> "idle"]
  /\ own = [k \in Tracked |-> FALSE]

Begin(k) ==
  /\ state[k] = "idle"
  /\ state' = [state EXCEPT ![k] = "busy"] /\ own' = [own EXCEPT ![k] = FALSE]

\* The handler's response is stored, and only then is the run done.
Store(k) ==
  /\ state[k] = "busy" /\ ~own[k]
  /\ own' = [own EXCEPT ![k] = TRUE] /\ UNCHANGED state

End(k) ==
  /\ state[k] = "busy" /\ own[k]
  /\ state' = [state EXCEPT ![k] = "done"] /\ UNCHANGED own

Settle(k) ==
  /\ state[k] = "done"
  /\ state' = [state EXCEPT ![k] = "idle"] /\ UNCHANGED own

RunsNext == \E k \in Tracked : Begin(k) \/ Store(k) \/ End(k) \/ Settle(k)

RunsSpec == RunsInit /\ [][RunsNext]_runsVars
=============================================================================
