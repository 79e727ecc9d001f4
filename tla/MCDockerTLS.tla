---------------------------- MODULE MCDockerTLS ----------------------------
(* The instance of DockerTLS for TLC: hosts that start with everything; the   *)
(* first loses or replaces it in two edits, the other moves only.             *)
EXTENDS DockerTLS

MCEverything == {Uploads}
MCMaxTime == [d \in Hosts |-> IF d = 1 THEN 3 ELSE 1]
=============================================================================
