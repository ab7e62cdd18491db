---------------------------- MODULE MCSessionSerial ----------------------------
(***************************************************************************)
(* Clients of the session service that wait for one another, in two        *)
(* scenes: in one a task may die after any statement, in the other none    *)
(* dies and clients name the cursor they expect.                           *)
(***************************************************************************)
EXTENDS SessionService, TLC

VARIABLE scene

serialVars == <<scene, vars>>

Lossy == INSTANCE SessionService WITH
  Kinds <- {"submit_message", "cancel", "archive", "resume", "delete"},
  Expectations <- {}, Serial <- TRUE, MayFail <- TRUE

Reliable == INSTANCE SessionService WITH
  Kinds <- {"submit_message", "attach", "fork", "delete"},
  Expectations <- {1, 3}, Serial <- TRUE, MayFail <- FALSE

SerialInit == scene \in {"lossy", "reliable"} /\ Init

SerialNext ==
  /\ UNCHANGED scene
  /\ \/ scene = "lossy" /\ Lossy!Next
     \/ scene = "reliable" /\ Reliable!Next

SerialSpec == SerialInit /\ [][SerialNext]_serialVars

\* Requests and keys are interchangeable; every value of them is a model value.
Symmetry == Permutations(Requests) \cup Permutations(Keys)
=============================================================================
