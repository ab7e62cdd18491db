---------------------------- MODULE MCSessionStream ----------------------------
(***************************************************************************)
(* Subscribers of one session in two scenes: its writers race, or they     *)
(* wait for one another and the stream task is fair.                       *)
(***************************************************************************)
EXTENDS SessionStream

VARIABLE scene

mcVars == <<scene, allVars>>

Orderly == INSTANCE SessionStream WITH Serial <- TRUE

MCInit == scene \in {"races", "orderly"} /\ StreamInit

MCNext ==
  /\ UNCHANGED scene
  /\ \/ scene = "races" /\ StreamNext
     \/ scene = "orderly" /\ Orderly!StreamNext

\* The fairness of StreamFair, in the second scene.
InScene(A) == scene = "orderly" /\ A /\ UNCHANGED scene

MCSpec ==
  /\ MCInit /\ [][MCNext]_mcVars
  /\ \A c \in Clients :
       /\ WF_mcVars(InScene(Send(c)))
       /\ WF_mcVars(InScene(Poll(c)))
       /\ SF_mcVars(InScene(Shutdown(c)))

-----------------------------------------------------------------------------
\* While writers wait for one another, what a client received is the beginning of the
\* log: it resumes exactly where it left off (service.rs:853).  A client that stays
\* connected gets every event of the log (write_stream), and stop ends every stream
\* that is open (transport.rs:259).
OrderlyStreams ==
  scene = "orderly" => []ReceivedIsLogPrefix /\ EveryEventDelivered /\ StopEndsStreams
=============================================================================
