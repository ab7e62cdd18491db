-------------------------- MODULE SessionLifecycle --------------------------
(***************************************************************************)
(* What one client at a time may rely on: the states a session of the      *)
(* service goes through, and that archiving and deleting it are final for  *)
(* every command but the ones named here.                                  *)
(***************************************************************************)
CONSTANT Sessions

VARIABLES
  life,   \* "none" before the session exists, then SessionState
  gone    \* sessions retired by a delete command

vars == <<life, gone>>

Move(s, from, to) ==
  /\ s \notin gone
  /\ life[s] \in from
  /\ life' = [life EXCEPT ![s] = to]
  /\ UNCHANGED gone

Live == {"created", "idle", "cancelled"}

Create(s) == Move(s, {"none"}, "created")
Message(s) == Move(s, Live, "idle")
Cancel(s) == Move(s, Live, "cancelled")
Archive(s) == Move(s, Live, "archived")
Resume(s) == Move(s, Live \cup {"archived"}, "idle")

Delete(s) ==
  /\ life[s] \in Live
  /\ gone' = gone \cup {s}
  /\ UNCHANGED life

\* Some sessions already exist.
Init ==
  /\ life \in [Sessions -> {"none", "created"}]
  /\ gone = {}

Next == \E s \in Sessions :
  Create(s) \/ Message(s) \/ Cancel(s) \/ Archive(s) \/ Resume(s) \/ Delete(s)

Spec == Init /\ [][Next]_vars
=============================================================================
