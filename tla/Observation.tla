---------------------------- MODULE Observation ----------------------------
(***************************************************************************)
(* What observing a resource promises to a client (README.md:19,           *)
(* "Resource observation"): while it is an observer it is told values that *)
(* the resource had, never an older one after a newer one, and in the end  *)
(* the value that stays.  Observe implements its steps; its fairness, the  *)
(* "in the end", only where no mark is missed (ObservationKept).           *)
(*                                                                         *)
(* Values are numbered in the order of the PUTs they come from.            *)
(***************************************************************************)
EXTENDS Naturals

CONSTANTS
  Clients,    \* the clients that may observe
  MaxValue    \* bound on the number of values

VARIABLES
  value,      \* the resource's value
  observers,  \* the clients that observe it
  seen        \* the value that each client was told last

observationVars == <<value, observers, seen>>

Init ==
  /\ value = 0
  /\ observers = {}
  /\ seen = [c \in Clients |-> 0]

Change ==
  /\ value' \in value + 1 .. MaxValue
  /\ UNCHANGED <<observers, seen>>

\* A notification, or the answer that makes an observer of a client.
Tell(c, v) ==
  /\ v \in seen[c] .. value
  /\ seen' = [seen EXCEPT ![c] = v]
  /\ observers' = observers \cup {c}
  /\ UNCHANGED value

\* The server gives up an observer, and tells it so.
Drop(c) ==
  /\ observers' = observers \ {c}
  /\ UNCHANGED <<value, seen>>

Next ==
  \/ Change
  \/ \E c \in Clients : Drop(c) \/ \E v \in seen[c] .. value : Tell(c, v)

\* An observer that does not know the value is told it, or given up.
Inform(c) == c \in observers /\ seen[c] # value /\ (Tell(c, value) \/ Drop(c))

Spec ==
  /\ Init /\ [][Next]_observationVars
  /\ \A c \in Clients : WF_observationVars(Inform(c))
=============================================================================
