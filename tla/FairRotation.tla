----------------------------- MODULE FairRotation -----------------------------
(***************************************************************************)
(* What GetNextServiceNode promises its callers ("Load Balancing", "Round  *)
(* Robin" in the repository's README.md:102): the nodes of a service are   *)
(* handed out in rounds, every node once per round whoever asks, and a     *)
(* round is cut short only by a change of the service's node list.         *)
(* Calls that return no node are left out: "given" is None for them.       *)
(***************************************************************************)
EXTENDS FiniteSets

CONSTANTS Services, Nodes, Callers, None

VARIABLES
  members,   \* the nodes of each service
  served,    \* the nodes of each service handed out in the current round
  given      \* the node each caller was given last, or None

vars == <<members, served, given>>

Init ==
  /\ members \in [Services -> SUBSET Nodes]
  /\ \A s \in Services : served[s] = {}
  /\ given = [c \in Callers |-> None]

\* A node that had no turn in this round is handed out.
Give(s, c) ==
  \E n \in members[s] \ served[s] :
    /\ given' = [given EXCEPT ![c] = n]
    /\ served' = [served EXCEPT ![s] = IF @ \cup {n} = members[s] THEN {} ELSE @ \cup {n}]
    /\ UNCHANGED members

\* The node list changes to another one: a new round starts.
ChangeMembers(s) ==
  \E m \in SUBSET Nodes :
    /\ m # members[s]
    /\ members' = [members EXCEPT ![s] = m]
    /\ served' = [served EXCEPT ![s] = {}]
    /\ UNCHANGED given

\* The caller starts another call.
Ask(c) ==
  /\ given' = [given EXCEPT ![c] = None]
  /\ UNCHANGED <<members, served>>

Next ==
  \/ \E s \in Services, c \in Callers : Give(s, c)
  \/ \E s \in Services : ChangeMembers(s)
  \/ \E c \in Callers : Ask(c)

Spec == Init /\ [][Next]_vars
===============================================================================
