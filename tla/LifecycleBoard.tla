-------------------------- MODULE LifecycleBoard ---------------------------
(***************************************************************************)
(* What the lifecycle promises, with no requests and no database: each     *)
(* insight stands in one state, and its history is a set of numbered moves *)
(* along edges of the transition map.                                      *)
(*                                                                         *)
(* BoardSpec is the promise of the docs: a move starts from the state its  *)
(* insight stands in and gets the highest number.  LedgerSpec is what is   *)
(* left of it when requests interleave: a move starts from some state that *)
(* its insight was recorded in under a lower number, and moves may be      *)
(* recorded in another order than they are numbered.                       *)
(***************************************************************************)
EXTENDS Naturals, Transitions

CONSTANT Insights

VARIABLES state, moves

boardVars == <<state, moves>>

BoardInit ==
  /\ state = [i \in Insights |-> "extracted"]
  /\ moves = {}

\* A move is recorded, under a number of its own.
Recorded(m) ==
  /\ moves' = moves \cup {m}
  /\ \A p \in moves : p.no # m.no
  /\ m.insight \in Insights
  /\ canTransition(m.from, m.to)
  /\ state' = [state EXCEPT ![m.insight] = m.to]

Move(m) ==
  /\ Recorded(m)
  /\ m.from = state[m.insight]
  /\ \A p \in moves : p.no < m.no

Record(m) ==
  /\ Recorded(m)
  /\ \/ m.from = "extracted"
     \/ \E p \in moves : p.insight = m.insight /\ p.to = m.from /\ p.no < m.no

BoardSpec  == BoardInit /\ [][\E m \in moves' : Move(m)]_boardVars
LedgerSpec == BoardInit /\ [][\E m \in moves' : Record(m)]_boardVars
=============================================================================
