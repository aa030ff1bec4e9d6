---------------------------- MODULE Transitions ----------------------------
(***************************************************************************)
(* The insight transition map of src/events.ts: the lifecycle states, the  *)
(* edges between them, who may take each edge, and the payload each edge   *)
(* demands.  Pure operators, shared by every module that moves an insight. *)
(***************************************************************************)

States == {"extracted", "triaged", "finalized", "ticketed", "shipped",
           "client_notified", "closed", "rejected", "merged"}

Edge(from, to, who) == [from |-> from, to |-> to, who |-> who]

\* Mutant: an insight may be closed as soon as it is finalized (the later edges left out).
TRANSITIONSShortcut ==
  { Edge("extracted", "triaged",   "any"),
    Edge("triaged",   "finalized", "assignee"),
    Edge("finalized", "closed",    "assignee") }

\* who = "any" | "assignee" | "admin"; an admin may take every edge.
TRANSITIONS ==
  { Edge("extracted",       "triaged",         "any"),
    Edge("extracted",       "rejected",        "any"),
    Edge("extracted",       "merged",          "any"),
    Edge("triaged",         "finalized",       "assignee"),
    Edge("triaged",         "rejected",        "any"),
    Edge("triaged",         "merged",          "any"),
    Edge("finalized",       "ticketed",        "assignee"),
    Edge("finalized",       "shipped",         "assignee"),
    Edge("finalized",       "rejected",        "admin"),
    Edge("ticketed",        "shipped",         "assignee"),
    Edge("shipped",         "client_notified", "assignee"),
    Edge("shipped",         "closed",          "assignee"),
    Edge("client_notified", "closed",          "assignee"),
    Edge("closed",          "finalized",       "admin") }

canTransition(from, to) ==
  \E rule \in TRANSITIONS : rule.from = from /\ rule.to = to

isActorAllowed(rule, isAdmin, isAssignee) ==
  \/ isAdmin
  \/ rule.who = "any"
  \/ rule.who = "assignee" /\ isAssignee

\* Edges whose guard text mentions a reason and whose target is one of the two
\* states transitionInsight checks it for.  Reopening (closed -> finalized)
\* mentions a reason too, but its target is not one of the two.
RequiresReason(from, to) ==
  \/ to = "rejected"
  \/ from = "shipped" /\ to = "closed"

Terminal == {"rejected", "merged"}

PastShipped == {"shipped", "client_notified", "closed"}
=============================================================================
