---------------------------- MODULE MockRouting ----------------------------
(***************************************************************************)
(* What rtest promises a test about mocks, without addresses, weak         *)
(* references or registry: a mock is attached to one live entity, from     *)
(* then on it receives what that entity does (publish, send_response,      *)
(* async_send_request, ...), and it does so until the test drops it.       *)
(* MockRegistry implements this when tests are disciplined.                *)
(***************************************************************************)
CONSTANTS Entities, Mocks, None

VARIABLES
  life,    \* [Entities -> "unborn" | "live" | "gone"]
  bound,   \* the mock that receives an entity's calls, or None
  owner    \* the entity a mock was attached to, or None

vars == <<life, bound, owner>>

Init ==
  /\ life  = [e \in Entities |-> "unborn"]
  /\ bound = [e \in Entities |-> None]
  /\ owner = [m \in Mocks |-> None]

Appear(e) ==
  /\ life[e] = "unborn"
  /\ life' = [life EXCEPT ![e] = "live"]
  /\ UNCHANGED <<bound, owner>>

Attach(m, e) ==
  /\ life[e] = "live"
  /\ bound[e] = None
  /\ owner[m] = None
  /\ bound' = [bound EXCEPT ![e] = m]
  /\ owner' = [owner EXCEPT ![m] = e]
  /\ UNCHANGED life

Drop(m, e) ==
  /\ bound[e] = m
  /\ bound' = [bound EXCEPT ![e] = None]
  /\ UNCHANGED <<life, owner>>

Vanish(e) ==
  /\ life[e] = "live"
  /\ bound[e] = None
  /\ life' = [life EXCEPT ![e] = "gone"]
  /\ UNCHANGED <<bound, owner>>

Next ==
  \/ \E e \in Entities : Appear(e) \/ Vanish(e)
  \/ \E e \in Entities, m \in Mocks : Attach(m, e) \/ Drop(m, e)

Spec == Init /\ [][Next]_vars
=============================================================================
