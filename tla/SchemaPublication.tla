-------------------------- MODULE SchemaPublication --------------------------
(***************************************************************************)
(* What a gateway promises about the resource group it serves: it serves   *)
(* nothing, or some version that was published, and while it runs it only  *)
(* moves forward.  GatewayService implements this specification when calls *)
(* of updateSchema do not overlap.                                         *)
(***************************************************************************)
EXTENDS Naturals

VARIABLES
    published,   \* the last version published in storage
    served       \* the version the gateway serves; 0 when it serves none

vars == <<published, served>>

Init == published = 1 /\ served = 0

Publish ==
    /\ published' = published + 1
    /\ UNCHANGED served

\* The gateway moves to a later version: the last one, or one overtaken meanwhile.
Serve ==
    /\ served' \in (served + 1)..published
    /\ UNCHANGED published

\* The gateway stops, or its process exits.
Stop ==
    /\ served # 0
    /\ served' = 0
    /\ UNCHANGED published

Next == Publish \/ Serve \/ Stop

Spec == Init /\ [][Next]_vars /\ WF_vars(Serve)

==============================================================================
