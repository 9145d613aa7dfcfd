------------------------- MODULE DeclaredResources -------------------------
(***************************************************************************)
(* What teams may rely on when they apply resources with the CLI: the      *)
(* registry keeps a set of declarations, at most one for each kind,        *)
(* namespace and name.  It changes by whole commands, that is all the      *)
(* files of one command, and by deletions; a declaration stays until one   *)
(* of its name takes its place or it is deleted.  Deployment implements    *)
(* this specification.                                                     *)
(***************************************************************************)
CONSTANTS Commands, Deletions   \* sets of declarations, sets of names

VARIABLE declared

SameName(d, e) == d.kind = e.kind /\ d.namespace = e.namespace /\ d.name = e.name

Apply(command) == declared' = {d \in declared : ~\E e \in command : SameName(d, e)} \cup command
Delete(names) == declared' = {d \in declared : ~\E e \in names : SameName(d, e)}

Init == declared = {}
Next == (\E command \in Commands : Apply(command)) \/ (\E names \in Deletions : Delete(names))
Spec == Init /\ [][Next]_declared
=============================================================================
