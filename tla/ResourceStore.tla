--------------------------- MODULE ResourceStore ---------------------------
(***************************************************************************)
(* What the registry promises about the resource group it keeps: it        *)
(* changes by whole requests, each applied to what the one before it left. *)
(* Registry implements this specification as long as requests of different *)
(* kinds do not overlap.                                                   *)
(***************************************************************************)
EXTENDS Naturals

CONSTANT Operations   \* what clients ask for; see Registry

VARIABLE store        \* the resource group of the registry

\* "function" with the values that "changes" gives to some of its arguments.
Override(function, changes) ==
    [x \in DOMAIN function |-> IF x \in DOMAIN changes THEN changes[x] ELSE function[x]]

\* The policies and schemas of an update or a deletion replace those of the
\* same name, and leave the others.
Apply(group, op) ==
    [group EXCEPT !.policies = Override(group.policies, op.policies),
                  !.uses = Override(group.uses, op.uses)]

Uses(group, url) == \E s \in DOMAIN group.uses : group.uses[s] = url

\* A change of policies and schemas: a remote schema that is kept is kept as it
\* was, and every one that is used is there afterwards.
Change(op) ==
    /\ store'.policies = Apply(store, op).policies
    /\ store'.uses = Apply(store, op).uses
    /\ \A u \in DOMAIN store.remote :
        /\ store.remote[u] # 0 => store'.remote[u] \in {store.remote[u], 0}
        /\ Uses(store', u) => store'.remote[u] # 0

\* A refresh of one remote schema, to a later version of it.
Renew(op) ==
    /\ store.remote[op.url] # 0
    /\ store' = [store EXCEPT !.remote[op.url] = store'.remote[op.url]]
    /\ store'.remote[op.url] >= store.remote[op.url]

Next ==
    \E op \in Operations :
        \/ op.kind = "refresh" /\ Renew(op)
        \/ op.kind # "refresh" /\ ~op.dryRun /\ Change(op)

Init ==
    /\ \A p \in DOMAIN store.policies : store.policies[p] = 0
    /\ \A u \in DOMAIN store.remote : store.remote[u] = 0 /\ ~Uses(store, u)

Spec == Init /\ [][Next]_store

=============================================================================
