----------------------------- MODULE MCRegistry -----------------------------
(* Constants for the model-checking runs of Registry. *)
EXTENDS Registry, TLC

CONSTANTS p1, p2, s1, s2, u1, u2, alice, bob

\* Partial functions: nothing, or one pair.
Nothing == [x \in {} |-> 0]

Op(kind, policies, uses) ==
    [kind |-> kind, dryRun |-> FALSE, policies |-> policies, uses |-> uses, url |-> NoUrl]
DryRun(op) == [op EXCEPT !.dryRun = TRUE]

UpdatePolicies ==
    {Op("update", p1 :> 1, Nothing), Op("update", p1 :> 2, Nothing),
     Op("update", p1 :> 2 @@ p2 :> 3, Nothing)}
UpdateSchemas ==
    {Op("update", Nothing, s1 :> u) : u \in {u1, u2, NoUrl}} \cup {Op("update", Nothing, s2 :> u2)}
Deletions == {Op("delete", p1 :> 0, Nothing), Op("delete", Nothing, s1 :> NoUrl)}
Rebuild == Op("rebuild", Nothing, Nothing)
Refreshes == {[Op("refresh", Nothing, Nothing) EXCEPT !.url = u] : u \in {u1, u2}}

\* Every kind of request.
AllOperations ==
    UpdatePolicies \cup UpdateSchemas \cup Deletions \cup Refreshes
        \cup {Rebuild, DryRun(Rebuild), DryRun(Op("update", p1 :> 2, Nothing))}

\* The requests of the update resolver, dry runs included.
UpdateOperations ==
    {Op("update", p1 :> 1, Nothing), Op("update", p1 :> 2, s1 :> u1),
     Op("update", p2 :> 3, Nothing),
     DryRun(Op("update", p1 :> 2 @@ p2 :> 4, Nothing))}

\* One request of each kind.
MixedOperations ==
    {Op("update", p1 :> 1, s1 :> u1), Op("delete", p1 :> 0, Nothing), Rebuild,
     [Op("refresh", Nothing, Nothing) EXCEPT !.url = u1]}

\* Two requests that compile different policies.
CompilingOperations == {Op("update", p1 :> 1, Nothing), Op("update", p2 :> 2, Nothing), Rebuild}

\* Policies come and go.
PolicyOperations == {Op("update", p1 :> 1, Nothing), Op("delete", p1 :> 0, Nothing)}

ClientSymmetry == Permutations(Clients)

=============================================================================
