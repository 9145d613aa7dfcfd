---------------------------- MODULE MCDeployment ----------------------------
(* Instances of Deployment for TLC. *)
EXTENDS Deployment

Doc(kind, namespace, name, body) == [kind |-> kind, namespace |-> namespace, name |-> name, body |-> body]
Type(type, fields) == [type |-> type, directives |-> {}, fields |-> fields]
Upstream(namespace, name, hosts, auth) ==
    Doc("Upstream", namespace, name, [selector |-> "sourceHosts", hosts |-> hosts, auth |-> auth])
Text(documents, skip, dryRun, basePolicy) ==
    [documents |-> documents, skip |-> skip, dryRun |-> dryRun, basePolicy |-> basePolicy]

\* A schema in two files that both extend Query; a resource of a kind that is not known; a
\* policy that is declared twice.
First == Text(<<Doc("Schema", "team_a", "users", <<Type("Query", {"user"}), Type("User", {"id"}),
                                                    [Type("Query", {"users"}) EXCEPT !.directives = {"policy"}]>>),
                Doc("Dashboard", "team_a", "users", "any"),
                Doc("Policy", "team_a", "own", "draft"), Doc("Policy", "team_a", "own", "final"),
                Doc("Policy", "team_a", "other", "any"),
                Upstream("team_a", "api", <<"api.com">>, "ad;users")>>, {}, FALSE, None)
Second == Text(<<Doc("Schema", "team_a", "users", <<Type("Query", {"user"})>>),
                 Doc("Policy", "team_a", "other", "any"),
                 Upstream("team_a", "api", <<"api.com", "api2.com">>, "ad;users")>>, {}, FALSE, None)

\* Another team: names and hosts that may conflict with those of the first and of plugins.
Proxied == Text(<<Upstream("team_b", "api", <<"proxy.com">>, None), Doc("Policy", "team_b", "own", "any")>>,
                {"Policy"}, FALSE, None)
Dashed == Text(<<Doc("Policy", "team-a", "own", "any")>>, {}, TRUE, None)
Twice == Text(<<Doc("Policy", "team_b", "own", "any"),
                Doc("Schema", "team_b", "users", <<Type("User", {"id"}), Type("User", {"name"})>>)>>, {}, FALSE, None)
Base == Text(<<>>, {}, FALSE, "team_a/own")

MCText == [c \in {"a", "b"} |-> IF c = "a" THEN <<First, First, Second>> ELSE <<Dashed, Twice, Proxied, Base>>]
MCDeletions ==
    {[resources |-> {[kind |-> "Schema", namespace |-> "team_a", name |-> "users"],
                     [kind |-> "Policy", namespace |-> "team_b", name |-> "api"]}, basePolicy |-> TRUE]}

Group(kind, resource) == [EmptyGroup EXCEPT !.resources = [@ EXCEPT ![kind] = <<resource>>]]
MCAdditions == [p \in {"proxy", "audit"} |->
    IF p = "proxy" THEN Group("Upstream", Upstream("plugins", "proxy", <<"proxy.com">>, None))
    ELSE Group("Upstream", Upstream("plugins", "proxy", <<"audit.com">>, None))]
\* Each plugin takes away a resource that a user declares.
MCRemovals == [p \in {"proxy", "audit"} |->
    [resources |-> {IF p = "proxy" THEN [kind |-> "Policy", namespace |-> "team_a", name |-> "other"]
                    ELSE [kind |-> "Upstream", namespace |-> "plugins", name |-> "proxy"]},
     basePolicy |-> p = "audit"]]
MCFileSystemGroup == Group("Schema", Doc("Schema", "team_a", "users", {Type("Query", {"local"})}))

MCUnderscored == [n \in {"team_a", "team-a", "team_b", "users", "own", "other", "api", "plugins", "proxy"} |->
                    IF n = "team-a" THEN "team_a" ELSE n]
=============================================================================
