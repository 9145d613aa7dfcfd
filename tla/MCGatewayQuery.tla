--------------------------- MODULE MCGatewayQuery ---------------------------
(* Instances of GatewayQuery and FieldResolution: two users of a list, the *)
(* card of each, and the logo of the first.                                *)
EXTENDS GatewayQuery

MCTypes == {"User", "Card", "Color"}
MCMembers == {"id", "card", "logo", "red", "blue"}
MCKindOf == [t \in MCTypes |-> IF t = "Color" THEN "enum" ELSE "object"]
MCMemberOrder == [t \in MCTypes |-> CASE t = "User" -> <<"id", "card">>
                                      [] t = "Card" -> <<"logo">>
                                      [] OTHER -> <<"red", "blue">>]
MCFields == {<<"User", "card">>, <<"Card", "type">>, <<"Card", "logo">>}
MCCalls == {"card1", "Card1", "logo1", "card2"}
MCFieldOf == [c \in MCCalls |-> CASE c \in {"card1", "card2"} -> <<"User", "card">>
                                  [] c = "Card1" -> <<"Card", "type">>
                                  [] OTHER -> <<"Card", "logo">>]
MCParentOf == [c \in MCCalls |-> CASE c \in {"Card1", "logo1"} -> "card1"
                                   [] OTHER -> "none"]
MCObjectOf == [c \in MCCalls |-> IF c = "logo1" THEN "Card1" ELSE "none"]

D(name, policies, relation, post, strategy, catches, throws) ==
    [name |-> name, policies |-> policies, relation |-> relation, postResolve |-> post,
     mergeStrategy |-> strategy, catches |-> catches, throws |-> throws]
Plain(name) == D(name, {}, "AND", FALSE, "Replace", FALSE, FALSE)
Policy(p, post) == D("policy", {p}, "AND", post, "Replace", FALSE, FALSE)
Both(relation, post) == D("policies", {"p", "q"}, relation, post, "Replace", FALSE, FALSE)
Local(strategy) == D("localResolver", {}, "AND", FALSE, strategy, FALSE, FALSE)
Handler(catches, throws) == D("errorHandler", {}, "AND", FALSE, "Replace", catches, throws)
Export == [name |-> "export", key |-> "key"]
EnumValue(v) == [name |-> "enumValue", value |-> v]
Gql(url) == [name |-> "gql", url |-> url]
Rest == Plain("rest")
Stub == Plain("stub")

Node(t, m, directives) == [type |-> t, member |-> m, directives |-> directives]
Schema(key, nodes) == [key |-> key, nodes |-> nodes]

\* What the first schema declares on User.card.
Guarding == {<<Rest, Policy("p", FALSE)>>, <<Stub, Local("MergeDeep"), Policy("q", FALSE)>>,
             <<Local("MergeDeep"), Both("AND", FALSE)>>}
CardDeclarations == Guarding \cup
    {<<Policy("p", FALSE), Rest>>, <<Policy("q", FALSE), Stub>>,
     <<Rest, Both("AND", TRUE), Handler(TRUE, TRUE)>>, <<Rest, Both("OR", FALSE), Plain("select")>>,
     <<Rest, Local("Merge"), Policy("p", TRUE)>>, <<Rest, Policy("p", TRUE), Local("Merge")>>,
     <<Stub, Local("Merge")>>, <<Gql("known"), Local("MergeDeep"), Handler(FALSE, TRUE)>>,
     <<Rest, [name |-> "export", key |-> "other"], Policy("p", TRUE)>>, <<Gql("unknown")>>,
     <<Rest, Local("Replace"), Policy("missing", FALSE)>>}
\* How it declares the type Card, and what a second schema adds that declares User too.
CardTypes == {<<Policy("q", FALSE)>>, <<Handler(TRUE, FALSE)>>, <<Local("Merge")>>}
SecondDeclarations == {<<Policy("q", FALSE)>>, <<Rest>>}

First(declared, onType) ==
    Schema("first", <<Node("User", NoMember, <<[name |-> "key"]>>),
                      Node("User", "id", <<Export>>), Node("User", "card", declared),
                      Node("Card", NoMember, onType), Node("Card", "logo", <<>>),
                      Node("Color", NoMember, <<[name |-> "enumResolver"]>>),
                      Node("Color", "red", <<EnumValue(1)>>), Node("Color", "blue", <<EnumValue(2)>>)>>)
Second(declared, color) ==
    Schema("second", <<Node("User", "id", <<>>), Node("User", "card", declared),
                       Node("Color", "red", color[1]), Node("Color", "blue", color[2])>>)
Colors == {<< <<>>, <<>> >>, << <<EnumValue(2)>>, <<EnumValue(1)>> >>, << <<EnumValue(2)>>, <<>> >>}
Unchanged == << <<>>, <<>> >>
MCRegistered ==
    {<<First(d, <<>>)>> : d \in CardDeclarations} \cup
    {<<First(d, t)>> : d \in Guarding, t \in CardTypes} \cup
    {<<First(d, <<>>), Second(e, Unchanged)>> : d \in Guarding, e \in SecondDeclarations} \cup
    {<<First(<<>>, <<>>), Second(<<>>, c)>> : c \in Colors} \cup {<<>>}
MCDefaultSchema == Schema("default", <<Node("User", "card", <<Local("Replace")>>)>>)
MCBuiltIn == <<Schema("policy", <<>>), Schema("plugins", <<>>)>>
MCImpls == {ResolverOfMember(ServicesOf(s, MCDefaultSchema, MCBuiltIn), f[1], f[2]) :
               s \in MCRegistered, f \in MCFields}
=============================================================================
