\* The schemas of GatewayQuery_fields.cfg, whose declarations may have a @policy before a resolver directive.
SPECIFICATION SpecQuery
CONSTANTS
    None = "none"
    NoMember = "type"
    Types <- MCTypes
    Members <- MCMembers
    KindOf <- MCKindOf
    RemoteSchemas = {"known"}
    Calls <- MCCalls
    Fields <- MCFields
    fieldOf <- MCFieldOf
    objectOf <- MCObjectOf
    parentOf <- MCParentOf
    Impls <- MCImpls
    Policies = {"p", "q", "missing"}
    Defined = {"p", "q"}
    Overriding = {"q"}
    BasePolicy = TRUE
    MaxWrappers = 3
    Registered <- MCRegistered
    DefaultSchema <- MCDefaultSchema
    BuiltIn <- MCBuiltIn
    MemberOrder <- MCMemberOrder
    Key = "key"
INVARIANT
    AlwaysBaseOrOverride
