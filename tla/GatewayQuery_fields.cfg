\* Every schema of MCRegistered, requests with and without policies.
SPECIFICATION SpecQuery
CONSTANTS
    None = "none"
    NoMember = "type"
    Types <- MCTypes
    Members <- MCMembers
    KindOf <- MCKindOf
    RemoteSchemas = {"known"}
    Calls <- MCCalls
    Fields <- MCFields
    fieldOf <- MCFieldOf
    objectOf <- MCObjectOf
    parentOf <- MCParentOf
    Impls <- MCImpls
    Policies = {"p", "q", "missing"}
    Defined = {"p", "q"}
    Overriding = {"q"}
    BasePolicy = TRUE
    MaxWrappers = 3
    Registered <- MCRegistered
    DefaultSchema <- MCDefaultSchema
    BuiltIn <- MCBuiltIn
    MemberOrder <- MCMemberOrder
    Key = "key"
INVARIANTS
    TypeOK
    GuardedAnswers
    RequestAuthorized
    RefusalReported
    NoRefusalLost
    BaseOrOverride
    DeclaredPolicyGuards
    ExportsOfAncestors
    EnumsRoundTrip
