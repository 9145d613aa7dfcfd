-------------------------- MODULE MCPolicyExecutor --------------------------
(* Constants for the model-checking runs of PolicyExecutor. *)
EXTENDS PolicyExecutor, TLC

CONSTANTS reader, owner, r1, r2

\* The query of "owner" evaluates "reader".
AskReader == reader :> {} @@ owner :> {reader}

\* Version 2 of the resources drops "reader", and version 2 of the compiled policies
\* lacks its wasm file.  Version 1 of "owner" decides like "reader", version 2 the
\* other way round: given the answer that version 1 of "reader" left in the cache,
\* version 2 of "owner" allows what neither version allows alone.
DropsReader == <<{reader, owner}, {owner}>>
Opposite == [d \in Decisions |-> CHOOSE e \in Decisions : e # d]
OwnerVerdict(n, given) ==
    IF given = NoAnswers THEN <<"allow", "deny">>[n]
    ELSE IF n = 1 THEN given[reader] ELSE Opposite[given[reader]]
Verdicts2 ==
    reader :> <<NoAnswers :> "deny", NoAnswers :> "error">>
    @@ owner :> [n \in 1..2 |-> [given \in GivenTo(owner) |-> OwnerVerdict(n, given)]]
FirstDefined == <<DropsReader[1]>>
FirstVerdict == [k \in Keys |-> <<Verdicts2[k][1]>>]

RequestSymmetry == Permutations(Requests)

=============================================================================
