\* Every decision: all policies, all outcomes of the services, all failures.
SPECIFICATION Spec
CONSTANTS
    Horizon = 2
    Box = 2
    None = None
    Failed = Failed
    Escaped = Escaped
    Events <- MCEvents
    Policies <- MCPolicies
    DemandAnswers <- MCDemandAnswers
    GenerationAnswers <- MCGenerationAnswers
    GridAnswers <- MCGridAnswers
    WindAnswers <- MCWindAnswers
INVARIANTS
    FeasibleAnswer
    RowNamesTheDecider
    NetIsDemandMinusGeneration
    GridIsBalanced
    ObservationIsAsDeclared
    NothingIsMadeUp
PROPERTY
    EveryEventIsDecided
