SPECIFICATION Spec
CONSTANTS
    Null = Null
    Names = {"root", "ann", "bob"}
    Roles = {"admin", "user-adv", "user", "guest", Null}
    Requests = {r1, r2}
    Seeds <- MCSeeds
    MaxRequests = 4
    MaxRows = 10
SYMMETRY RequestSymmetry
INVARIANTS
    TypeOK
    ListAgreesWithGet
PROPERTIES
    HistoryIsKept
    DeletesAreCarriedOut
    RolesAreSetByAdmin
    EndedTokensStayEnded
\* Clients may stop sending requests.
CHECK_DEADLOCK FALSE
