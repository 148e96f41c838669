CONSTANTS
    Shards = {0, 1}
    Addresses = {1, 2}
    Confirmations = {"unchecked", "match"}
    Names = {n1, n2}
    Statuses = {"has_ptr", "nxdomain", "timeout"}
    Mask = {"has_ptr", "timeout"}
    Inputs <- SmallInputs
SPECIFICATION Spec
SYMMETRY NameSymmetry
INVARIANTS
    TypeOK
    CompareBalances
    CompareExact
    HeadlinePartition
    FinalShardsFollowPolicy
    MergeBalances
    SuccessIsComplete
    ReportsAgree
    DuplicatesBounded
PROPERTIES
    FollowsPolicy
