SPECIFICATION Spec
CONSTANTS
    MaxItems = 2
    Files <- MCFiles
    Edited <- MCEdited
    MaxDepth = 3
    PackageNames <- MCPackageNames
    TypeNames <- MCTypeNames
    MemberNames <- MCMemberNames
    Numbers = {1, 2}
    MaxPackages = 2
    MaxSize = 4
    MaxListed = 2
    Foreign <- MCForeign
INVARIANT
    ServiceAsFieldTypeUnreachable
CHECK_DEADLOCK FALSE
