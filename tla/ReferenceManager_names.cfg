CONSTANTS
    Interfaces <- MCInterfaces
    TypeCollections <- MCTypeCollections
    Members <- MCMembers
    Declarations <- MCDeclarations
    Sources <- NameSources
SPECIFICATION FairSpec
INVARIANTS TypeOK VerdictExact InheritedNamesResolve
PROPERTIES ResolutionTerminates
CHECK_DEADLOCK FALSE
