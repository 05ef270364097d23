\* Every graph of up to two imports per file over three files, cyclic ones and syntax errors included.
CONSTANTS
    File = {main, f1, f2}
    Main = main
    MaxImports = 2
    SyntaxErrors = TRUE
SPECIFICATION FairSpec
INVARIANTS TypeOK AcceptedIsClosure NothingFromBadImports OnceIfLayered
PROPERTIES LoadTerminates ImplementsImportClosure
CHECK_DEADLOCK FALSE
