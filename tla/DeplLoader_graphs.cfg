\* Every graph of up to two imports per file over three deployment files and an interface
\* file, cyclic ones included, with at most one syntax error.
CONSTANTS
    Fdepl = {main, d1, d2}
    Fidl = {i1}
    Main = main
    MaxImports = 2
    MaxBad = 1
SPECIFICATION MCSpec
INVARIANTS TypeOK AcceptedIsClosure FdeplParsedOnce
PROPERTIES LoadTerminates ImplementsImportClosure
CHECK_DEADLOCK FALSE
