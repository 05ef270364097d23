CONSTANTS
    Object <- MCObject
    Class <- MCClass
    BaseOf <- MCBaseOf
    TypeOf <- MCTypeOf
    Text <- MCText
    Said <- MCSaid
    Inputs <- MCInputs
SPECIFICATION FairSpec
INVARIANTS TypeOK AcceptedIsSound PropertiesInherited MappersComplete MembersTogether MappersAgree
PROPERTY ParsingEnds
CHECK_DEADLOCK FALSE
