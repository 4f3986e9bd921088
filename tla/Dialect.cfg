SPECIFICATION ListingSpec
CONSTANTS
    Spellings <- MCSpellings
    Requirements <- MCRequirements
    MaxVersions = 2
INVARIANT AgreesWithCargo
