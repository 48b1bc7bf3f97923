\* Every template of up to four pieces, in every context.
CONSTANT MaxPieces = 4
SPECIFICATION TemplateSpec
INVARIANT ResolvedIsMeant
INVARIANT MissingIsMissing
INVARIANT WellFormedAccepted
CHECK_DEADLOCK FALSE
