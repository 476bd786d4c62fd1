SPECIFICATION ConversionSpec
CONSTANTS
    c1 = c1
    c2 = c2
    c3 = c3
    plan = plan
    site = site
    NoDoc = NoDoc
    Conversions = {c1, c2}
    Stem <- EqualNames
    Megabytes <- Sizes
    Deadline = 0
    Routes = {"dwg2dxf"}
INVARIANTS
    OwnDrawingReturned
CHECK_DEADLOCK FALSE
