\* Two requests at a time on one tour with up to two departure rows of one seat,
\* over three days.
SPECIFICATION Spec

CONSTANTS
    h1 = h1
    h2 = h2
    Handlers = {h1, h2}
    Beginnings <- ThreeBeginnings
    LastDay = 2
    StartDay = 1
    NewSeats = 1
    MaxRows = 2

INVARIANT TypeOK
INVARIANT NeverOversold
INVARIANT DateOnSaleOncePerHandler
INVARIANT BookedTourIsKept
PROPERTY CompletedLeftByStaleWriteOnly
PROPERTY OwnRowsStayOnSale
PROPERTY DeadTourCloses
