\* A customer who keeps asking for new QR codes, under the fairness of the event
\* loop, the cron timer and the webhook retries.
SPECIFICATION FairSpec

CONSTANTS
    b1 = b1
    s1 = s1
    s2 = s2
    NoBooking = NoBooking
    Bookings = {b1}
    Slots = {s1, s2}
    Capacity = 2
    Parties <- OneSeat
    MaxParty = 1
    MaxUses = 1
    Requests = {"create", "payosReturn", "retry", "publicRetry", "reportIssue", "checkPayment"}
    NewMethods = {"PAYOS"}
    NewVouchers = {FALSE}
    DraftVouchers = {TRUE}
    Calendar <- SameDay
    MaxLinks = 1
    MaxTxns = 3
    MaxFree = 3
    Crashes = FALSE

INVARIANT PayosHoldCapped
PROPERTY HoldsAreReleased
PROPERTY PaidLinkSettles

\* Every request may have been answered and no hold may be left to lapse.
CHECK_DEADLOCK FALSE
