\* Two owners that may be pools, each in a batch of its own; pages of two.
SPECIFICATION InputsSpec
CONSTANTS
    p = p
    q = q
    Owners = {p, q}
    Static = {}
    Autodetect = TRUE
    BatchSize = 1
    u = u
    v = v
    Wallets = {u, v}
    PageLimit = 2
    MaxPages = 2
    MaxMessages = 4
INVARIANTS TypeOK NoPoolPaid WebShowsNoPool
INVARIANTS FeedTypeOK NobodyInvented PostersFound
PROPERTIES WebShowsThePaid PoolFound
