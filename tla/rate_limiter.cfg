SPECIFICATION Spec
CONSTANTS
    Ips = {ip1}
    Emails = {e1}
    Users = {u1}
    Groups = {g1}
    NoEmail = NoEmail
    MaxHits <- Limits
    WindowSecs <- Windows
    MaxClock = 5
    MaxRequests = 4
INVARIANTS WindowNeverExceeded RetryAfterIsHonest
