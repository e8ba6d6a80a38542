\* Three requests, three tokens: two clients can refresh at once.
SPECIFICATION FairSpec
CONSTANTS
    r1 = r1  r2 = r2  r3 = r3
    Requests <- ThreeRequests
    AuthRequests <- OneAuth
    MaxTokens = 3
    None = None
INVARIANTS ParkedHaveRefresher RefusedTokenNotReused
PROPERTIES ParkedSettle
CHECK_DEADLOCK FALSE
