\* Two logins, two requests at a time; one access token runs out; one message
\* or write is lost, or the app is killed, or an account locked, once.
SPECIFICATION MobileSpec
CONSTANTS
    Requests = {r1, r2}
    NoRequest = NoRequest
    MaxLogin = 2
    MaxExpiries = 1
    MaxFaults = 1
INVARIANTS MobileTypeOK OneAccount LeftIsForgotten OnlyLossIsReuse
PROPERTIES SignedOutForAReason EverybodyIsAnswered DeadSessionIsLeft
CHECK_DEADLOCK FALSE
