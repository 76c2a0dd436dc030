SPECIFICATION Spec
CONSTANTS
    Setups <- MCSetups
    MaxFaults = 1
INVARIANT ProfileFits
INVARIANT PacketsRoundTrip
INVARIANT CutIsHarmless
INVARIANT RecordsWhole
INVARIANT EndsAgree
INVARIANT ReplyAsConfigured
