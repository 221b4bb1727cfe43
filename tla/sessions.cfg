\* Two requests at a time.
CONSTANTS
    User = {u1, u2}
    Super = {u1}
    Handler = {h1, h2}
    MaxDuration = 1
    Inactivity = 1
    SuperExpiration = 0
    TokenDuration = 0
    MaxSessions = 2
    MaxTokens = 1
    MaxChanges = 2
    MaxTime = 2
    Null = Null
SPECIFICATION Spec
SYMMETRY Symmetry
INVARIANTS TokensOfCurrentPassword
PROPERTIES SessionsOnlyFade CurrentStaysCurrent
