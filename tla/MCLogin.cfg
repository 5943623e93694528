CONSTANTS
    c1 = c1
    c2 = c2
    c3 = c3
    old = old
    new = new
    t1 = t1
    t2 = t2
    Calls <- MCCalls
    Passwords <- MCPasswords
    Tokens <- MCTokens
    Nobody = Nobody
    NoPassword = NoPassword
    LoginAttempts = 2
    MaxWrites = 3

SPECIFICATION Spec
SYMMETRY LoginSymmetry

INVARIANTS
    SessionsAreCurrent
    GuessesAreLimited
