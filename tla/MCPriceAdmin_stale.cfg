\* Two overlapping price requests, neither of which fails.
CONSTANTS
    m1 = m1
    m2 = m2
    p1 = p1
    Admins = {a1, a2}
    Models = {m1, m2}
    Prices = {p1, p2}
    Defaults <- OneDefault
    Markups = {k1, k2}
    EnvMarkup = k1
    MaxRestarts = 0
    DbMayFail = FALSE
    None = None
SPECIFICATION Spec
INVARIANT SavedIsEffective
