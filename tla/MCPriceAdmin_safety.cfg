\* Two overlapping requests and a restart: what survives.
CONSTANTS
    m1 = m1
    m2 = m2
    p1 = p1
    Admins = {a1, a2}
    Models = {m1, m2}
    Prices = {p1, p2}
    Defaults <- OneDefault
    Markups = {k1, k2}
    EnvMarkup = k1
    MaxRestarts = 1
    DbMayFail = TRUE
    None = None
SPECIFICATION Spec
INVARIANTS
    LoneSaveIsEffective
    MarkupIsDurable
    EditSurvives
    DefaultsPresent
    PriceInv
