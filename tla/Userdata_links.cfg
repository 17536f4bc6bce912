SPECIFICATION UserdataSpec
CONSTANTS
    RuleIds = {r1}
    DossierIds = {d1, d2}
    EntryIds = {n1}
    RuleKeys = {kr}
    DossierKeys = {k1, k2}
    EntryKeys = {kn}
    DocKeys = {x1}
    Editors = {e1, e2}
    Lookups = {l1}
    NoRow = NoRow
PROPERTIES
    SetReplaces
CHECK_DEADLOCK FALSE
