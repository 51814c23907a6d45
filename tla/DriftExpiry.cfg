SPECIFICATION FairSpec
\* One host that fails the rule under one exception, which expires.
CONSTANTS
    Agents = {"a1"}
    Engines = {"g1"}
    Users = {"u1", "u2"}
    Excs = {"e1"}
    Sessions = {"s1"}
    Values = {"good", "bad"}
    Scopes = {"a1"}
    Selected = {}
    Ops = {}
    Serial = TRUE
    MaxChanges = 1
    MaxLosses = 0
PROPERTY
    ExpiryFails
