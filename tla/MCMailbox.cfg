CONSTANTS
    alice = alice
    bob = bob
    m1 = m1
    m2 = m2
    Nobody = Nobody
    None = None
    Users = {alice, bob}
    Messages = {m1, m2}
    MaxEnters <- EntersOf
SPECIFICATION Spec
SYMMETRY Symmetry
INVARIANTS
    KeptUnlessDisturbed
    CounterCountsUnread
    HistoryIsOfThePair
    FlagMatchesScreen
CHECK_DEADLOCK FALSE
