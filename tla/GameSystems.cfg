SPECIFICATION GameSpec
CONSTANTS
    i1 = i1
    i2 = i2
    i3 = i3
    atk = atk
    def = def
    Ids <- MCIds
    Effects = {1, 2}
    Levels = {1, 2}
    Durations = {10, 15}
    Attrs <- MCAttrs
    CommandLists <- MCCommandLists
    BaseStats <- MCBaseStats
    EnchantWidth = 2
    MaxAdds = 4
    Strength = {0, 1}
    Agility = {3, 4}
    Level = {1, 6, 7, 12, 17, 22}
    Monster = {1, 6}
    WeaponMin = {0, 1}
    WeaponMax = {2, 3}
    OffhandMin = {0, 1}
    OffhandMax = {0, 2, 3}
    Bonus = {0}
    Penalty = {9}
    Multiplier = {0, 3, 4, 5}
    HP = {0, 5}
    MP = {0, 3}
    Rate = {1, 3}
INVARIANTS
    IndexesAgree
    StatsAreActiveBuffs
    TickIsExact
    RoundingBounded
PROPERTIES
    NeverWeakened
    EverythingExpires
    GrowthIsMonotonic
CHECK_DEADLOCK FALSE
