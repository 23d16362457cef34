SPECIFICATION MCSpec
CONSTANTS
    Conn = {"c1", "c2", "c3"}
    Instance = {"i1", "i2", "i3", "i4"}
    Directory = {{"i1", "i2", "i3", "i4"}}
    Incompatible = {"i4"}
    Key = {"k1", "k2"}
    None = None
INVARIANTS RegistryTypeOK OneOwnerPerDirectory PresenceCurrent
PROPERTIES OwnershipPasses DeadOwnersYield
CHECK_DEADLOCK FALSE
