SPECIFICATION RegistrySpec
CONSTANTS
    Conn = {c1, c2}
    Instance = {i1, i2}
    Directory = {{i1}, {i2}}
    Incompatible = {}
    Key = {k1}
    None = None
PROPERTIES ReconnectAppears
CHECK_DEADLOCK FALSE
