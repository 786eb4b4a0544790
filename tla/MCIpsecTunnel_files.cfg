SPECIFICATION Spec
CONSTANTS
    Name = {plc1, plc2}
    Args = {first, second}
SYMMETRY Symmetry
INVARIANTS
    CreatedTunnelIsComplete
    RemovedSecretIsGone
PROPERTIES
    WholeTunnelIsRemoved
