SPECIFICATION Spec
CONSTANTS
    i1 = i1
    i2 = i2
    i3 = i3
    o1 = o1
    Incoming = {i1, i2, i3}
    Outgoing = {o1}
    Detached = {i1, i2}
    None = None
INVARIANTS NoStuckCall RingingTracked
PROPERTIES LiveStays CallsEnd
CHECK_DEADLOCK FALSE
