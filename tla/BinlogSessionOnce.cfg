SPECIFICATION Spec
CONSTANTS
    MaxEvents = 2
    Large = {}
INVARIANT EachPacketParsedOnce
CHECK_DEADLOCK FALSE
