SPECIFICATION EndingsSpec
CONSTANTS
    Requests = {r1}
    SlotCount = 1
    StaleCalls = TRUE
PROPERTIES CoversEnd ConversionEnds MailEnds
CHECK_DEADLOCK FALSE
