CONSTANTS
    Endpoint = {alice, bob}
    Decoy = Decoy
    NoRecipient = NoRecipient
    MaxDelay = 2
    MaxInterval = 1
    TTL = 1
    MaxEnvelopes = 3
    MaxPolls = 2
SPECIFICATION Spec
PROPERTIES
    ImplementsChannel
CHECK_DEADLOCK FALSE
