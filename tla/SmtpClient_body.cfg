SPECIFICATION SafeSpec
CONSTANTS
    Bodies <- MCBodies
    MaxGreeting = 1
INVARIANT BodyIsBody
CHECK_DEADLOCK FALSE
