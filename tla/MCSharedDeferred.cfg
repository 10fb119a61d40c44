SPECIFICATION Spec
CONSTANTS
    N = 2
    app = app
    crypto = crypto
    uart = uart
    timer = timer
    Actor = {app, uart}
    Prio <- Priorities
    Calls <- Deferred
    Threshold <- Ceiling
    Keys <- Bits
    Discard = 1
    Lengths = {1, 2}
    MaxPos = 4
    Port = "m4"
PROPERTIES
    SharedStream
