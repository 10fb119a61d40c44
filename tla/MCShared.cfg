SPECIFICATION Spec
CONSTANTS
    N = 3
    app = app
    crypto = crypto
    uart = uart
    timer = timer
    Actor = {app, crypto, uart, timer}
    Prio <- Priorities
    Calls <- Protected
    Threshold <- Ceiling
    Keys <- Bits
    Discard = 1
    Lengths = {1, 2}
    MaxPos = 5
    Port = "m4"
INVARIANTS
    OneAtATime
    MessagesWhole
    MasksReturn
PROPERTIES
    SharedStream
