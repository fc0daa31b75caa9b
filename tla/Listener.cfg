SPECIFICATION Spec
CONSTANTS
    Ports = {60000, 5678, 300}
    ServerPort = 1234
    ServerIp = 167772163
    ClientIp = 167772162
    MAX_SOCK_SIZE = 1024
    MAX_QUEUE = 2
    Garbage = Garbage
    Window = 100
    Noisy = {60000}
    Deltas = {128}
    MaxFaults = 1
INVARIANTS TypeOK DamageNoticed PacketsReadable NoNullFollowed AcceptsCompleted
CHECK_DEADLOCK FALSE
