SPECIFICATION Spec
CONSTANTS
    Slots = {2, 3}
    Addrs = {1, 2}
    Machines = {32, 64}
    None = None
    MaxRun = 1
    MaxStuck = 1
    Faults = {"suspend", "get", "set", "resume"}
PROPERTIES
    OneSlotAtATime
