\* Two interfaces, every combination of flags and constructor failures.
CONSTANTS
    eth0 = eth0
    eth1 = eth1
    Devices <- MCDevices
SPECIFICATION Spec
INVARIANT
    DecodedTaskAsSpecified
