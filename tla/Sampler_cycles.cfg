CONSTANTS
    eth = eth
    wlan = wlan
    Ifaces = {eth, wlan}
    Modulus = 8
    CpuStart = {7}
    MaxEvents = 3
    MaxTime = 2
SYMMETRY Sym
SPECIFICATION SampleSpec
INVARIANTS NoByteTwice StaleNeverStored CpuShares
