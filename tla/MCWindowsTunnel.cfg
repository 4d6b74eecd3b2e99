CONSTANTS
    peer = peer
    t1 = t1
    t2 = t2
    d1 = d1
    d2 = d2
    d3 = d3
    Addresses = {peer, t1}
    Hosts = {peer}
    Dns = {d1, d2, d3}
    None = None
    MaxStarts = 2
    MaxConfs = 3
    MaxFailures = 1
SPECIFICATION Spec
INVARIANTS TransportOutside DnsLatest CleanAfterStop
SYMMETRY Alike
CHECK_DEADLOCK FALSE
