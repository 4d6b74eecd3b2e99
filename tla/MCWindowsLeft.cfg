CONSTANTS
    peer = peer
    t1 = t1
    t2 = t2
    d1 = d1
    d2 = d2
    d3 = d3
    Addresses = {peer, t1, t2}
    Hosts = {peer}
    Dns = {d1}
    None = None
    MaxStarts = 1
    MaxConfs = 1
    MaxFailures = 1
SPECIFICATION Spec
INVARIANT CleanAlways
CHECK_DEADLOCK FALSE
