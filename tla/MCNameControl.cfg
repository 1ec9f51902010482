\* The three tables together: peers and addresses that objects share, drop and
\* take over, heap addresses that are reused, and the lookup.
SPECIFICATION Spec
CONSTANTS
    Null = Null
    Address = {a1, a2, a3, a4}
    s1 = s1  s2 = s2  s3 = s3  e1 = e1  e2 = e2  p1 = p1  p2 = p2  p3 = p3
    k1 = k1  k2 = k2  k3 = k3  k4 = k4
    Key = {k1, k2, k3, k4}
    SvcName = {s1, s2, s3}
    SvcPeers <- MCSvcPeers
    StableSvc = {s1, s2}
    EpName = {e1, e2}
    EpIps <- MCEpIps
    PodName = {p1, p2, p3}
    PodIps <- MCPodIps
SYMMETRY AddressSymmetry
INVARIANTS OwnedOnce PeerIndexExact EndpointIndexExact PodIndexExact LookupSound
