-------------------------- MODULE NameControlProofs --------------------------
(***************************************************************************)
(* The indexes of the registry are sound for every set of names, keys and  *)
(* addresses.  The three tables share no variable, so the inductive        *)
(* invariant is a conjunction of one part per table.                       *)
(***************************************************************************)
EXTENDS NameControl, TLAPS

\* What a stored service lists is something its events may list, and all of
\* it when the service is stable.
ServicesListed ==
    \A n \in SvcName : services[n] # Null =>
        /\ svcHeap[services[n]].peers \subseteq SvcPeers[n]
        /\ n \in StableSvc => svcHeap[services[n]].peers = SvcPeers[n]

ServiceInv ==
    /\ ServiceTypeOK /\ ServicesOwned /\ ServicesListed
    /\ PeerIndexSound /\ PeerIndexComplete

\* What a stored Endpoint lists is something its events may list.
EndpointsListed == \A n \in EpName : StoredAddresses(n) \subseteq EpIps[n]

EndpointInv ==
    /\ EndpointTypeOK /\ EndpointsOwned /\ EndpointsListed
    /\ EndpointIndexSound /\ EndpointIndexComplete

PodIndexSound ==
    \A k \in Key :
        podIpMap[k] # Null /\ FixedIp(podIpMap[k]) => podIpMap[k] \in watchedPods

\* The pod index only holds a pod under an address the pod may have.
PodsListed == \A k \in Key : podIpMap[k] # Null => k \in PodIps[podIpMap[k]]

\* A pod that exists is found under its address, if no other pod may have it.
PodIndexComplete ==
    \A n \in PodName, k \in Key :
        n \in watchedPods /\ k \in PodIps[n] /\ FixedIp(n) /\ SolePod(n, k)
            => podIpMap[k] = n

PodInv == PodTypeOK /\ PodsListed /\ PodIndexSound /\ PodIndexComplete

IInv == ServiceInv /\ EndpointInv /\ PodInv

-----------------------------------------------------------------------------

\* Initially all three tables are empty.
LEMMA InitIInv == Init => IInv
<1> SUFFICES ASSUME Init PROVE IInv
  OBVIOUS
<1> USE RegistryAssumption DEF Init
<1>1. ServiceInv
  BY DEF ServiceInv, ServiceTypeOK, ServicesOwned, ServicesListed, PeerIndexSound,
         PeerIndexComplete
<1>2. EndpointInv
  BY DEF EndpointInv, EndpointTypeOK, EndpointsOwned, EndpointsListed, EndpointIndexSound,
         EndpointIndexComplete, StoredAddresses
<1>3. PodInv
  BY DEF PodInv, PodTypeOK, PodsListed, PodIndexSound, PodIndexComplete
<1>4. QED
  BY <1>1, <1>2, <1>3 DEF IInv

-----------------------------------------------------------------------------
(* Services.                                                               *)

\* Storing a service keeps the service part of the invariant: the old object
\* is freed, and no pointer of a drift-free peer is left to it.
LEMMA SetServiceInv ==
    ASSUME NEW n \in SvcName, NEW ps \in EventPeers(n), NEW a \in Address,
           ServiceInv, SetService(n, ps, a)
    PROVE  ServiceInv'
<1> USE RegistryAssumption
<1> DEFINE new == [name |-> n, peers |-> ps]
<1>1. /\ ps \subseteq SvcPeers[n]
      /\ n \in StableSvc => ps = SvcPeers[n]
      /\ ps \subseteq Key
  BY DEF EventPeers
<1>2. new \in ServiceObject /\ new # Null
  BY <1>1 DEF ServiceObject
<1>3. /\ svcHeap[a] = Null
      /\ services' = [services EXCEPT ![n] = a]
      /\ svcHeap' = [b \in Address |->
                       IF b = a THEN new
                       ELSE IF b = services[n] THEN Null ELSE svcHeap[b]]
  BY DEF SetService, Free, HeapWith, HeapWithout
<1>4. peerToServices' = [k \in Key |-> IF k \in ps THEN a ELSE peerToServices[k]]
  BY DEF SetService, Pointed, ErasedBySet, Erased, ServiceInv, ServiceTypeOK
<1>5. ServiceTypeOK'
  BY <1>2, <1>3, <1>4 DEF ServiceTypeOK, ServiceInv
<1>6. \A m \in SvcName : m # n => services[m] # services[n] \/ services[m] = Null
  BY DEF ServiceInv, ServicesOwned
<1>7. \A m \in SvcName : services[m] # a
  BY <1>3 DEF ServiceInv, ServicesOwned
<1>8. ServicesOwned'
  BY <1>2, <1>3, <1>6, <1>7 DEF ServicesOwned, ServiceInv, ServiceTypeOK, ServiceObject
<1>9. ServicesListed'
  BY <1>1, <1>2, <1>3, <1>6, <1>7
  DEF ServicesListed, ServicesOwned, ServiceInv, ServiceTypeOK
<1>10. PeerIndexSound'
  <2> SUFFICES ASSUME NEW k \in Key, DriftFree(k), peerToServices'[k] # Null
               PROVE  /\ svcHeap'[peerToServices'[k]] # Null
                      /\ k \in svcHeap'[peerToServices'[k]].peers
    BY DEF PeerIndexSound, DriftFree
  <2>1. CASE k \in ps
    BY <2>1, <1>2, <1>3, <1>4
  <2>2. CASE k \notin ps
    <3>1. peerToServices'[k] = peerToServices[k]
      BY <2>2, <1>4
    <3>2. /\ svcHeap[peerToServices[k]] # Null
          /\ k \in svcHeap[peerToServices[k]].peers
          /\ peerToServices[k] \in Address
      BY <3>1 DEF PeerIndexSound, ServiceInv, ServiceTypeOK
    <3>3. peerToServices[k] # services[n]
      BY <3>2, <2>2, <1>1 DEF ServiceInv, ServicesListed, DriftFree
    <3>4. QED
      BY <3>1, <3>2, <3>3, <1>3
  <2>3. QED
    BY <2>1, <2>2
<1>11. PeerIndexComplete'
  <2> SUFFICES ASSUME NEW m \in SvcName, services'[m] # Null,
                      NEW k \in svcHeap'[services'[m]].peers, SoleService(m, k)
               PROVE  peerToServices'[k] = services'[m]
    BY DEF PeerIndexComplete, StoredPeers, SoleService
  <2>1. CASE m = n
    BY <2>1, <1>1, <1>2, <1>3, <1>4 DEF ServiceInv, ServiceTypeOK
  <2>2. CASE m # n
    <3>1. services'[m] = services[m] /\ svcHeap'[services[m]] = svcHeap[services[m]]
      BY <2>2, <1>3, <1>6, <1>7 DEF ServiceInv, ServiceTypeOK
    <3>2. k \in StoredPeers(m) /\ k \in Key
      BY <3>1, <2>2, <1>7 DEF StoredPeers, ServiceInv, ServiceTypeOK, ServicesOwned, ServiceObject
    <3>3. k \notin ps
      BY <2>2, <1>1 DEF SoleService
    <3>4. QED
      BY <3>1, <3>2, <3>3, <1>4 DEF ServiceInv, PeerIndexComplete
  <2>3. QED
    BY <2>1, <2>2
<1>12. QED
  BY <1>5, <1>8, <1>9, <1>10, <1>11 DEF ServiceInv

\* Removing a service keeps the service part of the invariant.
LEMMA RemoveServiceInv ==
    ASSUME NEW n \in SvcName, NEW ps \in EventPeers(n),
           ServiceInv, RemoveService(n, ps)
    PROVE  ServiceInv'
<1> USE RegistryAssumption
<1>1. ps \subseteq SvcPeers[n] /\ (n \in StableSvc => ps = SvcPeers[n])
  BY DEF EventPeers
<1>2. /\ services' = [services EXCEPT ![n] = Null]
      /\ svcHeap' = [b \in Address |->
                       IF b = services[n] THEN Null ELSE svcHeap[b]]
  BY DEF RemoveService, HeapWithout
<1>3. peerToServices' =
        [k \in Key |-> IF k \in ps THEN Null ELSE peerToServices[k]]
  BY DEF RemoveService, ErasedByRemove, Erased
<1>4. ServiceTypeOK'
  BY <1>2, <1>3 DEF ServiceTypeOK, ServiceInv
<1>5. \A m \in SvcName : m # n => services[m] # services[n] \/ services[m] = Null
  BY DEF ServiceInv, ServicesOwned
<1>6. ServicesOwned'
  BY <1>2, <1>5 DEF ServicesOwned, ServiceInv, ServiceTypeOK, ServiceObject
<1>7. ServicesListed'
  BY <1>2, <1>5 DEF ServicesListed, ServicesOwned, ServiceInv, ServiceTypeOK
<1>8. PeerIndexSound'
  <2> SUFFICES ASSUME NEW k \in Key, DriftFree(k), peerToServices'[k] # Null
               PROVE  /\ svcHeap'[peerToServices'[k]] # Null
                      /\ k \in svcHeap'[peerToServices'[k]].peers
    BY DEF PeerIndexSound, DriftFree
  <2>1. k \notin ps /\ peerToServices'[k] = peerToServices[k]
    BY <1>3
  <2>2. /\ svcHeap[peerToServices[k]] # Null
        /\ k \in svcHeap[peerToServices[k]].peers
        /\ peerToServices[k] \in Address
    BY <2>1 DEF PeerIndexSound, ServiceInv, ServiceTypeOK
  <2>3. peerToServices[k] # services[n]
    BY <2>1, <2>2, <1>1 DEF ServiceInv, ServicesListed, DriftFree
  <2>4. QED
    BY <2>1, <2>2, <2>3, <1>2
<1>9. PeerIndexComplete'
  <2> SUFFICES ASSUME NEW m \in SvcName, services'[m] # Null,
                      NEW k \in svcHeap'[services'[m]].peers, SoleService(m, k)
               PROVE  peerToServices'[k] = services'[m]
    BY DEF PeerIndexComplete, StoredPeers, SoleService
  <2>1. m # n
    BY <1>2 DEF ServiceInv, ServiceTypeOK
  <2>2. services'[m] = services[m] /\ svcHeap'[services[m]] = svcHeap[services[m]]
    BY <2>1, <1>2, <1>5 DEF ServiceInv, ServiceTypeOK
  <2>3. k \in StoredPeers(m) /\ k \in Key
    BY <2>2 DEF StoredPeers, ServiceInv, ServiceTypeOK, ServicesOwned, ServiceObject
  <2>4. k \notin ps
    BY <2>1, <1>1 DEF SoleService
  <2>5. QED
    BY <2>2, <2>3, <2>4, <1>3 DEF ServiceInv, PeerIndexComplete
<1>10. QED
  BY <1>4, <1>6, <1>7, <1>8, <1>9 DEF ServiceInv

-----------------------------------------------------------------------------
(* Endpoints.                                                              *)

\* Every pointer to the object stored under n is at one of its addresses, so
\* that erasing those leaves none.
LEMMA ErasedStoredLeavesNone ==
    ASSUME NEW n \in EpName, EndpointInv, NEW k \in Key,
           ErasedStored(n)[k] # Null
    PROVE  /\ ErasedStored(n)[k] = ipToEndpoints[k]
           /\ ipToEndpoints[k] # endpoints[n]
<1> USE RegistryAssumption
<1>1. k \notin StoredAddresses(n) /\ ErasedStored(n)[k] = ipToEndpoints[k]
  BY DEF ErasedStored, Erased
<1>2. k \in epHeap[ipToEndpoints[k]].addresses
  BY <1>1 DEF EndpointInv, EndpointIndexSound
<1>3. QED
  BY <1>1, <1>2 DEF StoredAddresses

\* Erasing the addresses of the object stored under n leaves every other object
\* where it is found, at the addresses that it alone may list.
LEMMA ErasedStoredKeepsSole ==
    ASSUME NEW n \in EpName, EndpointInv, NEW m \in EpName, m # n, endpoints[m] # Null,
           NEW k \in StoredAddresses(m), SoleEndpoint(m, k)
    PROVE  k \in Key /\ ErasedStored(n)[k] = endpoints[m]
<1> USE RegistryAssumption
<1>1. k \in EpIps[m] /\ k \notin EpIps[n]
  BY DEF EndpointInv, EndpointsListed, SoleEndpoint
<1>2. k \in Key
  BY <1>1
<1>3. QED
  BY <1>1, <1>2
  DEF EndpointInv, EndpointsListed, EndpointIndexComplete, ErasedStored, Erased

\* Storing an Endpoints object keeps the endpoint part of the invariant.
LEMMA SetEndpointInv ==
    ASSUME NEW n \in EpName, NEW ips \in EventAddresses(n), NEW a \in Address,
           EndpointInv, SetEndpoint(n, ips, a)
    PROVE  EndpointInv'
<1> USE RegistryAssumption
<1> DEFINE new == [name |-> n, addresses |-> ips]
<1>1. new \in EndpointObject /\ new # Null
  BY DEF EndpointObject, EventAddresses
<1>2. /\ epHeap[a] = Null
      /\ endpoints' = [endpoints EXCEPT ![n] = a]
      /\ epHeap' = [b \in Address |->
                      IF b = a THEN new
                      ELSE IF b = endpoints[n] THEN Null ELSE epHeap[b]]
  BY DEF SetEndpoint, Free, HeapWith, HeapWithout
<1>3. \A k \in Key :
        ipToEndpoints'[k] = IF k \in ips THEN a ELSE ErasedStored(n)[k]
  BY DEF SetEndpoint, Pointed
<1>4. EndpointTypeOK'
  BY <1>1, <1>2 DEF EndpointTypeOK, EndpointInv, SetEndpoint, Pointed,
                    ErasedStored, Erased
<1>5. \A m \in EpName :
        m # n => endpoints[m] # endpoints[n] \/ endpoints[m] = Null
  BY DEF EndpointInv, EndpointsOwned
<1>6. \A m \in EpName : endpoints[m] # a
  BY <1>2 DEF EndpointInv, EndpointsOwned
<1>7. EndpointsOwned'
  BY <1>1, <1>2, <1>5, <1>6
  DEF EndpointsOwned, EndpointInv, EndpointTypeOK, EndpointObject
<1>8. EndpointIndexSound'
  <2> SUFFICES ASSUME NEW k \in Key, ipToEndpoints'[k] # Null
               PROVE  /\ epHeap'[ipToEndpoints'[k]] # Null
                      /\ k \in epHeap'[ipToEndpoints'[k]].addresses
    BY DEF EndpointIndexSound
  <2>1. CASE k \in ips
    BY <2>1, <1>1, <1>2, <1>3
  <2>2. CASE k \notin ips
    <3>1. /\ ipToEndpoints'[k] = ipToEndpoints[k]
          /\ ipToEndpoints[k] # endpoints[n]
      BY <2>2, <1>3, ErasedStoredLeavesNone
    <3>2. /\ epHeap[ipToEndpoints[k]] # Null
          /\ k \in epHeap[ipToEndpoints[k]].addresses
          /\ ipToEndpoints[k] \in Address
      BY <3>1 DEF EndpointIndexSound, EndpointInv, EndpointTypeOK
    <3>3. QED
      BY <3>1, <3>2, <1>2
  <2>3. QED
    BY <2>1, <2>2
<1>9. \A m \in EpName : StoredAddresses(m)' = IF m = n THEN ips ELSE StoredAddresses(m)
  BY <1>1, <1>2, <1>5, <1>6
  DEF StoredAddresses, EndpointInv, EndpointTypeOK, EndpointsOwned
<1>10. EndpointsListed'
  BY <1>9 DEF EndpointsListed, EndpointInv, EventAddresses
<1>11. EndpointIndexComplete'
  <2> SUFFICES ASSUME NEW m \in EpName, endpoints'[m] # Null,
                      NEW k \in StoredAddresses(m)', SoleEndpoint(m, k)
               PROVE  ipToEndpoints'[k] = endpoints'[m]
    BY DEF EndpointIndexComplete, SoleEndpoint
  <2>1. CASE m = n
    BY <2>1, <1>2, <1>3, <1>9 DEF EndpointInv, EndpointTypeOK, EventAddresses
  <2>2. CASE m # n
    <3>1. k \in StoredAddresses(m) /\ endpoints'[m] = endpoints[m]
      BY <2>2, <1>2, <1>9 DEF EndpointInv, EndpointTypeOK
    <3>2. k \in Key /\ ErasedStored(n)[k] = endpoints[m]
      BY <2>2, <3>1, ErasedStoredKeepsSole
    <3>3. k \notin ips
      BY <2>2 DEF SoleEndpoint, EventAddresses
    <3>4. QED
      BY <3>1, <3>2, <3>3, <1>3
  <2>3. QED
    BY <2>1, <2>2
<1>12. QED
  BY <1>4, <1>7, <1>8, <1>10, <1>11 DEF EndpointInv

\* Removing an Endpoints object keeps the endpoint part of the invariant.
LEMMA RemoveEndpointInv ==
    ASSUME NEW n \in EpName, EndpointInv, RemoveEndpoint(n)
    PROVE  EndpointInv'
<1> USE RegistryAssumption
<1>1. /\ endpoints' = [endpoints EXCEPT ![n] = Null]
      /\ epHeap' = [b \in Address |->
                      IF b = endpoints[n] THEN Null ELSE epHeap[b]]
      /\ ipToEndpoints' = ErasedStored(n)
  BY DEF RemoveEndpoint, HeapWithout
<1>2. EndpointTypeOK'
  BY <1>1 DEF EndpointTypeOK, EndpointInv, ErasedStored, Erased
<1>3. \A m \in EpName :
        m # n => endpoints[m] # endpoints[n] \/ endpoints[m] = Null
  BY DEF EndpointInv, EndpointsOwned
<1>4. EndpointsOwned'
  BY <1>1, <1>3 DEF EndpointsOwned, EndpointInv, EndpointTypeOK, EndpointObject
<1>5. EndpointIndexSound'
  <2> SUFFICES ASSUME NEW k \in Key, ipToEndpoints'[k] # Null
               PROVE  /\ epHeap'[ipToEndpoints'[k]] # Null
                      /\ k \in epHeap'[ipToEndpoints'[k]].addresses
    BY DEF EndpointIndexSound
  <2>1. /\ ipToEndpoints'[k] = ipToEndpoints[k]
        /\ ipToEndpoints[k] # endpoints[n]
    BY <1>1, ErasedStoredLeavesNone
  <2>2. /\ epHeap[ipToEndpoints[k]] # Null
        /\ k \in epHeap[ipToEndpoints[k]].addresses
        /\ ipToEndpoints[k] \in Address
    BY <2>1 DEF EndpointIndexSound, EndpointInv, EndpointTypeOK
  <2>3. QED
    BY <2>1, <2>2, <1>1
<1>6. \A m \in EpName : StoredAddresses(m)' = IF m = n THEN {} ELSE StoredAddresses(m)
  BY <1>1, <1>3 DEF StoredAddresses, EndpointInv, EndpointTypeOK, EndpointsOwned
<1>7. EndpointsListed'
  BY <1>6 DEF EndpointsListed, EndpointInv
<1>8. EndpointIndexComplete'
  <2> SUFFICES ASSUME NEW m \in EpName, endpoints'[m] # Null,
                      NEW k \in StoredAddresses(m)', SoleEndpoint(m, k)
               PROVE  ipToEndpoints'[k] = endpoints'[m]
    BY DEF EndpointIndexComplete, SoleEndpoint
  <2>1. m # n /\ k \in StoredAddresses(m) /\ endpoints'[m] = endpoints[m]
    BY <1>1, <1>6 DEF EndpointInv, EndpointTypeOK
  <2>2. QED
    BY <2>1, <1>1, ErasedStoredKeepsSole
<1>9. QED
  BY <1>2, <1>4, <1>5, <1>7, <1>8 DEF EndpointInv

-----------------------------------------------------------------------------
(* Pods.                                                                   *)

\* Both pod operations keep the pod part of the invariant.
LEMMA PodDispatchInv ==
    ASSUME NEW n \in PodName, PodInv, PodDispatch(n)
    PROVE  PodInv'
<1> USE RegistryAssumption
<1>1. PICK ip \in PodIps[n] : SetPod(n, ip) \/ RemovePod(n, ip)
  BY DEF PodDispatch, EventIps
<1>2. ip \in Key
  BY <1>1
<1>3. CASE SetPod(n, ip)
  <2>1. PodTypeOK' /\ PodsListed' /\ PodIndexSound'
    BY <1>1, <1>2, <1>3
    DEF SetPod, PodInv, PodTypeOK, PodsListed, PodIndexSound, FixedIp
  <2>2. PodIndexComplete'
    BY <1>1, <1>2, <1>3
    DEF SetPod, PodInv, PodTypeOK, PodIndexComplete, FixedIp, SolePod
  <2>3. QED
    BY <2>1, <2>2 DEF PodInv
<1>4. CASE RemovePod(n, ip)
  <2>1. /\ podIpMap' = [podIpMap EXCEPT ![ip] = Null]
        /\ watchedPods' = watchedPods \ {n}
    BY <1>4 DEF RemovePod
  <2>2. PodTypeOK' /\ PodsListed'
    BY <2>1, <1>2 DEF PodInv, PodTypeOK, PodsListed
  <2>3. PodIndexSound'
    <3> SUFFICES ASSUME NEW k \in Key, podIpMap'[k] # Null, FixedIp(podIpMap'[k])
                 PROVE  podIpMap'[k] \in watchedPods'
      BY DEF PodIndexSound, FixedIp
    <3>1. k # ip /\ podIpMap'[k] = podIpMap[k] /\ k \in PodIps[podIpMap[k]]
      BY <2>1, <1>2 DEF PodInv, PodTypeOK, PodsListed
    <3>2. podIpMap[k] # n
      BY <3>1, <1>1 DEF FixedIp
    <3>3. QED
      BY <3>1, <3>2, <2>1 DEF PodInv, PodIndexSound
  <2>4. PodIndexComplete'
    BY <2>1, <1>1, <1>2
    DEF PodInv, PodTypeOK, PodIndexComplete, FixedIp, SolePod
  <2>5. QED
    BY <2>2, <2>3, <2>4 DEF PodInv
<1>5. QED
  BY <1>1, <1>3, <1>4

-----------------------------------------------------------------------------
(* The parts only depend on the variables of their own table.              *)

\* The service part only depends on the service tables.
LEMMA ServiceFrame == ServiceInv /\ UNCHANGED svcVars => ServiceInv'
BY DEF ServiceInv, svcVars, ServiceTypeOK, ServicesOwned, ServicesListed,
       PeerIndexSound, PeerIndexComplete, DriftFree, StoredPeers, SoleService

\* The endpoint part only depends on the endpoint tables.
LEMMA EndpointFrame == EndpointInv /\ UNCHANGED epVars => EndpointInv'
BY DEF EndpointInv, epVars, EndpointTypeOK, EndpointsOwned, EndpointIndexSound,
       EndpointsListed, EndpointIndexComplete, StoredAddresses, SoleEndpoint

\* The pod part only depends on the pod index.
LEMMA PodFrame == PodInv /\ UNCHANGED podVars => PodInv'
BY DEF PodInv, podVars, PodTypeOK, PodsListed, PodIndexSound, PodIndexComplete, FixedIp,
       SolePod

\* Every step keeps the inductive invariant.
LEMMA NextIInv == IInv /\ [Next]_vars => IInv'
<1> SUFFICES ASSUME IInv, [Next]_vars PROVE IInv'
  OBVIOUS
<1> USE DEF IInv
<1>1. ASSUME NEW n \in SvcName, ServiceDispatch(n) PROVE IInv'
  <2>1. UNCHANGED <<epVars, podVars>>
    BY <1>1 DEF ServiceDispatch, SetService, RemoveService
  <2>2. ServiceInv'
    BY <1>1, SetServiceInv, RemoveServiceInv DEF ServiceDispatch
  <2>3. QED
    BY <2>1, <2>2, EndpointFrame, PodFrame
<1>2. ASSUME NEW n \in EpName, EndpointDispatch(n) PROVE IInv'
  <2>1. UNCHANGED <<svcVars, podVars>>
    BY <1>2 DEF EndpointDispatch, SetEndpoint, RemoveEndpoint
  <2>2. EndpointInv'
    BY <1>2, SetEndpointInv, RemoveEndpointInv DEF EndpointDispatch
  <2>3. QED
    BY <2>1, <2>2, ServiceFrame, PodFrame
<1>3. ASSUME NEW n \in PodName, PodDispatch(n) PROVE IInv'
  <2>1. UNCHANGED <<svcVars, epVars>>
    BY <1>3 DEF PodDispatch, SetPod, RemovePod
  <2>2. QED
    BY <2>1, <1>3, PodDispatchInv, ServiceFrame, EndpointFrame
<1>4. CASE UNCHANGED vars
  BY <1>4, ServiceFrame, EndpointFrame, PodFrame DEF vars
<1>5. QED
  BY <1>1, <1>2, <1>3, <1>4 DEF Next

\* The inductive invariant holds in every reachable state.
THEOREM Invariance == Spec => []IInv
BY InitIInv, NextIInv, PTL DEF Spec

-----------------------------------------------------------------------------
(* The properties that follow from it.                                     *)

\* The tables, heaps and indexes keep their types.
THEOREM TypeCorrect == Spec => []TypeOK
<1>1. IInv => TypeOK
  BY DEF IInv, ServiceInv, EndpointInv, PodInv, TypeOK
<1>2. QED
  BY <1>1, Invariance, PTL

\* No object leaks and no stored object is freed (the unique_ptr tables).
THEOREM Ownership == Spec => []OwnedOnce
<1>1. IInv => OwnedOnce
  BY DEF IInv, ServiceInv, EndpointInv, OwnedOnce
<1>2. QED
  BY <1>1, Invariance, PTL

\* No peer pointer that concerns only stable services dangles, and every stored
\* service is found by the peers that no other may list.
THEOREM PeerIndex == Spec => []PeerIndexExact
<1>1. IInv => PeerIndexExact
  BY DEF IInv, ServiceInv, PeerIndexExact
<1>2. QED
  BY <1>1, Invariance, PTL

\* No address pointer dangles, whatever Endpoints events come, and every stored
\* Endpoint is found by the addresses that no other may list.
THEOREM EndpointIndex == Spec => []EndpointIndexExact
<1>1. IInv => EndpointIndexExact
  BY DEF IInv, EndpointInv, EndpointIndexExact
<1>2. QED
  BY <1>1, Invariance, PTL

\* The pods of the index are those that exist, for pods that keep their address.
THEOREM PodIndex == Spec => []PodIndexExact
<1>1. IInv => PodIndexExact
  <2> SUFFICES ASSUME IInv, NEW n \in PodName, FixedIp(n), NEW k \in PodIps[n]
               PROVE  /\ podIpMap[k] = n => n \in watchedPods
                      /\ SolePod(n, k) /\ n \in watchedPods => podIpMap[k] = n
    BY DEF PodIndexExact
  <2>1. k \in Key /\ n # Null
    BY RegistryAssumption
  <2>2. QED
    BY <2>1 DEF IInv, PodInv, PodIndexSound, PodIndexComplete
<1>2. QED
  BY <1>1, Invariance, PTL

\* findServiceName answers with an object that is stored and lists the key.
THEOREM LookupSoundness == Spec => []LookupSound
<1>1. IInv => LookupSound
  <2> SUFFICES ASSUME IInv, NEW k \in Key
               PROVE  LET kind == FindServiceName(k)[1]
                          obj  == FindServiceName(k)[2]
                      IN  /\ kind = "service" /\ DriftFree(k) =>
                                /\ svcHeap[obj] # Null
                                /\ services[svcHeap[obj].name] = obj
                                /\ k \in svcHeap[obj].peers
                          /\ kind = "endpoint" =>
                                /\ epHeap[obj] # Null
                                /\ endpoints[epHeap[obj].name] = obj
                                /\ k \in epHeap[obj].addresses
                          /\ kind = "pod" /\ obj # Null /\ FixedIp(obj) =>
                                obj \in watchedPods
    BY DEF LookupSound
  <2> USE DEF IInv
  <2>1. CASE peerToServices[k] # Null
    <3>1. /\ FindServiceName(k)[1] = "service"
          /\ FindServiceName(k)[2] = peerToServices[k]
      BY <2>1 DEF FindServiceName
    <3>2. QED
      BY <2>1, <3>1
      DEF ServiceInv, ServiceTypeOK, PeerIndexSound, ServicesOwned
  <2>2. CASE peerToServices[k] = Null /\ ipToEndpoints[k] # Null
    <3>1. /\ FindServiceName(k)[1] = "endpoint"
          /\ FindServiceName(k)[2] = ipToEndpoints[k]
      BY <2>2 DEF FindServiceName
    <3>2. QED
      BY <2>2, <3>1
      DEF EndpointInv, EndpointTypeOK, EndpointIndexSound, EndpointsOwned
  <2>3. CASE peerToServices[k] = Null /\ ipToEndpoints[k] = Null
    <3>1. /\ FindServiceName(k)[1] = "pod"
          /\ FindServiceName(k)[2] = podIpMap[k]
      BY <2>3 DEF FindServiceName
    <3>2. QED
      BY <3>1 DEF PodInv, PodIndexSound
  <2>4. QED
    BY <2>1, <2>2, <2>3
<1>2. QED
  BY <1>1, Invariance, PTL
=============================================================================
