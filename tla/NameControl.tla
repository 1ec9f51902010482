----------------------------- MODULE NameControl -----------------------------
(***************************************************************************)
(* The registry of Kubernetes names (App::Common::Kubernetes::NameControl) *)
(* and the dispatchers that feed it with watch events.  Services and       *)
(* endpoints are heap objects owned by a table keyed by name, and indexed  *)
(* by raw pointers from every string a span may name them with; pods are   *)
(* owned directly by the index.  Addresses are modelled, and reused after  *)
(* a free, so that a pointer that outlives its object is told apart from   *)
(* one that does not.                                                      *)
(*                                                                         *)
(* The write methods hold NameControl::mtx, so each is one action.         *)
(***************************************************************************)
EXTENDS Naturals, FiniteSets

CONSTANTS
    Null,       \* no object: an absent map entry, a free heap cell
    Address,    \* heap addresses
    Key,        \* the strings an object can be looked up by
    SvcName,    \* metadata.name of services: the code ignores the namespace
    SvcPeers,   \* the peers that events of a service may list
    StableSvc,  \* services whose events always list all their SvcPeers
    EpName,     \* metadata.name of Endpoints objects
    EpIps,      \* the addresses that events of an Endpoints object may list
    PodName,    \* metadata.name of pods
    PodIps      \* the addresses a pod may have during its life

ServiceObject  == [name : SvcName, peers : SUBSET Key]
EndpointObject == [name : EpName, addresses : SUBSET Key]

ASSUME RegistryAssumption ==
    /\ Null \notin ServiceObject \union EndpointObject
    /\ Null \notin Address \union SvcName \union EpName \union PodName
    /\ SvcPeers \in [SvcName -> (SUBSET Key) \ {{}}]
    /\ StableSvc \subseteq SvcName
    /\ EpIps \in [EpName -> SUBSET Key]
    /\ PodIps \in [PodName -> (SUBSET Key) \ {{}}]

VARIABLES
    services,        \* name -> address of the stored Service
    svcHeap,         \* address -> Service object
    peerToServices,  \* peer -> address
    endpoints,       \* name -> address of the stored Endpoint
    epHeap,          \* address -> Endpoint object
    ipToEndpoints,   \* ip -> address
    podIpMap,        \* ip -> pod
    watchedPods      \* history: pods whose latest event was not DELETED

svcVars == <<services, svcHeap, peerToServices>>
epVars  == <<endpoints, epHeap, ipToEndpoints>>
podVars == <<podIpMap, watchedPods>>
vars    == <<svcVars, epVars, podVars>>

ServiceTypeOK ==
    /\ services \in [SvcName -> Address \union {Null}]
    /\ svcHeap \in [Address -> ServiceObject \union {Null}]
    /\ peerToServices \in [Key -> Address \union {Null}]

EndpointTypeOK ==
    /\ endpoints \in [EpName -> Address \union {Null}]
    /\ epHeap \in [Address -> EndpointObject \union {Null}]
    /\ ipToEndpoints \in [Key -> Address \union {Null}]

PodTypeOK ==
    /\ podIpMap \in [Key -> PodName \union {Null}]
    /\ watchedPods \subseteq PodName

TypeOK == ServiceTypeOK /\ EndpointTypeOK /\ PodTypeOK

Init ==
    /\ services = [n \in SvcName |-> Null]
    /\ svcHeap = [a \in Address |-> Null]
    /\ peerToServices = [k \in Key |-> Null]
    /\ endpoints = [n \in EpName |-> Null]
    /\ epHeap = [a \in Address |-> Null]
    /\ ipToEndpoints = [k \in Key |-> Null]
    /\ podIpMap = [k \in Key |-> Null]
    /\ watchedPods = {}

-----------------------------------------------------------------------------
(* The maps of the registry.                                               *)

Erased(index, ks) == [k \in Key |-> IF k \in ks THEN Null ELSE index[k]]

\* Mutant: an entry that is there is kept, as by std::map::emplace.
PointedIfAbsent(index, ks, a) ==
    [k \in Key |-> IF k \in ks /\ index[k] = Null THEN a ELSE index[k]]

Pointed(index, ks, a) == [k \in Key |-> IF k \in ks THEN a ELSE index[k]]

\* The heap after obj is stored at a, or after nothing is, and the object at
\* old, if any, is destroyed with the unique_ptr that owned it.
HeapWithout(heap, old) ==
    [b \in Address |-> IF b = old THEN Null ELSE heap[b]]

HeapLeaking(heap, old, a, obj) == [heap EXCEPT ![a] = obj]  \* mutant: no free

HeapWith(heap, old, a, obj) == [HeapWithout(heap, old) EXCEPT ![a] = obj]

Free(heap) == {a \in Address : heap[a] = Null}

\* The peers of the Service stored under n, {} when there is none.
StoredPeers(n) == IF services[n] = Null THEN {} ELSE svcHeap[services[n]].peers

StoredAddresses(n) ==
    IF endpoints[n] = Null THEN {} ELSE epHeap[endpoints[n]].addresses

-----------------------------------------------------------------------------
(* Services.  An update erases the peers of the NEW object from the index, *)
(* and a removal those of the event's object: the stored object is freed   *)
(* without looking at the peers it lists itself.                           *)

ErasedBySet(n, ps) ==
    IF services[n] = Null THEN peerToServices ELSE Erased(peerToServices, ps)

NothingErased(n, ps) == peerToServices  \* mutant: the index is left alone

ErasedByRemove(n, ps) == Erased(peerToServices, ps)

SetService(n, ps, a) ==
    /\ a \in Free(svcHeap)
    /\ peerToServices' = Pointed(ErasedBySet(n, ps), ps, a)
    /\ services' = [services EXCEPT ![n] = a]
    /\ svcHeap' = HeapWith(svcHeap, services[n], a, [name |-> n, peers |-> ps])
    /\ UNCHANGED <<epVars, podVars>>

RemoveService(n, ps) ==
    /\ services[n] # Null
    /\ peerToServices' = ErasedByRemove(n, ps)
    /\ services' = [services EXCEPT ![n] = Null]
    /\ svcHeap' = HeapWithout(svcHeap, services[n])
    /\ UNCHANGED <<epVars, podVars>>

\* What an event of n lists once it is parsed; one that does not parse is
\* dropped by the dispatcher.  toPeer() always lists the domain name of the
\* service, so that no event comes without peers.
EventPeers(n) ==
    IF n \in StableSvc THEN {SvcPeers[n]} ELSE (SUBSET SvcPeers[n]) \ {{}}

ServiceDispatch(n) ==
    \E ps \in EventPeers(n) :
        \/ \E a \in Address : SetService(n, ps, a)
        \/ RemoveService(n, ps)

-----------------------------------------------------------------------------
(* Endpoints.  Both operations erase the addresses of the STORED object.   *)

NoneErased(n) == ipToEndpoints                \* mutant: none is erased
AllErased(n)  == Erased(ipToEndpoints, Key)   \* mutant: the index is cleared

ErasedStored(n) == Erased(ipToEndpoints, StoredAddresses(n))

SetEndpoint(n, ips, a) ==
    /\ a \in Free(epHeap)
    /\ ipToEndpoints' = Pointed(ErasedStored(n), ips, a)
    /\ endpoints' = [endpoints EXCEPT ![n] = a]
    /\ epHeap' = HeapWith(epHeap, endpoints[n], a,
                           [name |-> n, addresses |-> ips])
    /\ UNCHANGED <<svcVars, podVars>>

RemoveEndpoint(n) ==
    /\ endpoints[n] # Null
    /\ ipToEndpoints' = ErasedStored(n)
    /\ endpoints' = [endpoints EXCEPT ![n] = Null]
    /\ epHeap' = HeapWithout(epHeap, endpoints[n])
    /\ UNCHANGED <<svcVars, podVars>>

\* Any subset: an event may list no ready address at all.
EventAddresses(n) == SUBSET EpIps[n]

EndpointDispatch(n) ==
    \/ \E ips \in EventAddresses(n), a \in Address : SetEndpoint(n, ips, a)
    \/ RemoveEndpoint(n)

-----------------------------------------------------------------------------
(* Pods.  The index is keyed by the address alone: an update under a new   *)
(* address leaves the old entry, and a removal erases whoever is there.    *)

\* A pod without an address yet does not parse, and its event is dropped.
EventIps(n) == PodIps[n]

SetPod(n, ip) ==
    /\ podIpMap' = [podIpMap EXCEPT ![ip] = n]
    /\ watchedPods' = watchedPods \union {n}
    /\ UNCHANGED <<svcVars, epVars>>

\* Mutant: the entry stays.
RemovePodKept(n, ip) ==
    /\ watchedPods' = watchedPods \ {n}
    /\ UNCHANGED <<podIpMap, svcVars, epVars>>

RemovePod(n, ip) ==
    /\ podIpMap' = [podIpMap EXCEPT ![ip] = Null]
    /\ watchedPods' = watchedPods \ {n}
    /\ UNCHANGED <<svcVars, epVars>>

PodDispatch(n) == \E ip \in EventIps(n) : SetPod(n, ip) \/ RemovePod(n, ip)

Next ==
    \/ \E n \in SvcName : ServiceDispatch(n)
    \/ \E n \in EpName : EndpointDispatch(n)
    \/ \E n \in PodName : PodDispatch(n)

Spec == Init /\ [][Next]_vars

-----------------------------------------------------------------------------
(* findServiceName: service peers first, then endpoint, then pod addresses.*)

FindServiceName(k) ==
    IF peerToServices[k] # Null THEN <<"service", peerToServices[k]>>
    ELSE IF ipToEndpoints[k] # Null THEN <<"endpoint", ipToEndpoints[k]>>
    ELSE <<"pod", podIpMap[k]>>

-----------------------------------------------------------------------------
(* Which keys the environment leaves alone.                                *)

\* No service whose events change what they list ever lists k.
DriftFree(k) == \A n \in SvcName : k \in SvcPeers[n] => n \in StableSvc

\* n alone, of the objects of its kind, ever lists k.
SoleService(n, k)  == \A m \in SvcName : k \in SvcPeers[m] => m = n
SoleEndpoint(n, k) == \A m \in EpName : k \in EpIps[m] => m = n
SolePod(n, k)      == \A m \in PodName : k \in PodIps[m] => m = n

\* The address of n never changes while it lives.
FixedIp(n) == \A i, j \in PodIps[n] : i = j

-----------------------------------------------------------------------------
(* Properties.                                                             *)

ServicesOwned ==
    /\ \A n \in SvcName : services[n] # Null =>
          svcHeap[services[n]] # Null /\ svcHeap[services[n]].name = n
    /\ \A a \in Address : svcHeap[a] # Null =>
          services[svcHeap[a].name] = a

EndpointsOwned ==
    /\ \A n \in EpName : endpoints[n] # Null =>
          epHeap[endpoints[n]] # Null /\ epHeap[endpoints[n]].name = n
    /\ \A a \in Address : epHeap[a] # Null =>
          endpoints[epHeap[a].name] = a

\* Ownership: every stored object is allocated under its own name, and every
\* allocated object is stored.  An update or a removal leaks nothing and
\* frees nothing that is still stored (the unique_ptr tables of set/remove).
OwnedOnce == ServicesOwned /\ EndpointsOwned

\* A peer pointer never outlives its Service, as long as the services that
\* list that peer never drop one in an update or in the event of their
\* removal: set and remove erase the peers of the event, not of the stored
\* object, so the stored ones must be the same.
PeerIndexSound ==
    \A k \in Key : DriftFree(k) /\ peerToServices[k] # Null =>
        /\ svcHeap[peerToServices[k]] # Null
        /\ k \in svcHeap[peerToServices[k]].peers

\* A stored service is found by each of its peers that no other service
\* lists (all headless services share the peer "None").
PeerIndexComplete ==
    \A n \in SvcName : services[n] # Null =>
        \A k \in StoredPeers(n) :
            SoleService(n, k) => peerToServices[k] = services[n]

\* The index of the peers: no pointer of it dangles, and every service is found.
PeerIndexExact == PeerIndexSound /\ PeerIndexComplete

\* An address pointer never outlives its Endpoint, whatever events come:
\* set and remove erase the addresses of the stored object, whoever they
\* point to by then.
EndpointIndexSound ==
    \A k \in Key : ipToEndpoints[k] # Null =>
        /\ epHeap[ipToEndpoints[k]] # Null
        /\ k \in epHeap[ipToEndpoints[k]].addresses

\* A stored Endpoint is found by each address no other Endpoint lists; one
\* that is shared may be unmapped by the removal of its other lister.
EndpointIndexComplete ==
    \A n \in EpName : endpoints[n] # Null =>
        \A k \in StoredAddresses(n) :
            SoleEndpoint(n, k) => ipToEndpoints[k] = endpoints[n]

\* The index of the addresses: no pointer of it dangles, and every Endpoint is
\* found.
EndpointIndexExact == EndpointIndexSound /\ EndpointIndexComplete

\* The pod index holds exactly the pods that exist, for pods that keep their
\* address and share it with none: a pod that is re-addressed stays under
\* the old one, and a late removal unmaps the pod that took the address over.
PodIndexExact ==
    \A n \in PodName : FixedIp(n) => \A k \in PodIps[n] :
        /\ podIpMap[k] = n => n \in watchedPods
        /\ SolePod(n, k) /\ n \in watchedPods => podIpMap[k] = n

\* What findServiceName answers is an object that is stored and that lists
\* the key, or a pod that exists.
LookupSound ==
    \A k \in Key :
        LET kind == FindServiceName(k)[1]
            obj  == FindServiceName(k)[2]
        IN  /\ kind = "service" /\ DriftFree(k) =>
                  /\ svcHeap[obj] # Null
                  /\ services[svcHeap[obj].name] = obj
                  /\ k \in svcHeap[obj].peers
            /\ kind = "endpoint" =>
                  /\ epHeap[obj] # Null
                  /\ endpoints[epHeap[obj].name] = obj
                  /\ k \in epHeap[obj].addresses
            /\ kind = "pod" /\ obj # Null /\ FixedIp(obj) =>
                  obj \in watchedPods
=============================================================================
