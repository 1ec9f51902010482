\* Client and server spans against caches of two ids and a sink of two slots.
SPECIFICATION Spec
CONSTANTS
    Null = Null
    none = none  front = front  cart = cart  shop = shop  other = other
    cartHost = cartHost  cartIp = cartIp  db = db
    r1 = r1  r2 = r2  r3 = r3  r4 = r4
    Name = {none, front, cart, shop, other, cartHost, cartIp, db}
    NoName = none
    Registry <- MCRegistry
    Request = {r1, r2, r3, r4}
    Span <- MCSpans
    BatchSize = 2
    MaxEntries = 2
    Threshold = 0
    Capacity = 2
INVARIANTS OfferedOnce RegistrationInv Counted
PROPERTIES BatchesEnd
