CONSTANTS
  a1 = a1  a2 = a2  a3 = a3
  Addrs <- ThreeAddrs
  MaxClients = 2
  Quota = 3
  MaxPackets = 5
SPECIFICATION Spec
INVARIANTS TypeOK TableSound QuotaExact
\* It stops when the bounded number of datagrams has arrived.
CHECK_DEADLOCK FALSE
