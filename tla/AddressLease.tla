---------------------------- MODULE AddressLease ----------------------------
(***************************************************************************)
(* The loopback addresses of a remote host (helper/_addresses.py): the     *)
(* helper of each session leases one by the name of an abstract socket,    *)
(* probes its ports, and hands it to OpenOCD; the client remembers it as   *)
(* the preferred one of the next session                                   *)
(* (controller/preferred_address_cache.py).  A helper may be killed at any *)
(* step: the kernel drops its lease, but its OpenOCD lives on.             *)
(***************************************************************************)
EXTENDS HostClients

CONSTANTS
  Addresses,
  Ports,        \* 1 .. n, the listener ports of every session
  MaxAttempts,  \* MAX_ADDRESS_ALLOCATION_ATTEMPTS, reduced
  Foreign,      \* programs of others
  Contested     \* the addresses and ports they use

ASSUME LeaseConstants ==
  /\ Ports \subseteq Nat /\ MaxAttempts \in Nat
  /\ None \notin Addresses /\ Foreign \notin Clients \cup {None}
  /\ Contested \subseteq Addresses \X Ports

VARIABLES
  at,       \* per client, the next step of its helper
  cache,    \* the preferred address the client's machine remembers
  address,  \* per client, the candidate address, then its allocated address
  tries,    \* per client, random candidates drawn
  lease,    \* per address, who bound its abstract name
  port      \* per address and port, who has it bound: a client, None, Foreign

leaseVars == <<at, cache, address, tries, lease, port>>

LeaseInit ==
  /\ at = [c \in Clients |-> "launch"]
  /\ cache = None
  /\ address = [c \in Clients |-> None] /\ tries = [c \in Clients |-> 0]
  /\ lease = [a \in Addresses |-> None]
  /\ port = [a \in Addresses |-> [p \in Ports |-> None]]

Goto(c, step) == at' = [at EXCEPT ![c] = step]

----------------------------------------------------------------------------
\* The helper's listener addresses, allocate_listener_address

\* The helper starts, and reads a START with the cached preference, if the
\* cache could be read.
Launch(c) ==
  /\ at[c] = "launch"
  /\ \E preferred \in {cache, None} :
       /\ address' = [address EXCEPT ![c] = preferred]
       /\ Goto(c, IF preferred = None THEN "draw" ELSE "lease")
  /\ UNCHANGED <<cache, tries, lease, port>>

Draw(c) ==
  /\ at[c] = "draw"
  /\ IF tries[c] = MaxAttempts
     THEN Goto(c, "over") /\ address' = [address EXCEPT ![c] = None] /\ UNCHANGED tries
     ELSE /\ \E a \in Addresses : address' = [address EXCEPT ![c] = a]
          /\ tries' = [tries EXCEPT ![c] = @ + 1]
          /\ Goto(c, "lease")
  /\ UNCHANGED <<cache, lease, port>>

\* Mutant: the lease is not exclusive, and the probes alone decide.
LeaseAnyway(c) ==
  /\ at[c] = "lease"
  /\ lease' = [lease EXCEPT ![address[c]] = c]
  /\ Goto(c, "probe")
  /\ UNCHANGED <<cache, address, tries, port>>

\* The bind of the abstract name: taken, or failing for another reason.
Lease(c) ==
  /\ at[c] = "lease"
  /\ \/ /\ lease[address[c]] = None
        /\ lease' = [lease EXCEPT ![address[c]] = c]
        /\ Goto(c, "probe") /\ UNCHANGED address
     \/ /\ lease[address[c]] # None
        /\ Goto(c, "draw") /\ UNCHANGED <<address, lease>>
     \/ /\ Goto(c, "over") /\ address' = [address EXCEPT ![c] = None]
        /\ UNCHANGED lease
  /\ UNCHANGED <<cache, tries, port>>

Bound(c, a) == {p \in Ports : port[a][p] = c}

\* The probes are bound in the order of the ports.
Probe(c) ==
  /\ at[c] = "probe"
  /\ LET a == address[c]
         p == Cardinality(Bound(c, a)) + 1
     IN  IF p \notin Ports
         THEN Goto(c, "settle") /\ UNCHANGED port
         ELSE IF port[a][p] = None
         THEN port' = [port EXCEPT ![a][p] = c] /\ UNCHANGED at
         ELSE Goto(c, "roll back") /\ UNCHANGED port
  /\ UNCHANGED <<cache, address, tries, lease>>

Closed(c) ==
  [a \in Addresses |-> [p \in Ports |-> IF port[a][p] = c THEN None ELSE port[a][p]]]

\* Mutant: the lease of a failed candidate is kept.
RollBackProbes(c) ==
  /\ at[c] = "roll back"
  /\ port' = Closed(c) /\ UNCHANGED lease
  /\ Goto(c, "draw")
  /\ UNCHANGED <<cache, address, tries>>

\* A failed candidate closes its probes and then its lease, and the next one
\* is tried; a close that fails ends the allocation.
RollBack(c) ==
  /\ at[c] = "roll back"
  /\ port' = Closed(c)
  /\ lease' = [lease EXCEPT ![address[c]] = None]
  /\ \/ Goto(c, "draw") /\ UNCHANGED address
     \/ Goto(c, "over") /\ address' = [address EXCEPT ![c] = None]
  /\ UNCHANGED <<cache, tries>>

\* The probes are closed before the address is handed over with its lease.
Settle(c) ==
  /\ at[c] = "settle"
  /\ port' = Closed(c)
  /\ \/ Goto(c, "listen") /\ UNCHANGED <<address, lease>>
     \/ /\ Goto(c, "over") /\ address' = [address EXCEPT ![c] = None]
        /\ lease' = [lease EXCEPT ![address[c]] = None]
  /\ UNCHANGED <<cache, tries>>

----------------------------------------------------------------------------
\* The session: OpenOCD listens, forwarding succeeds, and the session ends.

Listen(c) ==
  /\ at[c] = "listen"
  /\ LET mine == port[address[c]] IN
     IF \A p \in Ports : mine[p] = None
     THEN /\ port' = [port EXCEPT ![address[c]] = [p \in Ports |-> c]]
          /\ Goto(c, "serve")
     ELSE UNCHANGED port /\ Goto(c, "end")
  /\ UNCHANGED <<cache, address, tries, lease>>

\* remember_preferred_address replaces the cache file in one step, or not at
\* all, and never fails the session.
Remember(c) ==
  /\ at[c] = "serve"
  /\ cache' \in {cache, address[c]}
  /\ Goto(c, "end")
  /\ UNCHANGED <<address, tries, lease, port>>

\* The child lives on when it could not be disposed of.
Orphaned(c) == [a \in Addresses |-> [p \in Ports |->
  IF port[a][p] = c THEN Foreign ELSE port[a][p]]]

Freed(c) == [a \in Addresses |-> IF lease[a] = c THEN None ELSE lease[a]]

\* The lease is closed whether or not the child's disposal was confirmed.
EndSession(c) ==
  /\ at[c] = "end"
  /\ port' \in {Closed(c), Orphaned(c)}
  /\ lease' = Freed(c)
  /\ address' = [address EXCEPT ![c] = None]
  /\ Goto(c, "over")
  /\ UNCHANGED <<cache, tries>>

NextSession(c) ==
  /\ at[c] = "over"
  /\ Goto(c, "launch")
  /\ tries' = [tries EXCEPT ![c] = 0]
  /\ UNCHANGED <<cache, address, lease, port>>

----------------------------------------------------------------------------
\* The helper is killed.  Its OpenOCD keeps its ports until it is gone as well.
Crash(c) ==
  /\ at[c] \notin {"launch", "over"}
  /\ lease' = Freed(c)
  /\ port' = IF at[c] \in {"serve", "end"} THEN Orphaned(c) ELSE Closed(c)
  /\ address' = [address EXCEPT ![c] = None]
  /\ Goto(c, "over")
  /\ UNCHANGED <<cache, tries>>

OthersBind(a, p) ==
  /\ port[a][p] = None /\ <<a, p>> \in Contested
  /\ port' = [port EXCEPT ![a][p] = Foreign]
  /\ UNCHANGED <<at, cache, address, tries, lease>>

OthersClose(a) ==
  /\ \E p \in Ports : port[a][p] = Foreign
  /\ port' = [port EXCEPT ![a] = [p \in Ports |-> IF @[p] = Foreign THEN None ELSE @[p]]]
  /\ UNCHANGED <<at, cache, address, tries, lease>>

Allocate(c) == Draw(c) \/ Lease(c) \/ Probe(c) \/ RollBack(c) \/ Settle(c)

LeaseNext ==
  \/ \E c \in Clients :
       \/ Launch(c) \/ Allocate(c) \/ Listen(c) \/ Remember(c) \/ EndSession(c)
       \/ NextSession(c) \/ Crash(c)
  \/ \E a \in Addresses : OthersClose(a) \/ \E p \in Ports : OthersBind(a, p)

LeaseSpec == LeaseInit /\ [][LeaseNext]_leaseVars

\* A helper that is not killed runs.
LeaseFairness == \A c \in Clients : WF_leaseVars(Allocate(c))

----------------------------------------------------------------------------
Stages == {"launch", "draw", "lease", "probe", "roll back", "settle", "listen",
           "serve", "end", "over"}

\* The values of the variables.
LeaseTypeOK ==
  /\ at \in [Clients -> Stages]
  /\ cache \in Addresses \cup {None}
  /\ address \in [Clients -> Addresses \cup {None}]
  /\ tries \in [Clients -> 0 .. MaxAttempts]
  /\ lease \in [Addresses -> Clients \cup {None}]
  /\ port \in [Addresses -> [Ports -> Clients \cup {None, Foreign}]]

\* Nobody of the project touches a listener port of an address that another
\* session holds: the lease covers the probes, the time until OpenOCD listens,
\* and its listeners.  Only a child that its helper could not dispose of, or did
\* not live to, outlives its lease.
LeaseCoversPorts ==
  /\ \A c \in Clients : at[c] \in {"probe", "settle", "listen", "serve", "end"} =>
       lease[address[c]] = c
  /\ \A a \in Addresses, p \in Ports : port[a][p] \in Clients => lease[a] = port[a][p]

\* A session holds the lease of one address at most, and of none when its
\* allocation failed; an address is handed over without a probe of the helper
\* that would keep OpenOCD from listening.
NoLeaseOrProbeLeaks ==
  \A c \in Clients :
    /\ \A a \in Addresses : lease[a] = c =>
         address[c] = a /\ at[c] \notin {"launch", "draw", "lease", "over"}
    /\ at[c] \notin {"probe", "roll back", "settle", "serve", "end"} =>
         \A a \in Addresses : Bound(c, a) = {}
=============================================================================
