---------------------------- MODULE LocalDiscovery ----------------------------
(***************************************************************************)
(* How a process of cuems-nodeconf comes to know its own node: get_ips     *)
(* polls the interfaces, CuemsAvahiListener keeps what zeroconf tells it   *)
(* of each node, and run() takes the node whose ip is the one get_ips      *)
(* found.  zeroconf's ServiceBrowser is external: it calls add_service     *)
(* for a service that is new to it and update_service for one that is not. *)
(***************************************************************************)
EXTENDS Naturals, FiniteSets

CONSTANTS
    Mac, Self,
    Link,      \* addresses the internal interface of this machine can get
    AddrOf,    \* every address a node may announce, of all its interfaces
    MaxPoll    \* rounds of get_ips (10 in the code)

ASSUME SelfAssumption == Self \in Mac
\* Link-local addresses are defended on the LAN: nobody else has this node's.
ASSUME LinkAssumption ==
    /\ Link \subseteq AddrOf[Self]
    /\ \A m \in Mac : "none" \notin AddrOf[m]
    /\ \A m \in Mac \ {Self} : AddrOf[m] \cap Link = {}
ASSUME PollAssumption == MaxPoll \in Nat

VARIABLES
    proc,      \* "off", "poll", "listen", "retrieve" or "found"
    round,     \* iteration of get_ips
    ip,        \* self.ip, "none" for None
    browsed,   \* the nodes ServiceBrowser knows
    entry,     \* listener.nodes: the ip of a node, "none" without an entry
    local,     \* the nodes retreive_local_node can return
    usable     \* history: Self's last complete record has self.ip

ipVars == <<round, ip>>
listenerVars == <<browsed, entry, usable>>
discoveryVars == <<proc, ipVars, listenerVars, local>>

InitDiscovery ==
    /\ proc = "off" /\ round = 0 /\ ip = "none"
    /\ browsed = {} /\ entry = [m \in Mac |-> "none"] /\ local = {}
    /\ usable = FALSE

EndDiscovery ==
    /\ proc' = "off" /\ round' = 0 /\ ip' = "none"
    /\ browsed' = {} /\ entry' = [m \in Mac |-> "none"] /\ local' = {}
    /\ usable' = FALSE

StartDiscovery == proc = "off" /\ proc' = "poll" /\ UNCHANGED <<ipVars, listenerVars, local>>

-----------------------------------------------------------------------------
(* get_ips                                                                 *)

\* Variant with a bug: nobody counts the rounds.
PollUnbounded(ends) ==
    /\ proc = "poll"
    /\ proc' = IF ends THEN "listen" ELSE "poll"
    /\ round' = IF ends THEN 0 ELSE round + 1
    /\ UNCHANGED <<listenerVars, local>>
\* One round of the loop: it ends it, or is counted.
PollRound(ends) ==
    /\ proc = "poll" /\ round < MaxPoll
    /\ proc' = IF ends THEN "listen" ELSE "poll"
    /\ round' = IF ends THEN 0 ELSE round + 1
    /\ UNCHANGED <<listenerVars, local>>

\* bridge0 is up: its address, whatever an earlier round has found.
PollBridge == ip' \in Link /\ PollRound(TRUE)

\* Variant with a bug: bond0 alone is enough.
PollBond ==
    /\ ip' \in Link \cup {ip}
    /\ \E bond \in BOOLEAN : PollRound(bond)
\* It is not: ethernet1 and bond0, each with an address or not.  An address of
\* an earlier round is kept, bond0 must have one in the round that ends the loop.
PollEthernet ==
    /\ ip' \in Link \cup {ip}
    /\ \E bond \in BOOLEAN : PollRound(bond /\ ip' # "none")

\* Timeoutloop raises TimeoutError and run() exits.
PollTimesOut == proc = "poll" /\ round = MaxPoll /\ EndDiscovery

-----------------------------------------------------------------------------
(* CuemsAvahiListener, created with the ip found.                          *)

\* Variant with a bug: the first address, whatever it is.
FirstAddress(addrs) == addrs
\* Variant with a bug: self.ip instead of the first one.
OwnAddress(addrs) == IF Cardinality(addrs) > 1 THEN {ip} ELSE addrs
\* The address kept of those of a record: self.ip if it is one, else the first.
Preferred(addrs) == IF ip \in addrs THEN {ip} ELSE addrs

\* A record that has addresses and both properties.
Store(m) ==
    \E addrs \in (SUBSET AddrOf[m]) \ {{}} :
        /\ \E a \in Preferred(addrs) : entry' = [entry EXCEPT ![m] = a]
        /\ usable' = IF m = Self THEN ip \in addrs ELSE usable

\* An incomplete record, or no answer to get_service_info, is logged only, but
\* the browser knows the service all the same.
AddService(m) ==
    /\ proc \notin {"off", "poll"} /\ m \notin browsed
    /\ browsed' = browsed \cup {m}
    /\ Store(m) \/ UNCHANGED <<entry, usable>>
    /\ UNCHANGED <<proc, ipVars, local>>

\* Without an entry it is a KeyError, which is logged.
UpdateService(m) ==
    /\ proc \notin {"off", "poll"} /\ m \in browsed /\ entry[m] # "none"
    /\ Store(m)
    /\ UNCHANGED <<proc, ipVars, browsed, local>>

RemoveService(m) ==
    /\ m \in browsed
    /\ browsed' = browsed \ {m}
    /\ UNCHANGED <<proc, ipVars, entry, usable, local>>

-----------------------------------------------------------------------------
(* wait_for_local_service_registration and retreive_local_node             *)

Matching == {m \in Mac : entry[m] = ip}

SeeLocalNode ==
    /\ proc = "listen" /\ Matching # {}
    /\ proc' = "retrieve"
    /\ UNCHANGED <<ipVars, listenerVars, local>>

RetrieveLocalNode ==
    /\ proc = "retrieve" /\ Matching # {}
    /\ local' = Matching
    /\ proc' = "found"
    /\ UNCHANGED <<ipVars, listenerVars>>

\* Variant with a bug: the first of the two waits has no limit.
RetrievalTimesOut == proc = "retrieve" /\ Matching = {} /\ EndDiscovery
LocalNodeTimesOut ==
    /\ proc \in {"listen", "retrieve"} /\ Matching = {}
    /\ EndDiscovery

\* The zeroconf thread adds a node while one of the two loops iterates over
\* them: a RuntimeError, which run() does not catch.
IterationRaises ==
    /\ proc \in {"listen", "retrieve"} /\ \E m \in Mac : entry[m] # "none"
    /\ EndDiscovery

\* The steps of run(); the ones that end the process are apart.
Discover == PollBridge \/ PollEthernet \/ SeeLocalNode \/ RetrieveLocalNode

GiveUp == PollTimesOut \/ LocalNodeTimesOut \/ IterationRaises

-----------------------------------------------------------------------------
Address == UNION {AddrOf[m] : m \in Mac}

DiscoveryTypeOK ==
    /\ proc \in {"off", "poll", "listen", "retrieve", "found"}
    /\ round \in 0..MaxPoll
    /\ ip \in Link \cup {"none"}
    /\ browsed \subseteq Mac /\ local \subseteq Mac
    /\ entry \in [Mac -> Address \cup {"none"}]
    /\ \A m \in Mac : entry[m] \in AddrOf[m] \cup {"none"}
    /\ usable \in BOOLEAN

\* The check that run() makes after get_ips never finds an ip missing.
AddressIsKnown == proc \notin {"off", "poll"} => ip # "none"

\* Whatever is announced with whichever addresses, in any order, the node that
\* run() takes for its own is its own.
LocalNodeIsSelf == local \subseteq {Self}

\* run() does not give up on a node that it could have found: if the last
\* complete record of this node had the address of get_ips, among others, that
\* is the address kept.
UsableIsFindable == usable => Self \in Matching
=============================================================================
