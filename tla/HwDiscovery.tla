----------------------------- MODULE HwDiscovery -----------------------------
(***************************************************************************)
(* CuemsHWDiscovery: on the master, network_hwd asks the slaves one after  *)
(* the other, in the order of the map, for their hardware; on a slave,     *)
(* serve_local_settings answers one connection.  A connection is the       *)
(* number of bytes sent and read: first the header with the length of the  *)
(* pickled object, then the object, in units of half a header.             *)
(***************************************************************************)
EXTENDS Naturals

CONSTANTS
    N,           \* slaves in the map
    Size,        \* length of a pickled object
    MaxRetries,  \* MAX_SLAVE_CONNECTION_RETRIES, 5 in the code
    Ported       \* the nodes of the map have the port that lines 160 and 217 ask for

ASSUME BoundAssumption == N \in Nat /\ Size \in Nat \ {0} /\ MaxRetries \in Nat \ {0}

\* FALSE with network_map.xsd and CuemsNode.py of this repository, which know no
\* port; TRUE with a map and a node class as README.md describes them.
ASSUME PortAssumption == Ported \in BOOLEAN

Slave == 1..N
HeaderLen == 2

VARIABLES
    step,      \* where the master is
    asked,     \* the slave it asks, N + 1 after the last
    retries,
    size,      \* what the header says, Size or garbage
    recd,      \* bytes_recd
    mappings,  \* the slaves in outputs_object, and so in the master's file
    place,     \* where each slave is
    sent, read,
    refused, skewed  \* history: slaves given up, headers not read at once

masterVars == <<step, asked, retries, size, recd, mappings, refused, skewed>>
netVars == <<place, sent, read>>
vars == <<masterVars, netVars>>

Init ==
    /\ step = "role" /\ asked = 1 /\ retries = 0 /\ size = 0 /\ recd = 0
    /\ mappings = {} /\ refused = {} /\ skewed = {}
    /\ place = [s \in Slave |-> "off"]
    /\ sent = [s \in Slave |-> 0] /\ read = [s \in Slave |-> 0]

-----------------------------------------------------------------------------
(* A slave.                                                                *)

Goes(s, from, to) == place[s] = from /\ place' = [place EXCEPT ![s] = to]

\* check_node_role, local_hwd, bind and listen, any of which may raise; bind
\* does when my_node has no port.
Serve(s) ==
    /\ \/ Goes(s, "off", "failed")
       \/ Ported /\ Goes(s, "off", "accept")
    /\ UNCHANGED <<masterVars, sent, read>>

SendHeader(s) ==
    /\ Goes(s, "header", "body")
    /\ sent' = [sent EXCEPT ![s] = HeaderLen]
    /\ UNCHANGED <<masterVars, read>>

SendBody(s) ==
    /\ \E n \in 1..(HeaderLen + Size - sent[s]) :
          sent' = [sent EXCEPT ![s] = @ + n]
    /\ Goes(s, "body", IF sent'[s] = HeaderLen + Size THEN "write" ELSE "body")
    /\ UNCHANGED <<masterVars, read>>

\* The master has turned to another slave and its socket is gone.
SendFails(s) ==
    /\ asked # s /\ Goes(s, "body", "failed")
    /\ UNCHANGED <<masterVars, sent, read>>

\* write_mappings_file, on a slave
WriteOwn(s) ==
    /\ Goes(s, "write", "served") \/ Goes(s, "write", "failed")
    /\ UNCHANGED <<masterVars, sent, read>>

\* The process ends, with or without a reset of the connection, or the machine
\* goes down and is silent.  send only hands the bytes to the kernel: but for a
\* connection that is closed in order, those the master has not read may be lost.
Gone == {"closed", "reset", "lost"}
Die(s) ==
    \E how \in Gone :
        /\ place[s] \notin {"reset", "lost", how} /\ Goes(s, place[s], how)
        /\ \/ UNCHANGED sent
           \/ /\ how # "closed"
              /\ \E n \in read[s]..sent[s] : sent' = [sent EXCEPT ![s] = n]
        /\ UNCHANGED <<masterVars, read>>

-----------------------------------------------------------------------------
(* The master.                                                             *)

History == <<refused, skewed>>

\* A first-run node in the map, or no node with this ip: the program ends.
CheckNodeRole ==
    /\ step = "role" /\ step' \in {"local", "failed"}
    /\ UNCHANGED <<asked, retries, size, recd, mappings, History, netVars>>

\* Without a jack server it ends, too; without a display only the video
\* outputs are left out.
LocalHwd ==
    /\ step = "local" /\ step' \in {"next", "failed"}
    /\ UNCHANGED <<asked, retries, size, recd, mappings, History, netVars>>

NextSlave ==
    /\ step = "next"
    /\ step' = IF asked \in Slave THEN "connect" ELSE "write"
    /\ retries' = 0
    /\ UNCHANGED <<asked, size, recd, mappings, History, netVars>>

Connect ==
    /\ step = "connect" /\ Ported /\ Goes(asked, "accept", "header")
    /\ step' = "header"
    /\ UNCHANGED <<asked, retries, size, recd, mappings, History, sent, read>>

\* Variant with a bug: a refusal is not counted.
RefusedUncounted ==
    /\ step = "connect" /\ Ported /\ place[asked] \notin {"accept", "lost"}
    /\ UNCHANGED vars
\* Variant with a bug: equality is tested one refusal late.
RefusedOnceMore ==
    /\ step = "connect" /\ Ported /\ place[asked] \notin {"accept", "lost"}
    /\ retries' = retries + 1
    /\ step' = IF retries > MaxRetries THEN "write" ELSE "connect"
    /\ UNCHANGED <<asked, size, recd, mappings, History, netVars>>
\* Nobody listens there.  The last refusal ends the loop over the slaves.
Refused ==
    /\ step = "connect" /\ Ported /\ place[asked] \notin {"accept", "lost"}
    /\ retries' = retries + 1
    /\ IF retries' = MaxRetries
       THEN step' = "write" /\ refused' = refused \cup {asked}
       ELSE UNCHANGED <<step, refused>>
    /\ UNCHANGED <<asked, size, recd, mappings, skewed, netVars>>

\* Variant with a bug: so does any other exception.
SkipAll ==
    /\ step' = "write"
    /\ UNCHANGED <<asked, retries, size, recd, mappings, History, netVars>>
\* Variant with a bug: the same slave is asked again.
SkipNobody ==
    /\ step' = "next"
    /\ UNCHANGED <<asked, retries, size, recd, mappings, History, netVars>>
\* Any other exception is logged and ends with this slave.
Skip ==
    /\ step' = "next" /\ asked' = asked + 1
    /\ UNCHANGED <<retries, size, recd, mappings, History, netVars>>

ConnectRaises == step = "connect" /\ (~Ported \/ place[asked] = "lost") /\ Skip

\* recv of at most max bytes, n of them.
Recv(max, n) ==
    /\ n \in 1..max /\ read[asked] + n <= sent[asked]
    /\ read' = [read EXCEPT ![asked] = @ + n]

RecvRaises == step \in {"header", "body"} /\ place[asked] = "reset" /\ Skip

\* recv returns the empty string.
Ended == place[asked] \in {"write", "served", "failed", "closed"} /\ read[asked] = sent[asked]

\* buf is replaced by each recv: a part of the header that comes alone is
\* lost, and the next four bytes are taken for a length.
RecvHeader ==
    \E n \in 1..HeaderLen :
        /\ step = "header" /\ Recv(HeaderLen, n)
        /\ skewed' = IF n = HeaderLen THEN skewed ELSE skewed \cup {asked}
        /\ step' = IF n = HeaderLen THEN "body" ELSE "header"
        /\ \/ n = HeaderLen /\ asked \notin skewed /\ size' = Size
           \/ n = HeaderLen /\ asked \in skewed /\ size' \in 0..(HeaderLen + Size)
           \/ n < HeaderLen /\ UNCHANGED size
        /\ recd' = 0
        /\ UNCHANGED <<asked, retries, mappings, refused, place, sent>>

\* Variant with a bug: one recv for the whole object.
RecvOnce ==
    \E n \in 1..Size :
        /\ step = "body" /\ recd = 0 /\ recd < size /\ Recv(size, n)
        /\ recd' = n /\ size' = n
        /\ UNCHANGED <<step, asked, retries, mappings, History, place, sent>>
RecvChunk ==
    \E n \in 1..(HeaderLen + Size) :
        /\ step = "body" /\ recd < size /\ Recv(size - recd, n)
        /\ recd' = recd + n
        /\ UNCHANGED <<step, asked, retries, size, mappings, History, place, sent>>

BreaksOff == step = "body" /\ recd < size /\ Ended /\ Skip

\* Only the whole object, from its first byte, can be unpickled.
Whole == asked \notin skewed /\ recd = Size

Unpicklable == step = "body" /\ recd >= size /\ ~Whole /\ Skip

Join ==
    /\ step = "body" /\ recd >= size /\ Whole
    /\ mappings' = mappings \cup {asked}
    /\ step' = "next" /\ asked' = asked + 1
    /\ UNCHANGED <<retries, size, recd, History, netVars>>

WriteMappings ==
    /\ step = "write" /\ step' \in {"done", "failed"}
    /\ UNCHANGED <<asked, retries, size, recd, mappings, History, netVars>>

-----------------------------------------------------------------------------
Master ==
    \/ CheckNodeRole \/ LocalHwd \/ NextSlave
    \/ Connect \/ Refused \/ ConnectRaises
    \/ RecvHeader \/ RecvChunk \/ RecvRaises \/ BreaksOff
    \/ Unpicklable \/ Join \/ WriteMappings

Answer(s) == SendHeader(s) \/ SendBody(s) \/ WriteOwn(s)

Next == Master \/ \E s \in Slave : Serve(s) \/ Answer(s) \/ SendFails(s) \/ Die(s)

Spec == Init /\ [][Next]_vars

\* The programs go on; nothing makes a slave start, or fail.
FairSpec == Spec /\ WF_vars(Master) /\ \A s \in Slave : WF_vars(Answer(s))

-----------------------------------------------------------------------------
TypeOK ==
    /\ step \in {"role", "local", "next", "connect", "header", "body", "write",
                 "done", "failed"}
    /\ asked \in 1..(N + 1) /\ retries \in 0..MaxRetries
    /\ step \in {"connect", "header", "body"} => asked \in Slave
    /\ size \in 0..(HeaderLen + Size) /\ recd \in 0..(HeaderLen + Size)
    /\ mappings \subseteq Slave /\ refused \subseteq Slave /\ skewed \subseteq Slave
    /\ place \in [Slave -> {"off", "accept", "header", "body", "write",
                            "served", "failed"} \cup Gone]
    /\ sent \in [Slave -> 0..(HeaderLen + Size)]
    /\ read \in [Slave -> 0..(HeaderLen + Size)]

\* The whole of what slave s sent reaches the master, if it asks.
Delivers(s) == sent[s] = HeaderLen + Size /\ place[s] \notin {"reset", "lost"}

\* A slave that has sent all its settings, and whose machine and connection
\* last until the master is done, is in what the master writes, unless its
\* header came in pieces.
SentMeansListed ==
    step = "done" => \A s \in Slave : Delivers(s) => s \in mappings \cup skewed

\* What the network excuses: the slave went away before all its bytes had
\* arrived, sent its header in pieces, or comes at or after one that refused.
NetworkReason(s) ==
    \/ place[s] \in Gone /\ ~Delivers(s)
    \/ s \in skewed
    \/ \E r \in refused : r <= s

\* A slave that is missing from what the master writes has such a reason, or the
\* nodes have no port, as those of this repository.
MissingIsExplained ==
    step = "done" => \A s \in Slave \ mappings : NetworkReason(s) \/ ~Ported

\* The comment at line 150, "RETREIVE EACH NODE HW SETTINGS": only the network
\* keeps the master from it.
EachNodeIsRetrieved ==
    step = "done" => \A s \in Slave \ mappings : NetworkReason(s)

\* Without a port each slave costs the master one exception and none ends the
\* loop: it passes all of them and writes its own hardware alone.
UnportedSkipsEach ==
    step = "done" /\ ~Ported => asked = N + 1 /\ mappings = {} /\ refused = {}

\* recv has no timeout and its empty string is not looked at: the master waits
\* for a machine that is lost, or for the rest of a header that ended.
Stuck ==
    \/ step \in {"header", "body"} /\ place[asked] = "lost" /\ read[asked] = sent[asked]
    \/ step = "header" /\ Ended

\* The order of the places of the master's program.
Order == [role |-> 0, local |-> 1, next |-> 2, connect |-> 3, header |-> 4,
          body |-> 5, write |-> 6, done |-> 7, failed |-> 7]

\* It goes on to the next slave or to a later place, or stays in one of its
\* three loops, each of which has a bound that it comes nearer to.
Advances ==
    \/ asked \in Slave /\ asked' = asked + 1
    \/ /\ asked' = asked
       /\ \/ Order[step'] > Order[step]
          \/ /\ step = "connect" /\ step' = step
             /\ retries < retries' /\ retries' <= MaxRetries
          \/ /\ step = "header" /\ step' = step
             /\ read[asked] < read'[asked] /\ read'[asked] <= HeaderLen + Size
          \/ /\ step = "body" /\ step' = step /\ size' = size
             /\ recd < recd' /\ recd' <= size

\* Every step of the master's program advances it, also when a header came in
\* pieces and the object is taken for a length; no slave sets it back.
MasterAdvances ==
    [][Advances \/ (~Master /\ UNCHANGED <<masterVars, read>>)]_vars

\* Apart from that, the discovery ends, whoever refuses, dies or sends nonsense.
DiscoveryEnds == <>(step \in {"done", "failed"} \/ Stuck)
=============================================================================
