-------------------------- MODULE HwDiscoveryProofs --------------------------
(***************************************************************************)
(* Proofs about HwDiscovery, for any number of slaves, any length of their *)
(* objects and any number of retries: what the master has read of a slave  *)
(* decides what it lists of it, and nothing of one slave is taken over to  *)
(* the next.                                                               *)
(***************************************************************************)
EXTENDS HwDiscovery, TLAPS

USE BoundAssumption, PortAssumption DEF Slave, HeaderLen

-----------------------------------------------------------------------------
(* The inductive invariant.                                                *)

\* The slaves the master has not connected to.
Unasked(s) == s > asked \/ (s = asked /\ step \notin {"header", "body"})

Untouched(s) ==
    /\ place[s] \in {"off", "accept", "failed"} \cup Gone
    /\ sent[s] = 0 /\ read[s] = 0

\* Why the master is done with a slave before the last refusal.
Explained(s) == s \in mappings \cup skewed \/ (place[s] \in Gone /\ ~Delivers(s)) \/ ~Ported

\* What the open connection has carried: as long as the header was read at
\* once, the master knows where in the stream it is.
Connected ==
    /\ read[asked] <= sent[asked]
    /\ place[asked] \in {"header", "body", "write", "served", "failed"} \cup Gone
    /\ place[asked] = "header" => sent[asked] = 0
    /\ place[asked] \in {"write", "served", "failed"} => sent[asked] = HeaderLen + Size
    /\ asked \notin skewed /\ step = "header" => read[asked] = 0
    /\ asked \notin skewed /\ step = "body" =>
          size = Size /\ recd <= Size /\ read[asked] = HeaderLen + recd

\* The slaves fall into those before the one asked, each with a reason to be
\* listed or not, that one, and those after it, with which nothing happened; without
\* a port nothing happens with any.
HwInv ==
    /\ step = "connect" => retries < MaxRetries
    /\ ~Ported => /\ step \notin {"header", "body"} /\ mappings = {} /\ refused = {}
                   /\ \A s \in Slave : Untouched(s) /\ place[s] # "accept"
    /\ \A s \in Slave : Unasked(s) => Untouched(s)
    /\ \A s \in Slave : s < asked => Explained(s)
    /\ step \in {"header", "body"} => Connected
    /\ step \in {"write", "done"} => asked = N + 1 \/ asked \in refused

\* Before the discovery nothing has happened.
LEMMA InitHw == Init => TypeOK /\ HwInv
  BY DEF Init, TypeOK, HwInv, Unasked, Untouched, Explained, Connected

-----------------------------------------------------------------------------
(* The slaves' steps.                                                      *)

\* A step of slave s changes nothing of the master or of the other slaves.
Own(s) ==
    /\ UNCHANGED masterVars /\ UNCHANGED read
    /\ \E p \in {"off", "accept", "header", "body", "write", "served", "failed"} \cup Gone :
          place' = [place EXCEPT ![s] = p]
    /\ \E n \in 0..(HeaderLen + Size) : sent' = [sent EXCEPT ![s] = n]

\* Every step of a slave is such a step, in the order of its program.
LEMMA SlaveOwn ==
    ASSUME TypeOK, NEW s \in Slave,
           Serve(s) \/ Answer(s) \/ SendFails(s) \/ Die(s)
    PROVE  /\ Own(s)
           /\ \/ /\ place[s] \notin {"reset", "lost"} /\ place'[s] \in Gone
                 /\ \/ sent'[s] = sent[s]
                    \/ place'[s] # "closed" /\ sent'[s] \in read[s]..sent[s]
              \/ /\ place[s] = "off" /\ place'[s] \in {"failed", "accept"}
                 /\ (place'[s] = "accept" => Ported) /\ sent'[s] = sent[s]
              \/ /\ place[s] = "header" /\ place'[s] = "body" /\ sent'[s] = HeaderLen
              \/ /\ place[s] = "body" /\ sent'[s] > sent[s]
                 /\ place'[s] \in {"body", "write"}
                 /\ (place'[s] = "write" => sent'[s] = HeaderLen + Size)
              \/ asked # s /\ place[s] = "body" /\ place'[s] = "failed" /\ sent'[s] = sent[s]
              \/ place[s] = "write" /\ place'[s] \in {"served", "failed"} /\ sent'[s] = sent[s]
  <1>0. sent[s] \in 0..(HeaderLen + Size) /\ sent = [sent EXCEPT ![s] = sent[s]]
    BY DEF TypeOK
  <1>1. CASE Serve(s)
    BY <1>0, <1>1 DEF Serve, Goes, Own, TypeOK, Gone
  <1>2. CASE SendHeader(s)
    <2>1. /\ place[s] = "header" /\ place' = [place EXCEPT ![s] = "body"]
          /\ sent' = [sent EXCEPT ![s] = HeaderLen]
          /\ UNCHANGED masterVars /\ UNCHANGED read
      BY <1>2 DEF SendHeader, Goes
    <2>2. HeaderLen \in 0..(HeaderLen + Size)
      OBVIOUS
    <2>3. Own(s)
      BY <2>1, <2>2 DEF Own
    <2>4. place'[s] = "body" /\ sent'[s] = HeaderLen
      BY <2>1 DEF TypeOK
    <2> QED
      BY <2>1, <2>3, <2>4
  <1>3. CASE SendBody(s)
    <2>1. PICK n \in 1..(HeaderLen + Size - sent[s]) : sent' = [sent EXCEPT ![s] = @ + n]
      BY <1>3 DEF SendBody
    <2>2. /\ place[s] = "body"
          /\ place' = [place EXCEPT ![s] =
                          IF sent'[s] = HeaderLen + Size THEN "write" ELSE "body"]
          /\ UNCHANGED masterVars /\ UNCHANGED read
      BY <1>3 DEF SendBody, Goes
    <2>3. sent[s] \in 0..(HeaderLen + Size) /\ sent[s] + n \in 0..(HeaderLen + Size)
      BY <2>1 DEF TypeOK
    <2>4. sent' = [sent EXCEPT ![s] = sent[s] + n] /\ sent'[s] = sent[s] + n
      BY <2>1 DEF TypeOK
    <2>5. place'[s] \in {"body", "write"}
          /\ (place'[s] = "write" => sent'[s] = HeaderLen + Size)
      BY <2>2 DEF TypeOK
    <2>6. Own(s)
      BY <2>2, <2>3, <2>4 DEF Own
    <2> QED
      BY <2>2, <2>3, <2>4, <2>5, <2>6
  <1>4. CASE SendFails(s)
    BY <1>0, <1>4 DEF SendFails, Goes, Own, TypeOK, Gone
  <1>5. CASE WriteOwn(s)
    BY <1>0, <1>5 DEF WriteOwn, Goes, Own, TypeOK, Gone
  <1>6. CASE Die(s)
    <2>1. PICK how \in Gone :
             /\ place[s] \notin {"reset", "lost"} /\ place' = [place EXCEPT ![s] = how]
             /\ \/ sent' = sent
                \/ /\ how # "closed"
                   /\ \E n \in read[s]..sent[s] : sent' = [sent EXCEPT ![s] = n]
             /\ UNCHANGED masterVars /\ UNCHANGED read
      BY <1>6 DEF Die, Goes
    <2>2. place'[s] = how
      BY <2>1 DEF TypeOK
    <2>3. CASE sent' = sent
      BY <1>0, <2>1, <2>2, <2>3 DEF Own
    <2>4. CASE how # "closed" /\ \E n \in read[s]..sent[s] : sent' = [sent EXCEPT ![s] = n]
      <3>1. PICK n \in read[s]..sent[s] : sent' = [sent EXCEPT ![s] = n]
        BY <2>4
      <3>2. read[s] \in 0..(HeaderLen + Size) /\ n \in 0..(HeaderLen + Size) /\ sent'[s] = n
        BY <1>0, <3>1 DEF TypeOK
      <3>3. Own(s)
        BY <2>1, <3>1, <3>2 DEF Own
      <3> QED
        BY <2>1, <2>2, <2>4, <3>1, <3>2, <3>3
    <2> QED
      BY <2>1, <2>3, <2>4
  <1> QED
    BY <1>1, <1>2, <1>3, <1>4, <1>5, <1>6 DEF Answer

\* The invariant survives it.
LEMMA SlaveHw ==
    ASSUME TypeOK, HwInv, NEW s \in Slave,
           Serve(s) \/ Answer(s) \/ SendFails(s) \/ Die(s)
    PROVE  TypeOK' /\ HwInv'
  <1>1. /\ UNCHANGED <<step, asked, retries, size, recd, mappings, refused, skewed>>
        /\ UNCHANGED read
        /\ \A t \in Slave : t # s => place'[t] = place[t] /\ sent'[t] = sent[t]
    <2>1. UNCHANGED masterVars /\ UNCHANGED read
      BY SlaveOwn DEF Own
    <2>2. \A t \in Slave : t # s => place'[t] = place[t]
      <3>1. PICK p : place' = [place EXCEPT ![s] = p]
        BY SlaveOwn DEF Own
      <3> QED
        BY <3>1 DEF TypeOK
    <2>3. \A t \in Slave : t # s => sent'[t] = sent[t]
      <3>1. PICK n : sent' = [sent EXCEPT ![s] = n]
        BY SlaveOwn DEF Own
      <3> QED
        BY <3>1 DEF TypeOK
    <2> QED
      BY <2>1, <2>2, <2>3 DEF masterVars
  <1>2. TypeOK'
    <2> DEFINE Places == {"off", "accept", "header", "body", "write", "served",
                          "failed"} \cup Gone
    <2>1. place' \in [Slave -> Places]
      <3>1. PICK p \in Places : place' = [place EXCEPT ![s] = p]
        BY SlaveOwn DEF Own
      <3>2. place \in [Slave -> Places]
        BY DEF TypeOK
      <3> HIDE DEF Places
      <3> QED
        BY <3>1, <3>2
    <2>2. sent' \in [Slave -> 0..(HeaderLen + Size)]
      <3>1. PICK n \in 0..(HeaderLen + Size) : sent' = [sent EXCEPT ![s] = n]
        BY SlaveOwn DEF Own
      <3> DEFINE Range == 0..(HeaderLen + Size)
      <3>2. sent \in [Slave -> Range] /\ n \in Range
        BY DEF TypeOK
      <3> HIDE DEF Range
      <3>3. sent' \in [Slave -> Range]
        BY <3>1, <3>2
      <3> QED
        BY <3>3 DEF Range
    <2> QED
      BY <1>1, <2>1, <2>2 DEF TypeOK
  <1>3. Untouched(s) => place[s] \notin {"header", "body", "write", "served"}
    BY DEF Untouched, Gone
  <1>4. Untouched(s) => Untouched(s)'
    BY <1>1, <1>3, SlaveOwn DEF Untouched, Gone
  <1>5. \A t \in Slave : Unasked(t)' => Untouched(t)'
    BY <1>1, <1>4 DEF HwInv, Unasked, Untouched
  <1>6. /\ \A t \in Slave : t < asked' => Explained(t)'
        /\ ~Ported => \A t \in Slave : Untouched(t)' /\ place'[t] # "accept"
    <2>1. place[s] \in Gone /\ ~Delivers(s) => place'[s] \in Gone /\ ~Delivers(s)'
      BY <1>1, SlaveOwn DEF Delivers, Gone
    <2>2. \A t \in Slave : t # s =>
             (place[t] \in Gone /\ ~Delivers(t) => place'[t] \in Gone /\ ~Delivers(t)')
      BY <1>1 DEF Delivers
    <2>3. \A t \in Slave : Untouched(t) => Untouched(t)'
      BY <1>1, <1>4 DEF Untouched
    <2>4. ~Ported => place'[s] # "accept"
      BY SlaveOwn DEF HwInv, Untouched, Gone
    <2> QED
      BY <1>1, <2>1, <2>2, <2>3, <2>4 DEF HwInv, Explained
  <1>7. step' \in {"header", "body"} => Connected'
    <2>1. CASE step \in {"header", "body"} /\ asked = s
      <3>1. read[s] \in Nat /\ sent[s] \in Nat /\ sent'[s] \in Nat
        BY <1>2, <1>1 DEF TypeOK
      <3> QED
        BY <1>1, <2>1, <3>1, SlaveOwn DEF HwInv, Connected, Gone
    <2>2. CASE step \in {"header", "body"} /\ asked # s
      BY <1>1, <2>2 DEF HwInv, Connected, TypeOK
    <2> QED
      BY <1>1, <2>1, <2>2
  <1> QED
    BY <1>1, <1>2, <1>5, <1>6, <1>7 DEF HwInv

-----------------------------------------------------------------------------
(* The master's steps.                                                     *)

\* Those that neither read from a connection nor end with a slave.
LEMMA QuietHw ==
    ASSUME TypeOK, HwInv,
           CheckNodeRole \/ LocalHwd \/ NextSlave \/ Refused \/ WriteMappings
    PROVE  TypeOK' /\ HwInv'
  <1>1. /\ UNCHANGED <<asked, size, recd, mappings, skewed, place, sent, read>>
        /\ step \notin {"header", "body", "done"} /\ step' \notin {"header", "body"}
    BY DEF CheckNodeRole, LocalHwd, NextSlave, Refused, WriteMappings, netVars, History
  <1>2. TypeOK'
    <2>1. retries' \in 0..MaxRetries
      BY DEF CheckNodeRole, LocalHwd, NextSlave, Refused, WriteMappings, TypeOK, HwInv
    <2>2. refused' \subseteq Slave
      BY DEF CheckNodeRole, LocalHwd, NextSlave, Refused, WriteMappings, TypeOK, History
    <2>3. /\ step' \in {"local", "next", "connect", "write", "done", "failed"}
          /\ step' = "connect" => asked \in Slave
      BY DEF CheckNodeRole, LocalHwd, NextSlave, Refused, WriteMappings, TypeOK
    <2> QED
      BY <1>1, <2>1, <2>2, <2>3 DEF TypeOK
  <1>3. step' = "connect" => retries' < MaxRetries
    BY DEF CheckNodeRole, LocalHwd, NextSlave, Refused, WriteMappings, TypeOK, HwInv
  <1>4. step' \in {"write", "done"} => asked' = N + 1 \/ asked' \in refused'
    BY DEF CheckNodeRole, LocalHwd, NextSlave, Refused, WriteMappings, TypeOK, HwInv,
           History
  <1>5. ~Ported => refused' = {}
    BY DEF CheckNodeRole, LocalHwd, NextSlave, Refused, WriteMappings, HwInv, History
  <1> QED
    BY <1>1, <1>2, <1>3, <1>4, <1>5 DEF HwInv, Unasked, Untouched, Explained, Delivers

\* The connection starts with nothing sent or read.
LEMMA ConnectHw ==
    ASSUME TypeOK, HwInv, Connect
    PROVE  TypeOK' /\ HwInv'
  <1>1. /\ UNCHANGED <<asked, retries, size, recd, mappings, refused, skewed,
                       sent, read>>
        /\ asked \in Slave /\ step = "connect" /\ step' = "header"
        /\ Ported /\ place'[asked] = "header"
        /\ \A t \in Slave : t # asked => place'[t] = place[t]
    BY DEF Connect, Goes, History, TypeOK
  <1>2. TypeOK'
    BY DEF Connect, Goes, History, TypeOK
  <1>3. sent[asked] = 0 /\ read[asked] = 0
    BY <1>1 DEF HwInv, Unasked, Untouched, TypeOK
  <1>4. \A t \in Slave : Unasked(t)' => Untouched(t)'
    BY <1>1 DEF HwInv, Unasked, Untouched, TypeOK
  <1>5. \A t \in Slave : t < asked' => Explained(t)'
    BY <1>1 DEF HwInv, Explained, Delivers, TypeOK
  <1> QED
    BY <1>1, <1>2, <1>3, <1>4, <1>5 DEF HwInv, Connected

\* The master is done with a slave once there is a reason.
LEMMA DoneHw ==
    ASSUME TypeOK, HwInv, asked \in Slave,
           mappings' = {} \/ Ported,
           asked \in mappings' \cup skewed \/ (place[asked] \in Gone /\ ~Delivers(asked))
               \/ ~Ported,
           step \in {"connect", "header", "body"}, step' = "next", asked' = asked + 1,
           mappings' \in {mappings, mappings \cup {asked}},
           UNCHANGED <<retries, size, recd, refused, skewed, place, sent, read>>
    PROVE  TypeOK' /\ HwInv'
  <1>1. TypeOK'
    BY DEF TypeOK
  <1>2. \A t \in Slave : Unasked(t)' => Untouched(t)'
    BY DEF HwInv, Unasked, Untouched, TypeOK
  <1>3. \A t \in Slave : t < asked' => Explained(t)'
    <2>1. \A t \in Slave : t < asked' => t < asked \/ t = asked
      BY DEF TypeOK
    <2> QED
      BY <2>1 DEF HwInv, Explained, Delivers
  <1> QED
    BY <1>1, <1>2, <1>3 DEF HwInv, Untouched

\* There is one when the connection or a read raises, when the stream ends
\* early, when the object is no object, and when it is one.
LEMMA SkipHw ==
    ASSUME TypeOK, HwInv,
           ConnectRaises \/ RecvRaises \/ BreaksOff \/ Unpicklable \/ Join
    PROVE  TypeOK' /\ HwInv'
  <1>1. /\ step \in {"connect", "header", "body"} /\ step' = "next" /\ asked' = asked + 1
        /\ asked \in Slave
        /\ mappings' \in {mappings, mappings \cup {asked}}
        /\ UNCHANGED <<retries, size, recd, refused, skewed, place, sent, read>>
    BY DEF ConnectRaises, RecvRaises, BreaksOff, Unpicklable, Join, Skip, History,
           netVars, TypeOK
  <1>2. mappings' = {} \/ Ported
    BY DEF HwInv, ConnectRaises, RecvRaises, BreaksOff, Unpicklable, Join, Skip
  <1> SUFFICES asked \in mappings' \cup skewed \/ (place[asked] \in Gone /\ ~Delivers(asked))
                  \/ ~Ported
    BY <1>1, <1>2, DoneHw
  <1>3. CASE ConnectRaises \/ RecvRaises
    BY <1>3 DEF ConnectRaises, RecvRaises, Delivers, Gone
  <1>4. CASE BreaksOff
    <2> SUFFICES ASSUME asked \notin skewed PROVE place[asked] \in Gone /\ ~Delivers(asked)
      OBVIOUS
    <2>1. /\ step = "body" /\ recd < size /\ read[asked] = sent[asked]
          /\ place[asked] \in {"write", "served", "failed", "closed"}
      BY <1>4 DEF BreaksOff, Ended
    <2>2. size = Size /\ recd \in Nat /\ read[asked] = HeaderLen + recd
      BY <2>1 DEF HwInv, Connected, TypeOK
    <2>3. sent[asked] # HeaderLen + Size
      BY <2>1, <2>2
    <2> QED
      BY <2>1, <2>3 DEF HwInv, Connected, Delivers, Gone
  <1>5. CASE Unpicklable
    <2> SUFFICES ASSUME asked \notin skewed PROVE FALSE
      OBVIOUS
    <2>1. step = "body" /\ recd >= size /\ recd # Size
      BY <1>5 DEF Unpicklable, Whole
    <2>2. size = Size /\ recd <= Size /\ recd \in Nat
      BY <2>1 DEF HwInv, Connected, TypeOK
    <2> QED
      BY <2>1, <2>2
  <1>6. CASE Join
    BY <1>6 DEF Join
  <1> QED
    BY <1>3, <1>4, <1>5, <1>6

\* A read moves on in the stream, or loses its place in it.
LEMMA RecvHw ==
    ASSUME TypeOK, HwInv, RecvHeader \/ RecvChunk
    PROVE  TypeOK' /\ HwInv'
  <1>1. /\ step \in {"header", "body"} /\ step' \in {"header", "body"}
        /\ UNCHANGED <<asked, retries, mappings, refused, place, sent>>
        /\ asked \in Slave
    BY DEF RecvHeader, RecvChunk, History, TypeOK
  <1>2. PICK n \in Nat \ {0} :
           /\ read[asked] + n <= sent[asked] /\ read' = [read EXCEPT ![asked] = @ + n]
           /\ \/ /\ step = "header" /\ n <= HeaderLen /\ recd' = 0
                 /\ skewed' = IF n = HeaderLen THEN skewed ELSE skewed \cup {asked}
                 /\ step' = IF n = HeaderLen THEN "body" ELSE "header"
                 /\ size' \in 0..(HeaderLen + Size)
                 /\ n = HeaderLen /\ asked \notin skewed => size' = Size
              \/ /\ step = "body" /\ recd < size /\ n <= size - recd
                 /\ recd' = recd + n
                 /\ UNCHANGED <<step, size, skewed>>
    <2>1. CASE RecvHeader
      <3>1. size \in 0..(HeaderLen + Size) /\ Size \in 0..(HeaderLen + Size)
        BY DEF TypeOK
      <3>2. PICK n \in 1..HeaderLen :
               /\ step = "header" /\ Recv(HeaderLen, n)
               /\ skewed' = IF n = HeaderLen THEN skewed ELSE skewed \cup {asked}
               /\ step' = IF n = HeaderLen THEN "body" ELSE "header"
               /\ \/ n = HeaderLen /\ asked \notin skewed /\ size' = Size
                  \/ n = HeaderLen /\ asked \in skewed /\ size' \in 0..(HeaderLen + Size)
                  \/ n < HeaderLen /\ UNCHANGED size
               /\ recd' = 0
        BY <2>1 DEF RecvHeader
      <3>3. size' \in 0..(HeaderLen + Size)
        BY <3>1, <3>2
      <3>4. n \in Nat \ {0} /\ n <= HeaderLen
        OBVIOUS
      <3>5. n = HeaderLen /\ asked \notin skewed => size' = Size
        BY <3>2
      <3>6. read[asked] + n <= sent[asked] /\ read' = [read EXCEPT ![asked] = @ + n]
        BY <3>2 DEF Recv
      <3> QED
        BY <3>2, <3>3, <3>4, <3>5, <3>6
    <2>2. CASE RecvChunk
      <3>1. size \in Nat /\ recd \in Nat
        BY DEF TypeOK
      <3>2. PICK n \in 1..(HeaderLen + Size) :
               /\ step = "body" /\ recd < size /\ Recv(size - recd, n)
               /\ recd' = recd + n /\ UNCHANGED <<step, size, skewed>>
        BY <2>2 DEF RecvChunk, History
      <3>3. n \in Nat \ {0} /\ n <= size - recd
        BY <3>1, <3>2 DEF Recv
      <3>4. read[asked] + n <= sent[asked] /\ read' = [read EXCEPT ![asked] = @ + n]
        BY <3>2 DEF Recv
      <3> QED
        BY <3>2, <3>3, <3>4
    <2> QED
      BY <2>1, <2>2
  <1>3. /\ read[asked] \in Nat /\ sent[asked] \in 0..(HeaderLen + Size)
        /\ read'[asked] = read[asked] + n
        /\ \A t \in Slave : t # asked => read'[t] = read[t]
    BY <1>1, <1>2 DEF TypeOK
  <1>4. TypeOK'
    <2>1. read' \in [Slave -> 0..(HeaderLen + Size)]
      BY <1>1, <1>2, <1>3 DEF TypeOK
    <2>2. recd' \in 0..(HeaderLen + Size) /\ size' \in 0..(HeaderLen + Size)
      BY <1>2 DEF TypeOK
    <2>3. skewed' \subseteq Slave
      BY <1>1, <1>2 DEF TypeOK
    <2> QED
      BY <1>1, <2>1, <2>2, <2>3 DEF TypeOK
  <1>5. Connected'
    <2>1. read'[asked] <= sent[asked]
      BY <1>2, <1>3
    <2>2. asked \notin skewed' /\ step' = "header" => read'[asked] = 0
      BY <1>1, <1>2
    <2>3. asked \notin skewed' /\ step' = "body" =>
             size' = Size /\ recd' <= Size /\ read'[asked] = HeaderLen + recd'
      BY <1>1, <1>2, <1>3 DEF HwInv, Connected, TypeOK
    <2> QED
      BY <1>1, <2>1, <2>2, <2>3 DEF HwInv, Connected
  <1>6. \A t \in Slave : Unasked(t)' => Untouched(t)'
    BY <1>1, <1>3 DEF HwInv, Unasked, Untouched, TypeOK
  <1>7. \A t \in Slave : t < asked' => Explained(t)'
    BY <1>1, <1>2 DEF HwInv, Explained, Delivers
  <1> QED
    BY <1>1, <1>4, <1>5, <1>6, <1>7 DEF HwInv

\* Every step preserves the inductive invariant.
LEMMA NextHw == TypeOK /\ HwInv /\ [Next]_vars => TypeOK' /\ HwInv'
  <1> SUFFICES ASSUME TypeOK, HwInv, [Next]_vars
               PROVE  TypeOK' /\ HwInv'
    OBVIOUS
  <1>1. CASE Master
    BY <1>1, QuietHw, ConnectHw, SkipHw, RecvHw DEF Master
  <1>2. ASSUME NEW s \in Slave, Serve(s) \/ Answer(s) \/ SendFails(s) \/ Die(s)
        PROVE  TypeOK' /\ HwInv'
    BY <1>2, SlaveHw
  <1>3. CASE UNCHANGED vars
    BY <1>3 DEF vars, masterVars, netVars, TypeOK, HwInv, Unasked, Untouched, Explained,
                Connected, Delivers
  <1> QED
    BY <1>1, <1>2, <1>3 DEF Next

\* Master and slaves agree at all times on what became of whom.
LEMMA HwInvHolds == Spec => [](TypeOK /\ HwInv)
  BY InitHw, NextHw, PTL DEF Spec

-----------------------------------------------------------------------------
(* The theorems.                                                           *)

\* Every variable keeps its type, and no more refusals are counted than
\* MAX_SLAVE_CONNECTION_RETRIES.
THEOREM TypeCorrect == Spec => []TypeOK
  BY HwInvHolds, PTL

\* A slave that has sent all its settings, and whose machine and connection last
\* until the master is done, is in what the master writes, unless its header came
\* in pieces, for any number of slaves.
THEOREM SentIsListed == Spec => []SentMeansListed
  <1>1. TypeOK /\ HwInv => SentMeansListed
    <2> SUFFICES ASSUME TypeOK, HwInv, step = "done", NEW s \in Slave, Delivers(s)
                 PROVE  s \in mappings \cup skewed
      BY DEF SentMeansListed
    <2>1. ~Untouched(s)
      BY DEF Untouched, Delivers
    <2>2. s < asked
      BY <2>1 DEF HwInv, Unasked, TypeOK
    <2> QED
      BY <2>1, <2>2 DEF HwInv, Explained
  <1> QED
    BY <1>1, HwInvHolds, PTL

\* A slave that is missing from what the master writes went away before all its
\* bytes had arrived, sent its header in pieces, or comes at or after one that
\* refused; or the nodes have no port.
THEOREM MissingHasReason == Spec => []MissingIsExplained
  <1>1. TypeOK /\ HwInv => MissingIsExplained
    <2> SUFFICES ASSUME TypeOK, HwInv, step = "done", Ported, NEW s \in Slave \ mappings
                 PROVE  NetworkReason(s)
      BY DEF MissingIsExplained
    <2>1. CASE s < asked
      BY <2>1 DEF HwInv, Explained, NetworkReason
    <2>2. CASE ~(s < asked)
      <3>1. asked <= s /\ asked # N + 1
        BY <2>2 DEF TypeOK
      <3> QED
        BY <3>1 DEF HwInv, NetworkReason
    <2> QED
      BY <2>1, <2>2
  <1> QED
    BY <1>1, HwInvHolds, PTL

\* Without a port, as in this repository, the master passes all the slaves, however
\* many, and lists none.
THEOREM UnportedSkipped == Spec => []UnportedSkipsEach
  <1>1. TypeOK /\ HwInv => UnportedSkipsEach
    BY DEF HwInv, UnportedSkipsEach
  <1> QED
    BY <1>1, HwInvHolds, PTL

-----------------------------------------------------------------------------
(* The master goes on.                                                     *)

\* The steps to a later place, and those that end with a slave.
LEMMA MoveAdvances ==
    ASSUME TypeOK,
           \/ CheckNodeRole \/ LocalHwd \/ NextSlave \/ Connect \/ WriteMappings
           \/ ConnectRaises \/ RecvRaises \/ BreaksOff \/ Unpicklable \/ Join
    PROVE  Advances
  <1>1. CASE ConnectRaises \/ RecvRaises \/ BreaksOff \/ Unpicklable \/ Join
    <2>1. asked \in Slave /\ asked' = asked + 1
      BY <1>1 DEF ConnectRaises, RecvRaises, BreaksOff, Unpicklable, Join, Skip, TypeOK
    <2> QED
      BY <2>1 DEF Advances
  <1>2. CASE CheckNodeRole \/ LocalHwd \/ NextSlave \/ Connect \/ WriteMappings
    <2>1. asked' = asked /\ Order[step'] > Order[step]
      BY <1>2 DEF CheckNodeRole, LocalHwd, NextSlave, Connect, WriteMappings, Order
    <2> QED
      BY <2>1 DEF Advances
  <1> QED
    BY <1>1, <1>2

\* A refusal is counted, and there is a last one.
LEMMA RefusalAdvances ==
    ASSUME TypeOK, HwInv, Refused
    PROVE  Advances
  <1>1. step = "connect" /\ asked' = asked /\ retries' = retries + 1
    BY DEF Refused
  <1>2. retries \in Nat /\ retries < MaxRetries
    BY <1>1 DEF TypeOK, HwInv
  <1>3. step' = step \/ Order[step'] > Order[step]
    BY <1>1 DEF Refused, Order
  <1> QED
    BY <1>1, <1>2, <1>3 DEF Advances

\* A read brings at least one byte of those that were sent.
LEMMA RecvAdvances ==
    ASSUME TypeOK, RecvHeader \/ RecvChunk
    PROVE  Advances
  <1>1. CASE RecvHeader
    <2>1. PICK n \in 1..HeaderLen :
             /\ step = "header" /\ asked' = asked /\ Recv(HeaderLen, n)
             /\ step' = IF n = HeaderLen THEN "body" ELSE "header"
      BY <1>1 DEF RecvHeader
    <2>2. asked \in Slave
      BY <2>1 DEF TypeOK
    <2>3. read'[asked] = read[asked] + n /\ read[asked] + n <= sent[asked]
      BY <2>1, <2>2 DEF Recv, TypeOK
    <2>4. read[asked] \in Nat /\ sent[asked] \in 0..(HeaderLen + Size)
      BY <2>2 DEF TypeOK
    <2>5. read[asked] < read'[asked] /\ read'[asked] <= HeaderLen + Size
      BY <2>3, <2>4
    <2>6. step' = step \/ Order[step'] > Order[step]
      BY <2>1 DEF Order
    <2> QED
      BY <2>1, <2>5, <2>6 DEF Advances
  <1>2. CASE RecvChunk
    <2>1. PICK n \in 1..(HeaderLen + Size) :
             /\ step = "body" /\ asked' = asked /\ step' = step /\ size' = size
             /\ n \in 1..(size - recd) /\ recd' = recd + n
      BY <1>2 DEF RecvChunk, Recv
    <2>2. recd \in Nat /\ size \in Nat
      BY DEF TypeOK
    <2>3. recd < recd' /\ recd' <= size
      BY <2>1, <2>2
    <2> QED
      BY <2>1, <2>3 DEF Advances
  <1> QED
    BY <1>1, <1>2

\* For any number of slaves, any length of their objects and any number of
\* retries, each step of the master's program leaves less of it to do, and no
\* step of a slave leaves it more.
THEOREM DiscoveryAdvances == Spec => MasterAdvances
  <1>1. TypeOK /\ HwInv /\ [Next]_vars
           => [Advances \/ (~Master /\ UNCHANGED <<masterVars, read>>)]_vars
    <2>1. ASSUME TypeOK, HwInv, Master
          PROVE  Advances
      BY <2>1, MoveAdvances, RefusalAdvances, RecvAdvances DEF Master
    <2>2. ASSUME NEW s \in Slave, Serve(s) \/ Answer(s) \/ SendFails(s) \/ Die(s)
          PROVE  UNCHANGED <<masterVars, read>>
      BY <2>2 DEF Serve, Answer, SendHeader, SendBody, WriteOwn, SendFails, Die
    <2> QED
      BY <2>1, <2>2 DEF Next
  <1> QED
    BY <1>1, HwInvHolds, PTL DEF Spec, MasterAdvances
=============================================================================
