---------------------------- MODULE Server_proofs ----------------------------
(***************************************************************************)
(* Theorems about the select loop for any clients, places and queries: the *)
(* array of connections is sound, the server never blocks in a read, no    *)
(* query is answered twice or to another client, and a connection is left  *)
(* out of the array only when it is full.                                  *)
(***************************************************************************)
EXTENDS Server, FiniteSetTheorems, TLAPS

Serving == pc \in {"plain", "silent", "endless"}

(* Where the server is: accept follows a select that saw a connection and  *)
(* nothing was closed since; sd names an open descriptor while its query   *)
(* is answered.                                                            *)
Control ==
  /\ pc = "accept" => backlog # << >> /\ readfds \subseteq DOMAIN owner
  /\ Serving => i < max_clients /\ sd \in DOMAIN owner
  /\ ~Serving => sd = 0

(* A client has one connection: it is queued once or open once, and before *)
(* it connects neither.                                                    *)
OneConnection ==
  /\ \A d, e \in DOMAIN owner : owner[d] = owner[e] => d = e
  /\ \A m, n \in DOMAIN backlog : backlog[m] = backlog[n] => m = n
  /\ \A d \in DOMAIN owner, n \in DOMAIN backlog : owner[d] # backlog[n]
  /\ \A d \in DOMAIN owner : cstate[owner[d]] # "off"
  /\ \A n \in DOMAIN backlog : cstate[backlog[n]] # "off"

(* What select reported still holds at every place the scan has to visit.  *)
ReadyAhead ==
  pc \in {"accept", "scan"} \/ Serving =>
    \A p \in Places :
      (IF Serving THEN p > i ELSE p >= i) /\ client_socket[p] \in readfds
        => toServer[owner[client_socket[p]]] # << >>

(* The induction hypothesis of OneInFlight.                                *)
InFlightBound ==
  \A c \in Clients : /\ cstate[c] = "wait" => InFlight(c) <= 1
                     /\ cstate[c] \in {"off", "input"} => InFlight(c) = 0

(***************************************************************************)
(* Types                                                                   *)
(***************************************************************************)

LEMMA DescriptorTypes ==
  /\ Cardinality(Clients) \in Nat
  /\ Descriptors \subseteq Nat /\ 0 \notin Descriptors
  /\ Places \subseteq Nat
  /\ max_clients \in Nat \ {0}
  BY ServerAssumption, FS_CardinalityType DEF Descriptors, Master, Places

LEMMA TypeInit == Init => TypeOK
  BY DescriptorTypes DEF Init, TypeOK, Places

LEMMA AliveType == Alive \subseteq Clients
  BY DEF Alive

LEMMA TypeStep == TypeOK /\ Control /\ [Next]_vars => TypeOK'
  <1> SUFFICES ASSUME TypeOK, Control, [Next]_vars PROVE TypeOK'
    OBVIOUS
  <1> USE DescriptorTypes
  <1>1. ASSUME NEW c \in Clients, Connect(c) PROVE TypeOK'
    BY <1>1 DEF TypeOK, Connect, srvVars
  <1>2. ASSUME NEW c \in Clients, Write(c) PROVE TypeOK'
    <2>1. PICK k \in Kinds : toServer' = [toServer EXCEPT ![c] = Append(@, k)]
      BY <1>2 DEF Write
    <2>2. toServer' \in [Clients -> Seq(QueryKinds \cup {"eof", "reset"})]
      BY <2>1, ServerAssumption DEF TypeOK
    <2>3. QED
      BY <1>2, <2>2 DEF TypeOK, Write, srvVars
  <1>3. ASSUME NEW c \in Clients, Read(c) PROVE TypeOK'
    BY <1>3 DEF TypeOK, Read, srvVars
  <1>4. ASSUME NEW c \in Clients, Die(c) PROVE TypeOK'
    BY <1>4 DEF TypeOK, Die, srvVars
  <1>5. ASSUME Select PROVE TypeOK'
    <2>1. Polled \subseteq Descriptors
      BY DEF TypeOK, Polled
    <2>2. QED
      BY <1>5, <2>1 DEF TypeOK, Select, netVars
  <1>6. ASSUME Accept PROVE TypeOK'
    <2>1. PICK fd \in Descriptors \ DOMAIN owner :
            /\ owner' = [d \in DOMAIN owner \cup {fd} |->
                           IF d = fd THEN Head(backlog) ELSE owner[d]]
            /\ AddSocket(fd)
      BY <1>6 DEF Accept
    <2>2. Head(backlog) \in Clients /\ Tail(backlog) \in Seq(Clients)
      BY <1>6 DEF Accept, Control, TypeOK
    <2>3. owner' \in [DOMAIN owner' -> Clients] /\ DOMAIN owner' \subseteq Descriptors
      BY <2>1, <2>2 DEF TypeOK
    <2>4. client_socket' \in [Places -> Descriptors \cup {0}]
      BY <2>1 DEF TypeOK, AddSocket, EmptyPlaces
    <2>5. QED
      BY <1>6, <2>2, <2>3, <2>4 DEF TypeOK, Accept
  <1>7. ASSUME Skip PROVE TypeOK'
    BY <1>7 DEF TypeOK, Skip, netVars
  <1>8. ASSUME NEW what, Takes(what), Ready
        PROVE  toServer' \in [Clients -> Seq(QueryKinds \cup {"eof", "reset"})]
    <2> DEFINE c == owner[client_socket[i]]
               S == Seq(QueryKinds \cup {"eof", "reset"})
    <2>1. /\ toServer \in [Clients -> S] /\ toServer[c] # << >>
          /\ toServer' = [toServer EXCEPT ![c] = Tail(@)]
      BY <1>8 DEF TypeOK, Takes
    <2>2. \A q \in S : q # << >> => Tail(q) \in S
      OBVIOUS
    <2> HIDE DEF c, S
    <2>3. toServer' \in [Clients -> S]
      BY <2>1, <2>2
    <2>4. QED
      BY <2>3 DEF S
  <1>9. ASSUME Disconnected PROVE TypeOK'
    <2>1. toServer' \in [Clients -> Seq(QueryKinds \cup {"eof", "reset"})]
      BY <1>9, <1>8 DEF Disconnected
    <2>2. /\ DOMAIN owner' \subseteq Descriptors
          /\ owner' \in [DOMAIN owner' -> Clients]
      BY <1>9 DEF TypeOK, Disconnected
    <2>3. client_socket' \in [Places -> Descriptors \cup {0}]
      BY <1>9 DEF TypeOK, Disconnected
    <2>4. i + 1 \in 0 .. max_clients
      BY <1>9 DEF TypeOK, Disconnected, Ready
    <2>5. QED
      BY <1>9, <2>1, <2>2, <2>3, <2>4 DEF TypeOK, Disconnected
  <1>10. ASSUME Failed PROVE TypeOK'
    BY <1>10, <1>8 DEF TypeOK, Failed
  <1>11. ASSUME NEW k \in {"plain", "silent", "endless"}, Query(k) PROVE TypeOK'
    <2>1. client_socket[i] \in Descriptors
      BY <1>11 DEF TypeOK, Query, Ready
    <2>2. QED
      BY <1>11, <2>1, <1>8 DEF TypeOK, Query
  <1>12. ASSUME Send PROVE TypeOK'
    <2>1. toClient' \in [Clients -> Nat]
      BY <1>12, AliveType DEF TypeOK, Send, Answer
    <2>2. i + 1 \in 0 .. max_clients
      <3>1. i \in 0 .. max_clients /\ i < max_clients
        BY <1>12 DEF TypeOK, Send, Control, Serving
      <3>2. QED
        BY <3>1
    <2>3. QED
      BY <1>12, <2>1, <2>2 DEF TypeOK, Send, Answer
  <1>13. ASSUME NextRound PROVE TypeOK'
    BY <1>13 DEF TypeOK, NextRound, netVars
  <1>14. ASSUME UNCHANGED vars PROVE TypeOK'
    BY <1>14 DEF TypeOK, vars, netVars, srvVars
  <1>15. QED
    BY <1>1, <1>2, <1>3, <1>4, <1>5, <1>6, <1>7, <1>9, <1>10, <1>11, <1>12,
       <1>13, <1>14 DEF Next, ClientStep, ServerStep
(***************************************************************************)
(* Connections                                                             *)
(***************************************************************************)

Connections == Control /\ OneConnection /\ PlacesSound

LEMMA ConnectionsInit == Init => Connections
  BY DescriptorTypes
  DEF Init, Connections, Control, Serving, OneConnection, PlacesSound, Polled

LEMMA ConnectionsStep == TypeOK /\ Connections /\ [Next]_vars => Connections'
  <1> SUFFICES ASSUME TypeOK, Connections, [Next]_vars PROVE Connections'
    OBVIOUS
  <1> USE DescriptorTypes
  <1>1. ASSUME NEW c \in Clients, Connect(c) PROVE Connections'
    <2>1. /\ backlog \in Seq(Clients) /\ backlog' = Append(backlog, c)
          /\ UNCHANGED srvVars /\ cstate[c] = "off"
          /\ cstate \in [Clients -> {"off", "input", "wait", "dead"}]
          /\ cstate' = [cstate EXCEPT ![c] = "input"]
      BY <1>1 DEF TypeOK, Connect
    <2>2. /\ backlog' # << >> /\ DOMAIN backlog' = 1 .. Len(backlog) + 1
          /\ DOMAIN backlog = 1 .. Len(backlog) /\ Len(backlog) \in Nat
          /\ backlog'[Len(backlog) + 1] = c
          /\ \A n \in DOMAIN backlog : backlog'[n] = backlog[n] /\ backlog[n] # c
          /\ \A d \in DOMAIN owner : owner[d] # c
      BY <2>1 DEF Connections, OneConnection
    <2>3. Control' /\ PlacesSound'
      BY <2>1, <2>2 DEF Connections, Control, Serving, PlacesSound, Polled, srvVars
    <2>4. /\ \A d, e \in DOMAIN owner' : owner'[d] = owner'[e] => d = e
          /\ \A d \in DOMAIN owner' : cstate'[owner'[d]] # "off"
      BY <2>1, <2>2 DEF Connections, OneConnection, srvVars, TypeOK
    <2>5. /\ \A m, n \in DOMAIN backlog' : backlog'[m] = backlog'[n] => m = n
          /\ \A d \in DOMAIN owner', n \in DOMAIN backlog' : owner'[d] # backlog'[n]
          /\ \A n \in DOMAIN backlog' : cstate'[backlog'[n]] # "off"
      <3>1. \A n \in DOMAIN backlog' : n = Len(backlog) + 1 \/ n \in DOMAIN backlog
        BY <2>2
      <3>2. \A n \in DOMAIN backlog : backlog[n] \in Clients
        BY <2>1, <2>2
      <3>3. QED
        BY <2>1, <2>2, <3>1, <3>2 DEF Connections, OneConnection, srvVars
    <2>6. QED
      BY <2>3, <2>4, <2>5 DEF Connections, OneConnection
  <1>2. ASSUME NEW c \in Clients, Write(c) \/ Read(c) \/ Die(c) PROVE Connections'
    <2>1. /\ UNCHANGED <<backlog, srvVars>>
          /\ \A d \in Clients : cstate[d] # "off" => cstate'[d] # "off"
      BY <1>2 DEF Write, Read, Die, TypeOK
    <2>2. \A n \in DOMAIN backlog : backlog[n] \in Clients
      BY DEF TypeOK
    <2>3. OneConnection'
      BY <2>1, <2>2 DEF Connections, OneConnection, srvVars, TypeOK
    <2>4. QED
      BY <2>1, <2>3 DEF Connections, Control, Serving, PlacesSound, Polled, srvVars
  <1>3. ASSUME Select PROVE Connections'
    <2>1. readfds' \subseteq DOMAIN owner
      BY <1>3 DEF Select, Connections, PlacesSound
    <2>2. QED
      BY <1>3, <2>1
      DEF Select, Connections, Control, Serving, OneConnection, PlacesSound,
          Polled, netVars
  <1>4. ASSUME Accept PROVE Connections'
    <2>1. PICK fd \in Descriptors \ DOMAIN owner :
            /\ owner' = [d \in DOMAIN owner \cup {fd} |->
                           IF d = fd THEN Head(backlog) ELSE owner[d]]
            /\ AddSocket(fd)
      BY <1>4 DEF Accept
    <2>2. /\ backlog \in Seq(Clients) /\ backlog # << >>
          /\ backlog' = Tail(backlog) /\ cstate' = cstate
      BY <1>4 DEF Accept, Connections, Control, TypeOK
    <2>3. /\ DOMAIN backlog = 1 .. Len(backlog) /\ 1 \in DOMAIN backlog
          /\ Head(backlog) = backlog[1]
          /\ \A n \in DOMAIN backlog' : /\ n + 1 \in DOMAIN backlog /\ n + 1 # 1
                                        /\ n \in Nat
                                        /\ backlog'[n] = backlog[n + 1]
      BY <2>2
    <2>4. OneConnection'
      <3>1. /\ DOMAIN owner' = DOMAIN owner \cup {fd} /\ owner'[fd] = backlog[1]
            /\ \A d \in DOMAIN owner : d # fd /\ owner'[d] = owner[d]
                                       /\ owner[d] # backlog[1]
        BY <2>1, <2>3 DEF Connections, OneConnection
      <3>2. /\ \A d, e \in DOMAIN owner' : owner'[d] = owner'[e] => d = e
            /\ \A d \in DOMAIN owner' : cstate'[owner'[d]] # "off"
        BY <2>2, <2>3, <3>1 DEF Connections, OneConnection
      <3>3. \A m, n \in DOMAIN backlog' : backlog'[m] = backlog'[n] => m = n
        <4> SUFFICES ASSUME NEW m \in DOMAIN backlog', NEW n \in DOMAIN backlog',
                            backlog'[m] = backlog'[n]
                     PROVE  m = n
          OBVIOUS
        <4>1. m + 1 = n + 1 /\ m \in Nat /\ n \in Nat
          BY <2>3 DEF Connections, OneConnection
        <4>2. QED
          BY <4>1
      <3>4. /\ \A d \in DOMAIN owner', n \in DOMAIN backlog' : owner'[d] # backlog'[n]
            /\ \A n \in DOMAIN backlog' : cstate'[backlog'[n]] # "off"
        BY <2>2, <2>3, <3>1 DEF Connections, OneConnection
      <3>5. QED
        BY <3>2, <3>3, <3>4 DEF OneConnection
    <2>5. PlacesSound'
      <3>1. \A p \in Places : client_socket[p] # fd
        BY <2>1 DEF Connections, PlacesSound, Polled
      <3>2. CASE client_socket' = client_socket
        BY <2>1, <3>2 DEF Connections, PlacesSound, Polled
      <3>3. CASE \E p \in Places : client_socket' = [client_socket EXCEPT ![p] = fd]
        BY <2>1, <3>1, <3>3 DEF Connections, PlacesSound, Polled, TypeOK
      <3>4. QED
        BY <2>1, <3>2, <3>3 DEF AddSocket, EmptyPlaces
    <2>6. Control'
      BY <1>4 DEF Accept, Connections, Control, Serving
    <2>7. QED
      BY <2>4, <2>5, <2>6 DEF Connections
  <1>5. ASSUME Skip PROVE Connections'
    BY <1>5 DEF Skip, Connections, Control, Serving, OneConnection, PlacesSound,
                Polled, netVars
  <1>6. ASSUME Disconnected PROVE Connections'
    <2>1. i \in Places
      BY <1>6 DEF Disconnected, Ready, TypeOK, Places
    <2>2. /\ owner' = [fd \in DOMAIN owner \ {client_socket[i]} |-> owner[fd]]
          /\ client_socket' = [client_socket EXCEPT ![i] = 0]
          /\ UNCHANGED <<cstate, backlog, pc, sd>> /\ pc = "scan"
      BY <1>6 DEF Disconnected, Ready
    <2>3. OneConnection'
      BY <2>2 DEF Connections, OneConnection
    <2>4. PlacesSound'
      <3>1. \A p \in Places : /\ client_socket'[p] = 0 \/ client_socket'[p] = client_socket[p]
                              /\ p # i => client_socket'[p] = client_socket[p]
                              /\ client_socket'[i] = 0
        BY <2>1, <2>2 DEF TypeOK
      <3>2. ASSUME NEW p \in Places, client_socket'[p] # 0
            PROVE  client_socket'[p] \in DOMAIN owner'
        <4>1. p # i /\ client_socket'[p] = client_socket[p]
          BY <3>1, <3>2
        <4>2. client_socket[p] # client_socket[i] /\ client_socket[p] \in DOMAIN owner
          BY <2>1, <3>2, <4>1 DEF Connections, PlacesSound, Polled
        <4>3. QED
          BY <2>2, <4>1, <4>2
      <3>3. Polled' \subseteq DOMAIN owner'
        BY <3>2 DEF Polled
      <3>4. QED
        BY <3>1, <3>3 DEF Connections, PlacesSound
    <2>5. Control'
      BY <2>2 DEF Connections, Control, Serving
    <2>6. QED
      BY <2>3, <2>4, <2>5 DEF Connections
  <1>7. ASSUME Failed PROVE Connections'
    BY <1>7 DEF Failed, Ready, Connections, Control, Serving, OneConnection,
                PlacesSound, Polled
  <1>8. ASSUME NEW k \in {"plain", "silent", "endless"}, Query(k) PROVE Connections'
    <2>1. client_socket[i] \in DOMAIN owner
      <3>1. i \in Places /\ client_socket[i] \in readfds
        BY <1>8 DEF Query, Ready, TypeOK, Places
      <3>2. client_socket[i] \in Polled
        BY <3>1 DEF TypeOK, Polled
      <3>3. QED
        BY <3>2 DEF Connections, PlacesSound
    <2>2. QED
      BY <1>8, <2>1 DEF Query, Ready, Connections, Control, Serving,
                        OneConnection, PlacesSound, Polled
  <1>9. ASSUME Send PROVE Connections'
    BY <1>9 DEF Send, Answer, Connections, Control, Serving, OneConnection,
                PlacesSound, Polled
  <1>10. ASSUME NextRound PROVE Connections'
    BY <1>10 DEF NextRound, Connections, Control, Serving, OneConnection,
                 PlacesSound, Polled, netVars
  <1>11. ASSUME UNCHANGED vars PROVE Connections'
    BY <1>11 DEF Connections, Control, Serving, OneConnection, PlacesSound,
                 Polled, vars, netVars, srvVars
  <1>12. QED
    BY <1>1, <1>2, <1>3, <1>4, <1>5, <1>6, <1>7, <1>8, <1>9, <1>10, <1>11
    DEF Next, ClientStep, ServerStep
(***************************************************************************)
(* What the scan has still to read                                         *)
(***************************************************************************)

LEMMA ReadyInit == Init => ReadyAhead
  BY DEF Init, ReadyAhead, Serving

(* A step that reads at most what the connection at place i has to offer,  *)
(* and closes at most that connection, leaves the places after i as they   *)
(* were found.                                                             *)
LEMMA ReadyAfterHere ==
  ASSUME TypeOK, Connections, ReadyAhead, pc = "scan", i < max_clients,
         NEW c, c = owner[client_socket[i]], client_socket[i] \in readfds,
         \A d \in Clients : d # c => toServer'[d] = toServer[d],
         \A p \in Places : p > i => client_socket'[p] = client_socket[p],
         \A p \in Places : p > i /\ client_socket[p] \in Descriptors =>
                             owner'[client_socket[p]] = owner[client_socket[p]],
         readfds' = readfds
  PROVE  \A p \in Places : p > i /\ client_socket'[p] \in readfds'
           => toServer'[owner'[client_socket'[p]]] # << >>
  <1> SUFFICES ASSUME NEW p \in Places, p > i, client_socket[p] \in readfds
               PROVE  toServer'[owner[client_socket[p]]] # << >>
    BY DEF TypeOK
  <1>1. i \in Places /\ i \in Nat
    BY DescriptorTypes DEF TypeOK, Places
  <1>2. client_socket[p] # 0 /\ client_socket[i] # 0
    BY DescriptorTypes DEF TypeOK
  <1>3. client_socket[p] \in DOMAIN owner /\ client_socket[i] \in DOMAIN owner
    BY <1>1, <1>2 DEF Connections, PlacesSound, Polled
  <1>4. client_socket[p] # client_socket[i]
    BY <1>1, <1>2, DescriptorTypes DEF Connections, PlacesSound
  <1>5. owner[client_socket[p]] # c /\ owner[client_socket[p]] \in Clients
    BY <1>3, <1>4 DEF Connections, OneConnection, TypeOK
  <1>6. toServer[owner[client_socket[p]]] # << >>
    BY <1>1, DescriptorTypes DEF ReadyAhead, Serving
  <1>7. QED
    BY <1>5, <1>6

LEMMA ReadyStep == TypeOK /\ Connections /\ ReadyAhead /\ [Next]_vars => ReadyAhead'
  <1> SUFFICES ASSUME TypeOK, Connections, ReadyAhead, [Next]_vars PROVE ReadyAhead'
    OBVIOUS
  <1>1. ASSUME UNCHANGED srvVars,
               \A d \in Clients : toServer[d] # << >> => toServer'[d] # << >>
        PROVE  ReadyAhead'
    <2>1. \A p \in Places : client_socket[p] \in readfds =>
            owner[client_socket[p]] \in Clients
      BY DescriptorTypes DEF TypeOK, Connections, PlacesSound, Polled
    <2>2. QED
      BY <1>1, <2>1 DEF ReadyAhead, Serving, srvVars
  <1>2. ASSUME NEW c \in Clients, Connect(c) \/ Write(c) \/ Read(c) \/ Die(c)
        PROVE  ReadyAhead'
    <2>1. \A s \in Seq(QueryKinds \cup {"eof", "reset"}) :
            \A e \in QueryKinds \cup {"eof", "reset"} : Append(s, e) # << >>
      <3>1. \A S : \A s \in Seq(S) : \A e \in S : Len(Append(s, e)) = Len(s) + 1
        OBVIOUS
      <3>2. \A S : \A s \in Seq(S) : Len(s) \in Nat
        OBVIOUS
      <3>3. QED
        BY <3>1, <3>2
    <2>2. \A d \in Clients : toServer[d] # << >> => toServer'[d] # << >>
      BY <1>2, <2>1, ServerAssumption DEF Connect, Write, Read, Die, TypeOK
    <2>3. QED
      BY <1>1, <1>2, <2>2 DEF Connect, Write, Read, Die
  <1>3. ASSUME Select PROVE ReadyAhead'
    BY <1>3 DEF Select, ReadyAhead, Serving, netVars
  <1>4. ASSUME Accept PROVE ReadyAhead'
    <2>1. PICK fd \in Descriptors \ DOMAIN owner :
            /\ owner' = [d \in DOMAIN owner \cup {fd} |->
                           IF d = fd THEN Head(backlog) ELSE owner[d]]
            /\ AddSocket(fd)
      BY <1>4 DEF Accept
    <2>2. /\ fd \notin readfds /\ readfds \subseteq DOMAIN owner
          /\ UNCHANGED <<readfds, toServer, i>>
          /\ pc = "accept" /\ pc' = "scan"
      BY <1>4, <2>1 DEF Accept, Connections, Control
    <2>3. \A p \in Places : client_socket'[p] = fd \/ client_socket'[p] = client_socket[p]
      BY <2>1 DEF AddSocket, EmptyPlaces, TypeOK
    <2>4. \A p \in Places : client_socket'[p] \in readfds =>
            /\ client_socket'[p] = client_socket[p]
            /\ owner'[client_socket[p]] = owner[client_socket[p]]
      BY <2>1, <2>2, <2>3
    <2>5. QED
      BY <2>2, <2>4 DEF ReadyAhead, Serving
  <1>5. ASSUME Skip PROVE ReadyAhead'
    BY <1>5, DescriptorTypes DEF Skip, ReadyAhead, Serving, netVars, TypeOK
  <1>6. ASSUME NEW what, Ready, Takes(what)
        PROVE  \A d \in Clients : d # owner[client_socket[i]] =>
                 toServer'[d] = toServer[d]
    BY <1>6 DEF Takes, TypeOK
  <1>7. i \in Nat /\ \A p \in Places : p \in Nat
    BY DescriptorTypes DEF TypeOK
  <1>8. ASSUME Disconnected PROVE ReadyAhead'
    <2>1. /\ pc = "scan" /\ i < max_clients /\ client_socket[i] \in readfds
          /\ \A d \in Clients : d # owner[client_socket[i]] =>
                 toServer'[d] = toServer[d]
          /\ pc' = pc /\ i' = i + 1 /\ readfds' = readfds
          /\ client_socket' = [client_socket EXCEPT ![i] = 0]
          /\ owner' = [fd \in DOMAIN owner \ {client_socket[i]} |-> owner[fd]]
      BY <1>8, <1>6 DEF Disconnected, Ready
    <2>2. i \in Places
      BY <2>1, DescriptorTypes DEF TypeOK, Places
    <2>3. \A p \in Places : p > i => client_socket'[p] = client_socket[p]
      BY <1>7, <2>1 DEF TypeOK
    <2>4. ASSUME NEW p \in Places, p > i, client_socket[p] \in Descriptors
          PROVE  owner'[client_socket[p]] = owner[client_socket[p]]
      <3>1. client_socket[p] # 0
        BY <2>4, DescriptorTypes
      <3>2. client_socket[p] # client_socket[i] /\ client_socket[p] \in DOMAIN owner
        BY <1>7, <2>2, <2>4, <3>1 DEF Connections, PlacesSound, Polled
      <3>3. QED
        BY <2>1, <3>2
    <2>5. \A p \in Places : p > i /\ client_socket'[p] \in readfds'
            => toServer'[owner'[client_socket'[p]]] # << >>
      BY <2>1, <2>3, <2>4, ReadyAfterHere
    <2>6. QED
      <3>1. \A p \in Places : p >= i' => p > i
        BY <1>7, <2>1
      <3>2. ~Serving'
        BY <2>1 DEF Serving
      <3>3. QED
        BY <2>5, <3>1, <3>2 DEF ReadyAhead
  <1>9. ASSUME Failed PROVE ReadyAhead'
    BY <1>9 DEF Failed, ReadyAhead, Serving
  <1>10. ASSUME NEW k \in {"plain", "silent", "endless"}, Query(k) PROVE ReadyAhead'
    <2>1. /\ pc = "scan" /\ i < max_clients /\ client_socket[i] \in readfds
          /\ \A d \in Clients : d # owner[client_socket[i]] =>
                 toServer'[d] = toServer[d]
          /\ pc' = k /\ UNCHANGED <<i, readfds, client_socket, owner>>
      BY <1>10, <1>6 DEF Query, Ready
    <2>2. \A p \in Places : p > i /\ client_socket'[p] \in readfds'
            => toServer'[owner'[client_socket'[p]]] # << >>
      BY <2>1, ReadyAfterHere
    <2>3. QED
      BY <2>1, <2>2 DEF ReadyAhead, Serving
  <1>11. ASSUME Send PROVE ReadyAhead'
    BY <1>7, <1>11 DEF Send, Answer, ReadyAhead, Serving
  <1>12. ASSUME NextRound PROVE ReadyAhead'
    BY <1>12 DEF NextRound, ReadyAhead, Serving
  <1>13. ASSUME UNCHANGED vars PROVE ReadyAhead'
    BY <1>13 DEF ReadyAhead, Serving, vars, netVars, srvVars
  <1>14. QED
    BY <1>2, <1>3, <1>4, <1>5, <1>8, <1>9, <1>10, <1>11, <1>12, <1>13
    DEF Next, ClientStep, ServerStep
(***************************************************************************)
(* Queries and replies on their way                                        *)
(***************************************************************************)

LEMMA InFlightInit == Init => InFlightBound
  BY DEF Init, InFlightBound, InFlight

Queue == Seq(QueryKinds \cup {"eof", "reset"})

LEMMA QueueLengths ==
  /\ \A q \in Queue : Len(q) \in Nat
  /\ \A q \in Queue : q # << >> => Len(Tail(q)) = Len(q) - 1
  /\ \A q \in Queue : \A e \in QueryKinds \cup {"eof", "reset"} :
       Len(Append(q, e)) = Len(q) + 1
  <1>1. /\ \A S : \A q \in Seq(S) : Len(q) \in Nat
        /\ \A S : \A q \in Seq(S) : q # << >> => Len(Tail(q)) = Len(q) - 1
        /\ \A S : \A q \in Seq(S) : \A e \in S : Len(Append(q, e)) = Len(q) + 1
    OBVIOUS
  <1>2. QED
    BY <1>1 DEF Queue

LEMMA QueueTypes ==
  TypeOK => /\ toServer \in [Clients -> Queue] /\ toClient \in [Clients -> Nat]
            /\ \A d \in DOMAIN owner : owner[d] \in Clients
            /\ sd \in Nat
  BY DescriptorTypes DEF TypeOK, Queue

(* While no query is answered, steps that only consume keep the bound.     *)
LEMMA ConsumingStep ==
  ASSUME TypeOK, TypeOK', InFlightBound, sd = 0, sd' = 0,
         cstate' = cstate, toClient' = toClient,
         \A c \in Clients : Len(toServer'[c]) <= Len(toServer[c])
  PROVE  InFlightBound'
  <1>1. toServer' \in [Clients -> Queue]
    BY DEF TypeOK, Queue
  <1>2. \A c \in Clients : /\ Len(toServer[c]) \in Nat /\ Len(toServer'[c]) \in Nat
                           /\ toClient[c] \in Nat
    BY <1>1, QueueLengths, QueueTypes
  <1>3. QED
    BY <1>2 DEF InFlightBound, InFlight

LEMMA InFlightStep ==
  TypeOK /\ TypeOK' /\ Connections /\ InFlightBound /\ [Next]_vars => InFlightBound'
  <1> SUFFICES ASSUME TypeOK, TypeOK', Connections, InFlightBound, [Next]_vars
               PROVE  InFlightBound'
    OBVIOUS
  <1>1. \A c \in Clients : Len(toServer[c]) \in Nat /\ toClient[c] \in Nat
    BY QueueLengths, QueueTypes
  <1>2. ASSUME NEW c \in Clients, Connect(c) PROVE InFlightBound'
    BY <1>2 DEF Connect, InFlightBound, InFlight, srvVars, TypeOK
  <1>3. ASSUME NEW c \in Clients, Write(c) PROVE InFlightBound'
    <2>1. PICK k \in Kinds : toServer' = [toServer EXCEPT ![c] = Append(@, k)]
      BY <1>3 DEF Write
    <2>2. /\ Len(toServer'[c]) = Len(toServer[c]) + 1
          /\ \A d \in Clients : d # c => toServer'[d] = toServer[d]
      <3>1. k \in QueryKinds
        BY ServerAssumption
      <3>2. QED
        BY <2>1, <3>1, QueueTypes, QueueLengths
    <2>3. /\ cstate' = [cstate EXCEPT ![c] = "wait"] /\ cstate[c] = "input"
          /\ UNCHANGED <<toClient, owner, sd>>
      BY <1>3 DEF Write, srvVars
    <2>4. InFlight(c) = 0
      BY <2>3 DEF InFlightBound
    <2>5. InFlight(c)' = InFlight(c) + 1
      BY <1>1, <2>2, <2>3 DEF InFlight
    <2>6. \A d \in Clients : d # c => InFlight(d)' = InFlight(d) /\ cstate'[d] = cstate[d]
      BY <2>2, <2>3 DEF InFlight, TypeOK
    <2>7. cstate'[c] = "wait"
      BY <2>3 DEF TypeOK
    <2>8. QED
      BY <2>4, <2>5, <2>6, <2>7 DEF InFlightBound
  <1>4. ASSUME NEW c \in Clients, Read(c) PROVE InFlightBound'
    <2>1. /\ cstate[c] = "wait" /\ toClient[c] > 0
          /\ cstate' = [cstate EXCEPT ![c] = "input"]
          /\ toClient' = [toClient EXCEPT ![c] = @ - 1]
          /\ UNCHANGED <<toServer, owner, sd>>
      BY <1>4 DEF Read, srvVars
    <2>2. InFlight(c) <= 1
      BY <2>1 DEF InFlightBound
    <2>3. InFlight(c) = 1 /\ InFlight(c)' = 0
      BY <1>1, <2>1, <2>2, QueueTypes DEF InFlight
    <2>4. \A d \in Clients : d # c => InFlight(d)' = InFlight(d) /\ cstate'[d] = cstate[d]
      BY <2>1, QueueTypes DEF InFlight, TypeOK
    <2>5. cstate'[c] = "input"
      BY <2>1 DEF TypeOK
    <2>6. QED
      BY <2>3, <2>4, <2>5 DEF InFlightBound
  <1>5. ASSUME NEW c \in Clients, Die(c) PROVE InFlightBound'
    <2>1. /\ cstate' = [cstate EXCEPT ![c] = "dead"]
          /\ \A d \in Clients : d # c => toServer'[d] = toServer[d] /\ toClient'[d] = toClient[d]
          /\ UNCHANGED <<owner, sd>>
      BY <1>5, QueueTypes DEF Die, srvVars
    <2>2. \A d \in Clients : d # c => InFlight(d)' = InFlight(d) /\ cstate'[d] = cstate[d]
      BY <2>1 DEF InFlight, TypeOK
    <2>3. cstate'[c] = "dead"
      BY <2>1 DEF TypeOK
    <2>4. QED
      BY <2>2, <2>3 DEF InFlightBound
  <1>6. ASSUME Select \/ Accept \/ Skip \/ NextRound PROVE InFlightBound'
    BY <1>6, <1>1, ConsumingStep
    DEF Select, Accept, Skip, NextRound, netVars, Connections, Control, Serving
  <1>7. ASSUME NEW what, Ready, Takes(what)
        PROVE  /\ owner[client_socket[i]] \in Clients /\ sd = 0
               /\ LET c == owner[client_socket[i]]
                  IN  /\ Len(toServer'[c]) = Len(toServer[c]) - 1
                      /\ \A d \in Clients : d # c => toServer'[d] = toServer[d]
    <2>1. i \in Places
      BY <1>7, DescriptorTypes DEF Ready, TypeOK, Places
    <2>2. client_socket[i] \in DOMAIN owner
      BY <1>7, <2>1, DescriptorTypes DEF Ready, TypeOK, Connections, PlacesSound, Polled
    <2>3. owner[client_socket[i]] \in Clients
      BY <2>2, QueueTypes
    <2>4. sd = 0
      BY <1>7 DEF Ready, Connections, Control, Serving
    <2>5. QED
      BY <1>7, <2>3, <2>4, QueueTypes, QueueLengths DEF Takes
  <1>8. ASSUME Disconnected \/ Failed PROVE InFlightBound'
    <2>1. PICK what : Ready /\ Takes(what)
      BY <1>8 DEF Disconnected, Failed
    <2>2. /\ UNCHANGED <<cstate, toClient, sd>> /\ sd = 0
      BY <1>8, <2>1, <1>7 DEF Disconnected, Failed
    <2>3. \A c \in Clients : Len(toServer'[c]) <= Len(toServer[c])
      BY <1>1, <2>1, <1>7
    <2>4. QED
      BY <2>2, <2>3, ConsumingStep
  <1>9. ASSUME NEW k \in {"plain", "silent", "endless"}, Query(k) PROVE InFlightBound'
    <2> DEFINE c == owner[client_socket[i]]
    <2>1. Ready /\ Takes(k) /\ sd' = client_socket[i]
          /\ UNCHANGED <<cstate, toClient, owner>>
      BY <1>9 DEF Query
    <2>2. /\ c \in Clients /\ sd = 0 /\ Len(toServer'[c]) = Len(toServer[c]) - 1
          /\ \A d \in Clients : d # c => toServer'[d] = toServer[d]
      BY <2>1, <1>7
    <2>3. owner'[sd'] = c /\ sd' # 0
      BY <2>1, DescriptorTypes DEF Ready, TypeOK
    <2>4. \A d \in Clients : InFlight(d)' = InFlight(d)
      BY <1>1, <2>1, <2>2, <2>3, SMTT(30) DEF InFlight
    <2>5. QED
      BY <2>1, <2>4 DEF InFlightBound
  <1>10. ASSUME Send PROVE InFlightBound'
    <2>1. /\ UNCHANGED <<cstate, toServer, owner>> /\ sd' = 0 /\ Serving
          /\ \/ /\ owner[sd] \in Alive
                /\ toClient' = [toClient EXCEPT ![owner[sd]] = @ + 1]
             \/ toClient' = toClient
      BY <1>10 DEF Send, Answer, Serving
    <2>2. sd \in DOMAIN owner /\ owner[sd] \in Clients /\ sd # 0
      BY <2>1, QueueTypes, DescriptorTypes DEF Connections, Control, TypeOK
    <2>3. \A d \in Clients : InFlight(d)' <= InFlight(d)
      BY <1>1, <2>1, <2>2, QueueTypes DEF InFlight
    <2>4. \A d \in Clients : InFlight(d)' \in Nat /\ InFlight(d) \in Nat
      <3>1. \A d \in Clients : toClient'[d] \in Nat
        BY DEF TypeOK
      <3>2. QED
        BY <1>1, <2>1, <3>1 DEF InFlight
    <2>5. QED
      BY <2>1, <2>3, <2>4 DEF InFlightBound
  <1>11. ASSUME UNCHANGED vars PROVE InFlightBound'
    BY <1>11 DEF InFlightBound, InFlight, vars, netVars, srvVars
  <1>12. QED
    BY <1>2, <1>3, <1>4, <1>5, <1>6, <1>8, <1>9, <1>10, <1>11
    DEF Next, ClientStep, ServerStep

(***************************************************************************)
(* The theorems                                                            *)
(***************************************************************************)

IInv == TypeOK /\ Connections /\ ReadyAhead /\ InFlightBound

LEMMA Inductive == Spec => []IInv
  <1>1. Init => IInv
    BY TypeInit, ConnectionsInit, ReadyInit, InFlightInit DEF IInv
  <1>2. IInv /\ [Next]_vars => IInv'
    <2> SUFFICES ASSUME IInv, [Next]_vars PROVE IInv'
      OBVIOUS
    <2>1. TypeOK'
      BY TypeStep DEF IInv, Connections
    <2>2. QED
      BY <2>1, ConnectionsStep, ReadyStep, InFlightStep DEF IInv
  <1>3. QED
    BY <1>1, <1>2, PTL DEF Spec

(* The variables of the select loop and of its clients keep their types:   *)
(* client_socket and readfds hold descriptors, i stays inside the array.   *)
THEOREM TypeCorrect == Spec => []TypeOK
  BY Inductive, PTL DEF IInv

(* server.cpp:112-187, with any number of places: a descriptor in          *)
(* client_socket is open and in one place only, although the kernel gives  *)
(* the number of a closed connection to the next one.                      *)
THEOREM ArraySound == Spec => []PlacesSound
  <1>1. IInv => PlacesSound
    BY DEF IInv, Connections
  <1>2. QED
    BY Inductive, <1>1, PTL

(* server.cpp:145: the one thread never blocks in read, although readfds   *)
(* is older than the accept, the reads and the closes of the same round.   *)
THEOREM NeverBlocks == Spec => []NeverBlocksInRead
  <1>1. IInv => NeverBlocksInRead
    <2> SUFFICES ASSUME IInv, Ready PROVE toServer[owner[client_socket[i]]] # << >>
      BY DEF NeverBlocksInRead
    <2>1. i \in Places /\ i >= i
      BY DescriptorTypes DEF IInv, TypeOK, Ready, Places
    <2>2. QED
      BY <2>1 DEF IInv, ReadyAhead, Ready, Serving
  <1>2. QED
    BY Inductive, <1>1, PTL

(* server.cpp:145-186 and client.cpp:49-66: a waiting client has its query *)
(* or its reply on the way and never both; no reply goes to a client that  *)
(* did not ask.                                                            *)
THEOREM RepliesMatch == Spec => []OneInFlight
  <1>1. IInv => OneInFlight
    BY DEF IInv, InFlightBound, OneInFlight
  <1>2. QED
    BY Inductive, <1>1, PTL

(***************************************************************************)
(* Connections without a place                                             *)
(***************************************************************************)

(* Only Accept can leave a connection out, and it does so when no place is *)
(* empty.                                                                  *)
LEMMA LeftOutStep ==
  ASSUME TypeOK, Connections, [Next]_vars
  PROVE  /\ LeftOut \subseteq LeftOut'
         /\ LeftOut' # LeftOut => EmptyPlaces = {} /\ Polled' = Polled
  <1>1. CASE Accept
    <2>1. PICK fd \in Descriptors \ DOMAIN owner :
            /\ owner' = [d \in DOMAIN owner \cup {fd} |->
                           IF d = fd THEN Head(backlog) ELSE owner[d]]
            /\ AddSocket(fd)
      BY <1>1 DEF Accept
    <2>2. DOMAIN owner' = DOMAIN owner \cup {fd} /\ fd \notin Polled
      BY <2>1 DEF Connections, PlacesSound
    <2>3. CASE EmptyPlaces = {}
      <3>1. client_socket' = client_socket
        BY <2>1, <2>3 DEF AddSocket
      <3>2. Polled' = Polled
        BY <3>1 DEF Polled
      <3>3. QED
        BY <2>2, <2>3, <3>2 DEF LeftOut
    <2>4. CASE EmptyPlaces # {}
      <3>1. PICK p \in EmptyPlaces : client_socket' = [client_socket EXCEPT ![p] = fd]
        BY <2>1, <2>4 DEF AddSocket
      <3>2. p \in Places /\ client_socket[p] = 0 /\ fd # 0
        BY <3>1, DescriptorTypes DEF EmptyPlaces
      <3>3. Polled' = Polled \cup {fd}
        BY <3>1, <3>2 DEF Polled, TypeOK
      <3>4. QED
        BY <2>2, <3>3 DEF LeftOut
    <2>5. QED
      BY <2>3, <2>4
  <1>2. CASE Disconnected
    <2>1. /\ i \in Places
          /\ owner' = [fd \in DOMAIN owner \ {client_socket[i]} |-> owner[fd]]
          /\ client_socket' = [client_socket EXCEPT ![i] = 0]
      BY <1>2, DescriptorTypes DEF Disconnected, Ready, TypeOK, Places
    <2>2. Polled' = Polled \ {client_socket[i]}
      BY <2>1 DEF Polled, TypeOK, Connections, PlacesSound
    <2>3. client_socket[i] = 0 \/ client_socket[i] \in Polled
      BY <2>1 DEF Polled
    <2>4. 0 \notin DOMAIN owner
      BY DescriptorTypes DEF TypeOK
    <2>5. LeftOut' = LeftOut
      BY <2>1, <2>2, <2>3, <2>4 DEF LeftOut
    <2>6. QED
      BY <2>5
  <1>3. CASE UNCHANGED <<client_socket, owner>>
    BY <1>3 DEF LeftOut, Polled
  <1>4. QED
    BY <1>1, <1>2, <1>3
    DEF Next, ClientStep, ServerStep, Connect, Write, Read, Die, Select, Skip,
        Failed, Query, Send, Answer, NextRound, vars, netVars, srvVars

(* An array without an empty place holds max_clients connections.          *)
LEMMA FullArray ==
  ASSUME TypeOK, PlacesSound, EmptyPlaces = {}
  PROVE  IsFiniteSet(Polled) /\ Cardinality(Polled) = max_clients
  <1>1. IsFiniteSet(Places) /\ Cardinality(Places) = max_clients
    <2>1. max_clients - 1 \in Int /\ 0 \in Int
      BY DescriptorTypes
    <2>2. IsFiniteSet(0 .. max_clients - 1)
          /\ Cardinality(0 .. max_clients - 1)
               = IF 0 > max_clients - 1 THEN 0 ELSE (max_clients - 1) - 0 + 1
      BY <2>1, FS_Interval
    <2>3. QED
      BY <2>2, DescriptorTypes DEF Places
  <1>2. client_socket \in Bijection(Places, Polled)
    <2>1. \A p \in Places : client_socket[p] # 0
      BY DEF EmptyPlaces
    <2>2. client_socket \in [Places -> Polled]
      BY <2>1 DEF TypeOK, Polled
    <2>3. client_socket \in Injection(Places, Polled)
      BY <2>1, <2>2 DEF PlacesSound, Injection, IsInjective
    <2>4. client_socket \in Surjection(Places, Polled)
      BY <2>2 DEF Polled, Surjection
    <2>5. QED
      BY <2>3, <2>4 DEF Bijection
  <1>3. QED
    BY <1>1, <1>2, FS_Bijection DEF ExistsBijection

(* server.cpp:131-142 and 157-159, with any number of places and clients:  *)
(* a connection is left out of client_socket only while max_clients other  *)
(* open connections fill it, and then for good.                            *)
THEOREM LeftOutIsFull == Spec => LeftOutOnlyWhenFull
  <1>1. IInv /\ [Next]_vars
          => [/\ LeftOut \subseteq LeftOut'
              /\ LeftOut' # LeftOut => Cardinality(Polled) = max_clients]_vars
    <2> SUFFICES ASSUME IInv, [Next]_vars
                 PROVE  /\ LeftOut \subseteq LeftOut'
                        /\ LeftOut' # LeftOut => Cardinality(Polled) = max_clients
      OBVIOUS
    <2>1. QED
      BY LeftOutStep, FullArray DEF IInv, Connections
  <1>2. QED
    BY Inductive, <1>1, PTL DEF Spec, LeftOutOnlyWhenFull
============================================================================
