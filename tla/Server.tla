------------------------------- MODULE Server -------------------------------
(***************************************************************************)
(* The select loop of server.cpp and the clients of client.cpp.            *)
(*                                                                         *)
(* The server keeps its connections in the array client_socket, 0 marking  *)
(* an empty place.  Each round it selects over the listening socket and    *)
(* the array, accepts at most one connection, then scans the array and     *)
(* answers one query of every connection that was ready.  It is one        *)
(* thread: a blocking read of a connection with nothing to read stops it,  *)
(* and so does a query whose process_Query never returns.                  *)
(*                                                                         *)
(* Between any two of its steps clients connect, write a query, read a     *)
(* reply or die.  TCP is external: a query written at once is read at      *)
(* once, and a client that dies is seen as an end of file, or as a reset   *)
(* when it leaves a reply unread.                                          *)
(***************************************************************************)
EXTENDS Integers, Sequences, FiniteSets

CONSTANTS
  Clients,      \* client processes; each connects once, and one that is
                \*   started again is another client
  max_clients,  \* the length of client_socket
  Backlog,      \* connections the kernel completes before accept
  Kinds,        \* kinds of query sent
  MaxAlive      \* bound: clients connected at once

(* A "plain" query gets a reply.  The reply to a "silent" one (UPDATE,     *)
(* DELETE) is whatever memory holds, possibly an empty text, and an empty  *)
(* text is not sent.  A "broken" one (an empty line, for one) makes the    *)
(* parser index past its tokens, and the server process dies.  An          *)
(* "endless" one makes process_Query walk the catalogue without end, as at *)
(* a record of size 0, which it never leaves (module Disk, Hang).          *)
QueryKinds == {"plain", "silent", "broken", "endless"}

ASSUME ServerAssumption ==
  /\ IsFiniteSet(Clients) /\ Kinds \subseteq QueryKinds
  /\ max_clients \in Nat \ {0} /\ Backlog \in Nat \ {0}
  /\ MaxAlive \in Nat

VARIABLES
  (* clients and the network *)
  cstate,         \* client -> "off", "input", "wait" (for a reply), "dead"
  toServer,       \* client -> what the server has still to read from it
  toClient,       \* client -> number of replies it has still to read
  backlog,        \* clients connected and not accepted
  (* the server *)
  client_socket,  \* place -> descriptor, or 0
  owner,          \* open descriptor -> the client at its other end
  readfds,        \* descriptors select found ready
  pc, i,          \* where the server is, and the place it scans
  sd              \* the descriptor whose query is being answered

netVars == <<cstate, toServer, toClient, backlog>>
srvVars == <<client_socket, owner, readfds, pc, i, sd>>
vars == <<netVars, srvVars>>

Places == 0 .. max_clients - 1
Master == 3
Descriptors == Master + 1 .. Master + Cardinality(Clients)

Init ==
  /\ cstate = [c \in Clients |-> "off"]
  /\ toServer = [c \in Clients |-> << >>]
  /\ toClient = [c \in Clients |-> 0]
  /\ backlog = << >>
  /\ client_socket = [p \in Places |-> 0]
  /\ owner = << >>
  /\ readfds = {} /\ pc = "select" /\ i = 0 /\ sd = 0

----------------------------------------------------------------------------
(* Clients                                                                 *)

Alive == {c \in Clients : cstate[c] \in {"input", "wait"}}

(* connect returns when the kernel has queued the connection, before the   *)
(* server accepts it.                                                      *)
Connect(c) ==
  /\ cstate[c] = "off" /\ Len(backlog) < Backlog
  /\ Cardinality(Alive) < MaxAlive
  /\ cstate' = [cstate EXCEPT ![c] = "input"]
  /\ backlog' = Append(backlog, c)
  /\ UNCHANGED <<toServer, toClient, srvVars>>

Write(c) ==
  /\ cstate[c] = "input"
  /\ \E k \in Kinds : toServer' = [toServer EXCEPT ![c] = Append(@, k)]
  /\ cstate' = [cstate EXCEPT ![c] = "wait"]
  /\ UNCHANGED <<toClient, backlog, srvVars>>

Read(c) ==
  /\ cstate[c] = "wait" /\ toClient[c] > 0
  /\ cstate' = [cstate EXCEPT ![c] = "input"]
  /\ toClient' = [toClient EXCEPT ![c] = @ - 1]
  /\ UNCHANGED <<toServer, backlog, srvVars>>

Die(c) ==
  /\ c \in Alive
  /\ cstate' = [cstate EXCEPT ![c] = "dead"]
  /\ toServer' = [toServer EXCEPT ![c] =
                    Append(@, IF toClient[c] > 0 THEN "reset" ELSE "eof")]
  /\ toClient' = [toClient EXCEPT ![c] = 0]
  /\ UNCHANGED <<backlog, srvVars>>

----------------------------------------------------------------------------
(* The server                                                              *)

Polled == {client_socket[p] : p \in Places} \ {0}

(* Mutants stand before the definitions they are mutants of; nothing else  *)
(* uses them.  This one takes every polled descriptor for a ready one.     *)
SelectAll ==
  /\ pc = "select"
  /\ LET ready == {fd \in Polled : toServer[owner[fd]] # << >>}
     IN  /\ ready # {} \/ backlog # << >>
         /\ readfds' = Polled
         /\ pc' = IF backlog # << >> THEN "accept" ELSE "scan"
  /\ i' = 0
  /\ UNCHANGED <<netVars, client_socket, owner, sd>>

(* select blocks until something is ready, and reports all that is.        *)
Select ==
  /\ pc = "select"
  /\ LET ready == {fd \in Polled : toServer[owner[fd]] # << >>}
     IN  /\ ready # {} \/ backlog # << >>
         /\ readfds' = ready
         /\ pc' = IF backlog # << >> THEN "accept" ELSE "scan"
  /\ i' = 0
  /\ UNCHANGED <<netVars, client_socket, owner, sd>>

First(x, S) == x \in S /\ \A y \in S : x <= y

EmptyPlaces == {p \in Places : client_socket[p] = 0}

(* Mutant: the last place is never used.                                   *)
AddSocketShort(fd) ==
  LET empty == EmptyPlaces \ {max_clients - 1}
  IN  \/ empty = {} /\ UNCHANGED client_socket
      \/ \E p \in empty :
           First(p, empty) /\ client_socket' = [client_socket EXCEPT ![p] = fd]

(* The first empty place takes the new descriptor.  When no place is empty *)
(* the connection stays open and in no place.                              *)
AddSocket(fd) ==
  \/ EmptyPlaces = {} /\ UNCHANGED client_socket
  \/ \E p \in EmptyPlaces :
       First(p, EmptyPlaces) /\ client_socket' = [client_socket EXCEPT ![p] = fd]

(* The kernel gives a new connection the lowest free descriptor.           *)
Accept ==
  /\ pc = "accept"
  /\ \E fd \in Descriptors \ DOMAIN owner :
       /\ First(fd, Descriptors \ DOMAIN owner)
       /\ owner' = [d \in DOMAIN owner \cup {fd} |->
                      IF d = fd THEN Head(backlog) ELSE owner[d]]
       /\ AddSocket(fd)
  /\ backlog' = Tail(backlog)
  /\ pc' = "scan"
  /\ UNCHANGED <<cstate, toServer, toClient, readfds, i, sd>>

Ready == pc = "scan" /\ i < max_clients /\ client_socket[i] \in readfds

(* Mutant: what is read is not consumed.                                   *)
TakesPeeking(what) ==
  LET c == owner[client_socket[i]]
  IN  /\ toServer[c] # << >> /\ Head(toServer[c]) = what
      /\ UNCHANGED toServer

(* read, when there is something to read.                                  *)
Takes(what) ==
  LET c == owner[client_socket[i]]
  IN  /\ toServer[c] # << >> /\ Head(toServer[c]) = what
      /\ toServer' = [toServer EXCEPT ![c] = Tail(@)]

Skip ==
  /\ pc = "scan" /\ i < max_clients /\ client_socket[i] \notin readfds
  /\ i' = i + 1
  /\ UNCHANGED <<netVars, client_socket, owner, readfds, pc, sd>>

(* Mutants: the place is marked with -1; it is not cleared; the end of     *)
(* file is read and nothing is done about it.                              *)
DisconnectedMarked ==
  /\ Ready /\ Takes("eof")
  /\ owner' = [fd \in DOMAIN owner \ {client_socket[i]} |-> owner[fd]]
  /\ client_socket' = [client_socket EXCEPT ![i] = -1]
  /\ i' = i + 1
  /\ UNCHANGED <<cstate, toClient, backlog, readfds, pc, sd>>

DisconnectedStale ==
  /\ Ready /\ Takes("eof")
  /\ owner' = [fd \in DOMAIN owner \ {client_socket[i]} |-> owner[fd]]
  /\ i' = i + 1
  /\ UNCHANGED <<cstate, toClient, backlog, client_socket, readfds, pc, sd>>

DisconnectedIgnored ==
  /\ Ready /\ Takes("eof")
  /\ i' = i + 1
  /\ UNCHANGED <<cstate, toClient, backlog, client_socket, owner, readfds, pc,
                 sd>>

Disconnected ==
  /\ Ready /\ Takes("eof")
  /\ owner' = [fd \in DOMAIN owner \ {client_socket[i]} |-> owner[fd]]
  /\ client_socket' = [client_socket EXCEPT ![i] = 0]
  /\ i' = i + 1
  /\ UNCHANGED <<cstate, toClient, backlog, readfds, pc, sd>>

(* A failed read is taken for an empty query.                              *)
Failed ==
  /\ Ready /\ (Takes("reset") \/ Takes("broken"))
  /\ pc' = "crashed"
  /\ UNCHANGED <<cstate, toClient, backlog, client_socket, owner, readfds, i,
                 sd>>

(* process_Query is called in the loop itself: while it runs, and for ever *)
(* if it does not return, nobody else is served.                           *)
Query(k) ==
  /\ Ready /\ Takes(k)
  /\ sd' = client_socket[i]
  /\ pc' = k
  /\ UNCHANGED <<cstate, toClient, backlog, client_socket, owner, readfds, i>>

(* process_Query has returned, as it does not from an "endless" query; the *)
(* reply to a client that is gone is lost.                                 *)
Answer(sends) ==
  /\ toClient' = IF sends /\ owner[sd] \in Alive
                 THEN [toClient EXCEPT ![owner[sd]] = @ + 1] ELSE toClient
  /\ pc' = "scan" /\ i' = i + 1 /\ sd' = 0
  /\ UNCHANGED <<cstate, toServer, backlog, client_socket, owner, readfds>>

Send == \/ pc \in {"plain", "silent"} /\ Answer(TRUE)
        \/ pc = "silent" /\ Answer(FALSE)

(* Mutant: the scan may end before the last place.                         *)
NextRoundEarly ==
  /\ pc = "scan" /\ i = max_clients - 1
  /\ pc' = "select"
  /\ UNCHANGED <<netVars, client_socket, owner, readfds, i, sd>>

NextRound ==
  /\ pc = "scan" /\ i = max_clients
  /\ pc' = "select"
  /\ UNCHANGED <<netVars, client_socket, owner, readfds, i, sd>>

----------------------------------------------------------------------------
ClientStep == \E c \in Clients : Connect(c) \/ Write(c) \/ Read(c) \/ Die(c)

ServerStep == \/ Select \/ Accept \/ Skip \/ Disconnected \/ Failed
              \/ Query("plain") \/ Query("silent") \/ Query("endless")
              \/ Send \/ NextRound

Next == (pc # "crashed" /\ ClientStep) \/ ServerStep

Spec == Init /\ [][Next]_vars

(* The server runs whenever it can, and a client reads a reply it waits    *)
(* for; whether and when clients connect, ask or die is left open.         *)
FairSpec == /\ Spec /\ WF_vars(ServerStep)
            /\ \A c \in Clients : WF_vars(pc # "crashed" /\ Read(c))

----------------------------------------------------------------------------
(* Properties                                                              *)

(* Every variable has its type.                                            *)
TypeOK ==
  /\ cstate \in [Clients -> {"off", "input", "wait", "dead"}]
  /\ toServer \in [Clients -> Seq(QueryKinds \cup {"eof", "reset"})]
  /\ toClient \in [Clients -> Nat]
  /\ backlog \in Seq(Clients)
  /\ client_socket \in [Places -> Descriptors \cup {0}]
  /\ DOMAIN owner \subseteq Descriptors /\ owner \in [DOMAIN owner -> Clients]
  /\ readfds \subseteq Descriptors
  /\ pc \in {"select", "accept", "scan", "plain", "silent", "endless", "crashed"}
  /\ i \in 0 .. max_clients
  /\ sd \in Descriptors \cup {0}

(* A descriptor in the array is open and in one place only, although the   *)
(* kernel gives a closed descriptor's number to the next connection.       *)
PlacesSound ==
  /\ Polled \subseteq DOMAIN owner
  /\ \A p, q \in Places :
       client_socket[p] = client_socket[q] /\ client_socket[p] # 0 => p = q

(* The read of the scan has something to read, although readfds was made   *)
(* before the accept and before the reads and closes of the same scan: the *)
(* single thread never blocks on one connection while others wait.         *)
NeverBlocksInRead == Ready => toServer[owner[client_socket[i]]] # << >>

(* A client that waits has at most one thing on its way, its query or its  *)
(* reply, and one that does not wait has none: no query is answered twice, *)
(* and no reply reaches another client or a later query.                   *)
InFlight(c) ==
  LET serving == IF sd # 0 /\ owner[sd] = c THEN 1 ELSE 0
  IN  Len(toServer[c]) + toClient[c] + serving

OneInFlight ==
  \A c \in Clients : /\ cstate[c] = "wait" => InFlight(c) <= 1
                     /\ cstate[c] = "input" => InFlight(c) = 0

(* Every accepted connection that is still open is in the array, so that   *)
(* it will be polled.                                                      *)
AcceptedIsPolled == DOMAIN owner = Polled

(* Connections that are open and in no place of the array: nothing reads   *)
(* them and nothing closes them.                                           *)
LeftOut == DOMAIN owner \ Polled

(* A connection is left out of the array only when it is accepted while    *)
(* max_clients other open connections are in it, and then for ever: no     *)
(* place is lost and no close is forgotten in whatever order connections   *)
(* come and go.                                                            *)
LeftOutOnlyWhenFull ==
  [][/\ LeftOut \subseteq LeftOut'
     /\ LeftOut' # LeftOut => Cardinality(Polled) = max_clients]_vars

(* The server serves nobody any more: it has died, or is in a query that   *)
(* does not end.                                                           *)
Stopped == pc \in {"crashed", "endless"}

(* A query written at once is answered, or its client dies, or the server  *)
(* stops serving, or the array was full when the client's connection came: *)
(* no client that has a place is passed over for ever, in whatever order   *)
(* the others connect, ask and die.  (A query of the "silent" kind may     *)
(* never be answered, and a client then waits for ever.)                   *)
EveryQueryAnswered ==
  \A c \in Clients :
    (toServer[c] # << >> /\ Head(toServer[c]) = "plain")
      ~> \/ cstate[c] # "wait" \/ Stopped
         \/ \E fd \in LeftOut : owner[fd] = c

(* The place of a client that died becomes free, unless the server stops   *)
(* serving first: the scan reaches it even if the client died in the       *)
(* backlog, before its place was given to it.                              *)
PlaceFreed ==
  \A c \in Clients :
    cstate[c] = "dead" ~>
      \/ Stopped
      \/ /\ \A n \in DOMAIN backlog : backlog[n] # c
         /\ \A fd \in Polled : owner[fd] # c
============================================================================
