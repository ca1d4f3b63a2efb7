---------------------------- MODULE SelectServer ----------------------------
(***************************************************************************)
(* concurrency/threads/serverSide.c and clientSide.c: an echo server that  *)
(* watches its clients with select, and interactive clients.  Connections  *)
(* are reliable streams; a client has at most one message under way, so    *)
(* a stream is modelled by the message that has not been read yet.         *)
(***************************************************************************)
EXTENDS Integers, FiniteSets

CONSTANTS Clients,
          MaxClients,   \* MAX_CLIENTS, the slots of client_socket
          Messages,     \* what users type, other than exit and an empty line
          MaxLines      \* how many lines the user of each client types

Slots == 0 .. MaxClients - 1
None == "none"     \* nothing in the stream
Eof == "eof"       \* the client has closed its end

VARIABLES client_socket, readfds, pc, i,    \* the server
          fd,          \* the server's socket for each client; 0: not connected
          backlog,     \* the clients that have connected and are not accepted
          up, down,    \* the streams to the server and back
          at, message, lines   \* the clients: where they are, what they sent

server == <<client_socket, readfds, pc, i>>
vars == <<server, fd, backlog, up, down, at, message, lines>>

Init == /\ client_socket = [s \in Slots |-> 0]
        /\ readfds = {} /\ pc = "select" /\ i = 0
        /\ fd = [c \in Clients |-> 0] /\ backlog = {}
        /\ up = [c \in Clients |-> None] /\ down = [c \in Clients |-> None]
        /\ at = [c \in Clients |-> "start"] /\ message = [c \in Clients |-> None]
        /\ lines = [c \in Clients |-> 0]

Lowest(S) == CHOOSE n \in S : \A m \in S : n <= m

Master == 3     \* master_socket
Of(sd) == CHOOSE c \in Clients : fd[c] = sd
\* A descriptor is ready to read.
Ready(sd) == IF sd = Master THEN backlog # {} ELSE up[Of(sd)] # None
-----------------------------------------------------------------------------
\* Builds the set of descriptors and waits until one of them is ready.
select ==
    LET set == {Master} \cup {client_socket[s] : s \in {s \in Slots : client_socket[s] > 0}}
        ready == {sd \in set : Ready(sd)}
    IN /\ pc = "select" /\ ready # {}
       /\ readfds' = ready /\ pc' = "accept"
       /\ UNCHANGED <<client_socket, i, fd, backlog, up, down, at, message, lines>>

\* Mutant: a new socket goes to the first slot.
Store_First(sd) == [client_socket EXCEPT ![0] = sd]

\* The first free slot; without one the socket is in none.
Store(sd) == LET free == {s \in Slots : client_socket[s] = 0}
             IN IF free = {} THEN client_socket ELSE [client_socket EXCEPT ![Lowest(free)] = sd]

\* accept returns the lowest descriptor that is not in use.
accept ==
    /\ pc = "accept" /\ pc' = "serve" /\ i' = 0
    /\ IF Master \in readfds
       THEN LET new_socket == Lowest({n \in 4 .. 4 + Cardinality(Clients) : \A c \in Clients : fd[c] # n})
            IN /\ \E c \in backlog : fd' = [fd EXCEPT ![c] = new_socket] /\ backlog' = backlog \ {c}
               /\ client_socket' = Store(new_socket)
       ELSE UNCHANGED <<fd, backlog, client_socket>>
    /\ UNCHANGED <<readfds, up, down, at, message, lines>>

\* Mutant: the answer goes to every connected client.
Echo_All(c) == [d \in Clients |-> IF fd[d] # 0 THEN up[c] ELSE down[d]]

Echo(c) == [down EXCEPT ![c] = up[c]]

Clear(s) == [client_socket EXCEPT ![s] = 0]

\* One turn of the loop over the slots.
serve ==
    /\ pc = "serve"
    /\ LET sd == client_socket[i]
       IN IF sd \in readfds
          THEN LET c == Of(sd)
               IN /\ up' = [up EXCEPT ![c] = None]
                  /\ IF up[c] = Eof
                     THEN /\ fd' = [fd EXCEPT ![c] = 0]
                          /\ client_socket' = Clear(i)
                          /\ UNCHANGED down
                     ELSE /\ down' = Echo(c)
                          /\ UNCHANGED <<fd, client_socket>>
          ELSE UNCHANGED <<up, down, fd, client_socket>>
    /\ i' = i + 1
    /\ pc' = IF i' = MaxClients THEN "select" ELSE "serve"
    /\ UNCHANGED <<readfds, backlog, at, message, lines>>
-----------------------------------------------------------------------------
connect(c) ==
    /\ at[c] = "start" /\ at' = [at EXCEPT ![c] = "prompt"]
    /\ backlog' = backlog \cup {c}
    /\ UNCHANGED <<server, fd, up, down, message, lines>>

\* The user types a line.  An empty one sends nothing at all.
type_line(c) ==
    /\ at[c] = "prompt"
    /\ \/ /\ at' = [at EXCEPT ![c] = "closed"] /\ up' = [up EXCEPT ![c] = Eof]
          /\ UNCHANGED <<message, lines>>
       \/ \E m \in Messages \cup {None} :
             /\ lines[c] < MaxLines
             /\ at' = [at EXCEPT ![c] = "read"]
             /\ message' = [message EXCEPT ![c] = m]
             /\ up' = [up EXCEPT ![c] = m]
             /\ lines' = [lines EXCEPT ![c] = @ + 1]
    /\ UNCHANGED <<server, fd, backlog, down>>

read_reply(c) ==
    /\ at[c] = "read" /\ down[c] # None
    /\ at' = [at EXCEPT ![c] = "prompt"]
    /\ down' = [down EXCEPT ![c] = None]
    /\ UNCHANGED <<server, fd, backlog, up, message, lines>>

Server == select \/ accept \/ serve
Client(c) == connect(c) \/ type_line(c) \/ read_reply(c)

Next == Server \/ \E c \in Clients : Client(c)

\* The server and the clients are processes of their own; a client that is not
\* waiting for an answer waits for its user, who may never type.
Spec == Init /\ [][Next]_vars /\ WF_vars(Server) /\ \A c \in Clients : WF_vars(read_reply(c))
-----------------------------------------------------------------------------
\* Slots hold sockets of connected clients only, and no socket twice, though
\* descriptors are used again as soon as they are closed.
SlotsAreLive ==
    /\ \A s \in Slots : client_socket[s] # 0 => \E c \in Clients : fd[c] = client_socket[s]
    /\ \A s, t \in Slots : s # t /\ client_socket[s] # 0 => client_socket[s] # client_socket[t]

\* What comes back to a client is what it sent.
EchoesOwn == \A c \in Clients : down[c] # None => at[c] = "read" /\ down[c] = message[c]

\* With a slot for each client, every line that is not empty is answered.
Answered ==
    \A c \in Clients : []<>~(at[c] = "read" /\ message[c] # None)

\* With a slot for each client, every connection that was closed is cleaned up.
CleanedUp ==
    \A c \in Clients : []<>(at[c] = "closed" => fd[c] = 0 /\ c \notin backlog)
-----------------------------------------------------------------------------

SelectConstants == /\ IsFiniteSet(Clients) /\ MaxClients \in Nat \ {0}
                   /\ None \notin Messages /\ Eof \notin Messages

Sockets == 4 .. 4 + Cardinality(Clients)
Lines == Messages \cup {None, Eof}

Types ==
    /\ client_socket \in [Slots -> Nat] /\ readfds \subseteq Nat \ {0}
    /\ pc \in {"select", "accept", "serve"} /\ i \in 0 .. MaxClients /\ (pc = "serve" => i \in Slots)
    /\ fd \in [Clients -> {0} \cup Sockets] /\ backlog \subseteq Clients
    /\ up \in [Clients -> Lines] /\ down \in [Clients -> Lines]
    /\ message \in [Clients -> Lines] /\ at \in [Clients -> {"start", "prompt", "read", "closed"}]

\* A socket belongs to one client, which has left the backlog.
OwnSocket ==
    /\ \A c, d \in Clients : fd[c] # 0 /\ fd[c] = fd[d] => c = d
    /\ \A c \in Clients : c \in backlog \/ at[c] = "start" => fd[c] = 0
    /\ \A c \in Clients : at[c] = "start" => c \notin backlog

\* What a client has sent and the server has not read: the message of a client that
\* waits for its answer, and has none yet, or the end of a closed one.
SentOnce == \A c \in Clients :
    up[c] # None => /\ down[c] = None
                    /\ IF up[c] = Eof THEN at[c] = "closed" ELSE at[c] = "read" /\ up[c] = message[c]

\* The descriptor that accept returns is one that no client has, and the slot that
\* the server stores it in is one that is free.
Allocates ==
    LET unused == {n \in Sockets : \A c \in Clients : fd[c] # n}
        free == {s \in Slots : client_socket[s] = 0}
    IN Lowest(unused) \in unused /\ (free # {} => Lowest(free) \in free)

SelectInv == Types /\ OwnSocket /\ SentOnce /\ SlotsAreLive /\ EchoesOwn
=============================================================================
