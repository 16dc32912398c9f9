------------------------------ MODULE MiniServer ------------------------------
(***************************************************************************)
(* The server of src/miniserver/server.c (src/miniserver.c is the same):   *)
(* it hands every connection to a child process or to a thread, which      *)
(* echoes one message, closes and ends.  client.c sends one message and    *)
(* reads once.  Every connection has a client of its own; the messages     *)
(* are named after the clients that send them.                             *)
(***************************************************************************)
EXTENDS Integers, FiniteSets

CONSTANTS
    Clients,
    None

VARIABLES
    mode,           \* argv[1]: fork, thread, or something else
    up,             \* is the server running?
    client_sock,    \* main's variable: the connection accepted last
    waits,          \* is main between fork and waitpid?
    peer,           \* per client: new, typing, waiting, or gone
    conn,           \* per connection: none, backlog, accepted, open or closed
    message,        \* per connection: sent and not read by the server
    echo,           \* per connection: sent back and not read by the client
    got,            \* per client: what read returned
    handler,        \* per connection: none, started, reading, zombie or reaped
    socket,         \* per handler: the connection it works on
    peak            \* history: most handlers at once

vars == <<mode, up, client_sock, waits, peer, conn, message, echo, got, handler, socket, peak>>
clientVars == <<peer, got>>

Init ==
    /\ mode \in {"fork", "thread", "other"}
    /\ up = TRUE
    /\ client_sock = None /\ waits = FALSE
    /\ peer = [c \in Clients |-> "new"]
    /\ conn = [c \in Clients |-> "none"]
    /\ message = [c \in Clients |-> None]
    /\ echo = [c \in Clients |-> None]
    /\ got = [c \in Clients |-> None]
    /\ handler = [c \in Clients |-> "none"]
    /\ socket = [c \in Clients |-> None]
    /\ peak = 0

Busy    == {c \in Clients : handler[c] \in {"started", "reading"}}
Zombies == {c \in Clients : handler[c] = "zombie"}
-----------------------------------------------------------------------------
Connect(c) ==
    /\ peer[c] = "new" /\ up
    /\ peer' = [peer EXCEPT ![c] = "typing"]
    /\ conn' = [conn EXCEPT ![c] = "backlog"]
    /\ UNCHANGED <<mode, up, client_sock, waits, message, echo, got, handler, socket, peak>>

\* On a connection that is closed the first write still succeeds, and the
\* read behind it finds the end or a reset.
SendMessage(c) ==
    /\ peer[c] = "typing"
    /\ peer' = [peer EXCEPT ![c] = "waiting"]
    /\ message' = [message EXCEPT ![c] = c]
    /\ UNCHANGED <<mode, up, client_sock, waits, conn, echo, got, handler, socket, peak>>

\* read returns the echo, or nothing; either way the client prints and exits.
Receive(c) ==
    /\ peer[c] = "waiting"
    /\ echo[c] # None \/ conn[c] = "closed" \/ ~up
    /\ got' = [got EXCEPT ![c] = echo[c]]
    /\ peer' = [peer EXCEPT ![c] = "gone"]
    /\ UNCHANGED <<mode, up, client_sock, waits, conn, message, echo, handler, socket, peak>>

\* The client is killed, while its user types or before it has the echo.
\* What the server still writes to it is lost without a signal, since it
\* writes once only.
Leave(c) ==
    /\ peer[c] \in {"typing", "waiting"}
    /\ peer' = [peer EXCEPT ![c] = "gone"]
    /\ UNCHANGED <<mode, up, client_sock, waits, conn, message, echo, got, handler, socket, peak>>

\* main is between accept and the next accept.
Dispatching == client_sock # None /\ conn[client_sock] = "accepted"

Accept(c) ==
    /\ up /\ ~Dispatching /\ ~waits
    /\ conn[c] = "backlog"
    /\ conn' = [conn EXCEPT ![c] = "accepted"]
    /\ client_sock' = c
    /\ UNCHANGED <<mode, up, waits, message, echo, handler, socket, peak, clientVars>>

\* A handler for the connection, in a state to begin with.
NewHandler(c, state) ==
    /\ handler' = [handler EXCEPT ![c] = state]
    /\ conn' = [conn EXCEPT ![c] = "open"]
    /\ peak' = IF Cardinality(Busy) < peak THEN peak ELSE Cardinality(Busy) + 1

\* fork; if it fails the parent closes the only copy of the connection.
DispatchFork(c) ==
    /\ up /\ Dispatching /\ client_sock = c
    /\ mode = "fork"
    /\ waits' = TRUE
    /\ \/ /\ NewHandler(c, "reading")
          /\ socket' = [socket EXCEPT ![c] = c]
       \/ /\ conn' = [conn EXCEPT ![c] = "closed"]
          /\ UNCHANGED <<handler, socket, peak>>
    /\ UNCHANGED <<mode, up, client_sock, message, echo, clientVars>>

\* waitpid(-1, NULL, WNOHANG): one zombie less, if there is one.  The mutant
\* does not wait.
ReapNone == UNCHANGED handler
ReapOne  == \/ Zombies = {} /\ UNCHANGED handler
            \/ \E z \in Zombies : handler' = [handler EXCEPT ![z] = "reaped"]

Reap ==
    /\ waits
    /\ waits' = FALSE
    /\ ReapOne
    /\ UNCHANGED <<mode, up, client_sock, conn, message, echo, socket, peak, clientVars>>

\* pthread_create; if it fails nobody looks, the connection stays open, and
\* pthread_detach gets an uninitialised thread id, which may be the end.
DispatchThread(c) ==
    /\ up /\ Dispatching /\ client_sock = c
    /\ mode = "thread"
    /\ \/ /\ NewHandler(c, "started")
          /\ UNCHANGED up
       \/ /\ conn' = [conn EXCEPT ![c] = "open"]
          /\ up' \in BOOLEAN
          /\ UNCHANGED <<handler, peak>>
    /\ UNCHANGED <<mode, client_sock, waits, socket, message, echo, clientVars>>

DispatchNone(c) ==
    /\ up /\ Dispatching /\ client_sock = c
    /\ mode = "other"
    /\ conn' = [conn EXCEPT ![c] = "closed"]
    /\ UNCHANGED <<mode, up, client_sock, waits, message, echo, handler, socket, peak, clientVars>>

\* The connection a thread finds behind its argument: an int allocated for
\* it.  The mutant gets the address of main's variable.
SharedArgument(c) == client_sock
Argument(c)       == c

StartThread(c) ==
    /\ up /\ handler[c] = "started"
    /\ socket' = [socket EXCEPT ![c] = Argument(c)]
    /\ handler' = [handler EXCEPT ![c] = "reading"]
    /\ UNCHANGED <<mode, up, client_sock, waits, conn, message, echo, peak, clientVars>>

\* thread_handler and fork_handler: read, write, close and the end.  A child
\* is a zombie then, and works without the server too; a thread leaves
\* nothing.
Handle(c) ==
    LET s == socket[c]
    IN  /\ handler[c] = "reading" /\ (up \/ mode = "fork")
        /\ message[s] # None \/ peer[s] = "gone"
        /\ echo' = [echo EXCEPT ![s] = message[s]]
        /\ message' = [message EXCEPT ![s] = None]
        /\ conn' = [conn EXCEPT ![s] = "closed"]
        /\ handler' = [handler EXCEPT ![c] = IF mode = "fork" THEN "zombie" ELSE "reaped"]
        /\ UNCHANGED <<mode, up, client_sock, waits, socket, peak, clientVars>>

Server == Reap \/ \E c \in Clients : Accept(c) \/ DispatchFork(c) \/ DispatchThread(c) \/ DispatchNone(c)
Handler(c) == StartThread(c) \/ Handle(c)

Next ==
    \/ Server
    \/ \E c \in Clients : Handler(c) \/ Connect(c) \/ SendMessage(c) \/ Receive(c) \/ Leave(c)

\* pthread_create failed: the connection is open and has no handler.
Stranded(c) == conn[c] = "open" /\ handler[c] = "none"

\* No client waits for an answer, but for those nobody handles.
Answered == \A c \in Clients : peer[c] # "waiting" \/ Stranded(c)
-----------------------------------------------------------------------------
TypeOK ==
    /\ mode \in {"fork", "thread", "other"}
    /\ client_sock \in Clients \cup {None}
    /\ peer \in [Clients -> {"new", "typing", "waiting", "gone"}]
    /\ conn \in [Clients -> {"none", "backlog", "accepted", "open", "closed"}]
    /\ handler \in [Clients -> {"none", "started", "reading", "zombie", "reaped"}]
    /\ socket \in [Clients -> Clients \cup {None}]

\* One waitpid per connection (line 109) keeps up with the children: those
\* dead and not reaped, with those alive, are never more than were alive at
\* once.  And whichever way connections are handed over (lines 99-124), a
\* client gets its own message back or nothing, and has nothing only if the
\* server took nothing from it.
HandlersKeepUp ==
    /\ ~waits => Cardinality(Busy \cup Zombies) <= peak
    /\ \A c \in Clients : /\ got[c] \in {None, c}
                          /\ conn[c] = "closed" /\ handler[c] \in {"zombie", "reaped"}
                               => echo[c] = c \/ peer[c] = "gone"
    /\ \A c, d \in Clients : socket[c] = socket[d] /\ socket[c] # None => c = d
=============================================================================
