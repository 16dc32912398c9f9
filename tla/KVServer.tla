------------------------------- MODULE KVServer -------------------------------
(***************************************************************************)
(* The key-value server of src/key-value/server.c (src/mini-key-value has  *)
(* the same code) with the clients of client.c.  The server is one thread: *)
(* it accepts a connection, blocks in read until the client has sent       *)
(* something or is gone, serves one command and closes the connection.     *)
(* A client writes what its user types and blocks in read for the answer.  *)
(* Nobody ignores SIGPIPE, so a write to a closed connection is the end of *)
(* the process that makes it.                                              *)
(***************************************************************************)
EXTENDS Integers, SequencesExt

CONSTANTS
    Clients, Keys, Values,
    MAX_ENTRIES,    \* entries of the table
    BACKLOG,        \* connections that wait for accept
    None

VARIABLES
    store,      \* the first store_count entries of the table
    serving,    \* client whose connection the server has accepted, or None
    backlog,    \* clients connected and not yet accepted
    client,     \* per client: where it is
    inbox,      \* per client: what it sent and the server has not read
    reply,      \* per client: what the server sent and it has not read
    closed,     \* per client: is the server's end of the connection closed?
    up,         \* is the server running?
    last        \* history: the last command served and its answer

vars == <<store, serving, backlog, client, inbox, reply, closed, up, last>>

Commands ==
    [op : {"SET"}, key : Keys, value : Values] \cup [op : {"GET"}, key : Keys] \cup {[op |-> "BAD"]}

Answers == {"OK", "NOT_FOUND", "ERROR"} \cup Values

\* The entry of a key, or 0.  The mutant does not look at the newest entry.
FindButLast(key) == SelectInSeq(store, LAMBDA e : e.key = key /\ e # Last(store))
Find(key)        == SelectInSeq(store, LAMBDA e : e.key = key)

kv_get(key) == IF Find(key) = 0 THEN None ELSE store[Find(key)].value

\* Mutant of kv_set: adds entries past the end of the table.
kv_set_unbounded(key, value) ==
    IF Find(key) # 0 THEN [store EXCEPT ![Find(key)].value = value]
    ELSE Append(store, [key |-> key, value |-> value])

kv_set(key, value) ==
    IF Find(key) # 0 THEN [store EXCEPT ![Find(key)].value = value]
    ELSE IF Len(store) < MAX_ENTRIES THEN Append(store, [key |-> key, value |-> value])
    ELSE store

Answer(cmd) ==
    CASE cmd.op = "SET" -> "OK"
      [] cmd.op = "GET" -> IF kv_get(cmd.key) = None THEN "NOT_FOUND" ELSE kv_get(cmd.key)
      [] cmd.op = "BAD" -> "ERROR"

Init ==
    /\ store = <<>>
    /\ serving = None
    /\ backlog = <<>>
    /\ client = [c \in Clients |-> "new"]
    /\ inbox = [c \in Clients |-> None]
    /\ reply = [c \in Clients |-> None]
    /\ closed = [c \in Clients |-> FALSE]
    /\ up = TRUE
    /\ last = <<None, None>>
-----------------------------------------------------------------------------
\* socket and connect; without a server the client dies.
Connect(c) ==
    /\ client[c] = "new"
    /\ IF up
         THEN /\ Len(backlog) < BACKLOG
              /\ backlog' = Append(backlog, c)
              /\ client' = [client EXCEPT ![c] = "prompt"]
         ELSE /\ client' = [client EXCEPT ![c] = "gone"]
              /\ UNCHANGED backlog
    /\ UNCHANGED <<store, serving, inbox, reply, closed, up, last>>

\* The user types a command and the client writes it, or dies in write.
SendCommand(c, cmd) ==
    /\ client[c] = "prompt"
    /\ IF closed[c]
         THEN /\ client' = [client EXCEPT ![c] = "gone"]
              /\ UNCHANGED inbox
         ELSE /\ client' = [client EXCEPT ![c] = "waiting"]
              /\ inbox' = [inbox EXCEPT ![c] = cmd]
    /\ UNCHANGED <<store, serving, backlog, reply, closed, up, last>>

\* The user types an empty line: the client writes no byte and reads.
SendNothing(c) ==
    /\ client[c] = "prompt"
    /\ client' = [client EXCEPT ![c] = IF closed[c] THEN "gone" ELSE "muted"]
    /\ UNCHANGED <<store, serving, backlog, inbox, reply, closed, up, last>>

\* read returns the answer, or nothing because the server has closed.
Receive(c) ==
    /\ client[c] \in {"waiting", "muted"}
    /\ reply[c] # None \/ closed[c]
    /\ client' = [client EXCEPT ![c] = IF reply[c] # None THEN "prompt" ELSE "gone"]
    /\ reply' = [reply EXCEPT ![c] = None]
    /\ UNCHANGED <<store, serving, backlog, inbox, closed, up, last>>

\* EXIT, end of input, or a signal at any time.
Quit(c) ==
    /\ client[c] \in {"prompt", "waiting", "muted"}
    /\ client' = [client EXCEPT ![c] = "gone"]
    /\ UNCHANGED <<store, serving, backlog, inbox, reply, closed, up, last>>

Accept ==
    /\ up
    /\ serving = None
    /\ backlog # <<>>
    /\ serving' = Head(backlog)
    /\ backlog' = Tail(backlog)
    /\ UNCHANGED <<store, client, inbox, reply, closed, up, last>>

\* The connections of the server after close(client_fd); the mutant leaks it.
StillOpen(c) == closed
Closed(c)    == [closed EXCEPT ![c] = TRUE]

\* read returns a command: it is carried out, answered and the connection
\* closed.  If the client is gone by then, the answer kills the server, and
\* with it every connection.
Serve(c) ==
    LET cmd == inbox[c]
    IN  /\ up
        /\ serving = c
        /\ cmd # None
        /\ store' = IF cmd.op = "SET" THEN kv_set(cmd.key, cmd.value) ELSE store
        /\ last' = <<cmd, Answer(cmd)>>
        /\ inbox' = [inbox EXCEPT ![c] = None]
        /\ serving' = None
        /\ IF client[c] = "gone"
             THEN /\ up' = FALSE
                  /\ closed' = [d \in Clients |-> TRUE]
                  /\ backlog' = <<>>
                  /\ UNCHANGED reply
             ELSE /\ reply' = [reply EXCEPT ![c] = Answer(cmd)]
                  /\ closed' = Closed(c)
                  /\ UNCHANGED <<up, backlog>>
        /\ UNCHANGED client

\* read returns 0: the client left without a command.
Skip(c) ==
    /\ up
    /\ serving = c
    /\ inbox[c] = None
    /\ client[c] = "gone"
    /\ closed' = Closed(c)
    /\ serving' = None
    /\ UNCHANGED <<store, backlog, client, inbox, reply, up, last>>

Server == Accept \/ \E c \in Clients : Serve(c) \/ Skip(c)

Next ==
    \/ Server
    \/ \E c \in Clients :
          \/ Connect(c)
          \/ \E cmd \in Commands : SendCommand(c, cmd)
          \/ SendNothing(c)
          \/ Receive(c)
          \/ Quit(c)

\* The server runs whenever it is not blocked, and so does a client in read;
\* nothing is assumed about what users type.
Fairness == WF_vars(Server) /\ \A c \in Clients : WF_vars(Receive(c))

Spec == Init /\ [][Next]_vars /\ Fairness
-----------------------------------------------------------------------------
TypeOK ==
    /\ store \in Seq([key : Keys, value : Values])
    /\ Len(store) <= MAX_ENTRIES
    /\ serving \in Clients \cup {None}
    /\ backlog \in Seq(Clients)
    /\ client \in [Clients -> {"new", "prompt", "waiting", "muted", "gone"}]
    /\ inbox \in [Clients -> Commands \cup {None}]
    /\ reply \in [Clients -> Answers \cup {None}]
    /\ closed \in [Clients -> BOOLEAN]
    /\ up \in BOOLEAN

\* The table searched from the front (lines 34-66) is a map with room for
\* MAX_ENTRIES keys, and every answer is the one that map gives.
Table == INSTANCE BoundedMap WITH
             Capacity <- MAX_ENTRIES, map <- [k \in Keys |-> kv_get(k)]

MapSpec == Table!Spec

\* No command is forgotten: the client that waits for an answer has it, or
\* will find the connection closed, or its command is with a server that has
\* its connection in the queue or in hand (lines 105-146).
NobodyForgotten ==
    \A c \in Clients :
        client[c] = "waiting" =>
            \/ reply[c] # None
            \/ closed[c]
            \/ up /\ inbox[c] # None /\ (serving = c \/ Contains(backlog, c))

\* src/mini-key-value/README.md line 4, "can handle multiple clients
\* concurrently": a client that sent a command is not kept waiting by what
\* the other clients do.
EveryoneServed ==
    \A c \in Clients : client[c] = "waiting" ~> client[c] # "waiting"
=============================================================================
