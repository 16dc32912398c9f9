------------------------------ MODULE EchoServer ------------------------------
(***************************************************************************)
(* The echo server of src/multi-client-echo with its clients.  The server  *)
(* waits in select, accepts at most one connection a round and echoes what *)
(* it reads from each slot that select has found readable.  A client works *)
(* in lockstep: it writes a line and blocks in read for the echo, so there *)
(* is at most one line on a connection, going or coming.                   *)
(*                                                                         *)
(* Only the number of lines matters, not what is in them.  fgets and read  *)
(* have the same limit, BUF_SIZE - 1 bytes, so a read of the server takes  *)
(* at most one line of the longest kind, and a line is echoed whole.       *)
(***************************************************************************)
EXTENDS Integers, Sequences, FiniteSetsExt

CONSTANTS
    Users,
    MAX_CLIENTS,    \* slots of the client table
    MaxEchoes,      \* bound on the lines of a user
    None

VARIABLES
    alive,          \* has the server survived every write?
    clients,        \* per slot: the user, or None
    queued,         \* users connected and not yet accepted
    turns,          \* slots found readable by select and not yet served
    prompt,         \* per user: new, typing, reading or gone
    lines,          \* per user: lines written
    sentOut,        \* per user: lines on the way to the server
    echoed,         \* per user: lines on the way back
    refused,        \* users accepted when no slot was free
    lost            \* users that are gone and to whom something was written

vars == <<alive, clients, queued, turns, prompt, lines, sentOut, echoed, refused, lost>>

Slots == 1..MAX_CLIENTS

Init ==
    /\ alive = TRUE
    /\ clients = [i \in Slots |-> None]
    /\ queued = <<>>
    /\ turns = {}
    /\ prompt = [c \in Users |-> "new"]
    /\ lines = [c \in Users |-> 0]
    /\ sentOut = [c \in Users |-> 0]
    /\ echoed = [c \in Users |-> 0]
    /\ refused = {}
    /\ lost = {}
-----------------------------------------------------------------------------
Connect(c) ==
    /\ prompt[c] = "new"
    /\ prompt' = [prompt EXCEPT ![c] = "typing"]
    /\ queued' = Append(queued, c)
    /\ UNCHANGED <<alive, clients, turns, lines, sentOut, echoed, refused, lost>>

\* The prompt takes a line.  The mutant does not wait for the echo.
AnyTime(c)  == prompt[c] \in {"typing", "reading"}
AtPrompt(c) == prompt[c] = "typing"

\* fgets and write, after which the client blocks in read.
SendLine(c) ==
    /\ AtPrompt(c)
    /\ lines[c] < MaxEchoes
    /\ lines' = [lines EXCEPT ![c] = @ + 1]
    /\ sentOut' = [sentOut EXCEPT ![c] = @ + 1]
    /\ prompt' = [prompt EXCEPT ![c] = "reading"]
    /\ UNCHANGED <<alive, clients, queued, turns, echoed, refused, lost>>

\* read returns the echo and the client prints it.
ReadEcho(c) ==
    /\ prompt[c] = "reading"
    /\ echoed[c] > 0
    /\ echoed' = [echoed EXCEPT ![c] = 0]
    /\ prompt' = [prompt EXCEPT ![c] = "typing"]
    /\ UNCHANGED <<alive, clients, queued, turns, lines, sentOut, refused, lost>>

\* End of input, or Ctrl+C at any time.
Quit(c) ==
    /\ prompt[c] \in {"typing", "reading"}
    /\ prompt' = [prompt EXCEPT ![c] = "gone"]
    /\ UNCHANGED <<alive, clients, queued, turns, lines, sentOut, echoed, refused, lost>>
-----------------------------------------------------------------------------
Readable == {i \in Slots : clients[i] # None
                             /\ (sentOut[clients[i]] > 0 \/ prompt[clients[i]] = "gone")}

FreeSlots == {i \in Slots : clients[i] = None}

\* The accept of a round fails: nothing but a message, and the connection
\* waits for the next round.
AcceptFails == queued # <<>> /\ UNCHANGED <<queued, clients, refused>>

\* A new connection is accepted, and stored if there is a free slot.
AcceptOne ==
    /\ queued # <<>>
    /\ queued' = Tail(queued)
    /\ IF FreeSlots = {}
         THEN refused' = refused \cup {Head(queued)} /\ UNCHANGED clients
         ELSE clients' = [clients EXCEPT ![Min(FreeSlots)] = Head(queued)] /\ UNCHANGED refused

\* select returns: at most one connection is accepted, then the slots that
\* were readable have their turns.
Select ==
    /\ alive
    /\ turns = {}
    /\ Readable # {} \/ queued # <<>>
    /\ turns' = Readable
    /\ \/ queued = <<>> /\ UNCHANGED <<queued, clients, refused>>
       \/ AcceptFails
       \/ AcceptOne
    /\ UNCHANGED <<alive, prompt, lines, sentOut, echoed, lost>>

Turn == Min(turns)

\* read returns data and it is written back: to a live client, into the void,
\* or, if the connection is known to be broken, at the cost of a SIGPIPE.
Echo ==
    /\ alive /\ turns # {}
    /\ LET c == clients[Turn]
       IN  /\ sentOut[c] > 0
           /\ sentOut' = [sentOut EXCEPT ![c] = @ - 1]
           /\ alive' = ~(c \in lost)
           /\ echoed' = IF prompt[c] = "gone" THEN echoed
                        ELSE [echoed EXCEPT ![c] = @ + 1]
           /\ lost' = IF prompt[c] = "gone" THEN lost \cup {c} ELSE lost
    /\ turns' = turns \ {Turn}
    /\ UNCHANGED <<clients, queued, prompt, lines, refused>>

\* The slot after a client has left.  The mutant clears the last slot.
LastCleared == [clients EXCEPT ![MAX_CLIENTS] = None]
TurnCleared == [clients EXCEPT ![Turn] = None]

\* read returns 0 or an error.
CloseSlot ==
    /\ alive /\ turns # {}
    /\ sentOut[clients[Turn]] = 0
    /\ clients' = TurnCleared
    /\ turns' = turns \ {Turn}
    /\ UNCHANGED <<alive, queued, prompt, lines, sentOut, echoed, refused, lost>>

Server == Select \/ Echo \/ CloseSlot

Next ==
    \/ Server
    \/ \E c \in Users : Connect(c) \/ SendLine(c) \/ ReadEcho(c) \/ Quit(c)

Spec == Init /\ [][Next]_vars
-----------------------------------------------------------------------------
TypeOK ==
    /\ alive \in BOOLEAN
    /\ clients \in [Slots -> Users \cup {None}]
    /\ queued \in Seq(Users)
    /\ turns \subseteq Slots
    /\ prompt \in [Users -> {"new", "typing", "reading", "gone"}]
    /\ lines \in [Users -> 0..MaxEchoes]
    /\ sentOut \in [Users -> Nat]
    /\ echoed \in [Users -> Nat]
    /\ refused \subseteq Users
    /\ lost \subseteq Users

\* Because its clients wait for every echo, the server never writes twice to
\* a client that is gone, and no SIGPIPE ends it (line 147), although it does
\* not ignore the signal.
SurvivesClients == alive

\* A client that waits for its echo has exactly one line under way (lines
\* 121-161): the echo, or the line itself on a connection that is in the
\* queue or in the table.  Only a client that found the table full waits for
\* nothing.
OneLineUnderWay ==
    \A c \in Users :
        prompt[c] = "reading" =>
            /\ sentOut[c] + echoed[c] = 1
            /\ sentOut[c] = 1 =>
                 c \in Range(queued) \/ c \in Range(clients) \/ c \in refused
=============================================================================
