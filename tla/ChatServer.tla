------------------------------ MODULE ChatServer ------------------------------
(***************************************************************************)
(* The chat room of src/multi-client-chat-server: one server that waits in *)
(* select for connections and lines, and clients that wait in select for   *)
(* their user and for the server.  A round of the server is a select, at   *)
(* most one accept, and one read for each slot that select has found       *)
(* readable; users go on typing and leaving between these steps.           *)
(*                                                                         *)
(* A line is <<user, n>>, the n-th line of the user.  Bytes of a connection *)
(* arrive whole and in order; a read takes all that has arrived (lines are *)
(* short against MSG_BUF_SIZE).  End of input on a user's terminal is not  *)
(* modelled: the user types or leaves.                                     *)
(***************************************************************************)
EXTENDS Integers, Sequences, FiniteSetsExt

CONSTANTS
    Users,
    MAX_USERS,      \* slots of the client table
    MaxLines,       \* bound on the lines typed, all users together
    None

VARIABLES
    running,        \* is the server running?
    client_fd,      \* per slot: the user, or None
    waiting,        \* users connected and not yet accepted
    ready,          \* slots found readable by select and not yet served
    member,         \* per user: new, on or gone
    typed,          \* per user: lines typed
    unread,         \* per user: lines the server has not read
    heard,          \* per user: messages the user's client has not read
    shown,          \* per user: messages on the terminal
    transcript,     \* the lines the server has printed
    joined,         \* history, per user: lines printed before its accept
    broken          \* users that are gone and to whom something was sent

vars == <<running, client_fd, waiting, ready, member, typed, unread, heard, shown,
          transcript, joined, broken>>

Slots    == 1..MAX_USERS
Lines    == Users \X (1..MaxLines)
Greeting == <<None, 0>>

Init ==
    /\ running = TRUE
    /\ client_fd = [i \in Slots |-> None]
    /\ waiting = <<>>
    /\ ready = {}
    /\ member = [c \in Users |-> "new"]
    /\ typed = [c \in Users |-> 0]
    /\ unread = [c \in Users |-> <<>>]
    /\ heard = [c \in Users |-> <<>>]
    /\ shown = [c \in Users |-> <<>>]
    /\ transcript = <<>>
    /\ joined = [c \in Users |-> None]
    /\ broken = {}
-----------------------------------------------------------------------------
\* socket and connect; without a server the client returns.
Join(c) ==
    /\ member[c] = "new"
    /\ member' = [member EXCEPT ![c] = IF running THEN "on" ELSE "gone"]
    /\ waiting' = IF running THEN Append(waiting, c) ELSE waiting
    /\ UNCHANGED <<running, client_fd, ready, typed, unread, heard, shown, transcript,
                   joined, broken>>

\* The lines typed so far.
Written == {line \in Lines : line[2] <= typed[line[1]]}

\* The user types a line and the client sends it.
Type(c) ==
    /\ member[c] = "on" /\ running
    /\ Cardinality(Written) < MaxLines
    /\ typed' = [typed EXCEPT ![c] = @ + 1]
    /\ unread' = [unread EXCEPT ![c] = Append(@, <<c, typed[c] + 1>>)]
    /\ UNCHANGED <<running, client_fd, waiting, ready, member, heard, shown, transcript,
                   joined, broken>>

\* The client reads what has arrived and shows it.
Show(c) ==
    /\ member[c] = "on"
    /\ heard[c] # <<>>
    /\ shown' = [shown EXCEPT ![c] = @ \o heard[c]]
    /\ heard' = [heard EXCEPT ![c] = <<>>]
    /\ UNCHANGED <<running, client_fd, waiting, ready, member, typed, unread, transcript,
                   joined, broken>>

\* The user types exit, the server is gone, or the client is killed.
Leave(c) ==
    /\ member[c] = "on"
    /\ member' = [member EXCEPT ![c] = "gone"]
    /\ UNCHANGED <<running, client_fd, waiting, ready, typed, unread, heard, shown,
                   transcript, joined, broken>>
-----------------------------------------------------------------------------
Readable == {i \in Slots : client_fd[i] # None
                             /\ (unread[client_fd[i]] # <<>> \/ member[client_fd[i]] = "gone")}

\* What lies in the sockets and which connections are known to be broken
\* after msgs was sent to the users in to.
Delivered(to, msgs) ==
    [c \in Users |-> IF c \in to /\ member[c] = "on" THEN heard[c] \o msgs ELSE heard[c]]
Broken(to) == broken \cup {c \in to : member[c] = "gone"}

\* The table after new_fd was stored.  The mutant uses the next slot after
\* the last one in use and overwrites when there is none.
StoredAtEnd(c) ==
    LET used == {i \in Slots : client_fd[i] # None}
    IN  [client_fd EXCEPT ![IF used = {} THEN 1 ELSE Min({Max(used) + 1, MAX_USERS})] = c]
Stored(c) ==
    LET free == {i \in Slots : client_fd[i] = None}
    IN  IF free = {} THEN client_fd ELSE [client_fd EXCEPT ![Min(free)] = c]

\* select returns; a new connection is accepted, greeted and, if a slot is
\* free, stored.  Without a slot it stays open and is never read.
Select ==
    /\ running
    /\ ready = {}
    /\ Readable # {} \/ waiting # <<>>
    /\ ready' = Readable
    /\ IF waiting = <<>>
         THEN UNCHANGED <<waiting, heard, broken, client_fd, joined>>
         ELSE LET c == Head(waiting)
              IN  /\ waiting' = Tail(waiting)
                  /\ heard' = Delivered({c}, <<Greeting>>)
                  /\ broken' = Broken({c})
                  /\ client_fd' = Stored(c)
                  /\ joined' = [joined EXCEPT ![c] = Len(transcript)]
    /\ UNCHANGED <<running, member, typed, unread, shown, transcript>>

\* The next slot that select has found readable.
Turn == Min(ready)

\* read returns 0 or an error: the user has left.
CloseSlot ==
    /\ running /\ ready # {}
    /\ LET c == client_fd[Turn]
       IN  /\ unread[c] = <<>>
           /\ client_fd' = [client_fd EXCEPT ![Turn] = None]
    /\ ready' = ready \ {Turn}
    /\ UNCHANGED <<running, waiting, member, typed, unread, heard, shown, transcript,
                   joined, broken>>

\* The slots the message of slot i goes to.  The mutant forgets the slots
\* before it.
Following(i) == {j \in Slots : client_fd[j] # None /\ j > i}
Others(i)    == {j \in Slots : client_fd[j] # None /\ client_fd[j] # client_fd[i]}

\* read returns lines: they are printed and sent to all other slots.
Broadcast ==
    /\ running /\ ready # {}
    /\ LET c  == client_fd[Turn]
           to == {client_fd[j] : j \in Others(Turn)}
       IN  /\ unread[c] # <<>>
           /\ transcript' = transcript \o unread[c]
           /\ unread' = [unread EXCEPT ![c] = <<>>]
           /\ heard' = Delivered(to, unread[c])
           /\ broken' = Broken(to)
    /\ ready' = ready \ {Turn}
    /\ UNCHANGED <<running, client_fd, waiting, member, typed, shown, joined>>

\* The same, but slot j is the second send to a user that is gone: SIGPIPE
\* ends the server, and the slots after j get nothing.
BrokenPipe ==
    /\ running /\ ready # {}
    /\ LET c == client_fd[Turn]
       IN  /\ unread[c] # <<>>
           /\ \E j \in Others(Turn) :
                 /\ client_fd[j] \in broken
                 /\ heard' = Delivered({client_fd[k] : k \in Others(Turn) \cap (1..(j - 1))},
                                       unread[c])
           /\ transcript' = transcript \o unread[c]
           /\ unread' = [unread EXCEPT ![c] = <<>>]
    /\ running' = FALSE
    /\ waiting' = <<>>
    /\ ready' = {}
    /\ UNCHANGED <<client_fd, member, typed, shown, joined, broken>>

Server == Select \/ CloseSlot \/ Broadcast \/ BrokenPipe

Next ==
    \/ Server
    \/ \E c \in Users : Join(c) \/ Type(c) \/ Show(c) \/ Leave(c)

Spec == Init /\ [][Next]_vars
-----------------------------------------------------------------------------
TypeOK ==
    /\ running \in BOOLEAN
    /\ client_fd \in [Slots -> Users \cup {None}]
    /\ waiting \in Seq(Users)
    /\ ready \subseteq Slots
    /\ member \in [Users -> {"new", "on", "gone"}]
    /\ typed \in [Users -> 0..MaxLines]
    /\ unread \in [Users -> Seq(Lines)]
    /\ heard \in [Users -> Seq(Lines \cup {Greeting})]
    /\ shown \in [Users -> Seq(Lines \cup {Greeting})]
    /\ transcript \in Seq(Lines)
    /\ \A c \in Users : joined[c] = None \/ joined[c] \in 0..Len(transcript)
    /\ broken \subseteq Users

\* Where the lines that c typed, and the lines that c should see, are in
\* what the server printed: all those the others typed since c was accepted.
LinesOf(c)      == {k \in 1..Len(transcript) : transcript[k][1] = c}
Conversation(c) == {k \in (joined[c] + 1)..Len(transcript) : transcript[k][1] # c}

\* How many of the places in P come up to k.
Rank(P, k) == Cardinality({j \in P : j <= k})

\* got is the greeting and then, in order, the first of the lines at P.
Follows(got, P, printed) ==
    /\ got # <<>> => got[1] = Greeting
    /\ Len(got) <= 1 + Cardinality(P)
    /\ \A k \in P : Rank(P, k) < Len(got) => got[1 + Rank(P, k)] = printed[k]

InTable(c) == \E i \in Slots : client_fd[i] = c

\* Everybody follows the same conversation (lines 98-157): nobody sees a
\* line twice, out of order, its own, or one of before its time; a user that
\* has a slot misses none as long as the server lives; a user that found the
\* table full sees only the greeting.
SameConversation ==
    \A c \in Users :
        joined[c] # None =>
            LET got == shown[c] \o heard[c]
            IN  /\ Follows(got, Conversation(c), transcript)
                /\ running /\ member[c] = "on" =>
                     Len(got) = 1 + IF InTable(c) THEN Cardinality(Conversation(c)) ELSE 0

\* What a user types is printed by the server once and in order, also when
\* the user has left by then (lines 131-147): the lines printed and after
\* them the lines in the socket are the ones typed.  Only the lines of a
\* user without a slot stay in the socket.
NothingLost ==
    \A c \in Users :
        /\ \A k \in LinesOf(c) : transcript[k] = <<c, Rank(LinesOf(c), k)>>
        /\ \A n \in DOMAIN unread[c] : unread[c][n] = <<c, Cardinality(LinesOf(c)) + n>>
        /\ typed[c] = Cardinality(LinesOf(c)) + Len(unread[c])
        /\ running /\ joined[c] # None /\ unread[c] # <<>> => InTable(c) \/ LinesOf(c) = {}
=============================================================================
