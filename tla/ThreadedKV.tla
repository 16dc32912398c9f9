------------------------------ MODULE ThreadedKV ------------------------------
(***************************************************************************)
(* The key-value server of src/Modularize Key-Value: server_main.c starts  *)
(* a thread per connection, and kv_get and kv_set of kvstore_functions.c   *)
(* work on one table without a lock.  The library is built without         *)
(* optimisation, so every mention of store_count is a load or a store; a   *)
(* string is copied and printed in two halves, so that a reader can meet   *)
(* one in between.  A client is connected, writes a command and blocks     *)
(* for the answer.  malloc and accept do not fail.                         *)
(***************************************************************************)
EXTENDS Integers

CONSTANTS
    Clients, Keys,
    MAX_ENTRIES,    \* entries of the table
    MaxCommands,    \* bound on the commands sent
    MaxRaced,       \* the same once two kv_set have run at once
    None

VARIABLES
    store,          \* key and value of every entry, as pairs of halves
    store_count,
    user,           \* per client: prompt, waiting or gone
    used,           \* commands sent
    at,             \* per client: where the thread that serves it is
    cmd,            \* per client: what it sent, or None
    i,              \* per thread: its loop variable
    slot,           \* per thread: the entry it copies to
    loaded,         \* per thread: the store_count it increments
    answer,         \* per thread: the answer so far, in halves
    up,             \* is the server running?
    overrun,        \* history: an entry past the table was touched
    overlapped,     \* history: two kv_set ran at once
    latest,         \* history: per key, the value of the last kv_set
    since           \* history: per thread, the values its key had meanwhile

serverVars == <<store, store_count, at, i, slot, loaded, answer, overrun, latest>>
clientVars == <<user, used, cmd, up>>
vars == <<serverVars, clientVars, overlapped, since>>

Whole(s) == <<s, s>>

\* A client stores its own name, so that one can tell the values apart.
Commands(c) ==
    [op : {"SET"}, key : Keys, value : {c}] \cup [op : {"GET"}, key : Keys] \cup {[op |-> "BAD"]}

Init ==
    /\ store = [e \in 1..MAX_ENTRIES |-> [key |-> Whole(None), value |-> Whole(None)]]
    /\ store_count = 0
    /\ user = [c \in Clients |-> "prompt"]
    /\ used = 0
    /\ at = [c \in Clients |-> "queued"]
    /\ cmd = [c \in Clients |-> None]
    /\ i = [c \in Clients |-> 0]
    /\ slot = [c \in Clients |-> 0]
    /\ loaded = [c \in Clients |-> 0]
    /\ answer = [c \in Clients |-> Whole(None)]
    /\ up = TRUE /\ overrun = FALSE /\ overlapped = FALSE
    /\ latest = [k \in Keys |-> None]
    /\ since = [c \in Clients |-> {}]
-----------------------------------------------------------------------------
\* The user types a command; on a closed connection the write is the end.
SendCommand(c, m) ==
    /\ user[c] = "prompt"
    /\ used < IF overlapped THEN MaxRaced ELSE MaxCommands
    /\ used' = used + 1
    /\ IF at[c] = "closed"
         THEN user' = [user EXCEPT ![c] = "gone"] /\ UNCHANGED cmd
         ELSE user' = [user EXCEPT ![c] = "waiting"] /\ cmd' = [cmd EXCEPT ![c] = m]
    /\ UNCHANGED <<serverVars, up>>

\* EXIT, a signal, or a read that returns 0.
Quit(c) ==
    /\ user[c] \in {"prompt", "waiting"}
    /\ user' = [user EXCEPT ![c] = "gone"]
    /\ UNCHANGED <<serverVars, used, cmd, up>>

\* accept and pthread_create; if that fails the connection is closed.
Accept(c) ==
    /\ at[c] = "queued"
    /\ \E to \in {"read", "closed"} : at' = [at EXCEPT ![c] = to]
    /\ UNCHANGED <<store, store_count, i, slot, loaded, answer, overrun, latest, clientVars>>

\* The thread reads a command or the end of the connection.
ReadCommand(c) ==
    /\ at[c] = "read"
    /\ cmd[c] # None \/ user[c] = "gone"
    /\ at' = [at EXCEPT ![c] = IF cmd[c] = None THEN "closed"
                               ELSE IF cmd[c].op = "BAD" THEN "reply" ELSE "scan"]
    /\ i' = [i EXCEPT ![c] = 1]
    /\ UNCHANGED <<store, store_count, slot, loaded, answer, overrun, latest, clientVars>>

\* The condition of the two loops, and the mutant that goes one too far.
OneFurther(c)  == i[c] <= store_count + 1 /\ i[c] <= MAX_ENTRIES
InTheTable(c)  == i[c] <= store_count

\* An iteration of the loop of kv_get or kv_set.
Scan(c) ==
    /\ at[c] = "scan"
    /\ IF ~InTheTable(c)
         THEN /\ at' = [at EXCEPT ![c] = IF cmd[c].op = "SET" THEN "check" ELSE "reply"]
              /\ UNCHANGED <<i, overrun>>
       ELSE IF i[c] > MAX_ENTRIES
         THEN overrun' = TRUE /\ UNCHANGED <<at, i>>
       ELSE IF store[i[c]].key = Whole(cmd[c].key)
         THEN /\ at' = [at EXCEPT ![c] = IF cmd[c].op = "SET" THEN "update1" ELSE "print1"]
              /\ UNCHANGED <<i, overrun>>
         ELSE i' = [i EXCEPT ![c] = @ + 1] /\ UNCHANGED <<at, overrun>>
    /\ UNCHANGED <<store, store_count, slot, loaded, answer, latest, clientVars>>

\* dprintf of the value kv_get returned a pointer to.
PrintHalf(c, h) ==
    /\ at[c] = IF h = 1 THEN "print1" ELSE "print2"
    /\ answer' = [answer EXCEPT ![c][h] = store[i[c]].value[h]]
    /\ at' = [at EXCEPT ![c] = IF h = 1 THEN "print2" ELSE "reply"]
    /\ UNCHANGED <<store, store_count, i, slot, loaded, overrun, latest, clientVars>>

\* The key is there: its value is overwritten.
UpdateHalf(c, h) ==
    /\ at[c] = IF h = 1 THEN "update1" ELSE "update2"
    /\ store' = [store EXCEPT ![i[c]].value[h] = cmd[c].value]
    /\ at' = [at EXCEPT ![c] = IF h = 1 THEN "update2" ELSE "reply"]
    /\ latest' = IF h = 1 THEN latest ELSE [latest EXCEPT ![cmd[c].key] = cmd[c].value]
    /\ UNCHANGED <<store_count, i, slot, loaded, answer, overrun, clientVars>>

\* The key is not there: a new entry, or none if the table is full.
Check(c) ==
    /\ at[c] = "check"
    /\ at' = [at EXCEPT ![c] = IF store_count < MAX_ENTRIES THEN "key1" ELSE "reply"]
    /\ UNCHANGED <<store, store_count, i, slot, loaded, answer, overrun, latest, clientVars>>

\* Each of the two strncpy loads store_count once.
FillFirstHalf(c, field, now, then) ==
    /\ at[c] = now
    /\ IF store_count < MAX_ENTRIES
         THEN /\ slot' = [slot EXCEPT ![c] = store_count + 1]
              /\ store' = [store EXCEPT ![store_count + 1][field][1] = cmd[c][field]]
              /\ at' = [at EXCEPT ![c] = then]
              /\ UNCHANGED overrun
         ELSE overrun' = TRUE /\ UNCHANGED <<slot, store, at>>
    /\ UNCHANGED <<store_count, i, loaded, answer, latest, clientVars>>

FillSecondHalf(c, field, now, then) ==
    /\ at[c] = now
    /\ store' = [store EXCEPT ![slot[c]][field][2] = cmd[c][field]]
    /\ at' = [at EXCEPT ![c] = then]
    /\ UNCHANGED <<store_count, i, slot, loaded, answer, overrun, latest, clientVars>>

\* store_count++ is a load and a store.
LoadCount(c) ==
    /\ at[c] = "load"
    /\ loaded' = [loaded EXCEPT ![c] = store_count]
    /\ at' = [at EXCEPT ![c] = "store"]
    /\ UNCHANGED <<store, store_count, i, slot, answer, overrun, latest, clientVars>>

StoreCount(c) ==
    /\ at[c] = "store"
    /\ store_count' = loaded[c] + 1
    /\ at' = [at EXCEPT ![c] = "reply"]
    /\ latest' = [latest EXCEPT ![cmd[c].key] = cmd[c].value]
    /\ UNCHANGED <<store, i, slot, loaded, answer, overrun, clientVars>>

\* The answer is written, and the client reads it; if the client is gone the
\* write ends the server.  The locals of the call are gone.
Reply(c) ==
    /\ at[c] = "reply"
    /\ IF user[c] = "gone"
         THEN up' = FALSE /\ at' = [at EXCEPT ![c] = "closed"] /\ UNCHANGED <<user, cmd>>
         ELSE /\ user' = [user EXCEPT ![c] = "prompt"]
              /\ cmd' = [cmd EXCEPT ![c] = None]
              /\ at' = [at EXCEPT ![c] = "read"]
              /\ UNCHANGED up
    /\ i' = [i EXCEPT ![c] = 0] /\ slot' = [slot EXCEPT ![c] = 0]
    /\ loaded' = [loaded EXCEPT ![c] = 0] /\ answer' = [answer EXCEPT ![c] = Whole(None)]
    /\ UNCHANGED <<store, store_count, overrun, latest, used>>

kv_set(c) ==
    \/ Check(c)
    \/ \E h \in {1, 2} : UpdateHalf(c, h)
    \/ FillFirstHalf(c, "key", "key1", "key2")
    \/ FillSecondHalf(c, "key", "key2", "value1")
    \/ FillFirstHalf(c, "value", "value1", "value2")
    \/ FillSecondHalf(c, "value", "value2", "load")
    \/ LoadCount(c)
    \/ StoreCount(c)

handle_client(c) ==
    \/ ReadCommand(c)
    \/ Scan(c)
    \/ \E h \in {1, 2} : PrintHalf(c, h)
    \/ kv_set(c)
    \/ Reply(c)

\* History: who is in kv_set, and which values a key has now; while a value
\* is overwritten it has two.
Setting(c) == cmd[c] # None /\ at[c] \notin {"queued", "read", "reply", "closed"} /\ cmd[c].op = "SET"
Now(k) == {latest[k]} \cup {cmd[d].value : d \in {d \in Clients : at[d] = "update2" /\ cmd[d].key = k}}
Getting(c) == cmd[c] # None /\ at[c] \notin {"queued", "read", "closed"} /\ cmd[c].op = "GET"

History ==
    /\ overlapped' = (overlapped \/ \E c, d \in Clients : c # d /\ Setting(c)' /\ Setting(d)')
    /\ since' = [c \in Clients |-> IF Getting(c)' THEN since[c] \cup Now(cmd[c].key)' ELSE {}]

\* Nothing is said about a program that has left the table.
Next ==
    /\ ~overrun
    /\ \E c \in Clients :
          \/ up /\ (Accept(c) \/ handle_client(c))
          \/ up /\ \E m \in Commands(c) : SendCommand(c, m)
          \/ up /\ Quit(c)
    /\ History
-----------------------------------------------------------------------------
Halves == Keys \cup Clients \cup {None}

TypeOK ==
    /\ store \in [1..MAX_ENTRIES -> [key : Halves \X Halves, value : Halves \X Halves]]
    /\ store_count \in Nat
    /\ user \in [Clients -> {"prompt", "waiting", "gone"}]
    /\ at \in [Clients -> {"queued", "read", "scan", "print1", "print2", "update1",
                           "update2", "check", "key1", "key2", "value1", "value2", "load",
                           "store", "reply", "closed"}]
    /\ \A c \in Clients : cmd[c] \in Commands(c) \cup {None}

Live == 1..store_count

\* As long as no two kv_set run at once the missing lock does no harm: the
\* table stays within its bounds, has every key once and whole, and holds
\* what was stored (kvstore_functions.c lines 25-45); and each half of what
\* a concurrent kv_get prints is from a value the key had while the command
\* ran, NOT_FOUND only if it had none (lines 15-23, server_main.c lines 56-59).
SafeWithOneWriter ==
    ~overlapped =>
        /\ ~overrun /\ store_count <= MAX_ENTRIES
        /\ \A e \in Live : \E k \in Keys : store[e].key = Whole(k)
        /\ \A d, e \in Live : store[d].key = store[e].key => d = e
        /\ \A k \in Keys : latest[k] # None =>
             \E e \in Live : /\ store[e].key = Whole(k)
                             /\ \A h \in {1, 2} : store[e].value[h] \in Now(k)
        /\ \A c \in Clients : Getting(c) /\ at[c] = "reply" => {answer[c][1], answer[c][2]} \subseteq since[c]
=============================================================================
