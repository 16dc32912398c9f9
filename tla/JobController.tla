---------------------------- MODULE JobController ----------------------------
(***************************************************************************)
(* The job controller of src/signal-based-job-controller.c: a process (0)  *)
(* that forks NUM_CHILDREN children and stops, resumes and terminates them *)
(* when it gets a signal.  The children inherit its handlers and its array *)
(* of pids as it is at that moment; an entry that is not set yet is 0, and *)
(* kill(0, ...) is for the whole process group.  Ctrl-C in the terminal    *)
(* goes to the group too.  A signal is blocked while its own handler runs, *)
(* the other two are not, so handlers nest.  fork does not fail.           *)
(***************************************************************************)
EXTENDS Integers, Sequences

CONSTANTS
    NUM_CHILDREN,
    MaxSignals      \* bound on the signals users send

VARIABLES
    status,         \* per process: none, running, stopped, dead or reaped
    children,       \* per process: its copy of the array
    forked,         \* children forked; the last one may not be stored yet
    pending,        \* per process: signals to deliver
    handlers,       \* per process: the handlers it is in, innermost first
    sent,           \* signals sent by users
    interrupted     \* history: a signal ended a waitpid of the controller

vars == <<status, children, forked, pending, handlers, sent, interrupted>>

Children  == 1..NUM_CHILDREN
Processes == 0..NUM_CHILDREN
Signals   == {"SIGINT", "SIGUSR1", "SIGTERM"}
Alive     == {p \in Processes : status[p] \in {"running", "stopped"}}
Stored    == {n \in Children : children[0][n] # 0}

Init ==
    /\ status = [p \in Processes |-> IF p = 0 THEN "running" ELSE "none"]
    /\ children = [p \in Processes |-> [n \in Children |-> 0]]
    /\ forked = 0
    /\ pending = [p \in Processes |-> {}]
    /\ handlers = [p \in Processes |-> <<>>]
    /\ sent = 0
    /\ interrupted = FALSE
-----------------------------------------------------------------------------
\* The loop of main; it goes on when no handler runs.
MainRuns == status[0] = "running" /\ handlers[0] = <<>>

Fork ==
    /\ MainRuns
    /\ forked < NUM_CHILDREN /\ forked \in Stored \cup {0}
    /\ forked' = forked + 1
    /\ status' = [status EXCEPT ![forked + 1] = "running"]
    /\ children' = [children EXCEPT ![forked + 1] = children[0]]
    /\ UNCHANGED <<pending, handlers, sent, interrupted>>

StorePid ==
    /\ MainRuns
    /\ forked \notin Stored \cup {0}
    /\ children' = [children EXCEPT ![0][forked] = forked]
    /\ UNCHANGED <<status, forked, pending, handlers, sent, interrupted>>

\* A signal for a set of processes: stopping and continuing take effect at
\* once, the others wait to be delivered.
Send(to, sig) ==
    /\ status' = [p \in Processes |->
                    IF p \notin to \cap Alive THEN status[p]
                    ELSE IF sig = "SIGSTOP" THEN "stopped"
                    ELSE IF sig = "SIGCONT" THEN "running"
                    ELSE status[p]]
    /\ pending' = [p \in Processes |->
                     IF p \in to \cap Alive /\ sig \in Signals THEN pending[p] \cup {sig}
                     ELSE pending[p]]

\* A user signals the controller or types Ctrl-C, or the shell continues the
\* job in the foreground.
UserSends ==
    /\ sent < MaxSignals
    /\ status[0] \in {"running", "stopped"}
    /\ sent' = sent + 1
    /\ \/ \E sig \in Signals : Send({0}, sig)
       \/ Send(Processes, "SIGINT")
       \/ Send(Processes, "SIGCONT")
    /\ UNCHANGED <<children, forked, handlers, interrupted>>

\* The processes kill(pid, ...) and waitpid(pid, ...) are for; the mutant
\* takes 0 for nobody.
NobodyForZero(pid) == {pid} \ {0}
Targets(pid)       == IF pid = 0 THEN Processes ELSE {pid}

\* Where the innermost handler is: its loops over the array, and past them.
Current(p)   == Head(handlers[p])
InHandler(p) == status[p] = "running" /\ handlers[p] # <<>>
Advance(p)   == [handlers[p] EXCEPT ![1].step = @ + 1]

InWaitpid(p) ==
    /\ InHandler(p) /\ Current(p).sig = "SIGTERM"
    /\ Current(p).step \in (NUM_CHILDREN + 1)..(2 * NUM_CHILDREN)

\* The children waitpid may wait for; the children have none themselves.
Awaited(p) ==
    {c \in Targets(children[p][Current(p).step - NUM_CHILDREN]) :
        p = 0 /\ c # 0 /\ status[c] \notin {"none", "reaped"}}

Blocked(p) == InWaitpid(p) /\ Awaited(p) # {} /\ \A c \in Awaited(p) : status[c] # "dead"

\* Delivery: the handler starts.  If that interrupts waitpid, the call fails
\* and the loop around it goes on.
Deliver(p, sig) ==
    /\ status[p] = "running"
    /\ sig \in pending[p]
    /\ \A n \in DOMAIN handlers[p] : handlers[p][n].sig # sig
    /\ pending' = [pending EXCEPT ![p] = @ \ {sig}]
    /\ \/ /\ handlers' = [handlers EXCEPT ![p] = <<[sig |-> sig, step |-> 1]>> \o @]
          /\ UNCHANGED interrupted
       \/ /\ Blocked(p)
          /\ handlers' = [handlers EXCEPT ![p] = <<[sig |-> sig, step |-> 1]>> \o Advance(p)]
          /\ interrupted' = TRUE
    /\ UNCHANGED <<status, children, forked, sent>>

\* What the three branches of handle_signal send.
Relayed == [SIGINT |-> "SIGSTOP", SIGUSR1 |-> "SIGCONT", SIGTERM |-> "SIGTERM"]

\* One iteration of the kill loop of a handler.
RelaySignal(p) ==
    /\ InHandler(p) /\ Current(p).step <= NUM_CHILDREN
    /\ Send(Targets(children[p][Current(p).step]), Relayed[Current(p).sig])
    /\ handlers' = [handlers EXCEPT ![p] = Advance(p)]
    /\ UNCHANGED <<children, forked, sent, interrupted>>

\* The handlers of SIGINT and SIGUSR1 return.
Return(p) ==
    /\ InHandler(p) /\ Current(p).sig # "SIGTERM" /\ Current(p).step > NUM_CHILDREN
    /\ handlers' = [handlers EXCEPT ![p] = Tail(@)]
    /\ UNCHANGED <<status, children, forked, pending, sent, interrupted>>

\* One iteration of the waitpid loop of the SIGTERM handler: a dead child is
\* reaped; without a child to wait for the call is an error and returns.
Wait(p) ==
    /\ InWaitpid(p)
    /\ \/ Awaited(p) = {} /\ UNCHANGED status
       \/ \E c \in Awaited(p) : status[c] = "dead" /\ status' = [status EXCEPT ![c] = "reaped"]
    /\ handlers' = [handlers EXCEPT ![p] = Advance(p)]
    /\ UNCHANGED <<children, forked, pending, sent, interrupted>>

\* exit(0) of the SIGTERM handler.  The end of the controller leaves the
\* group an orphan: if one of its processes is stopped, the kernel sends all
\* of them SIGHUP, which they do not catch, and SIGCONT.
Exit(p) ==
    LET orphans == IF p = 0 /\ \E c \in Children : status[c] = "stopped" THEN Alive ELSE {}
    IN  /\ InHandler(p) /\ Current(p).sig = "SIGTERM" /\ Current(p).step > 2 * NUM_CHILDREN
        /\ status' = [q \in Processes |-> IF q \in orphans \cup {p} THEN "dead" ELSE status[q]]
        /\ pending' = [q \in Processes |-> IF q \in orphans \cup {p} THEN {} ELSE pending[q]]
        /\ handlers' = [q \in Processes |-> IF q \in orphans \cup {p} THEN <<>> ELSE handlers[q]]
        /\ UNCHANGED <<children, forked, sent, interrupted>>

handle_signal(p) == RelaySignal(p) \/ Return(p) \/ Wait(p) \/ Exit(p)

Process(p) == handle_signal(p) \/ \E sig \in Signals : Deliver(p, sig)

Main == Fork \/ StorePid

Next == Main \/ UserSends \/ \E p \in Processes : Process(p)

-----------------------------------------------------------------------------
TypeOK ==
    /\ status \in [Processes -> {"none", "running", "stopped", "dead", "reaped"}]
    /\ children \in [Processes -> [Children -> Processes]]
    /\ pending \in [Processes -> SUBSET Signals]
    /\ forked \in 0..NUM_CHILDREN

Terminating(p) ==
    \/ status[p] \in {"none", "dead", "reaped"}
    \/ "SIGTERM" \in pending[p]
    \/ \E n \in DOMAIN handlers[p] : handlers[p][n].sig = "SIGTERM"

AllGone == Alive = {}

\* A controller that was told to end has done so, with its children, unless
\* one of them is stopped.
Obeyed == Terminating(0) => AllGone \/ \E p \in Processes : status[p] = "stopped"

\* SIGTERM for the controller reaches every child, also one whose pid is not
\* in the array yet (lines 43-46, 73, 82); and the controller does not leave
\* before they are dead (lines 48-53) unless another signal ended a waitpid.
TermReachesAll ==
    /\ \A n \in DOMAIN handlers[0] :
         handlers[0][n].sig = "SIGTERM" /\ handlers[0][n].step > NUM_CHILDREN
           => \A c \in Children : Terminating(c)
    /\ status[0] = "dead" => \A c \in Children : Terminating(c)
    /\ status[0] = "dead" /\ ~interrupted => AllGone
=============================================================================
