---------------------------- MODULE ServersProofs ----------------------------
(***************************************************************************)
(* Proofs about the servers of the module MCPrograms (the key-value        *)
(* servers, the echo server and the chat server), for every value of the   *)
(* constants.                                                              *)
(***************************************************************************)
EXTENDS MCPrograms, SequenceTheorems, FiniteSetTheorems, NaturalsInduction,
        WellFoundedInduction, TLAPS

\* A step of the collection is a step of each program, or leaves it alone.
LEMMA OneProgramMoves ==
  ASSUME [Next]_vars
  PROVE  /\ [Simulator!Next]_pageVars
         /\ [RBTree!Next]_treeVars
         /\ [KV!Next]_kvVars
         /\ [Chat!Next]_chatVars
         /\ [EchoSrv!Next]_echoVars
         /\ [HashMap!Next]_hashVars
         /\ [Stack!Next]_condVars
         /\ [Memory!Next]_logVars
         /\ [Threaded!Next]_threadVars
         /\ [Students!Next]_studentVars
  BY DEF Next, vars
-----------------------------------------------------------------------------
\* A set of natural numbers has a least one, and Min returns it.
LEMMA LeastNat ==
  ASSUME NEW T, T \subseteq Nat, T # {}
  PROVE  \E m \in T : \A k \in T : m <= k
  <1> DEFINE R == OpToRel(<, Nat)
  <1>1. \A x, y \in Nat : <<x, y>> \in R <=> x < y
    BY DEF OpToRel
  <1>2. IsWellFoundedOn(R, Nat)
    BY NatLessThanWellFounded
  <1> HIDE DEF R
  <1>3. PICK x \in T : \A y \in T : ~(<<y, x>> \in R)
    BY <1>2, WFMin
  <1>4. ASSUME NEW k \in T PROVE x <= k
    <2>1. x \in Nat /\ k \in Nat
      OBVIOUS
    <2>2. ~(k < x)
      BY <2>1, <1>1, <1>3, <1>4
    <2> QED
      BY <2>1, <2>2
  <1> QED
    BY <1>4

LEMMA ChosenLeast ==
  ASSUME NEW T, T \subseteq Nat, T # {}
  PROVE  LET m == CHOOSE x \in T : \A y \in T : x =< y
         IN  m \in T /\ \A k \in T : m =< k
  <1>1. \E x \in T : \A y \in T : x =< y
    BY LeastNat
  <1> QED
    BY <1>1
-----------------------------------------------------------------------------
(***************************************************************************)
(* The echo server of src/multi-client-echo.                               *)
(***************************************************************************)
EchoSizes == MAX_CLIENTS \in Nat \ {0} /\ None \notin Clients

EchoTypes ==
    /\ clients \in [EchoSrv!Slots -> Clients \cup {None}]
    /\ queued \in Seq(Clients)
    /\ turns \subseteq EchoSrv!Slots
    /\ prompt \in [Clients -> {"new", "typing", "reading", "gone"}]
    /\ sentOut \in [Clients -> Nat]
    /\ echoed \in [Clients -> Nat]

InQueue(c) == \E q \in DOMAIN queued : queued[q] = c
InTable(c) == \E s \in EchoSrv!Slots : clients[s] = c

\* A user has one line on the way at most, and only while it waits or after
\* it has left; nothing more comes from a user the server has written to in
\* vain.
Lockstep ==
    \A c \in Clients :
        /\ prompt[c] \in {"new", "typing"} => sentOut[c] = 0 /\ echoed[c] = 0
        /\ prompt[c] = "reading" => sentOut[c] + echoed[c] = 1
        /\ prompt[c] = "gone" => sentOut[c] <= 1
        /\ c \in lost => prompt[c] = "gone" /\ sentOut[c] = 0

\* A connection is in one place.
OnePlace ==
    /\ \A s, t \in EchoSrv!Slots : clients[s] # None /\ clients[s] = clients[t] => s = t
    /\ \A q, r \in DOMAIN queued : queued[q] = queued[r] => q = r
    /\ \A q \in DOMAIN queued : ~InTable(queued[q])
    /\ \A c \in Clients : prompt[c] = "new" => ~InQueue(c) /\ ~InTable(c)

\* A slot of the round has something to read, still.
TurnsReadable ==
    \A s \in turns :
        clients[s] \in Clients /\ (sentOut[clients[s]] > 0 \/ prompt[clients[s]] = "gone")

\* The connection of a user that has not left is somewhere.
Connected ==
    \A c \in Clients : prompt[c] \in {"typing", "reading"} => InQueue(c) \/ InTable(c) \/ c \in refused

EchoInv == EchoTypes /\ alive /\ Lockstep /\ OnePlace /\ TurnsReadable /\ Connected

LEMMA EchoStarts ==
  ASSUME EchoSizes, EchoSrv!Init
  PROVE  EchoInv
  <1>1. EchoTypes
    BY DEF EchoTypes, EchoSrv!Init
  <1>2. queued = <<>> /\ \A s \in EchoSrv!Slots : clients[s] = None
    BY DEF EchoSrv!Init
  <1>3. Lockstep /\ TurnsReadable /\ Connected
    BY DEF Lockstep, TurnsReadable, Connected, EchoSrv!Init
  <1>4. OnePlace
    BY <1>2 DEF OnePlace, InQueue, InTable, EchoSizes
  <1> QED
    BY <1>1, <1>3, <1>4 DEF EchoInv, EchoSrv!Init

\* What the users do.
LEMMA EchoConnects ==
  ASSUME EchoSizes, EchoInv, NEW c \in Clients, EchoSrv!Connect(c)
  PROVE  EchoInv'
  <1>1. EchoTypes'
    BY DEF EchoInv, EchoTypes, EchoSrv!Connect
  <1>2. /\ clients' = clients /\ turns' = turns /\ sentOut' = sentOut /\ echoed' = echoed
        /\ lost' = lost /\ alive' = alive /\ refused' = refused
        /\ prompt' = [prompt EXCEPT ![c] = "typing"] /\ prompt[c] = "new"
        /\ queued' = Append(queued, c)
    BY DEF EchoSrv!Connect
  <1>3. /\ queued \in Seq(Clients) /\ Len(queued) \in Nat /\ DOMAIN queued = 1..Len(queued)
        /\ DOMAIN queued' = 1..(Len(queued) + 1)
        /\ \A q \in DOMAIN queued : queued'[q] = queued[q]
        /\ queued'[Len(queued) + 1] = c
    BY <1>2 DEF EchoInv, EchoTypes
  <1>4. ~InQueue(c) /\ ~InTable(c)
    BY <1>2 DEF EchoInv, OnePlace
  <1>5. \A d \in Clients : (InQueue(d)' <=> InQueue(d) \/ d = c) /\ (InTable(d)' <=> InTable(d))
    BY <1>2, <1>3 DEF InQueue, InTable
  <1>6. \A d \in Clients : prompt'[d] = IF d = c THEN "typing" ELSE prompt[d]
    BY <1>2 DEF EchoInv, EchoTypes
  <1>7. Lockstep'
    BY <1>2, <1>6 DEF EchoInv, Lockstep
  <1>8. OnePlace'
    <2>1. \A q \in DOMAIN queued' : q \in DOMAIN queued \/ q = Len(queued) + 1
      BY <1>3
    <2>2. \A q, r \in DOMAIN queued' : queued'[q] = queued'[r] => q = r
      BY <2>1, <1>3, <1>4 DEF EchoInv, OnePlace, InQueue
    <2>3. \A q \in DOMAIN queued' : queued'[q] \in Clients /\ ~InTable(queued'[q])
      <3>1. \A q \in DOMAIN queued : queued[q] \in Clients /\ ~InTable(queued[q])
        BY <1>3 DEF EchoInv, OnePlace
      <3> QED
        BY <2>1, <1>3, <1>4, <3>1
    <2>4. \A q \in DOMAIN queued' : ~InTable(queued[q])'
      BY <2>3, <1>2 DEF InTable
    <2>5. \A d \in Clients : prompt'[d] = "new" => ~InQueue(d)' /\ ~InTable(d)'
      BY <1>5, <1>6 DEF EchoInv, OnePlace
    <2> QED
      BY <2>2, <2>4, <2>5, <1>2 DEF EchoInv, OnePlace
  <1>9. TurnsReadable'
    BY <1>2, <1>6 DEF EchoInv, TurnsReadable
  <1>10. Connected'
    BY <1>2, <1>5, <1>6 DEF EchoInv, Connected
  <1> QED
    BY <1>1, <1>2, <1>7, <1>8, <1>9, <1>10 DEF EchoInv

LEMMA EchoUsers ==
  ASSUME EchoSizes, EchoInv, NEW c \in Clients,
         EchoSrv!SendLine(c) \/ EchoSrv!ReadEcho(c) \/ EchoSrv!Quit(c)
  PROVE  EchoInv'
  <1>1. EchoTypes'
    <2>1. CASE EchoSrv!SendLine(c)
      BY <2>1 DEF EchoInv, EchoTypes, EchoSrv!SendLine
    <2>2. CASE EchoSrv!ReadEcho(c)
      BY <2>2 DEF EchoInv, EchoTypes, EchoSrv!ReadEcho
    <2>3. CASE EchoSrv!Quit(c)
      BY <2>3 DEF EchoInv, EchoTypes, EchoSrv!Quit
    <2> QED
      BY <2>1, <2>2, <2>3
  <1>2. /\ clients' = clients /\ turns' = turns /\ lost' = lost /\ alive' = alive
        /\ refused' = refused /\ queued' = queued
        /\ prompt[c] \in {"typing", "reading"}
        /\ \A d \in Clients \ {c} : prompt'[d] = prompt[d] /\ sentOut'[d] = sentOut[d] /\ echoed'[d] = echoed[d]
    BY DEF EchoInv, EchoTypes, EchoSrv!SendLine, EchoSrv!AtPrompt, EchoSrv!ReadEcho, EchoSrv!Quit
  <1>3. prompt'[c] # "new" /\ sentOut[c] \in Nat /\ sentOut'[c] \in Nat /\ sentOut'[c] >= sentOut[c]
    <2>1. CASE EchoSrv!SendLine(c)
      BY <2>1 DEF EchoInv, EchoTypes, EchoSrv!SendLine
    <2>2. CASE EchoSrv!ReadEcho(c)
      BY <2>2 DEF EchoInv, EchoTypes, EchoSrv!ReadEcho
    <2>3. CASE EchoSrv!Quit(c)
      BY <2>3 DEF EchoInv, EchoTypes, EchoSrv!Quit
    <2> QED
      BY <2>1, <2>2, <2>3
  <1>4. Lockstep'
    <2>1. /\ c \notin lost
          /\ prompt'[c] \in {"new", "typing"} => sentOut'[c] = 0 /\ echoed'[c] = 0
          /\ prompt'[c] = "reading" => sentOut'[c] + echoed'[c] = 1
          /\ prompt'[c] = "gone" => sentOut'[c] <= 1
      <3>1. CASE EchoSrv!SendLine(c)
        BY <3>1 DEF EchoInv, EchoTypes, Lockstep, EchoSrv!SendLine, EchoSrv!AtPrompt
      <3>2. CASE EchoSrv!ReadEcho(c)
        BY <3>2 DEF EchoInv, EchoTypes, Lockstep, EchoSrv!ReadEcho
      <3>3. CASE EchoSrv!Quit(c)
        BY <3>3 DEF EchoInv, EchoTypes, Lockstep, EchoSrv!Quit
      <3> QED
        BY <3>1, <3>2, <3>3
    <2> QED
      BY <1>2, <2>1 DEF EchoInv, Lockstep
  <1>5. OnePlace'
    BY <1>2, <1>3 DEF EchoInv, OnePlace, InQueue, InTable
  <1>6. TurnsReadable'
    <2>1. \A d \in Clients : sentOut[d] > 0 \/ prompt[d] = "gone" => sentOut'[d] > 0 \/ prompt'[d] = "gone"
      BY <1>2, <1>3
    <2> QED
      BY <1>2, <2>1 DEF EchoInv, TurnsReadable
  <1>7. Connected'
    BY <1>2 DEF EchoInv, Connected, InQueue, InTable
  <1> QED
    BY <1>1, <1>2, <1>4, <1>5, <1>6, <1>7 DEF EchoInv

\* The next slot of the round, and the first free one.
LEMMA EchoTurn ==
  ASSUME EchoSizes, EchoInv, turns # {}
  PROVE  EchoSrv!Turn \in turns /\ EchoSrv!Turn \in EchoSrv!Slots
  <1>1. turns \subseteq Nat
    BY DEF EchoInv, EchoTypes, EchoSrv!Slots
  <1>2. EchoSrv!Turn = CHOOSE x \in turns : \A y \in turns : x =< y
    BY DEF EchoSrv!Turn, EchoSrv!Min
  <1>3. EchoSrv!Turn \in turns
    BY <1>1, <1>2, ChosenLeast
  <1> QED
    BY <1>3 DEF EchoInv, EchoTypes

LEMMA EchoFree ==
  ASSUME EchoSizes, EchoSrv!FreeSlots # {}
  PROVE  EchoSrv!Min(EchoSrv!FreeSlots) \in EchoSrv!FreeSlots
  <1>1. EchoSrv!FreeSlots \subseteq Nat
    BY DEF EchoSrv!FreeSlots, EchoSrv!Slots
  <1> QED
    BY <1>1, ChosenLeast DEF EchoSrv!Min

LEMMA EchoSelects ==
  ASSUME EchoSizes, EchoInv, EchoSrv!Select
  PROVE  EchoInv'
  <1>1. /\ turns' = EchoSrv!Readable /\ alive' = alive /\ prompt' = prompt /\ sentOut' = sentOut
        /\ echoed' = echoed /\ lost' = lost
    BY DEF EchoSrv!Select
  <1>2. Lockstep'
    BY <1>1 DEF EchoInv, Lockstep
  <1>3. \A s \in EchoSrv!Readable : s \in EchoSrv!Slots /\ clients[s] \in Clients
           /\ (sentOut[clients[s]] > 0 \/ prompt[clients[s]] = "gone")
    BY DEF EchoInv, EchoTypes, EchoSrv!Readable
  <1>4. CASE UNCHANGED <<queued, clients, refused>>
    <2>1. queued' = queued /\ clients' = clients /\ refused' = refused
      BY <1>4
    <2>2. EchoTypes' /\ TurnsReadable'
      BY <1>1, <1>3, <2>1 DEF EchoInv, EchoTypes, TurnsReadable
    <2>3. OnePlace' /\ Connected'
      BY <1>1, <2>1 DEF EchoInv, OnePlace, Connected, InQueue, InTable
    <2> QED
      BY <1>1, <1>2, <2>2, <2>3 DEF EchoInv
  <1>5. CASE EchoSrv!AcceptOne
    <2>0. queued # <<>>
      BY <1>5 DEF EchoSrv!AcceptOne
    <2>1. PICK c : c = Head(queued)
      OBVIOUS
    <2>2. /\ queued \in Seq(Clients) /\ Len(queued) \in Nat /\ Len(queued) >= 1
          /\ DOMAIN queued = 1..Len(queued) /\ c = queued[1] /\ c \in Clients
      BY <2>0, <2>1 DEF EchoInv, EchoTypes
    <2>3. queued' = Tail(queued)
      BY <1>5 DEF EchoSrv!AcceptOne
    <2>4. /\ queued' \in Seq(Clients) /\ DOMAIN queued' = 1..(Len(queued) - 1)
          /\ \A q \in DOMAIN queued' : queued'[q] = queued[q + 1]
      BY <2>0, <2>2, <2>3
    <2>5. \A q \in DOMAIN queued' : q + 1 \in DOMAIN queued /\ q + 1 # 1 /\ q \in Nat
      BY <2>2, <2>4
    <2>6. \A d \in Clients : InQueue(d) <=> (InQueue(d)' \/ d = c)
      <3>1. \A q \in DOMAIN queued : q = 1 \/ (q - 1 \in DOMAIN queued' /\ (q - 1) + 1 = q)
        BY <2>2, <2>4
      <3> QED
        BY <2>2, <2>4, <2>5, <3>1 DEF InQueue
    <2>7. ~InQueue(c)' /\ ~InTable(c) /\ prompt[c] # "new"
      <3>1. \A q \in DOMAIN queued' : queued'[q] # c
        BY <2>2, <2>4, <2>5 DEF EchoInv, OnePlace
      <3>2. ~InTable(c) /\ InQueue(c)
        BY <2>2 DEF EchoInv, OnePlace, InQueue
      <3> QED
        BY <2>2, <3>1, <3>2 DEF EchoInv, OnePlace, InQueue
    <2>8. \A q, r \in DOMAIN queued' : queued'[q] = queued'[r] => q = r
      <3>1. \A q, r \in DOMAIN queued' : q + 1 = r + 1 => q = r
        BY <2>5
      <3> QED
        BY <2>4, <2>5, <3>1 DEF EchoInv, OnePlace
    <2>9. \A q \in DOMAIN queued' : queued'[q] # c /\ ~InTable(queued'[q])
      BY <2>4, <2>5, <2>7 DEF EchoInv, OnePlace, InQueue
    <2>10. CASE EchoSrv!FreeSlots = {}
      <3>1. clients' = clients /\ refused' = refused \cup {c}
        BY <1>5, <2>1, <2>10 DEF EchoSrv!AcceptOne
      <3>2. EchoTypes' /\ TurnsReadable'
        BY <1>1, <1>3, <2>4, <3>1 DEF EchoInv, EchoTypes, TurnsReadable
      <3>3. \A d : InTable(d)' <=> InTable(d)
        BY <3>1 DEF InTable
      <3>4. OnePlace'
        <4>1. \A q \in DOMAIN queued' : ~InTable(queued[q])'
          BY <2>9, <3>1 DEF InTable
        <4>2. \A d \in Clients : prompt'[d] = "new" => ~InQueue(d)' /\ ~InTable(d)'
          BY <1>1, <2>6, <3>3 DEF EchoInv, OnePlace
        <4> QED
          BY <2>8, <3>1, <4>1, <4>2 DEF EchoInv, OnePlace
      <3>5. Connected'
        BY <1>1, <2>6, <3>1, <3>3 DEF EchoInv, Connected
      <3> QED
        BY <1>1, <1>2, <3>2, <3>4, <3>5 DEF EchoInv
    <2>11. CASE EchoSrv!FreeSlots # {}
      <3>1. PICK f : f = EchoSrv!Min(EchoSrv!FreeSlots)
        OBVIOUS
      <3>2. f \in EchoSrv!Slots /\ clients[f] = None
        BY <2>11, <3>1, EchoFree DEF EchoSrv!FreeSlots
      <3>3. clients' = [clients EXCEPT ![f] = c] /\ refused' = refused
        BY <1>5, <2>1, <2>11, <3>1 DEF EchoSrv!AcceptOne
      <3>4. \A s \in EchoSrv!Slots : clients'[s] = IF s = f THEN c ELSE clients[s]
        BY <3>2, <3>3 DEF EchoInv, EchoTypes
      <3>5. EchoTypes'
        BY <1>1, <1>3, <2>2, <2>4, <3>2, <3>3 DEF EchoInv, EchoTypes
      <3>6. TurnsReadable'
        <4>1. ASSUME NEW s \in EchoSrv!Readable
              PROVE  clients'[s] \in Clients
                       /\ (sentOut[clients'[s]] > 0 \/ prompt[clients'[s]] = "gone")
          <5>1. s # f
            BY <1>3, <3>2 DEF EchoSizes
          <5> QED
            BY <1>3, <3>4, <5>1
        <4> QED
          BY <1>1, <4>1 DEF TurnsReadable
      <3>7. \A d : d # None => (InTable(d)' <=> (InTable(d) \/ d = c))
        BY <3>2, <3>4 DEF InTable
      <3>8. OnePlace'
        <4>1. \A s, t \in EchoSrv!Slots : clients'[s] # None /\ clients'[s] = clients'[t] => s = t
          BY <2>7, <3>2, <3>4 DEF EchoInv, OnePlace, InTable
        <4>2. ASSUME NEW q \in DOMAIN queued' PROVE ~InTable(queued[q])'
          <5>1. PICK d : d = queued'[q]
            OBVIOUS
          <5>2. d # c /\ ~InTable(d) /\ d # None
            BY <2>4, <2>9, <5>1 DEF EchoSizes
          <5>3. ~InTable(d)'
            BY <3>7, <5>2
          <5> QED
            BY <5>1, <5>3 DEF InTable
        <4>3. \A d \in Clients : prompt'[d] = "new" => ~InQueue(d)' /\ ~InTable(d)'
          BY <1>1, <2>6, <2>7, <3>7 DEF EchoInv, OnePlace, EchoSizes
        <4> QED
          BY <2>8, <4>1, <4>2, <4>3 DEF OnePlace
      <3>9. Connected'
        BY <1>1, <2>6, <3>3, <3>7 DEF EchoInv, Connected, EchoSizes
      <3> QED
        BY <1>1, <1>2, <3>5, <3>6, <3>8, <3>9 DEF EchoInv
    <2> QED
      BY <2>10, <2>11
  <1> QED
    BY <1>4, <1>5 DEF EchoSrv!Select, EchoSrv!AcceptFails

LEMMA EchoEchoes ==
  ASSUME EchoSizes, EchoInv, EchoSrv!Echo
  PROVE  EchoInv'
  <1>1. PICK t, c : t = EchoSrv!Turn /\ c = clients[t]
    OBVIOUS
  <1>2. t \in turns /\ t \in EchoSrv!Slots /\ c \in Clients
    BY <1>1, EchoTurn DEF EchoSrv!Echo, EchoInv, TurnsReadable
  <1>3. /\ sentOut[c] > 0
        /\ sentOut' = [sentOut EXCEPT ![c] = @ - 1]
        /\ alive' = ~(c \in lost)
        /\ echoed' = IF prompt[c] = "gone" THEN echoed ELSE [echoed EXCEPT ![c] = @ + 1]
        /\ lost' = IF prompt[c] = "gone" THEN lost \cup {c} ELSE lost
        /\ turns' = turns \ {t}
        /\ clients' = clients /\ queued' = queued /\ prompt' = prompt /\ refused' = refused
    BY <1>1 DEF EchoSrv!Echo
  <1>4. c \notin lost /\ sentOut[c] = 1 /\ prompt[c] \in {"reading", "gone"}
    BY <1>2, <1>3 DEF EchoInv, EchoTypes, Lockstep
  <1>5. EchoTypes'
    BY <1>2, <1>3, <1>4 DEF EchoInv, EchoTypes
  <1>6. \A d \in Clients : sentOut'[d] = IF d = c THEN 0 ELSE sentOut[d]
    BY <1>2, <1>3, <1>4 DEF EchoInv, EchoTypes
  <1>7. \A d \in Clients :
           echoed'[d] = IF d = c /\ prompt[c] # "gone" THEN echoed[d] + 1 ELSE echoed[d]
    BY <1>2, <1>3 DEF EchoInv, EchoTypes
  <1>8. Lockstep'
    <2>1. echoed[c] \in Nat /\ (prompt[c] = "reading" => echoed[c] = 0)
      BY <1>2, <1>4 DEF EchoInv, EchoTypes, Lockstep
    <2> QED
      BY <1>2, <1>3, <1>4, <1>6, <1>7, <2>1 DEF EchoInv, Lockstep
  <1>9. OnePlace' /\ Connected'
    BY <1>3 DEF EchoInv, OnePlace, Connected, InQueue, InTable
  <1>10. TurnsReadable'
    <2>1. ASSUME NEW s \in turns' PROVE clients[s] \in Clients /\ clients[s] # c
      BY <1>1, <1>2, <1>3, <2>1 DEF EchoInv, EchoTypes, OnePlace, TurnsReadable, EchoSizes
    <2> QED
      BY <1>3, <1>6, <2>1 DEF EchoInv, TurnsReadable
  <1> QED
    BY <1>3, <1>4, <1>5, <1>8, <1>9, <1>10 DEF EchoInv

LEMMA EchoCloses ==
  ASSUME EchoSizes, EchoInv, EchoSrv!CloseSlot
  PROVE  EchoInv'
  <1>1. PICK t, c : t = EchoSrv!Turn /\ c = clients[t]
    OBVIOUS
  <1>2. t \in turns /\ t \in EchoSrv!Slots /\ c \in Clients
    BY <1>1, EchoTurn DEF EchoSrv!CloseSlot, EchoInv, TurnsReadable
  <1>3. /\ clients' = [clients EXCEPT ![t] = None] /\ turns' = turns \ {t} /\ sentOut[c] = 0
        /\ alive' = alive /\ queued' = queued /\ prompt' = prompt /\ sentOut' = sentOut
        /\ echoed' = echoed /\ refused' = refused /\ lost' = lost
    BY <1>1 DEF EchoSrv!CloseSlot, EchoSrv!TurnCleared
  <1>4. prompt[c] = "gone"
    BY <1>1, <1>2, <1>3 DEF EchoInv, TurnsReadable
  <1>5. \A s \in EchoSrv!Slots : clients'[s] = IF s = t THEN None ELSE clients[s]
    BY <1>2, <1>3 DEF EchoInv, EchoTypes
  <1>6. EchoTypes'
    BY <1>3 DEF EchoInv, EchoTypes
  <1>7. Lockstep'
    BY <1>3 DEF EchoInv, Lockstep
  <1>8. \A d \in Clients : InTable(d)' <=> InTable(d) /\ d # c
    <2>1. \A d \in Clients : d # None
      BY DEF EchoSizes
    <2>2. \A s \in EchoSrv!Slots : clients[s] = c => s = t
      BY <1>1, <1>2, <2>1 DEF EchoInv, OnePlace
    <2> QED
      BY <1>1, <1>2, <1>5, <2>1, <2>2 DEF InTable
  <1>9. OnePlace'
    <2>1. \A q \in DOMAIN queued : queued[q] \in Clients
      BY DEF EchoInv, EchoTypes
    <2>2. \A s, u \in EchoSrv!Slots : clients'[s] # None /\ clients'[s] = clients'[u] => s = u
      BY <1>5 DEF EchoInv, OnePlace
    <2>3. \A q \in DOMAIN queued' : ~InTable(queued[q])'
      <3> SUFFICES ASSUME NEW q \in DOMAIN queued' PROVE ~InTable(queued[q])'
        OBVIOUS
      <3>1. PICK d : d = queued[q]
        OBVIOUS
      <3>2. d \in Clients /\ ~InTable(d)
        BY <1>3, <2>1, <3>1 DEF EchoInv, OnePlace
      <3>3. ~InTable(d)'
        BY <1>8, <3>2
      <3> QED
        BY <1>3, <3>1, <3>3 DEF InTable
    <2>4. \A d \in Clients : InQueue(d)' <=> InQueue(d)
      BY <1>3 DEF InQueue
    <2> QED
      BY <1>3, <1>8, <2>2, <2>3, <2>4 DEF EchoInv, OnePlace
  <1>10. TurnsReadable'
    BY <1>3, <1>5 DEF EchoInv, EchoTypes, TurnsReadable
  <1>11. Connected'
    BY <1>3, <1>4, <1>8 DEF EchoInv, Connected, InQueue
  <1> QED
    BY <1>3, <1>6, <1>7, <1>9, <1>10, <1>11 DEF EchoInv

LEMMA EchoInvariance == Spec => []EchoInv
  <1>1. EchoSizes
    BY ConstantsAssumption DEF EchoSizes
  <1>2. Init => EchoInv
    BY <1>1, EchoStarts DEF Init
  <1>3. EchoInv /\ [Next]_vars => EchoInv'
    <2> SUFFICES ASSUME EchoInv, [Next]_vars PROVE EchoInv'
      OBVIOUS
    <2>1. CASE UNCHANGED echoVars
      <3>1. EchoTypes' /\ alive' /\ Lockstep' /\ TurnsReadable'
        BY <2>1 DEF echoVars, EchoInv, EchoTypes, Lockstep, TurnsReadable
      <3>2. OnePlace' /\ Connected'
        BY <2>1 DEF echoVars, EchoInv, OnePlace, Connected, InQueue, InTable
      <3> QED
        BY <3>1, <3>2 DEF EchoInv
    <2>2. CASE EchoSrv!Next
      BY <1>1, <2>2, EchoConnects, EchoUsers, EchoSelects, EchoEchoes, EchoCloses
         DEF EchoSrv!Next, EchoSrv!Server
    <2> QED
      BY <2>1, <2>2, OneProgramMoves
  <1> QED
    BY <1>2, <1>3, PTL DEF Spec

\* No client can end the echo server, and one that waits has its line under
\* way, for every number of users and slots.
THEOREM EchoIsOrderly == Spec => []EchoOrderly
  <1>1. EchoInv => EchoOrderly
    <2> SUFFICES ASSUME EchoInv, NEW c \in Clients, prompt[c] = "reading"
                 PROVE  /\ sentOut[c] + echoed[c] = 1
                        /\ c \in EchoSrv!Range(queued) \/ c \in EchoSrv!Range(clients) \/ c \in refused
      BY DEF EchoInv, EchoOrderly, EchoSrv!SurvivesClients, EchoSrv!OneLineUnderWay
    <2>1. sentOut[c] + echoed[c] = 1 /\ (InQueue(c) \/ InTable(c) \/ c \in refused)
      BY DEF EchoInv, Lockstep, Connected
    <2>2. InQueue(c) => c \in EchoSrv!Range(queued)
      BY DEF EchoInv, EchoTypes, InQueue, EchoSrv!Range
    <2>3. InTable(c) => c \in EchoSrv!Range(clients)
      BY DEF EchoInv, EchoTypes, InTable, EchoSrv!Range
    <2> QED
      BY <2>1, <2>2, <2>3
  <1> QED
    BY <1>1, EchoInvariance, PTL
-----------------------------------------------------------------------------
(***************************************************************************)
(* The key-value server of src/key-value/server.c.                         *)
(***************************************************************************)
KVSizes == MAX_ENTRIES \in Nat /\ None \notin Clients \cup Values \cup KV!Commands

InBacklog(c) == \E q \in DOMAIN backlog : backlog[q] = c

\* A connection that the server has not closed is in its queue or in its
\* hand, and nothing is taken from it or answered before it is closed.
OpenIsKnown ==
    \A c \in Clients :
        /\ client[c] \in {"prompt", "waiting", "muted"} /\ ~closed[c] =>
             /\ up /\ (serving = c \/ InBacklog(c))
             /\ client[c] = "waiting" => inbox[c] # None
        /\ reply[c] # None => closed[c]

KVEntry == [key : Keys, value : Values]

\* The table has an entry per key at most, and not too many.
StoreInv ==
    /\ store \in Seq(KVEntry)
    /\ Len(store) <= MAX_ENTRIES
    /\ \A e, f \in DOMAIN store : store[e].key = store[f].key => e = f

KVInv ==
    /\ StoreInv
    /\ backlog \in Seq(Clients)
    /\ client \in [Clients -> {"new", "prompt", "waiting", "muted", "gone"}]
    /\ inbox \in [Clients -> KV!Commands \cup {None}]
    /\ DOMAIN reply = Clients
    /\ closed \in [Clients -> BOOLEAN]
    /\ OpenIsKnown

\* kv_get finds the entry of a key, if there is one.
MapRight ==
    \A k \in Keys :
        /\ \A e \in DOMAIN store :
             store[e].key = k => KV!Find(k) = e /\ KV!kv_get(k) = store[e].value
                                   /\ KV!kv_get(k) # None
        /\ (\A e \in DOMAIN store : store[e].key # k) => KV!Find(k) = 0 /\ KV!kv_get(k) = None

LEMMA StoreIsMap == KVSizes /\ StoreInv => MapRight
  <1> SUFFICES ASSUME KVSizes, StoreInv, NEW k \in Keys
               PROVE  /\ \A e \in DOMAIN store :
                           store[e].key = k => KV!Find(k) = e /\ KV!kv_get(k) = store[e].value
                                                 /\ KV!kv_get(k) # None
                      /\ (\A e \in DOMAIN store : store[e].key # k) =>
                            KV!Find(k) = 0 /\ KV!kv_get(k) = None
    BY DEF MapRight
  <1> DEFINE I == {e \in 1..Len(store) : store[e].key = k}
  <1>1. KV!Find(k) = IF I # {} THEN CHOOSE x \in I : \A y \in I : x =< y ELSE 0
    BY Zenon DEF KV!Find, KV!SelectInSeq, KV!Min
  <1>2. /\ DOMAIN store = 1..Len(store) /\ Len(store) \in Nat
        /\ \A e \in DOMAIN store : store[e] \in KVEntry
    BY DEF StoreInv
  <1>3. \A e \in DOMAIN store : store[e].value # None /\ e # 0
    BY <1>2 DEF KVSizes, KVEntry
  <1>4. ASSUME NEW e \in DOMAIN store, store[e].key = k
        PROVE  KV!Find(k) = e /\ KV!kv_get(k) = store[e].value /\ KV!kv_get(k) # None
    <2>1. I \subseteq Nat /\ e \in I /\ \A f \in I : f = e
      BY <1>2, <1>4 DEF StoreInv
    <2> HIDE DEF I
    <2>2. (CHOOSE x \in I : \A y \in I : x =< y) \in I
      BY <2>1, ChosenLeast
    <2>3. KV!Find(k) = e
      BY <1>1, <2>1, <2>2
    <2> QED
      BY <1>3, <2>3 DEF KV!kv_get
  <1>5. ASSUME \A e \in DOMAIN store : store[e].key # k
        PROVE  KV!Find(k) = 0 /\ KV!kv_get(k) = None
    <2>1. I = {}
      BY <1>2, <1>5
    <2> QED
      BY <1>1, <2>1 DEF KV!kv_get
  <1> QED
    BY <1>4, <1>5

\* What kv_set makes of the table.
LEMMA SetKeeps ==
  ASSUME KVSizes, StoreInv, NEW k \in Keys, NEW v \in Values, store' = KV!kv_set(k, v)
  PROVE  /\ StoreInv'
         /\ \A j \in Keys : (KV!kv_get(j))' =
              IF j = k /\ (KV!kv_get(k) # None \/ Len(store) < MAX_ENTRIES) THEN v ELSE KV!kv_get(j)
  <1>1. MapRight
    BY StoreIsMap
  <1>2. /\ DOMAIN store = 1..Len(store) /\ Len(store) \in Nat
        /\ \A e \in DOMAIN store : store[e] \in KVEntry
        /\ store \in Seq(KVEntry)
    BY DEF StoreInv
  <1> DEFINE Has(j) == \E e \in DOMAIN store : store[e].key = j
  <1>3. v # None
    BY DEF KVSizes
  <1>4. CASE Has(k)
    <2>1. PICK e \in DOMAIN store : store[e].key = k
      BY <1>4
    <2>2. KV!Find(k) = e /\ KV!kv_get(k) # None /\ e # 0
      BY <1>1, <1>2, <2>1 DEF MapRight
    <2>3. store' = [store EXCEPT ![e].value = v]
      BY <2>2 DEF KV!kv_set
    <2>4. /\ store' \in Seq(KVEntry) /\ Len(store') = Len(store)
          /\ DOMAIN store' = DOMAIN store
      <3>1. store' = [store EXCEPT ![e] = [store[e] EXCEPT !.value = v]]
        BY <2>3
      <3>2. [store[e] EXCEPT !.value = v] \in KVEntry
        BY <1>2, <2>1 DEF KVEntry
      <3> QED
        BY <1>2, <2>1, <3>1, <3>2
    <2>5. \A f \in DOMAIN store : /\ store'[f].key = store[f].key
                                  /\ store'[f].value = IF f = e THEN v ELSE store[f].value
      BY <1>2, <2>1, <2>3 DEF KVEntry
    <2>6. StoreInv'
      BY <2>4, <2>5 DEF StoreInv
    <2>7. MapRight'
      BY <2>6, StoreIsMap, PTL DEF KVSizes
    <2> QED
      BY <1>1, <2>1, <2>2, <2>4, <2>5, <2>6, <2>7 DEF MapRight, StoreInv
  <1>5. CASE ~Has(k) /\ Len(store) < MAX_ENTRIES
    <2>1. KV!Find(k) = 0 /\ KV!kv_get(k) = None
      BY <1>1, <1>5 DEF MapRight
    <2>2. store' = Append(store, [key |-> k, value |-> v])
      BY <1>5, <2>1 DEF KV!kv_set
    <2>3. /\ store' \in Seq(KVEntry) /\ Len(store') = Len(store) + 1
          /\ DOMAIN store' = 1..(Len(store) + 1)
      <3>1. [key |-> k, value |-> v] \in KVEntry
        BY DEF KVEntry
      <3> QED
        BY <1>2, <2>2, <3>1
    <2>4. /\ \A f \in DOMAIN store : store'[f] = store[f]
          /\ store'[Len(store) + 1].key = k /\ store'[Len(store) + 1].value = v
      BY <1>2, <2>2
    <2>5. \A f \in DOMAIN store' : f \in DOMAIN store \/ f = Len(store) + 1
      BY <1>2, <2>3
    <2>6. DOMAIN store \subseteq DOMAIN store' /\ Len(store) + 1 \in DOMAIN store'
      BY <1>2, <2>3
    <2>7. Len(store') <= MAX_ENTRIES
      BY <1>2, <1>5, <2>3 DEF KVSizes
    <2>8. StoreInv'
      BY <1>5, <2>3, <2>4, <2>5, <2>7 DEF StoreInv
    <2>9. MapRight'
      BY <2>8, StoreIsMap, PTL DEF KVSizes
    <2>10. ASSUME NEW j \in Keys PROVE (KV!kv_get(j))' = IF j = k THEN v ELSE KV!kv_get(j)
      <3>1. CASE j = k
        BY <2>4, <2>6, <2>9, <3>1 DEF MapRight
      <3>2. CASE j # k /\ Has(j)
        BY <1>1, <2>4, <2>6, <2>9, <3>2 DEF MapRight
      <3>3. CASE j # k /\ ~Has(j)
        BY <1>1, <2>4, <2>5, <2>9, <3>3 DEF MapRight
      <3> QED
        BY <3>1, <3>2, <3>3
    <2> QED
      BY <1>5, <2>8, <2>10
  <1>6. CASE ~Has(k) /\ ~(Len(store) < MAX_ENTRIES)
    <2>1. KV!Find(k) = 0 /\ KV!kv_get(k) = None
      BY <1>1, <1>6 DEF MapRight
    <2>2. store' = store
      BY <1>6, <2>1 DEF KV!kv_set
    <2>3. StoreInv'
      BY <2>2 DEF StoreInv
    <2>4. MapRight'
      BY <2>3, StoreIsMap, PTL DEF KVSizes
    <2>5. ASSUME NEW j \in Keys PROVE (KV!kv_get(j))' = KV!kv_get(j)
      BY <1>1, <2>2, <2>4 DEF MapRight
    <2> QED
      BY <1>6, <2>1, <2>3, <2>5
  <1> QED
    BY <1>4, <1>5, <1>6

\* Serving a command changes the table as kv_set does, or not at all.
LEMMA ServeStore ==
  ASSUME KVSizes, KVInv, NEW c \in Clients, KV!Serve(c)
  PROVE  /\ StoreInv'
         /\ inbox[c] \in KV!Commands
         /\ ~(inbox[c].op = "SET") => store' = store
  <1>1. inbox[c] \in KV!Commands
    BY DEF KVInv, KV!Serve
  <1>2. CASE inbox[c].op = "SET"
    <2>1. inbox[c].key \in Keys /\ inbox[c].value \in Values
      BY <1>1, <1>2 DEF KV!Commands
    <2>2. store' = KV!kv_set(inbox[c].key, inbox[c].value)
      BY <1>2 DEF KV!Serve
    <2> QED
      BY <1>1, <1>2, <2>1, <2>2, SetKeeps DEF KVInv
  <1>3. CASE inbox[c].op # "SET"
    <2>1. store' = store
      BY <1>3 DEF KV!Serve
    <2> QED
      BY <1>1, <1>3, <2>1 DEF KVInv, StoreInv
  <1> QED
    BY <1>2, <1>3

LEMMA KVStarts ==
  ASSUME KVSizes, KV!Init
  PROVE  KVInv
  <1>1. StoreInv
    BY DEF KVSizes, KV!Init, StoreInv
  <1>2. OpenIsKnown
    BY DEF KV!Init, OpenIsKnown
  <1> QED
    BY <1>1, <1>2 DEF KV!Init, KVInv

\* What the clients do.
LEMMA KVUsers ==
  ASSUME KVSizes, KVInv, NEW c \in Clients,
         \/ KV!Connect(c)
         \/ \E cmd1 \in KV!Commands : KV!SendCommand(c, cmd1)
         \/ KV!SendNothing(c)
         \/ KV!Receive(c)
         \/ KV!Quit(c)
  PROVE  KVInv' /\ store' = store /\ last' = last
  <1>1. store' = store /\ last' = last /\ closed' = closed /\ up' = up /\ serving' = serving
    BY DEF KV!Connect, KV!SendCommand, KV!SendNothing, KV!Receive, KV!Quit
  <1>2. StoreInv'
    BY <1>1 DEF KVInv, StoreInv
  <1>3. CASE KV!Connect(c)
    <2>1. /\ client[c] = "new" /\ inbox' = inbox /\ reply' = reply
          /\ client' = [client EXCEPT ![c] = IF up THEN "prompt" ELSE "gone"]
          /\ backlog' = IF up THEN Append(backlog, c) ELSE backlog
      BY <1>3 DEF KV!Connect
    <2>2. backlog \in Seq(Clients) /\ backlog' \in Seq(Clients)
      BY <2>1 DEF KVInv
    <2>3. \A d \in Clients : InBacklog(d) => InBacklog(d)'
      BY <2>1, <2>2 DEF InBacklog
    <2>4. up => InBacklog(c)'
      <3> SUFFICES ASSUME up PROVE InBacklog(c)'
        OBVIOUS
      <3>1. Len(backlog) + 1 \in DOMAIN backlog' /\ backlog'[Len(backlog) + 1] = c
        BY <2>1, <2>2
      <3> QED
        BY <3>1 DEF InBacklog
    <2>5. \A d \in Clients : client'[d] = IF d = c THEN IF up THEN "prompt" ELSE "gone" ELSE client[d]
      BY <2>1 DEF KVInv
    <2>6. OpenIsKnown'
      BY <1>1, <2>1, <2>3, <2>4, <2>5 DEF KVInv, OpenIsKnown
    <2> QED
      BY <1>1, <1>2, <2>1, <2>2, <2>6 DEF KVInv
  <1>4. ASSUME NEW cmd1 \in KV!Commands, KV!SendCommand(c, cmd1) PROVE KVInv'
    <2>1. /\ client[c] = "prompt" /\ backlog' = backlog /\ reply' = reply
          /\ client' = [client EXCEPT ![c] = IF closed[c] THEN "gone" ELSE "waiting"]
          /\ inbox' = IF closed[c] THEN inbox ELSE [inbox EXCEPT ![c] = cmd1]
      BY <1>4 DEF KV!SendCommand
    <2>2. /\ client' \in [Clients -> {"new", "prompt", "waiting", "muted", "gone"}]
          /\ inbox' \in [Clients -> KV!Commands \cup {None}]
      BY <1>4, <2>1 DEF KVInv
    <2>3. cmd1 # None
      BY DEF KVSizes
    <2>4. \A d \in Clients :
             /\ client'[d] = IF d = c THEN IF closed[c] THEN "gone" ELSE "waiting" ELSE client[d]
             /\ inbox'[d] = IF d = c /\ ~closed[c] THEN cmd1 ELSE inbox[d]
      BY <2>1 DEF KVInv
    <2>5. OpenIsKnown'
      BY <1>1, <2>1, <2>3, <2>4 DEF KVInv, OpenIsKnown, InBacklog
    <2> QED
      BY <1>1, <1>2, <2>1, <2>2, <2>5 DEF KVInv
  <1>5. CASE KV!SendNothing(c) \/ KV!Quit(c)
    <2>1. /\ client[c] \in {"prompt", "waiting", "muted"} /\ backlog' = backlog /\ reply' = reply
          /\ inbox' = inbox
          /\ \E to \in {"gone", "muted"} : client' = [client EXCEPT ![c] = to]
      BY <1>5 DEF KV!SendNothing, KV!Quit
    <2>2. OpenIsKnown'
      BY <1>1, <2>1 DEF KVInv, OpenIsKnown, InBacklog
    <2> QED
      BY <1>1, <1>2, <2>1, <2>2 DEF KVInv
  <1>6. CASE KV!Receive(c)
    <2>1. /\ client[c] \in {"waiting", "muted"} /\ backlog' = backlog /\ inbox' = inbox
          /\ reply[c] # None \/ closed[c]
          /\ \E to \in {"gone", "prompt"} : client' = [client EXCEPT ![c] = to]
          /\ reply' = [reply EXCEPT ![c] = None]
      BY <1>6 DEF KV!Receive
    <2>2. closed[c]
      BY <2>1 DEF KVInv, OpenIsKnown
    <2>3. OpenIsKnown'
      BY <1>1, <2>1, <2>2 DEF KVInv, OpenIsKnown, InBacklog
    <2> QED
      BY <1>1, <1>2, <2>1, <2>3 DEF KVInv
  <1> QED
    BY <1>1, <1>3, <1>4, <1>5, <1>6

\* What the server does.
LEMMA KVServes ==
  ASSUME KVSizes, KVInv, KV!Server
  PROVE  KVInv'
  <1>1. CASE KV!Accept
    <2>1. /\ up /\ serving = None /\ backlog # <<>> /\ serving' = Head(backlog)
          /\ backlog' = Tail(backlog)
          /\ store' = store /\ client' = client /\ inbox' = inbox /\ reply' = reply
          /\ closed' = closed /\ up' = up
      BY <1>1 DEF KV!Accept
    <2>2. backlog \in Seq(Clients) /\ backlog' \in Seq(Clients)
      BY <2>1 DEF KVInv
    <2>3. \A d \in Clients : InBacklog(d) => serving' = d \/ InBacklog(d)'
      <3>1. \A q \in DOMAIN backlog : q = 1 \/ (q - 1 \in DOMAIN backlog' /\ backlog'[q - 1] = backlog[q])
        BY <2>1, <2>2
      <3>2. serving' = backlog[1]
        BY <2>1, <2>2
      <3> QED
        BY <3>1, <3>2 DEF InBacklog
    <2>4. OpenIsKnown'
      BY <2>1, <2>3 DEF KVInv, OpenIsKnown, KVSizes
    <2>5. StoreInv'
      BY <2>1 DEF KVInv, StoreInv
    <2> QED
      BY <2>1, <2>2, <2>4, <2>5 DEF KVInv
  <1>2. ASSUME NEW c \in Clients, KV!Serve(c) PROVE KVInv'
    <2>1. StoreInv'
      BY <1>2, ServeStore
    <2>2. /\ serving = c /\ client' = client /\ inbox' = [inbox EXCEPT ![c] = None]
      BY <1>2 DEF KV!Serve
    <2>3. CASE client[c] = "gone"
      <3>1. closed' = [d \in Clients |-> TRUE] /\ backlog' = <<>> /\ reply' = reply
        BY <1>2, <2>3 DEF KV!Serve
      <3>2. OpenIsKnown'
        BY <3>1 DEF OpenIsKnown
      <3> QED
        BY <2>1, <2>2, <3>1, <3>2 DEF KVInv
    <2>4. CASE client[c] # "gone"
      <3>1. /\ \E a : reply' = [reply EXCEPT ![c] = a]
            /\ closed' = [closed EXCEPT ![c] = TRUE] /\ up' = up /\ backlog' = backlog
        BY <1>2, <2>4 DEF KV!Serve, KV!Closed
      <3>2. \A d \in Clients : /\ closed'[d] <=> (d = c \/ closed[d])
                               /\ d # c => reply'[d] = reply[d] /\ inbox'[d] = inbox[d]
        BY <2>2, <3>1 DEF KVInv
      <3>3. OpenIsKnown'
        BY <2>2, <3>1, <3>2 DEF KVInv, OpenIsKnown, InBacklog
      <3> QED
        BY <2>1, <2>2, <3>1, <3>3 DEF KVInv
    <2> QED
      BY <2>3, <2>4
  <1>3. ASSUME NEW c \in Clients, KV!Skip(c) PROVE KVInv'
    <2>1. /\ serving = c /\ closed' = [closed EXCEPT ![c] = TRUE]
          /\ store' = store /\ backlog' = backlog /\ client' = client /\ inbox' = inbox
          /\ reply' = reply /\ up' = up
      BY <1>3 DEF KV!Skip, KV!Closed
    <2>2. \A d \in Clients : closed'[d] <=> (d = c \/ closed[d])
      BY <2>1 DEF KVInv
    <2>3. OpenIsKnown'
      BY <2>1, <2>2 DEF KVInv, OpenIsKnown, InBacklog
    <2>4. StoreInv'
      BY <2>1 DEF KVInv, StoreInv
    <2> QED
      BY <2>1, <2>3, <2>4 DEF KVInv
  <1> QED
    BY <1>1, <1>2, <1>3 DEF KV!Server

LEMMA KVInvariant == Spec => []KVInv
  <1>1. KVSizes
    BY ConstantsAssumption DEF KVSizes
  <1>2. Init => KVInv
    BY <1>1, KVStarts DEF Init
  <1>3. KVInv /\ [Next]_vars => KVInv'
    <2> SUFFICES ASSUME KVInv, [Next]_vars PROVE KVInv'
      OBVIOUS
    <2>1. CASE UNCHANGED kvVars
      BY <2>1 DEF kvVars, KVInv, StoreInv, OpenIsKnown, InBacklog
    <2>2. CASE KV!Next
      BY <1>1, <2>2, KVUsers, KVServes DEF KV!Next
    <2> QED
      BY <2>1, <2>2, OneProgramMoves
  <1> QED
    BY <1>2, <1>3, PTL DEF Spec

\* The server loses no command: whoever waits has its answer, an end of file
\* to come, or a server that knows of it, for every number of clients.
THEOREM NobodyIsForgotten == Spec => []NobodyForgotten
  <1>1. KVInv => NobodyForgotten
    <2> SUFFICES ASSUME KVInv, NEW c \in Clients, client[c] = "waiting", ~closed[c]
                 PROVE  up /\ inbox[c] # None /\ (serving = c \/ KV!Contains(backlog, c))
      BY DEF NobodyForgotten, KV!NobodyForgotten
    <2>1. up /\ inbox[c] # None /\ (serving = c \/ InBacklog(c))
      BY DEF KVInv, OpenIsKnown
    <2>2. InBacklog(c) => KV!Contains(backlog, c)
      BY DEF KVInv, InBacklog, KV!Contains
    <2> QED
      BY <2>1, <2>2
  <1> QED
    BY <1>1, KVInvariant, PTL

\* The map that the table stands for.
TheMap == [k \in Keys |-> KV!kv_get(k)]

\* As many keys have a value as the table has entries.
LEMMA MapSize ==
  ASSUME KVSizes, StoreInv
  PROVE  Cardinality({k \in Keys : TheMap[k] # None}) = Len(store)
  <1> DEFINE T == {k \in Keys : TheMap[k] # None}
             f == [e \in 1..Len(store) |-> store[e].key]
  <1>1. MapRight
    BY StoreIsMap
  <1>2. /\ DOMAIN store = 1..Len(store) /\ Len(store) \in Nat
        /\ \A e \in DOMAIN store : store[e] \in KVEntry
    BY DEF StoreInv
  <1>3. \A e \in DOMAIN store : store[e].key \in Keys
    BY <1>2 DEF KVEntry
  <1>4. \A e \in 1..Len(store) : f[e] \in T
    BY <1>1, <1>2, <1>3 DEF MapRight, TheMap
  <1>5. \A k \in T : \E e \in 1..Len(store) : f[e] = k
    BY <1>1, <1>2 DEF MapRight, TheMap
  <1>6. \A e, g \in 1..Len(store) : f[e] = f[g] => e = g
    BY <1>2 DEF StoreInv
  <1>7. f \in [1..Len(store) -> T]
    BY <1>4
  <1> HIDE DEF f, T
  <1>8. f \in Bijection(1..Len(store), T)
    BY <1>5, <1>6, <1>7 DEF Bijection, Injection, Surjection, IsInjective
  <1>9. ExistsBijection(1..Len(store), T)
    BY <1>8 DEF ExistsBijection
  <1>10. Cardinality(T) = Len(store)
    BY <1>2, <1>9, FS_CountingElements
  <1> QED
    BY <1>10 DEF T

\* A command served is a step of the map.
LEMMA ServeMaps ==
  ASSUME KVSizes, KVInv, NEW c \in Clients, KV!Serve(c)
  PROVE  KV!Table!Next
  <1>1. PICK m : m = inbox[c]
    OBVIOUS
  <1>2. m \in KV!Commands /\ StoreInv
    BY <1>1, ServeStore DEF KVInv
  <1>3. last' = <<m, KV!Answer(m)>>
    BY <1>1 DEF KV!Serve
  <1>4. TheMap' = [k \in Keys |-> (KV!kv_get(k))']
    BY DEF TheMap
  <1>5. CASE m.op = "SET"
    <2>1. PICK k \in Keys, v \in Values : m = [op |-> "SET", key |-> k, value |-> v]
      BY <1>2, <1>5 DEF KV!Commands
    <2>2. store' = KV!kv_set(k, v) /\ last' = <<m, "OK">>
      <3>1. store' = KV!kv_set(m.key, m.value)
        BY <1>1, <1>5 DEF KV!Serve
      <3>2. KV!Answer(m) = "OK"
        BY <1>5 DEF KV!Answer
      <3>3. m.key = k /\ m.value = v
        BY <2>1
      <3> QED
        BY <1>3, <3>1, <3>2, <3>3
    <2>3. \A j \in Keys : (KV!kv_get(j))' =
             IF j = k /\ (KV!kv_get(k) # None \/ Len(store) < MAX_ENTRIES) THEN v ELSE KV!kv_get(j)
      BY <1>2, <2>2, SetKeeps
    <2>4. KV!Table!Size = Len(store) /\ Len(store) \in Nat
      <3>1. KV!Table!Size = Cardinality({j \in Keys : TheMap[j] # None})
        BY DEF KV!Table!Size, TheMap, KV!Table!Cardinality, Cardinality
      <3>2. Len(store) \in Nat
        BY <1>2 DEF StoreInv
      <3> QED
        BY <1>2, <3>1, <3>2, MapSize
    <2>5. (TheMap[k] = None /\ KV!Table!Size >= MAX_ENTRIES)
             <=> ~(KV!kv_get(k) # None \/ Len(store) < MAX_ENTRIES)
      BY <2>4 DEF TheMap, KVSizes
    <2>6. TheMap' = IF TheMap[k] = None /\ KV!Table!Size >= MAX_ENTRIES THEN TheMap
                    ELSE [TheMap EXCEPT ![k] = v]
      <3>1. CASE TheMap[k] = None /\ KV!Table!Size >= MAX_ENTRIES
        BY <1>4, <2>3, <2>5, <3>1 DEF TheMap
      <3>2. CASE ~(TheMap[k] = None /\ KV!Table!Size >= MAX_ENTRIES)
        BY <1>4, <2>3, <2>5, <3>2 DEF TheMap
      <3> QED
        BY <3>1, <3>2
    <2>7. KV!Table!Set(k, v)
      BY <2>1, <2>2, <2>6 DEF KV!Table!Set, TheMap
    <2> QED
      BY <2>7 DEF KV!Table!Next
  <1>6. CASE m.op # "SET"
    <2>1. store' = store
      BY <1>1, <1>6, ServeStore
    <2>2. TheMap' = TheMap
      BY <2>1 DEF TheMap, KV!kv_get, KV!Find, KV!SelectInSeq, KV!Min
    <2>3. CASE m.op = "GET"
      <3>1. PICK k \in Keys : m = [op |-> "GET", key |-> k]
        BY <1>2, <2>3 DEF KV!Commands
      <3>2. KV!Answer(m) = IF KV!kv_get(m.key) = None THEN "NOT_FOUND" ELSE KV!kv_get(m.key)
        BY <2>3 DEF KV!Answer
      <3>3. last' = <<m, IF TheMap[k] = None THEN "NOT_FOUND" ELSE TheMap[k]>>
        BY <1>3, <3>1, <3>2 DEF TheMap
      <3> QED
        BY <2>2, <3>1, <3>3 DEF KV!Table!Next, KV!Table!Get, TheMap
    <2>4. CASE m.op # "GET"
      <3>1. m = [op |-> "BAD"]
        BY <1>2, <1>6, <2>4 DEF KV!Commands
      <3>2. KV!Answer(m) = "ERROR"
        BY <3>1 DEF KV!Answer
      <3> QED
        BY <1>3, <2>2, <3>1, <3>2 DEF KV!Table!Next, KV!Table!Refuse, TheMap
    <2> QED
      BY <2>3, <2>4
  <1> QED
    BY <1>5, <1>6

\* The array searched from the front is a map with room for MAX_ENTRIES keys:
\* every step of the server is one of the map or leaves it alone.
THEOREM TableImplementsMap == Spec => MapSpec
  <1>1. KVSizes
    BY ConstantsAssumption DEF KVSizes
  <1>2. Init => KV!Table!Init
    <2> SUFFICES ASSUME Init PROVE KV!Table!Init
      OBVIOUS
    <2>1. store = <<>> /\ last = <<None, None>>
      BY DEF Init, KV!Init
    <2>2. StoreInv
      BY <1>1, KVStarts DEF Init, KVInv
    <2>3. MapRight
      BY <1>1, <2>2, StoreIsMap
    <2>4. \A k \in Keys : KV!kv_get(k) = None
      BY <2>1, <2>3 DEF MapRight
    <2> QED
      BY <2>1, <2>4 DEF KV!Table!Init
  <1>3. KVInv /\ [Next]_vars => [KV!Table!Next]_<<TheMap, last>>
    <2> SUFFICES ASSUME KVInv, [Next]_vars PROVE [KV!Table!Next]_<<TheMap, last>>
      OBVIOUS
    <2>1. CASE store' = store /\ last' = last
      BY <2>1 DEF TheMap, KV!kv_get, KV!Find, KV!SelectInSeq, KV!Min
    <2>2. CASE UNCHANGED kvVars
      BY <2>1, <2>2 DEF kvVars
    <2>3. ASSUME NEW c \in Clients, KV!Serve(c) PROVE KV!Table!Next
      BY <1>1, <2>3, ServeMaps
    <2>4. CASE KV!Next
      BY <1>1, <2>1, <2>3, <2>4, KVUsers DEF KV!Next, KV!Server, KV!Accept, KV!Skip
    <2> QED
      BY <2>2, <2>4, OneProgramMoves
  <1>4. MapSpec <=> KV!Table!Init /\ [][KV!Table!Next]_<<TheMap, last>>
    BY DEF MapSpec, KV!MapSpec, KV!Table!Spec, TheMap
  <1> QED
    BY <1>2, <1>3, <1>4, KVInvariant, PTL DEF Spec
-----------------------------------------------------------------------------
(***************************************************************************)
(* The key-value server of src/Modularize Key-Value, a thread per client.  *)
(***************************************************************************)
ThreadSizes == TABLE_ENTRIES \in Nat \ {0} /\ None \notin Sessions \cup Keys

Halves == Keys \cup Sessions \cup {None}
Pairs  == [1..2 -> Halves]
Cells  == [key : Pairs, value : Pairs]

Busy    == {"scan", "print1", "print2", "update1", "update2", "check", "key1", "key2",
            "value1", "value2", "load", "store", "reply"}
Filling == {"check", "key1", "key2", "value1", "value2", "load", "store"}

ThreadTypes ==
    /\ entries \in [1..TABLE_ENTRIES -> Cells]
    /\ store_count \in Nat
    /\ user \in [Sessions -> {"prompt", "waiting", "gone"}]
    /\ thread \in [Sessions -> Busy \cup {"queued", "read", "closed"}]
    /\ DOMAIN cmd = Sessions
    /\ \A c \in Sessions : cmd[c] \in Threaded!Commands(c) \cup {None}
    /\ scanned \in [Sessions -> Nat]
    /\ slot \in [Sessions -> Nat]
    /\ loaded \in [Sessions -> Nat]
    /\ answer \in [Sessions -> Pairs]
    /\ latest \in [Keys -> Sessions \cup {None}]

\* A thread inside a command has one, and its client does not type another.
Placed(c) ==
    /\ cmd[c] # None => user[c] # "prompt"
    /\ thread[c] \in Busy => cmd[c] # None
    /\ thread[c] = "scan" => cmd[c].op \in {"GET", "SET"}
    /\ thread[c] \in {"print1", "print2"} => cmd[c].op = "GET"
    /\ thread[c] \in {"update1", "update2"} \cup Filling => cmd[c].op = "SET"

\* How far it is: what it has scanned is not its key, what it found is, and
\* what it fills is the entry behind the table.
Positioned(c) ==
    /\ thread[c] = "scan" =>
         /\ scanned[c] >= 1 /\ scanned[c] <= store_count + 1
         /\ \A e \in 1..(scanned[c] - 1) : entries[e].key # Threaded!Whole(cmd[c].key)
    /\ thread[c] \in {"print1", "print2", "update1", "update2"} =>
         scanned[c] \in 1..store_count /\ entries[scanned[c]].key = Threaded!Whole(cmd[c].key)
    /\ thread[c] = "update2" => entries[scanned[c]].value[1] = cmd[c].value
    /\ thread[c] \in Filling =>
         \A e \in 1..store_count : entries[e].key # Threaded!Whole(cmd[c].key)
    /\ thread[c] \in Filling \ {"check"} => store_count < TABLE_ENTRIES
    /\ thread[c] \in {"key2", "value2"} => slot[c] = store_count + 1
    /\ thread[c] = "key2" => entries[store_count + 1].key[1] = cmd[c].key
    /\ thread[c] \in {"value1", "value2", "load", "store"} =>
         entries[store_count + 1].key = Threaded!Whole(cmd[c].key)
    /\ thread[c] = "value2" => entries[store_count + 1].value[1] = cmd[c].value
    /\ thread[c] \in {"load", "store"} =>
         entries[store_count + 1].value = Threaded!Whole(cmd[c].value)
    /\ thread[c] = "store" => loaded[c] = store_count

\* What it has printed of a value is from the values its key had meanwhile.
Answered(c) ==
    /\ thread[c] \notin {"print2", "reply"} => answer[c] = Threaded!Whole(None)
    /\ thread[c] = "print2" => answer[c][1] \in since[c]
    /\ thread[c] = "reply" /\ cmd[c].op = "GET" =>
         answer[c][1] \in since[c] /\ answer[c][2] \in since[c]

\* The table has every key once and whole, and exactly those that were set;
\* only the first half of a value can be newer than the last kv_set.
TableGood ==
    /\ ~overrun /\ store_count <= TABLE_ENTRIES
    /\ \A e \in 1..store_count : \E k \in Keys : entries[e].key = Threaded!Whole(k)
    /\ \A d, e \in 1..store_count : entries[d].key = entries[e].key => d = e
    /\ \A e \in 1..store_count, k \in Keys : entries[e].key = Threaded!Whole(k) =>
         /\ latest[k] # None /\ entries[e].value[2] = latest[k]
         /\ \/ entries[e].value[1] = latest[k]
            \/ \E d \in Sessions : thread[d] = "update2" /\ scanned[d] = e
    /\ \A k \in Keys : latest[k] # None =>
         \E e \in 1..store_count : entries[e].key = Threaded!Whole(k)

OneWriter == \A c, d \in Sessions : Threaded!Setting(c) /\ Threaded!Setting(d) => c = d

ThreadParts ==
    /\ ThreadTypes
    /\ OneWriter
    /\ TableGood
    /\ \A c \in Sessions : Placed(c) /\ Positioned(c) /\ Answered(c)

ThreadInv == ~overlapped => ThreadParts

LEMMA PairIsWhole ==
  ASSUME NEW f \in Pairs, NEW x \in Halves
  PROVE  f = Threaded!Whole(x) <=> f[1] = x /\ f[2] = x
  <1>1. Threaded!Whole(x) \in Pairs /\ Threaded!Whole(x)[1] = x /\ Threaded!Whole(x)[2] = x
    BY DEF Threaded!Whole, Pairs
  <1> HIDE DEF Threaded!Whole
  <1>2. 1..2 = {1, 2}
    OBVIOUS
  <1> QED
    BY <1>1, <1>2 DEF Pairs

LEMMA WholeIsPair ==
  ASSUME NEW x \in Halves
  PROVE  Threaded!Whole(x) \in Pairs
  BY DEF Threaded!Whole, Pairs

\* A half of a string is copied into an entry.
Copied(old, e, field, h, x) == [old EXCEPT ![e][field][h] = x]

Arrived(new, old, e, field, h, x) ==
    /\ new \in [1..TABLE_ENTRIES -> Cells]
    /\ \A d \in 1..TABLE_ENTRIES : d # e => new[d] = old[d]
    /\ field = "key" => /\ new[e].key[h] = x /\ new[e].value = old[e].value
                        /\ \A g \in 1..2 : g # h => new[e].key[g] = old[e].key[g]
    /\ field = "value" => /\ new[e].value[h] = x /\ new[e].key = old[e].key
                          /\ \A g \in 1..2 : g # h => new[e].value[g] = old[e].value[g]

LEMMA HalfCopied ==
  ASSUME NEW old \in [1..TABLE_ENTRIES -> Cells], NEW e \in 1..TABLE_ENTRIES,
         NEW field \in {"key", "value"}, NEW h \in 1..2, NEW x \in Halves
  PROVE  Arrived(Copied(old, e, field, h, x), old, e, field, h, x)
  <1> DEFINE new == Copied(old, e, field, h, x)
  <1>1. old[e] \in Cells /\ old[e][field] \in Pairs
    BY DEF Cells
  <1> DEFINE pair == [old[e][field] EXCEPT ![h] = x]
  <1>2. /\ pair \in Pairs /\ pair[h] = x
        /\ \A g \in 1..2 : g # h => pair[g] = old[e][field][g]
    BY <1>1 DEF Pairs
  <1> DEFINE cell == [old[e] EXCEPT ![field] = pair]
  <1>3. new = [old EXCEPT ![e] = cell]
    BY Zenon DEF Copied
  <1> HIDE DEF pair
  <1>4. /\ cell \in Cells
        /\ field = "key" => cell.key = pair /\ cell.value = old[e].value
        /\ field = "value" => cell.value = pair /\ cell.key = old[e].key
    BY <1>1, <1>2 DEF Cells
  <1> HIDE DEF cell, new
  <1>5. new[e] = cell /\ new \in [1..TABLE_ENTRIES -> Cells]
        /\ \A d \in 1..TABLE_ENTRIES : d # e => new[d] = old[d]
    BY <1>3, <1>4
  <1>6. Arrived(new, old, e, field, h, x)
    BY <1>2, <1>4, <1>5 DEF Arrived
  <1> QED
    BY <1>6 DEF new

LEMMA ThreadsStart ==
  ASSUME ThreadSizes, Threaded!Init
  PROVE  ThreadInv
  <1>1. ThreadTypes
    <2>1. Threaded!Whole(None) \in Pairs
      BY WholeIsPair DEF Halves
    <2> HIDE DEF Threaded!Whole
    <2> QED
      BY <2>1 DEF Threaded!Init, ThreadTypes, Cells
  <1>2. \A c \in Sessions : thread[c] = "queued" /\ cmd[c] = None
          /\ answer[c] = Threaded!Whole(None)
    BY DEF Threaded!Init
  <1>3. store_count = 0 /\ ~overrun /\ \A k \in Keys : latest[k] = None
    BY DEF Threaded!Init
  <1>4. TableGood
    BY <1>3 DEF TableGood, ThreadSizes
  <1>5. OneWriter
    BY <1>2 DEF OneWriter, Threaded!Setting
  <1>6. \A c \in Sessions : Placed(c) /\ Positioned(c) /\ Answered(c)
    BY <1>2 DEF Placed, Positioned, Answered, Busy, Filling
  <1> QED
    BY <1>1, <1>4, <1>5, <1>6 DEF ThreadInv, ThreadParts

\* What a step of another thread leaves alone.
Same(d) ==
    /\ user'[d] = user[d] /\ thread'[d] = thread[d] /\ cmd'[d] = cmd[d]
    /\ scanned'[d] = scanned[d] /\ slot'[d] = slot[d] /\ loaded'[d] = loaded[d]
    /\ answer'[d] = answer[d]

\* What the history adds while a kv_get runs.
LEMMA SinceGrows ==
  ASSUME Threaded!History, NEW c \in Sessions, cmd'[c] # None,
         thread'[c] \notin {"queued", "read", "closed"}, cmd'[c].op = "GET"
  PROVE  since[c] \subseteq since'[c] /\ latest'[cmd'[c].key] \in since'[c]
         /\ \A d \in Sessions : thread'[d] = "update2" /\ cmd'[d].key = cmd'[c].key
              => cmd'[d].value \in since'[c]
  <1>1. Threaded!Getting(c)'
    BY DEF Threaded!Getting
  <1>2. since'[c] = since[c] \cup Threaded!Now(cmd[c].key)'
    BY <1>1 DEF Threaded!History
  <1>3. Threaded!Now(cmd[c].key)' = {latest'[cmd'[c].key]} \cup
          {cmd'[d].value : d \in {d \in Sessions : thread'[d] = "update2" /\ cmd'[d].key = cmd'[c].key}}
    BY DEF Threaded!Now
  <1> QED
    BY <1>2, <1>3

\* A thread is where it was after a step of another one: no entry it has
\* passed gets another key, and nobody else writes while it does.
LEMMA OthersStay ==
  ASSUME ThreadParts, Threaded!History, NEW d \in Sessions, Same(d), store_count' \in Nat,
         store_count' >= store_count,
         \A e \in 1..store_count : entries'[e].key = entries[e].key,
         Threaded!Setting(d) => entries' = entries /\ store_count' = store_count
  PROVE  Placed(d)' /\ Positioned(d)' /\ Answered(d)'
  <1> USE DEF Same
  <1>1. Placed(d) /\ Positioned(d) /\ Answered(d) /\ store_count \in Nat /\ scanned[d] \in Nat
    BY DEF ThreadParts, ThreadTypes
  <1>2. Placed(d)'
    BY <1>1 DEF Placed
  <1>3. Answered(d)'
    <2>1. thread[d] \in {"print2", "reply"} /\ cmd[d].op = "GET" => since[d] \subseteq since'[d]
      BY <1>1, SinceGrows DEF Placed, Busy
    <2> QED
      BY <1>1, <2>1 DEF Placed, Answered
  <1>4. Positioned(d)'
    <2>1. CASE Threaded!Setting(d)
      BY <1>1, <2>1 DEF Positioned
    <2>2. CASE ~Threaded!Setting(d)
      <3>1. thread[d] \notin {"update1", "update2"} \cup Filling
        BY <1>1, <2>2 DEF Placed, Threaded!Setting, Busy, Filling
      <3>2. CASE thread[d] = "scan"
        <4>1. \A e \in 1..(scanned[d] - 1) : e \in 1..store_count
          BY <1>1, <3>2 DEF Positioned
        <4> QED
          BY <1>1, <3>1, <3>2, <4>1 DEF Positioned, Filling
      <3>3. CASE thread[d] \in {"print1", "print2"}
        BY <1>1, <3>1, <3>3 DEF Positioned, Filling
      <3>4. CASE thread[d] \notin {"scan", "print1", "print2"}
        BY <3>1, <3>4 DEF Positioned, Filling
      <3> QED
        BY <3>2, <3>3, <3>4
    <2> QED
      BY <2>1, <2>2
  <1> QED
    BY <1>2, <1>3, <1>4

\* A step of thread c keeps the invariant if it does for the types, the table
\* and the thread itself.
LEMMA ThreadStep ==
  ASSUME ThreadParts, Threaded!History, ~overlapped', NEW c \in Sessions,
         \A d \in Sessions : d # c => Same(d),
         ThreadTypes', TableGood', Placed(c)', Positioned(c)', Answered(c)',
         store_count' >= store_count,
         \A e \in 1..store_count : entries'[e].key = entries[e].key,
         Threaded!Setting(c) \/ (entries' = entries /\ store_count' = store_count)
  PROVE  ThreadParts'
  <1>1. OneWriter'
    <2>1. \A a, b \in Sessions : ~(a # b /\ Threaded!Setting(a)' /\ Threaded!Setting(b)')
      BY DEF Threaded!History
    <2> QED
      BY <2>1 DEF OneWriter
  <1>2. ASSUME NEW d \in Sessions, d # c PROVE Placed(d)' /\ Positioned(d)' /\ Answered(d)'
    <2>1. Threaded!Setting(d) => ~Threaded!Setting(c)
      BY <1>2 DEF ThreadParts, OneWriter
    <2> QED
      BY <1>2, <2>1, OthersStay DEF ThreadTypes
  <1> QED
    BY <1>1, <1>2 DEF ThreadParts

\* The table is the same if its entries are, and nobody leaves the middle of
\* an update.
LEMMA TableStays ==
  ASSUME ThreadParts, store_count' = store_count, latest' = latest, overrun' = overrun,
         \A e \in 1..store_count : entries'[e] = entries[e],
         \A d \in Sessions : thread[d] = "update2" =>
           thread'[d] = "update2" /\ scanned'[d] = scanned[d]
  PROVE  TableGood'
  BY DEF ThreadParts, TableGood

\* What a command is made of.
LEMMA CommandParts ==
  ASSUME ThreadTypes, NEW c \in Sessions, cmd[c] # None
  PROVE  /\ cmd[c].op \in {"GET", "SET", "BAD"}
         /\ cmd[c].op \in {"GET", "SET"} => cmd[c].key \in Keys
         /\ cmd[c].op = "SET" => cmd[c].value = c
  BY DEF ThreadTypes, Threaded!Commands

\* A step outside the table.
LEMMA QuietStep ==
  ASSUME ThreadParts, Threaded!History, ~overlapped', NEW c \in Sessions,
         \A d \in Sessions : d # c => Same(d),
         UNCHANGED <<entries, store_count, latest, overrun>>,
         thread[c] = "update2" => thread'[c] = "update2" /\ scanned'[c] = scanned[c],
         ThreadTypes', Placed(c)', Positioned(c)', Answered(c)'
  PROVE  ThreadParts'
  <1>1. \A d \in Sessions : thread[d] = "update2" =>
           thread'[d] = "update2" /\ scanned'[d] = scanned[d]
    BY DEF Same
  <1>2. TableGood'
    BY <1>1, TableStays
  <1>3. store_count' >= store_count
    BY DEF ThreadParts, ThreadTypes
  <1> QED
    BY <1>2, <1>3, ThreadStep

\* The client types a command, or leaves.
LEMMA ClientSteps ==
  ASSUME ThreadSizes, ThreadParts, Threaded!History, ~overlapped', NEW c \in Sessions,
         (\E m \in Threaded!Commands(c) : Threaded!SendCommand(c, m)) \/ Threaded!Quit(c)
  PROVE  ThreadParts'
  <1>1. UNCHANGED <<entries, store_count, thread, scanned, slot, loaded, answer, overrun, latest>>
    BY DEF Threaded!SendCommand, Threaded!Quit, Threaded!serverVars
  <1>2. Placed(c) /\ Positioned(c) /\ Answered(c) /\ ThreadTypes
    BY DEF ThreadParts
  <1>3. /\ \A d \in Sessions : d # c => user'[d] = user[d] /\ cmd'[d] = cmd[d]
        /\ user' \in [Sessions -> {"prompt", "waiting", "gone"}] /\ user'[c] # "prompt"
        /\ DOMAIN cmd' = Sessions /\ cmd'[c] \in Threaded!Commands(c) \cup {None}
        /\ cmd'[c] = cmd[c] \/ user[c] = "prompt"
    <2>1. CASE Threaded!Quit(c)
      BY <1>2, <2>1 DEF ThreadTypes, Threaded!Quit
    <2>2. CASE \E m \in Threaded!Commands(c) : Threaded!SendCommand(c, m)
      BY <1>2, <2>2, Zenon DEF ThreadTypes, Threaded!SendCommand
    <2> QED
      BY <2>1, <2>2
  <1>4. \A d \in Sessions : d # c => Same(d)
    BY <1>1, <1>3 DEF Same
  <1>5. ThreadTypes'
    BY <1>1, <1>2, <1>3 DEF ThreadTypes
  <1>6. cmd'[c] = cmd[c] \/ thread[c] \notin Busy
    BY <1>2, <1>3 DEF Placed
  <1>7. Placed(c)'
    BY <1>1, <1>2, <1>3, <1>6 DEF Placed, Busy, Filling
  <1>8. Positioned(c)'
    BY <1>1, <1>2, <1>6 DEF Positioned, Busy, Filling
  <1>9. Answered(c)'
    <2>1. thread[c] \in {"print2", "reply"} =>
             cmd'[c] = cmd[c] /\ (cmd[c].op = "GET" => since[c] \subseteq since'[c])
      BY <1>1, <1>2, <1>6, SinceGrows DEF Placed, Busy
    <2> QED
      BY <1>1, <1>2, <2>1 DEF Placed, Answered
  <1> QED
    BY <1>1, <1>4, <1>5, <1>7, <1>8, <1>9, QuietStep

\* The connection is accepted, a command is read, or the answer is written.
LEMMA ConnectionSteps ==
  ASSUME ThreadSizes, ThreadParts, Threaded!History, ~overlapped', NEW c \in Sessions,
         Threaded!Accept(c) \/ Threaded!ReadCommand(c) \/ Threaded!Reply(c)
  PROVE  ThreadParts'
  <1>1. Placed(c) /\ Positioned(c) /\ Answered(c) /\ ThreadTypes
    BY DEF ThreadParts
  <1>2. Threaded!Whole(None) \in Pairs
    BY WholeIsPair DEF Halves
  <1> HIDE DEF Threaded!Whole
  <1>3. CASE Threaded!Accept(c)
    <2>1. /\ UNCHANGED <<entries, store_count, scanned, slot, loaded, answer, overrun, latest,
                         user, cmd>>
          /\ thread[c] = "queued" /\ thread'[c] \in {"read", "closed"}
          /\ thread' = [thread EXCEPT ![c] = thread'[c]]
      BY <1>1, <1>3 DEF Threaded!Accept, Threaded!clientVars, ThreadTypes
    <2>2. ThreadTypes'
      BY <1>1, <2>1 DEF ThreadTypes
    <2>3. \A d \in Sessions : d # c => Same(d)
      BY <1>1, <2>1 DEF ThreadTypes, Same
    <2>4. Placed(c)' /\ Positioned(c)' /\ Answered(c)'
      BY <1>1, <2>1 DEF Placed, Positioned, Answered, Busy, Filling
    <2> QED
      BY <2>1, <2>2, <2>3, <2>4, QuietStep
  <1>4. CASE Threaded!ReadCommand(c)
    <2>1. /\ UNCHANGED <<entries, store_count, slot, loaded, answer, overrun, latest, user, cmd>>
          /\ thread[c] = "read"
          /\ thread' = [thread EXCEPT ![c] = IF cmd[c] = None THEN "closed"
                                             ELSE IF cmd[c].op = "BAD" THEN "reply" ELSE "scan"]
          /\ scanned' = [scanned EXCEPT ![c] = 1]
      BY <1>1, <1>4 DEF Threaded!ReadCommand, Threaded!clientVars
    <2>2. /\ cmd[c] = None => thread'[c] = "closed"
          /\ cmd[c] # None => /\ thread'[c] \in {"reply", "scan"}
                              /\ thread'[c] = "reply" => cmd[c].op = "BAD"
                              /\ thread'[c] = "scan" => cmd[c].op \in {"GET", "SET"}
          /\ scanned'[c] = 1
          /\ \A d \in Sessions : d # c => thread'[d] = thread[d] /\ scanned'[d] = scanned[d]
      BY <1>1, <2>1, CommandParts DEF ThreadTypes
    <2>3. ThreadTypes'
      <3>1. thread'[c] \in Busy \cup {"queued", "read", "closed"}
        BY <2>2 DEF Busy
      <3> QED
        BY <1>1, <2>1, <2>2, <3>1 DEF ThreadTypes
    <2>4. \A d \in Sessions : d # c => Same(d)
      BY <2>1, <2>2 DEF Same
    <2>5. Placed(c)'
      BY <1>1, <2>1, <2>2 DEF Placed, Busy, Filling
    <2>6. Positioned(c)'
      BY <1>1, <2>1, <2>2 DEF Positioned, Filling, ThreadTypes
    <2>7. Answered(c)'
      BY <1>1, <2>1, <2>2 DEF Answered
    <2> QED
      BY <2>1, <2>3, <2>4, <2>5, <2>6, <2>7, QuietStep
  <1>5. CASE Threaded!Reply(c)
    <2>1. /\ UNCHANGED <<entries, store_count, overrun, latest>>
          /\ thread[c] = "reply"
          /\ \/ user[c] = "gone" /\ thread' = [thread EXCEPT ![c] = "closed"] /\ user' = user /\ cmd' = cmd
             \/ user' = [user EXCEPT ![c] = "prompt"] /\ cmd' = [cmd EXCEPT ![c] = None]
                  /\ thread' = [thread EXCEPT ![c] = "read"]
          /\ scanned' = [scanned EXCEPT ![c] = 0] /\ slot' = [slot EXCEPT ![c] = 0]
          /\ loaded' = [loaded EXCEPT ![c] = 0]
          /\ answer' = [answer EXCEPT ![c] = Threaded!Whole(None)]
      BY <1>5 DEF Threaded!Reply
    <2>2. ThreadTypes'
      BY <1>1, <1>2, <2>1 DEF ThreadTypes
    <2>3. \A d \in Sessions : d # c => Same(d)
      BY <1>1, <2>1 DEF ThreadTypes, Same
    <2>4. /\ thread'[c] \in {"closed", "read"} /\ answer'[c] = Threaded!Whole(None)
          /\ cmd'[c] = None \/ user'[c] = "gone"
      BY <1>1, <2>1 DEF ThreadTypes
    <2>5. Placed(c)' /\ Positioned(c)' /\ Answered(c)'
      BY <2>4 DEF Placed, Positioned, Answered, Busy, Filling
    <2> QED
      BY <2>1, <2>2, <2>3, <2>5, QuietStep
  <1> QED
    BY <1>3, <1>4, <1>5

\* An iteration of the loop of kv_get and kv_set: it ends at the key, or
\* behind a table that does not have it.
LEMMA ScanSteps ==
  ASSUME ThreadSizes, ThreadParts, Threaded!History, ~overlapped', NEW c \in Sessions,
         Threaded!Scan(c)
  PROVE  ThreadParts'
  <1>1. Placed(c) /\ Positioned(c) /\ Answered(c) /\ ThreadTypes /\ TableGood
    BY DEF ThreadParts
  <1>2. /\ thread[c] = "scan" /\ cmd[c] # None /\ cmd[c].op \in {"GET", "SET"} /\ cmd[c].key \in Keys
        /\ scanned[c] \in Nat /\ scanned[c] >= 1 /\ scanned[c] <= store_count + 1
        /\ store_count \in Nat /\ store_count <= TABLE_ENTRIES /\ TABLE_ENTRIES \in Nat
        /\ \A e \in 1..(scanned[c] - 1) : entries[e].key # Threaded!Whole(cmd[c].key)
        /\ answer[c] = Threaded!Whole(None)
    BY <1>1, CommandParts DEF Threaded!Scan, Placed, Positioned, Answered, ThreadTypes, Busy,
       TableGood, ThreadSizes
  <1>3. UNCHANGED <<entries, store_count, slot, loaded, answer, latest, user, cmd>>
    BY DEF Threaded!Scan, Threaded!clientVars
  <1> HIDE DEF Threaded!Whole
  <1>4. CASE ~(scanned[c] <= store_count)
    <2>1. /\ thread' = [thread EXCEPT ![c] = IF cmd[c].op = "SET" THEN "check" ELSE "reply"]
          /\ scanned' = scanned /\ overrun' = overrun
      BY <1>4 DEF Threaded!Scan, Threaded!InTheTable
    <2>2. scanned[c] - 1 = store_count
      BY <1>2, <1>4
    <2>3. /\ thread'[c] = IF cmd[c].op = "SET" THEN "check" ELSE "reply"
          /\ \A d \in Sessions : d # c => thread'[d] = thread[d]
      BY <1>1, <2>1 DEF ThreadTypes
    <2>4. ThreadTypes'
      BY <1>1, <1>3, <2>1 DEF ThreadTypes, Busy
    <2>5. Placed(c)'
      BY <1>1, <1>2, <1>3, <2>3 DEF Placed, Busy, Filling
    <2>6. Positioned(c)'
      BY <1>2, <1>3, <2>2, <2>3 DEF Positioned, Filling
    <2>7. Answered(c)'
      <3>1. CASE cmd[c].op = "SET"
        BY <1>2, <1>3, <2>3, <3>1 DEF Answered
      <3>2. CASE cmd[c].op = "GET"
        <4>1. latest[cmd[c].key] = None
          BY <1>1, <1>2, <2>2 DEF TableGood
        <4>2. None \in since'[c]
          BY <1>2, <1>3, <2>3, <3>2, <4>1, SinceGrows
        <4>3. answer[c][1] = None /\ answer[c][2] = None
          BY <1>2 DEF Threaded!Whole
        <4> QED
          BY <1>3, <2>3, <3>2, <4>2, <4>3 DEF Answered
      <3> QED
        BY <1>2, <3>1, <3>2
    <2>8. \A d \in Sessions : d # c => Same(d)
      BY <1>3, <2>1, <2>3 DEF Same
    <2> QED
      BY <1>2, <1>3, <2>1, <2>4, <2>5, <2>6, <2>7, <2>8, QuietStep
  <1>5. CASE scanned[c] <= store_count /\ entries[scanned[c]].key = Threaded!Whole(cmd[c].key)
    <2>1. /\ thread' = [thread EXCEPT ![c] = IF cmd[c].op = "SET" THEN "update1" ELSE "print1"]
          /\ scanned' = scanned /\ overrun' = overrun
      BY <1>2, <1>5 DEF Threaded!Scan, Threaded!InTheTable
    <2>2. /\ thread'[c] = IF cmd[c].op = "SET" THEN "update1" ELSE "print1"
          /\ \A d \in Sessions : d # c => thread'[d] = thread[d]
      BY <1>1, <2>1 DEF ThreadTypes
    <2>3. ThreadTypes'
      BY <1>1, <1>3, <2>1 DEF ThreadTypes, Busy
    <2>4. Placed(c)'
      BY <1>1, <1>2, <1>3, <2>2 DEF Placed, Busy, Filling
    <2>5. Positioned(c)'
      BY <1>2, <1>3, <1>5, <2>1, <2>2 DEF Positioned, Filling
    <2>6. Answered(c)'
      BY <1>2, <1>3, <2>2 DEF Answered
    <2>7. \A d \in Sessions : d # c => Same(d)
      BY <1>3, <2>1, <2>2 DEF Same
    <2> QED
      BY <1>2, <1>3, <2>1, <2>3, <2>4, <2>5, <2>6, <2>7, QuietStep
  <1>6. CASE scanned[c] <= store_count /\ entries[scanned[c]].key # Threaded!Whole(cmd[c].key)
    <2>1. thread' = thread /\ overrun' = overrun
          /\ scanned' = [scanned EXCEPT ![c] = scanned[c] + 1]
      BY <1>2, <1>6 DEF Threaded!Scan, Threaded!InTheTable
    <2>2. /\ scanned'[c] = scanned[c] + 1
          /\ \A d \in Sessions : d # c => scanned'[d] = scanned[d]
          /\ scanned' \in [Sessions -> Nat]
      BY <1>1, <1>2, <2>1 DEF ThreadTypes
    <2>3. ThreadTypes'
      BY <1>1, <1>3, <2>1, <2>2 DEF ThreadTypes
    <2>4. Placed(c)' /\ Answered(c)'
      BY <1>1, <1>2, <1>3, <2>1 DEF Placed, Answered
    <2>5. \A e \in 1..(scanned'[c] - 1) : entries[e].key # Threaded!Whole(cmd[c].key)
      BY <1>2, <1>6, <2>2
    <2>6. Positioned(c)'
      BY <1>2, <1>3, <1>6, <2>1, <2>2, <2>5 DEF Positioned, Filling
    <2>7. \A d \in Sessions : d # c => Same(d)
      BY <1>3, <2>1, <2>2 DEF Same
    <2> QED
      BY <1>2, <1>3, <2>1, <2>3, <2>4, <2>6, <2>7, QuietStep
  <1> QED
    BY <1>2, <1>4, <1>5, <1>6

\* A half of the value is printed: it is that of the last kv_set, or of one
\* under way.
LEMMA PrintSteps ==
  ASSUME ThreadSizes, ThreadParts, Threaded!History, ~overlapped', NEW c \in Sessions,
         NEW h \in {1, 2}, Threaded!PrintHalf(c, h)
  PROVE  ThreadParts'
  <1>1. Placed(c) /\ Positioned(c) /\ Answered(c) /\ ThreadTypes /\ TableGood
    BY DEF ThreadParts
  <1>2. /\ thread[c] = IF h = 1 THEN "print1" ELSE "print2"
        /\ cmd[c] # None /\ cmd[c].op = "GET" /\ cmd[c].key \in Keys
        /\ scanned[c] \in 1..store_count /\ entries[scanned[c]].key = Threaded!Whole(cmd[c].key)
        /\ store_count \in Nat /\ store_count <= TABLE_ENTRIES /\ TABLE_ENTRIES \in Nat
    BY <1>1, CommandParts DEF Threaded!PrintHalf, Placed, Positioned, Busy, ThreadTypes, TableGood,
       ThreadSizes
  <1> DEFINE k == cmd[c].key
             cell == entries[scanned[c]]
             x == cell.value[h]
  <1>3. /\ UNCHANGED <<entries, store_count, scanned, slot, loaded, overrun, latest, user, cmd>>
        /\ answer' = [answer EXCEPT ![c][h] = x]
        /\ thread' = [thread EXCEPT ![c] = IF h = 1 THEN "print2" ELSE "reply"]
    BY DEF Threaded!PrintHalf, Threaded!clientVars
  <1> HIDE DEF Threaded!Whole
  <1>4. cell \in Cells /\ cell.value \in Pairs /\ x \in Halves
    BY <1>1, <1>2 DEF ThreadTypes, Cells, Pairs
  <1>5. /\ thread'[c] = IF h = 1 THEN "print2" ELSE "reply"
        /\ \A d \in Sessions : d # c => thread'[d] = thread[d] /\ answer'[d] = answer[d]
    BY <1>1, <1>3 DEF ThreadTypes
  <1>6. /\ answer' \in [Sessions -> Pairs] /\ answer'[c][h] = x
        /\ \A g \in {1, 2} : g # h => answer'[c][g] = answer[c][g]
    <2>1. answer[c] \in Pairs /\ answer \in [Sessions -> Pairs]
      BY <1>1 DEF ThreadTypes
    <2> DEFINE a == [answer[c] EXCEPT ![h] = x]
    <2>2. a \in Pairs /\ a[h] = x /\ \A g \in {1, 2} : g # h => a[g] = answer[c][g]
      BY <1>4, <2>1 DEF Pairs
    <2>3. answer' = [answer EXCEPT ![c] = a]
      BY <1>3
    <2> HIDE DEF a
    <2> QED
      BY <2>1, <2>2, <2>3
  <1>7. /\ cell.value[2] = latest[k]
        /\ \/ cell.value[1] = latest[k]
           \/ \E d \in Sessions : thread[d] = "update2" /\ scanned[d] = scanned[c]
    BY <1>1, <1>2 DEF TableGood
  <1>8. since[c] \subseteq since'[c] /\ latest[k] \in since'[c]
        /\ \A d \in Sessions : thread'[d] = "update2" /\ cmd[d].key = k => cmd[d].value \in since'[c]
    BY <1>2, <1>3, <1>5, SinceGrows
  <1>9. ASSUME NEW d \in Sessions, thread[d] = "update2", scanned[d] = scanned[c]
        PROVE  cell.value[1] \in since'[c]
    <2>1. Placed(d) /\ Positioned(d) /\ d # c
      BY <1>2, <1>9 DEF ThreadParts
    <2>2. /\ entries[scanned[d]].key = Threaded!Whole(cmd[d].key) /\ cmd[d] # None
          /\ entries[scanned[d]].value[1] = cmd[d].value /\ cmd[d].op = "SET"
      BY <1>9, <2>1 DEF Placed, Positioned, Busy
    <2>3. cmd[d].key \in Keys
      BY <1>1, <2>2, CommandParts
    <2>4. cmd[d].key = k
      BY <1>2, <1>9, <2>2, <2>3 DEF Threaded!Whole
    <2> QED
      BY <1>5, <1>8, <1>9, <2>1, <2>2, <2>4
  <1>10. x \in since'[c]
    BY <1>7, <1>8, <1>9
  <1>11. Answered(c)'
    <2>1. h = 2 => answer[c][1] \in since[c]
      BY <1>1, <1>2 DEF Answered
    <2> QED
      BY <1>2, <1>3, <1>5, <1>6, <1>8, <1>10, <2>1 DEF Answered
  <1> HIDE DEF x, cell
  <1>12. ThreadTypes'
    <2>1. thread' \in [Sessions -> Busy \cup {"queued", "read", "closed"}]
      BY <1>1, <1>3 DEF ThreadTypes, Busy
    <2> QED
      BY <1>1, <1>3, <1>6, <2>1 DEF ThreadTypes
  <1>13. Placed(c)' /\ Positioned(c)'
    BY <1>1, <1>2, <1>3, <1>5 DEF Placed, Positioned, Busy, Filling
  <1>14. \A d \in Sessions : d # c => Same(d)
    BY <1>3, <1>5 DEF Same
  <1> QED
    BY <1>2, <1>3, <1>11, <1>12, <1>13, <1>14, QuietStep

\* Is there room, and the load of store_count++.
LEMMA CountLoads ==
  ASSUME ThreadSizes, ThreadParts, Threaded!History, ~overlapped', NEW c \in Sessions,
         Threaded!Check(c) \/ Threaded!LoadCount(c)
  PROVE  ThreadParts'
  <1>1. Placed(c) /\ Positioned(c) /\ Answered(c) /\ ThreadTypes
    BY DEF ThreadParts
  <1>2. UNCHANGED <<entries, store_count, scanned, slot, answer, overrun, latest, user, cmd>>
    BY DEF Threaded!Check, Threaded!LoadCount, Threaded!clientVars
  <1>3. \/ /\ thread[c] = "check" /\ loaded' = loaded
           /\ thread' = [thread EXCEPT ![c] = IF store_count < TABLE_ENTRIES THEN "key1" ELSE "reply"]
        \/ /\ thread[c] = "load" /\ loaded' = [loaded EXCEPT ![c] = store_count]
           /\ thread' = [thread EXCEPT ![c] = "store"]
    BY DEF Threaded!Check, Threaded!LoadCount
  <1>4. /\ thread[c] = "check" => thread'[c] = IF store_count < TABLE_ENTRIES THEN "key1" ELSE "reply"
        /\ thread[c] = "load" => thread'[c] = "store" /\ loaded'[c] = store_count
        /\ thread[c] \in {"check", "load"}
        /\ \A d \in Sessions : d # c => thread'[d] = thread[d] /\ loaded'[d] = loaded[d]
    BY <1>1, <1>3 DEF ThreadTypes
  <1>5. ThreadTypes'
    <2>1. thread' \in [Sessions -> Busy \cup {"queued", "read", "closed"}]
      BY <1>1, <1>3, ZenonT(60) DEF ThreadTypes, Busy
    <2>2. loaded' \in [Sessions -> Nat]
      BY <1>1, <1>3 DEF ThreadTypes
    <2> QED
      BY <1>1, <1>2, <2>1, <2>2 DEF ThreadTypes
  <1>6. cmd[c].op = "SET"
    BY <1>1, <1>4 DEF Placed, Filling
  <1>7. Placed(c)'
    BY <1>1, <1>2, <1>4, <1>6 DEF Placed, Busy, Filling
  <1>8. Positioned(c)'
    BY <1>1, <1>2, <1>4 DEF Positioned, Filling
  <1>9. Answered(c)'
    BY <1>1, <1>2, <1>4, <1>6 DEF Answered
  <1>10. \A d \in Sessions : d # c => Same(d)
    BY <1>2, <1>4 DEF Same
  <1> QED
    BY <1>2, <1>4, <1>5, <1>7, <1>8, <1>9, <1>10, QuietStep

\* A half of a string goes into the entry behind the table.
LEMMA FillSteps ==
  ASSUME ThreadSizes, ThreadParts, Threaded!History, ~overlapped', NEW c \in Sessions,
         \/ Threaded!FillFirstHalf(c, "key", "key1", "key2")
         \/ Threaded!FillSecondHalf(c, "key", "key2", "value1")
         \/ Threaded!FillFirstHalf(c, "value", "value1", "value2")
         \/ Threaded!FillSecondHalf(c, "value", "value2", "load")
  PROVE  ThreadParts'
  <1>1. Placed(c) /\ Positioned(c) /\ Answered(c) /\ ThreadTypes /\ TableGood
    BY DEF ThreadParts
  <1>2. thread[c] \in {"key1", "key2", "value1", "value2"}
    BY DEF Threaded!FillFirstHalf, Threaded!FillSecondHalf
  <1>3. /\ cmd[c] # None /\ cmd[c].op = "SET" /\ cmd[c].key \in Keys /\ cmd[c].value = c
        /\ store_count \in Nat /\ store_count < TABLE_ENTRIES /\ TABLE_ENTRIES \in Nat
        /\ store_count + 1 \in 1..TABLE_ENTRIES
        /\ answer[c] = Threaded!Whole(None)
    BY <1>1, <1>2, CommandParts DEF Placed, Positioned, Answered, Busy, Filling, ThreadTypes, ThreadSizes
  <1>4. PICK e : e = store_count + 1
    OBVIOUS
  <1> HIDE DEF Threaded!Whole
  <1>5. /\ UNCHANGED <<store_count, scanned, loaded, answer, overrun, latest, user, cmd>>
        /\ \/ /\ thread[c] = "key1" /\ thread' = [thread EXCEPT ![c] = "key2"]
              /\ slot' = [slot EXCEPT ![c] = e]
              /\ entries' = Copied(entries, e, "key", 1, cmd[c].key)
           \/ /\ thread[c] = "key2" /\ thread' = [thread EXCEPT ![c] = "value1"]
              /\ slot' = slot
              /\ entries' = Copied(entries, e, "key", 2, cmd[c].key)
           \/ /\ thread[c] = "value1" /\ thread' = [thread EXCEPT ![c] = "value2"]
              /\ slot' = [slot EXCEPT ![c] = e]
              /\ entries' = Copied(entries, e, "value", 1, cmd[c].value)
           \/ /\ thread[c] = "value2" /\ thread' = [thread EXCEPT ![c] = "load"]
              /\ slot' = slot
              /\ entries' = Copied(entries, e, "value", 2, cmd[c].value)
    <2>1. CASE Threaded!FillFirstHalf(c, "key", "key1", "key2")
      BY <1>3, <1>4, <2>1 DEF Threaded!FillFirstHalf, Threaded!clientVars, Copied
    <2>2. CASE Threaded!FillSecondHalf(c, "key", "key2", "value1")
      BY <1>1, <1>4, <2>2 DEF Threaded!FillSecondHalf, Threaded!clientVars, Positioned, Copied
    <2>3. CASE Threaded!FillFirstHalf(c, "value", "value1", "value2")
      BY <1>3, <1>4, <2>3 DEF Threaded!FillFirstHalf, Threaded!clientVars, Copied
    <2>4. CASE Threaded!FillSecondHalf(c, "value", "value2", "load")
      BY <1>1, <1>4, <2>4 DEF Threaded!FillSecondHalf, Threaded!clientVars, Positioned, Copied
    <2> QED
      BY <2>1, <2>2, <2>3, <2>4
  <1>6. cmd[c].key \in Halves /\ cmd[c].value \in Halves
    BY <1>3 DEF Halves
  <1>7. PICK field \in {"key", "value"}, h \in 1..2, x \in Halves :
           entries' = Copied(entries, e, field, h, x)
    BY <1>5, <1>6
  <1>8. /\ entries' \in [1..TABLE_ENTRIES -> Cells]
        /\ \A d \in 1..TABLE_ENTRIES : d # e => entries'[d] = entries[d]
    <2>1. entries \in [1..TABLE_ENTRIES -> Cells] /\ e \in 1..TABLE_ENTRIES
      BY <1>1, <1>3, <1>4 DEF ThreadTypes
    <2>2. Arrived(entries', entries, e, field, h, x)
      BY <1>7, <2>1, HalfCopied, Zenon
    <2> QED
      BY <2>2 DEF Arrived
  <1>9. \A d \in 1..store_count : entries'[d] = entries[d]
    BY <1>3, <1>4, <1>8
  <1>10. /\ \A d \in Sessions : d # c => thread'[d] = thread[d] /\ slot'[d] = slot[d]
         /\ thread' \in [Sessions -> Busy \cup {"queued", "read", "closed"}]
         /\ slot' \in [Sessions -> Nat]
         /\ thread[c] \in {"key1", "value1"} => slot'[c] = e
         /\ thread[c] = "key1" => thread'[c] = "key2"
         /\ thread[c] = "key2" => thread'[c] = "value1"
         /\ thread[c] = "value1" => thread'[c] = "value2"
         /\ thread[c] = "value2" => thread'[c] = "load"
    <2>1. e \in Nat /\ thread \in [Sessions -> Busy \cup {"queued", "read", "closed"}]
          /\ slot \in [Sessions -> Nat]
      BY <1>1, <1>3, <1>4 DEF ThreadTypes
    <2>2. CASE thread[c] = "key1"
      BY <1>5, <2>1, <2>2 DEF Busy
    <2>3. CASE thread[c] = "key2"
      BY <1>5, <2>1, <2>3 DEF Busy
    <2>4. CASE thread[c] = "value1"
      BY <1>5, <2>1, <2>4 DEF Busy
    <2>5. CASE thread[c] = "value2"
      BY <1>5, <2>1, <2>5 DEF Busy
    <2> QED
      BY <1>2, <2>2, <2>3, <2>4, <2>5
  <1>11. ThreadTypes'
    BY <1>1, <1>5, <1>8, <1>10 DEF ThreadTypes
  <1>12. \A d \in Sessions : d # c => Same(d)
    BY <1>5, <1>10 DEF Same
  <1>13. TableGood'
    <2>1. \A d \in Sessions : thread[d] = "update2" => thread'[d] = "update2" /\ scanned'[d] = scanned[d]
      BY <1>2, <1>5, <1>10
    <2> QED
      BY <1>5, <1>9, <2>1, TableStays
  <1>14. Placed(c)' /\ Answered(c)'
    BY <1>1, <1>3, <1>5, <1>10 DEF Placed, Answered, Busy, Filling
  <1>15. entries[e] \in Cells /\ entries'[e] \in Cells
    BY <1>1, <1>3, <1>4, <1>8 DEF ThreadTypes
  <1>16. /\ thread[c] = "key1" => entries'[e].key[1] = cmd[c].key
         /\ thread[c] = "key2" => entries'[e].key = Threaded!Whole(cmd[c].key)
         /\ thread[c] = "value1" => /\ entries'[e].key = Threaded!Whole(cmd[c].key)
                                    /\ entries'[e].value[1] = cmd[c].value
         /\ thread[c] = "value2" => /\ entries'[e].key = Threaded!Whole(cmd[c].key)
                                    /\ entries'[e].value = Threaded!Whole(cmd[c].value)
    <2>1. /\ entries \in [1..TABLE_ENTRIES -> Cells] /\ e \in 1..TABLE_ENTRIES
          /\ 1 \in 1..2 /\ 2 \in 1..2 /\ 1 # 2
          /\ "key" \in {"key", "value"} /\ "value" \in {"key", "value"}
      BY <1>1, <1>3, <1>4 DEF ThreadTypes
    <2>2. entries'[e].key \in Pairs /\ entries'[e].value \in Pairs
      BY <1>15 DEF Cells
    <2>3. CASE thread[c] = "key1"
      <3>1. entries' = Copied(entries, e, "key", 1, cmd[c].key)
        BY <1>5, <2>3
      <3> QED
        BY <1>6, <2>1, <2>3, <3>1, HalfCopied DEF Arrived
    <2>4. CASE thread[c] = "key2"
      <3>1. entries' = Copied(entries, e, "key", 2, cmd[c].key)
        BY <1>5, <2>4
      <3>2. Arrived(entries', entries, e, "key", 2, cmd[c].key)
        BY <1>6, <2>1, <3>1, HalfCopied, Zenon
      <3>3. entries'[e].key[2] = cmd[c].key /\ entries'[e].key[1] = entries[e].key[1]
        BY <2>1, <3>2 DEF Arrived
      <3>4. entries[e].key[1] = cmd[c].key
        BY <1>1, <1>4, <2>4 DEF Positioned
      <3> QED
        BY <1>6, <2>2, <2>4, <3>3, <3>4, PairIsWhole
    <2>5. CASE thread[c] = "value1"
      <3>1. entries' = Copied(entries, e, "value", 1, cmd[c].value)
        BY <1>5, <2>5
      <3>2. Arrived(entries', entries, e, "value", 1, cmd[c].value)
        BY <1>6, <2>1, <3>1, HalfCopied, Zenon
      <3>3. entries'[e].value[1] = cmd[c].value /\ entries'[e].key = entries[e].key
        BY <2>1, <3>2 DEF Arrived
      <3> QED
        BY <1>1, <1>4, <2>5, <3>3 DEF Positioned
    <2>6. CASE thread[c] = "value2"
      <3>1. entries' = Copied(entries, e, "value", 2, cmd[c].value)
        BY <1>5, <2>6
      <3>2. Arrived(entries', entries, e, "value", 2, cmd[c].value)
        BY <1>6, <2>1, <3>1, HalfCopied, Zenon
      <3>3. /\ entries'[e].value[2] = cmd[c].value /\ entries'[e].value[1] = entries[e].value[1]
            /\ entries'[e].key = entries[e].key
        BY <2>1, <3>2 DEF Arrived
      <3>4. entries[e].value[1] = cmd[c].value /\ entries[e].key = Threaded!Whole(cmd[c].key)
        BY <1>1, <1>4, <2>6 DEF Positioned
      <3> QED
        BY <1>6, <2>2, <2>6, <3>3, <3>4, PairIsWhole
    <2> QED
      BY <1>2, <2>3, <2>4, <2>5, <2>6
  <1>17. \A d \in 1..store_count : entries'[d].key # Threaded!Whole(cmd[c].key)
    BY <1>1, <1>2, <1>9 DEF Positioned, Filling
  <1>18. Positioned(c)'
    BY <1>2, <1>3, <1>4, <1>5, <1>10, <1>16, <1>17 DEF Positioned, Filling
  <1>19. Threaded!Setting(c) /\ store_count' >= store_count
    BY <1>2, <1>3, <1>5 DEF Threaded!Setting
  <1> QED
    BY <1>9, <1>11, <1>12, <1>13, <1>14, <1>18, <1>19, ThreadStep

\* A half of the value of a key in the table is overwritten.
LEMMA UpdateSteps ==
  ASSUME ThreadSizes, ThreadParts, Threaded!History, ~overlapped', NEW c \in Sessions,
         NEW h \in {1, 2}, Threaded!UpdateHalf(c, h)
  PROVE  ThreadParts'
  <1>1. Placed(c) /\ Positioned(c) /\ Answered(c) /\ ThreadTypes /\ TableGood
    BY DEF ThreadParts
  <1>2. thread[c] = IF h = 1 THEN "update1" ELSE "update2"
    BY DEF Threaded!UpdateHalf
  <1>3. PICK e : e = scanned[c]
    OBVIOUS
  <1>4. PICK k : k = cmd[c].key
    OBVIOUS
  <1>5. /\ cmd[c] # None /\ cmd[c].op = "SET" /\ k \in Keys /\ cmd[c].value = c
        /\ store_count \in Nat /\ store_count <= TABLE_ENTRIES /\ TABLE_ENTRIES \in Nat
        /\ e \in 1..store_count /\ entries[e].key = Threaded!Whole(k)
        /\ h = 2 => entries[e].value[1] = c
        /\ answer[c] = Threaded!Whole(None)
        /\ c # None
    <2>1. cmd[c] # None /\ cmd[c].op = "SET"
      BY <1>1, <1>2 DEF Placed, Busy
    <2>2. k \in Keys /\ cmd[c].value = c
      BY <1>1, <1>4, <2>1, CommandParts
    <2>3. /\ store_count \in Nat /\ store_count <= TABLE_ENTRIES /\ TABLE_ENTRIES \in Nat
          /\ c # None
      BY <1>1 DEF ThreadTypes, ThreadSizes, TableGood
    <2> HIDE DEF Threaded!Whole
    <2>4. e \in 1..store_count /\ entries[e].key = Threaded!Whole(k)
      BY <1>1, <1>2, <1>3, <1>4 DEF Positioned
    <2>5. h = 2 => entries[e].value[1] = c
      BY <1>1, <1>2, <1>3, <2>2 DEF Positioned
    <2>6. answer[c] = Threaded!Whole(None)
      BY <1>1, <1>2 DEF Answered
    <2> QED
      BY <2>1, <2>2, <2>3, <2>4, <2>5, <2>6
  <1> HIDE DEF Threaded!Whole
  <1>6. /\ UNCHANGED <<store_count, scanned, slot, loaded, answer, overrun, user, cmd>>
        /\ entries' = Copied(entries, e, "value", h, c)
        /\ thread' = [thread EXCEPT ![c] = IF h = 1 THEN "update2" ELSE "reply"]
        /\ latest' = IF h = 1 THEN latest ELSE [latest EXCEPT ![k] = c]
    BY <1>3, <1>4, <1>5 DEF Threaded!UpdateHalf, Threaded!clientVars, Copied
  <1>7. Arrived(entries', entries, e, "value", h, c)
    <2>1. /\ entries \in [1..TABLE_ENTRIES -> Cells] /\ e \in 1..TABLE_ENTRIES
          /\ h \in 1..2 /\ "value" \in {"key", "value"} /\ c \in Halves
      BY <1>1, <1>5 DEF ThreadTypes, Halves
    <2> QED
      BY <1>6, <2>1, HalfCopied, Zenon
  <1>8. /\ entries' \in [1..TABLE_ENTRIES -> Cells]
        /\ \A d \in 1..TABLE_ENTRIES : d # e => entries'[d] = entries[d]
        /\ entries'[e].value[h] = c /\ entries'[e].key = entries[e].key
        /\ \A g \in 1..2 : g # h => entries'[e].value[g] = entries[e].value[g]
    BY <1>7 DEF Arrived
  <1>9. \A d \in 1..store_count : entries'[d].key = entries[d].key /\ (d # e => entries'[d] = entries[d])
    BY <1>5, <1>8
  <1>10. /\ \A d \in Sessions : d # c => thread'[d] = thread[d]
         /\ thread'[c] = IF h = 1 THEN "update2" ELSE "reply"
         /\ thread' \in [Sessions -> Busy \cup {"queued", "read", "closed"}]
    BY <1>1, <1>6 DEF ThreadTypes, Busy
  <1>11. /\ latest' \in [Keys -> Sessions \cup {None}]
         /\ \A l \in Keys : l # k => latest'[l] = latest[l]
         /\ h = 1 => latest'[k] = latest[k]
         /\ h = 2 => latest'[k] = c
    BY <1>1, <1>5, <1>6 DEF ThreadTypes
  <1>12. ThreadTypes'
    BY <1>1, <1>6, <1>8, <1>10, <1>11 DEF ThreadTypes
  <1>13. \A d \in Sessions : d # c => Same(d)
    BY <1>6, <1>10 DEF Same
  <1>14. Placed(c)' /\ Answered(c)'
    BY <1>1, <1>2, <1>5, <1>6, <1>10 DEF Placed, Answered, Busy, Filling
  <1>15. Positioned(c)'
    BY <1>3, <1>4, <1>5, <1>6, <1>8, <1>10 DEF Positioned, Filling
  <1>16. TableGood'
    <2>1. ASSUME NEW f \in 1..store_count, NEW l \in Keys, entries'[f].key = Threaded!Whole(l)
          PROVE  /\ latest'[l] # None /\ entries'[f].value[2] = latest'[l]
                 /\ \/ entries'[f].value[1] = latest'[l]
                    \/ \E d \in Sessions : thread'[d] = "update2" /\ scanned'[d] = f
      <3>1. entries[f].key = Threaded!Whole(l)
        BY <1>9, <2>1
      <3>2. /\ latest[l] # None /\ entries[f].value[2] = latest[l]
            /\ \/ entries[f].value[1] = latest[l]
               \/ \E d \in Sessions : thread[d] = "update2" /\ scanned[d] = f
        BY <1>1, <3>1 DEF TableGood
      <3>3. CASE f = e
        <4>1. l = k
          BY <1>5, <3>1, <3>3 DEF Threaded!Whole
        <4>2. CASE h = 1
          BY <1>3, <1>6, <1>8, <1>10, <1>11, <3>2, <3>3, <4>1, <4>2
        <4>3. CASE h = 2
          BY <1>5, <1>8, <1>11, <3>3, <4>1, <4>3
        <4> QED
          BY <4>2, <4>3
      <3>4. CASE f # e
        <4>1. l # k
          BY <1>1, <1>5, <3>1, <3>4 DEF TableGood
        <4>2. latest'[l] = latest[l] /\ entries'[f] = entries[f]
          BY <1>9, <1>11, <3>4, <4>1
        <4>3. \A d \in Sessions : scanned[d] = f => d # c
          BY <1>3, <3>4
        <4> QED
          BY <1>6, <1>10, <3>2, <4>2, <4>3
      <3> QED
        BY <3>3, <3>4
    <2>2. ASSUME NEW l \in Keys, latest'[l] # None
          PROVE  \E f \in 1..store_count : entries'[f].key = Threaded!Whole(l)
      <3>1. CASE l = k
        BY <1>5, <1>9, <3>1
      <3>2. CASE l # k
        BY <1>1, <1>9, <1>11, <2>2, <3>2 DEF TableGood
      <3> QED
        BY <3>1, <3>2
    <2>3. /\ ~overrun /\ store_count <= TABLE_ENTRIES
          /\ \A f \in 1..store_count : \E l \in Keys : entries[f].key = Threaded!Whole(l)
          /\ \A d, f \in 1..store_count : entries[d].key = entries[f].key => d = f
      BY <1>1 DEF TableGood
    <2>4. /\ \A f \in 1..store_count : \E l \in Keys : entries'[f].key = Threaded!Whole(l)
          /\ \A d, f \in 1..store_count : entries'[d].key = entries'[f].key => d = f
      BY <1>9, <2>3
    <2> QED
      BY <1>6, <2>1, <2>2, <2>3, <2>4 DEF TableGood
  <1>17. Threaded!Setting(c) /\ store_count' >= store_count
    BY <1>2, <1>5, <1>6 DEF Threaded!Setting
  <1> QED
    BY <1>9, <1>12, <1>13, <1>14, <1>15, <1>16, <1>17, ThreadStep

\* The store of store_count++ makes the entry behind the table its last one.
LEMMA CountStores ==
  ASSUME ThreadSizes, ThreadParts, Threaded!History, ~overlapped', NEW c \in Sessions,
         Threaded!StoreCount(c)
  PROVE  ThreadParts'
  <1>1. Placed(c) /\ Positioned(c) /\ Answered(c) /\ ThreadTypes /\ TableGood
    BY DEF ThreadParts
  <1>2. thread[c] = "store"
    BY DEF Threaded!StoreCount
  <1>3. PICK k : k = cmd[c].key
    OBVIOUS
  <1>4. PICK e : e = store_count + 1
    OBVIOUS
  <1>5. /\ cmd[c] # None /\ cmd[c].op = "SET" /\ k \in Keys /\ cmd[c].value = c
        /\ store_count \in Nat /\ store_count < TABLE_ENTRIES /\ TABLE_ENTRIES \in Nat
        /\ entries[e].key = Threaded!Whole(k) /\ entries[e].value = Threaded!Whole(c)
        /\ \A d \in 1..store_count : entries[d].key # Threaded!Whole(k)
        /\ answer[c] = Threaded!Whole(None)
        /\ loaded[c] = store_count /\ c # None
    BY <1>1, <1>2, <1>3, <1>4, CommandParts DEF Placed, Positioned, Answered, Busy, Filling,
       ThreadTypes, ThreadSizes
  <1>6. entries[e].value[1] = c /\ entries[e].value[2] = c
    BY <1>5 DEF Threaded!Whole
  <1> HIDE DEF Threaded!Whole
  <1>7. /\ UNCHANGED <<entries, scanned, slot, loaded, answer, overrun, user, cmd>>
        /\ store_count' = e
        /\ thread' = [thread EXCEPT ![c] = "reply"]
        /\ latest' = [latest EXCEPT ![k] = c]
    BY <1>3, <1>4, <1>5 DEF Threaded!StoreCount, Threaded!clientVars
  <1>8. /\ \A d \in Sessions : d # c => thread'[d] = thread[d]
        /\ thread'[c] = "reply"
        /\ thread' \in [Sessions -> Busy \cup {"queued", "read", "closed"}]
    BY <1>1, <1>7 DEF ThreadTypes, Busy
  <1>9. /\ latest' \in [Keys -> Sessions \cup {None}] /\ latest'[k] = c
        /\ \A l \in Keys : l # k => latest'[l] = latest[l]
    BY <1>1, <1>5, <1>7 DEF ThreadTypes
  <1>10. /\ e \in Nat /\ e <= TABLE_ENTRIES /\ store_count <= e
         /\ \A d \in 1..e : d = e \/ d \in 1..store_count
         /\ \A d \in 1..store_count : d \in 1..e
    BY <1>4, <1>5
  <1>11. ThreadTypes'
    BY <1>1, <1>7, <1>8, <1>9, <1>10 DEF ThreadTypes
  <1>12. \A d \in Sessions : d # c => Same(d)
    BY <1>7, <1>8 DEF Same
  <1>13. Placed(c)' /\ Answered(c)' /\ Positioned(c)'
    BY <1>1, <1>2, <1>5, <1>7, <1>8 DEF Placed, Answered, Positioned, Busy, Filling
  <1>14. TableGood'
    <2>1. ASSUME NEW f \in 1..e, NEW l \in Keys, entries[f].key = Threaded!Whole(l)
          PROVE  /\ latest'[l] # None /\ entries[f].value[2] = latest'[l]
                 /\ \/ entries[f].value[1] = latest'[l]
                    \/ \E d \in Sessions : thread'[d] = "update2" /\ scanned'[d] = f
      <3>1. CASE f = e
        <4>1. l = k
          BY <1>5, <2>1, <3>1 DEF Threaded!Whole
        <4> QED
          BY <1>5, <1>6, <1>9, <3>1, <4>1
      <3>2. CASE f \in 1..store_count
        <4>1. l # k
          BY <1>5, <2>1, <3>2
        <4>2. /\ latest[l] # None /\ entries[f].value[2] = latest[l]
              /\ \/ entries[f].value[1] = latest[l]
                 \/ \E d \in Sessions : thread[d] = "update2" /\ scanned[d] = f
          BY <1>1, <2>1, <3>2 DEF TableGood
        <4> QED
          BY <1>2, <1>7, <1>8, <1>9, <4>1, <4>2
      <3> QED
        BY <1>10, <3>1, <3>2
    <2>2. ASSUME NEW l \in Keys, latest'[l] # None
          PROVE  \E f \in 1..e : entries[f].key = Threaded!Whole(l)
      <3>1. CASE l = k
        <4>1. e \in 1..e
          BY <1>4, <1>5
        <4> QED
          BY <1>5, <3>1, <4>1
      <3>2. CASE l # k
        <4>1. PICK f \in 1..store_count : entries[f].key = Threaded!Whole(l)
          BY <1>1, <1>9, <2>2, <3>2 DEF TableGood
        <4>2. f \in 1..e
          BY <1>4, <1>5
        <4> QED
          BY <4>1, <4>2
      <3> QED
        BY <3>1, <3>2
    <2>3. \A f \in 1..e : \E l \in Keys : entries[f].key = Threaded!Whole(l)
      BY <1>1, <1>5, <1>10 DEF TableGood
    <2>4. \A d, f \in 1..e : entries[d].key = entries[f].key => d = f
      BY <1>1, <1>5, <1>10 DEF TableGood
    <2>5. ~overrun
      BY <1>1 DEF TableGood
    <2> QED
      BY <1>7, <1>10, <2>1, <2>2, <2>3, <2>4, <2>5 DEF TableGood
  <1>15. Threaded!Setting(c) /\ store_count' >= store_count
    BY <1>2, <1>4, <1>5, <1>7 DEF Threaded!Setting
  <1>16. \A d \in 1..store_count : entries'[d].key = entries[d].key
    BY <1>7
  <1> QED
    BY <1>16, <1>11, <1>12, <1>13, <1>14, <1>15, ThreadStep

\* The invariant says what the property asks for.
LEMMA ThreadsAreSafe ==
  ASSUME ThreadSizes, ThreadInv
  PROVE  Threaded!SafeWithOneWriter
  <1> SUFFICES ASSUME ~overlapped
               PROVE  /\ ~overrun /\ store_count <= TABLE_ENTRIES
                      /\ \A e \in 1..store_count : \E k \in Keys : entries[e].key = Threaded!Whole(k)
                      /\ \A d, e \in 1..store_count : entries[d].key = entries[e].key => d = e
                      /\ \A k \in Keys : latest[k] # None =>
                           \E e \in 1..store_count :
                              /\ entries[e].key = Threaded!Whole(k)
                              /\ \A h \in {1, 2} : entries[e].value[h] \in Threaded!Now(k)
                      /\ \A c \in Sessions : Threaded!Getting(c) /\ thread[c] = "reply" =>
                           {answer[c][1], answer[c][2]} \subseteq since[c]
    BY DEF Threaded!SafeWithOneWriter, Threaded!Live
  <1>1. ThreadParts
    BY DEF ThreadInv
  <1> HIDE DEF Threaded!Whole
  <1>2. ASSUME NEW k \in Keys, latest[k] # None
        PROVE  \E e \in 1..store_count :
                  /\ entries[e].key = Threaded!Whole(k)
                  /\ \A h \in {1, 2} : entries[e].value[h] \in Threaded!Now(k)
    <2>1. PICK e \in 1..store_count : entries[e].key = Threaded!Whole(k)
      BY <1>1, <1>2 DEF ThreadParts, TableGood
    <2>2. /\ entries[e].value[2] = latest[k]
          /\ \/ entries[e].value[1] = latest[k]
             \/ \E d \in Sessions : thread[d] = "update2" /\ scanned[d] = e
      BY <1>1, <2>1 DEF ThreadParts, TableGood
    <2>3. ASSUME NEW d \in Sessions, thread[d] = "update2", scanned[d] = e
          PROVE  entries[e].value[1] = cmd[d].value /\ cmd[d].key = k
      <3>1. /\ entries[e].key = Threaded!Whole(cmd[d].key) /\ cmd[d] # None
            /\ entries[e].value[1] = cmd[d].value /\ cmd[d].op = "SET"
        BY <1>1, <2>3 DEF ThreadParts, Placed, Positioned, Busy
      <3> QED
        BY <2>1, <3>1 DEF Threaded!Whole
    <2>4. entries[e].value[1] \in Threaded!Now(k) /\ entries[e].value[2] \in Threaded!Now(k)
      BY <2>2, <2>3 DEF Threaded!Now
    <2> QED
      BY <2>1, <2>4
  <1>3. \A c \in Sessions : Threaded!Getting(c) /\ thread[c] = "reply" =>
           {answer[c][1], answer[c][2]} \subseteq since[c]
    BY <1>1 DEF ThreadParts, Answered, Threaded!Getting
  <1> QED
    BY <1>1, <1>2, <1>3 DEF ThreadParts, TableGood

\* Without a lock the threads do no harm as long as no two kv_set run at
\* once, for any number of clients, keys and entries: the table stays within
\* its bounds, has what was stored, and a concurrent kv_get prints halves of
\* values its key had meanwhile.
THEOREM OneWriterIsSafe == Spec => []SafeWithOneWriter
  <1>1. ThreadSizes
    BY ConstantsAssumption DEF ThreadSizes
  <1>2. Init => ThreadInv
    BY <1>1, ThreadsStart DEF Init
  <1>3. ThreadInv /\ [Next]_vars => ThreadInv'
    <2> SUFFICES ASSUME ThreadInv, [Next]_vars, ~overlapped' PROVE ThreadParts'
      BY DEF ThreadInv
    <2>1. CASE UNCHANGED threadVars
      <3>1. ThreadParts
        BY <2>1 DEF threadVars, ThreadInv
      <3> QED
        BY <2>1, <3>1 DEF threadVars, ThreadParts, ThreadTypes, OneWriter, TableGood, Placed,
           Positioned, Answered, Threaded!Setting
    <2>2. CASE Threaded!Next
      <3>1. Threaded!History /\ ThreadParts
        BY <2>2 DEF Threaded!Next, Threaded!History, ThreadInv
      <3>2. PICK c \in Sessions :
               \/ Threaded!Accept(c) \/ Threaded!handle_client(c)
               \/ \E m \in Threaded!Commands(c) : Threaded!SendCommand(c, m)
               \/ Threaded!Quit(c)
        BY <2>2 DEF Threaded!Next
      <3>3. CASE Threaded!kv_set(c)
        BY <1>1, <3>1, <3>3, CountLoads, FillSteps, UpdateSteps, CountStores DEF Threaded!kv_set
      <3> QED
        BY <1>1, <3>1, <3>2, <3>3, ClientSteps, ConnectionSteps, ScanSteps, PrintSteps
           DEF Threaded!handle_client
    <2> QED
      BY <2>1, <2>2, OneProgramMoves
  <1>4. ThreadInv => SafeWithOneWriter
    BY <1>1, ThreadsAreSafe DEF SafeWithOneWriter
  <1> QED
    BY <1>2, <1>3, <1>4, PTL DEF Spec
-----------------------------------------------------------------------------
(***************************************************************************)
(* The chat server of src/multi-client-chat-server.                        *)
(***************************************************************************)
ChatSizes == MAX_USERS \in Nat \ {0} /\ None \notin Clients /\ None \notin Nat

ChatLines    == Clients \X Nat
ChatMessages == ChatLines \cup {Chat!Greeting}

\* The sequences of the chat server hold lines.
ChatTypes ==
    /\ running \in BOOLEAN
    /\ client_fd \in [Chat!Slots -> Clients \cup {None}]
    /\ waiting \in Seq(Clients)
    /\ ready \subseteq Chat!Slots
    /\ member \in [Clients -> {"new", "on", "gone"}]
    /\ typed \in [Clients -> Nat]
    /\ unread \in [Clients -> Seq(ChatLines)]
    /\ heard \in [Clients -> Seq(ChatMessages)]
    /\ shown \in [Clients -> Seq(ChatMessages)]
    /\ transcript \in Seq(ChatLines)
    /\ joined \in [Clients -> Nat \cup {None}]

\* A user has one slot, and a slot that select has found readable still is.
ChatSlots ==
    /\ \A i, j \in Chat!Slots : client_fd[i] = client_fd[j] /\ client_fd[i] # None => i = j
    /\ \A i \in ready : /\ client_fd[i] # None
                        /\ unread[client_fd[i]] # <<>> \/ member[client_fd[i]] = "gone"

\* A connection waits once, and its user was not accepted before.
ChatQueue ==
    /\ \A i, j \in 1..Len(waiting) : waiting[i] = waiting[j] => i = j
    /\ \A i \in 1..Len(waiting) : joined[waiting[i]] = None /\ member[waiting[i]] # "new"

\* A user that was not accepted has seen nothing and nothing of it was
\* printed; one that was, has a slot, or never had one, or has left.
ChatUsers ==
    \A c \in Clients :
        /\ joined[c] = None =>
              shown[c] = <<>> /\ heard[c] = <<>> /\ ~Chat!InTable(c) /\ Chat!LinesOf(c) = {}
        /\ joined[c] # None =>
              /\ joined[c] \in 0..Len(transcript) /\ member[c] # "new"
              /\ \/ Chat!InTable(c)
                 \/ Chat!LinesOf(c) = {}
                 \/ member[c] = "gone" /\ unread[c] = <<>>

ChatInv == /\ ChatTypes /\ ChatSlots /\ ChatQueue /\ ChatUsers
           /\ Chat!SameConversation /\ Chat!NothingLost

\* The module's cardinality is the one of the library.
LEMMA ChatCard == \A S : Chat!Cardinality(S) = Cardinality(S)
  BY Zenon DEF Chat!Cardinality, Cardinality

\* How places rank in a set P, and in Q, which has the M places after L too.
Ranked(P, Q, L, M) ==
    /\ Cardinality(P) \in Nat
    /\ Cardinality(Q) = Cardinality(P) + M
    /\ \A k \in P : /\ Chat!Rank(P, k) \in Nat /\ Chat!Rank(P, k) <= Cardinality(P)
                    /\ Chat!Rank(Q, k) = Chat!Rank(P, k)
    /\ \A m \in 1..M : Chat!Rank(Q, L + m) = Cardinality(P) + m

\* The places after L come after those of P.
LEMMA RankLonger ==
  ASSUME NEW L \in Nat, NEW M \in Nat, NEW P, P \subseteq 1..L,
         NEW Q, Q = P \cup ((L + 1)..(L + M))
  PROVE  Ranked(P, Q, L, M)
  <1>1. IsFiniteSet(1..L) /\ IsFiniteSet(P)
    <2>1. 1 \in Int /\ L \in Int
      OBVIOUS
    <2>2. IsFiniteSet(1..L)
      BY <2>1, FS_Interval
    <2> QED
      BY <2>2, FS_Subset
  <1>2. Cardinality(P) \in Nat
    BY <1>1, FS_CardinalityType
  <1>3. ASSUME NEW m \in 0..M
        PROVE  Cardinality(P \cup ((L + 1)..(L + m))) = Cardinality(P) + m
    <2>1. IsFiniteSet((L + 1)..(L + m)) /\ Cardinality((L + 1)..(L + m)) = m
      <3>1. L + 1 \in Int /\ L + m \in Int /\ (L + 1 > L + m <=> m = 0) /\ L + m - (L + 1) + 1 = m
        OBVIOUS
      <3> QED
        BY <3>1, FS_Interval
    <2>2. P \cap ((L + 1)..(L + m)) = {}
      OBVIOUS
    <2>3. Cardinality(P \cap ((L + 1)..(L + m))) = 0
      BY <2>2, FS_EmptySet
    <2> QED
      <3> DEFINE T == (L + 1)..(L + m)
      <3>1. IsFiniteSet(T) /\ Cardinality(T) = m /\ Cardinality(P \cap T) = 0
        BY <2>1, <2>3
      <3> HIDE DEF T
      <3>2. Cardinality(P \cup T) = Cardinality(P) + Cardinality(T) - Cardinality(P \cap T)
        BY <1>1, <3>1, FS_Union
      <3>3. Cardinality(P \cup T) = Cardinality(P) + m
        BY <1>2, <3>1, <3>2
      <3> QED
        BY <3>3 DEF T
  <1>4. ASSUME NEW k \in P
        PROVE  /\ Chat!Rank(P, k) \in Nat /\ Chat!Rank(P, k) <= Cardinality(P)
               /\ Chat!Rank(Q, k) = Chat!Rank(P, k)
    <2>1. {j \in Q : j <= k} = {j \in P : j <= k}
      OBVIOUS
    <2>2. /\ Cardinality({j \in P : j <= k}) \in Nat
          /\ Cardinality({j \in P : j <= k}) <= Cardinality(P)
      <3>1. {j \in P : j <= k} \subseteq P
        OBVIOUS
      <3> QED
        BY <3>1, <1>1, FS_Subset, FS_CardinalityType
    <2> QED
      BY <2>1, <2>2, ChatCard DEF Chat!Rank
  <1>5. ASSUME NEW m \in 1..M
        PROVE  Chat!Rank(Q, L + m) = Cardinality(P) + m
    <2>1. {j \in Q : j <= L + m} = P \cup ((L + 1)..(L + m))
      <3>1. ASSUME NEW j \in Q, j <= L + m PROVE j \in P \cup ((L + 1)..(L + m))
        BY <3>1
      <3>2. ASSUME NEW j \in P PROVE j \in Q /\ j <= L + m
        OBVIOUS
      <3>3. ASSUME NEW j \in (L + 1)..(L + m) PROVE j \in Q /\ j <= L + m
        OBVIOUS
      <3> QED
        BY <3>1, <3>2, <3>3
    <2>2. m \in 0..M
      OBVIOUS
    <2>3. Cardinality({j \in Q : j <= L + m}) = Cardinality(P) + m
      BY <1>3, <2>1, <2>2
    <2> QED
      BY <2>3, ChatCard DEF Chat!Rank
  <1>6. Cardinality(Q) = Cardinality(P) + M
    BY <1>3
  <1> QED
    BY <1>2, <1>4, <1>5, <1>6 DEF Ranked

\* got is a beginning of the lines at P, and of those at Q too.
FollowsOn(got, s, new, P, Q) ==
    /\ Chat!Follows(got, P, s \o new)
    /\ Chat!Follows(got, Q, s \o new)
    /\ Cardinality(P) \in Nat /\ Cardinality(Q) = Cardinality(P) + Len(new)
    /\ (got # <<>> /\ Len(got) = 1 + Cardinality(P)) =>
          /\ Chat!Follows(got \o new, Q, s \o new)
          /\ Len(got \o new) = 1 + Cardinality(Q)

\* What was seen of a conversation stays a beginning of it while the server
\* prints more, whether the new lines are part of it or not; and whoever had
\* all of it and gets the new lines has all of it again.
LEMMA FollowsLonger ==
  ASSUME NEW got \in Seq(ChatMessages), NEW s \in Seq(ChatLines), NEW new \in Seq(ChatLines),
         NEW P, P \subseteq 1..Len(s), Chat!Follows(got, P, s),
         NEW Q, Q = P \cup ((Len(s) + 1)..(Len(s) + Len(new)))
  PROVE  FollowsOn(got, s, new, P, Q)
  <1> DEFINE L == Len(s)
             M == Len(new)
             n(k) == Chat!Rank(P, k)
             r(k) == Chat!Rank(Q, k)
  <1>1. /\ L \in Nat /\ M \in Nat /\ Len(got) \in Nat
        /\ \A k \in 1..L : (s \o new)[k] = s[k]
        /\ \A m \in 1..M : (s \o new)[L + m] = new[m]
    OBVIOUS
  <1>2. /\ Cardinality(P) \in Nat /\ Cardinality(Q) = Cardinality(P) + M
        /\ \A k \in P : n(k) \in Nat /\ n(k) <= Cardinality(P) /\ r(k) = n(k)
        /\ \A m \in 1..M : r(L + m) = Cardinality(P) + m
    <2>1. L \in Nat /\ M \in Nat /\ P \subseteq 1..L /\ Q = P \cup ((L + 1)..(L + M))
      OBVIOUS
    <2> HIDE DEF L, M
    <2>2. Ranked(P, Q, L, M)
      BY <2>1, RankLonger, Zenon
    <2> QED
      BY <2>2, Zenon DEF Ranked
  <1>3. /\ got # <<>> => got[1] = Chat!Greeting
        /\ Len(got) <= 1 + Cardinality(P)
        /\ \A k \in P : n(k) < Len(got) => got[1 + n(k)] = s[k]
    BY ChatCard DEF Chat!Follows
  <1>4. ASSUME NEW k \in Q
        PROVE  \/ k \in P /\ k \in 1..L
               \/ \E m \in 1..M : k = L + m
    <2>1. CASE k \in P
      BY <2>1
    <2>2. CASE k \in (L + 1)..(L + M)
      <3>1. k - L \in 1..M /\ k = L + (k - L)
        BY <1>1, <2>2
      <3> QED
        BY <3>1
    <2> QED
      BY <2>1, <2>2
  <1> HIDE DEF L, M, n, r
  <1>5. \A k \in P : n(k) < Len(got) => got[1 + n(k)] = (s \o new)[k]
    BY <1>1, <1>3 DEF L
  <1>6. Chat!Follows(got, P, s \o new)
    BY <1>3, <1>5, ChatCard DEF Chat!Follows, n
  <1>7. ASSUME NEW k \in Q, r(k) < Len(got) PROVE got[1 + r(k)] = (s \o new)[k]
    <2>1. CASE k \in P
      BY <1>2, <1>5, <1>7, <2>1
    <2>2. ASSUME NEW m \in 1..M, k = L + m PROVE FALSE
      <3>1. r(k) = Cardinality(P) + m /\ Cardinality(P) \in Nat /\ m \in Nat /\ m >= 1
        BY <1>1, <1>2, <2>2
      <3> QED
        BY <1>1, <1>3, <1>7, <3>1
    <2> QED
      BY <1>4, <2>1, <2>2
  <1>8. Len(got) <= 1 + Cardinality(Q)
    BY <1>1, <1>2, <1>3
  <1>9. Chat!Follows(got, Q, s \o new)
    BY <1>3, <1>7, <1>8, ChatCard DEF Chat!Follows, r
  <1>10. ASSUME got # <<>>, Len(got) = 1 + Cardinality(P)
         PROVE  /\ Chat!Follows(got \o new, Q, s \o new)
                /\ Len(got \o new) = 1 + Cardinality(Q)
    <2>1. /\ Len(got \o new) = Len(got) + M
          /\ \A i \in 1..Len(got) : (got \o new)[i] = got[i]
          /\ \A m \in 1..M : (got \o new)[Len(got) + m] = new[m]
          /\ Len(got) >= 1
      BY <1>10 DEF M
    <2>2. Len(got \o new) = 1 + Cardinality(Q)
      BY <1>1, <1>2, <1>10, <2>1
    <2>3. ASSUME NEW k \in Q PROVE (got \o new)[1 + r(k)] = (s \o new)[k]
      <3>1. CASE k \in P
        <4>1. 1 + n(k) \in 1..Len(got) /\ n(k) < Len(got)
          BY <1>1, <1>2, <1>10, <3>1
        <4> QED
          BY <1>2, <1>5, <2>1, <3>1, <4>1
      <3>2. ASSUME NEW m \in 1..M, k = L + m PROVE (got \o new)[1 + r(k)] = (s \o new)[k]
        <4>1. 1 + r(k) = Len(got) + m
          BY <1>1, <1>2, <1>10, <3>2
        <4> QED
          BY <1>1, <2>1, <3>2, <4>1
      <3> QED
        BY <1>4, <3>1, <3>2
    <2>4. (got \o new)[1] = Chat!Greeting
      BY <1>1, <1>3, <1>10, <2>1
    <2>5. Len(got \o new) <= 1 + Cardinality(Q)
      BY <1>1, <1>2, <2>2
    <2> QED
      BY <2>2, <2>3, <2>4, <2>5, ChatCard DEF Chat!Follows, r
  <1> QED
    BY <1>2, <1>6, <1>9, <1>10 DEF M, FollowsOn

\* No user, no connection and no line.
LEMMA ChatStarts ==
  ASSUME ChatSizes, Chat!Init
  PROVE  ChatInv
  <1>1. ChatTypes
    BY DEF ChatSizes, Chat!Init, ChatTypes, Chat!Slots
  <1>2. ASSUME NEW c \in Clients
        PROVE  joined[c] = None /\ ~Chat!InTable(c) /\ Chat!LinesOf(c) = {}
               /\ unread[c] = <<>> /\ typed[c] = 0 /\ shown[c] = <<>> /\ heard[c] = <<>>
    BY DEF ChatSizes, Chat!Init, Chat!InTable, Chat!LinesOf
  <1>3. ChatSlots /\ ChatQueue
    BY DEF Chat!Init, ChatSlots, ChatQueue
  <1>4. ChatUsers /\ Chat!SameConversation
    BY <1>2 DEF ChatUsers, Chat!SameConversation
  <1>5. Cardinality({}) = 0
    BY FS_EmptySet
  <1>6. DOMAIN <<>> = {} /\ Len(<<>>) = 0
    OBVIOUS
  <1>7. Chat!NothingLost
    <2> SUFFICES ASSUME NEW c \in Clients
                 PROVE  /\ \A k \in Chat!LinesOf(c) : transcript[k] = <<c, Chat!Rank(Chat!LinesOf(c), k)>>
                        /\ \A n \in DOMAIN unread[c] :
                              unread[c][n] = <<c, Chat!Cardinality(Chat!LinesOf(c)) + n>>
                        /\ typed[c] = Chat!Cardinality(Chat!LinesOf(c)) + Len(unread[c])
                        /\ unread[c] = <<>>
      BY Zenon DEF Chat!NothingLost
    <2>1. Chat!Cardinality(Chat!LinesOf(c)) = 0
      BY <1>2, <1>5, ChatCard
    <2> QED
      BY <1>2, <1>6, <2>1
  <1> QED
    BY <1>1, <1>3, <1>4, <1>7 DEF ChatInv

\* A client that connects, and one that leaves.
LEMMA ChatComings ==
  ASSUME ChatSizes, ChatInv, NEW c \in Clients, Chat!Join(c) \/ Chat!Leave(c)
  PROVE  ChatInv'
  <1> USE DEF ChatInv
  <1>0. /\ UNCHANGED <<running, client_fd, ready, typed, unread, heard, shown, transcript, joined>>
        /\ member[c] \in {"new", "on"}
        /\ member'[c] \in {"on", "gone"} /\ (member[c] = "on" => member'[c] = "gone")
        /\ (running /\ member'[c] = "on" => member[c] = "new")
        /\ \A d \in Clients : d # c => member'[d] = member[d]
    BY DEF Chat!Join, Chat!Leave, ChatTypes
  <1>1. ChatTypes'
    <2>1. member \in [Clients -> {"new", "on", "gone"}] /\ waiting \in Seq(Clients)
      BY DEF ChatTypes
    <2>2. waiting' \in Seq(Clients)
      BY <2>1 DEF Chat!Join, Chat!Leave
    <2>3. member' \in [Clients -> {"new", "on", "gone"}]
      BY <2>1 DEF Chat!Join, Chat!Leave
    <2> QED
      BY <1>0, <2>2, <2>3 DEF ChatTypes
  <1>2. ChatSlots'
    <2>1. \A i \in ready : client_fd[i] \in Clients
      BY DEF ChatTypes, ChatSlots
    <2> QED
      BY <1>0, <2>1 DEF ChatSlots
  <1>3. member[c] = "new" => joined[c] = None
    BY DEF ChatUsers
  <1>4. ChatQueue'
    <2>1. /\ waiting \in Seq(Clients)
          /\ \A i, j \in 1..Len(waiting) : waiting[i] = waiting[j] => i = j
          /\ \A i \in 1..Len(waiting) : joined[waiting[i]] = None /\ member[waiting[i]] # "new"
                                        /\ waiting[i] \in Clients
      <3>1. waiting \in Seq(Clients)
        BY DEF ChatTypes
      <3>2. \A i \in 1..Len(waiting) : waiting[i] \in Clients
        BY <3>1
      <3> QED
        BY <3>1, <3>2 DEF ChatQueue
    <2>2. \A i \in 1..Len(waiting) : member'[waiting[i]] # "new"
      BY <1>0, <2>1
    <2>3. CASE waiting' = waiting
      BY <1>0, <2>1, <2>2, <2>3 DEF ChatQueue
    <2>4. CASE member[c] = "new" /\ waiting' = Append(waiting, c)
      <3>1. /\ Len(waiting') = Len(waiting) + 1 /\ Len(waiting) \in Nat
            /\ \A i \in 1..Len(waiting) : waiting'[i] = waiting[i]
            /\ waiting'[Len(waiting) + 1] = c
        BY <2>1, <2>4
      <3>2. \A i \in 1..Len(waiting) : waiting[i] # c
        BY <2>1, <2>4
      <3>3. \A i \in 1..Len(waiting') : i \in 1..Len(waiting) \/ i = Len(waiting) + 1
        BY <3>1
      <3>4. \A i, j \in 1..Len(waiting') : waiting'[i] = waiting'[j] => i = j
        BY <2>1, <3>1, <3>2, <3>3
      <3>5. \A i \in 1..Len(waiting') : joined'[waiting'[i]] = None /\ member'[waiting'[i]] # "new"
        BY <1>0, <1>3, <2>1, <2>2, <2>4, <3>1, <3>3
      <3> QED
        BY <3>4, <3>5 DEF ChatQueue
    <2> QED
      BY <2>3, <2>4 DEF Chat!Join, Chat!Leave
  <1>5. /\ \A d : Chat!InTable(d)' = Chat!InTable(d)
        /\ \A d : Chat!LinesOf(d)' = Chat!LinesOf(d)
        /\ \A d : Chat!Conversation(d)' = Chat!Conversation(d)
    BY <1>0 DEF Chat!InTable, Chat!LinesOf, Chat!Conversation
  <1>6. ChatUsers'
    BY <1>0, <1>3, <1>5 DEF ChatUsers
  <1>7. Chat!SameConversation'
    BY <1>0, <1>3, <1>5 DEF Chat!SameConversation
  <1>8. Chat!NothingLost'
    BY <1>0, <1>5 DEF Chat!NothingLost
  <1> QED
    BY <1>1, <1>2, <1>4, <1>6, <1>7, <1>8

\* A user that reads and one that types.
LEMMA ChatShows ==
  ASSUME ChatSizes, ChatInv, NEW c \in Clients, Chat!Show(c)
  PROVE  ChatInv'
  <1> USE DEF ChatInv
  <1>0. UNCHANGED <<running, client_fd, waiting, ready, member, typed, unread, transcript, joined>>
    BY DEF Chat!Show
  <1>1. ChatTypes'
    BY DEF Chat!Show, ChatTypes
  <1>2. ChatSlots' /\ ChatQueue'
    BY <1>0 DEF ChatSlots, ChatQueue
  <1>3. \A d \in Clients : /\ (shown[d] \o heard[d])' = shown[d] \o heard[d]
                           /\ d # c => shown'[d] = shown[d] /\ heard'[d] = heard[d]
    <2>1. /\ shown'[c] = shown[c] \o heard[c] /\ heard'[c] = <<>>
          /\ \A d \in Clients : d # c => shown'[d] = shown[d] /\ heard'[d] = heard[d]
          /\ shown[c] \in Seq(ChatMessages) /\ heard[c] \in Seq(ChatMessages)
      BY DEF Chat!Show, ChatTypes
    <2>2. PICK g : g = shown[c] \o heard[c]
      OBVIOUS
    <2>3. g \in Seq(ChatMessages)
      BY <2>1, <2>2
    <2>4. g \o <<>> = g
      BY <2>3
    <2> QED
      BY <2>1, <2>2, <2>4
  <1>4. joined[c] # None
    BY DEF Chat!Show, ChatUsers
  <1>5. /\ \A d : Chat!InTable(d)' = Chat!InTable(d)
        /\ \A d : Chat!LinesOf(d)' = Chat!LinesOf(d)
        /\ \A d : Chat!Conversation(d)' = Chat!Conversation(d)
    BY <1>0 DEF Chat!InTable, Chat!LinesOf, Chat!Conversation
  <1>6. ChatUsers'
    BY <1>0, <1>3, <1>4, <1>5 DEF ChatUsers
  <1>7. Chat!SameConversation'
    BY <1>0, <1>3, <1>5 DEF Chat!SameConversation
  <1>8. Chat!NothingLost'
    BY <1>0, <1>5 DEF Chat!NothingLost
  <1> QED
    BY <1>1, <1>2, <1>6, <1>7, <1>8

LEMMA ChatTyping ==
  ASSUME ChatSizes, ChatInv, NEW c \in Clients, Chat!Type(c)
  PROVE  ChatInv'
  <1> USE DEF ChatInv
  <1>0. /\ UNCHANGED <<running, client_fd, waiting, ready, member, heard, shown, transcript, joined>>
        /\ member[c] = "on"
        /\ typed'[c] = typed[c] + 1 /\ unread'[c] = Append(unread[c], <<c, typed[c] + 1>>)
        /\ \A d \in Clients : d # c => typed'[d] = typed[d] /\ unread'[d] = unread[d]
    BY DEF Chat!Type, ChatTypes
  <1>1. /\ unread[c] \in Seq(ChatLines) /\ typed[c] \in Nat /\ Len(unread[c]) \in Nat
        /\ <<c, typed[c] + 1>> \in ChatLines
    BY DEF ChatTypes, ChatLines
  <1>2. /\ unread'[c] \in Seq(ChatLines) /\ Len(unread'[c]) = Len(unread[c]) + 1
        /\ unread'[c] # <<>>
        /\ \A n \in 1..Len(unread[c]) : unread'[c][n] = unread[c][n]
        /\ unread'[c][Len(unread[c]) + 1] = <<c, typed[c] + 1>>
    <2>1. PICK q, x : q = unread[c] /\ x = <<c, typed[c] + 1>>
      OBVIOUS
    <2>2. unread'[c] = Append(q, x) /\ q \in Seq(ChatLines) /\ x \in ChatLines
      BY <1>0, <1>1, <2>1
    <2>3. /\ Append(q, x) \in Seq(ChatLines) /\ Len(Append(q, x)) = Len(q) + 1
          /\ \A n \in 1..Len(q) : Append(q, x)[n] = q[n]
          /\ Append(q, x)[Len(q) + 1] = x /\ Append(q, x) # <<>>
      BY <2>2
    <2> QED
      BY <2>1, <2>2, <2>3
  <1>3. ChatTypes'
    BY <1>0, <1>1 DEF Chat!Type, ChatTypes
  <1>4. ChatSlots' /\ ChatQueue'
    <2>1. \A i \in ready : client_fd[i] \in Clients
      BY DEF ChatTypes, ChatSlots
    <2> QED
      BY <1>0, <1>2, <2>1 DEF ChatSlots, ChatQueue
  <1>5. /\ \A d : Chat!InTable(d)' = Chat!InTable(d)
        /\ \A d : Chat!LinesOf(d)' = Chat!LinesOf(d)
        /\ \A d : Chat!Conversation(d)' = Chat!Conversation(d)
    BY <1>0 DEF Chat!InTable, Chat!LinesOf, Chat!Conversation
  <1>6. ChatUsers'
    BY <1>0, <1>5 DEF ChatUsers
  <1>7. Chat!SameConversation'
    BY <1>0, <1>5 DEF Chat!SameConversation
  <1>8. Cardinality(Chat!LinesOf(c)) \in Nat
    <2>1. 1 \in Int /\ Len(transcript) \in Int
      BY DEF ChatTypes
    <2>2. IsFiniteSet(1..Len(transcript)) /\ Chat!LinesOf(c) \subseteq 1..Len(transcript)
      BY <2>1, FS_Interval DEF Chat!LinesOf
    <2> QED
      BY <2>2, FS_Subset, FS_CardinalityType
  <1>9. /\ typed[c] = Cardinality(Chat!LinesOf(c)) + Len(unread[c])
        /\ \A n \in 1..Len(unread[c]) : unread[c][n] = <<c, Cardinality(Chat!LinesOf(c)) + n>>
    BY <1>1, ChatCard DEF Chat!NothingLost
  <1>10. /\ typed'[c] = Cardinality(Chat!LinesOf(c)) + Len(unread'[c])
         /\ typed[c] + 1 = Cardinality(Chat!LinesOf(c)) + (Len(unread[c]) + 1)
    BY <1>0, <1>1, <1>2, <1>8, <1>9
  <1>11. \A n \in DOMAIN unread'[c] : unread'[c][n] = <<c, Cardinality(Chat!LinesOf(c)) + n>>
    <2>1. DOMAIN unread'[c] = 1..(Len(unread[c]) + 1)
      BY <1>2
    <2>2. \A n \in 1..(Len(unread[c]) + 1) : n \in 1..Len(unread[c]) \/ n = Len(unread[c]) + 1
      BY <1>1
    <2> QED
      BY <1>2, <1>9, <1>10, <2>1, <2>2
  <1>12. joined[c] # None => Chat!InTable(c) \/ Chat!LinesOf(c) = {}
    BY <1>0 DEF ChatUsers
  <1>13. Chat!NothingLost'
    <2> SUFFICES ASSUME NEW d \in Clients
                 PROVE  /\ \A k \in Chat!LinesOf(d) : transcript[k] = <<d, Chat!Rank(Chat!LinesOf(d), k)>>
                        /\ \A n \in DOMAIN unread'[d] :
                              unread'[d][n] = <<d, Chat!Cardinality(Chat!LinesOf(d)) + n>>
                        /\ typed'[d] = Chat!Cardinality(Chat!LinesOf(d)) + Len(unread'[d])
                        /\ running /\ joined[d] # None /\ unread'[d] # <<>> =>
                              Chat!InTable(d) \/ Chat!LinesOf(d) = {}
      BY <1>0, <1>5, Zenon DEF Chat!NothingLost
    <2>1. CASE d = c
      BY <1>10, <1>11, <1>12, <2>1, ChatCard DEF Chat!NothingLost
    <2>2. CASE d # c
      <3>1. typed'[d] = typed[d] /\ unread'[d] = unread[d]
        BY <1>0, <2>2
      <3> QED
        BY <3>1, Zenon DEF Chat!NothingLost
    <2> QED
      BY <2>1, <2>2
  <1> QED
    BY <1>3, <1>4, <1>6, <1>7, <1>13

\* The table after an accept: a free slot, if there is one, is the new
\* user's, and nothing else changes.
LEMMA ChatStored ==
  ASSUME ChatSizes, ChatTypes, NEW c \in Clients, NEW fds, fds = Chat!Stored(c)
  PROVE  /\ fds \in [Chat!Slots -> Clients \cup {None}]
         /\ \A i \in Chat!Slots : client_fd[i] # None => fds[i] = client_fd[i]
         /\ \A i \in Chat!Slots : client_fd[i] = None => fds[i] \in {None, c}
         /\ \A i, j \in Chat!Slots :
               client_fd[i] = None /\ client_fd[j] = None /\ fds[i] = c /\ fds[j] = c => i = j
  <1> DEFINE free == {i \in Chat!Slots : client_fd[i] = None}
  <1>0. client_fd \in [Chat!Slots -> Clients \cup {None}] /\ c # None
    BY DEF ChatTypes, ChatSizes
  <1>1. CASE free = {}
    <2>1. fds = client_fd
      BY <1>1 DEF Chat!Stored
    <2> QED
      BY <1>0, <1>1, <2>1
  <1>2. CASE free # {}
    <2>1. PICK f : f = Chat!Min(free)
      OBVIOUS
    <2>2. free \subseteq Nat
      BY DEF Chat!Slots
    <2>3. f \in free
      BY <1>2, <2>1, <2>2, ChosenLeast DEF Chat!Min
    <2>4. fds = [client_fd EXCEPT ![f] = c]
      BY <1>2, <2>1 DEF Chat!Stored
    <2>5. \A i \in Chat!Slots : fds[i] = IF i = f THEN c ELSE client_fd[i]
      BY <1>0, <2>3, <2>4
    <2> QED
      BY <1>0, <2>3, <2>4, <2>5
  <1> QED
    BY <1>1, <1>2

\* select, and the accept that may follow it.
LEMMA ChatSelects ==
  ASSUME ChatSizes, ChatInv, Chat!Select
  PROVE  ChatInv'
  <1> USE DEF ChatInv
  <1>1. /\ UNCHANGED <<running, member, typed, unread, shown, transcript>>
        /\ ready' = Chat!Readable
    BY DEF Chat!Select
  <1>2. \A i \in Chat!Readable : /\ i \in Chat!Slots /\ client_fd[i] # None
                                 /\ unread[client_fd[i]] # <<>> \/ member[client_fd[i]] = "gone"
    BY DEF Chat!Readable
  <1>3. CASE waiting = <<>>
    <2>1. UNCHANGED <<waiting, heard, client_fd, joined>>
      BY <1>3 DEF Chat!Select
    <2>2. ChatTypes'
      BY <1>1, <1>2, <2>1 DEF ChatTypes
    <2>3. ChatSlots' /\ ChatQueue'
      BY <1>1, <1>2, <2>1 DEF ChatSlots, ChatQueue
    <2>4. /\ \A d : Chat!InTable(d)' = Chat!InTable(d)
          /\ \A d : Chat!LinesOf(d)' = Chat!LinesOf(d)
          /\ \A d : Chat!Conversation(d)' = Chat!Conversation(d)
      BY <1>1, <2>1 DEF Chat!InTable, Chat!LinesOf, Chat!Conversation
    <2>5. ChatUsers'
      BY <1>1, <2>1, <2>4 DEF ChatUsers
    <2>6. Chat!SameConversation'
      BY <1>1, <2>1, <2>4 DEF Chat!SameConversation
    <2>7. Chat!NothingLost'
      BY <1>1, <2>1, <2>4 DEF Chat!NothingLost
    <2> QED
      BY <2>2, <2>3, <2>5, <2>6, <2>7
  <1>4. CASE waiting # <<>>
    <2>1. PICK c : c = Head(waiting)
      OBVIOUS
    <2>2. /\ waiting' = Tail(waiting)
          /\ client_fd' = Chat!Stored(c)
          /\ joined' = [joined EXCEPT ![c] = Len(transcript)]
          /\ heard' = Chat!Delivered({c}, <<Chat!Greeting>>)
      BY <1>4, <2>1 DEF Chat!Select
    <2>3. waiting \in Seq(Clients) /\ joined \in [Clients -> Nat \cup {None}]
      BY DEF ChatTypes
    <2>4. /\ c \in Clients /\ c = waiting[1] /\ 1 \in 1..Len(waiting)
          /\ waiting' \in Seq(Clients) /\ Len(waiting') = Len(waiting) - 1 /\ Len(waiting) \in Nat
          /\ \A i \in 1..Len(waiting') : waiting'[i] = waiting[i + 1] /\ i + 1 \in 1..Len(waiting)
                                         /\ waiting'[i] \in Clients
      BY <1>4, <2>1, <2>2, <2>3
    <2>5. /\ joined[c] = None /\ member[c] # "new"
          /\ shown[c] = <<>> /\ heard[c] = <<>> /\ ~Chat!InTable(c) /\ Chat!LinesOf(c) = {}
      BY <2>4 DEF ChatQueue, ChatUsers
    <2>6. Len(transcript) \in Nat /\ Len(transcript) # None
      BY DEF ChatTypes, ChatSizes
    <2>7. /\ joined' \in [Clients -> Nat \cup {None}] /\ joined'[c] = Len(transcript)
          /\ \A d \in Clients : d # c => joined'[d] = joined[d]
      BY <2>2, <2>3, <2>4, <2>6
    <2>8. ChatQueue'
      <3>1. /\ \A i, j \in 1..Len(waiting) : waiting[i] = waiting[j] => i = j
            /\ \A i \in 1..Len(waiting) : joined[waiting[i]] = None /\ member[waiting[i]] # "new"
        BY DEF ChatQueue
      <3>2. ASSUME NEW i \in 1..Len(waiting'), NEW j \in 1..Len(waiting'), waiting'[i] = waiting'[j]
            PROVE  i = j
        <4>1. i + 1 = j + 1
          BY <2>4, <3>1, <3>2
        <4> QED
          BY <4>1
      <3>3. ASSUME NEW i \in 1..Len(waiting')
            PROVE  joined'[waiting'[i]] = None /\ member'[waiting'[i]] # "new"
        <4>1. i + 1 # 1
          OBVIOUS
        <4>2. waiting'[i] # c
          BY <2>4, <3>1, <4>1
        <4>3. PICK d : d = waiting'[i]
          OBVIOUS
        <4>4. d = waiting[i + 1] /\ i + 1 \in 1..Len(waiting) /\ d \in Clients /\ d # c
          BY <2>4, <4>2, <4>3
        <4>5. joined[d] = None /\ member[d] # "new"
          BY <3>1, <4>4
        <4>6. joined'[d] = joined[d] /\ member' = member
          BY <1>1, <2>7, <4>4
        <4> QED
          BY <4>3, <4>5, <4>6
      <3> QED
        BY <3>2, <3>3 DEF ChatQueue
    <2>9. /\ client_fd' \in [Chat!Slots -> Clients \cup {None}]
          /\ \A i \in Chat!Slots : client_fd[i] # None => client_fd'[i] = client_fd[i]
          /\ \A i \in Chat!Slots : client_fd[i] = None => client_fd'[i] \in {None, c}
          /\ \A i, j \in Chat!Slots :
                client_fd[i] = None /\ client_fd[j] = None /\ client_fd'[i] = c /\ client_fd'[j] = c
                   => i = j
      BY <2>2, <2>4, ChatStored
    <2>10. ChatSlots'
      <3>1. \A i \in Chat!Slots : client_fd[i] # c
        BY <2>5 DEF Chat!InTable
      <3>2. \A i, j \in Chat!Slots : client_fd'[i] = client_fd'[j] /\ client_fd'[i] # None => i = j
        BY <2>9, <3>1 DEF ChatSlots
      <3> QED
        BY <1>1, <1>2, <2>9, <3>2 DEF ChatSlots
    <2>11. /\ \A d \in Clients : d # c => (Chat!InTable(d)' <=> Chat!InTable(d))
           /\ \A d \in Clients : Chat!LinesOf(d)' = Chat!LinesOf(d)
           /\ \A d \in Clients : d # c => Chat!Conversation(d)' = Chat!Conversation(d)
           /\ Chat!Conversation(c)' = {}
      <3>1. \A d \in Clients : d # c => (Chat!InTable(d)' <=> Chat!InTable(d))
        <4>1. \A i \in Chat!Slots, d \in Clients : d # c => (client_fd'[i] = d <=> client_fd[i] = d)
          BY <2>9 DEF ChatSizes
        <4> QED
          BY <4>1 DEF Chat!InTable
      <3>2. \A d \in Clients : d # c => Chat!Conversation(d)' = Chat!Conversation(d)
        BY <1>1, <2>7 DEF Chat!Conversation
      <3>3. Chat!Conversation(c)' = {}
        BY <1>1, <2>6, <2>7 DEF Chat!Conversation
      <3> QED
        BY <1>1, <3>1, <3>2, <3>3 DEF Chat!LinesOf
    <2>12. /\ heard' \in [Clients -> Seq(ChatMessages)]
           /\ heard'[c] = <<>> \/ (member[c] = "on" /\ heard'[c] = <<Chat!Greeting>>)
           /\ member[c] = "on" => heard'[c] = <<Chat!Greeting>>
           /\ \A d \in Clients : d # c => heard'[d] = heard[d]
      <3>1. PICK g : g = Chat!Greeting
        OBVIOUS
      <3>2. g \in ChatMessages /\ <<>> \o <<g>> = <<g>> /\ <<g>> \in Seq(ChatMessages)
        BY <3>1 DEF ChatMessages
      <3>3. heard \in [Clients -> Seq(ChatMessages)]
        BY DEF ChatTypes
      <3>4. \A d \in Clients : heard'[d] = IF d = c /\ member[d] = "on" THEN heard[d] \o <<g>> ELSE heard[d]
        BY <2>2, <3>1 DEF Chat!Delivered
      <3>5. heard'[c] \in Seq(ChatMessages)
        <4>1. CASE member[c] = "on"
          <5>1. heard'[c] = <<g>>
            BY <2>4, <2>5, <3>2, <3>4, <4>1
          <5> QED
            BY <3>2, <5>1
        <4>2. CASE member[c] # "on"
          <5>1. heard'[c] = heard[c]
            BY <2>4, <3>4, <4>2
          <5> QED
            BY <2>4, <3>3, <5>1
        <4> QED
          BY <4>1, <4>2
      <3>6. DOMAIN heard' = Clients /\ heard' = [d \in Clients |-> heard'[d]]
        BY <2>2 DEF Chat!Delivered
      <3> QED
        BY <2>4, <2>5, <3>1, <3>2, <3>3, <3>4, <3>5, <3>6
    <2>13. ChatTypes'
      BY <1>1, <1>2, <2>4, <2>7, <2>9, <2>12 DEF ChatTypes
    <2>14. ChatUsers'
      <3>1. \A d \in Clients : d # c => shown'[d] = shown[d] /\ heard'[d] = heard[d]
                                        /\ joined'[d] = joined[d]
        BY <1>1, <2>7, <2>12
      <3>2. joined'[c] # None /\ joined'[c] \in 0..Len(transcript') /\ member'[c] # "new"
            /\ Chat!LinesOf(c)' = {}
        BY <1>1, <2>4, <2>5, <2>6, <2>7, <2>11
      <3> QED
        BY <1>1, <2>11, <3>1, <3>2 DEF ChatUsers
    <2>15. Chat!SameConversation'
      <3> SUFFICES ASSUME NEW d \in Clients, joined'[d] # None
                   PROVE  /\ Chat!Follows(shown'[d] \o heard'[d], Chat!Conversation(d)', transcript)
                          /\ running /\ member[d] = "on" =>
                               Len(shown'[d] \o heard'[d]) =
                                 1 + IF Chat!InTable(d)' THEN Chat!Cardinality(Chat!Conversation(d)') ELSE 0
        BY <1>1, Zenon DEF Chat!SameConversation
      <3>1. CASE d # c
        BY <1>1, <2>7, <2>11, <2>12, <3>1 DEF Chat!SameConversation
      <3>2. CASE d = c
        <4>1. Chat!Cardinality({}) = 0
          BY FS_EmptySet, ChatCard
        <4>2. PICK g, q : g = Chat!Greeting /\ q = shown'[c] \o heard'[c]
          OBVIOUS
        <4>3. /\ <<>> \o <<>> = <<>> /\ <<>> \o <<g>> = <<g>>
              /\ Len(<<>>) = 0 /\ Len(<<g>>) = 1 /\ <<g>>[1] = g
          OBVIOUS
        <4>4. /\ q = <<>> \/ q = <<g>>
              /\ member[c] = "on" => q = <<g>>
          <5>1. /\ shown'[c] = <<>>
                /\ heard'[c] = <<>> \/ heard'[c] = <<g>>
                /\ member[c] = "on" => heard'[c] = <<g>>
            BY <1>1, <2>5, <2>12, <4>2
          <5>2. CASE heard'[c] = <<>>
            BY <4>2, <4>3, <5>1, <5>2
          <5>3. CASE heard'[c] = <<g>>
            BY <4>2, <4>3, <5>1, <5>3
          <5> QED
            BY <5>1, <5>2, <5>3
        <4>5. Len(q) <= 1 /\ (q # <<>> => q[1] = Chat!Greeting)
          <5>1. CASE q = <<>>
            BY <4>3, <5>1
          <5>2. CASE q = <<g>>
            BY <4>2, <4>3, <5>2
          <5> QED
            BY <4>4, <5>1, <5>2
        <4>6. Chat!Follows(q, {}, transcript)
          BY <4>1, <4>5 DEF Chat!Follows
        <4>7. member[c] = "on" => Len(q) = 1
          BY <4>3, <4>4
        <4>8. Chat!Follows(q, Chat!Conversation(d)', transcript)
          BY <2>11, <3>2, <4>6
        <4>9. 1 + (IF Chat!InTable(d)' THEN Chat!Cardinality(Chat!Conversation(d)') ELSE 0) = 1
          BY <2>11, <3>2, <4>1
        <4> QED
          BY <3>2, <4>2, <4>7, <4>8, <4>9
      <3> QED
        BY <3>1, <3>2
    <2>16. Chat!NothingLost'
      <3> SUFFICES ASSUME NEW d \in Clients
                   PROVE  /\ \A k \in Chat!LinesOf(d) : transcript[k] = <<d, Chat!Rank(Chat!LinesOf(d), k)>>
                          /\ \A n \in DOMAIN unread[d] :
                                unread[d][n] = <<d, Chat!Cardinality(Chat!LinesOf(d)) + n>>
                          /\ typed[d] = Chat!Cardinality(Chat!LinesOf(d)) + Len(unread[d])
                          /\ running /\ joined'[d] # None /\ unread[d] # <<>> =>
                                Chat!InTable(d)' \/ Chat!LinesOf(d) = {}
        BY <1>1, <2>11, Zenon DEF Chat!NothingLost
      <3>1. /\ \A k \in Chat!LinesOf(d) : transcript[k] = <<d, Chat!Rank(Chat!LinesOf(d), k)>>
            /\ \A n \in DOMAIN unread[d] :
                  unread[d][n] = <<d, Chat!Cardinality(Chat!LinesOf(d)) + n>>
            /\ typed[d] = Chat!Cardinality(Chat!LinesOf(d)) + Len(unread[d])
            /\ running /\ joined[d] # None /\ unread[d] # <<>> =>
                  Chat!InTable(d) \/ Chat!LinesOf(d) = {}
        BY Zenon DEF Chat!NothingLost
      <3>2. running /\ joined'[d] # None /\ unread[d] # <<>> => Chat!InTable(d)' \/ Chat!LinesOf(d) = {}
        BY <2>5, <2>7, <2>11, <3>1
      <3> QED
        BY <3>1, <3>2, Zenon
    <2> QED
      BY <2>8, <2>10, <2>13, <2>14, <2>15, <2>16
  <1> QED
    BY <1>3, <1>4

\* The server prints what was unread from c and sends it, to everybody with a
\* slot but c, or to some of them while it goes down.
ChatPrints(c) ==
    /\ Chat!InTable(c) /\ unread[c] # <<>>
    /\ transcript' = transcript \o unread[c]
    /\ unread' = [unread EXCEPT ![c] = <<>>]
    /\ running
    /\ UNCHANGED <<client_fd, member, typed, shown, joined>>
    /\ DOMAIN heard' = Clients /\ heard' = [d \in Clients |-> heard'[d]]
    /\ \A d \in Clients :
          IF d # c /\ Chat!InTable(d) /\ member[d] = "on"
            THEN \/ heard'[d] = heard[d] \o unread[c]
                 \/ heard'[d] = heard[d] /\ ~running'
            ELSE heard'[d] = heard[d]

\* The new lines take the places after L, and they are lines of c.
ChatPlaced(c, d, new, L, M) ==
    /\ new \in Seq(ChatLines) /\ new # <<>> /\ L \in Nat /\ M \in Nat
    /\ transcript \in Seq(ChatLines) /\ transcript' \in Seq(ChatLines)
    /\ Len(transcript') = L + M
    /\ \A k \in 1..L : transcript'[k] = transcript[k]
    /\ \A m \in 1..M : transcript'[L + m] = new[m] /\ new[m][1] = c
    /\ Chat!LinesOf(d) \subseteq 1..L
    /\ Chat!LinesOf(d)' = IF d = c THEN Chat!LinesOf(d) \cup ((L + 1)..(L + M))
                          ELSE Chat!LinesOf(d)
    /\ joined[d] # None =>
          /\ Chat!Conversation(d) \subseteq 1..L
          /\ Chat!Conversation(d)' = IF d = c THEN Chat!Conversation(d)
                                     ELSE Chat!Conversation(d) \cup ((L + 1)..(L + M))

\* The places of the lines, before and after.
LEMMA ChatPlaces ==
  ASSUME ChatSizes, ChatInv, NEW c \in Clients, ChatPrints(c), NEW new, new = unread[c],
         NEW L, L = Len(transcript), NEW M, M = Len(new), NEW d \in Clients
  PROVE  ChatPlaced(c, d, new, L, M)
  <1> USE DEF ChatInv
  <1>1. /\ new \in Seq(ChatLines) /\ new # <<>> /\ L \in Nat /\ M \in Nat
        /\ transcript \in Seq(ChatLines) /\ transcript' = transcript \o new
        /\ joined' = joined
    BY DEF ChatPrints, ChatTypes
  <1>2. /\ transcript' \in Seq(ChatLines) /\ Len(transcript') = L + M
        /\ \A k \in 1..L : transcript'[k] = transcript[k]
        /\ \A m \in 1..M : transcript'[L + m] = new[m]
    BY <1>1
  <1>3. \A m \in 1..M : new[m][1] = c
    <2>1. DOMAIN new = 1..M
      BY <1>1
    <2>2. \A m \in DOMAIN new : new[m] = <<c, Chat!Cardinality(Chat!LinesOf(c)) + m>>
      BY Zenon DEF Chat!NothingLost
    <2> QED
      BY <2>1, <2>2
  <1>4. \A k \in (L + 1)..(L + M) : k - L \in 1..M /\ k = L + (k - L) /\ transcript'[k][1] = c
    <2>1. \A k \in (L + 1)..(L + M) : k - L \in 1..M /\ k = L + (k - L)
      BY <1>1
    <2>2. ASSUME NEW k \in (L + 1)..(L + M) PROVE transcript'[k][1] = c
      <3>1. PICK m \in 1..M : k = L + m
        BY <2>1
      <3>2. transcript'[L + m] = new[m]
        BY <1>2
      <3> QED
        BY <1>3, <3>1, <3>2
    <2> QED
      BY <2>1, <2>2
  <1>5. \A k \in 1..(L + M) : k \in 1..L \/ k \in (L + 1)..(L + M)
    BY <1>1
  <1>6. \A k : (k \in 1..L \/ k \in (L + 1)..(L + M)) => k \in 1..(L + M)
    BY <1>1
  <1>7. Chat!LinesOf(d) = {k \in 1..L : transcript[k][1] = d}
    BY DEF Chat!LinesOf
  <1>8. Chat!LinesOf(d)' = {k \in 1..(L + M) : transcript'[k][1] = d}
    BY <1>2 DEF Chat!LinesOf
  <1>9. Chat!LinesOf(d)' = IF d = c THEN Chat!LinesOf(d) \cup ((L + 1)..(L + M))
                           ELSE Chat!LinesOf(d)
    <2>1. CASE d = c
      <3>1. ASSUME NEW k \in Chat!LinesOf(d)' PROVE k \in Chat!LinesOf(d) \cup ((L + 1)..(L + M))
        BY <1>2, <1>5, <1>7, <1>8, <3>1
      <3>2. ASSUME NEW k \in Chat!LinesOf(d) \cup ((L + 1)..(L + M)) PROVE k \in Chat!LinesOf(d)'
        BY <1>2, <1>4, <1>6, <1>7, <1>8, <2>1, <3>2
      <3> QED
        BY <2>1, <3>1, <3>2
    <2>2. CASE d # c
      <3>1. ASSUME NEW k \in Chat!LinesOf(d)' PROVE k \in Chat!LinesOf(d)
        BY <1>2, <1>4, <1>5, <1>7, <1>8, <2>2, <3>1
      <3>2. ASSUME NEW k \in Chat!LinesOf(d) PROVE k \in Chat!LinesOf(d)'
        BY <1>2, <1>6, <1>7, <1>8, <3>2
      <3> QED
        BY <2>2, <3>1, <3>2
    <2> QED
      BY <2>1, <2>2
  <1>10. ASSUME joined[d] # None
         PROVE  /\ Chat!Conversation(d) \subseteq 1..L
                /\ Chat!Conversation(d)' = IF d = c THEN Chat!Conversation(d)
                                           ELSE Chat!Conversation(d) \cup ((L + 1)..(L + M))
    <2>1. PICK j : j = joined[d]
      OBVIOUS
    <2>2. j \in 0..L
      BY <1>10, <2>1 DEF ChatUsers
    <2>3. Chat!Conversation(d) = {k \in (j + 1)..L : transcript[k][1] # d}
      BY <2>1 DEF Chat!Conversation
    <2>4. Chat!Conversation(d)' = {k \in (j + 1)..(L + M) : transcript'[k][1] # d}
      BY <1>1, <1>2, <2>1 DEF Chat!Conversation
    <2>5. /\ \A k \in (j + 1)..(L + M) : k \in (j + 1)..L \/ k \in (L + 1)..(L + M)
          /\ \A k : (k \in (j + 1)..L \/ k \in (L + 1)..(L + M)) => k \in (j + 1)..(L + M)
          /\ (j + 1)..L \subseteq 1..L
      BY <1>1, <2>2
    <2>6. CASE d = c
      <3>1. ASSUME NEW k \in Chat!Conversation(d)' PROVE k \in Chat!Conversation(d)
        BY <1>2, <1>4, <2>3, <2>4, <2>5, <2>6, <3>1
      <3>2. ASSUME NEW k \in Chat!Conversation(d) PROVE k \in Chat!Conversation(d)'
        BY <1>2, <2>3, <2>4, <2>5, <3>2
      <3> QED
        BY <2>3, <2>5, <2>6, <3>1, <3>2
    <2>7. CASE d # c
      <3>1. ASSUME NEW k \in Chat!Conversation(d)'
            PROVE  k \in Chat!Conversation(d) \cup ((L + 1)..(L + M))
        BY <1>2, <2>3, <2>4, <2>5, <3>1
      <3>2. ASSUME NEW k \in Chat!Conversation(d) \cup ((L + 1)..(L + M))
            PROVE  k \in Chat!Conversation(d)'
        BY <1>2, <1>4, <2>3, <2>4, <2>5, <2>7, <3>2
      <3> QED
        BY <2>3, <2>5, <2>7, <3>1, <3>2
    <2> QED
      BY <2>6, <2>7
  <1>11. Chat!LinesOf(d) \subseteq 1..L
    BY <1>7
  <1> QED
    BY <1>1, <1>2, <1>3, <1>9, <1>10, <1>11 DEF ChatPlaced

\* The conversations go on.
LEMMA ChatConverses ==
  ASSUME ChatSizes, ChatInv, NEW c \in Clients, ChatPrints(c)
  PROVE  Chat!SameConversation'
  <1> USE DEF ChatInv
  <1>0. PICK new, L, M : new = unread[c] /\ L = Len(transcript) /\ M = Len(new)
    OBVIOUS
  <1> SUFFICES ASSUME NEW d \in Clients, joined[d] # None
               PROVE  /\ Chat!Follows(shown[d] \o heard'[d], Chat!Conversation(d)', transcript')
                      /\ running' /\ member[d] = "on" =>
                           Len(shown[d] \o heard'[d]) =
                             1 + IF Chat!InTable(d) THEN Chat!Cardinality(Chat!Conversation(d)') ELSE 0
    <2>1. joined' = joined /\ shown' = shown /\ member' = member
          /\ \A d : Chat!InTable(d)' = Chat!InTable(d)
      BY DEF ChatPrints, Chat!InTable
    <2> QED
      BY <2>1, Zenon DEF Chat!SameConversation
  <1>1. PICK got, P, Q, g, h : /\ g = shown[d] /\ h = heard[d] /\ got = g \o h
                         /\ P = Chat!Conversation(d)
                         /\ Q = P \cup ((L + 1)..(L + M))
    OBVIOUS
  <1>2. /\ new \in Seq(ChatLines) /\ new # <<>> /\ L \in Nat /\ M \in Nat
        /\ transcript \in Seq(ChatLines) /\ P \subseteq 1..L
        /\ Chat!Conversation(d)' = IF d = c THEN P ELSE Q
    <2>1. ChatPlaced(c, d, new, L, M)
      BY <1>0, ChatPlaces, Zenon
    <2> QED
      BY <1>1, <2>1 DEF ChatPlaced
  <1>3. transcript' = transcript \o new /\ running
    BY <1>0 DEF ChatPrints
  <1>4. g \in Seq(ChatMessages) /\ h \in Seq(ChatMessages) /\ new \in Seq(ChatMessages)
    <2>1. g \in Seq(ChatMessages) /\ h \in Seq(ChatMessages)
      BY <1>1 DEF ChatTypes
    <2>2. ChatLines \subseteq ChatMessages
      BY DEF ChatMessages
    <2> QED
      BY <1>2, <2>1, <2>2
  <1>5. got \in Seq(ChatMessages) /\ g \o (h \o new) = got \o new
    <2>1. g \o (h \o new) = (g \o h) \o new
      BY <1>4, ConcatAssociative
    <2> QED
      BY <1>1, <1>4, <2>1
  <1>6. /\ Chat!Follows(got, P, transcript)
        /\ running /\ member[d] = "on" =>
             Len(got) = 1 + IF Chat!InTable(d) THEN Cardinality(P) ELSE 0
    <2>1. \A D : Chat!Cardinality(D) = Cardinality(D)
      BY ChatCard
    <2> QED
      BY <1>1, <2>1 DEF Chat!SameConversation
  <1>7. /\ Chat!Follows(got, P, transcript')
        /\ Chat!Follows(got, Q, transcript')
        /\ Cardinality(P) \in Nat /\ Cardinality(Q) = Cardinality(P) + M
        /\ (got # <<>> /\ Len(got) = 1 + Cardinality(P)) =>
              /\ Chat!Follows(got \o new, Q, transcript')
              /\ Len(got \o new) = 1 + Cardinality(Q)
    <2>1. PICK s : s = transcript
      OBVIOUS
    <2>2. /\ got \in Seq(ChatMessages) /\ s \in Seq(ChatLines) /\ new \in Seq(ChatLines)
          /\ P \subseteq 1..Len(s) /\ Chat!Follows(got, P, s)
          /\ Q = P \cup ((Len(s) + 1)..(Len(s) + Len(new)))
      BY <1>0, <1>1, <1>2, <1>5, <1>6, <2>1
    <2>3. FollowsOn(got, s, new, P, Q)
      BY <2>2, FollowsLonger, Zenon
    <2> QED
      BY <1>0, <1>3, <2>1, <2>3 DEF FollowsOn
  <1>8. CASE d # c /\ Chat!InTable(d) /\ member[d] = "on"
    <2>1. CASE heard'[d] = heard[d] \o new
      <3>1. shown[d] \o heard'[d] = got \o new
        BY <1>1, <1>5, <2>1
      <3>2. Chat!Conversation(d)' = Q
        BY <1>2, <1>8
      <3>3. Len(got) = 1 + Cardinality(P)
        BY <1>3, <1>6, <1>8
      <3>4. got # <<>>
        BY <1>5, <1>7, <3>3
      <3> QED
        BY <1>7, <1>8, <3>1, <3>2, <3>3, <3>4, ChatCard
    <2>2. CASE heard'[d] = heard[d] /\ ~running'
      <3>1. shown[d] \o heard'[d] = got /\ Chat!Conversation(d)' = Q
        BY <1>1, <1>2, <1>8, <2>2
      <3> QED
        BY <1>7, <2>2, <3>1
    <2> QED
      BY <1>0, <1>8, <2>1, <2>2 DEF ChatPrints
  <1>9. CASE ~(d # c /\ Chat!InTable(d) /\ member[d] = "on")
    <2>1. heard'[d] = heard[d]
      BY <1>9 DEF ChatPrints
    <2>2. shown[d] \o heard'[d] = got
      BY <1>1, <2>1
    <2>3. Chat!Follows(got, Chat!Conversation(d)', transcript')
      BY <1>2, <1>7
    <2>4. ASSUME running', member[d] = "on"
          PROVE  Len(got) = 1 + IF Chat!InTable(d) THEN Chat!Cardinality(Chat!Conversation(d)') ELSE 0
      <3>1. CASE d = c
        BY <1>2, <1>3, <1>6, <2>4, <3>1, ChatCard
      <3>2. CASE ~Chat!InTable(d)
        BY <1>3, <1>6, <2>4, <3>2
      <3> QED
        BY <1>9, <2>4, <3>1, <3>2
    <2> QED
      BY <2>2, <2>3, <2>4
  <1> QED
    BY <1>8, <1>9

\* Nothing is lost in between.
LEMMA ChatLosesNothing ==
  ASSUME ChatSizes, ChatInv, NEW c \in Clients, ChatPrints(c)
  PROVE  Chat!NothingLost'
  <1> USE DEF ChatInv
  <1>0. PICK new, L, M : new = unread[c] /\ L = Len(transcript) /\ M = Len(new)
    OBVIOUS
  <1> SUFFICES ASSUME NEW d \in Clients
               PROVE  /\ \A k \in Chat!LinesOf(d)' :
                            transcript'[k] = <<d, Chat!Rank(Chat!LinesOf(d)', k)>>
                      /\ \A n \in DOMAIN unread'[d] :
                            unread'[d][n] = <<d, Chat!Cardinality(Chat!LinesOf(d)') + n>>
                      /\ typed[d] = Chat!Cardinality(Chat!LinesOf(d)') + Len(unread'[d])
                      /\ running' /\ joined[d] # None /\ unread'[d] # <<>> =>
                            Chat!InTable(d) \/ Chat!LinesOf(d)' = {}
    <2>1. joined' = joined /\ typed' = typed /\ \A d : Chat!InTable(d)' = Chat!InTable(d)
      BY DEF ChatPrints, Chat!InTable
    <2> QED
      BY <2>1, Zenon DEF Chat!NothingLost
  <1>1. PICK P : P = Chat!LinesOf(d)
    OBVIOUS
  <1>2. /\ new \in Seq(ChatLines) /\ new # <<>> /\ L \in Nat /\ M \in Nat
        /\ P \subseteq 1..L
        /\ \A k \in 1..L : transcript'[k] = transcript[k]
        /\ \A m \in 1..M : transcript'[L + m] = new[m]
        /\ Chat!LinesOf(d)' = IF d = c THEN P \cup ((L + 1)..(L + M)) ELSE P
    <2>1. ChatPlaced(c, d, new, L, M)
      BY <1>0, ChatPlaces, Zenon
    <2> QED
      BY <1>1, <2>1 DEF ChatPlaced
  <1>3. /\ \A k \in P : transcript[k] = <<d, Chat!Rank(P, k)>>
        /\ \A n \in DOMAIN unread[d] : unread[d][n] = <<d, Chat!Cardinality(P) + n>>
        /\ typed[d] = Chat!Cardinality(P) + Len(unread[d])
        /\ running /\ joined[d] # None /\ unread[d] # <<>> => Chat!InTable(d) \/ P = {}
    BY <1>1, Zenon DEF Chat!NothingLost
  <1>4. unread \in [Clients -> Seq(ChatLines)] /\ running
        /\ unread' = [unread EXCEPT ![c] = <<>>]
    BY DEF ChatTypes, ChatPrints
  <1>5. CASE d # c
    <2>1. unread'[d] = unread[d] /\ Chat!LinesOf(d)' = P
      BY <1>2, <1>4, <1>5
    <2>2. \A k \in P : transcript'[k] = <<d, Chat!Rank(P, k)>>
      BY <1>2, <1>3
    <2> QED
      BY <1>3, <1>4, <2>1, <2>2
  <1>6. CASE d = c
    <2>1. PICK Q : Q = P \cup ((L + 1)..(L + M))
      OBVIOUS
    <2>2. Ranked(P, Q, L, M)
      BY <1>2, <2>1, RankLonger, Zenon
    <2>3. /\ Cardinality(P) \in Nat
          /\ Cardinality(Q) = Cardinality(P) + M
          /\ \A k \in P : Chat!Rank(Q, k) = Chat!Rank(P, k)
          /\ \A m \in 1..M : Chat!Rank(Q, L + m) = Cardinality(P) + m
      BY <2>2, Zenon DEF Ranked
    <2>4. unread'[d] = <<>> /\ DOMAIN <<>> = {} /\ Len(<<>>) = 0 /\ unread[d] = new
      BY <1>0, <1>4, <1>6
    <2>5. ASSUME NEW k \in Q PROVE transcript'[k] = <<d, Chat!Rank(Q, k)>>
      <3>1. CASE k \in P
        BY <1>2, <1>3, <2>3, <3>1
      <3>2. ASSUME NEW m \in 1..M, k = L + m PROVE transcript'[k] = <<d, Chat!Rank(Q, k)>>
        <4>1. m \in DOMAIN new
          BY <1>0, <1>2
        <4>2. new[m] = <<d, Cardinality(P) + m>>
          BY <1>3, <2>4, <4>1, ChatCard
        <4>3. transcript'[k] = new[m] /\ Chat!Rank(Q, k) = Cardinality(P) + m
          BY <1>2, <2>3, <3>2
        <4> QED
          BY <4>2, <4>3
      <3>3. k \in P \/ (k - L \in 1..M /\ k = L + (k - L))
        BY <1>2, <2>1
      <3> QED
        BY <3>1, <3>2, <3>3
    <2>6. typed[d] = Cardinality(Q) + 0
      BY <1>0, <1>3, <2>3, <2>4, <1>2, ChatCard
    <2>7. Chat!LinesOf(d)' = Q
      BY <1>2, <1>6, <2>1
    <2> QED
      BY <2>4, <2>5, <2>6, <2>7, ChatCard
  <1> QED
    BY <1>5, <1>6

\* The table of users, and the types.
LEMMA ChatStaysSound ==
  ASSUME ChatSizes, ChatInv, NEW c \in Clients, ChatPrints(c),
         running' \in BOOLEAN, waiting' \in Seq(Clients), ready' \subseteq Chat!Slots
  PROVE  ChatTypes' /\ ChatUsers'
  <1> USE DEF ChatInv
  <1>0. PICK new, L, M : new = unread[c] /\ L = Len(transcript) /\ M = Len(new)
    OBVIOUS
  <1>1. ASSUME NEW d \in Clients PROVE ChatPlaced(c, d, new, L, M)
    BY <1>0, ChatPlaces, Zenon
  <1>2. /\ new \in Seq(ChatLines) /\ L \in Nat /\ M \in Nat
        /\ transcript' \in Seq(ChatLines) /\ Len(transcript') = L + M
        /\ \A d \in Clients : d # c => Chat!LinesOf(d)' = Chat!LinesOf(d)
    BY <1>1 DEF ChatPlaced
  <1>3. /\ UNCHANGED <<client_fd, member, typed, shown, joined>>
        /\ unread' = [unread EXCEPT ![c] = <<>>] /\ Chat!InTable(c)
        /\ DOMAIN heard' = Clients /\ heard' = [d \in Clients |-> heard'[d]]
        /\ \A d \in Clients :
              \/ heard'[d] = heard[d]
              \/ d # c /\ Chat!InTable(d) /\ heard'[d] = heard[d] \o new
    BY <1>0 DEF ChatPrints
  <1>4. ASSUME NEW d \in Clients PROVE heard'[d] \in Seq(ChatMessages)
    <2>1. heard[d] \in Seq(ChatMessages) /\ new \in Seq(ChatMessages)
      <3>1. heard[d] \in Seq(ChatMessages) /\ ChatLines \subseteq ChatMessages
        BY DEF ChatTypes, ChatMessages
      <3> QED
        BY <1>2, <3>1
    <2>2. heard[d] \o new \in Seq(ChatMessages)
      BY <2>1
    <2> QED
      BY <1>3, <2>1, <2>2
  <1>5. heard' \in [Clients -> Seq(ChatMessages)]
    BY <1>3, <1>4
  <1>6. unread \in [Clients -> Seq(ChatLines)] /\ unread' \in [Clients -> Seq(ChatLines)]
    BY <1>3 DEF ChatTypes
  <1>7. ChatTypes'
    BY <1>2, <1>3, <1>5, <1>6 DEF ChatTypes
  <1>8. \A d \in Clients : Chat!InTable(d)' <=> Chat!InTable(d)
    BY <1>3 DEF Chat!InTable
  <1>9. \A d \in Clients : d # c => unread'[d] = unread[d]
    BY <1>3, <1>6
  <1>10. ASSUME NEW d \in Clients
         PROVE  /\ joined'[d] = None =>
                      /\ shown'[d] = <<>> /\ heard'[d] = <<>> /\ ~Chat!InTable(d)'
                      /\ Chat!LinesOf(d)' = {}
                /\ joined'[d] # None =>
                      /\ joined'[d] \in 0..Len(transcript') /\ member'[d] # "new"
                      /\ \/ Chat!InTable(d)'
                         \/ Chat!LinesOf(d)' = {}
                         \/ member'[d] = "gone" /\ unread'[d] = <<>>
    <2>1. CASE joined[d] = None
      <3>1. ~Chat!InTable(d) /\ shown[d] = <<>> /\ heard[d] = <<>> /\ Chat!LinesOf(d) = {}
        BY <2>1 DEF ChatUsers
      <3>2. d # c
        BY <1>3, <3>1
      <3> QED
        BY <1>2, <1>3, <1>8, <2>1, <3>1, <3>2
    <2>2. CASE joined[d] # None
      <3>1. /\ joined[d] \in 0..L /\ member[d] # "new"
            /\ \/ Chat!InTable(d)
               \/ Chat!LinesOf(d) = {}
               \/ member[d] = "gone" /\ unread[d] = <<>>
        BY <1>0, <2>2 DEF ChatUsers
      <3>2. joined'[d] = joined[d] /\ joined[d] \in 0..Len(transcript')
        BY <1>2, <1>3, <3>1
      <3> QED
        BY <1>2, <1>3, <1>8, <1>9, <2>2, <3>1, <3>2
    <2> QED
      BY <2>1, <2>2
  <1>11. ChatUsers'
    BY <1>10 DEF ChatUsers
  <1> QED
    BY <1>7, <1>11

\* The slot whose turn it is has been found readable.
LEMMA ChatTurn ==
  ASSUME ChatSizes, ChatInv, ready # {}
  PROVE  /\ Chat!Turn \in ready /\ Chat!Turn \in Chat!Slots
         /\ client_fd[Chat!Turn] \in Clients /\ Chat!InTable(client_fd[Chat!Turn])
         /\ unread[client_fd[Chat!Turn]] # <<>> \/ member[client_fd[Chat!Turn]] = "gone"
         /\ \A i \in ready \ {Chat!Turn} : client_fd[i] # client_fd[Chat!Turn]
         /\ \A d \in Clients : d \in {client_fd[j] : j \in Chat!Others(Chat!Turn)} <=>
               Chat!InTable(d) /\ d # client_fd[Chat!Turn]
  <1>1. ready \subseteq Nat /\ ready \subseteq Chat!Slots
        /\ client_fd \in [Chat!Slots -> Clients \cup {None}]
    BY DEF ChatInv, ChatTypes, Chat!Slots
  <1>2. PICK t : t = Chat!Turn
    OBVIOUS
  <1>3. t = CHOOSE x \in ready : \A y \in ready : x =< y
    BY <1>2 DEF Chat!Turn, Chat!Min
  <1>4. t \in ready /\ t \in Chat!Slots
    BY <1>1, <1>3, ChosenLeast
  <1>5. client_fd[t] # None /\ (unread[client_fd[t]] # <<>> \/ member[client_fd[t]] = "gone")
    BY <1>4 DEF ChatInv, ChatSlots
  <1>6. client_fd[t] \in Clients /\ Chat!InTable(client_fd[t])
    BY <1>1, <1>4, <1>5 DEF Chat!InTable
  <1>7. \A i \in ready \ {t} : client_fd[i] # client_fd[t]
    BY <1>1, <1>4, <1>5 DEF ChatInv, ChatSlots
  <1>8. ASSUME NEW d \in Clients
        PROVE  d \in {client_fd[j] : j \in Chat!Others(t)} <=> Chat!InTable(d) /\ d # client_fd[t]
    BY DEF Chat!Others, Chat!InTable, ChatSizes
  <1> QED
    BY <1>2, <1>4, <1>5, <1>6, <1>7, <1>8

\* read returns lines, and everybody gets them.
LEMMA ChatBroadcasts ==
  ASSUME ChatSizes, ChatInv, Chat!Broadcast
  PROVE  ChatInv'
  <1>1. PICK t, c, to : /\ t = Chat!Turn /\ c = client_fd[t]
                        /\ to = {client_fd[j] : j \in Chat!Others(t)}
    OBVIOUS
  <1>2. /\ running /\ ready # {} /\ unread[c] # <<>>
        /\ transcript' = transcript \o unread[c]
        /\ unread' = [unread EXCEPT ![c] = <<>>]
        /\ heard' = Chat!Delivered(to, unread[c])
        /\ ready' = ready \ {t}
        /\ UNCHANGED <<running, client_fd, waiting, member, typed, shown, joined>>
    BY <1>1, Zenon DEF Chat!Broadcast
  <1>3. /\ t \in Chat!Slots /\ c \in Clients /\ Chat!InTable(c)
        /\ \A i \in ready \ {t} : client_fd[i] # c
        /\ \A d \in Clients : d \in to <=> Chat!InTable(d) /\ d # c
    BY <1>1, <1>2, ChatTurn
  <1>4. ChatPrints(c)
    <2>1. heard' = [d \in Clients |-> IF d \in to /\ member[d] = "on" THEN heard[d] \o unread[c]
                                                                     ELSE heard[d]]
      BY <1>2 DEF Chat!Delivered
    <2>2. /\ DOMAIN heard' = Clients /\ heard' = [d \in Clients |-> heard'[d]]
          /\ \A d \in Clients :
                heard'[d] = IF d \in to /\ member[d] = "on" THEN heard[d] \o unread[c] ELSE heard[d]
      BY <2>1
    <2> QED
      BY <1>2, <1>3, <2>2 DEF ChatPrints
  <1>5. running' \in BOOLEAN /\ waiting' \in Seq(Clients) /\ ready' \subseteq Chat!Slots
    BY <1>2 DEF ChatInv, ChatTypes
  <1>6. ChatTypes' /\ ChatUsers' /\ Chat!SameConversation' /\ Chat!NothingLost'
    BY <1>3, <1>4, <1>5, ChatStaysSound, ChatConverses, ChatLosesNothing
  <1>7. ChatQueue'
    BY <1>2 DEF ChatInv, ChatQueue
  <1>8. ChatSlots'
    <2>1. unread \in [Clients -> Seq(ChatLines)] /\ client_fd \in [Chat!Slots -> Clients \cup {None}]
          /\ ready \subseteq Chat!Slots
      BY DEF ChatInv, ChatTypes
    <2>2. ASSUME NEW i \in ready \ {t}
          PROVE  client_fd[i] # None /\ (unread'[client_fd[i]] # <<>> \/ member[client_fd[i]] = "gone")
      <3>1. client_fd[i] # None /\ (unread[client_fd[i]] # <<>> \/ member[client_fd[i]] = "gone")
        BY DEF ChatInv, ChatSlots
      <3>2. unread'[client_fd[i]] = unread[client_fd[i]]
        BY <1>2, <1>3, <2>1, <3>1
      <3> QED
        BY <3>1, <3>2
    <2>3. \A i, j \in Chat!Slots : client_fd[i] = client_fd[j] /\ client_fd[i] # None => i = j
      BY DEF ChatInv, ChatSlots
    <2> QED
      BY <1>2, <2>2, <2>3 DEF ChatSlots
  <1> QED
    BY <1>6, <1>7, <1>8 DEF ChatInv

\* The same, but the server is killed by SIGPIPE on its way.
LEMMA ChatBreaks ==
  ASSUME ChatSizes, ChatInv, Chat!BrokenPipe
  PROVE  ChatInv'
  <1>1. PICK t, c : t = Chat!Turn /\ c = client_fd[t]
    OBVIOUS
  <1>2. /\ running /\ ready # {} /\ unread[c] # <<>>
        /\ transcript' = transcript \o unread[c]
        /\ unread' = [unread EXCEPT ![c] = <<>>]
        /\ running' = FALSE /\ waiting' = <<>> /\ ready' = {}
        /\ UNCHANGED <<client_fd, member, typed, shown, joined>>
    BY <1>1, Zenon DEF Chat!BrokenPipe
  <1>3. PICK j \in Chat!Others(t) :
           heard' = Chat!Delivered({client_fd[k] : k \in Chat!Others(t) \cap (1..(j - 1))}, unread[c])
    BY <1>1, Zenon DEF Chat!BrokenPipe
  <1>4. PICK to : to = {client_fd[k] : k \in Chat!Others(t) \cap (1..(j - 1))}
    OBVIOUS
  <1>5. /\ t \in Chat!Slots /\ c \in Clients /\ Chat!InTable(c)
        /\ \A d \in Clients : d \in {client_fd[k] : k \in Chat!Others(t)} <=>
              Chat!InTable(d) /\ d # c
    BY <1>1, <1>2, ChatTurn
  <1>6. \A d \in Clients : d \in to => Chat!InTable(d) /\ d # c
    BY <1>4, <1>5
  <1>7. ChatPrints(c)
    <2>1. heard' = [d \in Clients |-> IF d \in to /\ member[d] = "on" THEN heard[d] \o unread[c]
                                                                     ELSE heard[d]]
      BY <1>3, <1>4 DEF Chat!Delivered
    <2>2. /\ DOMAIN heard' = Clients /\ heard' = [d \in Clients |-> heard'[d]]
          /\ \A d \in Clients :
                heard'[d] = IF d \in to /\ member[d] = "on" THEN heard[d] \o unread[c] ELSE heard[d]
      BY <2>1
    <2> QED
      BY <1>2, <1>5, <1>6, <2>2 DEF ChatPrints
  <1>8. running' \in BOOLEAN /\ waiting' \in Seq(Clients) /\ ready' \subseteq Chat!Slots
    <2>1. <<>> \in Seq(Clients)
      OBVIOUS
    <2> QED
      BY <1>2, <2>1, Zenon
  <1>9. ChatTypes' /\ ChatUsers' /\ Chat!SameConversation' /\ Chat!NothingLost'
    BY <1>5, <1>7, <1>8, ChatStaysSound, ChatConverses, ChatLosesNothing
  <1>10. ChatQueue'
    BY <1>2 DEF ChatQueue
  <1>11. ChatSlots'
    BY <1>2 DEF ChatInv, ChatSlots
  <1> QED
    BY <1>9, <1>10, <1>11 DEF ChatInv

\* read returns the end of file, and the slot is free again.
LEMMA ChatCloses ==
  ASSUME ChatSizes, ChatInv, Chat!CloseSlot
  PROVE  ChatInv'
  <1>1. PICK t, c : t = Chat!Turn /\ c = client_fd[t]
    OBVIOUS
  <1>2. /\ ready # {} /\ unread[c] = <<>>
        /\ client_fd' = [client_fd EXCEPT ![t] = None]
        /\ ready' = ready \ {t}
        /\ UNCHANGED <<running, waiting, member, typed, unread, heard, shown, transcript, joined>>
    BY <1>1, Zenon DEF Chat!CloseSlot
  <1>3. /\ t \in Chat!Slots /\ c \in Clients /\ Chat!InTable(c) /\ member[c] = "gone"
        /\ client_fd \in [Chat!Slots -> Clients \cup {None}]
    BY <1>1, <1>2, ChatTurn DEF ChatInv, ChatTypes
  <1>4. \A i \in Chat!Slots : client_fd'[i] = IF i = t THEN None ELSE client_fd[i]
    BY <1>2, <1>3
  <1>5. ChatTypes'
    BY <1>2, <1>3 DEF ChatInv, ChatTypes
  <1>6. ChatSlots' /\ ChatQueue'
    <2>1. ready \subseteq Chat!Slots
      BY DEF ChatInv, ChatTypes
    <2> QED
      BY <1>2, <1>4, <2>1 DEF ChatInv, ChatSlots, ChatQueue
  <1>7. \A d \in Clients : d # c => (Chat!InTable(d)' <=> Chat!InTable(d))
    BY <1>1, <1>3, <1>4 DEF Chat!InTable, ChatSizes
  <1>8. /\ \A d : Chat!LinesOf(d)' = Chat!LinesOf(d)
        /\ \A d : Chat!Conversation(d)' = Chat!Conversation(d)
    BY <1>2 DEF Chat!LinesOf, Chat!Conversation
  <1>9. joined[c] # None
    BY <1>3 DEF ChatInv, ChatUsers
  <1>10. ChatUsers'
    BY <1>2, <1>3, <1>7, <1>8, <1>9 DEF ChatInv, ChatUsers
  <1>11. Chat!SameConversation'
    BY <1>2, <1>3, <1>7, <1>8 DEF ChatInv, Chat!SameConversation
  <1>12. Chat!NothingLost'
    BY <1>2, <1>3, <1>7, <1>8 DEF ChatInv, Chat!NothingLost
  <1> QED
    BY <1>5, <1>6, <1>10, <1>11, <1>12 DEF ChatInv

\* The invariant of the chat server holds in every reachable state.
LEMMA ChatInvariance == Spec => []ChatInv
  <1>0. ChatSizes
    BY ConstantsAssumption DEF ChatSizes
  <1>1. Init => ChatInv
    BY <1>0, ChatStarts DEF Init
  <1>2. ChatInv /\ [Next]_vars => ChatInv'
    <2> SUFFICES ASSUME ChatInv, [Chat!Next]_chatVars PROVE ChatInv'
      BY OneProgramMoves
    <2>1. ASSUME NEW c \in Clients, Chat!Join(c) \/ Chat!Type(c) \/ Chat!Show(c) \/ Chat!Leave(c)
          PROVE  ChatInv'
      BY <1>0, <2>1, ChatComings, ChatTyping, ChatShows
    <2>2. CASE Chat!Server
      BY <1>0, <2>2, ChatSelects, ChatCloses, ChatBroadcasts, ChatBreaks DEF Chat!Server
    <2>3. CASE UNCHANGED chatVars
      <3>1. /\ \A d : Chat!InTable(d)' = Chat!InTable(d)
            /\ \A d : Chat!LinesOf(d)' = Chat!LinesOf(d)
            /\ \A d : Chat!Conversation(d)' = Chat!Conversation(d)
        BY <2>3 DEF chatVars, Chat!InTable, Chat!LinesOf, Chat!Conversation
      <3>2. ChatTypes' /\ ChatSlots' /\ ChatQueue'
        BY <2>3 DEF chatVars, ChatInv, ChatTypes, ChatSlots, ChatQueue
      <3>3. ChatUsers'
        BY <2>3, <3>1 DEF chatVars, ChatInv, ChatUsers
      <3>4. Chat!SameConversation' /\ Chat!NothingLost'
        BY <2>3, <3>1 DEF chatVars, ChatInv, Chat!SameConversation, Chat!NothingLost
      <3> QED
        BY <3>2, <3>3, <3>4 DEF ChatInv
    <2> QED
      BY <2>1, <2>2, <2>3 DEF Chat!Next
  <1> QED
    BY <1>1, <1>2, PTL DEF Spec

\* Every user of the chat server follows the same conversation from its
\* accept on, and what a user types is printed once and in order, for every
\* number of users, slots and lines.
THEOREM ChatIsExact == Spec => []ChatExact
  <1>1. ChatInv => ChatExact
    BY DEF ChatInv, ChatExact
  <1> QED
    BY <1>1, ChatInvariance, PTL
-----------------------------------------------------------------------------
(***************************************************************************)
(* The types of the servers.                                               *)
(***************************************************************************)
KVTypes ==
    /\ serving \in Clients \cup {None}
    /\ up \in BOOLEAN
    /\ reply \in [Clients -> KV!Answers \cup {None}]

\* The answer to a command is one.
LEMMA AnswerTyped ==
  ASSUME KVSizes, StoreInv, NEW m \in KV!Commands
  PROVE  KV!Answer(m) \in KV!Answers
  <1>1. ASSUME NEW k \in Keys PROVE KV!kv_get(k) \in Values \cup {None}
    <2>1. MapRight
      BY StoreIsMap
    <2>2. CASE \E e \in DOMAIN store : store[e].key = k
      <3>1. PICK e \in DOMAIN store : store[e].key = k
        BY <2>2
      <3>2. store[e] \in KVEntry
        BY <3>1 DEF StoreInv
      <3>3. store[e].value \in Values
        BY <3>2 DEF KVEntry
      <3> QED
        BY <2>1, <3>1, <3>3 DEF MapRight
    <2>3. CASE \A e \in DOMAIN store : store[e].key # k
      BY <2>1, <2>3 DEF MapRight
    <2> QED
      BY <2>2, <2>3
  <1>2. CASE m \in [op : {"SET"}, key : Keys, value : Values]
    BY <1>2 DEF KV!Answer, KV!Answers
  <1>3. CASE m \in [op : {"GET"}, key : Keys]
    <2>1. PICK a : a = KV!kv_get(m.key)
      OBVIOUS
    <2>2. m.op = "GET" /\ a \in Values \cup {None}
      BY <1>1, <1>3, <2>1
    <2>3. KV!Answer(m) = IF a = None THEN "NOT_FOUND" ELSE a
      BY <2>1, <2>2 DEF KV!Answer
    <2> QED
      BY <2>2, <2>3 DEF KV!Answers
  <1>4. CASE m = [op |-> "BAD"]
    BY <1>4 DEF KV!Answer, KV!Answers
  <1> QED
    BY <1>2, <1>3, <1>4 DEF KV!Commands

LEMMA KVTyped == Spec => []KV!TypeOK
  <1>1. KVSizes
    BY ConstantsAssumption DEF KVSizes
  <1>2. Init => KVTypes
    BY DEF Init, KV!Init, KVTypes
  <1>3. ASSUME KVInv, KVTypes, [Next]_vars PROVE KVTypes'
    <2>1. CASE UNCHANGED kvVars
      BY <1>3, <2>1 DEF kvVars, KVTypes
    <2>2. ASSUME NEW c \in Clients,
                 \/ KV!Connect(c)
                 \/ \E m \in KV!Commands : KV!SendCommand(c, m)
                 \/ KV!SendNothing(c)
                 \/ KV!Receive(c)
                 \/ KV!Quit(c)
          PROVE  KVTypes'
      BY <1>3, <2>2 DEF KVTypes, KV!Connect, KV!SendCommand, KV!SendNothing, KV!Receive, KV!Quit
    <2>3. CASE KV!Accept
      <3>1. backlog \in Seq(Clients) /\ backlog # <<>> /\ serving' = Head(backlog)
            /\ up' = up /\ reply' = reply
        BY <1>3, <2>3 DEF KVInv, KV!Accept
      <3>2. serving' \in Clients
        BY <3>1
      <3> QED
        BY <1>3, <3>1, <3>2 DEF KVTypes
    <2>4. ASSUME NEW c \in Clients, KV!Serve(c) PROVE KVTypes'
      <3>1. PICK a : a = KV!Answer(inbox[c])
        OBVIOUS
      <3>2. inbox[c] \in KV!Commands
        BY <1>3, <2>4 DEF KVInv, KV!Serve
      <3>3. a \in KV!Answers
        BY <1>1, <1>3, <3>1, <3>2, AnswerTyped DEF KVInv
      <3>4. /\ serving' = None /\ (up' = FALSE \/ up' = up)
            /\ reply' = reply \/ reply' = [reply EXCEPT ![c] = a]
        BY <2>4, <3>1 DEF KV!Serve
      <3> QED
        BY <1>3, <3>3, <3>4 DEF KVTypes
    <2>5. ASSUME NEW c \in Clients, KV!Skip(c) PROVE KVTypes'
      BY <1>3, <2>5 DEF KVTypes, KV!Skip
    <2> QED
      BY <1>3, <2>1, <2>2, <2>3, <2>4, <2>5, OneProgramMoves DEF KV!Next, KV!Server
  <1>4. KVInv /\ KVTypes => KV!TypeOK
    BY DEF KVInv, StoreInv, KVEntry, KVTypes, KV!TypeOK
  <1>5. KVInv /\ KVTypes /\ [Next]_vars => KVTypes'
    BY <1>3
  <1> QED
    BY <1>2, <1>4, <1>5, KVInvariant, PTL DEF Spec
-----------------------------------------------------------------------------
\* What the echo server's TypeOK adds to EchoTypes.
EchoLimits ==
    /\ lines \in [Clients -> 0..MaxEchoes]
    /\ refused \subseteq Clients
    /\ lost \subseteq Clients

LEMMA EchoTyped == Spec => []EchoSrv!TypeOK
  <1>0. EchoSizes
    BY ConstantsAssumption DEF EchoSizes
  <1>1. Init => EchoLimits
    BY ConstantsAssumption DEF Init, EchoSrv!Init, EchoLimits
  <1>2. ASSUME EchoInv, EchoLimits, [Next]_vars PROVE EchoLimits'
    <2>1. CASE UNCHANGED echoVars
      BY <1>2, <2>1 DEF echoVars, EchoLimits
    <2>2. ASSUME NEW c \in Clients,
                 EchoSrv!Connect(c) \/ EchoSrv!ReadEcho(c) \/ EchoSrv!Quit(c)
          PROVE  EchoLimits'
      BY <1>2, <2>2 DEF EchoLimits, EchoSrv!Connect, EchoSrv!ReadEcho, EchoSrv!Quit
    <2>3. ASSUME NEW c \in Clients, EchoSrv!SendLine(c) PROVE EchoLimits'
      <3>1. lines[c] \in 0..MaxEchoes /\ lines[c] < MaxEchoes /\ MaxEchoes \in Nat
        BY <1>2, <2>3, ConstantsAssumption DEF EchoLimits, EchoSrv!SendLine
      <3>2. lines[c] + 1 \in 0..MaxEchoes
        BY <3>1
      <3> QED
        BY <1>2, <2>3, <3>2 DEF EchoLimits, EchoSrv!SendLine
    <2>4. CASE EchoSrv!Select
      <3>1. queued \in Seq(Clients)
        BY <1>2 DEF EchoInv, EchoTypes
      <3>2. queued # <<>> => Head(queued) \in Clients
        BY <3>1
      <3> QED
        BY <1>2, <2>4, <3>2 DEF EchoLimits, EchoSrv!Select, EchoSrv!AcceptFails, EchoSrv!AcceptOne
    <2>5. CASE EchoSrv!Echo
      <3>1. PICK s : s = EchoSrv!Turn
        OBVIOUS
      <3>2. s \in turns
        BY <1>0, <1>2, <2>5, <3>1, EchoTurn DEF EchoSrv!Echo
      <3>3. clients[s] \in Clients
        BY <1>2, <3>2 DEF EchoInv, TurnsReadable
      <3> QED
        BY <1>2, <2>5, <3>1, <3>3 DEF EchoLimits, EchoSrv!Echo
    <2>6. CASE EchoSrv!CloseSlot
      BY <1>2, <2>6 DEF EchoLimits, EchoSrv!CloseSlot
    <2> QED
      BY <1>2, <2>1, <2>2, <2>3, <2>4, <2>5, <2>6, OneProgramMoves DEF EchoSrv!Next, EchoSrv!Server
  <1>3. EchoInv /\ EchoLimits /\ [Next]_vars => EchoLimits'
    BY <1>2
  <1>4. EchoInv /\ EchoLimits => EchoSrv!TypeOK
    BY DEF EchoInv, EchoTypes, EchoLimits, EchoSrv!TypeOK
  <1> QED
    BY <1>1, <1>3, <1>4, EchoInvariance, PTL DEF Spec
-----------------------------------------------------------------------------
\* The part of the types that also holds once two kv_set have raced: whatever
\* entry a thread then writes, it has its command.
RacyTypes ==
    /\ entries \in [1..TABLE_ENTRIES -> Cells]
    /\ store_count \in Nat
    /\ user \in [Sessions -> {"prompt", "waiting", "gone"}]
    /\ thread \in [Sessions -> Busy \cup {"queued", "read", "closed"}]
    /\ DOMAIN cmd = Sessions
    /\ \A c \in Sessions : cmd[c] \in Threaded!Commands(c) \cup {None}
    /\ loaded \in [Sessions -> Nat]
RacyInv == RacyTypes /\ \A c \in Sessions : Placed(c)

\* The thread may go there with the command it has.
Fits(c, to) ==
    /\ to \in Busy \cup {"queued", "read", "closed"}
    /\ to \in Busy => cmd[c] # None
    /\ to = "scan" => cmd[c].op \in {"GET", "SET"}
    /\ to \in {"print1", "print2"} => cmd[c].op = "GET"
    /\ to \in {"update1", "update2"} \cup Filling => cmd[c].op = "SET"

LEMMA RacyMoves ==
  ASSUME RacyInv, NEW c \in Sessions, NEW to, Fits(c, to),
         thread' = [thread EXCEPT ![c] = to], UNCHANGED <<user, cmd>>,
         entries' \in [1..TABLE_ENTRIES -> Cells], store_count' \in Nat,
         loaded' \in [Sessions -> Nat]
  PROVE  RacyInv'
  <1>1. thread \in [Sessions -> Busy \cup {"queued", "read", "closed"}]
    BY DEF RacyInv, RacyTypes
  <1>2. /\ thread' \in [Sessions -> Busy \cup {"queued", "read", "closed"}]
        /\ thread'[c] = to /\ \A d \in Sessions : d # c => thread'[d] = thread[d]
    BY <1>1 DEF Fits
  <1>3. RacyTypes'
    BY <1>2 DEF RacyInv, RacyTypes
  <1>4. Placed(c)'
    BY <1>2 DEF RacyInv, Placed, Fits
  <1>5. \A d \in Sessions : d # c => Placed(d)'
    BY <1>2 DEF RacyInv, Placed
  <1> QED
    BY <1>3, <1>4, <1>5 DEF RacyInv

\* A half copied to any entry, one of the table or not, leaves a table.
LEMMA RacyCopied ==
  ASSUME NEW old \in [1..TABLE_ENTRIES -> Cells], NEW e, NEW field \in {"key", "value"},
         NEW h \in 1..2, NEW x \in Halves
  PROVE  Copied(old, e, field, h, x) \in [1..TABLE_ENTRIES -> Cells]
  <1>1. CASE e \in 1..TABLE_ENTRIES
    BY <1>1, HalfCopied DEF Arrived
  <1>2. CASE e \notin 1..TABLE_ENTRIES
    <2>1. Copied(old, e, field, h, x) = old
      BY <1>2 DEF Copied
    <2> QED
      BY <2>1
  <1> QED
    BY <1>1, <1>2

LEMMA RacyClients ==
  ASSUME RacyInv, NEW c \in Sessions,
         (\E m \in Threaded!Commands(c) : Threaded!SendCommand(c, m)) \/ Threaded!Quit(c)
  PROVE  RacyInv'
  <1>1. UNCHANGED <<entries, store_count, thread, loaded>>
    BY DEF Threaded!SendCommand, Threaded!Quit, Threaded!serverVars
  <1>2. Placed(c) /\ RacyTypes
    BY DEF RacyInv
  <1>3. /\ \A d \in Sessions : d # c => user'[d] = user[d] /\ cmd'[d] = cmd[d]
        /\ user' \in [Sessions -> {"prompt", "waiting", "gone"}] /\ user'[c] # "prompt"
        /\ DOMAIN cmd' = Sessions /\ cmd'[c] \in Threaded!Commands(c) \cup {None}
        /\ cmd'[c] = cmd[c] \/ user[c] = "prompt"
    <2>1. CASE Threaded!Quit(c)
      BY <1>2, <2>1 DEF RacyTypes, Threaded!Quit
    <2>2. CASE \E m \in Threaded!Commands(c) : Threaded!SendCommand(c, m)
      BY <1>2, <2>2, Zenon DEF RacyTypes, Threaded!SendCommand
    <2> QED
      BY <2>1, <2>2
  <1>4. cmd'[c] = cmd[c] \/ thread[c] \notin Busy
    BY <1>2, <1>3 DEF Placed
  <1>5. RacyTypes'
    BY <1>1, <1>2, <1>3 DEF RacyTypes
  <1>6. Placed(c)'
    BY <1>1, <1>2, <1>3, <1>4 DEF Placed, Busy, Filling
  <1>7. \A d \in Sessions : d # c => Placed(d)'
    BY <1>1, <1>3 DEF RacyInv, Placed
  <1> QED
    BY <1>5, <1>6, <1>7 DEF RacyInv

LEMMA RacyThreads ==
  ASSUME ThreadSizes, RacyInv, NEW c \in Sessions,
         Threaded!Accept(c) \/ Threaded!handle_client(c)
  PROVE  RacyInv'
  <1>1. RacyTypes /\ Placed(c) /\ entries \in [1..TABLE_ENTRIES -> Cells] /\ store_count \in Nat
        /\ loaded \in [Sessions -> Nat]
        /\ thread \in [Sessions -> Busy \cup {"queued", "read", "closed"}]
    BY DEF RacyInv, RacyTypes
  <1>2. cmd[c] # None => /\ cmd[c].op \in {"GET", "SET", "BAD"}
                         /\ cmd[c].op \in {"GET", "SET"} => cmd[c].key \in Keys
                         /\ cmd[c].op = "SET" => cmd[c].value = c
    BY <1>1 DEF RacyTypes, Threaded!Commands
  <1>3. cmd[c] # None /\ cmd[c].op = "SET" => cmd[c].key \in Halves /\ cmd[c].value \in Halves
    BY <1>2 DEF Halves
  <1>4. CASE Threaded!Accept(c)
    <2>1. PICK to \in {"read", "closed"} : thread' = [thread EXCEPT ![c] = to]
      BY <1>4 DEF Threaded!Accept
    <2>2. Fits(c, to) /\ UNCHANGED <<user, cmd, entries, store_count, loaded>>
      BY <1>4, <2>1 DEF Fits, Busy, Filling, Threaded!Accept, Threaded!clientVars
    <2> QED
      BY <1>1, <2>1, <2>2, RacyMoves
  <1>5. CASE Threaded!ReadCommand(c)
    <2>1. PICK to : to = IF cmd[c] = None THEN "closed" ELSE IF cmd[c].op = "BAD" THEN "reply" ELSE "scan"
      OBVIOUS
    <2>2. Fits(c, to)
      BY <1>2, <2>1 DEF Fits, Busy, Filling
    <2>3. thread' = [thread EXCEPT ![c] = to] /\ UNCHANGED <<user, cmd, entries, store_count, loaded>>
      BY <1>5, <2>1 DEF Threaded!ReadCommand, Threaded!clientVars
    <2> QED
      BY <1>1, <2>2, <2>3, RacyMoves
  <1>6. CASE Threaded!Scan(c)
    <2>1. cmd[c] # None /\ cmd[c].op \in {"GET", "SET"}
      BY <1>1, <1>6 DEF Placed, Busy, Threaded!Scan
    <2>2. PICK to \in {"scan", "check", "reply", "update1", "print1"} :
             /\ thread' = [thread EXCEPT ![c] = to]
             /\ to \in {"check", "update1"} => cmd[c].op = "SET"
             /\ to = "print1" => cmd[c].op # "SET"
      BY <1>1, <1>6 DEF Threaded!Scan
    <2>3. Fits(c, to)
      BY <2>1, <2>2 DEF Fits, Busy, Filling
    <2>4. UNCHANGED <<user, cmd, entries, store_count, loaded>>
      BY <1>6 DEF Threaded!Scan, Threaded!clientVars
    <2> QED
      BY <1>1, <2>2, <2>3, <2>4, RacyMoves
  <1>7. ASSUME NEW h \in {1, 2}, Threaded!PrintHalf(c, h) PROVE RacyInv'
    <2>1. PICK to : to = IF h = 1 THEN "print2" ELSE "reply"
      OBVIOUS
    <2>2. Fits(c, to)
      BY <1>1, <1>7, <2>1 DEF Placed, Fits, Busy, Filling, Threaded!PrintHalf
    <2>3. thread' = [thread EXCEPT ![c] = to] /\ UNCHANGED <<user, cmd, entries, store_count, loaded>>
      BY <1>7, <2>1 DEF Threaded!PrintHalf, Threaded!clientVars
    <2> QED
      BY <1>1, <2>2, <2>3, RacyMoves
  <1>8. ASSUME NEW h \in {1, 2}, Threaded!UpdateHalf(c, h) PROVE RacyInv'
    <2>1. PICK to, e : to = (IF h = 1 THEN "update2" ELSE "reply") /\ e = scanned[c]
      OBVIOUS
    <2>2. Fits(c, to) /\ cmd[c] # None /\ cmd[c].op = "SET"
      BY <1>1, <1>8, <2>1 DEF Placed, Fits, Busy, Filling, Threaded!UpdateHalf
    <2>3. thread' = [thread EXCEPT ![c] = to] /\ UNCHANGED <<user, cmd, store_count, loaded>>
          /\ entries' = Copied(entries, e, "value", h, cmd[c].value)
      BY <1>8, <2>1 DEF Threaded!UpdateHalf, Threaded!clientVars, Copied
    <2>4. h \in 1..2 /\ "value" \in {"key", "value"} /\ cmd[c].value \in Halves
      BY <1>3, <2>2
    <2>5. entries' \in [1..TABLE_ENTRIES -> Cells]
      BY <1>1, <2>3, <2>4, RacyCopied, Zenon
    <2> QED
      BY <1>1, <2>2, <2>3, <2>5, RacyMoves
  <1>9. CASE Threaded!Check(c)
    <2>1. PICK to \in {"key1", "reply"} : thread' = [thread EXCEPT ![c] = to]
      BY <1>9 DEF Threaded!Check
    <2>2. Fits(c, to) /\ UNCHANGED <<user, cmd, entries, store_count, loaded>>
      BY <1>1, <1>9 DEF Placed, Fits, Busy, Filling, Threaded!Check, Threaded!clientVars
    <2> QED
      BY <1>1, <2>1, <2>2, RacyMoves
  <1>10. ASSUME NEW field \in {"key", "value"}, NEW now \in Filling, NEW then \in Filling,
                Threaded!FillFirstHalf(c, field, now, then)
         PROVE  RacyInv'
    <2>1. PICK e : e = store_count + 1
      OBVIOUS
    <2>2. thread[c] = now /\ Fits(c, now) /\ Fits(c, then) /\ cmd[c] # None /\ cmd[c].op = "SET"
      BY <1>1, <1>10 DEF Placed, Fits, Busy, Filling, Threaded!FillFirstHalf
    <2>3. UNCHANGED <<user, cmd, store_count, loaded>>
      BY <1>10 DEF Threaded!FillFirstHalf, Threaded!clientVars
    <2>4. \/ /\ thread' = [thread EXCEPT ![c] = then]
             /\ entries' = Copied(entries, e, field, 1, cmd[c][field])
          \/ thread' = thread /\ entries' = entries
      BY <1>10, <2>1 DEF Threaded!FillFirstHalf, Copied
    <2>5. 1 \in 1..2 /\ cmd[c][field] \in Halves
      BY <1>3, <2>2
    <2>6. entries' \in [1..TABLE_ENTRIES -> Cells]
      <3>1. Copied(entries, e, field, 1, cmd[c][field]) \in [1..TABLE_ENTRIES -> Cells]
        BY <1>1, <2>5, RacyCopied, Zenon
      <3> QED
        BY <1>1, <2>4, <3>1, Zenon
    <2>7. thread' = thread => thread' = [thread EXCEPT ![c] = now]
      BY <1>1, <2>2
    <2> QED
      BY <1>1, <2>2, <2>3, <2>4, <2>6, <2>7, RacyMoves
  <1>11. ASSUME NEW field \in {"key", "value"}, NEW now \in Filling, NEW then \in Filling,
                Threaded!FillSecondHalf(c, field, now, then)
         PROVE  RacyInv'
    <2>1. PICK e : e = slot[c]
      OBVIOUS
    <2>2. Fits(c, then) /\ cmd[c] # None /\ cmd[c].op = "SET"
      BY <1>1, <1>11 DEF Placed, Fits, Busy, Filling, Threaded!FillSecondHalf
    <2>3. /\ UNCHANGED <<user, cmd, store_count, loaded>>
          /\ thread' = [thread EXCEPT ![c] = then]
          /\ entries' = Copied(entries, e, field, 2, cmd[c][field])
      BY <1>11, <2>1 DEF Threaded!FillSecondHalf, Threaded!clientVars, Copied
    <2>4. 2 \in 1..2 /\ cmd[c][field] \in Halves
      BY <1>3, <2>2
    <2>5. entries' \in [1..TABLE_ENTRIES -> Cells]
      BY <1>1, <2>3, <2>4, RacyCopied, Zenon
    <2> QED
      BY <1>1, <2>2, <2>3, <2>5, RacyMoves
  <1>12. CASE Threaded!LoadCount(c)
    <2>1. /\ thread[c] = "load" /\ thread' = [thread EXCEPT ![c] = "store"]
          /\ loaded' = [loaded EXCEPT ![c] = store_count]
          /\ UNCHANGED <<user, cmd, entries, store_count>>
      BY <1>12 DEF Threaded!LoadCount, Threaded!clientVars
    <2>2. Fits(c, "store")
      BY <1>1, <2>1 DEF Placed, Fits, Busy, Filling
    <2>3. loaded' \in [Sessions -> Nat]
      BY <1>1, <2>1
    <2> QED
      BY <1>1, <2>1, <2>2, <2>3, RacyMoves
  <1>13. CASE Threaded!StoreCount(c)
    <2>1. /\ thread[c] = "store" /\ thread' = [thread EXCEPT ![c] = "reply"]
          /\ store_count' = loaded[c] + 1
          /\ UNCHANGED <<user, cmd, entries, loaded>>
      BY <1>13 DEF Threaded!StoreCount, Threaded!clientVars
    <2>2. Fits(c, "reply")
      BY <1>1, <2>1 DEF Placed, Fits, Busy, Filling
    <2>3. store_count' \in Nat
      BY <1>1, <2>1
    <2> QED
      BY <1>1, <2>1, <2>2, <2>3, RacyMoves
  <1>14. CASE Threaded!Reply(c)
    <2>1. /\ entries' = entries /\ store_count' = store_count
          /\ loaded' = [loaded EXCEPT ![c] = 0]
      BY <1>14 DEF Threaded!Reply
    <2>2. loaded' \in [Sessions -> Nat]
      BY <1>1, <2>1
    <2>3. CASE user[c] = "gone"
      <3>1. thread' = [thread EXCEPT ![c] = "closed"] /\ UNCHANGED <<user, cmd>>
        BY <1>14, <2>3 DEF Threaded!Reply
      <3>2. Fits(c, "closed")
        BY DEF Fits, Busy, Filling
      <3> QED
        BY <1>1, <2>1, <2>2, <3>1, <3>2, RacyMoves
    <2>4. CASE user[c] # "gone"
      <3>1. /\ thread' = [thread EXCEPT ![c] = "read"] /\ cmd' = [cmd EXCEPT ![c] = None]
            /\ user' = [user EXCEPT ![c] = "prompt"]
        BY <1>14, <2>4 DEF Threaded!Reply
      <3>2. /\ thread' \in [Sessions -> Busy \cup {"queued", "read", "closed"}]
            /\ thread'[c] = "read" /\ cmd'[c] = None /\ DOMAIN cmd' = Sessions
            /\ user' \in [Sessions -> {"prompt", "waiting", "gone"}]
            /\ \A d \in Sessions : d # c =>
                  thread'[d] = thread[d] /\ cmd'[d] = cmd[d] /\ user'[d] = user[d]
        BY <1>1, <3>1 DEF RacyTypes
      <3>3. RacyTypes'
        BY <1>1, <2>1, <2>2, <3>2 DEF RacyTypes
      <3>4. Placed(c)'
        BY <3>2 DEF Placed, Busy, Filling
      <3>5. \A d \in Sessions : d # c => Placed(d)'
        BY <3>2 DEF RacyInv, Placed
      <3> QED
        BY <3>3, <3>4, <3>5 DEF RacyInv
    <2> QED
      BY <2>3, <2>4
  <1>15. {"key1", "key2", "value1", "value2", "load"} \subseteq Filling
    BY DEF Filling
  <1>16. Threaded!kv_set(c) => RacyInv'
    BY <1>8, <1>9, <1>10, <1>11, <1>12, <1>13, <1>15 DEF Threaded!kv_set
  <1> QED
    BY <1>4, <1>5, <1>6, <1>7, <1>14, <1>16 DEF Threaded!handle_client

LEMMA ThreadsTyped == Spec => []Threaded!TypeOK
  <1>1. ThreadSizes
    BY ConstantsAssumption DEF ThreadSizes
  <1>2. Init => RacyInv
    <2> SUFFICES ASSUME Init PROVE RacyInv
      OBVIOUS
    <2>1. ThreadTypes /\ \A c \in Sessions : Placed(c)
      <3>1. ThreadInv /\ ~overlapped
        BY <1>1, ThreadsStart DEF Init, Threaded!Init
      <3> QED
        BY <3>1 DEF ThreadInv, ThreadParts
    <2> QED
      BY <2>1 DEF RacyInv, RacyTypes, ThreadTypes
  <1>3. ASSUME RacyInv, [Next]_vars PROVE RacyInv'
    <2>1. CASE UNCHANGED threadVars
      BY <1>3, <2>1 DEF threadVars, RacyInv, RacyTypes, Placed
    <2>2. CASE Threaded!Next
      BY <1>1, <1>3, <2>2, RacyClients, RacyThreads DEF Threaded!Next
    <2> QED
      BY <1>3, <2>1, <2>2, OneProgramMoves
  <1>4. RacyInv => Threaded!TypeOK
    <2> SUFFICES ASSUME RacyInv PROVE Threaded!TypeOK
      OBVIOUS
    <2>1. Threaded!Halves = Halves
      BY DEF Threaded!Halves, Halves
    <2>2. ASSUME NEW f \in Pairs PROVE f \in Halves \X Halves
      <3>1. f = <<f[1], f[2]>> /\ f[1] \in Halves /\ f[2] \in Halves
        BY <2>2 DEF Pairs
      <3> QED
        BY <3>1
    <2>3. ASSUME NEW x \in Cells PROVE x \in [key : Halves \X Halves, value : Halves \X Halves]
      BY <2>2 DEF Cells
    <2>4. entries \in [1..TABLE_ENTRIES -> [key : Halves \X Halves, value : Halves \X Halves]]
      BY <2>3 DEF RacyInv, RacyTypes
    <2>5. \A c \in Sessions : thread[c] \in {"queued", "read", "scan", "print1", "print2", "update1",
              "update2", "check", "key1", "key2", "value1", "value2", "load", "store", "reply", "closed"}
      BY DEF RacyInv, RacyTypes, Busy
    <2>6. thread \in [Sessions -> {"queued", "read", "scan", "print1", "print2", "update1",
              "update2", "check", "key1", "key2", "value1", "value2", "load", "store", "reply", "closed"}]
      BY <2>5 DEF RacyInv, RacyTypes
    <2> QED
      BY <2>1, <2>4, <2>6 DEF RacyInv, RacyTypes, Threaded!TypeOK
  <1>5. RacyInv /\ [Next]_vars => RacyInv'
    BY <1>3
  <1> QED
    BY <1>2, <1>4, <1>5, PTL DEF Spec
-----------------------------------------------------------------------------
\* What the chat server's TypeOK adds to ChatTypes: MaxLines bounds the lines,
\* because Type counts those written.
ChatLimits ==
    /\ typed \in [Clients -> 0..MaxLines]
    /\ IsFiniteSet(Chat!Written)
    /\ unread \in [Clients -> Seq(Chat!Lines)]
    /\ heard \in [Clients -> Seq(Chat!Lines \cup {Chat!Greeting})]
    /\ shown \in [Clients -> Seq(Chat!Lines \cup {Chat!Greeting})]
    /\ transcript \in Seq(Chat!Lines)
    /\ broken \subseteq Clients

LEMMA ChatBegins ==
  ASSUME MaxLines \in Nat, Chat!Init
  PROVE  ChatLimits
  <1>1. Chat!Written = {}
    BY DEF Chat!Init, Chat!Written, Chat!Lines
  <1>2. IsFiniteSet({})
    BY FS_EmptySet
  <1>3. \A S : <<>> \in Seq(S)
    OBVIOUS
  <1> QED
    BY <1>1, <1>2, <1>3 DEF Chat!Init, ChatLimits

\* A user that may type has not typed MaxLines lines: they would all count.
LEMMA ChatWrites ==
  ASSUME MaxLines \in Nat, ChatLimits, NEW c \in Clients, Chat!Type(c)
  PROVE  ChatLimits'
  <1>1. /\ typed \in [Clients -> 0..MaxLines] /\ typed[c] \in 0..MaxLines
        /\ IsFiniteSet(Chat!Written) /\ Cardinality(Chat!Written) < MaxLines
    BY ChatCard DEF ChatLimits, Chat!Type
  <1>2. typed[c] < MaxLines
    <2> SUFFICES ASSUME typed[c] = MaxLines PROVE FALSE
      BY <1>1
    <2> DEFINE mine == {c} \X (1..MaxLines)
    <2>1. mine \subseteq Chat!Written
      BY <1>1 DEF Chat!Written, Chat!Lines
    <2>2. IsFiniteSet({c}) /\ Cardinality({c}) = 1
      BY FS_Singleton
    <2>3. IsFiniteSet(1..MaxLines) /\ Cardinality(1..MaxLines) = MaxLines
      <3>1. 1 \in Int /\ MaxLines \in Int
        OBVIOUS
      <3> QED
        BY <3>1, FS_Interval
    <2>4. Cardinality(mine) = Cardinality({c}) * Cardinality(1..MaxLines)
      BY <2>2, <2>3, FS_Product, Zenon
    <2> HIDE DEF mine
    <2>5. Cardinality(mine) = MaxLines
      <3>1. 1 * MaxLines = MaxLines
        OBVIOUS
      <3> QED
        BY <2>2, <2>3, <2>4, <3>1
    <2>6. Cardinality(mine) <= Cardinality(Chat!Written) /\ Cardinality(Chat!Written) \in Nat
      BY <1>1, <2>1, FS_Subset, FS_CardinalityType
    <2> QED
      BY <1>1, <2>5, <2>6
  <1>3. PICK n, line : n = typed[c] + 1 /\ line = <<c, n>>
    OBVIOUS
  <1>4. n \in 1..MaxLines /\ line \in Chat!Lines
    BY <1>1, <1>2, <1>3 DEF Chat!Lines
  <1>5. /\ typed' = [typed EXCEPT ![c] = n]
        /\ unread' = [unread EXCEPT ![c] = Append(unread[c], line)]
        /\ UNCHANGED <<heard, shown, transcript, broken>>
    BY <1>3 DEF Chat!Type
  <1>6. typed' \in [Clients -> 0..MaxLines]
    BY <1>1, <1>4, <1>5
  <1>7. unread' \in [Clients -> Seq(Chat!Lines)]
    <2>1. unread \in [Clients -> Seq(Chat!Lines)] /\ unread[c] \in Seq(Chat!Lines)
      BY DEF ChatLimits
    <2>2. Append(unread[c], line) \in Seq(Chat!Lines)
      BY <1>4, <2>1
    <2> QED
      BY <1>5, <2>1, <2>2
  <1>8. IsFiniteSet(Chat!Written')
    <2>1. Chat!Written' \subseteq Chat!Written \cup {line}
      <3> SUFFICES ASSUME NEW d \in Clients, NEW m \in 1..MaxLines, m <= typed'[d]
                   PROVE  m <= typed[d] \/ <<d, m>> = line
        BY DEF Chat!Written, Chat!Lines
      <3>1. CASE d = c
        BY <1>1, <1>3, <1>5, <3>1
      <3>2. CASE d # c
        BY <1>1, <1>5, <3>2
      <3> QED
        BY <3>1, <3>2
    <2>2. IsFiniteSet({line})
      BY FS_Singleton
    <2>3. IsFiniteSet(Chat!Written \cup {line})
      BY <1>1, <2>2, FS_Union
    <2> QED
      BY <2>1, <2>3, FS_Subset
  <1> QED
    BY <1>5, <1>6, <1>7, <1>8 DEF ChatLimits

\* What is delivered joins what was.
LEMMA ChatDelivers ==
  ASSUME ChatLimits, NEW to, NEW msgs \in Seq(Chat!Lines \cup {Chat!Greeting}),
         to \subseteq Clients
  PROVE  /\ Chat!Delivered(to, msgs) \in [Clients -> Seq(Chat!Lines \cup {Chat!Greeting})]
         /\ Chat!Broken(to) \subseteq Clients
  <1>1. PICK M : M = Chat!Lines \cup {Chat!Greeting}
    OBVIOUS
  <1>2. \A d \in Clients : heard[d] \in Seq(M)
    BY <1>1 DEF ChatLimits
  <1>3. \A d \in Clients : heard[d] \o msgs \in Seq(M)
    BY <1>1, <1>2
  <1> QED
    BY <1>1, <1>2, <1>3 DEF Chat!Delivered, Chat!Broken, ChatLimits

\* The lines of c are printed; nothing else is typed or read.
LEMMA ChatPrinted ==
  ASSUME ChatLimits, NEW c \in Clients,
         transcript' = transcript \o unread[c], unread' = [unread EXCEPT ![c] = <<>>]
  PROVE  transcript' \in Seq(Chat!Lines) /\ unread' \in [Clients -> Seq(Chat!Lines)]
  <1>1. PICK L : L = Chat!Lines
    OBVIOUS
  <1>2. transcript \in Seq(L) /\ unread \in [Clients -> Seq(L)] /\ unread[c] \in Seq(L)
        /\ <<>> \in Seq(L)
    BY <1>1 DEF ChatLimits
  <1>3. transcript \o unread[c] \in Seq(L)
    BY <1>2
  <1> QED
    BY <1>1, <1>2, <1>3

LEMMA ChatTyped == Spec => []Chat!TypeOK
  <1>1. MaxLines \in Nat /\ ChatSizes
    BY ConstantsAssumption DEF ChatSizes
  <1>2. Init => ChatLimits
    BY <1>1, ChatBegins DEF Init
  <1>3. ASSUME ChatInv, ChatLimits, [Next]_vars PROVE ChatLimits'
    <2>1. UNCHANGED <<typed, unread, heard, shown, transcript, broken>> => ChatLimits'
      BY <1>3 DEF ChatLimits, Chat!Written
    <2>2. CASE UNCHANGED chatVars
      BY <2>1, <2>2 DEF chatVars
    <2>3. ASSUME NEW c \in Clients, Chat!Join(c) \/ Chat!Leave(c) PROVE ChatLimits'
      BY <2>1, <2>3 DEF Chat!Join, Chat!Leave
    <2>4. ASSUME NEW c \in Clients, Chat!Show(c) PROVE ChatLimits'
      <3>1. PICK M : M = Chat!Lines \cup {Chat!Greeting}
        OBVIOUS
      <3>2. /\ heard \in [Clients -> Seq(M)] /\ shown \in [Clients -> Seq(M)]
            /\ heard[c] \in Seq(M) /\ shown[c] \in Seq(M) /\ <<>> \in Seq(M)
        BY <1>3, <3>1 DEF ChatLimits
      <3>3. shown[c] \o heard[c] \in Seq(M)
        BY <3>2
      <3>4. /\ shown' = [shown EXCEPT ![c] = shown[c] \o heard[c]]
            /\ heard' = [heard EXCEPT ![c] = <<>>]
            /\ UNCHANGED <<typed, unread, transcript, broken>>
        BY <2>4 DEF Chat!Show
      <3>5. shown' \in [Clients -> Seq(M)] /\ heard' \in [Clients -> Seq(M)]
        BY <3>2, <3>3, <3>4
      <3> QED
        BY <1>3, <3>1, <3>4, <3>5 DEF ChatLimits, Chat!Written
    <2>5. CASE Chat!Select
      <3>1. UNCHANGED <<typed, unread, shown, transcript>>
        BY <2>5 DEF Chat!Select
      <3>2. CASE waiting = <<>>
        BY <2>1, <2>5, <3>1, <3>2 DEF Chat!Select
      <3>3. CASE waiting # <<>>
        <4>1. PICK c : c = Head(waiting)
          OBVIOUS
        <4>2. c \in Clients
          BY <1>3, <3>3, <4>1 DEF ChatInv, ChatTypes
        <4>3. heard' = Chat!Delivered({c}, <<Chat!Greeting>>) /\ broken' = Chat!Broken({c})
          BY <2>5, <3>3, <4>1 DEF Chat!Select
        <4>4. <<Chat!Greeting>> \in Seq(Chat!Lines \cup {Chat!Greeting}) /\ {c} \subseteq Clients
          BY <4>2
        <4> QED
          BY <1>3, <3>1, <4>3, <4>4, ChatDelivers DEF ChatLimits, Chat!Written
      <3> QED
        BY <3>2, <3>3
    <2>6. CASE Chat!CloseSlot
      BY <2>1, <2>6 DEF Chat!CloseSlot
    <2>7. ASSUME ready # {}
          PROVE  /\ client_fd[Chat!Turn] \in Clients
                 /\ \A S : {client_fd[j] : j \in Chat!Others(Chat!Turn) \cap S} \subseteq Clients
      <3>1. client_fd[Chat!Turn] \in Clients
        BY <1>1, <1>3, <2>7, ChatTurn
      <3>2. \A j \in Chat!Others(Chat!Turn) : client_fd[j] \in Clients
        BY <1>3 DEF Chat!Others, ChatInv, ChatTypes
      <3> QED
        BY <3>1, <3>2
    <2>8. CASE Chat!Broadcast
      <3>1. PICK c, to : c = client_fd[Chat!Turn] /\ to = {client_fd[j] : j \in Chat!Others(Chat!Turn)}
        OBVIOUS
      <3>2. /\ ready # {} /\ UNCHANGED <<typed, shown>>
            /\ transcript' = transcript \o unread[c] /\ unread' = [unread EXCEPT ![c] = <<>>]
            /\ heard' = Chat!Delivered(to, unread[c]) /\ broken' = Chat!Broken(to)
        BY <2>8, <3>1 DEF Chat!Broadcast
      <3>3. c \in Clients /\ to \subseteq Clients
        <4>1. {client_fd[j] : j \in Chat!Others(Chat!Turn) \cap Chat!Others(Chat!Turn)} = to
          BY <3>1
        <4> QED
          BY <2>7, <3>1, <3>2, <4>1
      <3>4. unread[c] \in Seq(Chat!Lines \cup {Chat!Greeting})
        BY <1>3, <3>3 DEF ChatLimits
      <3>5. heard' \in [Clients -> Seq(Chat!Lines \cup {Chat!Greeting})] /\ broken' \subseteq Clients
        BY <1>3, <3>2, <3>3, <3>4, ChatDelivers
      <3>6. transcript' \in Seq(Chat!Lines) /\ unread' \in [Clients -> Seq(Chat!Lines)]
        BY <1>3, <3>2, <3>3, ChatPrinted
      <3> QED
        BY <1>3, <3>2, <3>5, <3>6 DEF ChatLimits, Chat!Written
    <2>9. CASE Chat!BrokenPipe
      <3>1. PICK c : c = client_fd[Chat!Turn]
        OBVIOUS
      <3>2. PICK j \in Chat!Others(Chat!Turn) :
               heard' = Chat!Delivered({client_fd[k] : k \in Chat!Others(Chat!Turn) \cap (1..(j - 1))},
                                       unread[c])
        BY <2>9, <3>1 DEF Chat!BrokenPipe
      <3>3. PICK to : to = {client_fd[k] : k \in Chat!Others(Chat!Turn) \cap (1..(j - 1))}
        OBVIOUS
      <3>4. /\ ready # {} /\ UNCHANGED <<typed, shown, broken>>
            /\ transcript' = transcript \o unread[c] /\ unread' = [unread EXCEPT ![c] = <<>>]
            /\ heard' = Chat!Delivered(to, unread[c])
        BY <2>9, <3>1, <3>2, <3>3 DEF Chat!BrokenPipe
      <3>5. c \in Clients /\ to \subseteq Clients
        BY <2>7, <3>1, <3>3, <3>4
      <3>6. unread[c] \in Seq(Chat!Lines \cup {Chat!Greeting})
        BY <1>3, <3>5 DEF ChatLimits
      <3>7. heard' \in [Clients -> Seq(Chat!Lines \cup {Chat!Greeting})]
        BY <1>3, <3>4, <3>5, <3>6, ChatDelivers
      <3>8. transcript' \in Seq(Chat!Lines) /\ unread' \in [Clients -> Seq(Chat!Lines)]
        BY <1>3, <3>4, <3>5, ChatPrinted
      <3> QED
        BY <1>3, <3>4, <3>7, <3>8 DEF ChatLimits, Chat!Written
    <2> QED
      BY <1>1, <1>3, <2>2, <2>3, <2>4, <2>5, <2>6, <2>8, <2>9, ChatWrites, OneProgramMoves
         DEF Chat!Next, Chat!Server
  <1>4. ASSUME ChatInv, ChatLimits PROVE Chat!TypeOK
    <2>1. \A c \in Clients : joined[c] = None \/ joined[c] \in 0..Len(transcript)
      BY <1>4 DEF ChatInv, ChatUsers
    <2> QED
      BY <1>4, <2>1, Zenon DEF ChatInv, ChatTypes, ChatLimits, Chat!TypeOK
  <1>5. ChatInv /\ ChatLimits /\ [Next]_vars => ChatLimits'
    BY <1>3
  <1>6. ChatInv /\ ChatLimits => Chat!TypeOK
    BY <1>4
  <1> QED
    BY <1>2, <1>5, <1>6, ChatInvariance, PTL DEF Spec
=============================================================================
