----------------------- MODULE PreforkedServerProofs -----------------------
(***************************************************************************)
(* Proofs about PreforkedServer, for every number of threads, children and *)
(* connections.                                                            *)
(***************************************************************************)
EXTENDS PreforkedServer, TLAPS, FiniteSetTheorems

-----------------------------------------------------------------------------
(* Threads and the objects whose handlers they run *)

\* A thread is in handle_accept.
Handling == {"accepted", "fork", "parent", "send", "stop_wait", "stop_kill", "refuse",
             "rearm"}

\* The object of a running handler has no async_accept outstanding, so no second handler
\* can be started for it, and it has a connection.
HandlerAlone ==
    /\ \A t \in Threads :
        tpc[t] \in Handling => ~armed[job[t]] /\ socket[job[t]] \in Clients
    /\ \A t, u \in Threads :
        tpc[t] \in Handling /\ tpc[u] \in Handling /\ job[t] = job[u] => t = u
    /\ \A o \in Threads : armed[o] => socket[o] = None

\* What a handler uses without a test is there.
HandlerReady ==
    \A t \in Threads :
        /\ tpc[t] \in {"fork", "parent"} => pair[t] \in Children
        /\ tpc[t] \in {"parent", "send", "stop_wait", "stop_kill"} => pid[job[t]] \in Children
        /\ tpc[t] = "send" => fd[job[t]] \in Children
        /\ tpc[t] = "stop_wait" => tries[t] >= 1

HandlerInv == TypeOK /\ HandlerAlone /\ HandlerReady

\* No thread has been started at first.
LEMMA InitHandler == Init => HandlerInv
<1> SUFFICES ASSUME Init PROVE HandlerInv
  OBVIOUS
<1> USE DEF Init
<1>1. stopped \in BOOLEAN /\ armed \in [Threads -> BOOLEAN] /\ destroyed \in [Threads -> BOOLEAN]
  OBVIOUS
<1>2. queue \in [Children -> Seq(Clients)]
  OBVIOUS
<1>3. TypeOK
  BY <1>1, <1>2, StopTriesAssumption DEF TypeOK, ThreadStates, ChildStates, ConnStates
<1>4. HandlerAlone /\ HandlerReady
  BY DEF HandlerAlone, HandlerReady, Handling
<1>5. QED
  BY <1>3, <1>4 DEF HandlerInv

\* The death of a process leaves the types of what it changes.
LEMMA DieTypes ==
    ASSUME TypeOK, NEW k \in Children, NEW how \in ChildStates, Die(k, how)
    PROVE  /\ child' \in [Children -> ChildStates]
           /\ readers' \in [Children -> SUBSET Processes]
           /\ writers' \in [Children -> SUBSET Processes]
           /\ queue' \in [Children -> Seq(Clients)]
           /\ conn' \in [Clients -> ConnStates]
<1>1. child' \in [Children -> ChildStates]
  BY DEF Die, TypeOK
<1>2. readers' \in [Children -> SUBSET Processes]
  BY DEF Die, TypeOK
<1>3. writers' \in [Children -> SUBSET Processes]
  BY DEF Die, TypeOK
<1>4. queue' \in [Children -> Seq(Clients)]
  BY DEF Die, TypeOK
<1>5. conn' \in [Clients -> ConnStates]
  BY DEF Die, TypeOK, ConnStates
<1>6. QED
  BY <1>1, <1>2, <1>3, <1>4, <1>5

\* A step that leaves the threads and the objects alone.
LEMMA OutsideKeepsHandler ==
    ASSUME HandlerInv, UNCHANGED <<threadVars, objectVars>>
    PROVE  HandlerAlone' /\ HandlerReady'
BY DEF HandlerInv, HandlerAlone, HandlerReady, threadVars, objectVars

\* Every step keeps the accept handlers in order.
LEMMA NextHandler == HandlerInv /\ [Next]_vars => HandlerInv'
<1> SUFFICES ASSUME HandlerInv, [Next]_vars PROVE HandlerInv'
  OBVIOUS
<1>0. TypeOK /\ HandlerAlone /\ HandlerReady
  BY DEF HandlerInv
<1>1. ASSUME NEW c \in Clients, ClientConnect(c) PROVE HandlerInv'
  <2>1. TypeOK'
    BY <1>0, <1>1 DEF ClientConnect, TypeOK, threadVars, objectVars, childVars, ConnStates
  <2>2. QED
    BY <1>1, <2>1, OutsideKeepsHandler DEF ClientConnect, HandlerInv
<1>2. ASSUME Stop PROVE HandlerInv'
  <2>1. TypeOK'
    BY <1>0, <1>2 DEF Stop, TypeOK, threadVars, objectVars, childVars
  <2>2. QED
    BY <1>2, <2>1, OutsideKeepsHandler DEF Stop, HandlerInv
<1>3. ASSUME NEW t \in Threads, NEW o \in Threads, Accept(t, o) PROVE HandlerInv'
  <2> USE <1>0, <1>3 DEF Accept, Goto, childVars
  <2>1. TypeOK'
    BY DEF TypeOK, ThreadStates, ConnStates
  <2>2. HandlerAlone'
    BY DEF TypeOK, HandlerAlone, Handling
  <2>3. HandlerReady'
    BY DEF TypeOK, HandlerReady, HandlerAlone, Handling
  <2>4. QED
    BY <2>1, <2>2, <2>3 DEF HandlerInv
<1>4. ASSUME NEW t \in Threads, NEW o \in Threads, AcceptError(t, o) PROVE HandlerInv'
  <2> USE <1>0, <1>4 DEF AcceptError, threadVars, childVars
  <2>1. TypeOK'
    BY DEF TypeOK
  <2>2. HandlerAlone'
    BY DEF TypeOK, HandlerAlone
  <2>3. HandlerReady'
    BY DEF HandlerReady
  <2>4. QED
    BY <2>1, <2>2, <2>3 DEF HandlerInv
<1>5. ASSUME NEW t \in Threads, SocketPair(t) PROVE HandlerInv'
  <2> USE <1>0, <1>5 DEF SocketPair, Goto, objectVars
  <2>1. TypeOK'
    BY DEF TypeOK, ThreadStates, Unused, Processes
  <2>2. HandlerAlone'
    BY DEF TypeOK, HandlerAlone, Handling
  <2>3. HandlerReady'
    BY DEF TypeOK, HandlerReady, Unused
  <2>4. QED
    BY <2>1, <2>2, <2>3 DEF HandlerInv
<1>6. ASSUME NEW t \in Threads, Fork(t) PROVE HandlerInv'
  <2> USE <1>0, <1>6 DEF Fork, Goto
  <2>0. pair[t] \in Children
    BY DEF HandlerReady
  <2>1. TypeOK'
    <3>1. readers' \in [Children -> SUBSET Processes]
      BY <2>0 DEF TypeOK, Processes
    <3>2. writers' \in [Children -> SUBSET Processes]
      BY <2>0 DEF TypeOK, Processes
    <3>3. QED
      BY <2>0, <3>1, <3>2 DEF TypeOK, ThreadStates, ChildStates
  <2>2. HandlerAlone'
    BY DEF TypeOK, HandlerAlone, Handling
  <2>3. HandlerReady'
    BY <2>0 DEF TypeOK, HandlerReady
  <2>4. QED
    BY <2>1, <2>2, <2>3 DEF HandlerInv
<1>7. ASSUME NEW t \in Threads, Parent(t) PROVE HandlerInv'
  <2> USE <1>0, <1>7 DEF Parent, Goto
  <2>0. pair[t] \in Children
    BY DEF HandlerReady
  <2>1. TypeOK'
    BY <2>0 DEF TypeOK, ThreadStates
  <2>2. HandlerAlone'
    BY DEF TypeOK, HandlerAlone, Handling
  <2>3. HandlerReady'
    BY <2>0 DEF TypeOK, HandlerReady, HandlerAlone, Handling
  <2>4. QED
    BY <2>1, <2>2, <2>3 DEF HandlerInv
<1>8. ASSUME NEW t \in Threads, StartFails(t) PROVE HandlerInv'
  <2> USE <1>0, <1>8 DEF StartFails, Goto, childVars
  <2>1. TypeOK'
    BY DEF TypeOK, ThreadStates
  <2>2. HandlerAlone'
    BY DEF TypeOK, HandlerAlone, Handling
  <2>3. HandlerReady'
    BY DEF TypeOK, HandlerReady, HandlerAlone, Handling
  <2>4. QED
    BY <2>1, <2>2, <2>3 DEF HandlerInv
<1>9. ASSUME NEW t \in Threads, PeerGone(t) PROVE HandlerInv'
  BY <1>0, <1>9 DEF PeerGone, Goto, objectVars, childVars, HandlerInv, TypeOK,
                    ThreadStates, HandlerAlone, HandlerReady, Handling
<1>10. ASSUME NEW t \in Threads, Refuse(t) PROVE HandlerInv'
  BY <1>0, <1>10 DEF Refuse, Goto, objectVars, childVars, HandlerInv, TypeOK,
                    ThreadStates, ConnStates, HandlerAlone, HandlerReady, Handling
<1>11. ASSUME NEW t \in Threads, Send(t) PROVE HandlerInv'
  <2> USE <1>0, <1>11 DEF Send, Goto, objectVars
  <2>0. socket[job[t]] \in Clients /\ fd[job[t]] \in Children
    BY DEF HandlerAlone, HandlerReady, Handling
  <2>1. TypeOK'
    <3>1. queue' \in [Children -> Seq(Clients)]
      BY <2>0 DEF TypeOK
    <3>2. QED
      BY <3>1 DEF TypeOK, ThreadStates, ConnStates
  <2>2. HandlerAlone'
    BY DEF TypeOK, HandlerAlone, Handling
  <2>3. HandlerReady'
    BY DEF TypeOK, HandlerReady
  <2>4. QED
    BY <2>1, <2>2, <2>3 DEF HandlerInv
<1>12. ASSUME NEW t \in Threads, SendFails(t) PROVE HandlerInv'
  <2> USE <1>0, <1>12, StopTriesAssumption DEF SendFails, Goto
  <2>1. TypeOK'
    <3>1. tries' \in [Threads -> 0 .. StopTries]
      BY DEF TypeOK
    <3>2. status' \in [Threads -> {"exited", "killed"}]
      BY DEF TypeOK
    <3>3. writers' \in [Children -> SUBSET Processes] /\ fd' \in [Threads -> Children \cup {None}]
      BY DEF TypeOK
    <3>4. QED
      BY <3>1, <3>2, <3>3 DEF TypeOK, ThreadStates
  <2>2. HandlerAlone'
    BY DEF TypeOK, HandlerAlone, Handling
  <2>3. HandlerReady'
    BY DEF TypeOK, HandlerReady, HandlerAlone, Handling
  <2>4. QED
    BY <2>1, <2>2, <2>3 DEF HandlerInv
<1>13. ASSUME NEW t \in Threads, StopWait(t) PROVE HandlerInv'
  <2> USE <1>0, <1>13, StopTriesAssumption DEF StopWait, Goto, objectVars
  <2>1. TypeOK'
    <3>1. tries' \in [Threads -> 0 .. StopTries]
      BY DEF TypeOK, HandlerReady
    <3>2. child' \in [Children -> ChildStates] /\ status' \in [Threads -> {"exited", "killed"}]
      BY DEF TypeOK, ChildStates
    <3>3. tpc' \in [Threads -> ThreadStates]
      BY DEF TypeOK, ThreadStates
    <3>4. QED
      BY <3>1, <3>2, <3>3 DEF TypeOK
  <2>2. HandlerAlone'
    BY DEF TypeOK, HandlerAlone, Handling
  <2>3. HandlerReady'
    BY DEF TypeOK, HandlerReady
  <2>4. QED
    BY <2>1, <2>2, <2>3 DEF HandlerInv
<1>14. ASSUME NEW t \in Threads, StopKill(t) PROVE HandlerInv'
  <2> USE <1>0, <1>14 DEF StopKill, Goto
  <2>0. pid[job[t]] \in Children /\ "killed" \in ChildStates
    BY DEF HandlerReady, ChildStates
  <2>1. TypeOK'
    BY <2>0, DieTypes DEF TypeOK, ThreadStates, childVars
  <2>2. HandlerAlone'
    BY DEF TypeOK, HandlerAlone, Handling
  <2>3. HandlerReady'
    BY DEF TypeOK, HandlerReady, HandlerAlone, Handling
  <2>4. QED
    BY <2>1, <2>2, <2>3 DEF HandlerInv
<1>15. ASSUME NEW t \in Threads, Rearm(t) PROVE HandlerInv'
  <2> USE <1>0, <1>15 DEF Rearm, Goto, childVars
  <2>1. TypeOK'
    BY DEF TypeOK, ThreadStates, ConnStates
  <2>2. HandlerAlone'
    BY DEF TypeOK, HandlerAlone, Handling
  <2>3. HandlerReady'
    BY DEF TypeOK, HandlerReady
  <2>4. QED
    BY <2>1, <2>2, <2>3 DEF HandlerInv
<1>16. ASSUME NEW t \in Threads, Destroy(t) PROVE HandlerInv'
  <2> USE <1>0, <1>16 DEF Destroy, Goto
  <2>0. "killed" \in ChildStates /\ pid[t] \in Children \cup {None}
    BY DEF TypeOK, ChildStates
  <2>1. TypeOK'
    BY <2>0, DieTypes DEF TypeOK, ThreadStates, childVars
  <2>2. HandlerAlone'
    BY DEF TypeOK, HandlerAlone, Handling
  <2>3. HandlerReady'
    BY DEF TypeOK, HandlerReady
  <2>4. QED
    BY <2>1, <2>2, <2>3 DEF HandlerInv
<1>17. ASSUME NEW t \in Threads, DestroyWait(t) PROVE HandlerInv'
  <2> USE <1>0, <1>17 DEF DestroyWait, Goto, objectVars
  <2>1. TypeOK'
    BY DEF TypeOK, ThreadStates, ChildStates
  <2>2. HandlerAlone'
    BY DEF TypeOK, HandlerAlone, Handling
  <2>3. HandlerReady'
    BY DEF TypeOK, HandlerReady
  <2>4. QED
    BY <2>1, <2>2, <2>3 DEF HandlerInv
<1>18. ASSUME NEW k \in Children, Receive(k) PROVE HandlerInv'
  <2>1. TypeOK'
    BY <1>0, <1>18 DEF Receive, TypeOK, threadVars, objectVars, ConnStates
  <2>2. QED
    BY <1>18, <2>1, OutsideKeepsHandler DEF Receive, HandlerInv
<1>19. ASSUME NEW k \in Children, Exit(k) \/ Crash(k) PROVE HandlerInv'
  <2>0. "killed" \in ChildStates /\ "exited" \in ChildStates
    BY DEF ChildStates
  <2>1. TypeOK'
    BY <1>0, <1>19, <2>0, DieTypes DEF Exit, Crash, TypeOK, threadVars, objectVars
  <2>2. QED
    BY <1>19, <2>1, OutsideKeepsHandler DEF Exit, Crash, HandlerInv
<1>20. CASE UNCHANGED vars
  <2>1. TypeOK'
    BY <1>0, <1>20 DEF vars, TypeOK, threadVars, objectVars, childVars
  <2>2. QED
    BY <1>20, <2>1, OutsideKeepsHandler DEF vars, HandlerInv
<1>21. QED
  BY <1>1, <1>2, <1>3, <1>4, <1>5, <1>6, <1>7, <1>8, <1>9, <1>10, <1>11, <1>12, <1>13,
     <1>14, <1>15, <1>16, <1>17, <1>18, <1>19, <1>20
     DEF Next, ThreadStep, HandlerStep, ChildStep, Finished

\* Every variable of the preforked server keeps its type, the counter of the waiting loop
\* in stop() its range, for every number of threads and children.
THEOREM TypeCorrect == Spec => []TypeOK
<1>1. HandlerInv => TypeOK
  BY DEF HandlerInv
<1>2. QED
  BY <1>1, InitHandler, NextHandler, PTL DEF Spec

-----------------------------------------------------------------------------
(* Where a connection is *)

\* A handler has a connection of its own until it is passed on, refused or closed.
InHandler == Handling \ {"rearm"}

HeldInv ==
    /\ \A o \in Threads : socket[o] \in Clients => conn[socket[o]] \notin {"new", "backlog"}
    /\ \A o, x \in Threads : socket[o] = socket[x] /\ socket[o] \in Clients => o = x
    /\ \A c \in Clients : conn[c] = "held" => \E o \in Threads : socket[o] = c
    /\ \A t \in Threads : tpc[t] \in InHandler => conn[socket[job[t]]] = "held"

\* Connection c is at place i in the queue of the pair of child k.
QueuedAt(c, k, i) == i \in DOMAIN queue[k] /\ queue[k][i] = c

QueueInv ==
    \A c \in Clients :
        /\ conn[c] = "queued" => \E k \in Children : \E i \in Nat : QueuedAt(c, k, i)
        /\ \A k \in Children, i \in Nat : QueuedAt(c, k, i) =>
               /\ conn[c] = "queued"
               /\ \A j \in Children, l \in Nat : QueuedAt(c, j, l) => j = k /\ l = i

PlaceInv == HeldInv /\ QueueInv

\* There is no connection at first.
LEMMA InitPlace == Init => PlaceInv
<1> SUFFICES ASSUME Init PROVE PlaceInv
  OBVIOUS
<1>1. HeldInv
  BY ProcessesAssumption DEF Init, HeldInv, InHandler, Handling
<1>2. QueueInv
  <2>1. \A k \in Children : DOMAIN queue[k] = {}
    BY DEF Init
  <2>2. QED
    BY <2>1 DEF Init, QueueInv, QueuedAt
<1>3. QED
  BY <1>1, <1>2 DEF PlaceInv

\* The kernel drops what was queued for a pair that nobody can read any more; nothing
\* else moves when a process dies.
LEMMA DieKeepsPlace ==
    ASSUME HandlerInv, PlaceInv, NEW k \in Children, NEW how \in ChildStates, Die(k, how),
           UNCHANGED <<socket, job>>,
           \A t \in Threads : tpc'[t] \in InHandler => tpc[t] \in InHandler
    PROVE  PlaceInv'
<1>0. HeldInv /\ QueueInv /\ TypeOK /\ HandlerAlone
  BY DEF PlaceInv, HandlerInv
<1> DEFINE orphans == {j \in Children : readers[j] # {} /\ readers[j] \ {k} = {}}
           Lost(c) == \E j \in orphans : \E i \in DOMAIN queue[j] : queue[j][i] = c
<1>1. /\ queue' = [j \in Children |-> IF j \in orphans THEN <<>> ELSE queue[j]]
      /\ conn' = [c \in Clients |-> IF Lost(c) THEN "lost" ELSE conn[c]]
  BY DEF Die
<1>2. \A j \in Children : DOMAIN queue[j] \subseteq Nat
  BY <1>0 DEF TypeOK
<1> HIDE DEF orphans
<1>3. \A c \in Clients, j \in Children, i \in Nat :
          QueuedAt(c, j, i)' <=> QueuedAt(c, j, i) /\ j \notin orphans
  BY <1>1 DEF QueuedAt
<1>4. \A c \in Clients : Lost(c) <=> \E j \in orphans : \E i \in Nat : QueuedAt(c, j, i)
  BY <1>2 DEF QueuedAt, orphans
<1> HIDE DEF Lost
<1>5. orphans \subseteq Children
  BY DEF orphans
<1>6. \A c \in Clients : Lost(c) => conn[c] = "queued"
  BY <1>0, <1>4, <1>5 DEF QueueInv
<1>7. HeldInv'
  BY <1>0, <1>1, <1>6 DEF HeldInv, HandlerAlone, InHandler, TypeOK
<1>8. QueueInv'
  BY <1>0, <1>1, <1>3, <1>4, <1>5 DEF QueueInv
<1>9. QED
  BY <1>7, <1>8 DEF PlaceInv

\* Steps that move no connection.
LEMMA QuietKeepsPlace ==
    ASSUME PlaceInv, UNCHANGED <<socket, job, conn, queue>>,
           \A t \in Threads : tpc'[t] \in InHandler => tpc[t] \in InHandler
    PROVE  PlaceInv'
BY DEF PlaceInv, HeldInv, QueueInv, QueuedAt

\* Every step leaves a connection in one place.
LEMMA NextPlace == HandlerInv /\ PlaceInv /\ [Next]_vars => PlaceInv'
<1> SUFFICES ASSUME HandlerInv, PlaceInv, [Next]_vars PROVE PlaceInv'
  OBVIOUS
<1>0. TypeOK /\ HandlerAlone /\ HandlerReady /\ HeldInv /\ QueueInv
  BY DEF HandlerInv, PlaceInv
<1> DEFINE Quiet(t) == SocketPair(t) \/ Fork(t) \/ Parent(t) \/ StartFails(t) \/ PeerGone(t)
                         \/ SendFails(t) \/ StopWait(t) \/ DestroyWait(t)
<1>1. ASSUME NEW c \in Clients, ClientConnect(c) PROVE PlaceInv'
  <2> USE <1>0, <1>1 DEF ClientConnect, threadVars, objectVars, childVars
  <2>1. HeldInv'
    BY DEF TypeOK, HeldInv, HandlerAlone, InHandler
  <2>2. QueueInv'
    BY DEF TypeOK, QueueInv, QueuedAt
  <2>3. QED
    BY <2>1, <2>2 DEF PlaceInv
<1>2. CASE Stop \/ UNCHANGED vars
  BY <1>2, QuietKeepsPlace DEF Stop, vars, threadVars, objectVars, childVars
<1>3. ASSUME NEW t \in Threads, NEW o \in Threads, Accept(t, o) PROVE PlaceInv'
  <2> USE <1>0
  <2>1. PICK c \in Clients :
            /\ conn[c] = "backlog"
            /\ conn' = [conn EXCEPT ![c] = "held"]
            /\ socket' = [socket EXCEPT ![o] = c]
    BY <1>3 DEF Accept
  <2>2. /\ tpc[t] = "idle" /\ armed[o]
        /\ job' = [job EXCEPT ![t] = o]
        /\ queue' = queue
        /\ \E where \in {"accepted", "send"} : tpc' = [tpc EXCEPT ![t] = where]
    BY <1>3 DEF Accept, Goto, childVars
  <2>3. \A x \in Threads : socket[x] # c
    BY <2>1 DEF HeldInv
  <2>4. socket[o] \notin Clients
    BY <2>2, ProcessesAssumption DEF HandlerAlone
  <2>5. HeldInv'
    BY <2>1, <2>2, <2>3, <2>4 DEF TypeOK, HeldInv, HandlerAlone, InHandler, Handling
  <2>6. QueueInv'
    BY <2>1, <2>2 DEF TypeOK, QueueInv, QueuedAt
  <2>7. QED
    BY <2>5, <2>6 DEF PlaceInv
<1>4. ASSUME NEW t \in Threads, NEW o \in Threads, AcceptError(t, o) PROVE PlaceInv'
  BY <1>4, QuietKeepsPlace DEF AcceptError, threadVars, childVars
<1>5. ASSUME NEW t \in Threads, Quiet(t) PROVE PlaceInv'
  <2>1. UNCHANGED <<socket, job, conn, queue>>
    BY <1>5 DEF SocketPair, Fork, Parent, StartFails, PeerGone, SendFails, StopWait,
                DestroyWait, objectVars, childVars
  <2>2. \A u \in Threads : tpc'[u] \in InHandler => tpc[u] \in InHandler
    BY <1>0, <1>5 DEF SocketPair, Fork, Parent, StartFails, PeerGone, SendFails, StopWait,
                DestroyWait, Goto, TypeOK, InHandler, Handling
  <2>3. QED
    BY <2>1, <2>2, QuietKeepsPlace
<1>6. ASSUME NEW t \in Threads, Refuse(t) PROVE PlaceInv'
  <2> USE <1>0, <1>6 DEF Refuse, Goto, objectVars, childVars
  <2>1. socket[job[t]] \in Clients /\ conn[socket[job[t]]] = "held"
    BY DEF HandlerAlone, HeldInv, InHandler, Handling
  <2>2. HeldInv'
    BY <2>1 DEF TypeOK, HeldInv, HandlerAlone, InHandler, Handling
  <2>3. QueueInv'
    BY <2>1 DEF TypeOK, QueueInv, QueuedAt
  <2>4. QED
    BY <2>2, <2>3 DEF PlaceInv
<1>7. ASSUME NEW t \in Threads, Send(t) PROVE PlaceInv'
  <2> USE <1>0, <1>7 DEF Send, Goto, objectVars
  <2> DEFINE c == socket[job[t]]
             k == fd[job[t]]
             n == Len(queue[k]) + 1
  <2>1. c \in Clients /\ conn[c] = "held" /\ k \in Children
    BY DEF HandlerAlone, HandlerReady, HeldInv, InHandler, Handling
  <2>2. HeldInv'
    BY <2>1 DEF TypeOK, HeldInv, HandlerAlone, InHandler, Handling
  <2>3. queue[k] \in Seq(Clients) /\ n \in Nat
    BY <2>1 DEF TypeOK
  <2>4. \A d \in Clients, j \in Children, i \in Nat :
            QueuedAt(d, j, i)' <=> QueuedAt(d, j, i) \/ (d = c /\ j = k /\ i = n)
    BY <2>1, <2>3 DEF TypeOK, QueuedAt
  <2>5. conn' = [conn EXCEPT ![c] = "queued"]
    OBVIOUS
  <2> HIDE DEF c, k, n
  <2>6. \A j \in Children, i \in Nat : ~QueuedAt(c, j, i)
    BY <2>1 DEF QueueInv
  <2>7. \A d \in Clients : conn'[d] = "queued" <=> conn[d] = "queued" \/ d = c
    BY <2>1, <2>5 DEF TypeOK
  <2>8. QueueInv'
    <3>1. ASSUME NEW d \in Clients, conn'[d] = "queued"
          PROVE  \E j \in Children : \E i \in Nat : QueuedAt(d, j, i)'
      <4>1. CASE d = c
        BY <2>1, <2>3, <2>4, <4>1
      <4>2. CASE d # c
        BY <2>4, <2>7, <3>1, <4>2 DEF QueueInv
      <4>3. QED
        BY <4>1, <4>2
    <3>2. ASSUME NEW d \in Clients, NEW j \in Children, NEW i \in Nat, QueuedAt(d, j, i)'
          PROVE  /\ conn'[d] = "queued"
                 /\ \A m \in Children, l \in Nat : QueuedAt(d, m, l)' => m = j /\ l = i
      <4>1. CASE d = c
        BY <2>4, <2>6, <2>7, <3>2, <4>1
      <4>2. CASE d # c
        BY <2>4, <2>7, <3>2, <4>2 DEF QueueInv
      <4>3. QED
        BY <4>1, <4>2
    <3>3. QED
      BY <3>1, <3>2 DEF QueueInv
  <2>9. QED
    BY <2>2, <2>8 DEF PlaceInv
<1>8. ASSUME NEW t \in Threads, StopKill(t) PROVE PlaceInv'
  <2>1. pid[job[t]] \in Children /\ "killed" \in ChildStates
    BY <1>0, <1>8 DEF StopKill, HandlerReady, ChildStates
  <2>2. /\ UNCHANGED <<socket, job>>
        /\ \A u \in Threads : tpc'[u] \in InHandler => tpc[u] \in InHandler
    BY <1>0, <1>8 DEF StopKill, Goto, TypeOK, InHandler, Handling
  <2>3. Die(pid[job[t]], "killed") \/ UNCHANGED <<childVars, conn>>
    BY <1>8 DEF StopKill
  <2>4. QED
    BY <2>1, <2>2, <2>3, DieKeepsPlace, QuietKeepsPlace DEF childVars
<1>9. ASSUME NEW t \in Threads, Rearm(t) PROVE PlaceInv'
  <2> USE <1>0, <1>9, ProcessesAssumption DEF Rearm, Goto, childVars
  <2>1. socket[job[t]] \in Clients
    BY DEF HandlerAlone, Handling
  <2>2. HeldInv'
    BY <2>1 DEF TypeOK, HeldInv, HandlerAlone, InHandler, Handling
  <2>3. \A d \in Clients : conn'[d] = "queued" <=> conn[d] = "queued"
    BY <2>1 DEF TypeOK
  <2>4. QueueInv'
    BY <2>3 DEF QueueInv, QueuedAt
  <2>5. QED
    BY <2>2, <2>4 DEF PlaceInv
<1>10. ASSUME NEW t \in Threads, Destroy(t) PROVE PlaceInv'
  <2>1. "killed" \in ChildStates
    BY DEF ChildStates
  <2>2. /\ UNCHANGED <<socket, job>>
        /\ \A u \in Threads : tpc'[u] \in InHandler => tpc[u] \in InHandler
    BY <1>0, <1>10 DEF Destroy, Goto, TypeOK, InHandler, Handling
  <2>3. (pid[t] \in Children /\ Die(pid[t], "killed")) \/ UNCHANGED <<childVars, conn>>
    BY <1>0, <1>10 DEF Destroy, TypeOK
  <2>4. QED
    BY <2>1, <2>2, <2>3, DieKeepsPlace, QuietKeepsPlace DEF childVars
<1>11. ASSUME NEW k \in Children, Receive(k) PROVE PlaceInv'
  <2> USE <1>0, <1>11 DEF Receive, threadVars, objectVars
  <2> DEFINE c == Head(queue[k])
  <2>1. queue[k] \in Seq(Clients) /\ queue[k] # <<>>
    BY DEF TypeOK
  <2>2. c \in Clients /\ QueuedAt(c, k, 1)
    BY <2>1 DEF QueuedAt
  <2>3. conn[c] = "queued" /\ conn' = [conn EXCEPT ![c] = "served"]
    BY <2>2 DEF QueueInv
  <2>4. \A d \in Clients, j \in Children, i \in Nat :
            QueuedAt(d, j, i)' <=> IF j = k THEN i # 0 /\ QueuedAt(d, k, i + 1)
                                            ELSE QueuedAt(d, j, i)
    BY <2>1 DEF TypeOK, QueuedAt
  <2>5. \A d \in Clients, j \in Children, i \in Nat : QueuedAt(d, j, i) => i # 0
    BY DEF TypeOK, QueuedAt
  <2> HIDE DEF c
  <2>6. HeldInv'
    BY <2>2, <2>3 DEF TypeOK, HeldInv, HandlerAlone, InHandler
  <2>7. QueueInv'
    <3> SUFFICES ASSUME NEW d \in Clients
                 PROVE  /\ conn'[d] = "queued" =>
                              \E j \in Children : \E i \in Nat : QueuedAt(d, j, i)'
                        /\ \A j \in Children, i \in Nat : QueuedAt(d, j, i)' =>
                              /\ conn'[d] = "queued"
                              /\ \A m \in Children, l \in Nat :
                                    QueuedAt(d, m, l)' => m = j /\ l = i
      BY DEF QueueInv
    <3>1. ASSUME conn'[d] = "queued"
          PROVE  \E j \in Children : \E i \in Nat : QueuedAt(d, j, i)'
      <4>1. d # c /\ conn[d] = "queued"
        BY <2>2, <2>3, <3>1 DEF TypeOK
      <4>2. PICK j \in Children, i \in Nat : QueuedAt(d, j, i)
        BY <4>1 DEF QueueInv
      <4>3. i # 0 /\ (j = k => i # 1)
        BY <2>2, <2>5, <4>1, <4>2 DEF QueuedAt
      <4>4. CASE j = k
        <5>1. i - 1 \in Nat /\ i - 1 # 0 /\ (i - 1) + 1 = i
          BY <4>3, <4>4
        <5>2. QueuedAt(d, k, i - 1)'
          BY <2>4, <4>2, <4>4, <5>1
        <5>3. QED
          BY <5>1, <5>2
      <4>5. CASE j # k
        BY <2>4, <4>2, <4>5
      <4>6. QED
        BY <4>4, <4>5
    <3>2. ASSUME NEW j \in Children, NEW i \in Nat, QueuedAt(d, j, i)'
          PROVE  /\ conn'[d] = "queued"
                 /\ \A m \in Children, l \in Nat : QueuedAt(d, m, l)' => m = j /\ l = i
      <4> DEFINE At(m, l) == IF m = k THEN l + 1 ELSE l
      <4>1. \A m \in Children, l \in Nat :
                QueuedAt(d, m, l)' => At(m, l) \in Nat /\ QueuedAt(d, m, At(m, l))
        BY <2>4
      <4>2. \A m \in Children, l \in Nat :
                QueuedAt(d, m, l)' => m = j /\ At(m, l) = At(j, i)
        BY <3>2, <4>1 DEF QueueInv
      <4>3. \A m \in Children, l \in Nat : QueuedAt(d, m, l)' => m = j /\ l = i
        BY <4>2
      <4>4. d # c
        BY <2>2, <2>4, <2>5, <3>2, <4>1 DEF QueueInv
      <4>5. conn[d] = "queued"
        BY <3>2, <4>1 DEF QueueInv
      <4>6. QED
        BY <2>2, <2>3, <4>3, <4>4, <4>5 DEF TypeOK
    <3>3. QED
      BY <3>1, <3>2
  <2>8. QED
    BY <2>6, <2>7 DEF PlaceInv
<1>12. ASSUME NEW k \in Children, Exit(k) \/ Crash(k) PROVE PlaceInv'
  <2>1. "exited" \in ChildStates /\ "killed" \in ChildStates
    BY DEF ChildStates
  <2>2. QED
    BY <1>12, <2>1, DieKeepsPlace DEF Exit, Crash, threadVars, objectVars
<1>13. QED
  BY <1>1, <1>2, <1>3, <1>4, <1>5, <1>6, <1>7, <1>8, <1>9, <1>10, <1>11, <1>12
     DEF Next, ThreadStep, HandlerStep, ChildStep, Finished

\* A connection that was accepted is in one place, for every number of threads, children
\* and connections: in the hands of one handler, or once in one queue; and one that was
\* received, refused or lost is in none.
THEOREM ConnectionInOnePlace == Spec => []OnePlace
<1>1. HandlerInv /\ PlaceInv => OnePlace
  <2> SUFFICES ASSUME HandlerInv, PlaceInv, NEW c \in Clients
               PROVE  LET at(k) == {k} \X {i \in DOMAIN queue[k] : queue[k][i] = c}
                          places == {<<o, 0>> : o \in {x \in Threads :
                                                         socket[x] = c /\ conn[c] = "held"}}
                                      \cup UNION {at(k) : k \in Children}
                      IN  Cardinality(places)
                            = IF conn[c] \in {"held", "queued"} THEN 1 ELSE 0
    BY DEF OnePlace
  <2> DEFINE at(k) == {k} \X {i \in DOMAIN queue[k] : queue[k][i] = c}
             held == {<<o, 0>> : o \in {x \in Threads : socket[x] = c /\ conn[c] = "held"}}
             queued == UNION {at(k) : k \in Children}
  <2>0. TypeOK /\ HeldInv /\ QueueInv
    BY DEF HandlerInv, PlaceInv
  <2>1. \A k \in Children : DOMAIN queue[k] \subseteq Nat
    BY <2>0 DEF TypeOK
  <2>2. \A k \in Children, i \in Nat : <<k, i>> \in queued <=> QueuedAt(c, k, i)
    BY DEF QueuedAt
  <2>3. \A z \in queued : \E k \in Children, i \in Nat : z = <<k, i>> /\ QueuedAt(c, k, i)
    BY <2>1 DEF QueuedAt
  <2> HIDE DEF queued
  <2>4. CASE conn[c] = "held"
    <3>1. queued = {}
      BY <2>0, <2>3, <2>4 DEF QueueInv
    <3>2. PICK o \in Threads : socket[o] = c
      BY <2>0, <2>4 DEF HeldInv
    <3>3. held = {<<o, 0>>}
      BY <2>0, <2>4, <3>2 DEF HeldInv
    <3>4. Cardinality({<<o, 0>>}) = 1
      BY FS_Singleton
    <3>5. held \cup queued = {<<o, 0>>}
      BY <3>1, <3>3
    <3> HIDE DEF held
    <3>6. Cardinality(held \cup queued) = 1
      BY <3>4, <3>5
    <3>7. QED
      BY <2>4, <3>6 DEF held, queued
  <2>5. CASE conn[c] = "queued"
    <3>1. held = {}
      BY <2>5
    <3>2. PICK k \in Children, i \in Nat : QueuedAt(c, k, i)
      BY <2>0, <2>5 DEF QueueInv
    <3>3. queued = {<<k, i>>}
      BY <2>0, <2>2, <2>3, <3>2 DEF QueueInv
    <3>4. Cardinality({<<k, i>>}) = 1
      BY FS_Singleton
    <3>5. held \cup queued = {<<k, i>>}
      BY <3>1, <3>3
    <3> HIDE DEF held
    <3>6. Cardinality(held \cup queued) = 1
      BY <3>4, <3>5
    <3>7. QED
      BY <2>5, <3>6 DEF held, queued
  <2>6. CASE conn[c] \notin {"held", "queued"}
    <3>1. held = {}
      BY <2>6
    <3>2. queued = {}
      BY <2>0, <2>3, <2>6 DEF QueueInv
    <3>3. QED
      BY <2>6, <3>1, <3>2, FS_EmptySet DEF queued
  <2>7. QED
    BY <2>4, <2>5, <2>6
<1>2. QED
  BY <1>1, InitHandler, NextHandler, InitPlace, NextPlace, PTL DEF Spec

-----------------------------------------------------------------------------
(* Children and the socket pairs to them *)

\* A pair that is made is not in use, and the child forked for it gets its reading end.
PairInv ==
    /\ \A t \in Threads :
        tpc[t] = "fork" => child[pair[t]] = "none" /\ Master \in readers[pair[t]]
    /\ \A t, u \in Threads :
        tpc[t] = "fork" /\ tpc[u] = "fork" /\ pair[t] = pair[u] => t = u
    /\ \A t \in Threads : tpc[t] = "parent" => pair[t] = pid[job[t]]
    /\ \A k \in Children : child[k] = "running" => k \in readers[k]

\* m_pid and m_fd belong together: both are there or neither, except in start() and stop().
PidFdInv ==
    /\ \A o \in Threads : pid[o] \in Children => child[pid[o]] # "none"
    /\ \A o \in Threads : fd[o] # None => fd[o] = pid[o]
    /\ \A o \in Threads : armed[o] /\ fd[o] = None => pid[o] = None
    /\ \A t \in Threads :
        /\ tpc[t] \in {"accepted", "fork"} => pid[job[t]] = None
        /\ tpc[t] \in {"refuse", "rearm"} /\ fd[job[t]] = None => pid[job[t]] = None
        /\ tpc[t] \in {"stop_wait", "stop_kill"} => fd[job[t]] = None

ChildInv == PairInv /\ PidFdInv

\* There is no child at first.
LEMMA InitChild == Init => ChildInv
BY ProcessesAssumption DEF Init, ChildInv, PairInv, PidFdInv

\* A process that dies is no longer running and holds no descriptor.
LEMMA DieEffect ==
    ASSUME TypeOK, NEW k \in Children, NEW how \in {"exited", "killed"}, Die(k, how)
    PROVE  /\ child' = [child EXCEPT ![k] = how]
           /\ readers' = [j \in Children |-> readers[j] \ {k}]
           /\ \A j \in Children : queue'[j] = IF readers[j] = {k} THEN <<>> ELSE queue[j]
<1>1. /\ child' = [child EXCEPT ![k] = how]
      /\ readers' = [j \in Children |-> readers[j] \ {k}]
      /\ queue' = [j \in Children |->
            IF j \in {i \in Children : readers[i] # {} /\ [l \in Children |-> readers[l] \ {k}][i] = {}}
            THEN <<>> ELSE queue[j]]
  BY DEF Die
<1>2. \A j \in Children : readers[j] # {} /\ readers[j] \ {k} = {} <=> readers[j] = {k}
  OBVIOUS
<1>3. QED
  BY <1>1, <1>2

\* The end of a child, in whatever way it comes.
LEMMA DieKeepsChild ==
    ASSUME HandlerInv, ChildInv, NEW k \in Children, NEW how \in {"exited", "killed"},
           child[k] = "running", Die(k, how),
           UNCHANGED <<job, pair, fd, armed>>,
           \A t \in Threads : tpc'[t] # tpc[t] => tpc'[t] \in {"rearm", "done", "destroy_wait"},
           \A o \in Threads : pid'[o] # pid[o] => pid'[o] = None /\ fd[o] = None,
           \A t \in Threads : tpc'[t] = "rearm" /\ tpc[t] # "rearm" => pid'[job[t]] = None,
           \A t \in Threads : tpc[t] = "parent" => pid'[job[t]] = pid[job[t]]
    PROVE  ChildInv'
<1>0. TypeOK /\ HandlerReady /\ PairInv /\ PidFdInv
  BY DEF HandlerInv, ChildInv
<1>1. child' = [child EXCEPT ![k] = how] /\ readers' = [j \in Children |-> readers[j] \ {k}]
  BY <1>0, DieEffect
<1>2. Master # k
  BY ProcessesAssumption
<1>3. PairInv'
  <2>1. \A t \in Threads : tpc'[t] \in {"fork", "parent"} => tpc[t] = tpc'[t]
    OBVIOUS
  <2>2. \A t \in Threads :
            tpc'[t] = "fork" => child'[pair[t]] = "none" /\ Master \in readers'[pair[t]]
    BY <1>0, <1>1, <1>2, <2>1 DEF TypeOK, HandlerReady, PairInv
  <2>3. \A j \in Children : child'[j] = "running" => j \in readers'[j]
    BY <1>0, <1>1 DEF TypeOK, PairInv
  <2>4. \A t \in Threads : tpc'[t] = "parent" => pair[t] = pid'[job[t]]
    BY <1>0, <2>1 DEF PairInv
  <2>5. QED
    BY <1>0, <2>1, <2>2, <2>3, <2>4 DEF PairInv
<1>4. PidFdInv'
  BY <1>0, <1>1, ProcessesAssumption DEF TypeOK, HandlerReady, PidFdInv
<1>5. QED
  BY <1>3, <1>4 DEF ChildInv

\* Every step keeps the children and their socket pairs in order.
LEMMA NextChild == HandlerInv /\ ChildInv /\ [Next]_vars => ChildInv'
<1> SUFFICES ASSUME HandlerInv, ChildInv, [Next]_vars PROVE ChildInv'
  OBVIOUS
<1>0. TypeOK /\ HandlerAlone /\ HandlerReady /\ PairInv /\ PidFdInv
  BY DEF HandlerInv, ChildInv
<1>1. CASE (\E c \in Clients : ClientConnect(c)) \/ Stop \/ UNCHANGED vars
  BY <1>1 DEF ClientConnect, Stop, vars, threadVars, objectVars, childVars, ChildInv,
              PairInv, PidFdInv
<1>2. ASSUME NEW t \in Threads, NEW o \in Threads, Accept(t, o) PROVE ChildInv'
  <2> USE <1>0, <1>2, ProcessesAssumption DEF Accept, Goto, childVars
  <2>1. PairInv'
    BY DEF TypeOK, PairInv
  <2>2. PidFdInv'
    BY DEF TypeOK, PidFdInv
  <2>3. QED
    BY <2>1, <2>2 DEF ChildInv
<1>3. ASSUME NEW t \in Threads, NEW o \in Threads, AcceptError(t, o) PROVE ChildInv'
  BY <1>0, <1>3 DEF AcceptError, threadVars, childVars, TypeOK, ChildInv, PairInv, PidFdInv
<1>4. ASSUME NEW t \in Threads, SocketPair(t) PROVE ChildInv'
  <2> USE <1>0, <1>4, ProcessesAssumption DEF SocketPair, Goto, objectVars
  <2>1. PairInv'
    BY DEF TypeOK, PairInv, HandlerReady, Unused
  <2>2. PidFdInv'
    BY DEF TypeOK, PidFdInv
  <2>3. QED
    BY <2>1, <2>2 DEF ChildInv
<1>5. ASSUME NEW t \in Threads, Fork(t) PROVE ChildInv'
  <2> USE <1>0, <1>5, ProcessesAssumption DEF Fork, Goto
  <2> DEFINE k == pair[t]
  <2>1. k \in Children /\ child[k] = "none" /\ Master \in readers[k]
    BY DEF HandlerReady, PairInv
  <2>2. PairInv'
    BY <2>1 DEF TypeOK, PairInv, HandlerReady, HandlerAlone, Handling
  <2>3. PidFdInv'
    BY <2>1 DEF TypeOK, PidFdInv, HandlerAlone, Handling
  <2>4. QED
    BY <2>2, <2>3 DEF ChildInv
<1>6. ASSUME NEW t \in Threads, Parent(t) PROVE ChildInv'
  <2> USE <1>0, <1>6, ProcessesAssumption DEF Parent, Goto
  <2>1. pair[t] \in Children /\ pair[t] = pid[job[t]] /\ child[pair[t]] # "none"
    BY DEF TypeOK, HandlerReady, PairInv, PidFdInv
  <2>2. PairInv'
    BY <2>1 DEF TypeOK, PairInv, HandlerReady
  <2>3. PidFdInv'
    BY <2>1 DEF TypeOK, PidFdInv, HandlerAlone, Handling
  <2>4. QED
    BY <2>2, <2>3 DEF ChildInv
<1>7. ASSUME NEW t \in Threads, StartFails(t) PROVE ChildInv'
  <2> USE <1>0, <1>7, ProcessesAssumption DEF StartFails, Goto, childVars
  <2>1. pid' = pid
    BY DEF TypeOK, PidFdInv
  <2>2. PairInv'
    BY <2>1 DEF TypeOK, PairInv
  <2>3. PidFdInv'
    BY <2>1 DEF TypeOK, PidFdInv
  <2>4. QED
    BY <2>2, <2>3 DEF ChildInv
<1>8. ASSUME NEW t \in Threads, PeerGone(t) \/ Refuse(t) \/ Send(t) PROVE ChildInv'
  <2>1. /\ UNCHANGED <<job, pair, objectVars, child, readers>>
        /\ tpc[t] = "send" \/ tpc[t] = "refuse"
        /\ \E where \in {"refuse", "rearm"} : tpc' = [tpc EXCEPT ![t] = where]
    BY <1>8 DEF PeerGone, Refuse, Send, Goto, objectVars, childVars
  <2>2. PairInv'
    BY <1>0, <2>1 DEF TypeOK, PairInv, objectVars
  <2>3. PidFdInv'
    BY <1>0, <2>1, ProcessesAssumption DEF TypeOK, PidFdInv, HandlerReady, objectVars
  <2>4. QED
    BY <2>2, <2>3 DEF ChildInv
<1>9. ASSUME NEW t \in Threads, SendFails(t) PROVE ChildInv'
  <2> USE <1>0, <1>9, ProcessesAssumption DEF SendFails, Goto
  <2>1. PairInv'
    BY DEF TypeOK, PairInv
  <2>2. PidFdInv'
    BY DEF TypeOK, PidFdInv, HandlerAlone, Handling
  <2>3. QED
    BY <2>1, <2>2 DEF ChildInv
<1>10. ASSUME NEW t \in Threads, StopWait(t) PROVE ChildInv'
  <2> USE <1>0, <1>10, ProcessesAssumption DEF StopWait, Goto, objectVars
  <2>1. PairInv'
    BY DEF TypeOK, PairInv, HandlerReady
  <2>2. PidFdInv'
    BY DEF TypeOK, PidFdInv, HandlerReady
  <2>3. QED
    BY <2>1, <2>2 DEF ChildInv
<1>11. ASSUME NEW t \in Threads, StopKill(t) PROVE ChildInv'
  <2> USE <1>0, <1>11, ProcessesAssumption DEF StopKill, Goto
  <2>0. fd[job[t]] = None
    BY DEF PidFdInv
  <2>1. CASE Die(pid[job[t]], "killed") /\ child[pid[job[t]]] = "running"
    <3>1. pid[job[t]] \in Children
      BY DEF HandlerReady
    <3>2. \A u \in Threads : tpc[u] = "parent" => pid'[job[u]] = pid[job[u]]
      BY DEF TypeOK, HandlerAlone, Handling
    <3>3. QED
      BY <2>0, <2>1, <3>1, <3>2, DieKeepsChild DEF TypeOK
  <2>2. CASE UNCHANGED <<childVars, conn>>
    <3>1. PairInv'
      BY <2>2 DEF TypeOK, childVars, PairInv, HandlerAlone, Handling
    <3>2. PidFdInv'
      BY <2>0, <2>2 DEF TypeOK, childVars, PidFdInv, HandlerAlone, Handling
    <3>3. QED
      BY <3>1, <3>2 DEF ChildInv
  <2>3. QED
    BY <2>1, <2>2
<1>12. ASSUME NEW t \in Threads, Rearm(t) PROVE ChildInv'
  <2> USE <1>0, <1>12, ProcessesAssumption DEF Rearm, Goto, childVars
  <2>1. PairInv'
    BY DEF TypeOK, PairInv
  <2>2. PidFdInv'
    BY DEF TypeOK, PidFdInv
  <2>3. QED
    BY <2>1, <2>2 DEF ChildInv
<1>13. ASSUME NEW t \in Threads, Destroy(t) PROVE ChildInv'
  <2> USE <1>0, <1>13 DEF Destroy, Goto
  <2>1. CASE pid[t] \in Children /\ Die(pid[t], "killed") /\ child[pid[t]] = "running"
    BY <2>1, DieKeepsChild DEF TypeOK
  <2>2. CASE UNCHANGED <<childVars, conn>>
    BY <2>2 DEF TypeOK, childVars, ChildInv, PairInv, PidFdInv
  <2>3. QED
    BY <2>1, <2>2 DEF TypeOK
<1>14. ASSUME NEW t \in Threads, DestroyWait(t) PROVE ChildInv'
  <2> USE <1>0, <1>14, ProcessesAssumption DEF DestroyWait, Goto, objectVars
  <2>1. PairInv'
    BY DEF TypeOK, PairInv, PidFdInv, HandlerReady
  <2>2. PidFdInv'
    BY DEF TypeOK, PidFdInv
  <2>3. QED
    BY <2>1, <2>2 DEF ChildInv
<1>15. ASSUME NEW k \in Children, Receive(k) PROVE ChildInv'
  BY <1>0, <1>15 DEF Receive, threadVars, objectVars, ChildInv, PairInv, PidFdInv
<1>16. ASSUME NEW k \in Children, Exit(k) \/ Crash(k) PROVE ChildInv'
  BY <1>16, DieKeepsChild DEF Exit, Crash, threadVars, objectVars
<1>17. QED
  BY <1>1, <1>2, <1>3, <1>4, <1>5, <1>6, <1>7, <1>8, <1>9, <1>10, <1>11, <1>12, <1>13,
     <1>14, <1>15, <1>16
     DEF Next, ThreadStep, HandlerStep, ChildStep, Finished

-----------------------------------------------------------------------------
(* What is left after run() *)

\* There is one thread: nr_of_processes is 1.
OneThread == \A t, u \in Threads : t = u

\* The conditions on the outside world: stop() comes while no handler runs, unless there
\* is one thread only (otherwise a thread may destroy the object whose handler another one
\* runs), and sendmsg fails only when the child is gone (otherwise stop() may forget a
\* child that lives).
Calm == (QuietStop \/ OneThread) /\ ~SendFailures

Alive == {"running", "exited", "killed"}

\* No handler runs once an object is destroyed.
EndInv ==
    /\ \A t \in Threads : tpc[t] \in {"destroy_wait", "done"} => stopped
    /\ QuietStop /\ stopped => \A t \in Threads : tpc[t] \notin Handling
    /\ \A t, u \in Threads : tpc[t] \in {"destroy_wait", "done"} => tpc[u] \notin Handling

\* No object has been destroyed at first.
LEMMA InitEnd == Init => EndInv
BY DEF Init, EndInv, Handling

\* Every step of a calm server keeps handlers away from objects that are destroyed.
LEMMA NextEnd ==
    ASSUME Calm
    PROVE  TypeOK /\ EndInv /\ [Next]_vars => EndInv'
<1> SUFFICES ASSUME TypeOK, EndInv, [Next]_vars PROVE EndInv'
  OBVIOUS
<1>1. CASE Stop
  BY <1>1 DEF Calm, Stop, threadVars, EndInv, Handling, OneThread
<1>2. ASSUME NEW t \in Threads, NEW o \in Threads, Accept(t, o) PROVE EndInv'
  <2>1. /\ ~stopped /\ stopped' = stopped
        /\ \E where \in {"accepted", "send"} : tpc' = [tpc EXCEPT ![t] = where]
    BY <1>2 DEF Accept, Goto
  <2>2. QED
    BY <2>1 DEF TypeOK, EndInv
<1>3. ASSUME NEW t \in Threads, HandlerStep(t) PROVE EndInv'
  <2>1. /\ stopped' = stopped /\ tpc[t] \in Handling
        /\ \E where \in Handling \cup {"idle"} : tpc' = [tpc EXCEPT ![t] = where]
    BY <1>3 DEF HandlerStep, SocketPair, Fork, Parent, StartFails, Refuse, PeerGone, Send,
                SendFails, StopWait, StopKill, Rearm, Goto, Handling
  <2>2. QED
    BY <2>1 DEF TypeOK, EndInv, Handling
<1>4. ASSUME NEW t \in Threads, Destroy(t) \/ DestroyWait(t) PROVE EndInv'
  <2>1. /\ stopped /\ stopped' = stopped /\ tpc[t] \in {"idle", "destroy_wait"}
        /\ \E where \in {"destroy_wait", "done"} : tpc' = [tpc EXCEPT ![t] = where]
    BY <1>4 DEF Destroy, DestroyWait, Goto, EndInv
  <2>2. \A u \in Threads : tpc[u] \notin Handling
    BY <2>1 DEF Calm, OneThread, EndInv, Handling
  <2>3. QED
    BY <2>1, <2>2 DEF TypeOK, EndInv, Handling
<1>5. CASE \/ \E c \in Clients : ClientConnect(c)
           \/ \E t \in Threads, o \in Threads : AcceptError(t, o)
           \/ \E k \in Children : ChildStep(k) \/ Crash(k)
           \/ UNCHANGED vars
  <2>1. UNCHANGED <<tpc, stopped>>
    BY <1>5 DEF ClientConnect, AcceptError, ChildStep, Receive, Exit, Crash, vars, threadVars
  <2>2. QED
    BY <2>1 DEF EndInv
<1>6. QED
  BY <1>1, <1>2, <1>3, <1>4, <1>5 DEF Next, ThreadStep, Finished

\* A child that lives or is a zombie is known to an object whose thread has not ended; a
\* child that stop() waits for is dead, and reaped when it is forgotten.
CleanInv ==
    /\ \A k \in Children :
        child[k] \in Alive => \E o \in Threads : pid[o] = k /\ tpc[o] # "done"
    /\ \A t \in Threads :
        /\ tpc[t] = "stop_wait" => child[pid[job[t]]] # "running"
        /\ tpc[t] = "stop_kill" => child[pid[job[t]]] = "reaped"

\* Nothing has been shut down at first.
LEMMA InitClean == Init => CleanInv
BY DEF Init, CleanInv, Alive

\* A child that was alive when it died is alive as a zombie.
LEMMA DieKeepsClean ==
    ASSUME TypeOK, HandlerReady, CleanInv, NEW k \in Children,
           NEW how \in {"exited", "killed"}, child[k] = "running", Die(k, how),
           UNCHANGED <<job, pid>>,
           \A t \in Threads : tpc'[t] # tpc[t] => tpc'[t] = "destroy_wait"
    PROVE  CleanInv'
<1>1. child' = [child EXCEPT ![k] = how]
  BY DieEffect
<1>2. \A j \in Children : child'[j] \in Alive => child[j] \in Alive
  BY <1>1 DEF TypeOK, Alive
<1>3. \A j \in Children :
          child'[j] \in Alive => \E o \in Threads : pid'[o] = j /\ tpc'[o] # "done"
  BY <1>2 DEF CleanInv
<1>4. \A t \in Threads : tpc'[t] \in {"stop_wait", "stop_kill"} =>
                             tpc[t] = tpc'[t] /\ pid[job[t]] \in Children
  BY DEF HandlerReady
<1>5. \A t \in Threads : /\ tpc'[t] = "stop_wait" => child'[pid[job[t]]] # "running"
                         /\ tpc'[t] = "stop_kill" => child'[pid[job[t]]] = "reaped"
  BY <1>1, <1>4 DEF TypeOK, CleanInv
<1>6. QED
  BY <1>3, <1>5 DEF CleanInv

\* Every step of a calm server keeps the shutdown clean.
LEMMA NextClean ==
    ASSUME Calm
    PROVE  HandlerInv /\ ChildInv /\ EndInv /\ CleanInv /\ [Next]_vars => CleanInv'
<1> SUFFICES ASSUME HandlerInv, ChildInv, EndInv, CleanInv, [Next]_vars PROVE CleanInv'
  OBVIOUS
<1>0. TypeOK /\ HandlerAlone /\ HandlerReady /\ PairInv /\ PidFdInv
  BY DEF HandlerInv, ChildInv
<1>1. CASE (\E c \in Clients : ClientConnect(c)) \/ UNCHANGED vars
  BY <1>1 DEF ClientConnect, vars, threadVars, objectVars, childVars, CleanInv
<1>2. CASE Stop
  BY <1>2 DEF Calm, Stop, threadVars, objectVars, childVars, CleanInv
<1>3. ASSUME NEW t \in Threads, NEW o \in Threads, Accept(t, o) PROVE CleanInv'
  BY <1>0, <1>3 DEF Accept, Goto, childVars, TypeOK, CleanInv
<1>4. ASSUME NEW t \in Threads, NEW o \in Threads, AcceptError(t, o) PROVE CleanInv'
  BY <1>0, <1>4 DEF AcceptError, threadVars, childVars, TypeOK, CleanInv
<1>5. ASSUME NEW t \in Threads, SocketPair(t) PROVE CleanInv'
  BY <1>0, <1>5 DEF SocketPair, Goto, objectVars, TypeOK, CleanInv
<1>6. ASSUME NEW t \in Threads, Fork(t) PROVE CleanInv'
  <2> USE <1>0, <1>6 DEF Fork, Goto
  <2>1. /\ pair[t] \in Children /\ child[pair[t]] = "none"
        /\ pid[job[t]] = None /\ job[t] \in Threads
    BY DEF TypeOK, HandlerReady, PairInv, PidFdInv
  <2>2. \A u \in Threads : tpc'[u] # "done"
    BY DEF TypeOK, EndInv, Handling
  <2>3. \A k \in Children : child'[k] \in Alive => \E o \in Threads : pid'[o] = k
    BY <2>1, ProcessesAssumption DEF TypeOK, CleanInv
  <2>4. \A u \in Threads : tpc'[u] \in {"stop_wait", "stop_kill"} =>
            /\ tpc[u] = tpc'[u] /\ pid[job[u]] \in Children /\ pid[job[u]] # pair[t]
            /\ job[u] # job[t]
    BY <2>1 DEF TypeOK, HandlerReady, HandlerAlone, Handling, PidFdInv
  <2>5. \A u \in Threads : /\ tpc'[u] = "stop_wait" => child'[pid'[job'[u]]] # "running"
                           /\ tpc'[u] = "stop_kill" => child'[pid'[job'[u]]] = "reaped"
    BY <2>1, <2>4 DEF TypeOK, CleanInv
  <2>6. QED
    BY <2>2, <2>3, <2>5 DEF CleanInv
<1>7. ASSUME NEW t \in Threads, Parent(t) PROVE CleanInv'
  BY <1>0, <1>7 DEF Parent, Goto, TypeOK, CleanInv
<1>8. ASSUME NEW t \in Threads, StartFails(t) PROVE CleanInv'
  <2>1. pid' = pid
    BY <1>0, <1>8 DEF StartFails, TypeOK, PidFdInv
  <2>2. /\ tpc[t] \in {"accepted", "fork"} /\ tpc' = [tpc EXCEPT ![t] = "refuse"]
        /\ UNCHANGED <<job, child, stopped>>
    BY <1>8 DEF StartFails, Goto, childVars
  <2>3. QED
    BY <1>0, <2>1, <2>2 DEF TypeOK, CleanInv
<1>9. ASSUME NEW t \in Threads, PeerGone(t) \/ Refuse(t) \/ Send(t) PROVE CleanInv'
  <2>1. /\ UNCHANGED <<job, pid, child, stopped>>
        /\ tpc[t] = "send" \/ tpc[t] = "refuse"
        /\ \E where \in {"refuse", "rearm"} : tpc' = [tpc EXCEPT ![t] = where]
    BY <1>9 DEF PeerGone, Refuse, Send, Goto, objectVars, childVars
  <2>2. QED
    BY <1>0, <2>1 DEF TypeOK, CleanInv
<1>10. ASSUME NEW t \in Threads, SendFails(t) PROVE CleanInv'
  <2>1. /\ fd[job[t]] \in Children /\ fd[job[t]] = pid[job[t]]
        /\ readers[fd[job[t]]] = {}
    BY <1>0, <1>10, ProcessesAssumption DEF Calm, SendFails, TypeOK, HandlerReady, PidFdInv
  <2>2. child[pid[job[t]]] # "running"
    BY <1>0, <2>1 DEF PairInv
  <2>3. QED
    BY <1>0, <1>10, <2>2 DEF SendFails, Goto, TypeOK, CleanInv
<1>11. ASSUME NEW t \in Threads, StopWait(t) PROVE CleanInv'
  <2> USE <1>0, <1>11 DEF StopWait, Goto, objectVars
  <2> DEFINE k == pid[job[t]]
  <2>1. k \in Children /\ child[k] \notin {"running", "none"}
    BY DEF TypeOK, HandlerReady, PidFdInv, CleanInv
  <2>2. child' = [child EXCEPT ![k] = "reaped"]
    BY <2>1 DEF TypeOK, ChildStates
  <2>3. \A u \in Threads : tpc'[u] \in {"stop_wait", "stop_kill"} => pid[job[u]] \in Children
    BY DEF TypeOK, HandlerReady
  <2>4. \A u \in Threads : /\ tpc'[u] = "stop_wait" => child'[pid[job[u]]] # "running"
                           /\ tpc'[u] = "stop_kill" => child'[pid[job[u]]] = "reaped"
    BY <2>1, <2>2, <2>3 DEF TypeOK, CleanInv
  <2>5. \A j \in Children :
            child'[j] \in Alive => \E o \in Threads : pid'[o] = j /\ tpc'[o] # "done"
    BY <2>1, <2>2 DEF TypeOK, CleanInv, Alive
  <2>6. QED
    BY <2>4, <2>5 DEF TypeOK, CleanInv
<1>12. ASSUME NEW t \in Threads, StopKill(t) PROVE CleanInv'
  <2> USE <1>0, <1>12 DEF StopKill, Goto
  <2>1. pid[job[t]] \in Children /\ child[pid[job[t]]] = "reaped"
    BY DEF HandlerReady, CleanInv
  <2>2. UNCHANGED <<childVars, conn>>
    BY <2>1
  <2>3. \A u \in Threads : tpc'[u] \in {"stop_wait", "stop_kill"} =>
            tpc[u] = tpc'[u] /\ job[u] # job[t]
    BY DEF TypeOK, HandlerAlone, Handling
  <2>4. \A j \in Children :
            child'[j] \in Alive => \E o \in Threads : pid'[o] = j /\ tpc'[o] # "done"
    BY <2>1, <2>2 DEF TypeOK, CleanInv, Alive, childVars
  <2>5. \A u \in Threads : tpc'[u] \in {"stop_wait", "stop_kill"} =>
            child'[pid'[job'[u]]] = child[pid[job[u]]]
    BY <2>2, <2>3 DEF TypeOK, childVars
  <2>6. \A u \in Threads : /\ tpc'[u] = "stop_wait" => child'[pid'[job'[u]]] # "running"
                           /\ tpc'[u] = "stop_kill" => child'[pid'[job'[u]]] = "reaped"
    BY <2>3, <2>5 DEF CleanInv
  <2>7. QED
    BY <2>4, <2>6 DEF CleanInv
<1>13. ASSUME NEW t \in Threads, Rearm(t) PROVE CleanInv'
  BY <1>0, <1>13 DEF Rearm, Goto, childVars, TypeOK, CleanInv
<1>14. ASSUME NEW t \in Threads, Destroy(t) PROVE CleanInv'
  <2> USE <1>0, <1>14, ProcessesAssumption DEF Destroy, Goto
  <2>1. CASE pid[t] \in Children /\ Die(pid[t], "killed") /\ child[pid[t]] = "running"
    BY <2>1, DieKeepsClean DEF TypeOK
  <2>2. CASE UNCHANGED <<childVars, conn>>
    BY <2>2 DEF TypeOK, childVars, CleanInv
  <2>3. QED
    BY <2>1, <2>2 DEF TypeOK
<1>15. ASSUME NEW t \in Threads, DestroyWait(t) PROVE CleanInv'
  <2> USE <1>0, <1>15 DEF DestroyWait, Goto, objectVars
  <2>1. \A j \in Children : child'[j] \in Alive => child[j] \in Alive /\ pid[t] # j
    BY DEF TypeOK, Alive
  <2>2. \A j \in Children :
            child'[j] \in Alive => \E o \in Threads : pid'[o] = j /\ tpc'[o] # "done"
    BY <2>1 DEF TypeOK, CleanInv
  <2>3. \A u \in Threads : tpc'[u] \notin {"stop_wait", "stop_kill"}
    BY DEF TypeOK, EndInv, Handling
  <2>4. QED
    BY <2>2, <2>3 DEF CleanInv
<1>16. ASSUME NEW k \in Children, Receive(k) PROVE CleanInv'
  BY <1>16 DEF Receive, threadVars, objectVars, CleanInv
<1>17. ASSUME NEW k \in Children, Exit(k) \/ Crash(k) PROVE CleanInv'
  BY <1>0, <1>17, DieKeepsClean DEF Exit, Crash, threadVars, objectVars
<1>18. QED
  BY <1>1, <1>2, <1>3, <1>4, <1>5, <1>6, <1>7, <1>8, <1>9, <1>10, <1>11, <1>12, <1>13,
     <1>14, <1>15, <1>16, <1>17
     DEF Next, ThreadStep, HandlerStep, ChildStep, Finished

\* When run() has joined its threads no child is left, running or as a zombie, for every
\* number of threads and children, however children crash and connections fail, as long
\* as the outside world is Calm.
THEOREM ShutdownIsClean ==
    ASSUME Calm
    PROVE  Spec => []CleanShutdown
<1>1. HandlerInv => TypeOK
  BY DEF HandlerInv
<1>2. TypeOK /\ CleanInv => CleanShutdown
  BY DEF TypeOK, ChildStates, CleanInv, CleanShutdown, AllDone, Alive
<1>3. QED
  BY <1>1, <1>2, InitHandler, NextHandler, InitChild, NextChild, InitEnd, NextEnd, InitClean,
     NextClean, PTL DEF Spec

-----------------------------------------------------------------------------
(* One thread *)

\* With one thread only one process is made at a time, so a child inherits the reading end
\* of no pair but its own.
HandsInv ==
    /\ \A t \in Threads : tpc[t] = "fork" => readers[pair[t]] = {Master}
    /\ \A k \in Children : queue[k] # <<>> => child[k] = "running" /\ readers[k] = {k}
    /\ \A k \in Children : child[k] # "none" =>
        /\ readers[k] \subseteq {k, Master}
        /\ k \in readers[k] => child[k] = "running"
        /\ Master \in readers[k] => \E t \in Threads : tpc[t] = "parent" /\ pair[t] = k

\* Nothing has been queued at first.
LEMMA InitHands == Init => HandsInv
BY DEF Init, HandsInv

\* The end of a child does not take what is queued out of good hands.
LEMMA DieKeepsHands ==
    ASSUME TypeOK, HandlerReady, PairInv, HandsInv, NEW k \in Children,
           NEW how \in {"exited", "killed"}, child[k] = "running", Die(k, how),
           UNCHANGED pair,
           \A t \in Threads : tpc'[t] # tpc[t] =>
                tpc'[t] \notin {"fork", "parent"} /\ tpc[t] \notin {"fork", "parent"}
    PROVE  HandsInv'
<1>1. /\ child' = [child EXCEPT ![k] = how]
      /\ readers' = [j \in Children |-> readers[j] \ {k}]
      /\ \A j \in Children : queue'[j] = IF readers[j] = {k} THEN <<>> ELSE queue[j]
  BY DieEffect
<1>2. Master # k
  BY ProcessesAssumption
<1>3. \A t \in Threads : tpc'[t] = "fork" => readers'[pair'[t]] = {Master}
  BY <1>1, <1>2 DEF HandlerReady, HandsInv
<1>4. \A j \in Children : queue'[j] # <<>> => child'[j] = "running" /\ readers'[j] = {j}
  <2> SUFFICES ASSUME NEW j \in Children, queue'[j] # <<>>
               PROVE  child'[j] = "running" /\ readers'[j] = {j}
    OBVIOUS
  <2>1. child[j] = "running" /\ readers[j] = {j} /\ j # k
    BY <1>1 DEF HandsInv
  <2>2. QED
    BY <1>1, <2>1 DEF TypeOK
<1>5. \A j \in Children : child'[j] # "none" =>
          /\ readers'[j] \subseteq {j, Master}
          /\ j \in readers'[j] => child'[j] = "running"
          /\ Master \in readers'[j] => \E t \in Threads : tpc'[t] = "parent" /\ pair'[t] = j
  <2> SUFFICES ASSUME NEW j \in Children, child'[j] # "none"
               PROVE  /\ readers'[j] \subseteq {j, Master}
                      /\ j \in readers'[j] => child'[j] = "running"
                      /\ Master \in readers'[j] =>
                            \E t \in Threads : tpc'[t] = "parent" /\ pair'[t] = j
    OBVIOUS
  <2>1. child[j] # "none" /\ readers'[j] = readers[j] \ {k}
    BY <1>1 DEF TypeOK
  <2>2. j \in readers'[j] => child'[j] = "running"
    BY <1>1, <2>1 DEF TypeOK, HandsInv
  <2>3. Master \in readers'[j] => \E t \in Threads : tpc'[t] = "parent" /\ pair'[t] = j
    BY <2>1 DEF HandsInv
  <2>4. QED
    BY <2>1, <2>2, <2>3 DEF HandsInv
<1>6. QED
  BY <1>3, <1>4, <1>5 DEF HandsInv

\* Steps that touch neither children nor pairs.
LEMMA QuietKeepsHands ==
    ASSUME HandsInv, UNCHANGED <<child, readers, queue>>,
           \A t \in Threads : tpc'[t] = "fork" => tpc[t] = "fork" /\ pair'[t] = pair[t],
           \A t \in Threads : tpc[t] = "parent" => tpc'[t] = "parent" /\ pair'[t] = pair[t]
    PROVE  HandsInv'
BY DEF HandsInv

\* Nor does any other step, with one thread.
LEMMA NextHands ==
    ASSUME OneThread
    PROVE  HandlerInv /\ ChildInv /\ HandsInv /\ [Next]_vars => HandsInv'
<1> SUFFICES ASSUME HandlerInv, ChildInv, HandsInv, [Next]_vars PROVE HandsInv'
  OBVIOUS
<1>0. TypeOK /\ HandlerAlone /\ HandlerReady /\ PairInv /\ PidFdInv
  BY DEF HandlerInv, ChildInv
<1>1. CASE (\E c \in Clients : ClientConnect(c)) \/ Stop \/ UNCHANGED vars
  BY <1>1, QuietKeepsHands DEF ClientConnect, Stop, vars, threadVars, objectVars, childVars
<1>2. ASSUME NEW t \in Threads, NEW o \in Threads, Accept(t, o) \/ AcceptError(t, o)
      PROVE  HandsInv'
  <2>1. /\ UNCHANGED <<childVars, pair>> /\ tpc[t] = "idle"
        /\ tpc' = tpc \/ \E where \in {"accepted", "send"} : tpc' = [tpc EXCEPT ![t] = where]
    BY <1>2 DEF Accept, AcceptError, Goto, threadVars
  <2>2. QED
    BY <1>0, <2>1, QuietKeepsHands DEF TypeOK, childVars
<1>3. ASSUME NEW t \in Threads, SocketPair(t) PROVE HandsInv'
  <2>1. PICK k \in Unused : /\ pair' = [pair EXCEPT ![t] = k]
                            /\ readers' = [readers EXCEPT ![k] = {Master}]
    BY <1>3 DEF SocketPair
  <2>2. /\ tpc[t] = "accepted" /\ tpc' = [tpc EXCEPT ![t] = "fork"]
        /\ UNCHANGED <<child, queue>>
    BY <1>3 DEF SocketPair, Goto
  <2>3. k \in Children /\ child[k] = "none" /\ readers[k] = {}
    BY DEF Unused
  <2>4. \A u \in Threads : tpc'[u] = "fork" => readers'[pair'[u]] = {Master}
    BY <1>0, <2>1, <2>2, <2>3 DEF TypeOK, HandsInv, HandlerReady
  <2>5. \A u \in Threads : tpc[u] # "parent" \/ u # t
    BY <2>2
  <2>6. \A j \in Children : child[j] # "none" => readers'[j] = readers[j]
    BY <1>0, <2>1, <2>3 DEF TypeOK
  <2>7. \A u \in Threads : tpc[u] = "parent" => tpc'[u] = "parent" /\ pair'[u] = pair[u]
    BY <1>0, <2>1, <2>2 DEF TypeOK
  <2>8. QED
    BY <1>0, <2>2, <2>4, <2>6, <2>7 DEF HandsInv
<1>4. ASSUME NEW t \in Threads, Fork(t) PROVE HandsInv'
  <2> DEFINE k == pair[t]
  <2>1. /\ k \in Children /\ child[k] = "none" /\ readers[k] = {Master}
        /\ \A u \in Threads : u = t
    BY <1>0, <1>4 DEF Fork, HandlerReady, PairInv, HandsInv, OneThread
  <2>2. /\ child' = [child EXCEPT ![k] = "running"]
        /\ readers' = [j \in Children |->
                IF Master \in readers[j] THEN readers[j] \cup {k} ELSE readers[j]]
        /\ tpc[t] = "fork" /\ tpc' = [tpc EXCEPT ![t] = "parent"]
        /\ UNCHANGED <<pair, queue>>
    BY <1>4 DEF Fork, Goto
  <2> HIDE DEF k
  <2>3. tpc'[t] = "parent" /\ pair'[t] = k
    BY <1>0, <2>2 DEF TypeOK, k
  <2>4. ASSUME NEW j \in Children, child'[j] # "none", j # k
        PROVE  child'[j] = child[j] /\ readers'[j] = readers[j] /\ Master \notin readers[j]
    <3>1. child'[j] = child[j] /\ child[j] # "none"
      BY <1>0, <2>1, <2>2, <2>4 DEF TypeOK
    <3>2. Master \notin readers[j]
      BY <2>1, <2>2, <3>1 DEF HandsInv
    <3>3. QED
      BY <2>2, <3>1, <3>2
  <2>5. child'[k] = "running" /\ readers'[k] = {k, Master} /\ queue[k] = <<>>
    BY <1>0, <2>1, <2>2 DEF TypeOK, HandsInv
  <2>6. \A j \in Children : queue[j] # <<>> => j # k /\ child[j] = "running"
    BY <2>1 DEF HandsInv
  <2>7. \A j \in Children : queue'[j] # <<>> => child'[j] = "running" /\ readers'[j] = {j}
    <3> SUFFICES ASSUME NEW j \in Children, queue[j] # <<>>
                 PROVE  child'[j] = "running" /\ readers'[j] = {j}
      BY <2>2
    <3>1. j # k /\ child[j] = "running" /\ readers[j] = {j}
      BY <2>6 DEF HandsInv
    <3>2. child'[j] = "running"
      BY <1>0, <2>1, <2>2, <3>1 DEF TypeOK
    <3>3. QED
      BY <2>4, <3>1, <3>2
  <2>8. \A u \in Threads : tpc'[u] # "fork"
    BY <2>1, <2>3
  <2>9. \A j \in Children : child'[j] # "none" =>
            /\ readers'[j] \subseteq {j, Master}
            /\ j \in readers'[j] => child'[j] = "running"
            /\ Master \in readers'[j] => \E u \in Threads : tpc'[u] = "parent" /\ pair'[u] = j
    BY <2>3, <2>4, <2>5 DEF HandsInv
  <2>10. QED
    BY <2>7, <2>8, <2>9 DEF HandsInv
<1>5. ASSUME NEW t \in Threads, Parent(t) PROVE HandsInv'
  <2> USE <1>0, <1>5 DEF Parent, Goto
  <2>1. pair[t] \in Children /\ \A u \in Threads : u = t
    BY DEF HandlerReady, OneThread
  <2>2. \A u \in Threads : tpc'[u] = "send"
    BY <2>1 DEF TypeOK
  <2>3. ASSUME NEW j \in Children, child[j] # "none"
        PROVE  readers'[j] = readers[j] \ {Master}
    BY <2>1, <2>3 DEF TypeOK, HandsInv
  <2>4. \A j \in Children : queue[j] # <<>> => readers'[j] = {j}
    BY <2>3, ProcessesAssumption DEF HandsInv
  <2>5. QED
    BY <2>2, <2>3, <2>4 DEF HandsInv
<1>6. ASSUME NEW t \in Threads, StartFails(t) \/ PeerGone(t) \/ Refuse(t) \/ SendFails(t)
                                 \/ Rearm(t)
      PROVE  HandsInv'
  <2>1. /\ UNCHANGED <<child, readers, queue>> /\ tpc[t] # "parent"
        /\ \A u \in Threads : u # t => pair'[u] = pair[u]
        /\ \E where \in {"refuse", "rearm", "stop_wait", "idle"} :
              tpc' = [tpc EXCEPT ![t] = where]
    BY <1>0, <1>6 DEF StartFails, PeerGone, Refuse, SendFails, Rearm, Goto, childVars, TypeOK
  <2>2. QED
    BY <1>0, <2>1, QuietKeepsHands DEF TypeOK
<1>7. ASSUME NEW t \in Threads, Send(t) PROVE HandsInv'
  <2> USE <1>0, <1>7 DEF Send, Goto
  <2> DEFINE k == fd[job[t]]
  <2>1. k \in Children /\ k = pid[job[t]] /\ child[k] # "none" /\ readers[k] # {}
    BY ProcessesAssumption DEF TypeOK, HandlerReady, PidFdInv
  <2>2. \A u \in Threads : tpc[u] = "send"
    BY DEF OneThread
  <2>3. readers[k] = {k} /\ child[k] = "running"
    BY <2>1, <2>2 DEF HandsInv
  <2>4. \A j \in Children : j # k => queue'[j] = queue[j]
    BY DEF TypeOK
  <2>5. \A u \in Threads : tpc'[u] = "rearm"
    BY <2>2 DEF OneThread, TypeOK
  <2>6. QED
    BY <2>2, <2>3, <2>4, <2>5 DEF HandsInv
<1>8. ASSUME NEW t \in Threads, StopWait(t) PROVE HandsInv'
  <2> USE <1>0, <1>8 DEF StopWait, Goto
  <2> DEFINE k == pid[job[t]]
  <2>1. k \in Children /\ child[k] # "none"
    BY DEF TypeOK, HandlerReady, PidFdInv
  <2>2. \A j \in Children : /\ child[j] \in {"none", "running"} => child'[j] = child[j]
                            /\ child[j] \notin {"none", "running"} =>
                                  child'[j] \notin {"none", "running"}
    BY <2>1 DEF TypeOK, ChildStates
  <2>3. \A u \in Threads : tpc[u] \notin {"fork", "parent"} /\ tpc'[u] \notin {"fork", "parent"}
    BY DEF OneThread, TypeOK
  <2>4. UNCHANGED <<readers, queue>>
    OBVIOUS
  <2>5. QED
    BY <2>2, <2>3, <2>4 DEF HandsInv
<1>9. ASSUME NEW t \in Threads, StopKill(t) PROVE HandsInv'
  <2> USE <1>0, <1>9 DEF StopKill, Goto
  <2>1. pid[job[t]] \in Children
    BY DEF HandlerReady
  <2>2. CASE Die(pid[job[t]], "killed") /\ child[pid[job[t]]] = "running"
    BY <2>1, <2>2, DieKeepsHands DEF TypeOK
  <2>3. CASE UNCHANGED <<childVars, conn>>
    BY <2>3, QuietKeepsHands DEF TypeOK, childVars
  <2>4. QED
    BY <2>2, <2>3
<1>10. ASSUME NEW t \in Threads, Destroy(t) PROVE HandsInv'
  <2> USE <1>0, <1>10 DEF Destroy, Goto
  <2>1. CASE pid[t] \in Children /\ Die(pid[t], "killed") /\ child[pid[t]] = "running"
    BY <2>1, DieKeepsHands DEF TypeOK
  <2>2. CASE UNCHANGED <<childVars, conn>>
    BY <2>2, QuietKeepsHands DEF TypeOK, childVars
  <2>3. QED
    BY <2>1, <2>2 DEF TypeOK
<1>11. ASSUME NEW t \in Threads, DestroyWait(t) PROVE HandsInv'
  <2> USE <1>0, <1>11 DEF DestroyWait, Goto
  <2>1. \A j \in Children : /\ child[j] \in {"none", "running"} => child'[j] = child[j]
                            /\ child[j] \notin {"none", "running"} =>
                                  child'[j] \notin {"none", "running"}
    BY DEF TypeOK, ChildStates, PidFdInv
  <2>2. \A u \in Threads : tpc[u] \notin {"fork", "parent"} /\ tpc'[u] \notin {"fork", "parent"}
    BY DEF OneThread, TypeOK
  <2>3. UNCHANGED <<readers, queue>>
    OBVIOUS
  <2>4. QED
    BY <2>1, <2>2, <2>3 DEF HandsInv
<1>12. ASSUME NEW k \in Children, Receive(k) PROVE HandsInv'
  <2> USE <1>0, <1>12 DEF Receive, threadVars
  <2>1. child[k] = "running" /\ queue[k] # <<>>
    OBVIOUS
  <2>2. \A j \in Children : queue'[j] # <<>> => queue[j] # <<>>
    BY <2>1 DEF TypeOK
  <2>3. QED
    BY <2>2 DEF HandsInv
<1>13. ASSUME NEW k \in Children, Exit(k) \/ Crash(k) PROVE HandsInv'
  BY <1>0, <1>13, DieKeepsHands DEF Exit, Crash, threadVars, objectVars
<1>14. QED
  BY <1>1, <1>2, <1>3, <1>4, <1>5, <1>6, <1>7, <1>8, <1>9, <1>10, <1>11, <1>12, <1>13
     DEF Next, ThreadStep, HandlerStep, ChildStep, Finished

\* With one thread, a connection that waits in a socket pair waits for a child that runs,
\* however many children there have been before it and whichever of them crashed.
THEOREM QueuedInGoodHands ==
    ASSUME OneThread
    PROVE  Spec => []InGoodHands
<1>1. HandsInv => InGoodHands
  BY DEF HandsInv, InGoodHands
<1>2. QED
  BY <1>1, InitHandler, NextHandler, InitChild, NextChild, InitHands, NextHands, PTL DEF Spec
=============================================================================
