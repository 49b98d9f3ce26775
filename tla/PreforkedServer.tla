-------------------------- MODULE PreforkedServer --------------------------
(***************************************************************************)
(* The preforked server, lib-http/src/preforked-server.cpp: a master       *)
(* process accepts connections and passes each over a socket pair to one   *)
(* of its child processes, which are forked when first needed.             *)
(*                                                                         *)
(* The master runs one io_service on several threads.  Each thread owns a  *)
(* child_process object, identified here by the thread, but the handlers   *)
(* of all objects are run by whichever thread is free.                     *)
(*                                                                         *)
(* Descriptors are inherited by every fork (nothing is close-on-exec), so  *)
(* each end of a socket pair has a set of processes that hold it: writing  *)
(* fails only when nobody holds the other end, and end of file is seen     *)
(* only when nobody holds the writing end.  A pair is named after the      *)
(* child it is made for.                                                   *)
(***************************************************************************)
EXTENDS Integers, Sequences, FiniteSets

CONSTANTS
    Threads,        \* nr_of_processes threads, each with a child_process object
    Children,       \* bound on the child processes forked
    Clients,        \* the connections that are made
    Master,         \* the master process
    None,           \* -1: no pid, no descriptor, no connection
    StopTries,      \* count in child_process::stop
    Crashes,        \* children may crash
    SendFailures,   \* sendmsg may fail although the child lives
    StartFailures,  \* socketpair, fork or remote_endpoint may fail
    AcceptErrors,   \* accept may fail
    QuietStop       \* stop() is only called while no handler is running

ASSUME ProcessesAssumption == Master \notin Children /\ None \notin Children \cup Clients
ASSUME StopTriesAssumption == StopTries \in Nat \ {0}
ASSUME FlagsAssumption ==
    {Crashes, SendFailures, StartFailures, AcceptErrors, QuietStop} \subseteq BOOLEAN

VARIABLES
    tpc,        \* per thread: where it is
    job,        \* per thread: the object whose handler it runs
    pair,       \* per thread: sockfd in start()
    status,     \* per thread: status in stop()
    tries,      \* per thread: count in stop()
    pid, fd,    \* per object: m_pid and m_fd
    socket,     \* per object: the connection in m_socket
    armed,      \* per object: an async_accept is outstanding
    destroyed,  \* per object: its destructor has run
    child,      \* per child: its process state
    readers,    \* per pair: the processes that hold sockfd[1]
    writers,    \* per pair: the processes that hold sockfd[0]
    queue,      \* per pair: the connections passed and not yet received
    conn,       \* per client: what became of its connection
    stopped     \* m_io_service.stop() was called

threadVars == <<tpc, job, pair, status, tries>>
objectVars == <<pid, fd, socket, armed, destroyed>>
childVars  == <<child, readers, writers, queue>>
vars == <<threadVars, objectVars, childVars, conn, stopped>>

Processes == Children \cup {Master}

ThreadStates ==
    {"idle", "accepted", "fork", "parent", "send", "stop_wait", "stop_kill", "refuse",
     "rearm", "destroy_wait", "done"}

\* "exited" and "killed" are zombies, which nobody has waited for yet.
ChildStates == {"none", "running", "exited", "killed", "reaped"}

ConnStates == {"new", "backlog", "held", "queued", "served", "refused", "lost"}

Init ==
    /\ tpc = [t \in Threads |-> "idle"]
    /\ job = [t \in Threads |-> t]
    /\ pair = [t \in Threads |-> None]
    /\ status = [t \in Threads |-> "exited"]
    /\ tries = [t \in Threads |-> 0]
    /\ pid = [o \in Threads |-> None] /\ fd = [o \in Threads |-> None]
    /\ socket = [o \in Threads |-> None]
    /\ armed = [o \in Threads |-> TRUE]
    /\ destroyed = [o \in Threads |-> FALSE]
    /\ child = [k \in Children |-> "none"]
    /\ readers = [k \in Children |-> {}] /\ writers = [k \in Children |-> {}]
    /\ queue = [k \in Children |-> <<>>]
    /\ conn = [c \in Clients |-> "new"]
    /\ stopped = FALSE

Unused == {k \in Children : child[k] = "none" /\ readers[k] = {} /\ writers[k] = {}}

Goto(t, where) == tpc' = [tpc EXCEPT ![t] = where]

-----------------------------------------------------------------------------
(* The outside world *)

ClientConnect(c) ==
    /\ conn[c] = "new"
    /\ conn' = [conn EXCEPT ![c] = "backlog"]
    /\ UNCHANGED <<threadVars, objectVars, childVars, stopped>>

\* preforked_server::stop
Stop ==
    /\ ~stopped
    /\ QuietStop => \A t \in Threads : tpc[t] = "idle"
    /\ stopped' = TRUE
    /\ UNCHANGED <<threadVars, objectVars, childVars, conn>>

-----------------------------------------------------------------------------
(* child_process::handle_accept, run by thread t for object o = job[t] *)

\* A connection was accepted; a child is needed unless there is one.
Accept(t, o) ==
    /\ tpc[t] = "idle" /\ ~stopped
    /\ armed[o] /\ ~destroyed[o]
    /\ \E c \in Clients :
        /\ conn[c] = "backlog"
        /\ conn' = [conn EXCEPT ![c] = "held"]
        /\ socket' = [socket EXCEPT ![o] = c]
    /\ armed' = [armed EXCEPT ![o] = FALSE]
    /\ job' = [job EXCEPT ![t] = o]
    /\ Goto(t, IF pid[o] = None \/ fd[o] = None THEN "accepted" ELSE "send")
    /\ UNCHANGED <<pair, status, tries, pid, fd, destroyed, childVars, stopped>>

\* The accept failed: the handler returns without a new async_accept.
AcceptError(t, o) ==
    /\ tpc[t] = "idle" /\ ~stopped
    /\ armed[o] /\ ~destroyed[o]
    /\ AcceptErrors
    /\ armed' = [armed EXCEPT ![o] = FALSE]
    /\ UNCHANGED <<threadVars, pid, fd, socket, destroyed, childVars, conn, stopped>>

\* child_process::start: socketpair
SocketPair(t) ==
    /\ tpc[t] = "accepted"
    /\ \E k \in Unused :
        /\ pair' = [pair EXCEPT ![t] = k]
        /\ readers' = [readers EXCEPT ![k] = {Master}]
        /\ writers' = [writers EXCEPT ![k] = {Master}]
    /\ Goto(t, "fork")
    /\ UNCHANGED <<job, status, tries, objectVars, child, queue, conn, stopped>>

\* fork: the child gets every descriptor the master has at this moment, whichever
\* thread made it, and closes its own copy of sockfd[0] only.
Fork(t) ==
    /\ tpc[t] = "fork"
    /\ LET k == pair[t]
       IN  /\ child' = [child EXCEPT ![k] = "running"]
           /\ pid' = [pid EXCEPT ![job[t]] = k]
           /\ readers' = [j \in Children |->
                IF Master \in readers[j] THEN readers[j] \cup {k} ELSE readers[j]]
           /\ writers' = [j \in Children |->
                IF Master \in writers[j] /\ j # k THEN writers[j] \cup {k} ELSE writers[j]]
    /\ Goto(t, "parent")
    /\ UNCHANGED <<job, pair, status, tries, fd, socket, armed, destroyed, queue, conn,
                   stopped>>

\* Mutant: the parent does not close sockfd[1].
ParentKeepsBothEnds(t) ==
    /\ tpc[t] = "parent"
    /\ fd' = [fd EXCEPT ![job[t]] = pair[t]]
    /\ pair' = [pair EXCEPT ![t] = None]
    /\ Goto(t, "send")
    /\ UNCHANGED <<job, status, tries, pid, socket, armed, destroyed, child, readers,
                   writers, queue, conn, stopped>>

\* The parent's end of start(): keep one end, close the other.
Parent(t) ==
    /\ tpc[t] = "parent"
    /\ fd' = [fd EXCEPT ![job[t]] = pair[t]]
    /\ readers' = [readers EXCEPT ![pair[t]] = @ \ {Master}]
    /\ pair' = [pair EXCEPT ![t] = None]
    /\ Goto(t, "send")
    /\ UNCHANGED <<job, status, tries, pid, socket, armed, destroyed, child, writers,
                   queue, conn, stopped>>

\* socketpair fails, or fork does, in which case both ends stay open and m_pid is -1.
StartFails(t) ==
    /\ tpc[t] \in {"accepted", "fork"}
    /\ StartFailures \/ (tpc[t] = "accepted" /\ Unused = {})
    /\ pid' = [pid EXCEPT ![job[t]] = IF tpc[t] = "fork" THEN None ELSE @]
    /\ pair' = [pair EXCEPT ![t] = None]
    /\ Goto(t, "refuse")
    /\ UNCHANGED <<job, status, tries, fd, socket, armed, destroyed, childVars, conn,
                   stopped>>

\* The client has gone already: remote_endpoint throws, the child is kept.
PeerGone(t) ==
    /\ tpc[t] = "send"
    /\ StartFailures
    /\ Goto(t, "refuse")
    /\ UNCHANGED <<job, pair, status, tries, objectVars, childVars, conn, stopped>>

\* The exception handler writes a 503 reply.
Refuse(t) ==
    /\ tpc[t] = "refuse"
    /\ conn' = [conn EXCEPT ![socket[job[t]]] = "refused"]
    /\ Goto(t, "rearm")
    /\ UNCHANGED <<job, pair, status, tries, objectVars, childVars, stopped>>

\* sendmsg succeeds whenever some process still holds the reading end.
Send(t) ==
    /\ tpc[t] = "send"
    /\ LET o == job[t]
       IN  /\ readers[fd[o]] # {}
           /\ queue' = [queue EXCEPT ![fd[o]] = Append(@, socket[o])]
           /\ conn' = [conn EXCEPT ![socket[o]] = "queued"]
    /\ Goto(t, "rearm")
    /\ UNCHANGED <<job, pair, status, tries, objectVars, child, readers, writers, stopped>>

\* sendmsg fails; stop() closes m_fd.  The variable status of stop() is not
\* initialised, so it may look like the status of a process that exited.
SendFails(t) ==
    /\ tpc[t] = "send"
    /\ LET o == job[t]
       IN  /\ readers[fd[o]] = {} \/ SendFailures
           /\ writers' = [writers EXCEPT ![fd[o]] = @ \ {Master}]
           /\ fd' = [fd EXCEPT ![o] = None]
    /\ \E s \in {"exited", "killed"} : status' = [status EXCEPT ![t] = s]
    /\ tries' = [tries EXCEPT ![t] = StopTries]
    /\ Goto(t, "stop_wait")
    /\ UNCHANGED <<job, pair, pid, socket, armed, destroyed, child, readers, queue, conn,
                   stopped>>

\* Mutant: the loop goes on until the child is seen to have exited, whatever waitpid
\* and count say.
StopWaitForExitOnly(t) ==
    /\ tpc[t] = "stop_wait"
    /\ LET k == pid[job[t]]
           seen == IF child[k] \in {"exited", "killed"} THEN child[k] ELSE status[t]
       IN  /\ status' = [status EXCEPT ![t] = seen]
           /\ child' = [child EXCEPT ![k] = IF @ \in {"exited", "killed"} THEN "reaped" ELSE @]
           /\ tries' = [tries EXCEPT ![t] = @ - 1]
           /\ Goto(t, IF seen = "exited" THEN "stop_kill" ELSE "stop_wait")
    /\ UNCHANGED <<job, pair, objectVars, readers, writers, queue, conn, stopped>>

\* A turn of the waiting loop of stop(): waitpid with WNOHANG fills in status and
\* reaps a zombie, fails when there is no such child, and otherwise returns 0.
StopWait(t) ==
    /\ tpc[t] = "stop_wait"
    /\ LET k == pid[job[t]]
           seen == IF child[k] \in {"exited", "killed"} THEN child[k] ELSE status[t]
       IN  /\ status' = [status EXCEPT ![t] = seen]
           /\ child' = [child EXCEPT ![k] = IF @ \in {"exited", "killed"} THEN "reaped" ELSE @]
           /\ tries' = [tries EXCEPT ![t] = @ - 1]
           /\ Goto(t, IF child[k] = "reaped" \/ seen = "exited" \/ tries[t] = 1
                      THEN "stop_kill" ELSE "stop_wait")
    /\ UNCHANGED <<job, pair, objectVars, readers, writers, queue, conn, stopped>>

\* What dying does to the descriptors of process k, and to what was queued for it.
Die(k, how) ==
    LET held == [j \in Children |-> readers[j] \ {k}]
        orphans == {j \in Children : readers[j] # {} /\ held[j] = {}}
    IN  /\ child' = [child EXCEPT ![k] = how]
        /\ readers' = held
        /\ writers' = [j \in Children |-> writers[j] \ {k}]
        /\ queue' = [j \in Children |-> IF j \in orphans THEN <<>> ELSE queue[j]]
        /\ conn' = [c \in Clients |->
                IF \E j \in orphans : \E i \in DOMAIN queue[j] : queue[j][i] = c
                THEN "lost" ELSE conn[c]]

\* The end of stop(): kill unless it seems to have exited, and forget the pid.
StopKill(t) ==
    /\ tpc[t] = "stop_kill"
    /\ LET k == pid[job[t]]
       IN  IF status[t] # "exited" /\ child[k] = "running"
           THEN Die(k, "killed")
           ELSE UNCHANGED <<childVars, conn>>
    /\ pid' = [pid EXCEPT ![job[t]] = None]
    /\ Goto(t, "rearm")
    /\ UNCHANGED <<job, pair, status, tries, fd, socket, armed, destroyed, stopped>>

\* Mutant: no new async_accept.
RearmForgotten(t) ==
    /\ tpc[t] = "rearm"
    /\ LET o == job[t]
       IN  /\ conn' = [conn EXCEPT ![socket[o]] = IF @ = "held" THEN "lost" ELSE @]
           /\ socket' = [socket EXCEPT ![o] = None]
    /\ Goto(t, "idle")
    /\ UNCHANGED <<job, pair, status, tries, pid, fd, armed, destroyed, childVars, stopped>>

\* m_socket.close() and a new async_accept; a connection that was neither passed
\* on nor refused is closed without an answer.
Rearm(t) ==
    /\ tpc[t] = "rearm"
    /\ LET o == job[t]
       IN  /\ conn' = [conn EXCEPT ![socket[o]] = IF @ = "held" THEN "lost" ELSE @]
           /\ socket' = [socket EXCEPT ![o] = None]
           /\ armed' = [armed EXCEPT ![o] = TRUE]
    /\ Goto(t, "idle")
    /\ UNCHANGED <<job, pair, status, tries, pid, fd, destroyed, childVars, stopped>>

-----------------------------------------------------------------------------
(* The end of a thread: io_service::run returns and the object of the thread *)
(* is destroyed                                                              *)

\* Mutant: the destructor waits for its child without killing it.
DestroyWithoutKill(t) ==
    /\ tpc[t] = "idle" /\ stopped
    /\ destroyed' = [destroyed EXCEPT ![t] = TRUE]
    /\ Goto(t, IF pid[t] = None THEN "done" ELSE "destroy_wait")
    /\ UNCHANGED <<job, pair, status, tries, pid, fd, socket, armed, childVars, conn,
                   stopped>>

\* ~child_process kills the child there still is ...
Destroy(t) ==
    /\ tpc[t] = "idle" /\ stopped
    /\ IF pid[t] # None /\ child[pid[t]] = "running"
       THEN Die(pid[t], "killed")
       ELSE UNCHANGED <<childVars, conn>>
    /\ destroyed' = [destroyed EXCEPT ![t] = TRUE]
    /\ Goto(t, IF pid[t] = None THEN "done" ELSE "destroy_wait")
    /\ UNCHANGED <<job, pair, status, tries, pid, fd, socket, armed, stopped>>

\* Mutant: the destructor does not wait for the child it killed.
DestroyDoesNotWait(t) ==
    /\ tpc[t] = "destroy_wait"
    /\ Goto(t, "done")
    /\ UNCHANGED <<job, pair, status, tries, objectVars, childVars, conn, stopped>>

\* ... and waits for it.
DestroyWait(t) ==
    /\ tpc[t] = "destroy_wait"
    /\ child[pid[t]] # "running"
    /\ child' = [child EXCEPT ![pid[t]] = "reaped"]
    /\ Goto(t, "done")
    /\ UNCHANGED <<job, pair, status, tries, objectVars, readers, writers, queue, conn,
                   stopped>>

-----------------------------------------------------------------------------
(* A child process: the loop of child_process::start after the fork *)

\* Mutant: the message is looked at (MSG_PEEK) and stays in the socket.
ReceivePeeks(k) ==
    /\ child[k] = "running" /\ k \in readers[k]
    /\ queue[k] # <<>>
    /\ conn' = [conn EXCEPT ![Head(queue[k])] = "served"]
    /\ UNCHANGED <<threadVars, objectVars, childVars, stopped>>

\* read_socket_from_parent, and the connection is started.
Receive(k) ==
    /\ child[k] = "running" /\ k \in readers[k]
    /\ queue[k] # <<>>
    /\ conn' = [conn EXCEPT ![Head(queue[k])] = "served"]
    /\ queue' = [queue EXCEPT ![k] = Tail(@)]
    /\ UNCHANGED <<threadVars, objectVars, child, readers, writers, stopped>>

\* End of file: the server is stopped and the process exits.
Exit(k) ==
    /\ child[k] = "running"
    /\ queue[k] = <<>> /\ writers[k] = {}
    /\ Die(k, "exited")
    /\ UNCHANGED <<threadVars, objectVars, stopped>>

Crash(k) ==
    /\ Crashes
    /\ child[k] = "running"
    /\ Die(k, "killed")
    /\ UNCHANGED <<threadVars, objectVars, stopped>>

-----------------------------------------------------------------------------

AllDone == \A t \in Threads : tpc[t] = "done"

\* run() has joined its threads.
Finished == AllDone /\ UNCHANGED vars

HandlerStep(t) ==
    \/ SocketPair(t) \/ Fork(t) \/ Parent(t) \/ StartFails(t) \/ Refuse(t)
    \/ PeerGone(t) \/ Send(t) \/ SendFails(t) \/ StopWait(t) \/ StopKill(t) \/ Rearm(t)

ThreadStep(t) ==
    \/ \E o \in Threads : Accept(t, o)
    \/ HandlerStep(t) \/ Destroy(t) \/ DestroyWait(t)

ChildStep(k) == Receive(k) \/ Exit(k)

Next ==
    \/ \E c \in Clients : ClientConnect(c)
    \/ Stop
    \/ \E t \in Threads : ThreadStep(t)
    \/ \E t \in Threads, o \in Threads : AcceptError(t, o)
    \/ \E k \in Children : ChildStep(k) \/ Crash(k)
    \/ Finished

Spec == Init /\ [][Next]_vars

\* The kernel runs every thread and every child that can go on.
FairSpec ==
    /\ Spec
    /\ \A t \in Threads : WF_vars(ThreadStep(t))
    /\ \A k \in Children : WF_vars(ChildStep(k))

-----------------------------------------------------------------------------
(* Properties *)

\* Every variable has its type.
TypeOK ==
    /\ tpc \in [Threads -> ThreadStates]
    /\ job \in [Threads -> Threads]
    /\ pair \in [Threads -> Children \cup {None}]
    /\ status \in [Threads -> {"exited", "killed"}]
    /\ tries \in [Threads -> 0 .. StopTries]
    /\ pid \in [Threads -> Children \cup {None}]
    /\ fd \in [Threads -> Children \cup {None}]
    /\ socket \in [Threads -> Clients \cup {None}]
    /\ armed \in [Threads -> BOOLEAN] /\ destroyed \in [Threads -> BOOLEAN]
    /\ child \in [Children -> ChildStates]
    /\ readers \in [Children -> SUBSET Processes]
    /\ writers \in [Children -> SUBSET Processes]
    /\ queue \in [Children -> Seq(Clients)]
    /\ conn \in [Clients -> ConnStates]
    /\ stopped \in BOOLEAN

\* When run() returns no child is left, running or as a zombie: a running one
\* would keep the listening socket it inherited, and the next bind would fail.
CleanShutdown == AllDone => \A k \in Children : child[k] \in {"none", "reaped"}

\* A connection that was passed on is in the hands of a live child.
InGoodHands == \A k \in Children : queue[k] # <<>> => child[k] = "running"

\* A connection is in one place: nobody is given a connection twice, and one that
\* was answered or dropped is held by nobody.
OnePlace ==
    \A c \in Clients :
        LET at(k) == {k} \X {i \in DOMAIN queue[k] : queue[k][i] = c}
            places == {<<o, 0>> : o \in {x \in Threads : socket[x] = c /\ conn[c] = "held"}}
                        \cup UNION {at(k) : k \in Children}
        IN  Cardinality(places) = IF conn[c] \in {"held", "queued"} THEN 1 ELSE 0

\* Every connection made is received by a child, refused with a reply, or lost, unless the
\* server is stopped: none waits for ever, also when children crash and system calls other
\* than accept fail.  Lost is a connection whose child dies before it received it, and one
\* that is closed unanswered because it could not be passed on.
Served ==
    \A c \in Clients :
        conn[c] = "backlog" ~> conn[c] \in {"served", "refused", "lost"} \/ stopped

\* stop() makes run() return: no thread waits for ever for its child.
StopReturns == stopped ~> AllDone

=============================================================================
