------------------------------- MODULE Daemon -------------------------------
(***************************************************************************)
(* The daemon of lib-http/src/daemon.cpp: commands (start, stop, reload)   *)
(* and the daemon processes they start act on one pid file and one port    *)
(* and send each other signals.                                            *)
(*                                                                         *)
(* A daemon process has a main thread, which runs the loop of              *)
(* run_main_loop, and a thread that runs the preforked server.  Signals    *)
(* are blocked in part of the loop only: a blocked signal stays pending,   *)
(* an unblocked SIGINT ends the process, an unblocked SIGCHLD or SIGHUP    *)
(* is discarded (the latter is ignored since daemonize).                   *)
(*                                                                         *)
(* SIGTERM and SIGQUIT act as SIGINT does.  A pid is not used again.       *)
(*                                                                         *)
(* The children that serve the connections come and go with them: their    *)
(* module is PreforkedServer.  Here they matter because each one inherits  *)
(* the listening socket and never closes it, so that a child that outlives *)
(* its parent keeps the port.  As there with SendFailures = FALSE, a child *)
(* is given up only when it is gone.                                       *)
(***************************************************************************)
EXTENDS Integers, FiniteSets

CONSTANTS
    Procs,        \* invocations of `start' and the daemon each one becomes
    Admins,       \* invocations of `stop' or `reload'
    None,
    MaxRestarts,  \* m_max_restarts
    MaxCrashes    \* bound on the crashes of children

ASSUME NoneAssumption == None \notin Procs
ASSUME MaxRestartsAssumption == MaxRestarts \in Nat \ {0}
ASSUME MaxCrashesAssumption == MaxCrashes \in Nat

VARIABLES
    pidfile,    \* the pid in the file, None when there is no file
    port,       \* the process whose listening socket is open, in it or in a child of it
    pc,         \* per process: where it is in start() or run_main_loop()
    thread,     \* per process: the thread of the preforked server
    pending,    \* per process: pending signals
    sig,        \* per process: the signal sigwait returned
    restarts,   \* per process: restarts in run_main_loop
    admin,      \* per command: where it is
    target,     \* per command: the pid read from the file
    crashes,    \* crashes so far
    asked,      \* history: processes that were sent a signal by a command
    launches,   \* history, per process: launches since the last one that lasted
    overlapped  \* history: a command was given before the previous one had its effect

vars == <<pidfile, port, pc, thread, pending, sig, restarts, admin, target, crashes,
          asked, launches, overlapped>>

Signals == {"INT", "HUP", "CHLD"}

\* Commands that have not become a daemon yet, and daemons.
Commanding == {"remove", "bind", "unbind", "daemonize"}
Blocked    == {"starting", "waiting"}
Daemonic   == Blocked \cup {"loop", "open", "stopping", "joined", "leaving"}
Dead       == {"refused", "failed", "ended", "killed", "aborted"}

Daemons == {p \in Procs : pc[p] \in Daemonic}

Init ==
    /\ pidfile = None /\ port = None
    /\ pc = [p \in Procs |-> "new"]
    /\ thread = [p \in Procs |-> "none"]
    /\ pending = [p \in Procs |-> {}]
    /\ sig = [p \in Procs |-> "none"]
    /\ restarts = [p \in Procs |-> 0]
    /\ admin = [a \in Admins |-> "idle"]
    /\ target = [a \in Admins |-> None]
    /\ crashes = 0
    /\ asked = {} /\ launches = [p \in Procs |-> 0] /\ overlapped = FALSE

Goto(p, where) == pc' = [pc EXCEPT ![p] = where]

\* daemon::pid_is_for_executable
PidIsForExecutable == pidfile # None /\ pidfile \in Daemons

\* daemon::status: 0 when the daemon runs
Status == IF PidIsForExecutable THEN 0 ELSE 1

\* Nobody is busy with a command and what was asked of a daemon has happened.
Settled ==
    /\ \A p \in Procs : pc[p] \notin Commanding
    /\ \A a \in Admins : admin[a] \in {"idle", "done"}
    /\ \A p \in asked : pc[p] \in Dead

GiveCommand == overlapped' = (overlapped \/ ~Settled)

-----------------------------------------------------------------------------
(* daemon::start up to daemonize() *)

\* Mutant: the test of the pid file is left out.
StartUnchecked(p) ==
    /\ pc[p] = "new" /\ GiveCommand
    /\ Goto(p, "remove")
    /\ UNCHANGED <<pidfile, port, thread, pending, sig, restarts, admin, target, crashes,
                   asked, launches>>

Start(p) ==
    /\ pc[p] = "new" /\ GiveCommand
    /\ Goto(p, IF PidIsForExecutable THEN "refused" ELSE "remove")
    /\ UNCHANGED <<pidfile, port, thread, pending, sig, restarts, admin, target, crashes,
                   asked, launches>>

\* The pid file, if there is one, is taken for a stale one.
RemoveStale(p) ==
    /\ pc[p] = "remove"
    /\ pidfile' = None
    /\ Goto(p, "bind")
    /\ UNCHANGED <<port, thread, pending, sig, restarts, admin, target, crashes, asked,
                   launches, overlapped>>

\* Listen on the port for a moment, to see whether that is possible ...
TestBind(p) ==
    /\ pc[p] = "bind"
    /\ IF port = None
       THEN port' = p /\ Goto(p, "unbind")
       ELSE UNCHANGED port /\ Goto(p, "failed")
    /\ UNCHANGED <<pidfile, thread, pending, sig, restarts, admin, target, crashes,
                   asked, launches, overlapped>>

\* ... acceptor.close()
TestUnbind(p) ==
    /\ pc[p] = "unbind"
    /\ port' = None
    /\ Goto(p, "daemonize")
    /\ UNCHANGED <<pidfile, thread, pending, sig, restarts, admin, target, crashes,
                   asked, launches, overlapped>>

\* Mutant: the pid is not written to the pid file.
DaemonizeWithoutPid(p) ==
    /\ pc[p] = "daemonize"
    /\ Goto(p, "loop")
    /\ UNCHANGED <<pidfile, port, thread, pending, sig, restarts, admin, target, crashes,
                   asked, launches, overlapped>>

Daemonize(p) ==
    /\ pc[p] = "daemonize"
    /\ pidfile' = p
    /\ Goto(p, "loop")
    /\ UNCHANGED <<port, thread, pending, sig, restarts, admin, target, crashes, asked,
                   launches, overlapped>>

-----------------------------------------------------------------------------
(* daemon::run_main_loop *)

\* All signals are blocked, the preforked server is made and its thread let go.
Launch(p) ==
    /\ pc[p] = "loop"
    /\ thread' = [thread EXCEPT ![p] = "starting"]
    /\ launches' = [launches EXCEPT ![p] = @ + 1]
    /\ Goto(p, "starting")
    /\ UNCHANGED <<pidfile, port, pending, sig, restarts, admin, target, crashes, asked,
                   overlapped>>

\* The pid file of a process that dies stays, and so does its port when a child lives on.
\* (Whether one does is open: connections are not in this module.)
DieOf(p, how) ==
    /\ Goto(p, how)
    /\ port' \in IF port = p THEN {p, None} ELSE {port}
    /\ thread' = [thread EXCEPT ![p] = "none"]

\* Children whose parent is dead read the end of the file and exit.
OrphansEnd(p) ==
    /\ pc[p] \in Dead /\ port = p
    /\ port' = None
    /\ UNCHANGED <<pidfile, pc, thread, pending, sig, restarts, admin, target, crashes,
                   asked, launches, overlapped>>

\* preforked_server::run in its thread.  An exception of bind is caught nowhere and ends
\* the process.
Bind(p) ==
    /\ thread[p] = "starting"
    /\ IF port = None
       THEN /\ port' = p
            /\ thread' = [thread EXCEPT ![p] = "serving"]
            /\ UNCHANGED <<pc, pending>>
       ELSE DieOf(p, "aborted") /\ pending' = [pending EXCEPT ![p] = {}]
    /\ UNCHANGED <<pidfile, sig, restarts, admin, target, crashes, asked, launches,
                   overlapped>>

\* The old mask is restored, which delivers what is pending.
DeliverPending(p, where) ==
    IF "INT" \in pending'[p]
    THEN DieOf(p, "killed")
    ELSE Goto(p, where) /\ UNCHANGED <<port, thread>>

\* Mutant: the pending signals are thrown away before the mask is restored.
UnblockDiscards(p) ==
    /\ pc[p] = "starting"
    /\ pending' = [pending EXCEPT ![p] = {}]
    /\ DeliverPending(p, "open")
    /\ UNCHANGED <<pidfile, sig, restarts, admin, target, crashes, asked, launches,
                   overlapped>>

Unblock(p) ==
    /\ pc[p] = "starting"
    /\ pending' = [pending EXCEPT ![p] = @ \cap {"INT"}]
    /\ DeliverPending(p, "open")
    /\ UNCHANGED <<pidfile, sig, restarts, admin, target, crashes, asked, launches,
                   overlapped>>

\* The signals to wait for are blocked.
Block(p) ==
    /\ pc[p] = "open"
    /\ Goto(p, "waiting")
    /\ UNCHANGED <<pidfile, port, thread, pending, sig, restarts, admin, target, crashes,
                   asked, launches, overlapped>>

\* sigwait returns one of the pending signals, the old mask is restored.
SigWait(p) ==
    /\ pc[p] = "waiting"
    /\ \E s \in pending[p] :
        /\ sig' = [sig EXCEPT ![p] = s]
        /\ pending' = [pending EXCEPT ![p] = (@ \ {s}) \cap {"INT"}]
    /\ DeliverPending(p, "stopping")
    /\ UNCHANGED <<pidfile, restarts, admin, target, crashes, asked, launches,
                   overlapped>>

\* Mutant: the children are told to go and not waited for.
JoinWithoutWait(p) ==
    /\ pc[p] = "stopping"
    /\ thread[p] = "serving"
    /\ thread' = [thread EXCEPT ![p] = "none"]
    /\ port' \in {p, None}
    /\ Goto(p, IF sig[p] = "CHLD" THEN "joined" ELSE "leaving")
    /\ UNCHANGED <<pidfile, pending, sig, restarts, admin, target, crashes, asked,
                   launches, overlapped>>

\* server.stop(); t.join(): the thread has bound its port and returns.  On its way the
\* destructors of child_process kill the children and wait for their end.
Join(p) ==
    /\ pc[p] = "stopping"
    /\ thread[p] = "serving"
    /\ thread' = [thread EXCEPT ![p] = "none"]
    /\ port' = None
    /\ Goto(p, IF sig[p] = "CHLD" THEN "joined" ELSE "leaving")
    /\ UNCHANGED <<pidfile, pending, sig, restarts, admin, target, crashes, asked,
                   launches, overlapped>>

\* The child had run longer than m_restart_time_window.
RestartLate(p) ==
    /\ pc[p] = "joined"
    /\ restarts' = [restarts EXCEPT ![p] = 0]
    /\ launches' = [launches EXCEPT ![p] = 0]
    /\ Goto(p, "loop")
    /\ UNCHANGED <<pidfile, port, thread, pending, sig, admin, target, crashes, asked,
                   overlapped>>

\* Mutant: one restart too many.
RestartSoonOffByOne(p) ==
    /\ pc[p] = "joined"
    /\ restarts' = [restarts EXCEPT ![p] = @ + 1]
    /\ Goto(p, IF restarts[p] + 1 > MaxRestarts THEN "leaving" ELSE "loop")
    /\ UNCHANGED <<pidfile, port, thread, pending, sig, admin, target, crashes, asked,
                   launches, overlapped>>

\* It had not: try again unless this has happened too often.
RestartSoon(p) ==
    /\ pc[p] = "joined"
    /\ restarts' = [restarts EXCEPT ![p] = @ + 1]
    /\ Goto(p, IF restarts[p] + 1 >= MaxRestarts THEN "leaving" ELSE "loop")
    /\ UNCHANGED <<pidfile, port, thread, pending, sig, admin, target, crashes, asked,
                   launches, overlapped>>

\* The end of start(): whatever pid file there is, is removed.
Leave(p) ==
    /\ pc[p] = "leaving"
    /\ pidfile' = None
    /\ Goto(p, "ended")
    /\ UNCHANGED <<port, thread, pending, sig, restarts, admin, target, crashes, asked,
                   launches, overlapped>>

-----------------------------------------------------------------------------
(* Signals, and the commands that send them *)

Kill(p, s) ==
    CASE pc[p] \in Blocked ->
            /\ pending' = [pending EXCEPT ![p] = @ \cup {s}]
            /\ UNCHANGED <<pc, port, thread>>
      [] pc[p] \in Daemonic \ Blocked /\ s = "INT" ->
            DieOf(p, "killed") /\ pending' = [pending EXCEPT ![p] = {}]
      [] OTHER -> UNCHANGED <<pc, port, thread, pending>>

\* A child of the preforked server dies.
Crash(p) ==
    /\ thread[p] = "serving"
    /\ crashes < MaxCrashes
    /\ crashes' = crashes + 1
    /\ Kill(p, "CHLD")
    /\ UNCHANGED <<pidfile, sig, restarts, admin, target, asked, launches, overlapped>>

\* daemon::stop: read the pid ...
Stop(a) ==
    /\ admin[a] = "idle" /\ GiveCommand
    /\ admin' = [admin EXCEPT ![a] = IF PidIsForExecutable THEN "kill" ELSE "done"]
    /\ target' = [target EXCEPT ![a] = pidfile]
    /\ UNCHANGED <<pidfile, port, pc, thread, pending, sig, restarts, crashes, asked,
                   launches>>

\* ... send SIGINT ...
StopKill(a) ==
    /\ admin[a] = "kill"
    /\ Kill(target[a], "INT")
    /\ asked' = asked \cup {target[a]}
    /\ admin' = [admin EXCEPT ![a] = "unlink"]
    /\ UNCHANGED <<pidfile, sig, restarts, target, crashes, launches, overlapped>>

\* ... and remove the pid file, whether the signal was sent or not.
StopRemove(a) ==
    /\ admin[a] = "unlink"
    /\ pidfile' = None
    /\ admin' = [admin EXCEPT ![a] = "done"]
    /\ UNCHANGED <<port, pc, thread, pending, sig, restarts, target, crashes, asked,
                   launches, overlapped>>

\* daemon::reload
Reload(a) ==
    /\ admin[a] = "idle" /\ GiveCommand
    /\ IF PidIsForExecutable
       THEN Kill(pidfile, "HUP") /\ asked' = asked \cup {pidfile}
       ELSE UNCHANGED <<pc, port, thread, pending, asked>>
    /\ admin' = [admin EXCEPT ![a] = "done"]
    /\ UNCHANGED <<pidfile, sig, restarts, target, crashes, launches>>

-----------------------------------------------------------------------------

CommandStep(p) == RemoveStale(p) \/ TestBind(p) \/ TestUnbind(p) \/ Daemonize(p)

LoopStep(p) == Launch(p) \/ Unblock(p) \/ Block(p) \/ SigWait(p) \/ Join(p)
                 \/ RestartLate(p) \/ RestartSoon(p) \/ Leave(p)

AdminStep(a) == StopKill(a) \/ StopRemove(a)

Next ==
    \/ \E p \in Procs : Start(p) \/ CommandStep(p) \/ LoopStep(p) \/ Bind(p) \/ Crash(p)
                             \/ OrphansEnd(p)
    \/ \E a \in Admins : Stop(a) \/ Reload(a) \/ AdminStep(a)

Spec == Init /\ [][Next]_vars

\* Processes and their threads are scheduled; commands and crashes need not happen.
FairSpec ==
    /\ Spec
    /\ \A p \in Procs : WF_vars(CommandStep(p)) /\ WF_vars(LoopStep(p)) /\ WF_vars(Bind(p))
    /\ \A a \in Admins : WF_vars(AdminStep(a))

-----------------------------------------------------------------------------
(* Properties *)

\* Every variable has its type.
TypeOK ==
    /\ pidfile \in Procs \cup {None} /\ port \in Procs \cup {None}
    /\ pc \in [Procs -> {"new"} \cup Commanding \cup Daemonic \cup Dead]
    /\ thread \in [Procs -> {"none", "starting", "serving"}]
    /\ pending \in [Procs -> SUBSET Signals]
    /\ sig \in [Procs -> Signals \cup {"none"}]
    /\ restarts \in [Procs -> 0 .. MaxRestarts]
    /\ admin \in [Admins -> {"idle", "kill", "unlink", "done"}]
    /\ target \in [Admins -> Procs \cup {None}]
    /\ crashes \in 0 .. MaxCrashes
    /\ asked \subseteq Procs
    /\ launches \in [Procs -> Nat]
    /\ overlapped \in BOOLEAN

\* daemon.hpp: "a process ID is store in the pid file which allows checking the
\* status of a running daemon."  As long as each command is given when the previous one
\* has had its effect, the pid file names every daemon that runs and that was not told
\* to go, until it removes the file itself, and status() says so.  (A start that
\* tests the file before another writes it removes that file, daemon.cpp:54-61.)
StatusTruthful ==
    \A p \in Procs :
        ~overlapped /\ pc[p] \in Daemonic /\ p \notin asked => pidfile = p /\ Status = 0

\* There is one daemon at a time, under the same condition.
OneDaemon == ~overlapped => Cardinality(Daemons) <= 1

\* The bind of the server thread, whose exception nobody catches, finds the port free:
\* `start' has tested it, and neither the children of a daemon that was killed nor those
\* of the launch before this one hold it still.  (Commands that overlap can take it in
\* between.)
BindSucceeds == \A p \in Procs : pc[p] = "aborted" => overlapped

\* daemon.hpp, set_max_restarts: "The max number of attempts to take to start up a
\* daemon process".  No more launches in a row fail early.
LaunchBound == \A p \in Procs : launches[p] <= MaxRestarts

\* A process that was sent SIGINT ends, in whatever part of the loop it is, also
\* when a child dies at the same time.
StopEnds ==
    \A a \in Admins, p \in Procs :
        admin[a] = "unlink" /\ target[a] = p ~> pc[p] \in Dead
=============================================================================
