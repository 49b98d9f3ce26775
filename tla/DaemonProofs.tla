---------------------------- MODULE DaemonProofs ----------------------------
(***************************************************************************)
(* Proofs about Daemon, for every number of processes and commands and     *)
(* every limit on restarts.                                                *)
(***************************************************************************)
EXTENDS Daemon, TLAPS, FiniteSetTheorems

-----------------------------------------------------------------------------
(* One process: its server thread, its port and its restarts *)

\* The places in the loop where there is a server thread.
Launched == {"starting", "open", "waiting", "stopping"}

\* There is a server thread only between the launch and the join.
ThreadInv == \A p \in Procs : thread[p] # "none" => pc[p] \in Launched

\* Every launch but the current one has been counted as a restart, and there is one
\* more to come only while the limit allows it.
CountInv ==
    \A p \in Procs :
        /\ pc[p] \in {"new", "loop"} \cup Commanding =>
               launches[p] = restarts[p] /\ restarts[p] < MaxRestarts
        /\ pc[p] \in Launched \cup {"joined"} =>
               launches[p] = restarts[p] + 1 /\ restarts[p] < MaxRestarts
        /\ launches[p] <= MaxRestarts

\* A command sends its signal to a process, and remembers that it did.
TargetInv ==
    \A a \in Admins :
        /\ admin[a] \in {"kill", "unlink"} => target[a] \in Procs
        /\ admin[a] = "unlink" => target[a] \in asked

ProcessInv == TypeOK /\ ThreadInv /\ CountInv /\ TargetInv

\* Nothing runs at first.
LEMMA InitProcess == Init => ProcessInv
<1> SUFFICES ASSUME Init PROVE ProcessInv
  OBVIOUS
<1> USE DEF Init
<1>1. TypeOK
  <2>1. overlapped \in BOOLEAN
    OBVIOUS
  <2>2. QED
    BY <2>1, MaxRestartsAssumption, MaxCrashesAssumption DEF TypeOK
<1>2. ThreadInv /\ TargetInv
  BY DEF ThreadInv, TargetInv
<1>3. CountInv
  BY MaxRestartsAssumption DEF CountInv, Launched
<1>4. QED
  BY <1>1, <1>2, <1>3 DEF ProcessInv

\* A signal is kept pending, ends the process, or is discarded.
LEMMA KillEffect ==
    ASSUME NEW p \in Procs, NEW s \in Signals, TypeOK, Kill(p, s)
    PROVE  \/ /\ UNCHANGED <<pc, port, thread>>
              /\ pending' \in [Procs -> SUBSET Signals]
           \/ /\ pc[p] \in Daemonic \ Blocked /\ DieOf(p, "killed")
              /\ pending' = [pending EXCEPT ![p] = {}]
<1>1. CASE pc[p] \in Blocked
  <2>1. pending' = [pending EXCEPT ![p] = @ \cup {s}] /\ UNCHANGED <<pc, port, thread>>
    BY <1>1 DEF Kill
  <2>2. pending' \in [Procs -> SUBSET Signals]
    BY <2>1 DEF TypeOK
  <2>3. QED
    BY <2>1, <2>2
<1>2. CASE pc[p] \in Daemonic \ Blocked /\ s = "INT"
  BY <1>2 DEF Kill
<1>3. CASE ~(pc[p] \in Blocked) /\ ~(pc[p] \in Daemonic \ Blocked /\ s = "INT")
  BY <1>3 DEF Kill, TypeOK
<1>4. QED
  BY <1>1, <1>2, <1>3

\* What ends a process leaves the invariant of all others.
LEMMA DieKeepsProcess ==
    ASSUME NEW p \in Procs, NEW how \in Dead, ProcessInv, pc[p] \in Daemonic, DieOf(p, how),
           pending' = [pending EXCEPT ![p] = {}], UNCHANGED <<restarts, launches>>
    PROVE  /\ ThreadInv' /\ CountInv'
           /\ pc' \in [Procs -> {"new"} \cup Commanding \cup Daemonic \cup Dead]
           /\ port' \in Procs \cup {None}
           /\ thread' \in [Procs -> {"none", "starting", "serving"}]
           /\ pending' \in [Procs -> SUBSET Signals]
<1> USE DEF ProcessInv, TypeOK, DieOf, Goto
<1>1. /\ pc' \in [Procs -> {"new"} \cup Commanding \cup Daemonic \cup Dead]
      /\ port' \in Procs \cup {None}
      /\ thread' \in [Procs -> {"none", "starting", "serving"}]
      /\ pending' \in [Procs -> SUBSET Signals]
  BY DEF Dead
<1>2. ThreadInv'
  BY DEF ThreadInv, Launched, Dead
<1>3. CountInv'
  BY DEF CountInv, Launched, Commanding, Dead
<1>4. QED
  BY <1>1, <1>2, <1>3

\* Every step keeps the invariant of the processes.
LEMMA NextProcess == ProcessInv /\ [Next]_vars => ProcessInv'
<1> SUFFICES ASSUME ProcessInv, [Next]_vars PROVE ProcessInv'
  OBVIOUS
<1> USE DEF ProcessInv
<1>1. ASSUME NEW p \in Procs, Start(p) PROVE ProcessInv'
  <2> USE <1>1 DEF Start, Goto
  <2>1. overlapped' \in BOOLEAN
    BY DEF GiveCommand
  <2>2. TypeOK'
    BY <2>1 DEF TypeOK, Commanding, Dead
  <2>3. ThreadInv' /\ TargetInv'
    BY DEF TypeOK, ThreadInv, TargetInv, Launched
  <2>4. CountInv'
    BY DEF TypeOK, CountInv, Launched, Commanding
  <2>5. QED
    BY <2>2, <2>3, <2>4
<1>2. ASSUME NEW p \in Procs, RemoveStale(p) PROVE ProcessInv'
  BY <1>2 DEF RemoveStale, Goto, TypeOK, ThreadInv, TargetInv, CountInv,
              Launched, Commanding
<1>3. ASSUME NEW p \in Procs, TestBind(p) PROVE ProcessInv'
  BY <1>3 DEF TestBind, Goto, TypeOK, ThreadInv, TargetInv, CountInv,
              Launched, Commanding, Dead
<1>4. ASSUME NEW p \in Procs, TestUnbind(p) PROVE ProcessInv'
  BY <1>4 DEF TestUnbind, Goto, TypeOK, ThreadInv, TargetInv, CountInv,
              Launched, Commanding
<1>5. ASSUME NEW p \in Procs, Daemonize(p) PROVE ProcessInv'
  BY <1>5 DEF Daemonize, Goto, TypeOK, ThreadInv, TargetInv, CountInv,
              Launched, Commanding, Daemonic
<1>6. ASSUME NEW p \in Procs, Launch(p) PROVE ProcessInv'
  BY <1>6, MaxRestartsAssumption DEF Launch, Goto, TypeOK, ThreadInv, TargetInv, CountInv,
              Launched, Commanding, Daemonic, Blocked
<1>7. ASSUME NEW p \in Procs, Bind(p) PROVE ProcessInv'
  <2>1. pc[p] \in Daemonic
    BY <1>7 DEF Bind, TypeOK, ThreadInv, Launched, Daemonic, Blocked
  <2>2. CASE port = None
    BY <1>7, <2>2 DEF Bind, TypeOK, ThreadInv, TargetInv, CountInv, Launched
  <2>3. CASE port # None
    <3>1. /\ DieOf(p, "aborted") /\ pending' = [pending EXCEPT ![p] = {}]
          /\ UNCHANGED <<pidfile, sig, restarts, admin, target, crashes, asked, launches,
                         overlapped>>
      BY <1>7, <2>3 DEF Bind
    <3>2. "aborted" \in Dead
      BY DEF Dead
    <3>3. QED
      BY <2>1, <3>1, <3>2, DieKeepsProcess DEF TypeOK, TargetInv
  <2>4. QED
    BY <2>2, <2>3
<1>8. ASSUME NEW p \in Procs, Unblock(p) PROVE ProcessInv'
  BY <1>8 DEF Unblock, Goto, DeliverPending, DieOf, TypeOK, ThreadInv, TargetInv, CountInv,
              Launched, Commanding, Daemonic, Blocked, Dead, Signals
<1>9. ASSUME NEW p \in Procs, Block(p) PROVE ProcessInv'
  BY <1>9 DEF Block, Goto, TypeOK, ThreadInv, TargetInv, CountInv,
              Launched, Commanding, Daemonic, Blocked, Dead, Signals
<1>10. ASSUME NEW p \in Procs, SigWait(p) PROVE ProcessInv'
  BY <1>10 DEF SigWait, Goto, DeliverPending, DieOf, TypeOK, ThreadInv, TargetInv, CountInv,
              Launched, Commanding, Daemonic, Blocked, Dead, Signals
<1>11. ASSUME NEW p \in Procs, Join(p) PROVE ProcessInv'
  BY <1>11 DEF Join, Goto, TypeOK, ThreadInv, TargetInv, CountInv,
              Launched, Commanding, Daemonic, Blocked, Dead, Signals
<1>12. ASSUME NEW p \in Procs, RestartLate(p) PROVE ProcessInv'
  BY <1>12, MaxRestartsAssumption DEF RestartLate, Goto, TypeOK, ThreadInv, TargetInv, CountInv,
              Launched, Commanding, Daemonic, Blocked, Dead, Signals
<1>13. ASSUME NEW p \in Procs, RestartSoon(p) PROVE ProcessInv'
  BY <1>13, MaxRestartsAssumption DEF RestartSoon, Goto, TypeOK, ThreadInv, TargetInv, CountInv,
              Launched, Commanding, Daemonic, Blocked, Dead, Signals
<1>14. ASSUME NEW p \in Procs, Leave(p) PROVE ProcessInv'
  BY <1>14 DEF Leave, Goto, TypeOK, ThreadInv, TargetInv, CountInv,
              Launched, Commanding, Daemonic, Blocked, Dead, Signals
<1>15. ASSUME NEW p \in Procs, Crash(p) PROVE ProcessInv'
  <2> USE <1>15 DEF Crash
  <2>1. "CHLD" \in Signals
    BY DEF Signals
  <2>2. crashes' \in 0 .. MaxCrashes
    BY MaxCrashesAssumption DEF TypeOK
  <2>3. CASE UNCHANGED <<pc, port, thread>> /\ pending' \in [Procs -> SUBSET Signals]
    BY <2>2, <2>3 DEF TypeOK, ThreadInv, TargetInv, CountInv
  <2>4. CASE /\ pc[p] \in Daemonic \ Blocked /\ DieOf(p, "killed")
             /\ pending' = [pending EXCEPT ![p] = {}]
    <3>1. "killed" \in Dead
      BY DEF Dead
    <3>2. QED
      BY <2>2, <2>4, <3>1, DieKeepsProcess DEF TypeOK, TargetInv
  <2>5. QED
    BY <2>1, <2>3, <2>4, KillEffect
<1>16. ASSUME NEW a \in Admins, Stop(a) PROVE ProcessInv'
  <2> USE <1>16 DEF Stop
  <2>1. overlapped' \in BOOLEAN
    BY DEF GiveCommand
  <2>2. TypeOK'
    BY <2>1 DEF TypeOK
  <2>3. ThreadInv' /\ CountInv'
    BY DEF ThreadInv, CountInv
  <2>4. TargetInv'
    BY DEF TypeOK, TargetInv, PidIsForExecutable, Daemons
  <2>5. QED
    BY <2>2, <2>3, <2>4
<1>17. ASSUME NEW a \in Admins, StopKill(a) PROVE ProcessInv'
  <2> USE <1>17 DEF StopKill
  <2>1. "INT" \in Signals /\ target[a] \in Procs
    BY DEF Signals, TargetInv
  <2>2. TargetInv'
    BY <2>1 DEF TypeOK, TargetInv
  <2>3. CASE UNCHANGED <<pc, port, thread>> /\ pending' \in [Procs -> SUBSET Signals]
    BY <2>1, <2>2, <2>3 DEF TypeOK, ThreadInv, CountInv
  <2>4. CASE /\ pc[target[a]] \in Daemonic \ Blocked /\ DieOf(target[a], "killed")
             /\ pending' = [pending EXCEPT ![target[a]] = {}]
    <3>1. /\ ThreadInv' /\ CountInv'
          /\ pc' \in [Procs -> {"new"} \cup Commanding \cup Daemonic \cup Dead]
          /\ port' \in Procs \cup {None}
          /\ thread' \in [Procs -> {"none", "starting", "serving"}]
          /\ pending' \in [Procs -> SUBSET Signals]
      <4>1. "killed" \in Dead
        BY DEF Dead
      <4>2. QED
        BY <2>1, <2>4, <4>1, DieKeepsProcess
    <3>2. TypeOK'
      BY <2>1, <3>1 DEF TypeOK
    <3>3. QED
      BY <2>2, <3>1, <3>2
  <2>5. QED
    BY <2>1, <2>3, <2>4, KillEffect
<1>18. ASSUME NEW a \in Admins, StopRemove(a) PROVE ProcessInv'
  BY <1>18 DEF StopRemove, TypeOK, ThreadInv, TargetInv, CountInv
<1>19. ASSUME NEW a \in Admins, Reload(a) PROVE ProcessInv'
  <2> USE <1>19 DEF Reload
  <2>1. "HUP" \in Signals
    BY DEF Signals
  <2>2. overlapped' \in BOOLEAN
    BY DEF GiveCommand
  <2>3. CASE PidIsForExecutable
    <3>1. pidfile \in Procs /\ Kill(pidfile, "HUP") /\ asked' = asked \cup {pidfile}
      BY <2>3 DEF PidIsForExecutable, Daemons
    <3>2. TargetInv'
      BY <3>1 DEF TypeOK, TargetInv
    <3>3. CASE UNCHANGED <<pc, port, thread>> /\ pending' \in [Procs -> SUBSET Signals]
      BY <2>2, <3>1, <3>2, <3>3 DEF TypeOK, ThreadInv, CountInv
    <3>4. CASE /\ pc[pidfile] \in Daemonic \ Blocked /\ DieOf(pidfile, "killed")
               /\ pending' = [pending EXCEPT ![pidfile] = {}]
      <4>1. /\ ThreadInv' /\ CountInv'
            /\ pc' \in [Procs -> {"new"} \cup Commanding \cup Daemonic \cup Dead]
            /\ port' \in Procs \cup {None}
            /\ thread' \in [Procs -> {"none", "starting", "serving"}]
            /\ pending' \in [Procs -> SUBSET Signals]
        <5>1. "killed" \in Dead
          BY DEF Dead
        <5>2. QED
          BY <3>1, <3>4, <5>1, DieKeepsProcess
      <4>2. TypeOK'
        BY <2>2, <3>1, <4>1 DEF TypeOK
      <4>3. QED
        BY <3>2, <4>1, <4>2
    <3>5. QED
      BY <2>1, <3>1, <3>3, <3>4, KillEffect
  <2>4. CASE ~PidIsForExecutable
    BY <2>2, <2>4 DEF TypeOK, ThreadInv, TargetInv, CountInv
  <2>5. QED
    BY <2>3, <2>4
<1>20. ASSUME NEW p \in Procs, OrphansEnd(p) PROVE ProcessInv'
  BY <1>20 DEF OrphansEnd, TypeOK, ThreadInv, TargetInv, CountInv
<1>21. CASE UNCHANGED vars
  BY <1>21 DEF vars, TypeOK, ThreadInv, TargetInv, CountInv
<1>22. QED
  BY <1>1, <1>2, <1>3, <1>4, <1>5, <1>6, <1>7, <1>8, <1>9, <1>10, <1>11, <1>12, <1>13,
     <1>14, <1>15, <1>16, <1>17, <1>18, <1>19, <1>20, <1>21
     DEF Next, CommandStep, LoopStep, AdminStep

\* Every variable of the daemon keeps its type.
THEOREM TypeCorrect == Spec => []TypeOK
<1>1. ProcessInv => TypeOK
  BY DEF ProcessInv
<1>2. QED
  BY <1>1, InitProcess, NextProcess, PTL DEF Spec

\* run_main_loop never launches the server more than m_max_restarts times without one
\* of the launches lasting, for every limit.
THEOREM LaunchesBounded == Spec => []LaunchBound
<1>1. ProcessInv => LaunchBound
  BY DEF ProcessInv, CountInv, LaunchBound
<1>2. QED
  BY <1>1, InitProcess, NextProcess, PTL DEF Spec

-----------------------------------------------------------------------------
(* Commands given one after another *)

\* Processes that are busy with `start' or run as a daemon.
Alive == Commanding \cup Daemonic

\* At most one process is alive.
OneAlive == \A p, q \in Procs : pc[p] \in Alive /\ pc[q] \in Alive => p = q

\* The pid file names the daemon nobody has sent a signal.
FileNamesDaemon == \A p \in Procs : pc[p] \in Daemonic /\ p \notin asked => pidfile = p

\* The process that is alive during a `stop' is the one the command goes for: what it
\* removes after the signal is not the pid file of a successor.
StopHitsAlive ==
    \A a \in Admins, p \in Procs :
        admin[a] \in {"kill", "unlink"} /\ pc[p] \in Alive => target[a] = p

SerialInv == ~overlapped => OneAlive /\ FileNamesDaemon /\ StopHitsAlive

\* No command is under way at first.
LEMMA InitSerial == Init => SerialInv
BY DEF Init, SerialInv, OneAlive, FileNamesDaemon, StopHitsAlive, Alive, Commanding,
       Daemonic, Blocked

\* Steps in which nobody becomes alive or a daemon, and the pid file stays.
LEMMA QuietKeepsSerial ==
    ASSUME SerialInv, overlapped' = overlapped, pidfile' = pidfile,
           \A p \in Procs : pc'[p] \in Alive => pc[p] \in Alive,
           \A p \in Procs : pc'[p] \in Daemonic => pc[p] \in Daemonic,
           asked \subseteq asked',
           \A a \in Admins : admin'[a] \in {"kill", "unlink"} =>
                                admin[a] \in {"kill", "unlink"} /\ target'[a] = target[a]
    PROVE  SerialInv'
BY DEF SerialInv, OneAlive, FileNamesDaemon, StopHitsAlive

\* A signal makes nobody alive.
LEMMA KillKeepsDead ==
    ASSUME NEW p \in Procs, NEW s \in Signals, TypeOK, Kill(p, s)
    PROVE  \A q \in Procs : /\ pc'[q] \in Alive => pc[q] \in Alive
                            /\ pc'[q] \in Daemonic => pc[q] \in Daemonic
BY KillEffect DEF DieOf, Goto, TypeOK, Alive, Commanding, Daemonic, Blocked

\* Every step keeps the commands apart.
LEMMA NextSerial == ProcessInv /\ SerialInv /\ [Next]_vars => SerialInv'
<1> SUFFICES ASSUME ProcessInv, SerialInv, [Next]_vars PROVE SerialInv'
  OBVIOUS
<1>0. TypeOK /\ ThreadInv /\ TargetInv
  BY DEF ProcessInv
<1> DEFINE Quiet(p) == TestBind(p) \/ TestUnbind(p) \/ Launch(p) \/ Unblock(p) \/ Block(p)
                         \/ SigWait(p) \/ Join(p) \/ RestartLate(p) \/ RestartSoon(p)
<1>1. ASSUME NEW p \in Procs, Start(p) PROVE SerialInv'
  <2> SUFFICES ASSUME ~overlapped' PROVE OneAlive' /\ FileNamesDaemon' /\ StopHitsAlive'
    BY DEF SerialInv
  <2>1. ~overlapped /\ Settled
    BY <1>1 DEF Start, GiveCommand
  <2>2. OneAlive /\ FileNamesDaemon /\ StopHitsAlive
    BY <2>1 DEF SerialInv
  <2>3. CASE PidIsForExecutable
    BY <1>0, <1>1, <2>2, <2>3
       DEF Start, Goto, TypeOK, OneAlive, FileNamesDaemon, StopHitsAlive, Alive,
           Commanding, Daemonic, Blocked
  <2>4. CASE ~PidIsForExecutable
    <3>1. \A q \in Procs : pc[q] \notin Alive
      <4>1. ASSUME NEW q \in Procs, pc[q] \in Daemonic PROVE FALSE
        BY <2>1, <2>2, <2>4, <4>1, NoneAssumption
           DEF Settled, FileNamesDaemon, PidIsForExecutable, Daemons, Dead, Daemonic, Blocked
      <4>2. QED
        BY <2>1, <4>1 DEF Settled, Alive
    <3>2. \A a \in Admins : admin[a] \notin {"kill", "unlink"}
      BY <2>1 DEF Settled
    <3>3. pc' = [pc EXCEPT ![p] = "remove"] /\ UNCHANGED <<admin, asked>>
      BY <1>1, <2>4 DEF Start, Goto
    <3>4. QED
      BY <1>0, <3>1, <3>2, <3>3
         DEF TypeOK, OneAlive, FileNamesDaemon, StopHitsAlive, Alive, Daemonic, Blocked
  <2>5. QED
    BY <2>3, <2>4
<1>2. ASSUME NEW p \in Procs, RemoveStale(p) PROVE SerialInv'
  BY <1>0, <1>2 DEF RemoveStale, Goto, TypeOK, SerialInv, OneAlive, FileNamesDaemon,
                    StopHitsAlive, Alive, Commanding, Daemonic, Blocked
<1>3. ASSUME NEW p \in Procs, Daemonize(p) PROVE SerialInv'
  BY <1>0, <1>3 DEF Daemonize, Goto, TypeOK, SerialInv, OneAlive, FileNamesDaemon,
                    StopHitsAlive, Alive, Commanding, Daemonic, Blocked
<1>4. ASSUME NEW p \in Procs, Leave(p) PROVE SerialInv'
  BY <1>0, <1>4 DEF Leave, Goto, TypeOK, SerialInv, OneAlive, FileNamesDaemon,
                    StopHitsAlive, Alive, Commanding, Daemonic, Blocked
<1>5. ASSUME NEW p \in Procs, Quiet(p) PROVE SerialInv'
  <2>1. /\ UNCHANGED <<overlapped, pidfile, asked, admin, target>>
        /\ \E where \in {"failed", "unbind", "daemonize", "starting", "open", "waiting",
                          "stopping", "joined", "leaving", "loop", "killed"} :
              pc' = [pc EXCEPT ![p] = where]
    BY <1>5 DEF TestBind, TestUnbind, Launch, Unblock, Block, SigWait, Join, RestartLate,
                RestartSoon, DeliverPending, DieOf, Goto
  <2>2. /\ pc[p] \in Alive
        /\ pc'[p] \in Daemonic => pc[p] \in Daemonic
    BY <1>0, <1>5 DEF TestBind, TestUnbind, Launch, Unblock, Block, SigWait, Join,
            RestartLate, RestartSoon, DeliverPending, DieOf, Goto, TypeOK, Alive, Commanding,
            Daemonic, Blocked
  <2>3. QED
    BY <1>0, <2>1, <2>2, QuietKeepsSerial DEF TypeOK
<1>6. ASSUME NEW p \in Procs, Bind(p) PROVE SerialInv'
  BY <1>0, <1>6, QuietKeepsSerial
     DEF Bind, DieOf, Goto, TypeOK, Alive, Commanding, Daemonic, Blocked
<1>7. ASSUME NEW p \in Procs, Crash(p) PROVE SerialInv'
  <2>1. "CHLD" \in Signals
    BY DEF Signals
  <2>2. QED
    BY <1>0, <1>7, <2>1, KillKeepsDead, QuietKeepsSerial DEF Crash
<1>8. ASSUME NEW a \in Admins, Stop(a) PROVE SerialInv'
  <2> SUFFICES ASSUME ~overlapped' PROVE OneAlive' /\ FileNamesDaemon' /\ StopHitsAlive'
    BY DEF SerialInv
  <2>1. ~overlapped /\ Settled
    BY <1>8 DEF Stop, GiveCommand
  <2>2. OneAlive /\ FileNamesDaemon /\ StopHitsAlive
    BY <2>1 DEF SerialInv
  <2>3. OneAlive' /\ FileNamesDaemon'
    BY <1>8, <2>2 DEF Stop, OneAlive, FileNamesDaemon
  <2>4. StopHitsAlive'
    BY <1>0, <1>8, <2>2
       DEF Stop, TypeOK, OneAlive, StopHitsAlive, PidIsForExecutable, Daemons, Alive
  <2>5. QED
    BY <2>3, <2>4
<1>9. ASSUME NEW a \in Admins, StopKill(a) PROVE SerialInv'
  <2>1. "INT" \in Signals /\ target[a] \in Procs
    BY <1>0, <1>9 DEF Signals, StopKill, TargetInv
  <2>2. \A q \in Procs : /\ pc'[q] \in Alive => pc[q] \in Alive
                         /\ pc'[q] \in Daemonic => pc[q] \in Daemonic
    BY <1>0, <1>9, <2>1, KillKeepsDead DEF StopKill
  <2>3. QED
    BY <1>0, <1>9, <2>2, QuietKeepsSerial DEF StopKill, TypeOK
<1>10. ASSUME NEW a \in Admins, StopRemove(a) PROVE SerialInv'
  <2>1. \A p \in Procs : ~overlapped /\ pc[p] \in Daemonic => p \in asked
    BY <1>0, <1>10 DEF StopRemove, SerialInv, StopHitsAlive, TargetInv, Alive
  <2>2. QED
    BY <1>0, <1>10, <2>1
       DEF StopRemove, TypeOK, SerialInv, OneAlive, FileNamesDaemon, StopHitsAlive
<1>11. ASSUME NEW a \in Admins, Reload(a) PROVE SerialInv'
  <2>1. "HUP" \in Signals
    BY DEF Signals
  <2>2. \A q \in Procs : /\ pc'[q] \in Alive => pc[q] \in Alive
                         /\ pc'[q] \in Daemonic => pc[q] \in Daemonic
    BY <1>0, <1>11, <2>1, KillKeepsDead DEF Reload, PidIsForExecutable, Daemons
  <2>3. ~overlapped' => ~overlapped
    BY <1>11 DEF Reload, GiveCommand
  <2>4. QED
    BY <1>0, <1>11, <2>2, <2>3
       DEF Reload, TypeOK, SerialInv, OneAlive, FileNamesDaemon, StopHitsAlive
<1>12. ASSUME NEW p \in Procs, OrphansEnd(p) PROVE SerialInv'
  BY <1>12 DEF OrphansEnd, SerialInv, OneAlive, FileNamesDaemon, StopHitsAlive
<1>13. CASE UNCHANGED vars
  BY <1>13 DEF vars, SerialInv, OneAlive, FileNamesDaemon, StopHitsAlive
<1>14. QED
  BY <1>1, <1>2, <1>3, <1>4, <1>5, <1>6, <1>7, <1>8, <1>9, <1>10, <1>11, <1>12, <1>13
     DEF Next, CommandStep, LoopStep, AdminStep

\* As long as every command is given when the one before it has had its effect, the pid
\* file names the running daemon and status() reports it, for any number of starts,
\* stops, reloads and crashes.
THEOREM StatusIsTruthful == Spec => []StatusTruthful
<1>1. ProcessInv /\ SerialInv => StatusTruthful
  BY NoneAssumption
     DEF ProcessInv, TypeOK, SerialInv, FileNamesDaemon, StatusTruthful, Status,
         PidIsForExecutable, Daemons
<1>2. QED
  BY <1>1, InitProcess, NextProcess, InitSerial, NextSerial, PTL DEF Spec

\* Under the same condition there is never a second daemon.
THEOREM DaemonIsAlone == Spec => []OneDaemon
<1>1. ProcessInv /\ SerialInv => OneDaemon
  <2> SUFFICES ASSUME SerialInv, ~overlapped PROVE Cardinality(Daemons) <= 1
    BY DEF OneDaemon
  <2>1. \A p, q \in Daemons : p = q
    BY DEF SerialInv, OneAlive, Alive, Daemons
  <2>2. CASE Daemons = {}
    BY <2>2, FS_EmptySet
  <2>3. CASE Daemons # {}
    <3>1. PICK d : d \in Daemons
      BY <2>3
    <3>2. Daemons = {d}
      BY <2>1, <3>1
    <3>3. QED
      BY <3>2, FS_Singleton
  <2>4. QED
    BY <2>2, <2>3
<1>2. QED
  BY <1>1, InitProcess, NextProcess, InitSerial, NextSerial, PTL DEF Spec

-----------------------------------------------------------------------------
(* The port, between the bind that tests it and the one that keeps it *)

\* A process that has tested the port, or has joined the thread that served on it, and
\* has not bound it since.
ToBind(p) == pc[p] \in {"daemonize", "loop", "joined"} \/ thread[p] = "starting"

\* Nobody holds the port that such a process is about to bind.
PortFreeToBind == ~overlapped => \A p \in Procs : ToBind(p) => port = None

PortInv == PortFreeToBind /\ BindSucceeds

\* At first nobody is about to bind.
LEMMA InitPort == Init => PortInv
BY DEF Init, PortInv, PortFreeToBind, ToBind, BindSucceeds

\* Whoever is about to bind is alive.
LEMMA BinderAlive ==
    ASSUME ProcessInv, NEW p \in Procs, ToBind(p)
    PROVE  pc[p] \in Alive
BY DEF ProcessInv, ThreadInv, ToBind, Launched, Alive, Commanding, Daemonic, Blocked

\* Steps after which nobody new is about to bind, and in which no port is taken.
LEMMA ReleaseKeepsPort ==
    ASSUME PortInv, overlapped => overlapped', port' = port \/ port' = None,
           \A p \in Procs : ToBind(p)' => ToBind(p),
           \A p \in Procs : pc'[p] = "aborted" => pc[p] = "aborted"
    PROVE  PortInv'
BY DEF PortInv, PortFreeToBind, BindSucceeds

\* A signal takes no port and brings nobody to bind.
LEMMA KillReleases ==
    ASSUME NEW p \in Procs, NEW s \in Signals, TypeOK, Kill(p, s)
    PROVE  /\ port' = port \/ port' = None
           /\ \A q \in Procs : ToBind(q)' => ToBind(q)
           /\ \A q \in Procs : pc'[q] = "aborted" => pc[q] = "aborted"
BY KillEffect DEF DieOf, Goto, TypeOK, ToBind

\* Every step keeps the port free for the process that is about to bind it.
LEMMA NextPort == ProcessInv /\ SerialInv /\ PortInv /\ [Next]_vars => PortInv'
<1> SUFFICES ASSUME ProcessInv, SerialInv, PortInv, [Next]_vars PROVE PortInv'
  OBVIOUS
<1>0. TypeOK /\ ThreadInv /\ TargetInv
  BY DEF ProcessInv
<1>1. ASSUME NEW p \in Procs, Start(p) \/ RemoveStale(p) \/ Block(p) \/ Leave(p)
                                 \/ RestartLate(p) \/ RestartSoon(p) \/ OrphansEnd(p)
      PROVE  PortInv'
  <2>1. overlapped => overlapped'
    BY <1>1 DEF Start, RemoveStale, Block, Leave, RestartLate, RestartSoon, OrphansEnd,
                GiveCommand
  <2>2. /\ port' = port \/ port' = None
        /\ \A q \in Procs : ToBind(q)' => ToBind(q)
        /\ \A q \in Procs : pc'[q] = "aborted" => pc[q] = "aborted"
    BY <1>0, <1>1 DEF Start, RemoveStale, Block, Leave, RestartLate, RestartSoon,
                      OrphansEnd, Goto, TypeOK, ToBind
  <2>3. QED
    BY <2>1, <2>2, ReleaseKeepsPort
<1>2. ASSUME NEW p \in Procs, TestBind(p) PROVE PortInv'
  <2>1. \A q \in Procs : ~overlapped /\ ToBind(q) => q = p
    BY <1>2, BinderAlive DEF TestBind, SerialInv, OneAlive, Alive, Commanding
  <2>2. ~ToBind(p)'
    BY <1>0, <1>2 DEF TestBind, Goto, TypeOK, ThreadInv, ToBind, Launched
  <2>3. /\ \A q \in Procs \ {p} : ToBind(q)' => ToBind(q)
        /\ \A q \in Procs : pc'[q] = "aborted" => pc[q] = "aborted"
        /\ overlapped' = overlapped
    BY <1>0, <1>2 DEF TestBind, Goto, TypeOK, ToBind
  <2>4. QED
    BY <2>1, <2>2, <2>3 DEF PortInv, PortFreeToBind, BindSucceeds
<1>3. ASSUME NEW p \in Procs, TestUnbind(p) \/ Join(p) PROVE PortInv'
  <2>1. port' = None /\ overlapped' = overlapped
    BY <1>3 DEF TestUnbind, Join
  <2>2. \A q \in Procs : pc'[q] = "aborted" => pc[q] = "aborted"
    BY <1>0, <1>3 DEF TestUnbind, Join, Goto, TypeOK
  <2>3. QED
    BY <2>1, <2>2 DEF PortInv, PortFreeToBind, BindSucceeds
<1>4. ASSUME NEW p \in Procs, Daemonize(p) \/ Launch(p) PROVE PortInv'
  <2>1. ToBind(p) /\ port' = port /\ overlapped' = overlapped
    BY <1>4 DEF Daemonize, Launch, ToBind
  <2>2. /\ \A q \in Procs \ {p} : ToBind(q)' => ToBind(q)
        /\ \A q \in Procs : pc'[q] = "aborted" => pc[q] = "aborted"
    BY <1>0, <1>4 DEF Daemonize, Launch, Goto, TypeOK, ToBind
  <2>3. QED
    BY <2>1, <2>2 DEF PortInv, PortFreeToBind, BindSucceeds
<1>5. ASSUME NEW p \in Procs, Bind(p) PROVE PortInv'
  <2>1. overlapped' = overlapped
    BY <1>5 DEF Bind
  <2>2. ToBind(p) /\ (~overlapped => port = None)
    BY <1>5 DEF Bind, ToBind, PortInv, PortFreeToBind
  <2>3. \A q \in Procs : ~overlapped /\ ToBind(q) => q = p
    BY <2>2, BinderAlive DEF SerialInv, OneAlive
  <2>4. CASE port = None
    <3>1. /\ pc' = pc /\ thread' = [thread EXCEPT ![p] = "serving"]
          /\ pc[p] \in Launched
      BY <1>0, <1>5, <2>4 DEF Bind, ThreadInv
    <3>2. ~ToBind(p)'
      BY <1>0, <3>1 DEF TypeOK, ToBind, Launched
    <3>3. \A q \in Procs \ {p} : ToBind(q)' => ToBind(q)
      BY <1>0, <3>1 DEF TypeOK, ToBind
    <3>4. QED
      BY <2>1, <2>3, <3>1, <3>2, <3>3 DEF PortInv, PortFreeToBind, BindSucceeds
  <2>5. CASE port # None
    BY <2>1, <2>2, <2>5 DEF PortInv, PortFreeToBind, BindSucceeds
  <2>6. QED
    BY <2>4, <2>5
<1>6. ASSUME NEW p \in Procs, Unblock(p) \/ SigWait(p) PROVE PortInv'
  <2>1. overlapped' = overlapped
    BY <1>6 DEF Unblock, SigWait
  <2>2. /\ port' = port \/ port' = None
        /\ \A q \in Procs : ToBind(q)' => ToBind(q)
        /\ \A q \in Procs : pc'[q] = "aborted" => pc[q] = "aborted"
    BY <1>0, <1>6 DEF Unblock, SigWait, DeliverPending, DieOf, Goto, TypeOK, ToBind
  <2>3. QED
    BY <2>1, <2>2, ReleaseKeepsPort
<1>7. ASSUME NEW p \in Procs, Crash(p) PROVE PortInv'
  <2>1. "CHLD" \in Signals
    BY DEF Signals
  <2>2. QED
    BY <1>0, <1>7, <2>1, KillReleases, ReleaseKeepsPort DEF Crash
<1>8. ASSUME NEW a \in Admins, Stop(a) \/ StopRemove(a) PROVE PortInv'
  <2>1. UNCHANGED <<port, pc, thread>>
    BY <1>8 DEF Stop, StopRemove
  <2>2. overlapped => overlapped'
    BY <1>8 DEF Stop, StopRemove, GiveCommand
  <2>3. \A p \in Procs : ToBind(p)' => ToBind(p)
    BY <2>1 DEF ToBind
  <2>4. QED
    BY <2>1, <2>2, <2>3, ReleaseKeepsPort
<1>9. ASSUME NEW a \in Admins, StopKill(a) PROVE PortInv'
  <2>1. "INT" \in Signals /\ target[a] \in Procs
    BY <1>0, <1>9 DEF Signals, StopKill, TargetInv
  <2>2. QED
    BY <1>0, <1>9, <2>1, KillReleases, ReleaseKeepsPort DEF StopKill
<1>10. ASSUME NEW a \in Admins, Reload(a) PROVE PortInv'
  <2>1. "HUP" \in Signals /\ (overlapped => overlapped')
    BY <1>10 DEF Signals, Reload, GiveCommand
  <2>2. CASE PidIsForExecutable
    <3>1. pidfile \in Procs /\ Kill(pidfile, "HUP")
      BY <1>10, <2>2 DEF Reload, PidIsForExecutable, Daemons
    <3>2. QED
      BY <1>0, <2>1, <3>1, KillReleases, ReleaseKeepsPort
  <2>3. CASE ~PidIsForExecutable
    BY <1>10, <2>1, <2>3, ReleaseKeepsPort DEF Reload, ToBind
  <2>4. QED
    BY <2>2, <2>3
<1>11. CASE UNCHANGED vars
  BY <1>11 DEF vars, PortInv, PortFreeToBind, ToBind, BindSucceeds
<1>12. QED
  BY <1>1, <1>2, <1>3, <1>4, <1>5, <1>6, <1>7, <1>8, <1>9, <1>10, <1>11
     DEF Next, CommandStep, LoopStep, AdminStep

\* As long as commands do not overlap, no daemon dies of a bind that fails in the thread
\* of its server: the port that `start' tested is free when it is bound, and free again
\* after each restart, although children may outlive a daemon that was killed.
THEOREM BindsSucceed == Spec => []BindSucceeds
<1>1. PortInv => BindSucceeds
  BY DEF PortInv
<1>2. QED
  BY <1>1, InitProcess, NextProcess, InitSerial, NextSerial, InitPort, NextPort, PTL
     DEF Spec
=============================================================================
