------------------------ MODULE DaemonLifecycleProofs ------------------------
(***************************************************************************)
(* Proofs about DaemonLifecycle, for any number of daemons, commands and   *)
(* crashes.                                                                *)
(***************************************************************************)
EXTENDS DaemonLifecycle, TLAPS

(* Where NothingFound, LoadError, NoAnswer and NotYet lead. *)
LEMMA WhereTo ==
    ASSUME NEW k \in Commands
    PROVE  /\ NothingFound(k) \in {"spawn", "become", "failed"}
           /\ LoadError(k) \in {"one-shot", "become", "failed"}
           /\ NoAnswer(k) \in Ended \cup {"become"}
           /\ pc[k] = "poll" => NotYet(k) = "poll"
           /\ pc[k] # "poll" => NotYet(k) = NothingFound(k)
  BY DEF NothingFound, LoadError, NoAnswer, NotYet, Ended

(* A command that asks for a process or talks to it has read a file. *)
FoundIsRead ==
    \A k \in Commands :
        pc[k] \in {"check", "poll-check", "connect", "request"} =>
            found[k] \in Daemons

TypeInv == TypeOK /\ FoundIsRead

(* One step keeps the types and what the commands have read. *)
LEMMA TypeStep == TypeInv /\ [Next]_vars => TypeInv'
<1> SUFFICES ASSUME TypeInv, [Next]_vars
             PROVE  TypeInv'
  OBVIOUS
<1> USE LifecycleAssumption DEF TypeInv
<1>1. ASSUME NEW d \in Daemons, Daemon(d)
      PROVE  TypeInv'
  <2>1. CASE Bind(d)
    BY <2>1 DEF TypeOK, FoundIsRead, Bind, Move, commandVars
  <2>2. CASE OpenMetadata(d)
    BY <2>2 DEF TypeOK, FoundIsRead, OpenMetadata, Move, commandVars
  <2>3. CASE WriteMetadata(d)
    BY <2>3 DEF TypeOK, FoundIsRead, WriteMetadata, Move, commandVars
  <2>4. CASE Warmed(d)
    BY <2>4 DEF TypeOK, FoundIsRead, Warmed, Move, commandVars
  <2>5. CASE LeaveLoop(d)
    BY <2>5 DEF TypeOK, FoundIsRead, LeaveLoop, Move, commandVars
  <2>6. CASE CleanupAndExit(d)
    BY <2>6 DEF TypeOK, FoundIsRead, CleanupAndExit, Move, Unlink, commandVars
  <2> QED
    BY <1>1, <2>1, <2>2, <2>3, <2>4, <2>5, <2>6 DEF Daemon
<1>2. ASSUME NEW d \in Daemons, Interrupt(d) \/ Crash(d)
      PROVE  TypeInv'
  BY <1>2 DEF TypeOK, FoundIsRead, Interrupt, Move, Crash, commandVars
<1>3. ASSUME NEW k \in Commands, Command(k)
      PROVE  TypeInv'
  <2> USE WhereTo DEF Ended
  <2>1. CASE Begin(k)
    BY <2>1 DEF TypeOK, FoundIsRead, Begin, Goto, daemonVars
  <2>2. CASE Load(k)
    BY <2>2 DEF TypeOK, FoundIsRead, Load, Goto, daemonVars
  <2>3. CASE CheckPid(k)
    BY <2>3 DEF TypeOK, FoundIsRead, CheckPid, Goto, daemonVars
  <2>4. CASE RemoveStale(k)
    BY <2>4 DEF TypeOK, FoundIsRead, RemoveStale, Unlink, Goto, daemonVars
  <2>5. CASE Spawn(k)
    BY <2>5 DEF TypeOK, FoundIsRead, Spawn, Move, Goto, Ended
  <2>6. CASE BecomeDaemon(k)
    BY <2>6 DEF TypeOK, FoundIsRead, BecomeDaemon, Move, Goto, Ended
  <2>7. CASE Connect(k)
    BY <2>7 DEF TypeOK, FoundIsRead, Connect, Goto, daemonVars
  <2>8. CASE Answer(k)
    BY <2>8 DEF TypeOK, FoundIsRead, Answer, Goto, daemonVars
  <2>9. CASE AckShutdown(k)
    BY <2>9 DEF TypeOK, FoundIsRead, AckShutdown, Goto, Ended
  <2>10. CASE HangUp(k)
    BY <2>10 DEF TypeOK, FoundIsRead, HangUp, Goto, daemonVars
  <2> QED
    BY <1>3, <2>1, <2>2, <2>3, <2>4, <2>5, <2>6, <2>7, <2>8, <2>9, <2>10
       DEF Command
<1>4. ASSUME NEW k \in Commands, StartupTimeout(k)
      PROVE  TypeInv'
  BY <1>4 DEF TypeOK, FoundIsRead, StartupTimeout, Goto, Ended, daemonVars
<1>5. CASE Done \/ UNCHANGED vars
  BY <1>5 DEF TypeOK, FoundIsRead, Done, vars, daemonVars, commandVars
<1> QED
  BY <1>1, <1>2, <1>3, <1>4, <1>5 DEF Next

LEMMA TypeInit == Init => TypeInv
  BY LifecycleAssumption DEF Init, TypeInv, TypeOK, FoundIsRead

(* The types of all variables are kept (metadata.rs, client.rs, main.rs). *)
THEOREM TypeCorrect == Spec => []TypeOK
<1>1. TypeInv => TypeOK
  BY DEF TypeInv
<1> QED
  BY TypeInit, TypeStep, <1>1, PTL DEF Spec

-----------------------------------------------------------------------------
(* The file and the daemons                                                *)

(* Without a crash the file names a daemon that has written it and has not *)
(* left, and only a daemon that writes holds the file open.                *)
FileInv ==
    /\ \A d \in handles : life[d] = "writing"
    /\ crashes = 0 =>
        \A d \in Daemons :
            file = d => life[d] \in {"warming", "serving", "stopping"}

LEMMA FileStep == TypeInv /\ FileInv /\ [Next]_vars => FileInv'
<1> SUFFICES ASSUME TypeInv, FileInv, [Next]_vars
             PROVE  FileInv'
  OBVIOUS
<1> USE LifecycleAssumption DEF TypeInv, TypeOK, FileInv
<1>1. ASSUME NEW d \in Daemons, Daemon(d)
      PROVE  FileInv'
  <2>1. CASE Bind(d)
    BY <2>1 DEF Bind, Move
  <2>2. CASE OpenMetadata(d)
    BY <2>2 DEF OpenMetadata, Move
  <2>3. CASE WriteMetadata(d)
    BY <2>3 DEF WriteMetadata, Move
  <2>4. CASE Warmed(d)
    BY <2>4 DEF Warmed, Move
  <2>5. CASE LeaveLoop(d)
    BY <2>5 DEF LeaveLoop, Move
  <2>6. CASE CleanupAndExit(d)
    BY <2>6 DEF CleanupAndExit, Move, Unlink
  <2> QED
    BY <1>1, <2>1, <2>2, <2>3, <2>4, <2>5, <2>6 DEF Daemon
<1>2. ASSUME NEW d \in Daemons, Interrupt(d) \/ Crash(d)
      PROVE  FileInv'
  BY <1>2 DEF Interrupt, Move, Crash
<1>3. ASSUME NEW k \in Commands, Command(k)
      PROVE  FileInv'
  <2>1. CASE Spawn(k) \/ BecomeDaemon(k)
    BY <2>1 DEF Spawn, BecomeDaemon, Move
  <2>2. CASE RemoveStale(k)
    BY <2>2 DEF RemoveStale, Unlink, daemonVars
  <2>3. CASE Begin(k) \/ Load(k) \/ CheckPid(k) \/ Connect(k) \/ Answer(k)
    BY <2>3 DEF Begin, Load, CheckPid, Connect, Answer, daemonVars
  <2>4. CASE AckShutdown(k) \/ HangUp(k)
    BY <2>4 DEF AckShutdown, HangUp, daemonVars
  <2> QED
    BY <1>3, <2>1, <2>2, <2>3, <2>4 DEF Command
<1>4. ASSUME NEW k \in Commands, StartupTimeout(k)
      PROVE  FileInv'
  BY <1>4 DEF StartupTimeout, daemonVars
<1>5. CASE Done \/ UNCHANGED vars
  BY <1>5 DEF Done, vars, daemonVars
<1> QED
  BY <1>1, <1>2, <1>3, <1>4, <1>5 DEF Next

(* Without crashes no daemon that has ended is advertised, however many    *)
(* daemons write and unlink the file (server.rs run, metadata.rs).         *)
THEOREM CleanExitNeverAdvertised == Spec => []CleanExitIsNotAdvertised
<1>1. Init => FileInv
  BY LifecycleAssumption DEF Init, FileInv
<1>2. FileInv => CleanExitIsNotAdvertised
  BY DEF FileInv, CleanExitIsNotAdvertised
<1> QED
  BY TypeInit, TypeStep, FileStep, <1>1, <1>2, PTL DEF Spec

-----------------------------------------------------------------------------
(* How a command ends                                                      *)

(* An auto command does not poll and does not fail; a required one does    *)
(* not run alone.                                                          *)
EndInv ==
    \A k \in Commands :
        /\ kind[k] = "auto" =>
            pc[k] \notin {"failed", "timed-out", "poll", "poll-check",
                          "poll-remove"}
        /\ kind[k] = "required" => pc[k] # "one-shot"

LEMMA EndStep == TypeInv /\ EndInv /\ [Next]_vars => EndInv'
<1> SUFFICES ASSUME TypeInv, EndInv, [Next]_vars
             PROVE  EndInv'
  OBVIOUS
<1> USE LifecycleAssumption DEF TypeInv, TypeOK, EndInv
<1>1. ASSUME NEW d \in Daemons, Daemon(d) \/ Interrupt(d) \/ Crash(d)
      PROVE  EndInv'
  BY <1>1
     DEF Daemon, Interrupt, Crash, Bind, OpenMetadata, WriteMetadata, Warmed, LeaveLoop,
         CleanupAndExit, commandVars
<1>2. ASSUME NEW k \in Commands, Command(k)
      PROVE  EndInv'
  <2> USE DEF Goto
  <2>1. CASE Begin(k)
    BY <2>1 DEF Begin
  <2>2. CASE Load(k)
    BY <2>2 DEF Load, NotYet, NothingFound, LoadError
  <2>3. CASE CheckPid(k)
    BY <2>3 DEF CheckPid, LoadError
  <2>4. CASE RemoveStale(k)
    BY <2>4 DEF RemoveStale, NothingFound
  <2>5. CASE Spawn(k)
    BY <2>5 DEF Spawn
  <2>6. CASE BecomeDaemon(k)
    BY <2>6 DEF BecomeDaemon
  <2>7. CASE Connect(k)
    BY <2>7 DEF Connect, NoAnswer, LoadError
  <2>8. CASE Answer(k)
    BY <2>8 DEF Answer, NoAnswer, LoadError
  <2>9. CASE AckShutdown(k)
    BY <2>9 DEF AckShutdown
  <2>10. CASE HangUp(k)
    BY <2>10 DEF HangUp, NoAnswer, LoadError
  <2> QED
    BY <1>2, <2>1, <2>2, <2>3, <2>4, <2>5, <2>6, <2>7, <2>8, <2>9, <2>10
       DEF Command
<1>3. ASSUME NEW k \in Commands, StartupTimeout(k)
      PROVE  EndInv'
  BY <1>3 DEF StartupTimeout, Goto
<1>4. CASE Done \/ UNCHANGED vars
  BY <1>4 DEF Done, vars, commandVars
<1> QED
  BY <1>1, <1>2, <1>3, <1>4 DEF Next

LEMMA EndInit == Init => EndInv
  BY DEF Init, EndInv

(* No file, daemon or rival makes an auto command fail (main.rs            *)
(* try_daemon_client, try_daemon_scan).                                    *)
THEOREM AutoNeverEndsInError == Spec => []AutoNeverFails
<1>1. EndInv => AutoNeverFails
  BY DEF EndInv, AutoNeverFails
<1> QED
  BY TypeInit, TypeStep, EndInit, EndStep, <1>1, PTL DEF Spec

(* No failure makes a required command run alone (main.rs).                *)
THEOREM RequiredNeverAlone == Spec => []RequiredNeverOneShot
<1>1. EndInv => RequiredNeverOneShot
  BY DEF EndInv, RequiredNeverOneShot
<1> QED
  BY TypeInit, TypeStep, EndInit, EndStep, <1>1, PTL DEF Spec
=============================================================================
