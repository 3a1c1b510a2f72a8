--------------------------- MODULE DaemonLifecycle ---------------------------
(***************************************************************************)
(* Daemon processes and the commands that look for them, through one file: *)
(* node_modules/.cache/pruneguard/daemon.json.  Nothing locks it.  A       *)
(* daemon writes it in place when its port is bound and unlinks it when it *)
(* leaves; a command reads it, asks the system whether the process it      *)
(* names is alive, and unlinks it if not.                                  *)
(*                                                                         *)
(* A daemon is its process: its identity stands for pid, port and token.   *)
(* The life of a daemon between its bind and its exit is the variable main *)
(* of DaemonServer.                                                        *)
(***************************************************************************)
EXTENDS Naturals, FiniteSets

CONSTANTS
    Daemons,        \* processes that may become a daemon
    Commands,       \* command invocations
    Outdated,       \* daemons of another version of pruneguard
    Interruptible,  \* bound: daemons that may get a SIGINT as they serve
    MaxCrashes,     \* bound: daemons killed in a behaviour
    None            \* no daemon

(* What a command invocation runs *)
Kinds == {"auto", "required", "status", "stop", "restart", "start"}

ASSUME LifecycleAssumption ==
    /\ Outdated \subseteq Daemons /\ Interruptible \subseteq Daemons
    /\ MaxCrashes \in Nat
    /\ Daemons \cap {None, "absent", "unreadable"} = {}

VARIABLES
    file,     \* daemon.json: "absent", "unreadable" (truncated), or a daemon
    handles,  \* daemons whose open handle is on that file
    life,     \* where each daemon is
    asked,    \* daemons with a shutdown request
    crashes,
    kind,     \* what each command runs
    pc,       \* where each command is
    found,    \* the daemon a command has read or connected to
    spawned   \* the daemon a command has started

daemonVars == <<life, asked, crashes>>
commandVars == <<kind, pc, found, spawned>>
vars == <<file, handles, daemonVars, commandVars>>

Alive(d) == life[d] \notin {"unborn", "dead"}
Listening(d) == life[d] \in {"bound", "writing", "warming", "serving",
                             "stopping"}
Ended == {"by-daemon", "one-shot", "ok", "failed", "timed-out"}

(* A project in which nothing runs, or a daemon serves and says so. *)
Init ==
    /\ \E d \in Daemons \cup {None} :
        /\ life = [e \in Daemons |-> IF e = d THEN "serving" ELSE "unborn"]
        /\ file = IF d = None THEN "absent" ELSE d
    /\ handles = {}
    /\ asked = {} /\ crashes = 0
    /\ kind \in [Commands -> Kinds]
    /\ pc = [k \in Commands |-> "begin"]
    /\ found = [k \in Commands |-> None]
    /\ spawned = [k \in Commands |-> None]

Unlink == file' = "absent" /\ handles' = {}

-----------------------------------------------------------------------------
(* A daemon                                                                *)

Move(d, from, to) == life[d] = from /\ life' = [life EXCEPT ![d] = to]

(* load_config_or_default, TcpListener::bind; both may fail *)
Bind(d) ==
    /\ Move(d, "born", "bound") \/ Move(d, "born", "dead")
    /\ UNCHANGED <<file, handles, asked, crashes, commandVars>>

(* DaemonMetadata::write is fs::write: the file is truncated, or created, *)
(* and then written.                                                      *)
OpenMetadata(d) ==
    /\ Move(d, "bound", "writing")
    /\ file' = "unreadable"
    /\ handles' = handles \cup {d}
    /\ UNCHANGED <<asked, crashes, commandVars>>

(* What is written after an unlink goes to a file nobody finds; what is    *)
(* written over a longer text of another daemon leaves the end of that.    *)
WriteMetadata(d) ==
    /\ Move(d, "writing", "warming")
    /\ IF d \in handles
       THEN file' = d \/ (file \in Daemons /\ file' = "unreadable")
       ELSE UNCHANGED file
    /\ handles' = handles \ {d}
    /\ UNCHANGED <<asked, crashes, commandVars>>

Warmed(d) ==
    /\ Move(d, "warming", "serving")
    /\ UNCHANGED <<file, handles, asked, crashes, commandVars>>

LeaveLoop(d) ==
    /\ d \in asked
    /\ Move(d, "serving", "stopping")
    /\ UNCHANGED <<file, handles, asked, crashes, commandVars>>

(* The accept loop's branch for a SIGINT leaves it by the same way out. *)
Interrupt(d) ==
    /\ d \in Interruptible
    /\ Move(d, "serving", "stopping")
    /\ UNCHANGED <<file, handles, asked, crashes, commandVars>>

(* Mutant of CleanupAndExit: the daemon leaves the file behind. *)
ExitOnly(d) ==
    /\ Move(d, "stopping", "dead")
    /\ UNCHANGED <<file, handles, asked, crashes, commandVars>>

(* DaemonMetadata::cleanup removes the file whoever wrote it. *)
CleanupAndExit(d) ==
    /\ Move(d, "stopping", "dead")
    /\ Unlink
    /\ UNCHANGED <<asked, crashes, commandVars>>

(* Killed (a SIGINT kills a daemon that does not serve yet), or gone because *)
(* a write or the watcher's start failed.                                    *)
Crash(d) ==
    /\ crashes < MaxCrashes
    /\ Alive(d)
    /\ life' = [life EXCEPT ![d] = "dead"]
    /\ handles' = handles \ {d}
    /\ crashes' = crashes + 1
    /\ UNCHANGED <<file, asked, commandVars>>

Daemon(d) ==
    \/ Bind(d) \/ OpenMetadata(d) \/ WriteMetadata(d) \/ Warmed(d)
    \/ LeaveLoop(d) \/ CleanupAndExit(d)

-----------------------------------------------------------------------------
(* DaemonMetadata::load, in the steps another process can get between.     *)
(* Each command says what it does with the result:                         *)
(*   Ok(Some), Ok(None) and Err.                                           *)

Goto(k, to) == pc' = [pc EXCEPT ![k] = to]

NothingFound(k) ==
    CASE kind[k] \in {"auto", "required"} -> "spawn"
      [] kind[k] = "restart" -> "become"
      [] OTHER -> "failed"

(* Mutant of LoadError: a required command falls back like an auto one. *)
AlwaysFallBack(k) ==
    CASE kind[k] \in {"auto", "required"} -> "one-shot"
      [] kind[k] = "restart" -> "become"
      [] OTHER -> "failed"

(* Mutant of LoadError: an auto command takes the error for its own. *)
PropagateError(k) ==
    CASE kind[k] = "restart" -> "become"
      [] OTHER -> "failed"

LoadError(k) ==
    CASE kind[k] = "auto" -> "one-shot"
      [] kind[k] = "restart" -> "become"
      [] OTHER -> "failed"

Begin(k) ==
    /\ pc[k] = "begin"
    /\ Goto(k, IF kind[k] = "start" THEN "become" ELSE "load")
    /\ UNCHANGED <<file, handles, daemonVars, kind, found, spawned>>

(* A command that polls for the daemon it spawned loads in a loop. *)
NotYet(k) == IF pc[k] = "poll" THEN "poll" ELSE NothingFound(k)

(* Mutant of Load: a file that does not parse passes for a daemon. *)
LoadUnparsed(k) ==
    /\ pc[k] \in {"load", "poll"}
    /\ IF file # "absent"
       THEN /\ found' = [found EXCEPT ![k] = file]
            /\ Goto(k, IF pc[k] = "poll" THEN "poll-check" ELSE "check")
       ELSE Goto(k, NotYet(k)) /\ UNCHANGED found
    /\ UNCHANGED <<file, handles, daemonVars, kind, spawned>>

Load(k) ==
    /\ pc[k] \in {"load", "poll"}
    /\ IF file \in Daemons
       THEN /\ found' = [found EXCEPT ![k] = file]
            /\ Goto(k, IF pc[k] = "poll" THEN "poll-check" ELSE "check")
       ELSE /\ Goto(k, IF file = "absent" THEN NotYet(k) ELSE LoadError(k))
            /\ UNCHANGED found
    /\ UNCHANGED <<file, handles, daemonVars, kind, spawned>>

(* kill -0 also succeeds for the zombie of a daemon whose parent has not   *)
(* waited for it, which no command does, and for a process with its pid.   *)
PidExists(d) == {TRUE, Alive(d)}

(* A dead pid's file is cleaned up.  The client then compares versions,    *)
(* which stop and restart do not.                                          *)
CheckPid(k) ==
    /\ pc[k] \in {"check", "poll-check"}
    /\ \E exists \in PidExists(found[k]) :
        Goto(k, IF ~exists
                THEN IF pc[k] = "check" THEN "remove" ELSE "poll-remove"
                ELSE IF /\ found[k] \in Outdated
                        /\ kind[k] \notin {"stop", "restart"}
                     THEN LoadError(k)
                     ELSE "connect")
    /\ UNCHANGED <<file, handles, daemonVars, kind, found, spawned>>

RemoveStale(k) ==
    /\ pc[k] \in {"remove", "poll-remove"}
    /\ Unlink
    /\ Goto(k, IF pc[k] = "remove" THEN NothingFound(k) ELSE "poll")
    /\ UNCHANGED <<daemonVars, kind, found, spawned>>

(* auto_start: spawning is best effort in auto mode, and the command goes  *)
(* on alone; a required command waits for the file.                        *)
Spawn(k) ==
    /\ pc[k] = "spawn"
    /\ \/ /\ \E d \in Daemons \ Outdated :
              /\ Move(d, "unborn", "born")
              /\ spawned' = [spawned EXCEPT ![k] = d]
          /\ Goto(k, IF kind[k] = "auto" THEN "one-shot" ELSE "poll")
       \/ /\ Goto(k, IF kind[k] = "auto" THEN "one-shot" ELSE "failed")
          /\ UNCHANGED <<life, spawned>>
    /\ UNCHANGED <<file, handles, asked, crashes, kind, found>>

(* Mutant of StartupTimeout: the command waits on a daemon that has ended. *)
TimeoutOfLiving(k) ==
    /\ pc[k] = "poll"
    /\ Alive(spawned[k])
    /\ Goto(k, "timed-out")
    /\ UNCHANGED <<file, handles, daemonVars, kind, found, spawned>>

(* connect_or_start gives up five seconds after the spawn. *)
StartupTimeout(k) ==
    /\ pc[k] = "poll"
    /\ Goto(k, "timed-out")
    /\ UNCHANGED <<file, handles, daemonVars, kind, found, spawned>>

(* daemon start, and daemon restart after it has asked the old one to      *)
(* leave: the command's own process becomes the daemon.                    *)
BecomeDaemon(k) ==
    /\ pc[k] = "become"
    /\ \E d \in Daemons \ Outdated :
        /\ Move(d, "unborn", "born")
        /\ spawned' = [spawned EXCEPT ![k] = d]
    /\ Goto(k, "ok")
    /\ UNCHANGED <<file, handles, asked, crashes, kind, found>>

-----------------------------------------------------------------------------
(* send_request and send_daemon_shutdown                                   *)

(* What the command makes of a daemon that cannot be reached, that hangs   *)
(* up, or that answers with an error (a cold index).  daemon status says   *)
(* so and succeeds.  A response of another kind than asked for, which the  *)
(* handlers turn into a fallback of both modes, is not one a daemon of the *)
(* same version gives.                                                     *)
NoAnswer(k) == IF kind[k] = "status" THEN "ok" ELSE LoadError(k)

Connect(k) ==
    /\ pc[k] = "connect"
    /\ Goto(k, IF Listening(found[k]) THEN "request" ELSE NoAnswer(k))
    /\ UNCHANGED <<file, handles, daemonVars, kind, found, spawned>>

(* The query commands get a result or an error, status its figures. *)
Answer(k) ==
    /\ pc[k] = "request"
    /\ life[found[k]] = "serving"
    /\ \/ kind[k] \in {"auto", "required"} /\ Goto(k, "by-daemon")
       \/ kind[k] \in {"auto", "required", "status"} /\ Goto(k, NoAnswer(k))
    /\ UNCHANGED <<file, handles, daemonVars, kind, found, spawned>>

(* Shutdown is acknowledged before the daemon has even left its loop. *)
AckShutdown(k) ==
    /\ pc[k] = "request"
    /\ life[found[k]] = "serving"
    /\ kind[k] \in {"stop", "restart"}
    /\ asked' = asked \cup {found[k]}
    /\ Goto(k, IF kind[k] = "stop" THEN "ok" ELSE "become")
    /\ UNCHANGED <<file, handles, life, crashes, kind, found, spawned>>

(* The daemon ends with the connection open.  For a shutdown the closed    *)
(* connection may be as good as the acknowledgement.                       *)
HangUp(k) ==
    /\ pc[k] = "request"
    /\ ~Alive(found[k])
    /\ Goto(k, NoAnswer(k)) \/ (kind[k] = "stop" /\ Goto(k, "ok"))
    /\ UNCHANGED <<file, handles, daemonVars, kind, found, spawned>>

Command(k) ==
    \/ Begin(k) \/ Load(k) \/ CheckPid(k) \/ RemoveStale(k) \/ Spawn(k)
    \/ BecomeDaemon(k) \/ Connect(k) \/ Answer(k) \/ AckShutdown(k)
    \/ HangUp(k)

Done ==
    /\ \A k \in Commands : pc[k] \in Ended \cup {"become"}
    /\ UNCHANGED vars

Next ==
    \/ \E d \in Daemons : Daemon(d) \/ Interrupt(d) \/ Crash(d)
    \/ \E k \in Commands : Command(k) \/ StartupTimeout(k)
    \/ Done

Spec == Init /\ [][Next]_vars

(* Processes that can take a step take it, and five seconds pass.  Nothing *)
(* is promised of crashes and signals.                                     *)
Fairness ==
    /\ \A d \in Daemons : WF_vars(Daemon(d))
    /\ \A k \in Commands : WF_vars(Command(k)) /\ SF_vars(StartupTimeout(k))

FairSpec == Spec /\ Fairness

-----------------------------------------------------------------------------
(* Types of the state of metadata.rs, client.rs and the CLI's commands *)
TypeOK ==
    /\ file \in {"absent", "unreadable"} \cup Daemons
    /\ handles \subseteq Daemons
    /\ life \in [Daemons -> {"unborn", "born", "bound", "writing", "warming",
                             "serving", "stopping", "dead"}]
    /\ asked \subseteq Daemons /\ crashes \in 0..MaxCrashes
    /\ kind \in [Commands -> Kinds]
    /\ pc \in [Commands -> {"begin", "load", "check", "remove", "spawn",
                            "poll", "poll-check", "poll-remove", "become",
                            "connect", "request"} \cup Ended]
    /\ found \in [Commands -> Daemons \cup {None}]
    /\ spawned \in [Commands -> Daemons \cup {None}]

(* An auto command never ends in an error of the daemon's: whatever file,  *)
(* daemon and rivals do, it runs one-shot or gets its answer               *)
(* (docs/operational.md:23, try_daemon_client and try_daemon_scan).        *)
AutoNeverFails ==
    \A k \in Commands : kind[k] = "auto" => pc[k] \notin {"failed", "timed-out"}

(* A required command never quietly runs one-shot (main.rs's required      *)
(* branches).                                                              *)
RequiredNeverOneShot ==
    \A k \in Commands : kind[k] = "required" => pc[k] # "one-shot"

(* A daemon that left through its cleanup is not advertised, also when     *)
(* others wrote and removed the file meanwhile (server.rs run, metadata.rs *)
(* cleanup).                                                               *)
CleanExitIsNotAdvertised ==
    \A d \in Daemons : life[d] = "dead" /\ crashes = 0 => file # d

(* Every command ends: the polling of a required one is bounded by its     *)
(* deadline, and a request by the life of the daemon (client.rs            *)
(* connect_or_start, send_request).                                        *)
EveryCommandEnds ==
    \A k \in Commands : <>(pc[k] \in Ended \cup {"become"})

(* "Information written to daemon.json while the daemon is running"        *)
(* (metadata.rs:5): the one daemon there is, when it serves and nobody has *)
(* asked it to leave, can be found.                                        *)
ServingIsAdvertised ==
    \A d \in Daemons :
        /\ life[d] = "serving" /\ d \notin asked
        /\ \A e \in Daemons \ {d} : ~Alive(e)
        => file = d
=============================================================================
