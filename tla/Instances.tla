----------------------------- MODULE Instances -----------------------------
(***************************************************************************)
(* The processes of one configuration file and what SIGHUP does to them.   *)
(* Every section but the last is served by a forked process; the process   *)
(* the service manager knows parses the whole file, remembers the others   *)
(* in child_pids, serves the last section and passes SIGHUP on.  A child   *)
(* inherits the list as it was when it was forked, so it passes a signal   *)
(* on to the instances of the sections before its own.                     *)
(*                                                                         *)
(* The log file is the sections' common resource: logrotate renames it and *)
(* has every process reopen it.  A file is known by its generation.        *)
(***************************************************************************)
EXTENDS Integers, FiniteSets

CONSTANTS Sections,               \* number of sections of the file
          MaxRotations,           \* bounds of the model only: how often the log is rotated,
          MaxFailures, MaxExits   \* whose open() may fail later on, how many may exit

(* Assumed of the constants, by the module that gives them their values. *)
SectionsAssumption ==
  /\ Sections \in Nat \ {0} /\ MaxRotations \in Nat
  /\ MaxFailures \in Nat /\ MaxExits \in Nat

Instance == 1 .. Sections
Main == Sections

VARIABLES proc,          \* "unborn", "parsed", "logging" (log_init done), "starting" (signal()
                         \* called), "up" (main loop), "killed" by a signal, "exited"
          child_pids,    \* the instances a process passes SIGHUP on to
          hup,           \* SIGHUP is pending (signals of one kind do not queue)
          log_reopen_pending,
          at,            \* in the main loop: "top", "reopen" (flag taken), "wait"
          log_fd,        \* generation of the file a process writes to, 0 before log_init
          file,          \* generation of the file at the configured path
          rotated,       \* logrotate has renamed the file and not yet signalled
          asked,         \* ghost: generation every instance was last asked to reopen
          failed         \* ghost: what an instance was asked when its open() last failed
vars == <<proc, child_pids, hup, log_reopen_pending, at, log_fd, file, rotated, asked, failed>>

Gone(i) == proc[i] \in {"killed", "exited"}
Handles(i) == proc[i] \in {"starting", "up"}      \* has its handler of SIGHUP

loop == <<log_reopen_pending, at>>
logs == <<file, rotated, asked>>

(* Every variable has its type and no process writes to a file that is not *)
(* there.                                                                  *)
TypeOK ==
  /\ proc \in [Instance -> {"unborn", "parsed", "logging", "starting", "up", "killed", "exited"}]
  /\ child_pids \in [Instance -> SUBSET Instance]
  /\ hup \in [Instance -> BOOLEAN] /\ log_reopen_pending \in [Instance -> BOOLEAN]
  /\ at \in [Instance -> {"top", "reopen", "wait"}]
  /\ file \in 1 .. MaxRotations + 1 /\ asked \in 0 .. file
  /\ rotated \in BOOLEAN /\ failed \in [Instance -> 0 .. asked]
  /\ log_fd \in [Instance -> 0 .. file]
  /\ \A i \in Instance : proc[i] \in {"logging", "starting", "up"} => log_fd[i] > 0

(* The process that parses the file is Main. *)
Init ==
  /\ proc = [i \in Instance |-> "unborn"]
  /\ child_pids = [i \in Instance |-> {}]
  /\ hup = [i \in Instance |-> FALSE] /\ log_reopen_pending = hup
  /\ at = [i \in Instance |-> "top"]
  /\ log_fd = [i \in Instance |-> 0]
  /\ file = 1 /\ rotated = FALSE /\ asked = 0 /\ failed = log_fd

----------------------------------------------------------------------------
(* Startup.                                                                *)

(* Mutant of Fork: the list is shared with the child, itself included. *)
ForkShared(i) ==
  /\ proc[Main] = "unborn" /\ i # Main /\ proc[i] = "unborn"
  /\ \A j \in 1 .. i - 1 : proc[j] # "unborn"
  /\ proc' = [proc EXCEPT ![i] = "parsed"]
  /\ child_pids' = [j \in Instance |-> IF j \in {i, Main} THEN child_pids[Main] \cup {i}
                                       ELSE child_pids[j]]
  /\ UNCHANGED <<hup, loop, log_fd, logs, failed>>

(* Mutant of Fork: the parent remembers its latest child only. *)
ForkLatest(i) ==
  /\ proc[Main] = "unborn" /\ i # Main /\ proc[i] = "unborn"
  /\ \A j \in 1 .. i - 1 : proc[j] # "unborn"
  /\ proc' = [proc EXCEPT ![i] = "parsed"]
  /\ child_pids' = [child_pids EXCEPT ![i] = child_pids[Main], ![Main] = {i}]
  /\ UNCHANGED <<hup, loop, log_fd, logs, failed>>

(* The header of section i + 1: a child takes section i, and only then is  *)
(* its pid registered.                                                     *)
Fork(i) ==
  /\ proc[Main] = "unborn" /\ i # Main /\ proc[i] = "unborn"
  /\ \A j \in 1 .. i - 1 : proc[j] # "unborn"
  /\ proc' = [proc EXCEPT ![i] = "parsed"]
  /\ child_pids' = [child_pids EXCEPT ![i] = child_pids[Main], ![Main] = @ \cup {i}]
  /\ UNCHANGED <<hup, loop, log_fd, logs, failed>>

EndOfFile ==
  /\ proc[Main] = "unborn" /\ \A i \in Instance \ {Main} : proc[i] # "unborn"
  /\ proc' = [proc EXCEPT ![Main] = "parsed"]
  /\ UNCHANGED <<child_pids, hup, loop, log_fd, logs, failed>>

(* log_init: an instance that cannot open its log file does not start, see *)
(* Exits.                                                                  *)
LogInit(i) ==
  /\ proc[i] = "parsed"
  /\ proc' = [proc EXCEPT ![i] = "logging"]
  /\ log_fd' = [log_fd EXCEPT ![i] = file]
  /\ UNCHANGED <<child_pids, hup, loop, logs, failed>>

InstallHandlers(i) ==
  /\ proc[i] = "logging"
  /\ proc' = [proc EXCEPT ![i] = "starting"]
  /\ UNCHANGED <<child_pids, hup, loop, log_fd, logs, failed>>

(* The sockets are bound and the names of target and bindings resolved.    *)
(* With resolve-interval a lookup is repeated until it succeeds, which may *)
(* be never: the loop of resolve_hostname_startup looks at no flag.        *)
EntersLoop(i) ==
  /\ proc[i] = "starting"
  /\ proc' = [proc EXCEPT ![i] = "up"]
  /\ UNCHANGED <<child_pids, hup, loop, log_fd, logs, failed>>

(* A setting that does not do, a log file that cannot be opened, a port in *)
(* use, a name that does not resolve; later SIGTERM, or poll that fails.   *)
(* A signal still pending goes with the process.                           *)
Exits(i) ==
  /\ proc[i] \in {"parsed", "logging", "starting", "up"}
  /\ Cardinality({j \in Instance : proc[j] = "exited"}) < MaxExits
  /\ proc' = [proc EXCEPT ![i] = "exited"]
  /\ hup' = [hup EXCEPT ![i] = FALSE]
  /\ UNCHANGED <<child_pids, loop, log_fd, logs, failed>>

----------------------------------------------------------------------------
(* logrotate renames the file; its postrotate script reloads the service,  *)
(* which signals the main process once that one has its handler.           *)
Rotate ==
  /\ file <= MaxRotations /\ ~rotated
  /\ file' = file + 1 /\ rotated' = TRUE
  /\ UNCHANGED <<proc, child_pids, hup, loop, log_fd, asked, failed>>

Reload ==
  /\ rotated /\ Handles(Main)
  /\ rotated' = FALSE /\ asked' = file
  /\ hup' = [hup EXCEPT ![Main] = TRUE]
  /\ UNCHANGED <<proc, child_pids, loop, log_fd, file, failed>>

----------------------------------------------------------------------------
(* Mutant of Deliver: the handler does not pass the signal on. *)
DeliverHere(i) ==
  /\ hup[i] /\ Handles(i)
  /\ log_reopen_pending' = [log_reopen_pending EXCEPT ![i] = TRUE]
  /\ hup' = [hup EXCEPT ![i] = FALSE]
  /\ \E here \in IF at[i] = "wait" THEN {"wait", "top"} ELSE {at[i]} :
       at' = [at EXCEPT ![i] = here]
  /\ UNCHANGED <<proc, child_pids, log_fd, logs, failed>>

(* sighup_handler.  A wait it interrupts ends with EINTR; one that had not *)
(* begun yet is not interrupted.  An instance that is gone has not been    *)
(* waited for and keeps its pid: kill() reaches nobody.                    *)
Deliver(i) ==
  /\ hup[i] /\ Handles(i)
  /\ log_reopen_pending' = [log_reopen_pending EXCEPT ![i] = TRUE]
  /\ hup' = [j \in Instance |-> (hup[j] /\ j # i) \/ (j \in child_pids[i] /\ ~Gone(j))]
  /\ \E here \in IF at[i] = "wait" THEN {"wait", "top"} ELSE {at[i]} :
       at' = [at EXCEPT ![i] = here]
  /\ UNCHANGED <<proc, child_pids, log_fd, logs, failed>>

(* Before signal() is called SIGHUP terminates the process. *)
DefaultAction(i) ==
  /\ hup[i] /\ proc[i] \in {"parsed", "logging"}
  /\ proc' = [proc EXCEPT ![i] = "killed"]
  /\ hup' = [hup EXCEPT ![i] = FALSE]
  /\ UNCHANGED <<child_pids, loop, log_fd, logs, failed>>

(* The top of the main loop: the flag is cleared before the file is opened. *)
LoopTop(i) ==
  /\ proc[i] = "up" /\ at[i] = "top"
  /\ at' = [at EXCEPT ![i] = IF log_reopen_pending[i] THEN "reopen" ELSE "wait"]
  /\ log_reopen_pending' = [log_reopen_pending EXCEPT ![i] = FALSE]
  /\ UNCHANGED <<proc, child_pids, hup, log_fd, logs, failed>>

(* Mutant of LogReopen: the old descriptor is closed before the new is open. *)
LogReopenClosing(i) ==
  /\ proc[i] = "up" /\ at[i] = "reopen"
  /\ at' = [at EXCEPT ![i] = "wait"]
  /\ \/ log_fd' = [log_fd EXCEPT ![i] = file] /\ UNCHANGED failed
     \/ /\ i \in 1 .. MaxFailures
        /\ failed' = [failed EXCEPT ![i] = asked] /\ log_fd' = [log_fd EXCEPT ![i] = 0]
  /\ UNCHANGED <<proc, child_pids, hup, log_reopen_pending, logs>>

(* log_reopen keeps the old descriptor when open() fails. *)
LogReopen(i) ==
  /\ proc[i] = "up" /\ at[i] = "reopen"
  /\ at' = [at EXCEPT ![i] = "wait"]
  /\ \/ log_fd' = [log_fd EXCEPT ![i] = file] /\ UNCHANGED failed
     \/ i \in 1 .. MaxFailures /\ failed' = [failed EXCEPT ![i] = asked] /\ UNCHANGED log_fd
  /\ UNCHANGED <<proc, child_pids, hup, log_reopen_pending, logs>>

(* Packets, or POLL_TIMEOUT at the latest. *)
WaitEnds(i) ==
  /\ proc[i] = "up" /\ at[i] = "wait"
  /\ at' = [at EXCEPT ![i] = "top"]
  /\ UNCHANGED <<proc, child_pids, hup, log_reopen_pending, log_fd, logs, failed>>

----------------------------------------------------------------------------
Start(i) == LogInit(i) \/ InstallHandlers(i)
Signal(i) == Deliver(i) \/ DefaultAction(i)
Loop(i) == LoopTop(i) \/ LogReopen(i) \/ WaitEnds(i)

Next ==
  \/ \E i \in Instance : Fork(i)
  \/ EndOfFile
  \/ \E i \in Instance : LogInit(i) \/ InstallHandlers(i) \/ EntersLoop(i) \/ Exits(i)
  \/ Rotate \/ Reload
  \/ \E i \in Instance : Deliver(i) \/ DefaultAction(i)
  \/ \E i \in Instance : LoopTop(i) \/ LogReopen(i) \/ WaitEnds(i)

(* The kernel runs every process and delivers what is pending; epoll_wait  *)
(* has a timeout.  Nothing is assumed of logrotate, nor of the lookups     *)
(* between signal() and the main loop: EntersLoop has no fairness.         *)
Spec == /\ Init /\ [][Next]_vars
        /\ \A i \in Instance : WF_vars(Start(i)) /\ WF_vars(Signal(i)) /\ WF_vars(Loop(i))

----------------------------------------------------------------------------
(* Properties.                                                             *)

(* An instance has done what logrotate last asked for: it writes to the    *)
(* file of that time or a later one, or the open() it tried for this very  *)
(* request has failed.  Nothing is asked of an instance that is gone, and  *)
(* nobody passes a request on when the main process is.                    *)
Reopened(i) == log_fd[i] >= asked \/ failed[i] = asked \/ Gone(i) \/ Gone(Main)

(* A request to reopen is never lost.  While an instance has not done it,  *)
(* the signal is with the main process or with the instance, the flag is   *)
(* set, or the loop has taken it; or the instance has still to open its    *)
(* log for the first time.                                                 *)
ReopenUnderWay(i) ==
  hup[Main] \/ hup[i] \/ log_reopen_pending[i] \/ at[i] = "reopen" \/ proc[i] = "parsed"
NoReloadLost == \A i \in Instance : ~Reopened(i) => ReopenUnderWay(i)

(* README.md: one signal to the main process is enough.  Whenever it is    *)
(* sent, even while an earlier one is being worked off, every instance     *)
(* comes to have done what was asked.  But for the instance that never     *)
(* gets through its startup lookups: it keeps the flag and the old file.   *)
ReloadReachesAll ==
  \A i \in Instance : <>[](proc[i] = "starting") \/ []<>Reopened(i)

(* The lists of the processes hold earlier sections only: a signal that is *)
(* passed on, and on again, dies out.                                      *)
SignalsSettle == <>[](\A i \in Instance : ~hup[i])

(* README.md: one SIGHUP to the main process has every instance reopen its *)
(* log.  An instance that has not called signal() yet is terminated by it. *)
ReloadKillsNobody == \A i \in Instance : proc[i] # "killed"
=============================================================================
