------------------------------ MODULE Service ------------------------------
(***************************************************************************)
(* ConfigFile and Instances together: the processes the configuration file *)
(* is read into are those that share a log file and pass SIGHUP on.  The   *)
(* parent is the main instance, its n-th child instance n; a child is in   *)
(* child_pids from its fork, and can be signalled, long before it has      *)
(* closed the file and opened its log.                                     *)
(***************************************************************************)
EXTENDS Integers, Sequences

CONSTANTS Files, Block, FcloseSeeks, Sections, MaxRotations, MaxFailures, MaxExits

VARIABLES lines, offset, buffer, section, options, parsing,
          proc, child_pids, hup, log_reopen_pending, at, log_fd, file, rotated, asked, failed

F == INSTANCE ConfigFile WITH MaxForks <- Sections - 1
I == INSTANCE Instances

ASSUME FileAssumption == F!FileAssumption
ASSUME SectionsAssumption == I!SectionsAssumption

readers == <<lines, offset, buffer, section, options, parsing>>
instances == <<proc, child_pids, hup, log_reopen_pending, at, log_fd, file, rotated, asked, failed>>
vars == <<readers, instances>>

(* The instance a reader of the file becomes. *)
InstanceOf(r) == IF r = F!Parent THEN I!Main ELSE r
Alive(r) == ~I!Gone(InstanceOf(r))

(* The variables of both modules have their types.                         *)
TypeOK == F!TypeOK /\ I!TypeOK

Init == F!Init /\ I!Init

----------------------------------------------------------------------------
(* A header: fork, the child's inheritance, register_child_instance.       *)
Fork(child) == F!NextSection(child) /\ I!Fork(child)

(* The steps of one process before it has its configuration. *)
Parses ==
  /\ F!Fill \/ F!FirstSection \/ F!Option \/ F!Fails \/ F!EndOfFile
  /\ UNCHANGED instances
Leaves(child) == Alive(child) /\ F!Fclose(child) /\ UNCHANGED instances
Arguments(r) ==
  /\ Alive(r) /\ F!Arguments(r)
  /\ IF r = F!Parent THEN I!EndOfFile ELSE UNCHANGED instances

(* log_init and what follows come after parse_config. *)
Starts(r) ==
  /\ parsing[r] = "parsed"
  /\ I!LogInit(InstanceOf(r)) \/ I!InstallHandlers(InstanceOf(r))
  /\ UNCHANGED readers

(* The way into the main loop takes as long as DNS lets it; an instance    *)
(* may end at any time.                                                    *)
EntersLoop(i) == I!EntersLoop(i) /\ UNCHANGED readers
Exits(r) == parsing[r] = "parsed" /\ I!Exits(InstanceOf(r)) /\ UNCHANGED readers

Rotates == (I!Rotate \/ I!Reload) /\ UNCHANGED readers
Signal(i) == I!Signal(i) /\ UNCHANGED readers
Loop(i) == I!Loop(i) /\ UNCHANGED readers

Children == 1 .. Sections - 1

Next ==
  \/ Parses \/ Rotates
  \/ \E c \in Children : Fork(c) \/ Leaves(c)
  \/ \E r \in F!Reader : Arguments(r) \/ Starts(r) \/ Exits(r)
  \/ \E i \in I!Instance : EntersLoop(i) \/ Signal(i) \/ Loop(i)

(* As in Instances: every process runs and is sent what is pending.        *)
Spec == /\ Init /\ [][Next]_vars
        /\ WF_vars(Parses) /\ \A c \in Children : WF_vars(Fork(c)) /\ WF_vars(Leaves(c))
        /\ \A r \in F!Reader : WF_vars(Arguments(r)) /\ WF_vars(Starts(r))
        /\ \A i \in I!Instance : WF_vars(Signal(i)) /\ WF_vars(Loop(i))

----------------------------------------------------------------------------
(* Properties.                                                             *)

(* Every instance has the options of its section, see ConfigFile.          *)
OwnOptions == F!OwnOptions

(* Every section has one instance, see ConfigFile.                         *)
EverySectionOnce == F!EverySectionOnce

(* No request to reopen the log is lost on its way, see Instances.         *)
NoReloadLost == I!NoReloadLost

(* One signal to the main process reaches every instance, see Instances,   *)
(* also while the instances are still parsing or starting.                 *)
ReloadReachesAll == I!ReloadReachesAll

(* The signals the processes pass on die out, see Instances.               *)
SignalsSettle == I!SignalsSettle
=============================================================================
