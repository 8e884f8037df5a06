---------------------------- MODULE ServiceProofs ----------------------------
(***************************************************************************)
(* Service implements ConfigFile: nothing the running instances do touches *)
(* what parent and children know of the file.  So what ConfigFileProofs    *)
(* has of the file holds of the whole service, signals included.           *)
(* The second half is about the instances: no request to reopen the log is *)
(* lost, which rests on what the lists of pids hold (Lists).               *)
(***************************************************************************)
EXTENDS Service, TLAPS

P == INSTANCE ConfigFileProofs WITH MaxForks <- Sections - 1

LEMMA SameAssumption == P!FileAssumption
BY FileAssumption DEF P!FileAssumption, F!FileAssumption, P!Line, F!Line

LEMMA SameInit == Init => P!Init
BY DEF Init, F!Init, P!Init, F!Reader, P!Reader, F!Parent, P!Parent, F!BeforeFile, P!BeforeFile

(* A step of the service is a step of the readers, or leaves them alone. *)
LEMMA SameNext == [Next]_vars => [P!Next]_P!vars
<1>. SUFFICES ASSUME [Next]_vars PROVE [P!Next]_P!vars
  OBVIOUS
<1>. USE DEF F!Reader, P!Reader, F!Parent, P!Parent
<1>1. CASE Parses
  <2>1. CASE F!Fill
    BY <2>1 DEF F!Fill, P!Fill, P!Next
  <2>2. CASE F!FirstSection
    BY <2>2 DEF F!FirstSection, P!FirstSection, P!Next, F!Reading, P!Reading, F!Unread, P!Unread
  <2>3. CASE F!Option
    BY <2>3 DEF F!Option, P!Option, P!Next, F!Reading, P!Reading, F!Unread, P!Unread
  <2>4. CASE F!Fails
    BY <2>4 DEF F!Fails, P!Fails, P!Next, F!Reading, P!Reading
  <2>5. CASE F!EndOfFile
    BY <2>5 DEF F!EndOfFile, P!EndOfFile, P!Next
  <2>. QED BY <1>1, <2>1, <2>2, <2>3, <2>4, <2>5 DEF Parses
<1>2. ASSUME NEW c \in Children, Fork(c) PROVE P!Next
  <2>1. c \in P!Reader /\ c # P!Parent
    BY SectionsAssumption DEF Children, I!SectionsAssumption
  <2>2. P!NextSection(c)
    BY <1>2 DEF Fork, F!NextSection, P!NextSection, F!Reading, P!Reading, F!Unread, P!Unread
  <2>. QED BY <2>1, <2>2 DEF P!Next
<1>3. ASSUME NEW c \in Children, Leaves(c) PROVE P!Next
  <2>1. c \in P!Reader /\ c # P!Parent
    BY SectionsAssumption DEF Children, I!SectionsAssumption
  <2>2. P!Fclose(c)
    BY <1>3 DEF Leaves, F!Fclose, P!Fclose
  <2>. QED BY <2>1, <2>2 DEF P!Next
<1>4. ASSUME NEW r \in F!Reader, Arguments(r) PROVE P!Next
  BY <1>4 DEF Arguments, F!Arguments, P!Arguments, F!AfterFile, P!AfterFile, P!Next
<1>5. CASE UNCHANGED readers
  BY <1>5 DEF readers, P!vars
<1>. QED BY <1>1, <1>2, <1>3, <1>4, <1>5
  DEF Next, vars, Rotates, Starts, EntersLoop, Exits, Signal, Loop

LEMMA SameProperty ==
  /\ P!EverySectionOnce => EverySectionOnce
  /\ P!OwnOptions => OwnOptions
  /\ P!TypeOK => F!TypeOK
<1>1. P!EverySectionOnce => EverySectionOnce
  BY DEF EverySectionOnce, F!EverySectionOnce, P!EverySectionOnce, F!Reader, P!Reader, F!Parent,
         P!Parent, F!Header, P!Header
<1>2. P!OwnOptions => OwnOptions
  BY DEF OwnOptions, F!OwnOptions, P!OwnOptions, F!Reader, P!Reader, F!Section, P!Section,
         F!Header, P!Header, F!Settings, P!Settings, F!AfterFile, P!AfterFile,
         F!BeforeFile, P!BeforeFile
<1>3. P!TypeOK => F!TypeOK
  BY DEF F!TypeOK, P!TypeOK, F!Reader, P!Reader
<1>. QED BY <1>1, <1>2, <1>3

(* Where fclose() leaves the offset of the file alone, every section of    *)
(* every file has one instance, whatever signals the instances get while   *)
(* their siblings are still being forked.                                  *)
THEOREM ServiceServesSectionsOnce ==
  ASSUME ~FcloseSeeks PROVE Spec => []EverySectionOnce
<1>1. P!Spec => []P!EverySectionOnce
  BY SameAssumption, P!SectionsServedOnce
<1>. QED BY <1>1, SameInit, SameNext, SameProperty, PTL DEF Spec, P!Spec

(* And every instance has the options of its own section, all of them and  *)
(* in order, and the arguments behind -c.                                  *)
THEOREM ServiceKeepsOptionsApart ==
  ASSUME ~FcloseSeeks PROVE Spec => []OwnOptions
<1>1. P!Spec => []P!OwnOptions
  BY SameAssumption, P!SectionsKeepTheirOptions
<1>. QED BY <1>1, SameInit, SameNext, SameProperty, PTL DEF Spec, P!Spec

----------------------------------------------------------------------------
(* The instances.                                                          *)
LEMMA MainIsAnInstance ==
  /\ I!Main \in I!Instance /\ \A r \in F!Reader : InstanceOf(r) \in I!Instance
  /\ \A c \in Children : c \in I!Instance
BY SectionsAssumption
DEF I!SectionsAssumption, I!Main, I!Instance, F!Reader, F!Parent, InstanceOf, Children

(* A step of the service, as one of the instances.                         *)
LEMMA InstancesStep ==
  ASSUME [Next]_vars
  PROVE  \/ I!EndOfFile \/ I!Rotate \/ I!Reload \/ UNCHANGED instances
         \/ \E i \in I!Instance : \/ I!Fork(i) \/ I!LogInit(i) \/ I!InstallHandlers(i)
                                  \/ I!EntersLoop(i) \/ I!Exits(i)
                                  \/ I!Deliver(i) \/ I!DefaultAction(i)
                                  \/ I!LoopTop(i) \/ I!LogReopen(i) \/ I!WaitEnds(i)
<1>1. CASE Parses \/ Rotates \/ UNCHANGED vars
  BY <1>1 DEF Parses, Rotates, vars
<1>2. ASSUME NEW c \in Children, Fork(c) \/ Leaves(c) PROVE I!Fork(c) \/ UNCHANGED instances
  BY <1>2 DEF Fork, Leaves
<1>3. ASSUME NEW r \in F!Reader, Arguments(r) PROVE I!EndOfFile \/ UNCHANGED instances
  BY <1>3 DEF Arguments
<1>4. ASSUME NEW r \in F!Reader, Starts(r) \/ Exits(r)
      PROVE  \/ I!LogInit(InstanceOf(r)) \/ I!InstallHandlers(InstanceOf(r))
             \/ I!Exits(InstanceOf(r))
  BY <1>4 DEF Starts, Exits
<1>5. ASSUME NEW i \in I!Instance, EntersLoop(i) \/ Signal(i) \/ Loop(i)
      PROVE  \/ I!EntersLoop(i) \/ I!Deliver(i) \/ I!DefaultAction(i)
             \/ I!LoopTop(i) \/ I!LogReopen(i) \/ I!WaitEnds(i)
  BY <1>5 DEF EntersLoop, Signal, Loop, I!Signal, I!Loop
<1>. QED BY <1>1, <1>2, <1>3, <1>4, <1>5, MainIsAnInstance DEF Next

LEMMA InstancesInitType == Init => I!TypeOK
<1>. SUFFICES ASSUME Init PROVE I!TypeOK
  OBVIOUS
<1>1. /\ MaxRotations \in Nat /\ file = 1 /\ rotated = FALSE /\ asked = 0
      /\ proc = [i \in I!Instance |-> "unborn"] /\ at = [i \in I!Instance |-> "top"]
      /\ child_pids = [i \in I!Instance |-> {}] /\ log_fd = [i \in I!Instance |-> 0]
      /\ failed = log_fd
      /\ hup = [i \in I!Instance |-> FALSE] /\ log_reopen_pending = hup
  BY SectionsAssumption DEF Init, I!Init, I!SectionsAssumption
<1>2. file \in 1 .. MaxRotations + 1 /\ asked \in 0 .. file /\ 0 \in 0 .. asked
  BY <1>1
<1>. QED BY <1>1, <1>2 DEF I!TypeOK

LEMMA InstancesNextType == I!TypeOK /\ [Next]_vars => I!TypeOK'
<1>. SUFFICES ASSUME I!TypeOK, [Next]_vars PROVE I!TypeOK'
  OBVIOUS
<1>. USE DEF I!TypeOK, I!loop, I!logs
<1>0. MaxRotations \in Nat /\ I!Main \in I!Instance
  BY SectionsAssumption, MainIsAnInstance DEF I!SectionsAssumption
<1>1. CASE I!EndOfFile
  BY <1>0, <1>1 DEF I!EndOfFile
<1>2. CASE I!Rotate
  BY <1>0, <1>2 DEF I!Rotate
<1>3. CASE I!Reload
  <2>1. asked' = file /\ file' = file /\ hup' = [hup EXCEPT ![I!Main] = TRUE] /\ ~rotated'
        /\ rotated' \in BOOLEAN
    BY <1>3 DEF I!Reload
  <2>2. asked' \in 0 .. file' /\ hup' \in [I!Instance -> BOOLEAN]
    BY <1>0, <2>1
  <2>3. failed' = failed /\ 0 .. asked \subseteq 0 .. asked'
    BY <1>0, <1>3, <2>1 DEF I!Reload
  <2>. QED BY <1>3, <2>1, <2>2, <2>3 DEF I!Reload
<1>4. CASE UNCHANGED instances
  BY <1>4 DEF instances
<1>5. ASSUME NEW i \in I!Instance, I!Fork(i) PROVE I!TypeOK'
  BY <1>0, <1>5 DEF I!Fork
<1>6. ASSUME NEW i \in I!Instance, I!LogInit(i) PROVE I!TypeOK'
  BY <1>0, <1>6 DEF I!LogInit
<1>7. ASSUME NEW i \in I!Instance, I!InstallHandlers(i) PROVE I!TypeOK'
  BY <1>0, <1>7 DEF I!InstallHandlers
<1>13. ASSUME NEW i \in I!Instance, I!EntersLoop(i) PROVE I!TypeOK'
  BY <1>0, <1>13 DEF I!EntersLoop
<1>14. ASSUME NEW i \in I!Instance, I!Exits(i) PROVE I!TypeOK'
  BY <1>0, <1>14 DEF I!Exits
<1>8. ASSUME NEW i \in I!Instance, I!Deliver(i) PROVE I!TypeOK'
  BY <1>0, <1>8 DEF I!Deliver
<1>9. ASSUME NEW i \in I!Instance, I!DefaultAction(i) PROVE I!TypeOK'
  BY <1>0, <1>9 DEF I!DefaultAction
<1>10. ASSUME NEW i \in I!Instance, I!LoopTop(i) PROVE I!TypeOK'
  BY <1>0, <1>10 DEF I!LoopTop
<1>11. ASSUME NEW i \in I!Instance, I!LogReopen(i) PROVE I!TypeOK'
  BY <1>0, <1>11 DEF I!LogReopen
<1>12. ASSUME NEW i \in I!Instance, I!WaitEnds(i) PROVE I!TypeOK'
  BY <1>0, <1>12 DEF I!WaitEnds
<1>. QED
  BY <1>1, <1>2, <1>3, <1>4, <1>5, <1>6, <1>7, <1>8, <1>9, <1>10, <1>11, <1>12,
     <1>13, <1>14, InstancesStep

(* Where the service has its type: the instances' half of TypeOK needs     *)
(* that an instance which opens its log opens a file that is there.        *)
THEOREM ServiceTypeCorrect == Spec => []TypeOK
<1>1. P!Spec => []P!TypeOK
  BY SameAssumption, P!FileTypeCorrect
<1>2. Spec => []F!TypeOK
  BY <1>1, SameInit, SameNext, SameProperty, PTL DEF Spec, P!Spec
<1>3. Spec => []I!TypeOK
  BY InstancesInitType, InstancesNextType, PTL DEF Spec
<1>. QED BY <1>2, <1>3, PTL DEF TypeOK

----------------------------------------------------------------------------
(* What the lists of pids hold.  Sections are forked in order; the parent  *)
(* has all of its children, a child only those forked before it; and only  *)
(* the main process is signalled from outside, once it has its handler.    *)
Lists ==
  /\ I!Main \notin child_pids[I!Main]
  /\ \A j \in I!Instance \ {I!Main} : proc[j] # "unborn" <=> j \in child_pids[I!Main]
  /\ \A i \in I!Instance \ {I!Main} : I!Main \notin child_pids[i]
  /\ proc[I!Main] # "unborn" => \A j \in I!Instance : proc[j] # "unborn"
  /\ hup[I!Main] \/ asked > 0 => proc[I!Main] \in {"starting", "up", "exited"}

LEMMA ListsInit == Init => Lists /\ NoReloadLost
BY MainIsAnInstance DEF Init, I!Init, Lists, NoReloadLost, I!NoReloadLost, I!Reopened

LEMMA ListsNext == I!TypeOK /\ Lists /\ [Next]_vars => Lists'
<1>. SUFFICES ASSUME I!TypeOK, Lists, [Next]_vars PROVE Lists'
  OBVIOUS
<1>. DEFINE main == I!Main
<1>0. /\ main \in I!Instance /\ asked \in Nat
      /\ proc \in [I!Instance -> {"unborn", "parsed", "logging", "starting", "up", "killed", "exited"}]
      /\ hup \in [I!Instance -> BOOLEAN] /\ child_pids \in [I!Instance -> SUBSET I!Instance]
  BY MainIsAnInstance DEF I!TypeOK
<1>. HIDE DEF main
<1>1. ASSUME UNCHANGED <<child_pids, asked>>, hup'[main] => hup[main],
             \A j \in I!Instance : proc'[j] = "unborn" <=> proc[j] = "unborn",
             proc[main] \in {"starting", "up", "exited"}
               => proc'[main] \in {"starting", "up", "exited"}
      PROVE  Lists'
  BY <1>0, <1>1 DEF Lists, main
<1>2. CASE I!EndOfFile
  <2>1. /\ proc[main] = "unborn" /\ UNCHANGED <<child_pids, hup, asked>>
        /\ \A i \in I!Instance \ {main} : proc[i] # "unborn"
        /\ proc' = [proc EXCEPT ![main] = "parsed"]
    BY <1>2 DEF I!EndOfFile, I!logs, main
  <2>2. \A j \in I!Instance \ {main} : proc'[j] = proc[j]
    BY <1>0, <2>1
  <2>3. proc'[main] = "parsed"
    BY <1>0, <2>1
  <2>. QED BY <1>0, <2>1, <2>2, <2>3 DEF Lists, main
<1>3. CASE I!Rotate
  BY <1>1, <1>3 DEF I!Rotate
<1>4. CASE I!Reload
  <2>1. proc[main] \in {"starting", "up"} /\ UNCHANGED <<proc, child_pids>>
    BY <1>4 DEF I!Reload, I!Handles, main
  <2>. QED BY <2>1 DEF Lists, main
<1>5. CASE UNCHANGED instances
  BY <1>1, <1>5 DEF instances
<1>6. ASSUME NEW i \in I!Instance, I!Fork(i) PROVE Lists'
  <2>1. /\ proc[main] = "unborn" /\ proc[i] = "unborn" /\ i # main
        /\ proc' = [proc EXCEPT ![i] = "parsed"] /\ UNCHANGED <<hup, asked>>
        /\ child_pids' = [child_pids EXCEPT ![i] = child_pids[main],
                                            ![main] = child_pids[main] \cup {i}]
    BY <1>0, <1>6 DEF I!Fork, I!logs, main
  <2>2. /\ child_pids'[main] = child_pids[main] \cup {i}
        /\ child_pids'[i] = child_pids[main]
        /\ \A j \in I!Instance \ {i, main} : child_pids'[j] = child_pids[j]
    BY <1>0, <2>1
  <2>3. proc'[i] = "parsed" /\ \A j \in I!Instance \ {i} : proc'[j] = proc[j]
    BY <1>0, <2>1
  <2>4. /\ main \notin child_pids'[main]
        /\ \A j \in I!Instance \ {main} : main \notin child_pids'[j]
    BY <2>1, <2>2 DEF Lists, main
  <2>5. \A j \in I!Instance \ {main} : proc'[j] # "unborn" <=> j \in child_pids'[main]
    BY <2>2, <2>3 DEF Lists, main
  <2>6. proc'[main] = "unborn" /\ ~(hup[main] \/ asked > 0)
    BY <1>0, <2>1, <2>3 DEF Lists, main
  <2>. QED BY <2>1, <2>4, <2>5, <2>6 DEF main, Lists
<1>7. ASSUME NEW i \in I!Instance, I!LogInit(i) \/ I!InstallHandlers(i) \/ I!EntersLoop(i)
      PROVE  Lists'
  <2>1. /\ UNCHANGED <<child_pids, hup, asked>>
        /\ \/ proc[i] \in {"parsed", "logging"}
              /\ \E next \in {"logging", "starting"} : proc' = [proc EXCEPT ![i] = next]
           \/ proc[i] = "starting" /\ proc' = [proc EXCEPT ![i] = "up"]
    BY <1>7 DEF I!LogInit, I!InstallHandlers, I!EntersLoop, I!logs
  <2>. QED BY <1>0, <1>1, <2>1
<1>11. ASSUME NEW i \in I!Instance, I!Exits(i) PROVE Lists'
  <2>1. /\ proc[i] # "unborn" /\ UNCHANGED <<child_pids, asked>>
        /\ proc' = [proc EXCEPT ![i] = "exited"] /\ hup' = [hup EXCEPT ![i] = FALSE]
    BY <1>11 DEF I!Exits, I!logs
  <2>. QED BY <1>0, <1>1, <2>1
<1>8. ASSUME NEW i \in I!Instance, I!Deliver(i) PROVE Lists'
  <2>1. /\ hup' = [j \in I!Instance |-> (hup[j] /\ j # i)
                                           \/ (j \in child_pids[i] /\ ~I!Gone(j))]
        /\ UNCHANGED <<proc, child_pids, asked>>
    BY <1>8 DEF I!Deliver, I!logs
  <2>2. main \notin child_pids[i]
    BY DEF Lists, main
  <2>. QED BY <1>0, <1>1, <2>1, <2>2
<1>9. ASSUME NEW i \in I!Instance, I!DefaultAction(i) PROVE Lists'
  <2>1. /\ hup[i] /\ proc[i] \in {"parsed", "logging"} /\ UNCHANGED <<child_pids, asked>>
        /\ proc' = [proc EXCEPT ![i] = "killed"] /\ hup' = [hup EXCEPT ![i] = FALSE]
    BY <1>9 DEF I!DefaultAction, I!logs
  <2>2. i # main
    BY <2>1 DEF Lists, main
  <2>. QED BY <1>0, <1>1, <2>1, <2>2
<1>10. ASSUME NEW i \in I!Instance, I!LoopTop(i) \/ I!LogReopen(i) \/ I!WaitEnds(i) PROVE Lists'
  BY <1>1, <1>10 DEF I!LoopTop, I!LogReopen, I!WaitEnds, I!logs
<1>. QED
  BY <1>2, <1>3, <1>4, <1>5, <1>6, <1>7, <1>8, <1>9, <1>10, <1>11, InstancesStep

(* Steps that move one instance on. *)
LEMMA ReopenKept ==
  ASSUME Lists, NoReloadLost, NEW j \in I!Instance, asked' = asked, log_fd'[j] = log_fd[j],
         hup[I!Main] => hup'[I!Main], hup[j] => hup'[j],
         log_reopen_pending[j] => log_reopen_pending'[j],
         at[j] = "reopen" => at'[j] = "reopen", proc'[j] = proc[j],
         proc'[I!Main] = proc[I!Main] \/ ~I!Gone(I!Main), failed'[j] = failed[j]
  PROVE  I!Reopened(j)' \/ I!ReopenUnderWay(j)'
BY DEF NoReloadLost, I!NoReloadLost, I!Reopened, I!ReopenUnderWay, I!Gone

LEMMA ReloadNext ==
  I!TypeOK /\ Lists /\ NoReloadLost /\ [Next]_vars => NoReloadLost'
<1>. SUFFICES ASSUME I!TypeOK, Lists, NoReloadLost, [Next]_vars, NEW j \in I!Instance
              PROVE  I!Reopened(j)' \/ I!ReopenUnderWay(j)'
  BY DEF NoReloadLost, I!NoReloadLost
<1>. DEFINE main == I!Main
            Safe == I!Reopened(j)' \/ I!ReopenUnderWay(j)'
            Undone == log_fd[j] < asked /\ failed[j] # asked /\ ~I!Gone(j) /\ ~I!Gone(main)
<1>0. /\ main \in I!Instance /\ asked \in Nat /\ file \in Nat /\ asked <= file
      /\ proc \in [I!Instance -> {"unborn", "parsed", "logging", "starting", "up", "killed", "exited"}]
      /\ hup \in [I!Instance -> BOOLEAN] /\ log_reopen_pending \in [I!Instance -> BOOLEAN]
      /\ at \in [I!Instance -> {"top", "reopen", "wait"}]
      /\ log_fd \in [I!Instance -> Nat] /\ failed \in [I!Instance -> Nat]
  BY MainIsAnInstance, SectionsAssumption DEF I!TypeOK, I!SectionsAssumption
<1>1. Undone => I!ReopenUnderWay(j)
  BY <1>0 DEF NoReloadLost, I!NoReloadLost, I!Reopened, main
<1>. HIDE DEF main
<1>2. ASSUME UNCHANGED <<asked, log_fd, hup, log_reopen_pending, at, failed>>,
             proc'[j] = proc[j] \/ (proc[j] = "unborn" /\ proc'[j] = "parsed"),
             proc'[main] = proc[main] \/ proc[main] = "unborn"
      PROVE  Safe
  BY <1>0, <1>1, <1>2 DEF I!Reopened, I!ReopenUnderWay, I!Gone, main
<1>3. CASE I!EndOfFile \/ I!Rotate \/ UNCHANGED instances
  <2>1. UNCHANGED <<asked, log_fd, hup, log_reopen_pending, at, failed>>
    BY <1>3 DEF I!EndOfFile, I!Rotate, instances, I!loop, I!logs
  <2>2. proc' = proc \/ (proc[main] = "unborn" /\ proc' = [proc EXCEPT ![main] = "parsed"])
    BY <1>3 DEF I!EndOfFile, I!Rotate, instances, main
  <2>. QED BY <1>0, <1>2, <2>1, <2>2
<1>4. CASE I!Reload
  <2>1. hup'[main]
    BY <1>0, <1>4 DEF I!Reload, main
  <2>. QED BY <2>1 DEF I!ReopenUnderWay, main
<1>5. ASSUME NEW i \in I!Instance, I!Fork(i) PROVE Safe
  <2>1. UNCHANGED <<asked, log_fd, hup, log_reopen_pending, at, failed>>
    BY <1>5 DEF I!Fork, I!loop, I!logs
  <2>2. i # main /\ proc[i] = "unborn" /\ proc' = [proc EXCEPT ![i] = "parsed"]
    BY <1>5 DEF I!Fork, main
  <2>. QED BY <1>0, <1>2, <2>1, <2>2
<1>6. ASSUME NEW i \in I!Instance, I!LogInit(i) PROVE Safe
  <2>1. /\ UNCHANGED <<asked, hup, log_reopen_pending, at, failed>> /\ proc[i] = "parsed"
        /\ proc' = [proc EXCEPT ![i] = "logging"] /\ log_fd' = [log_fd EXCEPT ![i] = file]
    BY <1>6 DEF I!LogInit, I!loop, I!logs
  <2>2. CASE j = i
    <3>1. log_fd'[j] >= asked'
      BY <1>0, <2>1, <2>2
    <3>. QED BY <3>1 DEF I!Reopened
  <2>3. CASE j # i
    <3>1. proc'[main] = proc[main] \/ ~I!Gone(main)
      BY <1>0, <2>1 DEF I!Gone
    <3>. QED BY <1>0, <2>1, <2>3, <3>1, ReopenKept DEF main
  <2>. QED BY <2>2, <2>3
<1>7. ASSUME NEW i \in I!Instance, I!InstallHandlers(i) \/ I!EntersLoop(i) PROVE Safe
  <2>1. /\ UNCHANGED <<asked, hup, log_reopen_pending, at, failed, log_fd>>
        /\ proc[i] \in {"logging", "starting"}
        /\ \E next \in {"starting", "up"} : proc' = [proc EXCEPT ![i] = next]
    BY <1>7 DEF I!InstallHandlers, I!EntersLoop, I!loop, I!logs
  <2>2. ~I!Gone(j)' => ~I!Gone(j) /\ (proc[j] = "parsed" => proc'[j] = "parsed")
    BY <1>0, <2>1 DEF I!Gone
  <2>3. ~I!Gone(main)' => ~I!Gone(main)
    BY <1>0, <2>1 DEF I!Gone
  <2>. QED BY <1>0, <1>1, <2>1, <2>2, <2>3 DEF I!Reopened, I!ReopenUnderWay, main
<1>8. ASSUME NEW i \in I!Instance, I!Exits(i) PROVE Safe
  <2>1. /\ UNCHANGED <<asked, log_reopen_pending, at, failed, log_fd>>
        /\ proc' = [proc EXCEPT ![i] = "exited"] /\ hup' = [hup EXCEPT ![i] = FALSE]
    BY <1>8 DEF I!Exits, I!loop, I!logs
  <2>2. CASE i \in {j, main}
    <3>1. I!Gone(j)' \/ I!Gone(main)'
      BY <1>0, <2>1, <2>2 DEF I!Gone
    <3>. QED BY <3>1 DEF I!Reopened, main
  <2>3. CASE i \notin {j, main}
    <3>1. /\ proc'[j] = proc[j] /\ proc'[main] = proc[main]
          /\ hup'[j] = hup[j] /\ hup'[main] = hup[main]
      BY <1>0, <2>1, <2>3
    <3>. QED BY <2>1, <3>1, ReopenKept DEF main
  <2>. QED BY <2>2, <2>3
<1>9. ASSUME NEW i \in I!Instance, I!Deliver(i) PROVE Safe
  <2>1. /\ UNCHANGED <<asked, proc, log_fd, failed>>
        /\ log_reopen_pending' = [log_reopen_pending EXCEPT ![i] = TRUE]
        /\ hup' = [x \in I!Instance |-> (hup[x] /\ x # i)
                                          \/ (x \in child_pids[i] /\ ~I!Gone(x))]
        /\ \E here \in {at[i], "top", "wait"} : at' = [at EXCEPT ![i] = here]
        /\ hup[i] /\ proc[i] \in {"starting", "up"}
    BY <1>9 DEF I!Deliver, I!Handles, I!logs
  <2>2. CASE j = i
    BY <1>0, <2>1, <2>2 DEF I!ReopenUnderWay
  <2>3. CASE j # i /\ i = main
    <3>1. proc[j] # "unborn"
      BY <2>1, <2>3 DEF Lists, main
    <3>2. j \in child_pids[i]
      BY <2>3, <3>1 DEF Lists, main
    <3>3. CASE I!Gone(j)
      BY <2>1, <3>3 DEF I!Reopened, I!Gone
    <3>4. CASE ~I!Gone(j)
      BY <2>1, <3>2, <3>4 DEF I!ReopenUnderWay
    <3>. QED BY <3>3, <3>4
  <2>4. CASE j # i /\ i # main
    <3>1. hup[main] => hup'[main]
      BY <1>0, <2>1, <2>4
    <3>2. hup[j] => hup'[j]
      BY <2>1, <2>4
    <3>3. /\ log_reopen_pending'[j] = log_reopen_pending[j] /\ at'[j] = at[j]
      BY <1>0, <2>1, <2>4
    <3>. QED BY <2>1, <3>1, <3>2, <3>3, ReopenKept DEF main
  <2>. QED BY <2>2, <2>3, <2>4
<1>10. ASSUME NEW i \in I!Instance, I!DefaultAction(i) PROVE Safe
  <2>1. /\ UNCHANGED <<asked, log_fd, log_reopen_pending, at, failed>>
        /\ hup[i] /\ proc[i] \in {"parsed", "logging"}
        /\ proc' = [proc EXCEPT ![i] = "killed"] /\ hup' = [hup EXCEPT ![i] = FALSE]
    BY <1>10 DEF I!DefaultAction, I!loop, I!logs
  <2>2. i # main
    BY <2>1 DEF Lists, main
  <2>3. CASE j = i
    <3>1. I!Gone(j)'
      BY <1>0, <2>1, <2>3 DEF I!Gone
    <3>. QED BY <3>1 DEF I!Reopened
  <2>4. CASE j # i
    <3>1. /\ hup'[main] = hup[main] /\ hup'[j] = hup[j] /\ proc'[j] = proc[j]
          /\ proc'[main] = proc[main]
      BY <1>0, <2>1, <2>2, <2>4
    <3>. QED BY <2>1, <3>1, ReopenKept DEF main
  <2>. QED BY <2>3, <2>4
<1>11. ASSUME NEW i \in I!Instance, I!LoopTop(i) PROVE Safe
  <2>1. /\ UNCHANGED <<asked, log_fd, hup, proc, failed>>
        /\ proc[i] = "up" /\ at[i] = "top"
        /\ at' = [at EXCEPT ![i] = IF log_reopen_pending[i] THEN "reopen" ELSE "wait"]
        /\ log_reopen_pending' = [log_reopen_pending EXCEPT ![i] = FALSE]
    BY <1>11 DEF I!LoopTop, I!logs
  <2>2. CASE j = i
    <3>1. at'[j] = IF log_reopen_pending[j] THEN "reopen" ELSE "wait"
      BY <1>0, <2>1, <2>2
    <3>2. I!ReopenUnderWay(j) => I!ReopenUnderWay(j)'
      BY <2>1, <2>2, <3>1 DEF I!ReopenUnderWay
    <3>3. ~Undone => I!Reopened(j)'
      BY <1>0, <2>1 DEF I!Reopened, I!Gone, main
    <3>. QED BY <1>1, <3>2, <3>3
  <2>3. CASE j # i
    BY <1>0, <2>1, <2>3, ReopenKept DEF main
  <2>. QED BY <2>2, <2>3
<1>12. ASSUME NEW i \in I!Instance, I!LogReopen(i) PROVE Safe
  <2>1. /\ UNCHANGED <<asked, hup, proc, log_reopen_pending, file>>
        /\ at' = [at EXCEPT ![i] = "wait"]
        /\ \/ log_fd' = [log_fd EXCEPT ![i] = file] /\ UNCHANGED failed
           \/ failed' = [failed EXCEPT ![i] = asked] /\ UNCHANGED log_fd
    BY <1>12 DEF I!LogReopen, I!logs
  <2>2. CASE j = i
    <3>1. log_fd'[j] >= asked' \/ failed'[j] = asked'
      BY <1>0, <2>1, <2>2
    <3>. QED BY <3>1 DEF I!Reopened
  <2>3. CASE j # i
    BY <1>0, <2>1, <2>3, ReopenKept DEF main
  <2>. QED BY <2>2, <2>3
<1>13. ASSUME NEW i \in I!Instance, I!WaitEnds(i) PROVE Safe
  <2>1. /\ UNCHANGED <<asked, log_fd, hup, proc, log_reopen_pending, failed>>
        /\ at[i] = "wait" /\ at' = [at EXCEPT ![i] = "top"]
    BY <1>13 DEF I!WaitEnds, I!logs
  <2>. QED BY <1>0, <2>1, ReopenKept DEF main
<1>. QED
  BY <1>3, <1>4, <1>5, <1>6, <1>7, <1>8, <1>9, <1>10, <1>11, <1>12, <1>13, InstancesStep

(* A request to reopen the log is never lost on its way from logrotate     *)
(* over the main process to an instance, as long as neither of the two     *)
(* ends, however many sections there are and while earlier requests are    *)
(* still being worked off.  An open() that fails costs this one request.   *)
THEOREM NoReloadIsLost == Spec => []NoReloadLost
BY InstancesInitType, InstancesNextType, ListsInit, ListsNext, ReloadNext, PTL DEF Spec

----------------------------------------------------------------------------
(* Which way signals are passed on.                                        *)
PointsBack == \A i \in I!Instance : \A j \in child_pids[i] : j < i

ForkedInOrder ==
  \A i, j \in I!Instance : i < j /\ proc[i] = "unborn" => proc[j] = "unborn"

LEMMA OrderInit == Init => PointsBack /\ ForkedInOrder
BY DEF Init, I!Init, PointsBack, ForkedInOrder

LEMMA OrderNext ==
  I!TypeOK /\ Lists /\ PointsBack /\ ForkedInOrder /\ [Next]_vars
    => PointsBack' /\ ForkedInOrder'
<1>. SUFFICES ASSUME I!TypeOK, Lists, PointsBack, ForkedInOrder, [Next]_vars
              PROVE  PointsBack' /\ ForkedInOrder'
  OBVIOUS
<1>0. /\ I!Main \in I!Instance /\ I!Main = Sections /\ I!Instance = 1 .. Sections
      /\ Sections \in Nat
      /\ proc \in [I!Instance -> {"unborn", "parsed", "logging", "starting", "up", "killed", "exited"}]
      /\ child_pids \in [I!Instance -> SUBSET I!Instance]
  BY MainIsAnInstance, SectionsAssumption
  DEF I!TypeOK, I!Main, I!Instance, I!SectionsAssumption
<1>1. ASSUME UNCHANGED child_pids,
             \A j \in I!Instance : proc'[j] = "unborn" <=> proc[j] = "unborn"
      PROVE  PointsBack' /\ ForkedInOrder'
  BY <1>1 DEF PointsBack, ForkedInOrder
<1>2. CASE I!EndOfFile
  <2>1. /\ UNCHANGED child_pids /\ proc' = [proc EXCEPT ![I!Main] = "parsed"]
        /\ \A j \in I!Instance \ {I!Main} : proc[j] # "unborn"
    BY <1>2 DEF I!EndOfFile
  <2>2. \A j \in I!Instance : proc'[j] # "unborn"
    BY <1>0, <2>1
  <2>. QED BY <2>1, <2>2 DEF PointsBack, ForkedInOrder
<1>3. ASSUME NEW i \in I!Instance, I!Fork(i) PROVE PointsBack' /\ ForkedInOrder'
  <2>1. /\ proc[i] = "unborn" /\ i # I!Main /\ \A j \in 1 .. i - 1 : proc[j] # "unborn"
        /\ proc[I!Main] = "unborn" /\ proc' = [proc EXCEPT ![i] = "parsed"]
        /\ child_pids' = [child_pids EXCEPT ![i] = child_pids[I!Main],
                                            ![I!Main] = child_pids[I!Main] \cup {i}]
    BY <1>3 DEF I!Fork
  <2>2. \A j \in child_pids[I!Main] : j \in I!Instance /\ j < i
    <3>. SUFFICES ASSUME NEW j \in child_pids[I!Main] PROVE j \in I!Instance /\ j < i
      OBVIOUS
    <3>1. j \in I!Instance \ {I!Main} /\ proc[j] # "unborn"
      BY <1>0 DEF Lists
    <3>2. ~(i < j) /\ i # j
      BY <2>1, <3>1 DEF ForkedInOrder
    <3>. QED BY <1>0, <3>1, <3>2
  <2>3. i < I!Main
    BY <1>0, <2>1
  <2>4. /\ child_pids'[I!Main] = child_pids[I!Main] \cup {i}
        /\ child_pids'[i] = child_pids[I!Main]
        /\ \A j \in I!Instance \ {i, I!Main} : child_pids'[j] = child_pids[j]
    BY <1>0, <2>1
  <2>5. PointsBack'
    BY <1>0, <2>2, <2>3, <2>4 DEF PointsBack
  <2>6. proc'[i] # "unborn" /\ \A j \in I!Instance \ {i} : proc'[j] = proc[j]
    BY <1>0, <2>1
  <2>7. ASSUME NEW a \in I!Instance, NEW b \in I!Instance, a < b, proc'[a] = "unborn"
        PROVE  proc'[b] = "unborn"
    <3>1. a # i /\ proc[a] = "unborn"
      BY <2>6, <2>7
    <3>2. i < a
      BY <1>0, <2>1, <3>1
    <3>3. b # i /\ proc[b] = "unborn"
      BY <1>0, <2>7, <3>1, <3>2 DEF ForkedInOrder
    <3>. QED BY <2>6, <3>3
  <2>. QED BY <2>5, <2>7 DEF ForkedInOrder
<1>4. CASE I!Rotate \/ I!Reload \/ UNCHANGED instances
  BY <1>1, <1>4 DEF I!Rotate, I!Reload, instances
<1>5. ASSUME NEW i \in I!Instance, \/ I!LogInit(i) \/ I!InstallHandlers(i) \/ I!EntersLoop(i)
                                     \/ I!Exits(i) \/ I!DefaultAction(i)
      PROVE  PointsBack' /\ ForkedInOrder'
  <2>1. /\ UNCHANGED child_pids /\ proc[i] # "unborn"
        /\ proc' = [proc EXCEPT ![i] = proc'[i]] /\ proc'[i] # "unborn"
    BY <1>0, <1>5 DEF I!LogInit, I!InstallHandlers, I!EntersLoop, I!Exits, I!DefaultAction
  <2>. QED BY <1>0, <1>1, <2>1
<1>6. ASSUME NEW i \in I!Instance,
             I!Deliver(i) \/ I!LoopTop(i) \/ I!LogReopen(i) \/ I!WaitEnds(i)
      PROVE  PointsBack' /\ ForkedInOrder'
  BY <1>1, <1>6 DEF I!Deliver, I!LoopTop, I!LogReopen, I!WaitEnds
<1>. QED BY <1>2, <1>3, <1>4, <1>5, <1>6, InstancesStep

(* An instance passes SIGHUP on to earlier sections only, though it has    *)
(* inherited its list from a parent that has added to it since: no signal  *)
(* comes back to where it was, and none is passed on more often than there *)
(* are sections.  This is the measure that SignalsSettle rests on.         *)
THEOREM SignalsGoBack == Spec => []PointsBack
BY InstancesInitType, InstancesNextType, ListsInit, ListsNext, OrderInit, OrderNext, PTL DEF Spec
=============================================================================
