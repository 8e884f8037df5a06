------------------------------- MODULE Uptime -------------------------------
(***************************************************************************)
(* The clock of the main loop as a long of finite width: milliseconds      *)
(* since boot, which a 32-bit build can hold for less than 25 days before  *)
(* the value turns negative.  Module Sessions has everything the loop does *)
(* with an unbounded clock; here is what becomes of the sweep of one       *)
(* dynamic session, whatever the uptime when the program starts.           *)
(***************************************************************************)
EXTENDS Integers

CONSTANTS Half,              \* half the range of long: 2^31 on a 32-bit build
          IdleTimeout, IterateInterval, PollTimeout,   \* each less than Half
          MaxRun             \* bound of the model only: how long the program runs

VARIABLES started, time,     \* true uptime when the program started, and now
          polled,            \* when the loop last began to wait
          live,              \* the session is in the table
          last_activity_time, last_cleanup_time,   \* what the program keeps
          seen               \* ghost: true uptime at the session's last packet
vars == <<started, time, polled, live, last_activity_time, last_cleanup_time, seen>>

(* What fits in a long; a difference that does not wraps around as well.   *)
Long(t) == ((t + Half) % (2 * Half)) - Half
Now == Long(time)
Since(stamp) == Long(Now - stamp)

Init ==
  /\ started \in 0 .. 2 * Half - 1 /\ time = started /\ polled = started
  /\ live = FALSE /\ seen = started
  /\ last_activity_time = 0 /\ last_cleanup_time = 0

(* The clock goes on while the loop waits, for POLL_TIMEOUT at most. *)
Tick ==
  /\ time < polled + PollTimeout /\ time < started + MaxRun
  /\ time' = time + 1
  /\ UNCHANGED <<started, polled, live, last_activity_time, last_cleanup_time, seen>>

Expired(stamp) == Since(stamp) >= IdleTimeout

(* One turn of the loop: perhaps a packet, which opens the session if it   *)
(* has to, then the sweep if it is due.                                    *)
Turn(packet) ==
  LET stamp == IF packet THEN Now ELSE last_activity_time
      open == live \/ packet
      due == Since(last_cleanup_time) >= IterateInterval
  IN /\ packet \/ time = polled + PollTimeout
     /\ polled' = time
     /\ seen' = IF packet THEN time ELSE seen
     /\ last_activity_time' = stamp
     /\ last_cleanup_time' = IF due THEN Now ELSE last_cleanup_time
     /\ live' = (open /\ ~(due /\ Expired(stamp)))
     /\ UNCHANGED <<started, time>>

Next == Tick \/ \E packet \in BOOLEAN : Turn(packet)

Spec == Init /\ [][Next]_vars

----------------------------------------------------------------------------
(* README.md: idle-timeout is the maximum time a client can be idle before *)
(* it is disconnected, by the next sweep at the latest.  But a program     *)
(* that starts while the clock reads a negative number finds now less than *)
(* last_cleanup_time, which is 0, and does not sweep before now is         *)
(* positive again, up to 25 days later; until then the table only fills.   *)
IdleSessionExpires == live => time - seen < IdleTimeout + IterateInterval + PollTimeout
=============================================================================
