------------------------------ MODULE Resolver ------------------------------
(***************************************************************************)
(* Resolving host names: the lookups at startup, which place the static    *)
(* bindings; the helper thread of wg-obfuscator.c; the wake pipe from the  *)
(* SIGHUP handler to it, and the result pipe from it to the main loop; and *)
(* what the main loop does with a result: it reconnects every session to a *)
(* new target address and moves a static binding to the new address of its *)
(* peer, unless that address already has a session.                        *)
(*                                                                         *)
(* Packets matter here only as far as they open and close dynamic          *)
(* sessions; module Sessions has the rest of the event loop.               *)
(***************************************************************************)
EXTENDS Integers, Sequences, FiniteSets, SequencesExt

CONSTANTS Target,            \* the host name of the target
          Binding,           \* static bindings with a host name
          Port,              \* binding -> the port of its peer
          Lookups,           \* the order of the startup and of one round: the target
                             \* and the bindings
          Addr, Unresolved,  \* IPv4 addresses, and the failure of a lookup
          Record,            \* name -> the addresses it may have
          Peer,              \* source addresses <<addr, port>> of dynamic clients
          Intervals,         \* whether resolve_interval > 0, the values to look at
          PipeCapacity,      \* results the result pipe holds before a write blocks
          MayNotStart,       \* pipe() or pthread_create() may fail
          MaxChanges, MaxSignals   \* bounds of the model only

Name == {Target} \cup Binding
Key == Addr \X {Port[b] : b \in Binding}
Session == Binding \cup Peer

ASSUME NameAssumption ==
  /\ Target \notin Binding /\ Binding \cap Peer = {} /\ Peer \subseteq Key
  /\ Lookups \in Seq(Name) /\ ToSet(Lookups) = Name
  /\ Lookups[1] = Target /\ Target \notin ToSet(Tail(Lookups))
  /\ Record \in [Name -> SUBSET Addr]
ASSUME PipeAssumption ==
  /\ PipeCapacity \in Nat \ {0} /\ Addr # {} /\ Unresolved \notin Addr /\ Intervals \subseteq BOOLEAN
  /\ MayNotStart \in BOOLEAN
  /\ MaxChanges \in Nat /\ MaxSignals \in Nat

VARIABLES dns, changes,      \* what a lookup of each name returns, and how often it changed
          signals, owed,     \* SIGHUPs so far; ghost: one the thread got waits for a round
          periodic,          \* resolve_interval > 0
          main,              \* "startup" (the first lookups), "starting" (of the thread),
                             \* "loop", "drain" (in drain_resolve_results), "exited"
          thread,            \* "none", "poll", "woken", "lookup", "send"; "failed": not started
          wake,              \* the wake pipe holds a byte
          todo,              \* names still to be looked up at startup or in this round
          answer,            \* of resolve_one, between its lookup and its write
          results,           \* the result pipe
          target,            \* forward_addr
          key,               \* binding -> its client_addr
          dynamic,           \* keys of the dynamic sessions
          sock, missed       \* address each socket is connected to; ghost: connect failed
vars == <<dns, changes, signals, owed, periodic, main, thread, wake, todo, answer,
          results, target, key, dynamic, sock, missed>>

world == <<dns, changes, signals, owed, periodic>>
helper == <<thread, wake, todo, answer>>
table == <<target, key, dynamic, sock, missed>>

Result == [name : Name, addr : Addr \cup {Unresolved}]
NoAnswer == [name |-> Target, addr |-> Unresolved]

(* Every variable has its type, and a write to the result pipe waits for room. *)
TypeOK ==
  /\ dns \in [Name -> Addr \cup {Unresolved}] /\ changes \in 0 .. MaxChanges
  /\ signals \in 0 .. MaxSignals /\ owed \in BOOLEAN
  /\ periodic \in Intervals /\ main \in {"startup", "starting", "loop", "drain", "exited"}
  /\ thread \in {"none", "poll", "woken", "lookup", "send", "failed"}
  /\ wake \in BOOLEAN /\ todo \in Seq(Name)
  /\ answer \in Result /\ results \in Seq(Result)
  /\ Len(results) <= PipeCapacity
  /\ target \in Addr /\ key \in [Binding -> Key] /\ dynamic \subseteq Peer
  /\ sock \in [Session -> Addr] /\ missed \subseteq Session

(* The bindings in the table: at startup, those that are not still to come. *)
Placed == IF main \in {"startup", "exited"} THEN Binding \ ToSet(todo) ELSE Binding
Live == Placed \cup dynamic

(* forward_addr is cleared before the first lookup, and a closed socket has  *)
(* no address: some address that nothing reads stands for none.              *)
NoAddr == CHOOSE a \in Addr : TRUE

(* What a lookup of n may give. *)
Answers(n) == Record[n] \cup {Unresolved}

(* Nothing is known of an address before it is looked up.                  *)
Init ==
  /\ dns \in {d \in [Name -> Addr \cup {Unresolved}] : \A n \in Name : d[n] \in Answers(n)}
  /\ changes = 0 /\ signals = 0 /\ owed = FALSE /\ periodic \in Intervals
  /\ main = "startup" /\ thread = "none" /\ wake = FALSE
  /\ todo = Lookups /\ answer = NoAnswer /\ results = <<>>
  /\ target = NoAddr
  /\ key = [b \in Binding |-> <<target, Port[b]>>]
  /\ dynamic = {} /\ missed = {}
  /\ sock = [s \in Session |-> NoAddr]

----------------------------------------------------------------------------
(* The world: DNS records and signals.                                     *)
DnsChanges(n, a) ==
  /\ changes < MaxChanges /\ dns[n] # a
  /\ dns' = [dns EXCEPT ![n] = a] /\ changes' = changes + 1
  /\ UNCHANGED <<signals, owed, periodic, main, helper, results, table>>

(* sighup_handler and resolve_wake: before the thread is started there is  *)
(* no pipe to write to.                                                    *)
Started == thread \in {"poll", "woken", "lookup", "send"}

Sighup ==
  /\ signals < MaxSignals /\ main # "exited"
  /\ signals' = signals + 1
  /\ wake' = (wake \/ Started)
  /\ owed' = (owed \/ Started)
  /\ UNCHANGED <<dns, changes, periodic, main, thread, todo, answer, results, table>>

----------------------------------------------------------------------------
(* Startup, with Lookups in the order of the options: the target first.    *)

(* connect() of every socket in S.  One that fails keeps the address it    *)
(* had (a new socket has none); nothing tries again.                       *)
Connect(S, a) ==
  \E refused \in SUBSET S :
    /\ sock' = [s \in Session |-> IF s \in S \ refused THEN a ELSE sock[s]]
    /\ missed' = (missed \ S) \cup refused

Exits == main' = "exited" /\ UNCHANGED <<world, helper, results, table>>

(* new_client_entry_static for a binding whose address is free. *)
Place(b) ==
  /\ \A other \in Placed : key[other] # <<dns[b], Port[b]>>
  /\ key' = [key EXCEPT ![b] = <<dns[b], Port[b]>>]
  /\ Connect({b}, target)
  /\ UNCHANGED <<target, dynamic>>

(* resolve_hostname_startup tries again for ever when there is an interval *)
(* and so only a name that resolves gets the startup on.                   *)
StartupLookup ==
  /\ main = "startup" /\ todo # <<>> /\ dns[Head(todo)] # Unresolved
  /\ IF Head(todo) = Target
     THEN target' = dns[Target] /\ UNCHANGED <<key, dynamic, sock, missed>>
     ELSE Place(Head(todo))
  /\ todo' = Tail(todo)
  /\ UNCHANGED <<world, main, thread, wake, answer, results>>

(* Without an interval a name that does not resolve ends the program.  A   *)
(* name that does may end it too: a bad port, a full table, a second       *)
(* binding for one address (where Place is no way out), no memory, and     *)
(* socket(), bind(), setsockopt() or epoll_ctl() for its socket; so may    *)
(* epoll_ctl() for the result pipe, after the last name.                   *)
StartupFails ==
  /\ \/ main = "startup" /\ todo # <<>> /\ (dns[Head(todo)] # Unresolved \/ ~periodic)
     \/ main = "starting"
  /\ Exits

StartupDone ==
  /\ main = "startup" /\ todo = <<>> /\ main' = "starting"
  /\ UNCHANGED <<world, helper, results, table>>

----------------------------------------------------------------------------
(* The helper thread.                                                      *)
StartThread ==
  /\ main = "starting" /\ main' = "loop"
  /\ thread' \in IF MayNotStart THEN {"poll", "failed"} ELSE {"poll"}
  /\ UNCHANGED <<world, wake, todo, answer, results, table>>

PollReturns ==
  /\ thread = "poll" /\ (wake \/ periodic)
  /\ thread' = "woken"
  /\ UNCHANGED <<world, main, wake, todo, answer, results, table>>

(* The pipe is emptied before the first lookup of the round, so a signal   *)
(* that comes later makes the next poll return at once.                    *)
DrainWake ==
  /\ thread = "woken"
  /\ thread' = "lookup" /\ wake' = FALSE /\ todo' = Lookups
  /\ owed' = FALSE
  /\ UNCHANGED <<dns, changes, signals, periodic, main, answer, results, table>>

(* resolve_one: the lookup, which takes what the DNS says now, and the     *)
(* write of what it found, which waits for room: the answer may be stale   *)
(* by the time it is in the pipe.                                          *)
LookUp ==
  /\ thread = "lookup" /\ todo # <<>>
  /\ thread' = "send" /\ todo' = Tail(todo)
  /\ answer' = [name |-> Head(todo), addr |-> dns[Head(todo)]]
  /\ UNCHANGED <<world, main, wake, results, table>>

SendResult ==
  /\ thread = "send" /\ Len(results) < PipeCapacity
  /\ thread' = "lookup" /\ results' = Append(results, answer)
  /\ answer' = NoAnswer
  /\ UNCHANGED <<world, main, wake, todo, table>>

(* Mutant of RoundDone: the wake pipe is emptied after the lookups. *)
RoundDoneDraining ==
  /\ thread = "lookup" /\ todo = <<>>
  /\ thread' = "poll" /\ wake' = FALSE
  /\ UNCHANGED <<world, main, todo, answer, results, table>>

RoundDone ==
  /\ thread = "lookup" /\ todo = <<>>
  /\ thread' = "poll"
  /\ UNCHANGED <<world, main, wake, todo, answer, results, table>>

----------------------------------------------------------------------------
(* The main loop.                                                          *)
(* Mutant of ApplyTarget: only the static bindings are reconnected. *)
ApplyTargetStatic(a) ==
  /\ target' = a
  /\ IF a = target THEN UNCHANGED <<sock, missed>> ELSE Connect(Binding, a)
  /\ UNCHANGED <<key, dynamic>>

ApplyTarget(a) ==
  /\ target' = a
  /\ IF a = target THEN UNCHANGED <<sock, missed>> ELSE Connect(Live, a)
  /\ UNCHANGED <<key, dynamic>>

(* Mutant of Taken: it looks at the static bindings only. *)
TakenStatic(b, k) == \E other \in Binding \ {b} : key[other] = k

(* HASH_FIND: does a session other than b hold key k? *)
Taken(b, k) == k \in dynamic \/ \E other \in Binding \ {b} : key[other] = k

(* Mutant of ApplyBinding: the key loses its port. *)
ApplyBindingAddress(b, a) ==
  /\ key' = [key EXCEPT ![b] = IF Taken(b, <<a, Port[b]>>) THEN @ ELSE <<a>>]
  /\ UNCHANGED <<target, dynamic, sock, missed>>

ApplyBinding(b, a) ==
  /\ key' = [key EXCEPT ![b] = IF Taken(b, <<a, Port[b]>>) THEN @ ELSE <<a, Port[b]>>]
  /\ UNCHANGED <<target, dynamic, sock, missed>>

ResultReady ==
  /\ main = "loop" /\ results # <<>> /\ main' = "drain"
  /\ UNCHANGED <<world, helper, results, table>>

ApplyResult ==
  /\ main = "drain" /\ results # <<>>
  /\ LET r == Head(results) IN
       IF r.addr = Unresolved THEN UNCHANGED table
       ELSE IF r.name = Target THEN ApplyTarget(r.addr)
       ELSE ApplyBinding(r.name, r.addr)
  /\ results' = Tail(results)
  /\ UNCHANGED <<world, helper, main>>

Drained ==
  /\ main = "drain" /\ results = <<>> /\ main' = "loop"
  /\ UNCHANGED <<world, helper, results, table>>

(* A handshake from an address without a session opens a dynamic one, and  *)
(* a timeout closes it; traffic decides when, or whether ever.             *)
OpenSession(k) ==
  /\ main = "loop" /\ k \in Peer \ dynamic /\ \A b \in Binding : key[b] # k
  /\ dynamic' = dynamic \cup {k}
  /\ Connect({k}, target)
  /\ UNCHANGED <<world, main, helper, results, target, key>>

CloseSession(k) ==
  /\ main = "loop" /\ k \in dynamic
  /\ dynamic' = dynamic \ {k} /\ missed' = missed \ {k}
  /\ sock' = [sock EXCEPT ![k] = NoAddr]
  /\ UNCHANGED <<world, main, helper, results, target, key>>

----------------------------------------------------------------------------
Thread == PollReturns \/ DrainWake \/ LookUp \/ SendResult \/ RoundDone
Main == StartupLookup \/ StartupFails \/ StartupDone \/ StartThread \/ ResultReady \/ ApplyResult \/ Drained

Next ==
  \/ \E n \in Name : \E a \in Answers(n) : DnsChanges(n, a)
  \/ Sighup
  \/ PollReturns \/ DrainWake \/ LookUp \/ SendResult \/ RoundDone
  \/ StartupLookup \/ StartupFails \/ StartupDone \/ StartThread
  \/ ResultReady \/ ApplyResult \/ Drained
  \/ \E k \in Peer : OpenSession(k) \/ CloseSession(k)

(* The kernel schedules both threads, getaddrinfo() returns, the interval  *)
(* timer keeps firing and epoll reports a readable pipe until it is        *)
(* drained.  Nothing is assumed of clients, signals or what the DNS says.  *)
Spec == Init /\ [][Next]_vars /\ WF_vars(Thread) /\ WF_vars(Main)

----------------------------------------------------------------------------
(* Properties.                                                             *)

(* The connection table never holds two sessions under one client address, *)
(* though bindings move while clients come and go: uthash would lose one.  *)
KeysUnique ==
  /\ \A a, b \in Placed : a # b => key[a] # key[b]
  /\ \A b \in Placed : key[b] \notin dynamic

(* Every session, whenever it was opened, talks to the target address in   *)
(* use, except where the kernel refused to reconnect its socket.           *)
SocketsFollowTarget == \A s \in Live \ missed : sock[s] = target

Follows(n) ==
  \/ dns[n] = Unresolved
  \/ IF n = Target THEN target = dns[n] ELSE key[n] = <<dns[n], Port[n]>>

(* SIGHUP while the thread runs: once the DNS is quiet, every name ends up *)
(* at its current address, or the move was refused for an address in use.  *)
(* A signal during a round must start another one; results apply in order. *)
SighupRefreshes ==
  \A n \in Name :
    (owed /\ changes = MaxChanges)
      ~> (Follows(n) \/ (n # Target /\ Taken(n, <<dns[n], Port[n]>>)))
=============================================================================
