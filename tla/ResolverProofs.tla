--------------------------- MODULE ResolverProofs ---------------------------
(***************************************************************************)
(* Theorems about Resolver, for every set of bindings, peers and addresses *)
(* and every capacity of the result pipe.  TypeOK is inductive; KeysUnique *)
(* and SocketsFollowTarget are, relative to it, together with Quiet: while *)
(* the program starts there is no thread and no dynamic session, the       *)
(* target is looked up before any binding is placed, and the thread is     *)
(* started when all are.                                                   *)
(***************************************************************************)
EXTENDS Resolver, SequenceTheorems, TLAPS

Quiet ==
  /\ main \in {"startup", "starting", "exited"} => thread = "none" /\ dynamic = {}
  /\ main = "startup" /\ Target \in ToSet(todo) => todo = Lookups
  /\ main = "starting" => todo = <<>>

IInv == Quiet /\ KeysUnique /\ SocketsFollowTarget

----------------------------------------------------------------------------
(* What is left of a list of names once its head is taken off.             *)
LEMMA HeadAndTail ==
  ASSUME NEW S, NEW q \in Seq(S), q # <<>>
  PROVE  /\ Head(q) \in S /\ Tail(q) \in Seq(S)
         /\ ToSet(Tail(q)) \subseteq ToSet(q)
         /\ ToSet(q) \subseteq ToSet(Tail(q)) \cup {Head(q)}
         /\ Len(Tail(q)) < Len(q)
<1>1. /\ Head(q) \in S /\ Tail(q) \in Seq(S) /\ Len(Tail(q)) = Len(q) - 1
      /\ \A i \in 1 .. Len(Tail(q)) : Tail(q)[i] = q[i + 1]
  BY HeadTailProperties
<1>2. Len(q) \in Nat \ {0} /\ Len(Tail(q)) \in Nat
  BY <1>1, EmptySeq
<1>3. DOMAIN q = 1 .. Len(q) /\ DOMAIN Tail(q) = 1 .. Len(Tail(q)) /\ Head(q) = q[1]
  BY <1>1, LenProperties
<1>4. ToSet(Tail(q)) \subseteq ToSet(q)
  BY <1>1, <1>2, <1>3 DEF ToSet
<1>5. ASSUME NEW i \in 1 .. Len(q)
      PROVE  q[i] \in ToSet(Tail(q)) \cup {Head(q)}
  <2>1. CASE i = 1
    BY <2>1, <1>3
  <2>2. CASE i # 1
    <3>1. i - 1 \in 1 .. Len(Tail(q)) /\ Tail(q)[i - 1] = q[(i - 1) + 1]
      BY <2>2, <1>1, <1>2
    <3>2. q[i] = Tail(q)[i - 1]
      BY <3>1
    <3>. QED BY <3>1, <3>2, <1>3 DEF ToSet
  <2>. QED BY <2>1, <2>2
<1>6. ToSet(q) \subseteq ToSet(Tail(q)) \cup {Head(q)}
  BY <1>3, <1>5 DEF ToSet
<1>. QED BY <1>1, <1>2, <1>4, <1>6

LEMMA LookupsFacts ==
  /\ Lookups # <<>> /\ Head(Lookups) = Target
  /\ Binding \cap ToSet(Lookups) = Binding
<1>1. Lookups # <<>>
  BY NameAssumption DEF ToSet, Name
<1>. QED BY <1>1, NameAssumption DEF Name

LEMMA KeyType == ASSUME NEW a \in Addr, NEW b \in Binding PROVE <<a, Port[b]>> \in Key
BY DEF Key

(* connect() leaves an address in every socket, and the new one in each of *)
(* those that are not counted as missed.                                   *)
LEMMA ConnectFacts ==
  ASSUME TypeOK, NEW S \in SUBSET Session, NEW a \in Addr, Connect(S, a)
  PROVE  /\ sock' \in [Session -> Addr] /\ missed' \subseteq Session
         /\ \A s \in S \ missed' : sock'[s] = a
         /\ \A s \in Session \ S : sock'[s] = sock[s] /\ (s \in missed <=> s \in missed')
<1>1. PICK refused \in SUBSET S :
        /\ sock' = [s \in Session |-> IF s \in S \ refused THEN a ELSE sock[s]]
        /\ missed' = (missed \ S) \cup refused
  BY DEF Connect
<1>2. sock \in [Session -> Addr] /\ missed \subseteq Session
  BY DEF TypeOK
<1>. QED BY <1>1, <1>2

----------------------------------------------------------------------------
LEMMA NoAddrType == NoAddr \in Addr
BY PipeAssumption DEF NoAddr

LEMMA AnswersType == \A n \in Name : Answers(n) \subseteq Addr \cup {Unresolved}
BY NameAssumption DEF Answers

LEMMA InitType == Init => TypeOK
<1>. SUFFICES ASSUME Init PROVE TypeOK
  OBVIOUS
<1>1. target \in Addr
  BY NoAddrType DEF Init
<1>2. key \in [Binding -> Key]
  BY <1>1, KeyType DEF Init
<1>3. <<>> \in Seq(Result) /\ Len(<<>>) = 0
  BY EmptySeq
<1>4. /\ results \in Seq(Result)
      /\ Len(results) <= PipeCapacity
  BY <1>3, PipeAssumption DEF Init
<1>5. sock \in [Session -> Addr] /\ dynamic \subseteq Peer /\ missed \subseteq Session
  BY NoAddrType DEF Init
<1>6. todo \in Seq(Name)
  BY NameAssumption DEF Init
<1>7. changes \in 0 .. MaxChanges /\ signals \in 0 .. MaxSignals
  BY PipeAssumption DEF Init
<1>9. answer \in Result
  BY DEF Init, NoAnswer, Result, Name
<1>8. /\ dns \in [Name -> Addr \cup {Unresolved}] /\ periodic \in Intervals
      /\ main = "startup" /\ thread = "none" /\ owed = FALSE /\ wake = FALSE
  BY DEF Init
<1>. QED BY <1>1, <1>2, <1>4, <1>5, <1>6, <1>7, <1>8, <1>9 DEF TypeOK

LEMMA NextType == TypeOK /\ [Next]_vars => TypeOK'
<1>. SUFFICES ASSUME TypeOK, [Next]_vars PROVE TypeOK'
  OBVIOUS
<1>. USE PipeAssumption
<1>1. ASSUME NEW n \in Name, NEW a \in Addr \cup {Unresolved}, DnsChanges(n, a) PROVE TypeOK'
  BY <1>1 DEF TypeOK, DnsChanges, helper, table
<1>2. CASE Sighup
  BY <1>2 DEF TypeOK, Sighup, Started, table
<1>3. CASE PollReturns
  BY <1>3 DEF TypeOK, PollReturns, world, table
<1>4. CASE DrainWake
  BY <1>4, NameAssumption DEF TypeOK, DrainWake, table
<1>5. CASE LookUp
  <2>1. Head(todo) \in Name /\ Tail(todo) \in Seq(Name)
    BY <1>5, HeadAndTail DEF TypeOK, LookUp
  <2>2. answer' \in Result
    BY <1>5, <2>1 DEF TypeOK, LookUp, Result
  <2>. QED BY <1>5, <2>1, <2>2 DEF TypeOK, LookUp, world, table
<1>17. CASE SendResult
  <2>1. results' \in Seq(Result) /\ Len(results') <= PipeCapacity
    BY <1>17 DEF TypeOK, SendResult
  <2>2. answer' \in Result
    BY <1>17 DEF SendResult, NoAnswer, Result, Name
  <2>. QED BY <1>17, <2>1, <2>2 DEF TypeOK, SendResult, world, table
<1>6. CASE RoundDone
  BY <1>6 DEF TypeOK, RoundDone, world, table
<1>7. CASE StartupLookup
  <2>1. Head(todo) \in Name /\ Tail(todo) \in Seq(Name)
    BY <1>7, HeadAndTail DEF TypeOK, StartupLookup
  <2>2. dns[Head(todo)] \in Addr
    BY <1>7, <2>1 DEF TypeOK, StartupLookup
  <2>3. /\ target' \in Addr /\ key' \in [Binding -> Key] /\ dynamic' \subseteq Peer
        /\ sock' \in [Session -> Addr] /\ missed' \subseteq Session
    <3>1. CASE Head(todo) = Target
      BY <1>7, <2>2, <3>1 DEF TypeOK, StartupLookup
    <3>2. CASE Head(todo) # Target
      <4>1. Head(todo) \in Binding /\ Place(Head(todo))
        BY <1>7, <2>1, <3>2 DEF StartupLookup, Name
      <4>2. {Head(todo)} \in SUBSET Session /\ target \in Addr
        BY <4>1 DEF Session, TypeOK
      <4>3. sock' \in [Session -> Addr] /\ missed' \subseteq Session
        BY <4>1, <4>2, ConnectFacts DEF Place
      <4>4. key' \in [Binding -> Key]
        BY <4>1, <2>2, KeyType DEF Place, TypeOK
      <4>. QED BY <4>1, <4>3, <4>4 DEF Place, TypeOK
    <3>. QED BY <3>1, <3>2
  <2>. QED BY <1>7, <2>1, <2>3 DEF TypeOK, StartupLookup, world
<1>8. CASE StartupFails
  BY <1>8 DEF TypeOK, StartupFails, Exits, world, helper, table
<1>9. CASE StartupDone
  BY <1>9 DEF TypeOK, StartupDone, world, helper, table
<1>10. CASE StartThread
  BY <1>10 DEF TypeOK, StartThread, world, table
<1>11. CASE ResultReady
  BY <1>11 DEF TypeOK, ResultReady, world, helper, table
<1>12. CASE ApplyResult
  <2>. DEFINE r == Head(results)
  <2>1. /\ r \in Result
        /\ Tail(results) \in Seq(Result)
        /\ Len(Tail(results)) < Len(results)
    BY <1>12, HeadAndTail DEF TypeOK, ApplyResult
  <2>2. /\ target' \in Addr /\ key' \in [Binding -> Key] /\ dynamic' \subseteq Peer
        /\ sock' \in [Session -> Addr] /\ missed' \subseteq Session
    <3>1. CASE r.addr = Unresolved
      BY <1>12, <3>1 DEF TypeOK, ApplyResult, table
    <3>2. CASE r.addr # Unresolved /\ r.name = Target
      <4>1. r.addr \in Addr /\ ApplyTarget(r.addr)
        BY <1>12, <2>1, <3>2 DEF ApplyResult, Result
      <4>2. Live \in SUBSET Session
        BY DEF Live, Placed, Session, TypeOK
      <4>3. sock' \in [Session -> Addr] /\ missed' \subseteq Session
        BY <4>1, <4>2, ConnectFacts DEF ApplyTarget, TypeOK
      <4>. QED BY <4>1, <4>3 DEF ApplyTarget, TypeOK
    <3>3. CASE r.addr # Unresolved /\ r.name # Target
      <4>1. r.addr \in Addr /\ r.name \in Binding /\ ApplyBinding(r.name, r.addr)
        BY <1>12, <2>1, <3>3 DEF ApplyResult, Result, Name
      <4>2. key' \in [Binding -> Key]
        BY <4>1, KeyType DEF ApplyBinding, TypeOK
      <4>. QED BY <4>1, <4>2 DEF ApplyBinding, TypeOK
    <3>. QED BY <3>1, <3>2, <3>3
  <2>3. Len(results) \in Nat /\ Len(Tail(results)) \in Nat
    BY <2>1, LenProperties DEF TypeOK
  <2>. QED BY <1>12, <2>1, <2>2, <2>3 DEF TypeOK, ApplyResult, world, helper
<1>13. CASE Drained
  BY <1>13 DEF TypeOK, Drained, world, helper, table
<1>14. ASSUME NEW k \in Peer, OpenSession(k) PROVE TypeOK'
  <2>1. sock' \in [Session -> Addr] /\ missed' \subseteq Session
    BY <1>14, ConnectFacts DEF OpenSession, Session, TypeOK
  <2>. QED BY <1>14, <2>1 DEF TypeOK, OpenSession, world, helper
<1>15. ASSUME NEW k \in Peer, CloseSession(k) PROVE TypeOK'
  <2>1. sock' \in [Session -> Addr]
    BY <1>15, NoAddrType DEF TypeOK, CloseSession
  <2>. QED BY <1>15, <2>1 DEF TypeOK, CloseSession, world, helper
<1>16. CASE UNCHANGED vars
  BY <1>16 DEF TypeOK, vars
<1>. QED
  BY <1>1, <1>2, <1>3, <1>4, <1>5, <1>6, <1>7, <1>8, <1>9, <1>10, <1>11, <1>12, <1>13,
     <1>14, <1>15, <1>16, <1>17, AnswersType DEF Next

(* Every variable of Resolver keeps its type, and the result pipe its      *)
(* capacity: a write waits.                                                *)
THEOREM ResolverTypeCorrect == Spec => []TypeOK
BY InitType, NextType, PTL DEF Spec

----------------------------------------------------------------------------
LEMMA InitInv == Init => IInv
<1>. SUFFICES ASSUME Init PROVE IInv
  OBVIOUS
<1>1. Placed = {} /\ Live = {}
  BY LookupsFacts DEF Init, Placed, Live
<1>. QED BY <1>1 DEF Init, IInv, Quiet, KeysUnique, SocketsFollowTarget

(* Without a thread, or with all bindings placed, the table is as it was. *)
LEMMA TableKept ==
  ASSUME KeysUnique, SocketsFollowTarget, Placed' = Placed, UNCHANGED table
  PROVE  KeysUnique' /\ SocketsFollowTarget'
BY DEF KeysUnique, SocketsFollowTarget, Live, table

LEMMA NextInv == TypeOK /\ IInv /\ [Next]_vars => IInv'
<1>. SUFFICES ASSUME TypeOK, IInv, [Next]_vars PROVE IInv'
  OBVIOUS
<1>. USE DEF IInv
<1>1. ASSUME NEW n \in Name, NEW a \in Addr \cup {Unresolved}, DnsChanges(n, a) PROVE IInv'
  <2>1. Placed' = Placed /\ UNCHANGED table
    BY <1>1 DEF DnsChanges, helper, Placed, table
  <2>. QED BY <1>1, <2>1, TableKept DEF DnsChanges, helper, table, Quiet
<1>2. CASE Sighup
  <2>1. Placed' = Placed /\ UNCHANGED table
    BY <1>2 DEF Sighup, Placed, table
  <2>. QED BY <1>2, <2>1, TableKept DEF Sighup, table, Quiet
<1>3. CASE PollReturns \/ DrainWake \/ LookUp \/ SendResult \/ RoundDone
  <2>1. thread # "none" /\ UNCHANGED <<main, table>>
    BY <1>3 DEF PollReturns, DrainWake, LookUp, SendResult, RoundDone
  <2>2. main \notin {"startup", "starting", "exited"}
    BY <2>1 DEF Quiet
  <2>3. Placed' = Placed
    BY <2>1, <2>2 DEF Placed
  <2>. QED BY <2>1, <2>2, <2>3, TableKept DEF Quiet
<1>4. CASE StartupLookup
  <2>. DEFINE n == Head(todo)
  <2>1. /\ n \in Name /\ Tail(todo) \in Seq(Name)
        /\ ToSet(Tail(todo)) \subseteq ToSet(todo)
        /\ ToSet(todo) \subseteq ToSet(Tail(todo)) \cup {n}
    BY <1>4, HeadAndTail DEF TypeOK, StartupLookup
  <2>2. main = "startup" /\ main' = "startup" /\ todo' = Tail(todo) /\ thread' = "none"
        /\ dynamic = {} /\ dns[n] \in Addr
    BY <1>4, <2>1 DEF StartupLookup, Quiet, TypeOK
  <2>3. Placed = Binding \ ToSet(todo) /\ Placed' = Binding \ ToSet(Tail(todo))
    BY <2>2 DEF Placed
  <2>4. Target \notin ToSet(Tail(todo))
    <3>1. CASE Target \in ToSet(todo)
      BY <3>1, <2>2, NameAssumption DEF Quiet
    <3>2. CASE Target \notin ToSet(todo)
      BY <3>2, <2>1
    <3>. QED BY <3>1, <3>2
  <2>5. dynamic' = {}
    BY <1>4, <2>2 DEF StartupLookup, Place
  <2>6. Quiet'
    BY <2>2, <2>4, <2>5 DEF Quiet
  <2>7. CASE n = Target
    <3>1. todo # <<>> /\ Head(todo) \in ToSet(todo)
      <4>1. Len(todo) \in Nat \ {0} /\ DOMAIN todo = 1 .. Len(todo) /\ Head(todo) = todo[1]
        BY <1>4, EmptySeq, LenProperties DEF StartupLookup, TypeOK
      <4>. QED BY <1>4, <4>1 DEF ToSet, StartupLookup
    <3>2. todo = Lookups
      BY <2>2, <2>7, <3>1 DEF Quiet
    <3>3. Placed = {}
      BY <2>3, <3>2, LookupsFacts
    <3>4. Placed' = {}
      BY <2>1, <2>3, <2>7, <3>3, NameAssumption
    <3>. QED BY <2>5, <2>6, <3>4 DEF KeysUnique, SocketsFollowTarget, Live
  <2>8. CASE n # Target
    <3>1. n \in Binding /\ Place(n) /\ target' = target
      BY <1>4, <2>1, <2>8 DEF StartupLookup, Place, Name
    <3>2. Placed' \subseteq Placed \cup {n} /\ Placed \subseteq Binding
      BY <2>1, <2>3
    <3>3. key' = [key EXCEPT ![n] = <<dns[n], Port[n]>>] /\ key \in [Binding -> Key]
      BY <3>1 DEF Place, TypeOK
    <3>4. \A other \in Placed : key[other] # <<dns[n], Port[n]>>
      BY <3>1 DEF Place
    <3>5. KeysUnique'
      <4>1. SUFFICES ASSUME NEW a \in Placed', NEW b \in Placed', a # b PROVE key'[a] # key'[b]
        BY <2>5 DEF KeysUnique
      <4>2. \A c \in Binding \ {n} : key'[c] = key[c]
        BY <3>3
      <4>3. key'[n] = <<dns[n], Port[n]>>
        BY <3>1, <3>3
      <4>4. CASE a = n
        BY <3>2, <3>4, <4>1, <4>2, <4>3, <4>4
      <4>5. CASE b = n
        BY <3>2, <3>4, <4>1, <4>2, <4>3, <4>5
      <4>6. CASE a # n /\ b # n
        BY <3>2, <4>1, <4>2, <4>6 DEF KeysUnique
      <4>. QED BY <4>4, <4>5, <4>6
    <3>6. SocketsFollowTarget'
      <4>1. {n} \in SUBSET Session /\ target \in Addr /\ Connect({n}, target)
        BY <3>1 DEF Session, TypeOK, Place
      <4>2. /\ \A s \in {n} \ missed' : sock'[s] = target
            /\ \A s \in Session \ {n} : sock'[s] = sock[s] /\ (s \in missed <=> s \in missed')
        BY <4>1, ConnectFacts
      <4>3. Live' \subseteq Live \cup {n} /\ Live \subseteq Session
        BY <2>2, <2>5, <3>2 DEF Live, Session
      <4>. QED BY <3>1, <4>2, <4>3 DEF SocketsFollowTarget
    <3>. QED BY <2>6, <3>5, <3>6
  <2>. QED BY <2>7, <2>8
<1>5. CASE StartupFails
  <2>1. main \in {"startup", "starting"} /\ main' = "exited" /\ todo' = todo /\ UNCHANGED table
    BY <1>5 DEF StartupFails, Exits, helper
  <2>2. Placed' = Placed
    <3>1. CASE main = "startup"
      BY <2>1, <3>1 DEF Placed
    <3>2. CASE main = "starting"
      BY <2>1, <3>2 DEF Placed, Quiet, ToSet
    <3>. QED BY <2>1, <3>1, <3>2
  <2>. QED BY <1>5, <2>1, <2>2, TableKept DEF StartupFails, Exits, helper, table, Quiet
<1>6. CASE StartupDone
  <2>1. ToSet(<<>>) = {}
    BY DEF ToSet
  <2>2. Placed' = Placed /\ UNCHANGED table
    BY <1>6, <2>1 DEF StartupDone, helper, Placed
  <2>. QED BY <1>6, <2>2, TableKept DEF StartupDone, helper, table, Quiet
<1>7. CASE StartThread \/ ResultReady \/ Drained
  <2>1. main' \in {"loop", "drain"} /\ main \in {"starting", "loop", "drain"} /\ UNCHANGED table
    BY <1>7 DEF StartThread, ResultReady, Drained
  <2>2. Placed' = Placed
    BY <2>1 DEF Placed
  <2>. QED BY <2>1, <2>2, TableKept DEF Quiet
<1>8. CASE ApplyResult
  <2>. DEFINE r == Head(results)
  <2>1. r \in Result
    BY <1>8, HeadAndTail DEF TypeOK, ApplyResult
  <2>2. main = "drain" /\ main' = "drain" /\ Placed = Binding /\ Placed' = Binding
    BY <1>8 DEF ApplyResult, Placed
  <2>3. Quiet'
    BY <2>2 DEF Quiet
  <2>4. CASE r.addr = Unresolved
    <3>1. UNCHANGED table
      BY <1>8, <2>4 DEF ApplyResult
    <3>. QED BY <2>2, <2>3, <3>1, TableKept
  <2>5. CASE r.addr # Unresolved /\ r.name = Target
    <3>1. r.addr \in Addr /\ ApplyTarget(r.addr)
      BY <1>8, <2>1, <2>5 DEF ApplyResult, Result
    <3>2. UNCHANGED <<key, dynamic>> /\ Live' = Live /\ target' = r.addr
      BY <2>2, <3>1 DEF ApplyTarget, Live
    <3>3. KeysUnique'
      BY <2>2, <3>2 DEF KeysUnique
    <3>4. CASE r.addr = target
      BY <2>3, <3>1, <3>2, <3>3, <3>4 DEF ApplyTarget, SocketsFollowTarget
    <3>5. CASE r.addr # target
      <4>1. Live \in SUBSET Session
        BY DEF Live, Placed, Session, TypeOK
      <4>2. \A s \in Live \ missed' : sock'[s] = r.addr
        BY <3>1, <3>5, <4>1, ConnectFacts DEF ApplyTarget
      <4>. QED BY <2>3, <3>2, <3>3, <4>2 DEF SocketsFollowTarget
    <3>. QED BY <3>4, <3>5
  <2>6. CASE r.addr # Unresolved /\ r.name # Target
    <3>. DEFINE b == r.name  k == <<r.addr, Port[b]>>
    <3>1. r.addr \in Addr /\ b \in Binding /\ ApplyBinding(b, r.addr)
      BY <1>8, <2>1, <2>6 DEF ApplyResult, Result, Name
    <3>2. UNCHANGED <<target, dynamic, sock, missed>> /\ Live' = Live
      BY <2>2, <3>1 DEF ApplyBinding, Live
    <3>3. SocketsFollowTarget'
      BY <3>2 DEF SocketsFollowTarget
    <3>4. key' = [key EXCEPT ![b] = IF Taken(b, k) THEN key[b] ELSE k] /\ key \in [Binding -> Key]
      BY <3>1 DEF ApplyBinding, TypeOK
    <3>5. CASE Taken(b, k)
      <4>1. key' = key
        BY <3>1, <3>4, <3>5
      <4>. QED BY <2>2, <2>3, <3>2, <3>3, <4>1 DEF KeysUnique
    <3>6. CASE ~Taken(b, k)
      <4>1. key'[b] = k /\ \A c \in Binding \ {b} : key'[c] = key[c]
        BY <3>1, <3>4, <3>6
      <4>2. k \notin dynamic /\ \A c \in Binding \ {b} : key[c] # k
        BY <3>6 DEF Taken
      <4>. HIDE DEF k
      <4>3. \A c, d \in Binding : c # d => key'[c] # key'[d]
        BY <2>2, <4>1, <4>2 DEF KeysUnique
      <4>4. \A c \in Binding : key'[c] \notin dynamic
        BY <2>2, <4>1, <4>2 DEF KeysUnique
      <4>. QED BY <2>2, <2>3, <3>2, <3>3, <4>3, <4>4 DEF KeysUnique
    <3>. QED BY <3>5, <3>6
  <2>. QED BY <2>4, <2>5, <2>6
<1>9. ASSUME NEW k \in Peer, OpenSession(k) PROVE IInv'
  <2>1. main = "loop" /\ main' = "loop" /\ Placed = Binding /\ Placed' = Binding
    BY <1>9 DEF OpenSession, Placed
  <2>2. dynamic' = dynamic \cup {k} /\ (\A b \in Binding : key[b] # k) /\ UNCHANGED <<target, key>>
    BY <1>9 DEF OpenSession
  <2>3. {k} \in SUBSET Session /\ target \in Addr /\ Connect({k}, target)
    BY <1>9 DEF OpenSession, Session, TypeOK
  <2>4. /\ \A s \in {k} \ missed' : sock'[s] = target
        /\ \A s \in Session \ {k} : sock'[s] = sock[s] /\ (s \in missed <=> s \in missed')
    BY <2>3, ConnectFacts
  <2>5. Live' = Live \cup {k} /\ Live \subseteq Session
    BY <2>1, <2>2 DEF Live, Session, TypeOK
  <2>6. SocketsFollowTarget'
    BY <2>2, <2>4, <2>5 DEF SocketsFollowTarget
  <2>7. KeysUnique'
    BY <2>1, <2>2 DEF KeysUnique
  <2>. QED BY <2>1, <2>6, <2>7 DEF Quiet
<1>10. ASSUME NEW k \in Peer, CloseSession(k) PROVE IInv'
  <2>1. main = "loop" /\ main' = "loop" /\ Placed = Binding /\ Placed' = Binding
    BY <1>10 DEF CloseSession, Placed
  <2>2. /\ dynamic' = dynamic \ {k} /\ missed' = missed \ {k}
        /\ UNCHANGED <<target, key>>
    BY <1>10 DEF CloseSession
  <2>3. Binding \cap Peer = {}
    BY NameAssumption
  <2>5. \A s \in Session \ {k} : sock'[s] = sock[s]
    BY <1>10 DEF CloseSession, TypeOK
  <2>6. Live' = Live \ {k} /\ Live \subseteq Session
    BY <2>1, <2>2, <2>3 DEF Live, Session, TypeOK
  <2>4. SocketsFollowTarget'
    BY <2>2, <2>5, <2>6 DEF SocketsFollowTarget
  <2>. QED BY <2>1, <2>2, <2>4 DEF Quiet, KeysUnique
<1>11. CASE UNCHANGED vars
  <2>1. Placed' = Placed /\ UNCHANGED table
    BY <1>11 DEF vars, Placed, table
  <2>. QED BY <1>11, <2>1, TableKept DEF vars, Quiet
<1>. QED
  BY <1>1, <1>2, <1>3, <1>4, <1>5, <1>6, <1>7, <1>8, <1>9, <1>10, <1>11, AnswersType DEF Next

(* The connection table never holds two sessions under one client address: *)
(* not after the startup lookups, and not when bindings move while dynamic *)
(* sessions come and go.                                                   *)
THEOREM KeysStayUnique == Spec => []KeysUnique
<1>1. IInv => KeysUnique
  BY DEF IInv
<1>. QED BY InitType, NextType, InitInv, NextInv, <1>1, PTL DEF Spec

(* Every session's socket is connected to the target address in use, or    *)
(* the kernel refused to connect it.                                       *)
THEOREM SocketsStayWithTarget == Spec => []SocketsFollowTarget
<1>1. IInv => SocketsFollowTarget
  BY DEF IInv
<1>. QED BY InitType, NextType, InitInv, NextInv, <1>1, PTL DEF Spec
=============================================================================
