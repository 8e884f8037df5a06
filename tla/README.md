# A TLA+ model of wg-obfuscator

wg-obfuscator sits between WireGuard and the network, obfuscates plain WireGuard packets and
restores obfuscated ones. It is a C program of one event loop, one optional helper thread for
DNS lookups, and one process per section of its configuration file. This directory holds its
TLA+ modules, the TLC configurations that check them, and TLAPS proofs of every safety property
that the runs check.

## Inventory

| Component | State | Operations | Interacts with |
|---|---|---|---|
| Client entry (`wg-obfuscator.h`, handlers in `main`) | handshake flag and direction, obfuscation flags of both sides, clean flag, version, masking handler, four time stamps | handshake request, response, other packet, from either side | read and written by event loop, sweep and masking handler |
| Connection table and event loop (`wg-obfuscator.c` 422-595, 922-1334) | hash table of entries by client address, one connected socket per entry, `now`, `last_cleanup_time` | epoll batch, client handler, server handler, sweep, masking timer | peers by UDP; the resolver's result pipe; signals (EINTR) |
| Masking (`masking.c`, `masking_stun.c`) | none of its own; the handler is a field of the entry | choose a handler, unwrap, wrap, greet a handshake, answer a binding request, ping on a timer | called by both handlers and the sweep |
| Re-resolution (`wg-obfuscator.c` 86-372) | wake pipe, result pipe, `forward_addr`, names of bindings | startup lookups, helper thread, apply a result | SIGHUP handler writes the wake pipe; main loop reads results and rewrites the table |
| Instances (`config.c` 200-219, `wg-obfuscator.c` 382-411, 740-927) | a process per section, `child_pids`, `log_reopen_pending` | fork, install handlers, get into the main loop, SIGHUP, exit | SIGHUP passed from process to process; the log file is shared |
| Log file (`logging.c`) | descriptor | `log_init`, `log_reopen` | logrotate renames the file |
| Keystream (`obfuscation.c`) | 256 cached rows | `xor_data` | called by `encode` and `decode` |
| Codec (`obfuscation.h`) | none | `encode`, `decode` | the obfuscator on the other side must invert it |
| Configuration (`config.c`, `mini_argp.h`) | the open file and its stdio buffer, options, section | read a block, section header, option, fork, close, error | children inherit options, buffer and the file's offset; read-only after startup |
| Two obfuscators end to end | both tables | the same handlers, with different options | each is the other's peer, over a lossy network |
| Packaging (OpenWrt, LuCI, Nix, Docker, CI) | none at run time | | generates the configuration file |

What is hard here:

- **Stale entries.** Everything the loop knows of a peer is in an entry that is updated by
  packets of two sides, in any order, and thrown away by three timeouts. Flags set by a response
  are used by later pings, versions and masks seen once are used ever after.
- **Time.** One sweep, run at most every `ITERATE_INTERVAL` and only when `epoll_wait` returned
  without `EINTR`, decides about all timeouts. Stamps of 0 stand for "never", and also for "at boot".
- **Concurrency.** The helper thread, the signal handler and the loop share two pipes and two
  flags. The table is keyed by addresses which the resolver rewrites while clients come and go.
- **Processes.** Signals are forwarded by processes which inherited parts of the same list, and
  may arrive before their receiver is ready.
  They share the offset of the file they read and the log they write.
- **Agreement at a distance.** The other side of the tunnel decodes with another cache history,
  another random number generator and possibly an older version. It expires its sessions on its
  own, and handshakes of two sides may cross.
- **Clock.** All times are a `long` in milliseconds since boot, which wraps where `long` has 32 bits.

`PROJECT.json` lists each of these as a hazard with its line and the properties that cover it.

## Modules

| Module | What it models |
|---|---|
| `ClientEntry` | An entry and what one accepted packet does to it, as pure operators |
| `Sessions` | The table and the event loop over it |
| `Relay` | What the table promises, without clocks, masks, versions or batches |
| `SessionsHistory` | `Sessions` with two history variables, and sentences of the README about the past |
| `SessionsProofs` | Theorems about `Sessions`: types, table, timeouts, refinement of `Relay` |
| `PeersProofs` | That every peer of `Sessions` gets what it can read |
| `Tunnel` | Two obfuscators, each an instance of `ClientEntry`, two WireGuard peers and the network |
| `TunnelProofs` | Theorems about `Tunnel` |
| `Uptime` | The sweep with a clock of finite width |
| `Resolver` | Startup lookups, helper thread, pipes, and results applied to target and bindings |
| `ResolverProofs` | Theorems about `Resolver` |
| `ConfigFile` | The configuration file read, forked and closed by parent and children |
| `ConfigFileProofs` | Theorems about `ConfigFile` |
| `Instances` | Processes, SIGHUP and the log file |
| `Service` | `ConfigFile` and `Instances` composed: the readers of the file become the instances |
| `Keystream` | The row cache against the bit-by-bit definition |
| `KeystreamProofs` | Theorems about `Keystream` |
| `Codec` | One packet encoded, wrapped, unwrapped and decoded |
| `CodecProofs` | Theorems about `Codec` |
| `ServiceProofs` | That `Service` implements `ConfigFile`, what follows, and the path of a SIGHUP |
| `MCSessions`, `MCSessionsHistory`, `MCResolver`, `MCConfigFile`, `MCService`, `MCKeystream`, `MCCodec` | Instances for TLC |

Operators whose comment begins with "Mutant of" are deliberate mistakes. Each stands before the
definition it spoils; put in its place it makes the property named in `PROJECT.json` fail, which
shows that the property depends on that piece of code. No specification uses them.

### How the model corresponds to the code

**Packets.** A datagram is `[mask, enc, type]`: wrapped in STUN or not; plain, or decoded as
version 0 or 1; request, response or other. This is all that the handlers' conditions look at.
Cookie replies and transport data take the same branches. Payload, lengths and keys are left to
`Codec` and `Keystream`. A decoded packet of unknown type takes
them too; one that does not decode at all has no effect, and `ReadNothing` stands for it.

**Sessions.** `Wake` is the return of `epoll_wait` with any subset of the ready sockets, which
includes the cut at `MAX_EVENTS`. `FromClient` and `FromServer` are one whole pass of the handler, from `recvfrom`
to the activity stamps after `send`; `DropFromClient` and `DropFromServer` are its `continue`
branches with a packet in hand. `EndBatch` includes the sweep and the masking timer, as in the
code, where the sweep is the tail of the loop body. `Interrupted` is the `continue` on `EINTR`, which skips it. A batch takes
no time because the code reads the clock once per batch. Sending may fail, which leaves the
stamps alone. A new session may fail for lack of a socket or memory: then the packet is dropped.
The variables `requested`, `spoke` and `out` are not in the code: they record the direction of a session's last
request, the form of its client's last request, and the packets of the last step, for properties only.

One configuration is one instance of the constants: `Masking`, `AllowClean`, the timeouts, and
the forms in which clients and target speak. `ClientForms[c]` with one element is a peer that
keeps to its form, as a well-configured one does. A client of several forms is one whose obfuscator is
switched off, updated or given another mask while its entry is in the table.

**Tunnel.** C is the obfuscator on the side of peer A, which always begins; S is the one on the side of
B. Every packet goes through the two handlers of `ClientEntry`, with the options of C or of S;
`FromA` and `DeliverUp` are client handlers, `FromB` and `DeliverDown` server handlers. In
"one-way" mode C opens sessions as in the code, with a new source port each time, and to S that
port is the client; in "two-way" mode both have a static binding. Restarts, expired sessions
and expired handshake stamps are actions. When a session of S is gone, so is the socket B answered to:
`reaches` says whether B's packets still find the session they are sent to. A new session of the same source
port has another socket, and B finds it only by hearing from it. Time is in no clock: a stamp is `Now`, or 0 when it is
older than the handshake timeout. The WireGuard peers are external: what is assumed of them is
that they begin, repeat and answer handshakes, and drop what is no longer valid.

**Uptime.** One dynamic session, the sweep and its two stamps, with all differences taken modulo
the range of `long`. `time` is the true uptime and `Now` what the program sees of it.

**Resolver.** At startup one lookup per step, in the order of the options. A lookup that fails is
repeated when there is an interval (the step waits for the name to resolve) and ends the program otherwise. What follows a
lookup may end it, too: a binding whose address is taken must, and one whose socket, port, `bind` or `epoll_ctl`
fails may (`StartupFails`). After that, one action per step that another thread or the signal handler can see: poll
returns, the wake pipe is drained, one lookup, its write to the result pipe, which waits for room and may carry an
address that has changed since, end of a round; the main loop takes one result at a time. `dns` is the
world's answer and changes at any time. A lookup may fail (`Unresolved`). `connect` may fail for any subset of the
sockets. `sighup_handler` runs between any two steps.

**Instances.** A signal is a pending bit per process, as for all non-queued signals. The steps of
the main loop that race with it (test the flag, reopen, enter the wait) are separate actions.
`Main` is the parsing process, which serves the last section. Between `signal` and the main loop an instance is
"starting": it resolves the names of its target and bindings, which may take for ever, and looks at no flag; a SIGHUP
it is sent then sets the flag. `Exits` is the end of an instance at any point after parsing: a setting that does not
do, a log file or a socket that cannot be had, a name that does not resolve, SIGTERM. It stays a zombie as nobody waits for it, so its
pid is not used again. `failed` is in no variable of the code: it is the request an instance's last failed `open` was for.

**ConfigFile, Service.** A line is a section header, an option, or invalid; comments and empty
lines do nothing. The parent reads blocks of `Block` lines into its stdio buffer, and a fork copies
buffer, options and section. What `fclose` does to the common offset is a constant, `FcloseSeeks`,
as it depends on the C library: the offset stays (older glibc), or goes back to what the stream has
used (POSIX, musl, recent glibc). The options of a process are the list of where they came from: line numbers, and the
arguments before and after `-c`. In `Service` a step of one of the two modules is a step of the
process, and the fork is a step of both.

**Keystream, Codec.** `Keystream` computes real bytes, with `Crc8Step` as the definition of the
wire format. `Codec` follows lengths, the four header bytes and the place in `full_buffer`; an
XOR is represented by the length class of its stream, which is all that the stream depends on
for a given key, as `StreamExact` shows. Under a keystream a header is taken never to look like a WireGuard type; in the
code that is true except with probability 4 / 2^32. The `^` of C is a constant operator, `XorBytes`, that
the configurations set to the exclusive or of the library and of which the proofs know two assumptions.

## Runs

| Run | Question | Bounds |
|---|---|---|
| `server_side` | Is the sweep punctual and every timeout kept? Does each client get what it can read, whoever had the slot before and however it changes? | AUTO with allow-clean; a version 0 client, a plain one and one that changes between plain and STUN, 1 slot, time 2..9, 1 EINTR per wait |
| `client_side` | Does plain WireGuard never see a STUN packet; does the loop implement `Relay`? | static binding and dynamic client, both sides may ask, time 2..4 |
| `resolver` | Are table keys unique, sockets up to date, signals answered? | with and without interval, 2 bindings on 3 addresses, a target on 2, 1 dynamic peer, 1 change, 2 signals, pipe of 1 result |
| `instances` | Has each instance its section's options; is no request to reopen lost, does it reach all and die out? | a file of 3 sections and one that is invalid behind its first fork, buffer of 4 lines, 2 rotations, open() fails for instance 1 at will, 1 instance exits |
| `tunnel` | Does the tunnel come up again after whatever happened, and stay up; can a handshake pass? | both modes, 2 sessions in S, 3 source ports, 2 messages in flight, 2 faults, 1 request by B |
| `keystream` | Is the cached stream the bit-by-bit one? | 3 classes, rows up to 6 bytes in chunks of 4, key of 5, packets up to 9 |
| `codec` | Does a packet arrive as it was sent, inside the buffer? | constants of the code, boundary lengths, all dummy lengths |

Why the bounds are enough:

- The timeouts of `server_side` differ pairwise where the code compares them, so each one alone can
  remove a session, and the clock runs long enough to open a session, lose it to any timeout, and
  open another in the same slot. The timeouts are proved for all values anyway. It has more
  clients than slots, so a slot passes from one kind of client to another. The changing client opens sessions, is answered,
  pinged and swept in any of its forms, and as each of its packets has any form, late packets of an old one come too. Static bindings cannot be
  combined with allow-clean in one run; the theorem about `AnswersLastRequest` includes them.
- `client_side` is short, but half-open expiry, idle expiry and reopening all happen in it. The
  refinement it checks is proved for all values.
- In `resolver` every name may start unresolved or anywhere, so the startup sees two bindings with one address
  and every refusal by the kernel; one change suffices to move a name while the old address lives on, and with one change the target has two addresses at most. The pipe is smaller than a round, so the thread blocks, with one result in the pipe and the next one in hand; and a second signal can
  arrive in every phase of the round begun by the first. Two bindings with one port can collide
  with each other, two of three addresses being free, and with the dynamic peer.
- In `instances` the second of three sections has both a sibling before and one after it, and the
  file spans two buffers, so a child is forked with and without unread lines. Options stand in
  front of the first header, and a section is empty. Signals fall on instances that still parse or resolve. One exit is
  enough for the signal to lose its sender, its receiver or an instance that passes it on.
- In `tunnel` two faults are enough for one at each obfuscator, or one there and a message that is
  repeated or comes too late; two sessions in S are enough to fill it with deserted ones, and two
  messages in flight to let requests cross and responses overtake.
- `doc_wrap` scales `long` down to 40 values; what is compared is smaller than half of that, as in the
  code. Starts with less uptime pass, also when the clock wraps later.
- In `keystream` the row limit is no multiple of the chunk, the chunk none of the key length, and
  packets are longer than a row, so every branch of `grow_row` and `xor_data` has a seam to get wrong.

`CHECK_DEADLOCK FALSE` is set where a system may come to rest: in `resolver` with no signal left
and no periodic lookup or when the program has exited, in `instances` when an invalid line has ended the parent before
anything else was forked, in `doc_sections` when the file is read, in `doc_wrap` when the program
has run for `MaxRun`, in `codec` when the packet has arrived.

### Properties

- `CleanupPunctual`: the sweep is put off at most by its interval, one `epoll_wait`, and one more
  per `EINTR` in a row. `Lag` is this bound. A process that receives signals faster than
  `POLL_TIMEOUT` and no packets never sweeps; that is in the code and visible in `Lag`.
- `IdleSessionsExpire`, `HalfOpenSessionsExpire`, `SilentTargetsExpire`: the three timeouts, each
  up to `Lag`.
- `TableSound`: no event of a batch outlives its entry; static bindings stay; the table keeps its limit.
- `PeersUnderstand`: every packet the obfuscator sends on its own or relays, STUN pings included,
  has a form the receiver takes. The session of a client that changes its form is exempt.
- `AnswersLastRequest`: what a session sends to a client that changes its form is in the form of the
  client's last request. The clean flag is decided anew at each request and the version only ever
  falls; the handler is not detected anew, and a request it does not unwrap is dropped and not answered.
- `ImplementsRelay`: a response is relayed only against the latest request of its session, other
  packets only after a response, and nothing survives the end of a session.
- `HandshakeWouldComplete`: in every state in which S has the session of A's port or room for it, whatever
  both tables remember, a handshake that A begins would complete and data would pass, if nothing disturbed it.
  Stale directions, masks, clean flags and versions lock nobody out. Nor does a full table for good:
  if it has two places or more, one of its sessions is deserted, and S sweeps it in the end. With `max-clients`
  of 1 the only place may be that of the session B still writes to, which keeps it alive (`doc_idle`).
- `UpStaysUp`: a tunnel that passes data stops doing so through a fault only; no repeated, late or
  crossing handshake message has this effect. Each side answers with flags of the other's last messages,
  so this is where they could part.
- `TunnelRecovers`: after the last fault the tunnel comes up for good.
- `OwnOptions`, `EverySectionOnce`: each process has the options of its own section, all of them and
  in order, and none of another section or from in front of `-c`; the sections and the processes match one to one.
- `KeysUnique`, `SocketsFollowTarget`, `SighupRefreshes`: the resolver. `KeysUnique` holds from the first binding on. A signal during a round
  must cause another round, and the results must be applied in order for the last one to win.
- `NoReloadLost`: an instance that writes to an older file than logrotate last asked for is on its way
  to reopen it: the signal is pending at it or at the main process, or its flag is set, or its loop has
  taken the flag. An `open` that fails excuses it from that one request, and nothing is asked once the instance or the
  main process is gone.
- `ReloadReachesAll`, `SignalsSettle`: every instance that gets through its startup lookups does in the end what the latest signal
  asked for; and forwarding signals along inherited lists ends.
- `StreamExact`, `RowsSound`, `RoundTrip`, `StaysInBuffer`: the wire format.

### Where the documentation and the program part

Each of these runs ends in a counterexample; `PROJECT.json` quotes the sentences.

- `doc_in_timeout`: with `in-timeout` set, a new session is removed by the first sweep after its
  creation, because the stamp it is counted from is still 0 and the clock is the uptime. (Kept
  sessions are those whose target answers before that sweep.)
- `doc_idle`: a client that has gone keeps its session while the target sends, because packets of the
  target are stamped as activity. `IdleSessionsExpire` is the promise the code keeps.
- `doc_reload`: the main process may forward SIGHUP to an instance that has not called `signal`
  yet, for example because `source-if` is being resolved, and so terminates it.
- `doc_wrap`: in a 32-bit build that starts at an uptime at which the clock reads negative (24.9 to 49.7 days),
  no session is removed until the clock is positive again.
- `doc_sections`: where `fclose` sets the common offset back, a child that closes its copy of the
  file makes the parent read lines again that the child had not used, unless the parent has closed the
  file already. Files of a few lines fit one buffer, so the race needs the child to close before the parent asks for more:
  usually at the end of the file. With `FcloseSeeks = FALSE` the property is proved.

Seen while modelling, and not made a run:

- With masking AUTO the handler is detected only for clients without an entry (masking.c:79), so
  masked packets for a static binding are dropped (README.md:298 speaks of the first packet).
- A client is classified as clean anew at each of its handshakes (wg-obfuscator.c:1077), where
  README.md:307 has it remembered for the whole session.
- A binding does not follow its host name while a dynamic session from the new address exists
  (wg-obfuscator.c:285), which the peer opens itself by coming from there before the next lookup (README.md:194).
- After an `in-timeout` the next session starts with the next handshake request, not with any
  packet (README.md:188).
- A SIGHUP between the startup lookups and the creation of the wake pipe is lost (README.md:194).
- An invalid line ends the parent only: the children it has forked go on, and nobody passes SIGHUP on to them (config.c:242).

### Fairness

Safety runs use none. `Resolver` assumes weak fairness of the helper thread and of the main
loop, each as a whole: both are scheduled by the kernel, neither waits for anything but its pipe
or timer, `epoll` reports a non-empty pipe until it is drained and the interval timer recurs. It assumes nothing of signals or
clients, and of the DNS that `getaddrinfo` returns, with whatever result. `Instances` assumes that processes are scheduled, pending signals are delivered and
`epoll_wait` returns after `POLL_TIMEOUT`. It assumes nothing of logrotate, and nothing between `signal` and the main
loop: there `resolve_hostname_startup` may try for ever, and `EntersLoop` may never happen. `Service` keeps these assumptions and adds that every process that reads
or closes the file is scheduled.

`Tunnel` assumes of the code only that deserted sessions of S are swept in the end, which
`HalfOpenSessionsExpire` and `IdleSessionsExpire` show of `Sessions`. The rest is about the
surroundings: A asks for a handshake again and again, which WireGuard does while it is unanswered
and every two minutes; B answers; A has something to send; and of the messages of one kind that
are sent again and again one gets through. These are strong fairness, as each is disabled and
enabled again in between. Messages do not stay in flight for ever. Nothing is assumed of requests by B or of
faults. Faults are bounded: the property is about the time after the last one. WireGuard retries
after 5 s, when nothing of the last attempt is under way any more; a request while something is counts as a
fault, since without any bound on it an answer could be overtaken by the next request for ever.

## Proofs

The theorems hold for every value of the constants under the assumptions that the modules name.
`SessionsProofs` and `PeersProofs` cover every finite set of clients, every table size, every combination of
options and all timeouts; `ResolverProofs` every set of bindings, addresses and clients and every pipe;
`ConfigFileProofs` and `ServiceProofs` every file, every size of the buffer, and every number of sections
and rotations; `TunnelProofs` both setups and every number of sessions, source ports, messages in flight
and faults; `KeystreamProofs` every key, row limit and history; `CodecProofs` every length, limit and
random choice. Every invariant and every action property of a passing run is the subject of a theorem.

| Theorem | States |
|---|---|
| `TypeCorrect` | `Spec => []TypeOK` |
| `TableStaysSound` | `Spec => []TableSound` |
| `SweepIsPunctual` | `Spec => []CleanupPunctual` |
| `IdleSessionsGo`, `HalfOpenSessionsGo`, `SilentTargetsGo` | `Spec => []` the three expiry properties |
| `SessionsImplementRelay` | `Spec => ImplementsRelay` |
| `PeersAlwaysUnderstand` | `Spec => []PeersUnderstand`, if `Deployed` |
| `LastRequestAnswered` | `Spec => []AnswersLastRequest`, if `InFront` |
| `ResolverTypeCorrect` | `Spec => []TypeOK`, of `Resolver` |
| `KeysStayUnique` | `Spec => []KeysUnique` |
| `SocketsStayWithTarget` | `Spec => []SocketsFollowTarget` |
| `FileTypeCorrect` | `Spec => []TypeOK`, of `ConfigFile` |
| `SectionsServedOnce` | `Spec => []EverySectionOnce`, of `ConfigFile`, if `~FcloseSeeks` |
| `SectionsKeepTheirOptions` | `Spec => []OwnOptions`, of `ConfigFile`, if `~FcloseSeeks` |
| `ServiceServesSectionsOnce`, `ServiceKeepsOptionsApart` | the same of `Service` |
| `ServiceTypeCorrect` | `Spec => []TypeOK`, of `Service` |
| `NoReloadIsLost` | `Spec => []NoReloadLost`, of `Service` |
| `SignalsGoBack` | `Spec => []PointsBack`: SIGHUP is passed on to earlier sections only |
| `TunnelTypeCorrect` | `Spec => []TypeOK`, of `Tunnel` |
| `HandshakeStaysPossible` | `Spec => []HandshakeWouldComplete` |
| `TunnelStaysUp` | `Spec => UpStaysUp` |
| `RowsStaySound` | `Spec => []RowsSound` |
| `StreamAlwaysExact` | `Spec => []StreamExact` |
| `EncodeThenDecode` | `Spec => []RoundTrip` |
| `PacketsStayInBuffer` | `Spec => []StaysInBuffer` |

**Assumptions.** `UptimeAssumption` is the one that is not obvious: the program starts when the
machine has been up for more than `HANDSHAKE_TIMEOUT` (5 s) and at least `ITERATE_INTERVAL`. Without it a static entry, whose
request stamp is 0, would take a response nobody asked for right after boot, and `Relay` would not be
implemented. `Deployed` says how README.md has an obfuscator set up: its target is WireGuard, or
an obfuscator with the mask of the options; every client keeps to one form, plain ones are admitted by `allow-clean`,
and a static binding has the configured mask and the current version, as it may be sent to before it is
heard. TLC evaluates it on both instances of `Sessions`. Without it the property is false: a static client
with another mask gets what it cannot read. `XorAssumption` has it that an exclusive or of two bytes is a byte and undoes itself, and
`TableAssumption` that `crc8_step` is linear, so that two table lookups give the same byte; TLC evaluates both over all
pairs of bytes with the real operator. `CodecAssumption` relates the
limits of the code to each other (the mask's header fits in front of the buffer, dummy data into it).
The rest say that constants are numbers and that the static bindings fit the table.

**Timeouts.** None of the four timeout properties is inductive: that a session is not overdue
*now* says nothing after the next tick. The inductive invariant `TimingInv` measures from `Base`,
the last sweep:
`ClockInv` has it that the current wait began less than one interval after `Base`, plus one poll
timeout per EINTR, and that the clock is at most one poll timeout ahead of the wait;
`SurvivorInv` has it that no dynamic session was overdue at `Base`. A sweep re-establishes the
second, since it removes what is overdue; packets only move stamps forward; opening a session gives it the
current time. `TimingBounds` adds the two up to the four properties.

**Refinement.** A step of `Sessions` maps to a step of `Relay` or to a stutter under
`sessions <- live, asked <- requested, open <- handshaked`. That an accepted response is an `Answer` needs `StampInv`:
the direction of an entry with a request stamp is that of the session's last request. Together with
`UptimeAssumption` it excludes an answer before the first request.

**Peers.** `PeersUnderstand` speaks of one step's packets; what makes it hold is in the entries.
`InStep` relates an entry to the forms its client and its target speak: the clean flag is set for
plain clients only, the handler is STUN if either side is masked, the version is 0 for a version 0 client and 1
towards a version 1 target, and the flags the pings go by are set only for a side that is masked.
It is inductive for all entries at once: a new entry gets it from its first packet, the downgrade and
every new classification keep it because no peer changes its form.

**Clients that change.** For `AnswersLastRequest` a client may speak differently from packet to packet, and
`AsAsked` relates an entry to the form of the last request only: clean if that was plain, STUN if it was masked,
version 0 if it was of version 0. A request brings this about whatever the entry was before, because `Readable` drops
one whose mask is not the entry's; all other steps leave those fields alone (`Kept`), except that a late packet of version 0
may bring the version down, which every later client can still read. Plain clients without allow-clean are left out by `InFront`.

**Resolver.** `KeysUnique` and `SocketsFollowTarget` are inductive together with `Quiet`: while the
program starts there is neither a thread nor a dynamic session, and as long as the target is
still to be looked up, so is every binding; and when the thread is to be started, every binding is placed. Without it a binding could be placed before the target is known, or on the key of a
dynamic session. `NameAssumption` gives the order of the lookups, which is that of the code.

**Configuration file.** `Progress` has it that the parent's buffer holds consecutive lines up to
the offset, that the headers in front of the buffer are exactly the sections that parent and
children serve, each once, and that a parent past the end of the file has used all of it. A fork hands
the parent's section to the child and gives the parent the next header, which keeps it; `Fclose` keeps it
only because it does not move the offset, which is where `~FcloseSeeks` is used.
`Taken` adds what the options are: those of the lines the parent has used since its header, or, once a
child has left, those of a whole section up to the next header or the end of the file. It needs the part of `Progress` by
which the buffer goes on exactly where the parent has got to.
Every step of `Service` is a step of `ConfigFile` or leaves its variables alone, so `ServiceProofs`
takes both theorems over by refinement.

**Reload.** `NoReloadLost` rests on `Lists`: sections are forked in order, the main process has every
child in its list, no list holds the main process, and nothing is signalled before the main process
has its handler. So a signal taken by the main process is put to every child, and is never passed back; the flag is cleared
only by the loop that goes on to reopen, and an `open` that fails is put down to the request it was for. `SignalsGoBack` is the safety half of `SignalsSettle`: with
`ForkedInOrder`, a list copied at a fork holds earlier sections than that of its owner, so the section
number goes down with every hop of a signal. That every hop is made is fairness and stays with TLC.

**Keystream.** The invariant is `RowsSound` itself, with the types of the rows. What takes work is the
recursion: `Reference` and `Chain` are recursive functions, each a `CHOOSE` of something that has first to
be shown to exist. `SetInduction` derives induction over a set of numbers from the library's well-founded
order, `Iterates` from it that such functions exist, and `StreamsAgree` that any two of them agree as
far as both go. `ChainGoesOn` then joins the first bytes of a stream and a chain from its last byte to
one stream, since `((v % Len(Key)) + j) % Len(Key) = (v + j) % Len(Key)`: the seam between a row and its
growth, and between a row and the tail of a packet.

**Codec.** `OnWire` describes an encoded packet from the plain one: where it starts, its length, and
its four header bytes, from which `Carries` lets version and dummy length be read back. The decoder
takes version 1 for version 0 only if the random byte is zero, which `RandomByte` excludes.

**Tunnel.** Both safety properties rest on `Agreed`: every message between the two obfuscators is
masked and version 1, and so every live entry of either keeps the STUN handler, version 1 and
no clean flag. The one invariant needs the other: S would turn an entry into that of a clean
client at a plain request, and either side would downgrade at a version 0 packet, and neither is ever
sent. Given `Agreed`, `Up` means no more than that both entries are handshaked, which no handler
takes back, and the path of a handshake can be followed from entry to entry whatever their other fields hold.
That a full table has a deserted session needs `Linked`: in "one-way" mode only the sessions of A's present port and of the
port B writes to are in use, and if A's port has none, one of any two is neither.
The assumption behind this is that C configures the mask and that A and B speak plain WireGuard: for
an obfuscator of an older version at the other end nothing is claimed here.

Only model-checked: liveness under fairness, which the provers do not cover (`SighupRefreshes`,
`ReloadReachesAll`, `SignalsSettle`, `TunnelRecovers`). The runs that end in a counterexample have no theorem, of course.

## Not modelled

Parsing and validation of single option values and of arguments (strings that become numbers), log
formatting and levels, uthash (a finite map), memory management outside the keystream cache, the
non-Linux `poll` variant of the loop (it differs in how ready sockets are found, which `Wake` leaves
open), termination by SIGINT and SIGTERM (frees and exits), STUN attributes other than the length of the data,
a line of the file that two stdio blocks share, a lack of memory for the list of bindings to
resolve again (the program runs on without), and packaging.

What the properties do not say, though the model has it: a socket whose `connect` was refused is exempt from
`SocketsFollowTarget`, since the code tries no second time; the instances an error in the file leaves without a parent
are not told of a reload; `TunnelRecovers` is checked with one request of B that crosses A's, and claims nothing of requests
that cross for ever or of a peer under load for ever; S of `Tunnel` has no client but C, and how it deals with plain ones is in
`server_side`.

## Plan

1. *Done:* `ClientEntry`, `Sessions`, `Relay` with refinement; the timeouts; their proofs.
2. *Done:* `Resolver` with startup, and its proofs; `Instances`; `Keystream`; `Codec`.
3. *Done:* `Tunnel`; `ConfigFile` with its proofs; `Service`; `Uptime`; proofs of `Tunnel`.
4. *Done:* proofs of `PeersUnderstand`, `AnswersLastRequest`, `OwnOptions`, `NoReloadLost`, `Keystream` and `Codec`.
5. Proofs: what a round of the resolver leaves behind for `SighupRefreshes`.
6. Results of the resolver applied between two packets of a batch: `Resolver` and `Sessions` composed.
