# A TLA+ model of the MMORPG server showcase

These modules model the code in `src/`: the server framework's TCP connection with
key exchange and encrypted packets, its event loop, its binary streams and
commands, its buffs and combat formula, its database class, and the script that
deploys it. TLC checks them on
small instances; TLAPS proves some of their properties for every value of the
constants. `PROJECT.json` maps each
definition to the lines it models.

    tlc -workers 2 -config PacketStream.cfg MCPacketStream    # one run
    tlapm PacketStreamProofs.tla                              # one module's proofs

1. [The system](#1-the-system)
2. [Modules](#2-modules)
3. [Runs](#3-runs)
4. [Disagreements between code and documentation](#4-disagreements-between-code-and-documentation)
5. [Proofs](#5-proofs)
6. [What is not modelled](#6-what-is-not-modelled)
7. [Plan](#7-plan)

## 1. The system

The repository holds slices of a game server. A server is one process with one
loop thread (`CSJFramework::Run`). The loop dispatches events from a queue and
waits in the socket manager's `EPoll`, which calls `OnRead`, `OnWrite` and
`NetworkError` of each `CMSTCPConnection`. A connection exchanges a session key,
then carries packets: the layer above serializes commands (`CNetCommand<T>`) into
output vectors, and turns each received body back into a command
(`CInterfaceImpl<T>`), which `CZoneInterface::DispatchCommand` routes to a
gameplay handler. Game systems such as `CBuffManager` are plain objects called by
those handlers and by timers; `CPGDatabase` is called synchronously by whoever
needs it. Inside one server process nothing runs in parallel; what interleaves is
the two ends of a connection, the network between them, the clock, and the order
in which handlers happen to be called. Two tools stand beside the servers: a hook
in the client whose log a parser reads, and a script that uploads, builds and
installs a server over SSH.

| Component | State | Operations | What is hard | What makes it correct |
|---|---|---|---|---|
| Packet channel, `network-protocol/tcp_connection.cpp` | output queue, current batch and `WritePtr`; `InputBuffer`, `HeadIndex`, `TailIndex`; `m_readState` and the packet being read; a cipher position per direction | `OnWrite`, `NextOutputPacket`, `OnRead`, `FillInputBuffer`, `OnParsingHeader`, `MakePackets`, `Close` | TCP cuts and joins writes anywhere; `send()` and `recv()` are partial or interrupted; the ring wraps; the two ciphers must never lose step; the end of the stream looks like "would block" except on a first read | bodies arrive unchanged, in order, at most once, and, while both ends are up, eventually; the ring is never full when it is to be filled; an end is noticed |
| Key exchange, same file | `m_networkState`, `State`, `n_buf`, `e_buf`, `n_size`, `e_size`, `ServerPublicKey`, `SessionKeyData`, `WriteLen` | `Open`, `ReadRSAPublicKey`, `SendSessionKey`, `NetworkError`, `Close` | an exchange can be lost in any phase and the same object opened again | the key used is the one this server sent; the session key goes out exactly once; no phase uses what an earlier one freed; an exchange ends |
| Connection life, same file | the socket; the packets being read, sent and queued; `m_readState`, `WritePtr` | constructor, `Open` with its failures, `NetworkError`, `Close`, destructor, everything that allocates or deletes a packet | four places delete packets, and `Open` resets pointers whatever they hold | nothing is used after it is freed or freed twice, nothing is lost, no packet crosses to another connection |
| Event loop, `event-loop/csj_framework.cpp` | event queue, `m_shutdown`, `CurrentSecond`, the timeout handed to `EPoll` | `Init`, `Run()`, `Run(heartBeat)`, `Done`, `Shutdown`, the two `Push` functions | the wait is computed from a clock reading that is already old; handlers push events and request the shutdown from inside the iteration | no queued event is slept over, events and sockets do not starve each other, a shutdown takes effect |
| Binary streams, `serialization/bin_stream.*` | buffer and `m_pos` | `operator<<`, `operator>>` for each type | prefixes narrower than the lengths they hold; an exception in the middle of a compound read | a read is inside the packet or throws |
| Commands, `command-system/*.h` | table of generators, command under construction | `_Serialize`, `GenerateNetCommand`, `serialize`/`deserialize` of each command | the field order is written down twice for each command, the NCID twice | what is dispatched is what was serialized; what is cut is rejected |
| Zone interface, `zone-interface/` | registered commands; character, trade partner, lock, confirmation, gold, slots | factory, constructor, `DispatchCommand`, setters, `ResetTradeState`, `OnClose` | a registered NCID needs its case in the switch; a disconnect in the middle of a trade | a whole, registered command reaches its handler |
| Buff manager, `game-systems/buff_system.cpp` | `m_byId`, `m_byEffect`, `m_commands`, the stats | `AddBuff`, `RemoveBuff`, `TickAll` | three maps that must agree, a rollback that must be exact, removal while expiry is being collected | maps agree; stats are those of the active buffs; nothing overdue stays |
| Combat formula, `game-systems/combat_formula.cpp` | none | `CalculateDamage` and its layers, `CalcExpDeclineRate` | truncations between layers, thresholds, floors | roundings stay small; no gain makes weaker |
| Database, `database/pg_database.*` | `m_dbConnection`, `m_lastResult`, `m_errorMsg` | constructor, `ExecTuplesOk`, `ExecCommandOk`, destructor; `FixMultibyte`, `TestInjection`, `Long2TimeStamp`, `TimeStamp2Long` | statements that are refused, fail or get no answer in any order; a cut between an escape and its character; summer time | result and error belong to their statement, one result is alive; a value reads back from its literal; a time reads back as itself |
| Packet analysis, `packet-analysis/` | the hook's `packetCount`; the parser's current packet | `onEnter`, `hexDump`, `parse_capture` | formats of lines | not modelled |
| Deployment, `tools/deploy_example.py` | remote sources, build and installed binary; a remote command's output | `deploy`, `ssh_exec` | each step can fail and the script is run again; the exit status is awaited before the output is read | only a whole build is installed; a command comes back |
| Build files, notes | none | none | | not modelled |

`PROJECT.json` lists every hazard at its line, with the properties that would
catch it or the reason why there is none yet.

## 2. Modules

| Module | Models | Used by |
|---|---|---|
| `InputRing` | the index arithmetic of `InputBuffer`: what is unread, what one `recv()` may fill | `PacketStream`, `KeyExchange` |
| `PacketStream` | sender, TCP stream and receiver in `NET_READY` | `MCPacketStream`, `PacketStreamProofs` |
| `FifoChannel` | the abstract specification of that channel | `PacketStream` (refinement) |
| `KeyExchange` | the exchange of keys, up to `NET_READY` | `MCKeyExchange`, `KeyExchangeProofs` |
| `Connection` | what a connection owns, from its constructor to its destructor | `ConnectionProofs` |
| `EventLoop` | the framework's main loop with its handlers, clock and sockets | `EventLoopProofs` |
| `BinStream` | `operator<<` and `operator>>` as operators | `NetCommand` |
| `NetCommand` | a command from `_Serialize` to `DispatchCommand` | `MCNetCommand`, `NetCommandProofs` |
| `BuffManager` | the buff manager of one character | `MCGameSystems`, `GameSystemsProofs` |
| `Combat` | the damage formula and the share of experience | `MCGameSystems`, `GameSystemsProofs` |
| `Database` | `CPGDatabase`'s connection, result and error, and a caller of it | `MCDatabase`, `DatabaseProofs` |
| `SqlText` | escaping a value and scanning a statement, as operators | `Database` |
| `TimeStamp` | an epoch time to a timestamp and back, as operators | `Database` |
| `Deploy` | the deployment script and its remote commands | `MCDeploy`, `DeployProofs` |
| `PacketStreamProofs`, `KeyExchangeProofs`, `ConnectionProofs`, `EventLoopProofs`, `NetCommandProofs`, `GameSystemsProofs`, `DatabaseProofs`, `DeployProofs` | theorems | |

The `MC` modules hold values of constants, and `MCGameSystems` sets two modules that
share no state side by side in one instance. A definition that is
preceded by `\* Mutant:` models a plausible slip in the code, not the code: each
property is violated when one of them takes the place of the definition below it.

### PacketStream

Variables carry the names of the members they model, of the sending object in the
first group and of the receiving object in the third. `spc` and `rpc` are the
positions in the current handler: an action is one iteration of a loop of the
handler (one queued packet merged, one `recv()`, one byte parsed), so the two ends
and the network interleave between any two system calls. Inside one end, handlers
do not interleave, as in the single loop thread.

* `stream` is every byte accepted by `send()`, `received` how many of them
  `recv()` has returned. `SendSome` may accept any positive number of bytes up to the room
  in the kernel (`SocketBuffer`), `FillSome` may return any positive number up to
  the contiguous space; both may be interrupted (`EAGAIN`, `EINTR`); the network
  may break; the sender may close at any time, losing what it had queued.
* RC4 is modelled by what the channel relies on: the k-th keystream byte is a
  byte-to-byte involution, and the keystream is periodic (`Pad`, `Period`; the
  period of a real key is astronomically long). A lost step between the ciphers
  garbles bodies in the model as it does in the program.
* A null pointer in the output queue and an empty vector are both `<< >>`:
  `NextOutputPacket` treats them alike.
* The ring starts where the key exchange may have left it (`StartIndices`).
* `composed` is a history variable.

The refinement to `FifoChannel` maps the queued bodies to `sent`, the decrypted
ones to `delivered`, and "neither end nor the network has failed" to `up`.
`FifoChannel` owes delivery only while `up` holds.

### KeyExchange

The client's object over any number of connections (`MaxOpens`). An input byte is
represented by its origin, the connection and the position in what that server
sent, so that "the server's key" is a sequence of origins, and a stale byte of an
earlier connection is recognisable.

`Open` sets `TailIndex` to the last cell, and `ReadRSAPublicKey` copies the two
sizes from `InputBuffer + TailIndex + 1`, which is the first byte past the array.
That is undefined behaviour: what it finds is a choice. The constant operator
`PastArray(head, tail)` gives the sizes it may find. `DeclaredLayout` is what the
next two members hold in the declared order, `HeadIndex` and `TailIndex`; with
those an exchange may starve, see section 4. `AnySizes` adds other sizes, those the
server sent among them, and zero. Nothing that `key_exchange` checks and nothing
that is proved rests on which sizes are found: the key is made of the bytes right
behind the sizes (`KeyIsServers`), the channel starts at the first byte behind the
key (`ReadyKeepsRest`), and an exchange stops only for bytes the server does not
send (`StopsOnlyForBytes`). With the sizes the server sent the first says that the
key is the server's, the second that the ring is empty in `NET_READY`, and the
third that the exchange ends. An array of no bytes (`Array`) is not `nullptr`.
`RSA_SIZE` is one constant whatever modulus is found, and encryption may fail with
any key. The client half is the only one in the repository; the server is an
external sender of `SIZES + N_BYTES + E_BYTES` bytes.

`FillInputBuffer` asks for `FillSize` bytes. When the ring is full it returns 1
without a call of `recv()`, as if it had read something.

`Open` may be called whenever the connection does not work, with or without a
`Close` after a `NetworkError` (`MayOpen`). `Close` leaves `n_buf` and `e_buf` of an
unfinished exchange allocated; the next successful `Open` deletes both before it
sets them to null, and an object destroyed without one loses them. No property
claims that `Close` frees them.

### Connection

The two views above each follow one kind of data; this module follows ownership.
A packet is an address with the number of the connection it was made for (`era`);
`allocated` is what `new` gave and nobody deleted, `openFds` what `socket()` gave
and nobody closed. `Open` has three outcomes: success, a name that cannot be
resolved (`OpenBadHost`: false, the socket open), and a failure that leaves no
socket (`OpenFails`). `NetworkError` only sets the state; what follows is up to the
caller, which the repository does not show. `closesFirst` is chosen once for a
behaviour and says whether its callers call `Close` before they open or destroy
again; one run has both kinds. `CloseIsClean` speaks of those that do: `Open` sets
the socket and both packet pointers without a look at what they hold, so that after
an `Open` that failed in `gethostbyname`, or a `NetworkError` without a `Close`, the
others lose what was there. The lists are sets, because
their order is `PacketStream`'s subject and no two of their elements are alike.

### EventLoop

`Events` are objects handlers may push; a handler (`Handler`) is any code that
pushes an immediate or a timed event, calls `Shutdown`, or does neither. It runs
in `Fire`, when an event is dispatched, in `ServeInput`, when `EPoll` finds a
ready socket, and in `StartUp`. `mode` is chosen once for a behaviour: `Run()` or
`Run(heartBeat)`. `clock` is what `gettimeofday` returns, `now` the
loop's copy. `Timeout` is the two-field `timeval` arithmetic with borrow and
clamp. `CEventQueue` and `CMSSocketManager` are not in the repository, and the
`EPoll` calls themselves are comments in `csj_framework.cpp`: they are modelled as
these comments say (`EPoll(0)`, `EPoll(timeout)`, `EPoll(nullptr)`), and
`Dispatch(now)` as running the immediate events and the expired timers of the
moment it starts. What handlers push during a dispatch stays queued for the next
one; this is an assumption about a class that is not there.

### BinStream and NetCommand

A fixed-width value is the sequence of its bytes; lengths are numbers. `Put` and
`Get` give what is appended and what is read, with the bounds check and the
position left behind, also by a read that throws. `NetCommand` writes a command
field by field (`WriteField`), lets the packet arrive whole, with more behind it
or cut anywhere (`Arrives`), and reads it with one action per read, because each
may throw. `WriteLayout` and `ReadLayout` are translated separately, from
`serialize` and `deserialize` of the six commands in `commands_example.h`; that
they are equal is what `RoundTrip` checks. A vector's count is cast to one byte
while all elements are written, so `RoundTrip` is checked and proved for vectors
that fit (`WireFits`).

### BuffManager

One action per call and outcome of `AddBuff` (`AddNew`, `Restack`, `Reject`,
`Replace`), `RemoveBuff`, and the two loops of `TickAll`: `TickAll` ages and
collects, `Expire` removes one collected buff, in any order because an
`unordered_map` has none. Between ticks `expired` is empty, and only then do
other calls happen. Time is in tenths of a second, so that durations that are no
multiple of a tick occur. A new buff's instance id is fresh (`buff_system.cpp:20`).

### Combat

`Combat` keeps every truncation where C++ makes it. `buffDamageMultiplier` and
`conversionRate` are multiples of a quarter, exact in a float as are their
products here, so that the float layers are exact in integers. `Exact` is the
formula without roundings. Its initial predicate and specification are called
`CombatInit` and `CombatSpec`, so that one module of proofs can extend both game
systems.

### Database, SqlText and TimeStamp

`Database` has the object and a caller of it. The caller holds one `value`, a text
or a time, writes it as a literal into its `statement`, executes that any number of
times through either call, with the guard or without, and may read a time back
from a row. libpq is external: `PQexec` gives nothing, or a result of any status;
over a lost connection, nothing or a fatal error. A failed constructor exits the
process. Every status but `PGRES_FATAL_ERROR` makes both calls return true, as in
the code; `AnswerIsOwn` says whose answer it is, not that it has rows.

`SqlText` is the text side: texts are sequences of classes of characters, and a
caller puts an escaped value between quotes and writes an ending behind it.
`ServerReads` is a reference definition of what PostgreSQL makes of such a
literal when a backslash escapes, which is what `FixMultibyte` is written for.
`GuardSeesOnlyTheEnding` says that the guard's verdict depends on that ending alone:
with something that is no white space behind a semicolon it must refuse, with
nothing but spaces it must not. What it does with a newline there is a disagreement
(section 4).

`TimeStamp` gives a day few hours, an hour few minutes and a minute few seconds.
`localtime` and `mktime` are external; the one thing the code decides is
`tm_isdst`, which `TimeStamp2Long` leaves zero. That times of summer do not come
back as themselves is a disagreement (section 4); `StandardTimeKept` says that those
of standard time do, and that no time strays by more than the hour.

### Deploy

The script's steps are `step`; every one can raise, and then a later run starts
from what the failed one left. `ssh_exec` starts a command, waits for its exit
status and only then reads its output; the command can print no more than
`Window` that nobody has read. A lost connection ends the wait with -1, whatever
the command has done. It is assumed that a developer gives the files of a failed
run again to the next (`Start`): the script keeps no record of them.

A command that prints more than `Window` waits for a reader while the script waits
for its exit: `CommandReturns` speaks of commands whose output fits, and the run
has others too, which only a lost connection ends. Files are uploaded under their
base names, so of two with one name the later wins; `DoneIsDeployed` allows that
and nothing else.

## 3. Runs

| Run | Asks | Instance | States |
|---|---|---|---|
| `packet_stream` | Do the ring, the header, the packets and the batch agree with what the sender composed, and is only a too-long body refused? Does the channel implement `FifoChannel` with its liveness; is a close noticed? | ring of 4, 3 byte values, bodies of 0, 1, 4 and 5 bytes, limit 4, two bodies, every start of the ring | 269 thousand |
| `key_exchange` | Whatever sizes are found: is the key of this server's bytes, is the session key sent once, are pointers live, does the ring keep just the rest, does the exchange stop only for missing bytes? | sizes 2, modulus 3, exponent 2, ring of 9, two connections; sizes found: each of 0, 2, 3, or the two indices | 166 thousand |
| `key_exchange_layout` | violation: the exchange ends, with the memory as declared | ring of 8 | |
| `connection` | Is anything used after it is freed, or freed twice; do pointers follow the state; with callers that close first, is anything lost or carried to the next connection? | three sockets, five packets, both kinds of callers | 1.5 million |
| `event_loop` | Does the loop wait for the right time; does everything queued or ready get its turn; does `Run(heartBeat)` act on a shutdown? | both forms of `Run`, two events, times to 4, two microseconds to a second, heartbeat 2 | 68 thousand |
| `event_loop_shutdown` | violation: `Shutdown()` ends `Run()` | as `event_loop` | |
| `net_command` | Does each command survive the way, and is each cut packet rejected? | 16 byte values; strings to 17, vectors to 15; every cut; one byte behind | 49 thousand |
| `game_systems` | Do maps, commands and stats agree after any history, and does everything expire? Are roundings bounded; can a gain weaken; can a level pay? | three ids, two effects, two levels, buffs of 1 and 1.5 seconds, four calls of `AddBuff`; 295 thousand attackers and monsters, all five ranges of level difference | 323 thousand |
| `database` | Whose result and error is it; is any lost or freed twice; does every value read back; does the guard see only the caller's text; what becomes of a time? | five classes of characters, texts to three, limits to three, seven endings; 101 instants around a summer; three statements | 1.03 million |
| `database_guard` | violation: the guard asks for non-whitespace behind a semicolon | as `database` | |
| `database_time` | violation: a time is read back as itself | as `database` | |
| `deploy` | Is only a whole build installed, of the present files; does each command come back? | three files, two of one name, an edit of each, three runs, output below, at and above the window | 93 thousand |

The bounds are chosen so that what could go wrong happens inside them.

* *Ring of 4 with 7-byte frames.* Every frame wraps, a header may be cut between
  its bytes and at the end of the array, and one `recv()` is never enough. The
  ring's properties are also proved for every size.
* *Two bodies, `BATCH_LIMIT` 6.* A batch holds one packet or two, so packets are
  both joined and split, and a packet is composed while a batch is half sent; the
  second body is decrypted at a keystream position that is not the start, at any
  place of the keystream of `Period` 3. All six invariants of the run are also
  proved for any number of bodies.
* *`SocketBuffer` 5.* No batch with a long body is sent in one call.
* *Two connections in KeyExchange.* The second finds everything the first left
  behind, lost in any phase; a third would find nothing else, because `Open` and
  the phases overwrite it or leave it as the first left it.
* *Sizes of 0, 2, 3 and the indices.* The exchange stops in the second phase or in
  the third, ends with the server's bytes used up, or ends with some left.
* *Times to 4, two "microseconds" to a second.* Ready times before, at and after
  the present, with and without the borrow, on both sides of a second's boundary.
* *Sixteen byte values.* NCIDs keep two bytes, a string of 17 uses the second byte
  of its length, a vector of 15 is the longest its count byte holds.
* *Two game systems in one run.* They share no state and no code, so buffs come and
  go beside one attacker, and attackers grow beside a manager that holds no buff.
* *Four `AddBuff` calls over two effects and levels.* A replacement of a
  replacement beside an active buff of the other effect; `EnchantWidth` 2 makes
  the restack counter wrap.
* *Three sockets, five packets in Connection.* One packet in each of the four
  places that own one and another that replaces it; a connection after a
  connection that inherited something. Its properties are also proved for any number.
* *Texts to three, limits to three.* Every position of an escaped character
  before, at and behind the limit, and one whole character behind it.
* *Three statements.* A result kept over a refused statement and an unanswered one.
* *Three runs in Deploy.* One fails at any step, one fails over its remains,
  one succeeds.

`CHECK_DEADLOCK FALSE` is set where a bounded history really ends: all bodies
composed and both ends finished, no connection left to open, an object destroyed,
an exception outside the `try` block, all buffs gone, all statements executed, the
last run of the script ended, an attacker that has everything. The event loop runs
with the deadlock check.

### Fairness

* `PacketStream`, `KeyExchange`: weak fairness for each handler's next step,
  because a handler that has begun runs to its end and the sockets do not block;
  for `OnRead` and `OnWrite`, because epoll is level-triggered and reports a ready
  socket again. Strong fairness for `SendSome`, `FillSome`, `FillEof`, `FillError`
  and their like: a call may be interrupted, but not every time for ever. No
  fairness for composing, closing, failing, opening.
* `EventLoop`: weak fairness for the loop's thread and for the clock; none for
  handlers' choices or for the arrival of input.
* `BuffManager`: weak fairness for `TickAll`, which the server calls each second,
  and for `Expire`, the rest of that call. None for `AddBuff`, whose number is bounded.
* `Deploy`: weak fairness for the script's next step, for a command's printing while
  there is room and for its exit once everything is printed. None for edits, for
  starting the script, or for a loss of the connection: that would end a wait which
  nothing else ends.

## 4. Disagreements between code and documentation

Each is a run that TLC ends with a counterexample.

* `key_exchange_layout`: with the members where the class declares them, phase 0
  takes `HeadIndex` and `TailIndex` for the sizes. Waiting for as many bytes as
  `HeadIndex` says, and then for 8191, the exchange may never end. (What does not
  depend on the sizes, `key_exchange` shows to be right.)
* `event_loop_shutdown`: `Shutdown()` only sets a flag. Called by the last queued
  event it is followed by `EPoll(nullptr)`; nothing wakes the loop until a socket
  happens to be ready. `Run(heartBeat)` has no such case: `event_loop` checks
  `HeartBeatTearsDown`.
* `database_guard`: `TestInjection` "detects semicolons outside quoted strings
  followed by non-whitespace" (`pg_database.h:68`). It skips spaces only, so that a
  statement with a semicolon and a newline at its end is refused.
* `database_time`: `TimeStamp2Long` "parses PostgreSQL timestamp string back to Unix
  epoch" (`pg_database.h:80`). `Long2TimeStamp` writes local time, summer time
  included, and `TimeStamp2Long` reads it with `tm_isdst` zero: a time of summer
  comes back an hour late.

Elsewhere the code promises less than a comment suggests, and no property is stated
that would take the one for the other:

* `NextOutputPacket` casts a size to `uint16_t` without looking at it. A longer body
  is announced with its length modulo 65536 and the receiver takes the remaining
  bytes for headers. `PacketStream` composes bodies whose length two bytes hold.
* `Close` leaves `n_buf` and `e_buf` (section 2, KeyExchange), and `Open` drops the
  packets and the socket it finds (section 2, Connection).
* `serialize` casts the number of waypoints to a byte and writes all of them.
* `ExecTuplesOk` is true for every status but `PGRES_FATAL_ERROR`.
* A remote command that prints more than its channel holds blocks `ssh_exec`, and
  files of one base name overwrite each other.

## 5. Proofs

The type invariants of `PacketStream`, `KeyExchange`, `Connection`, `EventLoop`,
`NetCommand` and `BuffManager` are proved and not repeated in the runs; those of
`Database` and `Deploy` are checked there and proved too. Every safety invariant
and every action property that a run checks is the statement of a theorem below.

All theorems hold for every value of the constants that satisfies the named
`ASSUME`s of the module (a ring of at least two cells, at least two byte values, an
involutive keystream, a second of at least one microsecond and so on).

| Theorem | Says | Argument |
|---|---|---|
| `PacketStreamProofs!TypeCorrect` | `[]TypeOK` | inductive by itself; indices by `AdvanceValue`, the length by `LengthRange` |
| `PacketStreamProofs!RingCorrect` | `[]RingHoldsStream` | inductive with `TypeOK`: sending extends the stream (`SendExtends`), parsing takes the first unread byte (`RingTake`), a fill of at most `FillSize` adds cells behind the unread ones (`RingFill`) |
| `PacketStreamProofs!NoReadSpin` | `[]DrainedBeforeFill` | inductive with `TypeOK`: `MakePackets` goes back to filling only for want of a byte, and that means an empty ring |
| `PacketStreamProofs!SenderCorrect` | `[]Sending`: what was sent and what is left of the batch (`Wire`) are the encrypted frames of the bodies taken off the queue, in order; `SendKey` is where the next body begins; the queue holds the other bodies | `IsFramed` says byte by byte which frame a byte of the wire belongs to; composing (`SendingCompose`), merging one vector (`SendingMerge`), a partial `send()` (`SendKeepsWire`: it moves bytes from the batch to the stream and leaves `Wire` alone), closing |
| `PacketStreamProofs!BatchCorrect` | `[]BatchAccounted` | from `Sending` |
| `PacketStreamProofs!ReceiverCorrect` | `[]Receiving`, provided `BodiesFit`: `InOrder`, `RecvKey` is where the next body begins, and for each `m_readState` what has been parsed since the last packet is the beginning of that body's frame | with `RingHoldsStream` the next byte of the ring is the next of the stream, with `Sending` it is the next of the frame (`NextFrameByte`); two header bytes give the length back (`LengthBack`); one lemma for each byte the handler takes |
| `PacketStreamProofs!DeliveryCorrect`, `StepCorrect` | `[]InOrder`, `[]NeverOutOfStep`, provided `BodiesFit` | parts of `Receiving` |
| `PacketStreamProofs!EofCorrect` | `[]EofAfterLastPacket`, provided `BodiesFit` | invariant `Waiting` (`WaitingStep`): at the end of the stream everything is received, the ring is empty and the handler waits for a byte; with `Receiving` that byte belongs to a frame which has not arrived whole |
| `PacketStreamProofs!FifoCorrect` | `Spec => Channel!Safety`, provided `BodiesFit` | each step maps to `Send`, `Deliver`, `Fail` or a stutter; that a completed packet is the next one composed is `Receiving` |
| `KeyExchangeProofs!TypeCorrect` | `[]TypeOK`, whatever sizes phase 0 finds | inductive by itself; a consumed byte moves an index inside the ring (`AdvanceValue`) |
| `KeyExchangeProofs!PointersCorrect`, `SessionKeyCorrect` | `[]PointersLive`, `[]SessionKeySentOnce`, whatever sizes phase 0 finds | `Positions` (where a handler may be in each state), `Buffers` (which pointers each phase has) and `KeySent` (what is sent so far is the session key up to `WriteLen`) |
| `KeyExchangeProofs!KeyCorrect`, `ReadyRestCorrect` | `[]KeyIsServers`, `[]ReadyKeepsRest`, whatever sizes phase 0 finds | `Contents` names, for each phase, what it and the phases before have consumed, and that cell i of the ring holds byte i + 1 of this connection's server: the exchange never wraps (`NotWrapped`) |
| `ConnectionProofs!TypeCorrect`, `DeletedOnce`, `PointersCorrect` | `[]TypeOK`, `[]NoUseAfterDelete`, `[]PointersFollowState` | `Numbered` (an address is handed out once) makes a new packet one nobody holds; `Followed` says what `PointersFollowState` says from `Open` on, not only in `NET_READY` |
| `ConnectionProofs!CloseCorrect` | `[]CloseIsClean` | `CallersKind`: `closesFirst` stays what it is; `EmptyWhenClosed`: callers that close first find an object without a socket empty |
| `EventLoopProofs!TypeCorrect`, `WaitsCorrect`, `SecondCorrect` | `[]TypeOK`, `[]WaitsForNextEvent`, `[]SecondCoversFiring` | invariant `Inv` adds `now <= clock`, without which the wait could end too early; `TimeoutValue` shows that borrow and clamp compute the distance |
| `GameSystemsProofs!TypeCorrect`, `IndexesCorrect`, `TicksCorrect` | `[]TypeOK`, `[]IndexesAgree`, `[]TickIsExact` | invariant `BuffInv` strengthens `NoneOverdue` to `OverdueAreCollected`: at every moment, also inside `TickAll`, a buff without time left is among the collected ones; one lemma for each outcome of a call |
| `GameSystemsProofs!LevelsNeverDrop` | `NeverWeakened` | from `BuffInv`; only `Replace` moves an effect to another buff |
| `GameSystemsProofs!StatsCorrect` | `[]StatsAreActiveBuffs` | a list of commands adds an integer (`DeltaType`), and the sum over the active buffs changes by one buff's share when one is added or removed (`TotalWith`, `TotalWithout`), in whichever order it is taken (`SumsAgree`); rollback subtracts what application added |
| `GameSystemsProofs!RoundingCorrect` | `[]RoundingBounded` | a quotient differs from what it is of by a remainder (`Quotient`): the four truncations before the multiplier lose less than 3 points (`LayersRound`, in fortieths), which the multiplier scales, its own and the two behind it less than 3 more (`ConversionRounds`, `FormulaRounds`) |
| `GameSystemsProofs!GrowthCorrect` | `GrowthIsMonotonic` | every member only grows (`AtLeast`), each layer grows with its members (`QuotientGrows`, `ProductGrows`), the threshold of the off-hand included; the table falls with the difference of levels |
| `NetCommandProofs!GetInBounds`, `GetFinds` | a read of any kind ends inside the packet, and where the packet agrees with what was written it gives that value back, or throws exactly if the bytes are not all there | `BinaryRead` for raw bytes, `PutPrefixed` and `HoldsSplit` for the two kinds with a length in front |
| `NetCommandProofs!TypeCorrect`, `RoundTripCorrect`, `HandledCorrect` | `[]TypeOK`, `[]RoundTrip`, `[]HandledIffWhole`, provided `WireFits` | invariant `Inv` names where each field of the command ends in the packet (`FieldEnds`), says that the packet agrees with the command as far as it goes, and that the fields read so far are the first ones written with `m_pos` at the end of the last; `OneMoreField` for writing, `FrameKept` for a cut or a tail, `NcidRead` and `FieldRead` for reading |
| `DatabaseProofs!TypeCorrect`, `ResultsCorrect`, `AnswersCorrect` | `[]TypeOK`, `[]OneResult`, `[]AnswerIsOwn` | invariant `Inv` adds that the number of the result kept is at most that of the last call, so that a new result is none of the old ones; one lemma for each outcome of a call |
| `DatabaseProofs!TimesCorrect` | `[]StandardTimeKept` | `DivDiv` (dividing by a product is dividing by one factor after the other) makes `mktime` put together the fields `localtime` took apart (`ThereAndBack`) |
| `DatabaseProofs!LiteralCorrect` | `[]LiteralReadsBack`, provided `EndingsApart` | the escaped text is the concatenation of the escapes of the characters kept (`FlattenIsRun`); reading an escape adds exactly its character to the server's text and leaves nothing pending (`ReadEscaped`), for one character after the other; then the closing quote and the ending (`ReadEnding`) |
| `DatabaseProofs!GuardCorrect` | `[]GuardSeesOnlyTheEnding`, provided `EndingsPlain` | a scan that is inside a literal is inside it again after each escape (`ScanEscaped`), so that the value is passed over (`GuardIgnoresValue`); on the ending alone the scan finds a semicolon with more behind it (`GuardOnPlain`) |
| `DeployProofs!TypeCorrect`, `DoneCorrect`, `CopyCorrect` | `[]TypeOK`, `[]DoneIsDeployed`, `OnlyBuiltIsCopied` | invariant `IInv` adds `Progress` (once commands run `todo` is empty; once make has gone well `built` is `source`, and once cp has, `deployed` is), `TornIsOwed` (a half-written source belongs to a file that is still to be uploaded, by this run or the next) and `Uploaded` (what lies under a name is a file of the run at its present version) |

Some facts are hypotheses of theorems and no `ASSUME` of the module, because the
code does not see to them:

* `BodiesFit`: the length of every body fits the two bytes of its header.
  `NextOutputPacket` casts it without a check; a longer body would leave the
  receiver out of step (section 4). What is said of the sender alone
  (`SenderCorrect`, `BatchCorrect`) and of the ring needs no such thing.
* `WireFits`: an NCID fits two bytes, a string's length two, a vector's one.
* `EndingsApart` and `EndingsPlain`: what a caller writes behind a literal does not
  begin with a quote, which would be the second half of an escape; and, for the
  guard, holds no further literal, since the semicolons it is asked about are those
  outside one.

Each holds in the instance of its run.

The induction over bodies, characters and buffs that these proofs need is not done
with the library's induction theorems, which take an operator, but by a least
counterexample: a non-empty set of numbers has a least element, and a non-empty set
of parts of a finite set a smallest one (`LeastElement` and `SmallestSet`, both from
`WFMin` of `WellFoundedInduction`). Sums and loops are recursive functions; that
there is exactly one such function on `0 .. n` and how it continues is proved the
same way (`SumsExist`, `SumsUnique`, `SumsAgree`, `RunExists`, `RunUnique`). Folds of the
community modules take an operator too, so `TestInjection` and `ServerReads` are written as such functions.
The proof of `GuardCorrect` also asked for the `CASE`s of `Scan` and `Read` to
exclude each other: where two guards of a `CASE` hold, TLC takes the first and TLA+
leaves the choice open.

Only model-checked is everything under fairness: the liveness half of `ImplementsFifo`,
`CloseIsNoticed`, `StopsOnlyForBytes`, `CommandReturns`, `EventsFire`,
`InputServed`, `HeartBeatTearsDown` and `EverythingExpires`. Such properties rest on
`ENABLED`, which the prover does not reason about.

## 6. What is not modelled

* *Floats in general*: `Combat` takes multiples of a quarter only, and values that
  neither overflow an `int32_t` nor lose bits in a float.
* *Floats and doubles in the streams* (with the NaN rejection): no command in the
  repository has one. `Dump`, buffer ownership, growth and the `abort()` mode of
  the streams, and `ExportPacket`.
* *In the connection*: the socket options; the content of RSA and RC4, which are
  external. `Connection` does not repeat the bytes of `PacketStream` nor the key
  buffers of `KeyExchange`; the start of `PacketStream`'s ring is given as a set of
  `StartIndices` that contains what an exchange leaves (`ReadyRestCorrect` says which
  ring that is; an empty one when the sizes found were those the server sent).
* *In the framework*: service and connection registration, the performance log
  and `setCurrentSecond`, which nothing calls. `CurrentSecond` is a plain variable
  of one thread.
* *In the command system*: `ConvertToEvent` and registration at run time. An
  exception thrown outside `GenerateNetCommand`'s `try` block (a packet without an
  NCID) ends a behaviour of the model; who catches it is not in the repository.
* *In the buff manager*: `stackCount` and `flags`, which are stored and never read.
* *In the zone interface*: the setters and getters of session, NPC and trade,
  `ResetTradeState` and `OnClose`. They are single assignments whose callers, the
  handlers that keep both sides of a trade together, are not in the repository, and
  most steps of `OnClose` are comments; a model would be of invented handlers.
* *In the database*: `CPGDBResult`, whose accessors are not in the repository; who
  keeps `GetLastResult`'s pointer across a statement is not there either.
* *The packet analysis tools*: a hook in the client that formats what it sees, and a
  parser that makes one pass over the resulting log. They share no state with the
  servers.
* *In the deployment script*: what `cmake` and `make` print, and the options of SSH.
* *Build files, notes*: descriptions and prose.

## 7. Plan

The order is by what the servers depend on most.

1. Done: all modules, runs and theorems above.
2. A model of what `Close` frees in each phase of the exchange, with the pointers of
   `KeyExchange` as addresses like those of `Connection`.
3. A lemma that the start of `PacketStream`'s ring, as `ReadyRestCorrect` leaves it, is one
   of its `StartIndices`, so that the two modules compose.
4. The trade state of zone sessions, once the handlers that set both sides of a trade
   are in the repository; two users that share one `CPGDatabase`, once a caller of
   `GetLastResult` is.
5. `Dump` and `ExportPacket` of the streams, against a definition of the layout, and
   the log format the capture hook shares with its parser.
