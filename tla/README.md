# A formal model of kaplar

kaplar is a small game server: one process, one thread, one loop.  The loop polls
two TCP servers built on the same code, a login server and a game server, and
sleeps until the next frame.  These modules model that core, and the readers of
messages and files around it; TLC checks them on small instances, and TLAPS
proves every safety property of the servers, of the arena, of the messages and of the
world files for every value of the constants.  Source positions are given as
`file:lines` below `src/src/`; the whole correspondence, definition by definition, is the
`map` of `PROJECT.json`.

## 1. The system

| Component | Files | State | Operations |
|---|---|---|---|
| Polled TCP server | `server.cc`, `server.hh` | array of `Connection` threaded on a free list, `pollfds`, per connection a frame reader and a pending output, flags `closed` and `closing` | `server_init`, `server_poll` and what it calls |
| Game server | `game_server.cc`, `game.hh` | per slot a `Client`: state, XTEA key, counter, the packet being written, a queue of packets; one list of recycled packets | five callbacks, `get_out_packet`, `release_out_packet`, `packet_wrap`, `game_get_client` |
| Login server | `login_server.cc` | per slot a `Login`: state, key, account, password, one write buffer | five callbacks |
| Memory arena | `common.cc` | a reserved range, what of it is committed, what is handed out | `arena_init`, `arena_alloc_raw`, `arena_commit` |
| Packet and buffer helpers | `packet.hh`, `buffer_util.hh` | a buffer and a position | readers and writers of integers and strings |
| Cryptography | `crypto.cc`; `packet_wrap`, `packet_unwrap` of `game_server.cc` | a key | adler32, XTEA, RSA |
| mini-gmp | `mini-gmp/mini-gmp.c`, vendored and always built in | numbers as sequences of limbs | what `crypto.cc` calls |
| World map | `world.cc`, `world.hh` | sparse array of chunks over a dense array of tiles | `world_load`, `world_get_tile` |
| Map file reader | `file.hh` | a window of a file and a position | next element, readers of integers |
| Object and item converters | `../otcvt`: `otb_list.cc`, `otb_stats.cc`, `otbm_list.cc`, `items_list.cc`, `items_stats.cc` | a file in memory | five tools that list a file or count what is in it |
| XML tokenizer | `../otcvt/xml.cc` | eight tokens ahead, an error | nodes and their attributes |
| Main loop | `main.cc`, `game.cc` | configuration | the loop |
| IP changer | `../ipchanger` | none | system calls |

### How the parts interact

`main` calls `login_server_poll` and `game_update` in turn, for ever
(`main.cc:100-114`); both end in `server_poll`.  The server calls its owner back:

* `on_accept(slot)` when a connection takes a slot,
* `on_read(slot, data)` for each whole frame,
* `request_output(slot)` when everything handed over before has been sent,
* `request_status(slot)` once per visit until the answer is CLOSING,
* `on_drop(slot)` before the slot is free again.

The owner never calls the server.  It shares two things with it: the slot's
index, and the output buffer, which the server reads until it is sent while the
owner keeps receiving messages.  Both owners keep an array of their own, indexed
by slot and reused with it.

### What is hard here

Nothing in the program runs in parallel, but everything outside it does.  Between
any two system calls of `server_poll` a peer may connect, send a part of a frame,
finish, reset or stop reading; a handle that was closed may be given to the next
peer at once; a slot is used again in the pass after it was freed; and messages
of a client go on arriving while its output is being written.  The hazards that
follow from this are listed, each at its line, in `PROJECT.json`, with the
properties that watch them.  What makes each component correct:

* **server**: slots are never lost, never shared; handles never leak and are
  closed once; the reader delivers exactly the frames of the stream and stays
  inside `readbuf`; a connection that ended is dropped, in the same visit; a
  graceful close loses no output; the callbacks come in the promised order.
* **game**: a packet has one owner; a packet on its way out is not touched;
  messages are sent once and in order; the padding always fits; a client told to
  disconnect is dropped; an id leads to the client it was made for.
* **login**: nothing of a client outlives its connection; one answer at most; a
  login that was tried ends.
* **arena**: blocks are disjoint and usable; the reservation is not exceeded.
* **readers**: what a writer wrote is what is read, also if its data look like
  delimiters; input that ends early is noticed, and nothing behind its end is taken
  for data.
* **cryptography**: decoding undoes encoding, a changed byte is noticed; sums, words
  and limbs may wrap only where that is meant.

## 2. The modules

| Module | Models | Built on |
|---|---|---|
| `ConnectionSlots` | the indices of the slots | |
| `Callbacks` | **abstract**: the promise of `server.hh` about the five callbacks | `ConnectionSlots` |
| `Server` | `server.cc`, the sockets and the peers | `ConnectionSlots`; implements `Callbacks` |
| `ServerFraming` | a reference parser, and histories of what was received and delivered | `Server` |
| `OutPackets` | the output packets of the game: links, queues, recycling, wrapping | `ConnectionSlots` |
| `GameServer` | the game's client states and callbacks | `Callbacks`, `OutPackets` |
| `GameStream` | the contents of the packets | `GameServer` |
| `ClientIds` | `make_client_id`, `game_get_client`, the counter | `Callbacks` |
| `LoginServer` | `login_server.cc` | `Callbacks` |
| `Arena` | the arena of `common.cc` | |
| `Buffers`, `Packets` | `buffer_util.hh`, `packet.hh` | `Packets` on `Buffers` |
| `MiniGmp`, `MiniGmpNumbers` | the limbs of `mini-gmp.c`, and the numbers made of them | |
| `Crypto` | the checksum and XTEA of `crypto.cc`; `packet_wrap`, `packet_unwrap` | `Packets` |
| `Messages` | a message that is written, wrapped, sent, unwrapped and read | `Crypto` |
| `Rsa` | RSA of `crypto.cc` | `MiniGmpNumbers` |
| `OtbItems`, `OtbStats` | `otb_list.cc`; `otb_stats.cc` | |
| `OtbmElements` | `otbm_list.cc` | |
| `XmlLexer`, `XmlNodes`, `ItemsXml` | `xml.cc`: tokens, then nodes; `items_list.cc` and `items_stats.cc` | each on the one before |
| `KpbElements`, `World` | `file.hh`; `world.cc`, whose loader reads a file that was written element by element | `World` on `KpbElements` on `Buffers` |
| `BuffersReference`, `RsaReference`, `OtbWriter`, `OtbmWriter`, `XmlWriter`, `GmpReference` | **references**: how input is written, and what reading it must give | the readers |
| `Readers` | an input put together part by part | the references |
| `MC...` | instances for TLC; `MCReaders` has those of `Readers`, `Messages` and `World` | |
| `..._proofs` | theorems and proofs | the module of that name; `Server_proofs` and `GameServer_proofs` also `ServerFraming` and `GameStream`; `Messages_proofs` and `World_proofs` also `Buffers_proofs` |

The composition is by contract.  `Server` leaves the callbacks open: whatever an
owner answers is a free choice.  It is shown to implement `Callbacks`, by TLC on
an instance and by TLAPS in general (`ServerKeepsContract`).  `GameServer`,
`ClientIds` and `LoginServer` conjoin each action of `Callbacks` with the body of
their callback, so what is checked of them holds above any server that keeps the
contract, and their state spaces have no sockets in them.  What they rely on is
small: a callback comes only for an open slot; output is requested only when none
is being written; no message comes for a connection that was given up and has
nothing left to write.

### Server

One variable per field.  `fd[c]` stands for `pollfds[c].fd`, and also for
`Connection.s`, which has the same value while it is valid.  `readbuf[c]` is the
part of `readbuf` before `readbuf_pos`, so the position is its length.
`write_ptr` is left out: what the bytes of an output are is the owner's affair.
`pc` and `cur` say where `server_poll` is.  A step of the model goes from one
system call to the next:

| Actions | Code |
|---|---|
| `AcceptConnection`, `RejectConnection`, `AcceptNone`, `AcceptError` | one turn of `server_accept_connections` (189-244) |
| `Poll`, `PollFails` | `WSAPoll`, whose result is ignored (330) |
| `VisitEmpty`, `AssertFails`, `VisitHangup`, `VisitReady` | the head of the loop over the slots (331-350) |
| `RecvError`, `RecvWouldBlock`, `RecvNothing`, `RecvPartial`, `RecvHeader`, `RecvOversize`, `RecvMessage` | one turn of `connection_resume_reading` per outcome of `recv` (262-300) |
| `WriteSkipped`, `RequestOutput`, `Send`, `SendWouldBlock`, `SendError` | one turn of `connection_resume_writing` (302-323) |
| `RequestStatus`, `StatusKnown`, `Drop`, `Keep` | the end of a visit (352-376) |
| `Connect`, `PeerSend`, `PeerFin`, `PeerReset`, `PeerRead`, `Lingered` | the peers and the system, not code of the repository |

The sockets follow how the code uses Winsock: `recv` of 0 bytes returns 0 like
the end of a stream; `send` takes any part; a reset peer shows as POLLHUP and as
an error of every call; a finished peer may or may not show as POLLHUP;
`closesocket` returns the handle for reuse, after `tcp_close` with the sent bytes
still delivered, after `tcp_abort` without them.  A descriptor that is no open
socket gets POLLNVAL, as the NOTE at 332-334 says.

### GameServer and OutPackets

Packets are numbers; `next`, the queue heads and tails and `output_head` are the
pointers of the code, so a queue with a wrong link is a state of the model and
not excluded by it.  A message is one of the cases the handlers tell apart
(`AllGameMessages`, `LoginMessages`), and what it writes is a number of bytes
asked for and a number of bytes written.  Keys and the bytes themselves are left
out; `packet_wrap` is its padding and its check.

### LoginServer

The key of a client stands for everything secret of it, and an answer in the
write buffer is a pair of answer and key.  RSA, checksums and the account
comparison are choices made with the message.

### ClientIds

Ids are records of counter and index (both halves are 16 bits, `game_server.cc:63`),
the counter has `CounterBase` values.  Nothing in the repository keeps an id yet;
the holder in the model is any code that may.

### Arena

Addresses are numbers.  `arena_alloc_raw` is an action per turn of its loop, and
a commit may fail.  Committing behind the reserved range is left to the system:
it may fail, or succeed where something else is mapped.

### Messages

`Packets` and `Crypto` are operators: a packet is a buffer, an end and a position that
runs on past the end; `Skip` is what every read does to the position, `ReadInt` and
`ReadString` what it returns; a word is four bytes of `ByteBase` values, a block of XTEA
two words.  The unrolled loops of adler32 are one.  `Messages` sends a message through
all of them.  `PutField` is one field written (`packet_write_u8` and the others), `Wrap`
and `Unwrap` are `packet_wrap` and `packet_unwrap`, `ReadNumber` and `ReadText` read the next
field as the kind it was written as.  `Change` is the network, which may change one byte
of the frame behind its length, and `CutShort` a message that ends before its reader does.
The buffer starts with whatever the packet was last used for.

### World

`KpbElements` is a window of a file (`buf`, `bufend`, `bufpos`) with the 32-bit arithmetic
of `file.hh`; `KpbSkip` is what every read does to the position.  `World` is the loader:

| Actions | Code |
|---|---|
| `WriteElement`, `OpenFile` | a converter wrote the file; the loader gets some beginning of it (35-43) |
| `ReadInfo` | the first element, its checks and the arrays made for it (45-104) |
| `PassElement`, `StartPairs` | `kpb_next_element` and the switch (105-147) |
| `ReadPair`, `EndPairs` | one turn, and the end, of the loop over the pairs (114-128) |
| `EndFile` | no further element, and the last check (149-182) |

`load` says where the loader is or which PANIC stopped it, `found` counts the elements
it came to, `sparse` is `sparse_array`.  A tile is its index in `dense_array`, so the array itself
is left out.  `GetTile` is `world_get_tile`; the field `num_tiles_per_chunk` of the world is
an argument of it, since nothing sets it and it may hold anything (`FieldValues`).  A position one chunk past the end passes its
check and gives another chunk's tile, or none that exists (`Undefined`).
`WorldAsWritten` compares the loader with what was written: `ElementsEnd` and `PairAt` look at
the elements and not at the bytes of the file.

### The other readers

The other readers, the codecs and the numbers keep no state between two calls, so they
are operators: of a buffer and a position, of a file, of limbs.  A loop of the code
is a fold or a recursion with the state of the loop as its argument, a failed
read is what the code goes on with afterwards.  `Readers` is their only state
machine: it appends one part after the other to an input of some kind, and each
invariant says that the input so far is read as its writer defines (an operator
per kind, given in `MCReaders`, with the scale it works on), whole and, where ends
matter, cut off at every byte.  The reference modules write such input in the
way a tool that knows the format would, and state what must come out in terms of
the parts and not of the bytes.

* `MiniGmp` works on limbs modulo `B`: products by halves (the path taken where
  nothing is as wide as two limbs, as with the 32-bit `long` of Windows), the
  inverses of divisors, and the three divisions that use them.  `MiniGmpNumbers`
  has what is built on it; there a number is an integer, and its limbs are
  taken where the code works on them.
* `OtbItems` and `OtbmElements` work on the bytes of a file.  `OtbmElements` keeps the
  file itself, since the code unescapes attributes in place, and what the
  variable of the caller held before, since an element that is cut off leaves it.
* `XmlLexer` knows the characters the lexer tells apart, under names.  The two
  parts of a text that decide errors, its place and the size of a token, are
  kept; lines and columns are not.

## 3. The runs

All runs use two workers; each ends within four minutes.

| Run | Instance | Shows |
|---|---|---|
| `ServerSlots` | 3 slots, 3 handles, no data, polls may fail | `TypeOK`, `NoLostSlot`, `SocketOwned`, `NoZombie` |
| `ServerTraffic` | 1 slot, 1 handle, 2 byte values, frames of up to 2 bytes, outputs of up to 2, up to 7 bytes per connection | `ReadInBounds`, `MessagesOfStream`, `PollAssert`, `GracefulDisconnect`, `CallbackContract` |
| `ServerLive` | 1 slot, 2 handles, frames of one byte or too long, outputs of 1, fair loop, reading peers | `GoneIsDropped`, `DoomedIsDropped`, `NobodyWaits` |
| `ServerPollFailure` | 2 slots, polls may fail | `PollAssert` is **violated** |
| `GameMessages` | 1 client, all messages, 3 packets of 24 bytes | `GameTypeOK`, `WrapAlwaysFits`, `QueueShape`, `GivenUpIsFinal`, `LossesAreDrops`, `ToldIsDropped` |
| `GameStream` | 2 clients, 2 packets, 4 numbered messages each | `MessagesInOrder`, `PacketOwnership`, `WriteBufferStable` |
| `GamePacketLeak` | 1 client, 3 packets | `NoPacketLeak` is **violated** |
| `ClientIds` | 2 slots, 3 counter values, 4 drops | `IdsDistinguish` |
| `LoginServer` | 2 clients, 2 keys, real sizes | `LoginTypeOK`, `NoSecretLeft`, `OneAnswer`, `LoginEnds` |
| `Arena` | granules of 4 and 8, blocks of 0, 3, 9, 17, alignments 1, 2, 8 | `ArenaTypeOK`, `BlocksCommitted`, `BlocksDisjoint`, `OnDemand` |
| `ArenaOverflow` | the same, requests go on for longer | `StaysReserved` is **violated** |
| `Readers` | messages of up to 3 of eight fields in a buffer of 62 bytes; world files of up to 3 of nine elements; nine other kinds of input of up to 6 parts | `FieldsAsWritten`, `MessagesSurviveWrap`, `ChecksumExact`, `WorldAsWritten`; `NumbersExact`, `RsaRoundTrip`, `OtbAsWritten`, `ElementsAsWritten`, `TokensAsWritten`, `ItemsAsWritten` |

`Readers` checks three state machines side by side that share nothing: one of `Readers`,
`Messages` and `World` takes steps, depending on the kind of input, and the others stay
where they started.

### The bounds and why they are enough

* **Slots.** Three slots are the least for which the free list can be in an order
  other than by index and still lose a middle element; the proof covers the rest.
  With as many handles as slots every one may be in use, and each may be given to
  another slot's peer after a close.  In `ServerLive` there are more handles than
  slots, so that a peer meets a full server.
* **Bytes.** `ByteBase` 2 with bytes 0 and 1 gives the header the lengths 0 to 3:
  with `ReadbufSize` 2 that is an empty frame, a short one, one that just fits and
  one byte too many.  Seven bytes hold two whole frames and the start of a third,
  or one after which the connection ends.  `MaxAvail` 2 makes every segmentation
  into pieces of one or two bytes possible: header cut, data cut, end of a frame
  and start of the next in one piece.  `ServerLive`, where the length of a frame
  matters less than its end, lets the first header byte alone give it: 1, or 3,
  which is too long.
* **Output.** An output of 2 bytes with room for 2 in the system is sent in one
  piece, in two, or blocks half way.
* **Packets.** 24 bytes leave 16 behind the header: several small messages share a
  packet, and then the next one needs another.  `LoginSize`, `NoticeSize` and
  `NoticeRequest` keep the relations of the code: the login asks for a packet of
  its own, the notice asks for more than it writes (256 in the code), the
  cancel-walk writes one byte more than it asks for.  `BufSize` is a multiple of
  8, as 16384 is.
* **Input.** The parts of each kind are chosen to be mistaken for each other: bytes
  that are delimiters and escapes, lengths that are zero, exactly what fits and
  one more, names that differ in case only or from their cut-off form, a comment
  that looks as if it ended, pairs behind the arrays.  Two to six of them are
  enough for each to stand before, after and between others.
* **Fields.** Numbers that fill all their bytes; strings that are empty, one shorter than
  their reader's array and just as long as it, and as long as a length of 2 bytes goes,
  and longer, so that it wraps.  62 bytes hold some messages of three fields with their
  padding, some without it, and some not at all.
* **Elements.** The info of a world of 2 chunks of 4 tiles with none, both, or one more than
  all of them dense; pairs that name the first and the last chunk and place, and one behind;
  one chunk named twice, in one element and in two; half a pair; an element of another kind.
  Three elements in any order, the info first or not, cut off at every byte.  The field
  `num_tiles_per_chunk` holds 0, one less than the volume of a chunk, just that, or one more.
* **Scaled bytes.** A byte has 4 or 8 values for integers, messages, keys and worlds, so that TLC
  reaches lengths of 2 bytes that wrap and words of 4 that overflow; sizes (the
  string limits, NMAX, the constants of XTEA) are scaled with it.  NMAX is the
  longest run for which the sums of the checksum cannot overflow, as 5552
  is, and the frames are longer.  OTB, OTBM and XML files have real bytes and characters, with the sizes of
  tokens scaled.
* **Limbs.** With 16 values each, dividends of up to 4 limbs by divisors of 1, 2 and 3
  of them; with 256 values all inverses and numbers of up to 6 digits; with 64
  values the keys.  Together these take every branch of the division:
  both corrections of the guess, the one where the limb is all ones, and both
  corrections of each half of an inverse.
* **Keys.** Products of two primes between 3 and 11, in both orders, with every exponent
  up to 11: some too large, some not coprime, some fixed points.
* **Counters.** 3 values stand for 2^16; 4 drops go once around and one further.
* **Bounds that cut behaviour off**: `MaxAvail`, `SendRoom` (the system's own
  buffers), `MaxOutput`, `MaxReceived`, `MaxPackets`, `MaxMessages`, `MaxDrops`,
  `MaxAddress`.

Deadlock is checked except where the system really stops: after the assertion
of `server_poll` (`ServerSlots`, whose polls may fail), after a PANIC or at
`MaxAddress` (`Arena`, `ArenaOverflow`), at `MaxDrops` (`ClientIds`), and when an input has all its parts, a message was read or
refused, or a world is loaded or not (`Readers`).  `ServerSlots` and
`ServerPollFailure` use the symmetry of the handles, which nothing orders or names; no liveness property is checked under symmetry.

### Fairness

`FairSpec` has weak fairness of `ServerStep` alone: `main` calls `server_poll`
again and again and `server_poll` is one sequence of steps, of which one is always
enabled (unless the program has stopped).  Peers are not fair.  `ReadingSpec`
adds that a peer goes on reading what it was sent, which only `DoomedIsDropped`
needs: without it a connection with output left is never dropped, since there is
no timeout (`server.cc:352`).

The loops of `server_poll` have no limit: as long as one peer keeps sending, or
peers keep connecting, or an owner keeps producing output, the server stays in
that loop and everybody else waits.  So the liveness properties of `Server` have
the premise `Calm`: eventually nobody connects, sends or produces output any
more.  This is a limit of the code and not of the model.

`GameFairSpec` and `LoginFairSpec` assume of each open slot what `server_poll`
then does in every pass: the output is sent on, the next output and the status
are asked for, and a connection that was given up and is drained is dropped.
The conjunct on `OnDrop` is restricted to exactly those connections; a peer may
leave at any time but need not.

## 4. What the violated runs show

* **`ServerPollFailure`**.  `WSAPoll`'s result is ignored.  If it fails, `revents`
  is that of an earlier poll.  A slot that was empty then had POLLNVAL, and if
  `server_accept_connections` has filled it since, `ASSERT(!(revents & POLLNVAL))`
  (`server.cc:341`) stops the program.  `PollAssertHolds` proves that nothing else
  can make it fail.
* **`GamePacketLeak`**.  `game_on_drop` releases the queue in a loop that starts at
  `out_queue_tail` (389) and follows `next`: that is the last packet only.  Every
  packet before it is lost, 16 kB of arena each, each time a client with more than
  one queued packet is dropped.  `LossesAreDrops` says that this is all: these packets,
  and no packet at any other step.
* **`ArenaOverflow`**.  `arena_commit` compares `committed_size + granularity` with
  the reservation and never updates `committed_size` (`common.cc:72-95`), so
  the PANIC is unreachable for an arena that is used up.

Other things a reader of the code may stumble on, seen while modelling and
contradicting no document: a second message that arrives before the answer to the
first was handed over gives the connection up and the answer is lost
(`login_server.cc:145`, `game_server.cc:523`); a notice queued behind another
packet is never written, because the first packet written moves the client to
`DISCONNECT_WAITING_WRITE` (`game_server.cc:576`); with POLLHUP the input is not
read any more (`server.cc:342`).  A client id that is kept while its slot is dropped
2^16 times resolves to a stranger, which the NOTE at `game_server.cc:58-62` says ids
are there to avoid; `IdsDistinguish` is the promise that does hold.

Of the files:

* `world_load` never counts what it reads (`world.cc:101-104`), so it refuses every file
  whose info counts anything, in the last of its checks.  It sets a local variable
  `num_tiles_per_chunk` and not the field of the world, by which `dense_array` and
  `world_get_tile` go (96, 216).  No document says what the field must hold, so this is no
  finding; `WorldAsWritten` says for each value what follows.  What holds for the program
  as it is: the sparse array is as the file says, and a position in the world has a place and an
  index of its own.  What needs the field to be at least the volume of a chunk, which
  nothing sees to: its tile is inside `dense_array` and its own (`TilesSeparate`).  What
  happens otherwise: every chunk that is there has a tile in the part of the next place or behind the
  array (`TilesRunOver`); with 0 the array has no tiles at all.  All this is about the arrays
  as they are before that check.
* `otb_list.cc:241` refuses a file only if both its versions are wrong.
* A comment or a prolog that ends with the file is reported as not ended
  (`xml.cc:218`, `xml.cc:236`), and in a comment the character after a line's end is
  skipped, so `-->` at the start of a line does not end it (212).
* A node with more than ten attributes has only ten kept, but says how many there were
  (`xml.cc:413`), and the tools read that many.
* A lexer error stops the parser up to eight tokens before it is reached: the last
  items before it are neither listed nor counted.  An `items.xml` that ends between
  two items is listed without any message.
* An OTBM file cut off inside the attributes of an element gives that element, with the
  children its variable had before (`otbm_list.cc:263`).

## 5. The proofs

| Theorem | States |
|---|---|
| `TypeCorrect` | `Spec => []TypeOK` |
| `FreeListSafe` | `Spec => []NoLostSlot` |
| `SocketsSafe` | `Spec => []SocketOwned` |
| `ReaderSafe` | `Spec => []ReadInBounds` |
| `EndedIsDropped` | `Spec => []NoZombie` |
| `PollAssertHolds` | `~PollMayFail` implies `Spec => []PollAssert` |
| `DisconnectsGracefully` | `Spec => GracefulDisconnect` |
| `ServerKeepsContract` | `Spec => CallbackContract`: `Server` implements `Callbacks` |
| `DeliversTheStream` | `FramingSpec => []MessagesOfStream` |
| `GameTypeCorrect`, `PacketsOwned`, `QueuesShaped`, `WrapFitsAlways` | `GameSpec => [](...)`: `GameTypeOK`, `PacketOwnership`, `QueueShape`, `WrapAlwaysFits` |
| `WrittenIsStable`, `GivenUpStaysSo` | `GameSpec => WriteBufferStable`, `GameSpec => GivenUpIsFinal` |
| `OnlyDropsLose` | `GameSpec => LossesAreDrops` |
| `SentInOrder` | `StreamSpec => []MessagesInOrder` |
| `IdsAreDistinct` | `IdSpec => []IdsDistinguish` |
| `LoginTypeCorrect`, `SecretsAreWiped` | `LoginSpec => [](...)`: `LoginTypeOK`, `NoSecretLeft` |
| `AnswersOnce` | `LoginSpec => OneAnswer` |
| `ReadAsWritten`, `WrapSurvives`, `ChecksumIsExact` | `MsgSpec => [](...)`: `FieldsAsWritten`, `MessagesSurviveWrap`, `ChecksumExact` |
| `XteaInverse` | `xtea_decode` undoes `xtea_encode` |
| `ChecksumTells` | one other byte makes another checksum |
| `WorldIsAsWritten` | `WorldSpec => []WorldAsWritten` |
| `IntegerRoundTrip`, `StoredLoaded` | an integer is loaded as it was stored; the bytes it was loaded from are stored again |
| `ArenaTypeCorrect`, `BlocksUsable`, `BlocksSeparate`, `CommitsOnDemand` | `ArenaSpec => [](...)` for each invariant of run `Arena` |

They hold for every number of slots above 0, every `readbuf_size` of at least 2,
every set of handles, bytes, fields, keys, messages and elements of a file, every number of
packets, every size of a byte, of a buffer and of what a string is read into, and every
bound.  The assumptions are those the modules state about their constants, and nothing else:

* `MaxConnectionsAssumption`, `ServerAssumption`: with no connections `server_init`
  writes before its array (161), and a `readbuf` of one byte is overrun by the header.
* `OutPacketsAssumption`: a packet's buffer is a multiple of 8 longer than its header,
  as 16384 is.
* `GameServerAssumption`: the login and the notice, and the request made for the
  notice, fit a packet with its header and 7 bytes to spare.
* `CryptoAssumption`: the relations of the constants in `crypto.cc`.  A run of `ADLER32_NMAX`
  bytes fits a word, which is what 5552 is chosen for; the base of the checksum is at
  least a byte and fits half a word, as 65521 does; and `decode_sum` is what 32 rounds add
  up to, as 0xC6EF3720 is.
* `MessagesAssumption`: numbers fit their fields, keys are four words, and the size of a
  packet's buffer fits the 16 bits of a frame's length, as 16384 does.
* `WorldAssumption`: ids fit a word, the two ids the loader looks for differ, and the data of
  an element are bytes.  That a file is shorter than half a word, as an `i32` can say, is a
  guard of `WriteElement`.
* `ByteBaseAssumption`: a byte has at least two values.
* `ClientIdsAssumption`, `LoginServerAssumption`, `ArenaAssumption`: constants have their
  types, and the counter has values.

**The server.**  None of the invariants is inductive alone.  That the slot being
dropped owns no open socket needs to know that it is closed exactly when the visit
says so; that a handle given to a new slot is nobody else's needs that every open
one has an owner; that `recv` fits needs to know which of header, data and empty
frame the reader is in.  `ServerInv` is the conjunction of `TypeOK`, `VisitInv`
(what holds at each point of a visit), `FrameInv` (the three situations of the
reader), `NoLostSlot`, `SocketOwned` and `GivenUpWrites` (a connection that was
given up outside its visit has output left).  Each conjunct is preserved by each
step, one step of the proof per action.

`NoLostSlot` is stated without paths or recursion: links lead from free slots to
free slots, no two links meet, none leads to the head, and every set that holds the
head and is closed under the links holds every free slot.  The last part is an
induction in the form of a quantifier over sets, and is what taking the head off
(`server_alloc_connection`) and putting a slot in front (`server_free_connection`)
preserve.

`PollInv`, for `PollAssertHolds`, says that from a poll to the end of its pass no
slot in use has POLLNVAL in its `revents`.

**The contract.**  Under `ServerInv` every step of `Server` is mapped to a step of
`Callbacks` or changes none of its variables.  `open` is `fd # INVALID_SOCKET`,
`writing` is output left to send, `doomed` is `closing`.  `GivenUpWrites` is why
`OnRead` may promise that a doomed connection still writes.

**The frame reader.**  `MessagesOfStream` compares what the reader has delivered
with its operator `Messages`, which goes through the whole stream recursively and knows nothing of
pieces.  Three notions connect them.  `Parses(s, ps, ms)` says without recursion that
`ms` are the frames of `s` that start at the positions `ps`, each behind the one
before.  A parse whose last position does not start a whole frame is what the
recursion computes (`ParseIsMessages`); it stays a parse when the stream goes on
(`ParseGoesOn`), and is extended when a whole frame has come (`ParseNext`).  `Stands`
says where the reader is in the frame after the last: in its header, in its data,
or at its end for good if it is empty or oversized; in the first two, `readbuf` holds
the rest of the stream.  `FramingInv` is `ServerInv` and, for each slot in use, a parse of what
was received up to where its reader stands.  One lemma for each outcome of `recv`
(`ReadsPart`, `ReadsHeader`, `ReadsOversize`, `ReadsMessage`) moves it on, and
`ReadsFirst` is why nothing of the slot's earlier connection gets in.

**The packets.**  `PacketInv` is stated about sequences.  `Layout` says that the recycled
packets and each queue are linked lists (`IsList`: along `next` from the head, each
packet once, ended by the last one, which is the tail); `Owners` says that no packet
is in two of them, or in one and being written.  That sequences with these properties
are the chains the properties speak of (`ChainOfList`) is proved once, and each
operation is shown to lead from such lists to such lists: taking a recycled packet or a
new one and appending it, taking the head of a queue, releasing.  No operation releases
more than two packets of a client at once (`AtMostTwo`).  The packets `game_on_drop`
loses are then in no list at all (`OwnersDropped`), so the leak does not break `Owners`.

**The losses.**  `LossesAreDrops` compares the packets that are in no list before and after
a step.  For most steps packets change hands within one client (`HandedOver`), or one
comes from the recycled ones or the arena (`PutLosesNone`).  `DropLosesQueue` is the
drop, where the release loop finds the tail alone, and `ForgetLosesNone` needs `SlotInv`: a
new connection forgets the packets of its slot, and there are none.

**The game.**  `GameInv` adds to `PacketInv` the types, `SlotInv` (a slot without a
connection is as `game_on_drop` leaves it) and `RoomInv`: the last 2 bytes of every
buffer are free.  That is enough for the padding, which ends 2 bytes before a
multiple of 8 (`PaddingFits`).  What preserves it is `Fits`, which relates what a
message asks `get_out_packet` for to what it writes, and is shown for each message.  The
cancel-walk writes one byte more than it asks for; because of the 7 bytes that
`get_out_packet` adds, up to 5 more would do.

**The stream.**  `StreamInv` says that what was handed over, followed by the contents of
the packets in the queue, counts 1, 2, and so on.  The contents of a queue are a fold
over its chain.  `Joined` and its lemmas say what becomes of them when a packet is
appended, when the first is taken, when the last is extended, and when only packets of
others change.

**The ids.**  `IdInv` relates the counter of a slot to that of each id: it is ahead by as
many drops as there were since, modulo one round.  So within one round equal
counters mean no drop at all.

**The logins.**  `LoginInv` is `LoginTypeOK`, `NoSecretLeft` and `SlotInv`: a free slot is
as it was at the start, and output is on its way only for a login that has handed it
over.  `NoSecretLeft` is itself about the buffer before it is handed over too, without
which no step could hand it over.

**The messages.**  `MessageInv` says what the bytes are.  While a message is written, the
buffer behind its first eight bytes contains (`Contains`) every field that fits, each at the
place where the sizes of those before it add up to (`EndOf`), whatever was in the buffer
before.  A frame carries a payload (`Carries`) if it is length and checksum in front of
an encoding of the payload's length, the payload and some padding; it does so after
`packet_wrap` (`WrapIs`), and `packet_unwrap` gets from such a frame exactly the
payload (`UnwrapWhole`), and nothing from one with a byte changed (`UnwrapChanged`): the checksum or
the data under it differ, and `ChecksumTells` says that this is not both.  While a message
is read, the position is the sum of the sizes read so far as long as all was there, and
behind the end from then on: the length of a string that is cut off may be read wrong,
but it never moves the position back.  The invariant was checked by TLC before it was
proved, except for the existential parts of `Contains` and `Carries`.

**The world.**  `WorldInv` says where the loader is: behind element `found` of the file
(`PlaceInv`), and within an element of pairs a whole number of pairs behind its start
(`PairsInv`).  That this place is always the end of an element, and that the next one is found
exactly if it is all there (`ComesToNext`), rests on `InFile`, which says of each element where its
bytes are in the file as far as that goes; `NextIs` computes `kpb_next_element` from it, where
none of its 32-bit sums wraps because the file is smaller than half a word.  `Placed` says of each
chunk that its entry is what the last pair that names it says.  A pair is the last of those
read when it is read (`PairRead`); nothing else the loader does makes or
hides one (`NothingRead`).  The second half is arithmetic: a position in the
world has an index of its chunk and an index within it, both smaller than the product of
their extents (`IndexInBox`), and each index stands for one position only (`SameDigits`, applied
twice).  So two positions have the same place and index only if their chunks share a place
(`PositionsAreDistinct`), whatever the field holds.  Tiles are parts of `dense_array` of as many
elements as the field says: with at least the volume of a chunk the same argument makes
them distinct (`TilesAreSeparate`), with less the last position of a chunk shows that it runs over
(`TilesDoRunOver`).
All of `WorldInv` was checked by TLC before it was proved.

**The codecs.**  That an integer is read as it was written is an induction over its bytes
(`IntegerRoundTrip`, `StoredLoaded`).  XTEA is a network in which each half-round
adds to one word a function of the other, so what the function is does not matter:
`RoundInverse` needs only that it is a word, which for `Xor` is an induction over bits
(`XorIsInteger`).  32 rounds and any number of blocks follow by induction.  For the checksum
the proof follows the unreduced sums: between two reductions the words are the sums of
the bytes so far in the run and what the run started with, which `CryptoAssumption`
keeps below the size of a word (`AddedBounded`).  A byte changed in one place changes the sum
`a` by less than the base and therefore its remainder.

**Recursive functions.**  The operator `Messages` of `ServerFraming`, `ChainAlong`, `FlattenSeq` and most functions of `Crypto` are recursive functions,
which TLA+ defines as a choice of some function that satisfies the equation; before
anything can be said of one, such a function has to exist (`FromExists`, `TableExists`,
`FlatExists`, `RecursionExists`).  These and the inductions are done with least counterexamples: a set of numbers
that is not empty has a least one (`Least`, `LeastNumber`, from the well-foundedness of
the order).

**The arena.**  The invariants of the run are inductive together with
`RequestInv`, which orders `Base`, `memptr`, `ptr` and `new_memptr` while a request
is served.  The two lemmas under it are arithmetic: `align_up` never goes down, and
adding a granule keeps a multiple of granules.

### Only model-checked

* The liveness properties `GoneIsDropped`, `DoomedIsDropped`, `NobodyWaits`, `ToldIsDropped`
  and `LoginEnds`: fairness and ENABLED are outside the prover.
* `NumbersExact`, `RsaRoundTrip`, `OtbAsWritten`, `ElementsAsWritten`, `TokensAsWritten` and
  `ItemsAsWritten`, the properties of `Readers`: what these readers and numbers compute goes through data by RECURSIVE
  operators, and the prover does not accept a module that reaches one.  The invariants are
  about constants that `MCReaders` defines, so a theorem about `Readers` itself would say
  nothing.  Of `NumbersExact` the part about integers as they lie in a buffer is proved
  (`IntegerRoundTrip`, `StoredLoaded`); the other byte order and the portable functions are not.
* What the violated runs show: a counterexample is one behaviour, and TLC gives it.

Every other safety property of the runs is also a theorem.
That `GameServer`, `ClientIds` and `LoginServer` keep to `Callbacks` needs none: each of
their actions is a conjunction with one of its.

### Not modelled

* `server_socket` and the WSAStartup hack: start-up code that succeeds or exits.
* In the servers the content of the messages; there a wrapped packet is its size.
* Of mini-gmp the functions that nothing in the program calls (more than half of
  the file: signed divisions, roots, primes, bits, output), its memory, and
  whether a limb of a number is a leading zero: numbers come with none.
* Of the world the tiles, spawns and temples, which the source has as TODOs.
* Of the tools the wording of what they print.
* `ipchanger`: operating system calls on another process.
* Configuration, logging, clock: no state the properties depend on.

## 6. The plan

Done: `Callbacks`, `Server`, `ServerFraming` and their proofs; `OutPackets`,
`GameServer`, `GameStream`, `ClientIds`, `LoginServer`; `Arena`; `Messages`; `World`; all
other readers, codecs and the tools (`Readers`).

Proved: every safety property of `Server`, `ServerFraming`, `GameServer` with
`OutPackets`, `GameStream`, `ClientIds`, `LoginServer`, `Arena`, `Messages` and `World`, and the
refinement of `Callbacks`.

Open, in the order of what would say most:

1. `Otb...`, `Xml...`: loops as steps, as in `World`, which would bring them within reach
   of the prover.
2. `Kaplar`: the main loop with both servers on one set of handles.

## 7. Running

    tlc -workers 2 -config ServerSlots.cfg MCServer.tla
    tlapm Server_proofs.tla
    tlapm GameServer_proofs.tla
    tlapm World_proofs.tla

The module of each run and the properties are in `PROJECT.json`, together with one
mutant for each property: a definition with a plausible bug, named next to the
definition it replaces (`FreeConnectionHeadFirst` next to `FreeConnection`), under
which TLC finds that property violated.
