# A TLA+ model of the deepstream C++ client

This directory models and verifies the client library of this repository: TLA+
modules translated from the C++ sources, configurations for the model checker
TLC, and theorems whose proofs TLAPS checks. `PROJECT.json` maps every
definition to the lines it stands for.

    tlc -workers 2 -config connection_safety.cfg Connection
    tlc -workers 2 -config client_events.cfg Client
    tlapm ClientEvent_proofs.tla

## 1. The system

A deepstream client is single-threaded. It opens a websocket, goes through a
handshake and a login, and then exchanges messages about events and presence.
The application polls it with `process_messages()`; everything else happens
inside that call, inside the calls that the application makes, and inside the
callbacks that the client makes meanwhile.

| component | sources | state | operations | called by / calls |
|---|---|---|---|---|
| WebSocket handler | `lib/poco-ws.cpp`, `ws.hpp` | `state_`, `websocket_`, `uri_` | `open`, `close`, `send`, `process_messages`, `URI` | Connection / its `on_open`, `on_message`, `on_close`, `on_error` |
| Connection | `core/connection.cpp` | `state_`, `deliberate_close_`, `reconnection_attempt_`, `p_login_callback_`, `p_auth_params_` | `login`, `close`, `send`, `on_message`, `on_open`, `on_close`, `on_error` | Client, Event, Presence, handler / handler, Event, Presence, the login callback |
| Event | `core/event.cpp` | `subscriber_map_`, `subscribe_fn_map_`, `subscription_counter_`, `listener_map_`, `send_queue_` | `emit`, `subscribe`, two `unsubscribe`, `listen`, `unlisten`, `notify_`, `on_connection_state_change_` | application, Connection / Connection's `send`, callbacks |
| Presence | `core/presence.cpp` | `subscribers_`, `subscribe_fn_map_`, `subscription_counter_`, `querents_` | `subscribe`, two `unsubscribe`, `get_all`, `notify_` | application, Connection / Connection's `send`, callbacks |
| Client, `deepstream.hpp` | `core/client.cpp` | owns the others, and `subscription_counter_`, which Event and Presence share | forwards | application |
| Scanner and parser | `core/lexer.l`, `core/parser.cpp` | `tokenizing_header_`, `offset_`, `messages_`, `errors_`, the start condition | one token after the other | Connection's `on_message` |
| Messages | `core/message*.cpp`, `random.cpp` | tables of headers, names, argument counts | building, serialising, looking up | all |
| JSON | `lib/json.hpp` (vendored, part of the interface) | lexer and parser: position, last token, containers | `parse`, `dump`, MessagePack, CBOR, pointers, patches | type prefixes, application |
| Type prefixes | `lib/type-serializer.hpp` | none | `to_prefixed_buffer`, `prefixed_to_json` | `deepstream.hpp`, login |
| Random identifiers, buffers, helpers | | none that another part depends on | | |

What is hard about it:

* **Calls nest.** A failed write calls `on_error()`, that calls `open()`, and
  that may fail and call `on_error()` again, all inside the `send()` of some
  handler. A callback may emit, subscribe, unsubscribe, log in or close while a
  list is being notified.
* **Messages outlive their socket.** `process_messages()` first reads all the
  frames there are and handles them afterwards. If the last one is a close
  frame, `read_frame()` has already reopened the socket when the others are
  handled.
* **Failures anywhere.** A socket ends by a close frame, by an end of stream,
  by an exception while reading or while writing, or by a frame too large for
  the buffer. A flush may stop in the middle.
* **Callbacks throw.** An exception leaves the callback, the notification, the
  rest of the batch and `process_messages()`. What they had left to do is lost.
* **Two users of one link.** Event and Presence send over the same Connection,
  each sees only whether it is OPEN, and both number their subscriptions from
  one counter. The flush of Event runs inside the handler of A|A, and a failed
  write reopens the socket below it.
* **Order.** Login before or after the challenge, an `emit` while older ones
  wait, answers for a connection that has gone.
* **Garbage.** After a malformed message the parser must find the next one.
* **Limits.** The tables of headers are parallel arrays that agree with the rules
  of a scanner in another file. JSON text, MessagePack and CBOR have some forty
  limits each between one form of a number or size and the next.

What makes the parts correct:

* Connection: it and the server stay in step; OPEN only with a server that
  accepted the login; `close()` is final; it gives up only after all attempts;
  a login succeeds if a socket lasts; every call returns.
* Event: no emit is lost, repeated or reordered; the server knows all
  subscriptions; lists and callbacks agree; everyone is called once, in order.
* Presence: the same for its lists; who asks is answered once.
* Client: put together, each part is still what it promises alone; a server
  receives emits in order and once; it comes to know all subscriptions; an
  identifier names one subscription.
* Parser: every byte is in one message or one error; all messages found are
  real and no real one is missed; none of its assertions fails.
* Messages: what is built is read back, and is a message of the protocol.
* JSON: a value written and read is the same value, in every format, unless it
  has no text; a text is accepted if and only if the grammar says so; a payload
  never contains a separator of the wire protocol; a diff makes its target.

## 2. The modules

| module | models | lines |
|---|---|---|
| `Protocol` | messages, connection states, the two transition tables | `connection.cpp:318-439` |
| `Socket` | `PocoWSHandler`, TCP and the server (the last two external) | `poco-ws.cpp` |
| `Connection` (extends `Socket`) | `Connection` driving that socket, its callers and callbacks | `connection.cpp`, `poco-ws.cpp:97-140` |
| `Lists` | two words about lists of identifiers | |
| `Event` | `Event` over a connection that is OPEN or not | `event.cpp` |
| `Outbox` | what `emit()` promises: an abstract specification that `Event` implements | |
| `Presence` | `Presence` over such a connection | `presence.cpp` |
| `Client` | `Connection`, `Event` and `Presence` together, with a server that learns | `client.cpp`, and what the parts map |
| `Messages` | the tables, `MessageBuilder`, `MessageProxy`, the messages the client builds | `message*.cpp`, `random.cpp` |
| `Parser` | `execute()`: scanner and parser, one step per token | `lexer.l`, `parser.cpp` |
| `MCParser` | frames for the parser, made of pieces or by `MessageBuilder` | |
| `JsonLexer`, `JsonParser`, `JsonWriter` | text to value and back | `json.hpp` |
| `TypeSerializer` | payloads of events and of the login | `type-serializer.hpp`, `deepstream.hpp` |
| `JsonBinary` | MessagePack and CBOR | `json.hpp:7078-8441` |
| `JsonPatch` | pointers, patches, `diff()`, equality | `json.hpp:5838-5909`, `11767-12953` |
| `MCJson`, `MCBinary`, `MCPatch` | payloads, bytes and patches, with independent definitions of what they stand for | |
| `..._proofs` | theorems (section 4) | |

### Connection and Socket

`pc` is the function on top of the C++ stack: constructor (`ctor`), application
(`app`), `process_messages()` while it reads (`read`), `on_message()` while it
handles (`dispatch`), the two kinds of callback (`event_cb`, `login_cb`) and the
flush of Event inside the handler of A|A (`flush`). `opening` is set while
`open()` runs on top of that. `open()` calls itself through `on_error()` and
`on_close()`, but always as the last thing it does, so one flag stands for any
depth of it. One action is a handler as a whole, up to the point where it calls
`open()` or a callback. `on_message()` handles one parsed message per step, so
the network may act between two of them but the application may not.

A callback of a kind in `Throwing` may throw, and so does the login callback
when it is `"empty"`, as in the `login()` of `deepstream.hpp:121` that takes
none. So may `send()`: the handlers of C|PI, C|CH and C|A answer, and in a state
in which the answer is illegal (C|PI in ERROR, say) `send()` throws after the
transition on receipt, and nothing is written. `Unwind` is what an exception does:
it ends the handler, the batch and `process_messages()`, and the application goes on.

`batch` holds the frames read and then the parsed messages still to be
handled. The history variable `stale` says that they came from a socket that is
gone, and `tainted` that such a message was handled on the current socket.
Payloads are left out, and an APP message stands for all of EVENT and PRESENCE.

The application calls the client in `app`, `event_cb` and `login_cb`. The server
follows the protocol: challenge, answer to C|CHR, answer to A|REQ. It may ping
and send application messages at any time, and the socket may end at any time.

### Event and Presence

A name, a pattern or a subscription is a value, a payload is left out, and
`frames` is a stack with one entry for each notification in progress: who is
still to be called, and whether a callback is running. `CallNext`,
`CallbackReturns` and `NotifyReturns` are the loop over the callbacks. While a
callback runs every operation of the application is possible. A callback that
throws, or an empty `std::function`, unwinds the frames up to one whose callback
catches, any number of them. Presence notifies from `on_message()` only, so one
`frame` is enough there.

`online` is what the two see of Connection, `session` what the server has been
told on this connection. A write that fails takes the connection down before
`send_` returns, as `Connection::send` does. `Reconnect` and `ReconnectAndFail(n)`
are `on_connection_state_change_(OPEN)` as a whole, with all or only the first
`n` entries of the queue written. `emitted`, `sent`, `asked` and `answered` are
history variables; `late` counts answers to queries of connections that have gone
and may still be among the messages read, and `thrown` are the querents that were
waiting when one of them threw. `subscribe_fn_map_` in `Presence` are the keys of the
map, those included that `operator[]` made while notifying an erased subscriber;
`empty_fns` are the keys without a function, and `Callable` the others.

Each operation is written as what it does to the lists (`...Local`) and what it
tells the server (`...Tells`), so that `Client` can use the one and send the other.

Where the code is undefined the model takes all the outcomes: a callback that
has unsubscribed itself runs on in a destroyed `std::function`, and a `get_all()`
in a query callback appends to the vector under iteration. Both either go on or
crash. A crash is a state that nothing leaves, so the runs of the two modules, and
of `Client`, do not check for deadlock.

### Client

The steps of `Client` are those of the other three. A call that sends is one
step of two of them: `...Local` of Event or Presence, and `SendApp` of
Connection, the result of the one handed to the other. There is one stack: the
frames of Event above that of Presence, both above `pc`. There is one counter.
`uplink`, `downlink` and `inbox` hold the contents of the APP messages in
`toServer`, `toClient` and `batch`; `told` is what was written on this
connection, `known` what the server has taken in, `received` what any server has.

The flush is a loop of writes here: the subscriptions in any order, the listeners,
the queue. When a write takes the connection down the rest of the loops finds it
reopened but not OPEN, and writes nothing more.
`EventView` is Event as seen through this: it is online when the flush is over,
and what a flush has written so far counts as still in the queue.
`ImplementsEvent`, `ImplementsPresence` and `ImplementsConnection` say that the
composition is what each module promises alone.

### Messages, Parser

The tables of `message.cpp` are sequences, as they are there, and the headers and
argument counts that the scanner and the parser know are a second table taken
from `lexer.l` and `parser.cpp`; `BuiltIsReadBack` says that they agree. A message
is a record of a header and arguments, `MessageProxy` a record of offsets.

The state of `Parser` is that of `deepstream_parser_state` plus the scanner's
start condition. A step is what the scanner matches at `offset_` and what
`handle_token()` does about it. Flex's longest match, its discarding of garbage
up to the next separators, and its end-of-buffer rule (`yyless(1)`) are
`MatchesHeader`, `Garbage` and `Eof`. A byte is one of a small set: text is cut
into letters only where one header is the beginning of another. Deadlock is
checked: some rule matches any input.

### JSON

`JsonLexer` has the automaton that re2c made, state by state (its labels are the
states), `JsonParser` the recursive descent as a stack and a `pc`, one step per
token, `JsonWriter` the serializer and `TypeSerializer` the payloads. Numbers are
narrower than in C++: `MaxUnsigned` and `MaxNegative` stand for 2^64 - 1 and
2^63, and a double is a decimal with `FloatDigits` digits and exponents up to
`MaxExponent`, of which `digits10` are written. What is kept is how the limits
relate: an integer that does not fit becomes a double, one that is too large
becomes null, and a double is not always written with all its digits.

In `JsonBinary` integers are words of eight bytes with their full width, and the
readers are functions of a byte sequence and a position. Sizes of 2^24 or more,
which no value of the runs has, are one size. In `JsonPatch` all exceptions are
one, the assertions that a release build drops are dropped, `std::stoi` is taken
without its blanks and signs, and where C++ leaves open which of two operands is
evaluated first (`copy`), either is.

## 3. The runs

| run | bounds | shows |
|---|---|---|
| `connection_safety` | 2 messages in flight, all answers of the server, secure socket, a callback or none, callbacks that throw | five invariants and `CloseIsFinal`, against every failure at every point |
| `connection_liveness` | same, a server that accepts, a login callback that returns | `LoginSucceeds`, `CallsReturn` |
| `event` | 2 names, 1 pattern, 3 subscriptions, 3 emits, notifications 2 deep | lists, order of notification, session and outbox; every emit is written some day |
| `presence` | 3 subscriptions, 3 queries | lists, queries, session |
| `client_events` | 1 name, 1 pattern, 1 subscription, 2 emits, notifications 1 deep, 3 messages in flight, 1 message of the server unhandled | the composition implements Connection and Event; what the server receives and comes to know |
| `client_presence` | 1 name, 2 subscriptions, 1 query, else the same | the composition implements Presence; one counter |
| `parser` | all 30 headers, frames of up to 4 pieces out of 8, frames of up to 2 built messages | messages and errors of every frame |
| `json` | see below | text, payloads, binary formats and patches |
| four runs `expect: violation` | | section 5 |

The properties:

* `Lockstep`: at most one handshake message is in flight, in either direction,
  and the receiver's state is the one that awaits it. `OpenMeansAuthenticated`:
  OPEN implies that the server accepted the login on this very socket. Both are
  about sockets that no stale message has touched. Without that proviso they are
  false: three connections dropped one after the other, after C|CH, C|CH C|A
  and C|CH C|A A|A, lead a client to OPEN on a fourth one that has seen no login.
* `StateMatchesSocket`, `GivesUpOnlyAfterRetries`, `CloseIsFinal`: the
  reconnection, whose only memory is `deliberate_close_` and a counter.
* `EmitsInOrder`: what was written followed by what is queued is all that was
  emitted, in order. `ImplementsOutbox` is the same as a refinement, and
  `EmitsReachServer` its liveness.
* `ServerKnowsSubscriptions`: an OPEN connection's server knows every
  subscription and listener, those from before the connection included.
* `ListsMatchCallbacks`, `NotifiesInOrder`, `ListMatchesCallbacks`,
  `AnsweredOnce`, `NoOrphanSubscription`, `QueriesEnd`: lists that change while
  they are notified. Both `unsubscribe()` of Presence assert that list and map have
  the same size: `ListMatchesCallbacks` says that they do exactly as long as no erased
  subscriber has been called (or since `unsubscribe()` cleared the map), and that the
  list is right in any case. `AnsweredOnce` makes an exception of the querents
  that waited when one of them threw, who are called again: nobody else is.
* `ImplementsConnection`, `ImplementsEvent`, `ImplementsPresence`: the
  abstract link of Event and Presence is what Connection gives them, and they do
  nothing to Connection that it does not expect.
* `ReceivedInOrder`: emits reach servers in order and at most once, over all
  connections. `ServerWillKnow`: with what is in flight, the server knows every
  subscription. `ServerCatchesUp`: it knows them in the end, and the queue is
  empty, wherever flushes were cut short. `IdsAreUnique`: an identifier of Event
  is never one of Presence.
* `AssertionsHold`, `EveryByteOnce`, `MessagesAreGenuine`, `NoMessageMissed`:
  the parser. The last two compare with a definition of a message that knows
  nothing of tokens (`IsMessage`). `BuiltIsReadBack`: the sizes, offsets and
  tables of the writing and the reading side agree.
* `RoundTrip`, `PayloadIsOneArgument`: a value emitted is the value received, but
  for what JSON has no text for, and its payload has no separator in it unless a
  plain string put it there. `StringsAreRead`, `NumbersAreRead`, `TextsAreParsed`
  compare the automaton and the parser with definitions of UTF-8 and UTF-16, of
  decimals and of the grammar. `BinaryIsRead` compares with a table of the two
  formats, `PatchMakesTarget` with the target of the diff or with an edit of the value.

Why the bounds are enough. Two messages in flight make batches of a handshake
message and another one, and every batch can be followed by an end; `MaxInFlight`
bounds only what the server sends unasked. Attempts are not bounded by the
model but by the code (3). Two names are needed for the conditions that look at
all subscriptions, three ids for a list that shrinks under a notification, three
emits for a flush that stops with one entry written and one left, depth two for
a notification within one.

In `Client` the question is not what lists do, which the runs of the parts have
asked, but what happens between the parts. One name and one pattern make a flush
of two loops; two emits one that stops with an entry written and one left, and an
emit that comes while an older one waits. Two subscriptions make one of Event and
one of Presence, or one that was made after another has gone. Three messages in
flight fill a batch with a handshake message and two others.

Four pieces make a frame with a complete two-argument message after a piece of
garbage, or two messages of one argument and a bit; one piece is a header that
is the beginning of another. Two built messages are one that starts at the
beginning of the buffer and one that does not.

`json`: payloads of scalars at the limits and of objects and arrays two levels
deep; strings of up to three bytes from all the bounds of the ranges of UTF-8,
which with the byte before and after each range is what the automaton tells
apart; up to three escapes, where a pair of surrogates needs two and a broken pair
three; numbers of up to five characters; texts of up to five tokens, and longer ones
one token away from a correct one. In binary every value at every limit of a
width, cut off at every byte, and every first byte; sizes up to 65536. Diffs of
all pairs of some two hundred values, with keys that need escapes, and single
operations at every place of each. A state in which a payload has been
read is the last one, so this run does not check for deadlock.

**Fairness.** Calls return and loops go on (the code has no other way); the
application polls (`process_messages()` is how the library is used); the server
answers what it received; `open()` succeeds or fails. In `Event` a connection
that is retried is good for a whole flush some day (strong fairness of
`Reconnect`). In `Presence` a query on a connection that keeps coming back is
answered. In `Client` nothing of this is assumed but the first three: the
system's own steps and loops are taken, the server reads and answers, and
`ServerCatchesUp` supposes a socket that lasts. Nothing that goes wrong is fair,
and no other call of the application is.

Every property has a mutant in `PROJECT.json`: a version of one definition with a
plausible mistake, defined above it, under which TLC finds the property violated.

## 4. The proofs

For all values of the constants, so for any number of names, messages in flight,
emits, nested calls, headers and bytes:

| module | theorems |
|---|---|
| `Connection_proofs` | `TypeCorrect`, `CloseIsForever`, `StateFollowsSocket`, `NeverGivesUpEarly`, `AlwaysInLockstep`, `OpenIsAuthenticated` |
| `Lists_proofs` | lemmas about lists that lose, gain or skip an element, and about sequences that are flattened or summed up |
| `Event_proofs` | `TypeCorrect`, `NoEmitLost`, `EventImplementsOutbox`, `ServerAlwaysKnows`, `ListsAlwaysMatch`, `AlwaysInOrder` |
| `Presence_proofs` | `ListAlwaysMatches`, `NeverOrphaned`, `AlwaysAnsweredOnce` |
| `Client_proofs` | `ClientImplementsConnection`, `IdsAlwaysUnique`, `ClientImplementsPresence` |
| `ClientEvent_proofs` | `ClientImplementsEvent`, `EmitsAreReceivedInOrder`, `TypesAreKept`, `ServerGetsToKnow` |
| `Parser_proofs` | `TypeCorrect`, `ParserAssertions`, `EveryByteAccounted`, `FoundMessagesAreGenuine`, `NoMessageIsMissed` |
| `MCParser_proofs` | `ReadingIsParsing`, `BuiltIsAlwaysReadBack` |

They use only the named assumptions of the modules, which say that the
parameters have their types: that the answers of the server are answers (in
`Client` too, `ConnectionAssumption`), that bounds are numbers (`BoundsAssumption`),
that separators differ, that headers contain no message separator, and that no
header goes on like another one with an argument (`NoHeaderIsAnArgument`: a
header of `lexer.l` that begins with another one, as C|CHR with C|CH, goes on with
a letter; were it a separator, the longest match would read an argument as part of
a header). For messages that are built, `TablesAssumption` says that the parser is
given the tables and separators of the source and the frames of `MCParser`, and
`ArgumentsAssumption` that arguments are made as `make_argument()` of `random.cpp`
makes them: of any length but 0, and of any bytes but the two separators. TLC evaluates
all of them, `NoHeaderIsAnArgument` with the real headers, in the runs.

* **Connection.** `TypeOK` is inductive. With it so are `StateMatchesSocket` and
  `GivesUpOnlyAfterRetries`: `on_close()` is the only way into CLOSED without a
  socket, apart from `close()`, and it either counts or has counted to the limit.
* **The handshake.** `Lockstep` is inductive together with `TypeOK` and `Frames`:
  there is a batch only below `process_messages()`, and an `open()` over a batch
  that is not stale happens only in the constructor. `Frames` is needed because
  `OpenSucceeds` starts a new handshake with whatever `Coming` holds; only if the
  batch is stale or empty does it start with nothing. Why `Lockstep` says so much:
  `OpenMeansAuthenticated` follows from it but is not inductive. To know that the
  server is `authed` when A|A arrives one has to know that no other A|A can
  arrive, hence that there is one handshake message at most, hence that neither
  side sends one while another is in flight. `StatesAgree` about the login
  callback covers the one handler that a callback interrupts.
* **Event.** The invariant is `EmitsInOrder` with the types. A step refines
  `Submit`, `Deliver` or stutters. For `ServerKnowsSubscriptions` the induction is
  over `session`: whatever adds to the lists while online tells the server or goes
  offline. For the lists the invariant says, besides, that each frame's callbacks
  are in increasing order, that those ids are older than the counter, and that
  one whose callback runs is the first of them.
* **Presence.** `PresenceInv` is `TypeOK` with five facts: who runs is the first
  of those left; they are in order and not newer than the counter; the keys of the
  map are those of the list and, apart from them, finitely many that `operator[]`
  made; the server knows no subscriber that has gone; and a querent is called after
  all who asked before it. From the third follows when the assertion on the sizes
  holds: a list without repetitions is as long as it has elements (`SizeOfList`), so
  the map is larger by the empty entries. The last is
  what excludes a second call: an answer that comes late finds a list whose
  members have all asked after those already called, or waited when one threw.
* **Client.** Each step of `Client`, contents left out, is one of `Connection` or
  none. So what is proved of Connection holds of the whole client.
  `IdsAreUnique` follows from an invariant about more ids than it names: those in
  the lists, in the maps and in the notifications in progress. Event's and
  Presence's are disjoint and all below the counter; a step of either adds none but
  the counter's value, which it then counts up.
  `ImplementsPresence` needs to know that an answer never arrives that Presence
  cannot have asked for. The invariant counts: answers in the batch, answers and
  queries on the wire and queries that the server knows of are no more than the
  queries of this connection, or, if the batch is stale, the answers in it are no
  more than those of earlier ones (`AnswersCounted`). Two more facts make the step
  go through: an open socket that is not being opened has a server, so that going
  offline loses both directions at once (`ConnInv`, which takes its types from
  Connection's own invariant), and the frames of Event, Presence and Connection
  are stacked in that order, so that whoever sends is code that Presence lets run
  (`StackInv`).
  `ImplementsEvent` needs a view of a flush as one step. Event's flush sends all or
  stops at a failure, at once; the client's writes one message at a time, and
  callbacks and failures come between. The mapping takes back what a flush under
  way has done: `EventSent` and `EventQueue` put the emits that it has written
  back into the queue, `EventSession` forgets the subscriptions that it has told.
  The flush of Event is the step in which the client's ends. `FlushInv` says when
  that can be done: nothing is taken back outside a flush; emits are written only
  when no subscription is left to tell; a flush that goes offline having written
  something leaves something in the queue; and online, what was told and what is
  left to tell are the lists.
  With both refinements Event's and Presence's own invariants hold of the client
  (`EP!ListsInv`, `PP!PresenceInv`, as instances of their proof modules), and
  `ClientInv` joins them. Two properties of the wire follow.
  For `ReceivedInOrder` the invariant is about the emits on the wire as well: they
  are in order, later than all that were received, and none is one that Event has
  not written (`ReceivedInv`). All a step can do to the wire is lose it, read its
  first message, or write one (`WireStep`), and whoever writes an emit writes the
  next number.
  For `ServerWillKnow` it is that what the server knows, changed by what is on its
  way, is what it was told (`ToldInv`, where the last message about a name
  decides: `Decides`); that what it was told are the lists is Event's and Presence's
  part. A server that has not accepted the login drops what it reads, and then the
  two would part for good. That no application message is on its way to such a
  server is `OpenMeansAuthenticated`, hence `Lockstep` is part of the invariant
  (`KnowsInv`).
* **Parser.** `TypeOK /\ AssertionsHold` is inductive. That start condition and
  `tokenizing_header_` agree is what makes `Back` defined in every handler. For
  `EveryByteOnce` the invariant is that complete messages and errors tile the
  buffer up to an edge, which is the start of the open message or `offset_`:
  no gaps, no overlaps, whatever the order in which the two lists grew.
  `MessagesAreGenuine` relates a message to the bytes of the frame, so the
  invariant says what has been read of the open one: its header and whole
  arguments, up to `offset_` (`ReadsInv`). `NoMessageMissed` is the converse and
  needs more: each message of the frame that ends before `offset_` was found, and
  one that goes on beyond it is the open one (`FoundInv`). That is where
  `NoHeaderIsAnArgument` comes in, and the rule of the longest match.
* **Messages.** `BuiltIsReadBack` for any list of messages needs what the writing
  side writes, byte by byte. `MessageBuilder` and `Frame` are folds (`FlattenSeq`,
  `FoldLeft`), so this is induction over the length of a sequence. `SetInduction` in
  `Lists_proofs` has a set stand for the property, which well-founded induction on
  `Nat` then applies to; with it `FlattenIs` and `SumIs` say what the folds are.
  `BinaryIs` is the layout of one message, `FrameIs` that of the frame: message
  after message, edge after edge. On the reading side `ReadBackInv` says where the
  parser is in that layout. Between two messages all before are read and nothing
  of the next is; within one its header is read and so are the first of its
  arguments; at the end all are, and never is there an error. `ScansHeader` and
  `ScansPayload` are the scanner's longest match at such a place: that it takes the
  text of the table and no longer one is again `NoHeaderIsAnArgument`, and that an
  argument is taken whole is that it holds no separator. The tables agree by
  comparison, row by row (`EveryHeaderHasARule`, `TextsDiffer`).

Only model-checked:

* liveness and fairness (`LoginSucceeds`, `CallsReturn`, `EmitsReachServer`,
  `QueriesEnd`, `ServerCatchesUp`), which are out of the prover's reach;
* that some rule of the scanner matches in every state (TLC's check for deadlock);
* JSON (`RoundTrip`, `PayloadIsOneArgument`, `StringsAreRead`, `NumbersAreRead`,
  `TextsAreParsed`, `BinaryIsRead`, `PatchMakesTarget`). A value there holds values, and
  `dump`, the binary formats, patches and the reference definitions (UTF-8, UTF-16,
  the grammar) are `RECURSIVE` operators on values, and in their modules the prover has no
  arithmetic. Induction over the length of a sequence does not reach them.

## 5. What the code does not keep

Each of these has a run that ends in a violation, and an entry under `findings`
that quotes the line that says otherwise.

| run | what happens |
|---|---|
| `connection_send_assert` | a message of a dead socket is handled after it, in a state (CLOSED, or what its successor is in) where its answer makes `send()` assert, or throw |
| `event_unsubscribe` | UNSUBSCRIBE is not sent while there is any other subscription |
| `presence_offline_subscribe` | a subscription made offline is never sent |
| `message_unlisten` | `unlisten()` builds a message whose header is in no table |

The modules contain these behaviours too, without a run of their own:

* After C|REJ the client is CLOSED with an open socket, and answers a ping on it
  (`connection.cpp:366`, `406`).
* `close()` comes before the transition: a refused login ends in ERROR, not in
  AWAIT_AUTHENTICATION or CLOSED as the table has it (`connection.cpp:234`,
  `375-394`).
* A ping in state ERROR makes `send()` throw, and the rest of the batch is lost:
  A|E|INVALID_AUTH_DATA and C|PI in one batch are enough (`connection.cpp:188`).
* A callback erased by an earlier one is called as an empty function
  (`event.cpp:245`), and in Presence leaves an empty entry in
  `subscribe_fn_map_` (`presence.cpp:137`). From then on the assertion
  `subscribe_fn_map_.size() == subscribers_.size()` fails at the next call of either
  `unsubscribe()` (`presence.cpp:61`, `84`): see `SizesAgree`.
* A query made in the callback of a query is dropped (`presence.cpp:121`), and a
  querent that throws leaves the list uncleared, so that it and those before it are
  called again, where `deepstream.hpp:408` says "called once".
* A query made offline is never sent, and since only the first querent sends,
  none of the later ones is either (`GetAll`). Hence `QueriesEnd` is about a
  query that was sent.
* A login without a callback never ends in OPEN (`deepstream.hpp:121`, `168`):
  give `Callbacks` the value `{"empty"}` in `connection_liveness.cfg` and
  `LoginSucceeds` fails.
* `MessageProxy::to_binary()` of a message that is not the first of its frame
  returns the wrong bytes (`message_proxy.cpp:69`). Nothing in the library calls
  it; `BuiltIsReadBack` says what it does for the first one.
* A plain string that is not UTF-8 is emitted and read as it is, and refused
  within an object.
* CBOR's negative integers below -2^63 are read as integers that are not negative
  (`json.hpp:8087`).
* A patch's `add` somewhere below an array makes the items or members that are
  missing on the way, where the documentation promises `out_of_range`
  (`json.hpp:3670`, `12585-12604`).

## 6. What is not modelled

* `process_messages()` called from a callback, and error handlers that call the
  client. The first is a second reader of the same socket in the middle of a
  batch; the model has no stack for it.
* `Poco::TimeoutException` while connecting, SSL set-up, the value of the URI,
  and `reconnect()` and `shutdown()`, which nothing calls. `Deepstream::close()`
  is declared and never defined; `Client::close()` is meant.
* Running out of memory, `yylex_init()` included.
* The errors that the parser reports to `on_message()`: it logs them and drops
  the messages, so that to `Connection` a malformed message is no message.
* The wording of errors and exceptions, and the names that messages, topics and
  actions are printed with.
* Of `json.hpp`: iterators, conversions from and to C++ types, order, `flatten()`
  and `unflatten()`, indentation, streams. They are templates over C++ types or
  have no user in the client.
* Random identifiers (no state depends on them), `buffer`, `use`, `scope_guard`
  and exception types, examples, tests and the build.

## 7. Plan

Done: 1. `Protocol`, `Socket`, `Connection`; 2. `Event` with `Outbox`;
3. `Presence`; 4. `Parser`; 5. `Client`, with the links of Event and Presence shown
to be implemented by Connection; 6. `Messages` and the round trip through the
parser; 7. JSON: text, payloads, binary formats, patches; 8. the proofs of section 4.

All safety properties of `Connection`, `Event`, `Presence`, `Client`, `Parser` and
`MCParser` that the runs check are theorems, and so are the refinements.

Next, in this order:

1. An abstract `Session` (offline, connecting, open, closed) that Connection
   implements.
2. Re-entrant `process_messages()`, with a stack of batches.
3. Lemmas about the operators of JSON that are not recursive: the automaton of
   `JsonLexer`, and from `JsonWriter` strings and numbers.
