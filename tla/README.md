# BabbleOn: a verification project

BabbleOn is a chat program: a Java client (Swing window, reader thread, poll
thread) and a C++ server that serves every connection with one thread and keeps
accounts and messages in a MySQL database.  This directory holds TLA+ modules
translated from that code, the TLC configurations that check them on small
instances, and proofs checked by TLAPS.

- `PROJECT.json` lists components, runs, mutants, hazards and theorems, and maps
  every definition to the lines of source it models.
- Check a run with `tlc -config <cfg> <MC module>`, a proof module with
  `tlapm <module>.tla`.

## 1. Inventory

### Client (`src/BabbleOnClient2_newest/src/main/java/`)

| part | state | operations | how it meets the others |
|---|---|---|---|
| `PasswordPane` | the two text fields | `actionPerformed`, `checkPassword`, `isValidUsername` | runs on the event thread, writes `input` and `username` of the client and a Login to the socket |
| `BabbleOnClient` | `input`, `username`, `authenticated`, `hasExchangedKeys`, keys, ciphers, recipient list, `outMsgs` | the `handle...` methods, the Send and recipient buttons, `windowClosing` | the handlers run on the reader thread, the buttons on the event thread; all write to the same socket |
| `ReaderThread` | `working` | `run` | reads one message, calls its handler, waits for it |
| `PollThread` | `lastPollTime` | `run` | writes a Poll every five seconds |
| `protocol` | none | constructors, `encode`, decoding constructors | the byte format of the messages |

### Server (`src/mockServer/`)

| part | state | operations | how it meets the others |
|---|---|---|---|
| `main` | listening socket, number of threads ever created | test of the database, accept loop | one `pthread` per connection, never joined |
| `clientConnectStart` | `originalUser`, `endTime`, `keyString` | handshake in four stages, then the service loop | reads and writes one socket, one database connection per request |
| `SPChat*` | none | `decode`, `encode`, setters that validate | the byte format of the messages |
| `PracticalSocket` | descriptor; buffers of its stream; the static buffer of `getAddress` | constructors, `bind`, `connect`, `accept`, `send`, `recv`, `recvFully`, `close`, the stream of `getStream`, datagrams | descriptors and the static buffer are shared by all threads; nothing in the repository calls `getAddress`, `getStream` or `UDPSocket` |
| `SurveyCommon` | none | `sendInt`, `recvInt`, `sendString`, `recvString`, `readSurvey` | left over from another program: not built, called by nobody |
| database | `login`, `messages`, `transactions` | the SQL statements in `MockServer.cpp` | shared by all server threads |

### How they interact

1. The event thread stores name and password in fields of `BabbleOnClient` and
   writes a Login.  The server answers with a Challenge; the reader thread
   hashes whatever the password field holds, writes a Response and overwrites
   the field.  PASSWORD_AUTH makes the client ask for the server's key; it gets
   the key, sends the symmetric key, and SUCCESS starts PollThread.
2. From then on three threads of the client write to the socket: the event
   thread (Send), PollThread, and the reader.  No lock protects the stream or
   the shared fields.
3. The server thread stores each text by three SQL statements and answers a
   poll with one PollResponse per row.  It looks at its time limit between two
   requests only.
4. All server threads share the process: its descriptors, its threads, the
   connections the database grants, and a SIGPIPE that any of them causes.

### What is hard here, and what correctness means

| behaviour | where | properties |
|---|---|---|
| two threads race on the password and the name | login | `AuthSound` |
| messages identified by position in the handshake, flags set after a write | login | `SuccessNotDropped`, `PollerOnce`, `PollAfterHandshake` |
| each side waits for the other; exceptions that are only logged | login | `NoMutualWait`, `LoginConcludes` |
| a limit looked at before a blocking read; clients that go away | service loop | `AtMostOneLate`, `SessionExpires`, `ServerThreadEnds` |
| statements of several server threads interleave, without transactions | storing | `FaithfulDelivery`, `TypeOK` |
| windows of time kept by one clock, compared in seconds with stamps of another | polling | `MissedOnlyIfOvertaken`, `TwiceOnlyIfLate` |
| an error detected far from its cause (a text too long) | polling | `EndsOnLongOnly` |
| a list kept from one click to the next, exceptions half way | message window | `WholeTexts`, `RepeatOnlyAfterFailure`, `ClearedOnlyIfSent` |
| lengths at a boundary | message window | `NoLengthRefused` |
| all of the above, seen from outside | login | `KeepsContract` |
| clients that leave at any point; replies to clients that are gone | server process | `KilledByLeaver`, `SendThrows`, `LeaverReleased` |
| descriptors, threads and database connections at their limits; early returns and exceptions that may forget one | server process | `NoDescriptorLost`, `RefusedAfterFailures`, `EachItsThread`, `QueuedServed` |
| unlocked writes of several calls each; a stream that ends anywhere; reads of uninitialised memory | bytes from client to server | `Intact`, `RefusedForAReason`, `DamageIsLast`, `NamesGenuine` |
| reads that return less than asked for; a reader that must come back after each reply | bytes from server to client | `HandledAsSent`, `ShortIsLast`, `EachHandled` |
| lengths computed apart from what is encoded | SPChat classes | `RoundTrip` |
| a number between `::close` and `= -1`; constructors that throw half way | socket objects | `OwnDescriptor`, `LostOnlyByServerBind` |
| a static buffer | addresses | `AloneRight` |
| buffers that outlive a failed send and a connection | streams | `InTurn` |
| a source address used when its port may be another's | datagrams | `AnswerFindsAsker` |
| strings of no bytes, in pieces, cut; files cut at a line | SurveyCommon | `InStep`, `TrueIfWhole` |

`hazards` in `PROJECT.json` has each of these at its line.

## 2. The modules and the code

### `ChatSession`: one connection from Login to the end

State: the place of each thread in its code (`edt`, `reader`, `stage`), the
shared fields of the client under their own names, the two directions of the
stream as bounded queues of messages, and history (`typed`, `excuses`, `late`).

- Event thread: `PressOK` begins `actionPerformed`; `setInput` allocates and
  fills the array in two steps, `setUsername` follows, then validation and the
  Login or a dialog.  `SendClick` is the Send button, `WindowClosing` the exit.
- Reader: one `Recv...` action per kind of message enters its handler, and
  every handler is split at its writes and dialogs and wherever another thread can see or
  change a field between two of its statements.  The constructors of messages
  get the length of `username` and then `username`; a press that replaces it
  between the two reads makes them throw (`NameReplaced`).
- `PollThread`: `Poll`.
- Server: `ServeLogin`, `ServeResponse`, `ServeLogin2`, `ServeKey` are the four
  stages of the handshake, with every early return; `CheckTime`,
  `ServeRequest`, `DeliverRow` and `DeliverDone` are the service loop, and
  `ServerEnd` is a `decode` that meets the end of the stream.

Passwords stand for digests: both sides hash the one challenge of a connection,
so digests agree exactly if the passwords do.  A null `username` read by the
reader ends its thread (`dead`); an exception while decoding leaves it spinning
(`stuck`), as in the code.

### `SessionContract`: what a connection promises

Three variables and no threads: a connection is named once, goes forward only
after the password of its account has been typed, opens, and ends.
`ChatSession` implements it with `phase` read off the server's stage
(`phaseOf`), `owner` the server's `originalUser` and `typed` its own history
variable (`KeepsContract`, checked by TLC and proved).

### `Server`: the process and what its threads share

`Start` is `main` up to its loop, with the bind that fails while an old
connection lingers on the port; `Accept` and `Spawn` are the loop, with an
`accept` that throws and a `pthread_create` that fails.  A thread goes through
the same stages as in `ChatSession`, but here a request is only its kind and
the tests may come out either way; what counts is what a thread holds: a
descriptor, a connection to the database (forgotten when a statement throws,
for `delete con` is jumped over), and replies it still owes, those for the rows
that a failing poll had fetched included.  The connection is
Linux's: a reply to a client that is gone is taken and answered by a reset, and
the next one raises SIGPIPE and ends the process with all its threads.
`QueryCrashes` is `delete stmt` on a pointer that was never set
(`MockServer.cpp:208`), undefined behaviour that may end the process too.

### `MessageRelay`: from Send to the other user's window

One action per SQL statement, so that server threads interleave between the
statements of one request: insert into `messages`, look the id up again by
contents, insert into `transactions`; a poll is one query and one write per
row.  `Fold` is what the text comparison of the database sees of a text
(a default collation of MySQL ignores case and trailing blanks), `Skew` how far a client's clock is ahead,
`Second` the whole seconds the server compares.  A statement, a session or a
reader may fail (`MaxFaults`).

The windows of the polls have gaps.  The upper end of a window is the moment at
which the server runs the query, the lower end of the next one the second in
which PollThread, after its `write`, notes the time.  A text that reaches the
table in between, or one of that same second that reaches it after the query, is
in neither window and never shown (section 6).  `MissedOnlyIfOvertaken` says that
no other text is missed: what is missed was on its way while a poll overtook it
(`Overtaken`), or a failing query left it out.

### `Composer`: the message window

The recipient filter, the length test with its dialogs, the head of a group
message, the split into bits of `MAX_MSG_LEN`, the list `outMsgs` that outlives
a click, and `Received`, what the server joins from the bits it has decrypted.
The cipher is modelled by its padding: `doEncryption` throws away all blocks but
the last, which does no harm because a bit (15 characters, one byte each in
ASCII) is shorter than a block of 16; `LengthsAssumption` says so.

### `SPChatFormat`: the SPChat classes

Operators, no state: `encode`, `getPayloadLength` and the setters of all
classes, and what `decode` and the constructors it calls make of a payload,
byte by byte with the signs of 32-bit numbers.  `Framing`, `Codec` and `Replies`
use it from their ends of the stream.  `Codec` makes an object, encodes it,
sends as many bytes as the object says it has and decodes those.  What an object
is made from (`Object`) is what the parameters of the constructors let through;
a string or vector is shorter than 2^31, since its size is kept in an int.
`send` takes as many bytes as the object announces and reads beyond the buffer
when `encode` made fewer; `Heap` is what may lie there.  There are two objects
for which the two lengths differ, a Login with a symmetric key and a Response whose nonce
has not eight bytes, and `RoundTrip` says what becomes of each (section 6).

### `Framing`: the bytes from client to server

Messages as the calls of `write` that `encode` makes (`DataOutputStream` of
Java 8, which `pom.xml` asks for, writes an int in four calls), two threads that
write without a lock, a client that exits anywhere, and `decode` with the
constructors it calls: header, length, strings, names, keys, texts, down to the
byte.  Two reads of uninitialised memory are choices: the part of the header
that never came is zero or what the header before left, and the time that
`setMsgNum` tests may be negative.  A length that no stack holds is the outcome
`wild`: the array `buf[len]` is beyond the stack and the process ends.  It
happens when one thread writes its header into the header of another: the type
and length fields then hold `SPChat/1.` of the second.  No line of the
repository excludes this, so no property does; `RefusedForAReason` says that it
takes such a mixture.  The messages are any that the client can make
(`ClientMessage`): names have passed `REGEX`, which allows the characters
that the server allows, the length of a piece of a text is one the server takes,
clocks are not before 1970, and a message fits on the stack of a thread; it takes
a list of tens of thousands of pieces not to.

### `Replies`: the bytes from server to client

The server sends the replies of a script as `encode` makes them, and may stop
anywhere; the reader takes them off field by field.  Only the blocks of a text
are read with `DataInputStream.read`, which returns what is there (`ReadBlock`,
any number of bytes from one to a block); the array then holds old bytes behind
the new ones.  The cipher is a table from texts to blocks; bytes that are no
entry of it fail to decrypt.

### `Sockets`, `SocketAddress`, `SocketStream`, `Datagrams`: PracticalSocket

`Sockets` has the objects and the descriptors.  A method is the row of system
calls it makes (`doing`), so that those of several objects interleave, and each
may fail where the code tests it.  `close` is two steps, since the number is
free between them.  `SocketAddress` has threads that ask addresses for text and
port; `getAddress` writes into its static buffer in two parts and copies in two.
`SocketStream` has the stream buffer of one object over several connections:
`overflow`, `sync`, `underflow`, the state bits of the stream and the peer.
`::send` may take a part only, when a reset cuts it short while it waits for
room: the code tests for a negative count alone and empties the buffer.
`Datagrams` has objects that ask and answer each other, a use made up for the
model, as no program of the repository has a `UDPSocket`.  In it
`UDPSocket::bind` makes a socket and does not bind it, as in the code, which
never calls `::bind` there: ports are the kernel's choice.  Its methods are
called `bindUDP`, `connectUDP`, ... to tell them from those of `Sockets`.

### `SurveyCommon`, `ReadSurvey`

Integers and strings over a stream that comes in any pieces and ends anywhere,
with a receiver that calls `recvString` again after an exception; and
`readSurvey` on a file cut at any line, with the state bits of the C++ stream.
A last line that is empty and has lost its newline is no line for `getline`,
which then fails (`NothingLeft`).

## 3. Runs

| run | instance | what it shows |
|---|---|---|
| `session_race` (`MCChatSession_race.cfg`) | three presses, Send at any time, queues of 3 | the safety properties of the login under every interleaving of the four threads |
| `session_patient` (`MCChatSession_patient.cfg`) | one press, Send when polling, fairness | the liveness properties |
| `relay_window` (`MCMessageRelay_window.cfg`) | two users, one clock a tick ahead, two ticks to a second, 6 ticks, a failure | a text is missed only when a poll overtakes it; a text comes twice only if the server was late or the sender's clock ahead |
| `relay_texts` (`MCMessageRelay_texts.cfg`) | two users, two texts, three contents, two of which the database takes for the same and one of which is too long, a failure | what is shown is what was sent; which texts end a session |
| `composer` (`MCComposer.cfg`) | bits of 2 characters, 2 bits, texts of 0 to 4, two drafts, two clicks | splitting, group messages, exceptions and retries |
| `composer_dialog` (`MCComposer_dialog.cfg`) | the same | expected violation, see section 6 |
| `server` (`MCServer.cfg`) | three clients that come and go, two of which send, two descriptors, two threads, three database connections, two failing statements, polls of two rows | nothing but failed statements uses up what the process has; one reply to a client that is gone is survived, two may not be |
| `server_live` (`MCServer_live.cfg`) | three clients, one of which sends, two descriptors, fairness | descriptors of clients that left are closed, waiting clients accepted, also after an `accept` that had no descriptor |
| `server_sigpipe`, `server_threads` | one client | expected violations, see section 6 |
| `format` (`MCFormat.cfg`), part `Framing` | Login against Response and key, a text against two polls, two changes of the writing thread | mixed, truncated and whole messages |
| ... part `Replies` | a greeting and two texts of one and two blocks, short reads, a stream cut anywhere, fairness of the reader | texts are shown as sent; a short read shows nothing wrong |
| ... part `Codec` | every class, fields at both ends of their sizes and beyond, a symmetric key, nonces of 0 and 7 to 9 bytes, two contents of the memory behind | encode, its length and decode agree, and what the two objects for which they do not become |
| ... part `SurveyCommon` | three strings, two exceptions | sender and receiver stay in step |
| ... part `ReadSurvey` | surveys of up to two questions with up to two responses, every cut | true means whole |
| `sockets` (`MCSockets.cfg`), part `Sockets` | three objects of any class, two of them in a method at a time, two descriptors, names with two addresses | descriptors are never confused, and lost in one place only |
| ... part `SocketAddress` | two threads, addresses of three families | a call alone is right |
| ... part `SocketStream` | buffers of 2, two connections, four characters each way | nothing repeated or reordered, and lost only where a reset cuts a send short |
| ... part `Datagrams` | three objects, two ports, two datagrams of up to two copies, one port given up | when an answer can reach a stranger |

`MCFormat` and `MCSockets` each check several modules that share operators or a
source file and no state.  A behaviour picks one of them at the start and is
about that one alone; the others stay in an initial state, so that states add up
and do not multiply.  `MCSockets` extends its four modules and `MCFormat` extends
`Framing`, `Codec`, `SurveyCommon` and `ReadSurvey`, so that the properties they
check are the ones the proofs are about; of `Replies`, whose variables have
names of `Framing`, `MCFormat` makes an instance, and states the only assumption
(`CipherAssumption`) itself.

Every property of a passing run has a mutant: a definition changed the way a bug
would change it, under which TLC finds the property violated.

### Bounds, and why they are enough

- *Presses (3), queue (3)*: a press can meet each of the two places where the
  reader uses the fields, and one press more repeats the situation; three
  messages are a Login, a Response and one that does not belong.
- *Names and passwords*: one of each kind the code distinguishes (account, no
  account, bad pattern, too long; right and wrong).
- *Ticks*: a second of two ticks makes stamps that differ in ticks and not in
  seconds; `Wait` of 2 and 6 ticks give two polls of one user.  A text can be
  stamped before the first, between the query and the time noted, in the second noted or
  after it, and be found by either poll, by both or by none.
- *Texts (2), users (2)*: a lookup by contents can find the other thread's row.
- *Bits*: lengths 0 to 4 with bits of 2 are every remainder, both boundaries of
  a bit, and the limit `MAX_MSG_LEN * MAX_MSGS`.
- *Switches (2)*: one message inside another needs two changes of the thread;
  the names and texts of `MCFormat` have the lengths at which a poll fits into
  the rest of a text.
- *Server*: there are three clients for two descriptors, so that `accept` throws
  while a client waits, and two threads for all their connections; two failed
  statements and the sessions of two descriptors use up three database
  connections.  Clients outside `Talkers` connect, hold a descriptor and leave;
  one or two that send are enough for all a thread can be doing.  A poll of two rows and
  the message behind it make a thread owe three replies, one more than SIGPIPE
  takes.
- *Sockets*: three objects for two descriptors, so that one is always without
  and is given the number another has just closed; two of them at a time are in
  the middle of a method (`MaxThreads`), while the third may hold a descriptor.
- *Streams*: a buffer of 2 is filled, overflows, is half full with four
  characters, and is cut in the middle by a short send; the second connection
  meets what the first has left.
- *Datagrams*: a question and an answer; with two ports for three objects the
  port of the one who asked goes to another, once (`MaxEra` 1), and one copy of the
  question can come before that and the other after it (`MaxCopies` 2).
- *Replies*: a text of two blocks meets a short read in the first and in the
  last block.
- Deadlock is checked in the runs of `Server`, which always has a step.
  Elsewhere it is not: each of those models comes to rest when the window is closed or
  a bound is used up.  Waiting that should not be is a property of its own
  (`NoMutualWait`).

### Fairness

`FairSpec` has weak fairness for the event thread's running handler (`Edt`), for
closing a dialog (`Dismiss`), for the reader, for PollThread and for the server
thread: each is a thread the operating system schedules, and a modal dialog is
all its user can act on.  In `Server` it has weak fairness for `main` and for
each thread, in `Replies` for the reader: all are threads that the operating
system runs.  Nothing makes the user press, send or leave, and
nothing makes a session expire, a database fail, a client read its replies or
anybody start the server again.

## 4. Proofs

TLAPS proves for every value of the constants (any names, accounts, users,
clocks, sizes and bounds):

| module | properties | assumed |
|---|---|---|
| `ChatSessionProofs` | `TypeOK`, `AuthSound`, `SuccessNotDropped`, `PollerOnce`, `PollAfterHandshake`, `NoMutualWait`, `AtMostOneLate`, and `KeepsContract`: `ChatSession` implements `SessionContract` | the ASSUMEs of `ChatSession` |
| `MessageRelayProofs` | `TypeOK`, `FaithfulDelivery`, `EndsOnLongOnly`, `MissedOnlyIfOvertaken`, `TwiceOnlyIfLate` | those of `MessageRelay` |
| `ComposerProofs` | `WholeTexts`, `RepeatOnlyAfterFailure`, `NoLengthRefused`, `ClearedOnlyIfSent` | `LengthsAssumption`: a bit is not longer than a block |
| `ServerProofs` | `NoDescriptorLost`, `RefusedAfterFailures`, `KilledByLeaver` | `ServerAssumption`: finitely many connections, bounds that are numbers |
| `SocketsProofs` | `OwnDescriptor`, `LostOnlyByServerBind` | `SocketsAssumption` |
| `SocketUseProofs` | `AloneRight` of `SocketAddress` | `AddressAssumption`: `getaddrinfo` finds Internet addresses, `inet_ntop` has a text of two parts for each |
| | `InTurn` of `SocketStream` | `StreamAssumption`: sizes and bounds are positive |
| | `AnswerFindsAsker` of `Datagrams` | `DatagramsAssumption`: "no port" is not a port |
| `FormatProofs` | `InStep` of `SurveyCommon` | `StringsAssumption`: strings are not longer than `MaxLength`, 2^31 - 1; `ThrowsAssumption`: a bound |
| | `TrueIfWhole` of `ReadSurvey` | `TextsAssumption`: a line may be empty; `SurveysAssumption`: a survey is a sequence of questions |
| | `RoundTrip` of `Codec` | `SamplesAssumption`: the objects are those of `Object`; `HeapAssumption`: what lies behind a buffer is at least as long as a symmetric key |
| `FramingProofs` | `Intact`, `RefusedForAReason` of `Framing` | `ScriptsAssumption`: the threads write messages the client can make (`ClientMessage`) |

Each assumption is an ASSUME of the module it is named after, which TLC evaluates
in the runs of that module.  Every proof follows the
same plan: an inductive invariant `IndInv`, a lemma for each action that it is
kept, and the properties as conjuncts or consequences of it.

**ChatSession.**  `IndInv` has seven parts.  `NameInv`: before the first
complete press nothing that reads the name can run.  `AuthInv`: whatever is in
`input`, in a digest or in a Response was typed, or is no password at all (null,
half filled, overwritten); with the server's comparison this gives `AuthSound`.
`AckInv` and `PollInv`: PASSWORD_AUTH and SUCCESS are sent once each and found
by a client in the right state; `PollerOnce`, `SuccessNotDropped` and
`PollAfterHandshake` follow.  `TurnInv` is a token argument: at each stage of
the handshake somebody holds the turn, that is a message under way, a handler
at work, or the excuse for why nobody does; `NoMutualWait` is the case in which
no message and no handler is left.  `LateInv`: after a late request the server
can only go on to the check of the time.

For `ContractKept`, the initial state maps to the initial state of the
contract, and each action of `ChatSession` to one action of it or to a stutter.
The only step that needs more than its own guard is the comparison of the
digests: that the password of the account was typed is `AuthInv`.

**MessageRelay.**  `RequestInv` numbers the polls, `JobInv` and `RowInv` carry
what was sent through the three statements, `BatchInv` and `SeenInv` do so for
what was found and for the window it was found in; from the latter,
`TwiceOnlyIfLate` is arithmetic on two windows.  `NotedInv` says that poll number
n asks from the n-th time noted.  `OutcomeInv` follows a row from the insert: it
knows how many polls of its recipient had been answered by then (`after`), and
the next one answered finds it, leaves it out (`skipped`), or asks from a second
that is not before the row's, which is `Overtaken`.
A lemma on the monotony of whole seconds connects stamps and windows.

**Composer.**  First arithmetic: there is one quotient and one remainder
(`Division`, `Quotient`), so the pieces of a text begin where the one before
ends, only the last may be short, and its length is the remainder the code
computes (`PieceCount`, `PieceEnds`).  Then texts: a piece is joined to those
before it, and padding is taken off as it was put on (`Joined`, `Deciphered`).
`BitsOfText` puts the two together: what the server joins from the bits is the
text, and a bit is refused for its recipient only.  The joining is the recursive
function of the library's `FlattenSeq`.  That it is the function that gives the
beginnings of the text is shown with a least counterexample (`Unique`).  The
invariant is then short.  `LeftInv`: exceptions leave something in `outMsgs`
only if nothing is written any more or a clock was set back, for all other
exceptions come at the first bit.  `LoopInv`: whoever is not in `todo` has been
written to.  `DraftInv`: unless a click on it failed, a text has been written by
the present click only, and after that click the box is empty.

**Server.**  `PlaceInv`: a connection is in one place; it waits, main holds it,
or it has a thread.  With it `NoDescriptorLost` is inductive.  `LeakInv`: the
connections to the database that nobody can give back are at most the failed
statements; the others in use are held by threads other than the one refused,
a thread holds one at most, and no more threads have sockets than there are descriptors
(`LimitInv`).  So a refusal means that at least `MaxDb + 1 - MaxFds` statements have
failed.  `KilledByLeaver` needs
a count of the future: when a client leaves, `debt` is fixed, and `DebtInv` says
that it covers all replies its thread still can make, those for messages in the
buffers included (`Rest`), plus those made since.  `GreetInv` is needed for the
handshake, where a client has a message under way only after the first reply.
Messages are counted as the cardinality of positions in the queue, and the lemma
that taking one off lowers it by one is a bijection.

**Sockets.**  `RowInv` says which system call may follow which in the rows that
objects have under way, and `EmptyInv` before which of them an object holds no
descriptor, so that none is overwritten.  `FindInv` is the constructor of a
server socket, which has its socket in a local variable until `listen` has
succeeded.  `ForgetInv` is about the moment between `::close` and `= -1`: the
number held is another's or nobody's.  That the kernel gives the lowest free
number is the lemma `LowestIsFree`, from a least element of a set of numbers.

**SocketAddress.**  `AloneInv`: who is alone in `getAddress` shares it with
nobody.  `DoneInv`: for such a thread the buffer and the string hold what
`inet_ntop` and the copy have produced up to its place.

**SocketStream.**  `WrittenInv` and `SentOK` say which characters the buffer
holds and which `send` has taken: the next in turn, or, behind the last one of a
connection whose reset has cut a send short (`CutInv`: it takes no more), one that
is less than a buffer further on.  `RowOK` is `InTurn` for what comes, split over the
peer, the buffer and the program; each operation moves characters over one
border.  `EndOK` adds that the last character that came is the last the present
peer has sent, or an earlier peer's, so that the next one may follow it.

**Datagrams.**  `PortInv`: a port is held by one object.  `SourceInv`: while the
sender of a datagram is in the same era, it still has the port it sent it from.
`LastInv`: the address an object would answer to is where the datagram came
from that it would answer.  `AboutInv` and `QueueInv` carry this over to answers
that are under way or in a queue.

**SurveyCommon.**  Everything the sender ever writes is a sequence of chunks, two
for each string: its length in four bytes and its contents (`Chunks`).  The bytes
that have been read and are under way are a beginning of these chunks joined, and
`Places` says where in the joined bytes each chunk begins; so no string has to be
recovered from bytes.  The invariant has two cases.  `Going`: the buffer and the
bytes under way are the chunks from the one being read (number `Received`) to the
last one sent, perhaps without an end that a reset has lost, and `want` is the
length of the chunk being read.  `Broken`: an exception has come, for which the
connection must be closed and no bytes may be left, so that no later call gets any.  The arithmetic is
that four digits to the base 256 give back the number (`LengthBack`), for numbers
below 2^31.

**ReadSurvey.**  `Starts` gives the number of lines before each question, and
`LinesPlaced` what stands in them; it comes from the fact about `FlattenSeq` that the
proof about `Composer` uses (`Unique`).  From the place in the loops one computes
how many lines have been read (`Taken`).  The invariant: as long as the stream is
good, the rest is the survey's lines from there on, and the questions and responses before are
those written; and a file that has to be accepted (`Good`) has not failed.  When
the function returns with a good stream, all the lines of the survey have been
taken, so none can have been cut.

**Codec.**  The invariant is short: what is in the buffer is what `encode` made
of the object, and what is sent is that, cut or continued with the memory behind
it to the length announced.  All the work is in the lemmas about `SPChatFormat`, from one
field to the whole message.  `IntBack`: four bytes to the base 256 give back any
32-bit number, the negative ones too.  `FieldBack`: if the bytes of a field are
at place `p` of a payload, its reader returns the field and stops behind them.
`FieldsBack`: so for a row of fields, by the least field for which it fails;
the pieces of a payload and their places are the `Places` of the proof about `SurveyCommon`.
`TextsFit`: a text has at least 36 bytes, so the bound on the number of texts in
`MsgFields` never refuses one that is there.  `ConstructBack` is the result for
a whole payload.  On the other side, `TextsCarried` and `MiddleCarried` show
that what `encode` writes is such a row of pieces, `TextsAre` and `KindsAre`
which field each is, `ObjectFits` that what the setters let through is what the
readers let through, and `ObjectWhole` that `getPayloadLength`, computed apart
from it, is its length; that needs a sum over the texts (`TotalLength`).  For
the two objects where it is not, the key or the nonce is the last field that is too short
or too long, and the bytes found in its place are the memory's or those there is
room for (`BytesFound`, `BytesAfter`).

**Framing.**  The proof joins the two ends.  The calls of `write` of a message,
joined, are the header and what `encodeMiddle` of the C++ classes would make of
the same fields (`WireKnown`, `WireParts`), so the lemmas about `Codec` say how
the constructors read it; that the client announces the right length is
`AllAnnounced`, and that the length is read as it was written and is never
beyond the stack is `LengthReadBack`.  The invariant (`FramingInv`) is silent
once messages are mixed.  Until then at most one thread is inside a message, and
the stream is the messages that wait, one after the other (`Queue`), and what
that thread has written of its own (`Halfway`); those returned before and those
that wait are together those that were written; and the session has ended only
for one of the two reasons.  For `decode` there are three cases: a message
waits, and comes back whole, even if the next one is cut; none waits and nothing
is halfway; or what is halfway will never be whole, because the client has gone,
and `decode` returns nothing of it: it finds fewer bytes than the header
announces or, inside the header, one that is filled up with the bytes of the
header before (`DecodeShort`; `HeaderTyped` says that it is still one).

What is only model-checked:

- liveness (`LoginConcludes`, `ServerThreadEnds`, `SessionExpires`,
  `LeaverReleased`, `QueuedServed`, `EachHandled`), which needs fairness and is
  beyond the prover;
- `DamageIsLast` and `NamesGenuine` of `Framing`: they speak of mixtures of the
  bytes of two messages, and which mixture makes sense depends on the sizes of
  the fields, so that they are claims about the messages of the run and not
  about all messages;
- `HandledAsSent` and `ShortIsLast` of `Replies`: after a short read they rest
  on what the bytes of the cipher are not, so they too are claims about the texts
  of the run.

The induction theorems of the library take an operator as a parameter, which
the provers at hand cannot instantiate.  Where an induction was needed (`Least`,
`Unique`, `JoinsExist`, `FieldsAre`, `TotalIs`) it is done by the least element of a set of
counterexamples.

## 5. Not modelled, and why

- Cryptography beyond lengths, blocks and padding: decrypting gives back what
  was encrypted, and equal digests mean equal passwords.
- The schema and the server side of MySQL: the tables are modelled as the SQL
  in `MockServer.cpp` uses them (`database/dbscript.sql` has an older table).
- The layout of the server's stack: an array of a length that no stack holds
  ends the process (`wild` in `Framing`), `strcpy` of the password with one byte
  too many (`MockServer.cpp:235`) is taken to do nothing.
- Options of `PracticalSocket` for multicast and broadcast, which are one call
  each, and its branches for Windows.
- Jars, build files and the vendored headers of MySQL, a large part of the C++
  lines of the repository: declarations of a third party.

## 6. Findings

- `composer_dialog`: the Send button shows "Message was too long." for an empty
  text, and nothing at all for one that is too long (`BabbleOnClient.java:293`):
  the test in the else branch has its comparison the wrong way round.
- `server_sigpipe`: `send` promises an exception if it cannot send
  (`PracticalSocket.h:189`).  To a client that left with two replies or more to
  come it raises SIGPIPE instead, and the whole server ends.
- `server_threads`: threads are joinable and never joined, so after as many
  connections as there can be threads every client is turned away, although
  `MockServer.cpp:104` says that connections are accepted repeatedly.

Five more that contradict no doc of the repository.  The models contain them,
and the properties say how far they go:

- Texts can be lost between two polls.  PollThread writes its poll with the time
  noted before and then notes the present time (`PollThread.java:29-30`), and the
  server compares whole seconds (`MockServer.cpp:447-451`).  A text that is
  inserted after the query and bears a second not after the one noted is in the
  window of neither poll.  `MissedOnlyIfOvertaken` allows these and no others.
- A short `send` loses characters: `PracticalSocket.cpp:281` tests only for a
  negative count, and `sync` and `overflow` (`PracticalSocket.cpp:345-360`) then
  empty the buffer.  `InTurn` says that a reset goes with it and less than a
  buffer is lost.
- A Login with a symmetric key is encoded without the key but counts it in its
  length (`SPChatLogin.cpp:82`), and a nonce is encoded with the length it has and
  counted as eight bytes.  `RoundTrip` says that memory from behind the buffer is sent in
  the place of what is missing.  Only the client sends either of them.
- Two threads in `getAddress` write to one static buffer, and one may return the
  other's address (`PracticalSocket.cpp:139`); `AloneRight` speaks of calls that
  do not overlap.
- `recvString` returns a string only up to its first NUL (`SurveyCommon.cpp:33`);
  `InStep` says so.

## 7. Plan

Done, in this order: `ChatSession` with the proof of its safety properties,
`MessageRelay` with its proofs, `Composer`, `Framing`, the contract of a session
and its refinement, `Server`, the other direction of the bytes (`SPChatFormat`,
`Codec`, `Replies`), the sockets, `SurveyCommon`.

Then the proofs: for `Server`, `Sockets`, `SocketAddress`, `SocketStream`,
`Datagrams`, `Composer`, `SurveyCommon`, `ReadSurvey`, `Codec` and `Framing`.

What is left:

1. A mailbox as the abstract specification of `MessageRelay`, and that each step
   of it is one of the mailbox or a stutter.
2. `HandledAsSent` of `Replies` up to the first short read, from the lemmas of
   `FormatProofs`, by the invariant of `FramingProofs` for the other direction.
3. Type invariants of the modules about sockets as theorems of their own.
