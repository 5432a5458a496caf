# Verification of nix-remote-rust

TLA+ models of the Nix remote protocol library (`src/nix-remote`) and of the
proxy built on it (`src/nix-remote-simple-proxy`), checked with TLC, with
theorems checked by TLAPS.

The program: a Nix client runs `nix-remote-simple-proxy` in place of
`nix-daemon --stdio` and talks to it over stdin and stdout.  The proxy shakes
hands with the client, starts a real `nix-daemon --stdio`, shakes hands with it,
and then, in one thread, reads one operation at a time from the client, decodes
it, encodes it again for the daemon, and passes the daemon's messages and answer
back.  None of the streams has message boundaries: each reader knows what comes
next from what came before.  So the question asked throughout is whether the
proxy can be told from a direct connection, and when it hangs.

## Inventory

| Component | Source | State | Operations | What makes it correct |
|---|---|---|---|---|
| Loop of the proxy | `nix-remote-simple-proxy/src/main.rs`, `nix_daemon_proxy.rs`, `nix_client.rs` | step of the loop, operation in hand, `length_of_stream`, stdout's buffer, four pipes | receive, send, forward frames, read and pass on messages, read and pass on the answer, flush | both directions are a FIFO link; operations do not leak into each other; every answer gets out; it stops when a peer does |
| Session opening | `nix_daemon_proxy.rs:17-57`, `main.rs:41-51`, `nix_client.rs:22-68` | where each party is, words in pipes and buffer, versions | the two handshakes, `spawn` | no word misread, no word held back, one version, clean pipes when the loop starts, no hang |
| Worker operations | `worker_op.rs` | none | the table of 28 operations | used by the loop |
| Stderr messages | `stderr.rs` | none | the seven messages | used by the loop |
| Nar archives | `nar.rs`, `serialize.rs:40-58` (Tee) | position of the parse, nesting, what is left of a file's contents, what was copied, the Nar made | `stream`, `Deserialize`, `Serialize`, `sort` | the end is found exactly; what is read is copied; what is written is read back; reading ends |
| Wire codec | `serialize.rs`, `common.rs`, `lib.rs:23-46, 249-294` | what is left of a value being written or read | the serde data model on 64-bit words and padded strings | what is written is read back; what is read can be forwarded without changing its meaning or its length; a value that has not come whole is never taken for one |
| tagged-serde | `tagged-serde/src/lib.rs` | none | derive: tag, then body | unknown tag is an error |
| Framed data | `framed_data.rs` | a list of buffers | `read`, `write` (tests only) | round trip, the list ends where it should |
| NarHash | `lib.rs:202-238` | characters still to be made, text made so far | `from_bytes` (base 32) | every bit of the hash is in the text; no index out of bounds |
| `read_error_msg_or_eof` | `nix_client.rs:127-141` | none | read a message or report the end (not called by the proxy) | the end of the stream is told from a message cut short |
| Tests, example, packaging | `tests/main.rs`, `tagged-serde-test`, `flake.nix` | | | |

How they interact: `main` owns one `NixDaemonProxy` (towards the client) and one
`NixDaemonClient` (towards the daemon) and calls them in turn; they share nothing
and communicate with the other processes through pipes only.  What is concurrent
is the three processes.  The hard behaviours are therefore: the order in which
client, proxy and daemon run; pipes and the stdout buffer filling up; a peer that
dies or closes its stream at any byte; a peer of another version; and, inside the
proxy, every branch on which it loses its place in a stream.

`PROJECT.json` lists the hazards at their lines, with the properties that would
catch each of them going wrong.

## Modules

| Module | What it is |
|---|---|
| `WorkerOps` | the operations: opcode, kinds of the fields, framed or not, kinds of the answer's fields; which words decode and what is written for a word that was read |
| `Stderr` | the messages, their opcodes and field counts, and which one ends them |
| `SimpleProxy` | the loop of `main` over four pipes, one action per read or write of a word; extends the two above |
| `Link` | abstract: one direction of a direct connection |
| `Session` | `SimpleProxy` between a client and a daemon; refinement of `Link`, twice |
| `SessionProofs` | theorems about `Session`: types, what is held, what is buffered |
| `SessionAlignment` | theorems about `Session`: where the two sides of the daemon's pipes stand |
| `SessionLinkProofs` | theorems about `Session`: each direction implements `Link` |
| `Handshake`, `HandshakeProofs` | the opening of a session: three straight-line programs that exchange words; theorems about it |
| `NarStream` | the reader of Nars, both of its string readers, with the Tee |
| `NarArchive` | Nars as the list of their entries, the archive they are written as, and what the reader should make of it, whole or cut |
| `Nar` | the serializer and `Nar::sort`, recursive; only for TLC |
| `NarStreamProofs` | theorems about `NarStream` and `NarArchive` |
| `Wire` | the wire format byte for byte: serializer, deserializer, generated code of the derive macro, `FramedData`, `read_error_msg_or_eof` |
| `WireEnds` | two things in `Wire` that are not values of a type: a log of messages, of which it is not known how many come, and framed data with an empty buffer in it |
| `WireProofs` | theorems about `Wire`: a word is read as the number it was written for; what the reader has read and has to read is of the format |
| `WireForwarding` | theorems about `Wire` and `WireEnds`: what was read is written so that it is read as the same value, what was written first is read back, and where what is no value ends |
| `WireTypes` | the types of the protocol, for `Wire`: what the kinds of fields of `WorkerOps` and `Stderr` are made of |
| `NarHash`, `NarHashProofs` | the base-32 text of a hash; theorems about it |
| `MCSession`, `MCHandshake`, `MCNarStream`, `MCWire`, `MCWireBytes`, `MCNarHash` | instances for TLC |

### The loop (`SimpleProxy`, `Session`)

`pc` is the call of the loop that is being made.  A pipe is a bounded sequence of
words; a field, an opcode, a length or one byte of a frame is one word.  `held`
is what has been read and not yet written.

| `pc` | Code |
|---|---|
| `op`, `args` | `receive_next_op_from_client` |
| `sendop` | `send_worker_op_to_daemon` |
| `framelen`, `sendlen`, `framedata`, `senddata` | the two nested loops around `streaming_length`, `streaming_write_len`, `get_stream`, `streaming_write_buff` |
| `msg`, `sendmsg`, `sendlast` | the loop around `read_error_msg` and `send_error_to_client` |
| `reply`, `sendreply` | `read_build_response_from_daemon`, `write_build_response_to_client` |
| `nar`, `sendnar` | `nar::stream` |
| `flush` | `flush_tx_to_client` |
| `spin` | `write_string` at the end of its stream (see `NarStream`) |
| `dead` | a panic: every `unwrap` of the loop |

A few decisions:

- **stdout is buffered, the pipe to the daemon is not.**  `std::io::stdout()` is
  a line writer: it writes out when its buffer is full, when it is flushed, and up
  to a newline byte.  `out` is the buffer, `due` how much of it is being written
  out, and nothing else happens while `due > 0`.  A `ChildStdin` writes at once.
  When the process panics, the runtime still writes the buffer out.
- **A failed read of an operation is no panic**: `main` prints the error and reads
  again.  `failed` remembers that this has happened, because from there on the
  proxy has lost its place in the client's stream.
- **A bool is re-encoded**: any word but 0 is read as true and written as 1.  The
  checks send 0 and 1 only, as Nix does.
- **Fields are words.**  What is inside a string, a set or a map is not told apart
  here; that decoding and encoding a field again keeps its bytes is what `Wire`
  shows, of every field of every operation and answer.

Client and daemon are other programs.  The client sends a script of operations
without waiting (pipelining, the hardest case for alignment), reads whenever it
can, closes its sending end, and may die.  The daemon follows the pattern at the
head of `stderr.rs`: it reads an operation, sends messages, then `Last`, then the
answer.  A daemon that ends a failed operation with `Error` and no `Last` is not
described there and not modelled; the loop, which waits for `Last`, would then
wait for the next message with the error in its buffer.

### The opening (`Handshake`)

`HandshakeWithClient` and `HandshakeWithDaemon` are the statements of the two
functions, in order, with their flushes; `ProxyProgram` is `main` up to its loop.
Every word carries what it was sent as, which the code does not look at; it lets
`NoMisread` say that the two sides agree.  The client's and the daemon's programs
mirror what the proxy reads and writes.  Peers have any of five identities: the
proxy's version, the minor version below and above it, another major version, and
a wrong magic number.

### Nars (`NarStream`, `NarArchive`, `Nar`)

`at` is where `read_entry` stands and `depth` how many of its calls are open; a
string is its text, its length and how much of it came before the end of the
stream.  Mode `stream` is `nar::stream`: the Null sink, a Tee, and the contents of
a file in pieces of at most `BufLen` bytes, each as long as a read happens to
return.  Mode `whole` is `Deserialize for Nar`, which reads each string whole and
makes a Nar, kept as the list of its entries in the order they are begun.  In
`SimpleProxy` a Nar is some words and a closing one: that the closing one is found
is what `NarStream` is about.

`read_entry` calls itself for every directory level and nothing bounds how many
there are.  `MaxDepth` is how many calls the stack holds; one more is the outcome
`overflow`, an abort of the process.

The serializer calls itself as well.  `Nar` has it so (`Serialize`), and `NarArchive`
has what it writes without recursion, from the list of the entries: an entry is opened
(`Opening`), and before the next one begins (`Naming`) as many brackets are closed as
the depths of the two ask for (`Due`, two for each level).  `ArchiveAssumption` of
`MCNarStream` has TLC compare the two for every Nar of the runs; the properties are
stated, and proved, with `Archive`.  `Nar::sort` is an operator of `Nar`: a stable
sort by name, at every level; `NameOrder` gives the order of the few names there are.

### The wire format (`Wire`, `WireEnds`, `WireTypes`)

A Rust type is a name, and `Types` maps it to its shape: the call that its
`Deserialize` makes on `NixDeserializer`, and the types of its parts.  A value is
the sequence of calls that its `Serialize` makes on `NixSerializer`.  `todo` is the
stack of what the visitors in progress still have to read (a value, so many
elements, so many bytes), `got` the value read so far, `wire` the bytes not yet
read.  A value goes through two turns, as in the proxy: it is written (`calls`),
the stream may end after any number of its bytes (`Arrive`), it is read; what was
read is written again and read again.  Bytes that this library did not write start
in the reading of the first turn (`Streams`).

| Action | Code |
|---|---|
| `WriteCall`, `WriteFails` | the methods of `Serializer` that write, those that return `WontImplement` |
| `DeserializeU64` ... `DeserializeUnit`, `WontImplement` | the methods of `Deserializer` |
| `ReadByteBufLen`, `ReadByteBuf` | the two halves of `read_byte_buf`, around the allocation |
| `NextElement` | `Seq::next_element_seed`, which alone counts elements |
| `DeserializeTagged` | the `visit_seq` that `derive(TaggedSerde)` generates |
| `ReadFrameLen`, `ReadFrame` | the loop of `FramedData::read` |
| `ReadErrorMsgOrEof` | `read_error_msg_or_eof` |
| `UnexpectedEof` | a `read_exact` of more bytes than come |

`InputAssumption` is what the Rust types say of a value: a number and a length fit a
word, a bool is 0 or 1, a type is made of types; and that what may be missing at the
end of the log is an enum, a message of the daemon, which begins with a word.  Of the
bytes that come it says that they are bytes.

A read of no byte (a tuple, a newtype) is a step of its own; the order of reads is
the program's.  `WordLen` and `Base` are 8 and 256 in the code.  A length beyond
`MaxAlloc` is the panic of an allocation that fails.  `WireTypes` is the table of
types of the crate; a list of fields in it is the one that `WorkerOps` and `Stderr`
have, so that the two descriptions of an operation cannot differ.

`WireEnds` has what is said of two streams that are no value of a type.  A log is a
sequence of messages, each the calls that write it; the reader asks for more messages
than there are, each with the end of the stream in view (`msg_or_eof`), as a caller of
`read_error_msg_or_eof` does that loops until there is none.  `ClosedBetweenMessages`
says, from the lengths of the messages, where such a stream may end.
`EmptyBufferEndsFrames` says what is read of a `FramedData` that has an empty buffer.

### The text of a hash (`NarHash`)

`Map` makes one character, the last five bits of the hash first.  Shifts of a `u8`
lose what is shifted out, and a shift by eight, which `checked_shl` refuses, is 0:
`Shl` says so.  An index out of bounds is the outcome `panic`, and so is the length
of an empty hash, which underflows.  The reference, `EncodesEveryBit`, does not
mention bytes or characters' bounds: bit `m` of the hash is bit `m % 5` of character
`m \div 5` from the end.

## Runs

| Run | Bounds | What it shows |
|---|---|---|
| `session_transparent` | all 36 pairs of six operations (a plain one with a bool for answer, one with an enum, a Nar, frames of 3 and 1 bytes, a framed one with an answer, one with an empty answer); pipes of 2 words, buffer 3, chunks of 2; 2 messages per operation, 1 before the frames are read | both directions refine `Link`; nothing of an operation is left when the next begins; answer and operation belong together |
| `session_crash` | one operation, or a part of one; client and daemon may die at any step | what arrived is a prefix of what was sent, whoever dies |
| `session_answered` | four pairs; fairness | every operation is answered and flushed |
| `session_faults` | one operation without a Nar; deaths; an unknown message, an unknown status of `BuildDerivation`; fairness | answered or the proxy exits, nothing wrong passed on |
| `session_eof` | violated | end of the client's stream: the loop goes on for ever |
| `session_undecodable` | violated | an operation that does not decode: the proxy reads on inside it |
| `handshake` | 25 pairs of identities, 2 messages, deaths; fairness | safety of the opening, that it ends, and that compatible peers get a session unless one dies |
| `nar_read` | about 50 Nars up to three levels deep, a stack of two, file lengths 0, 1, 4, 7 with a buffer of 3 and padding to 4, names that look like tags, something after the Nar; every single-string corruption and every truncation of three Nars | both readers; only too deep a Nar overflows; `sort` makes equal what differs in order only |
| `nar_cut` | violated | the stream ends in a file's contents: `stream` never returns |
| `wire_bytes` | every stream of up to 6 bytes, with bytes of 3 values and words of 2 bytes, as each of 12 types; nothing longer than 6 is allocated | whatever comes: if it can be read it can be forwarded, with the same meaning and length; reading ends |
| `wire_ops` | words of 4 bytes of 256 values; four samples of every operation (with framed data) and of every answer, each followed by another value; every cut; three values that cannot be written; all 49 pairs of messages; up to 3 buffers of framed data out of 4, one of them empty | read back as written; forwarded byte for byte; never taken for whole when cut; the end of the stream is reported between messages only; an empty buffer ends the list, and nothing else goes wrong |
| `narhash_text` | hashes of 0 to 6 bytes, each 0, 1, 128, 171 or 255 | the text has every bit in its place; only the empty hash panics |

Why the bounds are enough.  The pipes hold fewer words than an operation or an
answer has, so every party blocks on both sides of every pipe; the stdout buffer
is smaller than an answer and larger than a message, so it both fills and is
flushed part full.  A frame is longer than the chunk, and one is shorter.  Two
operations show what the first leaves behind for the second; a third would find
the state the second found, since `Aligned` fixes it.  In `nar_read` the buffer
is shorter than the longest file, longer than the shortest, and no multiple or
divisor of the alignment.  A stack of two is exceeded by some Nars, filled by others,
and there is a directory with more entries than the stack has room for.

The codec is checked twice, because a word of eight real bytes cannot be enumerated.
`wire_bytes` is exhaustive over small bytes: with words up to 8 there are lengths
that fit, lengths that end within the stream, lengths that do not and lengths that
cannot be allocated, tags known and unknown, and both kinds of true.
Padding has two cases there (none and one byte); `wire_ops` has the other two, of a
word of four bytes, and uses the types and tags of the protocol themselves, where
values are sampled: each sample index chooses other lengths (0, 1, 4 and 5 bytes; 0 to
2 elements), tags and options for every field.  Five bytes are eight characters
of `NarHash`: in six a character has begun at each bit of a byte, in the last byte
and before it.

The properties, and what goes wrong without them, are stated above each
definition.  Every one is broken by a plausible change of the code (the mutants
in the modules, next to what they are mutants of).

`session_crash` does not repeat two of the invariants that are proved for any set of
peers that may die, `TypeOK` and `NoStrandedAnswer`.

**Fairness.**  Weak fairness of the proxy: it is a process, it runs until it
blocks.  Weak fairness of each kind of step of the client: it sends what it has,
reads, and closes its stream; and of the daemon's work as a whole, whose messages
for one operation are bounded by `MaxLogs`.  Dying is never fair: nothing makes a
peer die.  In `NarStream` and `Wire` weak fairness of the next step: a function call
runs to its end (a stream that neither comes nor ends is `Session`'s affair).

**The deadlock that the bounds leave out.**  While frames are forwarded nobody
reads the daemon's messages.  If the daemon sends more messages during that time
than its pipe holds, daemon and proxy wait for each other.  `EarlyLogs` bounds
the messages sent before the frames are read, and in `session_answered` they fit
the pipe; with more, TLC finds the deadlock.  No document of the repository
promises otherwise, so it is recorded as a hazard.

## What is found

- **`main.rs:54`**: the error of `receive_next_op_from_client` is printed and the
  loop goes on.  At the end of the client's stream this is an endless loop, although
  the log says "EOF, closing" (`session_eof`); after an operation that does not
  decode, the proxy takes the rest of it for the next operation
  (`session_undecodable`).
- **`nar.rs:332`**: a read that returns 0 at the end of the stream is not noticed:
  if the daemon dies in the contents of a file, the proxy spins (`nar_cut`).
- **`lib.rs:261`**: `NixRead::read_nix`, "Read any serializable type from the wire",
  returns `Result<()>`: it reads the unit type, which is no bytes.
  The trait method of the same name in `NixReadExt` is the one the library uses.
- **`serialize.rs:601`**: writing `[u8]` is said to panic (`lib.rs:282-285`).  It
  returns an error, after the length has been written; `wire_ops` writes one, and
  shows that the half value is not taken for a whole one.
- Recorded as hazards, since no document says otherwise: a Nar deep enough overflows
  the stack (`nar.rs:300`); an empty buffer ends a `FramedData` (`framed_data.rs:57`);
  the empty hash panics (`lib.rs:213`); a length word is allocated before anything
  is read (`serialize.rs:167`); a word other than 0 or 1 for a bool, other than 1
  for an option, and padding that is not zeros are rewritten when forwarded.

## Proofs

Everything is proved for all values of the constants that satisfy the named
assumptions: any scripts and answers made of numbers, any pipe and buffer sizes,
any chunk size, any set of peers that may die, any identities of the peers, any
depth of the stack, any hash, any types and any bytes.

`SessionProofs`:

- `TypeCorrect`: `Spec => []TypeOK`.  `TypeOK` is not inductive: `left` is
  decremented and `held` is popped, which stays within the types only when there
  is something left or held.  `IInv` adds `HeldFits` (what is held fits the step)
  and `DaemonFits` (the same for the daemon).  One lemma per group of actions
  (`FromClient`, `IntoDaemon`, `FromDaemon`, `IntoClient`, `WriteOut`, and the two
  peers), composed in `IInvInductive`.  The chunk arithmetic of `main.rs:73` is in
  it: a chunk is never longer than what is left of the frame.
- `HeldAlwaysFits`: `Spec => []HeldFits`, from the same invariant.
- `AnswersNotStranded`: `Spec => []NoStrandedAnswer`, inductive relative to
  `TypeOK`: only the client's half of the loop writes to the buffer, and the only
  way from there to the other half is `NextRound`, after the flush.

`SessionAlignment`: the proxy and the daemon read what the other writes without
being told where anything ends, so what has to be shown is that the reader of each
pipe stands where the writer is, less what is in the pipe.

- `ReadersKeepUp`: `Spec => []InStep`, the inductive invariant.  A reader is at a
  place (which part of which operation, and how much of the part is left), and each
  word takes it to another: `Asking` is the reader of operations, `Logging` the one
  of messages, `Answering` the one of messages, `Last` and the answer.  `Agree` says
  that what is on its way takes the reader from where it is to where the writer is:
  `Sent` of the pipe to the daemon and what the proxy holds for it, `Logged` and
  `Told` of the pipe from the daemon and what the daemon still has to write.  `Gone`
  is about a daemon that has died, `InHand` about what the proxy holds.
  `Aligned` alone is not inductive: it says nothing between two rounds.
- `RoundsAligned`: `Spec => []Aligned`, and `SameOperationInHand`:
  `Spec => []SameOperation`, from it.

`DaemonAssumption` is used here: the daemon's messages and answers have the fields
that `stderr.rs` and `worker_op.rs` give them, or are of the kinds that are unknown
to the proxy and make it stop.

`SessionLinkProofs`: the refinements of `Link`, step by step.  Each action of
`Session` is mapped to `Send`, `Arrive`, `Cut` or a stutter of the link.

- `DownTransparent`: `BoolsConform => (Spec => DownIsLink)`.  `BoolsConform` says
  that the daemon writes 0 or 1 for a bool; another word would be passed on as 1.
- `UpTransparent`: `ScriptsConform => (Spec => UpIsLink)`.  `ScriptsConform` says
  what it is for the client to keep to the protocol: its script is one that a
  reader, going from opcode to fields to frames as `worker_op.rs` has them, gets
  to the end of, or to the place where the stream is cut.  The invariant, `ToCome`,
  says that what is still to come goes on from where the proxy's reader stands; without it the
  proxy loses its place (`session_undecodable`), and what it then passes on is not
  what was sent.

Both are hypotheses on constants that `MCSession` states as assumptions of its own,
so TLC evaluates them on every script and answer of every run of `Session`.

`HandshakeProofs`: one inductive invariant, `IInvInductive`, for the five properties.
What each party has said and heard is a function of how far it is in its program
(`SaidByClient`, `HeardFromClient`, ...), and what is in a pipe is what has been
said and not heard (`Holds`; `HoldsLogs` with any number of messages in between);
`Progress` ties the programs to who is there and what became of the versions.  From it
`TypeCorrect`, `NothingIsMisread` (`NoMisread`), `NothingIsHeldBack`
(`NothingHeldBack`), `StartsClean` (`CleanStart`) and `OneVersionOnly`
(`OneVersion`), for any identities, any number of messages and any deaths.

`NarStreamProofs`:

- `TypeCorrect`: `Spec => []TypeOK`; `remaining` stays a natural number because a
  piece is never longer than what remains (the `min` at `nar.rs:331`).
- `CopyIsFaithful`: `Spec => []CopiesWhatItReads`; whatever the source, the buffer
  length, the alignment and the lengths the reads return, the copy followed by
  what is unread is the input.  `IInv` adds that a piece is being read only in
  mode `stream` with a string at hand, and that nothing is `copied` or `remaining`
  elsewhere.
- `FindsEveryEnd`: `Spec => []FindsTheEnd`, `RefusesEveryCut`: `Spec => []RefusesTheCut`,
  and `OverflowsOnlyWhenTooDeep`: `Spec => []OverflowsOnlyTooDeep`, for every Nar, of any
  depth, width, names and contents.  Where the reader will end cannot be said of a
  state in the middle; the invariant `JInv`, proved by `StandsInTheArchive`, says where
  it is.  If what has come is the archive of a Nar, whole (`Begins`) or cut (`Cut`),
  there is an entry `i` and a rest `z` of the archive such that the reader stands where
  `z` begins (`Stands`), the sink holds the entries up to the `i`-th as far as they have
  been read (`Made`, `Put`), and what is unread is `z` and what follows the archive, or
  `z` cut.  `Stands` has a line for each place in an entry.  After an entry the rest is
  that of a directory it is in, and which one only `depth` tells: `Due` counts the
  brackets, and `LeafEnds`, `ClosesOne` and `OnwardIs` are the arithmetic of its ends.
  There is one lemma for each step of the reader, which reads the first string of `z`
  (`TakesPiece`) and so knows which of its alternatives it takes; one that is not
  there whole can only be refused (`RefusesNothing`: in a whole archive nothing is).

`NarHashProofs`, for hashes of any length:

- `EveryBitInItsPlace`: `Spec => []EncodesEveryBit`, all that `from_bytes` is for.
  The invariant `Made` says that the characters made are the last ones, each the
  one its place asks for; `CharIsRight` that such a character has its five bits
  of the hash.  That is arithmetic of shifts, which the provers do not have:
  `ByteFromBits` replaces a byte by its eight bits, and `BitsOfChar` goes through
  the eight bits at which a character can begin, where shifts and masks are
  multiplications by numbers.
- `PanicsForNothingElse`: `Spec => []PanicsOnlyIfEmpty`: `bytes[i]` and
  `bytes[i + 1]` (`lib.rs:222-227`) are always there; `CharBegins` is the
  arithmetic, that character `k < (8 s - 1) \div 5 + 1` begins in one of `s` bytes.
- `TypeCorrect`: `Spec => []TypeOK`: what is put into the text is one of 32 characters.

`WireProofs`, for words of any length, bytes of any base, all types, and whatever is
written and whatever comes:

- `WordRoundTrip`: every number that fits a word is read back from it, and
  (`ValueFits`, `WordIsBytes`) every word of bytes is the word of a number that fits.
  `Shifted` and `Worth` are functions on `0 .. WordLen`; what they are at each place is
  shown by the least number at which it would be wrong (`UpTo`), with the set of the
  numbers at which it is right in the place of a predicate.
- `TypedInductive`: `Spec => []Typed`, from which `TypeCorrect` (`TypeOK`).  It says in
  addition that what the visitors were told are calls the format has (`Told`), and what
  is to be read is a `Stack`.  `Reading` brings the steps of the reader to four: a
  call is told (`Tells`), something is opened that tells nothing (`Opens`), the end of
  the stream is told, or the reader stops.

`WireForwarding`:

- `ForwardsEveryValue`: `Spec => []ForwardsTheValue`.  Between the two turns there is
  only the value, so the format is stated by itself, without bytes and without the
  reader: `Parses(td, r)` says that calls `r` are what reading `td` can tell, `Wrote(cs, u)`
  that calls `cs` are written as bytes `u`; each is the least relation that its rules
  close.  The invariant says of the first turn that what is read goes on to be one of the
  calls the type has, in as many bytes as they came in (`WhileItComes`);
  of the writing that what is written and what is to be written are together the value
  (`WhileItIsWritten`); of the second turn that what is left to read are the bytes of the
  calls still to be told (`WhileItIsReread`), and that it never stops (`Reread`).  The hard
  part is that the reader, from those bytes, can make no other step than the one that
  tells the same call: `RereadsAWord`, `RereadsABuffer`, `RereadsAnOpening`.
- `ForwardsAsManyBytes`: what is written for it has the length of what came, from the same
  invariant.
- `ReadsEveryValueBack`: `Spec => []((\E k \in Nat : Conforms(k, meant, asked)) => ReadsBack)`,
  and `TakesNothingShort` with `NothingShort`, about what this library has written first.  The
  hypothesis says that what is written is a value of the types it is read as: a reader that
  is told calls instead of bytes (`Heard`) gets to the end of both together after some number of
  steps.  Of a type with a derived `Serialize` this is so by construction.
  `ValuesAssumption` of `MCWire` has TLC evaluate it on the samples of every operation, answer
  and message and on every list of buffers: all are values but the lists with an
  empty buffer, which the two properties leave out as well.
  `ConformsSpeaks` goes back from the last step of that reader and gets to `Parses`.  The
  invariant, `JInvInductive`, then says that what has been sent is what the calls made so
  far are written as (`WhileItIsSent`), and that the reader's calls are those of the value,
  or, of a value that was cut, begin as they do until the end of the stream is reported or a read
  fails (`WhileItIsReadBack`: what is still to be told is written as what is left on the
  wire and the `tail` that does not come).  The second turn follows as before.
- `ForwardsEveryByte`: `ForwardsTheBytes` for such values and for every stream that this
  library did not write.  That the bytes are the same, and not only as many, is that
  calls are written in one way (`WroteIsUnique`).
- `EmptyBufferEnds`: `Spec => []EmptyBufferEndsFrames`, for any number of buffers of any
  lengths.  The list is no value of its type, so the reader cannot be followed to the end
  of it: `WhileItIsFramed` says that it is before a buffer or in one, that those before are
  not empty, and that what is still to be read begins what the rest is written as.
- `EndsBetweenMessages`: `Spec => []ClosedBetweenMessages`, for every log.  What comes of a
  log may end anywhere, so there are two readers in the invariant (`KInv`): if what came
  is written for some messages and the report of the end, the reader follows these
  (`WholeIsRead`), so it cannot fail; and the reader follows the whole log as far as it
  goes, so that what it has made when it returns begins the log (`WhileItIsFollowed`,
  `BeginsTheLog`).  That this beginning ends between two messages is not in the bytes but
  in the types: a message is read without the end of the stream in view (`Inner`,
  `InnerSpeaks`), so a message of which a part is read is read in full, and what follows it
  can be read by what is asked next (`SameStep`, `MessageComes`; `Boundaries`, by going
  back through the log from its last message).
  `EndsAssumption` says that only what is asked for at the top has the end in view, and
  `LogAssumption` that each message is a value of its type (`Conforms`); TLC evaluates both in
  `wire_ops`, for the types of the protocol and for the samples of every message.

Only model-checked:

- Of `Wire`, `NothingShort` of a value whose writing was given up (`WriteFails`): such
  calls are no beginning of a value of their type, and whether the half of it could be
  taken for one depends on the type it is read as.
- `SortIsCanonical`: `Nar::sort` calls itself for every level, and the provers have no
  `RECURSIVE` operators.  So is `ArchiveAssumption`, that `Archive` is what the recursive
  serializer writes.
- Liveness: temporal properties under fairness are beyond the prover.

## Not modelled

- Logging (`tracing`), and the copy of an answer that `write_build_response` keeps
  for debugging: no state the program looks at.
- The run of the derive macro at compile time; what it generates is modelled.
- A daemon that ends a failed operation with `Error` and no `Last`, which the head of
  `stderr.rs` does not have.
- I/O errors other than an end of stream or a broken pipe.
- The tests, the fuzz helpers, the example of `tagged-serde` and the packaging.

## Plan

Done, in this order: `WorkerOps`, `Stderr`, `SimpleProxy`, `Link`, `Session` and its
proofs, `Handshake`, `NarStream`, `Nar` and the first proofs about them; then the stack
and the sort of Nars, `Wire` and `WireTypes` (with framed data and
`read_error_msg_or_eof`), `NarHash` and its proof.

Then the proofs: of `Handshake`, the alignment of `Session` and its two refinements,
`NarHash`, `Wire` (its types, the forwarding of what came, the reading back of what was
written, where framed data and a log end), and the reader of Nars in the archive.  Every
safety property that a run expects to hold is a theorem, under the hypotheses named
there, but `SortIsCanonical`; what stays with TLC is under "Only model-checked".
