# A TLA+ model of substrate-api-client

This directory models the client library of this repository: what its threads,
sockets, channels and files do, and what a program that calls it may rely on.
Small instances are checked with TLC. For every value of the constants, TLAPS
proves the safety properties and refinements of the calls over WebSocket, the
subscriptions, their composition, the Api session, the keystore, the chain reads
and the extrinsic codec, and the types and the data path of the decoder.

Source paths below are relative to the repository's root.

## The system

| Component | State it keeps | Operations | Hard behaviour | Correct when |
|---|---|---|---|---|
| One-shot calls, `src/std/rpc/ws_client/{mod,client}.rs` | per call: an mpsc channel, a thread, a socket | `get_request`, `send_extrinsic(exit_on)`, six message handlers | the handler runs in another thread, closes before it sends, sees late frames, panics; the connection goes away at any time | the call returns the answer to the first message that ends its wait, no wake-up is lost, no socket is left open |
| Subscriptions, `ws_client/mod.rs` | a channel between a subscriber thread and the program | `subscribe_events`, `subscribe_finalized_heads`, `wait_for_event`, `wait_for_raw_event` | a receive loop fed by another thread; values that cannot be decoded; a Receiver dropped unnoticed | a wait acts as one step on an ordered feed; a dropped Receiver ends the subscription |
| Submit and watch: the program the two above are for | the Receiver, the hash it got | subscribe, send, wait | three sockets whose answers come in any order, retracted blocks, events that name neither block nor extrinsic | an event is missed only where nothing could have told it; the hash is of a block with the extrinsic |
| Api session, `src/std/mod.rs`, `compose-macros/src/lib.rs` | genesis hash, metadata, runtime version, signer, kept for ever | `Api::new`, `set_signer`, `get_nonce`, `compose_extrinsic!`, `send_extrinsic` | three reads of a moving chain; cached version; nonce read from the state and used later, by several sessions | the call that was named is the one that runs; a careful sender's nonce is right |
| Chain reads, `src/std/mod.rs`, `src/std/rpc/json_req.rs` | none | storage values, maps, double maps, their proofs, keys and pairs under a prefix, headers, blocks by hash and by number, the finalized head | two requests with a reorganisation between them; errors read as None | what is returned is what was named, in one state of the chain |
| Storage keys, `node-api/src/{storage,metadata,decoder}.rs` | none | `storage_*_key`, `key_hash`, `extract_*_identifier` | seven hashers, variable lengths, accessors of the wrong kind | keys name one value each, identifiers survive the round trip |
| Keystore, `client-keystore/src/lib.rs` | a directory of files, a map in memory, a password | `open`, `in_memory`, `generate`, `insert_unknown`, generate from a seed, lookups, listings, signing | a lock per store but none per directory; a file written in steps; crashes; one directory for keys of three schemes | generated keys stay usable, secrets private; who signs is who was asked |
| Metadata index and decoder, `node-api/src/{metadata,decoder,error}.rs` | the type registry and index maps | `TryFrom`, `decode_events`, `decode_call`, `decode_type` | recursion over a registry the node supplies, lengths taken from the input, one error loses a block of events, enums with gaps | events come out as the runtime put them in, or an error |
| Extrinsic codec, `primitives/src/extrinsics.rs` | none | payload, signature, encoding with length prefix, hex, decoding | lengths at which an encoding changes; a prefix whose room is guessed from the size of a type | what is encoded is decoded; a signature verifies on the chain it is for, and on no other |
| Fee and constant getters | none | one request or lookup, one conversion | none | left out (below) |

Calls interact through the chain only: each has a channel, a thread and a socket
of its own (`start_rpc_client_thread`), so they share nothing inside the client.
The Api session and the chain reads use one-shot calls as their requests; in
their models a request is the one step that `BlockingCall` promises.

## Modules

| Module | Models | Composes |
|---|---|---|
| `RpcMessages` | what the client can tell apart in a message, and its parsers | |
| `BlockingCall` | abstract: the promise of a call to its caller | `RpcMessages` |
| `WsClient` | the one-shot calls | `RpcMessages`, implements `BlockingCall` |
| `WsClientProofs` | theorems about `WsClient` | `WsClient` |
| `EventFeed` | abstract: a feed with an atomic wait | |
| `Subscription` | subscriptions and event waiting | implements `EventFeed` |
| `SubscriptionProofs` | theorems about `Subscription` | `Subscription` |
| `SubmitAndWatch` | a program that subscribes, sends and waits | `EventFeed`, `BlockingCall` |
| `SubmitAndWatchProofs` | theorems about `SubmitAndWatch` | `SubmitAndWatch` |
| `Keystore` | stores on one directory | |
| `KeystoreProofs` | theorems about `Keystore` | `Keystore` |
| `ApiSession` | Api values of one account and the chain | |
| `ApiSessionProofs` | theorems about `ApiSession` | `ApiSession` |
| `StorageKeys` | storage keys, as operators | |
| `ChainReads` | reads while the chain forks | `StorageKeys` |
| `ChainReadsProofs` | theorems about `ChainReads` | `ChainReads` |
| `ExtrinsicCodec` | signing, encoding and decoding of extrinsics | |
| `ExtrinsicCodecProofs` | theorems about `ExtrinsicCodec` | `ExtrinsicCodec` |
| `Decoder` | the metadata index and the decoder of events and calls | |
| `DecoderProofs` | theorems about `Decoder` | `Decoder` |
| `MC*` | the instances for TLC | |

### RpcMessages, BlockingCall, WsClient

A message is the case of the parser it falls into plus the hash it carries; the
strings in the channel are kept by how they were produced, because
`Value::to_string` puts quotes around a string, `as_str` does not, and
`Hash::from_hex` must cope with both. `WsClient` has one record per call: the
caller (`idle`, `waiting` in `recv()`, `done`), its thread and socket
(`connecting`, `open`, `closing`, `ended`), the messages on their way (`inbox`),
the channel, and a history of the messages the handler has seen (`heard`).
`on_message` is one step, as a handler is between two events of its thread: it
runs the handler selected for the call and applies its effect (close, send,
panic). `out.close()` only queues a close frame, so `NodeSends` and `on_message`
go on while a socket is `closing`. A panic and the return of `connect()` end the
thread and drop the Sender; strings already sent stay in the channel.

`BlockingCall` states the promise in a table of its own (which messages end a
wait, what is returned for each), without handlers, channels or sockets. The
refinement maps variables by name; everything else is hidden.

### Subscription, EventFeed

A value of the feed is the hex string of `System.Events` of a block, or a
finalized head as JSON: whether it is hex, whether `decode_events` accepts it,
and which events are in it. `wait_for_raw_event` is one turn of the receive loop
per step, `Return` the end of the wait. The refinement mapping puts the position
of the feed where the wait in progress began (`from`): the turns of the loop are
stutters, and the last one is the atomic step of `EventFeed`.

### SubmitAndWatch

The composition of the two abstract specifications: the subscription is an
`EventFeed`, the send a `BlockingCall`, both instantiated, so that what is shown
here holds of every implementation of them, and `Subscription` and `WsClient` are
two. Between them is the chain of the node, external: a tree of blocks that may
or may not hold the extrinsic and its event, a best block that moves to another
fork, finality, and a pool that can drop the extrinsic. Assumed of the node:
with the registration of a subscription comes the current value at the best
block; every block that becomes the best one is notified, others perhaps; statuses come in
the order of what they report. The program calls `subscribe_events`, which
returns when its thread is started; the registration is a step of its own
(`Register`) and may be refused. `seen` of a block is a history of how the
subscription met it. The status `future` is in `WsClient` and `ApiSession`, not here.
A block carries its `line`: the hashes of the blocks from it back to the first
one. A chain is a line, a fork is a block whose line leaves the best one; the same
field gives the node's answers by number in `ChainReads`. With the line in the
block, what is behind a block is one set and not a recursion over parents.

### Keystore

Stores are `LocalKeystore` values in one or several processes, on one directory.
The write lock of a store covers an operation; `write_to_file` is a step for
`File::create` (which truncates), `set_permissions`, each of the three writes
with which serde_json writes a string to an unbuffered `File` (quote, text,
quote), and `flush`. Other stores act between them, each step can fail
(`write_fails`), and a process can die (`Crash`). A file is the set of pieces
written since it was truncated: it can be read when it holds one text whole.
`Pair::from_string` is an injective function of text and password that ignores
the password for a hex seed. A directory holds keys of three schemes under the
same key type; a file name does not tell the scheme, but a public key of `Long`
schemes (ecdsa) is a byte longer. `keys` lists every name under all three
schemes, `sign_with` and the typed signing functions look the pair up again; a
signature is told by the pair that made it. `has_keys` is one step per key.

### ApiSession

`Api::new` is one action per request. The chain is external: `Author` takes an
extrinsic with the next nonce from the pool, `Upgrade` changes the runtime and
with it the call indices, `Reorg` takes back the last block. A nonce is read in
`compose_extrinsic` and used in `send_extrinsic`, with anything in between. The
refusals of the node are those of a transaction pool (bad version, stale, same
nonce, gap).

### StorageKeys, ChainReads

Bytes are units of eight, hashes are sequences of as many units as their width
that tell their input (no collisions), keys of maps have prefix-free encodings
of one or two units, as SCALE encodings of one type have. `RuntimeKey` says
independently where the runtime keeps a value: the prefix of the entry and then
its keys, each hashed, by a recursive function over the keys (`HashedKeys`), so
that an entry may have any number of hashers. `extract_double_map_identifier`
and the double map accessors take entries of two or more of them, as the code
does: it counts no hashers, it indexes the first two. `ChainReads` adds a tree of
blocks, each with the values present in its state, and a program that reads at
a given block or at the best one. The operators of `json_req.rs` give a request
with method and parameters, `Serve` is what the node makes of it, and `Read` what
the program makes of the answer. A proof stands for the values it proves, a
header or a body for the hash of its block. The prefix of a pallet's storage is taken to
be its name, as the client does.

### ExtrinsicCodec

A job is what a program composes (signer, call, era, nonce, the facts the `Api`
value has kept) and what the node knows when it arrives. Bytes are bytes: the
encoding, the length prefix, the hex text and the decoding are written out, with
the SCALE codec of integers, Compact and Era as external operators. A signature
is 64 or 65 times the number of an entry of `signed`, the list of who signed what,
so that one that verifies was made. Hashing of a long payload is the flag
`hashed` beside its bytes (no collisions). Integers have their 32 bits (`U32s`),
a call has at least its index (`Calls`), and its length leaves room for the rest
of the extrinsic within the 32 bits of the prefix. `size` is the `size_of` of the
extrinsic's type, from which `encode_with_vec_prefix` guesses. The node's rebuilt
payload (`Message`) is stated by itself.

### Decoder

A job is a metadata (registry, pallets), an operation and the bytes it is given.
The recursion of `decode_type` is the stack `work` of types still to be decoded,
each with a count for the elements of an array or a vector: every error is
passed up with `?`, so the frames in between keep nothing else. What `Metadata::try_from` checks, in the order in which it does, are the
references of pallets to types (`IndexedTypes`, a kind and a pallet each). Each kind of
type is an action; `decode_record`, `decode_dispatch_error` and `push_event` are
the parts of the loop in `decode_events` and `decode_raw_event`. Bytes are real
bytes, and the codec (Compact in its four modes, strings, Phase, DispatchError)
is modelled by how many bytes it takes and what it refuses. After an error
`input` and `work` stay where the failing type begins. `reached` is a history of
the types met on the way. `MCDecoder` has a type of every kind, an encoder
stated by itself, and from it the blocks that a runtime writes, every such block
cut at every byte, and bytes of other origin.

## Runs

| Run | Checks | Bounds, and why they are enough |
|---|---|---|
| `WsClient_calls` | `TypeOK`, `NoLostWakeup`, `HashIsReported`, `DoneClosesSocket`, `ImplementsBlockingCall`, `DueCallReturns` under `FairSpec` | one call of any kind, two hashes, three messages of every shape: one that is passed over, one that ends the wait, one that comes late; calls share no state |
| `Subscription_waits` | `TypeOK`, `ImplementsEventFeed`, `WaitReturns`, `DropClosesSocket` under `FairSpec` | four messages; values with no, one and two matches, with a Raw::Error, undecodable, not hex |
| `SubmitAndWatch` | `TypeOK`, `MissedOnlyIfUnseen`, `HashHoldsExtrinsic`, `EventArrives`, `SendReturns` under `FairSpec` | four blocks on any forks, so that the block with the extrinsic can be retracted and another one hold it; blocks with the event before and after another's of the same name, and blocks without it that cannot be decoded; exits `InBlock` and `Finalized` |
| `Keystore_safety` | `TypeOK`, `TornOnlyIfInterrupted`, `GeneratedKeySurvives`, `SecretsArePrivate`, `SignsAsListed`, `ListedKeySigns`, `FoundKeyStays` | two stores, three schemes, one phrase and one hex seed, two writing operations at once or one after the other, a crash at any step |
| `Keystore_doc` | `EphemeralKeyIsFound` is violated | one store, one operation |
| `ApiSession_safety` | `TypeOK`, `WrongCallOnlyIfTorn`, `CleanSendKeepsNonce`, `FutureOnlyAfterReorg` | two sessions, three extrinsics, one upgrade, two blocks taken back (a nonce ahead of the chain needs both of these) |
| `ApiSession_doc` | `NamedCallRuns` is violated | one session, one extrinsic, one upgrade |
| `ChainReads` | `TypeOK`, `ReadFindsItem`, `ListingIsComplete`, `OtherNumberOnlyIfUnknown`, `FinalizedNumberIsStable` | nine entries of up to three hashers of every kind, states with all, some or none of eleven values; four blocks: the best block can move to another fork between two requests, after one of them was final |
| `ExtrinsicCodec` | `TypeOK`, `DecodeIsExact`, `PrefixCountsRest`, `VerifiesIffSameChain` | calls, nonces, eras and payloads on both sides of every length at which something changes; every cut of an extrinsic of each size of signature; nodes that differ in one fact, or have two exchanged |
| `Decoder_inputs` | `TypeOK`, `DataIsTheInput`, `OwnEventsAreDecoded`, `CutIsNoticed`, `DecodingEnds` under `FairSpec` | all values of a few per type down to depth 3 (a self-containing type is unrolled twice), blocks of none, one and two events, all cuts of the blocks of one |
| `Decoder_gaps` | `MissingVariantIsMissing` is violated | the blocks the runtime writes |
| `Decoder_compact` | `RefusedCompactIsInvalid` is violated | the blocks the runtime writes |

Bounds are constants in the guards: `MaxMsgs`, `MaxOps`, `MaxSpec`, `MaxXts`,
`MaxReorgs`, `MaxBlocks`; the decoder is bounded by its jobs (`Depth`). Symmetry is used for
stores, phrases and sessions, in runs without liveness only. Deadlock is checked everywhere
but in `SubmitAndWatch`, where a program may wait for ever for an event that
never comes; the other programs that may rest say so (`Terminating`, `Resting`, `Done`).

Every property has a mutant: a definition with a mistake one could make in that
code, written beside the definition it changes and used by nothing else, under
which the property fails.

### What the failing runs show

* `Keystore_doc`: a key inserted from a phrase into a store with a password is
  derived without the password (`client-keystore/src/lib.rs:526`) and looked up
  with it (line 564), so `key_pair` gives `PublicKeyMismatch` where its
  documentation says "`Ok(Some(_))` if the key exists".
* `ApiSession_doc`: a runtime upgrade between the metadata and the runtime
  version of `Api::new` leaves call indices of the old runtime with the version
  of the new one. The node accepts the extrinsic and runs the call that now has
  this index. `WrongCallOnlyIfTorn` shows that it is the only way this happens.
* `Decoder_gaps`: `decode_type` takes a variant by its position in the list
  (`decoder.rs:208`) though the byte it has read is the variant's index, and says
  "Variant {} not found" of a variant the type has. Other gaps silently give
  another variant. Events themselves are looked up by index and are safe.
* `Decoder_compact`: the inner type of a Compact is looked up under the Compact's
  own id (`decoder.rs:261`), so every Compact is refused with "Compact type must
  be a primitive or a composite type", and with it the whole block of events, or
  the call: most calls that move a balance have one.
  `OwnEventsAreDecoded` shows that these two, the unsupported primitives and bit
  sequences are all that stands in the way.

## Fairness

Only the client's own threads are fair, and weakly: a message that has arrived
is handled (`on_message`), a `recv()` that can return does (`recv`,
`recv_disconnected`), a wait goes on (`wait_for_raw_event`), and the decoder,
a sequential program, goes on (`Step`). This is what the
operating system's scheduler gives to runnable threads. In `SubmitAndWatch`, where the
threads of the parts are hidden behind their abstract specifications, the same
threads are fair, and what the node has sent on a connection that lasts is
delivered. Nothing else is assumed of
the node, the network or the program: a node may stay silent, a close handshake
may never end, and a call whose extrinsic was dropped by the node without
another word waits for ever (`parse_status` knows no such status).

## Proofs

`WsClientProofs` proves for `WsClient`, for every set of calls and of hashes and
every `MaxMsgs`, from the two assumptions of the modules (`NoHash` is no hash,
`MaxMsgs` is a natural number):

* `TypeCorrect`: `Spec => []TypeOK`;
* `WakeupTheorem`, `SocketTheorem`, `HashTheorem`: the three safety invariants;
* `Refinement`: `Spec => ImplementsBlockingCall`.

None of the invariants is inductive: they relate the caller to messages whose
only trace is in the channel or the socket. `IInv` adds what is in between, call
by call: an idle call has done nothing; the strings in the channel of a waiting
call are there because the first message that ends its wait was heard, the first
string is what its handler makes of that message, and the socket is closing; an
empty channel means no such message was heard; a call that is done has the
answer to the first such message or none was heard. `Invariance` proves it from
`InitIInv` and `NextIInv`, whose hard case is `OnMessageInv`. The link between
handlers and promise is the lemma `HandlerSpec`: a handler sends a string for
exactly the messages that end the wait, closes the socket with it, and the
caller makes of the string the answer of the abstract table. `StepSimulation`
then maps every step to a step of `BlockingCall` or to a stutter.

`DecoderProofs` proves `DataTheorem`: `Spec => []DataIsTheInput`, and
`TypeCorrect`: `Spec => []TypeOK`, for every registry, set of pallets and input,
from `JobsAssumption`: inputs are bytes, primitives are those of scale_info, and
the ids and lengths in a type are numbers (`TypeDef`). It does not say that a
registry has the types it refers to, nor that what pallets refer to are variants:
that is for the code to find out. The invariant `DataInv` is `DataIsTheInput` with
the types it needs and the bound on the position. The argument: no decoder of the
codec takes more than there is (`CompactBound`, `VecBound`, `RawBound`,
`PhaseBound`, `DispatchBound`), parts of a part are parts (`PartOfPart`) and
adjacent parts join (`AdjacentParts`), so a step that reads n bytes and puts them
out extends the data by what it read (`ExtendData`), and one that begins or ends
an event reads without data (`MoveOn`). `TypeInv` adds what `TypeOK` needs: once
`try_from` has succeeded, all that pallets refer to are variants (`IsIndexed`), so
that the fields of an event or a call it finds are ids (`FoundVariants`; the registry
may lack their types, which is `type_not_found`), and an
event in hand is one of those still to be counted (`left > 0`). Since the
recursion is a stack in the model, no induction over types is needed. That the
decoded events are those of an encoder (`OwnEventsAreDecoded`) would need one, and
stays with TLC.

`SubscriptionProofs` proves `TypeCorrect` and `Refinement`
(`Spec => ImplementsEventFeed`) for all events and values and any number of
messages, from `PayloadsAssumption` (only a Raw::Error is named "error", and no
event has the empty name). `IInv` adds to the types that a message which is sent
on carries a value (`InboxInv`), that the channel is the part of the log not yet
taken as long as the Receiver is held (`ChanInv`), and that the loop of a wait
has passed over nothing that ends it (`WaitInv`). With it a turn of
`wait_for_raw_event` that goes on is a stutter of `EventFeed`, and the one that
returns is the atomic wait at the first value that ends it (`TurnSimulation`);
`DisconnectSimulation` is the same for a closed channel.

`KeystoreProofs` proves all that the run `Keystore_safety` checks, for any number
of stores, schemes, texts, passwords and operations, from `KeystoreAssumption`
(phrases, seeds and the bad text are distinct):

* `Privacy`: `SecretsArePrivate`. `PrivateInv` says that the file of a writer past
  `set_permissions` has mode 0600; a `File::create` by another store truncates the
  file and leaves its mode, so this is kept.
* `TornFiles`: `TornOnlyIfInterrupted`. `WrittenInv`: what is in a file comes from a
  write that was begun. `WholeInv`: a file with one text and no failure is whole, or
  some writer is past its create and all pieces it has written are there. The last
  store that truncates the file is that writer, and when it ends the file is whole.
* `Signatures`, `ListedKeys`: state facts about lookups, derived from the above.
* `GeneratedKeys`: `GeneratedKeySurvives`. `OwnInv`: a phrase is drawn once, so
  without `insert_unknown` the file of a generated key has one writer in its life,
  which has finished when `generate` returns. `MemoryInv`: what is in memory
  derives its key without password.
* `FoundKeys`: the action property `FoundKeyStays`.

`ApiSessionProofs` proves all that `ApiSession_safety` checks, for any number of
sessions, upgrades, extrinsics and blocks taken back: `TypeCorrect`, `WrongCalls`,
`NoFuture`, `CleanSends`. Not even `TypeOK` is inductive, because `Reorg` takes one
from the nonce or from the version. `ChainInv` says that the nonces of the blocks
rise and stay below that of the state, and that every block ran under the runtime
that the one before it left; `XtInv` that an extrinsic in the pool was signed for
the runtime of the chain, one in a block for the runtime that ran it, and that
whether it is torn is exactly whether its metadata and version differ.
`AheadInv` and `CleanInv` add what is known of an extrinsic that is composed and
not yet sent: its nonce is at most that of the state while no block was taken
back, and is that of the state if it was composed on an empty pool and is alone.

`SubmitAndWatchProofs` proves `TypeCorrect`, `NothingMissed`, `HashIsHolder` and the
action property `ChainOnlyGrows` for any contents and any number of blocks and
forks, from `ContentsAssumption`. The invariant relates the three connections to
the chain: a value on the wire or in the log is what its block holds (`FeedInv`),
before the registration nothing was told of any block (`SeenInv`), and a status
on its way, or heard, names a block with the extrinsic, for `finalized` one behind
the finalized block (`CallInv`). The last needs that the chain only grows. The
two abstract specifications are used as they are, so the theorems hold for the
composition with `Subscription` and `WsClient`, which are proved to implement them.

`ChainReadsProofs` proves all that the run `ChainReads` checks: `TypeCorrect`,
`ReadsFindTheirItem`, `ListingsAreComplete`, `NumberOfAnswer` and `FinalizedNumbers`,
and the action property `ChainOnlyGrows`, for any entries with any number of
hashers, any keys, values and states, and any number of blocks and forks, from
`ItemsAssumption` and `EncAssumption` (an item has a key for each hasher, two entries
differ in pallet or name; encodings are not empty and none begins another).

* `HashInv` is the state between the two requests of `get_signed_block_by_num`: the
  hash is of a block with the number, and behind the head the program has if that
  is as high. It survives a change of the best block because the head stays behind
  the finalized block (`HeadInv`) and that behind the best one (`ChainInv`, with
  `IsTree`: of two blocks on a line the lower is behind the other); `TurnInv` keeps
  the head from moving between the requests.
* `AnswerIsRight` says of an answer that it is what was asked for in the state of
  the block it is from. The case that carries it is about keys: the prefix tells
  the entry (`PrefixTellsEntry`), a hashed key tells the key whatever follows it
  (`HashTellsKey`: a hash is of fixed width and tells its input, an encoding begins
  no other), so that a key built from the first n arguments matches an item exactly
  if its first n keys are these (`KeyBegins`, `TailBegins`). From it follow that a
  read finds its item only (`StorageKeyFinds`), a prefix the items under it
  (`PrefixLists`), and `extract_..._identifier` the key that was put in
  (`IdentifierFound`).
* The one recursive definition is `HashedKeys`. That the recursive function is what
  it says (`HashedKeysDef`) and that its values are sequences is an induction over
  the number of keys. It is done with `SetInduction`, induction for a set instead of
  an operator: a set of numbers with 0 and with the successors of its members has all
  of them, shown from the well-foundedness of < on the naturals.

The attempt to prove `ListingsAreComplete` has corrected the model: it used to let
only entries of exactly two hashers be listed as double maps, which the code does
not ask for. An entry with three is in the run now.

`ExtrinsicCodecProofs` proves all that the run `ExtrinsicCodec` checks:
`TypeCorrect`, `DecodingIsExact`, `PrefixIsRight` and `SignaturesBindTheChain`, for
any call, signer, era, nonce, chains, size and cuts, from `JobsAssumption`. `IInv`
says that what was composed is an extrinsic of the job (`Made`), and what is sent
is its hex text or a beginning of it (`TextOf`), with `DecodeIsExact` for what has
been decoded.

* A decoder is a step from a state (what it has put out, what is left) to another or
  to none. `Stage(S, o, z, m)` says of the states S that a decoder has reached: if m,
  the bytes left, is not negative, the one state is o with a beginning of z of length
  m; if it is negative, there is none. For every field there is a lemma that
  its decoder leads from the stage before the field to the one behind it
  (`CompactStage`, `EraStage`, `AddressStage`, `SignatureStage`, `BytesStage`), for
  all encodings, cut anywhere. `DecodesSigned` and `DecodesUnsigned` are their
  composition: m is 0 at the end only if nothing was missing.
* Encoding: the prefix spliced in front of the body is the length of the body, of
  one, two, four or five bytes, whatever `Reserve` made of `size` (`PrefixSplice`).
* Hex: from a beginning of the text `from_hex` gives an error or a proper beginning
  of the bytes (`FromHexCut`).
* Signatures: the bytes a chain adds to what is signed tell the chain
  (`AdditionalFacts`), at a fixed place of the payload, so that two payloads are the
  same, hashed or not, only for the same chain (`SameMessage`).

Only model-checked:

* Liveness (`DueCallReturns`, `WaitReturns`, `DropClosesSocket`, `EventArrives`,
  `SendReturns`, `DecodingEnds`): beyond the prover.
* `OwnEventsAreDecoded`, `CutIsNoticed`: they compare the decoder with an encoder
  over registries whose types may contain themselves, which is an induction over
  types and values.

## Not modelled

* Texts other than ASCII in the decoder, and Compact lengths of 2^31 and more.
* `get_fee_details`, `get_payment_info`, `get_constant`, `get_existential_deposit`:
  one request or lookup and one conversion each.
* The JSON text of requests, and everything that prints: formatting without
  decisions. The requests of `send_extrinsic` and of subscriptions are the `kind`
  of a call in `WsClient` and `Subscription`.
* Tips other than 0 in `ExtrinsicCodec`, and in its run nonces of 2^31 and more,
  which are beyond TLC's integers; the theorems are about all nonces of 32 bits.
* `node-api/src/events.rs` and `rpsee-client`: not part of the build.
* Cryptography: a signature is who signed what, key derivation is injective.
* A crash of the machine: `write_to_file` never syncs, so a file may also be
  lost whole; texts of different lengths written at once by two stores leave
  what cannot be read, whatever the bytes are.

What the modules have and no property promises anything about:

* An error answer of the node that reads as None (`ws_client/mod.rs:148`). The
  program cannot tell it from a value that is not there. `ReadFindsItem` and
  `ListingIsComplete` are about answers without error (`~ answer.error`),
  `CleanSendKeepsNonce` about nonces that were not read from one (`clean`); of a
  nonce 0 that was, only `FutureOnlyAfterReorg` speaks.
* A refused subscription (`sub = "refused"`): no event ever arrives and the wait
  lasts as long as the connection. `MissedOnlyIfUnseen` and `EventArrives` are
  about registered subscriptions.
* The hash of an `InBlock` status after it was returned: `HashHoldsExtrinsic` says
  that its block holds the extrinsic, and only for `Finalized` that the chain
  cannot leave that block.
* The depth of the recursion of `decode_type`: it is a sequence without bound in
  `Decoder`. `DecodingEnds` is checked for a type that contains itself behind a
  byte it reads. One that contains itself and reads nothing is in no run.

## Plan

Done, in this order: `RpcMessages`, `BlockingCall`, `WsClient` with its proofs,
`EventFeed`, `Subscription`, `Keystore`, `ApiSession`, `StorageKeys`,
`ChainReads`, `Decoder` with its proof, `SubmitAndWatch`, the schemes of
`Keystore`, `ExtrinsicCodec`, the other getters of `ChainReads`.

The proofs, in this order: `Subscription` implements `EventFeed`, `Keystore`,
`ApiSession`, `SubmitAndWatch`, `ChainReads`, `ExtrinsicCodec`, the types of
`Decoder`. What a run checks and no theorem states is listed under "Only
model-checked".
