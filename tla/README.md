# Verification of GD-EOS in TLA+

GD-EOS binds the Epic Online Services (EOS) C SDK to Godot. Two programs make it up: a Python generator that reads the
SDK's headers and writes C++ bindings, and the hand-written C++ around the generated code, whose stateful heart is the
multiplayer implementation on top of the SDK's P2P interface. This directory models that heart, `EOSPacketPeerMediator`
and `EOSMultiplayerPeer`; the generator, from the order in which headers are read to what the written code needs of
itself; and the files a build leaves behind.

Check everything from this directory:

    tlc -workers 2 -config mediator_safety.cfg MCMediator.tla        # likewise for the other runs
    tlapm EOSPacketPeerMediator_proofs.tla                           # likewise for the other *_proofs modules

## 1. The system

| Component | State | Operations | Talks to | Hard parts |
|---|---|---|---|---|
| `EOSPacketPeerMediator` (singleton) | `active_peers` (socket name -> instance pointer), `socket_packet_queues`, `pending_connection_requests`, queue limit, `initialized` | `_on_process_frame` drains the SDK; `poll_next_packet`, `register_peer`, `unregister_peer`, `clear_packets_from_remote_user`; four SDK notifications; login and logout | the SDK (polls it, is called back), every registered instance (plain pointers) | two maps changed apart; a limit that may drop below what is queued; packets and requests for names nobody registered (yet); instances that unregister from inside its own callback |
| `EOSMultiplayerPeer` (one per Godot multiplayer peer) | mode, status, own id, `peers` (id -> user), listed requests, inbox, flags, socket name | `create_server/client/mesh`, `add_mesh_peer`, `_close`, `_disconnect_peer`, `accept/deny[_all]_connection_request(s)`, `_poll`, `_get_packet`, `_put_packet`, setters, four callbacks, destructor | mediator (register, poll, unregister), SDK (send, accept, close), the application (signals, in the middle of `_poll`) | notifications that arrive a tick after the state they speak of; ids and users that come back; several instances under one name; partial failures of `create_*` |
| EOS SDK P2P (external) | connections per socket name and user, notifications waiting for the tick, received packets | send, accept, close, receive, tick | both of the above, the remote users | order between callbacks and polled packets |
| SDK call support (`core/utils.h`) | `HandleCache` (weak map of handles), client data of pending calls, tick list, `_SharedPtr` | create and free client data, deliver callbacks, tick, pre-logout and release hooks | every generated method | object lifetimes against late callbacks |
| Notification and file transfer helpers | notification ids, transfer requests | add and remove, progress and completion callbacks | SDK | double removal, late callbacks |
| EOS data classes, packed results | plain fields | getters, setters | - | none |
| Binding generator: parser | the calls of `parse_file`, headers visited, declarations found, docs, enums put off | `header_parser.parse_file`, depth first through `#include` | resolution | a header is read once, for whoever asks first |
| Binding generator: handle resolution | dictionaries of methods, callbacks, structs, constants per handle | the passes of `parse_all_file`, which move entries between them | parser, emission | depends on the order of the files; entries are moved once and looked up twice |
| Binding generator: types and names | `struct2additional_method_requirements`, `expanded_as_args_structs` | three passes over the structs, questions about fields and arguments | emission | one pass in parse order over a relation that is not; guesses by likeness of names |
| Binding generator: emission | the text written so far, signals wanted | one generator each for packed results, structs, methods, signals | types | generators that look at the same types again and must agree; only the C++ compiler sees it |
| Binding generator: enums, unions, all-in-one header, documentation | existing XML documents | templates, merge | - | none of state |
| Build scripts | the SDK's `eos_base.h` and its backup, generated files, all on disk | generate, patch, compile, restore, clean | generator, compiler, the user's SDK | a build may stop anywhere, and the next one starts from what it left |
| Editor export plugins, module registration, demo | none of their own | copy files, set options, register classes | - | pure I/O |

Interaction in one paragraph. Each frame the mediator takes received packets out of the SDK and appends them to the
queue of their socket name; `MultiplayerAPI` then calls `_poll` on an instance, which takes its whole queue into a local
list, turns event packets into peers (emitting `peer_connected`, whose handler may call anything) and ordinary ones into
its inbox. `EOS_Platform_Tick` dispatches notifications - request, established, closed - to the mediator, which forwards
them to the instance registered under the name. A closed instance with peers left stays registered until the closings of
its connections have been notified.

The generator runs once per invocation, in one direction: parser, resolution, types, emission. What connects the parts are
dictionaries that the passes fill and empty in an order, and the order of the headers is the directory's. The build
script calls the generator, patches a header of the SDK in place and puts it back afterwards.

### What makes each part correct

* Mediator: registry and queues agree; no request is left behind at registration; order within a queue; the queue limit;
  a packet somebody registered for is never lost in a frame, and a packet nobody wants never blocks the others.
* Instances: an active instance is the one registered under its name; one id per remote user; ids unique in the session;
  requests are listed once and can still be answered; a client ends up with the server or with nobody; what is read is in
  order of arrival; a closed instance gives its name back; the mediator keeps no pointer to a freed one.
* Together: whatever the instances do is a behaviour of the mediator's specification, and whatever that does one of the
  mailboxes it stands for.
* Parser and resolution: whatever the order of the headers, each declaration is read once, for its own interface, and gets
  the one owner its declaration determines; no lookup fails.
* Types and emission: every conversion called exists, every field and argument is filled in once and in place, the class of
  a result is what the method fills in, signals declared are the signals emitted.
* Build: what is compiled and restored is what the build found; there is only one way to lose the vendor's header.

`PROJECT.json` lists the hazards with the lines where they bite and the properties that cover them.

## 2. Plan

All of this is done, in this order:

1. **Core:** `EOSPacketPeerMediator`, `EOSP2P`, `EOSMultiplayerPeer`, their runs, the mediator's theorems, and the proof that
   the composite implements the mediator's specification.
2. **What the mediator promises:** `EOSMailboxes`, checked and proved to be implemented by the mediator.
3. **Generator:** parser, resolution against `EOSOwnership`, types, emission.
4. **Build scripts:** `EOSBuild`, with failures and kills anywhere, checked and proved.
5. **The composite's invariants**, proved for every instance of the constants.
6. **Resolution**, proved for every SDK of the kind the code counts on.
7. **Emission:** its types, signals and conversions, and that arguments, results and fields are complete, proved for every SDK
   of the kind the code counts on.

What could follow: a history variable with the user of each inbox packet, for delivery under a re-used id. What was left out on
purpose is in section 7.

## 3. Modules

| Module | Models | Notes |
|---|---|---|
| `EOSPacketPeerMediator` | the mediator's .cpp and .h | the abstract specification the composite implements, and a component of its own |
| `EOSP2P` | external: the SDK as the two classes use it | a link per socket name and user: status and a FIFO of undispatched notifications |
| `EOSMultiplayerPeer` | the instances, composed with `M == INSTANCE EOSPacketPeerMediator` and `EOSP2P` | every public method, callback and destructor |
| `EOSMailboxes` | - | the abstract specification of the mediator: a set of packets per opened name, no queues, frames, limits or log-ins |
| `EOSHeaderParser` | `parser/header_parser.py` | one action per kind of line, `Include` pushes a call, `Return` pops it |
| `EOSHandleResolver` | `resolver/handle_resolver.py`, `context.py` | extends the parser; one action per pass, or per pass and interface |
| `EOSOwnership` | - | the abstract specification of resolving: everything gets its one owner, once |
| `EOSTypes` | `utils/type.py` | which field counts which, who uses a struct, requirements, expansion: three passes over the structs |
| `EOSEmission` | `config.py`, the generators of handles, structs, interfaces and packed results | extends the types; one action per method, struct, result |
| `EOSBuild` | `tools/gd_eos.py`, `SConstruct`, `main.py`, `gen_files` | one action per change of a file |
| `MCMediator`, `MCMultiplayerPeer`, `MCResolver`, `MCEmission`, `MCBuild` | - | values of constants and symmetry for TLC |
| `..._proofs` | - | theorems, see section 6 |

### Multiplayer: how state and actions correspond to the code

* **Granularity.** All code runs on Godot's main thread, so one call, one callback and one iteration of the receive loop is
  one action. The loop of `_on_process_frame` is split into iterations (`FilePacket`, `DropPacket`, `NoPacketLeft`)
  guarded by `receiving`; nothing else happens meanwhile. `_poll` is split into packets (`polled`), because
  `peer_connected` is emitted inside its loop: in that handler (`in_signal`) the application may call any method but
  `_poll` itself, as it may between handlers; a `_poll` inside a `_poll` is not modelled. The other signals' handlers are
  assumed not to call back into the class.
* **`unique_id`** has no initial value in the code (`eos_multiplayer_peer.h:242`). The model starts it at 0: every
  `create_*` sets it, and nothing reads it before.
* **Packets** are records: socket name, sender, event byte, peer id, and `n`, the position of arrival. Payloads,
  channels, reliability, sizes and transfer modes are left out: nothing stated depends on them.
* **Lists of requests** are bags (user -> count): `_on_remote_connection_closed`, accept and deny look requests up by
  user and socket, and equal ones are indistinguishable.
* **`peers`** is a function from id to user. Code that erases *the* id of a user is modelled as erasing all of them:
  the two agree by `OneIdPerUser`, which is checked.
* **`_close`** resets everything but `peers` and the socket name, closes the SDK's connections of the name, and unregisters
  *the name* if `peers` is empty: like the code, the model does not compare the registered instance with the caller.
* **The links.** Sending to an unknown user opens a connection; accepting, refusing and closing have their notification
  queued at the link and dispatched by a later `Tick`. Notifications of one link are in order, of two links are not.
  The state of a link moves during the tick (the SDK does no work outside it). Packets received before a connection
  closed are still delivered, as the SDK documents and the code relies on. `Logout` clears every link.
  Sending fails only where the code handles it (`CreateClientCannotSend`).
* **Undefined behaviour.** `accept_all` and `deny_all` erase from the list they iterate: the walk may end after any element.
  A `_poll` with polling off meets `_SharedPtr::is_null`, which assigns; the null packet it then dereferences stops the
  process: `Handling` has no action for it. A notification to a freed registered instance is a dangling call: the
  behaviour ends there, and `RegisteredAreAlive` says that it can be reached.
* **Mailboxes.** `MailboxSpec` maps the registry's names to opened mailboxes, a queue to the set of its packets, the SDK's
  list to packets in transit, the bags of held requests to the users who wait. The promise is order where packets are handed
  out, not in how they are kept: a mailbox hands out a set that nothing left behind should have preceded. That the
  code keeps its queues in that order, through filing at both ends and clearing, is the content of the mapping.

### Generator: how state and actions correspond to the code

* **A header** is the sequence of the lines the parser tells apart; a declaration is a name with the facts the code reads off
  it (`Facts`: kind, first argument, the callback taken, what its spelling says). `stack` is the Python call stack of
  `parse_file`; the mutable arguments of a call (its interface, its deprecation, `skip_include`) are its frame. `infos` is the
  nested dictionary, in which the last declaration under a name wins, and `visited` the set that makes a header read once.
* **A pass** takes entries out of `infos` and puts them where they belong. `phase` names the pass and `at` the interface it is
  at; iteration follows insertion order (`ils`), as Python's dictionaries do. Where the code would raise `KeyError` or
  fail an assertion, the action is `Fail`, and `NeverFails` says that it does not happen.
* **`owner`** is where a declaration is, read off all the dictionaries together; `EOSOwnership` says it is set once, to a value
  that is a function of the declarations (`OwnerOf`). `OwnerOf` is written from what the code does with one declaration, not
  from its passes. The three callbacks that are copied to file transfer requests have an owner besides the copies.
* **Types.** `needs` and `expanded` are `struct2additional_method_requirements` and `expanded_as_args_structs`. A name is a
  sequence of words, since the code's guesses (which field counts another, what an out argument is, which method removes a
  notification) go by words; a type is its base and its stars.
* **Emission.** The text is reduced to what one part of the output needs of another: `calls` (conversions), `fills` (fields set),
  `passed` (arguments), `declared` and `written` (members of results), `emitted`, `wanted` and `bound` (signals), `removers`.
  A method that asks for a text again writes a second call, which `passed` and `written` tell from the first by `again`.
  Where a generator gives up with an assertion the step is `failed`.
* **`Sort`** says how a base is treated. The callbacks of file transfers (`transfer`) may be set where others may not, what
  is set up once (`setup`: memory functions, system options, reserved pointers) is never read back, and the account of an
  external user (`account`) is a union without a type beside it.

### Build: how state and actions correspond to the code

* **Files** are the state: `base` and `backup` are texts (release and form), `gen` says which release a generated file is
  from. A file opened for writing is empty until it is written: opening and writing are two actions, so that `Interrupt`,
  enabled whenever an invocation runs, can fall between them. `GenerateFile` writes or deletes one generated file, in the
  order `gen_files` goes through the files of a header, so that a generator may stop after any of them too. A header of the
  release that calls for no file is gone through like the others, and has its former files deleted. `pc` is the place in the
  invocation.
* `Clean` is `scons -c`: no command runs, and `postprocess` neither. The comment at `gd_eos.py:147` says that a clean
  restores the header after an interrupted build; only the `complete` command of a build calls `postprocess` (`SConstruct:307`).
* `found` is a history variable: the header as the invocation found it.

**Variants.** Definitions marked "variant" are plausible bugs of the definition that follows them; each property is seen to
fail on one (`mutants` in `PROJECT.json`).

## 4. Runs

| Run | Instance | Asks |
|---|---|---|
| `mediator_safety` | 2 names, 2 users, 3 packets, limits 0..2 | `TypeOK`, `QueuesMatchPeers`, `NoRequestHeldBack`, `PeerIdPacketsFirst`, `DeliveredInOrder`, `QueuesBounded`, `RegisteredPacketsAreFiled`, `MailboxSpec` |
| `mediator_liveness` | 2 names, 1 user, 3 packets | `SdkQueueDrains`, with frames and polls fair |
| `peer_mesh` | 1 mesh instance, 2 users, 3 packets | `OneIdPerUser`, `ActiveIsRegistered`, `OwnIdIsNoPeer`, `InboxInOrder`: reconnecting users, re-entrant calls |
| `peer_requests` | 1 host, 2 users, 2 notifications per link | `TypeOK`, `RequestListedOnce`, `RequestsAreLive` |
| `peer_clients` | 2 clients on one name, 1 server, 3 packets | `ActiveIsRegistered`, `ClientKnowsOnlyServer`, and, with fairness, `ClosedIsUnregistered` |
| `peer_any` | 2 instances of every mode, reused, freed, polling off, log-outs | `MediatorSpec`: the composite implements the mediator |
| `resolution` | a small SDK of 16 headers, the 7 that are parsed from the listing in every order | `ReadAsDeclared`, `OwnedOnce`, `NeverFails`, `DocsAtHandles`, `Owned` (implements `EOSOwnership`), `TypeOK` |
| `emission` | 524 SDKs of 10 structs and 10 methods | `CallsDeclared`, `FieldsFilled`, `ArgumentsPassed`, `ResultsWritten`, `SignalsBound`, `RemoversExist`, `TypeOK` |
| `build` | 2 releases, 3 headers, any number of builds | `HeaderAsFound`, `CompiledFiles`, `LostOnlyByRebuilding`, `TypeOK` |
| `ghost_peer` | 1 server, 1 user, 1 packet | a violation of `ClosedIsUnregistered`, see findings |
| `name_taken` | 2 servers, 1 name | a violation of `ActiveIsRegistered` |
| `freed_peer` | 1 server, freed | a violation of `RegisteredAreAlive` |

**Bounds.** `MaxArrivals` caps the packets that ever arrive: three give two of one kind around one of another, which is
what reordering takes. `MaxHeld` caps equal requests listed in one place (two: one more than is legal). `MaxNotices` is a
guard on *opening* connections only: it never hides a closing. Two users give a second party to confuse; two names in the
mediator's runs give a stray packet in front of a wanted one. `DefaultQueueLimit` is 5000 in the code and 1 or 2 here, so
that full queues happen; `QueueLimit` contains 0, which the setter refuses. Each composite run switches on the part of the
application its question needs (`ModesOf`, `Sends`, `Reuses`, `Frees`, `LogsOut`, the setters' values) and leaves the
rest to the other runs. `peer_any` has no `SetQueueSizeLimit`: `mediator_safety` covers it.

*The generator's inputs.* `MCResolver` has one header of every shape the code provides for: the platform's and the common
ones, an interface with a `_types.h`, two interfaces sharing types, enums that come from an include, an interface reached
through another, handles beside the interface's own, a file transfer interface, a deprecated include, constants whose prefix
has a handle in the table or none. Every order of the listing is explored; the rest of the generator is deterministic.
`MCEmission` has one SDK for every pair of options and information structs, with the inner struct first and last, and one for
every list of out arguments, all with both values of the generator's options. Among the lists are the two the code is not
at ease with: an out `EOS_Bool` with other arguments behind it, and a text of any length beside other results, before and
behind them. It leaves out two texts of any length in one result, where the code's second call for one would write over
the other. `MCBuild`'s second release drops a header, calls for no file of another and for less of the third, so that every
kind of leftover occurs; nothing else is bounded: the state is finite.

**Symmetry** over users (and instances and names in the mediator's safety run): no definition tells them apart. None is used
where a liveness property is checked.

**Fairness.** `FairSpec` assumes what the engine does each frame: `process_frame` is emitted, `MultiplayerAPI` polls,
`EOS_Platform_Tick` runs, and a call that was begun returns. Nothing is assumed of the application, of the remote
users or of the network.

The generator and the build are sequential programs and state no fairness: nothing in them waits.

**Deadlock** is checked in `mediator_safety`, `mediator_liveness`, `peer_mesh`, `peer_requests`, `resolution`, `emission`
and `build` (where `Done` lets the finished generator rest; a failed one is stuck, and reported). `peer_clients` switches it
off because there each instance is used only once and then rests; `peer_any` because the crash of a `_poll` with polling off
is a stop.

`peer_clients` has one remote user and no reuse on purpose: with a second user, or with an instance created again under
another name, `ClosedIsUnregistered` fails for the reason of `ghost_peer`, or because the old registration is forgotten.
`RequestListedOnce` and `RequestsAreLive` speak of hosts and the mediator: a closed instance that is still registered
takes requests nobody can answer (a hazard in `PROJECT.json`).

## 5. Findings

* **`ghost_peer`** (`eos_multiplayer_peer.cpp:869`). A connection closes while its peer id packet is still in the mediator's
  queue. The closed callback finds no peer and clears nothing; the next `_poll` makes the sender a peer. No further
  notification comes, so that after `_close` the instance waits for it for ever and its name stays taken.
* **`name_taken`** (`:161`). `create_server` or `create_mesh` under a name in use sets mode and socket first, then cleans up
  with `_close()`, which closes the owner's connections and removes the owner's registration.
* **`freed_peer`** (`:1266`). The destructor's `_close()` leaves an instance with peers registered; the mediator keeps the
  pointer and calls through it when the closing is notified.

## 6. Proofs

`EOSPacketPeerMediator_proofs` proves, for every set of names, users, instances and ids, every limit and any number of
arrivals, all the safety properties of `mediator_safety`. Assumed are only `QueueLimitAssumption` (limits are naturals, the
default is positive) and `BoundAssumption` (the bounds are naturals).

| Theorem | Argument |
|---|---|
| `TypeCorrect` | inductive by itself, with the queue lemmas below |
| `QueuesAlwaysMatchPeers`, `NoRequestIsHeldBack` | together inductive relative to `TypeOK` |
| `PeerIdPacketsStayFirst`, `PacketsAreDeliveredInOrder` | from `ArrivalOrder`: the SDK's packets are numbered in increasing order up to `arrivals`, every queue is in order, and everything filed precedes everything still in the SDK. `DeliveredInOrder` alone is not inductive: it says nothing of the SDK's own list nor of packets still to arrive |
| `QueuesStayBounded` | from `RoomWhileReceiving`: the places of all queues are finitely many, and inside the loop there is room for one more. Only `FilePacket` adds a place, and it adds one (`PlacesStep`) |
| `RegisteredPacketsAreAlwaysFiled` | case by case: a packet leaves the SDK's list only from its head, by `DropPacket`, `FilePacket` or a log-out |

Lemmas: `EnumerationExists` (a set of naturals can be listed in increasing order, by least counterexample, as the
provers cannot instantiate an induction schema), from it `WithoutKeepsOrder` (removing one user's packets yields a
subsequence), `SuffixProperties` (polling), `FiledProperties` (filing at either end).

`EOSMultiplayerPeer_proofs` proves that the composite implements the mediator's specification (`ImplementsMediator`, the
property of `peer_any`), for any number of instances in any mode, with every switch of the application on: each action of
an instance, of the SDK's tick and of the frame is one of the mediator's or leaves its state alone. The step needs
`RefinementInv`: the mediator's own type and registry invariants, because an instance polls and unregisters under the
socket name it remembers, and `OneAtATime`, no `_poll` in progress during a frame, because `_poll` may end in a `_close`.
`RegistryHoldsForPeers` and `QueuesInOrderForPeers` carry the mediator's invariants over to the whole system. The theorems
about the mediator come from an instance of its proof module (`Proofs`), whose definitions `SameNext` and
`SameInvariants` identify with those of `M`. Assumed are `NoneAssumption`, `BoundAssumption` and `EventAssumption`.

The same module proves the composite's invariants. The base is `PeerInv`: the types of instances and links
(`TypeInv`), and `RefinementInv`, which brings in the mediator's. On it rests a summary of all steps (`NextIdentity`):
a step leaves an instance's mode, id, name and peers as they are, or removes peers (`Shrunk`), or adds one that was polled
(`Joined`), or makes the instance anew (`Created`). What the five theorems need of the forty actions is only that.

| Theorem | Assumed besides | Argument |
|---|---|---|
| `PeerTypeCorrect` | - | action by action |
| `OneIdPerUserAlways` | - | a peer is added only for a user without one |
| `OwnIdIsNeverAPeer` | `~Reuses` | a polled id is compared with the instance's own; an own id is given only to an instance without peers, and that is where `~Reuses` is needed: a client made a server (id 1) while its former server's closing is outstanding has its own id among its peers |
| `ClientsKnowOnlyServers` | `~Reuses` | as above: a mesh made a client keeps its former peers |
| `ActiveStaysRegistered` | `~Reuses`, `HostsAreAlone` | instances are made active after they registered; what unregisters a name is the registered instance or, where a server or mesh is created on it, another. `HostsAreAlone` (with several instances, all are clients) excludes the latter, which is the finding `name_taken` |

`SettingAssumption` (the setters' values are Booleans) is the only assumption added to the composite's.

`EOSInboxOrder_proofs` follows a packet from the SDK to the application: the packets of an inbox are in the order of their arrival
(`InboxAlwaysInOrder`), with re-used instances and names too. `InboxInOrder` alone is not inductive, as it says nothing of what
`_poll` still has to store. `InboxInv` adds that the packets taken so far (in the inbox, or in the list of the `_poll` in
progress) are in order, older than all that the frame has still to file (`TakenIsPast`), and, while the instance is active, older
than what waits in the queue of its socket (`TakenIsAhead`); of a closed instance the last cannot be said, as another may own its
socket. Where a step's packets come from is the mediator's part (`QueueSources`, `ReceivedSources`): a packet of a queue
was there before, or was the head of those just received.

`EOSRequests_proofs` does the same for connection requests: each is listed once (`RequestsListedOnce`), and only while
something can come of it (`RequestsStayLive`). Neither is inductive, as both say nothing of notifications still to be
dispatched. `OneAtOnce` is about a link and the number of requests that wait for an answer, at the registered host or at the
mediator (`Waiting`), seen as one list, the waiting one first: between two requests a closing is notified, and after the
last one too if there is no connection. So a request is dispatched only when none waits, and a dispatched closing takes the
waiting one away. Calls of the application use links and shorten lists (`Quiet`); a created instance takes over what the
mediator held (`RegisteringOnce`). Assumed are `~Reuses` and `HostsAreAlone`, for `ActiveIsRegistered`, and `~LogsOut`: a
log-out drops the links but not the lists.

`ImplementsMailboxes`, at the end of `EOSPacketPeerMediator_proofs`, says that the mediator implements `EOSMailboxes`,
relative to `MailboxInv` (`TypeOK`, `QueuesMatchPeers`, `ArrivalOrder`). Polling is where the order is used: what stays
behind the head of a queue in `ArrivalOrder` has no right to precede it. Filing and clearing are equalities of sets
(`RangeFiled`, `RangeWithout`). The mailboxes are generous in one place: packets discarded with their sender could also be
seen as handed out.

`EOSBuild_proofs` proves the four properties of `build` for any set of releases and headers (assumed is `HeadersAssumption`:
files are called for by headers of the release). `IInv` adds to the properties what each place of an invocation knows of the
two files, and that a header is gone only between `os.remove` and `os.rename`, or after an interruption there, with the
backup in place.

`EOSHandleResolver_proofs` and `EOSResolverPasses_proofs` prove everything the run `resolution` checks, for any number of headers,
interfaces and declarations and any order of the listing:

| Theorem | Argument |
|---|---|
| `TypeCorrect` | `TypeInv`: `TypeOK`, and the types of the calls on the stack, the docs and the deferred enums |
| `ReadCorrect` | from `ReadInv`: each call reads its file for the interface and with the deprecation the reference gives the file, and of a file that is visited every line before the place of its call, or every line if no call reads it, has been read: what it declares is in `infos`, what it includes is visited |
| `NeverFailsEver`, `DocsCorrect`, `OwnedOnceEver` | from `PassInv`, below |
| `Implements` | a declaration's `owner` is `OwnerOf` from when it is placed (`OwnersFollow`), and what is placed stays (`PlacedStays`) |

*Parsing.* The reference (`Expected`) is written with `Way`, the files on the way to a header, a recursive function; that it has a
solution is proved by the least closed set of headers (`LeastIsClosed`), and that it ends at one file that is read for itself
by `NoCycle`. The documentation needs an invariant of its own: while a deprecated file is read, `docs` may hold
that file's doc, and the interface's own is in the frame of the call that opened it (`OwnDoc`, `StackInv`).

*Passes.* Each is one or more turns, over all interfaces or over one (`Turned`). `PassInv` says of what is left in `infos`
why it is still there: which passes have had their turn without placing it (`Waits`). With it a pass finds what it looks up:
a method that waits has its callback waiting with it (`Unmoved`), and what comes to the last passes belongs to no interface
that was got. `RightOwners` says that what was handed out went where it belongs, `NothingLost` that a declaration is left,
placed, or among `extra_handles_methods` until they are added. `Later` is what all passes but the first have in common; the
first is `MethodsPass`.

*Assumptions.* They are what the SDK's headers guarantee and the code does not check. Where they do not hold the code goes
wrong, and the properties say nothing of it: a header that two others include belongs to the first (`OneReader`), a callback
taken twice is a `KeyError` (`OneTaker`). A run has one SDK; for any SDK the module has to say what `parse_all_file` takes
for granted, and TLC checks that the run's SDK has it. About the headers (`ListingAssumption`, `OneReader`, `NoCycle`,
`IncludesAssumption`, `LinesAssumption`): eos_sdk.h includes the interfaces' headers and is itself only listed; a file that
is not read for itself is included by one other, a `_types.h` by its own header; no cycle. About declarations
(`DeclaredOnce`, `OneTaker`, `MethodsAssumption`): names are declared once, a callback is taken by one method and declared
with it, and releases and getters take none; the code asserts the first half (`convert_to_signal_name`) and raises
`KeyError` without the second (`handle_resolver.py:350`). About names (`HandlesAssumption`, `InterfacesAssumption`,
`CopiesAssumption`, `NoneAssumption`, `CheatsAssumption`): an interface that can be got declares the handle of that name, or
is in one of the two lists of global files; the tables of special cases name handles that exist, and `EOS_HPlatform` is
declared, which the code looks up twice without asking (`handle_resolver.py:418`). About docs (`DocsAssumption`): one per
interface, of one of its handles.

`EOSEmission_proofs` proves the invariants of `emission`, all but `RemoversExist`, for any number of structs, methods, callbacks,
fields and arguments and any limits:

| Theorem | Argument |
|---|---|
| `TypeCorrect` | `Typed`: a step that goes through a list is at one of its elements (`Placed`), and signals are callbacks (`CallbacksOfIs`) |
| `SignalsBoundEver` | from `Signalled`: after every method `need_signal_callback_list` is what the callbacks emit, and `GenSignals` will find each. `SignalsBound` alone speaks of the last state only |
| `CallsDeclaredEver` | from `Asked`, `Settled`, `Fit` and `Called`, below |
| `ArgumentsPassedEver` | from `Passing`: what the code of one method passes, in its call (`Kept`) or in the one it makes again (`KeptAgain`), is the list of parameters without those in `Lost` |
| `ResultsWrittenEver` | from `Agreed`: up to the method it has come to, each of the two generators has made what the first one declares (`PackedUpTo`), the first one could make it (`BuildableUpTo`), and a second call fills in one member of a result that is declared (`Parts`) |
| `FieldsFilledEver` | from `Loaded`; `AssignedAll` says what is filled in of one struct |

*Conversions.* `Inherited` reads `needs` of the owners while the pass that changes `needs` is under way, in the order of
parsing. The invariant says why the order does not matter: a struct that has another inside asks nothing beyond its own use
(`AskedOf`), so that what is inherited depends on the SDK alone (`FromOwners`), and a struct the pass has been to asks all of it
(`Settled`). Structs are taken apart only if they are fit for it (`Fit`), which excludes those that another part of the
output needs a class of. Then it is a matter of cases that what a class (`ClassCallsDeclared`), a callback and a method call is
there; the case that is easily missed is an array's elements, which are set but have no place of their own (`ShadowsKept`).

*Arguments and results.* Three loops go through the out arguments with steps of their own: one declares the members of a
result (`gen_packed_result_type`), one fills them in and passes them (`_make_packed_result`), and both skip what they have taken
along, the length of a text, the size of data. `StartsIs` says of any such loop that it comes to places in order, each as far
behind the one before as that one is wide, and ends behind the last (`InOrder`). What is passed at each place is a piece of the
list of names (`PassedForIs`), pieces that follow each other make up the list (`FlattenPieces`), and from one place to the next the
list grows by the piece and by nothing lost (`Advance`, `PassedIs`). Two loops
with the same widths come to the same places (`LoopsAgree`); the generators' widths are the same wherever both support an
argument (`WidthsAgree`), though one asks `is_arr_field` where the other does not. A method without a packed result is
one neither of them writes (`NotWrittenNotDeclared`).

What the two theorems claim is what the code does, for any out arguments, and not that it is complete. The loops go on two places
behind an `EOS_Bool`, as if it had a length: the argument there is passed nowhere and has no member. `Behind` are the arguments
that follow an out bool, and which of them are lost is determined from the first on, since a bool that is lost itself takes
nothing along (`LostIs`). The second call for a text that was too long passes what was collected up to the text's length:
results behind the text are missing from it, and of its answer one member is filled in. `ArgumentsPassed` says that nothing else
is lost, doubled or swapped, `ResultsWritten` that both generators lose the same.

*Fields.* The lists the generators go through leave out counts and types, and the code for an array or a union sets them along
with it. `BesideIs` says that what is set along is a field that is left out, `BesideOne` that it is set along with one
field only, `AllVisible` that a field that is left out is set along with one that is not: no count is an array that has a count in
turn. `FlattenAll` makes one list of it.

*Assumptions.* The code checks nothing of what follows; it is how the SDK's headers are written, and what the output's
fitting together rests on. `SdkAssumption` is syntax. `UseAssumption`: structs are passed by pointer, and as results by an
argument named "out"; a struct that has one inside and is itself inside another is used like that one, and not in an array
(else the single pass at `type.py:340` comes too early for what it has inside); elements of an array that are not arguments
themselves hold no arrays of texts or handles. `CallbacksAssumption`: one declaration for a callback, which is the last
argument (`_get_callback_type_of_method` looks at no other). `MethodsAssumption`: out arguments come last, what is not
deprecated uses nothing deprecated. `ArgumentsAssumption`: methods have names of their own; only structs called options are
passed in (the code passes the last options for any other); an out argument is neither the handle nor a callback and points
to something; notifications have none. `BasesAssumption`: the buffer of a text and data are no bools. `FieldsAssumption`:
fields have names of their own; the version and the local user are no arrays, a union is there by value and with its type;
what is named like the count of an array is a number that is neither deprecated nor an array, and of two arrays whose names
begin with the same word each has a count that `_is_similar_field_name` finds like it and not like the other. (Where no
count is found at all the code asserts, which is in the model.) `InfosAssumption`: an info is inside no struct, and one that
holds a struct or handles is kept or has too many fields to be taken apart (`_gen_callback` would write a conversion nobody
asked for). TLC evaluates all of them for the run's 524 SDKs, which have a struct in a struct in a struct among them.

The installed provers have no schema for induction over data, and the recursive functions here run over numbers: the index
a loop has come to, the elements put together so far. Of the numbers at which a statement about them fails there is a least one
(`LeastExists`, from the well-foundedness of the naturals), and `Upward` and `Downward` turn that into induction for a set
of numbers. `StartsExist` and `FlattenExists` show that the functions that `Starts` and `FlattenSeq` choose exist, step by step;
`FirstTrueIs` says what an elif chain comes to.

Only model-checked: liveness (`SdkQueueDrains`, `ClosedIsUnregistered`), which is beyond the prover, and `RemoversExist`, which
would follow from nothing weaker than itself: which methods an SDK has is not for the code to say.

What the theorems do not reach, as an assumption excludes it and the code gets it wrong: a struct inside one that is itself inside
another and is used more widely (`UseAssumption`, `type.py:340`: a conversion that is called is missing), two arrays with a
count that is like both (`WellNamed`: one gets the other's length), a callback that is not the last argument
(`CallbacksAssumption`: its signal is not declared). The hazards in `PROJECT.json` say so at their lines.

## 7. Not modelled

* **SDK call support, notification and file transfer helpers** (`core/`): templates over engine objects. Their hazards (the plain
  pointer in client data, the answer to the pre-logout callback) are listed in `PROJECT.json`; the state in question is the
  reference counts and the object database of the engine, not of this code. The tick and `is_null` are in the models that
  use them.
* **Data classes, module registration, editor plugins, demo:** no state that could be checked.
* **Enums, unions, the all-in-one header and the documentation processor:** each is a text written from one declaration that
  nothing else in the output depends on.
* **Within the multiplayer classes:** packet contents, sizes, channels and transfer modes; signals other than
  `peer_connected` (their handlers are assumed to call nothing); the `interrupted` callback and the getters, which change
  nothing; relays, NAT queries and the SDK's own packet queue limits.
* **Within the generator:** lexical details inside one declaration (fields, comments, `#if`), spelling of the C++ and GDScript
  names, variant unions, the wording of declarations, bindings and getters, and the methods with code of their own
  (`EOS_Platform_Create`, `EOS_Logging_SetCallback`, the pre-logout notification, the file transfers).
* **Within the build:** compiler options, targets, and the copying of libraries.
