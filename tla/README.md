# RODECaster protocol: a verification project

`src/` is a Rust crate that speaks the control protocol of RODECaster audio
consoles over USB and TCP. A console publishes its state as a JUCE `ValueTree`;
it sends the whole tree once (`fullSync`) and afterwards one frame per change.
A node of the tree has no stable identity on the wire: it is named by its
*path*, the sequence of positions from the root down. Nearly everything that can
go wrong follows from that. A path means what it means only in the tree it was
made for, and the tree changes while frames and commands are in flight.

This directory holds TLA+ models of the crate and its two clients, the TLC
configurations that check them, and proofs that TLAPS checks.

## 1. Inventory

### 1.1 Components

| component | source | state it keeps | operations |
|---|---|---|---|
| address map | `layout.rs` | the runs, containers and singletons found in one tree | `from_full_sync`, a path function and its inverse per family |
| capabilities, vocabulary | `capabilities.rs`, `names/core.rs` | faders, sources, mixes and counts of one layout | `discover`, `Fader::to_index` / `from_index` |
| protocol session | `session.rs` | `Option<Layout>`, `Option<DeviceCapabilities>` | `ingest`, `encode`, `reset` |
| event decoder | `events.rs`, `names/` | none | `decode_event`, `decode_property`, `extract_initial_state` |
| command encoder | `commands.rs`, `names/` | none | `encode`, one target per command |
| change frame codec | `change_frame.rs`, `juce_var.rs`, `valuetree.rs` | none | `decode`, `encode_property_changed`, `encode_full_sync` |
| TCP framing | `frame.rs` | the caller's buffer | `Packet::to_bytes`, `scan_frame`, `frame_payload` |
| USB framing | `usb.rs` | the caller's buffer | `Packet::to_bytes`, `scan_frame`, `Packet::from_bytes` |
| triggers | `trigger.rs` | none | the press and release values, and their inverse |
| USB monitor | `examples/usb_monitor.rs` | a session, an open device | one loop: read, ingest, print |
| interactive client | `examples/cli.rs` | two mutexes (layout, tree), a transport, the lock of the standard input | a reader thread and a prompt thread; the lines of the prompt |
| console | not in the repository | the tree | announces changes, answers the handshake, carries out writes |

### 1.2 Interactions

    console --bytes--> framing --payload--> change frame codec --frame--+
                                                                        |
                     application <--events / NeedsFullSync-- session <--+
                          |                                     |
                          +--command--> session.encode -- uses -+--> Layout
                                             |
    console <--bytes-- framing <--frames-----+

The session is a passive object: the client calls `ingest` for every payload,
and must itself send a handshake when `ingest` returns `NeedsFullSync`, and call
`reset` when the connection goes away. The USB monitor is such a client, which
stops at the first error. The interactive client has no session: a reader
thread stores layout and tree in two mutexes, and the prompt encodes through
the layout it finds there. Between client and console there is one FIFO queue
per direction (a TCP stream, or the reports of one USB endpoint).

### 1.3 What is hard

* **Stale maps.** The tree changes between a property change and its delivery,
  between two frames of a command, between encoding and arrival.
* **Resynchronisation.** After a structural change nothing but the client's
  handshake makes the console send the tree again; frames that arrive in between
  have no map.
* **Run arithmetic.** A family is the first unbroken run of equally named
  siblings; runs are split, saturate at 255, live under containers of the same
  name as a singleton; the mix matrix is a run that is cut into rows.
* **Locks.** The interactive client stores layout and tree one after the other,
  and drops the lock before it writes; `dump-cell` holds both; the loop over the
  prompt's lines keeps the standard input locked.
* **Precedence.** `decode_property` is a long sequence of rules whose order
  decides what a property name that several families share is reported as.

### 1.4 What makes each component correct

* Address map: no address is routed to a foreign node, no path is attributed to
  a foreign node, the two directions are inverse, families are disjoint.
* Session: the map in use is that of the topology the client was last told of; a
  stale map is announced to be so; the client gets back to a current map.
* USB monitor: prints nothing under a wrong name, never waits for a sync nobody
  asked for, ends or catches up.
* Interactive client: its two stores agree, `dump-cell` shows the cell the layout
  addresses, what it misattributes is due to a change it was told of, neither
  thread keeps the other out, and no line typed reaches a node it does not name.
* Events and commands: an event names the node whose property changed, a command
  reaches the node it names, and the echo of a command names what the command
  named.
* Codecs and framing: a payload that is cut into chunks arrives whole and once;
  after a desynchronisation the next frame is found.

## 2. Plan

| order | modules | contents | state |
|---|---|---|---|
| 1 | `Layout`, `Topology`, `LayoutProps`, `MCLayout` | address map, reference definition, every reachable tree | done |
| 2 | `Capabilities`, `Session`, `Console`, `Link`, `AddressBook`, `LinkProps`, `MCLink` | session in a client, its console, the abstract promise | done |
| 3 | `AddressProofs` (its part on trees), `LinkProofs` | the link's invariants and refinement | done |
| 4 | `UsbMonitor`, `MCUsbMonitor` | the monitor as a client of a session | done |
| 5 | `Cli`, `CliProps`, `MCCli` | the interactive client's threads | done |
| 6 | `Vocabulary`, `Events`, `InitialState`, `Commands`, `EventProps`, `MCEvents`, `MCDuo` | rules of the decoder in order, targets of the commands | done |
| 7 | `ReliablePipe`, `TcpFraming`, `UsbFraming`, `Transport`, `MCTransport` | chunks, desync, resync, lost reports | done |
| 8 | `ChangeFrame`, `CodecProps`, `MCChangeFrame` | frames and values byte by byte | done |
| 9 | `Commands` extended, `CommandLine`, `LineProps` | the commands that ask no layout; which command a typed line stands for, and where it ends up | done |
| 10 | `Cli` extended | the three locks, the probing commands, the question of `power` | done |
| 11 | `ChangeFrame` extended | trigger pulses, the fixed frame of `ScreenTouched` | done |
| 12 | `AddressProofs`, `EventProofs` (its part on the layout) | for every tree: paths and addresses agree, families are disjoint | done |
| 13 | `ConsoleProofs`, `MonitorProofs`, `CliProofs` | the invariants of 4 and 5; events and writes of 2 | done |
| 14 | `FramingProofs` | framing and its inverse, and the safety of the reliable pipe, for every magic, report size and body | done |
| 15 | `EventProofs` | for every tree: events, initial state, commands, lines and the skipped setup | done |
| 16 | `CodecProofs` | for every string of bytes and any nesting: what is read, and that what is written is read again | done |

## 3. The modules

### 3.1 How they fit together

    Layout --- Capabilities --- Session ---+--- Link --- LinkProps
      |                                    +--- UsbMonitor   |  Book == INSTANCE AddressBook
    Topology --- Console ------------------+
      |              +--------------------------- Cli --- CliProps
      +--- LayoutProps --- LineProps
    Vocabulary --- Commands --- CommandLine --+
             +---- Events, InitialState --- EventProps

    TcpFraming, UsbFraming --- Transport --- FramingProofs
                                     (Pipe == INSTANCE ReliablePipe)
    ChangeFrame --- CodecProps --- CodecProofs

    AddressProofs --+--- EventProofs
                    +--- LinkProofs
                    +--- ConsoleProofs --- MonitorProofs, CliProofs

A lower layer reaches a higher one in abstracted form only: the clients take
frames as decoded, the transport takes payloads as sequences of bytes. That the
layers may be separated is what `transport` and `codec` establish: payloads
arrive whole and in order or not at all, and bytes are one frame or none.

### 3.2 Correspondence to the code

`PROJECT.json` gives the lines of every definition. In outline:

* **Layout** is a pure module. A tree is the sequence of the root's children, a
  node a record of its name, the names of its children and the five properties
  that discovery reads. Names of deeper nodes are never looked at by the code.
  `FromFullSync` is `Layout::from_full_sync`, with the empty set for each
  `BuildError`. `Option<T>` is a set of at most one element throughout.
  `PathOf` and `Resolve` gather the accessors of all families and their inverses.
  `U8Max` is where `u8` counters saturate.
* **Capabilities** has the vocabulary and `DeviceCapabilities::discover`, which
  searches the *whole* tree for the flags of the setup, depth first and beginning
  with the root's own properties (`FindProperty`). The properties of the root
  (`RootProps`), and what the search first meets at or below a child of a child
  (`KidProps`, by the kid's name), are constants: any node may carry any flag.
* **Topology** holds what the code does not: how a tree may change shape (one
  child added, removed or moved, the three structural frames) and
  `TrueAddress`, the logical address a node has by its name and by how many
  siblings of that name come before it. The code computes addresses from runs
  and offsets; the reference does not. Nor does it use the layout's own lists of
  families: `Many`, `One` and `KeptIn` say where the console keeps the nodes of each
  name, as the captured tree, the tests and the decoder have it. The tables
  differ in three families, `STORAGEVOLUME`, `RADIOTX` and `WIFISCANRESULT`, which
  the console keeps in `SYSTEM`, `RADIO` and `NETWORK` and the layout seeks under the
  root alone; `OutOfReach` names the nodes concerned.
* **Session** has one operator per method. `Ingest` changes the state, `Update`
  is the value returned (a `SessionUpdate` or the name of a `SessionError`).
* **Console** is external. It keeps every tree it has had, sends one structural
  frame per change or a whole new tree, and reports properties, undecodable
  payloads and echoes. Its queues are FIFO, as a TCP stream and one USB endpoint
  are. A stamp `at` on each message, read by no code, records which topology it
  speaks of.
* **Link** is the client that `session.rs` describes; **UsbMonitor** is
  `usb_monitor.rs`, where every error ends the process; **Cli** is `cli.rs`, with
  a reader thread that stores layout and tree in two steps, each under its lock,
  and locks the layout once more to announce it (`HandleBody`, `StoreRoot`,
  `Announce`), and a prompt thread that encodes in one step and writes frame by
  frame afterwards (`Encode`, `WriteFrame`). `held` says who has each lock; a lock
  that is taken and released within one action shows only in its guard.
  `DumpLayout`, `DumpRoot` and `Dumped` are `dump_cell`, which holds two locks at a
  time; `AskForYes` is the question of `power`, whose answer is read from a
  standard input that the loop has locked.
* **CommandLine** is the set of commands that the lines at the prompt stand for,
  with what each `parse_*` accepts; **LineProps** asks where they end up.
* **Events** gives `decode_property` as the list of its rules in their order
  (`Rules`), each a set of the events it makes of a node, a property name and a
  value that is of the expected kind, of a wrong kind, or removed. **InitialState**
  is the walk of `extract_initial_state` with its own counters. **Commands** has
  the target and the frames of each command, whether it is refused, and the paths
  of CallMe requests, which are a number and ask the layout nothing. Which
  `EncodeError` a refusal carries is not modelled. **Vocabulary** has the
  name tables, cut down to representatives and to every name two families share.
* **TcpFraming** and **UsbFraming** have the scanners and the reader loops of the
  interactive client. The stream keeps every byte or report ever written, `read`
  says how far it has been read and `pos` how far it has been drained, so that a
  buffer is a window on the stream. The four bytes of a length are one cell.
  `starts` is a history variable: where in the stream each message was written.
  Only properties read it. Two things are assumed of the operating system: a read
  of the HID device returns exactly one whole report, and a TCP read any part of
  the stream. The USB loop would append a shorter read just the same
  (`cli.rs:260-266`) and be out of step by the difference from then on.
* **ChangeFrame** reads and writes frames byte by byte. A reader takes the data and
  a position, and either got something and says where it ended (`Got`) or got
  `Nothing`; `Then` is the code's `?`. Values hold values and nodes hold nodes: what
  recurses in the code is a function of how deep things may nest, `Reading[depth]`
  and `Writing[depth]`. `Decode` allows as deep a nesting as the frame has bytes,
  which is no restriction: whatever nests takes a byte of its own. Writing goes by
  the depth of what is written. The module holds the two values of a trigger
  (`trigger.rs`) and the fixed frame of `ScreenTouched` too. **CodecProps** has what
  is asked of it: its one variable of interest, `payload`, is a string that grows
  byte by byte, so that its states are all strings over an alphabet behind some
  beginnings.

## 4. Runs

| run | question | distinct states |
|---|---|---|
| `layout` | do addresses, paths and nodes agree in every tree of the required families, and does every typed line reach what it names? | 610,156 |
| `events` | do events, initial state and commands agree on which node is meant, also where a container is a singleton, or families share names? | 493,551 |
| `link` | is a session's map ever of the wrong topology, and does it recover? | 133,598 |
| `monitor` | can the monitor print a wrong name, or wait for nothing? | 22,120 |
| `cli` | where is the interactive client's map right, does refresh repair it, do both threads go on? | 72,822 |
| `transport` | does every payload arrive whole, and does the reader get back into step? | 99,430 |
| `codec` | is a cut or padded frame ever taken for another; does what is written arrive? | 1,007,766 |

Five more runs, `duo_commands`, `duo_assignments`, `monitor_claim`, `cli_claim`
and `power`, each check one sentence of the repository that the code does not
keep; section 7 discusses them.

### 4.1 Bounds, and why they are enough

* `MaxNodes` 4 to 6, `MaxKids` 1 to 2: a run can be empty, grow, be split in two
  by a foreign node, and the container of a nested run can be absent or double.
  Address arithmetic is the same for each family of a kind, so the trees hold one
  or two families of each kind.
* `MixPerSource` 1 or 2 (13 in the code): with 2 a mix run may be a broken row.
  `U8Max` 2 or 3 (255): runs really do reach the limit and go past it.
* `MaxTopologies` 2 or 3: one change, or a change overtaking the answer to the
  handshake another one caused. `MaxInbox`, `MaxOutbox` 1 to 3 are guards on the
  sender; they let a full sync, a structural frame and a property overtake each
  other in every order. `Cli.cfg` has room for one message when a command is
  typed, but a command of three frames is written whole.
* `CallMeOffset` 4, as in the code, with `U8Max` + 1 as the weight of the source
  (256 in the code): the sources are 0 and 1, and 1 is the CallMe. A request for
  it lies past the end of the largest tree, and one for source 0 may lie inside,
  just as 16 * 256 + 4 lies past every console's tree and 4 does not.
* `SetupRoot` and `SetupKids` in `MCEvents`: the root carries one of the two flags
  that count together and every `RECORDING` the other, `SYSTEM` the flag that counts
  by itself. So the search finds flags before, at and behind the node that is
  written to, at every level, and that node may be missing.
* `EchoStride` 2 (6 in the code): as far from a run as a small tree allows. The
  two Duo runs use the real numbers and the captured tree, run by run, and are
  settled by that tree itself, their first state.
* `Transport.cfg`: three messages, reads of up to three bytes against headers of
  three, reports of two cells, one lost report. Payloads contain a magic, a
  length and zeros, are empty, fill a report to the end, and need up to three
  reports; streams begin with half a magic, a false magic and left-over
  reports.
* `ChangeFrame.cfg`: each of the beginnings in `Openings` is followed by up to six bytes of a
  small alphabet in which every byte has a part as a size, a sign, a NUL, a
  marker or a change type. Compressed integers have up to 2 bytes instead of 4
  (`IntBytes`), and eight byte numbers 2 (`LongBytes`).

Every bound is a constant that a guard names. Deadlock is not checked where a
system may stop: in `ChangeFrame.cfg` and `Transport.cfg` the bound on what is
sent ends every behaviour; in `Cli.cfg`, `CliClaim.cfg` and `Power.cfg` the user
may quit, which ends the process.

### 4.2 Fairness

* The reads of session and monitor (`Receive`) and of the framings
  (`Transport!Reader`) are weakly fair: they are loops that do nothing else.
* The interactive client's reader (`HandleBody`, `StoreRoot`, `Announce`) is strongly
  fair: it may wait for a lock that the prompt takes again and again, and a
  mutex lets it in at last. The prompt's own steps, once begun (`DumpRoot`,
  `Dumped`, `WriteFrame`), are weakly fair, and a user who is asked answers.
* The console's `AnswerHandshake` and `CarryOutWrite` are strongly fair: it serves
  what it is sent even if its own reports keep filling the bounded queue to the
  client, which disables them again and again. This is an assumption about the
  device.
* Nothing makes a console change or report, a user type, or a connection fail.
  Changes of shape are bounded by `MaxTopologies`, so "in the end" means after
  the last one.
* No fairness helps a thread that waits for a lock it holds itself (`power`).
* `Resynchronises` is conditional on a connection that stays up, and
  `RefreshRepairsTheMap` ends where the transport fails.

### 4.3 What the runs show

* **Routing.** In every tree, an address that encodes does so to the node it
  names, a path that resolves does so to what the node is, the two are inverse,
  and no path belongs to two families. Past the 255th node of a run there is no
  address rather than a wrong one (`ResolvedPathsAreTrue`). No typed line reaches a
  node it does not name; a CallMe request reaches none only because the prompt
  refuses every other source (`LinesReachOnlyWhatTheyName`).
* **Stale maps.** A session's map is that of the topology its client was last told
  of; a ready session with an outdated map has the announcement on its way; a
  write that goes astray was encoded before the client heard of a change. The
  interactive client keeps a weaker promise: its map is of the last full sync
  it accepted (`StoresAgree`), right until a structural frame it ignores
  (`EventsAreRightUntilAChange`), and repaired by `refresh`.
* **Locks.** The reader never holds one store while it waits for the other, so the
  two locks of `dump-cell` cannot close a circle
  (`NeitherThreadStaysLockedOut`).
* **Resynchronisation.** No order of structural changes, full syncs and
  handshakes leaves a session without a map for good. The monitor never waits
  for a sync nobody asked for, but it ends with `NotReady` when a property report
  is still on its way behind a structural change, and only then
  (`DiesUnreadyOnlyInAResync`).
* **Precedence.** The order of the rules in `decode_property` does not matter for
  properties that the nodes at hand carry, and full sync and incremental events
  name the same nodes. Two things are left out, because the decoder cannot tell
  them apart:
  * a `channelInputSource` on a node that is no named channel, but stands a
    multiple of the echo stride behind the first channel, is taken for the echo
    of an assignment (`EchoedElsewhere`), whether the node has anything to do
    with channels or is a channel past the last one with a name;
  * a `faderLevel` below any node but the first `PHYSICALINTERFACE` is taken for a
    meter's, whatever node carries it (`TakenForMeter`).
* **Commands.** A command is refused exactly when its node is not within reach
  (`RefusedMeansOutOfReach`): when there is none, when it lies past a full counter,
  or when it is kept in a container where the layout does not seek its family.
  The echo of a command names what the command named for the families that the
  layout resolves and for singletons; where the decoder reads the ordinal off the
  path, exactly if the run starts its parent; and for a volume never, because
  its root path is one step long and volumes are heard of below a node
  (`EchoNamesTheCommand`). On a real console some of this goes wrong: see
  `duo_commands` in section 7. `SetupSkip` ends the setup exactly if the search for
  the flags does not find them before it comes to `SYSTEM`; with no `SYSTEM` to write
  to, it is encoded all the same and changes nothing
  (`SetupSkipLeavesSetup`).
* **dump-cell.** It counts all `MIX` nodes of the tree and the layout only the first
  run. For a source the layout has, both name the same node; for one past those,
  where the layout refuses, `dump-cell` prints a node of a later run as if it were
  the cell (`DumpShowsTheCell`). The first run of the captured Duo has all nineteen
  sources; on firmware where CallMe sources sit past it (`core.rs:284-286`) they
  would be looked for in the later run of 143 nodes that the same tree has.
* **Transport.** Both framings implement a reliable pipe until a report is lost, a
  false magic or a left-over report misleads the reader, or the connection ends.
  Even then a reader that stands at the start of a message delivers it and is in
  step from there on. The USB reader never waits for more reports than the
  longest message has; the TCP reader has no such cap.
* **Codec.** No frame is the beginning of another. What was read, with whatever
  length frames, is written back as a frame that reads the same, if it was less
  than a third of what a length can say (`ReencodedFramesSurvive`): a value of
  length 0 is one byte and is written as three, and the writer keeps only the
  four lowest bytes of a length (`juce_var.rs:185`), so that beyond 1.4 GiB a
  frame might not come back. A value that is written arrives, but for an integer
  beyond 32 bits, which is cut, and a text's NULs at its end; a blob is a button
  pulse exactly if it is two booleans as they are written
  (`WrittenValuesArrive`).

## 5. Proofs

All of these hold for every set of nodes, every initial tree, every `U8Max` and
`MixPerSource`, every magic, report size, body and beginning of a stream,
every string of bytes, and every bound. The assumptions are those declared with the
constants (`LayoutAssumption`, `TopologyAssumption`, `InitialTreeAssumption`,
`ConsoleAssumption`, `NamedSourcesAssumption`, `LinkAssumption`,
`CommandsAssumption`, `TransportAssumption`, `EchoStrideAssumption`,
`CallMeOffsetAssumption`, `CallMeSourcesAssumption`, `CallMeAssumption`,
`RootAssumption`, `KidAssumption`, `WidthsAssumption`, `BytesAssumption`); TLC
evaluates each of them in a run. Fairness is not used. One of them is about the
console rather than about a constant's type:

* `CallMeAssumption`: the number of a CallMe request lies past the last child of
  the root. It is at least 16 * 256, and no console has as many nodes.

| module | theorem | statement |
|---|---|---|
| `AddressProofs` | `EditsAreTrees` | a structural change makes a tree of a tree |
| | `EncodedPathsAreTrue` | an address that has a path is that of the node there |
| | `ResolvedAddressIsTrue` | a path resolves to the address of the node there, or to nothing |
| | `TrueAddressIsResolved` | a node's address is found, unless its run's counter is full |
| `EventProofs` | `LayoutTypes` | `Spec => []TypeOK` |
| | `CommandsReachTheirNode` | `Spec => []EncodedPathsReachTheirNode` |
| | `EventsResolveToTheirNode` | `Spec => []ResolvedPathsAreTrue` |
| | `NoPathIsOfTwoFamilies` | `Spec => []FamiliesAreDisjoint` |
| | `EventsNameTheirNode` | `Spec => []EventsNameTheNode` |
| | `RulesDoNotCompete` | `Spec => []PrecedenceIsImmaterial` |
| | `CarriedIsReported` | `Spec => []CarriedPropertiesAreReported` |
| | `InitialStateAgrees` | `Spec => []InitialStateAgreesWithEvents` |
| | `RefusedOnlyOutOfReach` | `Spec => []RefusedMeansOutOfReach` |
| | `EchoNamesItsCommand` | `Spec => []EchoNamesTheCommand` |
| | `LinesStayOnTarget` | `Spec => []LinesReachOnlyWhatTheyName` |
| | `SetupSkipWorks` | `Spec => []SetupSkipLeavesSetup` |
| `LinkProofs` | `LinkTypes` | `Spec => []TypeOK` |
| | `LinkOrder` | `Spec => []FramesInOrder` |
| | `LinkMap` | `Spec => []MapIsOfToldTopology` |
| | `LinkAnnounced` | `Spec => []StaleMapIsAnnounced` |
| | `LinkRefinesAddressBook` | `Spec => ImplementsAddressBook` |
| | `LinkEvents` | `Spec => []EventsNameTheRightNode` |
| | `LinkWrites` | `Spec => []StrayWritesCrossAChange` |
| `MonitorProofs` | `MonitorTypes` | `Spec => []TypeOK` |
| | `MonitorIsNeverDeaf` | `Spec => []SyncIsUnderWay` |
| | `MonitorNamesNodes` | `Spec => []PrintedEventsNameTheRightNode` |
| | `MonitorDiesInAResync` | `Spec => DiesUnreadyOnlyInAResync` |
| `CliProofs` | `CliTypes` | `Spec => []TypeOK` |
| | `CliStores` | `Spec => []StoresAgree` |
| | `CliDumps` | `Spec => []DumpShowsTheCell` |
| | `CliEvents` | `Spec => []EventsAreRightUntilAChange` |
| | `CliFrames` | `Spec => []StrayFramesAreOfAnOldMap` |
| `FramingProofs` | `UsbMessagesRoundTrip` | a message in reports is found whole at the front of a buffer, and put together as it was |
| | `TcpFramesRoundTrip` | a frame is found whole at the front of a buffer, with its length and its payload |
| | `TransportTypes` | `Spec => []TypeOK` |
| | `TransportIsBounded` | `Spec => []BufferIsBounded` |
| | `TransportStaysInStep` | `Spec => StaysInStep` |
| | `TransportRefinesPipe` | `Spec => Pipe!Safety` |
| `CodecProofs` | `CutChange` | a frame read from a part of the data is read from the whole, and ends where it did |
| | `ReadingRewrites` | whatever was read is written as at most three times as many bytes, which are read as it wherever they stand |
| | `CodecTypes` | `Spec => []TypeOK` |
| | `FramesDelimitThemselves` | `Spec => []FramesAreSelfDelimiting` |
| | `ReencodingSurvives` | `Spec => []ReencodedFramesSurvive` |
| | `WritingArrives` | `Spec => []WrittenValuesArrive` |

**Addresses.** The code finds a run by its first node and a saturating count of
the unbroken ones behind it; the reference counts siblings of a name in the
tree. `ConsecutiveCounts` says what the count is, and the two lemmas
`RunsHoldTheirSiblings` (the k-th node of a run is the k-th of that name) and
`SiblingsAreInTheirRun` (a node of the first unbroken run of its name is counted in
it, at its distance from the first) bring the two together. From there each kind of
address (run, singleton, nested run, cell of the mix matrix) has one lemma per
direction. The mix matrix adds that a run cut into whole rows gives each cell
one row and one column (`CellsInRows`, `RowsFit`). For the layout's own properties the inductive
invariant is only that the tree is a tree within its bounds: the rest holds of
each tree by itself. `NoPathIsOfTwoFamilies` follows from the reference: a path
that two families claimed would have two true addresses, and a node has one.

**Events and commands.** The decoder's rules are tried in order, and each asks
only for the name of the property and for what the layout says of the path. The
order is immaterial for two reasons. The tables of names are disjoint but for a
few names that are listed (`TablesAreDisjoint`, by one function `Owner` from names to
families), so a property that a node carries is known to the rules of that
node's family, or to the few in `KnownElsewhere`. And of a node there is one thing
to say: `Sayable` is the set of what could be said of a path, `SayableIsOne` that
it has at most one element, and `RulesSayOneThing` that every rule says one of
these or nothing. `EventsNameTheirNode` and `RulesDoNotCompete` follow. That something
*is* said takes one lemma more (`SomeRuleKnows`), from which `CarriedIsReported`.

The walk over a full sync counts siblings on its own and never asks the layout.
`WalkAgreesAtTop` and `WalkAgreesBelow` show its counters to be the reference's
ordinals, wherever a run has an address at all, and its result is then what the
decoder reports. For the commands, `CommandForms` lists what a command may name
and what it writes, `FramesAre` the frames it becomes, and `TargetsAreNamed` says
that what can be addressed has a name the events use. `RefusedOnlyOutOfReach` and
`EchoNamesItsCommand` join them with the address theorems. For a family whose
ordinal is read off the path, the position in the tree and the ordinal agree,
cut to a `u8`, exactly if the first position is cut to 0 (`Remainders`). `LinesStayOnTarget` does the
same for a typed line; a CallMe request has no target in the layout, and
`RequestsReachNothing` uses `CallMeAssumption`.

For all of these the inductive invariant is that of the layout. `SetupSkipWorks`
follows the search: a node that was written to says no (`FlagsAfterwards`), and a
search that says no at some place finds what it would have found before it
(`SearchStops`). What the nodes before `SYSTEM` may carry is left open.


**The link.** The inductive invariant is
`Inv == TypeOK /\ FramesInOrder /\ MapIsOfToldTopology`. `MapIsOfToldTopology`
alone is not inductive: that the next full sync carries the tree of the
topology the client will then have been told of is a fact about the frames in
flight. `FramesInOrder` says it: read from the front, the stamps of the queue
only grow; a frame that announces nothing has the stamp of the frame before it
(or of what the client last saw); the last stamp is the console's present one;
and a full sync carries the tree of its stamp. One lemma per shape of step keeps
it: a report joins the queue (`ReportKeepsInv`), an announcement joins it
(`AnnouncementKeepsInv`), the first frame leaves it (`ReceiveKeepsInv`). None of
them opens discovery. With the address theorems, `LinkEvents` is then a
consequence; `LinkWrites` needs one invariant more, that every write in flight
was true to the tree of its stamp (`WritesMean`).

`AddressBook` is the abstract promise: a client is told of topologies in order,
and its book is empty or the map of the one it was told of last. With `told`
mapped to `seen` and `book` to `layout`, every step of the link is a step of the
address book or leaves it alone.

**The monitor and the interactive client.** Both read from the same console, so
`ConsoleProofs` states the order of the frames once, for any reader, as `InStep`,
and shows what each step of the console and of a reader does to it. The
monitor's invariant adds the map, `SyncIsUnderWay`, and `FullSyncComesFirst`: before
the first change a monitor without a map has the full sync right before it.
`MonitorDiesInAResync` needs that to rule out the tree the monitor began with.
The interactive client's invariant adds that its two stores agree and that
frames, both those on their way and those still to be written, were true to
the topology the map was of when they were encoded (`Mean`).

**The framings.** That cell `k` of a message is in report `k \div ReportPayload`
and no other (`CellInReports`) makes the USB round trip; that a frame starts with
its magic and its length (`MagicComesFirst`, `FrameHeader`) makes that of TCP. From
there on the two readers are treated as one: `StepsOfBoth` names the six steps either can take,
`ScanTells` what a scan says of the buffer, and `FrontIsRead` that a message at
the front of what was not drained is waited for and then taken as it is.
`TransportStaysInStep` needs no more than that, and so holds of a reader that
was misled too. `TransportRefinesPipe` does need more: that a reader which was not
misled is always *at* the message it has to deliver next. `PipeInv` says so. As
long as no report is lost, messages stand one behind the other from where `starts`
says (`Located`); and a reader that is not led astray is still before the first
message, or exactly at the first it has not delivered (`InPlace`). The one hard
step is the first message: a reader that finds a whole frame in what the stream
began with has found a false magic, or a left-over report that looks like a
length, and that is what being led astray means (`NothingBeforeTheFirst`).

**The codec.** That what recurses does so by a function of a number lets it be
unfolded: `RecursionUnfolds` shows once that such a function is what its rule
says, and `ReadingIs`, `WritingIs`, `ThingsAre`, `ReadListIs` and `DigitsAre` are its uses. From
there every proof about nesting is an induction on the depth, stated as a set
that holds 0 and, with a depth, the next (`Counting`). There are three ladders,
each climbed by the same rungs: compressed ints, strings, counted lists, values,
properties, nodes.

* `Reads` (what a reader yields, and that it ends within the data) and
  `ReadsTheSame` (the same bytes elsewhere, behind other bytes, with more room to
  nest, are read the same) make `CutChange`: a reader heeds only the bytes it
  reads. A payload is a frame if the reader ends where the payload does, so no
  beginning of it is one too, and `FramesDelimitThemselves`. `CodecTypes` takes from
  `Reads` that an index of a path has no sign and at most `IntBytes` bytes.
* `Arrives` says that a thing is read wherever the bytes it was written as stand,
  and `Rewrites` that whatever a reader yields arrives. Neither climbs by itself:
  to know that the length of a value fits its length frame one must know how
  many bytes its items became. `Short` bounds that by three times what was read,
  for each rung, and `Room` is the precondition of `ReencodedFramesSurvive` for a
  part of the data. `ReadingRewrites` is the whole of it, at any depth, and
  `ReencodingSurvives` puts the path and the name in front.
* `WritingArrives` is about values the client makes: blobs, texts and integers of
  any length, for which only the two lowest rungs are needed; and it opens
  `ScreenTouched` byte by byte (`ScreenTouchedIsNoFrame`).

The state of `CodecProps` is a string of bytes and nothing else, so the inductive
invariant says no more than that; what the codec makes of a string holds of
each by itself. `WidthsAssumption` has compressed ints of one to four bytes:
the size of a compressed int shares its byte with a sign.

## 6. What is only model-checked, and what is not modelled

Only model-checked: liveness (`Resynchronises`, `EndsOrCatchesUp`,
`RefreshRepairsTheMap`, `NeitherThreadStaysLockedOut`, the fairness of
`ReliablePipe`), which is beyond the proof system, and the five sentences of
section 7, which are refuted. Every safety property that a passing run checks is
proved.

Not modelled:

* what a value contains (a parsed level, a colour, a label) beyond its being of
  the expected kind; in the codec, UTF-8 beyond ASCII and the meaning of eight
  byte numbers;
* names outside the tables (`Other`), and the representatives' siblings;
* firmware strings, jack counts, labels and icons of `capabilities.rs`;
* the search for the device, the texts and the printing of the interactive client;
* test fixtures and the offline sanitiser, which are no part of the running system.

## 7. Disagreements between the code and what is said of it

* **`monitor_claim`.** `usb_monitor.rs:55` treats a change of layout as a matter of
  asking again, but any error of `ingest` ends the process, and a property frame
  that was sent between the structural change and the answer to the handshake is
  such an error (`NotReady`).
* **`cli_claim`.** `cli.rs:332-333` says that change frames decode against an
  up-to-date map. Structural frames are printed and otherwise ignored, so that
  until the user types `refresh` every event behind the change may be reported
  under another node's name.
* **`duo_commands`.** `round_trip.rs:3-12` says that every command survives the way
  to the console and back "with the original logical address". On the captured Duo
  tree many do not. A mix preset or a stream mix is written to position `first + n`
  of the root and reported as number `first + n`, cut to a `u8`
  (`events.rs:769-788`). Commands for volumes, transmitters and scan results are
  refused, because the layout seeks these under the root (`layout.rs:390-393`),
  while the tree keeps them in `SYSTEM`, `RADIO` and `NETWORK`, from where the decoder
  reports them (`events.rs:653`, `816`).
* **`duo_assignments`.** The echo of an input assignment arrives at six times the
  channel's number. The decoder tries the plain number first, so the echo for
  channel 1 is reported as that of channel 6.
* **`power`.** `cli.rs:501` asks for `yes`. The answer is read with
  `io::stdin().read_line` (`cli.rs:504`) inside the loop
  `for line in stdin.lock().lines()` (`cli.rs:412`), which has locked the standard
  input; the lock is not reentrant, so the prompt never comes back. The run
  assumes that the user answers.

Beyond these, the fixed frame of `ScreenTouched` (`commands.rs:49-57`) is
documented as a change of a property of node 1. By the library's own codec the
bytes are no frame at all, which `WrittenValuesArrive` says. They are captured
traffic, so this is listed as a hazard and not as a finding. Two more sentences
were met that no run checks. `names/meter.rs:17-18` says that the paths of meters
never match those of faders; on the captured Duo the meters are children of
`PHYSICALINTERFACE`, where `events.rs:711` does not look for them, so that no change
of one is reported. And `commands.rs:845-848` says of `MissingNode` that the whole
family is absent; an index past the end of a run that is there gets it too
(`commands.rs:84-91`).
