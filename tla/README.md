# TLA+ specifications of ipcprobe

ipcprobe finds IP cameras on a network segment over a UDP multicast protocol and gives them a new
network configuration. This directory holds its specification: TLA+ modules translated from the code,
the TLC configurations that check them on small instances, and proofs, checked by TLAPS, of what holds for
every instance. Paths are relative to the repository.

- [Inventory](#inventory)
- [Modules](#modules)
- [Abstractions](#abstractions)
- [Runs](#runs)
- [Fairness](#fairness)
- [Proofs](#proofs)
- [Where the code and the documentation disagree](#where-the-code-and-the-documentation-disagree)
- [Not modelled](#not-modelled)
- [Plan](#plan)

## Inventory

| Component | State | Operations | Talks to |
|---|---|---|---|
| Two multicast groups (`mhed.go`, sockets in `discovery.go`, `fakecam.go`) | receive buffers of the operating system | send, receive, drop | everything below |
| `fakecam.Camera` (`internal/fakecam/fakecam.go`) | `dev`, `seen`, `log` under `mu`; `done`, `rx`, `wg` | `Start`, `announceLoop`, `commandLoop`, `Device`, `Received`, `AppliedLog`, `Close` | GroupTX (reads), GroupRX (writes) |
| `cmd/fakecam` | its camera | wait for a signal, report, `Close` | `fakecam.Camera` (three calls under three locks) |
| `discovery.Conn` (`internal/discovery/discovery.go`) | `rx` sockets, interfaces; `devices`, `acks` of a `Collect` under its `mu` | `Open`, `Probe`, `SendSet`, `Collect`, `Discover`, `Close` | GroupTX (writes), GroupRX (reads) |
| Interface selection (same file) | none | `Interfaces`, `Choose`, `whyUnusable` | operating system, the command line |
| `ipcprobe set` (`cmd/ipcprobe/main.go`) | request, deadline, `acked`, exit code | `cmdSet` | `discovery.Conn` |
| `ipcprobe list`, `show` (same file) | target, exit code | `cmdList`, `cmdShow` | `discovery.Conn` |
| `ipcprobe interfaces`, flags, password prompt (same file, `password.go`) | flags, password, the terminal's echo | `run`, `cmdInterfaces`, `parseFlags`, `maskToPrefix`, `broadcast`, `readPassword` | interface selection, codec, terminal |
| `mhed` codec (`internal/mhed/mhed.go`) | none | `BuildX`, `ParseX`, `EncodePassword`, `buildDate` | all of the above |
| `mhedpcap` (`cmd/mhedpcap/main.go`) | position, byte order, link types, packets read | `readCapture`, `udpFrame`, `list`, `show`, `diff` | codec, capture files |
| macOS app: `ProbeRunner` | two pipes, line collector, continuation | `run`, `runJSON` | the helper process |
| macOS app: `AppModel`, `SetNetworkSheet` | devices, selection, `isScanning`; sheet phase | `scan`, `refreshInterfaces`, `setNetwork` | `ProbeRunner` |
| macOS app: views, bundle | none of their own | rendering, packaging | `AppModel` |

What is hard about it, and what each part has to get right:

- **The camera** runs two goroutines on one record. An announcement is built under the lock and sent after it,
  an ack is sent before the lock is taken, and `Close` comes at any time. The log has to be exactly the accepted
  commands in order, a changed record has to be announced in the end, and nothing may happen after `Close`
  returned.
- **The connection** reads several sockets concurrently into one result, until a deadline, and leaves what is
  still buffered to the next `Collect`. No goroutine's result may be lost, newer has to replace older, and
  `wg.Wait` has to return.
- **`set`** has to infer from datagrams that may be stale, duplicated, lost or somebody else's whether one camera
  took one command. Its exit code is a statement about the camera; it must not send to a camera it has not seen,
  must leave other cameras alone, and has to stop in time.
- **The command line and the codec** are sequential, and hard at the edges of values: masks that end within a byte,
  fields that just fit, flags given twice or in another order, a terminal whose echo has to come back. Three places
  know the layout of a packet by constants of their own.
- **`mhedpcap`** reads files that are cut off, padded, or from a machine with the other byte order. It has to find
  each payload where it is and nowhere else, and to come to an end.
- **The app** runs the helper with pipes whose buffers are finite and handlers on several queues, and shows the
  exit code as a verdict.

`PROJECT.json` lists the hazards line by line with the properties that are about them.

## Modules

```
Wire ── Camera ── FakecamMain ────────────── MCFakecam      cmd/fakecam
  │        ├───── ListSession ────────────── MCList         list, show
  └ Conn ──┴───── SetSession ─ SetRefines ─ SetInvariant ─ MCSet   set
                               │ INSTANCE
                               SetPromise
Mhed ┬─ NetConfig ─ IfaceSelection ─ CommandLine ┐
     └─ Capture ─────────────────────────────────┴ PacketPath ─ MCPackets   bytes and values
ProbeRunner ──────────────────────────────── MCRunner       the app runs the helper
AppModel ─────────────────────────────────── MCApp          the app's state and sheet

Proofs: Network_proofs ─┬─ SetSession_proofs
        (lemmas)        ├─ ListSession_proofs
                        └─ FakecamMain_proofs
        SequenceLemmas ─┬─ FakecamMain_proofs
        (lemmas)        ├─ ProbeRunner_proofs
                        └─ PacketPath_proofs
        AppModel_proofs
```

**`Wire`**: the two groups. A datagram to GroupRX (`ToTools`) reaches any subset of the joined receive sockets, one
to GroupTX (`ToCameras`) any subset of the cameras; a full buffer drops it. Loss is the empty subset; duplication
is a subset of two sockets of one host, or a command sent on two interfaces reaching one camera twice. Each reader
sees its datagrams in the order they were delivered, late ones after the state they speak of has changed.

**`Camera`**: `fakecam.Camera`. Every section under `c.mu` is one step, and so is every send:

| Step | Code |
|---|---|
| `AnnounceRead` | `c.Device()` and `BuildAnnounce` |
| `AnnounceSend` | `c.send` of it |
| `AnnounceTick`, `AnnounceReturn` | the two arms of the `select` |
| `CommandReceive` | `ReadFromUDP` and the filters |
| `CommandAck` | `BuildSetAck` and `c.send` |
| `CommandApply` | `c.mu.Lock()` to `Unlock()` |
| `CommandReturn` | the read error on the closed socket |
| `CloseDone`, `CloseRx`, `CloseWait` | the three statements of `Close` |

**`FakecamMain`**: `cmd/fakecam`. A signal, the report's three reads, the deferred `Close`; `Init` starts the camera
as `fakecam.Start` does. `arrived` is history: what the camera's socket was handed.

**`Conn`**: `discovery.Conn`. `SendOn` is one turn of `send`'s loop and may fail, which is only remembered.
`CollectStart` starts one goroutine per joined socket; `CollectRead` and `CollectMerge` are a goroutine's read and
its section under the lock; `CollectTimeout` is the read that fails at the deadline; `Collected` is `wg.Wait`
returning. `now` and `until` are the clock and the deadline.

**`ListSession`**, **`SetSession`**: `cmdList`/`cmdShow` and `cmdSet`, composed with cameras, sockets, the clock and other
tools. `pc` names the place in the function; each `return` is a value of `outcome` (in `set`; `ExitCode` maps it to
the number) with the deferred `Close` as a part of the step. `Request` carries as flags the two things `cmdSet`
finds out about its arguments: `usage`, that one of the checks before the first socket fails; `ipv6`, that
`BuildSetNetwork` will refuse an address later.

**`SetPromise`** is what `set` promises, without sockets, datagrams or time; **`SetRefines`** is the mapping from a
session to it. **`SetInvariant`** holds the inductive invariants. **`MC…`** give the constants their values.

**`Mhed`** has every packet byte for byte: `BuildSetNetwork`, `BuildAnnounce`, `BuildSetAck` and what `ParseAnnounce` and
`ParseSetAck` take out again, the password's base64 in its field, `buildDate`, and the offsets at which the simulated
camera reads a command. **`NetConfig`** is what the arguments of `set` mean: `parseFlags` as a fold over the arguments,
masks and broadcast addresses, and the checks that come before the password (`Valid`). **`IfaceSelection`** is
`Interfaces`, `whyUnusable` and `Choose` over the operating system's interfaces.

**`CommandLine`** runs ipcprobe from its arguments to the packet:

| Step | Code |
|---|---|
| `Inquire`, `UnknownCommand`, `ListInterfaces` | `run` (`list` and `show` are `ListSession`'s), `cmdInterfaces` |
| `CheckArguments` | `cmdSet` up to the password |
| `DisableEcho`, `ReadLine`, `RestoreEcho` | `readPassword`: `stty`, the line, the deferred restore |
| `Interrupt` | Ctrl-C at the prompt: no deferred call runs |
| `CheckPassword`, `ChooseInterfaces`, `BuildPacket` | `EncodePassword`, `discovery.Choose`, `mhed.BuildSetNetwork` |

**`Capture`** is `mhedpcap`: `OpenFile`, one step per block (`SectionHeader`, `InterfaceDescription`, `EnhancedPacket`,
`SimplePacket`, `OtherBlock`, `CorruptBlock`) or pcap record (`PcapRecord`), `EndOfFile`, then `Inspect`, which is `list`,
`show` or `diff` of the frames found. A reader that indexes beyond the file is in the state `panic`.

**`PacketPath`** composes the two with a camera: the packet that `CommandLine` built reaches one (`Answer`), is captured
with the answers (`Captured`), read (`Read`) and shown (`Show`). It is where `Wire`'s records are tied to bytes: that a
command for a camera is taken for one by exactly that camera, that an announcement says what the record says.

**`ProbeRunner`**: one call of `run` in the app. The helper is a script of single writes and reads of stdin, so that
every way its bytes can fall into chunks occurs; a write to a full pipe waits. Two queues of the system run the
handlers:

| Step | Code |
|---|---|
| `LaunchFails`, `Launch`, `CloseStdin` | `run`'s body |
| `Fire`, `AvailableData`, `EndOfErr` | the readability handler is called, reads, or takes itself off |
| `AppendChunk`, `HandChunk` | `LineCollector.append` under its lock; one `onStderrLine` per line |
| `TakeOff`, `Drain`, `DrainEnd` | the termination handler takes the other one off and reads, again and again, to the end |
| `AppendTail`, `HandTail` | it appends what it has read, with the flush, and hands the lines on |
| `ReadOut`, `Resume` | its read of stdout, and the continuation |

`Fire` and `AvailableData` are two steps because taking a handler off does not wait for a call that has begun: both
queues may then read the pipe and append. A read of stderr takes all there is or a first part of it, so a readability
handler that is still at work may read between two reads of `Drain`, and append what it has before the bytes that
come first are appended. `overtook` is history: that this has happened. `EveryByteOnce` holds all the same, which is
why it speaks of bags; `HandoverIsComplete`, which is about order, excepts it, as it does the chunk in hand.

**`AppModel`**: the app's state and `SetNetworkSheet`. All of it runs on the main actor, so a step reaches from one
`await` to the next: `Version`, `RefreshInterfaces` and `StartupScan` are `startup`; `ScanStart` is `scan` up to its
`await`, `ScanFinds` and `ScanFails` what follows, `ScanStalls` that nothing does (see below); `PickInterface`,
`Rescan`, `Select`, `OpenSheet`, `Cancel`, `Apply` and `CloseSheet` are the operator's; `SetReturns` is the end of
`apply`'s task. `Render` is what SwiftUI makes of the `if let` around the sheet's content: gone with the device, fresh
when it comes back. The helper is taken as its own modules show it to be: `list` finds some of the cameras, each at an
address it had while the listing ran (`Found`; `ListedIsReal`), and exit 0 of `set` is true of the camera (`Verdict`;
`ConfirmedMeansApplied`). It runs behind a pipe, though: as `ReturnsIfOutputFits` shows, `run` never returns when the
helper prints more than the stdout pipe holds. `Overfull` are the tables whose JSON is; a listing that finds one never
ends (`ScanStalls`), and `isScanning` stays up.

Operators under a comment that begins with "Mistake" are variants of the definition after them, with a bug the code
could plausibly have. They are not part of any specification; `PROJECT.json` pairs each property with the variant
that breaks it.

## Abstractions

- A network configuration (address, mask, gateway, two DNS servers) is one value of `Cfg`; `ipOf` gives its
  address. No property tells the other fields apart. MACs, passwords and hosts are values.
- In the session modules a datagram is a record of what `BuildX` puts in and `ParseX` takes out; `Packets` checks on the
  bytes that these agree (`AnswersSurvive`, `OnlyTheAddressee`). A command shorter than 140 bytes, or one
  that does not parse, is ignored by every reader and does not occur.
- Time is a counter that runs while the tool is inside `Collect`, the only place where the code waits. A tool that
  is not scheduled for long, or sends slowly, overruns its deadline by that much; `GivesUpInTime` is about what the
  code's own arithmetic adds.
- `RxCap`, `InCap` bound the receive buffers, `MaxSent` the datagrams in a `FakecamMain` run, `OtherSets` the
  commands of other tools (each sent once). These bounds, the timeouts and the windows are all there are.
- In a session nobody closes a camera; one that dies is one whose datagrams are all lost from then on, which is
  among the behaviours.
- `OneOperator`: while a session runs, other tools are busy with other cameras. Without it "the camera has the
  requested address" can be undone by anybody at any time, and no exit code could be right.
- A session's interfaces are the constant `Sock`, of which `Open` joins any non-empty subset; which they are is
  `IfaceSelection`'s, and that the operating system may fail to list them is `CommandLine`'s.
- In `NetConfig` a text is what it parses as, with its bytes: an address of 4 or 16 bytes, a MAC of 6, 8 or 20, or
  something else. How addresses and numbers are spelled is the Go library's. A build date is empty or year, month and day.
- In `Capture` a file is its blocks. Of a block there remains whether its length is possible (`size`), its byte order,
  the length it claims for its packet and how many bytes of the file follow in memory (`tail`). What `decodeSet` makes of
  bytes that lie beyond its frame is the outcome `beyond`.
- The simulated camera stands for every camera. The protocol has no other implementation in the repository.
- In `ProbeRunner` a byte is a number and 0 the newline. What Foundation does where its documentation is silent is
  taken at its weakest: a handler that is taken off may still be at work, and the two queues run in any order. The
  read of `text` without the lock (`ProbeRunner.swift:65`) happens before or after the append it may race with; the
  password written to a helper that has exited is lost.
- In `AppModel` a camera has one address and `set` changes only that. A window's sheet blocks its window, but not the
  menu. Windows share the model, the selection included; `SetIsForTheForm` is about one window (with two it does not
  hold: a click in one changes the device of the sheet in the other, but not its fields). `Job` bounds the tasks that
  are in `scan` at a time.

## Runs

| Run | Instance | Distinct states | What it shows |
|---|---|---|---|
| `Fakecam` | one camera, four kinds of command, three datagrams | 200 163 | The log is the accepted commands in order (`LogFollowsCommands`), none is lost while the socket is open (`NothingDropped`), the report shows no configuration it does not count (`ReportIsExplained`), nothing moves after `Close` (`SilentAfterClose`), `Close` returns (`CloseReturns`), a change is announced (`ChangeIsAnnounced`) |
| `List` | `list` and `show`, one camera moved meanwhile, one or two sockets with buffers of two | 404 421 | What is listed was announced (`ListedIsReal`); no goroutine's result is lost (`HeardIsListed`); on one socket newer replaces older (`NewestWinsOnOneSocket`); the command returns (`SessionEnds`) |
| `ListNewest` | two sockets | violation | `NewestWins` fails with two sockets |
| `ListOddInterface` | two sockets | violation | `SuccessHasListened` fails: both have joined, the probe has left on one and fails on the other |
| `SetTwoSockets` | one camera, seven requests, two sockets | 1.5 million | `ConfirmedMeansApplied`, `NoBlindSend`, `RefusedMeansUntouched`, `AckMeansReceived` |
| `SetOneSocket` | one camera, seven requests, another tool's command to a second MAC, buffers of two, windows of 3 in 4 with a floor of 2 | 263 871 | The camera takes only what is for it (`OnlyTargetChanges`); the session gives up neither early nor late (`GivesUpInTime`); it ends (`SessionEnds`); it implements `SetPromise` (`KeepsPromise`) |
| `SetExitZeroMeansRightPassword` | one socket | violation | Exit 0 with a wrong password |
| `Packets` | 656 ways to start ipcprobe, 21 cameras, 13 captures | 11 975 | Only addresses of hosts are asked for (`OnlyHostsAreAsked`), the packet is what the operator meant (`SaysWhatWasMeant`), the terminal's echo comes back (`EchoIsBack`); `interfaces` lists what `--iface` takes (`ListsWhatItAccepts`), an interface that is said to lack only an address is used once it has one (`ReasonExplains`); one camera takes the packet, and what the others say is unchanged (`OnlyTheAddressee`); announcements and acks survive their bytes, but for dates outside 2000 to 2099 (`AnswersSurvive`); frames are the packets with a whole payload (`FramesAreThePackets`), `diff` matches our packets only (`MatchIsOurs`), and the reader ends (`ReaderEnds`) |
| `Runner` | six helper scripts, pipes of two bytes each | 2 206 | No byte is lost or doubled between the two queues (`EveryByteOnce`), lines stay whole and in order (`LinesAreWhole`), the hand-over to the termination handler is complete unless the other one has a chunk in hand or has overtaken it (`HandoverIsComplete`), the caller is resumed exactly if stdout fits its pipe (`ReturnsIfOutputFits`) and never twice (`RunnerTypeOK`) |
| `App` | two cameras that can swap addresses, one window, two tasks, one table too large for the pipe | 60 608 | `OneScanAtATime`, `SelectionIsListed`, `SetIsForTheForm`; every spinner stops but that of a stalled listing (`SpinnersStop`) |
| `AppVerdict` | the same | violation | A running set's sheet goes blank |

Why the instances are large enough. The interesting cases need: two configurations of a camera, so that an
announcement can be stale, and a third that keeps the address; two sockets, so that goroutines race and a send fails
in part; another tool's command to another MAC, so that datagrams can be somebody else's; a MAC nobody has; a right
and a wrong password; buffers of one and of two, so that they overflow and so that a stale datagram sits before a
fresh one; two confirmation windows, so that what one leaves behind is read by the next. Two cameras that both answer
are left to the theorems, which hold for any number. Sessions start a camera afresh, so a history longer than one
command from us (twice, on two interfaces) and one from another tool cannot occur. The windows 3 and 2 of
`SetOneSocket` let the remaining time (1) fall below the floor (2), so that the last window overruns the deadline; the
other `set` runs have windows of one tick. The runs between them take every branch of every action, `RxCap` and
`InCap` of one included.

The command lines of `Packets` are 13 masks (0, 1, 30, 31 and 32 bits, within bytes and between them, and some that
are none) with 10 addresses each, lowest, highest and between in several of the subnets; passwords of 0 to 28
characters around each change of the padding and around the limit, given as a flag or typed, with and without a
newline, at a terminal that can be told to hide them or not; flags repeated, missing and swallowed; machines with none
to three interfaces, one of them with something wrong with it; `interfaces` with and without `--json` and with
arguments in error, and commands of every other kind that `run` answers itself. The cameras have fields that just fit
and just do not, and dates on either side of the century. The captures have both formats, both byte orders, several
sections and link layers, frames with options, padded, cut, or not UDP, and blocks with impossible lengths. Only the
plain request is captured: what `Capture` does depends on the packet's bytes only where the files vary them.

A pipe of two bytes is enough for `Runner`: its scripts have lines shorter than the pipe, longer, empty and
unfinished, outputs that fill stdout exactly and that exceed it by one, and helpers that wait for stdin or not. In
`App`, two cameras can take each other's address, so a row can be stale, and two tasks are the fewest that can be in
`scan` together; a third would only be turned away too, which `Exclusion` proves.

All runs have `CHECK_DEADLOCK FALSE`: programs end.

## Fairness

- The session (`Session`), and the lock, the deadline and the return of each `Collect` goroutine: weak fairness. A
  runnable goroutine runs; the lock is held for a few instructions; nothing in the session blocks outside `Collect`.
  Reading is *not* assumed fair: a goroutine need not take what is buffered to see its deadline.
- Time (`Tick`): weak fairness while a `Collect` waits.
- `SessionEnds` needs nothing else: no camera need run and no datagram need arrive.
- Camera (`FakecamMain` only): weak fairness on each loop and on the main goroutine, once the signal came. Strong
  fairness on `AnnounceReturn`: with `done` closed and the ticker firing each time round, both arms of the
  `select` are ready again and again and Go chooses at random, so the ticker cannot win for ever.
- `ProbeRunner`: weak fairness on `run`'s body, on the helper, which goes on as long as it can, and on each of the two
  queues. Nobody reads stdout while the helper runs, and no fairness makes up for it.
- `PacketPath`: weak fairness on `Read`: `mhedpcap` is one goroutine that waits for nothing.
- `AppModel`: weak fairness on each task in `scan` and on the end of each `set`: the main actor is never blocked, and
  `list` and `set` end (`SessionEnds`). That `SessionEnds` is about a helper nobody's pipe holds up, so it is not
  taken to say that `run` returns: a `list` whose result does not fit the stdout pipe stalls, and nothing makes it
  end. `set` prints one line at most, which fits. The operator need not do anything.

## Proofs

`tlapm` checks eight modules; every leaf is proved by SMT, Zenon or the temporal prover. They assume what the modules
assume of their constants (`WireAssumption`, `CameraAssumption`, `SetAssumption`, `OneOperator`, `ListAssumption`,
`FakecamAssumption`, `RunnerAssumption`, `AppAssumption`, `RunsAssumption`, `PathAssumption`) and nothing of their size: any
number of cameras, interfaces, hosts and configurations, any buffer, any timeouts, any helper, any command line. The
last two are types, that the interfaces of a machine have names of their own, none of them an address, and that the
operator of a `set` means what the command line says (`MeansWhatIsSaid`).

| Theorem | Module | Says |
|---|---|---|
| `TypeCorrect` | `SetSession_proofs` | `Spec => []SetTypeOK` |
| `Invariance` | | `Spec => []Inductive` |
| `Confirmation` | | `Spec => []ConfirmedMeansApplied` |
| `Caution` | | `Spec => []NoBlindSend` |
| `Refusal` | | `Spec => []RefusedMeansUntouched` |
| `Isolation` | | `Spec => []OnlyTargetChanges` |
| `Refinement` | | `Spec => KeepsPromise`: the session implements `SetPromise` |
| `Deadline` | | `Spec => []GivesUpInTime` |
| `Receipt` | | `Spec => []AckMeansReceived` |
| `ListTypeCorrect` | `ListSession_proofs` | `Spec => []ListTypeOK` |
| `Reality` | | `Spec => []ListedIsReal` |
| `NothingLost` | | `Spec => []HeardIsListed` |
| `NewestFirst` | | with configurations that differ and finitely many sockets, `Spec => NewestWinsOnOneSocket` |
| `FakecamTypeCorrect` | `FakecamMain_proofs` | `Spec => []FakecamTypeOK` |
| `Report` | | `Spec => []ReportIsExplained` |
| `Silence` | | `Spec => SilentAfterClose` |
| `InOrder` | | `Spec => []LogFollowsCommands` |
| `NoneLost` | | `Spec => []NothingDropped` |
| `RunnerTypes` | `ProbeRunner_proofs` | `Spec => []RunnerTypeOK` |
| `BytesOnce` | | `Spec => []EveryByteOnce` |
| `LinesWhole` | | `Spec => []LinesAreWhole` |
| `HandoverComplete` | | `Spec => HandoverIsComplete` |
| `PathInductive` | `PacketPath_proofs` | `Spec => []PathInv` |
| `PathTypes` | | `Spec => []PathTypeOK` |
| `EchoBack` | | `Spec => []EchoIsBack` |
| `ListsTheSame` | | `Spec => []ListsWhatItAccepts` |
| `ReasonTrue` | | `Spec => []ReasonExplains` |
| `AnswersIntact` | | `Spec => []AnswersSurvive` |
| `HostsAlone` | | `Spec => []OnlyHostsAreAsked` |
| `MeantAsSaid` | | `Spec => []SaysWhatWasMeant` |
| `AddresseeAlone` | | `Spec => []OnlyTheAddressee` |
| `MatchesAreOurs` | | `Spec => []MatchIsOurs` |
| `FramesAreRight` | | `Spec => [](Truthful(file) => FramesAreThePackets)` |
| `AppTypeCorrect` | `AppModel_proofs` | `Spec => []AppTypeOK` |
| `Exclusion` | | `Spec => []OneScanAtATime` |
| `Selection` | | `Spec => []SelectionIsListed` |
| `RightCamera` | | with one window, `Spec => []SetIsForTheForm` |

The argument for `set`, which is why a tool that trusts the first announcement it hears is right. None of the four
properties is inductive: that a confirmed camera is at the goal says nothing of the datagrams that will convince
`cmdSet` next. `Inductive` follows the two flows of a session.

*Commands, from the tool to the camera.* Every command buffered at a camera, or being worked on by one, is ours or
one of the other tools' (`CommandsKnown`), and the latter are for other cameras (`OneOperator`). So the camera that was
asked for either is as it was or took our command, with its password (`TargetIsOurs`), and once it is at the
requested address it stays there (`HonestStays`).

*Announcements, from the camera to the tool.* Therefore word that the camera is at the goal, once true, stays true, and
staleness can only hide the goal, never fake it. This is carried along each place such word can be: the snapshot
that `announceLoop` has built (`SnapsHonest`), the sockets' buffers (`BuffersHonest`), what a goroutine has read
(`HeldHonest`), and the result (`DevicesHonest`) which `cmdSet` believes (`ConfirmedThere`).

`Phases` ties both to the program's place: nothing of ours is under way before the checks are over.

*The promise.* `Refinement` takes each step of the session to one of `SetPromise` or to a stutter, with `Inductive` in
hand: that a camera which takes our command was sent it (`Phases`) and knows its password, that a verdict of success
finds the camera at the goal (`ConfirmedThere`), that a refusal comes before anything is sent.

*The deadline.* The clock runs only inside `Collect`, and a window is cut to the time that remains, or is the floor. So
between windows the time is less than `deadline + MinWindow`, and so is the end of the window that is open (`Timely`).

*The ack.* It is sent by a camera that has the command in hand, which is then either counted or being applied, and this
is never undone (`Reached`); so it stays true of the ack wherever that is: buffered, read, collected, noted
(`AcksTold`).

For `list`, `AnnouncedIsReal` follows an announcement in the same way. What makes it inductive is that `Had`, "the
camera has had this configuration", can only become true: its log only grows. `NothingLost` needs to know of each read
that it is in the result or in the hands of a goroutine that has yet to merge (`ReadIsKept`); `wg.Wait` returns when
there is none of the latter.

`NewestFirst` is about order. Word of a configuration passes five places on its way to the list: the camera's record,
the announcement to be sent, the socket's buffer, the goroutine's hands, the result. `ToldInOrder` says that of any two
configurations of a camera, the one told nearer to the list is not the newer one. Each step passes word on from one place to
the next and overtakes nothing, because the buffer is a queue and one goroutine merges before it reads again (`PassedOn`
is that argument, once for all steps); only a command adds word, at the far end, and it is new there. With a second
socket two goroutines hold word at once, and the invariant fails as `ListNewest` does. That a configuration has one
place in a camera's history needs `Once`, a command is in one place only, and the hypothesis `ConfigsDiffer`: no two
commands give a camera the same configuration, nor one the configuration it started with. It names configurations apart
and restricts nothing else; without it "newer" has no meaning for a configuration a camera had twice.

For `cmd/fakecam`, `ReportInv` says that a camera's configuration is always one its log explains, and that the one the
report has read is explained by the log as it is, or, once read, by the number of commands read from it. This holds
because the configuration is read first and a log that only grows goes on explaining it. `LoopsGone` says that `Close`
returns when both loops have, and a loop that returned has no step.

`InOrder` and `NoneLost` are one invariant, `LoopInv`. The commands that arrived for a camera are, in this order, a
part it has worked off, the one in its hand, and, while the socket is open, those in its buffer (`TakenInOrder`). The
counter is the length of the first part and the log what `Applicable` leaves of it, so what `commandLoop` does next is
read off the front of the rest. The properties compare filters of sequences; the lemmas they rest on
(`CommandsForConcat`, `ApplicableEquations`) say what a filter makes of a sequence with one more element or of two in a
row.

For `ProbeRunner`, `Order` says who holds what when: the bytes between the queues are with the readability handler, or
with the termination handler, or nowhere. While that one has not done its part and nothing has overtaken it
(`overtook`), what the helper has written is a prefix `c` followed by the chunk, the tail and the pipe, and the
collector's lines and unfinished line are `Split(c)` (`Cut`). Two chunks that meet in the wrong order break this, as
does a chunk read past the tail, and then only the number of each byte is kept (`BytesKept`), which is why
`EveryByteOnce` speaks of bags, and each line is either handed on or in the hands of one handler (`LinesKept`). The
proofs need that splitting a stream in two and going on with the rest gives the lines of the whole (`SplitConcat`),
wherever the pipe cut it.

For `PacketPath`, the steps are simple and the data is not. `PathInv` says of each packet which builder made it of
what: the command is `SetPacket` of what the flags ask for and of a password that fits (`CliInv`), the announcement
and the ack are those of the record that the camera had, or took over (`CameraInv`); of the terminal, who turned its
echo off (`EchoInv`); of the flags and the password, that they are what was said and typed (`MeantInv`); of the reader,
that it is within its file (`CaptureInv`) and what it holds of it (`FileInv`); and of what `show` and `diff` said, which
frame they said it of (`ShownInv`). The rest is about operators:

- *Bytes.* `PutBytes` is a write into a packet, `FieldPut` and `FieldSkip` a read after it, of the same field or of another. From them
  each builder and parser is shown to agree field by field, and `Base64Injective` that no two passwords are encoded
  the same, which is why a camera that compares encoded passwords takes ours for its own only if it is.
- *Masks.* `BroadcastIs` gives the fold over the host bits a closed form: after i bits, each byte of the result is that
  of the subnet's lowest address and what the bits of that byte are worth so far (`Low`). `LowBits` and `ByteSum` go from
  a byte to its bits, so an address that is neither the lowest nor the highest has a host bit of each kind (`HostBoth`).
  `HostInv` says that the flags have passed the checks from then on.
- *Interfaces.* A list made by filtering and flattening has an entry exactly if one of its sources gives it, whatever
  else is listed (`ListedThenAccepted`, `ReasonExplained`).
- *Arguments.* A way to start ipcprobe gives its arguments as `settings`, each `--key=value`, `--key value` or a switch, and
  a `rest`, which is empty unless the arguments are in error; that is no restriction on them. What the operator means
  is then the last value of each flag (`Told`) and the line typed (`Typed`), said without the parser's state, and
  `MeansWhatIsSaid` assumes it of `want` and `pw`. `ArgsParsed` shows by induction over the settings that `parseFlags`
  finds the same, and refuses any rest; `TypedIs` that `readLine` finds the password.
- *Captures.* `carries` and `LinkType` say of a packet, from the file alone and without the reader's state, which UDP
  payload is whole in it and which interface of its section it is of. `Truthful` is a file that keeps to its format:
  blocks of its kind, no length but that of the data, IPv4 headers of five words or more (`Headed`; `udpFrame` does not
  refuse shorter ones), and `carries` as it should be. `CarriedIs` takes `udpFrame` apart to find that payload and no
  other. `KeptAs` and `NumberedAs` say that the reader holds the packets and interfaces of the blocks it has read, each
  where its number is, and `KeptNext` and `NumberedNext` carry this over a block of any type.

`Network_proofs` holds the lemmas about the components: what a delivery adds to a buffer, that each step of a camera
or a connection keeps its types, and what it changes at most (`CameraEffect`, `CollectEffect`). `SequenceLemmas` has
induction over sequences. The library's induction theorems take a predicate as their parameter, which no prover here
can instantiate. A set can be: `SeqInduction` says that a set that contains the empty sequence, and with a sequence its
extensions, contains all of them, and follows from the library's theorem that `<` is well founded. `FoldExists` and
`FoldUnique` then give a function defined by recursion over a sequence its equations, and `SetFoldExists` does so for the
folds of the community modules, which choose their next element. All are cited by name.

The app's theorems need less. `AppTypeOK` is inductive only together with `FieldsHaveDevice`: a sheet has fields only
while a device is selected, which is why `Apply` always has a MAC to send. `OneListing` says of any two tasks what
`OneScanAtATime` says of their number. `SheetsHold` carries `RightCamera`: a sheet blocks its window, so while it is
open the selection can only be lost, and then the fields are lost with it.

`Inductive`, `Timely` and `AcksTold` were found with TLC on the instance of `SetOneSocket` before they were proved, `Once`
and `ToldInOrder` on a listing with one socket and two commands; no run repeats them.

Only model-checked:

- Liveness (`SessionEnds`, `CloseReturns`, `ChangeIsAnnounced`, `ReturnsIfOutputFits`, `SpinnersStop`, `ReaderEnds`), which is
  beyond the prover.
- `FramesAreThePackets` for a file that does not keep to its format: `Packets` has one that claims more bytes for a packet
  than its block holds, and `MCPackets` checks that its other captures are `Truthful`.

## Where the code and the documentation disagree

Four runs each show one statement of the documentation, or of a comment, that the program does not keep:

1. `ListNewest`: "newest wins" (`src/internal/discovery/discovery.go:213`, `src/docs/ARCHITECTURE.md:201`) holds per
   socket. With two, the goroutine that takes the lock last wins.
2. `ListOddInterface`: when the probe fails on one of several interfaces that have joined, `Discover` returns without
   having listened on any, also where it has left, and `list` succeeds with nothing. `src/docs/ARCHITECTURE.md:182-183`,
   which speaks of an interface that does not join, gives the reason for skipping it: one that is odd should not make
   the others unusable.
3. `SetExitZeroMeansRightPassword`: a request that keeps the address is confirmed by any announcement, the
   password wrong or not.
4. `AppVerdict`: a scan that was under way when the sheet was opened can clear the selection, and the sheet's content
   with it; "a change-network sheet that shows the helper's progress and verdict" (`src/CHANGELOG.md:20`) then
   shows neither.

Met while modelling, and not given a run.

Of the session:
- `set` reports any ack it hears as the camera's (`main.go:334`), also another camera's to another tool.
- `set` confirms on the announcement alone, also without an ack (`src/README.md:67-68` names both).
- An IPv6 gateway or DNS server is found out after discovery, although everything is said to be validated before the
  network is touched (`src/docs/ARCHITECTURE.md:251`). A `--timeout` that is no number counts as 0.
- `--password --force` takes `--force` for the password. Exit 2 is also a usage error, which the app's form lets through
  (`AppModel.swift:56`).
- Exit 1 of `set` after a send that failed on one interface says nothing of the camera, which may have taken the command
  from another.
- Ctrl-C at the password prompt leaves the terminal without echo.

Of interfaces:
- `whyUnusable` explains that a point-to-point interface cannot carry multicast also when it can, and only lacks an
  IPv4 address.
- An interface with two IPv4 addresses is listed and opened twice.

Of packets and captures:
- Builder and parser are not "exact inverses" (`src/docs/ARCHITECTURE.md:127`) for a name that fills its 20 bytes, which
  the builder refuses, nor for dates outside 2000 to 2099, which the parser drops.
- A simple packet block cut by a snap length is read on into the next block; a set frame shorter than 120 bytes is read
  beyond its end; either panics where the file ends, as does a loopback packet of less than four bytes.
- `udpFrame` takes an IPv4 header of fewer than five words at its word, and looks for the UDP header within it.
- Packet blocks of the obsolete type 2 are not counted, so the numbers of later frames are not Wireshark's.

Of the others:
- The rescan after a set is dropped when a scan is under way.
- A `list --json` that is larger than the stdout pipe never returns to the app (`ProbeRunner.swift:64`): the spinner stays
  and no further scan runs. `SpinnersStop` has it as its one exception.
- The report of `cmd/fakecam` can show more commands applied than received, because it reads them under different locks.

## Not modelled

- What the tools print: tables, JSON, hex, times. Flags of `cmd/fakecam` and `mhedpcap`; `list`'s and `show`'s own
  flags, durations.
- Addresses and ports of a captured frame, which only `list` prints.
- Of the app: finding the helper, decoding its JSON, the status bar's error, the check of the form's fields.
- Views, packaging: no behaviour of their own to check.

Hazards that no property covers: the write of the password to a helper that has exited (`ProbeRunner.swift:75`), which is
Foundation's; lines of stderr that overtake one another on the main actor (`AppModel.swift:66`), which is
the runtime's order, not the code's; windows that share a selection (`ContentView.swift:17`), where the property is
false and nothing in the repository says that it should hold; a command that leaves on some interfaces only
(`main.go:314`), of which nothing is claimed; and an interface chosen for the new address on which the camera is not
(`main.go:281`), because on which interface a camera is, is not modelled.

## Plan

Written: the wire, the camera, the connection and the three programs over them; the promise of `set`; command line,
interface selection, codec and captures, composed; the app's run of the helper, its state and its sheet. Proved: every
invariant and action property of the passing runs, and that `set` keeps its promise; three of them under the hypothesis
their theorem names (`FramesAreRight`, `NewestFirst`, `RightCamera`).

What could still come:

1. `Choose`'s result in place of the free choice of `Open`, and a camera that is on another segment.
2. The app's form and status bar.
