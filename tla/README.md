# xport in TLA+

A verification project for `xport`, a point-to-point file transport: a sender watches a
directory and streams files over mutually authenticated TLS to a receiver, which commits
them atomically and durably; both report their health to a monitor. The modules model the
receiver, the sender, the two together, the bytes between them, the health each reports and
the monitor that asks. TLC checks them on small instances, TLAPS proves the main safety
properties for every instance.

Paths below are relative to `src/internal/` unless they start with `cmd/`.

## 1. Inventory

| Component | State | Operations | Interacts with |
|---|---|---|---|
| Receiver server, `receiver/listener.go` | `conns`, `stopCh`, `wg`, `activeConnCount` | `Start`, `acceptLoop`, `handleConnection` (one goroutine per connection), `Close` | senders over TLS, commit barrier, staging area, tracker |
| Commit barrier, `receiver/committer.go` | the incoming directory on disk | `CommitBarrier`: sync, close, rename, directory sync, ACK | called by handlers |
| Staging area, `receiver/stager.go` | `.staging/*.tmp` | `BootCleanup`, `CreateStagedFile` | called by `Start` and by handlers |
| Scanner, `sender/scanner.go` | `states` behind a mutex | `scanOnce` on a ticker, `MarkCompleted`, `Stop` | reads the watch directory, pushes to the queue, called by workers |
| Queue, `sender/queue.go` | `items`, `inQueue`, `attempts`, `stopped` behind a mutex and a condition | `Push`, `Pop`, `RecordSuccess`, `RecordFailure`, `Stop` | scanner pushes, workers pop, moves files to `.failed/` |
| Client pool, `sender/client.go` | a connection and an item per worker | `workerLoop`, `dialPersistent`, `transferFile`, `postCommit`, `Stop` | queue, scanner, receiver, moves files to `.sent/` |
| Wire protocol, `wire/protocol.go` | none | header, stream with SHA-256 trailer, ACK/NACK, deadlines, `ParseByteSize` | both ends |
| Pinning and certificates, `tlsutil/` | none | fingerprint check, key generation | both ends, keygen |
| Health tracker, `monitor/status.go` | counters and gauges behind a mutex | `Record*`, `Set*`, `Evaluate` | both daemons, status server |
| Status server and monitor, `monitor/server.go`, `monitor/client.go` | none of their own | HTTP endpoints, polling, exit codes | tracker |
| Commands, `cmd/xport/main.go` | none | `send`, `recv`, `monitor`, `keygen`: construction and shutdown | everything |

What is hard here: handlers, the accept loop and the shutdown of the receiver run at the
same time; the machine may stop between any two file operations of a commit; the sender's
workers and its scanner share a directory that producers change at any moment and refer
to files by path; an answer may be lost after the file was committed; everything in the
sender that is not a file is lost in a restart. `PROJECT.json` lists these places line by
line under `hazards`.

What makes each part correct:

- receiver: an ACK is a promise that survives a power loss; a final name never holds a
  damaged file; nothing is left in `.staging/`; `Close` returns; every request is answered
  or its connection closed;
- sender: a file is in one hand at a time; it is never lost; of what is queued or listed,
  the oldest goes first; what `.sent/` shows was delivered; every file is eventually sent or quarantined; the shutdown ends;
- both together: a file is at every moment in the watch directory, in `.failed/` or safe at
  the receiver; the receiver behaves as the sender's specification assumes;
- wire protocol: the two ends agree where a file ends and the next begins, also when the
  file changes while it is read; what is committed is the announced part of what was
  hashed; sizes are compared as they were meant;
- health: what is wrong is reported by every poll until it is over, once the process has
  counted what it found and the gauges are up to date;
- monitor: a round ends; the exit code says what the nodes said; an external node answers
  only to the monitor it pinned.

## 2. Modules

| Module | Models |
|---|---|
| `Network` | a connection as its two ends see it: one request and one reply under way, either end open or closed, what was written stays readable. TCP and TLS are external; the operations are the calls of `wire/protocol.go` |
| `Receiver` | listener, handlers, commit barrier, staging area, the file system and its crashes; peers that send anything |
| `DurableInbox` | what the receiver promises, as an abstract specification |
| `Sender` | scanner, queue, workers, `runSend`; producers and a receiver that answers, refuses or hangs up |
| `System` | `Sender` and `Receiver` on the two ends of the same connections |
| `Wire` | the frames of `wire/protocol.go`, byte by byte, on one persistent connection |
| `Tracker` | the state of `monitor/status.go` and `Evaluate` |
| `SenderHealth`, `ReceiverHealth` | who calls the tracker and when, in a sender and in a receiver |
| `Monitor` | status servers, pinning, and the rounds of `xport monitor` |
| `NetworkProofs`, `ReceiverProofs`, `SenderProofs`, `SystemProofs`, `WireProofs`, `SenderHealthProofs`, `ReceiverHealthProofs`, `MonitorProofs` | the theorems |
| `MC...` | symmetry sets and constants for TLC |

### Network

`net[c]` is a record: `cli` and `srv` are the two ends, `req` the request in the server's
receive buffer, `rsp` the reply in the client's. A payload is a number (its version); a
`body` is `full` when the announced bytes and a matching trailer are there and `bad` when
they are not, which is all `ReceiveStream` can tell. `NoName` stands for every header that
`ReadRequestHeader` rejects. A connection starts in the `backlog`: with TLS 1.3 the
client's handshake ends before the server has verified the client, so `DialOk` in the
sender does not mean that the receiver will talk to it.

### Receiver

`pc[c]` is where the handler of `c` is; each step between two blocking or system calls is
an action, and each call that may fail has a second action for its failure. `srvState`
goes through the statements of `Close`. `acc` is the connection between `Accept` and its
registration under the mutex.

The file system follows POSIX as `CommitBarrier` relies on it. A file's content is durable
after its own sync (`synced`). `visible[n]` is what a reader finds under `n`; `disk[n]` is
the entry the last directory sync made durable; `maybe[n]` are the entries renamed there
since. After a power loss one of `{disk[n]} \cup maybe[n]` is found, with its content only
if that was synced, and any subset of the staging files. `Kill` keeps the file system.
`StrayStart` is a second `recv` on the same directory with a `-status` address of its own
(or `statusServer.Start`, `cmd/xport/main.go:198`, stops it first): `Start` runs
`BootCleanup` before the port turns out to be taken.

Ghosts: `commitSeq` numbers the renames, `acked[n]` is the number of the latest rename to
`n` an ACK was written for, `sent` what peers sent.

### DurableInbox

A directory `file`, where each delivery has a number, and `confirmed[n]`, the latest
delivery to `n` that was confirmed. `Deliver` puts an offered payload under its name at
once and whole, `Confirm` confirms what is there or something older, `Lose` takes back
deliveries, but none that was confirmed. `Receiver` implements it with `offered <- sent`,
`count <- commitSeq`, `confirmed <- acked` and `file` the visible entries: a rename is
`Deliver`, `AckOk` is `Confirm`, a power loss is `Lose`, all else is a stutter or `Offer`.
`Lose` has no guard, so the formula does not say that only a power loss takes something back;
it says what is never taken back. That nothing but `PowerLoss` is mapped to `Lose` can be read
off the proof: every other action is shown to be `Offer`, `Deliver`, `Confirm` or a stutter.

### Sender

`dir`, `sentDir` and `failedDir` map names to versions, 0 for none. Versions are numbered in
the order in which they appear; the constant `Info` gives the size and the modification time
of each, which are the version's own, because a rename keeps them: a file that appears later
may be the older one, and two files may have the same time. `scPc`, `todo`, `seen` and
`stable` are the progress of one `scanOnce`: the directory is read before the mutex is taken,
the entries are examined one by one under it, and the pushes come after it was released.
`pc[w]` is where worker `w` is; `wait` is `cond.Wait`. The file is opened when the transfer starts and moved by path when the ACK
was read: between the two, `dir` may change. The ghost `ahead[n]` is what else the scan that
first met `n` had in its listing.

`Producer` says what producers do: use every name `once`, reuse a `vacant` name, or
replace a file at `anytime`. In all cases they follow the convention of
`sender/sender_test.go:141`, a hidden temporary file that is renamed. `PeerAnswer` and
`PeerHangup` are a receiver that may ACK a complete file, NACK from the header on, or
close; that an ACK means a durable commit is `Receiver`'s part, and that the receiver is
such a peer is checked in `System`.

`TransferFail` covers every error of `transferFile`, a deadline included, and is enabled
even when an ACK is on its way: that is the lost ACK.

### System

The variables of `Sender` and of `Receiver`, with one `net` between them. `SenderStep` is
any step of the sender; a dial needs a listener that is open (`srvState` "up", or
"stopping" before the listener is closed), and a header written adds to `sent`.
`ReceiverStep` is any step of the receiver, crashes included. Neither component's
environment is used.

The sender cannot see whether its connection was accepted or how far its request was
read: `clientNet` is `net` without that. `ImplementsSender` says that the composition, seen
through `clientNet`, is a behaviour of `Sender`, so that what is proved of `Sender` holds
with this receiver at the other end.

### Wire

`toSrv` is a sequence of bytes that carry no sign of what they were written as. The handler
reads them by count, as `ReadRequestHeader` and `ReceiveStream` do: `Magic` is compared, a
length of `1..MaxName` is accepted, then that many bytes if they are a valid name, then any
number as the size, then `SumLen` bytes that are compared with `Sum(taken)`. Numbers are
encoded and decoded in big-endian order. Nothing is assumed of `Sum` but its length: bytes of
the payload may be read as a trailer, and two payloads may have the same sum. The client is
`transferFile`, and copies to the end of a `file` that changes meanwhile; the handler is
`handleConnection`. A connection can end between any two bytes. Sizes are numbers of `Width` bits: `Signed` is the conversion of `payloadSize` to `int64`
for `io.LimitReader`. `ParseByteSize` works in tenths of a unit; a product that does not
fit becomes one of the values platforms give.

### Tracker, SenderHealth, ReceiverHealth

Time is counted in ticks; the thresholds are constants in ticks. `Tracker` has the fields
of `monitor.Tracker`, its methods as actions, and `Evaluate`: pruning of `recentErrors`,
then the rules of the sender or the receiver, then the state as the worst of them.
`State(old)` is what a poll at this moment would answer, `old` being what
`checkOldStagingFiles` finds. Totals that are only displayed are left out.

`SenderHealth` has the calls of `queue.go` and `client.go`: `Push`, `Pop`, `Requeue` and
`Quarantine` with `SetQueueCounts` under `Queue.mu`, and the workers' `RecordError` and
`RecordSuccess` outside it. `holder` is the worker that holds `Queue.mu` between the rename
into `.failed/` and the new count, where a poll can look in because the tracker has a mutex
of its own. `ClearFailed` is an operator. A start has two steps, as `runSend` has: with
`Init` or `Restart` the tracker is new and the status server answers
(`cmd/xport/main.go:120-131`), with `NewQueue` (line 133) the files in `.failed/` are counted;
polls fall between them.

`ReceiverHealth` has `acceptLoop`, the handlers and `activeConnCount`: the atomic add, the
load and `SetActiveConnections` are separate steps of each goroutine, and a client may be
accepted again while the deferred function of its old handler is between any two of them.
The ghost `quiet` is true when the count last changed while no earlier change was on its way
to the gauge. A staging file carries the time of its last write; a handler may leave it
untouched for any time. Removals may fail, those of `BootCleanup` too (`stray`), and after a
kill polls are answered before `BootCleanup` runs.

### Monitor

A certificate is the model value of its owner, and its fingerprint is that value; `Blank`
is a fingerprint that normalises to nothing. `config` is how a node and the monitor's target
for it are set up. `Boot` is `NewServer` and `Start` of the status server; `Connect`,
`HandleStatus`, `ReceiveStatus` and `PollFails` are the steps of `PollTarget`, one goroutine
per node; `StartRound` and `Report` are `RunMonitor`, which exits or, with `watch`, goes on.
`ParseTargetsFails` is its return when there is no target (`parsed`).
The ghost `said[n]` is what `n` answered in this round.

## 3. Runs

| Run | Bounds | Result |
|---|---|---|
| `receiver_safety` | 2 names, 2 connections, 2 staging names, 2 requests, 1 crash | `TypeOK`, `AckedDurable`, `CommittedIntact`, `StagedOwned`, `ImplementsInbox` hold |
| `receiver_liveness` | 1 name, 2 connections, 1 request | `CloseCompletes`, `RequestAnswered` hold |
| `sender_safety` | 2 names used once, the second file to appear being the older, 2 workers, 2 attempts | `TypeOK`, `SingleOwner`, `NothingLost`, `OldestFirst` hold |
| `sender_liveness` | 1 name, 2 workers, 2 attempts, `-after delete`, 1 refused rename or removal | `SingleOwner`, `NothingLost`, `EveryFileHandled`, `StopCompletes` hold |
| `system_safety` | 1 name, 1 connection, 1 worker, 2 attempts, 1 crash of the receiver | `NeverLost`, `ImplementsSender` hold |
| `wire_check` | bytes of 1 bit, files of up to 3 bytes, names of 1 and 2, sums of 2, sizes of 3, 2 requests, 1 change of the file | `TypeOK`, `InStep`, `StoredIsSent`, `LimitHonoured`, `AckMatches`, `TransferEnds` hold |
| `sender_health` | 2 files, 2 workers, 2 attempts, 3 ticks, stall after 1, any number of restarts | `TypeOK`, `ParkedReported`, `StallReported` hold |
| `receiver_health` | 2 connections at a time, coming and going, 3 ticks, 1 kill | `TypeOK`, `RefusalReported`, `OldStagingReported`, `OldStagingOnlyIdle` hold |
| `monitor_check` | 2 nodes, 10 setups of each, 3 changes of each, with and without `-watch` and targets | `TypeOK`, `ExitCodeHonest`, `ExternalPinned`, `ReportFresh`, `RoundEnds` hold |
| `sender_parallel` | 1 name reused when vacant, 3 versions, 2 workers | `ArchivedIsDelivered` is violated |
| `sender_stuck` | 1 name reused when vacant, 1 worker | `EveryFileHandled` is violated |
| `system_late` | 1 name reused when vacant, 2 versions, 2 connections | `ArchivedIsStored` is violated |

Why the bounds are enough for the cases that matter:

- receiver: two connections are two handlers that commit under the same or different names,
  or one that finishes while `Close` runs and one that registers late; two requests are an
  overwrite; one crash after each of them reaches every prefix of every commit;
- sender: two workers and two attempts give a retry by the other worker, a quarantine, and a
  quarantine by one worker while the other still has something to do for the name; two files
  in the reverse order of their times give an order to keep and a file that comes too late for
  it. Restarts and more files are left to the theorems of `SenderProofs`, names that are used
  again to `sender_parallel` and `sender_stuck`;
- system: every step of one attempt, with either process stopped, killed or restarted, or the
  power lost, between any two, then a second attempt. Two handlers for one file are the
  subject of `receiver_safety` and `system_late`, two files on one connection of `wire_check`;
  any number of each is covered by the theorems of `SystemProofs`;
- wire: with 3 bits, sizes 4 to 7 are the upper half that turns negative; every field is long
  enough to end inside it; a change makes the file shorter, longer or different, and 3
  bytes are enough for a file that has grown by its own sum of 2 bits;
- health: a threshold of 1 or 2 ticks is passed with ticks to spare; a second file is pushed,
  popped or requeued while the first one waits; two connections are two handlers that leave
  together, or one that leaves while the other is accepted;
- monitor: one node may be up, down or changing while the other answers; the setups are every
  kind of match and mismatch between address, fingerprint and certificate.

Symmetry is used for safety only. The runs of `Sender` and `System` do not check for
deadlock: a sender that is off and has used up `MaxStarts` really stops. All others do.

### What the violations show

1. `sender_parallel`. A producer that reuses a name waits until it is vacant. A worker past
   `postCommit` is delayed before `MarkCompleted` (`sender/client.go:177`); a second version
   appears, is scanned twice and queued, and the other worker takes it; the late
   `MarkCompleted` deletes its state, so the scanner queues it once more. Now two hands hold
   it: one worker transfers it and waits to archive it, the other copy is quarantined after
   failed dials, a third version fills the name and is archived by `postCommit`, which moves
   what is at the path, without having been sent. The README's guide tells the reader to
   trust `.sent/`.
2. `sender_stuck`. The dial path of `workerLoop` (`sender/client.go:143`) ignores that
   `RecordFailure` quarantined the file and does not call `MarkCompleted`. If a new file has
   the name before the next scan, the scanner sees a modified file that `isQueued`, and never
   queues it.
3. `system_late`. A transfer times out when the handler has received all of the file; the
   retry and then a new version of the file are committed over a second connection; the old
   handler goes on with its barrier and renames the old version over the new one. Its ACK
   reaches nobody, the new version is in `.sent/`, the receiver has the old one. The run is
   limited by `Uneventful` to behaviours in which little else happens.

With producers that use every name once none of this happens (`sender_safety`,
`sender_liveness`, `system_safety`, and the theorems of `SenderProofs` and `SystemProofs`).

### Limits of the properties that hold

Some properties hold because of a condition they state; without it the code behaves
otherwise:

- `OldStagingReported` and `OldStagingOnlyIdle` speak of a gauge that is `Settled`. Without
  `quiet` TLC finds both violated with two connections: handlers that leave together can store
  0 and then 1 (`receiver/listener.go:134`), and a handler that leaves late can store 0 under
  a connection just accepted. The gauge stays wrong until a connection comes or goes alone;
  until then the idle receiver looks at no staging file, or one that is being written is
  reported. `RefusalReported` does not depend on the gauge.
- `StoredIsSent` has one exception, `GrewBySum`. If a file of N bytes grows while it is read,
  by just the SHA-256 of these N bytes, the receiver takes that for the trailer
  (`wire/protocol.go:241`) and commits the N bytes, although more went through the sender's
  hasher. The sender fails with `ErrShortRead`, closes, and sends the file again;
  `AckMatches` and `InStep` hold in this case, too.
- `ParkedReported` begins with `NewQueue`. A poll between the start of the status server and
  `NewQueue` (`cmd/xport/main.go:127-133`) may be told ok while files are in `.failed/`.
- `OldestFirst` compares a file with what is queued and with what was listed when the file was
  first met. An older file renamed into the directory later (`mv` keeps its time) is overtaken
  until it is stable: compared with every file of the directory, the property is violated in
  the instance of `sender_safety`.

Others hold because of a constant, and change with it:

- `ArchivedIsDelivered` fails with a single worker, too, if producers replace files in place
  (`Producer = "anytime"`): `postCommit` archives the new version, unsent.
- `LimitHonoured` needs a limit of at least one byte (`AskedTenths * Unit >= 10`): anything
  less is cut to 0, and 0 turns the check off (`wire/protocol.go:122`).
- `EveryFileHandled` is about a sender whose renames succeed. After failed dials and a rename
  into `.failed/` that is refused, the file stays with its `isQueued` mark.

Three things the models show that no property here forbids: the warning about parked files
stays after somebody has emptied `.failed/`, until the next quarantine or start
(`sender/queue.go:57`); after an idle time longer than `-stall-after` a new file is reported
as stalled at once (`monitor/status.go:211`); a connection that breaks between two fields of
a header is taken for a clean close (`receiver/listener.go:170`).

### Fairness

Receiver: the accept loop's exit, `Close`, registration and every handler's progress are
weakly fair, because the Go scheduler runs what can run and file operations end. Of the
deadlines only the handshake's counts as progress: the properties are about answers
without an idle or stall timeout. `Accept` is strongly fair because the kernel hands out
its backlog in order. Nothing is assumed of peers, crashes, `Start` or of a `Close` being
called.

Sender: the scanner's steps (the ticker fires), every worker's steps (dials, reads and
writes have deadlines, so they end one way or the other) and the shutdown's steps are
weakly fair. `MarkCompleted` is strongly fair: the scanner takes its mutex again and again,
and a Go mutex is handed to a waiter that starves. Nothing is assumed of producers, of the
receiver, or of a stop being asked for.

Wire: the client's steps and the handler's are weakly fair; breaks, deadlines and changes of
the file are not, so `TransferEnds` does not rest on them.

Monitor: every poll is weakly fair, because the client's timeout and the context of the round
end a poll that hangs; so are the ticker of the next round and the report. Nothing is assumed
of the nodes.

## 4. Theorems

The constants are arbitrary sets and numbers under the named assumptions of the modules
(the distinguished values `NoName`, `NoConn`, `NoId` are outside their sets, the bounds are
natural numbers), so the theorems hold for any number of names, connections, workers,
requests and crashes.

**Receiver** (`ReceiverProofs`). `ReceiverTypeCorrect`, `ReceiverAckedDurable`,
`ReceiverCommittedIntact` and `ReceiverStagedOwned` follow from one inductive invariant
`IInv`. None of the properties is inductive alone:

- `LinkInv`: which handler holds which connection, and that a receiver that is down holds
  none;
- `StageInv`: a handler has a staging file of its own exactly between `CreateStagedFile`
  and the rename. This is what keeps one handler's payload out of another's file;
- `BufferInv`: what may be in a connection's buffers at each point of its handler, so that
  the payload a handler reads is the one announced by the header it validated;
- `DurInv`: `acked[n] <= disk[n].seq <= f.seq` for every `f` a power loss may leave, the
  visible entry being one of them. A handler between rename and directory sync is not newer
  than the visible entry, because another handler may have renamed over it since; a
  directory sync of either makes both durable;
- `IntactInv`: every entry holds the synced payload of a request for its name; so does a
  staging file past the trailer check, once it is synced.

`IInv` was checked with TLC on the instance of `receiver_safety` before it was proved.

`ReceiverImplementsInbox` is the refinement of `DurableInbox`, from
`IInv`. `InboxFrame` says that a step that leaves `sent` to grow and the visible entries,
`commitSeq` and `acked` alone is `Offer` or a stutter, which settles most actions.
`RenameDelivers` uses `IntactInv`: the staged file renamed is a synced payload that was sent
for that name. `AckConfirms` uses `DurInv`: a handler about to ACK is not newer than the
visible entry. `PowerLossLoses` uses `DurInv`, `IntactInv` and a further invariant `Newest`,
that no rename waiting for its sync is newer than the visible entry: what a power loss may
leave is at least the ACKed one, at most the visible one, and intact.

**Sender** (`SenderProofs`). `SenderTypeCorrect` needs `PushInv`: the scanner pushes only
while something is left to push. The other three theorems assume `Producer = "once"`. The
assumption is needed: with `vacant` or `anytime`, two workers and three versions, TLC finds a
counterexample to each of the three properties (two names for `OldestFirst`), along the lines
of `sender_parallel`.

- `SenderNothingLost` uses `OnceInv`: what is in the directory under a name is the version
  produced there; a worker past `SendFileHeader` has that version in hand; in `postCommit`
  its ACK has been read.
- `SenderSingleOwner` uses `OwnerInv`. A name is in hand from the moment the scanner finds it
  stable until a worker is done with it, and no name is in hand twice (`Exclusive`). Only the
  scanner takes a name in hand, so it is enough that it takes none that is in hand: while the
  file is there its state has `isQueued` (`Remembered`), and a scan under way has it in `todo`
  or `seen`, so that the clean-up at the end of the scan keeps the state (`Scanned`).
  `MarkCompleted` clears the state of a name that, by `Exclusive`, no one else has.
- `SenderOldestFirst` is an action property and uses `OrderInv`, for any number of files,
  workers, scans and restarts, and for every `Info`: nothing is assumed of the order in which
  files of some age appear. Both lists are sorted by the modification time of the one version
  of each name (`QueueInv`, `DatedInv`). A scan meets every known file that is still there
  (`ScanInv`). The rest is a chain, each link about `Older(n, m)`: a file `n` that is still in
  the directory, is older than `m`, and was in the listing of the scan that first met `m`
  (`ahead`). The scanner knows `n` no later (`KnownInv`), finds it stable no later
  (`StableInv`), hands on what it found stable until the queue is stopped (`HandedInv`), so
  nothing of that kind is left behind by what is in the queue or with a worker (`OutInv`).
  For an older file that is queued, whenever it came, the sorted queue is enough. The chain
  needs renames that succeed (`DoneInv`: a worker that is done has moved the file away), hence
  `faults = 0` in the property. That a stopped queue drops pushes but accepts requeueing does
  not break it: the older file was pushed first.

`OrderInv` was checked with TLC on the instance of `sender_safety` before it was proved.

**System** (`SystemProofs`). The invariants of both components are taken over with
`INSTANCE SenderProofs` and `INSTANCE ReceiverProofs`; `SameSender` and `SameReceiver` say that
these instances are the two components of `System`. New is how the two ends of a connection
agree. `SenderIsClient` classifies the sender's steps by what they do to the connections (a
`ClientStep`: dial, header, body, read, close, or the death of the process), and each is
something `Receiver` allows its peers; `ReceiverIsPeer` does the same for the receiver
(`PeerStep`: nothing the client can see, a reply, or hang-ups). So `SysInv`, the receiver's
`IInv` and the sender's types together with `GoneInv` (a connection both ends have left is a
free slot), is inductive.

- `SystemImplementsSender`: under `clientNet`, a sender's step is the same step, and a
  `PeerStep` is a stutter, `PeerAnswer` or `PeerHangup`.
- `SystemNeverLost` assumes `Producer = "once"`. By `SenderNothingLost`'s invariant a version
  that is in neither directory was ACKed. `TalkInv`: a connection is one worker's, and the
  request on it is for the file that worker has. `ReplyInv`: an ACK under way is for the name
  of the request it answers, which the receiver has made durable. Hence `ReadInv`: a version
  whose ACK was read is durable under its name. `SentInv` and the receiver's `DurInv` and
  `IntactInv` say that what any power loss leaves under that name is the very version. `OnceSysInv`
  is their conjunction; it was checked with TLC first.

**Wire** (`WireProofs`). The five theorems hold for bytes, fields, sums and files of every
length, for every hash function, and for any number of requests on a connection. The argument:
the bytes of one request have fixed places; `At(p, n, d, h)` is the byte at place `p`, `Off`
the number of bytes the handler has consumed, and `Framed` says that what is under way is the
stretch that follows. With `Written` (how far the client is) and what each end may find in the
other's buffers in each state (`WhenIdle`, `WhenStreaming`, `WhenReplying`), each `ReadFull`
gets the field it expects or the connection ends. As bytes carry no tags, this is so only
until the handler commits before the client is done, and `TrailerIsSum` shows that this needs
a payload that goes on with the sum of its announced part. Then the handler may be anywhere in
the rest, which it takes for headers, but the client can only fail. So the inductive invariant
is `Everywhere /\ (Aligned \/ Lost)`: what holds in every case, and either the frames are
aligned or `Lost`, the file has grown by its own sum. `WireAckMatches` is an action property.
`WireLimitHonoured` assumes a limit of at least one byte, see above. `PowerAssumption` and
`CodingAssumption` state of `2^Width`, `Encode` and `Decode` what the provers do not know of
powers and of recursive functions, `SumAssumption` the length of a sum; TLC evaluates them.

**Health** (`SenderHealthProofs`, `ReceiverHealthProofs`). `SenderParkedReported` and
`SenderStallReported` follow from: the tracker's numbers are the queue's length and
`failedCount` (`ToldInv`, kept because every change of either is reported under the same
`Queue.mu`); only the worker that is counting holds the mutex (`WorkInv`); and from `NewQueue`
on `failedCount` is positive when something is parked and nobody is counting (`CountInv`),
which emptying `.failed/` cannot break. The set of files is assumed finite.

All theorems of `ReceiverHealthProofs` are for any finite number of connections.
`ReceiverRefusalReported` needs only that an error younger than the window is still listed
(`KeptInv`); it does not rest on the gauge. `ReceiverHealthTypeCorrect` bounds
`activeConnCount` and every copy of it: the count is the number of connections counted in and
not yet out (`CountInv`). `ReceiverOldStagingReported` and `ReceiverOldStagingOnlyIdle` rest on
`GaugeInv`: if the count last changed while nobody else was on the way to the gauge (`quiet`),
only the goroutine that changed it can be, what it has loaded is the count, and after its
store the gauge is the count. Any change in between makes `quiet` false, and the next one that
starts with everybody settled makes it true again, whatever is in the gauge by then.

**Monitor** (`MonitorProofs`). `PinInv`: a listener is open only as `NewServer` and `Start`
allow for its setup, so a poll that got through to an external node went through the
handshake, where both fingerprints were compared. `RoundInv`: how far a poll is determines
what the node has said and what is in its result; `ExitInv`: only a monitor with targets has
rounds, and the code it exits with is that of its last results; with them `MonitorReportFresh` and
`MonitorExitCodeHonest` follow. The setups are arbitrary.

Only model-checked: the liveness properties (`CloseCompletes`, `RequestAnswered`,
`EveryFileHandled`, `StopCompletes`, `TransferEnds`, `RoundEnds`), because fairness and
`ENABLED` are beyond the prover. Every other property that holds is proved.

## 5. Not modelled

- `keygen` and the making of certificates (`tlsutil/certs.go`): cryptography, and two files
  written once by an operator with nothing beside it.
- Text: `RenderTable`, `FormatBytes`, the bodies of `/metrics` and `/healthz`, log lines, the
  wording of NACKs, and totals that are only displayed. Flag parsing.
- The pattern of `ValidateFilename`: a name is valid or it is not (`NoName`).
- Producers that write in place, in `Sender` and `System`: a version appears atomically there;
  `Wire` has a file that changes while it is read.
- `os.Remove` of a staging file that fails, except in `ReceiverHealth`; `entry.Info()` failing
  for a file that exists.
- The length of `recentErrors`, which grows on a node that nobody polls, and the HTTP
  connections a monitor leaves idle.
- The value of time, except in the health modules: a deadline is an action that may happen.
- A reply that does not fit its frame; `ReadResponse` then returns an error, which is
  `TransferFail`.

## 6. Plan

Done: every component except `keygen`, and a theorem for every safety property that holds.
What remains:

1. The sender's theorems for producers that reuse a vacant name, as far as they hold with one
   worker.
2. How long a gauge that was left wrong can stay so, given the idle deadline of connections.
3. The safety halves of the liveness properties: that a worker waits in `Pop` only while the
   queue is empty and not stopped, and a handler that a running `Close` waits for has had its
   connection closed.
