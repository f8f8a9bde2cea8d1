# TLA+ models of the minicloud platform

This directory holds TLA+ specifications of the minicloud platform, the TLC
configurations that check them on small instances, and proofs checked by TLAPS.
Every definition is translated from the Go source; `PROJECT.json` maps the
definitions to lines, lists the hazards of the code with the properties that
would catch them, and names a plausible bug (a mutant) that breaks each property.

To check one run: `tlc -config kv_concurrent.cfg MCKV` (the module of each run is
in the table below). To check the proofs: `tlapm KVProofs.tla`, and the same for
`AtomicityProofs`, `WatchProofs`, `LibraryProofs`, `MQProofs`, `ClusterProofs`,
`NodeProofs` and `StorageProofs`.

## The system

| Part | State it keeps | Talks to | Module |
|---|---|---|---|
| Key-value store (`primitives/db`) | map, log, journal and snapshot files, peers, watchers | disk, peers | `KV`, `KVWatch`, `AtomicKV` |
| Leader election (`util/leader`) | state and term per node, one record in the store | store | `Election` |
| Message queue (`primitives/mq`) | queue, cursor per group, DLQ channel | handlers | `MQ` |
| Controller, autoscaler, heartbeats | policies; the rest is in the store | store, scheduler | `Cluster` |
| Scheduler | none | called by the controller | `Scheduler`, `PlanPart` |
| Node agent, fake runtime | drain flag, containers, logs | store, runtime | `NodeAgent`, `AgentPart`, `Exec` |
| Load balancer | backends, counters, health | store, backends | `LB` |
| Volumes, object store | records in the store, files | store, disk | `Volumes`, `Objects` |
| HTTP API, identity, SDK, `cloudctl` | users, keys, tokens | store | `Api` |
| CNI | networks; bridges and links in the kernel | `ip` commands | `CNI` |
| DNS | zone | store, sockets | `DNS`, `DNSServer` |
| Metrics, alerts, logs | series, rule states, ring | – | `Metrics`, `Obs`, `Logs` |
| Secrets, configuration, retry | none | – | `Config`, `Retry` |
| Inference, models | registry | engines | `Inference` |

Modules named `MC…` instantiate the others for TLC. `internal/state`, the typed
layer over the store, has no source in the repository. What depends on it is
modelled from how the code calls it, and where that leaves a choice, from the
binaries committed at the top of the repository: `Create*` refuses an ID that
exists, `UpdateWorkload` compares versions, `SetPlacements` overwrites. Its calls
are atomic in the models. `UpdateVolume` is in none of the binaries; it is taken to
compare versions too. `Api` takes the fields clients send to be known to its
types, because `readJSON` refuses unknown ones. These definitions are marked
external in `PROJECT.json`.

## Runs

| Run | Module | Shows |
|---|---|---|
| `kv_concurrent` | `MCKV` | two clients, snapshots, a disk fault, Close, a crash: `WriteAhead`, `RevisionBound`, `RepliesCovered` |
| `kv_peers` | `MCKV` | peers come and go, dials fail, terms grow, a crash: `OwnAckFits`, `CallsReturn` |
| `kv_sequential` | `KVAtomicity` | one client, no peers, no disk faults, two crashes, no snapshot: `ImplementsAtomicKV`, `AckedSurvive` |
| `kv_snapshot_loss` | `MCKV` | violated: `AckedSurvive` with a snapshot and a restart |
| `kv_swaps` | `MCKV` | violated: `SwapsAtomic` with two clients |
| `watch` | `MCKVWatch` | two writers, two keys, a watcher: `WatchersCatchUp` |
| `election` | `MCElection` | two nodes over four heartbeats: `VersionFences`, `SwapsRespectLease` |
| `mq` | `MCMQ` | three consumers in two groups: `AtLeastOnce`, `StatsBalance`, `DeadAfterRetries`, `EventuallySettled` |
| `cluster` | `MCCluster` | two controllers, the autoscaler, two nodes: `TypeOK`, `Converges`, `ScaleKept` |
| `lb_least` | `LB` | violated: `LeastConnections` |
| `standalone` | `MCStandalone` | the parts that share no state, one per initial state (see below) |
| `services` | `MCServices` | objects, volumes, API, links, Exec, one per initial state (see below) |

The three violated runs are disagreements of the code with its own comments;
`findings` quotes them. `kv_snapshot_loss`: the journal is truncated by a
snapshot, and recovery replays the journal first and lets the snapshot replace the
result, with indices that start again; a write acknowledged after the snapshot is
gone after a restart. `kv_swaps`: CompareAndSwap tests the version and applies its
entry in separate critical sections, so two swaps from one version both succeed,
where `kv.go:54` says "atomically". `lb_least`: `refresh` rebuilds the backends with zero
connections while connections are open.

Deadlock is checked unless the system may really stop: clients that stop calling,
a broker with nothing to deliver, a process that panicked.

## Key-value store

Put, Delete and CompareAndSwap release `r.mu` and `st.mu` several times, so a call
is a chain of actions, one per critical section; `pc[p]` is what `p` does next:

    idle -> append -> journal -> commit -> check -> apply -> notify -> reply
                                 commit -> make -> dial -> need -> await -> check

The second line is `replicate` with other peers: it tests the length of `r.peers` under
the lock (`CommitGroup`), makes the ack channel without it (`MakeAcks`), walks the list
under `RLock` (`Dial`), and reads the length once more for the quorum (`CountNeed`). If the
list has grown in between, the node's own ack may find the channel full and blocks for
ever with `r.mu` held (`DialStuck`): `OwnAckFits` shows that this needs a `RemovePeer` of
the node itself, and `CallsReturn` excepts it.

`run()` is the variable `loop`, and `snapshot()` is split the same way. `openRaft`
and `recover` are `Open`, `RecoverEntry`, `RecoverDone` and `RecoverFail`. `Crash`
may happen anywhere and may leave half a line in the journal; `JournalFault` and
`SnapFault` are failing file operations. `role` and `votedFor` are written and never
read, `nextIndex` and `matchIndex` never used: they are left out.

`AtomicKV` states what `kv.go` promises: one-step writes, and the next version for a key
that is there. It leaves open which version a key gets after a Delete: `kv.go:30` calls
the version a "monotonically increasing per-key revision", the store starts again at 1.
`KVAtomicity` instantiates it, mapping the abstract map to `st.entries` while the
process is up and to what the journal will produce while it is not (`Replayed`: the
last journaled entry of a key decides). This holds for one client, without peers,
failing disks and snapshots, which `SequentialAssumption` states. With two clients it
does not: see `kv_swaps`.

Three calls are enough for two to race and a third to follow a snapshot or restart;
for that reason `SnapEvery` is 2 instead of 256. Fairness (`FairSpec`): a goroutine
inside a call and the background loop are scheduled, and a supervisor restarts the
process. No client has to call, and nothing has to crash.

`KVWatch` is what happens after the write: the event is read back from the map,
queued, drained by the writer or by `run()`, and fanned out without blocking. Watch
registers, lists, and replays the list from a goroutine; a timeout closes the
channel. It is separate because it shares only the write with `KV`. A channel of 2
is full after two of the three writes.

## Leader election

A node ticks at most once per heartbeat, at any moment of it: `TickStart`, the Get
(`Follow` or `GoForClaim`), the write, `Lead` or `Lose`. The write is a call of the store
in its own sections: the version is read (`ClaimPut`, on an empty store) or tested
(`ClaimCAS`), the entry gets an index (`LogClaim`), and it is applied (`ApplyClaim`,
`ApplyStore`) or dropped and acknowledged, when a call with a higher index was faster
(`ApplySkip`); calls about other keys take indices too (`OtherCall`). So two candidates
may both win. The history variable `clashed` notes that two claims overlapped inside the
store, or that one was overtaken there, or that Put met a record; the properties say what
the version of the record and the lease guarantee until then. `docs/architecture.md:92`
says "Raft term enforces single leader": two nodes can believe to lead with one term, and
nothing in the code prevents that. Journal and replication of the claims are left to `KV`.
Time is counted in heartbeats, with a TTL of 3 (5s over 1.5s); four heartbeats let a lease
expire and be taken. Liveness is not checked: terms grow with every tick, and a bound on
them would end every behaviour.

## Message queue

One topic. A consumer is a goroutine of Subscribe; the consumers of a group share a
cursor. `deliverOnce` reads the queue without the topic's lock, so an append is two steps
(new length, then element, as the compiled code stores them). Groups share each
`*Message`, so its headers are one variable, read and replaced in separate steps;
`MapRace` is the abort of Go's runtime on concurrent map access. Two consumers in one
group and one in another race on both cursor and headers. A publisher's headers may hold a
"retries" of their own, which `deliverOnce` takes for its counter (`Carried`). Handlers
fail as often as they are called: `MaxRetries` ends that. Only when two consumers have
rewritten one counter at the same time (`torn`), which can go on for ever, does `MaxFails`
bound the failures, and `EventuallySettled` claims nothing. A consumer that takes a slot
before append has filled it hands its handler a nil message: a handler that looks at it
panics (`HandleNil`), one that does not, like the tests', returns nil, and the message was
delivered to nobody (`AckNil`); `AtLeastOnce` names these slots (`Missed`) and shows that
nothing else is skipped. `DeadAfterRetries` counts the failures of all groups: a handler
may get fewer than the "up to MaxRetries" of `mq.go:49-51`. That comment's exponential
backoff is not in the code. Fairness: consumers and appends are scheduled.

## Control plane

In `Cluster` each call of a loop on the store is a step: a controller's pass reads
the workloads and nodes, plans, writes placements and then the workload; the
autoscaler reads a workload, decides and writes it; a heartbeat reports usage. Any
controller may tick as the leader at any time, since the election may leave two that
believe it. Versions are compared for equality only, so `current` holds the pairs
whose copy is the stored one. Fairness: a controller that began a pass goes on with
it; that a leader ticks again and again is a premise of `Converges`, not an assumption.
One workload with at most two replicas on two nodes is enough for a plan to change
between the read and the write of two controllers; the policy's steps overshoot both of
its bounds.

`Scheduler` is `Plan` as operators, and `PlanPart` one call of it on a list of nodes, with
what its rules ask for as a whole: replicas are only on nodes that pass the filter, on
each no more than its free CPU holds, than four, or than one with anti-affinity
(`PerNodeFits`); replicas are left over only if all suitable nodes are full, and
Unscheduled says so (`PlacesAllItCan`); no less allocated node that has room is passed
over for a first replica (`BestNodesFirst`). Whether further replicas spread is left open:
the comment at `scheduler.go:58` and `docs/architecture.md:61` say so, and the code fills
a node first. `MCScheduler`, extended by `MCStandalone`, gives the lists of up to three
nodes that TLC checks.

`NodeAgent` is one agent over the fake runtime, and `AgentPart` its place in the run
`standalone`. Containers are named after their workload, since the ID of a placement is
made of workload and node. `Apply` and `Delete` are nil in the agent that `cloudnode`
starts, so a pass only removes; containers are created, started and stopped by others, as
in the tests, at any moment. Reading the placements of a workload, listing the containers
and removing one are steps of their own. The drain flag has no effect on a pass: the
comment at `agent.go:171-173` says that the agent "will stop existing containers", and
nothing does; `Cluster` has what the flag does to the heartbeats. Fairness: the ticker
fires and a pass goes on. `Exec` is the agent's Exec and Logs over a container ID that is
removed and created again.

`LB` keeps the backing array of the backends explicit, because a connection keeps a
pointer into it while `refresh` rewrites it.

## Services (`MCServices`)

- `Objects`: PutObject writes the file, then the record; DeleteObject removes the
  record, then the file; no locks; a process may die in between. DeleteBucket removes
  the directory and no object's record (`object.go:70` says all objects are deleted): the
  history variable `lost` names the records whose files went with a bucket. `DigestMatches`
  says that these have no file, and that all others are right where no calls overlapped.
- `Volumes`: records change without the mutex that guards the files; snapshots
  share the directory with volumes; attached workloads write. `VolumeHasFile`,
  `SnapshotIsCopy`. Snapshot opens its target without truncating it, copies block by block
  and does not stop the workload: behind the copy an older, longer file keeps its tail, and
  blocks written meanwhile are old or new. `volume.go:117` says "at a given point in time"
  and `:6` "copy-on-write"; the property claims neither for these two cases.
- `Api`: a request is authenticated in one step and handled in another, with tokens
  that expire and restarts as `cloudapi` or `cloudinit`. Clients are programs using the
  SDK, the commands of `cloudctl`, the examples, and arbitrary requests. Every argument of
  SDK and `cloudctl` may be empty: `fs.Parse` stops at the subcommand, so a flag behind it,
  as in `workload list --project_id=P`, is ignored, and the request asks for no project.
  `ClientsFit` says that such requests are all that get a 400. `OnlyAdminsWrite`.
- `CNI`: a step is an `ip` command, whose errors are dropped. `LinksFollowCalls`.
- `Exec`: `ExecLogged`.

Where the code does not lock, the properties say what holds when calls do not
overlap and name what an overlap, or a death in between, may leave; the models
contain these cases. Two callers, four calls (three of Exec, two requests per
client), one death, one failing command: two calls overlap in every way and a third
meets what they left. Callers are interchangeable, so `Symmetry` is used; all
properties of this run are invariants or action properties. `Parts` holds the state that
the parts share in the run (which part is at work, who is calling, the calls left, the
mutex); `Storage`, `NodeParts` and `ApiPart` add the parts' own state and properties.

## Stand-alone parts (`MCStandalone`)

- `Retry`: `Do` with delays of 6 bits instead of 63, so that products overflow.
  `RetryBacksOff`.
- `Logs`: the ring of log records. `TailIsNewest`: a ring of up to 3 wraps twice.
- `Metrics`: the registry. `SamplesCounted`: a histogram with samples that arrive between
  the lines of an exposition, and a counter that two goroutines add to.
- `Obs`: the alert rules over `Metrics`. `AlertsExact`: rules over a gauge of two series,
  three evaluations. Rules with a label block, which `alerts.go:15` documents and the
  code never fires, are in the run and excepted from the property.
- `Config`: `EnvLastWins`, for lists of up to two ConfigMaps and two Secrets.
- `DNS`: `ZoneAnswers`, with two projects, one of which may be unreadable at a refresh, and
  names that are compressed or point anywhere, to themselves included: on those `readName`
  recurses until the process dies, and the property says which they are. It makes no claim
  about the RCODE, which stays 0 although `dns.go:211-212` says NXDOMAIN (it is set after
  the header was written), nor about the counts that follow the header a second time
  (`dns.go:237-241`).
- `DNSServer`: Run and its loops; a query may end the process as above, which
  `ServerStops` excepts. Fairness: goroutines are scheduled, reads return after their
  deadline, and the zone's loop, which chooses between its ticker and the end of the
  context, takes the second eventually (Go's `select` is random).
- `Inference`: a chat request, direct or streamed through a channel, with a client that
  may leave. `StreamIsChat`, `StreamEnds`; fairness: producer and handler are scheduled.
  (The package comment, `inference.go:4-5`, still says streaming is not implemented.)
- `NodeAgent`: see above. `SweepIsExact`, `AgentCleansUp`, for two workloads and one failing
  call or crash.

`Retry`, `Logs`, `Metrics` and `Inference` have variables and a specification of their own
(`RetrySpec`, `LogsSpec`, `MetricsSpec`, `ChatSpec`), which the theorems below are about;
`MCStandalone` extends them and takes their steps when the initial state picked the part.

## Proofs

All hold for every value of the constants that satisfies the named assumptions. `Storage`,
`NodeParts` and `ApiPart` name the instances the theorems are about (`Vol`, `Obj`, `Rt`,
`Net`, `API`) and state the properties and the assumptions of these; `MCServices` extends
them, so that TLC and TLAPS check the same definitions.

- `KVProofs` (`KVAssumption`, `NilAssumption`). `TypeCorrect`. `WriteAheadHolds`:
  `WriteAhead` alone is not inductive, because the map may be rebuilt from the journal,
  the snapshot file or the loop's copy; `WriteAheadInv` adds that these, and the entries
  of calls past the journal write, are justified by journaled ones.
  `RevisionBoundHolds` and `RepliesCoveredHolds` from `RevisionInv`, which adds that no
  call is under way unless the process is up, so recovery may lower `lastApplied`.
  `TermCoversLogHolds`: inductive with the types. `OwnAckFitsHolds` from `AckRoomInv`: while
  the node is on its own list, peers are added behind it and removed anywhere, so the
  channel a call has made covers its place.
- `AtomicityProofs` (also `SequentialAssumption`: one client, no peers, no disk faults,
  fewer calls than a snapshot takes; any keys, values and crashes). `StoreIsAtomic` is the
  refinement of `AtomicKV`, and `AckedSurviveAlways` follows from the same `AtomicInv`: no
  snapshot is ever due; the journal is numbered from 1; a process that is down has an
  empty memory; one that recovers has replayed the entries it read; one that is up has
  replayed all but the entry its client has journaled and not yet applied. Each step is
  then shown to be one write of `AtomicKV` or to leave the mapped map alone: a write takes
  effect in `applyLocked` or, if the process dies between journal and map, in the crash.
- `WatchProofs`. For `KVWatch` (`WatchAssumption`, `NilAssumption`)
  `WatchersCatchUpAlways`: inductive with the types and with where a writer keeps its
  event between the sections of a write; the argument follows an event through write,
  queue, batch and channel, and a late watcher through registration, List and replay. For
  `Api` (`NamesAssumption`: a name is neither empty nor a brace) `ApiOnlyAdminsWrite` and
  `ApiClientsFit` from `ApiInv`: a request that reached its handler fits its route, unless
  its project or ID is empty, and, if its method creates, comes from an administrator.
- `ClusterProofs`. For `Cluster` (`ClusterAssumption`) `ScaleKeptHolds` from `ScaleInv`: a
  copy that is current equals what is stored, and a pass only writes copies it made. For
  `PlanPart` (`PlanAssumption`: the nodes of a list have different IDs, amounts are not
  negative) `PlanPerNodeFits`, `PlanPlacesAllItCan` and `PlanBestNodesFirst`, for lists of
  any length. The rank of a node in a finite order is defined by counting, which replaces
  an induction over the sort; the rounds of the loop are covered by a least counterexample
  among the rounds (`Least`), with the invariant that the nodes before the first one with
  room are full, the ones behind it empty. `ClusterTypeOK` needs the same: a placement is
  a node because `Plan` returns IDs of its list; `Types` bounds the replicas a plan is
  asked for.
- `LibraryProofs`, the parts that other components use as a library.
  - Election (`ElectionAssumption`, `NoRecord`): `TypeCorrect`; `VersionFencesHolds` and
    `SwapsRespectLeaseHolds` from `ElectionInv`. As long as no claims clashed, one node at a
    time is between the test of its call and its write, with the version that is due, and
    what its tick read of the lease is still true; before the test, it is true or the
    version has moved on.
  - Log ring (`LogsAssumption`): `LogTailIsNewest` from `LogInv`, which says where each of
    the newest records is in the ring and that `full` means that the ring wrapped.
  - `retry.Do` (`RetryAssumption`: the defaults are positive): `DoBacksOff` from `RetryInv`.
    A run that goes on has one delay per call, so the delay of call i is seen when it is
    call i's turn. That no delay overflows before the last one needs powers of two to grow
    (`Powers`, by a least counterexample).
  - Metrics (`MetricsAssumption`: the boundaries ascend, as `metrics.go:28` says):
    `MetricsCounted` from `MetricsInv`. `HistInv` adds that the lines of an exposition are
    at most what the buckets count now, since samples only add to them; that buckets
    ascend follows from the sets they count. `CountInv` adds that what an Add has read is
    less than the additions begun, and is the counter's value if no other overlaps. The sum
    of the samples is a recursive function; one more sample adds to it (`SampleSumStep`)
    because two such functions cannot differ at a least argument.
  - Chat request (`ChatAssumption`: no request asks for more words than the bound of the
    draws): `ChatStreamIsChat` from `ChatInv`. Its part `Flow` says that what was written,
    the word in hand and the channel are together exactly the words sent, and that a
    channel is closed early only if the client left.
- `MQProofs` (`MQAssumption`). `TypeCorrect`; `StatsBalanceHolds`, by counting the
  consumers in flight; `DeadAfterRetriesHolds` from `RetryInv`, which covers the counter
  of a message, and each value read from it, by failures that are not still to be counted;
  `AtLeastOnceHolds` from `DeliveryInv`, which adds that one goroutine at a time fills a
  slot of the queue, the last one, and that a group whose cursor passed an empty slot has
  noted it as missed.
- `NodeProofs`. For `NodeAgent` `AgentSweepIsExact` from `AgentInv`: while a clean pass
  reads, what stayed placed is wanted or still to be read, and what stayed away is not
  wanted; while it removes, nothing that stayed placed is on its list, and what stayed
  away is on it, gone, or created since. For `Exec` (`CallersAssumption`: 0 is no caller)
  `ExecLoggedAlways` from `ExecInv`: a number is given to one call and written by that
  call only; the lock is held from the line's write to the return, so the log is still the
  one written to. For `CNI` (`CallersAssumption`: None is no caller) `NetLinksFollowCalls`
  from `NetInv`: Ensure and Attach hold the mutex; a project's bridge is there or about to
  be unless a command failed; how far an undisturbed Attach has got; and what each link
  was tried on.
- `StorageProofs`. For `Volumes` (`NoneAssumption`: None is no goroutine and no content)
  `VolFileAlways` and `VolSnapshotAlways` from `VolInv`: the goroutine that holds the
  mutex copies between two files; its target is no volume, or one being created, or
  broken; an undisturbed Create, Delete, Attach or Detach finds the record as it left it.
  For `Objects` (`ContentsAssumption`: contents are sequences of numbers)
  `ObjDigestAlways` from `ObjInv`: a call that is alone shares its object with no call
  that changes it; how far a PutObject that is alone got; and objects that no call is at
  work on are as recorded. `LostInv` adds that an object whose bucket was removed under
  its record has no file until a call writes to it again. Both rest on lemmas about the
  sequences of blocks.

Only model-checked: liveness (`CallsReturn`, `EventuallySettled`, `Converges`,
`AgentCleansUp`, `ServerStops`, `StreamEnds`), which is out of the prover's reach; `LB`,
whose property does not hold; `SwapsAtomic`, for the same reason; and `AlertsExact`,
`EnvLastWins` and `ZoneAnswers`, which say what a fold over rules, references or the words
of a message computes, an induction over data.

## Observations

Met while modelling, contained in the models or left out of them as said, and without
a run of their own (paths below `internal/`):

- Store: a call that reaches `applyLocked` after one with a higher index is dropped and
  acknowledged (`primitives/db/raft.go:282`). Half a line in the journal keeps the store
  from opening (`raft.go:193`). A put whose key is deleted before its event is read queues
  a nil event; after the timeout of a Watch the next event is sent on a closed channel;
  both panic.
- Election: a follower adopts the leader's term, increments it, and so outbids a valid
  lease when a heartbeat is late (`util/leader/leader.go:119`). Two nodes may report
  `IsLeader` until the replaced one ticks.
- Queue: the retries of one group, and a publisher's "retries" header, count against all
  groups (`primitives/mq/mq.go:253`). A DLQ channel handed out before the topic exists
  never receives.
- Control plane: `SetDrain(false)` never reaches the store; an error of GetNode registers
  the node anew without its drain mark; two replicas on one node get one placement ID
  (`controller/controller.go:103`); `maxPerNode` ignores memory
  (`scheduler/scheduler.go:200`). The API accepts negative replicas, which the models
  leave out. `agent.Logs` returns the first 64 KiB, not the tail. A second Start of a fake
  container closes its channel twice.
- Storage: overwriting an object is not atomic; a volume created over a leftover file
  keeps its bytes (`storage/volume/volume.go:45` says empty).
- API: keys are made with a lifetime of 0 although `identity.go:4-5` calls them
  long-lived; the operator role's verbs and resources have other spellings than the API
  asks about; `cloudapi` and `cloudinit` sign with keys of their own, so a change of
  server ends the sessions. `cloudctl` takes its arguments from `flag.Args()` without
  `flag.Parse()` (`cmd/cloudctl/main.go:28`), so that it always prints its usage; the
  model has the requests its commands build when arguments reach them.
- CNI: containers whose IDs differ after the first letters share a link name, and
  `shortID` panics on some IDs. DNS: `Run` ignores the configured address; a record that
  is not IPv4 breaks the message. Metrics: overlapping `Add` calls lose counts; a Snapshot
  shares its bucket counts with the registry. Alerts: equal IDs share a state. Retry: a
  delay under four nanoseconds panics. Inference: `[DONE]` may be written after the client
  left.

## Not modelled

- Generated protobuf code, which nothing calls; more than half of the repository's lines.
- `cloudlb`, `cloudscheduler`, `cloudstorage`: they build a component and wait; the
  dashboard: static files; flag parsing and printing of the others.
- Presigned URLs and the ciphers, hashes and signatures of `identity` and `secret`:
  cryptography is taken to be sound.
- Reads without a property: ListObjects, volume Read, KV.Get and Snapshot, GET handlers.
- `Scheduler.Reconcile`, `ValidateWorkload`, `QuotaCheck`, the tracer: nothing calls them.
- The interface types of `runtime.go`, formatting of labels and numbers: data only.
- The election over all of `KV`: `Election` has the sections of the store that decide about
  the leader's record, without journal, peers, faults and snapshots.
- `HandleQuery`'s constants, the usage figures of the fake runtime, `agent.Logs`' tail
  argument, delays of centuries in `retry.Do`.
