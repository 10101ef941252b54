# Weeve agent: specifications, model checking and proofs

The weeve agent is a Go daemon on an edge node. It receives commands over MQTT
from a management API (MAPI), runs *edge apps* -- groups of docker containers
that talk to each other over a docker network -- and reports their status and
logs. This directory specifies the agent in TLA+, checks the specifications with
TLC, and proves every safety property of it with TLAPS.

Paths are relative to the repository; `edgeapp.go:39` is a line of
`internal/edgeapp/edgeapp.go`.

## 1. Inventory

| Component | State it keeps | Operations | Made correct by |
|---|---|---|---|
| Orchestration `internal/edgeapp/edgeapp.go`, `internal/handler/*_msg.go` | none of its own; works on records and docker | DeployEdgeApp, StopEdgeApp, ResumeEdgeApp, UndeployEdgeApp, RemoveEdgeApp, RemoveAll, DeleteNode | records and host agree; nothing is left behind; updates and removals spare shared images, and where they do not is named; every command ends |
| Records `internal/manifest/status.go` | `knownManifests` in memory, `known_manifests.jsonl` on disk | AddKnownManifest, DeleteKnownManifest, SetStatus, SetLastLogRead, InitKnownManifests | the file is readable and not older than what the host holds |
| Manifests `internal/manifest/manifest.go` | none | Parse, UpdateManifest, makeContainerName | container names do not collide |
| Docker wrapper `internal/docker/` | the docker host | images: exists, pull, remove; networks: create, prune; containers: create, start, stop, remove, list, logs | numbers of networks are distinct and not wasted |
| Status reporting `internal/edgeapp/status.go`, `cmd/agent/agent.go:178-217` | the monitor's last lists; the retained message | GetEdgeAppStatus, SendStatus, CompareEdgeAppStatus, heartbeat and monitor loops | what is reported was true; changes are noticed; the retained message becomes right |
| Log shipping `internal/edgeapp/logs.go`, `cmd/agent/agent.go:219-234` | LastLogReadTime in the record | SendEdgeAppLogs, ReadContainerLogs | windows of logs follow one another |
| MQTT client `internal/com/` | connection, persistent session at the broker, will | ConnectNode, DisconnectNode, subscriptions, publishing | commands are not lost or overtaken; the retained status of a node that is down says so |
| Secrets `internal/secret/secret.go` | private key file; organization key in memory | InitNodeKeypair, ProcessOrgPrivKeyMessage, DecryptEnv | the key file survives a crash; the hash reported is that of the key in use |
| Startup and shutdown `cmd/agent/agent.go`, `internal/edgeapp/local_deploy.go` | how far `main` is, `nodeStatus` | main, ReadDeployManifestLocal, --delete, signals | order of recovery, connection, first messages and last message |
| Configuration and registration `internal/config/config.go`, `internal/com/https.go` | parameters | defaults, file, command line, validation, RegisterNode | no combination switches TLS off unasked |
| Utilities, packaging scripts, systemd unit | -- | -- | -- |

**How they interact.** Four threads of control share the records and the docker
host without a lock: the MQTT client's message loop, which calls the handlers one
after the other; the monitor (every 5 s); the heartbeat; and the shipping of
logs. The handlers change records and docker; every status change is written to
the file and published. The monitor and the heartbeat read records and docker
and publish; the log goroutine reads, publishes and writes records. Docker itself
is another actor: containers exit, fail and are restarted under the on-failure
policy. systemd starts the agent again whenever it ends (`Restart=always`).

**What is hard.** A command is ten to twenty docker calls, any of which may fail,
and each failure has its own path: some set a status, some roll back, some do
neither, some go on. Between any two calls the agent may be killed, containers may
change state, and what was listed before may be stale. Records are in memory and
on disk, not every change of the first reaches the second, and two goroutines
write the file. A connection may break while a command is handled, a subscription
is still being made, or a last message is under way. `PROJECT.json` lists each
such place with its line under `hazards`, with the properties that watch it, or
why none does.

## 2. Modules

    NetworkNames    Manifests    Statuses
             \         |         /      \
              +--- Docker       /        \
                     |     Lifecycle    StatusReporting
                     |     ^ implemented by
                   EdgeApp
                   /     \
           MCEdgeApp      +-- EdgeAppProofs
               |                   |
         EdgeAppClaims        EdgeAppRefinement

    ManifestStore  -- ManifestStoreProofs      NodeKey -- NodeKeyProofs
    LogShipping    -- LogShippingProofs        Config  -- MCConfig, ConfigProofs
    NodeSession    -- NodeSessionProofs        StatusReporting -- StatusReportingProofs
    LocalManifest

EdgeApp is the core. Each of the other state machines zooms in on something that
EdgeApp takes for one step or leaves out; the assumption that it makes is the
property that the other one checks:

| EdgeApp (or another module) takes for granted | and here it is looked at |
|---|---|
| saving the records is one step | ManifestStore: `FileIsCurrent`, `UnreadableOnlyIfTorn` |
| the time of the last log in a record has no influence | LogShipping |
| a status is sent | StatusReporting, where the handler does what Lifecycle allows, which EdgeApp implements |
| commands come one at a time, may be repeated | NodeSession: `HandledInOrder`, `TwiceOnlyIfCutOff` |
| messages may be lost before the subscriptions are made (NodeKey) | NodeSession |
| the agent starts with an MQTT client | LocalManifest: it does not always |

### Orchestration

* **NetworkNames** -- the number at the end of a network's name (`network.go`):
  `makeNetworkCount` takes one more than the highest number in use, and after
  the highest of all the lowest that is free.
* **Manifests** -- what of a manifest and of a record matters to orchestration. A
  module names its image by a repository and, maybe, a tag.
* **Docker** -- the host: `images`, `networks`, `ctr` (the state of each container
  there can be). One operator for the success of each call, one for its
  precondition, and what happens without the agent. An image is not its name: the
  host has *references* (`Reference`: a name without a tag means `latest`), and each
  has an image under an ID (`IDOf`), which several references may share. Names are
  looked up by a filter, where one without a tag matches every tag
  (`GetImagesByName`), and images are removed by ID, with all their references in a
  repository (`ImageRemove`).
* **EdgeApp** -- State: `known` and `disk` (records in memory and in the file),
  `nodeStatus`, and `h`, the handler at work: where it is (`pc`), why it undeploys
  (`mode`), its edge app and manifest, and what is left of the list it is working
  through. One action per docker call *with* the bookkeeping up to the next call,
  because that is where another actor, a failure or a kill can come in between.
  `UndeployEdgeApp` and `RemoveEdgeApp` are called from six places; `mode` is the
  return address and `Returned` says what each caller does with the error.
* **Statuses** -- the statuses of an edge app and which may follow which.
* **Lifecycle** -- what the agent promises of an edge app's life: its statuses, one
  edge app at a time, when something of it may be on the host, what a restart can
  lose.
* **MCEdgeApp** -- the instance that TLC checks. **EdgeAppClaims** -- what a comment
  and a test say and the code does not do.

How EdgeApp's actions follow the code:

| Code | Actions |
|---|---|
| DeployEdgeApp, 30-45 | DeployNew, DeployUpdate, (RemoveEdgeApp), AddNewVersion |
| images, 50-71 | InspectImage, Pull |
| network, 76-87 | CreateNetwork |
| containers, 101-118 | Create, Start, FinishDeploy; on failure (RemoveEdgeApp) and FinishRollback |
| StopEdgeApp | Stop, ListToStop, StopNext, FinishStop |
| ResumeEdgeApp | Resume, ListToResume, ResumeNext, FinishResume |
| UndeployEdgeApp | Undeploy / Remove (command), BeginUndeploy, ListToRemove, RemoveNext, Prune, FinishUndeploy |
| RemoveEdgeApp, from 278 | ListImages (names to remove, then IDs), ListUsers, RemoveImage, DeleteRecord |
| RemoveAll, DeleteNode | DeleteNode, RemoveNextApp, FinishDeleteNode |
| log goroutine | SetLastLogRead |
| kill and start | Restart |

Two variables are history and do not influence the behaviour: `interrupted`, the
edge apps whose command was cut off by a restart (until they are undeployed
again), and `incomplete`, those whose old version an update could not remove. They
state exactly when some of the properties below do not hold, which is what the
code is like. `faults` and `restarts` count towards the bounds.

**Abstractions.** A call to docker is one atomic step that succeeds, fails because
its precondition does not hold, or fails for no visible reason (`Fault`). A failed
call changes nothing, with two exceptions that the code makes possible: a failed
removal may have stopped the container, and a pull may count as successful without
the image. Whether docker removes an image that has several tags in one repository,
or refuses it, depends on its image store: both are possible (`MayRefuseImage`). A
registry gives the same image for a reference whenever it is pulled, and the names
in manifests are in the short form (without `docker.io/`) that docker's list shows
and its filter matches. Commands come in any order, any number of times; a redelivered command
is one more command. Environment, mounts, ports, devices, connections and secrets
configure containers and are left out. Two networks of one edge app and two
versions of one container may coexist, as on the real host.

### The other parts

* **ManifestStore** -- `knownManifests` and its file when the handler
  (AddKnownManifest, SetStatus, DeleteKnownManifest) and the log goroutine
  (SetLastLogRead) save at the same time. A save has three moments: the map's
  entries are collected, the file is truncated, the bytes are written
  (`os.WriteFile`). The encoder reads through pointers, so a record that is assigned
  in place meanwhile may be encoded as it was, as it becomes, or garbled
  (`MaySee`); a record that is *replaced* is encoded as it was (`Lose`). Two writers
  write from the start of one file, so the end of the longer one may remain
  (`Overwritten`). `Kill` may come anywhere; `Start` is InitKnownManifests, and
  `FailToStart` what it does with a file it cannot parse. History: `hit` (killed
  while writing) and `suspect` (saves have overlapped).
* **StatusReporting** -- GetEdgeAppStatus as what it is, a range over a map that changes,
  with a call to docker per edge app and one per container: `Pick`, `List`,
  `Inspect`. Three reporters build messages at the same time (handler, heartbeat,
  monitor), the monitor compares lists by position (`SameList`), and the last message
  published is retained. Go's rules for a map that changes during a range are
  those of its specification: a removed entry is not visited, a new one may be.
* **LogShipping** -- the rounds of sendEdgeAppLogs over copies of the records:
  `Begin`, `Pick`, `List`, `ReadLogs`, `Publish`, `SetLastLogRead`, while records are
  deployed and undeployed and containers come, write and go. A time is modelled by
  what it separates: how many lines each container has written by then. The module's
  name is taken from the container's image, from what follows the first slash
  (`logs.go:62`): a container of `Bare` has none, and there the agent panics
  (`Panics`), whenever a round comes to it, after every restart.
* **NodeSession** -- `main` from ConnectNode to the end (`pc`), onConnectHandler, which
  subscribes in a goroutine of its own, the message loop, the heartbeat and the
  node's status, the will, and the two ends of the connection, which notice its end
  at different times. The queue is the persistent session at the broker. A
  subscription may fail (`MayFail` says for which topics): that is only logged
  (`mqtt.go:133`), and the topic has none until the next connection. With `--delete`,
  `DeleteNode` sets the node's status to Disconnected and `Exit` publishes it and
  ends, and a message may be handled before, between and after.
* **NodeKey** -- nodePrivateKey.pem from its creation on, the organization key in
  memory, OrgKeyHash in the status messages, and a DEPLOY with secrets.
* **Config** -- defaults, file, command line, validation and RegisterNode, over the
  combinations of **MCConfig**.
* **LocalManifest** -- an agent that is always started with `--manifest`, as the
  service repeats its command line, and deploys before it connects; on a fresh node,
  or one whose file has the edge app.

**External parts** are modelled from how the code uses them, and marked so in
`PROJECT.json`: docker; the MQTT library and broker (a topic may be refused a
subscription; a message whose topic has no handler yet is dropped or comes again with the next connection; publishing while
the client reconnects is lost without an error); MAPI (answers a public key with
the organization key); `encoding/json` and `os.WriteFile` as described.

## 3. Runs

| Run | Module, instance | Shows | Distinct states |
|---|---|---|---|
| `commands` | EdgeApp: 2 edge apps, 3 manifests, 1 failing call, 1 restart | TypeOK, NoOrphans, DiskMissesOnlyInitiated, ExactContainers, AtRest, UnusedStayUnused, DistinctNetworkNumbers, RefusedOnlyWhenFull, Isolation, StartsLastFirst, NeverDowngrades, UpdateKeepsNeededImages, RemovalForgetsNoImage, DeletedNodeForgetsNothing, ImplementsLifecycle | 491,263 |
| `recovery` | EdgeApp: 1 edge app in 2 versions with one image of two tags, 2 failing calls, 1 restart, containers die and vanish | NoOrphans, AtRest, HandlerReturns, Recoverable | 100,291 |
| `store` | ManifestStore: 2 edge apps, 2 statuses besides Initiated | UnreadableOnlyIfTorn, FileIsCurrent | 141,947 |
| `status_entries` | StatusReporting: 1 edge app, 2 containers, all statuses, the heartbeat | EntryWasTrue | 904,402 |
| `status_retained` | StatusReporting: 2 edge apps, heartbeat and monitor, 1 lost message | OneChangeNoticed, RetainedBecomesTrue | 921,916 |
| `logs` | LogShipping: 1 edge app, 2 containers (the image of one has no slash), 2 lines, 2 failures, 1 restart | NothingSkipped, NothingTwice, EventuallySent | 660,262 |
| `session` | NodeSession: one command and the deletion of the node, 2 connections, a topic whose subscription may fail | HandledInOrder, TwiceOnlyIfCutOff, DeletedIsReported, DownIsDisconnected, UpIsReported, KeyComes, CommandsComeThrough | 834,911 |
| `node_key` | NodeKey: 3 runs, 3 organization keys, 2 DEPLOYs | PublishedKeyIsKept, HashIsOfKeyInUse, RejectedOnlyForWantOfKey | 44,470 |
| `config` | Config: all combinations of file and command line | PlainOnlyIfAsked, NoPauseOnlyFromFile, DefaultUnlessGiven | 254,016 |
| `claim_update`, `claim_stop`, `claim_manifest` | EdgeAppClaims (twice), LocalManifest | a counterexample each, see section 5 | -- |

**The instance of EdgeApp.** Edge app `a1` in version 1 with the images `source` and
`filter:1`, in version 2 with `filter:1` and `source:latest`; edge app `a2` with
`source`. `source` and `source:latest` are two names of one reference. So versions
share an image under one name and another under two, edge apps share an image, and
the order of modules matters and changes. An update between the versions finds
`source` to remove, which is the image of `source:latest`: that it goes, and is
pulled again, happens in the run. Two network numbers: two networks fit, a third (a rollback that failed,
then one more deployment) finds none. `recovery` leaves `a2` out, for the sake of
containers that change on their own and of liveness; there the versions have
`source` and `source:2`, and `source:2` alone, one image with two tags, which docker
may refuse to remove at every attempt. `Recoverable` holds even so, as containers and
network are removed before. It has one network number, so a deployment next to a
network that was left over is refused (`commands` has the other case), and two failing
calls, so a rollback can fail, too, or an UNDEPLOY after a failed one.

**The bounds.**
* `MaxFaults = 1` in `commands` puts one failing call at every place of every sequence of
  commands; a handler that meets a second one takes paths that start from states
  the first has left, which the commands after it reach as well. `MaxRestarts = 1`
  likewise: the history of an interrupted edge app lasts until it is undeployed, so
  everything after a restart is explored. The number of commands is not bounded. The
  theorems about EdgeApp (section 4) hold for any bounds.
* ManifestStore: the number of saves and kills is not bounded, only times of logs
  are (0 and 1), as only *later* and *not later* matter.
* StatusReporting: `MaxEntries` bounds the entries of one message. With one edge app
  an entry is built over every mixture of moments; the second run has no containers,
  as it is about lists and about what is retained, not about how an entry is
  judged. Each reporter may work any number of times. The handler as a reporter is in
  neither: it would be a third party that overtakes the other two.
* LogShipping: two lines of all containers are enough for a line before a round
  began, one after, and one that is sent twice. A panic for want of a slash is
  neither a failure nor a restart that counts towards a bound: it comes whenever the
  code comes to it.
* NodeSession: two connections are either one run whose connection breaks once and
  is made again, or two runs; a command handled in the first can come again in the
  second. The subscription that may fail (`MayFail`) is the one to the commands, on
  either connection; the proofs hold for any topics.
* NodeKey: three runs, so a key that was made in a run that was killed and in one that
  was not can be told apart; three organization keys, so that two changes can
  wait behind one another in the session.

**What the properties say.** Of orchestration:

* `NoOrphans` -- docker holds nothing of an edge app that is unknown or Undeployed,
  except after an interrupted command. Matters because UNDEPLOY and REMOVE of an
  unknown edge app are rejected: nobody could clean up.
* `DiskMissesOnlyInitiated` -- what a restart can forget.
* `ExactContainers` -- a Running or Stopped edge app has exactly its manifest's
  containers in exactly one network; the exceptions are named.
* `AtRest` -- between commands nothing is left Executing, and what is left Initiated
  has nothing on the host.
* `UnusedStayUnused`, `UpdateKeepsNeededImages`, `RemovalForgetsNoImage` -- the
  bookkeeping of shared images. An update keeps the images of the new version, but
  for one that a name stands for that only the old version has: names are subtracted
  from names, and what is removed are IDs (`edgeapp.go:297-327`). The last one is
  about commands: a restart that forgets
  a record not yet in the file forgets the images pulled for it.
* `DistinctNetworkNumbers`, `RefusedOnlyWhenFull` -- numbers of networks are neither
  shared nor wasted.
* `Isolation` -- a command touches its own edge app only.
* `StartsLastFirst` -- modules start after those that follow them in the manifest.
* `NeverDowngrades` -- no older version appears next to a newer one.
* `DeletedNodeForgetsNothing` -- a node is called Deleted even if the removal of all
  edge apps stopped at an error (`node_msg.go:19`); what is still on the host then has
  a record that UNDEPLOY accepts, in memory and on disk. Without an error nothing is
  left, and no record.
* `ImplementsLifecycle` -- refinement: `status` is the record's, `busy` the handler's
  edge app, `held` the edge apps with containers or networks, `cutOff` is
  `interrupted`.
* `HandlerReturns`, `Recoverable` -- every command ends; what is known can be cleaned
  up by repeating UNDEPLOY.

Of the other parts:

* `UnreadableOnlyIfTorn` -- the file cannot be parsed only while it is written, after a
  kill in the middle, or after two saves have overlapped. `FileIsCurrent` -- otherwise
  it has what is in memory, but for records that are Initiated.
* `EntryWasTrue` -- what a message says of an edge app was true at some moment while the
  entry was built, unless the record changed meanwhile. (It is put together from
  states of different moments, and an Error may be seen that lasted a moment.)
* `OneChangeNoticed` -- though the monitor compares lists of random order by position, it
  notices when one edge app has another status and the others have the same.
* `RetainedBecomesTrue` -- when nothing changes any more, the retained message becomes
  right and stays so, whoever has overtaken whom.
* `NothingSkipped`, `NothingTwice`, `EventuallySent` -- of the lines of containers. The
  last one is only promised while no container without a slash in its image is being
  served: with one, no round gets past it, and the logs of *all* edge apps stop.
* `HandledInOrder`, `TwiceOnlyIfCutOff`, `CommandsComeThrough` -- of commands;
  `DownIsDisconnected`, `DeletedIsReported`, `UpIsReported` -- of the retained status of
  the node; `KeyComes` -- of the organization key. The exceptions are history
  variables that name what the code does not prevent: messages that came before
  the subscriptions, or where one has failed (`early`), something published after
  Disconnected (`overtaken`), a deletion handled before `main` sets the status
  (`tooSoon`) -- to Connected (`agent.go:83`) or, with `--delete`, to Disconnected
  (`node_msg.go:24`).
* `PublishedKeyIsKept`, `HashIsOfKeyInUse`, `RejectedOnlyForWantOfKey` -- of keys.
* `PlainOnlyIfAsked`, `NoPauseOnlyFromFile`, `DefaultUnlessGiven` -- of parameters. The
  second is about both loops, the heartbeat's and that of the logs.

**Deadlock** is checked in every run of EdgeApp, ManifestStore, StatusReporting and
LogShipping, where something can always go on. It is not in `session` and
`node_key`, which end when connections or runs are used up, in `config`, which
computes a result, and in `claim_manifest`, which would end with the agent
running.

**Fairness.**
* EdgeApp, `WF_h(Handle)`: the handler runs in the MQTT client's goroutine and its
  docker calls are taken to answer (they are made with a context that has no
  deadline: a docker daemon that hangs is outside of this assumption). `Recoverable`
  also assumes that MAPI repeats UNDEPLOY (`SF` for each edge app, as UNDEPLOY is
  possible only between commands). Restarts, failures and what containers do are
  never forced.
* StatusReporting, `WF` for the heartbeat alone: its loop never ends. The monitor and
  the handler are not needed, and not assumed, for the retained message to become
  right.
* LogShipping, `WF` for the goroutine, for the same reason.
* NodeSession, `WF` for each of `Heartbeat` (it builds and publishes), `Connection` (the
  MQTT library reconnects and subscribes), `MessageLoop` (it hands over messages),
  `Will` (the broker publishes that of a lost connection) and `AnswerKey` (MAPI
  answers a public key). `main`, breaks, kills and commands are not forced.
* LocalManifest: the process goes on and systemd starts it again.

Every property of a passing run has a mutant in `PROJECT.json`: a definition and a
changed form of it (in the module, marked "Mutant") with which TLC finds the
property violated.

## 4. Proofs

All for any values of the constants, under the assumptions the modules name
(`MaxNetworkIndexAssumption`, `ImagesAssumption`, `IDOfAssumption`,
`ManifestsAssumption`, `NoRecordAssumption`,
`EdgeAppAssumption`, `StoreAssumption`, `ShippingAssumption`, `SessionAssumption`,
`KeyAssumption`, `ReportingAssumption`, `ConfigAssumption`, and those stated in a
theorem): any edge apps, images, manifests and containers, any maximal number, any
number of failures, restarts, reporters and connections, any command lines and
files. Every safety property that a passing run checks is a theorem.

Each proof has the same shape: `Init` establishes an inductive invariant, every
action keeps it (one lemma per action, or per group of actions that disturb the
same part), and it implies the property. What follows says which invariant it is
and why the property is not inductive without it.

### Orchestration

**EdgeAppProofs.** `NetworkCountIsFree`: of any set of numbers in use,
`makeNetworkCount` gives one that is in range, not 0 and not in use, or none if
all are taken. Rests on least and greatest elements of finite sets of numbers.

`TypeCorrect` (`[]TypeOK`). TypeOK is not inductive: it is strengthened with
`WellFormed(h)`, what the handler's place says of its variables (inside a command
there is an edge app; in a deployment or update a manifest of that edge app; in a
loop over modules the index of one).

`OrphansOnlyAfterRestart` (`[]NoOrphans`). The inductive invariant `OrphanInv` adds
  - `Saved`: the records *on disk* account for docker's objects too, because a
    restart replaces the ones in memory -- but for a deployment that has not yet
    set a status, whose edge app becomes `interrupted` if it is cut off there;
  - `NoneMissed`: while no error was noted, the list a removal still has to work
    through contains every container there is, and it is empty at the pruning;
  - `NothingLeft`: from the status Undeployed to the deletion of the record nothing
    is on the host;
  - `DeployingKnown`: a deployment has a record.

Every call that creates nothing keeps the accounting (`ShrinkingCalls`,
`QuietAccounts`); what is left are the actions that create something, change a
record or restart. From the same invariant: `RestartForgetsOnlyInitiated`
(`[]DiskMissesOnlyInitiated`: every step leaves both, writes all records, or is
AddKnownManifest), `NetworkNumbersDistinct` (`[]DistinctNetworkNumbers`) and
`NoNumberWasted` (`RefusedOnlyWhenFull`), both with `NetworkCountIsFree`.

**EdgeAppRefinement**, on top of it. `RefinementInv` says of the handler's place
  - `StatusAtHand`: which statuses the record of its edge app can have there -- the
    code nowhere checks the status between its first line and the next change, so
    this is what makes each `SetStatus` one that Lifecycle allows;
  - `DiskBehind`: where the disk lags behind, the older record is one that a
    deployment may begin with, so that a restart takes an edge app to a status that
    Lifecycle allows;
  - `OwnContainers`: the lists being worked through are of this edge app;
  - `Fresh`: a deployment begins on a host that has nothing of the edge app, but for
    what restarts and failed updates left;
  - `Named`: what the handler has on its list of images is what the names to remove
    stand for -- and, while it updates, no name of the new version is among these;
  - `UnusedStayUnused`, `AllGone`: about images in use and the deletion of the node.

From it follow `OrchestrationImplementsLifecycle` (`Spec => ImplementsLifecycle`: the
initial states map to initial states, and every step to a step of Lifecycle or a
stutter), `EdgeAppsRest` (`[]AtRest`; a second invariant says it of all edge apps but
the handler's, and the handler's joins them when its command ends),
`CommandsAreIsolated` (`Isolation`), `UnusedImagesStayUnused` (`[]UnusedStayUnused`),
`UpdatesSpareImages` (`UpdateKeepsNeededImages`) and `DeletedNodesForgetNothing`
(`DeletedNodeForgetsNothing`). Four theorems add an invariant of their own:

* `RunningIsComplete` (`[]ExactContainers`). `ExactInv` adds what the loop over the
  modules has made so far, from the last module down, in the one network there is
  (`SoFar`); that the edge app is complete where STOP and RESUME go through its
  containers (`AtHandExact`); and that all edge apps that are Running or Stopped are
  (`UpIsComplete`).
* `NoImageForgotten` (`RemovalForgetsNoImage`). `ImagesInv`: at each place between the
  listing of images and the deletion of the record, an image to remove is on the
  handler's list, gone, or in use. An error ends the removal before the deletion; and
  nothing but the handler changes the host's images or adds a user (`UsersOf`), as
  there is only one handler. No step but `DeleteRecord` takes a record away
  (`RecordForgotten`) -- except a restart, and the property says so: killed in a
  deployment whose record is not yet in the file, the agent forgets the images it
  had pulled.
* `NoDowngrade` (`NeverDowngrades`). `VersionInv`: outside of interrupted edge apps, no
  container is of a newer version than the record, in memory *and on disk* (a restart
  would bring the older record back, and with it an older version would be accepted);
  from the comparison on, an update's manifest stays newer than the record until it
  replaces it, and the manifest being deployed is that of the record. Only `Create`
  makes a container (`OnlyCreateMakes`).
* `LastModuleFirst` (`StartsLastFirst`). `OrderInv`: the containers of an edge app lack
  no *later* module (`LacksNone`), unless its status says that a removal is at work or
  has failed (`MayLack`) -- where a command refuses it: STOP and RESUME want Running
  and Stopped, and a deployment comes after a removal that has left nothing
  (`AddEmpty`) or makes the edge app `incomplete`. The loops of DEPLOY and RESUME have
  started what comes later than what they start (`LaterRun`, `ResumedRun`). Uses
  `ExactInv` for the way from one command to the next.

`RunningIsComplete` and `NoImageForgotten` assume that nobody removes containers by
hand (`ContainersVanish` is FALSE), as no command of the agent would notice, and an
image may lose its last user that way. `LastModuleFirst` also assumes that containers
do not stop on their own (`ContainersDie` is FALSE), without which the property is
false: docker starts a failed container again in no order. The others hold whatever
happens to containers; restarts of the agent are steps in all of them.

### The other parts

**ManifestStoreProofs** `UnreadableOnlyAfterTear` and `SavesAreCurrent`, the two
properties of ManifestStore. `StoreInv` adds what a save knows that has been alone
from its beginning: no other is active, what it encoded is what is in memory, and
the file it writes to is empty (`AloneIsCurrent`). This is what makes the atomic save
of EdgeApp sound while saves do not overlap.

**LogShippingProofs** `TypeCorrect`; `NoLineSkipped` (`[]NothingSkipped`): `SkipInv`
follows a round: up to where it collected, what it read is in the message, and all
before its start was sent (`RoundInv`); the same holds of the records on disk, which
a restart brings back (`DiskSent`); and a container that does not exist yet has no
lines (`Fresh`). `NoLineTwice` (`[]NothingTwice`) goes the other way: `TwiceInv` says
that a line MAPI has is not later than the time in the edge app's record, in memory
and in the file (`RecordsUpToDate`, `FileUpToDate`), but for the lines of the message
whose time is about to be stored, and for containers that are `excused`: a kill came
in that moment, or they were left over when a new record, with no time at all,
replaced theirs. The copy a round works with is as current (`MessageInv`), and a time
that is stored is never before the one it replaces, whichever record that is by now
(`TimesInOrder`).

**NodeSessionProofs** `DownNodesSaySo` (`[]DownIsDisconnected`) and `DeletedNodesSaySo`
(`[]DeletedIsReported`), with and without `--delete`. `SessionInv` says that the client
is never more connected than the broker believes, and what a leaving agent has left
behind; `RunInv` that a deletion handled before `main` sets the status came too soon,
so that `main` overwrites no other.
`CommandsInOrder` (`[]HandledInOrder`) and `CommandsOnce` (`[]TwiceOnlyIfCutOff`).
`OrderInv`: the session's queue has each command once at most and in the order of
sending (`QueueInOrder`, `SentOnce`); what was sent is in the queue, was handled, or
came where there was no subscription (`NoneLost`, `HeldIsEarly`), so nothing sent
earlier is missing when the first message that waits is handled; and a command that
was handled and is still queued is the one at hand, or was cut off (`HandledInv`).
Rests on a lemma about removing an element from a sequence.

**NodeKeyProofs** `SentKeyIsKept` (`[]PublishedKeyIsKept`): no key was sent before one is
in the file, and a run that has one to send has it from the file (`FileInv`).
`HashNotAhead` (`[]HashIsOfKeyInUse`) and `SecretsAreDecrypted`
(`[]RejectedOnlyForWantOfKey`). `KeyInv` orders the messages: the queue has them in the
order in which MAPI made its keys, none older than the one in use (`QueueInv`), no
key is missing between two neighbours, nor between the one in use and the first
message if the agent has missed none (`NoGap`), and the key being installed is the
first message's (`HandlingInv`).

**StatusReportingProofs** `TypesHold`; `EntriesWereTrue` (`EntryWasTrue`): `EntryInv` says
of an entry being built that, while its record has not changed, what is right at the
moment has been noted (`IsNow`); that an Error was right when it was found, be it a
number or a state in the list or an exit code; and that without one all containers
listed had the right state then, or one is still to be inspected (`FoundSoFar`) -- for
which the exit code of a container must not change while the edge app is Stopped.
`ChangesAreNoticed` (`OneChangeNoticed`) counts: the comparison goes by the position
and looks at statuses only, so two lists it finds the same have as many entries of
every status; but if all entries but one are in both lists, the status of that one has
one more in the first list than in the second. Rests on lemmas about the cardinality
of what a sequence without repetitions contains.

**ConfigProofs** `NeverPlainUnasked` (`[]PlainOnlyIfAsked`), `PauseUnlessFileSaysNot`
(`[]NoPauseOnlyFromFile`, for the heartbeat and the logs) and `DefaultsStay` (`[]DefaultUnlessGiven`), for any set of
fields, command lines and files, those with unknown keys and with values of a wrong
type included. `ConfigInv` says where the value of each parameter is from
(`Provenance`) and what has been checked of it at each stage (`FileTyped`,
`Checked`).

**Only model-checked:** what is out of the prover's reach: liveness under fairness
(HandlerReturns, Recoverable, RetainedBecomesTrue, EventuallySent, UpIsReported,
KeyComes, CommandsComeThrough). No module declares a RECURSIVE operator, and no
property uses ENABLED.

## 5. Where words and code disagree

With a run each:

1. *"remove the old version of the edge app"* (`edgeapp.go:34`): the error of the
   removal is dropped at line 39 and the update goes on. Run `claim_update`: with
   one failed call, modules of both versions are on the host and the edge app is
   Running. (`ExactContainers` names it as `incomplete`.)
2. *"exited"* after STOP (`orchestration_msg_test.go:188`): only containers that were
   running when listed are stopped (`edgeapp.go:146`). Run `claim_stop`: one that docker
   is about to restart runs again while the edge app is Stopped.
3. *"Path to the .json manifest file to be deployed"* (`README.md:91`):
   `local_deploy.go:33` undeploys first, which is an error for an edge app that is
   not known, and `main` ends. Run `claim_manifest`: on a fresh node, with nobody
   killing the agent or sending it commands, every start ends there, and the edge app
   is never deployed. For one that is known (the other initial states of LocalManifest)
   the first status message is published with an MQTT client that does not exist yet
   (`mqtt.go:180`), a panic at any of three places (`SetAndSendStatus`).

Met while modelling, without a run of their own:

* An update may remove an image that the new version needs (`edgeapp.go:297-327`):
  names of images are compared as words, but an old name without a tag matches the
  images of all tags, and images are removed by ID. The new version's deployment
  pulls it again, if it can. (The exception of `UpdateKeepsNeededImages`.)
* The name of a module is taken from behind the first slash of its image
  (`logs.go:62`): the agent panics when it reads the logs of a container whose image
  has none, in the next round after every restart, too. `testdata/test_device.json:30`
  has such a name, `serial-ingress`. (The exception of `EventuallySent`.)
* With `--delete`, a node that MAPI deletes while `main` removes the edge apps ends as
  Disconnected, not as Deleted (`node_msg.go:24`, called at `agent.go:79`; part of the
  exception of `DeletedIsReported`).

* The status message includes *"the running edge apps and their modules"*
  (`README.md:113`): a new record is not written (`manifest/status.go:46`) before the
  deployment has ended, so after a restart in between modules run that belong to
  no edge app the agent knows (the exception of `NoOrphans`); and there is no message
  at all when a listed container is gone before it is inspected
  (`edgeapp/status.go:82`; `Inspect` of StatusReporting).
* `README.md:113` calls the topic `<nodeId>/nodestatus`; the code publishes to
  `nodestatus/<nodeId>`.
* `README.md:129` asks to set a field `Registered` in the configuration file, which
  `config.go:67` (DisallowUnknownFields) refuses: see `readNodeConfigFromFile` of Config.

## 6. Plan

Done: the orchestration with its refinement and all its runs; the store of records,
status reporting, shipping of logs, the session, keys, configuration, the local
manifest; theorems for every safety property that a passing run checks. What could follow, the most valuable first:

1. `--delete`, which removes all edge apps in `main` while the message loop already
   hands commands to the handlers (`agent.go:79`): a second process in EdgeApp.
2. A measure that every step of the handler decreases, proved for finite sets of edge
   apps and containers: the part of `HandlerReturns` that is not liveness.
3. The framing of the stream of logs (`container.go:170`) as an algorithm on
   sequences of bytes, against what docker sends.
4. The connections between modules (EGRESS variables, `manifest.go:204`).

## 7. Not modelled

* Parsing of manifests (Manifests has the struct only): validation, environment, mounts, ports, devices, labels, connections. They
  configure containers and have no state. One hazard is listed: a connection to a
  module that the manifest does not have is an index out of range
  (`manifest.go:204`).
* Cryptography: a key decrypts what was encrypted for it, and nothing else.
* The framing of the stream of logs: a window of lines is read as a whole or fails.
* The hook that publishes the agent's own log, TLS, credentials: no state that any
  other part depends on.
* `--delete` beside the message loop: EdgeApp has one handler process; NodeSession has
  both, but not docker.
* The images of an edge app that is undeployed and then deployed in another version
  stay on the host, without a record (`edgeapp.go:32`). Nothing in the repository
  says otherwise, so there is no property to check.
* Time: periods and timeouts are nondeterministic choices of order.
* Utilities, installer and uninstaller, the systemd unit (except that it restarts
  the agent), and tests.
