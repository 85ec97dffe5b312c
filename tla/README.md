# A TLA+ model of claude-cage

claude-cage runs coding agents in libvirt virtual machines ("cages"). It is a
Go command line program without a daemon: every `cage start`, `cage stop`,
`cage pull`, ... is a process of its own that reads some files, calls `virsh`,
`qemu-img`, `passt` or a registry, writes some files and exits. There is no
lock anywhere. What makes the program correct is therefore what several
invocations, a guest, a libvirt daemon, a server and the host do to the same
files and domains in between, and what an invocation that fails or dies halfway
leaves behind for the next one.

This directory holds TLA+ modules translated from the source under `src/`,
TLC configurations that check them on small instances, and TLAPS proofs of what
they promise for every instance. `PROJECT.json` maps every definition to the
lines it models.

    cd tla
    tlasany CageLifecycle.tla
    tlc -workers 2 -config lifecycle_quiet.cfg MCCageLifecycle
    tlapm LayerStoreProofs.tla

Contents: 1 the system's parts, 2 what is modelled and how, 3 the runs,
4 the proofs, 5 what the model leaves out, 6 the plan.


## 1. The system's parts

| Component | Code | State it keeps | Operations |
|---|---|---|---|
| Cage lifecycle | `internal/cmd/{start,stop,restart,remove}.go`, `internal/cage`, `internal/mode` | `~/.cage/cages/<name>/state.json`, SSH keys, the VM directory of each mode | start (create, reconfigure, boot), stop, restart, remove |
| libvirt client | `internal/libvirt` | the domain `cage-<name>` on `qemu:///session` (user mode) or `qemu:///system` (root mode) | define, undefine, start, shutdown, destroy, redefine, wait |
| Passt isolation | `internal/network/isolation.go` | a namespace, a veth pair, NAT and DNAT rules, the passt process and its socket | SetupIsolatedNetwork, Cleanup |
| Image store | `internal/imgstore` | layers by digest, `.partial` files, manifests, refs | PutLayerStreamed, CopyFromFile, SaveManifest, WriteRef, DeleteRef |
| cage pull | `internal/cmd/pull.go`, `internal/registry/blob.go` | a pool of layer workers | pull a manifest, its layers, its base, write the ref |
| Saving and tagging | `internal/images/operations.go`, `internal/cmd/{image,tag}.go` | refs, layers, base images | SaveLayered, tag, image rm |
| Snapshots | `internal/snapshot` | snapshots inside the domain and its qcow2 | create, restore, delete |
| Tokens | `internal/tokensrc`, `internal/auth` | `auth.yaml`: access and refresh token per host | Token, Refresh, login and logout writes |
| Registry client, cage push | `internal/registry`, `internal/cmd/push.go` | upload sessions on the server, a pool of workers | do with one retry, single and multipart upload, PutManifest |
| Device login | `internal/oidcdevice`, `internal/cmd/{login,logout}.go` | polling interval, deadline | start, poll, refresh |
| Cagefile build | `internal/build`, `internal/cmd/build.go` | a temporary cage, its VM; the settings the instructions add up to | parse, boot, run steps, stop, save the disk, clean up |
| Base images | `internal/images/{manager,types}.go` | `<name>.qcow2`, `.tmp`, metadata | download, list, delete |
| Bridge firewall, port forwarding | `internal/network/{firewall,forward,libvirt,ports}.go`, `internal/cmd/port.go` | iptables chains, socat processes, `state.Ports` | add, remove, clean up |
| Configuration | `internal/config`, `internal/cmd/{init,config}.go` | `config.yaml`, `.cage.yml` | load, resolve, init |
| virtiofs daemon | `internal/virtiofs` | a daemon and its socket | start, stop |
| Guest files | `internal/{cloudinit,ssh,runtime}` | seed ISO, keys, env file | generate |
| Queries, presentation | `internal/{doctor,progress,logging,tty,...}`, read-only commands | none | |

How they interact. The lifecycle commands load `state.json`, ask libvirt
whether the domain is active, and act on whichever of the two they trust at
that step; in root mode they put a passt process between the VM and the host
and redefine the domain to use its socket. `start` copies on write from a base
image or a chain of layers in the image store; `pull` and `build` fill that
store; `push` and `pull` talk to the registry through one `Client`, whose token
provider reads and rotates the refresh token in `auth.yaml`, under a mutex
inside one process and under nothing between processes. A build is a lifecycle
of its own, without the lifecycle's commands: it creates a temporary cage on a
base image and saves its disk through the same operation as `image save`. All
isolated cages share the host's one IP network and its iptables chains.

Which behaviours are hard, and what each component has to guarantee:

- **Lifecycle.** A cage is spread over five places that are never changed
  together. A failed creation is rolled back by removing the whole cage
  directory; a stop that times out is only a warning; a state file is
  overwritten in place. *Correct* means: nothing but a remove loses what the
  guest wrote; between commands `state.json` agrees with libvirt; a defined
  domain can be booted; the network a running VM depends on is the recorded
  one, so that stop can find it; every command ends.
- **Image store.** Pull workers of one process and of others share file names
  derived from a digest. Resuming trusts the size of a file someone left there.
  *Correct* means: bytes under a digest have that digest, and a ref leads to a
  complete image, whatever was interrupted; asking again gets there.
- **Isolation.** Addresses are the same for every cage and interface names are
  cut to ten characters of the cage's name. *Correct* means: a running cage has
  its namespace, passt and rules whatever other cages do, and stop removes what
  start added.
- **Tokens.** A refresh token may be valid once only. *Correct* means: no
  worker spends a token that was already spent, and the newest one is the one
  on disk.
- **Registry client.** *Correct* means: a manifest is put only when its blobs
  are there, a repeated request is harmless, every upload ends.
- **Device login.** *Correct* means: the client never polls faster than it was
  told and stops at the deadline.
- **Build.** *Correct* means: the image holds what the Cagefile says, the disk
  that is saved belongs to a VM that has stopped, and the temporary cage is gone
  afterwards.
- **Base images.** Check-then-act on two files without a lock. *Correct* means:
  an image that is found is whole, its metadata tell its architecture, and the
  base under a cage is not taken away.
- **Settings.** They are read at every start and kept in three places that are
  written at different times. *Correct* means: a VM boots with what the files
  said when the start read them.
- **Ports, firewall.** Only of bridged cages, which nothing creates.

The hazards behind these, each at its line of code with the properties that
cover it, are the list `hazards` of `PROJECT.json`.


## 2. What is modelled

| Module | Models | Kind |
|---|---|---|
| `Cage` | what one cage promises its user | abstract specification |
| `CageLifecycle` | start, stop, restart, remove of one cage, libvirt, passt, guest and host | detailed specification |
| `MCCageLifecycle` | fault sets for the checks | model |
| `CageLifecycleProofs` | theorems on `CageLifecycle` | proofs |
| `QuietCageProofs` | theorems on `CageLifecycle` in a day's use, and its refinement of `Cage` | proofs |
| `LayerStore` | the image store, `pull`, save, `tag`, `image rm` | detailed specification |
| `MCLayerStore` | two small manifests | model |
| `LayerStoreProofs` | theorems on `LayerStore` | proofs |
| `TokenSource` | the token source of `push`, `auth.yaml`, `login`, `logout` | detailed specification |
| `MCTokenSource` | fault sets for the checks | model |
| `TokenSourceProofs` | theorems on `TokenSource` | proofs |
| `RegistryTransfer` | `push`: the workers, uploads, retries, the manifest | detailed specification |
| `RegistryTransferProofs` | theorems on `RegistryTransfer` | proofs |
| `MCRegistryTransfer` | two layers, two pushes | model |
| `IsolationNet` | the host network under several isolated cages | detailed specification |
| `MCIsolationNet` | three cages, two veth names, one port | model |
| `IsolationNetProofs` | theorems on `IsolationNet` | proofs |
| `BaseImages` | base images: download, removal, and what cages and saves make of them | detailed specification |
| `Cagefile` | the parser and the substitution of arguments | operators |
| `CagefileBuild` | `build`, composed with `BaseImages` (EXTENDS it) and `Cagefile` | detailed specification |
| `MCCagefileBuild` | nine Cagefiles and a guest's directories | model |
| `CagefileBuildProofs` | theorems on `CagefileBuild` and, in it, `BaseImages` | proofs |
| `CageSettings` | `.cage.yml` and `config.yaml` to domain, ISO and `env.sh` | detailed specification |
| `MCCageSettings` | seven `.cage.yml` files, two images | model |
| `CageSettingsProofs` | theorems on `CageSettings` | proofs |

### CageLifecycle

A process in `Procs` is one invocation of a command. Its record holds the
program counter, the mode it runs in (root mode is uid 0), its flags, `seen`
(the `State` it has loaded: later steps write *that* one back, however old),
`mine` (the passt it started, Go's `isolatedNet`), and what a remove still has
to visit. An action is one file operation or one `virsh` call with the
conditions around it, so other invocations, the guest and the host interleave
exactly where they can.

| Variable | In the code |
|---|---|
| `file` | `state.json`: absent, torn (cut short by an interrupted `os.WriteFile`), or a State with status, mode and recorded passt |
| `dom` | the domain on each connection: defined, active, network device, virtiofs mount |
| `snaps` | connections whose domain has snapshots (a domain with snapshots refuses `undefine`) |
| `disk` | `disk.qcow2` per mode: none, fresh, or data (a guest has run on it) |
| `keys` | the SSH key pair |
| `passt`, `sock` | passt processes alive; the one bound to the cage's socket path |
| `condemned` | history: a remove was accepted since the cage was created |

`StartCheck` to `SaveNew` are `runStartCmd` and `createCageFromConfig` with its
three rollbacks; `Reconfigure` is `cage.Reconfigure`; `Load` to `SaveRunning`
are `startCage`; `RestartCheck` to `SaveStopped` are `restart.go` and `stop.go`;
`RemoveCheck` to `DeleteState` are `removeCage`, `ssh.DeleteKeys` and
`cage.DeleteState`. `RedefineProbe`, `RedefineUndefine` and `RedefineDefine`
are the three calls in `RedefineDomain`, shared by reconfiguration and by the
passt redefinition, which give up differently. `libvirt` itself is external and
modelled by how the client uses it: an undefined active domain lives on as a
transient one, a name in use refuses a definition.

`Faults` is what may go wrong in a behaviour: any step's failure, the death of
a command between two steps or within a write, a guest that ignores ACPI, one
that powers itself off, a host restart, snapshots, denied access.

`Concurrent` says whether a command may begin while another is in progress.
The code has nothing that prevents it; `FALSE` is what a user who waits for the
prompt does, and the run `start_race` shows what the alternative costs.

`Life` and `KeptData` read the state of the abstract cage off the parts of the
real one; `KeepsPromise` says that under this mapping every step is a step of
`Cage` or none. `Cage` says, among other things, that no VM runs before its
cage exists or after its removal was accepted, that data survives stops and
starts, and that a condemned cage can only vanish.

### LayerStore

A process in `Clients` is an invocation of pull, save, tag or rm; `work` has
one worker per layer of its manifest, at most `Concurrency` of them busy. A
file is abstracted to its number of blocks and to whether these are the layer's
first blocks in order, which is all that a digest tells apart. A descriptor
opened on `.partial` keeps writing to the same file when that is renamed or
unlinked: `Renamed`, `Replaced` and `Removed` say what each file operation
makes of every open descriptor.

`Stat` to `Discard` are `PutLayerStreamed` with the copy loop split into
blocks; `StartWorker` and `JoinWorkers` are `pullLayers`, where an error stops
no sibling; `CheckBase` and `WriteRef` end `runRegistryPull`. `CopyFromFile`
and `SaveManifest` are `SaveLayered`, `BeginTag` is `tag.go`, `DeleteRef` is
`image rm`. A server may ignore `Range` and send the layer from its start, may
send other bytes, and refuses a range that begins at the layer's end.

### TokenSource

The servers issue pairs of tokens, which the model numbers: grant *n* has access
token *n* and, if the refresh token rotates, refresh token *n*. `stale` and
`expired` are counters that time moves up: grants up to `stale` expire within
`refreshSkew`, those up to `expired` are refused. `live` are the refresh tokens a
server still accepts.

A process in `Procs` is one invocation of push, login or logout. `command` is its
program counter, its host, the static token of a push that does not refresh, the
entry a login is to store, and the `auth.yaml` it has read. A push has `Workers`;
`work` has the request each of them is making, from `Client.do` through the
provider and back, and `mutex` says which of them is inside
`Refreshing.Token` or `Refreshing.Refresh`.

| Variable | In the code |
|---|---|
| `file` | `auth.yaml`: an entry per host, an empty one for a host it does not have |
| `mutex` | `Refreshing.mu` of each push |
| `command`, `work` | the invocations and their goroutines |
| `live`, `granted` | the servers |
| `stale`, `expired` | time |
| `loggedIn`, `lost` | history: hosts logged in to since the last logout; hosts whose new refresh token never reached `auth.yaml` |

`Send` is `Client.do` with its one retry: after a 401 it calls `Refresh` and then
`doOnce` again, which asks `Token` for the token to send. `doOnce` ignores an
error of `Token` and sends the request without a token; an error of `Refresh`
ends the request (`Fails`). `Load`, `Post`, `Reload` and `Store` are the body of
`Token` and `Refresh`, with the request to the token endpoint apart from the two
accesses of `auth.yaml` in `AddHostFull`, so that answers get lost and other
commands come between them. `ReadFile` and `WriteFile` are the same two for login
and logout. The push reads `auth.yaml` twice before its first request: the static
token comes from the first read, whether to refresh from the second.

`Overlapping` is to this module what `Concurrent` is to the lifecycle. `Faults`
are lost requests and answers, failing file accesses, a killed command, a clock
or a lifetime that is wrong (the client refreshes early or not at all), and a
server that lets a refresh token be used again.

### RegistryTransfer

A member of `Pushes` is a run of `cage push`; `work` has the goroutine of each
layer. A step is one request, or one piece of a body. `Refused`, `Refresh` and
`Answered` are `Client.do`; `Put`, `PutRefused`, `PutAgain` are
`putWithRefresh`, whose body is the open file: what a request has read, a second
one does not send unless the file was rewound (`pos`), and a transport that goes
on reading after it was refused (`late`) moves it again. `Wait` is the
`sync.WaitGroup` and the list of errors in `pushLayers`, `PutManifest` the end of
`runPush`. The registry keeps a layer only if the pieces it got are the layer's,
in order and all of them, which is what its digest check does.

The refresh itself is one step here, which gives a live token or fails: what
`TokenSource` proves of it (a retry's token is newer, a session is kept) is what
this step assumes.

### IsolationNet

`cage` has, for each cage, the step of its start, whether the namespace exists,
the passt processes in it and the one in `state.json`; `veth` and `routes` are the
host's interfaces and the routes to 192.168.250.0/30 in the order they were
made, of which the kernel uses the first; `masq`, and `dnat` for each port, count the
copies of iptables rules, which are appended without looking and deleted one at a
time. `PortOf` gives a cage the host port its ssh is forwarded from, which another
cage may have too, or none (`SSHPort` 0: no DNAT rules). The FORWARD rules come and
go with the MASQUERADE rule and are counted with it. A step is one function of
`isolation.go`, with the several `ip` or `iptables` commands it runs: what fails among
them is taken back by the same `TakeBack`, the cleanup after a failed setup step.
`Stop` has the `IsolatedNetwork` that `stop.go` rebuilds from the State, without veth,
address and port, and `Abandon` collects what no command takes back. A namespace that
is deleted while a passt lives in it disappears by name only, together with the other
end of the veth.

### BaseImages, Cagefile, CagefileBuild

`BaseImages` has one base image and one tag, two processes that each run a pull,
an `image rm`, a `start` that creates a cage, or an `image save`. A file's bytes are
whose download they are, who still has to write the rest, and whether two
downloads are mixed in them; `fd` says under which name the file that a process
writes is linked now, since one process's `os.Remove` or `os.Rename` moves what
another writes.

`Cagefile` has `Parse`, `ParseAndValidate`, `substituteArgs` and `ResolveArgs` as
operators on lines of tokens: a word, a blank, or one of the marks the parser
looks for (`=`, `#`, `$V`, `${V}`). How tokens are spelt is the one thing left out.

`CagefileBuild` extends both. `BuildProbe` to `BuildSave` are `createTempCage`, one action
per file or `virsh` call, each with its own rollback (`Fails`, `Ends`), then the
instructions (`ExecRun`, `ExecCopy`, `ExecEnv`, ...), on a guest that is reduced to directories
with owners, and at the end stop, save, and the deferred clean-up. A step that fails may
leave what the code has made by then: one of two directories (`BuildDir`), the key
directory or the pair (`BuildKeys`). `ExecRun` is `cd dir && export A=..; export B=..; command`
with the exports in any order (`orders` remembers which): the `&&` binds the first of
them only, so that with an ENV the command runs even where its directory is gone.
`ExecCopy` deletes the destination and moves the copy there; it fails for `/`, and for a
file whose destination ends in a slash. Other commands go on with the base image in
between. What an image should hold is said apart from the
executor, by what the lines before a line add up to (`WorkdirAt`, `UserAt`, `EnvAt`, `RunsTo`,
`CopyAt`), and what should be read by the words of the lines that say something (`Written`).

### CageSettings

One cage, one command at a time, and a user who edits the two files whenever he
likes. `cmd` is the start in progress with the configuration it has read
(`asked`) and resolved (`cfg`); `seed` is what the ISO tells the guest to do,
`dom` and `vm` are the domain as defined and as it runs, `env` is `env.sh`. The
memory stands for all sizes; the one of a domain on passt is `IsolatedSize`, a constant
of the code. A write of `env.sh` that fails or is killed leaves the exports up to any name
(`Cuts`). Three variables are history: `block`, the `env:` block that the last start has
taken over; `given`, every variable with its value that a `.cage.yml` or the image has given
this cage so far; `cut`, that a write was cut short. They are set from `.cage.yml` and the
image's manifest (`Merged`), not from what the code writes.


## 3. The runs

| Run | Expect | Properties |
|---|---|---|
| `lifecycle_faults` | pass | `TypeOK`, `DataSafe` |
| `lifecycle_quiet` | pass | `TruthfulState`, `DefinedHasDisk`, `NetworkServed`, `KeepsPromise`, `CommandEnds` |
| `start_race` | violation | `DataSafe` |
| `layer_store` | pass | `TypeOK`, `LayerIntact`, `RefComplete` |
| `layer_stuck` | violation | `ResumesNaturally` |
| `layer_shared` | violation | `LayerIntact` |
| `token_source` | pass | `TypeOK`, `LiveRefresh`, `SessionKept`, `RetryNewer`, `LoginKept`, `RequestEnds` |
| `push` | pass | `TypeOK`, `TagComplete`, `SurvivesExpiry`, `PushEnds` |
| `build` | pass | `TypeOK`, `BaseWhole`, `MetaTruthful`, `ImageArch`, `ImageIsCagefile`, `CagefileWhole`, `ArgsResolved`, `BuildLeavesNothing`, `KeptForDebugging`, `BuildEnds` |
| `save_stale` | violation | `SavesStopped` |
| `settings` | pass | `TypeOK`, `AsConfigured`, `EnvCurrent` |
| `isolation` | pass | `TypeOK`, `RulesAccounted`, `NetworkStands`, `NothingLeft` |

Every property of a passing run has a *wrong variant* of one action next to the
action it deforms (`StartCheckTornIsNew`, `HashTrusting`, ...), a bug one could
plausibly write there. `mutants` in `PROJECT.json` pairs them; with the variant
in place TLC refutes the property under the same configuration, so none of the
properties holds just because of how the model is shaped.

**lifecycle_faults** starts from no cage and from one saved before modes
existed, runs commands one after the other in either mode with all flags, and
lets every fault happen at every step, any number of times. The guest's disk is
lost only when a remove was accepted. About 1.8 million states.

**lifecycle_quiet** has the failures of a day's use: images, `define`, `start`
and passt fail, the guest powers off by itself. It leaves out crashes, a full
disk and snapshots, after which `state.json` may indeed disagree with libvirt:
the code has no recovery for a command that dies between `virsh start` and
`SaveState`, other than the corrections in `startCage` the next time. Under these
faults `state.json` tells the truth between commands, a defined domain has its
disk, a VM's network is the recorded one, the abstract promise is kept, and
commands end. Guests shut down when they are asked to: that the wait for one that does
not ends by its deadline is not exercised here, and after such a stop `TruthfulState` is
false (`save_stale` has a consequence). Two passt ids are enough for an old one and its
replacement to be alive at once. 19 000 states.

**start_race**: two starts of a new cage both see no `state.json`. The loser's
`define` is refused, and its rollback, `DeleteState`, deletes the winner's disk
under the running VM.

**layer_store** has two clients, a one-layer and a two-layer manifest that
share a layer, two refs, two blocks per layer (so that there is a first, a last
and an interruption between), files of up to three blocks (one more than a
layer, so that a file can be too long), two workers per pull, and all faults.

**layer_stuck** is the liveness of resuming, which the comment at `store.go:117` promises:
with a network that breaks off over and over, a layer that is asked for over and over
gets into the store. It does not: `io.Copy` can fail after the last byte, `.partial` is then as
long as the layer, and the Range behind its end is refused ever after, although only the
hash is missing. (A `Sync` that fails leaves the same file; the disk does not fail in this run.)

**layer_shared** allows two pulls of the same layer at once. One verifies and
renames the `.partial` that the other still has open for appending, and the
stored layer grows.

**token_source** has a push with two workers, two hosts, three grants (the
first, the one a refresh buys and the one after it) and all faults. One process
is enough: commands that follow one another differ from one process that runs
them all in nothing but its name, and the theorems below are for any number.
A refresh token is never presented twice, although two workers that were refused
with the same access token both force a refresh; a failure at any step ends a
session only if the server had already exchanged the refresh token when the new
one was lost (`lost`); the retry never repeats the refused token; every
request ends, with one retry at most and the mutex given back on every path.

**push** has two pushes of two images that share a layer: one of them with a
refresh token and every fault, beside another machine's with a fixed token and
none, so that layers appear in the registry on their own. The small layer takes
the single PUT; the large one, four times the part size (where
`SelectUploadMode` changes over), the multipart upload, which the server cuts
in its own part size: into a full part and a short one, or into a part too few.
`Limit = 2` lets both workers of a push run at once. A tag is put only over
complete layers; a token that expires at any step alone fails no push that
can refresh it (a fault of another kind, or an expiry that hits a request already
sent again, is recorded in `hurt`); every push ends. 110 000 states.

**isolation** has three cages, `build1` and `build2`, whose veth names are the
same after the cut, and `web`, which has the port of `build1`; `build2` has none. Four
starts and any number of stops, removals, power-offs and killed starts between them
allow all three cages up and one of them started again. No command takes back more
rules than its own (they are all alike, so one too many would be another cage's); a
running cage has its namespace, its passt and its rules, and its veth unless a namesake
took it; without a killed start, a power-off or `remove --force`, a stopped cage has no
namespace, veth or passt left. What it leaves all the same is the rules; they, and what the
exceptions leave, are counted (`left`, `orphans`), not forbidden, and it is not claimed that
the host reaches every cage that runs ("What the code does not keep"). 556 000 states.

**build** runs three commands (a build counts as two) on one base image, with
every fault. Four Cagefiles have between them each instruction, a reference to an
argument before its declaration, a default, line continuations (one broken off
by the end of the file), blank and comment lines, relative and absolute
directories, a directory that only root may make, and a syntax error. 336 000 states.
What it shows, with the limits that each property names:

- `BaseWhole`, `MetaTruthful`: an image that is found is whole and its architecture known,
  unless two downloads met or one was cut short while publishing. Without that condition it
  is false (`AlwaysWhole`).
- `ImageIsCagefile`: an image holds every RUN of its Cagefile once, in order and as the user
  `USER` says, where and with the environment it says as long as no COPY took the
  place of a working directory; every COPY to a new place that no later
  one deleted, and of the context nothing else; or the build fails. A COPY to a place where
  something is replaces it, against the reference.
- `CagefileWhole`: no word is lost between lines and instructions, and no comment's word
  gets there, if no comment stands inside an instruction.
- `BuildLeavesNothing`: a build that ends by itself leaves no domain, VM or disk; a failed
  key generation leaves its directory or the keys, a failed directory or ISO what was made
  before. Excepted is the failure of `SaveState`, after which nothing is cleaned up.
- `KeptForDebugging`: a build told to keep its cage does, with the VM running if an
  instruction failed, though the repository's README calls it stopped.

**save_stale** has a guest that outlives the 30 seconds it gets to shut down, and no other
fault. `cage stop` prints a warning and records the cage as stopped; `image save` reads that
and begins to copy the disk of a VM that runs. Three commands are enough. The same
property is broken, in a longer behaviour, by a build, which saves after its own 30 seconds.

**settings** has seven `.cage.yml` files (with and without memory, env, shares,
isolation; one that does not resolve), two images, one with an env, two sizes
and every fault. A domain that a start has defined itself boots, in user mode, with the
sizes that the files asked for when the start read them, however they were edited since;
`env.sh` has every variable of the block last taken over, unless a write was cut short, and
none that was not given to this very cage. 2.5 million states. In root mode the memory is
another, a start after a power-off defines nothing, and `env.sh` may hold more than the block
and the image give, and less: see "What the code does not keep".

**The bounds** are the smallest at which each of these can go wrong: two actors
where interference is the question, a third cage where one must be left out of
a clash, two pieces where one can be missing, one retry more than the code
makes. What section 4 proves holds for all values of the constants, with the
hypotheses named there.

**Fairness.** `CageLifecycle`: a command that can take a step does (it is a
running process; `virsh` and `qemu-img` return), and a guest that was asked to
shut down does, or the 30-second limit (fault `hang`) ends the wait. Invoking,
crashes, power-offs and restarts are never fair. `LayerStore`: workers and
commands run; `Fetch` and `AppendBlock` are strongly fair, which says that a
server asked infinitely often answers infinitely often. That is an assumption
on the environment, not on the code, and without it no client could finish. Nobody is
obliged to repeat a pull: `ResumesNaturally` has the repetition as its premise.
`TokenSource`: the goroutines of a push run, and `Lock` is strongly fair because a
`sync.Mutex` hands itself to a goroutine that has waited too long. That `Post`
ends assumes that the token endpoint answers or hangs up. `http.PostForm` has no
timeout, so nothing in the code bounds that wait, and it happens with the mutex
held. No command need begin, and a push need not make another request.

`RegistryTransfer`: the goroutines of a push run, and each request is answered or
ends with the client's 60-second timeout (a fault, `network`); that a refresh
ends is the assumption made for `TokenSource`. `CagefileBuild`: the build goes on;
its ssh commands are assumed to return, since the code gives `RUN` no limit. The
other modules have safety properties only.

**Deadlock** is checked in the runs of `CageLifecycle`, `LayerStore`, `TokenSource` and
`CageSettings`: in every state someone can type a command. The other modules
bound the number of commands, so their behaviours end.

**What the code does not keep.** Sentences of the repository, stated as properties of the
modules, that have no run of their own: TLC refutes each in the instance given, a
variation of the run's `.cfg` with the property in the place of the others. In all but
those that name one, `Faults = {}`.

| Property | Sentence | Instance | What TLC finds |
|---|---|---|---|
| `InUseKept` (`BaseImages`) | `image.go:83`, images in use cannot be removed | `build`, `Typed = {"alias"}` | cages record the image's own name, so for an alias none is found |
| | | `build` | a start saves its cage after the list was read |
| `AlwaysWhole` (`BaseImages`) | `manager.go:161`, all-or-nothing | `build` | two downloads share `.tmp`; one renames what the other writes |
| `UserSavedAtRest` | `operations.go:113`, a cage must be stopped | `build` | `image save` looks, the user starts the cage, the disk is copied |
| `BuildSavedAtRest` | the same | `build`, `{"hang"}` | after 30 seconds `executor.go:574` goes on to the save |
| `CleanedUp` | `executor.go:72`, ensure cleanup | `build`, `{"host"}` | `SaveState` fails and the defined domain stays |
| `KeptStopped` | `README.md:649`, kept (stopped) | `build`, `MCKept` | nothing stops the VM of the failed build |
| `NoInstructionFails` | `docs/cagefile.md:121`, WORKDIR is created | `build`, `MCWorkdir` | `mkdir -p` without sudo (`executor.go:369`) |
| | `docs/cagefile.md:25`, `COPY ./package.json /app/` | `build`, `MCDir` | the directory is deleted first, and `mv` wants it (`executor.go:494`) |
| `CopiesInto` | `docs/cagefile.md:208`, into `/app` | `build`, `MCInto` | the file takes the place of the working directory |
| `RunsInWorkdir` | `docs/cagefile.md:111` | `build`, `MCPast` | `cd` fails and the command runs all the same (`executor.go:398`) |
| `RunsAsCage` | `docs/cagefile.md:180`, as the `cage` user | `build`, `MCWorkdir` | root by default, as `docs/cagefile.md:132` says |
| `EnvInOrder` | `docs/cagefile.md:90`, available to RUN | `build`, `MCPath` | Go ranges over a map: `B=$A/bin` is exported before `A` (`executor.go:394`) |
| `CommentsSkipped` | `docs/cagefile.md:221` | `build`, `MCNote` | a `#` line inside a continued RUN is part of the command (`parser.go:45`) |
| `IsolatedAsAsked` | `README.md:1016`, memory | `settings`, `NoEnvProjects` | 4096 MB in root mode (`start.go:489`) |
| `AlwaysAsAsked` | `README.md:252`, reconfigures if stopped | the same, `{"poweroff"}` | `state.json` still says running (`start.go:126`) |
| `BlockRules` | `docs/cloud-init.md:90`, rewrites that file | `settings`, `EnvProjects` | a block taken out leaves `env.sh` as it is (`start.go:135`) |
| `ImageEnvKept` | `start.go:229`, build-time envs survive | `settings`, `BuiltProjects` | the second start writes the block alone |
| `EnvReachesGuest` | `README.md:1090`, without recreating | `settings`, `EnvProjects` | the ISO made at the creation does not read `env.sh` (`start.go:330`) |
| `NoMountWithoutEnv` | `start.go:328`, no virtiofs mount | `settings`, `NoEnvProjects` | `Reconfigure` always mounts (`reconfigure.go:44`) |
| `EachServed` | `isolation.go:74`, a unique subnet | `isolation` | of two cages the host reaches the first |
| `StopTakesRules` | `isolation.go:165`, removes the network | `isolation` | `stop.go:116` gives `Cleanup` no port and address |
| `RemovedWhole` | `docs/development/modules-cmd.md:95`, all resources | `isolation`, `{"force"}` | namespace and passt of the running cage stay |

**Observed.** Other differences met while modelling:

- `remove` after a stop that timed out deletes the cage under a running VM, which
  lives on as a transient domain (`remove.go:27,94`, `stop.go:91,126`).
- Two logins to different hosts at once: the later rename drops the entry the
  other one has stored (`authfile.go:113`, `login.go:30`); with `Overlapping = TRUE` TLC
  shows it.
- A PUT refused early may still read its file after the rewind
  (`upload_single.go:92`), and its retry then sends a short body.
- The veths' names are cut to ten characters, so that of two namesakes the second start
  takes over the first one's. After a power-off the next stop kills the new passt only,
  and namespace and veth stay.
- An in-place conversion that fails leaves half an image under the final name,
  against "all-or-nothing" (`manager.go:161`).
- A download's deferred `Remove` may take the `.tmp` of another one, whose rename then fails.
- `COPY` with several sources copies the first and drops the others, against the example at
  `docs/cagefile.md:321`; a blank line inside a continued instruction is skipped. A build
  overwrites a tag in spite of its check (`build.go:79`), which asks for base images only, and
  an invalid tag is found only at the end.
- An image's env is not taken into account by `RequiredFromConfig`; isolation and
  `allowed_subnets` are fixed at creation.


## 4. The proofs

`CageLifecycleProofs`, for any number of commands and passt processes, any
fault set and either starting point:

- `TypeCorrect`: `Spec => []TypeOK`, overlapping commands included.
- `SafeData`: `~Concurrent => (Spec => DataSafe)`.

`DataSafe` is about a single step, but that step (an entry removed by
`DeleteState`, or a `qemu-img create`) is taken on the strength of something
read many steps earlier. The inductive invariant `DataInv` says what a command
still knows of `state.json` at each step: in the *birth* steps there is none
(so the disk cannot be data), in the *doom* steps the cage is condemned, from
`active` on the file is the State that was loaded or a torn remnant of a failed
save, which is never taken for a missing cage. `NoOrphanedData` adds that
without a `state.json`, and not condemned, no disk holds data; `OneAtATime`
that two commands are not in progress together. `StartKnows`, `StopKnows` and
`RemoveKnows` prove that each action preserves this, `WorldKnows` that crashes,
guests, restarts and snapshots do, `CommandSparesData` that under it no step
loses data. The hypothesis is needed: `start_race` is the counterexample.

`LayerStoreProofs`, for any clients, layers, manifests, refs and sizes:

- `TypeCorrect`.
- `IntactLayers`: `~SharedPulls => (Spec => []LayerIntact)`. Invariant
  `IntactInv`: a layer has at most one worker (`Exclusive`), so nobody's open
  descriptor is on the final file (`Writing`), and a worker at `rename` still
  has the file it verified (`Hashed`). `layer_shared` is the counterexample
  without the hypothesis.
- `CompleteRefs`: `Spec => []RefComplete`, shared pulls included. Invariant
  `RefInv`: a command about to write a ref has its manifest and every layer
  stored (`Announced`), a worker that is done has its layer (`Fetched`), and
  nothing ever deletes a layer or a manifest (`StoreGrows`).

`TokenSourceProofs`, for any numbers of processes, workers, hosts and grants and
any faults:

- `TypeCorrect`, overlapping commands included. It needs `Active`, that only a
  push has requests, because a request's step looks up its command's host.
- With `~Overlapping`: `RefreshTokensAreLive`, `SessionsAreKept`, `LoginsAreKept`
  and `RetriesAreNewer`, all four from one inductive invariant, `TokenInv`. It
  says what a worker in the critical section knows (`Holds`): the entry it has
  loaded is the stored one, the pair it has bought is newer than the stored
  one and its refresh token is live and nobody else's, the copy of `auth.yaml`
  it will rename is up to date. `Follows` bounds the tokens a worker outside has
  seen by the stored one, which is what makes a retry's token newer;
  `Writes` is `Holds` for login and logout; `Issued` and `Apart` say that stored
  tokens were granted and that no two hosts share a refresh token.
  The mutex enters by `OthersHold`: while a worker changes `auth.yaml` or spends
  a token, no other one of its push knows anything that this could make wrong.
  Without the hypothesis two logins at once are a counterexample (`Overlapping =
  TRUE` makes TLC find it).

Each action has an `...Effect` lemma, what it makes of each variable, and an
`Inv...` lemma that it keeps `TokenInv`.

`RegistryTransferProofs`, for any pushes, layers, sizes, limits, faults and
answers of the registry, overlapping pushes and repeated ones included:

- `TypeCorrect`.
- `CompleteTags`: `Spec => []TagComplete`. A worker that is `ok` has its layer in
  the registry, which never drops one (`Fetched`); `Wait` lets a manifest go only
  over workers that are all `ok` (`Ready`).
- `PushesSurviveExpiry`: `Spec => []SurvivesExpiry`. What a worker knows that met
  no other fault is `Whole`: in a PUT the registry has the file up to where it was
  read, from its beginning, so the PUT that follows a refused one starts anew; of
  a layer in parts it has those up to the one before the part in the buffer,
  and the parts reach the end of the file (`Reaching`, `PiecesJoin`). `Spared` adds
  that whatever is sent again is sent with a token that is accepted.

One inductive invariant, `PushInv`, is behind the three. `WorkStep` and `PushStep`
say what a step of one worker, and of the push itself, has to keep; each action
then has a lemma about one worker or one push alone.

`CageSettingsProofs`, for any `.cage.yml` files, images, sizes and faults, the
files edited at any time:

- `TypeCorrect`.
- `BootsAsConfigured`: `Spec => []AsConfigured`. A start that defines the domain
  has defined what it had read (`Defined`), and nothing redefines it before the
  boot but the isolation step, which says so (`AsAsked`): of a VM on passt nothing is claimed.
- `EnvIsCurrent`: `Spec => []EnvCurrent`. `Written` is the argument: once a cage has
  a `state.json` and an ISO that reads `env.sh`, what the file holds was given to this cage,
  and the block last taken over is in it or a write was cut short (`Current`); before, it is
  the merged env of the creation in progress, and `Given` says that what a start is about to
  write has been given. The one exception is a creation that could not write `state.json`
  whole (`Stillborn`): its `env.sh` may be older, and the cage can never boot, because nothing
  reads its `state.json`. `given` and `block` are the user's files and the image's manifest, so
  the theorem says something of the code; it does not say that a variable taken away is gone,
  which is false.

The inductive invariant is `SettingsInv`, whose third part, `Shaped`, gives the forms a
start in progress can have: by name it knows the image alone (`NamedStart`), next to
a `.cage.yml` what it read (`HereStart`). The proof has a lemma for each action, over
three for how a step can go on (`GoesOn`), end (`Ends`) or redefine the domain
(`RedefineStep`).

`QuietCageProofs`, for any number of commands, one after the other, and of passt
processes, under `QuietDays`: no cage from before modes existed, and of the faults
failing images, definitions, starts and isolation, and guests that power off.

- `TruthToRest`, `DefinitionsBoot`, `NetworkAtRest`.
- `QuietRefinement`: `QuietDays => (Spec => KeepsPromise)`, `CageLifecycle` implements
  `Cage`.

Each fault that `QuietDays` excludes, and a legacy cage, makes TLC find one of them
violated, and rightly so: the code has no recovery for a command killed between
`virsh start` and `SaveState`, nor for a `state.json` that cannot be written; a stop
whose guest hangs goes on, as does a remove that is refused access; a reboot powers
off every domain; with a snapshot `undefine` fails and the disk is deleted all the
same; a legacy cage has no mode in its `state.json` even when it runs.

The inductive invariant `QuietInv` adds to `DataInv` what fits the step of the command in
progress (`Fits`): `Whole`, what `state.json` must come with; `Owned`, whose
the domains are and at which steps none of them runs; `Wired`, which passt a domain
connects to while a start replaces it; `Doomed`, what a remove has already taken
down. Every action has a lemma that it keeps `Fits`, and, for the refinement, one that
it is a step of the promise or none (`...Promise`).

`IsolationNetProofs`, for any finite set of cages, however their names are cut and their ports given, any
number of starts and any faults:

- `TypeCorrect`, `RulesInAccount`, `RunningNetworkStands`, `StoppedLeavesNothing`.

`NetInv` has five parts: a veth is only ever given to the cage it is named after
(`VethsOwned`), it gets its address once (`NotRoutedYet`, so that a route is not
there twice), there is always an id left for a passt (`IdsLeft`), and of each step of a
start it is known what stands by then (`Standing`) and, of a cage never abandoned, what
does not (`Clean`). `RulesAccounted` is inductive beside it: each step changes one cage's
rules and what it has left together.

`CagefileBuildProofs`, for any Cagefiles, calls and guests, any number of commands
beside the build, any architectures and faults:

- `TypeCorrect`, `BaseIsWhole`, `MetadataTell`, `ArchRecorded`, `NothingIsLeft`,
  `FailureIsKept`.

The invariant is `BuildIInv`. `FilesInv`: as long as the history is not spoilt, one
download at a time has created its file, and at each of its steps it is known whose the
bytes in `.tmp` and in the image are (`Loaded`). `CagesInv`: a cage being created is
created by one command, and the base it was made on was there. `LayersInv`: the architecture carried to the
manifest is that of the base that was looked at, at every step of a save or a build.
`BuildInv`: what exists of the temporary cage at each step (`TempInv`), and at each
way to end (`EndInv`). A lemma for each action of a command says that it does no more
than `Does` allows, which `DoesKeeps` turns into the rest; the build's steps go by
`GoesOn`, `ComesToEnd` and `InstructionRight`.

- `ImageAsWritten`: `Spec => []ImageIsCagefile`.
- `CagefileIsWhole`: `Spec => []CagefileWhole`, from `NothingLost`, which is about the
  parser alone. Both suppose that no comment stands inside an instruction (`NoInnerComment`):
  `CommentsSkipped` is false.
- `CommandsResolved`: `Unnested => (Spec => []ArgsResolved)`. `Unnested` says that no value
  an argument gets mentions an argument. It is needed: `substituteArgs` replaces all
  `${V}`, then all `$V`, so a mention that a value brings in with the second pass stays.
  `MCCagefileBuild` assumes it of its own Cagefiles, so TLC checks it there.

For `ImageAsWritten` the invariant is `WrittenInv`. `ExecutorInv` is the argument: at
instruction `i` the executor's settings and what has been run are those the lines before
`i` add up to, defined without an executor (`WorkdirAt`, `EnvAt`, `RunsTo`, ...): the
commands and their users always, their places and environments as long as the working
directories stand (`RunsAt`, `StandsTo`, `DirThere`); what each
COPY of them has put somewhere is there unless a later one was put on it or above it, and
it can only be there because its source was found (`CopiesAt`; that is what keeps a
later `mkdir -p` from replacing it), and nothing else of the context is there (`ContextAt`). Before the first instruction nothing is done, after the
last everything (`BeforeRun`, `AfterRun`). `BuiltInv` carries this to the image, until
someone else's save replaces it, and `LayersOfUser` says that no other command can save
the temporary cage. There is a lemma for what one more line of each kind adds to the
meaning (`WorkdirNext`, `EnvNext`, `RunsNext`, ...) and one for each instruction
(`WorkdirAdvances`, ...) that it does just that. `CagefilesAssumption`, that Cagefiles are
sequences of lines and these sequences of tokens, is used to know that the instructions
are a sequence at all; that no file in the context is called like the model's marks for
nothing and for a directory is part of `CagefileBuildAssumption`.

`NothingLost` is an induction over the lines. The library's induction theorems take an
operator as a parameter, which no installed prover can instantiate; `Induction` here is on
a *set* of numbers, from the least element of what is outside it (`WFMin`), and
`Recursion` and `Flattening` say from it what `Reading` and the community modules'
`FlattenSeq` compute. The invariant of the reading is `Gathered`: after `n` lines, the
words written so far are those of the instructions understood, followed by those still in
the buffer, which is not empty exactly when the next line continues an instruction.
`CommandsResolved` rests on `ReplaceTyped`: a text in which each mark is replaced by a value
is over the tokens of the values and those that are no marks.

Only model-checked: `CommandEnds`, `RequestEnds`, `PushEnds` and `BuildEnds`; liveness under fairness is outside the proof system. Every invariant and
action property of a passing run, and the refinement, is a theorem.


## 5. What the model leaves out

- `CageLifecycle`: one cage; cages with the same network are the subject of
  `IsolationNet`. Bridged cages (virtiofsd, port forwarders,
  firewall) cannot be created by this version, so the branches for them are not
  taken. A paused domain counts as inactive for `IsDomainActive`, which looks
  for "running" only; nothing in the program pauses one. Restoring a snapshot
  changes the content of a disk, which is not distinguished. The contents of
  the domain XML are reduced to the network device and the virtiofs mount.
  Building the disk, keys, env file and seed ISO is reduced to success, failure
  and the files left; `CreateDisk` includes that `qemu-img` overwrites an
  existing overlay, and merges the failures around it, which all end in the same rollback.
  `Snapshot` is one step, since only that one exists matters here. `Load` includes what may fail
  just before `startCage`: the env file of a start, `config.yaml` of a restart.
- `LayerStore`: reading an image (`MaterializeChain`), which changes nothing
  in the store. Nothing ever deletes a layer or a manifest, so there is no
  garbage collection to model. Nothing is lost with the power: directories are
  not synced by the code and file systems differ in what that costs. A manifest
  that lists one digest twice behaves as two pulls of that layer would.
- `TokenSource`: a server that answers a spent refresh token by ending the
  session (the property is that this never comes up); usernames, issue times
  and the exact lifetime; the retry of a body that cannot be rewound, which the
  code does not make; the permissions of the directory. A token written by hand
  into `auth.yaml` is a login by another name. A push whose worker fails lets
  the others finish, so there is no cancelling.
- `RegistryTransfer`: what the token provider does inside; pulling by another
  machine while a tag is put; garbage collection in the registry; the same layer
  twice in one manifest; a file that grows while it is sent (one that shrinks is there, and
  excepted from `SurvivesExpiry`); what net/http still reads for a refused request while the
  next one is cut into parts.
- `IsolationNet`: the rules other software has in iptables; the blackhole routes
  inside a namespace (they are never taken back apart from it); a crash between two host
  commands of one function (a kill between two functions is there); the FORWARD rules
  apart from the MASQUERADE rule; a namespace abandoned by name is out of reach
  for good. Commands on one cage follow each other.
- `BaseImages`: one image name; metadata other than the architecture; a download
  is two steps, so it can be cut short once.
- `CagefileBuild`: one build, of Cagefiles with known tokens; what a command does
  in the guest besides the directories; a guest whose ssh hangs; `history:` and
  labels of the manifest. Overlapping builds have different temporary names.
- `CageSettings`: overlapping commands (`CageLifecycle`), `config edit`'s editor,
  ssh ports and `--port`, disk size (fixed at creation by the code), the text of
  the cloud-init files; wrong-mode commands, which are refused.
- Device login: the polling is one loop of one process against a server that
  sets its pace; nothing else depends on it. What a login stores is in
  `TokenSource`.
- Bridge firewall, port forwarding, virtiofsd: they belong to bridged cages. In
  this version nothing sets `NetworkBridge` or a State's IP, so there is no
  state the program can be in from which to model them.
- Read-only commands, doctor checks, progress, logging, terminal handling: no
  state.


## 6. The plan

All modules of the plan are written: `Cage`, `CageLifecycle`, `LayerStore`, `TokenSource`,
`RegistryTransfer`, `IsolationNet`, `BaseImages`, `Cagefile` with `CagefileBuild`, and
`CageSettings`. `DeviceLogin` and `PortForward` were planned and dropped, for the
reasons in section 5. Every safety property that a passing run checks is a theorem, under
the hypotheses named in section 4; the liveness properties are left to TLC.
