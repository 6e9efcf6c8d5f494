# dstack-webhost: specification, model checking and proofs

The daemon of this repository (`src/proxy`) runs other people's projects inside
one confidential VM. It keeps a record and a hash-chained audit ledger of each,
measures the ledgers in RTMR3, starts their containers, hands out credentials,
tokens, tunnels and browsers, and promises that what an attested project serves
is what its ledger and its binding quote say. Everything runs in one asyncio
process. There are no locks on projects: a handler owns the world between two
awaits and nothing across one, and the process can end at any point with files,
containers and RTMR3 left as they are.

This directory holds TLA+ modules of that behaviour, TLC runs on small
instances, and proofs that TLAPS checks for all instances.

    tlc -workers 2 -config MCBroker.cfg MCBroker      # one of the runs
    tlapm Broker_proofs.tla                           # one of the proofs

`PROJECT.json` lists components, runs, findings, hazards, theorems, and for every
definition the source lines it stands for.

## 1. Inventory of the system

| part | state | operations | hard because | modules |
|---|---|---|---|---|
| Audit ledger `audit.py` | `NAME.jsonl`, `NAME.head`; events in RTMR3; `replayed` | `record`, `_load_entries`, `_save_entry`, `_extend_rtmr`, `replay_anchors` | crash between append and head; `EmitEvent` fails after the entry is on disk; entries recorded while the boot replays; ledgers older than the chain | `AuditLedger` |
| Project lifecycle `deploy.py`, `projects.py` | `project.json`, `files/`, `files.pin/`, `import-bundle.json` | `deploy` (URL, upload, image, redeploy, pinned import), `promote`, `unpromote`, `teardown`, export and import of a fleet | handlers overlap at every await with a private copy of the record; each can fail or die half way; a reference is resolved more than once | `Lifecycle`, `Images`, `Restore`, `Routing` (ports) |
| Runtime manager `runtimes.py` | containers, `image_routes`, `runtime_ips`, networks | `refresh`, `start_isolated`, `stop_isolated`, `start_image`, `recover_all`, the restore of a bundle, the reclaiming of networks, `get_route` | recovery runs behind an open API; containers and networks outlive the process, routes do not; names conflict; the address pool is small | `Lifecycle`, `SharedRuntimes`, `Images`, `Resources`, `Restore` |
| Deno router (source text in `runtimes.py`) | child processes, their sockets and clients | spawn, respawn with back-off, proxy, drain | timers fire while it drains; a child that ends takes a request with it; a child comes back on newer files | `Router`, `Lifecycle` (`Respawn`) |
| Browser pool `browser_pool.py` | queue of slots, leases, browsers | `start`, `acquire`, `drive`, `release`, `_sweep_loop`, `stop` | sweeper against a render in progress; calls that time out and still take effect; drained slots | `BrowserPool` |
| Credential broker `broker.py` | a file per grant, index, usage logs | `create`, `get`, `list`, `revoke`, `reauthorize`, `cleanup_expired`, `recover`, `handle` | a proxied call keeps the object across the upstream's answer and then stores it | `Broker` |
| API tokens `tokens.py` | a file per token, index | `create`, `authenticate`, `list`, `revoke`, `delete`, `cleanup_expired`, `recover`; scopes | restarts between marking and expiry; scopes compared as strings | `Tokens`, `Scopes` |
| Tunnels `tunnel.py`, `ingress.py:492-586` | a file per tunnel, index, relays | `create`, `get`, `list`, `delete`, `cleanup_expired`, `recover`; WebSocket relays | two tasks per relay that must end together; tunnels that end under a relay | `Tunnels` |
| Boot `main.py` | order of start and recovery | replay, recovery in the background, port checks, warm-up, sweep | each step may stop the boot, or be overtaken by the API; what was stored stops every later boot | `Routing`, and in each module its part |
| Ingress and API `ingress.py` | port map and TCP servers of the boot | dispatch by host, path and port, proxying, HTML | the map is that of the boot and the records are those of now | `Routing!Answers`, `Lifecycle!Served`, actions that stand for API calls |
| Docker socket proxy, tracker | the list of containers an app may operate | create, operate, list, `recover`, audit | the list is in memory and docker's containers are not; a creation is two calls with an entry in between | `DockerProxy` |
| dstack proxy | a server and a socket per project | `ensure`, `remove` | sockets end with the process; both await while other handlers run | `Resources` |
| Evidence endpoint `ingress.py:1071-1162` | none of its own | `_api_status`, `_api_verification` | the record is loaded, dstack awaited twice and the audit log read last | `Evidence` |
| Verifier `verify/`, `evidence.py`, `verify.py`, `ladder.py` | none | the legs of the facts, policies, the binding check, statuses of the command line | an input that is missing must be an error, and producer and consumer must agree on fields | `Verifier` (without `ladder.py`) |
| Capability store `caps/` | JavaScript package | attenuated capabilities | | not modelled |
| Docker client, templates, examples, reports, RFCs | | I/O and text | | not modelled |

How they interact. The API handlers of `ingress.py` call `deploy.py`, which saves
records through `projects.py`, asks `runtimes.py` for containers and
`audit.py` for entries; `promote` asks dstack for a quote in between.
`main.py` replays all ledgers before it opens the API, then runs
`recover_all` as a background task of the open API. `broker.py`, `tokens.py`
and `tunnel.py` share a shape (files, an index, a sweep every minute, a
`recover`) and one promise, which is the module `Delegation`.

What makes each correct, in a sentence:

* ledger: a daemon that serves has ledgers that load, and RTMR3 and the files
  account for each other;
* lifecycle: record, ledger, binding and what is served agree at rest, and the
  binding agrees with its record always;
* images: as long as a reference does not move, the image that runs is the one that
  record, ledger and pin name;
* restore: a fleet comes back on a new machine at its commits, and nothing changes
  that nobody asked for;
* routing: a request reaches the project it is for, and what the API accepted does
  not keep the daemon from starting;
* resources and runtimes: at rest each project has the network, sockets, container
  and route that its record asks for, and nothing is held for one that is gone;
* router: an app is served again after its child ends, a request is sent only to a
  child that has listened, and a stop ends;
* docker socket: what an app was told of its containers stays true over restarts;
* pool: one browser is in one pair of hands, and clean in between;
* delegations: issued once, honored until they end, never honored again, and not
  lost before that;
* evidence: a bundle that claims a binding binds what it names, and a consumer
  that lacks an input says so.

## 2. Modules

    AuditLedger                       <- AuditLedger_proofs  implements MeasuredLog
    BrowserPool                       <- BrowserPool_proofs
    Lifecycle                         <-+
    Evidence = Lifecycle + Verifier   <-+ Evidence_proofs
    Images                            <- Images_proofs
    Resources, SharedRuntimes,        <-+
    DockerProxy, Router               <-+ Containers_proofs
    Routing, Restore                  <- Routing_proofs
    Broker                            <- Broker_proofs     implements Delegation
    Tokens, Tunnels                   <- Tokens_proofs     implement Delegation
    Scopes = Tokens + a scope

`Verifier` is operators only. `Delegation` is the abstract specification of what is
issued and ends, and `MeasuredLog` that of ledgers beside a register that measures them.

The `MC` modules give the instances, each `.cfg` a run. Four of them put together
components that do not meet:

    MCEvidence   = Lifecycle | Evidence           MCBoot       = Routing | Restore (two instances)
    MCTokens     = Tokens and Scopes | Tunnels    MCContainers = Images | Resources (two instances)
                                                                 | SharedRuntimes | DockerProxy | Router

What these instances choose (kinds of projects, bounds, who waits for whom) are
constants that the `.cfg` gives, under named assumptions, so that the theorems are
of every choice. Beside a verification, `MCEvidence` lets only uploads and
promotions run, of projects without capabilities, by a constraint on its steps
(`UploadsAndPromotes`); the theorems about bundles are of `EvidenceSpec`, which has no
such constraint.

There the variable `component` is chosen at the start and never changes. The
component it names takes all the steps, and the others stay in their initial states,
in which none of their fair actions is enabled or the fairness asks for nothing.
What is common to them (bounds and counters of requests and faults, the clock,
whether the process is up) constrains each alone (in `MCBoot` it is the counters only), so a
property of one component's variables holds of such a composition exactly if it holds of that component.
Interleaving them would multiply the states and show nothing more. Components that
do affect each other are in one module: a verification beside handlers, recovery
and restore beside the API, the image a project runs beside its ledger.

Operators whose comment begins with *Mutant of* are broken versions of the operator
they name, used only to show that a property can fail; the specifications never
refer to them.

Conventions. A record that may be missing is a set of at most one element. One
step of the model is everything the code does up to the next await at which
another coroutine can see a difference. A file that a crash left half written
and that the next start will not parse is the empty set where the start then drops
it (Broker, Tokens, Tunnels), and a flag where it does not: `torn` holds such ledgers
(AuditLedger), and such records in the six modules that save `project.json`
(Lifecycle, Images, Resources, SharedRuntimes, Restore, and Routing; `halved` is that of
Restore in `MCBoot`). `ProjectStore.save` truncates the file and then fills it
(`projects.py:100-101`), and `list()` raises at one it cannot parse, so each of these
modules has a `TornSave` beside its `Crash`: the process ends (`Dies`) inside a save that
a call, or the handler at work, could have made at that moment (`Saving`); the record is
gone and its project in `torn`; and no later `Boot` gets past it.

### AuditLedger, MeasuredLog

`file[p]`, `torn[p]` and `head[p]` are the two files of a ledger. SHA-256 is
taken to be injective: the hash of an entry is the sequence of contents it
covers. `Record` is `record()` up to its await: load and check, append, head.
`EmitDone`, `EmitFails` are the answers of `EmitEvent`. `Boot`, `ReplayLoad`,
`ReplayEmit`, `ReplayDone`, `ReplayRaises` and `ReplayEmitFails` are
`replay_anchors`; the order in which it takes ledgers and entries is left open.
`Crash` and `CrashInSave` end the process, the latter between the two writes,
and either may reboot the machine, which clears RTMR3. The initial states
include ledgers from before the chain.

In `MeasuredLog` there are no files, hashes or boots: `said[p]` is what the hash of the
last entry covers, which only grows; `measured` is RTMR3, and takes only prefixes of what was said; `owed`
is what a call has still to measure, or was refused; and `attested`, the daemon's
`replayed`, may be set only when all that was said is measured or owed. A step
of a ledger is one of `Say`, `Measure`, `Attest` and `End`, or a stutter.

### Lifecycle

`jobs` are the handlers in progress. A job has the await it is at (`pc`), its own
copy of the record (`loc`), the pin of an import, and the container work still
to do (`work`, a sequence of stops, drops and creations, read from the store
where the code reads it). Projects are static, in the shared runtime, or in
containers of their own. `Boot` starts `recover_all` as a job that runs beside
the API. `Served(p)` is what a request reaches: files, the routed container or
the shared one.

Assumed or abstracted: git, docker and dstack answer or fail (`Fails`), at any
await; of two concurrent clones into one directory one succeeds; the exists
check, stop and removal of a container are one step, creation, start and route
another; a redeployed project's manifest carried a source; recovery takes the
projects with their own containers in any order; dstack is present.
`OneAtATime` is an assumption about callers (an operator who waits for each
answer) and is stated per run. Image projects are in `Images`, environments and
bundles in `Restore`, networks in `Resources`, ports in `Routing`; dockerfile
projects are not modelled.

### Images

`registry[t]` is what a tag names now, `cache[f]` docker's local copy of a
reference, `ctr[<<p, m>>]` the digest that a container runs. Every start pulls first
(`StartPulled`, or `PullFallsBack` to the copy that is there), the container is made
of the copy (`Created`), and the digest for record and ledger is read from the copy
after that (`DigestRead`). An import compares the copy with its pin before
(`PinChecked`). `Move` is the owner of a tag, at any time. Calls on one project wait
for each other, since `Lifecycle` is about those that do not; calls on different
projects overlap and share the copies. A job may fail, and the process end, at each
step.

### Restore

A record is a commit, an `env`, and a setting that an export leaves out. `head[p]`
and `there[p]` are the sources, which `Push` moves and may make forget commits;
`Export` makes the bundle that an operator keeps, `NewCVM` is a machine with nothing
but that bundle, and `Boot` starts the restore as a job beside the open API. An
import goes through its entries in the order of their names; one whose clone or pin
fails is skipped, any other failure ends it. `Carried` is the env of the stored
record, read before the clone and stored after it.

### Routing

`store[p]` is port and protocol of the record, and its kind: a project has an address
of its own (`"own"`: static files, an image), a container beside the shared runtime
(`"isolated"`), or the shared runtime alone (`"shared"`). `Deploy` checks the port
(`Free`) before the build's awaits and `Built` stores it after them; `Resaved` is the
handler's second save. The number is whatever a manifest says: those in `Unbindable`
are none that a socket can have. The boot is `Start`; then `RecordUnread` (the list of
records raises), `PortsRefused`, or `ReadPorts`, which makes `portMap` and `http`; then
`BindTcp` or `BindFails`, which reads the records again. `Answers` is the dispatch: the
API and the tunnels first, then the port, then the path, which a host name is put in
front of. A port leads to `OnPort`: the project itself, or for one in the shared runtime
that runtime's router, which gets the path as the client sent it and takes its first
segment for the name of a project (`FromRouter`). `Backend` is what is behind a TCP
server. `"t"` and `"about"` are project names like any other, so that the daemon's own
paths can collide with them. There is one shared runtime, which has loaded what is
recorded: which one loads what, and when, is `SharedRuntimes`.

### Resources

`nets`, `joined` and `ctr` are docker's: the networks `tee-proj-P-M`, those the
daemon is on, and the containers. `Pool` is how many subnets docker has, so that a
creation can find none left. `proxies`, `socket` and `live` are the servers of
`dstack_proxy.py`, made and removed with those of the broker: the dictionary, the
server at the path, and those that listen, numbered because one that was replaced may
still listen. `Boot` gives networks back and lists the records; recovery then
provides one project after the other.

### SharedRuntimes

`loaded[k]` is what the router of runtime and mode `k` has loaded, `ips` the keys of
`runtime_ips`, `own` the isolated containers. What a handler does to containers is
the sequence `work`, made by `Refresh`, `Starts` and `Halts` in the order of the code
and done one step at a time (`Works`). `Served` is where `get_route` leads.

### DockerProxy

`made[c]` and `state[c]` are docker's container, `tracked` is the tracker's list, and
`jobs` the requests in progress: `Makes`, `Tracks`, `Records` for a creation,
`Forwards` and `Audits` for an operation, `Replace` for the daemon's own containers,
which are in the list, too. A request gives its container labels, of which two matter:
that it is attested, and the name of its project. `Recorded` says when a creation gets
an entry: with both. `Crash` empties the list and `Boot` fills it from what docker lists
as running.

### Router

`pc[a]` is where the supervisor's `run()` for app `a` is: about to spawn, writing the
environment, waiting for the socket, serving, or waiting for its timer. `child[a]` is
the process, which may end or hang; `client` and `sock` are what a request needs.
`Told` is SIGTERM and begins the drain, `Exits` ends it, unless docker does before, which
kills a router that still drains after 300 s (`Killed`) and with it what was in progress.
A `run()` that raises (`RunFails`) is logged the first time and ends the router later.

### BrowserPool

`pc[c]` is where the render `c` is: waiting, injecting, driving, resetting.
`free` is the queue, `jars[s]` the jars whose cookies are in browser `s`,
`late` the injections that timed out and may still arrive. HTTP calls take effect
when they are answered, or, failing, perhaps; `failed` remembers which kinds of
calls have failed, for what is promised only as long as none has. Time is abstracted: a lease may be
past its deadline at any moment, since one drive may take 90 s and a lease 30 s.

### Broker, Tokens, Tunnels, Delegation

`obj`, `index` and `disk` are the objects, the dictionary and the files. A
proxied call is `Proxy`, then (any number of other steps later) `Answer`, which
stores the object it held; `Deny` is a refusal. `Collect`, `Delete`, `Removes`
stand for the deletions that `get`, `list`, `authenticate` and the sweep do of
what is expired. `Crash` ends the process between two calls and `CrashInSave`,
`CrashInRevoke` inside a write. `Recover` reads the files.

In `Tunnels` a relay is a record of its open ends and live tasks;
`TaskEnds` is the end of one forwarding loop with the `finally` that closes the
other end. In `Delegation` an id is unissued, live or over; `Standing` in each
module maps its state to that. A grant counts as live while it is in the index
although past its date, because `reauthorize` may extend it until it is
collected; a token or a tunnel past its date is over at once.

The clock never goes back, ids are never drawn twice, and a file that was closed
survives a crash of the process. `GetKey` failing while grants are recovered ends
the boot, as a crash does. `get_by_tid` has no caller; `auth_mode` of a tunnel is
stored and never read; neither has an action beyond `Get` and `Create`.

### Scopes

Strings over two words, the slash and the blank, with `strip`, `split` and the
prefix comparison of the code on one side and the comparison of parts on the
other. Blanks are in the alphabet because `normalize_scope` strips them before it
strips slashes, and again each time a stored scope is compared. `"projects/ /"` is
stored as `"projects/ "`, which as its parts say is the project with the blank name, and
compared as `"projects"`, which lets through every `projects/app`. `AllowedPartByPart`
compares with the parts of the scope as it is stored, and excepts those that end in a
blank: for them it is not true.
The module extends `Tokens` by the scope of one token (scopes of different tokens
do not meet), which `create` takes from whatever `normalize_scope` lets through.

### Verifier

Operators only: `Errors(b, e)` is the set of legs for which `verify_from_bundle`
appends to `errors[]`, given a bundle and a consumer (is `dcap-qvl` there; the
`chain_config`, and what its RPC endpoint answers); the two reference policies;
the binding check of `proxy/evidence.py`; and the status functions of the command
line, which combine into `ProjectStatus` and `InstanceStatus`. Hashes are atoms
and a preimage is the tuple of what is hashed, with the encoding as its tag:
`facts.py` hashes app id and tree as hex text, `proxy/evidence.py` and the daemon
hash the bytes.

### Evidence

`Lifecycle` with one verification beside it. `check` is the request in progress,
with its copy of the record; `Quoted` and `Keyed` are the answers of dstack, and
`Keyed` reads the audit log and sends the bundle, so a bundle mixes two moments.
The command line asks for the project's status before (`CliLooks`) and the bundle
afterwards (`CliAsks`); the library asks for the bundle (`LibraryAsks`) or is
handed one (`Handed`). `calm` remembers that no handler was at work on the project,
or had been cut short on it, when it was read.

Assumed: the bundle parses, a `chain_config` that is given is not empty, the audit
log loads (if it does not, the bundle has an empty trail), and the daemon knows its
app id. One verification is followed, and nothing after its report.

## 3. Runs

`CHECK_DEADLOCK FALSE` everywhere: requests, faults, time and ids are bounded, and
a model that has used them up stops where the program would go on.

| run | shows | instance |
|---|---|---|
| `ledger` | ledgers load and RTMR3 covers them; the two are an append-only measured log (MeasuredLog implemented); every single edit is refused or changes nothing; the daemon ends up serving with all measured or refused | 2 projects, 2 entries, 1 of them legacy, 2 contents, 2 faults, fair |
| `ledger_crash` | *violated*: "truncated" is said of a complete ledger | 1 project, 1 fault |
| `lifecycle` | binding matches record, entry tells record, the last entry tells the settled record; a claimed binding is of the source named, a calm bundle is told by its log, no leg of the facts falls silent | two overlapping calls of any kind but teardown, 1 fault; or two overlapping uploads or promotes beside a verification, 1 fault, every small bundle and consumer |
| `lifecycle_serial` | what is served is what the record names and the last entry of the ledger tells; comes to rest serving recorded trees, unless a crash tore a record | two calls in turn, teardown too, static, shared and isolated, 1 fault, fair |
| `lifecycle_binding` | *violated*: what a bound project serves is the quoted tree | a redeploy and a promote that overlap |
| `evidence_cli` | *violated*: the command line works against an attested project | 1 promote, no fault |
| `pool` | one holder; each sees its own session until an injection fails; waiters are served if no reset fails | 3 renders, 2 browsers, 2 faults of any kind, 2 sweeps, fair |
| `pool_session` | *violated*: callers never see each other's session | no fault, 1 sweep |
| `broker` | restart forgets nothing, Delegation implemented | 2 grants, 2 secrets, 2 calls in flight, 1 crash |
| `tokens` | kept until ended; both stores implement Delegation; files go; relays end; scopes that do not end in a blank compare as their parts | 2 tokens or 2 tunnels with a visitor, 2 crashes, scopes of up to four and paths of up to five lexemes, fair |
| `boot` | requests reach their project by path, and by port as far as the shared runtime's router lets them; a boot stops only for a torn record, a number that is no port, a port of two records, TCP on a port that is not checked, or a record that changed meanwhile; a fleet comes back at its pins, whole if nothing fails; what nobody asked for does not change | routing: 2 projects, one named `t`, of three kinds, 3 numbers of which one is no port, 2 calls that may overlap, 2 faults. Restore: 2 projects, 2 commits each, 3 calls, 1 fault, 1 push, 2 envs, and callers that do not wait for each other and the restore, or do; fair |
| `containers` | records, ledgers and pins name what runs while tags stay; networks, sockets and routes are those that records ask for; an app was told the truth; requests are sent to children that listen; apps are served again or the router stops; everything comes back unless a crash tore a record | images: 2 projects, a tag, 2 digests, 2 calls, 2 faults. Resources: 2 projects, 2 subnets, 3 calls in turn and 2 faults, or 2 calls that overlap and 1 fault. Shared runtimes: 2 projects, deno, bun and node, isolated or not, 3 calls, 1 fault. Docker socket: 2 containers and a foreign one, 2 of 3 requests at once, 2 faults. Router: 2 apps, 3 ends of children, 1 failing `run()`, 2 requests. Fair |

The conjuncts of `TypesOK`, `ComesBack`, `FilesGo`, `ServedOrStopped`, `ReachesOwn` and
`HoldsItsNeeds` are properties that a component or two state, checked as one:
`ComesBack` of `containers` is `Images!Recovers`, that `Resources!Provided` at rest for
good, and `SharedRuntimes!OwnRuns`, that of `boot` is `Routing!IsUpIfItCan` for good and
`Restore!FleetReturns`.

Why these bounds. Two of whatever is contended (calls on a project, grants in a
collection, slots, trees) is where every interleaving hazard here appears, and a
third render is added because two can hold both browsers while one waits. Two faults
let a recovery be interrupted, or a failure follow a restart; in `SharedRuntimes`,
whose safety is proved, and in `Resources` with calls that overlap there is one of
either. One project is enough
for `Lifecycle`, as projects meet only in the shared runtime, whose containers
belong to no one of them; in `SharedRuntimes` two projects meet in one router, in
`Resources` they take the last subnet from each other, in `Images` one moves the copy
that the other's container is made of, and in `Routing` they take each other's port.
Three calls are a deploy, a change of mode or kind, and whatever follows; in `Routing`
the two that can take a port from each other and the boots after them are enough, as a
boot forgets all but the records. A crash that tears a record is a fault like any other:
a second fault beside it lets the daemon be cut short once before. A push
makes a restore meet a commit that is no longer the latest, or one that is gone. In
`Router` three ends of two children let one come back while the other is gone. Where
digests or commits are interchangeable the first of them is the initial one, which
leaves out permuted behaviours only. The theorems remove the bounds for the
properties they cover.

Fairness. The container that runs the daemon has a restart policy, so `Boot`,
`Recover` and `Launch` are weakly fair. Calls of git, docker, dstack and browsers
are made with timeouts or end with their connection, so a handler's next step is
weakly fair; a fault is never required and never fair. No fairness helps a daemon with a
torn record: `ComesToRest` and the conjuncts of `ComesBack` say what comes back unless
`torn` is not empty (that of a restore, if nothing fails). The sweep of the stores
runs once a minute for as long as the daemon does. No lease need be swept and no
visitor need hang up. In `Router` the event loop runs on: `run()`'s steps, answers
and the end of a drain are fair, and no child need end; `ServedOrStopped` is for apps
whose `run()` did not raise. In `Restore` and `Images` the steps of each job are fair
by themselves, since each waits for its own calls; pushes, moved tags and API calls
are not.

### Where the code departs from what is written of it

Four departures have a run of their own, with the statement it violates quoted in
`PROJECT.json` under `findings`. Others, met while modelling and left in the model
as the code has them, are not among the runs:

| the code | what is written |
|---|---|
| `recover_all` works on the records it listed at its start, beside an open API; a deploy that overlaps it can end with the name conflict of two creations, and the project stays dark although no call failed (`runtimes.py:959`) | "answers 502 for a moment" (`main.py:166-168`) |
| an unpinned deploy clones into the live `files/` and validates afterwards; refused, it leaves the new tree served and the old one recorded (`deploy.py:236`) | "The latest `promote` or `deploy` is the current attested state" (`verify-skill.md:46`) |
| a deploy that fails between its first save and its entry leaves a stored tree that no entry tells (`deploy.py:317`, `:333`) | "Record every deploy" (`deploy.py:330-331`) |
| a promote that fails at the quote leaves an attested record and no entry (`deploy.py:540`) | "records the source hash, opens the audit log" (`DEVELOPER_GUIDE.md:113`) |
| `unpromote` leaves the container with its capabilities running (`deploy.py:615`) | "honored ONLY for attested projects" (`deploy.py:246-247`) |
| `teardown` stops what the current kind uses, and leaves the container of an earlier kind (`deploy.py:444`) | "The containers are gone" (`deploy.py:452`) |
| two overlapping pinned imports share `files.pin`, and the wrong tree can go live (`deploy.py:224`) | "only replaced once the tree matches the pin" (`deploy.py:221-223`) |
| a failed reset drains its slot, and with none left a render without a timeout waits for good (`browser_pool.py:204`) | "bounded by `timeout`" (`browser_pool.py:157-158`) |
| a failed injection frees the browser without a reset (`browser_pool.py:177`) | "reset before it returns to the pool" (`browser_pool.py:6-7`) |
| a call answered after its grant was revoked writes the grant's file again (`broker.py:479`) | "so it's gone from disk" (`broker.py:256`) |
| a process that ends while a grant's file is written loses the grant (`broker.py:325`, `:354`) | recovery "drops expired/revoked records" (`rfcs/0018-credential-broker.md:126-127`) |
| `get_usage` stops at the first `limit` entries of the log, the oldest (`broker.py:306`) | "Get recent usage" (`broker.py:290`) |
| a WebSocket relay goes on through a tunnel that has ended (`ingress.py:509`) | "for the duration specified" (`rfcs/0003-temporary-proxy-access.md:47-48`) |
| a public key that is no hex makes the binding leg raise, and `verify()` with it (`facts.py:285`, `:391`) | "Both surface as errors[]; neither throws" (`facts.py:377-378`) |
| the facts library hashes app id and tree as hex text, while the daemon quotes their bytes, and the platform quote of a bundle is asked for without a report_data (`facts.py:280-286`, `evidence.py:214-220`, `ingress.py:1096`): the binding leg fails for every bundle of this daemon | "A daemon-vouched quote binds the project's tree_hash this way" (`facts.py:276`) |
| the binding leg reads the `report_data` beside the quote in the bundle, not the one that dcap-qvl reports (`facts.py:381`, `:361`) | "compared to the quote's report_data" (`facts.py:27-28`) |
| an anonymous request for a dev project's evidence is answered 401 (`ingress.py:690-693`) | "returns 404 (not 401, to avoid leaking the existence of dev projects)" (`rfcs/0015-public-verification-endpoints.md:38`) |
| a project deployed as attested has no promote event, and its facts have an audit error (`facts.py:718`) | "The latest `promote` or `deploy` is the current attested state" (`verify-skill.md:46`) |
| promote and recovery pull a tag again and run what it names by then, while record and ledger keep the digest of the deploy (`runtimes.py:795`) | "a moved tag is an error, never silently served" (`deploy.py:355-357`) |
| a teardown gives back the network of the record's mode, and the one of the mode before stays (`deploy.py:455`) | "hand back the subnet too" (`deploy.py:452`) |
| a network that the daemon itself is still on is never found empty (`runtimes.py:647`) | "Release tee-proj-* networks nothing is attached to" (`runtimes.py:642`) |
| a restore still in progress takes a project that was deployed meanwhile back to its commit in the bundle (`runtimes.py:988`) | "A non-empty registry ignores the bundle" (`runtimes.py:986-987`) |
| an export leaves out `egress`, `egress_provider` and `dstack_env`, which an import then resets (`projects.py:20`) | "the pin + redeploy manifest for one project" (`projects.py:17`) |
| a bun project gets a container that no request is sent to, and is in deno's router only after the next change of a deno project (`runtimes.py:489`, `:892`) | "bun shares deno's router" (`runtimes.py:487`) |
| `project.json` is written in place, and a process that ends in the middle of that leaves a record at which `list()` raises on every later boot (`projects.py:100-101`; `main.py:149`, `:214`); no project is served until somebody repairs the file | "a single failure [...] must NOT abort startup and take down the daemon + every other app" (`runtimes.py:966-967`, of recovery) |
| on the port of a project in the shared runtime the path goes as it is to that runtime's router, which takes its first segment for a name: on `p`'s port `/q/...` is answered by `q`, `/p/...` by `p`, anything else is 404 (`ingress.py:325-330`; `runtimes.py:295-300`, and for node and python `:361-371`, `:415-421`) | "route all traffic directly to the container (no path-based routing)" (`rfcs/0002-multi-routing.md:132`) |
| the labels of a container are looked for beside `Config`, where docker's answer has none, so no operation is recorded (`docker_proxy.py:129`) | "Record audit entry only for attested containers" (`docker_proxy.py:122`) |

They are of six families: a handler's private copy of a record (or of a grant)
outlives a change made meanwhile; effects are ordered so that a failure between two
of them leaves the earlier one standing; a write in place can be cut short; names
that one part puts in front of a path another does not; what outlives the process or
a change of mode is taken up by half; and the evidence's producer and its consumers
disagree on fields and encodings.

The following is in the models as the code has it, and nothing written says otherwise
in so many words. The properties say under what conditions they hold, which leaves this
out.

* Images. Two deploys of one tag that overlap while it moves both record the digest of
  the later pull (`deploy.py:398`). A project redeployed in the other mode keeps the
  container of the first (`runtimes.py:796`). An entry without a digest is imported
  unpinned (`deploy.py:358`), and a pull that fails at a pin ends the import, being no
  `ValueError`.
* Imports. An entry that fails otherwise than by a `ValueError` ends the import of all
  later ones (`deploy.py:644`). The env that a deploy without one carries is read before
  the clone and stored after it, also over one given meanwhile (`deploy.py:203`). A
  redeploy drops an `operator_debug`, or an image's description, that was given with
  the call (`ingress.py:919-931`).
* Ports. Two deploys that overlap can be given one port, and then no boot succeeds until
  a record is changed on disk (`deploy.py:278`, `main.py:213`); so it is with raw TCP on a
  port that the checks leave out (`main.py:255`), and with a `listen.port` that is no port:
  no range is checked (`deploy.py:271`, `:383`) and binding it raises (`main.py:247`). Map and servers are the boot's: who is
  deployed or restored later has no port until the next boot, and who was torn down
  keeps his until then (`main.py:231`). `/t/...` and `_api` go to the daemon on every
  port, so that projects called `t` or `about` are not wholly reached by path
  (`ingress.py:192-292`). With `INGRESS_PORT` other than 8080, a project may take it by
  its `listen` (`ingress.py:393`). TCP for image and static projects is sent nowhere, and for all others to the
  address of their shared runtime, isolated or not (`ingress.py:417`,
  `runtimes.py:884-897`).
* Scopes. `create` strips a scope of blanks and then of slashes, and each comparison does
  so again: `"projects/ /"` is stored as `"projects/ "` and lets through every path under
  `projects` (`tokens.py:163`, `:174`, `:178-182`), and `"projects/x /"` those of project `x`.
* Networks and sockets. An `ensure` that overlaps the `remove` of the same project can
  end with a server whose socket has been unlinked (`dstack_proxy.py:106`). A handler's
  second save brings back a record that was torn down meanwhile, without what the
  teardown took. That the daemon could not join a network is logged at debug level, and
  the container then runs where no request reaches it (`runtimes.py:614`).
* Runtimes. The routers of node and python load the projects of both modes
  (`runtimes.py:323`), and deno's loads isolated ones, too (`runtimes.py:286`). A change
  of kind leaves the container of the old one (`deploy.py:444`).
* Router. A child that cannot be spawned the first time is not tried again, and one
  that cannot be spawned later ends the router with all its apps (`runtimes.py:250`). A
  stop waits for the requests in progress for 300 s, and then docker kills what is left
  of them (`runtimes.py:518`).
* Docker socket. The creation of an attested container that names no project is answered
  201, and no ledger has an entry of it (`docker_proxy.py:184-193`). After a restart an app's containers are those that run: docker's list
  leaves out the ones that have exited, which the app may then not operate
  (`docker_proxy.py:76`).
* Grants. A grant whose audit entry fails is live, and its caller does not learn its id
  (`ingress.py:1351`).

## 4. Proofs

| theorem | says | rests on |
|---|---|---|
| `AuditLedger_proofs` `TypeCorrect`, `UpMeansIntactHolds`, `ReplayCoversHolds`, `MeasuredIsRecordedHolds` | three safety properties of the ledger | what each phase of the boot has established (every ledger outside `todo` loads) and what RTMR3 covers so far |
| `AuditLedger_proofs` `IsMeasuredLogHolds` | ledgers and RTMR3 implement MeasuredLog | the three above; entries of a ledger say what they cover, so an entry appended says one thing more (`AppendSays`), and the events of a ledger are all prefixes of that (`ToldIsEvents`) |
| `AuditLedger_proofs` `EditsDetectedHolds`, `ChangesAreSeen` | a ledger with a head file that loads after a change, or any other sequence that loads beside that head, says what it said | a hash determines the contents it covers and their number (`HashOfEntry`) |
| `Evidence_proofs` `BindingMatchesRecordHolds`, `EntryTellsRecordHolds`, `LedgerTellsRecordHolds` | record, binding and entry agree, for any overlap | every record, stored or carried by a job, names the tree its binding names; where the ledger lags behind the store a handler has still to write; `LedgerTellsRecordHolds` assumes that nothing is torn down |
| `Evidence_proofs` `LedgerTellsRecordInTurn` | the same of the ledger, teardowns included, whatever is done to other projects meanwhile | assumes `InTurn`: the handlers at work, a recovery's too, are of different projects; a step stores and writes for its own project alone (`SamePlace`), and while a teardown is about to delete the record, its entry is the last one (`Follows`) |
| `Evidence_proofs` `SerialLedgerTellsRecordHolds` | the same where all callers wait | assumes `OneAtATime`; the same invariant |
| `Evidence_proofs` `ServedIsRecordedHolds` | at rest, files, containers, routes and the last entry are what the record says | assumes `OneAtATime`; see below |
| `Evidence_proofs` `TypeCorrect`, `EvidenceTypesHold` | types of all variables, also of the work that jobs have left | a refresh is one of two pieces of work for each mode, and a recovery the starts of one project after the other |
| `BrowserPool_proofs` `TypeCorrect`, `OneHolderHolds`, `FreeIsCleanHolds`, `SeesOwnSessionHolds` | the pool's safety | queue, leases, sweeper and renders hold disjoint slots; a held browser has its holder's jar at most |
| `Evidence_proofs` `BundleBindsItsSourceHolds` | a bundle that claims a binding binds what it names | the record that a verification carries agrees with its binding, as all stored records do; handlers step as in `Lifecycle` |
| `Evidence_proofs` `CalmBundleIsToldHolds` | a bundle asked for in peace is told by the log in it, teardowns included | what a ledger has told it never takes back (`Grows`), so that a tree or a promotion told when the record was read is still told when the log is; a stored binding descends from a promotion that was recorded |
| `Evidence_proofs` `NoLegFallsSilentHolds` | no leg falls silent, for every bundle and consumer | what an absence of errors says of each leg; needs no invariant but the one above |
| `Broker_proofs` `TypeCorrect`, `RevokedStaysRevokedHolds`, `RestartForgetsNothingHolds`, `GrantsEndOnceHolds` | the broker's safety and its refinement of Delegation | a file outside the index, and an object a call may store, is marked as revoked or past its date |
| `Tokens_proofs` `TypeCorrect`, `KeptUntilEndedHolds`, `TokensEndOnceHolds` | the tokens' safety and refinement | the files are the index while up, and hold what was not ended while down |
| `Tokens_proofs` `TunnelsHold`, `TunnelsLiveOnceHolds` | the tunnels' refinement | the same of their files |
| `Tokens_proofs` `AllowedPartByPartHolds` | a scope that does not end in a blank allows what its parts name, for scopes and paths of any length | the slashes of a string in their order are its cuts, found by the least-number principle (`LeastOf`, `ListedRank`); a prefix that ends at a slash has the same cuts up to there (`PrefixSplit`); a scope that was normalized is still so when it is normalized again (`NormalizedOnce`) |
| `Routing_proofs` `TypeCorrect`, `PathReachesOwnHolds`, `PortReachesOwnHolds`, `ReachesOwnHolds` | a request reaches the project it is for, by path, and by port where the project has an address of its own; on the port of one in the shared runtime the path names who answers | until a record changes, the port map and the TCP servers are those that the records make; the port for paths is mapped to nobody (the by-path half assumes that the ingress is that port) |
| `Routing_proofs` `BootStopsOnlyForHolds` | a boot that stops without a fault has met a torn record, a number that is no port, a port of two records, TCP on a port left out of the checks, or a record that changed | the same: what cannot be bound differs from what was checked only if a record moved |
| `Routing_proofs` `PortsNotSharedHolds` | no two records have one port, ever | assumes `OneAtATime`; the port that a job carries is still free when it stores it |
| `Images_proofs` `TypeCorrect`, `UnmovedIsToldHolds`, `PinHoldsHolds` | what runs is what record, ledger and pin name, for references that did not move | docker's copy of such a reference is the registry's (`CopiesTrue`); a job past its pin check works on the record that is stored; a step is one project's own (`Local`), and keeps what holds of the others (`LocalKeeps`) |
| `Routing_proofs` `RestoredAtPinsOfAll`, `RestoredAtPinsHolds` | a fleet is restored at its commits | until somebody calls, every import is of an entry that is attached, and pinned to its commit |
| `Routing_proofs` `ChangesAreAskedHolds` | a project changes by what is asked for | one job at most, and what it carries on with is still what is recorded; a restore comes to no project that has a record |
| `Containers_proofs` `ToldIsTrueOfAll`, `ToldHolds` | a creation that an app was told of is in the ledger if it is attested and names its project, and the app may operate the container while it runs | one request at most is making a container, the tracked ones were made, and one taken off the list is gone from docker |
| `Containers_proofs` `RequestsReachListeners`, `ListenersHold` | a request is sent only to a child that has listened, and waits at one that does | a child is as the step of its `run()` has it, and the socket's file that `run()` looks at is that of the child it spawned |
| `Containers_proofs` `RoutesAreTrueOfAll`, `RoutesHold` | routes lead to containers that have loaded the project | what is still to be done fits the records; every container is as they need it, or will be, or a call failed at it. Needed are those projects whose own changes replace the container (`Users`): deno's also loads those of bun, which it is not replaced for |
| `Containers_proofs` `NeedsHold` | each project holds what its record asks for, and a listed server listens | with callers that wait: what each project has fits its record, but for the one whose handler still has to provide or remove it; with others: only its own handler knows a server until it is listed |
| `Routing_proofs` `BootTypesHold`, `Containers_proofs` `ContainersTypesHold` | types of these components | the invariants above |

In each, the inductive invariant is the conjunction of the type invariant, the properties
and that strengthening; there is one lemma per action or group of actions, one that puts
them together, and the temporal theorem follows by PTL. Almost none of the safety
properties is inductive alone: `RevokedStaysRevoked`, for one, needs to know what is in
the hands of calls in flight, `KeptUntilEnded` what is on disk while the daemon is
down, and `UnmovedIsTold` what docker's copies are, which any project may replace.
For the refinements of `Delegation`, `StepRefines` shows that every step maps to an issue,
an end of some ids, or a stutter, and for that of `MeasuredLog`, `StepImplements` that it
maps to something said, a measurement, an attestation, an end, or a stutter. Theorems whose name ends in `OfAll`, `TunnelsHold` and
`RequestsReachListeners` are of a component's own specification, and those beside them of the
behaviours of the `MC` module, whose properties the runs check.

The longest of these arguments is that of `ServedIsRecorded`. It speaks only of states
in which nobody is at work, so its invariant (`ServingInv`) has to say of every other
state what is still to come. For a project that was not left half done, either its
container runs the files that are on disk and the work that the one handler has left
touches neither container nor route (`Spares`); or that work ends in starting it
again, with nothing after that to stop it (`Restores`); or a handler will give such
work when it gets there (`Sees`): a deploy that has not started its container, or a
promote or unpromote of a shared project that has still to refresh. Files are those of
the record, unless a deploy is about to store one of theirs (`Right`). That `Refresh`
ends well for every project of a mode is because it is made from the store as it is when
the work begins, and no other handler changes the store until it is done: this is where
`OneAtATime` is needed, and where the overlaps in the table above break it. The ledger's
part is `TurnLedger`.

Hypotheses. Constants are any that satisfy the named `ASSUME`s, which every run evaluates:
sets that must not overlap do not, projects are finitely many where recovery takes them
one by one, bounds are natural numbers, and no hash is the empty string
(`HashesAssumption`). Beyond those a theorem assumes what its row says and nothing else:
`OneAtATime` (three theorems, and the two instances that have it fixed), no teardown
(`LedgerTellsRecordHolds`), handlers at work of different projects
(`LedgerTellsRecordInTurn`), and the ingress on the port for paths
(`PathReachesOwnHolds`, `ReachesOwnHolds`). A run meets each of them (where all callers wait, `InTurn` holds
too), but for `PortsNotSharedHolds`: the callers of the run of `Routing` overlap.

Theorems without a run of their own: `RevokedStaysRevoked`, `FreeIsClean` and
`MeasuredIsRecorded`, which `GrantsEndOnce`, `SeesOwnSession` and `IsMeasuredLog` rest on, `PortsNotShared`, which shows that
overlapping callers are the only way to two records with one port, and `ChangesAreSeen`,
of changes of which no run could try all.

Only model-checked:

* everything under fairness (`Converges`, `ComesToRest`, `WaitersServed`, `FilesGo`,
  `RelaysEnd`, both `ComesBack`, `ServedOrStopped`), which is beyond this prover;
* the properties of the four runs that are violated, of course.

## 5. Plan

Done, in the order of importance: A `AuditLedger`, B `Lifecycle`, C `BrowserPool`,
D `Broker` and `Delegation`, E `Tokens`, `Scopes`, `Tunnels`, F `Verifier` and
`Evidence`, G networks and sockets in `Resources`, H `Router`, I ports and boot in
`Routing`, J `Images`, K `DockerProxy`, and beside the plan `SharedRuntimes`, `Restore`
and `MeasuredLog`.

Next:

* L an abstract registry (record and entry change together) of which `Lifecycle`'s serial
  behaviour is a refinement.
* M the ladder (`proxy/ladder.py`), the console's label of what each project has
  earned, as operators beside `Verifier`.
* N dockerfile projects, whose build container and image are a fifth kind.
* O the egress network and the tokens that the broker gives to containers.
* Proofs: every safety property of the passing runs is proved.
  What is left is to weaken `OneAtATime` to what the code needs in `ServedIsRecorded` of
  static and isolated projects, as `LedgerTellsRecordInTurn` does it for the ledger; and
  the refinement of L.

## 6. Not modelled

Cryptography (hash, HMAC, sealing and quotes are injective or atomic), HTTP and
Docker wire formats, HTML and logs, the contents of manifests beyond mode, kind,
capabilities and tree, time beyond expiry dates, file system errors other than
files cut short, and machine crashes that lose writes already closed. Inside a step the
process ends only where a file is being written: not between a save and the entry that
follows it without an await, nor in the middle of the removal of a project's directory
(`projects.py:123`). The lengths of the router's delays are left out, as are the
egress network, dockerfile builds, the console and its ladder, and the sealing of
secrets. `Routing` has one shared runtime and leaves out what gets no route or socket at
all: Dockerfile projects, node and python with a container of their own, which are
recorded and which nothing starts (`deploy.py:321-326`), and protocols that are neither
http nor tcp; and the page at `/.well-known/tee-attestation`, which each port has. In `DockerProxy` containers are named by their full ids and do not remove
themselves, and the pulls that its open routes forward, its streams and the two networks
it makes at the start are not modelled. `caps/` is a
separate JavaScript package that the daemon does not load, and the examples, reports and
RFCs are not part of the daemon.
