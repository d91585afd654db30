# Cloud Run SSH: verification project

TLA+ models of `cloud-run-ssh`, the TLC configurations that check them and the
theorems about them that TLAPS proves. The paths below are relative to the
repository, whose files are under `src/` here.

## 1. The system

A Cloud Run service runs a **sidecar** container that offers SSH, a web terminal
and a web IDE. Instances behind a load balancer cannot be addressed, so the
sidecar also opens a tunnel to an **SSH Proxy Server** and registers there; a
**visitor** asks the proxy for an instance and is connected through its tunnel.

```
 browser --HTTP/websocket--> web terminal (webssh) --SSH--> sshd   } one sidecar
 sidecar loop --POST/DELETE--> registry (proxy/main.go) <--GET-- tunnel server (gost), visitor
 tunnel client (gost) ====== tunnel ======> tunnel server (gost) <==== visitor (gost)
```

### Inventory

| | Component | State | Operations | Hard behaviour | Correct when |
|---|---|---|---|---|---|
| A | SSH Proxy Server registry, `proxy/main.go` | six concurrent maps: one per level of the path (project, region, service, revision), buckets of instances per revision, and a global map from instance to config | `addInstance`, `removeInstance`, the `go Set` / `go Del` they start, the idle reaper, the GET handlers | no lock: each handler is a sequence of map operations that interleave with those of others; the global map is updated by goroutines that may run late and out of order; the reaper decides on one map and removes from another | an answered registration is found by every reader; a removal removes; an idle entry is dropped, a renewed one is not |
| B | Request filters and configuration, `proxy/main.go`, `proxy/pkg/config` | none after start | `idTokenVerifier`, `accessControl`, `LoadYAML` | none: lookups in fixed lists | a request reaches a handler only if every configured list admits it |
| C | Tunnel server and clients (gost) | ingress rules, reloaded every 5 s | reload, bind, route | external program | routes follow the registry |
| D | Sidecar lifecycle, `poll_ssh_proxy_server`, `init/wssh` | the processes of a container: script, loop, tunnel client | verify the server, POST every 60 s, DELETE on exit | lost, overtaken and late DELETE, lost pings, restart of the server and of the script, the loop that exits with 0 | a live sidecar is registered; a dead one is forgotten in time |
| E | Visitor, `visitor/start_ssh_proxy_visitor` | none | look up, connect | the answer may be stale when it is used | connects to the instance it named |
| F | Web terminal session registry, `webssh/worker.py`, `webssh/handler.py` | `clients: {ip: {id: worker}}`, workers, websockets, timers | POST (connect in a thread), websocket open and close, recycle timer, channel end | state read before a `yield` and used after it; a timer that races the websocket | one websocket per worker; the limit holds; nothing is left over |
| G | Web terminal data path, `Worker.on_read/on_write`, `WsockHandler.on_message` | `data_to_dst`, `mode`, retry timers | receive, send, retry | partial sends, retries from timers, READ off while WRITE is on | the shell gets every byte once and in order, and both directions move on |
| H | Host key policy, `webssh/policy.py` | keys in memory, the file of known hosts, a lock | `missing_host_key` | several connecting threads, a file that cannot be written | one key per host and type; a different one is refused |
| I | SSH authentication, `handler.py` | the text of the key as a stream, what the server has accepted, the round of its dialogue | `PrivateKey`, `_auth`, `handler` | the order of methods, a method that counts only in part, paramiko's own dialogue, a stream that every attempt uses up | good credentials log in; a usable key is read |
| J | Browser client, `static/js/main.js` | `state`, queues of commands, handlers | connect, callbacks of XHR and websocket, run/cancel | handlers of old sessions that run in a new one, connects that end in many ways | one connection; never stuck in CONNECTING; the shown command runs, once |
| K | Checks and settings of a request, `handler.py`, `utils.py`, `settings.py`, `main.py` | how far the request is | `check_request`, `check_origin`, `get_args`, `ssh_connect` | default ports, missing schemes, names compared from the right, the order of the checks | only what the options let in is dialled |
| L | Images, s6 services, nginx | - | - | configuration of third-party programs | not modelled |

`PROJECT.json` lists the components with their status, and under `hazards` what is
hard to test in each, at its line.

## 2. Plan

In order of importance; the parts marked *done* are in this directory.

1. *done* `ProxyRegistry`: A, every map operation a step, which implements the
   abstract `Registry` (one map from instances to registrations).
2. *done* `WebsshWorkers`: F, every callback of the IO loop a step, which implements
   the abstract `Sessions` (tickets that one websocket may use).
3. *done* `WorkerIO`: G, which implements the abstract `ByteStream` (what the
   browser types comes back once and in order).
4. *done* `HostKeys`: H, threads, failing writes, restarts, which implements the
   abstract `KnownHosts` (trust on first use).
5. *done* `Deployment`: D, with the part of C that follows the registry: the
   processes of a sidecar, their requests, losses, restarts, the reaper, the rules.
6. *done* `BrowserClient`: J, the connection, and the commands of all sessions of a
   page.
7. *done* `PrimaryDomain`, `PrivateKeys`, `SshAuth` (I, K), and `WebRequest`, which
   composes them to what happens to a POST from its socket to its answer.

Each of 1 to 6 and `WebRequest` has its proofs in a module `<name>Proofs`; those of
the parts of a request are in `RequestPartsProofs`, which `WebRequestProofs`
extends. B, E and L are not modelled (section 7).

How the modules fit together: `ProxyRegistry` implements `Registry`, `WebsshWorkers`
implements `Sessions`, `WorkerIO` implements `ByteStream`, `HostKeys` implements
`KnownHosts`; `WebRequest` implements `PrimaryDomain`, `PrivateKeys` and `SshAuth`.
`WebRequest` ends where `WebsshWorkers` begins (`Connect` and `Register` there),
`WebsshWorkers` hands a worker to the session that `WorkerIO` models, and `HostKeys`
is what `Connect` of `WebRequest` calls when a host is unknown.

`Deployment` has the registry's two maps again, for one revision: the bucket, which
racing first POSTs may replace, the global map, and the goroutines that change the
global map after a request or the reaper has changed the bucket. What it leaves out
of `ProxyRegistry` is the levels above the revision and a second revision of the same
name. What it adds is time: how long a rule lives, and that the next ping repairs what
a late goroutine has done or a replaced bucket has cost.

## 3. Modules

### ProxyRegistry (A)

One step is one operation on one haxmap, which is what haxmap makes atomic. A
handler is a program counter `pc[r]` with its locals; `r` is the request, and
every request is sent at most once, which bounds the behaviours. A config is
named by the POST that stores it and a bucket by the POST that creates it.

| Model | Code |
|---|---|
| `known`, `revisionToInstancesMap`, `bucket` | the map of each level; the code's providers return the one global map of the next level, so the levels are flat: a path resolves if each of its keys is known, by itself, at its level |
| `instanceToConfigMap` | the global map, from which `/ingress-rules` is answered |
| `spawned` | the `go instanceToConfigMap.Set(..)` and `go ..Del(..)` that have not run |
| `Lookup`, `FindBucket`, `NewBucket`, `SetInBucket`, `Insert` | the nested `GetOrCompute` of `addInstance`: look up from the top, run the provider of an absent key (which does the same below), insert when it returns |
| `Resolve`, `CheckTunnel`, `GetAndDel` | `removeInstance`. The chain of Gets is one step: no level loses a key, so the chain succeeds exactly if its last Get finds what all of them need |
| `ReapVisit` .. `ReapDel` | `idleInstancesReaper`. A visit of a fresh entry changes nothing, so what is left of a pass is that any stale entry may be visited next |
| `registered`, `status`, `doomed`, `rivals`, `astray`, `reaperAstray` | what `Registry` sees: the entry of an instance in the bucket that its revision leads to, how far a request is, what the reaper holds, who owes a bucket that will replace the linked one, who holds a pointer to one that was replaced |

haxmap is v1.4.0 (go.mod:6), which is not in `src/`: its operations are external.
Its `GetOrCompute` looks the key up, calls the provider and then stores what it
returned, over a value that was put there meanwhile, and reports it as new. So no
walk is ever repeated, and at the revision level a bucket may be replaced by another
one (`Insert`). Above it the value that is stored is the same global map.

`Registry` promises one map. A POST stores once, between its arrival and its answer.
A DELETE and the reaper look first and remove later, whatever is there by then. A
DELETE may answer 404 of a registered instance only as long as no POST of that
instance has been answered. One promise less simple is what the replaced buckets
cost: when the first POST of a revision stores, others that have not stored may be
its *rivals*; a rival that stores drops the other registrations of the revision, and
whoever was busy with these goes *astray*, with no effect that anybody sees. A POST
that arrives later is never a rival.

Left out: the request filters (they decide whether a handler runs, and change
nothing), the JSON bodies, logging, the GET handlers (they read; a property says
what they would find).

### WebsshWorkers (F)

Tornado runs one callback at a time, so a callback is a step, with one
exception: `IndexHandler.post` yields while a thread connects. `Submit` is the
part before the yield, `Register` and `ConnectFails` the part after it. `workers`
is the local variable that carries the dict across the yield: a dict is named by
the POST that created it, because a POST may register in a dict that is no
longer, or not yet, the one in `clients`.

| Model | Code |
|---|---|
| `clients`, `entry` | `{ip: {id: worker}}`; an entry is the worker, `None` once a websocket took it, or absent |
| `ClearWorker` | `clear_worker`, also where it raises (`broken`): the worker is then closed but stays in a dict that nobody looks at |
| `Recycle` | the `call_later(options.delay, recycle_worker, worker)` of a POST |
| `ChannelEnds` | `Worker.on_read`, `on_write` and the error event when they close the worker |
| `OpenSocket`, `RefuseSocket`, `OnClose` | `WsockHandler.open` and `on_close` |
| `ticket`, `missed` | what `Sessions` sees: whether a websocket would find the worker, and the POSTs whose registration would now replace a dict or go into one that is no longer in `clients` (`OutOfDate`) |

`Sessions` promises tickets. An id that a POST returned may be used by one websocket
and is void once its session has ended; a client is refused only while it has
`MaxConn` open sessions; a websocket that goes, and a timer that finds no websocket,
end the session. A ticket may also be lost before it was used, or be void from the
start, but only to a POST that was connecting while another POST of the same client
was answered: a client that sends one POST after the other keeps its tickets.

Left out: argument parsing, the connecting itself, the data (module `WorkerIO`).

### ByteStream, WorkerIO (G)

`ByteStream` is the promise: of the characters that were sent, numbered in order,
what has come out is a beginning; the terminal closes only when its user leaves or
the program has ended, and then with all the output received, unless some input was
still to be sent. `WorkerIO` is one session, from the websocket to
the program and back; its program prints what it reads, so that one character can
be followed all the way round, and stops reading while its output is not taken.

| Model | Code |
|---|---|
| `data_to_dst`, `mode`, `closed` | the fields of `Worker`; the pieces of `data_to_dst` are joined, as `on_write` joins them |
| `retries` | the timers that `update_handler` starts and that have not fired |
| `OnWrite` | `Worker.on_write`, split by what `chan.send` does: raise because the channel is closed, time out because the window is used up, take as much as the window and a packet allow |
| `OnMessage`, `Retry` | the two callers of `on_write`: `WsockHandler.on_message`, and `Worker.__call__` from a timer |
| `ReadData`, `ReadEnd` | `Worker.on_read`, which the loop calls in READ mode only |
| `stdin`, `stdout`, `Echo`, `Exit` | external: the windows of the channel and the program |

paramiko's file descriptor is the read end of a pipe and never becomes ready for
writing, so in WRITE mode only the timers send. Characters stand for what
`chan.send` counts: it cuts the string before it encodes it.

### HostKeys (H)

The policy that `init/wssh` selects, `autoadd`. The threads of
`IndexHandler.executor` share the keys in memory (`get_ssh_client`).

| Model | Code |
|---|---|
| `memory`, `file`, `lock` | `host_keys_settings["host_keys"]`, the lines of the file of known hosts, `AutoAddPolicy.lock` |
| `torn`, `spoilt` | a failed write has left a part of a line, which holds no key yet; the keys whose line was appended to such a part (what paramiko makes of that line is external: the model takes the key for lost) |
| `Load`, `Truncate`, `Save` | `load_host_keys`, then `check_policy_setting`, whose save empties the file and writes it again |
| `Connect`, `Verify` | `ssh.connect`: look the host up, shake hands, compare with what was looked up; only a host that had no key goes on to the policy |
| `Acquire`, `Check`, `AppendKey`, `Write`, `WriteFails` | `missing_host_key`, one step per access to what other threads or a kill can see |
| `trusted`, `outcome`, `ready`, `unsaved` | what `KnownHosts` sees: the keys in memory (in the file, while they are not loaded), how far a connection is, whether the process has started, the keys that are in memory only |
| `Restart` | the process dies at any step and supervisord starts it again |

`KnownHosts` promises trust on first use: the first key of a type is trusted from
then on, a connection is accepted with a trusted key only and refused only if the
host is trusted with another one, and a restart keeps what is saved by then. A key
is saved before its connection is accepted; one whose write fails stays trusted
unsaved, and may take with it the next one that is written. Nothing is safe while
the process is still starting.

Hosts of the system's own file are left out: paramiko compares their keys without
asking the policy.

### Deployment (C, D)

A tick is a minute, the interval of the pings, of the reaper and (rounded up) of
the tunnel server's loads. Between two ticks every loop pings once, the reaper makes
a pass, the rules are loaded, every request is delivered or lost and every goroutine
has run: `Tick` waits for that. In between they come in any order.

| Model | Code |
|---|---|
| `Start`, `WebEnds`, `KillLoop`, `KillClient`, `ClientEnds`, `ScriptEnds` | `init/wssh` from its first to its last line. Nothing waits for the end of the tunnel client: `Start` may come before it, and then the new client may find its addresses taken and end. `ScriptEnds` is also supervisord's kill three seconds after the stop (`conf/app.conf`), which leaves the DELETE's process behind |
| `Verify`, `VerifyFails`, `SendPing`, `PingFails`, `Pause` | `poll_ssh_proxy_server POST`; what became of a request makes no difference to the loop |
| `closing`, `SendDelete`, `DeleteFails` | `poll_ssh_proxy_server DELETE`: it needs the tunnel client that was just killed, or that of the next run |
| `bucket`, `age`, `spawned`, `handling` | the bucket of the revision; the age of an instance's entry in `instanceToConfigMap`; the goroutines on that map that have not run; the POSTs that have started theirs and not stored in the bucket yet |
| `PostArrives`, `AddInstance`, `RunSet` | `addInstance`: the `go Set` starts first, then the bucket gets its entry; the goroutine runs before, between or after |
| `opened`, `rivals`, `astray`, `Ways` | the look-up of the bucket, which comes before the entry: the POSTs that are in `addInstance` when the first bucket appears may have found none and replace it, with what it holds; the requests that are busy then may have found the one that is replaced. `ProxyRegistry` has the look-up as a step |
| `RemoveInstance`, `RunDel` | `removeInstance` and its `go Del`; the tunnel is the same for all runs in a container, so the check of the tunnel always passes |
| `passed`, `picked`, `ReaperLooks`, `ReaperRemoves` | the reaper looks at the age in one map, then removes from the other what is there by then; the `Del` that follows is its own next step |
| `IngressRules`, `LoadRules` | `/ingress-rules`, which lists the global map, and `reload` of `ssh_proxy_server.yaml` |
| `ServerRestarts` | both maps, the goroutines and the requests in the handlers are gone |
| `crossed` | instances with a POST that a removal met halfway, or in a bucket that was replaced; a POST that runs alone, in both maps, ends it |
| `kept`, `missed`, `since` | bookkeeping of the properties |

`curl` has no timeout; a ping's answer or failure is taken to come within its tick.
The tunnel client does not crash by itself. A request that the filters of the server
stop is a lost one.

### PrimaryDomain, PrivateKeys, SshAuth, WebRequest (I, K)

| Model | Code |
|---|---|
| `PrimaryDomain` | `is_same_primary_domain`, one character per step; the reference says what it should return without the loop: equal names, or the same last two labels |
| `PrivateKeys` | `PrivateKey`: `parse_name` searches the header, `get_specific_pkey` moves the stream back to it for every class it tries. A file is a sequence of lines, a line is a tag or text |
| `SshAuth` | `_auth`, `auth_interactive` and `handler`. The server is a set of chains of methods and a dialogue in rounds; `fallback` is paramiko's dialogue for a password that is no method of its own |
| `WebRequest` | `check_request`, `check_origin`, `get_args`, `ssh_connect` and `post`, one step each, or many where one of the three modules works; `Init` picks options, a request, a server and credentials |

`WebRequest` extends the three, and each of its steps is a step of at most one of
them. A URL is a scheme, a domain and a port, each of which may be left out in the
list of origins; a name is its labels. Names and addresses are in lower case.
`maxconn` is in `WebsshWorkers`, Tornado's check of the xsrf cookie is external.

* An error that `post` does not catch goes through Tornado's `send_error`, which
  clears the headers (`Raise`): a page from elsewhere cannot read such an answer.
* The port is taken off with `rsplit(":", 1)` whether there is one or not. Of an IPv6
  address without a port that cuts the last group (`BeforeLastColon`).
* `invoke_shell` and the commands that ask for the encoding may find the server gone,
  or be refused (`Breaks`), also after a login that was accepted.
* `tries` counts the two commands of `get_default_encoding`; only the type invariant
  uses it.

### BrowserClient (J)

| Model | Code |
|---|---|
| `state`, `post`, `sock` | `state`; the key file and the POST of a connect; the sockets of all sessions |
| `Connect`, `KeyRead`, `Refused`, `Accepted`, `Open`, `Close` | `connect`, the callback of the file reader, `ajax_complete_callback`, `onopen`, `onclose` |
| `queue`, `catalog`, `dialog`, `inputs` | each session has its own `commandQueue` and its own modal object for the one dialog; inputs are in the page, and whose they are depends on who filled the dialog last |
| `CatalogLoaded`, `Choose`, `FillIn` | `onCatalogsLoaded` and its click handler |
| `Click`, `Run`, `Cancel`, `Callbacks` | a click runs the handlers of all sessions, oldest first, until one throws |

Left out: the terminal and its transcript, downloads, fonts, resizing, the
validation of the form.

## 4. Runs

| Run | Instance | Question and result |
|---|---|---|
| `registry` | POSTs of two instances whose services share the project and the revision's name, a DELETE of the first, the reaper; the clock ticks once; fair scheduler | Do the nested GetOrComputes leave a path half made, or file a config where DELETE does not look? No. Does an instance that nothing removed stay in the ingress rules? Yes. Are the maps, the replaced buckets included, one map from instances to registrations, as `Registry` says? Yes. Is every stale rule with a bucket entry reaped? Yes. |
| `registry_lost` | POSTs of the two instances | Is an instance whose POST was answered in its bucket (README.md:286)? **No**: of two first POSTs of a revision the later insert replaces the other's bucket. |
| `registry_ghost` | two POSTs and a DELETE of one instance, the reaper | Is every stale rule dropped (README.md:304)? **No**: a late `go Set` leaves a rule that the reaper skips for ever. |
| `registry_renew` | three POSTs of one instance and the reaper | Is only what was not renewed dropped (README.md:302-304)? **No**: the age is read from one map and the entry taken from the other. |
| `workers` | three POSTs of one client and one of another, two websockets, limit 1, fair timers | One websocket per worker, no closed or foreign worker handed out, no empty dict, tickets as `Sessions` says (no refusal below the limit, no ticket lost but to overlapping POSTs), every abandoned worker closed: hold. |
| `workers_maxconn` | three POSTs of one client | Does `maxconn` bound the live sessions (settings.py:60)? **No**: POSTs that are connecting are not counted. |
| `workers_assert` | three POSTs of one client | Does `clear_worker` always find its worker (worker.py:21)? **No**: two first POSTs use two dicts. |
| `worker_io` | 8 characters in messages of up to 4, window 3, packets of 2, output window 2, reads of 1; fair loop | Every character once and in order, as `ByteStream` says; reading resumes; a message adds one timer at most and nothing else adds any; all comes back unless both windows are full; the end of the program closes the session: hold. |
| `host_keys` | two connections to one host, one to another; two keys of one type, one of another; one restart | One key per host and type, trust on first use as `KnownHosts` says, what is accepted is in the file unless its own writer was told of a failure (or an earlier failure has spoilt the line), only an interrupted save takes a line off the disk, no thread waits for ever: hold. |
| `web_requests` | six families of requests, each varied in one respect: address and options, asking page, its domain (all pairs of names of up to four characters, and longer ones), arguments, key file, server and login | Is only what the options let in dialled, and refused for the right reason? Does the comparison of domains mean what it says? Is every usable key read? Do good credentials log in? Yes. |
| `deployment` | one sidecar, timeout 3 ticks, two runs of the script, one loss, one restart of the server; fair processes | Does what pings stay registered, in both maps? Is what is gone forgotten, by the registry and by the tunnel server, in time? Yes, unless a POST and a removal met halfway or a bucket was replaced. Does a running script get its rule again, after those too? Yes, but for a loop that could not verify the server. |
| `browser_client` | three sessions, two commands, queues of two; fair callbacks | Is there one connection at a time, does Run send what is shown or nothing, does connecting end? Yes, but for an unreadable key file. |

**Bounds.** Three requests suffice for what two handlers and a third party (a DELETE,
another POST, the reaper) can do to each other: every handler holds at most one
pointer and looks at one path. The two paths of `registry` have the top and the bottom
level in common and differ in between, so that one POST finds some of its keys, makes
others, and races for the bucket; a DELETE and the reaper hold pointers to buckets
that are replaced. A second revision would have maps of its own below what is shared;
a POST that goes astray takes a third POST. Both are left to the proofs. `Timeout` and
`MaxTime` are one tick (no tick in `registry_lost`): an entry is either fresh or
stale, and one tick lets it become stale and be renewed. Three POSTs of one client are
needed to replace a dict and then empty it, the fourth is another client's; two
websockets race for one worker. In `worker_io` every window is smaller than a message
and a message smaller than what is typed, so sends are partial, time out and meet new
messages. In `host_keys` two threads race and a third uses the same file; `MaxStarts`
is one, since a restart reads only the file. In `web_requests` a request that is wrong
in two respects is stopped by the first, so one respect at a time loses nothing
between the checks; the proofs vary all of them together. In `deployment` instances
share the ticks and the reaper's pass, which one instance has too, and the bucket,
which POSTs of two runs of one script replace too; that a third POST goes astray then
is left to the proofs; a timeout of three ticks has room for the one ping that may be
lost, and a script that has ended lets its registration go stale, so that the next
run's POST meets the reaper; two runs give an old DELETE and a new loop. In
`browser_client` the handlers of two old sessions run before the third's, and two
commands are enough to have a queue with another command than the shown one in front.
All the safety properties and refinements are also proved, without these bounds.

**Deadlock** is checked in `deployment`, where time can always go on. It is off in the
other configurations: requests, POSTs and websockets are finitely many and nobody has
to send one, so the system may stop. That nothing stops half-way is what the liveness
runs check.

**Fairness.** For the registry: Go's scheduler runs every goroutine (weak fairness
of each handler and of each spawned goroutine), and each pass of the reaper visits
every entry (strong fairness of `ReapVisit`, because visits of other entries disable
it in between). No client has to send a request and the clock need not move. In
`WorkerIO` timers fire, the loop serves a readable descriptor and the program goes
on while it can. In `HostKeys` every thread runs on and the process, once started,
gets through its start. For the web terminal: a connecting thread ends (connect has
a timeout), `call_later` fires, a websocket that is being closed gets closed. The
end of a channel is not fair: a shell may run for ever. In `Deployment` the
processes and the goroutines that run go on, the reaper and the tunnel server have
timers, time passes and a request that is not lost arrives; nobody has to start or stop anything, and
losses and restarts are bounded, so that there is a time after the last of them. In
`BrowserClient` files are read, POSTs end, sockets open or fail and handlers run to
their end; strong fairness, because a click disables callbacks while its handlers
run, and the event loop does not put off a callback for ever for clicks.

## 5. Proofs

The theorems hold for all values of the constants that satisfy the assumptions
named in the modules (for `WebsshWorkers`, finitely many workers). Each rests on an
inductive invariant, because no property is inductive by itself. The proof of a
step goes action by action; lemmas say which actions touch a variable at all.

| Theorem | States |
|---|---|
| `ProxyRegistryProofs` | any paths, any number of requests, any timeout |
| `TypeCorrect` | `[]TypeOK` |
| `AcceptedResolvesHolds` | a registration that was answered 202 resolves |
| `ParentsHaveChildrenHolds` | a visible key has all the levels of some path below it |
| `FiledUnderRevisionHolds` | configs are filed under their revision and instance |
| `AcceptedIsRoutedHolds` | an answered registration is in the ingress rules or will be, unless it was removed |
| `RegistryImplemented` | `ProxyRegistry` implements `Registry` |
| `WebsshWorkersProofs` | |
| `WorkersTypeCorrect`, `OneSocketPerWorkerHolds`, `FoundWorkersAreOpenHolds`, `NoEmptyDictHolds` | the invariants of the run `workers` |
| `RefusedOnlyIfFullHolds` | a client is refused only for sessions that are open |
| `SessionsImplemented` | `WebsshWorkers` implements `Sessions` |
| `WorkerIOProofs` | any windows, packets and buffers |
| `IOTypeCorrect`, `EveryCharOnceInOrderHolds`, `WaitingIsRetriedHolds`, `RetriesDoNotMultiplyHolds` | the safety properties of `worker_io` |
| `ByteStreamImplemented` | `WorkerIO` implements `ByteStream` |
| `HostKeysProofs` | any threads, keys and restarts |
| `KeysTypeCorrect`, `OneKeyPerTypeHolds`, `AcceptedIsKeptHolds`, `LostOnlyInSaveHolds` | the safety properties of `host_keys` |
| `SameKeyAcceptedHolds` | a process never accepts two keys of one type for one host |
| `KnownHostsImplemented` | `HostKeys` implements `KnownHosts` |
| `RequestPartsProofs` | any characters, names of any length; any servers and credentials |
| `ComparisonTypeCorrect`, `ComparesPrimaryDomainsHolds` | the loop returns what the reference says |
| `AuthTypeCorrect`, `GoodCredentialsLogInHolds` | who has what the server asks for is logged in |
| `WebRequestProofs` | any options, requests, key files, servers |
| `PartsImplemented` | a request implements `PrimaryDomain`, `PrivateKeys` and `SshAuth` |
| `UsableKeysAreReadHolds`, `RequestTypeCorrect`, `AdmissionIsRightHolds` | the other safety properties of `web_requests` |
| `DeploymentProofs` | any number of instances, any timeout and bounds |
| `DeploymentTypeCorrect`, `LiveIsRegisteredHolds`, `ForgottenInTimeHolds` | the safety properties of `deployment` |
| `BrowserClientProofs` | any catalog, any number of sessions, queues of any length |
| `PageTypeCorrect`, `OneConnectionHolds`, `ShownCommandRunsHolds` | the safety properties of `browser_client` |

**ProxyRegistry.** `AcceptedResolves` needs to know what a walk has left behind:
every level above `level[r]` is either known or still in `absent[r]` (*WalkOK*).
`ParentsHaveChildren` needs that insertion goes from the deepest absent level up, so
that the same part of the invariant says that the levels below the one being
inserted are there. `FiledUnderRevision` needs where each held pointer came from
(*PointersOK*). `AcceptedIsRouted` needs the origin of every pending goroutine: a
`Del` in `spawned` belongs to a DELETE that was answered, and what the reaper is
about to remove was stale when it was visited and time does not go back
(*Origins*). `RegistryImplemented` needs to know whose bucket is which: a bucket
that is linked is that of a POST that has stored (*LinkedOK*); one that is not made
or not inserted yet has no entry but its creator's and nobody holds a pointer to it
(*PrivateOK*), so that its insert is one registration and drops what the bucket
before it held; and who holds a pointer is about to use it (*HoldersOK*), so that it
is either to the linked bucket or its holder is astray. From there a step leaves
`registered` as it is (*SameReading*), changes it at one instance (*LinkedWrite*),
writes where nobody looks (*HiddenWrite*), or replaces a bucket (*InsertImplements*):
the first of its revision or a rival's (*FirstOfRevision*, *RivalOfRevision*).

**WebsshWorkers.** *WorkersInv* ties the three places a worker can be in to each
other: a POST that has registered, an entry in some dict, a websocket. For the
refinement, the end of a worker changes no other ticket and makes no POST out of
date (*CloseClears*); only a registration of the same client does
(*RegisterImplements*).

**WorkerIO.** *IOInv* is the conjunction of the safety properties with the types;
the refinement adds up how much is where (*Amounts*): what is shown is a prefix of
what was typed, and the rest is in the window, in the output or still to be sent.

**HostKeys.** *KeysInv* says that the thread in the critical section is the one
that holds the lock, that its check still holds when it appends, and that a
snapshot is never more than what is in memory now. That makes the acceptance by
`Verify` one by what is trusted now, although it compares with the snapshot, and
the refusals too. *Written* says that what is in memory is on disk, about to be, or
had its write fail; *TornOK*, that a save begins with an empty file. So what a
restart takes away, once the process is up, was never saved.

**PrimaryDomain** (in `RequestPartsProofs`, like the next). *LoopInv* is the loop's:
what was compared is equal, and `dots` says whether it holds no dot or one. Three
lemmas say what that makes of a difference, of a second dot and of the end of the
shorter name.

**SshAuth.** *AuthPlace* says at each point what has been tried: a dialogue follows
either a key that was accepted, or a password that is no method of the server.

**WebRequest.** Each step is a step of one part or leaves it alone
(`PartsImplemented`), so the theorems of the parts hold of a request. *KeyInv* says
that the stream's header is the one that every class begins at; that the first
header exists is the least element of a set, from well-founded induction on the
naturals. *Flow* says for each stage which checks have let the request pass, and
when the header is set; of the two hosts that are compared, what `rsplit` leaves is
the whole name unless `AddressIsCut` (*WholeNames*).

**Deployment.** The invariant speaks of one instance at a time. *MapsAgree*: unless
a POST and a removal met or a bucket was replaced, only goroutines that are still to
run make the two maps differ, and no entry is older than the timeout; what a POST
leaves of the bucket is a lemma of its own (*AddStores*). *LeftFresh*: what the reaper has
passed this tick and could have removed is not stale; with *OnePicked* that gives
the bound of the age. *KeptIsYoung*: the age of a registration is the number of
pings lost since, plus one while the ping of this tick is under way. *GoneAges*: a
container that is gone sends nothing after the first tick, so its entry in the
global map is at least as old as its end, and a rule was loaded from such an entry.

**BrowserClient.** *PageInv*: whoever connects has a session left, and only the
newest session is not closed. *ClickInv*: the inputs on the page are those of the
shown command, the first handler that sends drops them, and a handler that finds
none sends nothing; in the first session the queue is exactly what the dialog
shows.

Only model-checked: the liveness properties (temporal reasoning with fairness, and
ENABLED, are out of the prover's reach), and what the five runs with a violation
show, which a proof could not.

## 6. What the runs found

Shown by a run:

* Two first POSTs of a revision may each make a bucket; the later insert replaces the
  other, and a registration that was answered 202 is found by no GET, DELETE or
  reaper until its next ping (`registry_lost`). It is the only way in which `Registry`
  is less than one map.
* A stale ingress rule can live for ever, and a renewed registration can be
  dropped (`registry_ghost`, `registry_renew`).
* `maxconn` does not bound the sessions of a client, and `clear_worker`'s assertion
  can fail (`workers_maxconn`, `workers_assert`). In that case the connection has
  been closed already, and the worker stays in a dict that is not reachable:
  `FoundWorkersAreOpen` holds. The registration that replaced the dict has also cost
  the client the ids in it that no websocket had used yet: their websockets are
  refused until the timers close the sessions (`LoseOthers` in `Sessions`).

States that a property names as its exception, because the code does reach them:

* With both windows of a channel full the data path can stall (`Jammed`): a worker
  with something to send does not read, a program that waits for its output to be
  taken does not read either. `TypedIsShown` excepts that case.
* The goroutines of a POST and of a removal that meet halfway may leave the two maps
  different: a late `Set` keeps the rule of an instance that is gone, for ever
  (`crossed` in `ForgottenInTime`), a late `Del` takes the rule of one that is
  registered, until its next ping (`BecomesReachable`). An instance whose bucket was
  replaced and that never pings again keeps its rule for ever as well.
* A failed write of the file of known hosts refuses the connection but keeps the
  key: the next connection is accepted, and the key is unknown after a restart, so
  that file and memory differ, which tests/test_policy.py:121 compares. A part of a
  line that such a write leaves spoils the next line (`AcceptedIsKept`,
  `unsaved` and `torn` in `KnownHosts`).
* The save at the start, a "permission test" (policy.py:44), empties the file first:
  a process killed there has lost its keys (`LostOnlyInSave`).
* Under the policy `primary` the host of an IPv6 address without a port loses its last
  group to `rsplit` (handler.py:251): different addresses compare equal, and a page on
  another port of the terminal's own address is refused (`AddressIsCut`).
* An internal error after the header for pages from elsewhere was set (handler.py:498)
  clears it: such a page is told nothing (`AdmissionIsRight`).
* A sidecar that cannot verify the server when its script starts never pings
  (`BecomesReachable` excepts it): the loop exits with status 0 and nothing starts it
  again while the script runs.
* The next run of a script may start its tunnel client while the one before still
  holds its addresses; if the new one then ends, that run pings in vain
  (`BecomesReachable` speaks of runs whose client lives).
* If the key file cannot be read as text the page stays in CONNECTING, and answers
  "This client is connecting ..." (main.js:54), until it is reloaded
  (`ConnectingEnds`).

Seen while modelling:

* The DELETE of a stopping sidecar goes through the tunnel client that was killed
  just before, and waits three seconds of the three that supervisord gives: in most
  schedules it is the reaper that drops the registration. Left behind by a killed
  script, it can remove what the next run has registered, until that run's next ping.
* The origin `*` is accepted outside debug mode (`get_origin_setting`), and
  `init/wssh` uses it, although the text of the option (settings.py:51) says "allowed in
  debug mode only". The origin `same` compares host and port, not the scheme.
* `SshAuth` logs in with a key, a key and a code, a password, or a password and a code
  that are asked for one by one. It does not with a key and then a password, a
  password and then a dialogue as a second method, or a dialogue that asks for
  password and code in one round: paramiko's own dialogue raises there and the
  transport ends before the right one is tried. `CanLogIn` names the four cases.
* After a reconnect the handlers of the first session run first, usually on an empty
  queue, and throw: the dialog sends nothing, so "Execute commands from the UI using a
  catalog with 2 clicks" (README.md:18) holds in the first session of a page, as
  `ShownCommandRuns` says. A command without a filled-in argument is never sent.

## 7. Not modelled

* B, the request filters: chains of lookups in a fixed configuration, which change
  nothing. A request that they stop is a lost one in `Deployment`.
* E, the visitor: a script that asks once and starts gost with the answer.
* L, and the programs themselves: gost (but for its loads of the rules), sshd, nginx,
  s6 and code-server are external. The images and the init scripts run once, in a
  fixed order.
* HTTP transport, TLS and the xsrf cookie are the libraries'. Of the web terminal's
  settings, fonts, templates and the files of the SSL context are left out, and so are
  the address behind a proxy (an input of the models) and the length limit of keys.
* Of the page, what is listed under `BrowserClient`.
